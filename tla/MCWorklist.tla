----------------------------- MODULE MCWorklist -----------------------------
(* Small instances of Worklist.                                              *)
EXTENDS Worklist

CONSTANTS corpus, act, case, report

\* The corpus cites an act and a case, the case a report and the act.
Graph == [d \in {corpus, act, case, report} |->
            CASE d = corpus -> {act, case}
              [] d = case -> {act, report}
              [] OTHER -> {}]

Ranks == [r \in {act, case, report} |->
            CASE r = case -> 1 [] r = act -> 2 [] OTHER -> 3]

Servers == [r \in {act, case, report} |-> IF r = act THEN "leg" ELSE "caselaw"]

\* The scheduled drain is large, the other small.
Limits == [p \in Drain |-> IF p = 1 THEN 2 ELSE 1]
Slices == [p \in Drain |-> 2]
=============================================================================
