---------------------------- MODULE MCDocuments ----------------------------
(* Small instances of Documents.                                             *)
EXTENDS Documents, TLC

CONSTANTS first, revised,    \* texts
          full, short, part, \* citations: two of an act, and one of its section 5
          act, held,         \* the id the grammar makes, and the one it is held by
          w1, w2

\* The revision drops a citation and adds one.
Texts == [x \in {first, revised} |-> IF x = first THEN {full, short} ELSE {short, part}]
Candidates == [f \in Form |-> act]
Places == [f \in Form |-> IF f = part THEN 5 ELSE 0]
Elsewhere == [f \in Form |-> IF f = full THEN {held} ELSE {}]
Nowhere == [f \in Form |-> {}]

\* Workers are interchangeable; only invariants are checked.
Workers == Permutations(Worker)
=============================================================================
