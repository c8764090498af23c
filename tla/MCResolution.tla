---------------------------- MODULE MCResolution ----------------------------
(* Small instances of Resolution.                                            *)
EXTENDS Resolution

CONSTANTS act, other, report, dated, ecli, name

Refer(k) == [cand |-> k, raw |-> None, dotted |-> FALSE]
ByName(k) == [cand |-> None, raw |-> k, dotted |-> FALSE]
Dotted(k) == [cand |-> None, raw |-> k, dotted |-> TRUE]
Both(k, n) == [cand |-> k, raw |-> n, dotted |-> FALSE]

NoIds == [d \in Id |-> None]
Nothing == [d \in Id |-> {}]

\* other is a judgment with an ECLI, report a surrogate of act, dated an
\* expression of act; act goes by a name, as does the report.
Eclis == [NoIds EXCEPT ![other] = ecli]
Names == [Nothing EXCEPT ![act] = {name}, ![report] = {name}]
Bases == [NoIds EXCEPT ![dated] = act]
Stamps == [d \in Id |-> IF d = dated THEN 1 ELSE 0]
Twins == [NoIds EXCEPT ![report] = act]

\* other cites act by its id, by its name and as the report; the report cites
\* other by its ECLI and act by its name, abbreviated.
MixedCites == [Nothing EXCEPT ![other] = {Refer(act), ByName(name), Refer(report)},
                              ![report] = {Refer(ecli), Dotted(name)}]

\* A foreign act cited under the name act goes by.
NamesakeCites == [Nothing EXCEPT ![other] = {Both(dated, name)}]
=============================================================================
