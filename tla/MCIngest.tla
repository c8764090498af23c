------------------------------ MODULE MCIngest ------------------------------
(* Small instances of Ingest: feeds of a few documents over a few days.      *)
EXTENDS Ingest

FirstTwice == [i \in Item |-> IF i = 1 THEN 2 ELSE 1]

\* A feed dated by the day and walked oldest first: the cursor is a drip.
Drip == [newestFirst |-> FALSE, instants |-> FALSE, late |-> 1, ahead |-> 1,
         offsets |-> FALSE, modes |-> {"incremental", "full"}, faults |-> Kinds]

\* A feed stamped with instants and walked newest first.
Stream == [newestFirst |-> TRUE, instants |-> TRUE, late |-> 0, ahead |-> 0,
           offsets |-> FALSE, modes |-> {"incremental", "backfill"}, faults |-> Kinds]

DripAndStream == {Drip, Stream}
OnlyStream == {Stream}
=============================================================================
