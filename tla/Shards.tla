------------------------------- MODULE Shards -------------------------------
(***************************************************************************)
(* What the relay promises about a shard of texts, whichever run, task or   *)
(* failure moves it: it is exported, shipped, embedded, fetched and         *)
(* imported, in this order and each once.  The import has one shard in hand *)
(* at a time, and a shard it was stopped in stays in part.  Orchestrator    *)
(* implements this specification.                                          *)
(***************************************************************************)
CONSTANT Shard

VARIABLE place    \* how far each shard has come

Init == place = [s \in Shard |-> "none"]

Move(S, from, to) ==
  /\ S \subseteq {s \in Shard : place[s] = from}
  /\ place' = [s \in Shard |-> IF s \in S THEN to ELSE place[s]]

Export == Move(Shard, "none", "exported")
Ship(S) == Move(S, "exported", "shipped")
Embed(s) == Move({s}, "shipped", "embedded")
Fetch(S) == Move(S, "embedded", "fetched")

Adding == {s \in Shard : place[s] = "adding"}

Add(s) == Adding = {} /\ Move({s}, "fetched", "adding")
Added(s) == Move({s}, "adding", "whole")
CutShort == Move(Adding, "adding", "part")

Next ==
  \/ Export \/ CutShort
  \/ \E S \in SUBSET Shard : Ship(S) \/ Fetch(S)
  \/ \E s \in Shard : Embed(s) \/ Add(s) \/ Added(s)

Spec == Init /\ [][Next]_place
=============================================================================
