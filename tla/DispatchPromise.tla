-------------------------- MODULE DispatchPromise --------------------------
(***************************************************************************)
(* What the dispatch queue promises its callers, without buckets, epochs,  *)
(* timers or dedup: every submission gets an id and ends at most once; one *)
(* group of open submissions is in the air at a time; what ends from the   *)
(* ground was never delivered.                                             *)
(***************************************************************************)
EXTENDS Naturals, Sequences

VARIABLES
  fate,  \* id -> "open" or how the submission ended
  air    \* ids of the group being delivered

vars == <<fate, air>>

Open == {i \in DOMAIN fate : fate[i] = "open"}

Init ==
  /\ fate = <<>>
  /\ air = {}

(* A submission that ends at once was refused or is a duplicate.  One that *)
(* stays open may be taken up in the same step when nothing is in the air. *)
Submit ==
  \/ /\ \E w \in {"dead", "deduped"} : fate' = Append(fate, w)
     /\ air' = air
  \/ /\ fate' = Append(fate, "open")
     /\ \/ air' = air
        \/ air = {} /\ air' = {Len(fate) + 1}

TakeOff ==
  /\ air = {}
  /\ \E S \in SUBSET Open : S # {} /\ air' = S
  /\ fate' = fate

(* The group lands: each of its members ends, or stays open for a retry;   *)
(* a group that is delivered is delivered as a whole.                      *)
Land ==
  /\ air # {}
  /\ air' = {}
  /\ DOMAIN fate' = DOMAIN fate
  /\ \A i \in DOMAIN fate \ air : fate'[i] = fate[i]
  /\ \/ \A i \in air : fate'[i] \in {"open", "dead"}
     \/ \A i \in air : fate'[i] = "delivered"
     \/ \A i \in air : fate'[i] = "void"

(* Submissions on the ground are dropped, all of them. *)
DropGround ==
  /\ Open \ air # {}
  /\ \E w \in {"dead", "blocked"} :
       fate' = [i \in DOMAIN fate |-> IF i \in Open \ air THEN w ELSE fate[i]]
  /\ air' = air

Next == Submit \/ TakeOff \/ Land \/ DropGround

Spec == Init /\ [][Next]_vars
=============================================================================
