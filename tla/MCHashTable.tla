---------------------------- MODULE MCHashTable -----------------------------
(***************************************************************************)
(* A table of sixteen slots in which thirteen keys have settled and three  *)
(* more come and go.  Two of the three have the same home, the last slot,  *)
(* until the table grows; their probes wrap round the end of the array and *)
(* run into the settled keys, and with two of them present the next put    *)
(* finds the table loaded.                                                 *)
(***************************************************************************)
EXTENDS HashTable

CONSTANTS
  Guests,    \* the keys that come and go, among 14, 15 and 16
  Walks      \* whether maphash is called

Settled == 1..13

MCKeys == Settled \cup Guests

(* Keys 1 and 16 have hash 0.                                              *)
MCHash == [k \in MCKeys |->
  CASE k <= 5       -> k - 1
    [] k \in 6..11 -> 16 + k
    [] k = 12       -> 13
    [] k = 13       -> 30
    [] k = 14       -> 15
    [] k = 15       -> 31
    [] OTHER        -> 0]

Present == {entries[i].key : i \in UsedSlots}

Missing == Settled \ Present

(* First the settled keys are put, in order; then the guests are at large. *)
Offered ==
  IF Missing = {} THEN Guests
  ELSE {k \in Missing : /\ call' = "put" /\ val' = CHOOSE v \in Vals : TRUE
                        /\ \A l \in Missing : k <= l}

MCNext ==
  \/ Calls /\ key' \in Offered
  \/ Step
  \/ Walks /\ Missing = {} /\ BeginWalk
  \/ Visit \/ EndWalk

MCSpec == Init /\ [][MCNext]_vars /\ WF_vars(Step)
=============================================================================
