---------------------------- MODULE MapContract -----------------------------
(***************************************************************************)
(* What a hash table promises: a finite map that calls read and change one *)
(* at a time, with no slots, no hashes and no growth.                      *)
(***************************************************************************)
CONSTANTS Keys, Vals, Nil

VARIABLES
  pairs,     \* the map, as a set of <<key, value>>
  last       \* the call that took effect last, and what it returns

Call(op, k, found, v) == [op |-> op, key |-> k, found |-> found, val |-> v]

Others(k) == {p \in pairs : p[1] # k}

Init ==
  /\ pairs = {}
  /\ last = Call("none", Nil, FALSE, Nil)

Put(k, v) ==
  /\ pairs' = Others(k) \cup {<<k, v>>}
  /\ last' = Call("put", k, TRUE, v)

Hit(k, v) ==
  /\ <<k, v>> \in pairs
  /\ last' = Call("get", k, TRUE, v)
  /\ UNCHANGED pairs

Miss(op, k) ==
  /\ pairs = Others(k)
  /\ last' = Call(op, k, FALSE, Nil)
  /\ UNCHANGED pairs

Remove(k) ==
  /\ pairs # Others(k)
  /\ pairs' = Others(k)
  /\ last' = Call("remove", k, TRUE, Nil)

Next ==
  \E k \in Keys :
    \/ \E v \in Vals : Put(k, v) \/ Hit(k, v)
    \/ \E op \in {"get", "remove"} : Miss(op, k)
    \/ Remove(k)

Spec == Init /\ [][Next]_<<pairs, last>>
=============================================================================
