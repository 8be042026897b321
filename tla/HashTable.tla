----------------------------- MODULE HashTable ------------------------------
(***************************************************************************)
(* The robin-hood hash table behind Lisp's hash tables, packages and class *)
(* slots, one turn of a loop at a time: the probe of get, put and remove,  *)
(* the displacement of hash_insert_raw, the backward shift of              *)
(* ls_hash_remove, the re-insertion of hash_grow; and maphash, whose       *)
(* callback may call all of them between two turns.                        *)
(*                                                                         *)
(* Keys stand for classes of keys equal under the table's test; that equal *)
(* keys hash alike is taken from the kinds for which it is so (symbols,    *)
(* fixnums, strings and conses of them under EQUAL).                       *)
(***************************************************************************)
EXTENDS Integers, FiniteSets

CONSTANTS
  Keys,      \* keys a table may be given
  Vals,      \* values
  Nil,       \* no key, no value
  Hash,      \* ls_hash_value, for each key
  InitCap    \* capacity of a new table (ls_hash_new: 16 at least)

ASSUME NilAssumption == Nil \notin Keys \cup Vals
ASSUME HashAssumption == Hash \in [Keys -> Nat]
ASSUME CapAssumption == InitCap \in Nat /\ InitCap > 10

VARIABLES
  entries,   \* h->entries, indexed from 0
  cap,       \* h->cap
  count,     \* h->count
  pc,        \* the loop that is running, "idle" between calls
  call,      \* which call: "get", "put" or "remove"
  key, val,  \* its arguments
  idx, dist, \* the slot being looked at, and its distance from the start
  carried,   \* e of hash_insert_raw, the entry looking for a slot
  old, moved,\* hash_grow: the former array, and how much of it is done
  last,      \* history: the call that took effect last, and what it returns
  walk,      \* i of maphash, or Off
  seen,      \* history: the keys the callback was given in this walk
  repeated,  \* history: one of them twice
  disturbed  \* history: the callback added or removed a key, or it grew

table == <<entries, cap, count>>
args == <<call, key, val>>
locals == <<args, idx, dist, carried>>
growth == <<old, moved>>
walking == <<walk, seen, repeated, disturbed>>
vars == <<table, pc, locals, growth, last, walking>>

Off == -1

Blank == [hash |-> 0, dist |-> 0, key |-> Nil, val |-> Nil]

Blanks(n) == [i \in 0..(n - 1) |-> Blank]

Entry == [hash : Nat, dist : Nat, key : Keys \cup {Nil}, val : Vals \cup {Nil}]

(* Slip: a hash of 0, the mark of an empty slot, is stored as it is.       *)
RawHash(k) == Hash[k]

(* "if (hash == 0) hash = 1"                                               *)
HashOf(k) == IF Hash[k] = 0 THEN 1 ELSE Hash[k]

(* hash & mask: the capacity is a power of two.                            *)
Home(hash) == hash % cap

(* Slip: the index runs past the end of the array.                         *)
NoWrap(i) == i + 1

(* (idx + 1) & mask                                                        *)
After(i) == IF i + 1 = cap THEN 0 ELSE i + 1

Used(i) == entries[i].hash # 0

Holds(i, k) == Used(i) /\ entries[i].hash = HashOf(k) /\ entries[i].key = k

StartAt(hash) == idx' = Home(hash) /\ dist' = 0

Advance ==
  /\ idx' = After(idx)
  /\ dist' = dist + 1

(* The call returns: its locals are gone.                                  *)
Return ==
  /\ pc' = "idle"
  /\ call' = "none" /\ key' = Nil /\ val' = Nil
  /\ idx' = 0 /\ dist' = 0
  /\ carried' = Blank

Report(op, k, found, v) ==
  last' = [op |-> op, key |-> k, found |-> found, val |-> v]

(* maphash, if one is going on, sees slots change under it.                *)
Disturb ==
  /\ disturbed' = (walk # Off)
  /\ UNCHANGED <<walk, seen, repeated>>

-----------------------------------------------------------------------------
(* ls_hash_get_sv, ls_hash_put, ls_hash_remove: finding the key.           *)

Begin(op, k, v) ==
  /\ pc = "idle"
  /\ call' = op /\ key' = k /\ val' = v

Probe(op, k, v) ==
  /\ Begin(op, k, v)
  /\ pc' = "find"
  /\ StartAt(HashOf(k))
  /\ UNCHANGED <<table, carried, growth, last, walking>>

Get(k) == Probe("get", k, Nil)

Remove(k) == Probe("remove", k, Nil)

(* Slip: grow only when every slot is taken.                               *)
Full == count >= cap

(* "count * 10 > cap * 9"                                                  *)
Loaded == count * 10 > cap * 9

(* hash_grow: a new array of twice the size, then the loop over the old.   *)
Grow(k, v) ==
  /\ Begin("put", k, v)
  /\ Loaded
  /\ old' = entries
  /\ moved' = 0
  /\ cap' = 2 * cap
  /\ entries' = Blanks(2 * cap)
  /\ count' = 0
  /\ pc' = "rehash"
  /\ UNCHANGED <<idx, dist, carried, last>>
  /\ Disturb

Put(k, v) ==
  \/ ~Loaded /\ Probe("put", k, v)
  \/ Grow(k, v)

FindOn ==
  /\ pc = "find"
  /\ Used(idx) /\ ~Holds(idx, key) /\ entries[idx].dist >= dist
  /\ Advance
  /\ UNCHANGED <<table, pc, args, carried, growth, last, walking>>

GetHit ==
  /\ pc = "find" /\ call = "get"
  /\ Holds(idx, key)
  /\ Report("get", key, TRUE, entries[idx].val)
  /\ Return
  /\ UNCHANGED <<table, growth, walking>>

PutHit ==
  /\ pc = "find" /\ call = "put"
  /\ Holds(idx, key)
  /\ entries' = [entries EXCEPT ![idx].val = val]
  /\ Report("put", key, TRUE, val)
  /\ Return
  /\ UNCHANGED <<cap, count, growth, walking>>

RemoveHit ==
  /\ pc = "find" /\ call = "remove"
  /\ Holds(idx, key)
  /\ Report("remove", key, TRUE, Nil)
  /\ pc' = "shift"
  /\ UNCHANGED <<table, locals, growth>>
  /\ Disturb

(* An empty slot, or an entry nearer to its home than the key would be.    *)
Absent ==
  /\ pc = "find"
  /\ ~Used(idx) \/ (~Holds(idx, key) /\ entries[idx].dist < dist)

Miss ==
  /\ Absent
  /\ call \in {"get", "remove"}
  /\ Report(call, key, FALSE, Nil)
  /\ Return
  /\ UNCHANGED <<table, growth, walking>>

PutMiss ==
  /\ Absent
  /\ call = "put"
  /\ Report("put", key, TRUE, val)
  /\ pc' = "place"
  /\ carried' = [hash |-> HashOf(key), dist |-> 0, key |-> key, val |-> val]
  /\ StartAt(HashOf(key))
  /\ UNCHANGED <<table, args, growth>>
  /\ Disturb

-----------------------------------------------------------------------------
(* hash_insert_raw, called by ls_hash_put and by hash_grow.                *)

Placing == pc \in {"place", "move"}

Store ==
  /\ Placing
  /\ ~Used(idx)
  /\ entries' = [entries EXCEPT ![idx] = [carried EXCEPT !.dist = dist]]
  /\ count' = count + 1
  /\ IF pc = "place" THEN Return
     ELSE pc' = "rehash" /\ UNCHANGED locals
  /\ UNCHANGED <<cap, growth, last, walking>>

(* Take the place of an entry nearer to its home and carry that one on.    *)
Displace ==
  /\ Placing
  /\ Used(idx) /\ entries[idx].dist < dist
  /\ entries' = [entries EXCEPT ![idx] = [carried EXCEPT !.dist = dist]]
  /\ carried' = entries[idx]
  /\ idx' = After(idx)
  /\ dist' = entries[idx].dist + 1
  /\ UNCHANGED <<cap, count, pc, args, growth, last, walking>>

PlaceOn ==
  /\ Placing
  /\ Used(idx) /\ entries[idx].dist >= dist
  /\ Advance
  /\ UNCHANGED <<table, pc, args, carried, growth, last, walking>>

(* Slip: the loop goes on after an entry it has moved only.                *)
RehashStuck ==
  /\ pc = "rehash"
  /\ moved \in DOMAIN old
  /\ IF old[moved].hash # 0
     THEN /\ moved' = moved + 1
          /\ pc' = "move"
          /\ carried' = old[moved]
          /\ StartAt(old[moved].hash)
     ELSE UNCHANGED <<moved, pc, carried, idx, dist>>
  /\ UNCHANGED <<table, args, old, last, walking>>

(* The loop of hash_grow; at its end ls_hash_put goes on.                  *)
Rehash ==
  /\ pc = "rehash"
  /\ moved \in DOMAIN old
  /\ moved' = moved + 1
  /\ IF old[moved].hash # 0
     THEN /\ pc' = "move"
          /\ carried' = old[moved]
          /\ StartAt(old[moved].hash)
     ELSE UNCHANGED <<pc, carried, idx, dist>>
  /\ UNCHANGED <<table, args, old, last, walking>>

EndGrow ==
  /\ pc = "rehash"
  /\ moved \notin DOMAIN old
  /\ old' = Blanks(0)
  /\ moved' = 0
  /\ pc' = "find"
  /\ StartAt(HashOf(key))
  /\ UNCHANGED <<table, args, carried, last, walking>>

-----------------------------------------------------------------------------
(* The backward shift of ls_hash_remove; idx is the hole.                  *)

Follows == Used(After(idx)) /\ entries[After(idx)].dist > 0

(* Slip: an entry that moves back keeps its distance.                      *)
ShiftKeepingDist ==
  /\ pc = "shift"
  /\ Follows
  /\ entries' = [entries EXCEPT ![idx] = entries[After(idx)]]
  /\ idx' = After(idx)
  /\ UNCHANGED <<cap, count, pc, args, dist, carried, growth, last, walking>>

Shift ==
  /\ pc = "shift"
  /\ Follows
  /\ entries' = [entries EXCEPT
       ![idx] = [entries[After(idx)] EXCEPT !.dist = @ - 1]]
  /\ idx' = After(idx)
  /\ UNCHANGED <<cap, count, pc, args, dist, carried, growth, last, walking>>

Clear ==
  /\ pc = "shift"
  /\ ~Follows
  /\ entries' = [entries EXCEPT ![idx] = Blank]
  /\ count' = count - 1
  /\ Return
  /\ UNCHANGED <<cap, growth, last, walking>>

-----------------------------------------------------------------------------
(* maphash.                                                                *)

BeginWalk ==
  /\ pc = "idle"
  /\ walk = Off
  /\ walk' = 0
  /\ UNCHANGED <<table, pc, locals, growth, last, seen, repeated, disturbed>>

(* Slip: the walk steps over the slot after one it has called on.          *)
VisitSkipping ==
  /\ pc = "idle"
  /\ walk # Off /\ walk < cap
  /\ walk' = IF Used(walk) THEN walk + 2 ELSE walk + 1
  /\ IF Used(walk)
     THEN /\ seen' = seen \cup {entries[walk].key}
          /\ repeated' = (repeated \/ entries[walk].key \in seen)
     ELSE UNCHANGED <<seen, repeated>>
  /\ UNCHANGED <<table, pc, locals, growth, last, disturbed>>

(* One turn: an entry found, the callback gets its key.                    *)
Visit ==
  /\ pc = "idle"
  /\ walk # Off /\ walk < cap
  /\ walk' = walk + 1
  /\ IF Used(walk)
     THEN /\ seen' = seen \cup {entries[walk].key}
          /\ repeated' = (repeated \/ entries[walk].key \in seen)
     ELSE UNCHANGED <<seen, repeated>>
  /\ UNCHANGED <<table, pc, locals, growth, last, disturbed>>

EndWalk ==
  /\ pc = "idle"
  /\ walk >= cap
  /\ walk' = Off
  /\ seen' = {} /\ repeated' = FALSE /\ disturbed' = FALSE
  /\ UNCHANGED <<table, pc, locals, growth, last>>

-----------------------------------------------------------------------------
Init ==
  /\ cap = InitCap
  /\ entries = Blanks(InitCap)
  /\ count = 0
  /\ pc = "idle"
  /\ call = "none" /\ key = Nil /\ val = Nil
  /\ idx = 0 /\ dist = 0
  /\ carried = Blank
  /\ old = Blanks(0) /\ moved = 0
  /\ last = [op |-> "none", key |-> Nil, found |-> FALSE, val |-> Nil]
  /\ walk = Off /\ seen = {} /\ repeated = FALSE /\ disturbed = FALSE

Calls ==
  \E k \in Keys :
    \/ Get(k)
    \/ Remove(k)
    \/ \E v \in Vals : Put(k, v)

Step ==
  \/ FindOn \/ GetHit \/ PutHit \/ RemoveHit \/ Miss \/ PutMiss
  \/ Store \/ Displace \/ PlaceOn
  \/ Rehash \/ EndGrow
  \/ Shift \/ Clear

Walk == BeginWalk \/ Visit \/ EndWalk

Next == Calls \/ Step \/ Walk

Spec == Init /\ [][Next]_vars

(* A call, once begun, runs to its end before anything else.               *)
FairSpec == Spec /\ WF_vars(Step)
-----------------------------------------------------------------------------
(* Properties.                                                             *)

TableOK ==
  /\ cap \in Nat /\ cap > 10
  /\ entries \in [0..(cap - 1) -> Entry]
  /\ count \in 0..cap

LocalsOK ==
  /\ pc \in {"idle", "find", "place", "shift", "rehash", "move"}
  /\ call \in {"none", "get", "put", "remove"}
  /\ key \in Keys \cup {Nil}
  /\ val \in Vals \cup {Nil}
  /\ idx \in 0..(cap - 1)
  /\ dist \in 0..(cap - 1)
  /\ carried \in Entry

GrowthOK ==
  /\ \E n \in 0..cap : (n = 0 \/ 2 * n = cap) /\ old \in [0..(n - 1) -> Entry]
  /\ moved \in Nat

HistoryOK ==
  /\ last \in [op : {"none", "get", "put", "remove"}, key : Keys \cup {Nil},
               found : BOOLEAN, val : Vals \cup {Nil}]
  /\ walk \in Nat \cup {Off}
  /\ seen \subseteq Keys
  /\ repeated \in BOOLEAN
  /\ disturbed \in BOOLEAN

TypeOK == TableOK /\ LocalsOK /\ GrowthOK /\ HistoryOK

(* The slot d places after slot h.                                         *)
At(h, d) == IF h + d < cap THEN h + d ELSE h + d - cap

UsedSlots == {i \in 0..(cap - 1) : Used(i)}

(* What a lookup relies on to stop early, after every single write to the  *)
(* array: each entry knows its distance from its home, and every slot on   *)
(* the way from there to it is used, by an entry at least as far from its  *)
(* own home.                                                               *)
ProbeInvariant ==
  \A i \in UsedSlots :
    LET e == entries[i] IN
    /\ e.key \in Keys /\ e.hash = HashOf(e.key)
    /\ e.dist < cap /\ i = At(Home(e.hash), e.dist)
    /\ \A d \in 0..e.dist :
         LET j == At(Home(e.hash), d) IN Used(j) /\ entries[j].dist >= d

(* count is the number of used slots, and one slot at least is empty:      *)
(* without it the probe loops, which have no other bound, never end.       *)
SlotLeft == count = Cardinality(UsedSlots) /\ count < cap

(* The hole of a backward shift still holds a copy of something.           *)
Live == {i \in UsedSlots : ~(pc = "shift" /\ i = idx)}

Waiting == {j \in DOMAIN old : j >= moved /\ old[j].hash # 0}

Pairs ==
  {<<entries[i].key, entries[i].val>> : i \in Live}
  \cup {<<old[j].key, old[j].val>> : j \in Waiting}
  \cup (IF Placing THEN {<<carried.key, carried.val>>} ELSE {})

(* The table is a finite map: each call returns what the calls before it   *)
(* make of the map, and growth, displacement and shifting change nothing.  *)
Contract == INSTANCE MapContract WITH pairs <- Pairs

IsMap == Contract!Spec

(* A walk that is not disturbed calls its function once on every key in    *)
(* the table; so does one whose callback only changes values, as long as   *)
(* no put finds the table loaded and grows it.                             *)
WalkComplete ==
  walk = cap /\ ~disturbed =>
    /\ seen = {entries[i].key : i \in UsedSlots}
    /\ ~repeated

(* Every call returns.                                                     *)
CallsReturn == pc # "idle" ~> pc = "idle"
=============================================================================
