-------------------------- MODULE HashTableProofs ---------------------------
(***************************************************************************)
(* A table is a finite map, its probes are bounded, and undisturbed walks  *)
(* are complete, for any keys, any hash function (all keys may collide)    *)
(* and any number of calls and of growths.                                 *)
(***************************************************************************)
EXTENDS HashTable, FiniteSetTheorems, TLAPS

Growing == pc \in {"rehash", "move"}

(* What a running call was given.                                          *)
Arguments ==
  /\ pc = "idle" <=> call = "none"
  /\ pc \in {"place", "rehash", "move"} => call = "put"
  /\ pc = "shift" => call = "remove"
  /\ pc # "idle" => key \in Keys
  /\ call = "put" => val \in Vals

(* The former array while the table grows, and nothing otherwise.          *)
Former ==
  /\ Growing => \E n \in Nat : /\ 2 * n = cap
                               /\ old \in [0..(n - 1) -> Entry]
                               /\ moved \in 0..n
  /\ ~Growing => old = Blanks(0) /\ moved = 0

(* How full the table may be in each loop.                                 *)
Load ==
  /\ ~Growing => 10 * count <= 9 * cap + 10
  /\ pc = "place" \/ (pc = "find" /\ call = "put") => 10 * count <= 9 * cap
  /\ pc = "rehash" => count <= moved
  /\ pc = "move" => count < moved

(* The entries, wherever they are, are what put was given.                 *)
Proper(e) == e.key \in Keys /\ e.hash = HashOf(e.key) /\ e.val \in Vals

AllProper ==
  /\ \A i \in UsedSlots : Proper(entries[i])
  /\ \A j \in Waiting : Proper(old[j])
  /\ Placing => Proper(carried)

(* No key is in two places.                                                *)
Unique ==
  /\ \A i, j \in Live : entries[i].key = entries[j].key => i = j
  /\ \A i, j \in Waiting : old[i].key = old[j].key => i = j
  /\ \A i \in Live, j \in Waiting : entries[i].key # old[j].key
  /\ Placing => /\ \A i \in Live : entries[i].key # carried.key
                /\ \A j \in Waiting : old[j].key # carried.key


Searching ==
  pc = "find" =>
    /\ idx = At(Home(HashOf(key)), dist)
    /\ \A d \in 0..(dist - 1) :
         LET j == At(Home(HashOf(key)), d) IN Used(j) /\ entries[j].key # key

Carrying ==
  Placing =>
    /\ idx = At(Home(carried.hash), dist)
    /\ \A d \in 0..(dist - 1) :
         LET j == At(Home(carried.hash), d) IN Used(j) /\ entries[j].dist >= d

Hole == pc = "shift" => Used(idx)

(* What a walk has seen.                                                   *)
Walked ==
  /\ walk = Off => seen = {} /\ ~repeated /\ ~disturbed
  /\ walk # Off /\ ~disturbed =>
       /\ pc \in {"idle", "find"}
       /\ walk <= cap
       /\ ~repeated
       /\ seen = {entries[i].key : i \in {j \in UsedSlots : j < walk}}

Probing == ProbeInvariant /\ Searching /\ Carrying /\ Hole

IInv ==
  /\ TypeOK
  /\ Arguments /\ Former /\ Load /\ SlotLeft
  /\ AllProper /\ Unique
  /\ Probing
  /\ Walked
-----------------------------------------------------------------------------
(* The ring of slots.                                                      *)

LEMMA HomeRange ==
  ASSUME cap \in Nat, cap > 10, NEW h \in Nat
  PROVE  Home(h) \in 0..(cap - 1)
BY DEF Home

LEMMA HashRange ==
  ASSUME NEW k \in Keys
  PROVE  HashOf(k) \in Nat \ {0}
BY HashAssumption DEF HashOf

LEMMA AtRange ==
  ASSUME cap \in Nat, cap > 10, NEW h \in 0..(cap - 1), NEW d \in 0..(cap - 1)
  PROVE  /\ At(h, d) \in 0..(cap - 1)
         /\ At(h, 0) = h
         /\ After(At(h, d)) \in 0..(cap - 1)
         /\ d + 1 < cap => After(At(h, d)) = At(h, d + 1)
         /\ \A c \in 0..(cap - 1) : At(h, c) = At(h, d) => c = d
BY DEF At, After

(* Every slot is some number of places after h.                            *)
LEMMA AtOnto ==
  ASSUME cap \in Nat, cap > 10, NEW h \in 0..(cap - 1), NEW i \in 0..(cap - 1)
  PROVE  \E d \in 0..(cap - 1) : At(h, d) = i
<1>1. CASE i >= h
  <2>1. i - h \in 0..(cap - 1) /\ At(h, i - h) = i
    BY <1>1 DEF At
  <2>2. QED
    BY <2>1
<1>2. CASE i < h
  <2>1. i - h + cap \in 0..(cap - 1) /\ At(h, i - h + cap) = i
    BY <1>2 DEF At
  <2>2. QED
    BY <2>1
<1>3. QED
  BY <1>1, <1>2

LEMMA Before ==
  ASSUME cap \in Nat, cap > 10, NEW h \in 0..(cap - 1), NEW i \in 0..(cap - 1),
         NEW d \in 1..(cap - 1), After(i) = At(h, d)
  PROVE  At(h, d - 1) = i
BY DEF At, After

LEMMA SlotsFinite ==
  ASSUME cap \in Nat, cap > 10
  PROVE  /\ IsFiniteSet(UsedSlots)
         /\ Cardinality(UsedSlots) \in Nat
         /\ Cardinality(0..(cap - 1)) = cap
<1>1. IsFiniteSet(0..(cap - 1)) /\ Cardinality(0..(cap - 1)) = cap
  BY FS_Interval
<1>2. UsedSlots \subseteq 0..(cap - 1)
  BY DEF UsedSlots
<1>3. QED
  BY <1>1, <1>2, FS_Subset, FS_CardinalityType

LEMMA SomeBlank ==
  ASSUME TypeOK, SlotLeft
  PROVE  \E b \in 0..(cap - 1) : ~Used(b)
<1>1. cap \in Nat /\ cap > 10 /\ count \in Nat
  BY DEF TypeOK, TableOK, LocalsOK
<1>2. CASE UsedSlots = 0..(cap - 1)
  BY <1>1, <1>2, SlotsFinite DEF SlotLeft
<1>3. CASE UsedSlots # 0..(cap - 1)
  BY <1>3 DEF UsedSlots
<1>4. QED
  BY <1>2, <1>3

(* A search that has met used slots only has not been all the way round.   *)
LEMMA NoLap ==
  ASSUME TypeOK, SlotLeft, NEW h \in 0..(cap - 1),
         \A d \in 0..dist : Used(At(h, d))
  PROVE  dist + 1 \in 0..(cap - 1)
<1>1. cap \in Nat /\ cap > 10 /\ dist \in 0..(cap - 1)
  BY DEF TypeOK, TableOK, LocalsOK
<1>2. PICK b \in 0..(cap - 1) : ~Used(b)
  BY SomeBlank
<1>3. PICK d \in 0..(cap - 1) : At(h, d) = b
  BY <1>1, AtOnto
<1>4. d \notin 0..dist
  BY <1>2, <1>3
<1>5. QED
  BY <1>1, <1>4
-----------------------------------------------------------------------------
(* The invariant holds initially and each action preserves it.             *)

LEMMA Initially == Init => IInv
<1> SUFFICES ASSUME Init PROVE IInv
  OBVIOUS
<1> USE DEF Init
<1>1. cap \in Nat /\ cap > 10 /\ Nil \notin Keys
  BY CapAssumption, NilAssumption
<1>2. entries = Blanks(cap) /\ Blank \in Entry /\ Blank.hash = 0
  BY DEF Blank, Entry
<1>3. UsedSlots = {} /\ Live = {} /\ Waiting = {}
  BY <1>1, <1>2 DEF UsedSlots, Used, Live, Waiting, Blanks
<1>4. TypeOK
  <2>1. old \in [0..(0 - 1) -> Entry]
    BY <1>2 DEF Blanks
  <2>2. entries \in [0..(cap - 1) -> Entry]
    BY <1>2 DEF Blanks
  <2>3. GrowthOK
    BY <1>1, <2>1 DEF GrowthOK
  <2>4. TableOK
    BY <1>1, <2>2 DEF TableOK
  <2>5. LocalsOK
    BY <1>1, <1>2 DEF LocalsOK
  <2>6. HistoryOK
    BY DEF HistoryOK, Off
  <2>7. QED
    BY <2>3, <2>4, <2>5, <2>6 DEF TypeOK
<1>5. SlotLeft
  BY <1>1, <1>3, FS_EmptySet DEF SlotLeft
<1>6. Arguments /\ Former /\ Load /\ Walked
  BY <1>1, <1>3 DEF Arguments, Former, Load, Walked, Growing, Off
<1>7. AllProper /\ Unique /\ Probing
  BY <1>3 DEF AllProper, Unique, Probing, ProbeInvariant, Searching, Carrying,
              Hole, Placing
<1>8. QED
  BY <1>4, <1>5, <1>6, <1>7 DEF IInv

(* A search starts: at the home of its key, having passed nothing.         *)
LEMMA StartRange ==
  ASSUME cap \in Nat, cap > 10, NEW k \in Keys
  PROVE  /\ HashOf(k) \in Nat \ {0}
         /\ Home(HashOf(k)) \in 0..(cap - 1)
         /\ At(Home(HashOf(k)), 0) = Home(HashOf(k))
BY HashRange, HomeRange, AtRange

(* What the unchanged array carries over.                                  *)
LEMMA SameTable ==
  ASSUME UNCHANGED table
  PROVE  /\ UsedSlots' = UsedSlots
         /\ SlotLeft' <=> SlotLeft
         /\ ProbeInvariant' <=> ProbeInvariant
         /\ \A i : Used(i)' <=> Used(i)
         /\ \A h, d : At(h, d)' = At(h, d)
         /\ \A h : Home(h)' = Home(h)
BY DEF table, UsedSlots, SlotLeft, ProbeInvariant, Used, At, Home

LEMMA ProbeStep ==
  ASSUME IInv, NEW op \in {"get", "put", "remove"}, NEW k \in Keys,
         NEW v \in Vals \cup {Nil}, op = "put" => v \in Vals /\ ~Loaded,
         Probe(op, k, v)
  PROVE  IInv'
<1> USE DEF IInv, Probe, Begin, StartAt
<1>1. cap \in Nat /\ cap > 10 /\ count \in Nat
  BY DEF TypeOK, TableOK, LocalsOK
<1>2. UNCHANGED <<table, old, moved, carried>> /\ ~Placing /\ ~Placing' /\ ~Growing /\ ~Growing'
  BY DEF Placing, Growing, growth
<1>3. Live' = Live /\ Waiting' = Waiting /\ UsedSlots' = UsedSlots
  BY <1>2, SameTable DEF Live, Waiting, table
<1>4. TypeOK'
  <2>1. TableOK' /\ LocalsOK'
    BY <1>1, <1>2, StartRange DEF TypeOK, TableOK, LocalsOK, table
  <2>2. GrowthOK' /\ HistoryOK'
    BY <1>2 DEF TypeOK, GrowthOK, HistoryOK, table, walking
  <2>3. QED
    BY <2>1, <2>2 DEF TypeOK
<1>5. Arguments'
  BY DEF Arguments
<1>6. Former' /\ Load'
  BY <1>1, <1>2 DEF Former, Load, Loaded, table, Growing
<1>7. SlotLeft' /\ ProbeInvariant'
  BY <1>2, SameTable DEF Probing
<1>8. AllProper' /\ Unique'
  BY <1>2, <1>3 DEF AllProper, Unique, table, Proper, HashOf
<1>9. Searching' /\ Carrying' /\ Hole'
  BY <1>1, <1>2, StartRange, SameTable DEF Searching, Carrying, Hole, HashOf, table
<1>10. Walked'
  BY <1>2, <1>3 DEF Walked, walking, table
<1>11. QED
  BY <1>4, <1>5, <1>6, <1>7, <1>8, <1>9, <1>10 DEF Probing

LEMMA GrowStep ==
  ASSUME IInv, NEW k \in Keys, NEW v \in Vals, Grow(k, v)
  PROVE  IInv'
<1> USE DEF IInv, Grow, Begin
<1>1. cap \in Nat /\ cap > 10 /\ count \in Nat
  BY DEF TypeOK, TableOK, LocalsOK
<1>2. cap' = 2 * cap /\ entries' = Blanks(cap') /\ Blank \in Entry /\ Blank.hash = 0
  BY DEF Blank, Entry
<1>3. UsedSlots' = {} /\ Live' = {}
  BY <1>1, <1>2 DEF UsedSlots, Used, Live, Blanks
<1>4. Waiting' = UsedSlots /\ Live = UsedSlots
  <2>1. DOMAIN entries = 0..(cap - 1) /\ old' = entries /\ moved' = 0 /\ pc = "idle"
    BY DEF TypeOK, TableOK
  <2>2. QED
    BY <1>1, <2>1 DEF Waiting, UsedSlots, Used, Live
<1>5. TypeOK'
  <2>1. entries' \in [0..(cap' - 1) -> Entry]
    BY <1>2 DEF Blanks
  <2>2. old' \in [0..(cap - 1) -> Entry] /\ 2 * cap = cap' /\ cap \in 0..cap'
    BY <1>1 DEF TypeOK, TableOK, LocalsOK
  <2>3. idx' \in 0..(cap' - 1) /\ dist' \in 0..(cap' - 1)
    BY <1>1 DEF TypeOK, TableOK, LocalsOK
  <2>4. GrowthOK'
    BY <1>1, <2>2 DEF GrowthOK
  <2>5. TableOK' /\ LocalsOK' /\ HistoryOK'
    BY <1>1, <2>1, <2>3 DEF TypeOK, TableOK, LocalsOK, HistoryOK, Disturb
  <2>6. QED
    BY <2>4, <2>5 DEF TypeOK
<1>6. Arguments' /\ ~Placing' /\ Growing' /\ ~Growing
  BY DEF Arguments, Placing, Growing
<1>7. Former' /\ Load'
  <2>1. cap \in Nat /\ 2 * cap = cap' /\ old' \in [0..(cap - 1) -> Entry] /\ moved' \in 0..cap
    BY <1>1 DEF TypeOK, TableOK
  <2>2. Former'
    BY <1>6, <2>1 DEF Former
  <2>3. Load'
    BY <1>6 DEF Load
  <2>4. QED
    BY <2>2, <2>3
<1>8. SlotLeft' /\ Probing'
  BY <1>1, <1>3, FS_EmptySet DEF SlotLeft, Probing, ProbeInvariant, Searching,
                                 Carrying, Hole, Placing
<1>9. AllProper' /\ Unique'
  BY <1>3, <1>4, <1>6 DEF AllProper, Unique, Proper, HashOf
<1>10. Walked'
  BY DEF Walked, Disturb
<1>11. QED
  BY <1>5, <1>6, <1>7, <1>8, <1>9, <1>10

LEMMA FindOnStep == IInv /\ FindOn => IInv'
<1> SUFFICES ASSUME IInv, FindOn PROVE IInv'
  OBVIOUS
<1> USE DEF IInv, FindOn, Advance
<1>1. /\ cap \in Nat /\ cap > 10 /\ dist \in 0..(cap - 1) /\ key \in Keys
      /\ pc = "find" /\ pc' = "find"
  BY DEF TypeOK, TableOK, LocalsOK, Arguments
<1>2. UNCHANGED <<table, old, moved, carried, args>> /\ ~Placing /\ ~Placing'
  BY DEF Placing, Growing, growth
<1>3. Live' = Live /\ Waiting' = Waiting /\ UsedSlots' = UsedSlots
  BY <1>1, <1>2, SameTable DEF Live, Waiting, table
<1> DEFINE h == Home(HashOf(key))
<1>4. h \in 0..(cap - 1) /\ h' = h
  BY <1>1, <1>2, StartRange DEF args, table, Home, HashOf
<1>5. entries[idx].key # key
  <2>1. idx \in 0..(cap - 1)
    BY DEF TypeOK, LocalsOK
  <2>2. idx \in UsedSlots
    BY <2>1 DEF UsedSlots
  <2>3. QED
    BY <2>2 DEF Holds, AllProper, Proper
<1>6. \A d \in 0..dist : Used(At(h, d)) /\ entries[At(h, d)].key # key
  BY <1>1, <1>5 DEF Probing, Searching
<1>7. dist + 1 \in 0..(cap - 1)
  BY <1>4, <1>6, NoLap
<1>8. idx' = At(h, dist') /\ idx' \in 0..(cap - 1)
  BY <1>1, <1>4, <1>7, AtRange DEF Probing, Searching
<1>9. TypeOK'
  <2>1. TableOK' /\ LocalsOK'
    BY <1>1, <1>2, <1>7, <1>8 DEF TypeOK, TableOK, LocalsOK, table, args
  <2>2. GrowthOK' /\ HistoryOK'
    BY <1>2 DEF TypeOK, GrowthOK, HistoryOK, table, walking
  <2>3. QED
    BY <2>1, <2>2 DEF TypeOK
<1>10. Arguments' /\ Former' /\ Load'
  BY <1>1, <1>2 DEF Arguments, Former, Load, table, args, Growing
<1>11. SlotLeft' /\ ProbeInvariant'
  BY <1>2, SameTable DEF Probing
<1>12. AllProper' /\ Unique'
  BY <1>2, <1>3 DEF AllProper, Unique, table, Proper, HashOf
<1>13. Searching'
  BY <1>1, <1>2, <1>4, <1>6, <1>8, SameTable DEF Searching, args, table
<1>14. Carrying' /\ Hole'
  BY <1>1, <1>2 DEF Carrying, Hole
<1>15. Walked'
  BY <1>1, <1>2, <1>3 DEF Walked, walking, table
<1>16. QED
  BY <1>9, <1>10, <1>11, <1>12, <1>13, <1>14, <1>15 DEF Probing

(* The types the proofs below use most.                                    *)
LEMMA Types ==
  ASSUME TypeOK
  PROVE  /\ cap \in Nat /\ cap > 10 /\ count \in Nat
         /\ idx \in 0..(cap - 1) /\ dist \in 0..(cap - 1)
         /\ UsedSlots \subseteq 0..(cap - 1) /\ Live \subseteq UsedSlots
         /\ \A i \in 0..(cap - 1) : /\ entries[i] \in Entry
                                    /\ entries[i].dist \in Nat
                                    /\ entries[i].hash \in Nat
                                    /\ Used(i) <=> i \in UsedSlots
         /\ carried \in Entry /\ carried.dist \in Nat /\ carried.hash \in Nat
         /\ DOMAIN entries = 0..(cap - 1)
BY DEF TypeOK, TableOK, LocalsOK, Entry, UsedSlots, Live

(* The call ends without having written to the table.                      *)
LEMMA ReturnStep ==
  ASSUME IInv, pc = "find", Return, UNCHANGED <<table, growth, walking>>, HistoryOK'
  PROVE  IInv'
<1> USE DEF IInv, Return
<1>1. cap \in Nat /\ cap > 10 /\ Blank \in Entry
  BY Types DEF Blank, Entry
<1>2. UNCHANGED <<table, old, moved>> /\ ~Placing /\ ~Placing' /\ ~Growing /\ ~Growing'
  BY DEF Placing, Growing, growth
<1>3. Live' = Live /\ Waiting' = Waiting /\ UsedSlots' = UsedSlots
  BY <1>2, SameTable DEF Live, Waiting, table
<1>4. TypeOK'
  <2>1. TableOK' /\ LocalsOK'
    BY <1>1, <1>2 DEF TypeOK, TableOK, LocalsOK, table
  <2>2. GrowthOK'
    BY <1>2 DEF TypeOK, GrowthOK, table
  <2>3. QED
    BY <2>1, <2>2 DEF TypeOK
<1>5. Arguments' /\ Former' /\ Load'
  BY <1>1, <1>2 DEF Arguments, Former, Load, table, Growing
<1>6. SlotLeft' /\ ProbeInvariant'
  BY <1>2, SameTable DEF Probing
<1>7. AllProper' /\ Unique'
  BY <1>2, <1>3 DEF AllProper, Unique, table, Proper, HashOf
<1>8. Searching' /\ Carrying' /\ Hole'
  BY <1>2 DEF Searching, Carrying, Hole
<1>9. Walked'
  BY <1>2, <1>3 DEF Walked, walking, table
<1>10. QED
  BY <1>4, <1>5, <1>6, <1>7, <1>8, <1>9 DEF Probing

LEMMA GetHitStep == IInv /\ GetHit => IInv'
<1> SUFFICES ASSUME IInv, GetHit PROVE IInv'
  OBVIOUS
<1>1. entries[idx].val \in Vals \cup {Nil} /\ key \in Keys \cup {Nil}
  BY Types DEF IInv, Entry, TypeOK, LocalsOK
<1>2. HistoryOK'
  BY <1>1 DEF IInv, TypeOK, HistoryOK, GetHit, Report, walking
<1>3. QED
  BY <1>2, ReturnStep DEF GetHit

LEMMA MissStep == IInv /\ Miss => IInv'
<1> SUFFICES ASSUME IInv, Miss PROVE IInv'
  OBVIOUS
<1>1. HistoryOK'
  BY DEF IInv, TypeOK, LocalsOK, HistoryOK, Miss, Report, walking
<1>2. QED
  BY <1>1, ReturnStep DEF Miss, Absent

LEMMA PutHitStep == IInv /\ PutHit => IInv'
<1> SUFFICES ASSUME IInv, PutHit PROVE IInv'
  OBVIOUS
<1> USE DEF IInv, PutHit, Return
<1>1. /\ cap \in Nat /\ cap > 10 /\ Blank \in Entry
      /\ idx \in 0..(cap - 1) /\ val \in Vals /\ key \in Keys
      /\ DOMAIN entries = 0..(cap - 1)
  BY Types DEF Blank, Entry, Arguments
<1>2. UNCHANGED <<cap, count, old, moved>> /\ ~Placing /\ ~Placing' /\ ~Growing /\ ~Growing'
  BY DEF Placing, Growing, growth
<1>3. \A i \in 0..(cap - 1) :
        /\ entries'[i].hash = entries[i].hash
        /\ entries'[i].dist = entries[i].dist
        /\ entries'[i].key = entries[i].key
        /\ entries'[i].val \in {entries[i].val, val}
  BY <1>1, Types DEF Entry
<1>4. UsedSlots' = UsedSlots /\ Live' = Live /\ Waiting' = Waiting
  BY <1>2, <1>3 DEF UsedSlots, Used, Live, Waiting
<1>5. TypeOK'
  <2>1. TableOK'
    BY <1>1, <1>2 DEF TypeOK, TableOK, Entry
  <2>2. LocalsOK'
    BY <1>1, <1>2 DEF LocalsOK
  <2>3. GrowthOK' /\ HistoryOK'
    BY <1>1, <1>2 DEF TypeOK, GrowthOK, HistoryOK, Report, walking
  <2>4. QED
    BY <2>1, <2>2, <2>3 DEF TypeOK
<1>6. Arguments' /\ Former' /\ Load'
  BY <1>1, <1>2 DEF Arguments, Former, Load, Growing, TypeOK, TableOK
<1>7. SlotLeft'
  BY <1>2, <1>4 DEF SlotLeft
<1>8. ProbeInvariant'
  <2>1. \A h \in 0..(cap - 1), d \in 0..(cap - 1) : At(h, d)' = At(h, d) /\ At(h, d) \in 0..(cap - 1)
    BY <1>1, <1>2, AtRange DEF At
  <2>2. \A i \in UsedSlots : entries[i].hash \in Nat /\ Home(entries[i].hash) \in 0..(cap - 1)
    BY <1>1, Types, HomeRange
  <2>3. SUFFICES ASSUME NEW i \in UsedSlots
                 PROVE  LET e == entries'[i] IN
                        /\ e.key \in Keys /\ e.hash = HashOf(e.key)
                        /\ e.dist < cap /\ i = At(Home(e.hash), e.dist)
                        /\ \A d \in 0..e.dist : LET j == At(Home(e.hash), d) IN
                             entries'[j].hash # 0 /\ entries'[j].dist >= d
    BY <1>2, <1>4, SMTT(40) DEF ProbeInvariant, Used, At, Home, HashOf
  <2>4. i \in 0..(cap - 1) /\ entries[i].dist \in Nat
    BY Types
  <2>5. QED
    BY <1>1, <1>3, <2>1, <2>2, <2>4 DEF Probing, ProbeInvariant, Used
<1>9. AllProper' /\ Unique'
  <2>1. \A i \in UsedSlots : i \in 0..(cap - 1)
    BY DEF UsedSlots
  <2>2. Live \subseteq UsedSlots
    BY DEF Live
  <2>3. QED
    BY <1>1, <1>2, <1>3, <1>4, <2>1, <2>2 DEF AllProper, Unique, Proper, HashOf
<1>10. Searching' /\ Carrying' /\ Hole'
  BY <1>2 DEF Searching, Carrying, Hole
<1>11. Walked'
  <2>1. \A i \in UsedSlots : entries'[i].key = entries[i].key
    BY <1>3 DEF UsedSlots
  <2>2. QED
    BY <1>2, <1>4, <2>1 DEF Walked, walking
<1>12. QED
  BY <1>5, <1>6, <1>7, <1>8, <1>9, <1>10, <1>11 DEF Probing

(* A search that gives up is right to.                                     *)
LEMMA AbsentIsAbsent ==
  ASSUME IInv, Absent
  PROVE  \A i \in UsedSlots : entries[i].key # key
<1> USE DEF IInv, Absent
<1>1. cap \in Nat /\ idx \in 0..(cap - 1) /\ dist \in 0..(cap - 1) /\ entries[idx].dist \in Nat
  BY Types
<1> SUFFICES ASSUME NEW i \in UsedSlots, entries[i].key = key
             PROVE  FALSE
  OBVIOUS
<1> DEFINE e == entries[i]
           h == Home(HashOf(key))
<1>2. /\ e.hash = HashOf(key) /\ i = At(h, e.dist) /\ e.dist \in Nat
      /\ \A d \in 0..e.dist : Used(At(h, d)) /\ entries[At(h, d)].dist >= d
  BY Types DEF Probing, ProbeInvariant
<1>3. CASE e.dist < dist
  <2>1. e.dist \in 0..(dist - 1)
    BY <1>1, <1>2, <1>3
  <2>2. QED
    BY <1>2, <2>1 DEF Probing, Searching
<1>4. CASE e.dist >= dist
  <2>1. dist \in 0..e.dist /\ idx = At(h, dist)
    BY <1>1, <1>2, <1>4 DEF Probing, Searching
  <2>2. Used(idx) /\ entries[idx].dist >= dist
    BY <1>2, <2>1
  <2>3. QED
    BY <1>1, <2>2
<1>5. QED
  BY <1>1, <1>2, <1>3, <1>4

LEMMA RemoveHitStep == IInv /\ RemoveHit => IInv'
<1> SUFFICES ASSUME IInv, RemoveHit PROVE IInv'
  OBVIOUS
<1> USE DEF IInv, RemoveHit
<1>1. UNCHANGED <<table, locals, old, moved>> /\ ~Placing /\ ~Placing' /\ ~Growing /\ ~Growing'
  BY DEF Placing, Growing, growth
<1>2. Live' \subseteq Live /\ Waiting' = Waiting /\ UsedSlots' = UsedSlots
  BY <1>1, SameTable DEF Live, Waiting, locals, table
<1>3. TypeOK'
  <2>1. TableOK' /\ LocalsOK'
    BY <1>1 DEF TypeOK, TableOK, LocalsOK, table, locals, args
  <2>2. key \in Keys
    BY DEF Arguments
  <2>3. GrowthOK' /\ HistoryOK'
    BY <1>1, <2>2 DEF TypeOK, GrowthOK, HistoryOK, Report, table, Disturb
  <2>4. QED
    BY <2>1, <2>3 DEF TypeOK
<1>4. Arguments' /\ Former' /\ Load'
  BY <1>1 DEF Arguments, Former, Load, table, locals, args, Growing
<1>5. SlotLeft' /\ ProbeInvariant'
  BY <1>1, SameTable DEF Probing
<1>6. AllProper' /\ Unique'
  BY <1>1, <1>2 DEF AllProper, Unique, table, Proper, HashOf
<1>7. Searching' /\ Carrying' /\ Hole'
  BY <1>1, SameTable DEF Searching, Carrying, Hole, Holds, locals
<1>8. Walked'
  BY DEF Walked, Disturb
<1>9. QED
  BY <1>3, <1>4, <1>5, <1>6, <1>7, <1>8 DEF Probing

LEMMA PutMissStep == IInv /\ PutMiss => IInv'
<1> SUFFICES ASSUME IInv, PutMiss PROVE IInv'
  OBVIOUS
<1> USE DEF IInv, PutMiss, StartAt
<1>1. /\ cap \in Nat /\ cap > 10 /\ key \in Keys /\ val \in Vals
      /\ pc = "find" /\ call = "put"
  BY Types DEF Arguments, Absent
<1>2. /\ UNCHANGED <<table, args, old, moved>>
      /\ ~Placing /\ Placing' /\ ~Growing /\ ~Growing'
  BY <1>1 DEF Placing, Growing, growth
<1>3. Live' = Live /\ Waiting' = Waiting /\ UsedSlots' = UsedSlots
  BY <1>1, <1>2, SameTable DEF Live, Waiting, table
<1>4. TypeOK'
  <2>1. TableOK' /\ LocalsOK'
    BY <1>1, <1>2, StartRange DEF TypeOK, TableOK, LocalsOK, table, args, Entry
  <2>2. GrowthOK' /\ HistoryOK'
    BY <1>1, <1>2 DEF TypeOK, GrowthOK, HistoryOK, Report, table, Disturb
  <2>3. QED
    BY <2>1, <2>2 DEF TypeOK
<1>5. Arguments' /\ Former' /\ Load'
  BY <1>1, <1>2 DEF Arguments, Former, Load, table, args, Growing
<1>6. SlotLeft' /\ ProbeInvariant'
  BY <1>2, SameTable DEF Probing
<1>7. carried'.key = key /\ Proper(carried')
  BY <1>1 DEF Proper
<1>8. AllProper' /\ Unique'
  <2>1. Waiting = {}
    BY <1>2 DEF Former, Waiting, Blanks
  <2>2. \A i \in Live : entries[i].key # key
    BY AbsentIsAbsent DEF Live
  <2>3. AllProper'
    BY <1>2, <1>3, <1>7 DEF AllProper, table, Proper, HashOf
  <2>4. Unique'
    BY <1>2, <1>3, <1>7, <2>1, <2>2 DEF Unique, table
  <2>5. QED
    BY <2>3, <2>4
<1>9. Searching' /\ Carrying' /\ Hole'
  BY <1>1, <1>2, StartRange, SameTable DEF Searching, Carrying, Hole, HashOf
<1>10. Walked'
  BY DEF Walked, Disturb
<1>11. QED
  BY <1>4, <1>5, <1>6, <1>8, <1>9, <1>10 DEF Probing

LEMMA PlaceOnStep == IInv /\ PlaceOn => IInv'
<1> SUFFICES ASSUME IInv, PlaceOn PROVE IInv'
  OBVIOUS
<1> USE DEF IInv, PlaceOn, Advance
<1>1. /\ cap \in Nat /\ cap > 10 /\ idx \in 0..(cap - 1) /\ dist \in 0..(cap - 1)
      /\ carried.hash \in Nat /\ entries[idx].dist \in Nat /\ Used(idx)
  BY Types
<1>2. UNCHANGED <<table, old, moved, carried, args>> /\ Placing /\ Placing'
  BY DEF Placing, growth
<1>3. Live' = Live /\ Waiting' = Waiting /\ UsedSlots' = UsedSlots
  BY <1>1, <1>2, SameTable DEF Live, Waiting, table, Placing
<1> DEFINE h == Home(carried.hash)
<1>4. h \in 0..(cap - 1) /\ h' = h
  BY <1>1, <1>2, HomeRange, SameTable
<1>5. \A d \in 0..dist : Used(At(h, d)) /\ entries[At(h, d)].dist >= d
  BY <1>1, <1>2 DEF Probing, Carrying
<1>6. dist + 1 \in 0..(cap - 1)
  BY <1>4, <1>5, NoLap
<1>7. idx' = At(h, dist') /\ idx' \in 0..(cap - 1)
  BY <1>1, <1>2, <1>4, <1>6, AtRange DEF Probing, Carrying
<1>8. TypeOK'
  <2>1. TableOK' /\ LocalsOK'
    BY <1>1, <1>2, <1>6, <1>7 DEF TypeOK, TableOK, LocalsOK, table, args
  <2>2. GrowthOK' /\ HistoryOK'
    BY <1>2 DEF TypeOK, GrowthOK, HistoryOK, table, walking
  <2>3. QED
    BY <2>1, <2>2 DEF TypeOK
<1>9. Arguments' /\ Former' /\ Load'
  BY <1>1, <1>2 DEF Arguments, Former, Load, table, args, Growing
<1>10. SlotLeft' /\ ProbeInvariant'
  BY <1>2, SameTable DEF Probing
<1>11. AllProper' /\ Unique'
  BY <1>2, <1>3 DEF AllProper, Unique, table, Proper, HashOf
<1>12. Carrying'
  BY <1>1, <1>2, <1>4, <1>5, <1>7, SameTable DEF Carrying, table
<1>13. Searching' /\ Hole'
  BY <1>2 DEF Searching, Hole, Placing
<1>14. Walked'
  BY <1>2, <1>3 DEF Walked, walking, table, Placing
<1>15. QED
  BY <1>8, <1>9, <1>10, <1>11, <1>12, <1>13, <1>14 DEF Probing

LEMMA RehashStep == IInv /\ Rehash => IInv'
<1> SUFFICES ASSUME IInv, Rehash PROVE IInv'
  OBVIOUS
<1> USE DEF IInv, Rehash, StartAt
<1>1. /\ cap \in Nat /\ cap > 10 /\ count \in Nat /\ moved \in Nat
      /\ pc = "rehash" /\ Growing /\ ~Placing
  BY Types DEF Growing, Placing, TypeOK, GrowthOK
<1>2. PICK n \in Nat : 2 * n = cap /\ old \in [0..(n - 1) -> Entry] /\ moved \in 0..n
  BY <1>1 DEF Former
<1>3. moved \in 0..(n - 1) /\ old[moved] \in Entry /\ old[moved].hash \in Nat
  BY <1>2 DEF Entry
<1>4. UNCHANGED <<table, args, old>> /\ moved' = moved + 1 /\ Growing' /\ moved' \in 0..n
  BY <1>1, <1>2, <1>3 DEF Growing
<1>5. /\ Live' = Live /\ UsedSlots' = UsedSlots
      /\ Waiting' = Waiting \ {moved}
      /\ moved \in Waiting <=> old[moved].hash # 0
  BY <1>1, <1>2, <1>3, <1>4, SameTable DEF Live, Waiting, table
<1>6. TypeOK'
  <2>1. Home(old[moved].hash) \in 0..(cap - 1)
    BY <1>1, <1>3, HomeRange
  <2>2. TableOK' /\ LocalsOK'
    BY <1>1, <1>3, <1>4, <2>1 DEF TypeOK, TableOK, LocalsOK, table, args
  <2>3. n \in 0..cap' /\ 2 * n = cap' /\ old' \in [0..(n - 1) -> Entry] /\ moved' \in Nat
    BY <1>1, <1>2, <1>4 DEF table
  <2>4. GrowthOK'
    BY <2>3 DEF GrowthOK
  <2>5. HistoryOK'
    BY DEF TypeOK, HistoryOK, walking
  <2>6. QED
    BY <2>2, <2>4, <2>5 DEF TypeOK
<1>7. Arguments'
  BY <1>1, <1>4 DEF Arguments, args
<1>8. Former'
  BY <1>2, <1>4 DEF Former, table
<1>9. Load'
  BY <1>1, <1>4 DEF Load, table
<1>10. SlotLeft' /\ ProbeInvariant'
  BY <1>4, SameTable DEF Probing
<1>11. AllProper'
  BY <1>1, <1>4, <1>5 DEF AllProper, table, Proper, HashOf, Placing
<1>12. Unique'
  BY <1>1, <1>4, <1>5 DEF Unique, table, Placing
<1>13. Carrying'
  <2>1. old[moved].hash # 0 => idx' = At(Home(carried'.hash), 0) /\ dist' = 0
    BY <1>1, <1>3, HomeRange, AtRange
  <2>2. QED
    BY <1>1, <1>4, <2>1, SameTable DEF Carrying, Placing
<1>14. Searching' /\ Hole'
  BY <1>1 DEF Searching, Hole
<1>15. Walked'
  BY <1>1, <1>4 DEF Walked, walking
<1>16. QED
  BY <1>6, <1>7, <1>8, <1>9, <1>10, <1>11, <1>12, <1>13, <1>14, <1>15 DEF Probing

LEMMA EndGrowStep == IInv /\ EndGrow => IInv'
<1> SUFFICES ASSUME IInv, EndGrow PROVE IInv'
  OBVIOUS
<1> USE DEF IInv, EndGrow, StartAt
<1>1. /\ cap \in Nat /\ cap > 10 /\ count \in Nat /\ moved \in Nat
      /\ pc = "rehash" /\ Growing /\ ~Placing /\ ~Placing' /\ ~Growing'
  BY Types DEF Growing, Placing, TypeOK, GrowthOK
<1>2. PICK n \in Nat : 2 * n = cap /\ old \in [0..(n - 1) -> Entry] /\ moved \in 0..n
  BY <1>1 DEF Former
<1>3. moved = n /\ Waiting = {} /\ Waiting' = {}
  BY <1>2 DEF Waiting, Blanks
<1>4. UNCHANGED <<table, args, carried>> /\ key \in Keys
  BY <1>1 DEF Arguments
<1>5. Live' = Live /\ UsedSlots' = UsedSlots
  BY <1>1, <1>4, SameTable DEF Live
<1>6. TypeOK'
  <2>1. TableOK' /\ LocalsOK'
    BY <1>1, <1>4, StartRange DEF TypeOK, TableOK, LocalsOK, table, args
  <2>2. old' \in [0..(0 - 1) -> Entry] /\ 0 \in 0..cap' /\ moved' \in Nat
    BY <1>1, <1>4 DEF Blanks, table
  <2>3. GrowthOK'
    BY <2>2 DEF GrowthOK
  <2>4. HistoryOK'
    BY DEF TypeOK, HistoryOK, walking
  <2>5. QED
    BY <2>1, <2>3, <2>4 DEF TypeOK
<1>7. Arguments' /\ Former'
  BY <1>1, <1>4 DEF Arguments, Former, args
<1>8. Load'
  BY <1>1, <1>2, <1>3, <1>4 DEF Load, table, Growing
<1>9. SlotLeft' /\ ProbeInvariant'
  BY <1>4, SameTable DEF Probing
<1>10. AllProper' /\ Unique'
  BY <1>1, <1>3, <1>4, <1>5 DEF AllProper, Unique, table, Proper, HashOf
<1>11. Searching' /\ Carrying' /\ Hole'
  BY <1>1, <1>4, StartRange, SameTable DEF Searching, Carrying, Hole, args, HashOf
<1>12. Walked'
  BY <1>1, <1>4 DEF Walked, walking
<1>13. QED
  BY <1>6, <1>7, <1>8, <1>9, <1>10, <1>11, <1>12 DEF Probing

-----------------------------------------------------------------------------
(* Writing to the array.                                                   *)

(* A carried entry put down where it is due keeps the ring in order.       *)
LEMMA PutDown ==
  ASSUME IInv, Placing, UNCHANGED cap,
         Used(idx) => entries[idx].dist < dist,
         entries' = [entries EXCEPT ![idx] = [carried EXCEPT !.dist = dist]]
  PROVE  /\ entries' \in [0..(cap - 1) -> Entry]
         /\ UsedSlots' = UsedSlots \cup {idx}
         /\ \A i \in 0..(cap - 1) \ {idx} : entries'[i] = entries[i]
         /\ /\ entries'[idx].key = carried.key
            /\ entries'[idx].val = carried.val
            /\ entries'[idx].hash = carried.hash
            /\ entries'[idx].dist = dist
         /\ ProbeInvariant'
<1> USE DEF IInv
<1>1. /\ cap \in Nat /\ cap > 10 /\ idx \in 0..(cap - 1) /\ dist \in 0..(cap - 1)
      /\ carried \in Entry /\ entries \in [0..(cap - 1) -> Entry] /\ Proper(carried)
  BY Types DEF TypeOK, TableOK, AllProper
<1>2. carried.hash \in Nat \ {0}
  BY <1>1, HashRange DEF Proper
<1>3. entries' \in [0..(cap - 1) -> Entry]
  <2>1. dist \in Nat
    BY <1>1
  <2>2. [carried EXCEPT !.dist = dist]
          = [hash |-> carried.hash, dist |-> dist, key |-> carried.key, val |-> carried.val]
    BY <1>1 DEF Entry
  <2>3. [carried EXCEPT !.dist = dist] \in Entry
    BY <1>1, <2>1, <2>2 DEF Entry
  <2>4. QED
    BY <1>1, <2>3
<1>4. \A i \in 0..(cap - 1) \ {idx} : entries'[i] = entries[i]
  BY <1>1
<1>5. /\ entries'[idx].key = carried.key
      /\ entries'[idx].val = carried.val
      /\ entries'[idx].hash = carried.hash
      /\ entries'[idx].dist = dist
  BY <1>1 DEF Entry
<1>6. UsedSlots' = UsedSlots \cup {idx}
  BY <1>1, <1>2, <1>4, <1>5 DEF UsedSlots, Used
<1>7. \A h, d : At(h, d)' = At(h, d) /\ Home(h)' = Home(h)
  BY DEF At, Home
<1>8. SUFFICES ASSUME NEW i \in UsedSlots \cup {idx}
               PROVE  LET e == entries'[i] IN
                      /\ e.key \in Keys /\ e.hash = HashOf(e.key)
                      /\ e.dist < cap /\ i = At(Home(e.hash), e.dist)
                      /\ \A d \in 0..e.dist : LET j == At(Home(e.hash), d) IN
                           entries'[j].hash # 0 /\ entries'[j].dist >= d
  BY <1>3, <1>4, <1>5, <1>6, <1>7 DEF ProbeInvariant, Used, HashOf
<1>9. CASE i = idx
  <2> DEFINE h == Home(carried.hash)
  <2>1. h \in 0..(cap - 1) /\ idx = At(h, dist)
    BY <1>1, <1>2, HomeRange DEF Probing, Carrying
  <2>2. ASSUME NEW d \in 0..(dist - 1)
        PROVE  /\ At(h, d) \in 0..(cap - 1) \ {idx}
               /\ Used(At(h, d)) /\ entries[At(h, d)].dist >= d
    <3>1. d \in 0..(cap - 1) /\ d # dist
      BY <1>1
    <3>2. At(h, d) \in 0..(cap - 1) /\ At(h, d) # At(h, dist)
      BY <1>1, <2>1, <3>1, AtRange
    <3>3. QED
      BY <2>1, <3>2 DEF Probing, Carrying
  <2>3. ASSUME NEW d \in 0..dist
        PROVE  entries'[At(h, d)].hash # 0 /\ entries'[At(h, d)].dist >= d
    <3>1. CASE d = dist
      BY <1>1, <1>2, <1>5, <2>1, <3>1
    <3>2. CASE d \in 0..(dist - 1)
      BY <1>4, <2>2, <3>2 DEF Used
    <3>3. QED
      BY <1>1, <3>1, <3>2
  <2>4. QED
    BY <1>1, <1>5, <1>9, <2>1, <2>3 DEF Proper
<1>10. CASE i # idx
  <2>1. i \in UsedSlots /\ i \in 0..(cap - 1) \ {idx} /\ entries[i].dist \in Nat
    BY <1>10, Types
  <2> DEFINE e == entries[i]
             h == Home(e.hash)
  <2>2. /\ e.key \in Keys /\ e.hash = HashOf(e.key)
        /\ e.dist < cap /\ i = At(h, e.dist)
        /\ \A d \in 0..e.dist : Used(At(h, d)) /\ entries[At(h, d)].dist >= d
    BY <2>1 DEF Probing, ProbeInvariant
  <2>3. h \in 0..(cap - 1)
    BY <1>1, <2>2, HashRange, HomeRange
  <2>4. ASSUME NEW d \in 0..e.dist
        PROVE  entries'[At(h, d)].hash # 0 /\ entries'[At(h, d)].dist >= d
    <3>1. At(h, d) \in 0..(cap - 1) /\ entries[At(h, d)].dist \in Nat
      BY <1>1, <2>1, <2>2, <2>3, AtRange, Types
    <3>2. CASE At(h, d) = idx
      BY <1>1, <1>2, <1>5, <2>1, <2>2, <3>1, <3>2
    <3>3. CASE At(h, d) # idx
      BY <1>4, <2>2, <3>1, <3>3 DEF Used
    <3>4. QED
      BY <3>2, <3>3
  <2>5. QED
    BY <1>4, <2>1, <2>2, <2>4
<1>11. QED
  BY <1>9, <1>10

LEMMA StoreStep == IInv /\ Store => IInv'
<1> SUFFICES ASSUME IInv, Store PROVE IInv'
  OBVIOUS
<1> USE DEF IInv, Store
<1>1. /\ cap \in Nat /\ cap > 10 /\ count \in Nat /\ moved \in Nat
      /\ idx \in 0..(cap - 1) /\ idx \notin UsedSlots
      /\ Placing /\ ~Placing' /\ Blank \in Entry /\ Proper(carried)
  BY Types DEF Placing, TypeOK, GrowthOK, Blank, Entry, AllProper, Return
<1>2. /\ UNCHANGED <<cap, old, moved>> /\ Growing' = Growing
      /\ pc' = IF pc = "place" THEN "idle" ELSE "rehash"
  BY <1>1 DEF growth, Growing, Return, Placing
<1>3. /\ entries' \in [0..(cap - 1) -> Entry]
      /\ UsedSlots' = UsedSlots \cup {idx}
      /\ \A i \in UsedSlots : entries'[i] = entries[i]
      /\ entries'[idx].key = carried.key
      /\ entries'[idx].val = carried.val
      /\ entries'[idx].hash = carried.hash
      /\ ProbeInvariant'
  BY <1>1, PutDown, Types
<1>4. Live = UsedSlots /\ Live' = UsedSlots \cup {idx} /\ Waiting' = Waiting
  BY <1>1, <1>2, <1>3 DEF Live, Waiting, Placing
<1>5. SlotLeft' /\ Load'
  <2>1. Cardinality(UsedSlots') = count + 1
    BY <1>1, <1>3, SlotsFinite, FS_AddElement DEF SlotLeft
  <2>2. Load'
    BY <1>1, <1>2 DEF Load, Growing, Placing
  <2>3. count' < cap
    <3>1. CASE pc = "place"
      BY <1>1, <3>1 DEF Load
    <3>2. CASE pc = "move"
      <4>1. PICK n \in Nat : 2 * n = cap /\ moved \in 0..n
        BY <3>2 DEF Former, Growing
      <4>2. QED
        BY <1>1, <3>2, <4>1 DEF Load
    <3>3. QED
      BY <1>1, <3>1, <3>2 DEF Placing
  <2>4. QED
    BY <1>2, <2>1, <2>2, <2>3 DEF SlotLeft
<1>6. TypeOK'
  <2>1. TableOK'
    BY <1>1, <1>2, <1>3, <1>5 DEF TableOK, SlotLeft
  <2>2. LocalsOK'
    BY <1>1, <1>2 DEF TypeOK, LocalsOK, Return, locals, args
  <2>3. GrowthOK' /\ HistoryOK'
    BY <1>2 DEF TypeOK, GrowthOK, HistoryOK, walking
  <2>4. QED
    BY <2>1, <2>2, <2>3 DEF TypeOK
<1>7. Arguments' /\ Former'
  <2>1. Arguments'
    BY <1>1, <1>2 DEF Arguments, Placing, Return, locals, args
  <2>2. Former'
    BY <1>2 DEF Former
  <2>3. QED
    BY <2>1, <2>2
<1>8. AllProper'
  BY <1>1, <1>2, <1>3, <1>4 DEF AllProper, Proper, HashOf
<1>9. Unique'
  BY <1>1, <1>2, <1>3, <1>4 DEF Unique
<1>10. Searching' /\ Carrying' /\ Hole'
  BY <1>1, <1>2 DEF Searching, Carrying, Hole
<1>11. Walked'
  BY <1>1, <1>2 DEF Walked, walking, Placing
<1>12. QED
  BY <1>3, <1>5, <1>6, <1>7, <1>8, <1>9, <1>10, <1>11 DEF Probing

LEMMA DisplaceStep == IInv /\ Displace => IInv'
<1> SUFFICES ASSUME IInv, Displace PROVE IInv'
  OBVIOUS
<1> USE DEF IInv, Displace
<1>1. /\ cap \in Nat /\ cap > 10 /\ count \in Nat
      /\ idx \in 0..(cap - 1) /\ dist \in 0..(cap - 1) /\ idx \in UsedSlots
      /\ Placing /\ Placing' /\ Proper(carried) /\ Proper(entries[idx])
      /\ entries[idx].dist \in 0..(dist - 1) /\ entries[idx] \in Entry
  BY Types DEF Placing, AllProper
<1>2. UNCHANGED <<cap, count, old, moved, args>> /\ Growing' = Growing
  BY DEF growth, Growing
<1>3. /\ entries' \in [0..(cap - 1) -> Entry]
      /\ UsedSlots' = UsedSlots
      /\ \A i \in 0..(cap - 1) \ {idx} : entries'[i] = entries[i]
      /\ entries'[idx].key = carried.key
      /\ entries'[idx].val = carried.val
      /\ entries'[idx].hash = carried.hash
      /\ entries'[idx].dist = dist
      /\ ProbeInvariant'
  BY <1>1, PutDown
<1>4. Live = UsedSlots /\ Live' = UsedSlots /\ Waiting' = Waiting
  BY <1>1, <1>2, <1>3 DEF Live, Waiting, Placing
<1> DEFINE e == entries[idx]
           h == Home(e.hash)
<1>5. /\ h \in 0..(cap - 1) /\ idx = At(h, e.dist)
      /\ \A d \in 0..e.dist : Used(At(h, d)) /\ entries[At(h, d)].dist >= d
  BY <1>1, HashRange, HomeRange DEF Probing, ProbeInvariant, Proper
<1>6. e.dist + 1 \in 0..(cap - 1) /\ After(idx) = At(h, e.dist + 1)
      /\ After(idx) \in 0..(cap - 1)
  BY <1>1, <1>5, AtRange
<1>7. Carrying'
  <2>1. \A x, d : At(x, d)' = At(x, d) /\ Home(x)' = Home(x)
    BY <1>2 DEF At, Home
  <2>2. ASSUME NEW d \in 0..e.dist
        PROVE  entries'[At(h, d)].hash # 0 /\ entries'[At(h, d)].dist >= d
    <3>1. At(h, d) \in 0..(cap - 1)
      BY <1>1, <1>5, AtRange
    <3>2. CASE At(h, d) = idx
      BY <1>1, <1>3, <3>2, HashRange DEF Proper
    <3>3. CASE At(h, d) # idx
      BY <1>3, <1>5, <3>1, <3>3 DEF Used
    <3>4. QED
      BY <3>2, <3>3
  <2>3. carried' = e /\ dist' = e.dist + 1 /\ idx' = At(h, dist')
    BY <1>6
  <2>4. QED
    BY <1>1, <2>1, <2>2, <2>3 DEF Carrying, Used
<1>8. SlotLeft' /\ Load'
  <2>1. SlotLeft'
    BY <1>2, <1>3 DEF SlotLeft
  <2>2. Load'
    BY <1>2 DEF Load, args
  <2>3. QED
    BY <2>1, <2>2
<1>9. TypeOK'
  <2>1. TableOK'
    BY <1>2, <1>3 DEF TypeOK, TableOK
  <2>2. LocalsOK'
    BY <1>1, <1>2, <1>6 DEF TypeOK, LocalsOK, args
  <2>3. GrowthOK' /\ HistoryOK'
    BY <1>2 DEF TypeOK, GrowthOK, HistoryOK, walking
  <2>4. QED
    BY <2>1, <2>2, <2>3 DEF TypeOK
<1>10. Arguments' /\ Former'
  BY <1>2 DEF Arguments, Former, args
<1>11. AllProper'
  <2>1. \A i \in UsedSlots : i \in 0..(cap - 1)
    BY DEF UsedSlots
  <2>2. QED
    BY <1>1, <1>2, <1>3, <1>4, <2>1 DEF AllProper, Proper, HashOf
<1>12. Unique'
  <2>1. \A i \in UsedSlots : i \in 0..(cap - 1)
    BY DEF UsedSlots
  <2>2. QED
    BY <1>1, <1>2, <1>3, <1>4, <2>1 DEF Unique
<1>13. Searching' /\ Hole' /\ Walked'
  BY <1>1 DEF Searching, Hole, Walked, walking, Placing
<1>14. QED
  BY <1>3, <1>7, <1>8, <1>9, <1>10, <1>11, <1>12, <1>13 DEF Probing

(* The slot after the hole, and who passes through the hole.               *)
LEMMA PastHole ==
  ASSUME IInv
  PROVE  /\ After(idx) \in 0..(cap - 1) \ {idx}
         /\ \A i \in UsedSlots :
              LET e == entries[i]
                  h == Home(e.hash) IN
              /\ h \in 0..(cap - 1) /\ e.dist \in 0..(cap - 1) /\ i = At(h, e.dist)
              /\ \A d \in 0..e.dist :
                   /\ At(h, d) \in 0..(cap - 1)
                   /\ Used(At(h, d)) /\ entries[At(h, d)].dist >= d
                   /\ At(h, d) = idx /\ i # idx =>
                        /\ Used(After(idx))
                        /\ entries[After(idx)].dist >= d + 1
<1> USE DEF IInv
<1>1. cap \in Nat /\ cap > 10 /\ idx \in 0..(cap - 1)
  BY Types
<1>2. After(idx) \in 0..(cap - 1) \ {idx}
  BY <1>1 DEF After
<1> SUFFICES ASSUME NEW i \in UsedSlots
             PROVE  LET e == entries[i]
                        h == Home(e.hash) IN
                    /\ h \in 0..(cap - 1) /\ e.dist \in 0..(cap - 1) /\ i = At(h, e.dist)
                    /\ \A d \in 0..e.dist :
                         /\ At(h, d) \in 0..(cap - 1)
                         /\ Used(At(h, d)) /\ entries[At(h, d)].dist >= d
                         /\ At(h, d) = idx /\ i # idx =>
                              /\ Used(After(idx))
                              /\ entries[After(idx)].dist >= d + 1
  BY <1>2
<1> DEFINE e == entries[i]
           h == Home(e.hash)
<1>3. /\ e.key \in Keys /\ e.hash = HashOf(e.key) /\ e.dist \in Nat
      /\ e.dist < cap /\ i = At(h, e.dist)
      /\ \A d \in 0..e.dist : Used(At(h, d)) /\ entries[At(h, d)].dist >= d
  BY Types DEF Probing, ProbeInvariant
<1>4. h \in 0..(cap - 1) /\ e.dist \in 0..(cap - 1)
  BY <1>1, <1>3, HashRange, HomeRange
<1> HIDE DEF h, e
<1>5. ASSUME NEW d \in 0..e.dist
      PROVE  /\ At(h, d) \in 0..(cap - 1)
             /\ At(h, d) = idx /\ i # idx => Used(After(idx)) /\ entries[After(idx)].dist >= d + 1
  <2>1. d \in 0..(cap - 1)
    BY <1>1, <1>4
  <2>2. At(h, d) \in 0..(cap - 1) /\ (d + 1 < cap => After(At(h, d)) = At(h, d + 1))
    BY <1>1, <1>4, <2>1, AtRange
  <2>3. ASSUME At(h, d) = idx, i # idx
        PROVE  Used(After(idx)) /\ entries[After(idx)].dist >= d + 1
    <3>1. d + 1 \in 0..e.dist /\ d + 1 < cap
      BY <1>1, <1>3, <1>4, <2>1, <2>3
    <3>2. QED
      BY <1>3, <2>2, <2>3, <3>1
  <2>4. QED
    BY <2>2, <2>3
<1>6. QED
  BY <1>3, <1>4, <1>5 DEF h, e

LEMMA ShiftStep == IInv /\ Shift => IInv'
<1> SUFFICES ASSUME IInv, Shift PROVE IInv'
  OBVIOUS
<1> USE DEF IInv, Shift
<1> DEFINE n == After(idx)
           t == entries[n]
           h == Home(t.hash)
<1>1. /\ cap \in Nat /\ cap > 10 /\ idx \in 0..(cap - 1) /\ idx \in UsedSlots
      /\ n \in 0..(cap - 1) \ {idx} /\ n \in UsedSlots
      /\ t \in Entry /\ Proper(t) /\ t.dist \in Nat /\ t.dist > 0
      /\ entries \in [0..(cap - 1) -> Entry]
      /\ pc = "shift" /\ ~Placing /\ ~Growing
  BY Types, PastHole DEF Follows, Probing, Hole, AllProper, TypeOK, TableOK,
                         Placing, Growing
<1>2. /\ UNCHANGED <<cap, count, pc, old, moved, args, carried, dist>>
      /\ ~Placing' /\ ~Growing' /\ idx' = n
  BY <1>1 DEF growth, Placing, Growing
<1>3. [t EXCEPT !.dist = @ - 1]
        = [hash |-> t.hash, dist |-> t.dist - 1, key |-> t.key, val |-> t.val]
  BY <1>1 DEF Entry
<1>4. /\ entries' \in [0..(cap - 1) -> Entry]
      /\ \A i \in 0..(cap - 1) \ {idx} : entries'[i] = entries[i]
      /\ entries'[idx].key = t.key
      /\ entries'[idx].val = t.val
      /\ entries'[idx].hash = t.hash
      /\ entries'[idx].dist = t.dist - 1
  <2>1. [t EXCEPT !.dist = @ - 1] \in Entry
    BY <1>1, <1>3 DEF Entry
  <2>2. QED
    BY <1>1, <1>3, <2>1
<1> HIDE DEF n
<1>5. UsedSlots' = UsedSlots
  <2>1. t.hash # 0
    BY <1>1 DEF UsedSlots, Used
  <2>2. QED
    BY <1>1, <1>2, <1>4, <2>1 DEF UsedSlots, Used
<1>6. /\ Live = UsedSlots \ {idx} /\ Live' = UsedSlots \ {n}
      /\ Waiting' = Waiting /\ \A i \in UsedSlots : i \in 0..(cap - 1)
  BY <1>1, <1>2, <1>5 DEF Live, Waiting, UsedSlots
<1>7. TypeOK'
  <2>1. TableOK' /\ LocalsOK'
    BY <1>1, <1>2, <1>4 DEF TypeOK, TableOK, LocalsOK, args
  <2>2. GrowthOK' /\ HistoryOK'
    BY <1>2 DEF TypeOK, GrowthOK, HistoryOK, walking
  <2>3. QED
    BY <2>1, <2>2 DEF TypeOK
<1>8. Arguments' /\ Former' /\ Load'
  BY <1>1, <1>2 DEF Arguments, Former, Load, args
<1>9. SlotLeft'
  BY <1>2, <1>5 DEF SlotLeft
<1>10. AllProper'
  BY <1>1, <1>2, <1>4, <1>5, <1>6 DEF AllProper, Proper, HashOf
<1>11. Unique'
  BY <1>1, <1>2, <1>4, <1>6 DEF Unique
<1>12. ProbeInvariant'
  <2>1. \A x, d : At(x, d)' = At(x, d) /\ Home(x)' = Home(x)
    BY <1>2 DEF At, Home
  <2>2. SUFFICES ASSUME NEW i \in UsedSlots
                 PROVE  LET e == entries'[i] IN
                        /\ e.key \in Keys /\ e.hash = HashOf(e.key)
                        /\ e.dist < cap /\ i = At(Home(e.hash), e.dist)
                        /\ \A d \in 0..e.dist : LET j == At(Home(e.hash), d) IN
                             entries'[j].hash # 0 /\ entries'[j].dist >= d
    BY <1>2, <1>5, <2>1 DEF ProbeInvariant, Used, HashOf
  <2>3. CASE i = idx
    <3>1. /\ h \in 0..(cap - 1) /\ t.dist \in 0..(cap - 1) /\ n = At(h, t.dist)
          /\ \A d \in 0..t.dist : /\ At(h, d) \in 0..(cap - 1)
                                  /\ Used(At(h, d)) /\ entries[At(h, d)].dist >= d
      BY <1>1, PastHole
    <3>2. At(h, t.dist - 1) = idx
      <4>1. t.dist \in 1..(cap - 1) /\ After(idx) = At(h, t.dist)
        BY <1>1, <3>1 DEF n
      <4>2. QED
        BY <1>1, <3>1, <4>1, Before
    <3>3. ASSUME NEW d \in 0..(t.dist - 1)
          PROVE  entries'[At(h, d)].hash # 0 /\ entries'[At(h, d)].dist >= d
      <4>1. d \in 0..t.dist
        BY <1>1
      <4>2. CASE At(h, d) = idx
        <5>1. t.hash # 0
          BY <1>1 DEF UsedSlots, Used
        <5>2. QED
          BY <1>1, <1>4, <4>2, <5>1
      <4>3. CASE At(h, d) # idx
        BY <1>4, <3>1, <4>1, <4>3 DEF Used
      <4>4. QED
        BY <4>2, <4>3
    <3>4. QED
      BY <1>1, <1>4, <2>3, <3>1, <3>2, <3>3 DEF Proper
  <2>4. CASE i # idx
    <3> DEFINE e == entries[i]
               g == Home(e.hash)
    <3>1. entries'[i] = e /\ Proper(e)
      BY <1>4, <1>6, <2>4 DEF AllProper
    <3>2. /\ e.dist \in 0..(cap - 1) /\ i = At(g, e.dist)
          /\ \A d \in 0..e.dist :
               /\ At(g, d) \in 0..(cap - 1)
               /\ Used(At(g, d)) /\ entries[At(g, d)].dist >= d
               /\ At(g, d) = idx => t.dist >= d + 1
      BY <2>4, PastHole DEF n
    <3>3. ASSUME NEW d \in 0..e.dist
          PROVE  entries'[At(g, d)].hash # 0 /\ entries'[At(g, d)].dist >= d
      <4>1. CASE At(g, d) = idx
        <5>1. t.hash # 0
          BY <1>1 DEF UsedSlots, Used
        <5>2. QED
          BY <1>1, <1>4, <3>2, <4>1, <5>1
      <4>2. CASE At(g, d) # idx
        BY <1>4, <3>2, <4>2 DEF Used
      <4>3. QED
        BY <4>1, <4>2
    <3>4. e.key \in Keys /\ e.hash = HashOf(e.key) /\ e.dist < cap
      BY <1>1, <3>1, <3>2 DEF Proper
    <3>5. QED
      BY <3>1, <3>2, <3>3, <3>4
  <2>5. QED
    BY <2>3, <2>4
<1>13. Searching' /\ Carrying' /\ Hole'
  BY <1>1, <1>2, <1>4 DEF Searching, Carrying, Hole, UsedSlots, Used
<1>14. Walked'
  BY <1>1, <1>2 DEF Walked, walking
<1>15. QED
  BY <1>7, <1>8, <1>9, <1>10, <1>11, <1>12, <1>13, <1>14 DEF Probing

LEMMA ClearStep == IInv /\ Clear => IInv'
<1> SUFFICES ASSUME IInv, Clear PROVE IInv'
  OBVIOUS
<1> USE DEF IInv, Clear, Return
<1>1. /\ cap \in Nat /\ cap > 10 /\ count \in Nat /\ idx \in 0..(cap - 1) /\ idx \in UsedSlots
      /\ entries \in [0..(cap - 1) -> Entry] /\ Blank \in Entry /\ Blank.hash = 0
      /\ pc = "shift" /\ ~Placing /\ ~Growing /\ ~Placing' /\ ~Growing'
  BY Types DEF Probing, Hole, TypeOK, TableOK, Placing, Growing, Blank, Entry
<1>2. UNCHANGED <<cap, old, moved>>
  BY DEF growth
<1>3. /\ entries' \in [0..(cap - 1) -> Entry]
      /\ \A i \in 0..(cap - 1) \ {idx} : entries'[i] = entries[i]
      /\ entries'[idx] = Blank
  BY <1>1
<1>4. UsedSlots' = UsedSlots \ {idx}
  BY <1>1, <1>2, <1>3 DEF UsedSlots, Used
<1>5. Live = UsedSlots \ {idx} /\ Live' = UsedSlots \ {idx} /\ Waiting' = Waiting
      /\ \A i \in UsedSlots : i \in 0..(cap - 1)
  BY <1>1, <1>2, <1>4 DEF Live, Waiting, UsedSlots
<1>6. SlotLeft' /\ count' \in Nat
  <2>1. IsFiniteSet(UsedSlots) /\ Cardinality(UsedSlots) = count
    BY <1>1, SlotsFinite DEF SlotLeft
  <2>2. Cardinality(UsedSlots \ {idx}) = count - 1
    BY <1>1, <2>1, FS_RemoveElement
  <2>3. UsedSlots \ {idx} \subseteq UsedSlots
    OBVIOUS
  <2>4. IsFiniteSet(UsedSlots \ {idx})
    BY <2>1, <2>3, FS_Subset
  <2>5. count - 1 \in Nat
    BY <2>2, <2>4, FS_CardinalityType
  <2>6. QED
    BY <1>1, <1>2, <1>4, <2>2, <2>5 DEF SlotLeft
<1>7. TypeOK'
  <2>1. TableOK'
    BY <1>1, <1>2, <1>3, <1>6 DEF TypeOK, TableOK
  <2>2. LocalsOK'
    BY <1>1, <1>2 DEF LocalsOK
  <2>3. GrowthOK' /\ HistoryOK'
    BY <1>2 DEF TypeOK, GrowthOK, HistoryOK, walking
  <2>4. QED
    BY <2>1, <2>2, <2>3 DEF TypeOK
<1>8. Arguments' /\ Former'
  BY <1>1, <1>2 DEF Arguments, Former
<1>9. Load'
  BY <1>1, <1>2 DEF Load
<1>10. AllProper' /\ Unique'
  BY <1>1, <1>2, <1>3, <1>4, <1>5 DEF AllProper, Unique, Proper, HashOf
<1>11. ProbeInvariant'
  <2>1. \A x, d : At(x, d)' = At(x, d) /\ Home(x)' = Home(x)
    BY <1>2 DEF At, Home
  <2>2. SUFFICES ASSUME NEW i \in UsedSlots \ {idx}
                 PROVE  LET e == entries'[i] IN
                        /\ e.key \in Keys /\ e.hash = HashOf(e.key)
                        /\ e.dist < cap /\ i = At(Home(e.hash), e.dist)
                        /\ \A d \in 0..e.dist : LET j == At(Home(e.hash), d) IN
                             entries'[j].hash # 0 /\ entries'[j].dist >= d
    BY <1>2, <1>4, <2>1 DEF ProbeInvariant, Used, HashOf
  <2> DEFINE e == entries[i]
             g == Home(e.hash)
  <2>3. entries'[i] = e /\ Proper(e)
    BY <1>3, <1>5 DEF AllProper
  <2>4. /\ e.dist \in 0..(cap - 1) /\ i = At(g, e.dist)
        /\ \A d \in 0..e.dist :
             /\ At(g, d) \in 0..(cap - 1)
             /\ Used(At(g, d)) /\ entries[At(g, d)].dist >= d
             /\ At(g, d) # idx
    <3>1. /\ e.dist \in 0..(cap - 1) /\ i = At(g, e.dist)
          /\ \A d \in 0..e.dist :
               /\ At(g, d) \in 0..(cap - 1)
               /\ Used(At(g, d)) /\ entries[At(g, d)].dist >= d
               /\ At(g, d) = idx => Used(After(idx)) /\ entries[After(idx)].dist >= d + 1
      BY PastHole
    <3>2. entries[After(idx)].dist \in Nat
      BY Types, PastHole
    <3>3. ~(Used(After(idx)) /\ entries[After(idx)].dist > 0)
      BY DEF Follows
    <3>4. QED
      BY <1>1, <3>1, <3>2, <3>3
  <2>5. QED
    BY <1>1, <1>3, <2>3, <2>4 DEF Proper, Used
<1>12. Searching' /\ Carrying' /\ Hole'
  BY <1>1 DEF Searching, Carrying, Hole
<1>13. Walked'
  BY <1>1 DEF Walked, walking
<1>14. QED
  BY <1>6, <1>7, <1>8, <1>9, <1>10, <1>11, <1>12, <1>13 DEF Probing

-----------------------------------------------------------------------------
(* maphash.                                                                *)

LEMMA WalkStep == IInv /\ Walk => IInv'
<1> SUFFICES ASSUME IInv, Walk PROVE IInv'
  OBVIOUS
<1> USE DEF IInv
<1>1. /\ cap \in Nat /\ pc = "idle" /\ UNCHANGED <<table, pc, locals, old, moved, last>>
  BY Types DEF Walk, BeginWalk, Visit, EndWalk, growth
<1>2. Placing' = Placing /\ Growing' = Growing
  BY <1>1 DEF Placing, Growing
<1>3. Live' = Live /\ Waiting' = Waiting /\ UsedSlots' = UsedSlots /\ Live = UsedSlots
  BY <1>1, SameTable DEF Live, Waiting, table, locals
<1>4. HistoryOK' /\ Walked'
  <2>1. CASE BeginWalk
    <3>1. {j \in UsedSlots : j < 0} = {}
      BY <1>1 DEF UsedSlots
    <3>2. HistoryOK'
      BY <1>1, <2>1 DEF BeginWalk, HistoryOK, TypeOK
    <3>3. /\ seen' = {} /\ ~repeated' /\ walk' = 0 /\ walk' # Off /\ UNCHANGED entries
      BY <1>1, <2>1 DEF BeginWalk, Walked, table, Off
    <3>4. /\ 0 <= cap' /\ pc' \in {"idle", "find"}
          /\ seen' = {entries'[i].key : i \in {j \in UsedSlots' : j < walk'}}
      BY <1>1, <1>3, <3>1, <3>3 DEF table
    <3>5. Walked'
      BY <3>3, <3>4 DEF Walked
    <3>6. QED
      BY <3>2, <3>5
  <2>2. CASE EndWalk
    BY <1>1, <2>2 DEF EndWalk, Walked, HistoryOK, TypeOK, Off
  <2>3. CASE Visit
    <3>1. walk \in 0..(cap - 1) /\ walk' = walk + 1 /\ walk' # Off
      BY <1>1, <2>3 DEF Visit, TypeOK, HistoryOK, Off
    <3>2. CASE Used(walk)
      <4>1. walk \in UsedSlots
        BY <3>1, <3>2 DEF UsedSlots
      <4>2. entries[walk].key \in Keys
        BY <4>1 DEF AllProper, Proper
      <4>3. HistoryOK'
        BY <1>1, <2>3, <3>1, <3>2, <4>2 DEF Visit, TypeOK, HistoryOK
      <4>4. ASSUME ~disturbed
            PROVE  /\ entries[walk].key \notin seen
                   /\ seen' = {entries[i].key : i \in {j \in UsedSlots : j < walk + 1}}
        <5>1. seen = {entries[i].key : i \in {j \in UsedSlots : j < walk}}
          BY <3>1, <4>4 DEF Walked, Off
        <5>2. \A j \in UsedSlots : j \in 0..(cap - 1) /\ (j < walk + 1 <=> j < walk \/ j = walk)
          BY <1>1, <3>1 DEF UsedSlots
        <5>3. \A j \in UsedSlots : j < walk => entries[j].key # entries[walk].key
          BY <1>3, <3>1, <4>1, <5>2 DEF Unique
        <5>4. QED
          BY <2>3, <3>2, <4>1, <5>1, <5>2, <5>3 DEF Visit
      <4>5. Walked'
        <5>1. UNCHANGED <<cap, entries, pc, disturbed>> /\ walk # Off
          BY <1>1, <2>3 DEF Visit, table
        <5>2. ~disturbed => ~repeated' /\ walk' <= cap
          <6>1. walk + 1 <= cap
            BY <1>1, <3>1
          <6>2. ~disturbed => ~repeated
            BY <5>1 DEF Walked
          <6>3. repeated' <=> repeated \/ entries[walk].key \in seen
            BY <2>3, <3>2 DEF Visit
          <6>4. QED
            BY <3>1, <4>4, <6>1, <6>2, <6>3
        <5>3. QED
          BY <1>1, <1>3, <3>1, <4>4, <5>1, <5>2 DEF Walked
      <4>6. QED
        BY <4>3, <4>5
    <3>3. CASE ~Used(walk)
      <4>1. \A j \in UsedSlots : j \in 0..(cap - 1) /\ (j < walk + 1 <=> j < walk)
        BY <1>1, <3>1, <3>3 DEF UsedSlots
      <4>2. {j \in UsedSlots : j < walk + 1} = {j \in UsedSlots : j < walk}
        BY <4>1
      <4>3. HistoryOK'
        BY <1>1, <2>3, <3>1, <3>3 DEF Visit, TypeOK, HistoryOK
      <4>4. Walked'
        BY <1>1, <1>3, <2>3, <3>1, <3>3, <4>2 DEF Visit, Walked, table, Off
      <4>5. QED
        BY <4>3, <4>4
    <3>4. QED
      BY <3>2, <3>3
  <2>4. QED
    BY <2>1, <2>2, <2>3 DEF Walk
<1>5. TypeOK'
  <2>1. TableOK' /\ LocalsOK' /\ GrowthOK'
    BY <1>1 DEF TypeOK, TableOK, LocalsOK, GrowthOK, table, locals, args
  <2>2. QED
    BY <1>4, <2>1 DEF TypeOK
<1>6. Arguments' /\ Former' /\ Load'
  BY <1>1, <1>2 DEF Arguments, Former, Load, table, locals, args, Growing
<1>7. SlotLeft' /\ ProbeInvariant'
  BY <1>1, SameTable DEF Probing
<1>8. AllProper' /\ Unique'
  BY <1>1, <1>2, <1>3 DEF AllProper, Unique, table, locals, Proper, HashOf
<1>9. Searching' /\ Carrying' /\ Hole'
  BY <1>1 DEF Searching, Carrying, Hole, Placing
<1>10. QED
  BY <1>4, <1>5, <1>6, <1>7, <1>8, <1>9 DEF Probing

LEMMA Stutter == IInv /\ UNCHANGED vars => IInv'
<1> SUFFICES ASSUME IInv, UNCHANGED vars PROVE IInv'
  OBVIOUS
<1> USE DEF vars, table, locals, args, growth, walking
<1>1. TypeOK' /\ Arguments' /\ Former' /\ Load' /\ Walked'
  <2>1. TableOK' /\ LocalsOK' /\ GrowthOK' /\ HistoryOK'
    BY DEF IInv, TypeOK, TableOK, LocalsOK, GrowthOK, HistoryOK
  <2>2. Arguments' /\ Former' /\ Load'
    BY DEF IInv, Arguments, Former, Load, Growing
  <2>3. UsedSlots' = UsedSlots
    BY DEF UsedSlots, Used
  <2>4. Walked'
    BY <2>3 DEF IInv, Walked
  <2>5. QED
    BY <2>1, <2>2, <2>4 DEF TypeOK
<1>2. SlotLeft' /\ ProbeInvariant'
  BY SameTable DEF IInv, Probing
<1>3. Live' = Live /\ Waiting' = Waiting /\ UsedSlots' = UsedSlots /\ Placing' = Placing
  BY DEF Live, Waiting, UsedSlots, Used, Placing
<1>4. AllProper' /\ Unique'
  BY <1>3 DEF IInv, AllProper, Unique, Proper, HashOf
<1>5. Searching' /\ Carrying' /\ Hole'
  BY <1>3, SameTable DEF IInv, Probing, Searching, Carrying, Hole, HashOf
<1>6. QED
  BY <1>1, <1>2, <1>4, <1>5 DEF IInv, Probing

LEMMA Inductive == IInv /\ [Next]_vars => IInv'
<1> SUFFICES ASSUME IInv, [Next]_vars PROVE IInv'
  OBVIOUS
<1>1. ASSUME NEW k \in Keys, Get(k)
      PROVE  IInv'
  BY <1>1, ProbeStep DEF Get
<1>2. ASSUME NEW k \in Keys, Remove(k)
      PROVE  IInv'
  BY <1>2, ProbeStep DEF Remove
<1>3. ASSUME NEW k \in Keys, NEW v \in Vals, Put(k, v)
      PROVE  IInv'
  BY <1>3, ProbeStep, GrowStep DEF Put
<1>4. CASE Step
  BY <1>4, FindOnStep, GetHitStep, PutHitStep, RemoveHitStep, MissStep, PutMissStep,
     StoreStep, DisplaceStep, PlaceOnStep, RehashStep, EndGrowStep, ShiftStep,
     ClearStep DEF Step
<1>5. CASE Walk
  BY <1>5, WalkStep
<1>6. CASE UNCHANGED vars
  BY <1>6, Stutter
<1>7. QED
  BY <1>1, <1>2, <1>3, <1>4, <1>5, <1>6 DEF Next, Calls

(* The conjunction that is inductive holds in every reachable state.       *)
THEOREM Invariance == Spec => []IInv
BY Initially, Inductive, PTL DEF Spec

(* Types: in particular no index leaves the array and no probe goes round  *)
(* it, although no loop in the code looks at how far it has gone.          *)
THEOREM TypeCorrect == Spec => []TypeOK
<1>1. IInv => TypeOK
  BY DEF IInv
<1>2. QED
  BY <1>1, Invariance, PTL

(* After every write of hash_insert_raw, ls_hash_remove and hash_grow the  *)
(* way from the home of an entry to its slot is used throughout.           *)
THEOREM ProbesSound == Spec => []ProbeInvariant
<1>1. IInv => ProbeInvariant
  BY DEF IInv, Probing
<1>2. QED
  BY <1>1, Invariance, PTL

(* hash_grow comes early enough: an empty slot is left at every moment,    *)
(* and h->count is exact.                                                  *)
THEOREM SlotAlwaysLeft == Spec => []SlotLeft
<1>1. IInv => SlotLeft
  BY DEF IInv
<1>2. QED
  BY <1>1, Invariance, PTL

(* maphash calls its function once on each key if nothing is disturbed.    *)
THEOREM WalksComplete == Spec => []WalkComplete
<1>1. IInv => WalkComplete
  <2> SUFFICES ASSUME IInv, walk = cap, ~disturbed
               PROVE  seen = {entries[i].key : i \in UsedSlots} /\ ~repeated
    BY DEF WalkComplete
  <2>1. cap \in Nat /\ walk # Off
    BY Types DEF IInv, Off
  <2>2. {j \in UsedSlots : j < walk} = UsedSlots
    BY <2>1 DEF UsedSlots
  <2>3. QED
    BY <2>1, <2>2 DEF IInv, Walked
<1>2. QED
  BY <1>1, Invariance, PTL

-----------------------------------------------------------------------------
(* The table implements the map.                                           *)

InSlots == {<<entries[i].key, entries[i].val>> : i \in Live}

(* Outside of growth and insertion the map is what is in the slots.        *)
LEMMA Settled ==
  ASSUME IInv, ~Growing, ~Placing
  PROVE  Waiting = {} /\ Pairs = InSlots
BY DEF IInv, Former, Waiting, Blanks, Pairs, InSlots

LEMMA SettledNext ==
  ASSUME IInv', ~Growing', ~Placing'
  PROVE  Waiting' = {} /\ Pairs' = InSlots'
BY DEF IInv, Former, Waiting, Blanks, Pairs, InSlots

LEMMA MapInitially == Init => Contract!Init
<1> SUFFICES ASSUME Init PROVE Pairs = {}
  BY DEF Init, Contract!Init, Contract!Call
<1>1. UsedSlots = {} /\ Waiting = {} /\ ~Placing
  BY DEF Init, UsedSlots, Used, Waiting, Blanks, Blank, Placing
<1>2. QED
  BY <1>1 DEF Pairs, Live

(* Finding the key: what the slots hold, the map holds.                    *)
LEMMA Found ==
  ASSUME IInv, pc = "find", Holds(idx, key)
  PROVE  /\ idx \in Live /\ entries[idx].key = key /\ entries[idx].val \in Vals
         /\ <<key, entries[idx].val>> \in Pairs
         /\ Contract!Others(key)
              = {<<entries[i].key, entries[i].val>> : i \in Live \ {idx}}
<1> USE DEF IInv
<1>1. ~Growing /\ ~Placing /\ Pairs = InSlots
  BY Settled DEF Growing, Placing
<1>2. idx \in UsedSlots /\ entries[idx].key = key
  BY Types DEF Holds
<1>3. idx \in Live /\ entries[idx].val \in Vals
  BY <1>2 DEF Live, AllProper, Proper
<1>4. \A i \in Live \ {idx} : entries[i].key # key
  BY <1>2, <1>3 DEF Unique
<1>5. QED
  BY <1>1, <1>2, <1>3, <1>4 DEF InSlots, Contract!Others

LEMMA NotFound ==
  ASSUME IInv, Absent
  PROVE  Contract!Others(key) = Pairs /\ Pairs = InSlots
<1>1. Pairs = InSlots
  BY Settled DEF Growing, Placing, Absent
<1>2. \A i \in Live : entries[i].key # key
  BY AbsentIsAbsent DEF Live
<1>3. QED
  BY <1>1, <1>2 DEF InSlots, Contract!Others

LEMMA GetHitMaps == ASSUME IInv, IInv', GetHit PROVE Contract!Next
<1>1. key \in Keys /\ entries[idx].val \in Vals /\ <<key, entries[idx].val>> \in Pairs
  BY Found DEF GetHit, IInv, Arguments
<1>2. Live' = Live /\ UNCHANGED entries /\ ~Growing /\ ~Placing /\ ~Growing' /\ ~Placing'
  BY SameTable DEF GetHit, Return, Live, Growing, Placing, table
<1>3. Pairs' = Pairs
  BY <1>2, Settled, SettledNext DEF InSlots
<1>4. Contract!Hit(key, entries[idx].val)
  BY <1>1, <1>3 DEF Contract!Hit, Contract!Call, GetHit, Report
<1>5. QED
  BY <1>1, <1>4 DEF Contract!Next

LEMMA MissMaps == ASSUME IInv, IInv', Miss PROVE Contract!Next
<1>1. key \in Keys /\ Contract!Others(key) = Pairs
  BY NotFound DEF Miss, Absent, IInv, Arguments
<1>2. Live' = Live /\ UNCHANGED entries /\ ~Growing /\ ~Placing /\ ~Growing' /\ ~Placing'
  BY SameTable DEF Miss, Absent, Return, Live, Growing, Placing, table
<1>3. Pairs' = Pairs
  BY <1>2, Settled, SettledNext DEF InSlots
<1>4. Contract!Miss(call, key) /\ call \in {"get", "remove"}
  BY <1>1, <1>3 DEF Contract!Miss, Contract!Call, Miss, Report
<1>5. QED
  BY <1>1, <1>4 DEF Contract!Next

LEMMA PutHitMaps == ASSUME IInv, IInv', PutHit PROVE Contract!Next
<1>1. /\ key \in Keys /\ val \in Vals /\ idx \in Live /\ entries[idx].key = key
      /\ Contract!Others(key) = {<<entries[i].key, entries[i].val>> : i \in Live \ {idx}}
  BY Found DEF PutHit, IInv, Arguments
<1>2. /\ idx \in 0..(cap - 1) /\ Live \subseteq 0..(cap - 1) /\ cap' = cap
      /\ entries \in [0..(cap - 1) -> Entry] /\ pc = "find" /\ pc' = "idle"
  BY Types DEF IInv, TypeOK, TableOK, PutHit, Return
<1>3. /\ \A i \in 0..(cap - 1) : /\ entries'[i].hash = entries[i].hash
                                 /\ i # idx => entries'[i] = entries[i]
      /\ entries'[idx].key = key /\ entries'[idx].val = val
  BY <1>1, <1>2 DEF PutHit, Entry
<1>4. Live' = Live
  BY <1>2, <1>3 DEF Live, UsedSlots, Used
<1>5. Pairs' = {<<entries'[i].key, entries'[i].val>> : i \in Live}
  BY <1>2, <1>4, SettledNext DEF InSlots, Growing, Placing
<1>6. Pairs' = Contract!Others(key) \cup {<<key, val>>}
  BY <1>1, <1>2, <1>3, <1>5
<1>7. Contract!Put(key, val)
  BY <1>6 DEF Contract!Put, Contract!Call, PutHit, Report
<1>8. QED
  BY <1>1, <1>7 DEF Contract!Next

LEMMA RemoveHitMaps == ASSUME IInv, IInv', RemoveHit PROVE Contract!Next
<1>1. /\ key \in Keys /\ idx \in Live /\ entries[idx].key = key
      /\ <<key, entries[idx].val>> \in Pairs
      /\ Contract!Others(key) = {<<entries[i].key, entries[i].val>> : i \in Live \ {idx}}
  BY Found DEF RemoveHit, IInv, Arguments
<1>2. /\ Live' = Live \ {idx} /\ UNCHANGED entries
      /\ ~Growing' /\ ~Placing'
  BY SameTable DEF RemoveHit, Live, Growing, Placing, table, locals
<1>3. Pairs' = Contract!Others(key)
  BY <1>1, <1>2, SettledNext DEF InSlots
<1>4. Pairs # Contract!Others(key)
  BY <1>1 DEF Contract!Others
<1>5. Contract!Remove(key)
  BY <1>3, <1>4 DEF Contract!Remove, Contract!Call, RemoveHit, Report
<1>6. QED
  BY <1>1, <1>5 DEF Contract!Next

LEMMA PutMissMaps == ASSUME IInv, IInv', PutMiss PROVE Contract!Next
<1>1. key \in Keys /\ val \in Vals /\ Contract!Others(key) = Pairs /\ Pairs = InSlots
  BY NotFound DEF PutMiss, IInv, Arguments
<1>2. /\ Live' = Live /\ UNCHANGED entries /\ Placing' /\ ~Growing'
      /\ carried'.key = key /\ carried'.val = val
  BY SameTable DEF PutMiss, Absent, Live, Growing, Placing, table
<1>3. Waiting' = {}
  BY <1>2 DEF IInv, Former, Waiting, Blanks
<1>4. Pairs' = Contract!Others(key) \cup {<<key, val>>}
  BY <1>1, <1>2, <1>3 DEF Pairs, InSlots
<1>5. Contract!Put(key, val)
  BY <1>4 DEF Contract!Put, Contract!Call, PutMiss, Report
<1>6. QED
  BY <1>1, <1>5 DEF Contract!Next
(* The loops that only look move no pair.                                  *)
LEMMA Looking ==
  ASSUME UNCHANGED <<entries, cap>>, Live' = Live, Waiting' = Waiting,
         UNCHANGED old, Placing' <=> Placing, Placing => UNCHANGED carried
  PROVE  Pairs' = Pairs
BY DEF Pairs

LEMMA ProbeMaps ==
  ASSUME IInv, IInv', NEW op, NEW k, NEW v, Probe(op, k, v)
  PROVE  Pairs' = Pairs
<1>1. ~Growing /\ ~Placing /\ ~Growing' /\ ~Placing' /\ UNCHANGED entries
  BY DEF Probe, Begin, Growing, Placing, table
<1>2. Live' = Live
  BY SameTable DEF Probe, Begin, Live
<1>3. QED
  BY <1>1, <1>2, Settled, SettledNext DEF InSlots

LEMMA FindOnMaps == ASSUME FindOn PROVE Pairs' = Pairs
<1>1. Live' = Live /\ Waiting' = Waiting /\ ~Placing /\ ~Placing'
  BY SameTable DEF FindOn, Live, Waiting, Placing, growth
<1>2. QED
  BY <1>1, Looking DEF FindOn, table, growth

LEMMA PlaceOnMaps == ASSUME PlaceOn PROVE Pairs' = Pairs
<1>1. Live' = Live /\ Waiting' = Waiting /\ Placing' = Placing
  BY SameTable DEF PlaceOn, Live, Waiting, Placing, growth
<1>2. QED
  BY <1>1, Looking DEF PlaceOn, table, growth

LEMMA WalkMaps == ASSUME Walk PROVE Pairs' = Pairs
<1>1. UNCHANGED <<table, pc, locals, growth>>
  BY DEF Walk, BeginWalk, Visit, EndWalk
<1>2. Live' = Live /\ Waiting' = Waiting /\ Placing' = Placing
  BY <1>1, SameTable DEF Live, Waiting, Placing, growth, locals
<1>3. QED
  BY <1>1, <1>2, Looking DEF table, growth, locals

(* Growing: every pair of the former array waits to be moved.              *)
LEMMA GrowMaps ==
  ASSUME IInv, IInv', NEW k, NEW v, Grow(k, v)
  PROVE  Pairs' = Pairs
<1> USE DEF Grow, Begin
<1>1. ~Growing /\ ~Placing /\ ~Placing' /\ Live = UsedSlots
  BY DEF Growing, Placing, Live
<1>2. UsedSlots' = {}
  BY DEF UsedSlots, Used, Blanks, Blank
<1>3. Live' = {}
  BY <1>2 DEF Live
<1>4. Waiting' = UsedSlots /\ old' = entries
  <2>1. \A i \in 0..(cap - 1) : i >= 0
    BY Types DEF IInv
  <2>2. QED
    BY <2>1, Types DEF IInv, Waiting, UsedSlots, Used
<1>5. Pairs' = {<<old'[j].key, old'[j].val>> : j \in Waiting'}
  BY <1>1, <1>3 DEF Pairs
<1>6. Pairs = {<<entries[i].key, entries[i].val>> : i \in UsedSlots}
  BY <1>1, Settled DEF IInv, InSlots
<1>7. QED
  BY <1>4, <1>5, <1>6

LEMMA RehashMaps == ASSUME IInv, IInv', Rehash PROVE Pairs' = Pairs
<1> USE DEF IInv, Rehash
<1>1. PICK n \in Nat : old \in [0..(n - 1) -> Entry] /\ moved \in 0..n
  BY DEF Former, Growing
<1>2. UNCHANGED <<entries, old>> /\ moved' = moved + 1 /\ moved \in DOMAIN old
      /\ DOMAIN old = 0..(n - 1)
  BY <1>1 DEF table
<1>3. Live' = Live /\ ~Placing
  BY SameTable DEF Live, Placing
<1>4. CASE old[moved].hash # 0
  <2>1. Placing' /\ carried' = old[moved]
    BY <1>4 DEF Placing
  <2>2. \A j \in 0..(n - 1) : j >= moved <=> j >= moved + 1 \/ j = moved
    BY <1>1, <1>2
  <2>3. Waiting = Waiting' \cup {moved}
    BY <1>2, <1>4, <2>2 DEF Waiting
  <2>4. QED
    BY <1>2, <1>3, <2>1, <2>3 DEF Pairs
<1>5. CASE old[moved].hash = 0
  <2>1. ~Placing'
    BY <1>5 DEF Placing
  <2>2. \A j \in 0..(n - 1) : j >= moved <=> j >= moved + 1 \/ j = moved
    BY <1>1, <1>2
  <2>3. Waiting = Waiting'
    BY <1>2, <1>5, <2>2 DEF Waiting
  <2>4. QED
    BY <1>2, <1>3, <2>1, <2>3 DEF Pairs
<1>6. QED
  BY <1>4, <1>5

LEMMA EndGrowMaps == ASSUME IInv, IInv', EndGrow PROVE Pairs' = Pairs
<1> USE DEF EndGrow
<1>1. PICK n \in Nat : DOMAIN old = 0..(n - 1) /\ moved \in 0..n
  BY DEF IInv, Former, Growing
<1>2. Waiting = {}
  BY <1>1 DEF Waiting
<1>3. Live' = Live /\ UNCHANGED entries /\ ~Placing /\ ~Placing' /\ ~Growing'
  BY SameTable DEF Live, Placing, Growing, table
<1>4. Pairs = InSlots
  BY <1>2, <1>3 DEF Pairs, InSlots
<1>5. QED
  BY <1>3, <1>4, SettledNext DEF InSlots

(* Inserting: the pair carried comes to lie in the slot.                   *)
LEMMA StoreMaps == ASSUME IInv, IInv', Store PROVE Pairs' = Pairs
<1> USE DEF Store
<1>1. /\ UsedSlots' = UsedSlots \cup {idx}
      /\ \A i \in 0..(cap - 1) \ {idx} : entries'[i] = entries[i]
      /\ entries'[idx].key = carried.key /\ entries'[idx].val = carried.val
  BY PutDown
<1>2. idx \notin UsedSlots /\ UsedSlots \subseteq 0..(cap - 1)
  BY Types DEF IInv, UsedSlots
<1>3. Placing /\ ~Placing' /\ UNCHANGED <<old, moved>> /\ pc # "shift" /\ pc' # "shift"
  BY DEF Placing, Return, growth
<1>4. Live = UsedSlots /\ Live' = UsedSlots \cup {idx} /\ Waiting' = Waiting
  BY <1>1, <1>3 DEF Live, Waiting
<1>5. {<<entries'[i].key, entries'[i].val>> : i \in Live'}
        = {<<entries[i].key, entries[i].val>> : i \in Live}
          \cup {<<carried.key, carried.val>>}
  BY <1>1, <1>2, <1>4
<1>6. QED
  BY <1>3, <1>4, <1>5 DEF Pairs

LEMMA DisplaceMaps == ASSUME IInv, IInv', Displace PROVE Pairs' = Pairs
<1> USE DEF Displace
<1>1. /\ UsedSlots' = UsedSlots \cup {idx}
      /\ \A i \in 0..(cap - 1) \ {idx} : entries'[i] = entries[i]
      /\ entries'[idx].key = carried.key /\ entries'[idx].val = carried.val
  BY PutDown
<1>2. idx \in UsedSlots /\ UsedSlots \subseteq 0..(cap - 1)
  BY Types DEF IInv, UsedSlots
<1>3. /\ Placing /\ Placing' /\ UNCHANGED <<old, moved>> /\ pc # "shift" /\ pc' # "shift"
      /\ carried' = entries[idx]
  BY DEF Placing, growth
<1>4. Live = UsedSlots /\ Live' = UsedSlots /\ Waiting' = Waiting
  BY <1>1, <1>2, <1>3 DEF Live, Waiting
<1>5. {<<entries'[i].key, entries'[i].val>> : i \in Live'} \cup {<<carried'.key, carried'.val>>}
        = {<<entries[i].key, entries[i].val>> : i \in Live} \cup {<<carried.key, carried.val>>}
  BY <1>1, <1>2, <1>3, <1>4
<1>6. QED
  BY <1>3, <1>4, <1>5 DEF Pairs

(* Removing: the hole travels, and what it passes moves back.              *)
LEMMA ShiftMaps == ASSUME IInv, IInv', Shift PROVE Pairs' = Pairs
<1> USE DEF IInv, Shift
<1> DEFINE n == After(idx)
<1>1. /\ idx \in 0..(cap - 1) /\ idx \in UsedSlots
      /\ n \in 0..(cap - 1) /\ n # idx /\ n \in UsedSlots /\ entries[n] \in Entry
      /\ entries \in [0..(cap - 1) -> Entry] /\ UsedSlots \subseteq 0..(cap - 1)
  BY Types, PastHole DEF Follows, Probing, Hole, TypeOK, TableOK
<1> HIDE DEF n
<1>2. /\ \A i \in 0..(cap - 1) \ {idx} : entries'[i] = entries[i]
      /\ entries'[idx].key = entries[n].key
      /\ entries'[idx].val = entries[n].val
      /\ entries'[idx].hash = entries[n].hash
  BY <1>1 DEF Entry, n
<1>3. UsedSlots' = UsedSlots
  BY <1>1, <1>2 DEF UsedSlots, Used
<1>4. /\ Live = UsedSlots \ {idx} /\ Live' = UsedSlots \ {n}
      /\ ~Growing /\ ~Placing /\ ~Growing' /\ ~Placing'
  BY <1>1, <1>3 DEF Live, Growing, Placing, n
<1>5. {<<entries'[i].key, entries'[i].val>> : i \in UsedSlots \ {n}}
        = {<<entries[i].key, entries[i].val>> : i \in UsedSlots \ {idx}}
  <2>1. ASSUME NEW i \in UsedSlots \ {n}
        PROVE  \E j \in UsedSlots \ {idx} :
                 <<entries'[i].key, entries'[i].val>> = <<entries[j].key, entries[j].val>>
    BY <1>1, <1>2
  <2>2. ASSUME NEW j \in UsedSlots \ {idx}
        PROVE  \E i \in UsedSlots \ {n} :
                 <<entries'[i].key, entries'[i].val>> = <<entries[j].key, entries[j].val>>
    BY <1>1, <1>2
  <2>3. QED
    BY <2>1, <2>2
<1>6. QED
  BY <1>4, <1>5, Settled, SettledNext DEF InSlots

LEMMA ClearMaps == ASSUME IInv, IInv', Clear PROVE Pairs' = Pairs
<1> USE DEF IInv, Clear, Return
<1>1. /\ idx \in 0..(cap - 1) /\ entries \in [0..(cap - 1) -> Entry]
      /\ UsedSlots \subseteq 0..(cap - 1)
  BY Types DEF TypeOK, TableOK
<1>2. /\ \A i \in 0..(cap - 1) \ {idx} : entries'[i] = entries[i]
      /\ entries'[idx].hash = 0
  BY <1>1 DEF Blank
<1>3. UsedSlots' = UsedSlots \ {idx}
  BY <1>1, <1>2 DEF UsedSlots, Used
<1>4. /\ Live = UsedSlots \ {idx} /\ Live' = UsedSlots \ {idx}
      /\ ~Growing /\ ~Placing /\ ~Growing' /\ ~Placing'
  BY <1>3 DEF Live, Growing, Placing
<1>5. {<<entries'[i].key, entries'[i].val>> : i \in UsedSlots \ {idx}}
        = {<<entries[i].key, entries[i].val>> : i \in UsedSlots \ {idx}}
  BY <1>1, <1>2
<1>6. QED
  BY <1>4, <1>5, Settled, SettledNext DEF InSlots

LEMMA StutterMaps == ASSUME UNCHANGED vars PROVE Pairs' = Pairs
<1>1. Live' = Live /\ Waiting' = Waiting /\ Placing' = Placing
  BY DEF vars, table, locals, growth, Live, Waiting, UsedSlots, Used, Placing
<1>2. QED
  BY <1>1, Looking DEF vars, table, locals, growth

(* Each step of the table is a step of the map or none.                    *)
LEMMA StepMaps ==
  ASSUME IInv, IInv', [Next]_vars
  PROVE  [Contract!Next]_<<Pairs, last>>
<1>1. ASSUME NEW k \in Keys, Get(k) \/ Remove(k)
      PROVE  UNCHANGED <<Pairs, last>>
  BY <1>1, ProbeMaps DEF Get, Remove, Probe
<1>2. ASSUME NEW k \in Keys, NEW v \in Vals, Put(k, v)
      PROVE  UNCHANGED <<Pairs, last>>
  BY <1>2, ProbeMaps, GrowMaps DEF Put, Probe, Grow
<1>3. CASE GetHit \/ PutHit \/ RemoveHit \/ Miss \/ PutMiss
  BY <1>3, GetHitMaps, PutHitMaps, RemoveHitMaps, MissMaps, PutMissMaps
<1>4. CASE FindOn \/ Store \/ Displace \/ PlaceOn \/ Rehash \/ EndGrow \/ Shift \/ Clear
  <2>1. UNCHANGED last
    BY <1>4 DEF FindOn, Store, Displace, PlaceOn, Rehash, EndGrow, Shift, Clear
  <2>2. Pairs' = Pairs
    BY <1>4, FindOnMaps, StoreMaps, DisplaceMaps, PlaceOnMaps, RehashMaps,
       EndGrowMaps, ShiftMaps, ClearMaps
  <2>3. QED
    BY <2>1, <2>2
<1>5. CASE Walk
  BY <1>5, WalkMaps DEF Walk, BeginWalk, Visit, EndWalk
<1>6. CASE UNCHANGED vars
  BY <1>6, StutterMaps DEF vars
<1>7. QED
  BY <1>1, <1>2, <1>3, <1>4, <1>5, <1>6 DEF Next, Calls, Step

(* The table implements the map: get, put and remove return what a finite  *)
(* map would, whatever collides, is displaced, shifted back or moved to a  *)
(* larger array in between.                                                *)
THEOREM ImplementsMap == Spec => IsMap
<1>1. IInv /\ IInv' /\ [Next]_vars => [Contract!Next]_<<Pairs, last>>
  BY StepMaps
<1>2. QED
  BY <1>1, MapInitially, Invariance, PTL DEF Spec, IsMap, Contract!Spec
=============================================================================
