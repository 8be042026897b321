------------------------------ MODULE Classes ------------------------------
(***************************************************************************)
(* The class table: defclass, and the class precedence list of a new class *)
(* computed by the C3 merge, one turn of its loop per step.                *)
(*                                                                         *)
(* A class object is its position in classes.  A name is bound to the last *)
(* class defined under it; earlier ones stay in use by the classes,        *)
(* methods and instances that hold them.                                   *)
(***************************************************************************)
EXTENDS Naturals, Sequences, FiniteSets, SequencesExt

CONSTANTS Names,         \* names a program gives to classes
          SlotLists,     \* lists of direct slots a definition may have
          SuperLists,    \* lists of names a definition may have as superclasses
          MaxClasses     \* bound: class objects, the built-in ones included

VARIABLES classes,       \* finalized class objects, in order of definition
          value,         \* the class a name is bound to, 0 for none
          merge          \* the activation of c3_linearize

T              == 1
StandardObject == 2
BuiltInNames   == {"T", "STANDARD-OBJECT"}

ASSUME NamesAssumption == Names \cap BuiltInNames = {}
ASSUME SupersAssumption == SuperLists \subseteq Seq(Names \cup BuiltInNames)
ASSUME SlotsAssumption == \A slots \in SlotLists : slots \in Seq(STRING)
ASSUME ClassesAssumption == MaxClasses \in Nat

classVars == <<classes, value, merge>>

Ids == 1..Len(classes)

Idle == [busy |-> FALSE, name |-> "T", slots |-> <<>>, supers |-> <<>>, seqs |-> <<>>,
         result |-> <<>>]

(* The lists with something left.  An emptied list stays, for nothing.     *)
Left(seqs) == {i \in DOMAIN seqs : seqs[i] # <<>>}

(* Slip: the whole lists are searched, heads included.                     *)
WholeLists(seqs) == UNION {ToSet(seqs[i]) : i \in Left(seqs)}

Tails(seqs) == UNION {ToSet(Tail(seqs[i])) : i \in Left(seqs)}

(* The lists whose head is in no tail; the first of them is taken.         *)
Free(seqs) == {i \in Left(seqs) : Head(seqs[i]) \notin Tails(seqs)}

First(S) == CHOOSE i \in S : \A j \in S : i <= j

(* Slip: only the list the class was taken from is advanced.               *)
RemoveUsed(seqs, c) == [seqs EXCEPT ![First(Free(seqs))] = Tail(@)]

RemoveHead(seqs, c) ==
  [i \in DOMAIN seqs |->
     IF i \in Left(seqs) /\ Head(seqs[i]) = c THEN Tail(seqs[i]) ELSE seqs[i]]

Precedence(supers) == [i \in DOMAIN supers |-> classes[supers[i]].cpl]

Resolved(names) == [i \in DOMAIN names |-> value[names[i]]]

Supers(names) == IF names = <<>> THEN <<StandardObject>> ELSE Resolved(names)

AddSlot(slots, s) == IF s \in ToSet(slots) THEN slots ELSE Append(slots, s)

(* After so many of the further ones.                                      *)
SlotsAdded(slots, more) ==
  LET added[i \in 0..Len(more)] == IF i = 0 THEN slots ELSE AddSlot(added[i - 1], more[i])
  IN  added

AddSlots(slots, more) == SlotsAdded(slots, more)[Len(more)]

(* After so many of the classes of the list that follow its first.         *)
Collected(direct, cpl) ==
  LET e[i \in 0..Len(cpl)-1] == IF i = 0 THEN AddSlots(<<>>, direct)
                                ELSE AddSlots(e[i - 1], classes[cpl[i + 1]].slots)
  IN  e

(* Every slot of every class of the list once, the nearest class's first.  *)
Effective(direct, cpl) == Collected(direct, cpl)[Len(cpl) - 1]

-----------------------------------------------------------------------------
ClassInit ==
  /\ classes = <<[supers |-> <<>>, slots |-> <<>>, cpl |-> <<T>>, effective |-> <<>>],
                 [supers |-> <<T>>, slots |-> <<>>, cpl |-> <<StandardObject, T>>,
                  effective |-> <<>>]>>
  /\ value = [n \in Names \cup BuiltInNames |->
                CASE n = "T" -> T [] n = "STANDARD-OBJECT" -> StandardObject [] OTHER -> 0]
  /\ merge = Idle

Bound(names) == \A i \in DOMAIN names : value[names[i]] # 0

(* %defclass up to the merge loop.  The merge starts with the superclasses' *)
(* lists and, last, the list of the direct superclasses itself.            *)
StartClass(n, names, slots) ==
  /\ ~merge.busy /\ Len(classes) < MaxClasses
  /\ Bound(names)
  /\ merge' = [busy |-> TRUE, name |-> n, slots |-> slots, supers |-> Supers(names),
               seqs |-> Append(Precedence(Supers(names)), Supers(names)), result |-> <<>>]
  /\ UNCHANGED <<classes, value>>

Candidate == Head(merge.seqs[First(Free(merge.seqs))])

MergeTurn ==
  /\ merge.busy /\ Free(merge.seqs) # {}
  /\ merge' = [merge EXCEPT !.seqs = RemoveHead(@, Candidate), !.result = Append(@, Candidate)]
  /\ UNCHANGED <<classes, value>>

Stuck == merge.busy /\ Left(merge.seqs) # {} /\ Free(merge.seqs) = {}

(* No candidate: the definition is given up with an error.                 *)
Refuse == Stuck /\ merge' = Idle /\ UNCHANGED <<classes, value>>

Defined(cpl) ==
  [supers |-> merge.supers, slots |-> merge.slots, cpl |-> cpl,
   effective |-> Effective(merge.slots, cpl)]

(* The class is finalized and bound to its name.                           *)
Finalize ==
  /\ merge.busy /\ Left(merge.seqs) = {}
  /\ classes' = Append(classes, Defined(<<Len(classes) + 1>> \o merge.result))
  /\ value' = [value EXCEPT ![merge.name] = Len(classes) + 1]
  /\ merge' = Idle

-----------------------------------------------------------------------------
(* What a precedence list must satisfy, without reference to the merge.    *)

(* x must come before y among the ancestors by superclasses: a list of one *)
(* of them has x before y.                                                 *)
Before(supers, x, y) ==
  \E l \in ToSet(Precedence(supers)) \cup {supers} :
    \E i, j \in DOMAIN l : i < j /\ l[i] = x /\ l[j] = y

Ancestors(supers) == UNION {ToSet(l) : l \in ToSet(Precedence(supers))}

(* No order of the ancestors has every pair the right way round: in some   *)
(* set of them each one must come after another.                           *)
Cyclic(supers) ==
  \E S \in SUBSET Ancestors(supers) : S # {} /\ \A y \in S : \E x \in S : Before(supers, x, y)

Orders(l, supers) ==
  /\ IsInjective(l)
  /\ ToSet(l) = Ancestors(supers)
  /\ \A i, j \in DOMAIN l : Before(supers, l[i], l[j]) => i < j

ClassTypeOK ==
  /\ classes \in Seq([supers : Seq(Ids), slots : Seq(STRING), cpl : Seq(Ids),
                      effective : Seq(STRING)])
  /\ value \in [Names \cup BuiltInNames -> 0..Len(classes)]
  /\ merge \in [busy : BOOLEAN, name : Names \cup BuiltInNames, slots : Seq(STRING),
                supers : Seq(Ids), seqs : Seq(Seq(Ids)), result : Seq(Ids)]

Ordered(c) == classes[c].cpl[1] = c /\ Orders(Tail(classes[c].cpl), classes[c].supers)

(* Every class precedence list starts with the class and then has each     *)
(* ancestor once, in an order that no superclass's list and no list of     *)
(* direct superclasses contradicts (c3_linearize), and the slots are laid  *)
(* out once each, none of an ancestor missing (compute_effective_slots).   *)
Linearized ==
  \A c \in Ids :
    /\ Ordered(c)
    /\ IsInjective(classes[c].effective)
    /\ ToSet(classes[c].effective) = UNION {ToSet(classes[a].slots) : a \in ToSet(classes[c].cpl)}

(* A definition is refused (the error of c3_linearize) only if no order of *)
(* its ancestors would do.                                                 *)
RefusesOnlyCycles == Stuck => Cyclic(merge.supers)

=============================================================================
