---------------------------- MODULE ClassesProofs ----------------------------
(***************************************************************************)
(* The C3 merge gives an order that respects every list it starts from, or *)
(* stops at a cycle, for any class hierarchy.                              *)
(***************************************************************************)
EXTENDS Generics, Induction

IsSeq(s) == \E S : s \in Seq(S)

(* What a merge of the lists o has come to: seqs is left of them.          *)

Gone(l, rest) == Len(l) - Len(rest)

IsRest(rest, l) ==
  Len(rest) <= Len(l) /\ \A j \in 1..Len(rest) : rest[j] = l[Gone(l, rest) + j]

Precedes(o, x, y) ==
  \E i \in DOMAIN o : \E j, k \in DOMAIN o[i] : j < k /\ o[i][j] = x /\ o[i][k] = y

Holds(o, x) == \E i \in DOMAIN o : \E j \in DOMAIN o[i] : o[i][j] = x

Rests(o, seqs) == \A i \in DOMAIN o : IsRest(seqs[i], o[i])

(* What is gone from a list is in the result, and what is left is not.     *)
GoneTaken(o, seqs, result) ==
  \A i \in DOMAIN o : \A j \in 1..Gone(o[i], seqs[i]) : o[i][j] \in ToSet(result)

LeftNotTaken(o, seqs, result) ==
  \A i \in DOMAIN o : \A j \in DOMAIN seqs[i] : seqs[i][j] \notin ToSet(result)

(* The result has each class after the ones that precede it.               *)
Respects(o, result) ==
  \A k \in DOMAIN result : \A x : Precedes(o, x, result[k]) => \E j \in 1..k-1 : result[j] = x

AllHeld(o, result) == \A k \in DOMAIN result : Holds(o, result[k])

Progress(o, seqs, result) ==
  /\ Rests(o, seqs) /\ GoneTaken(o, seqs, result) /\ LeftNotTaken(o, seqs, result)
  /\ Respects(o, result) /\ IsInjective(result) /\ AllHeld(o, result)

-----------------------------------------------------------------------------
(* Sequences of whatever.                                                  *)

LEMMA Shape ==
  ASSUME NEW s, IsSeq(s)
  PROVE  Len(s) \in Nat /\ DOMAIN s = 1..Len(s) /\ (s = <<>> <=> Len(s) = 0)
BY DEF IsSeq

LEMMA Appended ==
  ASSUME NEW s, NEW e, IsSeq(s)
  PROVE  /\ IsSeq(Append(s, e))
         /\ Len(Append(s, e)) = Len(s) + 1
         /\ \A i \in 1..Len(s) : Append(s, e)[i] = s[i]
         /\ Append(s, e)[Len(s) + 1] = e
<1>1. PICK S : s \in Seq(S)
  BY DEF IsSeq
<1>2. s \in Seq(S \cup {e})
  BY <1>1
<1>3. QED
  BY <1>2 DEF IsSeq

LEMMA Prefixed ==
  ASSUME NEW s, IsSeq(s), NEW n \in 0..Len(s)
  PROVE  /\ IsSeq(SubSeq(s, 1, n))
         /\ Len(SubSeq(s, 1, n)) = n
         /\ \A i \in 1..n : SubSeq(s, 1, n)[i] = s[i]
<1>1. PICK S : s \in Seq(S)
  BY DEF IsSeq
<1>2. QED
  BY <1>1 DEF IsSeq

LEMMA FunctionIsSeq ==
  ASSUME NEW Q, NEW n \in Nat, NEW s \in [1..n -> Q]
  PROVE  s \in Seq(Q)
OBVIOUS

LEMMA TailOf ==
  ASSUME NEW S, NEW s \in Seq(S), s # <<>>
  PROVE  /\ Tail(s) \in Seq(S) /\ Len(Tail(s)) = Len(s) - 1 /\ Len(s) \in Nat \ {0}
         /\ DOMAIN Tail(s) = 1..Len(s)-1 /\ DOMAIN s = 1..Len(s)
         /\ \A j \in 1..Len(s)-1 : Tail(s)[j] = s[j + 1]
         /\ Head(s) = s[1]
OBVIOUS

LEMMA Positive ==
  ASSUME NEW S, NEW s \in Seq(S), NEW j \in DOMAIN s
  PROVE  j \in Nat \ {0}
OBVIOUS

LEMMA TailAt ==
  ASSUME NEW S, NEW s \in Seq(S), s # <<>>, NEW j \in DOMAIN Tail(s)
  PROVE  j + 1 \in 1..Len(s) /\ s[j + 1] = Tail(s)[j] /\ j \in Nat \ {0}
<1>1. /\ DOMAIN Tail(s) = 1..Len(s)-1 /\ Len(s) \in Nat \ {0}
      /\ \A k \in 1..Len(s)-1 : Tail(s)[k] = s[k + 1]
  BY TailOf
<1>2. QED
  BY <1>1

LEMMA Previous ==
  ASSUME NEW n \in Nat, NEW m \in 1..n, m # 1
  PROVE  m - 1 \in 1..n-1 /\ (m - 1) + 1 = m
OBVIOUS

LEMMA SetOfAppended ==
  ASSUME NEW S, NEW s \in Seq(S), NEW c \in S
  PROVE  /\ Append(s, c) \in Seq(S) /\ Len(s) \in Nat /\ DOMAIN s = 1..Len(s)
         /\ Len(Append(s, c)) = Len(s) + 1 /\ DOMAIN Append(s, c) = 1..Len(s)+1
         /\ \A k \in 1..Len(s) : Append(s, c)[k] = s[k]
         /\ Append(s, c)[Len(s) + 1] = c
         /\ \A x : x \in ToSet(Append(s, c)) <=> x \in ToSet(s) \/ x = c
<1>1. /\ Append(s, c) \in Seq(S) /\ Len(s) \in Nat /\ DOMAIN s = 1..Len(s)
      /\ Len(Append(s, c)) = Len(s) + 1 /\ DOMAIN Append(s, c) = 1..Len(s)+1
      /\ \A k \in 1..Len(s) : Append(s, c)[k] = s[k]
      /\ Append(s, c)[Len(s) + 1] = c
  OBVIOUS
<1> DEFINE t == Append(s, c)
<1> HIDE DEF t
<1>2. \A k \in 1..Len(s)+1 : k \in 1..Len(s) \/ k = Len(s) + 1
  BY <1>1
<1>3. ASSUME NEW x \in ToSet(t) PROVE x \in ToSet(s) \/ x = c
  BY <1>1, <1>2, <1>3 DEF ToSet, t
<1>4. c \in ToSet(t)
  BY <1>1 DEF ToSet, t
<1>5. ASSUME NEW x \in ToSet(s) PROVE x \in ToSet(t)
  BY <1>1, <1>5 DEF ToSet, t
<1>6. QED
  BY <1>1, <1>3, <1>4, <1>5 DEF t

LEMMA RestFacts ==
  ASSUME NEW S, NEW l \in Seq(S), NEW rest \in Seq(S), IsRest(rest, l)
  PROVE  /\ Len(l) \in Nat /\ Len(rest) \in Nat /\ Gone(l, rest) \in Nat
         /\ Gone(l, rest) = Len(l) - Len(rest)
         /\ DOMAIN l = 1..Len(l) /\ DOMAIN rest = 1..Len(rest)
         /\ \A j \in 1..Len(rest) : Gone(l, rest) + j \in 1..Len(l) /\ l[Gone(l, rest) + j] = rest[j]
         /\ \A b \in 1..Len(l) : b > Gone(l, rest) =>
              b - Gone(l, rest) \in 1..Len(rest) /\ rest[b - Gone(l, rest)] = l[b]
<1>1. Len(l) \in Nat /\ Len(rest) \in Nat /\ DOMAIN l = 1..Len(l) /\ DOMAIN rest = 1..Len(rest)
  OBVIOUS
<1>2. Gone(l, rest) \in Nat /\ Gone(l, rest) = Len(l) - Len(rest)
  BY <1>1 DEF IsRest, Gone
<1>3. \A j \in 1..Len(rest) : Gone(l, rest) + j \in 1..Len(l) /\ l[Gone(l, rest) + j] = rest[j]
  BY <1>1, <1>2 DEF IsRest
<1>4. ASSUME NEW b \in 1..Len(l), b > Gone(l, rest)
      PROVE  b - Gone(l, rest) \in 1..Len(rest) /\ rest[b - Gone(l, rest)] = l[b]
  <2>1. b - Gone(l, rest) \in 1..Len(rest) /\ Gone(l, rest) + (b - Gone(l, rest)) = b
    BY <1>1, <1>2, <1>4
  <2>2. QED
    BY <1>3, <2>1
<1>5. QED
  BY <1>1, <1>2, <1>3, <1>4

(* What is in the whole list is gone, or is in the rest.                   *)
LEMMA GoneOrLeft ==
  ASSUME NEW S, NEW l \in Seq(S), NEW rest \in Seq(S), IsRest(rest, l), NEW b \in DOMAIN l
  PROVE  /\ Gone(l, rest) \in Nat /\ b \in Nat \ {0}
         /\ \/ b \in 1..Gone(l, rest)
            \/ b - Gone(l, rest) \in DOMAIN rest /\ rest[b - Gone(l, rest)] = l[b]
<1>1. /\ Gone(l, rest) \in Nat /\ DOMAIN l = 1..Len(l) /\ DOMAIN rest = 1..Len(rest)
      /\ Len(l) \in Nat
  BY RestFacts
<1>2. b \in 1..Len(l) /\ (b > Gone(l, rest) \/ b \in 1..Gone(l, rest))
  BY <1>1
<1>3. b > Gone(l, rest) => b - Gone(l, rest) \in 1..Len(rest) /\ rest[b - Gone(l, rest)] = l[b]
  BY <1>2, RestFacts
<1>4. QED
  BY <1>1, <1>2, <1>3

LEMMA RestOfTail ==
  ASSUME NEW S, NEW l \in Seq(S), NEW rest \in Seq(S), IsRest(rest, l), rest # <<>>
  PROVE  /\ IsRest(Tail(rest), l)
         /\ Gone(l, Tail(rest)) = Gone(l, rest) + 1
         /\ l[Gone(l, rest) + 1] = Head(rest)
         /\ Gone(l, rest) + 1 \in DOMAIN l
<1> DEFINE t == Tail(rest)
<1>1. /\ Len(t) = Len(rest) - 1 /\ Len(rest) \in Nat \ {0} /\ Head(rest) = rest[1]
      /\ \A j \in 1..Len(rest)-1 : t[j] = rest[j + 1]
  BY TailOf
<1> HIDE DEF t
<1>2. /\ Len(l) \in Nat /\ Gone(l, rest) \in Nat /\ Gone(l, rest) = Len(l) - Len(rest)
      /\ DOMAIN l = 1..Len(l)
      /\ \A j \in 1..Len(rest) : Gone(l, rest) + j \in 1..Len(l) /\ l[Gone(l, rest) + j] = rest[j]
  BY RestFacts
<1>3. Gone(l, t) = Gone(l, rest) + 1
  BY <1>1, <1>2 DEF Gone
<1>4. ASSUME NEW j \in 1..Len(t) PROVE t[j] = l[Gone(l, t) + j]
  <2>1. j + 1 \in 1..Len(rest) /\ t[j] = rest[j + 1]
    BY <1>1
  <2>2. Gone(l, t) + j = Gone(l, rest) + (j + 1)
    BY <1>2, <1>3
  <2>3. QED
    BY <1>2, <2>1, <2>2
<1>5. IsRest(t, l)
  BY <1>1, <1>2, <1>4 DEF IsRest
<1>6. QED
  BY <1>1, <1>2, <1>3, <1>5 DEF t

LEMMA MergeStarts ==
  ASSUME NEW S, NEW o \in Seq(Seq(S))
  PROVE  Progress(o, o, <<>>)
<1>1. \A i \in DOMAIN o : o[i] \in Seq(S)
  OBVIOUS
<1>2. Rests(o, o)
  BY <1>1 DEF Rests, IsRest, Gone
<1>3. GoneTaken(o, o, <<>>) /\ LeftNotTaken(o, o, <<>>)
  BY <1>1 DEF GoneTaken, LeftNotTaken, Gone, ToSet
<1>4. Respects(o, <<>>) /\ IsInjective(<<>>) /\ AllHeld(o, <<>>)
  BY DEF Respects, IsInjective, AllHeld
<1>5. QED
  BY <1>2, <1>3, <1>4 DEF Progress

LEMMA MergeTurns ==
  ASSUME NEW S, NEW o \in Seq(Seq(S)), NEW seqs \in Seq(Seq(S)), NEW result \in Seq(S),
         DOMAIN seqs = DOMAIN o,
         Progress(o, seqs, result),
         NEW f \in Free(seqs), NEW c, c = Head(seqs[f])
  PROVE  /\ RemoveHead(seqs, c) \in Seq(Seq(S))
         /\ DOMAIN RemoveHead(seqs, c) = DOMAIN o
         /\ Append(result, c) \in Seq(S)
         /\ Progress(o, RemoveHead(seqs, c), Append(result, c))
<1> DEFINE t == RemoveHead(seqs, c)
           r == Append(result, c)
           Takes(i) == seqs[i] # <<>> /\ Head(seqs[i]) = c
<1>1. \A i \in DOMAIN o : o[i] \in Seq(S) /\ seqs[i] \in Seq(S)
  OBVIOUS
<1>2. /\ Rests(o, seqs) /\ GoneTaken(o, seqs, result) /\ LeftNotTaken(o, seqs, result)
      /\ Respects(o, result) /\ IsInjective(result) /\ AllHeld(o, result)
  BY DEF Progress
<1>3. f \in DOMAIN o /\ seqs[f] # <<>> /\ c \notin Tails(seqs)
  BY DEF Free, Left
<1>4. c = seqs[f][1] /\ 1 \in DOMAIN seqs[f] /\ c \in S
  BY <1>1, <1>3
<1>5. /\ r \in Seq(S) /\ Len(result) \in Nat /\ DOMAIN result = 1..Len(result)
      /\ Len(r) = Len(result) + 1 /\ DOMAIN r = 1..Len(result)+1
      /\ r[Len(result) + 1] = c /\ \A k \in 1..Len(result) : r[k] = result[k]
  BY <1>4, SetOfAppended
<1>6. \A x : x \in ToSet(r) <=> x \in ToSet(result) \/ x = c
  BY <1>4, SetOfAppended
<1>7. /\ DOMAIN t = DOMAIN o
      /\ \A i \in DOMAIN o : Takes(i) => t[i] = Tail(seqs[i])
      /\ \A i \in DOMAIN o : ~Takes(i) => t[i] = seqs[i]
  BY DEF RemoveHead, Left
<1>8. t \in Seq(Seq(S))
  <2>1. ASSUME NEW i \in DOMAIN o PROVE t[i] \in Seq(S)
    <3>1. CASE Takes(i)
      <4>1. seqs[i] \in Seq(S) /\ seqs[i] # <<>> /\ t[i] = Tail(seqs[i])
        BY <1>1, <1>7, <3>1
      <4>2. QED
        BY <4>1, TailOf
    <3>2. CASE ~Takes(i)
      BY <1>1, <1>7, <3>2
    <3>3. QED
      BY <3>1, <3>2
  <2>2. DOMAIN o = 1..Len(o) /\ Len(o) \in Nat
    OBVIOUS
  <2>3. t = [i \in 1..Len(o) |-> t[i]]
    BY <1>7, <2>2 DEF RemoveHead
  <2> HIDE DEF t
  <2>4. t \in [1..Len(o) -> Seq(S)]
    BY <2>1, <2>2, <2>3
  <2>5. QED
    BY <2>2, <2>4, FunctionIsSeq
<1> HIDE DEF t, r
(* The one taken is nowhere but at the heads.                              *)
<1>9. ASSUME NEW i \in DOMAIN o, NEW j \in DOMAIN seqs[i], seqs[i][j] = c
      PROVE  j = 1 /\ Takes(i)
  <2>1. seqs[i] \in Seq(S) /\ seqs[i] # <<>>
    BY <1>1, <1>9
  <2>2. /\ DOMAIN Tail(seqs[i]) = 1..Len(seqs[i])-1 /\ DOMAIN seqs[i] = 1..Len(seqs[i])
        /\ \A k \in 1..Len(seqs[i])-1 : Tail(seqs[i])[k] = seqs[i][k + 1]
        /\ Head(seqs[i]) = seqs[i][1] /\ Len(seqs[i]) \in Nat
    BY <2>1, TailOf
  <2>3. c \notin ToSet(Tail(seqs[i]))
    BY <1>3, <2>1 DEF Tails, Left
  <2>4. j = 1
    <3> SUFFICES ASSUME j # 1 PROVE FALSE
      OBVIOUS
    <3>1. j - 1 \in 1..Len(seqs[i])-1 /\ (j - 1) + 1 = j
      <4>1. j \in 1..Len(seqs[i])
        BY <1>9, <2>2
      <4>2. QED
        BY <2>2, <4>1, Previous
    <3>2. Tail(seqs[i])[j - 1] = c
      BY <1>9, <2>2, <3>1
    <3>3. QED
      BY <2>2, <2>3, <3>1, <3>2 DEF ToSet
  <2>5. QED
    BY <1>9, <2>1, <2>2, <2>4
<1>10. c \notin ToSet(result)
  BY <1>2, <1>3, <1>4 DEF LeftNotTaken
<1>11. \A i \in DOMAIN o : IsRest(seqs[i], o[i])
  BY <1>2 DEF Rests
<1>12. \A i \in DOMAIN o : Takes(i) =>
         /\ IsRest(t[i], o[i]) /\ Gone(o[i], t[i]) = Gone(o[i], seqs[i]) + 1
         /\ o[i][Gone(o[i], seqs[i]) + 1] = c /\ Gone(o[i], seqs[i]) + 1 \in DOMAIN o[i]
         /\ Gone(o[i], seqs[i]) \in Nat
  <2> SUFFICES ASSUME NEW i \in DOMAIN o, Takes(i)
               PROVE  /\ IsRest(t[i], o[i]) /\ Gone(o[i], t[i]) = Gone(o[i], seqs[i]) + 1
                      /\ o[i][Gone(o[i], seqs[i]) + 1] = c /\ Gone(o[i], seqs[i]) + 1 \in DOMAIN o[i]
                      /\ Gone(o[i], seqs[i]) \in Nat
    OBVIOUS
  <2>1. o[i] \in Seq(S) /\ seqs[i] \in Seq(S) /\ IsRest(seqs[i], o[i])
    BY <1>1, <1>11
  <2>2. Gone(o[i], seqs[i]) \in Nat
    BY <2>1, RestFacts
  <2>3. /\ IsRest(Tail(seqs[i]), o[i]) /\ Gone(o[i], Tail(seqs[i])) = Gone(o[i], seqs[i]) + 1
        /\ o[i][Gone(o[i], seqs[i]) + 1] = Head(seqs[i]) /\ Gone(o[i], seqs[i]) + 1 \in DOMAIN o[i]
    <3> SUFFICES ASSUME NEW l \in Seq(S), NEW rest \in Seq(S), IsRest(rest, l), rest # <<>>
                 PROVE  /\ IsRest(Tail(rest), l) /\ Gone(l, Tail(rest)) = Gone(l, rest) + 1
                        /\ l[Gone(l, rest) + 1] = Head(rest) /\ Gone(l, rest) + 1 \in DOMAIN l
      BY <2>1
    <3>1. QED
      BY RestOfTail
  <2>4. t[i] = Tail(seqs[i]) /\ Head(seqs[i]) = c
    BY <1>7
  <2>5. QED
    BY <2>2, <2>3, <2>4
<1>13. Rests(o, t)
  BY <1>7, <1>11, <1>12 DEF Rests
<1>14. GoneTaken(o, t, r)
  <2> SUFFICES ASSUME NEW i \in DOMAIN o, NEW j \in 1..Gone(o[i], t[i])
               PROVE  o[i][j] \in ToSet(r)
    BY DEF GoneTaken
  <2>1. \A k \in 1..Gone(o[i], seqs[i]) : o[i][k] \in ToSet(r)
    BY <1>2, <1>6 DEF GoneTaken
  <2>2. CASE Takes(i)
    <3>1. j \in 1..Gone(o[i], seqs[i]) \/ j = Gone(o[i], seqs[i]) + 1
      BY <1>12, <2>2
    <3>2. QED
      BY <1>6, <1>12, <2>1, <2>2, <3>1
  <2>3. CASE ~Takes(i)
    BY <1>7, <2>1, <2>3
  <2>4. QED
    BY <2>2, <2>3
<1>15. LeftNotTaken(o, t, r)
  <2> SUFFICES ASSUME NEW i \in DOMAIN o, NEW j \in DOMAIN t[i], t[i][j] \in ToSet(r)
               PROVE  FALSE
    BY DEF LeftNotTaken
  <2>1. \A k \in DOMAIN seqs[i] : seqs[i][k] \notin ToSet(result)
    BY <1>2 DEF LeftNotTaken
  <2>2. CASE Takes(i)
    <3>1. seqs[i] \in Seq(S) /\ seqs[i] # <<>> /\ t[i] = Tail(seqs[i])
      BY <1>1, <1>7, <2>2
    <3>2. j + 1 \in DOMAIN seqs[i] /\ j + 1 # 1 /\ t[i][j] = seqs[i][j + 1]
      BY <3>1, TailOf
    <3>3. QED
      BY <1>6, <1>9, <2>1, <3>2
  <2>3. CASE ~Takes(i)
    BY <1>6, <1>7, <1>9, <2>1, <2>3
  <2>4. QED
    BY <2>2, <2>3
<1>16. Respects(o, r)
  <2> SUFFICES ASSUME NEW k \in 1..Len(result)+1, NEW x, Precedes(o, x, r[k])
               PROVE  \E j \in 1..k-1 : r[j] = x
    BY <1>5 DEF Respects
  <2>1. CASE k \in 1..Len(result)
    <3>1. PICK j \in 1..k-1 : result[j] = x
      BY <1>2, <1>5, <2>1 DEF Respects
    <3>2. j \in 1..Len(result)
      BY <1>5, <2>1
    <3>3. QED
      BY <1>5, <3>1, <3>2
  <2>2. CASE k = Len(result) + 1
    <3>1. PICK i \in DOMAIN o : \E a, b \in DOMAIN o[i] : a < b /\ o[i][a] = x /\ o[i][b] = c
      BY <1>5, <2>2 DEF Precedes
    <3>2. PICK a \in DOMAIN o[i], b \in DOMAIN o[i] : a < b /\ o[i][a] = x /\ o[i][b] = c
      BY <3>1
    <3> SUFFICES ASSUME NEW g, g = Gone(o[i], seqs[i])
                 PROVE  \E j \in 1..k-1 : r[j] = x
      OBVIOUS
    <3>3. /\ g \in Nat /\ a \in Nat \ {0} /\ b \in Nat \ {0}
          /\ b \in 1..g \/ (b - g \in DOMAIN seqs[i] /\ seqs[i][b - g] = o[i][b])
      <4>1. o[i] \in Seq(S) /\ seqs[i] \in Seq(S) /\ IsRest(seqs[i], o[i])
        BY <1>1, <1>11
      <4>2. /\ g \in Nat /\ b \in Nat \ {0}
            /\ b \in 1..g \/ (b - g \in DOMAIN seqs[i] /\ seqs[i][b - g] = o[i][b])
        BY <4>1, GoneOrLeft, SMTT(40)
      <4>3. a \in Nat \ {0}
        BY <4>1, Positive
      <4>4. QED
        BY <4>2, <4>3
    <3>4. b \notin 1..g
      <4>1. \A j \in 1..g : o[i][j] \in ToSet(result)
        BY <1>2 DEF GoneTaken
      <4>2. QED
        BY <1>10, <3>2, <4>1
    <3>5. b - g = 1
      <4>1. b - g \in DOMAIN seqs[i] /\ seqs[i][b - g] = c
        BY <3>2, <3>3, <3>4
      <4>2. QED
        BY <1>9, <4>1
    <3>6. a \in 1..g
      BY <3>2, <3>3, <3>4, <3>5
    <3>7. x \in ToSet(result)
      BY <1>2, <3>2, <3>6 DEF GoneTaken
    <3>8. PICK j \in 1..Len(result) : result[j] = x
      BY <1>5, <3>7 DEF ToSet
    <3>9. QED
      BY <1>5, <2>2, <3>8
  <2>3. QED
    BY <1>5, <2>1, <2>2
<1>17. IsInjective(r)
  <2> SUFFICES ASSUME NEW j \in 1..Len(result)+1, NEW k \in 1..Len(result)+1, r[j] = r[k], j # k
               PROVE  FALSE
    BY <1>5 DEF IsInjective
  <2>1. \A m \in 1..Len(result) : r[m] # c
    BY <1>5, <1>10 DEF ToSet
  <2>2. j \in 1..Len(result) /\ k \in 1..Len(result)
    BY <1>5, <2>1
  <2>3. QED
    BY <1>2, <1>5, <2>2 DEF IsInjective
<1>18. AllHeld(o, r)
  <2>1. Takes(f)
    BY <1>3
  <2>2. Holds(o, c)
    BY <1>3, <1>12, <2>1 DEF Holds
  <2>3. \A k \in 1..Len(result)+1 : k \in 1..Len(result) \/ k = Len(result) + 1
    BY <1>5
  <2>4. QED
    BY <1>2, <1>5, <2>2, <2>3 DEF AllHeld
<1>19. Progress(o, t, r)
  BY <1>13, <1>14, <1>15, <1>16, <1>17, <1>18 DEF Progress
<1>20. QED
  BY <1>5, <1>7, <1>8, <1>19 DEF t, r

LEMMA MergeDone ==
  ASSUME NEW S, NEW o \in Seq(Seq(S)), NEW seqs \in Seq(Seq(S)), NEW result \in Seq(S),
         DOMAIN seqs = DOMAIN o,
         Progress(o, seqs, result), Left(seqs) = {}
  PROVE  /\ IsInjective(result)
         /\ \A x : x \in ToSet(result) <=> Holds(o, x)
         /\ \A j, k \in DOMAIN result : Precedes(o, result[j], result[k]) => j < k
<1>1. IsInjective(result)
  BY DEF Progress
<1>2. \A x : x \in ToSet(result) => Holds(o, x)
  BY DEF Progress, AllHeld, ToSet
<1>3. ASSUME NEW i \in DOMAIN o, NEW j \in DOMAIN o[i] PROVE o[i][j] \in ToSet(result)
  <2>1. seqs[i] = <<>> /\ o[i] \in Seq(S)
    BY <1>3 DEF Left
  <2>2. Gone(o[i], seqs[i]) = Len(o[i]) /\ j \in 1..Len(o[i])
    BY <1>3, <2>1 DEF Gone
  <2>3. QED
    BY <1>3, <2>2 DEF Progress, GoneTaken
<1>4. ASSUME NEW j \in DOMAIN result, NEW k \in DOMAIN result, Precedes(o, result[j], result[k])
      PROVE  j < k
  <2>1. PICK m \in 1..k-1 : result[m] = result[j]
    BY <1>4 DEF Progress, Respects
  <2>2. m \in DOMAIN result /\ m < k
    BY <1>4, <2>1
  <2>3. QED
    BY <1>1, <2>1, <2>2 DEF IsInjective
<1>5. QED
  BY <1>1, <1>2, <1>3, <1>4 DEF Holds

LEMMA MergeStuck ==
  ASSUME NEW S, NEW o \in Seq(Seq(S)), NEW seqs \in Seq(Seq(S)), NEW result \in Seq(S),
         DOMAIN seqs = DOMAIN o,
         Progress(o, seqs, result), Left(seqs) # {}, Free(seqs) = {}
  PROVE  \E X : /\ X # {} /\ \A y \in X : Holds(o, y)
                /\ \A y \in X : \E x \in X : Precedes(o, x, y)
<1> DEFINE X == {Head(seqs[i]) : i \in Left(seqs)}
<1>1. \A i \in DOMAIN o : o[i] \in Seq(S) /\ seqs[i] \in Seq(S) /\ IsRest(seqs[i], o[i])
  BY DEF Progress, Rests
<1>2. \A i \in Left(seqs) :
        /\ i \in DOMAIN o /\ seqs[i] # <<>>
        /\ o[i][Gone(o[i], seqs[i]) + 1] = Head(seqs[i]) /\ Gone(o[i], seqs[i]) + 1 \in DOMAIN o[i]
  BY <1>1, RestOfTail DEF Left
<1>3. X # {}
  OBVIOUS
<1>4. \A y \in X : Holds(o, y)
  BY <1>2 DEF Holds
<1>5. ASSUME NEW y \in X PROVE \E x \in X : Precedes(o, x, y)
  <2>1. y \in Tails(seqs)
    BY <1>5 DEF Free
  <2>2. PICK i \in Left(seqs) : y \in ToSet(Tail(seqs[i]))
    BY <2>1 DEF Tails
  <2>3. PICK j \in DOMAIN Tail(seqs[i]) : Tail(seqs[i])[j] = y
    BY <2>2 DEF ToSet
  <2>4. seqs[i] \in Seq(S) /\ seqs[i] # <<>> /\ o[i] \in Seq(S) /\ IsRest(seqs[i], o[i])
    BY <1>1, <1>2
  <2>5. j + 1 \in 1..Len(seqs[i]) /\ seqs[i][j + 1] = y /\ j \in Nat \ {0}
    BY <2>3, <2>4, TailAt
  <2> SUFFICES ASSUME NEW g, g = Gone(o[i], seqs[i])
               PROVE  \E x \in X : Precedes(o, x, y)
    OBVIOUS
  <2>6. g \in Nat /\ g + (j + 1) \in DOMAIN o[i] /\ o[i][g + (j + 1)] = y
    <3>1. Gone(o[i], seqs[i]) \in Nat /\ DOMAIN o[i] = 1..Len(o[i])
      BY <2>4, RestFacts
    <3>2. \A k \in 1..Len(seqs[i]) :
            Gone(o[i], seqs[i]) + k \in 1..Len(o[i]) /\ o[i][Gone(o[i], seqs[i]) + k] = seqs[i][k]
      <4> SUFFICES ASSUME NEW l \in Seq(S), NEW rest \in Seq(S), IsRest(rest, l)
                   PROVE  \A k \in 1..Len(rest) :
                            Gone(l, rest) + k \in 1..Len(l) /\ l[Gone(l, rest) + k] = rest[k]
        BY <2>4
      <4>1. QED
        BY RestFacts
    <3>3. QED
      BY <2>5, <3>1, <3>2
  <2>7. g + 1 < g + (j + 1)
    BY <2>5, <2>6
  <2>8. Precedes(o, Head(seqs[i]), y)
    BY <1>2, <2>6, <2>7 DEF Precedes
  <2>9. QED
    BY <2>8
<1>6. QED
  BY <1>3, <1>4, <1>5

-----------------------------------------------------------------------------
(* The class table and the activation of c3_linearize.                     *)

TableOK ==
  /\ IsSeq(classes) /\ Len(classes) >= 2
  /\ value \in [Names \cup BuiltInNames -> 0..Len(classes)]
  /\ \A c \in Ids :
       /\ classes[c].supers \in Seq(Ids)
       /\ classes[c].cpl \in Seq(Ids) /\ classes[c].cpl # <<>> /\ classes[c].cpl[1] = c

AllOrdered == \A c \in Ids : Ordered(c)

Lists(supers) == Append(Precedence(supers), supers)

MergeOK ==
  merge.busy =>
    /\ {"busy", "supers", "seqs", "result"} \subseteq DOMAIN merge
    /\ merge.supers \in Seq(Ids) /\ merge.seqs \in Seq(Seq(Ids)) /\ merge.result \in Seq(Ids)
    /\ DOMAIN merge.seqs = DOMAIN Lists(merge.supers)
    /\ Progress(Lists(merge.supers), merge.seqs, merge.result)

MInv == TableOK /\ AllOrdered /\ MergeOK

LEMMA ListsAre ==
  ASSUME TableOK, NEW supers \in Seq(Ids)
  PROVE  /\ Lists(supers) \in Seq(Seq(Ids))
         /\ DOMAIN Lists(supers) = 1..Len(supers)+1 /\ Len(supers) \in Nat
         /\ Precedence(supers) \in Seq(Seq(Ids)) /\ DOMAIN Precedence(supers) = 1..Len(supers)
         /\ \A i \in 1..Len(supers) : /\ supers[i] \in Ids
                                      /\ Precedence(supers)[i] = classes[supers[i]].cpl
                                      /\ Lists(supers)[i] = classes[supers[i]].cpl
         /\ Lists(supers)[Len(supers) + 1] = supers
<1> DEFINE n == Len(supers)
           p == Precedence(supers)
<1>1. n \in Nat /\ DOMAIN supers = 1..n /\ \A i \in 1..n : supers[i] \in Ids
  OBVIOUS
<1>2. \A i \in 1..n : p[i] = classes[supers[i]].cpl
  BY <1>1 DEF Precedence
<1>3. \A i \in 1..n : p[i] \in Seq(Ids)
  BY <1>1, <1>2 DEF TableOK
<1>4. p \in [1..n -> Seq(Ids)]
  BY <1>1, <1>3 DEF Precedence
<1> HIDE DEF p
<1> SUFFICES ASSUME NEW Q, Q = Seq(Ids)
             PROVE  /\ Append(p, supers) \in Seq(Q)
                    /\ DOMAIN Append(p, supers) = 1..n+1
                    /\ p \in Seq(Q) /\ DOMAIN p = 1..n
                    /\ \A i \in 1..n : Append(p, supers)[i] = p[i]
                    /\ Append(p, supers)[n + 1] = supers
  BY <1>1, <1>2 DEF Lists, p
<1>5. p \in [1..n -> Q] /\ supers \in Q
  BY <1>4
<1>6. p \in Seq(Q) /\ DOMAIN p = 1..n /\ Len(p) = n
  BY <1>1, <1>5
<1>7. QED
  BY <1>5, <1>6, SetOfAppended

LEMMA BeforeIsPrecedes ==
  ASSUME TableOK, NEW supers \in Seq(Ids), NEW x, NEW y
  PROVE  Before(supers, x, y) <=> Precedes(Lists(supers), x, y)
<1>1. \A l : l \in ToSet(Precedence(supers)) \cup {supers}
              <=> \E i \in DOMAIN Lists(supers) : Lists(supers)[i] = l
  <2> DEFINE n == Len(supers)
  <2>1. n \in Nat /\ \A i \in 1..n+1 : i \in 1..n \/ i = n + 1
    BY ListsAre
  <2>2. ToSet(Precedence(supers)) = {Precedence(supers)[i] : i \in 1..n}
    BY ListsAre DEF ToSet
  <2>3. DOMAIN Lists(supers) = 1..n+1 /\ Lists(supers)[n + 1] = supers
    BY ListsAre
  <2>4. \A i \in 1..n : Lists(supers)[i] = Precedence(supers)[i] /\ i \in 1..n+1
    BY ListsAre
  <2>5. QED
    BY <2>1, <2>2, <2>3, <2>4
<1>2. ASSUME Before(supers, x, y) PROVE Precedes(Lists(supers), x, y)
  <2>1. PICK l \in ToSet(Precedence(supers)) \cup {supers} :
               \E i, j \in DOMAIN l : i < j /\ l[i] = x /\ l[j] = y
    BY <1>2 DEF Before
  <2>2. PICK i \in DOMAIN Lists(supers) : Lists(supers)[i] = l
    BY <1>1
  <2>3. QED
    BY <2>1, <2>2 DEF Precedes
<1>3. ASSUME Precedes(Lists(supers), x, y) PROVE Before(supers, x, y)
  <2>1. PICK i \in DOMAIN Lists(supers) :
               \E j, k \in DOMAIN Lists(supers)[i] :
                 j < k /\ Lists(supers)[i][j] = x /\ Lists(supers)[i][k] = y
    BY <1>3 DEF Precedes
  <2>2. Lists(supers)[i] \in ToSet(Precedence(supers)) \cup {supers}
    BY <1>1
  <2>3. QED
    BY <2>1, <2>2 DEF Before
<1>4. QED
  BY <1>2, <1>3

(* The direct superclasses are in their own lists.                         *)
LEMMA AncestorsAreHeld ==
  ASSUME TableOK, NEW supers \in Seq(Ids), NEW x
  PROVE  x \in Ancestors(supers) <=> Holds(Lists(supers), x)
<1> DEFINE n == Len(supers)
<1>1. n \in Nat /\ \A i \in 1..n+1 : i \in 1..n \/ i = n + 1
  BY ListsAre
<1>2. x \in Ancestors(supers) <=> \E i \in 1..n : \E j \in DOMAIN Precedence(supers)[i] : Precedence(supers)[i][j] = x
  <2>1. ToSet(Precedence(supers)) = {Precedence(supers)[i] : i \in 1..n}
    BY ListsAre DEF ToSet
  <2>2. x \in Ancestors(supers) <=> \E i \in 1..n : x \in ToSet(Precedence(supers)[i])
    BY <2>1 DEF Ancestors
  <2>3. QED
    BY <2>2 DEF ToSet
<1>3. \A i \in 1..n : Lists(supers)[i] = Precedence(supers)[i] /\ i \in DOMAIN Lists(supers)
  <2>1. \A i \in 1..n : i \in 1..n+1
    BY <1>1
  <2>2. \A i \in 1..n : Lists(supers)[i] = Precedence(supers)[i]
    BY ListsAre
  <2>3. QED
    BY <2>1, <2>2, ListsAre
<1>4. DOMAIN Lists(supers) = 1..n+1 /\ Lists(supers)[n + 1] = supers
  BY ListsAre
<1>5. ASSUME NEW j \in DOMAIN supers, supers[j] = x
      PROVE  \E i \in 1..n : \E k \in DOMAIN Precedence(supers)[i] : Precedence(supers)[i][k] = x
  <2>1. j \in 1..n /\ x \in Ids /\ Precedence(supers)[j] = classes[x].cpl
    <3>1. j \in 1..n /\ supers[j] \in Ids
      BY <1>5
    <3>2. Precedence(supers)[j] = classes[supers[j]].cpl
      BY <3>1, ListsAre
    <3>3. QED
      BY <1>5, <3>1, <3>2
  <2>2. classes[x].cpl \in Seq(Ids) /\ classes[x].cpl # <<>> /\ classes[x].cpl[1] = x
    BY <2>1 DEF TableOK
  <2>3. 1 \in DOMAIN classes[x].cpl
    BY <2>2
  <2>4. QED
    BY <2>1, <2>2, <2>3
<1>6. QED
  BY <1>1, <1>2, <1>3, <1>4, <1>5 DEF Holds

LEMMA FirstIn ==
  ASSUME NEW n \in Nat, NEW X \in SUBSET (1..n), X # {}
  PROVE  First(X) \in X
<1>1. X \subseteq Nat
  OBVIOUS
<1>2. \E x \in X : \A y \in X : x <= y
  BY <1>1, Least
<1>3. QED
  BY <1>2 DEF First

LEMMA Wider ==
  ASSUME NEW n \in Nat, NEW s \in Seq(1..n)
  PROVE  s \in Seq(1..n+1)
<1>1. \A i \in 1..n : i \in 1..n+1
  OBVIOUS
<1>2. s \in [1..Len(s) -> 1..n+1] /\ Len(s) \in Nat
  BY <1>1
<1>3. QED
  BY <1>2, FunctionIsSeq

(* A finished merge has made an order.                                     *)
LEMMA DoneOrders ==
  ASSUME MInv, merge.busy, Left(merge.seqs) = {}
  PROVE  Orders(merge.result, merge.supers)
<1> SUFFICES ASSUME NEW o, o = Lists(merge.supers), NEW r, r = merge.result, NEW s, s = merge.supers
             PROVE  Orders(r, s)
  OBVIOUS
<1>1. /\ TableOK /\ s \in Seq(Ids) /\ merge.seqs \in Seq(Seq(Ids)) /\ r \in Seq(Ids)
      /\ DOMAIN merge.seqs = DOMAIN o /\ Progress(o, merge.seqs, r)
  BY DEF MInv, MergeOK
<1>2. o \in Seq(Seq(Ids))
  BY <1>1, ListsAre
<1>3. /\ IsInjective(r) /\ \A x : x \in ToSet(r) <=> Holds(o, x)
      /\ \A j, k \in DOMAIN r : Precedes(o, r[j], r[k]) => j < k
  BY <1>1, <1>2, MergeDone
<1>4. ToSet(r) = Ancestors(s)
  BY <1>1, <1>3, AncestorsAreHeld
<1>5. \A j, k \in DOMAIN r : Before(s, r[j], r[k]) => j < k
  BY <1>1, <1>3, BeforeIsPrecedes
<1>6. QED
  BY <1>3, <1>4, <1>5 DEF Orders

(* An order stays one when another class is defined.                       *)
LEMMA OrderStays ==
  ASSUME TableOK, \A c \in Ids : c \in Ids' /\ classes'[c] = classes[c],
         NEW supers \in Seq(Ids), NEW l, Orders(l, supers)
  PROVE  Orders(l, supers)'
<1>1. \A i \in DOMAIN supers : supers[i] \in Ids
  OBVIOUS
<1>2. Precedence(supers)' = Precedence(supers)
  BY <1>1 DEF Precedence
<1>3. QED
  BY <1>2 DEF Orders, Ancestors, Before

LEMMA TableStays ==
  ASSUME TableOK, AllOrdered, UNCHANGED <<classes, value>>
  PROVE  Ids' = Ids /\ TableOK' /\ AllOrdered'
<1>1. Ids' = Ids
  BY DEF Ids
<1>2. TableOK'
  BY <1>1 DEF TableOK
<1>3. ASSUME NEW c \in Ids PROVE Ordered(c)'
  <2> SUFFICES ASSUME NEW l, l = Tail(classes[c].cpl), NEW p, p = classes[c].supers
               PROVE  classes[c].cpl[1] = c /\ Orders(l, p)'
    BY DEF Ordered
  <2>1. classes[c].cpl[1] = c /\ Orders(l, p) /\ p \in Seq(Ids)
    BY DEF AllOrdered, Ordered, TableOK
  <2>2. QED
    BY <1>1, <2>1, OrderStays
<1>4. QED
  BY <1>1, <1>2, <1>3 DEF AllOrdered

LEMMA MergesInit == Init => MInv
<1> SUFFICES ASSUME Init PROVE MInv
  OBVIOUS
<1>1. /\ Len(classes) = 2 /\ Ids = 1..2
      /\ classes[1].supers = <<>> /\ classes[1].cpl = <<1>>
      /\ classes[2].supers = <<1>> /\ classes[2].cpl = <<2, 1>>
  BY DEF Init, ClassInit, T, StandardObject, Ids
<1>2. \A c \in Ids : c = 1 \/ c = 2
  BY <1>1
<1>3. <<>> \in Seq(Ids) /\ <<1>> \in Seq(Ids) /\ <<2, 1>> \in Seq(Ids)
  BY <1>1
<1>4. value \in [Names \cup BuiltInNames -> 0..Len(classes)]
  BY <1>1 DEF Init, ClassInit, T, StandardObject
<1>5. IsSeq(classes)
  <2>1. \A x, y : <<x, y>> \in Seq({x, y})
    OBVIOUS
  <2>2. \E x, y : classes = <<x, y>>
    BY DEF Init, ClassInit
  <2>3. PICK x, y : classes = <<x, y>>
    BY <2>2
  <2>4. classes \in Seq({x, y})
    BY <2>1, <2>3
  <2>5. QED
    BY <2>4 DEF IsSeq
<1>6. TableOK
  <2>1. /\ classes[1].cpl # <<>> /\ classes[1].cpl[1] = 1
        /\ classes[2].cpl # <<>> /\ classes[2].cpl[1] = 2
    BY <1>1
  <2>2. \A c \in Ids :
          /\ classes[c].supers \in Seq(Ids)
          /\ classes[c].cpl \in Seq(Ids) /\ classes[c].cpl # <<>> /\ classes[c].cpl[1] = c
    BY <1>1, <1>2, <1>3, <2>1
  <2>3. Len(classes) >= 2
    BY <1>1
  <2>4. QED
    BY <1>4, <1>5, <2>2, <2>3 DEF TableOK
<1>7. Orders(<<>>, <<>>)
  <2>1. Precedence(<<>>) = <<>>
    BY DEF Precedence
  <2>2. QED
    BY <2>1 DEF Orders, Ancestors, Before, IsInjective, ToSet
<1>8. Orders(<<1>>, <<1>>)
  <2>1. Precedence(<<1>>) = <<<<1>>>>
    BY <1>1 DEF Precedence
  <2>2. Ancestors(<<1>>) = {1}
    BY <2>1 DEF Ancestors, ToSet
  <2>3. ~Before(<<1>>, 1, 1)
    BY <2>1 DEF Before, ToSet
  <2>4. QED
    BY <2>2, <2>3 DEF Orders, IsInjective, ToSet
<1>9. Tail(<<1>>) = <<>> /\ Tail(<<2, 1>>) = <<1>>
  OBVIOUS
<1>10. AllOrdered
  <2>1. Ordered(1)
    BY <1>1, <1>7, <1>9 DEF Ordered
  <2>2. Ordered(2)
    BY <1>1, <1>8, <1>9 DEF Ordered
  <2>3. QED
    BY <1>2, <2>1, <2>2 DEF AllOrdered
<1>11. MergeOK
  BY DEF MergeOK, Init, ClassInit, Idle
<1>12. QED
  BY <1>6, <1>10, <1>11 DEF MInv

LEMMA ClassesStay ==
  ASSUME MInv, UNCHANGED classVars
  PROVE  MInv'
<1>1. TableOK /\ AllOrdered /\ classes' = classes /\ value' = value /\ merge' = merge
  BY DEF MInv, classVars
<1>2. Ids' = Ids /\ TableOK' /\ AllOrdered'
  BY <1>1, TableStays
<1>3. Lists(merge.supers)' = Lists(merge.supers)
  BY <1>1 DEF Lists, Precedence
<1> SUFFICES ASSUME NEW o, o = Lists(merge.supers)
             PROVE  MInv'
  OBVIOUS
<1>4. MergeOK'
  BY <1>1, <1>2, <1>3 DEF MInv, MergeOK
<1>5. QED
  BY <1>2, <1>4 DEF MInv

LEMMA StartStep ==
  ASSUME MInv, NEW n, NEW names \in SuperLists, NEW slots, StartClass(n, names, slots)
  PROVE  MInv'
<1> SUFFICES ASSUME NEW s, s = Supers(names)
             PROVE  MInv'
  OBVIOUS
<1>1. TableOK /\ AllOrdered /\ UNCHANGED <<classes, value>>
  BY DEF MInv, StartClass
<1>2. s \in Seq(Ids)
  <2>1. Len(classes) \in Nat /\ Len(classes) >= 2 /\ Ids = 1..Len(classes)
    BY <1>1, Shape DEF TableOK, Ids
  <2>2. CASE names = <<>>
    BY <2>1, <2>2 DEF Supers, StandardObject
  <2>3. CASE names # <<>>
    <3>1. names \in Seq(Names \cup BuiltInNames)
      BY SupersAssumption
    <3>2. \A i \in DOMAIN names : value[names[i]] \in Ids
      BY <1>1, <2>1, <3>1 DEF StartClass, Bound, TableOK
    <3>3. s = [i \in 1..Len(names) |-> value[names[i]]] /\ Len(names) \in Nat
      BY <2>3, <3>1 DEF Supers, Resolved
    <3>4. s \in [1..Len(names) -> Ids]
      BY <3>1, <3>2, <3>3
    <3>5. QED
      BY <3>3, <3>4, FunctionIsSeq
  <2>4. QED
    BY <2>2, <2>3
<1>3. /\ merge'.supers = s /\ merge'.seqs = Lists(s) /\ merge'.result = <<>>
      /\ {"busy", "supers", "seqs", "result"} \subseteq DOMAIN merge'
  BY DEF StartClass, Lists
<1>4. Lists(s) \in Seq(Seq(Ids)) /\ <<>> \in Seq(Ids)
  BY <1>1, <1>2, ListsAre
<1>5. Progress(Lists(s), Lists(s), <<>>)
  BY <1>4, MergeStarts
<1>6. Ids' = Ids /\ TableOK' /\ AllOrdered'
  BY <1>1, TableStays
<1> SUFFICES ASSUME NEW o, o = Lists(s), NEW m, m = merge'
             PROVE  MInv'
  OBVIOUS
<1>7. MergeOK'
  <2>1. Lists(merge.supers)' = o
    BY <1>1, <1>3 DEF Lists, Precedence
  <2>2. /\ m.supers \in Seq(Ids) /\ m.seqs \in Seq(Seq(Ids)) /\ m.result \in Seq(Ids)
        /\ DOMAIN m.seqs = DOMAIN o /\ Progress(o, m.seqs, m.result)
        /\ {"busy", "supers", "seqs", "result"} \subseteq DOMAIN m
    BY <1>2, <1>3, <1>4, <1>5
  <2>3. QED
    BY <1>6, <2>1, <2>2 DEF MergeOK
<1>8. QED
  BY <1>6, <1>7 DEF MInv

LEMMA TurnStep ==
  ASSUME MInv, MergeTurn
  PROVE  MInv'
<1> SUFFICES ASSUME NEW q, q = merge.seqs, NEW r, r = merge.result, NEW s, s = merge.supers,
                    NEW o, o = Lists(s), NEW c, c = Candidate, NEW m, m = merge'
             PROVE  MInv'
  OBVIOUS
<1>1. TableOK /\ AllOrdered /\ UNCHANGED <<classes, value>> /\ merge.busy /\ Free(q) # {}
  BY DEF MInv, MergeTurn
<1>2. /\ s \in Seq(Ids) /\ q \in Seq(Seq(Ids)) /\ r \in Seq(Ids) /\ DOMAIN q = DOMAIN o
      /\ Progress(o, q, r) /\ {"busy", "supers", "seqs", "result"} \subseteq DOMAIN merge
  BY <1>1 DEF MInv, MergeOK
<1>3. o \in Seq(Seq(Ids))
  BY <1>1, <1>2, ListsAre
<1>4. First(Free(q)) \in Free(q)
  <2>1. Free(q) \subseteq 1..Len(q) /\ Len(q) \in Nat
    BY <1>2 DEF Free, Left
  <2>2. QED
    BY <1>1, <2>1, FirstIn
<1>5. c = Head(q[First(Free(q))])
  BY DEF Candidate
<1>6. /\ RemoveHead(q, c) \in Seq(Seq(Ids)) /\ DOMAIN RemoveHead(q, c) = DOMAIN o
      /\ Append(r, c) \in Seq(Ids)
      /\ Progress(o, RemoveHead(q, c), Append(r, c))
  BY <1>2, <1>3, <1>4, <1>5, MergeTurns, SMTT(40)
<1>7. /\ m.supers = s /\ m.seqs = RemoveHead(q, c) /\ m.result = Append(r, c)
      /\ DOMAIN m = DOMAIN merge
  BY <1>2 DEF MergeTurn
<1>8. Ids' = Ids /\ TableOK' /\ AllOrdered'
  BY <1>1, TableStays
<1>9. MergeOK'
  <2>1. Lists(merge.supers)' = o
    BY <1>1, <1>7 DEF Lists, Precedence
  <2>2. /\ m.supers \in Seq(Ids) /\ m.seqs \in Seq(Seq(Ids)) /\ m.result \in Seq(Ids)
        /\ DOMAIN m.seqs = DOMAIN o /\ Progress(o, m.seqs, m.result)
        /\ {"busy", "supers", "seqs", "result"} \subseteq DOMAIN m
    BY <1>2, <1>6, <1>7
  <2>3. QED
    BY <1>8, <2>1, <2>2 DEF MergeOK
<1>10. QED
  BY <1>8, <1>9 DEF MInv

LEMMA TailOfCons ==
  ASSUME NEW S, NEW r \in Seq(S), NEW n \in S
  PROVE  /\ <<n>> \o r \in Seq(S) /\ <<n>> \o r # <<>> /\ (<<n>> \o r)[1] = n
         /\ Tail(<<n>> \o r) = r
<1>1. <<n>> \o r \in Seq(S) /\ Len(<<n>> \o r) = Len(r) + 1 /\ (<<n>> \o r)[1] = n /\ Len(r) \in Nat
  OBVIOUS
<1>2. \A j \in 1..Len(r) : (<<n>> \o r)[j + 1] = r[j]
  OBVIOUS
<1> DEFINE t == <<n>> \o r
<1> HIDE DEF t
<1>3. Tail(t) \in Seq(S) /\ Len(Tail(t)) = Len(r) /\ \A j \in 1..Len(r) : Tail(t)[j] = r[j]
  <2>1. t # <<>>
    BY <1>1 DEF t
  <2>2. QED
    BY <1>1, <1>2, <2>1, TailOf DEF t
<1>4. Tail(t) = r
  BY <1>3
<1>5. t # <<>>
  BY <1>1 DEF t
<1>6. QED
  BY <1>1, <1>4, <1>5 DEF t

LEMMA FinalizeStep ==
  ASSUME MInv, Finalize
  PROVE  MInv'
<1> SUFFICES ASSUME NEW r, r = merge.result, NEW s, s = merge.supers,
                    NEW n, n = Len(classes), NEW d, d = Defined(<<n + 1>> \o r)
             PROVE  MInv'
  OBVIOUS
<1>1. /\ TableOK /\ AllOrdered /\ merge.busy /\ s \in Seq(Ids) /\ r \in Seq(Ids)
      /\ classes' = Append(classes, d) /\ value' = [value EXCEPT ![merge.name] = n + 1]
      /\ merge' = Idle
  BY DEF MInv, MergeOK, Finalize
<1>2. n \in Nat /\ n >= 2 /\ Ids = 1..n
  BY <1>1, Shape DEF TableOK, Ids
<1>3. d.supers = s /\ d.cpl = <<n + 1>> \o r
  BY DEF Defined
<1>4. /\ IsSeq(classes') /\ Len(classes') = n + 1 /\ classes'[n + 1] = d
      /\ \A c \in 1..n : classes'[c] = classes[c]
  BY <1>1, <1>2, Appended DEF TableOK
<1>5. Ids' = 1..n+1 /\ Ids \subseteq 1..n+1 /\ \A c \in 1..n+1 : c \in Ids \/ c = n + 1
  BY <1>2, <1>4 DEF Ids
<1>13. \A x \in Seq(Ids) : x \in Seq(1..n+1)
  BY <1>2, Wider
<1>6. s \in Seq(1..n+1) /\ r \in Seq(1..n+1)
  BY <1>1, <1>13
<1>7. /\ d.cpl \in Seq(1..n+1) /\ d.cpl # <<>> /\ d.cpl[1] = n + 1 /\ Tail(d.cpl) = r
  <2>1. n + 1 \in 1..n+1
    BY <1>2
  <2>2. /\ <<n + 1>> \o r \in Seq(1..n+1) /\ <<n + 1>> \o r # <<>> /\ (<<n + 1>> \o r)[1] = n + 1
        /\ Tail(<<n + 1>> \o r) = r
    BY <1>6, <2>1, TailOfCons, SMTT(40)
  <2>3. QED
    BY <1>3, <2>2
<1>8. TableOK'
  <2>1. value' \in [Names \cup BuiltInNames -> 0..n+1]
    <3> SUFFICES ASSUME NEW D, D = Names \cup BuiltInNames
                 PROVE  value' \in [D -> 0..n+1]
      OBVIOUS
    <3>1. value \in [D -> 0..n]
      BY <1>1 DEF TableOK
    <3>2. 0..n \subseteq 0..n+1 /\ n + 1 \in 0..n+1
      BY <1>2
    <3>3. QED
      BY <1>1, <3>1, <3>2
  <2>2. ASSUME NEW c \in Ids
        PROVE  /\ classes'[c].supers \in Seq(1..n+1) /\ classes'[c].cpl \in Seq(1..n+1)
               /\ classes'[c].cpl # <<>> /\ classes'[c].cpl[1] = c
    <3>1. classes'[c] = classes[c]
      BY <1>2, <1>4
    <3>2. QED
      BY <1>1, <1>13, <3>1 DEF TableOK
  <2>3. /\ classes'[n + 1].supers \in Seq(1..n+1) /\ classes'[n + 1].cpl \in Seq(1..n+1)
        /\ classes'[n + 1].cpl # <<>> /\ classes'[n + 1].cpl[1] = n + 1
    BY <1>3, <1>4, <1>6, <1>7
  <2>4. Len(classes') >= 2
    BY <1>2, <1>4
  <2>5. QED
    BY <1>4, <1>5, <2>1, <2>2, <2>3, <2>4 DEF TableOK
<1>9. \A c \in Ids : c \in Ids' /\ classes'[c] = classes[c]
  BY <1>2, <1>4, <1>5
<1>10. AllOrdered'
  <2> SUFFICES ASSUME NEW c \in 1..n+1, NEW l, l = Tail(classes'[c].cpl), NEW p, p = classes'[c].supers
               PROVE  classes'[c].cpl[1] = c /\ Orders(l, p)'
    BY <1>5 DEF AllOrdered, Ordered
  <2>1. CASE c \in Ids
    <3>1. Orders(l, p) /\ classes'[c].cpl[1] = c /\ p \in Seq(Ids)
      BY <1>1, <1>9, <2>1 DEF AllOrdered, Ordered, TableOK
    <3>2. QED
      BY <1>1, <1>9, <3>1, OrderStays
  <2>2. CASE c = n + 1
    <3>1. Orders(r, s)
      BY DoneOrders DEF Finalize
    <3>2. Orders(r, s)'
      BY <1>1, <1>9, <3>1, OrderStays
    <3>3. l = r /\ p = s /\ classes'[c].cpl[1] = c
      BY <1>3, <1>4, <1>7, <2>2
    <3>4. QED
      BY <3>2, <3>3
  <2>3. QED
    BY <1>5, <2>1, <2>2
<1>11. MergeOK'
  BY <1>1 DEF MergeOK, Idle
<1>12. QED
  BY <1>8, <1>10, <1>11 DEF MInv

LEMMA RefuseStep ==
  ASSUME MInv, Refuse
  PROVE  MInv'
<1>1. UNCHANGED <<classes, value>> /\ merge' = Idle
  BY DEF Refuse
<1>2. TableOK' /\ AllOrdered'
  BY <1>1, TableStays DEF MInv
<1>3. MergeOK'
  BY <1>1 DEF MergeOK, Idle
<1>4. QED
  BY <1>2, <1>3 DEF MInv

LEMMA MergesInductive == MInv /\ [Next]_vars => MInv'
<1> SUFFICES ASSUME MInv, [Next]_vars PROVE MInv'
  OBVIOUS
<1>1. CASE DefClass
  BY <1>1, StartStep DEF DefClass
<1>2. CASE Merge
  BY <1>2, TurnStep DEF Merge
<1>3. CASE EndClass
  BY <1>3, FinalizeStep DEF EndClass
<1>4. CASE RefuseClass
  BY <1>4, RefuseStep DEF RefuseClass
<1>5. CASE ~(DefClass \/ Merge \/ EndClass \/ RefuseClass)
  <2>1. UNCHANGED classVars
    BY <1>5 DEF Next, vars, classVars, FormFails, DefClassUnknown, DefGeneric, DefMethod, DefMethodFails,
       Call, CallFails, Proceed, ProceedOverruns, ReturnToOpen, Return, Finish, EnterCatch, Throw,
       CallNextMethod, CallNextMethodBreaks, CallNextMethodFails
  <2>2. QED
    BY <2>1, ClassesStay
<1>6. QED
  BY <1>1, <1>2, <1>3, <1>4, <1>5

LEMMA StuckIsCyclic == MInv => RefusesOnlyCycles
<1> SUFFICES ASSUME MInv, Stuck PROVE Cyclic(merge.supers)
  BY DEF RefusesOnlyCycles
<1> SUFFICES ASSUME NEW o, o = Lists(merge.supers), NEW s, s = merge.supers
             PROVE  Cyclic(s)
  OBVIOUS
<1>1. /\ TableOK /\ s \in Seq(Ids) /\ merge.seqs \in Seq(Seq(Ids)) /\ merge.result \in Seq(Ids)
      /\ DOMAIN merge.seqs = DOMAIN o /\ Progress(o, merge.seqs, merge.result)
      /\ Left(merge.seqs) # {} /\ Free(merge.seqs) = {}
  BY DEF MInv, MergeOK, Stuck
<1>2. o \in Seq(Seq(Ids))
  BY <1>1, ListsAre
<1>3. PICK X : /\ X # {} /\ \A y \in X : Holds(o, y)
               /\ \A y \in X : \E x \in X : Precedes(o, x, y)
  BY <1>1, <1>2, MergeStuck
<1>4. X \subseteq Ancestors(s)
  BY <1>1, <1>3, AncestorsAreHeld
<1>5. \A y \in X : \E x \in X : Before(s, x, y)
  BY <1>1, <1>3, BeforeIsPrecedes
<1>6. QED
  BY <1>3, <1>4, <1>5 DEF Cyclic

(* Any hierarchy, of any number of classes and superclasses: every class   *)
(* precedence list has the class first and then each ancestor once, in an  *)
(* order that no superclass's list and no list of direct superclasses      *)
(* contradicts (c3_linearize).                                             *)
THEOREM ListsAreOrdered == Spec => [](\A c \in Ids : Ordered(c))
<1>1. MInv => \A c \in Ids : Ordered(c)
  BY DEF MInv, AllOrdered
<1>2. QED
  BY <1>1, MergesInit, MergesInductive, PTL DEF Spec

(* A definition is refused with the error of c3_linearize only if the      *)
(* lists of its superclasses contradict each other, so that no order would *)
(* do.                                                                     *)
THEOREM RefusesCyclesOnly == Spec => []RefusesOnlyCycles
<1>1. QED
  BY MergesInit, MergesInductive, StuckIsCyclic, PTL DEF Spec

-----------------------------------------------------------------------------
(* Slots.                                                                  *)

LEMMA SlotAdded ==
  ASSUME NEW S, NEW slots \in Seq(S), NEW s \in S
  PROVE  /\ AddSlot(slots, s) \in Seq(S)
         /\ \A x : x \in ToSet(AddSlot(slots, s)) <=> x \in ToSet(slots) \/ x = s
         /\ IsInjective(slots) => IsInjective(AddSlot(slots, s))
<1>1. CASE s \in ToSet(slots)
  BY <1>1 DEF AddSlot
<1>2. CASE s \notin ToSet(slots)
  <2> DEFINE t == Append(slots, s)
             n == Len(slots)
  <2>1. AddSlot(slots, s) = t
    BY <1>2 DEF AddSlot
  <2>2. /\ t \in Seq(S) /\ n \in Nat /\ DOMAIN slots = 1..n /\ DOMAIN t = 1..n+1
        /\ \A k \in 1..n : t[k] = slots[k]
        /\ t[n + 1] = s /\ \A x : x \in ToSet(t) <=> x \in ToSet(slots) \/ x = s
    BY SetOfAppended
  <2> HIDE DEF t, n
  <2>3. \A k \in 1..n : slots[k] # s
    BY <1>2, <2>2 DEF ToSet
  <2>4. \A k \in 1..n+1 : k \in 1..n \/ k = n + 1
    BY <2>2
  <2>5. IsInjective(slots) => IsInjective(t)
    BY <2>2, <2>3, <2>4 DEF IsInjective
  <2>6. QED
    BY <2>1, <2>2, <2>5
<1>3. QED
  BY <1>1, <1>2

LEMMA SlotsAddedIs ==
  ASSUME NEW S, NEW slots \in Seq(S), NEW more \in Seq(S)
  PROVE  /\ SlotsAdded(slots, more)[0] = slots
         /\ \A i \in 1..Len(more) :
              SlotsAdded(slots, more)[i] = AddSlot(SlotsAdded(slots, more)[i - 1], more[i])
<1> DEFINE n == Len(more)
           g == [i \in 1..n |-> [s \in Seq(S) |-> AddSlot(s, more[i])]]
<1>1. n \in Nat /\ \A i \in 1..n : more[i] \in S
  OBVIOUS
<1>2. \A i \in 1..n : \A s \in Seq(S) : g[i][s] = AddSlot(s, more[i]) /\ g[i][s] \in Seq(S)
  BY <1>1, SlotAdded
<1> PICK Z : Z = Seq(S)
  OBVIOUS
<1> HIDE DEF g, n
<1>3. PICK f : f \in Steps(n, Z, slots, g)
  BY <1>1, <1>2, StepsExist
<1>4. f \in [0..n -> Z] /\ f[0] = slots /\ \A i \in 1..n : f[i] = g[i][f[i - 1]]
  BY <1>3 DEF Steps
<1>5. \A i \in 1..n : f[i] = AddSlot(f[i - 1], more[i])
  <2>1. \A i \in 1..n : i - 1 \in 0..n /\ f[i - 1] \in Z
    BY <1>1, <1>4
  <2>2. QED
    BY <1>2, <1>4, <2>1
<1>6. f = [i \in 0..n |-> IF i = 0 THEN slots ELSE AddSlot(f[i - 1], more[i])]
  BY <1>1, <1>4, <1>5
<1>7. PICK a : a = SlotsAdded(slots, more)
  OBVIOUS
<1>8. a = [i \in 0..n |-> IF i = 0 THEN slots ELSE AddSlot(a[i - 1], more[i])]
  BY <1>6, <1>7 DEF SlotsAdded, n
<1>9. a[0] = slots /\ \A i \in 1..n : a[i] = AddSlot(a[i - 1], more[i])
  BY <1>1, <1>8
<1>10. QED
  BY <1>7, <1>9 DEF n

LEMMA SlotsUnited ==
  ASSUME NEW S, NEW slots \in Seq(S), NEW more \in Seq(S), IsInjective(slots)
  PROVE  /\ AddSlots(slots, more) \in Seq(S)
         /\ IsInjective(AddSlots(slots, more))
         /\ \A x : x \in ToSet(AddSlots(slots, more)) <=> x \in ToSet(slots) \/ x \in ToSet(more)
<1> DEFINE n == Len(more)
           a == SlotsAdded(slots, more)
           R == {i \in 0..n : /\ a[i] \in Seq(S) /\ IsInjective(a[i])
                              /\ \A x : x \in ToSet(a[i]) <=>
                                   x \in ToSet(slots) \/ \E j \in 1..i : x = more[j]}
<1>1. n \in Nat /\ DOMAIN more = 1..n /\ \A i \in 1..n : more[i] \in S
  OBVIOUS
<1>2. a[0] = slots /\ \A i \in 1..n : a[i] = AddSlot(a[i - 1], more[i])
  BY SlotsAddedIs
<1> HIDE DEF a, n
<1>3. 0 \in R
  BY <1>1, <1>2
<1>4. ASSUME NEW i \in 1..n, i - 1 \in R PROVE i \in R
  <2>1. PICK b : b = a[i - 1]
    OBVIOUS
  <2>2. /\ b \in Seq(S) /\ IsInjective(b)
        /\ \A x : x \in ToSet(b) <=> x \in ToSet(slots) \/ \E j \in 1..i-1 : x = more[j]
    BY <1>4, <2>1
  <2>3. a[i] = AddSlot(b, more[i]) /\ more[i] \in S
    BY <1>1, <1>2, <2>1
  <2>4. /\ a[i] \in Seq(S) /\ IsInjective(a[i])
        /\ \A x : x \in ToSet(a[i]) <=> x \in ToSet(b) \/ x = more[i]
    <3>1. PICK m, c : m = more[i] /\ c = AddSlot(b, m)
      OBVIOUS
    <3>2. m \in S /\ b \in Seq(S) /\ IsInjective(b)
      BY <2>2, <2>3, <3>1
    <3>3. c \in Seq(S) /\ IsInjective(c) /\ \A x : x \in ToSet(c) <=> x \in ToSet(b) \/ x = m
      <4> HIDE DEF R
      <4>1. QED
        BY <3>1, <3>2, SlotAdded
    <3>4. QED
      BY <2>3, <3>1, <3>3
  <2>5. \A j : j \in 1..i <=> j \in 1..i-1 \/ j = i
    BY <1>1
  <2>6. \A x : x \in ToSet(a[i]) <=> x \in ToSet(slots) \/ \E j \in 1..i : x = more[j]
    BY <2>2, <2>4, <2>5
  <2>7. i \in 0..n
    OBVIOUS
  <2>8. QED
    BY <2>4, <2>6, <2>7
<1>5. n \in R
  <2> HIDE DEF R
  <2>1. \A i \in 0..n : i \in R
    BY <1>1, <1>3, <1>4, UpTo
  <2>2. QED
    BY <1>1, <2>1
<1>6. \A x : x \in ToSet(more) <=> \E j \in 1..n : x = more[j]
  BY <1>1 DEF ToSet
<1>7. QED
  BY <1>5, <1>6 DEF AddSlots, a, n

(* The n classes of the list after its first have slots from S.            *)
Inherits(S, cpl, n) ==
  n = Len(cpl) - 1 /\ \A i \in 1..n : classes[cpl[i + 1]].slots \in Seq(S)

LEMMA CollectedIs ==
  ASSUME NEW S, NEW direct \in Seq(S), NEW cpl, NEW n \in Nat, Inherits(S, cpl, n)
  PROVE  /\ Collected(direct, cpl)[0] = AddSlots(<<>>, direct)
         /\ \A i \in 1..n :
              Collected(direct, cpl)[i] = AddSlots(Collected(direct, cpl)[i - 1], classes[cpl[i + 1]].slots)
<1> PICK Z, b : Z = {s \in Seq(S) : IsInjective(s)} /\ b = AddSlots(<<>>, direct)
  OBVIOUS
<1> DEFINE g == [i \in 1..n |-> [s \in Z |-> AddSlots(s, classes[cpl[i + 1]].slots)]]
<1>1. b \in Z
  <2>1. <<>> \in Seq(S) /\ IsInjective(<<>>)
    BY DEF IsInjective
  <2>2. QED
    BY <2>1, SlotsUnited
<1>2. \A i \in 1..n : \A s \in Z : g[i][s] = AddSlots(s, classes[cpl[i + 1]].slots) /\ g[i][s] \in Z
  BY SlotsUnited DEF Inherits
<1> HIDE DEF g
<1>3. PICK f : f \in Steps(n, Z, b, g)
  BY <1>1, <1>2, StepsExist
<1>4. f \in [0..n -> Z] /\ f[0] = b /\ \A i \in 1..n : f[i] = g[i][f[i - 1]]
  BY <1>3 DEF Steps
<1>5. \A i \in 1..n : f[i] = AddSlots(f[i - 1], classes[cpl[i + 1]].slots)
  <2>1. \A i \in 1..n : i - 1 \in 0..n /\ f[i - 1] \in Z
    BY <1>4
  <2>2. QED
    BY <1>2, <1>4, <2>1
<1>6. f = [i \in 0..n |-> IF i = 0 THEN b ELSE AddSlots(f[i - 1], classes[cpl[i + 1]].slots)]
  BY <1>4, <1>5
<1>7. PICK e : e = Collected(direct, cpl)
  OBVIOUS
<1>8. e = [i \in 0..n |-> IF i = 0 THEN b ELSE AddSlots(e[i - 1], classes[cpl[i + 1]].slots)]
  BY <1>6, <1>7 DEF Collected, Inherits
<1>9. e[0] = b /\ \A i \in 1..n : e[i] = AddSlots(e[i - 1], classes[cpl[i + 1]].slots)
  BY <1>8
<1>10. QED
  BY <1>7, <1>9

(* The effective slots are those of the list, each once.                   *)
LEMMA EffectiveIs ==
  ASSUME NEW S, NEW direct \in Seq(S), NEW cpl, NEW n \in Nat, Inherits(S, cpl, n)
  PROVE  /\ Effective(direct, cpl) \in Seq(S)
         /\ IsInjective(Effective(direct, cpl))
         /\ \A x : x \in ToSet(Effective(direct, cpl)) <=>
              x \in ToSet(direct) \/ \E i \in 1..n : x \in ToSet(classes[cpl[i + 1]].slots)
<1> DEFINE e == Collected(direct, cpl)
           sl(i) == classes[cpl[i + 1]].slots
           R == {i \in 0..n : /\ e[i] \in Seq(S) /\ IsInjective(e[i])
                              /\ \A x : x \in ToSet(e[i]) <=>
                                   x \in ToSet(direct) \/ \E j \in 1..i : x \in ToSet(sl(j))}
<1>1. e[0] = AddSlots(<<>>, direct) /\ \A i \in 1..n : e[i] = AddSlots(e[i - 1], sl(i))
  <2> HIDE DEF R
  <2>1. /\ Collected(direct, cpl)[0] = AddSlots(<<>>, direct)
        /\ \A i \in 1..n :
             Collected(direct, cpl)[i] = AddSlots(Collected(direct, cpl)[i - 1], classes[cpl[i + 1]].slots)
    BY CollectedIs
  <2>2. QED
    BY <2>1
<1>2. \A i \in 1..n : sl(i) \in Seq(S)
  BY DEF Inherits
<1> HIDE DEF e, sl
<1>3. 0 \in R
  <2>1. PICK b, none : b = e[0] /\ none = <<>>
    OBVIOUS
  <2>2. none \in Seq(S) /\ IsInjective(none) /\ ToSet(none) = {}
    BY <2>1 DEF IsInjective, ToSet
  <2>3. b \in Seq(S) /\ IsInjective(b) /\ \A x : x \in ToSet(b) <=> x \in ToSet(none) \/ x \in ToSet(direct)
    <3> HIDE DEF R
    <3>1. b = AddSlots(none, direct)
      BY <1>1, <2>1
    <3>2. QED
      BY <2>2, <3>1, SlotsUnited
  <2>4. QED
    BY <2>1, <2>2, <2>3
<1>4. ASSUME NEW i \in 1..n, i - 1 \in R PROVE i \in R
  <2>1. PICK b, m, c : b = e[i - 1] /\ m = sl(i) /\ c = e[i]
    OBVIOUS
  <2>2. /\ b \in Seq(S) /\ IsInjective(b)
        /\ \A x : x \in ToSet(b) <=> x \in ToSet(direct) \/ \E j \in 1..i-1 : x \in ToSet(sl(j))
    BY <1>4, <2>1
  <2>3. c = AddSlots(b, m) /\ m \in Seq(S)
    BY <1>1, <1>2, <2>1
  <2>4. c \in Seq(S) /\ IsInjective(c) /\ \A x : x \in ToSet(c) <=> x \in ToSet(b) \/ x \in ToSet(m)
    <3> HIDE DEF R
    <3>1. QED
      BY <2>2, <2>3, SlotsUnited
  <2>5. \A j : j \in 1..i <=> j \in 1..i-1 \/ j = i
    OBVIOUS
  <2>6. \A x : x \in ToSet(c) <=> x \in ToSet(direct) \/ \E j \in 1..i : x \in ToSet(sl(j))
    BY <2>1, <2>2, <2>4, <2>5
  <2>7. i \in 0..n
    OBVIOUS
  <2>8. QED
    BY <2>1, <2>4, <2>6, <2>7
<1>5. n \in R
  <2> HIDE DEF R
  <2>1. \A i \in 0..n : i \in R
    BY <1>3, <1>4, UpTo
  <2>2. QED
    BY <2>1
<1>6. Effective(direct, cpl) = e[n]
  BY DEF Effective, Inherits, e
<1>7. QED
  BY <1>5, <1>6 DEF sl

SlotsOnce(c) ==
  /\ IsInjective(classes[c].effective)
  /\ ToSet(classes[c].effective) = UNION {ToSet(classes[a].slots) : a \in ToSet(classes[c].cpl)}

SInv == MInv /\ ClassTypeOK /\ \A c \in Ids : SlotsOnce(c)

(* The classes and activations of c3_linearize there may be.               *)
ClassesOf(I) == [supers : Seq(I), slots : Seq(STRING), cpl : Seq(I), effective : Seq(STRING)]

Merges(I) ==
  [busy : BOOLEAN, name : Names \cup BuiltInNames, slots : Seq(STRING), supers : Seq(I),
   seqs : Seq(Seq(I)), result : Seq(I)]

LEMMA IdleIsOne ==
  ASSUME NEW J
  PROVE  Idle \in Merges(J)
<1>1. <<>> \in Seq(STRING) /\ <<>> \in Seq(J) /\ <<>> \in Seq(Seq(J)) /\ "T" \in Names \cup BuiltInNames
  BY DEF BuiltInNames
<1>2. QED
  BY <1>1 DEF Idle, Merges

LEMMA SlotsInit == Init => SInv
<1> SUFFICES ASSUME Init PROVE SInv
  OBVIOUS
<1>1. MInv
  BY MergesInit
<1>2. /\ classes = <<[supers |-> <<>>, slots |-> <<>>, cpl |-> <<1>>, effective |-> <<>>],
                     [supers |-> <<1>>, slots |-> <<>>, cpl |-> <<2, 1>>, effective |-> <<>>]>>
      /\ merge = Idle
  BY DEF Init, ClassInit, T, StandardObject
<1>3. PICK x, y : classes = <<x, y>> /\ x = classes[1] /\ y = classes[2]
  BY <1>2
<1>4. Len(classes) = 2 /\ Ids = 1..2
  BY <1>3 DEF Ids
<1>5. x \in ClassesOf(Ids) /\ y \in ClassesOf(Ids)
  <2>1. <<>> \in Seq(STRING)
    OBVIOUS
  <2>2. PICK J : J = 1..2
    OBVIOUS
  <2>3. PICK o, p, q : o = <<>> /\ p = <<1>> /\ q = <<2, 1>>
    OBVIOUS
  <2>4. o \in Seq(J) /\ p \in Seq(J) /\ q \in Seq(J) /\ o \in Seq(STRING)
    BY <2>1, <2>2, <2>3
  <2>5. /\ x = [supers |-> o, slots |-> o, cpl |-> p, effective |-> o]
        /\ y = [supers |-> p, slots |-> o, cpl |-> q, effective |-> o]
    BY <1>2, <1>3, <2>3
  <2>6. QED
    BY <1>4, <2>2, <2>4, <2>5 DEF ClassesOf
<1>6. ClassTypeOK
  <2>1. <<x, y>> \in Seq(ClassesOf(Ids))
    BY <1>5
  <2>2. merge \in Merges(Ids)
    BY <1>2, IdleIsOne
  <2>3. value \in [Names \cup BuiltInNames -> 0..Len(classes)]
    BY <1>1 DEF MInv, TableOK
  <2>4. QED
    BY <1>3, <2>1, <2>2, <2>3 DEF ClassTypeOK, ClassesOf, Merges
<1>7. ASSUME NEW c \in Ids PROVE SlotsOnce(c)
  <2>1. \A d \in Ids : classes[d].slots = <<>> /\ classes[d].effective = <<>>
    BY <1>2, <1>4
  <2>2. ToSet(classes[c].cpl) \subseteq Ids
    <3>1. classes[c].cpl \in Seq(Ids)
      BY <1>1 DEF MInv, TableOK
    <3>2. QED
      BY <3>1 DEF ToSet
  <2>3. ToSet(<<>>) = {} /\ IsInjective(<<>>)
    BY DEF ToSet, IsInjective
  <2>4. QED
    BY <2>1, <2>2, <2>3 DEF SlotsOnce
<1>8. QED
  BY <1>1, <1>6, <1>7 DEF SInv

(* As long as no class is added, the merge is all that changes.            *)
LEMMA SlotsStay ==
  ASSUME SInv, MInv', UNCHANGED <<classes, value>>, merge' \in Merges(Ids)
  PROVE  SInv'
<1>1. Ids' = Ids
  BY DEF Ids
<1>2. ClassTypeOK'
  BY <1>1 DEF SInv, ClassTypeOK, Merges
<1>3. \A c \in Ids : SlotsOnce(c)'
  BY DEF SInv, SlotsOnce
<1>4. QED
  BY <1>1, <1>2, <1>3 DEF SInv

LEMMA SlotsStart ==
  ASSUME SInv, NEW n \in Names, NEW names \in SuperLists, NEW slots \in SlotLists,
         StartClass(n, names, slots)
  PROVE  SInv'
<1>1. MInv' /\ UNCHANGED <<classes, value>>
  BY StartStep DEF SInv, StartClass
<1>2. PICK s, q, r : s = Supers(names) /\ q = Append(Precedence(Supers(names)), Supers(names)) /\ r = <<>>
  OBVIOUS
<1>3. merge' = [busy |-> TRUE, name |-> n, slots |-> slots, supers |-> s, seqs |-> q, result |-> r]
  BY <1>2 DEF StartClass
<1>4. Ids' = Ids
  BY <1>1 DEF Ids
<1>5. s \in Seq(Ids) /\ q \in Seq(Seq(Ids)) /\ r \in Seq(Ids)
  BY <1>1, <1>3, <1>4 DEF MInv, MergeOK
<1>6. slots \in Seq(STRING)
  BY SlotsAssumption
<1>7. merge' \in Merges(Ids)
  BY <1>3, <1>5, <1>6 DEF Merges
<1>8. QED
  BY <1>1, <1>7, SlotsStay

LEMMA SlotsTurn ==
  ASSUME SInv, MergeTurn
  PROVE  SInv'
<1>1. MInv' /\ UNCHANGED <<classes, value>>
  BY TurnStep DEF SInv, MergeTurn
<1>2. PICK q, r : q = RemoveHead(merge.seqs, Candidate) /\ r = Append(merge.result, Candidate)
  OBVIOUS
<1>3. merge \in Merges(Ids) /\ merge.busy
  BY DEF SInv, ClassTypeOK, Merges, MergeTurn
<1>4. merge' = [merge EXCEPT !.seqs = q, !.result = r]
  BY <1>2 DEF MergeTurn
<1>5. merge'.busy /\ merge'.seqs = q /\ merge'.result = r
  BY <1>3, <1>4 DEF Merges
<1>6. Ids' = Ids
  BY <1>1 DEF Ids
<1>7. q \in Seq(Seq(Ids)) /\ r \in Seq(Ids)
  BY <1>1, <1>5, <1>6 DEF MInv, MergeOK
<1>8. merge' \in Merges(Ids)
  BY <1>3, <1>4, <1>7 DEF Merges
<1>9. QED
  BY <1>1, <1>8, SlotsStay

LEMMA SlotsRefuse ==
  ASSUME SInv, Refuse
  PROVE  SInv'
BY RefuseStep, IdleIsOne, SlotsStay DEF Refuse, SInv

LEMMA ConsAt ==
  ASSUME NEW S, NEW r \in Seq(S), NEW a \in S
  PROVE  /\ Len(<<a>> \o r) = Len(r) + 1 /\ DOMAIN (<<a>> \o r) = 1..Len(r)+1
         /\ (<<a>> \o r)[1] = a /\ \A i \in 1..Len(r) : (<<a>> \o r)[i + 1] = r[i]
OBVIOUS

LEMMA WiderClass ==
  ASSUME NEW n \in Nat, NEW c \in ClassesOf(1..n)
  PROVE  c \in ClassesOf(1..n+1)
BY Wider DEF ClassesOf

LEMMA SlotsFinalize ==
  ASSUME SInv, Finalize
  PROVE  SInv'
<1> SUFFICES ASSUME NEW n, n = Len(classes), NEW r, r = merge.result, NEW l, l = <<n + 1>> \o r,
                    NEW sl, sl = merge.slots, NEW e, e = Effective(sl, l),
                    NEW s, s = merge.supers
             PROVE  SInv'
  OBVIOUS
<1>1. MInv' /\ MInv
  BY FinalizeStep DEF SInv
<1>2. n \in Nat /\ Ids = 1..n
  BY <1>1, Shape DEF MInv, TableOK, Ids
<1>3. r \in Seq(Ids) /\ s \in Seq(Ids) /\ sl \in Seq(STRING)
  BY DEF SInv, ClassTypeOK
<1>4. PICK d : d = [supers |-> s, slots |-> sl, cpl |-> l, effective |-> e]
  OBVIOUS
<1>5. classes' = Append(classes, d) /\ merge' = Idle
  BY <1>4 DEF Finalize, Defined
<1>6. /\ Len(classes') = n + 1 /\ classes'[n + 1] = d /\ \A c \in 1..n : classes'[c] = classes[c]
  BY <1>1, <1>5, Appended DEF MInv, TableOK
<1>7. Ids' = 1..n+1
  BY <1>6 DEF Ids
<1>8. PICK m \in Nat : m = Len(r)
  BY <1>3
<1>9. DOMAIN r = 1..m /\ \A i \in 1..m : r[i] \in 1..n
  BY <1>2, <1>3, <1>8
<1>10. Len(l) = m + 1 /\ DOMAIN l = 1..m+1 /\ l[1] = n + 1 /\ \A i \in 1..m : l[i + 1] = r[i]
  <2>1. n + 1 \in Nat /\ r \in Seq(Nat)
    <3>1. \A x \in Ids : x \in Nat
      BY <1>2
    <3>2. r \in [1..m -> Nat]
      BY <1>3, <1>8, <3>1
    <3>3. QED
      BY <1>2, <3>2, FunctionIsSeq
  <2>2. QED
    BY <1>8, <2>1, ConsAt
<1>11. Inherits(STRING, l, m)
  <2>1. \A i \in 1..m : classes[l[i + 1]].slots \in Seq(STRING)
    <3>1. PICK C : C = ClassesOf(1..n)
      OBVIOUS
    <3>2. classes \in Seq(C) /\ DOMAIN classes = 1..n
      BY <1>2, <3>1 DEF SInv, ClassTypeOK, ClassesOf, MInv, TableOK
    <3>3. \A c \in 1..n : classes[c] \in C
      BY <3>2
    <3>4. \A c \in 1..n : classes[c].slots \in Seq(STRING)
      BY <3>1, <3>3 DEF ClassesOf
    <3>5. ASSUME NEW i \in 1..m PROVE l[i + 1] \in 1..n
      BY <1>9, <1>10
    <3>6. QED
      BY <3>4, <3>5
  <2>2. QED
    BY <1>8, <1>10, <2>1 DEF Inherits
<1>12. /\ e \in Seq(STRING) /\ IsInjective(e)
       /\ \A x : x \in ToSet(e) <=> x \in ToSet(sl) \/ \E i \in 1..m : x \in ToSet(classes[l[i + 1]].slots)
  <2>1. PICK S : S = STRING
    OBVIOUS
  <2>2. sl \in Seq(S) /\ Inherits(S, l, m)
    BY <1>3, <1>11, <2>1
  <2>3. /\ e \in Seq(S) /\ IsInjective(e)
        /\ \A x : x \in ToSet(e) <=> x \in ToSet(sl) \/ \E i \in 1..m : x \in ToSet(classes[l[i + 1]].slots)
    BY <2>2, EffectiveIs
  <2>4. QED
    BY <2>1, <2>3
<1>13. d \in ClassesOf(1..n+1)
  <2>1. s \in Seq(1..n+1) /\ l \in Seq(1..n+1)
    <3>1. s \in Seq(1..n+1)
      BY <1>2, <1>3, Wider
    <3>2. classes'[n + 1].cpl \in Seq(Ids')
      <4>1. TableOK'
        BY <1>1 DEF MInv
      <4>2. n + 1 \in Ids'
        BY <1>2, <1>7
      <4>3. QED
        BY <4>1, <4>2 DEF TableOK
    <3>3. QED
      BY <1>4, <1>6, <1>7, <3>1, <3>2
  <2>2. QED
    BY <1>3, <1>4, <1>12, <2>1 DEF ClassesOf
<1>14. classes' \in Seq(ClassesOf(1..n+1))
  <2>1. classes \in Seq(ClassesOf(1..n))
    BY <1>2 DEF SInv, ClassTypeOK, ClassesOf
  <2>2. \A c \in 1..n : classes[c] \in ClassesOf(1..n+1)
    BY <1>2, <2>1, WiderClass
  <2>3. PICK C : C = ClassesOf(1..n+1)
    OBVIOUS
  <2>4. classes \in [1..n -> C]
    BY <2>1, <2>2, <2>3
  <2>5. classes \in Seq(C)
    BY <1>2, <2>4, FunctionIsSeq
  <2>6. QED
    BY <1>5, <1>13, <2>3, <2>5
<1>15. ClassTypeOK'
  <2>1. merge' \in Merges(Ids')
    BY <1>5, IdleIsOne
  <2>2. value' \in [Names \cup BuiltInNames -> 0..Len(classes')]
    BY <1>1 DEF MInv, TableOK
  <2>3. QED
    BY <1>7, <1>14, <2>1, <2>2 DEF ClassTypeOK, Merges, ClassesOf
<1>16. ASSUME NEW c \in 1..n+1 PROVE SlotsOnce(c)'
  <2>1. CASE c \in 1..n
    <3>1. SlotsOnce(c)
      BY <1>2, <2>1 DEF SInv
    <3>2. classes[c].cpl \in Seq(1..n)
      BY <1>1, <1>2, <2>1 DEF MInv, TableOK
    <3>3. \A a \in ToSet(classes[c].cpl) : classes'[a] = classes[a]
      BY <1>6, <3>2 DEF ToSet
    <3>4. classes'[c] = classes[c]
      BY <1>6, <2>1
    <3>5. {ToSet(classes'[a].slots) : a \in ToSet(classes[c].cpl)}
            = {ToSet(classes[a].slots) : a \in ToSet(classes[c].cpl)}
      BY <3>3
    <3>6. QED
      BY <3>1, <3>4, <3>5 DEF SlotsOnce
  <2>2. CASE c = n + 1
    <3>1. classes'[c] = d /\ d.effective = e /\ d.cpl = l /\ d.slots = sl
      BY <1>4, <1>6, <2>2
    <3>2. \A i \in 1..m : classes'[l[i + 1]].slots = classes[l[i + 1]].slots
      BY <1>6, <1>9, <1>10
    <3>3. classes'[l[1]].slots = sl
      BY <1>10, <2>2, <3>1
    <3>4. \A i : i \in 1..m+1 <=> i = 1 \/ \E j \in 1..m : i = j + 1
      <4>1. \A i \in 1..m+1 : i = 1 \/ (i - 1 \in 1..m /\ i = (i - 1) + 1)
        BY <1>8
      <4>2. 1 \in 1..m+1 /\ \A j \in 1..m : j + 1 \in 1..m+1
        BY <1>8
      <4>3. QED
        BY <4>1, <4>2
    <3>5. \A x : x \in ToSet(e) <=> \E i \in 1..m+1 : x \in ToSet(classes'[l[i]].slots)
      <4>1. \A x : x \in ToSet(e) <=> x \in ToSet(classes'[l[1]].slots)
                                      \/ \E j \in 1..m : x \in ToSet(classes'[l[j + 1]].slots)
        BY <1>12, <3>2, <3>3
      <4>2. QED
        BY <3>4, <4>1
    <3>6. ToSet(l) = {l[i] : i \in 1..m+1}
      BY <1>10 DEF ToSet
    <3>7. ToSet(e) = UNION {ToSet(classes'[a].slots) : a \in ToSet(l)}
      <4>1. ASSUME NEW x \in ToSet(e) PROVE x \in UNION {ToSet(classes'[a].slots) : a \in ToSet(l)}
        <5>1. PICK i \in 1..m+1 : x \in ToSet(classes'[l[i]].slots)
          BY <3>5
        <5>2. PICK a : a = l[i]
          OBVIOUS
        <5>3. a \in ToSet(l) /\ x \in ToSet(classes'[a].slots)
          BY <3>6, <5>1, <5>2
        <5>4. QED
          BY <5>3
      <4>2. ASSUME NEW x \in UNION {ToSet(classes'[a].slots) : a \in ToSet(l)} PROVE x \in ToSet(e)
        <5>1. PICK a \in ToSet(l) : x \in ToSet(classes'[a].slots)
          OBVIOUS
        <5>2. PICK i \in 1..m+1 : a = l[i]
          BY <3>6
        <5>3. QED
          BY <3>5, <5>1, <5>2
      <4>3. QED
        BY <4>1, <4>2
    <3>8. QED
      BY <1>12, <3>1, <3>7 DEF SlotsOnce
  <2>3. QED
    BY <1>2, <2>1, <2>2
<1>17. QED
  BY <1>1, <1>7, <1>15, <1>16 DEF SInv

LEMMA SlotsInductive == SInv /\ [Next]_vars => SInv'
<1> SUFFICES ASSUME SInv, [Next]_vars PROVE SInv'
  OBVIOUS
<1>1. CASE DefClass
  BY <1>1, SlotsStart DEF DefClass
<1>2. CASE Merge
  BY <1>2, SlotsTurn DEF Merge
<1>3. CASE EndClass
  BY <1>3, SlotsFinalize DEF EndClass
<1>4. CASE RefuseClass
  BY <1>4, SlotsRefuse DEF RefuseClass
<1>5. CASE ~(DefClass \/ Merge \/ EndClass \/ RefuseClass)
  <2>1. UNCHANGED classVars
    BY <1>5 DEF Next, vars, classVars, FormFails, DefClassUnknown, DefGeneric, DefMethod, DefMethodFails,
       Call, CallFails, Proceed, ProceedOverruns, ReturnToOpen, Return, Finish, EnterCatch, Throw,
       CallNextMethod, CallNextMethodBreaks, CallNextMethodFails
  <2>2. MInv' /\ UNCHANGED <<classes, value, merge>>
    BY <2>1, ClassesStay DEF SInv, classVars
  <2>3. merge' \in Merges(Ids)
    BY <2>2 DEF SInv, ClassTypeOK, Merges
  <2>4. QED
    BY <2>2, <2>3, SlotsStay
<1>6. QED
  BY <1>1, <1>2, <1>3, <1>4, <1>5

(* Every class precedence list has the class first and then each ancestor  *)
(* once, in an order that no superclass's list and no list of direct       *)
(* superclasses contradicts (c3_linearize), and the slots are laid out     *)
(* once each, none of an ancestor missing (compute_effective_slots).       *)
THEOREM ClassesAreLinearized == Spec => []Linearized
<1>1. SInv => Linearized
  BY DEF SInv, MInv, AllOrdered, SlotsOnce, Linearized
<1>2. QED
  BY <1>1, SlotsInit, SlotsInductive, PTL DEF Spec

-----------------------------------------------------------------------------
(* The lists agree with each other: the list of a class has the list of    *)
(* each class on it behind that class, so a subclass comes before its      *)
(* superclasses on every list that has both.                               *)
Nested(l, C) ==
  /\ IsInjective(l)
  /\ \A i \in DOMAIN l : \A y \in ToSet(C[l[i]].cpl) : \E k \in DOMAIN l : i <= k /\ l[k] = y

AllNested(C) == \A c \in 1..Len(C) : Nested(C[c].cpl, C)

Monotone == AllNested(classes)

LEMMA MonotoneInit == Init => Monotone
<1> SUFFICES ASSUME Init PROVE Monotone
  OBVIOUS
<1>1. Ids = 1..2 /\ classes[1].cpl = <<1>> /\ classes[2].cpl = <<2, 1>>
  BY DEF Init, ClassInit, T, StandardObject, Ids
<1>2. PICK p, q : p = <<1>> /\ q = <<2, 1>>
  OBVIOUS
<1>3. /\ DOMAIN p = {1} /\ p[1] = 1 /\ DOMAIN q = {1, 2} /\ q[1] = 2 /\ q[2] = 1
      /\ classes[1].cpl = p /\ classes[2].cpl = q
  BY <1>1, <1>2
<1>4. ToSet(p) = {1} /\ ToSet(q) = {1, 2} /\ IsInjective(p) /\ IsInjective(q)
  BY <1>3 DEF ToSet, IsInjective
<1>5. Nested(p, classes) /\ Nested(q, classes)
  BY <1>3, <1>4 DEF Nested
<1>6. QED
  BY <1>1, <1>3, <1>5 DEF Monotone, AllNested, Ids

LEMMA MonotoneStays ==
  ASSUME Monotone, UNCHANGED classes
  PROVE  Monotone'
BY DEF Monotone

(* What the new class has on its list is on that of a superclass, and so   *)
(* is, behind it, what follows it there.                                   *)
LEMMA MonotoneFinalize ==
  ASSUME MInv, MInv', Monotone, Finalize
  PROVE  Monotone'
<1>0. SUFFICES ASSUME NEW n, n = Len(classes), NEW r, r = merge.result, NEW l, l = <<n + 1>> \o r,
                    NEW s, s = merge.supers, NEW C, C = classes'
             PROVE  AllNested(C)
  BY DEF Monotone
<1>1. n \in Nat /\ Ids = 1..n /\ TableOK
  BY <1>0, Shape DEF MInv, TableOK, Ids
<1>2. r \in Seq(Ids) /\ s \in Seq(Ids) /\ Orders(r, s)
  BY <1>0, DoneOrders DEF MInv, MergeOK, Finalize
<1>3. PICK d : C = Append(classes, d) /\ d.cpl = l
  <2>1. PICK d : d = Defined(l)
    OBVIOUS
  <2>2. d.cpl = l
    BY <1>0, <2>1 DEF Defined
  <2>3. C = Append(classes, d)
    BY <1>0, <2>1 DEF Finalize
  <2>4. QED
    BY <2>2, <2>3
<1>4. Len(C) = n + 1 /\ C[n + 1] = d /\ \A c \in 1..n : C[c] = classes[c]
  BY <1>0, <1>1, <1>3, Appended DEF TableOK
<1>5. \A c \in 1..n : Nested(classes[c].cpl, classes)
  BY <1>0 DEF Monotone, AllNested
<1>6. PICK m : m = Len(r) /\ m \in Nat /\ DOMAIN r = 1..m /\ \A i \in 1..m : r[i] \in 1..n
  <2>1. PICK Z : Z = 1..n /\ r \in Seq(Z)
    BY <1>1, <1>2
  <2>2. Len(r) \in Nat /\ DOMAIN r = 1..Len(r) /\ \A i \in 1..Len(r) : r[i] \in Z
    BY <1>1, <2>1
  <2>3. QED
    BY <2>1, <2>2
<1>7. DOMAIN l = 1..m+1 /\ l[1] = n + 1 /\ \A i \in 1..m : l[i + 1] = r[i]
  <2>1. PICK Z : Z = 1..n+1
    OBVIOUS
  <2>2. n + 1 \in Z /\ r \in Seq(Z)
    BY <1>1, <1>2, <2>1, Wider
  <2>3. QED
    BY <1>0, <1>6, <2>2, ConsAt
<1>8. \A i \in 1..m+1 : i = 1 \/ (i - 1 \in 1..m /\ l[i] = r[i - 1])
  <2>1. SUFFICES ASSUME NEW i \in 1..m+1, i # 1 PROVE i - 1 \in 1..m /\ l[i] = r[i - 1]
    OBVIOUS
  <2>2. i - 1 \in 1..m /\ (i - 1) + 1 = i
    BY <1>6, <2>1
  <2>3. QED
    BY <1>7, <2>2
<1>9. ASSUME NEW c \in 1..n PROVE Nested(C[c].cpl, C)
  <2>1. PICK q : q = classes[c].cpl /\ q \in Seq(1..n) /\ C[c].cpl = q
    BY <1>1, <1>4 DEF TableOK
  <2>2. \A i \in DOMAIN q : q[i] \in 1..n
    BY <1>1, <2>1
  <2>3. \A i \in DOMAIN q : C[q[i]] = classes[q[i]]
    BY <1>4, <2>2
  <2>4. Nested(q, classes)
    BY <1>5, <2>1
  <2>5. Nested(q, C)
    BY <2>3, <2>4 DEF Nested
  <2>6. QED
    BY <2>1, <2>5
<1>10. IsInjective(l)
  <2>1. IsInjective(r)
    BY <1>2 DEF Orders
  <2>2. \A k \in 1..m : r[k] # n + 1
    BY <1>1, <1>6
  <2>3. ASSUME NEW i \in 1..m+1, NEW j \in 1..m+1, l[i] = l[j] PROVE i = j
    <3>1. CASE i = 1
      BY <1>7, <1>8, <2>2, <2>3, <3>1
    <3>2. CASE j = 1
      BY <1>7, <1>8, <2>2, <2>3, <3>2
    <3>3. CASE i # 1 /\ j # 1
      <4>1. i - 1 \in 1..m /\ j - 1 \in 1..m /\ r[i - 1] = r[j - 1]
        BY <1>8, <2>3, <3>3
      <4>2. i - 1 = j - 1
        BY <1>6, <2>1, <4>1 DEF IsInjective
      <4>3. QED
        BY <4>2
    <3>4. QED
      BY <3>1, <3>2, <3>3
  <2>4. \A i, j \in DOMAIN l : l[i] = l[j] => i = j
    BY <1>7, <2>3
  <2>5. QED
    BY <2>4 DEF IsInjective
(* What follows a class on its list follows it among the ancestors.        *)
<1>11. ASSUME NEW a \in 1..m, NEW y, y \in ToSet(classes[r[a]].cpl)
       PROVE  \E b \in 1..m : a <= b /\ r[b] = y
  <2>1. PICK x : x = r[a] /\ x \in 1..n
    BY <1>6
  <2>2. x \in Ancestors(s)
    BY <1>2, <1>6, <2>1 DEF Orders, ToSet
  <2>3. PICK p \in 1..Len(s) : x \in ToSet(classes[s[p]].cpl)
    <3>1. PICK q \in ToSet(Precedence(s)) : x \in ToSet(q)
      BY <2>2 DEF Ancestors
    <3>2. PICK p \in DOMAIN Precedence(s) : q = Precedence(s)[p]
      BY <3>1 DEF ToSet
    <3>3. DOMAIN Precedence(s) = 1..Len(s) /\ \A i \in 1..Len(s) : Precedence(s)[i] = classes[s[i]].cpl
      BY <1>1, <1>2, ListsAre
    <3>4. QED
      BY <3>1, <3>2, <3>3
  <2>4. PICK q : q = classes[s[p]].cpl
    OBVIOUS
  <2>5. s[p] \in Ids /\ q = Precedence(s)[p] /\ p \in DOMAIN Precedence(s)
    BY <1>1, <1>2, <2>4, ListsAre
  <2>6. PICK i \in DOMAIN q : q[i] = x
    BY <2>3, <2>4 DEF ToSet
  <2>7. PICK k \in DOMAIN q : i <= k /\ q[k] = y
    <3>1. Nested(q, classes)
      BY <1>1, <1>5, <2>4, <2>5
    <3>2. y \in ToSet(classes[q[i]].cpl)
      BY <1>11, <2>1, <2>6
    <3>3. QED
      BY <3>1, <3>2 DEF Nested
  <2>8. y \in Ancestors(s)
    BY <2>5, <2>7 DEF Ancestors, ToSet
  <2>9. PICK b \in 1..m : r[b] = y
    BY <1>2, <1>6, <2>8 DEF Orders, ToSet
  <2>10. i \in Nat /\ k \in Nat
    <3>1. q \in Seq(Ids)
      BY <1>1, <2>4, <2>5 DEF TableOK
    <3>2. QED
      BY <3>1
  <2>11. CASE i = k
    BY <2>1, <2>6, <2>7, <2>11
  <2>12. CASE i < k
    <3>1. Before(s, x, y)
      BY <2>5, <2>6, <2>7, <2>12 DEF Before, ToSet
    <3>2. a < b
      BY <1>2, <1>6, <2>1, <2>9, <3>1 DEF Orders
    <3>3. QED
      BY <2>9, <3>2
  <2>13. QED
    BY <2>7, <2>10, <2>11, <2>12
<1>12. Nested(l, C)
  <2>1. C[n + 1].cpl = l
    BY <1>3, <1>4
  <2>2. ASSUME NEW i \in 1..m+1, NEW y, y \in ToSet(C[l[i]].cpl)
        PROVE  \E k \in 1..m+1 : i <= k /\ l[k] = y
    <3>1. CASE i = 1
      <4>1. y \in ToSet(l)
        BY <1>7, <2>1, <2>2, <3>1
      <4>2. PICK k \in 1..m+1 : l[k] = y
        BY <1>7, <4>1 DEF ToSet
      <4>3. QED
        BY <1>6, <3>1, <4>2
    <3>2. CASE i # 1
      <4>1. i - 1 \in 1..m /\ l[i] = r[i - 1] /\ r[i - 1] \in 1..n
        BY <1>6, <1>8, <3>2
      <4>2. C[l[i]] = classes[r[i - 1]]
        BY <1>4, <4>1
      <4>3. PICK b \in 1..m : i - 1 <= b /\ r[b] = y
        BY <1>11, <2>2, <4>1, <4>2
      <4>4. b + 1 \in 1..m+1 /\ i <= b + 1 /\ l[b + 1] = y
        BY <1>6, <1>7, <4>1, <4>3
      <4>5. QED
        BY <4>4
    <3>3. QED
      BY <3>1, <3>2
  <2>3. \A i \in DOMAIN l : \A y \in ToSet(C[l[i]].cpl) : \E k \in DOMAIN l : i <= k /\ l[k] = y
    <3>1. DOMAIN l = 1..m+1
      BY <1>7
    <3>2. QED
      BY <2>2, <3>1, Zenon
  <2>4. QED
    BY <1>10, <2>3 DEF Nested
<1>13. QED
  <2>1. \A c \in 1..n+1 : c \in 1..n \/ c = n + 1
    BY <1>1
  <2>2. C[n + 1].cpl = l
    BY <1>3, <1>4
  <2>3. QED
    BY <1>4, <1>9, <1>12, <2>1, <2>2 DEF AllNested

LEMMA MonotoneInductive == MInv /\ Monotone /\ [Next]_vars => Monotone'
<1> SUFFICES ASSUME MInv, Monotone, [Next]_vars PROVE Monotone'
  OBVIOUS
<1>1. CASE EndClass
  BY <1>1, MergesInductive, MonotoneFinalize DEF EndClass
<1>2. CASE ~EndClass
  <2>1. classes' = classes
    BY <1>2 DEF Next, vars, FormFails, DefClass, StartClass, DefClassUnknown, Merge, MergeTurn,
       RefuseClass, Refuse, DefGeneric, DefMethod, DefMethodFails,
       Call, CallFails, Proceed, ProceedOverruns, ReturnToOpen, Return, Finish, EnterCatch, Throw,
       CallNextMethod, CallNextMethodBreaks, CallNextMethodFails
  <2>2. QED
    BY <2>1, MonotoneStays
<1>3. QED
  BY <1>1, <1>2
=============================================================================
