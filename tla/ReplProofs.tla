----------------------------- MODULE ReplProofs -----------------------------
(***************************************************************************)
(* Proofs about the REPL, for any lines, files and size of the buffer:     *)
(* whatever is read, evaluated and exported, names keep their symbols;     *)
(* every state is well typed; and in text that both take alike, the REPL   *)
(* and the reader agree on where an input ends.                            *)
(***************************************************************************)
EXTENDS Repl, Induction

(* Packages are records, and none uses another one than COMMON-LISP.       *)
Shaped(ps) ==
  /\ ps = [p \in DOMAIN ps |-> ps[p]]
  /\ {CL, User} \subseteq DOMAIN ps
  /\ \A p \in DOMAIN ps :
       DOMAIN ps[p] = {"external", "internal", "use"} /\ ps[p].use \in {<<>>, <<CL>>}

(* A symbol of a package is what its name denotes there, unless a symbol   *)
(* without a package has taken the name over.                              *)
AtHome(ps, ss, s) ==
  \/ Own(ps, ss[s].package, ss[s].name) = s
  \/ /\ Own(ps, ss[s].package, ss[s].name) \in DOMAIN ss
     /\ ss[Own(ps, ss[s].package, ss[s].name)].package = NoPackage

AllAtHome(ps, ss) ==
  \A s \in DOMAIN ss : ss[s].package # NoPackage => ss[s].package \in DOMAIN ps /\ AtHome(ps, ss, s)

OnePerName(ss) ==
  \A r, s \in DOMAIN ss :
    ss[r].package = ss[s].package /\ ss[r].package # NoPackage /\ ss[r].name = ss[s].name => r = s

Numbered(ss) == ss \in Seq(ToSet(ss))

Sound(ps, ss) == Shaped(ps) /\ Numbered(ss) /\ AllAtHome(ps, ss) /\ OnePerName(ss)

-----------------------------------------------------------------------------
(* Symbols and tables.                                                     *)

OneLonger(s, x, t) ==
  /\ Numbered(t)
  /\ DOMAIN s = 1..Len(s) /\ DOMAIN t = 1..Len(s)+1 /\ Len(s) \in Nat
  /\ \A i \in DOMAIN s : t[i] = s[i]
  /\ t[Len(s) + 1] = x

LEMMA Appended ==
  ASSUME NEW s, Numbered(s), NEW x, NEW t, t = Append(s, x)
  PROVE  OneLonger(s, x, t)
<1>1. s \in Seq(ToSet(s))
  BY DEF Numbered
<1>2. ASSUME NEW S, s \in Seq(S)
      PROVE  /\ Len(s) \in Nat /\ DOMAIN s = 1..Len(s) /\ t \in Seq(S \cup {x})
             /\ Len(t) = Len(s) + 1 /\ DOMAIN t = 1..Len(s)+1
             /\ \A i \in DOMAIN s : t[i] = s[i]
             /\ t[Len(s) + 1] = x
  BY <1>2
<1>3. t \in Seq(ToSet(t))
  <2>1. t \in [1..Len(t) -> ToSet(s) \cup {x}] /\ Len(t) \in Nat
    <3>1. t \in Seq(ToSet(s) \cup {x})
      BY <1>1, <1>2
    <3>2. ASSUME NEW T, NEW f \in Seq(T) PROVE f \in [1..Len(f) -> T] /\ Len(f) \in Nat
      OBVIOUS
    <3>3. QED
      BY <3>1, <3>2
  <2>2. t \in [1..Len(t) -> ToSet(t)]
    BY <2>1 DEF ToSet
  <2>3. ASSUME NEW n \in Nat, NEW T, NEW f \in [1..n -> T] PROVE f \in Seq(T)
    OBVIOUS
  <2>4. QED
    BY <2>1, <2>2, <2>3
<1>4. QED
  BY <1>1, <1>2, <1>3 DEF Numbered, OneLonger

LEMMA NotZero ==
  ASSUME NEW ss, Numbered(ss)
  PROVE  0 \notin DOMAIN ss
<1>1. DOMAIN ss = 1..Len(ss)
  BY DEF Numbered
<1>2. QED
  BY <1>1

LEMMA PutEntry ==
  ASSUME NEW table, NEW m, NEW s, NEW n
  PROVE  Entry(Put(table, m, s), n) = IF n = m THEN s ELSE Entry(table, n)
BY DEF Entry, Put

(* What a name denotes, for packages of that shape.                        *)
LEMMA FoundIs ==
  ASSUME NEW ps, Shaped(ps), NEW p \in DOMAIN ps, NEW n
  PROVE  Found(ps, p, n) =
           IF Own(ps, p, n) # 0 THEN Own(ps, p, n)
           ELSE IF ps[p].use = <<CL>> THEN Entry(ps[CL].external, n) ELSE 0
<1>1. CASE ps[p].use = <<>>
  <2>1. Exporters(ps, p, n) = {} /\ <<>> # <<CL>>
    BY <1>1 DEF Exporters
  <2>2. QED
    BY <1>1, <2>1 DEF Found, Inherited
<1>2. CASE ps[p].use = <<CL>>
  <2>1. DOMAIN ps[p].use = {1} /\ ps[p].use[1] = CL
    BY <1>2
  <2>2. CASE Entry(ps[CL].external, n) = 0
    <3>1. Exporters(ps, p, n) = {}
      BY <2>1, <2>2 DEF Exporters
    <3>2. QED
      BY <1>2, <2>2, <3>1 DEF Found, Inherited
  <2>3. CASE Entry(ps[CL].external, n) # 0
    <3>1. Exporters(ps, p, n) = {1}
      BY <2>1, <2>3 DEF Exporters
    <3>2. Min({1}) = 1
      BY DEF Min
    <3>3. QED
      BY <1>2, <2>1, <3>1, <3>2 DEF Found, Inherited
  <2>4. QED
    BY <2>2, <2>3
<1>3. QED
  BY <1>1, <1>2 DEF Shaped

LEMMA Distinct == CL # Keyword /\ CL # User /\ <<>> # <<CL>> /\ NoPackage # CL /\ NoPackage # User
BY DEF CL, Keyword, User, NoPackage

(* r has one entry more than ps, in q.                                     *)
Alike(ps, q, r) ==
  /\ Shaped(r) /\ DOMAIN r = DOMAIN ps
  /\ \A p \in DOMAIN ps : p # q => r[p] = ps[p]
  /\ r[q].use = ps[q].use

External(ps, q, m, s, r) ==
  /\ Alike(ps, q, r)
  /\ r[q].external = Put(ps[q].external, m, s) /\ r[q].internal = ps[q].internal

Internal(ps, q, m, s, r) ==
  /\ Alike(ps, q, r)
  /\ r[q].internal = Put(ps[q].internal, m, s) /\ r[q].external = ps[q].external

LEMMA PutExternal ==
  ASSUME NEW ps, Shaped(ps), NEW q \in DOMAIN ps, NEW m, NEW s,
         NEW r, r = [ps EXCEPT ![q].external = Put(@, m, s)]
  PROVE  External(ps, q, m, s, r)
BY DEF Shaped, Alike, External

LEMMA PutInternal ==
  ASSUME NEW ps, Shaped(ps), NEW q \in DOMAIN ps, NEW m, NEW s,
         NEW r, r = [ps EXCEPT ![q].internal = Put(@, m, s)]
  PROVE  Internal(ps, q, m, s, r)
BY DEF Shaped, Alike, Internal

(* es has the packages of ps and q.                                        *)
Wider(ps, q, es) ==
  /\ Shaped(es) /\ DOMAIN es = DOMAIN ps \cup {q}
  /\ \A p \in DOMAIN ps : es[p] = ps[p]

LEMMA EnsuredIs ==
  ASSUME NEW ps, Shaped(ps), NEW q, NEW es, es = Ensured(ps, q)
  PROVE  Wider(ps, q, es)
<1>1. DOMAIN EmptyPackage = {"external", "internal", "use"} /\ EmptyPackage.use = <<>>
  BY DEF EmptyPackage
<1>2. /\ DOMAIN es = DOMAIN ps \cup {q} /\ \A p \in DOMAIN ps : es[p] = ps[p]
      /\ q \notin DOMAIN ps => es[q] = EmptyPackage
  BY DEF Ensured
<1>3. Shaped(es)
  BY <1>1, <1>2 DEF Shaped, Ensured
<1>4. QED
  BY <1>2, <1>3 DEF Wider

-----------------------------------------------------------------------------
(* A name that denotes a symbol goes on denoting it.                       *)
Stable(ps, ss, qs, ts) ==
  \A p \in DOMAIN ps : \A s \in DOMAIN ss :
    LET n == ss[s].name
        t == Found(ps, p, n)
        u == Found(qs, p, n)
    IN  t # 0 /\ u # t => u # 0 /\ NoPackage \in {ss[t].package, ts[u].package}

(* A name is interned where it denotes nothing.                            *)
LEMMA EnteredSound ==
  ASSUME NEW ps, NEW ss, Sound(ps, ss), NEW q, NEW n,
         NEW es, Wider(ps, q, es), Found(es, q, n) = 0,
         NEW x, x.name = n, x.package = q, NEW ts, OneLonger(ss, x, ts),
         NEW qs, qs = Entered(es, q, n, Len(ss) + 1)
  PROVE  Sound(qs, ts) /\ Stable(ps, ss, qs, ts)
<1> PICK new : new = Len(ss) + 1
  OBVIOUS
<1>0. /\ Numbered(ts) /\ new # 0 /\ new \notin DOMAIN ss
      /\ DOMAIN ts = DOMAIN ss \cup {new}
      /\ \A s \in DOMAIN ss : ts[s] = ss[s]
      /\ ts[new].name = n /\ ts[new].package = q
      /\ 0 \notin DOMAIN ss
  BY DEF OneLonger
<1>1. /\ Shaped(es) /\ DOMAIN es = DOMAIN ps \cup {q}
      /\ \A p \in DOMAIN ps : es[p] = ps[p]
  BY DEF Wider
<1>3. /\ Shaped(qs) /\ DOMAIN qs = DOMAIN es
      /\ \A p \in DOMAIN es : p # q => qs[p] = es[p]
      /\ qs[q].use = es[q].use
      /\ q = Keyword => qs[q].external = Put(es[q].external, n, new) /\ qs[q].internal = es[q].internal
      /\ q # Keyword => qs[q].internal = Put(es[q].internal, n, new) /\ qs[q].external = es[q].external
  <2>1. q \in DOMAIN es
    BY <1>1
  <2>2. CASE q = Keyword
    <3>1. qs = [es EXCEPT ![q].external = Put(@, n, new)]
      BY <2>2 DEF Entered
    <3>2. External(es, q, n, new, qs)
      BY <1>1, <2>1, <3>1, PutExternal
    <3>3. QED
      BY <2>2, <3>2 DEF External, Alike
  <2>3. CASE q # Keyword
    <3>1. qs = [es EXCEPT ![q].internal = Put(@, n, new)]
      BY <2>3 DEF Entered
    <3>2. Internal(es, q, n, new, qs)
      BY <1>1, <2>1, <3>1, PutInternal
    <3>3. QED
      BY <2>3, <3>2 DEF Internal, Alike
  <2>4. QED
    BY <2>2, <2>3
<1>4. Own(es, q, n) = 0 /\ Entry(es[q].external, n) = 0
  BY <1>1, FoundIs DEF Own
<1>5. Own(qs, q, n) = new
  BY <1>0, <1>3, <1>4, PutEntry DEF Own
<1>6. ASSUME NEW p \in DOMAIN es, NEW m, p # q \/ m # n
      PROVE  Own(qs, p, m) = Own(es, p, m)
  BY <1>3, <1>6, PutEntry DEF Own
<1>7. AllAtHome(qs, ts)
  <2>1. ASSUME NEW s \in DOMAIN ss, ss[s].package # NoPackage
        PROVE  ss[s].package \in DOMAIN qs /\ AtHome(qs, ts, s)
    <3>1. ss[s].package \in DOMAIN ps /\ AtHome(ps, ss, s)
      <4>1. AllAtHome(ps, ss)
        BY DEF Sound
      <4>2. QED
        BY <2>1, <4>1 DEF AllAtHome
    <3>2. Own(es, ss[s].package, ss[s].name) = Own(ps, ss[s].package, ss[s].name)
      BY <1>1, <3>1 DEF Own
    <3>3. ~ (ss[s].package = q /\ ss[s].name = n)
      BY <1>0, <1>4, <3>1, <3>2 DEF AtHome
    <3>4. Own(qs, ss[s].package, ss[s].name) = Own(ps, ss[s].package, ss[s].name)
      BY <1>1, <1>6, <3>1, <3>2, <3>3
    <3>5. QED
      BY <1>0, <1>1, <1>3, <3>1, <3>4 DEF AtHome
  <2>2. q \in DOMAIN qs /\ AtHome(qs, ts, new)
    BY <1>0, <1>1, <1>3, <1>5 DEF AtHome
  <2>3. QED
    BY <1>0, <2>1, <2>2 DEF AllAtHome
<1>8. OnePerName(ts)
  <2>1. ASSUME NEW s \in DOMAIN ss, ss[s].package = q, ss[s].name = n, q # NoPackage
        PROVE  FALSE
    <3>1. q \in DOMAIN ps /\ AtHome(ps, ss, s)
      <4>1. AllAtHome(ps, ss)
        BY DEF Sound
      <4>2. QED
        BY <2>1, <4>1 DEF AllAtHome
    <3>2. Own(es, q, n) = Own(ps, q, n)
      BY <1>1, <3>1 DEF Own
    <3>3. QED
      BY <1>0, <1>4, <2>1, <3>1, <3>2 DEF AtHome
  <2>2. QED
    BY <1>0, <2>1 DEF OnePerName, Sound
<1>9. Stable(ps, ss, qs, ts)
  <2> SUFFICES ASSUME NEW p \in DOMAIN ps, NEW m, Found(ps, p, m) # 0
               PROVE  Found(qs, p, m) = Found(ps, p, m)
    BY DEF Stable
  <2>1. Found(ps, p, m) = Found(es, p, m)
    <3>1. Own(es, p, m) = Own(ps, p, m) /\ es[p] = ps[p] /\ es[CL] = ps[CL]
      BY <1>1 DEF Own, Sound, Shaped
    <3>2. QED
      BY <1>1, <3>1, FoundIs DEF Sound
  <2>2. p # q \/ m # n
    BY <2>1
  <2>3. Own(qs, p, m) = Own(es, p, m) /\ qs[p].use = es[p].use
    BY <1>1, <1>3, <1>6, <2>2
  <2>4. qs[CL].external = es[CL].external
    BY <1>1, <1>3, Distinct DEF Shaped
  <2>5. QED
    BY <1>1, <1>3, <2>1, <2>3, <2>4, FoundIs
<1>10. QED
  BY <1>0, <1>3, <1>7, <1>8, <1>9 DEF Sound

(* A package is made at most.                                              *)
LEMMA WiderSound ==
  ASSUME NEW ps, NEW ss, Sound(ps, ss), NEW q, NEW es, Wider(ps, q, es)
  PROVE  Sound(es, ss) /\ Stable(ps, ss, es, ss)
<1>1. /\ Shaped(es) /\ DOMAIN es = DOMAIN ps \cup {q}
      /\ \A p \in DOMAIN ps : es[p] = ps[p]
  BY DEF Wider
<1>2. ASSUME NEW p \in DOMAIN ps, NEW n
      PROVE  Own(es, p, n) = Own(ps, p, n) /\ Found(es, p, n) = Found(ps, p, n)
  <2>1. Shaped(ps) /\ CL \in DOMAIN ps
    BY DEF Sound, Shaped
  <2>2. Own(es, p, n) = Own(ps, p, n) /\ es[p] = ps[p] /\ es[CL] = ps[CL]
    BY <1>1, <2>1 DEF Own
  <2>3. QED
    BY <1>1, <2>1, <2>2, FoundIs
<1>3. AllAtHome(es, ss)
  <2>1. AllAtHome(ps, ss)
    BY DEF Sound
  <2>2. QED
    BY <1>1, <1>2, <2>1 DEF AllAtHome, AtHome
<1>4. Stable(ps, ss, es, ss)
  BY <1>2 DEF Stable
<1>5. QED
  BY <1>1, <1>3, <1>4 DEF Sound

(* A symbol without a package is made.                                     *)
LEMMA UninternedSound ==
  ASSUME NEW ps, NEW ss, Sound(ps, ss),
         NEW x, x.package = NoPackage, NEW ts, OneLonger(ss, x, ts)
  PROVE  Sound(ps, ts) /\ Stable(ps, ss, ps, ts)
<1>0. PICK new : new = Len(ss) + 1
  OBVIOUS
<1>1. /\ Numbered(ts) /\ DOMAIN ts = DOMAIN ss \cup {new}
      /\ \A s \in DOMAIN ss : ts[s] = ss[s]
      /\ ts[new].package = NoPackage
  BY <1>0 DEF OneLonger
<1>2. AllAtHome(ps, ts)
  BY <1>1 DEF Sound, AllAtHome, AtHome
<1>3. OnePerName(ts)
  BY <1>1 DEF Sound, OnePerName
<1>4. Stable(ps, ss, ps, ts)
  BY DEF Stable
<1>5. QED
  BY <1>1, <1>2, <1>3, <1>4 DEF Sound

(* A symbol is exported, over another one or not.                          *)
LEMMA ExportSound ==
  ASSUME NEW ps, NEW ss, Sound(ps, ss), NEW s \in DOMAIN ss,
         NEW q, q = IF ss[s].package = NoPackage THEN User ELSE ss[s].package,
         NEW n, n = ss[s].name,
         NEW qs, qs = [ps EXCEPT ![q].external = Put(@, n, s)]
  PROVE  Sound(qs, ss) /\ Stable(ps, ss, qs, ss)
<1>0. /\ Shaped(ps) /\ AllAtHome(ps, ss) /\ OnePerName(ss) /\ Numbered(ss)
      /\ 0 \notin DOMAIN ss
  BY NotZero DEF Sound
<1>1. q \in DOMAIN ps
  BY <1>0 DEF Shaped, AllAtHome
<1>2. External(ps, q, n, s, qs)
  BY <1>0, <1>1, PutExternal
<1>3. /\ Shaped(qs) /\ DOMAIN qs = DOMAIN ps
      /\ \A p \in DOMAIN ps : p # q => qs[p] = ps[p]
      /\ qs[q].use = ps[q].use
      /\ qs[q].external = Put(ps[q].external, n, s) /\ qs[q].internal = ps[q].internal
  BY <1>2 DEF External, Alike
<1>4. Own(qs, q, n) = s
  <2>1. Entry(qs[q].external, n) = s /\ s # 0
    BY <1>0, <1>3, PutEntry
  <2>2. QED
    BY <2>1 DEF Own
<1>5. ASSUME NEW p \in DOMAIN ps, NEW m, p # q \/ m # n
      PROVE  /\ Own(qs, p, m) = Own(ps, p, m)
             /\ Entry(qs[p].external, m) = Entry(ps[p].external, m)
  BY <1>3, <1>5, PutEntry DEF Own
<1>10. ASSUME NEW p \in DOMAIN ps, NEW m
       PROVE  Found(qs, p, m) = IF Own(qs, p, m) # 0 THEN Own(qs, p, m)
                                ELSE IF qs[p].use = <<CL>> THEN Entry(qs[CL].external, m) ELSE 0
  <2>1. p \in DOMAIN qs /\ Shaped(qs)
    BY <1>3
  <2>2. QED
    BY <2>1, FoundIs
(* The symbol that has the name so far is s, or is without a package.      *)
<1>6. ss[s].package = q => AtHome(ps, ss, s) /\ q # NoPackage
  <2>1. ss[s].package = q => q # NoPackage
    BY Distinct
  <2>2. QED
    BY <1>0, <2>1 DEF AllAtHome
<1>7. AllAtHome(qs, ss)
  <2>1. ASSUME NEW r \in DOMAIN ss, ss[r].package # NoPackage
        PROVE  ss[r].package \in DOMAIN qs /\ AtHome(qs, ss, r)
    <3>1. ss[r].package \in DOMAIN ps /\ AtHome(ps, ss, r)
      BY <1>0, <2>1 DEF AllAtHome
    <3>2. CASE ss[r].package = q /\ ss[r].name = n
      <4>1. r = s \/ ss[s].package = NoPackage
        BY <1>0, <2>1, <3>2 DEF OnePerName
      <4>2. QED
        BY <1>3, <1>4, <3>1, <3>2, <4>1 DEF AtHome
    <3>3. CASE ~ (ss[r].package = q /\ ss[r].name = n)
      <4>1. Own(qs, ss[r].package, ss[r].name) = Own(ps, ss[r].package, ss[r].name)
        BY <1>5, <3>1, <3>3
      <4>2. QED
        BY <1>3, <3>1, <4>1 DEF AtHome
    <3>4. QED
      BY <3>2, <3>3
  <2>2. QED
    BY <2>1 DEF AllAtHome
<1>8. Stable(ps, ss, qs, ss)
  <2> SUFFICES ASSUME NEW p \in DOMAIN ps, NEW m, NEW t, t = Found(ps, p, m), t # 0,
                      NEW u, u = Found(qs, p, m), u # t
               PROVE  u # 0 /\ NoPackage \in {ss[t].package, ss[u].package}
    BY DEF Stable
  <2>1. /\ t = IF Own(ps, p, m) # 0 THEN Own(ps, p, m)
               ELSE IF ps[p].use = <<CL>> THEN Entry(ps[CL].external, m) ELSE 0
        /\ u = IF Own(qs, p, m) # 0 THEN Own(qs, p, m)
               ELSE IF qs[p].use = <<CL>> THEN Entry(qs[CL].external, m) ELSE 0
    <3>1. t = IF Own(ps, p, m) # 0 THEN Own(ps, p, m)
              ELSE IF ps[p].use = <<CL>> THEN Entry(ps[CL].external, m) ELSE 0
      BY <1>0, FoundIs
    <3>2. u = IF Own(qs, p, m) # 0 THEN Own(qs, p, m)
              ELSE IF qs[p].use = <<CL>> THEN Entry(qs[CL].external, m) ELSE 0
      BY <1>10
    <3>3. QED
      BY <3>1, <3>2
  <2>2. CL \in DOMAIN ps
    BY <1>0 DEF Shaped
  <2>3. CASE m # n
    <3>1. /\ Own(qs, p, m) = Own(ps, p, m) /\ qs[p].use = ps[p].use
          /\ Entry(qs[CL].external, m) = Entry(ps[CL].external, m)
      <4>1. qs[p].use = ps[p].use
        BY <1>3
      <4>2. QED
        BY <1>5, <2>2, <2>3, <4>1
    <3>2. QED
      BY <2>1, <3>1
  <2>4. CASE m = n /\ p = q
    <3>1. u = s
      BY <1>0, <1>4, <2>1, <2>4
    <3>2. CASE ss[s].package = q
      <4>1. t # s /\ AtHome(ps, ss, s)
        BY <1>6, <3>1, <3>2
      <4>2. Own(ps, q, n) # 0 => t = Own(ps, q, n)
        BY <2>1, <2>4
      <4>3. QED
        BY <1>0, <3>1, <3>2, <4>1, <4>2 DEF AtHome
    <3>3. QED
      BY <1>0, <3>1, <3>2
  <2>5. CASE m = n /\ p # q
    <3>1. Own(qs, p, m) = Own(ps, p, m) /\ qs[p].use = ps[p].use
      BY <1>3, <1>5, <2>5
    <3>2. q = CL /\ t = Entry(ps[CL].external, n) /\ u = Entry(qs[CL].external, n)
      BY <1>5, <2>1, <2>2, <2>5, <3>1
    <3>3. u = s
      BY <1>3, <3>2, PutEntry, SMTT(40)
    <3>4. ss[s].package = q
      BY <3>2, Distinct
    <3>5. AtHome(ps, ss, s) /\ t = Own(ps, q, n)
      BY <1>6, <3>2, <3>4 DEF Own
    <3>6. QED
      BY <1>0, <3>3, <3>4, <3>5 DEF AtHome
  <2>6. QED
    BY <2>3, <2>4, <2>5
<1>9. QED
  BY <1>0, <1>3, <1>7, <1>8 DEF Sound

-----------------------------------------------------------------------------
(* What the steps of the REPL do to packages and symbols.                  *)
Interns == \E q, n : Intern(Ensured(packages, q), q, n)

NoChange == UNCHANGED <<packages, symbols>>

Changes ==
  NoChange \/ Interns \/ (\E n : MakeUninterned(n)) \/ (\E s \in DOMAIN symbols : Export(s))

LEMMA ReadChanges ==
  ASSUME ReaderStep
  PROVE  Changes
<1>1. CASE ReadExpr
  <2>1. ASSUME NEW i, IsToken(i), ReadToken(i, Token(i)) PROVE Changes
    BY <2>1 DEF ReadToken, ReadSymbol, Changes, Interns, NoChange
  <2>2. ASSUME NEW i, ReadUninterned(i + 2, Token(i + 2)) PROVE Changes
    BY <2>2 DEF ReadUninterned, Changes
  <2>3. ASSUME NEW i, ReadOther(i) PROVE Changes
    BY <2>3 DEF ReadOther, Changes, NoChange
  <2>4. QED
    BY <1>1, <2>1, <2>2, <2>3 DEF ReadExpr
<1>2. CASE ReadList
  BY <1>2 DEF ReadList, Changes, NoChange
<1>3. CASE Resume
  BY <1>3 DEF Resume, Changes, NoChange
<1>4. QED
  BY <1>1, <1>2, <1>3 DEF ReaderStep

LEMMA NextChanges ==
  ASSUME Shaped(packages), [Next]_vars
  PROVE  Changes
<1>1. CASE TypeLine
  BY <1>1 DEF TypeLine, Collect, Hand, Begin, Changes, NoChange
<1>2. CASE TypeMore
  BY <1>2 DEF TypeMore, Collect, Hand, Begin, Changes, NoChange
<1>3. CASE EndOfInput
  BY <1>3 DEF EndOfInput, Hand, Begin, Changes, NoChange
<1>4. CASE NextForm
  BY <1>4 DEF NextForm, Changes, NoChange
<1>5. CASE Read
  BY <1>5, ReadChanges DEF Read
<1>6. CASE Switch
  BY <1>6 DEF Switch, Changes, NoChange
<1>7. CASE Evaluate
  <2>1. ASSUME NEW p \in DOMAIN packages PROVE Ensured(packages, p) = packages
    BY DEF Ensured, Shaped
  <2>2. ASSUME NEW p \in DOMAIN packages, NEW n, Intern(packages, p, n) PROVE Interns
    BY <2>1, <2>2 DEF Interns
  <2>3. QED
    BY <1>7, <2>2 DEF Evaluate, Changes, NoChange
<1>8. CASE EvaluationFails
  BY <1>8 DEF EvaluationFails, Changes, NoChange
<1>9. CASE Finish
  BY <1>9 DEF Finish, Changes, NoChange
<1>10. CASE UNCHANGED vars
  BY <1>10 DEF vars, Changes, NoChange
<1>11. QED
  BY <1>1, <1>2, <1>3, <1>4, <1>5, <1>6, <1>7, <1>8, <1>9, <1>10 DEF Next

(* Each of them keeps the invariant, and the names.                        *)
LEMMA ChangesSound ==
  ASSUME Sound(packages, symbols), Changes
  PROVE  Sound(packages', symbols') /\ Stable(packages, symbols, packages', symbols')
<1>1. CASE NoChange
  BY <1>1 DEF NoChange, Stable
<1>2. ASSUME NEW q, NEW n, Intern(Ensured(packages, q), q, n)
      PROVE  Sound(packages', symbols') /\ Stable(packages, symbols, packages', symbols')
  <2>1. PICK es : es = Ensured(packages, q)
    OBVIOUS
  <2>2. Shaped(packages) /\ Numbered(symbols)
    BY DEF Sound
  <2>3. Wider(packages, q, es)
    BY <2>1, <2>2, EnsuredIs
  <2>4. CASE Found(es, q, n) # 0
    <3>1. packages' = es /\ symbols' = symbols
      BY <1>2, <2>1, <2>4 DEF Intern
    <3>2. QED
      BY <2>3, <3>1, WiderSound
  <2>5. CASE Found(es, q, n) = 0
    <3>1. PICK x : x = [name |-> n, package |-> q]
      OBVIOUS
    <3>2. symbols' = Append(symbols, x) /\ packages' = Entered(es, q, n, Len(symbols) + 1)
      BY <1>2, <2>1, <2>5, <3>1 DEF Intern
    <3>3. x.name = n /\ x.package = q
      BY <3>1
    <3>4. OneLonger(symbols, x, symbols')
      BY <2>2, <3>2, Appended
    <3>5. QED
      BY <2>3, <2>5, <3>2, <3>3, <3>4, EnteredSound
  <2>6. QED
    BY <2>4, <2>5
<1>3. ASSUME NEW n, MakeUninterned(n)
      PROVE  Sound(packages', symbols') /\ Stable(packages, symbols, packages', symbols')
  <2>1. PICK x : x = [name |-> n, package |-> NoPackage]
    OBVIOUS
  <2>2. symbols' = Append(symbols, x) /\ packages' = packages /\ x.package = NoPackage
    BY <1>3, <2>1 DEF MakeUninterned
  <2>3. Numbered(symbols)
    BY DEF Sound
  <2>4. OneLonger(symbols, x, symbols')
    BY <2>2, <2>3, Appended
  <2>5. QED
    BY <2>2, <2>4, UninternedSound
<1>4. ASSUME NEW s \in DOMAIN symbols, Export(s)
      PROVE  Sound(packages', symbols') /\ Stable(packages, symbols, packages', symbols')
  <2>1. PICK q, n : q = Home(s) /\ n = symbols[s].name
    OBVIOUS
  <2>2. /\ packages' = [packages EXCEPT ![q].external = Put(@, n, s)] /\ symbols' = symbols
        /\ q = IF symbols[s].package = NoPackage THEN User ELSE symbols[s].package
    BY <1>4, <2>1 DEF Export, Home
  <2>3. QED
    BY <2>1, <2>2, ExportSound
<1>5. QED
  BY <1>1, <1>2, <1>3, <1>4 DEF Changes, Interns

LEMMA InitSound ==
  ASSUME PackageInit
  PROVE  Sound(packages, symbols)
<1>1. Shaped(packages)
  BY Distinct DEF PackageInit, Shaped, EmptyPackage
<1>2. symbols = <<[name |-> <<"QUOTE">>, package |-> CL], [name |-> <<"FUNCTION">>, package |-> CL]>>
  BY DEF PackageInit
<1>3. /\ DOMAIN symbols = {1, 2}
      /\ symbols[1].name = <<"QUOTE">> /\ symbols[1].package = CL
      /\ symbols[2].name = <<"FUNCTION">> /\ symbols[2].package = CL
  BY <1>2
<1>4. Numbered(symbols)
  <2>1. symbols[1] \in ToSet(symbols) /\ symbols[2] \in ToSet(symbols)
    BY <1>3 DEF ToSet
  <2>2. symbols = <<symbols[1], symbols[2]>>
    BY <1>2
  <2>3. ASSUME NEW S, NEW x \in S, NEW y \in S PROVE <<x, y>> \in Seq(S)
    OBVIOUS
  <2>4. QED
    BY <2>1, <2>2, <2>3 DEF Numbered
<1>5. CL \in DOMAIN packages /\ packages[CL].external = Put(Put(<<>>, <<"QUOTE">>, 1), <<"FUNCTION">>, 2)
  <2>1. /\ packages[CL] = [EmptyPackage EXCEPT !.external = Put(Put(<<>>, <<"QUOTE">>, 1), <<"FUNCTION">>, 2)]
        /\ CL \in DOMAIN packages
    BY Distinct DEF PackageInit, QUOTE, FUNCTION
  <2>2. DOMAIN EmptyPackage = {"external", "internal", "use"}
    BY DEF EmptyPackage
  <2>3. QED
    BY <2>1, <2>2
<1>6. Own(packages, CL, <<"QUOTE">>) = 1 /\ Own(packages, CL, <<"FUNCTION">>) = 2
  <2>1. <<"QUOTE">> # <<"FUNCTION">>
    OBVIOUS
  <2>2. QED
    BY <1>5, <2>1, PutEntry DEF Own
<1>7. QED
  BY <1>1, <1>3, <1>4, <1>5, <1>6 DEF Sound, AllAtHome, AtHome, OnePerName

(* Whatever is read, interned and exported, a name that denotes a symbol   *)
(* in a package keeps it, unless a symbol without a package takes it over  *)
(* (ls_intern_sym, bi_export).                                             *)
THEOREM NamesKeepTheirSymbols == Spec => NameStep
<1> DEFINE Inv == Sound(packages, symbols)
<1>1. Init => Inv
  BY InitSound DEF Init
<1>2. Inv /\ [Next]_vars => Inv' /\ NamesStable
  <2> SUFFICES ASSUME Inv, [Next]_vars PROVE Inv' /\ NamesStable
    OBVIOUS
  <2>1. Changes
    BY NextChanges DEF Sound
  <2>2. Sound(packages', symbols') /\ Stable(packages, symbols, packages', symbols')
    BY <2>1, ChangesSound
  <2>3. QED
    BY <2>2 DEF Stable, NamesStable
<1>3. QED
  BY <1>1, <1>2, PTL DEF Spec, NameStep

-----------------------------------------------------------------------------
(* Texts, and the loops that scan them.                                    *)
Texts == Seq(Characters)

USE DEF Texts

LEMMA SeekIs ==
  ASSUME NEW t \in Texts, NEW i \in 0..Len(t)+1, NEW S, NEW j, j = Seek(t, i, S)
  PROVE  /\ j \in i..Len(t)+1
         /\ j <= Len(t) => t[j] \in S
         /\ \A k \in i..j-1 : t[k] \notin S
<1> DEFINE P == {k \in i..Len(t)+1 : k <= Len(t) => t[k] \in S}
<1>1. Len(t) \in Nat /\ P \subseteq Nat /\ Len(t) + 1 \in P
  OBVIOUS
<1>2. PICK l \in P : \A k \in P : l <= k
  <2> HIDE DEF P
  <2>1. QED
    BY <1>1, Least
<1>3. ASSUME NEW k \in i..l-1 PROVE t[k] \notin S
  <2>1. k \notin P /\ k \in i..Len(t)+1
    BY <1>1, <1>2, <1>3
  <2>2. QED
    BY <2>1
<1>4. l \in i..Len(t)+1 /\ (l <= Len(t) => t[l] \in S)
  BY <1>2
<1> HIDE DEF P
<1>5. \E k \in i..Len(t)+1 : (k <= Len(t) => t[k] \in S) /\ \A h \in i..k-1 : t[h] \notin S
  BY <1>3, <1>4
<1>6. QED
  BY <1>5 DEF Seek

LEMMA AfterLineIs ==
  ASSUME NEW t \in Texts, NEW i \in 0..Len(t)
  PROVE  AfterLine(t, i) \in i+1..Len(t)+1
<1>1. PICK j : j = Seek(t, i, {"\n"})
  OBVIOUS
<1>2. j \in i..Len(t)+1 /\ Len(t) \in Nat
  BY <1>1, SeekIs
<1>3. QED
  BY <1>1, <1>2 DEF AfterLine

LEMMA SeekOnly ==
  ASSUME NEW t \in Texts, NEW i \in 0..Len(t)+1, NEW S, NEW j \in i..Len(t)+1,
         j <= Len(t) => t[j] \in S, \A k \in i..j-1 : t[k] \notin S
  PROVE  Seek(t, i, S) = j
<1>1. PICK l : l = Seek(t, i, S)
  OBVIOUS
<1>2. l \in i..Len(t)+1 /\ (l <= Len(t) => t[l] \in S) /\ (\A k \in i..l-1 : t[k] \notin S)
  BY <1>1, SeekIs
<1>3. Len(t) \in Nat
  OBVIOUS
<1>4. ~(l < j) /\ ~(j < l)
  BY <1>2, <1>3
<1>5. QED
  BY <1>1, <1>2, <1>3, <1>4

(* A loop over the places of a text goes forward.                          *)
Forward(n, base, next, res) ==
  /\ \A i \in Nat : i \in base => res[i] \in Nat
  /\ \A i \in Nat : i \notin base => i <= n /\ next[i] \in Nat /\ next[i] > i

LEMMA TextLoop ==
  ASSUME NEW n \in Nat, NEW base, NEW next, NEW res, Forward(n, base, next, res)
  PROVE  LoopSolutions(Nat, Nat, base, next, res) # {}
<1>1. PICK m : m = [i \in Nat |-> IF i > n THEN 0 ELSE n + 1 - i]
  OBVIOUS
<1>2. m \in [Nat -> Nat] /\ \A i \in Nat : m[i] = IF i > n THEN 0 ELSE n + 1 - i
  BY <1>1
<1>3. ASSUME NEW i \in Nat, i \notin base PROVE next[i] \in Nat /\ m[next[i]] < m[i]
  <2>1. PICK j : j = next[i]
    OBVIOUS
  <2>2. i <= n /\ j \in Nat /\ j > i
    BY <1>3, <2>1 DEF Forward
  <2>3. m[i] = n + 1 - i /\ m[j] = IF j > n THEN 0 ELSE n + 1 - j
    BY <1>2, <2>2
  <2>4. QED
    BY <2>1, <2>2, <2>3
<1>4. PICK N : N = Nat
  OBVIOUS
<1>5. Loops(N, N, m, base, next, res)
  <2>1. m \in [N -> Nat]
    BY <1>2, <1>4
  <2>2. \A i \in N : i \in base => res[i] \in N
    BY <1>4 DEF Forward
  <2>3. \A i \in N : i \notin base => next[i] \in N /\ m[next[i]] < m[i]
    BY <1>3, <1>4
  <2>4. QED
    BY <2>1, <2>2, <2>3 DEF Loops
<1>6. 0 \in N
  BY <1>4
<1>7. QED
  BY <1>4, <1>5, <1>6, LoopExists

(* Induction from the end of a text.                                       *)
LEMMA FromEnd ==
  ASSUME NEW n \in Nat, NEW S,
         \A i \in 0..n+1 : (\A j \in i+1..n+1 : j \in S) => i \in S
  PROVE  \A i \in 0..n+1 : i \in S
<1>1. PICK m, D : m = [i \in 0..n+1 |-> n + 1 - i] /\ D = 0..n+1
  OBVIOUS
<1>2. m \in [D -> Nat] /\ \A i \in D : m[i] = n + 1 - i
  BY <1>1
<1>3. ASSUME NEW i \in D, \A j \in D : m[j] < m[i] => j \in S PROVE i \in S
  <2>1. \A j \in i+1..n+1 : j \in D /\ m[j] < m[i]
    BY <1>1, <1>2
  <2>2. QED
    BY <1>1, <1>3, <2>1
<1>4. D \subseteq S
  BY <1>2, <1>3, ByMeasure
<1>5. QED
  BY <1>1, <1>4

LEMMA StringEndIs ==
  ASSUME NEW t \in Texts, NEW i \in Nat
  PROVE  StringEnd(t, i) = IF i > Len(t) THEN 0
                           ELSE IF t[i] = "\"" THEN i + 1
                           ELSE IF t[i] = "\\" THEN StringEnd(t, i + 2) ELSE StringEnd(t, i + 1)
<1> DEFINE base == {j \in Nat : j > Len(t) \/ t[j] = "\""}
           next == [j \in Nat |-> IF t[j] = "\\" THEN j + 2 ELSE j + 1]
           res == [j \in Nat |-> IF j > Len(t) THEN 0 ELSE j + 1]
           Body(h, j) == IF j > Len(t) THEN 0
                         ELSE IF t[j] = "\"" THEN j + 1
                         ELSE IF t[j] = "\\" THEN h[j + 2] ELSE h[j + 1]
<1>1. Len(t) \in Nat
  OBVIOUS
<1>2. Forward(Len(t), base, next, res)
  <2>1. ASSUME NEW j \in Nat PROVE res[j] \in Nat
    BY <1>1
  <2>2. ASSUME NEW j \in Nat, j \notin base PROVE j <= Len(t) /\ next[j] \in Nat /\ next[j] > j
    <3>0. ~(j > Len(t))
      BY <2>2
    <3>1. j <= Len(t) /\ next[j] = IF t[j] = "\\" THEN j + 2 ELSE j + 1
      BY <1>1, <3>0
    <3>2. QED
      BY <3>1
  <2> HIDE DEF base, next, res
  <2>3. QED
    BY <2>1, <2>2 DEF Forward
<1>3. PICK f \in [Nat -> Nat] : \A j \in Nat : f[j] = IF j \in base THEN res[j] ELSE f[next[j]]
  <2> HIDE DEF base, next, res
  <2>1. LoopSolutions(Nat, Nat, base, next, res) # {}
    BY <1>1, <1>2, TextLoop
  <2>2. QED
    BY <2>1 DEF LoopSolutions
<1>4. \A j \in Nat : f[j] = Body(f, j)
  BY <1>3
<1>5. f = [j \in Nat |-> Body(f, j)]
  <2> HIDE DEF Body
  <2>1. QED
    BY <1>3, <1>4
<1> DEFINE E == CHOOSE end : end = [j \in Nat |-> Body(end, j)]
<1>6. E = [j \in Nat |-> Body(E, j)]
  BY <1>5
<1>7. StringEnd(t, i) = E[i] /\ StringEnd(t, i + 1) = E[i + 1] /\ StringEnd(t, i + 2) = E[i + 2]
  BY DEF StringEnd
<1> HIDE DEF E
<1>8. E[i] = Body(E, i)
  BY <1>6
<1>9. QED
  BY <1>7, <1>8

(* The end of a comment is after its start, inside the text.               *)
LEMMA CommentEndIs ==
  ASSUME NEW t \in Texts, NEW i \in 0..Len(t)+1
  PROVE  CommentEnd(t, i) \in i..Len(t)+1
<1> DEFINE D == Nat \X Nat
           n == Len(t)
           Body(h, from) ==
             LET j == from[1]
                 depth == from[2]
             IN  IF depth = 0 \/ j > Len(t) THEN j
                 ELSE IF t[j] = "#" /\ At(t, j + 1) = "|" THEN h[<<j + 2, depth + 1>>]
                 ELSE IF t[j] = "|" /\ At(t, j + 1) = "#" THEN h[<<j + 2, depth - 1>>]
                 ELSE h[<<j + 1, depth>>]
           base == {x \in D : x[2] = 0 \/ x[1] > n}
           Pass(j, depth) == IF t[j] = "#" /\ At(t, j + 1) = "|" THEN <<j + 2, depth + 1>>
                             ELSE IF t[j] = "|" /\ At(t, j + 1) = "#" THEN <<j + 2, depth - 1>>
                             ELSE <<j + 1, depth>>
           next == [x \in D |-> Pass(x[1], x[2])]
           res == [x \in D |-> x[1]]
           m == [x \in D |-> IF x[1] > n THEN 0 ELSE n + 1 - x[1]]
<1>1. n \in Nat /\ n = Len(t)
  OBVIOUS
<1>2. ASSUME NEW j \in Nat, NEW depth \in Nat
      PROVE  /\ <<j, depth>> \in D /\ res[<<j, depth>>] = j
             /\ next[<<j, depth>>] = Pass(j, depth) /\ m[<<j, depth>>] = IF j > n THEN 0 ELSE n + 1 - j
             /\ <<j, depth>> \in base <=> depth = 0 \/ j > n
  OBVIOUS
<1>3. ASSUME NEW j \in Nat, NEW depth \in Nat, depth # 0, ~(j > n)
      PROVE  \E k \in j+1..n+1, d \in Nat : Pass(j, depth) = <<k, d>>
  <2>1. j <= n /\ depth + 1 \in Nat /\ depth - 1 \in Nat
    BY <1>1, <1>3
  <2>2. At(t, j + 1) # "eof" => j + 1 <= n
    BY <1>1 DEF At
  <2> HIDE DEF n
  <2>3. CASE t[j] = "#" /\ At(t, j + 1) = "|"
    <3>1. j + 2 \in j+1..n+1 /\ Pass(j, depth) = <<j + 2, depth + 1>>
      BY <1>1, <2>1, <2>2, <2>3
    <3>2. QED
      BY <2>1, <3>1
  <2>4. CASE ~(t[j] = "#" /\ At(t, j + 1) = "|") /\ t[j] = "|" /\ At(t, j + 1) = "#"
    <3>1. j + 2 \in j+1..n+1 /\ Pass(j, depth) = <<j + 2, depth - 1>>
      BY <1>1, <2>1, <2>2, <2>4
    <3>2. QED
      BY <2>1, <3>1
  <2>5. CASE ~(t[j] = "#" /\ At(t, j + 1) = "|") /\ ~(t[j] = "|" /\ At(t, j + 1) = "#")
    <3>1. j + 1 \in j+1..n+1 /\ Pass(j, depth) = <<j + 1, depth>>
      BY <1>1, <2>1, <2>5
    <3>2. QED
      BY <3>1
  <2>6. QED
    BY <2>3, <2>4, <2>5
<1>4. \A x \in D : \E j \in Nat, depth \in Nat : x = <<j, depth>>
  OBVIOUS
<1>5. m \in [D -> Nat]
  BY <1>1
<1>6. ASSUME NEW h, NEW j \in Nat, NEW depth \in Nat
      PROVE  Body(h, <<j, depth>>) = IF depth = 0 \/ j > n THEN j ELSE h[Pass(j, depth)]
  OBVIOUS
<1> HIDE DEF m, n, base, next, res, Pass, Body, D
<1>7. Loops(D, Nat, m, base, next, res)
  <2>1. ASSUME NEW x \in D PROVE res[x] \in Nat
    BY <1>2, <1>4
  <2>2. ASSUME NEW x \in D, x \notin base PROVE next[x] \in D /\ m[next[x]] < m[x]
    <3>1. PICK j \in Nat, depth \in Nat : x = <<j, depth>>
      BY <1>4
    <3>2. depth # 0 /\ ~(j > n)
      BY <1>2, <2>2, <3>1
    <3>3. PICK k \in j+1..n+1, d \in Nat : Pass(j, depth) = <<k, d>>
      BY <1>3, <3>2
    <3>4. k \in Nat /\ k > j
      BY <1>1, <3>3
    <3>5. next[x] = <<k, d>> /\ m[x] = n + 1 - j
      BY <1>2, <3>1, <3>2, <3>3
    <3>6. <<k, d>> \in D /\ m[<<k, d>>] = IF k > n THEN 0 ELSE n + 1 - k
      BY <1>2, <3>4
    <3>7. m[<<k, d>>] < m[x]
      BY <1>1, <3>2, <3>4, <3>5, <3>6
    <3>8. QED
      BY <3>5, <3>6, <3>7
  <2>3. QED
    BY <1>5, <2>1, <2>2 DEF Loops
<1>8. PICK f \in [D -> Nat] : \A x \in D : f[x] = IF x \in base THEN res[x] ELSE f[next[x]]
  <2>1. 0 \in Nat
    OBVIOUS
  <2>2. LoopSolutions(D, Nat, base, next, res) # {}
    BY <1>7, <2>1, LoopExists
  <2>3. QED
    BY <2>2 DEF LoopSolutions
<1>9. ASSUME NEW x \in D PROVE f[x] = Body(f, x)
  <2>1. PICK j \in Nat, depth \in Nat : x = <<j, depth>>
    BY <1>4
  <2>2. Body(f, x) = IF depth = 0 \/ j > n THEN j ELSE f[Pass(j, depth)]
    BY <1>6, <2>1
  <2>3. f[x] = IF x \in base THEN res[x] ELSE f[next[x]]
    BY <1>8
  <2>4. QED
    BY <1>2, <2>1, <2>2, <2>3
<1>10. f = [x \in D |-> Body(f, x)]
  BY <1>8, <1>9
<1>11. PICK e : e = [x \in D |-> Body(e, x)] /\ CommentEnd(t, i) = e[<<i, 1>>]
  <2> DEFINE E == CHOOSE end : end = [x \in D |-> Body(end, x)]
  <2>1. E = [x \in D |-> Body(E, x)]
    BY <1>10
  <2>2. CommentEnd(t, i) = E[<<i, 1>>]
    BY DEF CommentEnd, Body, D
  <2> HIDE DEF E
  <2>3. QED
    BY <2>1, <2>2
<1>12. ASSUME NEW j \in Nat, NEW depth \in Nat
       PROVE  e[<<j, depth>>] = IF depth = 0 \/ j > n THEN j ELSE e[Pass(j, depth)]
  <2>1. e[<<j, depth>>] = Body(e, <<j, depth>>)
    BY <1>2, <1>11
  <2>2. QED
    BY <1>6, <2>1
<1> DEFINE S == {j \in 0..n+1 : \A depth \in Nat : e[<<j, depth>>] \in j..n+1}
<1>13. ASSUME NEW j \in 0..n+1, \A k \in j+1..n+1 : k \in S PROVE j \in S
  <2>1. SUFFICES ASSUME NEW depth \in Nat PROVE e[<<j, depth>>] \in j..n+1
    OBVIOUS
  <2>2. j \in Nat
    BY <1>1
  <2>3. CASE depth = 0 \/ j > n
    <3>1. e[<<j, depth>>] = j
      BY <1>12, <2>2, <2>3
    <3>2. QED
      BY <1>1, <3>1
  <2>4. CASE depth # 0 /\ ~(j > n)
    <3>1. PICK k \in j+1..n+1, d \in Nat : Pass(j, depth) = <<k, d>>
      BY <1>3, <2>2, <2>4
    <3>2. e[<<j, depth>>] = e[<<k, d>>]
      BY <1>12, <2>2, <2>4, <3>1
    <3>3. e[<<k, d>>] \in k..n+1
      BY <1>13, <3>1
    <3>4. QED
      BY <1>1, <3>1, <3>2, <3>3
  <2>5. QED
    BY <2>3, <2>4
<1>14. i \in S
  <2> HIDE DEF S
  <2>1. QED
    BY <1>1, <1>13, FromEnd
<1>15. QED
  BY <1>1, <1>11, <1>14

LEMMA AtIs ==
  ASSUME NEW t, NEW i
  PROVE  /\ i <= Len(t) => At(t, i) = t[i]
         /\ At(t, i) # "eof" => i <= Len(t) /\ At(t, i) = t[i]
BY Zenon DEF At

(* The passes of Skip, and of FormStart, one character or comment at a time. *)
Skipping(t, h, j) ==
  IF At(t, j) \in Blanks THEN h[j + 1]
  ELSE IF At(t, j) = ";" THEN h[AfterLine(t, j)]
  ELSE IF At(t, j) = "#" /\ At(t, j + 1) = "|" THEN h[CommentEnd(t, j + 2)]
  ELSE j

LEMMA SkipIs ==
  ASSUME NEW t \in Texts
  PROVE  \E h : (\A j \in Nat : h[j] = Skipping(t, h, j)) /\ \A j \in Nat : Skip(t, j) = h[j]
<1> DEFINE Stop(j) == At(t, j) \notin Blanks /\ At(t, j) # ";" /\ ~(At(t, j) = "#" /\ At(t, j + 1) = "|")
           To(j) == IF At(t, j) \in Blanks THEN j + 1 ELSE IF At(t, j) = ";" THEN AfterLine(t, j)
                    ELSE CommentEnd(t, j + 2)
           base == {j \in Nat : Stop(j)}
           next == [j \in Nat |-> To(j)]
           res == [j \in Nat |-> j]
<1>1. Len(t) \in Nat
  OBVIOUS
<1>2. ASSUME NEW j \in Nat, ~Stop(j) PROVE j <= Len(t) /\ To(j) \in Nat /\ To(j) > j
  <2>1. j <= Len(t) /\ (At(t, j + 1) = "|" => j + 1 <= Len(t))
    BY <1>1, <1>2 DEF At, Blanks
  <2>2. CASE At(t, j) \in Blanks
    BY <2>1, <2>2
  <2>3. CASE At(t, j) \notin Blanks /\ At(t, j) = ";"
    <3>1. j \in 0..Len(t)
      BY <1>1, <2>1
    <3>2. AfterLine(t, j) \in j+1..Len(t)+1
      BY <3>1, AfterLineIs
    <3>3. To(j) = AfterLine(t, j)
      BY <2>3
    <3> HIDE DEF To
    <3>4. QED
      BY <1>1, <2>1, <3>2, <3>3
  <2>4. CASE At(t, j) \notin Blanks /\ At(t, j) # ";"
    <3>0. At(t, j + 1) = "|"
      BY <1>2, <2>4
    <3>1. At(t, j + 1) = "|" /\ j + 2 \in 0..Len(t)+1
      BY <1>1, <2>1, <3>0
    <3>2. CommentEnd(t, j + 2) \in j+2..Len(t)+1
      BY <3>1, CommentEndIs
    <3>3. To(j) = CommentEnd(t, j + 2)
      BY <2>4
    <3> HIDE DEF To
    <3>4. QED
      BY <1>1, <2>1, <3>2, <3>3
  <2>5. QED
    BY <2>2, <2>3, <2>4
<1>3. ASSUME NEW j \in Nat
      PROVE  (j \in base <=> Stop(j)) /\ next[j] = To(j) /\ res[j] = j
  OBVIOUS
<1>4. ASSUME NEW h, NEW j \in Nat PROVE Skipping(t, h, j) = IF Stop(j) THEN j ELSE h[To(j)]
  BY DEF Skipping
<1> HIDE DEF Stop, To, base, next, res
<1>5. Forward(Len(t), base, next, res)
  BY <1>2, <1>3 DEF Forward
<1>6. PICK f \in [Nat -> Nat] : \A j \in Nat : f[j] = IF j \in base THEN res[j] ELSE f[next[j]]
  <2>1. LoopSolutions(Nat, Nat, base, next, res) # {}
    BY <1>1, <1>5, TextLoop
  <2>2. QED
    BY <2>1 DEF LoopSolutions
<1>7. ASSUME NEW j \in Nat PROVE f[j] = Skipping(t, f, j)
  <2>1. Skipping(t, f, j) = IF Stop(j) THEN j ELSE f[To(j)]
    BY <1>4
  <2>2. QED
    BY <1>3, <1>6, <2>1
<1>8. f = [j \in Nat |-> Skipping(t, f, j)]
  BY <1>6, <1>7
<1> DEFINE E == CHOOSE skip : skip = [j \in Nat |-> Skipping(t, skip, j)]
<1>9. E = [j \in Nat |-> Skipping(t, E, j)]
  BY <1>8
<1>10. ASSUME NEW j \in Nat PROVE Skip(t, j) = E[j]
  BY DEF Skip, Skipping
<1> HIDE DEF E
<1>11. ASSUME NEW j \in Nat PROVE E[j] = Skipping(t, E, j)
  BY <1>9
<1>12. QED
  BY <1>10, <1>11

(* In a file FormStart passes over comments as well.                       *)
Starting(t, file, h, j) ==
  IF At(t, j) \in Blanks THEN h[j + 1]
  ELSE IF file /\ At(t, j) = ";" THEN h[Seek(t, j, {"\n"})]
  ELSE j

LEMMA FormStartIs ==
  ASSUME text \in Texts
  PROVE  \E h : (\A j \in Nat : h[j] = Starting(text, source = "file", h, j)) /\ FormStart = h[pos]
<1>0. PICK t, file : t = text /\ file = (source = "file")
  OBVIOUS
<1> DEFINE Stop(j) == At(t, j) \notin Blanks /\ ~(file /\ At(t, j) = ";")
           To(j) == IF At(t, j) \in Blanks THEN j + 1 ELSE Seek(t, j, {"\n"})
           base == {j \in Nat : Stop(j)}
           next == [j \in Nat |-> To(j)]
           res == [j \in Nat |-> j]
<1>1. Len(t) \in Nat /\ t \in Texts
  BY <1>0
<1>2. ASSUME NEW j \in Nat, ~Stop(j) PROVE j <= Len(t) /\ To(j) \in Nat /\ To(j) > j
  <2>1. j <= Len(t)
    BY <1>1, <1>2 DEF At, Blanks
  <2>2. CASE At(t, j) \in Blanks
    BY <2>1, <2>2
  <2>3. CASE At(t, j) \notin Blanks
    <3>0. At(t, j) = ";"
      BY <1>2, <2>3
    <3>7. j \in 0..Len(t)+1
      BY <1>1, <2>1
    <3>8. t[j] = ";"
      BY <2>1, <3>0, AtIs, Zenon
    <3>1. j \in 0..Len(t)+1 /\ t[j] = ";"
      BY <3>7, <3>8
    <3>2. PICK k : k = Seek(t, j, {"\n"})
      OBVIOUS
    <3>6. k \in j..Len(t)+1 /\ (k <= Len(t) => t[k] \in {"\n"})
      BY <1>1, <3>1, <3>2, SeekIs
    <3>3. k \in j..Len(t)+1 /\ (k <= Len(t) => t[k] = "\n")
      BY <3>6
    <3>4. k # j
      BY <2>1, <3>1, <3>3
    <3>5. To(j) = k
      BY <2>3, <3>2
    <3> HIDE DEF To
    <3>9. QED
      BY <1>1, <2>1, <3>3, <3>4, <3>5
  <2>4. QED
    BY <2>2, <2>3
<1>3. ASSUME NEW j \in Nat
      PROVE  (j \in base <=> Stop(j)) /\ next[j] = To(j) /\ res[j] = j
  OBVIOUS
<1>4. ASSUME NEW h, NEW j \in Nat PROVE Starting(t, file, h, j) = IF Stop(j) THEN j ELSE h[To(j)]
  BY DEF Starting
<1> HIDE DEF Stop, To, base, next, res
<1>5. Forward(Len(t), base, next, res)
  BY <1>2, <1>3 DEF Forward
<1>6. PICK f \in [Nat -> Nat] : \A j \in Nat : f[j] = IF j \in base THEN res[j] ELSE f[next[j]]
  <2>1. LoopSolutions(Nat, Nat, base, next, res) # {}
    BY <1>1, <1>5, TextLoop
  <2>2. QED
    BY <2>1 DEF LoopSolutions
<1>7. ASSUME NEW j \in Nat PROVE f[j] = Starting(t, file, f, j)
  <2>1. Starting(t, file, f, j) = IF Stop(j) THEN j ELSE f[To(j)]
    BY <1>4
  <2>2. QED
    BY <1>3, <1>6, <2>1
<1>8. f = [j \in Nat |-> Starting(text, source = "file", f, j)]
  BY <1>0, <1>6, <1>7
<1> DEFINE E == CHOOSE start : start = [j \in Nat |-> Starting(text, source = "file", start, j)]
<1>9. E = [j \in Nat |-> Starting(text, source = "file", E, j)]
  BY <1>8
<1>10. FormStart = E[pos]
  BY DEF FormStart, Starting
<1> HIDE DEF E
<1>11. ASSUME NEW j \in Nat PROVE E[j] = Starting(text, source = "file", E, j)
  BY <1>9
<1>12. QED
  BY <1>10, <1>11

(* Scanning goes forward and stops inside the text.                        *)
LEMMA SkipRange ==
  ASSUME NEW t \in Texts, NEW i \in 0..Len(t)+1
  PROVE  Skip(t, i) \in i..Len(t)+1
<1>1. PICK h : (\A j \in Nat : h[j] = Skipping(t, h, j)) /\ \A j \in Nat : Skip(t, j) = h[j]
  BY SkipIs
<1>0. PICK n \in Nat : n = Len(t)
  OBVIOUS
<1> DEFINE S == {j \in 0..n+1 : h[j] \in j..n+1}
<1>2. ASSUME NEW j \in 0..n+1, \A k \in j+1..n+1 : k \in S PROVE j \in S
  <2>1. j \in Nat /\ h[j] = Skipping(t, h, j)
    BY <1>1
  <2>2. CASE h[j] = j
    BY <2>2
  <2>3. ASSUME NEW k \in j+1..n+1, h[j] = h[k] PROVE j \in S
    BY <1>2, <2>3
  <2>4. CASE At(t, j) \in Blanks
    <3>1. j + 1 \in j+1..n+1
      <4>1. At(t, j) # "eof"
        BY <2>4 DEF Blanks
      <4>2. j <= Len(t)
        BY <4>1, AtIs, Zenon
      <4>3. QED
        BY <1>0, <4>2
    <3>2. QED
      BY <2>1, <2>3, <2>4, <3>1 DEF Skipping
  <2>5. CASE At(t, j) = ";"
    <3>1. j \in 0..n
      <4>1. At(t, j) # "eof"
        BY <2>5
      <4>2. j <= Len(t)
        BY <4>1, AtIs, Zenon
      <4>3. QED
        BY <1>0, <4>2
    <3>2. AfterLine(t, j) \in j+1..n+1 /\ At(t, j) \notin Blanks
      BY <1>0, <2>5, <3>1, AfterLineIs DEF Blanks
    <3>3. QED
      BY <2>1, <2>3, <2>5, <3>2 DEF Skipping
  <2>6. CASE At(t, j) = "#" /\ At(t, j + 1) = "|"
    <3>1. j + 2 \in 0..n+1
      <4>1. At(t, j + 1) # "eof"
        BY <2>6
      <4>2. j + 1 <= Len(t)
        BY <4>1, AtIs, Zenon
      <4>3. QED
        BY <1>0, <4>2
    <3>2. CommentEnd(t, j + 2) \in j+1..n+1 /\ At(t, j) \notin Blanks
      BY <1>0, <2>6, <3>1, CommentEndIs DEF Blanks
    <3>3. QED
      BY <2>1, <2>3, <2>6, <3>2 DEF Skipping
  <2>7. QED
    BY <2>1, <2>2, <2>4, <2>5, <2>6 DEF Skipping
<1>3. \A j \in 0..n+1 : j \in S
  <2> HIDE DEF S
  <2>1. QED
    BY <1>2, FromEnd
<1>4. QED
  BY <1>0, <1>1, <1>3

-----------------------------------------------------------------------------
(* The scan of the REPL.                                                   *)
States == [depth : Int, in_str : BOOLEAN]

(* What it makes of a place: where it goes on, and what it counts there.   *)
Onward(t, i, s) ==
  IF s THEN IF t[i] = "\\" /\ i < Len(t) THEN <<i + 2, TRUE>> ELSE <<i + 1, t[i] # "\"">>
  ELSE IF t[i] = ";" THEN <<AfterLine(t, i), FALSE>>
  ELSE IF t[i] = "#" /\ At(t, i + 1) = "\\" /\ i + 1 < Len(t) THEN <<i + 3, FALSE>>
  ELSE <<i + 1, t[i] = "\"">>

Counted(t, i, s) ==
  IF s \/ (t[i] = "#" /\ At(t, i + 1) = "\\" /\ i + 1 < Len(t)) THEN 0 ELSE Nesting(t[i])

LEMMA OnwardIs ==
  ASSUME NEW t \in Texts, NEW i \in 0..Len(t), NEW s \in BOOLEAN
  PROVE  Onward(t, i, s) \in (i+1..Len(t)+3) \X BOOLEAN /\ Counted(t, i, s) \in Int
<1>1. PICK a, n : a = AfterLine(t, i) /\ n = Len(t)
  OBVIOUS
<1>2. n \in Nat /\ i \in 0..n /\ a \in i+1..n+1
  BY <1>1, AfterLineIs
<1>3. i + 1 \in i+1..n+3 /\ i + 2 \in i+1..n+3 /\ i + 3 \in i+1..n+3 /\ a \in i+1..n+3
  BY <1>2
<1>4. Counted(t, i, s) \in Int
  BY DEF Counted, Nesting
<1>5. Onward(t, i, s) \in (i+1..n+3) \X BOOLEAN
  BY <1>1, <1>3 DEF Onward
<1>6. QED
  BY <1>1, <1>4, <1>5

Scanned(t, f, i, s) ==
  IF i > Len(t) THEN [depth |-> 0, in_str |-> s] ELSE Deeper(f[Onward(t, i, s)], Counted(t, i, s))

LEMMA DeeperNone ==
  ASSUME NEW r \in States
  PROVE  Deeper(r, 0) = r /\ \A n \in Int : Deeper(r, n) \in States
BY DEF Deeper, States

LEMMA ScanExists ==
  ASSUME NEW t \in Texts
  PROVE  \E f \in [Nat \X BOOLEAN -> States] :
           \A i \in Nat, s \in BOOLEAN : f[<<i, s>>] = Scanned(t, f, i, s)
<1> DEFINE D == Nat \X BOOLEAN
           n == Len(t)
           m == [x \in D |-> IF x[1] > n THEN 0 ELSE n + 1 - x[1]]
           base == {x \in D : x[1] > n}
           res == [x \in D |-> [depth |-> 0, in_str |-> x[2]]]
           next == [x \in D |-> Onward(t, x[1], x[2])]
           g == [x \in D |-> [r \in States |-> Deeper(r, Counted(t, x[1], x[2]))]]
<1>1. n \in Nat
  OBVIOUS
<1>2. \A i \in Nat, s \in BOOLEAN :
        /\ <<i, s>> \in D /\ (<<i, s>> \in base <=> i > n) /\ res[<<i, s>>] = [depth |-> 0, in_str |-> s]
        /\ next[<<i, s>>] = Onward(t, i, s) /\ m[<<i, s>>] = IF i > n THEN 0 ELSE n + 1 - i
        /\ \A r \in States : g[<<i, s>>][r] = Deeper(r, Counted(t, i, s))
  OBVIOUS
<1>3. \A x \in D : \E i \in Nat, s \in BOOLEAN : x = <<i, s>>
  OBVIOUS
<1>4. m \in [D -> Nat]
  BY <1>1
<1>5. n = Len(t)
  OBVIOUS
<1> HIDE DEF m, base, res, next, g, D, n
<1>11. Descends(D, States, m, base, next, res, g)
  <2>1. ASSUME NEW x \in D, x \in base PROVE res[x] \in States
    <3>1. PICK i \in Nat, s \in BOOLEAN : x = <<i, s>>
      BY <1>3
    <3>2. res[x] = [depth |-> 0, in_str |-> s]
      BY <1>2, <3>1
    <3>3. QED
      BY <3>2 DEF States
  <2>2. ASSUME NEW x \in D, x \notin base
        PROVE next[x] \in D /\ m[next[x]] < m[x] /\ \A v \in States : g[x][v] \in States
    <3>1. PICK i \in Nat, s \in BOOLEAN : x = <<i, s>>
      BY <1>3
    <3>2. <<i, s>> \notin base
      BY <2>2, <3>1
    <3>3. ~(i > n) /\ i \in 0..n
      <4>1. ~(i > n)
        BY <1>2, <3>2
      <4>2. QED
        BY <1>1, <4>1
    <3>4. Onward(t, i, s) \in (i+1..n+3) \X BOOLEAN /\ Counted(t, i, s) \in Int
      BY <1>5, <3>3, OnwardIs
    <3>5. PICK j \in i+1..n+3, r \in BOOLEAN : Onward(t, i, s) = <<j, r>>
      BY <3>4
    <3>6. j \in Nat /\ j > i
      BY <1>1, <3>5
    <3>7. next[x] = <<j, r>> /\ m[x] = n + 1 - i
      BY <1>2, <3>1, <3>3, <3>5
    <3>8. <<j, r>> \in D /\ m[<<j, r>>] = IF j > n THEN 0 ELSE n + 1 - j
      BY <1>2, <3>6
    <3>9. m[<<j, r>>] < m[x]
      BY <1>1, <3>3, <3>6, <3>7, <3>8
    <3>10. \A v \in States : g[x][v] \in States
      BY <1>2, <3>1, <3>4, DeeperNone
    <3>11. QED
      BY <3>7, <3>8, <3>9, <3>10
  <2>3. QED
    BY <1>4, <2>1, <2>2 DEF Descends
<1>6. [depth |-> 0, in_str |-> FALSE] \in States
  BY DEF States
<1>7. PICK f : f \in Solutions(D, States, base, next, res, g)
  BY <1>6, <1>11, SolutionExists
<1>8. f \in [Nat \X BOOLEAN -> States] /\ \A x \in D : f[x] = Unfolded(base, next, res, g, f, x)
  BY <1>7 DEF Solutions, D
<1>9. ASSUME NEW i \in Nat, NEW s \in BOOLEAN PROVE f[<<i, s>>] = Scanned(t, f, i, s)
  <2>1. f[<<i, s>>] = Unfolded(base, next, res, g, f, <<i, s>>)
    BY <1>2, <1>8
  <2>2. CASE i > n
    BY <1>2, <1>5, <2>1, <2>2 DEF Unfolded, Scanned
  <2>3. CASE ~(i > n)
    <3>1. f[Onward(t, i, s)] \in States
      <4>1. i \in 0..Len(t)
        BY <1>1, <1>5, <2>3
      <4>2. PICK j \in i+1..Len(t)+3, r \in BOOLEAN : Onward(t, i, s) = <<j, r>>
        BY <4>1, OnwardIs
      <4>3. j \in Nat
        BY <1>1, <1>5, <4>2
      <4>4. QED
        BY <1>8, <4>2, <4>3
    <3>2. QED
      BY <1>2, <1>5, <2>1, <2>3, <3>1 DEF Unfolded, Scanned
  <2>4. QED
    BY <2>2, <2>3
<1>10. QED
  BY <1>8, <1>9

LEMMA ScanIs ==
  ASSUME NEW t \in Texts
  PROVE  /\ Scan(t) \in [Nat \X BOOLEAN -> States]
         /\ \A i \in Nat, s \in BOOLEAN : Scan(t)[<<i, s>>] = Scanned(t, Scan(t), i, s)
<1> DEFINE Body(h, from) ==
      LET i == from[1]
      IN  IF i > Len(t) THEN [depth |-> 0, in_str |-> from[2]]
          ELSE IF from[2] THEN
            IF t[i] = "\\" /\ i < Len(t) THEN h[<<i + 2, TRUE>>] ELSE h[<<i + 1, t[i] # "\"">>]
          ELSE IF t[i] = ";" THEN h[<<AfterLine(t, i), FALSE>>]
          ELSE IF t[i] = "#" /\ At(t, i + 1) = "\\" /\ i + 1 < Len(t) THEN h[<<i + 3, FALSE>>]
          ELSE IF t[i] = "\"" THEN h[<<i + 1, TRUE>>]
          ELSE Deeper(h[<<i + 1, FALSE>>], Nesting(t[i]))
<1>1. PICK f \in [Nat \X BOOLEAN -> States] : \A i \in Nat, s \in BOOLEAN : f[<<i, s>>] = Scanned(t, f, i, s)
  BY ScanExists
<1>2. ASSUME NEW q, NEW i \in Nat, NEW s \in BOOLEAN, i <= Len(t) => q[Onward(t, i, s)] \in States
      PROVE  Body(q, <<i, s>>) = Scanned(t, q, i, s)
  <2>1. CASE i > Len(t)
    BY <2>1 DEF Scanned
  <2>2. CASE ~(i > Len(t))
    <3>1. i <= Len(t)
      BY <2>2
    <3>2. Scanned(t, q, i, s) = Deeper(q[Onward(t, i, s)], Counted(t, i, s))
      BY <2>2 DEF Scanned
    <3>3. Deeper(q[Onward(t, i, s)], 0) = q[Onward(t, i, s)]
      BY <1>2, <3>1, DeeperNone
    <3>4. CASE s
      BY <2>2, <3>2, <3>3, <3>4 DEF Onward, Counted
    <3>5. CASE ~s /\ t[i] \in {";", "\""}
      <4>1. Counted(t, i, s) = 0
        BY <3>5 DEF Counted, Nesting
      <4>2. QED
        BY <2>2, <3>2, <3>3, <3>5, <4>1 DEF Onward
    <3>6. CASE ~s /\ t[i] \notin {";", "\""}
      BY <2>2, <3>2, <3>3, <3>6 DEF Onward, Counted
    <3>7. QED
      BY <3>4, <3>5, <3>6
  <2>3. QED
    BY <2>1, <2>2
<1>3. \A i \in Nat, s \in BOOLEAN : i <= Len(t) => f[Onward(t, i, s)] \in States
  <2>1. ASSUME NEW i \in Nat, NEW s \in BOOLEAN, i <= Len(t) PROVE f[Onward(t, i, s)] \in States
    <3>1. i \in 0..Len(t) /\ Len(t) \in Nat
      BY <2>1
    <3>2. PICK j \in i+1..Len(t)+3, r \in BOOLEAN : Onward(t, i, s) = <<j, r>>
      BY <3>1, OnwardIs
    <3>3. j \in Nat
      BY <3>1, <3>2
    <3>4. QED
      BY <1>1, <3>2, <3>3
  <2>2. QED
    BY <2>1
<1>4. f = [from \in Nat \X BOOLEAN |-> Body(f, from)]
  <2> HIDE DEF Body
  <2>1. ASSUME NEW x \in Nat \X BOOLEAN PROVE f[x] = Body(f, x)
    <3>1. PICK i \in Nat, s \in BOOLEAN : x = <<i, s>>
      OBVIOUS
    <3>2. Body(f, <<i, s>>) = Scanned(t, f, i, s)
      BY <1>2, <1>3
    <3>3. QED
      BY <1>1, <3>1, <3>2
  <2>2. QED
    BY <1>1, <2>1
<1>5. Scan(t) = [from \in Nat \X BOOLEAN |-> Body(Scan(t), from)]
  BY <1>4 DEF Scan
<1>6. PICK q : q = Scan(t)
  OBVIOUS
<1> HIDE DEF Body
<1>7. DOMAIN q = Nat \X BOOLEAN /\ \A x \in Nat \X BOOLEAN : q[x] = Body(q, x)
  BY <1>5, <1>6
<1> DEFINE D == Nat \X BOOLEAN
           n == Len(t)
           m == [x \in D |-> IF x[1] > n THEN 0 ELSE n + 1 - x[1]]
           S == {x \in D : q[x] \in States}
<1>8. ASSUME NEW x \in D, \A y \in D : m[y] < m[x] => y \in S PROVE x \in S
  <2>1. PICK i \in Nat, s \in BOOLEAN : x = <<i, s>>
    OBVIOUS
  <2>2. n \in Nat
    OBVIOUS
  <2>3. CASE i > n
    <3>1. q[x] = Scanned(t, q, i, s)
      BY <1>2, <1>7, <2>1, <2>2, <2>3
    <3>2. QED
      BY <2>3, <3>1 DEF Scanned, States
  <2>4. CASE ~(i > n)
    <3>1. i \in 0..Len(t)
      BY <2>2, <2>4
    <3>2. Onward(t, i, s) \in (i+1..Len(t)+3) \X BOOLEAN /\ Counted(t, i, s) \in Int
      BY <3>1, OnwardIs
    <3>3. PICK j \in i+1..Len(t)+3, r \in BOOLEAN : Onward(t, i, s) = <<j, r>>
      BY <3>2
    <3>4. j \in Nat /\ j > i
      BY <2>2, <3>3
    <3>5. <<j, r>> \in D /\ m[<<j, r>>] < m[x]
      BY <2>1, <2>2, <2>4, <3>1, <3>4
    <3>6. q[Onward(t, i, s)] \in States
      BY <1>8, <3>3, <3>5
    <3>7. q[x] = Scanned(t, q, i, s)
      BY <1>2, <1>7, <2>1, <3>6
    <3>8. q[x] = Deeper(q[Onward(t, i, s)], Counted(t, i, s))
      BY <2>4, <3>7 DEF Scanned
    <3>9. QED
      BY <3>2, <3>6, <3>8, DeeperNone
  <2>5. QED
    BY <2>3, <2>4
<1>9. \A x \in D : q[x] \in States
  <2>1. m \in [D -> Nat]
    OBVIOUS
  <2> HIDE DEF m, D, S
  <2>2. D \subseteq S
    BY <1>8, <2>1, ByMeasure
  <2>3. QED
    BY <2>2 DEF S
<1>10. ASSUME NEW i \in Nat, NEW s \in BOOLEAN PROVE q[<<i, s>>] = Scanned(t, q, i, s)
  <2>1. i <= Len(t) => q[Onward(t, i, s)] \in States
    <3>1. SUFFICES ASSUME i <= Len(t) PROVE q[Onward(t, i, s)] \in States
      OBVIOUS
    <3>2. i \in 0..Len(t) /\ Len(t) \in Nat
      BY <3>1
    <3>3. PICK j \in i+1..Len(t)+3, r \in BOOLEAN : Onward(t, i, s) = <<j, r>>
      BY <3>2, OnwardIs
    <3>4. j \in Nat
      BY <3>2, <3>3
    <3>5. QED
      BY <1>9, <3>3, <3>4
  <2>2. QED
    BY <1>2, <1>7, <2>1
<1>11. q \in [Nat \X BOOLEAN -> States]
  <2>1. q = [x \in Nat \X BOOLEAN |-> q[x]]
    BY <1>5, <1>6
  <2>2. QED
    BY <1>9, <2>1
<1>12. QED
  BY <1>6, <1>10, <1>11

HIDE DEF Texts

-----------------------------------------------------------------------------
(* What a scan passes over.                                                *)

LEMMA TextIs ==
  ASSUME NEW t \in Texts
  PROVE  Len(t) \in Nat /\ DOMAIN t = 1..Len(t)
BY DEF Texts

(* A text up to a place.                                                   *)
Cut(t, e) == SubSeq(t, 1, e - 1)

LEMMA CutIs ==
  ASSUME NEW t \in Texts, NEW e \in 1..Len(t)+1
  PROVE  /\ Cut(t, e) \in Texts /\ Len(Cut(t, e)) = e - 1
         /\ \A k \in 1..e-1 : Cut(t, e)[k] = t[k]
<1>1. PICK C : C = Characters
  OBVIOUS
<1>2. t \in Seq(C) /\ Len(t) \in Nat
  BY <1>1 DEF Texts
<1>3. SubSeq(t, 1, e - 1) \in Seq(C) /\ Len(SubSeq(t, 1, e - 1)) = e - 1
  BY <1>2
<1>4. \A k \in 1..e-1 : SubSeq(t, 1, e - 1)[k] = t[k]
  BY <1>2
<1>5. QED
  BY <1>1, <1>3, <1>4 DEF Cut, Texts

LEMMA CutAll ==
  ASSUME NEW t \in Texts
  PROVE  Cut(t, Len(t) + 1) = t
BY DEF Cut, Texts

(* One place of a scan, and its end.                                       *)
LEMMA ScanStep ==
  ASSUME NEW v \in Texts, NEW i \in 1..Len(v), NEW s \in BOOLEAN
  PROVE  Scan(v)[<<i, s>>] = Deeper(Scan(v)[Onward(v, i, s)], Counted(v, i, s))
<1>1. i \in Nat /\ ~(i > Len(v))
  BY TextIs
<1>2. QED
  BY <1>1, ScanIs DEF Scanned

LEMMA ScanEnd ==
  ASSUME NEW v \in Texts, NEW i \in Nat, i > Len(v), NEW s \in BOOLEAN
  PROVE  Scan(v)[<<i, s>>] = [depth |-> 0, in_str |-> s]
BY ScanIs DEF Scanned

(* Scanning t, wherever it ends after j, from i on gets to j, d deeper.    *)
Leads(t, i, s, j, r, d) ==
  \A e \in j..Len(t)+1 :
    Scan(Cut(t, e))[<<i, s>>] = Deeper(Scan(Cut(t, e))[<<j, r>>], d)

LEMMA LeadsSelf ==
  ASSUME NEW t \in Texts, NEW i \in 1..Len(t)+1, NEW s \in BOOLEAN
  PROVE  Leads(t, i, s, i, s, 0)
<1>1. SUFFICES ASSUME NEW e \in i..Len(t)+1
               PROVE  Scan(Cut(t, e))[<<i, s>>] = Deeper(Scan(Cut(t, e))[<<i, s>>], 0)
  BY DEF Leads
<1>2. e \in 1..Len(t)+1 /\ i \in Nat
  BY TextIs
<1>3. Scan(Cut(t, e))[<<i, s>>] \in States
  BY <1>2, CutIs, ScanIs
<1>4. QED
  BY <1>3, DeeperNone

LEMMA DeeperTwice ==
  ASSUME NEW x \in States, NEW c \in Int, NEW d \in Int
  PROVE  Deeper(Deeper(x, c), d) = Deeper(x, d + c)
BY DEF Deeper, States

LEMMA LeadsOn ==
  ASSUME NEW t \in Texts, NEW i, NEW s, NEW j, NEW r \in BOOLEAN,
         NEW k \in 1..Len(t)+1, NEW q \in BOOLEAN, NEW d \in Int, NEW c \in Int,
         j <= k, j \in Nat, Leads(t, i, s, j, r, d), Leads(t, j, r, k, q, c),
         NEW x, x = d + c
  PROVE  Leads(t, i, s, k, q, x)
<1>1. SUFFICES ASSUME NEW e \in k..Len(t)+1
               PROVE  Scan(Cut(t, e))[<<i, s>>] = Deeper(Scan(Cut(t, e))[<<k, q>>], x)
  BY DEF Leads
<1>2. PICK f : f = Scan(Cut(t, e))
  OBVIOUS
<1>3. e \in 1..Len(t)+1 /\ e \in j..Len(t)+1 /\ k \in Nat
  BY TextIs
<1>4. f[<<i, s>>] = Deeper(f[<<j, r>>], d) /\ f[<<j, r>>] = Deeper(f[<<k, q>>], c)
  BY <1>2, <1>3 DEF Leads
<1>5. f[<<k, q>>] \in States
  BY <1>2, <1>3, CutIs, ScanIs
<1>6. QED
  BY <1>2, <1>4, <1>5, DeeperTwice

(* One place.                                                              *)
Moves(t, i, s, j, r, d) ==
  \A e \in j..Len(t)+1 : Onward(Cut(t, e), i, s) = <<j, r>> /\ Counted(Cut(t, e), i, s) = d

LEMMA LeadsStep ==
  ASSUME NEW t \in Texts, NEW i \in 1..Len(t), NEW s \in BOOLEAN,
         NEW j \in i+1..Len(t)+1, NEW r \in BOOLEAN, NEW d \in Int,
         Moves(t, i, s, j, r, d)
  PROVE  Leads(t, i, s, j, r, d)
<1>1. SUFFICES ASSUME NEW e \in j..Len(t)+1
               PROVE  Scan(Cut(t, e))[<<i, s>>] = Deeper(Scan(Cut(t, e))[<<j, r>>], d)
  BY DEF Leads
<1>2. PICK v : v = Cut(t, e)
  OBVIOUS
<1>3. e \in 1..Len(t)+1 /\ i \in 1..e-1
  BY TextIs
<1>4. v \in Texts /\ i \in 1..Len(v)
  BY <1>2, <1>3, CutIs
<1>5. Onward(v, i, s) = <<j, r>> /\ Counted(v, i, s) = d
  BY <1>2 DEF Moves
<1>6. Scan(v)[<<i, s>>] = Deeper(Scan(v)[Onward(v, i, s)], Counted(v, i, s))
  BY <1>4, ScanStep
<1>7. QED
  BY <1>2, <1>5, <1>6

(* Characters by which the REPL does nothing but count parentheses.        *)
Ordinary(t, i) ==
  /\ t[i] # ";" /\ t[i] # "\""
  /\ ~(t[i] = "#" /\ i < Len(t) /\ t[i + 1] = "\\")

LEMMA OrdinaryLeads ==
  ASSUME NEW t \in Texts, NEW i \in 1..Len(t), Ordinary(t, i)
  PROVE  Leads(t, i, FALSE, i + 1, FALSE, Nesting(t[i]))
<1>1. ASSUME NEW e \in i+1..Len(t)+1
      PROVE  /\ Onward(Cut(t, e), i, FALSE) = <<i + 1, FALSE>>
             /\ Counted(Cut(t, e), i, FALSE) = Nesting(t[i])
  <2>1. PICK v : v = Cut(t, e)
    OBVIOUS
  <2>2. e \in 1..Len(t)+1 /\ i \in 1..e-1 /\ i + 1 \in Nat /\ Len(t) \in Nat
    BY TextIs
  <2>3. Len(v) = e - 1 /\ \A k \in 1..e-1 : v[k] = t[k]
    BY <2>1, <2>2, CutIs
  <2>4. v[i] = t[i]
    BY <2>2, <2>3
  <2>5. ~(v[i] = "#" /\ At(v, i + 1) = "\\" /\ i + 1 < Len(v))
    <3>1. SUFFICES ASSUME v[i] = "#", At(v, i + 1) = "\\", i + 1 < Len(v) PROVE FALSE
      OBVIOUS
    <3>2. i + 1 <= Len(v) /\ i + 1 \in 1..e-1 /\ i < Len(t)
      BY <2>2, <2>3, <3>1
    <3>3. At(v, i + 1) = v[i + 1]
      BY <3>2, AtIs, Zenon
    <3>4. t[i + 1] = "\\"
      BY <2>3, <3>1, <3>2, <3>3
    <3>5. QED
      BY <2>4, <3>1, <3>2, <3>4 DEF Ordinary
  <2>6. v[i] # ";" /\ v[i] # "\""
    BY <2>4 DEF Ordinary
  <2>7. Onward(v, i, FALSE) = <<i + 1, FALSE>>
    BY <2>5, <2>6 DEF Onward
  <2>8. Counted(v, i, FALSE) = Nesting(t[i])
    BY <2>4, <2>5 DEF Counted
  <2>9. QED
    BY <2>1, <2>7, <2>8
<1>2. Nesting(t[i]) \in Int
  BY DEF Nesting
<1>3. Moves(t, i, FALSE, i + 1, FALSE, Nesting(t[i]))
  BY <1>1 DEF Moves
<1>4. i + 1 \in i+1..Len(t)+1
  BY TextIs
<1>5. QED
  BY <1>2, <1>3, <1>4, LeadsStep

(* Characters that have a meaning in the provers' own input.                *)
DoubleQuote == "\""
Semicolon == ";"
Backslash == "\\"
Bar == "|"

(* A string opens.                                                         *)
LEMMA QuoteLeads ==
  ASSUME NEW t \in Texts, NEW i \in 1..Len(t), t[i] = DoubleQuote
  PROVE  Leads(t, i, FALSE, i + 1, TRUE, 0)
<1>1. ASSUME NEW e \in i+1..Len(t)+1
      PROVE  Onward(Cut(t, e), i, FALSE) = <<i + 1, TRUE>> /\ Counted(Cut(t, e), i, FALSE) = 0
  <2>0. Len(t) \in Nat
    BY TextIs
  <2>1. e \in 1..Len(t)+1 /\ i \in 1..e-1
    BY <2>0
  <2>2. Cut(t, e)[i] = t[i]
    BY <2>1, CutIs
  <2>3. Cut(t, e)[i] = "\""
    BY <2>2 DEF DoubleQuote
  <2>4. QED
    BY <2>3 DEF Onward, Counted, Nesting
<1>2. Moves(t, i, FALSE, i + 1, TRUE, 0)
  BY <1>1 DEF Moves
<1>3. i + 1 \in i+1..Len(t)+1
  BY TextIs
<1>4. QED
  <2>1. PICK y \in BOOLEAN, z \in BOOLEAN : y = TRUE /\ z = FALSE
    OBVIOUS
  <2>2. Moves(t, i, z, i + 1, y, 0)
    BY <1>2, <2>1
  <2>3. Leads(t, i, z, i + 1, y, 0)
    BY <1>3, <2>2, LeadsStep
  <2>4. QED
    BY <2>1, <2>3

(* Inside a string.                                                        *)
LEMMA QuotedLeads ==
  ASSUME NEW t \in Texts, NEW i \in 1..Len(t)
  PROVE  /\ t[i] = "\\" /\ i < Len(t) => Leads(t, i, TRUE, i + 2, TRUE, 0)
         /\ t[i] # "\\" => Leads(t, i, TRUE, i + 1, t[i] # "\"", 0)
<1>1. ASSUME t[i] = "\\", i < Len(t) PROVE Leads(t, i, TRUE, i + 2, TRUE, 0)
  <2>1. ASSUME NEW e \in i+2..Len(t)+1
        PROVE  Onward(Cut(t, e), i, TRUE) = <<i + 2, TRUE>> /\ Counted(Cut(t, e), i, TRUE) = 0
    <3>1. e \in 1..Len(t)+1 /\ i \in 1..e-1 /\ i < e - 1
      BY TextIs
    <3>2. Cut(t, e)[i] = "\\" /\ i < Len(Cut(t, e))
      BY <1>1, <3>1, CutIs
    <3>3. QED
      BY <3>2 DEF Onward, Counted
  <2>2. i + 2 \in i+1..Len(t)+1
    BY <1>1, TextIs
  <2>3. Moves(t, i, TRUE, i + 2, TRUE, 0)
    BY <2>1 DEF Moves
  <2>4. QED
    <3>1. PICK y \in BOOLEAN : y = TRUE
      OBVIOUS
    <3>2. Moves(t, i, y, i + 2, y, 0)
      BY <2>3, <3>1
    <3>3. Leads(t, i, y, i + 2, y, 0)
      BY <2>2, <3>2, LeadsStep
    <3>4. QED
      BY <3>1, <3>3
<1>2. ASSUME t[i] # "\\" PROVE Leads(t, i, TRUE, i + 1, t[i] # "\"", 0)
  <2>1. PICK r \in BOOLEAN : r = (t[i] # "\"")
    OBVIOUS
  <2>2. ASSUME NEW e \in i+1..Len(t)+1
        PROVE  Onward(Cut(t, e), i, TRUE) = <<i + 1, r>> /\ Counted(Cut(t, e), i, TRUE) = 0
    <3>1. e \in 1..Len(t)+1 /\ i \in 1..e-1
      BY TextIs
    <3>2. Cut(t, e)[i] = t[i]
      BY <3>1, CutIs
    <3>3. QED
      BY <1>2, <2>1, <3>2 DEF Onward, Counted
  <2>3. i + 1 \in i+1..Len(t)+1
    BY TextIs
  <2>4. Moves(t, i, TRUE, i + 1, r, 0)
    BY <2>2 DEF Moves
  <2>5. QED
    <3>1. PICK y \in BOOLEAN : y = TRUE
      OBVIOUS
    <3>2. Moves(t, i, y, i + 1, r, 0)
      BY <2>4, <3>1
    <3>3. Leads(t, i, y, i + 1, r, 0)
      BY <2>3, <3>2, LeadsStep
    <3>4. QED
      BY <2>1, <3>1, <3>3
<1>3. QED
  BY <1>1, <1>2

LEMMA CharactersDiffer ==
  /\ DoubleQuote # Backslash /\ DoubleQuote # Semicolon /\ DoubleQuote # "#" /\ Backslash # Semicolon
  /\ Backslash # "#" /\ Semicolon # "#" /\ Semicolon # "\n"
  /\ Bar # "#" /\ Bar # Semicolon
  /\ Nesting(DoubleQuote) = 0 /\ Nesting(Backslash) = 0 /\ Nesting(Semicolon) = 0
BY Zenon DEF DoubleQuote, Backslash, Semicolon, Bar, Nesting

(* The closing quote of a string is where the REPL leaves it.              *)
LEMMA StringEndStep ==
  ASSUME NEW t \in Texts, NEW i \in Nat
  PROVE  /\ i > Len(t) => StringEnd(t, i) = 0
         /\ ~(i > Len(t)) /\ t[i] = DoubleQuote => StringEnd(t, i) = i + 1
         /\ ~(i > Len(t)) /\ t[i] = Backslash => StringEnd(t, i) = StringEnd(t, i + 2)
         /\ ~(i > Len(t)) /\ t[i] # DoubleQuote /\ t[i] # Backslash => StringEnd(t, i) = StringEnd(t, i + 1)
<1>1. StringEnd(t, i) = IF i > Len(t) THEN 0
                        ELSE IF t[i] = DoubleQuote THEN i + 1
                        ELSE IF t[i] = Backslash THEN StringEnd(t, i + 2) ELSE StringEnd(t, i + 1)
  BY StringEndIs, Zenon DEF DoubleQuote, Backslash
<1>2. QED
  BY <1>1, CharactersDiffer

LEMMA QuotedStep ==
  ASSUME NEW t \in Texts, NEW i \in 1..Len(t), NEW yes \in BOOLEAN, yes = TRUE, NEW no \in BOOLEAN, no = FALSE
  PROVE  /\ t[i] = Backslash /\ i < Len(t) => Leads(t, i, yes, i + 2, yes, 0)
         /\ t[i] = DoubleQuote => Leads(t, i, yes, i + 1, no, 0)
         /\ t[i] # Backslash /\ t[i] # DoubleQuote => Leads(t, i, yes, i + 1, yes, 0)
<1>1. /\ t[i] = Backslash /\ i < Len(t) => Leads(t, i, yes, i + 2, yes, 0)
      /\ t[i] # Backslash => Leads(t, i, yes, i + 1, t[i] # DoubleQuote, 0)
  BY QuotedLeads, Zenon DEF Backslash, DoubleQuote
<1>2. (t[i] = DoubleQuote => (t[i] # DoubleQuote) = no) /\ (t[i] # DoubleQuote => (t[i] # DoubleQuote) = yes)
  OBVIOUS
<1>3. QED
  BY <1>1, <1>2, CharactersDiffer, Zenon

LEMMA StringLeads ==
  ASSUME NEW t \in Texts, NEW i \in 1..Len(t)+1, StringEnd(t, i) # 0,
         NEW yes \in BOOLEAN, yes = TRUE, NEW no \in BOOLEAN, no = FALSE
  PROVE  StringEnd(t, i) \in i+1..Len(t)+1 /\ Leads(t, i, yes, StringEnd(t, i), no, 0)
<1>0. PICK n \in Nat : n = Len(t)
  BY TextIs
<1> DEFINE Good(k) == StringEnd(t, k) \in k+1..n+1 /\ Leads(t, k, yes, StringEnd(t, k), no, 0)
           S == {k \in 0..n+1 : k # 0 /\ StringEnd(t, k) # 0 => Good(k)}
<1>1. ASSUME NEW k \in 0..n+1, \A l \in k+1..n+1 : l \in S PROVE k \in S
  <2> HIDE DEF Good
  <2>1. SUFFICES ASSUME k # 0, StringEnd(t, k) # 0 PROVE Good(k)
    OBVIOUS
  <2>2. k \in Nat /\ k \in 1..n+1
    BY <1>0, <2>1
  <2>3. k <= n /\ k \in 1..Len(t) /\ ~(k > Len(t))
    BY <1>0, <2>1, <2>2, StringEndStep
  <2>4. ASSUME NEW l \in k+1..n+1, StringEnd(t, k) = StringEnd(t, l), Leads(t, k, yes, l, yes, 0)
        PROVE  Good(k)
    <3>0. l # 0 /\ StringEnd(t, l) # 0 /\ l \in S
      BY <1>0, <1>1, <2>1, <2>4
    <3>1. Good(l)
      BY <3>0
    <3>2. PICK j : j = StringEnd(t, k)
      OBVIOUS
    <3>3. j \in l+1..n+1 /\ Leads(t, l, yes, j, no, 0)
      BY <2>4, <3>1, <3>2 DEF Good
    <3>4. j \in 1..Len(t)+1 /\ l <= j /\ l \in Nat /\ j \in k+1..n+1
      BY <1>0, <2>2, <3>3
    <3>5. Leads(t, k, yes, j, no, 0)
      <4>1. PICK z \in Int : z = 0 /\ z = z + z
        OBVIOUS
      <4>2. Leads(t, k, yes, l, yes, z) /\ Leads(t, l, yes, j, no, z)
        BY <2>4, <3>3, <4>1
      <4>3. Leads(t, k, yes, j, no, z)
        BY <3>4, <4>1, <4>2, LeadsOn
      <4>4. QED
        BY <4>1, <4>3
    <3>6. QED
      BY <3>2, <3>4, <3>5 DEF Good
  <2>5. CASE t[k] = DoubleQuote
    <3>1. StringEnd(t, k) = k + 1 /\ Leads(t, k, yes, k + 1, no, 0)
      BY <2>2, <2>3, <2>5, StringEndStep, QuotedStep
    <3>2. k + 1 \in k+1..n+1
      BY <1>0, <2>3
    <3>3. QED
      BY <3>1, <3>2 DEF Good
  <2>6. CASE t[k] = Backslash
    <3>1. StringEnd(t, k) = StringEnd(t, k + 2)
      BY <2>2, <2>3, <2>6, StringEndStep
    <3>2. k + 2 <= n
      <4>1. k + 2 \in Nat
        BY <2>2
      <4>2. ~(k + 2 > Len(t))
        BY <2>1, <3>1, <4>1, StringEndStep
      <4>3. QED
        BY <1>0, <4>1, <4>2
    <3>3. k + 2 \in k+1..n+1 /\ k < Len(t)
      BY <1>0, <2>2, <3>2
    <3>4. Leads(t, k, yes, k + 2, yes, 0)
      BY <2>3, <2>6, <3>3, QuotedStep
    <3>5. QED
      BY <2>4, <3>1, <3>3, <3>4
  <2>7. CASE t[k] # DoubleQuote /\ t[k] # Backslash
    <3>1. StringEnd(t, k) = StringEnd(t, k + 1) /\ Leads(t, k, yes, k + 1, yes, 0)
      BY <2>2, <2>3, <2>7, StringEndStep, QuotedStep
    <3>2. k + 1 \in k+1..n+1
      BY <1>0, <2>3
    <3>3. QED
      BY <2>4, <3>1, <3>2
  <2>8. QED
    BY <2>5, <2>6, <2>7
<1>2. i \in 0..n+1 /\ i # 0
  BY <1>0
<1>3. i \in S
  <2> HIDE DEF S
  <2>1. QED
    BY <1>0, <1>1, <1>2, FromEnd
<1>4. QED
  BY <1>0, <1>2, <1>3

(* A string without one is open at the end for the REPL too.               *)
LEMMA StringOpen ==
  ASSUME NEW t \in Texts, NEW i \in 1..Len(t)+1, StringEnd(t, i) = 0, NEW yes \in BOOLEAN, yes = TRUE
  PROVE  Scan(t)[<<i, yes>>].in_str = TRUE
<1>0. PICK n \in Nat, f \in {Scan(t)} : n = Len(t) /\ f = Scan(t)
  BY TextIs
<1> DEFINE S == {k \in 0..n+1 : k # 0 /\ StringEnd(t, k) = 0 => f[<<k, yes>>].in_str = TRUE}
<1>1. ASSUME NEW k \in 0..n+1, \A l \in k+1..n+1 : l \in S PROVE k \in S
  <2>0. \A h \in k+1..n+1 : h # 0 /\ h \in S
    <3> HIDE DEF S
    <3>1. \A h \in k+1..n+1 : h # 0
      BY <1>0
    <3>2. QED
      BY <1>1, <3>1
  <2>1. SUFFICES ASSUME k # 0, StringEnd(t, k) = 0 PROVE f[<<k, yes>>].in_str = TRUE
    OBVIOUS
  <2>2. k \in Nat /\ k \in 1..n+1
    BY <1>0, <2>1
  <2>3. CASE k = n + 1
    <3>0. k > Len(t)
      BY <1>0, <2>3
    <3>1. f[<<k, yes>>] = [depth |-> 0, in_str |-> yes]
      BY <1>0, <2>2, <3>0, ScanEnd
    <3>2. QED
      BY <3>1
  <2>4. ASSUME NEW l \in k+1..n+1, StringEnd(t, l) = 0, k <= n,
               Onward(t, k, yes) = <<l, yes>>, Counted(t, k, yes) = 0
        PROVE  f[<<k, yes>>].in_str = TRUE
    <3>0. l # 0 /\ l \in S
      BY <2>0, <2>4
    <3>1. f[<<l, yes>>].in_str = TRUE
      BY <2>4, <3>0
    <3>2. k \in 1..Len(t)
      BY <1>0, <2>2, <2>4
    <3>3. f[<<k, yes>>] = Deeper(f[<<l, yes>>], 0)
      BY <1>0, <2>4, <3>2, ScanStep
    <3>4. QED
      BY <3>1, <3>3 DEF Deeper
  <2>5. CASE k <= n
    <3>1. k \in 1..Len(t) /\ ~(k > Len(t)) /\ Counted(t, k, yes) = 0
      BY <1>0, <2>2, <2>5 DEF Counted
    <3>2. Onward(t, k, yes) = IF t[k] = Backslash /\ k < Len(t) THEN <<k + 2, TRUE>> ELSE <<k + 1, t[k] # DoubleQuote>>
      BY Zenon DEF Onward, Backslash, DoubleQuote
    <3>3. t[k] # DoubleQuote
      BY <2>1, <2>2, <3>1, StringEndStep
    <3>4. CASE t[k] = Backslash /\ k < n
      <4>1. Onward(t, k, yes) = <<k + 2, yes>> /\ StringEnd(t, k + 2) = 0
        BY <1>0, <2>1, <2>2, <3>1, <3>2, <3>4, StringEndStep
      <4>2. k + 2 \in k+1..n+1
        BY <1>0, <2>2, <3>4
      <4>3. QED
        BY <2>4, <2>5, <3>1, <4>1, <4>2
    <3>5. CASE ~(t[k] = Backslash /\ k < n)
      <4>1. Onward(t, k, yes) = <<k + 1, yes>>
        BY <1>0, <3>2, <3>3, <3>5
      <4>2. k + 1 \in k+1..n+1 /\ k + 1 \in Nat
        BY <1>0, <2>2, <2>5
      <4>3. StringEnd(t, k + 1) = 0
        <5>1. CASE t[k] = Backslash
          <6>1. k + 1 > Len(t)
            BY <1>0, <2>2, <2>5, <3>5, <5>1
          <6>2. QED
            BY <4>2, <6>1, StringEndStep
        <5>2. CASE t[k] # Backslash
          BY <2>1, <2>2, <3>1, <3>3, <5>2, StringEndStep
        <5>3. QED
          BY <5>1, <5>2
      <4>4. QED
        BY <2>4, <2>5, <3>1, <4>1, <4>2, <4>3
    <3>6. QED
      BY <3>4, <3>5
  <2>6. k = n + 1 \/ k <= n
    BY <1>0, <2>2
  <2>7. QED
    BY <2>3, <2>5, <2>6
<1>2. i \in 0..n+1 /\ i # 0
  BY <1>0
<1>3. i \in S
  <2> HIDE DEF S
  <2>1. QED
    BY <1>0, <1>1, <1>2, FromEnd
<1>4. QED
  BY <1>0, <1>2, <1>3

(* Outside of strings.                                                     *)
Passes(t, i, j, d) == Leads(t, i, FALSE, j, FALSE, d)

LEMMA PassesSelf ==
  ASSUME NEW t \in Texts, NEW i \in 1..Len(t)+1
  PROVE  Passes(t, i, i, 0)
<1>1. PICK no \in BOOLEAN : no = FALSE
  OBVIOUS
<1>2. Leads(t, i, no, i, no, 0)
  BY LeadsSelf
<1>3. QED
  BY <1>1, <1>2 DEF Passes

LEMMA PassesOn ==
  ASSUME NEW t \in Texts, NEW i, NEW j \in Nat, NEW k \in 1..Len(t)+1, j <= k,
         NEW d \in Int, NEW c \in Int, Passes(t, i, j, d), Passes(t, j, k, c), NEW x, x = d + c
  PROVE  Passes(t, i, k, x)
<1>1. PICK no \in BOOLEAN : no = FALSE
  OBVIOUS
<1>2. Leads(t, i, no, j, no, d) /\ Leads(t, j, no, k, no, c)
  BY <1>1 DEF Passes
<1>3. Leads(t, i, no, k, no, x)
  BY <1>2, LeadsOn
<1>4. QED
  BY <1>1, <1>3 DEF Passes

LEMMA PassesOrdinary ==
  ASSUME NEW t \in Texts, NEW i \in 1..Len(t), Ordinary(t, i)
  PROVE  Passes(t, i, i + 1, Nesting(t[i]))
BY OrdinaryLeads DEF Passes

(* A string.                                                               *)
LEMMA PassesString ==
  ASSUME NEW t \in Texts, NEW i \in 1..Len(t), t[i] = DoubleQuote, StringEnd(t, i + 1) # 0
  PROVE  StringEnd(t, i + 1) \in i+2..Len(t)+1 /\ Passes(t, i, StringEnd(t, i + 1), 0)
<1>0. PICK n \in Nat, j \in {StringEnd(t, i + 1)} : n = Len(t) /\ j = StringEnd(t, i + 1)
  BY TextIs
<1>1. PICK no \in BOOLEAN, yes \in BOOLEAN : no = FALSE /\ yes = TRUE
  OBVIOUS
<1>2. PICK z \in Int : z = 0 /\ z = z + z
  OBVIOUS
<1>3. PICK l \in Nat : l = i + 1 /\ l \in 1..Len(t)+1
  BY <1>0
<1>4. j \in l+1..n+1 /\ Leads(t, l, yes, j, no, 0)
  <2>1. StringEnd(t, l) # 0 /\ l \in 1..Len(t)+1 /\ j = StringEnd(t, l)
    BY <1>0, <1>3
  <2>2. StringEnd(t, l) \in l+1..Len(t)+1 /\ Leads(t, l, yes, StringEnd(t, l), no, 0)
    BY <1>1, <2>1, StringLeads
  <2>3. QED
    BY <1>0, <2>1, <2>2
<1>5. Leads(t, i, no, l, yes, 0)
  BY <1>1, <1>3, QuoteLeads
<1>6. j \in 1..Len(t)+1 /\ l <= j /\ j \in i+2..Len(t)+1
  BY <1>0, <1>3, <1>4
<1>7. Leads(t, i, no, j, no, z)
  BY <1>1, <1>2, <1>4, <1>5, <1>6, LeadsOn
<1>8. QED
  BY <1>0, <1>1, <1>2, <1>6, <1>7 DEF Passes

(* A comment, with the end of its line or without.                         *)
Newlines == {"\n"}

LEMMA AfterLineOf ==
  ASSUME NEW t, NEW i
  PROVE  AfterLine(t, i) = IF Seek(t, i, Newlines) > Len(t) THEN Len(t) + 1 ELSE Seek(t, i, Newlines) + 1
BY DEF AfterLine, Newlines

LEMMA NewlineIs ==
  ASSUME NEW c \in Newlines
  PROVE  c # Semicolon /\ c # DoubleQuote /\ c # "#" /\ Nesting(c) = 0
BY Zenon DEF Newlines, Semicolon, DoubleQuote, Nesting

LEMMA OnwardComment ==
  ASSUME NEW v, NEW i, v[i] = Semicolon
  PROVE  Onward(v, i, FALSE) = <<AfterLine(v, i), FALSE>> /\ Counted(v, i, FALSE) = 0
<1>1. Semicolon # "#" /\ Nesting(Semicolon) = 0
  BY CharactersDiffer
<1>2. Onward(v, i, FALSE) = <<AfterLine(v, i), FALSE>>
  BY Zenon DEF Onward, Semicolon
<1>3. QED
  BY <1>1, <1>2 DEF Counted

LEMMA PassesComment ==
  ASSUME NEW t \in Texts, NEW i \in 1..Len(t), t[i] = Semicolon
  PROVE  /\ Seek(t, i, Newlines) \in i+1..Len(t)+1
         /\ Passes(t, i, Seek(t, i, Newlines), 0)
         /\ AfterLine(t, i) \in i+1..Len(t)+1
         /\ Passes(t, i, AfterLine(t, i), 0)
<1>0. PICK n \in Nat, k \in {Seek(t, i, Newlines)}, no \in BOOLEAN : n = Len(t) /\ k = Seek(t, i, Newlines) /\ no = FALSE
  BY TextIs
<1>1. i \in 1..n /\ i \in 0..Len(t)+1
  BY <1>0
<1>2. /\ k \in i..n+1
      /\ k <= n => t[k] \in Newlines
      /\ \A l \in i..k-1 : t[l] \notin Newlines
  BY <1>0, <1>1, SeekIs
<1>3. k \in i+1..n+1
  <2>1. k # i
    BY <1>1, <1>2, NewlineIs
  <2>2. QED
    BY <1>0, <1>1, <1>2, <2>1
<1>4. PICK a : a = AfterLine(t, i) /\ a = IF k > n THEN n + 1 ELSE k + 1
  BY <1>0, AfterLineOf
<1>5. a \in i+1..n+1 /\ (a = k \/ (a = k + 1 /\ k <= n)) /\ k <= a /\ (a = k => k = n + 1)
  BY <1>1, <1>3, <1>4
<1>6. ASSUME NEW e \in k..n+1
      PROVE  /\ Onward(Cut(t, e), i, no) = IF e > k THEN <<k + 1, no>> ELSE <<k, no>>
             /\ Counted(Cut(t, e), i, no) = 0
  <2>1. PICK v : v = Cut(t, e)
    OBVIOUS
  <2>2. e \in 1..Len(t)+1 /\ i \in 1..e-1 /\ e \in Nat
    BY <1>0, <1>1, <1>3
  <2>3. v \in Texts /\ Len(v) = e - 1 /\ \A l \in 1..e-1 : v[l] = t[l]
    BY <2>1, <2>2, CutIs
  <2>4. v[i] = Semicolon
    BY <2>2, <2>3
  <2>5. Seek(v, i, Newlines) = k
    <3>1. i \in 0..Len(v)+1 /\ k \in i..Len(v)+1
      BY <1>1, <1>3, <2>2, <2>3
    <3>2. k <= Len(v) => v[k] \in Newlines
      BY <1>1, <1>2, <1>3, <2>2, <2>3
    <3>3. \A l \in i..k-1 : v[l] \notin Newlines
      <4>1. SUFFICES ASSUME NEW l \in i..k-1 PROVE v[l] \notin Newlines
        OBVIOUS
      <4>2. l \in 1..e-1
        BY <1>1, <1>3, <2>2
      <4>3. QED
        BY <1>2, <2>3, <4>2
    <3>4. QED
      BY <2>3, <3>1, <3>2, <3>3, SeekOnly
  <2>6. AfterLine(v, i) = IF e > k THEN k + 1 ELSE k
    <3>1. AfterLine(v, i) = IF k > Len(v) THEN Len(v) + 1 ELSE k + 1
      BY <2>5, AfterLineOf
    <3>2. QED
      BY <1>1, <1>3, <2>2, <2>3, <3>1
  <2>7. Onward(v, i, no) = <<AfterLine(v, i), no>> /\ Counted(v, i, no) = 0
    BY <1>0, <2>4, OnwardComment
  <2>8. QED
    BY <2>1, <2>6, <2>7
<1>7. Leads(t, i, no, a, no, 0)
  <2>1. ASSUME NEW e \in a..Len(t)+1
        PROVE  Onward(Cut(t, e), i, no) = <<a, no>> /\ Counted(Cut(t, e), i, no) = 0
    <3>1. e \in k..n+1
      BY <1>0, <1>1, <1>3, <1>5
    <3>2. a = IF e > k THEN k + 1 ELSE k
      BY <1>0, <1>1, <1>3, <1>5
    <3>3. QED
      BY <1>6, <3>1, <3>2
  <2>2. Moves(t, i, no, a, no, 0)
    BY <2>1 DEF Moves
  <2>3. QED
    BY <1>0, <1>5, <2>2, LeadsStep
<1>8. Leads(t, i, no, k, no, 0)
  <2>1. SUFFICES ASSUME NEW e \in k..Len(t)+1
                 PROVE  Scan(Cut(t, e))[<<i, no>>] = Deeper(Scan(Cut(t, e))[<<k, no>>], 0)
    BY DEF Leads
  <2>2. PICK v, f : v = Cut(t, e) /\ f = Scan(v)
    OBVIOUS
  <2>3. e \in 1..Len(t)+1 /\ i \in 1..e-1 /\ e \in k..n+1 /\ k \in Nat /\ e \in Nat
    BY <1>0, <1>1, <1>3
  <2>4. v \in Texts /\ Len(v) = e - 1
    BY <2>2, <2>3, CutIs
  <2>5. f[<<i, no>>] = Deeper(f[Onward(v, i, no)], Counted(v, i, no))
    BY <2>2, <2>3, <2>4, ScanStep
  <2>6. CASE e = k
    BY <1>6, <2>2, <2>3, <2>5, <2>6
  <2>7. CASE e > k
    <3>1. f[<<i, no>>] = Deeper(f[<<k + 1, no>>], 0)
      BY <1>6, <2>2, <2>3, <2>5, <2>7
    <3>2. k \in 1..Len(t) /\ t[k] \in Newlines
      BY <1>0, <1>1, <1>2, <1>3, <2>3, <2>7
    <3>3. Ordinary(t, k) /\ Nesting(t[k]) = 0
      <4>1. t[k] # Semicolon /\ t[k] # DoubleQuote /\ t[k] # "#" /\ Nesting(t[k]) = 0
        BY <3>2, NewlineIs
      <4>2. QED
        BY <4>1, Zenon DEF Ordinary, Semicolon, DoubleQuote
    <3>4. Leads(t, k, no, k + 1, no, 0)
      BY <1>0, <3>2, <3>3, OrdinaryLeads
    <3>5. e \in k+1..Len(t)+1
      BY <1>0, <2>3, <2>7
    <3>6. f[<<k, no>>] = Deeper(f[<<k + 1, no>>], 0)
      BY <2>2, <3>4, <3>5 DEF Leads
    <3>7. f[<<k, no>>] \in States
      BY <2>2, <2>3, <2>4, ScanIs
    <3>8. QED
      BY <2>2, <3>1, <3>6, <3>7, DeeperNone
  <2>8. QED
    BY <2>3, <2>6, <2>7
<1>9. QED
  BY <1>0, <1>3, <1>4, <1>5, <1>7, <1>8 DEF Passes

(* #\ and the character after it.                                          *)
LEMMA OnwardSharp ==
  ASSUME NEW v, NEW i, v[i] = "#", At(v, i + 1) = Backslash, i + 1 < Len(v)
  PROVE  Onward(v, i, FALSE) = <<i + 3, FALSE>> /\ Counted(v, i, FALSE) = 0
<1>1. "#" # Semicolon
  BY CharactersDiffer
<1>2. v[i] # ";"
  BY <1>1, Zenon DEF Semicolon
<1>3. At(v, i + 1) = "\\"
  BY Zenon DEF Backslash
<1>4. Onward(v, i, FALSE) = <<i + 3, FALSE>>
  BY <1>2, <1>3, Zenon DEF Onward
<1>5. Counted(v, i, FALSE) = 0
  BY <1>3, Zenon DEF Counted
<1>6. QED
  BY <1>4, <1>5

LEMMA PassesSharp ==
  ASSUME NEW t \in Texts, NEW i \in 1..Len(t), i + 2 <= Len(t), t[i] = "#", t[i + 1] = Backslash
  PROVE  Passes(t, i, i + 3, 0) /\ i + 3 \in i+1..Len(t)+1
<1>0. PICK n \in Nat, z \in Int, j \in Nat : n = Len(t) /\ z = 0 /\ j = i + 3
  BY TextIs
<1>6. PICK no \in BOOLEAN : no = FALSE
  OBVIOUS
<1>1. j \in i+1..Len(t)+1
  BY <1>0
<1>2. ASSUME NEW e \in j..Len(t)+1
      PROVE  Onward(Cut(t, e), i, no) = <<j, no>> /\ Counted(Cut(t, e), i, no) = z
  <2>1. PICK v : v = Cut(t, e)
    OBVIOUS
  <2>2. e \in 1..Len(t)+1 /\ i \in 1..e-1 /\ i + 1 \in 1..e-1 /\ i + 1 < e - 1 /\ e \in Nat
    BY <1>0
  <2>3. Len(v) = e - 1 /\ \A k \in 1..e-1 : v[k] = t[k]
    BY <2>1, <2>2, CutIs
  <2>4. v[i] = "#" /\ v[i + 1] = Backslash /\ i + 1 <= Len(v) /\ i + 1 < Len(v)
    BY <2>2, <2>3
  <2>5. At(v, i + 1) = Backslash
    BY <2>4, AtIs
  <2>6. Onward(v, i, FALSE) = <<i + 3, FALSE>> /\ Counted(v, i, FALSE) = 0
    BY <2>4, <2>5, OnwardSharp
  <2>7. QED
    BY <1>0, <1>6, <2>1, <2>6
<1>3. Moves(t, i, no, j, no, z)
  BY <1>2 DEF Moves
<1>4. Leads(t, i, no, j, no, z)
  BY <1>1, <1>3, LeadsStep
<1>5. QED
  BY <1>0, <1>1, <1>4, <1>6 DEF Passes

(* Characters that count nothing.                                          *)
Neutral(t, i) == Ordinary(t, i) /\ Nesting(t[i]) = 0

LEMMA PassesNeutral ==
  ASSUME NEW t \in Texts, NEW i \in 1..Len(t), Neutral(t, i)
  PROVE  Passes(t, i, i + 1, 0)
<1>1. Passes(t, i, i + 1, Nesting(t[i]))
  BY PassesOrdinary DEF Neutral
<1>2. QED
  BY <1>1 DEF Neutral

LEMMA PassesRun ==
  ASSUME NEW t \in Texts, NEW i \in 1..Len(t)+1, NEW j \in i..Len(t)+1, \A k \in i..j-1 : Neutral(t, k)
  PROVE  Passes(t, i, j, 0)
<1>0. PICK n \in Nat, z \in Int, m \in Nat : n = Len(t) /\ z = 0 /\ z = z + z /\ m = j - i
  BY TextIs
<1> DEFINE S == {l \in Nat : Passes(t, i, i + l, z)}
<1>1. 0 \in S
  <2>1. i + 0 = i
    BY <1>0
  <2>2. QED
    BY <1>0, <2>1, PassesSelf
<1>2. ASSUME NEW l \in 1..m, l - 1 \in S PROVE l \in S
  <2>1. PICK k \in Nat, a \in Nat : k = i + (l - 1) /\ a = k + 1 /\ a = i + l
    BY <1>0
  <2>2. k \in 1..Len(t) /\ k \in i..j-1 /\ a \in 1..Len(t)+1 /\ k <= a
    BY <1>0, <2>1
  <2>3. Passes(t, i, k, z)
    BY <1>2, <2>1
  <2>4. Passes(t, k, a, z)
    BY <1>0, <2>1, <2>2, PassesNeutral
  <2>5. Passes(t, i, a, z)
    BY <1>0, <2>2, <2>3, <2>4, PassesOn
  <2>6. QED
    BY <2>1, <2>5
<1>3. m \in S
  <2> HIDE DEF S
  <2>1. \A l \in 0..m : l \in S
    BY <1>0, <1>1, <1>2, UpTo
  <2>2. QED
    BY <1>0, <2>1
<1>4. QED
  <2>1. i + m = j
    BY <1>0
  <2>2. QED
    BY <1>0, <1>3, <2>1

LEMMA PlainCharacters ==
  ASSUME NEW c, c \in Blanks \cup Words \cup {"'", "#", ".", ":", "+"}
  PROVE  c # Semicolon /\ c # DoubleQuote /\ Nesting(c) = 0 /\ (c # "#" => c \in Blanks \cup Words \cup {"'", ".", ":", "+"})
BY Zenon DEF Semicolon, DoubleQuote, Nesting, Blanks, Words

LEMMA NeutralIs ==
  ASSUME NEW t, NEW i, t[i] # Semicolon, t[i] # DoubleQuote, Nesting(t[i]) = 0,
         t[i] = "#" /\ i < Len(t) => t[i + 1] # Backslash
  PROVE  Neutral(t, i)
BY Zenon DEF Neutral, Ordinary, Semicolon, DoubleQuote, Backslash

(* Text without a bar.                                                     *)
Barless(t) == \A i \in 1..Len(t) : t[i] # Bar

LEMMA NoBar ==
  ASSUME NEW t \in Texts, Barless(t), NEW i \in Nat, i # 0
  PROVE  At(t, i) # Bar
<1>1. PICK n \in Nat : n = Len(t)
  BY TextIs
<1>2. CASE i <= n
  <2>1. i \in 1..Len(t) /\ i <= Len(t)
    BY <1>1, <1>2
  <2>2. t[i] # Bar
    BY <2>1 DEF Barless
  <2>3. QED
    BY <2>1, <2>2, AtIs
<1>3. CASE ~(i <= n)
  BY <1>1, <1>3, Zenon DEF At, Bar
<1>4. QED
  BY <1>2, <1>3

LEMMA TextLength ==
  ASSUME NEW t \in Texts
  PROVE  /\ Len(t) \in Nat /\ DOMAIN t = 1..Len(t)
         /\ \A i \in 1..Len(t) : t[i] \in Characters
BY DEF Texts

(* What follows the text is not of it.                                     *)
LEMMA NotEnd ==
  ASSUME NEW t, NEW i, NEW c, At(t, i) = c, c # "eof"
  PROVE  i <= Len(t) /\ t[i] = c
BY AtIs, Zenon

LEMMA StringEndRange ==
  ASSUME NEW t \in Texts, NEW i \in 0..Len(t)+1
  PROVE  StringEnd(t, i) # 0 => StringEnd(t, i) \in i+1..Len(t)+1
<1>0. PICK n \in Nat : n = Len(t)
  BY TextLength
<1> DEFINE S == {j \in 0..n+1 : StringEnd(t, j) = 0 \/ StringEnd(t, j) \in j+1..n+1}
<1>1. ASSUME NEW j \in 0..n+1, \A k \in j+1..n+1 : k \in S PROVE j \in S
  <2>1. PICK e : e = StringEnd(t, j)
    OBVIOUS
  <2>2. e = 0 \/ (~(j > n) /\ (e = j + 1 \/ e = StringEnd(t, j + 1) \/ e = StringEnd(t, j + 2)))
    <3>1. j \in Nat
      BY <1>0
    <3>2. QED
      BY <1>0, <2>1, <3>1, StringEndIs, Zenon
  <2>3. ASSUME NEW k \in j+1..n+1, e = StringEnd(t, k) PROVE j \in S
    <3>1. k \in S
      BY <1>1
    <3>2. e = 0 \/ e \in k+1..n+1
      BY <2>3, <3>1
    <3>3. e = 0 \/ e \in j+1..n+1
      BY <3>2
    <3>4. QED
      BY <2>1, <3>3
  <2>4. j = n => StringEnd(t, j + 2) = 0
    <3>1. PICK k : k = j + 2
      OBVIOUS
    <3>2. j = n => k > Len(t) /\ k \in Nat
      BY <1>0, <3>1
    <3>3. QED
      BY <3>1, <3>2, StringEndIs, Zenon
  <2>5. QED
    BY <2>1, <2>2, <2>3, <2>4
<1>2. \A j \in 0..n+1 : j \in S
  <2> HIDE DEF S
  <2>1. QED
    BY <1>1, FromEnd
<1>3. QED
  BY <1>0, <1>2

LEMMA TokenIs ==
  ASSUME text \in Texts, NEW i \in 1..Len(text)+1
  PROVE  Token(i) \in Texts /\ i + Len(Token(i)) = TokenEnd(text, i) /\ TokenEnd(text, i) \in i..Len(text)+1
<1>1. PICK e : e = TokenEnd(text, i)
  OBVIOUS
<1>2. e \in i..Len(text)+1 /\ Len(text) \in Nat
  BY <1>1, SeekIs, TextLength DEF TokenEnd
<1>3. PICK tok : tok = Token(i) /\ tok = SubSeq(text, i, e - 1)
  BY <1>1 DEF Token
<1>4. tok \in Texts /\ Len(tok) = e - i
  BY <1>2, <1>3 DEF Texts
<1>5. i + Len(tok) = e
  BY <1>2, <1>4
<1>6. QED
  BY <1>1, <1>2, <1>3, <1>4, <1>5, Zenon

LEMMA CharEndIs ==
  ASSUME NEW t \in Texts, NEW i \in 1..Len(t)
  PROVE  /\ CharEnd(t \o <<"eof">>, i) \in i..Len(t)
         /\ \A k \in i+1..CharEnd(t \o <<"eof">>, i) : t[k] \in Words
<1>1. PICK u, n : n \in Nat /\ u = t \o <<"eof">> /\ n = Len(t)
  BY TextLength
<1>2. Len(u) = n + 1 /\ u[n + 1] = "eof"
  BY <1>1 DEF Texts
<1>3. "eof" \notin Words
  BY DEF Words
<1> DEFINE P == {k \in i..n : u[k + 1] \notin Words}
<1>4. P \subseteq Nat /\ n \in P
  BY <1>1, <1>2, <1>3
<1>5. PICK j \in P : \A k \in P : j <= k
  <2> HIDE DEF P
  <2>1. QED
    BY <1>4, Least
<1>6. ASSUME NEW k \in i+1..j PROVE u[k] \in Words
  <2>1. k - 1 \in i..n /\ ~(j <= k - 1) /\ (k - 1) + 1 = k
    BY <1>1, <1>5
  <2>2. QED
    BY <1>5, <2>1
<1>7. j \in i..Len(u) /\ u[j + 1] \notin Words /\ \A k \in i+1..j : u[k] \in Words
  BY <1>1, <1>2, <1>5, <1>6
<1>8. PICK e : e = CharEnd(u, i)
  OBVIOUS
<1>9. e \in i..Len(u) /\ \A k \in i+1..e : u[k] \in Words
  BY <1>7, <1>8 DEF CharEnd
<1>10. e # n + 1
  BY <1>1, <1>2, <1>3, <1>9
<1>11. e \in i..n
  BY <1>1, <1>2, <1>9, <1>10
<1>12. \A k \in 1..n : u[k] = t[k]
  BY <1>1 DEF Texts
<1>13. \A k \in i+1..e : t[k] \in Words
  BY <1>1, <1>9, <1>11, <1>12
<1>14. QED
  BY <1>1, <1>8, <1>11, <1>13

LEMMA AtCharacter ==
  ASSUME NEW t \in Texts, NEW i \in Nat, i # 0, NEW c, At(t, i) = c, c # "eof"
  PROVE  i \in 1..Len(t) /\ t[i] = c
<1>1. i <= Len(t) /\ t[i] = c
  BY NotEnd
<1>2. PICK n \in Nat : n = Len(t)
  BY TextIs
<1>3. QED
  BY <1>1, <1>2

LEMMA BlankPasses ==
  ASSUME NEW t \in Texts, NEW i \in Nat, i # 0, At(t, i) \in Blanks
  PROVE  i \in 1..Len(t) /\ Passes(t, i, i + 1, 0)
<1>1. PICK c : c = At(t, i)
  OBVIOUS
<1>2. c # "eof" /\ c # "#"
  BY <1>1, Zenon DEF Blanks
<1>3. i \in 1..Len(t) /\ t[i] = c
  BY <1>1, <1>2, AtCharacter
<1>4. c # Semicolon /\ c # DoubleQuote /\ Nesting(c) = 0
  BY <1>1, PlainCharacters
<1>5. Neutral(t, i)
  BY <1>2, <1>3, <1>4, NeutralIs
<1>6. QED
  BY <1>3, <1>5, PassesNeutral

LEMMA CommentAt ==
  ASSUME NEW t \in Texts, NEW i \in Nat, i # 0, At(t, i) = ";"
  PROVE  i \in 1..Len(t) /\ t[i] = Semicolon
<1>1. PICK c : c = Semicolon /\ c # "eof" /\ At(t, i) = c
  BY Zenon DEF Semicolon
<1>2. QED
  BY <1>1, AtCharacter

(* What Skip passes over counts nothing.                                   *)
LEMMA SkipPasses ==
  ASSUME NEW t \in Texts, Barless(t), NEW i \in 1..Len(t)+1
  PROVE  Passes(t, i, Skip(t, i), 0) /\ Skip(t, i) \in i..Len(t)+1
<1>1. PICK h : (\A j \in Nat : h[j] = Skipping(t, h, j)) /\ \A j \in Nat : Skip(t, j) = h[j]
  BY SkipIs
<1>0. PICK n \in Nat, z \in Int : n = Len(t) /\ z = 0 /\ z = z + z
  BY TextIs
<1> DEFINE S == {j \in 0..n+1 : j # 0 => h[j] \in j..n+1 /\ Passes(t, j, h[j], z)}
<1>2. ASSUME NEW j \in 0..n+1, \A k \in j+1..n+1 : k \in S PROVE j \in S
  <2>0. SUFFICES ASSUME j # 0 PROVE h[j] \in j..n+1 /\ Passes(t, j, h[j], z)
    OBVIOUS
  <2>1. j \in Nat /\ h[j] = Skipping(t, h, j) /\ j \in 1..Len(t)+1
    BY <1>0, <1>1, <2>0
  <2>2. CASE h[j] = j
    BY <1>0, <2>1, <2>2, PassesSelf
  <2>3. ASSUME NEW k \in j+1..n+1, h[j] = h[k], Passes(t, j, k, 0)
        PROVE  h[j] \in j..n+1 /\ Passes(t, j, h[j], z)
    <3>1. PICK l : l = h[k]
      OBVIOUS
    <3>2. k \in S /\ k # 0
      BY <1>2
    <3>3. l \in k..n+1 /\ Passes(t, k, l, z)
      BY <3>1, <3>2
    <3>4. k \in Nat /\ l \in 1..Len(t)+1 /\ k <= l /\ l \in j..n+1
      BY <1>0, <3>3
    <3>5. Passes(t, j, l, z)
      BY <1>0, <2>3, <3>3, <3>4, PassesOn
    <3>6. QED
      BY <2>3, <3>1, <3>4, <3>5
  <2> HIDE DEF S
  <2>4. CASE At(t, j) \in Blanks
    <3>1. j \in 1..Len(t) /\ Passes(t, j, j + 1, 0)
      BY <2>0, <2>1, <2>4, BlankPasses
    <3>2. j + 1 \in j+1..n+1
      BY <1>0, <3>1
    <3>3. h[j] = h[j + 1]
      BY <2>1, <2>4 DEF Skipping
    <3>4. QED
      BY <2>3, <3>1, <3>2, <3>3
  <2>5. CASE At(t, j) = ";"
    <3>1. j \in 1..Len(t) /\ t[j] = Semicolon
      BY <2>0, <2>1, <2>5, CommentAt
    <3>2. AfterLine(t, j) \in j+1..n+1 /\ Passes(t, j, AfterLine(t, j), 0)
      BY <1>0, <3>1, PassesComment
    <3>3. h[j] = h[AfterLine(t, j)]
      <4>1. At(t, j) \notin Blanks
        BY <2>5, Zenon DEF Blanks
      <4>2. QED
        BY <2>1, <2>5, <4>1, Zenon DEF Skipping
    <3>4. QED
      BY <2>3, <3>2, <3>3
  <2>6. ~(At(t, j) = "#" /\ At(t, j + 1) = "|")
    <3>1. j + 1 \in Nat /\ j + 1 # 0
      BY <2>1
    <3>2. At(t, j + 1) # Bar
      BY <3>1, NoBar
    <3>3. QED
      BY <3>2, Zenon DEF Bar
  <2>7. QED
    <3>1. At(t, j) \notin Blanks /\ ~(At(t, j) = ";") => h[j] = j
      BY <2>1, <2>6, Zenon DEF Skipping
    <3>2. QED
      BY <2>2, <2>4, <2>5, <3>1
<1>3. \A j \in 0..n+1 : j \in S
  <2> HIDE DEF S
  <2>1. QED
    BY <1>2, FromEnd
<1>4. QED
  BY <1>0, <1>1, <1>3

LEMMA StartPasses ==
  ASSUME text \in Texts, pos \in 1..Len(text)+1
  PROVE  Passes(text, pos, FormStart, 0) /\ FormStart \in pos..Len(text)+1
<1>1. PICK t, file, h : /\ t = text /\ file = (source = "file")
                        /\ \A j \in Nat : h[j] = Starting(t, file, h, j)
                        /\ FormStart = h[pos]
  BY FormStartIs
<1>0. PICK n \in Nat, z \in Int : n = Len(t) /\ z = 0 /\ z = z + z
  BY <1>1, TextIs
<1>9. t \in Texts
  BY <1>1
<1> DEFINE S == {j \in 0..n+1 : j # 0 => h[j] \in j..n+1 /\ Passes(t, j, h[j], z)}
<1>2. ASSUME NEW j \in 0..n+1, \A k \in j+1..n+1 : k \in S PROVE j \in S
  <2>0. SUFFICES ASSUME j # 0 PROVE h[j] \in j..n+1 /\ Passes(t, j, h[j], z)
    OBVIOUS
  <2>1. j \in Nat /\ h[j] = Starting(t, file, h, j) /\ j \in 1..Len(t)+1
    BY <1>0, <1>1, <2>0
  <2>2. CASE h[j] = j
    BY <1>0, <1>9, <2>1, <2>2, PassesSelf
  <2>3. ASSUME NEW k \in j+1..n+1, h[j] = h[k], Passes(t, j, k, 0)
        PROVE  h[j] \in j..n+1 /\ Passes(t, j, h[j], z)
    <3>1. PICK l : l = h[k]
      OBVIOUS
    <3>2. k \in S /\ k # 0
      BY <1>2
    <3>3. l \in k..n+1 /\ Passes(t, k, l, z)
      BY <3>1, <3>2
    <3>4. k \in Nat /\ l \in 1..Len(t)+1 /\ k <= l /\ l \in j..n+1
      BY <1>0, <3>3
    <3>5. Passes(t, j, l, z)
      BY <1>0, <1>9, <2>3, <3>3, <3>4, PassesOn
    <3>6. QED
      BY <2>3, <3>1, <3>4, <3>5
  <2> HIDE DEF S
  <2>4. CASE At(t, j) \in Blanks
    <3>1. j \in 1..Len(t) /\ Passes(t, j, j + 1, 0)
      BY <1>9, <2>0, <2>1, <2>4, BlankPasses
    <3>2. j + 1 \in j+1..n+1
      BY <1>0, <3>1
    <3>3. h[j] = h[j + 1]
      BY <2>1, <2>4 DEF Starting
    <3>4. QED
      BY <2>3, <3>1, <3>2, <3>3
  <2>5. CASE file /\ At(t, j) = ";"
    <3>1. j \in 1..Len(t) /\ t[j] = Semicolon
      BY <1>9, <2>0, <2>1, <2>5, CommentAt
    <3>2. Seek(t, j, {"\n"}) \in j+1..n+1 /\ Passes(t, j, Seek(t, j, {"\n"}), 0)
      BY <1>0, <1>9, <3>1, PassesComment DEF Newlines
    <3>3. h[j] = h[Seek(t, j, {"\n"})]
      <4>1. At(t, j) \notin Blanks
        BY <2>5, Zenon DEF Blanks
      <4>2. QED
        BY <2>1, <2>5, <4>1, Zenon DEF Starting
    <3>4. PICK k : k = Seek(t, j, {"\n"})
      OBVIOUS
    <3>5. QED
      BY <2>3, <3>2, <3>3, <3>4
  <2>7. QED
    <3>1. At(t, j) \notin Blanks /\ ~(file /\ At(t, j) = ";") => h[j] = j
      BY <2>1, Zenon DEF Starting
    <3>2. QED
      BY <2>2, <2>4, <2>5, <3>1
<1>3. \A j \in 0..n+1 : j \in S
  <2> HIDE DEF S
  <2>1. QED
    BY <1>2, FromEnd
<1>4. QED
  BY <1>0, <1>1, <1>3

(* #\ stands only where a form starts, with a character after it.          *)
Sharp(t) ==
  \A i \in 1..Len(t)-1 : t[i] = "#" /\ t[i + 1] = Backslash =>
    i + 1 < Len(t) /\ (i > 1 => t[i - 1] \in Delimiters)

LEMMA PlainIs ==
  ASSUME NEW t \in Texts, Plain(t)
  PROVE  Barless(t) /\ Sharp(t)
<1>1. Bar \notin ToSet(t)
  BY Zenon DEF Plain, Bar
<1>2. Sharp(t)
  BY Zenon DEF Plain, Sharp, Backslash
<1>3. QED
  BY <1>1, <1>2, TextIs DEF Barless, ToSet

LEMMA TokenCharacters ==
  ASSUME NEW c, c \notin Delimiters
  PROVE  c # Semicolon /\ c # DoubleQuote /\ Nesting(c) = 0
BY Zenon DEF Delimiters, Semicolon, DoubleQuote, Nesting

LEMMA TokenPasses ==
  ASSUME NEW t \in Texts, Sharp(t), NEW i \in 1..Len(t)+1,
         i <= Len(t) /\ t[i] = "#" => i > 1 /\ t[i - 1] \notin Delimiters
  PROVE  Passes(t, i, TokenEnd(t, i), 0)
<1>0. PICK n \in Nat, e \in {TokenEnd(t, i)} : n = Len(t) /\ e = TokenEnd(t, i)
  BY TextIs
<1>1. e \in i..n+1 /\ \A k \in i..e-1 : t[k] \notin Delimiters
  BY <1>0, SeekIs DEF TokenEnd
<1>2. ASSUME NEW k \in i..e-1 PROVE Neutral(t, k)
  <2>1. t[k] # Semicolon /\ t[k] # DoubleQuote /\ Nesting(t[k]) = 0
    BY <1>1, <1>2, TokenCharacters
  <2>2. t[k] = "#" /\ k < Len(t) => t[k + 1] # Backslash
    <3>1. SUFFICES ASSUME t[k] = "#", k < Len(t), t[k + 1] = Backslash PROVE FALSE
      OBVIOUS
    <3>2. k \in 1..Len(t)-1
      BY <1>0, <1>1, <3>1
    <3>3. k > 1 => t[k - 1] \in Delimiters
      BY <3>1, <3>2 DEF Sharp
    <3>4. CASE k = i
      BY <1>0, <3>1, <3>3, <3>4
    <3>5. CASE k # i
      <4>1. k - 1 \in i..e-1 /\ k > 1
        BY <1>0, <1>1, <3>5
      <4>2. QED
        BY <1>1, <3>3, <4>1
    <3>6. QED
      BY <3>4, <3>5
  <2>3. QED
    BY <2>1, <2>2, NeutralIs
<1>3. e \in i..Len(t)+1
  BY <1>0, <1>1
<1>4. Passes(t, i, e, 0)
  BY <1>2, <1>3, PassesRun
<1>5. QED
  BY <1>0, <1>4

LEMMA CharPasses ==
  ASSUME NEW t \in Texts, NEW i \in 1..Len(t), i + 2 <= Len(t), t[i] = "#", t[i + 1] = Backslash
  PROVE  Passes(t, i, CharEnd(t \o <<"eof">>, i + 2) + 1, 0)
<1>0. PICK n \in Nat, z \in Int, b \in Nat, e \in {CharEnd(t \o <<"eof">>, i + 2)} :
        n = Len(t) /\ z = 0 /\ z = z + z /\ b = i + 2 /\ e = CharEnd(t \o <<"eof">>, i + 2)
  BY TextIs
<1>1. b \in 1..Len(t)
  BY <1>0
<1>2. e \in b..Len(t) /\ \A k \in b+1..e : t[k] \in Words
  BY <1>0, <1>1, CharEndIs
<1>3. PICK j \in Nat, l \in Nat : j = i + 3 /\ l = e + 1
  BY <1>0, <1>2
<1>4. j \in 1..Len(t)+1 /\ l \in j..Len(t)+1 /\ l \in 1..Len(t)+1 /\ j <= l
  BY <1>0, <1>2, <1>3
<1>5. Passes(t, i, j, z)
  BY <1>0, <1>3, PassesSharp
<1>6. ASSUME NEW k \in j..l-1 PROVE Neutral(t, k)
  <2>1. t[k] \in Words
    BY <1>0, <1>2, <1>3
  <2>2. t[k] # Semicolon /\ t[k] # DoubleQuote /\ Nesting(t[k]) = 0 /\ t[k] # "#"
    BY <2>1, PlainCharacters DEF Words
  <2>3. QED
    BY <2>2, NeutralIs
<1>7. Passes(t, j, l, z)
  BY <1>0, <1>4, <1>6, PassesRun
<1>8. Passes(t, i, l, z)
  BY <1>0, <1>4, <1>5, <1>7, PassesOn
<1>9. QED
  BY <1>0, <1>3, <1>8

(* Scanning a text up to where it has got to.                              *)
LEMMA PassesAll ==
  ASSUME NEW t \in Texts, NEW i, NEW j \in 1..Len(t)+1, NEW d \in Int, Passes(t, i, j, d)
  PROVE  Scan(Cut(t, j))[<<i, FALSE>>] = [depth |-> d, in_str |-> FALSE]
<1>1. PICK no \in BOOLEAN : no = FALSE
  OBVIOUS
<1>2. PICK v : v = Cut(t, j)
  OBVIOUS
<1>3. Leads(t, i, no, j, no, d)
  BY <1>1, Zenon DEF Passes
<1>4. j \in j..Len(t)+1 /\ j \in Nat
  BY TextIs
<1>5. Scan(v)[<<i, no>>] = Deeper(Scan(v)[<<j, no>>], d)
  BY <1>2, <1>3, <1>4 DEF Leads
<1>6. v \in Texts /\ j > Len(v)
  <2>1. v \in Texts /\ Len(v) = j - 1
    BY <1>2, CutIs
  <2>2. QED
    BY <1>4, <2>1
<1>7. Scan(v)[<<j, no>>] = [depth |-> 0, in_str |-> no]
  BY <1>4, <1>6, ScanEnd
<1>8. Deeper([depth |-> 0, in_str |-> no], d) = [depth |-> d, in_str |-> no]
  BY DEF Deeper
<1>9. QED
  BY <1>1, <1>2, <1>5, <1>7, <1>8, Zenon

LEMMA PassesWhole ==
  ASSUME NEW t \in Texts, NEW d \in Int, Passes(t, 1, Len(t) + 1, d)
  PROVE  Depth(t) = [depth |-> d, in_str |-> FALSE]
<1>1. PICK j \in Nat : j = Len(t) + 1 /\ j \in 1..Len(t)+1
  BY TextIs
<1>2. Scan(Cut(t, j))[<<1, FALSE>>] = [depth |-> d, in_str |-> FALSE]
  BY <1>1, PassesAll
<1>3. Cut(t, j) = t
  BY <1>1, CutAll
<1>4. QED
  BY <1>2, <1>3 DEF Depth

(* w is the end of v after c characters.                                   *)
Ends(v, w, c) == Len(v) = c + Len(w) /\ \A k \in 1..Len(w) : w[k] = v[c + k]

OnwardFacts(t, i, s, yes, no) ==
  /\ s = yes /\ t[i] = Backslash /\ i < Len(t) => Onward(t, i, s) = <<i + 2, yes>>
  /\ s = yes /\ ~(t[i] = Backslash /\ i < Len(t)) => Onward(t, i, s) = <<i + 1, t[i] # DoubleQuote>>
  /\ s = no /\ t[i] = Semicolon => Onward(t, i, s) = <<AfterLine(t, i), no>>
  /\ s = no /\ t[i] # Semicolon /\ t[i] = "#" /\ At(t, i + 1) = Backslash /\ i + 1 < Len(t)
       => Onward(t, i, s) = <<i + 3, no>>
  /\ s = no /\ t[i] # Semicolon /\ ~(t[i] = "#" /\ At(t, i + 1) = Backslash /\ i + 1 < Len(t))
       => Onward(t, i, s) = <<i + 1, t[i] = DoubleQuote>>

LEMMA OnwardCases ==
  ASSUME NEW t, NEW i, NEW s \in BOOLEAN, NEW yes, yes = TRUE, NEW no, no = FALSE
  PROVE  OnwardFacts(t, i, s, yes, no)
<1>1. CASE s = TRUE
  BY <1>1, Zenon DEF OnwardFacts, Onward, Backslash, DoubleQuote, Semicolon
<1>2. CASE s = FALSE
  BY <1>2, Zenon DEF OnwardFacts, Onward, Backslash, DoubleQuote, Semicolon
<1>3. QED
  BY <1>1, <1>2

LEMMA CountedCases ==
  ASSUME NEW t, NEW i, NEW s \in BOOLEAN
  PROVE  Counted(t, i, s) = IF s \/ (t[i] = "#" /\ At(t, i + 1) = Backslash /\ i + 1 < Len(t)) THEN 0 ELSE Nesting(t[i])
BY Zenon DEF Counted, Backslash

LEMMA AfterLineShift ==
  ASSUME NEW v \in Texts, NEW w \in Texts, NEW c \in Nat, Ends(v, w, c), NEW k \in 1..Len(w)
  PROVE  AfterLine(v, c + k) = c + AfterLine(w, k)
<1>0. PICK n \in Nat, m \in Nat, j \in {Seek(w, k, Newlines)} : n = Len(w) /\ m = Len(v) /\ j = Seek(w, k, Newlines) /\ m = c + n
  BY TextIs DEF Ends
<1>1. j \in k..n+1 /\ (j <= n => w[j] \in Newlines) /\ \A l \in k..j-1 : w[l] \notin Newlines
  BY <1>0, SeekIs
<1>2. PICK i \in Nat, e \in Nat : i = c + k /\ e = c + j
  <2>1. c + k \in Nat /\ c + j \in Nat
    BY <1>0, <1>1
  <2>2. QED
    BY <2>1
<1>3. i \in 0..Len(v)+1 /\ e \in i..Len(v)+1
  BY <1>0, <1>1, <1>2
<1>4. e <= Len(v) => v[e] \in Newlines
  <2>1. SUFFICES ASSUME e <= Len(v) PROVE v[e] \in Newlines
    OBVIOUS
  <2>2. j \in 1..Len(w) /\ j <= n
    BY <1>0, <1>1, <1>2, <2>1
  <2>3. w[j] = v[e]
    BY <1>2, <2>2 DEF Ends
  <2>4. QED
    BY <1>1, <2>2, <2>3
<1>5. ASSUME NEW l \in i..e-1 PROVE v[l] \notin Newlines
  <2>1. PICK o \in Nat : l = c + o
    <3>1. l - c \in Nat /\ l = c + (l - c)
      BY <1>2
    <3>2. QED
      BY <3>1
  <2>2. o \in k..j-1 /\ o \in 1..Len(w)
    BY <1>0, <1>1, <1>2, <2>1
  <2>3. w[o] = v[l]
    BY <2>1, <2>2 DEF Ends
  <2>4. QED
    BY <1>1, <2>2, <2>3
<1>6. Seek(v, i, Newlines) = e
  BY <1>3, <1>4, <1>5, SeekOnly
<1>7. AfterLine(v, i) = IF e > m THEN m + 1 ELSE e + 1
  BY <1>0, <1>6, AfterLineOf
<1>8. AfterLine(w, k) = IF j > n THEN n + 1 ELSE j + 1
  BY <1>0, AfterLineOf
<1>9. QED
  BY <1>0, <1>1, <1>2, <1>7, <1>8

LEMMA OnwardShift ==
  ASSUME NEW v \in Texts, NEW w \in Texts, NEW c \in Nat, Ends(v, w, c), NEW k \in 1..Len(w), NEW s \in BOOLEAN
  PROVE  /\ \E j \in Nat, r \in BOOLEAN : j > k /\ Onward(w, k, s) = <<j, r>> /\ Onward(v, c + k, s) = <<c + j, r>>
         /\ Counted(v, c + k, s) = Counted(w, k, s)
<1>0. PICK n \in Nat, m \in Nat, i \in Nat : n = Len(w) /\ m = Len(v) /\ m = c + n /\ i = c + k
  BY TextIs DEF Ends
<1>1. PICK yes \in BOOLEAN, no \in BOOLEAN : yes = TRUE /\ no = FALSE
  OBVIOUS
<1>2. PICK x : x = w[k] /\ x = v[i]
  BY <1>0 DEF Ends
<1>3. (k < Len(w) <=> i < Len(v)) /\ (k + 1 < Len(w) <=> i + 1 < Len(v))
  BY <1>0
<1>4. At(w, k + 1) = At(v, i + 1)
  <2>1. CASE k + 1 <= n
    <3>1. k + 1 \in 1..Len(w) /\ c + (k + 1) = i + 1 /\ i + 1 <= m
      BY <1>0, <2>1
    <3>2. w[k + 1] = v[i + 1]
      <4>1. PICK l \in 1..Len(w) : l = k + 1
        BY <3>1
      <4>2. w[l] = v[c + l]
        BY DEF Ends
      <4>3. QED
        BY <3>1, <4>1, <4>2
    <3>3. QED
      BY <1>0, <2>1, <3>1, <3>2, AtIs
  <2>2. CASE ~(k + 1 <= n)
    <3>1. ~(i + 1 <= m)
      BY <1>0, <2>2
    <3>2. QED
      BY <1>0, <2>2, <3>1, Zenon DEF At
  <2>3. QED
    BY <2>1, <2>2
<1>5. Counted(v, i, s) = Counted(w, k, s)
  BY <1>2, <1>3, <1>4, CountedCases
<1>7. OnwardFacts(w, k, s, yes, no) /\ OnwardFacts(v, i, s, yes, no)
  BY <1>1, OnwardCases, Zenon
<1>6. \E j \in Nat, r \in BOOLEAN : j > k /\ Onward(w, k, s) = <<j, r>> /\ Onward(v, i, s) = <<c + j, r>>
  <2>1. CASE s = yes /\ x = Backslash /\ k < Len(w)
    <3>1. Onward(w, k, s) = <<k + 2, yes>> /\ Onward(v, i, s) = <<i + 2, yes>>
      BY <1>1, <1>2, <1>3, <2>1, <1>7 DEF OnwardFacts
    <3>2. k + 2 \in Nat /\ k + 2 > k /\ i + 2 = c + (k + 2)
      BY <1>0
    <3>3. QED
      BY <3>1, <3>2
  <2>2. CASE s = yes /\ ~(x = Backslash /\ k < Len(w))
    <3>1. PICK r \in BOOLEAN : r = (x # DoubleQuote)
      OBVIOUS
    <3>2. Onward(w, k, s) = <<k + 1, r>> /\ Onward(v, i, s) = <<i + 1, r>>
      BY <1>1, <1>2, <1>3, <2>2, <3>1, <1>7 DEF OnwardFacts
    <3>3. k + 1 \in Nat /\ k + 1 > k /\ i + 1 = c + (k + 1)
      BY <1>0
    <3>4. QED
      BY <3>2, <3>3
  <2>3. CASE s = no /\ x = Semicolon
    <3>1. Onward(w, k, s) = <<AfterLine(w, k), no>> /\ Onward(v, i, s) = <<AfterLine(v, i), no>>
      BY <1>1, <1>2, <2>3, <1>7 DEF OnwardFacts
    <3>2. AfterLine(v, i) = c + AfterLine(w, k)
      BY <1>0, AfterLineShift
    <3>3. AfterLine(w, k) \in k+1..Len(w)+1
      BY <1>2, <2>3, PassesComment
    <3>4. AfterLine(w, k) \in Nat /\ AfterLine(w, k) > k
      BY <1>0, <3>3
    <3>5. QED
      BY <3>1, <3>2, <3>4
  <2>4. CASE s = no /\ x # Semicolon /\ x = "#" /\ At(w, k + 1) = Backslash /\ k + 1 < Len(w)
    <3>1. Onward(w, k, s) = <<k + 3, no>> /\ Onward(v, i, s) = <<i + 3, no>>
      BY <1>1, <1>2, <1>3, <1>4, <2>4, <1>7 DEF OnwardFacts
    <3>2. k + 3 \in Nat /\ k + 3 > k /\ i + 3 = c + (k + 3)
      BY <1>0
    <3>3. QED
      BY <3>1, <3>2
  <2>5. CASE s = no /\ x # Semicolon /\ ~(x = "#" /\ At(w, k + 1) = Backslash /\ k + 1 < Len(w))
    <3>1. PICK r \in BOOLEAN : r = (x = DoubleQuote)
      OBVIOUS
    <3>2. Onward(w, k, s) = <<k + 1, r>> /\ Onward(v, i, s) = <<i + 1, r>>
      BY <1>1, <1>2, <1>3, <1>4, <2>5, <3>1, <1>7 DEF OnwardFacts
    <3>3. k + 1 \in Nat /\ k + 1 > k /\ i + 1 = c + (k + 1)
      BY <1>0
    <3>4. QED
      BY <3>2, <3>3
  <2>6. QED
    BY <1>1, <2>1, <2>2, <2>3, <2>4, <2>5
<1>8. QED
  BY <1>0, <1>5, <1>6

(* The end of a text is scanned in the text as it is by itself.            *)
LEMMA ScanShift ==
  ASSUME NEW v \in Texts, NEW w \in Texts, NEW c \in Nat, Ends(v, w, c)
  PROVE  \A s \in BOOLEAN : Scan(w)[<<1, s>>] = Scan(v)[<<c + 1, s>>]
<1>0. PICK n \in Nat, m \in Nat : n = Len(w) /\ m = Len(v) /\ m = c + n
  BY TextIs DEF Ends
<1>1. PICK f, g : f = Scan(w) /\ g = Scan(v)
  OBVIOUS
<1> DEFINE S == {k \in 0..n+1 : k # 0 => \A s \in BOOLEAN : f[<<k, s>>] = g[<<c + k, s>>]}
<1>2. ASSUME NEW k \in Nat, k > n, NEW s \in BOOLEAN PROVE f[<<k, s>>] = g[<<c + k, s>>]
  <2>1. PICK i \in Nat : i = c + k /\ i > m
    BY <1>0, <1>2
  <2>2. f[<<k, s>>] = [depth |-> 0, in_str |-> s] /\ g[<<i, s>>] = [depth |-> 0, in_str |-> s]
    BY <1>0, <1>1, <1>2, <2>1, ScanEnd
  <2>3. QED
    BY <2>1, <2>2
<1>3. ASSUME NEW k \in 0..n+1, \A l \in k+1..n+1 : l \in S PROVE k \in S
  <2>1. SUFFICES ASSUME k # 0, NEW s \in BOOLEAN PROVE f[<<k, s>>] = g[<<c + k, s>>]
    OBVIOUS
  <2>2. CASE k = n + 1
    BY <1>2, <2>2
  <2>3. CASE k # n + 1
    <3>1. k \in 1..Len(w)
      BY <1>0, <2>1, <2>3
    <3>2. PICK j \in Nat, r \in BOOLEAN :
            /\ j > k /\ Onward(w, k, s) = <<j, r>> /\ Onward(v, c + k, s) = <<c + j, r>>
            /\ Counted(v, c + k, s) = Counted(w, k, s)
      BY <3>1, OnwardShift
    <3>3. PICK i \in Nat : i = c + k /\ i \in 1..Len(v)
      BY <1>0, <3>1
    <3>4. f[<<k, s>>] = Deeper(f[<<j, r>>], Counted(w, k, s))
      BY <1>1, <3>1, <3>2, ScanStep
    <3>5. g[<<i, s>>] = Deeper(g[<<c + j, r>>], Counted(w, k, s))
      BY <1>1, <3>2, <3>3, ScanStep
    <3>6. f[<<j, r>>] = g[<<c + j, r>>]
      <4>1. CASE j > n
        BY <1>2, <4>1
      <4>2. CASE ~(j > n)
        <5>1. j \in k+1..n+1
          BY <3>2, <4>2
        <5>2. j \in S /\ j # 0
          BY <1>3, <3>1, <5>1
        <5>3. QED
          BY <5>2
      <4>3. QED
        BY <4>1, <4>2
    <3>7. QED
      BY <3>3, <3>4, <3>5, <3>6
  <2>4. QED
    BY <2>2, <2>3
<1>4. \A k \in 0..n+1 : k \in S
  <2> HIDE DEF S
  <2>1. QED
    BY <1>3, FromEnd
<1>5. \A s \in BOOLEAN : f[<<1, s>>] = g[<<c + 1, s>>]
  <2>1. PICK k \in 0..n+1 : k = 1
    BY <1>0
  <2>2. k \in S /\ k # 0
    BY <1>4, <2>1
  <2>3. \A s \in BOOLEAN : f[<<k, s>>] = g[<<c + k, s>>]
    BY <2>2
  <2>4. QED
    BY <2>1, <2>3
<1>6. QED
  BY <1>1, <1>5

(* A part of a text that is passed is balanced by itself.                  *)
LEMMA PassesPart ==
  ASSUME NEW t \in Texts, NEW i \in 1..Len(t)+1, NEW j \in i..Len(t)+1, NEW d \in Int, Passes(t, i, j, d)
  PROVE  Depth(SubSeq(t, i, j - 1)) = [depth |-> d, in_str |-> FALSE]
<1>0. PICK n \in Nat, c \in Nat : n = Len(t) /\ c = i - 1 /\ i = c + 1
  BY TextIs
<1>1. PICK v, w : v = Cut(t, j) /\ w = SubSeq(t, i, j - 1)
  OBVIOUS
<1>2. j \in 1..Len(t)+1 /\ j \in Nat
  BY <1>0
<1>3. v \in Texts /\ Len(v) = j - 1 /\ \A k \in 1..j-1 : v[k] = t[k]
  BY <1>1, <1>2, CutIs
<1>4. w \in Texts /\ Len(w) = j - i /\ \A k \in 1..j-i : w[k] = t[c + k]
  <2>1. PICK C : C = Characters
    OBVIOUS
  <2>2. t \in Seq(C)
    BY <2>1 DEF Texts
  <2>3. w \in Seq(C) /\ Len(w) = j - i
    BY <1>0, <1>1, <1>2, <2>2
  <2>4. \A k \in 1..j-i : w[k] = t[i + k - 1] /\ i + k - 1 = c + k
    BY <1>0, <1>1, <1>2, <2>2
  <2>5. QED
    BY <2>1, <2>3, <2>4 DEF Texts
<1>5. Ends(v, w, c)
  <2>1. Len(v) = c + Len(w)
    BY <1>0, <1>2, <1>3, <1>4
  <2>2. ASSUME NEW k \in 1..Len(w) PROVE w[k] = v[c + k]
    <3>1. k \in 1..j-i /\ c + k \in 1..j-1
      BY <1>0, <1>2, <1>4
    <3>2. QED
      BY <1>3, <1>4, <3>1
  <2>3. QED
    BY <2>1, <2>2 DEF Ends
<1>6. Scan(v)[<<i, FALSE>>] = [depth |-> d, in_str |-> FALSE]
  BY <1>1, <1>2, PassesAll
<1>7. Scan(w)[<<1, FALSE>>] = Scan(v)[<<i, FALSE>>]
  <2>1. \A s \in BOOLEAN : Scan(w)[<<1, s>>] = Scan(v)[<<i, s>>]
    <3>1. \A s \in BOOLEAN : Scan(w)[<<1, s>>] = Scan(v)[<<c + 1, s>>]
      BY <1>3, <1>4, <1>5, ScanShift
    <3>2. QED
      BY <1>0, <3>1
  <2>2. FALSE \in BOOLEAN
    OBVIOUS
  <2>3. QED
    BY <2>1, <2>2, Zenon
<1>8. QED
  BY <1>1, <1>6, <1>7 DEF Depth

-----------------------------------------------------------------------------
(* Well-typed states.                                                      *)

(* The entries of the packages are symbols.                                *)
Entries(table, ss) == \A n \in DOMAIN table : table[n] \in DOMAIN ss

Tables(ps, ss) ==
  \A p \in DOMAIN ps : Entries(ps[p].external, ss) /\ Entries(ps[p].internal, ss)

LEMMA PutEntries ==
  ASSUME NEW ss, NEW ts, DOMAIN ss \subseteq DOMAIN ts, NEW table, Entries(table, ss),
         NEW n, NEW s \in DOMAIN ts
  PROVE  Entries(Put(table, n, s), ts)
BY DEF Entries, Put

LEMMA EntriesKept ==
  ASSUME NEW ss, NEW ts, DOMAIN ss \subseteq DOMAIN ts, NEW table, Entries(table, ss)
  PROVE  Entries(table, ts)
BY DEF Entries

LEMMA TablesWider ==
  ASSUME NEW ps, NEW ss, Shaped(ps), Tables(ps, ss), NEW q, NEW es, es = Ensured(ps, q)
  PROVE  Tables(es, ss)
<1>1. Wider(ps, q, es)
  BY EnsuredIs
<1>2. q \notin DOMAIN ps => es[q] = EmptyPackage
  BY DEF Ensured
<1>3. Entries(<<>>, ss)
  BY DEF Entries
<1>4. EmptyPackage.external = <<>> /\ EmptyPackage.internal = <<>>
  BY DEF EmptyPackage
<1>5. QED
  BY <1>1, <1>2, <1>3, <1>4 DEF Wider, Tables

LEMMA TablesKept ==
  ASSUME Sound(packages, symbols), Tables(packages, symbols), Changes
  PROVE  Tables(packages', symbols') /\ DOMAIN symbols \subseteq DOMAIN symbols'
<1>0. Shaped(packages) /\ Numbered(symbols)
  BY DEF Sound
<1>1. CASE NoChange
  BY <1>1 DEF NoChange
<1>2. ASSUME NEW q, NEW n, Intern(Ensured(packages, q), q, n)
      PROVE  Tables(packages', symbols') /\ DOMAIN symbols \subseteq DOMAIN symbols'
  <2>1. PICK es : es = Ensured(packages, q)
    OBVIOUS
  <2>2. Tables(es, symbols) /\ Shaped(es) /\ q \in DOMAIN es
    <3>1. Wider(packages, q, es)
      BY <1>0, <2>1, EnsuredIs
    <3>2. Tables(es, symbols)
      BY <1>0, <2>1, TablesWider
    <3>3. QED
      BY <3>1, <3>2 DEF Wider
  <2>3. CASE Found(es, q, n) # 0
    BY <1>2, <2>1, <2>2, <2>3 DEF Intern
  <2>4. CASE Found(es, q, n) = 0
    <3>1. PICK x, ts, qs, s : x = [name |-> n, package |-> q] /\ ts = symbols' /\ qs = packages' /\ s = Len(symbols) + 1
      OBVIOUS
    <3>2. ts = Append(symbols, x) /\ qs = Entered(es, q, n, s)
      BY <1>2, <2>1, <2>4, <3>1 DEF Intern
    <3>3. DOMAIN symbols \subseteq DOMAIN ts /\ s \in DOMAIN ts
      <4>1. OneLonger(symbols, x, ts)
        BY <1>0, <3>2, Appended
      <4>2. QED
        BY <3>1, <4>1 DEF OneLonger
    <3>4. External(es, q, n, s, qs) \/ Internal(es, q, n, s, qs)
      <4>1. CASE q = Keyword
        <5>1. qs = [es EXCEPT ![q].external = Put(@, n, s)]
          BY <3>2, <4>1 DEF Entered
        <5>2. QED
          BY <2>2, <5>1, PutExternal
      <4>2. CASE q # Keyword
        <5>1. qs = [es EXCEPT ![q].internal = Put(@, n, s)]
          BY <3>2, <4>2 DEF Entered
        <5>2. QED
          BY <2>2, <5>1, PutInternal
      <4>3. QED
        BY <4>1, <4>2
    <3>5. Tables(qs, ts)
      <4>1. SUFFICES ASSUME NEW p \in DOMAIN es PROVE Entries(qs[p].external, ts) /\ Entries(qs[p].internal, ts)
        BY <3>4 DEF Tables, External, Internal, Alike
      <4>2. Entries(es[p].external, symbols) /\ Entries(es[p].internal, symbols)
        BY <2>2 DEF Tables
      <4>3. Entries(es[p].external, ts) /\ Entries(es[p].internal, ts)
        BY <3>3, <4>2, EntriesKept
      <4>4. Entries(Put(es[p].external, n, s), ts) /\ Entries(Put(es[p].internal, n, s), ts)
        BY <3>3, <4>2, PutEntries
      <4>5. QED
        BY <3>4, <4>3, <4>4 DEF External, Internal, Alike
    <3>6. QED
      BY <3>1, <3>3, <3>5
  <2>5. QED
    BY <2>3, <2>4
<1>3. ASSUME NEW n, MakeUninterned(n)
      PROVE  Tables(packages', symbols') /\ DOMAIN symbols \subseteq DOMAIN symbols'
  <2>1. PICK x, ts : x = [name |-> n, package |-> NoPackage] /\ ts = symbols'
    OBVIOUS
  <2>2. ts = Append(symbols, x) /\ packages' = packages
    BY <1>3, <2>1 DEF MakeUninterned
  <2>3. DOMAIN symbols \subseteq DOMAIN ts
    BY <1>0, <2>2, Appended DEF OneLonger
  <2>4. Tables(packages, ts)
    BY <2>3, EntriesKept DEF Tables
  <2>5. QED
    BY <2>1, <2>2, <2>3, <2>4
<1>4. ASSUME NEW s \in DOMAIN symbols, Export(s)
      PROVE  Tables(packages', symbols') /\ DOMAIN symbols \subseteq DOMAIN symbols'
  <2>1. PICK q, n, qs : q = Home(s) /\ n = symbols[s].name /\ qs = packages'
    OBVIOUS
  <2>2. /\ qs = [packages EXCEPT ![q].external = Put(@, n, s)] /\ symbols' = symbols
        /\ q = IF symbols[s].package = NoPackage THEN User ELSE symbols[s].package
    BY <1>4, <2>1 DEF Export, Home
  <2>3. q \in DOMAIN packages
    BY <2>2 DEF Sound, Shaped, AllAtHome
  <2>4. External(packages, q, n, s, qs)
    BY <1>0, <2>2, <2>3, PutExternal
  <2>5. Tables(qs, symbols)
    BY <2>4, PutEntries DEF Tables, External, Alike
  <2>6. QED
    BY <2>1, <2>2, <2>5
<1>5. QED
  BY <1>1, <1>2, <1>3, <1>4 DEF Changes, Interns

LEMMA PackagesTyped ==
  ASSUME Sound(packages, symbols), Tables(packages, symbols)
  PROVE  PackageTypeOK
<1>1. Shaped(packages) /\ CL \in DOMAIN packages /\ AllAtHome(packages, symbols)
  BY DEF Sound, Shaped
<1>2. ASSUME NEW p \in DOMAIN packages PROVE packages[p].use \in Seq(DOMAIN packages)
  <2>1. packages[p].use \in {<<>>, <<CL>>}
    BY <1>1 DEF Shaped
  <2>2. ASSUME NEW S, NEW x \in S PROVE <<>> \in Seq(S) /\ <<x>> \in Seq(S)
    OBVIOUS
  <2>3. QED
    BY <1>1, <2>1, <2>2
<1>3. QED
  BY <1>1, <1>2 DEF PackageTypeOK, Tables, Entries, AllAtHome

-----------------------------------------------------------------------------
(* The stack.                                                              *)
Framed(f) ==
  /\ f = [kind |-> f.kind, items |-> f.items]
  /\ f.kind \in Kinds /\ Numbered(f.items) /\ Len(f.items) <= MaxItems

Stacked(st) == \E n \in Nat : st \in [1..n -> {st[k] : k \in 1..n}] /\ \A k \in 1..n : Framed(st[k])

LEMMA StackedIs ==
  ASSUME NEW st, Stacked(st)
  PROVE  /\ Len(st) \in Nat /\ DOMAIN st = 1..Len(st) /\ st \in Seq({st[k] : k \in 1..Len(st)})
         /\ \A k \in 1..Len(st) : Framed(st[k])
<1>1. PICK n \in Nat : st \in [1..n -> {st[k] : k \in 1..n}] /\ \A k \in 1..n : Framed(st[k])
  BY DEF Stacked
<1>2. ASSUME NEW S, NEW f \in [1..n -> S] PROVE f \in Seq(S) /\ Len(f) = n
  OBVIOUS
<1>3. QED
  BY <1>1, <1>2

LEMMA StackedBy ==
  ASSUME NEW n \in Nat, NEW st, DOMAIN st = 1..n, NEW S, st \in Seq(S), \A k \in 1..n : Framed(st[k])
  PROVE  Stacked(st)
<1>1. st \in [1..n -> S]
  OBVIOUS
<1>2. QED
  BY <1>1 DEF Stacked

LEMMA StackedBelow ==
  ASSUME NEW st, Stacked(st), st # <<>>, NEW u, u = SubSeq(st, 1, Len(st) - 1)
  PROVE  Stacked(u) /\ Len(st) \in DOMAIN st
<1>1. PICK n, S : n = Len(st) /\ S = {st[k] : k \in 1..n} 
  OBVIOUS
<1>2. n \in Nat /\ DOMAIN st = 1..n /\ st \in Seq(S) /\ \A k \in 1..n : Framed(st[k])
  BY <1>1, StackedIs
<1>3. n # 0
  BY <1>1, <1>2
<1>4. PICK m : m = n - 1
  OBVIOUS
<1>5. Stacked(u)
  <2>1. DOMAIN u = 1..m /\ u \in Seq(S) /\ m \in Nat /\ \A k \in 1..m : u[k] = st[k] /\ k \in 1..n
    BY <1>1, <1>2, <1>3, <1>4
  <2>2. QED
    BY <1>2, <2>1, StackedBy
<1>6. QED
  BY <1>1, <1>2, <1>3, <1>5

LEMMA StackedTop ==
  ASSUME NEW st, Stacked(st), NEW k \in DOMAIN st, NEW f, Framed(f), NEW u, u = [st EXCEPT ![k] = f]
  PROVE  Stacked(u)
<1>1. PICK n \in Nat : st \in [1..n -> {st[j] : j \in 1..n}] /\ \A j \in 1..n : Framed(st[j])
  BY DEF Stacked
<1>2. u = [j \in 1..n |-> IF j = k THEN f ELSE st[j]]
  BY <1>1
<1>3. \A j \in 1..n : u[j] = IF j = k THEN f ELSE st[j]
  BY <1>2
<1>4. u \in [1..n -> {u[j] : j \in 1..n}]
  BY <1>2
<1>5. QED
  BY <1>1, <1>3, <1>4 DEF Stacked

LEMMA StackedOpen ==
  ASSUME NEW st, Stacked(st), NEW m \in {1, 2}, NEW kinds, DOMAIN kinds = 1..m, \A k \in 1..m : kinds[k] \in Kinds,
         NEW u, u = st \o [k \in DOMAIN kinds |-> [kind |-> kinds[k], items |-> <<>>]]
  PROVE  Stacked(u)
<1>1. PICK n, S, v : n = Len(st) /\ S = {st[k] : k \in 1..n} /\ v = [k \in 1..m |-> [kind |-> kinds[k], items |-> <<>>]]
  OBVIOUS
<1>2. n \in Nat /\ DOMAIN st = 1..n /\ st \in Seq(S) /\ \A k \in 1..n : Framed(st[k])
  BY <1>1, StackedIs
<1>3. ASSUME NEW k \in 1..m PROVE Framed(v[k])
  <2>1. v[k] = [kind |-> kinds[k], items |-> <<>>]
    BY <1>1
  <2>2. PICK e : e = <<>>
    OBVIOUS
  <2>3. Numbered(e) /\ Len(e) <= MaxItems
    BY <2>2, MaxItemsAssumption DEF Numbered
  <2>4. QED
    BY <2>1, <2>2, <2>3 DEF Framed
<1>4. PICK T : T = {v[k] : k \in 1..m}
  OBVIOUS
<1>5. v \in Seq(T) /\ Len(v) = m
  BY <1>1, <1>4
<1>6. u = st \o v
  BY <1>1
<1>7. u \in Seq(S \cup T) /\ Len(u) = n + m /\ \A k \in 1..n+m : u[k] = IF k <= n THEN st[k] ELSE v[k - n]
  <2>1. st \in Seq(S \cup T) /\ v \in Seq(S \cup T)
    BY <1>2, <1>5
  <2>2. QED
    BY <1>1, <1>5, <1>6, <2>1
<1>8. ASSUME NEW k \in 1..n+m PROVE Framed(u[k])
  <2>1. CASE k <= n
    BY <1>2, <1>7, <2>1
  <2>2. CASE ~(k <= n)
    <3>1. k - n \in 1..m
      BY <1>2, <2>2
    <3>2. QED
      BY <1>3, <1>7, <2>2, <3>1
  <2>3. QED
    BY <2>1, <2>2
<1>9. n + m \in Nat /\ DOMAIN u = 1..n+m
  BY <1>2, <1>7
<1>10. QED
  BY <1>7, <1>8, <1>9, StackedBy

Tags == {"nil", "symbol", "string", "char", "list", "vector", "dotted"}

(* What the reader keeps of its own variables.                             *)
ReaderTyped ==
  /\ text \in Texts /\ pos \in 1..Len(text)+1
  /\ phase \in Phases /\ Stacked(stack) /\ value.tag \in Tags /\ error \in Errors

LEMMA DeliverTyped ==
  ASSUME ReaderTyped, text' = text, NEW v, v.tag \in Tags, NEW i \in 1..Len(text)+1, Deliver(v, i),
         Stacked(stack')
  PROVE  ReaderTyped'
BY DEF ReaderTyped, Deliver, Phases

LEMMA Marks == DOMAIN Operator = {"quote", "function"}
BY DEF Operator

LEMMA OpenTyped ==
  ASSUME ReaderTyped, text' = text, NEW m \in {1, 2}, NEW kinds, DOMAIN kinds = 1..m, \A k \in 1..m : kinds[k] \in Kinds,
         NEW next \in Phases, NEW i \in 1..Len(text)+1, Open(kinds, next, i)
  PROVE  ReaderTyped'
<1>1. Stacked(stack)'
  BY StackedOpen DEF Open, ReaderTyped
<1>2. QED
  BY <1>1 DEF Open, ReaderTyped

LEMMA FailTyped ==
  ASSUME ReaderTyped, text' = text, NEW why \in Errors, Fail(why)
  PROVE  ReaderTyped'
<1>1. Stacked(<<>>)
  <2>1. PICK e : e = <<>>
    OBVIOUS
  <2>2. e \in [1..0 -> {e[k] : k \in 1..0}] /\ \A k \in 1..0 : Framed(e[k])
    BY <2>1
  <2>3. Stacked(e)
    BY <2>2 DEF Stacked
  <2>4. QED
    BY <2>1, <2>3
<1>2. QED
  BY <1>1 DEF ReaderTyped, Fail, Phases

LEMMA FormTags == Nil.tag \in Tags /\ Str.tag \in Tags /\ Chr.tag \in Tags
BY DEF Nil, Str, Chr, Form, Tags

LEMMA SymTags ==
  ASSUME NEW s
  PROVE  Sym(s).tag \in Tags
BY DEF Sym, Form, Tags

LEMMA ListTags ==
  ASSUME NEW items
  PROVE  List(items).tag \in Tags
BY DEF List, Nil, Form, Tags

LEMMA VecTags ==
  ASSUME NEW v
  PROVE  Vec(v).tag \in Tags
BY DEF Vec, Form, Tags

LEMMA DottedTags ==
  ASSUME NEW items, NEW tail, tail.tag \in Tags
  PROVE  Dotted(items, tail).tag \in Tags
BY DEF Dotted, Form, Tags

(* A place that has a character has one after it, or the end.              *)
LEMMA After ==
  ASSUME NEW t \in Texts, NEW i \in 1..Len(t)+1, NEW c, At(t, i) = c, c # "eof"
  PROVE  i \in 1..Len(t) /\ i + 1 \in 1..Len(t)+1
<1>1. i <= Len(t)
  BY NotEnd
<1>2. PICK n \in Nat : n = Len(t)
  BY TextLength
<1>3. QED
  BY <1>1, <1>2

(* What # starts.                                                          *)
LEMMA SharpTyped ==
  ASSUME ReaderTyped, text' = text, NEW i \in 1..Len(text)+1, At(text, i) = "#", ReadSharp(i)
  PROVE  ReaderTyped'
<1>1. PICK n \in Nat : n = Len(text)
  BY TextLength DEF ReaderTyped
<1>2. text \in Texts
  BY DEF ReaderTyped
<1>3. i + 1 \in 1..Len(text)+1 /\ i \in 1..n
  BY <1>1, <1>2, After
<1>4. ASSUME NEW c, At(text, i + 1) = c, c # "eof" PROVE i + 2 \in 1..Len(text)+1
  <2>1. i + 1 <= Len(text)
    BY <1>4, NotEnd
  <2>2. QED
    BY <1>1, <1>3, <2>1
<1>5. CASE At(text, i + 1) = "'" /\ Open(<<"function">>, "expr", i + 2)
  <2>1. PICK kinds : kinds = <<"function">>
    OBVIOUS
  <2>2. DOMAIN kinds = 1..1 /\ (\A k \in 1..1 : kinds[k] \in Kinds) /\ "expr" \in Phases
    BY <2>1 DEF Kinds, Phases
  <2>3. i + 2 \in 1..Len(text)+1
    BY <1>4, <1>5
  <2>4. QED
    BY <1>5, <2>1, <2>2, <2>3, OpenTyped
<1>6. CASE At(text, i + 1) = "(" /\ Open(<<"vector", "list">>, "loop", i + 2)
  <2>1. PICK kinds : kinds = <<"vector", "list">>
    OBVIOUS
  <2>2. DOMAIN kinds = 1..2 /\ (\A k \in 1..2 : kinds[k] \in Kinds) /\ "loop" \in Phases
    BY <2>1 DEF Kinds, Phases
  <2>3. i + 2 \in 1..Len(text)+1
    BY <1>4, <1>6
  <2>4. QED
    BY <1>6, <2>1, <2>2, <2>3, OpenTyped
<1>7. CASE At(text, i + 1) = "+" /\ Open(<<"test">>, "expr", i + 2)
  <2>1. PICK kinds : kinds = <<"test">>
    OBVIOUS
  <2>2. DOMAIN kinds = 1..1 /\ (\A k \in 1..1 : kinds[k] \in Kinds) /\ "expr" \in Phases
    BY <2>1 DEF Kinds, Phases
  <2>3. i + 2 \in 1..Len(text)+1
    BY <1>4, <1>7
  <2>4. QED
    BY <1>7, <2>1, <2>2, <2>3, OpenTyped
<1>8. CASE i + 2 <= Len(text) /\ UNCHANGED stack /\ Deliver(Chr, CharEnd(text \o <<"eof">>, i + 2) + 1)
  <2>1. PICK e : e = CharEnd(text \o <<"eof">>, i + 2)
    OBVIOUS
  <2>2. i + 2 \in 1..Len(text)
    BY <1>1, <1>3, <1>8
  <2>3. e \in i+2..Len(text)
    BY <1>2, <2>1, <2>2, CharEndIs
  <2>4. e + 1 \in 1..Len(text)+1
    BY <1>1, <1>3, <2>3
  <2>5. Stacked(stack)'
    BY <1>8 DEF ReaderTyped
  <2>6. QED
    BY <1>8, <2>1, <2>4, <2>5, FormTags, DeliverTyped
<1>9. CASE Fail("bad #")
  BY <1>9, FailTyped DEF Errors
<1>10. QED
  BY <1>5, <1>6, <1>7, <1>8, <1>9, Zenon DEF ReadSharp

LEMMA OtherTyped ==
  ASSUME ReaderTyped, text' = text, NEW i \in 1..Len(text)+1, ReadOther(i), ~IsToken(i)
  PROVE  ReaderTyped'
<1>1. text \in Texts
  BY DEF ReaderTyped
<1>2. ASSUME NEW c, At(text, i) = c, c # "eof" PROVE i + 1 \in 1..Len(text)+1
  BY <1>1, <1>2, After
<1>3. CASE UNCHANGED stack /\ Deliver(Nil, i)
  <2>1. Stacked(stack)'
    BY <1>3 DEF ReaderTyped
  <2>2. QED
    BY <1>3, <2>1, FormTags, DeliverTyped
<1>4. CASE At(text, i) = "(" /\ Open(<<"list">>, "loop", i + 1)
  <2>1. PICK kinds : kinds = <<"list">>
    OBVIOUS
  <2>2. DOMAIN kinds = 1..1 /\ (\A k \in 1..1 : kinds[k] \in Kinds) /\ "loop" \in Phases
    BY <2>1 DEF Kinds, Phases
  <2>3. QED
    BY <1>2, <1>4, <2>1, <2>2, OpenTyped
<1>5. CASE Fail("unexpected )")
  BY <1>5, FailTyped DEF Errors
<1>6. CASE At(text, i) = "'" /\ Open(<<"quote">>, "expr", i + 1)
  <2>1. PICK kinds : kinds = <<"quote">>
    OBVIOUS
  <2>2. DOMAIN kinds = 1..1 /\ (\A k \in 1..1 : kinds[k] \in Kinds) /\ "expr" \in Phases
    BY <2>1 DEF Kinds, Phases
  <2>3. QED
    BY <1>2, <1>6, <2>1, <2>2, OpenTyped
<1>7. CASE At(text, i) = "#" /\ ReadSharp(i)
  BY <1>7, SharpTyped
<1>8. CASE Fail("unterminated string")
  BY <1>8, FailTyped DEF Errors
<1>9. CASE StringEnd(text, i + 1) # 0 /\ UNCHANGED stack /\ Deliver(Str, StringEnd(text, i + 1))
  <2>0. PICK n, e : n = Len(text) /\ e = StringEnd(text, i + 1)
    OBVIOUS
  <2>1. n \in Nat
    BY <1>1, <2>0, TextLength
  <2>2. i <= n
    <3>1. i > n => StringEnd(text, i + 1) = 0
      <4>1. PICK k : k = i + 1
        OBVIOUS
      <4>2. i > n => k \in Nat /\ k > Len(text)
        BY <2>0, <2>1, <4>1
      <4>3. QED
        BY <1>1, <4>1, <4>2, StringEndIs, Zenon
    <3>2. QED
      BY <1>9, <2>0, <2>1, <3>1
  <2>3. i + 1 \in 0..Len(text)+1
    BY <2>0, <2>1, <2>2
  <2>4. e \in i+2..Len(text)+1
    <3>1. PICK k : k = i + 1
      OBVIOUS
    <3>2. e \in k+1..Len(text)+1
      BY <1>1, <1>9, <2>0, <2>3, <3>1, StringEndRange
    <3>3. QED
      BY <2>0, <2>1, <3>1, <3>2
  <2>5. e \in 1..Len(text)+1
    BY <2>0, <2>1, <2>4
  <2>6. Stacked(stack)'
    BY <1>9 DEF ReaderTyped
  <2>7. QED
    BY <1>9, <2>0, <2>5, <2>6, FormTags, DeliverTyped
<1>10. QED
  BY <1>3, <1>4, <1>5, <1>6, <1>7, <1>8, <1>9, Zenon DEF ReadOther, IsToken

LEMMA ExprTyped ==
  ASSUME ReaderTyped, ReadExpr
  PROVE  ReaderTyped'
<1>1. text \in Texts /\ text' = text /\ pos \in 0..Len(text)+1
  BY TextLength DEF ReaderTyped, ReadExpr
<1>0. PICK n \in Nat : n = Len(text)
  BY <1>1, TextLength
<1>2. PICK i : /\ i = Skip(text, pos)
               /\ IF IsToken(i) THEN ReadToken(i, Token(i))
                  ELSE IF IsUninterned(i) THEN ReadUninterned(i + 2, Token(i + 2))
                  ELSE ReadOther(i)
  BY DEF ReadExpr
<1>3. i \in 1..Len(text)+1
  <2>1. i \in pos..Len(text)+1
    BY <1>1, <1>2, SkipRange
  <2>2. QED
    BY <1>0, <2>1 DEF ReaderTyped
<1>4. CASE IsToken(i)
  <2>1. i \in 1..Len(text)
    <3>1. At(text, i) # "eof"
      BY <1>4 DEF IsToken
    <3>2. QED
      BY <1>1, <1>3, <3>1, After
  <2>2. ReadToken(i, Token(i))
    BY <1>2, <1>4
  <2>3. CASE Deliver(Nil, i + 1) /\ UNCHANGED stack
    <3>1. i + 1 \in 1..Len(text)+1 /\ Stacked(stack)'
      BY <1>0, <2>1, <2>3 DEF ReaderTyped
    <3>2. QED
      BY <1>1, <2>3, <3>1, FormTags, DeliverTyped
  <2>4. CASE ReadSymbol(i, Token(i))
    <3>1. PICK s, e : Deliver(Sym(s), e) /\ e = i + Len(Token(i)) /\ UNCHANGED stack
      BY <2>4 DEF ReadSymbol
    <3>2. e \in i..Len(text)+1
      BY <1>1, <1>3, <3>1, TokenIs
    <3>3. e \in 1..Len(text)+1 /\ Stacked(stack)'
      BY <1>0, <1>3, <3>1, <3>2 DEF ReaderTyped
    <3>4. QED
      BY <1>1, <3>1, <3>3, SymTags, DeliverTyped
  <2>5. QED
    BY <2>2, <2>3, <2>4 DEF ReadToken
<1>5. CASE ~IsToken(i) /\ IsUninterned(i)
  <2>1. PICK k : k = i + 2
    OBVIOUS
  <2>2. i + 1 <= Len(text)
    <3>1. At(text, i + 1) # "eof"
      BY <1>5 DEF IsUninterned
    <3>2. QED
      BY <3>1, NotEnd
  <2>3. k \in 1..Len(text)+1
    BY <1>0, <1>3, <2>1, <2>2
  <2>4. ReadUninterned(k, Token(k))
    BY <1>2, <1>5, <2>1
  <2>5. PICK s, e : Deliver(Sym(s), e) /\ e = k + Len(Token(k)) /\ UNCHANGED stack
    BY <2>4 DEF ReadUninterned
  <2>6. e \in k..Len(text)+1
    BY <1>1, <2>3, <2>5, TokenIs
  <2>7. e \in 1..Len(text)+1 /\ Stacked(stack)'
    BY <1>0, <2>3, <2>5, <2>6 DEF ReaderTyped
  <2>8. QED
    BY <1>1, <2>5, <2>7, SymTags, DeliverTyped
<1>6. CASE ~IsToken(i) /\ ~IsUninterned(i)
  BY <1>1, <1>2, <1>3, <1>6, OtherTyped
<1>7. QED
  BY <1>4, <1>5, <1>6

(* A frame on top of the stack changes its kind, or has an element more.   *)
LEMMA FrameKind ==
  ASSUME NEW st, Stacked(st), NEW k \in DOMAIN st, NEW kind \in Kinds, NEW u, u = [st EXCEPT ![k].kind = kind]
  PROVE  Stacked(u)
<1>1. PICK f : f = [st[k] EXCEPT !.kind = kind]
  OBVIOUS
<1>2. Framed(st[k])
  BY StackedIs
<1>3. f = [kind |-> kind, items |-> st[k].items]
  BY <1>1, <1>2 DEF Framed
<1>4. Framed(f)
  BY <1>2, <1>3 DEF Framed
<1>5. u = [st EXCEPT ![k] = f]
  BY <1>1
<1>6. QED
  BY <1>4, <1>5, StackedTop

LEMMA FrameItems ==
  ASSUME NEW st, Stacked(st), NEW k \in DOMAIN st, NEW v, NEW u, u = [st EXCEPT ![k].items = Kept(@, v)]
  PROVE  Stacked(u)
<1>1. PICK f, items : f = [st[k] EXCEPT !.items = items] /\ items = Kept(st[k].items, v)
  OBVIOUS
<1>2. Framed(st[k])
  BY StackedIs
<1>3. f = [kind |-> st[k].kind, items |-> items]
  BY <1>1, <1>2 DEF Framed
<1>4. Numbered(items) /\ Len(items) <= MaxItems
  <2>1. CASE ~(Len(st[k].items) < MaxItems)
    BY <1>1, <1>2, <2>1 DEF Framed, Kept
  <2>2. CASE Len(st[k].items) < MaxItems
    <3>1. items = Append(st[k].items, v)
      BY <1>1, <2>2 DEF Kept
    <3>2. OneLonger(st[k].items, v, items)
      BY <1>2, <3>1, Appended DEF Framed
    <3>3. Len(items) = Len(st[k].items) + 1
      <4>1. ASSUME NEW S, NEW s \in Seq(S) PROVE DOMAIN s = 1..Len(s) /\ Len(s) \in Nat
        OBVIOUS
      <4>2. DOMAIN items = 1..Len(items) /\ Len(items) \in Nat /\ Len(st[k].items) \in Nat
        BY <3>2, <4>1 DEF Numbered, OneLonger
      <4>3. QED
        BY <3>2, <4>2 DEF OneLonger
    <3>4. Len(st[k].items) \in Nat
      BY <3>2 DEF OneLonger
    <3>5. QED
      BY <2>2, <3>2, <3>3, <3>4, MaxItemsAssumption DEF OneLonger
  <2>3. QED
    BY <2>1, <2>2
<1>5. Framed(f)
  BY <1>2, <1>3, <1>4 DEF Framed
<1>6. u = [st EXCEPT ![k] = f]
  BY <1>1
<1>7. QED
  BY <1>5, <1>6, StackedTop

LEMMA Nothing == Stacked(<<>>)
<1>1. PICK e : e = <<>>
  OBVIOUS
<1>2. e \in [1..0 -> {e[k] : k \in 1..0}] /\ \A k \in 1..0 : Framed(e[k])
  BY <1>1
<1>3. Stacked(e)
  BY <1>2 DEF Stacked
<1>4. QED
  BY <1>1, <1>3

LEMMA BelowTyped ==
  ASSUME ReaderTyped, stack' = Below
  PROVE  Stacked(stack')
<1>1. CASE stack = <<>>
  <2>1. ASSUME NEW e, e = <<>> PROVE SubSeq(e, 1, Len(e) - 1) = <<>>
    BY <2>1
  <2>2. QED
    BY <1>1, <2>1, Nothing DEF Below
<1>2. CASE stack # <<>>
  BY <1>2, StackedBelow DEF Below, ReaderTyped
<1>3. QED
  BY <1>1, <1>2

LEMMA KindTyped ==
  ASSUME ReaderTyped, NEW kind \in Kinds, stack' = [stack EXCEPT ![Len(stack)].kind = kind]
  PROVE  Stacked(stack')
<1>1. CASE Len(stack) \in DOMAIN stack
  BY <1>1, FrameKind DEF ReaderTyped
<1>2. CASE Len(stack) \notin DOMAIN stack
  <2>1. stack = [k \in DOMAIN stack |-> stack[k]]
    BY DEF ReaderTyped, Stacked
  <2>2. stack' = stack
    BY <1>2, <2>1
  <2>3. QED
    BY <2>2 DEF ReaderTyped
<1>3. QED
  BY <1>1, <1>2

LEMMA ListTyped ==
  ASSUME ReaderTyped, ReadList
  PROVE  ReaderTyped'
<1>1. text \in Texts /\ text' = text /\ pos \in 0..Len(text)+1
  <2>1. text' = text
    BY Zenon DEF ReadList
  <2>2. QED
    BY <2>1, TextLength DEF ReaderTyped
<1>0. PICK n \in Nat : n = Len(text)
  BY <1>1, TextLength
<1>2. PICK i : /\ i = Skip(text, pos)
               /\ CASE At(text, i) = "eof" -> Fail("unterminated list")
                    [] At(text, i) = ")" -> stack' = Below /\ Deliver(List(Top.items), i + 1)
                    [] IsDot(i) ->
                         /\ stack' = [stack EXCEPT ![Len(stack)].kind = "dotted"]
                         /\ phase' = "expr" /\ pos' = i + 1
                         /\ UNCHANGED <<value, error>>
                    [] OTHER -> phase' = "expr" /\ pos' = i /\ UNCHANGED <<stack, value, error>>
  BY DEF ReadList
<1>3. i \in 1..Len(text)+1
  <2>1. i \in pos..Len(text)+1
    BY <1>1, <1>2, SkipRange
  <2>2. QED
    BY <1>0, <2>1 DEF ReaderTyped
<1>4. ASSUME NEW c, At(text, i) = c, c # "eof" PROVE i + 1 \in 1..Len(text)+1
  BY <1>1, <1>3, <1>4, After
<1>5. CASE Fail("unterminated list")
  BY <1>1, <1>5, FailTyped DEF Errors
<1>6. CASE At(text, i) = ")" /\ stack' = Below /\ Deliver(List(Top.items), i + 1)
  <2>1. i + 1 \in 1..Len(text)+1
    BY <1>4, <1>6
  <2>2. QED
    BY <1>1, <1>6, <2>1, BelowTyped, ListTags, DeliverTyped
<1>7. CASE /\ IsDot(i) /\ stack' = [stack EXCEPT ![Len(stack)].kind = "dotted"]
           /\ phase' = "expr" /\ pos' = i + 1 /\ UNCHANGED <<value, error>>
  <2>1. i + 1 \in 1..Len(text)+1
    BY <1>4, <1>7 DEF IsDot
  <2>2. Stacked(stack)'
    BY <1>7, KindTyped DEF Kinds
  <2>3. QED
    BY <1>1, <1>7, <2>1, <2>2 DEF ReaderTyped, Phases
<1>8. CASE phase' = "expr" /\ pos' = i /\ UNCHANGED <<stack, value, error>>
  BY <1>1, <1>3, <1>8 DEF ReaderTyped, Phases
<1>9. QED
  BY <1>2, <1>5, <1>6, <1>7, <1>8, Zenon

LEMMA ResumeTyped ==
  ASSUME ReaderTyped, Resume
  PROVE  ReaderTyped'
<1>1. text \in Texts /\ text' = text /\ pos \in 1..Len(text)+1 /\ pos \in 0..Len(text)+1
  <2>1. text' = text
    BY Zenon DEF Resume
  <2>2. QED
    BY <2>1, TextLength DEF ReaderTyped
<1>0. PICK n \in Nat : n = Len(text)
  BY <1>1, TextLength
<1>2. value.tag \in Tags
  BY DEF ReaderTyped
<1>3. CASE /\ stack' = [stack EXCEPT ![Len(stack)].items = Kept(@, value)]
           /\ phase' = "loop" /\ UNCHANGED <<pos, value, error>>
  <2>1. Stacked(stack')
    <3>1. CASE Len(stack) \in DOMAIN stack
      BY <1>3, <3>1, FrameItems DEF ReaderTyped
    <3>2. CASE Len(stack) \notin DOMAIN stack
      <4>1. stack = [k \in DOMAIN stack |-> stack[k]]
        BY DEF ReaderTyped, Stacked
      <4>2. stack' = stack
        BY <1>3, <3>2, <4>1
      <4>3. QED
        BY <4>2 DEF ReaderTyped
    <3>3. QED
      BY <3>1, <3>2
  <2>2. QED
    BY <1>1, <1>3, <2>1 DEF ReaderTyped, Phases
<1>4. CASE Fail("expected )")
  BY <1>1, <1>4, FailTyped DEF Errors
<1>5. CASE /\ At(text, Skip(text, pos)) = ")"
           /\ stack' = Below /\ Deliver(Dotted(Top.items, value), Skip(text, pos) + 1)
  <2>1. PICK i : i = Skip(text, pos)
    OBVIOUS
  <2>2. i \in 1..Len(text)+1
    <3>1. i \in pos..Len(text)+1
      BY <1>1, <2>1, SkipRange
    <3>2. QED
      BY <1>0, <1>1, <3>1
  <2>3. i + 1 \in 1..Len(text)+1
    BY <1>1, <1>5, <2>1, <2>2, After
  <2>4. QED
    BY <1>1, <1>2, <1>5, <2>1, <2>3, BelowTyped, DottedTags, DeliverTyped
<1>6. CASE stack' = Below /\ Deliver(Vec(value), pos)
  BY <1>1, <1>6, BelowTyped, VecTags, DeliverTyped
<1>7. CASE stack' = Below /\ Deliver(List(<<Sym(Operator[Top.kind]), value>>), pos)
  BY <1>1, <1>7, BelowTyped, ListTags, DeliverTyped
<1>8. CASE /\ stack' = [stack EXCEPT ![Len(stack)].kind = "tested"]
           /\ phase' = "expr" /\ UNCHANGED <<pos, value, error>>
  <2>1. Stacked(stack)'
    BY <1>8, KindTyped DEF Kinds
  <2>2. QED
    BY <1>1, <1>8, <2>1 DEF ReaderTyped, Phases
<1>9. CASE stack' = Below /\ Deliver(value, pos)
  BY <1>1, <1>2, <1>9, BelowTyped, DeliverTyped
<1>10. Stacked(stack) /\ stack # <<>>
  BY DEF ReaderTyped, Resume
<1>11. Top.kind \in Kinds
  <2>1. PICK k : k = Len(stack)
    OBVIOUS
  <2>2. k \in DOMAIN stack /\ DOMAIN stack = 1..Len(stack) /\ \A j \in 1..Len(stack) : Framed(stack[j])
    BY <1>10, <2>1, StackedIs, StackedBelow
  <2>3. Framed(stack[k])
    BY <2>2
  <2>4. QED
    BY <2>1, <2>3 DEF Top, Framed
<1>12. QED
  <2>1. \/ Top.kind = "list" \/ Top.kind = "dotted" \/ Top.kind = "vector" \/ Top.kind \in DOMAIN Operator
        \/ Top.kind = "test" \/ Top.kind = "tested"
    BY <1>11, Marks DEF Kinds
  <2>2. QED
    BY <1>3, <1>4, <1>5, <1>6, <1>7, <1>8, <1>9, <2>1, Zenon DEF Resume

LEMMA ReadTyped ==
  ASSUME ReaderTyped, ReaderStep
  PROVE  ReaderTyped'
BY ExprTyped, ListTyped, ResumeTyped DEF ReaderStep

-----------------------------------------------------------------------------
(* The REPL.                                                               *)
Line(l) == l \in Texts /\ Len(l) < Cap

Script(s) == \E n \in Nat : s \in [1..n -> Texts] /\ \A i \in 1..n : Len(s[i]) < Cap

LEMMA ScriptIs ==
  ASSUME NEW s, Script(s), s # <<>>
  PROVE  Line(Head(s)) /\ Script(Tail(s))
<1>1. PICK n \in Nat : s \in [1..n -> Texts] /\ \A i \in 1..n : Len(s[i]) < Cap
  BY DEF Script
<1>2. ASSUME NEW S, NEW f \in [1..n -> S], f # <<>>
      PROVE  /\ f \in Seq(S) /\ Len(f) = n /\ n - 1 \in Nat /\ Head(f) = f[1] /\ 1 \in 1..n
             /\ Tail(f) \in [1..n-1 -> S] /\ \A i \in 1..n-1 : Tail(f)[i] = f[i + 1] /\ i + 1 \in 1..n
  <2>1. f \in Seq(S) /\ Len(f) = n /\ n # 0
    BY <1>2
  <2>2. n - 1 \in Nat /\ Head(f) = f[1] /\ 1 \in 1..n /\ Tail(f) \in Seq(S) /\ Len(Tail(f)) = n - 1
    BY <2>1
  <2>3. \A i \in 1..n-1 : Tail(f)[i] = f[i + 1] /\ i + 1 \in 1..n
    BY <2>1, <2>2
  <2>4. ASSUME NEW g \in Seq(S) PROVE g \in [1..Len(g) -> S]
    OBVIOUS
  <2>5. QED
    BY <2>1, <2>2, <2>3, <2>4
<1>3. Line(Head(s))
  BY <1>1, <1>2 DEF Line
<1>4. PICK m, u : m = n - 1 /\ u = Tail(s)
  OBVIOUS
<1>5. m \in Nat /\ u \in [1..m -> Texts] /\ \A i \in 1..m : u[i] = s[i + 1] /\ i + 1 \in 1..n
  BY <1>1, <1>2, <1>4
<1>6. \A i \in 1..m : Len(u[i]) < Cap
  BY <1>1, <1>5
<1>7. QED
  BY <1>3, <1>4, <1>5, <1>6 DEF Script

LEMMA StrippedLine ==
  ASSUME NEW l, Line(l)
  PROVE  Line(Stripped(l))
<1>1. CASE ~Continues(l)
  BY <1>1 DEF Stripped
<1>2. CASE Continues(l)
  <2>1. l # <<>> /\ l \in Texts
    BY <1>2 DEF Continues, Line
  <2>2. ASSUME NEW S, NEW f \in Seq(S), f # <<>> PROVE Front(f) \in Seq(S) /\ Len(Front(f)) = Len(f) - 1 /\ Len(f) \in Nat
    <3>1. PICK n : n = Len(f) /\ n \in Nat /\ n # 0
      BY <2>2
    <3>2. SubSeq(f, 1, n - 1) \in Seq(S) /\ Len(SubSeq(f, 1, n - 1)) = n - 1
      BY <3>1
    <3>3. QED
      BY <3>1, <3>2 DEF Front
  <2>3. Front(l) \in Texts /\ Len(Front(l)) = Len(l) - 1 /\ Len(l) \in Nat
    BY <2>1, <2>2 DEF Texts
  <2>4. QED
    BY <1>2, <2>3, CapAssumption DEF Stripped, Line
<1>3. QED
  BY <1>1, <1>2

LEMMA JoinedLine ==
  ASSUME NEW t, Line(t), NEW l, Line(l)
  PROVE  Line(Joined(t, l))
<1>1. CASE ~(Len(t) + Len(l) + 2 < Cap)
  BY <1>1 DEF Joined
<1>2. CASE Len(t) + Len(l) + 2 < Cap
  <2>1. PICK c : c = "\n" /\ c \in Characters
    BY DEF Characters, Blanks
  <2>2. Joined(t, l) = t \o <<c>> \o l
    BY <1>2, <2>1 DEF Joined
  <2>3. ASSUME NEW S, NEW f \in Seq(S), NEW g \in Seq(S), NEW x \in S
        PROVE f \o <<x>> \o g \in Seq(S) /\ Len(f \o <<x>> \o g) = Len(f) + 1 + Len(g) /\ Len(f) \in Nat /\ Len(g) \in Nat
    OBVIOUS
  <2>4. Joined(t, l) \in Texts /\ Len(Joined(t, l)) = Len(t) + 1 + Len(l) /\ Len(t) \in Nat /\ Len(l) \in Nat
    BY <2>1, <2>2, <2>3 DEF Line, Texts
  <2>5. QED
    BY <1>2, <2>4, CapAssumption DEF Line
<1>3. QED
  BY <1>1, <1>2

(* TypeOK with what it needs: the lines to come fit into the buffer, and   *)
(* between two inputs the reader is at the start.                          *)
AtStart == pos = 1 /\ begin = 0 /\ source = "line"

ReplTyped ==
  /\ Script(script)
  /\ stage \in {"prompt", "more", "forms", "ended"} /\ source \in {"line", "end", "file"} /\ mode \in Modes
  /\ begin \in 0..Len(text)+1
  /\ phase # "idle" => stage = "forms"
  /\ source # "file" => Len(text) < Cap
  /\ stage \in {"prompt", "more"} => AtStart

Typed == Sound(packages, symbols) /\ Tables(packages, symbols) /\ ReaderTyped /\ ReplTyped

LEMMA TypedIs ==
  ASSUME Typed
  PROVE  TypeOK
<1>1. PackageTypeOK
  BY PackagesTyped DEF Typed
<1>2. \A k \in DOMAIN stack : stack[k].kind \in Kinds /\ Len(stack[k].items) <= MaxItems
  BY StackedIs DEF Typed, ReaderTyped, Framed
<1>3. ReaderTypeOK
  BY <1>1, <1>2 DEF Typed, ReaderTyped, ReaderTypeOK, Tags
<1>4. QED
  BY <1>3 DEF Typed, ReplTyped, TypeOK

LEMMA EmptyText == <<>> \in Texts /\ Len(<<>>) = 0
BY DEF Texts

LEMMA InitTyped ==
  ASSUME Init
  PROVE  Typed
<1>1. Sound(packages, symbols)
  BY InitSound DEF Init
<1>2. symbols = <<[name |-> <<"QUOTE">>, package |-> CL], [name |-> <<"FUNCTION">>, package |-> CL]>>
  BY DEF Init, PackageInit
<1>3. Tables(packages, symbols)
  <2>1. DOMAIN symbols = {1, 2}
    BY <1>2
  <2>2. DOMAIN packages = {CL, User, Keyword}
    BY DEF Init, PackageInit
  <2>3. PICK e : e = <<>>
    OBVIOUS
  <2>4. DOMAIN EmptyPackage = {"external", "internal", "use"} /\ EmptyPackage.external = e /\ EmptyPackage.internal = e
    BY <2>3 DEF EmptyPackage
  <2>5. Entries(e, symbols)
    BY <2>3 DEF Entries
  <2>6. Entries(Put(Put(e, <<"QUOTE">>, 1), <<"FUNCTION">>, 2), symbols)
    <3>1. Entries(Put(e, <<"QUOTE">>, 1), symbols)
      BY <2>1, <2>5, PutEntries
    <3>2. QED
      BY <2>1, <3>1, PutEntries
  <2>7. ASSUME NEW p \in DOMAIN packages
        PROVE  /\ packages[p].internal = e
               /\ packages[p].external = e \/ packages[p].external = Put(Put(e, <<"QUOTE">>, 1), <<"FUNCTION">>, 2)
    <3>1. \/ packages[p] = [EmptyPackage EXCEPT !.external = Put(Put(e, <<"QUOTE">>, 1), <<"FUNCTION">>, 2)]
          \/ packages[p] = [EmptyPackage EXCEPT !.use = <<CL>>]
          \/ packages[p] = EmptyPackage
      BY <2>2, <2>3, Distinct DEF Init, PackageInit, QUOTE, FUNCTION
    <3>2. QED
      BY <2>4, <3>1
  <2>8. QED
    BY <2>5, <2>6, <2>7 DEF Tables
<1>4. ReaderTyped
  <2>1. pos \in 1..Len(text)+1
    BY EmptyText DEF Init, ReaderInit
  <2>2. QED
    BY <2>1, EmptyText, Nothing, FormTags DEF Init, ReaderInit, ReaderTyped, Phases, Errors
<1>5. Script(script)
  <2>1. script \in Seq(Seq(Characters)) /\ \A i \in DOMAIN script : Len(script[i]) < Cap
    BY LinesAssumption DEF Init
  <2>2. ASSUME NEW S, NEW f \in Seq(S) PROVE Len(f) \in Nat /\ f \in [1..Len(f) -> S] /\ DOMAIN f = 1..Len(f)
    OBVIOUS
  <2>3. QED
    BY <2>1, <2>2 DEF Script, Texts
<1>6. begin \in 0..Len(text)+1 /\ Len(text) < Cap
  BY EmptyText, CapAssumption DEF Init, ReaderInit
<1>7. ReplTyped
  BY <1>5, <1>6 DEF Init, ReaderInit, ReplTyped, AtStart, Modes
<1>8. QED
  BY <1>1, <1>3, <1>4, <1>7 DEF Typed

(* A text is handed to the reader.                                         *)
LEMMA BeginTyped ==
  ASSUME Typed, NEW t \in Texts, NEW from \in {"line", "end", "file"}, from # "file" => Len(t) < Cap,
         Begin(t, from), Script(script')
  PROVE  ReaderTyped' /\ ReplTyped'
<1>1. 1 \in 1..Len(t)+1 /\ 0 \in 0..Len(t)+1
  BY TextLength
<1>2. /\ stage' = "forms" /\ text' = t /\ source' = from /\ pos' = 1 /\ begin' = 0 /\ phase' = "idle"
      /\ stack' = stack /\ value' = value /\ error' = error /\ mode' = mode
  BY DEF Begin
<1>3. ReaderTyped'
  BY <1>1, <1>2 DEF Typed, ReaderTyped, Phases
<1>4. QED
  BY <1>1, <1>2, <1>3 DEF Typed, ReplTyped

LEMMA HandTyped ==
  ASSUME Typed, NEW t, Line(t), NEW from \in {"line", "end"}, Hand(t, from), Script(script')
  PROVE  ReaderTyped' /\ ReplTyped'
<1>1. CASE Begin(t, from)
  BY <1>1, BeginTyped DEF Line
<1>2. ASSUME NEW file \in Files, Begin(file, "file") PROVE ReaderTyped' /\ ReplTyped'
  <2>1. file \in Texts
    BY LinesAssumption DEF Texts
  <2>2. QED
    BY <1>2, <2>1, BeginTyped
<1>3. QED
  BY <1>1, <1>2 DEF Hand

LEMMA CollectTyped ==
  ASSUME Typed, stage \in {"prompt", "more"}, NEW t, Line(t), Collect(t), Script(script')
  PROVE  ReaderTyped' /\ ReplTyped'
<1>1. 1 \in 1..Len(t)+1 /\ 0 \in 0..Len(t)+1 /\ t \in Texts /\ Len(t) < Cap
  BY TextLength DEF Line
<1>2. /\ stage' = "more" /\ text' = t /\ source' = source /\ pos' = pos /\ begin' = begin /\ phase' = phase
      /\ stack' = stack /\ value' = value /\ error' = error /\ mode' = mode
  BY DEF Collect
<1>3. pos = 1 /\ begin = 0 /\ source = "line" /\ phase = "idle"
  BY DEF Typed, ReplTyped, AtStart
<1>4. ReaderTyped'
  BY <1>1, <1>2, <1>3 DEF Typed, ReaderTyped
<1>5. QED
  BY <1>1, <1>2, <1>3, <1>4 DEF Typed, ReplTyped, AtStart

(* Nothing but the phase, the place and the mode changes.                  *)
LEMMA StepTyped ==
  ASSUME Typed, [Next]_vars
  PROVE  ReaderTyped' /\ ReplTyped'
<1>0. PICK n \in Nat : n = Len(text)
  BY TextLength DEF Typed, ReaderTyped
<1>1. CASE TypeLine
  <2>1. PICK l : l = Head(script)
    OBVIOUS
  <2>2. Line(l) /\ Line(Stripped(l)) /\ Script(script')
    BY <1>1, <2>1, ScriptIs, StrippedLine DEF TypeLine, Typed, ReplTyped
  <2>3. CASE l = <<>>
    <3>1. UNCHANGED <<text, pos, phase, stack, value, error, stage, source, begin, mode>>
      BY <1>1, <2>1, <2>3 DEF TypeLine
    <3>2. QED
      BY <2>2, <3>1 DEF Typed, ReaderTyped, ReplTyped, AtStart
  <2>4. CASE Collect(Stripped(l))
    BY <1>1, <2>2, <2>4, CollectTyped DEF TypeLine
  <2>5. CASE Hand(l, "line")
    BY <1>1, <2>2, <2>5, HandTyped
  <2>6. QED
    BY <1>1, <2>1, <2>3, <2>4, <2>5 DEF TypeLine
<1>2. CASE TypeMore
  <2>1. PICK l, t : l = Head(script) /\ t = Joined(text, Stripped(l))
    OBVIOUS
  <2>2. Line(l) /\ Line(Stripped(l)) /\ Script(script')
    BY <1>2, <2>1, ScriptIs, StrippedLine DEF TypeMore, Typed, ReplTyped
  <2>3. Line(text)
    BY <1>2 DEF TypeMore, Typed, ReaderTyped, ReplTyped, AtStart, Line
  <2>4. Line(t)
    BY <2>1, <2>2, <2>3, JoinedLine
  <2>5. CASE Collect(t)
    BY <1>2, <2>2, <2>4, <2>5, CollectTyped DEF TypeMore
  <2>6. CASE Hand(t, "line")
    BY <2>2, <2>4, <2>6, HandTyped
  <2>7. QED
    BY <1>2, <2>1, <2>5, <2>6 DEF TypeMore
<1>3. CASE EndOfInput
  <2>1. Script(script')
    BY <1>3 DEF EndOfInput, Typed, ReplTyped
  <2>2. CASE stage = "prompt" /\ stage' = "ended" /\ UNCHANGED <<text, pos, phase, stack, value, error, source, begin, mode>>
    BY <2>1, <2>2 DEF Typed, ReaderTyped, ReplTyped, AtStart
  <2>3. CASE stage = "more" /\ Hand(text, "end")
    <3>1. Line(text)
      BY <2>3 DEF Typed, ReaderTyped, ReplTyped, AtStart, Line
    <3>2. QED
      BY <2>1, <2>3, <3>1, HandTyped
  <2>4. QED
    BY <1>3, <2>2, <2>3 DEF EndOfInput
<1>4. CASE NextForm
  <2>1. PICK i : i = FormStart
    OBVIOUS
  <2>2. i \in pos..Len(text)+1 /\ pos \in 1..Len(text)+1
    BY <2>1, StartPasses DEF Typed, ReaderTyped
  <2>3. i \in 1..Len(text)+1 /\ i \in 0..Len(text)+1
    BY <1>0, <2>2
  <2>4. /\ phase' = "expr" /\ pos' = i /\ begin' = i
        /\ UNCHANGED <<text, stack, value, error, script, stage, source, mode>> /\ stage = "forms"
    BY <1>4, <2>1 DEF NextForm
  <2>5. ReaderTyped'
    BY <2>3, <2>4 DEF Typed, ReaderTyped, Phases
  <2>6. QED
    BY <2>3, <2>4, <2>5 DEF Typed, ReplTyped
<1>5. CASE Read
  <2>1. UNCHANGED <<script, stage, source, begin, mode>> /\ stage = "forms"
    BY <1>5 DEF Read, replVars
  <2>2. ReaderTyped'
    BY <1>5, ReadTyped DEF Read, Typed
  <2>3. text' = text
    BY <1>5 DEF Read, ReaderStep, ReadExpr, ReadList, Resume
  <2>4. QED
    BY <2>1, <2>2, <2>3 DEF Typed, ReplTyped
<1>6. CASE Switch
  <2>1. /\ mode' \in Modes /\ phase' = "idle" /\ stage = "forms"
        /\ UNCHANGED <<text, pos, stack, value, error, script, stage, source, begin>>
    <3>1. Directive[1] \in Modes
      <4>1. PICK m \in Modes : Directive = <<m>>
        BY <1>6 DEF Switch, Directives
      <4>2. QED
        BY <4>1
    <3>2. QED
      BY <1>6, <3>1 DEF Switch, Returned
  <2>2. QED
    BY <2>1 DEF Typed, ReaderTyped, ReplTyped, Phases
<1>7. CASE Evaluate
  <2>1. /\ phase' = "idle" /\ stage = "forms"
        /\ UNCHANGED <<text, pos, stack, value, error, script, stage, source, begin, mode>>
    BY <1>7 DEF Evaluate, Evaluates, Returned
  <2>2. QED
    BY <2>1 DEF Typed, ReaderTyped, ReplTyped, Phases
<1>8. CASE EvaluationFails
  <2>1. UNCHANGED <<text, script, stage, source, begin, mode>> /\ Fail("eval") /\ stage = "forms"
    BY <1>8 DEF EvaluationFails, Evaluates, Returned
  <2>2. ReaderTyped'
    BY <2>1, FailTyped DEF Typed, Errors
  <2>3. QED
    BY <2>1, <2>2 DEF Typed, ReplTyped
<1>9. CASE Finish
  <2>1. PICK e : e = <<>>
    OBVIOUS
  <2>2. /\ stage' = "prompt" /\ text' = e /\ pos' = 1 /\ phase' = "idle" /\ value' = Nil /\ error' = "none"
        /\ source' = "line" /\ begin' = 0 /\ UNCHANGED <<stack, script, mode>>
    BY <1>9, <2>1 DEF Finish
  <2>3. e \in Texts /\ 1 \in 1..Len(e)+1 /\ 0 \in 0..Len(e)+1 /\ Len(e) < Cap
    BY <2>1, EmptyText, CapAssumption
  <2>4. ReaderTyped'
    BY <2>2, <2>3, FormTags DEF Typed, ReaderTyped, Phases, Errors
  <2>5. QED
    BY <2>2, <2>3, <2>4 DEF Typed, ReplTyped, AtStart
<1>10. CASE UNCHANGED vars
  BY <1>10 DEF vars, Typed, ReaderTyped, ReplTyped, AtStart
<1>11. QED
  BY <1>1, <1>2, <1>3, <1>4, <1>5, <1>6, <1>7, <1>8, <1>9, <1>10 DEF Next

LEMMA TypedKept ==
  ASSUME Typed, [Next]_vars
  PROVE  Typed'
<1>1. Changes
  BY NextChanges DEF Typed, Sound
<1>2. Sound(packages', symbols') /\ Tables(packages', symbols')
  BY <1>1, ChangesSound, TablesKept DEF Typed
<1>3. ReaderTyped' /\ ReplTyped'
  BY StepTyped
<1>4. QED
  BY <1>2, <1>3 DEF Typed

(* Whatever is typed, loaded, read and evaluated, every state is well      *)
(* typed: the reader stays inside the text, the text of typed lines fits   *)
(* the buffer with the zero that ends it, the kinds and items of the open  *)
(* constructs are what read_expr keeps on its stack, and every name stands *)
(* for a symbol that is there (ls_repl, ls_read_from_string, ls_intern).   *)
THEOREM ReplTypeCorrect == Spec => []TypeOK
<1>1. Init => Typed
  BY InitTyped
<1>2. Typed /\ [Next]_vars => Typed'
  BY TypedKept
<1>3. Typed => TypeOK
  BY TypedIs
<1>4. QED
  BY <1>1, <1>2, <1>3, PTL DEF Spec

-----------------------------------------------------------------------------
(* The reader follows the scan.                                            *)

LEMMA SyntaxCharacters ==
  ASSUME NEW c, c \in {"'", "(", ")", ".", "+", ":"}
  PROVE  c # Semicolon /\ c # DoubleQuote /\ c # "#" /\ c # "eof" /\ c # Backslash /\ Nesting(c) \in {0 - 1, 0, 1}
<1>1. c # Semicolon /\ c # DoubleQuote /\ c # "#" /\ c # "eof" /\ c # Backslash
  BY Zenon DEF Semicolon, DoubleQuote, Backslash
<1>2. QED
  BY <1>1 DEF Nesting

LEMMA SyntaxPasses ==
  ASSUME NEW t \in Texts, NEW i \in Nat, i # 0, NEW c, c \in {"'", "(", ")", ".", "+", ":"}, At(t, i) = c
  PROVE  i \in 1..Len(t) /\ t[i] = c /\ Passes(t, i, i + 1, Nesting(c))
<1>1. c # Semicolon /\ c # DoubleQuote /\ c # "#" /\ c # "eof"
  BY SyntaxCharacters
<1>2. i \in 1..Len(t) /\ t[i] = c
  BY <1>1, AtCharacter
<1>3. Ordinary(t, i)
  BY <1>1, <1>2, Zenon DEF Ordinary, Semicolon, DoubleQuote
<1>4. QED
  BY <1>2, <1>3, PassesOrdinary

LEMMA SharpPasses ==
  ASSUME NEW t \in Texts, NEW i \in Nat, i # 0, At(t, i) = "#",
         NEW c, c \in {"'", "(", ")", ".", "+", ":"}, At(t, i + 1) = c
  PROVE  i \in 1..Len(t) /\ i + 1 \in 1..Len(t) /\ t[i + 1] = c /\ Passes(t, i, i + 2, Nesting(c))
<1>1. i \in 1..Len(t) /\ t[i] = "#"
  BY AtCharacter
<1>2. PICK j \in Nat, l \in Nat : j = i + 1 /\ l = i + 2 /\ l = j + 1
  OBVIOUS
<1>3. j \in 1..Len(t) /\ t[j] = c /\ Passes(t, j, l, Nesting(c))
  BY <1>2, SyntaxPasses
<1>4. Neutral(t, i)
  <2>1. t[i + 1] # Backslash
    BY <1>2, <1>3, SyntaxCharacters
  <2>2. t[i] # Semicolon /\ t[i] # DoubleQuote /\ Nesting(t[i]) = 0
    BY <1>1, PlainCharacters
  <2>3. QED
    BY <2>1, <2>2, NeutralIs
<1>5. Passes(t, i, j, 0)
  BY <1>1, <1>2, <1>4, PassesNeutral
<1>6. Nesting(c) \in Int /\ Nesting(c) = 0 + Nesting(c)
  BY SyntaxCharacters
<1>7. l \in 1..Len(t)+1 /\ j <= l
  <2>1. PICK n \in Nat : n = Len(t)
    BY TextIs
  <2>2. QED
    BY <1>2, <1>3, <2>1
<1>8. PICK z \in Int, d \in Int : z = 0 /\ d = Nesting(c) /\ d = z + d
  BY <1>6
<1>9. Passes(t, i, l, d)
  BY <1>2, <1>3, <1>5, <1>7, <1>8, PassesOn
<1>10. QED
  BY <1>1, <1>2, <1>3, <1>8, <1>9

(* A scan that gets to the start of a string that does not end.            *)
LEMMA OpenString ==
  ASSUME NEW t \in Texts, NEW i \in 1..Len(t), NEW c \in Int, Passes(t, 1, i, c), t[i] = DoubleQuote,
         StringEnd(t, i + 1) = 0
  PROVE  Unfinished(t)
<1>1. PICK no \in BOOLEAN, yes \in BOOLEAN : no = FALSE /\ yes = TRUE
  OBVIOUS
<1>2. PICK z \in Int : z = 0
  OBVIOUS
<1>3. PICK n \in Nat, l \in Nat : n = Len(t) /\ l = i + 1 /\ l \in 1..Len(t)+1 /\ i \in Nat /\ i <= l
  BY TextIs
<1>4. Leads(t, 1, no, i, no, c)
  BY <1>1, Zenon DEF Passes
<1>5. Leads(t, i, no, l, yes, z)
  BY <1>1, <1>2, <1>3, QuoteLeads
<1>6. PICK x \in Int : x = c + z
  OBVIOUS
<1>7. Leads(t, 1, no, l, yes, x)
  BY <1>3, <1>4, <1>5, <1>6, LeadsOn
<1>8. PICK e \in Nat : e = n + 1 /\ e \in l..Len(t)+1 /\ Cut(t, e) = t
  BY <1>3, CutAll
<1>9. Scan(t)[<<1, no>>] = Deeper(Scan(t)[<<l, yes>>], x)
  BY <1>7, <1>8 DEF Leads
<1>10. Scan(t)[<<l, yes>>].in_str = TRUE
  BY <1>1, <1>3, StringOpen
<1>11. Scan(t)[<<1, no>>].in_str = TRUE
  BY <1>9, <1>10 DEF Deeper
<1>12. Depth(t).in_str = TRUE
  BY <1>1, <1>11 DEF Depth
<1>13. QED
  BY <1>12 DEF Unfinished

LEMMA OpenList ==
  ASSUME NEW t \in Texts, NEW c \in Nat, c # 0, Passes(t, 1, Len(t) + 1, c)
  PROVE  Unfinished(t)
BY PassesWhole DEF Unfinished

LEMMA Closed ==
  ASSUME NEW t \in Texts, Passes(t, 1, Len(t) + 1, 0)
  PROVE  ~Unfinished(t)
<1>1. PICK z \in Int : z = 0
  OBVIOUS
<1>2. Depth(t) = [depth |-> z, in_str |-> FALSE]
  BY <1>1, PassesWhole
<1>3. QED
  BY <1>1, <1>2 DEF Unfinished

-----------------------------------------------------------------------------
(* How many of the constructs on the stack are open parentheses.           *)
Parenthesis(f) == IF f.kind \in {"list", "dotted"} THEN 1 ELSE 0

Levels(st, d) ==
  /\ d \in [0..Len(st) -> Nat] /\ d[0] = 0
  /\ \A k \in 1..Len(st) : d[k] = d[k - 1] + Parenthesis(st[k])

Level(st, c) == \E d : Levels(st, d) /\ c = d[Len(st)]

LEMMA LevelNone == Level(<<>>, 0) /\ \A c : Level(<<>>, c) => c = 0
<1>1. PICK e : e = <<>> /\ Len(e) = 0
  OBVIOUS
<1>2. PICK d : d = [k \in 0..0 |-> 0]
  OBVIOUS
<1>3. d \in [0..Len(e) -> Nat] /\ d[0] = 0 /\ \A k \in 1..Len(e) : d[k] = d[k - 1] + Parenthesis(e[k])
  BY <1>1, <1>2
<1>4. Level(e, 0)
  BY <1>1, <1>3 DEF Level, Levels
<1>5. \A c : Level(e, c) => c = 0
  BY <1>1 DEF Level, Levels
<1>6. QED
  BY <1>1, <1>4, <1>5

LEMMA LevelIs ==
  ASSUME NEW st, Stacked(st), NEW c, Level(st, c)
  PROVE  c \in Nat /\ (st # <<>> /\ st[Len(st)].kind = "list" => c # 0)
<1>1. PICK d : Levels(st, d) /\ c = d[Len(st)]
  BY DEF Level
<1>2. PICK n \in Nat : n = Len(st)
  BY StackedIs
<1>3. c \in Nat
  BY <1>1, <1>2 DEF Levels
<1>4. ASSUME st # <<>>, st[Len(st)].kind = "list" PROVE c # 0
  <2>1. n \in 1..n
    BY <1>2, <1>4, StackedIs
  <2>2. d[n] = d[n - 1] + 1 /\ d[n - 1] \in Nat
    BY <1>1, <1>2, <1>4, <2>1 DEF Levels, Parenthesis
  <2>3. QED
    BY <1>1, <1>2, <2>2
<1>5. QED
  BY <1>3, <1>4

LEMMA LevelSame ==
  ASSUME NEW st, NEW c, Level(st, c), NEW u, Len(u) = Len(st),
         \A k \in 1..Len(st) : Parenthesis(u[k]) = Parenthesis(st[k])
  PROVE  Level(u, c)
BY DEF Level, Levels

LEMMA LevelBelow ==
  ASSUME NEW st, Stacked(st), st # <<>>, NEW c, Level(st, c), NEW u, u = SubSeq(st, 1, Len(st) - 1)
  PROVE  Level(u, c - Parenthesis(st[Len(st)])) 
<1>1. PICK d : Levels(st, d) /\ c = d[Len(st)]
  BY DEF Level
<1>2. PICK n, S : n = Len(st) /\ S = {st[k] : k \in 1..n}
  OBVIOUS
<1>3. n \in Nat /\ st \in Seq(S) /\ n # 0
  BY <1>2, StackedIs
<1>4. PICK m \in Nat : m = n - 1 /\ n = m + 1 /\ m \in 0..n /\ n \in 1..n
  BY <1>3
<1>5. Len(u) = m /\ \A k \in 1..m : u[k] = st[k]
  BY <1>2, <1>3, <1>4
<1>6. PICK e : e = [k \in 0..m |-> d[k]]
  OBVIOUS
<1>7. e \in [0..m -> Nat] /\ e[0] = 0 /\ e[m] = d[m]
  BY <1>1, <1>2, <1>3, <1>4, <1>6 DEF Levels
<1>8. ASSUME NEW k \in 1..m PROVE e[k] = e[k - 1] + Parenthesis(u[k])
  <2>1. k \in 0..m /\ k - 1 \in 0..m /\ k \in 1..n
    BY <1>4
  <2>2. e[k] = d[k] /\ e[k - 1] = d[k - 1]
    BY <1>6, <2>1
  <2>3. d[k] = d[k - 1] + Parenthesis(st[k])
    BY <1>1, <1>2, <2>1 DEF Levels
  <2>4. QED
    BY <1>5, <2>2, <2>3
<1>9. Level(u, d[m])
  BY <1>5, <1>7, <1>8 DEF Level, Levels
<1>10. d[m] = c - Parenthesis(st[n])
  <2>1. c = d[m] + Parenthesis(st[n])
    BY <1>1, <1>2, <1>4 DEF Levels
  <2>2. d[m] \in Nat /\ Parenthesis(st[n]) \in {0, 1}
    BY <1>1, <1>2, <1>4 DEF Levels, Parenthesis
  <2>3. QED
    BY <2>1, <2>2
<1>11. QED
  BY <1>2, <1>9, <1>10

LEMMA LevelPush ==
  ASSUME NEW st, NEW n \in Nat, n = Len(st), NEW c, Level(st, c), NEW u, Len(u) = n + 1, \A k \in 1..n : u[k] = st[k],
         NEW x, x = c + Parenthesis(u[n + 1])
  PROVE  Level(u, x)
<1>1. PICK d : Levels(st, d) /\ c = d[n]
  BY DEF Level
<1>2. d \in [0..n -> Nat] /\ d[0] = 0 /\ Parenthesis(u[n + 1]) \in {0, 1}
  BY <1>1 DEF Levels, Parenthesis
<1>3. PICK m \in Nat : m = n + 1 /\ m \notin 0..n /\ 0 \in 0..n /\ n = m - 1
  OBVIOUS
<1>4. PICK e : e = [k \in 0..m |-> IF k = m THEN x ELSE d[k]]
  OBVIOUS
<1>5. x \in Nat /\ c = d[n]
  BY <1>1, <1>2
<1>6. e \in [0..m -> Nat] /\ e[m] = x /\ \A k \in 0..n : e[k] = d[k]
  BY <1>2, <1>3, <1>4, <1>5
<1>7. ASSUME NEW k \in 1..m PROVE e[k] = e[k - 1] + Parenthesis(u[k])
  <2>1. CASE k = m
    BY <1>3, <1>5, <1>6, <2>1
  <2>2. CASE k # m
    <3>1. k \in 1..n /\ k \in 0..n /\ k - 1 \in 0..n
      BY <1>3, <2>2
    <3>2. d[k] = d[k - 1] + Parenthesis(st[k])
      BY <1>1, <3>1 DEF Levels
    <3>3. QED
      BY <1>6, <3>1, <3>2
  <2>3. QED
    BY <2>1, <2>2
<1>8. e[0] = 0
  BY <1>2, <1>3, <1>6
<1>9. Len(u) = m
  BY <1>3
<1>10. Levels(u, e)
  BY <1>6, <1>7, <1>8, <1>9 DEF Levels
<1>11. QED
  BY <1>6, <1>9, <1>10 DEF Level

(* A scan of t from the start, and one from b, get to i c deeper.          *)
Reached(t, b, i, c) ==
  c \in Int /\ i \in 1..Len(t)+1 /\ b \in 1..i /\ Passes(t, 1, i, c) /\ Passes(t, b, i, c)

LEMMA ReachedOn ==
  ASSUME NEW t \in Texts, NEW b, NEW i, NEW c, Reached(t, b, i, c), NEW d \in Int, NEW j \in i..Len(t)+1,
         Passes(t, i, j, d), NEW x, x = c + d
  PROVE  Reached(t, b, j, x)
<1>1. PICK n \in Nat : n = Len(t)
  BY TextIs
<1>2. c \in Int /\ i \in 1..n+1 /\ b \in 1..i /\ Passes(t, 1, i, c) /\ Passes(t, b, i, c)
  BY <1>1 DEF Reached
<1>3. i \in Nat /\ j \in 1..Len(t)+1 /\ i <= j /\ b \in 1..j /\ x \in Int
  BY <1>1, <1>2
<1>4. Passes(t, 1, j, x) /\ Passes(t, b, j, x)
  BY <1>2, <1>3, PassesOn
<1>5. QED
  BY <1>3, <1>4 DEF Reached

LEMMA ReachedSame ==
  ASSUME NEW t \in Texts, NEW b, NEW i, NEW c, Reached(t, b, i, c), NEW j \in i..Len(t)+1, Passes(t, i, j, 0)
  PROVE  Reached(t, b, j, c)
<1>1. PICK z \in Int : z = 0 /\ c = c + z
  BY DEF Reached
<1>2. QED
  BY <1>1, ReachedOn

(* What a step of the reader comes to.                                     *)
Goes(b) ==
  \/ phase' = "failed" /\ (error' \in {"unterminated string", "unterminated list"} => Unfinished(text))
  \/ phase' # "failed" /\ \E c : Level(stack', c) /\ Reached(text, b, pos', c)

LEMMA DeliverGoes ==
  ASSUME NEW v, NEW i, NEW b, NEW c, Deliver(v, i), Level(stack', c), Reached(text, b, i, c)
  PROVE  Goes(b)
BY DEF Goes, Deliver

LEMMA FailGoes ==
  ASSUME NEW why, Fail(why), NEW b, why \in {"unterminated string", "unterminated list"} => Unfinished(text)
  PROVE  Goes(b)
BY DEF Goes, Fail

LEMMA LevelOpen ==
  ASSUME NEW st, Stacked(st), NEW c, Level(st, c), NEW kind, NEW v, v = [kind |-> kind, items |-> <<>>],
         NEW x, x = c + (IF kind \in {"list", "dotted"} THEN 1 ELSE 0)
  PROVE  Level(Append(st, v), x)
<1>1. PICK n, S : n = Len(st) /\ S = {st[k] : k \in 1..n}
  OBVIOUS
<1>2. n \in Nat /\ st \in Seq(S)
  BY <1>1, StackedIs
<1>3. PICK T, u : T = S \cup {v} /\ u = Append(st, v)
  OBVIOUS
<1>4. st \in Seq(T) /\ v \in T
  BY <1>2, <1>3
<1>5. Len(u) = n + 1 /\ u[n + 1] = v /\ \A k \in 1..n : u[k] = st[k]
  BY <1>1, <1>2, <1>3, <1>4
<1>6. Parenthesis(v) = IF kind \in {"list", "dotted"} THEN 1 ELSE 0
  BY DEF Parenthesis
<1>7. x = c + Parenthesis(u[n + 1])
  BY <1>5, <1>6
<1>8. Level(u, x)
  BY <1>1, <1>2, <1>5, <1>7, LevelPush
<1>9. QED
  BY <1>3, <1>8

LEMMA OneOpens ==
  ASSUME NEW st, Stacked(st), NEW kind, NEW u, u = st \o [k \in DOMAIN <<kind>> |-> [kind |-> <<kind>>[k], items |-> <<>>]]
  PROVE  u = Append(st, [kind |-> kind, items |-> <<>>])
<1>1. PICK n, S, v, w : /\ n = Len(st) /\ S = {st[k] : k \in 1..n} /\ v = [kind |-> kind, items |-> <<>>]
                        /\ w = [k \in DOMAIN <<kind>> |-> [kind |-> <<kind>>[k], items |-> <<>>]]
  OBVIOUS
<1>2. n \in Nat /\ st \in Seq(S)
  BY <1>1, StackedIs
<1>3. w = <<v>>
  BY <1>1
<1>4. PICK T : T = S \cup {v}
  OBVIOUS
<1>5. st \in Seq(T) /\ v \in T
  BY <1>2, <1>4
<1>6. st \o <<v>> = Append(st, v)
  BY <1>5
<1>7. QED
  BY <1>1, <1>3, <1>6

LEMMA TwoOpen ==
  ASSUME NEW st, Stacked(st),
         NEW u, u = st \o [k \in DOMAIN <<"vector", "list">> |-> [kind |-> <<"vector", "list">>[k], items |-> <<>>]]
  PROVE  u = Append(Append(st, [kind |-> "vector", items |-> <<>>]), [kind |-> "list", items |-> <<>>])
<1>1. PICK n, S, a, b, w : /\ n = Len(st) /\ S = {st[k] : k \in 1..n} /\ a = [kind |-> "vector", items |-> <<>>]
                           /\ b = [kind |-> "list", items |-> <<>>]
                           /\ w = [k \in DOMAIN <<"vector", "list">> |-> [kind |-> <<"vector", "list">>[k], items |-> <<>>]]
  OBVIOUS
<1>2. n \in Nat /\ st \in Seq(S)
  BY <1>1, StackedIs
<1>3. w = <<a, b>>
  BY <1>1
<1>4. PICK T : T = S \cup {a, b}
  OBVIOUS
<1>5. st \in Seq(T) /\ a \in T /\ b \in T
  BY <1>2, <1>4
<1>6. st \o <<a, b>> = Append(Append(st, a), b)
  BY <1>5
<1>7. QED
  BY <1>1, <1>3, <1>6

(* A construct opens.                                                      *)
LEMMA OpenGoes ==
  ASSUME Stacked(stack), NEW b, NEW c, Level(stack, c), NEW kind, NEW next, next # "failed", NEW i,
         Open(<<kind>>, next, i), NEW x, x = c + (IF kind \in {"list", "dotted"} THEN 1 ELSE 0), Reached(text, b, i, x)
  PROVE  Goes(b)
<1>1. PICK v : v = [kind |-> kind, items |-> <<>>]
  OBVIOUS
<1>2. PICK u : u = stack'
  OBVIOUS
<1>3. u = Append(stack, v)
  BY <1>1, <1>2, OneOpens DEF Open
<1>4. Level(u, x)
  BY <1>1, <1>3, LevelOpen
<1>5. QED
  BY <1>2, <1>4 DEF Goes, Open

LEMMA VectorGoes ==
  ASSUME Stacked(stack), NEW b, NEW c, Level(stack, c), NEW next, next # "failed", NEW i,
         Open(<<"vector", "list">>, next, i), NEW x, x = c + 1, Reached(text, b, i, x)
  PROVE  Goes(b)
<1>1. PICK v, l : v = [kind |-> "vector", items |-> <<>>] /\ l = [kind |-> "list", items |-> <<>>]
  OBVIOUS
<1>2. PICK u, w : u = stack' /\ w = Append(stack, v)
  OBVIOUS
<1>3. u = Append(w, l)
  BY <1>1, <1>2, TwoOpen DEF Open
<1>4. c \in Nat
  BY LevelIs
<1>5. PICK y : y = c + 0
  OBVIOUS
<1>6. Level(w, y) /\ y = c
  <2>1. y = c + (IF "vector" \in {"list", "dotted"} THEN 1 ELSE 0)
    BY <1>5
  <2>2. Level(Append(stack, v), y)
    BY <1>1, <2>1, LevelOpen
  <2>3. QED
    BY <1>2, <1>4, <1>5, <2>2
<1>7. Stacked(w)
  <2>1. PICK kinds : kinds = <<"vector">>
    OBVIOUS
  <2>2. DOMAIN kinds = 1..1 /\ (\A k \in 1..1 : kinds[k] \in Kinds)
    BY <2>1 DEF Kinds
  <2>3. w = stack \o [k \in DOMAIN kinds |-> [kind |-> kinds[k], items |-> <<>>]]
    <3>1. PICK q : q = stack \o [k \in DOMAIN kinds |-> [kind |-> kinds[k], items |-> <<>>]]
      OBVIOUS
    <3>2. q = Append(stack, v)
      BY <1>1, <2>1, <3>1, OneOpens
    <3>3. QED
      BY <1>2, <3>1, <3>2
  <2>4. QED
    BY <2>2, <2>3, StackedOpen
<1>8. x = y + (IF "list" \in {"list", "dotted"} THEN 1 ELSE 0)
  BY <1>6
<1>9. Level(u, x)
  BY <1>1, <1>3, <1>6, <1>7, <1>8, LevelOpen
<1>10. QED
  BY <1>2, <1>9 DEF Goes, Open

(* The reader has followed the scan: b is where its form starts, c is how  *)
(* many of the constructs on the stack are open parentheses.               *)
Follows(b, c) ==
  /\ text \in Texts /\ Barless(text) /\ Sharp(text)
  /\ Stacked(stack) /\ Level(stack, c) /\ Reached(text, b, pos, c)

LEMMA SkipFollows ==
  ASSUME NEW b, NEW c, Follows(b, c), NEW i, i = Skip(text, pos)
  PROVE  i \in 1..Len(text)+1 /\ i \in pos..Len(text)+1 /\ i \in Nat /\ Reached(text, b, i, c)
<1>1. PICK n \in Nat : n = Len(text)
  BY TextIs DEF Follows
<1>2. pos \in 1..Len(text)+1
  BY DEF Follows, Reached
<1>3. i \in pos..Len(text)+1 /\ Passes(text, pos, i, 0)
  BY <1>2, SkipPasses DEF Follows
<1>4. Reached(text, b, i, c)
  BY <1>3, ReachedSame DEF Follows
<1>5. QED
  BY <1>1, <1>2, <1>3, <1>4

(* One of the characters of the syntax, or # and one of them.              *)
LEMMA OneReached ==
  ASSUME NEW t \in Texts, NEW b, NEW i, NEW c, Reached(t, b, i, c),
         NEW a, a \in {"'", "(", ")", ".", "+", ":"}, At(t, i) = a, NEW x, x = c + Nesting(a)
  PROVE  i \in 1..Len(t) /\ Reached(t, b, i + 1, x)
<1>1. PICK n \in Nat : n = Len(t)
  BY TextIs
<1>2. i \in Nat /\ i # 0
  BY <1>1 DEF Reached
<1>3. i \in 1..Len(t) /\ Passes(t, i, i + 1, Nesting(a))
  BY <1>2, SyntaxPasses
<1>4. PICK j \in Nat, d \in Int : j = i + 1 /\ d = Nesting(a) /\ j \in i..Len(t)+1
  <2>1. Nesting(a) \in Int
    BY SyntaxCharacters
  <2>2. i + 1 \in Nat /\ i + 1 \in i..Len(t)+1
    BY <1>1, <1>2, <1>3
  <2>3. QED
    BY <2>1, <2>2
<1>5. Reached(t, b, j, x)
  BY <1>3, <1>4, ReachedOn
<1>6. QED
  BY <1>3, <1>4, <1>5

LEMMA TwoReached ==
  ASSUME NEW t \in Texts, NEW b, NEW i, NEW c, Reached(t, b, i, c), At(t, i) = "#",
         NEW a, a \in {"'", "(", ")", ".", "+", ":"}, At(t, i + 1) = a, NEW x, x = c + Nesting(a)
  PROVE  i + 1 \in 1..Len(t) /\ t[i + 1] = a /\ Reached(t, b, i + 2, x)
<1>1. PICK n \in Nat : n = Len(t)
  BY TextIs
<1>2. i \in Nat /\ i # 0
  BY <1>1 DEF Reached
<1>3. i \in 1..Len(t) /\ i + 1 \in 1..Len(t) /\ t[i + 1] = a /\ Passes(t, i, i + 2, Nesting(a))
  BY <1>2, SharpPasses
<1>4. PICK j \in Nat, d \in Int : j = i + 2 /\ d = Nesting(a) /\ j \in i..Len(t)+1
  <2>1. Nesting(a) \in Int
    BY SyntaxCharacters
  <2>2. i + 2 \in Nat /\ i + 2 \in i..Len(t)+1
    BY <1>1, <1>2, <1>3
  <2>3. QED
    BY <2>1, <2>2
<1>5. Reached(t, b, j, x)
  BY <1>3, <1>4, ReachedOn
<1>6. QED
  BY <1>3, <1>4, <1>5

LEMMA NestingIs == Nesting("(") = 1 /\ Nesting(")") = 0 - 1 /\ Nesting("'") = 0 /\ Nesting("+") = 0 /\ Nesting(":") = 0 /\ Nesting(".") = 0
BY DEF Nesting

(* What # starts.                                                          *)
SharpCases(i, a) ==
  /\ a = "'" => Open(<<"function">>, "expr", i + 2)
  /\ a = "(" => Open(<<"vector", "list">>, "loop", i + 2)
  /\ a = "+" => Open(<<"test">>, "expr", i + 2)
  /\ a = Backslash /\ i + 2 <= Len(text) => UNCHANGED stack /\ Deliver(Chr, CharEnd(text \o <<"eof">>, i + 2) + 1)
  /\ a # "'" /\ a # "+" /\ a # "(" /\ ~(a = Backslash /\ i + 2 <= Len(text)) => Fail("bad #")

LEMMA SharpIs ==
  ASSUME NEW i, ReadSharp(i), NEW a, a = At(text, i + 1)
  PROVE  SharpCases(i, a)
<1>1. CASE a = "'"
  BY <1>1, Zenon DEF ReadSharp, SharpCases, Backslash
<1>2. CASE a = "("
  BY <1>2, Zenon DEF ReadSharp, SharpCases, Backslash
<1>3. CASE a = "+"
  BY <1>3, Zenon DEF ReadSharp, SharpCases, Backslash
<1>4. CASE a = Backslash /\ i + 2 <= Len(text)
  BY <1>4, Zenon DEF ReadSharp, SharpCases, Backslash
<1>5. CASE a # "'" /\ a # "+" /\ a # "(" /\ ~(a = Backslash /\ i + 2 <= Len(text))
  BY <1>5, Zenon DEF ReadSharp, SharpCases, Backslash
<1>6. QED
  BY <1>1, <1>2, <1>3, <1>4, <1>5

LEMMA SharpGoes ==
  ASSUME NEW b, NEW c, Follows(b, c), NEW i, Reached(text, b, i, c), At(text, i) = "#", ReadSharp(i)
  PROVE  Goes(b)
<1>0. c \in Nat /\ text \in Texts /\ Stacked(stack) /\ Level(stack, c)
  BY LevelIs DEF Follows
<1>1. PICK n \in Nat, a \in {At(text, i + 1)}, j \in {i + 2} : n = Len(text) /\ a = At(text, i + 1) /\ j = i + 2
  BY <1>0, TextIs
<1>2. i \in Nat /\ i # 0 /\ i + 1 # 0 /\ i + 1 \in Nat
  BY <1>0, <1>1 DEF Reached
<1>3. ASSUME a \in {"'", "+"} PROVE Reached(text, b, j, c)
  <2>1. c = c + Nesting(a)
    BY <1>0, <1>3, NestingIs
  <2>2. Reached(text, b, i + 2, c)
    BY <1>0, <1>1, <1>3, <2>1, TwoReached
  <2>3. QED
    BY <1>1, <2>2
<1>4. CASE a = "'"
  <2>1. Open(<<"function">>, "expr", j)
    BY <1>1, <1>4, SharpIs DEF SharpCases
  <2>2. PICK kind, next : kind = "function" /\ next = "expr"
    OBVIOUS
  <2>3. c = c + (IF kind \in {"list", "dotted"} THEN 1 ELSE 0) /\ next # "failed" /\ Open(<<kind>>, next, j)
    BY <1>0, <2>1, <2>2
  <2>4. Reached(text, b, j, c)
    BY <1>3, <1>4
  <2>5. QED
    BY <1>0, <2>3, <2>4, OpenGoes
<1>5. CASE a = "+"
  <2>1. Open(<<"test">>, "expr", j)
    BY <1>1, <1>5, SharpIs DEF SharpCases
  <2>2. PICK kind, next : kind = "test" /\ next = "expr"
    OBVIOUS
  <2>3. c = c + (IF kind \in {"list", "dotted"} THEN 1 ELSE 0) /\ next # "failed" /\ Open(<<kind>>, next, j)
    BY <1>0, <2>1, <2>2
  <2>4. Reached(text, b, j, c)
    BY <1>3, <1>5
  <2>5. QED
    BY <1>0, <2>3, <2>4, OpenGoes
<1>6. CASE a = "("
  <2>1. Open(<<"vector", "list">>, "loop", j)
    BY <1>1, <1>6, SharpIs DEF SharpCases
  <2>2. PICK x, next : x = c + 1 /\ next = "loop"
    OBVIOUS
  <2>3. x = c + Nesting(a) /\ next # "failed"
    BY <1>6, <2>2, NestingIs
  <2>4. Reached(text, b, i + 2, x)
    BY <1>0, <1>1, <1>6, <2>3, TwoReached
  <2>5. QED
    BY <1>0, <1>1, <2>1, <2>2, <2>3, <2>4, VectorGoes
<1>7. CASE a = Backslash /\ i + 2 <= Len(text)
  <2>0. Backslash # "'" /\ Backslash # "(" /\ Backslash # "+" /\ Backslash # "eof"
    BY Zenon DEF Backslash
  <2>1. UNCHANGED stack /\ Deliver(Chr, CharEnd(text \o <<"eof">>, i + 2) + 1)
    BY <1>1, <1>7, <2>0, SharpIs DEF SharpCases
  <2>2. i \in 1..Len(text) /\ text[i] = "#"
    BY <1>0, <1>2, AtCharacter
  <2>3. text[i + 1] = Backslash
    BY <1>0, <1>1, <1>2, <1>7, <2>0, AtCharacter
  <2>4. PICK e \in {CharEnd(text \o <<"eof">>, i + 2)} : e = CharEnd(text \o <<"eof">>, i + 2)
    OBVIOUS
  <2>5. e \in j..Len(text)
    <3>1. j \in 1..Len(text)
      BY <1>1, <1>2, <1>7
    <3>2. QED
      BY <1>0, <1>1, <2>4, <3>1, CharEndIs
  <2>6. PICK l \in i..Len(text)+1 : l = e + 1
    <3>1. e + 1 \in i..Len(text)+1
      BY <1>1, <1>2, <2>5
    <3>2. QED
      BY <3>1
  <2>7. Passes(text, i, l, 0)
    BY <1>0, <1>7, <2>2, <2>3, <2>4, <2>6, CharPasses
  <2>8. Reached(text, b, l, c)
    BY <1>0, <2>7, ReachedSame
  <2>9. Level(stack', c)
    BY <1>0, <2>1
  <2>10. Deliver(Chr, l)
    BY <2>1, <2>4, <2>6
  <2>11. QED
    BY <2>8, <2>9, <2>10, DeliverGoes
<1>8. CASE a # "'" /\ a # "+" /\ a # "(" /\ ~(a = Backslash /\ i + 2 <= Len(text))
  <2>0. SharpCases(i, a)
    BY <1>1, SharpIs
  <2>1. Fail("bad #")
    BY <1>8, <2>0, Zenon DEF SharpCases
  <2>2. "bad #" \notin {"unterminated string", "unterminated list"}
    OBVIOUS
  <2>3. QED
    BY <2>1, <2>2, FailGoes
<1>9. QED
  BY <1>4, <1>5, <1>6, <1>7, <1>8

(* Whatever is not a symbol.                                               *)
OtherCases(i, a) ==
  /\ a = "eof" => UNCHANGED stack /\ Deliver(Nil, i)
  /\ a = "(" => Open(<<"list">>, "loop", i + 1)
  /\ a = ")" => Fail("unexpected )")
  /\ a = "'" => Open(<<"quote">>, "expr", i + 1)
  /\ a = "#" => ReadSharp(i)
  /\ a = DoubleQuote => IF StringEnd(text, i + 1) = 0 THEN Fail("unterminated string")
                        ELSE UNCHANGED stack /\ Deliver(Str, StringEnd(text, i + 1))

LEMMA OtherIs ==
  ASSUME NEW i, ReadOther(i), NEW a, a = At(text, i)
  PROVE  OtherCases(i, a)
<1>1. CASE a = "eof"
  BY <1>1, Zenon DEF ReadOther, OtherCases, DoubleQuote
<1>2. CASE a = "("
  BY <1>2, Zenon DEF ReadOther, OtherCases, DoubleQuote
<1>3. CASE a = ")"
  BY <1>3, Zenon DEF ReadOther, OtherCases, DoubleQuote
<1>4. CASE a = "'"
  BY <1>4, Zenon DEF ReadOther, OtherCases, DoubleQuote
<1>5. CASE a = "#"
  BY <1>5, Zenon DEF ReadOther, OtherCases, DoubleQuote
<1>6. CASE a = DoubleQuote
  BY <1>6, Zenon DEF ReadOther, OtherCases, DoubleQuote
<1>7. CASE a # "eof" /\ a # "(" /\ a # ")" /\ a # "'" /\ a # "#" /\ a # DoubleQuote
  BY <1>7, Zenon DEF OtherCases
<1>8. QED
  BY <1>1, <1>2, <1>3, <1>4, <1>5, <1>6, <1>7

LEMMA OtherGoes ==
  ASSUME NEW b, NEW c, Follows(b, c), NEW i, Reached(text, b, i, c), ~IsToken(i), ReadOther(i)
  PROVE  Goes(b)
<1>0. c \in Nat /\ text \in Texts /\ Stacked(stack) /\ Level(stack, c)
  BY LevelIs DEF Follows
<1>1. PICK n \in Nat, a \in {At(text, i)}, j \in {i + 1} : n = Len(text) /\ a = At(text, i) /\ j = i + 1
  BY <1>0, TextIs
<1>2. i \in Nat /\ i # 0
  BY <1>0, <1>1 DEF Reached
<1>3. OtherCases(i, a)
  BY <1>1, OtherIs
<1>4. CASE a = "eof"
  <2>1. UNCHANGED stack /\ Deliver(Nil, i)
    BY <1>3, <1>4, Zenon DEF OtherCases
  <2>2. Level(stack', c)
    BY <1>0, <2>1
  <2>3. QED
    BY <2>1, <2>2, DeliverGoes
<1>5. CASE a = "("
  <2>1. Open(<<"list">>, "loop", j)
    BY <1>1, <1>3, <1>5, Zenon DEF OtherCases
  <2>2. PICK kind, next, x : kind = "list" /\ next = "loop" /\ x = c + 1
    OBVIOUS
  <2>3. x = c + (IF kind \in {"list", "dotted"} THEN 1 ELSE 0) /\ next # "failed" /\ Open(<<kind>>, next, j) /\ x = c + Nesting(a)
    BY <1>0, <1>5, <2>1, <2>2, NestingIs
  <2>4. Reached(text, b, j, x)
    BY <1>0, <1>1, <1>5, <2>3, OneReached
  <2>5. QED
    BY <1>0, <2>3, <2>4, OpenGoes
<1>6. CASE a = ")"
  <2>1. Fail("unexpected )")
    BY <1>3, <1>6, Zenon DEF OtherCases
  <2>2. "unexpected )" \notin {"unterminated string", "unterminated list"}
    OBVIOUS
  <2>3. QED
    BY <2>1, <2>2, FailGoes
<1>7. CASE a = "'"
  <2>1. Open(<<"quote">>, "expr", j)
    BY <1>1, <1>3, <1>7, Zenon DEF OtherCases
  <2>2. PICK kind, next : kind = "quote" /\ next = "expr"
    OBVIOUS
  <2>3. c = c + (IF kind \in {"list", "dotted"} THEN 1 ELSE 0) /\ next # "failed" /\ Open(<<kind>>, next, j) /\ c = c + Nesting(a)
    BY <1>0, <1>7, <2>1, <2>2, NestingIs
  <2>4. Reached(text, b, j, c)
    BY <1>0, <1>1, <1>7, <2>3, OneReached
  <2>5. QED
    BY <1>0, <2>3, <2>4, OpenGoes
<1>8. CASE a = "#"
  <2>1. ReadSharp(i)
    BY <1>3, <1>8, Zenon DEF OtherCases
  <2>2. QED
    BY <1>1, <1>8, <2>1, SharpGoes
<1>9. CASE a = DoubleQuote
  <2>1. DoubleQuote # "eof"
    BY Zenon DEF DoubleQuote
  <2>2. i \in 1..Len(text) /\ text[i] = DoubleQuote
    BY <1>0, <1>1, <1>2, <1>9, <2>1, AtCharacter
  <2>3. PICK e \in {StringEnd(text, i + 1)} : e = StringEnd(text, i + 1)
    OBVIOUS
  <2>4. CASE e = 0
    <3>1. Fail("unterminated string")
      BY <1>3, <1>9, <2>3, <2>4, Zenon DEF OtherCases
    <3>2. c \in Int /\ Passes(text, 1, i, c)
      BY DEF Reached
    <3>3. Unfinished(text)
      BY <1>0, <2>2, <2>3, <2>4, <3>2, OpenString
    <3>4. QED
      BY <3>1, <3>3, FailGoes
  <2>5. CASE e # 0
    <3>1. UNCHANGED stack /\ Deliver(Str, e)
      BY <1>3, <1>9, <2>3, <2>5, Zenon DEF OtherCases
    <3>2. e \in i+2..Len(text)+1 /\ Passes(text, i, e, 0)
      BY <1>0, <2>2, <2>3, <2>5, PassesString
    <3>3. e \in i..Len(text)+1
      BY <1>1, <1>2, <3>2
    <3>4. Reached(text, b, e, c)
      BY <1>0, <3>2, <3>3, ReachedSame
    <3>5. Level(stack', c)
      BY <1>0, <3>1
    <3>6. QED
      BY <3>1, <3>4, <3>5, DeliverGoes
  <2>6. QED
    BY <2>4, <2>5
<1>10. a \in {"eof", "(", ")", "'", "#", DoubleQuote}
  BY <1>1, Zenon DEF IsToken, DoubleQuote
<1>11. QED
  BY <1>4, <1>5, <1>6, <1>7, <1>8, <1>9, <1>10

(* A token.                                                                *)
LEMMA TokenGoes ==
  ASSUME NEW b, NEW c, Follows(b, c), NEW i \in 1..Len(text)+1, Reached(text, b, i, c),
         i <= Len(text) /\ text[i] = "#" => i > 1 /\ text[i - 1] \notin Delimiters,
         NEW v, Deliver(v, i + Len(Token(i))), UNCHANGED stack
  PROVE  Goes(b)
<1>0. text \in Texts /\ Sharp(text) /\ Level(stack, c)
  BY DEF Follows
<1>1. PICK e \in {TokenEnd(text, i)} : e = TokenEnd(text, i)
  OBVIOUS
<1>2. i + Len(Token(i)) = e /\ e \in i..Len(text)+1
  BY <1>0, <1>1, TokenIs
<1>3. Passes(text, i, e, 0)
  BY <1>0, <1>1, TokenPasses
<1>4. Reached(text, b, e, c)
  BY <1>0, <1>2, <1>3, ReachedSame
<1>5. Deliver(v, e) /\ Level(stack', c)
  BY <1>0, <1>2
<1>6. QED
  BY <1>4, <1>5, DeliverGoes

LEMMA NilToken ==
  ASSUME NEW token, token \in Texts, Upcase(token) = <<"NIL">>
  PROVE  Len(token) = 1
<1>1. PICK m \in Nat, f \in {<<"NIL">>} : m = Len(token) /\ f = <<"NIL">> /\ Len(f) = 1 /\ DOMAIN f = 1..1
  BY TextIs
<1>2. DOMAIN Upcase(token) = 1..m
  BY <1>1, TextIs DEF Upcase
<1>3. 1..m = 1..1
  BY <1>1, <1>2
<1>4. m = 1
  BY <1>1, <1>3
<1>5. QED
  BY <1>1, <1>4

LEMMA ExprGoes ==
  ASSUME NEW b, NEW c, Follows(b, c), ReadExpr
  PROVE  Goes(b)
<1>1. PICK i : /\ i = Skip(text, pos)
               /\ IF IsToken(i) THEN ReadToken(i, Token(i))
                  ELSE IF IsUninterned(i) THEN ReadUninterned(i + 2, Token(i + 2))
                  ELSE ReadOther(i)
  BY Zenon DEF ReadExpr
<1>2. i \in 1..Len(text)+1 /\ i \in Nat /\ Reached(text, b, i, c)
  BY <1>1, SkipFollows
<1>3. text \in Texts /\ c \in Nat
  BY LevelIs DEF Follows
<1>4. CASE IsToken(i)
  <2>1. i <= Len(text) /\ text[i] = "#" => i > 1 /\ text[i - 1] \notin Delimiters
    <3>1. At(text, i) # "#"
      BY <1>4, Zenon DEF IsToken
    <3>2. QED
      BY <3>1 DEF At
  <2>2. PICK v : Deliver(v, i + Len(Token(i))) /\ UNCHANGED stack
    <3>1. CASE Upcase(Token(i)) = <<"NIL">>
      <4>1. Deliver(Nil, i + 1) /\ UNCHANGED stack
        BY <1>1, <1>4, <3>1, Zenon DEF ReadToken
      <4>2. Len(Token(i)) = 1
        BY <1>2, <1>3, <3>1, TokenIs, NilToken
      <4>3. QED
        BY <4>1, <4>2
    <3>2. CASE Upcase(Token(i)) # <<"NIL">>
      BY <1>1, <1>4, <3>2, Zenon DEF ReadToken, ReadSymbol
    <3>3. QED
      BY <3>1, <3>2
  <2>3. QED
    BY <1>2, <2>1, <2>2, TokenGoes
<1>5. CASE ~IsToken(i) /\ IsUninterned(i)
  <2>1. At(text, i) = "#" /\ At(text, i + 1) = ":"
    BY <1>5 DEF IsUninterned
  <2>2. PICK a \in {":"}, j \in {i + 2} : a = ":" /\ j = i + 2
    OBVIOUS
  <2>3. c = c + Nesting(a) /\ a \in {"'", "(", ")", ".", "+", ":"}
    BY <1>3, <2>2, NestingIs
  <2>4. i + 1 \in 1..Len(text) /\ text[i + 1] = a /\ Reached(text, b, j, c)
    BY <1>2, <1>3, <2>1, <2>2, <2>3, TwoReached
  <2>5. j \in 1..Len(text)+1
    BY <2>4 DEF Reached
  <2>6. j <= Len(text) /\ text[j] = "#" => j > 1 /\ text[j - 1] \notin Delimiters
    <3>1. ":" \notin Delimiters
      BY Zenon DEF Delimiters, Blanks
    <3>2. j - 1 = i + 1 /\ j > 1
      BY <1>2, <2>2
    <3>3. QED
      BY <2>2, <2>4, <3>1, <3>2
  <2>7. PICK v : Deliver(v, j + Len(Token(j))) /\ UNCHANGED stack
    BY <1>1, <1>5, <2>2, Zenon DEF ReadUninterned
  <2>8. QED
    BY <2>4, <2>5, <2>6, <2>7, TokenGoes
<1>6. CASE ~IsToken(i) /\ ~IsUninterned(i)
  <2>1. ReadOther(i)
    BY <1>1, <1>6
  <2>2. QED
    BY <1>2, <1>6, <2>1, OtherGoes
<1>7. QED
  BY <1>4, <1>5, <1>6

LEMMA EofIs ==
  ASSUME NEW t \in Texts, NEW i \in 1..Len(t)+1, At(t, i) = "eof"
  PROVE  i = Len(t) + 1
<1>1. PICK n \in Nat : n = Len(t)
  BY TextIs
<1>2. CASE i <= Len(t)
  <2>1. i \in 1..Len(t) /\ t[i] = "eof"
    BY <1>1, <1>2 DEF At
  <2>2. t[i] \in Characters
    BY <2>1, TextLength
  <2>3. QED
    BY <2>1, <2>2, Zenon DEF Characters, Words, Blanks
<1>3. QED
  BY <1>1, <1>2

(* The top of the stack closes where the scan is one level up or none.     *)
LEMMA BelowGoes ==
  ASSUME NEW b, NEW c, Stacked(stack), Level(stack, c), stack # <<>>, stack' = Below, NEW v, NEW i, Deliver(v, i),
         NEW x, x = c - Parenthesis(Top), Reached(text, b, i, x)
  PROVE  Goes(b)
<1>1. PICK u : u = stack' /\ u = SubSeq(stack, 1, Len(stack) - 1)
  BY DEF Below
<1>2. Level(u, c - Parenthesis(stack[Len(stack)]))
  BY <1>1, LevelBelow
<1>3. Level(u, x)
  BY <1>2 DEF Top
<1>4. Level(stack', x)
  BY <1>1, <1>3
<1>5. QED
  BY <1>4, DeliverGoes

(* The top of the stack becomes another construct of as many parentheses.  *)
LEMMA ChangeGoes ==
  ASSUME NEW b, NEW c, Stacked(stack), Level(stack, c), stack # <<>>, NEW f, stack' = [stack EXCEPT ![Len(stack)] = f],
         Parenthesis(f) = Parenthesis(Top), phase' # "failed", Reached(text, b, pos', c)
  PROVE  Goes(b)
<1>0. PICK n \in Nat : n = Len(stack)
  BY StackedIs
<1>1. PICK u, S : u = stack' /\ S = {stack[k] : k \in 1..n} /\ n = Len(stack)
  BY <1>0
<1>2. stack \in Seq(S) /\ DOMAIN stack = 1..n
  BY <1>1, StackedIs
<1>3. PICK T : T = S \cup {f}
  OBVIOUS
<1>4. stack \in Seq(T) /\ f \in T
  BY <1>2, <1>3
<1>5. u = [stack EXCEPT ![n] = f]
  BY <1>1
<1>6. Len(u) = n
  BY <1>1, <1>4, <1>5
<1>7. ASSUME NEW k \in 1..n PROVE Parenthesis(u[k]) = Parenthesis(stack[k])
  <2>1. CASE k = n
    BY <1>1, <1>2, <1>5, <2>1 DEF Top
  <2>2. CASE k # n
    <3>1. u[k] = stack[k]
      BY <1>2, <1>5, <2>2
    <3>2. QED
      BY <3>1
  <2>3. QED
    BY <2>1, <2>2
<1>8. Level(u, c)
  BY <1>1, <1>6, <1>7, LevelSame
<1>9. QED
  BY <1>1, <1>8 DEF Goes

(* A turn of the loop of read_list.                                        *)
ListCases(i, a) ==
  /\ a = "eof" => Fail("unterminated list")
  /\ a = ")" => stack' = Below /\ Deliver(List(Top.items), i + 1)
  /\ a # "eof" /\ a # ")" /\ IsDot(i) =>
       stack' = [stack EXCEPT ![Len(stack)].kind = "dotted"] /\ phase' = "expr" /\ pos' = i + 1
  /\ a # "eof" /\ a # ")" /\ ~IsDot(i) => phase' = "expr" /\ pos' = i /\ UNCHANGED stack

LEMMA ListIs ==
  ASSUME ReadList
  PROVE  \E i : i = Skip(text, pos) /\ ListCases(i, At(text, i))
<1>1. PICK i : /\ i = Skip(text, pos)
               /\ CASE At(text, i) = "eof" -> Fail("unterminated list")
                    [] At(text, i) = ")" -> stack' = Below /\ Deliver(List(Top.items), i + 1)
                    [] IsDot(i) ->
                         /\ stack' = [stack EXCEPT ![Len(stack)].kind = "dotted"]
                         /\ phase' = "expr" /\ pos' = i + 1
                         /\ UNCHANGED <<value, error>>
                    [] OTHER -> phase' = "expr" /\ pos' = i /\ UNCHANGED <<stack, value, error>>
  BY Zenon DEF ReadList
<1>2. IsDot(i) => At(text, i) # "eof" /\ At(text, i) # ")"
  BY Zenon DEF IsDot
<1>3. CASE At(text, i) = "eof"
  BY <1>1, <1>2, <1>3, Zenon DEF ListCases
<1>4. CASE At(text, i) = ")"
  BY <1>1, <1>2, <1>4, Zenon DEF ListCases
<1>5. CASE IsDot(i)
  BY <1>1, <1>2, <1>5, Zenon DEF ListCases
<1>6. CASE At(text, i) # "eof" /\ At(text, i) # ")" /\ ~IsDot(i)
  BY <1>1, <1>6, Zenon DEF ListCases
<1>7. QED
  BY <1>1, <1>3, <1>4, <1>5, <1>6

LEMMA ListGoes ==
  ASSUME NEW b, NEW c, Follows(b, c), stack # <<>>, Top.kind = "list", ReadList
  PROVE  Goes(b)
<1>1. PICK i : i = Skip(text, pos) /\ ListCases(i, At(text, i))
  BY ListIs
<1>2. i \in 1..Len(text)+1 /\ i \in Nat /\ Reached(text, b, i, c)
  BY <1>1, SkipFollows
<1>3. text \in Texts /\ Stacked(stack) /\ Level(stack, c)
  BY DEF Follows
<1>4. c \in Nat /\ c # 0
  BY <1>3, LevelIs DEF Top
<1>5. Parenthesis(Top) = 1
  BY DEF Parenthesis
<1>6. CASE At(text, i) = "eof"
  <2>1. Fail("unterminated list")
    BY <1>1, <1>6, Zenon DEF ListCases
  <2>2. i = Len(text) + 1
    BY <1>2, <1>3, <1>6, EofIs
  <2>3. Unfinished(text)
    BY <1>2, <1>3, <1>4, <2>2, OpenList DEF Reached
  <2>4. QED
    BY <2>1, <2>3, FailGoes
<1>7. CASE At(text, i) = ")"
  <2>1. PICK a \in {")"}, j \in {i + 1} : a = ")" /\ j = i + 1
    OBVIOUS
  <2>2. stack' = Below /\ Deliver(List(Top.items), j)
    BY <1>1, <1>7, <2>1, Zenon DEF ListCases
  <2>3. PICK x \in Int : x = c - 1
    BY <1>4
  <2>4. x = c + Nesting(a) /\ a \in {"'", "(", ")", ".", "+", ":"}
    BY <1>4, <2>1, <2>3, NestingIs
  <2>5. Reached(text, b, j, x)
    BY <1>2, <1>3, <1>7, <2>1, <2>4, OneReached
  <2>6. x = c - Parenthesis(Top)
    BY <1>5, <2>3
  <2>7. QED
    BY <1>3, <2>2, <2>5, <2>6, BelowGoes
<1>8. CASE At(text, i) # "eof" /\ At(text, i) # ")" /\ IsDot(i)
  <2>1. PICK a \in {"."}, j \in {i + 1} : a = "." /\ j = i + 1
    OBVIOUS
  <2>2. stack' = [stack EXCEPT ![Len(stack)].kind = "dotted"] /\ phase' = "expr" /\ pos' = j
    BY <1>1, <1>8, <2>1, Zenon DEF ListCases
  <2>3. c = c + Nesting(a) /\ a \in {"'", "(", ")", ".", "+", ":"}
    BY <1>4, <2>1, NestingIs
  <2>4. Reached(text, b, j, c)
    BY <1>2, <1>3, <1>8, <2>1, <2>3, OneReached DEF IsDot
  <2>5. PICK f : f = [Top EXCEPT !.kind = "dotted"]
    OBVIOUS
  <2>6. stack' = [stack EXCEPT ![Len(stack)] = f]
    BY <2>2, <2>5 DEF Top
  <2>7. Parenthesis(f) = Parenthesis(Top)
    <3>1. Len(stack) \in 1..Len(stack)
      BY <1>3, StackedBelow, StackedIs
    <3>2. Framed(Top)
      BY <1>3, <3>1, StackedIs DEF Top
    <3>3. f.kind = "dotted"
      BY <2>5, <3>2 DEF Framed
    <3>4. QED
      BY <1>5, <3>3 DEF Parenthesis
  <2>8. phase' # "failed" /\ Reached(text, b, pos', c)
    BY <2>2, <2>4
  <2>9. QED
    BY <1>3, <2>6, <2>7, <2>8, ChangeGoes
<1>9. CASE At(text, i) # "eof" /\ At(text, i) # ")" /\ ~IsDot(i)
  <2>1. phase' = "expr" /\ pos' = i /\ stack' = stack
    BY <1>1, <1>9, Zenon DEF ListCases
  <2>2. Level(stack', c) /\ Reached(text, b, pos', c) /\ phase' # "failed"
    BY <1>2, <1>3, <2>1
  <2>3. QED
    BY <2>2 DEF Goes
<1>10. QED
  BY <1>6, <1>7, <1>8, <1>9

LEMMA PlaceSame ==
  ASSUME NEW b, NEW c, Follows(b, c), NEW x, x = c - 0
  PROVE  Reached(text, b, pos, x)
<1>1. c \in Nat
  BY LevelIs DEF Follows
<1>2. x = c
  BY <1>1
<1>3. QED
  BY <1>2 DEF Follows

(* read_expr returns into the innermost open construct.                    *)
ResumeCases(kind) ==
  /\ kind = "list" => /\ stack' = [stack EXCEPT ![Len(stack)].items = Kept(@, value)]
                      /\ phase' = "loop" /\ pos' = pos
  /\ kind = "dotted" =>
       IF At(text, Skip(text, pos)) # ")" THEN Fail("expected )")
       ELSE stack' = Below /\ \E v : Deliver(v, Skip(text, pos) + 1)
  /\ kind \in {"vector", "quote", "function", "tested"} => stack' = Below /\ \E v : Deliver(v, pos)
  /\ kind = "test" => stack' = [stack EXCEPT ![Len(stack)].kind = "tested"] /\ phase' = "expr" /\ pos' = pos

LEMMA ResumeIs ==
  ASSUME Resume
  PROVE  ResumeCases(Top.kind)
<1>1. CASE Top.kind = "list"
  BY <1>1, Marks, Zenon DEF Resume, ResumeCases
<1>2. CASE Top.kind = "dotted"
  BY <1>2, Marks, Zenon DEF Resume, ResumeCases
<1>3. CASE Top.kind = "vector"
  BY <1>3, Zenon DEF Resume, ResumeCases
<1>4. CASE Top.kind \in {"quote", "function"}
  BY <1>4, Marks, Zenon DEF Resume, ResumeCases
<1>5. CASE Top.kind = "test"
  BY <1>5, Marks, Zenon DEF Resume, ResumeCases
<1>6. CASE Top.kind = "tested"
  BY <1>6, Zenon DEF Resume, ResumeCases
<1>7. CASE Top.kind \notin {"list", "dotted", "vector", "quote", "function", "test", "tested"}
  BY <1>7, Zenon DEF ResumeCases
<1>8. QED
  BY <1>1, <1>2, <1>3, <1>4, <1>5, <1>6, <1>7

LEMMA ResumeGoes ==
  ASSUME NEW b, NEW c, Follows(b, c), Resume
  PROVE  Goes(b)
<1>1. stack # <<>> /\ ResumeCases(Top.kind)
  BY ResumeIs DEF Resume
<1>2. text \in Texts /\ Stacked(stack) /\ Level(stack, c) /\ Reached(text, b, pos, c)
  BY DEF Follows
<1>3. c \in Nat
  BY <1>2, LevelIs
<1>4. Framed(Top) /\ Top.kind \in Kinds
  <2>1. Len(stack) \in 1..Len(stack)
    BY <1>1, <1>2, StackedBelow, StackedIs
  <2>2. Framed(Top)
    BY <1>2, <2>1, StackedIs DEF Top
  <2>3. QED
    BY <2>2 DEF Framed
<1>5. CASE Top.kind = "list"
  <2>1. /\ stack' = [stack EXCEPT ![Len(stack)].items = Kept(@, value)]
        /\ phase' = "loop" /\ pos' = pos
    BY <1>1, <1>5, Zenon DEF ResumeCases
  <2>2. PICK f : f = [Top EXCEPT !.items = Kept(@, value)]
    OBVIOUS
  <2>3. stack' = [stack EXCEPT ![Len(stack)] = f]
    BY <2>1, <2>2 DEF Top
  <2>4. Parenthesis(f) = Parenthesis(Top)
    <3>1. f.kind = Top.kind
      BY <1>4, <2>2 DEF Framed
    <3>2. QED
      BY <3>1 DEF Parenthesis
  <2>5. phase' # "failed" /\ Reached(text, b, pos', c)
    BY <1>2, <2>1
  <2>6. QED
    BY <1>1, <1>2, <2>3, <2>4, <2>5, ChangeGoes
<1>6. CASE Top.kind = "test"
  <2>1. stack' = [stack EXCEPT ![Len(stack)].kind = "tested"] /\ phase' = "expr" /\ pos' = pos
    BY <1>1, <1>6, Zenon DEF ResumeCases
  <2>2. PICK f : f = [Top EXCEPT !.kind = "tested"]
    OBVIOUS
  <2>3. stack' = [stack EXCEPT ![Len(stack)] = f]
    BY <2>1, <2>2 DEF Top
  <2>4. Parenthesis(f) = Parenthesis(Top)
    <3>1. f.kind = "tested"
      BY <1>4, <2>2 DEF Framed
    <3>2. QED
      BY <1>6, <3>1 DEF Parenthesis
  <2>5. phase' # "failed" /\ Reached(text, b, pos', c)
    BY <1>2, <2>1
  <2>6. QED
    BY <1>1, <1>2, <2>3, <2>4, <2>5, ChangeGoes
<1>7. CASE Top.kind \in {"vector", "quote", "function", "tested"}
  <2>1. PICK v : stack' = Below /\ Deliver(v, pos)
    BY <1>1, <1>7, Zenon DEF ResumeCases
  <2>2. Parenthesis(Top) = 0
    BY <1>7 DEF Parenthesis
  <2>3. PICK x \in Int : x = c - 0
    BY <1>3
  <2>4. x = c - Parenthesis(Top)
    BY <2>2, <2>3
  <2>5. Reached(text, b, pos, x)
    BY <2>3, PlaceSame
  <2>6. QED
    BY <1>1, <1>2, <2>1, <2>4, <2>5, BelowGoes
<1>8. CASE Top.kind = "dotted" /\ At(text, Skip(text, pos)) # ")"
  <2>1. Fail("expected )")
    BY <1>1, <1>8, Zenon DEF ResumeCases
  <2>2. "expected )" \notin {"unterminated string", "unterminated list"}
    OBVIOUS
  <2>3. QED
    BY <2>1, <2>2, FailGoes
<1>9. CASE Top.kind = "dotted" /\ At(text, Skip(text, pos)) = ")"
  <2>1. PICK i : i = Skip(text, pos)
    OBVIOUS
  <2>2. i \in Nat /\ Reached(text, b, i, c)
    BY <2>1, SkipFollows
  <2>3. PICK a \in {")"}, j \in {i + 1} : a = ")" /\ j = i + 1
    OBVIOUS
  <2>4. PICK v : stack' = Below /\ Deliver(v, j)
    BY <1>1, <1>9, <2>1, <2>3, Zenon DEF ResumeCases
  <2>5. PICK x \in Int : x = c - 1
    BY <1>3
  <2>6. x = c + Nesting(a) /\ a \in {"'", "(", ")", ".", "+", ":"}
    BY <1>3, <2>3, <2>5, NestingIs
  <2>7. Reached(text, b, j, x)
    BY <1>2, <1>9, <2>1, <2>2, <2>3, <2>6, OneReached
  <2>8. x = c - Parenthesis(Top)
    BY <1>9, <2>5 DEF Parenthesis
  <2>9. QED
    BY <1>1, <1>2, <2>4, <2>7, <2>8, BelowGoes
<1>10. QED
  BY <1>4, <1>5, <1>6, <1>7, <1>8, <1>9, Zenon DEF Kinds

(* What the phase says of the stack and of the error.                      *)
Poised ==
  /\ phase \in {"idle", "failed"} => stack = <<>>
  /\ phase # "failed" => error = "none"
  /\ phase = "loop" => stack # <<>> /\ Top.kind = "list"

LEMMA DeliverPoised ==
  ASSUME Poised, phase # "failed", NEW v, NEW i, Deliver(v, i)
  PROVE  Poised' /\ phase' \notin {"idle", "failed"}
BY DEF Poised, Deliver

LEMMA FailPoised ==
  ASSUME NEW why, Fail(why)
  PROVE  Poised'
BY DEF Poised, Fail

LEMMA TurnPoised ==
  ASSUME Poised, phase # "failed", phase' = "expr", error' = error
  PROVE  Poised' /\ phase' \notin {"idle", "failed"}
BY DEF Poised

LEMMA LoopPoised ==
  ASSUME Poised, phase # "failed", phase' = "loop", error' = error, stack' # <<>>, NEW u, u = stack', u[Len(u)].kind = "list"
  PROVE  Poised' /\ phase' \notin {"idle", "failed"}
<1>1. Top' = u[Len(u)]
  BY DEF Top
<1>2. QED
  BY <1>1 DEF Poised

LEMMA LastIs ==
  ASSUME NEW st, Stacked(st), NEW f
  PROVE  /\ Append(st, f) # <<>> /\ Append(st, f)[Len(Append(st, f))] = f
         /\ \A k \in DOMAIN st : LET u == [st EXCEPT ![k] = f]
                                 IN  k = Len(st) => u # <<>> /\ u[Len(u)] = f
<1>0. PICK n \in Nat : n = Len(st)
  BY StackedIs
<1>1. PICK S : S = {st[k] : k \in 1..n} \cup {f}
  OBVIOUS
<1>2. st \in Seq({st[k] : k \in 1..n}) /\ DOMAIN st = 1..n
  BY <1>0, StackedIs
<1>3. st \in Seq(S) /\ f \in S
  BY <1>1, <1>2
<1>4. PICK u : u = Append(st, f)
  OBVIOUS
<1>5. Len(u) = n + 1 /\ u[n + 1] = f /\ u # <<>>
  BY <1>0, <1>3, <1>4
<1>6. ASSUME NEW k \in DOMAIN st, k = Len(st), NEW w, w = [st EXCEPT ![k] = f]
      PROVE  w # <<>> /\ w[Len(w)] = f
  <2>1. Len(w) = n /\ w[n] = f /\ n \in 1..n
    BY <1>0, <1>2, <1>3, <1>6
  <2>2. w # <<>>
    BY <2>1
  <2>3. QED
    BY <2>1, <2>2
<1>7. QED
  BY <1>4, <1>5, <1>6

LEMMA OpenPoised ==
  ASSUME Poised, Stacked(stack), phase # "failed", NEW kind, NEW next, NEW i, Open(<<kind>>, next, i),
         next = "expr" \/ (next = "loop" /\ kind = "list")
  PROVE  Poised' /\ phase' \notin {"idle", "failed"}
<1>1. CASE next = "expr"
  BY <1>1, TurnPoised DEF Open
<1>2. CASE next = "loop" /\ kind = "list"
  <2>1. PICK v : v = [kind |-> kind, items |-> <<>>]
    OBVIOUS
  <2>2. PICK u : u = stack'
    OBVIOUS
  <2>3. u = Append(stack, v)
    BY <2>1, <2>2, OneOpens DEF Open
  <2>4. u # <<>> /\ u[Len(u)] = v
    BY <2>3, LastIs
  <2>5. u[Len(u)].kind = "list" /\ stack' # <<>>
    BY <1>2, <2>1, <2>2, <2>4
  <2>6. phase' = "loop" /\ error' = error
    BY <1>2 DEF Open
  <2>7. QED
    BY <2>2, <2>5, <2>6, LoopPoised
<1>3. QED
  BY <1>1, <1>2

LEMMA VectorPoised ==
  ASSUME Poised, Stacked(stack), phase # "failed", NEW i, Open(<<"vector", "list">>, "loop", i)
  PROVE  Poised' /\ phase' \notin {"idle", "failed"}
<1>1. PICK v, l : v = [kind |-> "vector", items |-> <<>>] /\ l = [kind |-> "list", items |-> <<>>]
  OBVIOUS
<1>2. PICK u, w : u = stack' /\ w = Append(stack, v)
  OBVIOUS
<1>3. u = Append(w, l)
  BY <1>1, <1>2, TwoOpen DEF Open
<1>4. Stacked(w)
  <2>1. PICK kinds : kinds = <<"vector">>
    OBVIOUS
  <2>2. DOMAIN kinds = 1..1 /\ (\A k \in 1..1 : kinds[k] \in Kinds)
    BY <2>1 DEF Kinds
  <2>3. PICK q : q = stack \o [k \in DOMAIN kinds |-> [kind |-> kinds[k], items |-> <<>>]]
    OBVIOUS
  <2>4. q = Append(stack, v)
    BY <1>1, <2>1, <2>3, OneOpens
  <2>5. QED
    BY <1>2, <2>2, <2>3, <2>4, StackedOpen
<1>5. u # <<>> /\ u[Len(u)] = l
  BY <1>3, <1>4, LastIs
<1>6. u[Len(u)].kind = "list" /\ stack' # <<>>
  BY <1>1, <1>2, <1>5
<1>7. phase' = "loop" /\ error' = error
  BY DEF Open
<1>8. QED
  BY <1>2, <1>6, <1>7, LoopPoised

(* What a step of the reader comes to, of its phases and stack.            *)
Lands == Poised' /\ phase' # "idle"

LEMMA LandsOf ==
  ASSUME Poised, phase # "failed"
  PROVE  /\ \A v, i : Deliver(v, i) => Lands
         /\ \A why : Fail(why) => Lands
         /\ phase' = "expr" /\ error' = error => Lands
<1>1. ASSUME NEW v, NEW i, Deliver(v, i) PROVE Lands
  BY <1>1, DeliverPoised DEF Lands
<1>2. ASSUME NEW why, Fail(why) PROVE Lands
  <2>1. phase' # "idle"
    BY <1>2 DEF Fail
  <2>2. QED
    BY <1>2, <2>1, FailPoised DEF Lands
<1>3. ASSUME phase' = "expr", error' = error PROVE Lands
  BY <1>3, TurnPoised DEF Lands
<1>4. QED
  BY <1>1, <1>2, <1>3

LEMMA SharpLands ==
  ASSUME Poised, Stacked(stack), phase # "failed", NEW i, ReadSharp(i)
  PROVE  Lands
<1>1. PICK a : a = At(text, i + 1)
  OBVIOUS
<1>2. SharpCases(i, a)
  BY <1>1, SharpIs
<1>3. CASE a = "(" 
  <2>1. Open(<<"vector", "list">>, "loop", i + 2)
    BY <1>2, <1>3, Zenon DEF SharpCases
  <2>2. QED
    BY <2>1, VectorPoised DEF Lands
<1>4. CASE a = "'" \/ a = "+"
  <2>1. \E kind, j : Open(<<kind>>, "expr", j)
    BY <1>2, <1>4, Zenon DEF SharpCases
  <2>2. phase' = "expr" /\ error' = error
    BY <2>1 DEF Open
  <2>3. QED
    BY <2>2, LandsOf
<1>5. CASE a # "'" /\ a # "+" /\ a # "("
  <2>1. (\E v, j : Deliver(v, j)) \/ (\E why : Fail(why))
    BY <1>2, <1>5, Zenon DEF SharpCases
  <2>2. QED
    BY <2>1, LandsOf
<1>6. QED
  BY <1>3, <1>4, <1>5

LEMMA OtherLands ==
  ASSUME Poised, Stacked(stack), phase # "failed", NEW i, ~IsToken(i), ReadOther(i)
  PROVE  Lands
<1>1. PICK a : a = At(text, i)
  OBVIOUS
<1>2. OtherCases(i, a)
  BY <1>1, OtherIs
<1>3. CASE a = "(" 
  <2>1. Open(<<"list">>, "loop", i + 1)
    BY <1>2, <1>3, Zenon DEF OtherCases
  <2>2. PICK kind, next : kind = "list" /\ next = "loop"
    OBVIOUS
  <2>3. Open(<<kind>>, next, i + 1)
    BY <2>1, <2>2
  <2>4. QED
    BY <2>2, <2>3, OpenPoised DEF Lands
<1>4. CASE a = "'"
  <2>1. \E kind, j : Open(<<kind>>, "expr", j)
    BY <1>2, <1>4, Zenon DEF OtherCases
  <2>2. phase' = "expr" /\ error' = error
    BY <2>1 DEF Open
  <2>3. QED
    BY <2>2, LandsOf
<1>5. CASE a = "#"
  <2>1. ReadSharp(i)
    BY <1>2, <1>5, Zenon DEF OtherCases
  <2>2. QED
    BY <2>1, SharpLands
<1>6. CASE a \in {"eof", ")", DoubleQuote}
  <2>1. (\E v, j : Deliver(v, j)) \/ (\E why : Fail(why))
    BY <1>2, <1>6, Zenon DEF OtherCases
  <2>2. QED
    BY <2>1, LandsOf
<1>7. a \in {"eof", "(", ")", "'", "#", DoubleQuote}
  BY <1>1, Zenon DEF IsToken, DoubleQuote
<1>8. QED
  BY <1>3, <1>4, <1>5, <1>6, <1>7

LEMMA ReadLands ==
  ASSUME Poised, Stacked(stack), ReaderStep
  PROVE  Lands /\ phase \notin {"idle", "failed"} /\ UNCHANGED text
<1>0. phase \notin {"idle", "failed"} /\ UNCHANGED text
  BY DEF ReaderStep, ReadExpr, ReadList, Resume
<1>1. CASE ReadExpr
  <2>1. PICK i : IF IsToken(i) THEN ReadToken(i, Token(i))
                 ELSE IF IsUninterned(i) THEN ReadUninterned(i + 2, Token(i + 2))
                 ELSE ReadOther(i)
    BY <1>1, Zenon DEF ReadExpr
  <2>2. CASE IsToken(i) \/ IsUninterned(i)
    <3>1. \E v, j : Deliver(v, j)
      BY <2>1, <2>2, Zenon DEF ReadToken, ReadSymbol, ReadUninterned
    <3>2. QED
      BY <1>0, <3>1, LandsOf
  <2>3. CASE ~IsToken(i) /\ ~IsUninterned(i)
    BY <1>0, <2>1, <2>3, OtherLands
  <2>4. QED
    BY <1>0, <2>2, <2>3
<1>2. CASE ReadList
  <2>1. PICK i : ListCases(i, At(text, i))
    BY <1>2, ListIs
  <2>2. PICK a : a = At(text, i) /\ ListCases(i, a)
    BY <2>1
  <2>3. error' = error \/ Fail("unterminated list")
    BY <1>2, <2>2, Zenon DEF ReadList, Deliver
  <2>4. (\E v, j : Deliver(v, j)) \/ (\E why : Fail(why)) \/ phase' = "expr"
    BY <2>2, Zenon DEF ListCases
  <2>5. QED
    BY <1>0, <2>3, <2>4, LandsOf
<1>3. CASE Resume
  <2>1. stack # <<>> /\ ResumeCases(Top.kind)
    BY <1>3, ResumeIs DEF Resume
  <2>2. Len(stack) \in DOMAIN stack
    BY <2>1, StackedBelow
  <2>3. Framed(Top)
    BY <2>2, StackedIs DEF Top
  <2>4. CASE Top.kind = "list"
    <3>1. /\ stack' = [stack EXCEPT ![Len(stack)].items = Kept(@, value)] /\ phase' = "loop"
      BY <2>1, <2>4, Zenon DEF ResumeCases
    <3>2. PICK f, u : f = [Top EXCEPT !.items = Kept(@, value)] /\ u = stack'
      OBVIOUS
    <3>3. u = [stack EXCEPT ![Len(stack)] = f]
      BY <3>1, <3>2 DEF Top
    <3>4. u # <<>> /\ u[Len(u)] = f
      BY <2>2, <3>3, LastIs
    <3>5. f.kind = "list"
      BY <2>3, <2>4, <3>2 DEF Framed
    <3>6. error' = error
      BY <1>3, <2>4, Marks, Zenon DEF Resume
    <3>7. QED
      BY <1>0, <3>1, <3>2, <3>4, <3>5, <3>6, LoopPoised DEF Lands
  <2>5. CASE Top.kind = "test"
    <3>1. phase' = "expr" /\ error' = error
      BY <1>3, <2>5, Marks, Zenon DEF Resume
    <3>2. QED
      BY <1>0, <3>1, LandsOf
  <2>6. CASE Top.kind \in {"dotted", "vector", "quote", "function", "tested"}
    <3>1. (\E v, j : Deliver(v, j)) \/ (\E why : Fail(why))
      BY <2>1, <2>6, Zenon DEF ResumeCases
    <3>2. QED
      BY <1>0, <3>1, LandsOf
  <2>7. QED
    BY <1>0, <2>3, <2>4, <2>5, <2>6, Zenon DEF Framed, Kinds
<1>4. QED
  BY <1>0, <1>1, <1>2, <1>3 DEF ReaderStep

(* The reader is where the scan is, in text that is plain: a form starts   *)
(* where all the parentheses before it are closed, and each construct that *)
(* is open is one that the scan has met.                                   *)
Followed ==
  stage = "forms" /\ Plain(text) =>
    /\ source = "line" => ~Unfinished(text) /\ ~Unterminated
    /\ phase = "idle" => Passes(text, 1, pos, 0)
    /\ phase \notin {"idle", "failed"} => \E c : Level(stack, c) /\ Reached(text, begin, pos, c)

InStep == Poised /\ Followed

LEMMA NoError == "none" \notin {"unterminated string", "unterminated list"} /\ "eval" \notin {"unterminated string", "unterminated list"}
OBVIOUS

LEMMA FormPasses ==
  ASSUME text \in Texts, InStep, Returned, Plain(text)
  PROVE  Passes(text, 1, pos, 0) /\ Passes(text, begin, pos, 0) /\ begin \in 1..Len(text)+1 /\ pos \in begin..Len(text)+1
<1>1. PICK c : Level(stack, c) /\ Reached(text, begin, pos, c)
  BY DEF InStep, Followed, Returned
<1>2. c = 0
  BY <1>1, LevelNone DEF Returned
<1>3. PICK n \in Nat : n = Len(text)
  BY TextIs
<1>4. QED
  BY <1>1, <1>2, <1>3 DEF Reached

LEMMA BeginFollowed ==
  ASSUME Typed, InStep, stage \in {"prompt", "more"}, NEW t \in Texts, NEW from, from = "line" => ~Unfinished(t), Begin(t, from)
  PROVE  InStep'
<1>1. phase = "idle" /\ stack = <<>> /\ error = "none"
  BY DEF Typed, ReplTyped, InStep, Poised
<1>2. /\ stage' = "forms" /\ text' = t /\ source' = from /\ pos' = 1 /\ phase' = "idle"
      /\ stack' = stack /\ error' = error
  BY DEF Begin
<1>3. Poised'
  BY <1>1, <1>2 DEF Poised
<1>4. PICK i \in 1..Len(t)+1 : i = 1
  <2>1. PICK n \in Nat : n = Len(t)
    BY TextIs
  <2>2. 1 \in 1..Len(t)+1
    BY <2>1
  <2>3. QED
    BY <2>2
<1>5. Passes(t, i, i, 0)
  BY PassesSelf
<1>6. Passes(text', 1, pos', 0)
  BY <1>2, <1>4, <1>5
<1>7. ~Unterminated'
  BY <1>1, <1>2, NoError DEF Unterminated
<1>8. source' = "line" => ~Unfinished(text')
  BY <1>2
<1>9. Followed'
  BY <1>2, <1>6, <1>7, <1>8 DEF Followed
<1>10. QED
  BY <1>3, <1>9 DEF InStep

LEMMA HandFollowed ==
  ASSUME Typed, InStep, stage \in {"prompt", "more"}, NEW t \in Texts, NEW from, from = "line" => ~Unfinished(t), Hand(t, from)
  PROVE  InStep'
<1>1. CASE Begin(t, from)
  BY <1>1, BeginFollowed
<1>2. CASE \E file \in Files : Begin(file, "file")
  <2>1. PICK file \in Files : Begin(file, "file")
    BY <1>2
  <2>2. file \in Texts
    BY LinesAssumption DEF Texts
  <2>3. PICK w : w = "file" /\ w # "line"
    OBVIOUS
  <2>4. QED
    BY <2>1, <2>2, <2>3, BeginFollowed
<1>3. QED
  BY <1>1, <1>2 DEF Hand

(* What is not a form that is read keeps the REPL and the reader in step.  *)
LEMMA ElsewhereFollowed ==
  ASSUME InStep, stage' # "forms", phase' = phase, stack' = stack, error' = error
  PROVE  InStep'
<1>1. Top' = Top
  BY DEF Top
<1>2. QED
  BY <1>1 DEF InStep, Poised, Followed

LEMMA ReadFollowed ==
  ASSUME Typed, InStep, Read
  PROVE  InStep'
<1>1. ReaderStep /\ stage = "forms" /\ UNCHANGED <<stage, source, begin>>
  BY DEF Read, replVars
<1>2. text \in Texts /\ Stacked(stack)
  BY DEF Typed, ReaderTyped
<1>3. Poised' /\ phase' # "idle" /\ phase \notin {"idle", "failed"} /\ UNCHANGED text
  BY <1>1, <1>2, ReadLands DEF InStep, Lands
<1>4. ASSUME Plain(text)
      PROVE  /\ source = "line" => ~Unfinished(text) /\ ~Unterminated'
             /\ phase' \notin {"idle", "failed"} => \E c : Level(stack', c) /\ Reached(text, begin, pos', c)
  <2>1. PICK c : Level(stack, c) /\ Reached(text, begin, pos, c)
    BY <1>1, <1>3, <1>4 DEF InStep, Followed
  <2>2. Follows(begin, c)
    BY <1>2, <1>4, <2>1, PlainIs DEF Follows
  <2>3. Goes(begin)
    <3>1. CASE ReadExpr
      BY <2>2, <3>1, ExprGoes
    <3>2. CASE ReadList
      <4>1. stack # <<>> /\ Top.kind = "list"
        BY <3>2 DEF ReadList, InStep, Poised
      <4>2. QED
        BY <2>2, <3>2, <4>1, ListGoes
    <3>3. CASE Resume
      BY <2>2, <3>3, ResumeGoes
    <3>4. QED
      BY <1>1, <3>1, <3>2, <3>3 DEF ReaderStep
  <2>4. source = "line" => ~Unfinished(text)
    BY <1>1, <1>4 DEF InStep, Followed
  <2>5. source = "line" => ~Unterminated'
    <3>1. phase' # "failed" => error' = "none"
      BY <1>3 DEF Poised
    <3>2. QED
      BY <2>3, <2>4, <3>1, NoError DEF Goes, Unterminated
  <2>6. QED
    BY <2>3, <2>4, <2>5 DEF Goes
<1>5. Followed'
  BY <1>1, <1>3, <1>4 DEF Followed
<1>6. QED
  BY <1>3, <1>5 DEF InStep

LEMMA NextFormFollowed ==
  ASSUME Typed, InStep, NextForm
  PROVE  InStep'
<1>1. PICK i : i = FormStart
  OBVIOUS
<1>2. /\ phase = "idle" /\ stage = "forms" /\ phase' = "expr" /\ pos' = i /\ begin' = i
      /\ UNCHANGED <<text, stack, error, stage, source>>
  BY <1>1 DEF NextForm
<1>3. text \in Texts /\ pos \in 1..Len(text)+1 /\ stack = <<>>
  BY <1>2 DEF Typed, ReaderTyped, InStep, Poised
<1>4. Poised'
  BY <1>2 DEF InStep, Poised
<1>5. ASSUME Plain(text) PROVE \E c : Level(stack, c) /\ Reached(text, i, i, c)
  <2>1. PICK n \in Nat : n = Len(text)
    BY <1>3, TextIs
  <2>2. PICK z \in Int : z = 0 /\ z = z + z
    OBVIOUS
  <2>3. Passes(text, 1, pos, z)
    BY <1>2, <1>5, <2>2 DEF InStep, Followed
  <2>4. Passes(text, pos, i, z) /\ i \in pos..Len(text)+1
    BY <1>1, <1>3, <2>2, StartPasses
  <2>5. i \in 1..Len(text)+1 /\ pos <= i /\ pos \in Nat /\ i \in 1..i
    BY <1>3, <2>1, <2>4
  <2>6. Passes(text, 1, i, z)
    BY <1>3, <2>2, <2>3, <2>4, <2>5, PassesOn
  <2>7. Passes(text, i, i, z)
    BY <1>3, <2>2, <2>5, PassesSelf
  <2>8. Reached(text, i, i, z)
    BY <2>5, <2>6, <2>7 DEF Reached
  <2>9. Level(stack, z)
    BY <1>3, <2>2, LevelNone
  <2>10. QED
    BY <2>8, <2>9
<1>6. Followed'
  <2>1. Plain(text) /\ source = "line" => ~Unfinished(text) /\ ~Unterminated
    BY <1>2 DEF InStep, Followed
  <2>2. Unterminated' = Unterminated
    BY <1>2 DEF Unterminated
  <2>3. QED
    BY <1>2, <1>5, <2>1, <2>2 DEF Followed
<1>7. QED
  BY <1>4, <1>6 DEF InStep

(* A form that has been read is evaluated.                                 *)
LEMMA ValueFollowed ==
  ASSUME Typed, InStep, Returned, UNCHANGED <<text, stack, stage, source>>,
         \/ phase' = "idle" /\ UNCHANGED <<pos, error>>
         \/ phase' = "failed" /\ error' = "eval"
  PROVE  InStep'
<1>1. stack = <<>> /\ stage = "forms" /\ phase = "value"
  BY DEF Returned
<1>2. Poised'
  BY <1>1 DEF InStep, Poised
<1>3. Plain(text) => Passes(text, 1, pos, 0)
  BY FormPasses DEF Typed, ReaderTyped
<1>4. Plain(text) /\ source = "line" => ~Unfinished(text) /\ ~Unterminated
  BY <1>1 DEF InStep, Followed
<1>5. Plain(text) /\ source = "line" => ~Unterminated'
  BY <1>4, NoError DEF Unterminated
<1>6. Followed'
  BY <1>1, <1>3, <1>4, <1>5 DEF Followed
<1>7. QED
  BY <1>2, <1>6 DEF InStep

LEMMA TypeLineFollowed ==
  ASSUME Typed, InStep, TypeLine
  PROVE  InStep'
<1>1. PICK l : l = Head(script)
  OBVIOUS
<1>2. stage = "prompt" /\ Line(l)
  BY <1>1, ScriptIs DEF TypeLine, Typed, ReplTyped
<1>3. CASE Hand(l, "line") /\ ~(Continues(l) \/ Unfinished(Stripped(l)))
  <2>1. ~Unfinished(l)
    BY <1>3 DEF Stripped
  <2>2. QED
    BY <1>2, <1>3, <2>1, HandFollowed DEF Line
<1>4. CASE Collect(Stripped(l))
  BY <1>4, ElsewhereFollowed DEF Collect
<1>5. CASE UNCHANGED <<phase, stack, error, stage>>
  BY <1>2, <1>5, ElsewhereFollowed
<1>6. QED
  BY <1>1, <1>3, <1>4, <1>5 DEF TypeLine

LEMMA TypeMoreFollowed ==
  ASSUME Typed, InStep, TypeMore
  PROVE  InStep'
<1>1. PICK l, t : l = Head(script) /\ t = Joined(text, Stripped(l))
  OBVIOUS
<1>2. stage = "more" /\ Line(l) /\ Line(Stripped(l))
  BY <1>1, ScriptIs, StrippedLine DEF TypeMore, Typed, ReplTyped
<1>3. Line(text)
  BY <1>2 DEF Typed, ReaderTyped, ReplTyped, AtStart, Line
<1>4. Line(t)
  BY <1>1, <1>2, <1>3, JoinedLine
<1>5. CASE Hand(t, "line") /\ ~(Continues(l) \/ Unfinished(t))
  BY <1>2, <1>4, <1>5, HandFollowed DEF Line
<1>6. CASE Collect(t)
  BY <1>6, ElsewhereFollowed DEF Collect
<1>7. QED
  BY <1>1, <1>5, <1>6 DEF TypeMore

LEMMA EndOfInputFollowed ==
  ASSUME Typed, InStep, EndOfInput
  PROVE  InStep'
<1>1. CASE stage' = "ended" /\ UNCHANGED <<phase, stack, error>>
  BY <1>1, ElsewhereFollowed
<1>2. CASE stage = "more" /\ Hand(text, "end")
  <2>1. PICK from : from = "end" /\ from # "line"
    OBVIOUS
  <2>2. text \in Texts /\ stage \in {"prompt", "more"} /\ Hand(text, from)
    BY <1>2, <2>1 DEF Typed, ReaderTyped
  <2>3. QED
    BY <2>1, <2>2, HandFollowed
<1>3. QED
  BY <1>1, <1>2 DEF EndOfInput

LEMMA InitInStep ==
  ASSUME Init
  PROVE  InStep
BY DEF Init, ReaderInit, InStep, Poised, Followed

LEMMA StepFollowed ==
  ASSUME Typed, InStep, [Next]_vars
  PROVE  InStep'
<1>1. CASE Switch
  BY <1>1, ValueFollowed DEF Switch, Returned
<1>2. CASE Evaluate
  BY <1>2, ValueFollowed DEF Evaluate, Evaluates, Returned
<1>3. CASE EvaluationFails
  BY <1>3, ValueFollowed DEF EvaluationFails, Evaluates, Returned, Fail
<1>4. CASE Finish
  <2>1. stack' = stack /\ stack = <<>>
    BY <1>4 DEF Finish, Finished, Returned, InStep, Poised
  <2>2. stage' = "prompt" /\ phase' = "idle" /\ error' = "none"
    BY <1>4 DEF Finish
  <2>3. QED
    BY <2>1, <2>2 DEF InStep, Poised, Followed
<1>5. CASE UNCHANGED vars
  BY <1>5 DEF vars, InStep, Poised, Followed, Top, Unterminated
<1>6. QED
  BY <1>1, <1>2, <1>3, <1>4, <1>5, TypeLineFollowed, TypeMoreFollowed, EndOfInputFollowed, NextFormFollowed,
     ReadFollowed DEF Next

LEMMA ScannersAgreeWhen ==
  ASSUME Typed, InStep
  PROVE  ScannersAgree
<1>0. SUFFICES ASSUME Plain(text), stage = "forms"
               PROVE  /\ source = "line" => ~Unterminated
                      /\ (source = "end" /\ Unfinished(text) /\ phase = "idle") => FormStart <= Len(text)
                      /\ Returned => ~Unfinished(SubSeq(text, begin, pos - 1)) /\ Depth(SubSeq(text, begin, pos - 1)).depth = 0
  BY DEF ScannersAgree
<1>1. text \in Texts /\ pos \in 1..Len(text)+1
  BY DEF Typed, ReaderTyped
<1>2. source = "line" => ~Unterminated
  BY <1>0 DEF InStep, Followed
<1>3. ASSUME Unfinished(text), phase = "idle" PROVE FormStart <= Len(text)
  <2>1. PICK n \in Nat : n = Len(text)
    BY <1>1, TextIs
  <2>2. PICK z \in Int, i \in {FormStart} : z = 0 /\ z = z + z /\ i = FormStart
    OBVIOUS
  <2>3. Passes(text, 1, pos, z)
    BY <1>0, <1>3, <2>2 DEF InStep, Followed
  <2>4. Passes(text, pos, i, z) /\ i \in pos..Len(text)+1
    BY <1>1, <2>2, StartPasses
  <2>5. i \in 1..Len(text)+1 /\ pos <= i /\ pos \in Nat
    BY <1>1, <2>1, <2>4
  <2>6. Passes(text, 1, i, z)
    BY <1>1, <2>2, <2>3, <2>4, <2>5, PassesOn
  <2>7. i # Len(text) + 1
    BY <1>1, <1>3, <2>2, <2>6, Closed
  <2>8. QED
    BY <2>1, <2>2, <2>5, <2>7
<1>4. ASSUME Returned
      PROVE  ~Unfinished(SubSeq(text, begin, pos - 1)) /\ Depth(SubSeq(text, begin, pos - 1)).depth = 0
  <2>1. PICK z \in Int : z = 0
    OBVIOUS
  <2>2. Passes(text, begin, pos, z) /\ begin \in 1..Len(text)+1 /\ pos \in begin..Len(text)+1
    BY <1>0, <1>1, <1>4, <2>1, FormPasses
  <2>3. Depth(SubSeq(text, begin, pos - 1)) = [depth |-> z, in_str |-> FALSE]
    BY <1>1, <2>2, PassesPart
  <2>4. QED
    BY <2>1, <2>3 DEF Unfinished
<1>5. QED
  BY <1>2, <1>3, <1>4

(* In text that both take alike, the REPL and the reader agree on where an *)
(* input ends, whatever is typed or loaded: lines that the REPL takes for  *)
(* complete never end within a list or a string, where it counts one that  *)
(* is open the reader always has a form left to read, and each form read   *)
(* has balanced parentheses (repl_depth, read_expr, read_list).            *)
THEOREM ReplScannersAgree == Spec => []ScannersAgree
<1>1. Init => Typed /\ InStep
  BY InitTyped, InitInStep
<1>2. Typed /\ InStep /\ [Next]_vars => (Typed /\ InStep)'
  BY TypedKept, StepFollowed
<1>3. Typed /\ InStep => ScannersAgree
  BY ScannersAgreeWhen
<1>4. QED
  BY <1>1, <1>2, <1>3, PTL DEF Spec

=============================================================================
