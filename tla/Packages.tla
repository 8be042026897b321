------------------------------ MODULE Packages ------------------------------
(***************************************************************************)
(* Symbols and packages: interning, export, and what a name denotes in a   *)
(* package.                                                                *)
(*                                                                         *)
(* A name is a sequence of words, see Reader.  A package has two tables    *)
(* from names to symbols; a symbol is its position in symbols.  use-list   *)
(* are set up once, CL-USER (and a package of the system like it) using    *)
(* CL; a package the reader makes uses none.                               *)
(***************************************************************************)
EXTENDS Naturals, Sequences, FiniteSets, SequencesExt

VARIABLES packages,      \* name -> the external and internal tables, the use-list
          symbols        \* symbol objects: their name and home package

CL      == <<"CL">>           \* COMMON-LISP
User    == <<"CL-USER">>      \* COMMON-LISP-USER, the current package
Keyword == <<"KEYWORD">>
NoPackage == <<>>

QUOTE    == 1                 \* these two stand for all that CL exports
FUNCTION == 2

EmptyPackage == [external |-> <<>>, internal |-> <<>>, use |-> <<>>]

-----------------------------------------------------------------------------
(* ps are the packages as they are in the middle of an operation.          *)

(* The entry for n in a table, 0 for none.                                 *)
Entry(table, n) == IF n \in DOMAIN table THEN table[n] ELSE 0

Put(table, n, s) == [m \in DOMAIN table \cup {n} |-> IF m = n THEN s ELSE table[m]]

Own(ps, p, n) ==
  IF Entry(ps[p].external, n) # 0 THEN Entry(ps[p].external, n) ELSE Entry(ps[p].internal, n)

(* The places in the use-list of the packages that export the name.        *)
Exporters(ps, p, n) == {i \in DOMAIN ps[p].use : Entry(ps[ps[p].use[i]].external, n) # 0}

(* What the first of them has.                                             *)
Inherited(ps, p, n) ==
  IF Exporters(ps, p, n) = {} THEN 0
  ELSE Entry(ps[ps[p].use[Min(Exporters(ps, p, n))]].external, n)

(* Slip: a used package's symbol hides the package's own.                  *)
InheritedFirst(ps, p, n) ==
  IF Inherited(ps, p, n) # 0 THEN Inherited(ps, p, n) ELSE Own(ps, p, n)

(* The symbol a name denotes in a package, 0 for none yet.                 *)
Found(ps, p, n) == IF Own(ps, p, n) # 0 THEN Own(ps, p, n) ELSE Inherited(ps, p, n)

Ensured(ps, p) == [q \in DOMAIN ps \cup {p} |-> IF q \in DOMAIN ps THEN ps[q] ELSE EmptyPackage]

(* With a new symbol s of name n; the keywords are all external.           *)
Entered(ps, p, n, s) ==
  IF p = Keyword THEN [ps EXCEPT ![p].external = Put(@, n, s)]
  ELSE [ps EXCEPT ![p].internal = Put(@, n, s)]

-----------------------------------------------------------------------------
PackageInit ==
  /\ packages = [p \in {CL, User, Keyword} |->
                   CASE p = CL      -> [EmptyPackage EXCEPT !.external =
                                          Put(Put(<<>>, <<"QUOTE">>, QUOTE), <<"FUNCTION">>, FUNCTION)]
                     [] p = User    -> [EmptyPackage EXCEPT !.use = <<CL>>]
                     [] p = Keyword -> EmptyPackage]
  /\ symbols = <<[name |-> <<"QUOTE">>, package |-> CL], [name |-> <<"FUNCTION">>, package |-> CL]>>

(* ls_intern_sym in package p of ps.                                       *)
Intern(ps, p, n) ==
  IF Found(ps, p, n) # 0 THEN packages' = ps /\ UNCHANGED symbols
  ELSE /\ symbols' = Append(symbols, [name |-> n, package |-> p])
       /\ packages' = Entered(ps, p, n, Len(symbols) + 1)

(* A symbol in no package.                                                 *)
MakeUninterned(n) ==
  symbols' = Append(symbols, [name |-> n, package |-> NoPackage]) /\ UNCHANGED packages

Home(s) == IF symbols[s].package = NoPackage THEN User ELSE symbols[s].package

(* export takes the symbol's own package, or the current one for a symbol  *)
(* in none, and leaves the internal table as it is.                        *)
Export(s) ==
  /\ packages' = [packages EXCEPT ![Home(s)].external = Put(@, symbols[s].name, s)]
  /\ UNCHANGED symbols

-----------------------------------------------------------------------------
PackageTypeOK ==
  /\ \A p \in DOMAIN packages :
       /\ packages[p].use \in Seq(DOMAIN packages)
       /\ \A n \in DOMAIN packages[p].external : packages[p].external[n] \in DOMAIN symbols
       /\ \A n \in DOMAIN packages[p].internal : packages[p].internal[n] \in DOMAIN symbols
  /\ \A s \in DOMAIN symbols : symbols[s].package \in DOMAIN packages \cup {NoPackage}

(* Once a name denotes a symbol in a package it denotes that symbol for    *)
(* good, whatever is read, interned and exported in whatever order; only a *)
(* symbol without a package can take the name over when it is exported,    *)
(* and lose it again (ls_intern_sym, bi_export).                           *)
NamesStable ==
  \A p \in DOMAIN packages : \A s \in DOMAIN symbols :
    LET n == symbols[s].name
        t == Found(packages, p, n)
        u == Found(packages', p, n)
    IN  t # 0 /\ u # t => u # 0 /\ NoPackage \in {symbols[t].package, symbols'[u].package}

=============================================================================
