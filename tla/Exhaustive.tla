----------------------------- MODULE Exhaustive -----------------------------
(***************************************************************************)
(* Exhaustiveness and redundancy of a match (hiko-types/src/exhaustive.rs).  *)
(* A row of the matrix is a sequence of simplified patterns; a simplified    *)
(* pattern is a wildcard or a constructor of patterns.  cons are the         *)
(* constructors of the declared datatypes: a set, for each type, of          *)
(* constructors with their arities.                                          *)
(***************************************************************************)
EXTENDS Syntax, FiniteSets

Wild == [con |-> <<"Wild", "", 0>>, sub |-> <<>>]
SCon(kind, name, n, sub) == [con |-> <<kind, name, n>>, sub |-> sub]
IsWild(p) == p.con = Wild.con
Wilds(n) == [i \in 1..n |-> Wild]

\* TypeInfo: the constructors of a finite type, none for an infinite one.
Arm(kind, name, n, arity) == [con |-> <<kind, name, n>>, arity |-> arity]
BoolType == {Arm("PBoolLit", "", 1, 0), Arm("PBoolLit", "", 0, 0)}
UnitType == {Arm("PUnit", "", 0, 0)}
ListType == {Arm("Nil", "", 0, 0), Arm("Cons", "", 0, 2)}
TupleType(n) == {Arm("Tuple", "", n, n)}
AdtType(cons) == {Arm("Adt", c.name, 0, c.arity) : c \in cons}
Infinite == {}

\* An alias of a constructor is matched as the constructor it names; a literal
\* is a constructor of its own.
RECURSIVE SimplifyPat(_, _)
SimplifyPat(p, aliases) ==
  LET sub == [i \in DOMAIN p.c |-> SimplifyPat(p.c[i], aliases)]
  IN CASE p.k \in {"PWildcard", "PVar"} -> Wild
       [] p.k \in {"PAs", "PParen", "PAnn"} -> SimplifyPat(p.c[1], aliases)
       [] p.k = "PCon" ->
            SCon("Adt", IF p.v \in DOMAIN aliases THEN aliases[p.v] ELSE p.v, 0, sub)
       [] p.k = "PTuple" -> SCon("Tuple", "", Len(sub), sub)
       [] p.k = "PCons" -> SCon("Cons", "", 0, sub)
       [] p.k = "PList" ->
            FoldRight(LAMBDA x, rest : SCon("Cons", "", 0, <<x, rest>>), sub,
                      SCon("Nil", "", 0, <<>>))
       [] OTHER -> SCon(p.k, p.v, p.n, <<>>)

HeadConstructors(m) == {m[i][1].con : i \in {j \in DOMAIN m : ~IsWild(m[j][1])}}

SpecializeMatrix(m, con, arity) ==
  LET kept == SelectSeq(m, LAMBDA row : IsWild(row[1]) \/ row[1].con = con)
  IN [i \in DOMAIN kept |->
        (IF IsWild(kept[i][1]) THEN Wilds(arity) ELSE kept[i][1].sub) \o Tail(kept[i])]

\* Faulty: a row that starts with a constructor is kept.
DefaultMatrixAll(m) == [i \in DOMAIN m |-> Tail(m[i])]
DefaultMatrix(m) ==
  LET kept == SelectSeq(m, LAMBDA row : IsWild(row[1]))
  IN [i \in DOMAIN kept |-> Tail(kept[i])]

\* infer_type_info_from_column: the type of the first constructor in it.
ColumnType(m, col, cons) ==
  LET rows == {i \in DOMAIN m : ~IsWild(m[i][col])}
      con == m[CHOOSE i \in rows : \A j \in rows : i <= j][col].con
  IN IF rows = {} THEN Infinite
     ELSE CASE con[1] = "PBoolLit" -> BoolType
            [] con[1] = "PUnit" -> UnitType
            [] con[1] \in {"Nil", "Cons"} -> ListType
            [] con[1] = "Tuple" -> TupleType(con[3])
            [] con[1] = "Adt" ->
                 AdtType(CHOOSE cs \in cons : \E c \in cs : c.name = con[2])
            [] OTHER -> Infinite

\* is_useful and is_useful_specialized: a value matches q and no row of m.
RECURSIVE IsUseful(_, _, _, _)
IsUseful(m, q, types, cons) ==
  LET Specialized(con, sub) ==
        LET s == SpecializeMatrix(m, con, Len(sub))
        IN IsUseful(s, sub \o Tail(q),
                    [i \in DOMAIN sub |-> ColumnType(s, i, cons)] \o Tail(types), cons)
  IN CASE q = <<>> -> m = <<>>
       [] q # <<>> /\ ~IsWild(q[1]) -> Specialized(q[1].con, q[1].sub)
       [] OTHER ->
            IF types[1] # Infinite /\ \A c \in types[1] : c.con \in HeadConstructors(m)
            THEN \E c \in types[1] : Specialized(c.con, Wilds(c.arity))
            ELSE IsUseful(DefaultMatrix(m), Tail(q), Tail(types), cons)

\* check_match
CheckMatch(pats, type, aliases, cons) ==
  LET m == [i \in DOMAIN pats |-> <<SimplifyPat(pats[i], aliases)>>]
  IN [exhaustive |-> ~IsUseful(m, <<Wild>>, <<type>>, cons),
      redundant |-> {i \in DOMAIN m : ~IsUseful(SubSeq(m, 1, i - 1), m[i], <<type>>, cons)}]

=============================================================================
