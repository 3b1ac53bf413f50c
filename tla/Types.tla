-------------------------------- MODULE Types --------------------------------
(***************************************************************************)
(* Types, substitution, unification and generalization by levels            *)
(* (hiko-types/src/ty.rs and the first half of infer.rs).  A state holds     *)
(* what InferCtx holds: subst and levels of the type variables, the current  *)
(* level, the scopes of the environment, the declared types, constructors    *)
(* and effects, the resolved operand types by place, and the operators whose *)
(* operand type is still open.  err is set by the first type error; the      *)
(* limit on type work is left out.                                           *)
(***************************************************************************)
EXTENDS Syntax, FiniteSets, TLC

Ty(k, v, n, c) == [k |-> k, v |-> v, n |-> n, labels |-> {}, c |-> c]
VarT(n) == Ty("Var", "", n, <<>>)
ConT(v) == Ty("Con", v, 0, <<>>)
AppT(v, c) == Ty("App", v, 0, c)
TupleT(c) == Ty("Tuple", "", 0, c)
RowT(labels, tail) == [Ty("Row", "", 0, tail) EXCEPT !.labels = labels]
OpenRow(t) == RowT({}, <<t>>)
ArrowT(a, b, row) == Ty("Arrow", "", 0, <<a, b, row>>)
ListT(t) == AppT("list", <<t>>)
Unit == ConT("Unit")

\* PRIMITIVE_TYPES
Primitive ==
  [int |-> "Int", float |-> "Float", word |-> "Word", bool |-> "Bool", string |-> "String",
   char |-> "Char", unit |-> "Unit", bytes |-> "Bytes", rng |-> "Rng"]

RECURSIVE IsEquality(_), MayBeEquality(_), FreeVars(_)
IsEquality(t) ==
  CASE t.k = "Con" -> t.v \in {"Int", "Float", "Word", "Bool", "String", "Char", "Unit", "Bytes"}
    [] t.k = "App" -> t.v = "pid"
    [] t.k = "Tuple" -> \A i \in DOMAIN t.c : IsEquality(t.c[i])
    [] OTHER -> FALSE
MayBeEquality(t) ==
  CASE t.k = "Var" -> TRUE
    [] t.k = "Tuple" -> \A i \in DOMAIN t.c : MayBeEquality(t.c[i])
    [] OTHER -> IsEquality(t)
FreeVars(t) ==
  IF t.k = "Var" THEN {t.n} ELSE UNION {FreeVars(t.c[i]) : i \in DOMAIN t.c}

Mono(t) == [vars |-> {}, ty |-> t]

TypeError(s) == [s EXCEPT !.err = TRUE]
\* The state s if the condition holds, otherwise a type error.
Require(cond, s) == IF cond THEN s ELSE TypeError(s)

-----------------------------------------------------------------------------
(* Variables and their levels                                               *)

\* fresh_id: the variable Newest of the state it leads to.
Fresh(s) == [s EXCEPT !.levels = Append(@, s.level)]
Newest(s) == VarT(Len(s.levels))
Inner(s) == [s EXCEPT !.level = @ + 1]
Outer(s) == [s EXCEPT !.level = @ - 1]

\* Faulty: levels stay as they are.
KeepLevels(s, t, level) == s
LowerLevels(s, t, level) ==
  [s EXCEPT !.levels = [v \in {u \in FreeVars(t) : s.levels[u] > level} |-> level] @@ @]

BindVar(s, v, t) == [LowerLevels(s, t, s.levels[v]) EXCEPT !.subst = (v :> t) @@ @]

\* The newer variable, of the higher level or then the higher number, is bound
\* to the older one.
LinkVars(s, a, b) ==
  IF s.levels[a] > s.levels[b] \/ (s.levels[a] = s.levels[b] /\ a > b)
  THEN BindVar(s, a, VarT(b)) ELSE BindVar(s, b, VarT(a))

\* from -> to, with an open row of its own
Arrow(s, from, to) ==
  LET f == Fresh(s) IN [t |-> ArrowT(from, to, OpenRow(Newest(f))), s |-> f]

-----------------------------------------------------------------------------
(* Substitution and unification                                             *)

ExtendRow(labels, tail) ==
  IF tail.k = "Row" THEN [tail EXCEPT !.labels = @ \cup labels] ELSE RowT(labels, <<tail>>)

\* t with its variables replaced as long as subst has them (apply), or once
\* (substitute_vars).
RECURSIVE Replaced(_, _, _)
Replaced(t, subst, again) ==
  LET Sub(x) == Replaced(x, subst, again)
  IN CASE t.k = "Var" -> IF t.n \notin DOMAIN subst THEN t
                         ELSE IF again THEN Sub(subst[t.n]) ELSE subst[t.n]
       [] t.k = "Row" /\ t.c # <<>> -> ExtendRow(t.labels, Sub(t.c[1]))
       [] OTHER -> [t EXCEPT !.c = [i \in DOMAIN @ |-> Sub(@[i])]]
Apply(s, t) == Replaced(t, s.subst, TRUE)
SubstituteVars(t, mapping) == Replaced(t, mapping, FALSE)

\* The tail of each row takes the labels only the other has.
UnifyRows(s, a, b) ==
  LET only1 == a.labels \ b.labels
      only2 == b.labels \ a.labels
      f == Fresh(s)
      tail == <<Newest(f)>>
  IN CASE a.c = b.c -> Require(only1 = {} /\ only2 = {}, s)
       [] a.c # b.c /\ a.c # <<>> /\ b.c # <<>> ->
            IF only1 = {} /\ only2 = {} THEN LinkVars(s, a.c[1].n, b.c[1].n)
            ELSE BindVar(BindVar(f, a.c[1].n, RowT(only2, tail)), b.c[1].n, RowT(only1, tail))
       [] a.c # <<>> /\ b.c = <<>> ->
            IF only1 = {} THEN BindVar(s, a.c[1].n, RowT(only2, <<>>)) ELSE TypeError(s)
       [] a.c = <<>> /\ b.c # <<>> ->
            IF only2 = {} THEN BindVar(s, b.c[1].n, RowT(only1, <<>>)) ELSE TypeError(s)

RECURSIVE Unify(_, _, _), UnifyFrom(_, _, _, _)
Unify(s, t1, t2) ==
  LET a == Apply(s, t1)
      b == Apply(s, t2)
      Bound(v, t) == IF v.n \in FreeVars(t) THEN TypeError(s) ELSE BindVar(s, v.n, t)
  IN CASE s.err -> s
       [] ~s.err /\ a.k = "Var" /\ b.k = "Var" -> IF a = b THEN s ELSE LinkVars(s, a.n, b.n)
       [] ~s.err /\ a.k = "Var" /\ b.k # "Var" -> Bound(a, b)
       [] ~s.err /\ a.k # "Var" /\ b.k = "Var" -> Bound(b, a)
       [] ~s.err /\ a.k = "Row" /\ b.k = "Row" -> UnifyRows(s, a, b)
       [] OTHER -> IF a.k = b.k /\ a.v = b.v /\ Len(a.c) = Len(b.c)
                   THEN UnifyFrom(s, a.c, b.c, 1) ELSE TypeError(s)
UnifyFrom(s, as, bs, i) ==
  IF s.err \/ i > Len(as) THEN s ELSE UnifyFrom(Unify(s, as[i], bs[i]), as, bs, i + 1)

-----------------------------------------------------------------------------
(* The environment                                                          *)

Holding(s, name) == {i \in DOMAIN s.scopes : name \in DOMAIN s.scopes[i]}
HasValue(s, name) == Holding(s, name) # {}
Lookup(s, name) == s.scopes[MaxOf(Holding(s, name))][name]
BindAll(s, schemes) == [s EXCEPT !.scopes[Len(s.scopes)] = schemes @@ @]
Bind(s, name, scheme) == BindAll(s, name :> scheme)
PushScope(s) == [s EXCEPT !.scopes = Append(@, <<>>)]
PopScope(s) == [s EXCEPT !.scopes = Front(@)]

\* env_free_vars
EnvVars(s) ==
  UNION {UNION {FreeVars(Apply(s, s.scopes[i][x].ty)) \ s.scopes[i][x].vars
                  : x \in DOMAIN s.scopes[i]} : i \in DOMAIN s.scopes}
    \cup UNION {FreeVars(Apply(s, s.effects[e].arg)) \cup FreeVars(Apply(s, s.effects[e].res))
                  : e \in DOMAIN s.effects}
    \cup UNION {FreeVars(Apply(s, s.pending[i].ty)) : i \in DOMAIN s.pending}

\* generalize, with the assertion of check_levels_agree: the state remembers
\* whether it ever failed.
Generalized(s, t) ==
  LET ty == Apply(s, t)
  IN [vars |-> {v \in FreeVars(ty) : s.levels[v] > s.level}, ty |-> ty]
LevelsAgree(s, t) == Generalized(s, t).vars = FreeVars(Apply(s, t)) \ EnvVars(s)
Asserting(s, ok) == [s EXCEPT !.agree = @ /\ ok]

Monomorphized(s, t) == LowerLevels(s, Apply(s, t), s.level)

Instantiate(s, scheme) ==
  LET new(v) == VarT(Len(s.levels) + Cardinality({u \in scheme.vars : u <= v}))
  IN [t |-> SubstituteVars(Apply(s, scheme.ty), [v \in scheme.vars |-> new(v)]),
      s |-> [s EXCEPT !.levels = @ \o [i \in 1..Cardinality(scheme.vars) |-> s.level]]]

=============================================================================
