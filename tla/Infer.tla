-------------------------------- MODULE Infer --------------------------------
(***************************************************************************)
(* Type inference (hiko-types/src/infer.rs) on desugared declarations.  An   *)
(* inference step maps a state to a type and the state after it; patterns    *)
(* also give the types of the names they bind.                               *)
(***************************************************************************)
EXTENDS Types, Exhaustive

Res(t, s) == [t |-> t, s |-> s]
Bad(s) == Res(Unit, TypeError(s))

\* The builtin the modelled programs use, by the types it takes and gives.
BuiltinTypes == [string_length |-> <<"String", "Int">>]
New ==
  [subst |-> <<>>, levels |-> <<1>>, level |-> 1, agree |-> TRUE, err |-> FALSE,
   scopes |-> <<[b \in DOMAIN BuiltinTypes |->
                  [vars |-> {1}, ty |-> ArrowT(ConT(BuiltinTypes[b][1]), ConT(BuiltinTypes[b][2]),
                                               OpenRow(VarT(1)))]]>>,
   constructors |-> <<>>, arities |-> [list |-> 1, pid |-> 1], typeAliases |-> <<>>,
   impls |-> <<>>, tags |-> <<>>, aliases |-> <<>>, datatypes |-> <<>>, effects |-> <<>>,
   types |-> <<>>, pending |-> <<>>, depth |-> 0, warnings |-> 0]

\* The typing rules call each other through Infer, defined at the end; x, y and
\* z are what the rule needs besides the state, 0 for nothing.
RECURSIVE Infer(_, _, _, _, _)
Unified(s, t1, t2) == Infer("unify", s, t1, t2, 0)
ResolveType(s, t, ann, strict) == Infer("type", s, t, ann, strict)
Overload(s, ty, op, at) == Infer("overload", s, ty, op, at)
PatInner(s, p) == Infer("pattern", s, p, 0, 0)
InferPat(s, p) == Infer("linear pattern", s, p, 0, 0)
CheckExhaustiveness(s, pats, ty) == Infer("match", s, pats, ty, 0)
Reveal(s, t, ann) == Infer("reveal", s, t, ann, 0)
InferExpr(s, e) == Infer("expr", s, e, 0, 0)
InferAll(s, es, ts) == Infer("exprs", s, es, ts, 0)
Branches(s, arms, scrut, result) == Infer("arms", s, arms, scrut, result)
HandlerClauses(s, hs, bodyT, returnT) == Infer("handlers", s, hs, bodyT, returnT)
ParamsFrom(s, pats, args) == Infer("params", s, pats, args, 0)
ClausesFrom(s, clauses, args, result) == Infer("clauses", s, clauses, args, result)
BindingsFrom(s, bs, vars) == Infer("bindings", s, bs, vars, 0)
InferDecl(s, d) == Infer("decl", s, d, 0, 0)
InferDecls(s, ds) == Infer("decls", s, ds, 0, 0)

-----------------------------------------------------------------------------
(* Type expressions.  ann holds the type variables an annotation has bound   *)
(* and, in row, the row variable all its arrows share (0: none yet).         *)

NoAnn == [vars |-> <<>>, row |-> 0]
AnnRow(s, ann) ==
  LET f == Fresh(s)
  IN IF ann.row # 0 THEN [s |-> s, ann |-> ann]
     ELSE [s |-> f, ann |-> [ann EXCEPT !.row = Newest(f).n]]

\* instantiate_alias
AliasAt(s, al, args, ann) ==
  LET r == AnnRow(s, ann)
      params == [v \in {al.params[i] : i \in DOMAIN al.params} |->
                   args[CHOOSE i \in DOMAIN al.params : al.params[i] = v]]
  IN IF al.row = 0 THEN [t |-> SubstituteVars(al.body, params), s |-> s, ann |-> ann]
     ELSE [t |-> SubstituteVars(al.body, (al.row :> VarT(r.ann.row)) @@ params),
           s |-> r.s, ann |-> r.ann]

RECURSIVE ResolveAll(_, _, _, _, _)
TypeRule(s, t, ann, strict) ==
  LET Ok(ty) == [t |-> ty, s |-> s, ann |-> ann]
      no == [Ok(Unit) EXCEPT !.s = TypeError(s)]
      sub == ResolveAll(s, t.c, ann, strict, <<>>)
      With(ty) == [t |-> ty, s |-> sub.s, ann |-> sub.ann]
      row == AnnRow(sub.s, sub.ann)
      f == Fresh(s)
  IN IF sub.s.err THEN no ELSE
     CASE t.k = "TNamed" ->
            CASE t.v \in DOMAIN Primitive -> Ok(ConT(Primitive[t.v]))
              [] t.v \in DOMAIN s.typeAliases ->
                   IF s.typeAliases[t.v].params = <<>>
                   THEN AliasAt(s, s.typeAliases[t.v], <<>>, ann) ELSE no
              [] OTHER -> IF t.v \in DOMAIN s.arities /\ s.arities[t.v] = 0
                          THEN Ok(ConT(t.v)) ELSE no
       [] t.k = "TVar" ->
            CASE t.v \in DOMAIN ann.vars -> Ok(VarT(ann.vars[t.v]))
              [] t.v \notin DOMAIN ann.vars /\ strict -> no
              [] OTHER -> [t |-> Newest(f), s |-> f,
                           ann |-> [ann EXCEPT !.vars = (t.v :> Newest(f).n) @@ @]]
       [] t.k = "TApp" ->
            CASE t.v \in DOMAIN s.typeAliases ->
                   IF Len(s.typeAliases[t.v].params) = Len(sub.ts)
                   THEN AliasAt(sub.s, s.typeAliases[t.v], sub.ts, sub.ann) ELSE no
              [] OTHER -> IF t.v \in DOMAIN s.arities /\ s.arities[t.v] = Len(sub.ts)
                          THEN With(AppT(t.v, sub.ts)) ELSE no
       [] t.k = "TArrow" -> [t |-> ArrowT(sub.ts[1], sub.ts[2], OpenRow(VarT(row.ann.row))),
                             s |-> row.s, ann |-> row.ann]
       [] t.k = "TTuple" -> With(TupleT(sub.ts))
       [] t.k = "TParen" -> With(sub.ts[1])
ResolveAll(s, ts, ann, strict, done) ==
  LET r == ResolveType(s, Head(ts), ann, strict)
  IN IF s.err \/ ts = <<>> THEN [ts |-> done, s |-> s, ann |-> ann]
     ELSE ResolveAll(r.s, Tail(ts), r.ann, strict, Append(done, r.t))

-----------------------------------------------------------------------------
(* Overloaded operators                                                      *)

Allowed(op) == IF op = "Neg" THEN {"Int", "Float"} ELSE {"Int", "Float", "Word"}

\* check_overload: the state after it, and whether the operator was decided.
CheckOverload(s, p, last) ==
  LET ty == Apply(s, p.ty)
      open == IF p.op = "Equality" THEN ~IsEquality(ty) /\ MayBeEquality(ty) ELSE ty.k = "Var"
      fits == IF p.op = "Equality" THEN IsEquality(ty) ELSE ty.k = "Con" /\ ty.v \in Allowed(p.op)
  IN CASE open -> [done |-> last, s |-> Require(~last, s)]
       [] ~open /\ ~fits -> [done |-> TRUE, s |-> TypeError(s)]
       [] OTHER -> [done |-> TRUE,
                    s |-> IF p.op = "Equality" THEN s
                          ELSE [s EXCEPT !.types = (p.at :> ty.v) @@ @]]

\* An open operator is decided for every use at once.
OverloadRule(s, ty, op, at) ==
  LET p == [ty |-> ty, op |-> op, at |-> at]
      r == CheckOverload(s, p, FALSE)
  IN IF r.done THEN r.s
     ELSE [LowerLevels(r.s, Apply(r.s, ty), 1) EXCEPT !.pending = Append(@, p)]

RECURSIVE FinishOverloads(_)
FinishOverloads(s) ==
  IF s.pending = <<>> THEN s
  ELSE FinishOverloads(CheckOverload([s EXCEPT !.pending = Tail(@)], Head(s.pending), TRUE).s)

\* Only the end of a top-level declaration decides.
BeginDeclaration(s) == [s EXCEPT !.depth = @ + 1]
EndDeclaration(s) ==
  LET e == [s EXCEPT !.depth = @ - 1]
  IN IF e.depth > 0 \/ e.err THEN e ELSE FinishOverloads(e)

-----------------------------------------------------------------------------
(* Patterns                                                                  *)

LitTypes ==
  [IntLit |-> "Int", FloatLit |-> "Float", WordLit |-> "Word", StringLit |-> "String",
   CharLit |-> "Char", BoolLit |-> "Bool", Unit |-> "Unit"]
PatLitTypes ==
  [PIntLit |-> "Int", PFloatLit |-> "Float", PWordLit |-> "Word", PStringLit |-> "String",
   PCharLit |-> "Char", PBoolLit |-> "Bool", PUnit |-> "Unit"]

RECURSIVE PatsInner(_, _, _)
PatRule(s, p) ==
  LET f == Fresh(s)
      sub == PatsInner(s, p.c, [ts |-> <<>>, b |-> <<>>])
      Pat(t, st, b) == [t |-> t, s |-> st, b |-> b]
      inner == PatInner(s, p.c[1])
      declared == ResolveType(inner.s, p.c[2], NoAnn, FALSE)
      con == Instantiate(s, s.constructors[p.v])
      payload == PatInner(Fresh(con.s), p.c[1])
      expected == Arrow(payload.s, payload.t, Newest(Fresh(con.s)))
  IN CASE p.k \in DOMAIN PatLitTypes -> Pat(ConT(PatLitTypes[p.k]), s, <<>>)
       [] p.k = "PWildcard" -> Pat(Newest(f), f, <<>>)
       [] p.k = "PVar" -> Pat(Newest(f), f, <<<<p.v, Newest(f)>>>>)
       [] p.k = "PTuple" -> Pat(TupleT(sub.ts), sub.s, sub.b)
       [] p.k = "PList" -> Pat(ListT(Newest(f)), f, <<>>)
       [] p.k = "PCons" ->
            Pat(ListT(sub.ts[1]), Unified(sub.s, sub.ts[2], ListT(sub.ts[1])), sub.b)
       [] p.k = "PCon" ->
            CASE p.v \notin DOMAIN s.constructors -> Pat(Unit, TypeError(s), <<>>)
              [] p.v \in DOMAIN s.constructors /\ p.c = <<>> -> Pat(con.t, con.s, <<>>)
              [] OTHER -> Pat(Newest(Fresh(con.s)), Unified(expected.s, con.t, expected.t), payload.b)
       [] p.k = "PAnn" ->
            Pat(declared.t, Unified(declared.s, inner.t, declared.t), inner.b)
       [] p.k = "PAs" -> Pat(sub.ts[1], sub.s, Append(sub.b, <<p.v, sub.ts[1]>>))
PatsInner(s, ps, acc) ==
  LET r == PatInner(s, Head(ps))
  IN IF s.err \/ ps = <<>> THEN [ts |-> acc.ts, b |-> acc.b, s |-> s]
     ELSE PatsInner(r.s, Tail(ps), [ts |-> Append(acc.ts, r.t), b |-> acc.b \o r.b])

\* infer_pat: no name is bound twice.
LinearRule(s, p) ==
  LET r == PatInner(s, p)
  IN [r EXCEPT !.s = Require(\A i, j \in DOMAIN r.b : r.b[i][1] = r.b[j][1] => i = j, @)]

\* The monomorphic bindings of a pattern.
Monos(b) ==
  [x \in {b[i][1] : i \in DOMAIN b} |->
     Mono(b[CHOOSE i \in DOMAIN b : b[i][1] = x][2])]

-----------------------------------------------------------------------------
(* Matches                                                                   *)

ConsOf(s) == {s.datatypes[d] : d \in DOMAIN s.datatypes}
TypeInfoFor(s, t) ==
  CASE t.k = "Con" /\ t.v = "Bool" -> BoolType
    [] t.k = "Con" /\ t.v = "Unit" -> UnitType
    [] t.k = "App" /\ t.v = "list" -> ListType
    [] t.k = "Tuple" -> TupleType(Len(t.c))
    [] t.k \in {"Con", "App"} /\ t.v \in DOMAIN s.datatypes -> AdtType(s.datatypes[t.v])
    [] OTHER -> Infinite

\* Redundant clauses are warned of.
Matched(s, r) == [Require(r.exhaustive, s) EXCEPT !.warnings = @ + Cardinality(r.redundant)]
MatchRule(s, pats, ty) ==
  IF s.err THEN s
  ELSE Matched(s, CheckMatch(pats, TypeInfoFor(s, Apply(s, ty)), s.aliases, ConsOf(s)))

RECURSIVE IsSyntacticValue(_)
IsSyntacticValue(e) ==
  CASE e.k \in DOMAIN LitTypes \cup {"Var", "Constructor", "Fn"} -> TRUE
    [] e.k \in {"Tuple", "List", "Cons"} -> \A i \in DOMAIN e.c : IsSyntacticValue(e.c[i])
    [] e.k = "App" -> e.c[1].k = "Constructor" /\ IsSyntacticValue(e.c[2])
    [] e.k = "Ann" -> IsSyntacticValue(e.c[1])
    [] OTHER -> FALSE

-----------------------------------------------------------------------------
(* Types, constructors and effects                                           *)

NewTypeName(s, name) ==
  /\ name \notin DOMAIN Primitive \cup {Primitive[x] : x \in DOMAIN Primitive}
  /\ name \notin DOMAIN s.arities

ParamsOf(d) == SelectSeq(d.c, LAMBDA x : x.k = "Param")
\* A state with a variable for each parameter, and those variables by name.
Params(s, d) ==
  LET ps == ParamsOf(d)
      id(i) == Len(s.levels) + i
  IN [s |-> [s EXCEPT !.levels = @ \o [i \in DOMAIN ps |-> s.level]],
      ids |-> [i \in DOMAIN ps |-> id(i)],
      ann |-> [NoAnn EXCEPT !.vars = [v \in {ps[i].v : i \in DOMAIN ps} |->
                                        id(CHOOSE i \in DOMAIN ps : ps[i].v = v)]]]

\* The row of the function types in payloads is a parameter of every
\* constructor; the row of the constructor itself is its own.
RECURSIVE RegisterCons(_, _, _, _, _)
RegisterCons(s, cons, ann, vars, result) ==
  LET c == Head(cons)
      payload == ResolveType(s, c.c[1], ann, TRUE)
      f == Arrow(payload.s, payload.t, result)
      scheme == IF c.c = <<>> THEN [vars |-> vars, ty |-> result]
                ELSE [vars |-> vars \cup {Newest(f.s).n}, ty |-> f.t]
      next == [IF c.c = <<>> THEN s ELSE f.s EXCEPT !.constructors = (c.v :> scheme) @@ @]
  IN CASE cons = <<>> -> s
       [] cons # <<>> /\ c.v \in DOMAIN s.constructors -> TypeError(s)
       [] OTHER -> RegisterCons(Bind(next, c.v, scheme), Tail(cons), ann, vars, result)

RegisterDatatype(s, d) ==
  LET p == Params([s EXCEPT !.arities = (d.v :> d.n) @@ @], d)
      row == AnnRow(p.s, p.ann)
      cons == SelectSeq(d.c, LAMBDA x : x.k = "Con")
      names == {cons[i].v : i \in DOMAIN cons}
      result == IF p.ids = <<>> THEN ConT(d.v)
                ELSE AppT(d.v, [i \in DOMAIN p.ids |-> VarT(p.ids[i])])
      done == RegisterCons(row.s, cons, row.ann,
                           {p.ids[i] : i \in DOMAIN p.ids} \cup {row.ann.row}, result)
      tags == [x \in names |-> (CHOOSE i \in DOMAIN cons : cons[i].v = x) - 1]
      infos == {[name |-> cons[i].v, arity |-> Len(cons[i].c)] : i \in DOMAIN cons}
  IN IF ~NewTypeName(s, d.v) THEN TypeError(s)
     ELSE [done EXCEPT !.tags = tags @@ @, !.datatypes = (d.v :> infos) @@ @]

RegisterTypeAlias(s, d) ==
  LET p == Params(s, d)
      body == ResolveType(p.s, Last(d.c), p.ann, TRUE)
      alias == [params |-> p.ids, row |-> body.ann.row, body |-> body.t]
  IN IF ~NewTypeName(s, d.v) THEN TypeError(s)
     ELSE [body.s EXCEPT !.typeAliases = (d.v :> alias) @@ @, !.arities = (d.v :> d.n) @@ @]

RegisterAbstractType(s, d) ==
  LET impl == Last(d.c).v
  IN IF NewTypeName(s, d.v) /\ impl \in DOMAIN s.arities /\ s.arities[impl] = d.n
     THEN [s EXCEPT !.impls = (d.v :> impl) @@ @, !.arities = (d.v :> d.n) @@ @]
     ELSE TypeError(s)

\* The result type of an effect, and a row in its payload, are never
\* generalized: every perform and handler shares them.
RegisterEffect(s, d) ==
  LET payload == ResolveType(s, d.c[1], NoAnn, TRUE)
      arg == IF d.c = <<>> THEN Res(Unit, s) ELSE payload
      f == Fresh([LowerLevels(arg.s, arg.t, 0) EXCEPT !.level = 0])
  IN [f EXCEPT !.level = s.level, !.effects = (d.v :> [arg |-> arg.t, res |-> Newest(f)]) @@ @]

-----------------------------------------------------------------------------
(* Signatures: the exported type's variables are rigid                       *)

NamedType(s, name, args, ann) ==
  CASE name \in DOMAIN s.typeAliases -> AliasAt(s, s.typeAliases[name], args, ann)
    [] OTHER -> [t |-> IF args = <<>> THEN ConT(name) ELSE AppT(name, args), s |-> s, ann |-> ann]

RECURSIVE RevealAll(_, _, _, _)
RevealRule(s, t, ann) ==
  LET sub == RevealAll(s, t.c, ann, <<>>)
  IN CASE t.k \in {"Con", "App"} /\ t.v \in DOMAIN s.impls ->
            NamedType(sub.s, s.impls[t.v], sub.ts, sub.ann)
       [] t.k \in {"Var", "Row"} -> [t |-> t, s |-> s, ann |-> ann]
       [] OTHER -> [t |-> [t EXCEPT !.c = sub.ts], s |-> sub.s, ann |-> sub.ann]
RevealAll(s, ts, ann, done) ==
  LET r == Reveal(s, Head(ts), ann)
  IN IF s.err \/ ts = <<>> THEN [ts |-> done, s |-> s, ann |-> ann]
     ELSE RevealAll(r.s, Tail(ts), r.ann, Append(done, r.t))

RECURSIVE MentionsRigid(_)
MentionsRigid(t) ==
  \/ t.k = "Con" /\ SubSeq(t.v, 1, 1) = "'"
  \/ t.k \in {"Arrow", "Tuple", "App"} /\ \E i \in DOMAIN t.c : MentionsRigid(t.c[i])

\* A variable of the environment that ends up bound to a rigid one means that
\* the value is less polymorphic than its signature.  The assertion of the test
\* builds compares this with a walk of the environment.
CheckMatchesSignature(s, scheme, spec, ann) ==
  LET rigid == [v \in {ann.vars[x] : x \in DOMAIN ann.vars} |->
                  ConT(CHOOSE x \in DOMAIN ann.vars : ann.vars[x] = v)]
      revealed == Reveal(Inner(s), spec, ann)
      expected == SubstituteVars(revealed.t, rigid)
      actual == Instantiate(revealed.s, scheme)
      outer == {v \in FreeVars(actual.t) \cup FreeVars(Apply(actual.s, expected)) :
                  actual.s.levels[v] < actual.s.level}
      unified == Outer(Unified(actual.s, actual.t, expected))
      Escaped(vs) == \E v \in vs : MentionsRigid(Apply(unified, VarT(v)))
  IN Asserting(Require(~Escaped(outer), unified),
               unified.err \/ Escaped(outer) = Escaped(EnvVars(s)))

InferExport(s, d) ==
  LET ty == ResolveType(s, d.c[2], NoAnn, FALSE)
      ok == HasValue(s, d.c[1].v) /\ d.v \notin DOMAIN s.constructors
      checked == CheckMatchesSignature(ty.s, Lookup(s, d.c[1].v), ty.t, ty.ann)
  IN IF ok /\ ~ty.s.err THEN Bind(checked, d.v, [vars |-> FreeVars(ty.t), ty |-> ty.t])
     ELSE TypeError(s)

-----------------------------------------------------------------------------
(* Expressions                                                               *)

RECURSIVE ListOf(_, _, _)

\* e under the bindings of a pattern.
Under(s, bindings, e) == InferExpr(BindAll(s, Monos(bindings)), e)

ExprsRule(s, es, ts) ==
  LET r == InferExpr(s, Head(es))
  IN IF s.err \/ es = <<>> THEN [ts |-> ts, s |-> s]
     ELSE IF r.s.err THEN [ts |-> ts, s |-> r.s] ELSE InferAll(r.s, Tail(es), Append(ts, r.t))

ListOf(s, list, ts) ==
  IF s.err \/ ts = <<>> THEN Res(list, s)
  ELSE ListOf(Unified(s, list, ListT(Last(ts))), ListT(Last(ts)), Front(ts))

\* The branches of a case: every pattern has the type of the scrutinee, every
\* body that of the result.
ArmsRule(s, arms, scrut, result) ==
  LET p == InferPat(PushScope(s), arms[1].c[1])
      body == Under(Unified(p.s, p.t, scrut), p.b, arms[1].c[2])
      next == PopScope(Unified(body.s, body.t, result))
  IN IF s.err \/ arms = <<>> THEN s
     ELSE IF p.s.err \/ body.s.err THEN TypeError(s)
     ELSE IF next.err THEN next ELSE Branches(next, Tail(arms), scrut, result)

HandlersRule(s, hs, bodyT, returnT) ==
  LET h == hs[1]
      known == h.v \in DOMAIN s.effects
      cont == Arrow(PushScope(s), s.effects[h.v].res, bodyT)
      bound == Bind(Bind(cont.s, h.c[1].v, Mono(s.effects[h.v].arg)), h.c[2].v, Mono(cont.t))
      r == InferExpr(bound, h.c[3])
      next == PopScope(Unified(r.s, r.t, returnT))
  IN IF s.err \/ hs = <<>> THEN s
     ELSE IF ~known \/ r.s.err THEN TypeError(s)
     ELSE IF next.err THEN next ELSE HandlerClauses(next, Tail(hs), bodyT, returnT)

InferBinop(s, e) ==
  LET r == InferAll(s, e.c, <<>>)
      same == Unified(r.s, r.ts[1], r.ts[2])
  IN IF r.s.err \/ (e.v # "ConcatStr" /\ same.err) THEN Bad(s) ELSE
     CASE e.v \in {"Add", "Sub", "Mul", "Div", "Mod"} ->
            Res(r.ts[1], Overload(same, r.ts[1], "Numeric", e.p))
       [] e.v \in {"Lt", "Gt", "Le", "Ge"} ->
            Res(ConT("Bool"), Overload(same, r.ts[1], "Numeric", e.p))
       [] e.v \in {"Eq", "Ne"} -> Res(ConT("Bool"), Overload(same, r.ts[1], "Equality", e.p))
       [] e.v = "ConcatStr" ->
            Res(ConT("String"),
                Unified(Unified(r.s, r.ts[1], ConT("String")), r.ts[2], ConT("String")))

\* Application, and resumption of a continuation.
InferApp(s, e) ==
  LET r == InferAll(s, e.c, <<>>)
      f == Fresh(r.s)
      expected == Arrow(f, r.ts[2], Newest(f))
  IN IF r.s.err THEN Bad(s) ELSE Res(Newest(f), Unified(expected.s, r.ts[1], expected.t))

InferFn(s, e) ==
  LET p == InferPat(PushScope(s), e.c[1])
      body == Under(p.s, p.b, e.c[2])
      checked == CheckExhaustiveness(PopScope(body.s), <<e.c[1]>>, p.t)
  IN IF p.s.err \/ body.s.err \/ checked.err THEN Bad(s) ELSE Arrow(checked, p.t, body.t)

InferCase(s, e) ==
  LET scrut == InferExpr(s, e.c[1])
      f == Fresh(scrut.s)
      arms == Tail(e.c)
      done == Branches(f, arms, scrut.t, Newest(f))
  IN IF scrut.s.err \/ done.err THEN Bad(s)
     ELSE Res(Newest(f), CheckExhaustiveness(done, [i \in DOMAIN arms |-> arms[i].c[1]], scrut.t))

InferHandle(s, e) ==
  LET body == InferExpr(s, e.c[1])
      ret == InferExpr(Bind(PushScope(body.s), e.v, Mono(body.t)), e.c[2])
  IN IF body.s.err \/ ret.s.err THEN Bad(s)
     ELSE Res(ret.t, HandlerClauses(PopScope(ret.s), SubSeq(e.c, 3, Len(e.c)), body.t, ret.t))

InferPerform(s, e) ==
  LET arg == InferExpr(s, e.c[1])
      sig == s.effects[e.v]
  IN IF e.v \notin DOMAIN s.effects \/ arg.s.err THEN Bad(s)
     ELSE Res(sig.res, Unified(arg.s, arg.t, sig.arg))

ExprRule(s, e) ==
  LET r == InferAll(s, e.c, <<>>)
      first == InferExpr(s, e.c[1])
      declared == ResolveType(first.s, e.c[2], NoAnn, FALSE)
      decls == InferDecls(PushScope(s), Front(e.c))
      body == InferExpr(decls, Last(e.c))
      cond == Unified(first.s, first.t, ConT("Bool"))
      branches == InferAll(cond, Tail(e.c), <<>>)
  IN IF s.err THEN Bad(s) ELSE
     CASE e.k \in DOMAIN LitTypes -> Res(ConT(LitTypes[e.k]), s)
       [] e.k = "Var" ->
            IF HasValue(s, e.v) THEN Instantiate(s, Lookup(s, e.v)) ELSE Bad(s)
       [] e.k = "Constructor" ->
            IF e.v \in DOMAIN s.constructors THEN Instantiate(s, s.constructors[e.v]) ELSE Bad(s)
       [] e.k \in {"Tuple", "List", "Cons"} ->
            CASE r.s.err -> Bad(s)
              [] ~r.s.err /\ e.k = "Tuple" -> Res(TupleT(r.ts), r.s)
              [] ~r.s.err /\ e.k = "List" ->
                   ListOf(Fresh(r.s), ListT(Newest(Fresh(r.s))), r.ts)
              [] OTHER -> Res(ListT(r.ts[1]), Unified(r.s, r.ts[2], ListT(r.ts[1])))
       [] e.k = "BinOp" -> InferBinop(s, e)
       [] e.k = "UnaryNeg" ->
            IF first.s.err THEN Bad(s)
            ELSE Res(first.t, Overload(first.s, first.t, "Neg", e.p))
       [] e.k \in {"App", "Resume"} -> InferApp(s, e)
       [] e.k = "Fn" -> InferFn(s, e)
       [] e.k = "If" ->
            IF first.s.err \/ cond.err \/ branches.s.err THEN Bad(s)
            ELSE Res(branches.ts[1], Unified(branches.s, branches.ts[1], branches.ts[2]))
       [] e.k = "Let" ->
            IF decls.err \/ body.s.err THEN Bad(s) ELSE Res(body.t, PopScope(body.s))
       [] e.k = "Case" -> InferCase(s, e)
       [] e.k = "Ann" ->
            IF first.s.err \/ declared.s.err THEN Bad(s)
            ELSE Res(declared.t, Unified(declared.s, first.t, declared.t))
       [] e.k = "Perform" -> InferPerform(s, e)
       [] e.k = "Handle" -> InferHandle(s, e)

-----------------------------------------------------------------------------
(* Declarations                                                              *)

\* Generalize and bind the types ts under the given names, all from the state s.
BindGeneral(s, names, ts) ==
  Asserting(BindAll(s, [x \in {names[i] : i \in DOMAIN names} |->
                          Generalized(s, ts[MaxOf({i \in DOMAIN names : names[i] = x})])]),
            s.err \/ \A i \in DOMAIN ts : LevelsAgree(s, ts[i]))

RECURSIVE BindMono(_, _)
BindMono(s, b) ==
  IF b = <<>> THEN s
  ELSE BindMono(Bind(Monomorphized(s, b[1][2]), b[1][1], Mono(Apply(s, b[1][2]))), Tail(b))

InferVal(s, d) ==
  LET e == InferExpr(Inner(s), d.c[2])
      p == InferPat(e.s, d.c[1])
      u == Outer(Unified(p.s, e.t, p.t))
      names == [i \in DOMAIN p.b |-> p.b[i][1]]
      ok == \A i \in DOMAIN names : names[i] \notin DOMAIN s.constructors
      failed == e.s.err \/ p.s.err \/ u.err \/ ~ok
  IN CASE failed -> TypeError(s)
       [] ~failed /\ IsSyntacticValue(d.c[2]) ->
            BindGeneral(u, names, [i \in DOMAIN p.b |-> p.b[i][2]])
       [] OTHER -> BindMono(u, p.b)

InferValRec(s, d) ==
  LET f == Fresh(Inner(PushScope(s)))
      e == InferExpr(Bind(f, d.v, Mono(Newest(f))), d.c[1])
      u == PopScope(Outer(Unified(e.s, Newest(f), e.t)))
  IN IF e.s.err \/ u.err THEN TypeError(s) ELSE BindGeneral(u, <<d.v>>, <<Newest(f)>>)

\* The patterns of one clause against the types of the parameters.
ParamsRule(s, pats, args) ==
  LET p == InferPat(s, Head(pats))
  IN IF s.err \/ pats = <<>> THEN s
     ELSE IF p.s.err THEN TypeError(s)
     ELSE ParamsFrom(BindAll(Unified(p.s, p.t, Head(args)), Monos(p.b)), Tail(pats), Tail(args))
ClausesRule(s, clauses, args, result) ==
  LET pats == Front(clauses[1].c)
      params == ParamsFrom(PushScope(s), pats, args)
      body == InferExpr(params, Last(clauses[1].c))
      next == PopScope(Unified(body.s, body.t, result))
  IN IF s.err \/ clauses = <<>> THEN s
     ELSE IF Len(pats) # Len(args) \/ params.err \/ body.s.err THEN TypeError(s)
     ELSE IF next.err THEN next ELSE ClausesFrom(next, Tail(clauses), args, result)

RECURSIVE Curried(_, _, _)
Curried(s, args, t) ==
  LET r == Arrow(s, Last(args), t)
  IN IF args = <<>> THEN Res(t, s) ELSE Curried(r.s, Front(args), r.t)

InferFunBinding(s, b) ==
  LET arity == Len(b.c[1].c) - 1
      args == [i \in 1..arity |-> VarT(Len(s.levels) + i)]
      f == [s EXCEPT !.levels = @ \o [i \in 1..(arity + 1) |-> s.level]]
      done == ClausesFrom(f, b.c, args, Newest(f))
      row(cl) == IF arity = 1 THEN cl.c[1] ELSE Of("PTuple", Front(cl.c))
      checked == CheckExhaustiveness(done, [i \in DOMAIN b.c |-> row(b.c[i])],
                                     IF arity = 1 THEN args[1] ELSE TupleT(args))
  IN IF done.err \/ checked.err THEN Bad(s) ELSE Curried(checked, args, Newest(f))

BindingsRule(s, bs, vars) ==
  LET r == InferFunBinding(s, Head(bs))
  IN IF s.err \/ bs = <<>> THEN s
     ELSE IF r.s.err THEN TypeError(s)
     ELSE BindingsFrom(Unified(r.s, Head(vars), r.t), Tail(bs), Tail(vars))

\* The functions of a group see each other at one type each.
InferFun(s, d) ==
  LET names == [i \in DOMAIN d.c |-> d.c[i].v]
      f == [Inner(PushScope(s)) EXCEPT !.levels = @ \o [i \in DOMAIN names |-> s.level + 1]]
      vars == [i \in DOMAIN names |-> VarT(Len(s.levels) + i)]
      bound == BindAll(f, Monos([i \in DOMAIN names |-> <<names[i], vars[i]>>]))
      u == BindingsFrom(bound, d.c, vars)
  IN IF u.err THEN TypeError(s) ELSE BindGeneral(PopScope(Outer(u)), names, vars)

\* A local declaration within an expression: its body's names go to the
\* enclosing scope.
InferLocal(s, d) ==
  LET priv == InferDecls(PushScope(s), SubSeq(d.c, 1, d.n))
      body == InferDecls(PushScope(priv), SubSeq(d.c, d.n + 1, Len(d.c)))
  IN IF priv.err \/ body.err THEN TypeError(s) ELSE BindAll(PopScope(PopScope(body)), Last(body.scopes))

InferDeclInner(s, d) ==
  CASE d.k = "Val" -> InferVal(s, d)
    [] d.k = "ValRec" -> InferValRec(s, d)
    [] d.k = "Fun" -> InferFun(s, d)
    [] d.k = "Datatype" -> RegisterDatatype(s, d)
    [] d.k = "TypeAlias" -> RegisterTypeAlias(s, d)
    [] d.k = "AbstractType" -> RegisterAbstractType(s, d)
    [] d.k = "ExportVal" -> InferExport(s, d)
    [] d.k = "Effect" -> RegisterEffect(s, d)
    [] d.k = "Local" -> InferLocal(s, d)
    [] OTHER -> s

Ended(s) == IF s.err THEN s ELSE EndDeclaration(s)
DeclRule(s, d) == IF s.err THEN s ELSE Ended(InferDeclInner(BeginDeclaration(s), d))
DeclsRule(s, ds) ==
  LET next == InferDecl(s, Head(ds))
  IN IF s.err \/ ds = <<>> THEN s ELSE IF next.err THEN next ELSE InferDecls(next, Tail(ds))

Infer(rule, s, x, y, z) ==
  CASE rule = "unify" -> Unify(s, x, y)
    [] rule = "type" -> TypeRule(s, x, y, z)
    [] rule = "overload" -> OverloadRule(s, x, y, z)
    [] rule = "pattern" -> PatRule(s, x)
    [] rule = "linear pattern" -> LinearRule(s, x)
    [] rule = "match" -> MatchRule(s, x, y)
    [] rule = "reveal" -> RevealRule(s, x, y)
    [] rule = "expr" -> ExprRule(s, x)
    [] rule = "exprs" -> ExprsRule(s, x, y)
    [] rule = "arms" -> ArmsRule(s, x, y, z)
    [] rule = "handlers" -> HandlersRule(s, x, y, z)
    [] rule = "params" -> ParamsRule(s, x, y)
    [] rule = "clauses" -> ClausesRule(s, x, y, z)
    [] rule = "bindings" -> BindingsRule(s, x, y)
    [] rule = "decl" -> DeclRule(s, x)
    [] rule = "decls" -> DeclsRule(s, x)

-----------------------------------------------------------------------------
(* Names an import exposes                                                   *)

BindValueAlias(s, alias, target) ==
  LET scheme == Lookup(s, target)
  IN Bind(s, alias, [scheme EXCEPT !.ty = Apply(s, @)])

BindConstructorAlias(s, alias, target) ==
  LET scheme == s.constructors[target]
      canonical == IF target \in DOMAIN s.aliases THEN s.aliases[target] ELSE target
  IN [Bind(s, alias, scheme) EXCEPT !.constructors = (alias :> scheme) @@ @,
                                    !.tags = (alias :> s.tags[target]) @@ @,
                                    !.aliases = (alias :> canonical) @@ @]

=============================================================================
