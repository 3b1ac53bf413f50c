------------------------------- MODULE Desugar -------------------------------
(***************************************************************************)
(* Desugaring and constant folding (hiko-syntax/src/desugar.rs and          *)
(* constfold.rs).  A structure becomes one `local` without a private part   *)
(* whose members carry the structure's name; a sealed structure keeps its   *)
(* members under hidden names and exports what its signature lists.         *)
(***************************************************************************)
EXTENDS Lexer

Each(c, F(_)) == [i \in DOMAIN c |-> F(c[i])]

-----------------------------------------------------------------------------
(* Names                                                                    *)

Mangle(mod, name, hidden) == mod \o "." \o (IF hidden THEN "$" ELSE "") \o name

RECURSIVE PatNames(_)
PatNames(p) ==
  (IF p.k \in {"PVar", "PAs"} THEN {p.v} ELSE {})
    \cup UNION {PatNames(p.c[i]) : i \in {j \in DOMAIN p.c : p.k # "PAnn" \/ j = 1}}

LocalBody(d) == SubSeq(d.c, d.n + 1, Len(d.c))

\* local_decl_value_names
RECURSIVE ValueNames(_)
ValueNames(d) ==
  CASE d.k = "Val" -> PatNames(d.c[1])
    [] d.k \in {"ValRec", "ExportVal"} -> {d.v}
    [] d.k = "Fun" -> {d.c[i].v : i \in DOMAIN d.c}
    [] d.k = "Local" -> UNION {ValueNames(LocalBody(d)[i]) : i \in DOMAIN LocalBody(d)}
    [] OTHER -> {}

ConNames(d) == {d.c[i].v : i \in {j \in DOMAIN d.c : d.c[j].k = "Con"}}

\* collect_decl_exports, for one name space.
RECURSIVE Exports(_, _)
Exports(d, space) ==
  CASE d.k = "Local" -> UNION {Exports(LocalBody(d)[i], space) : i \in DOMAIN LocalBody(d)}
    [] d.k = "Datatype" /\ space = "types" -> {d.v}
    [] d.k = "Datatype" /\ space = "constructors" -> ConNames(d)
    [] d.k = "TypeAlias" /\ space = "types" -> {d.v}
    [] d.k = "Effect" /\ space = "effects" -> {d.v}
    [] d.k \in {"Val", "ValRec", "Fun"} /\ space = "values" -> ValueNames(d)
    [] OTHER -> {}

\* The names a structure defines; all of them become mod.name, or mod.$name
\* when a signature hides them.
ModuleScope(decls, mod, hidden) ==
  LET all(space) == UNION {Exports(decls[i], space) : i \in DOMAIN decls}
  IN [mod |-> mod, hidden |-> hidden, values |-> all("values"), types |-> all("types"),
      constructors |-> all("constructors"), effects |-> all("effects")]
InScope(sc, space, name) ==
  IF name \in sc[space] THEN Mangle(sc.mod, name, sc.hidden) ELSE name

RECURSIVE RenameType(_, _), RenamePat(_, _, _), RenameExpr(_, _, _), RenameDecl(_, _, _, _),
          RenameLocals(_, _, _)

RenameType(t, sc) ==
  [t EXCEPT !.v = IF t.k \in {"TNamed", "TApp"} THEN InScope(sc, "types", @) ELSE @,
            !.c = Each(@, LAMBDA x : RenameType(x, sc))]

RenamePat(p, sc, export) ==
  [p EXCEPT !.v = CASE p.k \in {"PVar", "PAs"} /\ export -> InScope(sc, "values", @)
                    [] p.k = "PCon" -> InScope(sc, "constructors", @)
                    [] OTHER -> @,
            !.c = [i \in DOMAIN @ |-> IF p.k = "PAnn" /\ i = 2 THEN RenameType(@[i], sc)
                                      ELSE RenamePat(@[i], sc, export)]]

\* env: the local names, which hide the structure's own.
RenameExpr(e, sc, env) ==
  LET Under(names, x) == RenameExpr(x, sc, env \cup names)
      Sub(x) == Under({}, x)
      decls == RenameLocals(Front(e.c), sc, env)
      declared == UNION {ValueNames(decls[i]) : i \in DOMAIN decls}
  IN CASE e.k = "Var" -> [e EXCEPT !.v = IF @ \in env THEN @ ELSE InScope(sc, "values", @)]
       [] e.k = "Constructor" -> [e EXCEPT !.v = InScope(sc, "constructors", @)]
       [] e.k \in {"Fn", "Arm"} ->
            [e EXCEPT !.c = <<RenamePat(@[1], sc, FALSE), Under(PatNames(@[1]), @[2])>>]
       [] e.k = "Let" -> [e EXCEPT !.c = Append(decls, Under(declared, Last(@)))]
       [] e.k = "Ann" -> [e EXCEPT !.c = <<Sub(@[1]), RenameType(@[2], sc)>>]
       [] e.k = "Perform" -> [e EXCEPT !.v = InScope(sc, "effects", @), !.c = Each(@, Sub)]
       [] e.k = "Handle" ->
            [e EXCEPT !.c = [i \in DOMAIN @ |-> IF i = 2 THEN Under({e.v}, @[i]) ELSE Sub(@[i])]]
       [] e.k = "Handler" ->
            [e EXCEPT !.v = InScope(sc, "effects", @),
                      !.c = <<@[1], @[2], Under({@[1].v, @[2].v}, @[3])>>]
       [] OTHER -> [e EXCEPT !.c = Each(@, Sub)]

\* A later local declaration sees the earlier ones.
RenameLocals(ds, sc, env) ==
  IF ds = <<>> THEN <<>>
  ELSE <<RenameDecl(Head(ds), sc, env, FALSE)>>
         \o RenameLocals(Tail(ds), sc, env \cup ValueNames(Head(ds)))

RenameClause(cl, sc, env) ==
  LET pats == Front(cl.c)
      bound == UNION {PatNames(pats[i]) : i \in DOMAIN pats}
  IN [cl EXCEPT !.c = Append(Each(pats, LAMBDA p : RenamePat(p, sc, FALSE)),
                             RenameExpr(Last(@), sc, env \cup bound))]

RenameDecl(d, sc, env, export) ==
  LET Own(space, name) == IF export THEN InScope(sc, space, name) ELSE name
      rec == IF export THEN {} ELSE ValueNames(d)
      Payloads(x) == Each(x.c, LAMBDA t : RenameType(t, sc))
  IN CASE d.k = "Val" ->
            [d EXCEPT !.c = <<RenamePat(@[1], sc, export), RenameExpr(@[2], sc, env)>>]
       [] d.k = "ValRec" ->
            [d EXCEPT !.v = Own("values", @), !.c = <<RenameExpr(@[1], sc, env \cup rec)>>]
       [] d.k = "Fun" ->
            [d EXCEPT !.c = Each(@, LAMBDA b : [b EXCEPT !.v = Own("values", @),
                                                         !.c = Each(@, LAMBDA cl : RenameClause(cl, sc, env \cup rec))])]
       [] d.k = "Datatype" ->
            [d EXCEPT !.v = Own("types", @),
                      !.c = Each(@, LAMBDA x : IF x.k # "Con" THEN x
                                    ELSE [x EXCEPT !.v = Own("constructors", @),
                                                   !.c = Payloads(x)])]
       [] d.k \in {"TypeAlias", "Effect"} ->
            [d EXCEPT !.v = Own(IF d.k = "Effect" THEN "effects" ELSE "types", @),
                      !.c = Each(@, LAMBDA x : IF x.k = "Param" THEN x ELSE RenameType(x, sc))]
       [] d.k = "Local" ->
            [d EXCEPT !.c = RenameLocals(SubSeq(@, 1, d.n), sc, env)
                             \o (IF export
                                 THEN Each(LocalBody(d), LAMBDA x : RenameDecl(x, sc, env, TRUE))
                                 ELSE RenameLocals(LocalBody(d), sc, env))]
       [] OTHER -> d

-----------------------------------------------------------------------------
(* Sugar                                                                    *)

True == Lit("BoolLit", 1)
False == Lit("BoolLit", 0)

\* A list pattern becomes nested :: patterns, and several clauses one clause
\* that matches its parameters; `$` keeps those apart from source names.
ArgName(i) == "$arg" \o <<"0", "1", "2", "3", "4", "5", "6", "7", "8", "9">>[i]
OneOrTuple(k, es) == IF Len(es) = 1 THEN es[1] ELSE Of(k, es)
MergeClauses(clauses) ==
  LET names == [i \in 1..(Len(clauses[1].c) - 1) |-> ArgName(i)]
      arm(cl) == Of("Arm", <<OneOrTuple("PTuple", Front(cl.c)), Last(cl.c)>>)
      match == Of("Case", <<OneOrTuple("Tuple", Each(names, LAMBDA x : Named("Var", x)))>>
                            \o Each(clauses, arm))
  IN <<Of("Clause", Append(Each(names, LAMBDA x : Named("PVar", x)), match))>>

\* desugar_expr, desugar_pat, desugar_decl and desugar_fun_binding.  Types keep
\* their parentheses.
RECURSIVE Desugared(_)
Desugared(e) ==
  LET c == Each(e.c, Desugared)
  IN CASE e.k \in {"Paren", "PParen"} -> c[1]
       [] e.k \in {"TNamed", "TVar", "TApp", "TArrow", "TTuple", "TParen"} -> e
       [] e.k = "BinOp" /\ e.v = "Andalso" -> Of("If", <<c[1], c[2], False>>)
       [] e.k = "BinOp" /\ e.v = "Orelse" -> Of("If", <<c[1], True, c[2]>>)
       [] e.k = "BinOp" /\ e.v = "Pipe" -> Of("App", <<c[2], c[1]>>)
       [] e.k = "Not" -> Of("If", <<c[1], False, True>>)
       [] e.k = "PList" /\ c # <<>> ->
            FoldRight(LAMBDA p, rest : Of("PCons", <<p, rest>>), c, Leaf("PList"))
       [] e.k = "Binding" /\ Len(c) > 1 -> [e EXCEPT !.c = MergeClauses(c)]
       [] OTHER -> [e EXCEPT !.c = c]

-----------------------------------------------------------------------------
(* Structures and their signatures                                          *)

RECURSIVE RemapType(_, _, _, _)
RemapType(t, mod, hidden, specs) ==
  [t EXCEPT !.v = IF t.k \in {"TNamed", "TApp"} /\ @ \in specs THEN Mangle(mod, @, hidden) ELSE @,
            !.c = Each(@, LAMBDA x : RemapType(x, mod, hidden, specs))]

\* One public name per type of the signature: sealed, or an alias of the
\* hidden one.
TypeExport(spec, mod, opaque) ==
  LET hidden == Mangle(mod, spec.v, TRUE)
      args == Each(spec.c, LAMBDA p : Named("TVar", p.v))
      ty == IF args = <<>> THEN Named("TNamed", hidden) ELSE NamedOf("TApp", hidden, args)
  IN Node(IF opaque THEN "AbstractType" ELSE "TypeAlias", Mangle(mod, spec.v, FALSE),
          Len(spec.c), Append(spec.c, IF opaque THEN Named("TNamed", hidden) ELSE ty))

\* A value is checked against its specification under the hidden types and
\* exported under the public ones.
ValExport(spec, mod, sc, types) ==
  LET Ty(hidden) == RemapType(spec.c[1], mod, hidden, types)
      found == spec.v \in sc.values
      public == Mangle(mod, spec.v, FALSE)
      name == IF found THEN InScope(sc, "values", spec.v) ELSE public
      check == Of("Val", <<Leaf("PWildcard"), Of("Ann", <<Named("Var", name), Ty(TRUE)>>)>>)
      export == NamedOf("ExportVal", public, <<Named("Var", name), Ty(FALSE)>>)
  IN IF found THEN <<check, export>> ELSE <<check>>

SignatureAssertions(sig, mod, sc, opaque) ==
  LET IsType(s) == s.k = "TypeSpec"
      specs == sig.c
      first(i) == \A j \in 1..(i - 1) : ~(IsType(specs[j]) /\ specs[j].v = specs[i].v)
      types == {specs[i].v : i \in {j \in DOMAIN specs : IsType(specs[j])}}
      seals == [i \in DOMAIN specs |-> IF IsType(specs[i]) /\ first(i)
                                       THEN <<TypeExport(specs[i], mod, opaque)>> ELSE <<>>]
      vals == [i \in DOMAIN specs |-> IF IsType(specs[i]) THEN <<>>
                                      ELSE ValExport(specs[i], mod, sc, types)]
  IN FlattenSeq(seals) \o FlattenSeq(vals)

\* A signature that is not declared in the program does not seal (signatures:
\* the last one of each name).
DesugarStructure(d, signatures) ==
  LET sealed == d.c # <<>> /\ d.c[1].k = "Seal" /\ d.c[1].v \in DOMAIN signatures
      members == SelectSeq(d.c, LAMBDA x : x.k # "Seal")
      sc == ModuleScope(members, d.v, sealed)
      out == Each(members, LAMBDA x : Desugared(RenameDecl(x, sc, {}, TRUE)))
  IN out \o (IF sealed THEN SignatureAssertions(signatures[d.c[1].v], d.v, sc, d.n = 1) ELSE <<>>)

Signatures(decls) ==
  LET at == {i \in DOMAIN decls : decls[i].k = "Signature"}
  IN [name \in {decls[i].v : i \in at} |-> decls[MaxOf({i \in at : decls[i].v = name})]]

DesugarTop(d, signatures) ==
  CASE d.k = "Signature" -> <<>>
    [] d.k = "Structure" -> <<Of("Local", DesugarStructure(d, signatures))>>
    [] OTHER -> <<Desugared(d)>>
DesugarProgram(decls) == FlattenSeq(Each(decls, LAMBDA d : DesugarTop(d, Signatures(decls))))

-----------------------------------------------------------------------------
(* Constant folding.  Integers are checked, words wrap around; floats are   *)
(* left to the machine.                                                     *)

\* try_fold_binop: the folded node, or the operation as it is.
FoldBinop(e, l, r) ==
  LET op == e.v
      keep == [e EXCEPT !.c = <<l, r>>]
      ints == l.k = "IntLit" /\ r.k = "IntLit"
      words == l.k = "WordLit" /\ r.k = "WordLit"
      byZero == op \in {"Div", "Mod"} /\ r.n = 0
  IN CASE (ints \/ words) /\ op \in ArithOps ->
            CASE byZero -> keep
              [] ~byZero /\ words -> Lit("WordLit", Wrapped(Arith(op, l.n, r.n)))
              [] OTHER -> IF Checked(op, l.n, r.n)
                          THEN Lit("IntLit", Arith(op, l.n, r.n)) ELSE keep
       [] (ints \/ words) /\ op \in CompareOps ->
            Lit("BoolLit", IF Compares(op, l.n, r.n) THEN 1 ELSE 0)
       [] l.k = "StringLit" /\ r.k = "StringLit" /\ op = "ConcatStr" ->
            Named("StringLit", l.v \o r.v)
       [] OTHER -> keep

\* fold_expr and fold_decl
RECURSIVE Folded(_)
Folded(e) ==
  LET c == Each(e.c, Folded)
  IN CASE e.k = "BinOp" -> FoldBinop(e, c[1], c[2])
       [] e.k = "UnaryNeg" /\ c[1].k = "IntLit" /\ IntFits(-c[1].n) -> Lit("IntLit", -c[1].n)
       [] OTHER -> [e EXCEPT !.c = c]
FoldProgram(decls) == Each(decls, Folded)

=============================================================================
