------------------------------- MODULE Meaning -------------------------------
(***************************************************************************)
(* What a program means: an evaluator of syntax trees as they are parsed,   *)
(* with environments instead of slots, captures and globals.  The outcome   *)
(* of an expression is a value, a failure or an effect that unwinds to the  *)
(* handler at level n.  A handler clause whose every path ends in resume    *)
(* gives perform its result; any other clause replaces the handle.          *)
(***************************************************************************)
EXTENDS Syntax, Bytecode, Numbers, TLC

Ok(v) == [t |-> "ok", v |-> v, n |-> 0, why |-> ""]
Stop(why) == [t |-> "fail", v |-> UnitV, n |-> 0, why |-> why]
Unwind(n, effect, payload) == [t |-> "unwind", v |-> payload, n |-> n, why |-> effect]

\* A function: clauses of patterns and a body, the group it is defined with,
\* and the arguments it has so far.
Function(clauses, env, group) ==
  [k |-> "Function", clauses |-> clauses, env |-> env, group |-> group, args |-> <<>>]
NoNames == [x \in {} |-> 0]
Members(group, env) ==
  [x \in {group[i].v : i \in DOMAIN group} |->
     Function((CHOOSE b \in {group[i] : i \in DOMAIN group} : b.v = x).c, env, group)]

ListV(vs) == FoldRight(LAMBDA x, acc : DataV(1, <<x, acc>>), vs, DataV(0, <<>>))

RECURSIVE Matches(_, _, _), Bound(_, _)
Matches(p, v, env) ==
  CASE p.k \in {"PWildcard", "PVar", "PUnit"} -> TRUE
    [] p.k = "PBoolLit" -> v.n = p.n
    [] p.k \in {"PIntLit", "PWordLit"} -> v.n = p.n
    [] p.k \in {"PStringLit", "PCharLit"} -> v.v = p.v
    [] p.k = "PCon" -> v.n = env[p.v].n /\ (p.c = <<>> \/ Matches(p.c[1], v.c[1], env))
    [] p.k = "PTuple" -> \A i \in DOMAIN p.c : Matches(p.c[i], v.c[i], env)
    [] p.k = "PCons" -> v.n = 1 /\ \A i \in {1, 2} : Matches(p.c[i], v.c[i], env)
    [] p.k = "PList" -> IF p.c = <<>> THEN v.n = 0
                        ELSE v.n = 1 /\ Matches(p.c[1], v.c[1], env)
                               /\ Matches([p EXCEPT !.c = Tail(@)], v.c[2], env)
    [] OTHER -> Matches(p.c[1], v, env)
Bound(p, v) ==
  CASE p.k = "PVar" -> p.v :> v
    [] p.k = "PCon" /\ p.c # <<>> -> Bound(p.c[1], v.c[1])
    [] p.k = "PTuple" \/ p.k = "PCons" ->
         FoldLeft(LAMBDA acc, i : Bound(p.c[i], v.c[i]) @@ acc, NoNames, [i \in DOMAIN p.c |-> i])
    [] p.k = "PList" /\ p.c # <<>> -> Bound(p.c[1], v.c[1]) @@ Bound([p EXCEPT !.c = Tail(@)], v.c[2])
    [] p.k = "PAs" -> (p.v :> v) @@ Bound(p.c[1], v)
    [] p.k \in {"PParen", "PAnn"} -> Bound(p.c[1], v)
    [] OTHER -> NoNames
BoundAll(ps, vs) == Bound(Of("PTuple", ps), TupleV(vs))

RECURSIVE Resumes(_)
Resumes(e) ==
  CASE e.k = "Resume" -> TRUE
    [] e.k \in {"Paren", "Ann"} -> Resumes(e.c[1])
    [] e.k = "Let" -> Resumes(Last(e.c))
    [] e.k = "If" -> Resumes(e.c[2]) /\ Resumes(e.c[3])
    [] e.k = "Case" -> \A i \in 2..Len(e.c) : Resumes(e.c[i].c[2])
    [] OTHER -> FALSE

Operation(op, a, b) ==
  CASE op = "ConcatStr" -> Ok(StrV(a.v \o b.v))
    [] op \in {"Eq", "Ne"} -> Ok(Bool((a = b) = (op = "Eq")))
    [] op \in CompareOps \ {"Eq", "Ne"} -> Ok(Bool(Compares(op, a.n, b.n)))
    [] op \in {"Div", "Mod"} /\ b.n = 0 -> Stop("zero")
    [] OTHER -> IF a.k = "Word" THEN Ok(WordV(Wrapped(Arith(op, a.n, b.n))))
                ELSE IF Checked(op, a.n, b.n) THEN Ok(IntV(Arith(op, a.n, b.n))) ELSE Stop("range")

RECURSIVE Eval(_, _, _), All(_, _, _, _), Apply(_, _, _), Chosen(_, _, _, _, _), Declare(_, _, _),
          DeclareAll(_, _, _), Raise(_, _, _, _)

\* The values of es after the values vs, or the first outcome that is none.
All(es, vs, env, hs) ==
  LET r == Eval(es[Len(vs) + 1], env, hs)
  IN IF Len(vs) = Len(es) THEN [t |-> "ok", v |-> vs]
     ELSE IF r.t # "ok" THEN r ELSE All(es, Append(vs, r.v), env, hs)

\* The first of the clauses from i on that matches.
Chosen(clauses, i, vs, env, hs) ==
  IF i > Len(clauses) THEN Stop("match")
  ELSE IF \A j \in DOMAIN vs : Matches(clauses[i].c[j], vs[j], env)
  THEN Eval(Last(clauses[i].c), BoundAll(Front(clauses[i].c), vs) @@ env, hs)
  ELSE Chosen(clauses, i + 1, vs, env, hs)

Apply(f, x, hs) ==
  CASE f.k = "Constructor" -> Ok(DataV(f.n, <<x>>))
    [] f.k = "Builtin" -> Ok(IntV(Len(x.v)))
    [] OTHER -> LET args == Append(f.args, x)
                IN IF Len(args) + 1 < Len(f.clauses[1].c) THEN Ok([f EXCEPT !.args = args])
                   ELSE Chosen(f.clauses, 1, args, Members(f.group, f.env) @@ f.env, hs)

Raise(effect, payload, h, hs) ==
  LET clauses == hs[h].clauses
      at == {i \in DOMAIN clauses : clauses[i].v = effect}
      clause == clauses[CHOOSE i \in at : TRUE]
  IN IF h = 0 THEN Stop("unhandled")
     ELSE IF at = {} THEN Raise(effect, payload, h - 1, hs)
     ELSE IF Resumes(clause.c[3])
     THEN Eval(clause.c[3], (clause.c[1].v :> payload) @@ hs[h].env, SubSeq(hs, 1, h - 1))
     ELSE Unwind(h, effect, payload)

Handled(e, env, hs) ==
  LET clauses == SubSeq(e.c, 3, Len(e.c))
      r == Eval(e.c[1], env, Append(hs, [clauses |-> clauses, env |-> env]))
      clause == clauses[CHOOSE i \in DOMAIN clauses : clauses[i].v = r.why]
  IN IF r.t = "ok" THEN Eval(e.c[2], (e.v :> r.v) @@ env, hs)
     ELSE IF r.t = "unwind" /\ r.n = Len(hs) + 1
     THEN Eval(clause.c[3], (clause.c[1].v :> r.v) @@ env, hs)
     ELSE r

\* Operators of values that are evaluated from left to right.
Strict == {"Tuple", "List", "Cons", "BinOp", "UnaryNeg", "Not", "App"}
Combine(e, vs, hs) ==
  CASE e.k = "Tuple" -> Ok(TupleV(vs))
    [] e.k = "List" -> Ok(ListV(vs))
    [] e.k = "Cons" -> Ok(DataV(1, vs))
    [] e.k = "BinOp" -> IF e.v = "Pipe" THEN Apply(vs[2], vs[1], hs) ELSE Operation(e.v, vs[1], vs[2])
    [] e.k = "UnaryNeg" -> IF IntFits(-vs[1].n) THEN Ok(IntV(-vs[1].n)) ELSE Stop("range")
    [] e.k = "Not" -> Ok(Bool(vs[1].n = 0))
    [] OTHER -> Apply(vs[1], vs[2], hs)

Eval(e, env, hs) ==
  CASE e.k = "IntLit" -> Ok(IntV(e.n))
    [] e.k = "WordLit" -> Ok(WordV(e.n))
    [] e.k = "StringLit" -> Ok(StrV(e.v))
    [] e.k = "CharLit" -> Ok(Value("Char", 0, e.v, <<>>))
    [] e.k = "BoolLit" -> Ok(Bool(e.n = 1))
    [] e.k = "Unit" -> Ok(UnitV)
    [] e.k \in {"Var", "Constructor"} -> IF e.v \in DOMAIN env THEN Ok(env[e.v]) ELSE Stop("unbound")
    [] e.k = "BinOp" /\ e.v \in {"Andalso", "Orelse"} ->
         LET r == Eval(e.c[1], env, hs)
         IN IF r.t # "ok" \/ (r.v.n = 1) = (e.v = "Orelse") THEN r ELSE Eval(e.c[2], env, hs)
    [] e.k \in Strict /\ ~(e.k = "BinOp" /\ e.v \in {"Andalso", "Orelse"}) ->
         LET r == All(e.c, <<>>, env, hs) IN IF r.t = "ok" THEN Combine(e, r.v, hs) ELSE r
    [] e.k = "Fn" -> Ok(Function(<<Of("Clause", e.c)>>, env, <<>>))
    [] e.k = "If" -> LET r == Eval(e.c[1], env, hs)
                     IN IF r.t # "ok" THEN r ELSE Eval(e.c[IF r.v.n = 1 THEN 2 ELSE 3], env, hs)
    [] e.k = "Let" -> LET r == DeclareAll(Front(e.c), Ok(env), hs)
                      IN IF r.t # "ok" THEN r ELSE Eval(Last(e.c), r.v, hs)
    [] e.k = "Case" -> LET r == Eval(e.c[1], env, hs)
                       IN IF r.t # "ok" THEN r ELSE Chosen(Tail(e.c), 1, <<r.v>>, env, hs)
    [] e.k \in {"Ann", "Paren"} -> Eval(e.c[1], env, hs)
    [] e.k = "Perform" -> LET r == Eval(e.c[1], env, hs)
                          IN IF r.t # "ok" THEN r ELSE Raise(e.v, r.v, Len(hs), hs)
    [] e.k = "Handle" -> Handled(e, env, hs)
    [] OTHER -> Eval(e.c[2], env, hs)

\* The names f has and g lacks or has with another value.
Gained(f, g) ==
  [x \in {y \in DOMAIN f : y \notin DOMAIN g \/ (y \in DOMAIN g /\ f[y] # g[y])} |-> f[x]]
Constructed(d) ==
  LET cons == SelectSeq(d.c, LAMBDA x : x.k = "Con")
  IN FoldLeft(LAMBDA acc, i : (cons[i].v :> IF cons[i].c = <<>> THEN DataV(i - 1, <<>>)
                                            ELSE Value("Constructor", i - 1, "", <<>>)) @@ acc,
              NoNames, [i \in DOMAIN cons |-> i])

\* A declaration's outcome: the environment after it.
Declare(d, env, hs) ==
  CASE d.k = "Val" -> LET r == Eval(d.c[2], env, hs)
                      IN IF r.t = "ok" THEN Ok(Bound(d.c[1], r.v) @@ env) ELSE r
    [] d.k = "ValRec" ->
         Ok(Members(<<NamedOf("Binding", d.v, <<Of("Clause", d.c[1].c)>>)>>, env) @@ env)
    [] d.k = "Fun" -> Ok(Members(d.c, env) @@ env)
    [] d.k = "Datatype" -> Ok(Constructed(d) @@ env)
    [] d.k = "Local" ->
         LET private == DeclareAll(SubSeq(d.c, 1, d.n), Ok(env), hs)
             r == DeclareAll(SubSeq(d.c, d.n + 1, Len(d.c)), private, hs)
         IN IF r.t = "ok" THEN Ok(Gained(r.v, private.v) @@ env) ELSE r
    [] d.k = "Structure" ->
         LET r == DeclareAll(SelectSeq(d.c, LAMBDA x : x.k # "Seal"), Ok(env), hs)
             inner == Gained(r.v, env)
         IN IF r.t # "ok" THEN r
            ELSE Ok(FoldSet(LAMBDA x, acc : (d.v \o "." \o x :> inner[x]) @@ acc, env, DOMAIN inner))
    [] OTHER -> Ok(env)
DeclareAll(ds, r, hs) ==
  IF ds = <<>> \/ r.t # "ok" THEN r ELSE DeclareAll(Tail(ds), Declare(Head(ds), r.v, hs), hs)

\* What can be seen of a value: functions are opaque.
RECURSIVE Seen(_)
Seen(v) ==
  IF v.k \in {"Function", "Closure", "Builtin", "Constructor"} THEN Value("fn", 0, "", <<>>)
  ELSE [v EXCEPT !.c = [i \in DOMAIN v.c |-> Seen(v.c[i])]]

=============================================================================
