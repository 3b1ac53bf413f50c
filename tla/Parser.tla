------------------------------- MODULE Parser -------------------------------
(***************************************************************************)
(* The recursive-descent parser (hiko-syntax/src/parser.rs).  A parse step  *)
(* maps the parser's state to a node and the state after it.  An error is   *)
(* kept in the state, which then stands at the end of the input, so that    *)
(* every loop ends and every later expectation fails too.                   *)
(***************************************************************************)
EXTENDS Syntax

\* max is MAX_NESTING_DEPTH; ts ends with Eof.  open counts the recursive calls
\* of the parser that are on its stack, opened the most there have been.
New(ts, max) ==
  [ts |-> ts, pos |-> 1, depth |-> 0, peak |-> 0, closed |-> FALSE,
   err |-> FALSE, max |-> max, open |-> 0, opened |-> 0]

R(e, s) == [e |-> e, s |-> s, err |-> s.err]
Fail(s) == [s EXCEPT !.err = TRUE, !.pos = Len(s.ts)]
None(s) == R(Leaf("Error"), Fail(s))

Peek(s) == s.ts[s.pos].t
PeekNext(s) == IF s.pos + 1 <= Len(s.ts) THEN s.ts[s.pos + 1].t ELSE "Eof"
Here(s) == s.ts[s.pos]
Advance(s) == [s EXCEPT !.pos = IF @ < Len(s.ts) THEN @ + 1 ELSE @]
At(s, t) == Peek(s) = t
Eat(s, t) == IF At(s, t) THEN Advance(s) ELSE s
Expect(s, t) == IF At(s, t) THEN Advance(s) ELSE Fail(s)
\* The expect_* functions: a name of one of the given kinds.
ExpectName(s, kinds) ==
  IF Peek(s) \in kinds THEN [v |-> Here(s).v, s |-> Advance(s)]
                       ELSE [v |-> "", s |-> Fail(s)]
ExpectIdentOrWildcard(s) ==
  IF At(s, "Underscore") THEN [v |-> "_", s |-> Advance(s)] ELSE ExpectName(s, {"Ident"})

Larger(a, b) == IF a > b THEN a ELSE b

-----------------------------------------------------------------------------
(* Nesting: the parser's own recursion, and operator chains                 *)

\* A recursive call and its return.
Calls(s) == [s EXCEPT !.open = @ + 1, !.opened = Larger(@, s.open + 1)]
Returns(s, t) == [t EXCEPT !.depth = s.depth, !.open = s.open]

\* Entering `nested`; Returns leaves it.
Enter(s) ==
  IF s.depth >= s.max THEN Fail(s)
  ELSE [Calls(s) EXCEPT !.depth = @ + 1, !.peak = Larger(@, s.depth + 1)]

\* begin_chain, end_operand, chain_link and end_chain: a chain is opened in
\* the state it is to restore.
BeginChain(s, left) ==
  [left |-> left, links |-> 0, height |-> 0, outer |-> s.peak,
   s |-> [s EXCEPT !.peak = s.depth]]

EndOperand(ch, s) ==
  LET below == s.peak - s.depth
      height == IF ch.left THEN below - ch.links ELSE below + ch.links
  IN [ch EXCEPT !.height = Larger(@, height), !.s = [s EXCEPT !.peak = s.depth]]

ChainLink(ch) ==
  [ch EXCEPT !.links = @ + 1, !.s = IF ch.links + 1 >= ch.s.max THEN Fail(@) ELSE @]

\* Faulty: a left chain forgets the levels its links put above the operands.
EndChainUnlinked(ch) ==
  LET peak == ch.s.depth + ch.height
  IN IF peak > ch.s.max THEN Fail(ch.s)
     ELSE [ch.s EXCEPT !.peak = Larger(ch.outer, peak)]

EndChain(ch) ==
  LET height == IF ch.left THEN ch.height + ch.links ELSE ch.height
      peak == ch.s.depth + height
  IN IF peak > ch.s.max THEN Fail(ch.s)
     ELSE [ch.s EXCEPT !.peak = Larger(ch.outer, peak)]

-----------------------------------------------------------------------------
(* The grammar's rules call each other through Rule, defined at the end     *)

RECURSIVE Rule(_, _)
QualifiedName(s) == Rule("QualifiedName", s)
TyVarParams(s) == Rule("TyVarParams", s)
ParseType(s) == Rule("Type", s)
TupleType(s) == Rule("TupleType", s)
AppType(s) == Rule("AppType", s)
AtomType(s) == Rule("AtomType", s)
ParsePat(s) == Rule("Pat", s)
AppPat(s) == Rule("AppPat", s)
AtomPat(s) == Rule("AtomPat", s)
ParseExpr(s) == Rule("Expr", s)
ParseLevel(n, s) == Rule("Level", <<n, s>>)
Unary(s) == Rule("Unary", s)
AtomExpr(s) == Rule("AtomExpr", s)
ParseDecl(s) == Rule("Decl", s)
DeclsUntil(stop, l) == Rule("Decls", <<stop, l>>)
Bindings(l) == Rule("Bindings", l)
Clauses(name, l) == Rule("Clauses", <<name, l>>)
Climb(i, n, a, peak, r) == Rule("Climb", <<i, n, a, peak, r>>)
ConDecls(l) == Rule("Constructors", l)
Arms(l) == Rule("Arms", l)
Handlers(l) == Rule("Handlers", l)
ExprList(l) == Rule("ExprList", l)
Specs(l) == Rule("Specs", l)
TopDecl(l) == Rule("TopDecl", l)

-----------------------------------------------------------------------------
(* Precedence levels, tightest first                                        *)

LeftOps ==
  [PipeGt |-> "Pipe", Plus |-> "Add", Minus |-> "Sub", Caret |-> "ConcatStr",
   Star |-> "Mul", Slash |-> "Div", Mod |-> "Mod"]
CompOps == [Eq |-> "Eq", Ne |-> "Ne", Lt |-> "Lt", Gt |-> "Gt", Le |-> "Le", Ge |-> "Ge"]
Levels ==
  <<{"Star", "Slash", "Mod"}, {"Plus", "Minus", "Caret"}, {"ColonColon"}, DOMAIN CompOps,
    {"Andalso"}, {"Orelse"}, {"PipeGt"}>>
Pipe == 7
\* The level of an operator token, 0 for any other.
LevelOf ==
  [t \in UNION {Levels[i] : i \in DOMAIN Levels} |->
     CHOOSE i \in DOMAIN Levels : t \in Levels[i]]
OpLevel(s) == IF Peek(s) \in DOMAIN LevelOf THEN LevelOf[Peek(s)] ELSE 0
RightNode(op, l, r) ==
  IF op = "ColonColon" THEN Of("Cons", <<l, r>>) ELSE NamedOf("BinOp", op, <<l, r>>)

LitToks == {"IntLit", "FloatLit", "WordLit", "StringLit", "CharLit"}
AppArgStart ==
  LitToks \cup {"True", "False", "Ident", "UpperIdent", "Tilde", "Not", "LParen", "LBracket"}
AtomPatStart == (AppArgStart \ {"Not"}) \cup {"Underscore"}

\* can_start_qualified_path and parse_qualified_symbol: a name, or Name.Name.name
\* when it starts with a capital; n = 1 when its last part is capitalised.
RECURSIVE QualifiedSymbol(_, _, _)
QualifiedSymbol(v, n, s) ==
  IF ~At(s, "Dot") THEN [v |-> v, n |-> n, s |-> s]
  ELSE IF PeekNext(s) \in {"Ident", "UpperIdent"}
       THEN LET p == Advance(s) IN
            QualifiedSymbol(v \o "." \o Here(p).v, IF At(p, "UpperIdent") THEN 1 ELSE 0,
                            Advance(p))
       ELSE [v |-> v, n |-> n, s |-> Fail(s)]
QualifiedNameRule(s) ==
  IF At(s, "UpperIdent") THEN QualifiedSymbol(Here(s).v, 1, Advance(s))
                         ELSE [v |-> Here(s).v, n |-> 0, s |-> Advance(s)]

-----------------------------------------------------------------------------
(* Types                                                                    *)

\* Loops over elements parsed by an operator of the given name; what they
\* collect is a sequence of nodes.
Seq1(r) == [es |-> <<r.e>>, s |-> r.s]
Also(l, r) == [es |-> Append(l.es, r.e), s |-> r.s]
\* es[1] op (es[2] op (... es[n])).
Nest(es, op(_, _)) ==
  FoldRight(LAMBDA e, acc : op(e, acc), SubSeq(es, 1, Len(es) - 1), es[Len(es)])

RECURSIVE ArrowRest(_, _), TupleRest(_), AppTypeRest(_, _), TypeList(_)

TypeRule(s) ==
  LET a == Enter(s)
      ch == BeginChain(a, FALSE)
      first == TupleType(ch.s)
      all == ArrowRest(<<first.e>>, EndOperand(ch, first.s))
  IN IF first.err THEN first
     ELSE R(Nest(all.es, LAMBDA l, r : Of("TArrow", <<l, r>>)), Returns(s, EndChain(all.ch)))

ArrowRest(es, ch) ==
  IF ~At(ch.s, "ThinArrow") THEN [es |-> es, ch |-> ch]
  ELSE LET l == ChainLink(ch)
           r == TupleType(Advance(l.s))
       IN IF r.err THEN [es |-> es, ch |-> [ch EXCEPT !.s = r.s]] ELSE ArrowRest(Append(es, r.e), EndOperand(l, r.s))

TupleTypeRule(s) ==
  LET first == AppType(s)
      all == TupleRest(Seq1(first))
  IN IF first.err THEN first
     ELSE R(IF Len(all.es) = 1 THEN all.es[1] ELSE Of("TTuple", all.es), all.s)
TupleRest(l) ==
  IF At(l.s, "Star") THEN TupleRest(Also(l, AppType(Advance(l.s)))) ELSE l

\* A bare argument list (t1, t2), a TTuple here, must be applied to a name.
AppTypeRule(s) ==
  LET ch == BeginChain(s, TRUE)
      first == AtomType(ch.s)
      all == AppTypeRest(first.e, EndOperand(ch, first.s))
      end == EndChain(all.ch)
  IN IF first.err THEN first ELSE IF all.e.k = "TTuple" THEN None(end) ELSE R(all.e, end)

AppTypeRest(e, ch) ==
  IF Peek(ch.s) \notin {"Ident", "UpperIdent"} THEN [e |-> e, ch |-> ch]
  ELSE LET l == ChainLink(ch)
           name == QualifiedName(l.s)
           args == IF e.k = "TTuple" THEN e.c ELSE <<e>>
       IN AppTypeRest(NamedOf("TApp", name.v, args), [l EXCEPT !.s = name.s])

AtomTypeRule(s) ==
  CASE At(s, "TyVar") -> R(Named("TVar", Here(s).v), Advance(s))
    [] Peek(s) \in {"Ident", "UpperIdent"} ->
         LET q == QualifiedName(s) IN R(Named("TNamed", q.v), q.s)
    [] At(s, "LParen") ->
         LET first == ParseType(Advance(s))
             all == TypeList(Seq1(first))
         IN IF first.err THEN first
            ELSE R(IF Len(all.es) = 1 THEN Of("TParen", all.es) ELSE Of("TTuple", all.es),
                   Expect(all.s, "RParen"))
    [] OTHER -> None(s)
TypeList(l) ==
  IF At(l.s, "Comma") THEN TypeList(Also(l, ParseType(Advance(l.s)))) ELSE l

-----------------------------------------------------------------------------
(* Patterns                                                                 *)

RECURSIVE AsNames(_, _), ConsPatRest(_, _), PatList(_), PatListChain(_, _)

PatRule(s) ==
  LET a == Enter(s)
      names == AsNames(<<>>, BeginChain(a, FALSE))
      inner == BeginChain(names.ch.s, FALSE)
      first == AppPat(inner.s)
      conses == ConsPatRest(<<first.e>>, EndOperand(inner, first.s))
      end == EndChain(EndOperand(names.ch, EndChain(conses.ch)))
      p == FoldRight(LAMBDA v, acc : NamedOf("PAs", v, <<acc>>), names.vs,
                     Nest(conses.es, LAMBDA h, t : Of("PCons", <<h, t>>)))
      ty == ParseType(Advance(end))
  IN IF first.err THEN first
     ELSE IF At(end, "Colon") THEN R(Of("PAnn", <<p, ty.e>>), Returns(s, ty.s))
     ELSE R(p, Returns(s, end))

AsNames(vs, ch) ==
  IF ~(At(ch.s, "Ident") /\ PeekNext(ch.s) = "As") THEN [vs |-> vs, ch |-> ch]
  ELSE LET l == ChainLink(ch)
       IN AsNames(Append(vs, Here(ch.s).v), [l EXCEPT !.s = Advance(Advance(@))])

ConsPatRest(es, ch) ==
  IF ~At(ch.s, "ColonColon") THEN [es |-> es, ch |-> ch]
  ELSE LET l == ChainLink(ch)
           r == AppPat(Advance(l.s))
       IN IF r.err THEN [es |-> es, ch |-> [ch EXCEPT !.s = r.s]]
          ELSE ConsPatRest(Append(es, r.e), EndOperand(l, r.s))

\* A constructor name, which must end in a capitalised part.
ConName(s) ==
  LET q == QualifiedName(s) IN [q EXCEPT !.s = IF q.n = 1 THEN @ ELSE Fail(@)]

AppPatRule(s) ==
  IF ~At(s, "UpperIdent") THEN AtomPat(s)
  ELSE LET q == ConName(s)
           arg == AtomPat(q.s)
       IN IF Peek(q.s) \notin AtomPatStart THEN R(Named("PCon", q.v), q.s)
          ELSE IF arg.err THEN arg ELSE R(NamedOf("PCon", q.v, <<arg.e>>), arg.s)
\* A literal in a pattern; ~ stands only before a number.
AtomPatRule(s) ==
  CASE At(s, "Underscore") -> R(Leaf("PWildcard"), Advance(s))
    [] At(s, "Ident") -> R(Named("PVar", Here(s).v), Advance(s))
    [] At(s, "UpperIdent") -> LET q == ConName(s) IN R(Named("PCon", q.v), q.s)
    [] Peek(s) \in LitToks ->
         R(Node("P" \o Peek(s), Here(s).v, Here(s).n, <<>>), Advance(s))
    [] Peek(s) \in {"True", "False"} ->
         R(Lit("PBoolLit", IF At(s, "True") THEN 1 ELSE 0), Advance(s))
    [] At(s, "Tilde") ->
         IF PeekNext(s) \in {"IntLit", "FloatLit"}
         THEN R(Lit("P" \o PeekNext(s), -Here(Advance(s)).n), Advance(Advance(s)))
         ELSE None(s)
    [] At(s, "LParen") ->
         IF PeekNext(s) = "RParen" THEN R(Leaf("PUnit"), Advance(Advance(s)))
         ELSE LET first == ParsePat(Advance(s))
                  all == PatList(Seq1(first))
              IN IF first.err THEN first
                 ELSE R(IF Len(all.es) = 1 THEN Of("PParen", all.es) ELSE Of("PTuple", all.es),
                        Expect(all.s, "RParen"))
    [] At(s, "LBracket") ->
         IF PeekNext(s) = "RBracket" THEN R(Leaf("PList"), Advance(Advance(s)))
         ELSE LET ch == BeginChain(Advance(s), FALSE)
                  first == ParsePat(ch.s)
                  all == PatListChain(<<first.e>>, EndOperand(ch, first.s))
              IN IF first.err THEN first
                 ELSE R(Of("PList", all.es), Expect(EndChain(all.ch), "RBracket"))
    [] OTHER -> None(s)

PatList(l) ==
  IF At(l.s, "Comma") THEN PatList(Also(l, ParsePat(Advance(l.s)))) ELSE l
PatListChain(es, ch) ==
  IF ~At(ch.s, "Comma") THEN [es |-> es, ch |-> ch]
  ELSE LET l == ChainLink(ch)
           r == ParsePat(Advance(l.s))
       IN IF r.err THEN [es |-> es, ch |-> [ch EXCEPT !.s = r.s]]
          ELSE PatListChain(Append(es, r.e), EndOperand(l, r.s))

-----------------------------------------------------------------------------
(* Declarations whose parts are types and names                             *)

RECURSIVE TyVars(_), Exposed(_)

TyVars(l) ==
  IF ~At(l.s, "Comma") THEN l
  ELSE LET v == ExpectName(Advance(l.s), {"TyVar"})
       IN TyVars(Also(l, R(Named("Param", v.v), v.s)))
TyVarParamsRule(s) ==
  CASE At(s, "TyVar") -> [es |-> <<Named("Param", Here(s).v)>>, s |-> Advance(s)]
    [] At(s, "LParen") ->
         LET v == ExpectName(Advance(s), {"TyVar"})
             all == TyVars([es |-> <<Named("Param", v.v)>>, s |-> v.s])
         IN [all EXCEPT !.s = Expect(@, "RParen")]
    [] OTHER -> [es |-> <<>>, s |-> s]

Names == {"Ident", "UpperIdent"}

\* An optional `of` type.
Payload(s) ==
  LET ty == ParseType(Advance(s))
  IN IF At(s, "Of") THEN [es |-> <<ty.e>>, s |-> ty.s] ELSE [es |-> <<>>, s |-> s]

ConstructorsRule(l) ==
  LET name == ExpectName(l.s, {"UpperIdent"})
      ty == Payload(name.s)
      all == [es |-> Append(l.es, NamedOf("Con", name.v, ty.es)), s |-> ty.s]
  IN IF At(ty.s, "Bar") THEN ConDecls([all EXCEPT !.s = Advance(@)]) ELSE all

DatatypeDecl(s) ==
  LET tyvars == TyVarParams(Advance(s))
      name == ExpectName(tyvars.s, Names)
      cons == ConDecls([es |-> <<>>, s |-> Eat(Expect(name.s, "Eq"), "Bar")])
  IN R(Node("Datatype", name.v, Len(tyvars.es), tyvars.es \o cons.es), cons.s)

TypeAliasDecl(s) ==
  LET tyvars == TyVarParams(Advance(s))
      name == ExpectName(tyvars.s, Names)
      ty == ParseType(Expect(name.s, "Eq"))
  IN R(Node("TypeAlias", name.v, Len(tyvars.es), Append(tyvars.es, ty.e)), ty.s)

EffectDecl(s) ==
  LET name == ExpectName(Advance(s), {"UpperIdent"})
      ty == Payload(name.s)
  IN R(NamedOf("Effect", name.v, ty.es), ty.s)

\* The number of a string token is 1 when it begins with ./ or ../
UseDecl(s) ==
  LET path == Advance(s)
  IN IF At(path, "StringLit") /\ Here(path).n = 1
     THEN R(Named("Use", Here(path).v), Advance(path)) ELSE None(path)

Exposed(l) ==
  LET name == ExpectName(l.s, Names)
      all == [es |-> Append(l.es, Named("Param", name.v)), s |-> name.s]
  IN IF At(name.s, "Comma") THEN Exposed([all EXCEPT !.s = Advance(@)]) ELSE all

\* The number of an identifier token is 1 when it begins with __
ImportDecl(s) ==
  LET package == ExpectName(Advance(s), IF Here(Advance(s)).n = 1 THEN Names ELSE {"UpperIdent"})
      module == ExpectName(Expect(package.s, "Dot"), {"UpperIdent"})
      name == package.v \o "." \o module.v
      exposed == Exposed([es |-> <<>>, s |-> Advance(module.s)])
  IN CASE At(module.s, "Dot") -> None(module.s)
       [] At(module.s, "LParen") ->
            R(NamedOf("Import", name, exposed.es), Expect(exposed.s, "RParen"))
       [] OTHER -> R(Named("Import", name), module.s)

SpecsRule(l) ==
  LET s == Advance(l.s)
      tyvars == TyVarParams(s)
      type == ExpectName(tyvars.s, Names)
      val == ExpectName(s, {"Ident"})
      ty == ParseType(Expect(val.s, "Colon"))
  IN CASE At(l.s, "Type") -> Specs(Also(l, R(NamedOf("TypeSpec", type.v, tyvars.es), type.s)))
       [] At(l.s, "Val") -> Specs(Also(l, R(NamedOf("ValSpec", val.v, <<ty.e>>), ty.s)))
       [] Peek(l.s) \in {"End", "Eof"} -> l
       [] OTHER -> [l EXCEPT !.s = Fail(@)]

SignatureDecl(s) ==
  LET name == ExpectName(Advance(s), {"UpperIdent"})
      specs == Specs([es |-> <<>>, s |-> Expect(Expect(name.s, "Eq"), "Sig")])
  IN R(NamedOf("Signature", name.v, specs.es), Expect(specs.s, "End"))

-----------------------------------------------------------------------------
(* Expressions and the declarations that hold them                          *)

RECURSIVE LeftRest(_, _, _, _), RightRest(_, _, _), AppRest(_, _), Pats(_)

\* An operator's expression, from a up to the token before s.
Operator(k, v, a, c, s) ==
  R([NamedOf(k, v, c) EXCEPT !.p = <<a, IF s.pos = 1 THEN a ELSE s.ts[s.pos - 1].z>>], s)
Prefix(s) == IF At(s, "Not") THEN "Not" ELSE "UnaryNeg"

\* parse_left_chain, parse_right_chain or the one comparison, after its first
\* operand.
OperatorsRule(i, a, r) ==
  LET ch == EndOperand(BeginChain(r.s, i \in {1, 2, Pipe}), r.s)
      rhs == ParseLevel(i - 1, Advance(r.s))
  IN CASE i \in {1, 2, Pipe} -> LeftRest(i, a, r.e, ch)
       [] i = 4 -> IF rhs.err THEN rhs
                   ELSE Operator("BinOp", CompOps[Peek(r.s)], a, <<r.e, rhs.e>>, rhs.s)
       [] OTHER -> RightRest(i, <<r.e>>, ch)

LeftRest(i, a, lhs, ch) ==
  LET l == ChainLink(ch)
      rhs == ParseLevel(i - 1, Advance(l.s))
      both == Operator("BinOp", LeftOps[Peek(ch.s)], a, <<lhs, rhs.e>>, rhs.s)
  IN IF ch.s.closed \/ Peek(ch.s) \notin Levels[i] THEN R(lhs, EndChain(ch))
     ELSE IF rhs.err THEN rhs ELSE LeftRest(i, a, both.e, EndOperand(l, both.s))

RightRest(i, es, ch) ==
  LET op == CHOOSE t \in Levels[i] : TRUE
      l == ChainLink(ch)
      r == ParseLevel(i - 1, Advance(l.s))
  IN IF ch.s.closed \/ ~At(ch.s, op)
     THEN R(Nest(es, LAMBDA e, rest : RightNode(op, e, rest)), EndChain(ch))
     ELSE IF r.err THEN r ELSE RightRest(i, Append(es, r.e), EndOperand(l, r.s))

\* The expressions after those of l, up to the closing token.
ExprListRule(l) ==
  LET next == ParseExpr(Advance(l.s))
  IN IF ~At(l.s, "Comma") THEN l
     ELSE IF next.err THEN [l EXCEPT !.s = next.s] ELSE ExprList(Also(l, next))

\* parse_open_ended: nothing may follow as an operand.
Closed(s) == [s EXCEPT !.closed = TRUE]

IfExpr(s) ==
  LET cond == ParseExpr(Advance(s))
      then == ParseExpr(Expect(cond.s, "Then"))
      else == ParseExpr(Expect(then.s, "Else"))
  IN IF cond.err THEN cond ELSE IF then.err THEN then
     ELSE IF else.err THEN else ELSE R(Of("If", <<cond.e, then.e, else.e>>), Closed(else.s))

LetExpr(s) ==
  LET decls == DeclsUntil("In", [es |-> <<>>, s |-> Advance(s)])
      body == ParseExpr(Expect(decls.s, "In"))
  IN IF decls.s.err THEN None(decls.s) ELSE IF body.err THEN body
     ELSE R(Of("Let", Append(decls.es, body.e)), Expect(body.s, "End"))

ArmsRule(l) ==
  LET pat == ParsePat(l.s)
      body == ParseExpr(Expect(pat.s, "Arrow"))
      all == Also(l, R(Of("Arm", <<pat.e, body.e>>), body.s))
  IN IF pat.err THEN [l EXCEPT !.s = pat.s] ELSE IF body.err THEN [l EXCEPT !.s = body.s]
     ELSE IF At(all.s, "Bar") THEN Arms([all EXCEPT !.s = Advance(@)]) ELSE all

CaseExpr(s) ==
  LET scrutinee == ParseExpr(Advance(s))
      arms == Arms(Seq1(R(scrutinee.e, Eat(Expect(scrutinee.s, "Of"), "Bar"))))
  IN IF scrutinee.err THEN scrutinee ELSE IF arms.s.err THEN None(arms.s)
     ELSE R(Of("Case", arms.es), Closed(arms.s))

FnExpr(s) ==
  LET pat == ParsePat(Advance(s))
      body == ParseExpr(Expect(pat.s, "Arrow"))
  IN IF pat.err THEN pat ELSE IF body.err THEN body ELSE R(Of("Fn", <<pat.e, body.e>>), Closed(body.s))

HandlersRule(l) ==
  LET effect == ExpectName(Advance(l.s), {"UpperIdent"})
      payload == ExpectIdentOrWildcard(effect.s)
      cont == ExpectIdentOrWildcard(payload.s)
      body == ParseExpr(Expect(cont.s, "Arrow"))
  IN IF ~At(l.s, "Bar") THEN l
     ELSE IF body.err THEN [l EXCEPT !.s = body.s]
     ELSE Handlers(Also(l, R(NamedOf("Handler", effect.v,
            <<Named("Param", payload.v), Named("Param", cont.v), body.e>>), body.s)))

HandleExpr(s) ==
  LET body == ParseExpr(Advance(s))
      var == ExpectIdentOrWildcard(Expect(Expect(body.s, "With"), "Return"))
      ret == ParseExpr(Expect(var.s, "Arrow"))
      all == Handlers([es |-> <<body.e, ret.e>>, s |-> ret.s])
  IN IF body.err THEN body ELSE IF ret.err THEN ret ELSE IF all.s.err THEN None(all.s)
     ELSE R(NamedOf("Handle", var.v, all.es), Closed(all.s))

\* The operands of perform and resume are atoms: parse_atom_expr calls itself
\* here without going through `nested`.
PerformExpr(s) ==
  LET name == ExpectName(Advance(s), {"UpperIdent"})
      arg == AtomExpr(Calls(name.s))
  IN IF arg.err THEN arg ELSE R(NamedOf("Perform", name.v, <<arg.e>>), [arg.s EXCEPT !.open = s.open])

ResumeExpr(s) ==
  LET cont == AtomExpr(Calls(Advance(s)))
      arg == AtomExpr([cont.s EXCEPT !.open = s.open + 1])
  IN IF cont.err THEN cont ELSE IF arg.err THEN arg
     ELSE R(Of("Resume", <<cont.e, arg.e>>), [arg.s EXCEPT !.open = s.open])

\* A list of expressions between the token at s and the closing one.
Bracketed(s, close) ==
  LET first == ParseExpr(Advance(s))
      all == ExprList(Seq1(first))
  IN CASE PeekNext(s) = close -> R(Leaf(IF close = "RParen" THEN "Unit" ELSE "List"), Advance(Advance(s)))
       [] OTHER -> IF first.err THEN first ELSE IF all.s.err THEN None(all.s)
                   ELSE R(Of(CASE close = "RBracket" -> "List"
                               [] close = "RParen" -> IF Len(all.es) = 1 THEN "Paren" ELSE "Tuple", all.es),
                          Expect(all.s, close))

AtomExprRule(s) ==
  CASE Peek(s) \in LitToks -> R(Node(Peek(s), Here(s).v, Here(s).n, <<>>), Advance(s))
    [] Peek(s) \in {"True", "False"} ->
         R(Lit("BoolLit", IF At(s, "True") THEN 1 ELSE 0), Advance(s))
    [] Peek(s) \in Names ->
         LET q == QualifiedName(s)
         IN R(Named(IF q.n = 1 THEN "Constructor" ELSE "Var", q.v), q.s)
    [] At(s, "LParen") -> Bracketed(s, "RParen")
    [] At(s, "LBracket") -> Bracketed(s, "RBracket")
    [] At(s, "If") -> IfExpr(s)
    [] At(s, "Let") -> LetExpr(s)
    [] At(s, "Case") -> CaseExpr(s)
    [] At(s, "Fn") -> FnExpr(s)
    [] At(s, "Handle") -> HandleExpr(s)
    [] At(s, "Perform") -> PerformExpr(s)
    [] At(s, "Resume") -> ResumeExpr(s)
    [] OTHER -> None(s)

AppArg(s) ==
  LET arg == AtomExpr(Advance(s))
  IN IF Peek(s) \in {"Tilde", "Not"}
     THEN Operator(Prefix(s), "", Here(s).a, <<arg.e>>, arg.s)
     ELSE AtomExprRule(s)
AppTo(f, l, arg) ==
  IF arg.err THEN arg ELSE AppRest(Of("App", <<f, arg.e>>), EndOperand(l, arg.s))
AppRest(f, ch) ==
  LET l == ChainLink(ch)
  IN IF ch.s.closed \/ Peek(ch.s) \notin AppArgStart THEN R(f, EndChain(ch))
     ELSE AppTo(f, l, AppArg(l.s))
Applied(ch, f) == IF f.err THEN f ELSE AppRest(f.e, EndOperand(ch, f.s))
UnaryRule(s) ==
  LET operand == Unary(Enter(Advance(s)))
      ch == BeginChain(s, TRUE)
  IN IF Peek(s) \in {"Tilde", "Not"}
     THEN Operator(Prefix(s), "", Here(s).a, <<operand.e>>, Returns(s, operand.s))
     ELSE Applied(ch, AtomExprRule(ch.s))

\* The levels above i and up to n that follow the operand r, which starts at a;
\* peak is the one from before it.
Climbed(i, n, a, peak, r) == IF r.err THEN r ELSE Climb(i, n, a, peak, r)
ClimbRule(i, n, a, peak, r) ==
  IF r.s.closed \/ OpLevel(r.s) <= i \/ OpLevel(r.s) > n
  THEN R(r.e, [r.s EXCEPT !.peak = Larger(@, peak)])
  ELSE Climbed(OpLevel(r.s), n, a, peak, OperatorsRule(OpLevel(r.s), a, r))

\* Everything up to precedence level n.  The code descends through every level
\* and comes back up; a level whose operator does not follow has a chain
\* without links, which leaves the tree and the accounting as they are.
Operated(n, s, first) ==
  IF first.err THEN first ELSE ClimbRule(0, n, Here(s).a, s.peak, first)
LevelRule(n, s) == Operated(n, s, UnaryRule([s EXCEPT !.peak = s.depth]))

\* An operator that fails returns the failed part: the ? of the code.
Annotated(s, r) ==
  LET ty == ParseType(Advance(r.s))
      e == IF At(r.s, "Colon") THEN R(Of("Ann", <<r.e, ty.e>>), ty.s) ELSE r
  IN IF r.err THEN r ELSE R(e.e, [Returns(s, e.s) EXCEPT !.closed = FALSE])
ExprRule(s) == Annotated(s, LevelRule(Pipe, Enter(s)))

ValDecl(s) ==
  LET name == ExpectName(Advance(Advance(s)), {"Ident"})
      eq == Expect(name.s, "Eq")
      fun == ParseExpr(eq)
      pat == ParsePat(Advance(s))
      body == ParseExpr(Expect(pat.s, "Eq"))
  IN IF PeekNext(s) = "Rec"
     THEN IF ~At(eq, "Fn") THEN None(eq)
          ELSE IF fun.err THEN fun ELSE R(NamedOf("ValRec", name.v, <<fun.e>>), fun.s)
     ELSE IF pat.err THEN pat ELSE IF body.err THEN body ELSE R(Of("Val", <<pat.e, body.e>>), body.s)

Pats(l) == IF Peek(l.s) \in AtomPatStart THEN Pats(Also(l, AtomPat(l.s))) ELSE l

\* The clauses of a function: one name, one number of parameters.
ClausesRule(name, l) ==
  LET pats == Pats([es |-> <<>>, s |-> l.s])
      arity == Len(pats.es)
      fits == arity > 0 /\ (l.es = <<>> \/ Len(l.es[1].c) = arity + 1)
      body == ParseExpr(Expect(pats.s, "Eq"))
      all == Also(l, R(Of("Clause", Append(pats.es, body.e)), body.s))
      next == ExpectName(Advance(body.s), {"Ident"})
  IN CASE ~fits -> [es |-> l.es, s |-> Fail(pats.s)]
       [] fits /\ body.err -> [l EXCEPT !.s = body.s]
       [] fits /\ ~body.err /\ At(all.s, "Bar") ->
            IF next.v = name THEN Clauses(name, [all EXCEPT !.s = next.s])
                             ELSE [all EXCEPT !.s = Fail(@)]
       [] OTHER -> all

BindingsRule(l) ==
  LET name == ExpectName(l.s, {"Ident"})
      clauses == Clauses(name.v, [es |-> <<>>, s |-> name.s])
      all == Also(l, R(NamedOf("Binding", name.v, clauses.es), clauses.s))
  IN IF clauses.s.err THEN [l EXCEPT !.s = clauses.s]
     ELSE IF At(all.s, "And") THEN Bindings([all EXCEPT !.s = Advance(@)]) ELSE all

Group(all) == IF all.s.err THEN None(all.s) ELSE R(Of("Fun", all.es), all.s)
FunDecl(s) == Group(BindingsRule([es |-> <<>>, s |-> Advance(s)]))

DeclsRule(stop, l) ==
  LET d == ParseDecl(l.s)
  IN IF Peek(l.s) \in {stop, "Eof"} THEN l
     ELSE IF d.err THEN [l EXCEPT !.s = d.s] ELSE DeclsUntil(stop, Also(l, d))

LocalDecl(s) ==
  LET locals == DeclsUntil("In", [es |-> <<>>, s |-> Advance(Enter(s))])
      body == DeclsUntil("End", [es |-> <<>>, s |-> Expect(locals.s, "In")])
  IN IF locals.s.err THEN None(locals.s) ELSE IF body.s.err THEN None(body.s)
     ELSE R(Node("Local", "", Len(locals.es), locals.es \o body.es), Returns(s, Expect(body.s, "End")))

\* A declaration spans its tokens, from the first to the last read.
Spanned(s, r) == IF r.err THEN r ELSE R([r.e EXCEPT !.p = <<s.pos, r.s.pos - 1>>], r.s)

DeclAt(s) ==
  CASE At(s, "Val") -> ValDecl(s)
    [] At(s, "Fun") -> FunDecl(s)
    [] At(s, "Datatype") -> DatatypeDecl(s)
    [] At(s, "Type") -> TypeAliasDecl(s)
    [] At(s, "Local") -> LocalDecl(s)
    [] At(s, "Import") -> ImportDecl(s)
    [] At(s, "Use") -> UseDecl(s)
    [] At(s, "Effect") -> EffectDecl(s)
    [] OTHER -> None(s)
DeclRule(s) == Spanned(s, DeclAt(s))

StructureDecl(s) ==
  LET name == ExpectName(Advance(s), {"UpperIdent"})
      sealed == Peek(name.s) \in {"Colon", "ColonGt"}
      sig == ExpectName(Advance(name.s), {"UpperIdent"})
      head == Expect(Expect(IF sealed THEN sig.s ELSE name.s, "Eq"), "Struct")
      decls == DeclsUntil("End", [es |-> <<>>, s |-> head])
  IN IF decls.s.err THEN None(decls.s)
     ELSE R(Node("Structure", name.v, IF At(name.s, "ColonGt") THEN 1 ELSE 0,
            (IF sealed THEN <<Named("Seal", sig.v)>> ELSE <<>>) \o decls.es),
       Expect(decls.s, "End"))

\* One turn of parse_program's loop.
TopDeclRule(l) ==
  Also(l, CASE At(l.s, "Signature") -> Spanned(l.s, SignatureDecl(l.s))
            [] At(l.s, "Structure") -> Spanned(l.s, StructureDecl(l.s))
            [] OTHER -> ParseDecl(l.s))

Rule(rule, x) ==
  CASE rule = "Type" -> TypeRule(x)
    [] rule = "TupleType" -> TupleTypeRule(x)
    [] rule = "AppType" -> AppTypeRule(x)
    [] rule = "AtomType" -> AtomTypeRule(x)
    [] rule = "Pat" -> PatRule(x)
    [] rule = "AppPat" -> AppPatRule(x)
    [] rule = "AtomPat" -> AtomPatRule(x)
    [] rule = "Expr" -> ExprRule(x)
    [] rule = "Level" -> LevelRule(x[1], x[2])
    [] rule = "Unary" -> UnaryRule(x)
    [] rule = "AtomExpr" -> AtomExprRule(x)
    [] rule = "Decl" -> DeclRule(x)
    [] rule = "Decls" -> DeclsRule(x[1], x[2])
    [] rule = "Bindings" -> BindingsRule(x)
    [] rule = "Clauses" -> ClausesRule(x[1], x[2])
    [] rule = "Climb" -> ClimbRule(x[1], x[2], x[3], x[4], x[5])
    [] rule = "Constructors" -> ConstructorsRule(x)
    [] rule = "Arms" -> ArmsRule(x)
    [] rule = "Handlers" -> HandlersRule(x)
    [] rule = "ExprList" -> ExprListRule(x)
    [] rule = "Specs" -> SpecsRule(x)
    [] rule = "QualifiedName" -> QualifiedNameRule(x)
    [] rule = "TyVarParams" -> TyVarParamsRule(x)
    [] rule = "TopDecl" -> TopDeclRule(x)

\* check_decl_nesting and the functions it calls: no node of the finished tree
\* lies deeper than the limit.
CheckNesting(decls, max) == \A i \in DOMAIN decls : Height(decls[i]) <= max

=============================================================================
