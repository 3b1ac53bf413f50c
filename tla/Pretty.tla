------------------------------- MODULE Pretty -------------------------------
(***************************************************************************)
(* The pretty printer (hiko-syntax/src/pretty.rs): the text of a tree, with *)
(* every line break and indentation a single space.  Floats and the forms   *)
(* only desugaring makes are not printed.                                   *)
(***************************************************************************)
EXTENDS Syntax

Parens(b, text) == IF b THEN "(" \o text \o ")" ELSE text

RECURSIVE Digits(_), Escaped(_, _), Joined(_, _)
Digits(n) ==
  IF n < 10 THEN SubSeq("0123456789", n + 1, n + 1) ELSE Digits(n \div 10) \o Digits(n % 10)
\* The texts of a sequence, with sep between them.
Joined(texts, sep) ==
  CASE texts = <<>> -> ""
    [] Len(texts) = 1 -> texts[1]
    [] OTHER -> texts[1] \o sep \o Joined(Tail(texts), sep)

\* write_escaped on the characters of a literal from p on.
Escaped(v, p) ==
  LET c == SubSeq(v, p, p)
      esc == CASE c = "\n" -> "\\n" [] c = "\t" -> "\\t" [] c = "\r" -> "\\r"
               [] c \in {"\\", "\""} -> "\\" \o c [] OTHER -> c
  IN IF p > Len(v) THEN "" ELSE esc \o Escaped(v, p + 1)

Literal(e) ==
  CASE e.k \in {"IntLit", "PIntLit"} -> IF e.n < 0 THEN "~" \o Digits(-e.n) ELSE Digits(e.n)
    [] e.k \in {"WordLit", "PWordLit"} -> "0w" \o Digits(e.n)
    [] e.k \in {"StringLit", "PStringLit"} -> "\"" \o Escaped(e.v, 1) \o "\""
    [] e.k \in {"CharLit", "PCharLit"} -> "#\"" \o Escaped(e.v, 1) \o "\""
    [] e.k \in {"BoolLit", "PBoolLit"} -> IF e.n = 1 THEN "true" ELSE "false"
    [] e.k \in {"Unit", "PUnit"} -> "()"
    [] e.k = "PWildcard" -> "_"
Lits == {"IntLit", "WordLit", "StringLit", "CharLit", "BoolLit", "Unit"}
PLits == {"PIntLit", "PWordLit", "PStringLit", "PCharLit", "PBoolLit", "PUnit", "PWildcard"}

-----------------------------------------------------------------------------
(* Types and patterns                                                       *)

\* Each of these calls the others, through Text at the end.
RECURSIVE Text(_, _, _, _)
PrettyType(t) == Text("type", t, "", "")
PrettyPat(p) == Text("pat", p, "", "")
PrettyExpr(e) == Text("expr", e, "", "")
PrettyDecl(d) == Text("decl", d, "", "")
DeclText(d, first, second) == Text("decl around", d, first, second)

Types(ts) == [i \in DOMAIN ts |-> PrettyType(ts[i])]
AtomTypes(ts) ==
  [i \in DOMAIN ts |-> Parens(ts[i].k \in {"TArrow", "TTuple"}, PrettyType(ts[i]))]
TypeText(t) ==
  CASE t.k \in {"TNamed", "TVar"} -> t.v
    [] t.k = "TApp" -> (IF Len(t.c) = 1 THEN AtomTypes(t.c)[1]
                                        ELSE Parens(TRUE, Joined(Types(t.c), ", "))) \o " " \o t.v
    [] t.k = "TArrow" ->
         Parens(t.c[1].k = "TArrow", PrettyType(t.c[1])) \o " -> " \o PrettyType(t.c[2])
    [] t.k = "TTuple" -> Joined(AtomTypes(t.c), " * ")
    [] t.k = "TParen" -> Parens(TRUE, PrettyType(t.c[1]))

Applied(p) == p.k = "PCon" /\ p.c # <<>>
AtomPatText(p) == Parens(Applied(p) \/ p.k \in {"PCons", "PAnn", "PAs"}, PrettyPat(p))
PatTexts(ps) == [i \in DOMAIN ps |-> PrettyPat(ps[i])]
PatText(p) ==
  CASE p.k \in PLits -> Literal(p)
    [] p.k = "PVar" -> p.v
    [] p.k = "PTuple" -> Parens(TRUE, Joined(PatTexts(p.c), ", "))
    [] p.k = "PList" -> "[" \o Joined(PatTexts(p.c), ", ") \o "]"
    [] p.k = "PCon" -> IF p.c = <<>> THEN p.v ELSE p.v \o " " \o AtomPatText(p.c[1])
    [] p.k = "PCons" -> (IF Applied(p.c[1]) THEN PrettyPat(p.c[1]) ELSE AtomPatText(p.c[1]))
                          \o " :: " \o PrettyPat(p.c[2])
    [] p.k = "PAnn" -> PrettyPat(p.c[1]) \o " : " \o PrettyType(p.c[2])
    [] p.k = "PAs" -> p.v \o " as " \o PrettyPat(p.c[1])
    [] p.k = "PParen" -> Parens(TRUE, PrettyPat(p.c[1]))

-----------------------------------------------------------------------------
(* Expressions                                                              *)

BinopPrec ==
  [Pipe |-> 0, Orelse |-> 1, Andalso |-> 2, Eq |-> 3, Ne |-> 3, Lt |-> 3, Gt |-> 3, Le |-> 3,
   Ge |-> 3, Add |-> 4, Sub |-> 4, ConcatStr |-> 4, Mul |-> 5, Div |-> 5, Mod |-> 5]
BinopStr ==
  [Pipe |-> "|>", Orelse |-> "orelse", Andalso |-> "andalso", Eq |-> "=", Ne |-> "<>",
   Lt |-> "<", Gt |-> ">", Le |-> "<=", Ge |-> ">=", Add |-> "+", Sub |-> "-",
   ConcatStr |-> "^", Mul |-> "*", Div |-> "/", Mod |-> "mod"]
RightAssoc == {"Orelse", "Andalso"}

\* needs_parens_as_atom.
BareAtoms == Lits \cup {"Var", "Constructor", "Tuple", "List", "Paren"}
Infix == {"BinOp", "Cons", "Ann"}
Prefixable == BareAtoms \cup {"If", "Let", "Case", "Fn", "Handle", "Perform", "Resume"}
AppHeads == BareAtoms \cup {"App", "Let", "Perform", "Resume"}

\* The operand of an infix operator: parenthesised when it binds too loosely.
NeedsParens(op, e, leftSide) ==
  /\ e.k = "BinOp"
  /\ \/ BinopPrec[e.v] < BinopPrec[op]
     \/ BinopPrec[e.v] = BinopPrec[op] /\ (leftSide <=> op \in RightAssoc)

AtomText(e) == Parens(e.k \notin BareAtoms, PrettyExpr(e))
ArgText(e) ==
  IF e.k \in {"UnaryNeg", "Not"} /\ e.c[1].k \in Prefixable THEN PrettyExpr(e) ELSE AtomText(e)
ExprTexts(es) == [i \in DOMAIN es |-> PrettyExpr(es[i])]
ArmTexts(arms) ==
  [i \in DOMAIN arms |-> PrettyPat(arms[i].c[1]) \o " => " \o PrettyExpr(arms[i].c[2])]
HandlerTexts(hs) ==
  [i \in DOMAIN hs |-> " | " \o hs[i].v \o " " \o hs[i].c[1].v \o " " \o hs[i].c[2].v
                         \o " => " \o PrettyExpr(hs[i].c[3])]
DeclTexts(ds) == [i \in DOMAIN ds |-> PrettyDecl(ds[i])]
Rest(s, i) == SubSeq(s, i, Len(s))

ExprText(e) ==
  CASE e.k \in Lits -> Literal(e)
    [] e.k \in {"Var", "Constructor"} -> e.v
    [] e.k = "Tuple" -> Parens(TRUE, Joined(ExprTexts(e.c), ", "))
    [] e.k = "List" -> "[" \o Joined(ExprTexts(e.c), ", ") \o "]"
    [] e.k = "Cons" ->
         Parens(e.c[1].k = "Ann" \/ (e.c[1].k = "BinOp" /\ e.c[1].v \in RightAssoc),
                PrettyExpr(e.c[1])) \o " :: " \o PrettyExpr(e.c[2])
    [] e.k = "BinOp" ->
         LET side(i) == Parens(e.v # "Pipe" /\ NeedsParens(e.v, e.c[i], i = 1), PrettyExpr(e.c[i]))
         IN side(1) \o " " \o BinopStr[e.v] \o " " \o side(2)
    [] e.k \in {"UnaryNeg", "Not"} ->
         (IF e.k = "Not" THEN "not " ELSE "~") \o Parens(e.c[1].k \in Infix, PrettyExpr(e.c[1]))
    [] e.k = "App" ->
         Parens(e.c[1].k \notin AppHeads, PrettyExpr(e.c[1])) \o " " \o ArgText(e.c[2])
    [] e.k = "Fn" -> "fn " \o PrettyPat(e.c[1]) \o " => " \o PrettyExpr(e.c[2])
    [] e.k = "If" -> "if " \o PrettyExpr(e.c[1]) \o " then " \o PrettyExpr(e.c[2]) \o " else "
                       \o PrettyExpr(e.c[3])
    [] e.k = "Let" -> "let " \o Joined(DeclTexts(Front(e.c)), " ") \o " in "
                        \o PrettyExpr(Last(e.c)) \o " end"
    [] e.k = "Case" ->
         "case " \o PrettyExpr(e.c[1]) \o " of " \o Joined(ArmTexts(Tail(e.c)), " | ")
    [] e.k = "Ann" -> PrettyExpr(e.c[1]) \o " : " \o PrettyType(e.c[2])
    [] e.k = "Paren" -> Parens(TRUE, PrettyExpr(e.c[1]))
    [] e.k = "Perform" -> "perform " \o e.v \o " " \o AtomText(e.c[1])
    [] e.k = "Handle" ->
         "handle " \o PrettyExpr(e.c[1]) \o " with return " \o e.v \o " => "
           \o PrettyExpr(e.c[2]) \o Joined(HandlerTexts(Rest(e.c, 3)), "")
    [] e.k = "Resume" -> "resume " \o AtomText(e.c[1]) \o " " \o AtomText(e.c[2])

-----------------------------------------------------------------------------
(* Declarations                                                             *)

NamesOf(ps) == [i \in DOMAIN ps |-> ps[i].v]
TyVarsText(ps) ==
  CASE ps = <<>> -> ""
    [] Len(ps) = 1 -> ps[1].v \o " "
    [] OTHER -> Parens(TRUE, Joined(NamesOf(ps), ", ")) \o " "
PayloadText(c) == IF c = <<>> THEN "" ELSE " of " \o PrettyType(c[1])
ConTexts(cons) == [i \in DOMAIN cons |-> cons[i].v \o PayloadText(cons[i].c)]
SpecText(s) ==
  IF s.k = "TypeSpec" THEN "type " \o TyVarsText(s.c) \o s.v
  ELSE "val " \o s.v \o " : " \o PrettyType(s.c[1])
SpecTexts(specs) == [i \in DOMAIN specs |-> SpecText(specs[i])]

\* Faulty: the clauses after the first lose their parameters' parentheses.
ClauseTextsBare(b) ==
  [i \in DOMAIN b.c |->
     LET c == b.c[i]
         text(p) == IF i > 1 /\ p.k = "PParen" THEN PrettyPat(p.c[1]) ELSE AtomPatText(p)
     IN b.v \o " " \o Joined([j \in 1..(Len(c.c) - 1) |-> text(c.c[j])], " ")
          \o " = " \o PrettyExpr(Last(c.c))]

ClauseTexts(b) ==
  [i \in DOMAIN b.c |->
     LET c == b.c[i]
     IN b.v \o " " \o Joined([j \in 1..(Len(c.c) - 1) |-> AtomPatText(c.c[j])], " ")
          \o " = " \o PrettyExpr(Last(c.c))]
BindingTexts(bs) == [i \in DOMAIN bs |-> Joined(ClauseTexts(bs[i]), " | ")]

\* The private and the public declarations of a local, the members of a structure.
Locals(d) == SubSeq(d.c, 1, d.n)
Body(d) == Rest(d.c, d.n + 1)
Seals(d) == SelectSeq(d.c, LAMBDA m : m.k = "Seal")
Members(d) == SelectSeq(d.c, LAMBDA m : m.k # "Seal")
SealText(d) ==
  IF Seals(d) = <<>> THEN "" ELSE (IF d.n = 1 THEN " :> " ELSE " : ") \o Seals(d)[1].v

\* pretty_decl, the texts of the declarations inside d given.
Around(d, first, second) ==
  CASE d.k = "Val" -> "val " \o PrettyPat(d.c[1]) \o " = " \o PrettyExpr(d.c[2])
    [] d.k = "ValRec" -> "val rec " \o d.v \o " = " \o PrettyExpr(d.c[1])
    [] d.k = "Fun" -> "fun " \o Joined(BindingTexts(d.c), " and ")
    [] d.k = "Datatype" -> "datatype " \o TyVarsText(SubSeq(d.c, 1, d.n)) \o d.v \o " = "
                             \o Joined(ConTexts(Rest(d.c, d.n + 1)), " | ")
    [] d.k = "TypeAlias" -> "type " \o TyVarsText(SubSeq(d.c, 1, d.n)) \o d.v \o " = "
                              \o PrettyType(Last(d.c))
    [] d.k = "Import" ->
         "import " \o d.v \o (IF d.c = <<>> THEN "" ELSE " (" \o Joined(NamesOf(d.c), ", ") \o ")")
    [] d.k = "Use" -> "use \"" \o Escaped(d.v, 1) \o "\""
    [] d.k = "Effect" -> "effect " \o d.v \o PayloadText(d.c)
    [] d.k = "Signature" -> "signature " \o d.v \o " = sig " \o Joined(SpecTexts(d.c), " ") \o " end"
    [] d.k = "Structure" -> "structure " \o d.v \o SealText(d) \o " = struct " \o first \o " end"
    [] d.k = "Local" -> "local " \o first \o " in " \o second \o " end"

\* Without comments, as inside a let.
PlainDecl(d) ==
  DeclText(d, IF d.k = "Local" THEN Joined(DeclTexts(Locals(d)), " ")
                               ELSE Joined(DeclTexts(Members(d)), " "),
           Joined(DeclTexts(Body(d)), " "))

Text(kind, x, first, second) ==
  CASE kind = "type" -> TypeText(x)
    [] kind = "pat" -> PatText(x)
    [] kind = "expr" -> ExprText(x)
    [] kind = "decl" -> PlainDecl(x)
    [] kind = "decl around" -> Around(x, first, second)

=============================================================================
