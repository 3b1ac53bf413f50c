------------------------------- MODULE Syntax -------------------------------
(***************************************************************************)
(* Tokens and syntax trees (hiko-syntax/src/token.rs, ast.rs).  A token is  *)
(* its kind t with a name v or a number n, and the text it spans, from a to *)
(* before z; a tree node is its kind k with a name v, a number n and its    *)
(* children c.  Declarations keep their span p, the first and the last of   *)
(* their tokens, and operators theirs, in places of their file.  The first  *)
(* n children of a Local are its private declarations.                      *)
(***************************************************************************)
EXTENDS Integers, Sequences, SequencesExt

Token(t, v, n, a, z) == [t |-> t, v |-> v, n |-> n, a |-> a, z |-> z]

Node(k, v, n, c) == [k |-> k, v |-> v, n |-> n, c |-> c, p |-> <<0, 0>>]
Leaf(k) == Node(k, "", 0, <<>>)
Named(k, v) == Node(k, v, 0, <<>>)
Lit(k, n) == Node(k, "", n, <<>>)
Of(k, c) == Node(k, "", 0, c)
NamedOf(k, v, c) == Node(k, v, 0, c)

\* Nodes that group parts of their parent and are no level of the tree: match
\* arms, handlers, function bindings and clauses, constructors, specs, and the
\* type parameters and signature of a declaration.
Parts == {"Arm", "Handler", "Binding", "Clause", "Con", "TypeSpec", "ValSpec",
          "Param", "Seal"}

MaxOf(S) == CHOOSE x \in S : \A y \in S : x >= y

\* Levels of the tree below and including a node.  Element i of a list pattern
\* sits i levels deeper: it becomes i nested :: patterns.
RECURSIVE Height(_)
Height(e) ==
  LET below == {0} \cup {Height(e.c[i]) + (IF e.k = "PList" THEN i - 1 ELSE 0)
                           : i \in DOMAIN e.c}
  IN MaxOf(below) + (IF e.k \in Parts THEN 0 ELSE 1)

\* The tree without its parentheses and spans.
RECURSIVE NoParens(_)
NoParens(e) ==
  IF e.k \in {"Paren", "PParen", "TParen"} THEN NoParens(e.c[1])
  ELSE [e EXCEPT !.c = [i \in DOMAIN e.c |-> NoParens(e.c[i])], !.p = <<0, 0>>]

=============================================================================
