------------------------------ MODULE Formatter ------------------------------
(***************************************************************************)
(* The formatter (hiko-syntax/src/format.rs and the comment handling of     *)
(* pretty.rs).  It scans the text for comments by itself, refuses comments  *)
(* inside expressions, and prints each one beside a declaration.  A comment *)
(* is the positions [a, z) of its text; positions count from 1.             *)
(***************************************************************************)
EXTENDS Lexer, Pretty

\* Zero-based line of position p: the line breaks before it.
LineAt(src, p) == Cardinality({i \in 1..(p - 1) : Ch(src, i) = "\n"})
\* Where the line after the one of p starts; past the end when it is the last.
NextLine(src, p) ==
  LET later == {i \in p..Len(src) : Ch(src, i) = "\n"}
  IN IF later = {} THEN Len(src) + 2
     ELSE (CHOOSE i \in later : \A j \in later : i <= j) + 1

\* skip_string and skip_char, past the opening: up to the next quote that no
\* backslash precedes.
RECURSIVE SkipQuoted(_, _)
SkipQuoted(src, p) ==
  CASE p > Len(src) -> p
    [] p <= Len(src) /\ Ch(src, p) = "\\" -> SkipQuoted(src, p + 2)
    [] p <= Len(src) /\ Ch(src, p) = "\"" -> p + 1
    [] OTHER -> SkipQuoted(src, p + 1)

\* collect_comments from p on: the next string, character or comment decides.
RECURSIVE CollectComments(_, _)
CollectComments(src, p) ==
  LET starts == {i \in p..Len(src) : Ch(src, i) = "\"" \/ Two(src, i) \in {"#\"", "(*"}}
      q == CHOOSE i \in starts : \A j \in starts : i <= j
      closed == SkipComment(src, q + 2, 1)
      end == IF closed = 0 THEN Len(src) + 1 ELSE closed
  IN CASE starts = {} -> <<>>
       [] starts # {} /\ Ch(src, q) = "\"" -> CollectComments(src, SkipQuoted(src, q + 1))
       [] starts # {} /\ Ch(src, q) = "#" -> CollectComments(src, SkipQuoted(src, q + 2))
       [] OTHER -> <<[a |-> q, z |-> end]>> \o CollectComments(src, end)

\* ctx: the text, its comments and its tokens, which give declarations their
\* positions.
Start(ctx, d) == ctx.toks[d.p[1]].a
End(ctx, d) == ctx.toks[d.p[2]].z
NextStart(ctx, ds, i, default) == IF i < Len(ds) THEN Start(ctx, ds[i + 1]) ELSE default
TextEnd(ctx) == Len(ctx.src) + 1

\* local_comment_split: a comment on the last private declaration's line
\* belongs to the first half, one on a later line to the second.
Split(ctx, d) ==
  IF Locals(d) = <<>> THEN Start(ctx, d)
  ELSE LET body == IF Body(d) = <<>> THEN End(ctx, d) ELSE Start(ctx, Body(d)[1])
           line == NextLine(ctx.src, End(ctx, Last(Locals(d))))
       IN IF line < body THEN line ELSE body

-----------------------------------------------------------------------------
(* validate_comment_convention                                              *)

InRange(ctx, from, to) == {i \in DOMAIN ctx.comments :
                             ctx.comments[i].a >= from /\ ctx.comments[i].z <= to}
OnLineOf(ctx, end, next) ==
  {i \in DOMAIN ctx.comments :
     /\ ctx.comments[i].a >= end /\ ctx.comments[i].a < next
     /\ LineAt(ctx.src, ctx.comments[i].a) = LineAt(ctx.src, end)}

\* mark_allowed_decl_comments and mark_nested_decl_comments: the comments the
\* declarations ds of the container [from, to) may have.
RECURSIVE Allowed(_, _, _, _)
Allowed(ctx, ds, from, to) ==
  LET before(i) == IF i = 1 THEN from ELSE End(ctx, ds[i - 1])
      nested(d) ==
        CASE d.k = "Structure" -> Allowed(ctx, Members(d), Start(ctx, d), End(ctx, d))
          [] d.k = "Local" -> Allowed(ctx, Locals(d), Start(ctx, d), Split(ctx, d))
                                \cup Allowed(ctx, Body(d), Split(ctx, d), End(ctx, d))
          [] OTHER -> {}
  IN UNION {InRange(ctx, before(i), Start(ctx, ds[i]))
              \cup OnLineOf(ctx, End(ctx, ds[i]), NextStart(ctx, ds, i, to))
              \cup nested(ds[i]) : i \in DOMAIN ds}
     \cup InRange(ctx, before(Len(ds) + 1), to)

Validates(ctx, ds) ==
  ctx.comments = <<>> \/ ds = <<>> \/ Allowed(ctx, ds, 1, TextEnd(ctx)) = DOMAIN ctx.comments

-----------------------------------------------------------------------------
(* pretty_decl_list with comments                                           *)

Sorted(S) == SetToSortSeq(S, <)
CommentText(ctx, i) == SubSeq(ctx.src, ctx.comments[i].a, ctx.comments[i].z - 1)
Leading(ctx, after, before, to) == Sorted({i \in InRange(ctx, after, before) : ctx.comments[i].z <= to})
Trailing(ctx, end, before, to) ==
  Sorted({i \in OnLineOf(ctx, end, before) : ctx.comments[i].z <= to})

\* What is printed: the text, and the comments in the order they appear in it.
Plus(l, r) == [text |-> IF l.text = "" THEN r.text ELSE IF r.text = "" THEN l.text
                        ELSE l.text \o " " \o r.text,
               printed |-> l.printed \o r.printed]
Comments(ctx, is) ==
  [text |-> Joined([j \in DOMAIN is |-> CommentText(ctx, is[j])], " "), printed |-> is]

\* The declarations of ds from i on; cursor is where the comments not yet
\* printed start.
RECURSIVE FormatFrom(_, _, _, _, _)
Blank == [text |-> "", printed |-> <<>>]
Filled(d, first, second) ==
  [text |-> DeclText(d, first.text, second.text), printed |-> first.printed \o second.printed]
FormatDecl(ctx, d) ==
  Filled(d, CASE d.k = "Local" -> FormatFrom(ctx, Locals(d), 1, Start(ctx, d), Split(ctx, d))
               [] d.k = "Structure" -> FormatFrom(ctx, Members(d), 1, Start(ctx, d), End(ctx, d))
               [] OTHER -> Blank,
             IF d.k = "Local" THEN FormatFrom(ctx, Body(d), 1, Split(ctx, d), End(ctx, d)) ELSE Blank)

FormatFrom(ctx, ds, i, cursor, to) ==
  IF i > Len(ds) THEN Comments(ctx, Leading(ctx, cursor, to, to))
  ELSE LET d == ds[i]
           lead == Leading(ctx, cursor, Start(ctx, d), to)
           trail == Trailing(ctx, End(ctx, d), NextStart(ctx, ds, i, TextEnd(ctx)), to)
           next == MaxOf({End(ctx, d)} \cup {ctx.comments[j].z : j \in Range(trail)})
       IN Plus(Plus(Comments(ctx, lead), Plus(FormatDecl(ctx, d), Comments(ctx, trail))),
               FormatFrom(ctx, ds, i + 1, next, to))

\* format_source, once the text is lexed and parsed.
Formatted(ctx, out) == [ok |-> TRUE, text |-> out.text, printed |-> out.printed, found |-> ctx.comments]
FormatIn(ctx, decls) ==
  IF Validates(ctx, decls) THEN Formatted(ctx, FormatFrom(ctx, decls, 1, 1, TextEnd(ctx)))
  ELSE [ok |-> FALSE, text |-> "", printed |-> <<>>, found |-> <<>>]
FormatSource(src, toks, decls) ==
  FormatIn([src |-> src, toks |-> toks, comments |-> CollectComments(src, 1)], decls)

=============================================================================
