-------------------------------- MODULE Lexer --------------------------------
(***************************************************************************)
(* The lexer (hiko-syntax/src/lexer.rs) on source texts of printable ASCII  *)
(* characters, tabs and newlines.  Positions count from 1.  A token's kind  *)
(* is "Error" where the code returns a LexError.  Numbers are as wide as    *)
(* IntMax and WordMax allow; a float literal keeps its text.                *)
(***************************************************************************)
EXTENDS Syntax, Numbers

Ch(src, p) == IF p \in 1..Len(src) THEN SubSeq(src, p, p) ELSE ""
Two(src, p) == Ch(src, p) \o Ch(src, p + 1)
CharsOf(str) == {SubSeq(str, i, i) : i \in 1..Len(str)}

Space == {" ", "\t", "\n", "\r"}
Digit == CharsOf("0123456789")
HexDigit == CharsOf("0123456789abcdefABCDEF")
Upper == CharsOf("ABCDEFGHIJKLMNOPQRSTUVWXYZ")
Letter == Upper \cup CharsOf("abcdefghijklmnopqrstuvwxyz")
IdentStart == Letter \cup {"_"}
IdentChar == IdentStart \cup Digit
\* The characters with codes 32 to 126, but for the backquote.
Ascii == " !\"#$%&'()*+,-./0123456789:;<=>?@ABCDEFGHIJKLMNOPQRSTUVWXYZ[\\]^_ abcdefghijklmnopqrstuvwxyz{|}~"

Keyword ==
  [val |-> "Val", fun |-> "Fun", fn |-> "Fn", let |-> "Let", in |-> "In", end |-> "End",
   if |-> "If", then |-> "Then", else |-> "Else", case |-> "Case", of |-> "Of",
   datatype |-> "Datatype", type |-> "Type", local |-> "Local", and |-> "And",
   rec |-> "Rec", import |-> "Import", use |-> "Use", signature |-> "Signature",
   sig |-> "Sig", structure |-> "Structure", struct |-> "Struct", true |-> "True",
   false |-> "False", not |-> "Not", andalso |-> "Andalso", orelse |-> "Orelse",
   mod |-> "Mod", as |-> "As", effect |-> "Effect", handle |-> "Handle", with |-> "With",
   perform |-> "Perform", resume |-> "Resume", return |-> "Return"]

Operator1 ==
  [c \in CharsOf("()[],.;~#^|:=-+*/<>") |->
     CASE c = "(" -> "LParen" [] c = ")" -> "RParen" [] c = "[" -> "LBracket"
       [] c = "]" -> "RBracket" [] c = "," -> "Comma" [] c = "." -> "Dot"
       [] c = ";" -> "Semicolon" [] c = "~" -> "Tilde" [] c = "#" -> "Hash"
       [] c = "^" -> "Caret" [] c = "|" -> "Bar" [] c = ":" -> "Colon"
       [] c = "=" -> "Eq" [] c = "-" -> "Minus" [] c = "+" -> "Plus"
       [] c = "*" -> "Star" [] c = "/" -> "Slash" [] c = "<" -> "Lt" [] c = ">" -> "Gt"]
Operator2 ==
  [o \in {"|>", "::", ":>", "=>", "->", "<>", "<=", ">="} |->
     CASE o = "|>" -> "PipeGt" [] o = "::" -> "ColonColon" [] o = ":>" -> "ColonGt"
       [] o = "=>" -> "Arrow" [] o = "->" -> "ThinArrow" [] o = "<>" -> "Ne"
       [] o = "<=" -> "Le" [] o = ">=" -> "Ge"]

LexError(p) == Token("Error", "", 0, p, p)

\* The first position from p on whose character is not in S.
RECURSIVE After(_, _, _)
After(src, p, S) == IF Ch(src, p) \in S THEN After(src, p + 1, S) ELSE p

\* skip_comment, past the opening: where it ends, or 0 if it never does.
RECURSIVE SkipComment(_, _, _)
SkipComment(src, p, depth) ==
  CASE depth = 0 -> p
    [] depth > 0 /\ p > Len(src) -> 0
    [] depth > 0 /\ Two(src, p) = "(*" -> SkipComment(src, p + 2, depth + 1)
    [] depth > 0 /\ Two(src, p) = "*)" -> SkipComment(src, p + 2, depth - 1)
    [] OTHER -> SkipComment(src, p + 1, depth)

\* skip_whitespace_and_comments: the position it reaches (0 when a comment is
\* unterminated) and the comments it passed.
RECURSIVE Skip(_, _, _)
Skip(src, p, seen) ==
  LET q == After(src, p, Space)
      end == SkipComment(src, q + 2, 1)
  IN IF Two(src, q) # "(*" THEN [p |-> q, seen |-> seen]
     ELSE IF end = 0 THEN [p |-> 0, seen |-> seen]
     ELSE Skip(src, end, Append(seen, [a |-> q, z |-> end]))

DigitVal(c) ==
  CHOOSE i \in 0..15 : c \in {Ch("0123456789abcdef", i + 1), Ch("0123456789ABCDEF", i + 1)}

\* The value of a run of digits, or -1 where it exceeds max.
RECURSIVE Value(_, _, _, _, _)
Value(src, p, end, base, max) ==
  IF p = end THEN 0
  ELSE LET high == Value(src, p, end - 1, base, max)
           n == high * base + DigitVal(Ch(src, end - 1))
       IN IF high < 0 \/ n > max THEN -1 ELSE n

NumToken(t, n, a, z) == IF n < 0 THEN LexError(a) ELSE Token(t, "", n, a, z)

LexWord(src, a) ==
  LET hex == Ch(src, a + 2) \in {"x", "X"}
      from == IF hex THEN a + 3 ELSE a + 2
      end == After(src, from, IF hex THEN HexDigit ELSE Digit)
  IN IF end = from THEN LexError(a)
     ELSE NumToken("WordLit", Value(src, from, end, IF hex THEN 16 ELSE 10, WordMax), a, end)

LexNumber(src, a) ==
  LET whole == After(src, a, Digit)
      dot == Ch(src, whole) = "." /\ Ch(src, whole + 1) \in Digit
      point == IF dot THEN After(src, whole + 1, Digit) ELSE whole
      exp == Ch(src, point) \in {"e", "E"}
      sign == IF Ch(src, point + 1) \in {"+", "-"} THEN point + 2 ELSE point + 1
      end == IF exp THEN After(src, sign, Digit) ELSE point
  IN CASE Two(src, a) = "0w" -> LexWord(src, a)
       [] exp /\ Ch(src, sign) \notin Digit -> LexError(a)
       [] ~exp /\ ~dot -> NumToken("IntLit", Value(src, a, end, 10, IntMax), a, end)
       [] OTHER -> Token("FloatLit", SubSeq(src, a, end - 1), 0, a, end)

\* parse_escape at a backslash: the character and the position after it (0
\* for an unknown or cut escape).  Codes are those of Ascii.
ParseEscape(src, p) ==
  LET c == Ch(src, p + 1)
      plain == [n |-> "\n", t |-> "\t", r |-> "\r"]
      hi == Ch(src, p + 2)
      lo == Ch(src, p + 3)
  IN CASE c \in DOMAIN plain -> [v |-> plain[c], p |-> p + 2]
       [] c \in {"\\", "\""} -> [v |-> c, p |-> p + 2]
       [] c = "x" /\ hi \in HexDigit /\ lo \in HexDigit ->
            [v |-> Ch(Ascii, 16 * DigitVal(hi) + DigitVal(lo) - 31), p |-> p + 4]
       [] OTHER -> [v |-> "", p |-> 0]

\* One character of a literal.
LitChar(src, p) ==
  IF Ch(src, p) = "\\" THEN ParseEscape(src, p)
  ELSE [v |-> Ch(src, p), p |-> IF p > Len(src) THEN 0 ELSE p + 1]

RECURSIVE LexString(_, _, _, _)
LexString(src, a, p, v) ==
  LET c == LitChar(src, p)
  IN CASE Ch(src, p) = "\"" ->
            Token("StringLit", v, IF Two(v, 1) = "./" \/ Two(v, 1) \o Ch(v, 3) = "../" THEN 1 ELSE 0,
                  a, p + 1)
       [] Ch(src, p) # "\"" /\ c.p = 0 -> LexError(a)
       [] OTHER -> LexString(src, a, c.p, v \o c.v)

LexChar(src, a) ==
  LET c == LitChar(src, a + 2)
  IN IF c.p = 0 \/ Ch(src, c.p) # "\"" THEN LexError(a)
     ELSE Token("CharLit", c.v, 0, a, c.p + 1)

LexIdent(src, a) ==
  LET end == After(src, a, IdentChar)
      text == SubSeq(src, a, end - 1)
  IN CASE text = "_" -> Token("Underscore", "", 0, a, end)
       [] text \in DOMAIN Keyword -> Token(Keyword[text], "", 0, a, end)
       [] OTHER -> Token(IF Ch(src, a) \in Upper THEN "UpperIdent" ELSE "Ident", text,
                         IF Two(src, a) = "__" THEN 1 ELSE 0, a, end)

LexOperator(src, a) ==
  CASE Two(src, a) \in DOMAIN Operator2 -> Token(Operator2[Two(src, a)], "", 0, a, a + 2)
    [] Two(src, a) \notin DOMAIN Operator2 /\ Ch(src, a) \in DOMAIN Operator1 ->
         Token(Operator1[Ch(src, a)], "", 0, a, a + 1)
    [] OTHER -> LexError(a)

NextToken(src, a) ==
  LET tyvar == After(src, a + 1, IdentChar)
  IN CASE a > Len(src) -> Token("Eof", "", 0, a, a)
       [] Ch(src, a) = "\"" -> LexString(src, a, a + 1, "")
       [] Two(src, a) = "#\"" -> LexChar(src, a)
       [] Ch(src, a) \in Digit -> LexNumber(src, a)
       [] Ch(src, a) = "'" /\ Ch(src, a + 1) \in IdentStart ->
            Token("TyVar", SubSeq(src, a, tyvar - 1), 0, a, tyvar)
       [] Ch(src, a) \in IdentStart -> LexIdent(src, a)
       [] OTHER -> LexOperator(src, a)

=============================================================================
