------------------------------ MODULE Numbers ------------------------------
(***************************************************************************)
(* The arithmetic of i64 and u64 that constant folding (constfold.rs) and   *)
(* the machine (dispatch.rs) share: integers are checked, division rounds   *)
(* towards zero, words wrap around.                                         *)
(***************************************************************************)
EXTENDS Integers

CONSTANTS IntMax,   \* i64::MAX
          WordMax   \* u64::MAX

IntMin == -IntMax - 1
Quot(a, b) == LET q == (IF a < 0 THEN -a ELSE a) \div (IF b < 0 THEN -b ELSE b)
              IN IF (a < 0) = (b < 0) THEN q ELSE -q
Rem(a, b) == a - b * Quot(a, b)
Arith(op, a, b) ==
  CASE op = "Add" -> a + b
    [] op = "Sub" -> a - b
    [] op = "Mul" -> a * b
    [] op = "Div" -> Quot(a, b)
    [] op = "Mod" -> Rem(a, b)
Compares(op, a, b) ==
  CASE op = "Eq" -> a = b
    [] op = "Ne" -> a # b
    [] op = "Lt" -> a < b
    [] op = "Gt" -> a > b
    [] op = "Le" -> a <= b
    [] op = "Ge" -> a >= b
ArithOps == {"Add", "Sub", "Mul", "Div", "Mod"}
CompareOps == {"Eq", "Ne", "Lt", "Gt", "Le", "Ge"}
IntFits(n) == IntMin <= n /\ n <= IntMax
\* A checked operation succeeds; the remainder fails where the quotient does.
Checked(op, a, b) == IntFits(Arith(IF op = "Mod" THEN "Div" ELSE op, a, b))
Wrapped(n) == n % (WordMax + 1)

=============================================================================
