--------------------------- MODULE LibraryContract ---------------------------
(***************************************************************************)
(* The arithmetic of the encoding library that is linked in, as constants,  *)
(* and what the core relies on to stay within the format: that an operation *)
(* on nonzero numbers of the format, followed by scale, leaves a zero or a  *)
(* number of the format.  Nothing is said of its value.                     *)
(***************************************************************************)
EXTENDS Decimal

CONSTANTS
  ImplAddSub(_, _, _),  \* sign, lhs, rhs -> [x, rem]
  ImplMul(_, _),        \* lhs, rhs -> number
  ImplDiv(_, _),        \* lhs, rhs -> [x, rem]
  ImplScale(_)          \* number -> [x, rem]

\* What the core hands to a library.
Operand == [mant : 1..MaxMant, exp : EMin..EMax, sign : Sign, special : {"NUMBER"}]

\* A zero, or a number of P digits or subnormal.
Fitted(x) == x.special \in {"NUMBER", "ZERO"} /\ (x.special = "NUMBER" => Canonical(x.mant, x.exp))

Scalable(x) == ImplScale(x).rem \in Nat /\ ImplScale(x).x \in Impl /\ Fitted(ImplScale(x).x)

Delivers(r) == r.x \in Impl /\ r.rem \in Nat /\ Scalable(r.x)

\* Of the operands in set; the core needs it of every Operand.
LibraryDelivers(set) ==
  \A a, b \in set :
    /\ \A s \in Sign : Delivers(ImplAddSub(s, a, b))
    /\ ImplMul(a, b) \in Impl /\ Scalable(ImplMul(a, b))
    /\ Delivers(ImplDiv(a, b))
    /\ \A c \in set : Delivers(ImplAddSub(1, ImplMul(a, b), c))
=============================================================================
