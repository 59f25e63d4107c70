------------------------------ MODULE GccCalls ------------------------------
(***************************************************************************)
(* The routines that replace libgcc's for _Decimal32, as calls of the core. *)
(* They take their operands by value and return a local that nothing has    *)
(* written before: the destination is never an operand.  The mode is        *)
(* FPFD_RNDN and the flags pointer is null.                                 *)
(***************************************************************************)

\* The third operand is only read by a fused multiply-add.
Override(op, lhs, rhs, ret) ==
  [op |-> op, dest |-> ret, a |-> lhs, b |-> rhs, c |-> rhs, rnd |-> "RNDN", fp |-> FALSE]

BidOverrides(lhs, rhs, ret) == {Override(op, lhs, rhs, ret) : op \in {"ADD", "SUB", "MUL", "DIV"}}
DpdOverrides(lhs, rhs, ret) == {Override(op, lhs, rhs, ret) : op \in {"ADD", "SUB", "MUL", "DIV"}}
=============================================================================
