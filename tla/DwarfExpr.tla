------------------------------- MODULE DwarfExpr -------------------------------
(****************************************************************************)
(* How the DWARF reader gets offsets and addresses from location            *)
(* expressions (abg-dwarf-reader.cc).  An expression is evaluated by a stack*)
(* machine without the running program, so a value on the stack is a        *)
(* constant or is not known, and what counts is the last constant that came *)
(* up: the accumulator.  The address of the object, 0, is on the stack when *)
(* the expression begins.                                                   *)
(*                                                                          *)
(* An operation is a record with its atom and its operand, "number".  An    *)
(* operation on a stack that is too small is undefined in the code and      *)
(* aborts here, as an assertion does.                                       *)
(****************************************************************************)
EXTENDS Integers, Sequences, Bitwise

(* expr_result                                                              *)
Constant(v) == [const |-> TRUE, value |-> v]
NotConstant == [const |-> FALSE, value |-> 0]

(* expr_result(bool): what a number becomes that is made a result implicitly*)
ImplicitResult(v) == [const |-> v # 0, value |-> 0]

(* The evaluation context: "next" is the index of the next operation.       *)
Start == [stack |-> <<Constant(0)>>, accum |-> NotConstant, tls |-> FALSE, next |-> 1,
          aborted |-> FALSE]

Drop(s, n) == SubSeq(s, n + 1, Len(s))

(* The stack after an operation whose result counts if it is a constant.    *)
WithTop(c, stack) ==
    [c EXCEPT !.stack = stack, !.next = @ + 1,
              !.accum = IF stack[1].const THEN stack[1] ELSE @]

-----------------------------------------------------------------------------
(* op_pushes_constant_value(): DW_OP_addr, DW_OP_const*, DW_OP_lit*         *)
PushConstant == {"addr", "const", "lit"}
OpPushesConstantValue(c, op) == WithTop(c, <<Constant(op.number)>> \o c.stack)

(* op_pushes_non_constant_value(): DW_OP_regx skips what follows it.        *)
PushOther == {"reg", "breg", "regx", "fbreg", "bregx"}
OpPushesNonConstantValue(c, op) ==
    [c EXCEPT !.stack = <<NotConstant>> \o @, !.next = @ + (IF op.atom = "regx" THEN 2 ELSE 1)]

-----------------------------------------------------------------------------
(* op_is_arith_logic()                                                      *)
Unary == {"abs", "neg", "not", "plus_uconst"}
Binary == {"and", "div", "minus", "mod", "mul", "or", "plus", "shl", "shr", "shra", "xor"}

Magnitude(v) == IF v < 0 THEN -v ELSE v
Power2[n \in Nat] == IF n = 0 THEN 1 ELSE 2 * Power2[n - 1]

(* The remainder has the sign of the dividend.                              *)
Remainder(v, by) == IF v < 0 THEN -((-v) % Magnitude(by)) ELSE v % Magnitude(by)

Combined(atom, v2, v1) ==
    CASE atom = "minus" -> v2 - v1
      [] atom = "mod" -> Remainder(v2, v1)
      [] atom = "mul" -> v2 * v1
      [] atom = "or" -> v2 | v1
      [] atom = "plus" -> v2 + v1
      [] atom = "shl" -> v2 * Power2[v1]
      [] atom \in {"shr", "shra"} -> v2 \div Power2[v1]
      [] atom = "xor" -> v2 ^^ v1

(* operator&() calls itself, operator/() and the unary minus return a       *)
(* number.                                                                  *)
UnaryFails(atom, val1) == atom \in {"abs", "neg"} /\ ~val1.const
BinaryFails(atom, val2, val1) ==
    \/ atom = "and"
    \/ atom = "div" /\ (~val2.const \/ ~val1.const \/ val1.value = 0)
    \/ atom = "mod" /\ val1.value = 0

UnaryResult(op, val1) ==
    CASE op.atom = "abs" -> [val1 EXCEPT !.value = Magnitude(@)]
      [] op.atom = "neg" -> ImplicitResult(-val1.value)
      [] op.atom = "not" -> [val1 EXCEPT !.value = -@ - 1]
      [] op.atom = "plus_uconst" -> [val1 EXCEPT !.value = @ + op.number]

BinaryResult(atom, val2, val1) ==
    IF atom = "div" THEN ImplicitResult(Magnitude(val2.value) \div Magnitude(val1.value))
    ELSE [const |-> val2.const /\ val1.const, value |-> Combined(atom, val2.value, val1.value)]

OpIsArithLogic(c, op) ==
    IF op.atom \in Unary
    THEN IF UnaryFails(op.atom, c.stack[1]) THEN [c EXCEPT !.aborted = TRUE]
         ELSE WithTop(c, <<UnaryResult(op, c.stack[1])>> \o Tail(c.stack))
    ELSE IF BinaryFails(op.atom, c.stack[2], c.stack[1]) THEN [c EXCEPT !.aborted = TRUE]
    ELSE WithTop(c, <<BinaryResult(op.atom, c.stack[2], c.stack[1])>> \o Drop(c.stack, 2))

-----------------------------------------------------------------------------
(* op_manipulates_stack(): the stack after the operation, and the value that*)
(* counts if it is a constant: of DW_OP_drop, what is dropped.              *)
Manipulate == {"dup", "drop", "over", "pick", "swap", "rot", "deref", "xderef",
               "push_object_address", "form_tls_address", "GNU_push_tls_address",
               "call_frame_cfa"}
TlsAddress == {"form_tls_address", "GNU_push_tls_address"}

Moved(op, s) ==
    CASE op.atom = "dup" -> [top |-> s[1], under |-> s]
      [] op.atom = "drop" -> [top |-> s[1], under |-> Tail(s)]
      [] op.atom = "over" -> [top |-> s[2], under |-> s]
      [] op.atom = "pick" -> [top |-> Constant(op.number), under |-> s]
      [] op.atom = "swap" -> [top |-> s[2], under |-> <<s[1]>> \o Drop(s, 2)]
      [] op.atom = "rot" -> [top |-> s[3], under |-> <<s[1], s[2]>> \o Drop(s, 3)]
      [] op.atom = "deref" -> [top |-> NotConstant, under |-> Tail(s)]
      [] op.atom = "xderef" -> [top |-> NotConstant, under |-> Drop(s, 2)]
      [] op.atom \in {"push_object_address", "call_frame_cfa"} ->
           [top |-> NotConstant, under |-> s]
      [] op.atom = "form_tls_address" -> [top |-> [s[1] EXCEPT !.const = FALSE], under |-> Tail(s)]
      [] op.atom = "GNU_push_tls_address" -> [top |-> s[1], under |-> Tail(s)]

OpManipulatesStack(c, op) ==
    LET moved == Moved(op, c.stack)
    IN [c EXCEPT !.stack = IF op.atom = "drop" THEN moved.under ELSE <<moved.top>> \o moved.under,
                 !.next = @ + 1,
                 !.accum = IF moved.top.const THEN moved.top ELSE @,
                 !.tls = op.atom \in TlsAddress]

-----------------------------------------------------------------------------
(* op_is_control_flow(): jumps are counted in operations.  DW_OP_bra jumps  *)
(* by the value it pops; what jumps back, and may never end, is not modelled.*)
Comparison == {"eq", "ge", "gt", "le", "lt", "ne"}
Called == {"call2", "call4", "call_ref", "nop"}

(* There is no operator!= for results: the numbers are compared.            *)
Compares(atom, val2, val1) ==
    CASE atom = "eq" -> val2 = val1
      [] atom = "ne" -> val2.value # val1.value
      [] atom = "ge" -> val2.value >= val1.value
      [] atom = "gt" -> val2.value > val1.value
      [] atom = "le" -> val2.value <= val1.value
      [] atom = "lt" -> val2.value < val1.value

Jumps(c, by) == IF by < 0 THEN [c EXCEPT !.aborted = TRUE]
                ELSE [c EXCEPT !.next = IF by > 0 THEN @ + by - 1 ELSE @]

OpIsControlFlow(c, op) ==
    LET val1 == c.stack[1]
    IN CASE op.atom \in Comparison ->
              IF op.atom = "ne" /\ ~(val1.const /\ c.stack[2].const) THEN [c EXCEPT !.aborted = TRUE]
              ELSE WithTop(c, <<[val1 EXCEPT !.value =
                                   IF Compares(op.atom, c.stack[2], val1) THEN 1 ELSE 0]>>
                                \o Drop(c.stack, 2))
         [] op.atom = "skip" -> Jumps(WithTop(c, c.stack), op.number)
         [] op.atom = "bra" -> IF val1.const THEN Jumps(WithTop(c, Tail(c.stack)), val1.value)
                               ELSE [c EXCEPT !.aborted = TRUE]
         [] op.atom \in Called -> WithTop(c, c.stack)

-----------------------------------------------------------------------------
(* eval_last_constant_dwarf_sub_expr(): not for an expression of no         *)
(* operations, nor one that ends with DW_OP_pick.                           *)
TakesTwo == Binary \cup Comparison \cup {"over", "swap", "xderef", "bra"}
TakesOne == Unary \cup TlsAddress \cup Called \cup {"dup", "drop", "deref", "skip"}
IsTooSmall(stack, atom) ==
    \/ atom \in TakesOne /\ Len(stack) < 1
    \/ atom \in TakesTwo /\ Len(stack) < 2
    \/ atom = "rot" /\ Len(stack) < 3

Step(c, op) ==
    IF IsTooSmall(c.stack, op.atom) THEN [c EXCEPT !.aborted = TRUE]
    ELSE CASE op.atom \in Unary \cup Binary -> OpIsArithLogic(c, op)
           [] op.atom \in PushConstant -> OpPushesConstantValue(c, op)
           [] op.atom \in Manipulate -> OpManipulatesStack(c, op)
           [] op.atom \in PushOther -> OpPushesNonConstantValue(c, op)
           [] op.atom \in Comparison \cup Called \cup {"skip", "bra"} -> OpIsControlFlow(c, op)
           [] OTHER -> [c EXCEPT !.next = @ + 1]

EvalLastConstantSubExpr(expr) ==
    LET advance(c) ==
          IF c.aborted \/ c.next > Len(expr) THEN c
          ELSE IF expr[c.next].atom = "pick" /\ c.next = Len(expr) THEN [c EXCEPT !.aborted = TRUE]
          ELSE Step(c, expr[c.next])
        after[n \in 0 .. Len(expr)] == IF n = 0 THEN {Start} ELSE {advance(c) : c \in after[n - 1]}
    IN IF expr = <<>> THEN [Start EXCEPT !.aborted = TRUE]
       ELSE CHOOSE c \in after[Len(expr)] : TRUE

-----------------------------------------------------------------------------
(* What an expression means in a running program: where the object is, what *)
(* is in memory, and in the registers.  Undefined where the stack is too    *)
(* small; for the operations that compilers describe members with.          *)
RunningProgram == 1 .. 3
AddressIn(m) == 1000 * m
MemoryIn(m, a) == (a * a + 7 * m) % 977
RegisterIn(m) == 313 * m * m

Describing == (PushConstant \cup PushOther \cup Unary \cup Binary \cup Comparison \cup Manipulate)
                \ {"neg", "and", "div", "drop", "pick", "rot"}

Runs(m, s, op) ==
    CASE op.atom \in PushConstant -> <<op.number>> \o s
      [] op.atom \in PushOther -> <<RegisterIn(m)>> \o s
      [] op.atom = "plus_uconst" -> <<s[1] + op.number>> \o Tail(s)
      [] op.atom = "abs" -> <<IF s[1] < 0 THEN -s[1] ELSE s[1]>> \o Tail(s)
      [] op.atom = "not" -> <<-s[1] - 1>> \o Tail(s)
      [] op.atom \in Binary -> <<Combined(op.atom, s[2], s[1])>> \o Drop(s, 2)
      [] op.atom = "eq" -> <<IF s[2] = s[1] THEN 1 ELSE 0>> \o Drop(s, 2)
      [] op.atom = "ne" -> <<IF s[2] # s[1] THEN 1 ELSE 0>> \o Drop(s, 2)
      [] op.atom \in {"ge", "gt"} ->
           <<IF s[2] > s[1] \/ (op.atom = "ge" /\ s[2] = s[1]) THEN 1 ELSE 0>> \o Drop(s, 2)
      [] op.atom \in {"le", "lt"} ->
           <<IF s[2] < s[1] \/ (op.atom = "le" /\ s[2] = s[1]) THEN 1 ELSE 0>> \o Drop(s, 2)
      [] op.atom = "swap" -> <<s[2], s[1]>> \o Drop(s, 2)
      [] op.atom = "over" -> <<s[2]>> \o s
      [] op.atom = "dup" -> <<s[1]>> \o s
      [] op.atom = "deref" -> <<MemoryIn(m, s[1])>> \o Tail(s)
      [] OTHER -> <<>>

(* What is on top of the stack in the end; <<>> if there is no such thing.  *)
ValueIn(m, expr) ==
    LET after[n \in 0 .. Len(expr)] ==
          IF n = 0 THEN <<AddressIn(m)>>
          ELSE LET s == after[n - 1]
               IN IF s = <<>> \/ expr[n].atom \notin Describing \/ IsTooSmall(s, expr[n].atom)
                  THEN <<>> ELSE Runs(m, s, expr[n])
        last == after[Len(expr)]
    IN IF last = <<>> THEN <<>> ELSE <<Head(last)>>

(* The constant k is VIRTUAL_OFFSET, what is subtracted from the pointer to *)
(* the virtual table to find where a virtual base is, OFFSET, what is added *)
(* to the address of the object, or an index in the virtual table (comment  *)
(* on die_member_offset).                                                   *)
Means(expr, k) ==
    \/ \A m \in RunningProgram :
         ValueIn(m, expr)
           = <<AddressIn(m) + MemoryIn(m, MemoryIn(m, AddressIn(m)) - k)>>
    \/ \A m \in RunningProgram : ValueIn(m, expr) = <<AddressIn(m) + k>>
    \/ \A m \in RunningProgram : ValueIn(m, expr) = <<k>>
=============================================================================
