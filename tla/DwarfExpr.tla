------------------------------ MODULE DwarfExpr ------------------------------
(***************************************************************************)
(* The DWARF expression machine (expr::evaluate of src/src/dwarf/expr.cpp) *)
(* as the debugger uses it to find variables, through the context          *)
(* ptrace_expr_context.                                                    *)
(*                                                                         *)
(* A frame is one activation of evaluate: fbreg evaluates the expression   *)
(* of its function's frame base in a new one.  The top of a stack is its   *)
(* head, and so is the innermost frame.  An exception ends the evaluation  *)
(* in all its frames.                                                      *)
(***************************************************************************)
EXTENDS Cursor, SequencesExt

CONSTANTS
    Exprs,        \* the expressions, [code, base]: bytes, and the frame base
                  \* that fbreg finds, as a sequence of at most one
    FrameBases,   \* and those that are frame bases
    Arguments,    \* the argument lists evaluate is called with, first on top
    Registers,    \* ctx->reg, on the registers the debugger knows
    Memory,       \* the debuggee's words
    LoadAddress,  \* m_load_address
    AddrSize,     \* subsec->addr_size, one of those that can be read: any other
                  \* makes cursor::address throw at DW_OP_addr
    CfaRegister,  \* the frame pointer's number: 6 on x86-64, 29 on aarch64
    CfaOffset     \* and what call_frame_cfa adds: 16 on x86-64, 0 on aarch64

(* A DIE without DW_AT_frame_base, in the place of a frame base.           *)
NoFrameBase == [code |-> <<>>, base |-> <<>>, missing |-> TRUE]

ASSUME DwarfExprAssumption ==
    /\ \A e \in Exprs \union FrameBases :
          e.code \in Seq(Byte) /\ e.base \in Seq(FrameBases) /\ Len(e.base) <= 1
    /\ WordBits >= 5   \* a literal and a register's number are words
    /\ Arguments \subseteq Seq(Word)
    /\ Registers \in [DOMAIN Registers -> Word]
    /\ CfaRegister \in DOMAIN Registers
    /\ Memory \in [Word -> Word]
    /\ LoadAddress \in Word /\ AddrSize \in {1, 2, 4, 8} /\ CfaOffset \in Word

VARIABLES
    expression,  \* the expression asked for
    arguments,   \* its arguments
    frames,      \* the activations, innermost first
    outcome      \* "running", "result", or how the evaluation failed

vars == <<expression, arguments, frames, outcome>>

DW_OP == [addr |-> 3, deref |-> 6, const1u |-> 8, const1s |-> 9, const2u |-> 10,
          const2s |-> 11, const4u |-> 12, const4s |-> 13, const8u |-> 14, const8s |-> 15,
          constu |-> 16, consts |-> 17, dup |-> 18, drop |-> 19, over |-> 20, pick |-> 21,
          swap |-> 22, rot |-> 23, xderef |-> 24, abs |-> 25, and |-> 26, div |-> 27,
          minus |-> 28, mod |-> 29, mul |-> 30, neg |-> 31, not |-> 32, or |-> 33,
          plus |-> 34, plus_uconst |-> 35, shl |-> 36, shr |-> 37, shra |-> 38,
          xor |-> 39, bra |-> 40, eq |-> 41, ge |-> 42, gt |-> 43, le |-> 44, lt |-> 45,
          ne |-> 46, skip |-> 47, lit0 |-> 48, reg0 |-> 80, breg0 |-> 112, regx |-> 144,
          fbreg |-> 145, bregx |-> 146, piece |-> 147, deref_size |-> 148,
          xderef_size |-> 149, nop |-> 150, push_object_address |-> 151, call2 |-> 152,
          call4 |-> 153, call_ref |-> 154, form_tls_address |-> 155,
          call_frame_cfa |-> 156, bit_piece |-> 157, implicit_value |-> 158,
          stack_value |-> 159]

Literals    == DW_OP.lit0 .. DW_OP.lit0 + 31
Constants   == {DW_OP.addr} \union DW_OP.const1u .. DW_OP.consts
RegisterOps == DW_OP.reg0 .. DW_OP.reg0 + 31
BaseOps     == DW_OP.breg0 .. DW_OP.breg0 + 31
Unaries     == {DW_OP.abs, DW_OP.neg, DW_OP.not, DW_OP.plus_uconst}
Divisions   == {DW_OP.div, DW_OP.mod}
Binaries    == {DW_OP.and, DW_OP.minus, DW_OP.mul, DW_OP.or, DW_OP.plus,
                DW_OP.shl, DW_OP.shr, DW_OP.shra, DW_OP.xor}
Comparisons == DW_OP.eq .. DW_OP.ne
Unimplemented == {DW_OP.push_object_address, DW_OP.call2, DW_OP.call4, DW_OP.call_ref,
                  DW_OP.piece, DW_OP.bit_piece}
\* Operations ptrace_expr_context does not provide.
Unsupported == {DW_OP.xderef, DW_OP.xderef_size, DW_OP.form_tls_address}
Supported   == Literals \union Constants \union RegisterOps \union BaseOps
                 \union Unaries \union Divisions \union Binaries \union Comparisons
                 \union {DW_OP.deref, DW_OP.deref_size, DW_OP.dup, DW_OP.drop, DW_OP.over,
                         DW_OP.pick, DW_OP.swap, DW_OP.rot, DW_OP.bra, DW_OP.skip,
                         DW_OP.regx, DW_OP.fbreg, DW_OP.bregx, DW_OP.nop,
                         DW_OP.call_frame_cfa, DW_OP.implicit_value, DW_OP.stack_value}

Failures == {"expr_error", "underflow_error", "out_of_range", "runtime_error", "SIGFPE",
             "before_begin"}

(* What an operation reads from the code before it does anything else.     *)
OperandAt(op, code, pos) ==
    CASE op = DW_OP.addr -> Fixed(code, pos, AddrSize)
      [] op \in {DW_OP.const1u, DW_OP.pick, DW_OP.deref_size, DW_OP.xderef_size} ->
            Fixed(code, pos, 1)
      [] op = DW_OP.const2u -> Fixed(code, pos, 2)
      [] op = DW_OP.const4u -> Fixed(code, pos, 4)
      [] op = DW_OP.const8u -> Fixed(code, pos, 8)
      [] op = DW_OP.const1s -> SignedFixed(code, pos, 1)
      [] op \in {DW_OP.const2s, DW_OP.skip, DW_OP.bra} -> SignedFixed(code, pos, 2)
      [] op = DW_OP.const4s -> SignedFixed(code, pos, 4)
      [] op = DW_OP.const8s -> SignedFixed(code, pos, 8)
      [] op \in {DW_OP.constu, DW_OP.plus_uconst, DW_OP.regx, DW_OP.implicit_value} ->
            Uleb128(code, pos)
      [] op \in {DW_OP.consts} \union BaseOps -> Sleb128(code, pos)
      [] op = DW_OP.bregx ->
            LET register == Uleb128(code, pos)
                offset   == Sleb128(code, register.pos)
            IN  [offset EXCEPT !.ok = register.ok /\ @]
      [] OTHER -> [ok |-> TRUE, value |-> 0, pos |-> pos]

(* The entries CHECK and CHECKN ask for.  pick reads one entry more than   *)
(* the n it asks for.                                                      *)
Needed(op, n) ==
    CASE op \in Unaries \union {DW_OP.dup, DW_OP.drop, DW_OP.deref, DW_OP.deref_size,
                                DW_OP.bra, DW_OP.stack_value} -> 1
      [] op \in Binaries \union Divisions \union Comparisons
                  \union {DW_OP.over, DW_OP.swap} -> 2
      [] op = DW_OP.rot -> 3
      [] op = DW_OP.pick -> n
      [] OTHER -> 0

-----------------------------------------------------------------------------
Activation(e, stack) ==
    [code |-> e.code, base |-> e.base, pos |-> 0, stack |-> stack,
     location_type |-> IF e.code = <<>> THEN "empty" ELSE "address", value |-> 0]

Init ==
    /\ expression \in Exprs
    /\ arguments \in Arguments
    /\ frames = <<Activation(expression, arguments)>>
    /\ outcome = "running"

frame     == Head(frames)
stack     == frame.stack
operation == ByteAt(frame.code, frame.pos)
operand   == OperandAt(operation, frame.code, frame.pos + 1)

(* The loop of evaluate at one of ops.                                     *)
At(ops) ==
    /\ outcome = "running"
    /\ frame.pos >= 0 /\ ~AtEnd(frame.code, frame.pos)
    /\ operation \in ops

(* The same, with the operand read and enough entries on the stack.        *)
Performs(ops) ==
    /\ At(ops)
    /\ operand.ok
    /\ Len(stack) >= Needed(operation, operand.value)

EndWith(what) ==
    /\ outcome' = what
    /\ UNCHANGED <<expression, arguments, frames>>

Become(f) ==
    /\ frames' = <<f>> \o Tail(frames)
    /\ UNCHANGED <<expression, arguments, outcome>>

Continue(s) == Become([frame EXCEPT !.pos = operand.pos, !.stack = s])
Push(w) == Continue(Cons(w, stack))

-----------------------------------------------------------------------------
(* Errors                                                                  *)

ReadPastEnd ==
    /\ At(Supported \union Unsupported)
    /\ ~operand.ok
    /\ EndWith("underflow_error")

StackUnderflow ==
    /\ At(Supported)
    /\ operand.ok
    /\ Len(stack) < Needed(operation, operand.value)
    /\ EndWith("expr_error")

Refuse ==
    \/ At(Unimplemented) /\ EndWith("runtime_error")
    \/ At(Unsupported) /\ operand.ok /\ EndWith("expr_error")
    \/ At(Byte \ (Supported \union Unimplemented \union Unsupported)) /\ EndWith("expr_error")

-----------------------------------------------------------------------------
(* Values and registers                                                    *)

PushLiteral == Performs(Literals) /\ Push(operation - DW_OP.lit0)
PushConstant == Performs(Constants) /\ Push(operand.value)

(* The register and offset of a register-based address.                    *)
BaseRegister ==
    CASE operation \in BaseOps -> operation - DW_OP.breg0
      [] operation = DW_OP.bregx -> Uleb128(frame.code, frame.pos + 1).value
      [] operation = DW_OP.call_frame_cfa -> CfaRegister
BaseOffset == IF operation = DW_OP.call_frame_cfa THEN CfaOffset ELSE operand.value

PushRegister ==
    /\ Performs(BaseOps \union {DW_OP.bregx, DW_OP.call_frame_cfa})
    /\ IF BaseRegister \in DOMAIN Registers
       THEN Push(Wrapped(Registers[BaseRegister] + BaseOffset))
       ELSE EndWith("out_of_range")

(* fbreg looks for a child of the unit's root that contains the expression.*)
(* If there is none, it leaves both the stack and its operand where they   *)
(* are: the operand is executed next.                                      *)
FindFrameBase ==
    /\ Performs({DW_OP.fbreg})
    /\ CASE frame.base = <<>> -> Continue(stack)
         [] frame.base = <<NoFrameBase>> -> EndWith("out_of_range")
         [] OTHER ->
              /\ frames' = <<Activation(Head(frame.base), <<>>)>> \o frames
              /\ UNCHANGED <<expression, arguments, outcome>>

(* The frame base is known, and the caller reads the offset from it.       *)
UseFrameBase ==
    LET caller == frames[2]
        offset == Sleb128(caller.code, caller.pos + 1)
        value  == IF frame.location_type = "address" THEN Head(stack)
                  ELSE Registers[frame.value]
    IN  CASE frame.location_type \notin {"reg", "address"} -> EndWith("expr_error")
          [] ~offset.ok -> EndWith("underflow_error")
          [] frame.location_type = "reg" /\ frame.value \notin DOMAIN Registers ->
                EndWith("out_of_range")
          [] OTHER ->
               /\ frames' = <<[caller EXCEPT !.pos = offset.pos,
                                             !.stack = Cons(Wrapped(value + offset.value), @)]>>
                             \o Tail(Tail(frames))
               /\ UNCHANGED <<expression, arguments, outcome>>

(* deref_size reads a whole word whatever its size.                        *)
Dereference ==
    /\ Performs({DW_OP.deref, DW_OP.deref_size})
    /\ IF operand.value > AddrSize
       THEN EndWith("expr_error")
       ELSE Continue(Cons(Memory[Wrapped(Head(stack) + LoadAddress)], Tail(stack)))

-----------------------------------------------------------------------------
(* The stack                                                               *)

Dup  == Performs({DW_OP.dup}) /\ Push(stack[1])
Drop == Performs({DW_OP.drop}) /\ Continue(Tail(stack))
Over == Performs({DW_OP.over}) /\ Push(stack[2])
Swap == Performs({DW_OP.swap}) /\ Continue(<<stack[2], stack[1]>> \o SubSeq(stack, 3, Len(stack)))
Rot  ==
    /\ Performs({DW_OP.rot})
    /\ Continue(<<stack[2], stack[3], stack[1]>> \o SubSeq(stack, 4, Len(stack)))

(* One entry below the bottom of the stack is whatever memory holds there. *)
Pick ==
    /\ Performs({DW_OP.pick})
    /\ \E w \in IF operand.value < Len(stack) THEN {stack[operand.value + 1]} ELSE Word :
          Push(w)

-----------------------------------------------------------------------------
(* Arithmetic                                                              *)

Places == 0 .. WordBits - 1
Bit(w, k) == (w \div 2 ^ k) % 2
WordOf(bits) == SumOf([k \in 1 .. WordBits |-> bits[k - 1] * 2 ^ (k - 1)], WordBits)

\* Mutant: not wrapped to a word.
NegatedUnwrapped(w) == -w

Negated(w) == Wrapped(-w)
ShiftedRight(w, n) == IF n < WordBits THEN w \div 2 ^ n ELSE 0

Unary(op, n, w) ==
    CASE op = DW_OP.abs -> IF IsNegative(w) THEN Negated(w) ELSE w
      [] op = DW_OP.neg -> Negated(w)
      [] op = DW_OP.not -> Modulus - 1 - w
      [] op = DW_OP.plus_uconst -> Wrapped(w + n)

(* u is the entry below the top t.                                         *)
Binary(op, u, t) ==
    CASE op = DW_OP.plus  -> Wrapped(u + t)
      [] op = DW_OP.minus -> Wrapped(u - t)
      [] op = DW_OP.mul   -> Wrapped(u * t)
      [] op = DW_OP.and   -> WordOf([k \in Places |-> Bit(u, k) * Bit(t, k)])
      [] op = DW_OP.or    -> WordOf([k \in Places |-> IF Bit(u, k) + Bit(t, k) > 0 THEN 1 ELSE 0])
      [] op = DW_OP.xor   -> WordOf([k \in Places |-> (Bit(u, k) + Bit(t, k)) % 2])
      [] op = DW_OP.shl   -> IF t < WordBits THEN Wrapped(u * 2 ^ t) ELSE 0
      [] op = DW_OP.shr   -> ShiftedRight(u, t)
      [] op = DW_OP.shra  -> IF IsNegative(u) THEN Negated(ShiftedRight(Negated(u), t))
                             ELSE ShiftedRight(u, t)

ReplaceTwo(w) == Continue(Cons(w, SubSeq(stack, 3, Len(stack))))

ComputeUnary ==
    /\ Performs(Unaries)
    /\ Continue(Cons(Unary(operation, operand.value, stack[1]), Tail(stack)))

ComputeBinary ==
    /\ Performs(Binaries)
    /\ ReplaceTwo(Binary(operation, stack[2], stack[1]))

(* The quotient of signed words, towards zero.                             *)
Quotient(a, b) ==
    LET Size(v) == IF v < 0 THEN -v ELSE v
        size == Size(a) \div Size(b)
    IN  IF (a < 0) = (b < 0) THEN size ELSE -size

(* div divides the top by the entry below it; an x86-64 processor traps on *)
(* a zero divisor and on the one quotient that does not fit.               *)
Divide ==
    /\ Performs({DW_OP.div})
    /\ LET a == Signed(stack[1])
           b == Signed(stack[2])
       IN  IF b = 0 \/ (b = -1 /\ stack[1] = Modulus \div 2)
           THEN EndWith("SIGFPE")
           ELSE ReplaceTwo(Wrapped(Quotient(a, b)))

Remainder ==
    /\ Performs({DW_OP.mod})
    /\ IF stack[1] = 0
       THEN EndWith("SIGFPE")
       ELSE ReplaceTwo(stack[2] % stack[1])

(* Whatever the comparison, the code tests for <=.                         *)
Compare ==
    /\ Performs(Comparisons)
    /\ ReplaceTwo(IF Signed(stack[2]) <= Signed(stack[1]) THEN 1 ELSE 0)

-----------------------------------------------------------------------------
(* Jumps and results                                                       *)

\* Mutant: the offset is counted from the start of the code.
JumpTargetFromStart == Signed(operand.value)

JumpTarget == operand.pos + Signed(operand.value)

Skip == Performs({DW_OP.skip}) /\ Become([frame EXCEPT !.pos = JumpTarget])

\* Mutant: the condition stays on the stack when the branch is not taken.
BranchKeepingCondition ==
    /\ Performs({DW_OP.bra})
    /\ IF Head(stack) = 0
       THEN Become([frame EXCEPT !.pos = operand.pos])
       ELSE Become([frame EXCEPT !.stack = Tail(stack), !.pos = JumpTarget])

Branch ==
    /\ Performs({DW_OP.bra})
    /\ Become([frame EXCEPT !.stack = Tail(stack),
                            !.pos = IF Head(stack) = 0 THEN operand.pos ELSE JumpTarget])

Nop == Performs({DW_OP.nop}) /\ Continue(stack)

(* A jump before the first byte: the unit's bytes there are executed.      *)
LeaveCode ==
    /\ outcome = "running"
    /\ frame.pos < 0
    /\ EndWith("before_begin")

Locate(type, value) ==
    Become([frame EXCEPT !.pos = operand.pos, !.location_type = type, !.value = value])

RegisterLocation ==
    \/ Performs(RegisterOps) /\ Locate("reg", operation - DW_OP.reg0)
    \/ Performs({DW_OP.regx}) /\ Locate("reg", operand.value)

StackValue == Performs({DW_OP.stack_value}) /\ Locate("literal", Head(stack))

(* The block is checked to lie in the code, and then executed.             *)
ImplicitValue ==
    /\ Performs({DW_OP.implicit_value})
    /\ IF Ensured(frame.code, operand.pos, operand.value)
       THEN Locate("implicit", frame.value)
       ELSE EndWith("underflow_error")

(* The end of the code: the top of the stack, if the result is an address. *)
Finish ==
    /\ outcome = "running"
    /\ AtEnd(frame.code, frame.pos)
    /\ IF frame.location_type = "address" /\ stack = <<>> THEN EndWith("expr_error")
       ELSE IF Len(frames) > 1 THEN UseFrameBase
       ELSE EndWith("result")

Next ==
    \/ ReadPastEnd \/ StackUnderflow \/ Refuse
    \/ PushLiteral \/ PushConstant \/ PushRegister \/ FindFrameBase \/ Dereference
    \/ Dup \/ Drop \/ Over \/ Swap \/ Rot \/ Pick
    \/ ComputeUnary \/ ComputeBinary \/ Divide \/ Remainder \/ Compare
    \/ Skip \/ Branch \/ Nop \/ LeaveCode
    \/ RegisterLocation \/ StackValue \/ ImplicitValue \/ Finish

Spec == Init /\ [][Next]_vars /\ WF_vars(Next)

-----------------------------------------------------------------------------
(* What evaluate returns.                                                  *)
Result ==
    [type  |-> frame.location_type,
     value |-> IF frame.location_type = "address" THEN Head(stack) ELSE frame.value]

(* Types: entries and results are machine words.                           *)
TypeOK ==
    /\ outcome \in {"running", "result"} \union Failures
    /\ Len(frames) >= 1
    /\ \A k \in DOMAIN frames :
          /\ frames[k].pos \in Int
          /\ \A j \in DOMAIN frames[k].stack : frames[k].stack[j] \in Word
          /\ frames[k].location_type \in {"address", "reg", "literal", "implicit", "empty"}
          /\ frames[k].value \in Word

(* Only a jump takes the evaluation behind the end of its code: operands   *)
(* are read within it (cursor::ensure and the LEB128 readers), also after  *)
(* a frame base was evaluated between an opcode and its operand.           *)
ReadsStayInCode ==
    [][ frames' # frames /\ operation \notin {DW_OP.skip, DW_OP.bra}
          => Head(frames').pos <= Len(Head(frames').code) ]_vars

(* The loop of evaluate ends, for expressions whose jumps go forward or    *)
(* whose loops count down: with a result or an exception.                  *)
EvaluationEnds == <>(outcome # "running")
===============================================================================
