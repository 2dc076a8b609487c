------------------------------- MODULE ExprTree ------------------------------
(***************************************************************************)
(* What DWARF expressions mean, independently of the machine that runs     *)
(* them: expressions as trees, their values by the operations' definitions *)
(* in the DWARF standard (section 2.5.1), and their translation into       *)
(* bytecode as a compiler would emit it.  DwarfExpr is checked to compute, *)
(* for the bytecode of a tree, the tree's value.                           *)
(***************************************************************************)
EXTENDS DwarfExpr

Lit(n)           == [node |-> "lit", n |-> n]          \* a constant
Argument         == [node |-> "argument"]              \* evaluate's argument
Based(r, n)      == [node |-> "based", r |-> r, n |-> n]
FrameBased(n)    == [node |-> "frame", n |-> n]
Deref(t)         == [node |-> "deref", t |-> t]
Un(op, t)        == [node |-> "unary", op |-> op, t |-> t]
PlusConst(t, n)  == [node |-> "plus_uconst", t |-> t, n |-> n]
Bin(op, l, r)    == [node |-> "binary", op |-> op, l |-> l, r |-> r]
Swapped(op, l, r) == [node |-> "swapped", op |-> op, l |-> l, r |-> r]
Discard(l, r)    == [node |-> "discard", l |-> l, r |-> r]  \* r is dropped
Rotated(a, b, c) == [node |-> "rotated", a |-> a, b |-> b, c |-> c]  \* c - (a - b)
If(c, t, e)      == [node |-> "if", c |-> c, t |-> t, e |-> e]
Countdown(n)     == [node |-> "countdown", n |-> n]    \* a loop, down to 0

-----------------------------------------------------------------------------
(* Values                                                                  *)

Bits(w) == {k \in 0 .. WordBits - 1 : (w \div 2 ^ k) % 2 = 1}
FromBits(S) == MapThenSumSet(LAMBDA k : 2 ^ k, S)
Truth(b) == IF b THEN 1 ELSE 0

UnaryValue(op, v) ==
    CASE op = DW_OP.neg -> (Modulus - v) % Modulus
      [] op = DW_OP.abs -> IF v < Modulus \div 2 THEN v ELSE Modulus - v
      [] op = DW_OP.not -> FromBits((0 .. WordBits - 1) \ Bits(v))

BinaryValue(op, u, v) ==
    CASE op = DW_OP.plus  -> (u + v) % Modulus
      [] op = DW_OP.minus -> (u - v) % Modulus
      [] op = DW_OP.mul   -> (u * v) % Modulus
      [] op = DW_OP.mod   -> u - v * (u \div v)
      [] op = DW_OP.and   -> FromBits(Bits(u) \intersect Bits(v))
      [] op = DW_OP.or    -> FromBits(Bits(u) \union Bits(v))
      [] op = DW_OP.xor   -> FromBits(SymDiff(Bits(u), Bits(v)))
      [] op = DW_OP.shl   -> FromBits({k + v : k \in {j \in Bits(u) : j + v < WordBits}})
      [] op = DW_OP.shr   -> FromBits({k - v : k \in {j \in Bits(u) : j >= v}})
      [] op = DW_OP.shra  -> IF v < WordBits THEN (Signed(u) \div 2 ^ v) % Modulus
                             ELSE IF Signed(u) < 0 THEN Modulus - 1 ELSE 0
      [] op = DW_OP.le    -> Truth(Signed(u) <= Signed(v))

(* With the argument a and the frame base b.                               *)
RECURSIVE ValueOf(_, _, _)
ValueOf(t, a, b) ==
    CASE t.node = "lit"         -> t.n % Modulus
      [] t.node = "argument"    -> a
      [] t.node = "based"       -> (Registers[t.r] + t.n) % Modulus
      [] t.node = "frame"       -> (b + t.n) % Modulus
      [] t.node = "deref"       -> Memory[ValueOf(t.t, a, b)]
      [] t.node = "unary"       -> UnaryValue(t.op, ValueOf(t.t, a, b))
      [] t.node = "plus_uconst" -> (ValueOf(t.t, a, b) + t.n) % Modulus
      [] t.node \in {"binary", "swapped"} ->
            BinaryValue(t.op, ValueOf(t.l, a, b), ValueOf(t.r, a, b))
      [] t.node = "discard"     -> ValueOf(t.l, a, b)
      [] t.node = "rotated"     ->
            (ValueOf(t.c, a, b) - (ValueOf(t.a, a, b) - ValueOf(t.b, a, b))) % Modulus
      [] t.node = "if"          ->
            IF ValueOf(t.c, a, b) # 0 THEN ValueOf(t.t, a, b) ELSE ValueOf(t.e, a, b)
      [] t.node = "countdown"   -> 0

-----------------------------------------------------------------------------
(* Bytecode                                                                *)

Sleb(n) == IF n \in -64 .. 63 THEN <<n % 128>>
           ELSE <<128 + (n % 128), (n \div 128) % 128>>
Half(n) == <<n % 256, (n \div 256) % 256>>

Constant(n) ==
    CASE n \in 0 .. 31    -> <<DW_OP.lit0 + n>>
      [] n \in 32 .. 127  -> <<DW_OP.const1u, n>>
      [] n \in 128 .. 299 -> <<DW_OP.constu>> \o <<128 + (n % 128), n \div 128>>
      [] n >= 300         -> <<DW_OP.const2u>> \o Half(n)
      [] n \in -64 .. -1  -> <<DW_OP.const1s, n % 256>>
      [] n < -64          -> <<DW_OP.consts>> \o Sleb(n)

(* The code of t with d entries on the stack above the argument.           *)
RECURSIVE Code(_, _)
Code(t, d) ==
    CASE t.node = "lit"         -> Constant(t.n)
      [] t.node = "argument"    ->
            CASE d = 0 -> <<DW_OP.dup>> [] d = 1 -> <<DW_OP.over>>
              [] OTHER -> <<DW_OP.pick, d>>
      [] t.node = "based"       ->
            IF t.r < 32 THEN <<DW_OP.breg0 + t.r>> \o Sleb(t.n)
            ELSE <<DW_OP.bregx, t.r>> \o Sleb(t.n)
      [] t.node = "frame"       -> <<DW_OP.fbreg>> \o Sleb(t.n)
      [] t.node = "deref"       -> Append(Code(t.t, d), DW_OP.deref)
      [] t.node = "unary"       -> Append(Code(t.t, d), t.op)
      [] t.node = "plus_uconst" -> Code(t.t, d) \o <<DW_OP.plus_uconst, t.n>>
      [] t.node = "binary"      -> Code(t.l, d) \o Append(Code(t.r, d + 1), t.op)
      [] t.node = "swapped"     -> Code(t.r, d) \o Code(t.l, d + 1) \o <<DW_OP.swap, t.op>>
      [] t.node = "discard"     -> Code(t.l, d) \o Append(Code(t.r, d + 1), DW_OP.drop)
      [] t.node = "rotated"     ->
            Code(t.a, d) \o Code(t.b, d + 1) \o Code(t.c, d + 2)
              \o <<DW_OP.rot, DW_OP.minus, DW_OP.minus>>
      [] t.node = "if"          ->
            LET then == Code(t.t, d)
                else == Code(t.e, d)
            IN  Code(t.c, d) \o <<DW_OP.bra>> \o Half(Len(else) + 3)
                  \o else \o <<DW_OP.skip>> \o Half(Len(then)) \o then
      [] t.node = "countdown"   ->
            Constant(t.n) \o <<DW_OP.lit0 + 1, DW_OP.minus, DW_OP.dup, DW_OP.bra>> \o Half(-6)

-----------------------------------------------------------------------------
(* An expression that a compiler emitted for a tree is evaluated without   *)
(* an exception, and its result is the address the tree means, whatever    *)
(* lies beneath it on the stack and through the evaluation of the frame    *)
(* base (expr::evaluate as documented in dwarf.hpp).                       *)
ResultIsValue ==
    "tree" \in DOMAIN expression =>
      /\ outcome \notin Failures
      /\ outcome = "result" =>
            Result = [type  |-> "address",
                      value |-> ValueOf(expression.tree, Head(arguments),
                                        Head(expression.base).value)]
===============================================================================
