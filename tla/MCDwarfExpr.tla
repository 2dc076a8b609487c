----------------------------- MODULE MCDwarfExpr -----------------------------
(* Expressions for DwarfExpr.tla, on a machine of ten-bit words: the         *)
(* bytecode of trees, and short sequences of bytes that no compiler emits.   *)
(* The trees leave out the operations in which the code departs from the     *)
(* standard: div, the comparisons other than le, shra where it rounds.       *)
EXTENDS ExprTree

MCRegisters == (6 :> 700) @@ (40 :> 9)
MCMemory == [w \in Word |-> (3 * w + 1) % Modulus]

\* A frame base and the address it means.
TreeBases == {[code |-> <<DW_OP.call_frame_cfa>>, base |-> <<>>, value |-> 716],
              [code |-> <<DW_OP.reg0 + 6>>, base |-> <<>>, value |-> 700],
              [code |-> <<DW_OP.breg0 + 6, 120>>, base |-> <<>>, value |-> 692]}

Leaves == {Lit(1), Lit(200), Lit(1020), Lit(-2), Argument, Based(6, -70), Based(40, 2),
           FrameBased(-20)}
FewLeaves == {Lit(1), Argument, FrameBased(-20)}

Simple ==
    {Un(op, l) : op \in Unaries \ {DW_OP.plus_uconst}, l \in Leaves}
      \union {PlusConst(l, 100) : l \in Leaves}
      \union {Deref(l) : l \in Leaves}
      \union {Bin(op, l, r) : op \in (Binaries \ {DW_OP.shra}) \union {DW_OP.le},
                             l \in Leaves, r \in Leaves}
      \union {Bin(DW_OP.mod, l, Lit(200)) : l \in Leaves}
      \union {Bin(DW_OP.shra, Lit(200), Lit(n)) : n \in {1, 200}}
      \union {Bin(DW_OP.shra, Lit(1020), Lit(1)), Countdown(1), Countdown(3)}
Composed(S) ==
    {Swapped(op, l, r) : op \in {DW_OP.minus, DW_OP.le}, l \in S, r \in S}
      \union {Discard(l, r) : l \in S, r \in S}
      \union {Rotated(x, y, z) : x \in S, y \in S, z \in S}
      \union {If(c, t, e) : c \in S, t \in S, e \in S}
Nested == {Bin(DW_OP.minus, Argument, Lit(1)), Deref(FrameBased(-20)),
           If(Argument, Lit(1), FrameBased(3)), Rotated(Lit(3), Argument, Lit(1)), Countdown(2)}
Trees == Leaves \union Simple \union Composed(FewLeaves) \union Composed(Nested)

\* One frame base is enough where none is used.
BasesOf(code) ==
    IF DW_OP.fbreg \in ToSet(code) THEN TreeBases
    ELSE {f \in TreeBases : f.code = <<DW_OP.call_frame_cfa>>}
TreeExprs == UNION {{[code |-> Code(t, 0), base |-> <<b>>, tree |-> t] : b \in BasesOf(Code(t, 0))} :
                    t \in Trees}

\* Bytes with every kind of operand, some of them cut off, and failures.
Bytes == {DW_OP.lit0 + 1, DW_OP.const2u, DW_OP.constu, 200, DW_OP.bregx, DW_OP.div,
          DW_OP.fbreg, DW_OP.reg0 + 28, DW_OP.implicit_value, DW_OP.stack_value}
Odd == {<<DW_OP.skip>> \o Half(-9), <<DW_OP.skip>> \o Half(9), <<DW_OP.regx, 40, DW_OP.nop>>,
        <<DW_OP.lit0, DW_OP.deref_size, 9>>, <<DW_OP.lit0, DW_OP.lit0, DW_OP.mod>>,
        <<DW_OP.const4u, 1, 2, 3>>, <<DW_OP.xderef>>, <<DW_OP.call2, 0, 0>>,
        <<DW_OP.implicit_value, 1, DW_OP.nop>>, <<DW_OP.drop>>, <<DW_OP.drop, DW_OP.swap>>}
RawBases == {NoFrameBase, [code |-> <<DW_OP.reg0 + 6>>, base |-> <<>>],
             [code |-> <<DW_OP.lit0, DW_OP.stack_value>>, base |-> <<>>]}
RawExprs == {[code |-> c, base |-> b] :
                c \in BoundedSeq(Bytes, 3) \union Odd, b \in BoundedSeq(RawBases, 1)}

MCExprs == TreeExprs \union RawExprs
MCFrameBases == TreeBases \union RawBases
MCArguments == {<<0>>, <<1000>>}
=============================================================================
