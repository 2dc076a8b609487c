---------------------------- MODULE MCLineProgram ----------------------------
(* Programs for LineProgram.tla, on a machine with two operations an        *)
(* instruction: short programs over all opcodes, longer ones over few.      *)
EXTENDS LineProgram

O(op, n) == [op |-> op, n |-> n]

\* opcode_base 13, line_base -1, line_range 4: 21 is two operations and a line
\* back, 19 one operation and a line on.
MCLineBase == -1
MCOpcodes == {O("special", 19), O("special", 21), O("copy", 0), O("advance_pc", 3),
              O("fixed_advance_pc", 3), O("set_address", 2), O("negate_stmt", 0),
              O("set_discriminator", 1), O("const_add_pc", 0), O("advance_line", -2),
              O("set_column", 4), O("set_file", 2), O("define_file", 0),
              O("end_sequence", 0)}
RegisterOpcodes == {O("special", 19), O("advance_pc", 3), O("fixed_advance_pc", 3),
                    O("set_discriminator", 1), O("end_sequence", 0)}
FileOpcodes == {O("special", 19), O("define_file", 0), O("set_file", 2), O("end_sequence", 0)}

\* Programs of up to n opcodes, those of n opcodes ending in a row.
ProgramsOver(alphabet, n) ==
    UNION {[1 .. k -> alphabet] : k \in 0 .. n - 1}
      \union {Append(p, o) : p \in [1 .. n - 1 -> alphabet],
                             o \in {x \in alphabet : Emits(x)}}

MCPrograms    == ProgramsOver(MCOpcodes, 3) \union ProgramsOver(RegisterOpcodes, 5)
                   \union ProgramsOver(FileOpcodes, 5)
PlainPrograms == ProgramsOver({O("special", 21), O("set_address", 2), O("end_sequence", 0)}, 3)
===============================================================================
