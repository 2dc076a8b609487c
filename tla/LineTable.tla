------------------------------ MODULE LineTable ------------------------------
(***************************************************************************)
(* Looking an address up in a line table (src/dwarf/line.cpp).  A table is *)
(* the sequence of rows its line number program emits, each with the       *)
(* address it starts at, its line and whether it ends a sequence.          *)
(*                                                                         *)
(* An iterator is the offset behind the opcode that emitted its row, so    *)
(* the iterator at the last row, which the program's last opcode emits,    *)
(* equals end() and a loop that runs to end() never looks at that row.     *)
(***************************************************************************)
EXTENDS Integers, Sequences, FiniteSetsExt

NoRow == 0             \* end()

Row == [address : Int, line : Int, end_sequence : BOOLEAN]

(* find_address: the loop walks prev and it = prev + 1 while it # end().   *)
FindAddress(rows, addr) ==
    LET found == {i \in 1 .. Len(rows) - 2 :
                    /\ rows[i].address <= addr /\ addr < rows[i + 1].address
                    /\ ~rows[i].end_sequence}
    IN  IF found = {} THEN NoRow ELSE Min(found)

(* What the header says of it: the row containing addr, from its address   *)
(* up to the next row's in the same sequence, or end() if there is none.   *)
Covers(rows, i, addr) ==
    /\ i \in 1 .. Len(rows) - 1
    /\ ~rows[i].end_sequence
    /\ rows[i].address <= addr /\ addr < rows[i + 1].address
===============================================================================
