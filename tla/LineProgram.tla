----------------------------- MODULE LineProgram -----------------------------
(***************************************************************************)
(* Reading a line table (src/dwarf/line.cpp): the table is stored as a     *)
(* line number program, and a line_table::iterator is the machine that     *)
(* runs it, one row at a time.  find_address and get_file walk such        *)
(* iterators, and each walk runs the program again from its start.         *)
(*                                                                         *)
(* What every walk shares is the file table: the program may add to it     *)
(* (define_file), so the same opcode is met by every walk and must add its *)
(* file once.  (A row also keeps a pointer into that growing vector, which *)
(* is left out: see the README.)                                           *)
(*                                                                         *)
(* Of the registers, discriminator stands for the four that are cleared    *)
(* behind each row, column for those (and isa) that keep their value.      *)
(***************************************************************************)
EXTENDS LineTable, SequencesExt

CONSTANTS
    Programs,      \* the line number programs, as sequences of opcodes [op, n]
    Queries,       \* the addresses find_address is asked for
    Indices,       \* the file indices get_file is asked for
    MinLength,     \* minimum_instruction_length
    MaxOps,        \* maximum_operations_per_instruction
    OpcodeBase,    \* opcode_base
    LineBase,      \* line_base
    LineRange,     \* line_range
    DefaultIsStmt, \* default_is_stmt
    Header,        \* the file names the header lists, behind the unit's own
    Lines,         \* what an unsigned line number is counted modulo
    MaxWalks       \* bound: the walks over one table

Standard == {"advance_pc", "const_add_pc", "fixed_advance_pc", "advance_line", "set_file",
             "set_column", "negate_stmt", "set_discriminator", "set_address"}
Opcodes == Standard \union {"special", "copy", "end_sequence", "define_file"}

ASSUME LineProgramAssumption ==
    /\ Programs \subseteq Seq([op : Opcodes, n : Int])
    /\ \A p \in Programs : \A k \in DOMAIN p :
          /\ p[k].op # "advance_line" => p[k].n \in Nat
          /\ p[k].op = "special" => p[k].n >= OpcodeBase
    /\ Queries \subseteq Nat
    /\ Indices \subseteq Nat
    /\ MaxOps \in Nat \ {0}
    /\ LineRange \in Nat \ {0}
    /\ MinLength \in Nat
    /\ LineBase \in Int
    /\ OpcodeBase \in 1 .. 255
    /\ DefaultIsStmt \in BOOLEAN
    /\ Header \in Nat
    /\ Lines \in Nat \ {0, 1}
    /\ MaxWalks \in Nat

VARIABLES
    program,              \* the table's program
    \* the table, shared by all walks
    file_names,           \* 0 for the unit and the header's, else the offset
                          \* behind the define_file opcode
    last_file_name_end,   \* the offset behind the last file name read
    file_names_complete,  \* whether a walk has reached the end
    \* the walk
    want,                 \* the address or the index it is for
    phase,                \* what it does
    cur, regs,            \* the iterator: where it reads, its registers,
    entry, pos,           \* the row it is at and the offset behind that row
    prev,                 \* find_address: the iterator before it
    walks                 \* how many walks began

table_vars == <<file_names, last_file_name_end, file_names_complete>>
vars == <<program, file_names, last_file_name_end, file_names_complete, want,
          phase, cur, regs, entry, pos, prev, walks>>

Phases == {"idle", "begin", "next", "scan", "found", "end", "got", "out_of_range",
           "format_error"}
Walking == {"begin", "next", "scan"}

Reset == [address |-> 0, op_index |-> 0, file_index |-> 1, line |-> 1, column |-> 0,
          is_stmt |-> DefaultIsStmt, end_sequence |-> FALSE, discriminator |-> 0]

Registers == [address : Nat, op_index : 0 .. MaxOps - 1, file_index : Nat,
              line : 0 .. Lines - 1, column : Nat, is_stmt : BOOLEAN,
              end_sequence : BOOLEAN, discriminator : Nat]

Init == /\ program \in Programs
        /\ file_names = [i \in 1 .. Header + 1 |-> 0]
        /\ last_file_name_end = 0
        /\ file_names_complete = FALSE
        /\ want = 0
        /\ phase = "idle"
        /\ cur = 0 /\ pos = 0
        /\ regs = Reset /\ entry = Reset
        /\ prev = [entry |-> Reset, pos |-> 0]
        /\ walks = 0

-------------------------------------------------------------------------------
(* The opcodes' effect on the registers.                                   *)

\* Mutant: op_index not wound back.
AdvancedUnreduced(r, n) ==
    [r EXCEPT !.address = @ + MinLength * ((r.op_index + n) \div MaxOps),
              !.op_index = r.op_index + n]

Advanced(r, n) ==
    [r EXCEPT !.address = @ + MinLength * ((r.op_index + n) \div MaxOps),
              !.op_index = (r.op_index + n) % MaxOps]

LineAdvanced(r, n) == [r EXCEPT !.line = (@ + n) % Lines]

SpecialLine(opcode)    == LineBase + ((opcode - OpcodeBase) % LineRange)
SpecialAdvance(opcode) == (opcode - OpcodeBase) \div LineRange

Executed(r, o) ==
    CASE o.op = "special"      -> LineAdvanced(Advanced(r, SpecialAdvance(o.n)), SpecialLine(o.n))
      [] o.op = "advance_pc"   -> Advanced(r, o.n)
      [] o.op = "const_add_pc" -> Advanced(r, (255 - OpcodeBase) \div LineRange)
      [] o.op = "fixed_advance_pc" -> [r EXCEPT !.address = @ + o.n, !.op_index = 0]
      [] o.op = "set_address"  -> [r EXCEPT !.address = o.n, !.op_index = 0]
      [] o.op = "advance_line" -> LineAdvanced(r, o.n)
      [] o.op = "set_file"     -> [r EXCEPT !.file_index = o.n]
      [] o.op = "set_column"   -> [r EXCEPT !.column = o.n]
      [] o.op = "negate_stmt"  -> [r EXCEPT !.is_stmt = ~@]
      [] o.op = "set_discriminator" -> [r EXCEPT !.discriminator = o.n]
      [] o.op = "end_sequence" -> [r EXCEPT !.end_sequence = TRUE]
      [] OTHER                 -> r

\* Mutant: the registers are not reset behind a sequence.
RegistersBehindRow(r, o) == [r EXCEPT !.discriminator = 0]

(* The registers behind an opcode that adds a row.                         *)
BehindRow(r, o) == IF o.op = "end_sequence" THEN Reset ELSE [r EXCEPT !.discriminator = 0]

Emits(o) == o.op \in {"special", "copy", "end_sequence"}

AtEnd(offset) == offset = Len(program)
Reading == phase \in Walking /\ ~AtEnd(cur)
Opcode  == program[cur + 1]
-------------------------------------------------------------------------------
(* The walks.  begin() runs the program to its first row, or nowhere if    *)
(* there is none; without a row begin() = end().                           *)

Begin(p, w) == /\ phase \in {"idle", "found", "end", "got"}
               /\ walks < MaxWalks
               /\ walks' = walks + 1
               /\ want' = w
               /\ phase' = p
               /\ cur' = 0 /\ pos' = 0
               /\ regs' = Reset /\ entry' = Reset
               /\ prev' = [entry |-> Reset, pos |-> 0]
               /\ UNCHANGED <<program, table_vars>>

FindAddressBegin(a) == Begin(IF program = <<>> THEN "end" ELSE "begin", a)

\* Mutant: get_file does not look for what the program defines.
GetFileOfHeader(i) == Begin(IF i < Len(file_names) THEN "got" ELSE "out_of_range", i)

(* get_file(i) runs the whole program if it has to.                        *)
GetFile(i) == Begin(IF i < Len(file_names) THEN "got"
                    ELSE IF file_names_complete \/ program = <<>> THEN "out_of_range"
                    ELSE "scan", i)

(* An opcode that adds no row; if it is the last the table is malformed.   *)
StandardOpcode ==
    /\ Reading
    /\ Opcode.op \in Standard
    /\ regs' = Executed(regs, Opcode)
    /\ cur' = cur + 1
    /\ phase' = IF AtEnd(cur') THEN "format_error" ELSE phase
    /\ UNCHANGED <<program, table_vars, want, entry, pos, prev, walks>>

\* Mutant: every walk adds the file.
DefineFileAgain ==
    /\ Reading
    /\ Opcode.op = "define_file"
    /\ cur' = cur + 1
    /\ file_names' = Append(file_names, cur')
    /\ phase' = IF AtEnd(cur') THEN "format_error" ELSE phase
    /\ UNCHANGED <<program, last_file_name_end, file_names_complete, want, regs, entry,
                   pos, prev, walks>>

DefineFile ==
    /\ Reading
    /\ Opcode.op = "define_file"
    /\ cur' = cur + 1
    /\ IF cur' <= last_file_name_end
         THEN UNCHANGED <<file_names, last_file_name_end>>
         ELSE /\ last_file_name_end' = cur'
              /\ file_names' = Append(file_names, cur')
    /\ phase' = IF AtEnd(cur') THEN "format_error" ELSE phase
    /\ UNCHANGED <<program, file_names_complete, want, regs, entry, pos, prev, walks>>

\* Mutant: a row that starts at the address itself is not taken.
BetweenStrictly(p, e) == p.address < want /\ e.address > want /\ ~p.end_sequence

(* find_address's test at a row that is not the last: prev is the row      *)
(* before it, that starts at or below the address while this starts above. *)
Between(p, e) == p.address <= want /\ e.address > want /\ ~p.end_sequence

(* An opcode that adds a row ends the increment; the walk goes on from the *)
(* row unless its file is out of range, or the walk is over.               *)
EmitRow ==
    LET row == Executed(regs, Opcode)
    IN  /\ Reading
        /\ Emits(Opcode)
        /\ cur' = cur + 1
        /\ regs' = BehindRow(row, Opcode)
        /\ file_names_complete' = (file_names_complete \/ AtEnd(cur'))
        /\ \/ /\ row.file_index >= Len(file_names)
              /\ phase' = "format_error"
              /\ UNCHANGED <<entry, pos, prev>>
           \/ /\ row.file_index < Len(file_names)
              /\ entry' = row
              /\ pos' = cur'
              /\ \/ /\ phase = "scan"
                    /\ phase' = IF ~AtEnd(pos') THEN "scan"
                                ELSE IF want < Len(file_names) THEN "got"
                                ELSE "out_of_range"
                    /\ UNCHANGED prev
                 \/ /\ phase # "scan" /\ AtEnd(pos')
                    /\ phase' = "end"
                    /\ UNCHANGED prev
                 \/ /\ phase # "scan" /\ ~AtEnd(pos')
                    /\ IF phase = "next" /\ Between(prev.entry, entry')
                         THEN phase' = "found" /\ UNCHANGED prev
                         ELSE phase' = "next" /\ prev' = [entry |-> entry', pos |-> pos']
        /\ UNCHANGED <<program, file_names, last_file_name_end, want, walks>>

Read == StandardOpcode \/ DefineFile \/ EmitRow

Next == Read \/ (\E a \in Queries : FindAddressBegin(a)) \/ (\E i \in Indices : GetFile(i))

Spec == Init /\ [][Next]_vars

-------------------------------------------------------------------------------
(* The table as the header comment and the DWARF standard have it: what    *)
(* each row is, from the opcodes of its sequence alone.                    *)

IsOp(k, ops)   == program[k].op \in ops
OpsIn(S, ops)  == {k \in S : IsOp(k, ops)}
Offsets        == 1 .. Len(program)
Emitting       == {k \in Offsets : Emits(program[k])}

(* The offsets that the sequence and the row of an opcode start behind.    *)
SequenceStart(j) == Max({0} \union OpsIn(1 .. j - 1, {"end_sequence"}))
RowStart(j)      == Max({0} \union (Emitting \intersect 1 .. j - 1))

LastIn(S, o, default) == LET at == OpsIn(S, {o})
                         IN  IF at = {} THEN default ELSE program[Max(at)].n

Operations(k) == CASE IsOp(k, {"special"})      -> SpecialAdvance(program[k].n)
                   [] IsOp(k, {"advance_pc"})   -> program[k].n
                   [] IsOp(k, {"const_add_pc"}) -> SpecialAdvance(255)
                   [] OTHER                     -> 0
LineStep(k) == CASE IsOp(k, {"special"})      -> SpecialLine(program[k].n)
                 [] IsOp(k, {"advance_line"}) -> program[k].n
                 [] OTHER                     -> 0

(* What the opcodes up to k advance by in all.                             *)
OperationsTo[k \in 0 .. Len(program)] ==
    IF k = 0 THEN 0 ELSE OperationsTo[k - 1] + Operations(k)
LinesTo[k \in 0 .. Len(program)] ==
    IF k = 0 THEN 0 ELSE LinesTo[k - 1] + LineStep(k)

(* The opcode that last set the address in so many words, if not the       *)
(* sequence's start; the operations counted since.                         *)
Setters == {"set_address", "fixed_advance_pc"}
LastSet(start, k) == Max({start} \union OpsIn(start + 1 .. k, Setters))
Counted(start, k) == OperationsTo[k] - OperationsTo[LastSet(start, k)]

(* The addresses behind the opcodes of the sequence.                       *)
Addresses(start) ==
    LET at[k \in start .. Len(program)] ==
            LET k0   == LastSet(start, k)
                base == IF k0 = start THEN 0
                        ELSE IF IsOp(k0, {"set_address"}) THEN program[k0].n
                        ELSE at[k0 - 1] + program[k0].n
            IN  base + MinLength * (Counted(start, k) \div MaxOps)
    IN  at

(* The registers behind opcode j of a sequence and a row.                  *)
RegistersBehind(start, row, j) ==
    [address       |-> Addresses(start)[j],
     op_index      |-> Counted(start, j) % MaxOps,
     file_index    |-> LastIn(start + 1 .. j, "set_file", 1),
     line          |-> (1 + LinesTo[j] - LinesTo[start]) % Lines,
     column        |-> LastIn(start + 1 .. j, "set_column", 0),
     is_stmt       |-> DefaultIsStmt = (Cardinality(OpsIn(start + 1 .. j, {"negate_stmt"})) % 2 = 0),
     end_sequence  |-> FALSE,
     discriminator |-> LastIn(row + 1 .. j, "set_discriminator", 0)]

RowAt(j) == [RegistersBehind(SequenceStart(j), RowStart(j), j)
               EXCEPT !.end_sequence = IsOp(j, {"end_sequence"})]

RowNumber(offset) == Cardinality(Emitting \intersect 1 .. offset)
AllRows == [i \in 1 .. Cardinality(Emitting) |->
              RowAt(CHOOSE k \in Emitting : RowNumber(k) = i)]

Defined == OpsIn(Offsets, {"define_file"})

-------------------------------------------------------------------------------
TypeOK == /\ program \in Programs
          /\ file_names \in Seq(Nat)
          /\ last_file_name_end \in 0 .. Len(program)
          /\ file_names_complete \in BOOLEAN
          /\ want \in Nat
          /\ phase \in Phases
          /\ cur \in 0 .. Len(program)
          /\ regs \in Registers
          /\ entry \in Registers
          /\ pos \in 0 .. cur
          /\ prev \in [entry : Registers, pos : 0 .. Len(program)]
          /\ walks \in 0 .. MaxWalks

(* The row an iterator is at is the one the program describes: the machine *)
(* neither loses nor keeps a register between rows, sequences and walks.   *)
Agrees(r, row) == \A field \in DOMAIN row : r[field] = row[field]
RowsAreStandard == pos > 0 => Agrees(entry, RowAt(pos))

(* Why: so are the registers between rows.                                 *)
RegistersAreStandard ==
    Agrees(regs, RegistersBehind(SequenceStart(cur + 1), RowStart(cur + 1), cur))

(* What find_address returns is what LineTable.tla's FindAddress says of   *)
(* the table's rows, if the table is well formed: its last opcode adds a   *)
(* row.                                                                    *)
WalkIsFindAddress ==
    program # <<>> /\ Emits(program[Len(program)]) =>
        /\ phase = "found" => FindAddress(AllRows, want) = RowNumber(prev.pos)
        /\ phase = "end"   => FindAddress(AllRows, want) = NoRow

(* Why: a walk has passed no row that it should have stopped at.           *)
Matches(i) == /\ AllRows[i].address <= want /\ want < AllRows[i + 1].address
              /\ ~AllRows[i].end_sequence
Passed == 1 .. RowNumber(prev.pos) - 1

WalkIsRight ==
    program # <<>> /\ Emits(program[Len(program)]) =>
        /\ phase = "begin" => RowNumber(cur) = 0
        /\ phase \in {"next", "found"} =>
              prev.pos \in Emitting /\ Agrees(prev.entry, RowAt(prev.pos))
        /\ phase = "next" => RowNumber(cur) = RowNumber(prev.pos)
        /\ phase = "found" =>
              Matches(RowNumber(prev.pos)) /\ RowNumber(prev.pos) < Cardinality(Emitting) - 1
        /\ phase \in {"next", "found"} => \A i \in Passed : ~Matches(i)
        /\ phase = "end" => \A i \in 1 .. Cardinality(Emitting) - 2 : ~Matches(i)

(* However many walks read the program, and wherever they stopped, every   *)
(* file it defines is in the table once, in the program's order, from the  *)
(* moment a walk has passed it; so file indices mean the same to all rows. *)
FilesAreAddedOnce ==
    /\ Len(file_names) > Header /\ \A i \in 1 .. Header + 1 : file_names[i] = 0
    /\ {file_names[i] : i \in Header + 2 .. Len(file_names)}
         = Defined \intersect 1 .. last_file_name_end
    /\ \A i, j \in Header + 1 .. Len(file_names) : i < j => file_names[i] < file_names[j]
    /\ Defined \intersect 1 .. cur \subseteq 1 .. last_file_name_end
    /\ file_names_complete => Defined \subseteq 1 .. last_file_name_end

(* get_file finds a file that the program defines anywhere, however far    *)
(* the table has been read, and throws only for one it does not.           *)
FileIsFound ==
    /\ phase = "got" => want <= Header + Cardinality(Defined)
    /\ phase = "out_of_range" => want > Header + Cardinality(Defined)

(* Why: the table is as long as the files read of the program make it, and *)
(* a walk that ends without the file has read them all.                    *)
FilesAreCounted ==
    /\ Len(file_names) = Header + 1 + Cardinality(Defined \intersect 1 .. last_file_name_end)
    /\ phase = "got" => want < Len(file_names)
    /\ phase = "out_of_range" =>
          want >= Len(file_names) /\ Defined \subseteq 1 .. last_file_name_end

(* find_address is documented to return the row that contains the address  *)
(* and end() only if there is none.                                        *)
LookupFindsTheRow ==
    phase = "end" => ~\E i \in DOMAIN AllRows : Covers(AllRows, i, want)
===============================================================================
