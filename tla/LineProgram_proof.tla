-------------------------- MODULE LineProgram_proof --------------------------
(* Theorems about LineProgram.tla: what walks over a line table leave in    *)
(* it, for every program and any number of walks.                           *)
EXTENDS LineProgram, NumberTheorems

(* The opcodes compute on registers.                                        *)
LEMMA ProgramFacts ==
    ASSUME program \in Programs
    PROVE  /\ Len(program) \in Nat /\ Offsets = DOMAIN program
           /\ \A k \in Offsets :
                 /\ program[k] \in [op : Opcodes, n : Int]
                 /\ program[k].op # "advance_line" => program[k].n \in Nat
                 /\ program[k].op = "special" => program[k].n >= OpcodeBase
  <1> DEFINE Coded == [op : Opcodes, n : Int]
  <1>1. program \in Seq(Coded)
    BY LineProgramAssumption
  <1> HIDE DEF Coded
  <1>2. Offsets = DOMAIN program /\ Len(program) \in Nat
    BY <1>1 DEF Offsets
  <1>3. \A k \in Offsets : program[k] \in Coded
    BY <1>1, <1>2
  <1>4. QED
    BY <1>2, <1>3, LineProgramAssumption DEF Coded

LEMMA AdvancedFacts ==
    ASSUME NEW r \in Registers, NEW n \in Nat
    PROVE  Advanced(r, n) \in Registers
  <1> DEFINE total == r.op_index + n
  <1>1. total \in Nat /\ r.address \in Nat /\ MaxOps \in Nat \ {0} /\ MinLength \in Nat
    BY LineProgramAssumption DEF Registers
  <1> HIDE DEF total
  <1>2. total \div MaxOps \in Nat /\ total % MaxOps \in 0 .. MaxOps - 1
    BY <1>1
  <1>3. \A x, y \in Nat : x * y \in Nat
    OBVIOUS
  <1>4. r.address + MinLength * (total \div MaxOps) \in Nat
    BY <1>1, <1>2, <1>3
  <1>5. QED
    BY <1>2, <1>4 DEF Advanced, Registers, total

LEMMA LineAdvancedFacts ==
    ASSUME NEW r \in Registers, NEW n \in Int
    PROVE  LineAdvanced(r, n) \in Registers
  <1>1. (r.line + n) % Lines \in 0 .. Lines - 1
    BY LineProgramAssumption DEF Registers
  <1>2. QED
    BY <1>1 DEF LineAdvanced, Registers

LEMMA ResetFacts == Reset \in Registers
  <1>1. DefaultIsStmt \in BOOLEAN
    BY LineProgramAssumption
  <1>2. 0 \in 0 .. MaxOps - 1 /\ 1 \in 0 .. Lines - 1
    BY LineProgramAssumption
  <1>3. QED
    BY <1>1, <1>2 DEF Reset, Registers

LEMMA ExecutedFacts ==
    ASSUME NEW r \in Registers, NEW o \in [op : Opcodes, n : Int],
           o.op # "advance_line" => o.n \in Nat, o.op = "special" => o.n >= OpcodeBase
    PROVE  Executed(r, o) \in Registers /\ BehindRow(r, o) \in Registers
  <1> USE DEF Executed
  <1>1. o.n \in Int /\ OpcodeBase \in 1 .. 255 /\ LineRange \in Nat \ {0} /\ LineBase \in Int
    BY LineProgramAssumption
  <1>2. BehindRow(r, o) \in Registers
    BY ResetFacts DEF BehindRow, Registers
  <1> SUFFICES Executed(r, o) \in Registers
    BY <1>2
  <1>3. CASE o.op = "special"
    <2>1. SpecialAdvance(o.n) \in Nat
      BY <1>1, <1>3 DEF SpecialAdvance
    <2>2. SpecialLine(o.n) \in Int
      BY <1>1, <1>3 DEF SpecialLine
    <2>3. QED
      BY <1>3, <2>1, <2>2, AdvancedFacts, LineAdvancedFacts
  <1>4. CASE o.op \in {"advance_pc", "const_add_pc"}
    <2>1. (255 - OpcodeBase) \div LineRange \in Nat
      BY <1>1
    <2>2. QED
      BY <1>4, <2>1, AdvancedFacts
  <1>5. CASE o.op = "advance_line"
    <2>1. LineAdvanced(r, o.n) \in Registers
      BY <1>1, LineAdvancedFacts
    <2>2. QED
      BY <1>5, <2>1
  <1>6. CASE o.op \in {"fixed_advance_pc", "set_address"}
    <2>1. r.address + o.n \in Nat /\ 0 \in 0 .. MaxOps - 1
      BY <1>1, <1>6, LineProgramAssumption DEF Registers
    <2>2. QED
      BY <1>1, <1>6, <2>1, ZenonT(40) DEF Registers
  <1>7. CASE o.op \in {"set_file", "set_column", "set_discriminator"}
    BY <1>1, <1>7 DEF Registers
  <1>8. CASE o.op \in {"negate_stmt", "end_sequence"}
    BY <1>8, ZenonT(40) DEF Registers
  <1>9. CASE o.op \in {"copy", "define_file"}
    BY <1>9
  <1>10. QED
    BY <1>3, <1>4, <1>5, <1>6, <1>7, <1>8, <1>9 DEF Opcodes, Standard

-------------------------------------------------------------------------------
LEMMA TypeInit == Init => TypeOK
  <1>1. SUFFICES ASSUME Init PROVE TypeOK
    OBVIOUS
  <1>2. Len(program) \in Nat
    BY <1>1, ProgramFacts DEF Init
  <1>3. file_names \in Seq(Nat)
    <2>1. Header + 1 \in Nat
      BY LineProgramAssumption
    <2>2. QED
      BY <1>1, <2>1 DEF Init
  <1>4. walks \in 0 .. MaxWalks
    BY <1>1, LineProgramAssumption DEF Init
  <1>5. prev \in [entry : Registers, pos : 0 .. Len(program)]
    BY <1>1, <1>2, ResetFacts DEF Init
  <1>6. regs \in Registers /\ entry \in Registers
    BY <1>1, ResetFacts DEF Init
  <1>7. /\ last_file_name_end \in 0 .. Len(program) /\ want \in Nat
        /\ cur \in 0 .. Len(program) /\ pos \in 0 .. cur
    BY <1>1, <1>2 DEF Init
  <1>8. program \in Programs /\ phase \in Phases /\ file_names_complete \in BOOLEAN
    BY <1>1 DEF Init, Phases
  <1>9. QED
    BY <1>3, <1>4, <1>5, <1>6, <1>7, <1>8 DEF TypeOK

(* What the opcode a walk reads does to the registers.                      *)
LEMMA OpcodeFacts ==
    ASSUME TypeOK, Reading
    PROVE  /\ Len(program) \in Nat
           /\ cur + 1 \in Offsets /\ Opcode = program[cur + 1]
           /\ Opcode \in [op : Opcodes, n : Int]
           /\ Executed(regs, Opcode) \in Registers
           /\ BehindRow(Executed(regs, Opcode), Opcode) \in Registers
  <1>1. Len(program) \in Nat /\ cur \in 0 .. Len(program) /\ cur # Len(program)
    BY ProgramFacts DEF TypeOK, Reading, AtEnd
  <1>2. cur + 1 \in Offsets
    BY <1>1 DEF Offsets
  <1>3. /\ Opcode \in [op : Opcodes, n : Int]
        /\ Opcode.op # "advance_line" => Opcode.n \in Nat
        /\ Opcode.op = "special" => Opcode.n >= OpcodeBase
    BY <1>2, ProgramFacts DEF Opcode, TypeOK
  <1>4. regs \in Registers
    BY DEF TypeOK
  <1>5. Executed(regs, Opcode) \in Registers
    BY <1>3, <1>4, ExecutedFacts
  <1>6. BehindRow(Executed(regs, Opcode), Opcode) \in Registers
    BY <1>3, <1>5, ExecutedFacts
  <1>7. QED
    BY <1>1, <1>2, <1>3, <1>5, <1>6 DEF Opcode

LEMMA TypeStep == TypeOK /\ [Next]_vars => TypeOK'
  <1>1. SUFFICES ASSUME TypeOK, [Next]_vars PROVE TypeOK'
    OBVIOUS
  <1>2. Len(program) \in Nat /\ program \in Programs
    BY <1>1, ProgramFacts DEF TypeOK
  <1>3. CASE UNCHANGED vars
    BY <1>1, <1>3 DEF vars, TypeOK
  <1>4. ASSUME NEW p \in Phases, NEW w \in Nat, Begin(p, w) PROVE TypeOK'
    <2>1. walks' \in 0 .. MaxWalks
      BY <1>1, <1>4, LineProgramAssumption DEF Begin, TypeOK
    <2>2. prev' \in [entry : Registers, pos : 0 .. Len(program)]
      BY <1>2, <1>4, ResetFacts DEF Begin
    <2>3. QED
      BY <1>1, <1>2, <1>4, <2>1, <2>2, ResetFacts DEF Begin, TypeOK, table_vars
  <1>5. CASE (\E a \in Queries : FindAddressBegin(a)) \/ (\E i \in Indices : GetFile(i))
    BY <1>4, <1>5, LineProgramAssumption DEF FindAddressBegin, GetFile, Phases
  <1>6. ASSUME Reading, cur' = cur + 1, UNCHANGED program
        PROVE  /\ cur' \in 0 .. Len(program)
               /\ \A x : x \in 0 .. cur => x \in 0 .. cur'
    BY <1>1, <1>2, <1>6, OpcodeFacts DEF Offsets, TypeOK
  <1>7. CASE StandardOpcode
    <2>1. regs' \in Registers
      BY <1>1, <1>7, OpcodeFacts DEF StandardOpcode
    <2>2. phase' \in Phases
      BY <1>1, <1>7 DEF StandardOpcode, Phases, TypeOK
    <2>3. QED
      BY <1>1, <1>6, <1>7, <2>1, <2>2 DEF StandardOpcode, TypeOK, table_vars
  <1>8. CASE DefineFile
    <2>1. phase' \in Phases
      BY <1>1, <1>8 DEF DefineFile, Phases, TypeOK
    <2>2. file_names' \in Seq(Nat) /\ last_file_name_end' \in 0 .. Len(program)
      <3>1. cur' \in 0 .. Len(program) /\ cur' \in Nat
        BY <1>2, <1>6, <1>8 DEF DefineFile
      <3>2. file_names \in Seq(Nat) /\ last_file_name_end \in 0 .. Len(program)
        BY <1>1 DEF TypeOK
      <3>3. Append(file_names, cur') \in Seq(Nat)
        BY <3>1, <3>2
      <3>4. QED
        BY <1>8, <3>1, <3>2, <3>3 DEF DefineFile
    <2>3. QED
      BY <1>1, <1>6, <1>8, <2>1, <2>2 DEF DefineFile, TypeOK
  <1>9. CASE EmitRow
    <2> DEFINE row == Executed(regs, Opcode)
    <2>1. Reading /\ cur' = cur + 1 /\ UNCHANGED <<program, file_names, last_file_name_end, want, walks>>
      BY <1>9 DEF EmitRow
    <2>2. row \in Registers /\ regs' \in Registers
      BY <1>1, <1>9, <2>1, OpcodeFacts DEF EmitRow
    <2>3. file_names_complete' \in BOOLEAN
      BY <1>1, <1>9 DEF EmitRow, TypeOK, AtEnd
    <2>4. phase' \in Phases
      BY <1>1, <1>9 DEF EmitRow, Phases
    <2>5. entry' \in Registers /\ pos' \in 0 .. cur'
      <3>1. UNCHANGED <<entry, pos>> \/ (entry' = row /\ pos' = cur')
        BY <1>9 DEF EmitRow
      <3>2. QED
        BY <1>1, <1>6, <2>1, <2>2, <3>1 DEF TypeOK
    <2>6. prev' = prev \/ prev' = [entry |-> entry', pos |-> pos']
      BY <1>9 DEF EmitRow
    <2>7. prev' \in [entry : Registers, pos : 0 .. Len(program)]
      BY <1>1, <1>2, <1>6, <2>1, <2>5, <2>6 DEF TypeOK
    <2>8. QED
      BY <1>1, <1>6, <2>1, <2>2, <2>3, <2>4, <2>5, <2>7 DEF TypeOK
  <1>10. QED
    BY <1>1, <1>3, <1>5, <1>7, <1>8, <1>9 DEF Next, Read

(* The registers, the row and the offsets are of their types whatever the   *)
(* program does: among them that op_index never reaches the number of       *)
(* operations an instruction has and that a line number stays unsigned.     *)
THEOREM LineProgramTypeCorrect == Spec => []TypeOK
  BY TypeInit, TypeStep, PTL DEF Spec

-------------------------------------------------------------------------------
(* The files of the program that are read.                                  *)
Met(last) == Defined \intersect 1 .. last

LEMMA FilesInit == TypeOK /\ Init => FilesAreAddedOnce /\ FilesAreCounted
  <1>1. SUFFICES ASSUME TypeOK, Init PROVE FilesAreAddedOnce /\ FilesAreCounted
    OBVIOUS
  <1>2. Header \in Nat /\ Len(file_names) = Header + 1
    BY <1>1, LineProgramAssumption DEF Init
  <1>3. Defined \intersect 1 .. 0 = {}
    OBVIOUS
  <1>4. FilesAreAddedOnce
    BY <1>1, <1>2, <1>3 DEF Init, FilesAreAddedOnce
  <1>5. FilesAreCounted
    BY <1>1, <1>2, <1>3, FS_EmptySet DEF Init, FilesAreCounted
  <1>6. QED
    BY <1>4, <1>5

(* Steps that leave the table alone.                                        *)
LEMMA TableKept ==
    ASSUME FilesAreAddedOnce, UNCHANGED <<program, file_names, last_file_name_end>>,
           Defined \intersect 1 .. cur' \subseteq 1 .. last_file_name_end,
           file_names_complete' => Defined \subseteq 1 .. last_file_name_end
    PROVE  /\ FilesAreAddedOnce'
           /\ Defined' = Defined /\ Met(last_file_name_end)' = Met(last_file_name_end)
  <1>1. Defined' = Defined
    BY DEF Defined, OpsIn, IsOp, Offsets
  <1>2. QED
    BY <1>1 DEF FilesAreAddedOnce, Met

(* An opcode that defines no file.                                          *)
LEMMA OtherOpcode ==
    ASSUME TypeOK, FilesAreAddedOnce, Reading, Opcode.op # "define_file",
           cur' = cur + 1, UNCHANGED program
    PROVE  Defined \intersect 1 .. cur' \subseteq 1 .. last_file_name_end
  <1>1. cur \in Nat /\ cur + 1 \notin Defined
    BY OpcodeFacts DEF Defined, OpsIn, IsOp, TypeOK
  <1>2. 1 .. cur' = 1 .. cur \union {cur + 1}
    BY <1>1
  <1>3. QED
    BY <1>1, <1>2 DEF FilesAreAddedOnce

(* A file that is met for the first time.                                   *)
LEMMA FileAdded ==
    ASSUME TypeOK, FilesAreAddedOnce, DefineFile, cur' > last_file_name_end
    PROVE  /\ FilesAreAddedOnce'
           /\ Defined' = Defined
           /\ Met(last_file_name_end)' = Met(last_file_name_end) \union {cur'}
           /\ cur' \notin Met(last_file_name_end)
           /\ Len(file_names') = Len(file_names) + 1
  <1> DEFINE n == Len(file_names)
             last == last_file_name_end
  <1>1. /\ Reading /\ Opcode.op = "define_file" /\ cur' = cur + 1
        /\ file_names' = Append(file_names, cur') /\ last' = cur'
        /\ UNCHANGED <<program, file_names_complete>>
    <2>1. ~(cur' <= last)
      BY OpcodeFacts DEF DefineFile, TypeOK
    <2>2. QED
      BY <2>1 DEF DefineFile
  <1>2. /\ cur \in Nat /\ last \in Nat /\ file_names \in Seq(Nat) /\ n \in Nat
        /\ Header \in Nat /\ Len(program) \in Nat
    BY OpcodeFacts, LineProgramAssumption, <1>1 DEF TypeOK
  <1>3. cur' \in Defined /\ Defined' = Defined
    BY <1>1, OpcodeFacts DEF Defined, OpsIn, IsOp, Offsets
  <1>4. /\ n > Header /\ \A i \in 1 .. Header + 1 : file_names[i] = 0
        /\ {file_names[i] : i \in Header + 2 .. n} = Defined \intersect 1 .. last
        /\ \A i, j \in Header + 1 .. n : i < j => file_names[i] < file_names[j]
        /\ Defined \intersect 1 .. cur \subseteq 1 .. last
        /\ file_names_complete => Defined \subseteq 1 .. last
    BY DEF FilesAreAddedOnce
  <1>5. /\ Len(file_names') = n + 1
        /\ \A i \in 1 .. n : file_names'[i] = file_names[i]
        /\ file_names'[n + 1] = cur'
    BY <1>1, <1>2
  <1> HIDE DEF n, last
  <1>6. Defined \intersect 1 .. cur' = (Defined \intersect 1 .. last) \union {cur'}
    <2>1. last <= cur
      BY <1>1, <1>2 DEF last
    <2>2. QED
      BY <1>1, <1>2, <1>3, <1>4, <2>1
  <1>7. cur' \notin 1 .. last
    BY <1>1, <1>2 DEF last
  <1>8. {file_names'[i] : i \in Header + 2 .. n + 1} = Defined \intersect 1 .. cur'
    <2>1. Header + 2 .. n + 1 = (Header + 2 .. n) \union {n + 1}
      BY <1>2, <1>4
    <2>2. \A i \in Header + 2 .. n : i \in 1 .. n
      BY <1>2
    <2>3. QED
      BY <1>4, <1>5, <1>6, <2>1, <2>2
  <1>9. \A i \in Header + 1 .. n : file_names[i] <= last
    <2>1. ASSUME NEW i \in Header + 1 .. n PROVE file_names[i] <= last
      <3>1. CASE i = Header + 1
        BY <1>2, <1>4, <3>1
      <3>2. CASE i # Header + 1
        BY <1>2, <1>4, <3>2
      <3>3. QED
        BY <3>1, <3>2
    <2>2. QED
      BY <2>1
  <1>10. \A i, j \in Header + 1 .. n + 1 : i < j => file_names'[i] < file_names'[j]
    <2>1. ASSUME NEW i \in Header + 1 .. n + 1, NEW j \in Header + 1 .. n + 1, i < j
          PROVE  file_names'[i] < file_names'[j]
      <3>1. i \in Header + 1 .. n /\ i \in 1 .. n /\ file_names'[i] = file_names[i]
        BY <1>2, <1>5, <2>1
      <3>2. CASE j = n + 1
        <4>1. file_names[i] \in Nat /\ file_names[i] <= last
          BY <1>2, <1>9, <3>1 DEF n
        <4>2. QED
          BY <1>1, <1>2, <1>5, <1>7, <3>1, <3>2, <4>1
      <3>3. CASE j # n + 1
        BY <1>2, <1>4, <1>5, <2>1, <3>1, <3>3
      <3>4. QED
        BY <3>2, <3>3
    <2>2. QED
      BY <2>1
  <1>11. file_names_complete => Defined \subseteq 1 .. cur'
    BY <1>1, <1>2, <1>3, <1>4, <1>7
  <1>12. last_file_name_end' = cur' /\ file_names_complete' = file_names_complete
    BY <1>1 DEF last
  <1>13. Met(last_file_name_end)' = Defined \intersect 1 .. cur'
    BY <1>3, <1>12 DEF Met
  <1>14. \A i \in 1 .. Header + 1 : file_names'[i] = 0
    BY <1>2, <1>4, <1>5
  <1>15. FilesAreAddedOnce'
    <2>1. Len(file_names') > Header /\ Len(file_names') = n + 1
      BY <1>2, <1>4, <1>5
    <2>2. QED
      BY <1>3, <1>8, <1>10, <1>11, <1>12, <1>14, <2>1 DEF FilesAreAddedOnce
  <1>16. QED
    BY <1>3, <1>5, <1>6, <1>7, <1>13, <1>15 DEF Met, n, last

LEMMA FilesStep ==
    /\ TypeOK /\ FilesAreAddedOnce /\ FilesAreCounted /\ [Next]_vars
    => FilesAreAddedOnce' /\ FilesAreCounted'
  <1>1. SUFFICES ASSUME TypeOK, FilesAreAddedOnce, FilesAreCounted, [Next]_vars
                 PROVE  FilesAreAddedOnce' /\ FilesAreCounted'
    OBVIOUS
  <1>2. /\ Len(program) \in Nat /\ Header \in Nat /\ cur \in 0 .. Len(program)
        /\ program \in Programs /\ Len(file_names) \in Nat /\ last_file_name_end \in Nat
    BY <1>1, ProgramFacts, LineProgramAssumption DEF TypeOK
  <1>3. /\ Len(file_names) = Header + 1 + Cardinality(Met(last_file_name_end))
        /\ phase = "got" => want < Len(file_names)
        /\ phase = "out_of_range" =>
              want >= Len(file_names) /\ Defined \subseteq 1 .. last_file_name_end
    BY <1>1 DEF FilesAreCounted, Met
  <1>4. CASE UNCHANGED vars
    BY <1>1, <1>4, ZenonT(40) DEF vars, FilesAreAddedOnce, FilesAreCounted, Defined, OpsIn, IsOp, Offsets
  <1>5. ASSUME UNCHANGED <<program, file_names, last_file_name_end>>,
               Defined \intersect 1 .. cur' \subseteq 1 .. last_file_name_end,
               file_names_complete' => Defined \subseteq 1 .. last_file_name_end,
               phase' = "got" => want' < Len(file_names),
               phase' = "out_of_range" =>
                  want' >= Len(file_names) /\ Defined \subseteq 1 .. last_file_name_end
        PROVE  FilesAreAddedOnce' /\ FilesAreCounted'
    <2>1. /\ FilesAreAddedOnce' /\ Defined' = Defined
          /\ Met(last_file_name_end)' = Met(last_file_name_end)
      BY <1>1, <1>5, TableKept
    <2>2. FilesAreCounted'
      BY <1>3, <1>5, <2>1 DEF FilesAreCounted, Met
    <2>3. QED
      BY <2>1, <2>2
  <1>6. ASSUME NEW p, NEW w \in Nat, Begin(p, w),
               p = "got" => w < Len(file_names),
               p = "out_of_range" =>
                  w >= Len(file_names) /\ Defined \subseteq 1 .. last_file_name_end
        PROVE  FilesAreAddedOnce' /\ FilesAreCounted'
    <2>1. Defined \intersect 1 .. cur' = {}
      BY <1>6 DEF Begin
    <2>2. /\ UNCHANGED <<program, file_names, last_file_name_end, file_names_complete>>
          /\ phase' = p /\ want' = w
      BY <1>6 DEF Begin, table_vars
    <2>3. QED
      BY <1>1, <1>5, <1>6, <2>1, <2>2 DEF FilesAreAddedOnce
  <1>7. CASE \E a \in Queries : FindAddressBegin(a)
    BY <1>6, <1>7, LineProgramAssumption DEF FindAddressBegin
  <1>8. CASE \E i \in Indices : GetFile(i)
    <2>1. PICK i \in Indices : GetFile(i)
      BY <1>8
    <2>2. program = <<>> => Defined = {}
      BY <1>2 DEF Defined, OpsIn, Offsets
    <2>3. i \in Nat
      BY LineProgramAssumption
    <2>4. QED
      BY <1>1, <1>2, <1>6, <2>1, <2>2, <2>3 DEF GetFile, FilesAreAddedOnce
  <1>9. CASE StandardOpcode
    <2>1. /\ Reading /\ Opcode.op # "define_file" /\ cur' = cur + 1
          /\ UNCHANGED <<program, file_names, last_file_name_end, file_names_complete>>
          /\ phase' \notin {"got", "out_of_range"}
      BY <1>9 DEF StandardOpcode, Standard, table_vars, Reading, Walking
    <2>2. Defined \intersect 1 .. cur' \subseteq 1 .. last_file_name_end
      BY <1>1, <2>1, OtherOpcode
    <2>3. QED
      BY <1>1, <1>5, <2>1, <2>2 DEF FilesAreAddedOnce
  <1>10. CASE EmitRow
    <2>1. /\ Reading /\ Opcode.op # "define_file" /\ cur' = cur + 1
          /\ UNCHANGED <<program, file_names, last_file_name_end, want>>
          /\ file_names_complete' = (file_names_complete \/ AtEnd(cur'))
      BY <1>10 DEF EmitRow, Emits
    <2>2. Defined \intersect 1 .. cur' \subseteq 1 .. last_file_name_end
      BY <1>1, <2>1, OtherOpcode
    <2>3. AtEnd(cur') => Defined \subseteq 1 .. last_file_name_end
      BY <1>2, <2>2 DEF AtEnd, Defined, OpsIn, Offsets
    <2>4. /\ phase' = "got" => want < Len(file_names)
          /\ phase' = "out_of_range" => AtEnd(cur') /\ ~(want < Len(file_names))
      BY <1>10 DEF EmitRow
    <2>5. want \in Nat
      BY <1>1 DEF TypeOK
    <2>6. file_names_complete' => Defined \subseteq 1 .. last_file_name_end
      BY <1>1, <2>1, <2>3 DEF FilesAreAddedOnce
    <2>7. QED
      BY <1>2, <1>5, <2>1, <2>2, <2>3, <2>4, <2>5, <2>6
  <1>11. CASE DefineFile
    <2>1. /\ Reading /\ cur' = cur + 1 /\ phase' \notin {"got", "out_of_range"}
          /\ UNCHANGED <<program, file_names_complete>>
      BY <1>11 DEF DefineFile, Reading, Walking
    <2>2. CASE cur' <= last_file_name_end
      <3>1. UNCHANGED <<file_names, last_file_name_end>>
        BY <1>11, <2>2 DEF DefineFile
      <3>2. 1 .. cur' \subseteq 1 .. last_file_name_end
        BY <1>2, <2>1, <2>2
      <3>3. QED
        BY <1>1, <1>5, <2>1, <3>1, <3>2 DEF FilesAreAddedOnce
    <2>3. CASE cur' > last_file_name_end
      <3>1. /\ FilesAreAddedOnce'
            /\ Met(last_file_name_end)' = Met(last_file_name_end) \union {cur'}
            /\ cur' \notin Met(last_file_name_end)
            /\ Len(file_names') = Len(file_names) + 1
        BY <1>1, <1>11, <2>3, FileAdded
      <3>2. IsFiniteSet(Met(last_file_name_end))
        <4>1. IsFiniteSet(1 .. last_file_name_end)
          BY <1>2, FS_Interval
        <4>2. QED
          BY <4>1, FS_Subset DEF Met
      <3>3. /\ Cardinality(Met(last_file_name_end) \union {cur'})
                 = Cardinality(Met(last_file_name_end)) + 1
            /\ Cardinality(Met(last_file_name_end)) \in Nat
        BY <3>1, <3>2, FS_AddElement, FS_CardinalityType
      <3>4. Len(file_names)' = Header + 1 + Cardinality(Met(last_file_name_end)')
        BY <1>2, <1>3, <3>1, <3>3
      <3>5. FilesAreCounted'
        BY <2>1, <3>4 DEF FilesAreCounted, Met
      <3>6. QED
        BY <3>1, <3>5
    <2>4. QED
      BY <1>2, <2>1, <2>2, <2>3
  <1>12. QED
    BY <1>1, <1>4, <1>7, <1>8, <1>9, <1>10, <1>11 DEF Next, Read

LEMMA FilesAlways == Spec => [](TypeOK /\ FilesAreAddedOnce /\ FilesAreCounted)
  BY TypeInit, TypeStep, FilesInit, FilesStep, PTL DEF Spec

(* However many walks run the program, however far each comes and wherever  *)
(* it stops, the file table is the header's followed by the files that the  *)
(* program defines as far as it was read, each once and in its order.       *)
THEOREM FilesJoinOnce == Spec => []FilesAreAddedOnce
  BY FilesAlways, PTL

(* get_file never throws for a file the program defines, and never returns  *)
(* one it does not, however much of the program has been read before.       *)
THEOREM FilesAreFound == Spec => []FileIsFound
  <1>1. TypeOK /\ FilesAreCounted => FileIsFound
    <2>1. SUFFICES ASSUME TypeOK, FilesAreCounted PROVE FileIsFound
      OBVIOUS
    <2>2. /\ Len(program) \in Nat /\ Header \in Nat /\ want \in Nat /\ last_file_name_end \in Nat
      BY <2>1, ProgramFacts, LineProgramAssumption DEF TypeOK
    <2>3. IsFiniteSet(Defined) /\ Cardinality(Defined) \in Nat
      <3>1. IsFiniteSet(Offsets)
        BY <2>2, FS_Interval DEF Offsets
      <3>2. QED
        BY <3>1, FS_Subset, FS_CardinalityType DEF Defined, OpsIn
    <2>4. /\ Cardinality(Met(last_file_name_end)) <= Cardinality(Defined)
          /\ Cardinality(Met(last_file_name_end)) \in Nat
      <3>1. Met(last_file_name_end) \in SUBSET Defined
        BY DEF Met
      <3>2. QED
        BY <2>3, <3>1, FS_Subset, FS_CardinalityType
    <2>5. Defined \subseteq 1 .. last_file_name_end => Met(last_file_name_end) = Defined
      BY DEF Met
    <2>6. /\ Len(file_names) = Header + 1 + Cardinality(Met(last_file_name_end))
          /\ phase = "got" => want < Len(file_names)
          /\ phase = "out_of_range" =>
                want >= Len(file_names) /\ Defined \subseteq 1 .. last_file_name_end
      BY <2>1 DEF FilesAreCounted, Met
    <2>7. QED
      BY <2>2, <2>3, <2>4, <2>5, <2>6 DEF FileIsFound
  <1>2. QED
    BY <1>1, FilesAlways, PTL

-------------------------------------------------------------------------------
(* The rows.  What the opcodes up to k add up to.                           *)
LEMMA OpcodeSteps ==
    ASSUME program \in Programs, NEW k \in Offsets
    PROVE  Operations(k) \in Nat /\ LineStep(k) \in Int
  <1>1. /\ program[k] \in [op : Opcodes, n : Int]
        /\ program[k].op # "advance_line" => program[k].n \in Nat
        /\ program[k].op = "special" => program[k].n >= OpcodeBase
    BY ProgramFacts
  <1>2. program[k].n \in Int /\ OpcodeBase \in 1 .. 255 /\ LineRange \in Nat \ {0} /\ LineBase \in Int
    BY <1>1, LineProgramAssumption
  <1>3. CASE program[k].op = "special"
    <2>1. SpecialAdvance(program[k].n) \in Nat /\ SpecialLine(program[k].n) \in Int
      BY <1>1, <1>2, <1>3 DEF SpecialAdvance, SpecialLine
    <2>2. QED
      BY <1>3, <2>1 DEF Operations, LineStep, IsOp
  <1>4. CASE program[k].op = "const_add_pc"
    <2>1. SpecialAdvance(255) \in Nat
      BY <1>2 DEF SpecialAdvance
    <2>2. QED
      BY <1>4, <2>1 DEF Operations, LineStep, IsOp
  <1>5. CASE program[k].op \notin {"special", "const_add_pc"}
    BY <1>1, <1>2, <1>5 DEF Operations, LineStep, IsOp
  <1>6. QED
    BY <1>3, <1>4, <1>5

LEMMA TotalsFacts ==
    ASSUME program \in Programs
    PROVE  /\ OperationsTo \in [0 .. Len(program) -> Int] /\ OperationsTo[0] = 0
           /\ LinesTo \in [0 .. Len(program) -> Int]
           /\ \A k \in Offsets : /\ OperationsTo[k] = OperationsTo[k - 1] + Operations(k)
                                 /\ LinesTo[k] = LinesTo[k - 1] + LineStep(k)
  <1> DEFINE n == Len(program)
  <1>1. n \in Nat /\ Offsets = 1 .. n
    BY ProgramFacts DEF Offsets
  <1>2. /\ OperationsTo \in [0 .. n -> Int]
        /\ OperationsTo = [k \in 0 .. n |-> IF k = 0 THEN 0 ELSE OperationsTo[k - 1] + Operations(k)]
    <2> DEFINE g == [k \in 1 .. n |-> Operations(k)]
    <2>1. g \in [1 .. n -> Int] /\ \A k \in 0 .. n : k # 0 => g[k] = Operations(k)
      BY <1>1, OpcodeSteps
    <2> HIDE DEF g
    <2>2. \A f : [k \in 0 .. n |-> IF k = 0 THEN 0 ELSE f[k - 1] + g[k]]
                  = [k \in 0 .. n |-> IF k = 0 THEN 0 ELSE f[k - 1] + Operations(k)]
      BY <2>1
    <2>3. /\ \E f : f = [k \in 0 .. n |-> IF k = 0 THEN 0 ELSE f[k - 1] + Operations(k)]
          /\ \A f : f = [k \in 0 .. n |-> IF k = 0 THEN 0 ELSE f[k - 1] + Operations(k)]
                    => f \in [0 .. n -> Int]
      <3> HIDE DEF n
      <3>1. /\ \E f : f = [k \in 0 .. n |-> IF k = 0 THEN 0 ELSE f[k - 1] + g[k]]
            /\ \A f : f = [k \in 0 .. n |-> IF k = 0 THEN 0 ELSE f[k - 1] + g[k]]
                      => f \in [0 .. n -> Int]
        BY <1>1, <2>1, PrefixSum
      <3>2. ASSUME NEW f
            PROVE  (f = [k \in 0 .. n |-> IF k = 0 THEN 0 ELSE f[k - 1] + g[k]])
                     <=> (f = [k \in 0 .. n |-> IF k = 0 THEN 0 ELSE f[k - 1] + Operations(k)])
        BY <2>2
      <3>3. QED
        BY <3>1, <3>2, Zenon
    <2>4. OperationsTo = [k \in 0 .. n |-> IF k = 0 THEN 0 ELSE OperationsTo[k - 1] + Operations(k)]
      BY <2>3, Zenon DEF OperationsTo
    <2>5. QED
      BY <2>3, <2>4, Zenon
  <1>3. /\ LinesTo \in [0 .. n -> Int]
        /\ LinesTo = [k \in 0 .. n |-> IF k = 0 THEN 0 ELSE LinesTo[k - 1] + LineStep(k)]
    <2> DEFINE g == [k \in 1 .. n |-> LineStep(k)]
    <2>1. g \in [1 .. n -> Int] /\ \A k \in 0 .. n : k # 0 => g[k] = LineStep(k)
      BY <1>1, OpcodeSteps
    <2> HIDE DEF g
    <2>2. \A f : [k \in 0 .. n |-> IF k = 0 THEN 0 ELSE f[k - 1] + g[k]]
                  = [k \in 0 .. n |-> IF k = 0 THEN 0 ELSE f[k - 1] + LineStep(k)]
      BY <2>1
    <2>3. /\ \E f : f = [k \in 0 .. n |-> IF k = 0 THEN 0 ELSE f[k - 1] + LineStep(k)]
          /\ \A f : f = [k \in 0 .. n |-> IF k = 0 THEN 0 ELSE f[k - 1] + LineStep(k)]
                    => f \in [0 .. n -> Int]
      <3> HIDE DEF n
      <3>1. /\ \E f : f = [k \in 0 .. n |-> IF k = 0 THEN 0 ELSE f[k - 1] + g[k]]
            /\ \A f : f = [k \in 0 .. n |-> IF k = 0 THEN 0 ELSE f[k - 1] + g[k]]
                      => f \in [0 .. n -> Int]
        BY <1>1, <2>1, PrefixSum
      <3>2. ASSUME NEW f
            PROVE  (f = [k \in 0 .. n |-> IF k = 0 THEN 0 ELSE f[k - 1] + g[k]])
                     <=> (f = [k \in 0 .. n |-> IF k = 0 THEN 0 ELSE f[k - 1] + LineStep(k)])
        BY <2>2
      <3>3. QED
        BY <3>1, <3>2, Zenon
    <2>4. LinesTo = [k \in 0 .. n |-> IF k = 0 THEN 0 ELSE LinesTo[k - 1] + LineStep(k)]
      BY <2>3, Zenon DEF LinesTo
    <2>5. QED
      BY <2>3, <2>4, Zenon
  <1>4. QED
    BY <1>1, <1>2, <1>3, SMTT(30)

(* The opcodes of some kind up to the next one, and the last of them.       *)
LEMMA OpsFacts ==
    ASSUME NEW s \in Nat, NEW k \in Nat, s <= k, NEW ops
    PROVE  /\ OpsIn(s + 1 .. s, ops) = {}
           /\ OpsIn(s + 1 .. k + 1, ops)
                = OpsIn(s + 1 .. k, ops) \union (IF IsOp(k + 1, ops) THEN {k + 1} ELSE {})
           /\ OpsIn(s + 1 .. k, ops) \subseteq s + 1 .. k
           /\ \A i \in OpsIn(s + 1 .. k, ops) : IsOp(i, ops)
  <1>1. s + 1 .. k + 1 = (s + 1 .. k) \union {k + 1} /\ s + 1 .. s = {}
    OBVIOUS
  <1>2. QED
    BY <1>1 DEF OpsIn

LEMMA LatestFacts ==
    ASSUME NEW s \in Nat, NEW k \in Nat, s <= k, NEW A \in SUBSET (s .. k)
    PROVE  /\ Max({s} \union A) \in {s} \union A
           /\ k \in A => Max({s} \union A) = k
           /\ Max({s} \union {}) = s
  <1>1. {s} \union A \in SUBSET (0 .. k) /\ {s} \union A # {}
    OBVIOUS
  <1>2. \A y \in {s} \union A : y <= k
    OBVIOUS
  <1>3. Max({s} \union A) \in {s} \union A
    BY <1>1, MaxFacts
  <1>4. k \in A => Max({s} \union A) = k
    BY <1>1, <1>2, MaxIs
  <1>5. {s} \in SUBSET (0 .. s) /\ \A y \in {s} : y <= s
    OBVIOUS
  <1>6. Max({s}) = s
    BY <1>5, MaxIs
  <1>7. QED
    BY <1>3, <1>4, <1>6

LEMMA LastSetFacts ==
    ASSUME NEW s \in Nat, NEW k \in Nat, s <= k
    PROVE  /\ LastSet(s, s) = s
           /\ LastSet(s, k + 1) = IF IsOp(k + 1, Setters) THEN k + 1 ELSE LastSet(s, k)
           /\ LastSet(s, k) \in s .. k
           /\ LastSet(s, k) # s => IsOp(LastSet(s, k), Setters)
  <1> DEFINE A == OpsIn(s + 1 .. k, Setters)
             B == OpsIn(s + 1 .. k + 1, Setters)
  <1>1. /\ OpsIn(s + 1 .. s, Setters) = {}
        /\ B = A \union (IF IsOp(k + 1, Setters) THEN {k + 1} ELSE {})
        /\ A \subseteq s + 1 .. k /\ \A i \in A : IsOp(i, Setters)
    BY OpsFacts
  <1>2. B \in SUBSET (s .. k + 1) /\ A \in SUBSET (s .. k)
    BY <1>1
  <1> HIDE DEF A, B
  <1>3. Max({s} \union A) \in {s} \union A /\ Max({s} \union {}) = s
    BY <1>2, LatestFacts
  <1>4. k + 1 \in B => Max({s} \union B) = k + 1
    <2>1. PICK m \in Nat : m = k + 1
      OBVIOUS
    <2>2. m \in Nat /\ s <= m /\ B \in SUBSET (s .. m)
      BY <1>2, <2>1
    <2>3. m \in B => Max({s} \union B) = m
      BY <2>2, LatestFacts, ZenonT(40)
    <2>4. QED
      BY <2>1, <2>3
  <1>5. LastSet(s, k) = Max({s} \union A) /\ LastSet(s, k + 1) = Max({s} \union B)
    BY DEF LastSet, A, B
  <1>6. LastSet(s, s) = s
    BY <1>1, <1>3 DEF LastSet
  <1>10. LastSet(s, k) \in s .. k /\ (LastSet(s, k) # s => IsOp(LastSet(s, k), Setters))
    <2>1. LastSet(s, k) \in {s} \union A
      BY <1>3, <1>5
    <2>2. \A i \in A : i \in s .. k /\ IsOp(i, Setters)
      BY <1>1
    <2>3. s \in s .. k
      OBVIOUS
    <2> HIDE DEF A
    <2>4. QED
      BY <2>1, <2>2, <2>3
  <1>7. CASE IsOp(k + 1, Setters)
    BY <1>1, <1>4, <1>5, <1>6, <1>7, <1>10
  <1>8. CASE ~IsOp(k + 1, Setters)
    <2>1. B = A
      BY <1>1, <1>8
    <2>2. QED
      BY <1>5, <1>6, <1>8, <1>10, <2>1
  <1>9. QED
    BY <1>7, <1>8

LEMMA LastInFacts ==
    ASSUME NEW s \in Nat, NEW k \in Nat, s <= k, NEW o, NEW d
    PROVE  /\ LastIn(s + 1 .. s, o, d) = d
           /\ LastIn(s + 1 .. k + 1, o, d)
                = IF program[k + 1].op = o THEN program[k + 1].n ELSE LastIn(s + 1 .. k, o, d)
  <1> DEFINE A == OpsIn(s + 1 .. k, {o})
             B == OpsIn(s + 1 .. k + 1, {o})
  <1>1. /\ OpsIn(s + 1 .. s, {o}) = {}
        /\ B = A \union (IF IsOp(k + 1, {o}) THEN {k + 1} ELSE {})
        /\ A \subseteq s + 1 .. k
    BY OpsFacts
  <1>2. IsOp(k + 1, {o}) <=> program[k + 1].op = o
    BY DEF IsOp
  <1>3. LastIn(s + 1 .. k, o, d) = (IF A = {} THEN d ELSE program[Max(A)].n)
    BY Zenon DEF LastIn
  <1>4. LastIn(s + 1 .. k + 1, o, d) = (IF B = {} THEN d ELSE program[Max(B)].n)
    BY Zenon DEF LastIn
  <1>5. LastIn(s + 1 .. s, o, d) = d
    BY <1>1 DEF LastIn
  <1> HIDE DEF A, B
  <1>6. CASE program[k + 1].op = o
    <2>1. B \in SUBSET (0 .. k + 1) /\ k + 1 \in B /\ \A i \in B : i <= k + 1
      BY <1>1, <1>2, <1>6
    <2>2. Max(B) = k + 1
      <3>1. k + 1 \in Nat
        OBVIOUS
      <3>2. QED
        BY <2>1, <3>1, MaxIs
    <2>3. QED
      BY <1>4, <1>5, <1>6, <2>1, <2>2
  <1>7. CASE program[k + 1].op # o
    <2>1. B = A
      BY <1>1, <1>2, <1>7
    <2>2. QED
      BY <1>3, <1>4, <1>5, <1>7, <2>1
  <1>8. QED
    BY <1>6, <1>7

LEMMA NegationsFacts ==
    ASSUME NEW s \in Nat, NEW k \in Nat, s <= k, NEW ops
    PROVE  /\ Cardinality(OpsIn(s + 1 .. s, ops)) = 0
           /\ Cardinality(OpsIn(s + 1 .. k, ops)) \in Nat
           /\ Cardinality(OpsIn(s + 1 .. k + 1, ops))
                = IF IsOp(k + 1, ops) THEN Cardinality(OpsIn(s + 1 .. k, ops)) + 1
                  ELSE Cardinality(OpsIn(s + 1 .. k, ops))
  <1> DEFINE A == OpsIn(s + 1 .. k, ops)
  <1>1. /\ OpsIn(s + 1 .. s, ops) = {}
        /\ OpsIn(s + 1 .. k + 1, ops) = A \union (IF IsOp(k + 1, ops) THEN {k + 1} ELSE {})
        /\ A \subseteq s + 1 .. k
    BY OpsFacts
  <1>2. IsFiniteSet(A) /\ k + 1 \notin A
    <2>1. IsFiniteSet(s + 1 .. k)
      BY FS_Interval
    <2>2. k + 1 \notin s + 1 .. k
      OBVIOUS
    <2> HIDE DEF A
    <2>3. QED
      BY <1>1, <2>1, <2>2, FS_Subset
  <1> HIDE DEF A
  <1>3. Cardinality(A) \in Nat /\ Cardinality(A \union {k + 1}) = Cardinality(A) + 1
    BY <1>2, FS_AddElement, FS_CardinalityType
  <1>4. Cardinality(OpsIn(s + 1 .. s, ops)) = 0
    BY <1>1, FS_EmptySet
  <1>5. IsOp(k + 1, ops) => OpsIn(s + 1 .. k + 1, ops) = A \union {k + 1}
    BY <1>1
  <1>6. ~IsOp(k + 1, ops) => OpsIn(s + 1 .. k + 1, ops) = A
    BY <1>1
  <1>7. QED
    BY <1>3, <1>4, <1>5, <1>6 DEF A

(* Where the sequence and the row of the next opcode start.                 *)
LEMMA StartFacts ==
    ASSUME NEW k \in Nat
    PROVE  /\ SequenceStart(1) = 0 /\ RowStart(1) = 0
           /\ SequenceStart(k + 1) \in 0 .. k /\ RowStart(k + 1) \in 0 .. k
           /\ SequenceStart((k + 1) + 1)
                = IF IsOp(k + 1, {"end_sequence"}) THEN k + 1 ELSE SequenceStart(k + 1)
           /\ RowStart((k + 1) + 1) = IF k + 1 \in Emitting THEN k + 1 ELSE RowStart(k + 1)
  <1>1. 0 + 1 = 1 /\ 1 - 1 = 0 /\ (k + 1) - 1 = k /\ ((k + 1) + 1) - 1 = k + 1
    OBVIOUS
  <1>2. ASSUME NEW A \in SUBSET (0 .. k)
        PROVE  Max({0} \union A) \in 0 .. k /\ Max({0} \union {}) = 0
    <2>1. 0 \in Nat /\ 0 <= k /\ 0 \in 0 .. k
      OBVIOUS
    <2>2. Max({0} \union A) \in {0} \union A /\ Max({0} \union {}) = 0
      BY <2>1, LatestFacts
    <2>3. QED
      BY <2>1, <2>2
  <1>3. ASSUME NEW A \in SUBSET (0 .. k + 1), k + 1 \in A PROVE Max({0} \union A) = k + 1
    <2>1. {0} \union A \in SUBSET (0 .. k + 1) /\ \A y \in {0} \union A : y <= k + 1
      OBVIOUS
    <2>2. k + 1 \in Nat /\ k + 1 \in {0} \union A
      BY <1>3
    <2>3. QED
      BY <2>1, <2>2, MaxIs
  <1>4. ASSUME NEW A \in SUBSET (Nat \ {0})
        PROVE  /\ Max({0} \union (A \intersect 1 .. 0)) = 0
               /\ Max({0} \union (A \intersect 1 .. k)) \in 0 .. k
               /\ Max({0} \union (A \intersect 1 .. k + 1))
                    = IF k + 1 \in A THEN k + 1 ELSE Max({0} \union (A \intersect 1 .. k))
    <2> DEFINE B == A \intersect 1 .. k
               C == A \intersect 1 .. k + 1
    <2>1. A \intersect 1 .. 0 = {} /\ B \in SUBSET (0 .. k) /\ C \in SUBSET (0 .. k + 1)
      OBVIOUS
    <2>2. k + 1 \in A => k + 1 \in C
      OBVIOUS
    <2>3. k + 1 \notin A => C = B
      OBVIOUS
    <2> HIDE DEF B, C
    <2>4. Max({0} \union B) \in 0 .. k /\ Max({0} \union {}) = 0
      BY <1>2, <2>1
    <2>5. Max({0} \union C) = IF k + 1 \in A THEN k + 1 ELSE Max({0} \union B)
      BY <1>3, <2>1, <2>2, <2>3
    <2>6. QED
      BY <2>1, <2>4, <2>5 DEF B, C
  <1> DEFINE Ends == OpsIn(Nat \ {0}, {"end_sequence"})
  <1>5. \A j \in Int : OpsIn(1 .. j, {"end_sequence"}) = Ends \intersect 1 .. j
    BY DEF OpsIn
  <1>6. Ends \in SUBSET (Nat \ {0}) /\ Emitting \in SUBSET (Nat \ {0}) /\ (k + 1 \in Ends <=> IsOp(k + 1, {"end_sequence"}))
    BY DEF OpsIn, Emitting, Offsets
  <1>7. /\ \A j \in Int : SequenceStart(j) = Max({0} \union (Ends \intersect 1 .. j - 1))
        /\ \A j \in Int : RowStart(j) = Max({0} \union (Emitting \intersect 1 .. j - 1))
    <2> HIDE DEF Ends
    <2>1. \A j \in Int : j - 1 \in Int
      OBVIOUS
    <2>2. QED
      BY <1>5, <2>1 DEF SequenceStart, RowStart
  <1> HIDE DEF Ends
  <1>8. /\ SequenceStart(1) = Max({0} \union (Ends \intersect 1 .. 0))
        /\ SequenceStart(k + 1) = Max({0} \union (Ends \intersect 1 .. k))
        /\ SequenceStart((k + 1) + 1) = Max({0} \union (Ends \intersect 1 .. k + 1))
        /\ RowStart(1) = Max({0} \union (Emitting \intersect 1 .. 0))
        /\ RowStart(k + 1) = Max({0} \union (Emitting \intersect 1 .. k))
        /\ RowStart((k + 1) + 1) = Max({0} \union (Emitting \intersect 1 .. k + 1))
    BY <1>1, <1>7
  <1>9. /\ SequenceStart(1) = 0 /\ SequenceStart(k + 1) \in 0 .. k
        /\ SequenceStart((k + 1) + 1) = IF k + 1 \in Ends THEN k + 1 ELSE SequenceStart(k + 1)
    BY <1>4, <1>6, <1>8
  <1>10. /\ RowStart(1) = 0 /\ RowStart(k + 1) \in 0 .. k
         /\ RowStart((k + 1) + 1) = IF k + 1 \in Emitting THEN k + 1 ELSE RowStart(k + 1)
    BY <1>4, <1>6, <1>8
  <1>11. QED
    BY <1>6, <1>9, <1>10

-------------------------------------------------------------------------------
(* The operations counted since the address was last set.                   *)
LEMMA CountedFacts ==
    ASSUME program \in Programs, NEW s \in 0 .. Len(program)
    PROVE  /\ Counted(s, s) = 0
           /\ \A k \in s .. Len(program) : Counted(s, k) \in Int
           /\ \A k \in s .. Len(program) - 1 :
                 Counted(s, k + 1) = IF IsOp(k + 1, Setters) THEN 0
                                     ELSE Counted(s, k) + Operations(k + 1)
  <1> DEFINE n == Len(program)
             O == OperationsTo
  <1>1. n \in Nat /\ Offsets = 1 .. n
    BY ProgramFacts DEF Offsets
  <1>2. /\ \A k \in 0 .. n : O[k] \in Int
        /\ \A k \in 1 .. n : O[k] = O[k - 1] + Operations(k) /\ Operations(k) \in Int
    <2>1. /\ O \in [0 .. n -> Int]
          /\ \A k \in Offsets : O[k] = O[k - 1] + Operations(k)
      BY TotalsFacts
    <2>2. \A k \in Offsets : Operations(k) \in Int
      BY OpcodeSteps
    <2> HIDE DEF O, n
    <2>3. QED
      BY <1>1, <2>1, <2>2
  <1>3. \A k \in s .. n : /\ k \in Nat /\ s <= k /\ LastSet(s, k) \in 0 .. n
                         /\ LastSet(s, s) = s
    <2> SUFFICES ASSUME NEW k \in s .. n
                 PROVE  k \in Nat /\ s <= k /\ LastSet(s, k) \in 0 .. n /\ LastSet(s, s) = s
      OBVIOUS
    <2>1. k \in Nat /\ s <= k /\ s \in Nat
      BY <1>1
    <2>2. LastSet(s, k) \in s .. k /\ LastSet(s, s) = s
      BY <2>1, LastSetFacts
    <2> HIDE DEF n
    <2>3. QED
      BY <1>1, <2>1, <2>2
  <1> HIDE DEF n, O
  <1>4. Counted(s, s) = 0
    <2>1. s \in s .. n /\ s \in 0 .. n
      BY <1>1 DEF n
    <2>2. QED
      BY <1>2, <1>3, <2>1 DEF Counted, O
  <1>5. \A k \in s .. n : Counted(s, k) \in Int
    <2>1. \A k \in s .. n : k \in 0 .. n
      BY <1>1 DEF n
    <2>2. QED
      BY <1>2, <1>3, <2>1 DEF Counted, O
  <1>6. ASSUME NEW k \in s .. n - 1
        PROVE  Counted(s, k + 1) = IF IsOp(k + 1, Setters) THEN 0
                                   ELSE Counted(s, k) + Operations(k + 1)
    <2>1. k \in Nat /\ s \in Nat /\ s <= k /\ k \in s .. n /\ k + 1 \in 1 .. n /\ (k + 1) - 1 = k
      BY <1>1 DEF n
    <2>2. LastSet(s, k + 1) = IF IsOp(k + 1, Setters) THEN k + 1 ELSE LastSet(s, k)
      BY <2>1, LastSetFacts
    <2>3. O[k + 1] = O[k] + Operations(k + 1) /\ Operations(k + 1) \in Int
      BY <1>2, <2>1
    <2>4. O[k] \in Int /\ O[LastSet(s, k)] \in Int
      BY <1>1, <1>2, <1>3, <2>1
    <2>5. CASE IsOp(k + 1, Setters)
      BY <2>2, <2>3, <2>4, <2>5 DEF Counted, O
    <2>6. CASE ~IsOp(k + 1, Setters)
      BY <2>2, <2>3, <2>4, <2>6 DEF Counted, O
    <2>7. QED
      BY <2>5, <2>6
  <1>7. QED
    BY <1>4, <1>5, <1>6 DEF n

(* An opcode's value, where it is one of an address.                        *)
LEMMA SetterFacts ==
    ASSUME program \in Programs, NEW k \in Offsets, IsOp(k, Setters)
    PROVE  /\ program[k].n \in Int
           /\ IsOp(k, {"set_address"}) <=> program[k].op = "set_address"
           /\ program[k].op \in Setters
  <1>1. program[k] \in [op : Opcodes, n : Int]
    BY ProgramFacts
  <1>2. program[k].n \in Int
    BY <1>1
  <1>3. QED
    BY <1>2 DEF IsOp

LEMMA AddressesFacts ==
    ASSUME program \in Programs, NEW s \in 0 .. Len(program)
    PROVE  \A k \in s .. Len(program) :
              LET k0   == LastSet(s, k)
                  base == IF k0 = s THEN 0
                          ELSE IF IsOp(k0, {"set_address"}) THEN program[k0].n
                          ELSE Addresses(s)[k0 - 1] + program[k0].n
              IN  /\ Addresses(s)[k] = base + MinLength * (Counted(s, k) \div MaxOps)
                  /\ Addresses(s)[k] \in Int
  <1> DEFINE n == Len(program)
             Set(k) == LastSet(s, k) = s \/ IsOp(LastSet(s, k), {"set_address"})
             Advance(k) == MinLength * (Counted(s, k) \div MaxOps)
             a == [k \in s .. n |-> (IF LastSet(s, k) = s THEN 0 ELSE program[LastSet(s, k)].n)
                                     + Advance(k)]
             p == [k \in s .. n |-> IF Set(k) THEN s - 1 ELSE LastSet(s, k) - 1]
             At(f, k) == (IF LastSet(s, k) = s THEN 0
                          ELSE IF IsOp(LastSet(s, k), {"set_address"}) THEN program[LastSet(s, k)].n
                          ELSE f[LastSet(s, k) - 1] + program[LastSet(s, k)].n) + Advance(k)
  <1>1. n \in Nat /\ Offsets = 1 .. n /\ s \in Nat /\ MinLength \in Nat /\ MaxOps \in Nat \ {0}
    BY ProgramFacts, LineProgramAssumption DEF Offsets
  <1>2. ASSUME NEW k \in s .. n
        PROVE  /\ LastSet(s, k) \in s .. k
               /\ LastSet(s, k) # s => program[LastSet(s, k)].n \in Int
               /\ Advance(k) \in Int
    <2>1. k \in Nat /\ s <= k
      BY <1>1
    <2>2. LastSet(s, k) \in s .. k /\ (LastSet(s, k) # s => IsOp(LastSet(s, k), Setters))
      BY <1>1, <2>1, LastSetFacts
    <2>3. LastSet(s, k) # s => LastSet(s, k) \in Offsets
      BY <1>1, <2>2
    <2>4. LastSet(s, k) # s => program[LastSet(s, k)].n \in Int
      BY <2>2, <2>3, SetterFacts
    <2>5. Advance(k) \in Int
      <3>1. Counted(s, k) \in Int
        BY CountedFacts
      <3>2. Counted(s, k) \div MaxOps \in Int
        BY <1>1, <3>1
      <3>3. \A x, y \in Int : x * y \in Int
        OBVIOUS
      <3>4. QED
        BY <1>1, <3>2, <3>3
    <2>6. QED
      BY <2>2, <2>4, <2>5
  <1> HIDE DEF n, Advance
  <1>3. a \in [s .. n -> Int] /\ p \in [s .. n -> Int] /\ \A k \in s .. n : p[k] < k
    <2>1. ASSUME NEW k \in s .. n
          PROVE  a[k] \in Int /\ p[k] \in Int /\ p[k] < k
      BY <1>1, <1>2
    <2>2. a \in [s .. n -> Int]
      BY <2>1
    <2>3. p \in [s .. n -> Int]
      BY <2>1
    <2>4. QED
      BY <2>1, <2>2, <2>3
  <1>4. ASSUME NEW f, NEW k \in s .. n
        PROVE  /\ p[k] < s <=> Set(k)
               /\ Set(k) => a[k] = At(f, k)
               /\ ~Set(k) => (p[k] \in s .. n /\ (f[p[k]] \in Int => f[p[k]] + a[k] = At(f, k)))
    <2>1. /\ LastSet(s, k) \in s .. k /\ Advance(k) \in Int
          /\ LastSet(s, k) # s => program[LastSet(s, k)].n \in Int
      BY <1>2
    <2>2. /\ p[k] = IF Set(k) THEN s - 1 ELSE LastSet(s, k) - 1
          /\ a[k] = (IF LastSet(s, k) = s THEN 0 ELSE program[LastSet(s, k)].n) + Advance(k)
      BY <1>4
    <2> HIDE DEF a, p
    <2>3. CASE Set(k)
      <3>1. p[k] < s
        BY <1>1, <2>2, <2>3
      <3>2. a[k] = At(f, k)
        BY <2>2, <2>3
      <3>3. QED
        BY <2>3, <3>1, <3>2
    <2>4. CASE ~Set(k)
      <3>1. p[k] = LastSet(s, k) - 1 /\ LastSet(s, k) # s
        BY <2>2, <2>4
      <3>2. p[k] \in s .. n /\ ~(p[k] < s)
        BY <1>1, <2>1, <3>1
      <3>3. ASSUME f[p[k]] \in Int PROVE f[p[k]] + a[k] = At(f, k)
        <4> DEFINE m == program[LastSet(s, k)].n
        <4>1. a[k] = m + Advance(k) /\ At(f, k) = (f[p[k]] + m) + Advance(k)
          BY <2>2, <2>4, <3>1
        <4>2. m \in Int
          BY <2>1, <3>1
        <4> HIDE DEF m, At
        <4>3. QED
          BY <2>1, <3>3, <4>1, <4>2
      <3>4. QED
        BY <2>4, <3>2, <3>3
    <2>5. QED
      BY <2>3, <2>4
  <1> HIDE DEF a, p, Set, At
  <1>5. PICK f \in [s .. n -> Int] : SumsAlong(f, s, n, a, p)
    BY <1>1, <1>3, RecursiveSum
  <1>6. \A k \in s .. n : f[k] = At(f, k)
    BY <1>4, <1>5 DEF SumsAlong
  <1>7. f = [k \in s .. n |-> At(f, k)]
    BY <1>6
  <1>8. Addresses(s) = [k \in s .. n |-> At(Addresses(s), k)]
    <2>1. Addresses(s) = CHOOSE h : h = [k \in s .. n |-> At(h, k)]
      BY DEF Addresses, At, Advance, n
    <2>2. QED
      BY <1>7, <2>1
  <1>9. \A k \in s .. n : Addresses(s)[k] = f[k]
    <2> DEFINE Bad == {k \in s .. n : Addresses(s)[k] # f[k]}
    <2>1. SUFFICES ASSUME Bad # {} PROVE FALSE
      OBVIOUS
    <2>2. Bad \in SUBSET Nat
      BY <1>1
    <2>3. PICK k \in Bad : \A j \in Bad : k <= j
      BY <2>1, <2>2, LeastExists
    <2>4. k \in s .. n /\ Addresses(s)[k] # f[k]
      BY <2>3
    <2>5. Addresses(s)[k] = At(Addresses(s), k) /\ f[k] = At(f, k)
      BY <1>6, <1>8, <2>4
    <2>6. LastSet(s, k) # s => Addresses(s)[LastSet(s, k) - 1] = f[LastSet(s, k) - 1]
      <3>1. LastSet(s, k) \in s .. k
        BY <1>2, <2>4
      <3>2. LastSet(s, k) # s => LastSet(s, k) - 1 \in s .. n /\ ~(k <= LastSet(s, k) - 1)
        BY <1>1, <2>4, <3>1
      <3>3. QED
        BY <2>3, <3>2
    <2>7. QED
      BY <2>4, <2>5, <2>6 DEF At
  <1>10. \A k \in s .. n : Addresses(s)[k] = At(Addresses(s), k) /\ Addresses(s)[k] \in Int
    BY <1>8, <1>9
  <1>11. QED
    BY <1>10 DEF At, Advance, n

LEMMA AddressSteps ==
    ASSUME program \in Programs, NEW s \in 0 .. Len(program)
    PROVE  /\ Addresses(s)[s] = 0
           /\ \A k \in s .. Len(program) : Addresses(s)[k] \in Int
           /\ \A k \in s .. Len(program) - 1 :
                 Addresses(s)[k + 1] =
                    IF IsOp(k + 1, Setters)
                    THEN (IF program[k + 1].op = "set_address" THEN program[k + 1].n
                          ELSE Addresses(s)[k] + program[k + 1].n)
                    ELSE Addresses(s)[k]
                           + MinLength * (((Counted(s, k) % MaxOps) + Operations(k + 1)) \div MaxOps)
  <1> DEFINE n == Len(program)
             Base(k) == IF LastSet(s, k) = s THEN 0
                        ELSE IF IsOp(LastSet(s, k), {"set_address"}) THEN program[LastSet(s, k)].n
                        ELSE Addresses(s)[LastSet(s, k) - 1] + program[LastSet(s, k)].n
             A == Addresses(s)
  <1>1. /\ n \in Nat /\ Offsets = 1 .. n /\ s \in Nat /\ s <= n
        /\ MinLength \in Nat /\ MaxOps \in Nat /\ MaxOps > 0
    BY ProgramFacts, LineProgramAssumption DEF Offsets
  <1>2. \A k \in s .. n : A[k] \in Int /\ A[k] = Base(k) + MinLength * (Counted(s, k) \div MaxOps)
    BY AddressesFacts
  <1>3. /\ Counted(s, s) = 0
        /\ \A k \in s .. n : Counted(s, k) \in Int
        /\ \A k \in s .. n - 1 : Counted(s, k + 1) = IF IsOp(k + 1, Setters) THEN 0
                                                     ELSE Counted(s, k) + Operations(k + 1)
    BY CountedFacts
  <1>4. \A k \in s .. n - 1 : /\ k \in s .. n /\ k + 1 \in s .. n /\ k + 1 \in 1 .. n
                             /\ k \in Nat /\ s <= k /\ (k + 1) - 1 = k /\ k + 1 # s
    BY <1>1
  <1>5. 0 \div MaxOps = 0 /\ MinLength * 0 = 0
    BY <1>1
  <1> HIDE DEF n, A
  <1>6. A[s] = 0
    <2>1. s \in s .. n /\ LastSet(s, s) = s
      BY <1>1, LastSetFacts
    <2>2. A[s] = 0 + MinLength * (0 \div MaxOps)
      BY <1>2, <1>3, <2>1
    <2>3. QED
      BY <1>5, <2>2
  <1>7. ASSUME NEW k \in s .. n - 1
        PROVE  A[k + 1] = IF IsOp(k + 1, Setters)
                          THEN (IF program[k + 1].op = "set_address" THEN program[k + 1].n
                                ELSE A[k] + program[k + 1].n)
                          ELSE A[k] + MinLength * (((Counted(s, k) % MaxOps) + Operations(k + 1)) \div MaxOps)
    <2>1. LastSet(s, k + 1) = IF IsOp(k + 1, Setters) THEN k + 1 ELSE LastSet(s, k)
      BY <1>1, <1>4, LastSetFacts
    <2>2. A[k + 1] = Base(k + 1) + MinLength * (Counted(s, k + 1) \div MaxOps) /\ A[k + 1] \in Int
      BY <1>2, <1>4
    <2>3. CASE IsOp(k + 1, Setters)
      <3>1. k + 1 \in Offsets
        BY <1>1, <1>4
      <3>2. /\ program[k + 1].n \in Int
            /\ IsOp(k + 1, {"set_address"}) <=> program[k + 1].op = "set_address"
        BY <2>3, <3>1, SetterFacts
      <3>3. Base(k + 1) = IF program[k + 1].op = "set_address" THEN program[k + 1].n
                          ELSE A[k] + program[k + 1].n
        BY <1>4, <2>1, <2>3, <3>2 DEF A
      <3>4. Counted(s, k + 1) = 0 /\ A[k] \in Int
        BY <1>2, <1>3, <1>4, <2>3
      <3> HIDE DEF Base
      <3>5. A[k + 1] = Base(k + 1) + 0
        BY <1>5, <2>2, <3>4
      <3>6. Base(k + 1) \in Int
        BY <3>2, <3>3, <3>4
      <3>7. QED
        BY <2>3, <3>3, <3>5, <3>6
    <2>4. CASE ~IsOp(k + 1, Setters)
      <3> DEFINE c == Counted(s, k)
                 o == Operations(k + 1)
      <3>1. Base(k + 1) = Base(k)
        BY <2>1, <2>4
      <3>2. Counted(s, k + 1) = c + o /\ c \in Int
        BY <1>3, <1>4, <2>4
      <3>3. o \in Int
        BY <1>1, <1>4, OpcodeSteps
      <3> HIDE DEF c, o
      <3>4. (c \div MaxOps) + (((c % MaxOps) + o) \div MaxOps) = (c + o) \div MaxOps
        BY <1>1, <3>2, <3>3, RemainderOfSum
      <3>5. c \div MaxOps \in Int /\ ((c % MaxOps) + o) \div MaxOps \in Int
        BY <1>1, <3>2, <3>3
      <3>6. \A x, y \in Int : MinLength * (x + y) = MinLength * x + MinLength * y
                             /\ MinLength * x \in Int
        BY <1>1
      <3>7. Base(k) \in Int
        <4>1. LastSet(s, k) \in s .. k /\ (LastSet(s, k) # s => IsOp(LastSet(s, k), Setters))
          BY <1>1, <1>4, LastSetFacts
        <4>2. LastSet(s, k) # s => LastSet(s, k) \in Offsets /\ LastSet(s, k) - 1 \in s .. n
          BY <1>1, <1>4, <4>1
        <4>3. LastSet(s, k) # s => program[LastSet(s, k)].n \in Int
          BY <4>1, <4>2, SetterFacts
        <4>4. LastSet(s, k) # s => A[LastSet(s, k) - 1] \in Int
          BY <1>2, <4>2
        <4>5. QED
          BY <4>3, <4>4 DEF A
      <3> HIDE DEF Base
      <3>8. /\ A[k + 1] = Base(k) + MinLength * ((c + o) \div MaxOps)
            /\ A[k] = Base(k) + MinLength * (c \div MaxOps)
        BY <1>2, <1>4, <2>2, <3>1, <3>2 DEF c
      <3>9. A[k + 1] = A[k] + MinLength * (((c % MaxOps) + o) \div MaxOps)
        <4> DEFINE x == c \div MaxOps
                   y == ((c % MaxOps) + o) \div MaxOps
        <4>1. MinLength * (x + y) = MinLength * x + MinLength * y
              /\ MinLength * x \in Int /\ MinLength * y \in Int
          BY <3>5, <3>6
        <4>2. A[k + 1] = Base(k) + MinLength * (x + y) /\ A[k] = Base(k) + MinLength * x
          BY <3>4, <3>8
        <4> HIDE DEF x, y
        <4>3. A[k + 1] = A[k] + MinLength * y
          BY <3>7, <4>1, <4>2
        <4>4. QED
          BY <4>3 DEF y
      <3>10. QED
        BY <2>4, <3>9 DEF c, o
    <2>5. QED
      BY <2>3, <2>4
  <1>8. QED
    BY <1>2, <1>6, <1>7 DEF n, A

(* What an opcode does to registers, field by field.                        *)
LEMMA ExecutedFields ==
    ASSUME program \in Programs, NEW k \in Offsets, NEW r \in Registers, ~r.end_sequence
    PROVE  LET e == Executed(r, program[k])
               o == program[k]
           IN  /\ e.address = IF IsOp(k, Setters)
                              THEN (IF o.op = "set_address" THEN o.n ELSE r.address + o.n)
                              ELSE r.address + MinLength * ((r.op_index + Operations(k)) \div MaxOps)
               /\ e.op_index = IF IsOp(k, Setters) THEN 0
                               ELSE (r.op_index + Operations(k)) % MaxOps
               /\ e.file_index = IF o.op = "set_file" THEN o.n ELSE r.file_index
               /\ e.line = (r.line + LineStep(k)) % Lines
               /\ e.column = IF o.op = "set_column" THEN o.n ELSE r.column
               /\ e.is_stmt <=> (IF IsOp(k, {"negate_stmt"}) THEN ~r.is_stmt ELSE r.is_stmt)
               /\ e.end_sequence <=> IsOp(k, {"end_sequence"})
               /\ e.discriminator = IF o.op = "set_discriminator" THEN o.n ELSE r.discriminator
  <1> DEFINE o == program[k]
             e == Executed(r, o)
             advanced == r.address + MinLength * ((r.op_index + Operations(k)) \div MaxOps)
             wound == (r.op_index + Operations(k)) % MaxOps
             line == (r.line + LineStep(k)) % Lines
  <1>1. /\ o.op \in Opcodes /\ o.n \in Int
        /\ MaxOps \in Nat /\ MaxOps > 0 /\ Lines \in Nat /\ Lines > 1 /\ MinLength \in Nat
    <2>1. o \in [op : Opcodes, n : Int]
      BY ProgramFacts
    <2> HIDE DEF o
    <2>2. o.op \in Opcodes /\ o.n \in Int
      BY <2>1
    <2>3. QED
      BY <2>2, LineProgramAssumption
  <1>2. /\ r.address \in Nat /\ r.op_index \in 0 .. MaxOps - 1 /\ r.line \in 0 .. Lines - 1
    BY DEF Registers
  <1>3. /\ Operations(k) = 0 => advanced = r.address /\ wound = r.op_index
        /\ LineStep(k) = 0 => line = r.line
    <2>1. \A a \in Nat, c \in 0 .. MaxOps - 1 :
             a + MinLength * ((c + 0) \div MaxOps) = a /\ (c + 0) % MaxOps = c
      <3>1. MinLength * 0 = 0 /\ \A c \in 0 .. MaxOps - 1 : (c + 0) \div MaxOps = 0
        BY <1>1
      <3>2. QED
        BY <1>1, <3>1
    <2>2. \A l \in 0 .. Lines - 1 : (l + 0) % Lines = l
      BY <1>1
    <2>3. QED
      BY <1>2, <2>1, <2>2
  <1>4. /\ o.op = "special" => Operations(k) = SpecialAdvance(o.n) /\ LineStep(k) = SpecialLine(o.n)
        /\ o.op = "advance_pc" => Operations(k) = o.n
        /\ o.op = "const_add_pc" => Operations(k) = (255 - OpcodeBase) \div LineRange
        /\ o.op = "advance_line" => LineStep(k) = o.n
        /\ o.op \notin {"special", "advance_pc", "const_add_pc"} => Operations(k) = 0
        /\ o.op \notin {"special", "advance_line"} => LineStep(k) = 0
    BY <1>1 DEF Operations, LineStep, IsOp, SpecialAdvance
  <1>5. \A ops : IsOp(k, ops) <=> o.op \in ops
    BY DEF IsOp
  <1> HIDE DEF o
  <1> SUFFICES
         /\ e.address = IF o.op \in Setters
                         THEN (IF o.op = "set_address" THEN o.n ELSE r.address + o.n)
                         ELSE advanced
         /\ e.op_index = IF o.op \in Setters THEN 0 ELSE wound
         /\ e.file_index = IF o.op = "set_file" THEN o.n ELSE r.file_index
         /\ e.line = line
         /\ e.column = IF o.op = "set_column" THEN o.n ELSE r.column
         /\ e.is_stmt <=> (IF o.op = "negate_stmt" THEN ~r.is_stmt ELSE r.is_stmt)
         /\ e.end_sequence <=> o.op = "end_sequence"
         /\ e.discriminator = IF o.op = "set_discriminator" THEN o.n ELSE r.discriminator
    BY <1>5 DEF o
  <1>6. CASE o.op \in {"special", "advance_pc", "const_add_pc"}
    <2> DEFINE s == Operations(k)
    <2>1. o.op = "special" => e = LineAdvanced(Advanced(r, s), LineStep(k))
      BY <1>4 DEF Executed
    <2>2. o.op # "special" => e = Advanced(r, s)
      BY <1>4, <1>6 DEF Executed
    <2>3. o.op # "special" => LineStep(k) = 0
      BY <1>4, <1>6
    <2> HIDE DEF s, e
    <2>4. CASE o.op = "special"
      <3>1. /\ e.address = advanced /\ e.op_index = wound /\ e.file_index = r.file_index
            /\ e.line = line /\ e.column = r.column /\ e.is_stmt = r.is_stmt
            /\ e.end_sequence = r.end_sequence /\ e.discriminator = r.discriminator
        BY <2>1, <2>4 DEF LineAdvanced, Advanced, Registers, s
      <3>2. QED
        BY <2>4, <3>1 DEF Setters
    <2>5. CASE o.op # "special"
      <3>1. /\ e.address = advanced /\ e.op_index = wound /\ e.file_index = r.file_index
            /\ e.line = r.line /\ e.column = r.column /\ e.is_stmt = r.is_stmt
            /\ e.end_sequence = r.end_sequence /\ e.discriminator = r.discriminator
        BY <2>2, <2>5 DEF Advanced, Registers, s
      <3>2. QED
        BY <1>3, <1>6, <2>3, <2>5, <3>1 DEF Setters
    <2>6. QED
      BY <2>4, <2>5
  <1>7. CASE o.op = "set_address"
    <2>1. /\ e.address = o.n /\ e.op_index = 0 /\ e.file_index = r.file_index
          /\ e.line = r.line /\ e.column = r.column /\ e.is_stmt = r.is_stmt
          /\ e.end_sequence = r.end_sequence /\ e.discriminator = r.discriminator
      BY <1>7 DEF Executed, Registers
    <2> HIDE DEF e, advanced, wound, line
    <2>2. QED
      BY <1>3, <1>4, <1>7, <2>1 DEF Setters
  <1>8. CASE o.op = "fixed_advance_pc"
    <2>1. /\ e.address = r.address + o.n /\ e.op_index = 0 /\ e.file_index = r.file_index
          /\ e.line = r.line /\ e.column = r.column /\ e.is_stmt = r.is_stmt
          /\ e.end_sequence = r.end_sequence /\ e.discriminator = r.discriminator
      BY <1>8 DEF Executed, Registers
    <2> HIDE DEF e, advanced, wound, line
    <2>2. QED
      BY <1>3, <1>4, <1>8, <2>1 DEF Setters
  <1>9. CASE o.op = "advance_line"
    <2>1. /\ e.address = r.address /\ e.op_index = r.op_index /\ e.file_index = r.file_index
          /\ e.line = line /\ e.column = r.column /\ e.is_stmt = r.is_stmt
          /\ e.end_sequence = r.end_sequence /\ e.discriminator = r.discriminator
      BY <1>9, <1>4 DEF Executed, LineAdvanced, Registers
    <2> HIDE DEF e, advanced, wound, line
    <2>2. QED
      BY <1>3, <1>4, <1>9, <2>1 DEF Setters
  <1>10. CASE o.op = "set_file"
    <2>1. /\ e.address = r.address /\ e.op_index = r.op_index /\ e.file_index = o.n
          /\ e.line = r.line /\ e.column = r.column /\ e.is_stmt = r.is_stmt
          /\ e.end_sequence = r.end_sequence /\ e.discriminator = r.discriminator
      BY <1>10 DEF Executed, Registers
    <2> HIDE DEF e, advanced, wound, line
    <2>2. QED
      BY <1>3, <1>4, <1>10, <2>1 DEF Setters
  <1>11. CASE o.op = "set_column"
    <2>1. /\ e.address = r.address /\ e.op_index = r.op_index /\ e.file_index = r.file_index
          /\ e.line = r.line /\ e.column = o.n /\ e.is_stmt = r.is_stmt
          /\ e.end_sequence = r.end_sequence /\ e.discriminator = r.discriminator
      BY <1>11 DEF Executed, Registers
    <2> HIDE DEF e, advanced, wound, line
    <2>2. QED
      BY <1>3, <1>4, <1>11, <2>1 DEF Setters
  <1>12. CASE o.op = "negate_stmt"
    <2>1. /\ e.address = r.address /\ e.op_index = r.op_index /\ e.file_index = r.file_index
          /\ e.line = r.line /\ e.column = r.column /\ e.is_stmt = ~r.is_stmt
          /\ e.end_sequence = r.end_sequence /\ e.discriminator = r.discriminator
      BY <1>12 DEF Executed, Registers
    <2> HIDE DEF e, advanced, wound, line
    <2>2. QED
      BY <1>3, <1>4, <1>12, <2>1 DEF Setters
  <1>13. CASE o.op = "set_discriminator"
    <2>1. /\ e.address = r.address /\ e.op_index = r.op_index /\ e.file_index = r.file_index
          /\ e.line = r.line /\ e.column = r.column /\ e.is_stmt = r.is_stmt
          /\ e.end_sequence = r.end_sequence /\ e.discriminator = o.n
      BY <1>13 DEF Executed, Registers
    <2> HIDE DEF e, advanced, wound, line
    <2>2. QED
      BY <1>3, <1>4, <1>13, <2>1 DEF Setters
  <1>14. CASE o.op = "end_sequence"
    <2>1. /\ e.address = r.address /\ e.op_index = r.op_index /\ e.file_index = r.file_index
          /\ e.line = r.line /\ e.column = r.column /\ e.is_stmt = r.is_stmt
          /\ e.end_sequence = TRUE /\ e.discriminator = r.discriminator
      BY <1>14 DEF Executed, Registers
    <2> HIDE DEF e, advanced, wound, line
    <2>2. QED
      BY <1>3, <1>4, <1>14, <2>1 DEF Setters
  <1>15. CASE o.op \in {"copy", "define_file"}
    <2>1. e = r
      BY <1>15 DEF Executed
    <2> HIDE DEF e, advanced, wound, line
    <2>2. QED
      BY <1>3, <1>4, <1>15, <2>1 DEF Setters
  <1>16. QED
    BY <1>1, <1>6, <1>7, <1>8, <1>9, <1>10, <1>11, <1>12, <1>13, <1>14, <1>15 DEF Opcodes, Standard

(* Registers that agree, field by field.                                    *)
Fields(r, s, row, k) ==
    /\ r.address = Addresses(s)[k]
    /\ r.op_index = Counted(s, k) % MaxOps
    /\ r.file_index = LastIn(s + 1 .. k, "set_file", 1)
    /\ r.line = (1 + LinesTo[k] - LinesTo[s]) % Lines
    /\ r.column = LastIn(s + 1 .. k, "set_column", 0)
    /\ r.is_stmt <=> (DefaultIsStmt <=> Cardinality(OpsIn(s + 1 .. k, {"negate_stmt"})) % 2 = 0)
    /\ r.discriminator = LastIn(row + 1 .. k, "set_discriminator", 0)

LEMMA AgreesBehind ==
    ASSUME NEW r \in Registers, NEW s, NEW row, NEW k
    PROVE  Agrees(r, RegistersBehind(s, row, k)) <=> Fields(r, s, row, k) /\ ~r.end_sequence
  <1> DEFINE q == RegistersBehind(s, row, k)
             even == Cardinality(OpsIn(s + 1 .. k, {"negate_stmt"})) % 2 = 0
  <1>1. /\ q.address = Addresses(s)[k] /\ q.op_index = Counted(s, k) % MaxOps
        /\ q.file_index = LastIn(s + 1 .. k, "set_file", 1)
        /\ q.line = (1 + LinesTo[k] - LinesTo[s]) % Lines
        /\ q.column = LastIn(s + 1 .. k, "set_column", 0)
        /\ q.is_stmt = (DefaultIsStmt = even) /\ q.end_sequence = FALSE
        /\ q.discriminator = LastIn(row + 1 .. k, "set_discriminator", 0)
    BY DEF RegistersBehind
  <1>2. DOMAIN q = {"address", "op_index", "file_index", "line", "column", "is_stmt",
                    "end_sequence", "discriminator"}
    BY DEF RegistersBehind
  <1>3. r.is_stmt \in BOOLEAN /\ r.end_sequence \in BOOLEAN /\ DefaultIsStmt \in BOOLEAN
    BY LineProgramAssumption DEF Registers
  <1> HIDE DEF q, even
  <1>4. (r.is_stmt = q.is_stmt) <=> (r.is_stmt <=> (DefaultIsStmt <=> even))
    <2>1. \A x, y, z \in BOOLEAN : (x = (y = z)) <=> (x <=> (y <=> z))
      OBVIOUS
    <2>2. even \in BOOLEAN
      BY DEF even
    <2>3. QED
      BY <1>1, <1>3, <2>1, <2>2
  <1>5. (r.end_sequence = q.end_sequence) <=> ~r.end_sequence
    BY <1>1, <1>3
  <1>6. Agrees(r, q) <=> /\ r.address = q.address /\ r.op_index = q.op_index
                         /\ r.file_index = q.file_index /\ r.line = q.line /\ r.column = q.column
                         /\ r.is_stmt = q.is_stmt /\ r.end_sequence = q.end_sequence
                         /\ r.discriminator = q.discriminator
    BY <1>2 DEF Agrees
  <1>7. QED
    BY <1>1, <1>4, <1>5, <1>6 DEF Fields, q, even

LEMMA AgreesRow ==
    ASSUME NEW r \in Registers, NEW j
    PROVE  Agrees(r, RowAt(j)) <=> /\ Fields(r, SequenceStart(j), RowStart(j), j)
                                   /\ r.end_sequence <=> IsOp(j, {"end_sequence"})
  <1> DEFINE b == RegistersBehind(SequenceStart(j), RowStart(j), j)
             q == RowAt(j)
             names == {"address", "op_index", "file_index", "line", "column", "is_stmt",
                       "discriminator"}
  <1>1. DOMAIN b = names \union {"end_sequence"}
    BY DEF RegistersBehind
  <1>2. q = [b EXCEPT !.end_sequence = IsOp(j, {"end_sequence"})]
    BY DEF RowAt
  <1> HIDE DEF b, q
  <1>3. /\ DOMAIN q = DOMAIN b /\ q.end_sequence = IsOp(j, {"end_sequence"})
        /\ \A f \in names : q[f] = b[f]
    BY <1>1, <1>2
  <1>4. r.end_sequence \in BOOLEAN /\ IsOp(j, {"end_sequence"}) \in BOOLEAN
    BY DEF Registers, IsOp
  <1>5. Agrees(r, q) <=> /\ \A f \in names : r[f] = b[f]
                         /\ r.end_sequence = q.end_sequence
    BY <1>1, <1>3 DEF Agrees
  <1> DEFINE t == [r EXCEPT !.end_sequence = FALSE]
  <1>6. t \in Registers /\ ~t.end_sequence /\ \A f \in names : t[f] = r[f]
    BY DEF Registers
  <1>7. b.end_sequence = FALSE
    BY DEF b, RegistersBehind
  <1>8. t.end_sequence = FALSE
    BY DEF Registers
  <1>9. Fields(t, SequenceStart(j), RowStart(j), j) <=> Fields(r, SequenceStart(j), RowStart(j), j)
    <2> HIDE DEF t
    <2>1. QED
      BY <1>6 DEF Fields
  <1> HIDE DEF t
  <1>10. Agrees(t, b) <=> Fields(t, SequenceStart(j), RowStart(j), j)
    BY <1>6, AgreesBehind DEF b
  <1>11. Agrees(t, b) <=> \A f \in names : r[f] = b[f]
    BY <1>1, <1>6, <1>7, <1>8 DEF Agrees
  <1>12. QED
    BY <1>3, <1>4, <1>5, <1>9, <1>10, <1>11 DEF q

(* One opcode on.                                                           *)
LEMMA FieldsStep ==
    ASSUME program \in Programs, NEW k \in 0 .. Len(program) - 1, NEW s \in 0 .. k,
           NEW row \in 0 .. k, NEW r \in Registers, ~r.end_sequence, Fields(r, s, row, k)
    PROVE  /\ Fields(Executed(r, program[k + 1]), s, row, k + 1)
           /\ Executed(r, program[k + 1]).end_sequence <=> IsOp(k + 1, {"end_sequence"})
  <1> DEFINE e == Executed(r, program[k + 1])
             o == program[k + 1]
             n == Len(program)
  <1>1. /\ n \in Nat /\ k \in Nat /\ s \in Nat /\ s <= k /\ k + 1 \in Offsets /\ (k + 1) - 1 = k
        /\ s \in 0 .. n /\ k \in 0 .. n /\ k \in s .. n - 1 /\ k \in s .. n
        /\ row \in Nat /\ row <= k
        /\ MaxOps \in Nat /\ MaxOps > 0 /\ Lines \in Nat /\ Lines > 1
    BY ProgramFacts, LineProgramAssumption DEF Offsets
  <1>2. /\ e.address = IF IsOp(k + 1, Setters)
                        THEN (IF o.op = "set_address" THEN o.n ELSE r.address + o.n)
                        ELSE r.address + MinLength * ((r.op_index + Operations(k + 1)) \div MaxOps)
        /\ e.op_index = IF IsOp(k + 1, Setters) THEN 0
                         ELSE (r.op_index + Operations(k + 1)) % MaxOps
        /\ e.file_index = IF o.op = "set_file" THEN o.n ELSE r.file_index
        /\ e.line = (r.line + LineStep(k + 1)) % Lines
        /\ e.column = IF o.op = "set_column" THEN o.n ELSE r.column
        /\ e.is_stmt <=> (IF IsOp(k + 1, {"negate_stmt"}) THEN ~r.is_stmt ELSE r.is_stmt)
        /\ e.end_sequence <=> IsOp(k + 1, {"end_sequence"})
        /\ e.discriminator = IF o.op = "set_discriminator" THEN o.n ELSE r.discriminator
    BY <1>1, ExecutedFields
  <1>3. Operations(k + 1) \in Int /\ LineStep(k + 1) \in Int
    BY <1>1, OpcodeSteps
  <1> HIDE DEF e, o, n
  <1>4. e.address = Addresses(s)[k + 1]
    <2>1. Addresses(s)[k + 1] =
             IF IsOp(k + 1, Setters)
             THEN (IF o.op = "set_address" THEN o.n ELSE Addresses(s)[k] + o.n)
             ELSE Addresses(s)[k]
                    + MinLength * (((Counted(s, k) % MaxOps) + Operations(k + 1)) \div MaxOps)
      BY <1>1, AddressSteps DEF n, o
    <2>2. r.address = Addresses(s)[k] /\ r.op_index = Counted(s, k) % MaxOps
      BY DEF Fields
    <2>3. QED
      BY <1>2, <2>1, <2>2
  <1>5. e.op_index = Counted(s, k + 1) % MaxOps
    <2>1. /\ Counted(s, k) \in Int
          /\ Counted(s, k + 1) = IF IsOp(k + 1, Setters) THEN 0
                                 ELSE Counted(s, k) + Operations(k + 1)
      BY <1>1, CountedFacts DEF n
    <2>2. ((Counted(s, k) % MaxOps) + Operations(k + 1)) % MaxOps
             = (Counted(s, k) + Operations(k + 1)) % MaxOps
      BY <1>1, <1>3, <2>1, RemainderOfSum
    <2>3. r.op_index = Counted(s, k) % MaxOps /\ 0 % MaxOps = 0
      BY <1>1 DEF Fields
    <2>4. QED
      BY <1>2, <2>1, <2>2, <2>3
  <1>6. e.line = (1 + LinesTo[k + 1] - LinesTo[s]) % Lines
    <2> DEFINE x == 1 + LinesTo[k] - LinesTo[s]
    <2>1. /\ LinesTo \in [0 .. n -> Int] /\ LinesTo[k + 1] = LinesTo[k] + LineStep(k + 1)
      BY <1>1, TotalsFacts DEF n
    <2>2. LinesTo[k] \in Int /\ LinesTo[s] \in Int
      BY <1>1, <2>1
    <2>3. x \in Int /\ 1 + LinesTo[k + 1] - LinesTo[s] = x + LineStep(k + 1)
      BY <1>3, <2>1, <2>2
    <2>4. r.line = x % Lines
      BY DEF Fields
    <2>7. x \in Int
      BY <2>3
    <2> HIDE DEF x
    <2>5. ((x % Lines) + LineStep(k + 1)) % Lines = (x + LineStep(k + 1)) % Lines
      <3>1. Lines \in Nat /\ Lines > 0
        BY <1>1
      <3>2. \A a, b \in Int : ((a % Lines) + b) % Lines = (a + b) % Lines
        BY <3>1, RemainderOfSum
      <3>3. QED
        BY <1>3, <2>7, <3>2, Zenon
    <2>6. QED
      BY <1>2, <2>3, <2>4, <2>5
  <1>7. e.is_stmt <=>
           (DefaultIsStmt <=> Cardinality(OpsIn(s + 1 .. k + 1, {"negate_stmt"})) % 2 = 0)
    <2> DEFINE c == Cardinality(OpsIn(s + 1 .. k, {"negate_stmt"}))
               d == Cardinality(OpsIn(s + 1 .. k + 1, {"negate_stmt"}))
    <2>1. c \in Nat /\ d = IF IsOp(k + 1, {"negate_stmt"}) THEN c + 1 ELSE c
      BY <1>1, NegationsFacts
    <2>2. r.is_stmt <=> (DefaultIsStmt <=> c % 2 = 0)
      BY DEF Fields
    <2> HIDE DEF c, d
    <2>3. (c + 1) % 2 = 0 <=> ~(c % 2 = 0)
      BY <2>1
    <2>4. (d % 2 = 0) <=> (IF IsOp(k + 1, {"negate_stmt"}) THEN ~(c % 2 = 0) ELSE c % 2 = 0)
      BY <2>1, <2>3
    <2>5. e.is_stmt <=> (DefaultIsStmt <=> d % 2 = 0)
      BY <1>2, <2>2, <2>4
    <2>6. QED
      BY <2>5 DEF d
  <1>8. /\ e.file_index = LastIn(s + 1 .. k + 1, "set_file", 1)
        /\ e.column = LastIn(s + 1 .. k + 1, "set_column", 0)
    BY <1>1, <1>2, LastInFacts DEF Fields, o
  <1>9. e.discriminator = LastIn(row + 1 .. k + 1, "set_discriminator", 0)
    <2>1. LastIn(row + 1 .. k + 1, "set_discriminator", 0)
             = IF o.op = "set_discriminator" THEN o.n ELSE LastIn(row + 1 .. k, "set_discriminator", 0)
      <3>1. row \in Nat /\ k \in Nat /\ row <= k
        BY <1>1
      <3>2. QED
        BY <3>1, LastInFacts DEF o
    <2>2. r.discriminator = LastIn(row + 1 .. k, "set_discriminator", 0)
      BY DEF Fields
    <2>3. QED
      BY <1>2, <2>1, <2>2
  <1>10. QED
    BY <1>2, <1>4, <1>5, <1>6, <1>7, <1>8, <1>9 DEF Fields, e

(* Where a sequence starts, and behind a row.                               *)
LEMMA FieldsReset ==
    ASSUME program \in Programs, NEW k \in 0 .. Len(program)
    PROVE  Fields(Reset, k, k, k)
  <1>1. k \in Nat /\ k <= k /\ MaxOps \in Nat /\ MaxOps > 0 /\ Lines \in Nat /\ Lines > 1
    BY ProgramFacts, LineProgramAssumption
  <1>2. Addresses(k)[k] = 0
    BY AddressSteps
  <1>3. Counted(k, k) = 0 /\ 0 % MaxOps = 0
    BY <1>1, CountedFacts
  <1>4. \A o, d : LastIn(k + 1 .. k, o, d) = d
    <2>1. k \in Nat /\ k <= k
      BY <1>1
    <2>2. QED
      BY <2>1, LastInFacts
  <1>5. (1 + LinesTo[k] - LinesTo[k]) % Lines = 1
    <2>1. LinesTo[k] \in Int
      BY TotalsFacts
    <2>2. 1 + LinesTo[k] - LinesTo[k] = 1 /\ 1 % Lines = 1
      BY <1>1, <2>1
    <2>3. QED
      BY <2>2
  <1>6. Cardinality(OpsIn(k + 1 .. k, {"negate_stmt"})) % 2 = 0
    <2>1. Cardinality(OpsIn(k + 1 .. k, {"negate_stmt"})) = 0
      BY <1>1, NegationsFacts
    <2>2. 0 % 2 = 0
      OBVIOUS
    <2>3. QED
      BY <2>1, <2>2
  <1>7. /\ Reset.address = 0 /\ Reset.op_index = 0 /\ Reset.file_index = 1 /\ Reset.line = 1
        /\ Reset.column = 0 /\ (Reset.is_stmt <=> DefaultIsStmt) /\ Reset.discriminator = 0
    BY DEF Reset
  <1>8. QED
    BY <1>2, <1>3, <1>4, <1>5, <1>6, <1>7 DEF Fields

LEMMA FieldsBehind ==
    ASSUME NEW r \in Registers, NEW s, NEW row, NEW k \in Nat, Fields(r, s, row, k)
    PROVE  Fields([r EXCEPT !.discriminator = 0], s, k, k)
  <1> DEFINE t == [r EXCEPT !.discriminator = 0]
  <1>1. /\ t.address = r.address /\ t.op_index = r.op_index /\ t.file_index = r.file_index
        /\ t.line = r.line /\ t.column = r.column /\ t.is_stmt = r.is_stmt
        /\ t.discriminator = 0
    BY DEF Registers
  <1>2. LastIn(k + 1 .. k, "set_discriminator", 0) = 0
    <2>1. k <= k
      OBVIOUS
    <2>2. QED
      BY <2>1, LastInFacts
  <1> HIDE DEF t
  <1>3. Fields(t, s, k, k)
    BY <1>1, <1>2 DEF Fields
  <1>4. QED
    BY <1>3 DEF t

(* Registers that are right between rows, and at a row.                     *)
Behind(r, k) == Agrees(r, RegistersBehind(SequenceStart(k + 1), RowStart(k + 1), k))
IsRow(r, k)  == Agrees(r, RowAt(k))

LEMMA StandardAt ==
    /\ RegistersAreStandard <=> \A r, k : r = regs /\ k = cur => Behind(r, k)
    /\ RowsAreStandard <=> \A r, k : r = entry /\ k = pos => (k > 0 => IsRow(r, k))
  <1>1. RegistersAreStandard <=> Behind(regs, cur)
    BY DEF RegistersAreStandard, Behind
  <1>2. RowsAreStandard <=> (pos > 0 => IsRow(entry, pos))
    BY DEF RowsAreStandard, IsRow
  <1>3. QED
    BY <1>1, <1>2, Zenon

LEMMA ProgramKept ==
    ASSUME UNCHANGED program, NEW r, NEW k
    PROVE  /\ Behind(r, k)' <=> Behind(r, k)
           /\ IsRow(r, k)' <=> IsRow(r, k)
  BY DEF Behind, IsRow, RowAt, RegistersBehind, Addresses, Counted, LastSet, LastIn, OpsIn, IsOp,
         OperationsTo, LinesTo, Operations, LineStep, SequenceStart, RowStart, Emitting, Offsets

(* A sequence starts with its registers reset.                              *)
LEMMA ResetIsBehind ==
    ASSUME program \in Programs
    PROVE  Behind(Reset, 0)
  <1>1. SequenceStart(0 + 1) = 0 /\ RowStart(0 + 1) = 0
    <2>1. 0 + 1 = 1
      OBVIOUS
    <2>2. 0 \in Nat
      OBVIOUS
    <2>3. SequenceStart(1) = 0 /\ RowStart(1) = 0
      BY <2>2, StartFacts
    <2>4. QED
      BY <2>1, <2>3
  <1>2. 0 \in 0 .. Len(program)
    BY ProgramFacts
  <1>3. Fields(Reset, 0, 0, 0)
    BY <1>2, FieldsReset
  <1>4. Agrees(Reset, RegistersBehind(0, 0, 0))
    <2>1. ~Reset.end_sequence
      BY DEF Reset
    <2>2. QED
      BY <1>3, <2>1, ResetFacts, AgreesBehind
  <1>5. QED
    BY <1>1, <1>4 DEF Behind

(* What an opcode does to registers that are right.                         *)
LEMMA OpcodeIsStandard ==
    ASSUME TypeOK, RegistersAreStandard, Reading
    PROVE  /\ ~Emits(Opcode) => Behind(Executed(regs, Opcode), cur + 1)
           /\ Emits(Opcode) => /\ Behind(BehindRow(Executed(regs, Opcode), Opcode), cur + 1)
                               /\ IsRow(Executed(regs, Opcode), cur + 1)
  <1> DEFINE s == SequenceStart(cur + 1)
             w == RowStart(cur + 1)
             k == cur + 1
             e == Executed(regs, Opcode)
  <1>1. /\ program \in Programs /\ regs \in Registers /\ cur \in Nat
        /\ Len(program) \in Nat /\ k \in Offsets /\ Opcode = program[k]
        /\ e \in Registers /\ BehindRow(e, Opcode) \in Registers
    BY OpcodeFacts DEF TypeOK
  <1>2. /\ cur \in 0 .. Len(program) - 1 /\ k \in 0 .. Len(program) /\ k \in Nat
    BY <1>1 DEF Offsets
  <1>3. /\ s \in 0 .. cur /\ w \in 0 .. cur
        /\ SequenceStart(k + 1) = IF IsOp(k, {"end_sequence"}) THEN k ELSE s
        /\ RowStart(k + 1) = IF k \in Emitting THEN k ELSE w
    BY <1>1, StartFacts
  <1>4. Fields(regs, s, w, cur) /\ ~regs.end_sequence
    BY <1>1, AgreesBehind DEF RegistersAreStandard
  <1>5. Fields(e, s, w, k) /\ (e.end_sequence <=> IsOp(k, {"end_sequence"}))
    <2> HIDE DEF s, w
    <2>1. QED
      BY <1>1, <1>2, <1>3, <1>4, FieldsStep
  <1>6. /\ IsOp(k, {"end_sequence"}) <=> Opcode.op = "end_sequence"
        /\ IsOp(k, {"end_sequence"}) => Emits(Opcode)
        /\ Emits(Opcode) <=> k \in Emitting
    BY <1>1 DEF IsOp, Emits, Emitting
  <1> HIDE DEF s, w, k, e
  <1>7. CASE ~Emits(Opcode)
    <2>1. SequenceStart(k + 1) = s /\ RowStart(k + 1) = w /\ ~e.end_sequence
      BY <1>3, <1>5, <1>6, <1>7
    <2>2. Agrees(e, RegistersBehind(s, w, k))
      BY <1>1, <1>5, <2>1, AgreesBehind
    <2>3. Behind(e, k)
      BY <2>1, <2>2 DEF Behind
    <2>4. QED
      BY <1>7, <2>3 DEF k, e
  <1>8. CASE Emits(Opcode)
    <2>1. RowStart(k + 1) = k
      BY <1>3, <1>6, <1>8
    <2>2. IsRow(e, k)
      <3>1. s = SequenceStart(k) /\ w = RowStart(k)
        BY DEF s, w, k
      <3>2. QED
        BY <1>1, <1>5, <3>1, AgreesRow DEF IsRow
    <2>3. CASE Opcode.op = "end_sequence"
      <3>1. SequenceStart(k + 1) = k /\ BehindRow(e, Opcode) = Reset
        BY <1>3, <1>6, <2>3 DEF BehindRow
      <3>2. Fields(Reset, k, k, k) /\ ~Reset.end_sequence
        BY <1>1, <1>2, FieldsReset DEF Reset
      <3>3. Agrees(Reset, RegistersBehind(k, k, k))
        BY <3>2, ResetFacts, AgreesBehind
      <3>4. Behind(BehindRow(e, Opcode), k)
        BY <2>1, <3>1, <3>3 DEF Behind
      <3>5. QED
        BY <1>8, <2>2, <3>4 DEF k, e
    <2>4. CASE Opcode.op # "end_sequence"
      <3> DEFINE t == [e EXCEPT !.discriminator = 0]
      <3>1. SequenceStart(k + 1) = s /\ BehindRow(e, Opcode) = t
        BY <1>3, <1>6, <2>4 DEF BehindRow
      <3>2. Fields(t, s, k, k)
        BY <1>1, <1>2, <1>5, FieldsBehind
      <3>3. ~t.end_sequence
        <4>1. t.end_sequence = e.end_sequence
          BY <1>1 DEF Registers
        <4>2. QED
          BY <1>5, <1>6, <2>4, <4>1
      <3> HIDE DEF t
      <3>4. Agrees(t, RegistersBehind(s, k, k))
        BY <1>1, <3>1, <3>2, <3>3, AgreesBehind
      <3>5. Behind(BehindRow(e, Opcode), k)
        BY <2>1, <3>1, <3>4 DEF Behind
      <3>6. QED
        BY <1>8, <2>2, <3>5 DEF k, e
    <2>5. QED
      BY <2>3, <2>4
  <1>9. QED
    BY <1>7, <1>8

LEMMA RowsInit == TypeOK /\ Init => RegistersAreStandard /\ RowsAreStandard
  <1>1. SUFFICES ASSUME TypeOK, Init PROVE RegistersAreStandard /\ RowsAreStandard
    OBVIOUS
  <1>2. Behind(Reset, 0)
    BY <1>1, ResetIsBehind DEF Init
  <1>3. regs = Reset /\ cur = 0 /\ pos = 0
    BY <1>1 DEF Init
  <1>4. QED
    BY <1>2, <1>3, StandardAt

LEMMA RowsStep ==
    TypeOK /\ RegistersAreStandard /\ RowsAreStandard /\ [Next]_vars
      => RegistersAreStandard' /\ RowsAreStandard'
  <1>1. SUFFICES ASSUME TypeOK, RegistersAreStandard, RowsAreStandard, [Next]_vars
                 PROVE  RegistersAreStandard' /\ RowsAreStandard'
    OBVIOUS
  <1>2. /\ \A r, k : r = regs /\ k = cur => Behind(r, k)
        /\ \A r, k : r = entry /\ k = pos => (k > 0 => IsRow(r, k))
    BY <1>1, StandardAt
  <1>3. SUFFICES /\ \A r, k : r = regs' /\ k = cur' => Behind(r, k)'
                 /\ \A r, k : r = entry' /\ k = pos' => (k > 0 => IsRow(r, k)')
    <2>1. (/\ RegistersAreStandard <=> \A r, k : r = regs /\ k = cur => Behind(r, k)
           /\ RowsAreStandard <=> \A r, k : r = entry /\ k = pos => (k > 0 => IsRow(r, k)))'
      BY StandardAt, PTL
    <2>2. QED
      BY <2>1
  <1>4. UNCHANGED program
    BY <1>1 DEF Next, Read, StandardOpcode, DefineFile, EmitRow, FindAddressBegin, GetFile,
                Begin, vars
  <1>5. \A r, k : (Behind(r, k)' <=> Behind(r, k)) /\ (IsRow(r, k)' <=> IsRow(r, k))
    BY <1>4, ProgramKept
  <1>6. SUFFICES /\ \A r, k : r = regs' /\ k = cur' => Behind(r, k)
                 /\ \A r, k : r = entry' /\ k = pos' => (k > 0 => IsRow(r, k))
    BY <1>5, Zenon
  <1>7. CASE UNCHANGED vars
    BY <1>2, <1>7 DEF vars
  <1>8. CASE (\E a \in Queries : FindAddressBegin(a)) \/ (\E i \in Indices : GetFile(i))
    <2>1. cur' = 0 /\ pos' = 0 /\ regs' = Reset
      BY <1>8 DEF FindAddressBegin, GetFile, Begin
    <2>2. Behind(Reset, 0)
      BY <1>1, ResetIsBehind DEF TypeOK
    <2>3. QED
      BY <2>1, <2>2
  <1>9. CASE StandardOpcode
    <2>1. Reading /\ regs' = Executed(regs, Opcode) /\ cur' = cur + 1 /\ UNCHANGED <<entry, pos>>
      BY <1>9 DEF StandardOpcode
    <2>2. ~Emits(Opcode)
      BY <1>9 DEF StandardOpcode, Standard, Emits
    <2>3. Behind(Executed(regs, Opcode), cur + 1)
      BY <1>1, <2>1, <2>2, OpcodeIsStandard
    <2>4. QED
      BY <1>2, <2>1, <2>3
  <1>10. CASE DefineFile
    <2>1. Reading /\ cur' = cur + 1 /\ UNCHANGED <<regs, entry, pos>>
      BY <1>10 DEF DefineFile
    <2>2. ~Emits(Opcode) /\ Executed(regs, Opcode) = regs
      BY <1>10 DEF DefineFile, Executed, Emits
    <2>3. Behind(regs, cur + 1)
      BY <1>1, <2>1, <2>2, OpcodeIsStandard
    <2>4. QED
      BY <1>2, <2>1, <2>3
  <1>11. CASE EmitRow
    <2> DEFINE row == Executed(regs, Opcode)
    <2>1. /\ Reading /\ Emits(Opcode) /\ cur' = cur + 1 /\ regs' = BehindRow(row, Opcode)
          /\ UNCHANGED <<entry, pos>> \/ (entry' = row /\ pos' = cur')
      BY <1>11 DEF EmitRow
    <2>2. Behind(BehindRow(row, Opcode), cur + 1) /\ IsRow(row, cur + 1)
      BY <1>1, <2>1, OpcodeIsStandard
    <2> HIDE DEF row
    <2>3. QED
      BY <1>2, <2>1, <2>2
  <1>12. QED
    BY <1>1, <1>7, <1>8, <1>9, <1>10, <1>11 DEF Next, Read

LEMMA RowsAlways == Spec => [](TypeOK /\ RegistersAreStandard /\ RowsAreStandard)
  BY TypeInit, TypeStep, RowsInit, RowsStep, PTL DEF Spec

(* The row an iterator is at is the one that the opcodes of its sequence    *)
(* describe, for every program and whatever walks ran before: the machine   *)
(* neither loses nor keeps a register between rows, sequences and walks.    *)
THEOREM IteratorsAreStandard == Spec => []RowsAreStandard
  BY RowsAlways, PTL

-------------------------------------------------------------------------------
(* Numbering rows.                                                          *)
LEMMA NumberFacts ==
    /\ RowNumber(0) = 0
    /\ \A k \in Nat : /\ RowNumber(k) \in Nat
                      /\ RowNumber(k + 1) = IF k + 1 \in Emitting THEN RowNumber(k) + 1
                                            ELSE RowNumber(k)
    /\ \A a, b \in Nat : a <= b => RowNumber(a) <= RowNumber(b)
    /\ \A a, b \in Nat : a < b /\ b \in Emitting => RowNumber(a) < RowNumber(b)
  <1> DEFINE Upto(k) == Emitting \intersect 1 .. k
  <1>1. \A k : RowNumber(k) = Cardinality(Upto(k))
    BY DEF RowNumber
  <1>2. RowNumber(0) = 0
    <2>1. Upto(0) = {}
      OBVIOUS
    <2>2. QED
      BY <1>1, <2>1, FS_EmptySet
  <1>3. \A k \in Nat : IsFiniteSet(Upto(k)) /\ Cardinality(Upto(k)) \in Nat
    <2>1. \A k \in Nat : IsFiniteSet(1 .. k)
      BY FS_Interval
    <2>2. \A k \in Nat : Upto(k) \in SUBSET (1 .. k)
      OBVIOUS
    <2> HIDE DEF Upto
    <2>3. QED
      BY <2>1, <2>2, FS_Subset, FS_CardinalityType
  <1>4. \A a, b \in Nat : a <= b => RowNumber(a) <= RowNumber(b)
    <2>1. \A a, b \in Nat : a <= b => Upto(a) \in SUBSET Upto(b)
      OBVIOUS
    <2> HIDE DEF Upto
    <2>2. QED
      BY <1>1, <1>3, <2>1, FS_Subset
  <1>5. \A k \in Nat : RowNumber(k + 1) = IF k + 1 \in Emitting THEN RowNumber(k) + 1
                                          ELSE RowNumber(k)
    <2>1. \A k \in Nat : /\ k + 1 \in Emitting => Upto(k + 1) = Upto(k) \union {k + 1}
                         /\ k + 1 \notin Emitting => Upto(k + 1) = Upto(k)
                         /\ k + 1 \notin Upto(k)
      OBVIOUS
    <2> HIDE DEF Upto
    <2>2. \A k \in Nat : Cardinality(Upto(k) \union {k + 1}) = Cardinality(Upto(k)) + 1
      BY <1>3, <2>1, FS_AddElement
    <2>3. QED
      BY <1>1, <2>1, <2>2
  <1> HIDE DEF Upto
  <1>6. ASSUME NEW a \in Nat, NEW b \in Nat, a < b, b \in Emitting
        PROVE  RowNumber(a) < RowNumber(b)
    <2>1. PICK c \in Nat : b = c + 1
      <3>1. b - 1 \in Nat /\ b = (b - 1) + 1
        BY <1>6
      <3>2. QED
        BY <3>1
    <2>2. a <= c
      BY <1>6, <2>1
    <2>3. RowNumber(a) <= RowNumber(c) /\ RowNumber(b) = RowNumber(c) + 1
      BY <1>4, <1>5, <1>6, <2>1, <2>2
    <2>4. RowNumber(a) \in Nat /\ RowNumber(c) \in Nat
      BY <1>1, <1>3
    <2>5. QED
      BY <2>3, <2>4
  <1>7. QED
    BY <1>1, <1>2, <1>3, <1>4, <1>5, <1>6

LEMMA AllRowsFacts ==
    ASSUME program \in Programs
    PROVE  /\ Cardinality(Emitting) \in Nat /\ Len(AllRows) = Cardinality(Emitting)
           /\ RowNumber(Len(program)) = Cardinality(Emitting)
           /\ \A k \in Emitting : /\ RowNumber(k) \in 1 .. Cardinality(Emitting)
                                  /\ AllRows[RowNumber(k)] = RowAt(k)
  <1> DEFINE n == Len(program)
             c == Cardinality(Emitting)
  <1>1. n \in Nat /\ Emitting \subseteq 1 .. n
    BY ProgramFacts DEF Emitting, Offsets
  <1>2. RowNumber(n) = c /\ c \in Nat
    <2>1. Emitting \intersect 1 .. n = Emitting
      BY <1>1
    <2>2. RowNumber(n) = c
      BY <2>1 DEF RowNumber
    <2>3. QED
      BY <1>1, <2>2, NumberFacts
  <1> HIDE DEF n, c
  <1>3. Len(AllRows) = c
    <2>1. DOMAIN AllRows = 1 .. c
      BY DEF AllRows, c
    <2>2. QED
      BY <1>2, <2>1
  <1>4. ASSUME NEW k \in Emitting
        PROVE  RowNumber(k) \in 1 .. c /\ AllRows[RowNumber(k)] = RowAt(k)
    <2>1. k \in Nat /\ 0 < k /\ k <= n
      BY <1>1
    <2>2. RowNumber(k) \in 1 .. c
      <3>1. RowNumber(0) < RowNumber(k) /\ RowNumber(k) <= RowNumber(n) /\ RowNumber(k) \in Nat
        BY <1>1, <2>1, NumberFacts
      <3>2. QED
        BY <1>2, <3>1, NumberFacts
    <2>3. \A j \in Emitting : RowNumber(j) = RowNumber(k) => j = k
      <3> SUFFICES ASSUME NEW j \in Emitting, RowNumber(j) = RowNumber(k), j # k
                   PROVE  FALSE
        OBVIOUS
      <3>1. j \in Nat /\ RowNumber(j) \in Nat
        BY <1>1, NumberFacts
      <3>2. j < k \/ k < j
        BY <2>1, <3>1
      <3>3. RowNumber(j) < RowNumber(k) \/ RowNumber(k) < RowNumber(j)
        BY <2>1, <3>1, <3>2, NumberFacts
      <3>4. QED
        BY <3>1, <3>3
    <2>4. (CHOOSE j \in Emitting : RowNumber(j) = RowNumber(k)) = k
      BY <2>3
    <2>5. AllRows[RowNumber(k)] = RowAt(CHOOSE j \in Emitting : RowNumber(j) = RowNumber(k))
      BY <2>2 DEF AllRows, c
    <2>6. QED
      BY <2>2, <2>4, <2>5
  <1>5. QED
    BY <1>2, <1>3, <1>4 DEF n, c

(* The walk of find_address: what WalkIsRight says of its phase p, where it *)
(* reads, the row before it, that row's offset and the address it is for.   *)
WellFormed == program # <<>> /\ Emits(program[Len(program)])
Matching(i, w) == /\ AllRows[i].address <= w /\ w < AllRows[i + 1].address
                  /\ ~AllRows[i].end_sequence
NoMatch(last, w) == \A i \in 1 .. last : ~Matching(i, w)

Right(p, c, row, at, w) ==
    /\ p = "begin" => RowNumber(c) = 0
    /\ p \in {"next", "found"} => at \in Emitting /\ IsRow(row, at)
    /\ p = "next" => RowNumber(c) = RowNumber(at)
    /\ p = "found" => Matching(RowNumber(at), w) /\ RowNumber(at) < Cardinality(Emitting) - 1
    /\ p \in {"next", "found"} => NoMatch(RowNumber(at) - 1, w)
    /\ p = "end" => NoMatch(Cardinality(Emitting) - 2, w)

LEMMA RightAt ==
    WalkIsRight <=>
       \A p, c, row, at, w :
          /\ p = phase /\ c = cur /\ row = prev.entry /\ at = prev.pos /\ w = want
          => (WellFormed => Right(p, c, row, at, w))
  <1>1. \A i : Matches(i) <=> Matching(i, want)
    BY DEF Matches, Matching
  <1>2. WalkIsRight <=> (WellFormed => Right(phase, cur, prev.entry, prev.pos, want))
    BY <1>1 DEF WalkIsRight, WellFormed, Right, NoMatch, Passed, IsRow
  <1>3. QED
    BY <1>2, Zenon

LEMMA RightKept ==
    ASSUME UNCHANGED program, NEW p, NEW c, NEW row, NEW at, NEW w
    PROVE  (WellFormed => Right(p, c, row, at, w))' <=> (WellFormed => Right(p, c, row, at, w))
  <1>1. OperationsTo' = OperationsTo /\ LinesTo' = LinesTo
    BY DEF OperationsTo, LinesTo, Operations, LineStep, IsOp
  <1>2. Emitting' = Emitting
    BY DEF Emitting, Offsets
  <1>3. \A j : SequenceStart(j)' = SequenceStart(j) /\ RowStart(j)' = RowStart(j)
    BY <1>2 DEF SequenceStart, RowStart, OpsIn, IsOp
  <1>4. \A start : Addresses(start)' = Addresses(start)
    BY <1>1 DEF Addresses, LastSet, OpsIn, IsOp, Counted
  <1>5. \A start, k : Counted(start, k)' = Counted(start, k)
    BY <1>1 DEF Counted, LastSet, OpsIn, IsOp
  <1>6. \A S, o, default : LastIn(S, o, default)' = LastIn(S, o, default)
    BY DEF LastIn, OpsIn, IsOp
  <1>7. \A j : RowAt(j)' = RowAt(j)
    BY <1>1, <1>3, <1>4, <1>5, <1>6 DEF RowAt, RegistersBehind, OpsIn, IsOp
  <1>8. \A k : RowNumber(k)' = RowNumber(k)
    BY <1>2 DEF RowNumber
  <1>9. AllRows' = AllRows
    BY <1>1, <1>2, SMTT(30)
       DEF AllRows, RowNumber, RowAt, RegistersBehind, Addresses, Counted, LastSet, LastIn,
           OpsIn, IsOp, SequenceStart, RowStart
  <1>10. QED
    BY <1>2, <1>7, <1>8, <1>9 DEF WellFormed, Right, Matching, NoMatch, IsRow

(* find_address's test at a row is the test of the rows the program has.    *)
LEMMA TestIsMatching ==
    ASSUME program \in Programs, NEW a \in Emitting, NEW b \in Emitting,
           RowNumber(b) = RowNumber(a) + 1, NEW e \in Registers, NEW f \in Registers,
           IsRow(e, a), IsRow(f, b), want \in Nat
    PROVE  Between(e, f) <=> Matching(RowNumber(a), want)
  <1>1. AllRows[RowNumber(a)] = RowAt(a) /\ AllRows[RowNumber(b)] = RowAt(b)
    BY AllRowsFacts
  <1>2. \A j : {"address", "end_sequence"} \subseteq DOMAIN RowAt(j)
    BY DEF RowAt, RegistersBehind
  <1>3. /\ e.address = RowAt(a).address /\ e.end_sequence = RowAt(a).end_sequence
        /\ f.address = RowAt(b).address
    BY <1>2 DEF IsRow, Agrees
  <1>4. f.address \in Nat
    BY DEF Registers
  <1>5. AllRows[RowNumber(a) + 1] = RowAt(b)
    BY <1>1
  <1>6. Matching(RowNumber(a), want) <=>
           e.address <= want /\ want < f.address /\ ~e.end_sequence
    BY <1>1, <1>3, <1>5 DEF Matching
  <1>7. QED
    BY <1>4, <1>6 DEF Between

LEMMA WalkInit == TypeOK /\ Init => WalkIsRight
  <1>1. SUFFICES ASSUME TypeOK, Init PROVE WalkIsRight
    OBVIOUS
  <1>2. phase = "idle"
    BY <1>1 DEF Init
  <1>3. QED
    BY <1>2 DEF WalkIsRight

LEMMA WalkStep ==
    TypeOK /\ RegistersAreStandard /\ WalkIsRight /\ [Next]_vars => WalkIsRight'
  <1>1. SUFFICES ASSUME TypeOK, RegistersAreStandard, WalkIsRight, [Next]_vars
                 PROVE  WalkIsRight'
    OBVIOUS
  <1>2. (WalkIsRight <=>
           \A p, c, row, at, w :
              /\ p = phase /\ c = cur /\ row = prev.entry /\ at = prev.pos /\ w = want
              => (WellFormed => Right(p, c, row, at, w)))'
    BY RightAt, PTL
  <1>3. UNCHANGED program
    BY <1>1 DEF Next, Read, StandardOpcode, DefineFile, EmitRow, FindAddressBegin, GetFile,
                Begin, vars
  <1>4. \A p, c, row, at, w : (WellFormed => Right(p, c, row, at, w))'
                               <=> (WellFormed => Right(p, c, row, at, w))
    BY <1>3, RightKept
  <1>5. (WellFormed => Right(phase', cur', prev'.entry, prev'.pos, want')) => WalkIsRight'
    BY <1>2, <1>4
  <1>6. WellFormed => Right(phase, cur, prev.entry, prev.pos, want)
    BY <1>1, RightAt
  <1>7. SUFFICES ASSUME WellFormed
                 PROVE  Right(phase', cur', prev'.entry, prev'.pos, want')
    BY <1>5
  <1>8. /\ program \in Programs /\ cur \in Nat /\ want \in Nat /\ prev.entry \in Registers
        /\ phase \in Phases /\ Len(program) \in Nat /\ Len(program) # 0
    <2>1. program \in Programs /\ Len(program) \in Nat
      BY <1>1, ProgramFacts DEF TypeOK
    <2>2. program \in Seq([op : Opcodes, n : Int])
      BY <2>1, LineProgramAssumption
    <2>3. Len(program) # 0
      <3> DEFINE R == [op : Opcodes, n : Int]
      <3>1. program \in Seq(R) /\ program # <<>>
        BY <1>7, <2>2 DEF WellFormed
      <3> HIDE DEF R
      <3>2. QED
        BY <3>1
    <2>4. QED
      BY <1>1, <2>1, <2>3 DEF TypeOK
  <1>9. CASE UNCHANGED vars
    BY <1>6, <1>7, <1>9 DEF vars
  <1>10. CASE \E a \in Queries : FindAddressBegin(a)
    <2>1. phase' = "begin" /\ cur' = 0
      BY <1>7, <1>10 DEF FindAddressBegin, Begin, WellFormed
    <2>2. QED
      BY <2>1, NumberFacts DEF Right
  <1>11. CASE \E i \in Indices : GetFile(i)
    <2>1. phase' \in {"got", "out_of_range", "scan"}
      BY <1>11 DEF GetFile, Begin
    <2>2. QED
      BY <2>1 DEF Right
  <1>12. CASE StandardOpcode \/ DefineFile
    <2>1. /\ Reading /\ cur' = cur + 1 /\ UNCHANGED <<prev, want>>
          /\ phase' \in {phase, "format_error"}
      BY <1>12 DEF StandardOpcode, DefineFile
    <2>2. ~Emits(Opcode)
      BY <1>12 DEF StandardOpcode, DefineFile, Standard, Emits
    <2>3. RowNumber(cur + 1) = RowNumber(cur)
      <3>1. cur + 1 \notin Emitting
        BY <2>2 DEF Emitting, Opcode
      <3>2. QED
        BY <1>8, <3>1, NumberFacts
    <2>4. phase \in {"begin", "next", "scan"}
      BY <2>1 DEF Reading, Walking
    <2>5. QED
      BY <1>6, <1>7, <2>1, <2>3, <2>4 DEF Right
  <1>13. CASE EmitRow
    <2> DEFINE row == Executed(regs, Opcode)
               k == cur + 1
    <2>1. /\ Reading /\ Emits(Opcode) /\ cur' = k /\ UNCHANGED want
          /\ \/ phase' = "format_error"
             \/ phase = "scan" /\ phase' \in {"scan", "got", "out_of_range"}
             \/ phase # "scan" /\ k = Len(program) /\ phase' = "end" /\ UNCHANGED prev
             \/ /\ phase # "scan" /\ k # Len(program)
                /\ IF phase = "next" /\ Between(prev.entry, row)
                     THEN phase' = "found" /\ UNCHANGED prev
                     ELSE phase' = "next" /\ prev' = [entry |-> row, pos |-> k]
      BY <1>13 DEF EmitRow, AtEnd
    <2>2. k \in Nat /\ k \in Emitting /\ row \in Registers /\ IsRow(row, k)
      BY <1>1, <1>8, <2>1, OpcodeFacts, OpcodeIsStandard DEF Emitting, Offsets
    <2>3. RowNumber(k) = RowNumber(cur) + 1 /\ RowNumber(cur) \in Nat /\ RowNumber(k) \in Nat
      BY <1>8, <2>2, NumberFacts
    <2>4. phase \in {"begin", "next", "scan"}
      BY <2>1 DEF Reading, Walking
    <2>5. phase = "begin" => RowNumber(k) = 1
      BY <1>6, <1>7, <2>3 DEF Right
    <2>6. phase = "next" =>
             /\ prev.pos \in Emitting /\ IsRow(prev.entry, prev.pos)
             /\ RowNumber(k) = RowNumber(prev.pos) + 1 /\ RowNumber(prev.pos) \in Nat
             /\ NoMatch(RowNumber(prev.pos) - 1, want)
             /\ Between(prev.entry, row) <=> Matching(RowNumber(prev.pos), want)
      <3>1. SUFFICES ASSUME phase = "next"
                     PROVE  /\ prev.pos \in Emitting /\ IsRow(prev.entry, prev.pos)
                            /\ RowNumber(k) = RowNumber(prev.pos) + 1
                            /\ RowNumber(prev.pos) \in Nat
                            /\ NoMatch(RowNumber(prev.pos) - 1, want)
                            /\ Between(prev.entry, row) <=> Matching(RowNumber(prev.pos), want)
        OBVIOUS
      <3>2. /\ prev.pos \in Emitting /\ IsRow(prev.entry, prev.pos)
            /\ RowNumber(cur) = RowNumber(prev.pos)
            /\ NoMatch(RowNumber(prev.pos) - 1, want)
        BY <1>6, <1>7, <3>1 DEF Right
      <3>3. Between(prev.entry, row) <=> Matching(RowNumber(prev.pos), want)
        BY <1>8, <2>2, <2>3, <3>2, TestIsMatching
      <3>4. QED
        BY <2>3, <3>2, <3>3
    <2>7. RowNumber(k) < Cardinality(Emitting) \/ (k = Len(program) /\ RowNumber(k) = Cardinality(Emitting))
      <3>1. RowNumber(Len(program)) = Cardinality(Emitting)
        BY <1>8, AllRowsFacts
      <3>2. Len(program) \in Emitting
        BY <1>7, <1>8 DEF WellFormed, Emitting, Offsets
      <3>3. k <= Len(program)
        BY <1>8, <2>2 DEF Emitting, Offsets
      <3>4. k < Len(program) \/ k = Len(program)
        BY <1>8, <2>2, <3>3
      <3>5. QED
        BY <1>8, <2>2, <3>1, <3>2, <3>4, NumberFacts
    <2>8. Cardinality(Emitting) \in Nat
      BY <1>8, AllRowsFacts
    <2> HIDE DEF row, k
    <2>9. \A m \in Nat : NoMatch(m - 1, want) /\ ~Matching(m, want) => NoMatch(m, want)
      BY DEF NoMatch
    <2>10. \A m \in Int : m <= 0 => NoMatch(m, want)
      BY DEF NoMatch
    <2>11. CASE phase' \in {"format_error", "scan", "got", "out_of_range"}
      BY <2>11 DEF Right
    <2>12. CASE phase # "scan" /\ k = Len(program) /\ phase' = "end" /\ UNCHANGED prev
      <3>1. RowNumber(k) = Cardinality(Emitting)
        BY <1>8, <2>12, AllRowsFacts
      <3>2. NoMatch(Cardinality(Emitting) - 2, want)
        <4>1. CASE phase = "begin"
          BY <2>5, <2>10, <3>1, <4>1
        <4>2. CASE phase = "next"
          <5>1. Cardinality(Emitting) - 2 = RowNumber(prev.pos) - 1
            BY <2>6, <3>1, <4>2
          <5>2. QED
            BY <2>6, <4>2, <5>1
        <4>3. QED
          BY <2>4, <2>12, <4>1, <4>2
      <3>3. QED
        BY <2>1, <2>12, <3>2 DEF Right
    <2>13. CASE /\ phase = "next" /\ k # Len(program) /\ Between(prev.entry, row)
                /\ phase' = "found" /\ UNCHANGED prev
      <3>1. RowNumber(prev.pos) < Cardinality(Emitting) - 1
        BY <2>3, <2>6, <2>7, <2>8, <2>13
      <3>2. QED
        BY <2>1, <2>6, <2>13, <3>1 DEF Right
    <2>14. CASE /\ phase # "scan" /\ ~(phase = "next" /\ Between(prev.entry, row))
                /\ phase' = "next" /\ prev' = [entry |-> row, pos |-> k]
      <3>1. NoMatch(RowNumber(k) - 1, want)
        <4>1. CASE phase = "begin"
          BY <2>5, <2>10, <4>1
        <4>2. CASE phase = "next"
          <5>1. RowNumber(k) - 1 = RowNumber(prev.pos) /\ NoMatch(RowNumber(prev.pos), want)
            BY <2>6, <2>9, <2>14, <4>2
          <5>2. QED
            BY <5>1
        <4>3. QED
          BY <2>4, <2>14, <4>1, <4>2
      <3>2. prev'.entry = row /\ prev'.pos = k
        BY <2>14
      <3>3. QED
        BY <2>1, <2>2, <2>14, <3>1, <3>2 DEF Right
    <2>15. QED
      BY <2>1, <2>4, <2>11, <2>12, <2>13, <2>14
  <1>14. QED
    BY <1>1, <1>9, <1>10, <1>11, <1>12, <1>13 DEF Next, Read

LEMMA WalkAlways == Spec => [](TypeOK /\ RegistersAreStandard /\ WalkIsRight)
  BY TypeInit, TypeStep, RowsInit, RowsAlways, WalkInit, WalkStep, PTL DEF Spec

(* What a walk answers when it is right.                                    *)
LEMMA RightAnswers == TypeOK /\ WalkIsRight => WalkIsFindAddress
  <1>1. SUFFICES ASSUME TypeOK, WalkIsRight, program # <<>>, Emits(program[Len(program)])
                 PROVE  /\ phase = "found" => FindAddress(AllRows, want) = RowNumber(prev.pos)
                        /\ phase = "end" => FindAddress(AllRows, want) = NoRow
    BY DEF WalkIsFindAddress
  <1> DEFINE c == Cardinality(Emitting)
             found == {i \in 1 .. c - 2 : Matches(i)}
  <1>2. c \in Nat /\ Len(AllRows) = c
    BY <1>1, AllRowsFacts DEF TypeOK
  <1>3. FindAddress(AllRows, want) = IF found = {} THEN NoRow ELSE Min(found)
    BY <1>2 DEF FindAddress, Matches
  <1>4. CASE phase = "found"
    <2> DEFINE m == RowNumber(prev.pos)
    <2>1. /\ Matches(m) /\ m < c - 1 /\ prev.pos \in Emitting
          /\ \A i \in 1 .. m - 1 : ~Matches(i)
      BY <1>1, <1>4 DEF WalkIsRight, Passed
    <2>2. m \in 1 .. c
      BY <1>1, <2>1, AllRowsFacts DEF TypeOK
    <2> HIDE DEF m, c
    <2>3. m \in found
      BY <1>2, <2>1, <2>2
    <2>4. found \in SUBSET Nat
      BY <1>2
    <2>5. Min(found) \in found /\ \A i \in found : Min(found) <= i
      BY <2>3, <2>4, MinFacts
    <2>6. Min(found) = m
      <3>1. Min(found) <= m /\ Min(found) \in 1 .. c - 2 /\ Matches(Min(found))
        BY <2>3, <2>5
      <3>2. ~(Min(found) < m)
        BY <1>2, <2>1, <2>2, <3>1
      <3>3. QED
        BY <1>2, <2>2, <3>1, <3>2
    <2>7. QED
      BY <1>3, <1>4, <2>3, <2>6 DEF m
  <1>5. CASE phase = "end"
    <2>1. found = {}
      BY <1>1, <1>5 DEF WalkIsRight
    <2>2. QED
      BY <1>3, <1>5, <2>1
  <1>6. CASE phase \notin {"found", "end"}
    BY <1>6
  <1>7. QED
    BY <1>4, <1>5, <1>6

(* What find_address returns is what LineTable's FindAddress says of the    *)
(* rows the program describes, for every table whose last opcode adds a row *)
(* and every address: the walk stops at the first row that starts at or     *)
(* below the address with the next one above it, and never at the last.     *)
THEOREM WalkFindsTheAddress == Spec => []WalkIsFindAddress
  BY WalkAlways, RightAnswers, PTL
===============================================================================
