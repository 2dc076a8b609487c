--------------------------- MODULE Debugger_proof ---------------------------
(* Theorems about Debugger.tla.  The breakpoint table's own theorems come   *)
(* in through T, the instance of them that Debugger!Temporary is.           *)
EXTENDS Debugger, NumberTheorems, SequenceTheorems

T == INSTANCE TemporaryBreakpoints_proof
       WITH image <- Text, WriteSites <- {}, KeepsRest <- TRUE, Zero <- Trap,
            phase <- TemporariesPhase

-------------------------------------------------------------------------------
(* The instances of Breakpoints.tla that B, Temporary and T are say the     *)
(* same.                                                                    *)
LEMMA SameState ==
    /\ B!Init <=> T!Init
    /\ B!TypeOK <=> T!TypeOK
    /\ B!AtRest <=> T!AtRest
    /\ \A a : B!InTable(a) <=> T!InTable(a)
    /\ \A a : B!IsEnabled(a) <=> T!IsEnabled(a)
    /\ \A a : B!Window(a) = T!Window(a)
  BY DEF B!Init, T!Init, B!TypeOK, T!TypeOK, B!AtRest, T!AtRest, B!InTable, T!InTable,
     B!IsEnabled, T!IsEnabled, B!Window, T!Window, B!Breakpoint, T!Breakpoint,
     B!Cell, T!Cell

LEMMA SameSteps ==
    /\ \A a : B!SetBreakpointAtAddress(a) <=> T!SetBreakpointAtAddress(a)
    /\ \A a : B!RemoveBreakpoint(a) <=> T!RemoveBreakpoint(a)
    /\ \A a : B!StepOverDisable(a) <=> T!StepOverDisable(a)
    /\ \A a : B!StepOverEnable(a) <=> T!StepOverEnable(a)
  <1> USE SameState DEF B!EnabledMem, T!EnabledMem, B!DisabledMem, T!DisabledMem,
        B!With, T!With, B!Without, T!Without, B!Enabled, T!Enabled, B!PokeWord, T!PokeWord,
        B!PeekWord, T!PeekWord, B!BreakpointInstrument, T!BreakpointInstrument
  <1>1. \A a : B!SetBreakpointAtAddress(a) <=> T!SetBreakpointAtAddress(a)
    BY DEF B!SetBreakpointAtAddress, T!SetBreakpointAtAddress
  <1>2. \A a : B!RemoveBreakpoint(a) <=> T!RemoveBreakpoint(a)
    BY DEF B!RemoveBreakpoint, T!RemoveBreakpoint
  <1>3. \A a : B!StepOverDisable(a) <=> T!StepOverDisable(a)
    BY DEF B!StepOverDisable, T!StepOverDisable
  <1>4. \A a : B!StepOverEnable(a) <=> T!StepOverEnable(a)
    BY DEF B!StepOverEnable, T!StepOverEnable
  <1>5. QED
    BY <1>1, <1>2, <1>3, <1>4

(* What Breakpoints.tla and TemporaryBreakpoints.tla assume.                *)
LEMMA TableAssumptions ==
    /\ Addr \subseteq Int
    /\ Word \in Nat \ {0}
    /\ Sites \subseteq Addr
    /\ \A a \in Sites \union {} : a \in Int /\ T!Window(a) \subseteq Addr
    /\ Trap \notin Code
    /\ Text \in [Addr -> Code]
    /\ TRUE \in BOOLEAN
    /\ UserSites \union Rows \union Returns \subseteq Sites
  BY MemoryAssumption, SitesAssumption, DebuggerAssumption, SameState

(* What a step of the debugger does to the table is a step of the table.    *)
LEMMA TableStep == TypeOK /\ ControlIsRight /\ [Next]_vars => [T!Next]_(T!vars)
  <1>1. SUFFICES ASSUME TypeOK, ControlIsRight, [Next]_vars
                 PROVE  [T!Next]_(T!vars)
    OBVIOUS
  <1> USE DEF T!Next, T!Others, T!vars, table_vars
  <1>2. /\ DOMAIN m_breakpoints \subseteq Sites
        /\ to_delete \in Seq(Sites) /\ todo \in Seq(Sites)
        /\ \A a : B!InTable(a) => a \in Sites
    BY <1>1 DEF TypeOK, B!TypeOK, B!InTable
  <1>3. CASE UNCHANGED vars
    BY <1>3 DEF vars
  <1>4. CASE Continue \/ StepOut \/ StepInstruction \/ StepIn \/ StepOver
    BY <1>4 DEF Continue, StepOut, StepInstruction, StepIn, StepOver, Begin, Throw
  <1>5. ASSUME NEW a \in UserSites, Break(a) PROVE [T!Next]_(T!vars)
    BY <1>5, SameSteps, DebuggerAssumption DEF Break
  <1>6. CASE Plant
    <2>1. Head(todo) \in Sites
      BY <1>1, <1>2, <1>6 DEF Plant, ControlIsRight
    <2>2. QED
      BY <1>6, <2>1, SameSteps DEF Plant
  <1>7. ASSUME StepOffBreakpoint PROVE [T!Next]_(T!vars)
    BY <1>2, <1>7, SameSteps DEF StepOffBreakpoint, B!StepOverDisable, B!IsEnabled
  <1>8. CASE Resume \/ StepLoop
    BY <1>7, <1>8 DEF Resume, StepLoop
  <1>9. CASE WaitStepOver
    BY <1>2, <1>9, SameSteps DEF WaitStepOver
  <1>10. CASE StepInstructionDone \/ WaitSingle \/ WaitContinue \/ WaitGone
    BY <1>10 DEF StepInstructionDone, WaitSingle, WaitContinue, WaitGone
  <1>11. CASE \E p \in {"over", "single", "wait"} : Die(p)
    BY <1>11 DEF Die
  <1>12. CASE Cleanup
    BY <1>2, <1>12, SameSteps DEF Cleanup, B!RemoveBreakpoint
  <1>13. CASE Execute \/ Signal \/ Over
    BY <1>13 DEF Execute, Signal, Over, vars
  <1>14. QED
    BY <1>1, <1>3, <1>4, <1>5, <1>6, <1>8, <1>9, <1>10, <1>11, <1>12, <1>13
       DEF Next, Prompt, Inside

-------------------------------------------------------------------------------
(* The debuggee by itself stays among its instructions.                     *)
LEMMA StartUpFacts ==
    /\ Undebugged!StartUp \subseteq DOMAIN Instr
    /\ Entry \in Undebugged!StartUp
    /\ \A a \in Undebugged!StartUp :
          /\ Instr[a].op \notin {"enter", "leave", "ret"}
          /\ Instr[a].op = "exit" \/ Instr[a].next \in Undebugged!StartUp
          /\ Instr[a].op = "branch" => Instr[a].target \in Undebugged!StartUp
  <1>1. \E code \in SUBSET DOMAIN Instr : Undebugged!IsStartUp(code)
    BY ProgramAssumption DEF Cpu!WellFormed, Cpu!IsStartUp, Undebugged!IsStartUp
  <1>2. /\ Undebugged!StartUp \in SUBSET DOMAIN Instr
        /\ Undebugged!IsStartUp(Undebugged!StartUp)
    BY <1>1 DEF Undebugged!StartUp
  <1>3. QED
    BY <1>2 DEF Undebugged!IsStartUp

LEMMA LocatedInit == Undebugged!Init => Undebugged!Located
  BY StartUpFacts DEF Undebugged!Init, Undebugged!Located

LEMMA LocatedStep == Undebugged!Located /\ Undebugged!Step => Undebugged!Located'
  <1> DEFINE StartUp == Undebugged!StartUp
             here == Instr[RealPc]
             last == Len(stack)
  <1>1. SUFFICES ASSUME Undebugged!Located, Undebugged!Step
                 PROVE  Undebugged!Located'
    OBVIOUS
  <1>2. /\ RealPc \in DOMAIN Instr \union {Exited}
        /\ stack \in Seq(Undebugged!Frame)
        /\ stack = <<>> => RealPc \in StartUp \union {Exited}
        /\ stack # <<>> => stack[1].ret \in StartUp
    BY <1>1 DEF Undebugged!Located
  <1>3. /\ RealPc # Exited
        /\ RealPc \in DOMAIN Instr
        /\ stack = <<>> => RealPc \in StartUp
    BY <1>1, <1>2 DEF Undebugged!Step, Undebugged!Plain, Undebugged!Branch, Undebugged!Enter,
       Undebugged!Leave, Undebugged!Call, Undebugged!CallAtBound, Undebugged!Ret,
       Undebugged!Exit, Undebugged!At
  <1>4. /\ here.op \notin {"ret", "exit"} => here.next \in DOMAIN Instr
        /\ here.op \in {"branch", "call"} => here.target \in DOMAIN Instr
        /\ here.op \in {"enter", "leave", "ret"} => stack # <<>>
        /\ here.op = "call" => here.next \in Undebugged!ReturnAddresses
        /\ Undebugged!ReturnAddresses \subseteq DOMAIN Instr
    BY <1>3, ProgramAssumption, StartUpFacts
       DEF Cpu!WellFormed, Undebugged!ReturnAddresses
  <1> HIDE DEF StartUp, here, last
  <1>5. ASSUME NEW a \in DOMAIN Instr, Undebugged!Goto(a), stack = <<>> => a \in StartUp
        PROVE  Undebugged!Located'
    BY <1>2, <1>5 DEF Undebugged!Goto, Undebugged!Located, StartUp
  <1>6. stack = <<>> =>
           /\ here.op # "exit" => here.next \in StartUp
           /\ here.op = "branch" => here.target \in StartUp
    BY <1>3, StartUpFacts DEF StartUp, here
  <1>7. CASE Undebugged!Plain \/ Undebugged!Branch \/ Undebugged!CallAtBound
    BY <1>4, <1>5, <1>6, <1>7 DEF Undebugged!Plain, Undebugged!Branch,
       Undebugged!CallAtBound, Undebugged!At, here
  <1>8. ASSUME NEW b \in BOOLEAN, Undebugged!SetEntered(b), stack # <<>>,
               here.op \in {"enter", "leave"}
        PROVE  Undebugged!Located'
    <2>1. /\ last \in DOMAIN stack
          /\ stack[last] \in Undebugged!Frame
          /\ stack' = [stack EXCEPT ![last].entered = b]
          /\ RealPc' = here.next
      BY <1>2, <1>8 DEF Undebugged!SetEntered, last, here
    <2>2. [stack[last] EXCEPT !.entered = b] \in Undebugged!Frame
      BY <2>1 DEF Undebugged!Frame
    <2>3. [stack[last] EXCEPT !.entered = b].ret = stack[last].ret
      BY <2>1 DEF Undebugged!Frame
    <2>4. /\ stack' \in Seq(Undebugged!Frame)
          /\ stack' # <<>>
          /\ stack'[1].ret = stack[1].ret
      BY <1>2, <1>8, <2>1, <2>2, <2>3 
    <2>5. QED
      BY <1>2, <1>4, <1>8, <2>1, <2>4 DEF Undebugged!Located, StartUp
  <1>9. CASE Undebugged!Enter \/ Undebugged!Leave
    BY <1>4, <1>8, <1>9 DEF Undebugged!Enter, Undebugged!Leave, Undebugged!At, here
  <1>10. CASE Undebugged!Call
    <2> DEFINE frame == [ret |-> here.next, entered |-> FALSE]
    <2>1. /\ frame \in Undebugged!Frame
          /\ stack' = Append(stack, frame)
          /\ RealPc' = here.target /\ here.target \in DOMAIN Instr
          /\ here.op = "call"
      BY <1>4, <1>10 DEF Undebugged!Call, Undebugged!At, Undebugged!Frame, here
    <2>2. frame.ret = here.next
      OBVIOUS
    <2> HIDE DEF frame
    <2>3. /\ stack' \in Seq(Undebugged!Frame)
          /\ stack' # <<>>
          /\ stack'[1] = IF stack = <<>> THEN frame ELSE stack[1]
      BY <1>2, <2>1
    <2>4. stack'[1].ret \in StartUp
      BY <1>2, <1>6, <2>1, <2>2, <2>3
    <2>5. QED
      BY <2>1, <2>3, <2>4 DEF Undebugged!Located, StartUp
  <1>11. CASE Undebugged!Ret
    <2>1. /\ stack # <<>>
          /\ stack' = SubSeq(stack, 1, last - 1)
          /\ RealPc' = stack[last].ret
          /\ last \in Nat \ {0}
      BY <1>2, <1>4, <1>11 DEF Undebugged!Ret, Undebugged!At, here, last
    <2>2. stack[last] \in Undebugged!Frame
      BY <1>2, <2>1 DEF last
    <2>3. last - 1 \in Nat /\ \A i \in 1 .. last - 1 : stack[i] \in Undebugged!Frame
      BY <1>2, <2>1 DEF last
    <2> HIDE DEF last
    <2>4. stack[last].ret \in DOMAIN Instr
      BY <1>4, <2>2 DEF Undebugged!Frame
    <2>5. /\ stack' \in Seq(Undebugged!Frame)
          /\ Len(stack') = last - 1
          /\ \A i \in 1 .. last - 1 : stack'[i] = stack[i]
      BY <2>1, <2>3, SubSeqProperties
    <2>6. IF stack' = <<>> THEN RealPc' \in StartUp ELSE stack'[1].ret \in StartUp
      BY <1>2, <2>1, <2>3, <2>5
    <2>7. QED
      BY <2>1, <2>4, <2>5, <2>6 DEF Undebugged!Located, StartUp
  <1>12. CASE Undebugged!Exit
    BY <1>2, <1>12 DEF Undebugged!Exit, Undebugged!Goto, Undebugged!Located, StartUp
  <1>13. QED
    BY <1>1, <1>7, <1>9, <1>10, <1>11, <1>12 DEF Undebugged!Step

(* A step of the debugger or of the debuggee under it is a step of the      *)
(* debuggee alone, or none: a trap is wound back, a signal is swallowed.    *)
(* Otherwise the instruction is not all there, and the debuggee is lost.    *)
Lost == /\ siginfo = "none" /\ mem[pc] # Trap /\ ~Intact
        /\ RealPc' = Exited
        /\ UNCHANGED stack

LEMMA DebuggeeStep ==
    TypeOK /\ ControlIsRight /\ [Next]_vars
      => Lost \/ [Undebugged!Step]_(Undebugged!program_vars)
  <1>1. SUFFICES ASSUME TypeOK, ControlIsRight, [Next]_vars, ~Lost
                 PROVE  [Undebugged!Step]_(Undebugged!program_vars)
    OBVIOUS
  <1>2. SUFFICES ASSUME ~(RealPc' = RealPc /\ stack' = stack)
                 PROVE  Undebugged!Step
    BY DEF Undebugged!program_vars
  <1>3. pc \in Int /\ Rollback \in Nat
    BY <1>1 DEF TypeOK, Rollback
  <1>4. ~(UNCHANGED <<pc, stack, siginfo>>)
    BY <1>2 DEF RealPc
  <1>5. ~Waited
    BY <1>2, <1>3 DEF Waited, Handled, RealPc
  <1>6. ~(Prompt \/ Over \/ UNCHANGED vars)
    BY <1>4 DEF Prompt, Continue, StepIn, StepInstruction, StepOver, StepOut, Break, Begin,
       Throw, Over, vars, cpu_vars
  <1>7. ~Inside
    BY <1>4, <1>5 DEF Inside, Plant, Resume, StepLoop, StepInstructionDone, Die, WaitStepOver,
       WaitSingle, WaitContinue, WaitGone, Cleanup, cpu_vars
  <1>8. ~Signal
    <2>1. Signal => siginfo = "none"
      BY <1>1 DEF Signal, ControlIsRight
    <2>2. QED
      BY <1>2, <2>1 DEF Signal, RealPc, cpu_vars
  <1>9. Execute /\ siginfo = "none"
    BY <1>1, <1>6, <1>7, <1>8 DEF Next, Execute, ControlIsRight
  <1>10. mem[pc] # Trap
    BY <1>2, <1>3, <1>9 DEF Execute, RealPc
  <1>11. ExecuteInstruction /\ siginfo' # "brk"
    BY <1>9, <1>10 DEF Execute
  <1>12. RealPc = pc /\ RealPc' = pc'
    BY <1>9, <1>11 DEF RealPc
  <1>13. Cpu!Step
    BY <1>1, <1>9, <1>10, <1>11, <1>12 DEF ExecuteInstruction, Lost, Cpu!Goto
  <1>14. QED
    BY <1>12, <1>13 DEF Cpu!Step, Undebugged!Step, Cpu!Plain, Undebugged!Plain, Cpu!Branch,
       Undebugged!Branch, Cpu!Enter, Undebugged!Enter, Cpu!Leave, Undebugged!Leave, Cpu!Call,
       Undebugged!Call, Cpu!CallAtBound, Undebugged!CallAtBound, Cpu!Ret, Undebugged!Ret,
       Cpu!Exit, Undebugged!Exit, Cpu!At, Undebugged!At, Cpu!Goto, Undebugged!Goto,
       Cpu!SetEntered, Undebugged!SetEntered

-------------------------------------------------------------------------------
(* What the commands look up is there.                                      *)
LEMMA FindAddressFacts ==
    ASSUME NEW a, FindAddress(Table, a) # NoRow
    PROVE  FindAddress(Table, a) \in 1 .. Len(Table) - 2
  <1> DEFINE found == {i \in 1 .. Len(Table) - 2 :
                        /\ Table[i].address <= a /\ a < Table[i + 1].address
                        /\ ~Table[i].end_sequence}
  <1>1. found # {} /\ FindAddress(Table, a) = Min(found)
    BY DEF FindAddress
  <1>2. found \in SUBSET Nat /\ found \subseteq 1 .. Len(Table) - 2
    OBVIOUS
  <1>3. QED
    BY <1>1, <1>2, MinFacts

LEMMA ReturnAddressFacts ==
    ASSUME stack \in Seq(Cpu!Frame)
    PROVE  ReturnAddress \in Returns
  <1>1. CASE Framed = {}
    BY <1>1 DEF ReturnAddress, Returns
  <1>2. CASE Framed # {}
    <2>1. /\ Len(stack) \in Nat /\ Framed \in SUBSET (1 .. Len(stack))
          /\ Framed \in SUBSET (0 .. Len(stack))
      BY DEF Framed
    <2>2. Max(Framed) \in 1 .. Len(stack)
      BY <1>2, <2>1, MaxFacts
    <2>3. stack[Max(Framed)] \in Cpu!Frame
      BY <2>2
    <2>4. QED
      BY <1>2, <2>3 DEF ReturnAddress, Returns, Cpu!Frame
  <1>3. QED
    BY <1>1, <1>2

(* The rows next plants: below the function's end, and in order if the      *)
(* table is.                                                                *)
LEMMA RowsToPlantFacts ==
    ASSUME NEW a, HasFunction(a), HasLine(FunctionAt(a).low)
    PROVE  /\ RowsToPlant(a) \in Seq(Rows)
           /\ RowsAscend => \A i, j \in DOMAIN RowsToPlant(a) :
                 i <= j => RowsToPlant(a)[i] <= RowsToPlant(a)[j]
  <1> DEFINE func  == FunctionAt(a)
             first == FindAddress(Table, func.low)
             ends  == {i \in first .. Len(Table) + 1 :
                         i = Len(Table) + 1 \/ Table[i].address >= func.high}
             past  == Min(ends)
  <1>1. func \in Functions /\ func.low \in Int /\ func.high \in Int
    BY DebuggerAssumption DEF HasFunction, FunctionAt
  <1>2. Table \in Seq(Row) /\ Len(Table) \in Nat
    BY DebuggerAssumption
  <1>3. first \in 1 .. Len(Table) - 2
    <2>1. FindAddress(Table, func.low) # NoRow
      BY DEF HasLine
    <2>2. QED
      BY <2>1, FindAddressFacts
  <1>4. RowsToPlant(a) =
           [i \in 1 .. past - first |-> OffsetDwarfAddress(Table[first + i - 1].address)]
    BY DEF RowsToPlant
  <1> HIDE DEF func, first
  <1>5. ends \in SUBSET Nat /\ Len(Table) + 1 \in ends
    BY <1>2, <1>3
  <1>6. past \in ends /\ \A i \in ends : past <= i
    BY <1>5, MinFacts
  <1>7. past \in first .. Len(Table) + 1
    <2> HIDE DEF past
    <2>1. QED
      BY <1>6
  <1> HIDE DEF past, ends
  <1>8. past - first \in Nat /\ \A i \in 1 .. past - first : first + i - 1 \in DOMAIN Table
    BY <1>2, <1>3, <1>7
  <1>9. RowsToPlant(a) \in Seq(Rows)
    <2>1. \A i \in 1 .. past - first : OffsetDwarfAddress(Table[first + i - 1].address) \in Rows
      BY <1>8 DEF Rows
    <2>2. QED
      BY <1>4, <1>8, <2>1
  <1>10. ASSUME RowsAscend, NEW i \in DOMAIN RowsToPlant(a), NEW j \in DOMAIN RowsToPlant(a),
                i <= j
         PROVE  RowsToPlant(a)[i] <= RowsToPlant(a)[j]
    <2>1. PICK e \in first .. Len(Table) :
             func.high <= Table[e].address /\ InOneSequence(first, e)
      BY <1>1, <1>10 DEF RowsAscend, func, first
    <2>2. e \in ends
      <3>1. e \in 1 .. Len(Table) /\ Table[e] \in Row
        BY <1>2, <1>3
      <3>2. Table[e].address >= func.high
        BY <1>1, <2>1, <3>1 DEF Row
      <3>3. QED
        BY <1>2, <1>3, <3>1, <3>2 DEF ends
    <2>3. past <= e
      BY <1>6, <2>2
    <2> DEFINE ii == first + i - 1
               jj == first + j - 1
    <2>4. /\ i \in 1 .. past - first /\ j \in 1 .. past - first
          /\ ii \in DOMAIN Table /\ jj \in DOMAIN Table /\ ii <= jj
          /\ first <= ii /\ jj < e
      BY <1>3, <1>4, <1>7, <1>8, <1>10, <2>3
    <2>5. InOneSequence(ii, jj)
      BY <1>3, <2>1, <2>4 DEF InOneSequence
    <2>6. Table[ii].address <= Table[jj].address
      BY <1>10, <2>4, <2>5 DEF RowsAscend
    <2>7. Table[ii].address \in Int /\ Table[jj].address \in Int /\ Load \in Int
      <3>1. Table[ii] \in Row /\ Table[jj] \in Row
        BY <1>2, <2>4
      <3>2. QED
        BY <3>1, DebuggerAssumption DEF Row
    <2>8. QED
      BY <1>4, <2>4, <2>6, <2>7 DEF OffsetDwarfAddress
  <1>11. QED
    BY <1>9, <1>10
(* Which breakpoint is lifted, as the table's operations change it.         *)
OneLifted == \A a, b \in DOMAIN m_breakpoints : ~B!IsEnabled(a) /\ ~B!IsEnabled(b) => a = b

LEMMA LiftedFacts ==
  B!TypeOK =>
    /\ B!AtRest => OneLifted
    /\ UNCHANGED m_breakpoints => (B!AtRest' <=> B!AtRest) /\ (OneLifted' <=> OneLifted)
    /\ \A a : B!SetBreakpointAtAddress(a) => B!AtRest' /\ OneLifted'
    /\ \A a : B!RemoveBreakpoint(a) => B!AtRest' /\ OneLifted'
    /\ \A a : B!StepOverDisable(a) => ~B!AtRest' /\ OneLifted'
    /\ \A a : OneLifted /\ B!StepOverEnable(a) => B!AtRest' /\ OneLifted'
  <1> SUFFICES ASSUME B!TypeOK
               PROVE  /\ B!AtRest => OneLifted
                      /\ UNCHANGED m_breakpoints =>
                            (B!AtRest' <=> B!AtRest) /\ (OneLifted' <=> OneLifted)
                      /\ \A a : B!SetBreakpointAtAddress(a) => B!AtRest' /\ OneLifted'
                      /\ \A a : B!RemoveBreakpoint(a) => B!AtRest' /\ OneLifted'
                      /\ \A a : B!StepOverDisable(a) => ~B!AtRest' /\ OneLifted'
                      /\ \A a : OneLifted /\ B!StepOverEnable(a) => B!AtRest' /\ OneLifted'
    OBVIOUS
  <1> USE DEF B!AtRest, B!IsEnabled, B!InTable, OneLifted
  <1>1. B!AtRest => OneLifted
    OBVIOUS
  <1>2. UNCHANGED m_breakpoints => (B!AtRest' <=> B!AtRest) /\ (OneLifted' <=> OneLifted)
    OBVIOUS
  <1>3. ASSUME NEW a, B!SetBreakpointAtAddress(a) PROVE B!AtRest' /\ OneLifted'
    BY <1>3 DEF B!SetBreakpointAtAddress, B!With, B!Enabled
  <1>4. ASSUME NEW a, B!RemoveBreakpoint(a) PROVE B!AtRest' /\ OneLifted'
    BY <1>4 DEF B!RemoveBreakpoint, B!Without
  <1>5. ASSUME NEW a, B!StepOverDisable(a) PROVE ~B!AtRest' /\ OneLifted'
    <2>1. /\ a \in DOMAIN m_breakpoints
          /\ DOMAIN m_breakpoints' = DOMAIN m_breakpoints
          /\ \A b \in DOMAIN m_breakpoints : b # a => m_breakpoints'[b] = m_breakpoints[b]
          /\ m_breakpoints'[a].enabled = FALSE
      <3>1. a \in DOMAIN m_breakpoints /\ m_breakpoints[a] \in B!Breakpoint(a)
        BY <1>5 DEF B!StepOverDisable, B!TypeOK
      <3>2. m_breakpoints' = [m_breakpoints EXCEPT ![a].enabled = FALSE]
        BY <1>5 DEF B!StepOverDisable
      <3>3. QED
        BY <3>1, <3>2 DEF B!Breakpoint
    <2>2. \A b \in DOMAIN m_breakpoints : m_breakpoints[b].enabled
      BY <1>5 DEF B!StepOverDisable
    <2>3. QED
      BY <2>1, <2>2
  <1>6. ASSUME NEW a, OneLifted, B!StepOverEnable(a) PROVE B!AtRest' /\ OneLifted'
    BY <1>6 DEF B!StepOverEnable, B!With, B!Enabled
  <1>7. QED
    BY <1>1, <1>2, <1>3, <1>4, <1>5, <1>6

(* mode, siginfo, the command and the lifted breakpoint go with phase.      *)

LEMMA ControlStep ==
    TypeOK /\ ControlIsRight /\ [Next]_vars => ControlIsRight'
  <1>1. SUFFICES ASSUME TypeOK, ControlIsRight, [Next]_vars
                 PROVE  ControlIsRight'
    OBVIOUS
  <1> USE DEF Continuing
  <1>2. pc \in Int /\ Rollback \in Nat
    BY <1>1 DEF TypeOK, Rollback
  <1>3. OneLifted
    BY <1>1 DEF ControlIsRight, OneLifted
  <1>4. ASSUME UNCHANGED table_vars PROVE (B!AtRest' <=> B!AtRest) /\ OneLifted'
    BY <1>1, <1>3, <1>4, LiftedFacts DEF table_vars, TypeOK
  <1>5. ASSUME siginfo # "exit", RealPc' = RealPc, siginfo' # "exit"
        PROVE  siginfo' = "exit" <=> RealPc' = Exited
    BY <1>1, <1>5 DEF ControlIsRight
  <1>6. CASE UNCHANGED vars
    BY <1>1, <1>4, <1>6 DEF vars, table_vars, ControlIsRight, RealPc, OneLifted
  <1>7. CASE Continue \/ StepOut \/ StepInstruction \/ StepIn
    <2>1. UNCHANGED <<table_vars, pc, mode, siginfo>> /\ phase = "prompt"
      BY <1>1, <1>7 DEF Continue, StepOut, StepInstruction, StepIn, Begin, Throw, cpu_vars
    <2>2. \/ phase' = "resume" /\ cmd' \in Continuing
          \/ phase' = "plant" /\ cmd' \in Continuing /\ todo' # <<>>
          \/ phase' = "loop" /\ cmd' \in {"step", "stepi"}
          \/ phase' = "dead"
      BY <1>7 DEF Continue, StepOut, StepInstruction, StepIn, Begin, Throw
    <2>3. QED
      BY <1>1, <1>4, <1>5, <2>1, <2>2 DEF ControlIsRight, OneLifted, RealPc
  <1>8. CASE StepOver
    <2>1. UNCHANGED <<table_vars, pc, mode, siginfo>> /\ phase = "prompt"
      BY <1>8 DEF StepOver, Begin, Throw, cpu_vars
    <2>2. \/ phase' = "plant" /\ cmd' \in Continuing /\ todo' # <<>>
          \/ phase' = "dead"
      <3>1. ASSUME NEW a, HasFunction(a), HasLine(FunctionAt(a).low)
            PROVE  Append(RowsToPlant(a), ReturnAddress) # <<>>
        BY <3>1, RowsToPlantFacts
      <3>2. QED
        BY <1>8, <3>1 DEF StepOver, Begin, Throw
    <2>3. QED
      BY <1>1, <1>4, <1>5, <2>1, <2>2 DEF ControlIsRight, OneLifted, RealPc
  <1>9. ASSUME NEW a \in UserSites, Break(a) PROVE ControlIsRight'
    <2>1. B!AtRest' /\ OneLifted'
      BY <1>1, <1>9, LiftedFacts DEF Break, TypeOK
    <2>2. UNCHANGED <<pc, mode, siginfo, phase, cmd>> /\ phase = "prompt"
      BY <1>9 DEF Break, cpu_vars
    <2>3. QED
      BY <1>1, <2>1, <2>2 DEF ControlIsRight, OneLifted, RealPc
  <1>10. CASE Plant
    <2>1. B!AtRest' /\ OneLifted'
      BY <1>1, <1>4, <1>10, LiftedFacts DEF Plant, TypeOK, ControlIsRight
    <2>2. /\ UNCHANGED <<pc, mode, siginfo, cmd>> /\ phase = "plant"
          /\ IF todo' = <<>> THEN phase' = "resume" ELSE phase' = "plant"
      BY <1>10 DEF Plant, cpu_vars
    <2>3. QED
      BY <1>1, <2>1, <2>2 DEF ControlIsRight, OneLifted, RealPc
  <1>11. CASE Resume
    <2>1. /\ UNCHANGED <<pc, siginfo, cmd>> /\ phase = "resume"
          /\ \/ phase' = "over" /\ mode' = "stepping" /\ ~B!AtRest' /\ OneLifted'
             \/ phase' = "wait" /\ mode' = "running" /\ B!AtRest' /\ OneLifted'
      BY <1>1, <1>3, <1>4, <1>11, LiftedFacts
         DEF Resume, StepOffBreakpoint, TypeOK, cpu_vars, table_vars, ControlIsRight
    <2>2. QED
      BY <1>1, <2>1 DEF ControlIsRight, OneLifted, RealPc
  <1>12. CASE StepLoop
    <2>1. /\ UNCHANGED <<pc, siginfo, cmd>> /\ phase = "loop"
          /\ \/ phase' = "over" /\ mode' = "stepping" /\ ~B!AtRest' /\ OneLifted'
             \/ phase' = "single" /\ mode' = "stepping" /\ B!AtRest' /\ OneLifted'
             \/ phase' \in {"prompt", "dead"} /\ mode' = mode /\ B!AtRest' /\ OneLifted'
      BY <1>1, <1>3, <1>4, <1>12, LiftedFacts
         DEF StepLoop, StepOffBreakpoint, TypeOK, cpu_vars, table_vars, ControlIsRight
    <2>2. QED
      BY <1>1, <2>1 DEF ControlIsRight, OneLifted, RealPc
  <1>13. CASE StepInstructionDone
    <2>1. /\ UNCHANGED <<table_vars, pc, mode, siginfo, cmd>> /\ phase = "stepped"
          /\ phase' \in {"prompt", "dead"}
      BY <1>13 DEF StepInstructionDone, cpu_vars
    <2>2. QED
      BY <1>1, <1>4, <2>1 DEF ControlIsRight, OneLifted, RealPc
  <1>14. ASSUME Waited
         PROVE  /\ siginfo' = "none" /\ cmd' = cmd /\ siginfo' # "exit" /\ mode = "stopped"
                /\ RealPc' # Exited
    BY <1>1, <1>2, <1>14 DEF Waited, Handled, RealPc, ControlIsRight
  <1>15. CASE \E p \in {"over", "single", "wait"} : Die(p)
    <2>1. /\ UNCHANGED <<table_vars, mode>> /\ phase' = "dead" /\ Waited
      BY <1>15 DEF Die
    <2>2. QED
      BY <1>1, <1>4, <1>14, <2>1 DEF ControlIsRight, OneLifted
  <1>16. CASE WaitStepOver
    <2>1. /\ Waited /\ phase = "over" /\ B!AtRest' /\ OneLifted'
          /\ \/ cmd \in Continuing /\ mode' = "running" /\ phase' = "wait"
             \/ cmd \in {"step", "stepi"} /\ mode' = mode /\ phase' \in {"stepped", "loop"}
      BY <1>1, <1>3, <1>16, LiftedFacts DEF WaitStepOver, AfterStep, TypeOK
    <2>2. QED
      BY <1>1, <1>14, <2>1 DEF ControlIsRight, OneLifted
  <1>17. CASE WaitSingle \/ WaitContinue
    <2>1. /\ Waited /\ UNCHANGED <<table_vars, mode>>
          /\ \/ phase = "single" /\ phase' \in {"stepped", "loop"}
             \/ phase = "wait" /\ phase' = "cleanup"
      BY <1>17 DEF WaitSingle, WaitContinue, AfterStep
    <2>2. QED
      BY <1>1, <1>4, <1>14, <2>1 DEF ControlIsRight, OneLifted
  <1>18. CASE WaitGone
    <2>1. /\ UNCHANGED <<table_vars, pc, mode, siginfo, cmd>> /\ phase' \in {"gone", "dead"}
          /\ mode = "stopped"
      BY <1>18 DEF WaitGone, cpu_vars
    <2>2. QED
      BY <1>1, <1>4, <2>1 DEF ControlIsRight, OneLifted, RealPc
  <1>19. CASE Cleanup
    <2>1. B!AtRest' /\ OneLifted'
      BY <1>1, <1>4, <1>19, LiftedFacts DEF Cleanup, TypeOK, ControlIsRight, table_vars
    <2>2. /\ UNCHANGED <<pc, mode, siginfo, cmd>> /\ phase = "cleanup"
          /\ phase' \in {"cleanup", "prompt"}
      BY <1>19 DEF Cleanup, cpu_vars
    <2>3. QED
      BY <1>1, <2>1, <2>2 DEF ControlIsRight, OneLifted, RealPc
  <1>20. CASE Execute
    <2>1. /\ UNCHANGED <<table_vars, phase, cmd, todo>>
          /\ mode \in {"running", "stepping"} /\ phase \in {"over", "single", "wait"}
          /\ siginfo = "none" /\ RealPc # Exited
      BY <1>1, <1>20 DEF Execute, ControlIsRight
    <2>2. /\ mode' = "stopped" \/ (mode' = "running" /\ mode = "running" /\ siginfo' = "none")
          /\ siginfo' = "exit" <=> RealPc' = Exited
      <3>1. CASE mem[pc] = Trap
        BY <1>2, <1>20, <2>1, <3>1 DEF Execute, RealPc
      <3>2. CASE mem[pc] # Trap
        <4>1. /\ siginfo' = IF pc' = Exited THEN "exit"
                             ELSE IF mode = "stepping" THEN "trace" ELSE "none"
              /\ mode' = IF siginfo' = "none" THEN "running" ELSE "stopped"
          BY <1>20, <3>2 DEF Execute
        <4>2. RealPc' = pc'
          BY <4>1 DEF RealPc
        <4>3. QED
          BY <2>1, <4>1, <4>2
      <3>3. QED
        BY <3>1, <3>2
    <2>3. QED
      BY <1>1, <1>4, <2>1, <2>2 DEF ControlIsRight, OneLifted
  <1>21. CASE Signal
    <2>1. /\ UNCHANGED <<table_vars, pc, phase, cmd, todo>>
          /\ phase \in {"over", "single", "wait"} /\ siginfo = "none" /\ RealPc # Exited
          /\ mode' = "stopped" /\ siginfo' = "other"
      BY <1>1, <1>21 DEF Signal, ControlIsRight, cpu_vars
    <2>2. QED
      BY <1>1, <1>4, <2>1 DEF ControlIsRight, OneLifted, RealPc
  <1>22. CASE Over
    BY <1>6, <1>22 DEF Over
  <1>23. QED
    BY <1>1, <1>6, <1>7, <1>8, <1>9, <1>10, <1>11, <1>12, <1>13, <1>15, <1>16, <1>17, <1>18,
       <1>19, <1>20, <1>21, <1>22 DEF Next, Prompt, Inside

(* The types.  Where pc is and what the stack holds is the debuggee's       *)
(* business (LocatedStep), the table is the table's.                        *)
Controlled == TypeOK /\ ControlIsRight /\ Undebugged!Located

LEMMA ControlledInit == Init => Controlled
  <1>1. SUFFICES ASSUME Init PROVE Controlled
    OBVIOUS
  <1>2. Entry \in DOMAIN Instr /\ Entry # Exited /\ Entry \in Int
    BY StartUpFacts, ProgramAssumption, MemoryAssumption DEF Cpu!WellFormed
  <1>3. B!TypeOK
    BY <1>1, SameState, TableAssumptions, T!TypeInit DEF Init
  <1>4. /\ B!AtRest
        /\ \A a, b \in DOMAIN m_breakpoints : ~B!IsEnabled(a) /\ ~B!IsEnabled(b) => a = b
    BY <1>1 DEF Init, B!Init, B!AtRest
  <1>5. Undebugged!Located
    BY <1>1, LocatedInit DEF Init, Cpu!Init, Undebugged!Init, RealPc
  <1>6. ControlIsRight
    BY <1>1, <1>2, <1>4 DEF Init, Cpu!Init, ControlIsRight, RealPc
  <1>7. TypeOK
    <2>1. <<>> \in Seq(Sites) /\ <<>> \in Seq(Cpu!Frame)
      OBVIOUS
    <2>2. [depth |-> 0, framed |-> FALSE] \in [depth : Nat, framed : BOOLEAN]
      OBVIOUS
    <2>3. /\ pc \in Int /\ stack \in Seq(Cpu!Frame)
          /\ todo \in Seq(Sites) /\ to_delete \in Seq(Sites)
      BY <1>1, <1>2, <2>1 DEF Init, Cpu!Init
    <2>4. phase \in Phases /\ cmd \in Commands /\ signals \in 0 .. MaxSignals
      BY <1>1, DebuggerAssumption DEF Init, Phases, Commands
    <2>5. moved \in BOOLEAN
      BY <1>1 DEF Init
    <2>6. began \in [depth : Nat, framed : BOOLEAN] /\ line \in Int
      BY <1>1, <2>2 DEF Init
    <2>7. mode = "stopped" /\ siginfo = "none"
      BY <1>1 DEF Init
    <2>8. QED
      BY <1>3, <2>3, <2>4, <2>5, <2>6, <2>7 DEF TypeOK
  <1>8. QED
    BY <1>5, <1>6, <1>7 DEF Controlled

LEMMA ControlledStep == Controlled /\ [Next]_vars => Controlled'
  <1>1. SUFFICES ASSUME Controlled, [Next]_vars PROVE Controlled'
    OBVIOUS
  <1>2. TypeOK /\ ControlIsRight /\ Undebugged!Located
    BY <1>1 DEF Controlled
  <1>3. ControlIsRight'
    BY <1>1, <1>2, ControlStep
  <1>4. Undebugged!Located'
    <2>1. CASE UNCHANGED Undebugged!program_vars
      BY <1>2, <2>1 DEF Undebugged!program_vars, Undebugged!Located
    <2>2. CASE Lost
      BY <1>2, <2>2 DEF Lost, Undebugged!Located
    <2>3. QED
      BY <1>1, <1>2, <2>1, <2>2, DebuggeeStep, LocatedStep
  <1>5. B!TypeOK'
    <2>1. T!TypeOK /\ [T!Next]_(T!vars)
      BY <1>1, <1>2, SameState, TableStep DEF TypeOK
    <2>2. T!TypeOK'
      BY <2>1, TableAssumptions, T!TypeStep
    <2>3. QED
      BY <2>2 DEF B!TypeOK, T!TypeOK, B!Breakpoint, T!Breakpoint, B!Cell, T!Cell,
         B!Window, T!Window
  <1>6. stack' \in Seq(Cpu!Frame)
    BY <1>4 DEF Undebugged!Located, Undebugged!Frame, Cpu!Frame,
       Undebugged!ReturnAddresses, Cpu!ReturnAddresses
  <1>7. pc' \in Int
    <2>1. pc \in Int /\ Rollback \in Int /\ RealPc' \in Int
      <3>1. pc \in Int /\ Rollback \in Int
        BY <1>2 DEF TypeOK, Rollback
      <3>2. QED
        BY <1>4, <3>1, ProgramAssumption, MemoryAssumption DEF Undebugged!Located
    <2>2. CASE siginfo' = "brk"
      <3>1. Prompt \/ Signal \/ Over => UNCHANGED pc
        BY DEF Prompt, Continue, StepOut, StepInstruction, StepIn, StepOver, Begin, Throw,
           Break, Signal, Over, cpu_vars, vars
      <3>2. Inside => UNCHANGED pc \/ Waited
        BY DEF Inside, Plant, Resume, StepLoop, StepInstructionDone, Die, WaitStepOver,
           WaitSingle, WaitContinue, WaitGone, Cleanup, cpu_vars
      <3>3. UNCHANGED pc \/ Execute
        BY <1>1, <2>2, <3>1, <3>2 DEF Next, Waited, vars
      <3>4. Execute => pc' = pc + Rollback
        BY <2>2 DEF Execute
      <3>5. QED
        BY <2>1, <3>3, <3>4
    <2>3. CASE siginfo' # "brk"
      BY <2>1, <2>3 DEF RealPc
    <2>4. QED
      BY <2>2, <2>3
  <1> DEFINE Histories == began' \in [depth : Nat, framed : BOOLEAN] /\ moved' \in BOOLEAN
             Lists == to_delete' \in Seq(Sites) /\ todo' \in Seq(Sites)
             Small == /\ mode' \in {"stopped", "running", "stepping"}
                      /\ siginfo' \in {"none", "brk", "trace", "other", "exit"}
                      /\ phase' \in Phases /\ cmd' \in Commands
                      /\ line' \in Int /\ signals' \in 0 .. MaxSignals
  <1>8. /\ mode \in {"stopped", "running", "stepping"}
        /\ siginfo \in {"none", "brk", "trace", "other", "exit"}
        /\ phase \in Phases /\ cmd \in Commands
        /\ line \in Int /\ signals \in 0 .. MaxSignals
    BY <1>2 DEF TypeOK
  <1>9. /\ to_delete \in Seq(Sites) /\ todo \in Seq(Sites)
        /\ stack \in Seq(Cpu!Frame) /\ pc \in Int
    BY <1>2 DEF TypeOK
  <1>10. began \in [depth : Nat, framed : BOOLEAN] /\ moved \in BOOLEAN
    BY <1>2 DEF TypeOK
  <1>11. ASSUME NEW c, Begin(c) PROVE  Histories
    <2>1. stack # <<>> => stack[Len(stack)] \in Cpu!Frame
      BY <1>9
    <2>2. (stack # <<>> /\ stack[Len(stack)].entered) \in BOOLEAN
      BY <2>1 DEF Cpu!Frame
    <2>3. [depth |-> Len(stack), framed |-> stack # <<>> /\ stack[Len(stack)].entered]
            \in [depth : Nat, framed : BOOLEAN]
      BY <1>9, <2>2
    <2>4. moved' \in BOOLEAN
      BY <1>11 DEF Begin
    <2>5. QED
      BY <1>11, <2>3, <2>4 DEF Begin
  <1>12. Histories
    <2>1. CASE UNCHANGED <<began, moved>>
      BY <1>10, <2>1
    <2>2. CASE \E c \in Commands : Begin(c)
      BY <1>11, <2>2
    <2>3. CASE Execute
      <3>1. began' = began
        BY <2>3 DEF Execute
      <3>2. moved' = moved \/ moved' = TRUE
        BY <2>3 DEF Execute
      <3>3. QED
        BY <1>10, <3>1, <3>2
    <2>4. Prompt => (\E c \in Commands : Begin(c)) \/ UNCHANGED history
      BY DEF Prompt, Continue, StepOut, StepInstruction, StepIn, StepOver, Throw, Break, Commands
    <2>5. Inside \/ Signal \/ Over => UNCHANGED history
      BY DEF Inside, Plant, Resume, StepLoop, StepInstructionDone, Die, Waited, WaitStepOver,
         WaitSingle, WaitContinue, WaitGone, Cleanup, Signal, Over, history, vars
    <2>6. UNCHANGED vars => UNCHANGED history
      BY DEF vars, history
    <2>7. QED
      BY <1>1, <2>1, <2>2, <2>3, <2>4, <2>5, <2>6 DEF Next, history
  <1>13. Lists
    <2>1. CASE UNCHANGED <<todo, to_delete>>
      BY <1>9, <2>1
    <2>2. ReturnAddress \in Sites
      BY <1>9, ReturnAddressFacts, SitesAssumption
    <2>3. CASE Prompt
      <3>1. UNCHANGED to_delete /\ (UNCHANGED todo \/ todo' = <<ReturnAddress>> \/ StepOver)
        BY <2>3 DEF Prompt, Continue, StepOut, StepInstruction, StepIn, Throw, Break, Begin,
           StepOver
      <3>2. ASSUME NEW a, HasFunction(a), HasLine(FunctionAt(a).low),
                   todo' = Append(RowsToPlant(a), ReturnAddress)
            PROVE  todo' \in Seq(Sites)
        <4>1. RowsToPlant(a) \in Seq(Sites)
          BY <3>2, RowsToPlantFacts, SitesAssumption
        <4>2. QED
          BY <2>2, <3>2, <4>1
      <3>3. StepOver => UNCHANGED todo \/ todo' \in Seq(Sites)
        BY <3>2 DEF StepOver, Throw
      <3>4. <<ReturnAddress>> \in Seq(Sites)
        BY <2>2
      <3>5. QED
        BY <1>9, <3>1, <3>3, <3>4
    <2>4. CASE Plant
      <3>1. todo # <<>> /\ todo' = Tail(todo) /\ Head(todo) \in Sites
        BY <1>2, <1>9, <2>4 DEF Plant, ControlIsRight
      <3>2. to_delete' = to_delete \/ to_delete' = Append(to_delete, Head(todo))
        BY <2>4 DEF Plant
      <3>3. /\ Tail(todo) \in Seq(Sites)
            /\ Append(to_delete, Head(todo)) \in Seq(Sites)
        BY <1>9, <3>1
      <3>4. QED
        BY <1>9, <3>1, <3>2, <3>3
    <2>5. CASE Cleanup
      BY <1>9, <2>5 DEF Cleanup
    <2>6. (Inside /\ ~Plant /\ ~Cleanup) \/ Execute \/ Signal \/ Over
            => UNCHANGED <<todo, to_delete>>
      BY DEF Inside, Resume, StepLoop, StepInstructionDone, Die, Waited, WaitStepOver,
         WaitSingle, WaitContinue, WaitGone, Execute, Signal, Over, vars
    <2>7. UNCHANGED vars => UNCHANGED <<todo, to_delete>>
      BY DEF vars
    <2>8. QED
      BY <1>1, <2>1, <2>3, <2>4, <2>5, <2>6, <2>7 DEF Next, Inside
  <1>14. Small
    <2>1. CASE UNCHANGED vars
      BY <1>8, <2>1 DEF vars
    <2>2. CASE Continue \/ StepOut \/ StepInstruction
      BY <1>8, <2>2 DEF Continue, StepOut, StepInstruction, Begin, Phases, Commands
    <2>3. CASE StepIn
      <3>1. ASSUME NEW a, HasLine(a) PROVE LineOf(a) \in Int
        <4>1. FindAddress(Table, a) \in DOMAIN Table /\ Table \in Seq(Row)
          BY <3>1, FindAddressFacts, DebuggerAssumption DEF HasLine
        <4>2. Table[FindAddress(Table, a)] \in Row
          BY <4>1
        <4>3. QED
          BY <4>2 DEF LineOf, Row
      <3>2. QED
        BY <1>8, <2>3, <3>1 DEF StepIn, Begin, Throw, Phases, Commands
    <2>4. CASE StepOver
      BY <1>8, <2>4 DEF StepOver, Begin, Throw, Phases, Commands
    <2>5. CASE \E a \in UserSites : Break(a)
      BY <1>8, <2>5 DEF Break
    <2>6. CASE Plant \/ Resume \/ StepLoop \/ StepInstructionDone
      BY <1>8, <2>6 DEF Plant, Resume, StepLoop, StepInstructionDone, StepOffBreakpoint, Phases
    <2>7. CASE \/ \E p \in {"over", "single", "wait"} : Die(p)
               \/ WaitStepOver \/ WaitSingle \/ WaitContinue \/ WaitGone
      BY <1>8, <2>7 DEF Die, Waited, WaitStepOver, WaitSingle, WaitContinue, WaitGone,
         AfterStep, Phases
    <2>8. CASE Cleanup \/ Over
      BY <1>8, <2>8 DEF Cleanup, Over, vars, Phases
    <2>9. CASE Execute
      BY <1>8, <2>9 DEF Execute
    <2>10. CASE Signal
      BY <1>8, <2>10, DebuggerAssumption DEF Signal
    <2>11. QED
      BY <1>1, <2>1, <2>2, <2>3, <2>4, <2>5, <2>6, <2>7, <2>8, <2>9, <2>10
         DEF Next, Prompt, Inside
  <1>15. QED
    BY <1>3, <1>4, <1>5, <1>6, <1>7, <1>12, <1>13, <1>14 DEF Controlled, TypeOK

LEMMA ControlledAlways == Spec => []Controlled
  BY ControlledInit, ControlledStep, PTL DEF Spec

(* Every state of the debugger is of its types, whatever the program, the   *)
(* line table and the user's breakpoints: among them that the debugger      *)
(* plants only where a word of memory is, and that pc is an address.        *)
THEOREM DebuggerTypeCorrect == Spec => []TypeOK
  <1>1. Controlled => TypeOK
    BY DEF Controlled
  <1>2. QED
    BY <1>1, ControlledAlways, PTL

(* Whatever the commands do, a cell is the program's or holds a trap where  *)
(* a breakpoint may be, even of breakpoints that overlap or are set again.  *)
THEOREM CellsAreTheProgram == Spec => []NoForeignCells
  <1>1. Init => T!Init
    BY SameState DEF Init
  <1>2. Controlled /\ [Next]_vars => [T!Next]_(T!vars)
    BY TableStep DEF Controlled
  <1>3. T!Spec => []T!NoForeignCells
    BY TableAssumptions, T!OnlyTrapsAreForeign
  <1>4. T!NoForeignCells => NoForeignCells
    BY DEF T!NoForeignCells, NoForeignCells, B!NoForeignCells
  <1>5. QED
    BY <1>1, <1>2, <1>3, <1>4, ControlledAlways, PTL DEF Spec, T!Spec

(* The processor finds a trap at pc or the whole of an instruction.         *)
LEMMA NeverLost ==
    ASSUME BreaksAtInstructions, Controlled, NoForeignCells
    PROVE  ~Lost
  <1>1. SUFFICES ASSUME siginfo = "none", mem[pc] # Trap,
                        NEW c \in pc .. Instr[pc].next - 1
                 PROVE  mem[c] = Text[c]
    BY DEF Lost, Intact
  <1>2. pc = RealPc /\ pc # Exited /\ pc \in DOMAIN Instr
    BY <1>1 DEF Controlled, ControlIsRight, RealPc, Undebugged!Located
  <1>3. pc \in Int /\ c \in Addr /\ c \in Int
    BY <1>1, <1>2, ProgramAssumption, MemoryAssumption
  <1>4. CASE c = pc
    BY <1>1, <1>3, <1>4 DEF NoForeignCells, B!NoForeignCells
  <1>5. CASE c # pc
    <2>1. c \in pc + 1 .. Instr[pc].next - 1
      BY <1>1, <1>3, <1>5
    <2>2. c \notin Sites
      BY <1>2, <2>1 DEF BreaksAtInstructions
    <2>3. QED
      BY <1>3, <2>2 DEF NoForeignCells, B!NoForeignCells
  <1>6. QED
    BY <1>4, <1>5

(* If breakpoints are asked for only where instructions begin, what the     *)
(* debuggee executes are the instructions it would with nobody attached,    *)
(* each of them whole: traps, single steps, rollbacks and saved words, also *)
(* of breakpoints that overlap or are set again, make it neither skip nor   *)
(* repeat one nor execute another.                                          *)
THEOREM DebuggeeIsUndisturbed ==
    ASSUME BreaksAtInstructions
    PROVE  Spec => Transparent
  <1>1. Init => Undebugged!Init
    BY DEF Init, Cpu!Init, Undebugged!Init, RealPc
  <1>2. Controlled /\ NoForeignCells /\ [Next]_vars
          => [Undebugged!Step]_(Undebugged!program_vars)
    BY DebuggeeStep, NeverLost DEF Controlled
  <1>3. QED
    BY <1>1, <1>2, ControlledAlways, CellsAreTheProgram, PTL
       DEF Spec, Transparent, Undebugged!Spec

-------------------------------------------------------------------------------
(* The refinement of TemporaryBreakpoints: where it is in its phases.       *)
LEMMA MappedPhase ==
    ControlIsRight =>
        /\ phase \in {"plant", "resume", "cleanup"} => TemporariesPhase = phase
        /\ phase = "wait" => TemporariesPhase = "run"
        /\ phase = "over" => TemporariesPhase = "lifted"
        /\ phase \in {"prompt", "loop", "single", "stepped"} => TemporariesPhase = "prompt"
        /\ phase \in {"gone", "dead"} => TemporariesPhase =
              IF ~B!AtRest THEN "lifted"
              ELSE IF cmd \in Continuing THEN "cleanup" ELSE "prompt"
  BY DEF ControlIsRight, TemporariesPhase

LEMMA MappedPhaseAfter ==
    ControlIsRight' =>
        /\ phase' \in {"plant", "resume", "cleanup"} => TemporariesPhase' = phase'
        /\ phase' = "wait" => TemporariesPhase' = "run"
        /\ phase' = "over" => TemporariesPhase' = "lifted"
        /\ phase' \in {"prompt", "loop", "single", "stepped"} => TemporariesPhase' = "prompt"
        /\ phase' \in {"gone", "dead"} => TemporariesPhase' =
              IF ~B!AtRest' THEN "lifted"
              ELSE IF cmd' \in Continuing THEN "cleanup" ELSE "prompt"
  BY DEF ControlIsRight, TemporariesPhase

LEMMA TodoInit == Init => TodoIsRight
  BY DEF Init, TodoIsRight

LEMMA TodoStep ==
    ASSUME RowsAscend
    PROVE  Controlled /\ TodoIsRight /\ [Next]_vars => TodoIsRight'
  <1>1. SUFFICES ASSUME Controlled, TodoIsRight, [Next]_vars
                 PROVE  TodoIsRight'
    OBVIOUS
  <1>2. /\ to_delete \in Seq(Sites) /\ todo \in Seq(Sites)
        /\ stack \in Seq(Cpu!Frame) /\ ControlIsRight
    BY <1>1 DEF Controlled, TypeOK
  <1>3. ASSUME UNCHANGED to_delete PROVE Temporary!Temporaries' = Temporary!Temporaries
    BY <1>3 DEF Temporary!Temporaries
  <1>4. CASE UNCHANGED vars
    BY <1>1, <1>4 DEF vars, TodoIsRight, Temporary!Temporaries, B!InTable
  <1>5. CASE Continue \/ StepInstruction \/ StepIn
    <2>1. phase = "prompt" /\ UNCHANGED to_delete /\ phase' \in {"resume", "loop", "dead"}
      BY <1>5 DEF Continue, StepInstruction, StepIn, Begin, Throw
    <2>2. QED
      BY <1>1, <2>1 DEF TodoIsRight
  <1>6. CASE StepOut
    <2>1. /\ phase = "prompt" /\ UNCHANGED to_delete /\ phase' = "plant"
          /\ todo' = <<ReturnAddress>> /\ to_delete = <<>>
      BY <1>1, <1>6 DEF StepOut, Begin, TodoIsRight
    <2>2. Temporary!Temporaries' = {}
      BY <2>1 DEF Temporary!Temporaries
    <2>3. QED
      BY <1>2, <2>1, <2>2, ReturnAddressFacts DEF TodoIsRight
  <1>7. CASE StepOver
    <2>1. phase = "prompt" /\ UNCHANGED to_delete /\ to_delete = <<>>
      BY <1>1, <1>7 DEF StepOver, Begin, Throw, TodoIsRight
    <2>2. Temporary!Temporaries' = {}
      BY <2>1 DEF Temporary!Temporaries
    <2>3. ASSUME NEW a, HasFunction(a), HasLine(FunctionAt(a).low), phase' = "plant",
                 todo' = Append(RowsToPlant(a), ReturnAddress)
          PROVE  TodoIsRight'
      <3>1. /\ RowsToPlant(a) \in Seq(Rows)
            /\ \A i, j \in DOMAIN RowsToPlant(a) :
                  i <= j => RowsToPlant(a)[i] <= RowsToPlant(a)[j]
        BY <2>3, RowsToPlantFacts
      <3>2. /\ Len(todo') = Len(RowsToPlant(a)) + 1
            /\ todo'[Len(todo')] = ReturnAddress
            /\ \A i \in DOMAIN RowsToPlant(a) : todo'[i] = RowsToPlant(a)[i]
            /\ DOMAIN RowsToPlant(a) = 1 .. Len(todo') - 1
        BY <2>3, <3>1
      <3>3. /\ todo'[Len(todo')] \in Returns
            /\ \A i \in 1 .. Len(todo') - 1 :
                  /\ todo'[i] \in Rows
                  /\ \A j \in i .. Len(todo') - 1 : todo'[i] <= todo'[j]
        <4>1. ASSUME NEW i \in 1 .. Len(todo') - 1
              PROVE  /\ todo'[i] \in Rows
                     /\ \A j \in i .. Len(todo') - 1 : todo'[i] <= todo'[j]
          <5>1. i \in DOMAIN RowsToPlant(a)
            BY <3>2
          <5>2. RowsToPlant(a)[i] \in Rows
            BY <3>1, <5>1
          <5>3. \A j \in i .. Len(todo') - 1 : j \in DOMAIN RowsToPlant(a) /\ i <= j
            BY <3>1, <3>2
          <5>4. QED
            BY <3>1, <3>2, <5>1, <5>2, <5>3
        <4>2. QED
          BY <1>2, <3>2, <4>1, ReturnAddressFacts
      <3>4. QED
        BY <2>2, <2>3, <3>3 DEF TodoIsRight
    <2>4. QED
      BY <1>7, <2>1, <2>3 DEF StepOver, Throw, Begin, TodoIsRight
  <1>8. ASSUME NEW a \in UserSites, Break(a) PROVE TodoIsRight'
    BY <1>1, <1>8 DEF Break, TodoIsRight
  <1>9. CASE Plant
    <2> DEFINE last == Len(todo)
    <2>1. /\ phase = "plant" /\ todo # <<>> /\ todo' = Tail(todo)
          /\ phase' = IF todo' = <<>> THEN "resume" ELSE "plant"
      BY <1>2, <1>9 DEF Plant, ControlIsRight
    <2>2. SUFFICES ASSUME todo' # <<>>
                   PROVE  /\ todo'[Len(todo')] \in Returns
                          /\ \A t \in Temporary!Temporaries' : B!InTable(t)'
                          /\ \A i \in 1 .. Len(todo') - 1 :
                                /\ todo'[i] \in Rows
                                /\ \A t \in Temporary!Temporaries' : t <= todo'[i]
                                /\ \A j \in i .. Len(todo') - 1 : todo'[i] <= todo'[j]
      BY <2>1 DEF TodoIsRight
    <2>3. /\ todo[last] \in Returns
          /\ \A t \in Temporary!Temporaries : B!InTable(t)
          /\ \A i \in 1 .. last - 1 :
                /\ todo[i] \in Rows
                /\ \A t \in Temporary!Temporaries : t <= todo[i]
                /\ \A j \in i .. last - 1 : todo[i] <= todo[j]
      BY <1>1, <2>1 DEF TodoIsRight
    <2>4. /\ last \in Nat /\ last > 1
          /\ Len(todo') = last - 1
          /\ \A i \in 1 .. last - 1 : todo'[i] = todo[i + 1]
          /\ Head(todo) = todo[1]
      BY <1>2, <2>1, <2>2
    <2>5. \A t \in Temporary!Temporaries' : t \in Temporary!Temporaries \/ t = todo[1]
      <3>1. to_delete' = to_delete \/ to_delete' = Append(to_delete, todo[1])
        BY <1>9, <2>4 DEF Plant
      <3>2. QED
        BY <1>2, <3>1 DEF Temporary!Temporaries
    <2>6. \A t \in Temporary!Temporaries' : B!InTable(t)'
      <3>1. CASE UNCHANGED <<m_breakpoints, to_delete>>
        BY <2>3, <3>1 DEF Temporary!Temporaries, B!InTable
      <3>2. CASE B!SetBreakpointAtAddress(todo[1])
        BY <2>3, <2>5, <3>2 DEF B!SetBreakpointAtAddress, B!With, B!InTable
      <3>3. QED
        BY <1>9, <2>4, <3>1, <3>2 DEF Plant, table_vars
    <2>7. \A i \in 1 .. Len(todo') - 1 : i + 1 \in 1 .. last - 1 /\ todo'[i] = todo[i + 1]
      BY <2>4
    <2>8. ASSUME NEW i \in 1 .. Len(todo') - 1
          PROVE  /\ todo'[i] \in Rows
                 /\ \A t \in Temporary!Temporaries' : t <= todo'[i]
                 /\ \A j \in i .. Len(todo') - 1 : todo'[i] <= todo'[j]
      <3>1. todo'[i] \in Rows
        BY <2>3, <2>7
      <3>2. todo[1] <= todo[i + 1]
        BY <2>3, <2>4
      <3>3. \A t \in Temporary!Temporaries' : t <= todo'[i]
        BY <2>3, <2>5, <2>7, <3>2
      <3>4. ASSUME NEW j \in i .. Len(todo') - 1 PROVE todo'[i] <= todo'[j]
        <4>1. j \in 1 .. Len(todo') - 1 /\ j + 1 \in i + 1 .. last - 1
          BY <2>4
        <4>2. QED
          BY <2>3, <2>7, <4>1
      <3>5. QED
        BY <3>1, <3>3, <3>4
    <2>9. todo'[Len(todo')] = todo[last]
      BY <2>4
    <2>10. QED
      BY <2>3, <2>6, <2>8, <2>9
  <1>10. CASE Resume \/ StepLoop \/ StepInstructionDone
    BY <1>1, <1>2, <1>10 DEF Resume, StepLoop, StepInstructionDone, StepOffBreakpoint, TodoIsRight, ControlIsRight
  <1>11. CASE \/ \E p \in {"over", "single", "wait"} : Die(p)
              \/ WaitStepOver \/ WaitSingle \/ WaitContinue \/ WaitGone
    BY <1>1, <1>2, <1>11 DEF Die, Waited, WaitStepOver, WaitSingle, WaitContinue, WaitGone,
       AfterStep, TodoIsRight, Continuing
  <1>12. CASE Cleanup
    BY <1>1, <1>12 DEF Cleanup, TodoIsRight
  <1>13. CASE Execute \/ Signal
    BY <1>1, <1>2, <1>13 DEF Execute, Signal, TodoIsRight, ControlIsRight
  <1>14. CASE Over
    BY <1>4, <1>14 DEF Over
  <1>15. QED
    BY <1>1, <1>4, <1>5, <1>6, <1>7, <1>8, <1>9, <1>10, <1>11, <1>12, <1>13, <1>14
       DEF Next, Prompt, Inside

LEMMA SameTemporaries ==
    /\ T!Temporaries = Temporary!Temporaries
    /\ \A a : T!SetNewBreakpoint(a) <=> ~B!InTable(a) /\ B!SetBreakpointAtAddress(a)
  BY SameState, SameSteps DEF T!Temporaries, Temporary!Temporaries, T!SetNewBreakpoint

(* Every step of the debugger is a step of TemporaryBreakpoints or none.    *)
LEMMA TemporariesStep ==
    ASSUME RowsAscend, ~Repeats
    PROVE  Controlled /\ TodoIsRight /\ [Next]_vars => [T!TNext]_(T!tvars)
  <1>1. SUFFICES ASSUME Controlled, TodoIsRight, [Next]_vars
                 PROVE  [T!TNext]_(T!tvars)
    OBVIOUS
  <1>2. /\ to_delete \in Seq(Sites) /\ todo \in Seq(Sites)
        /\ ControlIsRight /\ ControlIsRight'
        /\ \A a : B!InTable(a) => a \in Sites
    BY <1>1, ControlledStep DEF Controlled, TypeOK, B!TypeOK, B!InTable
  <1> DEFINE Kept == UNCHANGED <<mem, m_breakpoints, to_delete>>
             tphase == TemporariesPhase
  <1>3. ASSUME Kept, UNCHANGED tphase PROVE [T!TNext]_(T!tvars)
    BY <1>3 DEF T!tvars
  <1>4. ASSUME Kept PROVE B!AtRest' = B!AtRest
    BY <1>4 DEF B!AtRest
  <1>5. CASE UNCHANGED vars
    BY <1>3, <1>5 DEF vars, TemporariesPhase, B!AtRest
  <1>6. CASE Continue
    <2>1. Kept /\ phase = "prompt" /\ phase' = "resume"
      BY <1>6 DEF Continue, Begin, table_vars
    <2>2. tphase = "prompt" /\ tphase' = "resume"
      BY <1>2, <2>1, MappedPhase, MappedPhaseAfter
    <2>3. QED
      BY <2>1, <2>2 DEF T!TNext, T!BeginContinue, T!table_vars
  <1>7. ASSUME Kept, phase = "prompt", phase' = "plant" PROVE [T!TNext]_(T!tvars)
    <2>1. tphase = "prompt" /\ tphase' = "plant"
      BY <1>2, <1>7, MappedPhase, MappedPhaseAfter
    <2>2. QED
      BY <1>7, <2>1 DEF T!TNext, T!BeginPlanting, T!table_vars
  <1>8. ASSUME Kept, phase = "prompt", phase' = "loop" \/ (phase' = "dead" /\ cmd' = "none")
        PROVE  [T!TNext]_(T!tvars)
    <2>1. tphase = "prompt" /\ tphase' = "prompt"
      BY <1>2, <1>4, <1>8, MappedPhase, MappedPhaseAfter DEF Continuing, ControlIsRight
    <2>2. QED
      BY <1>3, <1>8, <2>1
  <1>9. CASE StepOut \/ StepOver \/ StepIn \/ StepInstruction
    <2>1. Kept /\ phase = "prompt"
      BY <1>9 DEF StepOut, StepOver, StepIn, StepInstruction, Begin, Throw, table_vars
    <2>2. phase' = "plant" \/ phase' = "loop" \/ (phase' = "dead" /\ cmd' = "none")
      <3>1. StepOut \/ StepInstruction => phase' = "plant" \/ phase' = "loop"
        BY DEF StepOut, StepInstruction
      <3>2. StepOver => phase' = "plant" \/ Throw
        BY DEF StepOver
      <3>3. StepIn => phase' = "loop" \/ Throw
        BY DEF StepIn
      <3>4. Throw => phase' = "dead" /\ cmd' = "none"
        BY DEF Throw
      <3>5. QED
        BY <1>9, <3>1, <3>2, <3>3, <3>4
    <2>3. QED
      BY <1>7, <1>8, <2>1, <2>2
  <1>10. ASSUME NEW a \in UserSites, Break(a) PROVE [T!TNext]_(T!tvars)
    <2>1. /\ phase = "prompt" /\ UNCHANGED <<phase, to_delete>>
          /\ T!SetNewBreakpoint(a)
      BY <1>10, SameTemporaries DEF Break
    <2>2. tphase = "prompt" /\ tphase' = "prompt"
      BY <1>2, <2>1, MappedPhase, MappedPhaseAfter
    <2>3. T!Break(a)
      BY <2>1, <2>2 DEF T!Break
    <2>4. QED
      BY <2>3 DEF T!TNext
  <1>11. CASE Plant
    <2> DEFINE a == Head(todo)
    <2>1. /\ phase = "plant" /\ todo # <<>> /\ a = todo[1]
          /\ phase' = IF Tail(todo) = <<>> THEN "resume" ELSE "plant"
          /\ IF B!InTable(a) \/ (Tail(todo) # <<>> /\ a = StartLine)
               THEN Kept
               ELSE B!SetBreakpointAtAddress(a) /\ to_delete' = Append(to_delete, a)
      BY <1>2, <1>11 DEF Plant, ControlIsRight, table_vars
    <2>2. tphase = "plant" /\ tphase' = phase'
      BY <1>2, <2>1, MappedPhase, MappedPhaseAfter
    <2>3. CASE Tail(todo) = <<>>
      <3>1. a \in Returns
        <4>1. Len(todo) = 1
          <5>1. todo \in Seq(Sites) /\ todo # <<>>
            BY <1>2, <2>1
          <5>2. Len(Tail(todo)) = Len(todo) - 1 /\ Len(todo) \in Nat
            BY <5>1
          <5>3. Len(Tail(todo)) = 0
            BY <2>3
          <5>4. QED
            BY <5>2, <5>3
        <4>2. QED
          BY <1>1, <2>1, <4>1 DEF TodoIsRight
      <3>2. T!PlantReturn(a)
        BY <2>1, <2>2, <2>3, SameState, SameSteps DEF T!PlantReturn, T!table_vars
      <3>3. QED
        BY <3>1, <3>2 DEF T!TNext
    <2>4. CASE Tail(todo) # <<>> /\ Kept
      BY <1>3, <2>1, <2>2, <2>4
    <2>5. CASE Tail(todo) # <<>> /\ ~Kept
      <3>1. 1 \in 1 .. Len(todo) - 1
        BY <1>2, <2>1, <2>5
      <3>2. a \in Rows /\ \A t \in T!Temporaries : t <= a /\ B!InTable(t)
        BY <1>1, <2>1, <3>1, SameTemporaries DEF TodoIsRight
      <3>3. ~B!InTable(a) /\ B!SetBreakpointAtAddress(a) /\ to_delete' = Append(to_delete, a)
        BY <2>1, <2>5
      <3>4. \A t \in T!Temporaries : t < a
        <4>1. ASSUME NEW t \in T!Temporaries PROVE t < a
          <5>1. t # a /\ t <= a /\ t \in Sites /\ a \in Sites
            BY <1>2, <2>1, <3>2, <3>3
          <5>2. t \in Int /\ a \in Int
            BY <5>1, MemoryAssumption
          <5>3. QED
            BY <5>1, <5>2
        <4>2. QED
          BY <4>1
      <3>5. T!PlantRow(a)
        BY <2>1, <2>2, <2>5, <3>3, <3>4, SameTemporaries DEF T!PlantRow
      <3>6. QED
        BY <3>2, <3>5 DEF T!TNext
    <2>6. QED
      BY <2>3, <2>4, <2>5
  <1>12. ASSUME StepOffBreakpoint, phase \in {"resume", "loop"}, UNCHANGED to_delete
         PROVE  [T!TNext]_(T!tvars)
    <2>1. /\ tphase \in {"resume", "prompt"}
          /\ tphase' = "lifted"
      BY <1>2, <1>12, MappedPhase, MappedPhaseAfter DEF StepOffBreakpoint
    <2>2. pc \in Sites
      BY <1>2, <1>12 DEF StepOffBreakpoint, B!StepOverDisable, B!IsEnabled
    <2>3. T!Lift(pc)
      BY <1>12, <2>1, SameSteps DEF T!Lift, StepOffBreakpoint
    <2>4. QED
      BY <2>2, <2>3 DEF T!TNext
  <1>13. CASE Resume
    <2>1. phase = "resume" /\ UNCHANGED to_delete
      BY <1>13 DEF Resume
    <2>2. CASE StepOffBreakpoint
      BY <1>12, <2>1, <2>2
    <2>3. CASE Kept /\ phase' = "wait"
      <3>1. tphase = "resume" /\ tphase' = "run"
        BY <1>2, <2>1, <2>3, MappedPhase, MappedPhaseAfter
      <3>2. QED
        BY <2>3, <3>1 DEF T!TNext, T!Continue, T!table_vars
    <2>4. QED
      BY <1>13, <2>2, <2>3 DEF Resume, table_vars
  <1>14. ASSUME Kept, phase \in {"loop", "single", "stepped"}, UNCHANGED cmd,
                phase' \in {"prompt", "loop", "single", "stepped", "dead"}
         PROVE  [T!TNext]_(T!tvars)
    <2>1. cmd' \notin Continuing /\ B!AtRest'
      BY <1>2, <1>4, <1>14 DEF ControlIsRight, Continuing
    <2>2. tphase = "prompt" /\ tphase' = "prompt"
      BY <1>2, <1>14, <2>1, MappedPhase, MappedPhaseAfter
    <2>3. QED
      BY <1>3, <1>14, <2>2
  <1>15. CASE StepLoop
    <2>1. phase = "loop" /\ UNCHANGED <<to_delete, cmd>>
      BY <1>15 DEF StepLoop
    <2>2. StepOffBreakpoint \/ (Kept /\ phase' \in {"prompt", "single", "dead"})
      BY <1>15 DEF StepLoop, table_vars
    <2>3. QED
      BY <1>12, <1>14, <2>1, <2>2
  <1>16. CASE StepInstructionDone \/ WaitSingle \/ Die("single")
    BY <1>14, <1>16 DEF StepInstructionDone, WaitSingle, Die, Waited, AfterStep, table_vars
  <1>17. ASSUME Kept, UNCHANGED cmd, phase = "over", phase' \in {"gone", "dead"}
         PROVE  [T!TNext]_(T!tvars)
    <2>1. tphase = "lifted" /\ tphase' = "lifted"
      BY <1>2, <1>4, <1>17, MappedPhase, MappedPhaseAfter DEF ControlIsRight
    <2>2. QED
      BY <1>3, <1>17, <2>1
  <1>18. ASSUME Kept, UNCHANGED cmd, phase = "wait", phase' \in {"cleanup", "gone", "dead"}
         PROVE  [T!TNext]_(T!tvars)
    <2>1. cmd' \in Continuing /\ B!AtRest'
      BY <1>2, <1>4, <1>18 DEF ControlIsRight
    <2>2. tphase = "run" /\ tphase' = "cleanup"
      BY <1>2, <1>18, <2>1, MappedPhase, MappedPhaseAfter
    <2>3. QED
      BY <1>18, <2>2 DEF T!TNext, T!Stop, T!table_vars
  <1>19. ASSUME Kept, UNCHANGED cmd, phase = "single", phase' \in {"gone", "dead"}
         PROVE  [T!TNext]_(T!tvars)
    <2>1. cmd' \notin Continuing /\ B!AtRest'
      BY <1>2, <1>4, <1>19 DEF ControlIsRight, Continuing
    <2>2. tphase = "prompt" /\ tphase' = "prompt"
      BY <1>2, <1>19, <2>1, MappedPhase, MappedPhaseAfter
    <2>3. QED
      BY <1>3, <1>19, <2>2
  <1>20. CASE Die("over") \/ Die("wait") \/ WaitContinue \/ WaitGone
    BY <1>17, <1>18, <1>19, <1>20 DEF Die, Waited, WaitContinue, WaitGone, table_vars
  <1>21. CASE WaitStepOver
    <2>1. PICK a \in DOMAIN m_breakpoints : B!StepOverEnable(a)
      BY <1>21 DEF WaitStepOver
    <2>2. /\ a \in Sites /\ phase = "over" /\ UNCHANGED <<to_delete, cmd>>
          /\ \/ cmd \in Continuing /\ phase' = "wait"
             \/ cmd \notin Continuing /\ phase' \in {"loop", "stepped"}
      BY <1>2, <1>21 DEF WaitStepOver, Waited, AfterStep, Continuing, B!InTable
    <2>3. cmd \notin Continuing => to_delete = <<>>
      BY <1>1, <2>2 DEF TodoIsRight
    <2>4. /\ tphase = "lifted"
          /\ tphase' = "run" \/ (to_delete = <<>> /\ tphase' = "prompt")
      BY <1>2, <2>2, <2>3, MappedPhase, MappedPhaseAfter
    <2>5. T!Replant(a)
      BY <2>1, <2>2, <2>4, SameSteps DEF T!Replant
    <2>6. QED
      BY <2>2, <2>5 DEF T!TNext
  <1>22. CASE Cleanup
    <2>1. /\ phase = "cleanup"
          /\ \/ /\ to_delete # <<>> /\ UNCHANGED phase
                /\ B!RemoveBreakpoint(Head(to_delete))
                /\ to_delete' = Tail(to_delete)
             \/ to_delete = <<>> /\ phase' = "prompt" /\ Kept
      BY <1>22 DEF Cleanup, table_vars
    <2>2. tphase = "cleanup" /\ tphase' = phase'
      BY <1>2, <2>1, MappedPhase, MappedPhaseAfter
    <2>3. T!RemoveTemporary \/ T!Return
      BY <2>1, <2>2, SameSteps DEF T!RemoveTemporary, T!Return, T!table_vars
    <2>4. QED
      BY <2>3 DEF T!TNext
  <1>23. CASE Execute \/ Signal
    BY <1>3, <1>23 DEF Execute, Signal, table_vars, TemporariesPhase, B!AtRest
  <1>24. CASE Over
    BY <1>5, <1>24 DEF Over
  <1>25. QED
    BY <1>1, <1>5, <1>6, <1>9, <1>10, <1>11, <1>13, <1>15, <1>16, <1>20, <1>21, <1>22,
       <1>23, <1>24 DEF Next, Prompt, Inside

LEMMA SameTemporarySteps == T!TNext <=> Temporary!TNext
  <1> USE SameState DEF T!table_vars, Temporary!table_vars
  <1>1. \A a : /\ T!InTable(a) <=> Temporary!InTable(a)
               /\ T!SetBreakpointAtAddress(a) <=> Temporary!SetBreakpointAtAddress(a)
               /\ T!RemoveBreakpoint(a) <=> Temporary!RemoveBreakpoint(a)
               /\ T!StepOverDisable(a) <=> Temporary!StepOverDisable(a)
               /\ T!StepOverEnable(a) <=> Temporary!StepOverEnable(a)
    BY DEF T!InTable, Temporary!InTable, T!IsEnabled, Temporary!IsEnabled,
       T!AtRest, Temporary!AtRest, T!EnabledMem, Temporary!EnabledMem,
       T!DisabledMem, Temporary!DisabledMem, T!With, Temporary!With,
       T!Without, Temporary!Without, T!Enabled, Temporary!Enabled,
       T!PokeWord, Temporary!PokeWord, T!PeekWord, Temporary!PeekWord,
       T!Window, Temporary!Window,
       T!BreakpointInstrument, Temporary!BreakpointInstrument,
       T!SetBreakpointAtAddress, Temporary!SetBreakpointAtAddress,
       T!RemoveBreakpoint, Temporary!RemoveBreakpoint,
       T!StepOverDisable, Temporary!StepOverDisable,
       T!StepOverEnable, Temporary!StepOverEnable
  <1>2. T!BeginPlanting \/ T!BeginContinue \/ T!Continue \/ T!Stop \/ T!Return
          <=> \/ Temporary!BeginPlanting \/ Temporary!BeginContinue
              \/ Temporary!Continue \/ Temporary!Stop \/ Temporary!Return
    BY DEF T!BeginPlanting, T!BeginContinue, T!Continue, T!Stop, T!Return,
       Temporary!BeginPlanting, Temporary!BeginContinue, Temporary!Continue,
       Temporary!Stop, Temporary!Return
  <1>3. \A a : T!SetNewBreakpoint(a) <=> Temporary!SetNewBreakpoint(a)
    BY <1>1 DEF T!SetNewBreakpoint, Temporary!SetNewBreakpoint
  <1>4. \A a : /\ T!Break(a) <=> Temporary!Break(a)
               /\ T!PlantRow(a) <=> Temporary!PlantRow(a)
    BY <1>3, SameTemporaries DEF T!Break, Temporary!Break, T!PlantRow, Temporary!PlantRow
  <1>5. \A a : /\ T!PlantReturn(a) <=> Temporary!PlantReturn(a)
               /\ T!Lift(a) <=> Temporary!Lift(a)
               /\ T!Replant(a) <=> Temporary!Replant(a)
    BY <1>1 DEF T!PlantReturn, Temporary!PlantReturn, T!Lift, Temporary!Lift,
       T!Replant, Temporary!Replant
  <1>6. T!RemoveTemporary <=> Temporary!RemoveTemporary
    BY <1>1 DEF T!RemoveTemporary, Temporary!RemoveTemporary
  <1>7. QED
    BY <1>2, <1>4, <1>5, <1>6 DEF T!TNext, Temporary!TNext

LEMMA TodoAlways ==
    ASSUME RowsAscend
    PROVE  Spec => []TodoIsRight
  BY ControlledAlways, TodoInit, TodoStep, PTL DEF Spec

LEMMA TemporariesInit == Init => T!TInit
  BY SameState DEF Init, B!Init, T!TInit, TemporariesPhase, B!AtRest

LEMMA TemporariesAlways ==
    ASSUME RowsAscend, ~Repeats
    PROVE  Spec => T!TSpec
  BY ControlledAlways, TodoAlways, TemporariesInit, TemporariesStep, PTL DEF Spec, T!TSpec

(* The commands use the breakpoint table as TemporaryBreakpoints says:      *)
(* whatever stops the debuggee, or ends it, or throws, each step of a       *)
(* command is one of the steps the theorems about temporaries allow.        *)
THEOREM CommandsImplementTemporaries ==
    ASSUME RowsAscend, ~Repeats
    PROVE  Spec => ImplementsTemporaries
  <1>1. T!TInit <=> Temporary!TInit
    BY DEF T!TInit, Temporary!TInit, T!Init, Temporary!Init
  <1>2. [T!TNext]_(T!tvars) => [Temporary!TNext]_(Temporary!tvars)
    BY SameTemporarySteps DEF T!tvars, Temporary!tvars
  <1>3. QED
    BY <1>1, <1>2, TemporariesAlways, PTL DEF T!TSpec, ImplementsTemporaries, Temporary!TSpec

-------------------------------------------------------------------------------
(* What follows from the theorems about temporaries.                        *)
LEMMA SameInvariants ==
    /\ T!LeavesNoTrace <=> PromptIsClean
    /\ T!UserSpaced <=> Temporary!UserSpaced
    /\ T!ReturnsClear <=> Temporary!ReturnsClear
    /\ T!Spaced <=> Temporary!Spaced
  BY SameState DEF PromptIsClean, T!LeavesNoTrace, Temporary!LeavesNoTrace,
     T!TrapsAreExact, Temporary!TrapsAreExact, T!UserSpaced, Temporary!UserSpaced,
     T!ReturnsClear, Temporary!ReturnsClear, T!Spaced, Temporary!Spaced,
     T!Window, Temporary!Window, T!IsEnabled, Temporary!IsEnabled, T!InTable,
     Temporary!InTable

LEMMA AccountedAlways ==
    ASSUME RowsAscend, ~Repeats, Temporary!UserSpaced, Temporary!ReturnsClear
    PROVE  Spec => []T!TInv
  BY TemporariesAlways, TableAssumptions, SameInvariants, T!TemporariesAreAccounted, PTL

(* On x86-64, however close the rows are, when it prompts again the table   *)
(* holds the user's breakpoints only and memory the program and their       *)
(* traps: no command leaves a trap or a word of its own behind, whatever    *)
(* ended it.                                                                *)
THEOREM NextAndFinishLeaveNoTrace ==
    ASSUME RowsAscend, ~Repeats, Temporary!UserSpaced, Temporary!ReturnsClear
    PROVE  Spec => []PromptIsClean
  BY TemporariesAlways, TableAssumptions, SameInvariants, T!StepsLeaveNoTrace, PTL

(* Where the processor may be, and what it may find there.                  *)
LEMMA FetchFacts ==
    ASSUME Controlled, T!TInv, siginfo \notin {"brk", "exit"}
    PROVE  pc \in Addr /\ (mem[pc] = Trap => B!InTable(pc))
  <1>1. RealPc = pc /\ pc \in DOMAIN Instr \union {Exited} /\ pc # Exited
    BY DEF Controlled, ControlIsRight, RealPc, Undebugged!Located
  <1>2. pc \in Addr /\ Text[pc] # Trap
    BY <1>1, ProgramAssumption, MemoryAssumption
  <1>3. mem[pc] = Text[pc] \/ T!InTable(pc)
    BY <1>2 DEF T!TInv, T!MemoryIsAccounted
  <1>4. QED
    BY <1>2, <1>3, SameState

LEMMA ExplainedStep ==
    Controlled /\ T!TInv /\ StopsAreExplained /\ [Next]_vars => StopsAreExplained'
  <1>1. SUFFICES ASSUME Controlled, T!TInv, StopsAreExplained, [Next]_vars,
                        siginfo' = "brk"
                 PROVE  B!InTable(RealPc)'
    BY DEF StopsAreExplained
  <1>2. pc \in Int /\ Rollback \in Nat /\ ControlIsRight
    BY <1>1, DebuggerAssumption DEF Controlled, TypeOK, Rollback
  <1>3. CASE Execute
    <2>1. mode # "stopped" /\ siginfo = "none"
      BY <1>2, <1>3 DEF Execute, ControlIsRight
    <2>2. mem[pc] = Trap /\ pc' = pc + Rollback /\ UNCHANGED m_breakpoints
      BY <1>1, <1>3, <2>1 DEF Execute, table_vars
    <2>3. RealPc' = pc
      BY <1>1, <1>2, <2>2 DEF RealPc
    <2>4. B!InTable(pc)
      BY <1>1, <2>1, <2>2, FetchFacts
    <2>5. QED
      BY <2>2, <2>3, <2>4 DEF B!InTable
  <1>4. CASE siginfo = "brk" /\ UNCHANGED <<siginfo, pc, m_breakpoints>>
    BY <1>1, <1>4 DEF StopsAreExplained, RealPc, B!InTable
  <1>5. ~Waited /\ ~Signal
    BY <1>1 DEF Waited, Signal
  <1>6. CASE Over \/ UNCHANGED vars
    BY <1>1, <1>4, <1>6 DEF Over, vars
  <1>7. CASE Prompt
    <2>1. phase = "prompt" /\ UNCHANGED siginfo
      BY <1>7 DEF Prompt, Continue, StepOut, StepInstruction, StepIn, StepOver, Begin, Throw,
         Break
    <2>2. QED
      BY <1>1, <1>2, <2>1 DEF ControlIsRight
  <1>8. CASE Inside
    <2>1. UNCHANGED siginfo /\ (phase \in {"plant", "resume", "loop", "stepped", "cleanup"} \/ siginfo = "exit")
      BY <1>5, <1>8 DEF Inside, Plant, Resume, StepLoop, StepInstructionDone, Die,
         WaitStepOver, WaitSingle, WaitContinue, WaitGone, Cleanup
    <2>2. QED
      BY <1>1, <1>2, <2>1 DEF ControlIsRight
  <1>9. QED
    BY <1>1, <1>3, <1>5, <1>6, <1>7, <1>8 DEF Next

(* The debuggee traps only where the table has a breakpoint: pc is never    *)
(* wound back to an address nobody planted, and the lookup that follows a   *)
(* trap is of a breakpoint's address.                                       *)
THEOREM TrapsAreBreakpoints ==
    ASSUME RowsAscend, ~Repeats, Temporary!UserSpaced, Temporary!ReturnsClear
    PROVE  Spec => []StopsAreExplained
  <1>1. Init => StopsAreExplained
    BY DEF Init, StopsAreExplained
  <1>2. QED
    BY <1>1, ControlledAlways, AccountedAlways, ExplainedStep, PTL DEF Spec

(* What step_over_breakpoint steps on is the program's own instruction.     *)
LiftedIsProgram == \A a \in DOMAIN m_breakpoints : ~B!IsEnabled(a) => mem[a] # Trap

LEMMA LiftedFetch == T!TInv => LiftedIsProgram
  <1>1. SUFFICES ASSUME T!TInv, NEW a \in DOMAIN m_breakpoints, ~B!IsEnabled(a)
                 PROVE  mem[a] # Trap
    BY DEF LiftedIsProgram
  <1>2. a \in Sites /\ a \in Addr /\ ~T!IsEnabled(a)
    BY <1>1, TableAssumptions, SameState DEF T!TInv, T!TTypeOK, T!TypeOK
  <1>3. a \in T!Window(a)
    BY <1>2, TableAssumptions, T!WindowFacts
  <1>4. mem[a] = m_breakpoints[a].staging_data[a]
    BY <1>1, <1>2, <1>3 DEF T!TInv, T!StagingIsSettled
  <1>5. m_breakpoints[a].staging_data[a] = Text[a]
    <2>1. CASE a \in T!Temporaries
      <3>1. T!Settled(a) = Text[a]
        BY <2>1 DEF T!Settled, T!UserTable
      <3>2. QED
        BY <1>1, <1>3, <2>1, <3>1 DEF T!TInv, T!StagingIsSettled
    <2>2. CASE a \notin T!Temporaries
      BY <1>1, <1>3, <2>2 DEF T!TInv, T!StagingIsSettled, T!UserTable
    <2>3. QED
      BY <2>1, <2>2
  <1>6. QED
    BY <1>2, <1>4, <1>5, MemoryAssumption

LEMMA LiftedAfter == T!TInv' => LiftedIsProgram'
  BY LiftedFetch, PTL

LEMMA ProgressStep ==
    /\ Controlled /\ T!TInv /\ T!TInv' /\ ProgressIsNear /\ [Next]_vars
    => ProgressIsNear'
  <1>1. SUFFICES ASSUME Controlled, T!TInv, T!TInv', ProgressIsNear, [Next]_vars,
                        signals' = 0, ~moved'
                 PROVE  /\ phase' # "cleanup"
                        /\ phase' = "prompt" => cmd' \notin Continuing
                        /\ phase' = "wait" => mode' = "running" /\ ~B!InTable(pc)'
                        /\ phase' = "over" => mode' = "stepping" /\ mem'[pc'] # Trap
    BY DEF ProgressIsNear
  <1>2. ControlIsRight /\ signals \in Nat /\ moved \in BOOLEAN
    BY <1>1, DebuggerAssumption DEF Controlled, TypeOK, Rollback
  <1>3. CASE Continue \/ StepOut \/ StepInstruction \/ StepIn \/ StepOver
    <2>1. phase' \in {"plant", "resume", "loop", "dead"}
      BY <1>3 DEF Continue, StepOut, StepInstruction, StepIn, StepOver, Throw
    <2>2. QED
      BY <2>1
  <1>4. CASE UNCHANGED vars
    BY <1>1, <1>4 DEF vars, ProgressIsNear, B!InTable
  <1>5. ASSUME UNCHANGED <<signals, moved>>
        PROVE  /\ phase # "cleanup"
               /\ phase = "prompt" => cmd \notin Continuing
               /\ phase = "wait" => mode = "running" /\ ~B!InTable(pc)
               /\ phase = "over" => mode = "stepping" /\ mem[pc] # Trap
    BY <1>1, <1>5 DEF ProgressIsNear
  <1>6. CASE \E a \in UserSites : Break(a)
    BY <1>5, <1>6 DEF Break, history
  <1>7. CASE Plant \/ StepInstructionDone
    BY <1>2, <1>7 DEF Plant, StepInstructionDone, ControlIsRight, Continuing
  <1>8. ASSUME StepOffBreakpoint, UNCHANGED pc
        PROVE  phase' = "over" /\ mode' = "stepping" /\ mem'[pc'] # Trap
    <2>1. pc \in DOMAIN m_breakpoints' /\ ~B!IsEnabled(pc)'
      <3>1. /\ pc \in DOMAIN m_breakpoints
            /\ m_breakpoints' = [m_breakpoints EXCEPT ![pc].enabled = FALSE]
        BY <1>8 DEF StepOffBreakpoint, B!StepOverDisable, B!IsEnabled, B!InTable
      <3>2. m_breakpoints[pc] \in B!Breakpoint(pc)
        BY <1>1, <3>1 DEF Controlled, TypeOK, B!TypeOK
      <3>3. m_breakpoints'[pc].enabled = FALSE
        BY <3>1, <3>2 DEF B!Breakpoint
      <3>4. QED
        BY <1>8, <3>1, <3>3 DEF B!IsEnabled, B!InTable
    <2>2. mem'[pc'] # Trap
      <3>1. \A a \in DOMAIN m_breakpoints' : ~B!IsEnabled(a)' => mem'[a] # Trap
        BY <1>1, LiftedAfter DEF LiftedIsProgram
      <3>2. QED
        BY <1>8, <2>1, <3>1 DEF B!IsEnabled, B!InTable
    <2>3. QED
      BY <1>8, <2>2 DEF StepOffBreakpoint
  <1>9. CASE Resume
    <2>1. CASE StepOffBreakpoint
      BY <1>8, <1>9, <2>1 DEF Resume, cpu_vars
    <2>2. CASE ~B!IsEnabled(pc) /\ mode' = "running" /\ phase' = "wait" /\ UNCHANGED table_vars
      <3>1. ~B!InTable(pc) /\ UNCHANGED pc
        BY <1>2, <1>9, <2>2 DEF Resume, cpu_vars, ControlIsRight, B!IsEnabled, B!AtRest,
           B!InTable
      <3>2. QED
        BY <2>2, <3>1 DEF B!InTable, table_vars
    <2>3. QED
      BY <1>9, <2>1, <2>2 DEF Resume
  <1>10. CASE StepLoop
    <2>1. phase = "loop" /\ UNCHANGED <<cmd, pc>> /\ cmd \notin Continuing
      BY <1>2, <1>10 DEF StepLoop, cpu_vars, ControlIsRight, Continuing
    <2>2. StepOffBreakpoint \/ phase' \in {"single", "prompt", "dead"}
      BY <1>10 DEF StepLoop
    <2>3. QED
      BY <1>8, <2>1, <2>2
  <1>11. CASE \/ \E p \in {"over", "single", "wait"} : Die(p)
              \/ WaitSingle \/ WaitGone
    <2>1. phase' \in {"dead", "gone", "stepped", "loop"}
      BY <1>11 DEF Die, WaitSingle, WaitGone, AfterStep
    <2>2. QED
      BY <2>1
  <1>12. ~WaitStepOver /\ ~WaitContinue /\ ~Cleanup
    <2>1. WaitStepOver \/ WaitContinue => Waited /\ phase \in {"over", "wait"}
      BY DEF WaitStepOver, WaitContinue
    <2>2. Waited => UNCHANGED <<signals, moved>> /\ mode = "stopped"
      BY DEF Waited, history
    <2>3. Cleanup => phase = "cleanup" /\ UNCHANGED <<signals, moved>>
      BY DEF Cleanup, history
    <2>4. QED
      BY <1>5, <2>1, <2>2, <2>3
  <1>13. ~Signal
    BY <1>1, <1>2 DEF Signal
  <1>14. CASE Execute
    <2>1. /\ mode # "stopped" /\ siginfo = "none" /\ mem[pc] = Trap
          /\ UNCHANGED <<phase, signals, moved>>
      BY <1>1, <1>2, <1>14 DEF Execute, ControlIsRight
    <2>2. B!InTable(pc)
      BY <1>1, <2>1, FetchFacts
    <2>3. phase = "single"
      BY <1>2, <1>5, <1>14, <2>1, <2>2 DEF Execute, ControlIsRight
    <2>4. QED
      BY <2>1, <2>3
  <1>15. CASE Over
    BY <1>4, <1>15 DEF Over
  <1>16. QED
    BY <1>1, <1>3, <1>4, <1>6, <1>7, <1>9, <1>10, <1>11, <1>12, <1>13, <1>14, <1>15
       DEF Next, Prompt, Inside

(* A command that continues does not report the stop it started from: it    *)
(* steps off the breakpoint it stands on, and what it steps on is the       *)
(* program's instruction, so something has run when it prompts again.       *)
THEOREM ContinuingProgresses ==
    ASSUME RowsAscend, ~Repeats, Temporary!UserSpaced, Temporary!ReturnsClear
    PROVE  Spec => []ContinueMakesProgress
  <1>1. Init => ProgressIsNear
    BY DEF Init, ProgressIsNear, Continuing
  <1>2. Controlled /\ ProgressIsNear => ContinueMakesProgress
    BY DEF ProgressIsNear, ContinueMakesProgress, Controlled, TypeOK
  <1>3. QED
    BY <1>1, <1>2, ControlledAlways, AccountedAlways, ProgressStep, PTL DEF Spec

(* Where rows, return addresses and the user's breakpoints are a word       *)
(* apart, a debuggee that runs over an address of the table stops there:    *)
(* none of the traps that next, finish and the user rely on is lost while   *)
(* others are planted, lifted and put back.                                 *)
THEOREM BreakpointsAreHit ==
    ASSUME RowsAscend, ~Repeats, Temporary!Spaced
    PROVE  Spec => NoBreakpointMissed
  <1>1. Spec => []T!ArmedWhileRunning
    BY TemporariesAlways, TableAssumptions, SameInvariants, T!SpacedStepsAreArmed, PTL
  <1>2. ASSUME Controlled, T!ArmedWhileRunning, [Next]_vars,
               mode = "running", B!InTable(pc), cpu_vars' # cpu_vars
        PROVE  siginfo' = "brk"
    <2>1. phase = "wait" /\ ControlIsRight
      BY <1>2 DEF Controlled, ControlIsRight
    <2>2. mem[pc] = Trap
      <3>1. TemporariesPhase = "run"
        BY <2>1, MappedPhase
      <3>2. QED
        BY <1>2, <3>1 DEF T!ArmedWhileRunning, B!InTable
    <2>3. ~(Prompt \/ Signal \/ Over \/ UNCHANGED vars)
      BY <1>2 DEF Prompt, Continue, StepIn, StepInstruction, StepOver, StepOut, Break, Begin,
         Throw, Signal, Over, vars, cpu_vars
    <2>4. ~Inside
      BY <1>2 DEF Inside, Plant, Resume, StepLoop, StepInstructionDone, Die, Waited,
         WaitStepOver, WaitSingle, WaitContinue, WaitGone, Cleanup
    <2>5. Execute
      BY <1>2, <2>3, <2>4 DEF Next
    <2>6. QED
      BY <2>2, <2>5 DEF Execute
  <1>3. Controlled /\ T!ArmedWhileRunning /\ [Next]_vars =>
          [mode = "running" /\ B!InTable(pc) /\ cpu_vars' # cpu_vars => siginfo' = "brk"]_vars
    BY <1>2
  <1>4. QED
    BY <1>1, <1>3, ControlledAlways, PTL DEF Spec, NoBreakpointMissed
-------------------------------------------------------------------------------
(* Where finish and next stop, of a program without recursion whose rows,   *)
(* return addresses and user breakpoints are a word apart: first the        *)
(* program's calls, whoever watches.                                        *)

(* The debuggee's next step, with what it is about to do.                   *)
LEMMA StepFacts ==
    ASSUME NEW level, CallsNestBy(level), Undebugged!Located, Undebugged!Step
    PROVE  /\ RealPc # Exited /\ RealPc \in DOMAIN Instr /\ Len(stack) \in Nat
           /\ \A i \in DOMAIN stack : stack[i].ret \in DOMAIN Instr
           /\ \/ /\ RealPc' \in DOMAIN Instr
                 /\ level[RealPc'] = level[RealPc]
                 /\ Len(stack') = Len(stack)
                 /\ \A i \in DOMAIN stack : stack'[i].ret = stack[i].ret
              \/ /\ RealPc' \in DOMAIN Instr
                 /\ level[RealPc'] > level[RealPc]
                 /\ Len(stack') = Len(stack) + 1
                 /\ \A i \in DOMAIN stack : stack'[i] = stack[i]
                 /\ level[stack'[Len(stack) + 1].ret] = level[RealPc]
              \/ /\ stack # <<>>
                 /\ RealPc' = stack[Len(stack)].ret
                 /\ Len(stack') = Len(stack) - 1
                 /\ \A i \in 1 .. Len(stack) - 1 : stack'[i] = stack[i]
              \/ RealPc' = Exited
  <1> DEFINE here == Instr[RealPc]
             last == Len(stack)
  <1>1. /\ RealPc \in DOMAIN Instr \union {Exited}
        /\ stack \in Seq(Undebugged!Frame)
        /\ stack = <<>> => RealPc \in Undebugged!StartUp \union {Exited}
    BY DEF Undebugged!Located
  <1>2. /\ RealPc # Exited
        /\ RealPc \in DOMAIN Instr
        /\ stack = <<>> => RealPc \in Undebugged!StartUp
    BY <1>1 DEF Undebugged!Step, Undebugged!Plain, Undebugged!Branch, Undebugged!Enter,
       Undebugged!Leave, Undebugged!Call, Undebugged!CallAtBound, Undebugged!Ret,
       Undebugged!Exit, Undebugged!At
  <1>3. /\ here.op \notin {"ret", "exit"} => here.next \in DOMAIN Instr
        /\ here.op \in {"branch", "call"} => here.target \in DOMAIN Instr
        /\ here.op \in {"enter", "leave", "ret"} => stack # <<>>
        /\ Undebugged!ReturnAddresses \subseteq DOMAIN Instr
    BY <1>2, ProgramAssumption, StartUpFacts
       DEF Cpu!WellFormed, Undebugged!ReturnAddresses
  <1>4. /\ here.op \notin {"ret", "exit"} => level[here.next] = level[RealPc]
        /\ here.op = "branch" => level[here.target] = level[RealPc]
        /\ here.op = "call" => level[RealPc] < level[here.target]
        /\ level \in [DOMAIN Instr -> Nat]
    BY <1>2 DEF CallsNestBy, Undebugged!LevelsRise
  <1>5. last \in Nat /\ DOMAIN stack = 1 .. last
    BY <1>1
  <1>6. \A i \in DOMAIN stack : stack[i] \in Undebugged!Frame /\ stack[i].ret \in DOMAIN Instr
    <2>1. \A i \in DOMAIN stack : stack[i] \in Undebugged!Frame
      BY <1>1
    <2>2. \A i \in DOMAIN stack : stack[i].ret \in Undebugged!ReturnAddresses
      BY <2>1 DEF Undebugged!Frame
    <2>3. QED
      BY <1>3, <2>1, <2>2
  <1> DEFINE Stays == /\ RealPc' \in DOMAIN Instr
                      /\ level[RealPc'] = level[RealPc]
                      /\ Len(stack') = last
                      /\ \A i \in DOMAIN stack : stack'[i].ret = stack[i].ret
             Enters == /\ RealPc' \in DOMAIN Instr
                       /\ level[RealPc'] > level[RealPc]
                       /\ Len(stack') = last + 1
                       /\ \A i \in DOMAIN stack : stack'[i] = stack[i]
                       /\ level[stack'[last + 1].ret] = level[RealPc]
             Leaves == /\ stack # <<>>
                       /\ RealPc' = stack[last].ret
                       /\ Len(stack') = last - 1
                       /\ \A i \in 1 .. last - 1 : stack'[i] = stack[i]
  <1>7. CASE Undebugged!Plain \/ Undebugged!Branch \/ Undebugged!CallAtBound
    <2>1. /\ stack' = stack
          /\ here.op \in {"plain", "branch", "call"}
          /\ RealPc' = here.next \/ (here.op = "branch" /\ RealPc' = here.target)
      BY <1>7 DEF Undebugged!Plain, Undebugged!Branch,
         Undebugged!CallAtBound, Undebugged!At, Undebugged!Goto
    <2>2. RealPc' \in DOMAIN Instr /\ level[RealPc'] = level[RealPc]
      <3> HIDE DEF here
      <3>1. QED
        BY <1>3, <1>4, <2>1
    <2>3. QED
      BY <1>2, <1>5, <1>6, <2>1, <2>2
  <1>8. ASSUME NEW b \in BOOLEAN, Undebugged!SetEntered(b), here.op \in {"enter", "leave"}
        PROVE  Stays
    <2>1. /\ last \in DOMAIN stack
          /\ stack' = [stack EXCEPT ![last].entered = b]
          /\ RealPc' = here.next
      BY <1>1, <1>3, <1>8 DEF Undebugged!SetEntered
    <2>2. [stack[last] EXCEPT !.entered = b].ret = stack[last].ret
      BY <1>6, <2>1 DEF Undebugged!Frame
    <2>3. Len(stack') = last /\ \A i \in DOMAIN stack : stack'[i].ret = stack[i].ret
      BY <1>1, <2>1, <2>2
    <2>4. QED
      BY <1>3, <1>4, <1>8, <2>1, <2>3
  <1>9. CASE Undebugged!Enter \/ Undebugged!Leave
    <2>1. Stays
      BY <1>8, <1>9 DEF Undebugged!Enter, Undebugged!Leave, Undebugged!At
    <2>2. QED
      BY <1>2, <1>5, <1>6, <2>1
  <1>10. CASE Undebugged!Call
    <2> DEFINE frame == [ret |-> here.next, entered |-> FALSE]
    <2>1. stack' = Append(stack, frame) /\ RealPc' = here.target /\ here.op = "call"
      BY <1>10 DEF Undebugged!Call, Undebugged!At
    <2>2. frame.ret = here.next
      OBVIOUS
    <2> HIDE DEF frame
    <2>3. /\ Len(stack') = last + 1 /\ stack'[last + 1] = frame
          /\ \A i \in DOMAIN stack : stack'[i] = stack[i]
      BY <1>1, <2>1
    <2>4. level[RealPc'] > level[RealPc]
      BY <1>2, <1>3, <1>4, <2>1
    <2>5. Enters
      BY <1>3, <1>4, <2>1, <2>2, <2>3, <2>4
    <2>6. QED
      BY <1>2, <1>5, <1>6, <2>5
  <1>11. CASE Undebugged!Ret
    <2>1. /\ stack # <<>>
          /\ stack' = SubSeq(stack, 1, last - 1)
          /\ RealPc' = stack[last].ret
      BY <1>3, <1>11 DEF Undebugged!Ret, Undebugged!At
    <2>2. last - 1 \in Nat /\ \A i \in 1 .. last - 1 : stack[i] \in Undebugged!Frame
      BY <1>1, <2>1
    <2>3. Len(stack') = last - 1 /\ \A i \in 1 .. last - 1 : stack'[i] = stack[i]
      <3> HIDE DEF last
      <3>1. QED
        BY <2>1, <2>2, SubSeqProperties
    <2>4. Leaves
      BY <2>1, <2>3
    <2>5. QED
      BY <1>2, <1>5, <1>6, <2>4
  <1>12. CASE Undebugged!Exit
    BY <1>2, <1>5, <1>6, <1>12 DEF Undebugged!Exit, Undebugged!Goto
  <1>13. QED
    BY <1>7, <1>9, <1>10, <1>11, <1>12 DEF Undebugged!Step

LEMMA CallsRiseStep ==
    ASSUME NEW level, CallsNestBy(level), Undebugged!Located, Undebugged!CallsRise(level),
           Undebugged!Step
    PROVE  Undebugged!CallsRise(level)'
  <1>1. SUFFICES ASSUME RealPc' # Exited
                 PROVE  \A i \in DOMAIN stack' :
                           /\ level[stack'[i].ret] < level[RealPc']
                           /\ \A j \in i + 1 .. Len(stack') :
                                 level[stack'[i].ret] < level[stack'[j].ret]
    BY DEF Undebugged!CallsRise
  <1>2. /\ RealPc # Exited /\ RealPc \in DOMAIN Instr /\ Len(stack) \in Nat
        /\ \A i \in DOMAIN stack : stack[i].ret \in DOMAIN Instr
    BY StepFacts
  <1>3. \A i \in DOMAIN stack :
           /\ level[stack[i].ret] < level[RealPc]
           /\ \A j \in i + 1 .. Len(stack) : level[stack[i].ret] < level[stack[j].ret]
    BY <1>2 DEF Undebugged!CallsRise
  <1>4. level \in [DOMAIN Instr -> Nat]
    BY DEF CallsNestBy
  <1>5. \A i \in DOMAIN stack : level[stack[i].ret] \in Nat
    BY <1>2, <1>4
  <1>6. Undebugged!Located'
    BY LocatedStep
  <1>7. DOMAIN stack = 1 .. Len(stack) /\ DOMAIN stack' = 1 .. Len(stack')
    BY <1>6 DEF Undebugged!Located
  <1>8. CASE /\ RealPc' \in DOMAIN Instr
             /\ level[RealPc'] = level[RealPc]
             /\ Len(stack') = Len(stack)
             /\ \A i \in DOMAIN stack : stack'[i].ret = stack[i].ret
    BY <1>2, <1>3, <1>7, <1>8
  <1>9. CASE /\ RealPc' \in DOMAIN Instr
             /\ level[RealPc'] > level[RealPc]
             /\ Len(stack') = Len(stack) + 1
             /\ \A i \in DOMAIN stack : stack'[i] = stack[i]
             /\ level[stack'[Len(stack) + 1].ret] = level[RealPc]
    <2>1. level[RealPc] \in Nat /\ level[RealPc'] \in Nat
      BY <1>2, <1>4, <1>9
    <2>2. SUFFICES ASSUME NEW i \in 1 .. Len(stack) + 1
                   PROVE  /\ level[stack'[i].ret] < level[RealPc']
                          /\ \A j \in i + 1 .. Len(stack) + 1 :
                                level[stack'[i].ret] < level[stack'[j].ret]
      BY <1>7, <1>9
    <2>3. CASE i = Len(stack) + 1
      BY <1>2, <1>9, <2>1, <2>3
    <2>4. CASE i \in 1 .. Len(stack)
      <3>1. /\ stack'[i] = stack[i] /\ level[stack[i].ret] < level[RealPc]
            /\ level[stack[i].ret] \in Nat
        BY <1>3, <1>5, <1>7, <1>9, <2>4
      <3>2. level[stack'[i].ret] < level[RealPc']
        BY <1>9, <2>1, <3>1
      <3>3. ASSUME NEW j \in i + 1 .. Len(stack) + 1
            PROVE  level[stack'[i].ret] < level[stack'[j].ret]
        <4>1. CASE j = Len(stack) + 1
          BY <1>9, <3>1, <4>1
        <4>2. CASE j \in i + 1 .. Len(stack)
          <5>1. stack'[j] = stack[j]
            BY <1>2, <1>7, <1>9, <2>4, <4>2
          <5>2. level[stack[i].ret] < level[stack[j].ret]
            BY <1>3, <1>7, <2>4, <4>2
          <5>3. QED
            BY <3>1, <5>1, <5>2
        <4>3. QED
          BY <1>2, <2>4, <4>1, <4>2
      <3>4. QED
        BY <3>2, <3>3
    <2>5. QED
      BY <1>2, <2>3, <2>4
  <1>10. CASE /\ stack # <<>>
              /\ RealPc' = stack[Len(stack)].ret
              /\ Len(stack') = Len(stack) - 1
              /\ \A i \in 1 .. Len(stack) - 1 : stack'[i] = stack[i]
    <2>1. SUFFICES ASSUME NEW i \in 1 .. Len(stack) - 1
                   PROVE  /\ level[stack[i].ret] < level[stack[Len(stack)].ret]
                          /\ \A j \in i + 1 .. Len(stack) - 1 :
                                /\ j \in 1 .. Len(stack) - 1
                                /\ level[stack[i].ret] < level[stack[j].ret]
      BY <1>7, <1>10
    <2>2. \A j \in i + 1 .. Len(stack) : level[stack[i].ret] < level[stack[j].ret]
      BY <1>2, <1>3, <1>7, <2>1
    <2>3. Len(stack) \in i + 1 .. Len(stack)
      BY <1>2, <2>1
    <2>4. QED
      BY <1>2, <2>1, <2>2, <2>3
  <1>11. QED
    BY <1>1, <1>8, <1>9, <1>10, StepFacts

-------------------------------------------------------------------------------
(* The frame a command was given in.                                        *)
LEMMA FrameFacts ==
    ASSUME NEW level, CallsNestBy(level), Undebugged!Located, Undebugged!CallsRise(level),
           RealPc # Exited, began.depth \in Nat, Len(stack) >= began.depth
    PROVE  /\ FrameLevel(level) \in Nat
           /\ level[RealPc] \in Nat
           /\ FrameLevel(level) <= level[RealPc]
           /\ Len(stack) > began.depth => FrameLevel(level) < level[RealPc]
  <1>1. /\ RealPc \in DOMAIN Instr /\ stack \in Seq(Undebugged!Frame)
        /\ level \in [DOMAIN Instr -> Nat]
    BY DEF Undebugged!Located, CallsNestBy
  <1>2. level[RealPc] \in Nat /\ Len(stack) \in Nat
    BY <1>1
  <1>3. CASE Len(stack) > began.depth
    <2>1. began.depth + 1 \in DOMAIN stack /\ Len(stack) # began.depth
      BY <1>1, <1>2, <1>3
    <2>2. stack[began.depth + 1].ret \in DOMAIN Instr
      <3>1. stack[began.depth + 1].ret \in Undebugged!ReturnAddresses
        <4>1. stack[began.depth + 1] \in Undebugged!Frame
          BY <1>1, <2>1
        <4>2. QED
          BY <4>1 DEF Undebugged!Frame
      <3>2. QED
        BY <3>1, ProgramAssumption DEF Undebugged!ReturnAddresses, Cpu!WellFormed
    <2>3. level[stack[began.depth + 1].ret] < level[RealPc]
      BY <2>1 DEF Undebugged!CallsRise
    <2>4. level[stack[began.depth + 1].ret] \in Nat
      BY <1>1, <2>2
    <2>5. QED
      BY <1>2, <2>1, <2>3, <2>4 DEF FrameLevel
  <1>4. QED
    BY <1>2, <1>3 DEF FrameLevel

LEMMA FrameStep ==
    ASSUME NEW level, CallsNestBy(level), Undebugged!Located, Undebugged!Step,
           began.depth \in Nat \ {0}, Len(stack) >= began.depth, UNCHANGED began,
           RealPc' # Exited
    PROVE  \/ /\ Len(stack') >= began.depth
              /\ FrameLevel(level)' = FrameLevel(level)
              /\ stack'[began.depth].ret = stack[began.depth].ret
           \/ /\ Len(stack') = began.depth - 1
              /\ RealPc' = stack[began.depth].ret
  <1> DEFINE d == began.depth
             Goal == \/ /\ Len(stack') >= d
                        /\ (IF Len(stack') = d THEN level[RealPc'] ELSE level[stack'[d + 1].ret])
                             = (IF Len(stack) = d THEN level[RealPc] ELSE level[stack[d + 1].ret])
                        /\ stack'[d].ret = stack[d].ret
                     \/ /\ Len(stack') = d - 1
                        /\ RealPc' = stack[d].ret
  <1>1. SUFFICES Goal
    BY DEF FrameLevel
  <1>2. /\ Len(stack) \in Nat /\ d \in Nat \ {0} /\ Len(stack) >= d
        /\ DOMAIN stack = 1 .. Len(stack)
    BY StepFacts DEF Undebugged!Located
  <1>3. d \in DOMAIN stack /\ (Len(stack) # d => d + 1 \in DOMAIN stack)
    BY <1>2
  <1> HIDE DEF d
  <1>4. CASE /\ RealPc' \in DOMAIN Instr
             /\ level[RealPc'] = level[RealPc]
             /\ Len(stack') = Len(stack)
             /\ \A i \in DOMAIN stack : stack'[i].ret = stack[i].ret
    BY <1>2, <1>3, <1>4
  <1>5. CASE /\ RealPc' \in DOMAIN Instr
             /\ level[RealPc'] > level[RealPc]
             /\ Len(stack') = Len(stack) + 1
             /\ \A i \in DOMAIN stack : stack'[i] = stack[i]
             /\ level[stack'[Len(stack) + 1].ret] = level[RealPc]
    <2>1. stack'[d] = stack[d] /\ (Len(stack) # d => stack'[d + 1] = stack[d + 1])
      BY <1>3, <1>5
    <2>2. CASE Len(stack) = d
      BY <1>2, <1>5, <2>1, <2>2
    <2>3. CASE Len(stack) # d
      <3>1. Len(stack') >= d /\ Len(stack') # d
        BY <1>2, <1>5, <2>3
      <3>2. QED
        BY <2>1, <2>3, <3>1
    <2>4. QED
      BY <2>2, <2>3
  <1>6. CASE /\ stack # <<>>
             /\ RealPc' = stack[Len(stack)].ret
             /\ Len(stack') = Len(stack) - 1
             /\ \A i \in 1 .. Len(stack) - 1 : stack'[i] = stack[i]
    <2>1. CASE Len(stack) = d
      BY <1>6, <2>1
    <2>2. CASE Len(stack) = d + 1
      <3>1. stack'[d] = stack[d] /\ Len(stack') = d
        BY <1>2, <1>6, <2>2
      <3>2. QED
        BY <1>2, <1>6, <2>2, <3>1
    <2>3. CASE Len(stack) > d + 1
      <3>1. stack'[d] = stack[d] /\ stack'[d + 1] = stack[d + 1]
        BY <1>2, <1>6, <2>3
      <3>2. QED
        <4>1. Len(stack') >= d /\ Len(stack') # d /\ Len(stack) # d
          <5>1. Len(stack') = Len(stack) - 1 /\ Len(stack) \in Nat /\ d \in Nat
            BY <1>2, <1>6
          <5>2. QED
            BY <5>1, <2>3
        <4> DEFINE n == Len(stack)
                   m == Len(stack')
        <4>2. /\ (IF m = d THEN level[RealPc'] ELSE level[stack'[d + 1].ret])
                    = level[stack'[d + 1].ret]
              /\ (IF n = d THEN level[RealPc] ELSE level[stack[d + 1].ret])
                    = level[stack[d + 1].ret]
          BY <4>1
        <4>3. QED
          BY <3>1, <4>1, <4>2
    <2>4. Len(stack) = d \/ Len(stack) = d + 1 \/ Len(stack) > d + 1
      <3>1. SUFFICES ASSUME NEW n \in Nat, NEW k \in Nat, n >= k
                     PROVE  n = k \/ n = k + 1 \/ n > k + 1
        BY <1>2
      <3>2. QED
        BY <3>1
    <2>5. QED
      BY <2>1, <2>2, <2>3, <2>4, Zenon
  <1>7. QED
    BY <1>4, <1>5, <1>6, StepFacts

LEMMA SameFrame ==
    ASSUME NEW level, RealPc' = RealPc, UNCHANGED <<stack, began, cmd>>
    PROVE  /\ FrameLevel(level)' = FrameLevel(level)
           /\ \A a : NotAbove(level, a)' <=> NotAbove(level, a)
  BY DEF FrameLevel, NotAbove

(* What the table's operations do to the set of its addresses.              *)
LEMMA DomainFacts ==
    /\ \A a : B!SetBreakpointAtAddress(a) => DOMAIN m_breakpoints' = DOMAIN m_breakpoints \union {a}
    /\ \A a : B!RemoveBreakpoint(a) => DOMAIN m_breakpoints' = DOMAIN m_breakpoints \ {a}
    /\ \A a : B!StepOverDisable(a) => DOMAIN m_breakpoints' = DOMAIN m_breakpoints
    /\ \A a : B!StepOverEnable(a) => DOMAIN m_breakpoints' = DOMAIN m_breakpoints
  BY DEF B!SetBreakpointAtAddress, B!RemoveBreakpoint, B!StepOverDisable, B!StepOverEnable,
     B!With, B!Without, B!InTable

(* Where the debuggee stops: where the user has a breakpoint, or where the  *)
(* command wanted it.                                                       *)
LEMMA StopFacts ==
    ASSUME NEW level, CallsNestBy(level), Undebugged!Located, Undebugged!CallsRise(level),
           RealPc # Exited, began.depth \in Nat, cmd \in {"next", "finish"},
           stack \in Seq(Cpu!Frame), B!InTable(RealPc), FrameIsOpen(level) \/ FrameIsLeft
    PROVE  FrameIsDone \/ (B!InTable(RealPc) /\ RealPc \notin Temporary!Temporaries)
  <1>1. Len(stack) \in Nat
    OBVIOUS
  <1>2. CASE FrameIsLeft
    BY <1>1, <1>2 DEF FrameIsLeft, FrameIsDone
  <1>3. CASE FrameIsOpen(level) /\ RealPc \in Temporary!Temporaries
    <2>1. /\ FrameLevel(level) \in Nat
          /\ level[RealPc] \in Nat
          /\ FrameLevel(level) <= level[RealPc]
          /\ Len(stack) > began.depth => FrameLevel(level) < level[RealPc]
      BY <1>3, FrameFacts DEF FrameIsOpen
    <2>2. NotAbove(level, RealPc) /\ RealPc \in DOMAIN Instr
      BY <1>3 DEF FrameIsOpen, Undebugged!Located
    <2>3. QED
      BY <1>1, <2>1, <2>2 DEF NotAbove, FrameIsDone
  <1>4. QED
    BY <1>2, <1>3

(* The rows next plants lie in the function it was given in.                *)
LEMMA RowsInFunction ==
    ASSUME RowsAscend, FunctionsBeginRows, NEW a, HasFunction(a), HasLine(FunctionAt(a).low)
    PROVE  \A i \in DOMAIN RowsToPlant(a) : InFunction(RowsToPlant(a)[i], FunctionAt(a))
  <1> DEFINE func  == FunctionAt(a)
             first == FindAddress(Table, func.low)
             ends  == {i \in first .. Len(Table) + 1 :
                         i = Len(Table) + 1 \/ Table[i].address >= func.high}
             past  == Min(ends)
  <1>1. func \in Functions /\ func.low \in Int /\ func.high \in Int
    BY DebuggerAssumption DEF HasFunction, FunctionAt
  <1>2. Table \in Seq(Row) /\ Len(Table) \in Nat /\ Load \in Int
    BY DebuggerAssumption
  <1>3. first \in 1 .. Len(Table) - 2
    <2>1. FindAddress(Table, func.low) # NoRow
      BY DEF HasLine
    <2>2. QED
      BY <2>1, FindAddressFacts
  <1>4. RowsToPlant(a) =
           [i \in 1 .. past - first |-> OffsetDwarfAddress(Table[first + i - 1].address)]
    BY DEF RowsToPlant
  <1>5. func.low <= Table[first].address
    BY <1>1 DEF FunctionsBeginRows
  <1>6. PICK e \in first .. Len(Table) :
           func.high <= Table[e].address /\ InOneSequence(first, e)
    BY <1>1 DEF RowsAscend
  <1> HIDE DEF func, first
  <1>7. ends \in SUBSET Nat /\ Len(Table) + 1 \in ends
    BY <1>2, <1>3
  <1>8. past \in ends /\ \A i \in ends : past <= i
    BY <1>7, MinFacts
  <1>9. past \in first .. Len(Table) + 1
    <2> HIDE DEF past
    <2>1. QED
      BY <1>8
  <1> HIDE DEF past
  <1>10. \A i \in DOMAIN Table : Table[i] \in Row /\ Table[i].address \in Int
    <2>1. \A i \in DOMAIN Table : Table[i] \in Row
      BY <1>2
    <2>2. QED
      BY <2>1 DEF Row
  <1>11. e \in DOMAIN Table /\ e \in ends
    <2>1. e \in 1 .. Len(Table)
      BY <1>2, <1>3
    <2>2. Table[e].address >= func.high
      BY <1>1, <1>2, <1>6, <1>10, <2>1
    <2>3. QED
      BY <1>2, <1>3, <2>1, <2>2
  <1>12. ASSUME NEW n \in first .. past - 1
         PROVE  /\ func.low <= Table[n].address /\ Table[n].address < func.high
                /\ Table[n].address \in Int
    <2>1. past <= e
      BY <1>8, <1>11
    <2>2. n \in 1 .. Len(Table) /\ n \in DOMAIN Table /\ first \in DOMAIN Table /\ n < e
      BY <1>2, <1>3, <1>9, <1>11, <2>1
    <2>3. n \notin ends
      BY <1>3, <1>8, <1>9, <2>2
    <2>4. Table[n].address < func.high
      <3>1. ~(Table[n].address >= func.high)
        BY <1>2, <1>3, <1>9, <2>2, <2>3
      <3>2. QED
        BY <1>1, <1>10, <2>2, <3>1
    <2>5. InOneSequence(first, n)
      BY <1>2, <1>3, <1>6, <2>2 DEF InOneSequence
    <2>6. Table[first].address <= Table[n].address
      BY <1>2, <1>3, <2>2, <2>5 DEF RowsAscend
    <2>7. QED
      BY <1>1, <1>5, <1>10, <2>2, <2>4, <2>6
  <1>13. ASSUME NEW i \in 1 .. past - first
         PROVE  InFunction(OffsetDwarfAddress(Table[first + i - 1].address), func)
    <2>1. first + i - 1 \in first .. past - 1
      BY <1>3, <1>9
    <2>2. PICK n \in first .. past - 1 : n = first + i - 1
      BY <2>1
    <2>3. QED
      BY <1>1, <1>2, <1>12, <2>2 DEF InFunction, OffsetDwarfAddress, OffsetLoadAddress
  <1>14. QED
    BY <1>4, <1>13 DEF func

(* finish and next, at the prompt.                                          *)
LEMMA BeginFrame ==
    ASSUME NEW level, CallsNestBy(level), RowsAscend, FunctionsBeginRows,
           Controlled, TodoIsRight, Undebugged!CallsRise(level),
           StepOut \/ StepOver, Followed'
    PROVE  FrameIsKept(level)'
  <1> DEFINE depth == Len(stack)
             a == OffsetLoadAddress(pc)
             Low(r) == r \in DOMAIN Instr => /\ level[r] <= level[RealPc]
                                             /\ cmd' = "finish" => level[r] < level[RealPc]
  <1>1. /\ phase = "prompt" /\ siginfo = "none" /\ mode # "stepping" /\ to_delete = <<>>
        /\ stack \in Seq(Cpu!Frame) /\ pc \in Int /\ Undebugged!Located
    BY DEF StepOut, StepOver, Begin, Throw, Controlled, TypeOK, ControlIsRight, TodoIsRight
  <1>2. /\ cmd' \in {"next", "finish"} /\ phase' = "plant" /\ UNCHANGED <<stack, mode, to_delete>>
        /\ RealPc' = RealPc /\ RealPc = pc
        /\ began' = [depth |-> depth, framed |-> stack # <<>> /\ stack[depth].entered]
        /\ \/ todo' = <<ReturnAddress>>
           \/ /\ HasFunction(a) /\ HasLine(FunctionAt(a).low)
              /\ todo' = Append(RowsToPlant(a), ReturnAddress) /\ cmd' = "next"
    BY <1>1 DEF StepOut, StepOver, Begin, Throw, Followed, RealPc, cpu_vars
  <1>3. began'.depth = depth /\ began'.framed /\ stack # <<>> /\ stack[depth].entered
    BY <1>2 DEF Followed
  <1>4. depth \in Nat \ {0} /\ DOMAIN stack = 1 .. depth
    BY <1>1, <1>3
  <1>5. ReturnAddress = stack[depth].ret
    <2>1. /\ Framed \in SUBSET (1 .. depth) /\ Framed \in SUBSET (0 .. depth)
          /\ depth \in Framed
      BY <1>3, <1>4 DEF Framed
    <2>2. Max(Framed) \in Framed /\ depth <= Max(Framed)
      BY <1>4, <2>1, MaxFacts
    <2>3. Max(Framed) = depth
      <3>1. Max(Framed) \in 1 .. depth /\ depth \in Nat
        BY <1>4, <2>1, <2>2
      <3> HIDE DEF depth
      <3>2. QED
        BY <2>2, <3>1
    <2>4. QED
      BY <2>1, <2>3 DEF ReturnAddress
  <1>6. RealPc # Exited /\ RealPc \in DOMAIN Instr
    BY <1>1, <1>2 DEF Followed, Undebugged!Located
  <1>7. level \in [DOMAIN Instr -> Nat] /\ level[RealPc] \in Nat
    BY <1>6 DEF CallsNestBy
  <1>8. FrameLevel(level)' = level[RealPc]
    BY <1>2, <1>3 DEF FrameLevel
  <1>9. Low(ReturnAddress)
    <2>1. level[stack[depth].ret] < level[RealPc]
      BY <1>4, <1>6 DEF Undebugged!CallsRise
    <2>2. level[stack[depth].ret] \in Int /\ level[stack[depth].ret] <= level[RealPc]
      <3>1. stack[depth] \in Cpu!Frame
        BY <1>1, <1>4
      <3>2. stack[depth].ret \in DOMAIN Instr
        BY <3>1, ProgramAssumption DEF Cpu!Frame, Cpu!ReturnAddresses, Cpu!WellFormed
      <3>3. level[stack[depth].ret] \in Nat
        BY <1>7, <3>2
      <3>4. QED
        BY <1>7, <2>1, <3>3
    <2>3. QED
      BY <1>5, <2>1, <2>2
  <1>10. todo'[Len(todo')] = ReturnAddress /\ \A i \in DOMAIN todo' : Low(todo'[i])
    <2>1. CASE todo' = <<ReturnAddress>>
      BY <1>9, <2>1
    <2>2. CASE /\ HasFunction(a) /\ HasLine(FunctionAt(a).low)
               /\ todo' = Append(RowsToPlant(a), ReturnAddress) /\ cmd' = "next"
      <3>1. RowsToPlant(a) \in Seq(Rows)
        BY <2>2, RowsToPlantFacts
      <3>2. \A i \in DOMAIN RowsToPlant(a) : InFunction(RowsToPlant(a)[i], FunctionAt(a))
        BY <2>2, RowsInFunction
      <3>3. FunctionAt(a) \in Functions /\ InFunction(RealPc, FunctionAt(a))
        BY <1>2, <2>2 DEF HasFunction, FunctionAt, InFunction
      <3>4. ASSUME NEW r \in Rows, InFunction(r, FunctionAt(a))
            PROVE  Low(r)
        <4>1. r \in DOMAIN Instr => level[r] = level[RealPc]
          BY <1>6, <3>3, <3>4 DEF CallsNestBy
        <4>2. QED
          BY <1>7, <2>2, <4>1
      <3>5. \A i \in DOMAIN RowsToPlant(a) : RowsToPlant(a)[i] \in Rows
        BY <3>1
      <3>6. \A i \in DOMAIN RowsToPlant(a) : Low(RowsToPlant(a)[i])
        BY <3>2, <3>4, <3>5
      <3>7. /\ Len(todo') = Len(RowsToPlant(a)) + 1
            /\ todo'[Len(todo')] = ReturnAddress
            /\ \A i \in DOMAIN todo' : i = Len(todo') \/
                  (i \in DOMAIN RowsToPlant(a) /\ todo'[i] = RowsToPlant(a)[i])
        BY <2>2, <3>1
      <3>8. QED
        BY <1>9, <3>6, <3>7
    <2>3. QED
      BY <1>2, <2>1, <2>2
  <1>11. Temporary!Temporaries' = {}
    BY <1>1, <1>2 DEF Temporary!Temporaries
  <1>12. Len(stack') = began'.depth /\ todo'[Len(todo')] = stack'[began'.depth].ret
    BY <1>2, <1>3, <1>5, <1>10
  <1>13. QED
    BY <1>1, <1>2, <1>8, <1>10, <1>11, <1>12 DEF FrameIsKept, NotAbove

LEMMA StopsAreTrapsStep == Controlled /\ StopsAreTraps /\ [Next]_vars => StopsAreTraps'
  <1>1. SUFFICES ASSUME Controlled, StopsAreTraps, [Next]_vars
                 PROVE  StopsAreTraps'
    OBVIOUS
  <1>2. /\ ControlIsRight /\ signals \in Nat /\ began \in [depth : Nat, framed : BOOLEAN]
        /\ stack \in Seq(Cpu!Frame)
    BY <1>1, DebuggerAssumption DEF Controlled, TypeOK, Rollback
  <1>3. CASE UNCHANGED vars \/ Over
    BY <1>1, <1>3 DEF vars, Over, StopsAreTraps
  <1>4. CASE Continue \/ StepOut \/ StepInstruction \/ StepIn \/ StepOver
    <2>1. /\ siginfo = "none" /\ UNCHANGED <<siginfo, signals>>
          /\ phase' # "wait"
          /\ UNCHANGED began \/
             began' = [depth  |-> Len(stack),
                       framed |-> stack # <<>> /\ stack[Len(stack)].entered]
      BY <1>2, <1>4 DEF Continue, StepOut, StepInstruction, StepIn, StepOver, Begin, Throw,
         ControlIsRight, history
    <2>2. began'.framed => began'.depth > 0
      <3>1. stack # <<>> => Len(stack) > 0
        BY <1>2
      <3>2. CASE UNCHANGED began
        BY <1>1, <3>2 DEF StopsAreTraps
      <3>3. CASE began' = [depth  |-> Len(stack),
                           framed |-> stack # <<>> /\ stack[Len(stack)].entered]
        <4>1. began'.depth = Len(stack) /\ (began'.framed => stack # <<>>)
          BY <3>3
        <4>2. QED
          BY <3>1, <4>1
      <3>4. QED
        BY <2>1, <3>2, <3>3
    <2>3. QED
      BY <2>1, <2>2 DEF StopsAreTraps
  <1>5. ASSUME NEW a \in UserSites, Break(a) PROVE StopsAreTraps'
    BY <1>1, <1>5 DEF Break, StopsAreTraps, history
  <1>6. CASE Waited
    BY <1>1, <1>6 DEF Waited, StopsAreTraps, history
  <1>7. CASE Inside /\ ~Waited
    <2>1. UNCHANGED <<signals, siginfo, began>>
      BY <1>7 DEF Inside, Plant, Resume, StepLoop, StepInstructionDone, Die, WaitStepOver,
         WaitSingle, WaitContinue, WaitGone, Cleanup, history
    <2>2. phase' = "wait" => siginfo = "none"
      BY <1>2, <1>7 DEF Inside, Plant, Resume, StepLoop, StepInstructionDone, Die, WaitStepOver,
         WaitSingle, WaitContinue, WaitGone, Cleanup, ControlIsRight
    <2>3. QED
      BY <1>1, <2>1, <2>2 DEF StopsAreTraps
  <1>8. CASE Execute
    BY <1>1, <1>2, <1>8 DEF Execute, StopsAreTraps, ControlIsRight
  <1>9. CASE Signal
    BY <1>1, <1>2, <1>9 DEF Signal, StopsAreTraps, history
  <1>10. QED
    BY <1>1, <1>3, <1>4, <1>5, <1>6, <1>7, <1>8, <1>9 DEF Next, Prompt

LEMMA FrameIsKeptStep ==
    ASSUME NEW level, CallsNestBy(level), RowsAscend, FunctionsBeginRows,
           Controlled, TodoIsRight, T!ArmedWhileRunning, StopsAreExplained, StopsAreTraps,
           Undebugged!CallsRise(level), FrameIsKept(level), [Next]_vars
    PROVE  FrameIsKept(level)'
  <1> DEFINE depth == began.depth
             L == FrameLevel(level)
             Low(r) == r \in DOMAIN Instr => level[r] <= L /\ (cmd = "finish" => level[r] < L)
  <1>1. SUFFICES ASSUME Followed'
                 PROVE  FrameIsKept(level)'
    BY DEF FrameIsKept
  <1>2. /\ ControlIsRight /\ Undebugged!Located
        /\ pc \in Int /\ Rollback \in Nat /\ signals \in Nat
        /\ stack \in Seq(Cpu!Frame) /\ began \in [depth : Nat, framed : BOOLEAN]
        /\ todo \in Seq(Sites) /\ to_delete \in Seq(Sites)
    BY DebuggerAssumption DEF Controlled, TypeOK, Rollback
  <1>3. CASE StepOut \/ StepOver
    BY <1>1, <1>3, BeginFrame
  <1>4. CASE Continue \/ StepInstruction \/ StepIn
    BY <1>1, <1>4 DEF Continue, StepInstruction, StepIn, Begin, Throw, Followed
  <1>5. CASE Signal
    BY <1>1, <1>2, <1>5 DEF Signal, Followed
  <1>6. CASE StepLoop \/ StepInstructionDone \/ WaitSingle
    <2>1. phase \in {"loop", "single", "stepped"} /\ UNCHANGED cmd
      BY <1>6 DEF StepLoop, StepInstructionDone, WaitSingle, Waited
    <2>2. QED
      BY <1>1, <1>2, <2>1 DEF ControlIsRight, Followed
  <1>7. CASE WaitGone \/ \E p \in {"over", "single", "wait"} : Die(p)
    <2>1. phase' \in {"gone", "dead"} /\ mode' = "stopped"
      BY <1>7 DEF WaitGone, Die, Waited
    <2>2. QED
      BY <2>1 DEF FrameIsKept
  <1>8. ASSUME RealPc' = RealPc, UNCHANGED <<stack, began, cmd, signals>>
        PROVE  /\ Followed /\ L' = L
               /\ \A r : NotAbove(level, r) <=> Low(r)
               /\ \A r : NotAbove(level, r)' <=> Low(r)
    BY <1>1, <1>8 DEF Followed, FrameLevel, NotAbove
  <1>9. CASE UNCHANGED vars \/ Over
    <2>1. UNCHANGED vars
      BY <1>9 DEF Over
    <2>2. QED
      BY <2>1 DEF vars, FrameIsKept, Followed, FrameIsOpen, FrameIsLeft, FrameIsDone, NotAbove,
         FrameLevel, RealPc, B!InTable, Temporary!Temporaries
  <1>10. CASE \E a \in UserSites : Break(a)
    <2>1. PICK a \in UserSites : Break(a)
      BY <1>10
    <2>2. /\ RealPc' = RealPc /\ UNCHANGED <<stack, began, cmd, signals, mode>>
          /\ phase = "prompt" /\ phase' = "prompt"
          /\ DOMAIN m_breakpoints' = DOMAIN m_breakpoints \union {a}
      BY <2>1, DomainFacts DEF Break, RealPc, history, cpu_vars
    <2>3. Followed
      BY <1>8, <2>2
    <2>4. /\ mode # "stepping"
          /\ FrameIsDone \/ RealPc \in DOMAIN m_breakpoints
      BY <1>2, <2>2, <2>3 DEF FrameIsKept, ControlIsRight, B!InTable
    <2>5. QED
      BY <2>2, <2>4 DEF FrameIsKept, FrameIsDone, B!InTable
  <1>11. CASE Plant
    <2> DEFINE a == Head(todo)
               last == Len(todo)
    <2>1. /\ phase = "plant" /\ todo # <<>> /\ todo' = Tail(todo)
          /\ phase' = IF todo' = <<>> THEN "resume" ELSE "plant"
          /\ RealPc' = RealPc /\ UNCHANGED <<stack, began, cmd, signals, mode>>
      BY <1>2, <1>11 DEF Plant, ControlIsRight, RealPc, cpu_vars, history
    <2>2. \/ UNCHANGED <<m_breakpoints, to_delete>> /\ (Tail(todo) = <<>> => a \in DOMAIN m_breakpoints)
          \/ /\ DOMAIN m_breakpoints' = DOMAIN m_breakpoints \union {a}
             /\ to_delete' = Append(to_delete, a)
      BY <1>11, DomainFacts DEF Plant, table_vars, B!InTable
    <2>3. /\ Followed
          /\ \A r : NotAbove(level, r) <=> Low(r)
          /\ L' = L
      BY <1>8, <2>1
    <2>4. /\ Len(stack) = depth
          /\ todo[last] = stack[depth].ret
          /\ \A i \in DOMAIN todo : Low(todo[i])
          /\ \A t \in Temporary!Temporaries : Low(t)
          /\ mode # "stepping"
      BY <1>2, <2>1, <2>3 DEF FrameIsKept, ControlIsRight
    <2>5. /\ last \in Nat \ {0} /\ DOMAIN todo = 1 .. last /\ a = todo[1]
          /\ Len(todo') = last - 1 /\ DOMAIN todo' = 1 .. last - 1
          /\ \A i \in 1 .. last - 1 : todo'[i] = todo[i + 1]
          /\ todo' = <<>> <=> last = 1
      <3>1. last \in Nat \ {0} /\ DOMAIN todo = 1 .. last /\ a = todo[1]
        BY <1>2, <2>1
      <3>2. todo' \in Seq(Sites) /\ Len(todo') = last - 1
        BY <1>2, <2>1
      <3>3. \A i \in 1 .. last - 1 : todo'[i] = todo[i + 1]
        BY <1>2, <2>1
      <3>4. todo' = <<>> <=> Len(todo') = 0
        BY <3>2, EmptySeq
      <3>5. DOMAIN todo' = 1 .. last - 1
        BY <3>2
      <3>6. last - 1 = 0 <=> last = 1
        BY <3>1
      <3> HIDE DEF last, a
      <3>7. QED
        BY <3>1, <3>2, <3>3, <3>4, <3>5, <3>6
    <2>6. Low(a)
      <3>1. 1 \in DOMAIN todo
        BY <2>5
      <3>2. QED
        BY <2>4, <2>5, <3>1
    <2> HIDE DEF a, last, Low, depth
    <2>7. \A t \in Temporary!Temporaries' : Low(t)
      <3>1. \A t \in Temporary!Temporaries' : t \in Temporary!Temporaries \/ t = a
        <4>1. CASE UNCHANGED to_delete
          BY <4>1 DEF Temporary!Temporaries
        <4>2. CASE to_delete' = Append(to_delete, a)
          BY <1>2, <4>2 DEF Temporary!Temporaries
        <4>3. QED
          BY <2>2, <4>1, <4>2
      <3>2. QED
        BY <2>4, <2>6, <3>1
    <2>8. CASE last = 1
      <3>1. phase' = "resume" /\ stack[depth].ret \in DOMAIN m_breakpoints'
        BY <2>1, <2>2, <2>4, <2>5, <2>8
      <3>2. FrameIsOpen(level)'
        <4>1. /\ stack' = stack /\ began'.depth = depth /\ Len(stack') >= depth
              /\ stack'[depth].ret \in DOMAIN m_breakpoints'
          BY <1>2, <2>1, <2>4, <3>1 DEF depth
        <4>2. QED
          BY <2>1, <2>3, <2>7, <4>1 DEF FrameIsOpen, NotAbove, Low, B!InTable
      <3>3. QED
        BY <2>1, <2>4, <3>1, <3>2 DEF FrameIsKept, depth
    <2>9. CASE last # 1
      <3>1. /\ phase' = "plant" /\ last - 1 \in 1 .. last - 1
            /\ todo'[last - 1] = todo[last]
        BY <2>1, <2>5, <2>9
      <3>2. \A i \in DOMAIN todo' : Low(todo'[i])
        BY <2>4, <2>5
      <3>3. /\ Len(stack') = began'.depth /\ stack' = stack /\ began'.depth = depth
            /\ todo'[Len(todo')] = stack'[began'.depth].ret
        BY <2>1, <2>4, <2>5, <3>1 DEF depth
      <3>4. QED
        BY <2>1, <2>3, <2>4, <2>7, <3>1, <3>2, <3>3 DEF FrameIsKept, NotAbove, Low
    <2>10. QED
      BY <2>8, <2>9
  <1>12. ASSUME RealPc' = RealPc, UNCHANGED <<stack, began, cmd, signals, to_delete>>,
                DOMAIN m_breakpoints' = DOMAIN m_breakpoints
         PROVE  /\ FrameIsOpen(level) => FrameIsOpen(level)'
                /\ FrameIsLeft => FrameIsLeft'
    <2>1. /\ \A r : NotAbove(level, r) <=> Low(r)
          /\ L' = L
      BY <1>8, <1>12
    <2> HIDE DEF Low
    <2>2. FrameIsOpen(level) => FrameIsOpen(level)'
      BY <1>12, <2>1 DEF FrameIsOpen, Temporary!Temporaries, B!InTable, NotAbove, Low
    <2>3. QED
      BY <1>12, <2>2 DEF FrameIsLeft, B!InTable
  <1>13. CASE Resume
    <2>1. /\ phase = "resume" /\ phase' \in {"over", "wait"}
          /\ RealPc' = RealPc /\ UNCHANGED <<stack, began, cmd, signals, to_delete>>
          /\ DOMAIN m_breakpoints' = DOMAIN m_breakpoints
      BY <1>13, DomainFacts DEF Resume, StepOffBreakpoint, RealPc, cpu_vars, history, table_vars
    <2>2. Followed
      BY <1>8, <2>1
    <2>3. Len(stack) = depth /\ (FrameIsOpen(level) \/ FrameIsLeft)
      BY <2>1, <2>2 DEF FrameIsKept
    <2>4. FrameIsOpen(level)' \/ FrameIsLeft'
      BY <1>12, <2>1, <2>3
    <2>5. QED
      BY <2>1, <2>3, <2>4 DEF FrameIsKept
  <1>14. ASSUME Waited PROVE RealPc' = RealPc /\ UNCHANGED <<stack, began, cmd, signals>>
    BY <1>2, <1>14 DEF Waited, Handled, RealPc, history
  <1>15. CASE WaitStepOver
    <2>1. /\ phase = "over" /\ UNCHANGED to_delete
          /\ DOMAIN m_breakpoints' = DOMAIN m_breakpoints
          /\ RealPc' = RealPc /\ UNCHANGED <<stack, began, cmd, signals>>
      BY <1>14, <1>15, DomainFacts DEF WaitStepOver
    <2>2. Followed
      BY <1>8, <2>1
    <2>3. phase' = "wait" /\ mode' = "running"
      BY <1>15, <2>2 DEF WaitStepOver, Followed
    <2>4. FrameIsOpen(level) \/ FrameIsLeft
      BY <2>1, <2>2 DEF FrameIsKept
    <2>5. FrameIsOpen(level)' \/ FrameIsLeft'
      BY <1>12, <2>1, <2>4
    <2>6. QED
      BY <2>3, <2>5 DEF FrameIsKept
  <1>16. CASE WaitContinue
    <2>1. /\ phase = "wait" /\ phase' = "cleanup" /\ UNCHANGED <<to_delete, m_breakpoints, mode>>
          /\ RealPc' = RealPc /\ UNCHANGED <<stack, began, cmd, signals>>
          /\ mode = "stopped" /\ siginfo \notin {"none", "exit"}
      BY <1>14, <1>16 DEF WaitContinue, Waited, table_vars
    <2>2. Followed
      BY <1>8, <2>1
    <2>3. FrameIsOpen(level) \/ FrameIsLeft
      BY <2>1, <2>2 DEF FrameIsKept
    <2>4. B!InTable(RealPc)
      <3>1. siginfo = "brk"
        BY <2>1, <2>2 DEF StopsAreTraps, Followed, Controlled, TypeOK
      <3>2. QED
        BY <3>1 DEF StopsAreExplained
    <2>5. FrameIsDone \/ (B!InTable(RealPc) /\ RealPc \notin Temporary!Temporaries)
      BY <1>2, <2>2, <2>3, <2>4, StopFacts DEF Followed
    <2>6. QED
      BY <2>1, <2>5 DEF FrameIsKept, FrameIsDone, B!InTable, Temporary!Temporaries
  <1>17. CASE Cleanup
    <2>1. /\ phase = "cleanup" /\ phase' \in {"cleanup", "prompt"}
          /\ RealPc' = RealPc /\ UNCHANGED <<stack, began, cmd, signals, mode>>
          /\ \/ /\ to_delete # <<>> /\ to_delete' = Tail(to_delete)
                /\ DOMAIN m_breakpoints' = DOMAIN m_breakpoints \ {Head(to_delete)}
             \/ UNCHANGED <<to_delete, m_breakpoints>>
      BY <1>17, DomainFacts DEF Cleanup, RealPc, cpu_vars, history, table_vars
    <2>2. Followed
      BY <1>8, <2>1
    <2>3. /\ FrameIsDone \/ (B!InTable(RealPc) /\ RealPc \notin Temporary!Temporaries)
          /\ mode # "stepping"
      BY <1>2, <2>1, <2>2 DEF FrameIsKept, ControlIsRight
    <2>4. /\ Temporary!Temporaries' \subseteq Temporary!Temporaries
          /\ \A b \in DOMAIN m_breakpoints : b \notin Temporary!Temporaries => b \in DOMAIN m_breakpoints'
      <3>1. CASE UNCHANGED <<to_delete, m_breakpoints>>
        BY <3>1 DEF Temporary!Temporaries
      <3>2. CASE /\ to_delete # <<>> /\ to_delete' = Tail(to_delete)
                 /\ DOMAIN m_breakpoints' = DOMAIN m_breakpoints \ {Head(to_delete)}
        <4>1. /\ \A i \in DOMAIN to_delete' : i + 1 \in DOMAIN to_delete /\ to_delete'[i] = to_delete[i + 1]
              /\ 1 \in DOMAIN to_delete /\ Head(to_delete) = to_delete[1]
          BY <1>2, <3>2
        <4>2. QED
          BY <3>2, <4>1 DEF Temporary!Temporaries
      <3>3. QED
        BY <2>1, <3>1, <3>2
    <2>5. FrameIsDone' <=> FrameIsDone
      BY <2>1 DEF FrameIsDone
    <2>6. (B!InTable(RealPc) /\ RealPc \notin Temporary!Temporaries)
            => (RealPc' \in DOMAIN m_breakpoints' /\ RealPc' \notin Temporary!Temporaries')
      BY <2>1, <2>4 DEF B!InTable
    <2>7. QED
      BY <2>1, <2>3, <2>5, <2>6 DEF FrameIsKept, B!InTable
  <1>18. CASE Execute
    <2>1. /\ mode \in {"running", "stepping"} /\ siginfo = "none" /\ RealPc = pc
          /\ RealPc # Exited
          /\ UNCHANGED <<began, cmd, signals, phase, to_delete, m_breakpoints>>
          /\ mode = "running" => phase = "wait"
          /\ mode = "stepping" => phase \in {"over", "single"}
          /\ mode' = "stepping" => FALSE
      BY <1>2, <1>18 DEF Execute, ControlIsRight, RealPc, table_vars
    <2>2. Followed /\ phase \in {"over", "wait"}
      BY <1>1, <1>2, <2>1 DEF Followed, ControlIsRight
    <2>3. (FrameIsOpen(level) \/ FrameIsLeft) /\ (mode = "stepping" => Len(stack) = depth)
      BY <2>2 DEF FrameIsKept
    <2>4. SUFFICES FrameIsOpen(level)' \/ FrameIsLeft'
      BY <2>1, <2>2 DEF FrameIsKept
    <2>5. CASE RealPc' = RealPc /\ stack' = stack
      BY <1>12, <2>1, <2>3, <2>5
    <2>6. CASE ~(RealPc' = RealPc /\ stack' = stack)
      <3>1. mem[pc] # Trap
        BY <1>2, <1>18, <2>1, <2>6 DEF Execute, RealPc
      <3>2. Undebugged!Step
        BY <1>1, <2>6, DebuggeeStep DEF Controlled, Undebugged!program_vars, Lost, Followed
      <3>3. FrameIsOpen(level)
        <4>1. CASE mode = "stepping"
          BY <1>2, <2>3, <4>1 DEF FrameIsLeft
        <4>2. CASE mode = "running" /\ FrameIsLeft
          <5>1. TemporariesPhase = "run"
            BY <1>2, <2>1, <4>2, MappedPhase
          <5>2. QED
            BY <2>1, <3>1, <4>2, <5>1 DEF T!ArmedWhileRunning, FrameIsLeft, B!InTable
        <4>3. QED
          BY <2>1, <2>3, <4>1, <4>2
      <3>4. /\ depth \in Nat \ {0} /\ Len(stack) >= depth
            /\ stack[depth].ret \in DOMAIN m_breakpoints
            /\ \A t \in Temporary!Temporaries : Low(t)
        BY <1>2, <2>2, <3>3 DEF FrameIsOpen, StopsAreTraps, Followed, B!InTable, NotAbove
      <3>5. RealPc' # Exited
        BY <1>1 DEF Followed
      <3>6. \/ /\ Len(stack') >= depth /\ L' = L /\ stack'[depth].ret = stack[depth].ret
            \/ Len(stack') = depth - 1 /\ RealPc' = stack[depth].ret
        BY <1>2, <2>1, <3>2, <3>4, <3>5, FrameStep
      <3> HIDE DEF Low
      <3>7. CASE Len(stack') >= depth /\ L' = L /\ stack'[depth].ret = stack[depth].ret
        BY <2>1, <3>4, <3>7 DEF FrameIsOpen, NotAbove, Low, Temporary!Temporaries, B!InTable
      <3>8. CASE Len(stack') = depth - 1 /\ RealPc' = stack[depth].ret
        BY <2>1, <3>4, <3>8 DEF FrameIsLeft, B!InTable
      <3>9. QED
        BY <3>6, <3>7, <3>8
    <2>7. QED
      BY <2>5, <2>6
  <1>19. QED
    BY <1>3, <1>4, <1>5, <1>6, <1>7, <1>9, <1>10, <1>11, <1>13, <1>15, <1>16, <1>17, <1>18
       DEF Next, Prompt, Inside

-------------------------------------------------------------------------------
(* The theorems.                                                            *)
LEMMA SpacedIsClear == Temporary!Spaced => Temporary!UserSpaced /\ Temporary!ReturnsClear
  <1>1. SUFFICES ASSUME Temporary!Spaced
                 PROVE  Temporary!UserSpaced /\ Temporary!ReturnsClear
    OBVIOUS
  <1>2. UserSites \subseteq Sites /\ Rows \subseteq Sites /\ Returns \subseteq Sites
    BY TableAssumptions
  <1>3. \A a, b \in Sites :
           a # b => Temporary!Window(a) \intersect Temporary!Window(b) = {}
    BY <1>1 DEF Temporary!Spaced
  <1>4. \A a \in Sites : a \in Temporary!Window(a)
    BY TableAssumptions DEF Temporary!Window
  <1>5. Temporary!UserSpaced
    BY <1>2, <1>3 DEF Temporary!UserSpaced
  <1>6. Temporary!ReturnsClear
    BY <1>2, <1>3, <1>4 DEF Temporary!ReturnsClear
  <1>7. QED
    BY <1>5, <1>6

LEMMA FrameKeptAlways ==
    ASSUME NEW level, CallsNestBy(level), RowsAscend, FunctionsBeginRows, ~Repeats,
           Temporary!Spaced
    PROVE  Spec => [](FrameIsKept(level) /\ Controlled)
  <1> DEFINE Inv == Undebugged!CallsRise(level) /\ StopsAreTraps /\ FrameIsKept(level)
             Known == Controlled /\ TodoIsRight /\ T!ArmedWhileRunning /\ StopsAreExplained
  <1>1. Init => Inv
    BY DEF Init, Cpu!Init, Undebugged!CallsRise, StopsAreTraps, FrameIsKept, Followed
  <1>2. Known /\ Inv /\ [Next]_vars => Inv'
    <2>1. SUFFICES ASSUME Known, Inv, [Next]_vars
                   PROVE  Inv'
      OBVIOUS
    <2>2. Undebugged!CallsRise(level)'
      <3>1. CASE UNCHANGED Undebugged!program_vars
        BY <2>1, <3>1 DEF Undebugged!program_vars, Undebugged!CallsRise
      <3>2. CASE Undebugged!Step
        BY <2>1, <3>2, CallsRiseStep DEF Controlled
      <3>3. CASE Lost
        BY <3>3 DEF Lost, Undebugged!CallsRise
      <3>4. QED
        BY <2>1, <3>1, <3>2, <3>3, DebuggeeStep DEF Controlled
    <2>3. StopsAreTraps'
      BY <2>1, StopsAreTrapsStep
    <2>4. FrameIsKept(level)'
      BY <2>1, FrameIsKeptStep
    <2>5. QED
      BY <2>2, <2>3, <2>4
  <1>3. Spec => []T!ArmedWhileRunning
    BY TemporariesAlways, TableAssumptions, SameInvariants, T!SpacedStepsAreArmed, PTL
  <1>4. Spec => []Known
    BY <1>3, ControlledAlways, TodoAlways, SpacedIsClear, TrapsAreBreakpoints, PTL
  <1>5. Inv => FrameIsKept(level)
    OBVIOUS
  <1>6. Known => Controlled
    OBVIOUS
  <1> HIDE DEF Inv, Known
  <1>7. QED
    BY <1>1, <1>2, <1>4, <1>5, <1>6, PTL DEF Spec

(* finish, asked within a frame that is set up, stops in the caller, or at  *)
(* a breakpoint of the user or for a signal: whatever the function calls    *)
(* before it returns comes back first, and nothing else is in its way.      *)
THEOREM FinishStopsInCaller ==
    ASSUME CallsNest, RowsAscend, FunctionsBeginRows, ~Repeats, Temporary!Spaced
    PROVE  Spec => []FinishReturns
  <1>1. PICK level \in [DOMAIN Instr -> Nat] : CallsNestBy(level)
    BY DEF CallsNest
  <1>2. FrameIsKept(level) /\ Controlled => FinishReturns
    <2>1. Controlled /\ phase = "prompt" => siginfo = "none" /\ RealPc = pc /\ RealPc # Exited
      BY DEF Controlled, ControlIsRight, RealPc
    <2>2. QED
      BY <2>1 DEF FrameIsKept, Followed, FinishReturns, FrameIsDone
  <1>3. Spec => [](FrameIsKept(level) /\ Controlled)
    BY <1>1, FrameKeptAlways
  <1>4. QED
    BY <1>2, <1>3, PTL

(* next stops in its own function or, when that returns, in its caller, and *)
(* never in a function that its line calls: no row of those has a trap, and *)
(* the return address is watched all along.                                 *)
THEOREM NextStopsInFrame ==
    ASSUME CallsNest, RowsAscend, FunctionsBeginRows, ~Repeats, Temporary!Spaced
    PROVE  Spec => []NextStaysInFrame
  <1>1. PICK level \in [DOMAIN Instr -> Nat] : CallsNestBy(level)
    BY DEF CallsNest
  <1>2. FrameIsKept(level) /\ Controlled => NextStaysInFrame
    <2>1. Controlled /\ phase = "prompt" => siginfo = "none" /\ RealPc = pc /\ RealPc # Exited
      BY DEF Controlled, ControlIsRight, RealPc
    <2>2. QED
      BY <2>1 DEF FrameIsKept, Followed, NextStaysInFrame, FrameIsDone
  <1>3. Spec => [](FrameIsKept(level) /\ Controlled)
    BY <1>1, FrameKeptAlways
  <1>4. QED
    BY <1>2, <1>3, PTL
===============================================================================
