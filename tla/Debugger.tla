------------------------------ MODULE Debugger ------------------------------
(***************************************************************************)
(* The debugger at work on a debuggee: the commands break, cont, step,     *)
(* stepi, next and finish of handle_command (src/minidbg.cpp), over the    *)
(* breakpoint table of Breakpoints.tla, the line table of LineTable.tla    *)
(* and a debuggee that runs Program.tla between PTRACE_CONT or             *)
(* PTRACE_SINGLESTEP and the waitpid that follows.                         *)
(*                                                                         *)
(* The debugger has one thread; what makes it hard is that the debuggee,   *)
(* its signals and its end come in between, and that a lookup that fails   *)
(* throws through everything: no exception is caught anywhere, so the      *)
(* debugger dies where it stands.                                          *)
(*                                                                         *)
(* The architecture is x86-64.  On aarch64, where FRAME_POINTER is the     *)
(* stack pointer and a breakpoint zeroes the instruction behind it, neither*)
(* the return address nor memory is what this module has.                  *)
(***************************************************************************)
EXTENDS Integers, Sequences, FiniteSets, LineTable

CONSTANTS
    Addr, Word, Sites, Code, Trap, Text,    \* as in Breakpoints.tla
    Instr, Entry, Exited, MaxDepth,         \* as in Program.tla
    UserSites,    \* the addresses the user sets breakpoints at
    Table,        \* the rows of the compilation unit's line table
    Unit,         \* the addresses die_pc_range gives its root
    Functions,    \* its functions, as records of at_low_pc and at_high_pc
    Load,         \* m_load_address: not 0 for a position-independent program
    Garbage,      \* what lies above the frame pointer before main has a frame
    Repeats,      \* whether the user sets a breakpoint where there is one
    MaxSignals    \* bound: the signals the debuggee gets

ASSUME DebuggerAssumption ==
    /\ UserSites \subseteq Sites
    /\ Table \in Seq(Row)
    /\ Functions \subseteq [low : Int, high : Int]
    /\ Load \in Nat
    /\ MaxSignals \in Nat

VARIABLES
    mem, m_breakpoints,   \* as in Breakpoints.tla
    pc, stack,            \* as in Program.tla; between a trap and its handling
                          \* pc is where the processor leaves it
    mode,         \* the debuggee is stopped, running or stepping
    siginfo,      \* why it stopped, until wait_for_signal has seen it
    phase,        \* where the debugger is in its command
    cmd,          \* the command, once its first lookups have not thrown
    todo,         \* addresses the loop of step_over has yet to come to
    to_delete,    \* the temporary breakpoints it has set
    line,         \* the line step_in started at
    signals,      \* how many signals the debuggee has had
    began,        \* history: the stack, and how it was framed, at the command
    moved         \* history: whether an instruction ran since

\* x86-64: a breakpoint changes one cell, none is zeroed.
B   == INSTANCE Breakpoints
         WITH image <- Text, WriteSites <- {}, KeepsRest <- TRUE, Zero <- Trap
Cpu == INSTANCE Program

(* Memory is as Breakpoints.tla assumes it, the program is one and in it.  *)
ASSUME MemoryAssumption ==
    /\ Addr \subseteq Int
    /\ Word \in Nat \ {0}
    /\ Sites \subseteq Addr
    /\ \A a \in Sites : B!Window(a) \subseteq Addr
    /\ Trap \notin Code
    /\ Text \in [Addr -> Code]

ASSUME ProgramAssumption ==
    /\ Cpu!WellFormed
    /\ DOMAIN Instr \subseteq Addr
    /\ \A a \in DOMAIN Instr : a .. Instr[a].next - 1 \subseteq Addr
    /\ Exited \in Int \ Addr
    /\ MaxDepth \in Nat

Rollback == 1      \* get_breakpoint_rollback() on x86-64

table_vars == <<mem, m_breakpoints>>
cpu_vars == <<pc, stack>>
history == <<began, moved>>
vars == <<mem, m_breakpoints, pc, stack, mode, siginfo, phase, cmd, todo,
          to_delete, line, signals, began, moved>>

Phases == {"prompt", "plant", "resume", "over", "wait", "cleanup",
           "loop", "single", "stepped", "gone", "dead"}
Commands == {"none", "cont", "step", "stepi", "next", "finish"}
Continuing == {"cont", "next", "finish"}      \* the ones that PTRACE_CONT

-------------------------------------------------------------------------------
(* What the commands look up.  Addresses in the line table and the         *)
(* functions are the file's; the debuggee's are Load higher.               *)

OffsetLoadAddress(a)  == a - Load
OffsetDwarfAddress(a) == a + Load

(* get_line_entry_from_pc and get_function_from_pc throw where these fail. *)
HasLine(a)     == a \in Unit /\ FindAddress(Table, a) # NoRow
HasFunction(a) == \E f \in Functions : f.low <= a /\ a < f.high

LineOf(a)     == Table[FindAddress(Table, a)].line
FunctionAt(a) == CHOOSE f \in Functions : f.low <= a /\ a < f.high

(* read_memory(frame pointer + 8): the return address in the innermost     *)
(* frame that is set up, whichever function that is the frame of.          *)
Framed == {i \in DOMAIN stack : stack[i].entered}
\* Mutant: the word at the frame pointer itself, which is a stack address.
ReturnAddressOfFramePointer == IF Framed = {} THEN Garbage ELSE Garbage + Word
ReturnAddress == IF Framed = {} THEN Garbage ELSE stack[Max(Framed)].ret

\* Mutant: the loop visits the rows of every function.
RowsToPlantOfTheUnit(a) ==
    LET inside(r) == r \in Unit
        rows == SelectSeq([i \in DOMAIN Table |-> Table[i].address], inside)
    IN  [i \in DOMAIN rows |-> OffsetDwarfAddress(rows[i])]

(* The rows step_over's loop visits: from the function's first row while   *)
(* they are below its end.                                                 *)
RowsToPlant(a) ==
    LET func  == FunctionAt(a)
        first == FindAddress(Table, func.low)
        past  == Min({i \in first .. Len(Table) + 1 :
                        i = Len(Table) + 1 \/ Table[i].address >= func.high})
    IN  [i \in 1 .. past - first |-> OffsetDwarfAddress(Table[first + i - 1].address)]

(* start_line: where the row stopped at begins.                            *)
StartLine == OffsetDwarfAddress(Table[FindAddress(Table, OffsetLoadAddress(pc))].address)

(* Where next and finish may plant: a row, a frame's return address.       *)
Rows == {OffsetDwarfAddress(Table[i].address) : i \in DOMAIN Table}
Returns == Cpu!ReturnAddresses \union {Garbage}

ASSUME SitesAssumption == Rows \union Returns \subseteq Sites

Init == /\ B!Init
        /\ Cpu!Init
        /\ mode = "stopped"
        /\ siginfo = "none"
        /\ phase = "prompt"
        /\ cmd = "none"
        /\ todo = <<>>
        /\ to_delete = <<>>
        /\ line = 0
        /\ signals = 0
        /\ began = [depth |-> 0, framed |-> FALSE]
        /\ moved = FALSE

-------------------------------------------------------------------------------
(* The prompt.                                                             *)

Break(a) == /\ phase = "prompt"
            /\ Repeats \/ ~B!InTable(a)
            /\ B!SetBreakpointAtAddress(a)
            /\ UNCHANGED <<cpu_vars, mode, siginfo, phase, cmd, todo, to_delete,
                           line, signals, history>>

Begin(c) == /\ phase = "prompt"
            /\ cmd' = c
            /\ began' = [depth  |-> Len(stack),
                         framed |-> stack # <<>> /\ stack[Len(stack)].entered]
            /\ moved' = FALSE
            /\ UNCHANGED <<table_vars, cpu_vars, mode, siginfo, to_delete, signals>>

(* A lookup before the command has done anything throws.                   *)
Throw == /\ phase = "prompt"
         /\ phase' = "dead"
         /\ cmd' = "none"
         /\ UNCHANGED <<table_vars, cpu_vars, mode, siginfo, todo, to_delete, line,
                        signals, history>>

Continue == Begin("cont") /\ phase' = "resume" /\ UNCHANGED <<todo, line>>

\* Mutant: finish plants the function's rows too, as next does.
StepOutThroughRows ==
    LET a == OffsetLoadAddress(pc)
    IN  /\ HasFunction(a) /\ HasLine(FunctionAt(a).low) /\ HasLine(a)
        /\ Begin("finish")
        /\ phase' = "plant"
        /\ todo' = Append(RowsToPlant(a), ReturnAddress)
        /\ UNCHANGED line

StepOut == /\ Begin("finish")
           /\ phase' = "plant"
           /\ todo' = <<ReturnAddress>>
           /\ UNCHANGED line

StepOver ==
    LET a == OffsetLoadAddress(pc)
        found == HasFunction(a) /\ HasLine(FunctionAt(a).low) /\ HasLine(a)
    IN  \/ /\ found
           /\ Begin("next")
           /\ phase' = "plant"
           /\ todo' = Append(RowsToPlant(a), ReturnAddress)
           /\ UNCHANGED line
        \/ ~found /\ Throw

StepIn == LET a == OffsetLoadAddress(pc)
          IN  \/ /\ HasLine(a)
                 /\ Begin("step")
                 /\ phase' = "loop"
                 /\ line' = LineOf(a)
                 /\ UNCHANGED todo
              \/ ~HasLine(a) /\ Throw

StepInstruction == Begin("stepi") /\ phase' = "loop" /\ UNCHANGED <<todo, line>>

-------------------------------------------------------------------------------
(* Inside the commands.                                                    *)

\* Mutant: continue_execution without step_over_breakpoint.
ResumeAtBreakpoint == /\ phase = "resume"
                      /\ mode' = "running"
                      /\ phase' = "wait"
                      /\ UNCHANGED <<table_vars, cpu_vars, siginfo, cmd, todo,
                                     to_delete, line, signals, history>>

(* One turn of step_over's loop, which passes over the row stopped at, or, *)
(* last in todo, the check of the return address.                          *)
Plant == /\ phase = "plant"
         /\ LET a == Head(todo)
                isRow == Tail(todo) # <<>>
            IN  IF B!InTable(a) \/ (isRow /\ a = StartLine)
                  THEN UNCHANGED <<table_vars, to_delete>>
                  ELSE /\ B!SetBreakpointAtAddress(a)
                       /\ to_delete' = Append(to_delete, a)
         /\ todo' = Tail(todo)
         /\ phase' = IF todo' = <<>> THEN "resume" ELSE "plant"
         /\ UNCHANGED <<cpu_vars, mode, siginfo, cmd, line, signals, history>>

(* The head of step_over_breakpoint, at an enabled breakpoint.             *)
StepOffBreakpoint == /\ B!StepOverDisable(pc)
                     /\ mode' = "stepping"
                     /\ phase' = "over"

(* continue_execution.                                                     *)
Resume == /\ phase = "resume"
          /\ \/ B!IsEnabled(pc) /\ StepOffBreakpoint
             \/ /\ ~B!IsEnabled(pc)
                /\ mode' = "running"
                /\ phase' = "wait"
                /\ UNCHANGED table_vars
          /\ UNCHANGED <<cpu_vars, siginfo, cmd, todo, to_delete, line, signals, history>>

\* Mutant: step_in and stepi without the breakpoint check.
StepLoopUnchecked ==
    LET a == OffsetLoadAddress(pc)
        go == cmd = "stepi" \/ (HasLine(a) /\ LineOf(a) = line)
    IN  /\ phase = "loop"
        /\ \/ /\ go
              /\ mode' = "stepping"
              /\ phase' = "single"
           \/ /\ ~go
              /\ phase' = IF HasLine(a) THEN "prompt" ELSE "dead"
              /\ UNCHANGED mode
        /\ UNCHANGED <<table_vars, cpu_vars, siginfo, cmd, todo, to_delete, line,
                       signals, history>>

(* The loop of step_in, and stepi: a line that differs ends it, a lookup   *)
(* that throws ends the debugger.                                          *)
StepLoop ==
    LET a == OffsetLoadAddress(pc)
        go == cmd = "stepi" \/ (HasLine(a) /\ LineOf(a) = line)
    IN  /\ phase = "loop"
        /\ \/ go /\ B!IsEnabled(pc) /\ StepOffBreakpoint
           \/ /\ go /\ ~B!InTable(pc)
              /\ mode' = "stepping"
              /\ phase' = "single"
              /\ UNCHANGED table_vars
           \/ /\ ~go
              /\ phase' = IF HasLine(a) THEN "prompt" ELSE "dead"
              /\ UNCHANGED <<table_vars, mode>>
        /\ UNCHANGED <<cpu_vars, siginfo, cmd, todo, to_delete, line, signals, history>>

(* The tail of stepi looks pc up without taking the load address off.      *)
StepInstructionDone ==
    /\ phase = "stepped"
    /\ phase' = IF HasLine(pc) THEN "prompt" ELSE "dead"
    /\ UNCHANGED <<table_vars, cpu_vars, mode, siginfo, cmd, todo, to_delete,
                   line, signals, history>>

-------------------------------------------------------------------------------
(* wait_for_signal, and what its caller does next.  A breakpoint's trap    *)
(* moves pc back and is looked up, which may throw; any other stop is only *)
(* printed, and the signal is not passed on.  If the debuggee is gone      *)
(* PTRACE_GETSIGINFO fails and the switch is on an uninitialized siginfo_t:*)
(* the debugger may go on or throw.                                        *)

\* Mutant: pc is left behind the trap instruction.
HandledWithoutRollback == pc
Handled == IF siginfo = "brk" THEN pc - Rollback ELSE pc

Survives == siginfo = "brk" => HasLine(OffsetLoadAddress(Handled))

AfterStep == IF cmd = "stepi" THEN "stepped" ELSE "loop"

Waited == /\ mode = "stopped"
          /\ siginfo \notin {"none", "exit"}
          /\ siginfo' = "none"
          /\ pc' = Handled
          /\ UNCHANGED <<stack, cmd, todo, line, signals, history>>

Die(p) == /\ phase = p
          /\ Waited
          /\ ~Survives
          /\ phase' = "dead"
          /\ UNCHANGED <<table_vars, mode, to_delete>>

(* ... in step_over_breakpoint, which enables the breakpoint again; a      *)
(* command that continues goes on to PTRACE_CONT.                          *)
WaitStepOver == /\ phase = "over"
                /\ Waited
                /\ Survives
                /\ \E a \in DOMAIN m_breakpoints : B!StepOverEnable(a)
                /\ \/ /\ cmd \in Continuing
                      /\ mode' = "running"
                      /\ phase' = "wait"
                   \/ /\ cmd \in {"step", "stepi"}
                      /\ phase' = AfterStep
                      /\ UNCHANGED mode
                /\ UNCHANGED to_delete

(* ... in single_step_instruction.                                         *)
WaitSingle == /\ phase = "single"
              /\ Waited
              /\ Survives
              /\ phase' = AfterStep
              /\ UNCHANGED <<table_vars, mode, to_delete>>

(* ... in continue_execution.                                              *)
WaitContinue == /\ phase = "wait"
                /\ Waited
                /\ Survives
                /\ phase' = "cleanup"
                /\ UNCHANGED <<table_vars, mode, to_delete>>

(* Nothing that follows the debuggee's end is followed further.            *)
WaitGone == /\ phase \in {"over", "single", "wait"}
            /\ mode = "stopped"
            /\ siginfo = "exit"
            /\ phase' \in {"gone", "dead"}
            /\ UNCHANGED <<table_vars, cpu_vars, mode, siginfo, cmd, todo, to_delete,
                           line, signals, history>>

\* Mutant: the temporaries are forgotten.
CleanupForgets == /\ phase = "cleanup"
                  /\ to_delete' = <<>>
                  /\ phase' = "prompt"
                  /\ UNCHANGED <<table_vars, cpu_vars, mode, siginfo, cmd, todo, line,
                                 signals, history>>

(* The loop over to_delete; cont has none.                                 *)
Cleanup == /\ phase = "cleanup"
           /\ \/ /\ to_delete # <<>>
                 /\ B!RemoveBreakpoint(Head(to_delete))
                 /\ to_delete' = Tail(to_delete)
                 /\ UNCHANGED phase
              \/ /\ to_delete = <<>>
                 /\ phase' = "prompt"
                 /\ UNCHANGED <<table_vars, to_delete>>
           /\ UNCHANGED <<cpu_vars, mode, siginfo, cmd, todo, line, signals, history>>

-------------------------------------------------------------------------------
(* The debuggee between two stops.  The processor executes what memory     *)
(* holds: a trap stops it behind the trap instruction, a single step       *)
(* behind one instruction.  Of an instruction that is not all there any    *)
(* more it makes something else; the debuggee is then lost, and no more    *)
(* followed than one that has exited.                                      *)
Intact == \A c \in pc .. Instr[pc].next - 1 : mem[c] = Text[c]

ExecuteInstruction == IF Intact THEN Cpu!Step ELSE Cpu!Goto(Exited)

Execute ==
    /\ mode \in {"running", "stepping"}
    /\ \/ /\ mem[pc] = Trap
          /\ pc' = pc + Rollback
          /\ siginfo' = "brk"
          /\ mode' = "stopped"
          /\ UNCHANGED <<stack, moved>>
       \/ /\ mem[pc] # Trap
          /\ ExecuteInstruction
          /\ moved' = TRUE
          /\ siginfo' = IF pc' = Exited THEN "exit"
                        ELSE IF mode = "stepping" THEN "trace" ELSE "none"
          /\ mode' = IF siginfo' = "none" THEN "running" ELSE "stopped"
    /\ UNCHANGED <<table_vars, phase, cmd, todo, to_delete, line, signals, began>>

(* A signal stops it before its next instruction; wait_for_signal prints   *)
(* it, PTRACE_CONT and PTRACE_SINGLESTEP do not pass it on, and it is lost.*)
Signal == /\ mode \in {"running", "stepping"}
          /\ signals < MaxSignals
          /\ signals' = signals + 1
          /\ siginfo' = "other"
          /\ mode' = "stopped"
          /\ UNCHANGED <<table_vars, cpu_vars, phase, cmd, todo, to_delete, line, history>>

Inside == Plant \/ Resume \/ StepLoop \/ StepInstructionDone
            \/ (\E p \in {"over", "single", "wait"} : Die(p))
            \/ WaitStepOver \/ WaitSingle \/ WaitContinue \/ WaitGone \/ Cleanup

Prompt == Continue \/ StepIn \/ StepInstruction \/ StepOver \/ StepOut
            \/ \E a \in UserSites : Break(a)

Over == phase \in {"gone", "dead"} /\ UNCHANGED vars

Next == Prompt \/ Inside \/ Execute \/ Signal \/ Over

(* The kernel runs a debuggee that was told to go, and the debugger, once  *)
(* it has a command, runs until it blocks: neither depends on the user.    *)
Spec == Init /\ [][Next]_vars /\ WF_vars(Execute) /\ WF_vars(Inside)

-------------------------------------------------------------------------------
TypeOK == /\ B!TypeOK
          /\ pc \in Int
          /\ stack \in Seq(Cpu!Frame)
          /\ mode \in {"stopped", "running", "stepping"}
          /\ siginfo \in {"none", "brk", "trace", "other", "exit"}
          /\ phase \in Phases
          /\ cmd \in Commands
          /\ todo \in Seq(Sites)
          /\ to_delete \in Seq(Sites)
          /\ line \in Int
          /\ signals \in 0 .. MaxSignals
          /\ began \in [depth : Nat, framed : BOOLEAN]
          /\ moved \in BOOLEAN

(* The instructions the debuggee executes are those it would execute with  *)
(* nobody attached and no signal sent to it, in that order and each of     *)
(* them whole: planting and lifting traps, saved words written back over   *)
(* others, stepping off traps and winding pc back never make it skip,      *)
(* repeat or half-execute one, or execute one that is not the program's.   *)
(* Two things that are not said: that it gets on (it may be held at a trap *)
(* that stayed behind), and that a signal has the effect it has without a  *)
(* debugger (it has none).                                                 *)
RealPc == IF siginfo = "brk" THEN pc - Rollback ELSE pc
Undebugged == INSTANCE Program WITH pc <- RealPc
Transparent == Undebugged!Spec

(* The commands use the breakpoint table as TemporaryBreakpoints.tla says, *)
(* so that its theorems hold here: no temporary outlives its command.      *)
TemporariesPhase ==
    IF ~B!AtRest THEN "lifted"
    ELSE IF phase \in {"plant", "resume", "cleanup"} THEN phase
    ELSE IF phase = "wait" THEN "run"
    ELSE IF phase \in {"gone", "dead"} /\ cmd \in Continuing THEN "cleanup"
    ELSE "prompt"
Temporary == INSTANCE TemporaryBreakpoints
               WITH image <- Text, WriteSites <- {}, KeepsRest <- TRUE, Zero <- Trap,
                    phase <- TemporariesPhase
ImplementsTemporaries == Temporary!TSpec

(* At the prompt memory is the program's but for the user's breakpoints.   *)
PromptIsClean == Temporary!LeavesNoTrace

(* At every moment, however breakpoints overlap and are set again, a saved *)
(* word that is written back restores the program's own cells or a trap    *)
(* that stood at a site, which may then stay behind: never a cell that the *)
(* program does not have there, nor a trap where none was asked for.       *)
NoForeignCells == B!NoForeignCells

(* The debuggee traps only where the table has a breakpoint, ...           *)
StopsAreExplained == siginfo = "brk" => B!InTable(RealPc)

(* ... and never runs past one that is in the table.                       *)
NoBreakpointMissed ==
    [][mode = "running" /\ B!InTable(pc) /\ cpu_vars' # cpu_vars => siginfo' = "brk"]_vars

(* A command that continues does not report the stop it started from: it   *)
(* steps off the breakpoint it stands on, so something ran.  (A signal     *)
(* that comes during that one step leaves the debuggee where it was.)      *)
ContinueMakesProgress ==
    phase = "prompt" /\ cmd \in Continuing /\ signals = 0 => moved

(* finish, asked within a frame that is set up, stops in the caller unless *)
(* the user's breakpoint, a signal or the recursion of the function stops  *)
(* it earlier.                                                             *)
FinishReturns ==
    phase = "prompt" /\ cmd = "finish" /\ began.framed /\ signals = 0 /\ ~B!InTable(pc)
      => Len(stack) = began.depth - 1

(* next never stops in a function that its line called, but for a          *)
(* breakpoint the user has there or a signal.                              *)
NextStaysInFrame ==
    phase = "prompt" /\ cmd = "next" /\ began.framed /\ signals = 0 /\ ~B!InTable(pc)
      => Len(stack) <= began.depth

(* What Transparent needs of the addresses breakpoints are asked for: none *)
(* lies within an instruction, where its trap is not executed as one.      *)
BreaksAtInstructions ==
    \A a \in DOMAIN Instr : \A c \in a + 1 .. Instr[a].next - 1 : c \notin Sites

(* What the proofs assume of a line table, as compilers write it: within a *)
(* sequence addresses never go back, and a function lies within one.       *)
InOneSequence(i, j) == \A k \in i .. j - 1 : ~Table[k].end_sequence
RowsAscend ==
    /\ \A i, j \in DOMAIN Table :
          i <= j /\ InOneSequence(i, j) => Table[i].address <= Table[j].address
    /\ \A f \in Functions : HasLine(f.low) =>
          \E e \in FindAddress(Table, f.low) .. Len(Table) :
              /\ f.high <= Table[e].address
              /\ InOneSequence(FindAddress(Table, f.low), e)

(* The inductive invariants behind the theorems: what mode, siginfo, the   *)
(* command and the one lifted breakpoint have to do with phase; ...        *)
ControlIsRight ==
    /\ mode = "running" => phase = "wait"
    /\ mode = "stepping" => phase \in {"over", "single"}
    /\ siginfo # "none" =>
          mode = "stopped" /\ phase \in {"over", "single", "wait", "gone", "dead"}
    /\ siginfo = "exit" <=> RealPc = Exited
    /\ phase = "plant" => todo # <<>>
    /\ phase \in {"plant", "resume", "wait", "cleanup"} => cmd \in Continuing
    /\ phase \in {"loop", "single", "stepped"} => cmd \in {"step", "stepi"}
    /\ phase = "over" => cmd # "none" /\ ~B!AtRest
    /\ phase \notin {"over", "gone", "dead"} => B!AtRest
    /\ \A a, b \in DOMAIN m_breakpoints : ~B!IsEnabled(a) /\ ~B!IsEnabled(b) => a = b

(* ... what is left to plant lies above what is planted; ...               *)
TodoIsRight ==
    /\ phase = "plant" =>
          /\ todo[Len(todo)] \in Returns
          /\ \A t \in Temporary!Temporaries : B!InTable(t)
          /\ \A i \in 1 .. Len(todo) - 1 :
                /\ todo[i] \in Rows
                /\ \A t \in Temporary!Temporaries : t <= todo[i]
                /\ \A j \in i .. Len(todo) - 1 : todo[i] <= todo[j]
    /\ phase \in {"prompt", "loop", "single", "stepped"} => to_delete = <<>>
    /\ phase = "over" /\ cmd \notin Continuing => to_delete = <<>>

(* ... until an instruction has run, the next one is no trap.              *)
ProgressIsNear ==
    signals = 0 /\ ~moved =>
        /\ phase # "cleanup"
        /\ phase = "prompt" => cmd \notin Continuing
        /\ phase = "wait" => mode = "running" /\ ~B!InTable(pc)
        /\ phase = "over" => mode = "stepping" /\ mem[pc] # Trap

(* What finish and next need of a program: it has no recursion, a function *)
(* has the instructions between its at_low_pc and its at_high_pc, and a    *)
(* row of the line table begins with it.                                   *)
InFunction(a, f) == f.low <= OffsetLoadAddress(a) /\ OffsetLoadAddress(a) < f.high
CallsNestBy(level) ==
    /\ level \in [DOMAIN Instr -> Nat]
    /\ Undebugged!LevelsRise(level)
    /\ \A f \in Functions : \A a, b \in DOMAIN Instr :
          InFunction(a, f) /\ InFunction(b, f) => level[a] = level[b]
CallsNest == \E level \in [DOMAIN Instr -> Nat] : CallsNestBy(level)
FunctionsBeginRows ==
    \A f \in Functions : HasLine(f.low) => f.low <= Table[FindAddress(Table, f.low)].address

(* The invariant behind FinishReturns and NextStaysInFrame.  FrameLevel is *)
(* the level of the function the command was given in, until it returns:   *)
(* no temporary lies above it, and finish's one lies below.                *)
FrameLevel(level) ==
    IF Len(stack) = began.depth THEN level[RealPc] ELSE level[stack[began.depth + 1].ret]
NotAbove(level, a) ==
    a \in DOMAIN Instr => /\ level[a] <= FrameLevel(level)
                          /\ cmd = "finish" => level[a] < FrameLevel(level)
(* The frame is open and its return address is watched ...                 *)
FrameIsOpen(level) ==
    /\ Len(stack) >= began.depth
    /\ B!InTable(stack[began.depth].ret)
    /\ \A t \in Temporary!Temporaries : NotAbove(level, t)
(* ... or it has just been left, for that address.                         *)
FrameIsLeft == Len(stack) = began.depth - 1 /\ B!InTable(RealPc)
FrameIsDone == IF cmd = "finish" THEN Len(stack) = began.depth - 1
                                 ELSE Len(stack) <= began.depth
Followed == signals = 0 /\ began.framed /\ cmd \in {"next", "finish"} /\ RealPc # Exited

StopsAreTraps == /\ siginfo = "other" => signals > 0
                 /\ phase = "wait" => siginfo # "trace"
                 /\ began.framed => began.depth > 0

FrameIsKept(level) == Followed =>
    /\ phase = "plant" =>
          /\ Len(stack) = began.depth
          /\ todo[Len(todo)] = stack[began.depth].ret
          /\ \A i \in DOMAIN todo : NotAbove(level, todo[i])
          /\ \A t \in Temporary!Temporaries : NotAbove(level, t)
    /\ phase \in {"resume", "over", "wait"} => FrameIsOpen(level) \/ FrameIsLeft
    /\ phase = "resume" \/ mode = "stepping" => Len(stack) = began.depth
    /\ phase = "cleanup" =>
          FrameIsDone \/ (B!InTable(RealPc) /\ RealPc \notin Temporary!Temporaries)
    /\ phase = "prompt" => FrameIsDone \/ B!InTable(RealPc)

(* Every command comes back to the prompt, or ends with the debuggee or    *)
(* with an uncaught exception: nothing waits for what cannot come.         *)
CommandsReturn == phase # "prompt" ~> phase \in {"prompt", "gone", "dead"}
===============================================================================
