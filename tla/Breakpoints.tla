----------------------------- MODULE Breakpoints -----------------------------
(***************************************************************************)
(* Software breakpoints: class breakpoint (include/breakpoint.hpp) and the *)
(* table debugger::m_breakpoints with the operations that change it        *)
(* (src/minidbg.cpp).                                                      *)
(*                                                                         *)
(* A breakpoint saves the whole machine word at its address, writes it     *)
(* back with a trap instruction in its low end, and on disable() writes    *)
(* the whole saved word back.  The trap is shorter than the word, so two   *)
(* breakpoints closer than a word share memory: that is what this module   *)
(* is about.                                                               *)
(*                                                                         *)
(* Memory is divided in cells, a cell being as long as the trap            *)
(* instruction: a byte on x86-64 (int3; a word is 8 cells), a four-byte    *)
(* instruction on aarch64 (brk; a word is 2 cells).  On x86-64 the trap    *)
(* replaces one cell of the saved word.  On aarch64 it zeroes the other,   *)
(* the instruction behind: ~0xffffffff (breakpoint.hpp:72) is the          *)
(* complement of a number of 32 unsigned bits, a mask that keeps nothing.  *)
(***************************************************************************)
EXTENDS Integers

CONSTANTS Addr,        \* the cells of the debuggee's memory
          Word,        \* the cells in the word PTRACE_PEEKDATA/POKEDATA moves
          Sites,       \* the addresses breakpoints may be asked for
          WriteSites,  \* the addresses `memory write` may be asked for
          Code,        \* what the program's own cells may hold
          Trap,        \* what the trap instruction makes of a cell
          Zero,        \* a cell of zeroes
          KeepsRest,   \* whether the mask keeps the rest of the word: x86-64
          Text         \* the program's memory when it was loaded

Window(a) == a .. (a + Word - 1)

(* Every site's word lies in memory, and the program has no trap           *)
(* instruction of its own.                                                 *)
ASSUME BreakpointsAssumption ==
    /\ Addr \subseteq Int
    /\ Word \in Nat \ {0}
    /\ Sites \subseteq Addr
    /\ \A a \in Sites \union WriteSites : a \in Int /\ Window(a) \subseteq Addr
    /\ Trap \notin Code
    /\ Text \in [Addr -> Code]
    /\ KeepsRest \in BOOLEAN

VARIABLES mem,            \* the debuggee's memory
          m_breakpoints,  \* address -> breakpoint, for the addresses in the table
          image           \* history: memory as the program and the writes made it

vars == <<mem, m_breakpoints, image>>

Cell == Code \union {Trap, Zero}
Breakpoint(a) == [staging_data : [Window(a) -> Cell], enabled : BOOLEAN]
InTable(a)   == a \in DOMAIN m_breakpoints
IsEnabled(a) == InTable(a) /\ m_breakpoints[a].enabled

Init == /\ mem = Text
        /\ image = Text
        /\ m_breakpoints = [a \in {} |-> [staging_data |-> Text, enabled |-> TRUE]]

-------------------------------------------------------------------------------
(* Memory as ptrace moves it, and the two halves of a breakpoint.          *)

PeekWord(m, a) == [c \in Window(a) |-> m[c]]

PokeWord(m, a, w) == [c \in DOMAIN m |-> IF c \in Window(a) THEN w[c] ELSE m[c]]

\* Mutant: the trap replaces the word, which on aarch64 it does.
InstrumentAlone(a, w) == [c \in DOMAIN w |-> IF c = a THEN Trap ELSE Zero]

BreakpointInstrument(a, w) ==
    [c \in DOMAIN w |-> IF c = a THEN Trap ELSE IF KeepsRest THEN w[c] ELSE Zero]

\* Mutants, for the runs that must notice them: enable() saving only the cell
\* it overwrites, enable() saving the word after writing the trap, disable()
\* spreading one cell over the word.
EnabledSavesOneCell(m, a) == [staging_data |-> [c \in {a} |-> m[c]], enabled |-> TRUE]
EnabledSavesTheTrap(m, a) ==
    [staging_data |-> BreakpointInstrument(a, PeekWord(m, a)), enabled |-> TRUE]
DisabledSpreadsOneCell(m, a, bp) ==
    PokeWord(m, a, [c \in Window(a) |-> bp.staging_data[a]])

(* enable(): the breakpoint it leaves behind, and the memory.              *)
Enabled(m, a) == [staging_data |-> PeekWord(m, a), enabled |-> TRUE]
EnabledMem(m, a) == PokeWord(m, a, BreakpointInstrument(a, PeekWord(m, a)))

(* disable(): the memory it leaves behind.                                 *)
DisabledMem(m, a, bp) == PokeWord(m, a, bp.staging_data)

With(table, a, bp) ==
    [b \in DOMAIN table \union {a} |-> IF b = a THEN bp ELSE table[b]]
Without(table, a) == [b \in DOMAIN table \ {a} |-> table[b]]

(* The debugger has one thread: between the disable and the enable of      *)
(* step_over_breakpoint nothing else touches the table.                    *)
AtRest == \A b \in DOMAIN m_breakpoints : m_breakpoints[b].enabled

-------------------------------------------------------------------------------
(* set_breakpoint_at_address: a fresh breakpoint is enabled, then assigned *)
(* into the table over whatever was there.                                 *)
SetBreakpointAtAddress(a) ==
    /\ AtRest
    /\ mem' = EnabledMem(mem, a)
    /\ m_breakpoints' = With(m_breakpoints, a, Enabled(mem, a))
    /\ UNCHANGED image

\* Mutant: the entry is erased without being disabled.
RemoveBreakpointLeavesTrap(a) ==
    /\ AtRest
    /\ InTable(a)
    /\ m_breakpoints' = Without(m_breakpoints, a)
    /\ UNCHANGED <<mem, image>>

RemoveBreakpoint(a) ==
    /\ AtRest
    /\ InTable(a)
    /\ mem' = IF IsEnabled(a) THEN DisabledMem(mem, a, m_breakpoints[a]) ELSE mem
    /\ m_breakpoints' = Without(m_breakpoints, a)
    /\ UNCHANGED image

(* step_over_breakpoint before its single step ...                         *)
StepOverDisable(a) ==
    /\ AtRest
    /\ IsEnabled(a)
    /\ mem' = DisabledMem(mem, a, m_breakpoints[a])
    /\ m_breakpoints' = [m_breakpoints EXCEPT ![a].enabled = FALSE]
    /\ UNCHANGED image

\* Mutant: the breakpoint is marked enabled and its trap is not written.
StepOverEnableMarks(a) ==
    /\ InTable(a)
    /\ ~IsEnabled(a)
    /\ m_breakpoints' = [m_breakpoints EXCEPT ![a].enabled = TRUE]
    /\ UNCHANGED <<mem, image>>

(* ... and after it.                                                       *)
StepOverEnable(a) ==
    /\ InTable(a)
    /\ ~IsEnabled(a)
    /\ mem' = EnabledMem(mem, a)
    /\ m_breakpoints' = With(m_breakpoints, a, Enabled(mem, a))
    /\ UNCHANGED image

(* The command `memory write` writes one word of the user's choice.        *)
WriteMemory(a, w) ==
    /\ AtRest
    /\ mem' = PokeWord(mem, a, w)
    /\ image' = PokeWord(image, a, w)
    /\ UNCHANGED m_breakpoints

Others == \/ \E a \in Sites : \/ RemoveBreakpoint(a)
                              \/ StepOverDisable(a)
                              \/ StepOverEnable(a)
          \/ \E a \in WriteSites : \E w \in [Window(a) -> Code] : WriteMemory(a, w)

Next == Others \/ \E a \in Sites : SetBreakpointAtAddress(a)

Spec == Init /\ [][Next]_vars

(* step_over and step_out look in the table before they set a breakpoint;  *)
(* the `break` command does not.  Callers that do:                         *)
SetNewBreakpoint(a) == ~InTable(a) /\ SetBreakpointAtAddress(a)

CarefulNext == Others \/ \E a \in Sites : SetNewBreakpoint(a)

CarefulSpec == Init /\ [][CarefulNext]_vars

-------------------------------------------------------------------------------
TypeOK ==
    /\ mem \in [Addr -> Cell]
    /\ image \in [Addr -> Code]
    /\ DOMAIN m_breakpoints \subseteq Sites
    /\ m_breakpoints = [a \in DOMAIN m_breakpoints |-> m_breakpoints[a]]
    /\ \A a \in DOMAIN m_breakpoints : m_breakpoints[a] \in Breakpoint(a)

(* The words of two sites, or of a site and a write, never share a cell.   *)
Spaced ==
    /\ \A a, b \in Sites : a # b => Window(a) \intersect Window(b) = {}
    /\ \A a \in Sites, b \in WriteSites : Window(a) \intersect Window(b) = {}

(* However breakpoints overlap, and however often one is set again, what a *)
(* saved word puts back is the program's own cell or a trap that stood     *)
(* there: disable() can leave a stray trap, at an address a breakpoint was *)
(* asked for; every other cell is the program's.  (Nobody writes memory    *)
(* meanwhile.)  On aarch64 it is not so: enable() zeroes what is behind.   *)
NoForeignCells ==
    \A c \in Addr : mem[c] = image[c] \/ (mem[c] = Trap /\ c \in Sites)

(* The saved words are no stranger than memory is: the inductive part of   *)
(* NoForeignCells.                                                         *)
StagingIsAccounted ==
    \A a \in DOMAIN m_breakpoints : \A c \in Window(a) :
        \/ m_breakpoints[a].staging_data[c] = image[c]
        \/ m_breakpoints[a].staging_data[c] = Trap /\ c \in Sites

(* Memory is the program's own but for a trap at exactly the addresses     *)
(* whose breakpoint is enabled: no enable() or disable() disturbs another  *)
(* breakpoint, and what remove_breakpoint leaves is the program.           *)
TrapsAreExact ==
    \A c \in Addr : mem[c] = IF IsEnabled(c) THEN Trap ELSE image[c]

(* The table implements the set of planted addresses over the program's    *)
(* memory; what lies beneath a trap is what its breakpoint saved.          *)
Beneath == [c \in Addr |-> IF InTable(c) THEN m_breakpoints[c].staging_data[c] ELSE mem[c]]
Planted == INSTANCE PlantedSet
             WITH content <- Beneath, planted <- {c \in Addr : mem[c] = Trap}
ImplementsPlantedSet == Planted!Spec

(* The inductive invariant behind TrapsAreExact: every saved word is the   *)
(* program's own.                                                          *)
StagingIsImage ==
    \A a \in DOMAIN m_breakpoints : \A c \in Window(a) :
        m_breakpoints[a].staging_data[c] = image[c]
IInv == TypeOK /\ TrapsAreExact /\ StagingIsImage
===============================================================================
