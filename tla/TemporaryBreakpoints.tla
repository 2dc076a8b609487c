------------------------ MODULE TemporaryBreakpoints ------------------------
(***************************************************************************)
(* The breakpoints that step_over and step_out set for the length of one   *)
(* command (src/minidbg.cpp), beside the ones the user keeps.              *)
(*                                                                         *)
(* step_over plants one at every row of the function's line table, in the  *)
(* table's order, and one at the return address; step_out only the last.   *)
(* Both skip an address that has a breakpoint already, let the debuggee    *)
(* run, and then remove what they planted, first in first out.  Rows may   *)
(* be closer than the word a breakpoint saves, so temporaries overlap each *)
(* other and the user's breakpoints.  The debuggee appears only as the     *)
(* choice of the address it is stopped at.                                 *)
(*                                                                         *)
(* The properties are those of x86-64 (KeepsRest).  On aarch64 saved words *)
(* hold zeroed instructions, and what is removed first in first out leaves *)
(* them behind.                                                            *)
(***************************************************************************)
EXTENDS Breakpoints, Sequences

CONSTANTS UserSites,   \* where the user sets breakpoints
          Rows,        \* the addresses of a function's line table rows
          Returns      \* the return addresses its frames hold

ASSUME TemporariesAssumption == UserSites \union Rows \union Returns \subseteq Sites

VARIABLES phase,       \* where the current command is
          to_delete    \* the temporaries it has planted and not yet removed

table_vars == <<mem, m_breakpoints, image>>
tvars == <<mem, m_breakpoints, image, phase, to_delete>>

Phases == {"prompt", "plant", "resume", "lifted", "run", "cleanup"}

Temporaries == {to_delete[i] : i \in DOMAIN to_delete}

TInit == Init /\ phase = "prompt" /\ to_delete = <<>>

(* The user sets a breakpoint where there is none. *)
Break(a) == /\ phase = "prompt"
            /\ SetNewBreakpoint(a)
            /\ UNCHANGED <<phase, to_delete>>

(* step_over or step_out is called, or continue_execution on its own.      *)
BeginPlanting == /\ phase = "prompt"
                 /\ phase' = "plant"
                 /\ UNCHANGED <<table_vars, to_delete>>

BeginContinue == /\ phase = "prompt"
                 /\ phase' = "resume"
                 /\ UNCHANGED <<table_vars, to_delete>>

\* Mutants: rows taken in any order; the row of the return address planted
\* over the breakpoint that is there.
PlantRowInAnyOrder(a) == /\ phase = "plant"
                         /\ SetNewBreakpoint(a)
                         /\ to_delete' = Append(to_delete, a)
                         /\ UNCHANGED phase
PlantReturnUnchecked(r) == /\ phase = "plant"
                           /\ SetBreakpointAtAddress(r)
                           /\ to_delete' = Append(to_delete, r)
                           /\ phase' = "resume"

(* One turn of step_over's loop over the rows, which come in ascending     *)
(* order; the row stopped at and rows with a breakpoint are passed over.   *)
PlantRow(a) == /\ phase = "plant"
               /\ \A t \in Temporaries : t < a
               /\ SetNewBreakpoint(a)
               /\ to_delete' = Append(to_delete, a)
               /\ UNCHANGED phase

PlantReturn(r) == /\ phase = "plant"
                  /\ IF InTable(r)
                       THEN UNCHANGED <<table_vars, to_delete>>
                       ELSE /\ SetBreakpointAtAddress(r)
                            /\ to_delete' = Append(to_delete, r)
                  /\ phase' = "resume"

(* step_over_breakpoint at the address a the debuggee is stopped at, from  *)
(* continue_execution or from a single step.                               *)
Lift(a) == /\ phase \in {"resume", "prompt"}
           /\ StepOverDisable(a)
           /\ phase' = "lifted"
           /\ UNCHANGED to_delete

Replant(a) == /\ phase = "lifted"
              /\ StepOverEnable(a)
              /\ \/ phase' = "run"
                 \/ to_delete = <<>> /\ phase' = "prompt"
              /\ UNCHANGED to_delete

(* PTRACE_CONT with no breakpoint at the debuggee's address. *)
Continue == /\ phase = "resume"
            /\ phase' = "run"
            /\ UNCHANGED <<table_vars, to_delete>>

Stop == /\ phase = "run"
        /\ phase' = "cleanup"
        /\ UNCHANGED <<table_vars, to_delete>>

\* Mutant: the entry is dropped from the list and left in the table.
RemoveTemporarySkipped == /\ phase = "cleanup"
                          /\ to_delete # <<>>
                          /\ to_delete' = Tail(to_delete)
                          /\ UNCHANGED <<table_vars, phase>>

RemoveTemporary == /\ phase = "cleanup"
                   /\ to_delete # <<>>
                   /\ RemoveBreakpoint(Head(to_delete))
                   /\ to_delete' = Tail(to_delete)
                   /\ UNCHANGED phase

Return == /\ phase = "cleanup"
          /\ to_delete = <<>>
          /\ phase' = "prompt"
          /\ UNCHANGED <<table_vars, to_delete>>

TNext == \/ \E a \in UserSites : Break(a)
         \/ BeginPlanting
         \/ BeginContinue
         \/ \E a \in Rows : PlantRow(a)
         \/ \E r \in Returns : PlantReturn(r)
         \/ \E a \in Sites : Lift(a) \/ Replant(a)
         \/ Continue
         \/ Stop
         \/ RemoveTemporary
         \/ Return

TSpec == TInit /\ [][TNext]_tvars

-------------------------------------------------------------------------------
TTypeOK == /\ TypeOK
           /\ phase \in Phases
           /\ to_delete \in Seq(Sites)

(* The user's breakpoints are a word apart ...                             *)
UserSpaced == \A a, b \in UserSites : a # b => Window(a) \intersect Window(b) = {}

(* ... and no row lies within the word at the return address, which is     *)
(* planted last, but the return address itself.                            *)
ReturnsClear == \A r \in Returns, a \in Rows : a \in Window(r) => a = r

(* When a command is over its temporaries are gone from the table, and     *)
(* memory is the program's own but for the user's breakpoints: on x86-64   *)
(* step_over and step_out leave no trace, however close the rows are.      *)
LeavesNoTrace ==
    phase = "prompt" =>
        /\ DOMAIN m_breakpoints \subseteq UserSites
        /\ TrapsAreExact

(* While the debuggee runs every breakpoint of the table is in effect, so  *)
(* that `next` cannot run past a row and `cont` cannot miss a breakpoint.  *)
ArmedWhileRunning == phase = "run" => \A a \in DOMAIN m_breakpoints : mem[a] = Trap

-------------------------------------------------------------------------------
(* The inductive invariant behind LeavesNoTrace.  Settled is memory as it  *)
(* was before the command: the program with the user's traps.              *)
UserTable == DOMAIN m_breakpoints \ Temporaries
Settled(c) == IF c \in UserTable THEN Trap ELSE image[c]

TemporariesAreListed ==
    /\ Temporaries \subseteq DOMAIN m_breakpoints
    /\ UserTable \subseteq UserSites
    /\ \A i, j \in DOMAIN to_delete : to_delete[i] = to_delete[j] => i = j

PhaseIsRight ==
    /\ phase = "prompt" => to_delete = <<>>
    /\ phase = "plant" => Temporaries \subseteq Rows
    /\ phase # "lifted" => AtRest
    /\ \A a, b \in DOMAIN m_breakpoints : ~IsEnabled(a) /\ ~IsEnabled(b) => a = b

(* Memory differs from Settled only where a temporary stands and beneath   *)
(* the one breakpoint that is lifted.                                      *)
MemoryIsAccounted ==
    /\ \A c \in Addr : \/ mem[c] = image[c]
                       \/ mem[c] = Trap /\ InTable(c)
    /\ \A c \in UserTable : IsEnabled(c) => mem[c] = Trap

(* What a temporary saved is Settled, what a user's breakpoint saved is    *)
(* the program, and a lifted breakpoint's word is in memory.               *)
StagingIsSettled ==
    /\ \A t \in Temporaries : \A c \in Window(t) :
           m_breakpoints[t].staging_data[c] = Settled(c)
    /\ \A u \in UserTable : \A c \in Window(u) :
           m_breakpoints[u].staging_data[c] = image[c]
    /\ \A b \in DOMAIN m_breakpoints : ~IsEnabled(b) =>
           \A c \in Window(b) : mem[c] = m_breakpoints[b].staging_data[c]

TInv == /\ TTypeOK
        /\ TemporariesAreListed
        /\ PhaseIsRight
        /\ MemoryIsAccounted
        /\ StagingIsSettled
===============================================================================
