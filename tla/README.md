# minigdb in TLA+

minigdb is a small source-level debugger for Linux (x86-64 and aarch64): a
read-eval loop over `ptrace`, and a DWARF and ELF reader beneath it. Execution
control is modelled, and promised to be right, on x86-64 only: what a breakpoint does on
aarch64 is a case of `Breakpoints` (`KeepsRest` is FALSE) of which the promise does not hold. This
directory holds TLA+ models of it, the TLC configurations that check them on
small instances, and proofs that TLAPS checks. Paths below are relative to the
repository's root.

## The system

| Component | Code | State it keeps | Modelled |
|---|---|---|---|
| software breakpoints | `include/breakpoint.hpp`, `set_breakpoint_at_address` .. `step_over_breakpoint` of `src/minidbg.cpp` | the table `m_breakpoints`; per breakpoint the word saved at its address and whether it is enabled; the debuggee's memory | `Breakpoints`, `PlantedSet` |
| temporary breakpoints | `step_over`, `step_out` | the list `to_delete` of one command | `TemporaryBreakpoints` |
| execution control | `handle_command`, `continue_execution`, `wait_for_signal`, `handle_sigtrap`, `step_in`, `stepi` | where the debuggee is and why it stopped; where the debugger is in its command | `Debugger`, over `Program` |
| line tables | `src/dwarf/line.cpp` | per table the file names; per iterator the registers of the line number machine | `LineProgram`, `LineTable` |
| breakpoint locations | `set_breakpoint_at_function`, `set_breakpoint_at_source_line` | none | `DieTrees` |
| function lookup | `find_pc`, `get_function_from_pc`, `get_line_entry_from_pc` | none | `DieTrees`; `Debugger` has an abstraction |
| inspection commands | `read_variables`, `print_backtrace`, `lookup_symbol`, `memory`, `register` | none | partly: `DieTrees`, `ElfFile`, memory write in `Breakpoints` |
| DWARF expressions | `src/dwarf/expr.cpp` | per activation the cursor, the stack and the kind of the result | `DwarfExpr`, `ExprTree` |
| small vector | `include/dwarf/small_vector.hpp` | a buffer of its own or a block of the heap | `SmallVector`, `SequenceVectors` |
| DIE tree | `src/dwarf/die.cpp` | an iterator's DIE | `Dies`, `DieTrees`, `DieDocuments` |
| DIE string map | `src/dwarf/die_str_map.cpp` | a position among the children, an index of those passed | `DieTrees` |
| cursors and sections | `src/dwarf/cursor.cpp`, `include/dwarf/internal.hpp` | a position in a section | `Cursor`, `Dies` |
| units, abbreviations, caches | `src/dwarf/dwarf.cpp`, `abbrev.cpp` | units, type units, abbreviations, roots, line tables, read on first use | `Dies` (what is read), `UnitCaches`, `DwarfFiles` (what is kept) |
| range and location lists | `src/dwarf/rangelist.cpp`, `loclist.cpp` | a position and a base address | `DieTrees` |
| attribute values | `src/dwarf/value.cpp`, `attrs.cpp`, `semantic.cpp` | none | partly: `Dies`, `DieTrees` |
| ELF files | `src/elf/elf.cpp`, `mmap_loader.cpp`, `src/dwarf/elf.cpp` | the mapped file, section and segment headers, names looked up | `ElfFile`, `ElfImages` |
| line editor | `src/linenoise.c`, and `debugger::run` that calls it | the line, the cursor, the history on the heap, the terminal's mode | `LineEditor` |
| command line | `split`, `is_prefix`, `handle_command` | none | partly: `run`'s loop in `LineEditor` |
| register access | `include/register.hpp` and its two architectures | none | not: a table and two system calls (`Rollback` in `Debugger` apart) |
| names and encodings | `to_string.cpp`, `data.hpp`, `hex` | none | partly: the numbers, in `DwarfCodes` |
| tools, tests, build | `tool/`, `test/`, `CMakeLists.txt` | none | not |

**How they interact.** The debugger has one thread and one debuggee. `run` reads a
line with the line editor and hands it to `handle_command`. A command
looks addresses up in the DWARF reader (units, then the tree of one, then its line
table), plants and clears breakpoints through `PTRACE_PEEKDATA`/`POKEDATA`, tells
the debuggee to go on with `PTRACE_CONT` or `PTRACE_SINGLESTEP`, and blocks in
`waitpid`. The debuggee then runs, traps, gets a signal or exits, and
`wait_for_signal` finds out which. The DWARF reader gets its sections from the ELF
reader, which maps the file. A variable's location is an expression; its evaluator
asks the tree which function the expression is in, and that function's frame base
may be another expression or a location list. Lookups report failure by exceptions,
and in the debugger nothing but `find_pc` catches them: it dies where it stands.

**What is hard.** (1) A breakpoint saves eight bytes to overwrite one (on aarch64
four, and zeroes the others), so breakpoints closer than that share memory, and saved
words go stale. (2) One
breakpoint is lifted while the debuggee runs an instruction. (3) `next` plants
many breakpoints, some beside the user's, and must take away its own and
nothing else. (4) What the debuggee does between two stops: traps, calls,
recursion, signals, exit. (5) A lookup that throws half-way through a command.
(6) The line table is a program that is run again by every lookup and that
changes the file table as it runs. (7) The tree of DIEs is nowhere in memory: it
is found again in the bytes by every walk, and ends of subtrees, references, sizes
of attributes and bases of ranges all have to be right for the next one to be. (8)
Caches that are filled lazily, by requests that may throw half-way. (9) Pointers to
the heap in the line editor and the small vector, with several ways out.

**What makes each part correct.** Breakpoints: memory is the program with traps
at exactly the enabled breakpoints. Temporaries: a command leaves no trace, and
all its breakpoints are in effect while it runs. Execution control: the instructions
that the debuggee executes are those it would execute with nobody attached; it stops where there is a breakpoint
and never runs past one; commands come back, `finish` in the caller and `next`
no deeper than it began. Line tables: rows are what the program describes,
lookups return the row that holds the address, each file is added once.
Expressions: the value the standard's definition gives, or an exception; operands
read within the code; an end. DIE tree: a walk sees the tree that was encoded,
however it was; lookups answer what the program has; the string map finds what a
search would. Caches: what is answered does not depend on what was asked before,
nor on what of it threw. ELF: what a file says in either class and byte order,
or a refusal. Small vector: a sequence, one owner for each block. Line editor: each
history entry freed once, the screen shows the line, the line typed is not lost.

## Modules

`PlantedSet` is the abstract specification of a breakpoint table: a set of
planted addresses and the program's own memory beneath them.

`Breakpoints` is the table as coded. `mem` is the debuggee's memory in cells the
size of the trap instruction; `Word` is how many cells `PTRACE_POKEDATA` writes
(8 on x86-64, 2 on aarch64). `KeepsRest` is whether the mask that puts the trap into the
saved word keeps its other cells: on x86-64 it does, on aarch64 `~0xffffffff`
(`breakpoint.hpp:72`) is 0 and they become `Zero`. `m_breakpoints` maps an address to `staging_data` and
`enabled`. Actions: `SetBreakpointAtAddress`, `RemoveBreakpoint`,
`StepOverDisable` and `StepOverEnable` (`step_over_breakpoint` around its single
step) and `WriteMemory`. The history variable `image` is memory as the program
and the writes made it. `Spec` lets a breakpoint be set again, as the `break`
command does; in `CarefulSpec` callers look in the table first, as `next` and
`finish` do.

`TemporaryBreakpoints` extends it with the commands that plant breakpoints for
their own duration: `PlantRow` (one turn of `step_over`'s loop, rows ascending),
`PlantReturn`, `Lift` and `Replant`, `Continue`, `Stop`, `RemoveTemporary`.

`Program` is the debuggee, external code: control flow, open calls, and which of
them have a frame the frame pointer points at. `WellFormed` is what the debugger takes
for granted of it: control stays among its instructions, and the code outside every
call (`StartUp`) neither returns nor has a frame.

`LineTable` defines `FindAddress` on a sequence of rows, as `find_address`'s loop
computes it. `LineProgram` is the machine that produces the rows: registers,
opcodes, walks by `find_address` and `get_file`, the shared file table and its
growth. `RowAt` is an independent reference: what a row is, from the opcodes of
its sequence, without running them.

`Debugger` composes `Breakpoints`, `Program` and `LineTable`. `phase` is where
the one thread is (`plant`, `resume`, `over`, `wait`, `cleanup`, `loop`, ...),
`mode` whether the debuggee is stopped, running or stepping, `siginfo` why it
stopped. A trap leaves `pc` behind the trap instruction and `wait_for_signal`
winds it back by `Rollback`, which is 1: the module is about x86-64, as are
`ReturnAddress` (on aarch64 `FRAME_POINTER` is the stack pointer, and `finish` reads an
arbitrary word) and its instance of `Breakpoints` (`KeepsRest`). The debuggee executes
what memory holds: a trap, or the instruction if all its cells are there (`Intact`); with
any other content it is lost, and goes to `Exited` as no program of its own would (unless
it ends there). `dead` is an exception nobody catches, `gone` the
debuggee's end. A recording of where the command began (`began`, `moved`) is
history. `Repeats` says whether the user sets a breakpoint where there is one, which
`break` does not refuse: `DebuggerCommands` leaves it out (`cont` and `step` stay at
such a breakpoint), `DebuggerRecursion` does not. `Garbage` is the word `finish`
reads as a return address before any function has a frame; it is taken to be a
mapped address. `next` passes over the row it is stopped at (`StartLine`) unless that
is also the return address, the last it plants.

`Cursor` defines how integers are read out of a section's bytes: a value, or
underflow, and the offset behind it. `DwarfExpr` is `expr::evaluate` byte by byte,
one action per group of operations, with the opcodes' numbers from `data.hpp`.
`frames` are the activations of `evaluate`: `fbreg` evaluates a frame base in a new
one (`FindFrameBase`) and reads its own operand when that has ended (`UseFrameBase`).
Words have `WordBits` bits. `ExprTree` is a reference that does not know the machine:
expressions as trees, their values, and their bytecode as a compiler emits it.
The frame base of an expression is an input here (`base`: one of `FrameBases`, which
may have one of its own) and an answer in `DieTrees`. The trees of the run keep clear of the evaluator's departures (below);
the raw byte sequences do not, `pick` excepted.

`SmallVector` is `dwarf::small_vector` with its storage: `cells` holds what each
vector's own buffer and each block of the heap contain, `vec` each vector's base, size
and capacity. Every member function that changes a vector is an action, the copy and
move constructors and self-assignment among them; `PushOwn` is
`push_back(back())`, whose argument is a reference into the vector. `SequenceVectors`
is what it implements: sequences that do not know of each other. Operations that several
member functions share act on a store, a record of `vec` and `cells` (`Filled`,
`Written`, `Reserved`, ...), so that each has one lemma. `own` marks the steps that
push an element of the vector itself, so that the refinement tells them from others.

`DwarfCodes` has the numbers of `data.hpp`, as far as readers tell them apart, and
`resolve_type`. `Dies` reads DIEs out of bytes: subsections and units,
abbreviations, forms and their sizes (`SkipForm`), DIEs (`ReadDie`), and the accessors
of values. A DIE is not state: it is read again wherever the code reads it, and what
throws is a result that is not `ok`. `DieTrees` is what is built from that: iterators
(`Begin`, `Incremented`), ranges and location lists, `FindPc`,
`GetFunctionFromPc`, `FrameBase`, the commands' questions (`ReadVariables`,
`PrintBacktrace`, `FunctionBreakpoints`, `LineBreakpoints`), inherited attributes and
the string map (`Indexed`). Its actions are an iterator's moves, the map's lookups and
one action for each kind of question. `DieDocuments` is the reference: a program's debugging information as
a tree of nodes with sets of addresses, and the bytes a compiler encodes it in; it knows
nothing of how they are read. Data that no property tells apart is left out: line
programs (`LineProgram` has them), so a unit's rows are given.

`UnitCaches` is about when rather than what: per unit the abbreviations (in a vector or a
map), the root, the type and the line table, for the file the sections and
type units. Requests come in any order, any number of times. `DwarfFiles` is the reference: files,
what one says in answer to a request, and `torn`, the units whose root or type threw when it
was asked for.

`ElfFile` opens an image and answers for its sections, segments, names, symbols and the
sections DWARF asks for; headers are copied field by field from either class and byte
order. `ElfImages` is the reference: images, the bytes a linker writes for one, and what it
takes for an image to make sense, or to have a defect of a kind (`WellFormed`).

`LineEditor` is `run`'s loop and `linenoise` as it calls it. `heap` and `history` are
the history's pointers; `buf`, `pos` and `history_index` the line that is edited;
`screen` what the terminal shows behind the prompt, or `Garbled` once a byte was
written that does not take one column (`Printable` are those that do: not Tab, which is
typed as a letter is since there is no completion, not a control character, and not a byte of a
longer character). `draft` is reference: the line as the user left it for
the history. One action is one key (`ControlKey` for a control character and for the
escape sequence of the same meaning alike), a line read without a terminal (from
`Inputs`), the end of the input, a command that is done or that throws. The locals of
`linenoise` start empty for every line (`NoLine`).

`MC*` modules give constants their values; `*_proof` modules hold the theorems.
Operators marked as mutants are plausible mistakes in the definition that
follows them; the model does not use them, they serve to try whether a property
would notice.

## Runs

| Run | Asks | Answer |
|---|---|---|
| `BreakpointsSpaced` | Word 8 (x86-64), three sites 8 and 9 cells apart, a memory write beside them | exact traps, implements `PlantedSet` |
| `TemporariesClose` | x86-64's mask, Word 3, rows 5, 6, 8, 9, user's breakpoints 3, 6, 9, returns 2, 9, 11 | no trace is left; the inductive invariant `TInv` in between |
| `DebuggerCommands` | two functions, rows a word apart, three user sites, one signal, every command | the debuggee executes its own instructions in order, stops explained, no breakpoint missed, commands return, implements `TemporaryBreakpoints` |
| `DebuggerRecursion` | load address not 0, recursion to depth 3, Word 4 over rows 2 apart, breakpoints set again | its own instructions in order, clean at the prompt, stops explained; in memory its own cells or a trap at a site, never anything else |
| `LineTables` | two walks over every program of up to three opcodes out of 14, and of five out of smaller alphabets, two operations an instruction | rows are the reference's, lookups are `FindAddress`, files added once, `get_file` finds all |
| `LineLastRow` | lookups near the table's end | **violated**: the last row is not found |
| `Expressions` | trees of every operation but `div` and the comparisons other than `le`, nested in conditionals, loops, swaps and rotations; all sequences of up to three bytes out of ten; three kinds of frame base | a tree's code evaluates to its value, operands stay in the code, evaluations end |
| `SmallVectors` | two vectors that outgrow a buffer of two and then a block | each block has one owner, the vectors are sequences |
| `LineEditing` | every key, lines of up to three characters on a row of three, a history of two, four kinds of input, a Nul for the bytes that take no column | history entries are owned once, the draft survives, the row shows what is in sight of a line, if that is legible, and is right again behind a byte that garbled it |
| `DieTrees` | one program in 36 encodings | walks see the tree, lookups and commands answer what the program has, the string map what a search finds |
| `UnitCaches` | twelve units beside a good one, four sets of type units, sections present or not, any requests | answers are what the file says, except of a unit whose DIE threw while it was read |
| `ElfFiles` | an image in both classes and byte orders, and with eleven defects | answers are the image's, or the file is refused |

The violated property says what a comment of the repository says; the
counterexample is listed as a finding in `PROJECT.json`.

**Bounds and why they are enough.** Overlap between breakpoints is decided by
distance against `Word`; with Word 3 the addresses of `TemporariesClose` stand at
distances 1, 2, 3 and more on both sides, the user's among the rows and the return
addresses below, among and above them, and `DebuggerRecursion` adds breakpoints set
again under a Word of 4, over rows one and two cells apart. Removal in any order, which no
command does, and any overlap are proved
(`OnlyTrapsAreForeign`). Two cell values tell a cell from its neighbours. Program depth 3 gives recursion with a frame
below and above the one a command began in. One signal (`MaxSignals`) hits every
point where the debuggee can be stopped. Line programs of three opcodes try every opcode between two
rows; those of five, over the opcodes that advance the address and over those that
define files, hold a register opcode, a row, another and another row, and two
definitions of a file with rows between them. `MaxWalks` 2 is a walk that stops
anywhere and one that meets what it left. `Lines` 8 makes the line register wrap.
Ten-bit words are wider than one LEB128 byte or one constant byte and narrower than
two, so that both sign extensions and truncation happen, and small enough for shifts
by more than a word. Three bytes hold an opcode with its longest operand, or one cut
off behind an operation. Trees two levels deep put a conditional, a loop or a frame
base under every operation that moves the stack. `MaxDepth` makes a
call at the bound fall through, as a recursion that ends would.

`SmallVectors`: `MinCap` 2 and `MaxLen` 5 are a buffer, a block and a second block; two
vectors hold at most two blocks, and a third is allocated before one is given back.
Vectors and values are interchangeable (`Symmetry`); the properties are safety
properties that name none. `LineEditing`: a history of two overflows while the newest entry stands for the
line being edited (an entry that is neither the oldest nor the newest is left to the
proofs, which are of any history); four blocks are the history, the line executed and one
in between; a row of three columns shows a line of three
characters scrolled, and lets a character be written behind one that garbled the row. The
characters are a letter, the space that ends words and the Nul that
Ctrl-Space types; lines without a terminal are empty, short, longer than a buffer or hold a Nul. `DieTrees`: words have 16 bits, so an address size of 2 is the full width and 1 is
less. The encodings vary the form of names and of `high_pc` (also as a
distance), siblings, a pair of addresses or a list with a base selection, the
32- and 64-bit format, address sizes and the place of a unit without code; the
program has nested blocks, an inlined function, a declaration and its definition in another
unit, references of every form, a type unit, bounds that refer to themselves, variables in
registers, in the frame and where neither can be found. Every address at a boundary of a
function is asked about, and one to either side. `UnitCaches`: the depth of the graph is
what it takes to ask for everything. `ElfFiles`: names of which one is the end of another,
sections with the same name as none, a file refused at every check that `elf::elf` makes.

**Fairness.** `Debugger!Spec` assumes weak fairness of `Execute` (the kernel runs
a debuggee that was told to go) and of `Inside` (the debugger, given a command,
runs until it blocks). Nothing is assumed of the user or of signals. The debuggee's
branches are not fair: a loop of its own is not the debugger's to end, and the
programs of the runs have none. `DwarfExpr!Spec` assumes weak fairness of `Next`:
`evaluate` is a sequential loop that waits for nothing. No other liveness is claimed.

**Where the system may stop.** `CHECK_DEADLOCK FALSE` is set for the line table
runs, where a table is read as often as `MaxWalks` says and then no more, for
`Expressions`, where an evaluation ends, and for `DieTrees` and `ElfFiles`, where a
walk ends and a question that keeps nothing is asked once.

## Where the code departs from what it promises

Modelled as coded; the runs say where the model goes through them.

- *aarch64.* A breakpoint zeroes the instruction behind it: `~0xffffffff` is the
  complement of a number of 32 unsigned bits (`breakpoint.hpp:72`). `next`, whose rows are often adjacent, saves such zeroes and,
  removing first in first out, leaves them behind; `README.md:36-43` shows how it ends, and
  also the breakpoint at 0x4: `FRAME_POINTER` is the stack pointer, and what it reads there as
  a return address any word. `Debugger` is about x86-64 for these reasons.
- *Signals.* A signal is printed and never passed on (`minidbg.cpp:449`): the debuggee goes
  on as if there had been none. `Transparent` compares it with a run without signals.
- *Breakpoints.* `break` at an address that has a breakpoint saves its trap as the
  program's instruction (`minidbg.cpp:628`); the instruction cannot be executed any more, and the
  debuggee is held there. A trap within an instruction changes what that does
  (`BreaksAtInstructions`). `next` loses a row less than a word above the
  breakpoint it starts from (`:430`), and leaves a trap behind if the return address is
  less than a word below a row (`:315`): the hypotheses `UserSpaced` and
  `ReturnsClear` of the proofs. `stepi` looks its line up with the load address
  still in it (`:584`), and dies in a position-independent program.
- *Line tables.* The last row is not found (`line.cpp:154`, `LineLastRow`). A row's pointer to its
  file dangles when a `define_file` moves the table (`:265`; not modelled).
- *Expressions.* `div` divides the wrong way round; every comparison is `<=`
  (`expr.cpp:355`); `shra` rounds towards zero, and an over-shift of a negative value
  gives 0; `pick` may read one entry below the stack; `implicit_value` executes its
  block; `deref_size` ignores its size and adds the load address to every address;
  `dup`, `over` and `pick` on a stack that fills a block push whatever the heap left there (`PushOwn`).
- *Trees.* `contains_section_offset` compares an offset in the section with one in the unit
  and looks one level down (`die.cpp:155`): an `fbreg` in another unit than the first or
  two blocks deep finds no function, and its operand is executed. A unit without code ends
  every lookup that comes to it (`minidbg.cpp:357`). The string map never has the first child, and of children with one name
  it keeps the one that was indexed last (`die_str_map.cpp:87`). The attribute of an `indirect`
  form can be typed but not read. A location list's offset is read with four bytes in either format.
  A `ref8` cannot be skipped (`cursor.cpp:177`). A slice of a section reaches behind its end.
- *Caches.* A root that threw while it was read is valid from then on, with the attributes it has; reading
  one behind them is reading past the vector (`garbage` in `UnitCaches`).
- *Prompt.* An empty line takes the first of no words (`minidbg.cpp:512`), which may end the debugger
  (`CommandFails`). A lone Escape swallows the next two keys. A recalled line as long as a line
  can be loses its last character. The cursor and the row are wrong with Tab, control characters
  and characters of several bytes, each byte being counted as a column (`linenoise.c:549`, `:731`).
  On a terminal no wider than the prompt the lengths there wrap below zero and the
  refresh reads out of the buffer: not modelled, nor that a terminal changes its width
  within a line, nor that some erase the last column of a full row with what is behind it.
- *ELF.* A section's link has four bytes in the file and two in memory (`data.hpp:238`, `LinkOf`).
- *Not modelled for being as it should be in the runs' files.* An address size other than 1, 2, 4
  and 8 throws at `DW_OP_addr` (`internal.hpp:230`); `DwarfExprAssumption` excludes it.

## Proofs

`NumberTheorems` holds what all proofs share about numbers: least and greatest
elements (the least counterexample stands in for induction), functions that are
sums along an interval, remainders, powers of two. Everything here is checked by
TLAPS for all values of the constants that satisfy the module's assumptions: of the
breakpoints, `BreakpointsAssumption` (every site's word lies in memory, the program
contains no trap instruction of its own) and `TemporariesAssumption`; of the line editor,
`LineEditorAssumption` and `HeapAssumption` (an allocation succeeds); of the others as
said below.

`TemporaryBreakpoints_proof`, first part, of `Breakpoints` alone (nothing of
`TemporaryBreakpoints` is used):
- `TypeCorrect`: `Spec => []TypeOK`.
- `OnlyTrapsAreForeign`: without memory writes, `Spec => []NoForeignCells`, for
  any overlap, where the mask keeps the rest of the word (`KeepsRest`, x86-64). (All theorems
  about what memory holds have this hypothesis; on aarch64 they are false.) Inductive with `StagingIsAccounted`: a saved word holds program
  cells or traps because memory did when it was saved.
- `SpacedTrapsAreExact`: if also words do not overlap (`Spaced`),
  `CarefulSpec => []TrapsAreExact`. `TrapsAreExact` alone is not inductive, since
  `disable` writes back what was saved; the invariant `IInv` adds that every
  saved word is the program's (`StagingIsImage`).
- `SpacedTableIsASet`: under the same conditions `CarefulSpec` implements
  `PlantedSet!Spec`, step by step, with the saved words as the memory beneath.
- `DisableUndoesEnable` is the lemma under all of it.

`TemporaryBreakpoints_proof`, second part:
- `StepsLeaveNoTrace`: `next` and `finish` leave memory and table as they found
  them **however close the rows are**, if the user's breakpoints are a word apart
  (`UserSpaced`) and no row but the return address itself lies within the word at
  a return address (`ReturnsClear`). The surprise is that first-in-first-out
  removal is right: rows ascend, so each temporary's saved word holds above it
  only what was there before the command. `TInv` says so: a temporary saved
  memory as it was settled before the command (`StagingIsSettled`), and memory
  differs from that only where temporaries stand (`MemoryIsAccounted`).
- `TemporariesAreAccounted`: `TInv` itself, under the same hypotheses; its first part, the
  type invariant, of every instance (`TemporariesTypeCorrect`).
- `SpacedStepsAreArmed`: with all addresses a word apart every breakpoint is in
  effect while the debuggee runs.

`LineEditor_proof`, for any alphabet, history, buffer and row:
- `LineEditorTypeCorrect`, `BlocksHaveOwners`, `DraftsOutliveWalks`: the type invariant,
  `HistoryIsOwned` and `DraftIsKept`. The inductive invariant `IInv` says who owns a
  block of any store (`Owned`), so that each operation on the history has one
  lemma (`AddedOwned`, `PoppedOwned`, `SavedOwned`, ...), and where the draft is:
  in the buffer while the newest entry stands for it, in that entry while another is
  shown (`DraftIsStored`). A key leaves a line with a cursor in it (`EditedFacts`,
  `InsertedFacts`, `RecalledFacts`).
- `RowShowsLine`: `ScreenShowsBuffer`. A refresh shows a window of the line, which either
  ends at the cursor or is the line's head; the shortcut that only writes
  a character at the end of a line that fits leaves the row as a refresh would (`TypedShows`).
  It speaks of windows with characters of one column only (`Legible`), and `Columns` is at
  least 1: the terminal is wider than the prompt.

`Debugger_proof`, for every program, line table, set of functions and load address, on
x86-64. `DebuggerAssumption`, `MemoryAssumption` and `ProgramAssumption` say that
the program is well formed and in memory; `SitesAssumption` that a word fits at every
row and return address, `Garbage` among them.
- `DebuggerTypeCorrect` and `DebuggeeIsUndisturbed`: `TypeOK`, and that the instructions the
  debuggee executes are the program's, in its order (`Transparent`), if breakpoints are asked for
  only where instructions begin (`BreaksAtInstructions`). It holds of overlapping
  and repeated breakpoints and of any table, and it is about memory: the debuggee executes what is
  there, and is lost if that is not a whole instruction of the program. So the argument needs
  `CellsAreTheProgram`, the theorem that `NoForeignCells` holds through all commands (it is
  `OnlyTrapsAreForeign`, of the table the commands drive): at `pc` there
  is then a trap, which stops, or the program's own cell, and no other cell of an instruction is
  a site (`NeverLost`). A trap is wound back by exactly what it moved `pc`. What `Transparent` does
  not say is that the debuggee gets on, nor that signals reach it. The inductive invariant `Controlled` is `TypeOK` with
  `ControlIsRight` (which `mode`, `siginfo`, command and lifted breakpoint go with which
  `phase`) and with where a well-formed program can be (`Program!Located`).
- `CommandsImplementTemporaries`: `Debugger!Spec` implements `TemporaryBreakpoints!TSpec`,
  step by step, if the user sets no breakpoint twice (`~Repeats`) and rows ascend
  within a sequence of the line table, in which each function lies (`RowsAscend`, what
  compilers write). It needs `TodoIsRight`: rows yet to be planted are not below
  those planted. Repeats are left out as the table's own theorems do not hold of them.
- `NextAndFinishLeaveNoTrace`, `TrapsAreBreakpoints`, `ContinuingProgresses`: with
  `UserSpaced` and `ReturnsClear` too, `PromptIsClean`, `StopsAreExplained` and
  `ContinueMakesProgress`. They follow from the refinement and `TInv` of
  `TemporaryBreakpoints_proof`, which is instantiated (`T`), and, for the last,
  `ProgressIsNear`: until an instruction has run, the next one is no trap.
- `BreakpointsAreHit`: with all addresses a word apart (`Spaced`) the action property
  `NoBreakpointMissed`.

- Where `finish` and `next` stop:
  `FinishStopsInCaller` and `NextStopsInFrame` are `FinishReturns` and `NextStaysInFrame`, if
  all addresses are a word apart (`Spaced`, with `RowsAscend` and `~Repeats` as above), each
  function begins with a row (`FunctionsBeginRows`) and the program has no recursion
  (`CallsNest`: functions can be put on levels so that calls only go up; an instruction
  belongs to the function whose range it is in). With recursion `finish` does stop in an
  inner activation, since its one breakpoint is hit there first; `MCProgramAssumption`
  checks the hypotheses of the instance that TLC runs.
- The argument: open calls return to ever higher levels (`CallsRise`), so while the frame of
  the command is open everything deeper runs above `FrameLevel`, where no temporary stands
  (`NotAbove`); the frame is left by one return only, to an address in the table
  (`FrameIsOpen`, `FrameIsLeft`), and there the trap is in effect (`ArmedWhileRunning`).
  `FrameIsKept` says so for each phase of a command. It is the whole of `TemporaryBreakpoints`,
  the transparency and the call discipline put together: leave one out and the
  properties fail.

`LineProgram_proof`, for any header, alphabet and set of programs that satisfies
`LineProgramAssumption` (operands are unsigned but for `advance_line`'s):
- `LineProgramTypeCorrect`: `TypeOK`, with the arithmetic of `op_index` and of the line
  register that wraps.
- `FilesJoinOnce` and `FilesAreFound`: `FilesAreAddedOnce` and `FileIsFound`. The second
  needs `FilesAreCounted`: the table is as long as the files read of the program make it,
  so an index beyond it, at the program's end, is of no file.
- `IteratorsAreStandard`: `RowsAreStandard`, the machine against a reference that looks a
  register up in the opcodes of its sequence: the last that set it, how often it was
  negated, what was added since. The inductive invariant says the same of the registers
  between rows (`RegistersAreStandard`); one opcode moves both sides alike (`FieldsStep`),
  and behind a row and a sequence they start anew (`FieldsBehind`, `FieldsReset`).
  `op_index` wraps at each opcode and the reference counts operations in all, which is the
  same as remainders may be taken early.
- `WalkFindsTheAddress`: `WalkIsFindAddress`. No row that the walk has passed is one it
  should have stopped at (`WalkIsRight`), and the row before the one it looks at is the
  row numbered one less, since no opcode between them adds one (`NumberFacts`).

`SmallVector_proof`, for any number of vectors, values, blocks and elements:
- `SmallVectorTypeCorrect`, `BlocksHaveOneOwner`: `TypeOK`, `BlocksAreOwnedOnce`.
- `VectorsAreSequences`: `SmallVector` implements `SequenceVectors`, with the elements
  that `Seqs` reads out of the storage.
- The inductive invariant `StorageIsSound` speaks of any store, as it has to hold in
  the middle of an action too. It adds to ownership that a cell holds an element exactly
  below the vector's end, that a vector outside its buffer has a block doubled from it,
  and that it leaves the buffer as a new vector finds it. That a block is free when one
  is needed is counted: fewer vectors than blocks (`SmallVectorAssumption`) cannot
  own them all. That doubling arrives between n and 2n is a fact about powers of two,
  derived from the number of subsets of an interval.

`Files_proof`, first part, of every image that is `WellFormed` (`ElfFileAssumption`): any
number of sections, segments and symbols, any names, types and values, either class and byte
order, whole or with a defect. Sections have one of five bodies (symbols, their names, the
sections' names, data that differs from both, nothing), the last has the sections' names, and
the file is smaller than 64 KiB, as `ElfImages` writes numbers below 2^16.
- `OpenedIs`: `elf::elf` opens a file exactly if nothing that it checks is wrong, and then
  holds every header as it was written.
- `FilesAnswerAsWritten`: `AnswersAreTheImages`, that is, reading undoes writing. A file is
  its parts placed one behind another (`Placed`, `FlattenAt`, `WholeFacts`); a number
  written in either byte order is read back (`SwizzleNumber`), and so is each header, field by
  field (`HeaderReads`); a name in a table ends at the first Nul behind its place, also
  if it is the end of another (`NameEnds`), and the one cut short has none
  (`LastNameEndless`); the first section or symbol of a name, and the first that cannot be
  read, are at the same place in the image and in the file (`MinShifted`, `SectionFound`,
  `LookupReads`). The inductive invariant `IInv` adds what an opened file holds
  (`FileRight`) and that the names kept are the sections' own (`NamesRight`).

`Files_proof`, second part, of `UnitCaches` (instantiated as `Dw`), for every file
(`DwarfFilesAssumption` only says what a unit is):
- `CachesAnswerForFiles`: `AnswersAreTheFiles`. The inductive invariant `CachesAreSound`
  says what a cache stands for: abbreviations that are had are the file's, in the vector
  as in the map, dense or sparse, of a code listed twice the last (`CacheSound`,
  `ForceFacts`); a table that cannot be read throws every time, with whatever was
  entered in the map harmless since it is never had; a DIE that is kept is whole, or
  its unit is among those that threw (`DieSound`), and only then may the line table be
  another than the file's (`LineTableSound`). The type units are read again from the start
  after an exception, which drops the DIEs read before; that loses nothing, as none
  is handed out until all were read (`TypeUnitsAreSound`).

`DwarfExpr_proof`, for any bytes, word size of at least five bits (a literal is a word),
arguments, registers and memory (`DwarfExprAssumption`; expressions need not be
well formed):
- `DwarfExprTypeCorrect`: `TypeOK`. What a cursor reads is a word or an exception
  (`FixedFacts`, `Uleb128Facts`, `Sleb128Facts`, over sums of any length), and so is what
  an operation computes of words (`UnaryFacts`, `BinaryFacts`; digits that are 0 or 1
  make a word, `DigitsMakeWord`). `CHECK` and `CHECKN` make sure that the entries an
  operation reads are there, `pick` excepted, which then reads any word.
- `OperandsStayInCode`: `ReadsStayInCode`. The inductive invariant `MachineIsSound` adds to
  the types that an activation that waits for its frame base stands at an operation
  and not, as a jump may leave it, before the code: `fbreg` reads its offset there
  when the other activation has ended (`UseFrameBaseIsSound`).

**Only model-checked.** All liveness (`CommandsReturn`, `EvaluationEnds`), which is beyond
the prover. What `DwarfExpr` computes of `ExprTree`'s trees (`ResultIsValue`), and what is
read of a tree of DIEs (`ReadsAreTheTree`, `AnswersAreTheProgram`, `IndexAnswersChild`):
both references are recursive operators over trees, and so is `Dies`, where a DIE's
size depends on those below it.

## Not modelled, and why

Register writes by the user (they replace the debuggee's state at will) and the
register table, which is data; multi-threaded debuggees (the code traces one); what
follows the debuggee's end (`wait_for_signal` then switches on an uninitialized value;
the model ends there in either outcome, as it does when an exception is thrown); how
`handle_command` takes a line apart; the header of a line program (its directories,
lengths and versions) and padding in it; names of tags, attributes and operations as text
(`to_string.cpp`, generated tables); getters that only name an attribute; the modes of
`linenoise` that minidbg does not use; big-endian DWARF.

## Plan

Order of work, most important behaviour first. Done: 1 to 8.

1. `PlantedSet`, `Breakpoints`, `TemporaryBreakpoints`, `Debugger` over `Program`
   and `LineTable`: execution control, with proofs of the table and of the
   temporaries.
2. `LineProgram`: the line number machine, find_address, get_file.
3. `DwarfExpr`: the expression machine over words of a small width, checked against
   expression trees; `SmallVector`, the storage of its stack.
4. `Dies`, `DieTrees`: entries in file order read as a tree, lookups over it, the
   string map, breakpoint locations, variables, backtraces.
5. Range and location lists, in `DieTrees`.
6. `UnitCaches`: lazy loading and caching, with requests that throw.
7. `ElfFile`: headers, sections, strings and symbols.
8. `LineEditor`: the prompt, its history and the terminal.
9. `handle_command`'s choice of a command by prefix; the line program's header.

Done since: the theorems about `Debugger`, all of `LineProgram`'s, `SmallVector`, what the
line editor shows, `UnitCaches`' and `ElfFile`'s answers, and the types and reads of
`DwarfExpr`. To come: that the code of a tree leaves its value on the stack, which needs
`ExprTree` without recursive operators.
