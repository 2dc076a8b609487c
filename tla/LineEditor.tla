------------------------------ MODULE LineEditor ------------------------------
(***************************************************************************)
(* The prompt: debugger::run's loop (src/src/minidbg.cpp) and the line     *)
(* editor it calls (src/src/linenoise.c, as minidbg uses it: one line      *)
(* mode, no completion, no hints, no mask).                                *)
(*                                                                         *)
(* The history is an array of pointers to copies of lines on the heap.     *)
(* While a line is edited its newest entry stands for that line, and the   *)
(* arrow keys swap the buffer with the entry history_index behind it.      *)
(*                                                                         *)
(* A text is a sequence of characters; a buffer may hold a Nul (Ctrl-Space *)
(* types one), and is then a shorter string than it is a buffer.           *)
(*                                                                         *)
(* The editor takes every byte for one column.  Tab (there is no callback  *)
(* to complete with, so it is typed like a letter), other control          *)
(* characters and the bytes of a character longer than a byte are none:    *)
(* what a row with one of them looks like is not modelled.                 *)
(***************************************************************************)
EXTENDS Integers, SequencesExt

CONSTANTS
    Chars,       \* what can be typed, Space and Nul among it
    Space, Nul,
    Printable,   \* those of them that take one column, wherever they stand
    Limit,       \* LINENOISE_MAX_LINE - 1: the most characters of a buffer
    MaxHistory,  \* history_max_len
    Columns,     \* of the terminal, those behind the prompt: there is one
    Pointers,    \* the heap's blocks
    Inputs,      \* the lines there are to read without a terminal
    Free, Null

ASSUME LineEditorAssumption ==
    /\ {Space, Nul} \subseteq Chars /\ Space # Nul
    /\ Printable \subseteq Chars \ {Nul} /\ Space \in Printable
    /\ Limit \in Nat \ {0} /\ MaxHistory \in Nat \ {0} /\ Columns \in Nat \ {0}
    /\ Inputs \subseteq Seq(Chars)
    /\ Free \notin Seq(Chars) /\ Null \notin Pointers

(* A block can be allocated whatever the history and a line hold: running  *)
(* out of memory is not modelled.                                          *)
ASSUME HeapAssumption ==
    /\ Pointers # {}
    /\ \A used \in [1 .. MaxHistory + 1 -> Pointers] : Pointers \ Range(used) # {}

VARIABLES
    terminal,       \* what standard input is: "tty", "dumb" or "pipe"
    phase,          \* what the loop does
    heap,           \* the text in each block
    history,        \* history[0 .. history_len - 1]
    line,           \* the line linenoise returned
    buf, pos,       \* the buffer up to len, and the cursor
    history_index,
    rawmode,
    screen,         \* the row behind the prompt and the cursor's column there
    draft           \* the line being typed, as the user left it for the history

store == [heap |-> heap, history |-> history]
editing == <<buf, pos, history_index, screen, draft>>
vars == <<terminal, phase, heap, history, line, editing, rawmode>>

Phases == {"prompt", "edit", "command", "exited", "crashed"}

String(b) == LET ends == {i \in 1 .. Len(b) : b[i] = Nul}
             IN  IF ends = {} THEN b ELSE SubSeq(b, 1, Min(ends) - 1)
Blank == [shown |-> <<>>, cursor |-> 0]
Garbled == [shown |-> <<>>, cursor |-> -1]

Init == /\ terminal \in {"tty", "dumb", "pipe"}
        /\ phase = "prompt"
        /\ heap = [p \in Pointers |-> Free]
        /\ history = <<>>
        /\ line = Null
        /\ buf = <<>> /\ pos = 0 /\ history_index = 0
        /\ screen = Blank /\ draft = <<>>
        /\ rawmode = FALSE
-------------------------------------------------------------------------------
(* The history on the heap.                                                *)

Fresh(st) == CHOOSE p \in Pointers : st.heap[p] = Free
Freed(st, p) == [st EXCEPT !.heap[p] = Free]

(* A line equal to the newest is not added; the oldest makes room.         *)
Added(st, text) ==
    LET p == Fresh(st)
        copied == [st EXCEPT !.heap[p] = text]
    IN  IF st.history # <<>> /\ st.heap[Last(st.history)] = text THEN st
        ELSE IF Len(st.history) < MaxHistory THEN [copied EXCEPT !.history = Append(@, p)]
        ELSE [Freed(copied, Head(st.history)) EXCEPT !.history = Append(Tail(@), p)]

\* Mutant: the newest entry is dropped and not freed.
PoppedLeaky(st) == [st EXCEPT !.history = Front(@)]

Popped(st) == [Freed(st, Last(st.history)) EXCEPT !.history = Front(@)]

(* The entry the buffer stands for is replaced by a copy of the buffer.    *)
Saved(st) ==
    LET i == Len(st.history) - history_index
        freed == Freed(st, st.history[i])
    IN  [freed EXCEPT !.heap[Fresh(freed)] = String(buf), !.history[i] = Fresh(freed)]

Keep(st) == heap' = st.heap /\ history' = st.history
-------------------------------------------------------------------------------
(* The screen, and edits of a line.                                        *)

(* What is visible of the buffer: scrolled until the cursor is on the row. *)
Skip(p) == IF p >= Columns THEN p - Columns + 1 ELSE 0
Window(b, p) == SubSeq(b, Skip(p) + 1,
                       IF Len(b) > Skip(p) + Columns THEN Skip(p) + Columns ELSE Len(b))

Legible(text) == \A i \in DOMAIN text : text[i] \in Printable

(* refreshSingleLine, on a terminal wider than the prompt (the unsigned    *)
(* subtractions that look for the cursor's column wrap on any other) that  *)
(* keeps the last column of a full row when it erases to the right of it.  *)
Refreshed(b, p) == IF Legible(Window(b, p))
                   THEN [shown |-> Window(b, p), cursor |-> p - Skip(p)]
                   ELSE Garbled

Line(b, p) == [buf |-> b, pos |-> p]
Before(n)  == SubSeq(buf, 1, n)
After(n)   == SubSeq(buf, n + 1, Len(buf))

(* The start of the word that Ctrl-W deletes.                              *)
WordStart ==
    LET spaces == {i \in 0 .. pos : \A k \in i + 1 .. pos : buf[k] = Space}
        behind == CHOOSE i \in spaces : \A j \in spaces : i <= j
        word   == {i \in 0 .. behind : \A k \in i + 1 .. behind : buf[k] # Space}
    IN  CHOOSE i \in word : \A j \in word : i <= j

Deleted == IF pos < Len(buf) THEN Line(Before(pos) \o After(pos + 1), pos) ELSE Line(buf, pos)

Swapped == Line([buf EXCEPT ![pos] = buf[pos + 1], ![pos + 1] = buf[pos]],
                IF pos # Len(buf) - 1 THEN pos + 1 ELSE pos)

Edits == {"backspace", "delete", "swap", "left", "right", "home", "end",
          "delete_line", "delete_end", "delete_word", "redraw"}

Edited(key) ==
    CASE key = "backspace" /\ pos > 0   -> Line(Before(pos - 1) \o After(pos), pos - 1)
      [] key = "delete"                 -> Deleted
      [] key = "swap" /\ pos \in 1 .. Len(buf) - 1 -> Swapped
      [] key = "left" /\ pos > 0        -> Line(buf, pos - 1)
      [] key = "right" /\ pos < Len(buf) -> Line(buf, pos + 1)
      [] key = "home"                   -> Line(buf, 0)
      [] key = "end"                    -> Line(buf, Len(buf))
      [] key = "delete_line"            -> Line(<<>>, 0)
      [] key = "delete_end"             -> Line(Before(pos), pos)
      [] key = "delete_word"            -> Line(Before(WordStart) \o After(pos), WordStart)
      [] OTHER                          -> Line(buf, pos)

Shows(b, p, s) == /\ buf' = b /\ pos' = p /\ screen' = s
                  /\ draft' = IF history_index' = 0 THEN String(b) ELSE draft

(* An edit that changes nothing does not refresh the line, but then there  *)
(* is nothing to refresh.                                                  *)
Edit(key) ==
    /\ IF Edited(key) = Line(buf, pos) /\ key \notin {"redraw", "delete_line", "delete_end", "delete_word"}
         THEN UNCHANGED <<buf, pos, screen, draft, history_index>>
         ELSE /\ UNCHANGED history_index
              /\ Shows(Edited(key).buf, Edited(key).pos, Refreshed(Edited(key).buf, Edited(key).pos))
    /\ UNCHANGED <<heap, history>>

\* Mutant: the line left is not written back.
HistoryNextForgetting(step) ==
    LET target == history_index + step
        text   == heap[history[Len(history) - target]]
    IN  IF Len(history) <= 1 \/ target \notin 0 .. Len(history) - 1
        THEN UNCHANGED <<heap, history, buf, pos, screen, draft, history_index>>
        ELSE /\ UNCHANGED <<heap, history>>
             /\ history_index' = target
             /\ Shows(text, Len(text), Refreshed(text, Len(text)))

(* An entry recalled keeps one character less than a line may have.        *)
HistoryNext(step) ==
    LET target == history_index + step
        saved  == Saved(store)
        entry  == saved.heap[saved.history[Len(history) - target]]
        text   == SubSeq(entry, 1, IF Len(entry) < Limit THEN Len(entry) ELSE Limit - 1)
    IN  IF Len(history) <= 1
        THEN UNCHANGED <<heap, history, buf, pos, screen, draft, history_index>>
        ELSE /\ Keep(saved)
             /\ IF target \in 0 .. Len(history) - 1
                  THEN /\ history_index' = target
                       /\ Shows(text, Len(text), Refreshed(text, Len(text)))
                  ELSE UNCHANGED <<buf, pos, screen, draft, history_index>>

Press(key) == CASE key = "up"     -> HistoryNext(1)
                [] key = "down"   -> HistoryNext(-1)
                [] key \in Edits  -> Edit(key)
                [] OTHER -> UNCHANGED <<heap, history, buf, pos, screen, draft, history_index>>
-------------------------------------------------------------------------------
(* linenoiseEditStart to linenoiseEditStop.                                *)

(* The buffer and the cursor are locals: they start empty, and are gone    *)
(* when linenoise returns.                                                 *)
NoLine == /\ buf' = <<>> /\ pos' = 0 /\ history_index' = 0
          /\ screen' = Blank /\ draft' = <<>>

Start == /\ phase = "prompt" /\ terminal = "tty"
         /\ phase' = "edit" /\ rawmode' = TRUE
         /\ Keep(Added(store, <<>>))
         /\ NoLine
         /\ UNCHANGED <<terminal, line>>

Feeding == phase = "edit"

(* A byte written where the terminal's cursor is.                          *)
Echoed(c) == IF c \in Printable /\ screen # Garbled
             THEN [shown |-> Append(screen.shown, c), cursor |-> screen.cursor + 1]
             ELSE Garbled

\* Mutant: a row that the character fills is not refreshed.
TypedHasty(c) ==
    IF pos = Len(buf) /\ Len(buf) + 1 <= Columns
    THEN Echoed(c)
    ELSE Refreshed(Before(pos) \o <<c>> \o After(pos), pos + 1)

(* A character behind the last one is written without looking at the rest; *)
(* elsewhere, and at the end of the row, the line is refreshed.            *)
Typed(c) ==
    IF pos = Len(buf) /\ Len(buf) + 1 < Columns
    THEN Echoed(c)
    ELSE Refreshed(Before(pos) \o <<c>> \o After(pos), pos + 1)

\* Mutant: the buffer's length is not looked at.
InsertUnlimited(c) == /\ Feeding
                      /\ UNCHANGED history_index
                      /\ Shows(Before(pos) \o <<c>> \o After(pos), pos + 1, Typed(c))
                      /\ UNCHANGED <<terminal, phase, heap, history, line, rawmode>>

Insert(c) == /\ Feeding
             /\ IF Len(buf) < Limit
                  THEN /\ UNCHANGED history_index
                       /\ Shows(Before(pos) \o <<c>> \o After(pos), pos + 1, Typed(c))
                  ELSE UNCHANGED <<buf, pos, screen, draft, history_index>>
             /\ UNCHANGED <<terminal, phase, heap, history, line, rawmode>>

(* A key, as a control character or as the escape sequence of two or three *)
(* bytes that are read behind Escape, whatever they are: a lone Escape     *)
(* swallows the two keys pressed next, and does nothing.  Ctrl-D deletes   *)
(* unless the line is empty.                                               *)
ControlKey(key) == /\ Feeding
                   /\ Press(key)
                   /\ UNCHANGED <<terminal, phase, line, rawmode>>

Stop(st, result) == /\ rawmode' = FALSE
                    /\ line' = result
                    /\ phase' = IF result = Null THEN "exited" ELSE "command"
                    /\ Keep(st)
                    /\ NoLine
                    /\ UNCHANGED terminal

(* freeHistory, registered with atexit when raw mode was first entered.    *)
AtExit(st) == [heap    |-> [p \in Pointers |-> IF p \in Range(st.history) THEN Free ELSE st.heap[p]],
               history |-> <<>>]

Enter == /\ Feeding
         /\ LET popped == Popped(store)
            IN  Stop([popped EXCEPT !.heap[Fresh(popped)] = String(buf)], Fresh(popped))

(* Null ends the loop of run, and the program.                             *)
EndOfFile == /\ Feeding /\ buf = <<>>
             /\ Stop(AtExit(Popped(store)), Null)

(* Ctrl-C, and input that is gone, leave the entry where it is.            *)
Interrupt == Feeding /\ Stop(AtExit(store), Null)

(* Without a terminal a line may have any length; with one that cannot be  *)
(* controlled the rest of a long line is taken for the next.               *)
ReadLine(text) == /\ phase = "prompt" /\ terminal # "tty"
                  /\ terminal = "dumb" => Len(text) <= Limit
                  /\ Stop([store EXCEPT !.heap[Fresh(store)] = String(text)], Fresh(store))

NoMoreLines == /\ phase = "prompt" /\ terminal # "tty"
               /\ phase' = "exited" /\ line' = Null
               /\ UNCHANGED <<terminal, heap, history, editing, rawmode>>
-------------------------------------------------------------------------------
(* handle_command (its commands are Debugger.tla's), then the history.  An *)
(* empty line has no word to take for the command, and no exception is     *)
(* caught.                                                                 *)
CommandDone == /\ phase = "command" /\ heap[line] # <<>>
               /\ phase' = "prompt"
               /\ Keep(Freed(Added(store, heap[line]), line))
               /\ line' = Null
               /\ UNCHANGED <<terminal, editing, rawmode>>

CommandFails == /\ phase = "command"
                /\ phase' = "crashed"
                /\ UNCHANGED <<terminal, heap, history, line, editing, rawmode>>

Over == phase \in {"exited", "crashed"} /\ UNCHANGED vars

Next == \/ Start \/ Enter \/ EndOfFile \/ Interrupt
        \/ \E c \in Chars : Insert(c)
        \/ \E key \in Edits \union {"up", "down", "none"} : ControlKey(key)
        \/ \E text \in Inputs : ReadLine(text)
        \/ NoMoreLines \/ CommandDone \/ CommandFails \/ Over

Spec == Init /\ [][Next]_vars
-------------------------------------------------------------------------------
TypeOK == /\ terminal \in {"tty", "dumb", "pipe"}
          /\ phase \in Phases
          /\ \A p \in Pointers : heap[p] = Free \/ heap[p] \in Seq(Chars \ {Nul})
          /\ history \in Seq(Pointers) /\ Len(history) <= MaxHistory
          /\ line \in Pointers \union {Null}
          /\ buf \in Seq(Chars) /\ Len(buf) <= Limit
          /\ pos \in 0 .. Len(buf)
          /\ phase = "edit" => history_index \in 0 .. Len(history) - 1
          /\ rawmode = (phase = "edit")

(* Every block of the heap that is in use is one entry of the history or   *)
(* the line being executed, and no entry is a block that was freed: the    *)
(* entry pushed for the line, the entries the arrow keys replace, the ones *)
(* that a full history drops and the line itself are each freed once, and  *)
(* none when the program exits is left over.                               *)
HistoryIsOwned ==
    /\ IsInjective(history)
    /\ line \notin Range(history)
    /\ {p \in Pointers : heap[p] # Free} = Range(history) \union ({line} \ {Null})

(* Where the part of the line that the cursor is in has only characters of *)
(* one column, the row behind the prompt shows it, and the cursor is where *)
(* the next character goes, although most characters are written without   *)
(* looking at the rest.  So a row that Tab or another such byte garbled is *)
(* right again once that byte is deleted or scrolled out of sight.         *)
ScreenShowsBuffer ==
    phase = "edit" /\ Legible(Window(buf, pos)) =>
        /\ screen.cursor \in 0 .. Columns - 1
        /\ Skip(pos) + screen.cursor = pos
        /\ screen.shown = Window(buf, pos)

(* Looking through the history, and editing it, does not lose the line     *)
(* that was being typed: it is the newest entry while another is shown,    *)
(* and is shown again, short of one character if it was as long as a line  *)
(* can be, on the way back.                                                *)
DraftIsKept ==
    [][phase = "edit" /\ phase' = "edit" /\ history_index > 0 =>
         /\ heap[Last(history)] = draft
         /\ history_index' = 0 => buf' = IF Len(draft) = Limit THEN Front(draft) ELSE draft]_vars
===============================================================================
