------------------------------ MODULE PlantedSet ------------------------------
(***************************************************************************)
(* What the breakpoint table promises its callers: a set of addresses at   *)
(* which a trap is planted, and beneath the traps the program's own memory *)
(* that only a memory write can change.  Planting or clearing one address  *)
(* says nothing of any other address, and nothing here mentions the word   *)
(* that is saved and written back around a trap: that is Breakpoints.tla,  *)
(* which implements this specification on x86-64, where its words do not   *)
(* overlap.                                                                *)
(***************************************************************************)
EXTENDS Integers

CONSTANTS Addr,        \* the cells of the debuggee's memory
          Word,        \* the cells one memory write covers
          Sites,       \* the addresses breakpoints may be asked for
          WriteSites,  \* the addresses memory writes may be asked for
          Code         \* what the program's own cells may hold

VARIABLES content,     \* the program's own memory
          planted      \* the addresses where a trap is in effect

vars == <<content, planted>>

Init == /\ content \in [Addr -> Code]
        /\ planted = {}

Plant(a) == /\ planted' = planted \union {a}
            /\ UNCHANGED content

Clear(a) == /\ a \in planted
            /\ planted' = planted \ {a}
            /\ UNCHANGED content

Write(a) == /\ content' \in [Addr -> Code]
            /\ \A c \in Addr \ (a .. (a + Word - 1)) : content'[c] = content[c]
            /\ UNCHANGED planted

Next == \/ \E a \in Sites : Plant(a) \/ Clear(a)
        \/ \E a \in WriteSites : Write(a)

Spec == Init /\ [][Next]_vars
===============================================================================
