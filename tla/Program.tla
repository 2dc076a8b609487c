------------------------------- MODULE Program -------------------------------
(***************************************************************************)
(* The debuggee: a program as the processor runs it, with nobody attached. *)
(* It is not part of the debugger's source; what is kept of it is what the *)
(* debugger's commands depend on: where control goes, which calls are open *)
(* and which of them have set up their frame.  No signal comes to it.      *)
(*                                                                         *)
(* An instruction is a record of its operation op, the address next just   *)
(* behind it, and a target for a branch or a call.  A call's    *)
(* frame holds the return address; the frame pointer points at the         *)
(* innermost frame whose prologue ("enter") has run and whose epilogue     *)
(* ("leave") has not.                                                      *)
(***************************************************************************)
EXTENDS Integers, Sequences

CONSTANTS Instr,      \* address -> instruction
          Entry,      \* the address of the first instruction
          Exited,     \* the value of pc once the process is gone
          MaxDepth    \* bound: the number of calls that may be open

VARIABLES pc,         \* the program counter
          stack       \* the open calls, innermost last

program_vars == <<pc, stack>>

ReturnAddresses == {Instr[a].next : a \in {b \in DOMAIN Instr : Instr[b].op = "call"}}

Frame == [ret : ReturnAddresses, entered : BOOLEAN]

(* What a program is.  Control stays among its instructions, and the code  *)
(* that runs outside every call neither returns nor has a frame.           *)
IsStartUp(code) ==
    /\ Entry \in code
    /\ \A a \in code :
          /\ Instr[a].op \notin {"enter", "leave", "ret"}
          /\ Instr[a].op = "exit" \/ Instr[a].next \in code
          /\ Instr[a].op = "branch" => Instr[a].target \in code

WellFormed ==
    /\ Exited \notin DOMAIN Instr
    /\ \A a \in DOMAIN Instr :
          /\ Instr[a].op \notin {"ret", "exit"} => Instr[a].next \in DOMAIN Instr
          /\ Instr[a].op \in {"branch", "call"} => Instr[a].target \in DOMAIN Instr
    /\ \E code \in SUBSET DOMAIN Instr : IsStartUp(code)

StartUp == CHOOSE code \in SUBSET DOMAIN Instr : IsStartUp(code)

Init == pc = Entry /\ stack = <<>>

At(op) == pc # Exited /\ Instr[pc].op = op

Goto(a) == pc' = a /\ UNCHANGED stack

SetEntered(b) == /\ stack' = [stack EXCEPT ![Len(stack)].entered = b]
                 /\ pc' = Instr[pc].next

Plain  == At("plain") /\ Goto(Instr[pc].next)
Branch == At("branch") /\ \E a \in {Instr[pc].next, Instr[pc].target} : Goto(a)
Enter  == At("enter") /\ SetEntered(TRUE)
Leave  == At("leave") /\ SetEntered(FALSE)
Call   == /\ At("call")
          /\ Len(stack) < MaxDepth
          /\ pc' = Instr[pc].target
          /\ stack' = Append(stack, [ret |-> Instr[pc].next, entered |-> FALSE])
(* At the bound a call is passed over: the recursion ends there.           *)
CallAtBound == At("call") /\ Len(stack) = MaxDepth /\ Goto(Instr[pc].next)
Ret    == /\ At("ret")
          /\ pc' = stack[Len(stack)].ret
          /\ stack' = SubSeq(stack, 1, Len(stack) - 1)
Exit   == At("exit") /\ Goto(Exited)

Step == Plain \/ Branch \/ Enter \/ Leave \/ Call \/ CallAtBound \/ Ret \/ Exit

Spec == Init /\ [][Step]_program_vars

(* Where a well-formed program can be; a frame was pushed by a call, the   *)
(* outermost one by a call of the start-up code.                           *)
Located == /\ pc \in DOMAIN Instr \union {Exited}
           /\ stack \in Seq(Frame)
           /\ IF stack = <<>> THEN pc \in StartUp \union {Exited}
                             ELSE stack[1].ret \in StartUp

(* A program without recursion: functions are on levels, and a call leads  *)
(* to a higher one.                                                        *)
LevelsRise(level) ==
    \A a \in DOMAIN Instr :
        /\ Instr[a].op \notin {"ret", "exit"} => level[Instr[a].next] = level[a]
        /\ Instr[a].op = "branch" => level[Instr[a].target] = level[a]
        /\ Instr[a].op = "call" => level[a] < level[Instr[a].target]

(* The calls that are open then return to ever higher levels.              *)
CallsRise(level) ==
    pc # Exited =>
        \A i \in DOMAIN stack :
            /\ level[stack[i].ret] < level[pc]
            /\ \A j \in i + 1 .. Len(stack) : level[stack[i].ret] < level[stack[j].ret]
===============================================================================
