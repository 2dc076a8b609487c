----------------------------- MODULE MCDebugger -----------------------------
(* Programs for Debugger.tla.  Addresses 0 and 2 are the C library's, which *)
(* has no line table; f comes before main, and main's last row is the last  *)
(* row of the table.                                                        *)
EXTENDS Debugger, TLC

CONSTANTS even, odd

I(op, next)     == [op |-> op, next |-> next, target |-> 0]
To(op, next, t) == [op |-> op, next |-> next, target |-> t]
R(a, l)         == [address |-> a, line |-> l, end_sequence |-> FALSE]
E(a)            == [address |-> a, line |-> 1, end_sequence |-> TRUE]

MCCode == {even, odd}
CodeAt(c) == IF c % 2 = 0 THEN even ELSE odd
MCAddr == 0 .. 41
MCText == [c \in MCAddr |-> CodeAt(c)]
MCExited == 99
MCGarbage == 40

(* int f() { if (..) ..; }  int main() { f(); ..; } with rows a word apart. *)
MCInstr ==
   0 :> To("call", 2, 18) @@ 2 :> I("exit", 4) @@
  10 :> I("enter", 12)    @@ 12 :> To("branch", 14, 16) @@ 14 :> I("plain", 16) @@
  16 :> I("leave", 17)    @@ 17 :> I("ret", 18) @@
  18 :> I("enter", 20)    @@ 20 :> To("call", 22, 10) @@ 22 :> I("plain", 24) @@
  24 :> I("leave", 25)    @@ 25 :> I("ret", 26)
MCTable == <<R(10, 1), R(12, 2), R(14, 3), R(16, 4),
             R(18, 6), R(20, 7), R(22, 8), R(24, 9), E(26)>>
MCUnit == 10 .. 25
MCFunctions == {[low |-> 10, high |-> 18], [low |-> 18, high |-> 26]}
MCSites == {2, 10, 12, 14, 16, 18, 20, 22, 24, 26, MCGarbage}
MCUserSites == {12, 20, 22}

(* It is as the theorems about its commands assume: main calls f.           *)
MCLevel == [a \in DOMAIN Instr |-> IF a < 10 THEN 0 ELSE IF a < 18 THEN 2 ELSE 1]
ASSUME MCProgramAssumption ==
    /\ BreaksAtInstructions
    /\ Load = 0 => /\ RowsAscend /\ FunctionsBeginRows /\ Temporary!Spaced
                /\ CallsNestBy(MCLevel)
MCCallsRise == Undebugged!CallsRise(MCLevel)
MCFrameIsKept == FrameIsKept(MCLevel)

(* The same, loaded at 100, with f calling itself: a call's row is followed *)
(* by the row it returns to.                                                *)
PieAddr == 100 .. 143
PieText == [c \in PieAddr |-> CodeAt(c)]
PieGarbage == 140
PieInstr ==
  100 :> To("call", 102, 118) @@ 102 :> I("exit", 104) @@
  110 :> I("enter", 112)      @@ 112 :> To("branch", 114, 116) @@ 114 :> To("call", 116, 110) @@
  116 :> I("leave", 117)      @@ 117 :> I("ret", 118) @@
  118 :> I("enter", 120)      @@ 120 :> To("call", 122, 110) @@ 122 :> I("plain", 124) @@
  124 :> I("leave", 125)      @@ 125 :> I("ret", 126)
PieSites == {102, 110, 112, 114, 116, 118, 120, 122, 124, 126, PieGarbage}
PieUserSites == {112, 116, 120}
===============================================================================
