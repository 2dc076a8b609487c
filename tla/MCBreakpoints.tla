---------------------------- MODULE MCBreakpoints ----------------------------
(* Values for Breakpoints.tla: the geometry of x86-64 (a word is 8 trap     *)
(* sizes) with breakpoints a word or more apart.  A cell's own content is a *)
(* model value; two of them are enough to tell a cell from its neighbour.   *)
EXTENDS Breakpoints

CONSTANTS even, odd

MCCode == {even, odd}
MCText == [c \in Addr |-> IF c % 2 = 0 THEN even ELSE odd]

SpacedAddr == 0 .. 32
SpacedSites == {0, 8, 17}
SpacedWrites == {25}
===============================================================================
