----------------------- MODULE MCTemporaryBreakpoints -----------------------
(* Values for TemporaryBreakpoints.tla: rows one cell apart under a word of *)
(* three cells.                                                            *)
EXTENDS TemporaryBreakpoints

CONSTANTS even, odd

MCCode == {even, odd}
MCText == [c \in Addr |-> IF c % 2 = 0 THEN even ELSE odd]
MCAddr == 0 .. 14
MCSites == 0 .. 12

CloseRows == {5, 6, 8, 9}
CloseUsers == {3, 6, 9}
CloseReturns == {2, 9, 11}
===============================================================================
