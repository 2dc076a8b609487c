---------------------------- MODULE MCLineEditor ------------------------------
(* The prompt: its history, with a command and the line being typed, and    *)
(* its screen, on a row as wide as the longest line, so that the cursor     *)
(* behind that does not fit.                                                *)
EXTENDS LineEditor

\* Nothing, a short line, one with a Nul in it and one that is too long.
MCInputs == {<<>>, <<Space>>, <<Space, Nul>>, <<Space, Space, Space>>}
===============================================================================
