---------------------------- MODULE MCUnitCaches -----------------------------
(***************************************************************************)
(* Files for UnitCaches.                                                   *)
(***************************************************************************)
EXTENDS UnitCaches

A(name, skips) == [name |-> name, skips |-> skips]
Entry(code, attributes) == [code |-> code, ok |-> TRUE, attributes |-> attributes]
Listed == <<A("name", TRUE), A("stmt_list", TRUE)>>
Stuck  == <<A("name", TRUE), A("import", FALSE), A("stmt_list", TRUE)>>
StuckLate == Listed \o <<A("import", FALSE), A("comp_dir", TRUE)>>

Dense  == <<Entry(1, Listed), Entry(2, <<>>)>>
Sparse == <<Entry(1, <<>>), Entry(9, Listed)>>
Broken == <<Entry(1, Listed), [Entry(2, <<>>) EXCEPT !.ok = FALSE]>>
Twice  == <<Entry(1, <<>>), Entry(1, Listed)>>
Unlisted == <<Entry(1, Listed), Entry(1, <<>>)>>
Unskippable == <<Entry(1, Stuck), Entry(2, Listed)>>
UnskippableLate == <<Entry(1, StuckLate)>>
UnskippableFirst == <<Entry(1, <<A("import", FALSE)>> \o Listed)>>

U(table, root, line) == [table |-> table, root |-> root, line |-> line]
CompileUnits == {U(Dense, 1, "good"), U(Dense, 2, "good"), U(Sparse, 9, "bad"), U(Sparse, 5, "good"),
                 U(Broken, 1, "good"), U(Twice, 1, "good"), U(Unlisted, 1, "good"),
                 U(Unskippable, 1, "good"), U(UnskippableLate, 1, "good"),
                 U(UnskippableFirst, 1, "bad"), U(Dense, 0, "good"), U(<<>>, 1, "good")}

T(signature, table, type) == [signature |-> signature, ok |-> TRUE, table |-> table, type |-> type]
TypeUnits == {<<>>, <<T(1, Dense, 1), T(2, Broken, 1)>>,
              <<T(1, Dense, 2), T(1, Sparse, 9), T(3, Unskippable, 1)>>,
              <<T(1, Dense, 1), [T(2, Dense, 1) EXCEPT !.ok = FALSE], T(3, Dense, 1)>>}

MCFiles == [units : {<<u, U(Dense, 1, "good")>> : u \in CompileUnits}, types : TypeUnits,
            sections : SUBSET {"line", "types"}]
===============================================================================
