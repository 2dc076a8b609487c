------------------------------ MODULE MCElfFile -------------------------------
(***************************************************************************)
(* Images for ElfFile: one program, in both classes and byte orders, whole *)
(* and with each defect.                                                   *)
(***************************************************************************)
EXTENDS ElfFile

S(name, type, body, link) == [name |-> name, named |-> TRUE, type |-> type, body |-> body, link |-> link]
Y(name, type, binding, value) == [name |-> name, type |-> type, binding |-> binding, value |-> value]

Info == <<46, 105>>
Loc  == <<46, 108>>
F    == <<102>>
G    == <<103, 102>>

\* An unnamed section cannot be read; the one of an unterminated table is
\* the last.
SectionsFor(d) ==
    LET whole == <<S(<<>>, 0, "nothing", 0), S(<<115>>, 3, "strtab", 0),
                   S(<<121>>, 2, "symtab", IF d = "link" THEN 3 ELSE 1), S(Info, 1, "data", 0),
                   S(<<98>>, 8, "nothing", 0), S(Loc, 1, "data", 0),
                   S(<<104>>, 3, "shstrtab", 0)>>
    IN  CASE d = "name"         -> [whole EXCEPT ![5].named = FALSE]
          [] d = "unterminated" -> [whole EXCEPT ![7].named = FALSE]
          [] OTHER -> whole

Image(c, o, d) ==
    [class |-> c, order |-> o, defect |-> d, sections |-> SectionsFor(d), segments |-> <<4, 2>>,
     symbols |-> <<Y(<<>>, 0, 0, 0), Y(F, 2, 1, 304), Y(G, 1, 0, 400), Y(F, 10, 0, 310)>>]

MCImages == {Image(c, o, "none") : c \in {1, 2}, o \in {1, 2}}
            \union {Image(c, c, d) : c \in {1, 2},
                    d \in Refusable \union {"name", "unterminated", "link", "symname"}}
MCNames == {Info, Loc, F, G, <<98>>, <<104>>, <<122>>}
===============================================================================
