------------------------------ MODULE DwarfFiles ------------------------------
(***************************************************************************)
(* What a file's debugging information says of its units: the reference    *)
(* for UnitCaches.                                                         *)
(***************************************************************************)
EXTENDS Integers, Sequences, FiniteSetsExt

CONSTANT Files   \* [units, types, sections]: see MCUnitCaches

(* An abbreviation, a compilation unit and a type unit as they are in a    *)
(* file; ok says whether it can be read.                                   *)
Attribute == [name : STRING, skips : BOOLEAN]
Abbrev    == [code : Nat \ {0}, ok : BOOLEAN, attributes : Seq(Attribute)]
Unit      == [table : Seq(Abbrev), root : Nat, line : {"good", "bad"}]
TypeUnit  == [signature : Nat, ok : BOOLEAN, table : Seq(Abbrev), type : Nat]

ASSUME DwarfFilesAssumption ==
    \A f \in Files : /\ \A k \in DOMAIN f.units : f.units[k] \in Unit
                     /\ f.types \in Seq(TypeUnit)

VARIABLES
    file,
    request,   \* the last request, and what it got
    torn       \* the units whose root or type threw when asked for

NoEntry == [code |-> 0, ok |-> TRUE, attributes |-> <<>>]
NullDie == [abbrev |-> NoEntry, attrs |-> 0]

Throws == [ok |-> FALSE, is |-> <<>>]
Gives(d) == [ok |-> TRUE, is |-> <<d.abbrev.code, d.attrs>>]

Bad(table)  == {i \in DOMAIN table : ~table[i].ok}
-------------------------------------------------------------------------------
(* What the file says a DIE is: all its attributes, if all of the table    *)
(* and of the DIE can be read.                                             *)
Coded(table, code)   == {i \in DOMAIN table : table[i].code = code}
EntryOf(table, code) == IF Coded(table, code) = {} THEN NoEntry
                        ELSE table[Max(Coded(table, code))]

DieOf(table, code) ==
    LET attributes == EntryOf(table, code).attributes
    IN  IF Bad(table) # {} \/ (code # 0 /\ Coded(table, code) = {}) THEN Throws
        ELSE IF code = 0 THEN Gives(NullDie)
        ELSE IF \E i \in DOMAIN attributes : ~attributes[i].skips THEN Throws
        ELSE [ok |-> TRUE, is |-> <<code, Len(attributes)>>]

Named(table, code, name) ==
    \E j \in DOMAIN EntryOf(table, code).attributes : EntryOf(table, code).attributes[j].name = name

SignedBy(sig)   == {i \in DOMAIN file.types : file.types[i].signature = sig}
TypeUnitOf(sig) == file.types[Max(SignedBy(sig))]

TypeOf(sig) ==
    IF "types" \notin file.sections \/ SignedBy(sig) = {} \/ Bad(file.types) # {}
    THEN Throws ELSE DieOf(TypeUnitOf(sig).table, TypeUnitOf(sig).type)

LineTableOf(u) ==
    CASE ~DieOf(u.table, u.root).ok -> Throws
      [] /\ DieOf(u.table, u.root).ok
         /\ \/ "line" \notin file.sections
            \/ \E name \in {"stmt_list", "name"} : ~Named(u.table, u.root, name)
         -> [ok |-> TRUE, is |-> <<"invalid">>]
      [] OTHER -> IF u.line = "good" THEN [ok |-> TRUE, is |-> <<"good">>] ELSE Throws

FileSays(q) ==
    CASE q.kind = "root"       -> DieOf(file.units[q.of].table, file.units[q.of].root)
      [] q.kind = "line table" -> LineTableOf(file.units[q.of])
      [] q.kind = "type"       -> TypeOf(q.of)
      [] q.kind = "section"    -> IF q.of \in file.sections THEN [ok |-> TRUE, is |-> <<q.of>>] ELSE Throws

TableOf(q) == IF q.kind = "type" THEN TypeUnitOf(q.of).table ELSE file.units[q.of].table

(* Whatever was asked before, and whatever of it threw, an answer is what  *)
(* the file says; only a unit whose DIE threw while it was read answers    *)
(* with the part that was.                                                 *)
AnswersAreTheFiles ==
    request.kind # "none" =>
        \/ request.is = FileSays(request)
        \/ /\ <<IF request.kind = "type" THEN "type" ELSE "root", request.of>> \in torn
           /\ Bad(TableOf(request)) = {} /\ ~FileSays(request).ok
===============================================================================
