------------------------------ MODULE UnitCaches ------------------------------
(***************************************************************************)
(* What a unit keeps of what it has read (src/src/dwarf/dwarf.cpp).        *)
(*                                                                         *)
(* Abbreviations, the root, the type, the line table, the sections and the *)
(* type units are read when they are first asked for, and kept.  Reading   *)
(* may throw in the middle.  The debugger dies of that, but the library is *)
(* not written for it alone: a caller that catches (as find_pc and         *)
(* src/tool/find-pc.cc do) may ask again.                                  *)
(***************************************************************************)
EXTENDS DwarfFiles

VARIABLES
    units,             \* the caches of the compilation units
    type_units,        \* type units and their caches, by signature
    have_type_units,
    sections           \* the sections that were loaded

vars == <<file, units, type_units, have_type_units, sections, request, torn>>

Valid(d) == d.abbrev # NoEntry

NoCache == [have_abbrevs |-> FALSE, vec |-> <<>>, map |-> <<>>,
            root |-> NullDie, type |-> NullDie, lt |-> "invalid"]
-------------------------------------------------------------------------------
(* Abbreviations: kept in a vector if their codes are dense, or else in a  *)
(* map.  An entry that cannot be read throws, with those before it in the  *)
(* map already.                                                            *)
Read(table) == {i \in DOMAIN table : \A j \in 1 .. i : table[j].ok}

(* A map with the entries read so far; of one code the last stays.         *)
Entered(map, table) ==
    LET Of(code) == {i \in Read(table) : table[i].code = code}
    IN  [code \in DOMAIN map \union {table[i].code : i \in Read(table)} |->
            IF Of(code) = {} THEN map[code] ELSE table[Max(Of(code))]]

\* Mutant: the abbreviations are had as soon as they are looked for.
ForceAbbrevsEarly(c, table) ==
    [ok |-> c.have_abbrevs \/ Bad(table) = {},
     c |-> IF c.have_abbrevs THEN c
           ELSE [c EXCEPT !.map = Entered(c.map, table), !.have_abbrevs = TRUE]]

ForceAbbrevs(c, table) ==
    LET map == Entered(c.map, table)
        highest == Max({0} \union DOMAIN map)
        vec == [i \in 1 .. highest + 1 |-> IF i - 1 \in DOMAIN map THEN map[i - 1] ELSE NoEntry]
    IN  CASE c.have_abbrevs -> [ok |-> TRUE, c |-> c]
          [] ~c.have_abbrevs /\ Bad(table) # {} -> [ok |-> FALSE, c |-> [c EXCEPT !.map = map]]
          [] OTHER -> [ok |-> TRUE,
                       c |-> IF highest * 10 < Cardinality(DOMAIN map) * 15
                             THEN [c EXCEPT !.have_abbrevs = TRUE, !.vec = vec, !.map = <<>>]
                             ELSE [c EXCEPT !.have_abbrevs = TRUE, !.map = map]]

GetAbbrev(c, code) ==
    CASE c.vec # <<>> /\ code < Len(c.vec) -> c.vec[code + 1]
      [] c.vec = <<>> /\ code \in DOMAIN c.map -> c.map[code]
      [] OTHER -> NoEntry

(* die::read: a form that cannot be skipped throws, with the attributes up *)
(* to it read, and the abbreviation there.                                 *)
ReadDie(c, code) ==
    LET entry == GetAbbrev(c, code)
        stuck == {i \in DOMAIN entry.attributes : ~entry.attributes[i].skips}
    IN  IF code = 0 THEN [ok |-> TRUE, die |-> NullDie]
        ELSE [ok  |-> entry # NoEntry /\ stuck = {},
              die |-> [abbrev |-> entry,
                       attrs |-> IF stuck = {} THEN Len(entry.attributes) ELSE Min(stuck)]]
-------------------------------------------------------------------------------
(* root() and type() keep a DIE d of the code, and look for it while it is *)
(* not valid: [answer, c, die].                                            *)
Kept(c, d, table, code) ==
    LET forced == ForceAbbrevs(c, table)
        read == ReadDie(forced.c, code)
    IN  CASE Valid(d) -> [answer |-> Gives(d), c |-> c, die |-> d]
          [] ~Valid(d) /\ ~forced.ok -> [answer |-> Throws, c |-> forced.c, die |-> d]
          [] OTHER -> [answer |-> IF read.ok THEN Gives(read.die) ELSE Throws,
                       c |-> forced.c, die |-> read.die]

Root(c, u) == LET kept == Kept(c, c.root, u.table, u.root)
              IN  [answer |-> kept.answer, c |-> [kept.c EXCEPT !.root = kept.die]]
Type(c, u) == LET kept == Kept(c, c.type, u.table, u.type)
              IN  [answer |-> kept.answer, c |-> [kept.c EXCEPT !.type = kept.die]]

Place(d, name) == {i \in DOMAIN d.abbrev.attributes : d.abbrev.attributes[i].name = name}

Loaded(type) == sections \union ({type} \intersect file.sections)
-------------------------------------------------------------------------------
NoAnswer == [kind |-> "none", of |-> 0, is |-> Throws]

Init == /\ file \in Files
        /\ units = [k \in DOMAIN file.units |-> NoCache]
        /\ type_units = <<>> /\ have_type_units = FALSE
        /\ sections = {} /\ request = NoAnswer /\ torn = {}

Answered(q, is) == request' = [kind |-> q.kind, of |-> q.of, is |-> is]
Torn(q, is) == torn' = IF is.ok THEN torn ELSE torn \union {<<q.kind, q.of>>}

AskRoot(k) ==
    LET q == [kind |-> "root", of |-> k]
        r == Root(units[k], file.units[k])
    IN  /\ units' = [units EXCEPT ![k] = r.c]
        /\ Answered(q, r.answer) /\ Torn(q, r.answer)
        /\ UNCHANGED <<file, type_units, have_type_units, sections>>

(* get_line_table: without a statement list, a name or a section the table *)
(* is invalid, which is not kept.                                          *)
AskLineTable(k) ==
    LET u == file.units[k]
        r == Root(units[k], u)
        d == r.c.root
        has == Place(d, "stmt_list") # {} /\ Place(d, "name") # {}
        wanted == Place(d, "stmt_list") \union Place(d, "name") \union Place(d, "comp_dir")
        absent == Max(wanted) > d.attrs
        Is(is, c) == /\ Answered([kind |-> "line table", of |-> k], is)
                     /\ units' = [units EXCEPT ![k] = c]
        Table(lt) == [ok |-> TRUE, is |-> <<lt>>]
    IN  /\ UNCHANGED <<file, type_units, have_type_units>>
        /\ IF units[k].lt # "invalid"
           THEN Is(Table(units[k].lt), units[k]) /\ UNCHANGED <<sections, torn>>
           ELSE /\ Torn([kind |-> "root", of |-> k], r.answer)
                /\ sections' = IF r.answer.ok /\ has THEN Loaded("line") ELSE sections
                /\ \/ ~r.answer.ok /\ Is(Throws, r.c)
                   \/ /\ r.answer.ok /\ (~has \/ "line" \notin file.sections)
                      /\ Is(Table("invalid"), r.c)
                   \/ /\ r.answer.ok /\ has /\ "line" \in file.sections /\ ~absent
                      /\ IF u.line = "good" THEN Is(Table("good"), [r.c EXCEPT !.lt = "good"])
                         ELSE Is(Throws, r.c)
                   \/ /\ r.answer.ok /\ has /\ "line" \in file.sections /\ absent
                      /\ \/ Is(Throws, r.c)
                         \/ Is(Table("garbage"), [r.c EXCEPT !.lt = "garbage"])

(* The type units with those read so far; of one signature the last stays. *)
EnteredTypes(map) ==
    LET Of(sig) == {i \in Read(file.types) : file.types[i].signature = sig}
    IN  [sig \in DOMAIN map \union {file.types[i].signature : i \in Read(file.types)} |->
            IF Of(sig) = {} THEN map[sig] ELSE [unit |-> file.types[Max(Of(sig))], c |-> NoCache]]

(* get_type_unit reads all type units until one throws; only a reading to  *)
(* the end is not done again.  It replaces the units it read before.       *)
AskType(sig) ==
    LET q == [kind |-> "type", of |-> sig]
        present == "types" \in file.sections
        read == IF have_type_units \/ ~present THEN type_units ELSE EnteredTypes(type_units)
        ok == have_type_units \/ (present /\ Bad(file.types) = {})
        found == ok /\ sig \in DOMAIN read
        t == Type(read[sig].c, read[sig].unit)
        is == IF found THEN t.answer ELSE Throws
    IN  /\ type_units' = IF found THEN [read EXCEPT ![sig].c = t.c] ELSE read
        /\ have_type_units' = ok
        /\ sections' = IF have_type_units THEN sections ELSE Loaded("types")
        /\ Answered(q, is) /\ Torn(q, is)
        /\ UNCHANGED <<file, units>>

AskSection(type) ==
    /\ sections' = Loaded(type)
    /\ Answered([kind |-> "section", of |-> type],
                IF type \in sections \union file.sections THEN [ok |-> TRUE, is |-> <<type>>] ELSE Throws)
    /\ UNCHANGED <<file, units, type_units, have_type_units, torn>>

Next == \/ \E k \in DOMAIN file.units : AskRoot(k) \/ AskLineTable(k)
        \/ \E sig \in {1, 2, 3} : AskType(sig)
        \/ \E type \in {"line", "types"} : AskSection(type)

Spec == Init /\ [][Next]_vars
===============================================================================
