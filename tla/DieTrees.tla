------------------------------- MODULE DieTrees -------------------------------
(***************************************************************************)
(* Walking the tree of debugging information entries, and the questions    *)
(* the debugger asks it (src/src/dwarf/die.cpp, rangelist.cpp, loclist.cpp,*)
(* die_str_map.cpp, semantic.cpp and the lookups of src/src/minidbg.cpp).  *)
(*                                                                         *)
(* Children follow their parent in the section, a null entry ends them;    *)
(* the end of a child with children of its own is found by walking them,   *)
(* unless it says where its sibling is.                                    *)
(***************************************************************************)
EXTENDS Dies, DieDocuments, LineTable

CONSTANTS
    Documents,   \* the debugging information files hold
    Questions,   \* what the debugger asks: [kind, of]
    Names,       \* the names a die_str_map is asked for
    Accept       \* the tags it accepts

VARIABLES
    doc,      \* the document
    it,       \* an iterator
    path,     \* where in the tree it should be: its unit and child numbers
    index,    \* a die_str_map of the first unit: its position, its map
    answer    \* the last question and what was answered

vars == <<file, units, doc, it, path, index, answer>>

ASSUME DieTreesAssumption == Accept \subseteq DOMAIN DW_TAG
-------------------------------------------------------------------------------
(* Iterators.                                                              *)

Begin(d) == IF Valid(d) /\ d.abbrev.children THEN ReadDie(d.unit, d.next)
            ELSE NullDie(0, 0, 0)

\* Mutant: the null entry behind the children is not passed.
RECURSIVE IncrementedInto(_)
IncrementedInto(d) ==
    LET RECURSIVE Ended(_)
        Ended(sub) == IF Valid(sub) THEN Ended(IncrementedInto(sub)) ELSE sub
    IN  CASE ~Valid(d) -> d
          [] Valid(d) /\ ~d.abbrev.children -> ReadDie(d.unit, d.next)
          [] Has(d, "sibling") -> AsReference(Value(d, "sibling"))
          [] OTHER -> ReadDie(d.unit, Ended(ReadDie(d.unit, d.next)).offset)

RECURSIVE Incremented(_)
Incremented(d) ==
    LET RECURSIVE Ended(_)
        Ended(sub) == IF Valid(sub) THEN Ended(Incremented(sub)) ELSE sub
    IN  CASE ~Valid(d) -> d
          [] Valid(d) /\ ~d.abbrev.children -> ReadDie(d.unit, d.next)
          [] Valid(d) /\ d.abbrev.children /\ Has(d, "sibling") -> AsReference(Value(d, "sibling"))
          [] OTHER -> ReadDie(d.unit, Ended(ReadDie(d.unit, d.next)).next)

RECURSIVE From(_)
From(d) == IF Valid(d) THEN <<d>> \o From(Incremented(d)) ELSE <<>>
Children(d) == From(Begin(d))
-------------------------------------------------------------------------------
(* Ranges of addresses.  An iterator over a list of ranges reads a pair at *)
(* a time; a pair may set the base of those behind it.                     *)

AllOnes(size) == Wrapped(IF 8 * size < WordBits THEN 2 ^ (8 * size) - 1 ELSE -1)

RECURSIVE RangesFrom(_, _, _, _)
RangesFrom(section, size, pos, base) ==
    LET Pair(low, high) ==
            IF ~low.ok \/ ~high.ok THEN [ok |-> FALSE, ranges |-> <<>>]
            ELSE IF low.value = 0 /\ high.value = 0 THEN [ok |-> TRUE, ranges |-> <<>>]
            ELSE IF low.value = AllOnes(size) THEN RangesFrom(section, size, high.pos, high.value)
            ELSE LET rest == RangesFrom(section, size, high.pos, base)
                 IN  [rest EXCEPT !.ranges =
                        <<<<Wrapped(low.value + base), Wrapped(high.value + base)>>>> \o @]
    IN  Pair(Address(section, pos, size), Address(section, pos + size, size))

AtLowPc(d) == AsAddress(Value(d, "low_pc"))

(* The base of a unit's lists is its own low_pc, or 0.                     *)
BaseOf(root) == IF Has(root, "low_pc") THEN AtLowPc(root) ELSE [ok |-> TRUE, value |-> 0]
RangelistAt(k, at, base) ==
    IF ~at.ok \/ ~base.ok THEN [ok |-> FALSE, ranges |-> <<>>]
    ELSE RangesFrom(Slice(file.ranges, at.value), units[k].addr_size, 0, base.value)
AsRangelist(v) == RangelistAt(v.unit, AsSecOffset(v), BaseOf(Root(v.unit)))

(* high_pc is an address, or the distance from low_pc.                     *)
Distant(low, by) == [ok |-> low.ok /\ by.ok, value |-> Wrapped(low.value + by.value)]
HighPc(v, low) == CASE v.type = "address" -> AsAddress(v)
                    [] v.type \in {"constant", "uconstant"} -> Distant(low, AsUconstant(v))
                    [] OTHER -> Thrown
AtHighPc(d) == HighPc(Value(d, "high_pc"), AtLowPc(d))

(* A pair of addresses is a list too, so (0, 0) is none.                   *)
PairList(low, high) ==
    [ok |-> low.ok /\ high.ok,
     ranges |-> IF ~low.ok \/ ~high.ok \/ {low.value, high.value} = {0} \/ low.value = Modulus - 1
                THEN <<>> ELSE <<<<low.value, high.value>>>>]

DiePcRange(d) ==
    IF Has(d, "ranges") THEN AsRangelist(Value(d, "ranges"))
    ELSE PairList(AtLowPc(d), IF Has(d, "high_pc") THEN AtHighPc(d)
                              ELSE Distant(AtLowPc(d), [ok |-> TRUE, value |-> 1]))

(* The list is read until a range contains the address, so what is wrong   *)
(* behind that is not seen.                                                *)
Covered(list, pc) == \E r \in Range(list.ranges) : r[1] <= pc /\ pc < r[2]
-------------------------------------------------------------------------------
(* The function at an address: find_pc looks at children first, and passes *)
(* over a function whose ranges cannot be read.                            *)

\* Mutant: a function is asked for its ranges before its children are.
RECURSIVE FindPcOutermost(_, _)
FindPcOutermost(d, pc) ==
    LET InChild(found, kid) == IF found = <<>> THEN FindPcOutermost(kid, pc) ELSE found
    IN  IF /\ d.abbrev.tag \in {"subprogram", "inlined_subroutine"}
           /\ Covered(DiePcRange(d), pc)
        THEN <<d>> ELSE FoldLeft(InChild, <<>>, Children(d))

(* The functions found, innermost first; none means not found.             *)
RECURSIVE FindPc(_, _)
FindPc(d, pc) ==
    LET InChild(found, kid) == IF found = <<>> THEN FindPc(kid, pc) ELSE found
        Around(below) == IF /\ d.abbrev.tag \in {"subprogram", "inlined_subroutine"}
                            /\ below # <<>> \/ Covered(DiePcRange(d), pc)
                         THEN Append(below, d) ELSE below
    IN  Around(FoldLeft(InChild, <<>>, Children(d)))

(* Lookups ask one unit after the other; the first that has anything to    *)
(* say, if only an exception, ends them.                                   *)
FirstAnswer(InUnit(_), none) ==
    LET Until(found, k) == IF found = <<>> THEN InUnit(k) ELSE found
        First(found) == IF found = <<>> THEN none ELSE Head(found)
    IN  First(FoldLeft(Until, <<>>, [k \in 1 .. Cardinality(CompilationUnits) |-> k]))

NoFunction == ThrownDie

GetFunctionFromPc(pc) ==
    LET Within(k, list) == IF Covered(list, pc) THEN FindPc(Root(k), pc)
                           ELSE IF list.ok THEN <<>> ELSE <<NoFunction>>
        InUnit(k) == Within(k, DiePcRange(Root(k)))
    IN  FirstAnswer(InUnit, NoFunction)

(* The row of an address, of the first unit that contains it.              *)
NoEntry == [unit |-> 0, row |-> NoRow]

GetLineEntryFromPc(pc) ==
    LET Within(k, list) ==
            IF Covered(list, pc) THEN <<[unit |-> k, row |-> FindAddress(doc.units[k].rows, pc)]>>
            ELSE IF list.ok THEN <<>> ELSE <<NoEntry>>
        InUnit(k) == Within(k, DiePcRange(Root(k)))
    IN  FirstAnswer(InUnit, NoEntry)
-------------------------------------------------------------------------------
(* The frame base of an expression's function, for DW_OP_fbreg.            *)

(* loclist::evaluate: each entry is a register, or a register and an       *)
(* offset; of entries with the same addresses the first counts, of others  *)
(* that contain the address the one that starts first.                     *)
IsReg(op)  == op \in 80 .. 110 \union {144}
IsBreg(op) == op \in 112 .. 142 \union {146}
RegisterOf(op, pos) == IF op \in {144, 146} THEN Uleb128(file.loc, pos)
                       ELSE [ok |-> IsReg(op) \/ IsBreg(op), pos |-> pos,
                             value |-> op - IF IsReg(op) THEN 80 ELSE 112]
OffsetOfReg(op, pos) == IF IsBreg(op) THEN Sleb128(file.loc, pos) ELSE [ok |-> TRUE, value |-> 0, pos |-> pos]

RECURSIVE LoclistFrom(_)
LoclistFrom(pos) ==
    LET With(low, high, register, offset) ==
            IF ~register.ok \/ ~offset.ok THEN [ok |-> FALSE, entries |-> <<>>]
            ELSE LET rest == LoclistFrom(offset.pos)
                 IN  [rest EXCEPT !.entries =
                        <<[low |-> low, high |-> high, register |-> register.value,
                           offset |-> offset.value]>> \o @]
        Based(low, high, op, register) == With(low, high, register, OffsetOfReg(op, register.pos))
        Entry(low, high, op) ==
            IF ~low.ok \/ ~high.ok THEN [ok |-> FALSE, entries |-> <<>>]
            ELSE IF low.value = 0 /\ high.value = 0 THEN [ok |-> TRUE, entries |-> <<>>]
            ELSE IF ~op.ok THEN [ok |-> FALSE, entries |-> <<>>]
            ELSE Based(low.value, high.value, op.value, RegisterOf(op.value, op.pos))
    IN  Entry(Fixed(file.loc, pos, 8), Fixed(file.loc, pos + 8, 8), Fixed(file.loc, pos + 18, 1))

None   == [ok |-> TRUE, at |-> <<>>]
Throws == [ok |-> FALSE, at |-> <<>>]
Is(at) == [ok |-> TRUE, at |-> at]

EntryFor(list, base, pc) ==
    LET here == Wrapped(pc - base.value)
        e(i) == list.entries[i]
        hits == {i \in DOMAIN list.entries : e(i).low <= here /\ here < e(i).high}
        Before(i, j) == \/ e(i).low < e(j).low
                        \/ e(i).low = e(j).low /\ e(i).high < e(j).high
                        \/ e(i).low = e(j).low /\ e(i).high = e(j).high /\ i <= j
        first == CHOOSE i \in hits : \A j \in hits : Before(i, j)
    IN  IF ~list.ok \/ ~base.ok \/ hits = {} THEN Throws
        ELSE Is(<<e(first).register, e(first).offset>>)

EvaluateLoclist(v, pc) ==
    LET at == Fixed(Bytes(v), v.offset, 4)
    IN  IF at.ok THEN EntryFor(LoclistFrom(at.value), AtLowPc(Root(v.unit)), pc) ELSE Throws

(* A DIE's last offset is the unit's, its first one the section's.  Its    *)
(* children are looked at, theirs are not.                                 *)
ContainsSectionOffset(d, offset) ==
    \E e \in {d} \union Range(Children(d)) : SectionOffset(e) <= offset /\ offset < e.next

(* The frame base of the first child of the unit that contains the offset: *)
(* the register and offset a location list gives, or its expression.       *)
FrameBaseOf(v, pc) ==
    CASE v.type = "loclist" -> EvaluateLoclist(v, pc)
      [] v.type = "exprloc" -> IF AsBlock(v).value = <<>> THEN Throws ELSE Is(AsBlock(v).value)
      [] OTHER -> Throws

FrameBase(k, offset, pc) ==
    LET Of(owners) == IF owners = <<>> THEN None ELSE FrameBaseOf(Value(Head(owners), "frame_base"), pc)
        Owns(d) == ContainsSectionOffset(d, offset)
    IN  Of(SelectSeq(Children(Root(k)), Owns))
-------------------------------------------------------------------------------
(* What commands ask.  An answer that is not ok has what came before the   *)
(* exception.                                                              *)

AtName(d) == AsCstr(Value(d, "name"))

(* break <name>: at every child of a unit with the name, the row behind    *)
(* the one its code starts in.                                             *)
RowsBehind(entries) ==
    LET bad == {i \in DOMAIN entries : entries[i].row = NoRow}
        upto == IF bad = {} THEN Len(entries) ELSE Min(bad) - 1
    IN  [ok |-> bad = {},
         at |-> [i \in 1 .. upto |-> doc.units[entries[i].unit].rows[entries[i].row + 1].address]]

FunctionBreakpoints(name) ==
    LET IsNamed(d) == Has(d, "name") /\ AtName(d).ok /\ AtName(d).value = name
        EntryAt(low) == IF low.ok THEN GetLineEntryFromPc(low.value) ELSE NoEntry
        Entries(dies) == [i \in DOMAIN dies |-> EntryAt(AtLowPc(dies[i]))]
    IN  RowsBehind(Entries(FlattenSeq([k \in 1 .. Cardinality(CompilationUnits) |->
                               SelectSeq(Children(Root(k)), IsNamed)])))

(* break <file>:<line>: the first such row of the first unit that has one; *)
(* the last row of a table is never looked at.                             *)
LineBreakpoints(suffix, line) ==
    LET rows(k) == doc.units[k].rows
        hits(k) == {i \in 1 .. Len(rows(k)) - 1 : rows(k)[i].line = line /\ rows(k)[i].is_stmt}
        Within(k, name) ==
            IF ~name.ok THEN <<Throws>>
            ELSE IF IsSuffix(suffix, name.value) /\ hits(k) # {}
            THEN <<Is(<<rows(k)[Min(hits(k))].address>>)>> ELSE <<>>
        InUnit(k) == Within(k, AtName(Root(k)))
    IN  FirstAnswer(InUnit, None)

(* A location's kind, from its first operation (see DwarfExpr); where      *)
(* fbreg finds no function its operand is executed in its stead.           *)
RECURSIVE LocationKind(_, _, _)
LocationKind(v, block, pc) ==
    LET ByFrame(base) == IF ~base.ok THEN "other"
                         ELSE IF base = None THEN LocationKind(v, Tail(block), pc) ELSE "address"
    IN  IF block = <<>> THEN "other"
        ELSE CASE Head(block) \in 80 .. 111 \union {144}      -> "reg"
               [] Head(block) \in {3, 146} \union 112 .. 143  -> "address"
               [] Head(block) = 145 -> ByFrame(FrameBase(v.unit, AsExprloc(v).pos, pc))
               [] OTHER -> "other"

(* variables: what is in a register is printed at once, then the arguments *)
(* in memory, then the locals; the first that cannot be located ends it.   *)
PrintedNames(wanted, kind, of, tags) ==
    LET NamesAt(S) == [n \in 1 .. Cardinality(S) |-> AtName(wanted[SetToSortSeq(S, <)[n]]).value]
    IN  NamesAt({i \in DOMAIN kind : kind[i] = of /\ wanted[i].abbrev.tag \in tags})

Listing(wanted, kind, bad) ==
    LET PrintedOf(of, tags) == PrintedNames(wanted, IF bad = {} THEN kind ELSE SubSeq(kind, 1, Min(bad) - 1), of, tags)
        With(registers) ==
            IF bad # {} THEN [ok |-> FALSE, at |-> registers]
            ELSE Is(registers \o PrintedOf("address", {"formal_parameter"}) \o PrintedOf("address", {"variable"}))
    IN  With(PrintedOf("reg", {"variable", "formal_parameter"}))

ReadVariables(pc) ==
    LET IsWanted(d) == d.abbrev.tag \in {"variable", "formal_parameter"}
        Kind(v, name) == IF v.type = "exprloc" /\ AsBlock(v).ok /\ name.ok
                         THEN LocationKind(v, AsBlock(v).value, pc) ELSE "other"
        Printed(wanted, kind) == Listing(wanted, kind, {i \in DOMAIN kind : kind[i] = "other"})
        List(wanted) == Printed(wanted, [i \in DOMAIN wanted |->
                                    Kind(Value(wanted[i], "location"), AtName(wanted[i]))])
        Of(func) == IF Valid(func) THEN List(SelectSeq(Children(func), IsWanted)) ELSE Throws
    IN  Of(GetFunctionFromPc(pc))

Main == <<109, 97, 105, 110>>

(* backtrace: the functions of the return addresses, until one is main.    *)
Frames(func) ==
    LET Printable(d) == Valid(d) /\ AtLowPc(d).ok /\ AtName(d).ok
        UpTo(last, ok) == [ok |-> ok, at |-> [i \in 1 .. IF ok THEN last ELSE last - 1 |->
                                                <<func[i].unit, func[i].offset>>]]
        To(last) == UpTo(last, Printable(func[last]))
    IN  To(Min({i \in DOMAIN func : ~Printable(func[i]) \/ AtName(func[i]).value = Main}))

PrintBacktrace(chain) == Frames([i \in DOMAIN chain |-> GetFunctionFromPc(chain[i])])
-------------------------------------------------------------------------------
(* Attributes that another DIE has.                                        *)

(* subroutine::get_name and coordinates: what is not at the instance is    *)
(* resolved; a missing name is empty, a missing number 0.                  *)
NameIn(v) == IF v = NoValue THEN <<>> ELSE AsCstr(v).value
LineIn(v) == IF v = NoValue THEN 0 ELSE AsUconstant(v).value
GetName(d) == NameIn(Resolve(d, "name"))
GetLine(d, call) == LineIn(Resolve(d, IF call THEN "call_line" ELSE "decl_line"))

(* _at_udynamic follows a reference to the same attribute of another DIE,  *)
(* no more than sixteen times.                                             *)
RECURSIVE AtUdynamic(_, _, _)
AtUdynamic(name, d, depth) ==
    LET v == Value(d, name)
    IN  CASE depth > 16 -> Thrown
          [] depth <= 16 /\ v.type \in {"constant", "uconstant"} -> AsUconstant(v)
          [] depth <= 16 /\ v.type = "reference" -> AtUdynamic(name, AsReference(v), depth + 1)
          [] OTHER -> Thrown
-------------------------------------------------------------------------------
(* die_str_map: an index of children by name, built as far as it was       *)
(* needed.  The child looked at is a reference into the iterator, which is *)
(* incremented first: it is the next child.                                *)

Mapped(map, str, d) == [s \in DOMAIN map \union {str} |-> IF s = str THEN d ELSE map[s]]

\* Mutant: any DIE with the name will do.
RECURSIVE IndexedAny(_, _, _)
IndexedAny(pos, map, name) ==
    LET Passed(d, str) == IF str = name THEN [pos |-> d, map |-> Mapped(map, str, d)]
                          ELSE IndexedAny(d, Mapped(map, str, d), name)
        Look(d) == IF ~Has(d, "name") THEN IndexedAny(d, map, name) ELSE Passed(d, AtName(d).value)
    IN  IF Valid(pos) THEN Look(Incremented(pos)) ELSE [pos |-> pos, map |-> map]

RECURSIVE Indexed(_, _, _)
Indexed(pos, map, name) ==
    LET Passed(d, str) == IF str = name THEN [pos |-> d, map |-> Mapped(map, str, d)]
                          ELSE Indexed(d, Mapped(map, str, d), name)
        Look(d) == IF ~Has(d, "name") \/ d.abbrev.tag \notin Accept \/ Value(d, "name").type # "string"
                  THEN Indexed(d, map, name) ELSE Passed(d, AtName(d).value)
    IN  IF Valid(pos) THEN Look(Incremented(pos)) ELSE [pos |-> pos, map |-> map]

NoDie == NullDie(0, 0, 0)
Found(ix, name) == IF name \in DOMAIN ix.map THEN ix.map[name] ELSE NoDie
-------------------------------------------------------------------------------
NoQuestion == [kind |-> "none", of |-> 0, is |-> 0]

Init == /\ doc \in Documents
        /\ file = Encode(doc)
        /\ units = <<>>
        /\ it = NoDie
        /\ path = <<>>
        /\ index = [pos |-> NoDie, map |-> <<>>]
        /\ answer = NoQuestion

Loaded == units # <<>>

(* The file is opened: its units are read; a header that cannot be read    *)
(* throws, and nothing is opened.                                          *)
Load == /\ ~Loaded
        /\ units' = UnitsFrom("compile", file.info, 0) \o UnitsFrom("type", file.types, 0)
        /\ \A k \in DOMAIN units' : units'[k].ok
        /\ UNCHANGED <<file, doc, it, path, index, answer>>

Moves(d, p) == it' = d /\ path' = p /\ UNCHANGED <<file, units, doc, index, answer>>

(* A walk: it begins at a unit's root, and goes to the first child of a    *)
(* DIE or, with ++, to the next child.                                     *)
WalkFrom(k)  == path = <<>> /\ answer.kind = "none" /\ Moves(Root(k), <<k>>)
WalkDown     == path # <<>> /\ Valid(it) /\ Moves(Begin(it), Append(path, 1))
WalkForward  == Len(path) > 1 /\ Valid(it) /\ Moves(Incremented(it), [path EXCEPT ![Len(path)] = @ + 1])

(* The DIE at a place, for the questions about one.                        *)
RECURSIVE DieAt(_)
DieAt(p) ==
    LET Kid(kids) == IF Last(p) \in DOMAIN kids THEN kids[Last(p)] ELSE NoDie
    IN  IF Len(p) = 1 THEN Root(p[1]) ELSE Kid(Children(DieAt(Front(p))))

(* A question is asked once, of an iterator-less state.                    *)
Asking(kind) == {q \in Questions : q.kind = kind}
AnswersWith(q, is) == /\ Loaded /\ path = <<>> /\ answer.kind = "none"
                      /\ answer' = [kind |-> q.kind, of |-> q.of, is |-> is]
                      /\ UNCHANGED <<file, units, doc, it, path, index>>

PlaceOf(f) == IF Valid(f) THEN Is(<<f.unit, f.offset>>) ELSE Throws
AskFunction  == \E q \in Asking("function") : AnswersWith(q, PlaceOf(GetFunctionFromPc(q.of)))
AskVariables == \E q \in Asking("variables") : AnswersWith(q, ReadVariables(q.of))
AskBacktrace == \E q \in Asking("backtrace") : AnswersWith(q, PrintBacktrace(q.of))
AskBreak     == \E q \in Asking("break") : AnswersWith(q, FunctionBreakpoints(q.of))
AskBreakLine == \E q \in Asking("break line") : AnswersWith(q, LineBreakpoints(q.of[1], q.of[2]))
AskFrameBase ==
    \E q \in Asking("frame base") :
        /\ Loaded /\ q.of[1] \in Paths(doc) /\ Has(DieAt(q.of[1]), "location")
        /\ AnswersWith(q, FrameBase(q.of[1][1],
                                    AsExprloc(Value(DieAt(q.of[1]), "location")).pos, q.of[2]))

Answers(name, ix) == /\ index' = ix
                     /\ answer' = [kind |-> "index", of |-> name, is |-> Found(ix, name)]

LookUp ==
    /\ Loaded /\ path = <<>> /\ answer.kind \in {"none", "index"}
    /\ \E name \in Names :
          Answers(name, IF name \in DOMAIN index.map THEN index
                        ELSE Indexed(IF answer.kind = "none" THEN Begin(Root(1)) ELSE index.pos,
                                     index.map, name))
    /\ UNCHANGED <<file, units, doc, it, path>>

Next == \/ Load
        \/ \E k \in DOMAIN units : WalkFrom(k)
        \/ WalkDown \/ WalkForward
        \/ AskFunction \/ AskVariables \/ AskBacktrace \/ AskBreak \/ AskBreakLine \/ AskFrameBase
        \/ LookUp

Spec == Init /\ [][Next]_vars
-------------------------------------------------------------------------------
(* What the document says, to compare with.                                *)

Place(p) == <<p[1], OffsetOf(doc, p)>>
Own(node, name) == {i \in DOMAIN node.attrs : node.attrs[i].name = name}
Given(node, name) == node.attrs[Min(Own(node, name))].value

(* A node's own attribute, or that of the node it is an instance of.       *)
RECURSIVE Inherited(_, _)
Inherited(p, name) ==
    LET node == NodeAt(doc, p)
        links == {l \in {"abstract_origin", "specification"} : Own(node, l) # {}}
    IN  IF Own(node, name) # {} THEN {Given(node, name)}
        ELSE UNION {Inherited(Given(node, l), name) : l \in links}

(* A bound that refers to another one is that one, unless it never ends.   *)
RECURSIVE Bound(_, _)
Bound(p, steps) ==
    LET node == NodeAt(doc, p)
        i == Min(Own(node, "upper_bound"))
    IN  IF steps = 0 THEN {}
        ELSE IF node.attrs[i].form = "ref4" THEN Bound(node.attrs[i].value, steps - 1)
        ELSE {node.attrs[i].value}

Functions(k, pc) == {p \in Paths(doc) : /\ p[1] = k /\ pc \in NodeAt(doc, p).pcs
                                        /\ NodeAt(doc, p).tag \in {"subprogram", "inlined_subroutine"}}
HasCode(pc)   == {k \in CompilationUnits : pc \in doc.units[k].tree.pcs}
Hidden(k)   == \E j \in CompilationUnits : j < k /\ doc.units[j].tree.pcs = {}

(* The innermost function, unless a unit without code comes before it.     *)
FunctionAt(pc) ==
    LET within == {k \in HasCode(pc) : Functions(k, pc) # {}}
        paths == Functions(Min(within), pc)
    IN  IF within = {} \/ Hidden(Min(within)) THEN <<>>
        ELSE CHOOSE p \in paths : \A o \in paths : Len(o) <= Len(p)

(* The address behind the row that a function starts with.                 *)
Prologue(p) ==
    LET starts == Min(NodeAt(doc, p).pcs)
        rows == doc.units[Min(HasCode(starts))].rows
    IN  Min({r.address : r \in {e \in Range(rows) : e.address > starts}})

(* A variable with a register, or with a place in the frame of a function  *)
(* that is a child of the first unit.                                      *)
InRegister(node) == Head(Given(node, "location")) \in 80 .. 111
InFrame(p, pc) == /\ p[1] = 1 /\ Len(p) = 2
                  /\ \E e \in Range(NodeAt(doc, p).frame) : pc \in e.pcs
Locatable(p, node, pc) == /\ Own(node, "location") # {} /\ Own(node, "name") # {}
                          /\ InRegister(node) \/ InFrame(p, pc)

(* The elements before the first that is bad.                              *)
Before(list, bad) == IF bad = {} THEN list ELSE SubSeq(list, 1, Min(bad) - 1)
GivenNames(list) == [i \in DOMAIN list |-> Given(list[i], "name")]

ExpectedPlace(p) == IF p = <<>> THEN Throws ELSE Is(Place(p))

Listed(sound, seen) ==
    LET registers == GivenNames(SelectSeq(seen, InRegister))
        Local(tag) == GivenNames(SelectSeq(seen, LAMBDA n : n.tag = tag /\ ~InRegister(n)))
    IN  IF sound THEN Is(registers \o Local("formal_parameter") \o Local("variable"))
        ELSE [ok |-> FALSE, at |-> registers]

ExpectedVariables(p, pc) ==
    LET IsOne(n) == n.tag \in {"variable", "formal_parameter"}
        Of(list, bad) == Listed(bad = {}, Before(list, bad))
        In(list) == Of(list, {i \in DOMAIN list : ~Locatable(p, list[i], pc)})
    IN  IF p = <<>> THEN Throws ELSE In(SelectSeq(NodeAt(doc, p).kids, IsOne))

HasName(p) == p # <<>> /\ Own(NodeAt(doc, p), "name") # {}
ExpectedFrames(p) ==
    LET UpTo(last, named) == [ok |-> named, at |-> [i \in 1 .. IF named THEN last ELSE last - 1 |-> Place(p[i])]]
        To(last) == UpTo(last, HasName(p[last]))
    IN  To(Min({i \in DOMAIN p : ~HasName(p[i]) \/ Given(NodeAt(doc, p[i]), "name") = Main}))

ExpectedStops(name) ==
    LET IsNamed(p) == HasName(p) /\ Given(NodeAt(doc, p), "name") = name
        NoRowOf(p) == \/ NodeAt(doc, p).pcs = {}
                      \/ Hidden(Min(HasCode(Min(NodeAt(doc, p).pcs))))
        Kids(k) == [i \in DOMAIN doc.units[k].tree.kids |-> <<k, i>>]
        Rows(kids) == [i \in DOMAIN kids |-> Prologue(kids[i])]
        Stops(kids, bad) == [ok |-> bad = {}, at |-> Rows(Before(kids, bad))]
        In(kids) == Stops(kids, {i \in DOMAIN kids : NoRowOf(kids[i])})
    IN  In(SelectSeq(FlattenSeq([k \in 1 .. Cardinality(CompilationUnits) |-> Kids(k)]), IsNamed))

ExpectedLine(suffix, line) ==
    LET IsStop(r) == r.line = line /\ r.is_stmt /\ ~r.end_sequence
        Rows(k) == SelectSeq(doc.units[k].rows, IsStop)
        First(in) == IF in = {} THEN <<>> ELSE <<Head(Rows(Min(in))).address>>
    IN  Is(First({k \in CompilationUnits : /\ IsSuffix(suffix, Given(doc.units[k].tree, "name"))
                                           /\ Rows(k) # <<>>}))

ExpectedFrameBase(p, pc) ==
    LET Of(entries) == IF entries = {} THEN Throws ELSE Is((CHOOSE e \in entries : TRUE).is)
    IN  IF p[1] # 1 \/ Len(p) > 3 THEN None
        ELSE Of({e \in Range(NodeAt(doc, SubSeq(p, 1, 2)).frame) : pc \in e.pcs})

Expected(kind, of) ==
    CASE kind = "function"   -> ExpectedPlace(FunctionAt(of))
      [] kind = "variables"  -> ExpectedVariables(FunctionAt(of), of)
      [] kind = "backtrace"  -> ExpectedFrames([i \in DOMAIN of |-> FunctionAt(of[i])])
      [] kind = "break"      -> ExpectedStops(of)
      [] kind = "break line" -> ExpectedLine(of[1], of[2])
      [] kind = "frame base" -> ExpectedFrameBase(of[1], of[2])
-------------------------------------------------------------------------------
(* A value, by the accessor of its type.                                   *)
Reads(result, value) == result.ok /\ result.value = value
Refers(d, place) == d.ok /\ <<d.unit, d.offset>> = place

Means(v, p, attr) ==
    CASE v.form = "indirect" -> v.type = TypeOf(attr.name, attr.value.form)
      [] v.form # "indirect" /\ v.type = "reference" ->
           Refers(AsReference(v), IF attr.name = "sibling"
                                  THEN <<p[1], OffsetOf(doc, p) + NodeSize(doc.units[p[1]], NodeAt(doc, p))>>
                                  ELSE Place(attr.value))
      [] v.type = "string"    -> Reads(AsCstr(v), attr.value)
      [] v.type \in {"block", "exprloc"} ->
           Reads(AsBlock(v), attr.value) /\ Reads(AsExprloc(v), Len(attr.value))
      [] v.type = "flag"      -> Reads(AsFlag(v), Min({1, attr.value}))
      [] v.type = "address"   -> Reads(AsAddress(v), attr.value)
      [] v.type = "sconstant" -> Reads(AsSconstant(v), Wrapped(attr.value))
      [] v.type \in {"constant", "uconstant"} -> Reads(AsUconstant(v), attr.value)
      [] OTHER                -> Reads(AsSecOffset(v), attr.value)

Known(result) == IF result.ok THEN {result.value} ELSE {}

(* A walk that goes down and forward, over the bytes and by whatever means *)
(* it finds the ends of subtrees, is at the DIE of the node it should be   *)
(* at, or at the end where there is none; every attribute is the node's,   *)
(* by the accessor of its type; references are to the nodes meant, of      *)
(* whatever unit; an instance has the name and line of its declaration.    *)
ReadsAreTheTree ==
    path # <<>> =>
        IF path \notin Paths(doc) THEN it.ok /\ ~Valid(it)
        ELSE LET node == NodeAt(doc, path)
                 read == Attributes(it)
             IN  /\ Valid(it) /\ Refers(it, Place(path))
                 /\ it.abbrev.tag = node.tag
                 /\ Len(read) = Len(node.attrs)
                 /\ \A i \in DOMAIN read :
                        /\ read[i] = <<node.attrs[i].name, Value(it, node.attrs[i].name)>>
                        /\ Means(read[i][2], path, node.attrs[i])
                 /\ Inherited(path, "name") = {GetName(it)} \ {<<>>}
                 /\ Inherited(path, "decl_line") = {GetLine(it, FALSE)} \ {0}
                 /\ Own(node, "upper_bound") # {} =>
                        Known(AtUdynamic("upper_bound", it, 0)) = Bound(path, Cardinality(Paths(doc)))

(* What commands make of the tree is what the program it describes has:    *)
(* the innermost function at an address, its variables, the functions of a *)
(* stack up to main, the addresses of a function or line to stop at, and   *)
(* the frame base of a variable's function, up to the first exception.     *)
AnswersAreTheProgram ==
    answer.kind \notin {"none", "index"} => answer.is = Expected(answer.kind, answer.of)

(* A string map gives what it was asked for: a child of the unit with the  *)
(* name and an accepted tag; and none only if there is none behind the     *)
(* first child, whatever it was asked before.                              *)
IndexAnswersChild ==
    answer.kind = "index" =>
        LET kids == doc.units[1].tree.kids
            fit == {i \in DOMAIN kids \ {1} : /\ kids[i].tag \in Accept /\ Own(kids[i], "name") # {}
                                              /\ Given(kids[i], "name") = answer.of}
        IN  IF Valid(answer.is)
            THEN \E i \in fit : <<answer.is.unit, answer.is.offset>> = Place(<<1, i>>)
            ELSE fit = {}
===============================================================================
