----------------------------- MODULE MCDieTrees ------------------------------
(***************************************************************************)
(* Documents for DieTrees: one program, of two units with code, one        *)
(* without and a type unit, encoded in the ways compilers do.              *)
(***************************************************************************)
EXTENDS DieTrees

\* Names: int, f, g, m, s, x, y, z, and the files a.c, b.c, c.c.
IntName == <<105>>
F == <<102>>
G == <<103>>
M == <<109>>
S == <<115>>
X == <<120>>
Y == <<121>>
Z == <<122>>
FileA == <<97, 46, 99>>
FileB == <<98, 46, 99>>
FileC == <<99, 46, 99>>

At(name, form, value) == <<[name |-> name, form |-> form, value |-> value]>>
Node(tag, attrs, kids) == [tag |-> tag, attrs |-> attrs, kids |-> kids, pcs |-> {}, frame |-> <<>>]
Code(tag, attrs, kids, pcs, frame) == [Node(tag, attrs, kids) EXCEPT !.pcs = pcs, !.frame = frame]

\* A way to encode: the form of names and of high_pc, whether there are
\* siblings, whether a unit has a list of ranges, the size of offsets and
\* of addresses, and where the unit without code is.
NameAs(w, name)  == At("name", IF w.high = "addr" THEN "strp" ELSE "string", name)
HighAs(w, lo, hi) == At("high_pc", w.high, IF w.high = "addr" THEN hi ELSE hi - lo)
PcAs(w, lo, hi)  == At("low_pc", "addr", lo) \o HighAs(w, lo, hi)
SiblingAs(w)     == IF w.sibling THEN At("sibling", "ref4", 0) ELSE <<>>
Word2(w, n)      == [i \in 1 .. w.size |-> IF i = 1 THEN n % 256 ELSE n \div 256]
Pair(w, lo, hi)  == Word2(w, lo) \o Word2(w, hi)

\* 4 + [12, 28) = [16, 32), and 32 + [0, 16) behind a new base.
RangesAs(w) == <<7>> \o Pair(w, 12, 28) \o Pair(w, 256 ^ w.size - 1, 32) \o Pair(w, 0, 16) \o Pair(w, 0, 0)

\* Register 6 at [16, 32); and an entry that starts behind it, and is not looked at.
Eight(n) == LittleEndian(n, 8)
LocAs(w) == LET base == IF w.ranged THEN 4 ELSE 16
            IN  <<0>> \o Eight(20 - base) \o Eight(32 - base) \o <<2, 0, 119, 8>>
                      \o Eight(16 - base) \o Eight(32 - base) \o <<1, 0, 146, 6, 0>>
                      \o Eight(0) \o Eight(0)

Kids1(w, k) == <<
    Node("base_type", NameAs(w, IntName) \o At("byte_size", "data1", 4), <<>>),
    Code("subprogram", SiblingAs(w) \o NameAs(w, F) \o PcAs(w, 16, 32) \o At("external", "flag_present", 1)
             \o At("decl_line", "udata", 300)
             \o At("frame_base", IF w.ranged THEN "sec_offset" ELSE "data4", 1), <<
        Node("formal_parameter", NameAs(w, X) \o At("type", "ref4", <<k, 1>>)
               \o At("location", "exprloc", <<145, 0>>), <<>>),
        Node("variable", NameAs(w, Y) \o At("location", "block1", <<145, 4>>)
               \o At("type", "ref_udata", <<k, 5>>), <<>>),
        Node("lexical_block", <<>>, <<
            Node("variable", NameAs(w, Z) \o At("location", "exprloc", <<145, 8>>), <<>>)>>),
        Code("inlined_subroutine", At("abstract_origin", "ref2", <<k, 4>>) \o PcAs(w, 20, 24)
               \o At("call_line", "data1", 5), <<>>, 20 .. 23, <<>>),
        Node("lexical_block", SiblingAs(w), <<>>)>>,
        16 .. 31, <<[pcs |-> 16 .. 31, is |-> <<6, 0>>]>>),
    Code("subprogram", NameAs(w, Main) \o PcAs(w, 32, 48) \o At("frame_base", "exprloc", <<156>>), <<
        Node("variable", NameAs(w, Y) \o At("location", "exprloc", <<145, 0>>), <<>>),
        Node("variable", NameAs(w, X) \o At("location", "exprloc", <<80>>), <<>>),
        Node("formal_parameter", NameAs(w, Z) \o At("location", "exprloc", <<145, 8>>), <<>>)>>,
        32 .. 47, <<[pcs |-> 32 .. 47, is |-> <<156>>]>>),
    Node("subprogram", NameAs(w, G) \o At("inline_", "data1", 1) \o At("decl_line", "data2", 7)
           \o At("prototyped", "flag", 1), <<>>),
    Node("structure_type", SiblingAs(w) \o NameAs(w, S), <<
        Node("subprogram", NameAs(w, M) \o At("declaration", "flag_present", 1)
               \o At("decl_line", "data4", 9), <<>>)>>),
    Node("typedef_", NameAs(w, S), <<>>),
    Node("structure_type", NameAs(w, S) \o At("declaration", "flag", 1), <<>>),
    Node("subrange_type", At("upper_bound", "ref4", <<k, 9>>), <<>>),
    Node("subrange_type", At("upper_bound", "data8", 11), <<>>),
    Node("subrange_type", At("upper_bound", "ref4", <<k, 10>>), <<>>)>>

Unit1(w, k) ==
    [kind |-> "compile", fmt |-> w.fmt, addr_size |-> w.size,
     tree |-> Code("compile_unit", NameAs(w, FileA) \o At("stmt_list", "data4", 0)
                   \o IF w.ranged THEN At("low_pc", "addr", 4) \o At("ranges", "sec_offset", 1)
                      ELSE PcAs(w, 16, 48), Kids1(w, k), 16 .. 47, <<>>),
     rows |-> <<[address |-> 16, line |-> 1, is_stmt |-> TRUE, end_sequence |-> FALSE],
                [address |-> 18, line |-> 2, is_stmt |-> FALSE, end_sequence |-> FALSE],
                [address |-> 20, line |-> 2, is_stmt |-> TRUE, end_sequence |-> FALSE],
                [address |-> 32, line |-> 5, is_stmt |-> TRUE, end_sequence |-> FALSE],
                [address |-> 34, line |-> 6, is_stmt |-> TRUE, end_sequence |-> FALSE],
                [address |-> 48, line |-> 6, is_stmt |-> TRUE, end_sequence |-> TRUE]>>]

Unit2(w, k, one, types) ==
    [kind |-> "compile", fmt |-> w.fmt, addr_size |-> w.size,
     tree |-> Code("compile_unit", NameAs(w, FileB) \o PcAs(w, 48, 64), <<
        Code("subprogram", At("specification", "ref_addr", <<one, 5, 1>>) \o PcAs(w, 48, 60), <<
            Node("variable", NameAs(w, Y) \o At("type", "ref_sig8", <<types, 1>>), <<>>)>>,
            48 .. 59, <<>>),
        Node("variable", NameAs(w, Z) \o At("const_value", "block2", <<1, 0, 2>>)
               \o At("type", "ref1", <<k, 3>>), <<>>),
        Node("constant", At("const_value", "sdata", 65) \o At("default_value", "block4", <<3>>)
               \o At("discr_list", "block", <<4, 5>>), <<>>),
        Node("constant", At("const_value", "indirect", [form |-> "data2", value |-> 513])
               \o At("external", "flag", 0), <<>>),
        Code("subprogram", NameAs(w, F) \o At("low_pc", "addr", 60) \o HighAs(w, 60, 64), <<
            Node("variable", NameAs(w, X) \o At("location", "exprloc", <<145, 0>>), <<>>)>>,
            60 .. 63, <<>>)>>, 48 .. 63, <<>>),
     rows |-> <<[address |-> 48, line |-> 5, is_stmt |-> TRUE, end_sequence |-> FALSE],
                [address |-> 52, line |-> 21, is_stmt |-> TRUE, end_sequence |-> FALSE],
                [address |-> 60, line |-> 30, is_stmt |-> TRUE, end_sequence |-> FALSE],
                [address |-> 62, line |-> 31, is_stmt |-> TRUE, end_sequence |-> FALSE],
                [address |-> 64, line |-> 31, is_stmt |-> TRUE, end_sequence |-> TRUE]>>]

\* A unit without code: it has no addresses at all.
Unit3(w) ==
    [kind |-> "compile", fmt |-> w.fmt, addr_size |-> w.size,
     tree |-> Node("compile_unit", NameAs(w, FileC), <<
        Node("base_type", NameAs(w, IntName), <<>>), Node("variable", NameAs(w, F), <<>>)>>),
     rows |-> <<>>]

TypeUnit(w, k) ==
    [kind |-> "type", fmt |-> w.fmt, addr_size |-> w.size, signature |-> 77, type |-> <<k, 1>>,
     tree |-> Node("type_unit", At("language", "data2", 12), <<
        Node("union_type", NameAs(w, S), <<>>)>>),
     rows |-> <<>>]

Ways == {[high |-> h, sibling |-> s, ranged |-> r, codeless |-> c,
          fmt |-> IF r = s THEN 4 ELSE 8, size |-> IF s THEN 1 ELSE 2] :
         h \in {"addr", "data1", "udata"}, s \in BOOLEAN, r \in BOOLEAN,
         c \in {"none", "first", "between"}}

Document(w) ==
    [units |-> CASE w.codeless = "none"    -> <<Unit1(w, 1), Unit2(w, 2, 1, 3), TypeUnit(w, 3)>>
                 [] w.codeless = "first"   -> <<Unit3(w), Unit1(w, 2), Unit2(w, 3, 2, 4), TypeUnit(w, 4)>>
                 [] w.codeless = "between" -> <<Unit1(w, 1), Unit3(w), Unit2(w, 3, 1, 4), TypeUnit(w, 4)>>,
     str |-> FlattenSeq([i \in 1 .. 12 |->
                Append(<<IntName, F, G, M, S, X, Y, Z, FileA, FileB, FileC, Main>>[i], 0)]),
     ranges |-> RangesAs(w), loc |-> LocAs(w)]

MCDocuments == {Document(w) : w \in Ways}

Question(kind, of) == [kind |-> kind, of |-> of]
MCQuestions ==
    {Question("function", pc) : pc \in {15, 16, 20, 23, 24, 31, 32, 47, 48, 60, 63, 64}}
    \union {Question("variables", pc) : pc \in {16, 22, 40, 50, 61, 64}}
    \union {Question("backtrace", chain) : chain \in
               {<<40>>, <<17, 40>>, <<61, 17, 33>>, <<22, 40>>, <<17, 50, 40>>, <<17, 5>>}}
    \union {Question("break", name) : name \in {F, Main, G, M, IntName}}
    \union {Question("break line", of) : of \in
               {<<FileA, 2>>, <<FileB, 5>>, <<FileA, 5>>, <<<<46, 99>>, 5>>, <<FileC, 5>>, <<<<>>, 31>>}}
    \union {Question("frame base", of) : of \in
               {<<<<1, 2, 1>>, 16>>, <<<<1, 2, 2>>, 21>>, <<<<1, 2, 3, 1>>, 17>>, <<<<1, 3, 1>>, 33>>,
                <<<<2, 5, 1>>, 61>>, <<<<3, 5, 1>>, 61>>}}

MCAccept == {"structure_type", "union_type", "base_type", "subprogram"}
MCNames  == {IntName, F, S, G, Z}
===============================================================================
