----------------------------- MODULE DieDocuments -----------------------------
(***************************************************************************)
(* Debugging information as a compiler means it, and the sections it       *)
(* writes: the reference that Dies.tla and DieTrees.tla are held against.  *)
(* No code of the repository writes DWARF.                                 *)
(*                                                                         *)
(* A document is a sequence of units.  A unit has a tree of nodes, the     *)
(* rows of its line table and, as data of the reference only, the set of   *)
(* addresses its code has; so does a node.  A node's attributes are        *)
(* [name, form, value]; the value of a reference is the path of a node: a  *)
(* unit and the numbers of children on the way down from its root.         *)
(***************************************************************************)
EXTENDS DwarfCodes, Integers, SequencesExt, FiniteSetsExt

(* Little-endian, of numbers below 2^24.                                   *)
LittleEndian(n, size) == [i \in 1 .. size |-> IF i <= 3 THEN (n \div 256 ^ (i - 1)) % 256 ELSE 0]
PaddedLeb(n) == <<128 + (n % 128), (n \div 128) % 128>>

(* The specification of a node that its abbreviation holds.                *)
Specification(node) ==
    [tag |-> node.tag, children |-> node.kids # <<>> \/ node.tag = "lexical_block",
     specs |-> [i \in DOMAIN node.attrs |-> <<node.attrs[i].name, node.attrs[i].form>>]]

RECURSIVE SpecificationsBelow(_)
SpecificationsBelow(node) ==
    <<Specification(node)>> \o FlattenSeq([i \in DOMAIN node.kids |-> SpecificationsBelow(node.kids[i])])
Specifications(d) ==
    LET Add(specs, s) == IF s \in Range(specs) THEN specs ELSE Append(specs, s)
    IN  FoldLeft(Add, <<>>, FlattenSeq([k \in DOMAIN d.units |-> SpecificationsBelow(d.units[k].tree)]))

RECURSIVE NodeUnder(_, _)
NodeUnder(node, path) == IF path = <<>> THEN node
                         ELSE NodeUnder(node.kids[Head(path)], Tail(path))
NodeAt(d, path) == NodeUnder(d.units[Head(path)].tree, Tail(path))
Parent(d, path) == NodeAt(d, Front(path))

RECURSIVE PathsUnder(_, _)
PathsUnder(node, path) ==
    {path} \union UNION {PathsUnder(node.kids[i], Append(path, i)) : i \in DOMAIN node.kids}
Paths(d) == UNION {PathsUnder(d.units[k].tree, <<k>>) : k \in DOMAIN d.units}
-------------------------------------------------------------------------------
(* Sizes and places.                                                       *)

AttrSize(u, form, value) ==
    CASE form = "addr" -> u.addr_size
      [] form \in {"sec_offset", "ref_addr", "strp"} -> u.fmt
      [] form \in {"data1", "ref1", "flag"} -> 1
      [] form \in {"data2", "ref2", "udata", "sdata", "ref_udata"} -> 2
      [] form \in {"data4", "ref4"} -> 4
      [] form \in {"data8", "ref8", "ref_sig8"} -> 8
      [] form = "flag_present" -> 0
      [] form \in {"string", "block1", "block", "exprloc"} -> Len(value) + 1
      [] form = "block2" -> Len(value) + 2
      [] form = "block4" -> Len(value) + 4
      [] form = "indirect" -> 3

RECURSIVE NodeSize(_, _)
OwnSize(u, node) == 1 + FoldLeft(LAMBDA n, a : n + AttrSize(u, a.form, a.value), 0, node.attrs)
NodeSize(u, node) == OwnSize(u, node)
    + IF Specification(node).children
      THEN FoldLeft(LAMBDA n, kid : n + NodeSize(u, kid), 1, node.kids) ELSE 0

HeaderSize(u) == 2 * u.fmt - 4 + 2 + u.fmt + 1 + IF u.kind = "type" THEN 8 + u.fmt ELSE 0

RECURSIVE OffsetOf(_, _)
OffsetOf(d, path) ==
    LET u == d.units[Head(path)]
        parent == Parent(d, path)
    IN  IF Len(path) = 1 THEN HeaderSize(u)
        ELSE OffsetOf(d, Front(path)) + OwnSize(u, parent)
               + FoldLeft(LAMBDA n, kid : n + NodeSize(u, kid), 0,
                          SubSeq(parent.kids, 1, Last(path) - 1))

UnitSize(u) == HeaderSize(u) + NodeSize(u, u.tree)
UnitOffset(d, k) ==
    FoldLeft(LAMBDA n, u : IF u.kind = d.units[k].kind THEN n + UnitSize(u) ELSE n, 0,
             SubSeq(d.units, 1, k - 1))
-------------------------------------------------------------------------------
(* Bytes.                                                                  *)

RECURSIVE ValueBytes(_, _, _, _, _)
ValueBytes(d, path, name, form, value) ==
    LET u == d.units[Head(path)]
        target == IF name = "sibling" THEN OffsetOf(d, path) + NodeSize(u, NodeAt(d, path))
                  ELSE OffsetOf(d, value)
        size == AttrSize(u, form, value)
    IN  CASE form \in {"addr", "data1", "data2", "data4", "data8", "sec_offset", "flag"} ->
               LittleEndian(value, size)
          [] form \in {"ref1", "ref2", "ref4", "ref8"} -> LittleEndian(target, size)
          [] form = "ref_udata" -> PaddedLeb(target)
          [] form = "ref_addr" -> LittleEndian(UnitOffset(d, Head(value)) + target, size)
          [] form = "ref_sig8" -> LittleEndian(d.units[Head(value)].signature, size)
          [] form \in {"udata", "sdata"} -> PaddedLeb(value)
          [] form = "flag_present" -> <<>>
          [] form = "string" -> Append(value, 0)
          [] form = "strp" -> LittleEndian(CHOOSE k \in 0 .. Len(d.str) - 1 :
                                SubSeq(d.str, k + 1, k + Len(value) + 1) = Append(value, 0), size)
          [] form \in {"block1", "block", "exprloc"} -> <<Len(value)>> \o value
          [] form = "block2" -> LittleEndian(Len(value), 2) \o value
          [] form = "block4" -> LittleEndian(Len(value), 4) \o value
          [] form = "indirect" -> <<DW_FORM[value.form]>>
                                    \o ValueBytes(d, path, name, value.form, value.value)

RECURSIVE NodeBytes(_, _, _)
NodeBytes(d, codes, path) ==
    LET node == NodeAt(d, path)
        attrs == [i \in DOMAIN node.attrs |->
                    ValueBytes(d, path, node.attrs[i].name, node.attrs[i].form, node.attrs[i].value)]
        kids == [i \in DOMAIN node.kids |-> NodeBytes(d, codes, Append(path, i))]
    IN  <<CHOOSE i \in DOMAIN codes : codes[i] = Specification(node)>> \o FlattenSeq(attrs)
          \o FlattenSeq(kids) \o IF Specification(node).children THEN <<0>> ELSE <<>>

(* The table of abbreviations lies behind a byte of another.               *)
AbbrevBytes(codes) ==
    LET Entry(i) == <<i, DW_TAG[codes[i].tag], IF codes[i].children THEN 1 ELSE 0>>
                      \o FlattenSeq([j \in DOMAIN codes[i].specs |->
                            <<DW_AT[codes[i].specs[j][1]], DW_FORM[codes[i].specs[j][2]]>>])
                      \o <<0, 0>>
    IN  <<0>> \o FlattenSeq([i \in DOMAIN codes |-> Entry(i)]) \o <<0>>

UnitBytes(d, codes, k) ==
    LET u == d.units[k]
        behind == LittleEndian(4, 2) \o LittleEndian(1, u.fmt) \o <<u.addr_size>>
                    \o (IF u.kind = "type"
                        THEN LittleEndian(u.signature, 8) \o LittleEndian(OffsetOf(d, u.type), u.fmt) ELSE <<>>)
                    \o NodeBytes(d, codes, <<k>>)
    IN  (IF u.fmt = 4 THEN LittleEndian(Len(behind), 4)
         ELSE <<255, 255, 255, 255>> \o LittleEndian(Len(behind), 8)) \o behind

Encode(d) ==
    LET codes == Specifications(d)
        Of(kind) == FlattenSeq([k \in DOMAIN d.units |->
                        IF d.units[k].kind = kind THEN UnitBytes(d, codes, k) ELSE <<>>])
    IN  [info |-> Of("compile"), types |-> Of("type"), abbrev |-> AbbrevBytes(codes),
         str |-> d.str, ranges |-> d.ranges, loc |-> d.loc]
===============================================================================
