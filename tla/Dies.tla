--------------------------------- MODULE Dies ---------------------------------
(***************************************************************************)
(* Reading debugging information entries (src/src/dwarf/die.cpp,           *)
(* abbrev.cpp, value.cpp, rangelist.cpp, loclist.cpp, and the rest of      *)
(* cursor.cpp).  A DIE is never kept: it is read from the bytes of its     *)
(* unit, whose abbreviation table says how, each time it is asked for.     *)
(*                                                                         *)
(* Offsets in a DIE are relative to its unit.  What the code throws is a   *)
(* result that is not ok.                                                  *)
(***************************************************************************)
EXTENDS Cursor, DwarfCodes, SequencesExt

VARIABLES
    file,     \* the sections: info, types, abbrev, str, ranges, loc
    units     \* the compilation units, then the type units

(* The order of little-endian sections; 4 and 8 are the bytes of an offset *)
(* in a section of dwarf32 and dwarf64.                                    *)
Thrown == [ok |-> FALSE, value |-> 0, pos |-> 0]
Address(section, pos, size) ==
    IF size \in {1, 2, 4, 8} THEN Fixed(section, pos, size) ELSE Thrown

(* An initial length of 0xffffffff announces a length of eight bytes.      *)
Subsection(section, pos) ==
    LET short == Fixed(section, pos, 4)
        long  == Fixed(section, pos + 4, 8)
        escape == \A k \in 1 .. 3 : ByteAt(section, pos + k) = 255
    IN  CASE ~short.ok -> [ok |-> FALSE]
          [] ~(escape /\ ByteAt(section, pos) >= 240) ->
               [ok |-> TRUE, size |-> short.value + 4, fmt |-> 4]
          [] escape /\ ByteAt(section, pos) = 255 /\ long.ok ->
               [ok |-> TRUE, size |-> long.value + 12, fmt |-> 8]
          [] OTHER -> [ok |-> FALSE]

CStr(section, pos) ==
    LET nuls == {k \in pos .. Len(section) - 1 : ByteAt(section, k) = 0}
    IN  IF nuls = {} THEN Thrown
        ELSE [ok |-> TRUE, value |-> SubSeq(section, pos + 1, Min(nuls)), pos |-> Min(nuls) + 1]

(* A slice is as long as its section, and so reaches behind its end.       *)
Slice(section, start) == [i \in 1 .. Len(section) |-> ByteAt(section, start + i - 1)]
-------------------------------------------------------------------------------
(* Abbreviations.                                                          *)

SpecOf(name, form) == [name |-> name, form |-> form, type |-> TypeOf(name, form)]
NoAttributes(ok, pos) == [ok |-> ok, attributes |-> <<>>, pos |-> pos]

RECURSIVE AttributesFrom(_)
AttributesFrom(pos) ==
    LET Before(spec, behind) ==
            IF spec.type = "error" THEN NoAttributes(FALSE, 0)
            ELSE LET rest == AttributesFrom(behind)
                 IN  [rest EXCEPT !.attributes = <<spec>> \o @]
        With(name, form) ==
            IF ~name.ok \/ ~form.ok THEN NoAttributes(FALSE, 0)
            ELSE IF name.value = 0 /\ form.value = 0 THEN NoAttributes(TRUE, form.pos)
            ELSE Before(SpecOf(Named(DW_AT, name.value), Named(DW_FORM, form.value)), form.pos)
        Rest(name) == With(name, Uleb128(file.abbrev, name.pos))
    IN  Rest(Uleb128(file.abbrev, pos))

(* The entries up to the one with code 0, keyed by their codes: whether    *)
(* the code keeps them in a vector or a map cannot be told.                *)
RECURSIVE AbbrevsFrom(_)
AbbrevsFrom(pos) ==
    LET With(code, tag, children, list) ==
            IF ~(tag.ok /\ children.ok /\ list.ok) THEN [ok |-> FALSE, entries |-> <<>>]
            ELSE LET rest == AbbrevsFrom(list.pos)
                 IN  [rest EXCEPT !.entries =
                        <<[code |-> code.value, tag |-> Named(DW_TAG, tag.value),
                           children |-> children.value = 1, attributes |-> list.attributes]>> \o @]
        Tagged(code, tag) == With(code, tag, Fixed(file.abbrev, tag.pos, 1),
                                  AttributesFrom(tag.pos + 1))
        Entry(code) == IF code.value = 0 \/ ~code.ok THEN [ok |-> code.ok, entries |-> <<>>]
                        ELSE Tagged(code, Uleb128(file.abbrev, code.pos))
    IN  Entry(Uleb128(file.abbrev, pos))

(* get_abbrev: the last entry with the code, which must have one.          *)
Coded(u, code) == {i \in DOMAIN u.abbrevs.entries : u.abbrevs.entries[i].code = code}
GetAbbrev(u, code) == u.abbrevs.entries[Max(Coded(u, code))]
-------------------------------------------------------------------------------
(* Units: what the constructors of compilation_unit and type_unit read.    *)

(* The length, the version, the abbreviations' offset, the address size;   *)
(* a type unit has its signature and the offset of its type behind them.   *)
UnitOfBytes(kind, offset, fmt, bytes) ==
    LET at == 2 * fmt - 4
        version == Fixed(bytes, at, 2)
        abbrevs == Fixed(bytes, at + 2, fmt)
        address == Fixed(bytes, at + 2 + fmt, 1)
        signature == Fixed(bytes, at + 3 + fmt, 8)
        type == Fixed(bytes, at + 11 + fmt, fmt)
    IN  [ok |-> /\ version.ok /\ abbrevs.ok /\ address.ok
                /\ version.value \in IF kind = "compile" THEN 2 .. 4 ELSE {4}
                /\ kind = "type" => signature.ok /\ type.ok,
         kind |-> kind, offset |-> offset, bytes |-> bytes, fmt |-> fmt,
         addr_size |-> address.value,
         abbrevs |-> AbbrevsFrom(abbrevs.value),
         root |-> IF kind = "compile" THEN address.pos ELSE type.pos,
         signature |-> IF kind = "compile" THEN 0 ELSE signature.value,
         type |-> IF kind = "compile" THEN 0 ELSE type.value]

Unit(kind, section, offset, size) ==
    UnitOfBytes(kind, offset, size.fmt, SubSeq(section, offset + 1, offset + size.size))

RECURSIVE UnitsFrom(_, _, _)
UnitsFrom(kind, section, offset) ==
    LET Sized(size) == IF ~size.ok THEN <<[ok |-> FALSE, kind |-> kind]>>
                       ELSE <<Unit(kind, section, offset, size)>>
                              \o UnitsFrom(kind, section, offset + size.size)
    IN  IF AtEnd(section, offset) THEN <<>> ELSE Sized(Subsection(section, offset))

CompilationUnits == {k \in DOMAIN units : units[k].kind = "compile"}
-------------------------------------------------------------------------------
(* skip_form.                                                              *)

FormSize(u, form) ==
    CASE form = "addr" -> u.addr_size
      [] form \in {"sec_offset", "ref_addr", "strp"} -> u.fmt
      [] form = "flag_present" -> 0
      [] form \in {"flag", "data1", "ref1"} -> 1
      [] form \in {"data2", "ref2"} -> 2
      [] form \in {"data4", "ref4"} -> 4
      [] form \in {"data8", "ref_sig8"} -> 8
      [] OTHER -> -1

BlockWidth == [block1 |-> 1, block2 |-> 2, block4 |-> 4]
BlockSize(u, pos, form) ==
    CASE form \in DOMAIN BlockWidth -> Fixed(u.bytes, pos, BlockWidth[form])
      [] form \in {"block", "exprloc"} -> Uleb128(u.bytes, pos)
      [] OTHER -> Thrown

(* The last byte of a number or a string, or else the section's end.       *)
LastByte(u, pos, Ends(_)) ==
    Min({Len(u.bytes)} \union {k \in pos .. Len(u.bytes) - 1 : Ends(ByteAt(u.bytes, k))})

Behind(size) == [ok |-> size.ok, pos |-> size.pos + size.value]

RECURSIVE SkipForm(_, _, _)
SkipForm(u, pos, form) ==
    LET As(actual) == IF actual.ok THEN SkipForm(u, actual.pos, Named(DW_FORM, actual.value))
                      ELSE Thrown
    IN  CASE FormSize(u, form) >= 0 -> [ok |-> TRUE, pos |-> pos + FormSize(u, form)]
          [] form \in {"sdata", "udata", "ref_udata"} ->
               [ok |-> TRUE, pos |-> LastByte(u, pos, LAMBDA b : b < 128) + 1]
          [] form = "string" -> [ok |-> TRUE, pos |-> LastByte(u, pos, LAMBDA b : b = 0) + 1]
          [] form = "indirect" -> As(Uleb128(u.bytes, pos))
          [] OTHER -> Behind(BlockSize(u, pos, form))
-------------------------------------------------------------------------------
(* A DIE; an iterator is a DIE too, and end() one without abbreviation.    *)

Null == [code |-> 0]
NullDie(k, offset, next) == [ok |-> TRUE, unit |-> k, offset |-> offset, abbrev |-> Null,
                             attrs |-> <<>>, next |-> next]
ThrownDie == [NullDie(0, 0, 0) EXCEPT !.ok = FALSE]
Valid(d) == d.abbrev # Null

(* The attributes of its abbreviation lie behind the code of a DIE, one    *)
(* after the other.                                                        *)
Checked(d) == IF d.ok THEN d ELSE ThrownDie
Skipped(d, behind) == [d EXCEPT !.ok = @ /\ behind.ok, !.next = behind.pos,
                                !.attrs = Append(@, d.next)]
WithAttributes(d, entry) ==
    LET Next(e, spec) == Skipped(e, SkipForm(units[d.unit], e.next, spec.form))
    IN  Checked(FoldLeft(Next, [d EXCEPT !.abbrev = entry], entry.attributes))

WithCode(k, offset, code) ==
    LET u == units[k]
    IN  IF ~code.ok THEN ThrownDie
        ELSE IF code.value = 0 THEN NullDie(k, offset, code.pos)
        ELSE IF ~u.abbrevs.ok \/ Coded(u, code.value) = {} THEN ThrownDie
        ELSE WithAttributes(NullDie(k, offset, code.pos), GetAbbrev(u, code.value))

ReadDie(k, offset) == WithCode(k, offset, Uleb128(units[k].bytes, offset))

Root(k)    == ReadDie(k, units[k].root)
SectionOffset(d) == units[d.unit].offset + d.offset
Has(d, name) == Valid(d) /\ \E i \in DOMAIN d.abbrev.attributes : d.abbrev.attributes[i].name = name

(* What an indirect attribute is read as: its type and its place follow    *)
(* the form found there, the form the value keeps does not.                *)
RECURSIVE Resolved(_, _)
Resolved(v, name) ==
    LET As(form, w) == IF form = "indirect" THEN Resolved(w, name)
                       ELSE [w EXCEPT !.type = TypeOf(name, form)]
        From(actual) == As(Named(DW_FORM, actual.value), [v EXCEPT !.offset = actual.pos])
    IN  From(Uleb128(units[v.unit].bytes, v.offset))

Attribute(d, i) ==
    LET spec == d.abbrev.attributes[i]
        v == [unit |-> d.unit, form |-> spec.form, type |-> spec.type, offset |-> d.attrs[i]]
    IN  IF spec.form = "indirect" THEN Resolved(v, spec.name) ELSE v

Attributes(d) == [i \in DOMAIN d.attrs |-> <<d.abbrev.attributes[i].name, Attribute(d, i)>>]

(* d[name], for a name the DIE has; the value of a missing one is invalid. *)
NoValue == [unit |-> 0, form |-> "none", type |-> "invalid", offset |-> 0]
Value(d, name) ==
    IF ~Has(d, name) THEN NoValue
    ELSE Attribute(d, Min({i \in DOMAIN d.attrs : d.abbrev.attributes[i].name = name}))
-------------------------------------------------------------------------------
(* Values: each accessor looks at the form, and throws for another.        *)

Bytes(v) == units[v.unit].bytes
Width == [data1 |-> 1, data2 |-> 2, data4 |-> 4, data8 |-> 8, flag |-> 1,
          ref1 |-> 1, ref2 |-> 2, ref4 |-> 4, ref8 |-> 8, ref_sig8 |-> 8]

AsAddress(v) == IF v.form # "addr" THEN Thrown
                ELSE Address(Bytes(v), v.offset, units[v.unit].addr_size)

AsUconstant(v) == CASE v.form \in {"data1", "data2", "data4", "data8"} ->
                         Fixed(Bytes(v), v.offset, Width[v.form])
                    [] v.form = "udata" -> Uleb128(Bytes(v), v.offset)
                    [] OTHER -> Thrown

AsSconstant(v) == CASE v.form \in {"data1", "data2", "data4", "data8"} ->
                         SignedFixed(Bytes(v), v.offset, Width[v.form])
                    [] v.form = "sdata" -> Sleb128(Bytes(v), v.offset)
                    [] OTHER -> Thrown

(* A block's bytes; as_exprloc does not ensure that they are there.        *)
AsExprloc(v) == IF v.form = "none" THEN Thrown
                ELSE BlockSize(units[v.unit], v.offset, v.form)

AsBlock(v) ==
    LET Of(size) == IF ~size.ok \/ ~Ensured(Bytes(v), size.pos, size.value) THEN Thrown
                    ELSE [size EXCEPT !.value = SubSeq(Bytes(v), size.pos + 1, size.pos + @)]
    IN  Of(AsExprloc(v))

AsFlag(v) == CASE v.form = "flag" -> LET byte == Fixed(Bytes(v), v.offset, 1)
                                     IN  [byte EXCEPT !.value = IF @ = 0 THEN 0 ELSE 1]
               [] v.form = "flag_present" -> [ok |-> TRUE, value |-> 1, pos |-> v.offset]
               [] OTHER -> Thrown

AsCstr(v) == CASE v.form = "string" -> CStr(Bytes(v), v.offset)
               [] v.form = "strp" ->
                    LET at == Fixed(Bytes(v), v.offset, units[v.unit].fmt)
                    IN  IF at.ok THEN CStr(file.str, at.value) ELSE Thrown
               [] OTHER -> Thrown

AsSecOffset(v) == CASE v.form \in {"data4", "data8"} -> Fixed(Bytes(v), v.offset, Width[v.form])
                    [] v.form = "sec_offset" -> Fixed(Bytes(v), v.offset, units[v.unit].fmt)
                    [] OTHER -> Thrown

(* The unit an offset into the section lies in: the last that starts at or *)
(* before it.                                                              *)
UnitOf(offset) == Max({k \in CompilationUnits : units[k].offset <= offset})

ReferenceBits(v) ==
    CASE v.form \in {"ref1", "ref2", "ref4", "ref8", "ref_sig8"} -> Fixed(Bytes(v), v.offset, Width[v.form])
      [] v.form = "ref_udata" -> Uleb128(Bytes(v), v.offset)
      [] v.form = "ref_addr"  -> Fixed(Bytes(v), v.offset, units[v.unit].fmt)
      [] OTHER -> Thrown

(* The unit and the offset in it of what is referred to, if that is known. *)
Referred(v, bits) ==
    LET typed == {k \in DOMAIN units \ CompilationUnits : units[k].signature = bits}
    IN  CASE v.form = "ref_addr" -> <<UnitOf(bits), bits - units[UnitOf(bits)].offset>>
          [] v.form = "ref_sig8" -> IF typed = {} THEN <<>> ELSE <<Max(typed), units[Max(typed)].type>>
          [] OTHER -> <<v.unit, bits>>

AsReference(v) ==
    LET At(place) == IF place = <<>> THEN ThrownDie ELSE ReadDie(place[1], place[2])
        To(bits)  == IF bits.ok THEN At(Referred(v, bits.value)) ELSE ThrownDie
    IN  To(ReferenceBits(v))

(* resolve: an attribute of a concrete instance may be at its abstract     *)
(* origin, or at the declaration that specifies.                           *)
Specified(d, name) == Value(AsReference(Value(d, "specification")), name)
Inherit(origin, name) == IF Has(origin, name) \/ ~Has(origin, "specification")
                         THEN Value(origin, name) ELSE Specified(origin, name)
Resolve(d, name) ==
    IF Has(d, name) THEN Value(d, name)
    ELSE IF Has(d, "abstract_origin") THEN Inherit(AsReference(Value(d, "abstract_origin")), name)
    ELSE IF Has(d, "specification") THEN Specified(d, name)
    ELSE NoValue
===============================================================================
