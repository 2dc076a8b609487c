------------------------------- MODULE ElfFile --------------------------------
(***************************************************************************)
(* Reading an ELF file (src/src/elf/elf.cpp, mmap_loader.cpp,              *)
(* src/include/elf, and the lookups of src/src/dwarf/elf.cpp and           *)
(* src/src/minidbg.cpp).  Headers of either class and byte order are       *)
(* copied to 64-bit native ones when the file is opened or a symbol looked *)
(* at; names and data are looked up when first asked for, and kept.        *)
(*                                                                         *)
(* A section's name is a sequence of bytes; which ones is left open.       *)
(***************************************************************************)
EXTENDS Cursor, ElfImages

CONSTANTS
    Images,    \* the contents of files: see ElfImages
    Names,     \* the names of sections and symbols asked for
    Numbered   \* the sections whose names are asked for

ASSUME ElfFileAssumption ==
    /\ WordBits >= 16   \* offsets in the images are words
    /\ \A im \in Images : WellFormed(im)

VARIABLES
    image,     \* reference: what the file is meant to be
    bytes,     \* the file
    elf,       \* the opened file: [state, hdr, segments, sections]
    names,     \* the names kept, by section
    answer     \* the last request, and what it got

vars == <<image, bytes, elf, names, answer>>

Thrown == [ok |-> FALSE, is |-> <<>>]
Is(x)  == [ok |-> TRUE, is |-> x]
None   == Is(<<>>)     \* an invalid section
Null   == Is(<<-1>>)   \* a null pointer

(* load: whether a part of the file lies within it.                        *)
Loads(offset, size) == Wrapped(offset + size) <= Len(bytes)
-------------------------------------------------------------------------------
(* Headers.  Fields follow each other, as in the structs; an address is as *)
(* wide as the class says.                                                 *)

LSB == 1
MSB == 2
AddrSize(class) == IF class = 1 THEN 4 ELSE 8

EhdrFields(class) ==
    LET a == AddrSize(class)
    IN  <<<<"ident", 16>>, <<"type", 2>>, <<"machine", 2>>, <<"version", 4>>, <<"entry", a>>,
          <<"phoff", a>>, <<"shoff", a>>, <<"flags", 4>>, <<"ehsize", 2>>, <<"phentsize", 2>>,
          <<"phnum", 2>>, <<"shentsize", 2>>, <<"shnum", 2>>, <<"shstrndx", 2>>>>

ShdrFields(class) ==
    LET a == AddrSize(class)
    IN  <<<<"name", 4>>, <<"type", 4>>, <<"flags", a>>, <<"addr", a>>, <<"offset", a>>,
          <<"size", a>>, <<"link", 4>>, <<"info", 4>>, <<"addralign", a>>, <<"entsize", a>>>>

PhdrFields(class) ==
    IF class = 1
    THEN <<<<"type", 4>>, <<"offset", 4>>, <<"vaddr", 4>>, <<"paddr", 4>>, <<"filesz", 4>>,
           <<"memsz", 4>>, <<"flags", 4>>, <<"align", 4>>>>
    ELSE <<<<"type", 4>>, <<"flags", 4>>, <<"offset", 8>>, <<"vaddr", 8>>, <<"paddr", 8>>,
           <<"filesz", 8>>, <<"memsz", 8>>, <<"align", 8>>>>

SymFields(class) ==
    IF class = 1
    THEN <<<<"name", 4>>, <<"value", 4>>, <<"size", 4>>, <<"info", 1>>, <<"other", 1>>, <<"shnxd", 2>>>>
    ELSE <<<<"name", 4>>, <<"info", 1>>, <<"other", 1>>, <<"shnxd", 2>>, <<"value", 8>>, <<"size", 8>>>>

SizeOf(fields) == SumOf([i \in DOMAIN fields |-> fields[i][2]], Len(fields))

(* swizzle: a number of the file's order as a native one, which is LSB.    *)
Swizzle(pos, size, order) ==
    IF order = LSB THEN Fixed(bytes, pos, size).value
    ELSE Fixed(Reverse([i \in 1 .. size |-> ByteAt(bytes, pos + i - 1)]), 0, size).value

(* canon_hdr and from: the header at a place, field by field.              *)
Header(fields, pos, order) ==
    LET at(i) == pos + SizeOf(SubSeq(fields, 1, i - 1))
        index(name) == CHOOSE i \in DOMAIN fields : fields[i][1] = name
    IN  [name \in {fields[i][1] : i \in DOMAIN fields} |->
            Swizzle(at(index(name)), fields[index(name)][2], order)]

class == elf.hdr.class
order == elf.hdr.order
-------------------------------------------------------------------------------
(* Opening a file.                                                         *)

Refused == [state |-> "refused", hdr |-> <<>>, segments |-> <<>>, sections |-> <<>>]

Opened ==
    LET c == ByteAt(bytes, 4)
        o == ByteAt(bytes, 5)
        hdr == Header(EhdrFields(c), 0, o)
        Table(n, at, size, fields) == [i \in 1 .. n |-> Header(fields, at + (i - 1) * size, o)]
    IN  IF \/ ~Loads(0, 7)
           \/ SubSeq(bytes, 1, 4) # <<127, 69, 76, 70>>
           \/ ByteAt(bytes, 6) # 1 \/ c \notin {1, 2} \/ o \notin {LSB, MSB}
           \/ ~Loads(0, SizeOf(EhdrFields(c))) \/ hdr.version # 1
           \/ hdr.shnum # 0 /\ hdr.shstrndx >= hdr.shnum
           \/ ~Loads(hdr.phoff, hdr.phentsize * hdr.phnum)
           \/ ~Loads(hdr.shoff, hdr.shentsize * hdr.shnum)
        THEN Refused
        ELSE [state |-> "open",
              hdr |-> [f \in DOMAIN hdr \union {"class", "order"} |->
                          CASE f = "class" -> c [] f = "order" -> o [] OTHER -> hdr[f]],
              segments |-> Table(hdr.phnum, hdr.phoff, hdr.phentsize, PhdrFields(c)),
              sections |-> Table(hdr.shnum, hdr.shoff, hdr.shentsize, ShdrFields(c))]
-------------------------------------------------------------------------------
(* Sections, by number from 0; segments.                                   *)

SHT == [symtab |-> 2, strtab |-> 3, nobits |-> 8, dynsym |-> 11]
Section(i) == elf.sections[i + 1]

(* The link's four bytes are kept in an elf::shn, which has two.           *)
LinkOf(i) == Section(i).link % 2 ^ 16

(* data() of a section that takes no space in the file is null.            *)
SectionData(i) ==
    CASE Section(i).type = SHT.nobits -> Null
      [] Section(i).type # SHT.nobits /\ Loads(Section(i).offset, Section(i).size) ->
           Is(SubSeq(bytes, Section(i).offset + 1, Section(i).offset + Section(i).size))
      [] OTHER -> Thrown

SegmentData(i) ==
    LET h == elf.segments[i + 1]
    IN  IF Loads(h.offset, h.filesz) THEN Is(SubSeq(bytes, h.offset + 1, h.offset + h.filesz)) ELSE Thrown

(* as_strtab().get(offset).                                                *)
StringAt(i, offset) ==
    LET data == SectionData(i)
        nuls == {k \in offset .. Len(data.is) - 1 : data.is[k + 1] = 0}
    IN  IF Section(i).type # SHT.strtab \/ ~data.ok \/ offset >= Len(data.is) \/ nuls = {} THEN Thrown
        ELSE Is(SubSeq(data.is, offset + 1, Min(nuls)))

NameOf(i) == IF i \in DOMAIN names THEN Is(names[i])
             ELSE StringAt(elf.hdr.shstrndx, Section(i).name)

(* get_section(name) looks at names until it is found or one is bad.       *)
Numbers == 0 .. Len(elf.sections) - 1
Hits(name) == {i \in Numbers : NameOf(i) = Is(name)}
Bads == {i \in Numbers : ~NameOf(i).ok}
Looked(name) == {i \in Numbers : \A j \in Hits(name) \union Bads : i <= j} \ Bads
Kept(name) == [i \in DOMAIN names \union Looked(name) |-> NameOf(i).is]

GetSection(name) ==
    LET first == Min(Hits(name) \union Bads)
    IN  CASE Hits(name) \union Bads = {} -> None
          [] first \in Hits(name) -> Is(<<first>>)
          [] OTHER -> Thrown

(* What a section holds of the debugging information: null if there is no  *)
(* such section.                                                           *)
DwarfSection(name) ==
    LET found == GetSection(name)
    IN  IF ~found.ok THEN Thrown
        ELSE IF found = None THEN Null
        ELSE SectionData(found.is[1])
-------------------------------------------------------------------------------
(* symbol <name>: the symbols of all symbol tables.  The bits of info are  *)
(* the symbol's type and binding.                                          *)

\* Mutant: a symbol's type and binding are swapped.
SymbolTypeHigh(info) == IF info \div 16 \in 0 .. 4 THEN info \div 16 ELSE 0

SymbolType(info) == IF info % 16 \in 0 .. 4 THEN info % 16 ELSE 0

(* The iterator goes on until it is at the end exactly, so a table must    *)
(* hold whole symbols; all Images do.                                      *)
SymbolsOf(i) ==
    LET stride == SizeOf(SymFields(class))
        sym(k) == Header(SymFields(class), Section(i).offset + k * stride, order)
    IN  [k \in 1 .. Section(i).size \div stride |->
            [name |-> StringAt(LinkOf(i), sym(k - 1).name),
             type |-> SymbolType(sym(k - 1).info), value |-> sym(k - 1).value]]

LookupSymbol(name) ==
    LET tables == {i \in Numbers : Section(i).type \in {SHT.symtab, SHT.dynsym}}
        readable == /\ \A i \in tables : /\ SectionData(i).ok /\ SectionData(LinkOf(i)).ok
                                         /\ Section(LinkOf(i)).type = SHT.strtab
                    /\ \A i \in tables : \A k \in DOMAIN SymbolsOf(i) : SymbolsOf(i)[k].name.ok
        all == FlattenSeq([n \in 1 .. Len(elf.sections) |->
                              IF n - 1 \in tables THEN SymbolsOf(n - 1) ELSE <<>>])
        Matching(s) == IF s.name.is = name THEN <<<<s.type, s.value>>>> ELSE <<>>
    IN  IF readable THEN Is(FlattenSeq([k \in DOMAIN all |-> Matching(all[k])])) ELSE Thrown
-------------------------------------------------------------------------------
NoFile == [Refused EXCEPT !.state = "closed"]
NoAnswer == [kind |-> "none", of |-> <<>>, is |-> Thrown]

Asks(kind, of, is) == /\ elf.state = "open"
                      /\ answer' = [kind |-> kind, of |-> of, is |-> is]
                      /\ UNCHANGED <<image, bytes, elf>>

Open == /\ elf.state = "closed"
        /\ elf' = Opened
        /\ UNCHANGED <<image, bytes, names, answer>>

AskSection(name) == Asks("section", name, GetSection(name)) /\ names' = Kept(name)
AskDwarf(name)   == Asks("debug", name, DwarfSection(name)) /\ names' = Kept(name)
AskSymbol(name)  == Asks("symbol", name, LookupSymbol(name)) /\ UNCHANGED names
AskSegment(i)    == Asks("segment", <<i>>, SegmentData(i)) /\ UNCHANGED names
AskName(i)       == /\ Asks("name", <<i>>, NameOf(i))
                    /\ names' = IF NameOf(i).ok
                                THEN [j \in DOMAIN names \union {i} |-> NameOf(j).is] ELSE names

Next == \/ Open
        \/ \E name \in Names : AskSection(name) \/ AskDwarf(name) \/ AskSymbol(name)
        \/ \E i \in 0 .. Len(elf.segments) - 1 : AskSegment(i)
        \/ \E i \in Numbered \intersect Numbers : AskName(i)

Init == /\ image \in Images
        /\ bytes = Written(image)
        /\ elf = NoFile /\ names = <<>> /\ answer = NoAnswer

Spec == Init /\ [][Next]_vars
-------------------------------------------------------------------------------
(* What the file was meant to hold.                                        *)

Unreadable == {i \in DOMAIN image.sections : ~image.sections[i].named}
Meant(name) == {i \in DOMAIN image.sections \ Unreadable : image.sections[i].name = name}
First(name) == Min(Meant(name) \union Unreadable)

(* Where a name is looked for, none is unreadable before it is found.      *)
MeantSection(name) ==
    CASE Meant(name) \union Unreadable = {} -> None
      [] Meant(name) \union Unreadable # {} /\ First(name) \in Unreadable -> Thrown
      [] OTHER -> Is(<<First(name) - 1>>)

Meaning(q) ==
    CASE q.kind = "section" -> MeantSection(q.of)
      [] q.kind = "name"    -> LET s == image.sections[q.of[1] + 1]
                               IN  IF s.named THEN Is(s.name) ELSE Thrown
      [] q.kind = "debug"   ->
           CASE ~MeantSection(q.of).ok -> Thrown
             [] MeantSection(q.of) = None -> Null
             [] OTHER -> LET s == image.sections[First(q.of)]
                         IN  IF s.type = 8 THEN Null ELSE Is(BodyOf(image, s))
      [] q.kind = "symbol"  ->
           LET Matching(s) == IF s.name = q.of THEN <<<<IF s.type > 4 THEN 0 ELSE s.type, s.value>>>>
                              ELSE <<>>
           IN  IF image.defect \in {"link", "symname"} THEN Thrown
               ELSE Is(FlattenSeq([k \in DOMAIN image.symbols |-> Matching(image.symbols[k])]))
      [] q.kind = "segment" -> Is(BodyOf(image, image.sections[image.segments[q.of[1] + 1]]))

(* A file of any class and byte order answers with what it was meant to    *)
(* hold, whatever was asked and kept before; and where the answer lies     *)
(* behind something unreadable, with an exception, always.                 *)
AnswersAreTheImages ==
    /\ (elf.state = "refused") => image.defect \in Refusable
    /\ (elf.state = "open")    => image.defect \notin Refusable
    /\ answer.kind # "none"    => answer.is = Meaning(answer)
===============================================================================
