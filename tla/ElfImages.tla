------------------------------ MODULE ElfImages -------------------------------
(***************************************************************************)
(* ELF files as a linker writes them: the reference for ElfFile.  No code  *)
(* of the repository writes ELF.                                           *)
(*                                                                         *)
(* An image has a class, a byte order, sections, symbols and segments,     *)
(* each with the body of a section; and at most one defect.                *)
(***************************************************************************)
EXTENDS Integers, SequencesExt, FiniteSetsExt

Refusable == {"magic", "version", "class", "order", "objversion", "index", "truncated"}
Defects == Refusable \union {"none", "name", "unterminated", "link", "symname"}

(* Numbers below 2^16.                                                     *)
Number(im, n, size) ==
    LET lsb == [i \in 1 .. size |-> IF i = 1 THEN n % 256 ELSE IF i = 2 THEN n \div 256 ELSE 0]
    IN  IF im.order = 1 THEN lsb ELSE Reverse(lsb)
Wide(im, n) == Number(im, n, IF im.class = 1 THEN 4 ELSE 8)

Terminated(names) == <<0>> \o FlattenSeq([i \in DOMAIN names |-> Append(names[i], 0)])
PlaceIn(table, name) ==
    Min({k \in 0 .. Len(table) - Len(name) - 1 :
            SubSeq(table, k + 1, k + Len(name) + 1) = Append(name, 0)})

SectionNames(im) == Terminated([i \in DOMAIN im.sections |-> im.sections[i].name])
SymbolNames(im)  == Terminated([i \in DOMAIN im.symbols |-> im.symbols[i].name])

SymbolParts(im, s) ==
    LET name == IF im.defect = "symname" THEN 200 ELSE PlaceIn(SymbolNames(im), s.name)
        info == s.type + 16 * s.binding
    IN  IF im.class = 1
        THEN <<Number(im, name, 4), Wide(im, s.value), Number(im, 4, 4),
               Number(im, info, 1), Number(im, 0, 1), Number(im, 1, 2)>>
        ELSE <<Number(im, name, 4), Number(im, info, 1), Number(im, 0, 1), Number(im, 1, 2),
               Wide(im, s.value), Wide(im, 4)>>
SymbolBytes(im, s) == FlattenSeq(SymbolParts(im, s))

(* The last name lacks its end if that is the defect.                      *)
BodyOf(im, s) ==
    CASE s.body = "symtab"       -> FlattenSeq([i \in DOMAIN im.symbols |-> SymbolBytes(im, im.symbols[i])])
      [] s.body = "strtab"  -> SymbolNames(im)
      [] s.body = "shstrtab" -> IF im.defect = "unterminated" THEN Front(SectionNames(im))
                                     ELSE SectionNames(im)
      [] s.body = "data"          -> <<9, 8, 7>>
      [] s.body = "nothing"       -> <<>>

EhdrSize(im) == IF im.class = 1 THEN 52 ELSE 64
PhdrSize(im) == IF im.class = 1 THEN 32 ELSE 56
ShdrSize(im) == IF im.class = 1 THEN 40 ELSE 64

BodiesAt(im) == EhdrSize(im) + PhdrSize(im) * Len(im.segments)
OffsetOf(im, i) ==
    BodiesAt(im) + Len(FlattenSeq([j \in 1 .. i - 1 |-> BodyOf(im, im.sections[j])]))
HeadersAt(im) == OffsetOf(im, Len(im.sections) + 1)
FileSize(im)  == HeadersAt(im) + ShdrSize(im) * Len(im.sections)

ShdrParts(im, i) ==
    LET s == im.sections[i]
        name == IF s.named THEN PlaceIn(SectionNames(im), s.name)
                ELSE IF im.defect = "name" THEN 200 ELSE Len(SectionNames(im)) - 1 - Len(s.name)
    IN  <<Number(im, name, 4), Number(im, s.type, 4), Wide(im, 0), Wide(im, 0),
          Wide(im, OffsetOf(im, i)), Wide(im, IF s.type = 8 THEN 5 ELSE Len(BodyOf(im, s))),
          Number(im, s.link, 4), Number(im, 0, 4), Wide(im, 1), Wide(im, 0)>>
Shdr(im, i) == FlattenSeq(ShdrParts(im, i))

PhdrParts(im, i) ==
    LET n == im.segments[i]
        at == Wide(im, OffsetOf(im, n))
        size == Wide(im, Len(BodyOf(im, im.sections[n])))
    IN  IF im.class = 1
        THEN <<Number(im, 1, 4), at, Wide(im, 300), Wide(im, 300), size, size,
               Number(im, 5, 4), Wide(im, 1)>>
        ELSE <<Number(im, 1, 4), Number(im, 5, 4), at, Wide(im, 300), Wide(im, 300), size, size,
               Wide(im, 1)>>
Phdr(im, i) == FlattenSeq(PhdrParts(im, i))

Ident(im) ==
    LET Bad(defect, wrong, right) == IF im.defect = defect THEN wrong ELSE right
    IN  <<Bad("magic", 126, 127), 69, 76, 70, Bad("class", 3, im.class), Bad("order", 0, im.order),
          Bad("version", 0, 1), 0, 0, 0, 0, 0, 0, 0, 0, 0>>

EhdrParts(im) ==
    LET n == Len(im.sections)
    IN  <<Ident(im), Number(im, 3, 2), Number(im, 62, 2),
          Number(im, IF im.defect = "objversion" THEN 2 ELSE 1, 4), Wide(im, 300),
          Wide(im, EhdrSize(im)), Wide(im, HeadersAt(im)), Number(im, 0, 4), Number(im, EhdrSize(im), 2),
          Number(im, PhdrSize(im), 2), Number(im, Len(im.segments), 2),
          Number(im, ShdrSize(im), 2), Number(im, n, 2),
          Number(im, IF im.defect = "index" THEN n ELSE n - 1, 2)>>
Ehdr(im) == FlattenSeq(EhdrParts(im))

Whole(im) == Ehdr(im) \o FlattenSeq([i \in DOMAIN im.segments |-> Phdr(im, i)])
                      \o FlattenSeq([i \in DOMAIN im.sections |-> BodyOf(im, im.sections[i])])
                      \o FlattenSeq([i \in DOMAIN im.sections |-> Shdr(im, i)])
Written(im) == IF im.defect = "truncated" THEN Front(Whole(im)) ELSE Whole(im)
-------------------------------------------------------------------------------
(* What a linker writes, and the defects that can be.                      *)

Bodies == {"symtab", "strtab", "shstrtab", "data", "nothing"}
Text  == Seq(1 .. 255)
Short == 0 .. 2 ^ 16 - 1

(* The last section has the names; a name that cannot be read is beyond    *)
(* them or, if it is the last and they are cut, has no end.                *)
SectionsWellFormed(im) ==
    LET n == Len(im.sections)
    IN  /\ im.sections \in Seq([name : Text, named : BOOLEAN, type : Short, body : Bodies, link : Short])
        /\ n > 0 /\ im.sections[n].type = 3 /\ im.sections[n].body = "shstrtab"
        /\ \A i \in 1 .. n : ~im.sections[i].named =>
              \/ im.defect = "name" /\ Len(SectionNames(im)) <= 200
              \/ im.defect = "unterminated" /\ i = n
        /\ im.defect = "unterminated" => ~im.sections[n].named

(* One section has the symbols, and another one their names.               *)
SymbolsWellFormed(im) ==
    /\ im.symbols \in Seq([name : Text, type : 0 .. 15, binding : 0 .. 15, value : Short])
    /\ \E t \in DOMAIN im.sections :
          LET link == im.sections[t].link + 1
          IN  /\ {i \in DOMAIN im.sections : im.sections[i].type \in {2, 11}} = {t}
              /\ im.sections[t].body = "symtab" /\ link \in DOMAIN im.sections
              /\ IF im.defect = "link" THEN im.sections[link].type # 3
                 ELSE im.sections[link].type = 3 /\ im.sections[link].body = "strtab"
    /\ im.defect = "symname" => im.symbols # <<>> /\ Len(SymbolNames(im)) <= 200

WellFormed(im) ==
    /\ im.class \in {1, 2} /\ im.order \in {1, 2} /\ im.defect \in Defects
    /\ SectionsWellFormed(im) /\ SymbolsWellFormed(im)
    /\ im.segments \in Seq(DOMAIN im.sections)
    /\ FileSize(im) < 2 ^ 16 /\ Len(SymbolNames(im)) < 2 ^ 16
===============================================================================
