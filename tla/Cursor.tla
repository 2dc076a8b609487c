------------------------------- MODULE Cursor --------------------------------
(***************************************************************************)
(* Reading values out of a section (struct cursor of                       *)
(* src/include/dwarf/internal.hpp, src/src/dwarf/cursor.cpp).  A section   *)
(* is a sequence of bytes, a cursor the offset it is at.  Every operator   *)
(* that reads returns a record: ok, or else the cursor throws              *)
(* underflow_error; the value as a machine word; the offset behind it.     *)
(*                                                                         *)
(* Sections are little-endian, as on both machines the debugger runs on.   *)
(***************************************************************************)
EXTENDS Integers, Sequences, FiniteSetsExt

CONSTANT WordBits   \* the bits of a taddr; 64 in the code

ASSUME CursorAssumption == WordBits \in Nat \ {0}

Byte == 0 .. 255
Modulus == 2 ^ WordBits
Word == 0 .. Modulus - 1
Wrapped(v) == v % Modulus
IsNegative(w) == w >= Modulus \div 2
Signed(w) == IF IsNegative(w) THEN w - Modulus ELSE w

(* Behind the section lies the rest of the file; the model reads zeros.    *)
ByteAt(section, pos) == IF pos + 1 \in DOMAIN section THEN section[pos + 1] ELSE 0

AtEnd(section, pos) == pos >= Len(section)

\* Mutant: off by one.
EnsuredShort(section, pos, bytes) == ~AtEnd(section, pos) /\ bytes <= Len(section) - pos + 1

Ensured(section, pos, bytes) == ~AtEnd(section, pos) /\ bytes <= Len(section) - pos

(* The sum of n terms.                                                     *)
SumOf(terms, n) ==
    LET sum[k \in 0 .. n] == IF k = 0 THEN 0 ELSE sum[k - 1] + terms[k]
    IN  sum[n]

(* Bits that do not fit into a word are lost.                              *)
Fixed(section, pos, bytes) ==
    LET parts == [k \in 1 .. bytes |->
                     IF 8 * (k - 1) < WordBits THEN ByteAt(section, pos + k - 1) * 2 ^ (8 * (k - 1))
                     ELSE 0]
    IN  [ok    |-> Ensured(section, pos, bytes),
         value |-> Wrapped(SumOf(parts, bytes)),
         pos   |-> pos + bytes]

SignedFixed(section, pos, bytes) ==
    LET read == Fixed(section, pos, bytes)
        negative == ByteAt(section, pos + bytes - 1) >= 128
    IN  IF negative /\ 8 * bytes < WordBits
        THEN [read EXCEPT !.value = Wrapped(@ - 2 ^ (8 * bytes))]
        ELSE read

(* The offset of the last byte of the LEB128 number at pos: the first one  *)
(* without a continuation bit.                                             *)
LebLasts(section, pos) == {k \in pos .. Len(section) - 1 : ByteAt(section, k) < 128}

(* A longer number than a word holds shifts by more than a word's bits,    *)
(* which is undefined; no such number is read here.                        *)
LebUpTo(section, pos, lasts) ==
    LET length == Min(lasts) + 1 - pos
        parts == [k \in 1 .. length |-> (ByteAt(section, pos + k - 1) % 128) * 2 ^ (7 * (k - 1))]
    IN  IF lasts = {} THEN [ok |-> FALSE, value |-> 0, pos |-> Len(section)]
        ELSE [ok    |-> TRUE,
              value |-> Wrapped(SumOf(parts, length)),
              pos   |-> Min(lasts) + 1]

Uleb128(section, pos) == LebUpTo(section, pos, LebLasts(section, pos))

SignExtended(section, read, shift) ==
    LET negative == (ByteAt(section, read.pos - 1) \div 64) % 2 = 1
    IN  IF read.ok /\ negative /\ shift < WordBits
        THEN [read EXCEPT !.value = Wrapped(@ - 2 ^ shift)]
        ELSE read

Sleb128(section, pos) ==
    LET read == Uleb128(section, pos)
    IN  SignExtended(section, read, 7 * (read.pos - pos))
===============================================================================
