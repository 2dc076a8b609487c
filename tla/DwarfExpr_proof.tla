--------------------------- MODULE DwarfExpr_proof ---------------------------
(* The expression machine: its entries are words, and it reads its operands *)
(* within the code, for every expression, word size and debuggee.           *)
EXTENDS DwarfExpr, NumberTheorems, SequenceTheorems

Code == Seq(Byte)

-------------------------------------------------------------------------------
(* Words.                                                                   *)
LEMMA WordFacts ==
    /\ WordBits \in Nat /\ WordBits > 0
    /\ Modulus \in Nat /\ Modulus >= 32
    /\ \A v \in Int : Wrapped(v) \in Word
    /\ \A w \in Word : Signed(w) \in Int /\ w \in Int
  <1>1. WordBits \in Nat /\ WordBits >= 5
    BY CursorAssumption, DwarfExprAssumption
  <1>2. 2 ^ 5 = 32
    <2>1. 2 ^ 0 = 1
      BY PowerType
    <2>2. 2 ^ (0 + 1) = 2 * 2 ^ 0
      BY PowerStep
    <2>3. 2 ^ (1 + 1) = 2 * 2 ^ 1
      BY PowerStep
    <2>4. 2 ^ (2 + 1) = 2 * 2 ^ 2
      BY PowerStep
    <2>5. 2 ^ (3 + 1) = 2 * 2 ^ 3
      BY PowerStep
    <2>6. 2 ^ (4 + 1) = 2 * 2 ^ 4
      BY PowerStep
    <2>7. QED
      BY <2>1, <2>2, <2>3, <2>4, <2>5, <2>6
  <1>3. PICK d \in Nat : WordBits = 5 + d
    <2>1. WordBits - 5 \in Nat /\ WordBits = 5 + (WordBits - 5)
      BY <1>1
    <2>2. QED
      BY <2>1
  <1>4. 2 ^ d \in Nat /\ 2 ^ d >= 1
    BY <1>3, PowerType, PowerGrows
  <1>5. 2 ^ (5 + d) = 2 ^ 5 * 2 ^ d
    BY <1>3, PowerSum
  <1>6. Modulus \in Nat /\ Modulus >= 32
    BY <1>2, <1>3, <1>4, <1>5 DEF Modulus
  <1> HIDE DEF Modulus
  <1>7. \A v \in Int : Wrapped(v) \in Word
    BY <1>6 DEF Wrapped, Word
  <1>8. \A w \in Word : Signed(w) \in Int /\ w \in Int
    BY <1>6 DEF Signed, Word
  <1>9. QED
    BY <1>1, <1>6, <1>7, <1>8

LEMMA SumType ==
    ASSUME NEW n \in Nat, NEW terms \in [1 .. n -> Int]
    PROVE  SumOf(terms, n) \in Int
  <1>1. PICK g : g = [k \in 0 .. n |-> IF k = 0 THEN 0 ELSE g[k - 1] + terms[k]]
    BY PrefixSum
  <1> DEFINE sum == CHOOSE f : f = [k \in 0 .. n |-> IF k = 0 THEN 0 ELSE f[k - 1] + terms[k]]
  <1>2. sum = [k \in 0 .. n |-> IF k = 0 THEN 0 ELSE sum[k - 1] + terms[k]]
    BY <1>1
  <1>3. SumOf(terms, n) = sum[n]
    BY DEF SumOf
  <1> HIDE DEF sum
  <1>4. sum \in [0 .. n -> Int]
    BY <1>2, PrefixSum
  <1>5. QED
    BY <1>3, <1>4

(* Binary digits make a word.                                               *)
LEMMA DigitsMakeWord ==
    ASSUME NEW bits \in [Places -> 0 .. 1]
    PROVE  WordOf(bits) \in Word
  <1> DEFINE n == WordBits
             terms == [k \in 1 .. n |-> bits[k - 1] * 2 ^ (k - 1)]
             sum == CHOOSE f : f = [k \in 0 .. n |-> IF k = 0 THEN 0 ELSE f[k - 1] + terms[k]]
  <1>1. n \in Nat
    BY WordFacts
  <1>2. \A k \in 1 .. n : terms[k] \in Nat /\ terms[k] <= 2 ^ (k - 1)
    <2>1. SUFFICES ASSUME NEW k \in 1 .. n PROVE terms[k] \in Nat /\ terms[k] <= 2 ^ (k - 1)
      OBVIOUS
    <2>2. k - 1 \in Places /\ k - 1 \in Nat
      BY <1>1 DEF Places
    <2>3. bits[k - 1] \in 0 .. 1 /\ 2 ^ (k - 1) \in Nat
      BY <2>2, PowerType
    <2>4. \A b \in 0 .. 1, p \in Nat : b * p \in Nat /\ b * p <= p
      OBVIOUS
    <2>5. terms[k] = bits[k - 1] * 2 ^ (k - 1)
      OBVIOUS
    <2> HIDE DEF terms
    <2>6. QED
      BY <2>3, <2>4, <2>5
  <1>3. terms \in [1 .. n -> Int]
    BY <1>2
  <1>4. WordOf(bits) = sum[n]
    BY DEF WordOf, SumOf
  <1> HIDE DEF terms, n
  <1>5. PICK g : g = [k \in 0 .. n |-> IF k = 0 THEN 0 ELSE g[k - 1] + terms[k]]
    BY <1>1, <1>3, PrefixSum
  <1>6. sum = [k \in 0 .. n |-> IF k = 0 THEN 0 ELSE sum[k - 1] + terms[k]]
    BY <1>5
  <1> HIDE DEF sum
  <1>7. \A k \in 0 .. n : sum[k] = IF k = 0 THEN 0 ELSE sum[k - 1] + terms[k]
    BY <1>6
  <1> DEFINE Bad == {k \in 0 .. n : ~(sum[k] \in Nat /\ sum[k] < 2 ^ k)}
  <1>8. Bad = {}
    <2>1. SUFFICES ASSUME Bad # {} PROVE FALSE
      OBVIOUS
    <2>2. Bad \in SUBSET Nat
      BY <1>1
    <2>3. PICK k \in Bad : \A j \in Bad : k <= j
      BY <2>1, <2>2, LeastExists
    <2>4. k \in 0 .. n
      OBVIOUS
    <2>5. CASE k = 0
      <3>1. sum[k] = 0 /\ 2 ^ k = 1
        BY <1>7, <2>4, <2>5, PowerType
      <3>2. QED
        BY <2>3, <3>1
    <2>6. CASE k # 0
      <3>1. k - 1 \in 0 .. n /\ k - 1 \in Nat /\ k \in 1 .. n /\ k - 1 \notin Bad
        BY <1>1, <2>3, <2>4, <2>6
      <3>2. sum[k - 1] \in Nat /\ sum[k - 1] < 2 ^ (k - 1)
        BY <3>1
      <3>3. sum[k] = sum[k - 1] + terms[k]
        BY <1>7, <2>4, <2>6
      <3>4. terms[k] \in Nat /\ terms[k] <= 2 ^ (k - 1) /\ 2 ^ (k - 1) \in Nat
        BY <1>2, <3>1, PowerType
      <3>5. 2 ^ ((k - 1) + 1) = 2 * 2 ^ (k - 1)
        BY <3>1, PowerStep
      <3>6. (k - 1) + 1 = k
        BY <3>1
      <3>7. sum[k] \in Nat /\ sum[k] < 2 ^ k
        BY <3>2, <3>3, <3>4, <3>5, <3>6
      <3>8. QED
        BY <2>3, <3>7
    <2>7. QED
      BY <2>5, <2>6
  <1>9. sum[n] \in Nat /\ sum[n] < 2 ^ n
    BY <1>1, <1>8
  <1>10. QED
    BY <1>4, <1>9, WordFacts DEF n, Word, Modulus

(* A quotient by a power is no larger.                                      *)
LEMMA QuotientFacts ==
    ASSUME NEW w \in Nat, NEW m \in Nat, m > 0
    PROVE  w \div m \in Nat /\ w \div m <= w
  <1>1. w = m * (w \div m) + (w % m) /\ w % m \in 0 .. m - 1 /\ w \div m \in Int
    OBVIOUS
  <1>2. \A q \in Int : q < 0 => m * q <= -m
    OBVIOUS
  <1>3. w \div m >= 0
    BY <1>1, <1>2
  <1>4. \A q \in Nat : m * q >= q
    OBVIOUS
  <1>5. QED
    BY <1>1, <1>3, <1>4

LEMMA BitFacts ==
    ASSUME NEW w \in Word, NEW k \in Nat
    PROVE  Bit(w, k) \in 0 .. 1 /\ 2 ^ k \in Nat /\ 2 ^ k > 0 /\ w \div 2 ^ k \in 0 .. w
  <1>1. w \in Nat
    BY WordFacts DEF Word
  <1>2. 2 ^ k \in Nat /\ 2 ^ k > 0
    BY PowerType, PowerGrows
  <1>3. w \div 2 ^ k \in Nat /\ w \div 2 ^ k <= w
    BY <1>1, <1>2, QuotientFacts
  <1>4. \A q \in Nat : q % 2 \in 0 .. 1
    OBVIOUS
  <1>5. QED
    BY <1>1, <1>2, <1>3, <1>4 DEF Bit

-------------------------------------------------------------------------------
(* What a cursor reads: a word, and if it does not throw, the offset behind *)
(* it is within the section.                                                *)
Reading(s) == {r \in [ok : BOOLEAN, value : Word, pos : Nat] : r.ok => r.pos <= Len(s)}

LEMMA ByteFacts ==
    ASSUME NEW s \in Code
    PROVE  /\ Len(s) \in Nat
           /\ \A pos \in Int : ByteAt(s, pos) \in Int
  <1>1. Len(s) \in Nat /\ DOMAIN s = 1 .. Len(s)
    BY LenProperties DEF Code
  <1>2. \A i \in DOMAIN s : s[i] \in Int
    <2>1. SUFFICES ASSUME NEW i \in DOMAIN s PROVE s[i] \in Int
      OBVIOUS
    <2>2. s[i] \in Byte
      BY <1>1, ElementOfSeq DEF Code
    <2>3. QED
      BY <2>2 DEF Byte
  <1>3. QED
    BY <1>1, <1>2 DEF ByteAt

LEMMA FixedFacts ==
    ASSUME NEW s \in Code, NEW pos \in Nat, NEW bytes \in Nat
    PROVE  Fixed(s, pos, bytes) \in Reading(s)
  <1> DEFINE parts == [k \in 1 .. bytes |->
                          IF 8 * (k - 1) < WordBits THEN ByteAt(s, pos + k - 1) * 2 ^ (8 * (k - 1))
                          ELSE 0]
  <1>1. Len(s) \in Nat
    BY ByteFacts
  <1>2. parts \in [1 .. bytes -> Int]
    <2>1. SUFFICES ASSUME NEW k \in 1 .. bytes
                   PROVE  ByteAt(s, pos + k - 1) * 2 ^ (8 * (k - 1)) \in Int
      OBVIOUS
    <2>2. ByteAt(s, pos + k - 1) \in Int
      <3>1. pos + k - 1 \in Int
        OBVIOUS
      <3>2. QED
        BY <3>1, ByteFacts
    <2>3. 8 * (k - 1) \in Nat
      OBVIOUS
    <2>4. 2 ^ (8 * (k - 1)) \in Nat
      BY <2>3, PowerType
    <2>5. QED
      BY <2>2, <2>4
  <1>3. Fixed(s, pos, bytes) = [ok    |-> Ensured(s, pos, bytes),
                                value |-> Wrapped(SumOf(parts, bytes)),
                                pos   |-> pos + bytes]
    BY DEF Fixed
  <1> HIDE DEF parts
  <1>4. Wrapped(SumOf(parts, bytes)) \in Word
    BY <1>2, SumType, WordFacts
  <1>5. Ensured(s, pos, bytes) \in BOOLEAN /\ (Ensured(s, pos, bytes) => pos + bytes <= Len(s))
    BY <1>1 DEF Ensured, AtEnd
  <1>6. pos + bytes \in Nat
    OBVIOUS
  <1>7. QED
    BY <1>3, <1>4, <1>5, <1>6 DEF Reading

LEMMA SignedFixedFacts ==
    ASSUME NEW s \in Code, NEW pos \in Nat, NEW bytes \in Nat
    PROVE  SignedFixed(s, pos, bytes) \in Reading(s)
  <1> DEFINE read == Fixed(s, pos, bytes)
  <1>1. read \in Reading(s)
    BY FixedFacts
  <1>2. Wrapped(read.value - 2 ^ (8 * bytes)) \in Word
    <2>1. 8 * bytes \in Nat
      OBVIOUS
    <2>2. 2 ^ (8 * bytes) \in Nat
      BY <2>1, PowerType
    <2>3. read.value \in Int
      BY <1>1, WordFacts DEF Reading
    <2>4. read.value - 2 ^ (8 * bytes) \in Int
      BY <2>2, <2>3
    <2>5. QED
      BY <2>4, WordFacts
  <1>3. \/ SignedFixed(s, pos, bytes) = read
        \/ SignedFixed(s, pos, bytes) = [read EXCEPT !.value = Wrapped(read.value - 2 ^ (8 * bytes))]
    BY DEF SignedFixed
  <1> HIDE DEF read
  <1>4. QED
    BY <1>1, <1>2, <1>3 DEF Reading

LEMMA Uleb128Facts ==
    ASSUME NEW s \in Code, NEW pos \in Nat
    PROVE  Uleb128(s, pos) \in Reading(s)
  <1> DEFINE lasts == LebLasts(s, pos)
             length == Min(lasts) + 1 - pos
             parts == [k \in 1 .. length |-> (ByteAt(s, pos + k - 1) % 128) * 2 ^ (7 * (k - 1))]
  <1>1. Len(s) \in Nat
    BY ByteFacts
  <1>2. 0 \in Word
    BY WordFacts DEF Word
  <1>3. CASE lasts = {}
    <2>1. Uleb128(s, pos) = [ok |-> FALSE, value |-> 0, pos |-> Len(s)]
      BY <1>3 DEF Uleb128, LebUpTo
    <2>2. QED
      BY <1>1, <1>2, <2>1 DEF Reading
  <1>4. CASE lasts # {}
    <2>1. lasts \in SUBSET Nat /\ \A k \in lasts : pos <= k /\ k < Len(s)
      BY <1>1 DEF LebLasts
    <2>2. Uleb128(s, pos) = [ok    |-> TRUE,
                             value |-> Wrapped(SumOf(parts, length)),
                             pos   |-> Min(lasts) + 1]
      BY <1>4 DEF Uleb128, LebUpTo
    <2> HIDE DEF lasts
    <2>3. Min(lasts) \in lasts
      BY <1>4, <2>1, MinFacts
    <2>4. Min(lasts) \in Nat /\ length \in Nat /\ Min(lasts) + 1 <= Len(s)
      <3>1. \A m \in Nat : pos <= m /\ m < Len(s) => m + 1 - pos \in Nat /\ m + 1 <= Len(s)
        BY <1>1
      <3>2. QED
        BY <2>1, <2>3, <3>1
    <2> HIDE DEF length
    <2>5. parts \in [1 .. length -> Int]
      <3>1. SUFFICES ASSUME NEW k \in 1 .. length
                     PROVE  (ByteAt(s, pos + k - 1) % 128) * 2 ^ (7 * (k - 1)) \in Int
        OBVIOUS
      <3>2. ByteAt(s, pos + k - 1) % 128 \in Int
        <4>1. pos + k - 1 \in Int
          BY <2>4
        <4>2. ByteAt(s, pos + k - 1) \in Int
          BY <4>1, ByteFacts
        <4>3. QED
          BY <4>2
      <3>3. 7 * (k - 1) \in Nat
        BY <2>4
      <3>4. 2 ^ (7 * (k - 1)) \in Nat
        BY <3>3, PowerType
      <3>5. QED
        BY <3>2, <3>4
    <2> HIDE DEF parts
    <2>6. Wrapped(SumOf(parts, length)) \in Word
      BY <2>4, <2>5, SumType, WordFacts
    <2>7. QED
      BY <2>2, <2>4, <2>6 DEF Reading
  <1>5. QED
    BY <1>3, <1>4

LEMMA Sleb128Facts ==
    ASSUME NEW s \in Code, NEW pos \in Nat
    PROVE  Sleb128(s, pos) \in Reading(s)
  <1> DEFINE read == Uleb128(s, pos)
             shift == 7 * (read.pos - pos)
  <1>1. read \in Reading(s)
    BY Uleb128Facts
  <1>2. \/ Sleb128(s, pos) = read
        \/ read.ok /\ Sleb128(s, pos) = [read EXCEPT !.value = Wrapped(read.value - 2 ^ shift)]
    BY DEF Sleb128, SignExtended
  <1>3. read.ok => shift \in Nat
    <2>1. read.ok => read.pos >= pos
      <3>1. LebLasts(s, pos) # {} => Min(LebLasts(s, pos)) \in Nat /\ Min(LebLasts(s, pos)) >= pos
        <4>1. LebLasts(s, pos) \in SUBSET Nat /\ \A k \in LebLasts(s, pos) : pos <= k
          BY ByteFacts DEF LebLasts
        <4>2. QED
          BY <4>1, MinFacts
      <3>2. read.ok => LebLasts(s, pos) # {} /\ read.pos = Min(LebLasts(s, pos)) + 1
        BY DEF Uleb128, LebUpTo
      <3> HIDE DEF read
      <3>3. QED
        BY <3>1, <3>2
    <2>2. read.pos \in Nat
      BY <1>1 DEF Reading
    <2>3. QED
      BY <2>1, <2>2
  <1> HIDE DEF shift
  <1>4. read.ok => Wrapped(read.value - 2 ^ shift) \in Word
    <2>1. read.value \in Int
      BY <1>1, WordFacts DEF Reading
    <2>2. read.ok => 2 ^ shift \in Nat
      BY <1>3, PowerType
    <2>3. read.ok => read.value - 2 ^ shift \in Int
      BY <2>1, <2>2
    <2>4. QED
      BY <2>3, WordFacts
  <1> HIDE DEF read
  <1>5. QED
    BY <1>1, <1>2, <1>4 DEF Reading

LEMMA OperandFacts ==
    ASSUME NEW op, NEW s \in Code, NEW pos \in Nat, pos <= Len(s)
    PROVE  OperandAt(op, s, pos) \in Reading(s)
  <1>1. AddrSize \in Nat
    BY DwarfExprAssumption
  <1>2. \A bytes \in Nat : Fixed(s, pos, bytes) \in Reading(s) /\ SignedFixed(s, pos, bytes) \in Reading(s)
    BY FixedFacts, SignedFixedFacts
  <1>3. Uleb128(s, pos) \in Reading(s) /\ Sleb128(s, pos) \in Reading(s)
    BY Uleb128Facts, Sleb128Facts
  <1>4. [Sleb128(s, Uleb128(s, pos).pos) EXCEPT !.ok = Uleb128(s, pos).ok /\ @] \in Reading(s)
    <2>1. Uleb128(s, pos).pos \in Nat /\ Uleb128(s, pos).ok \in BOOLEAN
      BY <1>3 DEF Reading
    <2>2. Sleb128(s, Uleb128(s, pos).pos) \in Reading(s)
      BY <2>1, Sleb128Facts
    <2>3. QED
      BY <2>1, <2>2 DEF Reading
  <1>5. [ok |-> TRUE, value |-> 0, pos |-> pos] \in Reading(s)
    BY WordFacts DEF Reading, Word
  <1>6. QED
    BY <1>1, <1>2, <1>3, <1>4, <1>5 DEF OperandAt

-------------------------------------------------------------------------------
(* What operations compute.                                                 *)
LEMMA NegatedFacts ==
    ASSUME NEW w \in Word, NEW n \in Word
    PROVE  Negated(w) \in Word /\ ShiftedRight(w, n) \in Word
  <1>1. w \in Nat /\ n \in Nat /\ WordBits \in Nat /\ 0 \in Word
    BY WordFacts DEF Word
  <1>2. Negated(w) \in Word
    <2>1. -w \in Int
      BY <1>1
    <2>2. QED
      BY <2>1, WordFacts DEF Negated
  <1>3. w \div 2 ^ n \in Word
    <2>1. w \div 2 ^ n \in 0 .. w
      BY <1>1, BitFacts
    <2>2. \A q \in 0 .. w : q \in Word
      BY <1>1, WordFacts DEF Word
    <2>3. QED
      BY <2>1, <2>2
  <1>4. QED
    BY <1>1, <1>2, <1>3 DEF ShiftedRight

LEMMA UnaryFacts ==
    ASSUME NEW op \in Unaries, NEW n \in Word, NEW w \in Word
    PROVE  Unary(op, n, w) \in Word
  <1>1. Negated(w) \in Word
    BY NegatedFacts
  <1>2. Modulus - 1 - w \in Word
    BY WordFacts DEF Word
  <1>3. Wrapped(w + n) \in Word
    <2>1. w + n \in Int
      BY WordFacts
    <2>2. QED
      BY <2>1, WordFacts
  <1>4. op \in {DW_OP.abs, DW_OP.neg, DW_OP.not, DW_OP.plus_uconst}
    BY DEF Unaries
  <1>5. QED
    BY <1>1, <1>2, <1>3, <1>4 DEF Unary

LEMMA BinaryFacts ==
    ASSUME NEW op \in Binaries, NEW u \in Word, NEW t \in Word
    PROVE  Binary(op, u, t) \in Word
  <1>1. u \in Int /\ t \in Nat /\ 0 \in Word
    BY WordFacts DEF Word
  <1>2. Wrapped(u + t) \in Word /\ Wrapped(u - t) \in Word /\ Wrapped(u * t) \in Word
        /\ Wrapped(u * 2 ^ t) \in Word
    <2>1. u + t \in Int /\ u - t \in Int /\ u * t \in Int
      BY <1>1
    <2>2. 2 ^ t \in Int
      BY <1>1, PowerType
    <2>3. u * 2 ^ t \in Int
      BY <1>1, <2>2
    <2>4. QED
      BY <2>1, <2>3, WordFacts
  <1>3. \A k \in Places : Bit(u, k) \in 0 .. 1 /\ Bit(t, k) \in 0 .. 1
    <2>1. \A k \in Places : k \in Nat
      BY WordFacts DEF Places
    <2>2. QED
      BY <2>1, BitFacts
  <1>4. WordOf([k \in Places |-> Bit(u, k) * Bit(t, k)]) \in Word
    <2>1. \A a, b \in 0 .. 1 : a * b \in 0 .. 1
      OBVIOUS
    <2>2. [k \in Places |-> Bit(u, k) * Bit(t, k)] \in [Places -> 0 .. 1]
      BY <1>3, <2>1
    <2>3. QED
      BY <2>2, DigitsMakeWord
  <1>5. WordOf([k \in Places |-> IF Bit(u, k) + Bit(t, k) > 0 THEN 1 ELSE 0]) \in Word
    <2>1. [k \in Places |-> IF Bit(u, k) + Bit(t, k) > 0 THEN 1 ELSE 0] \in [Places -> 0 .. 1]
      OBVIOUS
    <2>2. QED
      BY <2>1, DigitsMakeWord
  <1>6. WordOf([k \in Places |-> (Bit(u, k) + Bit(t, k)) % 2]) \in Word
    <2>1. \A a, b \in 0 .. 1 : (a + b) % 2 \in 0 .. 1
      OBVIOUS
    <2>2. [k \in Places |-> (Bit(u, k) + Bit(t, k)) % 2] \in [Places -> 0 .. 1]
      BY <1>3, <2>1
    <2>3. QED
      BY <2>2, DigitsMakeWord
  <1>7. /\ ShiftedRight(u, t) \in Word
        /\ Negated(u) \in Word /\ Negated(ShiftedRight(Negated(u), t)) \in Word
    BY NegatedFacts
  <1>8. op \in {DW_OP.and, DW_OP.minus, DW_OP.mul, DW_OP.or, DW_OP.plus,
                DW_OP.shl, DW_OP.shr, DW_OP.shra, DW_OP.xor}
    BY DEF Binaries
  <1>9. QED
    BY <1>1, <1>2, <1>4, <1>5, <1>6, <1>7, <1>8 DEF Binary

LEMMA QuotientIsWord ==
    ASSUME NEW a \in Int, NEW b \in Int, b # 0
    PROVE  Wrapped(Quotient(a, b)) \in Word
  <1> DEFINE Size(v) == IF v < 0 THEN -v ELSE v
  <1>1. Size(a) \in Nat /\ Size(b) \in Nat /\ Size(b) > 0
    OBVIOUS
  <1>2. Quotient(a, b) = IF (a < 0) = (b < 0) THEN Size(a) \div Size(b) ELSE -(Size(a) \div Size(b))
    BY DEF Quotient
  <1> HIDE DEF Size
  <1>3. Size(a) \div Size(b) \in Nat
    BY <1>1, QuotientFacts
  <1>4. Quotient(a, b) \in Int
    BY <1>2, <1>3
  <1>5. QED
    BY <1>4, WordFacts

(* The entries that operations ask for, by the numbers of data.hpp.         *)
LEMMA Numbers ==
    /\ DW_OP.deref = 6 /\ DW_OP.dup = 18 /\ DW_OP.drop = 19 /\ DW_OP.over = 20 /\ DW_OP.pick = 21
    /\ DW_OP.swap = 22 /\ DW_OP.rot = 23 /\ DW_OP.bra = 40 /\ DW_OP.skip = 47
    /\ DW_OP.deref_size = 148 /\ DW_OP.stack_value = 159
    /\ DW_OP.lit0 = 48 /\ DW_OP.reg0 = 80
    /\ DW_OP.eq = 41 /\ DW_OP.ne = 46 /\ DW_OP.div = 27 /\ DW_OP.mod = 29
  BY DEF DW_OP

LEMMA OperationSets ==
    /\ Unaries = {25, 31, 32, 35} /\ Divisions = {27, 29} /\ Comparisons = 41 .. 46
    /\ Binaries = {26, 28, 30, 33, 36, 37, 38, 34, 39}
    /\ Literals = 48 .. 79 /\ RegisterOps = 80 .. 111
  <1>1. Unaries = {25, 31, 32, 35} /\ Divisions = {27, 29}
    BY DEF Unaries, Divisions, DW_OP
  <1>2. Binaries = {26, 28, 30, 33, 36, 37, 38, 34, 39}
    BY DEF Binaries, DW_OP
  <1>3. Comparisons = 41 .. 46 /\ Literals = 48 .. 79 /\ RegisterOps = 80 .. 111
    BY Numbers DEF Comparisons, Literals, RegisterOps
  <1>4. QED
    BY <1>1, <1>2, <1>3

LEMMA NeededFacts ==
    ASSUME NEW op, NEW n
    PROVE  /\ op \in Unaries \union {DW_OP.dup, DW_OP.drop, DW_OP.deref, DW_OP.deref_size,
                                     DW_OP.bra, DW_OP.stack_value} => Needed(op, n) = 1
           /\ op \in Binaries \union Divisions \union Comparisons \union {DW_OP.over, DW_OP.swap}
                 => Needed(op, n) = 2
           /\ op = DW_OP.rot => Needed(op, n) = 3
           /\ op = DW_OP.pick => Needed(op, n) = n
  BY Numbers, OperationSets DEF Needed

-------------------------------------------------------------------------------
(* The inductive invariant: activations are frames, and those that wait for *)
(* a frame base do so at an operation.                                      *)
Frame == [code : Code, base : Seq(FrameBases), pos : Int, stack : Seq(Word),
          location_type : {"address", "reg", "literal", "implicit", "empty"}, value : Word]

MachineIsSound ==
    /\ outcome \in {"running", "result"} \union Failures
    /\ frames \in Seq(Frame) /\ frames # <<>>
    /\ \A k \in 2 .. Len(frames) : frames[k].pos >= 0

StaysInCode == frames' # frames /\ operation \notin {DW_OP.skip, DW_OP.bra}
                  => Head(frames').pos <= Len(Head(frames').code)

StepIsSound == MachineIsSound' /\ StaysInCode

LEMMA FrameFacts ==
    ASSUME MachineIsSound
    PROVE  /\ frame \in Frame /\ frame = frames[1]
           /\ frame.code \in Code /\ frame.base \in Seq(FrameBases) /\ frame.pos \in Int
           /\ stack \in Seq(Word) /\ frame.value \in Word
           /\ Tail(frames) \in Seq(Frame) /\ Len(frames) \in Nat \ {0}
           /\ Len(Tail(frames)) = Len(frames) - 1
           /\ \A i \in 1 .. Len(frames) - 1 : Tail(frames)[i] = frames[i + 1]
  <1>1. frames \in Seq(Frame) /\ frames # <<>>
    BY DEF MachineIsSound
  <1>2. /\ Head(frames) \in Frame /\ Tail(frames) \in Seq(Frame)
        /\ Len(Tail(frames)) = Len(frames) - 1
        /\ \A i \in 1 .. Len(Tail(frames)) : Tail(frames)[i] = frames[i + 1]
    BY <1>1, HeadTailProperties
  <1>3. Len(frames) \in Nat \ {0} /\ Head(frames) = frames[1]
    BY <1>1
  <1>4. \A f \in Frame : /\ f.code \in Code /\ f.base \in Seq(FrameBases) /\ f.pos \in Int
                         /\ f.stack \in Seq(Word) /\ f.value \in Word
    BY DEF Frame
  <1>5. QED
    BY <1>2, <1>3, <1>4 DEF frame, stack

(* The activations with another one, or two, in the place of the innermost. *)
LEMMA ReplacedFacts ==
    ASSUME NEW f \in Frame, NEW rest \in Seq(Frame)
    PROVE  LET new == <<f>> \o rest
           IN  /\ new \in Seq(Frame) /\ new # <<>> /\ Head(new) = f /\ Len(new) = Len(rest) + 1
               /\ \A k \in 2 .. Len(new) : new[k] = rest[k - 1]
  <1> DEFINE new == <<f>> \o rest
  <1>1. <<f>> \in Seq(Frame) /\ Len(<<f>>) = 1 /\ <<f>>[1] = f /\ Len(rest) \in Nat
    OBVIOUS
  <1>2. /\ new \in Seq(Frame) /\ Len(new) = 1 + Len(rest)
        /\ \A i \in 1 .. 1 + Len(rest) : new[i] = IF i <= 1 THEN <<f>>[i] ELSE rest[i - 1]
    BY <1>1, ConcatProperties
  <1> HIDE DEF new
  <1>3. new[1] = f /\ \A k \in 2 .. Len(new) : new[k] = rest[k - 1]
    BY <1>1, <1>2
  <1>4. new # <<>> /\ Head(new) = new[1]
    BY <1>1, <1>2
  <1>5. QED
    BY <1>1, <1>2, <1>3, <1>4 DEF new

LEMMA EndIsSound ==
    ASSUME MachineIsSound, NEW what \in {"result"} \union Failures, EndWith(what)
    PROVE  StepIsSound
  BY DEF MachineIsSound, EndWith, StepIsSound, StaysInCode

LEMMA BecomeIsSound ==
    ASSUME MachineIsSound, NEW f \in Frame, Become(f),
           operation \notin {DW_OP.skip, DW_OP.bra} => f.pos <= Len(f.code)
    PROVE  StepIsSound
  <1>1. frames' = <<f>> \o Tail(frames) /\ outcome' = outcome
    BY DEF Become
  <1>2. /\ Tail(frames) \in Seq(Frame) /\ Len(frames) \in Nat \ {0}
        /\ Len(Tail(frames)) = Len(frames) - 1
        /\ \A i \in 1 .. Len(frames) - 1 : Tail(frames)[i] = frames[i + 1]
    BY FrameFacts
  <1>3. /\ frames' \in Seq(Frame) /\ frames' # <<>> /\ Head(frames') = f
        /\ Len(frames') = Len(Tail(frames)) + 1
        /\ \A k \in 2 .. Len(frames') : frames'[k] = Tail(frames)[k - 1]
    BY <1>1, <1>2, ReplacedFacts
  <1>4. \A k \in 2 .. Len(frames') : frames'[k] = frames[k]
    BY <1>2, <1>3
  <1>5. Len(frames') = Len(frames)
    BY <1>2, <1>3
  <1>6. MachineIsSound'
    BY <1>1, <1>3, <1>4, <1>5 DEF MachineIsSound
  <1>7. StaysInCode
    BY <1>3 DEF StaysInCode
  <1>8. QED
    BY <1>6, <1>7 DEF StepIsSound

LEMMA AtFacts ==
    ASSUME MachineIsSound, NEW ops, At(ops)
    PROVE  /\ outcome = "running" /\ operation \in ops
           /\ frame.pos \in Nat /\ frame.pos < Len(frame.code) /\ Len(frame.code) \in Nat
           /\ operand \in Reading(frame.code)
           /\ operand.ok \in BOOLEAN /\ operand.value \in Word /\ operand.pos \in Nat
           /\ operand.ok => operand.pos <= Len(frame.code)
  <1>1. frame.code \in Code /\ frame.pos \in Int /\ Len(frame.code) \in Nat
    BY FrameFacts, ByteFacts
  <1>2. frame.pos \in Nat /\ frame.pos < Len(frame.code)
    BY <1>1 DEF At, AtEnd
  <1>3. frame.pos + 1 \in Nat /\ frame.pos + 1 <= Len(frame.code)
    BY <1>1, <1>2
  <1>4. operand \in Reading(frame.code)
    BY <1>1, <1>3, OperandFacts DEF operand
  <1>5. QED
    BY <1>1, <1>2, <1>4 DEF At, Reading

LEMMA PerformsFacts ==
    ASSUME MachineIsSound, NEW ops, Performs(ops)
    PROVE  /\ At(ops) /\ operation \in ops /\ operand.ok
           /\ operand.value \in Word /\ operand.pos \in Nat
           /\ operand.pos <= Len(frame.code)
           /\ Len(stack) >= Needed(operation, operand.value)
  BY AtFacts DEF Performs

LEMMA LocateIsSound ==
    ASSUME MachineIsSound, NEW ops, Performs(ops),
           NEW type \in {"reg", "literal", "implicit"}, NEW value \in Word, Locate(type, value)
    PROVE  StepIsSound
  <1> DEFINE f == [frame EXCEPT !.pos = operand.pos, !.location_type = type, !.value = value]
  <1>1. frame \in Frame /\ operand.pos \in Int /\ operand.pos <= Len(frame.code)
    BY FrameFacts, PerformsFacts
  <1>2. f \in Frame /\ f.pos <= Len(f.code)
    BY <1>1 DEF Frame
  <1>3. Become(f)
    BY DEF Locate
  <1> HIDE DEF f
  <1>4. QED
    BY <1>2, <1>3, BecomeIsSound

LEMMA ContinueIsSound ==
    ASSUME MachineIsSound, NEW ops, Performs(ops), NEW s \in Seq(Word), Continue(s)
    PROVE  StepIsSound
  <1> DEFINE f == [frame EXCEPT !.pos = operand.pos, !.stack = s]
  <1>1. frame \in Frame /\ operand.pos \in Int /\ operand.pos <= Len(frame.code)
    BY FrameFacts, PerformsFacts
  <1>2. f \in Frame /\ f.pos <= Len(f.code)
    BY <1>1 DEF Frame
  <1>3. Become(f)
    BY DEF Continue
  <1> HIDE DEF f
  <1>4. QED
    BY <1>2, <1>3, BecomeIsSound

(* Stacks.                                                                  *)
LEMMA StackFacts ==
    ASSUME NEW s \in Seq(Word)
    PROVE  /\ Len(s) \in Nat
           /\ \A i \in 1 .. Len(s) : s[i] \in Word
           /\ \A w \in Word : Cons(w, s) \in Seq(Word)
           /\ Len(s) >= 1 => Tail(s) \in Seq(Word) /\ Head(s) = s[1]
           /\ SubSeq(s, 3, Len(s)) \in Seq(Word) /\ SubSeq(s, 4, Len(s)) \in Seq(Word)
  <1>1. Len(s) \in Nat /\ \A i \in 1 .. Len(s) : s[i] \in Word
    BY ElementOfSeq, LenProperties
  <1>2. \A w \in Word : Cons(w, s) \in Seq(Word)
    <2>1. \A w \in Word : <<w>> \in Seq(Word)
      OBVIOUS
    <2>2. \A w \in Word : <<w>> \o s \in Seq(Word)
      BY <2>1, ConcatProperties
    <2>3. QED
      BY <2>2 DEF Cons
  <1>3. Len(s) >= 1 => Tail(s) \in Seq(Word) /\ Head(s) = s[1]
    <2>1. s # <<>> => Tail(s) \in Seq(Word)
      BY HeadTailProperties
    <2>2. Len(s) >= 1 => s # <<>> /\ Head(s) = s[1]
      OBVIOUS
    <2>3. QED
      BY <2>1, <2>2
  <1>4. \A m \in Nat \ {0} : SubSeq(s, m, Len(s)) \in Seq(Word)
    <2>1. SUFFICES ASSUME NEW m \in Nat \ {0} PROVE SubSeq(s, m, Len(s)) \in Seq(Word)
      OBVIOUS
    <2>2. m \in Int /\ Len(s) \in Int /\ \A i \in m .. Len(s) : s[i] \in Word
      BY <1>1
    <2>3. QED
      BY <2>2, SubSeqProperties
  <1>5. QED
    BY <1>1, <1>2, <1>3, <1>4

LEMMA PushIsSound ==
    ASSUME MachineIsSound, NEW ops, Performs(ops), NEW w \in Word, Push(w)
    PROVE  StepIsSound
  <1>1. stack \in Seq(Word)
    BY FrameFacts
  <1>2. Cons(w, stack) \in Seq(Word)
    BY <1>1, StackFacts
  <1>3. Continue(Cons(w, stack))
    BY DEF Push
  <1>4. QED
    BY <1>2, <1>3, ContinueIsSound

LEMMA ReplaceTwoIsSound ==
    ASSUME MachineIsSound, NEW ops, Performs(ops), NEW w \in Word, ReplaceTwo(w)
    PROVE  StepIsSound
  <1>1. stack \in Seq(Word)
    BY FrameFacts
  <1>2. SubSeq(stack, 3, Len(stack)) \in Seq(Word)
    BY <1>1, StackFacts
  <1>3. Cons(w, SubSeq(stack, 3, Len(stack))) \in Seq(Word)
    BY <1>2, StackFacts
  <1>4. Continue(Cons(w, SubSeq(stack, 3, Len(stack))))
    BY DEF ReplaceTwo
  <1>5. QED
    BY <1>3, <1>4, ContinueIsSound

(* What a frame base or an expression starts with.                          *)
LEMMA ActivationFacts ==
    ASSUME NEW e \in Exprs \union FrameBases, NEW s \in Seq(Word)
    PROVE  Activation(e, s) \in Frame /\ Activation(e, s).pos = 0
  <1>1. e.code \in Code /\ e.base \in Seq(FrameBases)
    BY DwarfExprAssumption DEF Code
  <1>2. 0 \in Word
    BY WordFacts DEF Word
  <1>3. QED
    BY <1>1, <1>2 DEF Activation, Frame

-------------------------------------------------------------------------------
(* One step per action.                                                     *)
LEMMA ErrorsAreSound ==
    ASSUME MachineIsSound, ReadPastEnd \/ StackUnderflow \/ Refuse \/ LeaveCode
    PROVE  StepIsSound
  <1>1. /\ "underflow_error" \in Failures /\ "expr_error" \in Failures
        /\ "runtime_error" \in Failures /\ "before_begin" \in Failures
    BY DEF Failures
  <1>2. \E what \in Failures : EndWith(what)
    BY <1>1 DEF ReadPastEnd, StackUnderflow, Refuse, LeaveCode
  <1>3. QED
    BY <1>2, EndIsSound

LEMMA ValuesAreSound ==
    ASSUME MachineIsSound, PushLiteral \/ PushConstant
    PROVE  StepIsSound
  <1>1. CASE PushLiteral
    <2>1. Performs(Literals) /\ Push(operation - DW_OP.lit0)
      BY <1>1 DEF PushLiteral
    <2>2. operation \in 48 .. 79 /\ DW_OP.lit0 = 48
      BY <2>1, PerformsFacts, OperationSets, Numbers
    <2>3. operation - DW_OP.lit0 \in Word
      BY <2>2, WordFacts DEF Word
    <2>4. QED
      BY <2>1, <2>3, PushIsSound
  <1>2. CASE PushConstant
    <2>1. Performs(Constants) /\ Push(operand.value)
      BY <1>2 DEF PushConstant
    <2>2. operand.value \in Word
      BY <2>1, PerformsFacts
    <2>3. QED
      BY <2>1, <2>2, PushIsSound
  <1>3. QED
    BY <1>1, <1>2

LEMMA RegistersAreSound ==
    ASSUME MachineIsSound, PushRegister
    PROVE  StepIsSound
  <1> DEFINE ops == BaseOps \union {DW_OP.bregx, DW_OP.call_frame_cfa}
  <1>1. Performs(ops)
    BY DEF PushRegister
  <1>2. operand.value \in Word /\ CfaOffset \in Word /\ Registers \in [DOMAIN Registers -> Word]
    BY <1>1, PerformsFacts, DwarfExprAssumption
  <1>3. CASE BaseRegister \in DOMAIN Registers
    <2>1. Push(Wrapped(Registers[BaseRegister] + BaseOffset))
      BY <1>3 DEF PushRegister
    <2>2. BaseOffset \in Word
      BY <1>2 DEF BaseOffset
    <2>3. Registers[BaseRegister] \in Word
      BY <1>2, <1>3
    <2>4. \A a, b \in Word : Wrapped(a + b) \in Word
      <3>1. \A a, b \in Word : a + b \in Int
        BY WordFacts
      <3>2. QED
        BY <3>1, WordFacts
    <2>5. Wrapped(Registers[BaseRegister] + BaseOffset) \in Word
      BY <2>2, <2>3, <2>4
    <2>6. QED
      BY <1>1, <2>1, <2>5, PushIsSound
  <1>4. CASE BaseRegister \notin DOMAIN Registers
    <2>1. EndWith("out_of_range") /\ "out_of_range" \in Failures
      BY <1>4 DEF PushRegister, Failures
    <2>2. QED
      BY <2>1, EndIsSound
  <1>5. QED
    BY <1>3, <1>4

LEMMA FindFrameBaseIsSound ==
    ASSUME MachineIsSound, FindFrameBase
    PROVE  StepIsSound
  <1>1. Performs({DW_OP.fbreg})
    BY DEF FindFrameBase
  <1>2. frame.base \in Seq(FrameBases) /\ stack \in Seq(Word)
    BY FrameFacts
  <1>3. CASE frame.base = <<>>
    <2>1. Continue(stack)
      BY <1>3 DEF FindFrameBase
    <2>2. QED
      BY <1>1, <1>2, <2>1, ContinueIsSound
  <1>4. CASE frame.base = <<NoFrameBase>>
    <2>1. EndWith("out_of_range") /\ "out_of_range" \in Failures
      BY <1>4 DEF FindFrameBase, Failures
    <2>2. QED
      BY <2>1, EndIsSound
  <1>5. CASE frame.base # <<>> /\ frame.base # <<NoFrameBase>>
    <2> DEFINE f == Activation(Head(frame.base), <<>>)
    <2>1. frames' = <<f>> \o frames /\ outcome' = outcome
      BY <1>5 DEF FindFrameBase
    <2>2. f \in Frame /\ f.pos = 0
      <3>1. Head(frame.base) \in FrameBases
        BY <1>2, <1>5, HeadTailProperties
      <3>2. <<>> \in Seq(Word)
        OBVIOUS
      <3>3. QED
        BY <3>1, <3>2, ActivationFacts
    <2> HIDE DEF f
    <2>3. frames \in Seq(Frame) /\ Len(frames) \in Nat \ {0}
      BY FrameFacts DEF MachineIsSound
    <2>4. /\ frames' \in Seq(Frame) /\ frames' # <<>> /\ Head(frames') = f
          /\ Len(frames') = Len(frames) + 1
          /\ \A k \in 2 .. Len(frames') : frames'[k] = frames[k - 1]
      BY <2>1, <2>2, <2>3, ReplacedFacts
    <2>5. \A i \in 1 .. Len(frames) : frames[i].pos >= 0
      <3>1. frames[1].pos >= 0
        BY <1>1, FrameFacts DEF Performs, At
      <3>2. \A i \in 2 .. Len(frames) : frames[i].pos >= 0
        BY DEF MachineIsSound
      <3>3. \A i \in 1 .. Len(frames) : i = 1 \/ i \in 2 .. Len(frames)
        BY <2>3
      <3>4. QED
        BY <3>1, <3>2, <3>3
    <2>6. \A k \in 2 .. Len(frames') : frames'[k].pos >= 0
      <3>1. \A k \in 2 .. Len(frames') : k - 1 \in 1 .. Len(frames)
        BY <2>3, <2>4
      <3>2. QED
        BY <2>4, <2>5, <3>1
    <2>7. MachineIsSound'
      BY <2>1, <2>4, <2>6 DEF MachineIsSound
    <2>8. StaysInCode
      <3>1. f.code \in Code
        BY <2>2 DEF Frame
      <3>2. 0 <= Len(f.code)
        BY <3>1, ByteFacts
      <3>3. QED
        BY <2>2, <2>4, <3>2 DEF StaysInCode
    <2>9. QED
      BY <2>7, <2>8 DEF StepIsSound
  <1>6. QED
    BY <1>3, <1>4, <1>5

LEMMA DereferenceIsSound ==
    ASSUME MachineIsSound, Dereference
    PROVE  StepIsSound
  <1>1. Performs({DW_OP.deref, DW_OP.deref_size})
    BY DEF Dereference
  <1>2. stack \in Seq(Word) /\ Len(stack) >= 1
    <2>1. Needed(operation, operand.value) = 1
      BY <1>1, PerformsFacts, NeededFacts
    <2>2. QED
      BY <1>1, <2>1, PerformsFacts, FrameFacts
  <1>3. Tail(stack) \in Seq(Word) /\ Head(stack) \in Word
    BY <1>2, StackFacts
  <1>4. Memory[Wrapped(Head(stack) + LoadAddress)] \in Word
    <2>1. LoadAddress \in Word /\ Memory \in [Word -> Word]
      BY DwarfExprAssumption
    <2>2. Head(stack) + LoadAddress \in Int
      <3>1. Head(stack) \in Int
        BY <1>3, WordFacts
      <3>2. LoadAddress \in Int
        BY <2>1, WordFacts
      <3>3. QED
        BY <3>1, <3>2
    <2>3. Wrapped(Head(stack) + LoadAddress) \in Word
      BY <2>2, WordFacts
    <2>4. QED
      BY <2>1, <2>3
  <1>5. Cons(Memory[Wrapped(Head(stack) + LoadAddress)], Tail(stack)) \in Seq(Word)
    BY <1>3, <1>4, StackFacts
  <1>6. CASE operand.value > AddrSize
    <2>1. EndWith("expr_error") /\ "expr_error" \in Failures
      BY <1>6 DEF Dereference, Failures
    <2>2. QED
      BY <2>1, EndIsSound
  <1>7. CASE ~(operand.value > AddrSize)
    <2>1. Continue(Cons(Memory[Wrapped(Head(stack) + LoadAddress)], Tail(stack)))
      BY <1>7 DEF Dereference
    <2>2. QED
      BY <1>1, <1>5, <2>1, ContinueIsSound
  <1>8. QED
    BY <1>6, <1>7

LEMMA ShufflesAreSound ==
    ASSUME MachineIsSound, Dup \/ Drop \/ Over \/ Swap \/ Rot \/ Nop
    PROVE  StepIsSound
  <1>1. stack \in Seq(Word) /\ Len(stack) \in Nat /\ \A i \in 1 .. Len(stack) : stack[i] \in Word
    BY FrameFacts, StackFacts
  <1>2. CASE Dup
    <2>1. Performs({DW_OP.dup}) /\ Push(stack[1])
      BY <1>2 DEF Dup
    <2>2. Len(stack) >= 1
      <3>1. Needed(operation, operand.value) = 1
        BY <2>1, PerformsFacts, NeededFacts
      <3>2. QED
        BY <2>1, <3>1, PerformsFacts
    <2>3. stack[1] \in Word
      BY <1>1, <2>2
    <2>4. QED
      BY <2>1, <2>3, PushIsSound
  <1>3. CASE Drop
    <2>1. Performs({DW_OP.drop}) /\ Continue(Tail(stack))
      BY <1>3 DEF Drop
    <2>2. Len(stack) >= 1
      <3>1. Needed(operation, operand.value) = 1
        BY <2>1, PerformsFacts, NeededFacts
      <3>2. QED
        BY <2>1, <3>1, PerformsFacts
    <2>3. Tail(stack) \in Seq(Word)
      BY <1>1, <2>2, StackFacts
    <2>4. QED
      BY <2>1, <2>3, ContinueIsSound
  <1>4. CASE Over
    <2>1. Performs({DW_OP.over}) /\ Push(stack[2])
      BY <1>4 DEF Over
    <2>2. Len(stack) >= 2
      <3>1. Needed(operation, operand.value) = 2
        BY <2>1, PerformsFacts, NeededFacts
      <3>2. QED
        BY <2>1, <3>1, PerformsFacts
    <2>3. stack[2] \in Word
      BY <1>1, <2>2
    <2>4. QED
      BY <2>1, <2>3, PushIsSound
  <1>5. CASE Swap
    <2>1. Performs({DW_OP.swap})
      BY <1>5 DEF Swap
    <2>2. Continue(<<stack[2], stack[1]>> \o SubSeq(stack, 3, Len(stack)))
      BY <1>5 DEF Swap
    <2>3. Len(stack) >= 2
      <3>1. Needed(operation, operand.value) = 2
        BY <2>1, PerformsFacts, NeededFacts
      <3>2. QED
        BY <2>1, <3>1, PerformsFacts
    <2>4. <<stack[2], stack[1]>> \in Seq(Word)
      <3>1. stack[1] \in Word /\ stack[2] \in Word
        BY <1>1, <2>3
      <3>2. \A a, b \in Word : <<a, b>> \in Seq(Word)
        OBVIOUS
      <3>3. QED
        BY <3>1, <3>2
    <2>5. SubSeq(stack, 3, Len(stack)) \in Seq(Word)
      BY <1>1, StackFacts
    <2>6. <<stack[2], stack[1]>> \o SubSeq(stack, 3, Len(stack)) \in Seq(Word)
      BY <2>4, <2>5, ConcatProperties
    <2>7. QED
      BY <2>1, <2>2, <2>6, ContinueIsSound
  <1>6. CASE Rot
    <2>1. Performs({DW_OP.rot})
      BY <1>6 DEF Rot
    <2>2. Continue(<<stack[2], stack[3], stack[1]>> \o SubSeq(stack, 4, Len(stack)))
      BY <1>6 DEF Rot
    <2>3. Len(stack) >= 3
      <3>1. Needed(operation, operand.value) = 3
        BY <2>1, PerformsFacts, NeededFacts
      <3>2. QED
        BY <2>1, <3>1, PerformsFacts
    <2>4. <<stack[2], stack[3], stack[1]>> \in Seq(Word)
      <3>1. stack[1] \in Word /\ stack[2] \in Word /\ stack[3] \in Word
        BY <1>1, <2>3
      <3>2. \A a, b, c \in Word : <<a, b, c>> \in Seq(Word)
        OBVIOUS
      <3>3. QED
        BY <3>1, <3>2
    <2>5. SubSeq(stack, 4, Len(stack)) \in Seq(Word)
      BY <1>1, StackFacts
    <2>6. <<stack[2], stack[3], stack[1]>> \o SubSeq(stack, 4, Len(stack)) \in Seq(Word)
      BY <2>4, <2>5, ConcatProperties
    <2>7. QED
      BY <2>1, <2>2, <2>6, ContinueIsSound
  <1>7. CASE Nop
    <2>1. Performs({DW_OP.nop}) /\ Continue(stack)
      BY <1>7 DEF Nop
    <2>2. QED
      BY <1>1, <2>1, ContinueIsSound
  <1>8. QED
    BY <1>2, <1>3, <1>4, <1>5, <1>6, <1>7

LEMMA PickIsSound ==
    ASSUME MachineIsSound, Pick
    PROVE  StepIsSound
  <1>1. stack \in Seq(Word) /\ Len(stack) \in Nat /\ \A i \in 1 .. Len(stack) : stack[i] \in Word
    BY FrameFacts, StackFacts
  <1>2. Performs({DW_OP.pick})
    BY DEF Pick
  <1>3. operand.value \in Nat
    <2>1. operand.value \in Word
      BY <1>2, PerformsFacts
    <2>2. QED
      BY <2>1 DEF Word
  <1>4. operand.value < Len(stack) => stack[operand.value + 1] \in Word
    BY <1>1, <1>3
  <1>5. PICK w \in IF operand.value < Len(stack) THEN {stack[operand.value + 1]} ELSE Word : Push(w)
    BY DEF Pick
  <1>6. w \in Word
    BY <1>4, <1>5
  <1>7. QED
    BY <1>2, <1>5, <1>6, PushIsSound

LEMMA ArithmeticIsSound ==
    ASSUME MachineIsSound, ComputeUnary \/ ComputeBinary \/ Compare
    PROVE  StepIsSound
  <1>1. stack \in Seq(Word) /\ Len(stack) \in Nat /\ \A i \in 1 .. Len(stack) : stack[i] \in Word
    BY FrameFacts, StackFacts
  <1>2. CASE ComputeUnary
    <2>1. Performs(Unaries)
      BY <1>2 DEF ComputeUnary
    <2>2. Continue(Cons(Unary(operation, operand.value, stack[1]), Tail(stack)))
      BY <1>2 DEF ComputeUnary
    <2>3. operation \in Unaries /\ operand.value \in Word
      BY <2>1, PerformsFacts
    <2>4. Len(stack) >= 1
      <3>1. Needed(operation, operand.value) = 1
        BY <2>3, NeededFacts
      <3>2. QED
        BY <2>1, <3>1, PerformsFacts
    <2>5. stack[1] \in Word
      BY <1>1, <2>4
    <2>6. Unary(operation, operand.value, stack[1]) \in Word
      BY <2>3, <2>5, UnaryFacts
    <2>7. Tail(stack) \in Seq(Word)
      BY <1>1, <2>4, StackFacts
    <2>8. Cons(Unary(operation, operand.value, stack[1]), Tail(stack)) \in Seq(Word)
      BY <2>6, <2>7, StackFacts
    <2>9. QED
      BY <2>1, <2>2, <2>8, ContinueIsSound
  <1>3. CASE ComputeBinary
    <2>1. Performs(Binaries)
      BY <1>3 DEF ComputeBinary
    <2>2. ReplaceTwo(Binary(operation, stack[2], stack[1]))
      BY <1>3 DEF ComputeBinary
    <2>3. operation \in Binaries
      BY <2>1, PerformsFacts
    <2>4. Len(stack) >= 2
      <3>1. Needed(operation, operand.value) = 2
        BY <2>3, NeededFacts
      <3>2. QED
        BY <2>1, <3>1, PerformsFacts
    <2>5. stack[1] \in Word /\ stack[2] \in Word
      BY <1>1, <2>4
    <2>6. Binary(operation, stack[2], stack[1]) \in Word
      BY <2>3, <2>5, BinaryFacts
    <2>7. QED
      BY <2>1, <2>2, <2>6, ReplaceTwoIsSound
  <1>4. CASE Compare
    <2> DEFINE w == IF Signed(stack[2]) <= Signed(stack[1]) THEN 1 ELSE 0
    <2>1. Performs(Comparisons)
      BY <1>4 DEF Compare
    <2>2. ReplaceTwo(w)
      BY <1>4 DEF Compare
    <2>3. 0 \in Word /\ 1 \in Word
      BY WordFacts DEF Word
    <2>4. w \in Word
      BY <2>3
    <2> HIDE DEF w
    <2>5. QED
      BY <2>1, <2>2, <2>4, ReplaceTwoIsSound
  <1>5. QED
    BY <1>2, <1>3, <1>4

LEMMA DivisionIsSound ==
    ASSUME MachineIsSound, Divide \/ Remainder
    PROVE  StepIsSound
  <1>1. stack \in Seq(Word) /\ Len(stack) \in Nat /\ \A i \in 1 .. Len(stack) : stack[i] \in Word
    BY FrameFacts, StackFacts
  <1>2. \A op \in {DW_OP.div, DW_OP.mod} : Performs({op}) => stack[1] \in Word /\ stack[2] \in Word
    <2>1. SUFFICES ASSUME NEW op \in {DW_OP.div, DW_OP.mod}, Performs({op})
                   PROVE  stack[1] \in Word /\ stack[2] \in Word
      OBVIOUS
    <2>2. operation \in Divisions
      BY <2>1, PerformsFacts DEF Divisions
    <2>3. Needed(operation, operand.value) = 2
      BY <2>2, NeededFacts
    <2>4. Len(stack) >= 2
      BY <2>1, <2>3, PerformsFacts
    <2>5. QED
      BY <1>1, <2>4
  <1>3. "SIGFPE" \in Failures
    BY DEF Failures
  <1>4. CASE Divide
    <2> DEFINE a == Signed(stack[1])
               b == Signed(stack[2])
    <2>1. Performs({DW_OP.div})
      BY <1>4 DEF Divide
    <2>2. a \in Int /\ b \in Int
      BY <1>2, <2>1, WordFacts
    <2>3. EndWith("SIGFPE") \/ (b # 0 /\ ReplaceTwo(Wrapped(Quotient(a, b))))
      BY <1>4 DEF Divide
    <2> HIDE DEF a, b
    <2>4. b # 0 => Wrapped(Quotient(a, b)) \in Word
      BY <2>2, QuotientIsWord
    <2>5. CASE EndWith("SIGFPE")
      BY <1>3, <2>5, EndIsSound
    <2>6. CASE b # 0 /\ ReplaceTwo(Wrapped(Quotient(a, b)))
      BY <2>1, <2>4, <2>6, ReplaceTwoIsSound
    <2>7. QED
      BY <2>3, <2>5, <2>6
  <1>5. CASE Remainder
    <2>1. Performs({DW_OP.mod})
      BY <1>5 DEF Remainder
    <2>2. EndWith("SIGFPE") \/ (stack[1] # 0 /\ ReplaceTwo(stack[2] % stack[1]))
      BY <1>5 DEF Remainder
    <2>3. stack[1] # 0 => stack[2] % stack[1] \in Word
      <3>1. stack[1] \in Word /\ stack[2] \in Word
        BY <1>2, <2>1
      <3>2. \A u, t \in Word : t # 0 => u % t \in Word
        BY WordFacts DEF Word
      <3>3. QED
        BY <3>1, <3>2
    <2>4. CASE EndWith("SIGFPE")
      BY <1>3, <2>4, EndIsSound
    <2>5. CASE stack[1] # 0 /\ ReplaceTwo(stack[2] % stack[1])
      BY <2>1, <2>3, <2>5, ReplaceTwoIsSound
    <2>6. QED
      BY <2>2, <2>4, <2>5
  <1>6. QED
    BY <1>4, <1>5

LEMMA JumpsAreSound ==
    ASSUME MachineIsSound, Skip \/ Branch
    PROVE  StepIsSound
  <1>1. frame \in Frame /\ stack \in Seq(Word)
    BY FrameFacts
  <1>2. \A ops : Performs(ops) => operand.pos \in Int /\ JumpTarget \in Int
    <2>1. SUFFICES ASSUME NEW ops, Performs(ops) PROVE operand.pos \in Int /\ JumpTarget \in Int
      OBVIOUS
    <2>2. operand.pos \in Int /\ operand.value \in Word
      BY <2>1, PerformsFacts
    <2>3. Signed(operand.value) \in Int
      BY <2>2, WordFacts
    <2>4. QED
      BY <2>2, <2>3 DEF JumpTarget
  <1>3. CASE Skip
    <2> DEFINE f == [frame EXCEPT !.pos = JumpTarget]
    <2>1. Performs({DW_OP.skip}) /\ Become(f)
      BY <1>3 DEF Skip
    <2>2. operation = DW_OP.skip
      BY <2>1, PerformsFacts
    <2>3. JumpTarget \in Int
      BY <1>2, <2>1
    <2>4. f \in Frame
      BY <1>1, <2>3 DEF Frame
    <2> HIDE DEF f
    <2>5. QED
      BY <2>1, <2>2, <2>4, BecomeIsSound
  <1>4. CASE Branch
    <2> DEFINE target == IF Head(stack) = 0 THEN operand.pos ELSE JumpTarget
               f == [frame EXCEPT !.stack = Tail(stack), !.pos = target]
    <2>1. Performs({DW_OP.bra})
      BY <1>4 DEF Branch
    <2>2. Become(f)
      BY <1>4 DEF Branch
    <2>3. operation = DW_OP.bra
      BY <2>1, PerformsFacts
    <2>4. target \in Int
      BY <1>2, <2>1
    <2>5. Len(stack) >= 1
      <3>1. Needed(operation, operand.value) = 1
        BY <2>3, NeededFacts
      <3>2. QED
        BY <2>1, <3>1, PerformsFacts
    <2>6. Tail(stack) \in Seq(Word)
      BY <1>1, <2>5, StackFacts
    <2> HIDE DEF target
    <2>7. f \in Frame
      BY <1>1, <2>4, <2>6 DEF Frame
    <2> HIDE DEF f
    <2>8. QED
      BY <2>2, <2>3, <2>7, BecomeIsSound
  <1>5. QED
    BY <1>3, <1>4

LEMMA LocationsAreSound ==
    ASSUME MachineIsSound, RegisterLocation \/ StackValue \/ ImplicitValue
    PROVE  StepIsSound
  <1>1. stack \in Seq(Word) /\ frame.value \in Word
    BY FrameFacts
  <1>2. CASE Performs(RegisterOps) /\ Locate("reg", operation - DW_OP.reg0)
    <2>1. operation \in 80 .. 111 /\ DW_OP.reg0 = 80
      BY <1>2, PerformsFacts, OperationSets, Numbers
    <2>2. operation - DW_OP.reg0 \in Word
      BY <2>1, WordFacts DEF Word
    <2>3. QED
      BY <1>2, <2>2, LocateIsSound
  <1>3. CASE Performs({DW_OP.regx}) /\ Locate("reg", operand.value)
    <2>1. operand.value \in Word
      BY <1>3, PerformsFacts
    <2>2. QED
      BY <1>3, <2>1, LocateIsSound
  <1>4. CASE StackValue
    <2>1. Performs({DW_OP.stack_value}) /\ Locate("literal", Head(stack))
      BY <1>4 DEF StackValue
    <2>2. Len(stack) >= 1
      <3>1. Needed(operation, operand.value) = 1
        BY <2>1, PerformsFacts, NeededFacts
      <3>2. QED
        BY <2>1, <3>1, PerformsFacts
    <2>3. Head(stack) \in Word
      <3>1. Len(stack) \in Nat /\ Head(stack) = stack[1] /\ \A i \in 1 .. Len(stack) : stack[i] \in Word
        BY <1>1, <2>2, StackFacts
      <3>2. QED
        BY <2>2, <3>1
    <2>4. QED
      BY <2>1, <2>3, LocateIsSound
  <1>5. CASE ImplicitValue
    <2>1. Performs({DW_OP.implicit_value})
      BY <1>5 DEF ImplicitValue
    <2>2. Locate("implicit", frame.value) \/ EndWith("underflow_error")
      BY <1>5 DEF ImplicitValue
    <2>3. CASE Locate("implicit", frame.value)
      BY <1>1, <2>1, <2>3, LocateIsSound
    <2>4. CASE EndWith("underflow_error")
      <3>1. "underflow_error" \in Failures
        BY DEF Failures
      <3>2. QED
        BY <2>4, <3>1, EndIsSound
    <2>5. QED
      BY <2>2, <2>3, <2>4
  <1>6. QED
    BY <1>2, <1>3, <1>4, <1>5 DEF RegisterLocation

(* The caller goes on behind fbreg's offset, which it reads only now.       *)
LEMMA UseFrameBaseIsSound ==
    ASSUME MachineIsSound, Len(frames) > 1, UseFrameBase,
           frame.location_type = "address" => stack # <<>>
    PROVE  StepIsSound
  <1> DEFINE caller == frames[2]
             offset == Sleb128(caller.code, caller.pos + 1)
             value == IF frame.location_type = "address" THEN Head(stack) ELSE Registers[frame.value]
             f == [caller EXCEPT !.pos = offset.pos,
                                 !.stack = Cons(Wrapped(value + offset.value), @)]
             goesOn == /\ frames' = <<f>> \o Tail(Tail(frames))
                       /\ UNCHANGED <<expression, arguments, outcome>>
  <1>1. \/ EndWith("expr_error") \/ EndWith("underflow_error") \/ EndWith("out_of_range")
        \/ /\ frame.location_type \in {"reg", "address"} /\ offset.ok
           /\ frame.location_type = "reg" => frame.value \in DOMAIN Registers
           /\ goesOn
    BY DEF UseFrameBase
  <1>2. frames \in Seq(Frame) /\ Len(frames) \in Nat
    BY FrameFacts DEF MachineIsSound
  <1>3. caller \in Frame /\ caller.pos \in Nat
    <2>1. 2 \in 1 .. Len(frames) /\ 2 \in 2 .. Len(frames)
      BY <1>2
    <2>2. caller \in Frame
      BY <1>2, <2>1, ElementOfSeq
    <2>3. caller.pos >= 0
      BY <2>1 DEF MachineIsSound
    <2>4. caller.pos \in Int
      BY <2>2 DEF Frame
    <2> HIDE DEF caller
    <2>5. QED
      BY <2>2, <2>3, <2>4
  <1> HIDE DEF caller
  <1>4. caller.code \in Code /\ caller.stack \in Seq(Word)
    BY <1>3 DEF Frame
  <1>5. offset \in Reading(caller.code)
    <2>1. caller.pos + 1 \in Nat
      BY <1>3
    <2>2. QED
      BY <1>4, <2>1, Sleb128Facts
  <1> HIDE DEF offset
  <1>6. offset.value \in Int /\ offset.pos \in Nat /\ (offset.ok => offset.pos <= Len(caller.code))
    BY <1>5, WordFacts DEF Reading
  <1>7. CASE EndWith("expr_error") \/ EndWith("underflow_error") \/ EndWith("out_of_range")
    <2>1. {"expr_error", "underflow_error", "out_of_range"} \subseteq Failures
      BY DEF Failures
    <2>2. QED
      BY <1>7, <2>1, EndIsSound
  <1>8. CASE /\ frame.location_type \in {"reg", "address"} /\ offset.ok
             /\ frame.location_type = "reg" => frame.value \in DOMAIN Registers
             /\ goesOn
    <2>1. value \in Int
      <3>1. CASE frame.location_type = "address"
        <4>1. stack \in Seq(Word) /\ stack # <<>>
          BY <3>1, FrameFacts
        <4>2. Head(stack) \in Word
          BY <4>1, HeadTailProperties
        <4>3. QED
          BY <3>1, <4>2, WordFacts
      <3>2. CASE frame.location_type = "reg"
        <4>1. Registers[frame.value] \in Word
          BY <1>8, <3>2, DwarfExprAssumption
        <4>2. QED
          BY <3>2, <4>1, WordFacts
      <3>3. QED
        BY <1>8, <3>1, <3>2
    <2> HIDE DEF value
    <2>2. Wrapped(value + offset.value) \in Word
      <3>1. value + offset.value \in Int
        BY <1>6, <2>1
      <3>2. QED
        BY <3>1, WordFacts
    <2>3. Cons(Wrapped(value + offset.value), caller.stack) \in Seq(Word)
      BY <1>4, <2>2, StackFacts
    <2>4. f \in Frame /\ f.pos = offset.pos /\ f.code = caller.code
      <3>1. \A p \in Int, s \in Seq(Word) :
               LET g == [caller EXCEPT !.pos = p, !.stack = s]
               IN  g \in Frame /\ g.pos = p /\ g.code = caller.code
        BY <1>3 DEF Frame
      <3>2. offset.pos \in Int
        BY <1>6
      <3>3. f = [caller EXCEPT !.pos = offset.pos,
                               !.stack = Cons(Wrapped(value + offset.value), caller.stack)]
        OBVIOUS
      <3> HIDE DEF f
      <3>4. QED
        BY <2>3, <3>1, <3>2, <3>3
    <2>5. frames' = <<f>> \o Tail(Tail(frames)) /\ outcome' = outcome
      BY <1>8
    <2> HIDE DEF f, goesOn
    <2> DEFINE rest == Tail(Tail(frames))
    <2>6. /\ rest \in Seq(Frame) /\ Len(rest) = Len(frames) - 2
          /\ \A i \in 1 .. Len(frames) - 2 : rest[i] = frames[i + 2]
      <3>1. /\ Tail(frames) \in Seq(Frame) /\ Len(Tail(frames)) = Len(frames) - 1
            /\ \A i \in 1 .. Len(frames) - 1 : Tail(frames)[i] = frames[i + 1]
        BY FrameFacts
      <3>2. Tail(frames) # <<>>
        <4>1. Len(Tail(frames)) # 0
          BY <1>2, <3>1, SMTT(30)
        <4>2. \A s : s = <<>> => Len(s) = 0
          OBVIOUS
        <4>3. QED
          BY <4>1, <4>2, Zenon
      <3>3. /\ rest \in Seq(Frame) /\ Len(rest) = Len(Tail(frames)) - 1
            /\ \A i \in 1 .. Len(rest) : rest[i] = Tail(frames)[i + 1]
        BY <3>1, <3>2, HeadTailProperties
      <3>4. Len(rest) = Len(frames) - 2
        BY <1>2, <3>1, <3>3
      <3>5. \A i \in 1 .. Len(frames) - 2 : i + 1 \in 1 .. Len(frames) - 1 /\ (i + 1) + 1 = i + 2
        BY <1>2
      <3>6. \A i \in 1 .. Len(frames) - 2 : rest[i] = frames[i + 2]
        BY <3>1, <3>3, <3>4, <3>5
      <3>7. QED
        BY <3>3, <3>4, <3>6
    <2> HIDE DEF rest
    <2>7. /\ frames' \in Seq(Frame) /\ frames' # <<>> /\ Head(frames') = f
          /\ Len(frames') = Len(rest) + 1
          /\ \A k \in 2 .. Len(frames') : frames'[k] = rest[k - 1]
      <3>1. frames' = <<f>> \o rest
        BY <2>5 DEF rest
      <3>2. QED
        BY <2>4, <2>6, <3>1, ReplacedFacts
    <2>8. \A k \in 2 .. Len(frames') : frames'[k].pos >= 0
      <3>1. Len(frames') = Len(frames) - 1
        BY <1>2, <2>6, <2>7
      <3>2. \A k \in 2 .. Len(frames') :
               /\ k - 1 \in 1 .. Len(frames) - 2 /\ (k - 1) + 2 = k + 1
               /\ k + 1 \in 2 .. Len(frames)
        BY <1>2, <3>1
      <3>3. \A k \in 2 .. Len(frames') : frames'[k] = frames[k + 1]
        BY <2>6, <2>7, <3>2
      <3>4. QED
        BY <3>2, <3>3 DEF MachineIsSound
    <2>9. MachineIsSound'
      BY <2>5, <2>7, <2>8 DEF MachineIsSound
    <2>10. StaysInCode
      BY <1>6, <1>8, <2>4, <2>7 DEF StaysInCode
    <2>11. QED
      BY <2>9, <2>10 DEF StepIsSound
  <1>9. QED
    BY <1>1, <1>7, <1>8

LEMMA FinishIsSound ==
    ASSUME MachineIsSound, Finish
    PROVE  StepIsSound
  <1>1. "expr_error" \in Failures
    BY DEF Failures
  <1>2. \/ EndWith("expr_error") \/ EndWith("result")
        \/ /\ Len(frames) > 1 /\ UseFrameBase
           /\ frame.location_type = "address" => stack # <<>>
    BY DEF Finish
  <1>3. QED
    BY <1>1, <1>2, EndIsSound, UseFrameBaseIsSound

LEMMA InitIsSound == Init => MachineIsSound
  <1>1. SUFFICES ASSUME Init PROVE MachineIsSound
    OBVIOUS
  <1>2. expression \in Exprs \union FrameBases /\ arguments \in Seq(Word)
    BY <1>1, DwarfExprAssumption DEF Init
  <1>3. Activation(expression, arguments) \in Frame
    BY <1>2, ActivationFacts
  <1>4. frames = <<Activation(expression, arguments)>> /\ outcome = "running"
    BY <1>1 DEF Init
  <1>5. frames \in Seq(Frame) /\ Len(frames) = 1 /\ frames # <<>>
    BY <1>3, <1>4
  <1>6. QED
    BY <1>4, <1>5 DEF MachineIsSound

LEMMA NextIsSound == MachineIsSound /\ [Next]_vars => StepIsSound
  <1>1. SUFFICES ASSUME MachineIsSound, [Next]_vars PROVE StepIsSound
    OBVIOUS
  <1>2. CASE ReadPastEnd \/ StackUnderflow \/ Refuse \/ LeaveCode
    BY <1>1, <1>2, ErrorsAreSound
  <1>3. CASE PushLiteral \/ PushConstant
    BY <1>1, <1>3, ValuesAreSound
  <1>4. CASE PushRegister
    BY <1>1, <1>4, RegistersAreSound
  <1>5. CASE FindFrameBase
    BY <1>1, <1>5, FindFrameBaseIsSound
  <1>6. CASE Dereference
    BY <1>1, <1>6, DereferenceIsSound
  <1>7. CASE Dup \/ Drop \/ Over \/ Swap \/ Rot \/ Nop
    BY <1>1, <1>7, ShufflesAreSound
  <1>8. CASE Pick
    BY <1>1, <1>8, PickIsSound
  <1>9. CASE ComputeUnary \/ ComputeBinary \/ Compare
    BY <1>1, <1>9, ArithmeticIsSound
  <1>10. CASE Divide \/ Remainder
    BY <1>1, <1>10, DivisionIsSound
  <1>11. CASE Skip \/ Branch
    BY <1>1, <1>11, JumpsAreSound
  <1>12. CASE RegisterLocation \/ StackValue \/ ImplicitValue
    BY <1>1, <1>12, LocationsAreSound
  <1>13. CASE Finish
    BY <1>1, <1>13, FinishIsSound
  <1>14. CASE UNCHANGED vars
    BY <1>1, <1>14 DEF vars, MachineIsSound, StepIsSound, StaysInCode
  <1>15. QED
    BY <1>1, <1>2, <1>3, <1>4, <1>5, <1>6, <1>7, <1>8, <1>9, <1>10, <1>11, <1>12, <1>13, <1>14
       DEF Next

-------------------------------------------------------------------------------
LEMMA MachineStaysSound == Spec => []MachineIsSound
  <1>1. MachineIsSound /\ [Next]_vars => MachineIsSound'
    BY NextIsSound DEF StepIsSound
  <1>2. QED
    BY InitIsSound, <1>1, PTL DEF Spec

(* Entries and results are machine words, and a location is one of five     *)
(* kinds: whatever expression evaluate is called with, on whatever stack    *)
(* and debuggee (expr_context and the switch of expr::evaluate).            *)
THEOREM DwarfExprTypeCorrect == Spec => []TypeOK
  <1>1. MachineIsSound => TypeOK
    <2>1. SUFFICES ASSUME MachineIsSound PROVE TypeOK
      OBVIOUS
    <2>2. frames \in Seq(Frame) /\ Len(frames) >= 1
      <3>1. Len(frames) \in Nat \ {0}
        BY <2>1, FrameFacts
      <3>2. Len(frames) >= 1
        BY <3>1
      <3>3. QED
        BY <2>1, <3>2 DEF MachineIsSound
    <2>3. \A k \in DOMAIN frames : frames[k] \in Frame
      BY <2>2, ElementOfSeq, LenProperties
    <2>4. \A f \in Frame :
             /\ f.pos \in Int
             /\ \A j \in DOMAIN f.stack : f.stack[j] \in Word
             /\ f.location_type \in {"address", "reg", "literal", "implicit", "empty"}
             /\ f.value \in Word
      BY ElementOfSeq, LenProperties DEF Frame
    <2>5. outcome \in {"running", "result"} \union Failures
      BY <2>1 DEF MachineIsSound
    <2>6. QED
      BY <2>2, <2>3, <2>4, <2>5, Zenon DEF TypeOK
  <1>2. QED
    BY MachineStaysSound, <1>1, PTL

(* Operands are read within the code: a step that is not a jump leaves the  *)
(* innermost evaluation at most at the end of its code, also where fbreg    *)
(* reads its offset after the frame base was evaluated (cursor::ensure and  *)
(* the LEB128 readers).                                                     *)
THEOREM OperandsStayInCode == Spec => ReadsStayInCode
  <1>1. MachineIsSound /\ [Next]_vars
           => [frames' # frames /\ operation \notin {DW_OP.skip, DW_OP.bra}
                 => Head(frames').pos <= Len(Head(frames').code)]_vars
    BY NextIsSound DEF StepIsSound, StaysInCode
  <1>2. QED
    BY MachineStaysSound, <1>1, PTL DEF Spec, ReadsStayInCode
===============================================================================
