------------------------------ MODULE Files_proof ------------------------------
(***************************************************************************)
(* What is read from files is what they say: what an ELF file answers is   *)
(* what was written, of every image (ElfFile), and what the units of its   *)
(* debugging information keep is what that says (UnitCaches).              *)
(***************************************************************************)
EXTENDS ElfFile, DwarfFiles, NumberTheorems, SequenceTheorems

(* Flattened sequences.                                                     *)
IsFlat(f, ss, m) == f = [i \in 1 .. m |-> IF i = 1 THEN ss[i] ELSE f[i - 1] \o ss[i]]
Prefix(ss, m) == [j \in 1 .. m |-> ss[j]]

LEMMA FlatExists ==
    ASSUME NEW ss, NEW n \in Nat
    PROVE  \E f : IsFlat(f, ss, n)
  <1> DEFINE Solvable(m) == \E f : IsFlat(f, ss, m)
             Wrong == {m \in Nat : ~Solvable(m)}
  <1>1. SUFFICES ASSUME ~Solvable(n) PROVE FALSE
    OBVIOUS
  <1> HIDE DEF Solvable
  <1>2. n \in Wrong /\ Wrong \in SUBSET Nat
    BY <1>1
  <1>3. PICK m \in Wrong : \A j \in Wrong : m <= j
    BY <1>2, LeastExists
  <1>4. m \in Nat /\ ~Solvable(m)
    BY <1>2, <1>3
  <1>5. m # 0
    <2>1. ASSUME m = 0 PROVE FALSE
      <3> DEFINE f == [i \in 1 .. 0 |-> ss[i]]
      <3>1. f = [i \in 1 .. m |-> IF i = 1 THEN ss[i] ELSE f[i - 1] \o ss[i]]
        BY <2>1
      <3>2. QED
        BY <1>4, <3>1 DEF Solvable, IsFlat
    <2>2. QED
      BY <2>1
  <1>6. m - 1 \in Nat /\ m - 1 \notin Wrong
    BY <1>3, <1>4, <1>5
  <1>7. Solvable(m - 1)
    BY <1>6
  <1>8. PICK f : f = [i \in 1 .. m - 1 |-> IF i = 1 THEN ss[i] ELSE f[i - 1] \o ss[i]]
    BY <1>7 DEF Solvable, IsFlat
  <1> DEFINE g == [i \in 1 .. m |-> IF i = 1 THEN ss[i] ELSE f[i - 1] \o ss[i]]
  <1>9. ASSUME NEW i \in 1 .. m, i # 1 PROVE g[i - 1] = f[i - 1]
    <2>1. i - 1 \in 1 .. m - 1 /\ i - 1 \in 1 .. m
      BY <1>4, <1>9
    <2>2. f[i - 1] = IF i - 1 = 1 THEN ss[i - 1] ELSE f[(i - 1) - 1] \o ss[i - 1]
      BY <1>8, <2>1
    <2>3. QED
      BY <2>1, <2>2
  <1>10. g = [i \in 1 .. m |-> IF i = 1 THEN ss[i] ELSE g[i - 1] \o ss[i]]
    <2>1. \A i \in 1 .. m : g[i] = IF i = 1 THEN ss[i] ELSE g[i - 1] \o ss[i]
      BY <1>9
    <2>2. QED
      BY <2>1
  <1> HIDE DEF g
  <1>11. QED
    BY <1>4, <1>10 DEF Solvable, IsFlat

Agree(ss, tt, m) == \A i \in 1 .. m : ss[i] = tt[i]

LEMMA FlatAgrees ==
    ASSUME NEW ss, NEW tt, NEW m \in Nat, NEW n \in Nat, NEW f, NEW g,
           IsFlat(f, ss, m), IsFlat(g, tt, n), m <= n, Agree(ss, tt, m)
    PROVE  Agree(f, g, m)
  <1> DEFINE Wrong == {i \in 1 .. m : f[i] # g[i]}
  <1>1. SUFFICES ASSUME Wrong # {} PROVE FALSE
    BY DEF Agree
  <1>2. Wrong \in SUBSET Nat
    OBVIOUS
  <1>3. PICK i \in Wrong : \A j \in Wrong : i <= j
    BY <1>1, <1>2, LeastExists
  <1>4. i \in 1 .. m /\ i \in 1 .. n /\ f[i] # g[i] /\ ss[i] = tt[i]
    BY <1>3 DEF Agree
  <1>5. f[i] = (IF i = 1 THEN ss[i] ELSE f[i - 1] \o ss[i])
    BY <1>4 DEF IsFlat
  <1>6. g[i] = (IF i = 1 THEN tt[i] ELSE g[i - 1] \o tt[i])
    BY <1>4 DEF IsFlat
  <1>7. i # 1 => i - 1 \in 1 .. m /\ i - 1 \notin Wrong
    BY <1>3, <1>4
  <1>8. i # 1 => f[i - 1] = g[i - 1]
    BY <1>7
  <1>9. QED
    BY <1>4, <1>5, <1>6, <1>8

(* A flattened sequence is its last element behind the others, flattened.   *)
LEMMA FlattenStep ==
    ASSUME NEW S, NEW n \in Nat, NEW ss \in [1 .. n + 1 -> Seq(S)],
           FlattenSeq(Prefix(ss, n)) \in Seq(S)
    PROVE  FlattenSeq(ss) = FlattenSeq(Prefix(ss, n)) \o ss[n + 1]
  <1>1. ss \in Seq(Seq(S)) /\ Len(ss) = n + 1 /\ n + 1 \in 1 .. n + 1
    OBVIOUS
  <1> DEFINE flat(tt) == CHOOSE f : f = [i \in 1 .. Len(tt) |-> IF i = 1 THEN tt[i] ELSE f[i - 1] \o tt[i]]
  <1>2. IsFlat(flat(ss), ss, n + 1)
    <2>1. \E f : f = [i \in 1 .. Len(ss) |-> IF i = 1 THEN ss[i] ELSE f[i - 1] \o ss[i]]
      <3>1. n + 1 \in Nat
        OBVIOUS
      <3>2. \E f : IsFlat(f, ss, n + 1)
        BY <3>1, FlatExists
      <3>3. QED
        BY <1>1, <3>2 DEF IsFlat
    <2>2. flat(ss) = [i \in 1 .. Len(ss) |-> IF i = 1 THEN ss[i] ELSE flat(ss)[i - 1] \o ss[i]]
      BY <2>1
    <2> HIDE DEF flat
    <2>3. QED
      BY <1>1, <2>2 DEF IsFlat
  <1>3. FlattenSeq(ss) = flat(ss)[n + 1]
    BY <1>1 DEF FlattenSeq
  <1> DEFINE p == Prefix(ss, n)
  <1>4. p \in Seq(Seq(S)) /\ Len(p) = n /\ \A i \in 1 .. n : p[i] = ss[i]
    BY DEF Prefix
  <1>5. CASE n = 0
    <2>1. FlattenSeq(p) = p /\ p = <<>>
      BY <1>4, <1>5 DEF FlattenSeq
    <2>2. flat(ss)[1] = ss[1]
      <3> HIDE DEF flat
      <3>1. QED
        BY <1>2, <1>5 DEF IsFlat
    <2> HIDE DEF flat, p
    <2>3. ss[1] \in Seq(S)
      BY <1>5
    <2>4. <<>> \o ss[1] = ss[1]
      BY <2>3
    <2>5. QED
      BY <1>3, <1>5, <2>1, <2>2, <2>4 DEF p
  <1>6. CASE n # 0
    <2>1. IsFlat(flat(p), p, n)
      <3>1. \E f : f = [i \in 1 .. Len(p) |-> IF i = 1 THEN p[i] ELSE f[i - 1] \o p[i]]
        <4> HIDE DEF p
        <4>1. QED
          BY <1>4, FlatExists DEF IsFlat
      <3> HIDE DEF p
      <3>2. flat(p) = [i \in 1 .. Len(p) |-> IF i = 1 THEN p[i] ELSE flat(p)[i - 1] \o p[i]]
        BY <3>1
      <3> HIDE DEF flat
      <3>3. QED
        BY <1>4, <3>2 DEF IsFlat
    <2>2. FlattenSeq(p) = flat(p)[n]
      <3> HIDE DEF p
      <3>1. QED
        BY <1>4, <1>6 DEF FlattenSeq
    <2> HIDE DEF flat, p
    <2>3. n \in 1 .. n /\ n <= n + 1 /\ n + 1 \in Nat
      BY <1>6
    <2>4. flat(p)[n] = flat(ss)[n]
      <3>1. Agree(p, ss, n)
        BY <1>4 DEF Agree
      <3> DEFINE f == flat(p)
                 g == flat(ss)
      <3>5. PICK k \in Nat : k = n + 1
        BY <2>3
      <3>2. IsFlat(f, p, n) /\ IsFlat(g, ss, k) /\ n <= k
        BY <1>2, <2>1, <2>3, <3>5
      <3> HIDE DEF f, g
      <3>4. Agree(f, g, n)
        BY <3>1, <3>2, FlatAgrees
      <3>3. QED
        BY <2>3, <3>4 DEF f, g, Agree
    <2>5. flat(ss)[n + 1] = flat(ss)[n] \o ss[n + 1]
      <3>1. n + 1 # 1 /\ (n + 1) - 1 = n
        BY <1>6
      <3>2. QED
        BY <1>1, <1>2, <3>1 DEF IsFlat
    <2>6. QED
      BY <1>3, <2>2, <2>4, <2>5 DEF p
  <1>7. QED
    BY <1>5, <1>6

Flattened(ss, m) == FlattenSeq(Prefix(ss, m))

LEMMA FlattenPrefixes ==
    ASSUME NEW S, NEW n \in Nat, NEW ss \in [1 .. n -> Seq(S)]
    PROVE  /\ Flattened(ss, 0) = <<>>
           /\ Flattened(ss, n) = FlattenSeq(ss)
           /\ \A m \in 0 .. n : Flattened(ss, m) \in Seq(S)
           /\ \A m \in 0 .. n - 1 : Flattened(ss, m + 1) = Flattened(ss, m) \o ss[m + 1]
  <1>1. Flattened(ss, 0) = <<>>
    <2>1. Prefix(ss, 0) = <<>>
      BY DEF Prefix
    <2>2. QED
      BY <2>1 DEF Flattened, FlattenSeq
  <1>2. Prefix(ss, n) = ss
    BY DEF Prefix
  <1>3. ASSUME NEW m \in 0 .. n - 1, Flattened(ss, m) \in Seq(S)
        PROVE  Flattened(ss, m + 1) = Flattened(ss, m) \o ss[m + 1]
    <2>1. Prefix(ss, m + 1) \in [1 .. m + 1 -> Seq(S)] /\ Prefix(ss, m + 1)[m + 1] = ss[m + 1]
      BY DEF Prefix
    <2>2. Prefix(Prefix(ss, m + 1), m) = Prefix(ss, m)
      BY DEF Prefix
    <2>3. m \in Nat
      OBVIOUS
    <2>4. FlattenSeq(Prefix(ss, m + 1))
            = FlattenSeq(Prefix(Prefix(ss, m + 1), m)) \o Prefix(ss, m + 1)[m + 1]
      <3>1. FlattenSeq(Prefix(Prefix(ss, m + 1), m)) \in Seq(S)
        BY <1>3, <2>2 DEF Flattened
      <3>2. QED
        BY <2>1, <2>3, <3>1, FlattenStep
    <2>5. QED
      BY <2>1, <2>2, <2>4 DEF Flattened
  <1> DEFINE Wrong == {m \in 0 .. n : Flattened(ss, m) \notin Seq(S)}
  <1>4. Wrong = {}
    <2>1. SUFFICES ASSUME Wrong # {} PROVE FALSE
      OBVIOUS
    <2>2. Wrong \in SUBSET Nat
      OBVIOUS
    <2>3. PICK m \in Wrong : \A j \in Wrong : m <= j
      BY <2>1, <2>2, LeastExists
    <2>4. m \in 0 .. n /\ Flattened(ss, m) \notin Seq(S)
      OBVIOUS
    <2>5. m # 0
      <3>1. <<>> \in Seq(S)
        OBVIOUS
      <3>2. QED
        BY <1>1, <2>4, <3>1
    <2>6. m - 1 \in 0 .. n - 1 /\ m - 1 \in 0 .. n /\ m - 1 \notin Wrong /\ (m - 1) + 1 = m
      BY <2>3, <2>4, <2>5
    <2>7. Flattened(ss, m - 1) \in Seq(S)
      BY <2>6
    <2>8. Flattened(ss, (m - 1) + 1) = Flattened(ss, m - 1) \o ss[(m - 1) + 1]
      BY <1>3, <2>6, <2>7
    <2>9. ss[m] \in Seq(S)
      BY <2>4, <2>5
    <2>10. Flattened(ss, m - 1) \o ss[m] \in Seq(S)
      BY <2>7, <2>9
    <2>11. QED
      BY <2>4, <2>6, <2>8, <2>10
  <1>5. \A m \in 0 .. n : Flattened(ss, m) \in Seq(S)
    BY <1>4
  <1>6. \A m \in 0 .. n - 1 : m \in 0 .. n
    OBVIOUS
  <1>7. QED
    BY <1>1, <1>2, <1>3, <1>5, <1>6 DEF Flattened

-------------------------------------------------------------------------------
(* Where a part lies in a sequence.                                         *)
Placed(whole, at, part) ==
    /\ at \in Nat /\ at + Len(part) <= Len(whole)
    /\ \A k \in 1 .. Len(part) : whole[at + k] = part[k]

LEMMA PlacedInPart ==
    ASSUME NEW S, NEW w \in Seq(S), NEW p \in Seq(S), NEW q \in Seq(S), NEW a, NEW b,
           Placed(w, a, p), Placed(p, b, q)
    PROVE  Placed(w, a + b, q)
  <1>1. a \in Nat /\ b \in Nat /\ Len(w) \in Nat /\ Len(p) \in Nat /\ Len(q) \in Nat
    BY DEF Placed
  <1>2. a + Len(p) <= Len(w) /\ b + Len(q) <= Len(p)
    BY DEF Placed
  <1>3. ASSUME NEW k \in 1 .. Len(q) PROVE w[(a + b) + k] = q[k]
    <2>1. b + k \in 1 .. Len(p) /\ a + (b + k) = (a + b) + k
      BY <1>1, <1>2
    <2>2. p[b + k] = q[k] /\ w[a + (b + k)] = p[b + k]
      BY <2>1 DEF Placed
    <2>3. QED
      BY <2>1, <2>2
  <1>4. QED
    BY <1>1, <1>2, <1>3 DEF Placed

LEMMA PlacedInBoth ==
    ASSUME NEW S, NEW p \in Seq(S), NEW q \in Seq(S)
    PROVE  Placed(p \o q, 0, p) /\ Placed(p \o q, Len(p), q)
  <1>1. Len(p \o q) = Len(p) + Len(q) /\ Len(p) \in Nat /\ Len(q) \in Nat
    OBVIOUS
  <1>2. \A k \in 1 .. Len(p) : (p \o q)[0 + k] = p[k]
    OBVIOUS
  <1>3. \A k \in 1 .. Len(q) : (p \o q)[Len(p) + k] = q[k]
    OBVIOUS
  <1>4. QED
    BY <1>1, <1>2, <1>3 DEF Placed

LEMMA PlacedIsSub ==
    ASSUME NEW S, NEW w \in Seq(S), NEW p \in Seq(S), NEW a, Placed(w, a, p)
    PROVE  SubSeq(w, a + 1, a + Len(p)) = p
  <1>1. a \in Nat /\ Len(w) \in Nat /\ Len(p) \in Nat /\ a + Len(p) <= Len(w)
    BY DEF Placed
  <1>2. Len(SubSeq(w, a + 1, a + Len(p))) = Len(p) /\ SubSeq(w, a + 1, a + Len(p)) \in Seq(S)
    BY <1>1
  <1>3. ASSUME NEW k \in 1 .. Len(p) PROVE SubSeq(w, a + 1, a + Len(p))[k] = p[k]
    <2>1. SubSeq(w, a + 1, a + Len(p))[k] = w[a + k]
      BY <1>1
    <2>2. QED
      BY <2>1 DEF Placed
  <1> DEFINE sub == SubSeq(w, a + 1, a + Len(p))
  <1> HIDE DEF sub
  <1>4. sub \in Seq(S) /\ Len(sub) = Len(p) /\ \A k \in 1 .. Len(sub) : sub[k] = p[k]
    BY <1>2, <1>3 DEF sub
  <1>5. sub = p
    BY <1>4, SeqEqual
  <1>6. QED
    BY <1>5 DEF sub

(* An element lies behind the ones before it, flattened.                    *)
LEMMA FlattenAt ==
    ASSUME NEW S, NEW n \in Nat, NEW ss \in [1 .. n -> Seq(S)], NEW i \in 1 .. n
    PROVE  Placed(FlattenSeq(ss), Len(Flattened(ss, i - 1)), ss[i])
  <1> DEFINE at == Len(Flattened(ss, i - 1))
             Wrong == {m \in i .. n : ~Placed(Flattened(ss, m), at, ss[i])}
  <1>1. /\ Flattened(ss, n) = FlattenSeq(ss)
        /\ \A m \in 0 .. n : Flattened(ss, m) \in Seq(S)
        /\ \A m \in 0 .. n - 1 : Flattened(ss, m + 1) = Flattened(ss, m) \o ss[m + 1]
    BY FlattenPrefixes
  <1>2. Wrong = {}
    <2>1. SUFFICES ASSUME Wrong # {} PROVE FALSE
      OBVIOUS
    <2>2. Wrong \in SUBSET Nat
      OBVIOUS
    <2>3. PICK m \in Wrong : \A j \in Wrong : m <= j
      BY <2>1, <2>2, LeastExists
    <2>4. m \in i .. n /\ ~Placed(Flattened(ss, m), at, ss[i])
      OBVIOUS
    <2>5. m - 1 \in 0 .. n - 1 /\ m - 1 \in 0 .. n /\ (m - 1) + 1 = m /\ m \in 1 .. n
      BY <2>4
    <2> DEFINE p == Flattened(ss, m - 1)
               q == ss[m]
    <2>6. p \in Seq(S) /\ q \in Seq(S) /\ Flattened(ss, m) = p \o q
      BY <1>1, <2>5
    <2>7. p \o q \in Seq(S) /\ ss[i] \in Seq(S)
      BY <2>6
    <2>8. Placed(p \o q, 0, p) /\ Placed(p \o q, Len(p), q)
      BY <2>6, PlacedInBoth
    <2>9. CASE m = i
      BY <2>4, <2>6, <2>8, <2>9
    <2>10. CASE m # i
      <3>1. m - 1 \in i .. n /\ m - 1 \notin Wrong
        BY <2>3, <2>4, <2>5, <2>10
      <3>2. Placed(p, at, ss[i])
        BY <3>1
      <3>3. Placed(p \o q, 0 + at, ss[i])
        <4> HIDE DEF p, q, at
        <4>1. QED
          BY <2>6, <2>7, <2>8, <3>2, PlacedInPart
      <3>4. 0 + at = at
        BY <3>2 DEF Placed
      <3>5. QED
        BY <2>4, <2>6, <3>3, <3>4
    <2>11. QED
      BY <2>9, <2>10
  <1>3. n \in i .. n
    OBVIOUS
  <1>4. Placed(Flattened(ss, n), at, ss[i])
    BY <1>2, <1>3
  <1>5. QED
    BY <1>1, <1>4

(* The length of equally long elements.                                     *)
EachLong(ss, n, c) == \A i \in 1 .. n : Len(ss[i]) = c

LEMMA FlattenUniform ==
    ASSUME NEW S, NEW n \in Nat, NEW ss \in [1 .. n -> Seq(S)], NEW c \in Nat, EachLong(ss, n, c)
    PROVE  \A m \in 0 .. n : Len(Flattened(ss, m)) = c * m
  <1> DEFINE Wrong == {m \in 0 .. n : Len(Flattened(ss, m)) # c * m}
  <1>1. SUFFICES ASSUME Wrong # {} PROVE FALSE
    OBVIOUS
  <1>2. Wrong \in SUBSET Nat
    OBVIOUS
  <1>3. PICK m \in Wrong : \A j \in Wrong : m <= j
    BY <1>1, <1>2, LeastExists
  <1>4. m \in 0 .. n /\ Len(Flattened(ss, m)) # c * m
    OBVIOUS
  <1>5. m # 0
    <2>1. Flattened(ss, 0) = <<>> /\ c * 0 = 0 /\ Len(<<>>) = 0
      BY FlattenPrefixes
    <2>2. QED
      BY <1>4, <2>1
  <1>6. m - 1 \in 0 .. n - 1 /\ m - 1 \in 0 .. n /\ m - 1 \notin Wrong /\ (m - 1) + 1 = m /\ m \in 1 .. n
    BY <1>3, <1>4, <1>5
  <1>7. Len(Flattened(ss, m - 1)) = c * (m - 1)
    BY <1>6
  <1>8. Flattened(ss, m) = Flattened(ss, m - 1) \o ss[m] /\ Flattened(ss, m - 1) \in Seq(S)
    BY <1>6, FlattenPrefixes
  <1>9. Len(Flattened(ss, m)) = Len(Flattened(ss, m - 1)) + Len(ss[m]) /\ Len(ss[m]) = c
    BY <1>6, <1>8 DEF EachLong
  <1>10. c * (m - 1) + c = c * m
    BY <1>4
  <1>11. QED
    BY <1>4, <1>6, <1>7, <1>9, <1>10

(* Only one element is not empty.                                           *)
LEMMA FlattenOne ==
    ASSUME NEW S, NEW n \in Nat, NEW ss \in [1 .. n -> Seq(S)], NEW t \in 1 .. n,
           \A i \in 1 .. n : i # t => ss[i] = <<>>
    PROVE  FlattenSeq(ss) = ss[t]
  <1> DEFINE Right(m) == Flattened(ss, m) = IF m < t THEN <<>> ELSE ss[t]
             Wrong == {m \in 0 .. n : ~Right(m)}
  <1>1. Wrong = {}
    <2>1. SUFFICES ASSUME Wrong # {} PROVE FALSE
      OBVIOUS
    <2>2. Wrong \in SUBSET Nat
      OBVIOUS
    <2>3. PICK m \in Wrong : \A j \in Wrong : m <= j
      BY <2>1, <2>2, LeastExists
    <2>4. m \in 0 .. n /\ ~Right(m)
      OBVIOUS
    <2>5. m # 0
      <3>1. Flattened(ss, 0) = <<>> /\ 0 < t
        BY FlattenPrefixes
      <3>2. QED
        BY <2>4, <3>1
    <2>6. m - 1 \in 0 .. n - 1 /\ m - 1 \in 0 .. n /\ m - 1 \notin Wrong /\ (m - 1) + 1 = m /\ m \in 1 .. n
      BY <2>3, <2>4, <2>5
    <2>7. Flattened(ss, m - 1) = IF m - 1 < t THEN <<>> ELSE ss[t]
      BY <2>6
    <2>8. Flattened(ss, m) = Flattened(ss, m - 1) \o ss[m]
      BY <2>6, FlattenPrefixes
    <2>9. ss[t] \in Seq(S) /\ <<>> \o ss[t] = ss[t] /\ ss[t] \o <<>> = ss[t]
      BY ConcatEmptySeq
    <2>10. CASE m < t
      <3>1. m - 1 < t /\ ss[m] = <<>>
        BY <2>6, <2>10
      <3>2. <<>> \o <<>> = <<>>
        OBVIOUS
      <3>3. QED
        BY <2>4, <2>7, <2>8, <2>10, <3>1, <3>2
    <2>11. CASE m = t
      BY <2>4, <2>6, <2>7, <2>8, <2>9, <2>11, SMTT(30)
    <2>12. CASE m > t
      <3>1. ~(m - 1 < t) /\ ss[m] = <<>> /\ ~(m < t)
        BY <2>6, <2>12
      <3>2. QED
        BY <2>4, <2>7, <2>8, <2>9, <3>1
    <2>13. QED
      BY <2>6, <2>10, <2>11, <2>12
  <1>2. n \in 0 .. n /\ ~(n < t)
    OBVIOUS
  <1>3. Flattened(ss, n) = ss[t]
    BY <1>1, <1>2
  <1>4. QED
    BY <1>3, FlattenPrefixes

-------------------------------------------------------------------------------
(* Sums.                                                                    *)
LEMMA SumStep ==
    ASSUME NEW n \in Nat, NEW g \in [1 .. n -> Int]
    PROVE  /\ SumOf(g, 0) = 0
           /\ \A k \in 0 .. n : SumOf(g, k) \in Int
           /\ \A k \in 1 .. n : SumOf(g, k) = SumOf(g, k - 1) + g[k]
  <1> DEFINE sum(m) == CHOOSE f : f = [k \in 0 .. m |-> IF k = 0 THEN 0 ELSE f[k - 1] + g[k]]
             Sums(f, m) == f = [k \in 0 .. m |-> IF k = 0 THEN 0 ELSE f[k - 1] + g[k]]
  <1>1. \A m \in 0 .. n : SumOf(g, m) = sum(m)[m]
    BY DEF SumOf
  <1>2. ASSUME NEW m \in 0 .. n PROVE \E f \in [0 .. m -> Int] : Sums(f, m)
    <2>1. [k \in 1 .. m |-> g[k]] \in [1 .. m -> Int] /\ m \in Nat
      OBVIOUS
    <2> DEFINE h == [k \in 1 .. m |-> g[k]]
    <2>2. PICK f : f = [k \in 0 .. m |-> IF k = 0 THEN 0 ELSE f[k - 1] + h[k]]
      <3> HIDE DEF h
      <3>1. QED
        BY <2>1, PrefixSum DEF h
    <2>3. f \in [0 .. m -> Int]
      <3> HIDE DEF h
      <3>1. h \in [1 .. m -> Int]
        BY <2>1 DEF h
      <3>2. QED
        BY <2>1, <2>2, <3>1, PrefixSum
    <2>4. \A k \in 0 .. m : f[k] = IF k = 0 THEN 0 ELSE f[k - 1] + h[k]
      BY <2>2
    <2>5. \A k \in 0 .. m : k # 0 => h[k] = g[k]
      OBVIOUS
    <2>6. \A k \in 0 .. m : f[k] = IF k = 0 THEN 0 ELSE f[k - 1] + g[k]
      BY <2>4, <2>5
    <2>7. f = [k \in 0 .. m |-> IF k = 0 THEN 0 ELSE f[k - 1] + g[k]]
      BY <2>3, <2>6
    <2>8. QED
      BY <2>3, <2>7
  <1>3. \A m \in 0 .. n : Sums(sum(m), m)
    BY <1>2
  <1>4. ASSUME NEW m \in 0 .. n, NEW f, Sums(f, m), NEW k \in 0 .. m
        PROVE  f[k] = IF k = 0 THEN 0 ELSE f[k - 1] + g[k]
    BY <1>4
  <1> HIDE DEF Sums, sum
  <1>5. ASSUME NEW m \in 0 .. n, NEW f, Sums(f, m), NEW l \in 0 .. n, NEW h, Sums(h, l), m <= l
        PROVE  \A k \in 0 .. m : f[k] = h[k]
    <2> DEFINE Wrong == {k \in 0 .. m : f[k] # h[k]}
    <2>1. SUFFICES ASSUME Wrong # {} PROVE FALSE
      OBVIOUS
    <2>2. Wrong \in SUBSET Nat
      OBVIOUS
    <2>3. PICK k \in Wrong : \A j \in Wrong : k <= j
      BY <2>1, <2>2, LeastExists
    <2>4. k \in 0 .. m /\ k \in 0 .. l /\ f[k] # h[k]
      BY <1>5
    <2>5. f[k] = (IF k = 0 THEN 0 ELSE f[k - 1] + g[k]) /\ h[k] = (IF k = 0 THEN 0 ELSE h[k - 1] + g[k])
      BY <1>4, <1>5, <2>4
    <2>6. k # 0 => k - 1 \in 0 .. m /\ k - 1 \notin Wrong
      BY <2>3, <2>4
    <2>7. k # 0 => f[k - 1] = h[k - 1]
      BY <2>6
    <2>8. QED
      BY <2>4, <2>5, <2>7
  <1>6. SumOf(g, 0) = 0
    <2>1. 0 \in 0 .. n /\ 0 \in 0 .. 0
      OBVIOUS
    <2>2. QED
      BY <1>1, <1>3, <1>4, <2>1
  <1>7. ASSUME NEW k \in 1 .. n PROVE SumOf(g, k) = SumOf(g, k - 1) + g[k]
    <2>1. k \in 0 .. n /\ k - 1 \in 0 .. n /\ k \in 0 .. k /\ k - 1 \in 0 .. k - 1 /\ k - 1 <= k /\ k # 0
      OBVIOUS
    <2>2. sum(k)[k] = sum(k)[k - 1] + g[k]
      BY <1>3, <1>4, <2>1
    <2>3. sum(k - 1)[k - 1] = sum(k)[k - 1]
      BY <1>3, <1>5, <2>1
    <2>4. QED
      BY <1>1, <2>1, <2>2, <2>3
  <1>8. ASSUME NEW k \in 0 .. n PROVE SumOf(g, k) \in Int
    <2>1. PICK f \in [0 .. k -> Int] : Sums(f, k)
      BY <1>2
    <2>2. k \in 0 .. k /\ k <= k
      OBVIOUS
    <2>3. sum(k)[k] = f[k]
      BY <1>3, <1>5, <2>1, <2>2
    <2>4. QED
      BY <1>1, <2>1, <2>2, <2>3
  <1>9. QED
    BY <1>6, <1>7, <1>8

(* A sum is of the terms it adds up, whatever is behind them.               *)
LEMMA SumAgrees ==
    ASSUME NEW n \in Nat, NEW g \in [1 .. n -> Int], NEW m \in 0 .. n, NEW h \in [1 .. m -> Int],
           Agree(h, g, m)
    PROVE  SumOf(h, m) = SumOf(g, m)
  <1> DEFINE Wrong == {k \in 0 .. m : SumOf(h, k) # SumOf(g, k)}
  <1>1. SUFFICES ASSUME Wrong # {} PROVE FALSE
    OBVIOUS
  <1>2. Wrong \in SUBSET Nat
    OBVIOUS
  <1>3. PICK k \in Wrong : \A j \in Wrong : k <= j
    BY <1>1, <1>2, LeastExists
  <1>4. k \in 0 .. m /\ k \in 0 .. n /\ SumOf(h, k) # SumOf(g, k)
    OBVIOUS
  <1>5. /\ SumOf(h, 0) = 0 /\ SumOf(g, 0) = 0
        /\ \A j \in 1 .. m : SumOf(h, j) = SumOf(h, j - 1) + h[j]
        /\ \A j \in 1 .. n : SumOf(g, j) = SumOf(g, j - 1) + g[j]
    <2>1. m \in Nat
      OBVIOUS
    <2>2. SumOf(h, 0) = 0 /\ \A j \in 1 .. m : SumOf(h, j) = SumOf(h, j - 1) + h[j]
      BY <2>1, SumStep
    <2>3. SumOf(g, 0) = 0 /\ \A j \in 1 .. n : SumOf(g, j) = SumOf(g, j - 1) + g[j]
      BY SumStep
    <2>4. QED
      BY <2>2, <2>3
  <1>6. k # 0
    BY <1>4, <1>5
  <1>7. k \in 1 .. m /\ k \in 1 .. n /\ k - 1 \in 0 .. m /\ k - 1 \notin Wrong
    BY <1>3, <1>4, <1>6
  <1>8. SumOf(h, k - 1) = SumOf(g, k - 1) /\ h[k] = g[k]
    BY <1>7 DEF Agree
  <1>9. QED
    BY <1>4, <1>5, <1>7, <1>8

LEMMA SumOfNats ==
    ASSUME NEW n \in Nat, NEW g \in [1 .. n -> Nat]
    PROVE  \A k \in 0 .. n : SumOf(g, k) \in Nat
  <1> DEFINE Wrong == {k \in 0 .. n : SumOf(g, k) \notin Nat}
  <1>1. SUFFICES ASSUME Wrong # {} PROVE FALSE
    OBVIOUS
  <1>2. Wrong \in SUBSET Nat
    OBVIOUS
  <1>3. PICK k \in Wrong : \A j \in Wrong : k <= j
    BY <1>1, <1>2, LeastExists
  <1>4. k \in 0 .. n /\ SumOf(g, k) \notin Nat
    OBVIOUS
  <1>5. SumOf(g, 0) = 0 /\ \A j \in 1 .. n : SumOf(g, j) = SumOf(g, j - 1) + g[j]
    <2>1. g \in [1 .. n -> Int]
      OBVIOUS
    <2>2. QED
      BY <2>1, SumStep
  <1>6. k # 0
    BY <1>4, <1>5
  <1>7. k \in 1 .. n /\ k - 1 \in 0 .. n /\ k - 1 \notin Wrong
    BY <1>3, <1>4, <1>6
  <1>8. SumOf(g, k - 1) \in Nat /\ g[k] \in Nat
    BY <1>7
  <1>9. QED
    BY <1>4, <1>5, <1>7, <1>8

(* Elements of given sizes.                                                 *)
LEMMA FlattenSizes ==
    ASSUME NEW S, NEW n \in Nat, NEW ss \in [1 .. n -> Seq(S)], NEW sizes \in [1 .. n -> Nat],
           \A i \in 1 .. n : Len(ss[i]) = sizes[i]
    PROVE  \A m \in 0 .. n : Len(Flattened(ss, m)) = SumOf(sizes, m)
  <1> DEFINE Wrong == {m \in 0 .. n : Len(Flattened(ss, m)) # SumOf(sizes, m)}
  <1>1. SUFFICES ASSUME Wrong # {} PROVE FALSE
    OBVIOUS
  <1>2. Wrong \in SUBSET Nat
    OBVIOUS
  <1>3. PICK m \in Wrong : \A j \in Wrong : m <= j
    BY <1>1, <1>2, LeastExists
  <1>4. m \in 0 .. n /\ Len(Flattened(ss, m)) # SumOf(sizes, m)
    OBVIOUS
  <1>5. SumOf(sizes, 0) = 0 /\ \A k \in 1 .. n : SumOf(sizes, k) = SumOf(sizes, k - 1) + sizes[k]
    <2>1. sizes \in [1 .. n -> Int]
      OBVIOUS
    <2>2. QED
      BY <2>1, SumStep
  <1>6. m # 0
    <2>1. Flattened(ss, 0) = <<>> /\ Len(<<>>) = 0
      BY FlattenPrefixes
    <2>2. QED
      BY <1>4, <1>5, <2>1
  <1>7. m - 1 \in 0 .. n - 1 /\ m - 1 \in 0 .. n /\ m - 1 \notin Wrong /\ (m - 1) + 1 = m /\ m \in 1 .. n
    BY <1>3, <1>4, <1>6
  <1>8. Len(Flattened(ss, m - 1)) = SumOf(sizes, m - 1)
    BY <1>7
  <1>9. Flattened(ss, m) = Flattened(ss, m - 1) \o ss[m] /\ Flattened(ss, m - 1) \in Seq(S)
    BY <1>7, FlattenPrefixes
  <1>10. Len(Flattened(ss, m)) = Len(Flattened(ss, m - 1)) + Len(ss[m])
    BY <1>7, <1>9
  <1>11. QED
    BY <1>4, <1>5, <1>7, <1>8, <1>10

(* Where a field begins.                                                    *)
Labels == {"ident", "type", "machine", "version", "entry", "phoff", "shoff", "flags", "ehsize", "phentsize",
           "phnum", "shentsize", "shnum", "shstrndx", "name", "addr", "offset", "size", "link", "info",
           "addralign", "entsize", "vaddr", "paddr", "filesz", "memsz", "align", "value", "other", "shnxd"}
Fields == Seq(Labels \X Nat)
Place(fields, i) == SizeOf(SubSeq(fields, 1, i - 1))

LEMMA FieldsFacts ==
    ASSUME NEW fields \in Fields
    PROVE  /\ Place(fields, 1) = 0
           /\ SizeOf(fields) = Place(fields, Len(fields) + 1)
           /\ \A i \in 1 .. Len(fields) + 1 : Place(fields, i) = SumOf([j \in DOMAIN fields |-> fields[j][2]], i - 1)
           /\ \A i \in 1 .. Len(fields) : Place(fields, i + 1) = Place(fields, i) + fields[i][2]
  <1> DEFINE n == Len(fields)
             g == [j \in DOMAIN fields |-> fields[j][2]]
  <1>1. n \in Nat /\ DOMAIN fields = 1 .. n /\ \A i \in 1 .. n : fields[i][2] \in Nat
    <2>1. \A i \in 1 .. n : fields[i] \in Labels \X Nat
      BY DEF Fields
    <2>2. QED
      BY <2>1 DEF Fields
  <1>2. g \in [1 .. n -> Nat] /\ g \in [1 .. n -> Int]
    BY <1>1
  <1>3. ASSUME NEW i \in 1 .. n + 1 PROVE Place(fields, i) = SumOf(g, i - 1)
    <2> DEFINE sub == SubSeq(fields, 1, i - 1)
               h == [j \in DOMAIN sub |-> sub[j][2]]
    <2>1. i - 1 \in 0 .. n /\ i - 1 \in Nat
      BY <1>1
    <2>2. Len(sub) = i - 1 /\ DOMAIN sub = 1 .. i - 1 /\ \A j \in 1 .. i - 1 : sub[j] = fields[j]
      BY <1>1, <2>1 DEF Fields
    <2>3. \A j \in 1 .. i - 1 : j \in 1 .. n /\ h[j] = g[j]
      BY <1>1, <2>1, <2>2
    <2>4. h \in [1 .. i - 1 -> Int]
      BY <1>2, <2>2, <2>3
    <2>5. Place(fields, i) = SumOf(h, i - 1)
      BY <2>2 DEF Place, SizeOf
    <2>6. Agree(h, g, i - 1)
      BY <2>3 DEF Agree
    <2> HIDE DEF h, g, n
    <2>7. QED
      BY <1>1, <1>2, <2>1, <2>4, <2>5, <2>6, SumAgrees
  <1>4. SizeOf(fields) = SumOf(g, n)
    BY DEF SizeOf
  <1> HIDE DEF g
  <1>5. SumOf(g, 0) = 0 /\ \A k \in 1 .. n : SumOf(g, k) = SumOf(g, k - 1) + g[k]
    BY <1>1, <1>2, SumStep
  <1>6. \A i \in 1 .. n : g[i] = fields[i][2]
    BY <1>1 DEF g
  <1>7. ASSUME NEW i \in 1 .. n PROVE Place(fields, i + 1) = Place(fields, i) + fields[i][2]
    <2>1. i \in 1 .. n + 1 /\ i + 1 \in 1 .. n + 1 /\ (i + 1) - 1 = i
      BY <1>1
    <2>2. Place(fields, i + 1) = SumOf(g, (i + 1) - 1) /\ Place(fields, i) = SumOf(g, i - 1)
      BY <1>3, <2>1
    <2>3. QED
      BY <1>5, <1>6, <2>1, <2>2
  <1>8. Place(fields, 1) = SumOf(g, 1 - 1) /\ Place(fields, n + 1) = SumOf(g, (n + 1) - 1)
        /\ (n + 1) - 1 = n /\ 1 - 1 = 0
    BY <1>1, <1>3
  <1>9. QED
    BY <1>3, <1>4, <1>5, <1>7, <1>8 DEF g

(* A header whose fields are written one after the other: where each is.    *)
LEMMA PiecesPlaced ==
    ASSUME NEW fields \in Fields, NEW pieces \in [1 .. Len(fields) -> Seq(Byte)],
           \A i \in 1 .. Len(fields) : Len(pieces[i]) = fields[i][2]
    PROVE  /\ FlattenSeq(pieces) \in Seq(Byte)
           /\ Len(FlattenSeq(pieces)) = SizeOf(fields)
           /\ \A i \in 1 .. Len(fields) : Placed(FlattenSeq(pieces), Place(fields, i), pieces[i])
  <1> DEFINE n == Len(fields)
             g == [j \in DOMAIN fields |-> fields[j][2]]
  <1>1. n \in Nat /\ DOMAIN fields = 1 .. n /\ \A i \in 1 .. n : fields[i][2] \in Nat
    <2>1. \A i \in 1 .. n : fields[i] \in Labels \X Nat
      BY DEF Fields
    <2>2. QED
      BY <2>1 DEF Fields
  <1>2. g \in [1 .. n -> Nat] /\ \A i \in 1 .. n : Len(pieces[i]) = g[i]
    BY <1>1
  <1>3. /\ SizeOf(fields) = Place(fields, n + 1)
        /\ \A i \in 1 .. n + 1 : Place(fields, i) = SumOf(g, i - 1)
    BY FieldsFacts
  <1> HIDE DEF g
  <1>4. \A m \in 0 .. n : Len(Flattened(pieces, m)) = SumOf(g, m)
    <2> HIDE DEF n
    <2>1. pieces \in [1 .. n -> Seq(Byte)]
      BY DEF n
    <2>2. QED
      BY <1>1, <1>2, <2>1, FlattenSizes
  <1>5. Flattened(pieces, n) = FlattenSeq(pieces) /\ Flattened(pieces, n) \in Seq(Byte)
    <2>1. n \in 0 .. n
      BY <1>1
    <2>2. QED
      BY <1>1, <2>1, FlattenPrefixes
  <1>6. Len(FlattenSeq(pieces)) = SizeOf(fields)
    <2>1. n \in 0 .. n /\ n + 1 \in 1 .. n + 1 /\ (n + 1) - 1 = n
      BY <1>1
    <2>2. QED
      BY <1>3, <1>4, <1>5, <2>1
  <1>7. ASSUME NEW i \in 1 .. n PROVE Placed(FlattenSeq(pieces), Place(fields, i), pieces[i])
    <2>1. i - 1 \in 0 .. n /\ i \in 1 .. n + 1
      BY <1>1
    <2>2. Len(Flattened(pieces, i - 1)) = Place(fields, i)
      BY <1>3, <1>4, <2>1
    <2>3. Placed(FlattenSeq(pieces), Len(Flattened(pieces, i - 1)), pieces[i])
      BY <1>1, FlattenAt
    <2>4. QED
      BY <2>2, <2>3
  <1>8. QED
    BY <1>5, <1>6, <1>7

-------------------------------------------------------------------------------
(* Numbers.                                                                 *)
LEMMA WordFacts ==
    /\ WordBits \in Nat /\ WordBits >= 16
    /\ 2 ^ 8 = 256 /\ 2 ^ 16 = 65536
    /\ Modulus \in Nat /\ Modulus >= 65536
    /\ \A n : n \in Short <=> n \in Nat /\ n < 65536
    /\ \A n \in Short : Wrapped(n) = n
  <1>1. WordBits \in Nat /\ WordBits >= 16
    BY CursorAssumption, ElfFileAssumption
  <1>2. 2 ^ 0 = 1 /\ 2 ^ (0 + 1) = 2 * 2 ^ 0
    BY PowerType, PowerStep
  <1>3. 2 ^ (1 + 1) = 2 ^ 1 * 2 ^ 1
    BY PowerSum
  <1>4. 2 ^ (2 + 2) = 2 ^ 2 * 2 ^ 2
    BY PowerSum
  <1>5. 2 ^ (4 + 4) = 2 ^ 4 * 2 ^ 4
    BY PowerSum
  <1>6. 2 ^ (8 + 8) = 2 ^ 8 * 2 ^ 8
    BY PowerSum
  <1>7. 2 ^ 8 = 256
    BY <1>2, <1>3, <1>4, <1>5
  <1>8. 2 ^ 16 = 65536
    BY <1>6, <1>7
  <1>9. PICK d \in Nat : WordBits = 16 + d
    <2>1. WordBits - 16 \in Nat /\ WordBits = 16 + (WordBits - 16)
      BY <1>1
    <2>2. QED
      BY <2>1
  <1>10. 2 ^ d \in Nat /\ 2 ^ d >= 1
    BY <1>9, PowerType, PowerGrows
  <1>11. 2 ^ (16 + d) = 2 ^ 16 * 2 ^ d
    BY <1>9, PowerSum
  <1>12. Modulus \in Nat /\ Modulus >= 65536
    BY <1>8, <1>9, <1>10, <1>11 DEF Modulus
  <1> HIDE DEF Modulus
  <1>13. \A n : n \in Short <=> n \in Nat /\ n < 65536
    BY <1>8 DEF Short
  <1>14. \A n \in Short : Wrapped(n) = n
    BY <1>12, <1>13 DEF Wrapped
  <1>15. QED
    BY <1>1, <1>7, <1>8, <1>12, <1>13, <1>14

(* The bytes of a number, the least significant first.                      *)
Lsb(n, size) == [i \in 1 .. size |-> IF i = 1 THEN n % 256 ELSE IF i = 2 THEN n \div 256 ELSE 0]
Fits(n, size) == n \in Short /\ size \in {1, 2, 4, 8} /\ (size = 1 => n < 256)
Holds(s, pos, bs) == \A k \in 1 .. Len(bs) : ByteAt(s, pos + k - 1) = bs[k]

LEMMA LsbFacts ==
    ASSUME NEW n, NEW size, Fits(n, size)
    PROVE  Lsb(n, size) \in Seq(Byte) /\ Len(Lsb(n, size)) = size
  <1>1. n \in Nat /\ n < 65536 /\ size \in Nat
    BY WordFacts DEF Fits
  <1>2. n % 256 \in Byte /\ n \div 256 \in Byte /\ 0 \in Byte
    BY <1>1 DEF Byte
  <1>3. \A i \in 1 .. size : Lsb(n, size)[i] \in Byte
    BY <1>2 DEF Lsb
  <1>4. QED
    BY <1>1, <1>3 DEF Lsb

LEMMA FixedNumber ==
    ASSUME NEW s, NEW pos \in Nat, NEW n, NEW size, Fits(n, size), Holds(s, pos, Lsb(n, size))
    PROVE  Fixed(s, pos, size).value = n
  <1> DEFINE parts == [k \in 1 .. size |->
                          IF 8 * (k - 1) < WordBits THEN ByteAt(s, pos + k - 1) * 2 ^ (8 * (k - 1))
                          ELSE 0]
  <1>1. n \in Nat /\ n < 65536 /\ size \in Nat /\ size >= 1 /\ size <= 8
    BY WordFacts DEF Fits
  <1>2. \A k \in 1 .. size : ByteAt(s, pos + k - 1) = Lsb(n, size)[k]
    BY LsbFacts DEF Holds
  <1>3. parts[1] = n % 256
    <2>1. 1 \in 1 .. size /\ 8 * (1 - 1) = 0 /\ 0 < WordBits /\ 2 ^ 0 = 1
      BY <1>1, WordFacts, PowerType
    <2>2. ByteAt(s, pos + 1 - 1) = n % 256
      BY <1>2, <2>1 DEF Lsb
    <2>3. (n % 256) * 1 = n % 256
      BY <1>1
    <2>4. QED
      BY <2>1, <2>2, <2>3
  <1>4. size >= 2 => parts[2] = (n \div 256) * 256
    <2>1. SUFFICES ASSUME size >= 2 PROVE parts[2] = (n \div 256) * 256
      OBVIOUS
    <2>2. 2 \in 1 .. size /\ 8 * (2 - 1) = 8 /\ 8 < WordBits /\ 2 ^ 8 = 256
      BY <1>1, <2>1, WordFacts
    <2>3. ByteAt(s, pos + 2 - 1) = n \div 256
      BY <1>2, <2>2 DEF Lsb
    <2>4. QED
      BY <2>2, <2>3
  <1>5. \A k \in 3 .. size : parts[k] = 0
    <2>1. SUFFICES ASSUME NEW k \in 3 .. size PROVE parts[k] = 0
      OBVIOUS
    <2>2. k \in 1 .. size /\ k # 1 /\ k # 2 /\ 8 * (k - 1) \in Nat
      BY <1>1
    <2>3. ByteAt(s, pos + k - 1) = 0
      BY <1>2, <2>2 DEF Lsb
    <2>4. 2 ^ (8 * (k - 1)) \in Int
      BY <2>2, PowerType
    <2>5. 0 * 2 ^ (8 * (k - 1)) = 0
      BY <2>4
    <2>6. QED
      BY <2>2, <2>3, <2>5
  <1>6. parts \in [1 .. size -> Int]
    <2>1. \A k \in 1 .. size : k = 1 \/ k = 2 \/ k \in 3 .. size
      BY <1>1
    <2>2. n % 256 \in Int /\ (n \div 256) * 256 \in Int /\ 0 \in Int
      BY <1>1
    <2>3. \A k \in 1 .. size : parts[k] \in Int
      <3> HIDE DEF parts
      <3>1. QED
        BY <1>3, <1>4, <1>5, <2>1, <2>2
    <2>4. QED
      BY <2>3
  <1>7. Fixed(s, pos, size).value = Wrapped(SumOf(parts, size))
    BY DEF Fixed
  <1> HIDE DEF parts
  <1> DEFINE S(k) == SumOf(parts, k)
  <1>8. S(0) = 0 /\ \A k \in 1 .. size : S(k) = S(k - 1) + parts[k] /\ S(k) \in Int
    <2>1. /\ SumOf(parts, 0) = 0
          /\ \A k \in 0 .. size : SumOf(parts, k) \in Int
          /\ \A k \in 1 .. size : SumOf(parts, k) = SumOf(parts, k - 1) + parts[k]
      <3>1. size \in Nat
        BY <1>1
      <3>2. QED
        BY ONLY <1>6, <3>1, SumStep
    <2>2. \A k \in 1 .. size : k \in 0 .. size
      OBVIOUS
    <2>3. QED
      BY <2>1, <2>2
  <1> HIDE DEF S
  <1>9. n = (n \div 256) * 256 + (n % 256) /\ (size = 1 => n % 256 = n)
    BY <1>1 DEF Fits
  <1>10. S(1) = n % 256
    BY <1>1, <1>3, <1>8
  <1>11. size >= 2 => S(2) = n
    BY <1>1, <1>4, <1>8, <1>9, <1>10
  <1>12. \A k \in 3 .. size : S(k - 1) = n => S(k) = n
    BY <1>1, <1>5, <1>8
  <1>13. size >= 4 => S(3) = n /\ S(4) = n
    <2>1. size >= 4 => S(3 - 1) = n /\ 3 \in 3 .. size /\ 4 \in 3 .. size
      BY <1>1, <1>11
    <2>2. size >= 4 => S(3) = n
      BY <1>12, <2>1
    <2>3. size >= 4 => S(4 - 1) = n
      BY <2>2
    <2>4. QED
      BY <1>12, <2>1, <2>2, <2>3
  <1>14. size >= 8 => S(8) = n
    <2>1. size >= 8 => S(5 - 1) = n /\ 5 \in 3 .. size /\ 6 \in 3 .. size /\ 7 \in 3 .. size /\ 8 \in 3 .. size
      BY <1>1, <1>13
    <2>2. size >= 8 => S(6 - 1) = n
      BY <1>12, <2>1
    <2>3. size >= 8 => S(7 - 1) = n
      BY <1>12, <2>1, <2>2
    <2>4. size >= 8 => S(8 - 1) = n
      BY <1>12, <2>1, <2>3
    <2>5. QED
      BY <1>12, <2>1, <2>4
  <1>15. S(size) = n
    BY <1>9, <1>10, <1>11, <1>13, <1>14 DEF Fits
  <1>16. n \in Short
    BY DEF Fits
  <1>17. QED
    BY <1>7, <1>15, <1>16, WordFacts DEF S

LEMMA NumberFacts ==
    ASSUME NEW im, NEW n, NEW size, Fits(n, size)
    PROVE  Number(im, n, size) \in Seq(Byte) /\ Len(Number(im, n, size)) = size
  <1>1. Number(im, n, size) = IF im.order = 1 THEN Lsb(n, size) ELSE Reverse(Lsb(n, size))
    BY DEF Number, Lsb
  <1>2. Lsb(n, size) \in Seq(Byte) /\ Len(Lsb(n, size)) = size
    BY LsbFacts
  <1>3. \A s \in Seq(Byte) : Reverse(s) \in Seq(Byte) /\ Len(Reverse(s)) = Len(s)
    BY DEF Reverse
  <1>4. QED
    BY <1>1, <1>2, <1>3

LEMMA SwizzleNumber ==
    ASSUME NEW im, im.order \in {1, 2}, NEW pos \in Nat, NEW n, NEW size, Fits(n, size),
           Holds(bytes, pos, Number(im, n, size))
    PROVE  Swizzle(pos, size, im.order) = n
  <1> DEFINE lsb == Lsb(n, size)
  <1>1. lsb \in Seq(Byte) /\ Len(lsb) = size /\ size \in Nat
    BY LsbFacts DEF Fits
  <1>2. Number(im, n, size) = IF im.order = 1 THEN lsb ELSE Reverse(lsb)
    BY DEF Number, Lsb
  <1> HIDE DEF lsb
  <1>3. CASE im.order = 1
    <2>1. Holds(bytes, pos, Lsb(n, size))
      BY <1>2, <1>3 DEF lsb
    <2>2. Fixed(bytes, pos, size).value = n
      BY <2>1, FixedNumber
    <2>3. QED
      BY <1>3, <2>2 DEF Swizzle, LSB
  <1>4. CASE im.order = 2
    <2> DEFINE read == [i \in 1 .. size |-> ByteAt(bytes, pos + i - 1)]
               back == Reverse(read)
    <2>1. Len(Reverse(lsb)) = size /\ \A k \in 1 .. size : Reverse(lsb)[k] = lsb[size - k + 1]
      BY <1>1 DEF Reverse
    <2>2. \A k \in 1 .. size : read[k] = Reverse(lsb)[k]
      BY <1>2, <1>4, <2>1 DEF Holds
    <2>3. Len(read) = size
      BY <1>1
    <2>4. DOMAIN back = 1 .. size /\ \A k \in 1 .. size : back[k] = read[(size - k) + 1]
      BY <1>1, <2>3 DEF Reverse
    <2> HIDE DEF read, back
    <2>5. ASSUME NEW k \in 1 .. size PROVE ByteAt(back, 0 + k - 1) = lsb[k]
      <3>1. 0 + k - 1 + 1 = k /\ (size - k) + 1 \in 1 .. size /\ size - ((size - k) + 1) + 1 = k
        BY <1>1
      <3>2. ByteAt(back, 0 + k - 1) = back[k]
        BY <2>4, <3>1 DEF ByteAt
      <3>3. back[k] = Reverse(lsb)[(size - k) + 1]
        BY <2>2, <2>4, <3>1
      <3>4. Reverse(lsb)[(size - k) + 1] = lsb[k]
        BY <2>1, <3>1
      <3>5. QED
        BY <3>2, <3>3, <3>4
    <2>6. Holds(back, 0, Lsb(n, size))
      BY <1>1, <2>5 DEF Holds, lsb
    <2>7. Fixed(back, 0, size).value = n
      BY <2>6, FixedNumber
    <2>8. QED
      BY <1>4, <2>7 DEF Swizzle, LSB, back, read
  <1>5. QED
    BY <1>3, <1>4

LEMMA PlacedHolds ==
    ASSUME NEW S, NEW w \in Seq(S), NEW p \in Seq(S), NEW a, Placed(w, a, p)
    PROVE  Holds(w, a, p)
  <1>1. a \in Nat /\ Len(w) \in Nat /\ Len(p) \in Nat /\ a + Len(p) <= Len(w) /\ DOMAIN w = 1 .. Len(w)
    BY DEF Placed
  <1>2. ASSUME NEW k \in 1 .. Len(p) PROVE ByteAt(w, a + k - 1) = p[k]
    <2>1. (a + k - 1) + 1 = a + k /\ a + k \in 1 .. Len(w)
      BY <1>1
    <2>2. w[a + k] = p[k]
      BY DEF Placed
    <2>3. QED
      BY <1>1, <2>1, <2>2 DEF ByteAt
  <1>3. QED
    BY <1>2 DEF Holds

-------------------------------------------------------------------------------
(* Headers: what was written field by field is read field by field.         *)
(* The pieces have the sizes of the fields. *)
Sized(pieces, fields) ==
    /\ pieces \in [1 .. Len(fields) -> Seq(Byte)]
    /\ \A i \in 1 .. Len(fields) : Len(pieces[i]) = fields[i][2]
HasField(h, name, n) == name \in DOMAIN h /\ h[name] = n
NamesDiffer(fields) == \A i, j \in DOMAIN fields : fields[i][1] = fields[j][1] => i = j

LEMMA HeaderField ==
    ASSUME NEW fields \in Fields, NamesDiffer(fields), NEW i \in 1 .. Len(fields), NEW pos \in Nat,
           NEW im, im.order \in {1, 2}, NEW n, NEW size, size = fields[i][2], Fits(n, size),
           NEW at, at = pos + Place(fields, i), Holds(bytes, at, Number(im, n, size))
    PROVE  HasField(Header(fields, pos, im.order), fields[i][1], n)
  <1>0. i \in DOMAIN fields
    BY DEF Fields
  <1> DEFINE Index(name) == CHOOSE j \in DOMAIN fields : fields[j][1] = name
             At(j) == pos + SizeOf(SubSeq(fields, 1, j - 1))
             h == [name \in {fields[j][1] : j \in DOMAIN fields} |->
                      Swizzle(At(Index(name)), fields[Index(name)][2], im.order)]
  <1>1. Header(fields, pos, im.order) = h
    BY DEF Header
  <1>2. Index(fields[i][1]) = i
    BY <1>0 DEF NamesDiffer
  <1>3. fields[i][1] \in DOMAIN h /\ h[fields[i][1]] = Swizzle(At(i), fields[i][2], im.order)
    <2> HIDE DEF Index, At
    <2>1. QED
      BY <1>0, <1>2
  <1>4. At(i) = pos + Place(fields, i)
    BY DEF Place
  <1>5. pos + Place(fields, i) \in Nat
    <2>1. DOMAIN fields = 1 .. Len(fields) /\ Len(fields) \in Nat
      BY DEF Fields
    <2> DEFINE g == [j \in DOMAIN fields |-> fields[j][2]]
    <2>2. \A j \in 1 .. Len(fields) : fields[j] \in Labels \X Nat
      BY DEF Fields
    <2>3. g \in [1 .. Len(fields) -> Nat]
      BY <2>1, <2>2
    <2>4. i \in 1 .. Len(fields) + 1 /\ i - 1 \in 0 .. Len(fields)
      BY <2>1
    <2>5. Place(fields, i) = SumOf(g, i - 1)
      BY <2>4, FieldsFacts
    <2> HIDE DEF g
    <2>6. SumOf(g, i - 1) \in Nat
      BY <2>1, <2>3, <2>4, SumOfNats
    <2>7. QED
      BY <2>5, <2>6
  <1> HIDE DEF At, h, Index
  <1>6. Swizzle(At(i), fields[i][2], im.order) = n
    BY <1>4, <1>5, SwizzleNumber
  <1>7. QED
    BY <1>1, <1>3, <1>6 DEF HasField

(* A number in a file, of so many bytes.                                    *)
IsNumber(im, bs, n, size) == bs = Number(im, n, size) /\ Fits(n, size) /\ bs \in Seq(Byte) /\ Len(bs) = size
IsField(fields, i, name, size) == fields[i] = <<name, size>>

(* A header of such fields is at a place, and a number is in one of them.   *)
HeaderAt(fields, pos, pieces) ==
    /\ fields \in Fields /\ NamesDiffer(fields) /\ pos \in Nat
    /\ Sized(pieces, fields) /\ bytes \in Seq(Byte) /\ Placed(bytes, pos, FlattenSeq(pieces))
NumberIn(im, fields, pieces, name, n) ==
    /\ im.order \in {1, 2}
    /\ \E i, size : i \in 1 .. Len(fields) /\ IsNumber(im, pieces[i], n, size) /\ IsField(fields, i, name, size)

LEMMA HeaderReads ==
    ASSUME NEW fields, NEW pos, NEW pieces, HeaderAt(fields, pos, pieces),
           NEW im, NEW name, NEW n, NumberIn(im, fields, pieces, name, n)
    PROVE  HasField(Header(fields, pos, im.order), name, n)
  <1>1. /\ fields \in Fields /\ NamesDiffer(fields) /\ pos \in Nat
        /\ Sized(pieces, fields) /\ bytes \in Seq(Byte) /\ Placed(bytes, pos, FlattenSeq(pieces))
    BY DEF HeaderAt
  <1>2. PICK i, size : i \in 1 .. Len(fields) /\ IsNumber(im, pieces[i], n, size) /\ IsField(fields, i, name, size)
    BY DEF NumberIn
  <1>3. im.order \in {1, 2}
    BY DEF NumberIn
  <1>4. FlattenSeq(pieces) \in Seq(Byte) /\ Placed(FlattenSeq(pieces), Place(fields, i), pieces[i])
    BY <1>1, <1>2, PiecesPlaced DEF Sized
  <1>5. pieces[i] \in Seq(Byte)
    BY <1>1, <1>2 DEF Sized
  <1>6. Placed(bytes, pos + Place(fields, i), pieces[i])
    BY <1>1, <1>4, <1>5, PlacedInPart
  <1>7. Holds(bytes, pos + Place(fields, i), pieces[i])
    BY <1>1, <1>5, <1>6, PlacedHolds
  <1>8. PICK at : at = pos + Place(fields, i)
    OBVIOUS
  <1>9. Fits(n, size) /\ Holds(bytes, at, Number(im, n, size)) /\ size = fields[i][2] /\ name = fields[i][1]
    BY <1>2, <1>7, <1>8 DEF IsNumber, IsField
  <1>10. HasField(Header(fields, pos, im.order), fields[i][1], n)
    BY <1>1, <1>2, <1>3, <1>8, <1>9, HeaderField
  <1>11. QED
    BY <1>9, <1>10

LEMMA PiecesWhole ==
    ASSUME NEW fields \in Fields, NEW pieces, Sized(pieces, fields)
    PROVE  FlattenSeq(pieces) \in Seq(Byte) /\ Len(FlattenSeq(pieces)) = SizeOf(fields)
  BY PiecesPlaced DEF Sized

-------------------------------------------------------------------------------
(* The tables of fields.                                                    *)

Places(fields, n) ==
    /\ Place(fields, 1) = 0 /\ SizeOf(fields) = Place(fields, n + 1)
    /\ \A i \in 1 .. n : Place(fields, i + 1) = Place(fields, i) + fields[i][2]

LEMMA FieldsPlaces ==
    ASSUME NEW fields \in Fields
    PROVE  Places(fields, Len(fields))
  BY FieldsFacts DEF Places

LEMMA AddrFacts == \A c \in {1, 2} : AddrSize(c) = (IF c = 1 THEN 4 ELSE 8)
  BY DEF AddrSize

LEMMA EhdrTable ==
    ASSUME NEW c \in {1, 2}
    PROVE  /\ EhdrFields(c) \in Fields /\ NamesDiffer(EhdrFields(c)) /\ Len(EhdrFields(c)) = 14
           /\ SizeOf(EhdrFields(c)) = IF c = 1 THEN 52 ELSE 64
  <1> DEFINE fields == EhdrFields(c)
  <1>1. PICK a \in Nat : a = AddrSize(c) /\ a = IF c = 1 THEN 4 ELSE 8
    BY AddrFacts
  <1>2. fields = <<<<"ident", 16>>, <<"type", 2>>, <<"machine", 2>>, <<"version", 4>>, <<"entry", a>>,
          <<"phoff", a>>, <<"shoff", a>>, <<"flags", 4>>, <<"ehsize", 2>>, <<"phentsize", 2>>,
          <<"phnum", 2>>, <<"shentsize", 2>>, <<"shnum", 2>>, <<"shstrndx", 2>>>>
    BY <1>1 DEF EhdrFields
  <1> HIDE DEF fields
  <1>3. fields \in Fields
    <2>1. PICK S : S = Labels
      OBVIOUS
    <2>2. /\ "ident" \in S /\ "type" \in S /\ "machine" \in S /\ "version" \in S /\ "entry" \in S
          /\ "phoff" \in S /\ "shoff" \in S /\ "flags" \in S /\ "ehsize" \in S /\ "phentsize" \in S
          /\ "phnum" \in S /\ "shentsize" \in S /\ "shnum" \in S /\ "shstrndx" \in S
      BY <2>1 DEF Labels
    <2>3. fields \in Seq(S \X Nat)
      BY <1>1, <1>2, <2>2
    <2>4. QED
      BY <2>1, <2>3 DEF Fields
  <1>4. Len(fields) = 14 /\ DOMAIN fields = 1 .. 14
    BY <1>2
  <1>5. NamesDiffer(fields)
    BY <1>2, SMTT(30) DEF NamesDiffer
  <1>6. SizeOf(fields) = IF c = 1 THEN 52 ELSE 64
    <2>1. /\ Place(fields, 1) = 0 /\ SizeOf(fields) = Place(fields, 14 + 1)
          /\ \A i \in 1 .. 14 : Place(fields, i + 1) = Place(fields, i) + fields[i][2]
      BY <1>3, <1>4, FieldsPlaces DEF Places
    <2>2. fields[1][2] = 16 /\ fields[2][2] = 2 /\ fields[3][2] = 2 /\ fields[4][2] = 4 /\ fields[5][2] = a
      BY <1>2
    <2>3. fields[6][2] = a /\ fields[7][2] = a /\ fields[8][2] = 4 /\ fields[9][2] = 2 /\ fields[10][2] = 2
      BY <1>2
    <2>4. fields[11][2] = 2 /\ fields[12][2] = 2 /\ fields[13][2] = 2 /\ fields[14][2] = 2
      BY <1>2
    <2>5. Place(fields, 1 + 1) = 16 /\ Place(fields, 2 + 1) = 18 /\ Place(fields, 3 + 1) = 20
          /\ Place(fields, 4 + 1) = 24 /\ Place(fields, 5 + 1) = 24 + a
      BY <2>1, <2>2
    <2>6. Place(fields, 6 + 1) = 24 + 2 * a /\ Place(fields, 7 + 1) = 24 + 3 * a
          /\ Place(fields, 8 + 1) = 28 + 3 * a /\ Place(fields, 9 + 1) = 30 + 3 * a /\ Place(fields, 10 + 1) = 32 + 3 * a
      BY <2>1, <2>3, <2>5
    <2>7. Place(fields, 11 + 1) = 34 + 3 * a /\ Place(fields, 12 + 1) = 36 + 3 * a
          /\ Place(fields, 13 + 1) = 38 + 3 * a /\ Place(fields, 14 + 1) = 40 + 3 * a
      BY <2>1, <2>4, <2>6
    <2>8. QED
      BY <1>1, <2>1, <2>7
  <1>7. QED
    BY <1>3, <1>4, <1>5, <1>6 DEF fields

LEMMA ShdrTable ==
    ASSUME NEW c \in {1, 2}
    PROVE  /\ ShdrFields(c) \in Fields /\ NamesDiffer(ShdrFields(c)) /\ Len(ShdrFields(c)) = 10
           /\ SizeOf(ShdrFields(c)) = IF c = 1 THEN 40 ELSE 64
  <1> DEFINE fields == ShdrFields(c)
  <1>1. PICK a \in Nat : a = AddrSize(c) /\ a = IF c = 1 THEN 4 ELSE 8
    BY AddrFacts
  <1>2. fields = <<<<"name", 4>>, <<"type", 4>>, <<"flags", a>>, <<"addr", a>>, <<"offset", a>>,
           <<"size", a>>, <<"link", 4>>, <<"info", 4>>, <<"addralign", a>>, <<"entsize", a>>>>
    BY <1>1 DEF ShdrFields
  <1> HIDE DEF fields
  <1>3. fields \in Fields
    <2>1. PICK S : S = Labels
      OBVIOUS
    <2>2. /\ "name" \in S /\ "type" \in S /\ "flags" \in S /\ "addr" \in S
          /\ "offset" \in S /\ "size" \in S /\ "link" \in S /\ "info" \in S
          /\ "addralign" \in S /\ "entsize" \in S
      BY <2>1 DEF Labels
    <2>3. fields \in Seq(S \X Nat)
      BY <1>1, <1>2, <2>2
    <2>4. QED
      BY <2>1, <2>3 DEF Fields
  <1>4. Len(fields) = 10
    BY <1>2
  <1>5. NamesDiffer(fields)
    BY <1>2 DEF NamesDiffer
  <1>6. SizeOf(fields) = IF c = 1 THEN 40 ELSE 64
    <2>1. /\ Place(fields, 1) = 0 /\ SizeOf(fields) = Place(fields, 10 + 1)
          /\ \A i \in 1 .. 10 : Place(fields, i + 1) = Place(fields, i) + fields[i][2]
      BY <1>3, <1>4, FieldsPlaces DEF Places
    <2>3. fields[1][2] = 4 /\ fields[2][2] = 4 /\ fields[3][2] = a /\ fields[4][2] = a /\ fields[5][2] = a
      BY <1>2
    <2>4. Place(fields, 1 + 1) = 4 /\ Place(fields, 2 + 1) = 8 /\ Place(fields, 3 + 1) = 8 + 1 * a
          /\ Place(fields, 4 + 1) = 8 + 2 * a /\ Place(fields, 5 + 1) = 8 + 3 * a
      BY <1>1, <2>1, <2>3
    <2>5. fields[6][2] = a /\ fields[7][2] = 4 /\ fields[8][2] = 4 /\ fields[9][2] = a /\ fields[10][2] = a
      BY <1>2
    <2>6. Place(fields, 6 + 1) = 8 + 4 * a /\ Place(fields, 7 + 1) = 12 + 4 * a /\ Place(fields, 8 + 1) = 16 + 4 * a
          /\ Place(fields, 9 + 1) = 16 + 5 * a /\ Place(fields, 10 + 1) = 16 + 6 * a
      BY <1>1, <2>1, <2>5, <2>4
    <2>7. QED
      BY <1>1, <2>1, <2>6
  <1>7. QED
    BY <1>3, <1>4, <1>5, <1>6 DEF fields

LEMMA PhdrTable32 ==
    ASSUME NEW c \in {1}
    PROVE  /\ PhdrFields(c) \in Fields /\ NamesDiffer(PhdrFields(c)) /\ Len(PhdrFields(c)) = 8
           /\ SizeOf(PhdrFields(c)) = 32
  <1> DEFINE fields == PhdrFields(c)
  <1>1. PICK a \in Nat : a = AddrSize(c) /\ a = IF c = 1 THEN 4 ELSE 8
    BY AddrFacts
  <1>2. fields = <<<<"type", 4>>, <<"offset", 4>>, <<"vaddr", 4>>, <<"paddr", 4>>, <<"filesz", 4>>,
           <<"memsz", 4>>, <<"flags", 4>>, <<"align", 4>>>>
    BY <1>1 DEF PhdrFields
  <1> HIDE DEF fields
  <1>3. fields \in Fields
    <2>1. PICK S : S = Labels
      OBVIOUS
    <2>2. /\ "type" \in S /\ "offset" \in S /\ "vaddr" \in S /\ "paddr" \in S
          /\ "filesz" \in S /\ "memsz" \in S /\ "flags" \in S /\ "align" \in S
      BY <2>1 DEF Labels
    <2>3. fields \in Seq(S \X Nat)
      BY <1>1, <1>2, <2>2
    <2>4. QED
      BY <2>1, <2>3 DEF Fields
  <1>4. Len(fields) = 8
    BY <1>2
  <1>5. NamesDiffer(fields)
    BY <1>2 DEF NamesDiffer
  <1>6. SizeOf(fields) = 32
    <2>1. /\ Place(fields, 1) = 0 /\ SizeOf(fields) = Place(fields, 8 + 1)
          /\ \A i \in 1 .. 8 : Place(fields, i + 1) = Place(fields, i) + fields[i][2]
      BY <1>3, <1>4, FieldsPlaces DEF Places
    <2>3. fields[1][2] = 4 /\ fields[2][2] = 4 /\ fields[3][2] = 4 /\ fields[4][2] = 4 /\ fields[5][2] = 4
      BY <1>2
    <2>4. Place(fields, 1 + 1) = 4 /\ Place(fields, 2 + 1) = 8 /\ Place(fields, 3 + 1) = 12
          /\ Place(fields, 4 + 1) = 16 /\ Place(fields, 5 + 1) = 20
      BY <1>1, <2>1, <2>3
    <2>5. fields[6][2] = 4 /\ fields[7][2] = 4 /\ fields[8][2] = 4
      BY <1>2
    <2>6. Place(fields, 6 + 1) = 24 /\ Place(fields, 7 + 1) = 28 /\ Place(fields, 8 + 1) = 32
      BY <1>1, <2>1, <2>5, <2>4
    <2>7. QED
      BY <1>1, <2>1, <2>6
  <1>7. QED
    BY <1>3, <1>4, <1>5, <1>6 DEF fields

LEMMA PhdrTable64 ==
    ASSUME NEW c \in {2}
    PROVE  /\ PhdrFields(c) \in Fields /\ NamesDiffer(PhdrFields(c)) /\ Len(PhdrFields(c)) = 8
           /\ SizeOf(PhdrFields(c)) = 56
  <1> DEFINE fields == PhdrFields(c)
  <1>1. PICK a \in Nat : a = AddrSize(c) /\ a = IF c = 1 THEN 4 ELSE 8
    BY AddrFacts
  <1>2. fields = <<<<"type", 4>>, <<"flags", 4>>, <<"offset", 8>>, <<"vaddr", 8>>, <<"paddr", 8>>,
           <<"filesz", 8>>, <<"memsz", 8>>, <<"align", 8>>>>
    BY <1>1 DEF PhdrFields
  <1> HIDE DEF fields
  <1>3. fields \in Fields
    <2>1. PICK S : S = Labels
      OBVIOUS
    <2>2. /\ "type" \in S /\ "flags" \in S /\ "offset" \in S /\ "vaddr" \in S
          /\ "paddr" \in S /\ "filesz" \in S /\ "memsz" \in S /\ "align" \in S
      BY <2>1 DEF Labels
    <2>3. fields \in Seq(S \X Nat)
      BY <1>1, <1>2, <2>2
    <2>4. QED
      BY <2>1, <2>3 DEF Fields
  <1>4. Len(fields) = 8
    BY <1>2
  <1>5. NamesDiffer(fields)
    BY <1>2 DEF NamesDiffer
  <1>6. SizeOf(fields) = 56
    <2>1. /\ Place(fields, 1) = 0 /\ SizeOf(fields) = Place(fields, 8 + 1)
          /\ \A i \in 1 .. 8 : Place(fields, i + 1) = Place(fields, i) + fields[i][2]
      BY <1>3, <1>4, FieldsPlaces DEF Places
    <2>3. fields[1][2] = 4 /\ fields[2][2] = 4 /\ fields[3][2] = 8 /\ fields[4][2] = 8 /\ fields[5][2] = 8
      BY <1>2
    <2>4. Place(fields, 1 + 1) = 4 /\ Place(fields, 2 + 1) = 8 /\ Place(fields, 3 + 1) = 16
          /\ Place(fields, 4 + 1) = 24 /\ Place(fields, 5 + 1) = 32
      BY <1>1, <2>1, <2>3
    <2>5. fields[6][2] = 8 /\ fields[7][2] = 8 /\ fields[8][2] = 8
      BY <1>2
    <2>6. Place(fields, 6 + 1) = 40 /\ Place(fields, 7 + 1) = 48 /\ Place(fields, 8 + 1) = 56
      BY <1>1, <2>1, <2>5, <2>4
    <2>7. QED
      BY <1>1, <2>1, <2>6
  <1>7. QED
    BY <1>3, <1>4, <1>5, <1>6 DEF fields

LEMMA SymTable32 ==
    ASSUME NEW c \in {1}
    PROVE  /\ SymFields(c) \in Fields /\ NamesDiffer(SymFields(c)) /\ Len(SymFields(c)) = 6
           /\ SizeOf(SymFields(c)) = 16
  <1> DEFINE fields == SymFields(c)
  <1>1. PICK a \in Nat : a = AddrSize(c) /\ a = IF c = 1 THEN 4 ELSE 8
    BY AddrFacts
  <1>2. fields = <<<<"name", 4>>, <<"value", 4>>, <<"size", 4>>, <<"info", 1>>, <<"other", 1>>,
           <<"shnxd", 2>>>>
    BY <1>1 DEF SymFields
  <1> HIDE DEF fields
  <1>3. fields \in Fields
    <2>1. PICK S : S = Labels
      OBVIOUS
    <2>2. /\ "name" \in S /\ "value" \in S /\ "size" \in S /\ "info" \in S
          /\ "other" \in S /\ "shnxd" \in S
      BY <2>1 DEF Labels
    <2>3. fields \in Seq(S \X Nat)
      BY <1>1, <1>2, <2>2
    <2>4. QED
      BY <2>1, <2>3 DEF Fields
  <1>4. Len(fields) = 6
    BY <1>2
  <1>5. NamesDiffer(fields)
    BY <1>2 DEF NamesDiffer
  <1>6. SizeOf(fields) = 16
    <2>1. /\ Place(fields, 1) = 0 /\ SizeOf(fields) = Place(fields, 6 + 1)
          /\ \A i \in 1 .. 6 : Place(fields, i + 1) = Place(fields, i) + fields[i][2]
      BY <1>3, <1>4, FieldsPlaces DEF Places
    <2>3. fields[1][2] = 4 /\ fields[2][2] = 4 /\ fields[3][2] = 4 /\ fields[4][2] = 1 /\ fields[5][2] = 1
      BY <1>2
    <2>4. Place(fields, 1 + 1) = 4 /\ Place(fields, 2 + 1) = 8 /\ Place(fields, 3 + 1) = 12
          /\ Place(fields, 4 + 1) = 13 /\ Place(fields, 5 + 1) = 14
      BY <1>1, <2>1, <2>3
    <2>5. fields[6][2] = 2
      BY <1>2
    <2>6. Place(fields, 6 + 1) = 16
      BY <1>1, <2>1, <2>5, <2>4
    <2>7. QED
      BY <1>1, <2>1, <2>6
  <1>7. QED
    BY <1>3, <1>4, <1>5, <1>6 DEF fields

LEMMA SymTable64 ==
    ASSUME NEW c \in {2}
    PROVE  /\ SymFields(c) \in Fields /\ NamesDiffer(SymFields(c)) /\ Len(SymFields(c)) = 6
           /\ SizeOf(SymFields(c)) = 24
  <1> DEFINE fields == SymFields(c)
  <1>1. PICK a \in Nat : a = AddrSize(c) /\ a = IF c = 1 THEN 4 ELSE 8
    BY AddrFacts
  <1>2. fields = <<<<"name", 4>>, <<"info", 1>>, <<"other", 1>>, <<"shnxd", 2>>, <<"value", 8>>,
           <<"size", 8>>>>
    BY <1>1 DEF SymFields
  <1> HIDE DEF fields
  <1>3. fields \in Fields
    <2>1. PICK S : S = Labels
      OBVIOUS
    <2>2. /\ "name" \in S /\ "info" \in S /\ "other" \in S /\ "shnxd" \in S
          /\ "value" \in S /\ "size" \in S
      BY <2>1 DEF Labels
    <2>3. fields \in Seq(S \X Nat)
      BY <1>1, <1>2, <2>2
    <2>4. QED
      BY <2>1, <2>3 DEF Fields
  <1>4. Len(fields) = 6
    BY <1>2
  <1>5. NamesDiffer(fields)
    BY <1>2 DEF NamesDiffer
  <1>6. SizeOf(fields) = 24
    <2>1. /\ Place(fields, 1) = 0 /\ SizeOf(fields) = Place(fields, 6 + 1)
          /\ \A i \in 1 .. 6 : Place(fields, i + 1) = Place(fields, i) + fields[i][2]
      BY <1>3, <1>4, FieldsPlaces DEF Places
    <2>3. fields[1][2] = 4 /\ fields[2][2] = 1 /\ fields[3][2] = 1 /\ fields[4][2] = 2 /\ fields[5][2] = 8
      BY <1>2
    <2>4. Place(fields, 1 + 1) = 4 /\ Place(fields, 2 + 1) = 5 /\ Place(fields, 3 + 1) = 6
          /\ Place(fields, 4 + 1) = 8 /\ Place(fields, 5 + 1) = 16
      BY <1>1, <2>1, <2>3
    <2>5. fields[6][2] = 8
      BY <1>2
    <2>6. Place(fields, 6 + 1) = 24
      BY <1>1, <2>1, <2>5, <2>4
    <2>7. QED
      BY <1>1, <2>1, <2>6
  <1>7. QED
    BY <1>3, <1>4, <1>5, <1>6 DEF fields

-------------------------------------------------------------------------------
(* Tables of names.                                                         *)

LEMMA TextFacts ==
    ASSUME NEW name \in Text
    PROVE  /\ name \in Seq(Byte) /\ Len(name) \in Nat /\ \A k \in 1 .. Len(name) : name[k] # 0
           /\ Append(name, 0) \in Seq(Byte) /\ Len(Append(name, 0)) = Len(name) + 1
           /\ \A k \in 1 .. Len(name) : Append(name, 0)[k] = name[k]
           /\ Append(name, 0)[Len(name) + 1] = 0
  <1>1. PICK S : S = 1 .. 255
    OBVIOUS
  <1>2. (\A x \in S : x # 0 /\ x \in Byte) /\ 0 \in Byte
    BY <1>1 DEF Byte
  <1>3. name \in Seq(S)
    BY <1>1 DEF Text
  <1>4. Len(name) \in Nat /\ \A k \in 1 .. Len(name) : name[k] \in S
    BY <1>3
  <1>5. name = [k \in 1 .. Len(name) |-> name[k]]
    BY <1>3
  <1>6. name \in Seq(Byte)
    BY <1>2, <1>4, <1>5
  <1>7. QED
    BY <1>2, <1>4, <1>6

(* Each name lies in the table, and only the last one at its end.           *)
NameAt(table, k, name, last) ==
    /\ Placed(table, k, Append(name, 0))
    /\ IF last THEN k + Len(name) + 1 = Len(table) ELSE k + Len(name) + 1 < Len(table)

LEMMA TerminatedFacts ==
    ASSUME NEW n \in Nat, NEW texts \in [1 .. n -> Text]
    PROVE  /\ Terminated(texts) \in Seq(Byte) /\ Len(Terminated(texts)) > 0
           /\ \A i \in 1 .. n : \E k \in Nat : NameAt(Terminated(texts), k, texts[i], i = n)
  <1> DEFINE parts == [i \in DOMAIN texts |-> Append(texts[i], 0)]
             flat  == FlattenSeq(parts)
             At(i) == Len(Flattened(parts, i))
  <1>1. parts \in [1 .. n -> Seq(Byte)] /\ \A i \in 1 .. n : parts[i] = Append(texts[i], 0)
    BY TextFacts
  <1>2. Terminated(texts) = <<0>> \o flat
    BY DEF Terminated
  <1>3. <<0>> \in Seq(Byte) /\ Len(<<0>>) = 1
    BY DEF Byte
  <1> HIDE DEF parts
  <1>4. /\ Flattened(parts, n) = flat
        /\ \A m \in 0 .. n : Flattened(parts, m) \in Seq(Byte)
        /\ \A m \in 0 .. n - 1 : Flattened(parts, m + 1) = Flattened(parts, m) \o parts[m + 1]
    BY <1>1, FlattenPrefixes
  <1>5. flat \in Seq(Byte) /\ Terminated(texts) \in Seq(Byte) /\ Len(Terminated(texts)) = 1 + Len(flat)
    <2>1. flat \in Seq(Byte)
      BY <1>4
    <2> HIDE DEF flat
    <2>2. QED
      BY <2>1, <1>2, <1>3
  <1>6. Placed(Terminated(texts), 1, flat)
    <2> HIDE DEF flat
    <2>1. QED
      BY <1>2, <1>3, <1>5, PlacedInBoth
  <1>7. ASSUME NEW i \in 1 .. n PROVE \E k \in Nat : NameAt(Terminated(texts), k, texts[i], i = n)
    <2>1. Placed(flat, At(i - 1), parts[i])
      BY <1>1, FlattenAt
    <2>2. texts[i] \in Text /\ parts[i] \in Seq(Byte) /\ Len(parts[i]) = Len(texts[i]) + 1 /\ Len(texts[i]) \in Nat
          /\ parts[i] = Append(texts[i], 0)
      BY <1>1, TextFacts
    <2> HIDE DEF flat, At
    <2>3. Placed(Terminated(texts), 1 + At(i - 1), Append(texts[i], 0))
      BY <1>5, <1>6, <2>1, <2>2, PlacedInPart
    <2>4. At(i) = At(i - 1) + Len(parts[i]) /\ At(i) \in Nat /\ At(i - 1) \in Nat
      <3>1. PICK m \in 0 .. n - 1 : m = i - 1 /\ m + 1 = i /\ m \in 0 .. n /\ m + 1 \in 0 .. n
        OBVIOUS
      <3>2. Flattened(parts, i) = Flattened(parts, m) \o parts[i] /\ Flattened(parts, m) \in Seq(Byte)
        BY <1>4, <3>1
      <3>3. QED
        BY <3>1, <3>2, <2>2 DEF At
    <2>5. CASE i = n
      <3>1. At(i) = Len(flat) /\ Len(flat) \in Nat
        BY <1>4, <1>5, <2>5 DEF At
      <3>2. PICK a \in Nat, b \in Nat, c \in Nat :
               /\ a = At(i - 1) /\ b = Len(texts[i]) /\ c = Len(flat)
               /\ c = a + (b + 1)
        BY <2>2, <2>4, <3>1
      <3> DEFINE k == 1 + a
      <3>3. k + Len(texts[i]) + 1 = Len(Terminated(texts)) /\ k \in Nat /\ Placed(Terminated(texts), k, Append(texts[i], 0))
        <4>1. k \in Nat /\ k + b + 1 = 1 + c
          BY <3>2, SMTT(30)
        <4>2. Len(Terminated(texts)) = 1 + c /\ Len(texts[i]) = b
          BY <1>5, <3>2
        <4>3. Placed(Terminated(texts), k, Append(texts[i], 0))
          BY <2>3, <3>2
        <4> HIDE DEF k
        <4>4. QED
          BY <4>1, <4>2, <4>3
      <3> HIDE DEF k
      <3>4. NameAt(Terminated(texts), k, texts[i], TRUE)
        BY <3>3 DEF NameAt
      <3>5. QED
        BY <2>5, <3>3, <3>4
    <2>6. CASE i # n
      <3>1. PICK j \in 1 .. n : j = i + 1 /\ j - 1 = i
        BY <2>6
      <3>2. Placed(flat, At(j - 1), parts[j])
        BY <1>1, FlattenAt DEF flat, At
      <3>3. texts[j] \in Text /\ Len(parts[j]) = Len(texts[j]) + 1 /\ Len(texts[j]) \in Nat
        BY <1>1, TextFacts
      <3>4. At(i) + Len(parts[j]) <= Len(flat) /\ Len(flat) \in Nat
        BY <1>5, <3>1, <3>2 DEF Placed
      <3>5. 1 + At(i - 1) + Len(texts[i]) + 1 < 1 + Len(flat)
        BY <2>2, <2>4, <3>3, <3>4, SMTT(30)
      <3>6. QED
        BY <1>5, <2>2, <2>3, <2>4, <2>6, <3>5 DEF NameAt
    <2>7. QED
      BY <2>5, <2>6
  <1>8. Len(Terminated(texts)) > 0
    BY <1>5
  <1>9. QED
    BY <1>5, <1>7, <1>8

LEMMA PlaceInFacts ==
    ASSUME NEW table \in Seq(Byte), NEW name \in Text, NEW k \in Nat, Placed(table, k, Append(name, 0))
    PROVE  /\ PlaceIn(table, name) \in Nat /\ PlaceIn(table, name) <= k
           /\ Placed(table, PlaceIn(table, name), Append(name, 0))
  <1> DEFINE part == Append(name, 0)
             At == {j \in 0 .. Len(table) - Len(name) - 1 : SubSeq(table, j + 1, j + Len(name) + 1) = part}
  <1>1. part \in Seq(Byte) /\ Len(part) = Len(name) + 1 /\ Len(name) \in Nat /\ Len(table) \in Nat
    BY TextFacts
  <1>2. PlaceIn(table, name) = Min(At)
    BY DEF PlaceIn
  <1>3. k \in At
    <2>1. k + Len(part) <= Len(table)
      BY DEF Placed
    <2>2. k \in 0 .. Len(table) - Len(name) - 1
      BY <1>1, <2>1
    <2> HIDE DEF part
    <2>3. SubSeq(table, k + 1, k + Len(part)) = part
      BY <1>1, PlacedIsSub DEF part
    <2>4. k + Len(part) = k + Len(name) + 1
      BY <1>1
    <2>5. QED
      BY <2>2, <2>3, <2>4
  <1>4. At \in SUBSET Nat
    OBVIOUS
  <1> HIDE DEF At
  <1>5. Min(At) \in At /\ Min(At) <= k
    BY <1>3, <1>4, MinFacts
  <1>6. PICK j \in 0 .. Len(table) - Len(name) - 1 : j = Min(At) /\ SubSeq(table, j + 1, j + Len(name) + 1) = part
    BY <1>5 DEF At
  <1> HIDE DEF part
  <1>7. Placed(table, j, part)
    <2>1. j \in Nat /\ j + Len(part) <= Len(table)
      BY <1>1, <1>6
    <2>2. ASSUME NEW i \in 1 .. Len(part) PROVE table[j + i] = part[i]
      <3>1. SubSeq(table, j + 1, j + Len(name) + 1)[i] = table[j + i]
        BY <1>1, <2>1
      <3>2. QED
        BY <1>6, <3>1
    <2>3. QED
      BY <2>1, <2>2 DEF Placed
  <1>8. QED
    BY <1>2, <1>5, <1>6, <1>7 DEF part

Nuls(data, offset) == {k \in offset .. Len(data) - 1 : data[k + 1] = 0}

(* A name ends at the first nul behind its place.                           *)
LEMMA NameEnds ==
    ASSUME NEW data \in Seq(Byte), NEW name \in Text, NEW offset \in Nat,
           Placed(data, offset, Append(name, 0))
    PROVE  /\ offset < Len(data) /\ Nuls(data, offset) # {}
           /\ SubSeq(data, offset + 1, Min(Nuls(data, offset))) = name
  <1> DEFINE part == Append(name, 0)
             end == offset + Len(name)
  <1>1. /\ part \in Seq(Byte) /\ Len(part) = Len(name) + 1 /\ Len(name) \in Nat /\ Len(data) \in Nat
        /\ name \in Seq(Byte)
        /\ \A k \in 1 .. Len(name) : name[k] # 0
        /\ \A k \in 1 .. Len(name) : part[k] = name[k]
        /\ part[Len(name) + 1] = 0
    BY TextFacts
  <1> HIDE DEF part
  <1>2. offset + Len(part) <= Len(data) /\ \A k \in 1 .. Len(part) : data[offset + k] = part[k]
    BY DEF Placed, part
  <1>3. end \in Nuls(data, offset)
    <2>1. PICK k \in 1 .. Len(part) : k = Len(name) + 1
      BY <1>1
    <2>2. data[offset + k] = 0 /\ offset + k = end + 1
      BY <1>1, <1>2, <2>1
    <2>3. end \in offset .. Len(data) - 1
      BY <1>1, <1>2
    <2>4. QED
      BY <2>2, <2>3 DEF Nuls
  <1>4. \A k \in Nuls(data, offset) : k >= end
    <2>1. SUFFICES ASSUME NEW k \in Nuls(data, offset), k < end PROVE FALSE
      <3>1. \A k \in Nuls(data, offset) : k \in Int
        BY DEF Nuls
      <3>2. QED
        BY <1>1, <3>1
    <2>2. k \in offset .. Len(data) - 1 /\ data[k + 1] = 0
      BY DEF Nuls
    <2>3. PICK i \in 1 .. Len(name) : i = k + 1 - offset /\ i \in 1 .. Len(part) /\ offset + i = k + 1
      BY <1>1, <2>1, <2>2
    <2>4. data[offset + i] = name[i] /\ name[i] # 0
      BY <1>1, <1>2, <2>3
    <2>5. QED
      BY <2>2, <2>3, <2>4
  <1>5. Nuls(data, offset) \in SUBSET Nat
    BY DEF Nuls
  <1>6. Min(Nuls(data, offset)) = end
    <2>1. Min(Nuls(data, offset)) \in Nuls(data, offset) /\ Min(Nuls(data, offset)) <= end
      BY <1>3, <1>5, MinFacts
    <2>2. QED
      BY <1>1, <1>4, <1>5, <2>1
  <1>7. Placed(data, offset, name)
    <2>1. offset + Len(name) <= Len(data)
      BY <1>1, <1>2
    <2>2. \A k \in 1 .. Len(name) : data[offset + k] = name[k]
      BY <1>1, <1>2
    <2>3. QED
      BY <2>1, <2>2 DEF Placed
  <1>8. SubSeq(data, offset + 1, end) = name
    BY <1>1, <1>7, PlacedIsSub
  <1>9. offset < Len(data)
    BY <1>1, <1>2
  <1>10. QED
    BY <1>3, <1>6, <1>8, <1>9

(* Without the end of the last name, that name has no nul behind it, and    *)
(* the others are where they were.                                          *)
LEMMA FrontFacts ==
    ASSUME NEW S, NEW s \in Seq(S), Len(s) > 0
    PROVE  /\ Front(s) \in Seq(S) /\ Len(Front(s)) = Len(s) - 1
           /\ \A k \in 1 .. Len(s) - 1 : Front(s)[k] = s[k]
  <1>1. Front(s) = SubSeq(s, 1, Len(s) - 1)
    BY DEF Front
  <1> DEFINE n == Len(s) - 1
  <1>2. n \in Nat /\ n = Len(s) - 1 /\ n <= Len(s) /\ n + 1 = Len(s)
    <2>1. Len(s) \in Nat
      OBVIOUS
    <2>2. QED
      BY <2>1
  <1>3. Front(s) = SubSeq(s, 1, n)
    BY <1>1
  <1> HIDE DEF n
  <1>4. SubSeq(s, 1, n) \in Seq(S) /\ Len(SubSeq(s, 1, n)) = n /\ \A k \in 1 .. n : SubSeq(s, 1, n)[k] = s[k]
    BY <1>2
  <1>5. QED
    BY <1>2, <1>3, <1>4

LEMMA PlacedInFront ==
    ASSUME NEW S, NEW w \in Seq(S), NEW p \in Seq(S), NEW a, Placed(w, a, p), a + Len(p) < Len(w)
    PROVE  Placed(Front(w), a, p)
  <1>1. a \in Nat /\ Len(w) \in Nat /\ Len(p) \in Nat /\ Len(w) > 0
    BY DEF Placed
  <1>2. /\ Len(Front(w)) = Len(w) - 1
        /\ \A k \in 1 .. Len(w) - 1 : Front(w)[k] = w[k]
    BY <1>1, FrontFacts
  <1>3. \A k \in 1 .. Len(p) : Front(w)[a + k] = p[k]
    <2> TAKE k \in 1 .. Len(p)
    <2>1. a + k \in 1 .. Len(w) - 1 /\ w[a + k] = p[k]
      BY <1>1 DEF Placed
    <2>2. QED
      BY <1>2, <2>1
  <1>4. QED
    BY <1>1, <1>2, <1>3 DEF Placed

LEMMA LastNameEndless ==
    ASSUME NEW table \in Seq(Byte), NEW name \in Text, NEW k \in Nat, NameAt(table, k, name, TRUE)
    PROVE  Len(table) - 1 - Len(name) = k /\ Nuls(Front(table), k) = {}
  <1> DEFINE part == Append(name, 0)
  <1>1. /\ Len(part) = Len(name) + 1 /\ Len(name) \in Nat /\ Len(table) \in Nat
        /\ \A i \in 1 .. Len(name) : name[i] # 0
        /\ \A i \in 1 .. Len(name) : part[i] = name[i]
    BY TextFacts
  <1> HIDE DEF part
  <1>2. k + Len(name) + 1 = Len(table) /\ \A i \in 1 .. Len(part) : table[k + i] = part[i]
    BY DEF NameAt, Placed, part
  <1>3. /\ Len(Front(table)) = Len(table) - 1
        /\ \A i \in 1 .. Len(table) - 1 : Front(table)[i] = table[i]
    BY <1>1, <1>2, FrontFacts
  <1>4. ASSUME NEW j \in k .. Len(Front(table)) - 1 PROVE Front(table)[j + 1] # 0
    <2>1. PICK i \in 1 .. Len(name) : k + i = j + 1 /\ i \in 1 .. Len(part) /\ j + 1 \in 1 .. Len(table) - 1
      <3>1. j + 1 - k \in 1 .. Len(name) /\ k + (j + 1 - k) = j + 1
        BY <1>1, <1>2, <1>3
      <3>2. QED
        BY <1>1, <1>2, <1>3, <3>1
    <2>2. Front(table)[j + 1] = table[j + 1]
      BY <1>3, <2>1
    <2>3. table[k + i] = part[i]
      BY <1>2, <2>1
    <2>4. part[i] = name[i] /\ name[i] # 0
      BY <1>1
    <2>5. QED
      BY <2>1, <2>2, <2>3, <2>4
  <1>5. QED
    BY <1>1, <1>2, <1>4 DEF Nuls
-------------------------------------------------------------------------------
(* Images.                                                                  *)

SectionSet == [name : Text, named : BOOLEAN, type : Short, body : Bodies, link : Short]
SymbolSet  == [name : Text, type : 0 .. 15, binding : 0 .. 15, value : Short]

LEMMA ImageParts ==
    ASSUME NEW im, WellFormed(im)
    PROVE  /\ im.class \in {1, 2} /\ im.order \in {1, 2} /\ im.defect \in Defects
           /\ im.sections \in Seq(SectionSet) /\ im.symbols \in Seq(SymbolSet)
           /\ im.segments \in Seq(DOMAIN im.sections) /\ Len(im.sections) > 0
           /\ FileSize(im) < 65536 /\ Len(SymbolNames(im)) < 65536
  <1>1. 2 ^ 16 = 65536
    BY WordFacts
  <1>2. SectionsWellFormed(im) /\ SymbolsWellFormed(im)
    BY DEF WellFormed
  <1>3. im.sections \in Seq(SectionSet) /\ Len(im.sections) > 0
    BY <1>2 DEF SectionsWellFormed, SectionSet
  <1>4. im.symbols \in Seq(SymbolSet)
    BY <1>2 DEF SymbolsWellFormed, SymbolSet
  <1>5. QED
    BY <1>1, <1>3, <1>4 DEF WellFormed

LEMMA SymbolTexts ==
    ASSUME NEW im, WellFormed(im)
    PROVE  /\ SymbolNames(im) \in Seq(Byte) /\ Len(SymbolNames(im)) > 0
           /\ \A j \in 1 .. Len(im.symbols) :
                 \E k \in Nat : NameAt(SymbolNames(im), k, im.symbols[j].name, j = Len(im.symbols))
  <1> DEFINE texts == [i \in DOMAIN im.symbols |-> im.symbols[i].name]
  <1>1. im.symbols \in Seq(SymbolSet)
    BY ImageParts
  <1>2. Len(im.symbols) \in Nat /\ DOMAIN im.symbols = 1 .. Len(im.symbols)
        /\ \A j \in 1 .. Len(im.symbols) : im.symbols[j] \in SymbolSet
    BY <1>1
  <1>3. texts \in [1 .. Len(im.symbols) -> Text] /\ \A j \in 1 .. Len(im.symbols) : texts[j] = im.symbols[j].name
    BY <1>2 DEF SymbolSet
  <1>4. SymbolNames(im) = Terminated(texts)
    BY DEF SymbolNames
  <1> HIDE DEF texts
  <1>5. PICK n \in Nat : n = Len(im.symbols)
    BY <1>2
  <1>6. texts \in [1 .. n -> Text]
    BY <1>3, <1>5
  <1>7. /\ Terminated(texts) \in Seq(Byte) /\ Len(Terminated(texts)) > 0
        /\ \A i \in 1 .. n : \E k \in Nat : NameAt(Terminated(texts), k, texts[i], i = n)
    BY <1>6, TerminatedFacts
  <1>8. ASSUME NEW j \in 1 .. n
        PROVE  \E k \in Nat : NameAt(SymbolNames(im), k, im.symbols[j].name, j = Len(im.symbols))
    <2>1. PICK k \in Nat : NameAt(Terminated(texts), k, texts[j], j = n)
      BY <1>7
    <2>2. texts[j] = im.symbols[j].name
      BY <1>3, <1>5
    <2>3. NameAt(SymbolNames(im), k, im.symbols[j].name, j = Len(im.symbols))
      BY <1>4, <1>5, <2>1, <2>2
    <2>4. QED
      BY <2>3
  <1>9. QED
    BY <1>4, <1>5, <1>7, <1>8

LEMMA SectionTexts ==
    ASSUME NEW im, WellFormed(im)
    PROVE  /\ SectionNames(im) \in Seq(Byte) /\ Len(SectionNames(im)) > 0
           /\ \A j \in 1 .. Len(im.sections) :
                 \E k \in Nat : NameAt(SectionNames(im), k, im.sections[j].name, j = Len(im.sections))
  <1> DEFINE texts == [i \in DOMAIN im.sections |-> im.sections[i].name]
  <1>1. im.sections \in Seq(SectionSet)
    BY ImageParts
  <1>2. Len(im.sections) \in Nat /\ DOMAIN im.sections = 1 .. Len(im.sections)
        /\ \A j \in 1 .. Len(im.sections) : im.sections[j] \in SectionSet
    BY <1>1
  <1>3. texts \in [1 .. Len(im.sections) -> Text] /\ \A j \in 1 .. Len(im.sections) : texts[j] = im.sections[j].name
    BY <1>2 DEF SectionSet
  <1>4. SectionNames(im) = Terminated(texts)
    BY DEF SectionNames
  <1> HIDE DEF texts
  <1>5. PICK n \in Nat : n = Len(im.sections)
    BY <1>2
  <1>6. texts \in [1 .. n -> Text]
    BY <1>3, <1>5
  <1>7. /\ Terminated(texts) \in Seq(Byte) /\ Len(Terminated(texts)) > 0
        /\ \A i \in 1 .. n : \E k \in Nat : NameAt(Terminated(texts), k, texts[i], i = n)
    BY <1>6, TerminatedFacts
  <1>8. ASSUME NEW j \in 1 .. n
        PROVE  \E k \in Nat : NameAt(SectionNames(im), k, im.sections[j].name, j = Len(im.sections))
    <2>1. PICK k \in Nat : NameAt(Terminated(texts), k, texts[j], j = n)
      BY <1>7
    <2>2. texts[j] = im.sections[j].name
      BY <1>3, <1>5
    <2>3. NameAt(SectionNames(im), k, im.sections[j].name, j = Len(im.sections))
      BY <1>4, <1>5, <2>1, <2>2
    <2>4. QED
      BY <2>3
  <1>9. QED
    BY <1>4, <1>5, <1>7, <1>8

LEMMA FitsWide ==
    ASSUME NEW n \in Nat, n < 65536
    PROVE  /\ Fits(n, 2) /\ Fits(n, 4) /\ Fits(n, 8) /\ (n < 256 => Fits(n, 1))
  BY WordFacts DEF Fits

LEMMA WideIs ==
    ASSUME NEW im, im.class \in {1, 2}, NEW n
    PROVE  Wide(im, n) = Number(im, n, AddrSize(im.class))
  BY DEF Wide, AddrSize

LEMMA NumbersAre ==
    ASSUME NEW im, im.class \in {1, 2}, NEW n \in Nat, n < 65536
    PROVE  /\ IsNumber(im, Number(im, n, 2), n, 2) /\ IsNumber(im, Number(im, n, 4), n, 4)
           /\ IsNumber(im, Wide(im, n), n, AddrSize(im.class))
           /\ n < 256 => IsNumber(im, Number(im, n, 1), n, 1)
  <1>1. \A size \in {1, 2, 4, 8} : Fits(n, size) => IsNumber(im, Number(im, n, size), n, size)
    BY NumberFacts DEF IsNumber
  <1>2. AddrSize(im.class) \in {4, 8}
    BY AddrFacts
  <1>3. Wide(im, n) = Number(im, n, AddrSize(im.class))
    BY WideIs
  <1>4. QED
    BY <1>1, <1>2, <1>3, FitsWide

SymSize(c) == IF c = 1 THEN 16 ELSE 24
SymbolPlace(im, s) == IF im.defect = "symname" THEN 200 ELSE PlaceIn(SymbolNames(im), s.name)

LEMMA SymbolPlaces ==
    ASSUME NEW im, WellFormed(im), NEW j \in 1 .. Len(im.symbols), NEW s, s = im.symbols[j]
    PROVE  /\ SymbolPlace(im, s) \in Nat /\ SymbolPlace(im, s) < 65536
           /\ im.defect # "symname" =>
                 Placed(SymbolNames(im), SymbolPlace(im, s), Append(s.name, 0))
  <1>1. PICK name : name = s.name /\ name = im.symbols[j].name
    OBVIOUS
  <1>2. name \in Text
    <2>1. im.symbols \in Seq(SymbolSet)
      BY ImageParts
    <2>2. im.symbols[j] \in SymbolSet
      BY <2>1
    <2>3. QED
      BY <1>1, <2>2 DEF SymbolSet
  <1>3. SymbolNames(im) \in Seq(Byte) /\ Len(SymbolNames(im)) \in Nat /\ Len(SymbolNames(im)) < 65536
    BY SymbolTexts, ImageParts
  <1>4. PICK k \in Nat : Placed(SymbolNames(im), k, Append(name, 0))
    BY <1>1, SymbolTexts DEF NameAt
  <1>5. PICK p : p = PlaceIn(SymbolNames(im), name)
    OBVIOUS
  <1>6. p \in Nat /\ Placed(SymbolNames(im), p, Append(name, 0))
    BY <1>2, <1>3, <1>4, <1>5, PlaceInFacts
  <1>7. p < 65536
    <2>1. Len(Append(name, 0)) = Len(name) + 1 /\ Len(name) \in Nat
      BY <1>2, TextFacts
    <2>2. p + Len(Append(name, 0)) <= Len(SymbolNames(im))
      BY <1>6 DEF Placed
    <2>3. QED
      BY <1>3, <1>6, <2>1, <2>2
  <1>8. SymbolPlace(im, s) = IF im.defect = "symname" THEN 200 ELSE p
    BY <1>1, <1>5 DEF SymbolPlace
  <1>9. QED
    BY <1>1, <1>6, <1>7, <1>8

(* The parts of a symbol, in the order of its class.                        *)
SymbolIs(im, s) ==
    LET parts == SymbolParts(im, s)
        c == im.class
    IN  /\ Sized(parts, SymFields(c))
        /\ IsNumber(im, parts[1], SymbolPlace(im, s), 4)
        /\ IsNumber(im, parts[IF c = 1 THEN 2 ELSE 5], s.value, AddrSize(c))
        /\ IsNumber(im, parts[IF c = 1 THEN 4 ELSE 2], s.type + 16 * s.binding, 1)

LEMMA SymbolFacts ==
    ASSUME NEW im, WellFormed(im), NEW j \in 1 .. Len(im.symbols)
    PROVE  /\ SymbolIs(im, im.symbols[j])
           /\ SymbolBytes(im, im.symbols[j]) \in Seq(Byte)
           /\ Len(SymbolBytes(im, im.symbols[j])) = SymSize(im.class)
  <1>1. PICK s : s = im.symbols[j]
    OBVIOUS
  <1>2. s \in SymbolSet
    <2>1. im.symbols \in Seq(SymbolSet)
      BY ImageParts
    <2>2. QED
      BY <1>1, <2>1
  <1>3. PICK p \in Nat : p = SymbolPlace(im, s) /\ p < 65536
    BY <1>1, SymbolPlaces
  <1>4. PICK v \in Nat : v = s.value /\ v < 65536
    BY <1>2, WordFacts DEF SymbolSet
  <1>5. PICK i \in Nat : i = s.type + 16 * s.binding /\ i < 256
    BY <1>2, SMTT(30) DEF SymbolSet
  <1>6. im.class \in {1, 2}
    BY ImageParts
  <1>7. /\ IsNumber(im, Number(im, p, 4), p, 4) /\ IsNumber(im, Wide(im, v), v, AddrSize(im.class))
        /\ IsNumber(im, Number(im, i, 1), i, 1) /\ IsNumber(im, Number(im, 4, 4), 4, 4)
        /\ IsNumber(im, Number(im, 0, 1), 0, 1) /\ IsNumber(im, Number(im, 1, 2), 1, 2)
        /\ IsNumber(im, Wide(im, 4), 4, AddrSize(im.class))
    BY <1>3, <1>4, <1>5, <1>6, NumbersAre
  <1> DEFINE n1 == Number(im, p, 4)
             n2 == Wide(im, v)
             n3 == Number(im, 4, 4)
             n4 == Number(im, i, 1)
             n5 == Number(im, 0, 1)
             n6 == Number(im, 1, 2)
             n7 == Wide(im, 4)
             parts == SymbolParts(im, s)
  <1>8. parts = IF im.class = 1 THEN <<n1, n2, n3, n4, n5, n6>> ELSE <<n1, n4, n5, n6, n2, n7>>
    <2>1. (IF im.defect = "symname" THEN 200 ELSE PlaceIn(SymbolNames(im), s.name)) = p
      BY <1>3 DEF SymbolPlace
    <2>2. QED
      BY <2>1, <1>4, <1>5, SMTT(30) DEF SymbolParts
  <1>9. /\ n1 \in Seq(Byte) /\ n2 \in Seq(Byte) /\ n3 \in Seq(Byte) /\ n4 \in Seq(Byte)
        /\ n5 \in Seq(Byte) /\ n6 \in Seq(Byte) /\ n7 \in Seq(Byte)
        /\ Len(n1) = 4 /\ Len(n2) = AddrSize(im.class) /\ Len(n3) = 4 /\ Len(n4) = 1
        /\ Len(n5) = 1 /\ Len(n6) = 2 /\ Len(n7) = AddrSize(im.class)
    BY <1>7 DEF IsNumber
  <1> HIDE DEF n1, n2, n3, n4, n5, n6, n7, parts
  <1>10. CASE im.class = 1
    <2>1. parts = <<n1, n2, n3, n4, n5, n6>>
      BY <1>8, <1>10
    <2>2. SymFields(1) = <<<<"name", 4>>, <<"value", 4>>, <<"size", 4>>, <<"info", 1>>, <<"other", 1>>, <<"shnxd", 2>>>>
      BY DEF SymFields
    <2>3. AddrSize(im.class) = 4
      BY <1>10, AddrFacts
    <2>4. parts \in [1 .. 6 -> Seq(Byte)]
      BY <1>9, <2>1
    <2>5. \A k \in 1 .. 6 : Len(parts[k]) = SymFields(1)[k][2]
      <3>0. /\ SymFields(1)[1][2] = 4 /\ SymFields(1)[2][2] = 4 /\ SymFields(1)[3][2] = 4
            /\ SymFields(1)[4][2] = 1 /\ SymFields(1)[5][2] = 1 /\ SymFields(1)[6][2] = 2
        BY <2>2
      <3>1. /\ Len(parts[1]) = 4 /\ Len(parts[2]) = 4 /\ Len(parts[3]) = 4
            /\ Len(parts[4]) = 1 /\ Len(parts[5]) = 1 /\ Len(parts[6]) = 2
        BY <1>9, <2>1, <2>3
      <3>2. \A k \in 1 .. 6 : k = 1 \/ k = 2 \/ k = 3 \/ k = 4 \/ k = 5 \/ k = 6
        OBVIOUS
      <3>3. QED
        BY <3>0, <3>1, <3>2
    <2>6. Sized(parts, SymFields(1)) /\ SymFields(1) \in Fields /\ SizeOf(SymFields(1)) = 16
      BY <2>4, <2>5, SymTable32 DEF Sized
    <2>7. parts[1] = n1 /\ parts[2] = n2 /\ parts[4] = n4
      BY <2>1
    <2>8. SymbolIs(im, s)
      BY <1>3, <1>4, <1>5, <1>7, <1>10, <2>6, <2>7 DEF SymbolIs, parts, n1, n2, n4
    <2>9. FlattenSeq(parts) \in Seq(Byte) /\ Len(FlattenSeq(parts)) = 16
      BY <2>6, PiecesWhole
    <2>10. QED
      BY <1>1, <1>10, <2>8, <2>9 DEF SymbolBytes, SymSize, parts
  <1>11. CASE im.class = 2
    <2>1. parts = <<n1, n4, n5, n6, n2, n7>>
      BY <1>8, <1>11
    <2>2. SymFields(2) = <<<<"name", 4>>, <<"info", 1>>, <<"other", 1>>, <<"shnxd", 2>>, <<"value", 8>>, <<"size", 8>>>>
      BY DEF SymFields
    <2>3. AddrSize(im.class) = 8
      BY <1>11, AddrFacts
    <2>4. parts \in [1 .. 6 -> Seq(Byte)]
      BY <1>9, <2>1
    <2>5. \A k \in 1 .. 6 : Len(parts[k]) = SymFields(2)[k][2]
      <3>0. /\ SymFields(2)[1][2] = 4 /\ SymFields(2)[2][2] = 1 /\ SymFields(2)[3][2] = 1
            /\ SymFields(2)[4][2] = 2 /\ SymFields(2)[5][2] = 8 /\ SymFields(2)[6][2] = 8
        BY <2>2
      <3>1. /\ Len(parts[1]) = 4 /\ Len(parts[2]) = 1 /\ Len(parts[3]) = 1
            /\ Len(parts[4]) = 2 /\ Len(parts[5]) = 8 /\ Len(parts[6]) = 8
        BY <1>9, <2>1, <2>3
      <3>2. \A k \in 1 .. 6 : k = 1 \/ k = 2 \/ k = 3 \/ k = 4 \/ k = 5 \/ k = 6
        OBVIOUS
      <3>3. QED
        BY <3>0, <3>1, <3>2
    <2>6. Sized(parts, SymFields(2)) /\ SymFields(2) \in Fields /\ SizeOf(SymFields(2)) = 24
      BY <2>4, <2>5, SymTable64 DEF Sized
    <2>7. parts[1] = n1 /\ parts[5] = n2 /\ parts[2] = n4
      BY <2>1
    <2>8. SymbolIs(im, s)
      BY <1>3, <1>4, <1>5, <1>7, <1>11, <2>6, <2>7 DEF SymbolIs, parts, n1, n2, n4
    <2>9. FlattenSeq(parts) \in Seq(Byte) /\ Len(FlattenSeq(parts)) = 24
      BY <2>6, PiecesWhole
    <2>10. QED
      BY <1>1, <1>11, <2>8, <2>9 DEF SymbolBytes, SymSize, parts
  <1>12. QED
    BY <1>6, <1>10, <1>11

(* The bodies of sections.                                                  *)
SymbolTable(im) == [i \in DOMAIN im.symbols |-> SymbolBytes(im, im.symbols[i])]

LEMMA SymbolTableFacts ==
    ASSUME NEW im, WellFormed(im)
    PROVE  /\ SymbolTable(im) \in [1 .. Len(im.symbols) -> Seq(Byte)] /\ Len(im.symbols) \in Nat
           /\ \A i \in 1 .. Len(im.symbols) :
                 SymbolTable(im)[i] = SymbolBytes(im, im.symbols[i]) /\ Len(SymbolTable(im)[i]) = SymSize(im.class)
           /\ FlattenSeq(SymbolTable(im)) \in Seq(Byte)
           /\ Len(FlattenSeq(SymbolTable(im))) = SymSize(im.class) * Len(im.symbols)
           /\ \A i \in 1 .. Len(im.symbols) :
                 Placed(FlattenSeq(SymbolTable(im)), SymSize(im.class) * (i - 1), SymbolBytes(im, im.symbols[i]))
  <1>1. im.symbols \in Seq(SymbolSet)
    BY ImageParts
  <1>2. PICK n \in Nat : n = Len(im.symbols) /\ DOMAIN im.symbols = 1 .. n
    BY <1>1
  <1>3. PICK ss : ss = SymbolTable(im)
    OBVIOUS
  <1>4. PICK c \in Nat : c = SymSize(im.class)
    BY DEF SymSize
  <1>5. \A i \in 1 .. n : ss[i] = SymbolBytes(im, im.symbols[i])
    BY <1>2, <1>3 DEF SymbolTable
  <1>6. \A i \in 1 .. n : ss[i] \in Seq(Byte) /\ Len(ss[i]) = c
    BY <1>2, <1>4, <1>5, SymbolFacts
  <1>7. ss \in [1 .. n -> Seq(Byte)]
    BY <1>2, <1>3, <1>6 DEF SymbolTable
  <1>8. FlattenSeq(ss) \in Seq(Byte) /\ Flattened(ss, n) = FlattenSeq(ss)
    BY <1>7, FlattenPrefixes
  <1>9. \A m \in 0 .. n : Len(Flattened(ss, m)) = c * m
    <2>1. \A i \in 1 .. n : Len(ss[i]) = c
      BY <1>6
    <2>2. EachLong(ss, n, c)
      BY <2>1 DEF EachLong
    <2>3. QED
      BY <1>7, <2>2, FlattenUniform
  <1>10. \A i \in 1 .. n : Placed(FlattenSeq(ss), c * (i - 1), ss[i])
    <2> TAKE i \in 1 .. n
    <2>1. PICK m \in 0 .. n : m = i - 1
      OBVIOUS
    <2>2. Placed(FlattenSeq(ss), Len(Flattened(ss, i - 1)), ss[i])
      BY <1>7, FlattenAt
    <2>3. QED
      BY <1>9, <2>1, <2>2
  <1>11. QED
    BY <1>2, <1>3, <1>4, <1>5, <1>6, <1>7, <1>8, <1>9, <1>10

LEMMA BodyFacts ==
    ASSUME NEW im, WellFormed(im), NEW s \in SectionSet
    PROVE  /\ BodyOf(im, s) \in Seq(Byte)
           /\ s.body = "symtab" => BodyOf(im, s) = FlattenSeq(SymbolTable(im))
           /\ s.body = "strtab" => BodyOf(im, s) = SymbolNames(im)
           /\ s.body = "shstrtab" =>
                 BodyOf(im, s) = IF im.defect = "unterminated" THEN Front(SectionNames(im)) ELSE SectionNames(im)
  <1>1. s.body \in {"symtab", "strtab", "shstrtab", "data", "nothing"}
    BY DEF SectionSet, Bodies
  <1>2. CASE s.body = "symtab"
    <2>1. BodyOf(im, s) = FlattenSeq(SymbolTable(im))
      BY <1>2 DEF BodyOf, SymbolTable
    <2>2. QED
      BY <1>2, <2>1, SymbolTableFacts
  <1>3. CASE s.body = "strtab"
    <2>1. BodyOf(im, s) = SymbolNames(im)
      BY <1>3 DEF BodyOf
    <2>2. QED
      BY <1>3, <2>1, SymbolTexts
  <1>4. CASE s.body = "shstrtab"
    <2>1. BodyOf(im, s) = IF im.defect = "unterminated" THEN Front(SectionNames(im)) ELSE SectionNames(im)
      BY <1>4 DEF BodyOf
    <2>2. SectionNames(im) \in Seq(Byte) /\ Front(SectionNames(im)) \in Seq(Byte)
      BY SectionTexts, FrontFacts
    <2>3. QED
      BY <1>4, <2>1, <2>2
  <1>5. CASE s.body = "data"
    <2>1. BodyOf(im, s) = <<9, 8, 7>>
      BY <1>5 DEF BodyOf
    <2>2. 9 \in Byte /\ 8 \in Byte /\ 7 \in Byte
      BY DEF Byte
    <2>3. <<9, 8, 7>> \in Seq(Byte)
      BY <2>2
    <2>4. QED
      BY <1>5, <2>1, <2>3
  <1>6. CASE s.body = "nothing"
    <2>1. BodyOf(im, s) = <<>>
      BY <1>6 DEF BodyOf
    <2>2. QED
      BY <1>6, <2>1
  <1>7. QED
    BY <1>1, <1>2, <1>3, <1>4, <1>5, <1>6

LEMMA SectionsAre ==
    ASSUME NEW im, WellFormed(im)
    PROVE  /\ Len(im.sections) \in Nat /\ Len(im.sections) > 0 /\ DOMAIN im.sections = 1 .. Len(im.sections)
           /\ \A i \in 1 .. Len(im.sections) : im.sections[i] \in SectionSet
  <1>1. im.sections \in Seq(SectionSet) /\ Len(im.sections) > 0
    BY ImageParts
  <1>2. QED
    BY <1>1

LEMMA SegmentsAre ==
    ASSUME NEW im, WellFormed(im)
    PROVE  /\ Len(im.segments) \in Nat /\ DOMAIN im.segments = 1 .. Len(im.segments)
           /\ \A i \in 1 .. Len(im.segments) : im.segments[i] \in 1 .. Len(im.sections)
  <1>1. PICK S : S = DOMAIN im.sections
    OBVIOUS
  <1>2. im.segments \in Seq(S)
    BY <1>1, ImageParts
  <1>3. QED
    BY <1>1, <1>2, SectionsAre

BodyTable(im) == [i \in DOMAIN im.sections |-> BodyOf(im, im.sections[i])]

LEMMA BodyTableFacts ==
    ASSUME NEW im, WellFormed(im)
    PROVE  /\ BodyTable(im) \in [1 .. Len(im.sections) -> Seq(Byte)]
           /\ \A i \in 1 .. Len(im.sections) :
                 BodyTable(im)[i] = BodyOf(im, im.sections[i]) /\ BodyOf(im, im.sections[i]) \in Seq(Byte)
  BY SectionsAre, BodyFacts DEF BodyTable

LEMMA Offsets ==
    ASSUME NEW im, WellFormed(im), NEW m \in 0 .. Len(im.sections)
    PROVE  OffsetOf(im, m + 1) = BodiesAt(im) + Len(Flattened(BodyTable(im), m))
  <1> DEFINE f == [j \in 1 .. m |-> BodyOf(im, im.sections[j])]
             g == Prefix(BodyTable(im), m)
  <1>1. \A j \in 1 .. m : j \in 1 .. Len(im.sections)
    BY SectionsAre
  <1>2. g = f
    BY <1>1, BodyTableFacts DEF Prefix
  <1>3. (m + 1) - 1 = m
    OBVIOUS
  <1>4. OffsetOf(im, m + 1) = BodiesAt(im) + Len(FlattenSeq(f))
    BY <1>3 DEF OffsetOf
  <1>5. QED
    BY <1>2, <1>4 DEF Flattened

LEMMA SizesAre ==
    ASSUME NEW im, WellFormed(im)
    PROVE  /\ EhdrSize(im) = (IF im.class = 1 THEN 52 ELSE 64) /\ EhdrSize(im) = SizeOf(EhdrFields(im.class))
           /\ PhdrSize(im) = (IF im.class = 1 THEN 32 ELSE 56) /\ PhdrSize(im) = SizeOf(PhdrFields(im.class))
           /\ ShdrSize(im) = (IF im.class = 1 THEN 40 ELSE 64) /\ ShdrSize(im) = SizeOf(ShdrFields(im.class))
           /\ SymSize(im.class) = SizeOf(SymFields(im.class))
           /\ BodiesAt(im) \in Nat /\ BodiesAt(im) = EhdrSize(im) + PhdrSize(im) * Len(im.segments)
  <1>1. im.class \in {1, 2}
    BY ImageParts
  <1>2. EhdrSize(im) = (IF im.class = 1 THEN 52 ELSE 64) /\ EhdrSize(im) = SizeOf(EhdrFields(im.class))
    BY <1>1, EhdrTable DEF EhdrSize
  <1>3. ShdrSize(im) = (IF im.class = 1 THEN 40 ELSE 64) /\ ShdrSize(im) = SizeOf(ShdrFields(im.class))
    BY <1>1, ShdrTable DEF ShdrSize
  <1>4. PhdrSize(im) = (IF im.class = 1 THEN 32 ELSE 56) /\ PhdrSize(im) = SizeOf(PhdrFields(im.class))
    BY <1>1, PhdrTable32, PhdrTable64 DEF PhdrSize
  <1>5. SymSize(im.class) = SizeOf(SymFields(im.class))
    BY <1>1, SymTable32, SymTable64 DEF SymSize
  <1>6. BodiesAt(im) \in Nat
    <2>1. PICK n \in Nat : n = Len(im.segments)
      BY SegmentsAre
    <2>2. PICK e \in Nat, p \in Nat : e = EhdrSize(im) /\ p = PhdrSize(im)
      BY <1>2, <1>4
    <2>3. e + p * n \in Nat
      OBVIOUS
    <2>4. QED
      BY <2>1, <2>2, <2>3 DEF BodiesAt
  <1>7. QED
    BY <1>2, <1>3, <1>4, <1>5, <1>6 DEF BodiesAt

(* Where bodies lie.                                                        *)
LEMMA OffsetFacts ==
    ASSUME NEW im, WellFormed(im)
    PROVE  /\ FlattenSeq(BodyTable(im)) \in Seq(Byte)
           /\ HeadersAt(im) = BodiesAt(im) + Len(FlattenSeq(BodyTable(im))) /\ HeadersAt(im) \in Nat
           /\ \A i \in 1 .. Len(im.sections) :
                 \E r \in Nat : /\ OffsetOf(im, i) = BodiesAt(im) + r
                                /\ Placed(FlattenSeq(BodyTable(im)), r, BodyOf(im, im.sections[i]))
                                /\ OffsetOf(im, i) \in Nat
                                /\ OffsetOf(im, i) + Len(BodyOf(im, im.sections[i])) <= HeadersAt(im)
  <1>1. PICK n \in Nat : n = Len(im.sections) /\ n > 0
    BY SectionsAre
  <1>2. PICK ss : ss = BodyTable(im)
    OBVIOUS
  <1>3. ss \in [1 .. n -> Seq(Byte)]
    BY <1>1, <1>2, BodyTableFacts
  <1>4. FlattenSeq(ss) \in Seq(Byte) /\ Flattened(ss, n) = FlattenSeq(ss)
        /\ \A m \in 0 .. n : Flattened(ss, m) \in Seq(Byte)
    BY <1>3, FlattenPrefixes
  <1>5. PICK b \in Nat : b = BodiesAt(im)
    BY SizesAre
  <1>6. HeadersAt(im) = b + Len(FlattenSeq(ss)) /\ HeadersAt(im) \in Nat
    <2>1. n \in 0 .. Len(im.sections)
      BY <1>1
    <2>2. OffsetOf(im, n + 1) = b + Len(Flattened(ss, n))
      BY <1>2, <1>5, <2>1, Offsets
    <2>3. QED
      BY <1>1, <1>4, <1>5, <2>2 DEF HeadersAt
  <1>7. ASSUME NEW i \in 1 .. n
        PROVE  \E r \in Nat : /\ OffsetOf(im, i) = b + r
                              /\ Placed(FlattenSeq(ss), r, BodyOf(im, im.sections[i]))
                              /\ OffsetOf(im, i) \in Nat
                              /\ OffsetOf(im, i) + Len(BodyOf(im, im.sections[i])) <= HeadersAt(im)
    <2>1. PICK m \in 0 .. n : m = i - 1 /\ m + 1 = i
      OBVIOUS
    <2>2. OffsetOf(im, i) = b + Len(Flattened(ss, m))
      BY <1>1, <1>2, <1>5, <2>1, Offsets
    <2>3. PICK r \in Nat : r = Len(Flattened(ss, m))
      BY <1>4
    <2>4. ss[i] = BodyOf(im, im.sections[i]) /\ ss[i] \in Seq(Byte)
      BY <1>1, <1>2, BodyTableFacts
    <2>5. Placed(FlattenSeq(ss), r, ss[i])
      BY <1>3, <2>1, <2>3, FlattenAt
    <2>6. r + Len(ss[i]) <= Len(FlattenSeq(ss)) /\ Len(ss[i]) \in Nat /\ Len(FlattenSeq(ss)) \in Nat
      BY <1>4, <2>4, <2>5 DEF Placed
    <2>7. OffsetOf(im, i) = b + r /\ OffsetOf(im, i) \in Nat
      BY <2>2, <2>3
    <2>8. OffsetOf(im, i) + Len(ss[i]) <= HeadersAt(im)
      <3>1. PICK l \in Nat, t \in Nat : l = Len(ss[i]) /\ t = Len(FlattenSeq(ss)) /\ r + l <= t
        BY <2>6
      <3>2. b + r + l <= b + t
        BY <1>5, <2>3, <3>1
      <3>3. QED
        BY <1>6, <2>7, <3>1, <3>2
    <2>9. QED
      BY <2>4, <2>5, <2>7, <2>8
  <1>8. QED
    BY <1>1, <1>2, <1>4, <1>5, <1>6, <1>7

(* Every number in a file is short.                                         *)
Small(n) == n \in Nat /\ n < 65536

LEMMA SmallBelow ==
    ASSUME NEW n, Small(n), NEW m \in Nat, m <= n
    PROVE  Small(m)
  BY DEF Small

LEMMA SmallConstants == /\ \A n \in {0, 1, 2, 3, 4, 5, 32, 40, 52, 56, 62, 64, 200, 300} : Small(n)
                        /\ \A n \in Short : Small(n)
  BY WordFacts DEF Small

NamePlace(im, i) ==
    LET s == im.sections[i]
    IN  IF s.named THEN PlaceIn(SectionNames(im), s.name)
        ELSE IF im.defect = "name" THEN 200 ELSE Len(SectionNames(im)) - 1 - Len(s.name)

LEMMA ImageNumbers ==
    ASSUME NEW im, WellFormed(im)
    PROVE  /\ Small(HeadersAt(im)) /\ Small(FileSize(im)) /\ Small(Len(im.segments)) /\ Small(Len(im.sections))
           /\ Small(Len(im.sections) - 1)
           /\ Small(EhdrSize(im)) /\ Small(PhdrSize(im)) /\ Small(ShdrSize(im))
           /\ FileSize(im) = HeadersAt(im) + ShdrSize(im) * Len(im.sections)
           /\ HeadersAt(im) < FileSize(im)
           /\ \A i \in 1 .. Len(im.sections) :
                 /\ Small(OffsetOf(im, i)) /\ Small(Len(BodyOf(im, im.sections[i])))
                 /\ Small(im.sections[i].type) /\ Small(im.sections[i].link)
  <1>1. PICK e \in Nat, p \in Nat, h \in Nat : /\ e = EhdrSize(im) /\ p = PhdrSize(im) /\ h = ShdrSize(im)
                                            /\ e > 0 /\ p > 0 /\ h > 0 /\ e <= 64 /\ p <= 64 /\ h <= 64
    BY SizesAre
  <1>2. PICK n \in Nat : n = Len(im.sections) /\ n > 0
    BY SectionsAre
  <1>3. PICK g \in Nat : g = Len(im.segments)
    BY SegmentsAre
  <1>4. PICK a \in Nat : a = HeadersAt(im)
    BY OffsetFacts
  <1>5. BodiesAt(im) = e + p * g /\ BodiesAt(im) \in Nat
    BY <1>1, <1>3, SizesAre
  <1>6. BodiesAt(im) <= a
    <2>1. PICK t \in Nat : t = Len(FlattenSeq(BodyTable(im)))
      BY OffsetFacts
    <2>2. a = BodiesAt(im) + t
      BY <1>4, <2>1, OffsetFacts
    <2>3. QED
      BY <1>5, <2>2
  <1>7. FileSize(im) = a + h * n
    BY <1>1, <1>2, <1>4 DEF FileSize
  <1>8. a + h * n \in Nat /\ a + h * n < 65536
    <2>1. h * n \in Nat
      BY <1>1, <1>2
    <2>2. FileSize(im) < 65536
      BY ImageParts
    <2>3. QED
      BY <1>4, <1>7, <2>1, <2>2
  <1>9. n <= h * n /\ g <= p * g /\ p * g \in Nat /\ h * n \in Nat
    BY <1>1
  <1>10. Small(FileSize(im)) /\ Small(a) /\ Small(n) /\ Small(n - 1) /\ Small(g) /\ a < a + h * n
    <2>1. Small(a + h * n)
      BY <1>8 DEF Small
    <2>2. a <= a + h * n /\ n <= a + h * n /\ a < a + h * n
      BY <1>2, <1>9
    <2>3. g <= a + h * n
      BY <1>5, <1>6, <1>9
    <2>4. n - 1 \in Nat /\ n - 1 <= n
      BY <1>2
    <2>5. Small(n)
      BY <2>1, <2>2, SmallBelow
    <2>6. QED
      BY <1>7, <2>1, <2>2, <2>3, <2>4, <2>5, SmallBelow
  <1>11. Small(e) /\ Small(p) /\ Small(h)
    BY <1>1, SmallConstants, SmallBelow
  <1>12. ASSUME NEW i \in 1 .. n
         PROVE  /\ Small(OffsetOf(im, i)) /\ Small(Len(BodyOf(im, im.sections[i])))
                /\ Small(im.sections[i].type) /\ Small(im.sections[i].link)
    <2>1. im.sections[i] \in SectionSet
      BY <1>2, SectionsAre
    <2>2. im.sections[i].type \in Short /\ im.sections[i].link \in Short
      BY <2>1 DEF SectionSet
    <2>3. PICK l \in Nat : l = Len(BodyOf(im, im.sections[i]))
      BY <2>1, BodyFacts
    <2>4. PICK o \in Nat : o = OffsetOf(im, i) /\ o + l <= a
      BY <1>2, <1>4, <2>3, OffsetFacts
    <2>5. Small(o) /\ Small(l)
      <3>1. o <= a /\ l <= a
        BY <2>4
      <3>2. QED
        BY <1>10, <3>1, SmallBelow
    <2>6. QED
      BY <2>2, <2>3, <2>4, <2>5, SmallConstants
  <1>13. QED
    BY <1>1, <1>2, <1>3, <1>4, <1>7, <1>10, <1>11, <1>12

(* A section's name lies behind its place, if it can be read.               *)
LEMMA NamePlaces ==
    ASSUME NEW im, WellFormed(im), NEW i \in 1 .. Len(im.sections), NEW s, s = im.sections[i]
    PROVE  /\ Small(NamePlace(im, i))
           /\ s.named => /\ Placed(SectionNames(im), NamePlace(im, i), Append(s.name, 0))
                         /\ im.defect = "unterminated" =>
                               NamePlace(im, i) + Len(Append(s.name, 0)) < Len(SectionNames(im))
           /\ ~s.named => \/ im.defect = "name" /\ Len(SectionNames(im)) <= NamePlace(im, i)
                          \/ /\ im.defect = "unterminated"
                             /\ NameAt(SectionNames(im), NamePlace(im, i), s.name, TRUE)
  <1>1. s \in SectionSet
    BY SectionsAre
  <1>2. PICK name \in Text : name = s.name
    BY <1>1 DEF SectionSet
  <1>3. PICK n \in Nat : n = Len(im.sections) /\ n > 0
    BY SectionsAre
  <1>4. PICK table \in Seq(Byte) : table = SectionNames(im) /\ Len(table) > 0
    BY SectionTexts
  <1>5. PICK t \in Nat : t = Len(table)
    BY <1>4
  <1>6. PICK k \in Nat : NameAt(table, k, name, i = n)
    BY <1>2, <1>3, <1>4, SectionTexts
  <1>7. PICK l \in Nat : l = Len(Append(name, 0)) /\ l = Len(name) + 1
    BY <1>2, TextFacts
  <1>8. Placed(table, k, Append(name, 0)) /\ k + l <= t /\ (i = n => k + l = t) /\ (i # n => k + l < t)
    <2>1. CASE i = n
      <3>1. Placed(table, k, Append(name, 0)) /\ k + Len(name) + 1 = Len(table)
        BY <1>6, <2>1 DEF NameAt
      <3>2. k + Len(name) + 1 = k + l
        BY <1>7, TextFacts
      <3>3. QED
        BY <1>5, <2>1, <3>1, <3>2
    <2>2. CASE i # n
      <3>1. Placed(table, k, Append(name, 0)) /\ k + Len(name) + 1 < Len(table)
        BY <1>6, <2>2 DEF NameAt
      <3>2. k + Len(name) + 1 = k + l
        BY <1>7, TextFacts
      <3>3. QED
        BY <1>5, <2>2, <3>1, <3>2
    <2>3. QED
      BY <2>1, <2>2
  <1>9. Small(t)
    <2>1. im.sections[n] \in SectionSet /\ im.sections[n].body = "shstrtab"
      <3>1. SectionsWellFormed(im)
        BY DEF WellFormed
      <3>2. QED
        BY <1>3, <3>1, SectionsAre DEF SectionsWellFormed
    <2>2. PICK b : b = BodyOf(im, im.sections[n]) /\ Small(Len(b))
      BY <1>3, ImageNumbers
    <2>3. b = IF im.defect = "unterminated" THEN Front(table) ELSE table
      BY <1>4, <2>1, <2>2, BodyFacts
    <2>4. t = Len(b) \/ t = Len(b) + 1
      BY <1>4, <1>5, <2>3, FrontFacts
    <2>5. Len(b) + 1 <= HeadersAt(im)
      <3>0. n \in 1 .. Len(im.sections)
        BY <1>3
      <3>1. PICK r \in Nat : /\ OffsetOf(im, n) = BodiesAt(im) + r /\ OffsetOf(im, n) \in Nat
                             /\ OffsetOf(im, n) + Len(BodyOf(im, im.sections[n])) <= HeadersAt(im)
        BY <3>0, OffsetFacts
      <3>2. PICK a \in Nat, x \in Nat : a = HeadersAt(im) /\ x = Len(b) /\ OffsetOf(im, n) + x <= a
        BY <2>2, <3>1, OffsetFacts DEF Small
      <3>3. BodiesAt(im) >= 1
        <4>1. PICK e \in Nat, p \in Nat : e = EhdrSize(im) /\ p = PhdrSize(im) /\ e > 0
          BY SizesAre
        <4>2. PICK g \in Nat : g = Len(im.segments)
          BY SegmentsAre
        <4>3. p * g \in Nat
          OBVIOUS
        <4>4. BodiesAt(im) = e + p * g
          BY <4>1, <4>2, SizesAre
        <4>5. QED
          BY <4>1, <4>3, <4>4
      <3>4. QED
        <4>1. BodiesAt(im) \in Nat
          BY SizesAre
        <4>2. x + 1 <= a
          BY <3>1, <3>2, <3>3, <4>1
        <4>3. QED
          BY <3>2, <4>2
    <2>6. QED
      <3>1. PICK a \in Nat : a = HeadersAt(im) /\ Small(a)
        BY ImageNumbers DEF Small
      <3>2. t <= a
        BY <2>2, <2>4, <2>5, <3>1 DEF Small
      <3>3. QED
        BY <3>1, <3>2, SmallBelow
  <1>10. CASE s.named
    <2>1. PICK p : p = NamePlace(im, i) /\ p = PlaceIn(table, name)
      BY <1>2, <1>4, <1>10 DEF NamePlace
    <2>2. p \in Nat /\ p <= k /\ Placed(table, p, Append(name, 0))
      BY <1>8, <2>1, PlaceInFacts
    <2>3. p <= t
      BY <1>8, <2>2
    <2>4. im.defect = "unterminated" => p + l < t
      <3>1. SUFFICES ASSUME im.defect = "unterminated" PROVE i # n
        BY <1>8, <2>2
      <3>2. SectionsWellFormed(im)
        BY DEF WellFormed
      <3>3. ~im.sections[n].named
        BY <1>3, <3>1, <3>2 DEF SectionsWellFormed
      <3>4. QED
        BY <1>10, <3>3
    <2>5. Small(p)
      BY <1>9, <2>2, <2>3, SmallBelow
    <2>6. QED
      BY <1>2, <1>4, <1>5, <1>7, <1>10, <2>1, <2>2, <2>4, <2>5
  <1>11. CASE ~s.named
    <2>1. \/ im.defect = "name" /\ t <= 200
          \/ im.defect = "unterminated" /\ i = n
      <3>1. SectionsWellFormed(im)
        BY DEF WellFormed
      <3>2. QED
        BY <1>3, <1>4, <1>5, <1>11, <3>1 DEF SectionsWellFormed
    <2>2. CASE im.defect = "name" /\ t <= 200
      <3>1. NamePlace(im, i) = 200
        BY <1>11, <2>2 DEF NamePlace
      <3>2. QED
        BY <1>4, <1>5, <1>11, <2>2, <3>1, SmallConstants, SMTT(30)
    <2>3. CASE im.defect = "unterminated" /\ i = n
      <3>1. NamePlace(im, i) = t - 1 - Len(name)
        BY <1>2, <1>4, <1>5, <1>11, <2>3 DEF NamePlace
      <3>2. t - 1 - Len(name) = k /\ k <= t
        <4>1. Len(name) \in Nat
          BY <1>2, TextFacts
        <4>2. QED
          BY <1>7, <1>8, <2>3, <4>1
      <3>3. Small(k)
        BY <1>9, <3>2, SmallBelow
      <3>4. NameAt(table, k, name, TRUE)
        BY <1>6, <2>3
      <3>5. QED
        BY <1>2, <1>4, <1>11, <2>3, <3>1, <3>2, <3>3, <3>4
    <2>4. QED
      BY <2>1, <2>2, <2>3
  <1>12. QED
    BY <1>10, <1>11

-------------------------------------------------------------------------------
(* Headers.                                                                 *)

IsPart(bs, size) == bs \in Seq(Byte) /\ Len(bs) = size

LEMMA PartsAre ==
    ASSUME NEW im, NEW bs, NEW n, NEW size, IsNumber(im, bs, n, size)
    PROVE  IsPart(bs, size)
  BY DEF IsNumber, IsPart

LEMMA NumberParts ==
    ASSUME NEW im, im.class \in {1, 2}, NEW n, Small(n)
    PROVE  /\ IsNumber(im, Number(im, n, 2), n, 2) /\ IsPart(Number(im, n, 2), 2)
           /\ IsNumber(im, Number(im, n, 4), n, 4) /\ IsPart(Number(im, n, 4), 4)
           /\ IsNumber(im, Wide(im, n), n, AddrSize(im.class)) /\ IsPart(Wide(im, n), AddrSize(im.class))
  BY NumbersAre, PartsAre DEF Small

LEMMA EhdrSized ==
    ASSUME NEW c \in {1, 2}, NEW a, a = AddrSize(c), 
           NEW p1, NEW p2, NEW p3, NEW p4, NEW p5, NEW p6, NEW p7,
           NEW p8, NEW p9, NEW p10, NEW p11, NEW p12, NEW p13, NEW p14,
           IsPart(p1, 16), IsPart(p2, 2), IsPart(p3, 2), IsPart(p4, 4),
           IsPart(p5, a), IsPart(p6, a), IsPart(p7, a), IsPart(p8, 4),
           IsPart(p9, 2), IsPart(p10, 2), IsPart(p11, 2), IsPart(p12, 2),
           IsPart(p13, 2), IsPart(p14, 2),
           NEW pieces, pieces = <<p1, p2, p3, p4, p5, p6, p7, p8, p9, p10, p11, p12, p13, p14>>
    PROVE  Sized(pieces, EhdrFields(c))
  <1> DEFINE fields == EhdrFields(c)
  <1>1. fields = <<<<"ident", 16>>, <<"type", 2>>, <<"machine", 2>>, <<"version", 4>>, <<"entry", a>>,
            <<"phoff", a>>, <<"shoff", a>>, <<"flags", 4>>, <<"ehsize", 2>>, <<"phentsize", 2>>,
            <<"phnum", 2>>, <<"shentsize", 2>>, <<"shnum", 2>>, <<"shstrndx", 2>>>>
    BY DEF EhdrFields
  <1>2. Len(fields) = 14
    BY <1>1
  <1>3. /\ fields[1][2] = 16 /\ fields[2][2] = 2 /\ fields[3][2] = 2 /\ fields[4][2] = 4 /\ fields[5][2] = a
        /\ fields[6][2] = a /\ fields[7][2] = a /\ fields[8][2] = 4 /\ fields[9][2] = 2 /\ fields[10][2] = 2
        /\ fields[11][2] = 2 /\ fields[12][2] = 2 /\ fields[13][2] = 2 /\ fields[14][2] = 2
    BY <1>1
  <1> HIDE DEF fields
  <1>4. /\ p1 \in Seq(Byte) /\ p2 \in Seq(Byte) /\ p3 \in Seq(Byte) /\ p4 \in Seq(Byte) /\ p5 \in Seq(Byte)
        /\ p6 \in Seq(Byte) /\ p7 \in Seq(Byte) /\ p8 \in Seq(Byte) /\ p9 \in Seq(Byte) /\ p10 \in Seq(Byte)
        /\ p11 \in Seq(Byte) /\ p12 \in Seq(Byte) /\ p13 \in Seq(Byte) /\ p14 \in Seq(Byte)
    BY DEF IsPart
  <1>5. pieces \in [1 .. 14 -> Seq(Byte)]
    BY <1>4
  <1>6. /\ pieces[1] = p1 /\ pieces[2] = p2 /\ pieces[3] = p3 /\ pieces[4] = p4 /\ pieces[5] = p5
        /\ pieces[6] = p6 /\ pieces[7] = p7 /\ pieces[8] = p8 /\ pieces[9] = p9 /\ pieces[10] = p10
        /\ pieces[11] = p11 /\ pieces[12] = p12 /\ pieces[13] = p13 /\ pieces[14] = p14
    OBVIOUS
  <1>7. /\ Len(pieces[1]) = fields[1][2] /\ Len(pieces[2]) = fields[2][2] /\ Len(pieces[3]) = fields[3][2]
        /\ Len(pieces[4]) = fields[4][2] /\ Len(pieces[5]) = fields[5][2] /\ Len(pieces[6]) = fields[6][2]
        /\ Len(pieces[7]) = fields[7][2] /\ Len(pieces[8]) = fields[8][2] /\ Len(pieces[9]) = fields[9][2]
        /\ Len(pieces[10]) = fields[10][2] /\ Len(pieces[11]) = fields[11][2] /\ Len(pieces[12]) = fields[12][2]
        /\ Len(pieces[13]) = fields[13][2] /\ Len(pieces[14]) = fields[14][2]
    BY <1>3, <1>6 DEF IsPart
  <1>8. \A k \in 1 .. 14 : \/ k = 1 \/ k = 2 \/ k = 3 \/ k = 4 \/ k = 5 \/ k = 6 \/ k = 7
                         \/ k = 8 \/ k = 9 \/ k = 10 \/ k = 11 \/ k = 12 \/ k = 13 \/ k = 14
    OBVIOUS
  <1> DEFINE Same(k) == Len(pieces[k]) = fields[k][2]
  <1>9. \A k \in 1 .. 14 : Same(k)
    <2>1. /\ Same(1) /\ Same(2) /\ Same(3) /\ Same(4) /\ Same(5) /\ Same(6) /\ Same(7)
          /\ Same(8) /\ Same(9) /\ Same(10) /\ Same(11) /\ Same(12) /\ Same(13) /\ Same(14)
      BY <1>7
    <2> HIDE DEF Same
    <2>2. QED
      BY <1>8, <2>1
  <1>10. QED
    BY <1>2, <1>5, <1>9 DEF Sized, fields

LEMMA ShdrSized ==
    ASSUME NEW c \in {1, 2}, NEW a, a = AddrSize(c), 
           NEW p1, NEW p2, NEW p3, NEW p4, NEW p5, NEW p6, NEW p7,
           NEW p8, NEW p9, NEW p10,
           IsPart(p1, 4), IsPart(p2, 4), IsPart(p3, a), IsPart(p4, a),
           IsPart(p5, a), IsPart(p6, a), IsPart(p7, 4), IsPart(p8, 4),
           IsPart(p9, a), IsPart(p10, a),
           NEW pieces, pieces = <<p1, p2, p3, p4, p5, p6, p7, p8, p9, p10>>
    PROVE  Sized(pieces, ShdrFields(c))
  <1> DEFINE fields == ShdrFields(c)
  <1>1. fields = <<<<"name", 4>>, <<"type", 4>>, <<"flags", a>>, <<"addr", a>>, <<"offset", a>>,
            <<"size", a>>, <<"link", 4>>, <<"info", 4>>, <<"addralign", a>>, <<"entsize", a>>>>
    BY DEF ShdrFields
  <1>2. Len(fields) = 10
    BY <1>1
  <1>3. /\ fields[1][2] = 4 /\ fields[2][2] = 4 /\ fields[3][2] = a /\ fields[4][2] = a /\ fields[5][2] = a
        /\ fields[6][2] = a /\ fields[7][2] = 4 /\ fields[8][2] = 4 /\ fields[9][2] = a /\ fields[10][2] = a
    BY <1>1
  <1> HIDE DEF fields
  <1>4. /\ p1 \in Seq(Byte) /\ p2 \in Seq(Byte) /\ p3 \in Seq(Byte) /\ p4 \in Seq(Byte) /\ p5 \in Seq(Byte)
        /\ p6 \in Seq(Byte) /\ p7 \in Seq(Byte) /\ p8 \in Seq(Byte) /\ p9 \in Seq(Byte) /\ p10 \in Seq(Byte)
    BY DEF IsPart
  <1>5. pieces \in [1 .. 10 -> Seq(Byte)]
    BY <1>4
  <1>6. /\ pieces[1] = p1 /\ pieces[2] = p2 /\ pieces[3] = p3 /\ pieces[4] = p4 /\ pieces[5] = p5
        /\ pieces[6] = p6 /\ pieces[7] = p7 /\ pieces[8] = p8 /\ pieces[9] = p9 /\ pieces[10] = p10
    OBVIOUS
  <1>7. /\ Len(pieces[1]) = fields[1][2] /\ Len(pieces[2]) = fields[2][2] /\ Len(pieces[3]) = fields[3][2]
        /\ Len(pieces[4]) = fields[4][2] /\ Len(pieces[5]) = fields[5][2] /\ Len(pieces[6]) = fields[6][2]
        /\ Len(pieces[7]) = fields[7][2] /\ Len(pieces[8]) = fields[8][2] /\ Len(pieces[9]) = fields[9][2]
        /\ Len(pieces[10]) = fields[10][2]
    BY <1>3, <1>6 DEF IsPart
  <1>8. \A k \in 1 .. 10 : \/ k = 1 \/ k = 2 \/ k = 3 \/ k = 4 \/ k = 5 \/ k = 6 \/ k = 7
                         \/ k = 8 \/ k = 9 \/ k = 10
    OBVIOUS
  <1> DEFINE Same(k) == Len(pieces[k]) = fields[k][2]
  <1>9. \A k \in 1 .. 10 : Same(k)
    <2>1. /\ Same(1) /\ Same(2) /\ Same(3) /\ Same(4) /\ Same(5) /\ Same(6) /\ Same(7)
          /\ Same(8) /\ Same(9) /\ Same(10)
      BY <1>7
    <2> HIDE DEF Same
    <2>2. QED
      BY <1>8, <2>1
  <1>10. QED
    BY <1>2, <1>5, <1>9 DEF Sized, fields

LEMMA PhdrSized32 ==
    ASSUME 
           NEW p1, NEW p2, NEW p3, NEW p4, NEW p5, NEW p6, NEW p7,
           NEW p8,
           IsPart(p1, 4), IsPart(p2, 4), IsPart(p3, 4), IsPart(p4, 4),
           IsPart(p5, 4), IsPart(p6, 4), IsPart(p7, 4), IsPart(p8, 4),
           NEW pieces, pieces = <<p1, p2, p3, p4, p5, p6, p7, p8>>
    PROVE  Sized(pieces, PhdrFields(1))
  <1> DEFINE fields == PhdrFields(1)
  <1>1. fields = <<<<"type", 4>>, <<"offset", 4>>, <<"vaddr", 4>>, <<"paddr", 4>>, <<"filesz", 4>>,
            <<"memsz", 4>>, <<"flags", 4>>, <<"align", 4>>>>
    BY DEF PhdrFields
  <1>2. Len(fields) = 8
    BY <1>1
  <1>3. /\ fields[1][2] = 4 /\ fields[2][2] = 4 /\ fields[3][2] = 4 /\ fields[4][2] = 4 /\ fields[5][2] = 4
        /\ fields[6][2] = 4 /\ fields[7][2] = 4 /\ fields[8][2] = 4
    BY <1>1
  <1> HIDE DEF fields
  <1>4. /\ p1 \in Seq(Byte) /\ p2 \in Seq(Byte) /\ p3 \in Seq(Byte) /\ p4 \in Seq(Byte) /\ p5 \in Seq(Byte)
        /\ p6 \in Seq(Byte) /\ p7 \in Seq(Byte) /\ p8 \in Seq(Byte)
    BY DEF IsPart
  <1>5. pieces \in [1 .. 8 -> Seq(Byte)]
    BY <1>4
  <1>6. /\ pieces[1] = p1 /\ pieces[2] = p2 /\ pieces[3] = p3 /\ pieces[4] = p4 /\ pieces[5] = p5
        /\ pieces[6] = p6 /\ pieces[7] = p7 /\ pieces[8] = p8
    OBVIOUS
  <1>7. /\ Len(pieces[1]) = fields[1][2] /\ Len(pieces[2]) = fields[2][2] /\ Len(pieces[3]) = fields[3][2]
        /\ Len(pieces[4]) = fields[4][2] /\ Len(pieces[5]) = fields[5][2] /\ Len(pieces[6]) = fields[6][2]
        /\ Len(pieces[7]) = fields[7][2] /\ Len(pieces[8]) = fields[8][2]
    BY <1>3, <1>6 DEF IsPart
  <1>8. \A k \in 1 .. 8 : \/ k = 1 \/ k = 2 \/ k = 3 \/ k = 4 \/ k = 5 \/ k = 6 \/ k = 7
                         \/ k = 8
    OBVIOUS
  <1> DEFINE Same(k) == Len(pieces[k]) = fields[k][2]
  <1>9. \A k \in 1 .. 8 : Same(k)
    <2>1. /\ Same(1) /\ Same(2) /\ Same(3) /\ Same(4) /\ Same(5) /\ Same(6) /\ Same(7)
          /\ Same(8)
      BY <1>7
    <2> HIDE DEF Same
    <2>2. QED
      BY <1>8, <2>1
  <1>10. QED
    BY <1>2, <1>5, <1>9 DEF Sized, fields

LEMMA PhdrSized64 ==
    ASSUME 
           NEW p1, NEW p2, NEW p3, NEW p4, NEW p5, NEW p6, NEW p7,
           NEW p8,
           IsPart(p1, 4), IsPart(p2, 4), IsPart(p3, 8), IsPart(p4, 8),
           IsPart(p5, 8), IsPart(p6, 8), IsPart(p7, 8), IsPart(p8, 8),
           NEW pieces, pieces = <<p1, p2, p3, p4, p5, p6, p7, p8>>
    PROVE  Sized(pieces, PhdrFields(2))
  <1> DEFINE fields == PhdrFields(2)
  <1>1. fields = <<<<"type", 4>>, <<"flags", 4>>, <<"offset", 8>>, <<"vaddr", 8>>, <<"paddr", 8>>,
            <<"filesz", 8>>, <<"memsz", 8>>, <<"align", 8>>>>
    BY DEF PhdrFields
  <1>2. Len(fields) = 8
    BY <1>1
  <1>3. /\ fields[1][2] = 4 /\ fields[2][2] = 4 /\ fields[3][2] = 8 /\ fields[4][2] = 8 /\ fields[5][2] = 8
        /\ fields[6][2] = 8 /\ fields[7][2] = 8 /\ fields[8][2] = 8
    BY <1>1
  <1> HIDE DEF fields
  <1>4. /\ p1 \in Seq(Byte) /\ p2 \in Seq(Byte) /\ p3 \in Seq(Byte) /\ p4 \in Seq(Byte) /\ p5 \in Seq(Byte)
        /\ p6 \in Seq(Byte) /\ p7 \in Seq(Byte) /\ p8 \in Seq(Byte)
    BY DEF IsPart
  <1>5. pieces \in [1 .. 8 -> Seq(Byte)]
    BY <1>4
  <1>6. /\ pieces[1] = p1 /\ pieces[2] = p2 /\ pieces[3] = p3 /\ pieces[4] = p4 /\ pieces[5] = p5
        /\ pieces[6] = p6 /\ pieces[7] = p7 /\ pieces[8] = p8
    OBVIOUS
  <1>7. /\ Len(pieces[1]) = fields[1][2] /\ Len(pieces[2]) = fields[2][2] /\ Len(pieces[3]) = fields[3][2]
        /\ Len(pieces[4]) = fields[4][2] /\ Len(pieces[5]) = fields[5][2] /\ Len(pieces[6]) = fields[6][2]
        /\ Len(pieces[7]) = fields[7][2] /\ Len(pieces[8]) = fields[8][2]
    BY <1>3, <1>6 DEF IsPart
  <1>8. \A k \in 1 .. 8 : \/ k = 1 \/ k = 2 \/ k = 3 \/ k = 4 \/ k = 5 \/ k = 6 \/ k = 7
                         \/ k = 8
    OBVIOUS
  <1> DEFINE Same(k) == Len(pieces[k]) = fields[k][2]
  <1>9. \A k \in 1 .. 8 : Same(k)
    <2>1. /\ Same(1) /\ Same(2) /\ Same(3) /\ Same(4) /\ Same(5) /\ Same(6) /\ Same(7)
          /\ Same(8)
      BY <1>7
    <2> HIDE DEF Same
    <2>2. QED
      BY <1>8, <2>1
  <1>10. QED
    BY <1>2, <1>5, <1>9 DEF Sized, fields

LEMMA IdentFacts ==
    ASSUME NEW im, WellFormed(im)
    PROVE  /\ IsPart(Ident(im), 16)
           /\ Ident(im)[1] = IF im.defect = "magic" THEN 126 ELSE 127
           /\ Ident(im)[2] = 69 /\ Ident(im)[3] = 76 /\ Ident(im)[4] = 70
           /\ Ident(im)[5] = IF im.defect = "class" THEN 3 ELSE im.class
           /\ Ident(im)[6] = IF im.defect = "order" THEN 0 ELSE im.order
           /\ Ident(im)[7] = IF im.defect = "version" THEN 0 ELSE 1
  <1>1. PICK a, b, c, d : /\ a = IF im.defect = "magic" THEN 126 ELSE 127
                          /\ b = IF im.defect = "class" THEN 3 ELSE im.class
                          /\ c = IF im.defect = "order" THEN 0 ELSE im.order
                          /\ d = IF im.defect = "version" THEN 0 ELSE 1
    OBVIOUS
  <1>2. Ident(im) = <<a, 69, 76, 70, b, c, d, 0, 0, 0, 0, 0, 0, 0, 0, 0>>
    BY <1>1 DEF Ident
  <1>3. a \in Byte /\ b \in Byte /\ c \in Byte /\ d \in Byte /\ 0 \in Byte /\ 69 \in Byte /\ 76 \in Byte /\ 70 \in Byte
    BY <1>1, ImageParts DEF Byte
  <1>4. Ident(im) \in Seq(Byte) /\ Len(Ident(im)) = 16
    BY <1>2, <1>3
  <1>5. QED
    BY <1>1, <1>2, <1>4 DEF IsPart

(* The parts of the file's header that are read.                            *)
EhdrIs(im) ==
    LET parts == EhdrParts(im)
        a == AddrSize(im.class)
        n == Len(im.sections)
    IN  /\ Sized(parts, EhdrFields(im.class))
        /\ parts[1] = Ident(im)
        /\ IsNumber(im, parts[4], IF im.defect = "objversion" THEN 2 ELSE 1, 4)
        /\ IsNumber(im, parts[6], EhdrSize(im), a) /\ IsNumber(im, parts[7], HeadersAt(im), a)
        /\ IsNumber(im, parts[10], PhdrSize(im), 2) /\ IsNumber(im, parts[11], Len(im.segments), 2)
        /\ IsNumber(im, parts[12], ShdrSize(im), 2) /\ IsNumber(im, parts[13], n, 2)
        /\ IsNumber(im, parts[14], IF im.defect = "index" THEN n ELSE n - 1, 2)

LEMMA EhdrFacts ==
    ASSUME NEW im, WellFormed(im)
    PROVE  EhdrIs(im) /\ Ehdr(im) \in Seq(Byte) /\ Len(Ehdr(im)) = EhdrSize(im)
  <1>1. PICK e, h, p, g, s, n, v, x, c :
           /\ e = EhdrSize(im) /\ h = HeadersAt(im) /\ p = PhdrSize(im) /\ g = Len(im.segments)
           /\ s = ShdrSize(im) /\ n = Len(im.sections) /\ c = im.class
           /\ v = (IF im.defect = "objversion" THEN 2 ELSE 1)
           /\ x = IF im.defect = "index" THEN n ELSE n - 1
    OBVIOUS
  <1>2. c \in {1, 2}
    BY <1>1, ImageParts
  <1>3. /\ Small(e) /\ Small(h) /\ Small(p) /\ Small(g) /\ Small(s) /\ Small(n) /\ Small(v) /\ Small(x)
        /\ Small(3) /\ Small(62) /\ Small(300) /\ Small(0)
    <2>1. Small(n) /\ Small(n - 1)
      BY <1>1, ImageNumbers
    <2>2. Small(x)
      BY <1>1, <2>1
    <2>3. Small(v)
      BY <1>1, SmallConstants
    <2>4. QED
      BY <1>1, <2>1, <2>2, <2>3, ImageNumbers, SmallConstants
  <1> DEFINE n1 == Ident(im)
             n2 == Number(im, 3, 2)
             n3 == Number(im, 62, 2)
             n4 == Number(im, v, 4)
             n5 == Wide(im, 300)
             n6 == Wide(im, e)
             n7 == Wide(im, h)
             n8 == Number(im, 0, 4)
             n9 == Number(im, e, 2)
             n10 == Number(im, p, 2)
             n11 == Number(im, g, 2)
             n12 == Number(im, s, 2)
             n13 == Number(im, n, 2)
             n14 == Number(im, x, 2)
             parts == EhdrParts(im)
             a == AddrSize(c)
  <1>4. parts = <<n1, n2, n3, n4, n5, n6, n7, n8, n9, n10, n11, n12, n13, n14>>
    BY <1>1 DEF EhdrParts
  <1>5. IsPart(n1, 16) /\ IsPart(n2, 2) /\ IsPart(n3, 2) /\ IsPart(n4, 4) /\ IsPart(n5, a) /\ IsPart(n6, a)
        /\ IsPart(n7, a) /\ IsPart(n8, 4) /\ IsPart(n9, 2) /\ IsPart(n10, 2) /\ IsPart(n11, 2)
        /\ IsPart(n12, 2) /\ IsPart(n13, 2) /\ IsPart(n14, 2)
    BY <1>1, <1>2, <1>3, IdentFacts, NumberParts
  <1>6. /\ IsNumber(im, n4, v, 4) /\ IsNumber(im, n6, e, a) /\ IsNumber(im, n7, h, a) /\ IsNumber(im, n10, p, 2)
        /\ IsNumber(im, n11, g, 2) /\ IsNumber(im, n12, s, 2) /\ IsNumber(im, n13, n, 2) /\ IsNumber(im, n14, x, 2)
    BY <1>1, <1>2, <1>3, NumberParts
  <1> HIDE DEF n1, n2, n3, n4, n5, n6, n7, n8, n9, n10, n11, n12, n13, n14, parts
  <1>7. Sized(parts, EhdrFields(c))
    BY <1>2, <1>4, <1>5, EhdrSized
  <1>8. /\ parts[1] = n1 /\ parts[4] = n4 /\ parts[6] = n6 /\ parts[7] = n7 /\ parts[10] = n10
        /\ parts[11] = n11 /\ parts[12] = n12 /\ parts[13] = n13 /\ parts[14] = n14
    BY <1>4
  <1>9. EhdrIs(im)
    BY <1>1, <1>6, <1>7, <1>8 DEF EhdrIs, parts, n1
  <1>10. EhdrFields(c) \in Fields
    BY <1>2, EhdrTable
  <1>11. FlattenSeq(parts) \in Seq(Byte) /\ Len(FlattenSeq(parts)) = SizeOf(EhdrFields(c))
    BY <1>7, <1>10, PiecesWhole
  <1>12. QED
    BY <1>1, <1>9, <1>11, SizesAre DEF Ehdr, parts

ShdrIs(im, i) ==
    LET parts == ShdrParts(im, i)
        s == im.sections[i]
        a == AddrSize(im.class)
    IN  /\ Sized(parts, ShdrFields(im.class))
        /\ IsNumber(im, parts[1], NamePlace(im, i), 4) /\ IsNumber(im, parts[2], s.type, 4)
        /\ IsNumber(im, parts[5], OffsetOf(im, i), a)
        /\ IsNumber(im, parts[6], IF s.type = 8 THEN 5 ELSE Len(BodyOf(im, s)), a)
        /\ IsNumber(im, parts[7], s.link, 4)

LEMMA ShdrFacts ==
    ASSUME NEW im, WellFormed(im), NEW i \in 1 .. Len(im.sections)
    PROVE  ShdrIs(im, i) /\ Shdr(im, i) \in Seq(Byte) /\ Len(Shdr(im, i)) = ShdrSize(im)
  <1>1. PICK s, p, t, o, l, k, c :
           /\ s = im.sections[i] /\ p = NamePlace(im, i) /\ t = s.type /\ o = OffsetOf(im, i)
           /\ l = (IF s.type = 8 THEN 5 ELSE Len(BodyOf(im, s))) /\ k = s.link /\ c = im.class
    OBVIOUS
  <1>2. c \in {1, 2}
    BY <1>1, ImageParts
  <1>3. Small(p) /\ Small(t) /\ Small(o) /\ Small(l) /\ Small(k) /\ Small(0) /\ Small(1)
    <2>1. Small(p)
      BY <1>1, NamePlaces
    <2>2. Small(Len(BodyOf(im, s))) /\ Small(t) /\ Small(o) /\ Small(k)
      BY <1>1, ImageNumbers
    <2>3. Small(5) /\ Small(0) /\ Small(1)
      BY SmallConstants
    <2>4. QED
      BY <1>1, <2>1, <2>2, <2>3
  <1> DEFINE n1 == Number(im, p, 4)
             n2 == Number(im, t, 4)
             n3 == Wide(im, 0)
             n4 == Wide(im, o)
             n5 == Wide(im, l)
             n6 == Number(im, k, 4)
             n7 == Number(im, 0, 4)
             n8 == Wide(im, 1)
             parts == ShdrParts(im, i)
             a == AddrSize(c)
  <1>4. parts = <<n1, n2, n3, n3, n4, n5, n6, n7, n8, n3>>
    <2>1. (IF s.named THEN PlaceIn(SectionNames(im), s.name)
           ELSE IF im.defect = "name" THEN 200 ELSE Len(SectionNames(im)) - 1 - Len(s.name)) = p
      BY <1>1 DEF NamePlace
    <2>2. QED
      BY <1>1, <2>1 DEF ShdrParts
  <1>5. IsPart(n1, 4) /\ IsPart(n2, 4) /\ IsPart(n3, a) /\ IsPart(n4, a) /\ IsPart(n5, a) /\ IsPart(n6, 4)
        /\ IsPart(n7, 4) /\ IsPart(n8, a)
    BY <1>1, <1>2, <1>3, NumberParts
  <1>6. /\ IsNumber(im, n1, p, 4) /\ IsNumber(im, n2, t, 4) /\ IsNumber(im, n4, o, a) /\ IsNumber(im, n5, l, a)
        /\ IsNumber(im, n6, k, 4)
    BY <1>1, <1>2, <1>3, NumberParts
  <1> HIDE DEF n1, n2, n3, n4, n5, n6, n7, n8, parts
  <1>7. Sized(parts, ShdrFields(c))
    BY <1>2, <1>4, <1>5, ShdrSized
  <1>8. parts[1] = n1 /\ parts[2] = n2 /\ parts[5] = n4 /\ parts[6] = n5 /\ parts[7] = n6
    BY <1>4
  <1>9. ShdrIs(im, i)
    BY <1>1, <1>6, <1>7, <1>8 DEF ShdrIs, parts
  <1>10. ShdrFields(c) \in Fields
    BY <1>2, ShdrTable
  <1>11. FlattenSeq(parts) \in Seq(Byte) /\ Len(FlattenSeq(parts)) = SizeOf(ShdrFields(c))
    BY <1>7, <1>10, PiecesWhole
  <1>12. QED
    BY <1>1, <1>9, <1>11, SizesAre DEF Shdr, parts

PhdrIs(im, i) ==
    LET parts == PhdrParts(im, i)
        s == im.segments[i]
        a == AddrSize(im.class)
    IN  /\ Sized(parts, PhdrFields(im.class))
        /\ IsNumber(im, parts[IF im.class = 1 THEN 2 ELSE 3], OffsetOf(im, s), a)
        /\ IsNumber(im, parts[IF im.class = 1 THEN 5 ELSE 6], Len(BodyOf(im, im.sections[s])), a)

LEMMA PhdrFacts ==
    ASSUME NEW im, WellFormed(im), NEW i \in 1 .. Len(im.segments)
    PROVE  PhdrIs(im, i) /\ Phdr(im, i) \in Seq(Byte) /\ Len(Phdr(im, i)) = PhdrSize(im)
  <1>1. PICK s, o, l, c :
           /\ s = im.segments[i] /\ o = OffsetOf(im, s) /\ l = Len(BodyOf(im, im.sections[s])) /\ c = im.class
    OBVIOUS
  <1>2. c \in {1, 2}
    BY <1>1, ImageParts
  <1>3. Small(o) /\ Small(l) /\ Small(1) /\ Small(5) /\ Small(300)
    <2>1. s \in 1 .. Len(im.sections)
      BY <1>1, SegmentsAre
    <2>2. QED
      <3>1. Small(OffsetOf(im, s)) /\ Small(Len(BodyOf(im, im.sections[s])))
        BY <2>1, ImageNumbers
      <3>2. Small(1) /\ Small(5) /\ Small(300)
        BY SmallConstants
      <3>3. QED
        BY <1>1, <3>1, <3>2
  <1> DEFINE n1 == Number(im, 1, 4)
             n2 == Number(im, 5, 4)
             n3 == Wide(im, o)
             n4 == Wide(im, 300)
             n5 == Wide(im, l)
             n6 == Wide(im, 1)
             parts == PhdrParts(im, i)
             a == AddrSize(c)
  <1>4. parts = IF c = 1 THEN <<n1, n3, n4, n4, n5, n5, n2, n6>> ELSE <<n1, n2, n3, n4, n4, n5, n5, n6>>
    BY <1>1 DEF PhdrParts
  <1>5. IsPart(n1, 4) /\ IsPart(n2, 4) /\ IsPart(n3, a) /\ IsPart(n4, a) /\ IsPart(n5, a) /\ IsPart(n6, a)
    BY <1>1, <1>2, <1>3, NumberParts
  <1>6. IsNumber(im, n3, o, a) /\ IsNumber(im, n5, l, a)
    BY <1>1, <1>2, <1>3, NumberParts
  <1> HIDE DEF n1, n2, n3, n4, n5, n6, parts
  <1>7. CASE c = 1
    <2>1. parts = <<n1, n3, n4, n4, n5, n5, n2, n6>>
      BY <1>4, <1>7
    <2>2. a = 4
      BY <1>7, AddrFacts
    <2>3. IsPart(n3, 4) /\ IsPart(n4, 4) /\ IsPart(n5, 4) /\ IsPart(n6, 4)
      BY <1>5, <2>2
    <2>4. Sized(parts, PhdrFields(1)) /\ PhdrFields(1) \in Fields
      BY <1>5, <2>1, <2>3, PhdrSized32, PhdrTable32
    <2>5. parts[2] = n3 /\ parts[5] = n5
      BY <2>1
    <2>6. PhdrIs(im, i)
      BY <1>1, <1>6, <1>7, <2>4, <2>5 DEF PhdrIs, parts
    <2>7. FlattenSeq(parts) \in Seq(Byte) /\ Len(FlattenSeq(parts)) = SizeOf(PhdrFields(1))
      BY <2>4, PiecesWhole
    <2>8. QED
      BY <1>1, <1>7, <2>6, <2>7, SizesAre DEF Phdr, parts
  <1>8. CASE c = 2
    <2>1. parts = <<n1, n2, n3, n4, n4, n5, n5, n6>>
      BY <1>4, <1>8
    <2>2. a = 8
      BY <1>8, AddrFacts
    <2>3. IsPart(n3, 8) /\ IsPart(n4, 8) /\ IsPart(n5, 8) /\ IsPart(n6, 8)
      BY <1>5, <2>2
    <2>4. Sized(parts, PhdrFields(2)) /\ PhdrFields(2) \in Fields
      BY <1>5, <2>1, <2>3, PhdrSized64, PhdrTable64
    <2>5. parts[3] = n3 /\ parts[6] = n5
      BY <2>1
    <2>6. PhdrIs(im, i)
      BY <1>1, <1>6, <1>8, <2>4, <2>5 DEF PhdrIs, parts
    <2>7. FlattenSeq(parts) \in Seq(Byte) /\ Len(FlattenSeq(parts)) = SizeOf(PhdrFields(2))
      BY <2>4, PiecesWhole
    <2>8. PhdrSize(im) = SizeOf(PhdrFields(2))
      BY <1>1, <1>8, SizesAre
    <2>9. QED
      BY <1>1, <1>8, <2>6, <2>7, <2>8 DEF Phdr, parts
  <1>9. QED
    BY <1>2, <1>7, <1>8

-------------------------------------------------------------------------------
(* Files.                                                                   *)

LEMMA Joined ==
    ASSUME NEW S, NEW p \in Seq(S), NEW q \in Seq(S)
    PROVE  p \o q \in Seq(S) /\ Len(p \o q) = Len(p) + Len(q)
  OBVIOUS

IsFour(w, a, b, c, d) == w = a \o b \o c \o d

LEMMA PlacedInFour ==
    ASSUME NEW S, NEW a \in Seq(S), NEW b \in Seq(S), NEW c \in Seq(S), NEW d \in Seq(S),
           NEW w, IsFour(w, a, b, c, d)
    PROVE  /\ w \in Seq(S) /\ Len(w) = Len(a) + Len(b) + Len(c) + Len(d)
           /\ Placed(w, 0, a) /\ Placed(w, Len(a), b) /\ Placed(w, Len(a) + Len(b), c)
           /\ Placed(w, Len(a) + Len(b) + Len(c), d)
  <1>1. PICK p : p = a \o b
    OBVIOUS
  <1>2. p \in Seq(S) /\ Len(p) = Len(a) + Len(b) /\ Placed(p, 0, a) /\ Placed(p, Len(a), b)
    BY <1>1, Joined, PlacedInBoth
  <1>3. PICK q : q = p \o c
    OBVIOUS
  <1>4. q \in Seq(S) /\ Len(q) = Len(p) + Len(c)
    BY <1>2, <1>3, Joined
  <1>5. Placed(q, 0, p) /\ Placed(q, Len(p), c)
    BY <1>2, <1>3, PlacedInBoth
  <1>6. w = q \o d /\ w \in Seq(S) /\ Len(w) = Len(q) + Len(d)
    <2>1. w = q \o d
      BY <1>1, <1>3 DEF IsFour
    <2>2. QED
      BY <1>4, <2>1, Joined
  <1>7. Placed(w, 0, q) /\ Placed(w, Len(q), d)
    BY <1>4, <1>6, PlacedInBoth
  <1>8. PICK la \in Nat, lb \in Nat, lc \in Nat, ld \in Nat : la = Len(a) /\ lb = Len(b) /\ lc = Len(c) /\ ld = Len(d)
    OBVIOUS
  <1>9. Placed(w, 0 + 0, p) /\ Placed(w, 0 + Len(p), c)
    BY <1>2, <1>4, <1>5, <1>6, <1>7, PlacedInPart
  <1>10. 0 + 0 = 0 /\ 0 + Len(p) = la + lb /\ 0 + la = la /\ Len(q) = la + lb + lc
    BY <1>2, <1>4, <1>8
  <1>11. Placed(w, 0, p) /\ Placed(w, la + lb, c) /\ Placed(w, la + lb + lc, d)
    BY <1>7, <1>9, <1>10
  <1>12. Placed(w, 0 + 0, a) /\ Placed(w, 0 + Len(a), b)
    BY <1>2, <1>6, <1>11, PlacedInPart
  <1>13. Placed(w, 0, a) /\ Placed(w, la, b)
    BY <1>8, <1>10, <1>12
  <1>14. Len(w) = la + lb + lc + ld
    BY <1>6, <1>8, <1>10
  <1>15. QED
    BY <1>6, <1>8, <1>11, <1>13, <1>14

(* A part of equal parts.                                                   *)
LEMMA UniformParts ==
    ASSUME NEW S, NEW n \in Nat, NEW ss \in [1 .. n -> Seq(S)], NEW c \in Nat, EachLong(ss, n, c)
    PROVE  /\ FlattenSeq(ss) \in Seq(S) /\ Len(FlattenSeq(ss)) = c * n
           /\ \A i \in 1 .. n : Placed(FlattenSeq(ss), c * (i - 1), ss[i])
  <1>1. FlattenSeq(ss) \in Seq(S) /\ Flattened(ss, n) = FlattenSeq(ss)
    BY FlattenPrefixes
  <1>2. \A m \in 0 .. n : Len(Flattened(ss, m)) = c * m
    BY FlattenUniform
  <1>3. ASSUME NEW i \in 1 .. n PROVE Placed(FlattenSeq(ss), c * (i - 1), ss[i])
    <2>1. PICK m \in 0 .. n : m = i - 1
      OBVIOUS
    <2>2. Placed(FlattenSeq(ss), Len(Flattened(ss, i - 1)), ss[i])
      BY FlattenAt
    <2>3. QED
      BY <1>2, <2>1, <2>2
  <1>4. QED
    BY <1>1, <1>2, <1>3

PhdrsOf(im) == [i \in DOMAIN im.segments |-> Phdr(im, i)]
ShdrsOf(im) == [i \in DOMAIN im.sections |-> Shdr(im, i)]

LEMMA HeaderTables ==
    ASSUME NEW im, WellFormed(im)
    PROVE  /\ FlattenSeq(PhdrsOf(im)) \in Seq(Byte)
           /\ Len(FlattenSeq(PhdrsOf(im))) = PhdrSize(im) * Len(im.segments)
           /\ \A i \in 1 .. Len(im.segments) :
                 Placed(FlattenSeq(PhdrsOf(im)), PhdrSize(im) * (i - 1), Phdr(im, i))
           /\ FlattenSeq(ShdrsOf(im)) \in Seq(Byte)
           /\ Len(FlattenSeq(ShdrsOf(im))) = ShdrSize(im) * Len(im.sections)
           /\ \A i \in 1 .. Len(im.sections) :
                 Placed(FlattenSeq(ShdrsOf(im)), ShdrSize(im) * (i - 1), Shdr(im, i))
  <1>1. PICK p \in Nat, s \in Nat : p = PhdrSize(im) /\ s = ShdrSize(im)
    BY SizesAre
  <1>2. PICK g \in Nat, n \in Nat : /\ g = Len(im.segments) /\ DOMAIN im.segments = 1 .. g
                                  /\ n = Len(im.sections) /\ DOMAIN im.sections = 1 .. n
    BY SectionsAre, SegmentsAre
  <1>3. PICK ps, hs : ps = PhdrsOf(im) /\ hs = ShdrsOf(im)
    OBVIOUS
  <1>4. ps \in [1 .. g -> Seq(Byte)] /\ EachLong(ps, g, p) /\ \A i \in 1 .. g : ps[i] = Phdr(im, i)
    BY <1>1, <1>2, <1>3, PhdrFacts DEF PhdrsOf, EachLong
  <1>5. hs \in [1 .. n -> Seq(Byte)] /\ EachLong(hs, n, s) /\ \A i \in 1 .. n : hs[i] = Shdr(im, i)
    BY <1>1, <1>2, <1>3, ShdrFacts DEF ShdrsOf, EachLong
  <1>6. /\ FlattenSeq(ps) \in Seq(Byte) /\ Len(FlattenSeq(ps)) = p * g
        /\ \A i \in 1 .. g : Placed(FlattenSeq(ps), p * (i - 1), ps[i])
    BY <1>4, UniformParts
  <1>7. /\ FlattenSeq(hs) \in Seq(Byte) /\ Len(FlattenSeq(hs)) = s * n
        /\ \A i \in 1 .. n : Placed(FlattenSeq(hs), s * (i - 1), hs[i])
    BY <1>5, UniformParts
  <1>8. QED
    BY <1>1, <1>2, <1>3, <1>4, <1>5, <1>6, <1>7

(* Where the parts of a file lie.                                           *)
WholeIs(im) ==
    /\ Whole(im) \in Seq(Byte) /\ Len(Whole(im)) = FileSize(im)
    /\ Placed(Whole(im), 0, Ehdr(im))
    /\ \A i \in 1 .. Len(im.segments) : Placed(Whole(im), EhdrSize(im) + PhdrSize(im) * (i - 1), Phdr(im, i))
    /\ \A i \in 1 .. Len(im.sections) :
          /\ Placed(Whole(im), OffsetOf(im, i), BodyOf(im, im.sections[i]))
          /\ Placed(Whole(im), HeadersAt(im) + ShdrSize(im) * (i - 1), Shdr(im, i))

LEMMA WholeFacts == ASSUME NEW im, WellFormed(im) PROVE WholeIs(im)
  <1>1. PICK e \in Nat, p \in Nat, s \in Nat : e = EhdrSize(im) /\ p = PhdrSize(im) /\ s = ShdrSize(im)
    BY SizesAre
  <1>2. PICK g \in Nat, n \in Nat : g = Len(im.segments) /\ n = Len(im.sections)
    BY SectionsAre, SegmentsAre
  <1>3. PICK A, P, B, H, w : /\ A = Ehdr(im) /\ P = FlattenSeq(PhdrsOf(im))
                             /\ B = FlattenSeq(BodyTable(im)) /\ H = FlattenSeq(ShdrsOf(im)) /\ w = Whole(im)
    OBVIOUS
  <1>4. IsFour(w, A, P, B, H)
    BY <1>3 DEF Whole, PhdrsOf, BodyTable, ShdrsOf, IsFour
  <1>5. A \in Seq(Byte) /\ Len(A) = e /\ P \in Seq(Byte) /\ Len(P) = p * g
    BY <1>1, <1>2, <1>3, EhdrFacts, HeaderTables
  <1>6. B \in Seq(Byte) /\ H \in Seq(Byte) /\ Len(H) = s * n
    BY <1>1, <1>2, <1>3, OffsetFacts, HeaderTables
  <1>7. PICK b \in Nat, a \in Nat, f \in Nat : b = BodiesAt(im) /\ a = HeadersAt(im) /\ f = Len(B)
    BY <1>6, SizesAre, OffsetFacts
  <1>8. PICK pg \in Nat, sn \in Nat : pg = p * g /\ sn = s * n
    BY <1>1, <1>2
  <1>9. b = e + pg /\ a = b + f /\ FileSize(im) = a + sn
    <2>1. b = e + pg
      BY <1>1, <1>2, <1>7, <1>8, SizesAre
    <2>2. a = b + f
      BY <1>3, <1>7, OffsetFacts
    <2>3. FileSize(im) = a + sn
      BY <1>1, <1>2, <1>7, <1>8, ImageNumbers
    <2>4. QED
      BY <2>1, <2>2, <2>3
  <1>10. /\ w \in Seq(Byte) /\ Len(w) = Len(A) + Len(P) + Len(B) + Len(H)
         /\ Placed(w, 0, A) /\ Placed(w, Len(A), P) /\ Placed(w, Len(A) + Len(P), B)
         /\ Placed(w, Len(A) + Len(P) + Len(B), H)
    BY <1>4, <1>5, <1>6, PlacedInFour
  <1>11. Len(w) = FileSize(im) /\ Placed(w, e, P) /\ Placed(w, b, B) /\ Placed(w, a, H)
    BY <1>5, <1>6, <1>7, <1>8, <1>9, <1>10
  <1>12. ASSUME NEW i \in 1 .. g PROVE Placed(w, e + p * (i - 1), Phdr(im, i))
    <2>1. Placed(P, p * (i - 1), Phdr(im, i)) /\ Phdr(im, i) \in Seq(Byte)
      BY <1>1, <1>2, <1>3, HeaderTables, PhdrFacts
    <2>2. QED
      BY <1>5, <1>10, <1>11, <2>1, PlacedInPart
  <1>13. ASSUME NEW i \in 1 .. n PROVE Placed(w, a + s * (i - 1), Shdr(im, i))
    <2>1. Placed(H, s * (i - 1), Shdr(im, i)) /\ Shdr(im, i) \in Seq(Byte)
      BY <1>1, <1>2, <1>3, HeaderTables, ShdrFacts
    <2>2. QED
      BY <1>6, <1>10, <1>11, <2>1, PlacedInPart
  <1>14. ASSUME NEW i \in 1 .. n PROVE Placed(w, OffsetOf(im, i), BodyOf(im, im.sections[i]))
    <2>1. PICK r \in Nat : OffsetOf(im, i) = b + r /\ Placed(B, r, BodyOf(im, im.sections[i]))
      BY <1>2, <1>3, <1>7, OffsetFacts
    <2>2. BodyOf(im, im.sections[i]) \in Seq(Byte)
      BY <1>2, BodyTableFacts
    <2>3. Placed(w, b + r, BodyOf(im, im.sections[i]))
      BY <1>6, <1>10, <1>11, <2>1, <2>2, PlacedInPart
    <2>4. QED
      BY <2>1, <2>3
  <1>15. QED
    BY <1>1, <1>2, <1>3, <1>7, <1>10, <1>11, <1>12, <1>13, <1>14 DEF WholeIs

LEMMA WrittenFacts ==
    ASSUME NEW im, WellFormed(im)
    PROVE  /\ Written(im) \in Seq(Byte) /\ Placed(Written(im), 0, Ehdr(im))
           /\ im.defect # "truncated" => Written(im) = Whole(im)
           /\ im.defect = "truncated" => Len(Written(im)) = FileSize(im) - 1
  <1>1. Whole(im) \in Seq(Byte) /\ Len(Whole(im)) = FileSize(im) /\ Placed(Whole(im), 0, Ehdr(im))
    BY WholeFacts DEF WholeIs
  <1>2. 0 + Len(Ehdr(im)) < Len(Whole(im)) /\ Len(Whole(im)) > 0
    <2>1. PICK e \in Nat, p \in Nat, g \in Nat, a \in Nat, f \in Nat :
             /\ e = EhdrSize(im) /\ p = PhdrSize(im) /\ g = Len(im.segments) /\ a = HeadersAt(im) /\ f = FileSize(im)
             /\ a < f
      <3>1. EhdrSize(im) \in Nat /\ PhdrSize(im) \in Nat
        BY SizesAre
      <3>2. HeadersAt(im) \in Nat /\ FileSize(im) \in Nat /\ HeadersAt(im) < FileSize(im)
        BY ImageNumbers DEF Small
      <3>3. QED
        BY <3>1, <3>2, SegmentsAre
    <2>2. PICK q \in Nat : BodiesAt(im) = e + q
      <3>1. p * g \in Nat
        BY <2>1
      <3>2. BodiesAt(im) = e + p * g
        BY <2>1, SizesAre
      <3>3. QED
        BY <3>1, <3>2
    <2>3. PICK t \in Nat : a = BodiesAt(im) + t
      <3>1. Len(FlattenSeq(BodyTable(im))) \in Nat
        BY OffsetFacts
      <3>2. QED
        BY <2>1, <3>1, OffsetFacts
    <2>4. e <= a
      BY <2>1, <2>2, <2>3
    <2>5. QED
      BY <1>1, <2>1, <2>4, EhdrFacts
  <1>3. Front(Whole(im)) \in Seq(Byte) /\ Len(Front(Whole(im))) = Len(Whole(im)) - 1
    BY <1>1, <1>2, FrontFacts
  <1>4. Placed(Front(Whole(im)), 0, Ehdr(im))
    BY <1>1, <1>2, EhdrFacts, PlacedInFront
  <1>5. QED
    BY <1>1, <1>3, <1>4 DEF Written

-------------------------------------------------------------------------------
(* Reading headers.                                                         *)

LEMMA EhdrNames ==
    ASSUME NEW c \in {1, 2}, NEW a, a = AddrSize(c)
    PROVE  /\ IsField(EhdrFields(c), 4, "version", 4) /\ IsField(EhdrFields(c), 6, "phoff", a)
           /\ IsField(EhdrFields(c), 7, "shoff", a) /\ IsField(EhdrFields(c), 10, "phentsize", 2)
           /\ IsField(EhdrFields(c), 11, "phnum", 2) /\ IsField(EhdrFields(c), 12, "shentsize", 2)
           /\ IsField(EhdrFields(c), 13, "shnum", 2) /\ IsField(EhdrFields(c), 14, "shstrndx", 2)
  BY DEF EhdrFields, IsField

LEMMA ShdrNames ==
    ASSUME NEW c \in {1, 2}, NEW a, a = AddrSize(c)
    PROVE  /\ IsField(ShdrFields(c), 1, "name", 4) /\ IsField(ShdrFields(c), 2, "type", 4)
           /\ IsField(ShdrFields(c), 5, "offset", a) /\ IsField(ShdrFields(c), 6, "size", a)
           /\ IsField(ShdrFields(c), 7, "link", 4)
  BY DEF ShdrFields, IsField

LEMMA PhdrNames ==
    /\ IsField(PhdrFields(1), 2, "offset", 4) /\ IsField(PhdrFields(1), 5, "filesz", 4)
    /\ IsField(PhdrFields(2), 3, "offset", 8) /\ IsField(PhdrFields(2), 6, "filesz", 8)
  BY DEF PhdrFields, IsField

LEMMA SymNames ==
    /\ IsField(SymFields(1), 1, "name", 4) /\ IsField(SymFields(1), 2, "value", 4) /\ IsField(SymFields(1), 4, "info", 1)
    /\ IsField(SymFields(2), 1, "name", 4) /\ IsField(SymFields(2), 5, "value", 8) /\ IsField(SymFields(2), 2, "info", 1)
  BY DEF SymFields, IsField

(* What the file's header holds.                                            *)
EhdrHolds(h, im) ==
    /\ HasField(h, "version", IF im.defect = "objversion" THEN 2 ELSE 1)
    /\ HasField(h, "phoff", EhdrSize(im)) /\ HasField(h, "shoff", HeadersAt(im))
    /\ HasField(h, "phentsize", PhdrSize(im)) /\ HasField(h, "phnum", Len(im.segments))
    /\ HasField(h, "shentsize", ShdrSize(im)) /\ HasField(h, "shnum", Len(im.sections))
    /\ HasField(h, "shstrndx", IF im.defect = "index" THEN Len(im.sections) ELSE Len(im.sections) - 1)

LEMMA EhdrRead ==
    ASSUME NEW im, WellFormed(im), bytes = Written(im)
    PROVE  EhdrHolds(Header(EhdrFields(im.class), 0, im.order), im)
  <1>1. PICK c \in {1, 2} : c = im.class
    BY ImageParts
  <1>2. PICK a : a = AddrSize(c)
    OBVIOUS
  <1>3. PICK fields \in Fields : fields = EhdrFields(c) /\ NamesDiffer(fields) /\ Len(fields) = 14
    BY EhdrTable
  <1>4. PICK pieces : pieces = EhdrParts(im)
    OBVIOUS
  <1>5. /\ Sized(pieces, fields)
        /\ IsNumber(im, pieces[4], IF im.defect = "objversion" THEN 2 ELSE 1, 4)
        /\ IsNumber(im, pieces[6], EhdrSize(im), a) /\ IsNumber(im, pieces[7], HeadersAt(im), a)
        /\ IsNumber(im, pieces[10], PhdrSize(im), 2) /\ IsNumber(im, pieces[11], Len(im.segments), 2)
        /\ IsNumber(im, pieces[12], ShdrSize(im), 2) /\ IsNumber(im, pieces[13], Len(im.sections), 2)
        /\ IsNumber(im, pieces[14], IF im.defect = "index" THEN Len(im.sections) ELSE Len(im.sections) - 1, 2)
    BY <1>1, <1>2, <1>3, <1>4, EhdrFacts DEF EhdrIs
  <1>6. bytes \in Seq(Byte) /\ Placed(bytes, 0, FlattenSeq(pieces))
    BY <1>4, WrittenFacts DEF Ehdr
  <1>7. im.order \in {1, 2}
    BY ImageParts
  <1>8. /\ IsField(fields, 4, "version", 4) /\ IsField(fields, 6, "phoff", a)
        /\ IsField(fields, 7, "shoff", a) /\ IsField(fields, 10, "phentsize", 2)
        /\ IsField(fields, 11, "phnum", 2) /\ IsField(fields, 12, "shentsize", 2)
        /\ IsField(fields, 13, "shnum", 2) /\ IsField(fields, 14, "shstrndx", 2)
    BY <1>2, <1>3, EhdrNames
  <1>9. HeaderAt(fields, 0, pieces) /\ Len(fields) \in Nat
    BY <1>3, <1>5, <1>6, <1>7 DEF HeaderAt, Fields
  <1>10. /\ NumberIn(im, fields, pieces, "version", IF im.defect = "objversion" THEN 2 ELSE 1)
         /\ NumberIn(im, fields, pieces, "phoff", EhdrSize(im))
         /\ NumberIn(im, fields, pieces, "shoff", HeadersAt(im))
         /\ NumberIn(im, fields, pieces, "phentsize", PhdrSize(im))
         /\ NumberIn(im, fields, pieces, "phnum", Len(im.segments))
         /\ NumberIn(im, fields, pieces, "shentsize", ShdrSize(im))
         /\ NumberIn(im, fields, pieces, "shnum", Len(im.sections))
         /\ NumberIn(im, fields, pieces, "shstrndx", IF im.defect = "index" THEN Len(im.sections) ELSE Len(im.sections) - 1)
    BY <1>3, <1>5, <1>7, <1>8 DEF NumberIn
  <1>11. /\ HasField(Header(fields, 0, im.order), "version", IF im.defect = "objversion" THEN 2 ELSE 1)
         /\ HasField(Header(fields, 0, im.order), "phoff", EhdrSize(im))
         /\ HasField(Header(fields, 0, im.order), "shoff", HeadersAt(im))
         /\ HasField(Header(fields, 0, im.order), "phentsize", PhdrSize(im))
         /\ HasField(Header(fields, 0, im.order), "phnum", Len(im.segments))
         /\ HasField(Header(fields, 0, im.order), "shentsize", ShdrSize(im))
         /\ HasField(Header(fields, 0, im.order), "shnum", Len(im.sections))
         /\ HasField(Header(fields, 0, im.order), "shstrndx", IF im.defect = "index" THEN Len(im.sections) ELSE Len(im.sections) - 1)
    BY <1>9, <1>10, HeaderReads
  <1>12. QED
    BY <1>1, <1>3, <1>11 DEF EhdrHolds

(* What a section's header holds.                                           *)
ShdrHolds(h, im, i) ==
    LET s == im.sections[i]
    IN  /\ HasField(h, "name", NamePlace(im, i)) /\ HasField(h, "type", s.type)
        /\ HasField(h, "offset", OffsetOf(im, i))
        /\ HasField(h, "size", IF s.type = 8 THEN 5 ELSE Len(BodyOf(im, s)))
        /\ HasField(h, "link", s.link)

LEMMA ShdrRead ==
    ASSUME NEW im, WellFormed(im), bytes = Whole(im), NEW i \in 1 .. Len(im.sections),
           NEW pos \in Nat, pos = HeadersAt(im) + ShdrSize(im) * (i - 1)
    PROVE  ShdrHolds(Header(ShdrFields(im.class), pos, im.order), im, i)
  <1>1. PICK c \in {1, 2} : c = im.class
    BY ImageParts
  <1>2. PICK a : a = AddrSize(c)
    OBVIOUS
  <1>3. PICK fields \in Fields : fields = ShdrFields(c) /\ NamesDiffer(fields) /\ Len(fields) = 10
    BY ShdrTable
  <1>4. PICK pieces : pieces = ShdrParts(im, i)
    OBVIOUS
  <1>5. /\ Sized(pieces, fields)
        /\ IsNumber(im, pieces[1], NamePlace(im, i), 4) /\ IsNumber(im, pieces[2], im.sections[i].type, 4)
        /\ IsNumber(im, pieces[5], OffsetOf(im, i), a)
        /\ IsNumber(im, pieces[6], IF im.sections[i].type = 8 THEN 5 ELSE Len(BodyOf(im, im.sections[i])), a)
        /\ IsNumber(im, pieces[7], im.sections[i].link, 4)
    BY <1>1, <1>2, <1>3, <1>4, ShdrFacts DEF ShdrIs
  <1>6. bytes \in Seq(Byte) /\ Placed(bytes, pos, FlattenSeq(pieces))
    BY <1>4, WholeFacts DEF WholeIs, Shdr
  <1>7. im.order \in {1, 2}
    BY ImageParts
  <1>8. /\ IsField(fields, 1, "name", 4) /\ IsField(fields, 2, "type", 4) /\ IsField(fields, 5, "offset", a)
        /\ IsField(fields, 6, "size", a) /\ IsField(fields, 7, "link", 4)
    BY <1>2, <1>3, ShdrNames
  <1>9. HeaderAt(fields, pos, pieces) /\ Len(fields) \in Nat
    BY <1>3, <1>5, <1>6, <1>7 DEF HeaderAt, Fields
  <1>10. /\ NumberIn(im, fields, pieces, "name", NamePlace(im, i))
         /\ NumberIn(im, fields, pieces, "type", im.sections[i].type)
         /\ NumberIn(im, fields, pieces, "offset", OffsetOf(im, i))
         /\ NumberIn(im, fields, pieces, "size", IF im.sections[i].type = 8 THEN 5 ELSE Len(BodyOf(im, im.sections[i])))
         /\ NumberIn(im, fields, pieces, "link", im.sections[i].link)
    BY <1>3, <1>5, <1>7, <1>8 DEF NumberIn
  <1>11. /\ HasField(Header(fields, pos, im.order), "name", NamePlace(im, i))
         /\ HasField(Header(fields, pos, im.order), "type", im.sections[i].type)
         /\ HasField(Header(fields, pos, im.order), "offset", OffsetOf(im, i))
         /\ HasField(Header(fields, pos, im.order), "size", IF im.sections[i].type = 8 THEN 5 ELSE Len(BodyOf(im, im.sections[i])))
         /\ HasField(Header(fields, pos, im.order), "link", im.sections[i].link)
    BY <1>9, <1>10, HeaderReads
  <1>12. QED
    BY <1>1, <1>3, <1>11 DEF ShdrHolds

PhdrHolds(h, im, i) ==
    LET s == im.segments[i]
    IN  HasField(h, "offset", OffsetOf(im, s)) /\ HasField(h, "filesz", Len(BodyOf(im, im.sections[s])))

LEMMA PhdrRead ==
    ASSUME NEW im, WellFormed(im), bytes = Whole(im), NEW i \in 1 .. Len(im.segments),
           NEW pos \in Nat, pos = EhdrSize(im) + PhdrSize(im) * (i - 1)
    PROVE  PhdrHolds(Header(PhdrFields(im.class), pos, im.order), im, i)
  <1>1. PICK c \in {1, 2} : c = im.class
    BY ImageParts
  <1>2. PICK a : a = AddrSize(c)
    OBVIOUS
  <1>3. PICK fields \in Fields : fields = PhdrFields(c) /\ NamesDiffer(fields) /\ Len(fields) = 8
    BY PhdrTable32, PhdrTable64
  <1>4. PICK pieces : pieces = PhdrParts(im, i)
    OBVIOUS
  <1>5. PICK p, q : p = (IF c = 1 THEN 2 ELSE 3) /\ q = IF c = 1 THEN 5 ELSE 6
    OBVIOUS
  <1>6. /\ Sized(pieces, fields)
        /\ IsNumber(im, pieces[p], OffsetOf(im, im.segments[i]), a)
        /\ IsNumber(im, pieces[q], Len(BodyOf(im, im.sections[im.segments[i]])), a)
    BY <1>1, <1>2, <1>3, <1>4, <1>5, PhdrFacts DEF PhdrIs
  <1>7. bytes \in Seq(Byte) /\ Placed(bytes, pos, FlattenSeq(pieces))
    BY <1>4, WholeFacts DEF WholeIs, Phdr
  <1>8. im.order \in {1, 2}
    BY ImageParts
  <1>9. IsField(fields, p, "offset", a) /\ IsField(fields, q, "filesz", a)
    <2>1. CASE c = 1
      BY <1>2, <1>3, <1>5, <2>1, PhdrNames, AddrFacts
    <2>2. CASE c = 2
      BY <1>2, <1>3, <1>5, <2>2, PhdrNames, AddrFacts
    <2>3. QED
      BY <1>1, <2>1, <2>2
  <1>10. HeaderAt(fields, pos, pieces) /\ Len(fields) \in Nat
    BY <1>3, <1>6, <1>7, <1>8 DEF HeaderAt, Fields
  <1>11. p \in 1 .. 8 /\ q \in 1 .. 8
    BY <1>5
  <1>12. /\ NumberIn(im, fields, pieces, "offset", OffsetOf(im, im.segments[i]))
         /\ NumberIn(im, fields, pieces, "filesz", Len(BodyOf(im, im.sections[im.segments[i]])))
    BY <1>3, <1>6, <1>8, <1>9, <1>11 DEF NumberIn
  <1>13. /\ HasField(Header(fields, pos, im.order), "offset", OffsetOf(im, im.segments[i]))
         /\ HasField(Header(fields, pos, im.order), "filesz", Len(BodyOf(im, im.sections[im.segments[i]])))
    BY <1>10, <1>12, HeaderReads
  <1>14. QED
    BY <1>1, <1>3, <1>13 DEF PhdrHolds

Ends(offset, size, n) == n = offset + size

LEMMA LoadsSmall ==
    ASSUME NEW offset, NEW size, NEW n, Ends(offset, size, n), Small(n)
    PROVE  /\ n <= Len(bytes) => Loads(offset, size)
           /\ ~(n <= Len(bytes)) => ~Loads(offset, size)
  <1>1. Wrapped(n) = n
    BY WordFacts DEF Small
  <1>2. QED
    BY <1>1 DEF Loads, Ends

LEMMA IdentRead ==
    ASSUME NEW im, WellFormed(im), bytes = Written(im)
    PROVE  /\ bytes \in Seq(Byte) /\ Len(bytes) \in Nat /\ EhdrSize(im) <= Len(bytes)
           /\ SubSeq(bytes, 1, 4) = <<Ident(im)[1], 69, 76, 70>>
           /\ ByteAt(bytes, 4) = Ident(im)[5] /\ ByteAt(bytes, 5) = Ident(im)[6] /\ ByteAt(bytes, 6) = Ident(im)[7]
  <1>1. PICK c \in {1, 2} : c = im.class
    BY ImageParts
  <1>2. PICK fields : fields = EhdrFields(c) /\ fields \in Fields /\ Len(fields) = 14
    BY EhdrTable
  <1>3. PICK pieces : pieces = EhdrParts(im) /\ Sized(pieces, fields) /\ pieces[1] = Ident(im)
    BY <1>1, <1>2, EhdrFacts DEF EhdrIs
  <1>4. PICK id : id = Ident(im) /\ id \in Seq(Byte) /\ Len(id) = 16 /\ id[2] = 69 /\ id[3] = 76 /\ id[4] = 70
    BY IdentFacts DEF IsPart
  <1>5. PICK h : h = Ehdr(im) /\ h \in Seq(Byte) /\ Len(h) = EhdrSize(im)
    BY EhdrFacts
  <1>6. Placed(h, 0, id)
    <2>1. Placed(FlattenSeq(pieces), Place(fields, 1), pieces[1])
      <3>1. 1 \in 1 .. Len(fields)
        BY <1>2
      <3>2. /\ pieces \in [1 .. Len(fields) -> Seq(Byte)]
            /\ \A i \in 1 .. Len(fields) : Len(pieces[i]) = fields[i][2]
        BY <1>3 DEF Sized
      <3>3. QED
        BY <1>2, <3>1, <3>2, PiecesPlaced
    <2>2. Place(fields, 1) = 0
      BY <1>2, FieldsFacts
    <2>3. QED
      BY <1>3, <1>4, <1>5, <2>1, <2>2 DEF Ehdr
  <1>7. bytes \in Seq(Byte) /\ Placed(bytes, 0, h)
    BY <1>5, WrittenFacts
  <1>8. Placed(bytes, 0 + 0, id)
    BY <1>4, <1>5, <1>6, <1>7, PlacedInPart
  <1>9. 16 <= Len(bytes) /\ Len(bytes) \in Nat /\ \A k \in 1 .. 16 : bytes[k] = id[k]
    <2>1. Len(bytes) \in Nat
      BY <1>7
    <2>2. (0 + 0) + Len(id) <= Len(bytes) /\ \A k \in 1 .. Len(id) : bytes[(0 + 0) + k] = id[k]
      BY <1>8 DEF Placed
    <2>3. \A k \in 1 .. 16 : (0 + 0) + k = k
      OBVIOUS
    <2>4. QED
      BY <1>4, <2>1, <2>2, <2>3
  <1>10. \A k \in 1 .. 16 : k \in DOMAIN bytes /\ bytes[k] \in Byte
    <2>1. DOMAIN bytes = 1 .. Len(bytes) /\ \A k \in 1 .. Len(bytes) : bytes[k] \in Byte
      BY <1>7
    <2>2. \A k \in 1 .. 16 : k \in 1 .. Len(bytes)
      BY <1>9
    <2>3. QED
      BY <2>1, <2>2
  <1>11. ByteAt(bytes, 4) = id[5] /\ ByteAt(bytes, 5) = id[6] /\ ByteAt(bytes, 6) = id[7]
    BY <1>9, <1>10 DEF ByteAt
  <1>12. SubSeq(bytes, 1, 4) = <<id[1], 69, 76, 70>>
    <2> DEFINE s == SubSeq(bytes, 1, 4)
               t == <<id[1], 69, 76, 70>>
    <2>1. s \in Seq(Byte) /\ Len(s) = 4
      BY <1>7, <1>9, SMTT(30)
    <2>2. s[1] = bytes[1] /\ s[2] = bytes[2] /\ s[3] = bytes[3] /\ s[4] = bytes[4]
      BY <1>7, <1>9
    <2>3. s[1] = id[1] /\ s[2] = 69 /\ s[3] = 76 /\ s[4] = 70
      <3> HIDE DEF s
      <3>1. QED
        BY <1>4, <1>9, <2>2
    <2>4. t[1] = id[1] /\ t[2] = 69 /\ t[3] = 76 /\ t[4] = 70 /\ Len(t) = 4
      OBVIOUS
    <2>5. t \in Seq(Byte)
      <3>1. id[1] \in Byte
        <4>1. 1 \in 1 .. 16
          OBVIOUS
        <4>2. bytes[1] = id[1] /\ bytes[1] \in Byte
          BY <1>9, <1>10, <4>1
        <4>3. QED
          BY <4>2
      <3>2. id[1] \in Byte /\ 69 \in Byte /\ 76 \in Byte /\ 70 \in Byte
        BY <3>1 DEF Byte
      <3>3. QED
        BY <3>2
    <2> HIDE DEF s, t
    <2>6. \A k \in 1 .. Len(s) : s[k] = t[k]
      <3>1. \A k \in 1 .. Len(s) : k = 1 \/ k = 2 \/ k = 3 \/ k = 4
        BY <2>1
      <3>2. QED
        BY <2>3, <2>4, <3>1
    <2>7. s = t
      BY <2>1, <2>4, <2>5, <2>6, SeqEqual
    <2>8. QED
      BY <2>7 DEF s, t
  <1>13. EhdrSize(im) <= Len(bytes)
    <2>1. 0 + Len(h) <= Len(bytes)
      BY <1>7 DEF Placed
    <2>2. PICK e \in Nat : e = EhdrSize(im)
      BY SizesAre
    <2>3. QED
      BY <1>5, <2>1, <2>2
  <1>14. QED
    BY <1>4, <1>7, <1>9, <1>11, <1>12, <1>13

LEMMA TableFacts ==
    ASSUME NEW n \in Nat, NEW f, NEW g, f = [i \in 1 .. n |-> g[i]]
    PROVE  Len(f) = n /\ DOMAIN f = 1 .. n
  <1> DEFINE S == {g[i] : i \in 1 .. n}
  <1>1. f \in [1 .. n -> S]
    OBVIOUS
  <1> HIDE DEF S
  <1>2. f \in Seq(S)
    BY <1>1
  <1>3. DOMAIN f = 1 .. n /\ DOMAIN f = 1 .. Len(f) /\ Len(f) \in Nat
    BY <1>1, <1>2
  <1>4. QED
    BY <1>3

(* What an opened file holds.                                               *)
OpenOf(e, im) ==
    /\ e.state = "open"
    /\ e.hdr.class = im.class /\ e.hdr.order = im.order /\ e.hdr.shstrndx = Len(im.sections) - 1
    /\ Len(e.segments) = Len(im.segments) /\ Len(e.sections) = Len(im.sections)
    /\ \A i \in 1 .. Len(im.segments) : PhdrHolds(e.segments[i], im, i)
    /\ \A i \in 1 .. Len(im.sections) : ShdrHolds(e.sections[i], im, i)

(* An image without a defect that shows in its headers is opened, and its   *)
(* headers are read as they were written, of either class and byte order;   *)
(* any other is refused (elf::elf, canon_hdr).                              *)
THEOREM OpenedIs ==
    ASSUME NEW im, WellFormed(im), bytes = Written(im)
    PROVE  IF im.defect \in Refusable THEN Opened = Refused ELSE OpenOf(Opened, im)
  <1> DEFINE c == ByteAt(bytes, 4)
             o == ByteAt(bytes, 5)
             hdr == Header(EhdrFields(c), 0, o)
             Phdrs == [i \in 1 .. hdr.phnum |-> Header(PhdrFields(c), hdr.phoff + (i - 1) * hdr.phentsize, o)]
             Shdrs == [i \in 1 .. hdr.shnum |-> Header(ShdrFields(c), hdr.shoff + (i - 1) * hdr.shentsize, o)]
             bad == \/ ~Loads(0, 7)
                    \/ SubSeq(bytes, 1, 4) # <<127, 69, 76, 70>>
                    \/ ByteAt(bytes, 6) # 1 \/ c \notin {1, 2} \/ o \notin {LSB, MSB}
                    \/ ~Loads(0, SizeOf(EhdrFields(c))) \/ hdr.version # 1
                    \/ hdr.shnum # 0 /\ hdr.shstrndx >= hdr.shnum
                    \/ ~Loads(hdr.phoff, hdr.phentsize * hdr.phnum)
                    \/ ~Loads(hdr.shoff, hdr.shentsize * hdr.shnum)
             open == [state |-> "open",
                      hdr |-> [f \in DOMAIN hdr \union {"class", "order"} |->
                                  CASE f = "class" -> c [] f = "order" -> o [] OTHER -> hdr[f]],
                      segments |-> Phdrs, sections |-> Shdrs]
  <1>1. Opened = IF bad THEN Refused ELSE open
    BY DEF Opened
  <1>2. /\ bytes \in Seq(Byte) /\ Len(bytes) \in Nat /\ EhdrSize(im) <= Len(bytes)
        /\ SubSeq(bytes, 1, 4) = <<Ident(im)[1], 69, 76, 70>>
        /\ c = Ident(im)[5] /\ o = Ident(im)[6] /\ ByteAt(bytes, 6) = Ident(im)[7]
    BY IdentRead
  <1>3. /\ im.class \in {1, 2} /\ im.order \in {1, 2} /\ im.defect \in Defects
    BY ImageParts
  <1>4. CASE im.defect \in {"magic", "version", "class", "order"}
    <2>1. im.defect \in Refusable
      BY <1>4 DEF Refusable
    <2>2. CASE im.defect = "magic"
      <3>1. Ident(im)[1] = 126
        BY <2>2, IdentFacts
      <3>2. SubSeq(bytes, 1, 4) = <<126, 69, 76, 70>>
        BY <1>2, <3>1
      <3>3. SubSeq(bytes, 1, 4) # <<127, 69, 76, 70>>
        <4>1. <<126, 69, 76, 70>> # <<127, 69, 76, 70>>
          OBVIOUS
        <4>2. QED
          BY <3>2, <4>1
      <3>4. QED
        BY <1>1, <2>1, <3>3
    <2>3. CASE im.defect = "version"
      <3>1. ByteAt(bytes, 6) = 0
        BY <1>2, <2>3, IdentFacts
      <3>2. QED
        BY <1>1, <2>1, <3>1
    <2>4. CASE im.defect = "class"
      <3>1. c \notin {1, 2}
        BY <1>2, <2>4, IdentFacts
      <3>2. QED
        BY <1>1, <2>1, <3>1
    <2>5. CASE im.defect = "order"
      <3>1. o \notin {LSB, MSB}
        BY <1>2, <2>5, IdentFacts DEF LSB, MSB
      <3>2. QED
        BY <1>1, <2>1, <3>1
    <2>6. QED
      BY <1>4, <2>2, <2>3, <2>4, <2>5
  <1>5. CASE im.defect \notin {"magic", "version", "class", "order"}
    <2>1. /\ SubSeq(bytes, 1, 4) = <<127, 69, 76, 70>> /\ ByteAt(bytes, 6) = 1
          /\ c = im.class /\ o = im.order
      BY <1>2, <1>5, IdentFacts
    <2>2. c \in {1, 2} /\ o \in {LSB, MSB}
      BY <1>3, <2>1 DEF LSB, MSB
    <2>3. PICK e \in Nat, p \in Nat, s \in Nat, a \in Nat, g \in Nat, n \in Nat :
             /\ e = EhdrSize(im) /\ p = PhdrSize(im) /\ s = ShdrSize(im) /\ a = HeadersAt(im)
             /\ g = Len(im.segments) /\ n = Len(im.sections) /\ n > 0
             /\ Small(e) /\ Small(a) /\ Small(FileSize(im)) /\ FileSize(im) = a + s * n /\ a < FileSize(im)
      <3>1. EhdrSize(im) \in Nat /\ PhdrSize(im) \in Nat /\ ShdrSize(im) \in Nat /\ Small(EhdrSize(im))
        BY SizesAre, ImageNumbers
      <3>2. HeadersAt(im) \in Nat /\ Small(HeadersAt(im)) /\ Small(FileSize(im)) /\ HeadersAt(im) < FileSize(im)
        BY OffsetFacts, ImageNumbers
      <3>3. Len(im.segments) \in Nat /\ Len(im.sections) \in Nat /\ Len(im.sections) > 0
        BY SectionsAre, SegmentsAre
      <3>4. QED
        BY <3>1, <3>2, <3>3 DEF FileSize
    <2>4. EhdrHolds(hdr, im)
      BY <2>1, EhdrRead
    <2> HIDE DEF hdr
    <2>5. /\ hdr.version = (IF im.defect = "objversion" THEN 2 ELSE 1)
          /\ hdr.phoff = e /\ hdr.shoff = a /\ hdr.phentsize = p /\ hdr.phnum = g
          /\ hdr.shentsize = s /\ hdr.shnum = n
          /\ hdr.shstrndx = (IF im.defect = "index" THEN n ELSE n - 1)
          /\ "shstrndx" \in DOMAIN hdr
      BY <2>3, <2>4 DEF EhdrHolds, HasField
    <2>6. s * n \in Nat /\ p * g \in Nat
      BY <2>3, SMTT(30)
    <2>7. PICK f \in Nat : f = FileSize(im) /\ f = a + s * n /\ Small(f)
      BY <2>3, <2>6
    <2>8. /\ f <= Len(bytes) => Loads(hdr.shoff, hdr.shentsize * hdr.shnum)
          /\ ~(f <= Len(bytes)) => ~Loads(hdr.shoff, hdr.shentsize * hdr.shnum)
      <3>1. Ends(hdr.shoff, hdr.shentsize * hdr.shnum, f) /\ Small(f)
        BY <2>5, <2>7 DEF Ends
      <3>2. QED
        BY <3>1, LoadsSmall
    <2>9. CASE im.defect \in {"objversion", "index", "truncated"}
      <3>1. im.defect \in Refusable
        BY <2>9 DEF Refusable
      <3>2. bad
        <4>1. CASE im.defect = "objversion"
          BY <2>5, <4>1
        <4>2. CASE im.defect = "index"
          BY <2>3, <2>5, <4>2, SMTT(30)
        <4>3. CASE im.defect = "truncated"
          <5>1. Len(bytes) = f - 1
            BY <2>7, <4>3, WrittenFacts
          <5>2. ~(f <= Len(bytes))
            BY <2>7, <5>1
          <5>3. QED
            BY <2>8, <5>2
        <4>4. QED
          BY <2>9, <4>1, <4>2, <4>3
      <3> HIDE DEF bad
      <3>3. QED
        BY <1>1, <3>1, <3>2
    <2>10. CASE im.defect \notin {"objversion", "index", "truncated"}
      <3>1. im.defect \notin Refusable
        BY <1>5, <2>10 DEF Refusable
      <3>2. bytes = Whole(im) /\ Len(bytes) = f
        BY <2>7, <2>10, WrittenFacts, WholeFacts DEF WholeIs
      <3>3. ~bad
        <4>1. Loads(0, 7)
          <5>1. 7 <= e
            BY <1>3, <2>3 DEF EhdrSize
          <5>2. 7 \in Nat /\ 7 <= Len(bytes)
            BY <1>2, <2>3, <5>1
          <5>3. Small(7)
            BY <2>3, <5>1, <5>2, SmallBelow
          <5>4. Ends(0, 7, 7)
            BY DEF Ends
          <5>5. QED
            BY <5>2, <5>3, <5>4, LoadsSmall
        <4>2. Loads(0, SizeOf(EhdrFields(c)))
          <5>1. SizeOf(EhdrFields(c)) = e
            BY <2>1, <2>3, SizesAre
          <5>2. Ends(0, e, e) /\ e <= Len(bytes) /\ Small(e)
            BY <1>2, <2>3 DEF Ends
          <5>3. Loads(0, e)
            BY <5>2, LoadsSmall
          <5>4. QED
            BY <5>1, <5>3
        <4>3. hdr.version = 1 /\ ~(hdr.shstrndx >= hdr.shnum)
          BY <2>3, <2>5, <2>10
        <4>4. Loads(hdr.phoff, hdr.phentsize * hdr.phnum)
          <5>1. PICK b \in Nat : b = e + p * g
            BY <2>3, <2>6
          <5>2. b <= a
            <6>1. PICK t \in Nat : t = Len(FlattenSeq(BodyTable(im)))
              BY OffsetFacts
            <6>2. a = b + t
              BY <2>3, <5>1, <6>1, OffsetFacts, SizesAre
            <6>3. QED
              BY <5>1, <6>1, <6>2
          <5>3. Small(b)
            BY <2>3, <5>1, <5>2, SmallBelow
          <5>4. b <= Len(bytes)
            BY <2>3, <2>7, <3>2, <5>1, <5>2
          <5>5. Ends(hdr.phoff, hdr.phentsize * hdr.phnum, b)
            BY <2>5, <5>1 DEF Ends
          <5>6. QED
            BY <5>3, <5>4, <5>5, LoadsSmall
        <4>5. Loads(hdr.shoff, hdr.shentsize * hdr.shnum)
          <5>1. f <= Len(bytes)
            BY <2>7, <3>2
          <5>2. QED
            BY <2>8, <5>1
        <4>6. QED
          BY <2>1, <2>2, <4>1, <4>2, <4>3, <4>4, <4>5
      <3> HIDE DEF bad
      <3>4. Opened = open
        BY <1>1, <3>3
      <3>5. open.hdr.class = im.class /\ open.hdr.order = im.order /\ open.hdr.shstrndx = n - 1
        BY <2>1, <2>5, <2>10
      <3>6. Phdrs = [i \in 1 .. g |-> Phdrs[i]] /\ Shdrs = [i \in 1 .. n |-> Shdrs[i]]
        BY <2>5
      <3>7. Len(Phdrs) = g /\ Len(Shdrs) = n
        <4> HIDE DEF Phdrs, Shdrs
        <4>1. QED
          BY <2>3, <3>6, TableFacts
      <3>8. ASSUME NEW i \in 1 .. g PROVE PhdrHolds(Phdrs[i], im, i)
        <4>1. Phdrs[i] = Header(PhdrFields(im.class), e + (i - 1) * p, im.order)
          BY <2>1, <2>5
        <4>2. PICK pos \in Nat : pos = e + (i - 1) * p /\ pos = e + p * (i - 1)
          <5>1. PICK k \in Nat : k = i - 1
            BY <2>3
          <5>2. PICK m \in Nat : m = k * p /\ m = p * k
            BY <2>3
          <5>3. e + m \in Nat
            BY <2>3
          <5>4. QED
            BY <5>1, <5>2, <5>3
        <4>3. PhdrHolds(Header(PhdrFields(im.class), pos, im.order), im, i)
          BY <2>3, <3>2, <4>2, PhdrRead
        <4>4. QED
          BY <4>1, <4>2, <4>3
      <3>9. ASSUME NEW i \in 1 .. n PROVE ShdrHolds(Shdrs[i], im, i)
        <4>1. Shdrs[i] = Header(ShdrFields(im.class), a + (i - 1) * s, im.order)
          BY <2>1, <2>5
        <4>2. PICK pos \in Nat : pos = a + (i - 1) * s /\ pos = a + s * (i - 1)
          <5>1. PICK k \in Nat : k = i - 1
            BY <2>3
          <5>2. PICK m \in Nat : m = k * s /\ m = s * k
            BY <2>3, SMTT(30)
          <5>3. a + m \in Nat
            BY <2>3
          <5>4. QED
            BY <5>1, <5>2, <5>3
        <4>3. ShdrHolds(Header(ShdrFields(im.class), pos, im.order), im, i)
          BY <2>3, <3>2, <4>2, ShdrRead
        <4>4. QED
          BY <4>1, <4>2, <4>3
      <3>10. open.segments = Phdrs /\ open.sections = Shdrs /\ open.state = "open"
        OBVIOUS
      <3> HIDE DEF open, Phdrs, Shdrs
      <3>11. OpenOf(open, im)
        BY <2>3, <3>5, <3>7, <3>8, <3>9, <3>10 DEF OpenOf
      <3>12. QED
        BY <3>1, <3>4, <3>11
    <2>11. QED
      BY <2>9, <2>10
  <1>6. QED
    BY <1>4, <1>5

(* The file is open, and whole.                                             *)
Reading(im) == WellFormed(im) /\ bytes = Whole(im) /\ OpenOf(elf, im)

LEMMA SectionHolds ==
    ASSUME NEW im, Reading(im), NEW i \in 1 .. Len(im.sections), NEW s, s = im.sections[i]
    PROVE  /\ Section(i - 1).name = NamePlace(im, i) /\ Section(i - 1).type = s.type
           /\ Section(i - 1).offset = OffsetOf(im, i)
           /\ Section(i - 1).size = (IF s.type = 8 THEN 5 ELSE Len(BodyOf(im, s)))
           /\ Section(i - 1).link = s.link
  <1>1. ShdrHolds(elf.sections[i], im, i)
    BY DEF Reading, OpenOf
  <1>2. Len(im.sections) \in Nat
    BY SectionsAre DEF Reading
  <1>3. Section(i - 1) = elf.sections[i]
    <2>1. (i - 1) + 1 = i
      BY <1>2
    <2>2. QED
      BY <2>1 DEF Section
  <1>4. QED
    BY <1>1, <1>3 DEF ShdrHolds, HasField

LEMMA LinkRead ==
    ASSUME NEW im, Reading(im), NEW i \in 1 .. Len(im.sections)
    PROVE  LinkOf(i - 1) = im.sections[i].link
  <1>1. im.sections[i] \in SectionSet
    BY SectionsAre DEF Reading, WellFormed
  <1>2. PICK l \in Nat : l = im.sections[i].link /\ l < 65536
    <2>1. im.sections[i].link \in Short
      BY <1>1 DEF SectionSet
    <2>2. 2 ^ 16 = 65536
      BY SMT
    <2>3. QED
      BY <2>1, <2>2 DEF Short
  <1>3. Section(i - 1).link = l
    BY <1>2, SectionHolds
  <1>4. l % 2 ^ 16 = l
    <2>1. 2 ^ 16 = 65536
      BY SMT
    <2>2. l % 65536 = l
      BY <1>2
    <2>3. QED
      BY <2>1, <2>2
  <1>5. QED
    BY <1>2, <1>3, <1>4 DEF LinkOf

LEMMA BodyRead ==
    ASSUME NEW im, Reading(im), NEW i \in 1 .. Len(im.sections), NEW body, body = BodyOf(im, im.sections[i])
    PROVE  /\ body \in Seq(Byte) /\ Loads(OffsetOf(im, i), Len(body))
           /\ SubSeq(bytes, OffsetOf(im, i) + 1, OffsetOf(im, i) + Len(body)) = body
  <1>1. WellFormed(im) /\ bytes = Whole(im)
    BY DEF Reading
  <1>2. body \in Seq(Byte)
    BY <1>1, SectionsAre, BodyFacts
  <1>3. PICK at : at = OffsetOf(im, i) /\ Placed(bytes, at, body) /\ bytes \in Seq(Byte) /\ Len(bytes) = FileSize(im)
    BY <1>1, WholeFacts DEF WholeIs
  <1>4. SubSeq(bytes, at + 1, at + Len(body)) = body
    BY <1>2, <1>3, PlacedIsSub
  <1>5. PICK n \in Nat : Ends(at, Len(body), n) /\ n <= Len(bytes)
    BY <1>2, <1>3 DEF Placed, Ends
  <1>6. Small(n)
    <2>1. Small(Len(bytes))
      BY <1>1, <1>3, ImageNumbers
    <2>2. QED
      BY <1>5, <2>1, SmallBelow
  <1>7. Loads(at, Len(body))
    BY <1>5, <1>6, LoadsSmall
  <1>8. QED
    BY <1>2, <1>3, <1>4, <1>7

LEMMA DataRead ==
    ASSUME NEW im, Reading(im), NEW i \in 1 .. Len(im.sections), NEW s, s = im.sections[i]
    PROVE  SectionData(i - 1) = IF s.type = 8 THEN Null ELSE Is(BodyOf(im, s))
  <1>1. /\ Section(i - 1).type = s.type /\ Section(i - 1).offset = OffsetOf(im, i)
        /\ Section(i - 1).size = (IF s.type = 8 THEN 5 ELSE Len(BodyOf(im, s)))
    BY SectionHolds
  <1>2. /\ Loads(OffsetOf(im, i), Len(BodyOf(im, s)))
        /\ SubSeq(bytes, OffsetOf(im, i) + 1, OffsetOf(im, i) + Len(BodyOf(im, s))) = BodyOf(im, s)
    BY BodyRead
  <1>3. SHT.nobits = 8
    BY DEF SHT
  <1>4. QED
    BY <1>1, <1>2, <1>3 DEF SectionData

LEMMA SectionsRead ==
    ASSUME NEW im, Reading(im), NEW n, n = Len(im.sections)
    PROVE  \A i \in 1 .. n :
              /\ Section(i - 1).type = im.sections[i].type /\ Section(i - 1).link = im.sections[i].link
              /\ SectionData(i - 1) = IF im.sections[i].type = 8 THEN Null ELSE Is(BodyOf(im, im.sections[i]))
  <1>1. ASSUME NEW i \in 1 .. Len(im.sections), NEW s, s = im.sections[i]
        PROVE  /\ Section(i - 1).type = s.type /\ Section(i - 1).link = s.link
               /\ SectionData(i - 1) = IF s.type = 8 THEN Null ELSE Is(BodyOf(im, s))
    BY <1>1, SectionHolds, DataRead
  <1>2. QED
    BY <1>1, Zenon

LEMMA SegmentRead ==
    ASSUME NEW im, Reading(im), NEW i \in 1 .. Len(im.segments)
    PROVE  SegmentData(i - 1) = Is(BodyOf(im, im.sections[im.segments[i]]))
  <1>1. PhdrHolds(elf.segments[i], im, i)
    BY DEF Reading, OpenOf
  <1>2. PICK n \in 1 .. Len(im.sections) : n = im.segments[i]
    BY SegmentsAre DEF Reading
  <1>3. PICK body : body = BodyOf(im, im.sections[n])
    OBVIOUS
  <1>4. elf.segments[i].offset = OffsetOf(im, n) /\ elf.segments[i].filesz = Len(body)
    BY <1>1, <1>2, <1>3 DEF PhdrHolds, HasField
  <1>5. /\ Loads(OffsetOf(im, n), Len(body))
        /\ SubSeq(bytes, OffsetOf(im, n) + 1, OffsetOf(im, n) + Len(body)) = body
    BY <1>3, BodyRead
  <1>6. elf.segments[(i - 1) + 1] = elf.segments[i]
    <2>1. Len(im.segments) \in Nat
      BY SegmentsAre DEF Reading
    <2>2. (i - 1) + 1 = i
      BY <2>1
    <2>3. QED
      BY <2>2
  <1>7. QED
    BY <1>2, <1>3, <1>4, <1>5, <1>6 DEF SegmentData

(* A section of strings has its names, and nothing else.                    *)
Strings(i, table) == Section(i).type = 3 /\ SectionData(i) = Is(table) /\ table \in Seq(Byte)

LEMMA StringFound ==
    ASSUME NEW i, NEW table, Strings(i, table), NEW name \in Text, NEW offset,
           Placed(table, offset, Append(name, 0))
    PROVE  StringAt(i, offset) = Is(name)
  <1>1. SHT.strtab = 3
    BY DEF SHT
  <1>2. /\ Section(i).type = SHT.strtab /\ SectionData(i).ok /\ SectionData(i).is = table /\ table \in Seq(Byte)
    BY <1>1 DEF Strings, Is
  <1>3. offset \in Nat
    BY DEF Placed
  <1>4. /\ offset < Len(table) /\ Nuls(table, offset) # {}
        /\ SubSeq(table, offset + 1, Min(Nuls(table, offset))) = name
    BY <1>2, <1>3, NameEnds
  <1>5. Nuls(table, offset) = {k \in offset .. Len(SectionData(i).is) - 1 : SectionData(i).is[k + 1] = 0}
    BY <1>2 DEF Nuls
  <1>6. ~(offset >= Len(SectionData(i).is))
    BY <1>2, <1>3, <1>4
  <1>7. QED
    BY <1>2, <1>4, <1>5, <1>6 DEF StringAt

LEMMA StringMissing ==
    ASSUME NEW i, NEW table, Strings(i, table), NEW offset \in Nat,
           Len(table) <= offset \/ Nuls(table, offset) = {}
    PROVE  StringAt(i, offset) = Thrown
  <1>1. SectionData(i).is = table /\ table \in Seq(Byte)
    BY DEF Strings, Is
  <1>2. Nuls(table, offset) = {k \in offset .. Len(SectionData(i).is) - 1 : SectionData(i).is[k + 1] = 0}
    BY <1>1 DEF Nuls
  <1>3. Len(table) <= offset => offset >= Len(SectionData(i).is)
    BY <1>1
  <1>4. QED
    BY <1>2, <1>3 DEF StringAt

(* The last section has the names of all.                                   *)
LEMMA NamesTable ==
    ASSUME NEW im, Reading(im), NEW table, table = SectionNames(im)
    PROVE  Strings(Len(im.sections) - 1, IF im.defect = "unterminated" THEN Front(table) ELSE table)
  <1>1. WellFormed(im) /\ SectionsWellFormed(im)
    BY DEF Reading, WellFormed
  <1>2. PICK n \in 1 .. Len(im.sections) : n = Len(im.sections)
    BY <1>1, SectionsAre
  <1>3. PICK s \in SectionSet : s = im.sections[n] /\ s.type = 3 /\ s.body = "shstrtab"
    BY <1>1, <1>2, SectionsAre DEF SectionsWellFormed
  <1>4. BodyOf(im, s) = (IF im.defect = "unterminated" THEN Front(table) ELSE table) /\ BodyOf(im, s) \in Seq(Byte)
    BY <1>1, <1>3, BodyFacts
  <1>5. Section(n - 1).type = 3
    BY <1>3, SectionHolds
  <1>6. SectionData(n - 1) = Is(BodyOf(im, s))
    <2>1. SectionData(n - 1) = IF s.type = 8 THEN Null ELSE Is(BodyOf(im, s))
      BY <1>3, DataRead
    <2>2. QED
      BY <1>3, <2>1
  <1>7. QED
    BY <1>2, <1>4, <1>5, <1>6 DEF Strings

LEMMA NameRead ==
    ASSUME NEW im, Reading(im), NEW i \in 1 .. Len(im.sections), NEW s, s = im.sections[i]
    PROVE  StringAt(elf.hdr.shstrndx, Section(i - 1).name) = IF s.named THEN Is(s.name) ELSE Thrown
  <1>1. WellFormed(im) /\ elf.hdr.shstrndx = Len(im.sections) - 1
    BY DEF Reading, OpenOf
  <1>2. PICK table : table = SectionNames(im) /\ table \in Seq(Byte) /\ Len(table) > 0
    BY <1>1, SectionTexts
  <1>3. PICK strings : strings = (IF im.defect = "unterminated" THEN Front(table) ELSE table)
                       /\ Strings(Len(im.sections) - 1, strings)
    BY <1>2, NamesTable
  <1>4. PICK place \in Nat : place = NamePlace(im, i) /\ place = Section(i - 1).name
    <2>1. Small(NamePlace(im, i))
      BY <1>1, NamePlaces
    <2>2. NamePlace(im, i) \in Nat
      BY <2>1 DEF Small
    <2>3. Section(i - 1).name = NamePlace(im, i)
      BY SectionHolds
    <2>4. QED
      BY <2>2, <2>3
  <1>5. PICK name \in Text : name = s.name
    BY <1>1, SectionsAre DEF SectionSet
  <1>6. CASE s.named
    <2>1. /\ Placed(table, place, Append(name, 0))
          /\ im.defect = "unterminated" => place + Len(Append(name, 0)) < Len(table)
      BY <1>1, <1>2, <1>4, <1>5, <1>6, NamePlaces
    <2>2. Placed(strings, place, Append(name, 0))
      <3>1. CASE im.defect = "unterminated"
        BY <1>2, <1>3, <1>5, <2>1, <3>1, TextFacts, PlacedInFront
      <3>2. CASE im.defect # "unterminated"
        BY <1>3, <2>1, <3>2
      <3>3. QED
        BY <3>1, <3>2
    <2>3. StringAt(Len(im.sections) - 1, place) = Is(name)
      BY <1>3, <2>2, StringFound
    <2>4. QED
      BY <1>1, <1>4, <1>5, <1>6, <2>3
  <1>7. CASE ~s.named
    <2>1. \/ im.defect = "name" /\ Len(table) <= place
          \/ im.defect = "unterminated" /\ NameAt(table, place, name, TRUE)
      BY <1>1, <1>2, <1>4, <1>5, <1>7, NamePlaces
    <2>2. Len(strings) <= place \/ Nuls(strings, place) = {}
      <3>1. CASE im.defect = "name" /\ Len(table) <= place
        BY <1>3, <3>1
      <3>2. CASE im.defect = "unterminated" /\ NameAt(table, place, name, TRUE)
        <4>1. strings = Front(table)
          BY <1>3, <3>2
        <4>2. Nuls(Front(table), place) = {}
          BY <1>2, <3>2, LastNameEndless
        <4>3. QED
          BY <4>1, <4>2
      <3>3. QED
        BY <2>1, <3>1, <3>2
    <2>3. StringAt(Len(im.sections) - 1, place) = Thrown
      BY <1>3, <2>2, StringMissing
    <2>4. QED
      BY <1>1, <1>4, <1>7, <2>3
  <1>8. QED
    BY <1>6, <1>7

(* What a symbol's header holds.                                            *)
SymHolds(h, im, s) ==
    HasField(h, "name", SymbolPlace(im, s)) /\ HasField(h, "value", s.value)
    /\ HasField(h, "info", s.type + 16 * s.binding)

(* The section of the symbols.                                              *)
IsTable(im, t) ==
    LET link == im.sections[t].link + 1
    IN  /\ t \in 1 .. Len(im.sections) /\ link \in 1 .. Len(im.sections)
        /\ im.sections[t].body = "symtab" /\ im.sections[t].type \in {2, 11}
        /\ \A i \in 1 .. Len(im.sections) : im.sections[i].type \in {2, 11} => i = t
        /\ IF im.defect = "link" THEN im.sections[link].type # 3
           ELSE im.sections[link].type = 3 /\ im.sections[link].body = "strtab"

LEMMA TableIs ==
    ASSUME NEW im, WellFormed(im)
    PROVE  \E t \in 1 .. Len(im.sections) : IsTable(im, t)
  <1>1. SymbolsWellFormed(im)
    BY DEF WellFormed
  <1>2. DOMAIN im.sections = 1 .. Len(im.sections)
    BY SectionsAre
  <1>3. PICK t \in DOMAIN im.sections :
          /\ {i \in DOMAIN im.sections : im.sections[i].type \in {2, 11}} = {t}
          /\ im.sections[t].body = "symtab" /\ im.sections[t].link + 1 \in DOMAIN im.sections
          /\ IF im.defect = "link" THEN im.sections[im.sections[t].link + 1].type # 3
             ELSE /\ im.sections[im.sections[t].link + 1].type = 3
                  /\ im.sections[im.sections[t].link + 1].body = "strtab"
    BY <1>1, Zenon DEF SymbolsWellFormed
  <1>4. /\ im.sections[t].type \in {2, 11}
        /\ \A i \in 1 .. Len(im.sections) : im.sections[i].type \in {2, 11} => i = t
    BY <1>2, <1>3, Zenon
  <1>5. QED
    BY <1>2, <1>3, <1>4, Zenon DEF IsTable

LEMMA SymRead ==
    ASSUME NEW im, WellFormed(im), bytes = Whole(im), NEW t, IsTable(im, t), NEW j \in 1 .. Len(im.symbols),
           NEW pos \in Nat, pos = OffsetOf(im, t) + SymSize(im.class) * (j - 1)
    PROVE  SymHolds(Header(SymFields(im.class), pos, im.order), im, im.symbols[j])
  <1>1. PICK c \in {1, 2} : c = im.class
    BY ImageParts
  <1>2. PICK a : a = AddrSize(c)
    OBVIOUS
  <1>3. PICK fields \in Fields : fields = SymFields(c) /\ NamesDiffer(fields) /\ Len(fields) = 6
    BY SymTable32, SymTable64
  <1>4. PICK s : s = im.symbols[j]
    OBVIOUS
  <1>5. PICK pieces : pieces = SymbolParts(im, s)
    OBVIOUS
  <1>6. PICK p, q : p = (IF c = 1 THEN 2 ELSE 5) /\ q = IF c = 1 THEN 4 ELSE 2
    OBVIOUS
  <1>7. SymbolIs(im, s)
    BY <1>4, SymbolFacts
  <1>8. /\ Sized(pieces, fields)
        /\ IsNumber(im, pieces[1], SymbolPlace(im, s), 4) /\ IsNumber(im, pieces[p], s.value, a)
        /\ IsNumber(im, pieces[q], s.type + 16 * s.binding, 1)
    BY <1>1, <1>2, <1>3, <1>5, <1>6, <1>7 DEF SymbolIs
  <1>9. bytes \in Seq(Byte) /\ Placed(bytes, pos, FlattenSeq(pieces))
    <2>1. PICK i \in 1 .. Len(im.sections) : i = t /\ im.sections[i].body = "symtab"
      BY DEF IsTable
    <2>2. PICK sec \in SectionSet : sec = im.sections[i] /\ sec.body = "symtab"
      BY <2>1, SectionsAre
    <2>3. PICK body : body = FlattenSeq(SymbolTable(im)) /\ body = BodyOf(im, sec) /\ body \in Seq(Byte)
      BY <2>2, BodyFacts
    <2>4. PICK at : at = OffsetOf(im, i) /\ Placed(bytes, at, body) /\ bytes \in Seq(Byte)
      BY <2>2, <2>3, WholeFacts DEF WholeIs
    <2>5. PICK k, part : /\ k = SymSize(im.class) * (j - 1) /\ part = SymbolBytes(im, s)
                         /\ Placed(body, k, part) /\ part \in Seq(Byte)
      <3>1. Placed(body, SymSize(im.class) * (j - 1), SymbolBytes(im, s))
        BY <1>4, <2>3, SymbolTableFacts
      <3>2. SymbolBytes(im, s) \in Seq(Byte)
        BY <1>4, SymbolFacts
      <3>3. QED
        BY <3>1, <3>2
    <2>6. Placed(bytes, at + k, part)
      BY <2>3, <2>4, <2>5, PlacedInPart
    <2>7. QED
      BY <1>5, <2>1, <2>4, <2>5, <2>6 DEF SymbolBytes
  <1>10. im.order \in {1, 2}
    BY ImageParts
  <1>11. IsField(fields, 1, "name", 4) /\ IsField(fields, p, "value", a) /\ IsField(fields, q, "info", 1)
    <2>1. CASE c = 1
      BY <1>2, <1>3, <1>6, <2>1, SymNames, AddrFacts
    <2>2. CASE c = 2
      BY <1>2, <1>3, <1>6, <2>2, SymNames, AddrFacts
    <2>3. QED
      BY <1>1, <2>1, <2>2
  <1>12. HeaderAt(fields, pos, pieces)
    BY <1>3, <1>8, <1>9 DEF HeaderAt
  <1>13. p \in 1 .. 6 /\ q \in 1 .. 6 /\ 1 \in 1 .. 6
    BY <1>6
  <1>14. /\ NumberIn(im, fields, pieces, "name", SymbolPlace(im, s))
         /\ NumberIn(im, fields, pieces, "value", s.value)
         /\ NumberIn(im, fields, pieces, "info", s.type + 16 * s.binding)
    BY <1>3, <1>8, <1>10, <1>11, <1>13 DEF NumberIn
  <1>15. /\ HasField(Header(fields, pos, im.order), "name", SymbolPlace(im, s))
         /\ HasField(Header(fields, pos, im.order), "value", s.value)
         /\ HasField(Header(fields, pos, im.order), "info", s.type + 16 * s.binding)
    BY <1>12, <1>14, HeaderReads
  <1>16. QED
    BY <1>1, <1>3, <1>4, <1>15 DEF SymHolds

LEMMA InfoRead ==
    ASSUME NEW t \in 0 .. 15, NEW b \in 0 .. 15
    PROVE  SymbolType(t + 16 * b) = IF t > 4 THEN 0 ELSE t
  <1>1. (t + 16 * b) % 16 = t
    OBVIOUS
  <1>2. QED
    BY <1>1 DEF SymbolType

(* The number of a table's symbols.                                         *)
LEMMA SymbolCount ==
    ASSUME NEW im, Reading(im), NEW t, IsTable(im, t)
    PROVE  Section(t - 1).size \div SymSize(im.class) = Len(im.symbols) /\ Section(t - 1).offset = OffsetOf(im, t)
  <1>1. WellFormed(im)
    BY DEF Reading
  <1>2. PICK i \in 1 .. Len(im.sections) : i = t /\ im.sections[i].body = "symtab" /\ im.sections[i].type \in {2, 11}
    BY DEF IsTable
  <1>3. PICK s \in SectionSet : s = im.sections[i] /\ s.body = "symtab" /\ s.type \in {2, 11}
    BY <1>1, <1>2, SectionsAre
  <1>4. Section(i - 1).offset = OffsetOf(im, i) /\ Section(i - 1).size = Len(BodyOf(im, s))
    BY <1>3, SectionHolds
  <1>5. PICK c, n \in Nat : c = SymSize(im.class) /\ c \in {16, 24} /\ n = Len(im.symbols)
    BY <1>1, SymbolTableFacts DEF SymSize
  <1>6. Len(BodyOf(im, s)) = c * n
    BY <1>1, <1>3, <1>5, BodyFacts, SymbolTableFacts
  <1>7. (c * n) \div c = n
    <2>1. (16 * n) \div 16 = n /\ (24 * n) \div 24 = n
      OBVIOUS
    <2>2. QED
      BY <1>5, <2>1
  <1>8. QED
    BY <1>2, <1>4, <1>5, <1>6, <1>7

(* A symbol as it is read.                                                  *)
Decoded(im, t, s) ==
    [name  |-> StringAt(im.sections[t].link, SymbolPlace(im, s)),
     type  |-> IF s.type > 4 THEN 0 ELSE s.type,
     value |-> s.value]

LEMMA SymbolsRead ==
    ASSUME NEW im, Reading(im), NEW t, IsTable(im, t)
    PROVE  SymbolsOf(t - 1) = [k \in 1 .. Len(im.symbols) |-> Decoded(im, t, im.symbols[k])]
  <1>1. WellFormed(im) /\ bytes = Whole(im) /\ class = im.class /\ order = im.order
    BY DEF Reading, OpenOf, class, order
  <1>2. PICK c \in {1, 2} : c = im.class
    BY <1>1, ImageParts
  <1>3. PICK stride \in Nat : stride = SymSize(c) /\ stride = SizeOf(SymFields(class))
    BY <1>1, <1>2, SizesAre DEF SymSize
  <1>4. PICK n \in Nat : n = Len(im.symbols)
    BY <1>1, SymbolTableFacts
  <1>5. Section(t - 1).size \div stride = n /\ Section(t - 1).offset = OffsetOf(im, t)
    BY <1>2, <1>3, <1>4, SymbolCount
  <1>6. PICK at \in Nat : at = OffsetOf(im, t)
    <2>1. t \in 1 .. Len(im.sections)
      BY DEF IsTable
    <2>2. Small(OffsetOf(im, t))
      BY <1>1, <2>1, ImageNumbers
    <2>3. QED
      BY <2>2 DEF Small
  <1>7. LinkOf(t - 1) = im.sections[t].link
    <2>1. t \in 1 .. Len(im.sections)
      BY DEF IsTable
    <2>2. QED
      BY <2>1, LinkRead
  <1> DEFINE h(k) == Header(SymFields(class), Section(t - 1).offset + k * stride, order)
             row(k) == [name |-> StringAt(LinkOf(t - 1), h(k - 1).name),
                        type |-> SymbolType(h(k - 1).info), value |-> h(k - 1).value]
  <1>8. SymbolsOf(t - 1) = [k \in 1 .. Section(t - 1).size \div stride |-> row(k)]
    BY <1>3 DEF SymbolsOf
  <1>9. ASSUME NEW k \in 1 .. n PROVE row(k) = Decoded(im, t, im.symbols[k])
    <2>1. PICK pos \in Nat : pos = at + stride * (k - 1) /\ pos = at + (k - 1) * stride
      <3>1. PICK l \in Nat : l = k - 1
        BY <1>4
      <3>2. PICK m \in Nat : m = l * stride /\ m = stride * l
        OBVIOUS
      <3>3. at + m \in Nat
        OBVIOUS
      <3>4. QED
        BY <3>1, <3>2, <3>3
    <2>2. PICK s \in SymbolSet : s = im.symbols[k]
      BY <1>1, <1>4, ImageParts
    <2>3. SymHolds(Header(SymFields(im.class), pos, im.order), im, im.symbols[k])
      BY <1>1, <1>2, <1>3, <1>4, <1>6, <2>1, SymRead
    <2>4. h(k - 1) = Header(SymFields(im.class), pos, im.order)
      BY <1>1, <1>5, <1>6, <2>1
    <2>5. /\ h(k - 1).name = SymbolPlace(im, s) /\ h(k - 1).value = s.value
          /\ h(k - 1).info = s.type + 16 * s.binding
      <3> HIDE DEF h
      <3>1. QED
        BY <2>2, <2>3, <2>4 DEF SymHolds, HasField
    <2> HIDE DEF h
    <2>6. SymbolType(h(k - 1).info) = IF s.type > 4 THEN 0 ELSE s.type
      <3>1. s.type \in 0 .. 15 /\ s.binding \in 0 .. 15
        BY DEF SymbolSet
      <3>2. QED
        BY <2>5, <3>1, InfoRead
    <2>7. QED
      BY <1>7, <2>2, <2>5, <2>6 DEF Decoded
  <1> HIDE DEF row, h
  <1>10. QED
    BY <1>4, <1>5, <1>8, <1>9

(* The names of symbols.                                                    *)
LEMMA SymbolNameRead ==
    ASSUME NEW im, Reading(im), NEW t, IsTable(im, t), im.defect # "link",
           NEW j \in 1 .. Len(im.symbols), NEW s, s = im.symbols[j]
    PROVE  StringAt(im.sections[t].link, SymbolPlace(im, s)) = IF im.defect = "symname" THEN Thrown ELSE Is(s.name)
  <1>1. WellFormed(im) /\ SymbolsWellFormed(im)
    BY DEF Reading, WellFormed
  <1>2. PICK table : table = SymbolNames(im) /\ table \in Seq(Byte)
    BY <1>1, SymbolTexts
  <1>3. PICK link \in 1 .. Len(im.sections) : link = im.sections[t].link + 1
    BY DEF IsTable
  <1>4. im.sections[link].type = 3 /\ im.sections[link].body = "strtab"
    BY <1>3 DEF IsTable
  <1>5. PICK l \in Nat : l = im.sections[t].link
    <2>1. t \in 1 .. Len(im.sections)
      BY DEF IsTable
    <2>2. Small(im.sections[t].link)
      BY <1>1, <2>1, ImageNumbers
    <2>3. QED
      BY <2>2 DEF Small
  <1>6. link - 1 = l
    BY <1>3, <1>5
  <1>7. Strings(l, table)
    <2>1. PICK sec \in SectionSet : sec = im.sections[link] /\ sec.type = 3 /\ sec.body = "strtab"
      BY <1>1, <1>4, SectionsAre
    <2>2. Section(link - 1).type = 3
      BY <2>1, SectionHolds, SMTT(30)
    <2>3. SectionData(link - 1) = IF sec.type = 8 THEN Null ELSE Is(BodyOf(im, sec))
      BY <2>1, DataRead
    <2>4. SectionData(link - 1) = Is(table)
      BY <1>1, <1>2, <2>1, <2>3, BodyFacts
    <2>5. QED
      BY <1>2, <1>6, <2>2, <2>4 DEF Strings
  <1>8. PICK name \in Text : name = s.name
    <2>1. s \in SymbolSet
      BY <1>1, ImageParts
    <2>2. QED
      BY <2>1 DEF SymbolSet
  <1>9. PICK place \in Nat : place = SymbolPlace(im, s)
    BY <1>1, SymbolPlaces
  <1>10. CASE im.defect = "symname"
    <2>1. place = 200
      BY <1>9, <1>10 DEF SymbolPlace
    <2>2. Len(table) <= place
      BY <1>1, <1>2, <1>10, <2>1 DEF SymbolsWellFormed
    <2>3. StringAt(l, place) = Thrown
      BY <1>7, <2>2, StringMissing
    <2>4. QED
      BY <1>5, <1>9, <1>10, <2>3
  <1>11. CASE im.defect # "symname"
    <2>1. Placed(table, place, Append(name, 0))
      BY <1>1, <1>2, <1>8, <1>9, <1>11, SymbolPlaces
    <2>2. StringAt(l, place) = Is(name)
      BY <1>7, <2>1, StringFound
    <2>3. QED
      BY <1>5, <1>8, <1>9, <1>11, <2>2
  <1>12. QED
    BY <1>10, <1>11

(* A symbol's answer: what its name is asked for gives.                     *)
Given(s, name) == IF s.name = name THEN <<<<IF s.type > 4 THEN 0 ELSE s.type, s.value>>>> ELSE <<>>

(* Of the table's symbols, the ones that match, once all can be read.       *)
LEMMA LookupReads ==
    ASSUME NEW im, Reading(im), NEW name
    PROVE  LookupSymbol(name) =
             IF im.defect \in {"link", "symname"} THEN Thrown
             ELSE Is(FlattenSeq([k \in DOMAIN im.symbols |-> Given(im.symbols[k], name)]))
  <1>1. WellFormed(im) /\ SymbolsWellFormed(im)
    BY DEF Reading, WellFormed
  <1>2. PICK n \in Nat : n = Len(im.sections) /\ n = Len(elf.sections)
    BY <1>1, SectionsAre DEF Reading, OpenOf
  <1>3. PICK t \in 1 .. n : IsTable(im, t)
    BY <1>1, <1>2, TableIs
  <1>4. PICK l \in 0 .. n - 1 : l = im.sections[t].link /\ l = LinkOf(t - 1)
    <2>1. im.sections[t].link + 1 \in 1 .. n
      BY <1>2, <1>3 DEF IsTable
    <2>2. im.sections[t].link \in Nat
      <3>1. Small(im.sections[t].link)
        BY <1>1, <1>2, ImageNumbers
      <3>2. QED
        BY <3>1 DEF Small
    <2>3. im.sections[t].link = LinkOf(t - 1)
      <3>1. t \in 1 .. Len(im.sections)
        BY <1>3 DEF IsTable
      <3>2. QED
        BY <3>1, LinkRead
    <2>4. QED
      BY <2>1, <2>2, <2>3
  <1>5. PICK m \in Nat : m = Len(im.symbols) /\ DOMAIN im.symbols = 1 .. m
    BY <1>1, ImageParts
  <1>6. SymbolsOf(t - 1) = [k \in 1 .. m |-> Decoded(im, t, im.symbols[k])]
    BY <1>3, <1>5, SymbolsRead
  <1> DEFINE tables == {i \in Numbers : Section(i).type \in {SHT.symtab, SHT.dynsym}}
             sound == \A i \in tables : /\ SectionData(i).ok /\ SectionData(LinkOf(i)).ok
                                        /\ Section(LinkOf(i)).type = SHT.strtab
             legible == \A i \in tables : \A k \in DOMAIN SymbolsOf(i) : SymbolsOf(i)[k].name.ok
             parts == [k \in 1 .. Len(elf.sections) |-> IF k - 1 \in tables THEN SymbolsOf(k - 1) ELSE <<>>]
             all == FlattenSeq(parts)
             Matching(s) == IF s.name.is = name THEN <<<<s.type, s.value>>>> ELSE <<>>
  <1>7. LookupSymbol(name) =
          IF sound /\ legible THEN Is(FlattenSeq([k \in DOMAIN all |-> Matching(all[k])])) ELSE Thrown
    BY DEF LookupSymbol
  <1>8. SHT.symtab = 2 /\ SHT.dynsym = 11 /\ SHT.strtab = 3
    BY DEF SHT
  <1>9. \A k \in 1 .. n : k - 1 \in tables <=> k = t
    <2>1. ASSUME NEW k \in 1 .. n PROVE k - 1 \in tables <=> k = t
      <3>1. k - 1 \in Numbers
        BY <1>2 DEF Numbers
      <3>2. Section(k - 1).type = im.sections[k].type
        BY <1>2, SectionsRead
      <3>3. im.sections[k].type \in {2, 11} <=> k = t
        BY <1>2, <1>3 DEF IsTable
      <3>4. QED
        BY <1>8, <3>1, <3>2, <3>3
    <2>2. QED
      BY <2>1
  <1>10. \A i \in tables : i = t - 1
    <2>1. ASSUME NEW i \in tables PROVE i = t - 1
      <3>1. PICK k \in 1 .. n : k - 1 = i
        <4>1. i \in 0 .. n - 1
          BY <1>2 DEF Numbers
        <4>2. i + 1 \in 1 .. n /\ (i + 1) - 1 = i
          BY <4>1
        <4>3. QED
          BY <4>2
      <3>2. k = t
        BY <1>9, <3>1
      <3>3. QED
        BY <3>1, <3>2
    <2>2. QED
      BY <2>1
  <1>11. t - 1 \in tables
    BY <1>9
  <1> HIDE DEF tables
  <1>12. l + 1 \in 1 .. n /\ (l + 1) - 1 = l
    OBVIOUS
  <1>13. /\ Section(l).type = im.sections[l + 1].type
         /\ SectionData(l) = IF im.sections[l + 1].type = 8 THEN Null ELSE Is(BodyOf(im, im.sections[l + 1]))
    <2>1. PICK k \in 1 .. n : k = l + 1 /\ k - 1 = l
      BY <1>12
    <2>2. /\ Section(k - 1).type = im.sections[k].type
          /\ SectionData(k - 1) = IF im.sections[k].type = 8 THEN Null ELSE Is(BodyOf(im, im.sections[k]))
      BY <1>2, SectionsRead
    <2>3. QED
      BY <2>1, <2>2
  <1>14. CASE im.defect = "link"
    <2>1. im.sections[l + 1].type # 3
      BY <1>3, <1>4, <1>14 DEF IsTable
    <2>2. ~sound
      BY <1>4, <1>8, <1>11, <1>13, <2>1
    <2> HIDE DEF sound, legible, all
    <2>3. QED
      BY <1>7, <1>14, <2>2
  <1>15. CASE im.defect = "symname"
    <2>1. 1 \in 1 .. m
      <3>1. im.symbols # <<>> /\ im.symbols \in Seq(SymbolSet)
        BY <1>1, <1>15, ImageParts DEF SymbolsWellFormed
      <3>2. Len(im.symbols) # 0
        BY <3>1
      <3>3. QED
        BY <1>5, <3>2
    <2>2. SymbolsOf(t - 1)[1].name = Thrown /\ 1 \in DOMAIN SymbolsOf(t - 1)
      <3>1. StringAt(im.sections[t].link, SymbolPlace(im, im.symbols[1])) = Thrown
        BY <1>3, <1>5, <1>15, <2>1, SymbolNameRead
      <3>2. QED
        BY <1>6, <2>1, <3>1 DEF Decoded
    <2>3. ~SymbolsOf(t - 1)[1].name.ok
      BY <2>2 DEF Thrown
    <2>4. ~legible
      BY <1>11, <2>2, <2>3
    <2> HIDE DEF sound, legible, all
    <2>5. QED
      BY <1>7, <1>15, <2>4
  <1>16. CASE im.defect \notin {"link", "symname"}
    <2>1. sound
      <3>1. SectionData(t - 1).ok
        <4>1. SectionData(t - 1) = IF im.sections[t].type = 8 THEN Null ELSE Is(BodyOf(im, im.sections[t]))
          BY <1>2, SectionsRead
        <4>2. QED
          BY <4>1 DEF Null, Is
      <3>2. SectionData(l).ok
        BY <1>13 DEF Null, Is
      <3>3. im.sections[l + 1].type = 3
        BY <1>3, <1>4, <1>16 DEF IsTable
      <3>4. QED
        BY <1>4, <1>8, <1>10, <1>13, <3>1, <3>2, <3>3
    <2>2. \A k \in 1 .. m : Decoded(im, t, im.symbols[k]).name = Is(im.symbols[k].name)
      <3>1. ASSUME NEW k \in 1 .. m PROVE Decoded(im, t, im.symbols[k]).name = Is(im.symbols[k].name)
        <4>1. StringAt(im.sections[t].link, SymbolPlace(im, im.symbols[k])) = Is(im.symbols[k].name)
          BY <1>3, <1>5, <1>16, SymbolNameRead
        <4>2. QED
          BY <4>1 DEF Decoded
      <3>2. QED
        BY <3>1
    <2>3. legible
      <3>1. ASSUME NEW k \in DOMAIN SymbolsOf(t - 1) PROVE SymbolsOf(t - 1)[k].name.ok
        <4>1. k \in 1 .. m /\ SymbolsOf(t - 1)[k] = Decoded(im, t, im.symbols[k])
          BY <1>6
        <4>2. SymbolsOf(t - 1)[k].name = Is(im.symbols[k].name)
          BY <2>2, <4>1
        <4>3. QED
          BY <4>2 DEF Is
      <3>2. QED
        BY <1>10, <3>1
    <2> DEFINE S == {Decoded(im, t, im.symbols[k]) : k \in 1 .. m}
    <2>4. SymbolsOf(t - 1) \in Seq(S)
      <3>1. SymbolsOf(t - 1) \in [1 .. m -> S]
        BY <1>6
      <3> HIDE DEF S
      <3>2. QED
        BY <3>1
    <2>5. parts \in [1 .. n -> Seq(S)]
      <3>1. ASSUME NEW k \in 1 .. n PROVE parts[k] \in Seq(S)
        <4>1. CASE k = t
          BY <1>2, <1>11, <2>4, <4>1
        <4>2. CASE k # t
          <5>1. parts[k] = <<>>
            BY <1>2, <1>9, <4>2
          <5>2. <<>> \in Seq(S)
            OBVIOUS
          <5>3. QED
            BY <5>1, <5>2
        <4>3. QED
          BY <4>1, <4>2
      <3> HIDE DEF S
      <3>2. QED
        BY <1>2, <3>1
    <2>6. parts[t] = SymbolsOf(t - 1) /\ \A k \in 1 .. n : k # t => parts[k] = <<>>
      BY <1>2, <1>9, <1>11
    <2> HIDE DEF S, parts
    <2>7. all = SymbolsOf(t - 1)
      BY <2>5, <2>6, FlattenOne
    <2>8. \A k \in 1 .. m : Matching(all[k]) = Given(im.symbols[k], name)
      <3>1. ASSUME NEW k \in 1 .. m PROVE Matching(all[k]) = Given(im.symbols[k], name)
        <4>1. all[k] = Decoded(im, t, im.symbols[k])
          BY <1>6, <2>7
        <4>2. all[k].name.is = im.symbols[k].name
          <5>1. all[k].name = Is(im.symbols[k].name)
            BY <2>2, <4>1
          <5>2. QED
            BY <5>1 DEF Is
        <4>3. /\ all[k].type = IF im.symbols[k].type > 4 THEN 0 ELSE im.symbols[k].type
              /\ all[k].value = im.symbols[k].value
          BY <4>1 DEF Decoded
        <4>4. QED
          BY <4>2, <4>3 DEF Given
      <3>2. QED
        BY <3>1
    <2>9. DOMAIN all = 1 .. m
      BY <1>6, <2>7
    <2> HIDE DEF all, Matching
    <2>10. [k \in DOMAIN all |-> Matching(all[k])] = [k \in DOMAIN im.symbols |-> Given(im.symbols[k], name)]
      BY <1>5, <2>8, <2>9
    <2> HIDE DEF sound, legible
    <2>11. QED
      BY <1>7, <1>16, <2>1, <2>3, <2>10
  <1>17. QED
    BY <1>14, <1>15, <1>16

(* The names kept are the right ones.                                       *)
NamesRight ==
    \A i \in DOMAIN names : /\ i + 1 \in DOMAIN image.sections /\ image.sections[i + 1].named
                            /\ names[i] = image.sections[i + 1].name

(* An opened file holds what was written, however much was asked since.     *)
FileRight ==
    /\ image \in Images /\ bytes = Written(image)
    /\ elf.state \in {"closed", "refused", "open"}
    /\ (elf.state = "refused") => image.defect \in Refusable
    /\ (elf.state = "open") => image.defect \notin Refusable /\ OpenOf(elf, image)

IInv == FileRight /\ NamesRight /\ (answer.kind # "none" => answer.is = Meaning(answer))

LEMMA IsReading ==
    ASSUME FileRight, elf.state = "open"
    PROVE  Reading(image)
  <1>1. WellFormed(image) /\ bytes = Written(image)
    BY ElfFileAssumption DEF FileRight
  <1>2. image.defect # "truncated"
    BY DEF FileRight, Refusable
  <1>3. bytes = Whole(image)
    BY <1>1, <1>2, WrittenFacts
  <1>4. QED
    BY <1>1, <1>3 DEF FileRight, Reading

(* A name is looked up, or was kept.                                        *)
LEMMA NamesAre ==
    ASSUME Reading(image), NamesRight, NEW n \in Nat, n = Len(image.sections)
    PROVE  /\ Numbers = 0 .. n - 1 /\ DOMAIN image.sections = 1 .. n
           /\ \A k \in 1 .. n : NameOf(k - 1) = IF image.sections[k].named THEN Is(image.sections[k].name) ELSE Thrown
  <1>1. WellFormed(image) /\ Len(elf.sections) = n
    BY DEF Reading, OpenOf
  <1>2. DOMAIN image.sections = 1 .. n
    BY <1>1, SectionsAre
  <1>3. ASSUME NEW k \in 1 .. n
        PROVE  NameOf(k - 1) = IF image.sections[k].named THEN Is(image.sections[k].name) ELSE Thrown
    <2>1. CASE k - 1 \in DOMAIN names
      <3>1. (k - 1) + 1 = k
        OBVIOUS
      <3>2. image.sections[k].named /\ names[k - 1] = image.sections[k].name
        BY <2>1, <3>1 DEF NamesRight
      <3>3. QED
        BY <2>1, <3>2 DEF NameOf
    <2>2. CASE k - 1 \notin DOMAIN names
      <3>1. StringAt(elf.hdr.shstrndx, Section(k - 1).name)
              = IF image.sections[k].named THEN Is(image.sections[k].name) ELSE Thrown
        BY NameRead
      <3>2. QED
        BY <2>2, <3>1 DEF NameOf
    <2>3. QED
      BY <2>1, <2>2
  <1>4. QED
    BY <1>1, <1>2, <1>3 DEF Numbers

LEMMA IsOne == \A x, y : Is(x) = Is(y) => x = y
  <1>1. \A x : Is(x).is = x
    BY DEF Is
  <1>2. QED
    BY <1>1

(* The sections that answer to a name, by number and as written.            *)
LEMMA HitsAre ==
    ASSUME Reading(image), NamesRight, NEW n \in Nat, n = Len(image.sections), NEW name
    PROVE  /\ Hits(name) \subseteq 0 .. n - 1 /\ Bads \subseteq 0 .. n - 1
           /\ Meant(name) \subseteq 1 .. n /\ Unreadable \subseteq 1 .. n
           /\ \A k \in 1 .. n : /\ k - 1 \in Hits(name) <=> k \in Meant(name)
                                /\ k - 1 \in Bads <=> k \in Unreadable
  <1>1. /\ Numbers = 0 .. n - 1 /\ DOMAIN image.sections = 1 .. n
        /\ \A k \in 1 .. n : NameOf(k - 1) = IF image.sections[k].named THEN Is(image.sections[k].name) ELSE Thrown
    BY NamesAre
  <1>2. ASSUME NEW k \in 1 .. n
        PROVE  /\ k - 1 \in Hits(name) <=> k \in Meant(name)
               /\ k - 1 \in Bads <=> k \in Unreadable
    <2>1. k - 1 \in Numbers
      BY <1>1
    <2>2. CASE image.sections[k].named
      <3>1. NameOf(k - 1) = Is(image.sections[k].name)
        BY <1>1, <2>2
      <3>2. NameOf(k - 1).ok /\ NameOf(k - 1).is = image.sections[k].name
        BY <3>1 DEF Is
      <3>3. NameOf(k - 1) = Is(name) <=> image.sections[k].name = name
        BY <3>1, IsOne
      <3>4. QED
        BY <1>1, <2>1, <2>2, <3>2, <3>3 DEF Hits, Bads, Meant, Unreadable
    <2>3. CASE ~image.sections[k].named
      <3>1. NameOf(k - 1) = Thrown
        BY <1>1, <2>3
      <3>2. ~NameOf(k - 1).ok /\ NameOf(k - 1) # Is(name)
        BY <3>1 DEF Thrown, Is
      <3>3. QED
        BY <1>1, <2>1, <2>3, <3>2 DEF Hits, Bads, Meant, Unreadable
    <2>4. QED
      BY <2>2, <2>3
  <1>3. QED
    BY <1>1, <1>2 DEF Hits, Bads, Meant, Unreadable

LEMMA MinShifted ==
    ASSUME NEW n \in Nat, NEW A, A \subseteq 0 .. n - 1, NEW B, B \subseteq 1 .. n, A # {},
           \A k \in 1 .. n : k - 1 \in A <=> k \in B
    PROVE  /\ Min(A) \in A /\ Min(B) \in B /\ Min(A) = Min(B) - 1 /\ Min(B) \in 1 .. n
           /\ \A j \in A : Min(A) <= j
  <1>1. A \in SUBSET Nat /\ B \in SUBSET Nat
    OBVIOUS
  <1>2. PICK a \in A : a = Min(A) /\ \A j \in A : a <= j
    BY <1>1, MinFacts
  <1>3. a + 1 \in 1 .. n /\ (a + 1) - 1 = a
    BY <1>2
  <1>4. a + 1 \in B
    BY <1>2, <1>3
  <1>5. PICK b \in B : b = Min(B) /\ \A k \in B : b <= k
    BY <1>1, <1>4, MinFacts
  <1>6. b \in 1 .. n /\ b - 1 \in A
    BY <1>5
  <1>7. a <= b - 1 /\ b <= a + 1
    BY <1>2, <1>4, <1>5, <1>6
  <1>8. QED
    BY <1>2, <1>3, <1>5, <1>6, <1>7

(* Looking for a section.                                                   *)
LEMMA SectionFound ==
    ASSUME Reading(image), NamesRight, NEW name
    PROVE  /\ GetSection(name) = MeantSection(name)
           /\ MeantSection(name).ok /\ MeantSection(name) # None =>
                 /\ First(name) \in 1 .. Len(image.sections)
                 /\ MeantSection(name) = Is(<<First(name) - 1>>)
           /\ \A i \in Looked(name) : /\ i + 1 \in DOMAIN image.sections /\ image.sections[i + 1].named
                                      /\ NameOf(i).is = image.sections[i + 1].name
  <1>1. PICK n \in Nat : n = Len(image.sections)
    BY SectionsAre DEF Reading
  <1>2. /\ Hits(name) \subseteq 0 .. n - 1 /\ Bads \subseteq 0 .. n - 1
        /\ Meant(name) \subseteq 1 .. n /\ Unreadable \subseteq 1 .. n
        /\ \A k \in 1 .. n : /\ k - 1 \in Hits(name) <=> k \in Meant(name)
                             /\ k - 1 \in Bads <=> k \in Unreadable
    BY <1>1, HitsAre
  <1>3. PICK A, B : A = Hits(name) \union Bads /\ B = Meant(name) \union Unreadable
    OBVIOUS
  <1>4. /\ A \subseteq 0 .. n - 1 /\ B \subseteq 1 .. n
        /\ \A k \in 1 .. n : k - 1 \in A <=> k \in B
    BY <1>2, <1>3
  <1>5. ASSUME NEW i \in Looked(name)
        PROVE  /\ i + 1 \in DOMAIN image.sections /\ image.sections[i + 1].named
               /\ NameOf(i).is = image.sections[i + 1].name
    <2>1. i \in Numbers /\ i \notin Bads
      BY DEF Looked
    <2>2. /\ Numbers = 0 .. n - 1 /\ DOMAIN image.sections = 1 .. n
          /\ \A k \in 1 .. n : NameOf(k - 1) = IF image.sections[k].named THEN Is(image.sections[k].name) ELSE Thrown
      BY <1>1, NamesAre
    <2>3. PICK k \in 1 .. n : k = i + 1 /\ k - 1 = i
      <3>1. i + 1 \in 1 .. n /\ (i + 1) - 1 = i
        BY <2>1, <2>2
      <3>2. QED
        BY <3>1
    <2>4. NameOf(i).ok
      BY <2>1 DEF Bads
    <2>5. image.sections[k].named
      BY <2>2, <2>3, <2>4 DEF Thrown
    <2>6. NameOf(i) = Is(image.sections[k].name)
      BY <2>2, <2>3, <2>5
    <2>7. QED
      BY <2>2, <2>3, <2>5, <2>6 DEF Is
  <1>6. /\ GetSection(name) = MeantSection(name)
        /\ MeantSection(name).ok /\ MeantSection(name) # None =>
              /\ First(name) \in 1 .. Len(image.sections)
              /\ MeantSection(name) = Is(<<First(name) - 1>>)
    <2>1. CASE A = {}
      <3>1. B = {}
        BY <1>4, <2>1
      <3>2. GetSection(name) = None /\ MeantSection(name) = None
        BY <1>3, <2>1, <3>1 DEF GetSection, MeantSection
      <3>3. QED
        BY <3>2
    <2>2. CASE A # {}
      <3>1. /\ Min(A) \in A /\ Min(B) \in B /\ Min(A) = Min(B) - 1 /\ Min(B) \in 1 .. n
        BY <1>4, <2>2, MinShifted
      <3>2. PICK f \in 1 .. n : f = First(name) /\ f = Min(B) /\ Min(A) = f - 1
        BY <1>3, <3>1 DEF First
      <3>3. (f - 1 \in Hits(name) <=> f \in Meant(name)) /\ (f - 1 \in Bads <=> f \in Unreadable)
        BY <1>2
      <3>4. f \in Unreadable => f \notin Meant(name)
        BY DEF Meant
      <3>5. CASE f \in Unreadable
        <4>1. GetSection(name) = Thrown
          BY <1>3, <2>2, <3>2, <3>3, <3>4, <3>5 DEF GetSection
        <4>2. MeantSection(name) = Thrown
          BY <3>2, <3>5 DEF MeantSection
        <4>3. QED
          BY <4>1, <4>2 DEF Thrown
      <3>6. CASE f \notin Unreadable
        <4>1. f \in Meant(name)
          BY <1>3, <3>1, <3>2, <3>6
        <4>2. GetSection(name) = Is(<<f - 1>>)
          BY <1>3, <2>2, <3>2, <3>3, <4>1 DEF GetSection
        <4>3. MeantSection(name) = Is(<<f - 1>>)
          BY <3>2, <3>6, <4>1 DEF MeantSection
        <4>4. QED
          BY <1>1, <3>2, <4>2, <4>3
      <3>7. QED
        BY <3>5, <3>6
    <2>3. QED
      BY <2>1, <2>2
  <1>7. QED
    BY <1>5, <1>6

LEMMA MeaningKept ==
    ASSUME image' = image
    PROVE  Meaning(answer)' = Meaning(answer')
  BY Zenon DEF Meaning, MeantSection, First, Meant, Unreadable

(* An answer given in a state is the right one.                             *)
RightAnswer(kind, of, is) == is = Meaning([kind |-> kind, of |-> of, is |-> is])

LEMMA SectionAnswer ==
    ASSUME Reading(image), NamesRight, NEW name
    PROVE  RightAnswer("section", name, GetSection(name))
  BY SectionFound DEF RightAnswer, Meaning

LEMMA NameAnswer ==
    ASSUME Reading(image), NamesRight, NEW i \in Numbers
    PROVE  /\ RightAnswer("name", <<i>>, NameOf(i))
           /\ NameOf(i).ok => /\ i + 1 \in DOMAIN image.sections /\ image.sections[i + 1].named
                              /\ NameOf(i).is = image.sections[i + 1].name
  <1>1. PICK n \in Nat : n = Len(image.sections)
    BY SectionsAre DEF Reading
  <1>2. /\ Numbers = 0 .. n - 1 /\ DOMAIN image.sections = 1 .. n
        /\ \A k \in 1 .. n : NameOf(k - 1) = IF image.sections[k].named THEN Is(image.sections[k].name) ELSE Thrown
    BY <1>1, NamesAre
  <1>3. PICK k \in 1 .. n : k = i + 1 /\ k - 1 = i
    <2>1. i + 1 \in 1 .. n /\ (i + 1) - 1 = i
      BY <1>2
    <2>2. QED
      BY <2>1
  <1>4. NameOf(i) = IF image.sections[k].named THEN Is(image.sections[k].name) ELSE Thrown
    BY <1>2, <1>3
  <1>5. RightAnswer("name", <<i>>, NameOf(i))
    <2>1. <<i>>[1] + 1 = k
      BY <1>3
    <2>2. QED
      BY <1>4, <2>1 DEF RightAnswer, Meaning
  <1>6. NameOf(i).ok => image.sections[k].named /\ NameOf(i).is = image.sections[k].name
    BY <1>4 DEF Thrown, Is
  <1>7. QED
    BY <1>2, <1>3, <1>5, <1>6

LEMMA DebugAnswer ==
    ASSUME Reading(image), NamesRight, NEW name
    PROVE  RightAnswer("debug", name, DwarfSection(name))
  <1>1. PICK found : found = GetSection(name) /\ found = MeantSection(name)
    BY SectionFound
  <1>2. CASE ~found.ok
    <2>1. DwarfSection(name) = Thrown
      BY <1>1, <1>2 DEF DwarfSection
    <2>2. ~MeantSection(name).ok
      BY <1>1, <1>2
    <2>3. Meaning([kind |-> "debug", of |-> name, is |-> Thrown]) = Thrown
      <3>1. None.ok
        BY DEF None, Is
      <3>2. MeantSection(name) # None
        BY <2>2, <3>1
      <3>3. QED
        BY <2>2, <3>2 DEF Meaning
    <2>4. QED
      BY <2>1, <2>3 DEF RightAnswer
  <1>3. CASE found = None
    <2>1. found.ok
      BY <1>3 DEF None, Is
    <2>2. QED
      BY <1>1, <1>3, <2>1 DEF RightAnswer, Meaning, DwarfSection
  <1>4. CASE found.ok /\ found # None
    <2>1. PICK f \in 1 .. Len(image.sections) : f = First(name) /\ found = Is(<<f - 1>>)
      BY <1>1, <1>4, SectionFound
    <2>2. found.is[1] = f - 1
      BY <2>1 DEF Is
    <2>3. SectionData(f - 1) = IF image.sections[f].type = 8 THEN Null ELSE Is(BodyOf(image, image.sections[f]))
      BY SectionsRead
    <2>4. DwarfSection(name) = SectionData(f - 1)
      BY <1>1, <1>4, <2>2 DEF DwarfSection
    <2>5. QED
      BY <1>1, <1>4, <2>1, <2>3, <2>4 DEF RightAnswer, Meaning
  <1>5. QED
    BY <1>2, <1>3, <1>4

LEMMA SymbolAnswer ==
    ASSUME Reading(image), NEW name
    PROVE  RightAnswer("symbol", name, LookupSymbol(name))
  <1>1. LookupSymbol(name) =
          IF image.defect \in {"link", "symname"} THEN Thrown
          ELSE Is(FlattenSeq([k \in DOMAIN image.symbols |-> Given(image.symbols[k], name)]))
    BY LookupReads
  <1>2. QED
    BY <1>1, Zenon DEF RightAnswer, Meaning, Given

LEMMA SegmentAnswer ==
    ASSUME Reading(image), NEW i \in 0 .. Len(elf.segments) - 1
    PROVE  RightAnswer("segment", <<i>>, SegmentData(i))
  <1>1. PICK n \in Nat : n = Len(image.segments) /\ n = Len(elf.segments)
    BY SegmentsAre DEF Reading, OpenOf
  <1>2. PICK k \in 1 .. n : k = i + 1 /\ k - 1 = i
    <2>1. i + 1 \in 1 .. n /\ (i + 1) - 1 = i
      BY <1>1
    <2>2. QED
      BY <2>1
  <1>3. SegmentData(k - 1) = Is(BodyOf(image, image.sections[image.segments[k]]))
    BY <1>1, SegmentRead
  <1>4. <<i>>[1] + 1 = k
    BY <1>2
  <1>5. QED
    BY <1>2, <1>3, <1>4 DEF RightAnswer, Meaning

(* What an answer changes.                                                  *)
LEMMA AnswerKeeps ==
    ASSUME IInv, NEW kind, NEW of, NEW is, Asks(kind, of, is), RightAnswer(kind, of, is), NamesRight'
    PROVE  IInv'
  <1>1. image' = image /\ bytes' = bytes /\ elf' = elf
    BY DEF Asks
  <1>2. FileRight'
    BY <1>1 DEF IInv, FileRight, OpenOf
  <1>3. answer'.is = Meaning(answer')
    <2>1. answer' = [kind |-> kind, of |-> of, is |-> is]
      BY DEF Asks
    <2>2. QED
      BY <2>1 DEF RightAnswer
  <1>4. answer'.is = Meaning(answer)'
    BY <1>1, <1>3, MeaningKept
  <1>5. QED
    BY <1>2, <1>4 DEF IInv

LEMMA StartsRight == Init => IInv
  <1>1. SUFFICES ASSUME Init PROVE IInv
    OBVIOUS
  <1>2. FileRight
    BY <1>1 DEF Init, FileRight, NoFile, Refused
  <1>3. NamesRight
    BY <1>1 DEF Init, NamesRight
  <1>4. answer.kind = "none"
    BY <1>1 DEF Init, NoAnswer
  <1>5. QED
    BY <1>2, <1>3, <1>4 DEF IInv

LEMMA OpenRight == ASSUME IInv, Open PROVE IInv'
  <1>1. WellFormed(image) /\ bytes = Written(image)
    BY ElfFileAssumption DEF IInv, FileRight
  <1>2. elf' = Opened /\ image' = image /\ bytes' = bytes /\ names' = names /\ answer' = answer
    BY DEF Open
  <1>3. IF image.defect \in Refusable THEN Opened = Refused ELSE OpenOf(Opened, image)
    BY <1>1, OpenedIs
  <1>4. FileRight'
    <2>1. CASE image.defect \in Refusable
      <3>1. elf'.state = "refused"
        BY <1>2, <1>3, <2>1 DEF Refused
      <3>2. QED
        BY <1>2, <2>1, <3>1 DEF IInv, FileRight
    <2>2. CASE image.defect \notin Refusable
      <3>1. OpenOf(elf', image)
        BY <1>2, <1>3, <2>2
      <3>2. elf'.state = "open"
        BY <3>1 DEF OpenOf
      <3>3. QED
        BY <1>2, <2>2, <3>1, <3>2 DEF IInv, FileRight, OpenOf
    <2>3. QED
      BY <2>1, <2>2
  <1>5. NamesRight'
    BY <1>2 DEF IInv, NamesRight
  <1>6. answer'.kind # "none" => answer'.is = Meaning(answer)'
    BY <1>2, MeaningKept DEF IInv
  <1>7. QED
    BY <1>4, <1>5, <1>6 DEF IInv

(* Looking for a section keeps the names on the way.                        *)
LEMMA KeptRight ==
    ASSUME IInv, Reading(image), NEW name, names' = Kept(name), image' = image
    PROVE  NamesRight'
  <1>1. NamesRight
    BY DEF IInv
  <1>2. \A i \in Looked(name) : /\ i + 1 \in DOMAIN image.sections /\ image.sections[i + 1].named
                                 /\ NameOf(i).is = image.sections[i + 1].name
    BY <1>1, SectionFound
  <1>3. ASSUME NEW i \in DOMAIN names'
        PROVE  /\ i + 1 \in DOMAIN image.sections /\ image.sections[i + 1].named
               /\ names'[i] = image.sections[i + 1].name
    <2>1. i \in DOMAIN names \union Looked(name) /\ names'[i] = NameOf(i).is
      BY <1>3 DEF Kept
    <2>2. CASE i \in DOMAIN names
      <3>1. NameOf(i) = Is(names[i])
        BY <2>2 DEF NameOf
      <3>2. NameOf(i).is = names[i]
        BY <3>1 DEF Is
      <3>3. QED
        BY <1>1, <2>1, <2>2, <3>2 DEF NamesRight
    <2>3. CASE i \in Looked(name)
      BY <1>2, <2>1, <2>3
    <2>4. QED
      BY <2>1, <2>2, <2>3
  <1>4. QED
    BY <1>3 DEF NamesRight

LEMMA NameKept ==
    ASSUME IInv, Reading(image), NEW i \in Numbers, image' = image,
           names' = IF NameOf(i).ok THEN [j \in DOMAIN names \union {i} |-> NameOf(j).is] ELSE names
    PROVE  NamesRight'
  <1>1. NamesRight
    BY DEF IInv
  <1>2. CASE ~NameOf(i).ok
    BY <1>1, <1>2 DEF NamesRight
  <1>3. CASE NameOf(i).ok
    <2>1. /\ i + 1 \in DOMAIN image.sections /\ image.sections[i + 1].named
          /\ NameOf(i).is = image.sections[i + 1].name
      BY <1>1, <1>3, NameAnswer
    <2>2. ASSUME NEW j \in DOMAIN names'
          PROVE  /\ j + 1 \in DOMAIN image.sections /\ image.sections[j + 1].named
                 /\ names'[j] = image.sections[j + 1].name
      <3>1. j \in DOMAIN names \union {i} /\ names'[j] = NameOf(j).is
        BY <1>3, <2>2
      <3>2. CASE j \in DOMAIN names
        <4>1. NameOf(j) = Is(names[j])
          BY <3>2 DEF NameOf
        <4>2. NameOf(j).is = names[j]
          BY <4>1 DEF Is
        <4>3. QED
          BY <1>1, <3>1, <3>2, <4>2 DEF NamesRight
      <3>3. CASE j = i
        BY <2>1, <3>1, <3>3
      <3>4. QED
        BY <3>1, <3>2, <3>3
    <2>3. QED
      BY <2>2 DEF NamesRight
  <1>4. QED
    BY <1>2, <1>3

LEMMA StepsRight == IInv /\ [Next]_vars => IInv'
  <1>1. SUFFICES ASSUME IInv, [Next]_vars PROVE IInv'
    OBVIOUS
  <1>2. ASSUME NEW kind, NEW of, NEW is, Asks(kind, of, is)
        PROVE  Reading(image) /\ image' = image
    <2>1. elf.state = "open" /\ image' = image
      BY <1>2 DEF Asks
    <2>2. QED
      BY <1>1, <2>1, IsReading DEF IInv
  <1>3. NamesRight
    BY <1>1 DEF IInv
  <1>4. (names' = names /\ image' = image) => NamesRight'
    BY <1>3 DEF NamesRight
  <1>5. CASE Open
    BY <1>1, <1>5, OpenRight
  <1>6. ASSUME NEW name, AskSection(name) PROVE IInv'
    <2>1. Asks("section", name, GetSection(name)) /\ names' = Kept(name)
      BY <1>6 DEF AskSection
    <2>2. Reading(image) /\ image' = image
      BY <1>2, <2>1
    <2>3. RightAnswer("section", name, GetSection(name)) /\ NamesRight'
      BY <1>1, <1>3, <2>1, <2>2, SectionAnswer, KeptRight
    <2>4. QED
      BY <1>1, <2>1, <2>3, AnswerKeeps
  <1>7. ASSUME NEW name, AskDwarf(name) PROVE IInv'
    <2>1. Asks("debug", name, DwarfSection(name)) /\ names' = Kept(name)
      BY <1>7 DEF AskDwarf
    <2>2. Reading(image) /\ image' = image
      BY <1>2, <2>1
    <2>3. RightAnswer("debug", name, DwarfSection(name)) /\ NamesRight'
      BY <1>1, <1>3, <2>1, <2>2, DebugAnswer, KeptRight
    <2>4. QED
      BY <1>1, <2>1, <2>3, AnswerKeeps
  <1>8. ASSUME NEW name, AskSymbol(name) PROVE IInv'
    <2>1. Asks("symbol", name, LookupSymbol(name)) /\ names' = names
      BY <1>8 DEF AskSymbol
    <2>2. Reading(image) /\ image' = image
      BY <1>2, <2>1
    <2>3. RightAnswer("symbol", name, LookupSymbol(name)) /\ NamesRight'
      BY <1>4, <2>1, <2>2, SymbolAnswer
    <2>4. QED
      BY <1>1, <2>1, <2>3, AnswerKeeps
  <1>9. ASSUME NEW i \in 0 .. Len(elf.segments) - 1, AskSegment(i) PROVE IInv'
    <2>1. Asks("segment", <<i>>, SegmentData(i)) /\ names' = names
      BY <1>9 DEF AskSegment
    <2>2. Reading(image) /\ image' = image
      BY <1>2, <2>1
    <2>3. RightAnswer("segment", <<i>>, SegmentData(i)) /\ NamesRight'
      BY <1>4, <2>1, <2>2, SegmentAnswer
    <2>4. QED
      BY <1>1, <2>1, <2>3, AnswerKeeps
  <1>10. ASSUME NEW i \in Numbered \intersect Numbers, AskName(i) PROVE IInv'
    <2>1. /\ Asks("name", <<i>>, NameOf(i))
          /\ names' = IF NameOf(i).ok THEN [j \in DOMAIN names \union {i} |-> NameOf(j).is] ELSE names
      BY <1>10 DEF AskName
    <2>2. Reading(image) /\ image' = image
      BY <1>2, <2>1
    <2>3. RightAnswer("name", <<i>>, NameOf(i))
      BY <1>3, <2>2, NameAnswer
    <2>4. NamesRight'
      BY <1>1, <2>1, <2>2, NameKept
    <2>5. QED
      BY <1>1, <2>1, <2>3, <2>4, AnswerKeeps
  <1>11. CASE UNCHANGED vars
    <2>1. image' = image /\ bytes' = bytes /\ elf' = elf /\ names' = names /\ answer' = answer
      BY <1>11 DEF vars
    <2>2. FileRight'
      BY <1>1, <2>1 DEF IInv, FileRight, OpenOf
    <2>3. answer'.kind # "none" => answer'.is = Meaning(answer)'
      BY <1>1, <2>1, MeaningKept DEF IInv
    <2>4. QED
      BY <1>4, <2>1, <2>2, <2>3 DEF IInv
  <1>12. QED
    BY <1>1, <1>5, <1>6, <1>7, <1>8, <1>9, <1>10, <1>11 DEF Next

(* A file of any class and byte order, with any sections, segments and      *)
(* symbols and any of the defects, is refused exactly when it has to be,    *)
(* and answers with what was written, whatever was asked and kept before    *)
(* (elf::elf, section::get_name, elf::get_section, lookup_symbol).          *)
THEOREM FilesAnswerAsWritten == Spec => []AnswersAreTheImages
  <1>1. IInv => AnswersAreTheImages
    BY DEF IInv, FileRight, AnswersAreTheImages
  <1>2. QED
    BY <1>1, StartsRight, StepsRight, PTL DEF Spec

-------------------------------------------------------------------------------
(* What units keep is what the file says, for all files.                    *)

VARIABLES units, type_units, have_type_units, sections

Dw == INSTANCE UnitCaches

LEMMA DwOperators ==
    \A S : Dw!Max(S) = Max(S) /\ Dw!Min(S) = Min(S) /\ Dw!Cardinality(S) = Cardinality(S)
  BY DEF Dw!Max, Max, Dw!Min, Min, Dw!Cardinality, Cardinality

Tables == Seq(Dw!Abbrev)

(* A cache that stands for its unit's abbreviations.                        *)
CacheSound(c, table) ==
    /\ DOMAIN c = DOMAIN Dw!NoCache
    /\ c.have_abbrevs \in BOOLEAN
    /\ c.have_abbrevs => /\ Dw!Bad(table) = {}
                         /\ \A code \in Nat \ {0} : Dw!GetAbbrev(c, code) = Dw!EntryOf(table, code)
    /\ ~c.have_abbrevs => c.vec = <<>> /\ (Dw!Bad(table) = {} => c.map = <<>>)

(* A DIE that was read in full; or a valid one that was read half, which    *)
(* only a unit that threw while it was (t) has.                             *)
WholeDie(d, table, code) ==
    /\ Dw!Bad(table) = {} /\ code # 0 /\ Dw!Coded(table, code) # {}
    /\ d.abbrev = Dw!EntryOf(table, code) /\ d.attrs = Len(d.abbrev.attributes)
    /\ \A i \in DOMAIN d.abbrev.attributes : d.abbrev.attributes[i].skips
HalfDie(table, code, t) == t /\ Dw!Bad(table) = {} /\ Dw!DieOf(table, code) = Dw!Throws
DieSound(d, table, code, t) == Dw!Valid(d) => WholeDie(d, table, code) \/ HalfDie(table, code, t)

-------------------------------------------------------------------------------
(* Tables of abbreviations.                                                 *)
LEMMA AbbrevFacts ==
    ASSUME NEW table \in Tables
    PROVE  /\ Len(table) \in Nat /\ DOMAIN table = 1 .. Len(table)
           /\ \A i \in DOMAIN table : /\ table[i] \in Dw!Abbrev /\ table[i].code \in Nat \ {0}
                                      /\ table[i].attributes \in Seq(Dw!Attribute)
           /\ Dw!Bad(table) = {} => Dw!Read(table) = DOMAIN table
  <1>1. Len(table) \in Nat /\ DOMAIN table = 1 .. Len(table)
    BY DEF Tables
  <1>2. \A i \in DOMAIN table : table[i] \in Dw!Abbrev
    BY <1>1 DEF Tables
  <1>3. \A a \in Dw!Abbrev : a.code \in Nat \ {0} /\ a.attributes \in Seq(Dw!Attribute)
    BY DEF Dw!Abbrev
  <1>4. Dw!Bad(table) = {} => Dw!Read(table) = DOMAIN table
    BY <1>1 DEF Dw!Bad, Dw!Read
  <1>5. QED
    BY <1>1, <1>2, <1>3, <1>4

LEMMA EntryFacts ==
    ASSUME NEW table \in Tables, NEW code \in Nat
    PROVE  /\ Dw!Coded(table, code) # {} => /\ Dw!EntryOf(table, code) \in Dw!Abbrev
                                         /\ Dw!EntryOf(table, code).code = code
                                         /\ Dw!EntryOf(table, code) # Dw!NoEntry
           /\ Dw!Coded(table, code) = {} => Dw!EntryOf(table, code) = Dw!NoEntry
           /\ Dw!Coded(table, 0) = {}
  <1>1. /\ Len(table) \in Nat /\ DOMAIN table = 1 .. Len(table)
        /\ \A i \in DOMAIN table : table[i] \in Dw!Abbrev /\ table[i].code \in Nat \ {0}
    BY AbbrevFacts
  <1>2. Dw!Coded(table, 0) = {}
    BY <1>1 DEF Dw!Coded
  <1>3. ASSUME Dw!Coded(table, code) # {}
        PROVE  /\ Dw!EntryOf(table, code) \in Dw!Abbrev /\ Dw!EntryOf(table, code).code = code
               /\ Dw!EntryOf(table, code) # Dw!NoEntry
    <2>1. Dw!Coded(table, code) \in SUBSET (0 .. Len(table))
      BY <1>1 DEF Dw!Coded
    <2>2. Max(Dw!Coded(table, code)) \in Dw!Coded(table, code)
      BY <1>1, <1>3, <2>1, MaxFacts
    <2>3. Dw!EntryOf(table, code) = table[Max(Dw!Coded(table, code))]
      BY DwOperators, <1>3 DEF Dw!EntryOf
    <2>4. Dw!EntryOf(table, code) \in Dw!Abbrev /\ Dw!EntryOf(table, code).code = code /\ code # 0
      BY <1>1, <1>2, <1>3, <2>2, <2>3 DEF Dw!Coded
    <2>5. Dw!NoEntry.code = 0
      BY DEF Dw!NoEntry
    <2>6. QED
      BY <2>4, <2>5
  <1>4. Dw!Coded(table, code) = {} => Dw!EntryOf(table, code) = Dw!NoEntry
    BY DEF Dw!EntryOf
  <1>5. QED
    BY <1>2, <1>3, <1>4

(* The map that a table which can be read is entered in.                    *)
LEMMA EnteredFacts ==
    ASSUME NEW table \in Tables, Dw!Bad(table) = {}
    PROVE  LET map == Dw!Entered(<<>>, table)
           IN  /\ \A code : code \in DOMAIN map <=> Dw!Coded(table, code) # {}
               /\ \A code \in DOMAIN map : map[code] = Dw!EntryOf(table, code)
               /\ \E b \in Nat : DOMAIN map \in SUBSET (0 .. b)
  <1> DEFINE map == Dw!Entered(<<>>, table)
             Of(code) == {i \in Dw!Read(table) : table[i].code = code}
  <1>1. /\ Len(table) \in Nat /\ DOMAIN table = 1 .. Len(table)
        /\ \A i \in DOMAIN table : table[i].code \in Nat
        /\ Dw!Read(table) = DOMAIN table
    BY AbbrevFacts
  <1>2. \A code : Of(code) = Dw!Coded(table, code)
    BY <1>1 DEF Dw!Coded
  <1>3. map = [code \in DOMAIN <<>> \union {table[i].code : i \in Dw!Read(table)} |->
                  IF Of(code) = {} THEN <<>>[code] ELSE table[Max(Of(code))]]
    BY DwOperators DEF Dw!Entered
  <1>4. DOMAIN <<>> = {}
    OBVIOUS
  <1> HIDE DEF map, Of
  <1>5. DOMAIN map = {table[i].code : i \in DOMAIN table}
    BY <1>1, <1>3, <1>4
  <1>6. \A code : code \in DOMAIN map <=> Dw!Coded(table, code) # {}
    BY <1>5 DEF Dw!Coded
  <1>7. \A code \in DOMAIN map : map[code] = Dw!EntryOf(table, code)
    BY DwOperators, <1>2, <1>3, <1>6 DEF Dw!EntryOf
  <1>8. \E b \in Nat : DOMAIN map \in SUBSET (0 .. b)
    <2> DEFINE f == [i \in 1 .. Len(table) |-> table[i].code]
    <2>1. \A i \in 1 .. Len(table) : f[i] = table[i].code /\ f[i] \in Nat
      BY <1>1
    <2> HIDE DEF f
    <2>2. PICK b \in Nat : \A i \in 1 .. Len(table) : f[i] <= b
      BY <1>1, <2>1, BoundExists
    <2>3. DOMAIN map \in SUBSET (0 .. b)
      BY <1>1, <1>5, <2>1, <2>2
    <2>4. QED
      BY <2>3
  <1>9. QED
    BY <1>6, <1>7, <1>8 DEF map

(* force_abbrevs: it throws for a table that cannot be read, every time,    *)
(* and has the table otherwise.                                             *)
LEMMA ForceFacts ==
    ASSUME NEW table \in Tables, NEW c, CacheSound(c, table)
    PROVE  LET forced == Dw!ForceAbbrevs(c, table)
           IN  /\ forced.ok \in BOOLEAN /\ (forced.ok <=> Dw!Bad(table) = {})
               /\ CacheSound(forced.c, table) /\ (forced.ok => forced.c.have_abbrevs)
               /\ forced.c.root = c.root /\ forced.c.type = c.type /\ forced.c.lt = c.lt
  <1> DEFINE forced == Dw!ForceAbbrevs(c, table)
             map == Dw!Entered(c.map, table)
             highest == Max({0} \union DOMAIN map)
             vec == [i \in 1 .. highest + 1 |-> IF i - 1 \in DOMAIN map THEN map[i - 1] ELSE Dw!NoEntry]
             dense == [c EXCEPT !.have_abbrevs = TRUE, !.vec = vec, !.map = <<>>]
             sparse == [c EXCEPT !.have_abbrevs = TRUE, !.map = map]
             broken == [c EXCEPT !.map = map]
  <1>1. DOMAIN c = {"have_abbrevs", "vec", "map", "root", "type", "lt"} /\ c.have_abbrevs \in BOOLEAN
    BY DEF CacheSound, Dw!NoCache
  <1>2. CASE c.have_abbrevs
    <2>1. forced = [ok |-> TRUE, c |-> c]
      BY <1>2 DEF Dw!ForceAbbrevs
    <2>2. forced.ok = TRUE /\ forced.c = c
      BY <2>1
    <2>3. Dw!Bad(table) = {}
      BY <1>2 DEF CacheSound
    <2> HIDE DEF forced
    <2>4. QED
      BY <1>2, <2>2, <2>3 DEF forced
  <1>3. CASE ~c.have_abbrevs /\ Dw!Bad(table) # {}
    <2>1. forced = [ok |-> FALSE, c |-> broken]
      BY <1>3 DEF Dw!ForceAbbrevs
    <2>2. /\ DOMAIN broken = DOMAIN c /\ broken.have_abbrevs = c.have_abbrevs /\ broken.vec = c.vec
          /\ broken.root = c.root /\ broken.type = c.type /\ broken.lt = c.lt
      BY <1>1
    <2> HIDE DEF broken
    <2>3. QED
      BY <1>3, <2>1, <2>2 DEF CacheSound
  <1>4. CASE ~c.have_abbrevs /\ Dw!Bad(table) = {}
    <2>1. forced = [ok |-> TRUE, c |-> IF highest * 10 < Cardinality(DOMAIN map) * 15 THEN dense ELSE sparse]
      BY DwOperators, <1>4 DEF Dw!ForceAbbrevs
    <2>2. c.vec = <<>> /\ map = Dw!Entered(<<>>, table)
      BY <1>4 DEF CacheSound
    <2>3. /\ \A code : code \in DOMAIN map <=> Dw!Coded(table, code) # {}
          /\ \A code \in DOMAIN map : map[code] = Dw!EntryOf(table, code)
          /\ \E b \in Nat : DOMAIN map \in SUBSET (0 .. b)
      BY <1>4, <2>2, EnteredFacts
    <2>4. /\ DOMAIN sparse = DOMAIN c /\ sparse.have_abbrevs = TRUE /\ sparse.vec = c.vec
          /\ sparse.map = map
          /\ sparse.root = c.root /\ sparse.type = c.type /\ sparse.lt = c.lt
      BY <1>1
    <2>5. /\ DOMAIN dense = DOMAIN c /\ dense.have_abbrevs = TRUE /\ dense.vec = vec
          /\ dense.root = c.root /\ dense.type = c.type /\ dense.lt = c.lt
      BY <1>1
    <2>6. \A code \in Nat : code \notin DOMAIN map => Dw!EntryOf(table, code) = Dw!NoEntry
      BY <2>3, EntryFacts
    <2> HIDE DEF map, dense, sparse, forced
    <2>7. CacheSound(sparse, table)
      <3>1. \A code \in Nat \ {0} : Dw!GetAbbrev(sparse, code) = Dw!EntryOf(table, code)
        BY <2>2, <2>3, <2>4, <2>6 DEF Dw!GetAbbrev
      <3>2. QED
        BY <1>1, <1>4, <2>4, <3>1 DEF CacheSound
    <2>8. CacheSound(dense, table)
      <3>1. highest \in Nat /\ \A code \in DOMAIN map : code <= highest
        <4>1. PICK b \in Nat : DOMAIN map \in SUBSET (0 .. b)
          BY <2>3
        <4>2. {0} \union DOMAIN map \in SUBSET (0 .. b) /\ {0} \union DOMAIN map # {}
          BY <4>1
        <4>3. /\ Max({0} \union DOMAIN map) \in {0} \union DOMAIN map
              /\ \A i \in {0} \union DOMAIN map : i <= Max({0} \union DOMAIN map)
          BY <4>2, MaxFacts
        <4>4. QED
          BY <4>1, <4>3
      <3> HIDE DEF highest
      <3>2. vec # <<>> /\ Len(vec) = highest + 1
        BY <3>1
      <3>3. ASSUME NEW code \in Nat \ {0} PROVE Dw!GetAbbrev(dense, code) = Dw!EntryOf(table, code)
        <4>1. CASE code < Len(vec)
          <5>1. code + 1 \in 1 .. highest + 1 /\ (code + 1) - 1 = code
            BY <3>1, <3>2, <4>1
          <5>2. vec[code + 1] = IF code \in DOMAIN map THEN map[code] ELSE Dw!NoEntry
            BY <5>1
          <5>3. Dw!GetAbbrev(dense, code) = vec[code + 1]
            BY <2>5, <3>2, <4>1 DEF Dw!GetAbbrev
          <5>4. QED
            BY <2>3, <2>6, <5>2, <5>3
        <4>2. CASE ~(code < Len(vec))
          <5>1. code \notin DOMAIN map
            BY <3>1, <3>2, <4>2
          <5> HIDE DEF vec
          <5>2. Dw!GetAbbrev(dense, code) = Dw!NoEntry
            BY <2>5, <3>2, <4>2 DEF Dw!GetAbbrev
          <5>3. QED
            BY <2>6, <5>1, <5>2
        <4>3. QED
          BY <4>1, <4>2
      <3> HIDE DEF vec
      <3>4. QED
        BY <1>1, <1>4, <2>5, <3>3 DEF CacheSound
    <2>9. QED
      BY <1>4, <2>1, <2>4, <2>5, <2>7, <2>8 DEF forced
  <1>5. QED
    BY <1>1, <1>2, <1>3, <1>4

(* die::read of a table that is had.                                        *)
LEMMA ReadFacts ==
    ASSUME NEW table \in Tables, NEW code \in Nat, NEW c, CacheSound(c, table), c.have_abbrevs
    PROVE  LET read == Dw!ReadDie(c, code)
           IN  /\ read.ok \in BOOLEAN
               /\ read.ok <=> Dw!DieOf(table, code) # Dw!Throws
               /\ read.ok => Dw!Gives(read.die) = Dw!DieOf(table, code) /\ (code = 0 => read.die = Dw!NullDie)
                             /\ (code # 0 => WholeDie(read.die, table, code))
               /\ Dw!Valid(read.die) => Dw!Coded(table, code) # {} /\ code # 0
  <1> DEFINE entry == Dw!GetAbbrev(c, code)
             stuck == {i \in DOMAIN entry.attributes : ~entry.attributes[i].skips}
             read == Dw!ReadDie(c, code)
  <1>1. Dw!Bad(table) = {} /\ (code # 0 => entry = Dw!EntryOf(table, code))
    BY DEF CacheSound
  <1>2. CASE code = 0
    <2>1. read = [ok |-> TRUE, die |-> Dw!NullDie]
      BY <1>2 DEF Dw!ReadDie
    <2>2. Dw!DieOf(table, code) = Dw!Gives(Dw!NullDie)
      BY <1>1, <1>2 DEF Dw!DieOf
    <2>3. Dw!Gives(Dw!NullDie).ok = TRUE /\ Dw!Throws.ok = FALSE /\ ~Dw!Valid(Dw!NullDie)
      BY DEF Dw!Gives, Dw!Throws, Dw!Valid, Dw!NullDie
    <2>4. read.ok = TRUE /\ read.die = Dw!NullDie
      BY <2>1
    <2>5. Dw!Gives(Dw!NullDie) # Dw!Throws
      BY <2>3
    <2> HIDE DEF read
    <2>6. QED
      BY <1>2, <2>2, <2>3, <2>4, <2>5 DEF read
  <1>3. CASE code # 0
    <2>1. read = [ok |-> entry # Dw!NoEntry /\ stuck = {},
                  die |-> [abbrev |-> entry,
                           attrs |-> IF stuck = {} THEN Len(entry.attributes) ELSE Min(stuck)]]
      BY DwOperators, <1>3 DEF Dw!ReadDie
    <2>2. entry = Dw!EntryOf(table, code)
      BY <1>1, <1>3
    <2> HIDE DEF entry, read
    <2>3. CASE Dw!Coded(table, code) = {}
      <3>1. entry = Dw!NoEntry /\ Dw!DieOf(table, code) = Dw!Throws
        BY <1>3, <2>2, <2>3, EntryFacts DEF Dw!DieOf
      <3>2. read.ok = FALSE /\ read.die.abbrev = Dw!NoEntry
        BY <2>1, <3>1
      <3>3. ~Dw!Valid(read.die)
        BY <3>2 DEF Dw!Valid
      <3>4. QED
        BY <1>3, <3>1, <3>2, <3>3 DEF read
    <2>4. CASE Dw!Coded(table, code) # {}
      <3>1. entry \in Dw!Abbrev /\ entry.code = code /\ entry # Dw!NoEntry
        BY <2>2, <2>4, EntryFacts
      <3>2. Dw!DieOf(table, code) = IF stuck # {} THEN Dw!Throws
                                 ELSE [ok |-> TRUE, is |-> <<code, Len(entry.attributes)>>]
        BY <1>1, <1>3, <2>2, <2>4 DEF Dw!DieOf
      <3>3. read.ok <=> stuck = {}
        BY <2>1, <3>1
      <3>4. read.die.abbrev = entry /\ (stuck = {} => read.die.attrs = Len(entry.attributes))
        BY <2>1
      <3>5. Dw!DieOf(table, code) # Dw!Throws <=> stuck = {}
        BY <3>2 DEF Dw!Throws
      <3>6. stuck = {} => Dw!Gives(read.die) = Dw!DieOf(table, code)
        BY <3>1, <3>2, <3>4 DEF Dw!Gives
      <3>7. stuck = {} => WholeDie(read.die, table, code)
        BY <1>1, <1>3, <2>2, <2>4, <3>4 DEF WholeDie
      <3>8. read.ok \in BOOLEAN
        BY <2>1
      <3> HIDE DEF stuck
      <3>9. QED
        BY <1>3, <2>4, <3>3, <3>5, <3>6, <3>7, <3>8 DEF read
    <2>5. QED
      BY <2>3, <2>4
  <1>4. QED
    BY <1>2, <1>3

-------------------------------------------------------------------------------
(* Caches with the same abbreviations; DIEs.                                *)
LEMMA SameAbbrevs ==
    ASSUME NEW table, NEW c, NEW d, CacheSound(c, table), DOMAIN d = DOMAIN c,
           d.have_abbrevs = c.have_abbrevs, d.vec = c.vec, d.map = c.map
    PROVE  CacheSound(d, table)
  <1>1. \A code : Dw!GetAbbrev(d, code) = Dw!GetAbbrev(c, code)
    BY DEF Dw!GetAbbrev
  <1>2. QED
    BY <1>1, Zenon DEF CacheSound

LEMMA WholeGives ==
    ASSUME NEW table \in Tables, NEW code \in Nat, NEW d, WholeDie(d, table, code)
    PROVE  Dw!Gives(d) = Dw!DieOf(table, code) /\ Dw!DieOf(table, code) # Dw!Throws /\ Dw!Valid(d)
  <1>1. d.abbrev.code = code /\ d.abbrev # Dw!NoEntry
    BY EntryFacts DEF WholeDie
  <1>2. Dw!DieOf(table, code) = [ok |-> TRUE, is |-> <<code, Len(d.abbrev.attributes)>>]
    BY DEF WholeDie, Dw!DieOf
  <1>3. Dw!Gives(d) = [ok |-> TRUE, is |-> <<code, Len(d.abbrev.attributes)>>]
    BY <1>1 DEF WholeDie, Dw!Gives
  <1>4. Dw!Throws.ok = FALSE /\ Dw!DieOf(table, code).ok = TRUE
    BY <1>2 DEF Dw!Throws
  <1>5. QED
    BY <1>1, <1>2, <1>3, <1>4 DEF Dw!Valid

(* root() and type(): the answer is the file's, or the unit threw before;   *)
(* what is kept is sound, if it counts that it threw now.                   *)
LEMMA KeptFacts ==
    ASSUME NEW table \in Tables, NEW code \in Nat, NEW c, CacheSound(c, table),
           NEW t \in BOOLEAN, NEW d, DieSound(d, table, code, t)
    PROVE  LET kept == Dw!Kept(c, d, table, code)
           IN  /\ kept.answer.ok \in BOOLEAN
               /\ ~kept.answer.ok => kept.answer = Dw!Throws /\ Dw!DieOf(table, code) = Dw!Throws
               /\ kept.answer.ok => \/ HalfDie(table, code, t)
                                    \/ /\ kept.answer = Dw!DieOf(table, code)
                                       /\ Dw!DieOf(table, code) # Dw!Throws
                                       /\ IF code = 0 THEN kept.die = Dw!NullDie
                                          ELSE WholeDie(kept.die, table, code)
               /\ CacheSound(kept.c, table) /\ kept.c.lt = c.lt
               /\ DieSound(kept.die, table, code, t \/ ~kept.answer.ok)
  <1> DEFINE kept == Dw!Kept(c, d, table, code)
             forced == Dw!ForceAbbrevs(c, table)
             read == Dw!ReadDie(forced.c, code)
  <1>1. \A e : Dw!Gives(e).ok = TRUE
    BY DEF Dw!Gives
  <1>2. Dw!Throws.ok = FALSE
    BY DEF Dw!Throws
  <1>3. CASE Dw!Valid(d)
    <2>1. kept.answer = Dw!Gives(d) /\ kept.c = c /\ kept.die = d
      BY <1>3 DEF Dw!Kept
    <2>2. WholeDie(d, table, code) \/ HalfDie(table, code, t)
      BY <1>3 DEF DieSound
    <2>3. WholeDie(d, table, code) => Dw!Gives(d) = Dw!DieOf(table, code) /\ Dw!DieOf(table, code) # Dw!Throws /\ code # 0
      BY WholeGives DEF WholeDie
    <2> HIDE DEF kept
    <2>4. QED
      BY <1>1, <2>1, <2>2, <2>3 DEF kept, DieSound
  <1>4. CASE ~Dw!Valid(d)
    <2>1. /\ forced.ok \in BOOLEAN /\ (forced.ok <=> Dw!Bad(table) = {})
          /\ CacheSound(forced.c, table) /\ (forced.ok => forced.c.have_abbrevs)
          /\ forced.c.lt = c.lt
      BY ForceFacts
    <2>2. CASE ~forced.ok
      <3>1. kept.answer = Dw!Throws /\ kept.c = forced.c /\ kept.die = d
        BY <1>4, <2>2 DEF Dw!Kept
      <3>2. Dw!DieOf(table, code) = Dw!Throws
        BY <2>1, <2>2 DEF Dw!DieOf
      <3> HIDE DEF kept, forced
      <3>3. QED
        BY <1>2, <1>4, <2>1, <3>1, <3>2 DEF kept, DieSound
    <2>3. CASE forced.ok
      <3>1. /\ kept.answer = IF read.ok THEN Dw!Gives(read.die) ELSE Dw!Throws
            /\ kept.c = forced.c /\ kept.die = read.die
        BY <1>4, <2>3 DEF Dw!Kept
      <3>2. /\ read.ok \in BOOLEAN
            /\ read.ok <=> Dw!DieOf(table, code) # Dw!Throws
            /\ read.ok => Dw!Gives(read.die) = Dw!DieOf(table, code) /\ (code = 0 => read.die = Dw!NullDie)
                          /\ (code # 0 => WholeDie(read.die, table, code))
        <4> HIDE DEF forced
        <4>1. QED
          BY <2>1, <2>3, ReadFacts
      <3>3. ~Dw!Valid(Dw!NullDie)
        BY DEF Dw!Valid, Dw!NullDie
      <3>4. Dw!Bad(table) = {}
        BY <2>1, <2>3
      <3> HIDE DEF kept, forced, read
      <3>5. CASE read.ok
        <4>1. kept.answer = Dw!Gives(read.die) /\ kept.answer.ok = TRUE
          BY <1>1, <3>1, <3>5
        <4>2. DieSound(kept.die, table, code, t \/ ~kept.answer.ok)
          BY <3>1, <3>2, <3>3, <3>5 DEF DieSound
        <4>3. QED
          BY <2>1, <3>1, <3>2, <3>5, <4>1, <4>2 DEF kept
      <3>6. CASE ~read.ok
        <4>1. kept.answer = Dw!Throws /\ kept.answer.ok = FALSE
          BY <1>2, <3>1, <3>6
        <4>2. DieSound(kept.die, table, code, t \/ ~kept.answer.ok)
          BY <3>2, <3>4, <3>6, <4>1 DEF DieSound, HalfDie
        <4>3. QED
          BY <2>1, <3>1, <3>2, <3>6, <4>1, <4>2 DEF kept
      <3>7. QED
        BY <3>2, <3>5, <3>6
    <2>4. QED
      BY <2>1, <2>2, <2>3
  <1>5. QED
    BY <1>3, <1>4

-------------------------------------------------------------------------------
(* The inductive invariant: what a unit and a type unit keep is sound; T    *)
(* are the units that threw.  An invalid line table is not kept, and what   *)
(* is kept else is the file's, or was read with half of a DIE.              *)
LineTableSound(lt, u, line, t) ==
    lt # "invalid" =>
       \/ HalfDie(u.table, u.root, t)
       \/ /\ line /\ Dw!DieOf(u.table, u.root).ok /\ u.line = "good" /\ lt = "good"
          /\ Dw!Named(u.table, u.root, "stmt_list") /\ Dw!Named(u.table, u.root, "name")

UnitSound(c, u, line, t) == /\ CacheSound(c, u.table)
                            /\ DieSound(c.root, u.table, u.root, t)
                            /\ LineTableSound(c.lt, u, line, t)

TypeSound(c, u, t) == CacheSound(c, u.table) /\ DieSound(c.type, u.table, u.type, t)

UnitsAreSound ==
    /\ DOMAIN units = DOMAIN file.units
    /\ \A k \in DOMAIN units :
          UnitSound(units[k], file.units[k], "line" \in file.sections, <<"root", k>> \in torn)

(* The type units of a map that was read to its end.                        *)
Signing(types, sig) == {i \in DOMAIN types : types[i].signature = sig}
TypeUnitsAre(map, types, T) ==
    /\ \A sig : sig \in DOMAIN map <=> Signing(types, sig) # {}
    /\ \A sig \in DOMAIN map :
          /\ map[sig].unit = types[Max(Signing(types, sig))] /\ DOMAIN map[sig] = {"unit", "c"}
          /\ TypeSound(map[sig].c, map[sig].unit, <<"type", sig>> \in T)

TypeUnitsAreSound ==
    /\ have_type_units \in BOOLEAN
    /\ have_type_units => /\ "types" \in file.sections /\ Dw!Bad(file.types) = {}
                          /\ TypeUnitsAre(type_units, file.types, torn)
    /\ ~have_type_units /\ "types" \in file.sections /\ Dw!Bad(file.types) = {} => type_units = <<>>

CachesAreSound ==
    /\ file \in Files /\ sections \subseteq file.sections
    /\ UnitsAreSound /\ TypeUnitsAreSound
    /\ Dw!AnswersAreTheFiles

-------------------------------------------------------------------------------
LEMMA NoCacheSound ==
    ASSUME NEW table
    PROVE  /\ CacheSound(Dw!NoCache, table)
           /\ ~Dw!Valid(Dw!NoCache.root) /\ ~Dw!Valid(Dw!NoCache.type) /\ Dw!NoCache.lt = "invalid"
  BY DEF CacheSound, Dw!NoCache, Dw!Valid, Dw!NullDie

(* A unit that threw answers for no more than it did before.                *)
LEMMA SoundStays ==
    ASSUME NEW t \in BOOLEAN, NEW s \in BOOLEAN, t => s
    PROVE  /\ \A table, code : HalfDie(table, code, t) => HalfDie(table, code, s)
           /\ \A c, u, line : UnitSound(c, u, line, t) => UnitSound(c, u, line, s)
           /\ \A c, u : TypeSound(c, u, t) => TypeSound(c, u, s)
  <1>1. \A table, code : HalfDie(table, code, t) => HalfDie(table, code, s)
    BY Zenon DEF HalfDie
  <1>2. \A d, table, code : DieSound(d, table, code, t) => DieSound(d, table, code, s)
    BY <1>1, Zenon DEF DieSound
  <1>3. \A lt, u, line : LineTableSound(lt, u, line, t) => LineTableSound(lt, u, line, s)
    BY <1>1, Zenon DEF LineTableSound
  <1>4. QED
    BY <1>1, <1>2, <1>3, Zenon DEF UnitSound, TypeSound

LEMMA RootFacts ==
    ASSUME NEW u \in Dw!Unit, NEW line \in BOOLEAN, NEW t \in BOOLEAN, NEW c, UnitSound(c, u, line, t)
    PROVE  LET r == Dw!Root(c, u)
           IN  /\ r.answer.ok \in BOOLEAN
               /\ ~r.answer.ok => r.answer = Dw!Throws /\ Dw!DieOf(u.table, u.root) = Dw!Throws
               /\ r.answer.ok => \/ HalfDie(u.table, u.root, t)
                                 \/ /\ r.answer = Dw!DieOf(u.table, u.root)
                                    /\ Dw!DieOf(u.table, u.root) # Dw!Throws
                                    /\ IF u.root = 0 THEN r.c.root = Dw!NullDie
                                       ELSE WholeDie(r.c.root, u.table, u.root)
               /\ UnitSound(r.c, u, line, t \/ ~r.answer.ok)
               /\ r.c.lt = c.lt /\ DOMAIN r.c = DOMAIN Dw!NoCache
  <1> DEFINE kept == Dw!Kept(c, c.root, u.table, u.root)
             r == Dw!Root(c, u)
             new == [kept.c EXCEPT !.root = kept.die]
  <1>1. u.table \in Tables /\ u.root \in Nat
    BY DEF Dw!Unit, Tables
  <1>2. CacheSound(c, u.table) /\ DieSound(c.root, u.table, u.root, t) /\ LineTableSound(c.lt, u, line, t)
    BY DEF UnitSound
  <1>3. /\ kept.answer.ok \in BOOLEAN
        /\ ~kept.answer.ok => kept.answer = Dw!Throws /\ Dw!DieOf(u.table, u.root) = Dw!Throws
        /\ kept.answer.ok => \/ HalfDie(u.table, u.root, t)
                             \/ /\ kept.answer = Dw!DieOf(u.table, u.root)
                                /\ Dw!DieOf(u.table, u.root) # Dw!Throws
                                /\ IF u.root = 0 THEN kept.die = Dw!NullDie
                                   ELSE WholeDie(kept.die, u.table, u.root)
        /\ CacheSound(kept.c, u.table) /\ kept.c.lt = c.lt
        /\ DieSound(kept.die, u.table, u.root, t \/ ~kept.answer.ok)
    BY <1>1, <1>2, KeptFacts
  <1>4. r = [answer |-> kept.answer, c |-> new]
    BY DEF Dw!Root
  <1>5. r.answer = kept.answer /\ r.c = new
    BY <1>4
  <1> HIDE DEF kept, r
  <1>6. DOMAIN kept.c = {"have_abbrevs", "vec", "map", "root", "type", "lt"}
    BY <1>3 DEF CacheSound, Dw!NoCache
  <1>7. /\ DOMAIN new = DOMAIN kept.c /\ new.have_abbrevs = kept.c.have_abbrevs
        /\ new.vec = kept.c.vec /\ new.map = kept.c.map /\ new.root = kept.die /\ new.lt = kept.c.lt
    BY <1>6
  <1> HIDE DEF new
  <1>8. CacheSound(new, u.table)
    BY <1>3, <1>7, SameAbbrevs
  <1>9. LineTableSound(c.lt, u, line, t \/ ~kept.answer.ok)
    <2>1. \A table, code : HalfDie(table, code, t) => HalfDie(table, code, t \/ ~kept.answer.ok)
      BY <1>3, SoundStays
    <2>2. QED
      BY <1>2, <2>1, Zenon DEF LineTableSound
  <1>10. UnitSound(new, u, line, t \/ ~kept.answer.ok)
    BY <1>3, <1>7, <1>8, <1>9, Zenon DEF UnitSound
  <1>11. DOMAIN new = DOMAIN Dw!NoCache
    BY <1>6, <1>7 DEF Dw!NoCache
  <1>12. QED
    BY <1>3, <1>5, <1>7, <1>10, <1>11 DEF r

LEMMA TypeFacts ==
    ASSUME NEW u \in Dw!TypeUnit, NEW t \in BOOLEAN, NEW c, TypeSound(c, u, t)
    PROVE  LET r == Dw!Type(c, u)
           IN  /\ r.answer.ok \in BOOLEAN
               /\ ~r.answer.ok => r.answer = Dw!Throws /\ Dw!DieOf(u.table, u.type) = Dw!Throws
               /\ r.answer.ok => HalfDie(u.table, u.type, t) \/ r.answer = Dw!DieOf(u.table, u.type)
               /\ TypeSound(r.c, u, t \/ ~r.answer.ok)
  <1> DEFINE kept == Dw!Kept(c, c.type, u.table, u.type)
             r == Dw!Type(c, u)
             new == [kept.c EXCEPT !.type = kept.die]
  <1>1. u.table \in Tables /\ u.type \in Nat
    BY DEF Dw!TypeUnit, Tables
  <1>2. CacheSound(c, u.table) /\ DieSound(c.type, u.table, u.type, t)
    BY DEF TypeSound
  <1>3. /\ kept.answer.ok \in BOOLEAN
        /\ ~kept.answer.ok => kept.answer = Dw!Throws /\ Dw!DieOf(u.table, u.type) = Dw!Throws
        /\ kept.answer.ok => HalfDie(u.table, u.type, t) \/ kept.answer = Dw!DieOf(u.table, u.type)
        /\ CacheSound(kept.c, u.table)
        /\ DieSound(kept.die, u.table, u.type, t \/ ~kept.answer.ok)
    BY <1>1, <1>2, KeptFacts
  <1>4. r = [answer |-> kept.answer, c |-> new]
    BY DEF Dw!Type
  <1>5. r.answer = kept.answer /\ r.c = new
    BY <1>4
  <1> HIDE DEF kept, r
  <1>6. DOMAIN kept.c = {"have_abbrevs", "vec", "map", "root", "type", "lt"}
    BY <1>3 DEF CacheSound, Dw!NoCache
  <1>7. /\ DOMAIN new = DOMAIN kept.c /\ new.have_abbrevs = kept.c.have_abbrevs
        /\ new.vec = kept.c.vec /\ new.map = kept.c.map /\ new.type = kept.die
    BY <1>6
  <1> HIDE DEF new
  <1>8. CacheSound(new, u.table)
    BY <1>3, <1>7, SameAbbrevs
  <1>9. TypeSound(new, u, t \/ ~kept.answer.ok)
    BY <1>3, <1>7, <1>8, Zenon DEF TypeSound
  <1>10. QED
    BY <1>3, <1>5, <1>9 DEF r

(* The name and the statement list of a root that was read in full.         *)
LEMMA PlaceFacts ==
    ASSUME NEW table \in Tables, NEW code \in Nat, NEW d,
           IF code = 0 THEN d = Dw!NullDie ELSE WholeDie(d, table, code)
    PROVE  /\ \A name : Dw!Place(d, name) # {} <=> Dw!Named(table, code, name)
           /\ LET places == Dw!Place(d, "stmt_list") \union Dw!Place(d, "name") \union Dw!Place(d, "comp_dir")
              IN  places # {} => ~(Max(places) > d.attrs)
  <1>1. d.abbrev = Dw!EntryOf(table, code)
    BY EntryFacts DEF WholeDie, Dw!NullDie
  <1>2. \A name : Dw!Place(d, name) # {} <=> Dw!Named(table, code, name)
    BY <1>1 DEF Dw!Place, Dw!Named
  <1>3. d.attrs = Len(d.abbrev.attributes) /\ d.abbrev.attributes \in Seq(Dw!Attribute)
    <2>1. CASE code = 0
      <3>1. d.abbrev.attributes = <<>> /\ d.attrs = 0
        BY <2>1 DEF Dw!NullDie, Dw!NoEntry
      <3>2. Len(<<>>) = 0 /\ <<>> \in Seq(Dw!Attribute)
        OBVIOUS
      <3>3. QED
        BY <3>1, <3>2
    <2>2. CASE code # 0
      <3>1. Dw!EntryOf(table, code) \in Dw!Abbrev /\ d.attrs = Len(d.abbrev.attributes)
        BY <2>2, EntryFacts DEF WholeDie
      <3>2. QED
        BY <1>1, <3>1 DEF Dw!Abbrev
    <2>3. QED
      BY <2>1, <2>2
  <1>4. \A name : Dw!Place(d, name) \in SUBSET (0 .. d.attrs)
    BY <1>3 DEF Dw!Place
  <1> DEFINE places == Dw!Place(d, "stmt_list") \union Dw!Place(d, "name") \union Dw!Place(d, "comp_dir")
  <1>5. places \in SUBSET (0 .. d.attrs) /\ d.attrs \in Nat
    BY <1>3, <1>4
  <1> HIDE DEF places
  <1>6. ASSUME places # {} PROVE ~(Max(places) > d.attrs)
    <2>1. Max(places) \in places
      BY <1>5, <1>6, MaxFacts
    <2>2. \A m \in places : ~(m > d.attrs)
      BY <1>5
    <2>3. QED
      BY <2>1, <2>2
  <1>7. QED
    BY <1>2, <1>6 DEF places

-------------------------------------------------------------------------------
(* What get_line_table answers and keeps, once the root was read.           *)
LEMMA LineTableFacts ==
    ASSUME NEW u \in Dw!Unit, NEW line \in BOOLEAN, NEW d,
           IF u.root = 0 THEN d = Dw!NullDie ELSE WholeDie(d, u.table, u.root)
    PROVE  LET places == Dw!Place(d, "stmt_list") \union Dw!Place(d, "name") \union Dw!Place(d, "comp_dir")
               has == Dw!Place(d, "stmt_list") # {} /\ Dw!Place(d, "name") # {}
           IN  /\ has <=> /\ Dw!Named(u.table, u.root, "stmt_list")
                          /\ Dw!Named(u.table, u.root, "name")
               /\ has => ~(Max(places) > d.attrs)
  <1>1. u.table \in Tables /\ u.root \in Nat
    BY DEF Dw!Unit, Tables
  <1>2. /\ \A name : Dw!Place(d, name) # {} <=> Dw!Named(u.table, u.root, name)
        /\ Dw!Place(d, "stmt_list") \union Dw!Place(d, "name") \union Dw!Place(d, "comp_dir") # {}
              => ~(Max(Dw!Place(d, "stmt_list") \union Dw!Place(d, "name") \union Dw!Place(d, "comp_dir")) > d.attrs)
    BY <1>1, PlaceFacts
  <1>3. Dw!Place(d, "stmt_list") # {} => Dw!Place(d, "stmt_list") \union Dw!Place(d, "name") \union Dw!Place(d, "comp_dir") # {}
    OBVIOUS
  <1>4. QED
    BY <1>2, <1>3

-------------------------------------------------------------------------------
LEMMA InitIsSound == Dw!Init => CachesAreSound
  <1> SUFFICES ASSUME Dw!Init PROVE CachesAreSound
    OBVIOUS
  <1>1. UnitsAreSound
    <2>1. DOMAIN units = DOMAIN file.units /\ \A k \in DOMAIN units : units[k] = Dw!NoCache
      BY DEF Dw!Init
    <2>2. \A u, line, t : UnitSound(Dw!NoCache, u, line, t)
      BY NoCacheSound, Zenon DEF UnitSound, DieSound, LineTableSound
    <2>3. QED
      BY <2>1, <2>2, Zenon DEF UnitsAreSound
  <1>2. TypeUnitsAreSound
    BY DEF Dw!Init, TypeUnitsAreSound
  <1>3. file \in Files /\ sections \subseteq file.sections /\ Dw!AnswersAreTheFiles
    BY DEF Dw!Init, Dw!AnswersAreTheFiles, Dw!NoAnswer
  <1>4. QED
    BY <1>1, <1>2, <1>3 DEF CachesAreSound

(* What the file itself says of its units.                                  *)
LEMMA FileFacts ==
    ASSUME Dw!DwarfFilesAssumption, file \in Files
    PROVE  /\ \A k \in DOMAIN file.units : file.units[k] \in Dw!Unit
           /\ file.types \in Seq(Dw!TypeUnit)
  BY DEF Dw!DwarfFilesAssumption

(* A step of one unit: the others keep what they had.                       *)
LEMMA UnitStep ==
    ASSUME UnitsAreSound, NEW k \in DOMAIN units, NEW c, file' = file,
           units' = [units EXCEPT ![k] = c], torn \subseteq torn',
           UnitSound(c, file.units[k], "line" \in file.sections, <<"root", k>> \in torn')
    PROVE  UnitsAreSound'
  <1>1. DOMAIN units = DOMAIN file.units
    BY DEF UnitsAreSound
  <1>2. DOMAIN units' = DOMAIN units /\ \A j \in DOMAIN units : units'[j] = IF j = k THEN c ELSE units[j]
    OBVIOUS
  <1>3. ASSUME NEW j \in DOMAIN units
        PROVE  UnitSound(units[j], file.units[j], "line" \in file.sections, <<"root", j>> \in torn')
    <2>1. UnitSound(units[j], file.units[j], "line" \in file.sections, <<"root", j>> \in torn)
      BY DEF UnitsAreSound
    <2>2. \A t, s \in BOOLEAN : (t => s) => \A x, u, line : UnitSound(x, u, line, t) => UnitSound(x, u, line, s)
      BY SoundStays
    <2>3. /\ (<<"root", j>> \in torn) \in BOOLEAN /\ (<<"root", j>> \in torn') \in BOOLEAN
          /\ <<"root", j>> \in torn => <<"root", j>> \in torn'
      OBVIOUS
    <2>4. QED
      BY <2>1, <2>2, <2>3, Zenon
  <1>4. \A j \in DOMAIN units :
           UnitSound(units'[j], file.units[j], "line" \in file.sections, <<"root", j>> \in torn')
    BY <1>2, <1>3
  <1>5. QED
    BY <1>1, <1>2, <1>4 DEF UnitsAreSound

(* A step that leaves the type units alone.                                 *)
LEMMA TypeUnitsAreStill ==
    ASSUME NEW map, NEW types, NEW T, NEW U, T \subseteq U, TypeUnitsAre(map, types, T)
    PROVE  TypeUnitsAre(map, types, U)
  <1>1. ASSUME NEW sig \in DOMAIN map
        PROVE  TypeSound(map[sig].c, map[sig].unit, <<"type", sig>> \in U)
    <2>1. TypeSound(map[sig].c, map[sig].unit, <<"type", sig>> \in T)
      BY DEF TypeUnitsAre
    <2>2. \A t, s \in BOOLEAN : (t => s) => \A x, u : TypeSound(x, u, t) => TypeSound(x, u, s)
      BY SoundStays
    <2>3. /\ (<<"type", sig>> \in T) \in BOOLEAN /\ (<<"type", sig>> \in U) \in BOOLEAN
          /\ <<"type", sig>> \in T => <<"type", sig>> \in U
      OBVIOUS
    <2>4. QED
      BY <2>1, <2>2, <2>3, Zenon
  <1>2. QED
    BY <1>1 DEF TypeUnitsAre

LEMMA TypeUnitsStay ==
    ASSUME TypeUnitsAreSound, UNCHANGED <<file, type_units, have_type_units>>, torn \subseteq torn'
    PROVE  TypeUnitsAreSound'
  <1>1. TypeUnitsAre(type_units, file.types, torn) => TypeUnitsAre(type_units, file.types, torn')
    BY TypeUnitsAreStill
  <1>2. QED
    BY <1>1 DEF TypeUnitsAreSound

LEMMA AskRootIsSound ==
    ASSUME Dw!DwarfFilesAssumption, CachesAreSound, NEW k \in DOMAIN file.units, Dw!AskRoot(k)
    PROVE  CachesAreSound'
  <1> DEFINE u == file.units[k]
             r == Dw!Root(units[k], u)
             t == <<"root", k>> \in torn
             line == "line" \in file.sections
  <1>1. /\ units' = [units EXCEPT ![k] = r.c]
        /\ request' = [kind |-> "root", of |-> k, is |-> r.answer]
        /\ torn' = IF r.answer.ok THEN torn ELSE torn \union {<<"root", k>>}
        /\ UNCHANGED <<file, type_units, have_type_units, sections>>
    BY DEF Dw!AskRoot, Dw!Answered, Dw!Torn
  <1>2. u \in Dw!Unit /\ k \in DOMAIN units /\ t \in BOOLEAN /\ line \in BOOLEAN
        /\ UnitSound(units[k], u, line, t)
    BY FileFacts DEF CachesAreSound, UnitsAreSound
  <1>3. /\ r.answer.ok \in BOOLEAN
        /\ ~r.answer.ok => r.answer = Dw!Throws /\ Dw!DieOf(u.table, u.root) = Dw!Throws
        /\ r.answer.ok => HalfDie(u.table, u.root, t) \/ r.answer = Dw!DieOf(u.table, u.root)
        /\ UnitSound(r.c, u, line, t \/ ~r.answer.ok)
    <2> HIDE DEF u, t, line
    <2>1. QED
      BY <1>2, RootFacts
  <1> HIDE DEF r
  <1>4. t \/ ~r.answer.ok <=> <<"root", k>> \in torn'
    BY <1>1
  <1>5. torn \subseteq torn'
    BY <1>1
  <1>6. UnitsAreSound'
    <2>1. UnitSound(r.c, u, "line" \in file.sections, <<"root", k>> \in torn')
      <3>1. (t \/ ~r.answer.ok) = (<<"root", k>> \in torn')
        BY <1>3, <1>4
      <3>2. QED
        BY <1>3, <3>1
    <2>2. QED
      BY <1>1, <1>2, <1>5, <2>1, UnitStep DEF CachesAreSound
  <1>7. TypeUnitsAreSound'
    BY <1>1, <1>5, TypeUnitsStay DEF CachesAreSound
  <1>8. Dw!AnswersAreTheFiles'
    <2>1. r.answer = Dw!DieOf(u.table, u.root) \/ HalfDie(u.table, u.root, <<"root", k>> \in torn')
      BY <1>3, <1>5 DEF HalfDie
    <2>2. HalfDie(u.table, u.root, <<"root", k>> \in torn')
             => <<"root", k>> \in torn' /\ Dw!Bad(u.table) = {} /\ ~Dw!DieOf(u.table, u.root).ok
      BY DEF HalfDie, Dw!Throws
    <2>3. QED
      BY <1>1, <2>1, <2>2 DEF Dw!AnswersAreTheFiles, Dw!FileSays, Dw!TableOf
  <1>9. QED
    BY <1>1, <1>6, <1>7, <1>8 DEF CachesAreSound

LEMMA AskSectionIsSound ==
    ASSUME CachesAreSound, NEW type, Dw!AskSection(type)
    PROVE  CachesAreSound'
  <1>1. /\ sections' = sections \union ({type} \intersect file.sections)
        /\ UNCHANGED <<file, units, type_units, have_type_units, torn>>
        /\ request' = [kind |-> "section", of |-> type,
                      is |-> IF type \in sections \union file.sections
                             THEN [ok |-> TRUE, is |-> <<type>>] ELSE Dw!Throws]
    BY DEF Dw!AskSection, Dw!Answered, Dw!Loaded
  <1>2. UnitsAreSound'
    BY <1>1 DEF CachesAreSound, UnitsAreSound
  <1>3. TypeUnitsAreSound'
    BY <1>1, TypeUnitsStay DEF CachesAreSound
  <1>4. sections \subseteq file.sections
    BY DEF CachesAreSound
  <1>5. Dw!AnswersAreTheFiles'
    BY <1>1, <1>4 DEF Dw!AnswersAreTheFiles, Dw!FileSays
  <1>6. QED
    BY <1>1, <1>2, <1>3, <1>4, <1>5 DEF CachesAreSound

LEMMA AskLineTableIsSound ==
    ASSUME Dw!DwarfFilesAssumption, CachesAreSound, NEW k \in DOMAIN file.units, Dw!AskLineTable(k)
    PROVE  CachesAreSound'
  <1> DEFINE u == file.units[k]
             c == units[k]
             r == Dw!Root(c, u)
             t == <<"root", k>> \in torn
             line == "line" \in file.sections
             says == Dw!DieOf(u.table, u.root)
             places == Dw!Place(r.c.root, "stmt_list") \union Dw!Place(r.c.root, "name") \union Dw!Place(r.c.root, "comp_dir")
             has == Dw!Place(r.c.root, "stmt_list") # {} /\ Dw!Place(r.c.root, "name") # {}
             Table(lt) == [ok |-> TRUE, is |-> <<lt>>]
             Said(is, new) == /\ request' = [kind |-> "line table", of |-> k, is |-> is]
                            /\ units' = [units EXCEPT ![k] = new]
             listed == Dw!Named(u.table, u.root, "stmt_list") /\ Dw!Named(u.table, u.root, "name")
  <1>1. UNCHANGED <<file, type_units, have_type_units>>
    BY DEF Dw!AskLineTable
  <1>2. u \in Dw!Unit /\ k \in DOMAIN units /\ t \in BOOLEAN /\ line \in BOOLEAN
        /\ UnitSound(c, u, line, t)
    BY FileFacts DEF CachesAreSound, UnitsAreSound
  <1>3. /\ r.answer.ok \in BOOLEAN
        /\ ~r.answer.ok => r.answer = Dw!Throws /\ says = Dw!Throws
        /\ r.answer.ok => \/ HalfDie(u.table, u.root, t)
                          \/ /\ r.answer = says /\ says # Dw!Throws
                             /\ IF u.root = 0 THEN r.c.root = Dw!NullDie
                                ELSE WholeDie(r.c.root, u.table, u.root)
        /\ UnitSound(r.c, u, line, t \/ ~r.answer.ok)
        /\ r.c.lt = c.lt /\ DOMAIN r.c = DOMAIN Dw!NoCache
    <2> HIDE DEF u, t, line, c
    <2>1. QED
      BY <1>2, RootFacts
  <1>4. Dw!LineTableOf(u) = IF ~says.ok THEN Dw!Throws
                         ELSE IF ~line \/ ~listed THEN Table("invalid")
                         ELSE IF u.line = "good" THEN Table("good") ELSE Dw!Throws
    BY DEF Dw!LineTableOf
  <1>5. HalfDie(u.table, u.root, t) => t /\ Dw!Bad(u.table) = {} /\ ~says.ok
    BY DEF HalfDie, Dw!Throws
  <1>6. Dw!Throws.ok = FALSE
    BY DEF Dw!Throws
  (* With the answer and the unit's cache of the step, all else follows.    *)
  <1>7. ASSUME NEW is, NEW new, Said(is, new), torn \subseteq torn', sections' \subseteq file.sections,
               is = Dw!LineTableOf(u) \/ (HalfDie(u.table, u.root, t)),
               UnitSound(new, u, line, <<"root", k>> \in torn')
        PROVE  CachesAreSound'
    <2>1. UnitsAreSound'
      BY <1>1, <1>2, <1>7, UnitStep DEF CachesAreSound
    <2>2. TypeUnitsAreSound'
      BY <1>1, <1>7, TypeUnitsStay DEF CachesAreSound
    <2>3. Dw!AnswersAreTheFiles'
      <3>1. Dw!LineTableOf(u)' = Dw!LineTableOf(u)
        BY <1>1 DEF Dw!LineTableOf
      <3>2. HalfDie(u.table, u.root, t) => <<"root", k>> \in torn' /\ Dw!Bad(u.table) = {} /\ ~Dw!LineTableOf(u).ok
        BY <1>4, <1>5, <1>6, <1>7
      <3>3. request'.kind = "line table" /\ request'.of = k /\ request'.is = is
        BY <1>7
      <3> HIDE DEF t, line, says, places, has, listed, r, c, Said
      <3>4. QED
        BY <1>1, <1>7, <3>1, <3>2, <3>3 DEF Dw!AnswersAreTheFiles, Dw!FileSays, Dw!TableOf
    <2>4. QED
      BY <1>1, <1>7, <2>1, <2>2, <2>3 DEF CachesAreSound
  <1>8. sections \subseteq file.sections /\ Dw!Loaded("line") \subseteq file.sections
    BY DEF CachesAreSound, Dw!Loaded
  <1>9. CASE c.lt # "invalid"
    <2>1. Said(Table(c.lt), c) /\ UNCHANGED <<sections, torn>>
      BY <1>9 DEF Dw!AskLineTable, Dw!Answered
    <2>2. LineTableSound(c.lt, u, line, t)
      BY <1>2 DEF UnitSound
    <2>3. Table(c.lt) = Dw!LineTableOf(u) \/ HalfDie(u.table, u.root, t)
      BY <1>4, <1>9, <2>2 DEF LineTableSound
    <2>4. UnitSound(c, u, line, <<"root", k>> \in torn')
      BY <1>2, <2>1
    <2> HIDE DEF u, c, r, says, listed, line, Said
    <2>5. QED
      BY <1>7, <1>8, <2>1, <2>3, <2>4
  <1>10. CASE c.lt = "invalid"
    <2>1. /\ torn' = IF r.answer.ok THEN torn ELSE torn \union {<<"root", k>>}
          /\ sections' \subseteq file.sections
      BY <1>8, <1>10 DEF Dw!AskLineTable, Dw!Torn
    <2>2. \/ ~r.answer.ok /\ Said(Dw!Throws, r.c)
          \/ /\ r.answer.ok /\ (~has \/ ~line) /\ Said(Table("invalid"), r.c)
          \/ /\ r.answer.ok /\ has /\ line /\ ~(Max(places) > r.c.root.attrs)
             /\ IF u.line = "good" THEN Said(Table("good"), [r.c EXCEPT !.lt = "good"])
                ELSE Said(Dw!Throws, r.c)
          \/ /\ r.answer.ok /\ has /\ line /\ Max(places) > r.c.root.attrs
             /\ \/ Said(Dw!Throws, r.c)
                \/ Said(Table("garbage"), [r.c EXCEPT !.lt = "garbage"])
      BY DwOperators, <1>10, Zenon DEF Dw!AskLineTable, Dw!Answered
    <2>3. torn \subseteq torn' /\ (t \/ ~r.answer.ok <=> <<"root", k>> \in torn')
      BY <2>1
    <2>4. UnitSound(r.c, u, line, <<"root", k>> \in torn')
      <3>1. (t \/ ~r.answer.ok) = (<<"root", k>> \in torn')
        BY <1>3, <2>3
      <3>2. QED
        BY <1>3, <3>1
    <2>5. ASSUME NEW lt, LineTableSound(lt, u, line, t)
          PROVE  UnitSound([r.c EXCEPT !.lt = lt], u, line, <<"root", k>> \in torn')
      <3> DEFINE new == [r.c EXCEPT !.lt = lt]
      <3>1. /\ DOMAIN new = DOMAIN r.c /\ new.have_abbrevs = r.c.have_abbrevs
            /\ new.vec = r.c.vec /\ new.map = r.c.map /\ new.root = r.c.root /\ new.lt = lt
        BY <1>3 DEF Dw!NoCache
      <3> HIDE DEF new
      <3>2. CacheSound(r.c, u.table) /\ DieSound(r.c.root, u.table, u.root, <<"root", k>> \in torn')
        BY <2>4 DEF UnitSound
      <3>3. CacheSound(new, u.table)
        BY <3>1, <3>2, SameAbbrevs
      <3>4. LineTableSound(lt, u, line, <<"root", k>> \in torn')
        BY <2>3, <2>5 DEF LineTableSound, HalfDie
      <3>5. UnitSound(new, u, line, <<"root", k>> \in torn')
        BY <3>1, <3>2, <3>3, <3>4 DEF UnitSound
      <3>6. QED
        BY <3>5 DEF new
    <2>6. CASE ~r.answer.ok
      <3>1. Said(Dw!Throws, r.c) /\ Dw!Throws = Dw!LineTableOf(u)
        BY <1>3, <1>4, <1>6, <2>2, <2>6
      <3> HIDE DEF u, c, r, says, listed, line, Said
      <3>2. QED
        BY <1>7, <2>1, <2>3, <2>4, <3>1
    <2>7. CASE r.answer.ok /\ HalfDie(u.table, u.root, t)
      <3>1. \A lt : LineTableSound(lt, u, line, t)
        BY <2>7 DEF LineTableSound
      <3>2. UnitSound([r.c EXCEPT !.lt = "good"], u, line, <<"root", k>> \in torn')
            /\ UnitSound([r.c EXCEPT !.lt = "garbage"], u, line, <<"root", k>> \in torn')
        BY <2>5, <3>1
      <3> HIDE DEF u, c, r, says, listed, line, Said
      <3>3. \A is, new : /\ Said(is, new)
                         /\ UnitSound(new, u, line, <<"root", k>> \in torn')
                         => CachesAreSound'
        BY <1>7, <2>1, <2>3, <2>7
      <3>4. QED
        BY <2>2, <2>4, <2>7, <3>2, <3>3
    <2>8. CASE r.answer.ok /\ ~HalfDie(u.table, u.root, t)
      <3>1. /\ says.ok
            /\ IF u.root = 0 THEN r.c.root = Dw!NullDie ELSE WholeDie(r.c.root, u.table, u.root)
        BY <1>3, <2>8
      <3>2. (has <=> listed) /\ (has => ~(Max(places) > r.c.root.attrs))
        <4> HIDE DEF u, r, line
        <4>1. QED
          BY <1>2, <3>1, LineTableFacts
      <3>3. \/ /\ ~(has /\ line) /\ Said(Table("invalid"), r.c)
            \/ /\ has /\ line /\ u.line = "good" /\ Said(Table("good"), [r.c EXCEPT !.lt = "good"])
            \/ /\ has /\ line /\ u.line # "good" /\ Said(Dw!Throws, r.c)
        BY <2>2, <2>8, <3>2
      <3>4. CASE has /\ line /\ u.line = "good"
        <4>1. Dw!LineTableOf(u) = Table("good") /\ LineTableSound("good", u, line, t)
          BY <1>4, <3>1, <3>2, <3>4 DEF LineTableSound
        <4>2. Said(Table("good"), [r.c EXCEPT !.lt = "good"])
          BY <3>3, <3>4
        <4>3. UnitSound([r.c EXCEPT !.lt = "good"], u, line, <<"root", k>> \in torn')
          BY <2>5, <4>1
        <4> HIDE DEF u, c, r, says, listed, line, Said
        <4>4. QED
          BY <1>7, <2>1, <2>3, <4>1, <4>2, <4>3
      <3>5. CASE ~(has /\ line /\ u.line = "good")
        <4>1. PICK is : Said(is, r.c) /\ is = Dw!LineTableOf(u)
          BY <1>4, <3>1, <3>2, <3>3, <3>5
        <4> HIDE DEF u, c, r, says, listed, line, Said
        <4>2. QED
          BY <1>7, <2>1, <2>3, <2>4, <4>1
      <3>6. QED
        BY <3>4, <3>5
    <2>9. QED
      BY <2>6, <2>7, <2>8
  <1>11. QED
    BY <1>9, <1>10

-------------------------------------------------------------------------------
(* The type units of a file that can be read to its end.                    *)
LEMMA EnteredTypesFacts ==
    ASSUME file.types \in Seq(Dw!TypeUnit), Dw!Bad(file.types) = {}, NEW T
    PROVE  TypeUnitsAre(Dw!EnteredTypes(<<>>), file.types, T)
  <1> DEFINE types == file.types
             map == Dw!EnteredTypes(<<>>)
             Of(sig) == {i \in Dw!Read(types) : types[i].signature = sig}
  <1>1. Dw!Read(types) = DOMAIN types
    <2>1. DOMAIN types = 1 .. Len(types) /\ Len(types) \in Nat
      OBVIOUS
    <2>2. QED
      BY <2>1 DEF Dw!Bad, Dw!Read
  <1>2. \A sig : Of(sig) = Signing(types, sig)
    BY <1>1 DEF Signing
  <1>3. map = [sig \in DOMAIN <<>> \union {types[i].signature : i \in Dw!Read(types)} |->
                  IF Of(sig) = {} THEN <<>>[sig] ELSE [unit |-> types[Max(Of(sig))], c |-> Dw!NoCache]]
    BY DwOperators DEF Dw!EnteredTypes
  <1>4. DOMAIN <<>> = {}
    OBVIOUS
  <1> HIDE DEF map, Of, types
  <1>5. DOMAIN map = {types[i].signature : i \in DOMAIN types}
    BY <1>1, <1>3, <1>4
  <1>6. \A sig : sig \in DOMAIN map <=> Signing(types, sig) # {}
    BY <1>5 DEF Signing
  <1>7. \A sig \in DOMAIN map : map[sig] = [unit |-> types[Max(Signing(types, sig))], c |-> Dw!NoCache]
    BY <1>2, <1>3, <1>6
  <1>8. \A u, t : TypeSound(Dw!NoCache, u, t)
    BY NoCacheSound, Zenon DEF TypeSound, DieSound
  <1>9. \A sig \in DOMAIN map : /\ map[sig].unit = types[Max(Signing(types, sig))]
                                /\ DOMAIN map[sig] = {"unit", "c"} /\ map[sig].c = Dw!NoCache
    BY <1>7
  <1>10. QED
    BY <1>6, <1>8, <1>9 DEF map, types, TypeUnitsAre

LEMMA AskTypeIsSound ==
    ASSUME Dw!DwarfFilesAssumption, CachesAreSound, NEW sig, Dw!AskType(sig)
    PROVE  CachesAreSound'
  <1> DEFINE types == file.types
             present == "types" \in file.sections
             read == IF have_type_units \/ ~present THEN type_units ELSE Dw!EnteredTypes(type_units)
             ok == have_type_units \/ (present /\ Dw!Bad(types) = {})
             found == ok /\ sig \in DOMAIN read
             r == Dw!Type(read[sig].c, read[sig].unit)
             is == IF found THEN r.answer ELSE Dw!Throws
             t == <<"type", sig>> \in torn
  <1>1. /\ type_units' = IF found THEN [read EXCEPT ![sig].c = r.c] ELSE read
        /\ have_type_units' = ok
        /\ request' = [kind |-> "type", of |-> sig, is |-> is]
        /\ torn' = IF is.ok THEN torn ELSE torn \union {<<"type", sig>>}
        /\ UNCHANGED <<file, units>>
    BY DEF Dw!AskType, Dw!Answered, Dw!Torn
  <1>2. /\ file \in Files /\ sections \subseteq file.sections /\ UnitsAreSound
        /\ have_type_units \in BOOLEAN
        /\ have_type_units => present /\ Dw!Bad(types) = {} /\ TypeUnitsAre(type_units, types, torn)
        /\ ~have_type_units /\ present /\ Dw!Bad(types) = {} => type_units = <<>>
    BY DEF CachesAreSound, TypeUnitsAreSound
  <1>3. types \in Seq(Dw!TypeUnit)
    BY <1>2, FileFacts
  <1>4. torn \subseteq torn'
    BY <1>1
  <1>5. sections' \subseteq file.sections
    BY <1>2 DEF Dw!AskType, Dw!Loaded
  <1>6. UnitsAreSound'
    <2>1. \A j \in DOMAIN units :
             UnitSound(units[j], file.units[j], "line" \in file.sections, <<"root", j>> \in torn')
      <3>1. ASSUME NEW j \in DOMAIN units
            PROVE  UnitSound(units[j], file.units[j], "line" \in file.sections, <<"root", j>> \in torn')
        <4>1. UnitSound(units[j], file.units[j], "line" \in file.sections, <<"root", j>> \in torn)
          BY <1>2 DEF UnitsAreSound
        <4>2. \A x, s \in BOOLEAN : (x => s) => \A c, u, line : UnitSound(c, u, line, x) => UnitSound(c, u, line, s)
          BY SoundStays
        <4>3. /\ (<<"root", j>> \in torn) \in BOOLEAN /\ (<<"root", j>> \in torn') \in BOOLEAN
              /\ <<"root", j>> \in torn => <<"root", j>> \in torn'
          BY <1>4
        <4>4. QED
          BY <4>1, <4>2, <4>3, Zenon
      <3>2. QED
        BY <3>1
    <2>2. QED
      BY <1>1, <1>2, <2>1 DEF UnitsAreSound
  <1>7. ok => present /\ Dw!Bad(types) = {} /\ TypeUnitsAre(read, types, torn)
    <2>1. CASE have_type_units
      BY <1>2, <2>1
    <2>2. CASE ~have_type_units /\ present /\ Dw!Bad(types) = {}
      <3>1. TypeUnitsAre(Dw!EnteredTypes(<<>>), types, torn)
        BY <1>3, <2>2, EnteredTypesFacts
      <3>2. read = Dw!EnteredTypes(<<>>)
        BY <1>2, <2>2
      <3>3. QED
        BY <2>2, <3>1, <3>2
    <2>3. QED
      BY <1>2, <2>1, <2>2
  <1>8. Signing(types, sig) = Dw!SignedBy(sig)
    BY DEF Signing, Dw!SignedBy
  <1>9. Dw!TypeOf(sig) = IF ~present \/ Signing(types, sig) = {} \/ Dw!Bad(types) # {} THEN Dw!Throws
                      ELSE Dw!DieOf(Dw!TypeUnitOf(sig).table, Dw!TypeUnitOf(sig).type)
    BY <1>8 DEF Dw!TypeOf
  <1>10. Dw!TypeOf(sig)' = Dw!TypeOf(sig) /\ Dw!TypeUnitOf(sig)' = Dw!TypeUnitOf(sig)
    BY <1>1 DEF Dw!TypeOf, Dw!TypeUnitOf, Dw!SignedBy
  <1>11. ok \in BOOLEAN
    BY <1>2
  <1>12. CASE ~ok
    <2>1. type_units' = read /\ have_type_units' = FALSE /\ is = Dw!Throws
      BY <1>1, <1>11, <1>12
    <2>2. ~(present /\ Dw!Bad(types) = {})
      BY <1>12
    <2>3. TypeUnitsAreSound'
      BY <1>1, <2>1, <2>2 DEF TypeUnitsAreSound
    <2>4. Dw!TypeOf(sig) = Dw!Throws
      BY <1>9, <2>2
    <2>5. Dw!AnswersAreTheFiles'
      BY <1>1, <1>10, <2>1, <2>4 DEF Dw!AnswersAreTheFiles, Dw!FileSays
    <2>6. QED
      BY <1>1, <1>2, <1>5, <1>6, <2>3, <2>5 DEF CachesAreSound
  <1>13. CASE ok /\ sig \notin DOMAIN read
    <2>1. type_units' = read /\ have_type_units' = TRUE /\ is = Dw!Throws
      BY <1>1, <1>11, <1>13
    <2>2. TypeUnitsAre(read, types, torn')
      BY <1>4, <1>7, <1>13, TypeUnitsAreStill
    <2>3. TypeUnitsAreSound'
      BY <1>1, <1>7, <1>13, <2>1, <2>2 DEF TypeUnitsAreSound
    <2>4. Dw!TypeOf(sig) = Dw!Throws
      BY <1>7, <1>9, <1>13 DEF TypeUnitsAre
    <2>5. Dw!AnswersAreTheFiles'
      BY <1>1, <1>10, <2>1, <2>4 DEF Dw!AnswersAreTheFiles, Dw!FileSays
    <2>6. QED
      BY <1>1, <1>2, <1>5, <1>6, <2>3, <2>5 DEF CachesAreSound
  <1>14. CASE ok /\ sig \in DOMAIN read
    <2> DEFINE u == Dw!TypeUnitOf(sig)
               new == [read EXCEPT ![sig].c = r.c]
    <2>1. type_units' = new /\ have_type_units' = TRUE /\ is = r.answer
      BY <1>1, <1>11, <1>14
    <2>2. /\ Signing(types, sig) # {} /\ read[sig].unit = u /\ DOMAIN read[sig] = {"unit", "c"}
          /\ TypeSound(read[sig].c, u, t)
      BY DwOperators, <1>7, <1>8, <1>14 DEF TypeUnitsAre, Dw!TypeUnitOf
    <2>3. u \in Dw!TypeUnit
      <3>1. Dw!SignedBy(sig) \in SUBSET (0 .. Len(types)) /\ Len(types) \in Nat /\ Dw!SignedBy(sig) # {}
        BY <1>3, <1>8, <2>2 DEF Dw!SignedBy
      <3>2. Max(Dw!SignedBy(sig)) \in Dw!SignedBy(sig)
        BY <3>1, MaxFacts
      <3>3. Max(Dw!SignedBy(sig)) \in DOMAIN types
        BY <3>2 DEF Dw!SignedBy
      <3> HIDE DEF types
      <3>4. \A i \in DOMAIN types : types[i] \in Dw!TypeUnit
        BY <1>3
      <3>5. types[Max(Dw!SignedBy(sig))] \in Dw!TypeUnit
        BY <3>3, <3>4
      <3>6. QED
        BY DwOperators, <3>5 DEF Dw!TypeUnitOf, types
    <2>4. /\ r.answer.ok \in BOOLEAN
          /\ ~r.answer.ok => r.answer = Dw!Throws /\ Dw!DieOf(u.table, u.type) = Dw!Throws
          /\ r.answer.ok => HalfDie(u.table, u.type, t) \/ r.answer = Dw!DieOf(u.table, u.type)
          /\ TypeSound(r.c, u, t \/ ~r.answer.ok)
      <3>1. t \in BOOLEAN /\ r = Dw!Type(read[sig].c, u)
        BY <2>2
      <3> HIDE DEF t, u, r, read
      <3>2. QED
        BY <2>2, <2>3, <3>1, TypeFacts
    <2>5. Dw!TypeOf(sig) = Dw!DieOf(u.table, u.type)
      BY <1>7, <1>9, <1>14, <2>2
    <2> HIDE DEF r, read
    <2>6. (t \/ ~r.answer.ok) = (<<"type", sig>> \in torn')
      <3>1. t \/ ~r.answer.ok <=> <<"type", sig>> \in torn'
        BY <1>1, <2>1
      <3>2. QED
        BY <2>4, <3>1
    <2>7. TypeUnitsAre(new, types, torn')
      <3>1. TypeUnitsAre(read, types, torn')
        BY <1>4, <1>7, <1>14, TypeUnitsAreStill DEF read
      <3>2. /\ DOMAIN new = DOMAIN read
            /\ \A s \in DOMAIN read : s # sig => new[s] = read[s]
            /\ new[sig].unit = u /\ DOMAIN new[sig] = {"unit", "c"} /\ new[sig].c = r.c
        BY <1>14, <2>2
      <3>3. TypeSound(r.c, u, <<"type", sig>> \in torn')
        BY <2>4, <2>6
      <3>4. u = types[Max(Signing(types, sig))]
        BY DwOperators, <1>8 DEF Dw!TypeUnitOf
      <3> HIDE DEF new, u, types
      <3>5. QED
        BY <3>1, <3>2, <3>3, <3>4 DEF TypeUnitsAre
    <2>8. TypeUnitsAreSound'
      BY <1>1, <1>7, <1>14, <2>1, <2>7 DEF TypeUnitsAreSound
    <2>9. Dw!AnswersAreTheFiles'
      <3>1. HalfDie(u.table, u.type, t) => /\ <<"type", sig>> \in torn' /\ Dw!Bad(u.table) = {}
                                        /\ ~Dw!DieOf(u.table, u.type).ok
        BY <1>4 DEF HalfDie, Dw!Throws
      <3>2. request'.kind = "type" /\ request'.of = sig /\ request'.is = r.answer
        BY <1>1, <2>1
      <3> HIDE DEF t, is, found, ok, types, present
      <3>3. \/ r.answer = Dw!TypeOf(sig)
            \/ <<"type", sig>> \in torn' /\ Dw!Bad(u.table) = {} /\ ~Dw!TypeOf(sig).ok
        BY <2>4, <2>5, <3>1
      <3>4. \/ r.answer = Dw!TypeOf(sig)'
            \/ <<"type", sig>> \in torn' /\ Dw!Bad(Dw!TypeUnitOf(sig)'.table) = {} /\ ~Dw!TypeOf(sig)'.ok
        BY <1>10, <3>3
      <3>5. QED
        BY <3>2, <3>4 DEF Dw!AnswersAreTheFiles, Dw!FileSays, Dw!TableOf
    <2>10. QED
      BY <1>1, <1>2, <1>5, <1>6, <2>8, <2>9 DEF CachesAreSound
  <1>15. QED
    BY <1>11, <1>12, <1>13, <1>14

-------------------------------------------------------------------------------
(* The instance has the reference's operators once more.                    *)
LEMMA DwarfAssumption == Dw!DwarfFilesAssumption
  <1>1. Dw!Abbrev = Abbrev
    BY DEF Dw!Abbrev, Abbrev, Dw!Attribute, Attribute
  <1>2. Dw!Unit = Unit /\ Dw!TypeUnit = TypeUnit
    BY <1>1 DEF Dw!Unit, Unit, Dw!TypeUnit, TypeUnit
  <1>3. QED
    BY <1>2, DwarfFilesAssumption DEF Dw!DwarfFilesAssumption

LEMMA SameEntries ==
    ASSUME NEW table, NEW code
    PROVE  /\ Dw!Bad(table) = Bad(table)
           /\ Dw!EntryOf(table, code) = EntryOf(table, code)
           /\ Dw!DieOf(table, code) = DieOf(table, code)
           /\ \A name : Dw!Named(table, code, name) <=> Named(table, code, name)
  <1>1. Dw!Coded(table, code) = Coded(table, code) /\ Dw!Bad(table) = Bad(table)
    BY DEF Dw!Coded, Coded, Dw!Bad, Bad
  <1>2. /\ Dw!NoEntry = NoEntry /\ Dw!NullDie = NullDie /\ Dw!Throws = Throws
        /\ \A d : Dw!Gives(d) = Gives(d)
    BY DEF Dw!NoEntry, NoEntry, Dw!NullDie, NullDie, Dw!Throws, Throws, Dw!Gives, Gives
  <1>3. Dw!EntryOf(table, code) = EntryOf(table, code)
    BY <1>1, <1>2, DwOperators DEF Dw!EntryOf, EntryOf
  <1>4. Dw!DieOf(table, code) = DieOf(table, code)
    BY <1>1, <1>2, <1>3, Zenon DEF Dw!DieOf, DieOf
  <1>5. \A name : Dw!Named(table, code, name) <=> Named(table, code, name)
    BY <1>3, Zenon DEF Dw!Named, Named
  <1>6. QED
    BY <1>1, <1>3, <1>4, <1>5

LEMMA SameAnswers == Dw!AnswersAreTheFiles <=> AnswersAreTheFiles
  <1>1. /\ \A table : Dw!Bad(table) = Bad(table)
        /\ \A table, code : Dw!DieOf(table, code) = DieOf(table, code)
        /\ \A table, code, name : Dw!Named(table, code, name) <=> Named(table, code, name)
    BY SameEntries
  <1>2. Dw!Throws = Throws /\ \A sig : Dw!SignedBy(sig) = SignedBy(sig)
    BY DEF Dw!Throws, Throws, Dw!SignedBy, SignedBy
  <1>3. \A sig : Dw!TypeUnitOf(sig) = TypeUnitOf(sig)
    BY <1>2, DwOperators DEF Dw!TypeUnitOf, TypeUnitOf
  <1>4. \A sig : Dw!TypeOf(sig) = TypeOf(sig)
    BY <1>1, <1>2, <1>3, Zenon DEF Dw!TypeOf, TypeOf
  <1>5. \A u : Dw!LineTableOf(u) = LineTableOf(u)
    BY <1>1, <1>2 DEF Dw!LineTableOf, LineTableOf
  <1>6. \A q : Dw!FileSays(q) = FileSays(q) /\ Dw!TableOf(q) = TableOf(q)
    BY <1>1, <1>2, <1>3, <1>4, <1>5 DEF Dw!FileSays, FileSays, Dw!TableOf, TableOf
  <1>7. QED
    BY <1>1, <1>6, Zenon DEF Dw!AnswersAreTheFiles, AnswersAreTheFiles

(* Whatever was asked of a file, in whatever order, and whatever of it      *)
(* threw, an answer is what the file says, for every file: only a unit      *)
(* whose DIE threw while it was read answers with the part that was.        *)
THEOREM CachesAnswerForFiles == Dw!Spec => []AnswersAreTheFiles
  <1> USE DwarfAssumption
  <1>1. CachesAreSound /\ [Dw!Next]_Dw!vars => CachesAreSound'
    <2> SUFFICES ASSUME CachesAreSound, [Dw!Next]_Dw!vars PROVE CachesAreSound'
      OBVIOUS
    <2>1. ASSUME NEW k \in DOMAIN file.units, Dw!AskRoot(k) PROVE CachesAreSound'
      BY <2>1, AskRootIsSound
    <2>2. ASSUME NEW k \in DOMAIN file.units, Dw!AskLineTable(k) PROVE CachesAreSound'
      BY <2>2, AskLineTableIsSound
    <2>3. ASSUME NEW sig, Dw!AskType(sig) PROVE CachesAreSound'
      BY <2>3, AskTypeIsSound
    <2>4. ASSUME NEW type, Dw!AskSection(type) PROVE CachesAreSound'
      BY <2>4, AskSectionIsSound
    <2>5. CASE UNCHANGED Dw!vars
      BY <2>5 DEF Dw!vars, CachesAreSound, UnitsAreSound, TypeUnitsAreSound, Dw!AnswersAreTheFiles,
                  Dw!FileSays, Dw!TableOf, Dw!LineTableOf, Dw!TypeOf, Dw!TypeUnitOf, Dw!SignedBy
    <2>6. QED
      BY <2>1, <2>2, <2>3, <2>4, <2>5 DEF Dw!Next
  <1>2. CachesAreSound => AnswersAreTheFiles
    BY SameAnswers DEF CachesAreSound
  <1>3. QED
    BY <1>1, <1>2, InitIsSound, PTL DEF Dw!Spec
===============================================================================
