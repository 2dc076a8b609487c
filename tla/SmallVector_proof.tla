-------------------------- MODULE SmallVector_proof --------------------------
(* Theorems about SmallVector.tla, for any number of vectors, any capacity  *)
(* of the objects' own buffers and vectors of any length.                   *)
EXTENDS SmallVector, NumberTheorems

(* Doubling reaches every length, and stays below twice it.                 *)
LEMMA TargetFacts ==
    ASSUME NEW cap \in Nat \ {0}, NEW n \in Nat, cap < n
    PROVE  \E k \in Nat \ {0} : Target(cap, n) = cap * 2 ^ k /\ n <= Target(cap, n)
  <1> DEFINE Reaches(m) == \E k \in 1 .. m : m <= cap * 2 ^ k /\ cap * 2 ^ k < 2 * m
             Bad == {m \in Nat : cap < m /\ ~Reaches(m)}
  <1>1. Bad = {}
    <2>1. SUFFICES ASSUME Bad # {} PROVE FALSE
      OBVIOUS
    <2>2. PICK m \in Bad : \A i \in Bad : m <= i
      BY <2>1, LeastExists
    <2>3. CASE m = cap + 1
      <3>1. \A k \in Nat : k > 0 /\ k < 2 => 2 ^ k = 2
        <4>1. ASSUME NEW k \in Nat, k > 0 /\ k < 2 PROVE 2 ^ k = 2
          <5>1. k - 1 \in Nat /\ k - 1 < 1 /\ (k - 1) + 1 = k
            BY <4>1
          <5>2. 2 ^ ((k - 1) + 1) = 2 * 2 ^ (k - 1) /\ 2 ^ (k - 1) = 1
            BY <5>1, PowerStep, PowerType
          <5>3. QED
            BY <5>1, <5>2
        <4>2. QED
          BY <4>1
      <3>2. m <= cap * 2 /\ cap * 2 < 2 * m /\ 1 \in 1 .. m
        BY <2>3
      <3>3. QED
        <4>1. PICK k \in 1 .. m : k = 1
          BY <3>2
        <4>2. 2 ^ k = 2
          BY <3>1, <4>1
        <4>3. QED
          BY <2>2, <3>2, <4>2
    <2>4. CASE m # cap + 1
      <3>1. m - 1 \in Nat /\ cap < m - 1 /\ Reaches(m - 1)
        BY <2>2, <2>4
      <3>2. PICK k \in 1 .. m - 1 : m - 1 <= cap * 2 ^ k /\ cap * 2 ^ k < 2 * (m - 1)
        BY <3>1
      <3>3. cap * 2 ^ k \in Nat /\ 2 ^ k \in Nat /\ 2 ^ (k + 1) = 2 * 2 ^ k
        <4>1. k \in Nat
          OBVIOUS
        <4>2. 2 ^ k \in Nat /\ 2 ^ (k + 1) = 2 * 2 ^ k
          BY <4>1, PowerType, PowerStep
        <4>3. \A x, y \in Nat : x * y \in Nat
          OBVIOUS
        <4>4. QED
          BY <4>2, <4>3
      <3>4. CASE m <= cap * 2 ^ k
        <4>1. k \in 1 .. m /\ cap * 2 ^ k < 2 * m
          BY <2>2, <3>2, <3>3
        <4>2. QED
          BY <2>2, <3>4, <4>1
      <3>5. CASE ~(m <= cap * 2 ^ k)
        <4>1. cap * 2 ^ k = m - 1
          BY <2>2, <3>2, <3>3, <3>5
        <4>2. cap * 2 ^ (k + 1) = 2 * (m - 1)
          BY <3>3, <4>1
        <4>3. k + 1 \in 1 .. m /\ m <= 2 * (m - 1) /\ 2 * (m - 1) < 2 * m
          BY <2>2, <2>4
        <4>4. QED
          BY <2>2, <4>2, <4>3
      <3>6. QED
        BY <3>4, <3>5
    <2>5. QED
      BY <2>3, <2>4
  <1>2. \E t \in {cap * 2 ^ k : k \in 1 .. n} : n <= t /\ t < 2 * n
    BY <1>1
  <1>3. Target(cap, n) \in {cap * 2 ^ k : k \in 1 .. n} /\ n <= Target(cap, n)
    BY <1>2 DEF Target
  <1>4. QED
    BY <1>3

-------------------------------------------------------------------------------
(* Cells, and vectors in a store that is sound.                             *)
Cell == Values \union {Junk}

LEMMA JunksFacts ==
    ASSUME NEW n \in Nat
    PROVE  Junks(n) \in Seq(Cell) /\ Len(Junks(n)) = n /\ \A i \in 1 .. n : Junks(n)[i] = Junk
  BY DEF Junks, Cell

LEMMA PaddedFacts ==
    ASSUME NEW s \in Seq(Values), NEW n \in Nat, Len(s) <= n
    PROVE  /\ s \o Junks(n - Len(s)) \in Seq(Cell)
           /\ Len(s \o Junks(n - Len(s))) = n
           /\ \A i \in 1 .. Len(s) : (s \o Junks(n - Len(s)))[i] = s[i]
           /\ \A i \in 1 .. n : ((s \o Junks(n - Len(s)))[i] = Junk) <=> (i > Len(s))
  <1>1. n - Len(s) \in Nat /\ Len(s) \in Nat
    OBVIOUS
  <1>2. /\ Junks(n - Len(s)) \in Seq(Cell) /\ Len(Junks(n - Len(s))) = n - Len(s)
        /\ \A i \in 1 .. n - Len(s) : Junks(n - Len(s))[i] = Junk
    BY <1>1, JunksFacts
  <1>3. s \in Seq(Cell)
    BY DEF Cell
  <1> DEFINE j == Junks(n - Len(s))
  <1> HIDE DEF j
  <1>4. s \o j \in Seq(Cell) /\ Len(s \o j) = n
    BY <1>1, <1>2, <1>3 DEF j
  <1>5. \A i \in 1 .. Len(s) : (s \o j)[i] = s[i] /\ s[i] # Junk
    BY <1>2, SmallVectorAssumption DEF j
  <1>6. \A i \in Len(s) + 1 .. n : (s \o j)[i] = Junk
    BY <1>1, <1>2 DEF j
  <1>7. \A i \in 1 .. n : ((s \o j)[i] = Junk) <=> (i > Len(s))
    <2>1. ASSUME NEW i \in 1 .. n PROVE ((s \o j)[i] = Junk) <=> (i > Len(s))
      <3>1. CASE i > Len(s)
        <4>1. i \in Len(s) + 1 .. n
          BY <1>1, <3>1
        <4>2. QED
          BY <1>6, <3>1, <4>1
      <3>2. CASE ~(i > Len(s))
        <4>1. i \in 1 .. Len(s)
          BY <1>1, <3>2
        <4>2. QED
          BY <1>5, <3>2, <4>1
      <3>3. QED
        BY <3>1, <3>2
    <2>2. QED
      BY <2>1
  <1>8. QED
    BY <1>4, <1>5, <1>7 DEF j

LEMMA VectorFacts ==
    ASSUME NEW st, IsSound(st), NEW v \in LiveIn(st)
    PROVE  /\ v \in Vectors /\ st.vec[v] \in Vector
           /\ st.vec[v].base \in Vectors \union Blocks
           /\ st.vec[v].size \in Nat /\ st.vec[v].cap \in Nat
           /\ st.vec[v].size <= st.vec[v].cap
           /\ st.cells[st.vec[v].base] \in Seq(Cell)
           /\ Len(st.cells[st.vec[v].base]) = st.vec[v].cap
           /\ VectorIsSound(st, v)
  <1>1. v \in Vectors /\ st.vec[v] \in Vector
    BY DEF IsSound, LiveIn
  <1>2. VectorIsSound(st, v)
    BY DEF IsSound
  <1>3. /\ st.vec[v].base \in Vectors \union Blocks
        /\ st.vec[v].size \in Nat /\ st.vec[v].cap \in Nat
    BY <1>1 DEF Vector
  <1>4. st.cells[st.vec[v].base] \in Seq(Cell)
    BY <1>3 DEF IsSound, Cell
  <1>5. QED
    BY <1>1, <1>2, <1>3, <1>4 DEF VectorIsSound

LEMMA ElementsFacts ==
    ASSUME NEW st, IsSound(st), NEW v \in LiveIn(st)
    PROVE  /\ Elements(st, v) \in Seq(Values)
           /\ Len(Elements(st, v)) = st.vec[v].size
           /\ \A i \in 1 .. st.vec[v].size : Elements(st, v)[i] = st.cells[st.vec[v].base][i]
  <1> DEFINE held == st.cells[st.vec[v].base]
             size == st.vec[v].size
  <1>1. /\ held \in Seq(Cell) /\ size \in Nat /\ size <= Len(held)
        /\ \A i \in 1 .. Len(held) : (held[i] = Junk) <=> (i > size)
    BY VectorFacts DEF VectorIsSound
  <1> HIDE DEF held, size
  <1>2. \A i \in 1 .. size : held[i] \in Values
    <2>1. \A i \in 1 .. size : i \in 1 .. Len(held) /\ ~(i > size)
      BY <1>1
    <2>2. \A i \in 1 .. Len(held) : held[i] \in Cell
      BY <1>1
    <2>3. QED
      BY <1>1, <2>1, <2>2 DEF Cell
  <1>3. Elements(st, v) = [i \in 1 .. size |-> held[i]]
    BY DEF Elements, held, size
  <1> DEFINE e == [i \in 1 .. size |-> held[i]]
  <1>4. e \in Seq(Values) /\ Len(e) = size /\ \A i \in 1 .. size : e[i] = held[i]
    BY <1>1, <1>2
  <1> HIDE DEF e
  <1>5. Elements(st, v) = e
    BY <1>3 DEF e
  <1>6. QED
    BY <1>4, <1>5, Zenon DEF held, size

LEMMA BaseFacts ==
    ASSUME NEW st, IsSound(st), NEW v \in LiveIn(st)
    PROVE  /\ st.vec[v].base \in {v} \union Blocks
           /\ \A w \in Vectors : w # v => st.vec[v].base # w
           /\ \A w \in LiveIn(st) : w # v => st.vec[w].base # st.vec[v].base
           /\ st.vec[v] # None /\ v \notin Blocks
  <1>1. st.vec[v].base \in {v} \union Blocks
    BY VectorFacts DEF VectorIsSound
  <1>2. \A w \in LiveIn(st) : w # v => st.vec[w].base # st.vec[v].base
    BY DEF IsSound
  <1>3. \A w \in Vectors : w \notin Blocks
    BY SmallVectorAssumption
  <1>4. st.vec[v] # None /\ v \in Vectors
    BY DEF LiveIn
  <1>5. QED
    BY <1>1, <1>2, <1>3, <1>4

(* Writing to a vector's storage, and setting how much of it is in use.     *)
LEMMA RewrittenFacts ==
    ASSUME NEW st, IsSound(st), NEW v \in LiveIn(st),
           NEW size \in Nat, size <= st.vec[v].cap,
           NEW held \in Seq(Cell), Len(held) = st.vec[v].cap,
           \A i \in 1 .. st.vec[v].cap : (held[i] = Junk) <=> (i > size),
           NEW new, new = Rewritten(st, v, held, size)
    PROVE  /\ IsSound(new) /\ LiveIn(new) = LiveIn(st)
           /\ new.vec[v].base = st.vec[v].base /\ new.vec[v].cap = st.vec[v].cap
           /\ new.vec[v].size = size
           /\ Seqs(new) = [Seqs(st) EXCEPT ![v] = [i \in 1 .. size |-> held[i]]]
  <1> DEFINE base == st.vec[v].base
  <1>1. /\ v \in Vectors /\ st.vec[v] \in Vector /\ base \in Vectors \union Blocks
        /\ st.vec \in [Vectors -> Vector \union {None}]
        /\ st.cells \in [Vectors \union Blocks -> Seq(Cell)]
        /\ VectorIsSound(st, v)
    BY VectorFacts DEF IsSound, Cell
  <1>2. /\ base \in {v} \union Blocks /\ st.vec[v] # None /\ v \notin Blocks
        /\ \A w \in Vectors : w # v => base # w
        /\ \A w \in LiveIn(st) : w # v => st.vec[w].base # base
    BY BaseFacts
  <1>3. /\ [st.vec[v] EXCEPT !.size = size] \in Vector
        /\ [st.vec[v] EXCEPT !.size = size].base = base
        /\ [st.vec[v] EXCEPT !.size = size].size = size
        /\ [st.vec[v] EXCEPT !.size = size].cap = st.vec[v].cap
    BY <1>1 DEF Vector
  <1>4. \A r \in Vector : r # None
    BY SmallVectorAssumption DEF Vector
  <1> HIDE DEF base
  <1>5. /\ new.vec = [st.vec EXCEPT ![v] = [st.vec[v] EXCEPT !.size = size]]
        /\ new.cells = [st.cells EXCEPT ![base] = held]
    BY DEF Rewritten, Store, base
  <1>6. /\ new.vec \in [Vectors -> Vector \union {None}]
        /\ new.vec[v].base = base /\ new.vec[v].size = size /\ new.vec[v].cap = st.vec[v].cap
        /\ new.vec[v] # None
        /\ \A w \in Vectors : w # v => new.vec[w] = st.vec[w]
    BY <1>1, <1>3, <1>4, <1>5, ZenonT(40)
  <1>7. /\ new.cells \in [Vectors \union Blocks -> Seq(Cell)]
        /\ new.cells[base] = held
        /\ \A s \in Vectors \union Blocks : s # base => new.cells[s] = st.cells[s]
    BY <1>1, <1>5
  <1>8. LiveIn(new) = LiveIn(st)
    BY <1>2, <1>6 DEF LiveIn
  <1>9. \A w \in LiveIn(st) : w \in Vectors /\ new.vec[w].base = st.vec[w].base
    BY <1>6 DEF LiveIn, base
  <1>10. ASSUME NEW w \in LiveIn(st), w # v
         PROVE  /\ new.vec[w] = st.vec[w]
                /\ new.cells[st.vec[w].base] = st.cells[st.vec[w].base]
    <2>1. w \in Vectors /\ st.vec[w].base \in Vectors \union Blocks /\ st.vec[w].base # base
      BY <1>2, <1>10, VectorFacts
    <2>2. QED
      BY <1>6, <1>7, <1>10, <2>1
  <1>11. ASSUME NEW w \in LiveIn(new) PROVE VectorIsSound(new, w)
    <2>1. CASE w = v
      <3>1. IF base = v THEN st.vec[v].cap = MinCap ELSE IsDoubled(st.vec[v].cap)
        BY <1>1 DEF VectorIsSound, base
      <3>2. VectorIsSound(new, v)
        BY <1>2, <1>6, <1>7, <3>1 DEF VectorIsSound
      <3>3. QED
        BY <2>1, <3>2
    <2>2. CASE w # v
      <3>1. VectorIsSound(st, w)
        BY <1>8, VectorFacts
      <3>2. new.vec[w] = st.vec[w] /\ new.cells[st.vec[w].base] = st.cells[st.vec[w].base]
        BY <1>8, <1>10, <2>2
      <3>3. QED
        BY <3>1, <3>2 DEF VectorIsSound
    <2>3. QED
      BY <2>1, <2>2
  <1>12. ASSUME NEW w \in Vectors, w \in LiveIn(new) => new.vec[w].base # w
         PROVE  new.cells[w] = Junks(MinCap)
    <2>1. w # base
      BY <1>2, <1>6, <1>8, <1>12 DEF LiveIn
    <2>2. w \in LiveIn(st) => st.vec[w].base # w
      BY <1>8, <1>9, <1>12
    <2>3. st.cells[w] = Junks(MinCap)
      BY <2>2 DEF IsSound
    <2>4. QED
      BY <1>7, <2>1, <2>3
  <1>13. ASSUME NEW b \in Blocks, new.cells[b] # <<>>
         PROVE  \E w \in LiveIn(new) : new.vec[w].base = b
    <2>1. CASE b = base
      BY <1>6, <1>8, <2>1
    <2>2. CASE b # base
      <3>1. PICK w \in LiveIn(st) : st.vec[w].base = b
        BY <1>7, <1>13, <2>2 DEF IsSound
      <3>2. QED
        BY <1>8, <1>9, <3>1
    <2>3. QED
      BY <2>1, <2>2
  <1>14. \A u, w \in LiveIn(new) : new.vec[u].base = new.vec[w].base => u = w
    BY <1>8, <1>9 DEF IsSound
  <1>15. IsSound(new)
    BY <1>6, <1>7, <1>11, <1>12, <1>13, <1>14 DEF IsSound, Cell
  <1>16. Seqs(new) = [Seqs(st) EXCEPT ![v] = [i \in 1 .. size |-> held[i]]]
    <2>1. Elements(new, v) = [i \in 1 .. size |-> held[i]]
      BY <1>6, <1>7 DEF Elements
    <2>2. ASSUME NEW w \in Vectors, w # v
          PROVE  /\ new.vec[w] = st.vec[w]
                 /\ new.vec[w] # None => Elements(new, w) = Elements(st, w)
      BY <1>6, <1>10, <2>2 DEF Elements, LiveIn
    <2>3. QED
      BY <1>1, <1>6, <2>1, <2>2 DEF Seqs
  <1>17. QED
    BY <1>6, <1>8, <1>15, <1>16 DEF base

(* Capacities: what doubling makes of one is one, of at least one cell.     *)
LEMMA DoubledFacts ==
    /\ \A k \in Nat \ {0} : MinCap * 2 ^ k \in Nat /\ IsDoubled(MinCap * 2 ^ k)
    /\ \A c \in Nat : IsDoubled(c) => c > 0 /\ \A k \in Nat \ {0} : IsDoubled(c * 2 ^ k)
  <1>1. ASSUME NEW k \in Nat \ {0} PROVE MinCap * 2 ^ k \in Nat /\ IsDoubled(MinCap * 2 ^ k)
    <2>1. 2 ^ k \in Nat /\ k < 2 ^ k /\ MinCap \in Nat \ {0}
      BY PowerType, PowerGrows, SmallVectorAssumption
    <2>2. \A x, y \in Nat : x # 0 => y <= x * y /\ x * y \in Nat
      OBVIOUS
    <2>3. MinCap * 2 ^ k \in Nat /\ 2 ^ k <= MinCap * 2 ^ k
      BY <2>1, <2>2
    <2>4. k \in 1 .. MinCap * 2 ^ k
      BY <2>1, <2>3
    <2>5. QED
      BY <2>3, <2>4 DEF IsDoubled
  <1>2. ASSUME NEW c \in Nat, IsDoubled(c), NEW k \in Nat \ {0} PROVE IsDoubled(c * 2 ^ k)
    <2>1. PICK j \in 1 .. c : c = MinCap * 2 ^ j
      BY <1>2 DEF IsDoubled
    <2>2. j \in Nat \ {0} /\ j + k \in Nat \ {0}
      BY <2>1
    <2>3. 2 ^ (j + k) = 2 ^ j * 2 ^ k /\ 2 ^ j \in Nat /\ 2 ^ k \in Nat /\ MinCap \in Nat
      BY <2>2, PowerSum, PowerType, SmallVectorAssumption
    <2>4. \A x, y, z \in Nat : (x * y) * z = x * (y * z)
      OBVIOUS
    <2>5. c * 2 ^ k = MinCap * 2 ^ (j + k)
      BY <2>1, <2>3, <2>4
    <2>6. QED
      BY <1>1, <2>2, <2>5
  <1>3. ASSUME NEW c \in Nat, IsDoubled(c) PROVE c > 0
    BY <1>3 DEF IsDoubled
  <1>4. QED
    BY <1>1, <1>2, <1>3

LEMMA FreeBlock ==
    ASSUME NEW st, IsSound(st)
    PROVE  /\ \E b \in Blocks : st.cells[b] = <<>>
           /\ \A b \in Blocks : st.cells[b] = <<>> => \A v \in LiveIn(st) : st.vec[v].base # b
           /\ \A v \in LiveIn(st) : st.vec[v].cap > 0
  <1>1. ASSUME \A b \in Blocks : st.cells[b] # <<>> PROVE FALSE
    <2> DEFINE users == {v \in LiveIn(st) : st.vec[v].base \in Blocks}
               f == [v \in users |-> st.vec[v].base]
    <2>1. \A b \in Blocks : \E v \in users : st.vec[v].base = b
      BY <1>1 DEF IsSound
    <2>2. f \in [users -> Blocks] /\ \A v \in users : f[v] = st.vec[v].base
      OBVIOUS
    <2>3. users \in SUBSET Vectors
      BY DEF LiveIn
    <2>4. IsFiniteSet(users) /\ Cardinality(users) <= Cardinality(Vectors)
      BY <2>3, FS_Subset, SmallVectorAssumption
    <2> HIDE DEF f, users
    <2>5. f \in Surjection(users, Blocks)
      BY <2>1, <2>2 DEF Surjection
    <2>6. Cardinality(Blocks) <= Cardinality(users)
      BY <2>4, <2>5, FS_Surjection
    <2>7. /\ Cardinality(users) \in Nat /\ Cardinality(Vectors) \in Nat
          /\ Cardinality(Blocks) \in Nat
      BY <2>4, FS_CardinalityType, SmallVectorAssumption
    <2>8. QED
      BY <2>4, <2>6, <2>7, SmallVectorAssumption
  <1>2. ASSUME NEW v \in LiveIn(st)
        PROVE  st.vec[v].cap > 0 /\ st.cells[st.vec[v].base] # <<>>
    <2>1. /\ st.vec[v].cap \in Nat /\ st.cells[st.vec[v].base] \in Seq(Cell)
          /\ Len(st.cells[st.vec[v].base]) = st.vec[v].cap
      BY VectorFacts
    <2>2. st.vec[v].cap = MinCap \/ IsDoubled(st.vec[v].cap)
      BY VectorFacts DEF VectorIsSound
    <2>3. st.vec[v].cap > 0
      BY <2>1, <2>2, DoubledFacts, SmallVectorAssumption
    <2>4. QED
      BY <2>1, <2>3
  <1>3. QED
    BY <1>1, <1>2

(* Moving a vector to a block of at least n cells.                          *)
LEMMA MovedFacts ==
    ASSUME NEW st, IsSound(st), NEW v \in LiveIn(st), NEW n \in Nat, st.vec[v].cap < n,
           NEW new, new = Moved(st, v, n, Released(st, v))
    PROVE  /\ IsSound(new) /\ LiveIn(new) = LiveIn(st)
           /\ new.vec[v].size = st.vec[v].size /\ n <= new.vec[v].cap
           /\ Seqs(new) = Seqs(st)
  <1> DEFINE base == st.vec[v].base
             size == st.vec[v].size
             left == IF base = v THEN Junks(MinCap) ELSE <<>>
             block == CHOOSE b \in Blocks : st.cells[b] = <<>>
             target == Target(st.vec[v].cap, n)
             held == Elements(st, v) \o Junks(target - size)
             r == [base |-> block, size |-> size, cap |-> target]
  <1>1. /\ v \in Vectors /\ st.vec[v] \in Vector /\ base \in Vectors \union Blocks
        /\ st.vec \in [Vectors -> Vector \union {None}]
        /\ st.cells \in [Vectors \union Blocks -> Seq(Cell)]
        /\ VectorIsSound(st, v)
        /\ size \in Nat /\ st.vec[v].cap \in Nat /\ size <= st.vec[v].cap
    BY VectorFacts DEF IsSound, Cell
  <1>2. /\ base \in {v} \union Blocks /\ st.vec[v] # None /\ v \notin Blocks
        /\ \A w \in Vectors : w # v => base # w
        /\ \A w \in LiveIn(st) : w # v => st.vec[w].base # base
    BY BaseFacts
  <1>3. /\ block \in Blocks /\ st.cells[block] = <<>> /\ base # block
        /\ \A w \in LiveIn(st) : st.vec[w].base # block
        /\ st.vec[v].cap \in Nat \ {0}
    BY <1>1, FreeBlock
  <1>4. /\ target \in Nat /\ n <= target /\ IsDoubled(target)
    <2>1. PICK k \in Nat \ {0} : target = st.vec[v].cap * 2 ^ k /\ n <= target
      BY <1>3, TargetFacts
    <2>2. st.vec[v].cap = MinCap \/ IsDoubled(st.vec[v].cap)
      BY <1>1 DEF VectorIsSound
    <2>3. 2 ^ k \in Nat
      BY PowerType
    <2>4. \A x, y \in Nat : x * y \in Nat
      OBVIOUS
    <2>5. target \in Nat
      BY <1>1, <2>1, <2>3, <2>4
    <2> HIDE DEF target
    <2>6. QED
      BY <1>1, <2>1, <2>2, <2>5, DoubledFacts
  <1>5. /\ Elements(st, v) \in Seq(Values) /\ Len(Elements(st, v)) = size
    BY ElementsFacts
  <1>6. /\ held \in Seq(Cell) /\ Len(held) = target
        /\ \A i \in 1 .. size : held[i] = Elements(st, v)[i]
        /\ \A i \in 1 .. target : (held[i] = Junk) <=> (i > size)
    <2>1. Len(Elements(st, v)) <= target
      BY <1>1, <1>4, <1>5
    <2> HIDE DEF target, size
    <2>2. QED
      BY <1>4, <1>5, <2>1, PaddedFacts
  <1>7. r \in Vector /\ r # None /\ r.base = block /\ r.size = size /\ r.cap = target
    BY <1>1, <1>3, <1>4, SmallVectorAssumption DEF Vector
  <1>8. left \in Seq(Cell)
    <2>1. MinCap \in Nat
      BY SmallVectorAssumption
    <2>2. QED
      BY <2>1, JunksFacts
  <1>9. /\ new.vec = [st.vec EXCEPT ![v] = r]
        /\ new.cells = [[st.cells EXCEPT ![base] = left] EXCEPT ![block] = held]
    BY DEF Moved, Released, Store
  <1> HIDE DEF base, size, left, block, target, held, r
  <1>10. /\ new.vec \in [Vectors -> Vector \union {None}]
         /\ new.vec[v] = r
         /\ \A w \in Vectors : w # v => new.vec[w] = st.vec[w]
    BY <1>1, <1>7, <1>9
  <1>11. /\ new.cells \in [Vectors \union Blocks -> Seq(Cell)]
         /\ new.cells[block] = held /\ new.cells[base] = left
         /\ \A s \in Vectors \union Blocks : s # base /\ s # block => new.cells[s] = st.cells[s]
    <2>1. block \in Vectors \union Blocks /\ base \in Vectors \union Blocks /\ base # block
      BY <1>1, <1>3
    <2>2. st.cells \in [Vectors \union Blocks -> Seq(Cell)]
      BY <1>1
    <2>3. left \in Seq(Cell) /\ held \in Seq(Cell)
      BY <1>6, <1>8
    <2> DEFINE mid == [st.cells EXCEPT ![base] = left]
    <2>4. /\ mid \in [Vectors \union Blocks -> Seq(Cell)] /\ mid[base] = left
          /\ \A s \in Vectors \union Blocks : s # base => mid[s] = st.cells[s]
      BY <2>1, <2>2, <2>3
    <2>5. new.cells = [mid EXCEPT ![block] = held]
      BY <1>9
    <2> HIDE DEF mid
    <2>6. QED
      BY <2>1, <2>3, <2>4, <2>5
  <1>12. LiveIn(new) = LiveIn(st)
    BY <1>2, <1>7, <1>10 DEF LiveIn
  <1>13. ASSUME NEW w \in LiveIn(st), w # v
         PROVE  /\ w \in Vectors /\ new.vec[w] = st.vec[w]
                /\ new.cells[st.vec[w].base] = st.cells[st.vec[w].base]
                /\ st.vec[w].base # block
    <2>1. /\ w \in Vectors /\ st.vec[w].base \in Vectors \union Blocks
          /\ st.vec[w].base # base /\ st.vec[w].base # block
      BY <1>2, <1>3, <1>13, VectorFacts
    <2>2. QED
      BY <1>10, <1>11, <1>13, <2>1
  <1>14. ASSUME NEW w \in LiveIn(new) PROVE VectorIsSound(new, w)
    <2>1. CASE w = v
      <3>1. block # v
        BY <1>2, <1>3
      <3>2. size <= target
        BY <1>1, <1>4, <1>6
      <3>3. VectorIsSound(new, v)
        BY <1>3, <1>4, <1>6, <1>7, <1>10, <1>11, <3>1, <3>2 DEF VectorIsSound
      <3>4. QED
        BY <2>1, <3>3
    <2>2. CASE w # v
      <3>1. VectorIsSound(st, w)
        BY <1>12, VectorFacts
      <3>2. new.vec[w] = st.vec[w] /\ new.cells[st.vec[w].base] = st.cells[st.vec[w].base]
        BY <1>12, <1>13, <2>2
      <3>3. QED
        BY <3>1, <3>2 DEF VectorIsSound
    <2>3. QED
      BY <2>1, <2>2
  <1>15. ASSUME NEW w \in Vectors, w \in LiveIn(new) => new.vec[w].base # w
         PROVE  new.cells[w] = Junks(MinCap)
    <2>1. w # block
      BY <1>3, SmallVectorAssumption
    <2>2. CASE w = base
      <3>1. left = Junks(MinCap)
        BY <1>2, <2>2 DEF left
      <3>2. QED
        BY <1>11, <2>2, <3>1
    <2>3. CASE w # base
      <3>1. w \in LiveIn(st) => st.vec[w].base # w
        BY <1>12, <1>13, <1>15, <2>3 DEF base
      <3>2. st.cells[w] = Junks(MinCap)
        BY <3>1 DEF IsSound
      <3>3. QED
        BY <1>11, <2>1, <2>3, <3>2
    <2>4. QED
      BY <2>2, <2>3
  <1>16. ASSUME NEW b \in Blocks, new.cells[b] # <<>>
         PROVE  \E w \in LiveIn(new) : new.vec[w].base = b
    <2>1. CASE b = block
      BY <1>7, <1>10, <1>12, <2>1
    <2>2. CASE b # block
      <3>1. b # base
        BY <1>2, <1>11, <1>16 DEF left
      <3>2. PICK w \in LiveIn(st) : st.vec[w].base = b
        BY <1>11, <1>16, <2>2, <3>1 DEF IsSound
      <3>3. w # v
        BY <3>1, <3>2 DEF base
      <3>4. QED
        BY <1>12, <1>13, <3>2, <3>3
    <2>3. QED
      BY <2>1, <2>2
  <1>17. \A u, w \in LiveIn(new) : new.vec[u].base = new.vec[w].base => u = w
    <2>1. \A w \in LiveIn(st) : w # v => new.vec[w].base # block /\ new.vec[w].base = st.vec[w].base
      BY <1>13
    <2>2. \A u, w \in LiveIn(st) : st.vec[u].base = st.vec[w].base => u = w
      BY DEF IsSound
    <2>3. QED
      BY <1>7, <1>10, <1>12, <2>1, <2>2
  <1>18. IsSound(new)
    BY <1>10, <1>11, <1>14, <1>15, <1>16, <1>17 DEF IsSound, Cell
  <1>19. Seqs(new) = Seqs(st)
    <2>1. Elements(new, v) = Elements(st, v)
      <3>1. Elements(new, v) = [i \in 1 .. size |-> held[i]]
        BY <1>7, <1>10, <1>11 DEF Elements
      <3>2. Elements(st, v) = [i \in 1 .. size |-> Elements(st, v)[i]]
        BY DEF Elements, size
      <3>3. QED
        BY <1>6, <3>1, <3>2
    <2>2. ASSUME NEW w \in Vectors, w # v
          PROVE  /\ new.vec[w] = st.vec[w]
                 /\ new.vec[w] # None => Elements(new, w) = Elements(st, w)
      BY <1>10, <1>13, <2>2 DEF Elements, LiveIn
    <2>3. new.vec[v] # None /\ st.vec[v] # None
      BY <1>2, <1>7, <1>10
    <2>4. QED
      BY <2>1, <2>2, <2>3 DEF Seqs
  <1>20. QED
    BY <1>4, <1>7, <1>10, <1>12, <1>18, <1>19 DEF size, target

LEMMA ReservedFacts ==
    ASSUME NEW st, IsSound(st), NEW v \in LiveIn(st), NEW n \in Nat,
           NEW new, new = Reserved(st, v, n)
    PROVE  /\ IsSound(new) /\ LiveIn(new) = LiveIn(st)
           /\ new.vec[v].size = st.vec[v].size /\ n <= new.vec[v].cap
           /\ Seqs(new) = Seqs(st)
  <1>1. st.vec[v].cap \in Nat
    BY VectorFacts
  <1>2. CASE n <= st.vec[v].cap
    BY <1>2 DEF Reserved
  <1>3. CASE ~(n <= st.vec[v].cap)
    <2>1. st.vec[v].cap < n /\ new = Moved(st, v, n, Released(st, v))
      BY <1>1, <1>3 DEF Reserved
    <2>2. QED
      BY <2>1, MovedFacts
  <1>4. QED
    BY <1>2, <1>3

-------------------------------------------------------------------------------
(* The operations the member functions are made of.                         *)
LEMMA SeqsFacts ==
    ASSUME NEW st, IsSound(st)
    PROVE  /\ DOMAIN Seqs(st) = Vectors
           /\ \A v \in Vectors : v \in LiveIn(st) <=> Seqs(st)[v] # None
           /\ \A v \in LiveIn(st) : Seqs(st)[v] = Elements(st, v) /\ v \in Vectors
  <1>1. ASSUME NEW v \in Vectors PROVE v \in LiveIn(st) <=> Seqs(st)[v] # None
    <2>1. CASE v \in LiveIn(st)
      <3>1. Elements(st, v) # None
        BY <2>1, ElementsFacts, SmallVectorAssumption
      <3>2. QED
        BY <2>1, <3>1 DEF Seqs, LiveIn
    <2>2. CASE v \notin LiveIn(st)
      BY <2>2 DEF Seqs, LiveIn
    <2>3. QED
      BY <2>1, <2>2
  <1>2. QED
    BY <1>1 DEF Seqs, LiveIn

LEMMA FilledFacts ==
    ASSUME NEW st, IsSound(st), NEW v \in LiveIn(st),
           NEW s \in Seq(Values), Len(s) <= st.vec[v].cap,
           NEW new, new = Filled(st, v, s)
    PROVE  /\ IsSound(new) /\ LiveIn(new) = LiveIn(st)
           /\ new.vec[v].base = st.vec[v].base /\ new.vec[v].cap = st.vec[v].cap
           /\ Seqs(new) = [Seqs(st) EXCEPT ![v] = s]
  <1> DEFINE held == s \o Junks(st.vec[v].cap - Len(s))
  <1>1. st.vec[v].cap \in Nat
    BY VectorFacts
  <1>2. /\ held \in Seq(Cell) /\ Len(held) = st.vec[v].cap
        /\ \A i \in 1 .. Len(s) : held[i] = s[i]
        /\ \A i \in 1 .. st.vec[v].cap : (held[i] = Junk) <=> (i > Len(s))
    BY <1>1, PaddedFacts
  <1>3. new = Rewritten(st, v, held, Len(s))
    BY DEF Filled
  <1> HIDE DEF held
  <1>4. s = [i \in 1 .. Len(s) |-> held[i]]
    BY <1>2
  <1>5. Len(s) \in Nat
    OBVIOUS
  <1>6. /\ IsSound(new) /\ LiveIn(new) = LiveIn(st)
        /\ new.vec[v].base = st.vec[v].base /\ new.vec[v].cap = st.vec[v].cap
        /\ Seqs(new) = [Seqs(st) EXCEPT ![v] = [i \in 1 .. Len(s) |-> held[i]]]
    BY <1>2, <1>3, <1>5, RewrittenFacts
  <1>7. QED
    BY <1>4, <1>6

LEMMA ClearedFacts ==
    ASSUME NEW st, IsSound(st), NEW v \in LiveIn(st), NEW new, new = Cleared(st, v)
    PROVE  /\ IsSound(new) /\ LiveIn(new) = LiveIn(st)
           /\ new.vec[v].base = st.vec[v].base /\ new.vec[v].cap = st.vec[v].cap
           /\ Seqs(new) = [Seqs(st) EXCEPT ![v] = <<>>]
  <1>1. PICK s \in Seq(Values) : s = <<>>
    <2>1. <<>> \in Seq(Values)
      OBVIOUS
    <2>2. QED
      BY <2>1, Zenon
  <1>2. Len(s) <= st.vec[v].cap /\ new = Filled(st, v, s)
    BY <1>1, VectorFacts DEF Cleared
  <1>3. Seqs(new) = [Seqs(st) EXCEPT ![v] = s]
    BY <1>2, FilledFacts
  <1>4. QED
    BY <1>1, <1>2, <1>3, FilledFacts

LEMMA AssignedFacts ==
    ASSUME NEW st, IsSound(st), NEW v \in LiveIn(st), NEW o \in LiveIn(st),
           NEW new, new = Assigned(st, v, o)
    PROVE  /\ IsSound(new) /\ LiveIn(new) = LiveIn(st)
           /\ Seqs(new) = [Seqs(st) EXCEPT ![v] = Seqs(st)[o]]
  <1>1. SUFFICES ASSUME NEW clear, clear = Cleared(st, v),
                        NEW room, room = Reserved(clear, v, st.vec[o].size)
                 PROVE  /\ IsSound(new) /\ LiveIn(new) = LiveIn(st)
                        /\ Seqs(new) = [Seqs(st) EXCEPT ![v] = Seqs(st)[o]]
    OBVIOUS
  <1>2. IsSound(clear) /\ v \in LiveIn(clear)
    BY <1>1, ClearedFacts
  <1>3. LiveIn(clear) = LiveIn(st) /\ Seqs(clear) = [Seqs(st) EXCEPT ![v] = <<>>]
    BY <1>1, ClearedFacts
  <1>4. st.vec[o].size \in Nat /\ room = Reserved(clear, v, st.vec[o].size)
    <2>1. st.vec[o].size \in Nat
      BY VectorFacts
    <2>2. QED
      BY <1>1, <2>1
  <1>5. /\ IsSound(room) /\ LiveIn(room) = LiveIn(clear)
        /\ st.vec[o].size <= room.vec[v].cap /\ Seqs(room) = Seqs(clear)
    BY <1>2, <1>4, ReservedFacts, SMTT(30)
  <1>6. IsSound(room) /\ v \in LiveIn(room)
    BY <1>2, <1>5
  <1>7. Elements(st, o) \in Seq(Values) /\ Len(Elements(st, o)) <= room.vec[v].cap
    BY <1>5, ElementsFacts
  <1>8. new = Filled(room, v, Elements(st, o))
    BY <1>1 DEF Assigned
  <1>9. /\ IsSound(new) /\ LiveIn(new) = LiveIn(room)
        /\ Seqs(new) = [Seqs(room) EXCEPT ![v] = Elements(st, o)]
    BY <1>6, <1>7, <1>8, FilledFacts
  <1>10. Seqs(st)[o] = Elements(st, o) /\ DOMAIN Seqs(st) = Vectors /\ v \in Vectors
    BY SeqsFacts
  <1>11. QED
    BY <1>3, <1>5, <1>9, <1>10

(* A cell written, and the length it leaves.                                *)
Leaves(st, v, i, x, n, s) ==
    LET cap == st.vec[v].cap
        was == st.cells[st.vec[v].base]
    IN  /\ i \in 1 .. cap /\ x \in Cell /\ n \in 0 .. cap
        /\ x = Junk <=> i > n
        /\ \A j \in 1 .. cap : j # i => (j > st.vec[v].size <=> j > n)
        /\ s \in Seq(Cell) /\ Len(s) = n
        /\ \A j \in 1 .. n : s[j] = IF j = i THEN x ELSE was[j]

LEMMA WrittenFacts ==
    ASSUME NEW st, IsSound(st), NEW v \in LiveIn(st),
           NEW i, NEW x, NEW n, NEW s, Leaves(st, v, i, x, n, s),
           NEW new, new = Written(st, v, i, x, n)
    PROVE  /\ IsSound(new) /\ LiveIn(new) = LiveIn(st)
           /\ Seqs(new) = [Seqs(st) EXCEPT ![v] = s]
  <1> DEFINE cap  == st.vec[v].cap
             was  == st.cells[st.vec[v].base]
             held == [was EXCEPT ![i] = x]
  <1>1. /\ cap \in Nat /\ was \in Seq(Cell) /\ Len(was) = cap
        /\ \A j \in 1 .. cap : (was[j] = Junk) <=> (j > st.vec[v].size)
    BY VectorFacts DEF VectorIsSound
  <1>2. new = Rewritten(st, v, held, n)
    BY DEF Written
  <1>3. /\ i \in 1 .. cap /\ x \in Cell /\ n \in Nat /\ n <= cap
        /\ x = Junk <=> i > n
        /\ \A j \in 1 .. cap : j # i => (j > st.vec[v].size <=> j > n)
        /\ s \in Seq(Cell) /\ Len(s) = n
        /\ \A j \in 1 .. n : s[j] = IF j = i THEN x ELSE was[j]
    BY <1>1 DEF Leaves
  <1> HIDE DEF was
  <1>4. held \in Seq(Cell) /\ Len(held) = cap
    BY <1>1, <1>3
  <1>5. \A j \in 1 .. cap : held[j] = IF j = i THEN x ELSE was[j]
    BY <1>1, <1>3
  <1>6. \A j \in 1 .. cap : (held[j] = Junk) <=> (j > n)
    BY <1>1, <1>5, <1>3
  <1> HIDE DEF held
  <1>7. /\ IsSound(new) /\ LiveIn(new) = LiveIn(st)
        /\ Seqs(new) = [Seqs(st) EXCEPT ![v] = [j \in 1 .. n |-> held[j]]]
    BY <1>2, <1>4, <1>6, <1>3, RewrittenFacts
  <1>8. \A j \in 1 .. n : s[j] = held[j]
    BY <1>1, <1>5, <1>3
  <1>9. s = [j \in 1 .. n |-> held[j]]
    BY <1>8, <1>3
  <1>10. QED
    BY <1>7, <1>9

LEMMA ConstructedFacts ==
    ASSUME NEW st, IsSound(st), NEW v \in Vectors, v \notin LiveIn(st),
           NEW new, new = Constructed(st, v)
    PROVE  /\ IsSound(new) /\ LiveIn(new) = LiveIn(st) \union {v}
           /\ Seqs(new) = [Seqs(st) EXCEPT ![v] = <<>>]
  <1>1. /\ st.vec \in [Vectors -> Vector \union {None}]
        /\ st.cells \in [Vectors \union Blocks -> Seq(Cell)]
        /\ st.cells[v] = Junks(MinCap) /\ st.vec[v] = None
    BY DEF IsSound, Cell, LiveIn
  <1>2. /\ Fresh(v) \in Vector /\ Fresh(v) # None /\ MinCap \in Nat \ {0}
        /\ Fresh(v).base = v /\ Fresh(v).size = 0 /\ Fresh(v).cap = MinCap
    BY SmallVectorAssumption DEF Fresh, Vector
  <1>3. new.vec = [st.vec EXCEPT ![v] = Fresh(v)] /\ new.cells = st.cells
    BY DEF Constructed, Store
  <1>4. /\ new.vec \in [Vectors -> Vector \union {None}]
        /\ new.vec[v] = Fresh(v)
        /\ \A w \in Vectors : w # v => new.vec[w] = st.vec[w]
    BY <1>1, <1>2, <1>3
  <1>5. LiveIn(new) = LiveIn(st) \union {v}
    BY <1>2, <1>4 DEF LiveIn
  <1>6. \A w \in LiveIn(st) : /\ w \in Vectors /\ w # v /\ new.vec[w] = st.vec[w]
                              /\ st.vec[w].base # v
    BY <1>4, BaseFacts DEF LiveIn
  <1>7. ASSUME NEW w \in LiveIn(new) PROVE VectorIsSound(new, w)
    <2>1. CASE w = v
      <3>1. Junks(MinCap) \in Seq(Cell) /\ Len(Junks(MinCap)) = MinCap
        BY <1>2, JunksFacts
      <3>2. \A i \in 1 .. MinCap : (Junks(MinCap)[i] = Junk) <=> (i > 0)
        BY <1>2, JunksFacts
      <3>3. VectorIsSound(new, v)
        BY <1>1, <1>2, <1>3, <1>4, <3>1, <3>2 DEF VectorIsSound
      <3>4. QED
        BY <2>1, <3>3
    <2>2. CASE w # v
      <3>1. w \in LiveIn(st)
        BY <1>5, <2>2
      <3>2. VectorIsSound(st, w) /\ new.vec[w] = st.vec[w]
        BY <1>6, <3>1, VectorFacts
      <3>3. QED
        BY <1>3, <3>2 DEF VectorIsSound
    <2>3. QED
      BY <2>1, <2>2
  <1>8. ASSUME NEW w \in Vectors, w \in LiveIn(new) => new.vec[w].base # w
        PROVE  new.cells[w] = Junks(MinCap)
    <2>1. w # v
      BY <1>2, <1>4, <1>5, <1>8
    <2>2. w \in LiveIn(st) => st.vec[w].base # w
      BY <1>5, <1>6, <1>8
    <2>3. QED
      BY <1>3, <2>2 DEF IsSound
  <1>9. ASSUME NEW b \in Blocks, new.cells[b] # <<>>
        PROVE  \E w \in LiveIn(new) : new.vec[w].base = b
    <2>1. PICK w \in LiveIn(st) : st.vec[w].base = b
      BY <1>3, <1>9 DEF IsSound
    <2>2. QED
      BY <1>5, <1>6, <2>1
  <1>10. \A u, w \in LiveIn(new) : new.vec[u].base = new.vec[w].base => u = w
    <2>1. \A u, w \in LiveIn(st) : st.vec[u].base = st.vec[w].base => u = w
      BY DEF IsSound
    <2>2. QED
      BY <1>2, <1>4, <1>5, <1>6, <2>1
  <1>11. IsSound(new)
    BY <1>1, <1>3, <1>4, <1>7, <1>8, <1>9, <1>10 DEF IsSound, Cell
  <1>12. Seqs(new) = [Seqs(st) EXCEPT ![v] = <<>>]
    <2>1. Elements(new, v) = <<>>
      BY <1>2, <1>4 DEF Elements
    <2>2. \A w \in Vectors : w # v => new.vec[w] = st.vec[w] /\ Elements(new, w) = Elements(st, w)
      BY <1>3, <1>4 DEF Elements
    <2>3. QED
      BY <1>2, <1>4, <2>1, <2>2 DEF Seqs
  <1>13. QED
    BY <1>5, <1>11, <1>12

LEMMA PushedFacts ==
    ASSUME NEW st, IsSound(st), NEW v \in LiveIn(st), NEW x \in Values,
           NEW new, new = Pushed(st, v, x)
    PROVE  /\ IsSound(new)
           /\ Seqs(new) = [Seqs(st) EXCEPT ![v] = Append(Seqs(st)[v], x)]
  <1>1. SUFFICES ASSUME NEW size, size = st.vec[v].size,
                        NEW room, room = Reserved(st, v, size + 1)
                 PROVE  /\ IsSound(new)
                        /\ Seqs(new) = [Seqs(st) EXCEPT ![v] = Append(Seqs(st)[v], x)]
    OBVIOUS
  <1>2. size \in Nat /\ size + 1 \in Nat
    BY <1>1, VectorFacts
  <1>3. /\ IsSound(room) /\ LiveIn(room) = LiveIn(st) /\ room.vec[v].size = size
        /\ size + 1 <= room.vec[v].cap /\ Seqs(room) = Seqs(st)
    BY <1>1, <1>2, ReservedFacts, SMTT(30)
  <1>4. IsSound(room) /\ v \in LiveIn(room) /\ room.vec[v].cap \in Nat
    BY <1>3, VectorFacts
  <1>5. /\ size + 1 \in 1 .. room.vec[v].cap /\ size + 1 \in 0 .. room.vec[v].cap
        /\ x \in Cell /\ x # Junk
    BY <1>2, <1>3, <1>4, SmallVectorAssumption DEF Cell
  <1>6. new = Written(room, v, size + 1, x, size + 1)
    BY <1>1 DEF Pushed
  <1>7. Seqs(st)[v] = Elements(room, v)
    BY <1>3, <1>4, SeqsFacts
  <1>8. PICK s \in Seq(Cell) :
           /\ s = Append(Elements(room, v), x) /\ Len(s) = size + 1
           /\ \A j \in 1 .. size + 1 :
                 s[j] = IF j = size + 1 THEN x ELSE room.cells[room.vec[v].base][j]
    <2> DEFINE was == room.cells[room.vec[v].base]
    <2>1. /\ Elements(room, v) \in Seq(Values) /\ Len(Elements(room, v)) = size
          /\ \A i \in 1 .. size : Elements(room, v)[i] = was[i]
      BY <1>3, <1>4, ElementsFacts
    <2> HIDE DEF was
    <2>2. Elements(room, v) \in Seq(Cell)
      BY <2>1 DEF Cell
    <2>3. Append(Elements(room, v), x) \in Seq(Cell)
      BY <1>5, <2>2
    <2>4. Len(Append(Elements(room, v), x)) = size + 1
      BY <2>1, <2>2
    <2>5. \A j \in 1 .. size + 1 :
             Append(Elements(room, v), x)[j] = IF j = size + 1 THEN x ELSE was[j]
      BY <1>2, <2>1, <2>2
    <2>6. QED
      BY <2>3, <2>4, <2>5 DEF was
  <1>9. Leaves(room, v, size + 1, x, size + 1, s)
    BY <1>2, <1>3, <1>4, <1>5, <1>8 DEF Leaves
  <1>10. IsSound(new) /\ Seqs(new) = [Seqs(room) EXCEPT ![v] = s]
    BY <1>4, <1>6, <1>9, WrittenFacts
  <1>11. QED
    BY <1>3, <1>7, <1>8, <1>10

(* The copy constructor.                                                    *)
LEMMA CopyFacts ==
    ASSUME NEW st, IsSound(st), NEW v \in Vectors, v \notin LiveIn(st), NEW o \in LiveIn(st),
           NEW new, new = Assigned(Constructed(st, v), v, o)
    PROVE  /\ IsSound(new) /\ o \in LiveIn(new)
           /\ Seqs(new) = [Seqs(st) EXCEPT ![v] = Seqs(st)[o]]
  <1>1. SUFFICES ASSUME NEW fresh, fresh = Constructed(st, v)
                 PROVE  /\ IsSound(new) /\ o \in LiveIn(new)
                        /\ Seqs(new) = [Seqs(st) EXCEPT ![v] = Seqs(st)[o]]
    OBVIOUS
  <1>2. IsSound(fresh) /\ v \in LiveIn(fresh) /\ o \in LiveIn(fresh)
    BY <1>1, ConstructedFacts
  <1>3. Seqs(fresh) = [Seqs(st) EXCEPT ![v] = <<>>]
    BY <1>1, ConstructedFacts
  <1>4. new = Assigned(fresh, v, o)
    BY <1>1
  <1>5. /\ IsSound(new) /\ LiveIn(new) = LiveIn(fresh)
        /\ Seqs(new) = [Seqs(fresh) EXCEPT ![v] = Seqs(fresh)[o]]
    BY <1>2, <1>4, AssignedFacts
  <1>6. o # v /\ DOMAIN Seqs(st) = Vectors /\ o \in Vectors
    BY SeqsFacts
  <1>7. Seqs(fresh)[o] = Seqs(st)[o]
    BY <1>3, <1>6
  <1>8. QED
    BY <1>2, <1>3, <1>5, <1>6, <1>7

(* The destructor, of a vector that has been cleared.                       *)
LEMMA DroppedFacts ==
    ASSUME NEW st, IsSound(st), NEW v \in LiveIn(st),
           NEW new, new = Store([st.vec EXCEPT ![v] = None], Released(st, v))
    PROVE  /\ IsSound(new) /\ LiveIn(new) = LiveIn(st) \ {v}
           /\ Seqs(new) = [Seqs(st) EXCEPT ![v] = None]
  <1> DEFINE base == st.vec[v].base
             left == IF base = v THEN Junks(MinCap) ELSE <<>>
  <1>1. /\ v \in Vectors /\ base \in Vectors \union Blocks
        /\ st.vec \in [Vectors -> Vector \union {None}]
        /\ st.cells \in [Vectors \union Blocks -> Seq(Cell)]
    BY VectorFacts DEF IsSound, Cell
  <1>2. /\ base \in {v} \union Blocks /\ v \notin Blocks
        /\ \A w \in Vectors : w # v => base # w
        /\ \A w \in LiveIn(st) : w # v => st.vec[w].base # base
    BY BaseFacts
  <1>3. left \in Seq(Cell)
    <2>1. MinCap \in Nat
      BY SmallVectorAssumption
    <2>2. QED
      BY <2>1, JunksFacts
  <1>4. /\ new.vec = [st.vec EXCEPT ![v] = None]
        /\ new.cells = [st.cells EXCEPT ![base] = left]
    BY DEF Store, Released
  <1> HIDE DEF base, left
  <1>5. /\ new.vec \in [Vectors -> Vector \union {None}]
        /\ new.vec[v] = None
        /\ \A w \in Vectors : w # v => new.vec[w] = st.vec[w]
    BY <1>1, <1>4
  <1>6. /\ new.cells \in [Vectors \union Blocks -> Seq(Cell)]
        /\ new.cells[base] = left
        /\ \A s \in Vectors \union Blocks : s # base => new.cells[s] = st.cells[s]
    BY <1>1, <1>3, <1>4
  <1>7. LiveIn(new) = LiveIn(st) \ {v}
    BY <1>5 DEF LiveIn
  <1>8. ASSUME NEW w \in LiveIn(new)
        PROVE  /\ w \in Vectors /\ w \in LiveIn(st) /\ w # v /\ new.vec[w] = st.vec[w]
               /\ new.cells[st.vec[w].base] = st.cells[st.vec[w].base]
    <2>1. w \in LiveIn(st) /\ w # v
      BY <1>7
    <2>2. /\ w \in Vectors /\ st.vec[w].base \in Vectors \union Blocks /\ st.vec[w].base # base
      BY <1>2, <2>1, VectorFacts
    <2>3. QED
      BY <1>5, <1>6, <2>1, <2>2
  <1>9. ASSUME NEW w \in LiveIn(new) PROVE VectorIsSound(new, w)
    <2>1. VectorIsSound(st, w)
      BY <1>8, VectorFacts
    <2>2. new.vec[w] = st.vec[w] /\ new.cells[st.vec[w].base] = st.cells[st.vec[w].base]
      BY <1>8
    <2>3. QED
      BY <2>1, <2>2 DEF VectorIsSound
  <1>10. ASSUME NEW w \in Vectors, w \in LiveIn(new) => new.vec[w].base # w
         PROVE  new.cells[w] = Junks(MinCap)
    <2>1. CASE w = base
      <3>1. left = Junks(MinCap)
        BY <1>2, <2>1 DEF left
      <3>2. QED
        BY <1>6, <2>1, <3>1
    <2>2. CASE w # base
      <3>1. w \in LiveIn(st) => st.vec[w].base # w
        BY <1>5, <1>7, <1>10, <2>2 DEF base
      <3>2. st.cells[w] = Junks(MinCap)
        BY <3>1 DEF IsSound
      <3>3. QED
        BY <1>6, <2>2, <3>2
    <2>3. QED
      BY <2>1, <2>2
  <1>11. ASSUME NEW b \in Blocks, new.cells[b] # <<>>
         PROVE  \E w \in LiveIn(new) : new.vec[w].base = b
    <2>1. b # base
      BY <1>2, <1>6, <1>11 DEF left
    <2>2. PICK w \in LiveIn(st) : st.vec[w].base = b
      BY <1>6, <1>11, <2>1 DEF IsSound
    <2>3. w \in LiveIn(new)
      BY <1>7, <2>1, <2>2 DEF base
    <2>4. QED
      BY <1>8, <2>2, <2>3
  <1>12. \A u, w \in LiveIn(new) : new.vec[u].base = new.vec[w].base => u = w
    <2>1. \A u, w \in LiveIn(st) : st.vec[u].base = st.vec[w].base => u = w
      BY DEF IsSound
    <2>2. \A w \in LiveIn(new) : w \in LiveIn(st) /\ new.vec[w].base = st.vec[w].base
      BY <1>8
    <2>3. QED
      BY <2>1, <2>2
  <1>13. IsSound(new)
    BY <1>5, <1>6, <1>9, <1>10, <1>11, <1>12 DEF IsSound, Cell
  <1>14. Seqs(new) = [Seqs(st) EXCEPT ![v] = None]
    <2>1. ASSUME NEW w \in Vectors, w # v
          PROVE  /\ new.vec[w] = st.vec[w]
                 /\ new.vec[w] # None => Elements(new, w) = Elements(st, w)
      BY <1>5, <1>8, <2>1 DEF Elements, LiveIn
    <2>2. QED
      BY <1>1, <1>5, <2>1 DEF Seqs
  <1>15. QED
    BY <1>7, <1>13, <1>14

(* The move constructor, of a vector that has a block.                      *)
LEMMA HandedFacts ==
    ASSUME NEW st, IsSound(st), NEW v \in Vectors, v \notin LiveIn(st),
           NEW o \in LiveIn(st), st.vec[o].base # o,
           NEW new, new = Store([st.vec EXCEPT ![v] = st.vec[o], ![o] = Fresh(o)], st.cells)
    PROVE  /\ IsSound(new)
           /\ Seqs(new) = [Seqs(st) EXCEPT ![v] = Seqs(st)[o], ![o] = <<>>]
  <1> DEFINE base == st.vec[o].base
  <1>1. /\ st.vec \in [Vectors -> Vector \union {None}]
        /\ st.cells \in [Vectors \union Blocks -> Seq(Cell)]
        /\ o \in Vectors /\ o # v /\ st.vec[o] \in Vector /\ st.vec[o] # None
        /\ VectorIsSound(st, o)
    BY VectorFacts, BaseFacts DEF IsSound, Cell
  <1>2. base \in Blocks /\ base # v /\ base # o
    BY <1>1, BaseFacts, SmallVectorAssumption
  <1>3. st.cells[o] = Junks(MinCap) /\ st.cells[v] = Junks(MinCap)
    BY <1>1 DEF IsSound
  <1>4. /\ Fresh(o) \in Vector /\ Fresh(o) # None /\ MinCap \in Nat \ {0}
        /\ Fresh(o).base = o /\ Fresh(o).size = 0 /\ Fresh(o).cap = MinCap
    BY <1>1, SmallVectorAssumption DEF Fresh, Vector
  <1>5. /\ new.vec = [st.vec EXCEPT ![v] = st.vec[o], ![o] = Fresh(o)]
        /\ new.cells = st.cells
    BY DEF Store
  <1> HIDE DEF base
  <1>6. /\ new.vec \in [Vectors -> Vector \union {None}]
        /\ new.vec[v] = st.vec[o] /\ new.vec[o] = Fresh(o)
        /\ \A w \in Vectors : w # v /\ w # o => new.vec[w] = st.vec[w]
    BY <1>1, <1>4, <1>5
  <1>7. LiveIn(new) = LiveIn(st) \union {v}
    BY <1>1, <1>4, <1>6 DEF LiveIn
  <1>8. ASSUME NEW w \in LiveIn(new), w # v, w # o
        PROVE  /\ w \in LiveIn(st) /\ w \in Vectors /\ new.vec[w] = st.vec[w]
               /\ st.vec[w].base # base /\ st.vec[w].base # o /\ st.vec[w].base # v
    <2>1. w \in LiveIn(st) /\ w \in Vectors
      BY <1>7, <1>8 DEF LiveIn
    <2>2. st.vec[w].base # base /\ st.vec[w].base # o /\ st.vec[w].base # v
      BY <1>1, <1>8, <2>1, BaseFacts DEF base
    <2>3. QED
      BY <1>6, <1>8, <2>1, <2>2
  <1>9. ASSUME NEW w \in LiveIn(new) PROVE VectorIsSound(new, w)
    <2>1. CASE w = v
      <3>1. VectorIsSound(new, v)
        BY <1>1, <1>2, <1>5, <1>6 DEF VectorIsSound, base
      <3>2. QED
        BY <2>1, <3>1
    <2>2. CASE w = o
      <3>1. Junks(MinCap) \in Seq(Cell) /\ Len(Junks(MinCap)) = MinCap
        BY <1>4, JunksFacts
      <3>2. \A i \in 1 .. MinCap : (Junks(MinCap)[i] = Junk) <=> (i > 0)
        BY <1>4, JunksFacts
      <3>3. /\ new.vec[o].base = o /\ new.vec[o].size = 0 /\ new.vec[o].cap = MinCap
            /\ new.cells[o] = Junks(MinCap)
        BY <1>3, <1>4, <1>5, <1>6
      <3>4. VectorIsSound(new, o)
        <4>1. MinCap \in Nat /\ 0 <= MinCap
          BY <1>4, SmallVectorAssumption
        <4>2. /\ o \in {o} \union Blocks
              /\ 0 <= MinCap /\ MinCap = Len(Junks(MinCap))
              /\ IF o = o THEN MinCap = MinCap ELSE IsDoubled(MinCap)
          BY <3>1, <4>1
        <4>3. QED
          BY <3>2, <3>3, <4>2, ZenonT(40) DEF VectorIsSound
      <3>5. QED
        BY <2>2, <3>4
    <2>3. CASE w # v /\ w # o
      <3>1. w \in LiveIn(st) /\ new.vec[w] = st.vec[w]
        BY <1>8, <2>3
      <3>2. VectorIsSound(st, w)
        BY <3>1, VectorFacts
      <3>3. QED
        BY <1>5, <3>1, <3>2 DEF VectorIsSound
    <2>4. QED
      BY <2>1, <2>2, <2>3
  <1>10. ASSUME NEW w \in Vectors, w \in LiveIn(new) => new.vec[w].base # w
         PROVE  new.cells[w] = Junks(MinCap)
    <2>1. CASE w = v \/ w = o
      BY <1>3, <1>5, <2>1
    <2>2. CASE w # v /\ w # o
      <3>1. w \in LiveIn(st) => st.vec[w].base # w
        BY <1>6, <1>7, <1>10, <2>2
      <3>2. QED
        BY <1>5, <3>1 DEF IsSound
    <2>3. QED
      BY <2>1, <2>2
  <1>11. ASSUME NEW b \in Blocks, new.cells[b] # <<>>
         PROVE  \E w \in LiveIn(new) : new.vec[w].base = b
    <2>1. PICK w \in LiveIn(st) : st.vec[w].base = b
      BY <1>5, <1>11 DEF IsSound
    <2>2. CASE w = o
      BY <1>6, <1>7, <2>1, <2>2
    <2>3. CASE w # o
      <3>1. w # v /\ w \in LiveIn(new)
        BY <1>7
      <3>2. QED
        BY <1>8, <2>1, <2>3, <3>1
    <2>4. QED
      BY <2>2, <2>3
  <1>12. \A u, w \in LiveIn(new) : new.vec[u].base = new.vec[w].base => u = w
    <2>1. \A u, w \in LiveIn(st) : st.vec[u].base = st.vec[w].base => u = w
      BY DEF IsSound
    <2>2. new.vec[v].base = base /\ new.vec[o].base = o /\ base # o
      BY <1>2, <1>4, <1>6 DEF base
    <2>3. \A w \in LiveIn(new) : w # v /\ w # o =>
             /\ w \in LiveIn(st) /\ new.vec[w].base = st.vec[w].base
             /\ st.vec[w].base # base /\ st.vec[w].base # o
      BY <1>8
    <2>4. SUFFICES ASSUME NEW u \in LiveIn(new), NEW w \in LiveIn(new),
                          new.vec[u].base = new.vec[w].base
                   PROVE  u = w
      OBVIOUS
    <2>5. CASE u = v
      BY <2>2, <2>3, <2>4, <2>5
    <2>6. CASE u = o
      BY <2>2, <2>3, <2>4, <2>6
    <2>7. CASE u # v /\ u # o
      <3>1. w # v /\ w # o
        BY <2>2, <2>3, <2>4, <2>7
      <3>2. QED
        BY <2>1, <2>3, <2>4, <2>7, <3>1
    <2>8. QED
      BY <2>5, <2>6, <2>7
  <1>13. IsSound(new)
    BY <1>1, <1>5, <1>6, <1>9, <1>10, <1>11, <1>12 DEF IsSound, Cell
  <1>14. Seqs(new) = [Seqs(st) EXCEPT ![v] = Seqs(st)[o], ![o] = <<>>]
    <2>1. Elements(new, o) = <<>>
      <3> DEFINE held == new.cells[new.vec[o].base]
      <3>1. new.vec[o].size = 0
        BY <1>4, <1>6
      <3>2. Elements(new, o) = [i \in 1 .. 0 |-> held[i]]
        BY <3>1, Zenon DEF Elements
      <3> HIDE DEF held
      <3>3. [i \in 1 .. 0 |-> held[i]] = <<>>
        OBVIOUS
      <3>4. QED
        BY <3>2, <3>3, Zenon
    <2>2. Elements(new, v) = Elements(st, o) /\ Seqs(st)[o] = Elements(st, o)
      BY <1>1, <1>5, <1>6 DEF Elements, Seqs
    <2>3. \A w \in Vectors : w # v /\ w # o =>
             new.vec[w] = st.vec[w] /\ Elements(new, w) = Elements(st, w)
      BY <1>5, <1>6 DEF Elements
    <2>4. QED
      BY <1>1, <1>4, <1>6, <2>1, <2>2, <2>3 DEF Seqs
  <1>15. QED
    BY <1>13, <1>14

-------------------------------------------------------------------------------
(* The actions.  A step takes the vectors from one store to another.        *)
LEMMA StoredFacts ==
    ASSUME NEW st, IsSound(st), Stores(st)
    PROVE  IsSound(store)' /\ Seqs(store)' = Seqs(st)
  BY DEF Stores, store, Store, IsSound, LiveIn, VectorIsSound, Seqs, Elements

LEMMA StorageInit == Init => StorageIsSound
  <1>1. SUFFICES ASSUME Init PROVE IsSound(store)
    BY DEF StorageIsSound
  <1>2. store.vec = vec /\ store.cells = cells
    BY DEF store, Store
  <1>3. Junks(MinCap) \in Seq(Cell) /\ <<>> \in Seq(Cell)
    <2>1. MinCap \in Nat
      BY SmallVectorAssumption
    <2>2. QED
      BY <2>1, JunksFacts
  <1>4. LiveIn(store) = {}
    BY <1>1, <1>2 DEF LiveIn, Init
  <1>5. \A b \in Blocks : cells[b] = <<>>
    BY <1>1, SmallVectorAssumption DEF Init
  <1>6. QED
    BY <1>1, <1>2, <1>3, <1>4, <1>5 DEF IsSound, Cell, Init

(* What an action makes of the storage is sound, and to users of the        *)
(* vectors it is the step its name promises.                                *)
LEMMA StateFacts ==
    /\ store.vec = vec /\ store.cells = cells
    /\ \A v \in Vectors : Live(v) <=> v \in LiveIn(store)
    /\ StorageIsSound => \A v \in Vectors : Live(v) <=> Sequences!Live(v)
  <1>1. store.vec = vec /\ store.cells = cells
    BY DEF store, Store
  <1>2. \A v \in Vectors : Live(v) <=> v \in LiveIn(store)
    BY <1>1 DEF Live, LiveIn
  <1>3. ASSUME StorageIsSound PROVE \A v \in Vectors : Live(v) <=> Sequences!Live(v)
    <2>1. \A v \in Vectors : v \in LiveIn(store) <=> Seqs(store)[v] # None
      BY <1>3, SeqsFacts DEF StorageIsSound
    <2>2. QED
      BY <1>2, <2>1 DEF Sequences!Live
  <1>4. QED
    BY <1>1, <1>2, <1>3

LEMMA CreateStep ==
    ASSUME StorageIsSound, NEW v \in Vectors, Create(v)
    PROVE  StorageIsSound' /\ Sequences!Create(v)
  <1>1. IsSound(store) /\ v \notin LiveIn(store) /\ ~Sequences!Live(v)
    BY StateFacts DEF Create, StorageIsSound
  <1>2. /\ IsSound(Constructed(store, v))
        /\ Seqs(Constructed(store, v)) = [Seqs(store) EXCEPT ![v] = <<>>]
    BY <1>1, ConstructedFacts
  <1>3. Stores(Constructed(store, v)) /\ own' = FALSE
    BY DEF Create, Becomes
  <1>4. IsSound(store)' /\ Seqs(store)' = Seqs(Constructed(store, v))
    BY <1>2, <1>3, StoredFacts
  <1>5. QED
    BY <1>1, <1>2, <1>3, <1>4 DEF StorageIsSound, Sequences!Create, Sequences!Becomes

LEMMA CopyStep ==
    ASSUME StorageIsSound, NEW v \in Vectors, NEW o \in Vectors, CopyFrom(v, o)
    PROVE  StorageIsSound' /\ Sequences!CopyFrom(v, o)
  <1>1. /\ IsSound(store) /\ v \notin LiveIn(store) /\ ~Sequences!Live(v)
        /\ o \in LiveIn(store) /\ Sequences!Live(o)
    BY StateFacts DEF CopyFrom, StorageIsSound
  <1>2. /\ Stores(Assigned(Constructed(store, v), v, o)) /\ own' = FALSE
        /\ IsSound(Assigned(Constructed(store, v), v, o))
        /\ Seqs(Assigned(Constructed(store, v), v, o)) = [Seqs(store) EXCEPT ![v] = Seqs(store)[o]]
    BY <1>1, CopyFacts DEF CopyFrom, Becomes
  <1>3. IsSound(store)' /\ Seqs(store)' = Seqs(Assigned(Constructed(store, v), v, o))
    BY <1>2, StoredFacts
  <1>4. QED
    BY <1>1, <1>2, <1>3 DEF StorageIsSound, Sequences!CopyFrom, Sequences!Becomes

LEMMA MoveStep ==
    ASSUME StorageIsSound, NEW v \in Vectors, NEW o \in Vectors, MoveFrom(v, o)
    PROVE  StorageIsSound' /\ Sequences!MoveFrom(v, o)
  <1>1. /\ IsSound(store) /\ v \notin LiveIn(store) /\ ~Sequences!Live(v)
        /\ o \in LiveIn(store) /\ Sequences!Live(o)
    BY StateFacts DEF MoveFrom, StorageIsSound
  <1>2. ASSUME NEW new, IsSound(new), Stores(new), own' = FALSE,
               Seqs(new) = [Seqs(store) EXCEPT ![v] = Seqs(store)[o], ![o] = <<>>]
        PROVE  StorageIsSound' /\ Sequences!MoveFrom(v, o)
    <2>1. IsSound(store)' /\ Seqs(store)' = Seqs(new)
      BY <1>2, StoredFacts
    <2>2. QED
      BY <1>1, <1>2, <2>1 DEF StorageIsSound, Sequences!MoveFrom
  <1>3. CASE OnHeap(o)
    <2>1. SUFFICES ASSUME NEW new,
                          new = Store([vec EXCEPT ![v] = vec[o], ![o] = Fresh(o)], cells)
                   PROVE  StorageIsSound' /\ Sequences!MoveFrom(v, o)
      OBVIOUS
    <2>2. store.vec[o].base # o
      BY <1>3, StateFacts DEF OnHeap
    <2>3. new = Store([store.vec EXCEPT ![v] = store.vec[o], ![o] = Fresh(o)], store.cells)
      BY <2>1, StateFacts
    <2>4. /\ IsSound(new)
          /\ Seqs(new) = [Seqs(store) EXCEPT ![v] = Seqs(store)[o], ![o] = <<>>]
      BY <1>1, <2>2, <2>3, HandedFacts
    <2>5. Stores(new) /\ own' = FALSE
      BY <1>3, <2>1 DEF MoveFrom, Becomes
    <2>6. QED
      BY <1>2, <2>4, <2>5
  <1>4. CASE ~OnHeap(o)
    <2>1. SUFFICES ASSUME NEW copy, copy = Assigned(Constructed(store, v), v, o),
                          NEW new, new = Cleared(copy, o)
                   PROVE  StorageIsSound' /\ Sequences!MoveFrom(v, o)
      OBVIOUS
    <2>2. IsSound(copy) /\ o \in LiveIn(copy)
      BY <1>1, <2>1, CopyFacts
    <2>3. Seqs(copy) = [Seqs(store) EXCEPT ![v] = Seqs(store)[o]]
      BY <1>1, <2>1, CopyFacts
    <2>4. new = Cleared(copy, o)
      BY <2>1
    <2>5. IsSound(new) /\ Seqs(new) = [Seqs(copy) EXCEPT ![o] = <<>>]
      BY <2>2, <2>4, ClearedFacts
    <2>6. Seqs(new) = [Seqs(store) EXCEPT ![v] = Seqs(store)[o], ![o] = <<>>]
      BY <2>3, <2>5
    <2>7. Stores(new) /\ own' = FALSE
      BY <1>4, <2>1 DEF MoveFrom, Becomes
    <2>8. QED
      BY <1>2, <2>5, <2>6, <2>7
  <1>5. QED
    BY <1>3, <1>4

LEMMA DestroyStep ==
    ASSUME StorageIsSound, NEW v \in Vectors, Destroy(v)
    PROVE  StorageIsSound' /\ Sequences!Destroy(v)
  <1>1. SUFFICES ASSUME NEW clear, clear = Cleared(store, v),
                        NEW new, new = Store([vec EXCEPT ![v] = None], Released(clear, v))
                 PROVE  StorageIsSound' /\ Sequences!Destroy(v)
    OBVIOUS
  <1>2. IsSound(store) /\ v \in LiveIn(store) /\ Sequences!Live(v)
    BY StateFacts DEF Destroy, StorageIsSound
  <1>3. IsSound(clear) /\ v \in LiveIn(clear)
    BY <1>1, <1>2, ClearedFacts
  <1>4. Seqs(clear) = [Seqs(store) EXCEPT ![v] = <<>>]
    BY <1>1, <1>2, ClearedFacts
  <1>5. new = Store([clear.vec EXCEPT ![v] = None], Released(clear, v))
    <2>1. /\ clear.vec \in [Vectors -> Vector \union {None}]
          /\ vec \in [Vectors -> Vector \union {None}]
      BY <1>2, <1>3, StateFacts DEF IsSound
    <2>2. \A w \in Vectors : w # v => clear.vec[w] = vec[w]
      BY <1>1, <2>1, StateFacts DEF Cleared, Filled, Rewritten, Store
    <2>3. [clear.vec EXCEPT ![v] = None] = [vec EXCEPT ![v] = None]
      BY <2>1, <2>2
    <2>4. QED
      BY <1>1, <2>3
  <1>6. IsSound(new) /\ Seqs(new) = [Seqs(clear) EXCEPT ![v] = None]
    BY <1>3, <1>5, DroppedFacts
  <1>7. Stores(new) /\ own' = FALSE
    BY <1>1 DEF Destroy, Becomes
  <1>8. IsSound(store)' /\ Seqs(store)' = Seqs(new)
    BY <1>6, <1>7, StoredFacts
  <1>9. Seqs(store)' = [Seqs(store) EXCEPT ![v] = None]
    BY <1>4, <1>6, <1>8
  <1>10. QED
    BY <1>2, <1>7, <1>8, <1>9 DEF StorageIsSound, Sequences!Destroy, Sequences!Becomes

LEMMA AssignStep ==
    ASSUME StorageIsSound, NEW v \in Vectors, NEW o \in Vectors, Assign(v, o)
    PROVE  StorageIsSound' /\ Sequences!Assign(v, o)
  <1>1. /\ IsSound(store) /\ v \in LiveIn(store) /\ Sequences!Live(v)
        /\ o \in LiveIn(store) /\ Sequences!Live(o)
    BY StateFacts DEF Assign, StorageIsSound
  <1>2. /\ IsSound(Assigned(store, v, o))
        /\ Seqs(Assigned(store, v, o)) = [Seqs(store) EXCEPT ![v] = Seqs(store)[o]]
    BY <1>1, AssignedFacts
  <1>3. Stores(Assigned(store, v, o)) /\ own' = FALSE
    BY DEF Assign, Becomes
  <1>4. IsSound(store)' /\ Seqs(store)' = Seqs(Assigned(store, v, o))
    BY <1>2, <1>3, StoredFacts
  <1>5. QED
    BY <1>1, <1>2, <1>3, <1>4 DEF StorageIsSound, Sequences!Assign, Sequences!Becomes

LEMMA ClearStep ==
    ASSUME StorageIsSound, NEW v \in Vectors, Clear(v)
    PROVE  StorageIsSound' /\ Sequences!Clear(v)
  <1>1. IsSound(store) /\ v \in LiveIn(store) /\ Sequences!Live(v)
    BY StateFacts DEF Clear, StorageIsSound
  <1>2. /\ IsSound(Cleared(store, v))
        /\ Seqs(Cleared(store, v)) = [Seqs(store) EXCEPT ![v] = <<>>]
    BY <1>1, ClearedFacts
  <1>3. Stores(Cleared(store, v)) /\ own' = FALSE
    BY DEF Clear, Becomes
  <1>4. IsSound(store)' /\ Seqs(store)' = Seqs(Cleared(store, v))
    BY <1>2, <1>3, StoredFacts
  <1>5. QED
    BY <1>1, <1>2, <1>3, <1>4 DEF StorageIsSound, Sequences!Clear, Sequences!Becomes

LEMMA PushStep ==
    ASSUME StorageIsSound, NEW v \in Vectors, NEW x \in Values, Push(v, x)
    PROVE  StorageIsSound' /\ Sequences!Push(v, x)
  <1>1. IsSound(store) /\ v \in LiveIn(store) /\ Sequences!Live(v)
    BY StateFacts DEF Push, StorageIsSound
  <1>2. /\ IsSound(Pushed(store, v, x))
        /\ Seqs(Pushed(store, v, x)) = [Seqs(store) EXCEPT ![v] = Append(Seqs(store)[v], x)]
    BY <1>1, PushedFacts
  <1>3. Stores(Pushed(store, v, x)) /\ own' = FALSE
    BY DEF Push, Becomes
  <1>4. IsSound(store)' /\ Seqs(store)' = Seqs(Pushed(store, v, x))
    BY <1>2, <1>3, StoredFacts
  <1>5. QED
    BY <1>1, <1>2, <1>3, <1>4 DEF StorageIsSound, Sequences!Push, Sequences!Becomes

(* What a push of an own element pushes is the element, unless the vector   *)
(* fills a block: then it has as many elements as that.                     *)
LEMMA ReferencedFacts ==
    ASSUME StorageIsSound, NEW v \in LiveIn(store), NEW i \in 1 .. vec[v].size,
           NEW x \in Referenced(v, i)
    PROVE  /\ i \in DOMAIN Seqs(store)[v] /\ x \in Values
           /\ x = Seqs(store)[v][i] \/ Sequences!IsBlockSize(Len(Seqs(store)[v]))
  <1>1. IsSound(store) /\ vec = store.vec /\ cells = store.cells
    BY StateFacts DEF StorageIsSound
  <1>2. /\ Seqs(store)[v] \in Seq(Values) /\ Len(Seqs(store)[v]) = vec[v].size
        /\ \A j \in 1 .. vec[v].size : Seqs(store)[v][j] = cells[vec[v].base][j]
    BY <1>1, ElementsFacts, SeqsFacts
  <1>3. i \in DOMAIN Seqs(store)[v] /\ Seqs(store)[v][i] \in Values
    BY <1>2
  <1>4. CASE Full(v) /\ OnHeap(v)
    <2>1. IsDoubled(vec[v].cap) /\ vec[v].cap = vec[v].size
      BY <1>1, <1>4, VectorFacts DEF Full, OnHeap, VectorIsSound
    <2>2. Sequences!IsBlockSize(Len(Seqs(store)[v]))
      BY <1>2, <2>1 DEF IsDoubled, Sequences!IsBlockSize
    <2>3. QED
      BY <1>3, <1>4, <2>2 DEF Referenced
  <1>5. CASE ~(Full(v) /\ OnHeap(v))
    BY <1>2, <1>3, <1>5 DEF Referenced
  <1>6. QED
    BY <1>4, <1>5

LEMMA PushOwnStep ==
    ASSUME StorageIsSound, NEW v \in Vectors, PushOwn(v)
    PROVE  /\ StorageIsSound' /\ Sequences!Live(v)
           /\ \E x \in Values : \E i \in DOMAIN Seqs(store)[v] : Sequences!PushOwn(v, i, x)
  <1>1. IsSound(store) /\ v \in LiveIn(store) /\ Sequences!Live(v)
    BY StateFacts DEF PushOwn, StorageIsSound
  <1>2. PICK i \in 1 .. vec[v].size : \E x \in Referenced(v, i) :
           Stores(Pushed(store, v, x)) /\ own' = TRUE
    BY DEF PushOwn
  <1>3. PICK x \in Referenced(v, i) : Stores(Pushed(store, v, x)) /\ own' = TRUE
    BY <1>2
  <1>4. /\ i \in DOMAIN Seqs(store)[v] /\ x \in Values
        /\ x = Seqs(store)[v][i] \/ Sequences!IsBlockSize(Len(Seqs(store)[v]))
    BY <1>1, ReferencedFacts
  <1>5. /\ IsSound(Pushed(store, v, x))
        /\ Seqs(Pushed(store, v, x)) = [Seqs(store) EXCEPT ![v] = Append(Seqs(store)[v], x)]
    BY <1>1, <1>4, PushedFacts
  <1>6. IsSound(store)' /\ Seqs(store)' = Seqs(Pushed(store, v, x))
    BY <1>3, <1>5, StoredFacts
  <1>7. Sequences!PushOwn(v, i, x)
    BY <1>1, <1>3, <1>4, <1>5, <1>6 DEF Sequences!PushOwn
  <1>8. QED
    BY <1>1, <1>4, <1>6, <1>7 DEF StorageIsSound

LEMMA PopStep ==
    ASSUME StorageIsSound, NEW v \in Vectors, Pop(v)
    PROVE  StorageIsSound' /\ Sequences!Pop(v)
  <1>1. SUFFICES ASSUME NEW size, size = vec[v].size,
                        NEW new, new = Written(store, v, size, Junk, size - 1)
                 PROVE  StorageIsSound' /\ Sequences!Pop(v)
    OBVIOUS
  <1>2. IsSound(store) /\ v \in LiveIn(store) /\ Sequences!Live(v)
    BY StateFacts DEF Pop, StorageIsSound
  <1>3. /\ size = store.vec[v].size /\ size \in Nat \ {0}
        /\ store.vec[v].cap \in Nat /\ size <= store.vec[v].cap
    BY <1>1, <1>2, StateFacts, VectorFacts DEF Pop
  <1>4. size - 1 \in Nat /\ size - 1 \in 0 .. store.vec[v].cap
    BY <1>3
  <1>5. PICK s \in Seq(Cell) :
           /\ s = SubSeq(Seqs(store)[v], 1, size - 1) /\ Len(s) = size - 1
           /\ \A j \in 1 .. size - 1 :
                 s[j] = IF j = size THEN Junk ELSE store.cells[store.vec[v].base][j]
    <2> DEFINE was == store.cells[store.vec[v].base]
               all == Seqs(store)[v]
    <2>1. /\ all \in Seq(Values) /\ Len(all) = size
          /\ \A i \in 1 .. size : all[i] = was[i]
      BY <1>2, <1>3, ElementsFacts, SeqsFacts
    <2> HIDE DEF was, all
    <2>2. all \in Seq(Cell)
      BY <2>1 DEF Cell
    <2>3. SubSeq(all, 1, size - 1) \in Seq(Cell) /\ Len(SubSeq(all, 1, size - 1)) = size - 1
      BY <1>3, <1>4, <2>1, <2>2
    <2>4. \A j \in 1 .. size - 1 : SubSeq(all, 1, size - 1)[j] = was[j] /\ j # size
      BY <1>3, <1>4, <2>1, <2>2
    <2>5. QED
      BY <2>3, <2>4 DEF was, all
  <1>6. IsSound(new) /\ Seqs(new) = [Seqs(store) EXCEPT ![v] = s]
    <2>1. Junk \in Cell /\ size \in 1 .. store.vec[v].cap /\ size > size - 1
      BY <1>3 DEF Cell
    <2>2. \A j \in 1 .. store.vec[v].cap :
             j # size => (j > store.vec[v].size <=> j > size - 1)
      BY <1>3
    <2>3. Leaves(store, v, size, Junk, size - 1, s)
      BY <1>4, <1>5, <2>1, <2>2 DEF Leaves
    <2>4. QED
      BY <1>1, <1>2, <2>3, WrittenFacts
  <1>7. Len(Seqs(store)[v]) = size /\ Seqs(store)[v] # <<>>
    BY <1>2, <1>3, ElementsFacts, SeqsFacts
  <1>8. Stores(new) /\ own' = FALSE
    BY <1>1 DEF Pop, Becomes
  <1>9. IsSound(store)' /\ Seqs(store)' = Seqs(new)
    BY <1>6, <1>8, StoredFacts
  <1>10. QED
    BY <1>2, <1>5, <1>6, <1>7, <1>8, <1>9 DEF StorageIsSound, Sequences!Pop, Sequences!Becomes

LEMMA SetStep ==
    ASSUME StorageIsSound, NEW v \in Vectors, NEW x \in Values, SetElement(v, x)
    PROVE  /\ StorageIsSound' /\ Sequences!Live(v)
           /\ \E i \in DOMAIN Seqs(store)[v] : Sequences!SetElement(v, i, x)
  <1>1. PICK i \in 1 .. vec[v].size : Becomes(Written(store, v, i, x, vec[v].size))
    BY DEF SetElement
  <1>2. SUFFICES ASSUME NEW size, size = vec[v].size,
                        NEW new, new = Written(store, v, i, x, size)
                 PROVE  /\ StorageIsSound' /\ Sequences!Live(v)
                        /\ \E k \in DOMAIN Seqs(store)[v] : Sequences!SetElement(v, k, x)
    OBVIOUS
  <1>3. IsSound(store) /\ v \in LiveIn(store) /\ Sequences!Live(v)
    BY StateFacts DEF SetElement, StorageIsSound
  <1>4. /\ size = store.vec[v].size /\ size \in Nat
        /\ store.vec[v].cap \in Nat /\ size <= store.vec[v].cap
    BY <1>2, <1>3, StateFacts, VectorFacts
  <1>5. i \in 1 .. store.vec[v].cap /\ i <= size /\ x \in Cell /\ x # Junk
    BY <1>2, <1>4, SmallVectorAssumption DEF Cell
  <1>6. PICK s \in Seq(Cell) :
           /\ s = [Seqs(store)[v] EXCEPT ![i] = x] /\ Len(s) = size
           /\ \A j \in 1 .. size : s[j] = IF j = i THEN x ELSE store.cells[store.vec[v].base][j]
    <2> DEFINE was == store.cells[store.vec[v].base]
               all == Seqs(store)[v]
    <2>1. /\ all \in Seq(Values) /\ Len(all) = size
          /\ \A j \in 1 .. size : all[j] = was[j]
      BY <1>3, <1>4, ElementsFacts, SeqsFacts
    <2> HIDE DEF was, all
    <2>2. all \in Seq(Cell)
      BY <2>1 DEF Cell
    <2>3. [all EXCEPT ![i] = x] \in Seq(Cell) /\ Len([all EXCEPT ![i] = x]) = size
      BY <1>4, <1>5, <2>1, <2>2
    <2>4. \A j \in 1 .. size : [all EXCEPT ![i] = x][j] = IF j = i THEN x ELSE was[j]
      BY <1>4, <2>1, <2>2
    <2>5. QED
      BY <2>3, <2>4 DEF was, all
  <1>7. IsSound(new) /\ Seqs(new) = [Seqs(store) EXCEPT ![v] = s]
    <2>1. Leaves(store, v, i, x, size, s)
      BY <1>4, <1>5, <1>6 DEF Leaves
    <2>2. QED
      BY <1>2, <1>3, <2>1, WrittenFacts
  <1>8. i \in DOMAIN Seqs(store)[v]
    BY <1>2, <1>3, <1>4, ElementsFacts, SeqsFacts
  <1>9. Stores(new) /\ own' = FALSE
    BY <1>1, <1>2 DEF Becomes
  <1>10. IsSound(store)' /\ Seqs(store)' = Seqs(new)
    BY <1>7, <1>9, StoredFacts
  <1>11. Sequences!SetElement(v, i, x)
    BY <1>3, <1>6, <1>7, <1>8, <1>9, <1>10 DEF Sequences!SetElement, Sequences!Becomes
  <1>12. QED
    BY <1>3, <1>8, <1>10, <1>11 DEF StorageIsSound

LEMMA VectorsStep ==
    StorageIsSound /\ [Next]_vars => StorageIsSound' /\ [Sequences!Next]_Sequences!vars
  <1>1. SUFFICES ASSUME StorageIsSound, [Next]_vars
                 PROVE  StorageIsSound' /\ [Sequences!Next]_Sequences!vars
    OBVIOUS
  <1>2. CASE UNCHANGED vars
    <2>1. Stores(store) /\ own' = own
      BY <1>2, StateFacts DEF vars, Stores
    <2>2. IsSound(store)' /\ Seqs(store)' = Seqs(store)
      BY <1>1, <2>1, StoredFacts DEF StorageIsSound
    <2>3. QED
      BY <2>1, <2>2 DEF StorageIsSound, Sequences!vars
  <1>3. CASE Next
    <2>1. PICK v \in Vectors :
             \/ Create(v) \/ Destroy(v) \/ Clear(v) \/ Pop(v) \/ PushOwn(v)
             \/ \E o \in Vectors : CopyFrom(v, o) \/ MoveFrom(v, o) \/ Assign(v, o)
             \/ \E x \in Values : Push(v, x) \/ SetElement(v, x)
      BY <1>3 DEF Next
    <2>2. CASE Create(v)
      BY <1>1, <2>2, CreateStep DEF Sequences!Next
    <2>3. CASE Destroy(v)
      BY <1>1, <2>3, DestroyStep DEF Sequences!Next
    <2>4. CASE Clear(v)
      BY <1>1, <2>4, ClearStep DEF Sequences!Next
    <2>5. CASE Pop(v)
      BY <1>1, <2>5, PopStep DEF Sequences!Next
    <2>6. CASE PushOwn(v)
      BY <1>1, <2>6, PushOwnStep DEF Sequences!Next
    <2>7. CASE \E o \in Vectors : CopyFrom(v, o) \/ MoveFrom(v, o) \/ Assign(v, o)
      BY <1>1, <2>7, CopyStep, MoveStep, AssignStep DEF Sequences!Next
    <2>8. CASE \E x \in Values : Push(v, x) \/ SetElement(v, x)
      BY <1>1, <2>8, PushStep, SetStep DEF Sequences!Next
    <2>9. QED
      BY <2>1, <2>2, <2>3, <2>4, <2>5, <2>6, <2>7, <2>8
  <1>4. QED
    BY <1>1, <1>2, <1>3

LEMMA StorageAlwaysSound == Spec => []StorageIsSound
  BY StorageInit, VectorsStep, PTL DEF Spec

-------------------------------------------------------------------------------
(* A vector's capacity is the room its storage has, and the live elements   *)
(* of the storage are the vector's.                                         *)
THEOREM SmallVectorTypeCorrect == Spec => []TypeOK
  <1>1. StorageIsSound => TypeOK
    <2>1. SUFFICES ASSUME StorageIsSound PROVE TypeOK
      OBVIOUS
    <2>2. IsSound(store) /\ store.vec = vec /\ store.cells = cells /\ LiveVectors = LiveIn(store)
      BY <2>1, StateFacts DEF StorageIsSound, LiveVectors, Live, LiveIn
    <2>3. ASSUME NEW v \in LiveVectors
          PROVE  /\ vec[v].base \in {v} \union Blocks
                 /\ vec[v].size \in 0 .. vec[v].cap
                 /\ vec[v].cap = Len(cells[vec[v].base])
                 /\ \A i \in 1 .. vec[v].cap : (cells[vec[v].base][i] = Junk) <=> (i > vec[v].size)
      BY <2>2, VectorFacts DEF VectorIsSound
    <2>4. cells \in [Vectors \union Blocks -> Seq(Values \union {Junk})]
      BY <2>2 DEF IsSound
    <2>5. QED
      BY <2>3, <2>4 DEF TypeOK
  <1>2. QED
    BY <1>1, StorageAlwaysSound, PTL

(* No block is leaked, freed twice, shared or used after it is freed,       *)
(* however the vectors grow, are assigned, moved and destroyed.             *)
THEOREM BlocksHaveOneOwner == Spec => []BlocksAreOwnedOnce
  <1>1. StorageIsSound => BlocksAreOwnedOnce
    <2>1. SUFFICES ASSUME StorageIsSound PROVE BlocksAreOwnedOnce
      OBVIOUS
    <2>2. IsSound(store) /\ store.vec = vec /\ store.cells = cells /\ LiveVectors = LiveIn(store)
      BY <2>1, StateFacts DEF StorageIsSound, LiveVectors, Live, LiveIn
    <2>3. \A b \in Allocated : \E v \in LiveVectors : vec[v].base = b
      BY <2>2 DEF IsSound, Allocated
    <2>4. \A v, w \in LiveVectors : vec[v].base = vec[w].base => v = w
      BY <2>2 DEF IsSound
    <2>5. ASSUME NEW v \in LiveVectors, OnHeap(v) PROVE vec[v].base \in Allocated
      <3>1. vec[v].base \in Blocks
        BY <2>2, <2>5, BaseFacts DEF OnHeap
      <3>2. QED
        BY <2>2, <3>1, FreeBlock DEF Allocated
    <2>6. QED
      BY <2>3, <2>4, <2>5 DEF BlocksAreOwnedOnce
  <1>2. QED
    BY <1>1, StorageAlwaysSound, PTL

(* Each vector is to its users the sequence their operations made of it,    *)
(* whatever the storage does: SmallVector implements SequenceVectors.       *)
THEOREM VectorsAreSequences == Spec => ImplementsSequences
  <1>1. Init => Sequences!Init
    <2>1. SUFFICES ASSUME Init PROVE Seqs(store) = [v \in Vectors |-> None]
      BY DEF Init, Sequences!Init
    <2>2. QED
      BY <2>1, StateFacts DEF Init, Seqs
  <1>2. QED
    BY <1>1, StorageInit, VectorsStep, PTL DEF Spec, ImplementsSequences, Sequences!Spec
===============================================================================
