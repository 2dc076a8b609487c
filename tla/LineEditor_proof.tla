--------------------------- MODULE LineEditor_proof ---------------------------
(* Theorems about LineEditor.tla: whatever is typed, and however long the   *)
(* lines, the history and the row are, each block of the heap has one owner *)
(* and the line being typed outlives a walk through the history.            *)
EXTENDS LineEditor, NumberTheorems, SequenceTheorems

Texts == Seq(Chars \ {Nul})
Stores == [heap : [Pointers -> Texts \union {Free}], history : Seq(Pointers)]

(* What HistoryIsOwned says, of any store and any line taken from it.       *)
Owned(st, taken) ==
    /\ st \in Stores
    /\ Len(st.history) <= MaxHistory
    /\ \A i, j \in 1 .. Len(st.history) : st.history[i] = st.history[j] => i = j
    /\ \A i \in 1 .. Len(st.history) : st.history[i] # taken
    /\ \A p \in Pointers : st.heap[p] # Free
          <=> (p = taken \/ \E i \in 1 .. Len(st.history) : p = st.history[i])

(* While the newest entry stands for the line it is the buffer that is the  *)
(* draft; while another does, the newest entry is.                          *)
DraftIsStored ==
    phase = "edit" =>
        /\ draft \in Texts /\ Len(draft) <= Limit
        /\ IF history_index = 0 THEN draft = String(buf) ELSE heap[Last(history)] = draft

IInv == /\ TypeOK
        /\ heap \in [Pointers -> Texts \union {Free}]
        /\ Owned(store, line)
        /\ line # Null <=> phase \in {"command", "crashed"}
        /\ DraftIsStored
-------------------------------------------------------------------------------
LEMMA TextsFacts ==
    /\ Texts \subseteq Seq(Chars)
    /\ Free \notin Texts
    /\ <<>> \in Texts
  BY LineEditorAssumption DEF Texts

LEMMA EmptyFacts ==
    /\ <<>> \in Seq(Chars) /\ Len(<<>>) = 0
    /\ String(<<>>) = <<>>
  <1>1. <<>> \in Seq(Chars) /\ Len(<<>>) = 0
    OBVIOUS
  <1>2. {i \in 1 .. Len(<<>>) : <<>>[i] = Nul} = {}
    BY <1>1
  <1>3. QED
    BY <1>1, <1>2 DEF String

(* The string in a buffer is a text: it ends before the first Nul.          *)
LEMMA StringFacts ==
    ASSUME NEW b \in Seq(Chars)
    PROVE  String(b) \in Texts /\ Len(String(b)) <= Len(b)
  <1> DEFINE I == {i \in 1 .. Len(b) : b[i] = Nul}
  <1>1. CASE I = {}
    <2>1. String(b) = b
      BY <1>1 DEF String
    <2>2. \A i \in 1 .. Len(b) : b[i] \in Chars \ {Nul}
      BY <1>1
    <2>3. b \in Seq(Chars \ {Nul})
      BY <2>2
    <2>4. QED
      BY <2>1, <2>3 DEF Texts
  <1>2. CASE I # {}
    <2>1. I \in SUBSET Nat
      OBVIOUS
    <2>2. PICK m \in I : \A n \in I : m <= n
      BY <1>2, <2>1, LeastExists
    <2>3. Min(I) \in I /\ \A n \in I : Min(I) <= n
      BY <2>2 DEF Min
    <2>4. String(b) = SubSeq(b, 1, Min(I) - 1)
      BY <1>2 DEF String
    <2>5. \A i \in 1 .. (Min(I) - 1) : b[i] \in Chars \ {Nul}
      BY <2>3
    <2>6. QED
      BY <2>3, <2>4, <2>5 DEF Texts
  <1>3. QED
    BY <1>1, <1>2

(* There is always a block to allocate, and nobody holds it.                *)
LEMMA FreshFacts ==
    ASSUME NEW st, NEW taken \in Pointers \union {Null}, Owned(st, taken)
    PROVE  /\ Fresh(st) \in Pointers /\ st.heap[Fresh(st)] = Free
           /\ Fresh(st) # taken
           /\ \A i \in 1 .. Len(st.history) : st.history[i] # Fresh(st)
  <1> DEFINE other == IF taken = Null THEN CHOOSE p \in Pointers : TRUE ELSE taken
             used == [i \in 1 .. MaxHistory + 1 |->
                        IF i <= Len(st.history) THEN st.history[i] ELSE other]
  <1>1. other \in Pointers
    BY HeapAssumption
  <1>2. Len(st.history) \in Nat /\ Len(st.history) <= MaxHistory /\ st.history \in Seq(Pointers)
    BY DEF Owned, Stores
  <1>3. used \in [1 .. MaxHistory + 1 -> Pointers]
    BY <1>1, <1>2
  <1>4. PICK p \in Pointers : p \notin Range(used)
    BY <1>3, HeapAssumption
  <1>5. \A i \in 1 .. MaxHistory + 1 : p # used[i]
    BY <1>3, <1>4 DEF Range
  <1>6. MaxHistory + 1 \in 1 .. MaxHistory + 1 /\ used[MaxHistory + 1] = other
    BY <1>2, LineEditorAssumption
  <1>7. \A i \in 1 .. Len(st.history) : p # st.history[i]
    BY <1>2, <1>5, LineEditorAssumption
  <1>8. p # taken
    BY <1>5, <1>6, LineEditorAssumption
  <1>9. st.heap[p] = Free
    BY <1>7, <1>8 DEF Owned
  <1>10. Fresh(st) \in Pointers /\ st.heap[Fresh(st)] = Free
    BY <1>9 DEF Fresh
  <1>11. QED
    BY <1>10, LineEditorAssumption DEF Owned
-------------------------------------------------------------------------------
(* What the history's operations do to the owners of blocks.                *)

LEMMA FreedOwned ==
    ASSUME NEW st, NEW taken \in Pointers, Owned(st, taken)
    PROVE  Owned(Freed(st, taken), Null) /\ Freed(st, taken).history = st.history
  BY LineEditorAssumption, TextsFacts, SMTT(60) DEF Owned, Freed, Stores

LEMMA AllocatedOwned ==
    ASSUME NEW st, Owned(st, Null), NEW text \in Texts
    PROVE  Owned([st EXCEPT !.heap[Fresh(st)] = text], Fresh(st)) /\ Fresh(st) \in Pointers
  <1>1. /\ Fresh(st) \in Pointers /\ st.heap[Fresh(st)] = Free
        /\ \A i \in 1 .. Len(st.history) : st.history[i] # Fresh(st)
    BY FreshFacts
  <1> DEFINE f == Fresh(st)
             after == [st EXCEPT !.heap[f] = text]
             h == [st.heap EXCEPT ![f] = text]
  <1>2. st \in Stores /\ st = [heap |-> st.heap, history |-> st.history]
    BY DEF Owned, Stores
  <1>3. after = [heap |-> h, history |-> st.history]
    BY <1>2
  <1>4. /\ h \in [Pointers -> Texts \union {Free}] /\ h[f] # Free
        /\ \A p \in Pointers \ {f} : h[p] = st.heap[p]
    BY <1>1, <1>2, TextsFacts DEF Stores
  <1>5. after.heap = h /\ after.history = st.history /\ after \in Stores
    BY <1>2, <1>3, <1>4 DEF Stores
  <1>6. f # Null
    BY <1>1, LineEditorAssumption
  <1> HIDE DEF f, after, h
  <1>7. Owned(after, f)
    BY <1>1, <1>4, <1>5, <1>6, LineEditorAssumption DEF Owned, f
  <1>8. QED
    BY <1>1, <1>7 DEF after, f

LEMMA PoppedOwned ==
    ASSUME NEW st, Owned(st, Null), st.history # <<>>
    PROVE  Owned(Popped(st), Null)
  <1> DEFINE n == Len(st.history)
             last == st.history[n]
  <1>1. /\ st.history \in Seq(Pointers) /\ n \in Nat \ {0} /\ last \in Pointers
        /\ st \in Stores /\ n <= MaxHistory
    BY DEF Owned, Stores
  <1>2. /\ Popped(st).history = SubSeq(st.history, 1, n - 1)
        /\ Popped(st).heap = [st.heap EXCEPT ![last] = Free]
        /\ Popped(st) = [heap |-> Popped(st).heap, history |-> Popped(st).history]
    <2>1. Last(st.history) = last /\ Front(st.history) = SubSeq(st.history, 1, n - 1)
      BY DEF Last, Front
    <2>2. Popped(st) = [heap |-> [st.heap EXCEPT ![Last(st.history)] = Free],
                        history |-> Front(st.history)]
      <3>1. PICK freed : freed = Freed(st, Last(st.history))
        OBVIOUS
      <3>2. freed = [heap    |-> [st.heap EXCEPT ![Last(st.history)] = Free],
                     history |-> st.history]
        BY <1>1, <3>1 DEF Freed, Stores
      <3>3. Popped(st) = [freed EXCEPT !.history = Front(freed.history)]
        BY <3>1 DEF Popped
      <3>4. QED
        BY <3>2, <3>3
    <2>3. Popped(st) = [heap |-> [st.heap EXCEPT ![last] = Free],
                        history |-> SubSeq(st.history, 1, n - 1)]
      BY <2>1, <2>2
    <2>4. QED
      BY <2>3
  <1>3. /\ Popped(st).history \in Seq(Pointers)
        /\ Len(Popped(st).history) = n - 1
        /\ \A i \in 1 .. (n - 1) : Popped(st).history[i] = st.history[i]
    BY <1>1, <1>2
  <1>4. Popped(st) \in Stores
    BY <1>1, <1>2, <1>3 DEF Stores
  <1>5. \A i, j \in 1 .. (n - 1) :
            Popped(st).history[i] = Popped(st).history[j] => i = j
    BY <1>1, <1>3 DEF Owned
  <1>6. \A i \in 1 .. (n - 1) : st.history[i] # last /\ st.history[i] # Null
    BY <1>1, SMTT(30) DEF Owned
  <1>7. ASSUME NEW p \in Pointers
        PROVE  Popped(st).heap[p] # Free <=> (\E i \in 1 .. (n - 1) : p = st.history[i])
    <2>1. CASE p = last
      BY <1>1, <1>2, <1>6, <2>1 DEF Stores
    <2>2. CASE p # last
      <3>1. Popped(st).heap[p] = st.heap[p]
        BY <1>1, <1>2, <2>2 DEF Stores
      <3>2. st.heap[p] # Free <=> (\E i \in 1 .. n : p = st.history[i])
        BY LineEditorAssumption DEF Owned
      <3>3. QED
        BY <1>1, <2>2, <3>1, <3>2
    <2>3. QED
      BY <2>1, <2>2
  <1>8. ASSUME NEW p \in Pointers
        PROVE  Popped(st).heap[p] # Free
                 <=> (p = Null \/ \E i \in 1 .. (n - 1) : p = Popped(st).history[i])
    <2>1. p # Null
      BY LineEditorAssumption
    <2>2. \A i \in 1 .. (n - 1) : Popped(st).history[i] = st.history[i]
      BY <1>3
    <2>3. QED
      BY <1>7, <2>1, <2>2
  <1>9. n - 1 <= MaxHistory
    BY <1>1, LineEditorAssumption
  <1> HIDE DEF n, last
  <1>10. QED
    BY <1>3, <1>4, <1>5, <1>6, <1>8, <1>9 DEF Owned

LEMMA AtExitOwned ==
    ASSUME NEW st, Owned(st, Null)
    PROVE  Owned(AtExit(st), Null)
  <1>1. \A p \in Pointers : p \in Range(st.history) <=>
            \E i \in 1 .. Len(st.history) : p = st.history[i]
    BY DEF Owned, Stores, Range
  <1>2. \A p \in Pointers : AtExit(st).heap[p] = Free
    BY <1>1, LineEditorAssumption DEF AtExit, Owned
  <1>3. AtExit(st) \in Stores /\ AtExit(st).history = <<>>
    BY DEF AtExit, Owned, Stores
  <1>4. QED
    BY <1>2, <1>3, LineEditorAssumption DEF Owned

LEMMA AddedOwned ==
    ASSUME NEW st, NEW taken \in Pointers \union {Null}, Owned(st, taken), NEW text \in Texts
    PROVE  Owned(Added(st, text), taken) /\ Added(st, text).history # <<>>
  <1> DEFINE p == Fresh(st)
             n == Len(st.history)
             s == st.history
  <1>1. /\ s \in Seq(Pointers) /\ n \in Nat /\ n <= MaxHistory /\ st \in Stores
        /\ st.heap \in [Pointers -> Texts \union {Free}]
        /\ \A i, j \in 1 .. n : s[i] = s[j] => i = j
        /\ \A i \in 1 .. n : s[i] # taken /\ s[i] \in Pointers
        /\ \A q \in Pointers : st.heap[q] # Free <=> (q = taken \/ \E i \in 1 .. n : q = s[i])
    BY DEF Owned, Stores
  <1>2. /\ p \in Pointers /\ p # taken
        /\ \A i \in 1 .. n : s[i] # p
    BY FreshFacts
  <1>3. MaxHistory \in Nat \ {0} /\ Free \notin Texts
    BY LineEditorAssumption, TextsFacts
  <1> DEFINE copied == [st EXCEPT !.heap[p] = text]
  <1>4. copied = [heap |-> [st.heap EXCEPT ![p] = text], history |-> s]
    BY <1>1 DEF Stores
  <1>5. CASE s # <<>> /\ st.heap[Last(s)] = text
    BY <1>5 DEF Added
  <1>6. CASE ~(s # <<>> /\ st.heap[Last(s)] = text) /\ n < MaxHistory
    <2> DEFINE h == [st.heap EXCEPT ![p] = text]
               t == Append(s, p)
    <2>1. Added(st, text) = [copied EXCEPT !.history = Append(copied.history, p)]
      BY <1>6 DEF Added
    <2>2. Added(st, text) = [heap |-> h, history |-> t]
      BY <1>4, <2>1
    <2>3. /\ t \in Seq(Pointers) /\ Len(t) = n + 1 /\ t[n + 1] = p /\ t # <<>>
          /\ \A i \in 1 .. n : t[i] = s[i]
      BY <1>1, <1>2
    <2>4. h \in [Pointers -> Texts \union {Free}] /\ h[p] = text
          /\ \A q \in Pointers \ {p} : h[q] = st.heap[q]
      BY <1>1, <1>2
    <2> HIDE DEF h, t, p, n, s
    <2>5. \A i, j \in 1 .. Len(t) : t[i] = t[j] => i = j
      <3>1. \A i \in 1 .. Len(t) : i = n + 1 \/ i \in 1 .. n
        BY <1>1, <2>3
      <3>2. \A i, j \in 1 .. n : t[i] = t[j] => i = j
        BY <1>1, <2>3
      <3>3. \A i \in 1 .. n : t[i] # p
        BY <1>2, <2>3
      <3>4. QED
        BY <2>3, <3>1, <3>2, <3>3
    <2>6. \A i \in 1 .. Len(t) : t[i] # taken
      BY <1>1, <1>2, <2>3, SMTT(30)
    <2>7. \A q \in Pointers : h[q] # Free <=> (q = taken \/ \E i \in 1 .. Len(t) : q = t[i])
      <3>1. \A q : (\E i \in 1 .. Len(t) : q = t[i]) <=> (q = p \/ \E i \in 1 .. n : q = s[i])
        <4>1. \A i : i \in 1 .. Len(t) <=> (i = n + 1 \/ i \in 1 .. n)
          BY <1>1, <2>3
        <4>2. t[n + 1] = p /\ \A i \in 1 .. n : t[i] = s[i]
          BY <2>3
        <4>3. QED
          BY <4>1, <4>2, Zenon
      <3>2. h[p] # Free
        BY <1>3, <2>4
      <3>3. \A q \in Pointers \ {p} :
               h[q] # Free <=> (q = taken \/ \E i \in 1 .. n : q = s[i])
        BY <1>1, <2>4, Zenon
      <3>4. ASSUME NEW q \in Pointers
            PROVE  h[q] # Free <=> (q = taken \/ \E i \in 1 .. Len(t) : q = t[i])
        <4>1. CASE q = p
          <5>1. \E i \in 1 .. Len(t) : q = t[i]
            BY <3>1, <4>1, Zenon
          <5>2. QED
            BY <3>2, <4>1, <5>1, Zenon
        <4>2. CASE q # p
          <5>1. (\E i \in 1 .. Len(t) : q = t[i]) <=> \E i \in 1 .. n : q = s[i]
            BY <3>1, <4>2, Zenon
          <5>2. q \in Pointers \ {p}
            BY <4>2
          <5>3. QED
            BY <3>3, <5>1, <5>2, Zenon
        <4>3. QED
          BY <4>1, <4>2
      <3>5. QED
        BY <3>4
    <2>8. Len(t) <= MaxHistory
      BY <1>1, <1>3, <1>6, <2>3 DEF n
    <2>9. QED
      BY <2>2, <2>3, <2>4, <2>5, <2>6, <2>7, <2>8 DEF Owned, Stores
  <1>7. CASE ~(s # <<>> /\ st.heap[Last(s)] = text) /\ ~(n < MaxHistory)
    <2> DEFINE h == [[st.heap EXCEPT ![p] = text] EXCEPT ![s[1]] = Free]
               t == Append(Tail(s), p)
    <2>1. n = MaxHistory /\ s # <<>> /\ Head(s) = s[1]
      BY <1>1, <1>3, <1>7
    <2>2. PICK freed : freed = Freed(copied, Head(s))
      OBVIOUS
    <2>3. freed = [heap |-> h, history |-> s]
      BY <1>4, <2>1, <2>2 DEF Freed
    <2>4. Added(st, text) = [freed EXCEPT !.history = Append(Tail(freed.history), p)]
      BY <1>7, <2>2 DEF Added
    <2>5. Added(st, text) = [heap |-> h, history |-> t]
      BY <2>3, <2>4
    <2>6. /\ t \in Seq(Pointers) /\ Len(t) = n /\ t[n] = p /\ t # <<>>
          /\ \A i \in 1 .. (n - 1) : t[i] = s[i + 1]
          /\ 1 \in 1 .. n
      <3>1. /\ Tail(s) \in Seq(Pointers) /\ Len(Tail(s)) = n - 1
            /\ \A i \in 1 .. (n - 1) : Tail(s)[i] = s[i + 1]
        BY <1>1, <2>1
      <3>2. PICK u : u = Tail(s)
        OBVIOUS
      <3>3. /\ Append(u, p) \in Seq(Pointers) /\ Len(Append(u, p)) = n /\ Append(u, p)[n] = p
            /\ \A i \in 1 .. (n - 1) : Append(u, p)[i] = u[i]
        <4> HIDE DEF p, n
        <4>1. QED
          BY <1>1, <1>2, <3>1, <3>2
      <3>4. 1 \in 1 .. n
        BY <1>1, <1>3, <2>1
      <3>5. t = Append(u, p) /\ t # <<>>
        BY <3>2, <3>3, <3>4
      <3> HIDE DEF t, p, n, s
      <3>6. QED
        BY <3>1, <3>2, <3>3, <3>4, <3>5
    <2>7. h \in [Pointers -> Texts \union {Free}] /\ h[p] = text /\ h[s[1]] = Free
          /\ \A q \in Pointers \ {p, s[1]} : h[q] = st.heap[q]
      BY <1>1, <1>2, <2>1, <2>6
    <2> HIDE DEF h, t, p, n, s
    <2>8. \A i, j \in 1 .. Len(t) : t[i] = t[j] => i = j
      <3>1. \A i \in 1 .. (n - 1) : i + 1 \in 1 .. n /\ t[i] # p
        BY <1>1, <1>2, <2>6
      <3>2. \A i, j \in 1 .. (n - 1) : t[i] = t[j] => i = j
        BY <1>1, <2>6, <3>1
      <3>3. \A i \in 1 .. n : i \in 1 .. (n - 1) \/ i = n
        BY <1>1
      <3>4. QED
        BY <2>6, <3>1, <3>2, <3>3
    <2>9. \A i \in 1 .. Len(t) : t[i] # taken
      <3>1. \A i \in 1 .. (n - 1) : i + 1 \in 1 .. n
        BY <1>1
      <3>2. \A i \in 1 .. n : i \in 1 .. (n - 1) \/ i = n
        BY <1>1
      <3>3. QED
        BY <1>1, <1>2, <2>6, <3>1, <3>2
    <2>10. ASSUME NEW q \in Pointers
           PROVE  h[q] # Free <=> (q = taken \/ \E i \in 1 .. Len(t) : q = t[i])
      <3>1. CASE q = p
        BY <1>2, <1>3, <2>6, <2>7, <3>1
      <3>2. CASE q = s[1]
        <4>1. \A i \in 1 .. (n - 1) : i + 1 \in 1 .. n /\ i + 1 # 1
          BY <1>1
        <4>2. \A i \in 1 .. n : i \in 1 .. (n - 1) \/ i = n
          BY <1>1
        <4>3. \A i \in 1 .. Len(t) : t[i] # s[1]
          BY <1>1, <1>2, <2>6, <4>1, <4>2
        <4>4. s[1] # taken
          BY <1>1, <2>6
        <4>5. QED
          BY <2>7, <3>2, <4>3, <4>4
      <3>3. CASE q # p /\ q # s[1]
        <4>1. \A i \in 1 .. n : i = 1 \/ i - 1 \in 1 .. (n - 1)
          BY <1>1
        <4>2. \A i \in 2 .. n : t[i - 1] = s[i]
          BY <1>1, <2>6
        <4>3. ASSUME NEW i \in 1 .. n, q = s[i]
              PROVE  \E k \in 1 .. Len(t) : q = t[k]
          <5>1. i - 1 \in 1 .. (n - 1) /\ t[i - 1] = s[i]
            BY <1>1, <3>3, <4>1, <4>2, <4>3
          <5>2. i - 1 \in 1 .. Len(t)
            BY <1>1, <2>6, <5>1
          <5>3. QED
            BY <4>3, <5>1, <5>2
        <4>4. (\E i \in 1 .. Len(t) : q = t[i]) => (\E i \in 1 .. n : q = s[i])
          BY <1>1, <2>6, <3>3
        <4>5. QED
          BY <1>1, <2>7, <3>3, <4>3, <4>4
      <3>4. QED
        BY <3>1, <3>2, <3>3
    <2>11. QED
      BY <1>1, <2>5, <2>6, <2>7, <2>8, <2>9, <2>10 DEF Owned, Stores
  <1>8. QED
    BY <1>5, <1>6, <1>7

(* The entry the buffer stands for gets a block of its own.                 *)
LEMMA SavedOwned ==
    ASSUME NEW st, Owned(st, Null), buf \in Seq(Chars),
           history_index \in 0 .. Len(st.history) - 1
    PROVE  /\ Owned(Saved(st), Null)
           /\ Len(Saved(st).history) = Len(st.history)
           /\ Saved(st).heap[Saved(st).history[Len(st.history) - history_index]] = String(buf)
           /\ \A j \in 1 .. Len(st.history) :
                 j # Len(st.history) - history_index =>
                    /\ Saved(st).history[j] = st.history[j]
                    /\ Saved(st).heap[Saved(st).history[j]] = st.heap[st.history[j]]
  <1> DEFINE s == st.history
             n == Len(s)
             i == n - history_index
             freed == Freed(st, s[i])
             f == Fresh(freed)
             b == String(buf)
             g == [st.heap EXCEPT ![s[i]] = Free]
             h == [g EXCEPT ![f] = b]
             t == [s EXCEPT ![i] = f]
  <1>1. /\ s \in Seq(Pointers) /\ n \in Nat /\ n <= MaxHistory /\ st \in Stores
        /\ st.heap \in [Pointers -> Texts \union {Free}]
        /\ \A j, k \in 1 .. n : s[j] = s[k] => j = k
        /\ \A j \in 1 .. n : s[j] \in Pointers /\ s[j] # Null
        /\ \A q \in Pointers : st.heap[q] # Free <=> (q = Null \/ \E j \in 1 .. n : q = s[j])
    <2>1. /\ s \in Seq(Pointers) /\ st \in Stores /\ st.heap \in [Pointers -> Texts \union {Free}]
      BY DEF Owned, Stores
    <2>2. n \in Nat /\ n <= MaxHistory /\ \A j \in 1 .. n : s[j] \in Pointers
      BY <2>1 DEF Owned
    <2>3. /\ \A j, k \in 1 .. n : s[j] = s[k] => j = k
          /\ \A j \in 1 .. n : s[j] # Null
          /\ \A q \in Pointers : st.heap[q] # Free <=> (q = Null \/ \E j \in 1 .. n : q = s[j])
      <3> HIDE DEF i, freed, f, b, g, h, t
      <3>1. QED
        BY Zenon DEF Owned
    <2>4. QED
      BY <2>1, <2>2, <2>3
  <1>2. i \in 1 .. n
    BY <1>1
  <1>3. b \in Texts /\ Free \notin Texts /\ Null \notin Pointers
    BY StringFacts, TextsFacts, LineEditorAssumption
  <1>4. freed = [heap |-> g, history |-> s]
    BY <1>1 DEF Freed, Stores
  <1>5. f \in Pointers /\ g[f] = Free
    <2>1. s[i] \in Pointers /\ freed.heap[s[i]] = Free
      BY <1>1, <1>2, <1>4
    <2>2. f \in Pointers /\ freed.heap[f] = Free
      <3> HIDE DEF freed, i, n, s
      <3>1. QED
        BY <2>1 DEF Fresh
    <2>3. QED
      BY <1>4, <2>2
  <1>6. Saved(st) = [heap |-> h, history |-> t]
    <2>1. PICK u : u = freed
      OBVIOUS
    <2>2. Saved(st) = [u EXCEPT !.heap[f] = b, !.history[i] = f]
      BY <2>1 DEF Saved
    <2>3. u = [heap |-> g, history |-> s]
      BY <1>4, <2>1
    <2>4. [u EXCEPT !.heap[f] = b] = [heap |-> h, history |-> s]
      <3> HIDE DEF f, b, g, s
      <3>1. QED
        BY <2>3
    <2>5. PICK v : v = [u EXCEPT !.heap[f] = b]
      OBVIOUS
    <2>6. [v EXCEPT !.history[i] = f] = [heap |-> h, history |-> t]
      <3>1. v = [heap |-> h, history |-> s]
        BY <2>4, <2>5
      <3> HIDE DEF f, b, g, s, h, i
      <3>2. QED
        BY <3>1
    <2>7. Saved(st) = [v EXCEPT !.history[i] = f]
      BY <2>2, <2>5
    <2>8. QED
      BY <2>6, <2>7
  <1>7. g \in [Pointers -> Texts \union {Free}] /\ g[s[i]] = Free
        /\ \A q \in Pointers \ {s[i]} : g[q] = st.heap[q]
    BY <1>1, <1>2
  <1>8. h \in [Pointers -> Texts \union {Free}] /\ h[f] = b
        /\ \A q \in Pointers \ {f} : h[q] = g[q]
    BY <1>3, <1>5, <1>7
  <1>9. t \in Seq(Pointers) /\ Len(t) = n /\ t[i] = f
        /\ \A j \in 1 .. n : j # i => t[j] = s[j]
    BY <1>1, <1>2, <1>5
  <1> HIDE DEF h, g, t, f, i, freed, b, n, s
  <1>10. \A j \in 1 .. n : j # i => s[j] # f /\ s[j] # s[i]
    BY <1>1, <1>2, <1>5, <1>7
  <1>11. \A j, k \in 1 .. n : t[j] = t[k] => j = k
    BY <1>1, <1>2, <1>9, <1>10
  <1>12. ASSUME NEW q \in Pointers
         PROVE  h[q] # Free <=> \E j \in 1 .. n : q = t[j]
    <2>1. CASE q = f
      BY <1>2, <1>3, <1>8, <1>9, <2>1
    <2>2. CASE q # f /\ q = s[i]
      <3>1. h[q] = Free
        BY <1>7, <1>8, <2>2
      <3>2. \A j \in 1 .. n : t[j] # q
        BY <1>9, <1>10, <2>2
      <3>3. QED
        BY <3>1, <3>2
    <2>3. CASE q # f /\ q # s[i]
      <3>1. h[q] = st.heap[q]
        BY <1>7, <1>8, <2>3
      <3>2. (\E j \in 1 .. n : q = s[j]) <=> \E j \in 1 .. n : q = t[j]
        BY <1>2, <1>9, <2>3
      <3>3. QED
        BY <1>1, <1>3, <3>1, <3>2
    <2>4. QED
      BY <2>1, <2>2, <2>3
  <1>13. Owned(Saved(st), Null)
    <2>1. Saved(st).heap = h /\ Saved(st).history = t /\ Saved(st) \in Stores
      BY <1>6, <1>8, <1>9 DEF Stores
    <2>2. \A j \in 1 .. n : t[j] # Null
      BY <1>3, <1>5, <1>9, <1>1
    <2>3. QED
      BY <1>1, <1>3, <1>9, <1>11, <1>12, <2>1, <2>2 DEF Owned
  <1>14. \A j \in 1 .. n : j # i => t[j] = s[j] /\ h[t[j]] = st.heap[s[j]]
    BY <1>1, <1>7, <1>8, <1>9, <1>10
  <1>15. QED
    BY <1>6, <1>8, <1>9, <1>13, <1>14 DEF n, s, i, b
-------------------------------------------------------------------------------
(* What a key leaves is a line with a cursor in it.                         *)

BufferOK(b, p) == b \in Seq(Chars) /\ Len(b) <= Limit /\ p \in 0 .. Len(b)

LEMMA SplitFacts ==
    ASSUME BufferOK(buf, pos), NEW n \in 0 .. Len(buf)
    PROVE  /\ Before(n) \in Seq(Chars) /\ Len(Before(n)) = n
           /\ After(n) \in Seq(Chars) /\ Len(After(n)) = Len(buf) - n
  BY DEF BufferOK, Before, After

LEMMA WordStartFacts ==
    ASSUME BufferOK(buf, pos)
    PROVE  WordStart \in 0 .. pos
  <1> DEFINE spaces == {i \in 0 .. pos : \A k \in i + 1 .. pos : buf[k] = Space}
             behind == CHOOSE i \in spaces : \A j \in spaces : i <= j
             word   == {i \in 0 .. behind : \A k \in i + 1 .. behind : buf[k] # Space}
             start  == CHOOSE i \in word : \A j \in word : i <= j
  <1>1. pos \in Nat
    BY DEF BufferOK
  <1>2. pos \in spaces /\ spaces \in SUBSET Nat
    BY <1>1
  <1>3. behind \in spaces
    <2> HIDE DEF spaces
    <2>1. \E i \in spaces : \A j \in spaces : i <= j
      BY <1>2, LeastExists
    <2>2. QED
      BY <2>1
  <1>4. behind \in 0 .. pos
    BY <1>3
  <1>5. behind \in word /\ word \in SUBSET Nat
    <2> HIDE DEF behind
    <2>1. QED
      BY <1>1, <1>4
  <1>6. start \in word
    <2> HIDE DEF word
    <2>1. \E i \in word : \A j \in word : i <= j
      BY <1>5, LeastExists
    <2>2. QED
      BY <2>1
  <1>7. start \in 0 .. pos
    <2> HIDE DEF behind, start
    <2>1. QED
      BY <1>1, <1>4, <1>6
  <1>8. WordStart = start
    BY DEF WordStart
  <1>9. QED
    BY <1>7, <1>8

LEMMA LineFacts ==
    ASSUME NEW b, NEW p
    PROVE  Line(b, p).buf = b /\ Line(b, p).pos = p
  BY DEF Line

LEMMA EditedFacts ==
    ASSUME BufferOK(buf, pos), NEW key
    PROVE  BufferOK(Edited(key).buf, Edited(key).pos)
  <1>1. /\ buf \in Seq(Chars) /\ Len(buf) \in Nat /\ Len(buf) <= Limit /\ pos \in 0 .. Len(buf)
        /\ Limit \in Nat \ {0}
    BY LineEditorAssumption DEF BufferOK
  <1>2. ASSUME NEW m \in 0 .. Len(buf), NEW n \in m .. Len(buf)
        PROVE  BufferOK(Before(m) \o After(n), m)
    <2>1. /\ Before(m) \in Seq(Chars) /\ Len(Before(m)) = m
          /\ After(n) \in Seq(Chars) /\ Len(After(n)) = Len(buf) - n
      BY <1>1, <1>2, SplitFacts
    <2>2. PICK x : x = Before(m)
      OBVIOUS
    <2>3. PICK y : y = After(n)
      OBVIOUS
    <2>4. x \o y \in Seq(Chars) /\ Len(x \o y) = m + (Len(buf) - n)
      BY <1>1, <1>2, <2>1, <2>2, <2>3, SMTT(30)
    <2>5. QED
      BY <1>1, <1>2, <2>2, <2>3, <2>4 DEF BufferOK
  <1>3. CASE key = "backspace" /\ pos > 0
    <2>1. BufferOK(Before(pos - 1) \o After(pos), pos - 1)
      BY <1>1, <1>2, <1>3
    <2>2. Edited(key) = Line(Before(pos - 1) \o After(pos), pos - 1)
      BY <1>3 DEF Edited
    <2>3. QED
      BY <2>1, <2>2, LineFacts
  <1>4. CASE key = "delete"
    <2>1. CASE pos < Len(buf)
      <3>1. BufferOK(Before(pos) \o After(pos + 1), pos)
        BY <1>1, <1>2, <2>1
      <3>2. Edited(key) = Line(Before(pos) \o After(pos + 1), pos)
        BY <1>4, <2>1 DEF Edited, Deleted
      <3>3. QED
        BY <3>1, <3>2, LineFacts
    <2>2. CASE ~(pos < Len(buf))
      BY <1>1, <1>4, <2>2 DEF Edited, Deleted, Line, BufferOK
    <2>3. QED
      BY <2>1, <2>2
  <1>5. CASE key = "swap" /\ pos \in 1 .. Len(buf) - 1
    <2> DEFINE other == [buf EXCEPT ![pos] = buf[pos + 1], ![pos + 1] = buf[pos]]
    <2>1. other \in Seq(Chars) /\ Len(other) = Len(buf)
      BY <1>1, <1>5
    <2>2. Edited(key) = Line(other, IF pos # Len(buf) - 1 THEN pos + 1 ELSE pos)
      BY <1>5 DEF Edited, Swapped
    <2>3. QED
      <3> HIDE DEF other
      <3>1. QED
        BY <1>1, <1>5, <2>1, <2>2 DEF Line, BufferOK
  <1>6. CASE key = "left" /\ pos > 0
    BY <1>1, <1>6 DEF Edited, Line, BufferOK
  <1>7. CASE key = "right" /\ pos < Len(buf)
    BY <1>1, <1>7 DEF Edited, Line, BufferOK
  <1>8. CASE key = "home"
    BY <1>1, <1>8 DEF Edited, Line, BufferOK
  <1>9. CASE key = "end"
    BY <1>1, <1>9 DEF Edited, Line, BufferOK
  <1>10. CASE key = "delete_line"
    <2>1. BufferOK(<<>>, 0)
      BY <1>1, EmptyFacts DEF BufferOK
    <2>2. Edited(key) = Line(<<>>, 0)
      BY <1>10 DEF Edited
    <2>3. QED
      BY <2>1, <2>2, LineFacts
  <1>11. CASE key = "delete_end"
    BY <1>1, <1>11, SplitFacts DEF Edited, Line, BufferOK
  <1>12. CASE key = "delete_word"
    <2>1. WordStart \in 0 .. pos
      BY WordStartFacts
    <2>2. Edited(key) = Line(Before(WordStart) \o After(pos), WordStart)
      BY <1>12 DEF Edited
    <2>3. WordStart \in 0 .. Len(buf) /\ pos \in WordStart .. Len(buf)
      BY <1>1, <2>1
    <2>4. BufferOK(Before(WordStart) \o After(pos), WordStart)
      BY <1>2, <2>3
    <2>5. QED
      BY <2>2, <2>4, LineFacts
  <1>13. CASE /\ ~(key = "backspace" /\ pos > 0) /\ key # "delete"
              /\ ~(key = "swap" /\ pos \in 1 .. Len(buf) - 1)
              /\ ~(key = "left" /\ pos > 0) /\ ~(key = "right" /\ pos < Len(buf))
              /\ key \notin {"home", "end", "delete_line", "delete_end", "delete_word"}
    BY <1>1, <1>13 DEF Edited, Line, BufferOK
  <1>14. QED
    BY <1>3, <1>4, <1>5, <1>6, <1>7, <1>8, <1>9, <1>10, <1>11, <1>12, <1>13

LEMMA InsertedFacts ==
    ASSUME BufferOK(buf, pos), Len(buf) < Limit, NEW c \in Chars
    PROVE  BufferOK(Before(pos) \o <<c>> \o After(pos), pos + 1)
  <1>1. /\ Before(pos) \in Seq(Chars) /\ Len(Before(pos)) = pos
        /\ After(pos) \in Seq(Chars) /\ Len(After(pos)) = Len(buf) - pos
    BY SplitFacts DEF BufferOK
  <1>2. PICK x : x = Before(pos)
    OBVIOUS
  <1>3. PICK y : y = After(pos)
    OBVIOUS
  <1>4. x \o <<c>> \o y \in Seq(Chars) /\ Len(x \o <<c>> \o y) = pos + 1 + (Len(buf) - pos)
    BY <1>1, <1>2, <1>3 DEF BufferOK
  <1>5. QED
    BY <1>2, <1>3, <1>4, LineEditorAssumption DEF BufferOK
-------------------------------------------------------------------------------
(* What a step leaves of the store, of the line and of the draft.           *)

LEMMA KeepFacts ==
    ASSUME NEW st, NEW taken, Owned(st, taken), Keep(st)
    PROVE  /\ store' = st /\ heap' = st.heap /\ history' = st.history
           /\ heap' \in [Pointers -> Texts \union {Free}]
           /\ history' \in Seq(Pointers) /\ Len(history') <= MaxHistory
           /\ \A p \in Pointers : heap'[p] = Free \/ heap'[p] \in Seq(Chars \ {Nul})
  BY DEF Keep, Owned, Stores, store, Texts

LEMMA StoreFacts ==
    ASSUME IInv
    PROVE  /\ store.heap = heap /\ store.history = history
           /\ Keep(store) <=> UNCHANGED <<heap, history>>
  BY DEF store, Keep

(* A line that ends, and the end of the program.                            *)
LEMMA StopStep ==
    ASSUME IInv, NEW st, NEW result \in Pointers \union {Null}, Owned(st, result),
           Stop(st, result)
    PROVE  IInv'
  <1>1. /\ store' = st /\ heap' \in [Pointers -> Texts \union {Free}]
        /\ history' \in Seq(Pointers) /\ Len(history') <= MaxHistory
        /\ \A p \in Pointers : heap'[p] = Free \/ heap'[p] \in Seq(Chars \ {Nul})
    BY KeepFacts DEF Stop
  <1>2. /\ rawmode' = FALSE /\ line' = result /\ terminal' = terminal
        /\ phase' = IF result = Null THEN "exited" ELSE "command"
        /\ buf' = <<>> /\ pos' = 0
    BY DEF Stop, NoLine
  <1>3. buf' \in Seq(Chars) /\ Len(buf') = 0
    BY <1>2, EmptyFacts
  <1>4. TypeOK'
    <2>1. /\ terminal' \in {"tty", "dumb", "pipe"}
          /\ phase' \in Phases /\ phase' # "edit"
          /\ line' \in Pointers \union {Null}
      BY <1>2 DEF IInv, TypeOK, Phases
    <2>2. Len(buf') <= Limit /\ pos' \in 0 .. Len(buf')
      BY <1>2, <1>3, LineEditorAssumption
    <2>3. rawmode' = (phase' = "edit")
      BY <1>2, <2>1
    <2>4. QED
      BY <1>1, <1>3, <2>1, <2>2, <2>3 DEF TypeOK
  <1>5. Owned(store', line')
    BY <1>1, <1>2
  <1>6. QED
    BY <1>1, <1>2, <1>4, <1>5 DEF IInv, DraftIsStored

(* A key that leaves another line to be shown, or the same.                 *)
LEMMA ShowsStep ==
    ASSUME IInv, phase = "edit", UNCHANGED <<terminal, phase, line, rawmode>>,
           NEW st, Owned(st, Null), Keep(st),
           NEW b, NEW p, NEW s, BufferOK(b, p), Shows(b, p, s),
           history_index' \in 0 .. Len(history') - 1,
           history_index' # 0 => st.heap[Last(st.history)] = draft
    PROVE  IInv'
  <1>1. /\ store' = st /\ heap' = st.heap /\ history' = st.history
        /\ heap' \in [Pointers -> Texts \union {Free}]
        /\ history' \in Seq(Pointers) /\ Len(history') <= MaxHistory
        /\ \A q \in Pointers : heap'[q] = Free \/ heap'[q] \in Seq(Chars \ {Nul})
    BY KeepFacts
  <1>2. /\ buf' = b /\ pos' = p
        /\ draft' = IF history_index' = 0 THEN String(b) ELSE draft
    BY DEF Shows
  <1>3. b \in Seq(Chars) /\ Len(b) <= Limit /\ p \in 0 .. Len(b) /\ Limit \in Nat
    BY LineEditorAssumption DEF BufferOK
  <1>4. line = Null /\ line' = Null /\ phase' = "edit"
    BY DEF IInv
  <1>5. TypeOK'
    BY <1>1, <1>2, <1>3, <1>4 DEF IInv, TypeOK
  <1>6. String(b) \in Texts /\ Len(String(b)) <= Limit
    <2>1. String(b) \in Texts /\ Len(String(b)) <= Len(b)
      BY <1>3, StringFacts
    <2>2. Len(String(b)) \in Nat /\ Len(b) \in Nat
      BY <1>3, <2>1 DEF Texts
    <2>3. QED
      BY <1>3, <2>1, <2>2
  <1>7. draft \in Texts /\ Len(draft) <= Limit
    BY DEF IInv, DraftIsStored
  <1>8. draft' \in Texts /\ Len(draft') <= Limit
    BY <1>2, <1>6, <1>7
  <1>9. IF history_index' = 0 THEN draft' = String(buf') ELSE heap'[Last(history')] = draft'
    BY <1>1, <1>2
  <1>10. DraftIsStored'
    BY <1>8, <1>9 DEF DraftIsStored
  <1>11. Owned(store', line')
    BY <1>1, <1>4
  <1>12. QED
    BY <1>1, <1>4, <1>5, <1>10, <1>11 DEF IInv

(* A step that changes nothing the invariant is about.                      *)
LEMMA StillStep ==
    ASSUME IInv, UNCHANGED <<terminal, phase, heap, history, line, rawmode>>,
           UNCHANGED <<buf, pos, history_index, draft>>
    PROVE  IInv'
  <1>1. store' = store
    BY DEF store
  <1>2. TypeOK'
    BY DEF IInv, TypeOK
  <1>3. String(buf)' = String(buf)
    BY DEF String
  <1>4. DraftIsStored'
    BY <1>3 DEF IInv, DraftIsStored
  <1>5. QED
    BY <1>1, <1>2, <1>4 DEF IInv
-------------------------------------------------------------------------------
(* The actions, one by one.                                                 *)

LEMMA EditingFacts ==
    ASSUME IInv, phase = "edit"
    PROVE  /\ Owned(store, Null) /\ line = Null
           /\ store.heap = heap /\ store.history = history
           /\ history \in Seq(Pointers) /\ Len(history) \in Nat
           /\ history_index \in 0 .. Len(history) - 1
           /\ BufferOK(buf, pos)
           /\ String(buf) \in Texts
  <1>1. buf \in Seq(Chars)
    BY DEF IInv, TypeOK
  <1>2. line = Null
    BY DEF IInv
  <1>3. QED
    BY <1>1, <1>2, StringFacts DEF IInv, TypeOK, BufferOK, store

LEMMA StartStep ==
    ASSUME IInv, Start
    PROVE  IInv'
  <1>1. Owned(store, Null) /\ line = Null
    BY DEF IInv, Start
  <1>2. PICK st : st = Added(store, <<>>)
    OBVIOUS
  <1>3. Owned(st, Null) /\ st.history # <<>> /\ Keep(st)
    BY <1>1, <1>2, AddedOwned, TextsFacts DEF Start
  <1>4. /\ store' = st /\ heap' \in [Pointers -> Texts \union {Free}]
        /\ history' = st.history /\ history' \in Seq(Pointers) /\ Len(history') <= MaxHistory
        /\ \A p \in Pointers : heap'[p] = Free \/ heap'[p] \in Seq(Chars \ {Nul})
    BY <1>3, KeepFacts
  <1>5. /\ terminal' = terminal /\ phase' = "edit" /\ rawmode' = TRUE /\ line' = Null
        /\ buf' = <<>> /\ pos' = 0 /\ history_index' = 0 /\ draft' = <<>>
    BY <1>1 DEF Start, NoLine
  <1>6. history_index' \in 0 .. Len(history') - 1
    BY <1>3, <1>4, <1>5
  <1>7. TypeOK'
    <2>1. buf' \in Seq(Chars) /\ Len(buf') <= Limit /\ pos' \in 0 .. Len(buf')
      BY <1>5, EmptyFacts, LineEditorAssumption
    <2>2. QED
      BY <1>4, <1>5, <1>6, <2>1 DEF IInv, TypeOK, Phases
  <1>8. DraftIsStored'
    <2>1. draft' \in Texts /\ Len(draft') <= Limit
      BY <1>5, EmptyFacts, TextsFacts, LineEditorAssumption
    <2>2. draft' = String(buf')
      BY <1>5, EmptyFacts
    <2>3. QED
      BY <1>5, <2>1, <2>2 DEF DraftIsStored
  <1>9. QED
    BY <1>3, <1>4, <1>5, <1>7, <1>8 DEF IInv

LEMMA EnterStep ==
    ASSUME IInv, Enter
    PROVE  IInv'
  <1>1. Owned(store, Null) /\ store.history # <<>> /\ String(buf) \in Texts
    BY EditingFacts DEF Enter, Feeding
  <1>2. PICK popped : popped = Popped(store)
    OBVIOUS
  <1>3. Owned(popped, Null)
    BY <1>1, <1>2, PoppedOwned
  <1>4. PICK st : st = [popped EXCEPT !.heap[Fresh(popped)] = String(buf)]
    OBVIOUS
  <1>5. Owned(st, Fresh(popped)) /\ Fresh(popped) \in Pointers
    BY <1>1, <1>3, <1>4, AllocatedOwned
  <1>6. Stop(st, Fresh(popped))
    BY <1>2, <1>4 DEF Enter
  <1>7. QED
    BY <1>5, <1>6, StopStep

LEMMA EndStep ==
    ASSUME IInv, EndOfFile \/ Interrupt
    PROVE  IInv'
  <1>1. Owned(store, Null) /\ store.history # <<>>
    BY EditingFacts DEF EndOfFile, Interrupt, Feeding
  <1>2. CASE EndOfFile
    BY <1>1, <1>2, PoppedOwned, AtExitOwned, StopStep DEF EndOfFile
  <1>3. CASE Interrupt
    BY <1>1, <1>3, AtExitOwned, StopStep DEF Interrupt
  <1>4. QED
    BY <1>2, <1>3

LEMMA ReadLineStep ==
    ASSUME IInv, NEW text \in Inputs, ReadLine(text)
    PROVE  IInv'
  <1>1. Owned(store, Null)
    BY DEF IInv, ReadLine
  <1>2. String(text) \in Texts
    BY StringFacts, LineEditorAssumption
  <1>3. PICK st : st = [store EXCEPT !.heap[Fresh(store)] = String(text)]
    OBVIOUS
  <1>4. Owned(st, Fresh(store)) /\ Fresh(store) \in Pointers
    BY <1>1, <1>2, <1>3, AllocatedOwned
  <1>5. QED
    BY <1>3, <1>4, StopStep DEF ReadLine

LEMMA CommandDoneStep ==
    ASSUME IInv, CommandDone
    PROVE  IInv'
  <1>1. /\ line \in Pointers /\ Owned(store, line) /\ heap[line] \in Texts
        /\ phase = "command" /\ phase' = "prompt" /\ line' = Null
        /\ UNCHANGED <<terminal, buf, pos, history_index, draft, rawmode>>
    <2>1. line \in Pointers /\ Owned(store, line) /\ phase = "command"
      BY DEF IInv, CommandDone, TypeOK
    <2>2. heap[line] # Free /\ heap[line] \in Texts \union {Free}
      BY <2>1 DEF IInv, Owned, store
    <2>3. QED
      BY <2>1, <2>2 DEF CommandDone, editing
  <1>2. PICK added : added = Added(store, heap[line])
    OBVIOUS
  <1>3. Owned(added, line)
    BY <1>1, <1>2, AddedOwned
  <1>4. PICK st : st = Freed(added, line)
    OBVIOUS
  <1>5. Owned(st, Null) /\ Keep(st)
    BY <1>1, <1>2, <1>3, <1>4, FreedOwned DEF CommandDone
  <1>6. /\ store' = st /\ heap' \in [Pointers -> Texts \union {Free}]
        /\ history' \in Seq(Pointers) /\ Len(history') <= MaxHistory
        /\ \A p \in Pointers : heap'[p] = Free \/ heap'[p] \in Seq(Chars \ {Nul})
    BY <1>5, KeepFacts
  <1>7. TypeOK'
    BY <1>1, <1>6 DEF IInv, TypeOK, Phases
  <1>8. QED
    BY <1>1, <1>5, <1>6, <1>7 DEF IInv, DraftIsStored

LEMMA InsertStep ==
    ASSUME IInv, NEW c \in Chars, Insert(c)
    PROVE  IInv'
  <1>1. phase = "edit" /\ UNCHANGED <<terminal, phase, heap, history, line, rawmode>>
    BY DEF Insert, Feeding
  <1>2. /\ Owned(store, Null) /\ store.heap = heap /\ store.history = history
        /\ history_index \in 0 .. Len(history) - 1 /\ BufferOK(buf, pos)
    BY <1>1, EditingFacts
  <1>3. CASE Len(buf) < Limit
    <2>1. PICK b : b = Before(pos) \o <<c>> \o After(pos)
      OBVIOUS
    <2>2. BufferOK(b, pos + 1)
      BY <1>2, <1>3, <2>1, InsertedFacts
    <2>3. Shows(b, pos + 1, Typed(c)) /\ UNCHANGED history_index
      BY <1>3, <2>1 DEF Insert
    <2>4. Keep(store)
      BY <1>1, StoreFacts
    <2>5. history_index' # 0 => store.heap[Last(store.history)] = draft
      BY <1>1, <1>2, <2>3 DEF IInv, DraftIsStored
    <2>6. history_index' \in 0 .. Len(history') - 1
      BY <1>1, <1>2, <2>3
    <2>7. QED
      BY <1>1, <1>2, <2>2, <2>3, <2>4, <2>5, <2>6, ShowsStep
  <1>4. CASE ~(Len(buf) < Limit)
    BY <1>1, <1>4, StillStep DEF Insert
  <1>5. QED
    BY <1>3, <1>4

LEMMA EditStep ==
    ASSUME IInv, NEW key, phase = "edit", UNCHANGED <<terminal, phase, line, rawmode>>,
           Edit(key)
    PROVE  IInv' /\ history_index' = history_index
  <1>1. UNCHANGED <<heap, history>>
    BY DEF Edit
  <1>2. /\ Owned(store, Null) /\ store.heap = heap /\ store.history = history
        /\ history_index \in 0 .. Len(history) - 1 /\ BufferOK(buf, pos)
    BY EditingFacts
  <1>3. CASE UNCHANGED <<buf, pos, screen, draft, history_index>>
    BY <1>1, <1>3, StillStep
  <1>4. CASE /\ UNCHANGED history_index
             /\ Shows(Edited(key).buf, Edited(key).pos, Refreshed(Edited(key).buf, Edited(key).pos))
    <2>1. PICK b : b = Edited(key).buf
      OBVIOUS
    <2>2. PICK p : p = Edited(key).pos
      OBVIOUS
    <2>3. BufferOK(b, p)
      BY <1>2, <2>1, <2>2, EditedFacts
    <2>4. Shows(b, p, Refreshed(b, p))
      BY <1>4, <2>1, <2>2
    <2>5. Keep(store)
      BY <1>1, StoreFacts
    <2>6. history_index' # 0 => store.heap[Last(store.history)] = draft
      BY <1>2, <1>4 DEF IInv, DraftIsStored
    <2>7. history_index' \in 0 .. Len(history') - 1
      BY <1>1, <1>2, <1>4
    <2>8. QED
      BY <1>2, <1>4, <2>3, <2>4, <2>5, <2>6, <2>7, ShowsStep
  <1>5. QED
    BY <1>3, <1>4 DEF Edit

(* What the arrow keys show: the entry recalled, and on the way back the    *)
(* draft, short of one character if it is as long as a line can be.         *)
LEMMA RecalledFacts ==
    ASSUME NEW entry \in Texts,
           NEW text, text = SubSeq(entry, 1, IF Len(entry) < Limit THEN Len(entry) ELSE Limit - 1)
    PROVE  /\ BufferOK(text, Len(text))
           /\ Len(entry) <= Limit => text = IF Len(entry) = Limit THEN Front(entry) ELSE entry
  <1> DEFINE n == IF Len(entry) < Limit THEN Len(entry) ELSE Limit - 1
  <1>1. entry \in Seq(Chars) /\ Len(entry) \in Nat /\ Limit \in Nat \ {0}
    BY TextsFacts, LineEditorAssumption
  <1>2. n \in 0 .. Len(entry) /\ n <= Limit
    BY <1>1
  <1>3. text = SubSeq(entry, 1, n)
    OBVIOUS
  <1>4. text \in Seq(Chars) /\ Len(text) = n
    <2> HIDE DEF n
    <2>1. QED
      BY <1>1, <1>2, <1>3
  <1>5. BufferOK(text, Len(text))
    <2> HIDE DEF n
    <2>1. QED
      BY <1>1, <1>2, <1>4 DEF BufferOK
  <1>6. ASSUME Len(entry) <= Limit, Len(entry) # Limit
        PROVE  text = entry
    <2>1. text = SubSeq(entry, 1, Len(entry))
      BY <1>1, <1>3, <1>6
    <2>2. QED
      BY <1>1, <2>1
  <1>7. ASSUME Len(entry) = Limit
        PROVE  text = Front(entry)
    BY <1>1, <1>3, <1>7 DEF Front
  <1>8. QED
    BY <1>5, <1>6, <1>7

LEMMA HistoryStep ==
    ASSUME IInv, NEW step \in {1, -1}, phase = "edit",
           UNCHANGED <<terminal, phase, line, rawmode>>, HistoryNext(step)
    PROVE  /\ IInv'
           /\ history_index > 0 /\ history_index' = 0 =>
                buf' = IF Len(draft) = Limit THEN Front(draft) ELSE draft
  <1> DEFINE target == history_index + step
             n == Len(history)
  <1>1. /\ Owned(store, Null) /\ store.heap = heap /\ store.history = history
        /\ history \in Seq(Pointers) /\ n \in Nat
        /\ history_index \in 0 .. n - 1 /\ BufferOK(buf, pos) /\ buf \in Seq(Chars)
        /\ draft \in Texts /\ Len(draft) <= Limit
        /\ history_index # 0 => heap[history[n]] = draft
        /\ history_index = 0 => draft = String(buf)
    BY EditingFacts DEF IInv, DraftIsStored, TypeOK, Last
  <1>2. PICK st : st = Saved(store)
    OBVIOUS
  <1>3. /\ Owned(st, Null) /\ Len(st.history) = n
        /\ st.heap[st.history[n - history_index]] = String(buf)
        /\ \A j \in 1 .. n : j # n - history_index =>
              /\ st.history[j] = history[j]
              /\ st.heap[st.history[j]] = heap[history[j]]
    BY <1>1, <1>2, SavedOwned
  <1>4. st.heap[st.history[n]] = draft /\ Last(st.history) = st.history[n]
    <2>1. CASE history_index = 0
      BY <1>1, <1>3, <2>1 DEF Last
    <2>2. CASE history_index # 0
      <3>1. n \in 1 .. n /\ n # n - history_index
        BY <1>1, <2>2
      <3>2. QED
        BY <1>1, <1>3, <2>2, <3>1 DEF Last
    <2>3. QED
      BY <2>1, <2>2
  <1>5. CASE n <= 1
    <2>1. UNCHANGED <<heap, history, buf, pos, screen, draft, history_index>>
      BY <1>5 DEF HistoryNext
    <2>2. QED
      BY <1>1, <2>1, StillStep
  <1>6. CASE n > 1 /\ target \in 0 .. n - 1
    <2>1. PICK entry : entry = st.heap[st.history[n - target]]
      OBVIOUS
    <2>2. n - target \in 1 .. n
      BY <1>1, <1>6
    <2>3. entry \in Texts
      BY <1>3, <2>1, <2>2, LineEditorAssumption DEF Owned, Stores
    <2>4. PICK text : text = SubSeq(entry, 1, IF Len(entry) < Limit THEN Len(entry) ELSE Limit - 1)
      OBVIOUS
    <2>5. /\ BufferOK(text, Len(text))
          /\ Len(entry) <= Limit => text = IF Len(entry) = Limit THEN Front(entry) ELSE entry
      BY <2>3, <2>4, RecalledFacts
    <2>6. Keep(st) /\ history_index' = target /\ Shows(text, Len(text), Refreshed(text, Len(text)))
      <3>1. ~(Len(history) <= 1)
        BY <1>1, <1>6
      <3>2. text = SubSeq(Saved(store).heap[Saved(store).history[Len(history) - (history_index + step)]],
                          1, IF Len(entry) < Limit THEN Len(entry) ELSE Limit - 1)
        BY <1>2, <2>1, <2>4
      <3>3. entry = Saved(store).heap[Saved(store).history[Len(history) - (history_index + step)]]
        BY <1>2, <2>1
      <3>4. QED
        BY <1>2, <1>6, <3>1, <3>2, <3>3, Zenon DEF HistoryNext
    <2>7. history' = st.history
      BY <2>6 DEF Keep
    <2>8. history_index' \in 0 .. Len(history') - 1
      BY <1>3, <1>6, <2>6, <2>7
    <2>9. IInv'
      BY <1>3, <1>4, <2>5, <2>6, <2>8, ShowsStep
    <2>10. ASSUME history_index > 0, history_index' = 0
           PROVE  buf' = IF Len(draft) = Limit THEN Front(draft) ELSE draft
      <3>1. entry = draft
        BY <1>1, <1>4, <2>1, <2>6, <2>10
      <3>2. buf' = text
        BY <2>6 DEF Shows
      <3>3. QED
        BY <1>1, <2>5, <3>1, <3>2
    <2>11. QED
      BY <2>9, <2>10
  <1>7. CASE n > 1 /\ target \notin 0 .. n - 1
    <2>1. Keep(st) /\ UNCHANGED <<buf, pos, screen, draft, history_index>>
      BY <1>1, <1>2, <1>7 DEF HistoryNext
    <2>2. history' = st.history
      BY <2>1 DEF Keep
    <2>3. Shows(buf, pos, screen)
      BY <1>1, <2>1 DEF Shows
    <2>4. history_index' \in 0 .. Len(history') - 1
      BY <1>1, <1>3, <2>1, <2>2
    <2>5. IInv'
      BY <1>1, <1>3, <1>4, <2>1, <2>3, <2>4, ShowsStep
    <2>6. QED
      BY <1>1, <2>1, <2>5
  <1>8. QED
    BY <1>1, <1>5, <1>6, <1>7

LEMMA ControlKeyStep ==
    ASSUME IInv, NEW key \in Edits \union {"up", "down", "none"}, ControlKey(key)
    PROVE  /\ IInv'
           /\ history_index > 0 /\ history_index' = 0 =>
                buf' = IF Len(draft) = Limit THEN Front(draft) ELSE draft
  <1>1. phase = "edit" /\ UNCHANGED <<terminal, phase, line, rawmode>> /\ Press(key)
    BY DEF ControlKey, Feeding
  <1>2. history_index \in Nat
    BY <1>1, EditingFacts
  <1>3. CASE key = "up"
    <2>1. HistoryNext(1)
      BY <1>1, <1>3 DEF Press, Edits
    <2>2. QED
      BY <1>1, <2>1, HistoryStep
  <1>4. CASE key = "down"
    <2>1. HistoryNext(-1)
      BY <1>1, <1>4 DEF Press, Edits
    <2>2. QED
      BY <1>1, <2>1, HistoryStep
  <1>5. CASE key \in Edits
    <2>1. Edit(key)
      BY <1>1, <1>5 DEF Press, Edits
    <2>2. IInv' /\ history_index' = history_index
      BY <1>1, <2>1, EditStep
    <2>3. QED
      BY <1>2, <2>2
  <1>6. CASE key = "none"
    <2>1. UNCHANGED <<heap, history, buf, pos, screen, draft, history_index>>
      BY <1>1, <1>6 DEF Press, Edits
    <2>2. IInv'
      BY <1>1, <2>1, StillStep
    <2>3. QED
      BY <1>2, <2>1, <2>2
  <1>7. QED
    BY <1>3, <1>4, <1>5, <1>6
-------------------------------------------------------------------------------
LEMMA Initially ==
    ASSUME Init
    PROVE  IInv
  <1>1. /\ heap = [p \in Pointers |-> Free] /\ history = <<>> /\ line = Null /\ phase = "prompt"
        /\ buf = <<>> /\ pos = 0 /\ rawmode = FALSE /\ terminal \in {"tty", "dumb", "pipe"}
    BY DEF Init
  <1>2. history \in Seq(Pointers) /\ Len(history) = 0 /\ buf \in Seq(Chars) /\ Len(buf) = 0
    BY <1>1
  <1>3. TypeOK
    <2>1. \A p \in Pointers : heap[p] = Free
      BY <1>1
    <2>2. Len(history) <= MaxHistory /\ Len(buf) <= Limit /\ pos \in 0 .. Len(buf)
      BY <1>1, <1>2, LineEditorAssumption
    <2>3. rawmode = (phase = "edit")
      BY <1>1
    <2>4. QED
      BY <1>1, <1>2, <2>1, <2>2, <2>3 DEF TypeOK, Phases
  <1>4. Owned(store, line)
    BY <1>1, <1>2, LineEditorAssumption DEF Owned, Stores, store
  <1>5. QED
    BY <1>1, <1>3, <1>4 DEF IInv, DraftIsStored

LEMMA Inductive ==
    ASSUME IInv, [Next]_vars
    PROVE  IInv'
  <1>1. CASE Start
    BY <1>1, StartStep
  <1>2. CASE Enter
    BY <1>2, EnterStep
  <1>3. CASE EndOfFile \/ Interrupt
    BY <1>3, EndStep
  <1>4. CASE \E c \in Chars : Insert(c)
    BY <1>4, InsertStep
  <1>5. CASE \E key \in Edits \union {"up", "down", "none"} : ControlKey(key)
    BY <1>5, ControlKeyStep
  <1>6. CASE \E text \in Inputs : ReadLine(text)
    BY <1>6, ReadLineStep
  <1>7. CASE NoMoreLines
    <2>1. store' = store /\ phase' = "exited" /\ line' = Null /\ line = Null /\ phase = "prompt"
      BY <1>7 DEF NoMoreLines, store, IInv
    <2>2. TypeOK'
      BY <1>7, <2>1 DEF NoMoreLines, editing, IInv, TypeOK, Phases
    <2>3. QED
      BY <1>7, <2>1, <2>2 DEF NoMoreLines, IInv, DraftIsStored
  <1>8. CASE CommandDone
    BY <1>8, CommandDoneStep
  <1>9. CASE CommandFails
    <2>1. store' = store /\ phase' = "crashed" /\ line' = line /\ line # Null /\ phase = "command"
      BY <1>9 DEF CommandFails, store, IInv
    <2>2. TypeOK'
      BY <1>9, <2>1 DEF CommandFails, editing, IInv, TypeOK, Phases
    <2>3. QED
      BY <1>9, <2>1, <2>2 DEF CommandFails, IInv, DraftIsStored
  <1>10. CASE UNCHANGED vars
    BY <1>10, StillStep DEF vars, editing
  <1>11. QED
    BY <1>1, <1>2, <1>3, <1>4, <1>5, <1>6, <1>7, <1>8, <1>9, <1>10 DEF Next, Over

(* The buffer never outgrows its array, the cursor never leaves the buffer, *)
(* and history_index never leaves the history, whatever keys are pressed.   *)
THEOREM LineEditorTypeCorrect == Spec => []TypeOK
  <1>1. IInv /\ [Next]_vars => IInv'
    BY Inductive
  <1>2. Init => IInv
    BY Initially
  <1>3. IInv => TypeOK
    BY DEF IInv
  <1>4. QED
    BY <1>1, <1>2, <1>3, PTL DEF Spec

LEMMA OwnedIsOwned ==
    ASSUME IInv
    PROVE  HistoryIsOwned
  <1>1. /\ history \in Seq(Pointers) /\ line \in Pointers \union {Null} /\ Null \notin Pointers
        /\ \A i, j \in 1 .. Len(history) : history[i] = history[j] => i = j
        /\ \A i \in 1 .. Len(history) : history[i] # line /\ history[i] \in Pointers
        /\ \A p \in Pointers : heap[p] # Free
              <=> (p = line \/ \E i \in 1 .. Len(history) : p = history[i])
    BY LineEditorAssumption DEF IInv, TypeOK, Owned, store
  <1>2. DOMAIN history = 1 .. Len(history)
    BY <1>1
  <1>3. IsInjective(history)
    BY <1>1, <1>2 DEF IsInjective
  <1>4. \A p : p \in Range(history) <=> \E i \in 1 .. Len(history) : p = history[i]
    BY <1>2 DEF Range
  <1>5. line \notin Range(history)
    BY <1>1, <1>4
  <1>6. {p \in Pointers : heap[p] # Free} = Range(history) \union ({line} \ {Null})
    BY <1>1, <1>4
  <1>7. QED
    BY <1>3, <1>5, <1>6 DEF HistoryIsOwned

(* Every block on the heap is the line being executed or one entry of the   *)
(* history: linenoise's swaps of entries, its full history and its exit     *)
(* leak nothing and free nothing twice, however long the history may be.    *)
THEOREM BlocksHaveOwners == Spec => []HistoryIsOwned
  <1>1. IInv /\ [Next]_vars => IInv'
    BY Inductive
  <1>2. Init => IInv
    BY Initially
  <1>3. IInv => HistoryIsOwned
    BY OwnedIsOwned
  <1>4. QED
    BY <1>1, <1>2, <1>3, PTL DEF Spec

LEMMA DraftStep ==
    ASSUME IInv, [Next]_vars
    PROVE  [phase = "edit" /\ phase' = "edit" /\ history_index > 0 =>
              /\ heap[Last(history)] = draft
              /\ history_index' = 0 => buf' = IF Len(draft) = Limit THEN Front(draft) ELSE draft]_vars
  <1> SUFFICES ASSUME phase = "edit", phase' = "edit", history_index > 0
               PROVE  /\ heap[Last(history)] = draft
                      /\ history_index' = 0 =>
                           buf' = IF Len(draft) = Limit THEN Front(draft) ELSE draft
    OBVIOUS
  <1>1. history_index \in Nat
    BY EditingFacts
  <1>2. heap[Last(history)] = draft
    BY <1>1 DEF IInv, DraftIsStored
  <1>3. CASE \E c \in Chars : Insert(c)
    BY <1>1, <1>2, <1>3 DEF Insert
  <1>4. CASE \E key \in Edits \union {"up", "down", "none"} : ControlKey(key)
    BY <1>2, <1>4, ControlKeyStep
  <1>5. CASE UNCHANGED vars
    BY <1>1, <1>2, <1>5 DEF vars, editing
  <1>6. CASE Start \/ Enter \/ EndOfFile \/ Interrupt \/ NoMoreLines \/ CommandDone \/ CommandFails
    BY <1>6 DEF Start, Enter, EndOfFile, Interrupt, Stop, NoMoreLines, CommandDone, CommandFails
  <1>7. CASE \E text \in Inputs : ReadLine(text)
    BY <1>7 DEF ReadLine
  <1>8. QED
    BY <1>2, <1>3, <1>4, <1>5, <1>6, <1>7 DEF Next, Over

(* A walk through the history ends where it began: the line being typed is  *)
(* the newest entry on the way, and is shown again behind it.               *)
THEOREM DraftsOutliveWalks == Spec => DraftIsKept
  <1>1. IInv /\ [Next]_vars => IInv'
    BY Inductive
  <1>2. Init => IInv
    BY Initially
  <1>3. IInv /\ [Next]_vars =>
          [phase = "edit" /\ phase' = "edit" /\ history_index > 0 =>
             /\ heap[Last(history)] = draft
             /\ history_index' = 0 => buf' = IF Len(draft) = Limit THEN Front(draft) ELSE draft]_vars
    BY DraftStep
  <1>4. QED
    BY <1>1, <1>2, <1>3, PTL DEF Spec, DraftIsKept
-------------------------------------------------------------------------------
(* What the terminal shows of a line.                                       *)

RowShows(b, p, s) ==
    Legible(Window(b, p)) =>
        /\ s.cursor \in 0 .. Columns - 1
        /\ Skip(p) + s.cursor = p
        /\ s.shown = Window(b, p)

(* refreshSingleLine shows it whatever was there before.                    *)
LEMMA RefreshedShows ==
    ASSUME NEW b, NEW p, BufferOK(b, p)
    PROVE  RowShows(b, p, Refreshed(b, p))
  <1>1. p \in Nat /\ Columns \in Nat \ {0}
    BY LineEditorAssumption DEF BufferOK
  <1>2. Skip(p) \in 0 .. p /\ p - Skip(p) \in 0 .. Columns - 1
    BY <1>1 DEF Skip
  <1>3. Legible(Window(b, p)) => /\ Refreshed(b, p).cursor = p - Skip(p)
                                 /\ Refreshed(b, p).shown = Window(b, p)
    BY DEF Refreshed
  <1>4. QED
    BY <1>1, <1>2, <1>3 DEF RowShows

(* A character written behind the last one, with room on the row.           *)
LEMMA TypedShows ==
    ASSUME BufferOK(buf, pos), Len(buf) < Limit, RowShows(buf, pos, screen), NEW c \in Chars
    PROVE  RowShows(Before(pos) \o <<c>> \o After(pos), pos + 1, Typed(c))
  <1>1. CASE ~(pos = Len(buf) /\ Len(buf) + 1 < Columns)
    <2>1. Typed(c) = Refreshed(Before(pos) \o <<c>> \o After(pos), pos + 1)
      BY <1>1 DEF Typed
    <2>2. PICK b : b = Before(pos) \o <<c>> \o After(pos)
      OBVIOUS
    <2>3. BufferOK(b, pos + 1)
      BY <2>2, InsertedFacts
    <2>4. QED
      BY <2>1, <2>2, <2>3, RefreshedShows
  <1>2. CASE pos = Len(buf) /\ Len(buf) + 1 < Columns
    <2>1. buf \in Seq(Chars) /\ Len(buf) \in Nat /\ Columns \in Nat
      BY LineEditorAssumption DEF BufferOK
    <2>2. Before(pos) = buf /\ After(pos) = <<>>
      BY <1>2, <2>1 DEF Before, After
    <2>3. Before(pos) \o <<c>> \o After(pos) = Append(buf, c)
      BY <2>1, <2>2
    <2>4. PICK b : b = Append(buf, c)
      OBVIOUS
    <2>5. /\ b \in Seq(Chars) /\ Len(b) = pos + 1 /\ b[pos + 1] = c
          /\ \A i \in 1 .. pos : b[i] = buf[i]
      BY <1>2, <2>1, <2>4
    <2>6. Skip(pos) = 0 /\ Skip(pos + 1) = 0
      BY <1>2, <2>1 DEF Skip
    <2>7. Window(buf, pos) = buf
      <3>1. Window(buf, pos) = SubSeq(buf, 1, Len(buf))
        BY <1>2, <2>1, <2>6 DEF Window
      <3>2. QED
        BY <2>1, <3>1
    <2>8. Window(b, pos + 1) = b
      <3>1. Window(b, pos + 1) = SubSeq(b, 1, Len(b))
        BY <1>2, <2>1, <2>5, <2>6 DEF Window
      <3>2. QED
        BY <2>5, <3>1
    <2>9. ASSUME Legible(b)
          PROVE  c \in Printable /\ Legible(buf)
      <3>1. \A i \in 1 .. pos + 1 : b[i] \in Printable
        BY <2>5, <2>9 DEF Legible
      <3>2. c \in Printable
        BY <1>2, <2>1, <2>5, <3>1
      <3>3. \A i \in 1 .. Len(buf) : buf[i] \in Printable
        BY <1>2, <2>1, <2>5, <3>1
      <3>4. QED
        BY <2>1, <3>2, <3>3 DEF Legible
    <2>10. ASSUME Legible(b)
           PROVE  /\ Typed(c).cursor = screen.cursor + 1
                  /\ Typed(c).shown = b
                  /\ screen.cursor = pos
      <3>1. screen.shown = buf /\ screen.cursor \in 0 .. Columns - 1 /\ 0 + screen.cursor = pos
        BY <2>6, <2>7, <2>9, <2>10 DEF RowShows
      <3>2. screen # Garbled /\ c \in Printable
        BY <2>1, <2>9, <2>10, <3>1 DEF Garbled
      <3>3. Typed(c) = [shown |-> Append(screen.shown, c), cursor |-> screen.cursor + 1]
        BY <1>2, <3>2 DEF Typed, Echoed
      <3>4. QED
        BY <2>1, <2>4, <3>1, <3>3
    <2>11. RowShows(b, pos + 1, Typed(c))
      BY <1>2, <2>1, <2>6, <2>8, <2>10 DEF RowShows
    <2>12. QED
      BY <2>3, <2>4, <2>11
  <1>3. QED
    BY <1>1, <1>2

LEMMA ScreenStep ==
    ASSUME IInv, ScreenShowsBuffer, [Next]_vars
    PROVE  ScreenShowsBuffer'
  <1> SUFFICES ASSUME phase' = "edit"
               PROVE  RowShows(buf', pos', screen')
    <2>1. ScreenShowsBuffer' <=> (phase' = "edit" => RowShows(buf', pos', screen'))
      BY DEF ScreenShowsBuffer, RowShows, Legible, Window, Skip
    <2>2. QED
      BY <2>1
  <1>1. phase = "edit" => RowShows(buf, pos, screen) /\ BufferOK(buf, pos)
    BY EditingFacts DEF ScreenShowsBuffer, RowShows
  <1>2. CASE Start
    <2>1. buf' = <<>> /\ pos' = 0 /\ screen' = Blank
      BY <1>2 DEF Start, NoLine
    <2>2. Skip(0) = 0 /\ Columns \in Nat \ {0}
      BY LineEditorAssumption DEF Skip
    <2>3. Window(<<>>, 0) = <<>>
      BY <2>2 DEF Window
    <2>4. QED
      BY <2>1, <2>2, <2>3 DEF RowShows, Blank
  <1>3. ASSUME phase = "edit", UNCHANGED <<buf, pos, screen>>
        PROVE  RowShows(buf', pos', screen')
    BY <1>1, <1>3
  <1>4. ASSUME NEW b, NEW p, Shows(b, p, Refreshed(b, p))
        PROVE  RowShows(buf', pos', screen')
    <2>1. buf' \in Seq(Chars) /\ Len(buf') <= Limit /\ pos' \in 0 .. Len(buf')
      BY Inductive DEF IInv, TypeOK
    <2>2. buf' = b /\ pos' = p /\ screen' = Refreshed(b, p)
      BY <1>4 DEF Shows
    <2>3. BufferOK(b, p)
      BY <2>1, <2>2 DEF BufferOK
    <2>4. QED
      BY <2>2, <2>3, RefreshedShows
  <1>5. CASE \E c \in Chars : Insert(c)
    <2>1. PICK c \in Chars : Insert(c)
      BY <1>5
    <2>2. phase = "edit"
      BY <2>1 DEF Insert, Feeding
    <2>3. CASE Len(buf) < Limit
      <3>1. Shows(Before(pos) \o <<c>> \o After(pos), pos + 1, Typed(c))
        BY <2>1, <2>3 DEF Insert
      <3>2. QED
        BY <1>1, <2>2, <2>3, <3>1, TypedShows DEF Shows
    <2>4. CASE ~(Len(buf) < Limit)
      BY <1>3, <2>1, <2>2, <2>4 DEF Insert
    <2>5. QED
      BY <2>3, <2>4
  <1>6. CASE \E key \in Edits \union {"up", "down", "none"} : ControlKey(key)
    <2>1. PICK key \in Edits \union {"up", "down", "none"} : ControlKey(key)
      BY <1>6
    <2>2. phase = "edit" /\ Press(key)
      BY <2>1 DEF ControlKey, Feeding
    <2>3. CASE key \in {"up", "down"}
      <3>1. PICK step \in {1, -1} : HistoryNext(step)
        BY <2>2, <2>3 DEF Press, Edits
      <3>2. QED
        <4>1. CASE UNCHANGED <<buf, pos, screen, draft, history_index>>
          BY <1>3, <2>2, <4>1
        <4>2. CASE \E text : Shows(text, Len(text), Refreshed(text, Len(text)))
          BY <1>4, <4>2
        <4>3. QED
          BY <3>1, <4>1, <4>2, Zenon DEF HistoryNext
    <2>4. CASE key \in Edits
      <3>1. Edit(key)
        BY <2>2, <2>4 DEF Press, Edits
      <3>2. CASE UNCHANGED <<buf, pos, screen, draft, history_index>>
        BY <1>3, <2>2, <3>2
      <3>3. CASE Shows(Edited(key).buf, Edited(key).pos, Refreshed(Edited(key).buf, Edited(key).pos))
        BY <1>4, <3>3
      <3>4. QED
        BY <3>1, <3>2, <3>3 DEF Edit
    <2>5. CASE key = "none"
      BY <1>3, <2>2, <2>5 DEF Press, Edits
    <2>6. QED
      BY <2>3, <2>4, <2>5
  <1>7. CASE UNCHANGED vars
    BY <1>3, <1>7 DEF vars, editing
  <1>8. CASE Enter \/ EndOfFile \/ Interrupt \/ NoMoreLines \/ CommandDone \/ CommandFails
    BY <1>8 DEF Enter, EndOfFile, Interrupt, Stop, NoMoreLines, CommandDone, CommandFails
  <1>9. CASE \E text \in Inputs : ReadLine(text)
    BY <1>9 DEF ReadLine, Stop
  <1>10. QED
    BY <1>2, <1>5, <1>6, <1>7, <1>8, <1>9 DEF Next, Over

(* On a terminal wider than the prompt, of any width, and with any history: *)
(* where the part of the line that the cursor is in has only characters of  *)
(* one column, the row shows it and the cursor is where the next character  *)
(* goes.  A character that is written without a look at the rest goes where *)
(* a refresh would have put it, and a row that a byte of another width      *)
(* garbled is written anew by the key that brings that byte out of sight.   *)
THEOREM RowShowsLine == Spec => []ScreenShowsBuffer
  <1>1. IInv /\ [Next]_vars => IInv'
    BY Inductive
  <1>2. Init => IInv /\ ScreenShowsBuffer
    BY Initially DEF Init, ScreenShowsBuffer
  <1>3. IInv /\ ScreenShowsBuffer /\ [Next]_vars => ScreenShowsBuffer'
    BY ScreenStep
  <1>4. QED
    BY <1>1, <1>2, <1>3, PTL DEF Spec
===============================================================================
