----------------------------- MODULE SmallVector ------------------------------
(***************************************************************************)
(* dwarf::small_vector (src/include/dwarf/small_vector.hpp): a vector with *)
(* room for MinCap elements in the object itself, that moves to a block of *)
(* the heap when it outgrows it.  The stack of a DWARF expression and the  *)
(* attribute list of a DIE are such vectors, of elements without a         *)
(* destructor; the DIEs' are copied, moved and assigned.                   *)
(*                                                                         *)
(* Storage is named by its owner: a vector's name is its inline buffer, a  *)
(* member of Blocks a block of the heap.  A cell without a live element    *)
(* holds Junk, a block that is not allocated has no cells.                 *)
(***************************************************************************)
EXTENDS Integers, Sequences, FiniteSets

CONSTANTS Vectors, Values, MinCap,
          Blocks,          \* the heap, with always one block free
          None, Junk,
          MaxLen           \* bound: the length of a vector

ASSUME SmallVectorAssumption ==
    /\ MinCap \in Nat \ {0}
    /\ MaxLen \in Nat
    /\ IsFiniteSet(Vectors) /\ IsFiniteSet(Blocks)
    /\ Cardinality(Vectors) < Cardinality(Blocks)
    /\ Blocks \intersect Vectors = {}
    /\ None \notin Seq(Values) /\ None \notin [base : Vectors \union Blocks, size : Nat, cap : Nat]
    /\ Junk \notin Values

VARIABLES
    vec,     \* each vector's base, size (end - base) and cap (cap - base)
    cells,   \* the storage: what each buffer and each block holds
    own      \* reference: whether the last step pushed an element of its vector

vars == <<vec, cells, own>>

Store(f, g) == [vec |-> f, cells |-> g]
store == Store(vec, cells)

Junks(n) == [i \in 1 .. n |-> Junk]
Fresh(v) == [base |-> v, size |-> 0, cap |-> MinCap]

Init == /\ vec = [v \in Vectors |-> None]
        /\ cells = [s \in Vectors \union Blocks |-> IF s \in Vectors THEN Junks(MinCap) ELSE <<>>]
        /\ own = FALSE

Live(v)     == vec[v] # None
Elements(st, v) == [i \in 1 .. st.vec[v].size |-> st.cells[st.vec[v].base][i]]
Full(v)     == vec[v].size = vec[v].cap
OnHeap(v)   == vec[v].base # v
-------------------------------------------------------------------------------
(* The operations on a store that the member functions share.              *)

Constructed(st, v) == Store([st.vec EXCEPT ![v] = Fresh(v)], st.cells)

\* The storage of v becomes held, the first n cells of it elements.
Rewritten(st, v, held, n) ==
    Store([st.vec EXCEPT ![v] = [st.vec[v] EXCEPT !.size = n]],
          [st.cells EXCEPT ![st.vec[v].base] = held])

\* Cell i of v becomes x, and v n elements long.
Written(st, v, i, x, n) == Rewritten(st, v, [st.cells[st.vec[v].base] EXCEPT ![i] = x], n)

\* v holds the elements of s and nothing else.
Filled(st, v, s) == Rewritten(st, v, s \o Junks(st.vec[v].cap - Len(s)), Len(s))

Cleared(st, v) == Filled(st, v, <<>>)

(* delete[] of a block; a vector's own buffer stays.                       *)
Released(st, v) ==
    LET base == st.vec[v].base
    IN  [st.cells EXCEPT ![base] = IF base = v THEN Junks(MinCap) ELSE <<>>]

(* The capacity doubles until it is enough.                                *)
Target(cap, n) == CHOOSE t \in {cap * 2 ^ k : k \in 1 .. n} : n <= t /\ t < 2 * n

Moved(st, v, n, kept) ==
    LET block  == CHOOSE b \in Blocks : st.cells[b] = <<>>
        target == Target(st.vec[v].cap, n)
        size   == st.vec[v].size
    IN  Store([st.vec EXCEPT ![v] = [base |-> block, size |-> size, cap |-> target]],
              [kept EXCEPT ![block] = Elements(st, v) \o Junks(target - size)])

\* Mutant: the old block is not given back.
ReservedLeaky(st, v, n) == IF n <= st.vec[v].cap THEN st ELSE Moved(st, v, n, st.cells)

(* The block is allocated before the old one is given back.                *)
Reserved(st, v, n) == IF n <= st.vec[v].cap THEN st ELSE Moved(st, v, n, Released(st, v))

(* operator=: the elements are copied after reserve has found them room;   *)
(* a vector assigned to itself reads cells it has just cleared, which      *)
(* elements without a destructor survive.                                  *)
Assigned(st, v, o) ==
    Filled(Reserved(Cleared(st, v), v, st.vec[o].size), v, Elements(st, o))

Pushed(st, v, x) ==
    LET size == st.vec[v].size
    IN  Written(Reserved(st, v, size + 1), v, size + 1, x, size + 1)

Stores(st)  == vec' = st.vec /\ cells' = st.cells
Becomes(st) == Stores(st) /\ own' = FALSE
-------------------------------------------------------------------------------
Create(v) == ~Live(v) /\ Becomes(Constructed(store, v))

CopyFrom(v, o) == ~Live(v) /\ Live(o) /\ Becomes(Assigned(Constructed(store, v), v, o))

\* Mutant: the vector moved from keeps the capacity of its block.
MoveFromRoomy(v, o) ==
    /\ ~Live(v) /\ Live(o)
    /\ IF OnHeap(o)
         THEN Becomes(Store([vec EXCEPT ![v] = vec[o], ![o] = [Fresh(o) EXCEPT !.cap = vec[o].cap]],
                            cells))
         ELSE Becomes(Cleared(Assigned(Constructed(store, v), v, o), o))

(* The move constructor: inline elements are copied, a block changes hands.*)
MoveFrom(v, o) ==
    /\ ~Live(v) /\ Live(o)
    /\ IF OnHeap(o)
         THEN Becomes(Store([vec EXCEPT ![v] = vec[o], ![o] = Fresh(o)], cells))
         ELSE Becomes(Cleared(Assigned(Constructed(store, v), v, o), o))

Destroy(v) == /\ Live(v)
              /\ Becomes(Store([vec EXCEPT ![v] = None], Released(Cleared(store, v), v)))

Assign(v, o) == Live(v) /\ Live(o) /\ Becomes(Assigned(store, v, o))
Clear(v) == Live(v) /\ Becomes(Cleared(store, v))

Push(v, x) == /\ Live(v) /\ vec[v].size < MaxLen
              /\ Becomes(Pushed(store, v, x))

\* Mutant: an element in the object's own buffer is lost as well.
ReferencedNever(v, i) == IF Full(v) THEN Values ELSE {cells[vec[v].base][i]}

(* What a reference to element i reads once push_back has made room: when  *)
(* that gave a block back, whatever the heap left there.                   *)
Referenced(v, i) == IF Full(v) /\ OnHeap(v) THEN Values ELSE {cells[vec[v].base][i]}

(* push_back(back()), push_back(revat(k)): DW_OP_dup, over and pick.       *)
PushOwn(v) == /\ Live(v) /\ vec[v].size < MaxLen
              /\ \E i \in 1 .. vec[v].size : \E x \in Referenced(v, i) :
                    Stores(Pushed(store, v, x)) /\ own' = TRUE

Pop(v) == /\ Live(v) /\ vec[v].size > 0
          /\ Becomes(Written(store, v, vec[v].size, Junk, vec[v].size - 1))

(* Through the references that at, revat, front and back return.           *)
SetElement(v, x) == /\ Live(v)
                    /\ \E i \in 1 .. vec[v].size :
                          Becomes(Written(store, v, i, x, vec[v].size))

Next == \E v \in Vectors :
          \/ Create(v) \/ Destroy(v) \/ Clear(v) \/ Pop(v) \/ PushOwn(v)
          \/ \E o \in Vectors : CopyFrom(v, o) \/ MoveFrom(v, o) \/ Assign(v, o)
          \/ \E x \in Values : Push(v, x) \/ SetElement(v, x)

Spec == Init /\ [][Next]_vars
-------------------------------------------------------------------------------
LiveVectors == {v \in Vectors : Live(v)}
Allocated   == {b \in Blocks : cells[b] # <<>>}

TypeOK ==
    /\ cells \in [Vectors \union Blocks -> Seq(Values \union {Junk})]
    /\ \A v \in LiveVectors :
         /\ vec[v].base \in {v} \union Blocks
         /\ vec[v].size \in 0 .. vec[v].cap
         /\ vec[v].cap = Len(cells[vec[v].base])
         /\ \A i \in 1 .. vec[v].cap : (cells[vec[v].base][i] = Junk) <=> (i > vec[v].size)

(* Every block of the heap belongs to exactly one vector, and a vector     *)
(* outside its own buffer to exactly one allocated block: growing,         *)
(* assigning, moving and destroying leak nothing, free nothing twice and   *)
(* leave nobody with a block that is gone.                                 *)
BlocksAreOwnedOnce ==
    /\ \A b \in Allocated : \E v \in LiveVectors : vec[v].base = b
    /\ \A v \in LiveVectors : OnHeap(v) => vec[v].base \in Allocated
    /\ \A v, w \in LiveVectors : vec[v].base = vec[w].base => v = w

(* Why, for any store: a vector outside its own buffer has a block doubled *)
(* from it, and leaves the buffer as a new vector would find it.           *)
Vector == [base : Vectors \union Blocks, size : Nat, cap : Nat]

IsDoubled(c) == \E k \in 1 .. c : c = MinCap * 2 ^ k

LiveIn(st) == {v \in Vectors : st.vec[v] # None}

VectorIsSound(st, v) ==
    LET r    == st.vec[v]
        held == st.cells[r.base]
    IN  /\ r.base \in {v} \union Blocks
        /\ r.size <= r.cap /\ r.cap = Len(held)
        /\ \A i \in 1 .. r.cap : (held[i] = Junk) <=> (i > r.size)
        /\ IF r.base = v THEN r.cap = MinCap ELSE IsDoubled(r.cap)

IsSound(st) ==
    /\ st.vec \in [Vectors -> Vector \union {None}]
    /\ st.cells \in [Vectors \union Blocks -> Seq(Values \union {Junk})]
    /\ \A v \in LiveIn(st) : VectorIsSound(st, v)
    /\ \A v \in Vectors : (v \in LiveIn(st) => st.vec[v].base # v) => st.cells[v] = Junks(MinCap)
    /\ \A b \in Blocks : st.cells[b] # <<>> => \E v \in LiveIn(st) : st.vec[v].base = b
    /\ \A v, w \in LiveIn(st) : st.vec[v].base = st.vec[w].base => v = w

StorageIsSound == IsSound(store)

(* What users of the vectors see of a store.                               *)
Seqs(st) == [v \in Vectors |-> IF st.vec[v] # None THEN Elements(st, v) ELSE None]

Sequences == INSTANCE SequenceVectors WITH seqs <- Seqs(store)

(* Whatever the storage does, each vector is the sequence its operations   *)
(* make of it, no operation on one is seen in another, and an element      *)
(* pushed on its own vector is pushed as it was unless a block was filled. *)
ImplementsSequences == Sequences!Spec
===============================================================================
