--------------------------- MODULE SequenceVectors ----------------------------
(***************************************************************************)
(* What dwarf::small_vector promises its users: each vector is a sequence  *)
(* of its own, whatever storage is behind it.                              *)
(*                                                                         *)
(* One promise is weaker than std::vector's.  push_back takes its argument *)
(* by reference, and when that is an element of the same vector            *)
(* (stack.push_back(stack.back()) in expr.cpp) and the vector has just     *)
(* filled a block, the element pushed may be anything.                     *)
(***************************************************************************)
EXTENDS Integers, Sequences

CONSTANTS Vectors, Values, MinCap,
          None     \* no such vector: not constructed, or destroyed

VARIABLES
    seqs,          \* each vector's elements
    own            \* whether the last step pushed an element of its vector

vars == <<seqs, own>>

Init == seqs = [v \in Vectors |-> None] /\ own = FALSE

Live(v) == seqs[v] # None
Becomes(v, s) == seqs' = [seqs EXCEPT ![v] = s] /\ own' = FALSE

(* The lengths at which a vector may have filled an allocated block.       *)
IsBlockSize(n) == \E k \in 1 .. n : n = MinCap * 2 ^ k

Create(v)      == ~Live(v) /\ Becomes(v, <<>>)
CopyFrom(v, o) == ~Live(v) /\ Live(o) /\ Becomes(v, seqs[o])
MoveFrom(v, o) == /\ ~Live(v) /\ Live(o)
                  /\ seqs' = [seqs EXCEPT ![v] = seqs[o], ![o] = <<>>]
                  /\ own' = FALSE
Destroy(v)     == Live(v) /\ Becomes(v, None)
Assign(v, o)   == Live(v) /\ Live(o) /\ Becomes(v, seqs[o])
Clear(v)       == Live(v) /\ Becomes(v, <<>>)
Push(v, x)     == Live(v) /\ Becomes(v, Append(seqs[v], x))
Pop(v)         == /\ Live(v) /\ seqs[v] # <<>>
                  /\ Becomes(v, SubSeq(seqs[v], 1, Len(seqs[v]) - 1))
SetElement(v, i, x) == /\ Live(v) /\ i \in DOMAIN seqs[v]
                       /\ Becomes(v, [seqs[v] EXCEPT ![i] = x])
PushOwn(v, i, x) == /\ Live(v) /\ i \in DOMAIN seqs[v]
                    /\ x = seqs[v][i] \/ IsBlockSize(Len(seqs[v]))
                    /\ seqs' = [seqs EXCEPT ![v] = Append(seqs[v], x)]
                    /\ own' = TRUE

Next == \E v \in Vectors :
          \/ Create(v) \/ Destroy(v) \/ Clear(v) \/ Pop(v)
          \/ \E o \in Vectors : CopyFrom(v, o) \/ MoveFrom(v, o) \/ Assign(v, o)
          \/ \E x \in Values : \/ Push(v, x)
                               \/ Live(v) /\ \E i \in DOMAIN seqs[v] : SetElement(v, i, x)
                               \/ Live(v) /\ \E i \in DOMAIN seqs[v] : PushOwn(v, i, x)

Spec == Init /\ [][Next]_vars
===============================================================================
