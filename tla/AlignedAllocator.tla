-------------------------- MODULE AlignedAllocator --------------------------
(***************************************************************************)
(* libcuckoo_aligned_allocator, from which the buckets and the locks get   *)
(* their memory.  It asks another allocator for a larger block, returns an *)
(* aligned address in it, and keeps the address of the block in the bytes  *)
(* just before that one, for deallocate to find it again.                  *)
(***************************************************************************)
EXTENDS Integers

CONSTANTS
  PtrSize,       \* sizeof(char*)
  ValueSize,     \* sizeof(value_type)
  Alignments,    \* the alignments that the allocator is instantiated with
  HeapSize,      \* the memory of the underlying allocator
  MaxCount,      \* bound on the number of values in one array
  Junk           \* a byte that is not part of a stored address

ASSUME SizesAssumption ==
  /\ PtrSize \in Nat \ {0} /\ ValueSize \in Nat \ {0}
  /\ Alignments \subseteq Nat \ {0} /\ HeapSize \in Nat /\ MaxCount \in Nat

VARIABLES
  blocks,   \* the blocks that the underlying allocator has handed out
  arrays,   \* the arrays that were allocated: address, count and alignment
  bytes     \* bytes[a]: the address that the byte at a is a part of, or Junk

allocVars == <<blocks, arrays, bytes>>

Heap == 0 .. HeapSize - 1
Span(p, len) == p .. p + len - 1

AllocInit ==
  /\ blocks = {} /\ arrays = {}
  /\ bytes = [a \in Heap |-> Junk]

\* boost::alignment::align: the first aligned address from p on, unless an object of
\* the size would then not fit into the space, in which case p stays.
align(a, size, p, space) ==
  LET up == CHOOSE q \in Span(p, a) : q % a = 0
  IN  IF size <= space - (up - p) THEN up ELSE p

\* Mutant of PaddedSize: no room to move the array within the block.
PaddedSizeExact(n, a) == n * ValueSize

PaddedSize(n, a) == n * ValueSize + a - 1

\* The bytes in which the address of the block is kept.
HeaderAt(p) == Span(p - PtrSize, PtrSize)

allocate(n, a) ==
  \E base \in Heap :
    LET len == PtrSize + PaddedSize(n, a)
        p == align(a, n * ValueSize, base + PtrSize, PaddedSize(n, a))
    IN  /\ Span(base, len) \subseteq Heap
        /\ \A b \in blocks : Span(base, len) \intersect Span(b.base, b.len) = {}
        /\ blocks' = blocks \union {[base |-> base, len |-> len]}
        /\ arrays' = arrays \union {[p |-> p, n |-> n, a |-> a]}
        /\ bytes' = [x \in Heap |-> IF x \in HeaderAt(p) THEN base ELSE bytes[x]]

\* The owner of an array writes to it.
Fill(r) ==
  /\ bytes' = [x \in Heap |-> IF x \in Span(r.p, r.n * ValueSize) THEN Junk ELSE bytes[x]]
  /\ UNCHANGED <<blocks, arrays>>

\* Mutant of GivenBack: the padding is forgotten.
GivenBackUnpadded(r) == [base |-> bytes[r.p - PtrSize], len |-> PtrSize + r.n * ValueSize]

\* The block that deallocate gives back.
GivenBack(r) ==
  [base |-> bytes[r.p - PtrSize], len |-> PtrSize + r.n * ValueSize + r.a - 1]

\* What the freed bytes hold is of no account.
deallocate(r) ==
  /\ blocks' = blocks \ {GivenBack(r)}
  /\ arrays' = arrays \ {r}
  /\ bytes' = [x \in Heap |-> IF x \in HeaderAt(r.p) THEN Junk ELSE bytes[x]]

AllocNext ==
  \/ \E n \in 0 .. MaxCount, a \in Alignments : allocate(n, a)
  \/ \E r \in arrays : Fill(r) \/ deallocate(r)

AllocSpec == AllocInit /\ [][AllocNext]_allocVars
-----------------------------------------------------------------------------
\* Every array starts at a multiple of its alignment, and lies with its header in
\* one block, which it shares with no other array.
ArraysAligned ==
  \A r \in arrays :
    /\ r.p % r.a = 0
    /\ \E b \in blocks :
         /\ Span(r.p - PtrSize, PtrSize + r.n * ValueSize) \subseteq Span(b.base, b.len)
         /\ \A s \in arrays \ {r} : s.p \notin b.base + PtrSize .. b.base + b.len

\* Whatever was written to the arrays meanwhile, deallocate finds the address of
\* the block, all the bytes of it, and gives back the block that allocate got.
BlocksComeBack ==
  \A r \in arrays :
    /\ GivenBack(r) \in blocks
    /\ \A x \in HeaderAt(r.p) : bytes[x] = bytes[r.p - PtrSize]
=============================================================================
