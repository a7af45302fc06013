------------------------------ MODULE OpslagVec ------------------------------
(***************************************************************************)
(* The vector of src/src/vec.rs: alloc::vec::Vec with the cargo feature    *)
(* `alloc`, a heapless::Vec of a fixed capacity without it.  A vector is a *)
(* sequence, and its capacity is the const parameter N of the Rust type.   *)
(***************************************************************************)
EXTENDS Naturals, Sequences

CONSTANT Alloc   \* is the cargo feature `alloc` on?

ASSUME AllocAssumption == Alloc \in BOOLEAN

HasRoom(v, cap) == Alloc \/ Len(v) < cap

\* `let _ = v.push(x)`: a full heapless vector refuses x, and the caller
\* ignores the Err.
VecPush(v, x, cap) == IF HasRoom(v, cap) THEN Append(v, x) ELSE v

\* MUTANT: the last place is never used.
VecPushAllButOne(xs, cap) ==
  IF Alloc \/ Len(xs) < cap THEN xs ELSE SubSeq(xs, 1, cap - 1)

\* A loop of such pushes into an empty vector keeps what comes first.
VecPushAll(xs, cap) ==
  IF Alloc \/ Len(xs) <= cap THEN xs ELSE SubSeq(xs, 1, cap)

\* What filter or retain leaves: the elements at the indices in keep.
Retain(xs, keep) ==
  LET kept[n \in 0 .. Len(xs)] ==
        IF n = 0 THEN <<>>
        ELSE IF n \in keep THEN Append(kept[n - 1], xs[n]) ELSE kept[n - 1]
  IN  kept[Len(xs)]

\* `v.extend(iter)` of n elements in all: heapless unwraps every push, so it
\* panics where push would have returned an Err.
ExtendFits(n, cap) == Alloc \/ n <= cap
=============================================================================
