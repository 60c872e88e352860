------------------------------ MODULE Buffer ------------------------------
(***************************************************************************)
(* ChainBuffer (src/include/Rinx/Network/Buffer.h,                         *)
(* src/src/Network/Buffer.cpp): a chain is a sequence of slices, a slice a *)
(* range of a BufferRaw, and a BufferRaw memory that slices of several     *)
(* chains may share.                                                       *)
(*                                                                         *)
(* A read_iterator, a slice and a position in its raw, is modelled by what *)
(* is left of the chain from there: its slice from the position on, and    *)
(* the slices behind it.  What an iterator can see is decided by the       *)
(* slices, not by the bytes.                                               *)
(*                                                                         *)
(* A raw is a row of ChunkSize cells (BufferFixed); the larger read into   *)
(* the extra buffer of read_from_fd is not bounded.                        *)
(***************************************************************************)
EXTENDS Naturals, Sequences, SequencesExt, FiniteSetsExt

CONSTANTS
  Raws,       \* the raws there is memory for
  ChunkSize   \* BufferChunkSize

ASSUME BufferAssumption == ChunkSize \in Nat \ {0}

Cells == 1 .. ChunkSize
Uninitialized == [k \in Cells |-> 0]

Slices ==
  {s \in [raw : Raws, start : 0 .. ChunkSize, end : 0 .. ChunkSize] : s.start <= s.end}
Chains == Seq(Slices)

readable_size(s) == s.end - s.start
writable_size(s) == ChunkSize - s.end

\* What the cells of the raws hold.
Memories == [Raws -> [Cells -> Nat]]

\* The bytes of a chain in the memory mem, from its first slice to its last.
Row(mem, s) == SubSeq(mem[s.raw], s.start + 1, s.end)
Content(mem, chain) == FlattenSeq([i \in DOMAIN chain |-> Row(mem, chain[i])])

\* The raws that slices of the chain hold with their shared_ptr.
Held(chain) == {chain[i].raw : i \in DOMAIN chain}

\* A raw is gone with its last slice.
Freed(mem, held) == [r \in Raws |-> IF r \in held THEN mem[r] ELSE Uninitialized]

----------------------------------------------------------------------------
(* Writing at the end. *)

\* check_need_expand
NeedsExpand(chain) == chain = <<>> \/ writable_size(Last(chain)) = 0

\* There is memory for it.
HasMemory(chain, held) == NeedsExpand(chain) => Raws \ held # {}

Expanded(chain, held) ==
  IF NeedsExpand(chain)
  THEN Append(chain, [raw |-> CHOOSE r \in Raws : r \notin held, start |-> 0, end |-> 0])
  ELSE chain

\* How many of the bytes left the tail has room for.
Fits(chain, left) == Min({left, writable_size(Last(chain))})

\* A round of append's loop has written n bytes, numbered from first on, ...
Written(mem, chain, first, n) ==
  LET tail == Last(chain) IN
    [mem EXCEPT ![tail.raw] =
       [k \in Cells |-> IF k \in tail.end + 1 .. tail.end + n
                        THEN first + (k - tail.end - 1) ELSE @[k]]]

\* ... and the tail has them.
AdvancedWrite(chain, n) == [chain EXCEPT ![Len(chain)].end = @ + n]

----------------------------------------------------------------------------
(* The iterator. *)

Begin(chain) == chain
End == <<>>

\* May it be dereferenced?
Inside(at) == at # End /\ readable_size(Head(at)) # 0

\* The cell it points to.
Deref(mem, at) == mem[Head(at).raw][Head(at).start + 1]

advance_read(s, n) == [s EXCEPT !.start = @ + n]

\* operator++ looks for the end of its slice after the step, and enters the
\* next one without looking whether anything is in it.
Incremented(at) ==
  IF readable_size(Head(at)) = 1
  THEN Tail(at)
  ELSE <<advance_read(Head(at), 1)>> \o Tail(at)

\* operator+= for a step of n >= 0, of which the last enters a slice.
Room(s) == IF readable_size(s) = 0 THEN 0 ELSE readable_size(s) - 1

Advanced[at \in Chains] ==
  [n \in Nat |->
     IF n = 0 \/ at = End THEN at
     ELSE IF n <= Room(Head(at))
          THEN <<advance_read(Head(at), n)>> \o Tail(at)
          ELSE Advanced[Tail(at)][n - Room(Head(at)) - 1]]

\* end() - at, operator-(self_type)
ToEnd[at \in Chains] ==
  IF at = End THEN 0 ELSE readable_size(Head(at)) + ToEnd[Tail(at)]

ReadableSize(chain) == ToEnd[Begin(chain)]

----------------------------------------------------------------------------
(* Taking from the front. *)

\* slice(at, at + n): slices that share the raws of the chain.
Sliced[at \in Chains] ==
  [n \in Nat |->
     IF n = 0 \/ at = End THEN <<>>
     ELSE LET s == Head(at)
              length == Min({readable_size(s), n})
          IN <<[s EXCEPT !.end = s.start + length]>> \o Sliced[Tail(at)][n - length]]

\* commit_consume: slices that are read to their end leave the chain.
CommitConsumed[chain \in Chains] ==
  [n \in Nat |->
     IF n = 0 \/ chain = <<>> THEN chain
     ELSE IF readable_size(Head(chain)) > n
          THEN <<advance_read(Head(chain), n)>> \o Tail(chain)
          ELSE CommitConsumed[Tail(chain)][n - readable_size(Head(chain))]]
=========================================================================
