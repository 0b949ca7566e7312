----------------------------- MODULE SimpleBuf -----------------------------
(***************************************************************************)
(* The byte buffer of link/src/simple_buf.rs.  It is a linear buffer, not  *)
(* a ring: bytes are pushed at vacant_idx, consumed at occupied_idx, and   *)
(* only reuse() moves the occupied bytes back to index 0.  Indices are     *)
(* 0-based as in the code.  The operations that return Result are split    *)
(* into the condition under which they succeed (CanPush, CanFree) and the  *)
(* buffer they then leave; a caller takes its error path otherwise.        *)
(***************************************************************************)
EXTENDS Integers

\* vec![0u8; capacity] : every byte starts as zero.
new(capacity) ==
    [ data_vec     |-> [i \in 0 .. capacity - 1 |-> 0],
      capacity     |-> capacity,
      vacant_idx   |-> 0,
      occupied_idx |-> 0 ]

\* The number of OCCUPIED bytes.
len(buf) == buf.vacant_idx - buf.occupied_idx

is_empty(buf) == len(buf) = 0

\* The room there would be after reuse(), not the room at the tail.
max_len(buf) == buf.capacity - len(buf)

\* The length of vacant_slice(), which is all that push_slice can fill.
vacant_len(buf) == buf.capacity - buf.vacant_idx

\* The i-th byte (from 1) of occupied_slice().
occupied(buf, i) == buf.data_vec[buf.occupied_idx + i - 1]

occupied_slice(buf) == [i \in 1 .. len(buf) |-> occupied(buf, i)]

CanPush(buf, size) == size <= vacant_len(buf)

\* push_slice(b): the bytes of b are pos + 1, ..., pos + size (a byte is
\* modelled by its position in the stream it belongs to).
push_slice(buf, pos, size) ==
    [ data_vec     |-> [ i \in 0 .. buf.capacity - 1 |->
                           IF i \in buf.vacant_idx .. buf.vacant_idx + size - 1
                             THEN pos + i - buf.vacant_idx + 1
                             ELSE buf.data_vec[i] ],
      capacity     |-> buf.capacity,
      vacant_idx   |-> buf.vacant_idx + size,
      occupied_idx |-> buf.occupied_idx ]

\* Mutant of reuse: the indices move, the bytes do not.
reuse_NoCopy(buf) == [buf EXCEPT !.vacant_idx = len(buf), !.occupied_idx = 0]

\* Mutant of reuse: occupied_idx is not reset.
reuse_NoReset(buf) == [buf EXCEPT !.vacant_idx = len(buf)]

\* copy_within(occupied_idx..vacant_idx, 0): the bytes past the copy keep
\* their old contents.
reuse(buf) ==
    [ data_vec     |-> [ i \in 0 .. buf.capacity - 1 |->
                           IF i < len(buf)
                             THEN buf.data_vec[buf.occupied_idx + i]
                             ELSE buf.data_vec[i] ],
      capacity     |-> buf.capacity,
      vacant_idx   |-> len(buf),
      occupied_idx |-> 0 ]

\* Compacts only when the tail is used up.
reuse_if(buf) == IF buf.vacant_idx = buf.capacity THEN reuse(buf) ELSE buf

CanFree(buf, consumed) == buf.occupied_idx + consumed <= buf.vacant_idx

free(buf, consumed) == [buf EXCEPT !.occupied_idx = buf.occupied_idx + consumed]

-----------------------------------------------------------------------------
\* The shape every operation keeps: occupied_idx <= vacant_idx <= capacity.
IsBuf(buf, capacity, Byte) ==
    /\ buf \in [ data_vec     : [0 .. capacity - 1 -> Byte],
                 capacity     : {capacity},
                 vacant_idx   : 0 .. capacity,
                 occupied_idx : 0 .. capacity ]
    /\ buf.occupied_idx <= buf.vacant_idx

\* The occupied bytes are those at the stream positions from pos + 1 on.
Holds(buf, pos) == \A i \in 1 .. len(buf) : occupied(buf, i) = pos + i
=============================================================================
