-------------------------- MODULE SimpleBufProofs --------------------------
(***************************************************************************)
(* What the operations of the byte buffer do to its shape, to the number   *)
(* of bytes it holds and to the bytes themselves.  The modules that use    *)
(* the buffer prove their invariants from these facts alone.  Each proof   *)
(* names the fields of the buffer and works on the record they make.       *)
(***************************************************************************)
EXTENDS SimpleBuf, TLAPS

\* A buffer is the record of its four fields (simple_buf.rs:4).
LEMMA BufFields ==
  ASSUME NEW cap \in Nat, NEW buf, IsBuf(buf, cap, Nat)
  PROVE  \E d \in [0 .. cap - 1 -> Nat], v \in 0 .. cap, o \in 0 .. cap :
           /\ buf = [data_vec |-> d, capacity |-> cap,
                     vacant_idx |-> v, occupied_idx |-> o]
           /\ o <= v
BY DEF IsBuf

\* A fresh buffer is well formed and empty (simple_buf.rs:12).
LEMMA NewBuf ==
  ASSUME NEW cap \in Nat, NEW pos \in Nat
  PROVE  /\ IsBuf(new(cap), cap, Nat)
         /\ len(new(cap)) = 0
         /\ Holds(new(cap), pos)
BY DEF IsBuf, new, len, Holds

\* len() is what lies between the indices (simple_buf.rs:27).
LEMMA LenBuf ==
  ASSUME NEW cap \in Nat, NEW buf, IsBuf(buf, cap, Nat)
  PROVE  /\ len(buf) \in 0 .. cap
         /\ max_len(buf) = cap - len(buf)
         /\ vacant_len(buf) = cap - buf.vacant_idx
BY DEF IsBuf, len, max_len, vacant_len

\* reuse() keeps the bytes and leaves the whole of max_len() at the tail
\* (simple_buf.rs:57).
LEMMA ReuseBuf ==
  ASSUME NEW cap \in Nat, NEW buf, IsBuf(buf, cap, Nat),
         NEW pos \in Nat, Holds(buf, pos)
  PROVE  /\ IsBuf(reuse(buf), cap, Nat)
         /\ len(reuse(buf)) = len(buf)
         /\ vacant_len(reuse(buf)) = max_len(buf)
         /\ Holds(reuse(buf), pos)
<1>1. PICK d \in [0 .. cap - 1 -> Nat], v \in 0 .. cap, o \in 0 .. cap :
        /\ buf = [data_vec |-> d, capacity |-> cap, vacant_idx |-> v, occupied_idx |-> o]
        /\ o <= v
  BY BufFields
<1>2. len(buf) = v - o /\ max_len(buf) = cap - (v - o)
  BY <1>1 DEF len, max_len
<1> DEFINE e == [i \in 0 .. cap - 1 |-> IF i < v - o THEN d[o + i] ELSE d[i]]
<1>3. reuse(buf) = [data_vec |-> e, capacity |-> cap,
                    vacant_idx |-> v - o, occupied_idx |-> 0]
  BY <1>1, <1>2 DEF reuse
<1>4. e \in [0 .. cap - 1 -> Nat]
  <2>1. ASSUME NEW i \in 0 .. cap - 1 PROVE e[i] \in Nat
    <3>1. CASE i < v - o
      <4>1. o + i \in 0 .. cap - 1
        BY <3>1
      <4>2. e[i] = d[o + i]
        BY <3>1
      <4> QED BY <4>1, <4>2
    <3>2. CASE ~(i < v - o)
      BY <3>2
    <3> QED BY <3>1, <3>2
  <2> QED BY <2>1
<1>5. \A i \in 1 .. v - o : e[i - 1] = d[o + i - 1]
  <2>1. ASSUME NEW i \in 1 .. v - o PROVE e[i - 1] = d[o + i - 1]
    <3>1. i - 1 \in 0 .. cap - 1 /\ i - 1 < v - o
      OBVIOUS
    <3>2. e[i - 1] = d[o + (i - 1)]
      BY <3>1
    <3>3. o + (i - 1) = o + i - 1
      OBVIOUS
    <3> QED BY <3>2, <3>3
  <2> QED BY <2>1
<1> HIDE DEF e
<1>6. IsBuf(reuse(buf), cap, Nat)
  BY <1>1, <1>3, <1>4 DEF IsBuf
<1>7. /\ len(reuse(buf)) = len(buf)
      /\ vacant_len(reuse(buf)) = max_len(buf)
  BY <1>1, <1>2, <1>3 DEF len, vacant_len
<1>8. ASSUME NEW i \in 1 .. len(reuse(buf)) PROVE occupied(reuse(buf), i) = pos + i
  <2>1. i \in 1 .. v - o
    BY <1>2, <1>7
  <2>2. occupied(reuse(buf), i) = e[i - 1]
    <3>1. 0 + i - 1 = i - 1
      BY <2>1
    <3> QED BY <1>3, <3>1 DEF occupied
  <2>3. occupied(buf, i) = d[o + i - 1]
    BY <1>1 DEF occupied
  <2>4. occupied(buf, i) = pos + i
    BY <1>2, <2>1 DEF Holds
  <2> QED BY <1>5, <2>1, <2>2, <2>3, <2>4
<1> QED BY <1>6, <1>7, <1>8 DEF Holds

\* reuse_if() keeps the bytes (simple_buf.rs:64).
LEMMA ReuseIfBuf ==
  ASSUME NEW cap \in Nat, NEW buf, IsBuf(buf, cap, Nat),
         NEW pos \in Nat, Holds(buf, pos)
  PROVE  /\ IsBuf(reuse_if(buf), cap, Nat)
         /\ len(reuse_if(buf)) = len(buf)
         /\ Holds(reuse_if(buf), pos)
BY ReuseBuf DEF reuse_if

\* A push that continues the bytes held extends them (simple_buf.rs:35).
LEMMA PushBuf ==
  ASSUME NEW cap \in Nat, NEW buf, IsBuf(buf, cap, Nat),
         NEW pos \in Nat, Holds(buf, pos),
         NEW size \in Nat, CanPush(buf, size),
         NEW at, at = pos + len(buf)
  PROVE  /\ IsBuf(push_slice(buf, at, size), cap, Nat)
         /\ len(push_slice(buf, at, size)) = len(buf) + size
         /\ Holds(push_slice(buf, at, size), pos)
<1> DEFINE p == push_slice(buf, at, size)
<1>1. PICK d \in [0 .. cap - 1 -> Nat], v \in 0 .. cap, o \in 0 .. cap :
        /\ buf = [data_vec |-> d, capacity |-> cap, vacant_idx |-> v, occupied_idx |-> o]
        /\ o <= v
  BY BufFields
<1>2. len(buf) = v - o /\ v + size <= cap
  BY <1>1 DEF len, CanPush, vacant_len
<1> DEFINE e == [i \in 0 .. cap - 1 |-> IF i \in v .. v + size - 1
                                          THEN at + i - v + 1
                                          ELSE d[i]]
<1>3. p = [data_vec |-> e, capacity |-> cap, vacant_idx |-> v + size, occupied_idx |-> o]
  BY <1>1, <1>2 DEF push_slice
<1>at. at = pos + (v - o) /\ at \in Nat
  BY <1>1, <1>2
<1>4. e \in [0 .. cap - 1 -> Nat]
  <2>1. ASSUME NEW i \in 0 .. cap - 1 PROVE e[i] \in Nat
    <3>1. CASE i \in v .. v + size - 1
      <4>1. e[i] = at + i - v + 1
        BY <3>1
      <4> QED BY <4>1, <3>1, <1>at
    <3>2. CASE i \notin v .. v + size - 1
      BY <3>2
    <3> QED BY <3>1, <3>2
  <2> QED BY <2>1
<1>5. ASSUME NEW i \in 1 .. (v - o) + size
      PROVE  e[o + i - 1] = IF i <= v - o THEN d[o + i - 1] ELSE pos + i
  <2>1. o + i - 1 \in 0 .. cap - 1
    BY <1>1, <1>2
  <2>2. CASE i <= v - o
    <3>1. o + i - 1 \notin v .. v + size - 1
      BY <2>2
    <3> QED BY <2>1, <2>2, <3>1
  <2>3. CASE ~(i <= v - o)
    <3>1. o + i - 1 \in v .. v + size - 1
      BY <2>3
    <3>2. e[o + i - 1] = at + (o + i - 1) - v + 1
      BY <2>1, <3>1
    <3>3. at + (o + i - 1) - v + 1 = pos + i
      BY <1>1, <1>2, <1>at
    <3> QED BY <2>3, <3>2, <3>3
  <2> QED BY <2>2, <2>3
<1> HIDE DEF e
<1>6. IsBuf(p, cap, Nat)
  BY <1>1, <1>2, <1>3, <1>4 DEF IsBuf
<1>7. len(p) = len(buf) + size
  BY <1>1, <1>2, <1>3 DEF len
<1>8. ASSUME NEW i \in 1 .. len(p) PROVE occupied(p, i) = pos + i
  <2>1. i \in 1 .. (v - o) + size
    BY <1>2, <1>7
  <2>2. occupied(p, i) = e[o + i - 1]
    BY <1>3 DEF occupied
  <2>3. i <= v - o => d[o + i - 1] = pos + i
    <3>1. SUFFICES ASSUME i <= v - o PROVE d[o + i - 1] = pos + i
      OBVIOUS
    <3>2. i \in 1 .. len(buf)
      BY <1>2, <2>1, <3>1
    <3>3. occupied(buf, i) = d[o + i - 1]
      BY <1>1 DEF occupied
    <3> QED BY <3>2, <3>3 DEF Holds
  <2> QED BY <1>5, <2>1, <2>2, <2>3
<1> QED BY <1>6, <1>7, <1>8 DEF Holds

\* free() drops the oldest bytes (simple_buf.rs:72).
LEMMA FreeBuf ==
  ASSUME NEW cap \in Nat, NEW buf, IsBuf(buf, cap, Nat),
         NEW pos \in Nat, Holds(buf, pos),
         NEW n \in 0 .. len(buf)
  PROVE  /\ IsBuf(free(buf, n), cap, Nat)
         /\ len(free(buf, n)) = len(buf) - n
         /\ Holds(free(buf, n), pos + n)
<1> DEFINE f == free(buf, n)
<1>1. PICK d \in [0 .. cap - 1 -> Nat], v \in 0 .. cap, o \in 0 .. cap :
        /\ buf = [data_vec |-> d, capacity |-> cap, vacant_idx |-> v, occupied_idx |-> o]
        /\ o <= v
  BY BufFields
<1>2. len(buf) = v - o /\ n \in 0 .. v - o
  BY <1>1 DEF len
<1>3. f = [data_vec |-> d, capacity |-> cap, vacant_idx |-> v, occupied_idx |-> o + n]
  BY <1>1 DEF free
<1>4. IsBuf(f, cap, Nat)
  BY <1>1, <1>2, <1>3 DEF IsBuf
<1>5. len(f) = len(buf) - n
  BY <1>1, <1>2, <1>3 DEF len
<1>6. ASSUME NEW i \in 1 .. len(f) PROVE occupied(f, i) = pos + n + i
  <2>1. i \in Int /\ n + i \in 1 .. len(buf)
    BY <1>2, <1>5
  <2>2. (o + n) + i - 1 = o + (n + i) - 1
    BY <1>2, <2>1
  <2>3. occupied(f, i) = d[o + (n + i) - 1]
    BY <1>3, <2>2 DEF occupied
  <2>4. occupied(buf, n + i) = d[o + (n + i) - 1]
    BY <1>1 DEF occupied
  <2>5. occupied(buf, n + i) = pos + (n + i)
    BY <2>1 DEF Holds
  <2> QED BY <1>2, <2>1, <2>3, <2>4, <2>5
<1> QED BY <1>4, <1>5, <1>6 DEF Holds
=============================================================================
