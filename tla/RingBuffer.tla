------------------------------ MODULE RingBuffer ------------------------------
(***************************************************************************)
(* ring_buffer<T> of src/krb/ring_buffer.hpp.  buf is an array of Size     *)
(* elements; start, end and last are T* pointers, kept here as element     *)
(* offsets from buf.  Every pointer step of the code is n*sizeof(T) added *)
(* to a T*, which C++ scales by sizeof(T) once more, and last is           *)
(* buf + size*sizeof(T): ElemSize is sizeof(T), and the offsets are what   *)
(* the code computes (for a one-byte T they are the intended ones).  The  *)
(* memcpy byte counts n*sizeof(T) are right, so a copy moves n elements;  *)
(* one that leaves the array, or the caller's n-element buffer, sets oob  *)
(* (undefined behaviour: nothing after it is meaningful).                 *)
(***************************************************************************)
EXTENDS Integers, Sequences, SequencesExt

CONSTANTS
    Size,       \* the constructor's size (buf_sz)
    ElemSize,   \* sizeof(T)
    Values,     \* the element values
    MaxN        \* the largest n a call passes

ASSUME Size \in Nat \ {0} /\ ElemSize \in Nat \ {0} /\ MaxN \in Nat \ {0}

VARIABLES
    mem,        \* buf[0 .. Size-1]
    start,      \* start - buf
    end,        \* end - buf
    count,      \* count
    oob,        \* a copy has left the array or the caller's buffer
    ret         \* the last call: its name, its result, what it handed out

rbvars == <<mem, start, end, count, oob, ret>>

Slots == 0 .. Size - 1

\* the element sequences a write can pass
Inputs == UNION {[1 .. k -> Values] : k \in 1 .. MaxN}

\* last(buf + size*sizeof(T))
last == Size * ElemSize

\* what a read outside the array yields
Junk == CHOOSE v \in Values : TRUE

MemAt(x) == IF x \in Slots THEN mem[x] ELSE Junk

-----------------------------------------------------------------------------
(* The pointer arithmetic.  A copy is [at: offset in buf, from/to: offset  *)
(* in the caller's buffer, k: elements].                                   *)

\* mutant: a full buffer (start = end) reported as free up to last
available_contiguous_nocount ==
    IF start <= end THEN (last - end) \div ElemSize
    ELSE (start - end) \div ElemSize

\* available_contiguous()
available_contiguous ==
    IF start < end \/ (start = end /\ count # Size) THEN (last - end) \div ElemSize
    ELSE IF start > end THEN (start - end) \div ElemSize
    ELSE 0

\* the new start of read_advance(n), after its n > count check
ReadAdvanced(n) ==
    LET s == IF start < end THEN start + n * ElemSize
             ELSE LET chunk == (last - start) \div ElemSize
                  IN  CASE chunk > n -> start + n * ElemSize
                        [] chunk < n -> (n - chunk) * ElemSize
                        [] OTHER     -> 0
    IN  IF s = last THEN 0 ELSE s

\* the new end of write_advance(n), after its n > available() check
WriteAdvanced(n) ==
    LET e == IF start <= end
             THEN LET chunk == (last - end) \div ElemSize
                  IN  CASE chunk > n -> end + n * ElemSize
                        [] chunk < n -> (n - chunk) * ElemSize
                        [] OTHER     -> 0
             ELSE end + n * ElemSize
    IN  IF e = last THEN 0 ELSE e

\* mutant: the single-copy branch taken for an empty buffer (start = end)
WriteCopiesStrict(n) ==
    IF start < end
    THEN LET chunk == (last - end) \div ElemSize
         IN  IF chunk >= n THEN <<[at |-> end, from |-> 0, k |-> n]>>
             ELSE <<[at |-> end, from |-> 0, k |-> chunk],
                    [at |-> 0, from |-> chunk * ElemSize, k |-> n - chunk]>>
    ELSE <<[at |-> end, from |-> 0, k |-> n]>>

\* the memcpy calls of write(in, n)
WriteCopies(n) ==
    IF start <= end
    THEN LET chunk == (last - end) \div ElemSize
         IN  IF chunk >= n THEN <<[at |-> end, from |-> 0, k |-> n]>>
             ELSE <<[at |-> end, from |-> 0, k |-> chunk],
                    [at |-> 0, from |-> chunk * ElemSize, k |-> n - chunk]>>
    ELSE <<[at |-> end, from |-> 0, k |-> n]>>

\* the memcpy calls of peek(out, n)
PeekCopies(n) ==
    IF start < end THEN <<[at |-> start, to |-> 0, k |-> n]>>
    ELSE LET chunk == (last - start) \div ElemSize
         IN  IF chunk >= n THEN <<[at |-> start, to |-> 0, k |-> n]>>
             ELSE <<[at |-> start, to |-> 0, k |-> chunk],
                    [at |-> 0, to |-> chunk * ElemSize, k |-> n - chunk]>>

InArray(cp) == cp.k = 0 \/ (cp.at >= 0 /\ cp.at + cp.k <= Size)

\* memcpy(buf + cp.at, in + cp.from, cp.k elements)
StoreOne(m, in, cp) ==
    [x \in Slots |-> IF x - cp.at \in 0 .. cp.k - 1 /\ cp.from + x - cp.at < Len(in)
                     THEN in[cp.from + x - cp.at + 1] ELSE m[x]]

Stored(in, cps) == FoldLeft(LAMBDA m, cp : StoreOne(m, in, cp), mem, cps)

WriteInBounds(in, cps) ==
    \A i \in DOMAIN cps : InArray(cps[i]) /\ cps[i].from + cps[i].k <= Len(in)

\* the caller's n-element buffer after peek's copies (positions no copy
\* reaches keep whatever the caller had there)
PeekOut(n, cps) ==
    [i \in 1 .. n |->
        LET hit == {j \in DOMAIN cps : i - 1 - cps[j].to \in 0 .. cps[j].k - 1}
        IN  IF hit = {} THEN Junk
            ELSE LET cp == cps[Max(hit)] IN MemAt(cp.at + i - 1 - cp.to)]

PeekInBounds(n, cps) == \A i \in DOMAIN cps : InArray(cps[i]) /\ cps[i].to + cps[i].k <= n

-----------------------------------------------------------------------------
(* Operations.  The buffer is not thread safe: one caller, one call per   *)
(* step.                                                                   *)

\* ring_buffer(size): new T[size] is uninitialised
Init ==
    /\ mem \in [Slots -> Values]
    /\ start = 0 /\ end = 0 /\ count = 0
    /\ oob = FALSE
    /\ ret = [op |-> "none", ok |-> TRUE, out |-> <<>>]

Fail(op) ==
    /\ ret' = [op |-> op, ok |-> FALSE, out |-> <<>>]
    /\ UNCHANGED <<mem, start, end, count, oob>>

\* mutant: the room check made against the capacity, not the free space
WriteCapacityCheck(in) ==
    IF Len(in) > Size THEN Fail("write")
    ELSE LET cps == WriteCopies(Len(in))
         IN  /\ ret' = [op |-> "write", ok |-> TRUE, out |-> <<>>]
             /\ mem' = Stored(in, cps)
             /\ oob' = (oob \/ ~WriteInBounds(in, cps))
             /\ end' = WriteAdvanced(Len(in))
             /\ count' = count + Len(in)
             /\ UNCHANGED start

\* write(in, n): copy in at end, wrapping at last, then write_advance(n)
Write(in) ==
    IF Len(in) > Size - count THEN Fail("write")
    ELSE LET cps == WriteCopies(Len(in))
         IN  /\ ret' = [op |-> "write", ok |-> TRUE, out |-> <<>>]
             /\ mem' = Stored(in, cps)
             /\ oob' = (oob \/ ~WriteInBounds(in, cps))
             /\ end' = WriteAdvanced(Len(in))
             /\ count' = count + Len(in)
             /\ UNCHANGED start

\* the caller writes at most available_contiguous() elements at
\* write_direct_access() (= end), then calls write_advance(n)
WriteDirect(in) ==
    /\ Len(in) <= available_contiguous
    /\ LET cp == [at |-> end, from |-> 0, k |-> Len(in)]
       IN  /\ mem' = StoreOne(mem, in, cp)
           /\ oob' = (oob \/ ~InArray(cp))
    /\ IF Len(in) > Size - count
       THEN /\ ret' = [op |-> "write_direct", ok |-> FALSE, out |-> <<>>]
            /\ UNCHANGED <<start, end, count>>
       ELSE /\ ret' = [op |-> "write_direct", ok |-> TRUE, out |-> <<>>]
            /\ end' = WriteAdvanced(Len(in))
            /\ count' = count + Len(in)
            /\ UNCHANGED start

\* peek(out, n)
Peek(n) ==
    IF n > count THEN Fail("peek")
    ELSE LET cps == PeekCopies(n)
         IN  /\ ret' = [op |-> "peek", ok |-> TRUE, out |-> PeekOut(n, cps)]
             /\ oob' = (oob \/ ~PeekInBounds(n, cps))
             /\ UNCHANGED <<mem, start, end, count>>

\* read(out, n): peek(out, n) && read_advance(n)
Read(n) ==
    IF n > count THEN Fail("read")
    ELSE LET cps == PeekCopies(n)
         IN  /\ ret' = [op |-> "read", ok |-> TRUE, out |-> PeekOut(n, cps)]
             /\ oob' = (oob \/ ~PeekInBounds(n, cps))
             /\ start' = ReadAdvanced(n)
             /\ count' = count - n
             /\ UNCHANGED <<mem, end>>

\* read_advance(n)
ReadAdvance(n) ==
    IF n > count THEN Fail("read_advance")
    ELSE /\ ret' = [op |-> "read_advance", ok |-> TRUE, out |-> <<>>]
         /\ start' = ReadAdvanced(n)
         /\ count' = count - n
         /\ UNCHANGED <<mem, end, oob>>

Next ==
    \/ \E in \in Inputs : Write(in) \/ WriteDirect(in)
    \/ \E n \in 1 .. MaxN : Peek(n) \/ Read(n) \/ ReadAdvance(n)

Spec == Init /\ [][Next]_rbvars

-----------------------------------------------------------------------------
(* Properties                                                              *)

RBTypeOK ==
    /\ mem \in [Slots -> Values]
    /\ start \in Slots /\ end \in Slots /\ count \in 0 .. Size
    /\ oob \in BOOLEAN

\* Every memcpy of write and peek stays inside buf and inside the caller's
\* n-element buffer, through every wrap of start and end at last.
InBounds == ~oob

\* The stored elements, oldest first: count of them from start, wrapping
\* at the end of the array.
Contents == [i \in 1 .. count |-> MemAt((start + i - 1) % Size)]

F == INSTANCE Fifo WITH Capacity <- Size, q <- Contents

\* The ring buffer implements a bounded FIFO: every write, direct write,
\* read, peek and read_advance succeeds exactly when the FIFO's would, and
\* hands out the oldest elements in the order they were written.
FifoRefinement == F!FSpec

=============================================================================
