--------------------------------- MODULE Fifo ---------------------------------
(***************************************************************************)
(* What ring_buffer<T> of src/krb/ring_buffer.hpp promises its caller: a  *)
(* bounded FIFO of Capacity elements.  A write of n elements succeeds     *)
(* exactly when n fit and appends them; a read or peek of n succeeds      *)
(* exactly when n are stored and returns the oldest n, a read removing   *)
(* them; read_advance removes them unread.  ret records the last call:   *)
(* its name, its boolean result, and the elements it handed out.         *)
(***************************************************************************)
EXTENDS Naturals, Sequences

CONSTANTS
    Capacity,   \* buf_sz
    Values,     \* the element values
    MaxN        \* the largest n a call passes

\* the element sequences a write can pass
Inputs == UNION {[1 .. k -> Values] : k \in 1 .. MaxN}

VARIABLES q, ret

fvars == <<q, ret>>

FInit ==
    /\ q = <<>>
    /\ ret = [op |-> "none", ok |-> TRUE, out |-> <<>>]

\* write(in, n), and a direct write of n elements followed by write_advance(n)
Put(op, vals) ==
    LET ok == Len(vals) <= Capacity - Len(q)
    IN  /\ ret' = [op |-> op, ok |-> ok, out |-> <<>>]
        /\ q' = IF ok THEN q \o vals ELSE q

\* read(out, n) and peek(out, n): the oldest n elements, removed by a read
Get(op, n) ==
    LET ok == n <= Len(q)
    IN  /\ ret' = [op |-> op, ok |-> ok, out |-> IF ok THEN SubSeq(q, 1, n) ELSE <<>>]
        /\ q' = IF ok /\ op = "read" THEN SubSeq(q, n + 1, Len(q)) ELSE q

\* read_advance(n): drop the oldest n elements
Skip(n) ==
    LET ok == n <= Len(q)
    IN  /\ ret' = [op |-> "read_advance", ok |-> ok, out |-> <<>>]
        /\ q' = IF ok THEN SubSeq(q, n + 1, Len(q)) ELSE q

FNext ==
    \/ \E op \in {"write", "write_direct"}, vals \in Inputs : Put(op, vals)
    \/ \E op \in {"read", "peek"}, n \in 1 .. MaxN : Get(op, n)
    \/ \E n \in 1 .. MaxN : Skip(n)

FSpec == FInit /\ [][FNext]_fvars

=============================================================================
