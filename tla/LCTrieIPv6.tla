------------------------------ MODULE LCTrieIPv6 ------------------------------
(***************************************************************************)
(* The ipv6 address operations of src/krb/lc_trie.hpp: an address is two  *)
(* H-bit halves hi and lo (the code's uint64_t, H = 64), and EXTRACT and   *)
(* REMOVE work on the halves with shifts.  A shift of an H-bit word by H  *)
(* or more is undefined; the build (x86-64, a variable count) shifts by   *)
(* the count modulo the width, and the operators here do the same.       *)
(* Every call is a step that records the operation and its result, so a  *)
(* run checks each against a reference on the 2H-bit value; the caller    *)
(* then consumes the result before the next call.                        *)
(***************************************************************************)
EXTENDS Naturals, Bitwise

CONSTANT H      \* bits per half

W == 2 * H      \* the code's 128

Word == 0 .. 2^H - 1
IPv6 == [hi : Word, lo : Word]

\* x << c and x >> c on an H-bit word, the count taken modulo the width
Shl(x, c) == (x * 2^(c % H)) % 2^H
Shr(x, c) == x \div 2^(c % H)

\* operator<: hi first, then lo
Less6(a, b) == a.hi < b.hi \/ (a.hi = b.hi /\ a.lo < b.lo)

\* operator^
Xor6(a, b) == [hi |-> a.hi ^^ b.hi, lo |-> a.lo ^^ b.lo]

\* EXTRACT, first half: shift everything left p bits
ShiftLeft(p, s) ==
    LET hi == Shl(s.hi, p) IN
    IF p > 0 /\ p <= H THEN [hi |-> hi | Shr(s.lo, H - p), lo |-> Shl(s.lo, p)]
    ELSE IF p > H THEN [hi |-> Shl(s.lo, p - H), lo |-> 0]
    ELSE [hi |-> hi, lo |-> s.lo]

\* mutant: the two-half branch also taken for a shift of exactly H
ShiftRightAtH(m, s) ==
    LET lo == Shr(s.lo, m) IN
    IF m > 0 /\ m <= H THEN [hi |-> Shr(s.hi, m), lo |-> lo | Shl(s.hi, H - m)]
    ELSE IF m > H THEN [hi |-> 0, lo |-> Shr(s.hi, m - H)]
    ELSE [hi |-> s.hi, lo |-> lo]

\* EXTRACT, second half: shift everything right m = W - n bits
ShiftRight(m, s) ==
    LET lo == Shr(s.lo, m) IN
    IF m > 0 /\ m < H THEN [hi |-> Shr(s.hi, m), lo |-> lo | Shl(s.hi, H - m)]
    ELSE IF m > H THEN [hi |-> 0, lo |-> Shr(s.hi, m - H)]
    ELSE IF m = H THEN [hi |-> 0, lo |-> s.hi]
    ELSE [hi |-> s.hi, lo |-> lo]

\* EXTRACT(p, n, str): n bits of str from position p
EXTRACT6(p, n, s) == ShiftRight(W - n, ShiftLeft(p, s))

\* REMOVE(p, str): clear the first p bits
REMOVE6(p, s) ==
    IF p = 0 THEN s
    ELSE IF p <= H THEN [s EXCEPT !.hi = Shr(Shl(s.hi, p), p)]
    ELSE [hi |-> 0, lo |-> Shr(Shl(s.lo, p - H), p - H)]

-----------------------------------------------------------------------------
(* The calls                                                               *)

VARIABLES op, result

v6vars == <<op, result>>

NoOp == [kind |-> "none"]

Init == op = NoOp /\ result = NoOp

ExtractCall(p, n, s) ==
    /\ op = NoOp
    /\ op' = [kind |-> "extract", p |-> p, n |-> n, a |-> s]
    /\ result' = EXTRACT6(p, n, s)

RemoveCall(p, s) ==
    /\ op = NoOp
    /\ op' = [kind |-> "remove", p |-> p, a |-> s]
    /\ result' = REMOVE6(p, s)

LessCall(a, b) ==
    /\ op = NoOp
    /\ op' = [kind |-> "less", a |-> a, b |-> b]
    /\ result' = Less6(a, b)

XorCall(a, b) ==
    /\ op = NoOp
    /\ op' = [kind |-> "xor", a |-> a, b |-> b]
    /\ result' = Xor6(a, b)

\* the caller takes the result
Consume ==
    /\ op # NoOp
    /\ op' = NoOp /\ result' = NoOp

\* the calls' common guard, stated before their operands are chosen: TLC
\* enumerates the operands only in states where a call can be made
Idle == op = NoOp

Next ==
    \/ Consume
    \/ /\ Idle
       /\ \/ \E s \in IPv6, p \in 0 .. W : \E n \in 0 .. W - p : ExtractCall(p, n, s)
          \/ \E s \in IPv6, p \in 0 .. W : RemoveCall(p, s)
          \/ \E a, b \in IPv6 : LessCall(a, b) \/ XorCall(a, b)

Spec == Init /\ [][Next]_v6vars

-----------------------------------------------------------------------------
(* Reference definitions on the 2H-bit value                               *)

Val(s) == s.hi * 2^H + s.lo
Halves(v) == [hi |-> v \div 2^H, lo |-> v % 2^H]

RefExtract(p, n, s) == Halves((Val(s) \div 2^(W - p - n)) % 2^n)
RefRemove(p, s) == Halves(Val(s) % 2^(W - p))

\* The calls at which a shift by the full width of a half decides the
\* result: EXTRACT at p = H (hi is shifted by H and keeps its bits) and
\* with n = 0 (lo = hi >> H), and REMOVE at p = H and p = W.  Elsewhere
\* every out-of-range shift the code performs is overwritten by the branch
\* that follows it.
ShiftByWidthDecides(o) ==
    \/ o.kind = "extract" /\ (o.p = H \/ o.n = 0)
    \/ o.kind = "remove" /\ o.p \in {H, W}

\* Every ipv6 operation agrees with the same operation on the 2H-bit
\* value, for every position and length, including extractions whose bits
\* straddle the two halves and shifts past a half, except where a shift
\* by the full width decides the result.
IPv6OpsMatchReference ==
    op.kind # "none" /\ ~ShiftByWidthDecides(op) =>
        result = CASE op.kind = "extract" -> RefExtract(op.p, op.n, op.a)
                   [] op.kind = "remove"  -> RefRemove(op.p, op.a)
                   [] op.kind = "less"    -> Val(op.a) < Val(op.b)
                   [] op.kind = "xor"     -> Halves(Val(op.a) ^^ Val(op.b))

=============================================================================
