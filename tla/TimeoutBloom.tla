---------------------------- MODULE TimeoutBloom -----------------------------
(***************************************************************************)
(* timeout_bloom_filter of src/krb/timeout_bloom_filter.hpp:              *)
(* generic_bloom_filter over a timeout_bloom_store, a vector of time_t    *)
(* holding the time each bucket was last set.  now is the caller's clock, *)
(* which add() and query() are passed; stamp records the time each key   *)
(* was last added (-1: never since the last reset), history the code     *)
(* does not keep.  time - timeout is computed in time_t (64 bits, signed),*)
(* so it does not wrap for the times of the model.                        *)
(***************************************************************************)
EXTENDS GenericBloom, SequencesExt

CONSTANTS
    MaxTime,        \* bound on the clock
    Timeouts        \* the timeout_sec arguments of query()

VARIABLES
    tstore,         \* the time stamps, one per bucket
    now,
    stamp

tbvars == <<tstore, now, stamp>>

Time == 0 .. MaxTime

Never == -1

\* timeout_bloom_store::set(n, time)
StoreSetTime(st, n, t) == [st EXCEPT ![n] = t]

\* timeout_bloom_store::test(n, time, timeout)
StoreTestTime(st, n, t, timeout) == st[n] >= t - timeout

\* add(key, sz, time): set(bucket, time) on each of the key's K buckets
AddAt(st, key, t) == FoldLeft(LAMBDA s, n : StoreSetTime(s, n, t), st, Buckets(key))

\* query(key, sz, time, timeout_sec)
TQuery(key, t, timeout) == \A i \in 1 .. K : StoreTestTime(tstore, Buckets(key)[i], t, timeout)

\* mutant: the merge keeps the older stamp of a bucket
StoreOrMin(st, s) == [b \in Bucket |-> IF st[b] <= s[b] THEN st[b] ELSE s[b]]

\* timeout_bloom_store::operator|=(S): the later stamp of each bucket
StoreOrMax(st, s) == [b \in Bucket |-> IF st[b] >= s[b] THEN st[b] ELSE s[b]]

-----------------------------------------------------------------------------

Init ==
    /\ tstore = [b \in Bucket |-> 0]
    /\ now = 0
    /\ stamp = [key \in BKeys |-> Never]

\* the caller's clock advances
Tick ==
    /\ now < MaxTime
    /\ now' = now + 1
    /\ UNCHANGED <<tstore, stamp>>

\* reset(): every stamp back to 0
TReset ==
    /\ tstore' = [b \in Bucket |-> 0]
    /\ stamp' = [key \in BKeys |-> Never]
    /\ UNCHANGED now

\* add(key, sz, now)
TAdd(key) ==
    /\ tstore' = AddAt(tstore, key, now)
    /\ stamp' = [stamp EXCEPT ![key] = now]
    /\ UNCHANGED now

\* merge(F) with a filter of the same sizing into which the keys S were
\* added at time t (at most now); a filter of another sizing makes merge
\* return false and change nothing
TMerge(S, t) ==
    /\ tstore' = StoreOrMax(tstore,
                   FoldSet(LAMBDA key, st : AddAt(st, key, t), [b \in Bucket |-> 0], S))
    /\ stamp' = [key \in BKeys |-> IF key \in S /\ stamp[key] < t THEN t ELSE stamp[key]]
    /\ UNCHANGED now

Next ==
    \/ Tick
    \/ TReset
    \/ \E key \in BKeys : TAdd(key)
    \/ \E S \in SUBSET BKeys \ {{}}, t \in 0 .. now : TMerge(S, t)

Spec == Init /\ [][Next]_tbvars

-----------------------------------------------------------------------------
(* Properties                                                              *)

\* A key added, or merged in, at time t is reported present by every
\* query at the current time with a timeout reaching back to t, however
\* other keys sharing its buckets were added and merged since.
TimeoutNoFalseNegatives ==
    \A key \in BKeys, timeout \in Timeouts :
        stamp[key] # Never /\ stamp[key] >= now - timeout => TQuery(key, now, timeout)

=============================================================================
