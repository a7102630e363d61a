---------------------------- MODULE CountingBloom ----------------------------
(***************************************************************************)
(* counting_bloom_filter<Counter> of src/krb/counting_bloom_filter.hpp:   *)
(* generic_bloom_filter over a counting_bloom_store, a vector of unsigned *)
(* Counter with maximum CounterMax.  live is the multiset of keys added   *)
(* (by add() or by a merge) and not yet removed, and stray records that a *)
(* remove() of a key not in live got past its query() check since the    *)
(* last reset(); both are history the code does not keep.  The filter is *)
(* not thread safe: one caller, one call per step.                        *)
(***************************************************************************)
EXTENDS GenericBloom, SequencesExt

CONSTANTS
    CounterMax,     \* std::numeric_limits<Counter>::max()
    MaxCopies       \* bound on the copies of one key in live

VARIABLES
    cstore,         \* the counters, one per bucket
    live,           \* a bag of BKeys
    stray

cbvars == <<cstore, live, stray>>

Zero == [b \in Bucket |-> 0]

\* counting_bloom_store::set(n): a counter at its maximum stays there
StoreSet(st, n) == IF st[n] # CounterMax THEN [st EXCEPT ![n] = @ + 1] ELSE st

\* counting_bloom_store::test(n)
StoreTest(st, n) == st[n] > 0

\* generic add(key): store.set on each of the key's K buckets
AddKey(st, key) == FoldLeft(StoreSet, st, Buckets(key))

\* generic query(key): every bucket of the key is set
CQuery(key) == \A i \in 1 .. K : StoreTest(cstore, Buckets(key)[i])

\* --store[n] on an unsigned Counter
Decrement(st, n) == [st EXCEPT ![n] = (@ - 1) % (CounterMax + 1)]

\* counting_bloom_store::operator|=(S): add counters, saturating at the max
StoreOr(st, s) ==
    [b \in Bucket |-> IF CounterMax - st[b] < s[b] THEN CounterMax ELSE st[b] + s[b]]

-----------------------------------------------------------------------------

Init ==
    /\ cstore = Zero
    /\ live = EmptyBag
    /\ stray = FALSE

\* reset()
CReset ==
    /\ cstore' = Zero
    /\ live' = EmptyBag
    /\ stray' = FALSE

\* add(key, sz)
CAdd(key) ==
    /\ CopiesIn(key, live) < MaxCopies
    /\ cstore' = AddKey(cstore, key)
    /\ live' = live (+) SetToBag({key})
    /\ UNCHANGED stray

\* mutant: each distinct bucket of the key decremented once
CRemoveDistinct(key) ==
    /\ CQuery(key)
    /\ cstore' = FoldSet(LAMBDA n, st : Decrement(st, n), cstore, Range(Buckets(key)))
    /\ live' = live (-) SetToBag({key})
    /\ stray' = (stray \/ CopiesIn(key, live) = 0)

\* remove(key, sz): a key query() rejects returns false and changes
\* nothing (a stuttering step); otherwise each of its K buckets is
\* decremented and remove returns true
CRemove(key) ==
    /\ CQuery(key)
    /\ cstore' = FoldLeft(Decrement, cstore, Buckets(key))
    /\ live' = live (-) SetToBag({key})
    /\ stray' = (stray \/ CopiesIn(key, live) = 0)

\* merge(F) with a filter of the same sizing into which the keys S were
\* added; a filter of another sizing makes merge return false and change
\* nothing
CMerge(S) ==
    /\ \A key \in S : CopiesIn(key, live) < MaxCopies
    /\ cstore' = StoreOr(cstore, FoldSet(LAMBDA key, st : AddKey(st, key), Zero, S))
    /\ live' = live (+) SetToBag(S)
    /\ UNCHANGED stray

Next ==
    \/ CReset
    \/ \E key \in BKeys : CAdd(key) \/ CRemove(key)
    \/ \E S \in SUBSET BKeys \ {{}} : CMerge(S)

Spec == Init /\ [][Next]_cbvars

-----------------------------------------------------------------------------
(* Properties                                                              *)

\* The demand on each bucket: how many times the add() calls of the keys
\* in live have set it.
Demand(bag) ==
    [b \in Bucket |->
        MapThenSumSet(LAMBDA key : CopiesIn(key, bag)
                                   * Cardinality({i \in 1 .. K : Buckets(key)[i] = b}),
                      BKeys)]

\* Until a remove() of a key that was never added gets past query() (a
\* false positive), every counter is exactly the number of times the live
\* keys hash to it, through adds, merges and removes of keys whose hashes
\* share buckets or repeat a bucket; so no live key ever queries false.
CountersMatchMembers == ~stray => cstore = Demand(live)

=============================================================================
