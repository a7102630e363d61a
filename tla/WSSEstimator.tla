---------------------------- MODULE WSSEstimator -----------------------------
(***************************************************************************)
(* wss_estimator<size_type> of src/krb/wss_estimator.hpp: a list of        *)
(* intervals, front first, each a bloom_filter and the bytes counted in   *)
(* it.  bloom_filter is generic_bloom_filter over a bit store (its header *)
(* krb/bloom_filter.hpp is not in the repository): add() sets the key's K *)
(* buckets, query() tests them (module GenericBloom, instantiated with    *)
(* the filter's num_elements).  A filter is a record of its num_elements, *)
(* its set bits and its byte count; keys, the keys accessed in the        *)
(* interval, is history the code does not keep.  adaptive_buffer_perc is *)
(* a double; it is kept in hundredths.                                    *)
(***************************************************************************)
EXTENDS Naturals, Sequences, SequencesExt

CONSTANTS
    WKeys,          \* the keys callers add
    Bytes(_),       \* the bytes argument add() is called with for a key
    Hash(_, _),     \* the bloom filters' hash
    NumIntervals,   \* the constructor's num_intervals
    PerInterval,    \* the constructor's elements_per_interval
    WFPRate,        \* the constructor's false_pos_rate, scaled by 10^8
    AdaptivePcts    \* the adaptive_filter_size_buffer values, in hundredths

VARIABLES
    filters,
    cur_set_size,
    last_discarded_size,
    adaptive        \* adaptive_buffer_perc

wsvars == <<filters, cur_set_size, last_discarded_size, adaptive>>

GB(e) == INSTANCE GenericBloom WITH BKeys <- WKeys, NumElements <- e, FPRate <- WFPRate

\* bloom_filter(e, fp_rate), with its count, for the front of the list
NewInterval(e) == [e |-> e, bits |-> {}, bytes |-> 0, keys |-> {}]

\* f.first.query(key, sz)
Query(f, key) == \A i \in 1 .. GB(f.e)!K : GB(f.e)!Buckets(key)[i] \in f.bits

\* f.first.add(key, sz)
BloomAdd(f, key) == Range(GB(f.e)!Buckets(key))

\* size(): the byte counts of all the intervals
Size == FoldSeq(LAMBDA f, s : s + f.bytes, 0, filters)

-----------------------------------------------------------------------------

\* wss_estimator(num_intervals, elements_per_interval, false_pos_rate,
\* adaptive_filter_size_buffer)
Init ==
    /\ filters = <<NewInterval(PerInterval)>>
    /\ cur_set_size = 0
    /\ last_discarded_size = 0
    /\ adaptive \in AdaptivePcts

\* mutant: the query loop stops before the oldest interval
AddSkipOldest(key) ==
    IF \E i \in 1 .. Len(filters) - 1 : Query(filters[i], key)
    THEN /\ filters' = [filters EXCEPT ![1].keys = @ \cup {key}]
         /\ UNCHANGED <<cur_set_size, last_discarded_size, adaptive>>
    ELSE /\ filters' = [filters EXCEPT ![1].bits = @ \cup BloomAdd(filters[1], key),
                                       ![1].bytes = @ + Bytes(key),
                                       ![1].keys = @ \cup {key}]
         /\ cur_set_size' = cur_set_size + 1
         /\ UNCHANGED <<last_discarded_size, adaptive>>

\* add(key, sz, bytes): a key some interval's filter reports present is
\* already in the working set; otherwise it is added to the front filter
\* and its bytes counted there
Add(key) ==
    IF \E i \in DOMAIN filters : Query(filters[i], key)
    THEN /\ filters' = [filters EXCEPT ![1].keys = @ \cup {key}]
         /\ UNCHANGED <<cur_set_size, last_discarded_size, adaptive>>
    ELSE /\ filters' = [filters EXCEPT ![1].bits = @ \cup BloomAdd(filters[1], key),
                                       ![1].bytes = @ + Bytes(key),
                                       ![1].keys = @ \cup {key}]
         /\ cur_set_size' = cur_set_size + 1
         /\ UNCHANGED <<last_discarded_size, adaptive>>

\* the next interval's num_elements: with an adaptive buffer, the set
\* size of the interval just ended, plus the buffer, plus 20
NextE ==
    IF adaptive > 0 THEN cur_set_size + (cur_set_size * adaptive) \div 100 + 20
                    ELSE PerInterval

\* end_interval(): push a new interval; if the list is then longer than
\* num_intervals, drop the oldest and remember its byte count
EndInterval ==
    LET pushed == <<NewInterval(NextE)>> \o filters IN
    /\ IF Len(pushed) > NumIntervals
         THEN /\ last_discarded_size' = Last(pushed).bytes
              /\ filters' = Front(pushed)
         ELSE /\ filters' = pushed
              /\ UNCHANGED last_discarded_size
    /\ cur_set_size' = 0
    /\ UNCHANGED adaptive

Next ==
    \/ \E key \in WKeys : Add(key)
    \/ EndInterval

Spec == Init /\ [][Next]_wsvars

-----------------------------------------------------------------------------
(* Properties                                                              *)

\* The keys accessed in the intervals the estimator keeps
WorkingSet == UNION {filters[i].keys : i \in DOMAIN filters}

\* size() never overestimates the working set: it is at most the bytes of
\* the distinct keys accessed during the intervals still kept, however
\* keys recur across intervals, intervals are dropped and differently
\* sized filters report false positives; each key is counted in at most
\* one kept interval.
SizeUnderestimates ==
    Size <= FoldSet(LAMBDA key, s : s + Bytes(key), 0, WorkingSet)

=============================================================================
