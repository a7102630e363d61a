----------------------------- MODULE MCContainers -----------------------------
(***************************************************************************)
(* The standalone components of src/krb, instantiated for TLC: the     *)
(* single-threaded containers ring_buffer<T> (module RingBuffer),        *)
(* lru_cache_t<Key, Data> (LRUCache), counting_bloom_filter<uint8_t>     *)
(* (CountingBloom) and timeout_bloom_filter (TimeoutBloom), and the      *)
(* working set estimator wss_estimator (WSSEstimator), the reader/writer *)
(* synchronizer_t (Synchronizer), the scoped lock objects (Locker) and   *)
(* the ipv6 address operations of the LC-trie (LCTrieIPv6), an LC-trie  *)
(* built from prefixes of mixed lengths (LCTrie), the alias tables of     *)
(* rng_discrete_t (RngDiscrete) and config_file_parser (ConfigParser).    *)
(* None uses another: each                                               *)
(* behaviour exercises the one object chosen at the start, while the     *)
(* others stay as constructed, so the run's states are those of the     *)
(* objects side by side, not their product.  The bloom filters share the *)
(* sizing and the hash (module GenericBloom); BloomSizing constructs      *)
(* filters of every table rate.                                          *)
(***************************************************************************)
EXTENDS Naturals, FiniteSets

CONSTANTS Size, ElemSize, Values, MaxN,   \* of the ring buffer
          Keys, Sizes, Limits, Width,     \* of the LRU cache
          BKeys, NumElements, FPRate,     \* of the bloom filters
          CounterMax, MaxCopies, MaxTime, Timeouts,
          Readers, Preset, Writer,        \* of the synchronizer
          LThreads, NoThread,             \* of the lock objects
          NumIntervals, PerInterval, AdaptivePcts, \* of the wss estimator
          H,                              \* of the ipv6 operations
          W, FillNum, FillDen, RootBranch, Capacity, Rebuild, \* of the LC-trie
          Inputs, FileInputs, Requested,
          LoadFaults, SaveFaults, OpenFailed, NoStats, NoFile,
          R,                              \* of rng_discrete_t: the largest mt_rand()
          Parent, Sub, Labels, MaxDepth, MaxContent, MaxParses, MaxCallbacks
                                          \* of config_file_parser

VARIABLES mem, start, end, count, oob, ret,
          lru_list, key_hash, max_size, cur_size,
          cstore, live, stray,
          tstore, now, stamp,
          requested, sizing,
          num_threads, do_wait, initialized, bcount, spc,
          lpc, mholder, wholder, rholders, intact,
          filters, cur_set_size, last_discarded_size, adaptive,
          op, result,
          trie, base, cached_stats, disk, ltret,
          K, F, A, pmf, out,
          groups, group_stack, strstack, cpc, opened, pending, own, lastexit,
          parses, parsed,
          object    \* the container this behaviour calls

RB == INSTANCE RingBuffer
LRU == INSTANCE LRUCache

\* murmur_hash stood in for by a small mixing function of key and seed
MCHash(key, seed) == (key * 7 + seed * 3 + 1) % 16

CB == INSTANCE CountingBloom WITH Hash <- MCHash
TB == INSTANCE TimeoutBloom WITH Hash <- MCHash
BS == INSTANCE BloomSizing WITH Hash <- MCHash
SY == INSTANCE Synchronizer
LK == INSTANCE Locker
\* the estimator's keys are the bloom filters' keys, each of as many bytes
\* as its value
WBytes(key) == key
WS == INSTANCE WSSEstimator WITH WKeys <- BKeys, Bytes <- WBytes, Hash <- MCHash,
                                WFPRate <- FPRate
V6 == INSTANCE LCTrieIPv6

\* the build() inputs of the LC-trie: every non-empty set of up to
\* Capacity + 1 non-overlapping canonical prefixes of lengths 1..W (the
\* LC-trie's TLC evaluates them at every build() step, so they are built
\* by recursion over the prefix tree rather than filtered from SUBSET);
\* no file is on disk before the first save()
LA == INSTANCE LCTrieAlgo
Halve(e) == {[str |-> e.str, len |-> e.len + 1],
             [str |-> e.str + 2^(W - e.len - 1), len |-> e.len + 1]}
RECURSIVE Antichains(_)
\* the sets of non-overlapping prefixes within the prefix e, e included
Antichains(e) ==
    IF e.len = W THEN {{}, {e}}
    ELSE {{e}} \cup LET h == Halve(e)
                        l == CHOOSE c \in h : c.str = e.str
                        r == CHOOSE c \in h : c.str # e.str
                    IN {x \cup y : x \in Antichains(l), y \in Antichains(r)}
MCInputs ==
    {S \in Antichains([str |-> 0, len |-> 0]) \ {{[str |-> 0, len |-> 0]}} :
        S # {} /\ Cardinality(S) <= Capacity + 1}
MCFileInputs == {}
MCRequested == {LA!CoveredAddrs(S) : S \in MCInputs}
LT == INSTANCE LCTrie WITH ret <- ltret

\* every pmf of one to three outcomes of weights 0..2, not all 0
RD0 == INSTANCE RngDiscrete WITH PMFs <- {}
RDPMFs == UNION {{p \in [RD0!Slots(n) -> 0 .. 2] : RD0!WeightSum(p) > 0} : n \in 1 .. 3}
RD == INSTANCE RngDiscrete WITH PMFs <- RDPMFs
CP == INSTANCE ConfigParser

rbvars == <<mem, start, end, count, oob, ret>>
lruvars == <<lru_list, key_hash, max_size, cur_size>>
cbvars == <<cstore, live, stray>>
tbvars == <<tstore, now, stamp>>
bsvars == <<requested, sizing>>
syvars == <<num_threads, do_wait, initialized, bcount, spc>>
lkvars == <<lpc, mholder, wholder, rholders, intact>>
wsvars == <<filters, cur_set_size, last_discarded_size, adaptive>>
v6vars == <<op, result>>
ltvars == <<trie, base, cached_stats, disk, ltret>>
rdvars == <<K, F, A, pmf, out>>
cpvars == <<groups, group_stack, strstack, cpc, opened, pending, own, lastexit,
            parses, parsed>>
vars == <<rbvars, lruvars, cbvars, tbvars, bsvars, syvars, lkvars, wsvars, v6vars,
          ltvars, rdvars, cpvars, object>>

Objects == {"ring_buffer", "lru_cache", "counting_bloom", "timeout_bloom",
            "bloom_sizing", "synchronizer", "locker", "wss_estimator", "ipv6",
            "lc_trie", "rng_discrete", "config_parser"}

Init ==
    /\ object \in Objects
    /\ RB!Init /\ LRU!Init /\ CB!Init /\ TB!Init /\ BS!Init /\ SY!Init /\ LK!Init /\ WS!Init
    /\ V6!Init /\ LT!Init /\ RD!Init /\ CP!Init
    \* an object a behaviour does not exercise is constructed one way only
    /\ object # "ring_buffer" => mem = CHOOSE m \in [RB!Slots -> Values] : TRUE
    /\ object # "lru_cache" => max_size = CHOOSE l \in Limits : TRUE
    /\ object # "wss_estimator" => adaptive = CHOOSE a \in AdaptivePcts : TRUE
    /\ object # "lc_trie" => disk = NoFile

Next ==
    \/ /\ object = "ring_buffer" /\ RB!Next
       /\ UNCHANGED <<lruvars, cbvars, tbvars, bsvars, syvars, lkvars,
                      wsvars, v6vars, ltvars, rdvars, cpvars, object>>
    \/ /\ object = "lru_cache" /\ LRU!Next
       /\ UNCHANGED <<rbvars, cbvars, tbvars, bsvars, syvars, lkvars,
                      wsvars, v6vars, ltvars, rdvars, cpvars, object>>
    \/ /\ object = "counting_bloom" /\ CB!Next
       /\ UNCHANGED <<rbvars, lruvars, tbvars, bsvars, syvars, lkvars,
                      wsvars, v6vars, ltvars, rdvars, cpvars, object>>
    \/ /\ object = "timeout_bloom" /\ TB!Next
       /\ UNCHANGED <<rbvars, lruvars, cbvars, bsvars, syvars, lkvars,
                      wsvars, v6vars, ltvars, rdvars, cpvars, object>>
    \/ /\ object = "bloom_sizing" /\ BS!Next
       /\ UNCHANGED <<rbvars, lruvars, cbvars, tbvars, syvars, lkvars,
                      wsvars, v6vars, ltvars, rdvars, cpvars, object>>
    \/ /\ object = "synchronizer" /\ SY!Next
       /\ UNCHANGED <<rbvars, lruvars, cbvars, tbvars, bsvars, lkvars,
                      wsvars, v6vars, ltvars, rdvars, cpvars, object>>
    \/ /\ object = "locker" /\ LK!Next
       /\ UNCHANGED <<rbvars, lruvars, cbvars, tbvars, bsvars, syvars,
                      wsvars, v6vars, ltvars, rdvars, cpvars, object>>
    \/ /\ object = "wss_estimator" /\ WS!Next
       /\ UNCHANGED <<rbvars, lruvars, cbvars, tbvars, bsvars, syvars,
                      lkvars, v6vars, ltvars, rdvars, cpvars, object>>
    \/ /\ object = "ipv6" /\ V6!Next
       /\ UNCHANGED <<rbvars, lruvars, cbvars, tbvars, bsvars, syvars,
                      lkvars, wsvars, ltvars, rdvars, cpvars, object>>
    \/ /\ object = "lc_trie" /\ LT!Next
       /\ UNCHANGED <<rbvars, lruvars, cbvars, tbvars, bsvars, syvars,
                      lkvars, wsvars, v6vars, rdvars, cpvars, object>>
    \/ /\ object = "rng_discrete" /\ RD!Next
       /\ UNCHANGED <<rbvars, lruvars, cbvars, tbvars, bsvars, syvars,
                      lkvars, wsvars, v6vars, ltvars, cpvars, object>>
    \/ /\ object = "config_parser" /\ CP!Next
       /\ UNCHANGED <<rbvars, lruvars, cbvars, tbvars, bsvars, syvars,
                      lkvars, wsvars, v6vars, ltvars, rdvars, object>>

\* SY!Fairness, each step guarded by the object: unguarded, the readers
\* the constructor counts, which can step from the start, would demand
\* steps in the other objects' behaviours that Next never takes.
SYFairness ==
    /\ WF_syvars(object = "synchronizer" /\ SY!ReleaseSync)
    /\ \A r \in Readers : /\ WF_syvars(object = "synchronizer" /\ SY!WaitForUpdates(r))
                          /\ WF_syvars(object = "synchronizer" /\ SY!WaitEnd(r))
                          /\ WF_syvars(object = "synchronizer" /\ SY!Work(r))

Spec == Init /\ [][Next]_vars /\ SYFairness

\* After a stray remove() the counters no longer follow the live keys and
\* can be walked through 0..255 by further false-positive removes; the
\* search stops there (the state itself is checked).
CountingBounded == ~stray

\* the properties of the modules, stated there.  A state invariant is
\* checked in the behaviours of its own object: in the others that object
\* stays in the initial states those behaviours start from.
RBTypeOK == object = "ring_buffer" => RB!RBTypeOK
InBounds == object = "ring_buffer" => RB!InBounds
FifoRefinement == RB!FifoRefinement
SizeAccounting == object = "lru_cache" => LRU!SizeAccounting
NewInsertWithinLimit == LRU!NewInsertWithinLimit
SizingMeetsRate == object = "bloom_sizing" => BS!SizingMeetsRate
CountersMatchMembers == object = "counting_bloom" => CB!CountersMatchMembers
TimeoutNoFalseNegatives == object = "timeout_bloom" => TB!TimeoutNoFalseNegatives
StartBarrierReleases == SY!StartBarrierReleases
SyncRoundCompletes == SY!SyncRoundCompletes
HoldersSeeNoForeignWrite == object = "locker" => LK!HoldersSeeNoForeignWrite
SizeUnderestimates == object = "wss_estimator" => WS!SizeUnderestimates
IPv6OpsMatchReference == object = "ipv6" => V6!IPv6OpsMatchReference
SearchSafe == object = "lc_trie" => LT!SearchSafe
AliasTablesMatchPMF == object = "rng_discrete" => RD!AliasTablesMatchPMF
SampleHasMass == object = "rng_discrete" => RD!SampleHasMass
ExitGetsOwnGroup == object = "config_parser" => CP!ExitGetsOwnGroup

=============================================================================
