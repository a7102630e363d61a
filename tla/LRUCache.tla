------------------------------- MODULE LRUCache -------------------------------
(***************************************************************************)
(* lru_cache_t<Key, Data> of src/krb/lru_cache.hpp.  lru_list is the       *)
(* std::list of items, most recently used first; an item keeps its key and *)
(* size (its Data is left out: no operation's control reads it).  key_hash *)
(* maps keys to list iterators, and is modelled by the set of keys it maps,*)
(* each to the list item with that key.  cur_size is a uint32_t: its      *)
(* arithmetic is modulo 2^Width.  The hit and miss counters are statistics *)
(* no operation reads, and are left out.  The cache is not thread safe:    *)
(* one caller, one call per step.                                          *)
(***************************************************************************)
EXTENDS Naturals, Sequences, SequencesExt

CONSTANTS
    Keys,       \* the keys callers use
    Sizes,      \* the sz arguments of insert()
    Limits,     \* the size_limit arguments of the constructor and resize()
    Width       \* bits of cur_size (uint32_t: 32)

VARIABLES
    lru_list,   \* <<[key, size], ...>>, front = most recently used
    key_hash,   \* the keys key_hash maps
    max_size,
    cur_size

lruvars == <<lru_list, key_hash, max_size, cur_size>>

Item == [key : Keys, size : Sizes]

ListKeys(l) == {l[i].key : i \in DOMAIN l}

SumSizes(l) == FoldSeq(LAMBDA it, acc : it.size + acc, 0, l)

\* uint32_t arithmetic
U(x) == x % 2^Width

\* access(li): splice the item with key k to the front
access(l, k) ==
    LET i == CHOOSE j \in DOMAIN l : l[j].key = k
    IN  <<l[i]>> \o RemoveAt(l, i)

\* mutant: at most one item discarded (an if where the code has a while)
EvictOnce(l, h, cur, max) ==
    IF cur <= max \/ l = <<>> THEN [list |-> l, hash |-> h, cur |-> cur]
    ELSE [list |-> Front(l), hash |-> h \ {Last(l).key}, cur |-> U(cur - Last(l).size)]

\* the discard loop of insert(): while cur_size > max_size, erase the back
\* of the list and its key.  (An empty list with cur_size > max_size would
\* decrement end(); it needs cur_size to disagree with the items, which
\* SizeAccounting excludes.)
RECURSIVE Evict(_, _, _, _)
Evict(l, h, cur, max) ==
    IF cur <= max \/ l = <<>> THEN [list |-> l, hash |-> h, cur |-> cur]
    ELSE Evict(Front(l), h \ {Last(l).key}, U(cur - Last(l).size), max)

-----------------------------------------------------------------------------

\* lru_cache_t(size_limit)
Init ==
    /\ lru_list = <<>> /\ key_hash = {}
    /\ max_size \in Limits /\ cur_size = 0

\* lookup(k): a hit moves the item to the MRU spot; a miss changes nothing
\* the model keeps
lookup(k) ==
    /\ k \in key_hash
    /\ lru_list' = access(lru_list, k)
    /\ UNCHANGED <<key_hash, max_size, cur_size>>

\* mutant: the replaced item's old size not taken off cur_size
InsertExistingNoSub(k, sz) ==
    /\ lru_list' = <<[key |-> k, size |-> sz]>> \o Tail(access(lru_list, k))
    /\ cur_size' = U(cur_size + sz)
    /\ UNCHANGED <<key_hash, max_size>>

\* insert(k, value, sz) for a cached key: move it to the MRU spot, replace
\* its value and size, and adjust cur_size; nothing is discarded
InsertExisting(k, sz) ==
    LET old == lru_list[CHOOSE j \in DOMAIN lru_list : lru_list[j].key = k]
    IN  /\ lru_list' = <<[key |-> k, size |-> sz]>> \o Tail(access(lru_list, k))
        /\ cur_size' = U(cur_size - old.size + sz)
        /\ UNCHANGED <<key_hash, max_size>>

\* insert(k, value, sz) for a new key: push it to the front, add its size,
\* map it, then discard from the back until cur_size <= max_size (which
\* may discard the new item itself)
InsertNew(k, sz) ==
    LET e == Evict(<<[key |-> k, size |-> sz]>> \o lru_list, key_hash \cup {k},
                   U(cur_size + sz), max_size)
    IN  /\ lru_list' = e.list
        /\ key_hash' = e.hash
        /\ cur_size' = e.cur
        /\ UNCHANGED max_size

insert(k, sz) ==
    IF k \in key_hash THEN InsertExisting(k, sz) ELSE InsertNew(k, sz)

\* purge(k): erase a cached key and take its size off cur_size
purge(k) ==
    /\ k \in key_hash
    /\ LET i == CHOOSE j \in DOMAIN lru_list : lru_list[j].key = k
       IN  /\ cur_size' = U(cur_size - lru_list[i].size)
           /\ lru_list' = RemoveAt(lru_list, i)
    /\ key_hash' = key_hash \ {k}
    /\ UNCHANGED max_size

\* clear()
clear ==
    /\ lru_list' = <<>> /\ key_hash' = {} /\ cur_size' = 0
    /\ UNCHANGED max_size

\* resize(size_limit): only the limit changes
resize(limit) ==
    /\ max_size' = limit
    /\ UNCHANGED <<lru_list, key_hash, cur_size>>

Next ==
    \/ \E k \in Keys : lookup(k) \/ purge(k) \/ \E sz \in Sizes : insert(k, sz)
    \/ clear
    \/ \E limit \in Limits : resize(limit)

Spec == Init /\ [][Next]_lruvars

-----------------------------------------------------------------------------
(* Properties                                                              *)

\* key_hash maps exactly the keys on the list, each key is on the list
\* once, and cur_size is the sum of the item sizes (modulo 2^32), through
\* replacement of a cached key with a new size, purges, and the discard
\* loop of insert.
SizeAccounting ==
    /\ key_hash = ListKeys(lru_list)
    /\ IsInjective([i \in DOMAIN lru_list |-> lru_list[i].key])
    /\ cur_size = U(SumSizes(lru_list))

\* An insert of a new key leaves the cached items within the size limit
\* (the discard loop runs until they fit).  The other paths do not: an
\* insert of a cached key with a larger size and a resize() to a smaller
\* limit discard nothing.
NewInsertWithinLimit ==
    [][\A k \in Keys, sz \in Sizes :
          k \notin key_hash /\ InsertNew(k, sz) => SumSizes(lru_list') <= max_size]_lruvars

=============================================================================
