---------------------------- MODULE GenericBloom ----------------------------
(***************************************************************************)
(* generic_bloom_filter<BackingStore, Hasher> of                          *)
(* src/krb/generic_bloom_filter.hpp: the parts every backing store        *)
(* shares.  compute_k_and_b picks B (buckets per element) and K (hash     *)
(* functions) from the table of false-positive rates; the doubles of the  *)
(* table and of the requested rate are kept as integers scaled by 10^8,   *)
(* which every entry of the table is exactly.  The K buckets of a key are *)
(* the chain seed := Hash(key, seed), from seed 0, each taken modulo the  *)
(* number of buckets (get_next_bucket).  The murmur hash is a constant    *)
(* operator Hash; the key's byte size is part of the key.                 *)
(***************************************************************************)
EXTENDS Integers, Sequences

CONSTANTS
    BKeys,          \* the keys callers add and query
    Hash(_, _),     \* hash_func(key, sz, seed): the next seed
    NumElements,    \* the constructor's num_elements
    FPRate          \* the constructor's false_positive_rate, scaled by 10^8

max_B == 33
max_K == 8

\* optimal_k_per_bucket[max_B]
optimal_k_per_bucket ==
    <<1, 1, 1, 2, 3, 3, 4, 5, 5, 6, 7, 8, 8, 8, 8, 8, 8,
      8, 8, 8, 8, 8, 8, 8, 8, 8, 8, 8, 8, 8, 8, 8, 8>>

\* false_positive_rates[max_B][max_K+1], rows as written (the entries a
\* row leaves out are zero-initialised)
false_positive_rates == <<
    <<100000000>>,
    <<100000000, 100000000>>,
    <<100000000, 39300000, 40000000>>,
    <<100000000, 28300000, 23700000, 25300000>>,
    <<100000000, 22100000, 15500000, 14700000, 16000000>>,
    <<100000000, 18100000, 10900000, 9200000, 9200000, 10100000>>,
    <<100000000, 15400000, 8040000, 6090000, 5610000, 5780000, 6380000>>,
    <<100000000, 13300000, 6180000, 4230000, 3590000, 3470000, 3640000>>,
    <<100000000, 11800000, 4890000, 3060000, 2400000, 2170000, 2160000, 2290000>>,
    <<100000000, 10500000, 3970000, 2280000, 1660000, 1410000, 1330000, 1350000, 1450000>>,
    <<100000000, 9520000, 3290000, 1740000, 1180000, 943000, 844000, 819000, 846000>>,
    <<100000000, 8690000, 2760000, 1360000, 864000, 650000, 552000, 513000, 509000>>,
    <<100000000, 8000000, 2360000, 1080000, 646000, 459000, 371000, 329000, 314000>>,
    <<100000000, 7400000, 2030000, 875000, 492000, 332000, 255000, 217000, 199000>>,
    <<100000000, 6890000, 1770000, 718000, 381000, 244000, 179000, 146000, 129000>>,
    <<100000000, 6450000, 1560000, 596000, 300000, 183000, 128000, 100000, 85200>>,
    <<100000000, 6060000, 1380000, 500000, 239000, 139000, 93500, 70200, 57400>>,
    <<100000000, 5710000, 1230000, 423000, 193000, 107000, 69200, 49900, 39400>>,
    <<100000000, 5400000, 1110000, 362000, 158000, 83900, 51900, 36000, 27500>>,
    <<100000000, 5130000, 998000, 312000, 130000, 66300, 39400, 26400, 19400>>,
    <<100000000, 4880000, 906000, 270000, 108000, 53000, 30300, 19600, 14000>>,
    <<100000000, 4650000, 825000, 236000, 90500, 42700, 23600, 14700, 10100>>,
    <<100000000, 4440000, 755000, 207000, 76400, 34700, 18500, 11200, 7460>>,
    <<100000000, 4250000, 694000, 183000, 64900, 28500, 14700, 8560, 5550>>,
    <<100000000, 4080000, 639000, 162000, 55500, 23500, 11700, 6630, 4170>>,
    <<100000000, 3920000, 591000, 145000, 47800, 19600, 9440, 5180, 3160>>,
    <<100000000, 3770000, 548000, 129000, 41300, 16400, 7660, 4080, 2420>>,
    <<100000000, 3640000, 510000, 116000, 35900, 13800, 6260, 3240, 1870>>,
    <<100000000, 3510000, 475000, 105000, 31400, 11700, 5150, 2590, 1460>>,
    <<100000000, 3390000, 444000, 94900, 27600, 9960, 4260, 2090, 1140>>,
    <<100000000, 3280000, 416000, 86200, 24300, 8530, 3550, 1690, 901>>,
    <<100000000, 3170000, 390000, 78500, 21500, 7330, 2970, 1380, 716>>,
    <<100000000, 3080000, 367000, 71700, 19100, 6330, 2500, 1130, 573>>
    >>

OptK(b) == optimal_k_per_bucket[b + 1]

Rate(b, k) == IF k < Len(false_positive_rates[b + 1])
              THEN false_positive_rates[b + 1][k + 1] ELSE 0

\* while(false_positive_rates[B][K] > max_fp_rate) { ++B; K = optimal_k_per_bucket[B]; }
RECURSIVE GrowB(_, _)
GrowB(fp, b) == IF Rate(b, OptK(b)) > fp THEN GrowB(fp, b + 1) ELSE b

\* mutant: the reduction tests K itself instead of K-1
RECURSIVE ShrinkKLate(_, _, _)
ShrinkKLate(fp, b, k) == IF Rate(b, k) <= fp /\ k > 1 THEN ShrinkKLate(fp, b, k - 1) ELSE k

\* while(false_positive_rates[B][K-1] <= max_fp_rate) --K;
RECURSIVE ShrinkK(_, _, _)
ShrinkK(fp, b, k) == IF Rate(b, k - 1) <= fp THEN ShrinkK(fp, b, k - 1) ELSE k

\* compute_k_and_b(max_fp_rate): the B and K the constructor sets
compute_k_and_b(fp) ==
    CASE fp >= Rate(2, OptK(2))          -> [B |-> 2, K |-> OptK(2)]
      [] fp < Rate(max_B - 1, max_K)     -> [B |-> max_B, K |-> max_K]
      [] OTHER -> LET b == GrowB(fp, 2) IN [B |-> b, K |-> ShrinkK(fp, b, OptK(b))]

B == compute_k_and_b(FPRate).B
K == compute_k_and_b(FPRate).K

\* store.resize(num_elements * B)
NBuckets == NumElements * B

Bucket == 0 .. NBuckets - 1

\* get_next_bucket(key, sz, seed), K times from seed 0: the seeds
RECURSIVE SeedChain(_, _, _)
SeedChain(key, seed, n) ==
    IF n = 0 THEN <<>>
    ELSE LET s == Hash(key, seed) IN <<s>> \o SeedChain(key, s, n - 1)

\* the buckets add(), query() and remove() visit for key, in order
Buckets(key) == [i \in 1 .. K |-> SeedChain(key, 0, K)[i] % NBuckets]

=============================================================================
