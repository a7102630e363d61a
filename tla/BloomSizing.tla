----------------------------- MODULE BloomSizing -----------------------------
(***************************************************************************)
(* The constructor generic_bloom_filter(num_elements, false_positive_rate) *)
(* of src/krb/generic_bloom_filter.hpp, called with every rate of the     *)
(* table and the rate just below it, one filter at a time: requested is  *)
(* the rate of the filter that exists (scaled by 10^8; NoRate: none),    *)
(* sizing the B and K compute_k_and_b set for it.                         *)
(***************************************************************************)
EXTENDS GenericBloom

VARIABLES requested, sizing

bsvars == <<requested, sizing>>

FPInputs == UNION {{Rate(b, k), Rate(b, k) - 1} : b \in 0 .. max_B - 1, k \in 0 .. max_K}
              \cap 0 .. 100000000

NoRate == -1

Init ==
    /\ requested = NoRate
    /\ sizing = [B |-> 0, K |-> 0]

\* a filter constructed for the rate fp: compute_k_and_b(fp), then
\* store.resize(num_elements * B)
Construct(fp) ==
    /\ requested = NoRate
    /\ requested' = fp
    /\ sizing' = compute_k_and_b(fp)

\* the filter destroyed
Destroy ==
    /\ requested # NoRate
    /\ requested' = NoRate
    /\ sizing' = [B |-> 0, K |-> 0]

Next == \/ \E fp \in FPInputs : Construct(fp)
        \/ Destroy

Spec == Init /\ [][Next]_bsvars

-----------------------------------------------------------------------------
(* Properties                                                              *)

\* The B and K compute_k_and_b picks meet the requested false-positive
\* rate, and for that number of buckets with the fewest hash functions
\* that do; below the table's smallest rate it takes the largest sizing.
SizingMeetsRate ==
    requested # NoRate =>
        \/ sizing = [B |-> max_B, K |-> max_K]
        \/ /\ Rate(sizing.B, sizing.K) <= requested
           /\ \A k \in 1 .. sizing.K - 1 : Rate(sizing.B, k) > requested

=============================================================================
