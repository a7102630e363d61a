----------------------------- MODULE ResourcePool -----------------------------
(***************************************************************************)
(* resource_pool<Resource, Policy> of src/krb/resource_pool.hpp.  The      *)
(* pool is the std::list of every allocated resource, in allocation order; *)
(* open is the std::list of pointers to the free ones (fetch takes from    *)
(* its back, release appends to it).  Resources are identified by small   *)
(* numbers; a number freed by the shrink loop may be reused for a later   *)
(* allocation, as the allocator may reuse an address.  held is the set of *)
(* resources callers have fetched and not yet released.  All calls take   *)
(* the pool's mutex for their whole body, so each is one atomic step.     *)
(***************************************************************************)
EXTENDS Naturals, Sequences, SequencesExt, FiniteSets

CONSTANTS
    WmLow,        \* low_watermark
    WmHigh,       \* high_watermark
    Policy,       \* "basic", "never_shrink", "fixed_growth" or "fixed_size"
    GrowthSize,   \* fixed_growth_policy's template argument
    Null,         \* model value: fetch() returned NULL
    Undefined     \* model value: fetch() read the back of an empty list

ASSUME /\ WmLow \in Nat /\ WmHigh \in Nat /\ WmLow <= WmHigh
       /\ Policy \in {"basic", "never_shrink", "fixed_growth", "fixed_size"}
       /\ GrowthSize \in Nat

\* the identities a resource can have (the pool never exceeds WmHigh)
Resources == 1 .. WmHigh

VARIABLES pool, open, held, ret

rpvars == <<pool, open, held, ret>>

-----------------------------------------------------------------------------
(* Sizing policies.  The doubles 0.66 and 0.33 are exact enough for the    *)
(* pool sizes a run reaches (below 50) to compare as 66/100 and 33/100.    *)

\* basic_pool_policy::grow: grow by half the current size
BasicGrow(cur) == cur \div 2

\* basic_pool_policy::shrink: once more than 66% is free, remove enough to
\* keep about 33% free
BasicShrink(cur, free) ==
    IF 100 * free <= 66 * cur THEN 0 ELSE free - (33 * cur) \div 100

Grow(cur) ==
    CASE Policy \in {"basic", "never_shrink"} -> BasicGrow(cur)
      [] Policy = "fixed_growth"              -> GrowthSize
      [] Policy = "fixed_size"                -> 0

Shrink(cur, free) ==
    IF Policy \in {"basic", "fixed_growth"} THEN BasicShrink(cur, free) ELSE 0

-----------------------------------------------------------------------------

\* the number of resources fetch() allocates when the free list is empty:
\* the low watermark for an empty pool, else the policy's growth capped at
\* the high watermark and at least one
GrowBy(pl) ==
    IF pl = <<>> THEN WmLow
    ELSE Max({Min({Grow(Len(pl)), WmHigh - Len(pl)}), 1})

\* `resource_list add(n)`: n newly constructed resources
Fresh(pl, n) == SubSeq(SetToSortSeq(Resources \ ToSet(pl), <), 1, n)

\* mutant: every inspected entry erased, free or not
RECURSIVE ShrinkLoopNoCheck(_, _, _, _)
ShrinkLoopNoCheck(pl, op, i, remove) ==
    IF i > Len(pl) \/ remove = 0 THEN [pool |-> pl, open |-> op]
    ELSE ShrinkLoopNoCheck(RemoveAt(pl, i), RemoveFirst(op, pl[i]), i, remove - 1)

\* the removal loop of release(): walk the pool from its front while
\* remove > 0, decrementing remove at every entry inspected; an entry found
\* on the free list is erased from both lists
RECURSIVE ShrinkLoop(_, _, _, _)
ShrinkLoop(pl, op, i, remove) ==
    IF i > Len(pl) \/ remove = 0 THEN [pool |-> pl, open |-> op]
    ELSE IF pl[i] \in ToSet(op)
         THEN ShrinkLoop(RemoveAt(pl, i), RemoveFirst(op, pl[i]), i, remove - 1)
         ELSE ShrinkLoop(pl, op, i + 1, remove - 1)

\* mutant: the policy's answer not cut at the low watermark
RemovalNoClamp(pl, op) ==
    LET ask == Shrink(Len(pl), Len(op))
    IN  IF Len(pl) <= WmLow \/ ask = 0 THEN 0 ELSE ask

\* how many resources release() asks the loop to remove: the policy's
\* answer when the pool is above its low watermark, cut so that the pool
\* does not drop below it
Removal(pl, op) ==
    LET ask == Shrink(Len(pl), Len(op))
    IN  IF Len(pl) <= WmLow \/ ask = 0 THEN 0
        ELSE IF Len(pl) - ask < WmLow THEN Len(pl) - WmLow ELSE ask

-----------------------------------------------------------------------------

RPInit ==
    /\ pool = <<>>
    /\ open = <<>>
    /\ held = {}
    /\ ret = [op |-> "none", res |-> Null]

\* mutant: NULL at the high watermark even with resources free
AtHighWatermarkAnyFree(pl, op) == Len(pl) >= WmHigh

\* fetch()'s early return: nothing free and the high watermark reached
AtHighWatermark(pl, op) == op = <<>> /\ Len(pl) >= WmHigh

\* after fetch() has read the back of an empty list nothing is defined
Defined == ret.res # Undefined

\* the body of fetch() on the lists: NULL at the high watermark with
\* nothing free; otherwise grow if nothing is free, then pop the back of
\* the free list (Undefined when it is still empty)
FetchStep(pl, op) ==
    IF AtHighWatermark(pl, op)
    THEN [pool |-> pl, open |-> op, res |-> Null]
    ELSE LET add == IF op = <<>> THEN Fresh(pl, GrowBy(pl)) ELSE <<>>
             o   == op \o add
         IN  IF o = <<>>
             THEN [pool |-> pl \o add, open |-> o, res |-> Undefined]
             ELSE [pool |-> pl \o add, open |-> Front(o), res |-> Last(o)]

\* the body of release(r) on the lists: append r to the free list, then
\* run the shrink loop for the policy's clamped answer
ReleaseStep(pl, op, r) ==
    LET o == Append(op, r)
    IN  ShrinkLoop(pl, o, 1, Removal(pl, o))

\* fetch(), called by a caller that then holds the resource it returns
Fetch ==
    /\ Defined
    /\ LET f == FetchStep(pool, open)
       IN  /\ pool' = f.pool
           /\ open' = f.open
           /\ held' = IF f.res \in Resources THEN held \cup {f.res} ELSE held
           /\ ret' = [op |-> "fetch", res |-> f.res]

\* release(r), called by the caller holding r
Release(r) ==
    /\ Defined
    /\ r \in held
    /\ LET after == ReleaseStep(pool, open, r)
       IN  /\ pool' = after.pool
           /\ open' = after.open
    /\ held' = held \ {r}
    /\ ret' = [op |-> "release", res |-> r]

RPNext == Fetch \/ \E r \in Resources : Release(r)

RPSpec == RPInit /\ [][RPNext]_rpvars

-----------------------------------------------------------------------------
(* Properties                                                              *)

\* Every allocated resource is either free (once on the free list) or held
\* by exactly one caller, and nothing else is on either list: fetch() never
\* hands out a resource twice, and the shrink loop of release() frees only
\* resources on the free list, never one a caller holds.
Conservation ==
    /\ IsInjective(pool) /\ IsInjective(open)
    /\ ToSet(open) \cap held = {}
    /\ ToSet(pool) = ToSet(open) \cup held

\* fetch() never reads the back of an empty free list (with a low
\* watermark of 0 an empty pool grows by nothing).
FetchDefined == Defined

=============================================================================
