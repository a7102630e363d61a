----------------------------- MODULE RngDiscrete ------------------------------
(***************************************************************************)
(* rng_discrete_t of src/src/rng_discrete.cpp: Walker's alias method.     *)
(* The constructor splits the normalised PMF E into the stacks small and  *)
(* big, pairs each small entry with a big one (A, F), and rescales F to   *)
(* (k + F[k]) / K; sample() draws u = mt_rand() / (2^32 - 1) and returns *)
(* its slot c = (uint32_t)(u * K) or the slot's alias.                    *)
(*                                                                         *)
(* The PMF is given as integer weights with sum S.  The doubles are kept  *)
(* exactly, as numerators: E[k] over K * S (so mean = 1/K is S), F[k]     *)
(* over S during the pairing and over K * S once rescaled.  The model     *)
(* therefore follows the algorithm in exact arithmetic; rounding of the   *)
(* doubles is not modelled.  mt_rand() has the range 0 .. R.              *)
(***************************************************************************)
EXTENDS Integers, Sequences, SequencesExt

CONSTANTS
    PMFs,       \* the pmf vectors the constructor is called with
    R           \* the largest value of mt_rand()

VARIABLES
    K,          \* pmf.size()
    F,          \* F[k] as a numerator (see above)
    A,          \* the alias of each slot
    pmf,        \* the constructor's argument (history: the code keeps only F and A)
    out         \* the result of the last call

rdvars == <<K, F, A, pmf, out>>

Slots(n) == 0 .. n - 1

WeightSum(p) == FoldFunction(+, 0, p)

\* before the constructor has run: the object does not exist yet
Unconstructed == <<>>

-----------------------------------------------------------------------------
(* The constructor's loops, on a record of E, F, A and the two stacks     *)
(* (sequences, top last); mean is S                                       *)

\* the split: entries below the mean go on small, the others on big
Split(E, S, n) ==
    [small |-> SelectSeq([k \in 1 .. n |-> k - 1], LAMBDA k : E[k] < S),
     big   |-> SelectSeq([k \in 1 .. n |-> k - 1], LAMBDA k : E[k] >= S)]

\* mutant: the big entry keeps its whole mass after lending d to s
RECURSIVE PairNoDecrement(_, _)
PairNoDecrement(st, S) ==
    IF st.small = <<>> THEN st
    ELSE LET s == Last(st.small) IN
      IF st.big = <<>>
      THEN PairNoDecrement([st EXCEPT !.small = Front(@), !.A[s] = s, !.F[s] = S], S)
      ELSE LET b == Last(st.big)
               t == [st EXCEPT !.small = Front(@), !.big = Front(@),
                               !.A[s] = b, !.F[s] = st.E[s], !.E[s] = S]
           IN PairNoDecrement(
                IF t.E[b] < S THEN [t EXCEPT !.small = Append(@, b)]
                ELSE IF t.E[b] > S THEN [t EXCEPT !.big = Append(@, b)]
                ELSE [t EXCEPT !.A[b] = b, !.F[b] = S], S)

\* while(!small.empty()): a small entry with no big left is its own alias
\* with F = 1; otherwise it borrows d = mean - E[s] from the top big
\* entry, which goes back on small, back on big, or is done
RECURSIVE Pair(_, _)
Pair(st, S) ==
    IF st.small = <<>> THEN st
    ELSE LET s == Last(st.small) IN
      IF st.big = <<>>
      THEN Pair([st EXCEPT !.small = Front(@), !.A[s] = s, !.F[s] = S], S)
      ELSE LET b == Last(st.big)
               d == S - st.E[s]
               t == [st EXCEPT !.small = Front(@), !.big = Front(@),
                               !.A[s] = b, !.F[s] = st.E[s], !.E[s] = S,
                               !.E[b] = @ - d]
           IN Pair(
                IF t.E[b] < S THEN [t EXCEPT !.small = Append(@, b)]
                ELSE IF t.E[b] > S THEN [t EXCEPT !.big = Append(@, b)]
                ELSE [t EXCEPT !.A[b] = b, !.F[b] = S], S)

\* while(!big.empty()): every big entry left is its own alias
Drain(st, S) ==
    [st EXCEPT !.A = [k \in DOMAIN @ |-> IF k \in Range(st.big) THEN k ELSE @[k]],
               !.F = [k \in DOMAIN @ |-> IF k \in Range(st.big) THEN S ELSE @[k]]]

\* rng_discrete_t(pmf)
Construct(p) ==
    LET n == Cardinality(DOMAIN p)
        S == WeightSum(p)
        E == [k \in Slots(n) |-> p[k] * n]
        st == Drain(Pair([E |-> E, F |-> [k \in Slots(n) |-> 0],
                          A |-> [k \in Slots(n) |-> 0]] @@ Split(E, S, n), S), S)
    IN /\ pmf = Unconstructed
       /\ pmf' = p
       /\ K' = n
       /\ IF n = 1
            THEN F' = [k \in Slots(n) |-> 0] /\ A' = [k \in Slots(n) |-> 0]
            ELSE /\ F' = [k \in Slots(n) |-> k * S + st.F[k]]
                 /\ A' = st.A
       /\ out' = [kind |-> "constructed"]

-----------------------------------------------------------------------------

Init ==
    /\ K = 0 /\ F = <<>> /\ A = <<>>
    /\ pmf = Unconstructed
    /\ out = [kind |-> "none"]

\* the denominator of F once rescaled
Den == K * WeightSum(pmf)

\* mutant: u <= f instead of u < f
SampleLeq(r) ==
    LET c == (r * K) \div R IN
    /\ pmf # Unconstructed
    /\ out' = [kind |-> "sample", drawn |-> r,
               value |-> IF K = 1 THEN 0
                         ELSE IF F[c] = Den THEN c
                         ELSE IF r * Den <= F[c] * R THEN c
                         ELSE A[c]]
    /\ UNCHANGED <<K, F, A, pmf>>

\* sample() with mt_rand() = r: u = r / R, c = (uint32_t)(u * K),
\* f = F[c]; f == 1.0 or u < f gives c, otherwise A[c]
Sample(r) ==
    LET c == (r * K) \div R IN
    /\ pmf # Unconstructed
    /\ out' = [kind |-> "sample", drawn |-> r,
               value |-> IF K = 1 THEN 0
                         ELSE IF F[c] = Den THEN c
                         ELSE IF r * Den < F[c] * R THEN c
                         ELSE A[c]]
    /\ UNCHANGED <<K, F, A, pmf>>

\* probability_of(k), as a numerator over K * S: 0 for k > K, otherwise
\* the sum over the slots of f = K * F[i] - i where i = k and of 1 - f
\* where k is the slot's alias
ProbOf(k) ==
    IF k > K THEN 0
    ELSE LET S == WeightSum(pmf)
             f(i) == F[i] - i * S
         IN FoldFunction(+, 0, [i \in Slots(K) |->
                IF i = k THEN f(i) ELSE IF k = A[i] THEN S - f(i) ELSE 0])

ProbabilityOf(k) ==
    /\ pmf # Unconstructed
    /\ out' = [kind |-> "probability", asked |-> k, num |-> ProbOf(k)]
    /\ UNCHANGED <<K, F, A, pmf>>

Next ==
    \/ \E p \in PMFs : Construct(p)
    \/ \E r \in 0 .. R - 1 : Sample(r)
    \/ \E k \in 0 .. K + 1 : ProbabilityOf(k)

Spec == Init /\ [][Next]_rdvars

-----------------------------------------------------------------------------
(* Properties                                                              *)

\* The alias tables the constructor builds encode the PMF exactly: for
\* every outcome, the probability that sample() picks its slot and keeps
\* it, plus the probability that another slot aliases to it, is its
\* normalised weight, whatever order the stacks pair entries in and
\* however many times a big entry is drawn down (K >= 2; for K = 1 the
\* constructor returns before setting F).
AliasTablesMatchPMF ==
    pmf # Unconstructed /\ K >= 2 =>
        \A k \in Slots(K) : ProbOf(k) = K * pmf[k]

\* sample() never returns an outcome of weight 0, for any draw below
\* the maximum of mt_rand(): a zero-weight slot always yields its alias.
SampleHasMass ==
    out.kind = "sample" => out.value \in Slots(K) /\ pmf[out.value] > 0

=============================================================================
