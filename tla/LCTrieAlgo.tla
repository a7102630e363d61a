------------------------------ MODULE LCTrieAlgo ------------------------------
(***************************************************************************)
(* The pure algorithms of src/krb/lc_trie.hpp, for an address type of W   *)
(* bits (the code's ipv4 is W = 32): bit extraction, the LC-trie compiler  *)
(* (compute_branch and build_recursive), the search descent and the stats  *)
(* traversal, together with a reference definition of prefix membership   *)
(* against which the compiled trie is checked.                             *)
(*                                                                         *)
(* Indices into the base vector and the node array are 0-based as in the  *)
(* code; base is a TLA+ sequence, so entry i of the code is base[i+1].     *)
(* A node is a record of its three bit fields; the packing of lc_trie.hpp  *)
(* lines 112-117 is lossless while the fields fit their widths, which     *)
(* NodeFits states and the object module checks.                          *)
(***************************************************************************)
EXTENDS Naturals, Sequences, SequencesExt, Bitwise, TLC

CONSTANTS
    W,        \* address width in bits (adrsize)
    FillNum,  \* comp_fill_factor = FillNum / FillDen
    FillDen

ASSUME W \in Nat \ {0} /\ FillNum \in Nat \ {0} /\ FillDen \in Nat \ {0}

Addr == 0 .. 2^W - 1

\* base_t: the routing entry and its length in bits
Entry == [str : Addr, len : 0 .. W]

\* node_t fields: 5 bits of branch, 7 bits of skip, 20 bits of address
BranchBits == 5
SkipBits == 7
AdrBits == 20
Node == [branch : 0 .. 2^BranchBits - 1, skip : 0 .. 2^SkipBits - 1,
         adr : 0 .. 2^AdrBits - 1]

NodeFits(nd) ==
    nd.branch < 2^BranchBits /\ nd.skip < 2^SkipBits /\ nd.adr < 2^AdrBits

-----------------------------------------------------------------------------
(* Address operations (ipv4 EXTRACT and REMOVE).                           *)

\* str << p >> (W - n) in W-bit unsigned arithmetic; defined for p < W and
\* 1 <= n <= W, which are the only arguments the compiler and the descent
\* pass (the final check of search passes n = 0, see SearchOutcomes).
EXTRACT(p, n, s) == ((s * 2^p) % 2^W) \div 2^(W - n)

\* str << p >> p.  A shift by the full width (p = W) is undefined; x86
\* masks the count to 0 and returns str unchanged.
REMOVE(p, s) == IF p >= W THEN s ELSE ((s * 2^p) % 2^W) \div 2^p

\* entry i (0-based) of the base vector
Str(base, i) == base[i + 1].str

\* comparator_t::strcmp as a "less than": by address, then by length
EntryLess(a, b) == a.str < b.str \/ (a.str = b.str /\ a.len < b.len)

\* std::sort with comparator_t followed by the duplicate-removal loop of
\* build(): the strictly sorted sequence of the distinct entries
SortedEntries(S) == SetToSortSeq(S, EntryLess)

-----------------------------------------------------------------------------
(* compute_branch                                                          *)

\* the number k of consecutive entries from index p (while p + k < lim)
\* whose n bits at position np equal pat: the scanning loops of
\* compute_branch and build_recursive
RunLen(base, p, lim, np, n, pat) ==
    Min({j \in p .. lim : j = lim \/ EXTRACT(np, n, Str(base, j)) # pat}) - p

\* while(EXTRACT(i, 1, low) == EXTRACT(i, 1, high)) ++i;  the result is W
\* when the scan reaches the address width, where the shifts are undefined
RECURSIVE CommonBits(_, _, _)
CommonBits(low, high, i) ==
    IF i >= W THEN W
    ELSE IF EXTRACT(i, 1, low) = EXTRACT(i, 1, high)
    THEN CommonBits(low, high, i + 1)
    ELSE i

\* the pattern-counting loop of compute_branch: one scan over the range,
\* counting the patterns pat = 0 .. 2^b-1 that find a run at the cursor
RECURSIVE PatternCount(_, _, _, _, _, _, _)
PatternCount(base, i, lim, np, b, pat, count) ==
    IF pat >= 2^b THEN count
    ELSE LET k == RunLen(base, i, lim, np, b, pat)
         IN  PatternCount(base, i + k, lim, np, b, pat + 1,
                          IF k > 0 THEN count + 1 ELSE count)

\* the do { ++b; ... } while(count >= fill * 2^b) loop, entered with the
\* candidate b; the result is the last b that passed
RECURSIVE WidenBranch(_, _, _, _, _)
WidenBranch(base, first, n, np, b) ==
    IF n * FillDen < FillNum * 2^b \/ np + b > W
    THEN b - 1
    ELSE IF PatternCount(base, first, first + n, np, b, 0, 0) * FillDen
              >= FillNum * 2^b
         THEN WidenBranch(base, first, n, np, b + 1)
         ELSE b - 1

\* compute_branch(base, prefix, first, n, &branch, &newprefix).  When the
\* first and last entries agree on every bit from prefix on, the common
\* prefix loop runs past the address width and never stops (the shifted
\* bits compare equal forever under either shift semantics): hang.  The
\* same holds when the scan reaches the width at all, which only an
\* unsorted base vector can cause: every later shift is by W bits or more,
\* undefined, and the compiler is treated as never returning.
compute_branch(base, rbf, prefix, first, n) ==
    LET high == REMOVE(prefix, Str(base, first))
        low  == REMOVE(prefix, Str(base, first + n - 1))
        np   == CommonBits(low, high, prefix)
    IN  IF low = high \/ np >= W
        THEN [hang |-> TRUE, newprefix |-> prefix, branch |-> 0]
        ELSE [hang |-> FALSE, newprefix |-> np,
              branch |-> CASE n = 2 -> 1
                            [] rbf > 0 /\ prefix = 0 /\ first = 0 -> rbf
                            [] OTHER -> WidenBranch(base, first, n, np, 2)]

-----------------------------------------------------------------------------
(* build_recursive.  The compiler state threaded through the recursion is *)
(* [tree: the slots written so far, next: nextfree, hang].                 *)

Leaf(i) == [branch |-> 0, skip |-> 0, adr |-> i]

WriteSlots(st, slots, nd) == [st EXCEPT !.tree = [x \in slots |-> nd] @@ @]

\* the entry an empty pattern's slot is pointed at: the cursor p, or the
\* last entry of the range when the cursor has run past it
\* mutant: the clamp at the end of the range dropped
NeighbourNoClamp(p, first, n) == p
Neighbour(p, first, n) == IF p = first + n THEN p - 1 ELSE p

RECURSIVE build_recursive(_, _, _, _, _, _, _),
          Subtrees(_, _, _, _, _, _, _, _, _, _)

\* the loop for(bitpat = 0; bitpat < 1<<branch; ++bitpat) with cursor p
Subtrees(base, rbf, first, n, np, branch, adr, bitpat, p, st) ==
    IF bitpat >= 2^branch \/ st.hang THEN st
    ELSE LET k   == RunLen(base, p, first + n, np, branch, bitpat)
             st2 ==
               CASE k = 0 ->
                      build_recursive(base, rbf, np + branch, Neighbour(p, first, n),
                                      1, adr + bitpat, st)
                 [] k = 1 /\ base[p + 1].len - np < branch ->
                      LET bits == branch + np - base[p + 1].len
                      IN  WriteSlots(st, {adr + i : i \in bitpat .. bitpat + 2^bits - 1},
                                     Leaf(p))
                 [] OTHER ->
                      build_recursive(base, rbf, np + branch, p, k, adr + bitpat, st)
         IN  Subtrees(base, rbf, first, n, np, branch, adr, bitpat + 1, p + k, st2)

\* mutant: the skip field counts one bit less than the bits skipped
build_recursive_skip(base, rbf, prefix, first, n, pos, st) ==
    IF n = 1 THEN WriteSlots(st, {pos}, Leaf(first))
    ELSE LET cb  == compute_branch(base, rbf, prefix, first, n)
             adr == st.next
         IN  IF cb.hang THEN [st EXCEPT !.hang = TRUE]
             ELSE Subtrees(base, rbf, first, n, cb.newprefix, cb.branch, adr, 0, first,
                           [WriteSlots(st, {pos},
                                       [branch |-> cb.branch,
                                        skip   |-> cb.newprefix - prefix - 1,
                                        adr    |-> adr])
                            EXCEPT !.next = adr + 2^cb.branch])

build_recursive(base, rbf, prefix, first, n, pos, st) ==
    IF n = 1 THEN WriteSlots(st, {pos}, Leaf(first))
    ELSE LET cb  == compute_branch(base, rbf, prefix, first, n)
             adr == st.next
         IN  IF cb.hang THEN [st EXCEPT !.hang = TRUE]
             ELSE Subtrees(base, rbf, first, n, cb.newprefix, cb.branch, adr, 0, first,
                           [WriteSlots(st, {pos},
                                       [branch |-> cb.branch,
                                        skip   |-> cb.newprefix - prefix,
                                        adr    |-> adr])
                            EXCEPT !.next = adr + 2^cb.branch])

\* the compile step of build(): resize the node array around the old one
\* (old slots keep their values, new ones are zero, i.e. Leaf(0)), build
\* from the root with nextfree = 1, and trim it to nextfree
\* mutant: the final resize one slot short of nextfree
compile_short(base, rbf, old) ==
    LET st == build_recursive(base, rbf, 0, 0, Len(base), 0,
                              [tree |-> <<>>, next |-> 1, hang |-> FALSE])
    IN  [hang |-> st.hang,
         trie |-> [i \in 0 .. st.next - 2 |->
                     IF i \in DOMAIN st.tree THEN st.tree[i]
                     ELSE IF i \in DOMAIN old THEN old[i] ELSE Leaf(0)]]

compile(base, rbf, old) ==
    LET st == build_recursive(base, rbf, 0, 0, Len(base), 0,
                              [tree |-> <<>>, next |-> 1, hang |-> FALSE])
    IN  [hang |-> st.hang,
         trie |-> [i \in 0 .. st.next - 1 |->
                     IF i \in DOMAIN st.tree THEN st.tree[i]
                     ELSE IF i \in DOMAIN old THEN old[i] ELSE Leaf(0)]]

-----------------------------------------------------------------------------
(* search                                                                  *)

\* the while(branch != 0) loop of search from a node whose skip has been
\* added to pos.  safe is FALSE when the loop would index outside the node
\* array or read bits beyond the address width.
RECURSIVE Descend(_, _, _, _)
Descend(trie, ip, nd, pos) ==
    IF nd.branch = 0 THEN [safe |-> TRUE, leaf |-> nd.adr]
    ELSE LET i == nd.adr + EXTRACT(pos, nd.branch, ip)
         IN  IF pos + nd.branch > W \/ i \notin DOMAIN trie
             THEN [safe |-> FALSE, leaf |-> 0]
             ELSE Descend(trie, ip, trie[i], pos + nd.branch + trie[i].skip)

\* mutant: the descent started at bit 0 instead of after the root's skip
DescentNoSkip(trie, ip) == Descend(trie, ip, trie[0], 0)

Descent(trie, ip) == Descend(trie, ip, trie[0], trie[0].skip)

\* search() reads only the node array and the base vector in bounds
SearchInBounds(trie, base, ip) ==
    DOMAIN trie = {} \/
    LET d == Descent(trie, ip) IN d.safe /\ d.leaf < Len(base)

\* The results search(ip) can return.  The final check EXTRACT(0, len,
\* bitmask) shifts right by W - len: for len = 0 that is a shift by the
\* full width, undefined; x86 masks the count to 0 (a match only when the
\* whole bitmask is 0), other targets yield 0 (always a match).  An
\* out-of-bounds read may return anything.
SearchOutcomes(trie, base, ip) ==
    IF DOMAIN trie = {} THEN {FALSE}
    ELSE IF ~SearchInBounds(trie, base, ip) THEN BOOLEAN
    ELSE LET e       == base[Descent(trie, ip).leaf + 1]
             bitmask == e.str ^^ ip
         IN  IF e.len = 0 THEN {bitmask = 0, TRUE}
             ELSE {EXTRACT(0, e.len, bitmask) = 0}

-----------------------------------------------------------------------------
(* stats                                                                   *)

\* traverse(t, r, depth, &totdepth, &maxdepth): the sum and the maximum of
\* the leaf depths below node r; children are visited while i < 2^branch
\* and i < t.size() as in the code
RECURSIVE traverse(_, _, _)
traverse(t, r, depth) ==
    IF r.branch = 0 THEN [tot |-> depth, max |-> depth]
    ELSE LET kids == {i \in 0 .. 2^r.branch - 1 : i < Cardinality(DOMAIN t)}
             sub  == [i \in kids |-> traverse(t, t[r.adr + i], depth + 1)]
         IN  [tot |-> SumFunction([i \in kids |-> sub[i].tot]),
              max |-> Max({sub[i].max : i \in kids})]

\* the figures stats() formats into its string (byte sizes are the counts
\* times the constant element sizes, and the fill factor is a constant)
stats_of(trie, base, rbf) ==
    LET tv == traverse(trie, trie[0], 0)
    IN  [n          |-> Len(base),
         triesz     |-> Cardinality(DOMAIN trie),
         rootbranch |-> IF rbf = 0 THEN trie[0].branch ELSE rbf,
         leaves     |-> Cardinality({i \in DOMAIN trie : trie[i].branch = 0}),
         internal   |-> Cardinality({i \in DOMAIN trie : trie[i].branch # 0}),
         dmax       |-> tv.max,
         totdepth   |-> tv.tot]

-----------------------------------------------------------------------------
(* Reference definitions, independent of EXTRACT and of the trie.          *)

\* address a lies in the prefix e: they agree on the first e.len bits
Matches(e, a) == a \div 2^(W - e.len) = e.str \div 2^(W - e.len)

Covered(S, a) == \E e \in S : Matches(e, a)

\* the addresses a set of prefixes stands for
CoveredAddrs(S) == {a \in Addr : Covered(S, a)}

\* canonical prefix: no bits set beyond its length
Canonical(e) == e.str % 2^(W - e.len) = 0

\* no entry is a prefix of another (the precondition lctrie.cpp states)
NonOverlapping(S) ==
    \A e, f \in S : e # f => ~(e.len <= f.len /\ Matches(e, f.str))

=============================================================================
