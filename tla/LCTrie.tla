-------------------------------- MODULE LCTrie --------------------------------
(***************************************************************************)
(* An lc_trie object of src/krb/lc_trie.hpp and the file it is saved to.  *)
(* State: the node array (trie), the base vector (base), the cached stats *)
(* string (cached_stats), the file on disk (disk) and the result of the   *)
(* caller's last call (ret).  One action per public operation: build,     *)
(* search, save, load and stats.  The compilation parameters are fixed by  *)
(* the constructor; load writes back the values the file holds, which are *)
(* the same, since the file is written by an object built with them.      *)
(*                                                                         *)
(* The file is the sequence of the items serialize() writes, in order:    *)
(* trie, base, fill factor, root branching factor, cached_stats.  gzip is *)
(* lossless, so the only trace it leaves is that a stream cut short by a  *)
(* write error decodes to the items before the cut and then fails.        *)
(***************************************************************************)
EXTENDS LCTrieAlgo

CONSTANTS
    RootBranch,  \* comp_root_branching_factor (0: computed)
    Capacity,    \* build() refuses more strings than this (1<<19 in the code)
    Inputs,      \* the prefix sets callers pass to build()
    Requested,   \* the address sets they stand for (computed once)
    FileInputs,  \* prefix sets whose compiled files may be on disk initially
    Rebuild,     \* whether callers call build() on an object already holding a trie
    LoadFaults,  \* item counts after which a read error can cut a load short
    SaveFaults,  \* item counts after which a write error can cut a save short,
                 \* and OpenFailed: the output file cannot be opened
    OpenFailed,  \* model value: save() cannot open its file
    NoStats,     \* cached_stats is the empty string
    NoFile       \* no file at the path

Items == 5   \* trie, base, fill factor, root branching factor, cached_stats

ASSUME /\ RootBranch \in 0 .. W
       /\ Capacity \in Nat
       /\ Rebuild \in BOOLEAN
       /\ Requested = {CoveredAddrs(S) : S \in Inputs}
       /\ LoadFaults \subseteq 0 .. Items - 1
       /\ SaveFaults \subseteq {OpenFailed} \cup 0 .. Items - 1

VARIABLES trie, base, cached_stats, disk, ret

object == <<trie, base, cached_stats>>
vars == <<trie, base, cached_stats, disk, ret>>

\* mutant: the base vector written before the node array
ArchiveSwapped(tr, bs, cs) == <<bs, tr, <<FillNum, FillDen>>, RootBranch, cs>>

\* serialize(): the items of the archive of an object state
Archive(tr, bs, cs) == <<tr, bs, <<FillNum, FillDen>>, RootBranch, cs>>

\* the archive a fresh object compiled from S writes, before or after its
\* first stats() call
CompiledFiles(S) ==
    LET tr == compile(SortedEntries(S), RootBranch, <<>>).trie
        bs == SortedEntries(S)
    IN  {Archive(tr, bs, NoStats), Archive(tr, bs, stats_of(tr, bs, RootBranch))}

Init ==
    /\ trie = <<>>
    /\ base = <<>>
    /\ cached_stats = NoStats
    /\ disk \in {NoFile} \cup UNION {CompiledFiles(S) : S \in FileInputs}
    /\ ret = [op |-> "none", val |-> "none"]

\* a call that hung (compute_branch looping forever) never returns
Running == ret.op # "hang"

-----------------------------------------------------------------------------

\* the body of build() after its size check: the sorted, de-duplicated
\* strings appended to the base vector (which build() never clears), the
\* compilation, and the clearing of the stats cache
Compile(S) ==
    LET bs == base \o SortedEntries(S)
        c  == compile(bs, RootBranch, trie)
    IN  /\ base' = bs
        /\ trie' = c.trie
        /\ cached_stats' = IF c.hang THEN cached_stats ELSE NoStats
        /\ ret' = [op |-> IF c.hang THEN "hang" ELSE "build", val |-> "ok"]

\* build(strings): refuse more than Capacity strings, else compile them
Build(S) ==
    /\ Running
    /\ Rebuild \/ base = <<>>
    /\ IF Cardinality(S) > Capacity
       THEN /\ ret' = [op |-> "build", val |-> "fail"]
            /\ UNCHANGED object
       ELSE Compile(S)
    /\ UNCHANGED disk

\* search(ip): read-only; the caller observes one of its possible results
Search(ip) ==
    /\ Running
    /\ \E v \in SearchOutcomes(trie, base, ip) : ret' = [op |-> "search", ip |-> ip, val |-> v]
    /\ UNCHANGED <<object, disk>>

\* save(filename): opening the ofstream truncates the file; the archive is
\* written through the gzip filter, whose buffers reach the file only when
\* the filter and the ofstream are destroyed, after the return value
\* !ofs.fail() has been computed.  A write error cutting the file after
\* `cut` items is reported only if it struck before the return.
Save ==
    /\ Running
    /\ \E cut \in {Items} \cup SaveFaults :
          IF cut = OpenFailed
          THEN /\ ret' = [op |-> "save", val |-> "fail"]
               /\ UNCHANGED disk
          ELSE /\ disk' = SubSeq(Archive(trie, base, cached_stats), 1, cut)
               /\ \E v \in IF cut = Items THEN {"ok"} ELSE {"ok", "fail"} :
                     ret' = [op |-> "save", val |-> v]
    /\ UNCHANGED object

\* mutant: serialize() without its cached_stats member
DeserializeKeepStats(file, cut) ==
    /\ trie' = IF cut >= 1 THEN file[1] ELSE trie
    /\ base' = IF cut >= 2 THEN file[2] ELSE base
    /\ UNCHANGED cached_stats

\* ia >> *this: serialize() reads the archive's items into the members in
\* order; when reading stops after `cut` items the later members keep
\* their values (the fill and root branching factors read back are the
\* object's own)
Deserialize(file, cut) ==
    /\ trie' = IF cut >= 1 THEN file[1] ELSE trie
    /\ base' = IF cut >= 2 THEN file[2] ELSE base
    /\ cached_stats' = IF cut >= 5 THEN file[5] ELSE cached_stats

\* load(filename): fails if the file cannot be opened; otherwise ia >> *this
\* deserializes the items straight into the object, in order, and an
\* archive exception at the first unreadable item propagates to the caller
\* with the items before it already overwritten
Load ==
    /\ Running
    /\ IF disk = NoFile
       THEN /\ ret' = [op |-> "load", val |-> "fail"]
            /\ UNCHANGED object
       ELSE \E cut \in {Len(disk)} \cup {c \in LoadFaults : c < Len(disk)} :
               /\ Deserialize(disk, cut)
               /\ ret' = [op |-> "load", val |-> IF cut = Items THEN "ok" ELSE "throw"]
    /\ UNCHANGED disk

\* stats(out): the cached string if there is one; "Empty" (not cached) for
\* an empty trie; otherwise compute the figures and cache them
Stats ==
    /\ Running
    /\ IF cached_stats # NoStats
       THEN /\ ret' = [op |-> "stats", val |-> cached_stats]
            /\ UNCHANGED cached_stats
       ELSE IF DOMAIN trie = {}
       THEN /\ ret' = [op |-> "stats", val |-> "Empty"]
            /\ UNCHANGED cached_stats
       ELSE LET s == stats_of(trie, base, RootBranch)
            IN  /\ cached_stats' = s
                /\ ret' = [op |-> "stats", val |-> s]
    /\ UNCHANGED <<trie, base, disk>>

\* Build's own guard, stated before the input is chosen: TLC enumerates
\* Inputs only in states where a build() call is allowed
CanBuild == Running /\ (Rebuild \/ base = <<>>)

Next ==
    \/ CanBuild /\ \E S \in Inputs : Build(S)
    \/ \E ip \in Addr : Search(ip)
    \/ Save
    \/ Load
    \/ Stats

Spec == Init /\ [][Next]_vars

-----------------------------------------------------------------------------
(* Properties                                                              *)

StatsRecord ==
    [n : Nat, triesz : Nat, rootbranch : Nat, leaves : Nat, internal : Nat,
     dmax : Nat, totdepth : Nat]

Ops == {"none", "build", "hang", "search", "save", "load", "stats"}

TypeOK ==
    /\ DOMAIN trie = 0 .. Cardinality(DOMAIN trie) - 1
    /\ \A i \in DOMAIN trie : trie[i] \in Node
    /\ base \in Seq(Entry)
    /\ cached_stats \in {NoStats} \cup StatsRecord
    /\ disk = NoFile \/ Len(disk) \in 0 .. Items
    /\ ret.op \in Ops

\* Every call to search() on a built or loaded trie stays inside the node
\* array and the base vector and reads only bits of the address: the
\* guards of compute_branch (newprefix + b <= W), the slot reservation of
\* build_recursive, the final resize of build() and the items restored by
\* load() together keep every descent in bounds.
SearchSafe == \A ip \in Addr : SearchInBounds(trie, base, ip)

\* search() finds every address some entry of the base vector covers
\* (spec.md section 8, "Coverage").
Coverage ==
    \A ip \in Addr : Covered(Range(base), ip) => SearchOutcomes(trie, base, ip) = {TRUE}

\* The cached stats string, when there is one, describes the trie and base
\* the object holds now: build() clears it, load() restores the one saved
\* with the trie it loads, and stats() fills it from the current arrays.
StatsCacheCoherent ==
    cached_stats # NoStats => cached_stats = stats_of(trie, base, RootBranch)

\* A build(), save() or load() that fails (returns false or throws) leaves
\* the object's trie, base vector and stats cache as they were
\* (spec.md section 7, all-or-nothing replacement).
FailedCallLeavesObject ==
    [][ret'.op \in {"build", "save", "load"} /\ ret'.val # "ok"
         => UNCHANGED object]_vars

\* When save() returns true the file holds the whole archive of the object
\* as it is (spec.md section 4.4: false on any I/O or stream failure).
SaveReportsFailure ==
    ret.op = "save" /\ ret.val = "ok" => disk = Archive(trie, base, cached_stats)

-----------------------------------------------------------------------------
(* Refinement: the object implements PrefixSet.  The member set is the set *)
(* of addresses the base vector covers, the stored set is the one the     *)
(* file's base vector covers, and each call maps to the abstract call.    *)

AbsStored ==
    IF disk = NoFile \/ Len(disk) < 2 THEN NoFile ELSE CoveredAddrs(Range(disk[2]))

AbsRet ==
    IF ret.op = "search"
    THEN [op |-> "search", arg |-> ret.ip, res |-> ret.val]
    ELSE [op  |-> IF ret.op = "hang" THEN "build" ELSE ret.op,
          res |-> CASE ret.op = "stats" -> TRUE
                    [] ret.op = "none"  -> FALSE
                    [] OTHER            -> ret.val = "ok"]

Abs == INSTANCE PrefixSet WITH
          Addresses <- Addr,
          Requests  <- Requested,
          members   <- CoveredAddrs(Range(base)),
          stored    <- AbsStored,
          ret       <- AbsRet

\* The object with its file refines the abstract prefix set: every call
\* behaves as the corresponding PrefixSet call.
Refinement == Abs!Spec

=============================================================================
