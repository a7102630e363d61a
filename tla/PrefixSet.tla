------------------------------ MODULE PrefixSet ------------------------------
(***************************************************************************)
(* What an lc_trie object promises its caller (spec.md sections 3, 4 and  *)
(* 7): it holds a set of member addresses that build replaces, search     *)
(* answers membership in that set, save stores it, load replaces it with  *)
(* the stored one, and a call that fails leaves the object as it was.      *)
(***************************************************************************)
CONSTANTS
    Addresses,  \* the address space
    Requests,   \* the member sets callers ask build() for
    NoFile      \* nothing loadable is stored

VARIABLES
    members,    \* the addresses the object answers "true" for
    stored,     \* the member set a load would restore, or NoFile
    ret         \* the last call and its result

vars == <<members, stored, ret>>

Init ==
    /\ members = {}
    /\ stored \in SUBSET Addresses \cup {NoFile}
    /\ ret = [op |-> "none", res |-> FALSE]

Build ==
    \/ /\ ret' = [op |-> "build", res |-> TRUE]
       /\ members' \in Requests
    \/ /\ ret' = [op |-> "build", res |-> FALSE]
       /\ UNCHANGED members

Search(a) ==
    /\ ret' = [op |-> "search", arg |-> a, res |-> a \in members]
    /\ UNCHANGED members

Save ==
    \/ /\ stored' = members
       /\ ret' = [op |-> "save", res |-> TRUE]
    \/ /\ ret' = [op |-> "save", res |-> FALSE]
       /\ UNCHANGED stored

Load ==
    \/ /\ stored # NoFile
       /\ members' = stored
       /\ ret' = [op |-> "load", res |-> TRUE]
    \/ /\ ret' = [op |-> "load", res |-> FALSE]
       /\ UNCHANGED members

Stats ==
    /\ ret' = [op |-> "stats", res |-> TRUE]
    /\ UNCHANGED members

Next ==
    \/ Build /\ UNCHANGED stored
    \/ \E a \in Addresses : Search(a) /\ UNCHANGED stored
    \/ Save /\ UNCHANGED members
    \/ Load /\ UNCHANGED stored
    \/ Stats /\ UNCHANGED stored

Spec == Init /\ [][Next]_vars

=============================================================================
