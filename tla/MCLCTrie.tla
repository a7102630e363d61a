------------------------------- MODULE MCLCTrie -------------------------------
(***************************************************************************)
(* Instantiates LCTrie for TLC: W-bit addresses, prefixes of the lengths  *)
(* in Lens, every non-overlapping canonical prefix set of up to           *)
(* Capacity + 1 entries as build() input, and the compiled files of the   *)
(* lower and upper halves of the address space as files on disk.          *)
(***************************************************************************)
EXTENDS LCTrie

CONSTANT Lens   \* the prefix lengths the inputs use

MCPrefixes == {e \in Entry : e.len \in Lens /\ Canonical(e)}

MCInputs ==
    {S \in SUBSET MCPrefixes :
        S # {} /\ Cardinality(S) <= Capacity + 1 /\ NonOverlapping(S)}

MCFileInputs ==
    {S \in {{e \in MCPrefixes : e.str < 2^(W-1)}, {e \in MCPrefixes : e.str >= 2^(W-1)}} :
        S \in MCInputs /\ Cardinality(S) <= Capacity}

MCRequested == {CoveredAddrs(S) : S \in MCInputs}

=============================================================================
