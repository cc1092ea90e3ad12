-------------------------- MODULE MCAddressRotation --------------------------
(* Instances of AddressRotation: the callers are alike, and so are the wallets. *)
EXTENDS AddressRotation, TLC

Symmetry == Permutations(Callers) \cup Permutations(Wallets)
=============================================================================
