------------------------------ MODULE MCAddresses ------------------------------
(***************************************************************************)
(* An instance of Addresses for TLC.                                       *)
(***************************************************************************)
EXTENDS Addresses, TLC

Interchangeable ==
    Permutations(Customers) \cup Permutations(AddressIds) \cup Permutations(Sessions)
=============================================================================
