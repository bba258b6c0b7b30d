------------------------------ MODULE MCCatalogue ------------------------------
(***************************************************************************)
(* The instance of Catalogue for TLC.                                      *)
(***************************************************************************)
EXTENDS Catalogue, TLC

Interchangeable ==
    Permutations(Products) \cup Permutations(Categories) \cup Permutations(Slugs)
    \cup Permutations(Offers) \cup Permutations(Sessions)
=============================================================================
