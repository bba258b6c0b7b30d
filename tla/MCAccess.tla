-------------------------------- MODULE MCAccess --------------------------------
EXTENDS Access, TLC

CONSTANTS MaxClock, MaxTokens

\* Ann's address in two spellings, and Bob's.
MCSpellings == {"ann", "Ann", "bob"}
MCNormal == [e \in MCSpellings |-> IF e = "Ann" THEN "ann" ELSE e]

Symmetry == Permutations(Customers) \cup Permutations(Contacts)
            \cup Permutations(Sessions)

\* Bounds: the time that passes and the tokens issued.
Bounded == clock <= MaxClock /\ Cardinality(token) <= MaxTokens
=============================================================================
