--------------------------- MODULE MCOrderSystem ---------------------------
EXTENDS OrderSystem, TLC

Symmetry == Permutations(Handlers) \cup Permutations(Transfers)
            \cup Permutations(Orders) \cup Permutations(References)
            \cup Permutations(Shippers)
=============================================================================
