----------------------------- MODULE MCDefinitions -----------------------------
EXTENDS Definitions, TLC
Symmetry == Permutations(Embeddings) \cup Permutations(Creators)
              \cup Permutations(Senders) \cup Permutations(Requests)
================================================================================
