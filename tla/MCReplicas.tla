------------------------------ MODULE MCReplicas ------------------------------
EXTENDS Replicas, TLC

Symmetry == Permutations(Docs)
=============================================================================
