------------------------------ MODULE MCNodePool ------------------------------
EXTENDS NodePool, TLC

Perms == Permutations(Node)
=============================================================================
