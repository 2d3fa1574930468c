---------------------------- MODULE MCToolStores ----------------------------
EXTENDS ToolStores, TLC

CONSTANTS ann, bob, root, east, west, north

\* Two users of different principals and an admin.
MCPrincipalOf == [u \in Users |->
    CASE u = ann -> east [] u = bob -> west [] u = root -> north]
Symmetry == Permutations(Threads) \cup Permutations(Exports) \cup Permutations(Keys)
=============================================================================
