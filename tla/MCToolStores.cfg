SPECIFICATION Spec
CONSTANTS
    ann = ann
    bob = bob
    root = root
    east = east
    west = west
    north = north
    Threads = {t1, t2}
    Users = {ann, bob, root}
    Admins = {root}
    PrincipalOf <- MCPrincipalOf
    Exports = {x1, x2}
    Keys = {k1, k2}
    MaxEntries = 1
    CacheTtl = 1
    Timeout = 1
    None = None
SYMMETRY Symmetry
INVARIANTS OnlyOwnersRead RowsFresh
