SPECIFICATION Spec
CONSTANTS
    Names = {n1, n2}
    Callbacks = {c1, c2}
    None = None
    MaxAdds = 4
    MaxPosts = 2
SYMMETRY Symmetry
INVARIANTS MarkedIsListed SnapshotDispatch
PROPERTIES OnceIsOnce
