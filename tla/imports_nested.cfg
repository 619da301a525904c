\* Bundles loaded and modules imported from one another's bodies.
SPECIFICATION Spec
CONSTANTS
    p = p
    pq = pq
    px = px
    h = h
    n = n
    r = r
    u = u
    v = v
    w = w
    Names = {p, pq, px, h, n, r}
    PrefixesOf <- MCPrefixes
    Specs = {h}
    Natives = {n}
    ExtensionsOf <- MCExtensionsOf
    Bundles = {u, v, w}
    NamesOf <- MCNamesOf
    RootOf <- MCRootOf
    Mounted <- BoundW
    None = None
    MaxDepth = 3
INVARIANT CachedIsWhole
INVARIANT Reachable
INVARIANT LoadGivesBundle
PROPERTY WholeIsKept
