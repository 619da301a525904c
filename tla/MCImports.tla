------------------------------ MODULE MCImports ------------------------------
(* Small guests: package p with module q and native extension x, host       *)
(* modules h, native module n and module r.                                 *)
EXTENDS Imports, TLC

CONSTANTS p, pq, px, h, n, r, u, v, w

MCPrefixes ==
    [m \in Names |-> IF m \in {pq, px} THEN <<p, m>> ELSE <<m>>]

\* u and v are two bundles of package p; w is module r
MCNamesOf == (u :> {p}) @@ (v :> {p, pq}) @@ (w :> {r})
MCExtensionsOf == (u :> {}) @@ (v :> {px} \intersect Names) @@ (w :> {})
MCRootOf == (u :> p) @@ (v :> p) @@ (w :> r)

\* bound when the guest is built: nothing but w, or v
BoundW == [m \in Names |-> IF m = r THEN w ELSE None]
BoundV == [m \in Names |-> IF m \in {p, pq} THEN v ELSE None]
=============================================================================
