------------------------- MODULE MCNativeExtensions -------------------------
(* Three guests on two threads: a and b share a thread and a bundle, c has another     *)
(* thread and another bundle, with another binary for one name and the same for the    *)
(* other.                                                                              *)
EXTENDS NativeExtensions

MCThreadOf == [g \in {"a", "b", "c"} |-> IF g = "c" THEN "t2" ELSE "t1"]
MCBundleOf == [g \in {"a", "b", "c"} |-> IF g = "c" THEN "theirs" ELSE "ours"]
MCPackagesOf ==
    [d \in {"p.x", "p.y", "p.s.z"} |-> IF d = "p.s.z" THEN {"p", "p.s"} ELSE {"p"}]
MCContents ==
    [b \in {"ours", "theirs"} |->
        [d \in {"p.x", "p.y", "p.s.z"} |-> IF b = "theirs" /\ d = "p.x" THEN "v2" ELSE "v1"]]
=============================================================================
