--------------------------- MODULE MCDockerRegistry ---------------------------
(***************************************************************************)
(* Instances of DockerRegistry: one or two tags, two image manifests, one  *)
(* of which shares a layer with the other, or an index over one image.     *)
(***************************************************************************)
EXTENDS DockerRegistry, TLC

CONSTANTS a, b, x, y, t, u, c1, c2

\* a and b share the layer x, b has y besides.
SharedRefs == (a :> {x}) @@ (b :> {x, y}) @@ (x :> {}) @@ (y :> {})
SharedSize == (a :> 1) @@ (b :> 2) @@ (x :> 5) @@ (y :> 3)

\* a has the layer x; b lists no layer at all.
SmallRefs == (a :> {x}) @@ (b :> {}) @@ (x :> {})
SmallSize == (a :> 1) @@ (b :> 2) @@ (x :> 5)

\* b is an index over the image a.
IndexRefs == (a :> {x}) @@ (b :> {a}) @@ (x :> {})

Nothing == [p \in Paths |-> NoObject]
Empty == {Nothing}

\* The image a, tagged t, cached before the table existed.
Legacy == {[p \in Paths |-> CASE p = t -> a [] p \in {a, x} -> p [] OTHER -> NoObject]}
EmptyOrLegacy == Empty \cup Legacy

NoDeletions == {"push", "upload", "pull", "list"}
Disturbances == {"push", "delete", "deleteBlob"}
PushesAndDeletions == {"push", "upload", "delete"}
PushesOnly == {"push"}
=============================================================================
