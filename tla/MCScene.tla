-------------------------------- MODULE MCScene ----------------------------
(* An instance of Scene: quads and sprites along one axis, two tiles in    *)
(* two textures, and nodes of three children so that a few insertions fill *)
(* one and make the tree grow.  The second sprite is apart from the other  *)
(* primitives: painted after two that overlap, it gets a lower order than  *)
(* the last of them and is sorted to the front.                            *)
EXTENDS Scene

Span(lo, hi) == [d \in Axes |-> IF d = "x" THEN [lo |-> lo, hi |-> hi] ELSE [lo |-> 0, hi |-> 1]]
Quad(b, blend) == [kind |-> "quad", bounds |-> b, tile |-> 0, blend |-> blend]
Sprite(b, tile) == [kind |-> "sprite", bounds |-> b, tile |-> tile, blend |-> 0]

MCKinds == << "quad", "sprite" >>
MCPrimitives == {Quad(Span(0, 3), 1), Sprite(Span(2, 5), 2), Sprite(Span(6, 8), 1)}
MCLayerBounds == {Span(1, 7)}
MCTexture == << 1, 2 >>
============================================================================
