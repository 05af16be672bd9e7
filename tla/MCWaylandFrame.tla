--------------------------- MODULE MCWaylandFrame --------------------------
(***************************************************************************)
(* Instances of WaylandFrame: the bounds are set in the configurations.    *)
(***************************************************************************)
EXTENDS WaylandFrame

EveryRole == {"toplevel", "layer"}
ToplevelOnly == {"toplevel"}
LayerOnly == {"layer"}
=============================================================================
