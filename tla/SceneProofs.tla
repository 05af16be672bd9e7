----------------------------- MODULE SceneProofs ---------------------------
(***************************************************************************)
(* Scenes, for any primitives, layers, views and number of frames: the     *)
(* orders of the tree are those of the overlaps, the batches draw          *)
(* everything once and from back to front, and a replayed view keeps its   *)
(* paint while no sort has moved a primitive.                              *)
(*                                                                         *)
(* A scene is built by operations that each keep IsScene and what the      *)
(* earlier operations show; a sort keeps IsScene; each batch keeps Draws.  *)
(***************************************************************************)
EXTENDS Scene, BoundsTreeProofs

(***************************************************************************)
(* Scenes                                                                  *)
(***************************************************************************)

\* A place comes from a leaf of the tree.
Placed(nodes, p) ==
  /\ p.order \in Nat /\ p.space \in Bounds /\ p.since \in Nat
  /\ p.since + 1 \in LeavesOf(nodes)
  /\ nodes[p.since + 1].bounds = p.space /\ nodes[p.since + 1].max = p.order

\* The types of places, primitives and operations.
PlaceSet == [order : Nat, space : Bounds, since : Nat]
PrimitiveSet == [kind : KindSet, bounds : Bounds, tile : Nat, blend : Nat,
                 order : Nat, space : Bounds, since : Nat]
OpSet == [op : {"primitive"}, kind : KindSet, index : Nat]
           \cup [op : {"start"}, bounds : Bounds] \cup [op : {"end"}]

\* What can be painted.
IsPaint(p) ==
  /\ p.kind \in KindSet /\ p.bounds \in Bounds /\ p.tile \in Nat /\ p.blend \in Nat
  /\ p.kind \in SpriteKinds => p.blend = 0

\* An operation names a primitive of the scene.
HasOp(prims, o) ==
  o.op = "primitive" => o.kind \in KindSet /\ o.index \in 1 .. Len(prims[o.kind])

\* The primitives, the layers and the operations of a scene are well-formed.
GoodPrimitives(prims, nodes) ==
  /\ prims \in [KindSet -> Seq(PrimitiveSet)]
  /\ \A k \in KindSet : \A i \in DOMAIN prims[k] :
       prims[k][i].kind = k /\ IsPaint(prims[k][i]) /\ Placed(nodes, prims[k][i])
GoodLayers(layers, nodes) ==
  layers \in Seq(PlaceSet) /\ \A i \in DOMAIN layers : Placed(nodes, layers[i])
GoodOps(ops, prims) ==
  ops \in Seq(OpSet) /\ \A i \in DOMAIN ops : HasOp(prims, ops[i])

\* What the operations of a scene keep true.
IsScene(s) ==
  /\ s = [ops |-> s.ops, prims |-> s.prims, tree |-> s.tree, layers |-> s.layers]
  /\ IsBoundsTree(s.tree)
  /\ GoodPrimitives(s.prims, s.tree.nodes) /\ GoodLayers(s.layers, s.tree.nodes)
  /\ GoodOps(s.ops, s.prims)

\* The operations of s are the first ones of t, and show the same there.
Keeps(s, t) ==
  \A i \in DOMAIN s.ops : t.ops[i] = s.ops[i] /\ Shown(t, t.ops[i]) = Shown(s, s.ops[i])

\* Scene t is s with one more operation, which shows `shown`.
Follows(s, t, shown) ==
  /\ IsScene(t) /\ Len(t.ops) = Len(s.ops) + 1 /\ Keeps(s, t)
  /\ Shown(t, t.ops[Len(s.ops) + 1]) = shown

\* The operations that are recorded have their type.
LEMMA OpFacts ==
  /\ \A k \in KindSet, i \in Nat : [op |-> "primitive", kind |-> k, index |-> i] \in OpSet
  /\ \A b \in Bounds : [op |-> "start", bounds |-> b] \in OpSet
  /\ [op |-> "end"] \in OpSet
  BY Zenon DEF OpSet

\* The kinds of operations.
LEMMA OpCases ==
  ASSUME NEW o \in OpSet
  PROVE  \/ o.op = "primitive" /\ o.kind \in KindSet /\ o.index \in Nat
         \/ o.op = "start" /\ o.bounds \in Bounds /\ o = [op |-> "start", bounds |-> o.bounds]
         \/ o.op = "end" /\ o = [op |-> "end"]
  BY Zenon DEF OpSet

\* A place stays one when the tree grows.
LEMMA PlacedGrows ==
  ASSUME NEW nodes, NEW p, Placed(nodes, p), NEW b, NEW order, NEW m, Grown(nodes, b, order, m)
  PROVE  Placed(m, p)
  BY Zenon DEF Placed, Grown

\* The place of what was just inserted.
LEMMA NewPlace ==
  ASSUME WellFounded, NEW tree, IsBoundsTree(tree), NEW b \in Bounds
  PROVE  /\ Place(tree, b) \in PlaceSet /\ Placed(Insert(tree, b).nodes, Place(tree, b))
         /\ IsBoundsTree(Insert(tree, b))
         /\ \A p : Placed(tree.nodes, p) => Placed(Insert(tree, b).nodes, p)
  <1> DEFINE m == Insert(tree, b).nodes
             n == Len(tree.nodes)
             order == OrderOf(tree, b)
  <1>1. IsBoundsTree(Insert(tree, b)) /\ order \in Nat /\ Grown(tree.nodes, b, order, m)
    BY Zenon, InsertFacts
  <1>2. n \in Nat
    BY Zenon, IsBoundsTreeFacts
  <1>3. /\ Place(tree, b).order = order /\ Place(tree, b).space = b /\ Place(tree, b).since = n
        /\ Place(tree, b) \in PlaceSet
    BY Zenon, <1>1, <1>2 DEF Place, PlaceSet
  <1>4. n + 1 \in LeavesOf(m) /\ m[n + 1].bounds = b /\ m[n + 1].max = order
    BY <1>1 DEF Grown, Leaf
  <1>5. \A p : Placed(tree.nodes, p) => Placed(m, p)
    BY Zenon, <1>1, PlacedGrows
  <1> HIDE DEF m, n, order
  <1>6. Placed(m, Place(tree, b))
    BY Zenon, <1>1, <1>2, <1>3, <1>4 DEF Placed
  <1> QED
    BY Zenon, <1>1, <1>3, <1>5, <1>6 DEF m

\* What an operation shows depends on the primitive it names.
LEMMA ShownFacts ==
  ASSUME NEW s, NEW t, NEW o, HasOp(s.prims, o),
         \A k \in KindSet : \A i \in 1 .. Len(s.prims[k]) : t.prims[k][i] = s.prims[k][i]
  PROVE  Shown(t, o) = Shown(s, o)
  BY Zenon DEF Shown, Replayed, HasOp

\* A cleared scene is well-formed.
LEMMA EmptySceneFacts == IsScene(EmptyScene)
  <1> DEFINE s == EmptyScene
  <1>1. /\ s = [ops |-> s.ops, prims |-> s.prims, tree |-> s.tree, layers |-> s.layers]
        /\ s.ops = << >> /\ s.layers = << >> /\ s.prims = [k \in KindSet |-> << >>]
        /\ s.tree = EmptyTree
    BY Zenon DEF EmptyScene
  <1>2. s.tree.nodes = << >> /\ IsBoundsTree(s.tree)
    BY <1>1 DEF EmptyTree, IsBoundsTree, Ordered, LeavesOf
  <1> HIDE DEF s
  <1>3. GoodPrimitives(s.prims, s.tree.nodes)
    BY <1>1 DEF GoodPrimitives
  <1>4. GoodLayers(s.layers, s.tree.nodes) /\ GoodOps(s.ops, s.prims)
    BY <1>1 DEF GoodLayers, GoodOps
  <1> QED
    BY Zenon, <1>1, <1>2, <1>3, <1>4 DEF IsScene, s

\* push_layer adds one operation.
LEMMA PushLayerFacts ==
  ASSUME WellFounded, NEW s, IsScene(s), NEW b \in Bounds
  PROVE  Follows(s, PushLayer(s, b), [op |-> "start", bounds |-> b])
  <1> DEFINE t == PushLayer(s, b)
             o == [op |-> "start", bounds |-> b]
  <1>1. /\ t = [ops |-> t.ops, prims |-> t.prims, tree |-> t.tree, layers |-> t.layers]
        /\ t.ops = Append(s.ops, o) /\ t.prims = s.prims /\ t.tree = Insert(s.tree, b)
        /\ t.layers = Append(s.layers, Place(s.tree, b))
    BY Zenon DEF PushLayer
  <1>2. o \in OpSet /\ o.op = "start"
    BY Zenon, OpFacts
  <1> HIDE DEF t, o
  <1>3. /\ IsBoundsTree(s.tree) /\ GoodPrimitives(s.prims, s.tree.nodes)
        /\ GoodLayers(s.layers, s.tree.nodes) /\ GoodOps(s.ops, s.prims)
    BY Zenon DEF IsScene
  <1>4. /\ Place(s.tree, b) \in PlaceSet /\ Placed(t.tree.nodes, Place(s.tree, b))
        /\ IsBoundsTree(t.tree)
        /\ \A p : Placed(s.tree.nodes, p) => Placed(t.tree.nodes, p)
    BY ZenonT(30), <1>1, <1>3, NewPlace
  <1>5. GoodPrimitives(t.prims, t.tree.nodes)
    BY Zenon, <1>1, <1>3, <1>4 DEF GoodPrimitives
  <1>6. GoodLayers(t.layers, t.tree.nodes)
    <2>1. s.layers \in Seq(PlaceSet) /\ \A i \in DOMAIN s.layers : Placed(t.tree.nodes, s.layers[i])
      BY Zenon, <1>3, <1>4 DEF GoodLayers
    <2>2. /\ t.layers \in Seq(PlaceSet) /\ DOMAIN t.layers = DOMAIN s.layers \cup {Len(s.layers) + 1}
          /\ \A i \in DOMAIN s.layers : t.layers[i] = s.layers[i]
          /\ t.layers[Len(s.layers) + 1] = Place(s.tree, b)
      BY <1>1, <1>4, <2>1, AppendFacts
    <2> QED
      BY Zenon, <1>4, <2>1, <2>2 DEF GoodLayers
  <1>7. /\ s.ops \in Seq(OpSet) /\ t.ops \in Seq(OpSet) /\ Len(t.ops) = Len(s.ops) + 1
        /\ DOMAIN t.ops = DOMAIN s.ops \cup {Len(s.ops) + 1}
        /\ \A i \in DOMAIN s.ops : t.ops[i] = s.ops[i]
        /\ t.ops[Len(s.ops) + 1] = o
    BY <1>1, <1>2, <1>3, AppendFacts DEF GoodOps
  <1>8. GoodOps(t.ops, t.prims)
    BY Zenon, <1>1, <1>2, <1>3, <1>7 DEF GoodOps, HasOp
  <1>9. Keeps(s, t) /\ Shown(t, o) = o
    BY Zenon, <1>1, <1>2, <1>7 DEF Keeps, Shown, Replayed
  <1>10. IsScene(t)
    BY Zenon, <1>1, <1>4, <1>5, <1>6, <1>8 DEF IsScene
  <1> QED
    BY Zenon, <1>7, <1>9, <1>10 DEF Follows, t, o

\* pop_layer adds one operation.
LEMMA PopLayerFacts ==
  ASSUME NEW s, IsScene(s)
  PROVE  Follows(s, PopLayer(s), [op |-> "end"])
  <1> DEFINE t == PopLayer(s)
             o == [op |-> "end"]
  <1>1. /\ t = [ops |-> t.ops, prims |-> t.prims, tree |-> t.tree, layers |-> t.layers]
        /\ t.ops = Append(s.ops, o) /\ t.prims = s.prims /\ t.tree = s.tree
        /\ t.layers = Pop(s.layers)
    BY Zenon DEF PopLayer
  <1>2. o \in OpSet /\ o.op = "end"
    BY Zenon, OpFacts
  <1> HIDE DEF t, o
  <1>3. /\ IsBoundsTree(s.tree) /\ GoodPrimitives(s.prims, s.tree.nodes)
        /\ GoodLayers(s.layers, s.tree.nodes) /\ GoodOps(s.ops, s.prims)
    BY Zenon DEF IsScene
  <1>4. GoodLayers(t.layers, t.tree.nodes)
    <2>1. s.layers \in Seq(PlaceSet) /\ \A i \in DOMAIN s.layers : Placed(t.tree.nodes, s.layers[i])
      BY Zenon, <1>1, <1>3 DEF GoodLayers
    <2>2. /\ t.layers \in Seq(PlaceSet)
          /\ \A i \in DOMAIN t.layers : i \in DOMAIN s.layers /\ t.layers[i] = s.layers[i]
      <3> DEFINE l == s.layers
      <3>1. l \in Seq(PlaceSet)
        BY Zenon, <2>1
      <3> HIDE DEF l
      <3>2. Pop(l) \in Seq(PlaceSet) /\ \A i \in DOMAIN Pop(l) : i \in DOMAIN l /\ Pop(l)[i] = l[i]
        BY Zenon, <3>1, PopFacts
      <3> QED
        BY Zenon, <1>1, <3>2 DEF l
    <2> QED
      BY Zenon, <2>1, <2>2 DEF GoodLayers
  <1>7. /\ s.ops \in Seq(OpSet) /\ t.ops \in Seq(OpSet) /\ Len(t.ops) = Len(s.ops) + 1
        /\ DOMAIN t.ops = DOMAIN s.ops \cup {Len(s.ops) + 1}
        /\ \A i \in DOMAIN s.ops : t.ops[i] = s.ops[i]
        /\ t.ops[Len(s.ops) + 1] = o
    BY <1>1, <1>2, <1>3, AppendFacts DEF GoodOps
  <1>8. GoodOps(t.ops, t.prims)
    BY Zenon, <1>1, <1>2, <1>3, <1>7 DEF GoodOps, HasOp
  <1>9. Keeps(s, t) /\ Shown(t, o) = o
    BY Zenon, <1>1, <1>2, <1>7 DEF Keeps, Shown, Replayed
  <1>10. IsScene(t)
    BY Zenon, <1>1, <1>3, <1>4, <1>8 DEF IsScene
  <1> QED
    BY Zenon, <1>7, <1>9, <1>10 DEF Follows, t, o

\* insert_primitive adds one operation, which shows the primitive, and gives it
\* the place of a leaf of the tree.
LEMMA InsertPrimitiveFacts ==
  ASSUME WellFounded, NEW s, IsScene(s), NEW p, IsPaint(p)
  PROVE  Follows(s, InsertPrimitive(s, p), [op |-> "primitive", paint |-> Paint(p)])
  <1> DEFINE t == InsertPrimitive(s, p)
             place == IF s.layers # << >> THEN Top(s.layers) ELSE Place(s.tree, p.bounds)
             new == [kind |-> p.kind, bounds |-> p.bounds, tile |-> p.tile, blend |-> p.blend,
                     order |-> place.order, space |-> place.space, since |-> place.since]
             k == p.kind
             n == Len(s.prims[k]) + 1
             o == [op |-> "primitive", kind |-> k, index |-> n]
             tree == IF s.layers # << >> THEN s.tree ELSE Insert(s.tree, p.bounds)
  <1>1. /\ t = [ops |-> t.ops, prims |-> t.prims, tree |-> t.tree, layers |-> t.layers]
        /\ t.ops = Append(s.ops, o) /\ t.tree = tree /\ t.layers = s.layers
        /\ t.prims = [s.prims EXCEPT ![k] = Append(s.prims[k], new)]
    BY Zenon DEF InsertPrimitive
  <1>2. /\ k \in KindSet /\ p.bounds \in Bounds /\ p.tile \in Nat /\ p.blend \in Nat
        /\ k \in SpriteKinds => p.blend = 0
    BY Zenon DEF IsPaint
  <1>3. /\ IsBoundsTree(s.tree) /\ GoodPrimitives(s.prims, s.tree.nodes)
        /\ GoodLayers(s.layers, s.tree.nodes) /\ GoodOps(s.ops, s.prims)
    BY Zenon DEF IsScene
  <1> HIDE DEF t
  <1>4. /\ IsBoundsTree(tree) /\ Placed(tree.nodes, place)
        /\ \A q : Placed(s.tree.nodes, q) => Placed(tree.nodes, q)
    <2>1. CASE s.layers # << >>
      <3>1. s.layers \in Seq(PlaceSet) /\ Len(s.layers) \in DOMAIN s.layers
        BY Zenon, <1>3, <2>1, PopFacts DEF GoodLayers
      <3>2. Placed(s.tree.nodes, Top(s.layers))
        BY Zenon, <1>3, <3>1 DEF GoodLayers, Top
      <3> QED
        BY Zenon, <1>3, <2>1, <3>2
    <2>2. CASE s.layers = << >>
      <3>1. /\ Placed(Insert(s.tree, p.bounds).nodes, Place(s.tree, p.bounds))
            /\ IsBoundsTree(Insert(s.tree, p.bounds))
            /\ \A q : Placed(s.tree.nodes, q) => Placed(Insert(s.tree, p.bounds).nodes, q)
        BY Zenon, <1>2, <1>3, NewPlace
      <3> QED
        BY Zenon, <2>2, <3>1
    <2> QED
      BY Zenon, <2>1, <2>2
  <1> HIDE DEF tree, place
  <1>5. /\ new.kind = k /\ new.bounds = p.bounds /\ new.tile = p.tile /\ new.blend = p.blend
        /\ new.order = place.order /\ new.space = place.space /\ new.since = place.since
    BY Zenon
  <1>6. Placed(tree.nodes, new) /\ IsPaint(new) /\ Paint(new) = Paint(p)
    <2> HIDE DEF new
    <2>1. Placed(tree.nodes, new)
      BY Zenon, <1>4, <1>5 DEF Placed
    <2>2. IsPaint(new)
      BY Zenon, <1>2, <1>5 DEF IsPaint
    <2>3. Paint(new) = Paint(p)
      BY Zenon, <1>5 DEF Paint
    <2> QED
      BY Zenon, <2>1, <2>2, <2>3
  <1>7. new \in PrimitiveSet
    <2>1. place.order \in Nat /\ place.space \in Bounds /\ place.since \in Nat
      BY Zenon, <1>4 DEF Placed
    <2> QED
      BY Zenon, <1>2, <2>1 DEF PrimitiveSet
  <1> HIDE DEF new
  <1>8. s.prims \in [KindSet -> Seq(PrimitiveSet)]
    BY Zenon, <1>3 DEF GoodPrimitives
  <1>9. n \in Nat
    BY <1>2, <1>8
  <1>10. o \in OpSet /\ o.op = "primitive" /\ o.kind = k /\ o.index = n
    BY Zenon, <1>2, <1>9, OpFacts
  <1> HIDE DEF o
  <1>11. /\ Append(s.prims[k], new) \in Seq(PrimitiveSet)
         /\ Len(Append(s.prims[k], new)) = n
         /\ DOMAIN Append(s.prims[k], new) = DOMAIN s.prims[k] \cup {n}
         /\ \A i \in DOMAIN s.prims[k] : Append(s.prims[k], new)[i] = s.prims[k][i]
         /\ Append(s.prims[k], new)[n] = new
    BY <1>2, <1>7, <1>8, AppendFacts
  <1>12. /\ t.prims \in [KindSet -> Seq(PrimitiveSet)] /\ Len(t.prims[k]) = n
         /\ DOMAIN t.prims[k] = DOMAIN s.prims[k] \cup {n}
         /\ \A i \in DOMAIN s.prims[k] : t.prims[k][i] = s.prims[k][i]
         /\ t.prims[k][n] = new
         /\ \A j \in KindSet \ {k} : t.prims[j] = s.prims[j]
    BY Zenon, <1>1, <1>2, <1>8, <1>11
  <1>13. \A j \in KindSet : /\ DOMAIN s.prims[j] = 1 .. Len(s.prims[j]) /\ Len(s.prims[j]) \in Nat
                            /\ Len(s.prims[j]) <= Len(t.prims[j])
                            /\ Len(t.prims[j]) \in Nat
    BY <1>8, <1>12
  <1>14. \A j \in KindSet : \A i \in 1 .. Len(s.prims[j]) : t.prims[j][i] = s.prims[j][i]
    BY Zenon, <1>12, <1>13
  <1>15. GoodPrimitives(t.prims, t.tree.nodes)
    <2> SUFFICES ASSUME NEW j \in KindSet, NEW i \in DOMAIN t.prims[j]
                 PROVE  /\ t.prims[j][i].kind = j /\ IsPaint(t.prims[j][i])
                        /\ Placed(t.tree.nodes, t.prims[j][i])
      BY Zenon, <1>12 DEF GoodPrimitives
    <2>1. CASE j = k /\ i = n
      BY Zenon, <1>1, <1>5, <1>6, <1>12, <2>1
    <2>2. CASE ~(j = k /\ i = n)
      <3>1. i \in DOMAIN s.prims[j] /\ t.prims[j][i] = s.prims[j][i]
        BY <1>12, <2>2
      <3> QED
        BY Zenon, <1>1, <1>3, <1>4, <3>1 DEF GoodPrimitives
    <2> QED
      BY Zenon, <2>1, <2>2
  <1>16. GoodLayers(t.layers, t.tree.nodes)
    BY Zenon, <1>1, <1>3, <1>4 DEF GoodLayers
  <1>17. /\ s.ops \in Seq(OpSet) /\ t.ops \in Seq(OpSet) /\ Len(t.ops) = Len(s.ops) + 1
         /\ DOMAIN t.ops = DOMAIN s.ops \cup {Len(s.ops) + 1}
         /\ \A i \in DOMAIN s.ops : t.ops[i] = s.ops[i]
         /\ t.ops[Len(s.ops) + 1] = o
    BY <1>1, <1>3, <1>10, AppendFacts DEF GoodOps
  <1>18. \A i \in DOMAIN s.ops : HasOp(s.prims, s.ops[i])
    BY Zenon, <1>3 DEF GoodOps
  <1>19. GoodOps(t.ops, t.prims)
    <2>1. HasOp(t.prims, o)
      BY <1>2, <1>9, <1>10, <1>12, <1>13 DEF HasOp
    <2>2. \A i \in DOMAIN s.ops : HasOp(t.prims, s.ops[i])
      BY <1>13, <1>18 DEF HasOp
    <2> QED
      BY Zenon, <1>17, <2>1, <2>2 DEF GoodOps
  <1>20. Keeps(s, t)
    BY <1>14, <1>17, <1>18, ShownFacts DEF Keeps
  <1>21. Shown(t, o) = [op |-> "primitive", paint |-> Paint(p)]
    BY Zenon, <1>6, <1>10, <1>12 DEF Shown, Replayed
  <1>22. IsScene(t)
    BY Zenon, <1>1, <1>4, <1>15, <1>16, <1>19 DEF IsScene
  <1> QED
    BY Zenon, <1>17, <1>20, <1>21, <1>22 DEF Follows, t

\* What replaying an operation of a scene makes of it.
LEMMA ReplayOpFacts ==
  ASSUME WellFounded, NEW s, IsScene(s), NEW prev, IsScene(prev),
         NEW o \in OpSet, HasOp(prev.prims, o)
  PROVE  Follows(s, ReplayOp(s, prev, o), Shown(prev, o))
  <1>1. CASE o.op = "primitive"
    <2> DEFINE p == Replayed(prev, o)
    <2>1. IsPaint(p)
      <3>1. o.kind \in KindSet /\ o.index \in DOMAIN prev.prims[o.kind]
        BY <1>1 DEF HasOp, IsScene, GoodPrimitives
      <3> QED
        BY Zenon, <3>1 DEF Replayed, IsScene, GoodPrimitives
    <2>2. /\ ReplayOp(s, prev, o) = InsertPrimitive(s, p)
          /\ Shown(prev, o) = [op |-> "primitive", paint |-> Paint(p)]
      BY Zenon, <1>1 DEF ReplayOp, Shown
    <2> HIDE DEF p
    <2> QED
      BY Zenon, <2>1, <2>2, InsertPrimitiveFacts
  <1>2. CASE o.op = "start" /\ o.bounds \in Bounds /\ o = [op |-> "start", bounds |-> o.bounds]
    <2>1. ReplayOp(s, prev, o) = PushLayer(s, o.bounds)
      BY Zenon, <1>2 DEF ReplayOp
    <2>2. Shown(prev, o) = [op |-> "start", bounds |-> o.bounds]
      BY Zenon, <1>2 DEF Shown
    <2> QED
      BY Zenon, <1>2, <2>1, <2>2, PushLayerFacts
  <1>3. CASE o.op = "end" /\ o = [op |-> "end"]
    <2>1. ReplayOp(s, prev, o) = PopLayer(s)
      BY Zenon, <1>3 DEF ReplayOp
    <2>2. Shown(prev, o) = [op |-> "end"]
      BY Zenon, <1>3 DEF Shown
    <2> QED
      BY Zenon, <2>1, <2>2, PopLayerFacts
  <1> QED
    BY Zenon, <1>1, <1>2, <1>3, OpCases

\* The scene t comes from s by replaying the first n of the operations ops.
Replays(s, prev, ops, n, t) ==
  /\ IsScene(t) /\ Len(t.ops) = Len(s.ops) + n /\ Keeps(s, t)
  /\ \A i \in 1 .. n : Shown(t, t.ops[Len(s.ops) + i]) = Shown(prev, ops[i])

\* One more operation replayed.
LEMMA ReplayStep ==
  ASSUME WellFounded, NEW s, IsScene(s), NEW prev, NEW ops, NEW n \in Nat, NEW t,
         Replays(s, prev, ops, n, t), NEW u, Follows(t, u, Shown(prev, ops[n + 1]))
  PROVE  Replays(s, prev, ops, n + 1, u)
  <1> DEFINE a == Len(s.ops)
             c == Len(t.ops)
  <1>1. /\ IsScene(u) /\ Len(u.ops) = c + 1 /\ c = a + n
        /\ Shown(u, u.ops[c + 1]) = Shown(prev, ops[n + 1])
    BY Zenon DEF Follows, Replays
  <1>2. a \in Nat /\ DOMAIN s.ops = 1 .. a
    BY DEF IsScene, GoodOps
  <1>3. c \in Nat /\ DOMAIN t.ops = 1 .. c
    BY DEF Replays, IsScene, GoodOps
  <1> HIDE DEF a, c
  <1>4. \A i \in 1 .. c : u.ops[i] = t.ops[i] /\ Shown(u, u.ops[i]) = Shown(t, t.ops[i])
    BY Zenon, <1>3 DEF Follows, Keeps
  <1>5. Keeps(s, u)
    <2>1. \A i \in 1 .. a : i \in 1 .. c
      BY <1>1, <1>2, <1>3
    <2>2. \A i \in 1 .. a : t.ops[i] = s.ops[i] /\ Shown(t, t.ops[i]) = Shown(s, s.ops[i])
      BY Zenon, <1>2 DEF Replays, Keeps
    <2> QED
      BY Zenon, <1>2, <1>4, <2>1, <2>2 DEF Keeps
  <1>6. ASSUME NEW i \in 1 .. n + 1 PROVE Shown(u, u.ops[a + i]) = Shown(prev, ops[i])
    <2>1. CASE i = n + 1
      <3>1. a + i = c + 1
        BY <1>1, <1>2, <2>1
      <3> QED
        BY Zenon, <1>1, <2>1, <3>1
    <2>2. CASE i # n + 1
      <3>1. i \in 1 .. n /\ a + i \in 1 .. c
        BY <1>1, <1>2, <1>3, <2>2
      <3>2. Shown(t, t.ops[a + i]) = Shown(prev, ops[i])
        BY Zenon, <3>1 DEF Replays, a
      <3> QED
        BY Zenon, <1>4, <3>1, <3>2
    <2> QED
      BY Zenon, <2>1, <2>2
  <1>7. Len(u.ops) = a + (n + 1)
    BY <1>1, <1>2
  <1> QED
    BY Zenon, <1>1, <1>5, <1>6, <1>7 DEF Replays, a

\* Scenes are in a set.
TreeSet == [nodes : Seq(NodeSet), root : Nat, maxLeaf : Nat]
SceneSet == [ops : Seq(OpSet), prims : [KindSet -> Seq(PrimitiveSet)], tree : TreeSet,
             layers : Seq(PlaceSet)]

\* Well-formed scenes are a set.
LEMMA SceneIn ==
  ASSUME NEW s, IsScene(s) PROVE s \in SceneSet
  <1>1. s.tree \in TreeSet
    <2>1. s.tree.nodes \in Seq(NodeSet)
      BY Zenon, IsBoundsTreeFacts DEF IsScene
    <2>2. s.tree.maxLeaf \in Nat
      <3>1. HasHighest(s.tree.nodes, s.tree.maxLeaf) => s.tree.maxLeaf \in Nat
        BY IsBoundsTreeFacts DEF IsScene, HasHighest
      <3> QED
        BY <3>1 DEF IsScene, IsBoundsTree
    <2>3. s.tree.root \in Nat
      <3>1. \A anc : IsTree(s.tree.nodes, s.tree.root, anc) => s.tree.root \in DOMAIN s.tree.nodes
        BY Zenon DEF IsTree, Ancestry
      <3> QED
        BY <2>1, <3>1 DEF IsScene, IsBoundsTree
    <2>4. s.tree = [nodes |-> s.tree.nodes, root |-> s.tree.root, maxLeaf |-> s.tree.maxLeaf]
      BY Zenon DEF IsScene, IsBoundsTree
    <2> QED
      BY Zenon, <2>1, <2>2, <2>3, <2>4 DEF TreeSet
  <1>2. /\ s = [ops |-> s.ops, prims |-> s.prims, tree |-> s.tree, layers |-> s.layers]
        /\ s.ops \in Seq(OpSet) /\ s.prims \in [KindSet -> Seq(PrimitiveSet)]
        /\ s.layers \in Seq(PlaceSet)
    BY Zenon DEF IsScene, GoodOps, GoodPrimitives, GoodLayers
  <1> QED
    BY Zenon, <1>1, <1>2 DEF SceneSet

\* replay adds what the operations show in the previous scene, in their order.
LEMMA ReplayFacts ==
  ASSUME WellFounded, NEW s, IsScene(s), NEW prev, IsScene(prev), NEW ops \in Seq(OpSet),
         \A i \in DOMAIN ops : HasOp(prev.prims, ops[i])
  PROVE  Replays(s, prev, ops, Len(ops), Replay(s, prev, ops))
  <1> DEFINE N == Len(ops)
             V == [n \in 0 .. N |-> {t \in SceneSet : Replays(s, prev, ops, n, t)}]
             Step(n, t) == ReplayOp(t, prev, ops[n])
             H == [n \in 1 .. N |-> [t \in V[n - 1] |-> Step(n, t)]]
             after[n \in 0 .. Len(ops)] ==
               IF n = 0 THEN s ELSE ReplayOp(after[n - 1], prev, ops[n])
  <1>1. Replay(s, prev, ops) = after[N]
    BY Zenon DEF Replay
  <1>2. N \in Nat /\ DOMAIN ops = 1 .. N
    OBVIOUS
  <1>3. Replays(s, prev, ops, 0, s)
    <2>1. Len(s.ops) \in Nat
      BY DEF IsScene, GoodOps
    <2>2. 1 .. 0 = {}
      OBVIOUS
    <2> QED
      BY <2>1, <2>2 DEF Replays, Keeps
  <1>4. ASSUME NEW n \in 1 .. N, NEW t, Replays(s, prev, ops, n - 1, t)
        PROVE  Replays(s, prev, ops, n, Step(n, t))
    <2>1. IsScene(t) /\ ops[n] \in OpSet /\ HasOp(prev.prims, ops[n])
      BY <1>2, <1>4 DEF Replays
    <2>2. Follows(t, Step(n, t), Shown(prev, ops[n]))
      BY Zenon, <2>1, ReplayOpFacts
    <2>3. n - 1 \in Nat /\ (n - 1) + 1 = n
      OBVIOUS
    <2> HIDE DEF Step
    <2>4. Follows(t, Step(n, t), Shown(prev, ops[(n - 1) + 1]))
      BY Zenon, <2>2, <2>3
    <2> QED
      BY Zenon, <1>4, <2>3, <2>4, ReplayStep
  <1>5. \A n \in 0 .. N : \A t : t \in V[n] <=> Replays(s, prev, ops, n, t)
    BY Zenon, SceneIn DEF Replays
  <1> HIDE DEF Step, N
  <1>6. \A n \in 1 .. N : n - 1 \in 0 .. N /\ n \in 0 .. N
    BY <1>2
  <1>7. \A n \in 1 .. N : \A t \in V[n - 1] : H[n][t] = Step(n, t) /\ H[n][t] \in V[n]
    <2>1. \A n \in 1 .. N : \A t \in V[n - 1] : H[n][t] = Step(n, t)
      BY Zenon
    <2> HIDE DEF V, H
    <2> QED
      BY Zenon, <1>4, <1>5, <1>6, <2>1
  <1>8. PICK f : IsIteration(f, N, s, H) /\ AllIn(f, N, V)
    <2> HIDE DEF V, H
    <2>1. s \in V[0]
      BY <1>2, <1>3, <1>5
    <2>2. StaysIn(N, V, s, H)
      BY Zenon, <1>2, <1>7, <2>1 DEF StaysIn
    <2> QED
      BY Zenon, <2>2, Iteration
  <1>9. f = [n \in 0 .. N |-> IF n = 0 THEN s ELSE Step(n, f[n - 1])]
    <2> HIDE DEF V, H
    <2>1. ASSUME NEW n \in 1 .. N PROVE H[n][f[n - 1]] = Step(n, f[n - 1])
      <3>1. f[n - 1] \in V[n - 1]
        BY Zenon, <1>6, <1>8 DEF AllIn
      <3> QED
        BY Zenon, <1>7, <3>1
    <2>2. \A n \in 0 .. N : n # 0 => n \in 1 .. N
      BY <1>2
    <2> QED
      BY Zenon, <1>8, <2>1, <2>2 DEF IsIteration
  <1>10. after = [n \in 0 .. N |-> IF n = 0 THEN s ELSE Step(n, after[n - 1])]
    BY ZenonT(30), <1>9 DEF N, Step
  <1>11. Replays(s, prev, ops, N, after[N])
    <2> HIDE DEF after, V
    <2>1. after[0] = s /\ \A n \in 1 .. N : after[n] = Step(n, after[n - 1])
      BY <1>2, <1>10
    <2>2. \A n \in 1 .. N : after[n - 1] \in V[n - 1] => after[n] \in V[n]
      BY Zenon, <1>4, <1>5, <1>6, <2>1
    <2>3. after[0] \in V[0] /\ N \in 0 .. N
      BY <1>2, <1>3, <1>5, <2>1
    <2>4. AllIn(after, N, V)
      BY Zenon, <1>2, <2>2, <2>3, IterationIn
    <2> QED
      BY Zenon, <1>5, <2>3, <2>4 DEF AllIn
  <1> HIDE DEF after
  <1> QED
    BY Zenon, <1>1, <1>11 DEF N

\* finish: the vectors keep their primitives, in the order of their keys.
LEMMA SortedFacts ==
  ASSUME NEW S, NEW s \in Seq(S), NEW t \in Sorted(s)
  PROVE  /\ t \in Seq(S) /\ DOMAIN t = DOMAIN s /\ Len(t) = Len(s) /\ InOrder(t)
         /\ \A i \in DOMAIN t : \E j \in DOMAIN s : t[i] = s[j]
  <1>1. CASE InOrder(s)
    BY Zenon, <1>1 DEF Sorted
  <1>2. CASE ~InOrder(s)
    <2>1. PICK f \in Injection(DOMAIN s, DOMAIN s) : t = [i \in DOMAIN s |-> s[f[i]]] /\ InOrder(t)
      BY Zenon, <1>2 DEF Sorted
    <2>2. f \in [DOMAIN s -> DOMAIN s]
      BY Zenon DEF Injection
    <2>3. DOMAIN s = 1 .. Len(s) /\ Len(s) \in Nat
      OBVIOUS
    <2>4. \A i \in DOMAIN s : t[i] = s[f[i]] /\ f[i] \in DOMAIN s
      BY Zenon, <2>1, <2>2
    <2>5. t \in [1 .. Len(s) -> S]
      BY <2>1, <2>2, <2>3
    <2>6. t \in Seq(S) /\ Len(t) = Len(s) /\ DOMAIN t = DOMAIN s
      BY <2>3, <2>5
    <2> QED
      BY Zenon, <2>1, <2>4, <2>6
  <1> QED
    BY Zenon, <1>1, <1>2

\* finish sorts the vectors, and leaves operations and tree alone.
LEMMA FinishedFacts ==
  ASSUME NEW s, IsScene(s), NEW t \in Finished(s)
  PROVE  /\ IsScene(t) /\ t.ops = s.ops /\ \A k \in KindSet : InOrder(t.prims[k])
         /\ t.tree = s.tree
  <1>1. PICK q \in [KindSet -> UNION {Sorted(s.prims[k]) : k \in KindSet}] :
          (\A k \in KindSet : q[k] \in Sorted(s.prims[k])) /\ t = [s EXCEPT !.prims = q]
    BY Zenon DEF Finished
  <1>2. t = [ops |-> s.ops, prims |-> q, tree |-> s.tree, layers |-> s.layers]
    <2>1. s = [ops |-> s.ops, prims |-> s.prims, tree |-> s.tree, layers |-> s.layers]
      BY Zenon DEF IsScene
    <2> QED
      BY Zenon, <1>1, <2>1
  <1>3. /\ t = [ops |-> t.ops, prims |-> t.prims, tree |-> t.tree, layers |-> t.layers]
        /\ t.ops = s.ops /\ t.prims = q /\ t.tree = s.tree /\ t.layers = s.layers
    BY Zenon, <1>2
  <1>4. /\ s.prims \in [KindSet -> Seq(PrimitiveSet)]
        /\ \A k \in KindSet : \A i \in DOMAIN s.prims[k] :
             /\ s.prims[k][i].kind = k /\ IsPaint(s.prims[k][i])
             /\ Placed(s.tree.nodes, s.prims[k][i])
    BY Zenon DEF IsScene, GoodPrimitives
  <1>5. ASSUME NEW k \in KindSet
        PROVE  /\ q[k] \in Seq(PrimitiveSet) /\ Len(q[k]) = Len(s.prims[k]) /\ InOrder(q[k])
               /\ \A i \in DOMAIN q[k] : \E j \in DOMAIN s.prims[k] : q[k][i] = s.prims[k][j]
    <2>1. s.prims[k] \in Seq(PrimitiveSet) /\ q[k] \in Sorted(s.prims[k])
      BY Zenon, <1>1, <1>4
    <2> QED
      BY <2>1, SortedFacts
  <1>6. q \in [KindSet -> Seq(PrimitiveSet)]
    BY Zenon, <1>1, <1>5
  <1>7. GoodPrimitives(t.prims, t.tree.nodes)
    <2>1. ASSUME NEW k \in KindSet, NEW i \in DOMAIN q[k]
          PROVE  q[k][i].kind = k /\ IsPaint(q[k][i]) /\ Placed(s.tree.nodes, q[k][i])
      <3>1. PICK j \in DOMAIN s.prims[k] : q[k][i] = s.prims[k][j]
        BY Zenon, <1>5, <2>1
      <3> QED
        BY Zenon, <1>4, <3>1
    <2> QED
      BY Zenon, <1>3, <1>6, <2>1 DEF GoodPrimitives
  <1>8. GoodOps(t.ops, t.prims)
    BY ZenonT(60), <1>3, <1>5 DEF IsScene, GoodOps, HasOp
  <1> QED
    BY Zenon, <1>3, <1>5, <1>7, <1>8 DEF IsScene

(***************************************************************************)
(* Batches                                                                 *)
(***************************************************************************)

\* The type of batches.
BatchSet == [kind : KindSet, from : Nat, to : Nat]

\* Kinds have vectors in the order of their keys, drawn up to b.
InRanks(prims, b) ==
  /\ prims \in [KindSet -> Seq(PrimitiveSet)] /\ b \in [KindSet -> Nat]
  /\ \A k \in KindSet : InOrder(prims[k]) /\ b[k] <= Len(prims[k])
  /\ \A k \in KindSet : \A i \in DOMAIN prims[k] : prims[k][i].kind = k /\ IsPaint(prims[k][i])

\* The batches d draw the vectors up to b, each primitive once,
DrawUpTo(b, d) ==
  /\ d \in Seq(BatchSet)
  /\ \A m \in DOMAIN d : 1 <= d[m].from /\ d[m].to <= b[d[m].kind]
  /\ \A k \in KindSet : \A i \in 1 .. b[k] :
       \E m \in DOMAIN d : d[m].kind = k /\ i \in d[m].from .. d[m].to
  /\ \A m, n \in DOMAIN d : \A i \in d[m].from .. d[m].to, j \in d[n].from .. d[n].to :
       d[m].kind = d[n].kind /\ i = j => m = n
\* without mixing what must not be,
DrawAlike(prims, d) ==
  \A m \in DOMAIN d : \A i, j \in d[m].from .. d[m].to :
    LET p == prims[d[m].kind]
    IN  /\ d[m].kind \in SpriteKinds => Texture[p[i].tile] = Texture[p[j].tile]
        /\ p[i].blend # 0 => i = j
\* and in the order of the tree.
DrawInOrder(prims, b, d) ==
  /\ \A m \in DOMAIN d : \A i \in d[m].from .. d[m].to :
       \A k \in KindSet : \A l \in b[k] + 1 .. Len(prims[k]) :
         prims[d[m].kind][i].order <= prims[k][l].order
  /\ \A m, n \in DOMAIN d : \A i \in d[m].from .. d[m].to, j \in d[n].from .. d[n].to :
       m < n => prims[d[m].kind][i].order <= prims[d[n].kind][j].order
Draws(prims, b, d) == DrawUpTo(b, d) /\ DrawAlike(prims, d) /\ DrawInOrder(prims, b, d)

\* What the next batch has to be.
IsNextBatch(prims, b, k, e) ==
  /\ k \in KindSet /\ e \in b[k] + 1 .. Len(prims[k])
  /\ \A i \in b[k] + 1 .. e : \A j \in KindSet \ {k} : \A l \in b[j] + 1 .. Len(prims[j]) :
       prims[k][i].order <= prims[j][l].order
  /\ \A i \in b[k] + 2 .. e : SameBatch(prims[k][b[k] + 1], prims[k][i])

\* That batch is drawn.
Drawing(b, d, k, e, b2, d2) ==
  /\ b2 = [b EXCEPT ![k] = e]
  /\ d2 = Append(d, [kind |-> k, from |-> b[k] + 1, to |-> e])

\* In a vector the orders do not decrease.
LEMMA OrdersAscend ==
  ASSUME NEW prims, NEW b, InRanks(prims, b), NEW k \in KindSet
  PROVE  /\ DOMAIN prims[k] = 1 .. Len(prims[k]) /\ Len(prims[k]) \in Nat
         /\ \A i \in DOMAIN prims[k] : prims[k][i].order \in Nat
         /\ \A i, j \in DOMAIN prims[k] : i <= j => prims[k][i].order <= prims[k][j].order
  <1>1. prims[k] \in Seq(PrimitiveSet) /\ InOrder(prims[k])
    BY Zenon DEF InRanks
  <1>2. \A i \in DOMAIN prims[k] : prims[k][i] \in PrimitiveSet
    BY <1>1
  <1>3. \A i \in DOMAIN prims[k] : prims[k][i].order \in Nat
    BY Zenon, <1>2 DEF PrimitiveSet
  <1>4. DOMAIN prims[k] = 1 .. Len(prims[k]) /\ Len(prims[k]) \in Nat
    BY <1>1
  <1>5. ASSUME NEW i \in DOMAIN prims[k], NEW j \in DOMAIN prims[k], i < j
        PROVE  prims[k][i].order <= prims[k][j].order
    <2>1. KeyLeq(Key(prims[k][i]), Key(prims[k][j]))
      BY Zenon, <1>1, <1>5 DEF InOrder
    <2> QED
      BY <1>3, <2>1 DEF KeyLeq, Key
  <1>6. ASSUME NEW i \in DOMAIN prims[k], NEW j \in DOMAIN prims[k], i <= j
        PROVE  prims[k][i].order <= prims[k][j].order
    <2>1. i = j \/ i < j
      BY <1>4, <1>6
    <2> QED
      BY <1>3, <1>5, <2>1
  <1> QED
    BY Zenon, <1>3, <1>4, <1>6

\* One more batch keeps all of it.
LEMMA DrawsOn ==
  ASSUME NEW prims, NEW b, InRanks(prims, b), NEW d, Draws(prims, b, d),
         NEW k, NEW e, IsNextBatch(prims, b, k, e), NEW b2, NEW d2, Drawing(b, d, k, e, b2, d2)
  PROVE  InRanks(prims, b2) /\ Draws(prims, b2, d2)
  <1> DEFINE N == Len(d) + 1
             new == [kind |-> k, from |-> b[k] + 1, to |-> e]
             len(j) == Len(prims[j])
             order(j, i) == prims[j][i].order
  <1>1. k \in KindSet /\ e \in b[k] + 1 .. len(k) /\ b \in [KindSet -> Nat]
    BY Zenon DEF IsNextBatch, InRanks
  <1>2. \A j \in KindSet : b[j] \in Nat /\ b[j] <= len(j) /\ len(j) \in Nat /\ DOMAIN prims[j] = 1 .. len(j)
    BY Zenon, OrdersAscend DEF InRanks
  <1>3. /\ b2 \in [KindSet -> Nat] /\ b2[k] = e /\ \A j \in KindSet \ {k} : b2[j] = b[j]
    BY <1>1, <1>2 DEF Drawing
  <1>4. e \in Nat /\ b[k] < e /\ e <= len(k) /\ \A j \in KindSet : b[j] <= b2[j] /\ b2[j] <= len(j)
    <2> HIDE DEF len
    <2>1. e \in Nat /\ b[k] < e /\ e <= len(k)
      BY <1>1, <1>2
    <2> QED
      BY <1>2, <1>3, <2>1
  <1>5. InRanks(prims, b2)
    BY Zenon, <1>3, <1>4 DEF InRanks
  <1>6. new \in BatchSet /\ new.kind = k /\ new.from = b[k] + 1 /\ new.to = e
    BY <1>1, <1>2, <1>4 DEF BatchSet
  <1> HIDE DEF new
  <1>7. d \in Seq(BatchSet)
    BY Zenon DEF Draws, DrawUpTo
  <1>8. /\ d2 \in Seq(BatchSet) /\ DOMAIN d2 = DOMAIN d \cup {N} /\ d2[N] = new
        /\ (\A m \in DOMAIN d : d2[m] = d[m]) /\ N \notin DOMAIN d
        /\ N \in Nat /\ \A m \in DOMAIN d : m \in Nat /\ m < N
    <2>1. d2 = Append(d, new)
      BY Zenon DEF Drawing, new
    <2>2. /\ d2 \in Seq(BatchSet) /\ DOMAIN d2 = DOMAIN d \cup {N} /\ d2[N] = new
          /\ (\A m \in DOMAIN d : d2[m] = d[m])
      BY <1>6, <1>7, <2>1, AppendFacts
    <2>3. N \in Nat /\ \A m \in DOMAIN d : m \in Nat /\ m < N
      BY <1>7
    <2>4. N \notin DOMAIN d
      BY <2>3
    <2> QED
      BY Zenon, <2>2, <2>3, <2>4
  <1>9. \A m \in DOMAIN d : /\ d[m].kind \in KindSet /\ d[m].from \in Nat /\ d[m].to \in Nat
                            /\ 1 <= d[m].from /\ d[m].to <= b[d[m].kind]
    <2>1. \A m \in DOMAIN d : d[m] \in BatchSet
      BY <1>7
    <2> QED
      BY Zenon, <2>1 DEF BatchSet, Draws, DrawUpTo
  <1> HIDE DEF N, len, order
  <1>10. \A m \in DOMAIN d : \A i \in d[m].from .. d[m].to :
            i \in 1 .. b[d[m].kind] /\ i \in 1 .. len(d[m].kind)
    BY <1>2, <1>9
  <1>11. DrawUpTo(b2, d2)
    <2>1. \A m \in DOMAIN d2 : 1 <= d2[m].from /\ d2[m].to <= b2[d2[m].kind]
      <3>1. ASSUME NEW m \in DOMAIN d PROVE 1 <= d2[m].from /\ d2[m].to <= b2[d2[m].kind]
        <4>1. d[m].kind \in KindSet /\ 1 <= d[m].from /\ d[m].to \in Nat /\ d[m].to <= b[d[m].kind]
          BY Zenon, <1>9
        <4>2. b[d[m].kind] \in Nat /\ b2[d[m].kind] \in Nat /\ b[d[m].kind] <= b2[d[m].kind]
          BY Zenon, <1>2, <1>3, <1>4, <4>1
        <4>3. d[m].to <= b2[d[m].kind]
          BY <4>1, <4>2
        <4> QED
          BY Zenon, <1>8, <4>1, <4>3
      <3>2. 1 <= new.from /\ new.to <= b2[new.kind]
        BY <1>1, <1>2, <1>3, <1>4, <1>6
      <3> QED
        BY Zenon, <1>8, <3>1, <3>2
    <2>2. ASSUME NEW j \in KindSet, NEW i \in 1 .. b2[j]
          PROVE  \E m \in DOMAIN d2 : d2[m].kind = j /\ i \in d2[m].from .. d2[m].to
      <3>1. CASE i \in 1 .. b[j]
        <4>1. PICK m \in DOMAIN d : d[m].kind = j /\ i \in d[m].from .. d[m].to
          BY Zenon, <3>1 DEF Draws, DrawUpTo
        <4> QED
          BY Zenon, <1>8, <4>1
      <3>2. CASE i \notin 1 .. b[j]
        <4>1. j = k
          BY Zenon, <1>3, <3>2
        <4>2. i \in new.from .. new.to
          BY <1>1, <1>2, <1>3, <1>6, <3>2, <4>1
        <4> QED
          BY Zenon, <1>6, <1>8, <4>1, <4>2
      <3> QED
        BY Zenon, <3>1, <3>2
    <2>3. ASSUME NEW m \in DOMAIN d2, NEW n \in DOMAIN d2, NEW i \in d2[m].from .. d2[m].to,
                 NEW j \in d2[n].from .. d2[n].to, d2[m].kind = d2[n].kind, i = j
          PROVE  m = n
      <3>1. CASE m \in DOMAIN d /\ n \in DOMAIN d
        BY Zenon, <1>8, <2>3, <3>1 DEF Draws, DrawUpTo
      <3>2. ASSUME NEW h \in DOMAIN d, d[h].kind = k, NEW l \in d[h].from .. d[h].to
            PROVE  l \notin new.from .. new.to
        <4>1. l \in 1 .. b[k]
          BY Zenon, <1>10, <3>2
        <4> QED
          BY <1>1, <1>2, <1>6, <4>1
      <3> QED
        BY Zenon, <1>6, <1>8, <2>3, <3>1, <3>2
    <2> QED
      BY <1>8, <2>1, <2>2, <2>3 DEF DrawUpTo
  <1>12. DrawAlike(prims, d2)
    <2> DEFINE p == prims[k]
               f == b[k] + 1
    <2>1. ASSUME NEW m \in DOMAIN d2, NEW i \in d2[m].from .. d2[m].to, NEW j \in d2[m].from .. d2[m].to
          PROVE  /\ d2[m].kind \in SpriteKinds =>
                      Texture[prims[d2[m].kind][i].tile] = Texture[prims[d2[m].kind][j].tile]
                 /\ prims[d2[m].kind][i].blend # 0 => i = j
      <3>1. CASE m \in DOMAIN d
        BY <1>8, <2>1, <3>1 DEF Draws, DrawAlike
      <3>2. CASE m = N
        <4>1. d2[m].kind = k /\ i \in f .. e /\ j \in f .. e
          BY Zenon, <1>6, <1>8, <3>2
        <4>2. ASSUME NEW l \in f .. e PROVE l = f \/ SameBatch(p[f], p[l])
          <5>1. l = f \/ l \in b[k] + 2 .. e
            BY <1>1, <1>2
          <5> QED
            BY Zenon, <5>1 DEF IsNextBatch
        <4>3. \A l \in f .. e : p[l].kind = k /\ (k \in SpriteKinds => p[l].blend = 0)
          <5>1. \A l \in f .. e : l \in DOMAIN p
            BY <1>1, <1>2, <1>4
          <5> QED
            BY Zenon, <1>1, <5>1 DEF InRanks, IsPaint
        <4> HIDE DEF f, p
        <4>4. CASE k \in SpriteKinds
          BY <4>1, <4>2, <4>3, <4>4 DEF SameBatch, p
        <4>5. CASE k \notin SpriteKinds
          BY Zenon, <4>1, <4>2, <4>3, <4>5 DEF SameBatch, p
        <4> QED
          BY Zenon, <4>4, <4>5
      <3> QED
        BY ZenonT(60), <1>8, <3>1, <3>2
    <2> QED
      BY Zenon, <2>1 DEF DrawAlike
  <1>13. ASSUME NEW i \in b[k] + 1 .. e, NEW j \in KindSet, NEW l \in b2[j] + 1 .. len(j)
         PROVE  order(k, i) <= order(j, l)
    <2>1. CASE j = k
      <3>1. i \in DOMAIN prims[k] /\ l \in DOMAIN prims[k] /\ i <= l
        BY <1>1, <1>2, <1>3, <1>4, <2>1
      <3> QED
        BY Zenon, <1>1, <2>1, <3>1, OrdersAscend DEF order
    <2>2. CASE j # k
      BY Zenon, <1>3, <1>13, <2>2 DEF IsNextBatch, order, len
    <2> QED
      BY Zenon, <2>1, <2>2
  <1>14. ASSUME NEW m \in DOMAIN d, NEW i \in d[m].from .. d[m].to, NEW j \in KindSet,
                NEW l \in b[j] + 1 .. len(j)
         PROVE  order(d[m].kind, i) <= order(j, l)
    BY Zenon, <1>14 DEF Draws, DrawInOrder, order, len
  <1>15. \A j \in KindSet : \A l \in b2[j] + 1 .. len(j) : l \in b[j] + 1 .. len(j)
    BY <1>2, <1>3, <1>4
  <1>16. \A l \in b[k] + 1 .. e : l \in b[k] + 1 .. len(k)
    BY <1>1, <1>2, <1>4
  <1>17. DrawInOrder(prims, b2, d2)
    <2>1. ASSUME NEW m \in DOMAIN d2, NEW i \in d2[m].from .. d2[m].to, NEW j \in KindSet,
                 NEW l \in b2[j] + 1 .. len(j)
          PROVE  order(d2[m].kind, i) <= order(j, l)
      <3>1. CASE m \in DOMAIN d
        BY Zenon, <1>8, <1>14, <1>15, <2>1, <3>1
      <3>2. CASE m = N
        BY Zenon, <1>6, <1>8, <1>13, <2>1, <3>2
      <3> QED
        BY Zenon, <1>8, <3>1, <3>2
    <2>2. ASSUME NEW m \in DOMAIN d2, NEW n \in DOMAIN d2, NEW i \in d2[m].from .. d2[m].to,
                 NEW j \in d2[n].from .. d2[n].to, m < n
          PROVE  order(d2[m].kind, i) <= order(d2[n].kind, j)
      <3>1. CASE n \in DOMAIN d
        <4>1. m \in DOMAIN d
          BY <1>8, <2>2, <3>1
        <4> QED
          BY ZenonT(60), <1>8, <2>2, <3>1, <4>1 DEF Draws, DrawInOrder, order
      <3>2. CASE n = N
        <4>1. m \in DOMAIN d
          BY <1>8, <2>2, <3>2
        <4> QED
          BY ZenonT(60), <1>1, <1>6, <1>8, <1>14, <1>16, <2>2, <3>2, <4>1
      <3> QED
        BY Zenon, <1>8, <3>1, <3>2
    <2> QED
      BY Zenon, <2>1, <2>2 DEF DrawInOrder, order, len
  <1> QED
    BY Zenon, <1>5, <1>11, <1>12, <1>17 DEF Draws

\* The ranks of the kinds.
LEMMA RankFacts ==
  ASSUME NEW k \in KindSet PROVE Rank(k) \in Nat /\ Kinds[Rank(k)] = k
  <1>1. \E i \in DOMAIN Kinds : Kinds[i] = k
    BY Zenon DEF KindSet, Range
  <1>2. Rank(k) \in DOMAIN Kinds /\ Kinds[Rank(k)] = k
    BY Zenon, <1>1 DEF Rank
  <1> QED
    BY <1>2, SceneAssumption

\* Of the kinds that are left one comes before the others.
LEMMA NextKindFacts ==
  ASSUME WellFounded, InRanks(rendered.prims, begin), ~AllDrawn
  PROVE  /\ NextKind \in KindSet /\ Left(NextKind)
         /\ \A j \in KindSet \ {NextKind} : Left(j) => PeekLess(Peek(NextKind), Peek(j))
  <1> DEFINE K == {k \in KindSet : Left(k)}
             order(k) == FirstLeft(k).order
             A == {order(k) : k \in K}
  <1>1. \A k \in K : order(k) \in Nat
    <2> TAKE k \in K
    <2>1. begin[k] \in Nat /\ begin[k] < Len(rendered.prims[k])
      BY Zenon DEF InRanks, Left
    <2>2. begin[k] + 1 \in DOMAIN rendered.prims[k]
      BY <2>1, OrdersAscend
    <2> QED
      BY Zenon, <2>2, OrdersAscend DEF FirstLeft
  <1>2. K # {}
    BY Zenon DEF AllDrawn
  <1> HIDE DEF order
  <1>3. PICK a \in A : \A c \in A : a <= c
    <2>1. A \in SUBSET Nat /\ A # {}
      BY Zenon, <1>1, <1>2
    <2> HIDE DEF A
    <2> QED
      BY Zenon, <2>1 DEF WellFounded
  <1> DEFINE M == {k \in K : order(k) = a}
             R == {Rank(k) : k \in M}
  <1>4. PICK r \in R : \A c \in R : r <= c
    <2>1. R \in SUBSET Nat /\ R # {}
      BY Zenon, <1>3, RankFacts
    <2> HIDE DEF R
    <2> QED
      BY Zenon, <2>1 DEF WellFounded
  <1>5. PICK k \in M : Rank(k) = r
    BY Zenon, <1>4
  <1>6. ASSUME NEW j \in KindSet \ {k}, Left(j) PROVE PeekLess(Peek(k), Peek(j))
    <2>1. j \in K /\ k \in K /\ order(k) = a /\ order(k) \in Nat /\ order(j) \in Nat
      BY Zenon, <1>1, <1>6
    <2>2. order(k) <= order(j)
      BY Zenon, <1>3, <2>1
    <2>3. Rank(k) \in Nat /\ Rank(j) \in Nat /\ Rank(k) # Rank(j)
      BY Zenon, <1>6, <2>1, RankFacts
    <2>4. order(k) = order(j) => Rank(k) <= Rank(j)
      BY Zenon, <1>4, <1>5, <2>1
    <2> QED
      BY <2>1, <2>2, <2>3, <2>4 DEF PeekLess, Peek, order
  <1>7. k \in KindSet /\ Left(k)
    BY Zenon
  <1> HIDE DEF K, M, A, R
  <1>8. \E x \in KindSet : Left(x) /\ \A j \in KindSet \ {x} : Left(j) => PeekLess(Peek(x), Peek(j))
    BY Zenon, <1>6, <1>7
  <1> QED
    BY Zenon, <1>8 DEF NextKind

\* A batch ends at the first primitive that does not fit.
LEMMA BatchEndFacts ==
  ASSUME WellFounded, InRanks(rendered.prims, begin), NEW k \in KindSet, Left(k)
  PROVE  /\ BatchEnd(k) \in begin[k] + 1 .. Len(rendered.prims[k])
         /\ \A i \in begin[k] + 2 .. BatchEnd(k) : Fits(k, i)
  <1> DEFINE n == Len(rendered.prims[k])
             f == begin[k] + 1
             E == {e \in f .. n : e < n => ~Fits(k, e + 1)}
  <1>1. f \in Nat /\ n \in Nat /\ f <= n /\ begin[k] + 2 = f + 1 /\ begin[k] \in Nat
    BY OrdersAscend DEF InRanks, Left
  <1> HIDE DEF n
  <1>2. n \in E /\ E \in SUBSET Nat
    BY <1>1
  <1>3. PICK e \in E : \A c \in E : e <= c
    <2> HIDE DEF E
    <2> QED
      BY Zenon, <1>2 DEF WellFounded
  <1>4. ASSUME NEW i \in begin[k] + 2 .. e PROVE Fits(k, i)
    <2>1. i - 1 \in f .. n /\ i - 1 < e /\ i - 1 < n /\ (i - 1) + 1 = i
      BY <1>1
    <2>2. i - 1 \notin E
      BY <1>1, <1>3, <2>1
    <2> QED
      BY Zenon, <2>1, <2>2
  <1>5. e \in begin[k] + 1 .. n /\ (e < n => ~Fits(k, e + 1))
    BY Zenon
  <1> HIDE DEF E
  <1>6. \E x \in begin[k] + 1 .. n : /\ \A i \in begin[k] + 2 .. x : Fits(k, i)
                                     /\ x < n => ~Fits(k, x + 1)
    BY Zenon, <1>4, <1>5
  <1> QED
    BY Zenon, <1>6 DEF BatchEnd, n

\* The iterator returns a batch that may come next.
LEMMA NextBatchFacts ==
  ASSUME WellFounded, InRanks(rendered.prims, begin), ~AllDrawn
  PROVE  IsNextBatch(rendered.prims, begin, NextKind, BatchEnd(NextKind))
  <1> DEFINE k == NextKind
             e == BatchEnd(k)
             p == rendered.prims
             f == begin[k] + 1
  <1>1. /\ k \in KindSet /\ Left(k)
        /\ \A j \in KindSet \ {k} : Left(j) => PeekLess(Peek(k), Peek(j))
    BY Zenon, NextKindFacts
  <1>2. e \in f .. Len(p[k]) /\ \A i \in begin[k] + 2 .. e : Fits(k, i)
    BY Zenon, <1>1, BatchEndFacts
  <1> HIDE DEF k, e
  <1>3. \A i \in begin[k] + 2 .. e : SameBatch(p[k][f], p[k][i])
    BY Zenon, <1>2 DEF Fits, FirstLeft
  <1>4. begin[k] \in Nat /\ DOMAIN p[k] = 1 .. Len(p[k]) /\ Len(p[k]) \in Nat
    BY Zenon, <1>1, OrdersAscend DEF InRanks
  <1>5. ASSUME NEW i \in f .. e, NEW j \in KindSet \ {k}, NEW l \in begin[j] + 1 .. Len(p[j])
        PROVE  p[k][i].order <= p[j][l].order
    <2>1. /\ begin[j] \in Nat /\ DOMAIN p[j] = 1 .. Len(p[j]) /\ Len(p[j]) \in Nat
          /\ \A x, y \in DOMAIN p[j] : x <= y => p[j][x].order <= p[j][y].order
          /\ \A x \in DOMAIN p[j] : p[j][x].order \in Nat
      BY Zenon, OrdersAscend DEF InRanks
    <2>2. Left(j) /\ begin[j] + 1 \in DOMAIN p[j] /\ l \in DOMAIN p[j] /\ begin[j] + 1 <= l
      BY <2>1 DEF Left
    <2>3. FirstLeft(j).order <= p[j][l].order /\ FirstLeft(j).order \in Nat /\ p[j][l].order \in Nat
      BY Zenon, <2>1, <2>2 DEF FirstLeft
    <2>4. p[k][i].order \in Nat
      <3>1. i \in DOMAIN p[k]
        BY <1>2, <1>4
      <3> QED
        BY Zenon, <1>1, <3>1, OrdersAscend
    <2>5. PeekLess(<< p[k][i].order, Rank(k) >>, Peek(j))
      <3>1. CASE i = f
        BY Zenon, <1>1, <2>2, <3>1 DEF Peek, FirstLeft
      <3>2. CASE i # f
        <4>1. i \in begin[k] + 2 .. e
          BY <1>2, <1>4, <3>2
        <4> QED
          BY Zenon, <1>2, <2>2, <4>1 DEF Fits
      <3> QED
        BY Zenon, <3>1, <3>2
    <2>6. p[k][i].order <= FirstLeft(j).order
      BY <2>3, <2>4, <2>5 DEF PeekLess, Peek
    <2> QED
      BY <2>3, <2>4, <2>6
  <1> QED
    BY Zenon, <1>1, <1>2, <1>3, <1>5 DEF IsNextBatch, k, e

(***************************************************************************)
(* The inductive invariant                                                 *)
(***************************************************************************)

\* What a painted operation shows.
ContentSet == [op : {"primitive"}, paint : Primitives]
                \cup [op : {"start"}, bounds : LayerBounds] \cup [op : {"end"}]

\* A range of operations, or none.
IsRange(r, n) ==
  r # << >> => /\ r = << r[1], r[2] >> /\ r[1] \in Nat /\ r[2] \in Nat
               /\ r[1] <= r[2] /\ r[2] <= n

\* The operations a + 1 .. b of a scene show what c says.
Looks(scene, a, b, c) ==
  DOMAIN c = 1 .. b - a /\ \A i \in 1 .. b - a : c[i] = Shown(scene, scene.ops[a + i])

\* Where the painting of the views is.
ViewsInv ==
  /\ at \in 1 .. NumViews + 1 /\ painting \in BOOLEAN /\ moved \in BOOLEAN
  /\ start \in Nat /\ content \in [Views -> Seq(ContentSet)]
  /\ painting => at \in Views /\ start <= Len(next.ops)
  /\ newRange = [v \in Views |-> newRange[v]] /\ range = [v \in Views |-> range[v]]
  /\ \A v \in Views : IsRange(newRange[v], Len(next.ops)) /\ IsRange(range[v], Len(rendered.ops))
  /\ \A v \in Views : v >= at => newRange[v] = << >>

\* The scenes, and what has been drawn.
SceneInv ==
  /\ IsScene(next) /\ IsScene(rendered)
  /\ InRanks(rendered.prims, begin) /\ Draws(rendered.prims, begin, drawn)

\* What the views look like: those painted in this frame, those of the rendered
\* frame still to come, and the one that paints.
NewLooks == \A v \in Views :
  newRange[v] # << >> => Looks(next, newRange[v][1], newRange[v][2], content[v])
OldLooks == \A v \in Views :
  range[v] # << >> /\ v >= at /\ ~(painting /\ v = at) =>
    Looks(rendered, range[v][1], range[v][2], content[v])
PaintInv ==
  ~moved => NewLooks /\ OldLooks /\ (painting => Looks(next, start, Len(next.ops), content[at]))

\* The inductive invariant.
Inv == ViewsInv /\ SceneInv /\ PaintInv

\* The types of the operations of a scene.
LEMMA SceneFacts ==
  ASSUME NEW s, IsScene(s)
  PROVE  /\ s.ops \in Seq(OpSet) /\ Len(s.ops) \in Nat /\ DOMAIN s.ops = 1 .. Len(s.ops)
         /\ \A i \in DOMAIN s.ops : s.ops[i] \in OpSet /\ HasOp(s.prims, s.ops[i])
  <1>1. s.ops \in Seq(OpSet) /\ \A i \in DOMAIN s.ops : HasOp(s.prims, s.ops[i])
    BY Zenon DEF IsScene, GoodOps
  <1> QED
    BY <1>1

\* A part of a scene looks the same in a scene that keeps it.
LEMMA LooksKept ==
  ASSUME NEW s, IsScene(s), NEW t, Keeps(s, t), NEW a \in Nat, NEW b \in Nat, b <= Len(s.ops),
         NEW c, Looks(s, a, b, c)
  PROVE  Looks(t, a, b, c)
  <1>1. \A i \in 1 .. b - a : a + i \in DOMAIN s.ops
    BY SceneFacts
  <1> QED
    BY Zenon, <1>1 DEF Looks, Keeps

\* A part up to the end goes on with the next operation.
LEMMA LooksOn ==
  ASSUME NEW s, IsScene(s), NEW x, NEW t, Follows(s, t, x), NEW a \in Nat, a <= Len(s.ops),
         NEW S, NEW c \in Seq(S), x \in S, Looks(s, a, Len(s.ops), c)
  PROVE  Looks(t, a, Len(t.ops), Append(c, x))
  <1> DEFINE n == Len(s.ops)
             l == n - a
             d == Append(c, x)
  <1>1. n \in Nat /\ l \in Nat /\ a + (l + 1) = n + 1 /\ (n + 1) - a = l + 1
    BY SceneFacts
  <1>2. Len(t.ops) = n + 1 /\ Keeps(s, t) /\ Shown(t, t.ops[n + 1]) = x
    BY Zenon DEF Follows
  <1>3. DOMAIN c = 1 .. l /\ DOMAIN c = 1 .. Len(c) /\ Len(c) \in Nat
    BY DEF Looks
  <1>4. Len(c) = l
    BY <1>1, <1>3
  <1>5. DOMAIN d = DOMAIN c \cup {l + 1} /\ d[l + 1] = x /\ \A i \in DOMAIN c : d[i] = c[i]
    BY <1>4, AppendFacts
  <1>6. Looks(t, a, n, c)
    BY <1>1, <1>2, LooksKept
  <1> HIDE DEF n, d
  <1>7. \A i \in 1 .. l : d[i] = Shown(t, t.ops[a + i])
    BY ZenonT(30), <1>3, <1>5, <1>6 DEF Looks
  <1>8. 1 .. l + 1 = (1 .. l) \cup {l + 1}
    BY <1>1
  <1>9. d[l + 1] = Shown(t, t.ops[a + (l + 1)])
    BY Zenon, <1>1, <1>2, <1>5
  <1> HIDE DEF l
  <1>10. \A i \in 1 .. l + 1 : d[i] = Shown(t, t.ops[a + i])
    BY Zenon, <1>7, <1>8, <1>9
  <1> QED
    BY ZenonT(60), <1>1, <1>2, <1>3, <1>5, <1>8, <1>10 DEF Looks, d

\* What is in the range of a view.
LEMMA RangeFacts ==
  ASSUME NEW S, NEW ops \in Seq(S), NEW a \in Nat, NEW b \in Nat, a <= b, b <= Len(ops)
  PROVE  /\ InRange(ops, << a, b >>) \in Seq(S) /\ Len(InRange(ops, << a, b >>)) = b - a
         /\ DOMAIN InRange(ops, << a, b >>) = 1 .. b - a /\ b - a \in Nat
         /\ \A i \in 1 .. b - a : /\ InRange(ops, << a, b >>)[i] = ops[a + i]
                                  /\ a + i \in DOMAIN ops
  <1> DEFINE t == SubSeq(ops, a + 1, b)
  <1>1. InRange(ops, << a, b >>) = t
    BY Zenon DEF InRange
  <1>2. t \in Seq(S) /\ Len(t) = b - a
    <2>1. CASE a = b
      <3>1. t = << >>
        BY <2>1
      <3> QED
        BY <2>1, <3>1
    <2>2. CASE a < b
      <3>1. a + 1 \in Nat /\ a + 1 <= b /\ b - (a + 1) + 1 = b - a
        BY <2>2
      <3>2. t \in Seq(S)
        BY <3>1
      <3>3. Len(t) = b - (a + 1) + 1
        BY <3>1
      <3> QED
        BY Zenon, <3>1, <3>2, <3>3
    <2> QED
      BY <2>1, <2>2
  <1>3. \A i \in 1 .. b - a : t[i] = ops[a + i] /\ a + i \in DOMAIN ops
    <2> TAKE i \in 1 .. b - a
    <2>1. i \in 1 .. b - (a + 1) + 1 /\ a + 1 \in Nat /\ (a + 1) + i - 1 = a + i
      OBVIOUS
    <2>2. t[i] = ops[(a + 1) + i - 1]
      BY <2>1
    <2> QED
      BY <2>1, <2>2
  <1>4. DOMAIN t = 1 .. b - a /\ b - a \in Nat
    <2> HIDE DEF t
    <2>1. b - a \in Nat
      OBVIOUS
    <2> QED
      BY <1>2, <2>1
  <1> HIDE DEF t
  <1> QED
    BY Zenon, <1>1, <1>2, <1>3, <1>4

\* Scene t is s with a part of another one at the end, which looks as there.
EndsWith(s, prev, a, b, t) ==
  /\ IsScene(t) /\ Keeps(s, t) /\ Len(s.ops) \in Nat /\ Len(t.ops) \in Nat
  /\ Len(s.ops) <= Len(t.ops)
  /\ \A c : Looks(prev, a, b, c) => Looks(t, Len(s.ops), Len(t.ops), c)

\* A part that is replayed looks as it did.
LEMMA LooksReplayed ==
  ASSUME WellFounded, NEW s, IsScene(s), NEW prev, IsScene(prev), NEW a \in Nat, NEW b \in Nat,
         a <= b, b <= Len(prev.ops), NEW t, t = Replay(s, prev, InRange(prev.ops, << a, b >>))
  PROVE  EndsWith(s, prev, a, b, t)
  <1> DEFINE ops == InRange(prev.ops, << a, b >>)
             n == Len(s.ops)
  <1>1. prev.ops \in Seq(OpSet) /\ \A i \in DOMAIN prev.ops : HasOp(prev.prims, prev.ops[i])
    BY Zenon, SceneFacts
  <1>2. /\ ops \in Seq(OpSet) /\ Len(ops) = b - a /\ DOMAIN ops = 1 .. b - a /\ b - a \in Nat
        /\ \A i \in 1 .. b - a : ops[i] = prev.ops[a + i] /\ a + i \in DOMAIN prev.ops
    <2> DEFINE p == prev.ops
               r == << a, b >>
    <2>1. p \in Seq(OpSet) /\ b <= Len(p)
      BY Zenon, <1>1
    <2> HIDE DEF p
    <2>2. InRange(p, r) \in Seq(OpSet)
      BY Zenon, <2>1, RangeFacts
    <2>3. Len(InRange(p, r)) = b - a /\ DOMAIN InRange(p, r) = 1 .. b - a /\ b - a \in Nat
      BY <2>1, RangeFacts
    <2>4. \A i \in 1 .. b - a : InRange(p, r)[i] = p[a + i] /\ a + i \in DOMAIN p
      BY Zenon, <2>1, RangeFacts
    <2> QED
      BY Zenon, <2>2, <2>3, <2>4 DEF p
  <1> HIDE DEF ops
  <1>3. \A i \in DOMAIN ops : HasOp(prev.prims, ops[i])
    BY Zenon, <1>1, <1>2
  <1>4. Replays(s, prev, ops, b - a, t)
    BY Zenon, <1>2, <1>3, ReplayFacts DEF ops
  <1>5. /\ IsScene(t) /\ Keeps(s, t) /\ Len(t.ops) = n + (b - a)
        /\ \A i \in 1 .. b - a : Shown(t, t.ops[n + i]) = Shown(prev, ops[i])
    BY Zenon, <1>4 DEF Replays
  <1>6. n \in Nat /\ Len(t.ops) \in Nat
    BY Zenon, <1>5, SceneFacts
  <1> HIDE DEF n
  <1>7. n <= Len(t.ops) /\ Len(t.ops) - n = b - a
    BY <1>2, <1>5, <1>6
  <1>8. \A c : Looks(prev, a, b, c) => Looks(t, n, Len(t.ops), c)
    BY Zenon, <1>2, <1>5, <1>7 DEF Looks
  <1> QED
    BY Zenon, <1>5, <1>6, <1>7, <1>8 DEF n, EndsWith

\* Before its first batch a finished scene has no primitive drawn.
LEMMA NothingDrawn ==
  ASSUME NEW s, IsScene(s), \A k \in KindSet : InOrder(s.prims[k])
  PROVE  InRanks(s.prims, [k \in KindSet |-> 0]) /\ Draws(s.prims, [k \in KindSet |-> 0], << >>)
  <1> DEFINE b == [k \in KindSet |-> 0]
  <1>1. b \in [KindSet -> Nat] /\ \A k \in KindSet : b[k] = 0 /\ 1 .. b[k] = {}
    OBVIOUS
  <1>2. /\ s.prims \in [KindSet -> Seq(PrimitiveSet)]
        /\ \A k \in KindSet : \A i \in DOMAIN s.prims[k] :
             s.prims[k][i].kind = k /\ IsPaint(s.prims[k][i])
    BY Zenon DEF IsScene, GoodPrimitives
  <1> HIDE DEF b
  <1>3. InRanks(s.prims, b)
    BY <1>1, <1>2 DEF InRanks
  <1>4. << >> \in Seq(BatchSet) /\ DOMAIN << >> = {}
    OBVIOUS
  <1>5. DrawUpTo(b, << >>) /\ DrawAlike(s.prims, << >>) /\ DrawInOrder(s.prims, b, << >>)
    BY Zenon, <1>1, <1>4 DEF DrawUpTo, DrawAlike, DrawInOrder
  <1> QED
    BY Zenon, <1>3, <1>5 DEF Draws, b

\* The invariant holds at the start.
LEMMA InitFacts == Init => Inv
  <1> SUFFICES ASSUME Init PROVE Inv
    BY Zenon
  <1> USE DEF Init
  <1>1. IsScene(EmptyScene) /\ \A k \in KindSet : EmptyScene.prims[k] = << >>
    BY Zenon, EmptySceneFacts DEF EmptyScene
  <1>2. \A k \in KindSet : InOrder(EmptyScene.prims[k])
    BY <1>1 DEF InOrder
  <1>3. SceneInv
    BY Zenon, <1>1, <1>2, NothingDrawn DEF SceneInv
  <1>4. ViewsInv
    <2>1. NumViews \in Nat
      BY Zenon, SceneAssumption
    <2>2. content \in [Views -> Seq(ContentSet)]
      OBVIOUS
    <2>3. /\ newRange = [v \in Views |-> newRange[v]] /\ range = [v \in Views |-> range[v]]
          /\ \A v \in Views : newRange[v] = << >> /\ range[v] = << >>
      BY Zenon
    <2>4. painting \in BOOLEAN /\ moved \in BOOLEAN /\ ~painting
      BY Zenon
    <2>5. at \in 1 .. NumViews + 1 /\ start \in Nat
      BY <2>1
    <2> QED
      <3> HIDE DEF Init
      <3> QED
        BY Zenon, <2>2, <2>3, <2>4, <2>5 DEF ViewsInv, IsRange
  <1>5. PaintInv
    BY Zenon DEF PaintInv, NewLooks, OldLooks
  <1> QED
    BY Zenon, <1>3, <1>4, <1>5 DEF Inv

\* One more operation is painted.
OpPainted(x) ==
  /\ painting /\ x \in ContentSet /\ Follows(next, next', x)
  /\ content' = [content EXCEPT ![at] = Append(@, x)]
  /\ UNCHANGED << at, painting, start, newRange >> /\ Fixed /\ Undrawn

\* An operation of the view that paints keeps the invariant.
LEMMA OpPaintedFacts ==
  ASSUME Inv, NEW x, OpPainted(x) PROVE Inv'
  <1> USE DEF OpPainted, Fixed, Undrawn
  <1>1. ViewsInv /\ SceneInv /\ PaintInv
    BY Zenon DEF Inv
  <1>2. /\ IsScene(next) /\ IsScene(next') /\ Keeps(next, next')
        /\ Len(next'.ops) = Len(next.ops) + 1 /\ Len(next.ops) \in Nat
    BY Zenon, <1>1, SceneFacts DEF SceneInv, Follows
  <1>3. at \in Views /\ start \in Nat /\ start <= Len(next.ops) /\ content \in [Views -> Seq(ContentSet)]
    BY Zenon, <1>1 DEF ViewsInv
  <1>4. /\ content' \in [Views -> Seq(ContentSet)] /\ content'[at] = Append(content[at], x)
        /\ \A v \in Views \ {at} : content'[v] = content[v]
    BY <1>3
  <1>5. SceneInv'
    BY Zenon, <1>1, <1>2 DEF SceneInv
  <1>6. ViewsInv'
    <2>1. \A r : IsRange(r, Len(next.ops)) => IsRange(r, Len(next'.ops))
      BY <1>2 DEF IsRange
    <2>2. start <= Len(next'.ops)
      BY <1>2, <1>3
    <2> QED
      BY Zenon, <1>1, <1>4, <2>1, <2>2 DEF ViewsInv
  <1>7. PaintInv'
    <2> SUFFICES ASSUME ~moved
                 PROVE  NewLooks' /\ OldLooks' /\ Looks(next', start', Len(next'.ops), content'[at'])
      BY Zenon DEF PaintInv
    <2>1. NewLooks /\ OldLooks /\ Looks(next, start, Len(next.ops), content[at])
      BY Zenon, <1>1 DEF PaintInv
    <2>2. Looks(next', start, Len(next'.ops), Append(content[at], x))
      <3>1. content[at] \in Seq(ContentSet)
        BY Zenon, <1>3
      <3> QED
        BY Zenon, <1>2, <1>3, <2>1, <3>1, LooksOn
    <2>3. NewLooks'
      <3> SUFFICES ASSUME NEW v \in Views, newRange[v] # << >>
                   PROVE  Looks(next', newRange[v][1], newRange[v][2], content'[v])
        BY Zenon DEF NewLooks
      <3>1. v # at /\ IsRange(newRange[v], Len(next.ops))
        BY <1>1, <1>3 DEF ViewsInv
      <3>2. newRange[v][1] \in Nat /\ newRange[v][2] \in Nat /\ newRange[v][2] <= Len(next.ops)
        BY Zenon, <3>1 DEF IsRange
      <3>3. Looks(next, newRange[v][1], newRange[v][2], content[v])
        BY Zenon, <2>1 DEF NewLooks
      <3>4. Looks(next', newRange[v][1], newRange[v][2], content[v])
        BY <1>2, <3>2, <3>3, LooksKept
      <3> QED
        BY Zenon, <1>4, <3>1, <3>4
    <2>4. OldLooks'
      BY Zenon, <1>4, <2>1 DEF OldLooks
    <2> QED
      BY Zenon, <1>4, <2>2, <2>3, <2>4
  <1> QED
    BY Zenon, <1>5, <1>6, <1>7 DEF Inv

\* A primitive is painted.
LEMMA PaintPrimitiveFacts ==
  ASSUME WellFounded, Inv, NEW p \in Primitives, PaintPrimitive(p) PROVE Inv'
  <1> DEFINE x == [op |-> "primitive", paint |-> p]
  <1>1. p \in [kind : KindSet, bounds : Bounds, tile : Nat, blend : Nat]
    BY Zenon, SceneAssumption DEF KindSet
  <1>2. IsPaint(p)
    BY Zenon, <1>1, SceneAssumption DEF IsPaint
  <1>3. Paint(p) = p
    BY Zenon, <1>1 DEF Paint
  <1>4. x \in ContentSet
    BY Zenon DEF ContentSet
  <1>5. Follows(next, next', x)
    <2>1. Follows(next, InsertPrimitive(next, p), [op |-> "primitive", paint |-> Paint(p)])
      BY Zenon, <1>2, InsertPrimitiveFacts DEF Inv, SceneInv
    <2> QED
      BY Zenon, <1>3, <2>1 DEF PaintPrimitive
  <1>6. content' = [content EXCEPT ![at] = Append(@, x)]
    BY Zenon DEF PaintPrimitive
  <1> HIDE DEF x
  <1>7. OpPainted(x)
    BY Zenon, <1>4, <1>5, <1>6 DEF PaintPrimitive, OpPainted
  <1> QED
    BY Zenon, <1>7, OpPaintedFacts

\* A layer is started.
LEMMA StartLayerFacts ==
  ASSUME WellFounded, Inv, NEW b \in LayerBounds, StartLayer(b) PROVE Inv'
  <1> DEFINE x == [op |-> "start", bounds |-> b]
  <1>1. b \in Bounds
    BY Zenon, SceneAssumption
  <1>2. x \in ContentSet
    BY Zenon DEF ContentSet
  <1>3. Follows(next, next', x)
    BY Zenon, <1>1, PushLayerFacts DEF Inv, SceneInv, StartLayer
  <1>4. content' = [content EXCEPT ![at] = Append(@, x)]
    BY Zenon DEF StartLayer
  <1> HIDE DEF x
  <1>5. OpPainted(x)
    BY Zenon, <1>2, <1>3, <1>4 DEF StartLayer, OpPainted
  <1> QED
    BY Zenon, <1>5, OpPaintedFacts

\* A layer is ended.
LEMMA EndLayerFacts ==
  ASSUME Inv, EndLayer PROVE Inv'
  <1> DEFINE x == [op |-> "end"]
  <1>1. x \in ContentSet
    BY Zenon DEF ContentSet
  <1>2. Follows(next, next', x)
    BY Zenon, PopLayerFacts DEF Inv, SceneInv, EndLayer
  <1>3. content' = [content EXCEPT ![at] = Append(@, x)]
    BY Zenon DEF EndLayer
  <1> HIDE DEF x
  <1>4. OpPainted(x)
    BY Zenon, <1>1, <1>2, <1>3 DEF EndLayer, OpPainted
  <1> QED
    BY Zenon, <1>4, OpPaintedFacts

\* The iterator is dropped.
LEMMA DropFacts ==
  ASSUME SceneInv, DropIterator, rendered' = rendered
  PROVE  InRanks(rendered.prims, begin') /\ Draws(rendered.prims, begin', drawn')
  <1>1. IsScene(rendered) /\ \A k \in KindSet : InOrder(rendered.prims[k])
    BY Zenon DEF SceneInv, InRanks
  <1> QED
    BY Zenon, <1>1, NothingDrawn DEF DropIterator

\* A view starts to paint.
LEMMA PaintViewFacts ==
  ASSUME Inv, PaintView PROVE Inv'
  <1> USE DEF PaintView, Fixed
  <1>1. ViewsInv /\ SceneInv /\ PaintInv
    BY Zenon DEF Inv
  <1>2. IsScene(next) /\ Len(next.ops) \in Nat
    BY Zenon, <1>1, SceneFacts DEF SceneInv
  <1>3. at \in Views /\ content \in [Views -> Seq(ContentSet)]
    BY Zenon, <1>1 DEF ViewsInv
  <1>4. /\ content' \in [Views -> Seq(ContentSet)] /\ content'[at] = << >>
        /\ \A v \in Views \ {at} : content'[v] = content[v]
    BY <1>3
  <1>5. SceneInv'
    BY Zenon, <1>1, DropFacts DEF SceneInv
  <1>6. ViewsInv'
    <2>1. painting' \in BOOLEAN
      BY Zenon
    <2> QED
      BY <1>1, <1>2, <1>3, <1>4, <2>1 DEF ViewsInv
  <1>7. PaintInv'
    <2> SUFFICES ASSUME ~moved
                 PROVE  NewLooks' /\ OldLooks' /\ Looks(next', start', Len(next'.ops), content'[at'])
      BY Zenon DEF PaintInv
    <2>1. NewLooks /\ OldLooks
      BY Zenon, <1>1 DEF PaintInv
    <2>2. Looks(next, Len(next.ops), Len(next.ops), << >>)
      <3>1. Len(next.ops) - Len(next.ops) = 0 /\ 1 .. 0 = {} /\ DOMAIN << >> = {}
        BY <1>2
      <3> QED
        BY Zenon, <3>1 DEF Looks
    <2>3. NewLooks'
      <3>1. newRange[at] = << >>
        BY <1>1, <1>3 DEF ViewsInv, Views
      <3> QED
        BY Zenon, <1>4, <2>1, <3>1 DEF NewLooks
    <2>4. OldLooks'
      BY Zenon, <1>4, <2>1 DEF OldLooks
    <2> QED
      BY Zenon, <1>4, <2>2, <2>3, <2>4
  <1> QED
    BY Zenon, <1>5, <1>6, <1>7 DEF Inv

\* A view gets its range.
Ranged(a, b) ==
  /\ at \in Views /\ newRange' = [newRange EXCEPT ![at] = << a, b >>] /\ at' = at + 1
  /\ a \in Nat /\ b \in Nat /\ a <= b /\ b <= Len(next'.ops)

\* The range of a view is the part of the scene that shows its content.
LEMMA RangedFacts ==
  ASSUME Inv, NEW a, NEW b, Ranged(a, b), IsScene(next'), Keeps(next, next'),
         Len(next.ops) <= Len(next'.ops), painting' = FALSE, start' \in Nat,
         content' = content, Fixed,
         ~moved => Looks(next', a, b, content[at])
  PROVE  ViewsInv' /\ PaintInv'
  <1> USE DEF Ranged, Fixed
  <1>1. ViewsInv /\ SceneInv /\ PaintInv
    BY Zenon DEF Inv
  <1>2. IsScene(next) /\ Len(next.ops) \in Nat /\ Len(next'.ops) \in Nat
    BY Zenon, <1>1, SceneFacts DEF SceneInv
  <1>3. NumViews \in Nat /\ at \in 1 .. NumViews /\ at' = at + 1
    BY Zenon, SceneAssumption DEF Views
  <1>4. /\ newRange'[at] = << a, b >> /\ << a, b >> # << >>
        /\ \A v \in Views \ {at} : newRange'[v] = newRange[v]
        /\ newRange' = [v \in Views |-> newRange'[v]]
    BY Zenon, <1>1 DEF ViewsInv
  <1>5. \A v \in Views : v >= at' => v >= at /\ v # at
    BY <1>3 DEF Views
  <1>6. ViewsInv'
    <2>1. \A r : IsRange(r, Len(next.ops)) => IsRange(r, Len(next'.ops))
      BY <1>2 DEF IsRange
    <2>2. IsRange(<< a, b >>, Len(next'.ops))
      BY Zenon DEF IsRange
    <2>3. \A v \in Views : IsRange(newRange'[v], Len(next'.ops)) /\ IsRange(range[v], Len(rendered.ops))
      BY Zenon, <1>1, <1>4, <2>1, <2>2 DEF ViewsInv
    <2>4. \A v \in Views : v >= at' => newRange'[v] = << >>
      BY Zenon, <1>1, <1>4, <1>5 DEF ViewsInv
    <2>5. painting' \in BOOLEAN /\ ~painting'
      BY Zenon
    <2>6. at' \in 1 .. NumViews + 1
      BY <1>3
    <2> QED
      BY ZenonT(60), <1>1, <1>4, <2>3, <2>4, <2>5, <2>6 DEF ViewsInv
  <1>7. PaintInv'
    <2> SUFFICES ASSUME ~moved PROVE NewLooks' /\ OldLooks'
      BY Zenon DEF PaintInv
    <2>1. NewLooks /\ OldLooks
      BY Zenon, <1>1 DEF PaintInv
    <2>2. NewLooks'
      <3> SUFFICES ASSUME NEW v \in Views, newRange'[v] # << >>
                   PROVE  Looks(next', newRange'[v][1], newRange'[v][2], content[v])
        BY Zenon DEF NewLooks
      <3>1. CASE v = at
        BY Zenon, <1>4, <3>1
      <3>2. CASE v # at
        <4>1. newRange'[v] = newRange[v] /\ IsRange(newRange[v], Len(next.ops))
          BY Zenon, <1>1, <1>4, <3>2 DEF ViewsInv
        <4>2. newRange[v][1] \in Nat /\ newRange[v][2] \in Nat /\ newRange[v][2] <= Len(next.ops)
          BY Zenon, <4>1 DEF IsRange
        <4>3. Looks(next, newRange[v][1], newRange[v][2], content[v])
          BY Zenon, <2>1, <4>1 DEF NewLooks
        <4>4. Looks(next', newRange[v][1], newRange[v][2], content[v])
          BY ZenonT(60), <1>2, <4>2, <4>3, LooksKept
        <4> QED
          BY Zenon, <4>1, <4>4
      <3> QED
        BY Zenon, <3>1, <3>2
    <2>3. OldLooks'
      BY Zenon, <1>5, <2>1 DEF OldLooks
    <2> QED
      BY Zenon, <2>2, <2>3
  <1> QED
    BY Zenon, <1>6, <1>7

\* A view has painted: its range is what it painted.
LEMMA ViewPaintedFacts ==
  ASSUME Inv, ViewPainted PROVE Inv'
  <1> USE DEF ViewPainted, Fixed, Undrawn
  <1>1. ViewsInv /\ SceneInv /\ PaintInv
    BY Zenon DEF Inv
  <1>2. IsScene(next) /\ Len(next.ops) \in Nat /\ start \in Nat /\ start <= Len(next.ops) /\ at \in Views
    BY Zenon, <1>1, SceneFacts DEF SceneInv, ViewsInv
  <1>3. Ranged(start, Len(next.ops))
    BY <1>2 DEF Ranged
  <1>4. Keeps(next, next') /\ IsScene(next') /\ Len(next.ops) <= Len(next'.ops)
    BY <1>2 DEF Keeps
  <1>5. ~moved => Looks(next', start, Len(next.ops), content[at])
    BY Zenon, <1>1 DEF PaintInv
  <1>6. painting' = FALSE /\ start' \in Nat /\ content' = content /\ Fixed
    BY Zenon
  <1> HIDE DEF ViewPainted, Fixed
  <1>7. ViewsInv' /\ PaintInv'
    BY Zenon, <1>3, <1>4, <1>5, <1>6, RangedFacts
  <1>8. SceneInv'
    BY Zenon, <1>1 DEF SceneInv, ViewPainted, Fixed
  <1> QED
    BY Zenon, <1>7, <1>8 DEF Inv

\* A cached view is replayed: its range is what was replayed.
LEMMA ReuseViewFacts ==
  ASSUME WellFounded, Inv, ReuseView PROVE Inv'
  <1> DEFINE a == range[at][1]
             b == range[at][2]
  <1>1. ViewsInv /\ SceneInv /\ PaintInv
    BY Zenon DEF Inv
  <1>2. /\ at \in Views /\ range[at] # << >> /\ ~painting
        /\ next' = Replay(next, rendered, InRange(rendered.ops, range[at]))
        /\ newRange' = [newRange EXCEPT ![at] = << Len(next.ops), Len(next'.ops) >>]
        /\ at' = at + 1 /\ painting' = painting /\ start' = start /\ content' = content
        /\ Fixed /\ DropIterator
    BY Zenon DEF ReuseView, ReplayedRange
  <1>3. IsScene(next) /\ IsScene(rendered)
    BY Zenon, <1>1 DEF SceneInv
  <1>4. range[at] = << a, b >> /\ a \in Nat /\ b \in Nat /\ a <= b /\ b <= Len(rendered.ops)
    BY Zenon, <1>1, <1>2 DEF ViewsInv, IsRange
  <1> HIDE DEF a, b
  <1>5. next' = Replay(next, rendered, InRange(rendered.ops, << a, b >>))
    BY ZenonT(30), <1>2, <1>4
  <1>6. /\ IsScene(next') /\ Keeps(next, next') /\ Len(next.ops) \in Nat /\ Len(next'.ops) \in Nat
        /\ Len(next.ops) <= Len(next'.ops)
        /\ \A c : Looks(rendered, a, b, c) => Looks(next', Len(next.ops), Len(next'.ops), c)
    <2>1. EndsWith(next, rendered, a, b, next')
      BY ZenonT(60), <1>3, <1>4, <1>5, LooksReplayed
    <2> QED
      BY Zenon, <2>1 DEF EndsWith
  <1>7. Ranged(Len(next.ops), Len(next'.ops))
    BY <1>2, <1>6 DEF Ranged
  <1>8. ~moved => Looks(next', Len(next.ops), Len(next'.ops), content[at])
    <2>1. at >= at
      BY <1>2 DEF Views
    <2>2. ~moved => Looks(rendered, range[at][1], range[at][2], content[at])
      BY Zenon, <1>1, <1>2, <2>1 DEF PaintInv, OldLooks
    <2> QED
      BY Zenon, <1>6, <2>2 DEF a, b
  <1>9. painting' = FALSE /\ start' \in Nat
    <2>1. painting \in BOOLEAN /\ start \in Nat
      BY Zenon, <1>1 DEF ViewsInv
    <2> QED
      BY Zenon, <1>2, <2>1
  <1>10. ViewsInv' /\ PaintInv'
    BY ZenonT(30), <1>2, <1>6, <1>7, <1>8, <1>9, RangedFacts
  <1>11. SceneInv'
    BY Zenon, <1>1, <1>2, <1>6, DropFacts DEF SceneInv, Fixed
  <1> QED
    BY Zenon, <1>10, <1>11 DEF Inv

\* A frame is finished: its ranges are those of the rendered scene.
LEMMA FinishFrameFacts ==
  ASSUME Inv, FinishFrame PROVE Inv'
  <1> USE DEF FinishFrame
  <1>1. ViewsInv /\ SceneInv /\ PaintInv
    BY ZenonT(30) DEF Inv
  <1>2. IsScene(next)
    BY Zenon, <1>1 DEF SceneInv
  <1>3. /\ IsScene(rendered') /\ rendered'.ops = next.ops
        /\ \A k \in KindSet : InOrder(rendered'.prims[k])
    BY Zenon, <1>2, FinishedFacts
  <1>4. SceneInv'
    <2>1. IsScene(next')
      BY Zenon, EmptySceneFacts
    <2>2. InRanks(rendered'.prims, begin') /\ Draws(rendered'.prims, begin', drawn')
      BY Zenon, <1>3, NothingDrawn DEF DropIterator
    <2> QED
      BY Zenon, <1>3, <2>1, <2>2 DEF SceneInv
  <1>5. NumViews \in Nat /\ at \notin Views
    BY SceneAssumption DEF Views
  <1>6. ~painting
    BY Zenon, <1>1, <1>5 DEF ViewsInv
  <1>7. newRange' = [v \in Views |-> newRange'[v]] /\ \A v \in Views : newRange'[v] = << >>
    BY Zenon
  <1>8. ViewsInv'
    <2>1. moved' \in BOOLEAN /\ painting' \in BOOLEAN /\ ~painting'
      <3>1. moved \in BOOLEAN /\ painting \in BOOLEAN
        BY Zenon, <1>1 DEF ViewsInv
      <3> QED
        BY Zenon, <1>6, <3>1
    <2>2. at' \in 1 .. NumViews + 1 /\ start' \in Nat
      BY <1>5
    <2>3. content' \in [Views -> Seq(ContentSet)]
      BY Zenon, <1>1 DEF ViewsInv
    <2>4. range' = [v \in Views |-> range'[v]] /\ \A v \in Views : IsRange(range'[v], Len(rendered'.ops))
      BY Zenon, <1>1, <1>3 DEF ViewsInv
    <2> HIDE DEF FinishFrame
    <2> QED
      BY ZenonT(60), <1>7, <2>1, <2>2, <2>3, <2>4 DEF ViewsInv, IsRange
  <1>9. PaintInv'
    <2> SUFFICES ASSUME ~moved' PROVE NewLooks' /\ OldLooks'
      BY Zenon, <1>6 DEF PaintInv
    <2>1. ~moved /\ rendered'.prims = next.prims
      BY Zenon
    <2>2. NewLooks
      BY Zenon, <1>1, <2>1 DEF PaintInv
    <2>3. \A x, y, c : Looks(next, x, y, c) => Looks(rendered', x, y, c)
      BY ZenonT(60), <1>3, <2>1 DEF Looks, Shown, Replayed
    <2>4. OldLooks'
      BY Zenon, <2>2, <2>3 DEF NewLooks, OldLooks
    <2>5. NewLooks'
      BY Zenon, <1>7 DEF NewLooks
    <2> QED
      BY Zenon, <2>4, <2>5
  <1> QED
    BY Zenon, <1>4, <1>8, <1>9 DEF Inv

\* A batch is drawn.
LEMMA DrawBatchFacts ==
  ASSUME WellFounded, Inv, DrawBatch PROVE Inv'
  <1> DEFINE k == NextKind
             e == BatchEnd(k)
  <1>1. ViewsInv /\ SceneInv /\ PaintInv
    BY Zenon DEF Inv
  <1>2. /\ ~AllDrawn /\ begin' = [begin EXCEPT ![k] = e]
        /\ drawn' = Append(drawn, [kind |-> k, from |-> begin[k] + 1, to |-> e])
        /\ UNCHANGED << building, rendered, range, frames, moved >>
    BY Zenon DEF DrawBatch
  <1>3. InRanks(rendered.prims, begin) /\ Draws(rendered.prims, begin, drawn)
    BY Zenon, <1>1 DEF SceneInv
  <1>4. IsNextBatch(rendered.prims, begin, k, e)
    BY Zenon, <1>2, <1>3, NextBatchFacts
  <1> HIDE DEF k, e
  <1>5. InRanks(rendered.prims, begin') /\ Draws(rendered.prims, begin', drawn')
    <2>1. Drawing(begin, drawn, k, e, begin', drawn')
      BY Zenon, <1>2 DEF Drawing
    <2> QED
      BY Zenon, <1>3, <1>4, <2>1, DrawsOn
  <1>6. SceneInv'
    BY Zenon, <1>1, <1>2, <1>5 DEF SceneInv, building
  <1>7. ViewsInv' /\ PaintInv'
    BY Zenon, <1>1, <1>2 DEF ViewsInv, PaintInv, NewLooks, OldLooks, building
  <1> QED
    BY Zenon, <1>6, <1>7 DEF Inv

\* Every step keeps the invariant.
LEMMA NextFacts ==
  ASSUME WellFounded, Inv, [Next]_vars PROVE Inv'
  <1>1. CASE UNCHANGED vars
    BY Zenon, <1>1 DEF Inv, ViewsInv, SceneInv, PaintInv, NewLooks, OldLooks, vars, building
  <1>2. CASE Next
    BY <1>2, PaintViewFacts, ViewPaintedFacts, EndLayerFacts, ReuseViewFacts, FinishFrameFacts,
       DrawBatchFacts, PaintPrimitiveFacts, StartLayerFacts DEF Next
  <1> QED
    BY Zenon, <1>1, <1>2

\* A batch of the batches drawn is a part of a vector.
LEMMA DrawnPart ==
  ASSUME NEW prims, NEW b, InRanks(prims, b), NEW d, Draws(prims, b, d), NEW m \in DOMAIN d,
         NEW i \in d[m].from .. d[m].to
  PROVE  /\ d[m].kind \in KindSet /\ i \in DOMAIN prims[d[m].kind]
         /\ i \in Int /\ m \in Nat
  <1> DEFINE k == d[m].kind
             f == d[m].from
             e == d[m].to
  <1>1. d \in Seq(BatchSet) /\ 1 <= f /\ e <= b[k]
    BY ZenonT(30) DEF Draws, DrawUpTo
  <1>2. d[m] \in BatchSet /\ m \in Nat
    BY <1>1
  <1>3. k \in KindSet /\ f \in Nat /\ e \in Nat
    BY Zenon, <1>2 DEF BatchSet
  <1>4. /\ b[k] \in Nat /\ b[k] <= Len(prims[k]) /\ Len(prims[k]) \in Nat
        /\ DOMAIN prims[k] = 1 .. Len(prims[k])
    BY Zenon, <1>3, OrdersAscend DEF InRanks
  <1>5. i \in f .. e
    BY Zenon
  <1> HIDE DEF k, f, e
  <1>6. i \in Int /\ i \in 1 .. Len(prims[k])
    BY <1>1, <1>3, <1>4, <1>5
  <1> QED
    BY Zenon, <1>2, <1>3, <1>4, <1>6 DEF k

\* Of two primitives that have been drawn, the one of the lower order came
\* first.
LEMMA DrawnByOrder ==
  ASSUME NEW prims, NEW b, InRanks(prims, b), NEW d, Draws(prims, b, d), NEW m \in DOMAIN d,
         NEW n \in DOMAIN d, NEW i \in d[m].from .. d[m].to, NEW j \in d[n].from .. d[n].to,
         prims[d[m].kind][i].order < prims[d[n].kind][j].order
  PROVE  m < n \/ (m = n /\ i < j)
  <1> DEFINE h == d[m].kind
             k == d[n].kind
             x == prims[h][i].order
             y == prims[k][j].order
  <1>1. /\ h \in KindSet /\ i \in DOMAIN prims[h] /\ i \in Int /\ m \in Nat
        /\ k \in KindSet /\ j \in DOMAIN prims[k] /\ j \in Int /\ n \in Nat
    BY Zenon, DrawnPart
  <1>2. x \in Nat /\ y \in Nat /\ x < y
    BY ZenonT(60), <1>1, OrdersAscend
  <1>3. n < m => y <= x
    BY Zenon DEF Draws, DrawInOrder
  <1>4. m = n /\ j <= i => y <= x
    BY ZenonT(30), <1>1, OrdersAscend
  <1> HIDE DEF x, y
  <1> QED
    BY <1>1, <1>2, <1>3, <1>4

\* What is placed later, over something else, has a higher order.
LEMMA LaterIsAbove ==
  ASSUME NEW nodes, Ordered(nodes), NEW p, NEW q, Placed(nodes, p), Placed(nodes, q),
         p.since < q.since, Intersects(p.space, q.space)
  PROVE  p.order < q.order
  <1>1. p.since + 1 < q.since + 1
    BY DEF Placed
  <1> QED
    BY Zenon, <1>1 DEF Placed, Ordered

\* The invariant implies BatchesDrawEverything.
LEMMA InvBatches == ASSUME Inv PROVE BatchesDrawEverything
  <1>1. InRanks(rendered.prims, begin) /\ Draws(rendered.prims, begin, drawn)
    BY Zenon DEF Inv, SceneInv
  <1>2. DrawUpTo(begin, drawn) /\ DrawAlike(rendered.prims, drawn)
    BY ZenonT(60), <1>1 DEF Draws
  <1>3. ASSUME NEW k \in KindSet, NEW i \in DOMAIN rendered.prims[k], NEW m \in DOMAIN drawn,
               NEW n \in DOMAIN drawn, InBatch(m, k, i), InBatch(n, k, i)
        PROVE  m = n
    BY <1>2, <1>3 DEF DrawUpTo, InBatch
  <1>4. ASSUME NEW k \in KindSet, NEW i \in DOMAIN rendered.prims[k], AllDrawn
        PROVE  \E m \in DOMAIN drawn : InBatch(m, k, i)
    <2>1. /\ DOMAIN rendered.prims[k] = 1 .. Len(rendered.prims[k])
          /\ Len(rendered.prims[k]) \in Nat /\ begin[k] \in Nat
      BY Zenon, <1>1, OrdersAscend DEF InRanks
    <2>2. ~(begin[k] < Len(rendered.prims[k]))
      BY ZenonT(60), <1>4 DEF AllDrawn, Left
    <2>3. i \in 1 .. begin[k]
      BY <2>1, <2>2
    <2> QED
      BY Zenon, <1>2, <2>3 DEF DrawUpTo, InBatch
  <1> QED
    BY ZenonT(60), <1>2, <1>3, <1>4 DEF BatchesDrawEverything, DrawAlike

\* The invariant implies DrawnBackToFront: the order of the tree is that of the
\* overlaps, and the batches follow it.
LEMMA InvBackToFront == ASSUME Inv PROVE DrawnBackToFront
  <1> DEFINE prims == rendered.prims
             nodes == rendered.tree.nodes
  <1>1. /\ InRanks(prims, begin) /\ Draws(prims, begin, drawn) /\ Ordered(nodes)
        /\ \A k \in KindSet : \A i \in DOMAIN prims[k] : Placed(nodes, prims[k][i])
    BY Zenon DEF Inv, SceneInv, IsScene, GoodPrimitives, IsBoundsTree
  <1>2. DrawnBackToFront <=>
          \A m, n \in DOMAIN drawn :
            \A i \in drawn[m].from .. drawn[m].to, j \in drawn[n].from .. drawn[n].to :
              LET p == prims[drawn[m].kind][i]
                  q == prims[drawn[n].kind][j]
              IN  p.since < q.since /\ Intersects(p.space, q.space) => m < n \/ (m = n /\ i < j)
    BY Zenon DEF DrawnBackToFront
  <1> HIDE DEF prims, nodes
  <1> SUFFICES ASSUME NEW m \in DOMAIN drawn, NEW n \in DOMAIN drawn,
                      NEW i \in drawn[m].from .. drawn[m].to,
                      NEW j \in drawn[n].from .. drawn[n].to,
                      prims[drawn[m].kind][i].since < prims[drawn[n].kind][j].since,
                      Intersects(prims[drawn[m].kind][i].space, prims[drawn[n].kind][j].space)
               PROVE  m < n \/ (m = n /\ i < j)
    BY ZenonT(60), <1>2
  <1>3. /\ drawn[m].kind \in KindSet /\ i \in DOMAIN prims[drawn[m].kind]
        /\ drawn[n].kind \in KindSet /\ j \in DOMAIN prims[drawn[n].kind]
    BY ZenonT(30), <1>1, DrawnPart
  <1>4. prims[drawn[m].kind][i].order < prims[drawn[n].kind][j].order
    <2> DEFINE p == prims[drawn[m].kind][i]
               q == prims[drawn[n].kind][j]
    <2>1. Placed(nodes, p) /\ Placed(nodes, q)
      BY ZenonT(30), <1>1, <1>3
    <2>2. p.since < q.since /\ Intersects(p.space, q.space)
      BY Zenon
    <2> HIDE DEF p, q
    <2>3. p.order < q.order
      BY Zenon, <1>1, <2>1, <2>2, LaterIsAbove
    <2> QED
      BY Zenon, <2>3 DEF p, q
  <1> QED
    BY ZenonT(60), <1>1, <1>4, DrawnByOrder

\* The invariant implies CachedPaintIsKept.
LEMMA InvCached == ASSUME Inv PROVE CachedPaintIsKept
  <1> SUFFICES ASSUME NEW v \in Views, newRange[v] # << >>, ~moved
               PROVE  PaintOf(v) = content[v]
    BY Zenon DEF CachedPaintIsKept
  <1> DEFINE a == newRange[v][1]
             b == newRange[v][2]
             c == content[v]
  <1>1. newRange[v] = << a, b >> /\ a \in Nat /\ b \in Nat /\ a <= b /\ b <= Len(next.ops)
    BY Zenon DEF Inv, ViewsInv, IsRange
  <1>2. Looks(next, a, b, c)
    BY Zenon DEF Inv, PaintInv, NewLooks
  <1>3. c \in Seq(ContentSet)
    BY Zenon DEF Inv, ViewsInv
  <1> HIDE DEF a, b, c
  <1> DEFINE ops == InRange(next.ops, << a, b >>)
  <1>4. DOMAIN ops = 1 .. b - a /\ \A i \in 1 .. b - a : ops[i] = next.ops[a + i]
    <2>1. next.ops \in Seq(OpSet)
      BY Zenon, SceneFacts DEF Inv, SceneInv
    <2> DEFINE s == next.ops
               r == << a, b >>
    <2>2. s \in Seq(OpSet) /\ a \in Nat /\ b \in Nat /\ a <= b /\ b <= Len(s)
      BY ZenonT(60), <1>1, <2>1
    <2> HIDE DEF s
    <2>3. DOMAIN InRange(s, r) = 1 .. b - a
      BY <2>2, RangeFacts
    <2>4. \A i \in 1 .. b - a : InRange(s, r)[i] = s[a + i]
      BY <2>2, RangeFacts
    <2> QED
      BY Zenon, <2>3, <2>4 DEF s
  <1>5. PaintOf(v) = [i \in DOMAIN ops |-> Shown(next, ops[i])]
    BY Zenon, <1>1 DEF PaintOf
  <1> HIDE DEF ops
  <1>6. c = [i \in DOMAIN c |-> c[i]]
    BY <1>3
  <1>7. DOMAIN c = 1 .. b - a /\ \A i \in 1 .. b - a : c[i] = Shown(next, ops[i])
    BY Zenon, <1>2, <1>4 DEF Looks
  <1>8. PaintOf(v) = c
    BY Zenon, <1>4, <1>5, <1>6, <1>7
  <1> QED
    BY Zenon, <1>8 DEF c

\* The invariant implies the properties.
LEMMA InvFacts ==
  ASSUME Inv
  PROVE  OrderIsOneAboveOverlap /\ BatchesDrawEverything /\ DrawnBackToFront /\ CachedPaintIsKept
  <1>1. Ordered(next.tree.nodes)
    BY Zenon DEF Inv, SceneInv, IsScene, IsBoundsTree
  <1>2. OrderIsOneAboveOverlap
    BY Zenon, <1>1 DEF Ordered, OrderIsOneAboveOverlap
  <1> QED
    BY ZenonT(60), <1>2, InvBatches, InvBackToFront, InvCached

(***************************************************************************)
(* The theorems                                                            *)
(***************************************************************************)

WF == INSTANCE WellFoundedInduction

\* The natural numbers are well-founded.
LEMMA NatIsWellFounded == WellFounded
  <1> SUFFICES ASSUME NEW T \in SUBSET Nat, T # {}
               PROVE  \E x \in T : \A y \in T : x <= y
    BY Zenon DEF WellFounded
  <1> DEFINE R == {ss \in Nat \X Nat : ss[1] < ss[2]}
  <1>1. WF!IsWellFoundedOn(R, Nat)
    BY Zenon, WF!NatLessThanWellFounded DEF WF!OpToRel
  <1>2. PICK x \in T : \A y \in T : ~ (<<y, x>> \in R)
    <2> HIDE DEF R
    <2> QED
      BY Zenon, <1>1, WF!WFMin
  <1>3. \A y \in T : ~ (y < x)
    BY Zenon, <1>2
  <1> QED
    BY <1>3

\* The invariant holds in every reachable state.
THEOREM SceneIsConsistent == Spec => []Inv
  <1>1. Inv /\ [Next]_vars => Inv'
    BY ZenonT(60), NatIsWellFounded, NextFacts
  <1> QED
    BY <1>1, InitFacts, PTL DEF Spec

\* BoundsTree::insert, for any number of children of a node and any sequence of
\* rectangles: the order it returns is above that of every earlier rectangle it
\* overlaps, and no higher than that needs.
THEOREM OrdersAreMinimal == Spec => []OrderIsOneAboveOverlap
  <1>1. Inv => OrderIsOneAboveOverlap
    BY InvFacts
  <1> QED
    BY <1>1, SceneIsConsistent, PTL

\* BatchIterator, for any scene: no primitive is left out or drawn twice, and
\* no batch mixes textures or blending.
THEOREM NothingIsLeftOut == Spec => []BatchesDrawEverything
  <1>1. Inv => BatchesDrawEverything
    BY InvFacts
  <1> QED
    BY <1>1, SceneIsConsistent, PTL

\* Whatever is painted, replayed and grouped into batches of a kind, what
\* overlaps something earlier is drawn after it.
THEOREM BackToFront == Spec => []DrawnBackToFront
  <1>1. Inv => DrawnBackToFront
    BY InvFacts
  <1> QED
    BY <1>1, SceneIsConsistent, PTL

\* reuse_view, over any number of views and frames: as long as no sort has
\* moved a primitive, a cached view shows what it painted last.
THEOREM ReplayKeepsPaint == Spec => []CachedPaintIsKept
  <1>1. Inv => CachedPaintIsKept
    BY Zenon, InvFacts
  <1> QED
    BY <1>1, SceneIsConsistent, PTL
=============================================================================
