-------------------------------- MODULE Scene ------------------------------
(***************************************************************************)
(* The scene of a window, crates/gpui/src/scene.rs, and the caching of     *)
(* views that replays parts of the previous one (AnyView in view.rs,       *)
(* reuse_paint and the swap of frames in window.rs).                       *)
(*                                                                         *)
(* In a frame the views are painted one after the other.  Painting inserts *)
(* primitives and layers into the scene of the next frame; a cached view   *)
(* replays the paint operations of the rendered frame in its paint range   *)
(* instead.  When the frame is finished each vector of primitives is       *)
(* sorted by draw order, and the frames are swapped.  The renderer draws   *)
(* the batches of the finished scene.                                      *)
(*                                                                         *)
(* A primitive has its kind, its clipped bounds, a tile (sprites) and a    *)
(* blend mode (quads).  For the properties it also carries what it was     *)
(* ordered by: the bounds that went into the tree, its own or those of its *)
(* layer, and the serial number of that insertion.                         *)
(***************************************************************************)
EXTENDS BoundsTree

CONSTANTS
  Kinds,          \* PrimitiveKind: the kinds in their order
  SpriteKinds,    \* the kinds that are sorted by tile within an order
  Primitives,     \* what views may paint
  LayerBounds,    \* the bounds of layers
  Texture,        \* of each tile
  NumViews,       \* views 1 .. NumViews, in the order of painting
  MaxPaints,      \* bound: insertions and layers painted, over all frames
  MaxFrames       \* bound: frames

ASSUME SceneAssumption ==
  /\ Kinds \in Seq(STRING) /\ IsInjective(Kinds)
  /\ Primitives \subseteq [kind : Range(Kinds), bounds : Bounds, tile : Nat, blend : Nat]
  /\ \A p \in Primitives : p.kind \in SpriteKinds => p.blend = 0
  /\ LayerBounds \subseteq Bounds
  /\ {NumViews, MaxPaints, MaxFrames} \subseteq Nat

VARIABLES
  next,      \* next_frame.scene: ops, prims (a vector for each kind), tree, layers
  rendered,  \* rendered_frame.scene
  at,        \* the view to paint
  painting,  \* its element is painting (it is not replayed)
  start,     \* the length of ops when its paint began
  range,     \* paint_range of each view, in the rendered frame; <<>> if none
  newRange,  \* the same in the next frame
  begin,     \* BatchIterator: how much of each kind has been drawn
  drawn,     \* the batches drawn of the rendered frame
  content,   \* history: what the element of each view painted last
  paints, frames,
  moved      \* history: finish has moved a primitive

building == << next, at, painting, start, newRange, content, paints >>
vars == << building, rendered, range, begin, drawn, frames, moved >>

KindSet == Range(Kinds)
Views == 1 .. NumViews
EmptyScene == [ops |-> <<>>, prims |-> [k \in KindSet |-> <<>>], tree |-> EmptyTree,
               layers |-> <<>>]

\* What a primitive is, without where it was put.
Paint(p) == [kind |-> p.kind, bounds |-> p.bounds, tile |-> p.tile, blend |-> p.blend]

----------------------------------------------------------------------------
(* Building a scene                                                        *)

\* Where the tree puts bounds, and how far it had grown.
Place(tree, b) == [order |-> OrderOf(tree, b), space |-> b, since |-> Len(tree.nodes)]

PushLayer(scene, b) ==
  [ops |-> Append(scene.ops, [op |-> "start", bounds |-> b]), prims |-> scene.prims,
   tree |-> Insert(scene.tree, b), layers |-> Append(scene.layers, Place(scene.tree, b))]

PopLayer(scene) ==
  [ops |-> Append(scene.ops, [op |-> "end"]), prims |-> scene.prims,
   tree |-> scene.tree, layers |-> Pop(scene.layers)]

\* The order is that of the innermost layer, or a new one from the tree.  (One
\* that is clipped to nothing changes nothing, see PaintPrimitive.)
InsertPrimitive(scene, p) ==
  LET place == IF scene.layers # <<>> THEN Top(scene.layers) ELSE Place(scene.tree, p.bounds)
      new == [kind |-> p.kind, bounds |-> p.bounds, tile |-> p.tile, blend |-> p.blend,
              order |-> place.order, space |-> place.space, since |-> place.since]
      op == [op |-> "primitive", kind |-> p.kind, index |-> Len(scene.prims[p.kind]) + 1]
  IN  [ops |-> Append(scene.ops, op),
       prims |-> [scene.prims EXCEPT ![p.kind] = Append(@, new)],
       tree |-> IF scene.layers # <<>> THEN scene.tree ELSE Insert(scene.tree, p.bounds),
       layers |-> scene.layers]

\* replay: an operation names a primitive by its index.
Replayed(prev, o) == prev.prims[o.kind][o.index]
ReplayOp(scene, prev, o) ==
  IF o.op = "primitive" THEN InsertPrimitive(scene, Replayed(prev, o))
  ELSE IF o.op = "start" THEN PushLayer(scene, o.bounds)
  ELSE PopLayer(scene)
Replay(scene, prev, ops) ==
  LET after[n \in 0 .. Len(ops)] ==
        IF n = 0 THEN scene ELSE ReplayOp(after[n - 1], prev, ops[n])
  IN  after[Len(ops)]

\* finish: a vector that is not sorted by its key is sorted; equal keys may
\* come in any order (sort_unstable_by_key).
Key(p) == << p.order, IF p.kind \in SpriteKinds THEN p.tile ELSE 0 >>
KeyLeq(a, b) == a[1] < b[1] \/ (a[1] = b[1] /\ a[2] <= b[2])
InOrder(s) == \A i, j \in DOMAIN s : i < j => KeyLeq(Key(s[i]), Key(s[j]))
Sorted(s) ==
  IF InOrder(s) THEN {s}
  ELSE {t \in {[i \in DOMAIN s |-> s[f[i]]] : f \in Injection(DOMAIN s, DOMAIN s)} : InOrder(t)}
Finished(scene) ==
  {[scene EXCEPT !.prims = q] :
     q \in {r \in [KindSet -> UNION {Sorted(scene.prims[k]) : k \in KindSet}] :
              \A k \in KindSet : r[k] \in Sorted(scene.prims[k])}}

----------------------------------------------------------------------------
(* Drawing a finished scene: BatchIterator                                 *)

Rank(k) == CHOOSE i \in DOMAIN Kinds : Kinds[i] = k

Left(k) == begin[k] < Len(rendered.prims[k])
AllDrawn == \A k \in KindSet : ~Left(k)

\* (order, kind) of the first primitive of a kind that is left.
FirstLeft(k) == rendered.prims[k][begin[k] + 1]
Peek(k) == << FirstLeft(k).order, Rank(k) >>
PeekLess(a, b) == a[1] < b[1] \/ (a[1] = b[1] /\ a[2] < b[2])

NextKind ==
  CHOOSE k \in KindSet :
    Left(k) /\ \A j \in KindSet \ {k} : Left(j) => PeekLess(Peek(k), Peek(j))

AnyBatch(first, p) == TRUE

\* May p go on a batch that begins with first?
SameBatch(first, p) ==
  IF p.kind \in SpriteKinds THEN Texture[p.tile] = Texture[first.tile]
  ELSE first.blend = 0 /\ p.blend = 0

FitsAnywhere(k, i) == SameBatch(FirstLeft(k), rendered.prims[k][i])

\* Does the batch of kind k go on with primitive i?  Only while that comes
\* before whatever is next of the other kinds.
Fits(k, i) ==
  /\ SameBatch(FirstLeft(k), rendered.prims[k][i])
  /\ \A j \in KindSet \ {k} :
       Left(j) => PeekLess(<< rendered.prims[k][i].order, Rank(k) >>, Peek(j))

BatchEnd(k) ==
  CHOOSE e \in begin[k] + 1 .. Len(rendered.prims[k]) :
    /\ \A i \in begin[k] + 2 .. e : Fits(k, i)
    /\ e < Len(rendered.prims[k]) => ~Fits(k, e + 1)

\* BatchIterator::next; the renderer draws the slice it returns.
DrawBatch ==
  /\ at = 1 /\ ~painting /\ ~AllDrawn
  /\ LET k == NextKind
         e == BatchEnd(k)
     IN  /\ begin' = [begin EXCEPT ![k] = e]
         /\ drawn' = Append(drawn, [kind |-> k, from |-> begin[k] + 1, to |-> e])
  /\ UNCHANGED << building, rendered, range, frames, moved >>

\* A frame is drawn as a whole, or not at all; its iterator does not outlive that.
Presented == drawn = <<>> \/ AllDrawn
DropIterator == begin' = [k \in KindSet |-> 0] /\ drawn' = <<>>

----------------------------------------------------------------------------
(* Painting frames                                                         *)

Init ==
  /\ next = EmptyScene /\ rendered = EmptyScene
  /\ at = 1 /\ painting = FALSE /\ start = 0
  /\ range = [v \in Views |-> <<>>] /\ newRange = [v \in Views |-> <<>>]
  /\ content = [v \in Views |-> <<>>]
  /\ begin = [k \in KindSet |-> 0] /\ drawn = <<>>
  /\ paints = 0 /\ frames = 0 /\ moved = FALSE

Fixed == UNCHANGED << rendered, range, frames, moved >>
Undrawn == UNCHANGED << begin, drawn >>

\* The element of the view paints: it has no cached state, or the cache key or
\* the view changed, or the window refreshes.
PaintView ==
  /\ at \in Views /\ ~painting /\ frames < MaxFrames /\ Presented
  /\ painting' = TRUE /\ start' = Len(next.ops)
  /\ content' = [content EXCEPT ![at] = <<>>]
  /\ UNCHANGED << next, at, newRange, paints >> /\ Fixed /\ DropIterator

PaintPrimitive(p) ==
  /\ painting /\ paints < MaxPaints /\ paints' = paints + 1
  /\ ~IsEmpty(p.bounds) /\ next' = InsertPrimitive(next, p)
  /\ content' = [content EXCEPT ![at] = Append(@, [op |-> "primitive", paint |-> p])]
  /\ UNCHANGED << at, painting, start, newRange >> /\ Fixed /\ Undrawn

\* paint_layer: its parts are painted between the two.  It may be nested, but
\* its uses, for a line of text and for the background of one, are not.
StartLayer(b) ==
  /\ painting /\ paints < MaxPaints /\ paints' = paints + 1
  /\ next.layers = <<>> /\ ~IsEmpty(b) /\ next' = PushLayer(next, b)
  /\ content' = [content EXCEPT ![at] = Append(@, [op |-> "start", bounds |-> b])]
  /\ UNCHANGED << at, painting, start, newRange >> /\ Fixed /\ Undrawn
EndLayer ==
  /\ painting /\ next.layers # <<>>
  /\ next' = PopLayer(next)
  /\ content' = [content EXCEPT ![at] = Append(@, [op |-> "end"])]
  /\ UNCHANGED << at, painting, start, newRange, paints >> /\ Fixed /\ Undrawn

ViewPainted ==
  /\ painting /\ next.layers = <<>> /\ painting' = FALSE
  /\ newRange' = [newRange EXCEPT ![at] = << start, Len(next.ops) >>]
  /\ at' = at + 1 /\ start' = 0
  /\ UNCHANGED << next, content, paints >> /\ Fixed /\ Undrawn

InRange(ops, r) == SubSeq(ops, r[1] + 1, r[2])

\* reuse_paint, when the view is cached; its paint range is the one its
\* operations now have.
OldRange == range[at]
ReplayedRange == << Len(next.ops), Len(next'.ops) >>

ReuseView ==
  /\ at \in Views /\ ~painting /\ range[at] # <<>> /\ frames < MaxFrames /\ Presented
  /\ next' = Replay(next, rendered, InRange(rendered.ops, range[at]))
  /\ newRange' = [newRange EXCEPT ![at] = ReplayedRange]
  /\ at' = at + 1
  /\ UNCHANGED << painting, start, content, paints >> /\ Fixed /\ DropIterator

\* The end of draw: finish, swap the frames, clear the next one.
FinishFrame ==
  /\ at = NumViews + 1 /\ at' = 1 /\ start' = 0
  /\ rendered' \in Finished(next)
  /\ next' = EmptyScene
  /\ moved' = (moved \/ rendered'.prims # next.prims)
  /\ range' = newRange /\ newRange' = [v \in Views |-> <<>>]
  /\ DropIterator
  /\ frames' = frames + 1
  /\ UNCHANGED << painting, content, paints >>

Next ==
  \/ PaintView \/ ViewPainted \/ EndLayer \/ ReuseView \/ FinishFrame \/ DrawBatch
  \/ \E p \in Primitives : PaintPrimitive(p)
  \/ \E b \in LayerBounds : StartLayer(b)

Spec == Init /\ [][Next]_vars

----------------------------------------------------------------------------
(* Properties                                                              *)

\* BoundsTree::insert: "The ordering is one greater than the maximum ordering
\* of any existing bounds that intersect with the new bounds", whatever the
\* pruning of the search and the shape of the tree.
OrderIsOneAboveOverlap ==
  LET nodes == next.tree.nodes
      below(j) == {i \in LeavesOf(nodes) : i < j /\ Intersects(nodes[i].bounds, nodes[j].bounds)}
  IN  \A j \in LeavesOf(nodes) :
        /\ \A i \in below(j) : nodes[i].max < nodes[j].max
        /\ nodes[j].max = 1 \/ \E i \in below(j) : nodes[i].max + 1 = nodes[j].max

\* Primitive i of kind k is in batch m.
InBatch(m, k, i) == drawn[m].kind = k /\ i \in drawn[m].from .. drawn[m].to

\* The batches draw every primitive of a finished scene once, and none mixes
\* textures or has two quads of which one needs its own blending.
BatchesDrawEverything ==
  /\ \A k \in KindSet : \A i \in DOMAIN rendered.prims[k] :
       /\ \A m, n \in DOMAIN drawn : InBatch(m, k, i) /\ InBatch(n, k, i) => m = n
       /\ drawn # <<>> /\ AllDrawn => \E m \in DOMAIN drawn : InBatch(m, k, i)
  /\ \A m \in DOMAIN drawn : \A i, j \in drawn[m].from .. drawn[m].to :
       LET prims == rendered.prims[drawn[m].kind]
       IN  /\ drawn[m].kind \in SpriteKinds => Texture[prims[i].tile] = Texture[prims[j].tile]
           /\ prims[i].blend # 0 => i = j

\* What was put on top of something else is drawn after it: across kinds,
\* batches and layers, and in replayed parts of the scene.
DrawnBackToFront ==
  \A m, n \in DOMAIN drawn :
    \A i \in drawn[m].from .. drawn[m].to, j \in drawn[n].from .. drawn[n].to :
      LET p == rendered.prims[drawn[m].kind][i]
          q == rendered.prims[drawn[n].kind][j]
      IN  p.since < q.since /\ Intersects(p.space, q.space) => m < n \/ (m = n /\ i < j)

\* What an operation of a scene shows.
Shown(scene, o) ==
  IF o.op = "primitive" THEN [op |-> "primitive", paint |-> Paint(Replayed(scene, o))] ELSE o

\* What view v is in the next frame.
PaintOf(v) ==
  LET ops == InRange(next.ops, newRange[v])
  IN  [i \in DOMAIN ops |-> Shown(next, ops[i])]

\* A cached view looks as it did when its element was painted last, layers
\* included, as long as no frame had to be sorted.
CachedPaintIsKept ==
  \A v \in Views : newRange[v] # <<>> /\ ~moved => PaintOf(v) = content[v]

\* "the view's previous layout and paint will be recycled from the previous
\* frame": a cached view shows what its element painted last, in whatever order.
\* It does not hold: the indices in the paint operations are those from before
\* the sort, so a view shows primitives that another one painted.
CachedPaintIsRecycled ==
  \A v \in Views : newRange[v] # <<>> => Range(PaintOf(v)) = Range(content[v])
============================================================================
