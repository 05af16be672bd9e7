------------------------------ MODULE BoundsTree ---------------------------
(***************************************************************************)
(* crates/gpui/src/bounds_tree.rs: the tree that gives a primitive its     *)
(* draw order, one above the highest order of what it intersects.          *)
(*                                                                         *)
(* A bounds has an interval [lo, hi) on each axis.  A tree is the vector   *)
(* of its nodes, the index of the root and that of the leaf of highest     *)
(* order (0 for None); a node without children is a leaf, and its order is *)
(* its max.                                                                *)
(***************************************************************************)
EXTENDS Integers, Sequences, Functions

CONSTANT MaxChildren    \* MAX_CHILDREN

ASSUME BoundsTreeAssumption == MaxChildren \in Nat /\ MaxChildren >= 2

Top(s) == s[Len(s)]
Pop(s) == SubSeq(s, 1, Len(s) - 1)

(* Bounds, of crates/gpui/src/geometry.rs                                  *)

Axes == {"x", "y"}
Bounds == [Axes -> [lo : Int, hi : Int]]

Least(a, b) == IF a < b THEN a ELSE b
Greatest(a, b) == IF a < b THEN b ELSE a

IsEmpty(b) == \E d \in Axes : b[d].hi <= b[d].lo
Intersects(a, b) == \A d \in Axes : a[d].lo < b[d].hi /\ a[d].hi > b[d].lo
UnionOf(a, b) == [d \in Axes |-> [lo |-> Least(a[d].lo, b[d].lo),
                                  hi |-> Greatest(a[d].hi, b[d].hi)]]
HalfPerimeter(b) == (b["x"].hi - b["x"].lo) + (b["y"].hi - b["y"].lo)

(* The tree                                                                *)

EmptyTree == [nodes |-> <<>>, root |-> 0, maxLeaf |-> 0]
Leaf(b, order) == [bounds |-> b, max |-> order, children |-> <<>>]
IsLeaf(node) == node.children = <<>>

\* The children that may still improve on what was found, in their order.
Improving(nodes, children, found) ==
  LET kept[i \in 0 .. Len(children)] ==
        IF i = 0 THEN <<>>
        ELSE IF nodes[children[i]].max > found THEN Append(kept[i - 1], children[i])
        ELSE kept[i - 1]
  IN  kept[Len(children)]

\* One turn of the loop of find_max_ordering: the last node of the stack is
\* visited.
SearchStep(nodes, query, s) ==
  LET node == nodes[Top(s.stack)]
      rest == Pop(s.stack)
  IN  IF s.stack = <<>> THEN s
      ELSE IF node.max <= s.found \/ ~Intersects(query, node.bounds)
      THEN [stack |-> rest, found |-> s.found]
      ELSE IF IsLeaf(node) THEN [stack |-> rest, found |-> node.max]
      ELSE [stack |-> rest \o Improving(nodes, node.children, s.found), found |-> s.found]

\* The loop ends with an empty stack, and before it has made more turns than
\* there are nodes: it visits no node twice.
Search(nodes, query, root) ==
  LET turn[n \in 0 .. Len(nodes)] ==
        IF n = 0 THEN [stack |-> << root >>, found |-> 0]
        ELSE SearchStep(nodes, query, turn[n - 1])
  IN  turn[Len(nodes)]

FindMaxOrdering(tree, query) ==
  IF tree.root = 0 THEN 0
  ELSE IF Intersects(query, tree.nodes[tree.maxLeaf].bounds) THEN tree.nodes[tree.maxLeaf].max
  ELSE Search(tree.nodes, query, tree.root).found

\* The position of the child whose bounds grow to the smallest, the first of
\* them if there are several.
BestChild(nodes, i, b) ==
  LET cost(p) == HalfPerimeter(UnionOf(b, nodes[nodes[i].children[p]].bounds))
  IN  CHOOSE p \in DOMAIN nodes[i].children :
        \A q \in DOMAIN nodes[i].children :
          cost(p) < cost(q) \/ (cost(p) = cost(q) /\ p <= q)

\* insert_path goes from the root down the best children, to the last internal
\* node; one turn of the loop.
Descend(nodes, b, path) ==
  LET child == nodes[Top(path)].children[BestChild(nodes, Top(path), b)]
  IN  IF IsLeaf(nodes[child]) THEN path ELSE Append(path, child)

InsertPath(nodes, b, root) ==
  LET turn[n \in 0 .. Len(nodes)] ==
        IF n = 0 THEN << root >> ELSE Descend(nodes, b, turn[n - 1])
  IN  turn[Len(nodes)]

Swapped(s, i, j) == [s EXCEPT ![i] = s[j], ![j] = s[i]]

\* A new internal node over an old leaf and the new one; the child of highest
\* order is at the end.
Pair(nodes, old, new) ==
  [bounds |-> UnionOf(nodes[old].bounds, nodes[new].bounds),
   max |-> Greatest(nodes[old].max, nodes[new].max),
   children |-> IF nodes[new].max > nodes[old].max THEN << old, new >> ELSE << new, old >>]

\* The node at the end of the path takes the new leaf, as a child of its own
\* if there is room, otherwise in a pair with the best child.
Attach(nodes, i, new) ==
  LET node == nodes[i]
      b == nodes[new].bounds
      order == nodes[new].max
      pos == BestChild(nodes, i, b)
      n == Len(node.children)
      pair == Pair(nodes, node.children[pos], new)
      with == [node.children EXCEPT ![pos] = Len(nodes) + 1]
      pushed == Append(node.children, new)
  IN  IF n < MaxChildren
      THEN [nodes EXCEPT ![i] =
              [bounds |-> UnionOf(node.bounds, b), max |-> Greatest(node.max, order),
               children |-> IF order <= node.max THEN Swapped(pushed, n, n + 1) ELSE pushed]]
      ELSE Append([nodes EXCEPT ![i].children =
                     IF pair.max > node.max THEN Swapped(with, pos, n) ELSE with], pair)

PropagateNothing(nodes, path, b, order) == nodes

\* The bounds and the max order of the nodes of the path are brought up to
\* date; a child whose max order has become the highest goes to the end.
Propagate(nodes, path, b, order) ==
  LET raised(k) ==
        LET node == nodes[path[k]]
            pos == CHOOSE p \in DOMAIN node.children : node.children[p] = path[k + 1]
        IN  [bounds |-> UnionOf(node.bounds, b), max |-> Greatest(node.max, order),
             children |-> IF node.max < order /\ k < Len(path)
                          THEN Swapped(node.children, pos, Len(node.children))
                          ELSE node.children]
  IN  [i \in DOMAIN nodes |->
         IF i \in Range(path) THEN raised(CHOOSE k \in DOMAIN path : path[k] = i)
         ELSE nodes[i]]

InsertLeaf(tree, b, order) ==
  LET nodes == Append(tree.nodes, Leaf(b, order))
      new == Len(nodes)
      path == InsertPath(nodes, b, tree.root)
  IN  IF tree.root = 0 THEN [tree EXCEPT !.nodes = nodes, !.root = new]
      ELSE IF IsLeaf(nodes[tree.root])
      THEN [tree EXCEPT !.nodes = Append(nodes, Pair(nodes, tree.root, new)), !.root = new + 1]
      ELSE [tree EXCEPT !.nodes = Propagate(Attach(nodes, Top(path), new), path, b, order)]

\* insert: the new tree; the order is that of its new leaf.
Insert(tree, b) ==
  LET order == FindMaxOrdering(tree, b) + 1
      new == InsertLeaf(tree, b, order)
      k == Len(tree.nodes) + 1
  IN  [new EXCEPT !.maxLeaf = IF tree.maxLeaf = 0 \/ tree.nodes[tree.maxLeaf].max < order
                              THEN k ELSE tree.maxLeaf]
OrderOf(tree, b) == FindMaxOrdering(tree, b) + 1

LeavesOf(nodes) == {i \in DOMAIN nodes : IsLeaf(nodes[i])}
============================================================================
