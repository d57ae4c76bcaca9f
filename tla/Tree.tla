-------------------------------- MODULE Tree --------------------------------
(***************************************************************************)
(* The binary search trees of libk/tree.c: splay tree, treap, tree         *)
(* balanced by counts, and tree with simple balancing.  A tree is a record *)
(* of the fields of its nodes, so that every operation maps trees to trees *)
(* as the code does by assignments.  A node is named by its key.           *)
(***************************************************************************)
EXTENDS Integers, Sequences, FiniteSets

CONSTANTS
  Keys,           \* keys, integers compared by map_keycmp
  Replaced,       \* the keys whose data is replaced (bounds the data)
  Priorities,     \* treap priorities a node's address may give
  Modes,          \* "splay", "treap", "count" and "simple"
  NULL

VARIABLES
  tree,  \* the nodes and the root
  mode,  \* tree->mode
  call,  \* the last call
  ret    \* the data it returned or walked over, in order

vars == <<tree, mode, call, ret>>

\* Data differ between keys, so that a caller can tell which entry it got
DataOf(k) == {k} \X (IF k \in Replaced THEN {1, 2} ELSE {1})
Data == UNION {DataOf(k) : k \in Keys}

Empty ==
  LET none == [k \in Keys |-> NULL]
      zero == [k \in Keys |-> 0]
  IN  [root |-> NULL, parent |-> none, child |-> [left |-> none, right |-> none],
       count |-> zero, priority |-> zero, data |-> none]

Init == tree = Empty /\ mode \in Modes /\ call = <<>> /\ ret = <<>>

Other(s) == IF s = "left" THEN "right" ELSE "left"

node_count(T, x) == IF x = NULL THEN 0 ELSE T.count[x]

IsChild(T, x, s) == T.parent[x] # NULL /\ T.child[s][T.parent[x]] = x
node_is_left(T, x) == IsChild(T, x, "left")
node_is_right(T, x) == IsChild(T, x, "right")

-----------------------------------------------------------------------------
\* Rotations

\* Faulty variant: the child that changes sides keeps its parent
RotateKeepsParent(T, b, s) ==
  LET o     == Other(s)
      d     == T.child[o][b]
      c     == T.child[s][d]
      g     == T.parent[b]
      moved == [T EXCEPT !.parent[d] = g, !.parent[b] = d,
                         !.child[s][d] = b, !.child[o][b] = c]
      side  == IF T.child.left[g] = b THEN "left" ELSE "right"
      hung  == IF g = NULL THEN moved ELSE [moved EXCEPT !.child[side][g] = d]
      n     == 1 + node_count(T, T.child[s][b]) + node_count(T, c)
  IN  [hung EXCEPT !.count[b] = n, !.count[d] = 1 + n + node_count(T, T.child[o][d])]

\* Rotate b down to side s; the child on the other side takes its place
Rotate(T, b, s) ==
  LET o      == Other(s)
      d      == T.child[o][b]
      c      == T.child[s][d]
      g      == T.parent[b]
      linked == [T EXCEPT !.parent[d] = g, !.parent[b] = d,
                          !.child[s][d] = b, !.child[o][b] = c]
      moved  == IF c = NULL THEN linked ELSE [linked EXCEPT !.parent[c] = b]
      side   == IF T.child.left[g] = b THEN "left" ELSE "right"
      hung   == IF g = NULL THEN moved ELSE [moved EXCEPT !.child[side][g] = d]
      n      == 1 + node_count(T, T.child[s][b]) + node_count(T, c)
  IN  [hung EXCEPT !.count[b] = n, !.count[d] = 1 + n + node_count(T, T.child[o][d])]

node_rotate_left(T, b) == Rotate(T, b, "left")
node_rotate_right(T, d) == Rotate(T, d, "right")

\* Rotate the parent of x so that x goes up
RotateUp(T, x) ==
  IF node_is_left(T, x) THEN node_rotate_right(T, T.parent[x])
  ELSE node_rotate_left(T, T.parent[x])

\* The zig-zag of a right child is not recognised: its test is that of a left
\* child, and a single rotation is done
RECURSIVE node_splay(_, _)
node_splay(T, x) ==
  LET p == T.parent[x]
      s == IF node_is_left(T, x) THEN "left" ELSE "right"
  IN  IF p = NULL THEN T
      ELSE node_splay(
             CASE IsChild(T, p, s) -> RotateUp(RotateUp(T, p), x)
               [] s = "left" /\ node_is_right(T, p) -> RotateUp(RotateUp(T, x), x)
               [] OTHER -> RotateUp(T, x), x)

RECURSIVE node_prioritize(_, _)
node_prioritize(T, x) ==
  IF T.parent[x] # NULL /\ T.priority[x] < T.priority[T.parent[x]]
  THEN node_prioritize(RotateUp(T, x), x)
  ELSE T

RECURSIVE node_count_balance(_, _)
node_count_balance(T, x) ==
  LET p == T.parent[x]
      s == IF node_is_right(T, x) THEN "right" ELSE "left"
      U == IF node_count(T, T.child[Other(s)][p]) < node_count(T, T.child[s][x])
           THEN RotateUp(T, x) ELSE T
  IN  IF x = NULL THEN T ELSE IF p = NULL THEN T
      ELSE node_count_balance(U, U.parent[x])

\* Rotate where a node and its parent have one child each
RECURSIVE node_simple_balance(_, _)
node_simple_balance(T, x) ==
  LET p       == T.parent[x]
      Only(y, s) == T.child[s][y] # NULL /\ T.child[Other(s)][y] = NULL
      U       == CASE Only(p, "left") /\ Only(x, "right") ->
                        node_rotate_right(node_rotate_left(T, x), p)
                   [] Only(p, "left") /\ Only(x, "left") -> node_rotate_right(T, p)
                   [] Only(p, "right") /\ Only(x, "left") ->
                        node_rotate_left(node_rotate_right(T, x), p)
                   [] Only(p, "right") /\ Only(x, "right") -> node_rotate_left(T, p)
                   [] OTHER -> T
  IN  IF p = NULL THEN T ELSE node_simple_balance(U, p)

-----------------------------------------------------------------------------
\* Neighbours and walks

RECURSIVE Outermost(_, _, _)
Outermost(T, x, s) ==
  IF x = NULL THEN NULL
  ELSE IF T.child[s][x] = NULL THEN x ELSE Outermost(T, T.child[s][x], s)

RECURSIVE Climb(_, _, _)
Climb(T, x, s) == IF IsChild(T, x, s) THEN Climb(T, T.parent[x], s) ELSE x

\* Faulty variant: the last node below a parent has no neighbour further up
NeighbourBelowParent(T, x, s) ==
  IF T.child[s][x] # NULL THEN Outermost(T, T.child[s][x], Other(s))
  ELSE IF IsChild(T, x, Other(s)) THEN T.parent[x] ELSE NULL

\* The next node on side s of x: node_prev on the left, node_next on the right
Neighbour(T, x, s) ==
  IF T.child[s][x] # NULL THEN Outermost(T, T.child[s][x], Other(s))
  ELSE LET y == Climb(T, x, s)
       IN  IF IsChild(T, y, Other(s)) THEN T.parent[y] ELSE NULL

node_prev(T, x) == Neighbour(T, x, "left")
node_next(T, x) == Neighbour(T, x, "right")

tree_node_first(T) == Outermost(T, T.root, "left")
tree_node_last(T) == Outermost(T, T.root, "right")

RECURSIVE tree_walk_nodes(_, _, _)
tree_walk_nodes(T, x, end) ==
  IF x = NULL THEN <<>>
  ELSE <<T.data[x]>> \o tree_walk_nodes(T, IF x = end THEN NULL ELSE node_next(T, x), end)

-----------------------------------------------------------------------------
\* What the code asserts before and after every update

RECURSIVE Below(_, _)
Below(T, x) ==
  IF x = NULL THEN {} ELSE {x} \cup Below(T, T.child.left[x]) \cup Below(T, T.child.right[x])

node_verify(T, x) ==
  \A y \in Below(T, x), s \in {"left", "right"} :
    T.child[s][y] # NULL => T.parent[T.child[s][y]] = y

tree_verify(T) == (T.root # NULL => T.parent[T.root] = NULL) /\ node_verify(T, T.root)

-----------------------------------------------------------------------------
\* Searching

\* tree->root after its node may have gone down
RECURSIVE NewRoot(_)
NewRoot(T) ==
  IF T.root # NULL /\ T.parent[T.root] # NULL
  THEN NewRoot([T EXCEPT !.root = T.parent[T.root]])
  ELSE T

\* The node with key k below x, or the one a new node would hang from
RECURSIVE Descend(_, _, _)
Descend(T, x, k) ==
  LET s == IF k < x THEN "left" ELSE "right"
  IN  IF x = k \/ T.child[s][x] = NULL THEN x ELSE Descend(T, T.child[s][x], k)

\* The node found, and the tree, which a splay tree changes
tree_get_node(T, k, cond) ==
  LET x == Descend(T, T.root, k)
      prev == node_prev(T, x)
      next == node_next(T, x)
  IN  CASE T.root = NULL -> [node |-> NULL, tree |-> T]
        [] x # k /\ cond = "EQ" -> [node |-> NULL, tree |-> T]
        [] k < x /\ cond \in {"GT", "GE"} -> [node |-> x, tree |-> T]
        [] k < x /\ cond \in {"LT", "LE"} -> [node |-> prev, tree |-> T]
        [] k > x /\ cond \in {"GT", "GE"} -> [node |-> next, tree |-> T]
        [] k > x /\ cond \in {"LT", "LE"} -> [node |-> x, tree |-> T]
        [] x = k /\ cond = "LT" -> [node |-> prev, tree |-> T]
        [] x = k /\ cond = "GT" -> [node |-> next, tree |-> T]
        [] OTHER -> [node |-> x, tree |-> IF mode = "splay" THEN NewRoot(node_splay(T, x)) ELSE T]

tree_get(k, cond) ==
  LET found == tree_get_node(tree, k, cond)
  IN  /\ tree' = found.tree
      /\ call' = <<"get", k, cond>>
      /\ ret' = IF found.node = NULL THEN <<>> ELSE <<tree.data[found.node]>>
      /\ UNCHANGED mode

tree_walk ==
  /\ call' = <<"walk">>
  /\ ret' = tree_walk_nodes(tree, tree_node_first(tree), tree_node_last(tree))
  /\ UNCHANGED <<tree, mode>>

\* A range that holds a key.  In one that holds none the last node before `to`
\* precedes the first from `from` on, and the walk goes on to the last node.
tree_walk_range(from, to) ==
  LET start == tree_get_node(tree, from, "GE")
      end   == tree_get_node(start.tree, to, "LT")
  IN  /\ \E k \in from..to - 1 : k \in Keys /\ tree.data[k] # NULL
      /\ call' = <<"range", from, to>>
      /\ ret' = tree_walk_nodes(end.tree, start.node, end.node)
      /\ tree' = end.tree
      /\ UNCHANGED mode

-----------------------------------------------------------------------------
\* Updates

RECURSIVE AddToCounts(_, _, _)
AddToCounts(T, x, n) ==
  IF x = NULL THEN T ELSE AddToCounts([T EXCEPT !.count[x] = @ + n], T.parent[x], n)

\* A new node for k, linked below p
tree_node_new(T, p, k, d) ==
  LET U == AddToCounts([T EXCEPT !.data[k] = d, !.parent[k] = p, !.count[k] = 1], p, 1)
  IN  IF p = NULL THEN [U EXCEPT !.root = k]
      ELSE [U EXCEPT !.child[IF k < p THEN "left" ELSE "right"][p] = k]

Balanced(T, x) ==
  CASE mode = "splay" -> node_splay(T, x)
    [] mode = "treap" -> node_prioritize(T, x)
    [] mode = "count" -> node_count_balance(T, x)
    [] OTHER -> node_simple_balance(T, x)

tree_put(k, d) ==
  LET x == IF tree.root = NULL THEN NULL ELSE Descend(tree, tree.root, k)
  IN  /\ IF x = k
         THEN /\ tree' = [tree EXCEPT !.data[k] = d]
              /\ call' = <<"put", k, d>> /\ ret' = <<tree.data[k]>>
         ELSE \E priority \in IF mode = "treap" THEN Priorities ELSE {0} :
                /\ tree' = NewRoot(Balanced(
                     [tree_node_new(tree, x, k, d) EXCEPT !.priority[k] = priority], k))
                /\ call' = <<"put", k, d>> /\ ret' = <<>>
      /\ UNCHANGED mode

\* Rotate x down until it is a leaf
RECURSIVE BubbleDown(_, _)
BubbleDown(T, x) ==
  LET U == IF T.child.left[x] # NULL THEN node_rotate_right(T, x) ELSE node_rotate_left(T, x)
      p == U.parent[x]
  IN  IF T.child.left[x] = NULL /\ T.child.right[x] = NULL THEN T
      ELSE BubbleDown(IF U.parent[p] = NULL THEN [U EXCEPT !.root = p] ELSE U, x)

tree_remove(k) ==
  LET T == BubbleDown(tree, k)
      p == T.parent[k]
      U == CASE p = NULL -> [T EXCEPT !.root = NULL]
             [] node_is_left(T, k) -> [T EXCEPT !.child.left[p] = NULL]
             [] OTHER -> [T EXCEPT !.child.right[p] = NULL]
  IN  /\ IF tree.root = NULL \/ Descend(tree, tree.root, k) # k
         THEN call' = <<"remove", k>> /\ ret' = <<>> /\ UNCHANGED tree
         ELSE /\ call' = <<"remove", k>> /\ ret' = <<tree.data[k]>>
              /\ tree' = [AddToCounts(U, p, -1)
                            EXCEPT !.data[k] = NULL, !.parent[k] = NULL,
                                   !.count[k] = 0, !.priority[k] = 0]
      /\ UNCHANGED mode

RECURSIVE node_ordinal(_, _, _)
node_ordinal(T, x, i) ==
  LET n == node_count(T, T.child.left[x])
  IN  CASE i < n -> node_ordinal(T, T.child.left[x], i)
        [] i = n -> x
        [] OTHER -> node_ordinal(T, T.child.right[x], i - (n + 1))

RECURSIVE RotateUpTo(_, _, _)
RotateUpTo(T, x, p) == IF T.parent[x] = p THEN T ELSE RotateUpTo(RotateUp(T, x), x, p)

\* The tree with the part below x balanced, and the root of that part
RECURSIVE node_optimize(_, _)
node_optimize(T, x) ==
  LET p == T.parent[x]
      y == node_ordinal(T, x, T.count[x] \div 2)
      U == RotateUpTo([T EXCEPT !.priority[y] = IF p = NULL THEN 10 ELSE T.priority[p] + 10], y, p)
      L == node_optimize(U, U.child.left[y])
      V == [L.tree EXCEPT !.child.left[y] = L.node]
      R == node_optimize(V, V.child.right[y])
  IN  IF x = NULL THEN [tree |-> T, node |-> NULL]
      ELSE [tree |-> [R.tree EXCEPT !.child.right[y] = R.node], node |-> y]

tree_optimize ==
  LET o == node_optimize(tree, tree.root)
  IN  /\ tree' = [o.tree EXCEPT !.root = o.node]
      /\ call' = <<"optimize">> /\ ret' = <<>>
      /\ UNCHANGED mode

Next ==
  \/ \E k \in Keys :
       \/ \E d \in DataOf(k) : tree_put(k, d)
       \/ \E cond \in {"LT", "LE", "EQ", "GE", "GT"} : tree_get(k, cond)
       \/ tree_remove(k)
       \/ \E to \in Keys : tree_walk_range(k, to)
  \/ tree_walk
  \/ tree_optimize

Spec == Init /\ [][Next]_vars

-----------------------------------------------------------------------------
Nodes == {k \in Keys : tree.data[k] # NULL}

TypeOK ==
  /\ tree.root \in Nodes \cup {NULL}
  /\ tree.parent \in [Keys -> Keys \cup {NULL}]
  /\ tree.child \in [{"left", "right"} -> [Keys -> Keys \cup {NULL}]]
  /\ tree.count \in [Keys -> 0..Cardinality(Keys)]
  /\ tree.data \in [Keys -> Data \cup {NULL}]

\* No assertion of tree_verify fails, whether before an update or after it, and
\* only the root has no parent.
Linked == tree_verify(tree) /\ \A x \in Nodes : tree.parent[x] = NULL => x = tree.root

\* "Count of nodes, including this one": what node_ordinal, and so tree_optimize,
\* rely on holds through rotations and removals.
Counted == \A x \in Nodes : tree.count[x] = Cardinality(Below(tree, x))

\* The keys left of a node are smaller, those right of it larger, and no node is
\* lost: all hang from the root.
Ordered ==
  /\ Below(tree, tree.root) = Nodes
  /\ \A x \in Nodes : /\ \A y \in Below(tree, tree.child.left[x]) : y < x
                      /\ \A y \in Below(tree, tree.child.right[x]) : y > x
=============================================================================
