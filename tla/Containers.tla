----------------------------- MODULE Containers -----------------------------
(***************************************************************************)
(* The containers of libk as their users see them.  map->ops leads every   *)
(* call of map.c to the implementation the map was made with, a tree of    *)
(* one of four modes, a sorted array, or a vector; the fourth kind is the  *)
(* list of list.c.                                                         *)
(***************************************************************************)
EXTENDS Integers

CONSTANTS
  TreeKeys, Replaced, Priorities, Modes,  \* see Tree
  ArrayKeys, Values, Capacity,            \* see ArrayMap
  Indices, ENTRIES,                       \* see Vector
  ListNodes, Lists,                       \* see ListRing
  Kinds,                                  \* the containers
  NULL

ASSUME ContainersAssumption ==
  /\ TreeKeys \subseteq Int /\ Priorities \subseteq Int
  /\ Modes \subseteq {"splay", "treap", "count", "simple"}
  /\ ArrayKeys \subseteq Nat \ {0} /\ Capacity \in Nat \ {0}
  /\ Indices \subseteq Nat /\ ENTRIES \in Nat \ {0, 1}
  /\ NULL \notin ListNodes
  /\ Kinds \subseteq {"tree", "arraymap", "vector", "list"}

VARIABLES
  kind,                        \* map->ops, or a list
  tree, mode,                  \* of Tree
  array, count, looping,       \* of ArrayMap
  table, stray, held,          \* of Vector
  next, prev, head,            \* of ListRing
  call, ret                    \* the last call and what it returned

treeVars == <<tree, mode>>
arrayVars == <<array, count, looping>>
vectorVars == <<table, stray, held>>
listVars == <<next, prev, head>>
vars == <<kind, treeVars, arrayVars, vectorVars, listVars, call, ret>>

Trees == INSTANCE Tree WITH Keys <- TreeKeys
Arrays == INSTANCE ArrayMap WITH Keys <- ArrayKeys, Careful <- TRUE
Vectors == INSTANCE Vector WITH Careful <- TRUE, Values <- {1}
Rings == INSTANCE ListRing WITH Nodes <- ListNodes

\* No call reads call and ret: states that differ in them only are explored once
View == <<kind, treeVars, arrayVars, vectorVars, listVars>>

Init ==
  /\ kind \in Kinds
  /\ Trees!Init /\ (kind # "tree" => mode = CHOOSE m \in Modes : TRUE)
  /\ Arrays!Init
  /\ Vectors!Init
  /\ Rings!Init

Next ==
  \/ kind = "tree" /\ Trees!Next /\ UNCHANGED <<kind, arrayVars, vectorVars, listVars>>
  \/ kind = "arraymap" /\ Arrays!Next /\ UNCHANGED <<kind, treeVars, vectorVars, listVars>>
  \/ kind = "vector" /\ Vectors!Next /\ UNCHANGED <<kind, treeVars, arrayVars, listVars>>
  \/ kind = "list" /\ Rings!Next /\ UNCHANGED <<kind, treeVars, arrayVars, vectorVars, call, ret>>

Spec == Init /\ [][Next]_vars

-----------------------------------------------------------------------------
\* No assertion of tree_verify fails before or after an update: only the root has no
\* parent, the tree is in order and holds all its nodes, and the "count of nodes,
\* including this one", which tree_optimize relies on, holds through rotations and
\* removals.
TreeSound == Trees!TypeOK /\ Trees!Linked /\ Trees!Ordered /\ Trees!Counted

\* The array map is sorted, with no stale entry behind the last one, and its searches
\* end: their loop has no other exit than its returns.
ArraySound == Arrays!TypeOK /\ Arrays!Sorted /\ Arrays!Returns

\* Growing a vector, which moves every table a level down, moves no entry, and a walk
\* reports the index that the data were put under.
VectorSound == Vectors!TypeOK /\ Vectors!HoldsWhatWasPut /\ Vectors!WalkNamesIndices

\* The ring of a list can be walked both ways, and LIST_DELETE leaves no stale pointer
\* into a list in the node it removes.
ListSound == Rings!TypeOK /\ Rings!PrevInvertsNext /\ Rings!FreeIsSelfLinked

\* The list macros do to their rings what ListSpec does to sequences.
ImplementsSequences == Rings!ImplementsSequences

AllKeys == TreeKeys \cup ArrayKeys \cup Indices

Dictionary ==
  INSTANCE MapSpec WITH
    Keys <- AllKeys, Data <- Trees!Data \cup (ArrayKeys \X Values) \cup (Indices \X {1}),
    map <- [k \in AllKeys |->
              CASE kind = "tree" /\ k \in TreeKeys -> tree.data[k]
                [] kind = "arraymap" /\ k \in ArrayKeys -> Arrays!Contents[k]
                [] kind = "vector" /\ k \in Indices -> held[k]
                [] OTHER -> NULL]

\* Whatever implementation a map has, and however splaying, balancing, shifting and
\* growing reshape it, every call returns what a dictionary would return.
ImplementsMap == Dictionary!Spec
=============================================================================
