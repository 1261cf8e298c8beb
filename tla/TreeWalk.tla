------------------------------ MODULE TreeWalk ------------------------------
(***************************************************************************)
(* walk_tree_nodes (pool/snapshot.rs) over an arbitrary memory: the links  *)
(* may cross, meet or form a cycle, and a node may be unreadable.          *)
(***************************************************************************)
EXTENDS Links

CONSTANT Memories  \* what the walk may be pointed at: [root, links]

ASSUME MemoriesAssumption ==
  \A m \in Memories :
    /\ m.root \in Nat /\ 0 \notin DOMAIN m.links
    /\ \A n \in DOMAIN m.links : m.links[n].left \in Nat /\ m.links[n].right \in Nat

VARIABLES
  tree,  \* the target's
  walk     \* walk_tree_nodes' stack, seen and nodes, and whether it left a diagnostic

treeVars == <<tree, walk>>

TreeInit ==
  /\ tree \in Memories
  /\ walk = tree_start(tree.root)

TreeStep ==
  /\ walk.stack # <<>>
  /\ walk' = tree_step(walk, tree.links)
  /\ UNCHANGED tree

TreeSpec == TreeInit /\ [][TreeStep]_treeVars

-----------------------------------------------------------------------------
Children(n) == {tree.links[n].left, tree.links[n].right}

ClosedUnderLinks(S) ==
  /\ tree.root \in S
  /\ \A n \in S \cap DOMAIN tree.links : Children(n) \subseteq S

\* A walk that has nothing to say visited every node the links lead to: it left out neither
\* a subtree nor a node it could not read (walk_tree_nodes).
SilentWalkIsClosed ==
  walk.stack = <<>> /\ ~walk.said =>
    walk.nodes \subseteq DOMAIN tree.links /\ ClosedUnderLinks(walk.nodes \cup {0})

Universe ==
  {tree.root, 0} \cup DOMAIN tree.links \cup UNION {Children(n) : n \in DOMAIN tree.links}

\* Whatever the links are, the walk takes only nodes that they lead to from the root: it is
\* within every set that holds the root and is closed under them ("links are followed
\* exactly as stored").
NodesReached == \A S \in SUBSET Universe : ClosedUnderLinks(S) => walk.nodes \subseteq S

\* A walk takes only nodes the links lead to, and one that says nothing has taken all of them
\* (walk_tree_nodes).
WalkIsTheTree ==
  /\ SilentWalkIsClosed
  /\ NodesReached
=============================================================================
