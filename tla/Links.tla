-------------------------------- MODULE Links --------------------------------
(***************************************************************************)
(* The two ways the pool walk follows links through memory it does not     *)
(* trust (pool/snapshot.rs): the nodes of a red-black tree, depth first    *)
(* with a stack, and the entries of an interlocked list, up to the depth   *)
(* its header claims.  A walk is a record; a step of it is an operator.    *)
(* Address 0 is the null link.                                             *)
(***************************************************************************)
EXTENDS Integers, Sequences, FiniteSets

CONSTANT Limit  \* traversal_limit

\* links[n] is [left, right]; a node outside its domain cannot be read.
tree_start(root) == [stack |-> <<root>>, seen |-> {}, nodes |-> {}, said |-> FALSE]

Top(w) == w.stack[Len(w.stack)]
Popped(w) == SubSeq(w.stack, 1, Len(w.stack) - 1)

\* Mutant: the traversal limit ends the walk without a word.
tree_step_quiet(w, links) ==
  LET node == Top(w)
  IN  IF node = 0 THEN [w EXCEPT !.stack = Popped(w)]
      ELSE IF node \in w.seen THEN [w EXCEPT !.stack = Popped(w), !.said = TRUE]
      ELSE IF Cardinality(w.nodes) >= Limit
      THEN [stack |-> <<>>, seen |-> w.seen \cup {node}, nodes |-> w.nodes, said |-> w.said]
      ELSE IF node \in DOMAIN links
      THEN [stack |-> Popped(w) \o <<links[node].right, links[node].left>>,
            seen |-> w.seen \cup {node}, nodes |-> w.nodes \cup {node}, said |-> w.said]
      ELSE [stack |-> Popped(w), seen |-> w.seen \cup {node}, nodes |-> w.nodes, said |-> TRUE]

\* One turn of walk_tree_nodes' loop.
tree_step(w, links) ==
  LET node == Top(w)
  IN  IF node = 0 THEN [w EXCEPT !.stack = Popped(w)]
      ELSE IF node \in w.seen THEN [w EXCEPT !.stack = Popped(w), !.said = TRUE]
      ELSE IF Cardinality(w.nodes) >= Limit
      THEN [stack |-> <<>>, seen |-> w.seen \cup {node}, nodes |-> w.nodes, said |-> TRUE]
      ELSE IF node \in DOMAIN links
      THEN [stack |-> Popped(w) \o <<links[node].right, links[node].left>>,
            seen |-> w.seen \cup {node}, nodes |-> w.nodes \cup {node}, said |-> w.said]
      ELSE [stack |-> Popped(w), seen |-> w.seen \cup {node}, nodes |-> w.nodes, said |-> TRUE]

\* A list walk: the entry it stands at, and the entries it took.
slist_start(head) ==
  [entry |-> head.first, depth |-> head.depth, nodes |-> {}, said |-> FALSE, ended |-> FALSE]

slist_more(w) ==
  ~w.ended /\ w.entry # 0 /\ Cardinality(w.nodes) < (IF w.depth < Limit THEN w.depth ELSE Limit)

\* One turn of walk_slist_nodes' loop: an entry is taken before its link is read.
slist_step(w, next) ==
  IF w.entry \in w.nodes THEN [w EXCEPT !.said = TRUE, !.ended = TRUE]
  ELSE IF w.entry \in DOMAIN next
  THEN [w EXCEPT !.nodes = @ \cup {w.entry}, !.entry = next[w.entry]]
  ELSE [w EXCEPT !.nodes = @ \cup {w.entry}, !.said = TRUE, !.ended = TRUE]

\* What the header claimed is compared with what was found.
slist_end(w) ==
  [w EXCEPT !.said = @ \/ w.depth > Limit \/ Cardinality(w.nodes) # w.depth]
=============================================================================
