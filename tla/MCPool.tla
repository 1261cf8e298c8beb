------------------------------- MODULE MCPool -------------------------------
(***************************************************************************)
(* Small instances of the walks of a kernel and of what is made of them:   *)
(* the discovery a pool walk begins with; the queries of the spans it      *)
(* recorded; and the object namespace with the fold of its names.  A       *)
(* behaviour is of one of them.                                            *)
(*                                                                         *)
(* Discovery meets a kernel with a pool heap whose VS state lies in        *)
(* affinity slots and a special pool heap, and a user process with one     *)
(* heap: as they should be, with every set of one or two cells that cannot *)
(* be read, and with the ways their structures can be wrong.               *)
(***************************************************************************)
EXTENDS Discovery, PoolQueries, Namespace

VARIABLE subject  \* which one this behaviour is of

Leaf == [left |-> 0, right |-> 0]
D(id, units, backend) ==
  [id |-> id, unit |-> units, first |-> TRUE, signed |-> TRUE, node |-> 0, unused |-> FALSE,
   backend |-> backend, sound |-> TRUE, big |-> FALSE]
Inside == [D(0, 0, "Segment") EXCEPT !.signed = FALSE]

\* An LFH range; a free range of two units over a stale descriptor; a big-pool allocation.
Ranges1 == <<D(1, 1, "Lfh"),
             [D(2, 2, "Segment") EXCEPT !.node = 51, !.signed = FALSE],
             D(9, 1, "Segment"),
             [D(3, 1, "Segment") EXCEPT !.big = TRUE]>>
\* A VS range and the inside of it, and a range freed by its flags.
Ranges2 == <<D(4, 2, "Vs"), Inside, [D(5, 1, "Segment") EXCEPT !.unused = TRUE]>>

Context1(id, head) == [id |-> id, used |-> TRUE, head |-> head]
Unused(id) == [id |-> id, used |-> FALSE, head |-> 0]

PoolHeap ==
  [special |-> FALSE, slots |-> <<1, 0, 2, 1>>, owned |-> {1, 2},
   buckets |-> <<[id |-> 1, size |-> "none"], [id |-> 2, size |-> "some"]>>,
   contexts |-> <<Context1(11, 1), Unused(12)>>]
SpecialHeap ==
  [special |-> TRUE, slots |-> <<>>, owned |-> {}, buckets |-> <<>>,
   contexts |-> <<Context1(21, 3), Unused(22)>>]

Region(id, state, big, evidence) ==
  [id |-> id, state |-> state, known |-> big,
   reusable |-> IF evidence THEN {31, 32, 33} ELSE {},
   cached |-> IF evidence THEN {43, 46, 62} ELSE {}]

\* The data of a lookaside entry is two units past its chunk's header, and three where the
\* pool header would end the page: 48 is chunk 46's, and 65 chunk 62's.
Kernel ==
  [user |-> FALSE, number |-> 1, pointers |-> <<<<10, 0, 0, 0>>>>, special |-> <<0, 20, 0, 0>>,
   heap |-> (10 :> PoolHeap @@ 20 :> SpecialHeap),
   roots |-> (<<"root", 1>> :> 31 @@ <<"root", 2>> :> 0 @@ <<"root", 20>> :> 0 @@
              <<"free", 11>> :> 51 @@ <<"free", 21>> :> 0 @@
              <<"larges", 10>> :> 61 @@ <<"larges", 20>> :> 0),
   links |-> (31 :> [left |-> 32, right |-> 33] @@ 32 :> Leaf @@ 33 :> Leaf @@ 51 :> Leaf @@
              61 :> Leaf),
   lists |-> (<<"delay", 1>> :> [first |-> 0, depth |-> 0] @@
              <<"delay", 2>> :> [first |-> 43, depth |-> 1] @@
              <<"delay", 20>> :> [first |-> 0, depth |-> 0] @@
              <<"bucket", 2>> :> [first |-> 48, depth |-> 2]),
   next |-> (43 :> 0 @@ 48 :> 65 @@ 65 :> 0),
   segs |-> (1 :> [signed |-> TRUE, next |-> 2, ranges |-> Ranges1] @@
             2 :> [signed |-> TRUE, next |-> 0, ranges |-> Ranges2] @@
             3 :> [signed |-> TRUE, next |-> 0, ranges |-> <<D(6, 1, "Segment")>>] @@
             7 :> [signed |-> FALSE, next |-> 2, ranges |-> <<D(8, 1, "Segment")>>]),
   large |-> (61 :> [is |-> "sound", big |-> TRUE]),
   lost |-> {},
   truth |-> {Region(1, "Allocated", FALSE, TRUE), Region(2, "ReusableFree", FALSE, TRUE),
              Region(3, "Allocated", TRUE, TRUE), Region(4, "Allocated", FALSE, TRUE),
              Region(5, "ReusableFree", FALSE, TRUE), Region(6, "Allocated", FALSE, FALSE),
              Region(61, "Allocated", TRUE, FALSE)}]

UserHeap ==
  [special |-> FALSE, slots |-> <<>>, owned |-> {}, buckets |-> <<>>,
   contexts |-> <<Context1(11, 1), Unused(12)>>]

Process ==
  [Kernel EXCEPT
     !.user = TRUE, !.pointers = <<<<10>>>>, !.heap = (10 :> UserHeap),
     !.roots = (<<"root", 10>> :> 31 @@ <<"free", 11>> :> 51 @@ <<"larges", 10>> :> 61),
     !.lists = (<<"delay", 10>> :> [first |-> 43, depth |-> 1]),
     !.truth = {[r EXCEPT !.known = FALSE, !.cached = @ \cap {43}] : r \in {t \in Kernel.truth : t.id # 6}}]

Cells(t) ==
  DOMAIN t.roots \cup DOMAIN t.lists
  \cup {<<"segment", s>> : s \in 1 .. 2} \cup {<<"descriptors", s>> : s \in 1 .. 2}
  \cup {<<"link", 1>>, <<"keys", 0>>, <<"geometry", 11>>, <<"head", 11>>, <<"metadata", 61>>}
  \cup {<<"config", 10>>, <<"lfh", 10>>, <<"subsegment", 1>>, <<"bitmap", 1>>, <<"subsegment", 4>>}
  \cup (IF t.user THEN {}
        ELSE {<<"number", 0>>, <<"pointer", 10>>, <<"pointer", 0>>, <<"pointer", 20>>, <<"table", 0>>,
              <<"batch", 0>>, <<"map", 10>>, <<"entry", 1>>, <<"entry", 3>>, <<"slot", 2>>,
              <<"size", 2>>, <<"count", 10>>})

Without(t, cells) == [t EXCEPT !.lost = cells]
UnreadableOnes == UNION {{Without(t, {a}) : a \in Cells(t)} : t \in {Kernel, Process}}
Pairs == {{<<"segment", 1>>, <<"link", 1>>}, {<<"free", 11>>, <<"batch", 0>>},
          {<<"table", 0>>, <<"head", 11>>}}

\* The structures wrong one at a time.
Corrupt(t) ==
  {[t EXCEPT !.segs[2].next = 1], [t EXCEPT !.segs[1].next = 7],
   [t EXCEPT !.segs[2].next = 2], [t EXCEPT !.segs[1].signed = FALSE],
   [t EXCEPT !.segs[1].ranges[1].sound = FALSE], [t EXCEPT !.segs[2].ranges[1].sound = FALSE],
   [t EXCEPT !.segs[2].ranges[1].signed = FALSE], [t EXCEPT !.links[32].left = 31],
   [t EXCEPT !.links[33].right = 99], [t EXCEPT !.links[51].left = 31],
   [t EXCEPT !.next[43] = 43], [t EXCEPT !.roots[<<"free", 11>>] = 0],
   [t EXCEPT !.large[61].is = "implausible"], [t EXCEPT !.number = 0]}
CorruptKernel ==
  Corrupt(Kernel) \cup
  {[Kernel EXCEPT !.next[65] = 48], [Kernel EXCEPT !.lists[<<"bucket", 2>>].depth = 3],
   [Kernel EXCEPT !.lists[<<"bucket", 2>>].depth = 9],
   [Kernel EXCEPT !.heap[10].slots = <<0>>], [Kernel EXCEPT !.heap[10].owned = {1}],
   [Kernel EXCEPT !.heap[10].buckets[2].size = "implausible"],
   [Kernel EXCEPT !.large[61].big = FALSE]}

AllTargets ==
  {Kernel, Process} \cup UnreadableOnes \cup {Without(Kernel, p) : p \in Pairs}
  \cup CorruptKernel \cup Corrupt(Process)

-----------------------------------------------------------------------------
\* A paged heap with one VS subsegment of three chunks, whose boundaries differ, and a nonpaged
\* heap with one LFH subsegment of three slots.  A chunk the walk refused, and a slot that
\* straddles a page, leave no span.
Span(start, len, what, heap, backend) ==
  [header |-> start + (IF backend = "Vs" THEN 1 ELSE 0),
   usable |-> start + (IF backend = "Vs" THEN 2 ELSE 1),
   size |-> len - (IF backend = "Vs" THEN 2 ELSE 1),
   tag |-> IF what \in {1, 2} THEN what ELSE 0,
   state |-> CASE what \in {1, 2} -> "Allocated" [] what = 3 -> "ReusableFree"
               [] what = 4 -> "CachedFree" [] what = 5 -> "Unreadable",
   kind |-> IF heap = 1 THEN "Paged" ELSE "NonPagedNx",
   heap |-> heap, sub |-> heap * 100, backend |-> backend, class |-> len]

Cuts == {<<10, 14, 18, 22>>, <<10, 13, 19, 22>>}
VsSpans(cut, whats) ==
  [n \in 1 .. 3 |-> IF whats[n] = 0 THEN <<>>
                    ELSE <<Span(cut[n], cut[n + 1] - cut[n], whats[n], 1, "Vs")>>]
LfhSpans(whats) ==
  [n \in 1 .. 3 |-> IF whats[n] = 0 THEN <<>> ELSE <<Span(27 + 3 * n, 3, whats[n], 2, "Lfh")>>]
Slots == {<<1, 0, 1>>, <<3, 0, 1>>, <<1, 3, 1>>, <<0, 1, 1>>}

\* The nonpaged heap is walked first.
AllWalks ==
  {FlattenSeq(LfhSpans(l)) \o FlattenSeq(VsSpans(cut, v)) :
     l \in Slots, v \in [1 .. 3 -> 0 .. 5], cut \in Cuts}

-----------------------------------------------------------------------------

WholeString(text) == [length |-> 2, maximum |-> 2, buffer |-> TRUE, reads |-> TRUE, paged |-> FALSE,
                text |-> text, exact |-> TRUE]
Strings(text) ==
  LET s == WholeString(text)
  IN  {s, [s EXCEPT !.reads = FALSE], [s EXCEPT !.paged = TRUE], [s EXCEPT !.maximum = 1],
       [s EXCEPT !.length = 1], [s EXCEPT !.buffer = FALSE], [s EXCEPT !.length = 0],
       [s EXCEPT !.length = 4, !.maximum = 4], [s EXCEPT !.length = 6, !.maximum = 6],
       [s EXCEPT !.exact = FALSE]}

Object(text, type) == [mask |-> "named", distance |-> "ok", name |-> WholeString(text),
                       security |-> TRUE, typeReads |-> TRUE, type |-> type]

\* A root (1) with a directory (11) and a device (12); the directory holds a device (13).
SoundKernel ==
  [root |-> 1, offsets |-> TRUE, typed |-> TRUE, buckets |-> 2, unreadable |-> {},
   directories |-> (1 :> <<21, 0>>) @@ (11 :> <<0, 23>>),
   entries |-> (21 :> [object |-> 11, chain |-> 22]) @@ (22 :> [object |-> 12, chain |-> 0])
               @@ (23 :> [object |-> 13, chain |-> 0]),
   objects |-> (11 :> Object("dev", "Directory")) @@ (12 :> Object("x", "Device"))
               @@ (13 :> Object("y", "Device")),
   genuine |-> {1, 11}, links |-> {}]

Damaged(o) ==
  {[o EXCEPT !.mask = m] : m \in {"unreadable", "unnamed"}}
  \cup {[o EXCEPT !.distance = "short"], [o EXCEPT !.security = FALSE], [o EXCEPT !.typeReads = FALSE]}
  \cup {[o EXCEPT !.name = s] : s \in Strings(o.name.text)}

\* Links as sound, looping, crossing, dangling and without an object.
Relinked ==
  {[SoundKernel EXCEPT !.entries[e] = [object |-> o, chain |-> next]] :
     e \in {21, 22, 23}, o \in {0, 11, 12, 13}, next \in {0, 21, 22, 23, 99}}
Disturbed ==
  UNION {{[SoundKernel EXCEPT !.objects[a] = o] : o \in Damaged(SoundKernel.objects[a])} : a \in {11, 12, 13}}
TwoDisturbed ==
  {[k EXCEPT !.objects[12].name.text = "DEV"] : k \in Disturbed}

Links == [reads : BOOLEAN, callback : BOOLEAN, sandboxed : BOOLEAN, target : Strings("x")]

MCKernels ==
  Relinked \cup Disturbed \cup TwoDisturbed
  \cup {[SoundKernel EXCEPT !.root = r] : r \in {-1, 0}}
  \cup {[SoundKernel EXCEPT !.offsets = FALSE], [SoundKernel EXCEPT !.typed = FALSE],
        [SoundKernel EXCEPT !.unreadable = {<<11, 2>>}],
        [SoundKernel EXCEPT !.objects = @ @@ (14 :> Object("z", "Device")), !.directories[11] = <<23, 24>>,
                      !.entries = @ @@ (24 :> [object |-> 14, chain |-> 0])],
        [SoundKernel EXCEPT !.links = Links]}

Path(parts) == [rooted |-> TRUE, parts |-> parts]
MCPaths ==
  {Path(<<"">>), Path(<<"", "">>), Path(<<"DEV">>), Path(<<"x">>), Path(<<"nope">>), Path(<<"dev", "Y">>),
   Path(<<"dev", "">>), Path(<<"dev", "", "y">>), Path(<<"x", "y">>), Path(<<"dev", "y", "z">>),
   Path(<<"dev", "dev", "dev", "y">>), [rooted |-> FALSE, parts |-> <<"dev">>]}
MCFolded == [n \in {"", "dev", "DEV", "x", "y", "Y", "z", "nope"} |->
               IF n = "dev" THEN "DEV" ELSE IF n = "y" THEN "Y" ELSE n]

\* Units of three binary digits; a table of two levels and the leaves, and one out of itself.
MCHostFold == [u \in 0 .. 7 |-> IF u = 5 THEN 4 ELSE IF u = 7 THEN 6 ELSE u]
Trie(leaf) == [n \in 0 .. 9 |-> CASE n = 0 -> 2 [] n = 1 -> 4 [] n = 2 -> 6 [] n = 3 -> 6
                                   [] n = 4 -> 6 [] n = 5 -> 8 [] n = 6 -> 0 [] n = 7 -> 0
                                   [] n = 8 -> 0 [] n = 9 -> leaf]
MCFoldTargets ==
  {[base |-> b, pointer |-> TRUE, reads |-> r, elements |-> Trie(l)] :
     b \in {-1, 0, 100}, l \in {0, 7}, r \in {0 .. 2, {0, 1}, {1, 2}}}

AnyTarget == CHOOSE t \in MCFoldTargets : t.base = 0
NoFold == foldTable = AnyTarget /\ known = [base |-> NotAsked, units |-> <<>>, hostFolded |-> FALSE]
NoNamespace == kernel = SoundKernel /\ descent = NoCall /\ stop = "none" /\ result = Nothing
-----------------------------------------------------------------------------
NoQuery == index = <<>> /\ flags = [complete |-> TRUE, expired |-> FALSE, stopped |-> FALSE]
           /\ asked = <<"nothing">> /\ answer = Unanswered
Nowhere == [Process EXCEPT !.pointers = <<<<>>>>, !.truth = {}]
NoDiscovery ==
  /\ target = Nowhere /\ expired = FALSE /\ interrupted = FALSE /\ pc = "done"
  /\ heaps = <<>> /\ h = 1 /\ i = 0 /\ roots = <<>> /\ reusable = {} /\ cached = {}
  /\ tree = NoTree /\ list = NoList /\ back = "none" /\ free = {}
  /\ c = 1 /\ seg = 0 /\ seen = {} /\ d = 1 /\ larges = {}
  /\ table = "none" /\ regions = {} /\ said = FALSE /\ unpolled = 0 /\ late = 0

NoNames == NoFold /\ NoNamespace

Init ==
  \/ subject = "discovery" /\ DiscoveryInit /\ NoQuery /\ NoNames
  \/ subject = "query" /\ QueryInit /\ NoDiscovery /\ NoNames
  \/ subject = "fold" /\ UpcaseInit /\ NoDiscovery /\ NoQuery /\ NoNamespace
  \/ subject = "namespace" /\ NamespaceInit /\ NoDiscovery /\ NoQuery /\ NoFold

namesVars == <<upcaseVars, namespaceVars>>

Next ==
  /\ \/ subject = "discovery" /\ DiscoveryNext /\ UNCHANGED <<queryVars, namesVars>>
     \/ subject = "query" /\ QueryNext /\ UNCHANGED <<discoveryVars, namesVars>>
     \/ subject = "fold" /\ UpcaseNext /\ UNCHANGED <<discoveryVars, queryVars, namespaceVars>>
     \/ subject = "namespace" /\ NamespaceNext /\ UNCHANGED <<discoveryVars, queryVars, upcaseVars>>
  /\ UNCHANGED subject

\* Both walks are loops of one thread, which go on once begun.
Spec ==
  /\ Init
  /\ [][Next]_<<subject, discoveryVars, queryVars, namesVars>>
  /\ DiscoveryFairness
  /\ WF_namespaceVars(subject = "namespace" /\ NamespaceStep)

\* Both walks end, whatever the lists, trees and chains they follow lead to: a cycle is met again
\* and noticed, though nothing on it is counted (walk_tree_nodes, enumerate).
WalksEnd ==
  /\ DiscoveryEnds
  /\ WalkEnds
=============================================================================
