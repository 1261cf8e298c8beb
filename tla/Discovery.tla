------------------------------ MODULE Discovery ------------------------------
(***************************************************************************)
(* The first half of a pool walk (pool/snapshot.rs): from the globals of   *)
(* the heap manager through heaps, slots, trees, lists, segments and page  *)
(* ranges to the regions that hold blocks, under a deadline and a Ctrl+C,  *)
(* over memory of which any part may not read.                             *)
(*                                                                         *)
(* A cell is what one debugger read asks for, named <<what, of>>; those in *)
(* target.lost cannot be read.  The regions and the evidence of free       *)
(* chunks that the target really has are in target.truth, which only the   *)
(* properties use.                                                         *)
(***************************************************************************)
EXTENDS Links

CONSTANTS
  Targets,
  PoolHeader, VsHeader,  \* the sizes of the two headers, in units of sixteen bytes
  Page                   \* PAGE_SIZE, in those units

VARIABLES
  target,
  expired, interrupted,  \* the deadline of discovery has passed; somebody pressed Ctrl+C
  pc,
  heaps,     \* the heaps found, in order
  h,         \* the one being discovered
  i,         \* the index of the loop the walk is in
  roots,     \* vs_roots
  reusable, cached,  \* discover_vs_evidence
  tree, list,        \* the walk of links in progress
  back,      \* where it was begun
  free,      \* free_nodes
  c,         \* the segment context
  seg, seen, \* the segment, and those met in this context
  d,         \* the page range in the segment
  larges,    \* the large allocations not yet looked at
  table,     \* Discovery::big_pages: "none", or what became of its batch of entries
  regions,   \* Discovery::regions
  said,      \* whether Discovery::diagnostics holds anything
  unpolled,  \* history: reads since the last poll
  late       \* history: reads begun after the deadline or the Ctrl+C

discoveryVars ==
  <<target, expired, interrupted, pc, heaps, h, i, roots, reusable, cached, tree, list, back,
    free, c, seg, seen, d, larges, table, regions, said, unpolled, late>>

Heap == target.heap[heaps[h]]
Context == Heap.contexts[c]
Segment == target.segs[seg]
PageRange == Segment.ranges[d]
NoTree == tree_start(0)
NoList == slist_start([first |-> 0, depth |-> 0])

\* walk_user_segment_heaps is handed its heaps, and has no manager or table to read.
GivenHeaps == IF target.user THEN target.pointers[1] ELSE <<>>

DiscoveryInit ==
  /\ target \in Targets
  /\ expired = FALSE /\ interrupted = FALSE
  /\ pc = IF target.user THEN "keys" ELSE "number"
  /\ heaps = GivenHeaps
  /\ h = 1 /\ i = 0 /\ roots = <<>> /\ reusable = {} /\ cached = {}
  /\ tree = NoTree /\ list = NoList /\ back = "none" /\ free = {}
  /\ c = 1 /\ seg = 0 /\ seen = {} /\ d = 1 /\ larges = {}
  /\ table = "none" /\ regions = {} /\ said = FALSE
  /\ unpolled = 0 /\ late = 0

-----------------------------------------------------------------------------
(* Reads and polls. *)

Readable(cell) == cell \notin target.lost
Ended == pc \in {"done", "expired", "failed"}

Reads(n) ==
  /\ unpolled' = unpolled + n
  /\ late' = IF expired \/ interrupted THEN late + n ELSE late

check_budget == ~interrupted /\ ~expired

\* A poll and the reads that follow it before the next step.
Polled(n) ==
  /\ check_budget
  /\ unpolled' = n
  /\ UNCHANGED late

Says(b) == said' = (said \/ b)

SameClock == UNCHANGED <<target, expired, interrupted>>
SameLinks == UNCHANGED <<tree, list, back>>
SameEvidence == UNCHANGED <<roots, reusable, cached>>
SameSegments == UNCHANGED <<free, c, seg, seen, d, larges>>
SameHeaps == UNCHANGED <<heaps, h, table>>

Expire ==
  /\ ~Ended /\ ~expired /\ expired' = TRUE
  /\ UNCHANGED <<target, interrupted, pc, heaps, h, i, roots, reusable, cached, tree, list, back,
                 free, c, seg, seen, d, larges, table, regions, said, unpolled, late>>

Interrupt ==
  /\ ~Ended /\ ~interrupted /\ interrupted' = TRUE
  /\ UNCHANGED <<target, expired, pc, heaps, h, i, roots, reusable, cached, tree, list, back,
                 free, c, seg, seen, d, larges, table, regions, said, unpolled, late>>

\* Where the code polls before it goes on.
AtPoll ==
  \/ pc = "node" /\ i <= target.number
  \/ pc \in {"table", "config", "root", "lookup"}
  \/ pc = "range" /\ d <= Len(Segment.ranges)
  \/ pc = "large" /\ larges # {}
  \/ pc = "slots" /\ i \in 1 .. Len(Heap.slots)
  \/ pc = "buckets" /\ i \in 1 .. Len(Heap.buckets)
  \/ pc = "tree" /\ tree.stack # <<>> /\ Top(tree) # 0
  \/ pc = "list" /\ slist_more(list)
  \/ pc = "context" /\ c <= Len(Heap.contexts)
  \/ pc = "segment" /\ seg # 0 /\ Cardinality(seen) < Limit

\* A halt is about the walk: the error goes past every level that absorbs the failures of a
\* heap or a context.  Ctrl+C fails the walk, the deadline keeps what was found.
Halt ==
  /\ AtPoll /\ ~check_budget
  /\ pc' = IF interrupted THEN "failed" ELSE "expired"
  /\ SameClock /\ SameLinks /\ SameEvidence /\ SameSegments /\ SameHeaps
  /\ UNCHANGED <<i, regions, said, unpolled, late>>

-----------------------------------------------------------------------------
(* discover_pool_regions: the heaps and the globals. *)

ReadNumber ==
  /\ pc = "number"
  /\ IF Readable(<<"number", 0>>) /\ target.number > 0
     THEN pc' = "node" /\ i' = 1
     ELSE pc' = "failed" /\ UNCHANGED i
  /\ Reads(1)
  /\ SameClock /\ SameLinks /\ SameEvidence /\ SameSegments /\ SameHeaps /\ UNCHANGED <<regions, said>>

\* The heaps that a row of pointers names, as far as it reads.
NonNull(row) ==
  SelectSeq([k \in DOMAIN row |-> IF Readable(<<"pointer", row[k]>>) THEN row[k] ELSE 0],
            LAMBDA p : p # 0)
Unread(row) == \E k \in DOMAIN row : ~Readable(<<"pointer", row[k]>>)

Node ==
  /\ pc = "node" /\ i <= target.number
  /\ heaps' = heaps \o NonNull(target.pointers[i])
  /\ Says(Unread(target.pointers[i]))
  /\ i' = i + 1
  /\ Polled(Len(target.pointers[i]))
  /\ SameClock /\ SameLinks /\ SameEvidence /\ SameSegments /\ UNCHANGED <<pc, h, table, regions>>

Specials ==
  /\ pc = "node" /\ i > target.number
  /\ heaps' = heaps \o NonNull(target.special)
  /\ Says(Unread(target.special))
  /\ pc' = "keys"
  /\ Reads(Len(target.special))
  /\ SameClock /\ SameLinks /\ SameEvidence /\ SameSegments /\ UNCHANGED <<h, i, table, regions>>

Keys ==
  /\ pc = "keys"
  /\ pc' = IF ~Readable(<<"keys", 0>>) THEN "failed" ELSE IF target.user THEN "heap" ELSE "table"
  /\ Reads(2)
  /\ SameClock /\ SameLinks /\ SameEvidence /\ SameSegments /\ SameHeaps /\ UNCHANGED <<i, regions, said>>

OpenTable ==
  /\ pc = "table"
  /\ table' = IF Readable(<<"table", 0>>) THEN "unread" ELSE "none"
  /\ Says(~Readable(<<"table", 0>>))
  /\ pc' = "heap"
  /\ Polled(2)
  /\ SameClock /\ SameLinks /\ SameEvidence /\ SameSegments /\ UNCHANGED <<heaps, h, i, regions>>

BeginHeap ==
  /\ pc = "heap" /\ h <= Len(heaps)
  /\ pc' = "slots" /\ i' = 0
  /\ roots' = <<>> /\ reusable' = {} /\ cached' = {} /\ c' = 1
  /\ SameClock /\ SameLinks /\ SameHeaps
  /\ UNCHANGED <<free, seg, seen, d, larges, regions, said, unpolled, late>>

NoMoreHeaps ==
  /\ pc = "heap" /\ h > Len(heaps)
  /\ pc' = "done"
  /\ SameClock /\ SameLinks /\ SameEvidence /\ SameSegments /\ SameHeaps /\ UNCHANGED <<i, regions, said, unpolled, late>>

-----------------------------------------------------------------------------
(* vs_roots and discover_vs_evidence. *)

\* A context that carries its tree is its own root; a slot map that does not read, or that
\* refers to the context itself, yields none.
SlotMap ==
  /\ pc = "slots" /\ i = 0
  /\ IF Heap.slots = <<>>
     THEN roots' = <<heaps[h]>> /\ pc' = "trees" /\ i' = 1 /\ Reads(0) /\ UNCHANGED said
     ELSE /\ Reads(2)
          /\ IF Readable(<<"map", heaps[h]>>) /\ Heap.slots # <<0>>
             THEN i' = 1 /\ UNCHANGED <<pc, roots, said>>
             ELSE pc' = "config" /\ Says(TRUE) /\ UNCHANGED <<i, roots>>
  /\ SameClock /\ SameLinks /\ SameSegments /\ SameHeaps /\ UNCHANGED <<reusable, cached, regions>>

\* Mutant: a slot map entry that does not read is skipped silently.
omits_quietly(k) == FALSE

\* An entry, or the owner a slot names, does not read or is somebody else's.
omits(k) ==
  LET s == Heap.slots[k]
  IN  \/ ~Readable(<<"entry", k>>)
      \/ /\ s # 0 /\ \A j \in 1 .. k - 1 : Heap.slots[j] # s
         /\ ~Readable(<<"slot", s>>) \/ s \notin Heap.owned

Slot ==
  /\ pc = "slots" /\ i \in 1 .. Len(Heap.slots)
  /\ LET s == Heap.slots[i]
         new == /\ Readable(<<"entry", i>>) /\ s # 0 /\ Readable(<<"slot", s>>)
                /\ s \in Heap.owned /\ \A k \in DOMAIN roots : roots[k] # s
     IN  roots' = IF new THEN Append(roots, s) ELSE roots
  /\ Says(omits(i))
  /\ i' = i + 1
  /\ Polled(2)
  /\ SameClock /\ SameLinks /\ SameSegments /\ SameHeaps /\ UNCHANGED <<pc, reusable, cached, regions>>

SlotsEnd ==
  /\ pc = "slots" /\ i > Len(Heap.slots) /\ Heap.slots # <<>>
  /\ pc' = IF roots = <<>> THEN "config" ELSE "trees"
  /\ i' = 1
  /\ SameClock /\ SameLinks /\ SameEvidence /\ SameSegments /\ SameHeaps /\ UNCHANGED <<regions, said, unpolled, late>>

NextTree ==
  /\ pc = "trees"
  /\ IF i <= Len(roots) THEN pc' = "root" /\ back' = "trees" /\ UNCHANGED i
                        ELSE pc' = "delays" /\ i' = 1 /\ UNCHANGED back
  /\ SameClock /\ SameEvidence /\ SameSegments /\ SameHeaps
  /\ UNCHANGED <<tree, list, regions, said, unpolled, late>>

\* The tree that is to be walked, named by the cell of its root.
TreeOf ==
  IF back = "trees" THEN <<"root", roots[i]>>
  ELSE IF back = "free" THEN <<"free", Context.id>> ELSE <<"larges", heaps[h]>>

\* tree_nodes: a root that does not read or is corrupt is an empty tree.
TreeRoot ==
  /\ pc = "root"
  /\ tree' = IF Readable(TreeOf) /\ TreeOf \in DOMAIN target.roots
             THEN tree_start(target.roots[TreeOf]) ELSE NoTree
  /\ Says(~(Readable(TreeOf) /\ TreeOf \in DOMAIN target.roots))
  /\ pc' = "tree"
  /\ Polled(2)
  /\ SameClock /\ SameEvidence /\ SameSegments /\ SameHeaps /\ UNCHANGED <<i, list, back, regions>>

TreeTurn ==
  /\ pc = "tree" /\ tree.stack # <<>>
  /\ tree' = tree_step(tree, target.links)
  /\ Says(tree'.said)
  /\ IF Top(tree) = 0 THEN Reads(0) ELSE Polled(1)
  /\ SameClock /\ SameEvidence /\ SameSegments /\ SameHeaps /\ UNCHANGED <<pc, i, list, back, regions>>

\* The nodes go to the one that asked for them.
TreeEnd ==
  /\ pc = "tree" /\ tree.stack = <<>>
  /\ \/ /\ back = "trees" /\ pc' = "trees" /\ i' = i + 1
        /\ reusable' = reusable \cup tree.nodes
        /\ UNCHANGED <<free, larges>>
     \/ /\ back = "free" /\ pc' = "head"
        /\ free' = tree.nodes
        /\ UNCHANGED <<i, reusable, larges>>
     \/ /\ back = "large" /\ pc' = "large"
        /\ larges' = tree.nodes
        /\ UNCHANGED <<i, reusable, free>>
  /\ SameClock /\ SameLinks /\ SameHeaps
  /\ UNCHANGED <<roots, cached, c, seg, seen, d, regions, said, unpolled, late>>

\* walk_slist_nodes up to its loop: a head that does not read is an empty list.
ListHead(cell, from) ==
  /\ list' = IF Readable(cell) THEN slist_start(target.lists[cell]) ELSE NoList
  /\ Says(~Readable(cell))
  /\ pc' = "list" /\ back' = from

NextDelay ==
  /\ pc = "delays" /\ i <= Len(roots)
  /\ ListHead(<<"delay", roots[i]>>, "delays")
  /\ Reads(1)
  /\ SameClock /\ SameEvidence /\ SameSegments /\ SameHeaps /\ UNCHANGED <<i, tree, regions>>

DelaysEnd ==
  /\ pc = "delays" /\ i > Len(roots)
  /\ pc' = IF Heap.buckets = <<>> THEN "config" ELSE "buckets"
  /\ i' = 0
  /\ SameClock /\ SameLinks /\ SameEvidence /\ SameSegments /\ SameHeaps /\ UNCHANGED <<regions, said, unpolled, late>>

ListTurn ==
  /\ pc = "list" /\ slist_more(list)
  /\ list' = slist_step(list, target.next)
  /\ Polled(1)
  /\ SameClock /\ SameEvidence /\ SameSegments /\ SameHeaps /\ UNCHANGED <<pc, i, tree, back, regions, said>>

\* insert_cached_chunk_candidates: a delay-free link points at the chunk's header, a lookaside
\* link at its data, past one header or past one more where the page ends.
candidates(entry) ==
  LET header == entry - (PoolHeader + VsHeader)
  IN  {entry, header} \cup (IF header % Page = Page - PoolHeader THEN {header - 1} ELSE {})

ListEnd ==
  /\ pc = "list" /\ ~slist_more(list)
  /\ Says(slist_end(list).said)
  /\ cached' = cached \cup UNION {candidates(e) : e \in list.nodes}
  /\ pc' = back /\ i' = i + 1
  /\ SameClock /\ SameLinks /\ SameSegments /\ SameHeaps
  /\ UNCHANGED <<roots, reusable, regions, unpolled, late>>

\* A bucket count that does not read is taken for none.
BucketCount ==
  /\ pc = "buckets" /\ i = 0
  /\ IF Readable(<<"count", heaps[h]>>) THEN i' = 1 /\ UNCHANGED pc ELSE pc' = "config" /\ UNCHANGED i
  /\ Reads(1)
  /\ SameClock /\ SameLinks /\ SameEvidence /\ SameSegments /\ SameHeaps /\ UNCHANGED <<regions, said>>

\* An unused bucket is passed over; one whose size does not read or is implausible, aloud.
Bucket ==
  /\ pc = "buckets" /\ i \in 1 .. Len(Heap.buckets)
  /\ LET b == Heap.buckets[i]
         sized == Readable(<<"size", b.id>>)
     IN  IF sized /\ b.size = "some"
         THEN /\ ListHead(<<"bucket", b.id>>, "buckets")
              /\ UNCHANGED i
         ELSE /\ Says(~sized \/ b.size = "implausible")
              /\ i' = i + 1 /\ UNCHANGED <<pc, list, back>>
  /\ Polled(2)
  /\ SameClock /\ SameEvidence /\ SameSegments /\ SameHeaps /\ UNCHANGED <<tree, regions>>

BucketsEnd ==
  /\ pc = "buckets" /\ i > Len(Heap.buckets)
  /\ pc' = "config"
  /\ SameClock /\ SameLinks /\ SameEvidence /\ SameSegments /\ SameHeaps
  /\ UNCHANGED <<i, regions, said, unpolled, late>>

-----------------------------------------------------------------------------
(* discover_heap_regions and discover_segment_context. *)

\* vs_skips_page_end.
Config ==
  /\ pc = "config" /\ pc' = "probe"
  /\ Says(~Readable(<<"config", heaps[h]>>))
  /\ Polled(1)
  /\ SameClock /\ SameLinks /\ SameEvidence /\ SameSegments /\ SameHeaps /\ UNCHANGED <<i, regions>>

ProbeHeap ==
  /\ pc = "probe" /\ pc' = "context"
  /\ Says(~Readable(<<"lfh", heaps[h]>>))
  /\ Reads(2)
  /\ SameClock /\ SameLinks /\ SameEvidence /\ SameSegments /\ SameHeaps /\ UNCHANGED <<i, regions>>

\* A context whose geometry makes no sense is one this heap does not use.
BeginContext ==
  /\ pc = "context" /\ c <= Len(Heap.contexts)
  /\ LET read == Readable(<<"geometry", Context.id>>)
     IN  /\ Says(~read)
         /\ IF read /\ Context.used THEN pc' = "root" /\ back' = "free" /\ UNCHANGED c
                                     ELSE c' = c + 1 /\ UNCHANGED <<pc, back>>
  /\ Polled(3)
  /\ SameClock /\ SameEvidence /\ SameHeaps
  /\ UNCHANGED <<i, tree, list, free, seg, seen, d, larges, regions>>

SegmentListHead ==
  /\ pc = "head"
  /\ seen' = {}
  /\ IF Readable(<<"head", Context.id>>)
     THEN pc' = "segment" /\ seg' = Context.head /\ UNCHANGED <<c, said>>
     ELSE pc' = "context" /\ c' = c + 1 /\ Says(TRUE) /\ UNCHANGED seg
  /\ Reads(1)
  /\ SameClock /\ SameLinks /\ SameEvidence /\ SameHeaps /\ UNCHANGED <<i, free, d, larges, regions>>

met == seg \in seen

\* A segment met before ends the list; one that is not sound is passed over.
BeginSegment ==
  /\ pc = "segment" /\ seg # 0 /\ Cardinality(seen) < Limit
  /\ LET read == Readable(<<"segment", seg>>)
         sound == read /\ Segment.signed /\ Readable(<<"descriptors", seg>>)
     IN  \/ /\ met /\ Says(TRUE)
            /\ pc' = "context" /\ c' = c + 1 /\ UNCHANGED <<seg, seen, d>>
         \/ /\ ~met /\ sound /\ UNCHANGED said
            /\ pc' = "range" /\ d' = 1 /\ seen' = seen \cup {seg} /\ UNCHANGED <<seg, c>>
         \/ /\ ~met /\ ~sound /\ Says(TRUE)
            /\ seen' = seen \cup {seg}
            /\ seg' = IF read \/ Readable(<<"link", seg>>) THEN Segment.next ELSE 0
            /\ UNCHANGED <<pc, c, d>>
  /\ Polled(2)
  /\ SameClock /\ SameLinks /\ SameEvidence /\ SameHeaps /\ UNCHANGED <<i, free, larges, regions>>

\* The list came back to its head, or the walk has met as many as it will.
SegmentsEnd ==
  /\ pc = "segment" /\ (seg = 0 \/ Cardinality(seen) >= Limit)
  /\ pc' = "context" /\ c' = c + 1
  /\ SameClock /\ SameLinks /\ SameEvidence /\ SameHeaps
  /\ UNCHANGED <<i, free, seg, seen, d, larges, regions, said, unpolled, late>>

RangesEnd ==
  /\ pc = "range" /\ d > Len(Segment.ranges)
  /\ pc' = "segment" /\ seg' = Segment.next
  /\ SameClock /\ SameLinks /\ SameEvidence /\ SameHeaps
  /\ UNCHANGED <<i, free, c, seen, d, larges, regions, said, unpolled, late>>

-----------------------------------------------------------------------------
(* The page ranges of a segment, and the large allocations of a heap. *)

\* In the free-page tree, or not in use by its own flags.
StateOf == IF PageRange.node \in free \/ PageRange.unused THEN "ReusableFree" ELSE "Allocated"

Backend == IF Heap.special THEN "Segment" ELSE PageRange.backend

\* A first descriptor carries a signature, unless its range is free and the tree's links lie
\* over it.
genuine == PageRange.first => PageRange.signed \/ PageRange.node \in free

\* The header of the subsegment the range holds, and its bitmap, read and make sense.
decodes ==
  \/ Backend = "Segment"
  \/ /\ Readable(<<"subsegment", PageRange.id>>) /\ PageRange.sound
     /\ Backend = "Lfh" => Readable(<<"bitmap", PageRange.id>>)

\* Whether the big-page table is asked about it.
asks ==
  /\ table # "none" /\ ~Heap.special
  /\ Backend = "Vs" \/ (Backend = "Segment" /\ StateOf = "Allocated")

\* What the table holds about it counts when the batch reads.
RangeRegion(batch) ==
  [id |-> PageRange.id, state |-> StateOf, known |-> asks /\ batch = "read" /\ PageRange.big,
   reusable |-> reusable, cached |-> cached]

\* A continuation descriptor has no size of its own.
Skip == IF PageRange.unit = 0 THEN 1 ELSE PageRange.unit

\* One turn of the descriptor loop.  The table's entries are read the first time they are
\* asked for, after a poll of their own.
RangeStep ==
  /\ pc = "range" /\ d <= Len(Segment.ranges)
  /\ LET good == PageRange.unit > 0 /\ genuine /\ decodes
     IN  /\ Says(PageRange.unit > 0 /\ ~good)
         /\ \/ /\ good /\ asks /\ table = "unread"
               /\ pc' = "lookup" /\ back' = "range" /\ UNCHANGED <<d, regions>>
            \/ /\ ~(good /\ asks /\ table = "unread")
               /\ d' = d + Skip
               /\ regions' = IF good THEN regions \cup {RangeRegion(table)} ELSE regions
               /\ UNCHANGED <<pc, back>>
  /\ Polled(2)
  /\ SameClock /\ SameEvidence /\ SameHeaps
  /\ UNCHANGED <<i, tree, list, free, c, seg, seen, larges>>

LargesOf ==
  /\ pc = "context" /\ c > Len(Heap.contexts)
  /\ pc' = "root" /\ back' = "large"
  /\ SameClock /\ SameEvidence /\ SameSegments /\ SameHeaps
  /\ UNCHANGED <<i, tree, list, regions, said, unpolled, late>>

First(S) == CHOOSE n \in S : \A m \in S : n <= m

LargeRegion(node, batch) ==
  [id |-> node, state |-> "Allocated",
   known |-> batch = "read" /\ target.large[node].big, reusable |-> {}, cached |-> {}]

\* A kernel's large allocation is in the table too, or the walk says it is not.
Large ==
  /\ pc = "large" /\ larges # {}
  /\ LET node == First(larges)
         read == Readable(<<"metadata", node>>)
         good == read /\ target.large[node].is = "sound"
     IN  \/ /\ good /\ table = "unread"
            /\ pc' = "lookup" /\ UNCHANGED <<larges, regions, said>>
         \/ /\ ~(good /\ table = "unread")
            /\ larges' = larges \ {node}
            /\ regions' = IF good THEN regions \cup {LargeRegion(node, table)} ELSE regions
            /\ Says(\/ ~read
                    \/ target.large[node].is = "implausible"
                    \/ good /\ ~target.user /\ ~LargeRegion(node, table).known)
            /\ UNCHANGED pc
  /\ Polled(1)
  /\ SameClock /\ SameLinks /\ SameEvidence /\ SameHeaps /\ UNCHANGED <<i, free, c, seg, seen, d>>

\* BigPageTable::batch, for the range or the allocation that asked.
Lookup ==
  /\ pc = "lookup"
  /\ table' = IF Readable(<<"batch", 0>>) THEN "read" ELSE "empty"
  /\ pc' = back
  /\ \/ /\ back = "range" /\ d' = d + Skip
        /\ regions' = regions \cup {RangeRegion(table')}
        /\ Says(~Readable(<<"batch", 0>>))
        /\ UNCHANGED larges
     \/ /\ back = "large"
        /\ LET node == First(larges)
           IN  /\ larges' = larges \ {node}
               /\ regions' = regions \cup {LargeRegion(node, table')}
               /\ Says(\/ ~Readable(<<"batch", 0>>)
                       \/ ~LargeRegion(node, table').known)
        /\ UNCHANGED d
  /\ Polled(1)
  /\ SameClock /\ SameLinks /\ SameEvidence /\ UNCHANGED <<heaps, h, i, free, c, seg, seen>>

HeapEnd ==
  /\ pc = "large" /\ larges = {}
  /\ pc' = "heap" /\ h' = h + 1
  /\ SameClock /\ SameLinks /\ SameEvidence /\ SameSegments
  /\ UNCHANGED <<heaps, i, table, regions, said, unpolled, late>>

Walk ==
  \/ ReadNumber \/ Node \/ Specials \/ Keys \/ OpenTable \/ BeginHeap \/ NoMoreHeaps
  \/ SlotMap \/ Slot \/ SlotsEnd \/ NextTree \/ TreeRoot \/ TreeTurn \/ TreeEnd
  \/ NextDelay \/ DelaysEnd \/ ListTurn \/ ListEnd \/ BucketCount \/ Bucket \/ BucketsEnd
  \/ Config \/ ProbeHeap \/ BeginContext \/ SegmentListHead \/ BeginSegment \/ SegmentsEnd
  \/ RangesEnd \/ RangeStep \/ LargesOf \/ Large \/ Lookup \/ HeapEnd \/ Halt

DiscoveryNext == Walk \/ Expire \/ Interrupt \/ (Ended /\ UNCHANGED discoveryVars)

\* The walk is a loop of one thread; the clock and the operator owe nothing.
DiscoveryFairness == WF_discoveryVars(Walk)

-----------------------------------------------------------------------------
(* Properties. *)

CountUnread == \E k \in DOMAIN heaps : ~Readable(<<"count", heaps[k]>>)

\* Discovery that ends with nothing said has found every region the heaps hold, in its true
\* state, with what the big-page table knows of it and with all the evidence of free and of
\* cached chunks: whatever did not read, was corrupt, or was cut by a limit, has been said.  The
\* one silent loss is a lookaside whose bucket count does not read, with its cached chunks.
LossSaid ==
  pc = "done" /\ ~said =>
    \A t \in target.truth :
      \E r \in regions : /\ r.id = t.id /\ r.state = t.state /\ r.known = t.known
                        /\ r.reusable = t.reusable
                        /\ (t.cached \subseteq r.cached \/ CountUnread)

\* However the memory fails the walk, and wherever a halt cuts it, a region it lists is one
\* the heaps hold, listed once: neither a stale link, nor the inside of a range that was
\* rejected, nor a list that bites its tail makes up another.
RegionsReal ==
  /\ \A r \in regions : \E t \in target.truth : t.id = r.id /\ (r.known => t.known)
  /\ \A r, s \in regions : r.id = s.id => r = s

\* A range is called free only when it is: a free-page tree that does not read may hide that a
\* range is free and never frees one.
FreeIsFree ==
  \A r \in regions : r.state = "ReusableFree" =>
    \E t \in target.truth : t.id = r.id /\ t.state = "ReusableFree"

\* Once the deadline has passed or Ctrl+C has been pressed no further poll lets the walk go on:
\* what it still reads lies between two polls, and that is ten reads at most, and one more
\* for every slot of a heap.
HaltsPromptly == late <= unpolled /\ unpolled <= 10 + Len(roots)

\* Discovery ends, cycles or no cycles.
DiscoveryEnds == <>Ended

\* Discovery lists what the heaps hold, as it is, or says that it does not, and stops promptly
\* when asked to (pool/snapshot.rs, from discover_regions on).
DiscoveryExact ==
  /\ LossSaid
  /\ RegionsReal
  /\ FreeIsFree
  /\ HaltsPromptly
=============================================================================
