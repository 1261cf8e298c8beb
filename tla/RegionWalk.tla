----------------------------- MODULE RegionWalk -----------------------------
(***************************************************************************)
(* The second half of a pool walk (pool/snapshot.rs): the regions that     *)
(* discovery found are queried, read extent by extent and decoded into     *)
(* spans, under a deadline, a Ctrl+C and an optional match threshold.      *)
(*                                                                         *)
(* Addresses count units of sixteen bytes (VS_UNIT).  A target holds the   *)
(* regions, which of its pages can be read and which are committed, and    *)
(* two views of each region: what decoding finds at an address (content,   *)
(* tags), which the walk uses, and the blocks the allocator really has     *)
(* there (truth), which only the properties use.  The engine may fail a    *)
(* query, answer one without advancing, and fail a read.                   *)
(***************************************************************************)
EXTENDS Integers, Sequences, FiniteSets

CONSTANTS
  Page,            \* PAGE_SIZE, in units
  MaxHeaderChunk,  \* MAX_POOL_HEADER_CHUNK, in units
  VsHeader,        \* the size of a _HEAP_VS_CHUNK_HEADER, in units
  MaxStalls,       \* MAX_CONSECUTIVE_STALLS
  ReadChunk,       \* EXTENT_READ_CHUNK, in units
  TraversalLimit,  \* chunks decoded in one VS extent
  Walks            \* the walks that may be asked for: a target and a match threshold

None == -1
NoAddress == -1
NoLimit == [tag |-> None, paged |-> {}, matches |-> 0]

Least(a, b) == IF a <= b THEN a ELSE b
Most(a, b) == IF a >= b THEN a ELSE b
PageOf(u) == u \div Page

-----------------------------------------------------------------------------
(* The targets that may be walked: what an allocator writes, said of the blocks that are   *)
(* there.  Of a header that does not decode nothing is said.                               *)

EndOf(g) == g.address + g.size
Block(usable, end, tag) == [usable |-> usable, end |-> end, tag |-> tag]
TagAt(g, a) == IF g.pool > 0 /\ a \in DOMAIN g.tags THEN g.tags[a] ELSE 0
Named(g) == g.backend = "Large" \/ (g.backend = "Segment" /\ g.known # None)

\* A kernel target is not asked what it commits, so nothing there is known to hold nothing.
Committed(t, u) == t.user => PageOf(u) \in t.committed
Backed(t, g) ==
  \A b \in g.truth : LET first == b.usable - g.pool
                      IN /\ first \in g.address .. EndOf(g) /\ b.end \in first + 1 .. EndOf(g)
                         /\ \A u \in first .. b.end - 1 : Committed(t, u)

\* One allocation, or none.
WholeOk(g, from, tag) ==
  g.truth = IF g.state = "Allocated" /\ g.size > 0 THEN {Block(g.address + from, EndOf(g), tag)} ELSE {}

\* Slots of one size, none across a page, of which the bitmap says which are in use.
SlotBlock(g, s) == LET a == g.address + s * g.unit IN Block(a + g.pool, a + g.unit, TagAt(g, a))
Whole(g) ==
  {s \in 0 .. g.size : LET a == g.address + s * g.unit
                       IN a + g.unit <= EndOf(g) /\ PageOf(a) = PageOf(a + g.unit - 1)}
SlotsOk(g) ==
  /\ g.unit > 0
  /\ g.pool <= g.unit =>
       /\ \A b \in g.truth : \E s \in Whole(g) : b = SlotBlock(g, s) /\ (s \in DOMAIN g.bitmap => g.bitmap[s])
       /\ \A s \in Whole(g) \cap DOMAIN g.bitmap : g.bitmap[s] => SlotBlock(g, s) \in g.truth

\* One block to a page, against its end.
PagesOk(g) ==
  /\ g.address % Page = 0 /\ g.size % Page = 0
  /\ \A p \in DOMAIN g.content :
       /\ p % Page = 0 /\ p \in g.address .. EndOf(g) - 1
       /\ g.content[p].size \in 1 .. Page - g.pool /\ g.content[p].filled \in BOOLEAN
  /\ g.truth = {Block(p + Page - g.content[p].size, p + Page, g.content[p].tag) :
                  p \in {q \in DOMAIN g.content : g.content[q].tag # 0}}

\* Chunks of any size from one end to the other.  A large one that the big-page table has an
\* entry in is that entry's; in another the block follows the headers, moved on by a unit
\* where they would be the last of a page.
VsHeaders(g) == VsHeader + g.pool
Moved(g, a) ==
  /\ g.skips /\ (a + VsHeader + 1) % Page = 0
  /\ g.chunks[a].size > VsHeaders(g)
BigIn(g, a) ==
  {e \in DOMAIN g.big : /\ g.chunks[a].size > MaxHeaderChunk
                        /\ e >= a /\ e + g.big[e].size <= a + g.chunks[a].size /\ e < a + g.chunks[a].size}
ChunkBlock(g, a) == Block(g.chunks[a].usable, g.chunks[a].end, g.chunks[a].tag)
VsBlock(g, a) ==
  LET header == a + VsHeader + (IF Moved(g, a) THEN 1 ELSE 0)
  IN Block(header + g.pool, a + g.chunks[a].size, TagAt(g, header))
ChunksOk(t, g) ==
  /\ g.address \in DOMAIN g.chunks \cup {EndOf(g)}
  /\ \A a \in DOMAIN g.chunks :
       LET next == a + g.chunks[a].size
       IN /\ a \in g.address .. EndOf(g) - 1
          /\ g.chunks[a].size \in Nat /\ g.chunks[a].size >= VsHeaders(g) /\ g.chunks[a].end \in Nat
          /\ next \in DOMAIN g.chunks \cup {EndOf(g)}
          /\ \A b \in DOMAIN g.chunks : b <= a \/ b >= next
          /\ \A u \in a .. a + VsHeaders(g) - 1 : Committed(t, u)
          /\ a \in DOMAIN g.content =>
               /\ g.content[a].size = g.chunks[a].size
               /\ g.chunks[a].live <=> g.content[a].allocated /\ a \notin g.cached \cup g.reusable
               /\ \A e \in BigIn(g, a) : ChunkBlock(g, a) = Block(e, e + g.big[e].size, g.big[e].tag)
               /\ BigIn(g, a) = {} => ChunkBlock(g, a) = VsBlock(g, a)
  /\ g.truth = {ChunkBlock(g, a) : a \in {c \in DOMAIN g.chunks : g.chunks[c].live}}

RegionOk(t, g) ==
  /\ g.address \in Nat /\ g.size \in Nat /\ g.pool \in Nat /\ g.unit \in Nat
  /\ g.backend \in {"Lfh", "Vs", "Segment", "Large"} /\ g.special \in BOOLEAN
  /\ IF Named(g) THEN WholeOk(g, 0, g.known)
     ELSE IF g.special THEN ~t.user /\ PagesOk(g)
     ELSE CASE g.backend = "Segment" -> /\ g.unit = g.size /\ g.pool <= 1
                                        /\ WholeOk(g, g.pool, TagAt(g, g.address)) /\ Backed(t, g)
            [] g.backend = "Lfh" -> SlotsOk(g) /\ Backed(t, g)
            [] g.backend = "Vs" -> ChunksOk(t, g)

\* What can be read is committed, and a threshold asks for one match at least.
ASSUME WalkAssumption ==
  /\ {Page, VsHeader, MaxStalls, ReadChunk} \subseteq Nat \ {0} /\ {MaxHeaderChunk, TraversalLimit} \subseteq Nat
  /\ \A w \in Walks :
       LET t == w[1]
       IN /\ w[2] = NoLimit \/ w[2].matches \in Nat \ {0}
          /\ t.user \in BOOLEAN /\ (t.user => t.readable \subseteq t.committed)
          /\ t.regions \in Seq({t.regions[i] : i \in DOMAIN t.regions})
          /\ \A i \in DOMAIN t.regions : RegionOk(t, t.regions[i])

VARIABLES
  target,       \* what is walked; it is stopped, so it does not change
  limit,        \* match_limit
  expired,      \* whether the walk's deadline has passed
  interrupted,  \* whether somebody pressed Ctrl+C
  pc,           \* where the walk is
  r,            \* the region it is in
  walked,       \* regions walked through
  ranout,       \* walk_discovered_regions' expired
  cursor,       \* walk_region's cursor
  vs,           \* what walk_region carries between VS extents: [next, covered]
  stalled,      \* consecutive_stalls and stalled_here
  extent,       \* the extent being read or decoded: [base, end, got]
  dec,          \* where the decoder is in the extent
  snap,         \* the PoolSnapshot
  late          \* history: transfers begun after the deadline

vars == <<target, limit, expired, interrupted, pc, r, walked, ranout, cursor, vs, stalled,
          extent, dec, snap, late>>

Region == target.regions[r]
RegionEnd == Region.address + Region.size
PageStart(u) == PageOf(u) * Page
NextMultiple(u) == ((u + Page - 1) \div Page) * Page
SlotsUpTo(u, unit) == (u + unit - 1) \div unit

FreshDecoder == [pos |-> 0, resume |-> 0, covered |-> 0, previous |-> None, chunks |-> 0,
                 refused |-> 0, lost |-> FALSE]
NoExtent == [base |-> 0, end |-> 0, got |-> 0]

\* walk_until up to the walk of the regions: discovery may have left diagnostics, which
\* clear complete, and may have run out of its own share of the budget.
Init ==
  /\ \E w \in Walks : target = w[1] /\ limit = w[2]
  /\ expired = FALSE /\ interrupted = FALSE
  /\ pc = "region" /\ r = 1 /\ walked = 0
  /\ ranout \in BOOLEAN
  /\ cursor = 0
  /\ vs = [next |-> 0, covered |-> 0]
  /\ stalled = [run |-> 0, here |-> FALSE]
  /\ extent = NoExtent
  /\ dec = FreshDecoder
  /\ \E clean \in BOOLEAN :
       snap = [spans |-> {}, complete |-> clean, said |-> ~clean, budget_expired |-> FALSE,
               stopped |-> 0, matched |-> 0, refused |-> 0, unplaced |-> 0,
               pages |-> 0, skipped |-> 0, recovered |-> 0]
  /\ late = 0

-----------------------------------------------------------------------------
(* What a snapshot records. *)

is_coverage_gap(state) == state = "Unreadable"
is_chunk(state) == state \in {"Allocated", "ReusableFree", "CachedFree"}

base_span(header, usable, size, tag, state) ==
  [region |-> r, header |-> header, usable |-> usable, end |-> usable + size, tag |-> tag,
   state |-> state]

accepts(span) ==
  /\ span.state = "Allocated"
  /\ span.tag = limit.tag
  /\ Region.paged \in limit.paged

record_span(s, span) ==
  LET seen == [s EXCEPT !.spans = @ \cup {span}]
      more == [seen EXCEPT !.matched = @ + 1]
  IN  IF limit = NoLimit \/ ~accepts(span) THEN seen
      ELSE IF more.matched < limit.matches THEN more
      ELSE [more EXCEPT !.complete = FALSE, !.stopped = limit.matches]

match_limit_reached(s) == s.stopped # 0

says(s) == [s EXCEPT !.said = TRUE]

misses(s) == [s EXCEPT !.said = TRUE, !.complete = FALSE]

\* committed_run: what the memory manager says of an address.
committed_run(u) == Committed(target, u)

\* The longest runs of lo..hi-1 that the memory manager describes the same way.
Runs(lo, hi) ==
  {g \in (lo .. hi - 1) \X (lo + 1 .. hi) :
     /\ g[1] < g[2]
     /\ \A u \in g[1] .. g[2] - 1 : committed_run(u) = committed_run(g[1])
     /\ g[1] = lo \/ committed_run(g[1] - 1) # committed_run(g[1])
     /\ g[2] = hi \/ committed_run(g[2]) # committed_run(g[1])}

gap(g) ==
  base_span(g[1], g[1], g[2] - g[1], 0,
            IF committed_run(g[1]) THEN "Unreadable" ELSE "Uncommitted")

missed(lo, hi) == \E u \in lo .. hi - 1 : committed_run(u)

unreadable(s, lo, hi) ==
  LET gaps == {gap(g) : g \in Runs(lo, hi)}
  IN  [s EXCEPT !.spans = @ \cup gaps,
                !.complete = @ /\ \A g \in gaps : ~is_coverage_gap(g.state)]

-----------------------------------------------------------------------------
(* The clock and the operator. *)

Running == pc \notin {"done", "failed"}

Expire ==
  /\ Running /\ ~expired
  /\ expired' = TRUE
  /\ UNCHANGED <<target, limit, interrupted, pc, r, walked, ranout, cursor, vs, stalled,
                 extent, dec, snap, late>>

Interrupt ==
  /\ Running /\ ~interrupted
  /\ interrupted' = TRUE
  /\ UNCHANGED <<target, limit, expired, pc, r, walked, ranout, cursor, vs, stalled,
                 extent, dec, snap, late>>

\* The loops that poll: the extent loop, and the chunks of an extent read in pieces.
Polls ==
  \/ pc = "extent" /\ cursor < RegionEnd
  \/ pc = "read" /\ extent.end - extent.base > ReadChunk

check_budget == ~interrupted /\ ~expired

-----------------------------------------------------------------------------
(* walk_discovered_regions. *)

\* A large allocation and a page range the big-page table names need no read.
NamedSpan ==
  base_span(Region.address, Region.address, Region.size, Region.known, Region.state)

BeginRegion ==
  /\ pc = "region" /\ r <= Len(target.regions)
  /\ IF Named(Region)
     THEN /\ snap' = IF Region.size = 0 THEN snap ELSE record_span(snap, NamedSpan)
          /\ pc' = "leave"
          /\ UNCHANGED <<cursor, vs, stalled>>
     ELSE /\ cursor' = Region.address
          /\ vs' = [next |-> Region.address, covered |-> Region.address]
          /\ stalled' = [run |-> 0, here |-> FALSE]
          /\ pc' = "extent"
          /\ UNCHANGED snap
  /\ UNCHANGED <<target, limit, expired, interrupted, r, walked, ranout, extent, dec, late>>

\* Only a region walked through is counted; a reached threshold ends the loop.
LeaveRegion ==
  /\ \/ pc = "leave"
     \/ pc = "extent" /\ cursor >= RegionEnd
  /\ IF match_limit_reached(snap)
     THEN pc' = "finish" /\ UNCHANGED <<r, walked>>
     ELSE /\ r' = r + 1 /\ walked' = walked + 1
          /\ pc' = "region"
  /\ UNCHANGED <<target, limit, expired, interrupted, ranout, cursor, vs, stalled, extent,
                 dec, snap, late>>

\* Mutant: the deadline that ended the loop is not recorded.
FinishQuietly ==
  /\ \/ pc = "finish"
     \/ pc = "region" /\ r > Len(target.regions)
  /\ snap' = IF ranout THEN misses(snap) ELSE snap
  /\ pc' = "done"
  /\ UNCHANGED <<target, limit, expired, interrupted, r, walked, ranout, cursor, vs,
                 stalled, extent, dec, late>>

Finish ==
  /\ \/ pc = "finish"
     \/ pc = "region" /\ r > Len(target.regions)
  /\ snap' = IF ranout THEN [misses(snap) EXCEPT !.budget_expired = TRUE] ELSE snap
  /\ pc' = "done"
  /\ UNCHANGED <<target, limit, expired, interrupted, r, walked, ranout, cursor, vs,
                 stalled, extent, dec, late>>

\* A poll that says stop: Ctrl+C is an error, the deadline ends the loop over the regions.
Halt ==
  /\ Polls /\ ~check_budget
  /\ IF interrupted THEN pc' = "failed" /\ UNCHANGED ranout
                    ELSE pc' = "finish" /\ ranout' = TRUE
  /\ UNCHANGED <<target, limit, expired, interrupted, r, walked, cursor, vs, stalled,
                 extent, dec, snap, late>>

\* The interrupt status cannot be asked for: the walk fails, as it does for Ctrl+C.
PollFails ==
  /\ pc = "extent" /\ cursor < RegionEnd
  /\ pc' = "failed"
  /\ UNCHANGED <<target, limit, expired, interrupted, r, walked, ranout, cursor, vs, stalled,
                 extent, dec, snap, late>>

-----------------------------------------------------------------------------
(* walk_region: one query and one extent after the other. *)

Readable(u) == PageOf(u) \in target.readable
Ahead == {u \in cursor .. RegionEnd - 1 : Readable(u)}
Asks == pc = "extent" /\ cursor < RegionEnd /\ check_budget

\* The hole before the address the engine answered with, less what a span covers.
GapTo(b) ==
  LET from == Least(Most(cursor, vs.covered), b)
  IN  IF missed(from, b) THEN says(unreadable(snap, from, b)) ELSE unreadable(snap, from, b)

KeepRegion ==
  UNCHANGED <<target, limit, expired, interrupted, r, walked, ranout, vs>>

QueryFails ==
  /\ Asks
  /\ snap' = says(unreadable(snap, cursor, RegionEnd))
  /\ pc' = "leave"
  /\ KeepRegion /\ UNCHANGED <<cursor, stalled, extent, dec, late>>

\* Nothing valid from here on, said by naming a base past the end or by 0x0+0x0.
QueryFindsNothing ==
  /\ Asks /\ Ahead = {}
  /\ \/ snap' = GapTo(RegionEnd)
     \/ snap' = unreadable(snap, Most(cursor, vs.covered), RegionEnd)
  /\ pc' = "leave"
  /\ KeepRegion /\ UNCHANGED <<cursor, stalled, extent, dec, late>>

\* The end of b's page or of the region.
StepOver(b) == Least(PageStart(b) + Page, RegionEnd)

\* A valid region was reported and it ends at or before b: the rest of b's page is
\* stepped over, and after MaxStalls pages in a row the rest of the region is given up.
QueryStalls ==
  /\ Asks
  /\ \E b \in {cursor} \cup {p \in cursor + 1 .. RegionEnd - 1 : p % Page = 0} :
       LET to == StepOver(b)
           from == Least(Most(b, vs.covered), to)
           over == [says(unreadable(GapTo(b), from, to))
                      EXCEPT !.pages = @ + 1, !.skipped = @ + to - b]
       IN  /\ stalled' = [run |-> stalled.run + 1, here |-> TRUE]
           /\ cursor' = to
           /\ IF stalled.run + 1 >= MaxStalls
              THEN snap' = says(unreadable(over, to, RegionEnd)) /\ pc' = "leave"
              ELSE snap' = over /\ pc' = "extent"
  /\ KeepRegion /\ UNCHANGED <<extent, dec, late>>

QueryFindsExtent ==
  /\ Asks /\ Ahead # {}
  /\ LET b == CHOOSE u \in Ahead : \A v \in Ahead : u <= v
         e == CHOOSE u \in b + 1 .. RegionEnd :
                /\ \A v \in b .. u - 1 : Readable(v)
                /\ u = RegionEnd \/ ~Readable(u)
     IN  /\ snap' = GapTo(b)
         /\ extent' = [base |-> b, end |-> e, got |-> 0]
  /\ stalled' = [stalled EXCEPT !.run = 0]
  /\ pc' = "read"
  /\ KeepRegion /\ UNCHANGED <<cursor, dec, late>>

\* read_extent: an extent of one chunk is read without another poll.
Transfers == pc = "read" /\ (Polls => check_budget)
Late == IF expired THEN late + 1 ELSE late

ReadChunkOk ==
  /\ Transfers
  /\ LET got == Least(extent.got + ReadChunk, extent.end - extent.base)
     IN  /\ extent' = [extent EXCEPT !.got = got]
         /\ IF got < extent.end - extent.base
            THEN UNCHANGED <<pc, snap>>
            ELSE /\ pc' = "decode"
                 /\ snap' = [snap EXCEPT !.recovered = IF stalled.here THEN @ + got ELSE @]
  /\ late' = Late
  /\ KeepRegion /\ UNCHANGED <<cursor, stalled, dec>>

\* Mutant: an extent that fails is asked for again.
ReadFailsAgain ==
  /\ Transfers
  /\ snap' = says(unreadable(snap, extent.base, extent.end))
  /\ pc' = "extent"
  /\ late' = Late
  /\ KeepRegion /\ UNCHANGED <<cursor, stalled, extent, dec>>

\* A chunk that fails, and one that comes back short, fails the extent.
ReadFails ==
  /\ Transfers
  /\ snap' = says(unreadable(snap, extent.base, extent.end))
  /\ cursor' = extent.end
  /\ pc' = "extent"
  /\ late' = Late
  /\ KeepRegion /\ UNCHANGED <<stalled, extent, dec>>

-----------------------------------------------------------------------------
(* The decoders, over the bytes of one extent. *)

KeepExtent ==
  /\ KeepRegion
  /\ UNCHANGED <<stalled, extent, late>>

\* The extent is decoded: on to the next, unless the threshold was reached.
AfterExtent(s) ==
  IF match_limit_reached(s) THEN pc' = "leave" /\ UNCHANGED cursor
                            ELSE pc' = "extent" /\ cursor' = extent.end

\* Verifier special pool is told apart by its heap, before the backend is looked at.
Decoder == IF Region.special THEN "special" ELSE Region.backend

FirstSlot == SlotsUpTo(extent.base - Region.address, Most(Region.unit, 1))

BeginPages ==
  /\ pc = "decode" /\ Decoder \in {"Segment", "special"}
  /\ dec' = [FreshDecoder EXCEPT !.pos = IF Region.special THEN NextMultiple(extent.base)
                                                           ELSE FirstSlot]
  /\ pc' = Decoder
  /\ KeepExtent /\ UNCHANGED <<cursor, snap>>

BeginLfh ==
  /\ pc = "decode" /\ Decoder = "Lfh"
  /\ IF Region.unit < Region.pool
     THEN /\ snap' = misses(snap)
          /\ AfterExtent(snap')
          /\ UNCHANGED dec
     ELSE /\ dec' = [FreshDecoder EXCEPT !.pos = FirstSlot]
          /\ pc' = "Lfh"
          /\ UNCHANGED <<cursor, snap>>
  /\ KeepExtent

\* decode_pool_header: a header-less block has no tag to read.
decode_pool_header(a) ==
  TagAt(Region, a)

SlotAddress(unit) == Region.address + dec.pos * unit

\* The allocator keeps no block across a page; it withholds the slot that would be.
straddles(a, unit) == PageOf(a) # PageOf(a + unit - 1)

LfhSlot ==
  /\ pc = "Lfh"
  /\ LET unit == Region.unit
         a == SlotAddress(unit)
         span == base_span(a, a + Region.pool, unit - Region.pool, decode_pool_header(a),
                           IF Region.bitmap[dec.pos] THEN "Allocated" ELSE "ReusableFree")
     IN  \/ /\ a + unit > extent.end
            /\ AfterExtent(snap)
            /\ UNCHANGED <<snap, dec>>
         \/ /\ a + unit <= extent.end /\ straddles(a, unit)
            /\ dec' = [dec EXCEPT !.pos = @ + 1]
            /\ UNCHANGED <<pc, cursor, snap>>
         \/ /\ a + unit <= extent.end /\ ~straddles(a, unit)
            /\ dec.pos \notin DOMAIN Region.bitmap
            /\ snap' = misses(snap)
            /\ AfterExtent(snap')
            /\ UNCHANGED dec
         \/ /\ a + unit <= extent.end /\ ~straddles(a, unit)
            /\ dec.pos \in DOMAIN Region.bitmap
            /\ snap' = record_span(snap, span)
            /\ IF match_limit_reached(snap') THEN AfterExtent(snap') /\ UNCHANGED dec
               ELSE dec' = [dec EXCEPT !.pos = @ + 1] /\ UNCHANGED <<pc, cursor>>
  /\ KeepExtent

\* walk_page_ranges: a plain page range is one slot of its own size.
PageRange ==
  /\ pc = "Segment"
  /\ LET unit == Most(Region.unit, 1)
         a == SlotAddress(unit)
         size == Least(unit, extent.end - a)
         header == Least(Region.pool, size)
     IN  IF a >= extent.end THEN AfterExtent(snap) /\ UNCHANGED <<snap, dec>>
         ELSE /\ snap' = record_span(snap, base_span(a, a + header, size - header,
                                                     decode_pool_header(a), Region.state))
              /\ IF match_limit_reached(snap') THEN AfterExtent(snap') /\ UNCHANGED dec
                 ELSE dec' = [dec EXCEPT !.pos = @ + 1] /\ UNCHANGED <<pc, cursor>>
  /\ KeepExtent

\* special_pool_placement: against the page's end when the whole page was read and both
\* runs of fill agree, and otherwise the rest of the page as an upper bound.
Corroborated(page) == extent.end - page >= Page /\ Region.content[page].filled

special_pool_placement(page) ==
  IF Corroborated(page)
  THEN [usable |-> page + Page - Region.content[page].size, size |-> Region.content[page].size]
  ELSE [usable |-> page + Region.pool, size |-> Least(extent.end - page, Page) - Region.pool]

SpecialPage ==
  /\ pc = "special"
  /\ LET page == dec.pos
         at == special_pool_placement(page)
         found == [snap EXCEPT !.complete = @ /\ Corroborated(page),
                               !.said = @ \/ ~Corroborated(page)]
         span == base_span(page, at.usable, at.size, Region.content[page].tag, "Allocated")
     IN  IF page >= extent.end THEN AfterExtent(snap) /\ UNCHANGED <<snap, dec>>
         ELSE /\ snap' = IF page \notin DOMAIN Region.content THEN misses(snap)
                         ELSE IF Region.content[page].tag # 0 THEN record_span(found, span)
                         ELSE snap
              /\ dec' = [dec EXCEPT !.pos = @ + Page]
              /\ IF match_limit_reached(snap') THEN AfterExtent(snap')
                 ELSE UNCHANGED <<pc, cursor>>
  /\ KeepExtent

-----------------------------------------------------------------------------
(* walk_vs: chunks of any size, so a header is found only from the one before. *)

HeaderUnits == VsHeader + Region.pool

\* Mutant: every extent is decoded from its own start.
expected_anywhere == extent.base

\* Where the chain says the next header is, NoAddress when the walk lost it.
expected == vs.next

BeginVs ==
  /\ pc = "decode" /\ Decoder = "Vs"
  /\ IF expected < extent.base
     THEN \* nothing in these bytes can be placed
          /\ snap' = [misses(snap) EXCEPT !.unplaced = @ + extent.end - extent.base]
          /\ vs' = [vs EXCEPT !.next = NoAddress]
          /\ pc' = "extent" /\ cursor' = extent.end
          /\ UNCHANGED dec
     ELSE IF expected >= extent.end
     THEN \* one chunk covers the whole extent
          /\ vs' = [vs EXCEPT !.covered = Most(@, extent.base)]
          /\ pc' = "extent" /\ cursor' = extent.end
          /\ UNCHANGED <<snap, dec>>
     ELSE /\ dec' = [FreshDecoder EXCEPT !.pos = expected, !.resume = expected,
                                         !.covered = extent.base]
          /\ pc' = "Vs"
          /\ UNCHANGED <<cursor, snap, vs>>
  /\ UNCHANGED <<target, limit, expired, interrupted, r, walked, ranout, stalled, extent, late>>

\* decode_vs_chunk.
plausible(a) ==
  /\ a \in DOMAIN Region.content
  /\ Region.content[a].size >= HeaderUnits
  /\ a + Region.content[a].size <= RegionEnd

VsMore ==
  /\ pc = "Vs"
  /\ dec.pos + HeaderUnits <= extent.end
  /\ dec.chunks < TraversalLimit
  /\ ~match_limit_reached(snap)

Header == Region.content[dec.pos]
ChunkEnd == dec.pos + Header.size

\* A header that is refused costs the chain: the scan that follows is a guess.
VsRefuse ==
  /\ VsMore /\ ~plausible(dec.pos)
  /\ snap' = misses(snap)
  /\ dec' = [dec EXCEPT !.pos = @ + 1, !.previous = None, !.lost = TRUE, !.refused = @ + 1]
  /\ KeepExtent /\ UNCHANGED <<pc, cursor>>

\* The chunk's state, the evidence of the free lists before the header's own bit.
chunk_state(a) ==
  IF a \in Region.cached THEN "CachedFree"
  ELSE IF a \in Region.reusable THEN "ReusableFree"
  ELSE IF Region.content[a].allocated THEN "Allocated" ELSE "ReusableFree"

\* The big-page entries that this chunk could really hold.
big_pool ==
  IF Header.size <= MaxHeaderChunk THEN {}
  ELSE {a \in DOMAIN Region.big :
          a >= dec.pos /\ a < ChunkEnd /\ a + Region.big[a].size <= ChunkEnd}

\* A previous size that disagrees with the chunk before is said, and the chunk kept.
ChainChecked(s) ==
  IF dec.previous = None \/ dec.previous = Header.previous THEN s ELSE misses(s)

Stride(s, covered) ==
  /\ snap' = s
  /\ dec' = [dec EXCEPT !.pos = ChunkEnd, !.resume = ChunkEnd, !.covered = covered,
                        !.previous = Header.size, !.chunks = @ + 1]
  /\ KeepExtent /\ UNCHANGED <<pc, cursor>>

\* A chunk too large for a pool header is named by the big-page table, whatever of it
\* can be read.
VsBig ==
  /\ VsMore /\ plausible(dec.pos)
  /\ \E a \in big_pool :
       Stride(record_span(ChainChecked(snap),
                          base_span(a, a, Region.big[a].size, Region.big[a].tag,
                                    chunk_state(dec.pos))),
              ChunkEnd)

\* The tail is in a hole that is not known to hold nothing.
runs_into_memory == ChunkEnd > extent.end /\ committed_run(extent.end)

VsOverrun ==
  /\ VsMore /\ plausible(dec.pos) /\ big_pool = {}
  /\ runs_into_memory
  /\ snap' = misses(ChainChecked(snap))
  /\ dec' = [dec EXCEPT !.resume = ChunkEnd, !.pos = extent.end]
  /\ KeepExtent /\ UNCHANGED <<pc, cursor>>

\* Where the user block begins: not in the last unit of a page when the heap's
\* configuration says so and the chunk has the room.
physical_header ==
  LET plain == dec.pos + VsHeader
  IN  IF Region.skips /\ (plain + 1) % Page = 0 /\ Header.size >= HeaderUnits + 1
      THEN plain + 1 ELSE plain

TooShortToMove ==
  /\ Region.skips /\ (dec.pos + VsHeader + 1) % Page = 0
  /\ Header.size < HeaderUnits + 1 /\ Header.allocated

VsChunk ==
  /\ VsMore /\ plausible(dec.pos) /\ big_pool = {}
  /\ ~runs_into_memory
  /\ LET usable == physical_header + Region.pool
         header == IF Region.pool = 0 THEN dec.pos ELSE physical_header
         heard == IF TooShortToMove THEN says(ChainChecked(snap)) ELSE ChainChecked(snap)
         span == base_span(header, usable, Most(ChunkEnd - usable, 0),
                           decode_pool_header(physical_header), chunk_state(dec.pos))
     IN  Stride(record_span(heard, span), dec.covered)

\* What the extent hands the next: nothing when a header was refused in it.
VsResume(d) ==
  IF d.lost THEN [vs EXCEPT !.next = NoAddress]
  ELSE [next |-> d.resume, covered |-> Most(vs.covered, d.covered)]

EndVs ==
  /\ pc = "Vs" /\ ~VsMore
  /\ LET counted == [snap EXCEPT !.refused = @ + dec.refused]
     IN  snap' = IF ~match_limit_reached(snap) /\ dec.chunks >= TraversalLimit
                 THEN misses(counted) ELSE counted
  /\ vs' = VsResume(dec)
  /\ dec' = FreshDecoder
  /\ AfterExtent(snap)
  /\ UNCHANGED <<target, limit, expired, interrupted, r, walked, ranout, stalled, extent, late>>

-----------------------------------------------------------------------------
Walk ==
  \/ BeginRegion \/ LeaveRegion \/ Finish \/ Halt \/ PollFails
  \/ QueryFails \/ QueryFindsNothing \/ QueryStalls \/ QueryFindsExtent
  \/ ReadChunkOk \/ ReadFails
  \/ BeginPages \/ BeginLfh \/ LfhSlot \/ PageRange \/ SpecialPage
  \/ BeginVs \/ VsRefuse \/ VsBig \/ VsOverrun \/ VsChunk \/ EndVs

Next == Walk \/ Expire \/ Interrupt

\* The walk runs on its caller's thread and nothing blocks it: every engine call returns.
Spec == Init /\ [][Next]_vars /\ WF_vars(Walk)

-----------------------------------------------------------------------------
(* Properties. *)

Done == pc = "done"
Counters == {"stopped", "matched", "refused", "unplaced", "pages", "skipped", "recovered"}

\* The type of the walk's state.
TypeOK ==
  /\ pc \in {"region", "leave", "extent", "read", "decode", "Lfh", "Segment", "special", "Vs",
             "finish", "done", "failed"}
  /\ r \in 1 .. Len(target.regions) + 1 /\ walked \in 0 .. Len(target.regions)
  /\ {expired, interrupted, ranout, stalled.here, dec.lost, snap.complete, snap.said,
      snap.budget_expired} \subseteq BOOLEAN
  /\ \A c \in Counters : snap[c] \in Nat
  /\ r <= Len(target.regions) => cursor <= RegionEnd /\ extent.end <= cursor + Region.size

Allocated(i) == {s \in snap.spans : s.region = i /\ s.state = "Allocated"}
Described(s) == [usable |-> s.usable, end |-> s.end, tag |-> s.tag]

\* A snapshot that calls itself complete holds exactly the blocks that are allocated, each
\* where it is and under its own tag: no block is missed behind a hole, a stall, a refused
\* header, a decommitted interior or the slack of a page, and none is made up
\* (walk_region, walk_lfh, walk_vs, walk_special_pool, walk_page_ranges).
CompleteMeansExact ==
  Done /\ snap.complete =>
    \A i \in DOMAIN target.regions :
      {Described(s) : s \in Allocated(i)} = target.regions[i].truth

Within(s, t) ==
  /\ s.tag = t.tag
  /\ \/ s.usable = t.usable /\ s.end <= t.end
     \/ target.regions[s.region].special /\ s.usable <= t.usable /\ t.end <= s.end

\* Complete or not, while no header was refused every allocation that is reported is one
\* the target has: an extent behind a hole is decoded from the chunk chain or not at all
\* (walk_vs, "a walk that has lost it does not guess again").
NothingInvented ==
  snap.refused = 0 /\ dec.refused = 0 =>
    \A s \in snap.spans :
      s.state = "Allocated" => \E t \in target.regions[s.region].truth : Within(s, t)

\* A walk that did not get through every region says so, and says why: its deadline or
\* the threshold of the query (walk_discovered_regions).
CutShortSaid ==
  Done /\ (walked < Len(target.regions) \/ ranout) =>
    ~snap.complete /\ (snap.budget_expired \/ snap.stopped # 0)

\* An incomplete snapshot carries the reason: a diagnostic, an unreadable span, or the
\* threshold that stopped it.
Explained ==
  Done /\ ~snap.complete =>
    snap.said \/ snap.stopped # 0 \/ \E s \in snap.spans : is_coverage_gap(s.state)

\* At most one transfer, of at most EXTENT_READ_CHUNK bytes, is begun after the deadline
\* ("a walk can finish one transfer past its ceiling").
PromptStop == late <= 1

\* A walk with a threshold keeps no more matching allocations than it was asked for.
StopsAtThreshold ==
  limit # NoLimit =>
    Cardinality({s \in snap.spans : /\ s.state = "Allocated" /\ s.tag = limit.tag
                                    /\ target.regions[s.region].paged \in limit.paged})
      <= limit.matches

\* A region that never advances costs MAX_CONSECUTIVE_STALLS queries, however long it is.
StallsBounded == stalled.run <= MaxStalls

\* The walk ends, whatever the engine answers: every query advances the cursor.
WalkEnds == <>(pc \in {"done", "failed"})

\* The allocations a walk reports are the target's: all of them when it says it is complete, and
\* none made up while no header was refused (walk_region).
RegionsExact ==
  /\ CompleteMeansExact
  /\ NothingInvented

\* A walk that is cut short says so and why, begins one transfer at most past its deadline, keeps
\* no more matches than it was asked for, and gives up a region that never advances
\* (walk_discovered_regions, check_budget).
WalkAccounts ==
  /\ CutShortSaid
  /\ Explained
  /\ PromptStop
  /\ StopsAtThreshold
  /\ StallsBounded
=============================================================================
