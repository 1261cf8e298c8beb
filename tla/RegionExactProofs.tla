------------------------- MODULE RegionExactProofs -------------------------
(***************************************************************************)
(* What the decoders of the region walk find is what is there.  WalkInv is *)
(* the account of the walk, and that it is kept is proved in               *)
(* RegionWalkProofs; here every step that decodes, and every one that      *)
(* enters or leaves a region, is shown to keep ExactInv given WalkInv.     *)
(***************************************************************************)
EXTENDS RegionWalk, TLAPS

-----------------------------------------------------------------------------
(* What the regions of a target are like. *)

\* The start, the end and the pages of a region are where an extent may begin or end.
Edge(g, u) == u = g.address \/ u = EndOf(g) \/ u % Page = 0

Kind(g) == IF g.special THEN "special" ELSE g.backend

\* The blocks that end by x, those of the chunks before n, and where a header may be.
EndedBy(g, x) == {b \in g.truth : b.end <= x}
LiveBefore(g, n) == {ChunkBlock(g, a) : a \in {c \in DOMAIN g.chunks : g.chunks[c].live /\ c < n}}
Heads(g) == DOMAIN g.chunks \cup {EndOf(g)}

\* What is assumed of the constants.
LEMMA Sizes ==
  Page \in Nat \ {0} /\ VsHeader \in Nat \ {0} /\ MaxStalls \in Nat \ {0} /\ ReadChunk \in Nat \ {0}
  /\ MaxHeaderChunk \in Nat /\ TraversalLimit \in Nat
  BY WalkAssumption, Zenon

\* A region that needs to be read is of one of four kinds.
LEMMA KindFacts ==
  ASSUME NEW t, NEW g, RegionOk(t, g), ~Named(g)
  PROVE  /\ Kind(g) \in {"special", "Segment", "Lfh", "Vs"}
         /\ Kind(g) = "special" => ~t.user /\ PagesOk(g)
         /\ Kind(g) = "Segment" => g.unit = g.size /\ g.pool <= 1 /\ WholeOk(g, g.pool, TagAt(g, g.address)) /\ Backed(t, g)
         /\ Kind(g) = "Lfh" => SlotsOk(g) /\ Backed(t, g)
         /\ Kind(g) = "Vs" => ChunksOk(t, g)
         /\ g.address \in Nat /\ g.size \in Nat /\ g.pool \in Nat /\ g.unit \in Nat /\ EndOf(g) \in Nat
         /\ g.address <= EndOf(g)
<1>0. g.address \in Nat /\ g.size \in Nat /\ g.pool \in Nat /\ g.unit \in Nat
  BY Zenon DEF RegionOk
<1>1. EndOf(g) \in Nat /\ g.address <= EndOf(g)
  BY <1>0 DEF EndOf
<1>2. g.backend \in {"Lfh", "Vs", "Segment", "Large"} /\ g.backend # "Large"
  BY Zenon DEF RegionOk, Named
<1>3. Kind(g) \in {"special", "Segment", "Lfh", "Vs"}
  BY <1>2, Zenon DEF Kind
<1>4. Kind(g) = "special" => ~t.user /\ PagesOk(g)
  <2>1. Kind(g) = "special" => g.special
    BY <1>2, Zenon DEF Kind
  <2> QED  BY <2>1, Zenon DEF RegionOk
<1>5. Kind(g) # "special" => ~g.special /\ Kind(g) = g.backend
  BY Zenon DEF Kind
<1>6. Kind(g) # "special" =>
        CASE g.backend = "Segment" -> /\ g.unit = g.size /\ g.pool <= 1
                                      /\ WholeOk(g, g.pool, TagAt(g, g.address)) /\ Backed(t, g)
          [] g.backend = "Lfh" -> SlotsOk(g) /\ Backed(t, g)
          [] g.backend = "Vs" -> ChunksOk(t, g)
  BY <1>5, Zenon DEF RegionOk
<1>7. CASE Kind(g) = "special"
  BY <1>7, <1>0, <1>1, <1>3, <1>4, Zenon
<1>8. CASE Kind(g) # "special"
  <2>1. Kind(g) = g.backend
    BY <1>5, <1>8, Zenon
  <2> HIDE DEF Kind
  <2>2. /\ g.backend = "Segment" => g.unit = g.size /\ g.pool <= 1 /\ WholeOk(g, g.pool, TagAt(g, g.address)) /\ Backed(t, g)
        /\ g.backend = "Lfh" => SlotsOk(g) /\ Backed(t, g)
        /\ g.backend = "Vs" => ChunksOk(t, g)
    BY <1>6, <1>8, Zenon
  <2> QED  BY <1>0, <1>1, <1>3, <1>8, <2>1, <2>2, Zenon
<1> QED  BY <1>7, <1>8, Zenon

\* From a page boundary to a later one there is a page.
LEMMA PageBetween ==
  ASSUME NEW a \in Nat, NEW e \in Nat, a % Page = 0, e % Page = 0, a < e
  PROVE  a + Page <= e
<1>1. a = Page * (a \div Page) /\ e = Page * (e \div Page) /\ a \div Page \in Nat /\ e \div Page \in Nat
  BY Sizes
<1> DEFINE m == a \div Page
           n == e \div Page
<1> HIDE DEF m, n
<1>2. a = Page * m /\ e = Page * n /\ m \in Nat /\ n \in Nat
  BY <1>1, Zenon DEF m, n
<1>3. m < n
  BY <1>2, Sizes
<1>4. Page * (m + 1) <= Page * n
  BY <1>2, <1>3, Sizes
<1> QED  BY <1>2, <1>4, Sizes

\* A region of whole pages ends on a page boundary.
LEMMA PagesEnd ==
  ASSUME NEW a \in Nat, NEW n \in Nat, a % Page = 0, n % Page = 0
  PROVE  (a + n) % Page = 0
<1>1. a = Page * (a \div Page) /\ n = Page * (n \div Page) /\ a \div Page \in Nat /\ n \div Page \in Nat
  BY Sizes
<1>2. \A j, k \in Nat : (Page * j + Page * k) % Page = 0
  <2>1. \A q \in Nat : (Page * q) % Page = 0
    BY Sizes
  <2>2. \A j, k \in Nat : Page * j + Page * k = Page * (j + k) /\ j + k \in Nat
    BY Sizes
  <2> QED
    <3> SUFFICES ASSUME NEW j \in Nat, NEW k \in Nat PROVE (Page * j + Page * k) % Page = 0
      BY Zenon
    <3>1. Page * j + Page * k = Page * (j + k) /\ (Page * (j + k)) % Page = 0
      BY <2>1, <2>2, Zenon
    <3> QED  BY <3>1, Zenon
<1> QED  BY <1>1, <1>2, Zenon

\* The units on either side of a page boundary are of different pages.
LEMMA PagesApart ==
  ASSUME NEW u \in Nat, NEW a \in Nat, NEW v \in Nat, a % Page = 0, u < a, a <= v
  PROVE  PageOf(u) # PageOf(v)
  BY Sizes DEF PageOf

\* The blocks of slots and pages end inside their region, in committed memory.
LEMMA BlockEnds ==
  ASSUME NEW t, NEW g, RegionOk(t, g), ~Named(g), Kind(g) \in {"Lfh", "special"}, NEW b \in g.truth
  PROVE  b.end \in Nat /\ b.end > g.address /\ b.end <= EndOf(g) /\ Committed(t, b.end - 1)
<1>0. g.address \in Nat /\ g.size \in Nat /\ EndOf(g) = g.address + g.size /\ g.pool \in Nat
  BY KindFacts, Zenon DEF EndOf
<1>1. CASE Kind(g) = "Lfh"
  <2>1. /\ b.usable - g.pool \in g.address .. EndOf(g)
        /\ b.end \in (b.usable - g.pool) + 1 .. EndOf(g)
        /\ \A u \in b.usable - g.pool .. b.end - 1 : Committed(t, u)
    BY <1>1, KindFacts, Zenon DEF Backed
  <2> QED  BY <1>0, <2>1
<1>2. CASE Kind(g) = "special"
  <2>1. ~t.user /\ PagesOk(g)
    BY <1>2, KindFacts, Zenon
  <2>2. Committed(t, b.end - 1)
    BY <2>1, Zenon DEF Committed
  <2>3. PICK p \in DOMAIN g.content : b = Block(p + Page - g.content[p].size, p + Page, g.content[p].tag)
    BY <2>1, Zenon DEF PagesOk
  <2>4. b.end = p + Page
    BY <2>3, Zenon DEF Block
  <2>5. p % Page = 0 /\ p \in g.address .. EndOf(g) - 1 /\ g.address % Page = 0 /\ g.size % Page = 0
    BY <2>1, Zenon DEF PagesOk
  <2>6. p \in Nat /\ p < EndOf(g) /\ EndOf(g) \in Nat
    BY <1>0, <2>5
  <2>7. p + Page <= EndOf(g)
    BY <1>0, <2>5, <2>6, PageBetween, PagesEnd, Zenon
  <2> QED  BY <1>0, <2>2, <2>4, <2>5, <2>6, <2>7, Sizes
<1> QED  BY <1>1, <1>2, Zenon

\* What is known of a chunk.
LEMMA ChunkFacts ==
  ASSUME NEW t, NEW g, RegionOk(t, g), ~Named(g), Kind(g) = "Vs", NEW a \in DOMAIN g.chunks
  PROVE  /\ a \in Nat /\ g.address <= a /\ a < EndOf(g)
         /\ g.chunks[a].size \in Nat /\ g.chunks[a].size >= VsHeaders(g)
         /\ a + g.chunks[a].size \in Heads(g) /\ a + g.chunks[a].size <= EndOf(g)
         /\ \A b \in DOMAIN g.chunks : b <= a \/ b >= a + g.chunks[a].size
         /\ \A u \in a .. a + VsHeaders(g) - 1 : Committed(t, u)
<1>0. g.address \in Nat /\ EndOf(g) \in Nat /\ ChunksOk(t, g)
  BY KindFacts, Zenon
<1>1. /\ a \in g.address .. EndOf(g) - 1
      /\ g.chunks[a].size \in Nat /\ g.chunks[a].size >= VsHeaders(g)
      /\ a + g.chunks[a].size \in DOMAIN g.chunks \cup {EndOf(g)}
      /\ \A b \in DOMAIN g.chunks : b <= a \/ b >= a + g.chunks[a].size
      /\ \A u \in a .. a + VsHeaders(g) - 1 : Committed(t, u)
  BY <1>0, Zenon DEF ChunksOk
<1>2. \A c \in DOMAIN g.chunks : c \in g.address .. EndOf(g) - 1
  BY <1>0, Zenon DEF ChunksOk
<1>3. a \in Nat /\ g.address <= a /\ a < EndOf(g)
  BY <1>0, <1>1
<1>4. a + g.chunks[a].size <= EndOf(g)
  <2>1. CASE a + g.chunks[a].size \in DOMAIN g.chunks
    <3>1. a + g.chunks[a].size \in g.address .. EndOf(g) - 1
      BY <1>2, <2>1, Zenon
    <3> QED  BY <1>0, <1>1, <1>3, <3>1
  <2>2. CASE a + g.chunks[a].size = EndOf(g)
    BY <1>0, <2>2
  <2> QED  BY <1>1, <2>1, <2>2, Zenon
<1> QED  BY <1>1, <1>3, <1>4, Zenon DEF Heads

\* The places a header may be at lie in the region.
LEMMA HeadFacts ==
  ASSUME NEW t, NEW g, RegionOk(t, g), ~Named(g), Kind(g) = "Vs"
  PROVE  /\ g.address \in Heads(g) /\ EndOf(g) \in Heads(g)
         /\ \A a \in Heads(g) : a \in Nat /\ g.address <= a /\ a <= EndOf(g) /\ (a # EndOf(g) => a \in DOMAIN g.chunks)
         /\ VsHeaders(g) \in Nat /\ VsHeaders(g) > 0
<1>0. g.address \in Nat /\ EndOf(g) \in Nat /\ ChunksOk(t, g) /\ g.address <= EndOf(g) /\ g.pool \in Nat
  BY KindFacts, Zenon
<1>1. g.address \in Heads(g) /\ EndOf(g) \in Heads(g)
  BY <1>0, Zenon DEF ChunksOk, Heads
<1>2. ASSUME NEW a \in Heads(g)
      PROVE  a \in Nat /\ g.address <= a /\ a <= EndOf(g) /\ (a # EndOf(g) => a \in DOMAIN g.chunks)
  <2>1. CASE a = EndOf(g)
    BY <1>0, <2>1
  <2>2. CASE a \in DOMAIN g.chunks
    <3>1. a \in Nat /\ g.address <= a /\ a < EndOf(g)
      BY <2>2, ChunkFacts, Zenon
    <3> QED  BY <1>0, <2>2, <3>1
  <2> QED  BY <1>2, <2>1, <2>2, Zenon DEF Heads
<1>3. VsHeaders(g) \in Nat /\ VsHeaders(g) > 0
  BY <1>0, Sizes DEF VsHeaders
<1> QED  BY <1>1, <1>2, <1>3, Zenon

\* The blocks of a region of chunks are those of its chunks in use.
LEMMA LiveTruth ==
  ASSUME NEW t, NEW g, RegionOk(t, g), ~Named(g), Kind(g) = "Vs"
  PROVE  g.truth = {ChunkBlock(g, a) : a \in {c \in DOMAIN g.chunks : g.chunks[c].live}}
<1>1. ChunksOk(t, g)
  BY KindFacts, Zenon
<1> QED  BY <1>1, SMT DEF ChunksOk

\* Before the first chunk there is no block, and before the end are all of them.
LEMMA LiveEnds ==
  ASSUME NEW t, NEW g, RegionOk(t, g), ~Named(g), Kind(g) = "Vs"
  PROVE  LiveBefore(g, g.address) = {} /\ LiveBefore(g, EndOf(g)) = g.truth
<1>0. g.address \in Nat
  BY KindFacts, Zenon
<1>1. \A a \in DOMAIN g.chunks : a \in Nat /\ g.address <= a /\ a < EndOf(g)
  BY ChunkFacts, Zenon
<1>2. \A a \in DOMAIN g.chunks : ~(a < g.address)
  BY <1>0, <1>1
<1>3. LiveBefore(g, g.address) = {}
  BY <1>2, Zenon DEF LiveBefore
<1>4. {c \in DOMAIN g.chunks : g.chunks[c].live /\ c < EndOf(g)} = {c \in DOMAIN g.chunks : g.chunks[c].live}
  BY <1>1, Zenon
<1>5. g.truth = {ChunkBlock(g, a) : a \in {c \in DOMAIN g.chunks : g.chunks[c].live}}
  BY LiveTruth, Zenon
<1> QED  BY <1>3, <1>4, <1>5, Zenon DEF LiveBefore

\* What lies before a lies before all that follows a.
LEMMA RangeGrows == ASSUME NEW a \in Nat, NEW b \in Nat, a <= b PROVE b \in 0 .. b /\ \A x \in 0 .. a : x \in 0 .. b
OBVIOUS

\* The next chunk adds its block, if it is in use.
LEMMA LiveNext ==
  ASSUME NEW t, NEW g, RegionOk(t, g), ~Named(g), Kind(g) = "Vs", NEW a \in DOMAIN g.chunks
  PROVE  LiveBefore(g, a + g.chunks[a].size)
           = LiveBefore(g, a) \cup (IF g.chunks[a].live THEN {ChunkBlock(g, a)} ELSE {})
<1> DEFINE n == a + g.chunks[a].size
           S == {c \in DOMAIN g.chunks : g.chunks[c].live /\ c < a}
           T == {c \in DOMAIN g.chunks : g.chunks[c].live /\ c < n}
<1>1. /\ a \in Nat /\ g.chunks[a].size \in Nat /\ g.chunks[a].size >= VsHeaders(g)
      /\ \A b \in DOMAIN g.chunks : b <= a \/ b >= n
  BY ChunkFacts, Zenon
<1>2. \A b \in DOMAIN g.chunks : b \in Nat
  BY ChunkFacts, Zenon
<1>3. VsHeaders(g) \in Nat /\ VsHeaders(g) > 0
  BY HeadFacts, Zenon
<1>4. n \in Nat /\ a < n
  BY <1>1, <1>3
<1> HIDE DEF n
<1>5. \A b \in DOMAIN g.chunks : b < n <=> b < a \/ b = a
  BY <1>1, <1>2, <1>4
<1>6. T = S \cup (IF g.chunks[a].live THEN {a} ELSE {})
  <2>1. CASE g.chunks[a].live
    BY <1>5, <2>1, Zenon
  <2>2. CASE ~g.chunks[a].live
    BY <1>5, <2>2, Zenon
  <2> QED  BY <2>1, <2>2, Zenon
<1>7. LiveBefore(g, a) = {ChunkBlock(g, c) : c \in S} /\ LiveBefore(g, n) = {ChunkBlock(g, c) : c \in T}
  BY Zenon DEF LiveBefore
<1> HIDE DEF S, T
<1>8. {ChunkBlock(g, c) : c \in T} = {ChunkBlock(g, c) : c \in S} \cup (IF g.chunks[a].live THEN {ChunkBlock(g, a)} ELSE {})
  <2>1. CASE g.chunks[a].live
    <3>1. T = S \cup {a}
      BY <1>6, <2>1, Zenon
    <3> QED  BY <2>1, <3>1, Zenon
  <2>2. CASE ~g.chunks[a].live
    <3>1. T = S
      BY <1>6, <2>2, Zenon
    <3> QED  BY <2>2, <3>1, Zenon
  <2> QED  BY <2>1, <2>2, Zenon
<1> QED  BY <1>7, <1>8, Zenon DEF n

-----------------------------------------------------------------------------
(* Slots and pages. *)

\* Multiples are in order.
LEMMA Multiples ==
  ASSUME NEW s \in Nat, NEW p \in Nat, NEW u \in Nat
  PROVE  /\ s * u \in Nat /\ p * u \in Nat
         /\ s < p => s * u + u <= p * u
         /\ p <= s => p * u <= s * u
         /\ (p + 1) * u = p * u + u
<1>1. s * u \in Nat /\ p * u \in Nat /\ (p + 1) * u = p * u + u /\ (s + 1) * u = s * u + u
  OBVIOUS
<1>2. ASSUME NEW i \in Nat, NEW j \in Nat, i <= j PROVE i * u <= j * u
  <2>1. j - i \in Nat /\ (j - i) * u \in Nat
    BY <1>2
  <2>2. j * u = i * u + (j - i) * u
    BY <1>2, <2>1
  <2> QED  BY <1>2, <2>1, <2>2
<1>3. s < p => (s + 1) * u <= p * u
  BY <1>2
<1>4. p <= s => p * u <= s * u
  BY <1>2, Zenon
<1> QED  BY <1>1, <1>3, <1>4, Zenon

\* A block of an LFH region is a slot's.
LEMMA SlotFacts ==
  ASSUME NEW t, NEW g, RegionOk(t, g), ~Named(g), Kind(g) = "Lfh", g.pool <= g.unit, NEW b \in g.truth
  PROVE  \E s \in Nat : /\ s \in Whole(g) /\ b = SlotBlock(g, s) /\ (s \in DOMAIN g.bitmap => g.bitmap[s])
                        /\ b.end = g.address + s * g.unit + g.unit
                        /\ g.address + s * g.unit + g.unit <= EndOf(g)
                        /\ PageOf(g.address + s * g.unit) = PageOf(g.address + s * g.unit + g.unit - 1)
<1>1. SlotsOk(g) /\ g.size \in Nat
  BY KindFacts, Zenon
<1>2. PICK s \in Whole(g) : b = SlotBlock(g, s) /\ (s \in DOMAIN g.bitmap => g.bitmap[s])
  BY <1>1, Zenon DEF SlotsOk
<1>3. s \in 0 .. g.size /\ g.address + s * g.unit + g.unit <= EndOf(g) /\ PageOf(g.address + s * g.unit) = PageOf(g.address + s * g.unit + g.unit - 1)
  BY <1>2, Zenon DEF Whole
<1>4. b.end = g.address + s * g.unit + g.unit
  BY <1>2, Zenon DEF SlotBlock, Block
<1>5. s \in Nat
  BY <1>1, <1>3
<1> QED  BY <1>2, <1>3, <1>4, <1>5, Zenon

\* From a slot's start to an edge less than a slot away nothing ends.
LEMMA SlotsPassed ==
  ASSUME NEW t, NEW g, RegionOk(t, g), ~Named(g), Kind(g) = "Lfh", g.pool <= g.unit,
         NEW p \in Nat, NEW e \in Nat, Edge(g, e), g.address + p * g.unit < e + g.unit, g.address + p * g.unit + g.unit > e
  PROVE  EndedBy(g, g.address + p * g.unit) = EndedBy(g, e)
<1>0. g.address \in Nat /\ EndOf(g) \in Nat /\ g.unit \in Nat
  BY KindFacts, Zenon
<1>1. ASSUME NEW b \in g.truth PROVE b.end <= g.address + p * g.unit <=> b.end <= e
  <2>1. PICK s \in Nat : /\ b.end = g.address + s * g.unit + g.unit
                         /\ g.address + s * g.unit + g.unit <= EndOf(g)
                         /\ PageOf(g.address + s * g.unit) = PageOf(g.address + s * g.unit + g.unit - 1)
    BY SlotFacts, Zenon
  <2>2. /\ s * g.unit \in Nat /\ p * g.unit \in Nat /\ (s < p => s * g.unit + g.unit <= p * g.unit)
        /\ (p <= s => p * g.unit <= s * g.unit)
    BY <1>0, Multiples, Zenon
  <2> DEFINE a == g.address + s * g.unit
             x == g.address + p * g.unit
  <2>3. /\ a \in Nat /\ x \in Nat /\ (s < p => a + g.unit <= x) /\ (p <= s => x <= a) /\ g.address <= a
        /\ b.end = a + g.unit /\ a + g.unit <= EndOf(g) /\ PageOf(a) = PageOf(a + g.unit - 1)
        /\ x < e + g.unit /\ x + g.unit > e
    BY <1>0, <2>1, <2>2
  <2> HIDE DEF a, x
  <2>4. ASSUME b.end <= x, ~(b.end <= e) PROVE FALSE
    <3>1. a < e /\ e <= a + g.unit - 1 /\ a + g.unit - 1 \in Nat
      BY <1>0, <2>3, <2>4
    <3>2. e # g.address /\ e # EndOf(g)
      BY <1>0, <2>3, <2>4, <3>1
    <3>3. e % Page = 0
      BY <3>2, Zenon DEF Edge
    <3> QED  BY <2>3, <3>1, <3>3, PagesApart, Zenon
  <2>5. ASSUME b.end <= e, ~(b.end <= x) PROVE FALSE
    BY <1>0, <2>3, <2>5
  <2> QED  BY <2>4, <2>5, Zenon DEF x
<1> QED  BY <1>1, Zenon DEF EndedBy

\* Between two slots' starts the one block that may end is the slot's.
LEMMA SlotNext ==
  ASSUME NEW t, NEW g, RegionOk(t, g), ~Named(g), Kind(g) = "Lfh", g.pool <= g.unit, NEW p \in Nat
  PROVE  /\ EndedBy(g, g.address + (p + 1) * g.unit) = EndedBy(g, g.address + p * g.unit) \cup ({SlotBlock(g, p)} \cap g.truth)
         /\ SlotBlock(g, p) \in g.truth => p \in Whole(g) /\ (p \in DOMAIN g.bitmap => g.bitmap[p])
<1>0. g.address \in Nat /\ g.unit \in Nat /\ g.unit > 0
  BY KindFacts, Zenon DEF SlotsOk
<1> DEFINE x == g.address + p * g.unit
           y == g.address + (p + 1) * g.unit
<1>1. x \in Nat /\ y = x + g.unit
  <2>1. p * g.unit \in Nat /\ (p + 1) * g.unit = p * g.unit + g.unit
    BY <1>0, Multiples, Zenon
  <2> QED  BY <1>0, <2>1
<1>2. ASSUME NEW b \in g.truth, b.end <= y, ~(b.end <= x) PROVE b = SlotBlock(g, p) /\ p \in Whole(g) /\ (p \in DOMAIN g.bitmap => g.bitmap[p])
  <2>1. PICK s \in Nat : /\ s \in Whole(g) /\ b = SlotBlock(g, s) /\ (s \in DOMAIN g.bitmap => g.bitmap[s])
                         /\ b.end = g.address + s * g.unit + g.unit
    BY SlotFacts, Zenon
  <2>2. /\ s * g.unit \in Nat /\ p * g.unit \in Nat /\ (s < p => s * g.unit + g.unit <= p * g.unit)
        /\ (p < s => p * g.unit + g.unit <= s * g.unit)
    BY <1>0, Multiples, Zenon
  <2>3. s = p
    BY <1>0, <1>1, <1>2, <2>1, <2>2
  <2> QED  BY <2>1, <2>3, Zenon
<1>3. SlotBlock(g, p).end = x + g.unit
  BY Zenon DEF SlotBlock, Block
<1>4. SlotBlock(g, p).end <= y /\ ~(SlotBlock(g, p).end <= x)
  BY <1>0, <1>1, <1>3
<1>5. \A b \in g.truth : b.end <= x => b.end <= y
  <2> SUFFICES ASSUME NEW b \in g.truth, b.end <= x PROVE b.end <= y
    BY Zenon
  <2>1. b.end \in Nat
    BY SlotFacts, Multiples, BlockEnds, Zenon
  <2> QED  BY <1>0, <1>1, <2>1
<1> HIDE DEF x, y
<1>6. EndedBy(g, y) = EndedBy(g, x) \cup ({SlotBlock(g, p)} \cap g.truth)
  BY <1>2, <1>4, <1>5, Zenon DEF EndedBy
<1>7. SlotBlock(g, p) \in g.truth => p \in Whole(g) /\ (p \in DOMAIN g.bitmap => g.bitmap[p])
  BY <1>2, <1>4, Zenon
<1> QED  BY <1>6, <1>7, Zenon DEF x, y

\* The first slot of an extent is the first not before it.
LEMMA FirstSlotFacts ==
  ASSUME NEW a \in Nat, NEW b \in Nat, NEW u \in Nat \ {0}, a <= b
  PROVE  LET s == SlotsUpTo(b - a, u)
         IN s \in Nat /\ a + s * u >= b /\ a + s * u < b + u /\ (a = b => s = 0)
<1> DEFINE m == b - a + u - 1
           s == m \div u
<1>1. m \in Nat /\ m + 1 = b - a + u
  OBVIOUS
<1> HIDE DEF m
<1>2. s \in Nat /\ u * s <= m /\ m < u * s + u
  <2>1. s \in Nat
    BY <1>1
  <2>2. m = u * s + (m % u)
    BY <1>1
  <2>3. m % u \in Nat /\ m % u < u
    BY <1>1
  <2>4. u * s \in Nat
    BY <2>1
  <2> QED  BY <1>1, <2>1, <2>2, <2>3, <2>4
<1> HIDE DEF s
<1>3. s * u = u * s /\ u * s \in Nat
  BY <1>2
<1>4. a + s * u >= b /\ a + s * u < b + u
  BY <1>1, <1>2, <1>3
<1>5. ASSUME a = b PROVE s = 0
  <2>1. s * u < u
    BY <1>3, <1>4, <1>5
  <2>2. s > 0 => u <= s * u
    BY <1>2, Multiples
  <2> QED  BY <1>2, <1>3, <2>1, <2>2
<1>6. SlotsUpTo(b - a, u) = s
  BY Zenon DEF SlotsUpTo, s, m
<1> QED  BY <1>2, <1>4, <1>5, <1>6, Zenon

\* A page boundary is the next one of itself.
LEMMA RoundPage == ASSUME NEW u \in Nat, u % Page = 0 PROVE NextMultiple(u) = u
<1>0. Page \in Nat \ {0}
  BY Sizes, Zenon
<1> DEFINE s == (u + Page - 1) \div Page
           k == u \div Page
<1>1. s = SlotsUpTo(u - 0, Page)
  BY <1>0 DEF SlotsUpTo
<1>2. 0 <= u /\ 0 \in Nat
  OBVIOUS
<1> HIDE DEF s
<1>3. s \in Nat /\ 0 + s * Page >= u /\ 0 + s * Page < u + Page
  <2>1. /\ SlotsUpTo(u - 0, Page) \in Nat /\ 0 + SlotsUpTo(u - 0, Page) * Page >= u
        /\ 0 + SlotsUpTo(u - 0, Page) * Page < u + Page
    BY <1>0, <1>2, FirstSlotFacts, Zenon
  <2> QED  BY <1>1, <2>1, Zenon
<1>4. u = k * Page /\ k \in Nat
  BY <1>0
<1>5. NextMultiple(u) = s * Page
  BY Zenon DEF NextMultiple, s
<1> HIDE DEF k
<1>6. /\ s * Page \in Nat /\ k * Page \in Nat /\ (s < k => s * Page + Page <= k * Page) /\ (k < s => k * Page + Page <= s * Page)
  BY <1>0, <1>3, <1>4, Multiples, Zenon
<1>7. s = k
  BY <1>0, <1>3, <1>4, <1>6
<1> QED  BY <1>4, <1>5, <1>7, Zenon

\* The block of a page, and between two page boundaries the one that may end.
PageBlock(g, p) == Block(p + Page - g.content[p].size, p + Page, g.content[p].tag)

\* A page of special pool has one block, or none.
LEMMA PageNext ==
  ASSUME NEW t, NEW g, RegionOk(t, g), ~Named(g), Kind(g) = "special", NEW p \in Nat, p % Page = 0
  PROVE  EndedBy(g, p + Page) = EndedBy(g, p) \cup (IF p \in DOMAIN g.content /\ g.content[p].tag # 0 THEN {PageBlock(g, p)} ELSE {})
<1>0. PagesOk(g) /\ g.address \in Nat /\ EndOf(g) \in Nat /\ Page \in Nat \ {0}
  BY KindFacts, Sizes, Zenon
<1>1. g.truth = {PageBlock(g, q) : q \in {x \in DOMAIN g.content : g.content[x].tag # 0}}
  BY <1>0, SMT DEF PagesOk, PageBlock
<1>2. \A q : PageBlock(g, q).end = q + Page
  BY Zenon DEF PageBlock, Block
<1>3. ASSUME NEW b \in g.truth, b.end <= p + Page, ~(b.end <= p)
      PROVE  p \in DOMAIN g.content /\ g.content[p].tag # 0 /\ b = PageBlock(g, p)
  <2>1. PICK q \in DOMAIN g.content : g.content[q].tag # 0 /\ b = PageBlock(g, q)
    BY <1>1, Zenon
  <2>2. q % Page = 0 /\ q \in g.address .. EndOf(g) - 1 /\ b.end = q + Page
    BY <1>0, <1>2, <2>1, Zenon DEF PagesOk
  <2>3. q \in Nat /\ q <= p
    BY <1>0, <1>3, <2>2
  <2>4. q < p => q + Page <= p
    BY <2>2, <2>3, PageBetween, Zenon
  <2>5. q = p
    BY <1>0, <1>3, <2>2, <2>3, <2>4
  <2> QED  BY <2>1, <2>5, Zenon
<1>4. \A b \in g.truth : b.end <= p => b.end <= p + Page
  <2> SUFFICES ASSUME NEW b \in g.truth, b.end <= p PROVE b.end <= p + Page
    BY Zenon
  <2>1. b.end \in Nat
    BY BlockEnds, Zenon
  <2> QED  BY <1>0, <2>1
<1>5. ASSUME p \in DOMAIN g.content, g.content[p].tag # 0
      PROVE  PageBlock(g, p) \in g.truth /\ PageBlock(g, p).end <= p + Page
  <2>1. PageBlock(g, p).end <= p + Page
    BY <1>0, <1>2
  <2> QED  BY <1>1, <1>5, <2>1, Zenon
<1>6. CASE p \in DOMAIN g.content /\ g.content[p].tag # 0
  <2>1. EndedBy(g, p + Page) = EndedBy(g, p) \cup {PageBlock(g, p)}
    BY <1>3, <1>4, <1>5, <1>6, Zenon DEF EndedBy
  <2> QED  BY <1>6, <2>1, Zenon
<1>7. CASE ~(p \in DOMAIN g.content /\ g.content[p].tag # 0)
  <2>1. EndedBy(g, p + Page) = EndedBy(g, p)
    BY <1>3, <1>4, <1>7, Zenon DEF EndedBy
  <2> QED  BY <1>7, <2>1, Zenon
<1> QED  BY <1>6, <1>7, Zenon

-----------------------------------------------------------------------------
(* How far a walk of a region has come. *)

\* What was found once all up to x was read, stepped over or known to hold nothing.  Of a
\* page range that was read in part the rest is missing, and the walk has yet to say so.
Front(t, g, found, v, x) ==
  /\ Kind(g) = "Vs" => /\ v.next \in Heads(g) /\ v.covered \in Nat /\ v.covered <= v.next
                       /\ found = LiveBefore(g, v.next)
                       /\ v.next = EndOf(g) \/ x < v.next + VsHeaders(g)
  /\ Kind(g) = "Segment" => \/ found = {} /\ (g.truth = {} \/ x = g.address)
                            \/ found = g.truth /\ x = EndOf(g)
                            \/ /\ x > g.address /\ x < EndOf(g) /\ g.truth # {}
                               /\ PageOf(x) \notin t.readable
  /\ Kind(g) \in {"Lfh", "special"} => found = EndedBy(g, x)

\* What is not known to hold nothing, and is not in a span, from lo to hi.
Clear(t, v, lo, hi) == \A u \in lo .. hi - 1 : u < v.covered \/ ~Committed(t, u)

\* A region is begun with nothing found.
LEMMA FrontStart ==
  ASSUME NEW t, NEW g, RegionOk(t, g), ~Named(g), NEW v, v.next = g.address, v.covered = g.address
  PROVE  Front(t, g, {}, v, g.address)
<1>0. g.address \in Nat /\ EndOf(g) \in Nat /\ g.address <= EndOf(g)
  BY KindFacts, Zenon
<1>1. ASSUME Kind(g) = "Vs"
      PROVE  /\ g.address \in Heads(g) /\ g.address \in Nat /\ g.address <= g.address
             /\ {} = LiveBefore(g, g.address) /\ g.address < g.address + VsHeaders(g)
  <2>1. g.address \in Heads(g) /\ {} = LiveBefore(g, g.address) /\ VsHeaders(g) \in Nat /\ VsHeaders(g) > 0
    BY <1>1, HeadFacts, LiveEnds, Zenon
  <2> QED  BY <1>0, <2>1
<1>2. ASSUME Kind(g) \in {"Lfh", "special"} PROVE {} = EndedBy(g, g.address)
  <2>1. \A b \in g.truth : b.end \in Nat /\ b.end > g.address
    BY <1>2, BlockEnds, Zenon
  <2>2. \A b \in g.truth : ~(b.end <= g.address)
    BY <1>0, <2>1
  <2> QED  BY <2>2, Zenon DEF EndedBy
<1> QED  BY <1>1, <1>2, Zenon DEF Front

\* At the end of a region all of it was found.
LEMMA FrontDone ==
  ASSUME NEW t, NEW g, RegionOk(t, g), ~Named(g), NEW found, NEW v, Front(t, g, found, v, EndOf(g))
  PROVE  found = g.truth
<1>0. g.address \in Nat /\ EndOf(g) \in Nat /\ g.address <= EndOf(g) /\ g.size \in Nat /\ Kind(g) \in {"special", "Segment", "Lfh", "Vs"}
  BY KindFacts, Zenon
<1>1. CASE Kind(g) = "Vs"
  <2>1. /\ v.next \in Heads(g) /\ found = LiveBefore(g, v.next)
        /\ v.next = EndOf(g) \/ EndOf(g) < v.next + VsHeaders(g)
    BY <1>1, Zenon DEF Front
  <2>2. v.next = EndOf(g)
    <3> SUFFICES ASSUME v.next # EndOf(g) PROVE FALSE
      BY Zenon
    <3>1. v.next \in DOMAIN g.chunks /\ VsHeaders(g) \in Nat
      BY <1>1, <2>1, HeadFacts, Zenon
    <3>2. /\ v.next \in Nat /\ g.chunks[v.next].size \in Nat /\ g.chunks[v.next].size >= VsHeaders(g)
          /\ v.next + g.chunks[v.next].size <= EndOf(g)
      BY <1>1, <3>1, ChunkFacts, Zenon
    <3>3. EndOf(g) < v.next + VsHeaders(g)
      BY <2>1, Zenon
    <3> QED  BY <1>0, <3>1, <3>2, <3>3
  <2> QED  BY <1>1, <2>1, <2>2, LiveEnds, Zenon
<1>2. CASE Kind(g) = "Segment"
  <2>1. WholeOk(g, g.pool, TagAt(g, g.address))
    BY <1>2, KindFacts, Zenon
  <2>2. \/ found = {} /\ (g.truth = {} \/ EndOf(g) = g.address)
        \/ found = g.truth
    <3>1. ~(EndOf(g) < EndOf(g))
      BY <1>0
    <3> QED  BY <1>2, <3>1, Zenon DEF Front
  <2>3. EndOf(g) = g.address => ~(g.size > 0)
    BY <1>0 DEF EndOf
  <2>4. EndOf(g) = g.address => g.truth = {}
    BY <2>1, <2>3, Zenon DEF WholeOk
  <2> QED  BY <2>2, <2>4, Zenon
<1>3. CASE Kind(g) \in {"Lfh", "special"}
  <2>1. \A b \in g.truth : b.end <= EndOf(g)
    BY <1>3, BlockEnds, Zenon
  <2>2. found = EndedBy(g, EndOf(g))
    BY <1>3, Zenon DEF Front
  <2> QED  BY <2>1, <2>2, Zenon DEF EndedBy
<1> QED  BY <1>0, <1>1, <1>2, <1>3, Zenon

\* All of an allocated page range is committed.
LEMMA RangeCommitted ==
  ASSUME NEW t, NEW g, RegionOk(t, g), ~Named(g), Kind(g) = "Segment", g.truth # {},
         NEW u \in g.address .. EndOf(g) - 1
  PROVE  Committed(t, u)
<1>0. g.address \in Nat /\ EndOf(g) \in Nat /\ g.size \in Nat /\ g.pool \in Nat
  BY KindFacts, Zenon
<1>1. WholeOk(g, g.pool, TagAt(g, g.address)) /\ Backed(t, g)
  BY KindFacts, Zenon
<1>2. Block(g.address + g.pool, EndOf(g), TagAt(g, g.address)) \in g.truth
  BY <1>1, Zenon DEF WholeOk
<1> DEFINE b == Block(g.address + g.pool, EndOf(g), TagAt(g, g.address))
<1>3. b.usable = g.address + g.pool /\ b.end = EndOf(g)
  BY Zenon DEF Block
<1> HIDE DEF b
<1>4. \A w \in b.usable - g.pool .. b.end - 1 : Committed(t, w)
  BY <1>1, <1>2, Zenon DEF Backed, b
<1>5. b.usable - g.pool = g.address
  BY <1>0, <1>3
<1> QED  BY <1>3, <1>4, <1>5, Zenon

\* What was found stays what there is to find while nothing that is committed is passed over.
LEMMA FrontMoves ==
  ASSUME NEW t, NEW g, RegionOk(t, g), ~Named(g), NEW found, NEW v, NEW lo \in Nat, NEW hi \in Nat,
         g.address <= lo, lo <= hi, hi <= EndOf(g), Kind(g) # "Vs" => v.covered = g.address,
         Front(t, g, found, v, lo), Clear(t, v, lo, hi)
  PROVE  Front(t, g, found, v, hi)
<1>0. g.address \in Nat /\ EndOf(g) \in Nat /\ Kind(g) \in {"special", "Segment", "Lfh", "Vs"}
  BY KindFacts, Zenon
<1>1. CASE Kind(g) = "Vs"
  <2>1. /\ v.next \in Heads(g) /\ v.covered \in Nat /\ v.covered <= v.next
        /\ found = LiveBefore(g, v.next)
        /\ v.next = EndOf(g) \/ lo < v.next + VsHeaders(g)
    BY <1>1, Zenon DEF Front
  <2>2. v.next = EndOf(g) \/ hi < v.next + VsHeaders(g)
    <3> SUFFICES ASSUME v.next # EndOf(g), ~(hi < v.next + VsHeaders(g)) PROVE FALSE
      BY Zenon
    <3>1. v.next \in DOMAIN g.chunks /\ VsHeaders(g) \in Nat /\ VsHeaders(g) > 0 /\ v.next \in Nat
      BY <1>1, <2>1, HeadFacts, Zenon
    <3>2. \A u \in v.next .. v.next + VsHeaders(g) - 1 : Committed(t, u)
      BY <1>1, <3>1, ChunkFacts, Zenon
    <3> DEFINE u == Most(lo, v.next)
    <3>3. u \in lo .. hi - 1 /\ u \in v.next .. v.next + VsHeaders(g) - 1 /\ ~(u < v.covered)
      BY <2>1, <3>1 DEF Most
    <3> HIDE DEF u
    <3> QED  BY <3>2, <3>3, Zenon DEF Clear
  <2>3. ~(Kind(g) = "Segment") /\ ~(Kind(g) \in {"Lfh", "special"})
    BY <1>1, Zenon
  <2> QED  BY <2>1, <2>2, <2>3, Zenon DEF Front
<1>2. CASE Kind(g) = "Segment"
  <2>0. ~(Kind(g) = "Vs") /\ ~(Kind(g) \in {"Lfh", "special"})
    BY <1>2, Zenon
  <2>1. CASE lo = hi
    BY <2>1, Zenon
  <2>2. CASE lo # hi
    <3>1. lo \in lo .. hi - 1 /\ lo < EndOf(g) /\ ~(lo < g.address) /\ lo \in g.address .. EndOf(g) - 1
      BY <1>0, <2>2
    <3>2. ~Committed(t, lo)
      BY <2>0, <3>1, Zenon DEF Clear
    <3>3. g.truth = {}
      BY <1>2, <3>1, <3>2, RangeCommitted, Zenon
    <3>4. found = {}
      BY <1>2, <3>3, Zenon DEF Front
    <3> QED  BY <2>0, <3>3, <3>4, Zenon DEF Front
  <2> QED  BY <2>1, <2>2, Zenon
<1>3. CASE Kind(g) \in {"Lfh", "special"}
  <2>0. ~(Kind(g) = "Vs") /\ ~(Kind(g) = "Segment")
    BY <1>3, Zenon
  <2>1. found = EndedBy(g, lo)
    BY <1>3, Zenon DEF Front
  <2>2. ASSUME NEW b \in g.truth PROVE b.end <= lo <=> b.end <= hi
    <3>1. b.end \in Nat /\ b.end > g.address /\ Committed(t, b.end - 1)
      BY <1>3, BlockEnds, Zenon
    <3>2. b.end - 1 \in Nat /\ ~(b.end - 1 < g.address)
      BY <1>0, <3>1
    <3>3. ~(b.end - 1 \in lo .. hi - 1)
      BY <2>0, <3>1, <3>2, Zenon DEF Clear
    <3> QED  BY <3>1, <3>3
  <2>3. EndedBy(g, lo) = EndedBy(g, hi)
    BY <2>2, Zenon DEF EndedBy
  <2> QED  BY <2>0, <2>1, <2>3, Zenon DEF Front
<1> QED  BY <1>0, <1>1, <1>2, <1>3, Zenon

-----------------------------------------------------------------------------
(* Snapshots. *)

SnapFields ==
  {"spans", "complete", "said", "budget_expired", "stopped", "matched", "refused", "unplaced",
   "pages", "skipped", "recovered"}

\* The allocations that count towards a threshold.
Matches(l, t, spans) ==
  {s \in spans : s.state = "Allocated" /\ s.tag = l.tag /\ t.regions[s.region].paged \in l.paged}

\* An incomplete snapshot has its reason, and the matches are counted.
SnapOk(l, t, s) ==
  /\ DOMAIN s = SnapFields
  /\ s.complete \in BOOLEAN /\ s.said \in BOOLEAN /\ s.stopped \in Nat
  /\ s.stopped # 0 => ~s.complete
  /\ ~s.complete => s.said \/ s.stopped # 0 \/ \E x \in s.spans : is_coverage_gap(x.state)
  /\ l # NoLimit =>
       /\ s.matched \in Nat /\ s.matched <= l.matches
       /\ s.stopped = 0 => s.matched < l.matches
       /\ IsFiniteSet(Matches(l, t, s.spans)) /\ Cardinality(Matches(l, t, s.spans)) <= s.matched

LimitOk(l) == l = NoLimit \/ l.matches \in Nat \ {0}

\* A snapshot that differs only in what it counts.
Alike(s, n) ==
  /\ DOMAIN n = SnapFields
  /\ n.spans = s.spans /\ n.complete = s.complete /\ n.said = s.said /\ n.stopped = s.stopped
  /\ n.matched = s.matched /\ n.refused = s.refused

\* What a diagnostic changes.
LEMMA SaysFacts ==
  ASSUME NEW s, DOMAIN s = SnapFields
  PROVE  /\ DOMAIN says(s) = SnapFields /\ DOMAIN misses(s) = SnapFields
         /\ says(s).said = TRUE /\ misses(s).said = TRUE /\ misses(s).complete = FALSE
         /\ says(s).complete = s.complete
         /\ says(s).spans = s.spans /\ misses(s).spans = s.spans
         /\ says(s).stopped = s.stopped /\ misses(s).stopped = s.stopped
         /\ says(s).matched = s.matched /\ misses(s).matched = s.matched
         /\ says(s).refused = s.refused /\ misses(s).refused = s.refused
  BY Zenon DEF says, misses, SnapFields

\* A diagnostic leaves a snapshot sound.
LEMMA SaysOk ==
  ASSUME NEW l, NEW t, NEW s, SnapOk(l, t, s)
  PROVE  SnapOk(l, t, says(s)) /\ SnapOk(l, t, misses(s))
<1>1. DOMAIN s = SnapFields
  BY Zenon DEF SnapOk
<1> QED  BY <1>1, SaysFacts, Zenon DEF SnapOk

\* What recording a span changes.
LEMMA RecordFacts ==
  ASSUME NEW s, NEW span, DOMAIN s = SnapFields
  PROVE  LET n == record_span(s, span)
         IN /\ DOMAIN n = SnapFields
            /\ n.spans = s.spans \cup {span} /\ n.said = s.said /\ n.refused = s.refused
            /\ IF limit = NoLimit \/ ~accepts(span)
               THEN n.complete = s.complete /\ n.stopped = s.stopped /\ n.matched = s.matched
               ELSE /\ n.matched = s.matched + 1
                    /\ IF s.matched + 1 < limit.matches THEN n.complete = s.complete /\ n.stopped = s.stopped
                       ELSE n.complete = FALSE /\ n.stopped = limit.matches
<1> DEFINE seen == [s EXCEPT !.spans = @ \cup {span}]
           more == [seen EXCEPT !.matched = @ + 1]
           full == [more EXCEPT !.complete = FALSE, !.stopped = limit.matches]
<1>1. /\ DOMAIN seen = SnapFields /\ seen.spans = s.spans \cup {span}
      /\ seen.said = s.said /\ seen.refused = s.refused /\ seen.complete = s.complete
      /\ seen.stopped = s.stopped /\ seen.matched = s.matched
  BY Zenon DEF SnapFields
<1> HIDE DEF seen
<1>2. /\ DOMAIN more = SnapFields /\ more.spans = seen.spans
      /\ more.said = seen.said /\ more.refused = seen.refused /\ more.complete = seen.complete
      /\ more.stopped = seen.stopped /\ more.matched = seen.matched + 1
  BY <1>1, Zenon DEF SnapFields
<1> HIDE DEF more
<1>3. /\ DOMAIN full = SnapFields /\ full.spans = more.spans
      /\ full.said = more.said /\ full.refused = more.refused /\ full.complete = FALSE
      /\ full.stopped = limit.matches /\ full.matched = more.matched
  BY <1>2, Zenon DEF SnapFields
<1> HIDE DEF full
<1>4. record_span(s, span) = IF limit = NoLimit \/ ~accepts(span) THEN seen
                             ELSE IF more.matched < limit.matches THEN more ELSE full
  BY Zenon DEF record_span, seen, more, full
<1> DEFINE n == record_span(s, span)
<1>5. n = IF limit = NoLimit \/ ~accepts(span) THEN seen
          ELSE IF more.matched < limit.matches THEN more ELSE full
  BY <1>4, Zenon
<1> HIDE DEF n
<1>6. CASE limit = NoLimit \/ ~accepts(span)
  BY <1>1, <1>5, <1>6, Zenon DEF n
<1>7. CASE ~(limit = NoLimit \/ ~accepts(span)) /\ more.matched < limit.matches
  BY <1>1, <1>2, <1>5, <1>7, Zenon DEF n
<1>8. CASE ~(limit = NoLimit \/ ~accepts(span)) /\ ~(more.matched < limit.matches)
  BY <1>1, <1>2, <1>3, <1>5, <1>8, Zenon DEF n
<1> QED  BY <1>6, <1>7, <1>8, Zenon

\* A page whose block could not be placed exactly is said.
FoundOn(page) == [snap EXCEPT !.complete = @ /\ Corroborated(page), !.said = @ \/ ~Corroborated(page)]

\* What a page of special pool adds to a snapshot.
LEMMA FoundOnFacts ==
  ASSUME NEW page, DOMAIN snap = SnapFields
  PROVE  /\ DOMAIN FoundOn(page) = SnapFields
         /\ FoundOn(page).complete = (snap.complete /\ Corroborated(page))
         /\ FoundOn(page).said = (snap.said \/ ~Corroborated(page))
         /\ FoundOn(page).spans = snap.spans /\ FoundOn(page).stopped = snap.stopped
         /\ FoundOn(page).matched = snap.matched /\ FoundOn(page).refused = snap.refused
  BY Zenon DEF FoundOn, SnapFields

\* What the chain check leaves of a snapshot.
LEMMA ChainOk ==
  ASSUME NEW s, SnapOk(limit, target, s)
  PROVE  /\ SnapOk(limit, target, ChainChecked(s)) /\ ChainChecked(s).stopped = s.stopped
         /\ ChainChecked(s).spans = s.spans /\ ChainChecked(s).refused = s.refused
         /\ ChainChecked(s).complete => s.complete
<1>1. DOMAIN s = SnapFields
  BY Zenon DEF SnapOk
<1>2. ChainChecked(s) = s \/ ChainChecked(s) = misses(s)
  BY Zenon DEF ChainChecked
<1>3. /\ SnapOk(limit, target, misses(s)) /\ misses(s).stopped = s.stopped
      /\ misses(s).spans = s.spans /\ misses(s).refused = s.refused /\ ~misses(s).complete
  BY <1>1, SaysOk, SaysFacts, Zenon
<1>4. CASE ChainChecked(s) = s
  BY <1>4, Zenon
<1>5. CASE ChainChecked(s) = misses(s)
  BY <1>3, <1>5, Zenon
<1> QED  BY <1>2, <1>4, <1>5, Zenon

\* What an extent's refusals add to a snapshot.
Counted == [snap EXCEPT !.refused = @ + dec.refused]

\* What counting the refused headers changes.
LEMMA CountedFacts ==
  ASSUME DOMAIN snap = SnapFields
  PROVE  /\ DOMAIN Counted = SnapFields /\ Counted.spans = snap.spans /\ Counted.complete = snap.complete
         /\ Counted.said = snap.said /\ Counted.stopped = snap.stopped /\ Counted.matched = snap.matched
         /\ Counted.refused = snap.refused + dec.refused
  BY Zenon DEF Counted, SnapFields

-----------------------------------------------------------------------------
(* The accounts of the walk: where it is, and what has been said by then. *)

\* An extent at or after c: all of it can be read, and it ends where that ends.
ExtentOk(t, g, c, x) ==
  /\ DOMAIN x = {"base", "end", "got"} /\ x.got \in Nat
  /\ x.base \in Nat /\ x.end \in Nat /\ c <= x.base /\ x.base < x.end /\ x.end <= EndOf(g)
  /\ Edge(g, x.base) /\ Edge(g, x.end)
  /\ \A u \in x.base .. x.end - 1 : PageOf(u) \in t.readable
  /\ x.end = EndOf(g) \/ PageOf(x.end) \notin t.readable

Known == \E w \in Walks : target = w[1] /\ limit = w[2]

Inside == {"extent", "read", "decode", "Lfh", "Segment", "special", "Vs"}

\* Where the walk is, and what has to have been said by then.
Control ==
  /\ pc \in Inside \cup {"region", "leave", "finish", "done", "failed"}
  /\ r \in 1 .. Len(target.regions) + 1 /\ walked = r - 1
  /\ pc \in Inside \cup {"leave"} => r <= Len(target.regions)
  /\ pc = "finish" => ranout \/ snap.stopped # 0
  /\ snap.stopped # 0 => pc \in {"leave", "Vs", "finish", "done", "failed"}
  /\ CutShortSaid

\* Stalls in a row are fewer than the limit while the walk goes on, and once a transfer was
\* begun past the deadline no other is waiting to be.
Pace ==
  /\ DOMAIN stalled = {"run", "here"} /\ stalled.run \in 0 .. MaxStalls
  /\ pc \in Inside => stalled.run < MaxStalls
  /\ late \in {0, 1}
  /\ late = 1 => expired /\ pc # "read"

Place ==
  /\ pc \in Inside => cursor \in Region.address .. RegionEnd /\ Edge(Region, cursor)
  /\ pc \in Inside \ {"extent"} => ExtentOk(target, Region, cursor, extent)

WalkInv == Known /\ SnapOk(limit, target, snap) /\ Control /\ Pace /\ Place

Decoding == {"decode", "Lfh", "Segment", "special", "Vs"}

\* What is known of the target and of the region the walk is in.
LEMMA KnownFacts ==
  ASSUME Known
  PROVE  /\ LimitOk(limit) /\ Len(target.regions) \in Nat /\ DOMAIN target.regions = 1 .. Len(target.regions)
         /\ target.user \in BOOLEAN
         /\ \A u : PageOf(u) \in target.readable => committed_run(u)
         /\ \A i \in DOMAIN target.regions : RegionOk(target, target.regions[i])
<1>1. PICK w \in Walks : target = w[1] /\ limit = w[2]
  BY Zenon DEF Known
<1>2. /\ w[2] = NoLimit \/ w[2].matches \in Nat \ {0}
      /\ w[1].user \in BOOLEAN /\ (w[1].user => w[1].readable \subseteq w[1].committed)
      /\ w[1].regions \in Seq({w[1].regions[i] : i \in DOMAIN w[1].regions})
      /\ \A i \in DOMAIN w[1].regions : RegionOk(w[1], w[1].regions[i])
  BY WalkAssumption, Zenon
<1>3. LimitOk(limit)
  BY <1>1, <1>2, Zenon DEF LimitOk
<1>4. target.regions \in Seq({target.regions[i] : i \in DOMAIN target.regions})
  BY <1>1, <1>2, Zenon
<1>5. Len(target.regions) \in Nat /\ DOMAIN target.regions = 1 .. Len(target.regions)
  BY <1>4
<1>6. \A u : PageOf(u) \in target.readable => committed_run(u)
  BY <1>1, <1>2, Zenon DEF committed_run, Committed
<1> QED  BY <1>1, <1>2, <1>3, <1>5, <1>6, Zenon

\* The region in hand is one of the target's.
LEMMA RegionFacts ==
  ASSUME Known, r \in 1 .. Len(target.regions)
  PROVE  /\ RegionOk(target, Region) /\ RegionEnd = EndOf(Region)
         /\ Region.address \in Nat /\ Region.size \in Nat /\ Region.pool \in Nat /\ Region.unit \in Nat
         /\ EndOf(Region) \in Nat /\ Region.address <= EndOf(Region)
<1>1. RegionOk(target, Region) /\ RegionEnd = EndOf(Region)
  BY KnownFacts, Zenon DEF Region, RegionEnd, EndOf
<1>2. Region.address \in Nat /\ Region.size \in Nat /\ Region.pool \in Nat /\ Region.unit \in Nat
  BY <1>1, Zenon DEF RegionOk
<1>3. EndOf(Region) \in Nat /\ Region.address <= EndOf(Region)
  BY <1>2 DEF EndOf
<1> QED  BY <1>1, <1>2, <1>3, Zenon

\* Where the walk is inside a region, the region is one of the target's.
LEMMA InsideFacts ==
  ASSUME WalkInv, pc \in Inside
  PROVE  /\ r \in 1 .. Len(target.regions) /\ Len(target.regions) \in Nat
         /\ cursor \in Nat /\ RegionEnd \in Nat /\ Region.address \in Nat /\ RegionEnd = EndOf(Region)
         /\ Region.address <= cursor /\ cursor <= RegionEnd /\ Edge(Region, cursor)
         /\ LimitOk(limit) /\ DOMAIN snap = SnapFields /\ snap.complete \in BOOLEAN
         /\ pc # "Vs" => snap.stopped = 0
<1>1. r \in 1 .. Len(target.regions) + 1 /\ r <= Len(target.regions)
  BY Zenon DEF WalkInv, Control
<1>2. Len(target.regions) \in Nat /\ LimitOk(limit)
  BY KnownFacts, Zenon DEF WalkInv
<1>3. r \in 1 .. Len(target.regions)
  BY <1>1, <1>2
<1>4. RegionEnd = EndOf(Region) /\ Region.address \in Nat /\ EndOf(Region) \in Nat
  BY <1>3, RegionFacts, Zenon DEF WalkInv
<1>5. cursor \in Region.address .. RegionEnd /\ Edge(Region, cursor)
  BY Zenon DEF WalkInv, Place
<1>6. cursor \in Nat /\ RegionEnd \in Nat /\ Region.address <= cursor /\ cursor <= RegionEnd
  BY <1>4, <1>5
<1>7. DOMAIN snap = SnapFields /\ snap.complete \in BOOLEAN
  BY Zenon DEF WalkInv, SnapOk
<1>8. pc # "Vs" => snap.stopped = 0
  BY Zenon DEF WalkInv, Control, Inside
<1> QED  BY <1>2, <1>3, <1>4, <1>5, <1>6, <1>7, <1>8, Zenon

\* What a decoder leaves alone.
LEMMA KeptByDecoders ==
  ASSUME KeepExtent
  PROVE  /\ target' = target /\ limit' = limit /\ r' = r /\ walked' = walked /\ ranout' = ranout /\ expired' = expired
         /\ stalled' = stalled /\ extent' = extent /\ late' = late /\ vs' = vs
  BY Zenon DEF KeepExtent, KeepRegion

-----------------------------------------------------------------------------
(* What the walk has found. *)

\* What the spans say is allocated in a region.
Holds(spans, i) == {Described(s) : s \in {x \in spans : x.region = i /\ x.state = "Allocated"}}

\* What was found where the walk is.
FoundNow(found) ==
  /\ pc = "leave" => found = Region.truth
  /\ pc = "extent" => Front(target, Region, found, vs, cursor)
  /\ pc \in {"read", "decode"} => Front(target, Region, found, vs, extent.base)
  /\ pc = "Lfh" => found = EndedBy(Region, SlotAddress(Region.unit))
  /\ pc = "special" => found = EndedBy(Region, dec.pos)
  /\ pc = "Segment" =>
       \/ found = {} /\ (Region.truth = {} \/ (extent.base = Region.address /\ dec.pos = 0))
       \/ /\ found = {Block(Region.address + Region.pool, extent.end, TagAt(Region, Region.address))}
          /\ dec.pos # 0 /\ Region.truth # {}
  /\ pc = "Vs" => /\ found = LiveBefore(Region, dec.pos) /\ dec.pos = dec.resume
                  /\ {vs.covered, dec.covered} \subseteq 0 .. dec.pos

\* A complete snapshot has what there is in the regions left, and in this one so far.
Told ==
  /\ \A s \in snap.spans : s.region \in 1 .. r /\ (pc = "region" => s.region < r)
  /\ snap.complete =>
       /\ snap.refused = 0 /\ dec.refused = 0
       /\ \A i \in 1 .. r - 1 : Holds(snap.spans, i) = target.regions[i].truth
       /\ FoundNow(Holds(snap.spans, r))

DecFields == {"pos", "resume", "covered", "previous", "chunks", "refused", "lost"}

\* Where the decoders are.
DecOk ==
  /\ DOMAIN dec = DecFields /\ dec.refused \in Nat /\ snap.refused \in Nat
  /\ pc # "Vs" => dec.refused = 0
  /\ pc = "Vs" /\ dec.lost => dec.refused # 0
  /\ pc \in Inside => ~Named(Region) /\ DOMAIN vs = {"next", "covered"}
  /\ pc \in {"Lfh", "Segment", "special", "Vs"} => pc = Kind(Region)
  /\ pc \in Inside /\ Kind(Region) # "Vs" => vs.covered = Region.address
  /\ pc \in {"Lfh", "Segment"} => dec.pos \in Nat
  /\ pc = "Lfh" => Region.pool <= Region.unit /\ SlotAddress(Region.unit) < extent.end + Region.unit
  /\ pc = "Vs" => dec.chunks \in Nat
  /\ pc = "special" => dec.pos \in Nat /\ dec.pos % Page = 0 /\ dec.pos <= extent.end

\* While no header was refused the chain of chunks is the allocator's, or lost, and what is
\* reported of a region lies in a block of it.
Linked ==
  /\ pc \in {"extent", "read", "decode"} /\ Kind(Region) = "Vs" => vs.next \in Heads(Region) \cup {NoAddress}
  /\ pc = "Vs" => /\ dec.resume \in Heads(Region)
                  /\ dec.pos = dec.resume \/ dec.pos = extent.end
Chained == snap.refused = 0 /\ dec.refused = 0 => Linked

ExactInv == DecOk /\ Told /\ Chained /\ NothingInvented

-----------------------------------------------------------------------------
(* What a step adds to a snapshot. *)

\* Spans of the region in hand were recorded, those of new the only allocations.
Adds(s, n, new) ==
  /\ s.spans \cup new \subseteq n.spans
  /\ \A x \in n.spans : x \in s.spans \/ x.region = r
  /\ \A x \in n.spans : x.state = "Allocated" => x \in s.spans \cup new
  /\ \A x \in new : x.state = "Allocated" /\ x.region = r
  /\ n.complete => s.complete

\* What the spans say of a region after a step.
LEMMA AddsHolds ==
  ASSUME NEW s, NEW n, NEW new, Adds(s, n, new)
  PROVE  /\ \A i : i # r => Holds(n.spans, i) = Holds(s.spans, i)
         /\ Holds(n.spans, r) = Holds(s.spans, r) \cup {Described(x) : x \in new}
<1> DEFINE Of(spans, i) == {x \in spans : x.region = i /\ x.state = "Allocated"}
<1>1. \A i : i # r => Of(n.spans, i) = Of(s.spans, i)
  BY Zenon DEF Adds
<1>2. Of(n.spans, r) = Of(s.spans, r) \cup new
  BY Zenon DEF Adds
<1>3. \A spans, i : Holds(spans, i) = {Described(x) : x \in Of(spans, i)}
  BY Zenon DEF Holds
<1> HIDE DEF Of
<1>4. {Described(x) : x \in Of(s.spans, r) \cup new} = {Described(x) : x \in Of(s.spans, r)} \cup {Described(x) : x \in new}
  BY Zenon
<1> QED  BY <1>1, <1>2, <1>3, <1>4, Zenon

\* A step of the walk inside a region keeps it exact when it adds what there is.
LEMMA ExactStep ==
  ASSUME ExactInv, r \in Nat \ {0}, target' = target, r' = r, pc' # "region", NEW new,
         Adds(snap, snap', new), DecOk',
         snap'.complete => /\ snap'.refused = 0 /\ dec'.refused = 0 /\ FoundNow(Holds(snap.spans, r))',
         snap'.refused = 0 /\ dec'.refused = 0 => /\ snap.refused = 0 /\ dec.refused = 0 /\ Linked'
                                                  /\ \A x \in new : \E b \in Region.truth : Within(x, b)
  PROVE  ExactInv'
<1>0. /\ \A s \in snap.spans : s.region \in 1 .. r
      /\ snap.complete => \A i \in 1 .. r - 1 : Holds(snap.spans, i) = target.regions[i].truth
  BY Zenon DEF ExactInv, Told
<1>1. Told'
  <2>1. \A s \in snap'.spans : s.region \in 1 .. r
    <3>1. \A x \in snap'.spans : x \in snap.spans \/ x.region = r
      BY Zenon DEF Adds
    <3>2. r \in 1 .. r
      OBVIOUS
    <3> QED  BY <1>0, <3>1, <3>2, Zenon
  <2>2. ASSUME snap'.complete PROVE \A i \in 1 .. r - 1 : Holds(snap'.spans, i) = target.regions[i].truth
    <3>1. snap.complete
      BY <2>2, Zenon DEF Adds
    <3>2. \A i \in 1 .. r - 1 : i # r
      OBVIOUS
    <3>3. \A i : i # r => Holds(snap'.spans, i) = Holds(snap.spans, i)
      BY AddsHolds, Zenon
    <3> QED  BY <1>0, <3>1, <3>2, <3>3, Zenon
  <2> QED  BY <2>1, <2>2, Zenon DEF Told
<1>2. Chained'
  BY Zenon DEF Chained
<1>3. NothingInvented'
  <2> SUFFICES ASSUME snap'.refused = 0, dec'.refused = 0, NEW s \in snap'.spans, s.state = "Allocated"
               PROVE  \E b \in target.regions[s.region].truth : Within(s, b)'
    BY Zenon DEF NothingInvented
  <2>1. \A b : Within(s, b)' <=> Within(s, b)
    BY Zenon DEF Within
  <2>2. CASE s \in new
    <3>1. s.region = r
      BY <2>2, Zenon DEF Adds
    <3>2. \E b \in Region.truth : Within(s, b)
      BY <2>2, Zenon
    <3> QED  BY <2>1, <3>1, <3>2, Zenon DEF Region
  <2>3. CASE s \in snap.spans
    <3>1. snap.refused = 0 /\ dec.refused = 0
      BY Zenon
    <3>2. \E b \in target.regions[s.region].truth : Within(s, b)
      BY <2>3, <3>1, Zenon DEF ExactInv, NothingInvented
    <3> QED  BY <2>1, <3>2, Zenon
  <2> QED  BY <2>2, <2>3, Zenon DEF Adds
<1> QED  BY <1>1, <1>2, <1>3, Zenon DEF ExactInv

\* What a span that is recorded adds.
Allocation(span) == IF span.state = "Allocated" THEN {span} ELSE {}

\* A span of the region in hand is added if it is an allocation.
LEMMA RecordAdds ==
  ASSUME NEW s, NEW span, DOMAIN s = SnapFields, s.complete \in BOOLEAN, span.region = r
  PROVE  Adds(s, record_span(s, span), Allocation(span)) /\ record_span(s, span).refused = s.refused
<1> DEFINE n == record_span(s, span)
<1>1. n.spans = s.spans \cup {span} /\ n.refused = s.refused /\ (n.complete => s.complete)
  BY RecordFacts, ZenonT(40)
<1> HIDE DEF n
<1>2. Adds(s, n, Allocation(span))
  <2>1. CASE span.state = "Allocated"
    BY <1>1, <2>1, Zenon DEF Adds, Allocation
  <2>2. CASE span.state # "Allocated"
    BY <1>1, <2>2, Zenon DEF Adds, Allocation
  <2> QED  BY <2>1, <2>2, Zenon
<1> QED  BY <1>1, <1>2, Zenon DEF n

\* What is said of the allocations of a span.
LEMMA AllocationIs ==
  ASSUME NEW x
  PROVE  /\ x.state = "Allocated" => Allocation(x) = {x} /\ {Described(y) : y \in Allocation(x)} = {Described(x)}
         /\ x.state # "Allocated" => Allocation(x) = {} /\ {Described(y) : y \in Allocation(x)} = {}
<1>1. CASE x.state = "Allocated"
  <2>1. Allocation(x) = {x}
    BY <1>1, Zenon DEF Allocation
  <2> QED  BY <1>1, <2>1, Zenon
<1>2. CASE x.state # "Allocated"
  <2>1. Allocation(x) = {}
    BY <1>2, Zenon DEF Allocation
  <2> QED  BY <1>2, <2>1, Zenon
<1> QED  BY <1>1, <1>2, Zenon

\* An exact block lies within itself.
LEMMA WithinItself ==
  ASSUME NEW x, NEW b, b = Described(x), x.end \in Nat
  PROVE  Within(x, b)
  BY DEF Within, Described

\* And so does one that is described as a chunk's block.
LEMMA ChunkWithin ==
  ASSUME NEW x, NEW g, NEW a, Described(x) = ChunkBlock(g, a), g.chunks[a].end \in Nat
  PROVE  Within(x, ChunkBlock(g, a))
<1>1. x.end = g.chunks[a].end
  BY Zenon DEF Described, ChunkBlock, Block
<1> QED  BY <1>1, WithinItself, Zenon

-----------------------------------------------------------------------------
(* Holes. *)

\* A step from lo to hi that read nothing: what it passed over is covered or holds nothing,
\* or the snapshot is not complete.
Passed(s, n, lo, hi) ==
  /\ Adds(s, n, {}) /\ DOMAIN n = SnapFields /\ n.complete \in BOOLEAN /\ n.refused = s.refused
  /\ n.complete => Clear(target, vs, lo, hi)

\* A diagnostic passes over nothing more.
LEMMA SaysPasses ==
  ASSUME NEW s, NEW n, NEW lo, NEW hi, Passed(s, n, lo, hi)
  PROVE  Passed(s, says(n), lo, hi)
<1>1. DOMAIN n = SnapFields
  BY Zenon DEF Passed
<1> QED  BY <1>1, SaysFacts, Zenon DEF Passed, Adds

\* Counters do not matter.
LEMMA AlikePasses ==
  ASSUME NEW s, NEW n, NEW m, NEW lo, NEW hi, Passed(s, n, lo, hi), Alike(n, m)
  PROVE  Passed(s, m, lo, hi)
  BY Zenon DEF Passed, Adds, Alike

\* One hole after another.
LEMMA PassesOn ==
  ASSUME NEW s, NEW m, NEW n, NEW lo \in Nat, NEW mid \in Nat, NEW hi \in Nat,
         Passed(s, m, lo, mid), Passed(m, n, mid, hi)
  PROVE  Passed(s, n, lo, hi)
<1>1. Adds(s, n, {})
  BY Zenon DEF Passed, Adds
<1>2. ASSUME n.complete PROVE Clear(target, vs, lo, hi)
  <2>1. Clear(target, vs, lo, mid) /\ Clear(target, vs, mid, hi)
    BY <1>2, Zenon DEF Passed, Adds
  <2>2. \A u \in lo .. hi - 1 : u \in lo .. mid - 1 \/ u \in mid .. hi - 1
    OBVIOUS
  <2> QED  BY <2>1, <2>2, Zenon DEF Clear
<1> QED  BY <1>1, <1>2, Zenon DEF Passed

\* What is recorded from the later of where the walk is and what a span covers is all there is.
LEMMA FromCovered ==
  ASSUME NEW lo \in Nat, NEW hi \in Nat, vs.covered \in Nat
  PROVE  /\ Most(lo, vs.covered) \in Nat /\ Least(Most(lo, vs.covered), hi) \in Nat /\ lo \in Nat
         /\ \A u \in lo .. hi - 1 : u < vs.covered \/ Most(lo, vs.covered) <= u
         /\ \A u \in lo .. hi - 1 : u < vs.covered \/ Least(Most(lo, vs.covered), hi) <= u
         /\ \A u \in lo .. hi - 1 : u < vs.covered \/ lo <= u
  BY DEF Most, Least

\* What is known inside a region.
LEMMA ExactFacts ==
  ASSUME WalkInv, ExactInv, pc \in Inside
  PROVE  /\ r \in Nat \ {0} /\ RegionOk(target, Region) /\ ~Named(Region) /\ RegionEnd = EndOf(Region)
         /\ Region.address \in Nat /\ RegionEnd \in Nat /\ cursor \in Nat /\ Region.address <= cursor /\ cursor <= RegionEnd
         /\ Kind(Region) # "Vs" => vs.covered = Region.address
         /\ DOMAIN snap = SnapFields /\ snap.complete \in BOOLEAN /\ snap.refused \in Nat
         /\ pc # "Vs" => dec.refused = 0
         /\ Decoder = Kind(Region) /\ DOMAIN vs = {"next", "covered"}
         /\ snap.complete => snap.refused = 0 /\ dec.refused = 0 /\ FoundNow(Holds(snap.spans, r))
<1>1. /\ r \in 1 .. Len(target.regions) /\ Len(target.regions) \in Nat /\ RegionEnd = EndOf(Region)
      /\ Region.address \in Nat /\ RegionEnd \in Nat /\ cursor \in Nat /\ Region.address <= cursor /\ cursor <= RegionEnd
      /\ DOMAIN snap = SnapFields /\ snap.complete \in BOOLEAN
  BY InsideFacts, Zenon
<1>2. r \in Nat \ {0}
  BY <1>1
<1>3. RegionOk(target, Region)
  BY <1>1, RegionFacts, Zenon DEF WalkInv
<1>4. /\ ~Named(Region) /\ (Kind(Region) # "Vs" => vs.covered = Region.address) /\ snap.refused \in Nat
      /\ (pc # "Vs" => dec.refused = 0) /\ DOMAIN vs = {"next", "covered"}
  BY Zenon DEF ExactInv, DecOk
<1>5. snap.complete => snap.refused = 0 /\ dec.refused = 0 /\ FoundNow(Holds(snap.spans, r))
  BY Zenon DEF ExactInv, Told
<1>6. Decoder = Kind(Region)
  BY Zenon DEF Decoder, Kind
<1> QED  BY <1>1, <1>2, <1>3, <1>4, <1>5, <1>6, Zenon

\* What the spans of a complete snapshot cover is a place.
LEMMA CoveredIs ==
  ASSUME WalkInv, ExactInv, pc \in {"extent", "read", "decode"}, snap.complete
  PROVE  vs.covered \in Nat
<1>1. pc \in Inside
  BY Zenon DEF Inside
<1>2. /\ Region.address \in Nat /\ (Kind(Region) # "Vs" => vs.covered = Region.address)
      /\ FoundNow(Holds(snap.spans, r))
  BY <1>1, ExactFacts, Zenon
<1> QED  BY <1>2, Zenon DEF FoundNow, Front

\* What is found does not change where nothing is recorded as allocated.
LEMMA PassedHolds ==
  ASSUME NEW s, NEW n, Adds(s, n, {})
  PROVE  Holds(n.spans, r) = Holds(s.spans, r)
<1>1. Holds(n.spans, r) = Holds(s.spans, r) \cup {Described(x) : x \in {}}
  BY AddsHolds, Zenon
<1> QED  BY <1>1, Zenon

\* A step over a hole keeps the walk exact.
LEMMA PassStep ==
  ASSUME WalkInv, ExactInv, pc \in {"extent", "read"}, target' = target, r' = r, vs' = vs, dec' = dec,
         NEW lo \in Nat, NEW hi \in Nat, pc = "extent" => lo = cursor, pc = "read" => lo = extent.base,
         Region.address <= lo, lo <= hi, hi <= RegionEnd, Passed(snap, snap', lo, hi),
         \/ pc' = "leave" /\ hi = RegionEnd
         \/ pc' = "extent" /\ cursor' = hi
         \/ pc' \in {"read", "decode"} /\ extent'.base = hi
  PROVE  ExactInv'
<1>0. pc \in Inside /\ pc # "Vs" /\ pc' # "region" /\ pc' # "Vs" /\ pc' \in {"leave", "extent", "read", "decode"}
  BY Zenon DEF Inside
<1>1. /\ r \in Nat \ {0} /\ RegionOk(target, Region) /\ ~Named(Region) /\ RegionEnd = EndOf(Region)
      /\ Kind(Region) # "Vs" => vs.covered = Region.address
      /\ dec.refused = 0 /\ DOMAIN vs = {"next", "covered"}
      /\ snap.complete => snap.refused = 0 /\ FoundNow(Holds(snap.spans, r))
  BY <1>0, ExactFacts, Zenon
<1>2. Region' = Region
  BY Zenon DEF Region
<1>3. Adds(snap, snap', {}) /\ snap'.refused = snap.refused /\ (snap'.complete => Clear(target, vs, lo, hi) /\ snap.complete)
  BY Zenon DEF Passed, Adds
<1>4. DecOk'
  <2>1. DOMAIN dec = DecFields /\ dec.refused \in Nat /\ snap.refused \in Nat
    BY Zenon DEF ExactInv, DecOk
  <2>2. pc' \notin {"Lfh", "Segment", "special", "Vs"}
    BY <1>0, Zenon
  <2> QED  BY <1>0, <1>1, <1>2, <1>3, <2>1, <2>2, Zenon DEF DecOk
<1>5. ASSUME snap'.complete PROVE FoundNow(Holds(snap.spans, r))'
  <2> DEFINE found == Holds(snap.spans, r)
  <2>1. Holds(snap'.spans, r) = found
    BY <1>3, PassedHolds, Zenon
  <2>2. Front(target, Region, found, vs, lo)
    BY <1>0, <1>1, <1>3, <1>5, Zenon DEF FoundNow
  <2>3. Front(target, Region, found, vs, hi)
    BY <1>1, <1>3, <1>5, <2>2, FrontMoves, Zenon
  <2> HIDE DEF found
  <2>4. hi = RegionEnd => found = Region.truth
    <3> SUFFICES ASSUME hi = RegionEnd PROVE found = Region.truth
      BY Zenon
    <3>1. Front(target, Region, found, vs, EndOf(Region))
      BY <1>1, <2>3, Zenon
    <3> QED  BY <1>1, <3>1, FrontDone, Zenon
  <2>5. pc' \notin {"Lfh", "Segment", "special", "Vs"} /\ (pc' = "leave" => hi = RegionEnd) /\ (pc' = "extent" => cursor' = hi)
        /\ (pc' \in {"read", "decode"} => extent'.base = hi)
    BY <1>0, Zenon
  <2> QED  BY <1>2, <2>1, <2>3, <2>4, <2>5, Zenon DEF FoundNow, found
<1>6. ASSUME snap'.refused = 0 /\ dec'.refused = 0 PROVE Linked'
  <2>1. Kind(Region) = "Vs" => vs.next \in Heads(Region) \cup {NoAddress}
    BY <1>0, <1>1, <1>3, <1>6, Zenon DEF ExactInv, Chained, Linked
  <2> QED  BY <1>0, <1>2, <2>1, Zenon DEF Linked
<1>7. (snap'.complete => snap'.refused = 0) /\ dec'.refused = 0
  BY <1>1, <1>3, Zenon
<1>8. snap'.refused = 0 /\ dec'.refused = 0 => snap.refused = 0 /\ dec.refused = 0
  BY <1>1, <1>3, Zenon
<1>9. \A x \in {} : \E b \in Region.truth : Within(x, b)
  BY Zenon
<1> QED  BY <1>0, <1>1, <1>3, <1>4, <1>5, <1>6, <1>7, <1>8, <1>9, ExactStep, Zenon

-----------------------------------------------------------------------------
(* Regions. *)

\* Nothing is found before the walk begins.
LEMMA ExactInit == ASSUME Init PROVE ExactInv
<1>1. /\ pc = "region" /\ r = 1 /\ dec = FreshDecoder /\ snap.spans = {} /\ snap.refused = 0
  BY DEF Init
<1>2. pc \notin Inside /\ pc \notin {"Lfh", "Segment", "special", "Vs", "leave", "extent", "read", "decode"}
  BY <1>1, Zenon DEF Inside
<1>3. DOMAIN dec = DecFields /\ dec.refused = 0
  BY <1>1, Zenon DEF FreshDecoder, DecFields
<1>4. DecOk
  BY <1>1, <1>2, <1>3 DEF DecOk
<1>5. Told
  <2>1. 1 .. r - 1 = {}
    BY <1>1
  <2>2. FoundNow(Holds(snap.spans, r))
    BY <1>2, Zenon DEF FoundNow
  <2> QED  BY <1>1, <1>3, <2>1, <2>2, Zenon DEF Told
<1>6. Chained
  BY <1>2, Zenon DEF Chained, Linked
<1>7. NothingInvented
  BY <1>1, Zenon DEF NothingInvented
<1> QED  BY <1>4, <1>5, <1>6, <1>7, Zenon DEF ExactInv

\* The clock and the operator find nothing.
LEMMA ClockExact ==
  ASSUME ExactInv, target' = target, pc' = pc, r' = r, cursor' = cursor, vs' = vs, extent' = extent, dec' = dec, snap' = snap
  PROVE  ExactInv'
<1>1. DecOk'
  <2>1. DecOk
    BY Zenon DEF ExactInv
  <2> QED  BY <2>1, Zenon DEF DecOk, Region, SlotAddress
<1>2. Told'
  BY Zenon DEF ExactInv, Told, FoundNow, Region, SlotAddress
<1>3. Chained'
  BY Zenon DEF ExactInv, Chained, Linked, Region
<1>4. NothingInvented'
  BY Zenon DEF ExactInv, NothingInvented, Within
<1> QED  BY <1>1, <1>2, <1>3, <1>4, Zenon DEF ExactInv

\* What the walk's place is outside the regions.
LEMMA RIsNumber == ASSUME WalkInv PROVE r \in Nat \ {0} /\ Len(target.regions) \in Nat
<1>1. Len(target.regions) \in Nat
  BY KnownFacts, Zenon DEF WalkInv
<1>2. r \in 1 .. Len(target.regions) + 1
  BY Zenon DEF WalkInv, Control
<1> QED  BY <1>1, <1>2

\* A walk that ends keeps what it found.
LEMMA EndExact ==
  ASSUME WalkInv, ExactInv, pc # "Vs", target' = target, r' = r, dec' = dec, pc' \in {"finish", "done", "failed"},
         snap'.spans = snap.spans, snap'.refused = snap.refused, snap'.complete => snap.complete
  PROVE  ExactInv'
<1>1. pc' \notin Inside /\ pc' # "region" /\ pc' \notin {"Lfh", "Segment", "special", "Vs", "leave", "extent", "read", "decode"}
  BY Zenon DEF Inside
<1>2. DOMAIN dec = DecFields /\ dec.refused = 0 /\ snap.refused \in Nat /\ (snap.complete => snap.refused = 0)
  BY Zenon DEF ExactInv, DecOk, Told
<1>3. DecOk'
  <2>1. dec.refused \in Nat
    BY <1>2
  <2> QED  BY <1>1, <1>2, <2>1, Zenon DEF DecOk
<1>4. Adds(snap, snap', {})
  BY Zenon DEF Adds
<1>5. FoundNow(Holds(snap.spans, r))' /\ Linked'
  BY <1>1, Zenon DEF FoundNow, Linked
<1> QED  BY <1>1, <1>2, <1>3, <1>4, <1>5, RIsNumber, ExactStep, Zenon

\* The end of the walk, and a poll that stops it.
LEMMA FinishExact == ASSUME WalkInv, ExactInv, Finish \/ Halt \/ PollFails PROVE ExactInv'
<1>1. target' = target /\ r' = r /\ dec' = dec /\ pc' \in {"finish", "done", "failed"}
  BY Zenon DEF Finish, Halt, PollFails
<1>2. pc # "Vs"
  BY Zenon DEF Finish, Halt, PollFails, Polls
<1>3. snap' = snap \/ snap' = [misses(snap) EXCEPT !.budget_expired = TRUE]
  BY Zenon DEF Finish, Halt, PollFails
<1>4. snap'.spans = snap.spans /\ snap'.refused = snap.refused /\ (snap'.complete => snap.complete)
  <2>1. DOMAIN snap = SnapFields
    BY Zenon DEF WalkInv, SnapOk
  <2>2. /\ DOMAIN misses(snap) = SnapFields /\ misses(snap).spans = snap.spans /\ misses(snap).refused = snap.refused
        /\ misses(snap).complete = FALSE
    BY <2>1, SaysFacts, Zenon
  <2> QED  BY <1>3, <2>2, Zenon DEF SnapFields
<1> QED  BY <1>1, <1>2, <1>4, EndExact, Zenon

\* A region that is left was found whole, or the snapshot is not complete.
LEMMA LeaveExact == ASSUME WalkInv, ExactInv, LeaveRegion PROVE ExactInv'
<1>1. /\ target' = target /\ dec' = dec /\ snap' = snap /\ pc \in {"leave", "extent"} /\ pc # "Vs"
      /\ pc = "extent" => cursor >= RegionEnd
  BY Zenon DEF LeaveRegion
<1>2. CASE snap.stopped # 0
  <2>1. pc' = "finish" /\ r' = r
    BY <1>2, Zenon DEF LeaveRegion, match_limit_reached
  <2>2. pc' \in {"finish", "done", "failed"}
    BY <2>1, Zenon
  <2> QED  BY <1>1, <2>1, <2>2, EndExact, Zenon
<1>3. CASE snap.stopped = 0
  <2>1. pc' = "region" /\ r' = r + 1
    BY <1>3, Zenon DEF LeaveRegion, match_limit_reached
  <2>2. pc' \notin Inside /\ pc' \notin {"Lfh", "Segment", "special", "Vs", "leave", "extent", "read", "decode"}
    BY <2>1, Zenon DEF Inside
  <2>3. DOMAIN dec = DecFields /\ dec.refused = 0 /\ dec.refused \in Nat /\ snap.refused \in Nat
    BY <1>1, Zenon DEF ExactInv, DecOk
  <2>4. DecOk'
    BY <1>1, <2>2, <2>3, Zenon DEF DecOk
  <2>5. Chained'
    BY <2>2, Zenon DEF Chained, Linked
  <2>6. NothingInvented'
    BY <1>1, Zenon DEF ExactInv, NothingInvented, Within
  <2>7. r \in Nat \ {0}
    BY RIsNumber, Zenon
  <2>8. ASSUME snap.complete PROVE Holds(snap.spans, r) = Region.truth
    <3>1. CASE pc = "leave"
      BY <2>8, <3>1, Zenon DEF ExactInv, Told, FoundNow
    <3>2. CASE pc = "extent"
      <4>1. pc \in Inside
        BY <3>2, Zenon DEF Inside
      <4>2. /\ RegionOk(target, Region) /\ ~Named(Region) /\ RegionEnd = EndOf(Region) /\ cursor \in Nat /\ RegionEnd \in Nat
            /\ cursor <= RegionEnd /\ FoundNow(Holds(snap.spans, r))
        BY <2>8, <4>1, ExactFacts, Zenon
      <4>3. cursor = RegionEnd
        BY <1>1, <3>2, <4>2
      <4>4. Front(target, Region, Holds(snap.spans, r), vs, EndOf(Region))
        BY <3>2, <4>2, <4>3, Zenon DEF FoundNow
      <4> QED  BY <4>2, <4>4, FrontDone, Zenon
    <3> QED  BY <1>1, <3>1, <3>2, Zenon
  <2>9. Told'
    <3>1. \A s \in snap.spans : s.region \in 1 .. r
      BY Zenon DEF ExactInv, Told
    <3>2. \A i \in 1 .. r : i \in 1 .. r + 1 /\ i < r + 1
      BY <2>7
    <3>3. \A i \in 1 .. (r + 1) - 1 : i \in 1 .. r - 1 \/ i = r
      BY <2>7
    <3>4. snap.complete => \A i \in 1 .. r - 1 : Holds(snap.spans, i) = target.regions[i].truth
      BY Zenon DEF ExactInv, Told
    <3>5. snap.complete => \A i \in 1 .. (r + 1) - 1 : Holds(snap.spans, i) = target.regions[i].truth
      BY <2>8, <3>3, <3>4, Zenon DEF Region
    <3>6. FoundNow(Holds(snap.spans, r))'
      BY <2>2, Zenon DEF FoundNow
    <3>7. snap.complete => snap.refused = 0 /\ dec.refused = 0
      BY Zenon DEF ExactInv, Told
    <3> QED  BY <1>1, <2>1, <3>1, <3>2, <3>5, <3>6, <3>7, Zenon DEF Told
  <2> QED  BY <2>4, <2>5, <2>6, <2>9, Zenon DEF ExactInv
<1> QED  BY <1>2, <1>3, Zenon

\* A region is begun with nothing found, unless it is named.
LEMMA BeginRegionExact == ASSUME WalkInv, ExactInv, BeginRegion PROVE ExactInv'
<1>1. target' = target /\ r' = r /\ dec' = dec /\ pc = "region" /\ r <= Len(target.regions) /\ pc # "Vs"
  BY Zenon DEF BeginRegion
<1>2. r \in Nat \ {0} /\ Len(target.regions) \in Nat
  BY RIsNumber, Zenon
<1>3. r \in 1 .. Len(target.regions)
  BY <1>1, <1>2
<1>4. /\ RegionOk(target, Region) /\ Region.address \in Nat /\ Region.size \in Nat /\ EndOf(Region) = Region.address + Region.size
  BY <1>3, RegionFacts, Zenon DEF WalkInv, EndOf
<1>5. Region' = Region
  BY <1>1, Zenon DEF Region
<1>6. DOMAIN dec = DecFields /\ dec.refused = 0 /\ dec.refused \in Nat /\ snap.refused \in Nat
  BY <1>1, Zenon DEF ExactInv, DecOk
<1>7. Holds(snap.spans, r) = {}
  <2>1. \A x \in snap.spans : x.region \in 1 .. r /\ x.region < r
    BY <1>1, Zenon DEF ExactInv, Told
  <2>2. \A x \in snap.spans : x.region # r
    BY <1>2, <2>1
  <2> QED  BY <2>2, Zenon DEF Holds
<1>8. snap.complete => snap.refused = 0
  BY Zenon DEF ExactInv, Told
<1>9. DOMAIN snap = SnapFields /\ snap.complete \in BOOLEAN
  BY Zenon DEF WalkInv, SnapOk
<1>10. CASE Named(Region)
  <2>1. snap' = (IF Region.size = 0 THEN snap ELSE record_span(snap, NamedSpan)) /\ pc' = "leave"
    BY <1>10, Zenon DEF BeginRegion
  <2>2. pc' # "region" /\ pc' \notin Inside /\ pc' \notin {"Lfh", "Segment", "special", "Vs", "extent", "read", "decode"}
    BY <2>1, Zenon DEF Inside
  <2>3. WholeOk(Region, 0, Region.known)
    BY <1>4, <1>10, Zenon DEF RegionOk
  <2>4. /\ NamedSpan.region = r /\ NamedSpan.state = Region.state /\ NamedSpan.end = EndOf(Region) /\ NamedSpan.end \in Nat
        /\ Described(NamedSpan) = Block(Region.address + 0, EndOf(Region), Region.known)
    <3>1. Region.address + 0 = Region.address /\ EndOf(Region) \in Nat
      BY <1>4
    <3>2. /\ NamedSpan.region = r /\ NamedSpan.state = Region.state /\ NamedSpan.end = Region.address + Region.size
          /\ Described(NamedSpan) = Block(Region.address, Region.address + Region.size, Region.known)
      BY Zenon DEF NamedSpan, base_span, Described, Block
    <3> QED  BY <1>4, <3>1, <3>2, Zenon
  <2> DEFINE new == IF Region.size = 0 THEN {} ELSE Allocation(NamedSpan)
  <2>5. Adds(snap, snap', new) /\ snap'.refused = snap.refused
    <3>1. CASE Region.size = 0
      BY <2>1, <3>1, Zenon DEF Adds
    <3>2. CASE Region.size # 0
      BY <1>9, <2>1, <2>4, <3>2, RecordAdds, Zenon
    <3> QED  BY <3>1, <3>2, Zenon
  <2>6. {Described(x) : x \in new} = Region.truth /\ \A x \in new : \E b \in Region.truth : Within(x, b)
    <3>0. Region.size > 0 <=> Region.size # 0
      BY <1>4
    <3>1. CASE Region.size # 0 /\ Region.state = "Allocated"
      <4>1. Region.truth = {Described(NamedSpan)}
        BY <2>3, <2>4, <3>0, <3>1, Zenon DEF WholeOk
      <4>2. new = {NamedSpan} /\ {Described(x) : x \in new} = {Described(NamedSpan)}
        BY <2>4, <3>1, AllocationIs, Zenon
      <4> QED  BY <2>4, <4>1, <4>2, WithinItself, Zenon
    <3>2. CASE ~(Region.size # 0 /\ Region.state = "Allocated")
      <4>1. Region.truth = {}
        BY <2>3, <3>0, <3>2, Zenon DEF WholeOk
      <4>2. new = {}
        BY <2>4, <3>2, AllocationIs, Zenon
      <4> QED  BY <4>1, <4>2, Zenon
    <3> QED  BY <3>1, <3>2, Zenon
  <2> HIDE DEF new
  <2>7. DecOk'
    BY <1>1, <1>6, <2>2, <2>5, Zenon DEF DecOk
  <2>8. Holds(snap'.spans, r) = Region.truth
    <3>1. Holds(snap'.spans, r) = Holds(snap.spans, r) \cup {Described(x) : x \in new}
      BY <2>5, AddsHolds, Zenon
    <3> QED  BY <1>7, <2>6, <3>1, Zenon
  <2>9. FoundNow(Holds(snap.spans, r))' /\ Linked'
    BY <1>1, <1>5, <2>2, <2>8, Zenon DEF FoundNow, Linked
  <2>10. snap'.complete => snap.complete
    BY <2>5, Zenon DEF Adds
  <2> QED  BY <1>1, <1>2, <1>6, <1>8, <2>2, <2>5, <2>6, <2>7, <2>9, <2>10, ExactStep, Zenon
<1>11. CASE ~Named(Region)
  <2>1. cursor' = Region.address /\ vs' = [next |-> Region.address, covered |-> Region.address] /\ pc' = "extent" /\ snap' = snap
    BY <1>11, Zenon DEF BeginRegion
  <2>2. pc' # "region" /\ pc' # "leave" /\ pc' \in Inside /\ pc' \notin {"Lfh", "Segment", "special", "Vs", "read", "decode"}
    BY <2>1, Zenon DEF Inside
  <2>3. DOMAIN vs' = {"next", "covered"} /\ vs'.next = Region.address /\ vs'.covered = Region.address
    BY <2>1, Zenon
  <2>4. DecOk'
    BY <1>1, <1>5, <1>6, <1>11, <2>1, <2>2, <2>3, Zenon DEF DecOk
  <2>5. Adds(snap, snap', {})
    BY <2>1, Zenon DEF Adds
  <2>6. Front(target, Region, {}, vs', Region.address)
    BY <1>4, <1>11, <2>3, FrontStart, Zenon
  <2>7. FoundNow(Holds(snap.spans, r))'
    BY <1>1, <1>5, <1>7, <2>1, <2>2, <2>6, Zenon DEF FoundNow
  <2>8. Linked'
    <3>1. Kind(Region) = "Vs" => Region.address \in Heads(Region)
      BY <1>4, <1>11, HeadFacts, Zenon
    <3> QED  BY <1>5, <2>2, <2>3, <3>1, Zenon DEF Linked
  <2>9. \A x \in {} : \E b \in Region.truth : Within(x, b)
    BY Zenon
  <2> QED  BY <1>1, <1>2, <1>6, <1>8, <2>1, <2>2, <2>4, <2>5, <2>7, <2>8, <2>9, ExactStep, Zenon
<1> QED  BY <1>10, <1>11, Zenon

-----------------------------------------------------------------------------
(* Slots of one size. *)

\* A decoder of slots or pages is done with its extent, or goes on in it.
DoneSlots == AfterExtent(snap') /\ (snap'.complete => Front(target, Region, Holds(snap'.spans, r), vs, extent.end))
MoreSlots ==
  /\ pc' = Kind(Region) /\ dec'.pos \in Nat
  /\ pc' = "Lfh" => Region.pool <= Region.unit /\ Region.address + dec'.pos * Region.unit < extent.end + Region.unit
  /\ pc' = "special" => dec'.pos % Page = 0 /\ dec'.pos <= extent.end
  /\ snap'.complete => FoundNow(Holds(snap.spans, r))'

\* Such a step, of which new are the allocations.
SlotsGo(new) ==
  /\ pc \in {"decode", "Lfh", "Segment", "special"} /\ Kind(Region) # "Vs" /\ KeepExtent
  /\ DOMAIN dec' = DecFields /\ dec'.refused = 0
  /\ Adds(snap, snap', new) /\ snap'.refused = snap.refused
  /\ \A x \in new : \E b \in Region.truth : Within(x, b)
  /\ DoneSlots \/ MoreSlots

\* Such a step keeps the walk exact.
LEMMA SlotStep ==
  ASSUME WalkInv, WalkInv', ExactInv, NEW new, SlotsGo(new)
  PROVE  ExactInv'
<1>g. /\ pc \in {"decode", "Lfh", "Segment", "special"} /\ Kind(Region) # "Vs" /\ KeepExtent
      /\ DOMAIN dec' = DecFields /\ dec'.refused = 0
      /\ Adds(snap, snap', new) /\ snap'.refused = snap.refused
      /\ \A x \in new : \E b \in Region.truth : Within(x, b)
      /\ DoneSlots \/ MoreSlots
  BY Zenon DEF SlotsGo
<1>0. pc \in Inside /\ pc # "Vs"
  BY <1>g, Zenon DEF Inside
<1>1. /\ r \in Nat \ {0} /\ RegionOk(target, Region) /\ ~Named(Region) /\ vs.covered = Region.address
      /\ DOMAIN vs = {"next", "covered"} /\ dec.refused = 0 /\ snap.refused \in Nat
      /\ snap.complete => snap.refused = 0
  BY <1>g, <1>0, ExactFacts, Zenon
<1>2. target' = target /\ r' = r /\ vs' = vs /\ extent' = extent /\ Region' = Region
  BY <1>g, KeptByDecoders, Zenon DEF Region
<1>3. snap'.complete => snap.complete
  BY <1>g, Zenon DEF Adds
<1>4. Kind(Region) \in {"special", "Segment", "Lfh"}
  <2>1. Kind(Region) \in {"special", "Segment", "Lfh", "Vs"}
    BY <1>g, <1>1, KindFacts, Zenon
  <2> QED  BY <1>g, <2>1, Zenon
<1>5. dec'.refused \in Nat
  BY <1>g
<1>6. snap'.stopped # 0 => ~snap'.complete
  BY <1>g, Zenon DEF WalkInv, SnapOk
<1>7. CASE DoneSlots
  <2>1. (pc' = "leave" /\ snap'.stopped # 0) \/ (pc' = "extent" /\ cursor' = extent.end)
    BY <1>g, <1>7, Zenon DEF DoneSlots, AfterExtent, match_limit_reached
  <2>2. pc' # "region" /\ pc' \notin {"Lfh", "Segment", "special", "Vs", "read", "decode"}
    BY <1>g, <2>1, Zenon
  <2>3. DecOk'
    BY <1>g, <1>1, <1>2, <1>5, <2>2, Zenon DEF DecOk
  <2>4. Linked'
    BY <1>g, <1>2, <2>2, Zenon DEF Linked
  <2>5. snap'.complete => FoundNow(Holds(snap.spans, r))'
    BY <1>g, <1>2, <1>6, <1>7, <2>1, <2>2, Zenon DEF FoundNow, DoneSlots
  <2> QED  BY <1>g, <1>1, <1>2, <1>3, <2>2, <2>3, <2>4, <2>5, ExactStep, Zenon
<1>8. CASE MoreSlots
  <2>1. pc' # "region" /\ pc' # "Vs" /\ pc' \notin {"extent", "read", "decode"}
    BY <1>g, <1>4, <1>8, Zenon DEF MoreSlots
  <2>2. DecOk'
    BY <1>g, <1>1, <1>2, <1>5, <1>8, <2>1, Zenon DEF DecOk, SlotAddress, MoreSlots
  <2>3. Linked'
    BY <1>g, <2>1, Zenon DEF Linked
  <2>4. snap'.complete => FoundNow(Holds(snap.spans, r))'
    BY <1>g, <1>8, Zenon DEF MoreSlots
  <2> QED  BY <1>g, <1>1, <1>2, <1>3, <2>1, <2>2, <2>3, <2>4, ExactStep, Zenon
<1> QED  BY <1>g, <1>7, <1>8, Zenon

\* What is known where an extent is decoded.
LEMMA ExtentFacts ==
  ASSUME WalkInv, ExactInv, pc \in Decoding
  PROVE  /\ pc \in Inside /\ DOMAIN dec = DecFields
         /\ extent.base \in Nat /\ extent.end \in Nat /\ Region.address <= extent.base /\ extent.base < extent.end
         /\ extent.end <= EndOf(Region) /\ Edge(Region, extent.base) /\ Edge(Region, extent.end)
         /\ \A u \in extent.base .. extent.end - 1 : PageOf(u) \in target.readable
         /\ extent.end = EndOf(Region) \/ PageOf(extent.end) \notin target.readable
<1>1. pc \in Inside /\ pc \in Inside \ {"extent"}
  BY Zenon DEF Inside, Decoding
<1>2. ExtentOk(target, Region, cursor, extent) /\ DOMAIN dec = DecFields
  BY <1>1, Zenon DEF WalkInv, Place, ExactInv, DecOk
<1>3. cursor \in Nat /\ Region.address \in Nat /\ Region.address <= cursor
  BY <1>1, InsideFacts, Zenon
<1>4. cursor <= extent.base /\ extent.base \in Nat
  BY <1>2, Zenon DEF ExtentOk
<1>5. Region.address <= extent.base
  BY <1>3, <1>4
<1> QED  BY <1>1, <1>2, <1>5, Zenon DEF ExtentOk

\* LFH slots are begun at the first whole one of an extent, and none ends before it.
LEMMA BeginLfhExact == ASSUME WalkInv, WalkInv', ExactInv, BeginLfh PROVE ExactInv'
<1>1. pc = "decode" /\ Decoder = "Lfh" /\ KeepExtent
  BY Zenon DEF BeginLfh
<1>2. pc \in Decoding /\ pc \in {"decode", "Lfh", "Segment", "special"} /\ pc \in Inside /\ pc # "Vs"
  BY <1>1, Zenon DEF Decoding, Inside
<1>3. /\ RegionOk(target, Region) /\ ~Named(Region) /\ Kind(Region) = "Lfh" /\ DOMAIN snap = SnapFields
      /\ dec.refused = 0
      /\ snap.complete => FoundNow(Holds(snap.spans, r))
  BY <1>1, <1>2, ExactFacts, Zenon
<1>4. /\ extent.base \in Nat /\ extent.end \in Nat /\ Region.address <= extent.base /\ extent.base < extent.end
      /\ Edge(Region, extent.base) /\ DOMAIN dec = DecFields
  BY <1>2, ExtentFacts, Zenon
<1>5. Region.address \in Nat /\ Region.unit \in Nat \ {0} /\ Region.pool \in Nat
  <2>1. Region.address \in Nat /\ Region.unit \in Nat /\ Region.pool \in Nat /\ SlotsOk(Region)
    BY <1>3, KindFacts, Zenon
  <2>2. Region.unit > 0
    BY <2>1, Zenon DEF SlotsOk
  <2> QED  BY <2>1, <2>2
<1>6. Kind(Region) # "Vs" /\ \A x \in {} : \E b \in Region.truth : Within(x, b)
  BY <1>3, Zenon
<1>7. CASE Region.unit < Region.pool
  <2>1. snap' = misses(snap) /\ AfterExtent(snap') /\ dec' = dec
    BY <1>7, Zenon DEF BeginLfh
  <2>2. snap'.spans = snap.spans /\ snap'.complete = FALSE /\ snap'.refused = snap.refused
    BY <1>3, <2>1, SaysFacts, Zenon
  <2>3. Adds(snap, snap', {})
    BY <2>2, Zenon DEF Adds
  <2>4. DoneSlots
    BY <2>1, <2>2, Zenon DEF DoneSlots
  <2>5. DOMAIN dec' = DecFields /\ dec'.refused = 0
    BY <1>3, <1>4, <2>1, Zenon
  <2>6. SlotsGo({})
    BY <1>1, <1>2, <1>6, <2>2, <2>3, <2>4, <2>5, Zenon DEF SlotsGo
  <2> QED  BY <2>6, SlotStep, Zenon
<1>8. CASE ~(Region.unit < Region.pool)
  <2> DEFINE s == FirstSlot
  <2>1. dec' = [FreshDecoder EXCEPT !.pos = s] /\ snap' = snap /\ cursor' = cursor /\ pc' = "Lfh"
    BY <1>8, Zenon DEF BeginLfh
  <2>2. s = SlotsUpTo(extent.base - Region.address, Region.unit)
    <3>1. Most(Region.unit, 1) = Region.unit
      BY <1>5 DEF Most
    <3> QED  BY <3>1, Zenon DEF FirstSlot
  <2>3. /\ s \in Nat /\ Region.address + s * Region.unit >= extent.base /\ Region.address + s * Region.unit < extent.base + Region.unit
    BY <1>4, <1>5, <2>2, FirstSlotFacts, Zenon
  <2> HIDE DEF s
  <2>4. DOMAIN dec' = DecFields /\ dec'.refused = 0 /\ dec'.pos = s
    BY <2>1, Zenon DEF FreshDecoder, DecFields
  <2>5. s * Region.unit \in Nat
    BY <1>5, <2>3, Multiples, Zenon
  <2>6. /\ Region.pool <= Region.unit /\ Region.address + s * Region.unit < extent.end + Region.unit
        /\ Region.address + s * Region.unit + Region.unit > extent.base
    BY <1>4, <1>5, <1>8, <2>3, <2>5
  <2>7. EndedBy(Region, Region.address + s * Region.unit) = EndedBy(Region, extent.base)
    BY <1>3, <1>4, <2>3, <2>6, SlotsPassed, Zenon
  <2>8. target' = target /\ r' = r /\ Region' = Region
    BY <1>1, KeptByDecoders, Zenon DEF Region
  <2>9. ASSUME snap'.complete PROVE FoundNow(Holds(snap.spans, r))'
    <3>1. Front(target, Region, Holds(snap.spans, r), vs, extent.base)
      BY <1>2, <1>3, <2>1, <2>9, <1>1, Zenon DEF FoundNow
    <3>2. Holds(snap.spans, r) = EndedBy(Region, extent.base)
      BY <1>3, <3>1, Zenon DEF Front
    <3>3. pc' \notin {"leave", "extent", "read", "decode", "Segment", "special", "Vs"}
      BY <2>1, Zenon
    <3>4. SlotAddress(Region.unit)' = Region.address + s * Region.unit
      BY <2>4, <2>8, Zenon DEF SlotAddress
    <3> QED  BY <2>1, <2>7, <2>8, <3>2, <3>3, <3>4, Zenon DEF FoundNow
  <2>10. Adds(snap, snap', {}) /\ snap'.refused = snap.refused
    BY <2>1, Zenon DEF Adds
  <2>11. pc' # "special"
    BY <2>1, Zenon
  <2>12. MoreSlots
    BY <1>3, <2>1, <2>3, <2>4, <2>6, <2>9, <2>11, Zenon DEF MoreSlots
  <2>13. SlotsGo({})
    BY <1>1, <1>2, <1>6, <2>4, <2>10, <2>12, Zenon DEF SlotsGo
  <2> QED  BY <2>13, SlotStep, Zenon
<1> QED  BY <1>7, <1>8, Zenon

\* A slot is recorded as the bitmap has it.
LEMMA LfhSlotExact == ASSUME WalkInv, WalkInv', ExactInv, LfhSlot PROVE ExactInv'
<1>1. pc = "Lfh" /\ KeepExtent
  BY Zenon DEF LfhSlot
<1>2. pc \in Decoding /\ pc \in {"decode", "Lfh", "Segment", "special"} /\ pc \in Inside /\ pc # "Vs"
  BY <1>1, Zenon DEF Decoding, Inside
<1>3. /\ RegionOk(target, Region) /\ ~Named(Region) /\ DOMAIN snap = SnapFields /\ snap.complete \in BOOLEAN
      /\ dec.refused = 0
      /\ snap.complete => FoundNow(Holds(snap.spans, r))
  BY <1>2, ExactFacts, Zenon
<1>4. /\ extent.end \in Nat /\ extent.end <= EndOf(Region) /\ Edge(Region, extent.end) /\ DOMAIN dec = DecFields
  BY <1>2, ExtentFacts, Zenon
<1> DEFINE p == dec.pos
           unit == Region.unit
           a == Region.address + p * unit
           span == base_span(a, a + Region.pool, unit - Region.pool, decode_pool_header(a),
                             IF Region.bitmap[p] THEN "Allocated" ELSE "ReusableFree")
<1>5. Kind(Region) = "Lfh" /\ p \in Nat /\ Region.pool <= unit /\ a < extent.end + unit /\ SlotAddress(unit) = a
  BY <1>1, Zenon DEF ExactInv, DecOk, SlotAddress
<1>6. /\ Region.address \in Nat /\ unit \in Nat /\ unit > 0 /\ Region.pool \in Nat /\ EndOf(Region) = Region.address + Region.size
      /\ Region.size \in Nat /\ SlotsOk(Region)
  BY <1>3, <1>5, KindFacts, Zenon DEF SlotsOk, EndOf
<1>7. a \in Nat /\ p * unit \in Nat /\ (p + 1) * unit = p * unit + unit
  <2>1. p * unit \in Nat /\ (p + 1) * unit = p * unit + unit
    BY <1>5, <1>6, Multiples, Zenon
  <2> QED  BY <1>6, <2>1
<1>8. target' = target /\ r' = r /\ Region' = Region
  BY <1>1, KeptByDecoders, Zenon DEF Region
<1>9. snap.complete => Holds(snap.spans, r) = EndedBy(Region, a)
  BY <1>1, <1>3, <1>5, Zenon DEF FoundNow
<1>10. /\ EndedBy(Region, Region.address + (p + 1) * unit) = EndedBy(Region, a) \cup ({SlotBlock(Region, p)} \cap Region.truth)
       /\ SlotBlock(Region, p) \in Region.truth => p \in Whole(Region) /\ (p \in DOMAIN Region.bitmap => Region.bitmap[p])
  BY <1>3, <1>5, SlotNext, Zenon
<1>11. \/ /\ a + unit > extent.end /\ AfterExtent(snap) /\ snap' = snap /\ dec' = dec
       \/ /\ a + unit <= extent.end /\ straddles(a, unit)
          /\ dec' = [dec EXCEPT !.pos = @ + 1] /\ pc' = pc /\ snap' = snap
       \/ /\ a + unit <= extent.end /\ ~straddles(a, unit)
          /\ snap' = misses(snap) /\ AfterExtent(snap') /\ dec' = dec
       \/ /\ a + unit <= extent.end /\ ~straddles(a, unit) /\ p \in DOMAIN Region.bitmap
          /\ snap' = record_span(snap, span)
          /\ \/ match_limit_reached(snap') /\ AfterExtent(snap') /\ dec' = dec
             \/ dec' = [dec EXCEPT !.pos = @ + 1] /\ pc' = pc
  BY <1>5, Zenon DEF LfhSlot
<1> HIDE DEF p, unit, a, span
<1>12. Kind(Region) # "Vs" /\ \A x \in {} : \E b \in Region.truth : Within(x, b)
  BY <1>5, Zenon
<1>13. ASSUME dec' = [dec EXCEPT !.pos = @ + 1], pc' = pc, a + unit <= extent.end,
              snap'.complete => Holds(snap'.spans, r) = EndedBy(Region, Region.address + (p + 1) * unit)
       PROVE  MoreSlots /\ DOMAIN dec' = DecFields /\ dec'.refused = 0
  <2>1. DOMAIN dec' = DecFields /\ dec'.refused = 0 /\ dec'.pos = p + 1
    BY <1>3, <1>4, <1>13, Zenon DEF DecFields, p
  <2>2. dec'.pos \in Nat
    BY <1>5, <2>1
  <2>3. Region.address + dec'.pos * unit < extent.end + unit
    <3>1. Region.address + (p + 1) * unit = a + unit
      BY <1>6, <1>7 DEF a
    <3>2. a + unit < extent.end + unit
      BY <1>4, <1>6, <1>7, <1>13
    <3> QED  BY <2>1, <3>1, <3>2, Zenon
  <2>4. pc' = "Lfh" /\ pc' \notin {"leave", "extent", "read", "decode", "Segment", "special", "Vs"}
    BY <1>1, <1>13, Zenon
  <2>5. SlotAddress(Region.unit)' = Region.address + (p + 1) * unit
    BY <1>8, <2>1, Zenon DEF SlotAddress, unit
  <2>6. snap'.complete => FoundNow(Holds(snap.spans, r))'
    BY <1>8, <1>13, <2>4, <2>5, Zenon DEF FoundNow
  <2>7. pc' # "special"
    BY <2>4, Zenon
  <2> QED  BY <1>5, <2>1, <2>2, <2>3, <2>4, <2>6, <2>7, Zenon DEF MoreSlots, unit
<1>14. CASE a + unit > extent.end /\ AfterExtent(snap) /\ snap' = snap /\ dec' = dec
  <2>1. EndedBy(Region, a) = EndedBy(Region, extent.end)
    BY <1>3, <1>4, <1>5, <1>14, SlotsPassed, Zenon DEF a, unit
  <2>2. snap'.complete => Front(target, Region, Holds(snap'.spans, r), vs, extent.end)
    <3>1. Kind(Region) # "Vs" /\ Kind(Region) # "Segment"
      BY <1>5, Zenon
    <3> QED  BY <1>9, <1>14, <2>1, <3>1, Zenon DEF Front
  <2>3. DoneSlots
    BY <1>14, <2>2, Zenon DEF DoneSlots
  <2>4. Adds(snap, snap', {})
    BY <1>14, Zenon DEF Adds
  <2>5. SlotsGo({})
    BY <1>1, <1>2, <1>3, <1>4, <1>12, <1>14, <2>3, <2>4, Zenon DEF SlotsGo
  <2> QED  BY <2>5, SlotStep, Zenon
<1>15. CASE /\ a + unit <= extent.end /\ straddles(a, unit)
            /\ dec' = [dec EXCEPT !.pos = @ + 1] /\ pc' = pc /\ snap' = snap
  <2>1. p \notin Whole(Region)
    <3>1. straddles(a, unit)
      BY <1>15, Zenon
    <3> QED  BY <3>1, Zenon DEF Whole, straddles, a, unit
  <2>2. EndedBy(Region, Region.address + (p + 1) * unit) = EndedBy(Region, a)
    BY <1>10, <2>1, Zenon
  <2>3. snap'.complete => Holds(snap'.spans, r) = EndedBy(Region, Region.address + (p + 1) * unit)
    BY <1>9, <1>15, <2>2, Zenon
  <2>4. MoreSlots /\ DOMAIN dec' = DecFields /\ dec'.refused = 0
    BY <1>13, <1>15, <2>3, Zenon
  <2>5. Adds(snap, snap', {})
    BY <1>15, Zenon DEF Adds
  <2>6. SlotsGo({})
    BY <1>1, <1>2, <1>12, <1>15, <2>4, <2>5, Zenon DEF SlotsGo
  <2> QED  BY <2>6, SlotStep, Zenon
<1>16. CASE snap' = misses(snap) /\ AfterExtent(snap') /\ dec' = dec
  <2>1. snap'.spans = snap.spans /\ snap'.complete = FALSE /\ snap'.refused = snap.refused
    BY <1>3, <1>16, SaysFacts, Zenon
  <2>2. Adds(snap, snap', {}) /\ DoneSlots
    BY <1>16, <2>1, Zenon DEF Adds, DoneSlots
  <2>3. SlotsGo({})
    BY <1>1, <1>2, <1>3, <1>4, <1>12, <1>16, <2>1, <2>2, Zenon DEF SlotsGo
  <2> QED  BY <2>3, SlotStep, Zenon
<1>17. CASE /\ a + unit <= extent.end /\ ~straddles(a, unit) /\ p \in DOMAIN Region.bitmap
            /\ snap' = record_span(snap, span)
            /\ \/ match_limit_reached(snap') /\ AfterExtent(snap') /\ dec' = dec
               \/ dec' = [dec EXCEPT !.pos = @ + 1] /\ pc' = pc
  <2>1. p \in Whole(Region)
    <3>1. PageOf(a) = PageOf(a + unit - 1)
      BY <1>17, Zenon DEF straddles
    <3>2. a + unit <= EndOf(Region)
      BY <1>4, <1>6, <1>7, <1>17
    <3>3. p <= Region.size
      <4>1. p * 1 <= p * unit
        BY <1>5, <1>6
      <4> QED  BY <1>5, <1>6, <1>7, <3>2, <4>1 DEF a
    <3>4. p \in 0 .. Region.size
      BY <1>5, <1>6, <3>3
    <3> QED  BY <3>1, <3>2, <3>4, Zenon DEF Whole, a, unit
  <2>2. SlotBlock(Region, p) \in Region.truth <=> Region.bitmap[p]
    <3>1. Region.bitmap[p] => SlotBlock(Region, p) \in Region.truth
      BY <1>5, <1>6, <1>17, <2>1, Zenon DEF SlotsOk, unit
    <3> QED  BY <1>10, <1>17, <3>1, Zenon
  <2>3. /\ span.region = r /\ span.state = (IF Region.bitmap[p] THEN "Allocated" ELSE "ReusableFree")
        /\ span.end = a + Region.pool + (unit - Region.pool)
        /\ Described(span) = Block(a + Region.pool, a + Region.pool + (unit - Region.pool), TagAt(Region, a))
    BY Zenon DEF span, decode_pool_header, base_span, Described, Block
  <2>4. a + Region.pool + (unit - Region.pool) = a + unit /\ a + unit \in Nat
    BY <1>6, <1>7
  <2>5. Described(span) = SlotBlock(Region, p) /\ span.end \in Nat
    BY <2>3, <2>4, Zenon DEF SlotBlock, a, unit
  <2>6. span.state = "Allocated" <=> Region.bitmap[p]
    BY <2>3, Zenon
  <2> DEFINE new == Allocation(span)
  <2>7. {Described(x) : x \in new} = {SlotBlock(Region, p)} \cap Region.truth
    <3>1. CASE Region.bitmap[p]
      <4>1. {Described(x) : x \in new} = {SlotBlock(Region, p)}
        BY <2>5, <2>6, <3>1, AllocationIs, Zenon
      <4> QED  BY <2>2, <3>1, <4>1, Zenon
    <3>2. CASE ~Region.bitmap[p]
      <4>1. {Described(x) : x \in new} = {}
        BY <2>6, <3>2, AllocationIs, Zenon
      <4> QED  BY <2>2, <3>2, <4>1, Zenon
    <3> QED  BY <3>1, <3>2, Zenon
  <2>8. \A x \in new : \E b \in Region.truth : Within(x, b)
    <3>1. CASE Region.bitmap[p]
      <4>1. new = {span} /\ Described(span) \in Region.truth /\ Within(span, Described(span))
        BY <2>2, <2>5, <2>6, <3>1, AllocationIs, WithinItself, Zenon
      <4> HIDE DEF new
      <4> QED  BY <4>1, Zenon
    <3>2. CASE ~Region.bitmap[p]
      <4>1. new = {}
        BY <2>6, <3>2, AllocationIs, Zenon
      <4> HIDE DEF new
      <4> QED  BY <4>1, Zenon
    <3> QED  BY <3>1, <3>2, Zenon
  <2>9. Adds(snap, snap', new) /\ snap'.refused = snap.refused
    BY <1>3, <1>17, <2>3, RecordAdds, Zenon
  <2> HIDE DEF new
  <2>10. snap'.complete => Holds(snap'.spans, r) = EndedBy(Region, Region.address + (p + 1) * unit)
    <3>1. Holds(snap'.spans, r) = Holds(snap.spans, r) \cup {Described(x) : x \in new}
      BY <2>9, AddsHolds, Zenon
    <3>2. snap'.complete => snap.complete
      BY <2>9, Zenon DEF Adds
    <3> QED  BY <1>9, <1>10, <2>7, <3>1, <3>2, Zenon
  <2>11. (DoneSlots \/ MoreSlots) /\ DOMAIN dec' = DecFields /\ dec'.refused = 0
    <3>1. CASE match_limit_reached(snap') /\ AfterExtent(snap') /\ dec' = dec
      <4>1. snap'.stopped # 0 => ~snap'.complete
        BY Zenon DEF WalkInv, SnapOk
      <4> QED  BY <1>3, <1>4, <3>1, <4>1, Zenon DEF DoneSlots, match_limit_reached
    <3>2. CASE dec' = [dec EXCEPT !.pos = @ + 1] /\ pc' = pc
      BY <1>13, <1>17, <2>10, <3>2, Zenon
    <3> QED  BY <1>17, <3>1, <3>2, Zenon
  <2>12. SlotsGo(new)
    BY <1>1, <1>2, <1>12, <2>8, <2>9, <2>11, Zenon DEF SlotsGo
  <2> QED  BY <2>12, SlotStep, Zenon
<1> QED  BY <1>11, <1>14, <1>15, <1>16, <1>17, Zenon

-----------------------------------------------------------------------------
(* Page ranges and verifier special pool. *)

\* A page range is begun at its one slot, or past it; special pool at a page.
LEMMA BeginPagesExact == ASSUME WalkInv, WalkInv', ExactInv, BeginPages PROVE ExactInv'
<1> DEFINE p == IF Region.special THEN NextMultiple(extent.base) ELSE FirstSlot
<1>1. /\ pc = "decode" /\ Decoder \in {"Segment", "special"} /\ KeepExtent /\ pc' = Decoder /\ snap' = snap
      /\ dec' = [FreshDecoder EXCEPT !.pos = p]
  BY Zenon DEF BeginPages
<1>2. pc \in Decoding /\ pc \in {"decode", "Lfh", "Segment", "special"} /\ pc \in Inside /\ pc # "Vs"
  BY <1>1, Zenon DEF Decoding, Inside
<1>3. /\ RegionOk(target, Region) /\ ~Named(Region) /\ Decoder = Kind(Region)
      /\ snap.complete => FoundNow(Holds(snap.spans, r))
  BY <1>2, ExactFacts, Zenon
<1>4. /\ extent.base \in Nat /\ extent.end \in Nat /\ Region.address <= extent.base /\ extent.base < extent.end
      /\ extent.end <= EndOf(Region) /\ Edge(Region, extent.base)
      /\ \A u \in extent.base .. extent.end - 1 : PageOf(u) \in target.readable
  BY <1>2, ExtentFacts, Zenon
<1>5. Kind(Region) \in {"Segment", "special"} /\ Kind(Region) # "Vs" /\ Kind(Region) # "Lfh"
  BY <1>1, <1>3, Zenon
<1>6. /\ Region.address \in Nat /\ Region.size \in Nat /\ Region.unit \in Nat /\ EndOf(Region) = Region.address + Region.size
  BY <1>3, KindFacts, Zenon DEF EndOf
<1>7. target' = target /\ r' = r /\ Region' = Region /\ extent' = extent
  BY <1>1, KeptByDecoders, Zenon DEF Region
<1>8. DOMAIN dec' = DecFields /\ dec'.refused = 0 /\ dec'.pos = p
  BY <1>1, Zenon DEF FreshDecoder, DecFields
<1>9. Adds(snap, snap', {}) /\ snap'.refused = snap.refused /\ \A x \in {} : \E b \in Region.truth : Within(x, b)
  BY <1>1, Zenon DEF Adds
<1>10. snap'.complete => Front(target, Region, Holds(snap.spans, r), vs, extent.base)
  BY <1>1, <1>2, <1>3, Zenon DEF FoundNow
<1>11. MoreSlots
  <2>1. CASE Kind(Region) = "special"
    <3>1. Region.special
      <4>1. Region.special \/ Kind(Region) = Region.backend
        BY Zenon DEF Kind
      <4>2. Region.backend \in {"Lfh", "Vs", "Segment", "Large"}
        BY <1>3, Zenon DEF RegionOk
      <4> QED  BY <2>1, <4>1, <4>2, Zenon
    <3>2. extent.base % Page = 0
      <4>1. PagesOk(Region)
        BY <1>3, <2>1, KindFacts, Zenon
      <4>2. Region.address % Page = 0
        BY <4>1, Zenon DEF PagesOk
      <4>3. extent.base # EndOf(Region)
        BY <1>4, <1>6
      <4> QED  BY <1>4, <4>2, <4>3, Zenon DEF Edge
    <3>3. p = extent.base
      BY <1>4, <3>1, <3>2, RoundPage, Zenon
    <3> HIDE DEF p
    <3>4. pc' \notin {"leave", "extent", "read", "decode", "Segment", "Lfh", "Vs"} /\ pc' = "special"
      BY <1>1, <1>3, <2>1, Zenon
    <3>5. snap'.complete => Holds(snap.spans, r) = EndedBy(Region, extent.base)
      BY <1>10, <2>1, Zenon DEF Front
    <3>6. snap'.complete => FoundNow(Holds(snap.spans, r))'
      BY <1>1, <1>7, <1>8, <3>3, <3>4, <3>5, ZenonT(40) DEF FoundNow
    <3>7. extent.base <= extent.end
      BY <1>4
    <3>8. pc' # "Lfh"
      BY <3>4, Zenon
    <3> QED  BY <1>4, <1>8, <2>1, <3>2, <3>3, <3>4, <3>6, <3>7, <3>8, Zenon DEF MoreSlots
  <2>2. CASE Kind(Region) = "Segment"
    <3>1. ~Region.special
      BY <2>2, Zenon DEF Kind
    <3>2. Region.unit = Region.size
      BY <1>3, <2>2, KindFacts, Zenon
    <3>3. Region.size > 0
      BY <1>4, <1>6
    <3>4. p = SlotsUpTo(extent.base - Region.address, Region.unit)
      <4>1. Most(Region.unit, 1) = Region.unit
        BY <1>6, <3>2, <3>3 DEF Most
      <4> QED  BY <3>1, <4>1, Zenon DEF FirstSlot
    <3>5. p \in Nat /\ (Region.address = extent.base => p = 0)
      <4>1. Region.unit \in Nat \ {0}
        BY <1>6, <3>2, <3>3
      <4> QED  BY <1>4, <1>6, <3>4, <4>1, FirstSlotFacts, ZenonT(40)
    <3> HIDE DEF p
    <3>6. pc' \notin {"leave", "extent", "read", "decode", "special", "Lfh", "Vs"} /\ pc' = "Segment"
      BY <1>1, <1>3, <2>2, Zenon
    <3>7. snap'.complete => Holds(snap.spans, r) = {} /\ (Region.truth = {} \/ extent.base = Region.address)
      <4>1. extent.base # EndOf(Region)
        BY <1>4, <1>6
      <4>2. PageOf(extent.base) \in target.readable
        <5>1. extent.base \in extent.base .. extent.end - 1
          BY <1>4
        <5> QED  BY <1>4, <5>1, Zenon
      <4> QED  BY <1>10, <2>2, <4>1, <4>2, Zenon DEF Front
    <3>8. snap'.complete => FoundNow(Holds(snap.spans, r))'
      BY <1>1, <1>7, <1>8, <3>5, <3>6, <3>7, Zenon DEF FoundNow
    <3>9. pc' # "Lfh" /\ pc' # "special"
      BY <3>6, Zenon
    <3> QED  BY <1>8, <2>2, <3>5, <3>6, <3>8, <3>9, Zenon DEF MoreSlots
  <2> QED  BY <1>5, <2>1, <2>2, Zenon
<1>12. SlotsGo({})
  BY <1>1, <1>2, <1>5, <1>8, <1>9, <1>11, Zenon DEF SlotsGo
<1> QED  BY <1>12, SlotStep, Zenon

\* A page range is recorded as far as its extent goes.
LEMMA PageRangeExact == ASSUME WalkInv, WalkInv', ExactInv, PageRange PROVE ExactInv'
<1>1. pc = "Segment" /\ KeepExtent
  BY Zenon DEF PageRange
<1>2. pc \in Decoding /\ pc \in {"decode", "Lfh", "Segment", "special"} /\ pc \in Inside /\ pc # "Vs"
  BY <1>1, Zenon DEF Decoding, Inside
<1>3. /\ RegionOk(target, Region) /\ ~Named(Region) /\ DOMAIN snap = SnapFields /\ snap.complete \in BOOLEAN
      /\ dec.refused = 0
      /\ snap.complete => FoundNow(Holds(snap.spans, r))
  BY <1>2, ExactFacts, Zenon
<1>4. /\ extent.base \in Nat /\ extent.end \in Nat /\ Region.address <= extent.base /\ extent.base < extent.end
      /\ extent.end <= EndOf(Region) /\ DOMAIN dec = DecFields
      /\ extent.end = EndOf(Region) \/ PageOf(extent.end) \notin target.readable
  BY <1>2, ExtentFacts, Zenon
<1>5. Kind(Region) = "Segment" /\ dec.pos \in Nat
  BY <1>1, Zenon DEF ExactInv, DecOk
<1>6. /\ Region.address \in Nat /\ Region.size \in Nat /\ Region.pool \in Nat /\ EndOf(Region) = Region.address + Region.size
      /\ Region.unit = Region.size /\ Region.pool <= 1 /\ WholeOk(Region, Region.pool, TagAt(Region, Region.address))
  BY <1>3, <1>5, KindFacts, Zenon DEF EndOf
<1>7. Region.size > 0 /\ EndOf(Region) \in Nat
  BY <1>4, <1>6
<1>8. Most(Region.unit, 1) = Region.unit
  BY <1>6, <1>7 DEF Most
<1> DEFINE a == Region.address + dec.pos * Region.unit
           size == Least(Region.unit, extent.end - a)
           header == Least(Region.pool, size)
           span == base_span(a, a + header, size - header, decode_pool_header(a), Region.state)
           block == Block(Region.address + Region.pool, EndOf(Region), TagAt(Region, Region.address))
           part == Block(Region.address + Region.pool, extent.end, TagAt(Region, Region.address))
<1>9. \/ a >= extent.end /\ AfterExtent(snap) /\ snap' = snap /\ dec' = dec
      \/ /\ ~(a >= extent.end) /\ snap' = record_span(snap, span)
         /\ \/ match_limit_reached(snap') /\ AfterExtent(snap') /\ dec' = dec
            \/ dec' = [dec EXCEPT !.pos = @ + 1] /\ pc' = pc
  BY <1>8, Zenon DEF PageRange, SlotAddress
<1>10. (dec.pos = 0 => a = Region.address) /\ (dec.pos # 0 => a >= EndOf(Region)) /\ a \in Nat
  <2>1. dec.pos * Region.unit \in Nat /\ (dec.pos = 0 => dec.pos * Region.unit = 0)
    BY <1>5, <1>6
  <2>2. dec.pos # 0 => Region.unit <= dec.pos * Region.unit
    <3>1. 0 < dec.pos => 0 * Region.unit + Region.unit <= dec.pos * Region.unit
      BY <1>5, <1>6, Multiples, Zenon
    <3> QED  BY <1>5, <1>6, <3>1
  <2> QED  BY <1>6, <2>1, <2>2
<1>11. target' = target /\ r' = r /\ Region' = Region /\ extent' = extent
  BY <1>1, KeptByDecoders, Zenon DEF Region
<1>12. Kind(Region) # "Vs" /\ Kind(Region) \notin {"Lfh", "special"} /\ \A x \in {} : \E b \in Region.truth : Within(x, b)
  BY <1>5, Zenon
<1>13. /\ Region.state = "Allocated" => Region.truth = {block}
       /\ Region.state # "Allocated" => Region.truth = {}
  BY <1>6, <1>7, Zenon DEF WholeOk
<1>14. snap.complete =>
         \/ Holds(snap.spans, r) = {} /\ (Region.truth = {} \/ dec.pos = 0)
         \/ Holds(snap.spans, r) = {part} /\ dec.pos # 0 /\ Region.truth # {}
  BY <1>1, <1>3, ZenonT(40) DEF FoundNow
<1> HIDE DEF a, span, block, part
<1>15. CASE a >= extent.end /\ AfterExtent(snap) /\ snap' = snap /\ dec' = dec
  <2>1. dec.pos # 0
    BY <1>4, <1>6, <1>10, <1>15
  <2>2. ASSUME snap'.complete PROVE Front(target, Region, Holds(snap'.spans, r), vs, extent.end)
    <3>1. CASE Holds(snap.spans, r) = {} /\ Region.truth = {}
      BY <1>12, <1>15, <3>1, Zenon DEF Front
    <3>2. CASE Holds(snap.spans, r) = {part} /\ Region.truth # {}
      <4>1. Region.truth = {block}
        BY <1>13, <3>2, Zenon
      <4>2. CASE extent.end = EndOf(Region)
        <5>1. part = block
          BY <4>2, Zenon DEF part, block
        <5> QED  BY <1>12, <1>15, <3>2, <4>1, <4>2, <5>1, Zenon DEF Front
      <4>3. CASE extent.end # EndOf(Region)
        <5>1. extent.end > Region.address /\ extent.end < EndOf(Region)
          BY <1>4, <1>6, <1>7, <4>3
        <5> QED  BY <1>4, <1>12, <3>2, <4>3, <5>1, Zenon DEF Front
      <4> QED  BY <4>2, <4>3, Zenon
    <3> QED  BY <1>14, <1>15, <2>1, <2>2, <3>1, <3>2, Zenon
  <2>3. DoneSlots /\ Adds(snap, snap', {})
    BY <1>15, <2>2, Zenon DEF DoneSlots, Adds
  <2>4. SlotsGo({})
    BY <1>1, <1>2, <1>3, <1>4, <1>12, <1>15, <2>3, Zenon DEF SlotsGo
  <2> QED  BY <2>4, SlotStep, Zenon
<1>16. CASE /\ ~(a >= extent.end) /\ snap' = record_span(snap, span)
            /\ \/ match_limit_reached(snap') /\ AfterExtent(snap') /\ dec' = dec
               \/ dec' = [dec EXCEPT !.pos = @ + 1] /\ pc' = pc
  <2>1. dec.pos = 0 /\ a = Region.address
    BY <1>4, <1>7, <1>10, <1>16
  <2>2. size = extent.end - Region.address /\ header = Region.pool /\ size \in Nat /\ a + header + (size - header) = extent.end
    BY <1>4, <1>6, <1>7, <2>1 DEF Least
  <2> HIDE DEF size, header
  <2>3. span.region = r /\ span.state = Region.state /\ span.usable = a + header /\ span.tag = TagAt(Region, a)
        /\ span.end = a + header + (size - header)
        /\ Described(span) = Block(a + header, a + header + (size - header), TagAt(Region, a))
    BY Zenon DEF span, decode_pool_header, base_span, Described, Block
  <2>4. Described(span) = part
    BY <2>1, <2>2, <2>3, Zenon DEF part
  <2> DEFINE new == Allocation(span)
  <2>5. Adds(snap, snap', new) /\ snap'.refused = snap.refused
    BY <1>3, <1>16, <2>3, RecordAdds, Zenon
  <2>6. \A x \in new : \E b \in Region.truth : Within(x, b)
    <3>1. CASE Region.state = "Allocated"
      <4>1. new = {span} /\ block \in Region.truth
        BY <1>13, <2>3, <3>1, AllocationIs, Zenon
      <4>2. block.usable = Region.address + Region.pool /\ block.end = EndOf(Region) /\ block.tag = TagAt(Region, Region.address)
        BY Zenon DEF block, Block
      <4>3. Within(span, block)
        BY <1>4, <2>1, <2>2, <2>3, <4>2, Zenon DEF Within
      <4> HIDE DEF new
      <4> QED  BY <4>1, <4>3, Zenon
    <3>2. CASE Region.state # "Allocated"
      <4>1. new = {}
        BY <2>3, <3>2, AllocationIs, Zenon
      <4> HIDE DEF new
      <4> QED  BY <4>1, Zenon
    <3> QED  BY <3>1, <3>2, Zenon
  <2>7. snap'.complete => \/ Holds(snap'.spans, r) = {} /\ Region.truth = {}
                          \/ Holds(snap'.spans, r) = {part} /\ Region.truth # {}
    <3>1. Holds(snap'.spans, r) = Holds(snap.spans, r) \cup {Described(x) : x \in new}
      BY <2>5, AddsHolds, ZenonT(40)
    <3>2. snap'.complete => Holds(snap.spans, r) = {}
      BY <1>14, <2>1, <2>5, Zenon DEF Adds
    <3>3. CASE Region.state = "Allocated"
      <4>1. {Described(x) : x \in new} = {part} /\ Region.truth # {}
        BY <1>13, <2>3, <2>4, <3>3, AllocationIs, Zenon
      <4> HIDE DEF new
      <4> QED  BY <3>1, <3>2, <4>1, Zenon
    <3>4. CASE Region.state # "Allocated"
      <4>1. {Described(x) : x \in new} = {} /\ Region.truth = {}
        BY <1>13, <2>3, <3>4, AllocationIs, Zenon
      <4> HIDE DEF new
      <4> QED  BY <3>1, <3>2, <4>1, Zenon
    <3> QED  BY <3>3, <3>4, Zenon
  <2> HIDE DEF new
  <2>8. (DoneSlots \/ MoreSlots) /\ DOMAIN dec' = DecFields /\ dec'.refused = 0
    <3>1. CASE match_limit_reached(snap') /\ AfterExtent(snap') /\ dec' = dec
      <4>1. snap'.stopped # 0 => ~snap'.complete
        BY Zenon DEF WalkInv, SnapOk
      <4> QED  BY <1>3, <1>4, <3>1, <4>1, Zenon DEF DoneSlots, match_limit_reached
    <3>2. CASE dec' = [dec EXCEPT !.pos = @ + 1] /\ pc' = pc
      <4>1. DOMAIN dec' = DecFields /\ dec'.refused = 0 /\ dec'.pos = 1
        BY <1>3, <1>4, <2>1, <3>2 DEF DecFields
      <4>2. dec'.pos \in Nat /\ dec'.pos # 0
        BY <4>1
      <4>3. pc' = "Segment" /\ pc' \notin {"leave", "extent", "read", "decode", "special", "Lfh", "Vs"}
        BY <1>1, <3>2, Zenon
      <4>4. snap'.complete => FoundNow(Holds(snap.spans, r))'
        BY <1>11, <2>7, <4>2, <4>3, Zenon DEF FoundNow, part
      <4>5. pc' # "Lfh" /\ pc' # "special"
        BY <4>3, Zenon
      <4> QED  BY <1>5, <4>1, <4>2, <4>3, <4>4, <4>5, Zenon DEF MoreSlots
    <3> QED  BY <1>16, <3>1, <3>2, Zenon
  <2>9. SlotsGo(new)
    BY <1>1, <1>2, <1>12, <2>5, <2>6, <2>8, Zenon DEF SlotsGo
  <2> QED  BY <2>9, SlotStep, Zenon
<1> QED  BY <1>9, <1>15, <1>16, Zenon

\* A page of special pool is recorded exactly when its fill agrees, and as an upper bound when not.
LEMMA SpecialPageExact == ASSUME WalkInv, WalkInv', ExactInv, SpecialPage PROVE ExactInv'
<1>1. pc = "special" /\ KeepExtent
  BY Zenon DEF SpecialPage
<1>2. pc \in Decoding /\ pc \in {"decode", "Lfh", "Segment", "special"} /\ pc \in Inside /\ pc # "Vs"
  BY <1>1, Zenon DEF Decoding, Inside
<1>3. /\ RegionOk(target, Region) /\ ~Named(Region) /\ DOMAIN snap = SnapFields /\ snap.complete \in BOOLEAN
      /\ dec.refused = 0
      /\ snap.complete => FoundNow(Holds(snap.spans, r))
  BY <1>2, ExactFacts, Zenon
<1>4. /\ extent.base \in Nat /\ extent.end \in Nat /\ Region.address <= extent.base /\ extent.base < extent.end
      /\ Edge(Region, extent.end) /\ DOMAIN dec = DecFields
  BY <1>2, ExtentFacts, Zenon
<1> DEFINE p == dec.pos
           span == base_span(p, special_pool_placement(p).usable, special_pool_placement(p).size, Region.content[p].tag, "Allocated")
<1>5. Kind(Region) = "special" /\ p \in Nat /\ p % Page = 0 /\ p <= extent.end
  BY <1>1, Zenon DEF ExactInv, DecOk
<1>6. /\ Region.address \in Nat /\ Region.size \in Nat /\ Region.pool \in Nat /\ EndOf(Region) = Region.address + Region.size
      /\ PagesOk(Region) /\ Page \in Nat \ {0}
  BY <1>3, <1>5, KindFacts, Sizes, Zenon DEF EndOf
<1>7. \/ p >= extent.end /\ AfterExtent(snap) /\ snap' = snap /\ dec' = dec
      \/ /\ ~(p >= extent.end)
         /\ snap' = IF p \notin DOMAIN Region.content THEN misses(snap)
                    ELSE IF Region.content[p].tag # 0 THEN record_span(FoundOn(p), span) ELSE snap
         /\ dec' = [dec EXCEPT !.pos = @ + Page]
         /\ \/ match_limit_reached(snap') /\ AfterExtent(snap')
            \/ pc' = pc
  BY Zenon DEF SpecialPage, FoundOn
<1>8. target' = target /\ r' = r /\ Region' = Region /\ extent' = extent
  BY <1>1, KeptByDecoders, Zenon DEF Region
<1>9. Kind(Region) # "Vs" /\ Kind(Region) # "Segment" /\ \A x \in {} : \E b \in Region.truth : Within(x, b)
  BY <1>5, Zenon
<1>10. snap.complete => Holds(snap.spans, r) = EndedBy(Region, p)
  BY <1>1, <1>3, Zenon DEF FoundNow
<1> HIDE DEF p, span
<1>11. CASE p >= extent.end /\ AfterExtent(snap) /\ snap' = snap /\ dec' = dec
  <2>1. p = extent.end
    BY <1>4, <1>5, <1>11
  <2>2. snap'.complete => Front(target, Region, Holds(snap'.spans, r), vs, extent.end)
    BY <1>9, <1>10, <1>11, <2>1, Zenon DEF Front
  <2>3. DoneSlots /\ Adds(snap, snap', {})
    BY <1>11, <2>2, Zenon DEF DoneSlots, Adds
  <2>4. SlotsGo({})
    BY <1>1, <1>2, <1>3, <1>4, <1>9, <1>11, <2>3, Zenon DEF SlotsGo
  <2> QED  BY <2>4, SlotStep, Zenon
<1>12. CASE /\ ~(p >= extent.end)
            /\ snap' = IF p \notin DOMAIN Region.content THEN misses(snap)
                       ELSE IF Region.content[p].tag # 0 THEN record_span(FoundOn(p), span) ELSE snap
            /\ dec' = [dec EXCEPT !.pos = @ + Page]
            /\ \/ match_limit_reached(snap') /\ AfterExtent(snap')
               \/ pc' = pc
  <2>1. p + Page <= extent.end
    <3>1. extent.end % Page = 0
      <4>1. Region.address % Page = 0 /\ Region.size % Page = 0
        BY <1>6, Zenon DEF PagesOk
      <4>2. EndOf(Region) % Page = 0
        BY <1>6, <4>1, PagesEnd, Zenon
      <4> QED  BY <1>4, <4>1, <4>2, Zenon DEF Edge
    <3>2. p < extent.end
      BY <1>4, <1>5, <1>12
    <3> QED  BY <1>4, <1>5, <3>1, <3>2, PageBetween, Zenon
  <2>2. DOMAIN dec' = DecFields /\ dec'.refused = 0 /\ dec'.pos = p + Page
    BY <1>3, <1>4, <1>12, Zenon DEF DecFields, p
  <2>3. p + Page \in Nat /\ (p + Page) % Page = 0
    <3>1. Page % Page = 0
      BY <1>6
    <3>2. p \in Nat /\ p % Page = 0 /\ Page \in Nat
      BY <1>5, <1>6, Zenon
    <3>3. p + Page \in Nat
      BY <3>2
    <3> QED  BY <3>1, <3>2, <3>3, PagesEnd, Zenon
  <2>4. ASSUME snap'.complete => Holds(snap'.spans, r) = EndedBy(Region, p + Page)
        PROVE  DoneSlots \/ MoreSlots
    <3>1. CASE match_limit_reached(snap') /\ AfterExtent(snap')
      <4>1. snap'.stopped # 0 => ~snap'.complete
        BY Zenon DEF WalkInv, SnapOk
      <4> QED  BY <3>1, <4>1, Zenon DEF DoneSlots, match_limit_reached
    <3>2. CASE pc' = pc
      <4>1. pc' = "special" /\ pc' \notin {"leave", "extent", "read", "decode", "Segment", "Lfh", "Vs"} /\ pc' # "Lfh"
        BY <1>1, <3>2, Zenon
      <4>2. snap'.complete => FoundNow(Holds(snap.spans, r))'
        BY <1>8, <2>2, <2>4, <4>1, Zenon DEF FoundNow
      <4> QED  BY <1>5, <2>1, <2>2, <2>3, <4>1, <4>2, Zenon DEF MoreSlots
    <3> QED  BY <1>12, <3>1, <3>2, Zenon
  <2>5. EndedBy(Region, p + Page) = EndedBy(Region, p) \cup (IF p \in DOMAIN Region.content /\ Region.content[p].tag # 0 THEN {PageBlock(Region, p)} ELSE {})
    BY <1>3, <1>5, PageNext, Zenon
  <2>6. CASE p \notin DOMAIN Region.content
    <3>1. snap'.spans = snap.spans /\ snap'.complete = FALSE /\ snap'.refused = snap.refused
      BY <1>3, <1>12, <2>6, SaysFacts, Zenon
    <3>2. Adds(snap, snap', {}) /\ (DoneSlots \/ MoreSlots)
      BY <2>4, <3>1, Zenon DEF Adds
    <3>3. SlotsGo({})
      BY <1>1, <1>2, <1>9, <2>2, <3>1, <3>2, Zenon DEF SlotsGo
    <3> QED  BY <3>3, SlotStep, Zenon
  <2>7. CASE p \in DOMAIN Region.content /\ Region.content[p].tag = 0
    <3>1. snap' = snap /\ EndedBy(Region, p + Page) = EndedBy(Region, p)
      BY <1>12, <2>5, <2>7, Zenon
    <3>2. Adds(snap, snap', {}) /\ (DoneSlots \/ MoreSlots)
      BY <1>10, <2>4, <3>1, Zenon DEF Adds
    <3>3. SlotsGo({})
      BY <1>1, <1>2, <1>9, <2>2, <3>1, <3>2, Zenon DEF SlotsGo
    <3> QED  BY <3>3, SlotStep, Zenon
  <2>8. CASE p \in DOMAIN Region.content /\ Region.content[p].tag # 0
    <3> DEFINE c == Region.content[p]
               s == FoundOn(p)
    <3>1. snap' = record_span(s, span)
      BY <1>12, <2>8, Zenon
    <3>2. /\ DOMAIN s = SnapFields /\ s.complete = (snap.complete /\ Corroborated(p)) /\ s.spans = snap.spans
          /\ s.refused = snap.refused /\ s.complete \in BOOLEAN
      <4>1. DOMAIN s = SnapFields /\ s.complete = (snap.complete /\ Corroborated(p)) /\ s.spans = snap.spans /\ s.refused = snap.refused
        BY <1>3, FoundOnFacts, Zenon
      <4> HIDE DEF s
      <4> QED  BY <4>1, Zenon
    <3>3. c.size \in 1 .. Page - Region.pool
      BY <1>6, <2>8, Zenon DEF PagesOk
    <3>4. PageBlock(Region, p) \in Region.truth
      <4>1. PageBlock(Region, p) \in EndedBy(Region, p + Page)
        BY <2>5, <2>8, Zenon
      <4> QED  BY <4>1, Zenon DEF EndedBy
    <3>5. /\ PageBlock(Region, p).usable = p + Page - c.size /\ PageBlock(Region, p).end = p + Page
          /\ PageBlock(Region, p).tag = c.tag
      BY Zenon DEF PageBlock, Block
    <3> DEFINE at == special_pool_placement(p)
    <3>6. /\ span.region = r /\ span.usable = at.usable /\ span.end = at.usable + at.size /\ span.tag = c.tag
          /\ span.state = "Allocated" /\ Described(span) = Block(at.usable, at.usable + at.size, c.tag)
      BY Zenon DEF span, base_span, Described, Block
    <3>7. Corroborated(p) => Described(span) = PageBlock(Region, p) /\ span.end \in Nat
      <4> SUFFICES ASSUME Corroborated(p) PROVE Described(span) = PageBlock(Region, p) /\ span.end \in Nat
        BY Zenon
      <4>1. at.usable = p + Page - c.size /\ at.size = c.size
        BY Zenon DEF special_pool_placement
      <4>2. p + Page - c.size + c.size = p + Page /\ p + Page \in Nat
        BY <1>5, <1>6, <3>3
      <4> HIDE DEF at
      <4> QED  BY <3>6, <4>1, <4>2, Zenon DEF PageBlock
    <3>8. Within(span, PageBlock(Region, p))
      <4>1. CASE Corroborated(p)
        BY <3>7, <4>1, WithinItself, Zenon
      <4>2. CASE ~Corroborated(p)
        <5>1. at.usable = p + Region.pool /\ at.size = Least(extent.end - p, Page) - Region.pool
          BY <4>2, Zenon DEF special_pool_placement
        <5>2. Least(extent.end - p, Page) = Page
          BY <1>4, <1>5, <1>6, <2>1 DEF Least
        <5> HIDE DEF at
        <5>3. p + Region.pool <= p + Page - c.size /\ p + Page <= (p + Region.pool) + (Page - Region.pool)
          BY <1>5, <1>6, <3>3
        <5>4. Region.special
          <6>1. Region.special \/ Kind(Region) = Region.backend
            BY Zenon DEF Kind
          <6>2. Region.backend \in {"Lfh", "Vs", "Segment", "Large"}
            BY <1>3, Zenon DEF RegionOk
          <6> QED  BY <1>5, <6>1, <6>2, Zenon
        <5>5. span.usable <= PageBlock(Region, p).usable /\ PageBlock(Region, p).end <= span.end /\ span.tag = PageBlock(Region, p).tag
          BY <3>5, <3>6, <5>1, <5>2, <5>3, Zenon
        <5>6. target.regions[span.region].special
          BY <3>6, <5>4, Zenon DEF Region
        <5> QED  BY <5>5, <5>6, Zenon DEF Within
      <4> QED  BY <4>1, <4>2, Zenon
    <3> HIDE DEF s, at
    <3>9. Adds(s, snap', {span}) /\ snap'.refused = s.refused
      <4>1. Adds(s, record_span(s, span), Allocation(span)) /\ record_span(s, span).refused = s.refused
        BY <3>2, <3>6, RecordAdds, Zenon
      <4>2. Allocation(span) = {span}
        BY <3>6, AllocationIs, Zenon
      <4> QED  BY <3>1, <4>1, <4>2, Zenon
    <3>10. Adds(snap, snap', {span}) /\ snap'.refused = snap.refused /\ (snap'.complete => snap.complete /\ Corroborated(p))
      BY <3>2, <3>9, Zenon DEF Adds
    <3>11. snap'.complete => Holds(snap'.spans, r) = EndedBy(Region, p + Page)
      <4>1. Holds(snap'.spans, r) = Holds(snap.spans, r) \cup {Described(x) : x \in {span}}
        BY <3>10, AddsHolds, Zenon
      <4>2. {Described(x) : x \in {span}} = {Described(span)}
        BY Zenon
      <4>3. EndedBy(Region, p + Page) = EndedBy(Region, p) \cup {PageBlock(Region, p)}
        BY <2>5, <2>8, Zenon
      <4> QED  BY <1>10, <3>7, <3>10, <4>1, <4>2, <4>3, Zenon
    <3>12. \A x \in {span} : \E b \in Region.truth : Within(x, b)
      BY <3>4, <3>8, Zenon
    <3>13. DoneSlots \/ MoreSlots
      BY <2>4, <3>11, Zenon
    <3>14. SlotsGo({span})
      BY <1>1, <1>2, <1>9, <2>2, <3>10, <3>12, <3>13, Zenon DEF SlotsGo
    <3> QED  BY <3>14, SlotStep, Zenon
  <2> QED  BY <2>6, <2>7, <2>8, Zenon
<1> QED  BY <1>7, <1>11, <1>12, Zenon

-----------------------------------------------------------------------------
(* Chunks. *)

\* What is known where chunks are decoded.
LEMMA VsFacts ==
  ASSUME WalkInv, ExactInv, pc \in Inside, Kind(Region) = "Vs"
  PROVE  /\ RegionOk(target, Region) /\ ~Named(Region) /\ HeaderUnits = VsHeaders(Region)
         /\ VsHeaders(Region) \in Nat /\ VsHeaders(Region) > 0 /\ Region.address \in Nat /\ EndOf(Region) \in Nat
         /\ \A a \in Heads(Region) : a \in Nat /\ Region.address <= a /\ a <= EndOf(Region) /\ (a # EndOf(Region) => a \in DOMAIN Region.chunks)
<1>1. RegionOk(target, Region) /\ ~Named(Region)
  BY ExactFacts, Zenon
<1>2. HeaderUnits = VsHeaders(Region)
  BY Zenon DEF HeaderUnits, VsHeaders
<1> QED  BY <1>1, <1>2, KindFacts, HeadFacts, Zenon

\* While no header was refused, one that is plausible is a chunk's.
LEMMA AtChunk ==
  ASSUME WalkInv, ExactInv, VsMore, plausible(dec.pos), snap.refused = 0, dec.refused = 0
  PROVE  /\ dec.pos \in DOMAIN Region.chunks /\ dec.pos \in Nat /\ Header.size = Region.chunks[dec.pos].size
         /\ Header.size \in Nat /\ Header.size >= VsHeaders(Region)
         /\ ChunkEnd \in Heads(Region) /\ ChunkEnd \in Nat /\ dec.pos <= ChunkEnd
         /\ chunk_state(dec.pos) = "Allocated" <=> Region.chunks[dec.pos].live
         /\ big_pool = BigIn(Region, dec.pos)
         /\ \A e \in big_pool : ChunkBlock(Region, dec.pos) = Block(e, e + Region.big[e].size, Region.big[e].tag)
         /\ big_pool = {} => ChunkBlock(Region, dec.pos) = VsBlock(Region, dec.pos)
         /\ Region.chunks[dec.pos].end \in Nat
         /\ LiveBefore(Region, ChunkEnd) = LiveBefore(Region, dec.pos) \cup (IF Region.chunks[dec.pos].live THEN {ChunkBlock(Region, dec.pos)} ELSE {})
<1>1. pc = "Vs" /\ dec.pos + HeaderUnits <= extent.end
  BY Zenon DEF VsMore
<1>2. pc \in Decoding /\ pc \in Inside
  BY <1>1, Zenon DEF Decoding, Inside
<1>3. Kind(Region) = "Vs" /\ dec.resume \in Heads(Region) /\ (dec.pos = dec.resume \/ dec.pos = extent.end)
  BY <1>1, Zenon DEF ExactInv, DecOk, Chained, Linked
<1>4. /\ RegionOk(target, Region) /\ ~Named(Region) /\ HeaderUnits = VsHeaders(Region)
      /\ VsHeaders(Region) \in Nat /\ VsHeaders(Region) > 0 /\ EndOf(Region) \in Nat
      /\ dec.resume \in Nat /\ (dec.resume # EndOf(Region) => dec.resume \in DOMAIN Region.chunks)
  BY <1>2, <1>3, VsFacts, Zenon
<1>5. extent.end \in Nat /\ extent.end <= EndOf(Region)
  BY <1>2, ExtentFacts, Zenon
<1>6. dec.pos = dec.resume /\ dec.pos # EndOf(Region)
  BY <1>1, <1>3, <1>4, <1>5
<1>7. dec.pos \in DOMAIN Region.chunks /\ dec.pos \in DOMAIN Region.content
  BY <1>4, <1>6, Zenon DEF plausible
<1>8. /\ dec.pos \in Nat /\ Region.chunks[dec.pos].size \in Nat /\ Region.chunks[dec.pos].size >= VsHeaders(Region)
      /\ dec.pos + Region.chunks[dec.pos].size \in Heads(Region)
  BY <1>3, <1>4, <1>7, ChunkFacts, Zenon
<1>9. ChunksOk(target, Region)
  BY <1>3, <1>4, KindFacts, Zenon
<1>10. /\ Header.size = Region.chunks[dec.pos].size /\ Region.chunks[dec.pos].end \in Nat
       /\ Region.chunks[dec.pos].live <=> Region.content[dec.pos].allocated /\ dec.pos \notin Region.cached \cup Region.reusable
       /\ \A e \in BigIn(Region, dec.pos) : ChunkBlock(Region, dec.pos) = Block(e, e + Region.big[e].size, Region.big[e].tag)
       /\ BigIn(Region, dec.pos) = {} => ChunkBlock(Region, dec.pos) = VsBlock(Region, dec.pos)
  BY <1>7, <1>9, Zenon DEF ChunksOk, Header
<1>11. ChunkEnd = dec.pos + Region.chunks[dec.pos].size
  BY <1>10, Zenon DEF ChunkEnd
<1>12. chunk_state(dec.pos) = "Allocated" <=> Region.chunks[dec.pos].live
  BY <1>10, Zenon DEF chunk_state
<1>13. big_pool = BigIn(Region, dec.pos)
  <2>1. Header.size <= MaxHeaderChunk <=> ~(Header.size > MaxHeaderChunk)
    BY <1>8, <1>10, Sizes
  <2>2. CASE Header.size <= MaxHeaderChunk
    BY <1>10, <2>1, <2>2, Zenon DEF big_pool, BigIn
  <2>3. CASE Header.size > MaxHeaderChunk
    BY <1>10, <1>11, <2>1, <2>3, Zenon DEF big_pool, BigIn
  <2> QED  BY <2>1, <2>2, <2>3, Zenon
<1>14. LiveBefore(Region, ChunkEnd) = LiveBefore(Region, dec.pos) \cup (IF Region.chunks[dec.pos].live THEN {ChunkBlock(Region, dec.pos)} ELSE {})
  BY <1>3, <1>4, <1>7, <1>11, LiveNext, Zenon
<1>15. ChunkEnd \in Nat /\ dec.pos <= ChunkEnd
  BY <1>8, <1>11
<1> QED  BY <1>7, <1>8, <1>10, <1>11, <1>12, <1>13, <1>14, <1>15, Zenon

\* A step along the chunks of an extent, of which new are the allocations.
ChunksGo(new) ==
  /\ pc = "Vs" /\ pc' = pc /\ KeepExtent
  /\ DOMAIN dec' = DecFields /\ dec'.refused \in Nat /\ dec'.chunks \in Nat
  /\ dec'.lost => dec'.refused # 0
  /\ dec'.refused = 0 => dec.refused = 0
  /\ Adds(snap, snap', new) /\ snap'.refused = snap.refused
  /\ snap.refused = 0 /\ dec'.refused = 0 =>
       /\ dec'.resume \in Heads(Region) /\ (dec'.pos = dec'.resume \/ dec'.pos = extent.end)
       /\ \A x \in new : \E b \in Region.truth : Within(x, b)
  /\ snap'.complete => /\ dec'.refused = 0 /\ Holds(snap'.spans, r) = LiveBefore(Region, dec'.pos)
                       /\ dec'.pos = dec'.resume /\ {vs.covered, dec'.covered} \subseteq 0 .. dec'.pos

\* Such a step keeps the walk exact.
LEMMA ChunkStep ==
  ASSUME WalkInv, ExactInv, NEW new, ChunksGo(new)
  PROVE  ExactInv'
<1>1. pc = "Vs" /\ pc' = "Vs" /\ KeepExtent /\ Adds(snap, snap', new) /\ snap'.refused = snap.refused
  BY Zenon DEF ChunksGo
<1>2. pc \in Inside /\ pc' \in Inside /\ pc' # "region" /\ pc' \notin {"leave", "extent", "read", "decode", "Lfh", "Segment", "special"}
  BY <1>1, Zenon DEF Inside
<1>3. target' = target /\ r' = r /\ vs' = vs /\ extent' = extent /\ Region' = Region
  BY <1>1, KeptByDecoders, Zenon DEF Region
<1>4. r \in Nat \ {0} /\ ~Named(Region) /\ DOMAIN vs = {"next", "covered"} /\ snap.refused \in Nat /\ (snap.complete => snap.refused = 0)
  BY <1>2, ExactFacts, Zenon
<1>5. Kind(Region) = "Vs"
  BY <1>1, Zenon DEF ExactInv, DecOk
<1>6. DecOk'
  <2>1. DOMAIN dec' = DecFields /\ dec'.refused \in Nat /\ dec'.chunks \in Nat /\ (dec'.lost => dec'.refused # 0)
    BY Zenon DEF ChunksGo
  <2> QED  BY <1>1, <1>2, <1>3, <1>4, <1>5, <2>1, Zenon DEF DecOk
<1>7. ASSUME snap'.complete PROVE snap'.refused = 0 /\ dec'.refused = 0 /\ FoundNow(Holds(snap.spans, r))'
  <2>1. /\ dec'.refused = 0 /\ Holds(snap'.spans, r) = LiveBefore(Region, dec'.pos)
        /\ dec'.pos = dec'.resume /\ {vs.covered, dec'.covered} \subseteq 0 .. dec'.pos
    BY <1>7, Zenon DEF ChunksGo
  <2>2. snap'.refused = 0
    BY <1>1, <1>4, <1>7, Zenon DEF Adds
  <2> QED  BY <1>2, <1>3, <2>1, <2>2, Zenon DEF FoundNow
<1>8. ASSUME snap'.refused = 0 /\ dec'.refused = 0
      PROVE  snap.refused = 0 /\ dec.refused = 0 /\ Linked' /\ \A x \in new : \E b \in Region.truth : Within(x, b)
  <2>1. /\ snap.refused = 0 /\ dec.refused = 0
        /\ dec'.resume \in Heads(Region) /\ (dec'.pos = dec'.resume \/ dec'.pos = extent.end)
        /\ \A x \in new : \E b \in Region.truth : Within(x, b)
    BY <1>1, <1>8, Zenon DEF ChunksGo
  <2>2. Linked'
    BY <1>2, <1>3, <2>1, Zenon DEF Linked
  <2> QED  BY <2>1, <2>2, Zenon
<1> QED  BY <1>1, <1>2, <1>3, <1>4, <1>6, <1>7, <1>8, ExactStep, Zenon

\* A header that is refused costs the snapshot its completeness, and so does a chunk that overruns.
LEMMA VsRefuseExact == ASSUME WalkInv, ExactInv, VsRefuse \/ VsOverrun PROVE ExactInv'
<1>1. pc = "Vs" /\ pc' = pc /\ KeepExtent /\ (snap' = misses(snap) \/ snap' = misses(ChainChecked(snap)))
  BY Zenon DEF VsRefuse, VsOverrun, VsMore
<1>2. pc \in Decoding
  BY <1>1, Zenon DEF Decoding
<1>3. SnapOk(limit, target, snap)
  BY Zenon DEF WalkInv
<1>4. snap'.spans = snap.spans /\ snap'.refused = snap.refused /\ snap'.complete = FALSE
  <2>1. DOMAIN snap = SnapFields /\ SnapOk(limit, target, ChainChecked(snap)) /\ ChainChecked(snap).spans = snap.spans /\ ChainChecked(snap).refused = snap.refused
    BY <1>3, ChainOk, Zenon DEF SnapOk
  <2>2. DOMAIN ChainChecked(snap) = SnapFields
    BY <2>1, Zenon DEF SnapOk
  <2>3. CASE snap' = misses(snap)
    BY <2>1, <2>3, SaysFacts, Zenon
  <2>4. CASE snap' = misses(ChainChecked(snap))
    BY <2>1, <2>2, <2>4, SaysFacts, Zenon
  <2> QED  BY <1>1, <2>3, <2>4, Zenon
<1>5. Adds(snap, snap', {}) /\ ~snap'.complete /\ \A x \in {} : \E b \in Region.truth : Within(x, b)
  BY <1>4, Zenon DEF Adds
<1>6. DOMAIN dec = DecFields /\ dec.refused \in Nat /\ dec.chunks \in Nat /\ (dec.lost => dec.refused # 0)
  BY <1>1, Zenon DEF ExactInv, DecOk
<1>7. CASE VsRefuse
  <2>1. dec' = [dec EXCEPT !.pos = @ + 1, !.previous = None, !.lost = TRUE, !.refused = @ + 1]
    BY <1>7, Zenon DEF VsRefuse
  <2>2. DOMAIN dec' = DecFields /\ dec'.refused = dec.refused + 1 /\ dec'.chunks = dec.chunks
    BY <1>6, <2>1, Zenon DEF DecFields
  <2>3. dec'.refused \in Nat /\ dec'.refused # 0
    BY <1>6, <2>2
  <2>4. ChunksGo({})
    BY <1>1, <1>4, <1>5, <1>6, <2>2, <2>3, Zenon DEF ChunksGo
  <2> QED  BY <2>4, ChunkStep, Zenon
<1>8. CASE VsOverrun
  <2>1. dec' = [dec EXCEPT !.resume = ChunkEnd, !.pos = extent.end] /\ VsMore /\ plausible(dec.pos)
    BY <1>8, Zenon DEF VsOverrun
  <2>2. /\ DOMAIN dec' = DecFields /\ dec'.refused = dec.refused /\ dec'.chunks = dec.chunks /\ dec'.lost = dec.lost
        /\ dec'.resume = ChunkEnd /\ dec'.pos = extent.end
    BY <1>6, <2>1, Zenon DEF DecFields
  <2>3. snap.refused = 0 /\ dec'.refused = 0 => dec'.resume \in Heads(Region)
    BY <2>1, <2>2, AtChunk, Zenon
  <2>4. ChunksGo({})
    BY <1>1, <1>4, <1>5, <1>6, <2>2, <2>3, Zenon DEF ChunksGo
  <2> QED  BY <2>4, ChunkStep, Zenon
<1> QED  BY <1>7, <1>8, Zenon

\* A chunk is recorded as its block, if it is in use.
LEMMA StrideExact ==
  ASSUME WalkInv, ExactInv, VsMore, plausible(dec.pos), NEW s, NEW span, NEW covered,
         Stride(record_span(s, span), covered), covered = ChunkEnd \/ covered = dec.covered,
         DOMAIN s = SnapFields, s.complete \in BOOLEAN, s.spans = snap.spans, s.refused = snap.refused, s.complete => snap.complete,
         span.region = r, span.state = chunk_state(dec.pos),
         snap.refused = 0 /\ dec.refused = 0 => Described(span) = ChunkBlock(Region, dec.pos)
  PROVE  ExactInv'
<1>1. /\ pc = "Vs" /\ pc' = pc /\ KeepExtent /\ snap' = record_span(s, span)
      /\ dec' = [dec EXCEPT !.pos = ChunkEnd, !.resume = ChunkEnd, !.covered = covered, !.previous = Header.size, !.chunks = @ + 1]
  BY Zenon DEF VsMore, Stride
<1>2. DOMAIN dec = DecFields /\ dec.refused \in Nat /\ dec.chunks \in Nat /\ (dec.lost => dec.refused # 0)
  BY <1>1, Zenon DEF ExactInv, DecOk
<1>3. /\ DOMAIN dec' = DecFields /\ dec'.refused = dec.refused /\ dec'.chunks = dec.chunks + 1 /\ dec'.lost = dec.lost
      /\ dec'.resume = ChunkEnd /\ dec'.pos = ChunkEnd /\ dec'.covered = covered
  BY <1>1, <1>2, Zenon DEF DecFields
<1>4. dec'.chunks \in Nat
  BY <1>2, <1>3
<1> DEFINE new == Allocation(span)
<1>5. Adds(s, snap', new) /\ snap'.refused = snap.refused
  BY <1>1, RecordAdds, Zenon
<1>6. Adds(snap, snap', new) /\ (snap'.complete => snap.complete)
  BY <1>5, Zenon DEF Adds
<1>7. ASSUME snap.refused = 0, dec.refused = 0
      PROVE  /\ \A x \in new : \E b \in Region.truth : Within(x, b)
             /\ {Described(x) : x \in new} = IF Region.chunks[dec.pos].live THEN {ChunkBlock(Region, dec.pos)} ELSE {}
  <2>1. dec.pos \in DOMAIN Region.chunks /\ (span.state = "Allocated" <=> Region.chunks[dec.pos].live)
    BY <1>7, AtChunk, Zenon
  <2>2. CASE Region.chunks[dec.pos].live
    <3>1. new = {span} /\ {Described(x) : x \in new} = {Described(span)}
      BY <2>1, <2>2, AllocationIs, Zenon
    <3>2. ChunkBlock(Region, dec.pos) \in Region.truth
      <4>1. pc \in Inside /\ Kind(Region) = "Vs"
        BY <1>1, Zenon DEF Inside, ExactInv, DecOk
      <4>2. Region.truth = {ChunkBlock(Region, a) : a \in {c \in DOMAIN Region.chunks : Region.chunks[c].live}}
        BY <4>1, VsFacts, LiveTruth, Zenon
      <4> QED  BY <2>1, <2>2, <4>2, Zenon
    <3>3. Within(span, ChunkBlock(Region, dec.pos))
      <4>1. Described(span) = ChunkBlock(Region, dec.pos) /\ Region.chunks[dec.pos].end \in Nat
        BY <1>7, AtChunk, Zenon
      <4> QED  BY <4>1, ChunkWithin, Zenon
    <3> HIDE DEF new
    <3> QED  BY <1>7, <2>2, <3>1, <3>2, <3>3, Zenon
  <2>3. CASE ~Region.chunks[dec.pos].live
    <3>1. new = {} /\ {Described(x) : x \in new} = {}
      BY <2>1, <2>3, AllocationIs, Zenon
    <3> HIDE DEF new
    <3> QED  BY <2>3, <3>1, Zenon
  <2> QED  BY <2>2, <2>3, Zenon
<1> HIDE DEF new
<1>8. snap.refused = 0 /\ dec'.refused = 0 =>
        /\ dec'.resume \in Heads(Region) /\ (dec'.pos = dec'.resume \/ dec'.pos = extent.end)
        /\ \A x \in new : \E b \in Region.truth : Within(x, b)
  BY <1>3, <1>7, AtChunk, Zenon
<1>9. ASSUME snap'.complete
      PROVE  /\ dec'.refused = 0 /\ Holds(snap'.spans, r) = LiveBefore(Region, dec'.pos)
             /\ dec'.pos = dec'.resume /\ {vs.covered, dec'.covered} \subseteq 0 .. dec'.pos
  <2>1. snap.refused = 0 /\ dec.refused = 0 /\ FoundNow(Holds(snap.spans, r))
    BY <1>6, <1>9, Zenon DEF ExactInv, Told
  <2>2. Holds(snap.spans, r) = LiveBefore(Region, dec.pos) /\ vs.covered \in 0 .. dec.pos /\ dec.covered \in 0 .. dec.pos
    BY <1>1, <2>1, Zenon DEF FoundNow
  <2>3. /\ ChunkEnd \in Nat /\ dec.pos <= ChunkEnd /\ dec.pos \in Nat
        /\ LiveBefore(Region, ChunkEnd) = LiveBefore(Region, dec.pos) \cup (IF Region.chunks[dec.pos].live THEN {ChunkBlock(Region, dec.pos)} ELSE {})
    BY <2>1, AtChunk, Zenon
  <2>4. Holds(snap'.spans, r) = Holds(snap.spans, r) \cup {Described(x) : x \in new}
    <3>1. Adds(snap, snap', new)
      BY <1>6, Zenon
    <3>2. /\ \A i : i # r => Holds(snap'.spans, i) = Holds(snap.spans, i)
          /\ Holds(snap'.spans, r) = Holds(snap.spans, r) \cup {Described(x) : x \in new}
      BY <3>1, AddsHolds, ZenonT(40)
    <3> QED  BY <3>2, Zenon
  <2>5. Holds(snap'.spans, r) = LiveBefore(Region, ChunkEnd)
    BY <1>7, <2>1, <2>2, <2>3, <2>4, Zenon
  <2>6. vs.covered \in 0 .. ChunkEnd /\ covered \in 0 .. ChunkEnd
    <3>1. ChunkEnd \in 0 .. ChunkEnd /\ \A x \in 0 .. dec.pos : x \in 0 .. ChunkEnd
      BY <2>3, RangeGrows, Zenon
    <3>2. covered = ChunkEnd \/ covered \in 0 .. dec.pos
      BY <2>2, Zenon
    <3> QED  BY <2>2, <3>1, <3>2, Zenon
  <2> QED  BY <1>3, <2>1, <2>5, <2>6, Zenon
<1>10. ChunksGo(new)
  BY <1>1, <1>2, <1>3, <1>4, <1>5, <1>6, <1>8, <1>9, Zenon DEF ChunksGo
<1> QED  BY <1>10, ChunkStep, Zenon

\* Where no entry of the big-page table is, the span is the block behind the headers.
LEMMA PlainChunk ==
  ASSUME WalkInv, ExactInv, VsMore, plausible(dec.pos), snap.refused = 0, dec.refused = 0
  PROVE  LET usable == physical_header + Region.pool
         IN Block(usable, usable + Most(ChunkEnd - usable, 0), decode_pool_header(physical_header)) = VsBlock(Region, dec.pos)
<1> DEFINE a == dec.pos
           n == Region.chunks[a].size
           header == a + VsHeader + (IF Moved(Region, a) THEN 1 ELSE 0)
<1>1. a \in Nat /\ n \in Nat /\ Header.size = n /\ n >= VsHeaders(Region)
  BY AtChunk, Zenon
<1>2. Region.pool \in Nat /\ VsHeader \in Nat
  <2>1. pc \in Inside
    BY Zenon DEF Inside, VsMore
  <2> QED  BY <2>1, ExactFacts, KindFacts, Sizes, Zenon
<1>3. HeaderUnits = VsHeader + Region.pool /\ VsHeaders(Region) = VsHeader + Region.pool
  BY Zenon DEF HeaderUnits, VsHeaders
<1>4. Header.size >= HeaderUnits + 1 <=> n > VsHeaders(Region)
  BY <1>1, <1>2, <1>3
<1>5. Moved(Region, a) <=> Region.skips /\ (a + VsHeader + 1) % Page = 0 /\ Header.size >= HeaderUnits + 1
  BY <1>4, Zenon DEF Moved
<1>6. physical_header = header
  <2>1. physical_header = IF Moved(Region, a) THEN a + VsHeader + 1 ELSE a + VsHeader
    BY <1>5, Zenon DEF physical_header
  <2>2. CASE Moved(Region, a)
    BY <1>1, <1>2, <2>1, <2>2, ZenonT(40)
  <2>3. CASE ~Moved(Region, a)
    BY <1>1, <1>2, <2>1, <2>3
  <2> QED  BY <2>2, <2>3, Zenon
<1>7. header + Region.pool \in Nat /\ header + Region.pool <= a + n
  <2>1. Moved(Region, a) => n > VsHeaders(Region)
    BY Zenon DEF Moved
  <2> QED  BY <1>1, <1>2, <1>3, <2>1
<1>8. ChunkEnd = a + n
  BY <1>1, Zenon DEF ChunkEnd
<1> HIDE DEF header
<1>9. header + Region.pool + Most((a + n) - (header + Region.pool), 0) = a + n
  BY <1>1, <1>7 DEF Most
<1>10. VsBlock(Region, a) = Block(header + Region.pool, a + n, TagAt(Region, header))
  BY Zenon DEF VsBlock, header
<1> HIDE DEF a, n
<1>11. decode_pool_header(physical_header) = TagAt(Region, header)
  BY <1>6, Zenon DEF decode_pool_header
<1>12. physical_header + Region.pool + Most(ChunkEnd - (physical_header + Region.pool), 0) = a + n
  <2>1. ChunkEnd - (physical_header + Region.pool) = (a + n) - (header + Region.pool)
    BY <1>6, <1>8, Zenon
  <2>2. physical_header + Region.pool = header + Region.pool
    BY <1>6, Zenon
  <2> QED  BY <1>9, <2>1, <2>2, Zenon
<1>13. VsBlock(Region, dec.pos) = Block(physical_header + Region.pool, a + n, TagAt(Region, header))
  BY <1>6, <1>10, Zenon DEF a
<1> QED  BY <1>11, <1>12, <1>13, Zenon

\* A chunk that the big-page table names, and one that its headers describe.
LEMMA VsChunkExact == ASSUME WalkInv, ExactInv, VsBig \/ VsChunk PROVE ExactInv'
<1>0. VsMore /\ plausible(dec.pos) /\ SnapOk(limit, target, snap)
  BY Zenon DEF VsBig, VsChunk, WalkInv
<1> DEFINE s == ChainChecked(snap)
<1>1. /\ DOMAIN s = SnapFields /\ s.complete \in BOOLEAN /\ s.spans = snap.spans /\ s.refused = snap.refused
      /\ s.complete => snap.complete
  BY <1>0, ChainOk, Zenon DEF SnapOk
<1>2. /\ DOMAIN says(s) = SnapFields /\ says(s).complete = s.complete /\ says(s).spans = s.spans /\ says(s).refused = s.refused
  BY <1>1, SaysFacts, Zenon
<1> HIDE DEF s
<1>3. CASE VsBig
  <2>1. PICK a \in big_pool : Stride(record_span(s, base_span(a, a, Region.big[a].size, Region.big[a].tag, chunk_state(dec.pos))), ChunkEnd)
    BY <1>3, Zenon DEF VsBig, s
  <2> DEFINE span == base_span(a, a, Region.big[a].size, Region.big[a].tag, chunk_state(dec.pos))
  <2>2. /\ span.region = r /\ span.state = chunk_state(dec.pos) /\ span.end = a + Region.big[a].size
        /\ Described(span) = Block(a, a + Region.big[a].size, Region.big[a].tag)
    BY Zenon DEF base_span, Described, Block
  <2> HIDE DEF span
  <2>3. ASSUME snap.refused = 0, dec.refused = 0 PROVE Described(span) = ChunkBlock(Region, dec.pos)
    BY <1>0, <2>1, <2>2, <2>3, AtChunk, Zenon
  <2>4. Stride(record_span(s, span), ChunkEnd)
    BY <2>1, Zenon DEF span
  <2> QED  BY <1>0, <1>1, <2>2, <2>3, <2>4, StrideExact, Zenon
<1>4. CASE VsChunk
  <2> DEFINE usable == physical_header + Region.pool
             header == IF Region.pool = 0 THEN dec.pos ELSE physical_header
             heard == IF TooShortToMove THEN says(s) ELSE s
             span == base_span(header, usable, Most(ChunkEnd - usable, 0), decode_pool_header(physical_header), chunk_state(dec.pos))
  <2>1. Stride(record_span(heard, span), dec.covered) /\ big_pool = {}
    BY <1>4, Zenon DEF VsChunk, s
  <2>2. /\ DOMAIN heard = SnapFields /\ heard.complete \in BOOLEAN /\ heard.spans = snap.spans /\ heard.refused = snap.refused
        /\ heard.complete => snap.complete
    BY <1>1, <1>2, Zenon
  <2>3. /\ span.region = r /\ span.state = chunk_state(dec.pos)
        /\ Described(span) = Block(usable, usable + Most(ChunkEnd - usable, 0), decode_pool_header(physical_header))
    BY Zenon DEF base_span, Described, Block
  <2> HIDE DEF span, heard
  <2>4. ASSUME snap.refused = 0, dec.refused = 0 PROVE Described(span) = ChunkBlock(Region, dec.pos)
    BY <1>0, <2>1, <2>3, <2>4, AtChunk, PlainChunk, Zenon
  <2> QED  BY <1>0, <2>1, <2>2, <2>3, <2>4, StrideExact, Zenon
<1> QED  BY <1>3, <1>4, Zenon

\* The chunks of an extent are begun where the chain goes on, or not at all.
LEMMA BeginVsExact == ASSUME WalkInv, ExactInv, BeginVs PROVE ExactInv'
<1>1. pc = "decode" /\ Decoder = "Vs" /\ target' = target /\ r' = r /\ extent' = extent
  BY Zenon DEF BeginVs
<1>2. pc \in Decoding /\ pc \in Inside /\ pc # "Vs"
  BY <1>1, Zenon DEF Decoding, Inside
<1>3. /\ r \in Nat \ {0} /\ ~Named(Region) /\ Kind(Region) = "Vs" /\ DOMAIN vs = {"next", "covered"} /\ dec.refused = 0
      /\ DOMAIN snap = SnapFields /\ snap.refused \in Nat /\ Region' = Region
      /\ snap.complete => snap.refused = 0 /\ FoundNow(Holds(snap.spans, r))
  BY <1>1, <1>2, ExactFacts, Zenon DEF Region
<1>4. /\ extent.base \in Nat /\ extent.end \in Nat /\ extent.base < extent.end /\ DOMAIN dec = DecFields
  BY <1>2, ExtentFacts, Zenon
<1>5. /\ \A a \in Heads(Region) : a \in Nat
      /\ VsHeaders(Region) \in Nat /\ VsHeaders(Region) > 0
  BY <1>2, <1>3, VsFacts, Zenon
<1>6. snap.refused = 0 => vs.next \in Heads(Region) \cup {NoAddress}
  BY <1>1, <1>3, Zenon DEF ExactInv, Chained, Linked
<1>7. snap.complete => /\ vs.next \in Heads(Region) /\ vs.covered \in Nat /\ vs.covered <= vs.next
                       /\ Holds(snap.spans, r) = LiveBefore(Region, vs.next)
  BY <1>1, <1>3, Zenon DEF FoundNow, Front
<1>8. \A x \in {} : \E b \in Region.truth : Within(x, b)
  BY Zenon
<1>9. CASE vs.next < extent.base
  <2>1. /\ snap' = [misses(snap) EXCEPT !.unplaced = @ + extent.end - extent.base]
        /\ vs' = [vs EXCEPT !.next = NoAddress] /\ pc' = "extent" /\ dec' = dec
    BY <1>9, Zenon DEF BeginVs, expected
  <2>2. DOMAIN misses(snap) = SnapFields /\ misses(snap).spans = snap.spans /\ misses(snap).refused = snap.refused /\ misses(snap).complete = FALSE
    BY <1>3, SaysFacts, Zenon
  <2>3. snap'.spans = snap.spans /\ snap'.refused = snap.refused /\ snap'.complete = FALSE
    BY <2>1, <2>2, Zenon DEF SnapFields
  <2>4. DOMAIN vs' = {"next", "covered"} /\ vs'.next = NoAddress
    BY <1>3, <2>1, Zenon
  <2>5. Adds(snap, snap', {}) /\ ~snap'.complete
    BY <2>3, Zenon DEF Adds
  <2>6. pc' \in Inside /\ pc' # "region" /\ pc' \notin {"Lfh", "Segment", "special", "Vs"}
    BY <2>1, Zenon DEF Inside
  <2>7. DecOk'
    <3>1. dec'.refused = 0 /\ dec'.refused \in Nat
      BY <1>3, <2>1
    <3> QED  BY <1>1, <1>3, <1>4, <2>1, <2>3, <2>4, <2>6, <3>1, Zenon DEF DecOk
  <2>8. Linked'
    BY <1>3, <2>4, <2>6, Zenon DEF Linked
  <2> QED  BY <1>1, <1>3, <1>8, <2>1, <2>3, <2>5, <2>6, <2>7, <2>8, ExactStep, Zenon
<1>10. CASE ~(vs.next < extent.base) /\ vs.next >= extent.end
  <2>1. vs' = [vs EXCEPT !.covered = Most(@, extent.base)] /\ pc' = "extent" /\ cursor' = extent.end /\ snap' = snap /\ dec' = dec
    BY <1>10, Zenon DEF BeginVs, expected
  <2>2. DOMAIN vs' = {"next", "covered"} /\ vs'.next = vs.next /\ vs'.covered = Most(vs.covered, extent.base)
    BY <1>3, <2>1, Zenon
  <2>3. Adds(snap, snap', {})
    BY <2>1, Zenon DEF Adds
  <2>4. pc' \in Inside /\ pc' # "region" /\ pc' \notin {"leave", "read", "decode", "Lfh", "Segment", "special", "Vs"}
    BY <2>1, Zenon DEF Inside
  <2>5. DecOk'
    <3>1. dec'.refused = 0 /\ dec'.refused \in Nat
      BY <1>3, <2>1
    <3> QED  BY <1>1, <1>3, <1>4, <2>1, <2>2, <2>4, <3>1, Zenon DEF DecOk
  <2>6. snap.refused = 0 => Linked'
    BY <1>3, <1>6, <2>2, <2>4, Zenon DEF Linked
  <2>7. ASSUME snap.complete PROVE FoundNow(Holds(snap.spans, r))'
    <3>1. /\ vs.next \in Heads(Region) /\ vs.covered \in Nat /\ vs.covered <= vs.next /\ vs.next \in Nat
          /\ Holds(snap.spans, r) = LiveBefore(Region, vs.next)
      BY <1>5, <1>7, <2>7, Zenon
    <3>2. vs'.covered \in Nat /\ vs'.covered <= vs.next /\ extent.end < vs.next + VsHeaders(Region)
      BY <1>4, <1>5, <1>10, <2>2, <3>1 DEF Most
    <3>3. Front(target, Region, Holds(snap.spans, r), vs', extent.end)
      BY <1>3, <2>2, <3>1, <3>2, Zenon DEF Front
    <3>4. Front(target', Region', Holds(snap.spans, r)', vs', cursor')
      BY <1>1, <1>3, <2>1, <3>3, Zenon
    <3> QED  BY <2>1, <2>4, <3>4, Zenon DEF FoundNow
  <2> QED  BY <1>1, <1>3, <1>8, <2>1, <2>3, <2>4, <2>5, <2>6, <2>7, ExactStep, Zenon
<1>11. CASE ~(vs.next < extent.base) /\ ~(vs.next >= extent.end)
  <2>1. /\ dec' = [FreshDecoder EXCEPT !.pos = vs.next, !.resume = vs.next, !.covered = extent.base]
        /\ pc' = "Vs" /\ snap' = snap /\ vs' = vs
    BY <1>11, Zenon DEF BeginVs, expected
  <2>2. /\ DOMAIN dec' = DecFields /\ dec'.refused = 0 /\ dec'.chunks = 0 /\ dec'.lost = FALSE
        /\ dec'.pos = vs.next /\ dec'.resume = vs.next /\ dec'.covered = extent.base
    BY <2>1, Zenon DEF FreshDecoder, DecFields
  <2>3. Adds(snap, snap', {})
    BY <2>1, Zenon DEF Adds
  <2>4. pc' \in Inside /\ pc' # "region" /\ pc' \notin {"leave", "extent", "read", "decode", "Lfh", "Segment", "special"}
    BY <2>1, Zenon DEF Inside
  <2>5. DecOk'
    <3>1. dec'.refused \in Nat /\ dec'.chunks \in Nat
      BY <2>2
    <3> QED  BY <1>1, <1>3, <2>1, <2>2, <2>4, <3>1, Zenon DEF DecOk
  <2>6. snap.refused = 0 => Linked'
    <3>1. vs.next # NoAddress
      BY <1>4, <1>11 DEF NoAddress
    <3> QED  BY <1>3, <1>6, <2>2, <2>4, <3>1, Zenon DEF Linked
  <2>7. ASSUME snap.complete PROVE FoundNow(Holds(snap.spans, r))'
    <3>1. /\ vs.covered \in Nat /\ vs.covered <= vs.next /\ vs.next \in Nat
          /\ Holds(snap.spans, r) = LiveBefore(Region, vs.next)
      BY <1>5, <1>7, <2>7, Zenon
    <3>2. vs.covered \in 0 .. vs.next /\ extent.base \in 0 .. vs.next
      BY <1>4, <1>11, <3>1
    <3> QED  BY <1>1, <1>3, <2>1, <2>2, <2>4, <3>1, <3>2, Zenon DEF FoundNow
  <2> QED  BY <1>1, <1>3, <1>8, <2>1, <2>2, <2>3, <2>4, <2>5, <2>6, <2>7, ExactStep, Zenon
<1> QED  BY <1>9, <1>10, <1>11, Zenon

\* The end of a VS extent hands on where the chain goes on.
LEMMA EndVsExact == ASSUME WalkInv, ExactInv, EndVs PROVE ExactInv'
<1>1. /\ pc = "Vs" /\ target' = target /\ r' = r /\ extent' = extent /\ vs' = VsResume(dec) /\ dec' = FreshDecoder
      /\ AfterExtent(snap) /\ ~VsMore
      /\ snap' = IF ~match_limit_reached(snap) /\ dec.chunks >= TraversalLimit THEN misses(Counted) ELSE Counted
  BY Zenon DEF EndVs, Counted
<1>2. pc \in Decoding /\ pc \in Inside
  BY <1>1, Zenon DEF Decoding, Inside
<1>3. /\ r \in Nat \ {0} /\ ~Named(Region) /\ DOMAIN vs = {"next", "covered"}
      /\ DOMAIN snap = SnapFields /\ snap.refused \in Nat /\ Region' = Region
      /\ snap.complete => snap.refused = 0 /\ dec.refused = 0 /\ FoundNow(Holds(snap.spans, r))
  BY <1>1, <1>2, ExactFacts, Zenon DEF Region
<1>4. Kind(Region) = "Vs" /\ dec.refused \in Nat /\ dec.chunks \in Nat /\ (dec.lost => dec.refused # 0)
  BY <1>1, Zenon DEF ExactInv, DecOk
<1>5. /\ extent.end \in Nat /\ HeaderUnits = VsHeaders(Region) /\ VsHeaders(Region) \in Nat
      /\ \A a \in Heads(Region) : a \in Nat
  BY <1>2, <1>4, ExtentFacts, VsFacts, Zenon
<1>6. snap'.spans = snap.spans /\ snap'.refused = snap.refused + dec.refused /\ (snap'.complete => snap.complete)
  <2>1. /\ DOMAIN Counted = SnapFields /\ Counted.spans = snap.spans /\ Counted.complete = snap.complete
        /\ Counted.refused = snap.refused + dec.refused
    BY <1>3, CountedFacts, Zenon
  <2>2. misses(Counted).spans = Counted.spans /\ misses(Counted).refused = Counted.refused /\ misses(Counted).complete = FALSE
    BY <2>1, SaysFacts, Zenon
  <2> QED  BY <1>1, <2>1, <2>2, Zenon
<1>7. snap'.complete => ~(~match_limit_reached(snap) /\ dec.chunks >= TraversalLimit)
  <2>1. DOMAIN Counted = SnapFields
    BY <1>3, CountedFacts, Zenon
  <2> QED  BY <1>1, <2>1, SaysFacts, Zenon
<1>8. DOMAIN dec' = DecFields /\ dec'.refused = 0 /\ snap'.refused \in Nat /\ (snap'.refused = 0 => snap.refused = 0 /\ dec.refused = 0)
  <2>1. DOMAIN dec' = DecFields /\ dec'.refused = 0
    BY <1>1, Zenon DEF FreshDecoder, DecFields
  <2> QED  BY <1>3, <1>4, <1>6, <2>1
<1>9. DOMAIN vs' = {"next", "covered"} /\ (~dec.lost => vs'.next = dec.resume /\ vs'.covered = Most(vs.covered, dec.covered))
  BY <1>1, <1>3, Zenon DEF VsResume
<1>10. Adds(snap, snap', {})
  BY <1>6, Zenon DEF Adds
<1>11. pc' \in {"leave", "extent"} /\ (match_limit_reached(snap) => pc' = "leave") /\ (~match_limit_reached(snap) => pc' = "extent" /\ cursor' = extent.end)
  BY <1>1, Zenon DEF AfterExtent
<1>12. /\ pc' # "region" /\ pc' \notin {"read", "decode", "Lfh", "Segment", "special", "Vs"}
       /\ pc' \in Inside => pc' # "leave"
  BY <1>11, Zenon DEF Inside
<1>13. DecOk'
  <2>1. dec'.refused \in Nat
    BY <1>8
  <2> QED  BY <1>1, <1>3, <1>4, <1>8, <1>9, <1>12, <2>1, Zenon DEF DecOk
<1>14. ASSUME snap'.complete PROVE snap'.refused = 0 /\ FoundNow(Holds(snap.spans, r))'
  <2>1. snap.complete /\ snap.refused = 0 /\ dec.refused = 0 /\ FoundNow(Holds(snap.spans, r))
    BY <1>3, <1>6, <1>14, Zenon
  <2>2. ~match_limit_reached(snap)
    BY <2>1, Zenon DEF WalkInv, SnapOk, match_limit_reached
  <2>3. /\ Holds(snap.spans, r) = LiveBefore(Region, dec.pos) /\ dec.pos = dec.resume
        /\ vs.covered \in 0 .. dec.pos /\ dec.covered \in 0 .. dec.pos
    BY <1>1, <2>1, Zenon DEF FoundNow
  <2>4. dec.resume \in Heads(Region)
    BY <1>1, <2>1, Zenon DEF ExactInv, Chained, Linked
  <2>5. dec.pos \in Nat
    BY <1>5, <2>3, <2>4, Zenon
  <2>6. ~(dec.pos + HeaderUnits <= extent.end)
    <3>1. ~(dec.chunks >= TraversalLimit)
      BY <1>7, <1>14, <2>2, Zenon
    <3>2. dec.chunks < TraversalLimit
      BY <1>4, <3>1, Sizes
    <3> QED  BY <1>1, <2>2, <3>2, Zenon DEF VsMore
  <2>7. vs'.next = dec.pos /\ vs'.covered = Most(vs.covered, dec.covered)
    BY <1>4, <1>9, <2>1, <2>3, Zenon
  <2>8. vs'.covered \in Nat /\ vs'.covered <= dec.pos /\ extent.end < dec.pos + VsHeaders(Region)
    BY <1>5, <2>3, <2>5, <2>6, <2>7 DEF Most
  <2>9. Front(target, Region, Holds(snap.spans, r), vs', extent.end)
    BY <1>4, <2>3, <2>4, <2>7, <2>8, Zenon DEF Front
  <2>10. Holds(snap'.spans, r') = Holds(snap.spans, r) /\ pc' = "extent" /\ cursor' = extent.end /\ snap'.refused = 0
    <3>1. snap'.refused = 0
      BY <1>6, <2>1
    <3> QED  BY <1>1, <1>6, <1>11, <2>2, <3>1, Zenon
  <2>11. Front(target', Region', Holds(snap'.spans, r'), vs', cursor')
    BY <1>1, <1>3, <2>9, <2>10, Zenon
  <2> QED  BY <1>12, <2>10, <2>11, Zenon DEF FoundNow
<1>15. ASSUME snap'.refused = 0 PROVE snap.refused = 0 /\ dec.refused = 0 /\ Linked'
  <2>1. snap.refused = 0 /\ dec.refused = 0
    BY <1>8, <1>15, Zenon
  <2>2. dec.resume \in Heads(Region) /\ vs'.next = dec.resume
    BY <1>1, <1>4, <1>9, <2>1, Zenon DEF ExactInv, Chained, Linked
  <2> QED  BY <1>3, <1>12, <2>1, <2>2, Zenon DEF Linked
<1>16. \A x \in {} : \E b \in Region.truth : Within(x, b)
  BY Zenon
<1> QED  BY <1>1, <1>3, <1>8, <1>10, <1>12, <1>13, <1>14, <1>15, <1>16, ExactStep, Zenon

-----------------------------------------------------------------------------
(* A walk that is done. *)

\* A walk that is exact at every step is so when it is done.
LEMMA ExactSound == ASSUME WalkInv, ExactInv PROVE RegionsExact
<1>1. ASSUME Done, snap.complete, NEW i \in DOMAIN target.regions
      PROVE  {Described(s) : s \in Allocated(i)} = target.regions[i].truth
  <2>1. \A j \in 1 .. r - 1 : Holds(snap.spans, j) = target.regions[j].truth
    BY <1>1, Zenon DEF ExactInv, Told
  <2>2. r \in 1 .. Len(target.regions) + 1 /\ walked = r - 1 /\ ~(walked < Len(target.regions))
    BY <1>1, Zenon DEF WalkInv, Control, CutShortSaid
  <2>3. Len(target.regions) \in Nat /\ DOMAIN target.regions = 1 .. Len(target.regions)
    <3>1. target.regions \in Seq({target.regions[j] : j \in DOMAIN target.regions})
      BY Zenon, WalkAssumption DEF WalkInv, Known
    <3> QED  BY <3>1
  <2>4. i \in 1 .. r - 1
    BY <2>2, <2>3
  <2> QED  BY <2>1, <2>4, Zenon DEF Holds, Allocated
<1>2. CompleteMeansExact
  BY <1>1, Zenon DEF CompleteMeansExact
<1> QED  BY <1>2, Zenon DEF RegionsExact, ExactInv
=============================================================================
