-------------------------- MODULE RegionWalkProofs --------------------------
(***************************************************************************)
(* Proofs about the walk of the regions, for every target an allocator may *)
(* have laid out, every choice of what can be read, and every point at     *)
(* which the walk is cut short.                                            *)
(***************************************************************************)
EXTENDS RegionExactProofs, WellFoundedInduction, FiniteSetTheorems, TLAPS

-----------------------------------------------------------------------------
(* Runs of units. *)

\* A set of numbers has a first one.
LEMMA FirstOf ==
  ASSUME NEW T, T \subseteq Nat, T # {}
  PROVE  \E x \in T : \A y \in T : x <= y
<1> DEFINE R == OpToRel(<, Nat)
<1>1. \A x, y \in Nat : x < y => <<x, y>> \in R
  BY Zenon DEF OpToRel
<1>2. IsWellFoundedOn(R, Nat)
  BY NatLessThanWellFounded, Zenon
<1> HIDE DEF R
<1>3. PICK x \in T : \A y \in T : ~(<<y, x>> \in R)
  BY <1>2, WFMin, Zenon
<1>4. ASSUME NEW y \in T PROVE x <= y
  <2>1. x \in Nat /\ y \in Nat
    BY Zenon
  <2>2. ~(y < x)
    BY <1>1, <1>3, <2>1, Zenon
  <2> QED BY <2>1, <2>2
<1> QED BY <1>4, Zenon

\* From a unit of S on there is a first one that is not in S, or the end.
LEMMA RunAfter ==
  ASSUME NEW S, NEW u \in Nat, NEW hi \in Nat, u < hi, u \in S
  PROVE  \E y \in u + 1 .. hi : (\A v \in u .. y - 1 : v \in S) /\ (y = hi \/ y \notin S)
<1> DEFINE T == {y \in u + 1 .. hi : y = hi \/ y \notin S}
<1>1. T \subseteq Nat /\ hi \in T
  OBVIOUS
<1>2. PICK y \in T : \A z \in T : y <= z
  BY <1>1, FirstOf, Zenon
<1>3. ASSUME NEW v \in u .. y - 1 PROVE v \in S
  <2>1. v = u \/ (v \in u + 1 .. hi /\ ~(y <= v))
    BY <1>2
  <2>2. v \in u + 1 .. hi /\ v \notin S => v \in T
    BY Zenon
  <2> QED  BY <1>2, <2>1, <2>2, Zenon
<1> QED  BY <1>2, <1>3, Zenon

\* Up to a unit of S there is a last one that is not in S, or the start.
LEMMA RunBefore ==
  ASSUME NEW S, NEW lo \in Nat, NEW u \in Nat, lo <= u, u \in S
  PROVE  \E x \in lo .. u : (\A v \in x .. u : v \in S) /\ (x = lo \/ x - 1 \notin S)
<1> DEFINE T == {n \in 0 .. u - lo : n = u - lo \/ u - n - 1 \notin S}
<1>1. T \subseteq Nat /\ u - lo \in T
  OBVIOUS
<1>2. PICK n \in T : \A z \in T : n <= z
  BY <1>1, FirstOf, Zenon
<1>3. u - n \in lo .. u /\ (u - n = lo \/ u - n - 1 \notin S)
  OBVIOUS
<1>4. ASSUME NEW v \in u - n .. u PROVE v \in S
  <2>1. CASE v = u
    BY <2>1, Zenon
  <2>2. CASE v # u
    <3> DEFINE m == u - v - 1
    <3>1. m \in 0 .. u - lo /\ ~(n <= m) /\ u - m - 1 = v
      BY <2>2, <1>3
    <3>2. m \notin T
      BY <1>2, <3>1, Zenon
    <3> QED  BY <3>1, <3>2, Zenon
  <2> QED  BY <2>1, <2>2, Zenon
<1> QED  BY <1>3, <1>4, Zenon

-----------------------------------------------------------------------------
(* What a step records. *)

\* Recording a span of the region in hand leaves a snapshot sound, before the threshold.
LEMMA RecordOk ==
  ASSUME NEW s, NEW span, SnapOk(limit, target, s), LimitOk(limit), s.stopped = 0, span.region = r
  PROVE  SnapOk(limit, target, record_span(s, span))
<1> DEFINE n == record_span(s, span)
           old == Matches(limit, target, s.spans)
           new == Matches(limit, target, n.spans)
<1>1. DOMAIN s = SnapFields
  BY Zenon DEF SnapOk
<1>2. /\ DOMAIN n = SnapFields
      /\ n.spans = s.spans \cup {span} /\ n.said = s.said /\ n.refused = s.refused
      /\ IF limit = NoLimit \/ ~accepts(span)
         THEN n.complete = s.complete /\ n.stopped = s.stopped /\ n.matched = s.matched
         ELSE /\ n.matched = s.matched + 1
              /\ IF s.matched + 1 < limit.matches THEN n.complete = s.complete /\ n.stopped = s.stopped
                 ELSE n.complete = FALSE /\ n.stopped = limit.matches
  BY <1>1, RecordFacts, ZenonT(40)
<1> HIDE DEF n
<1>3. accepts(span) <=> span.state = "Allocated" /\ span.tag = limit.tag /\ target.regions[span.region].paged \in limit.paged
  BY Zenon DEF accepts, Region
<1>4. new = old \cup (IF accepts(span) THEN {span} ELSE {})
  <2>1. \A x : x \in new <=> x \in n.spans /\ x.state = "Allocated" /\ x.tag = limit.tag
                             /\ target.regions[x.region].paged \in limit.paged
    BY Zenon DEF Matches
  <2>2. \A x : x \in old <=> x \in s.spans /\ x.state = "Allocated" /\ x.tag = limit.tag
                             /\ target.regions[x.region].paged \in limit.paged
    BY Zenon DEF Matches
  <2> QED  BY <1>2, <1>3, <2>1, <2>2, Zenon
<1> HIDE DEF old, new
<1>5. CASE limit = NoLimit \/ ~accepts(span)
  <2>1. n.complete = s.complete /\ n.stopped = s.stopped /\ n.matched = s.matched
    BY <1>2, <1>5, Zenon
  <2>2. limit # NoLimit => new = old
    BY <1>4, <1>5, Zenon
  <2> QED  BY <1>2, <2>1, <2>2, Zenon DEF SnapOk, n, old, new
<1>6. CASE limit # NoLimit /\ accepts(span)
  <2>1. /\ s.matched \in Nat /\ s.matched < limit.matches
        /\ IsFiniteSet(old) /\ Cardinality(old) <= s.matched
    BY <1>6, Zenon DEF SnapOk, old
  <2>2. limit.matches \in Nat \ {0}
    BY <1>6, Zenon DEF LimitOk
  <2>3. IsFiniteSet(new) /\ Cardinality(new) <= s.matched + 1
    <3>1. new = old \cup {span}
      BY <1>4, <1>6, Zenon
    <3>2. IsFiniteSet(new) /\ Cardinality(new) = IF span \in old THEN Cardinality(old) ELSE Cardinality(old) + 1
      BY <2>1, <3>1, FS_AddElement, Zenon
    <3>3. Cardinality(old) \in Nat
      BY <2>1, FS_CardinalityType, Zenon
    <3> QED  BY <2>1, <3>2, <3>3
  <2>4. CASE s.matched + 1 < limit.matches
    <3>1. n.complete = s.complete /\ n.stopped = s.stopped /\ n.matched = s.matched + 1
      BY <1>2, <1>6, <2>4, Zenon
    <3>2. s.matched + 1 \in Nat /\ s.matched + 1 <= limit.matches
      BY <2>1, <2>2, <2>4
    <3> QED  BY <1>2, <3>1, <3>2, <2>3, <2>4, Zenon DEF SnapOk, n, new
  <2>5. CASE ~(s.matched + 1 < limit.matches)
    <3>1. n.complete = FALSE /\ n.stopped = limit.matches /\ n.matched = s.matched + 1
      BY <1>2, <1>6, <2>5, Zenon
    <3>2. s.matched + 1 \in Nat /\ s.matched + 1 <= limit.matches /\ limit.matches # 0
      BY <2>1, <2>2, <2>5
    <3> QED  BY <1>2, <2>2, <3>1, <3>2, <2>3, Zenon DEF SnapOk, n, new
  <2> QED  BY <2>4, <2>5, Zenon
<1> QED  BY <1>5, <1>6, Zenon

\* What a hole changes: gaps are recorded, none of them an allocation.
LEMMA UnreadableFacts ==
  ASSUME NEW s, NEW lo, NEW hi, DOMAIN s = SnapFields, s.complete \in BOOLEAN
  PROVE  LET n == unreadable(s, lo, hi)
         IN /\ DOMAIN n = SnapFields
            /\ n.said = s.said /\ n.stopped = s.stopped /\ n.matched = s.matched /\ n.refused = s.refused
            /\ n.complete \in BOOLEAN
            /\ \A x \in n.spans : x.state = "Allocated" => x \in s.spans
            /\ s.spans \subseteq n.spans
            /\ n.complete => s.complete /\ \A g \in Runs(lo, hi) : ~committed_run(g[1])
            /\ ~n.complete => ~s.complete \/ \E x \in n.spans : is_coverage_gap(x.state)
<1> DEFINE gaps == {gap(g) : g \in Runs(lo, hi)}
           n == unreadable(s, lo, hi)
<1>1. /\ DOMAIN n = SnapFields
      /\ n.said = s.said /\ n.stopped = s.stopped /\ n.matched = s.matched /\ n.refused = s.refused
      /\ n.spans = s.spans \cup gaps
      /\ n.complete = (s.complete /\ \A g \in gaps : ~is_coverage_gap(g.state))
  BY Zenon DEF unreadable, SnapFields
<1> HIDE DEF n
<1>2. \A g : gap(g).state = IF committed_run(g[1]) THEN "Unreadable" ELSE "Uncommitted"
  BY Zenon DEF gap, base_span
<1>3. \A x \in gaps : \E g \in Runs(lo, hi) : x.state = IF committed_run(g[1]) THEN "Unreadable" ELSE "Uncommitted"
  BY <1>2, Zenon
<1>4. \A g \in Runs(lo, hi) : gap(g) \in gaps
  BY Zenon
<1> HIDE DEF gaps
<1>5. \A x \in gaps : x.state # "Allocated"
  BY <1>3, Zenon
<1>6. (\A g \in gaps : ~is_coverage_gap(g.state)) => \A g \in Runs(lo, hi) : ~committed_run(g[1])
  BY <1>2, <1>4, Zenon DEF is_coverage_gap
<1>7. n.complete \in BOOLEAN
  BY <1>1, Zenon
<1>8. n.complete => s.complete /\ \A g \in gaps : ~is_coverage_gap(g.state)
  BY <1>1, Zenon
<1>9. ~n.complete => ~s.complete \/ \E x \in n.spans : is_coverage_gap(x.state)
  BY <1>1, Zenon
<1>10. \A x \in n.spans : x.state = "Allocated" => x \in s.spans
  BY <1>1, <1>5, Zenon
<1>11. s.spans \subseteq n.spans
  BY <1>1, Zenon
<1> QED  BY <1>1, <1>6, <1>7, <1>8, <1>9, <1>10, <1>11, Zenon DEF n

\* What a hole does not change.
LEMMA UnreadableKeeps ==
  ASSUME NEW s, NEW lo, NEW hi, DOMAIN s = SnapFields
  PROVE  /\ DOMAIN unreadable(s, lo, hi) = SnapFields
         /\ unreadable(s, lo, hi).stopped = s.stopped /\ unreadable(s, lo, hi).refused = s.refused
  BY Zenon DEF unreadable, SnapFields

\* A hole leaves a snapshot sound.
LEMMA UnreadableOk ==
  ASSUME NEW l, NEW t, NEW s, NEW lo, NEW hi, SnapOk(l, t, s)
  PROVE  SnapOk(l, t, unreadable(s, lo, hi))
<1> DEFINE n == unreadable(s, lo, hi)
<1>1. DOMAIN s = SnapFields /\ s.complete \in BOOLEAN
  BY Zenon DEF SnapOk
<1>2. /\ DOMAIN n = SnapFields
      /\ n.said = s.said /\ n.stopped = s.stopped /\ n.matched = s.matched /\ n.refused = s.refused
      /\ n.complete \in BOOLEAN
      /\ \A x \in n.spans : x.state = "Allocated" => x \in s.spans
      /\ s.spans \subseteq n.spans
      /\ n.complete => s.complete
      /\ ~n.complete => ~s.complete \/ \E x \in n.spans : is_coverage_gap(x.state)
  BY <1>1, UnreadableFacts, ZenonT(40)
<1> HIDE DEF n
<1>3. Matches(l, t, n.spans) = Matches(l, t, s.spans)
  BY <1>2, Zenon DEF Matches
<1>4. s.stopped # 0 => ~n.complete
  BY <1>2, Zenon DEF SnapOk
<1>5. ~n.complete => n.said \/ n.stopped # 0 \/ \E x \in n.spans : is_coverage_gap(x.state)
  BY <1>2, Zenon DEF SnapOk
<1> QED  BY <1>2, <1>3, <1>4, <1>5, ZenonT(40) DEF SnapOk, n

\* A committed unit that was not read leaves no snapshot complete.
LEMMA MissedSaid ==
  ASSUME NEW s, NEW lo \in Nat, NEW hi \in Nat, NEW u \in lo .. hi - 1, committed_run(u),
         DOMAIN s = SnapFields, s.complete \in BOOLEAN
  PROVE  unreadable(s, lo, hi).complete = FALSE
<1> DEFINE S == {v \in Nat : committed_run(v)}
<1>1. u \in Nat /\ u < hi /\ lo <= u /\ u \in S
  OBVIOUS
<1>2. PICK y \in u + 1 .. hi : (\A v \in u .. y - 1 : v \in S) /\ (y = hi \/ y \notin S)
  BY <1>1, RunAfter, Zenon
<1>3. PICK x \in lo .. u : (\A v \in x .. u : v \in S) /\ (x = lo \/ x - 1 \notin S)
  BY <1>1, RunBefore, Zenon
<1>4. \A v \in x .. y - 1 : v \in x .. u \/ v \in u .. y - 1
  OBVIOUS
<1>5. \A v \in x .. y - 1 : committed_run(v)
  BY <1>2, <1>3, <1>4, Zenon
<1>6. x \in lo .. hi - 1 /\ y \in lo + 1 .. hi /\ x < y /\ x \in x .. y - 1 /\ (x # lo => x - 1 \in Nat) /\ y \in Nat
  OBVIOUS
<1>7. committed_run(x) /\ (x = lo \/ ~committed_run(x - 1)) /\ (y = hi \/ ~committed_run(y))
  BY <1>2, <1>3, <1>5, <1>6, Zenon
<1> HIDE DEF S
<1>8. <<x, y>> \in Runs(lo, hi)
  <2> DEFINE g == <<x, y>>
  <2>1. g \in (lo .. hi - 1) \X (lo + 1 .. hi) /\ g[1] = x /\ g[2] = y
    BY <1>6, Zenon
  <2> HIDE DEF g
  <2>2. /\ g[1] < g[2]
        /\ \A v \in g[1] .. g[2] - 1 : committed_run(v) = committed_run(g[1])
        /\ g[1] = lo \/ committed_run(g[1] - 1) # committed_run(g[1])
        /\ g[2] = hi \/ committed_run(g[2]) # committed_run(g[1])
    <3>1. \A v : committed_run(v) \in BOOLEAN
      BY Zenon DEF committed_run, Committed
    <3>2. \A v, w : committed_run(v) /\ committed_run(w) => committed_run(v) = committed_run(w)
      BY <3>1, Zenon
    <3>3. \A v, w : ~committed_run(v) /\ committed_run(w) => committed_run(v) # committed_run(w)
      BY <3>1, Zenon
    <3> QED  BY <1>5, <1>6, <1>7, <2>1, <3>2, <3>3, ZenonT(40)
  <2>3. g \in Runs(lo, hi)
    BY <2>1, <2>2, Zenon DEF Runs
  <2> QED  BY <2>3, Zenon DEF g
<1>9. <<x, y>>[1] = x
  BY Zenon
<1>10. ~unreadable(s, lo, hi).complete /\ unreadable(s, lo, hi).complete \in BOOLEAN
  BY <1>7, <1>8, <1>9, UnreadableFacts, Zenon
<1> QED  BY <1>10, Zenon

-----------------------------------------------------------------------------
(* Extents. *)

\* Where one page ends and another begins.
LEMMA PageTurns ==
  ASSUME NEW u \in Nat, PageOf(u) # PageOf(u + 1)
  PROVE  (u + 1) % Page = 0
  BY Sizes DEF PageOf

\* The page that follows begins where this one ends.
LEMMA NextPage ==
  ASSUME NEW u \in Nat
  PROVE  (PageStart(u) + Page) % Page = 0 /\ PageStart(u) + Page \in Nat /\ PageStart(u) + Page > u
  BY Sizes DEF PageStart, PageOf

\* Where the engine says the next extent is.
Found(b, e) ==
  /\ b = CHOOSE u \in Ahead : \A v \in Ahead : u <= v
  /\ e = CHOOSE u \in b + 1 .. RegionEnd : (\A v \in b .. u - 1 : Readable(v)) /\ (u = RegionEnd \/ ~Readable(u))

\* A query that finds something finds an extent, and nothing before it can be read.
LEMMA ExtentFound ==
  ASSUME Known, r \in 1 .. Len(target.regions), NEW b, NEW e,
         cursor \in Region.address .. RegionEnd, Edge(Region, cursor), Ahead # {}, Found(b, e)
  PROVE  /\ ExtentOk(target, Region, cursor, [base |-> b, end |-> e, got |-> 0])
         /\ \A u \in cursor .. b - 1 : ~Readable(u)
<1>0. RegionEnd = EndOf(Region) /\ Region.address \in Nat /\ EndOf(Region) \in Nat
  BY RegionFacts, Zenon
<1>c. cursor \in Nat
  BY <1>0
<1>1. Ahead \subseteq Nat
  BY <1>0, <1>c DEF Ahead
<1>2. b \in Ahead /\ \A v \in Ahead : b <= v
  <2>1. \E u \in Ahead : \A v \in Ahead : u <= v
    BY <1>1, FirstOf, Zenon
  <2> QED  BY <2>1, Zenon DEF Found
<1>3. b \in cursor .. RegionEnd - 1 /\ Readable(b)
  BY <1>2, Zenon DEF Ahead
<1>4. b \in Nat /\ cursor <= b /\ b < RegionEnd
  BY <1>0, <1>3, <1>c
<1>5. ASSUME NEW u \in cursor .. b - 1 PROVE ~Readable(u)
  <2>1. u \in cursor .. RegionEnd - 1 /\ ~(b <= u)
    BY <1>0, <1>4, <1>c
  <2> QED  BY <1>2, <2>1, ZenonT(40) DEF Ahead
<1>6. Edge(Region, b)
  <2>1. CASE b = cursor
    BY <2>1, Zenon
  <2>2. CASE b # cursor
    <3>1. b - 1 \in cursor .. b - 1 /\ b - 1 \in Nat /\ (b - 1) + 1 = b
      BY <1>4, <1>c, <2>2
    <3>2. PageOf(b - 1) # PageOf((b - 1) + 1)
      BY <1>3, <1>5, <3>1, Zenon DEF Readable
    <3>3. ((b - 1) + 1) % Page = 0
      BY <3>1, <3>2, PageTurns, Zenon
    <3> QED  BY <3>1, <3>3, ZenonT(40) DEF Edge
  <2> QED  BY <2>1, <2>2, Zenon
<1>7. e \in b + 1 .. RegionEnd /\ (\A v \in b .. e - 1 : Readable(v)) /\ (e = RegionEnd \/ ~Readable(e))
  <2> DEFINE S == {v \in Nat : Readable(v)}
  <2>1. PICK y \in b + 1 .. RegionEnd : (\A v \in b .. y - 1 : v \in S) /\ (y = RegionEnd \/ y \notin S)
    <3>1. b \in S /\ b < RegionEnd /\ RegionEnd \in Nat
      BY <1>0, <1>3, <1>4, ZenonT(40)
    <3> HIDE DEF S
    <3> QED  BY <3>1, <1>4, RunAfter, Zenon
  <2>2. y \in Nat
    BY <1>4, <1>0
  <2>3. (\A v \in b .. y - 1 : Readable(v)) /\ (y = RegionEnd \/ ~Readable(y))
    BY <2>1, <2>2, Zenon
  <2> QED  BY <2>1, <2>3, Zenon DEF Found
<1>8. e \in Nat /\ b < e /\ e <= RegionEnd
  BY <1>0, <1>4, <1>7
<1>9. Edge(Region, e)
  <2>1. CASE e = RegionEnd
    BY <2>1, <1>0, Zenon DEF Edge
  <2>2. CASE ~Readable(e)
    <3>1. e - 1 \in b .. e - 1 /\ e - 1 \in Nat /\ (e - 1) + 1 = e
      BY <1>4, <1>8
    <3>2. PageOf(e - 1) # PageOf((e - 1) + 1)
      BY <1>7, <2>2, <3>1, Zenon DEF Readable
    <3>3. ((e - 1) + 1) % Page = 0
      BY <3>1, <3>2, PageTurns, Zenon
    <3> QED  BY <3>1, <3>3, Zenon DEF Edge
  <2> QED  BY <2>1, <2>2, <1>7, Zenon
<1>10. ExtentOk(target, Region, cursor, [base |-> b, end |-> e, got |-> 0])
  <2> DEFINE x == [base |-> b, end |-> e, got |-> 0]
  <2>1. DOMAIN x = {"base", "end", "got"} /\ x.got = 0 /\ x.base = b /\ x.end = e /\ 0 \in Nat
    BY Zenon
  <2> HIDE DEF x
  <2>2. ExtentOk(target, Region, cursor, x)
    BY <2>1, <1>0, <1>4, <1>6, <1>7, <1>8, <1>9, Zenon DEF ExtentOk, Readable
  <2> QED  BY <2>2, Zenon DEF x
<1> QED  BY <1>5, <1>10, Zenon

-----------------------------------------------------------------------------
(* The accounts of the walk. *)

\* What the invariant is for.
LEMMA WalkInvSound == WalkInv => WalkAccounts
<1> SUFFICES ASSUME WalkInv PROVE WalkAccounts
  BY Zenon
<1>1. CutShortSaid
  BY Zenon DEF WalkInv, Control
<1>2. Explained
  BY Zenon DEF WalkInv, SnapOk, Explained
<1>3. PromptStop
  <2>1. late \in {0, 1}
    BY Zenon DEF WalkInv, Pace
  <2> QED  BY <2>1 DEF PromptStop
<1>4. StopsAtThreshold
  <2>1. CASE limit = NoLimit
    BY <2>1, Zenon DEF StopsAtThreshold
  <2>2. CASE limit # NoLimit
    <3>1. /\ snap.matched \in Nat /\ snap.matched <= limit.matches
          /\ IsFiniteSet(Matches(limit, target, snap.spans)) /\ Cardinality(Matches(limit, target, snap.spans)) <= snap.matched
      BY <2>2, Zenon DEF WalkInv, SnapOk
    <3>2. Cardinality(Matches(limit, target, snap.spans)) \in Nat
      BY <3>1, FS_CardinalityType, Zenon
    <3>3. limit.matches \in Nat
      BY <2>2, KnownFacts, Zenon DEF WalkInv, LimitOk
    <3>4. Cardinality(Matches(limit, target, snap.spans)) <= limit.matches
      BY <3>1, <3>2, <3>3
    <3> QED  BY <3>4, Zenon DEF StopsAtThreshold, Matches
  <2> QED  BY <2>1, <2>2, Zenon
<1>5. StallsBounded
  <2>1. stalled.run \in 0 .. MaxStalls
    BY Zenon DEF WalkInv, Pace
  <2> QED  BY <2>1, Sizes DEF StallsBounded
<1> QED  BY <1>1, <1>2, <1>3, <1>4, <1>5, Zenon DEF WalkAccounts

\* The walk begins with its accounts in order.
LEMMA WalkInitInv == Init => WalkInv
<1> SUFFICES ASSUME Init PROVE WalkInv
  BY Zenon
<1>1. Known
  BY Zenon DEF Init, Known
<1>2. Len(target.regions) \in Nat
  BY <1>1, KnownFacts, Zenon
<1>3. PICK clean \in BOOLEAN :
        snap = [spans |-> {}, complete |-> clean, said |-> ~clean, budget_expired |-> FALSE,
                stopped |-> 0, matched |-> 0, refused |-> 0, unplaced |-> 0,
                pages |-> 0, skipped |-> 0, recovered |-> 0]
  BY Zenon DEF Init
<1>4. /\ DOMAIN snap = SnapFields /\ snap.spans = {} /\ snap.complete = clean /\ snap.said = ~clean
      /\ snap.stopped = 0 /\ snap.matched = 0 /\ snap.refused = 0
  BY <1>3, Zenon DEF SnapFields
<1>5. SnapOk(limit, target, snap)
  <2>1. Matches(limit, target, snap.spans) = {}
    BY <1>4, Zenon DEF Matches
  <2>2. IsFiniteSet({}) /\ Cardinality({}) = 0
    BY FS_EmptySet, Zenon
  <2>3. limit # NoLimit => limit.matches \in Nat \ {0}
    BY <1>1, KnownFacts, Zenon DEF LimitOk
  <2>4. limit # NoLimit => 0 <= limit.matches /\ 0 < limit.matches
    BY <2>3
  <2>5. 0 \in Nat /\ 0 <= 0
    OBVIOUS
  <2>6. snap.complete \in BOOLEAN /\ snap.said \in BOOLEAN /\ (~snap.complete => snap.said)
    BY <1>4, Zenon
  <2> QED  BY <1>4, <2>1, <2>2, <2>4, <2>5, <2>6, Zenon DEF SnapOk
<1>6. pc = "region" /\ r = 1 /\ walked = 0 /\ stalled = [run |-> 0, here |-> FALSE] /\ late = 0
  BY Zenon DEF Init
<1>7. Control
  BY <1>2, <1>4, <1>6 DEF Control, Inside, CutShortSaid, Done
<1>8. Pace
  BY <1>6, Sizes DEF Pace, Inside
<1>9. Place
  BY <1>6, Zenon DEF Place, Inside
<1> QED  BY <1>1, <1>5, <1>7, <1>8, <1>9, Zenon DEF WalkInv

\* The clock and the operator change nothing that is accounted for.
LEMMA ClockStep == ASSUME WalkInv, Expire \/ Interrupt PROVE WalkInv'
<1>1. /\ target' = target /\ limit' = limit /\ pc' = pc /\ r' = r /\ walked' = walked /\ ranout' = ranout
      /\ cursor' = cursor /\ stalled' = stalled /\ extent' = extent /\ snap' = snap /\ late' = late
      /\ expired' = expired \/ expired' = TRUE
  BY Zenon DEF Expire, Interrupt
<1>2. Known'
  BY <1>1, Zenon DEF WalkInv, Known
<1>3. SnapOk(limit, target, snap)'
  BY <1>1, Zenon DEF WalkInv
<1>4. Control'
  BY <1>1, Zenon DEF WalkInv, Control, CutShortSaid, Done
<1>5. Pace'
  BY <1>1, Zenon DEF WalkInv, Pace
<1>6. Place'
  BY <1>1, Zenon DEF WalkInv, Place, Region, RegionEnd, ExtentOk, Edge
<1> QED  BY <1>2, <1>3, <1>4, <1>5, <1>6, ZenonT(40) DEF WalkInv

\* A region is begun: named in one span, or walked from its start.
LEMMA BeginRegionStep == ASSUME WalkInv, BeginRegion PROVE WalkInv'
<1>1. /\ target' = target /\ limit' = limit /\ r' = r /\ walked' = walked /\ ranout' = ranout
      /\ extent' = extent /\ late' = late /\ expired' = expired /\ pc = "region" /\ r <= Len(target.regions)
  BY Zenon DEF BeginRegion
<1>2. Known'
  BY <1>1, Zenon DEF WalkInv, Known
<1>3. LimitOk(limit) /\ Len(target.regions) \in Nat
  BY KnownFacts, Zenon DEF WalkInv
<1>4. r \in 1 .. Len(target.regions) /\ walked = r - 1 /\ snap.stopped = 0
  BY <1>1, <1>3 DEF WalkInv, Control
<1>5. CASE Named(Region)
  <2>1. snap' = (IF Region.size = 0 THEN snap ELSE record_span(snap, NamedSpan)) /\ pc' = "leave"
        /\ cursor' = cursor /\ stalled' = stalled
    BY <1>5, Zenon DEF BeginRegion
  <2>2. NamedSpan.region = r
    BY Zenon DEF NamedSpan, base_span
  <2>3. SnapOk(limit, target, record_span(snap, NamedSpan))
    BY <1>3, <1>4, <2>2, RecordOk, Zenon DEF WalkInv
  <2>4. SnapOk(limit, target, snap)'
    BY <1>1, <2>1, <2>3, ZenonT(40) DEF WalkInv
  <2>5. Control'
    BY <1>1, <1>3, <1>4, <2>1 DEF Control, Inside, CutShortSaid, Done
  <2>6. Pace'
    BY <1>1, <2>1, Zenon DEF WalkInv, Pace, Inside
  <2>7. Place'
    BY <2>1, Zenon DEF Place, Inside
  <2> QED  BY <1>2, <2>4, <2>5, <2>6, <2>7, Zenon DEF WalkInv
<1>6. CASE ~Named(Region)
  <2>1. cursor' = Region.address /\ stalled' = [run |-> 0, here |-> FALSE] /\ pc' = "extent" /\ snap' = snap
    BY <1>6, Zenon DEF BeginRegion
  <2>2. SnapOk(limit, target, snap)'
    BY <1>1, <2>1, Zenon DEF WalkInv
  <2>3. Control'
    BY <1>1, <1>3, <1>4, <2>1 DEF Control, Inside, CutShortSaid, Done
  <2>4. Pace'
    BY <1>1, <2>1, Sizes DEF WalkInv, Pace, Inside
  <2>5. Region.address \in Nat /\ RegionEnd = EndOf(Region) /\ EndOf(Region) \in Nat /\ Region.address <= EndOf(Region)
    BY <1>4, RegionFacts, Zenon DEF WalkInv
  <2>6. Region.address \in Region.address .. RegionEnd
    BY <2>5
  <2>7. Region' = Region /\ RegionEnd' = RegionEnd
    BY <1>1, Zenon DEF Region, RegionEnd
  <2>8. Place'
    <3>1. cursor' \in (Region.address .. RegionEnd)' /\ Edge(Region, cursor)'
      BY <2>1, <2>6, <2>7, Zenon DEF Edge
    <3>2. pc' \notin Inside \ {"extent"}
      BY <2>1, Zenon
    <3> QED  BY <3>1, <3>2, Zenon DEF Place
  <2> QED  BY <1>2, <2>2, <2>3, <2>4, <2>8, Zenon DEF WalkInv
<1> QED  BY <1>5, <1>6, ZenonT(40)

\* A region is left, for the next one or because the threshold was reached.
LEMMA LeaveRegionStep == ASSUME WalkInv, LeaveRegion PROVE WalkInv'
<1>1. /\ target' = target /\ limit' = limit /\ ranout' = ranout /\ snap' = snap /\ stalled' = stalled
      /\ late' = late /\ expired' = expired /\ pc \in {"leave", "extent"}
  BY Zenon DEF LeaveRegion
<1>2. Known'
  BY <1>1, Zenon DEF WalkInv, Known
<1>3. SnapOk(limit, target, snap)'
  BY <1>1, Zenon DEF WalkInv
<1>4. Len(target.regions) \in Nat /\ r \in 1 .. Len(target.regions) /\ walked = r - 1
  <2>1. Len(target.regions) \in Nat
    BY KnownFacts, Zenon DEF WalkInv
  <2> QED  BY <1>1, <2>1 DEF WalkInv, Control, Inside
<1>5. pc' \in {"finish", "region"}
  BY Zenon DEF LeaveRegion
<1>6. Control'
  <2>1. CASE snap.stopped # 0
    <3>1. pc' = "finish" /\ r' = r /\ walked' = walked
      BY <2>1, Zenon DEF LeaveRegion, match_limit_reached
    <3> QED  BY <1>1, <1>4, <2>1, <3>1 DEF Control, Inside, CutShortSaid, Done
  <2>2. CASE snap.stopped = 0
    <3>1. pc' = "region" /\ r' = r + 1 /\ walked' = walked + 1
      BY <2>2, Zenon DEF LeaveRegion, match_limit_reached
    <3> QED  BY <1>1, <1>4, <2>2, <3>1 DEF Control, Inside, CutShortSaid, Done
  <2> QED  BY <2>1, <2>2, Zenon
<1>7. Pace'
  BY <1>1, <1>5, ZenonT(40) DEF WalkInv, Pace, Inside
<1>8. Place'
  BY <1>5, Zenon DEF Place, Inside
<1> QED  BY <1>2, <1>3, <1>6, <1>7, <1>8, Zenon DEF WalkInv

\* The walk is over, and says so when it ran out of time.
LEMMA FinishStep == ASSUME WalkInv, Finish PROVE WalkInv'
<1>1. /\ target' = target /\ limit' = limit /\ ranout' = ranout /\ stalled' = stalled /\ r' = r /\ walked' = walked
      /\ late' = late /\ expired' = expired /\ pc' = "done"
      /\ snap' = IF ranout THEN [misses(snap) EXCEPT !.budget_expired = TRUE] ELSE snap
  BY Zenon DEF Finish
<1>2. Known'
  BY <1>1, Zenon DEF WalkInv, Known
<1>3. Len(target.regions) \in Nat /\ r \in 1 .. Len(target.regions) + 1 /\ walked = r - 1
  BY KnownFacts, Zenon DEF WalkInv, Control
<1>4. (pc = "finish" /\ (ranout \/ snap.stopped # 0)) \/ (pc = "region" /\ r > Len(target.regions))
  BY Zenon DEF Finish, WalkInv, Control
<1>5. DOMAIN snap = SnapFields /\ SnapOk(limit, target, misses(snap))
  BY SaysOk, Zenon DEF WalkInv, SnapOk
<1> DEFINE n == [misses(snap) EXCEPT !.budget_expired = TRUE]
<1>6. /\ DOMAIN n = SnapFields /\ n.budget_expired = TRUE /\ n.spans = misses(snap).spans
      /\ n.complete = misses(snap).complete /\ n.said = misses(snap).said /\ n.stopped = misses(snap).stopped
      /\ n.matched = misses(snap).matched /\ n.refused = misses(snap).refused
  <2>1. DOMAIN misses(snap) = SnapFields
    BY <1>5, SaysFacts, ZenonT(40)
  <2> QED  BY <2>1, Zenon DEF SnapFields
<1> HIDE DEF n
<1>7. SnapOk(limit, target, n) /\ n.complete = FALSE
  BY <1>5, <1>6, SaysFacts, Zenon DEF SnapOk
<1>8. SnapOk(limit, target, snap)'
  BY <1>1, <1>7, ZenonT(40) DEF WalkInv, n
<1>9. ranout => ~snap'.complete /\ snap'.budget_expired
  BY <1>1, <1>6, <1>7, ZenonT(40) DEF n
<1>10. ~ranout => snap' = snap
  BY <1>1, Zenon
<1>11. snap.stopped # 0 => ~snap.complete
  BY Zenon DEF WalkInv, SnapOk
<1>12. Control'
  <2>1. walked < Len(target.regions) => pc = "finish" /\ (ranout \/ snap.stopped # 0)
    BY <1>3, <1>4
  <2>2. CutShortSaid'
    BY <1>1, <1>9, <1>10, <1>11, <2>1, Zenon DEF CutShortSaid
  <2> QED  BY <1>1, <1>3, <2>2, Zenon DEF Control, Inside
<1>13. Pace'
  BY <1>1, Zenon DEF WalkInv, Pace, Inside
<1>14. Place'
  BY <1>1, Zenon DEF Place, Inside
<1> QED  BY <1>2, <1>8, <1>12, <1>13, <1>14, Zenon DEF WalkInv

\* A poll that says stop ends the walk.
LEMMA HaltStep == ASSUME WalkInv, Halt \/ PollFails PROVE WalkInv'
<1>1. /\ target' = target /\ limit' = limit /\ stalled' = stalled /\ r' = r /\ walked' = walked
      /\ late' = late /\ expired' = expired /\ snap' = snap
      /\ pc' = "failed" \/ (pc' = "finish" /\ ranout' = TRUE)
  BY Zenon DEF Halt, PollFails
<1>2. Known'
  BY <1>1, Zenon DEF WalkInv, Known
<1>3. SnapOk(limit, target, snap)'
  BY <1>1, Zenon DEF WalkInv
<1>4. r \in 1 .. Len(target.regions) + 1 /\ walked = r - 1
  BY Zenon DEF WalkInv, Control
<1>5. Control'
  BY <1>1, <1>4, Zenon DEF Control, Inside, CutShortSaid, Done
<1>6. Pace'
  BY <1>1, Zenon DEF WalkInv, Pace, Inside
<1>7. Place'
  BY <1>1, Zenon DEF Place, Inside
<1> QED  BY <1>2, <1>3, <1>5, <1>6, <1>7, Zenon DEF WalkInv

\* A step of the walk inside a region, and one that leaves it with the region in hand.
LEMMA InsideStep ==
  ASSUME WalkInv, pc \in Inside,
         target' = target, limit' = limit, r' = r, walked' = walked, ranout' = ranout, expired' = expired,
         SnapOk(limit, target, snap)', snap'.stopped # 0 => pc' \in {"leave", "Vs"},
         pc' \in Inside \cup {"leave"},
         DOMAIN stalled' = {"run", "here"}, stalled'.run \in 0 .. MaxStalls, pc' \in Inside => stalled'.run < MaxStalls,
         late' \in {0, 1}, late' = 1 => expired /\ pc' # "read",
         pc' \in Inside => cursor' \in Region.address .. RegionEnd /\ Edge(Region, cursor'),
         pc' \in Inside \ {"extent"} => ExtentOk(target, Region, cursor', extent')
  PROVE  WalkInv'
<1>1. Known'
  BY Zenon DEF WalkInv, Known
<1>2. Region' = Region /\ RegionEnd' = RegionEnd
  BY Zenon DEF Region, RegionEnd
<1>3. r \in 1 .. Len(target.regions) + 1 /\ r <= Len(target.regions) /\ walked = r - 1
  BY Zenon DEF WalkInv, Control
<1>4. pc' # "finish" /\ pc' # "done"
  BY Zenon DEF Inside
<1>5. Control'
  <2>1. CutShortSaid'
    BY <1>4, Zenon DEF CutShortSaid, Done
  <2>2. snap'.stopped # 0 => pc' \in {"leave", "Vs", "finish", "done", "failed"}
    BY Zenon
  <2>3. pc' \in Inside \cup {"region", "leave", "finish", "done", "failed"}
    BY Zenon
  <2> QED  BY <1>3, <1>4, <2>1, <2>2, <2>3, ZenonT(40) DEF Control
<1>6. Pace'
  BY Zenon DEF Pace
<1>7. Place'
  <2>1. pc' \in Inside => cursor' \in (Region.address .. RegionEnd)' /\ Edge(Region, cursor)'
    BY <1>2, Zenon DEF Edge
  <2>2. pc' \in Inside \ {"extent"} => ExtentOk(target, Region, cursor, extent)'
    BY <1>2, Zenon DEF ExtentOk, Edge
  <2> QED  BY <2>1, <2>2, Zenon DEF Place
<1> QED  BY <1>1, <1>5, <1>6, <1>7, ZenonT(40) DEF WalkInv

\* The hole before an answer leaves a snapshot sound.
LEMMA GapOk ==
  ASSUME NEW b, SnapOk(limit, target, snap)
  PROVE  SnapOk(limit, target, GapTo(b)) /\ GapTo(b).stopped = snap.stopped /\ GapTo(b).refused = snap.refused
<1> DEFINE from == Least(Most(cursor, vs.covered), b)
           n == unreadable(snap, from, b)
<1>1. SnapOk(limit, target, n)
  BY UnreadableOk, Zenon
<1>2. DOMAIN snap = SnapFields /\ snap.complete \in BOOLEAN /\ DOMAIN n = SnapFields
  BY <1>1, Zenon DEF SnapOk
<1>3. n.stopped = snap.stopped /\ n.refused = snap.refused
  BY <1>2, UnreadableKeeps, Zenon
<1> HIDE DEF n
<1>4. SnapOk(limit, target, says(n)) /\ says(n).stopped = n.stopped /\ says(n).refused = n.refused
  BY <1>1, <1>2, SaysOk, SaysFacts, Zenon
<1>5. GapTo(b) = says(n) \/ GapTo(b) = n
  BY Zenon DEF GapTo, n
<1> QED  BY <1>1, <1>3, <1>4, <1>5, ZenonT(40)

\* A query that fails, or finds nothing more, leaves the region.
LEMMA QueryEndsStep == ASSUME WalkInv, QueryFails \/ QueryFindsNothing PROVE WalkInv'
<1>1. /\ pc = "extent" /\ target' = target /\ limit' = limit /\ r' = r /\ walked' = walked /\ ranout' = ranout
      /\ expired' = expired /\ late' = late /\ stalled' = stalled /\ pc' = "leave"
  BY Zenon DEF QueryFails, QueryFindsNothing, Asks, KeepRegion
<1>2. pc \in Inside /\ pc' \notin Inside /\ pc # "Vs"
  BY <1>1, Zenon DEF Inside
<1>3. SnapOk(limit, target, snap) /\ snap.stopped = 0
  BY <1>2, InsideFacts, Zenon DEF WalkInv
<1>4. \A lo, hi : SnapOk(limit, target, unreadable(snap, lo, hi)) /\ SnapOk(limit, target, says(unreadable(snap, lo, hi)))
  BY <1>3, UnreadableOk, SaysOk, Zenon
<1>5. \A b : SnapOk(limit, target, GapTo(b))
  BY <1>3, GapOk, Zenon
<1>6. SnapOk(limit, target, snap')
  BY <1>4, <1>5, Zenon DEF QueryFails, QueryFindsNothing
<1>7. SnapOk(limit, target, snap)'
  BY <1>1, <1>6, Zenon
<1>8. /\ DOMAIN stalled = {"run", "here"} /\ stalled.run \in 0 .. MaxStalls /\ late \in {0, 1}
      /\ late = 1 => expired
  BY Zenon DEF WalkInv, Pace
<1>9. pc' # "read"
  BY <1>1, Zenon
<1> QED  BY <1>1, <1>2, <1>7, <1>8, <1>9, InsideStep, Zenon

\* A query that stalls steps over a page, and gives the region up after enough of them.
LEMMA QueryStallsStep == ASSUME WalkInv, QueryStalls PROVE WalkInv'
<1>1. /\ pc = "extent" /\ cursor < RegionEnd /\ target' = target /\ limit' = limit /\ r' = r /\ walked' = walked
      /\ ranout' = ranout /\ expired' = expired /\ late' = late
  BY Zenon DEF QueryStalls, Asks, KeepRegion
<1>2. pc \in Inside /\ pc # "Vs"
  BY <1>1, Zenon DEF Inside
<1>3. /\ SnapOk(limit, target, snap) /\ snap.stopped = 0 /\ cursor \in Nat /\ RegionEnd \in Nat
      /\ Region.address \in Nat /\ RegionEnd = EndOf(Region) /\ Region.address <= cursor
  BY <1>2, InsideFacts, Zenon DEF WalkInv
<1>4. /\ DOMAIN stalled = {"run", "here"} /\ stalled.run \in 0 .. MaxStalls /\ late \in {0, 1}
      /\ late = 1 => expired
      /\ stalled.run < MaxStalls
  BY <1>2, Zenon DEF WalkInv, Pace
<1>5. PICK b \in {cursor} \cup {p \in cursor + 1 .. RegionEnd - 1 : p % Page = 0} :
       LET to == StepOver(b)
           from == Least(Most(b, vs.covered), to)
           over == [says(unreadable(GapTo(b), from, to))
                      EXCEPT !.pages = @ + 1, !.skipped = @ + to - b]
       IN  /\ stalled' = [run |-> stalled.run + 1, here |-> TRUE]
           /\ cursor' = to
           /\ IF stalled.run + 1 >= MaxStalls
              THEN snap' = says(unreadable(over, to, RegionEnd)) /\ pc' = "leave"
              ELSE snap' = over /\ pc' = "extent"
  BY Zenon DEF QueryStalls
<1> DEFINE to == StepOver(b)
           from == Least(Most(b, vs.covered), to)
           said == says(unreadable(GapTo(b), from, to))
           over == [said EXCEPT !.pages = @ + 1, !.skipped = @ + to - b]
<1>6. SnapOk(limit, target, said)
  BY <1>3, GapOk, UnreadableOk, SaysOk, Zenon
<1> HIDE DEF said
<1>7. Alike(said, over)
  <2>1. DOMAIN said = SnapFields
    BY <1>6, Zenon DEF SnapOk
  <2> QED  BY <2>1, Zenon DEF Alike, SnapFields
<1>8. SnapOk(limit, target, over)
  BY <1>6, <1>7, Zenon DEF SnapOk, Alike
<1>9. SnapOk(limit, target, says(unreadable(over, to, RegionEnd)))
  BY <1>8, UnreadableOk, SaysOk, Zenon
<1>10. snap' = over \/ snap' = says(unreadable(over, to, RegionEnd))
  BY <1>5, Zenon DEF said
<1>11. SnapOk(limit, target, snap)'
  BY <1>1, <1>8, <1>9, <1>10, Zenon
<1>12. over.stopped = 0 /\ says(unreadable(over, to, RegionEnd)).stopped = 0
  <2>1. SnapOk(limit, target, GapTo(b)) /\ GapTo(b).stopped = 0
    BY <1>3, GapOk, Zenon
  <2>2. DOMAIN GapTo(b) = SnapFields /\ GapTo(b).complete \in BOOLEAN
    BY <2>1, Zenon DEF SnapOk
  <2>3. DOMAIN unreadable(GapTo(b), from, to) = SnapFields /\ unreadable(GapTo(b), from, to).stopped = 0
    BY <2>1, <2>2, UnreadableKeeps, ZenonT(40)
  <2>4. said.stopped = 0
    BY <2>3, SaysFacts, ZenonT(40) DEF said
  <2>5. over.stopped = 0
    BY <2>4, <1>7, Zenon DEF Alike
  <2>6. DOMAIN over = SnapFields /\ over.complete \in BOOLEAN
    BY <1>8, ZenonT(40) DEF SnapOk
  <2>7. DOMAIN unreadable(over, to, RegionEnd) = SnapFields /\ unreadable(over, to, RegionEnd).stopped = 0
    BY <2>5, <2>6, UnreadableKeeps, Zenon
  <2> QED  BY <2>5, <2>7, SaysFacts, ZenonT(40)
<1>13. snap'.stopped = 0
  BY <1>10, <1>12, Zenon
<1>14. stalled' = [run |-> stalled.run + 1, here |-> TRUE] /\ cursor' = to
  BY <1>5, ZenonT(40)
<1>15. IF stalled.run + 1 >= MaxStalls THEN pc' = "leave" ELSE pc' = "extent"
  BY <1>5, ZenonT(40)
<1> HIDE DEF over
<1>16. b \in Nat /\ b < RegionEnd /\ Region.address <= b
  BY <1>1, <1>3
<1>17. to \in Region.address .. RegionEnd /\ Edge(Region, to)
  <2>1. (PageStart(b) + Page) % Page = 0 /\ PageStart(b) + Page \in Nat /\ PageStart(b) + Page > b
    BY <1>16, NextPage, ZenonT(40)
  <2>2. to = PageStart(b) + Page \/ to = RegionEnd
    BY Zenon DEF StepOver, Least
  <2>3. to = PageStart(b) + Page => to <= RegionEnd
    BY <2>1, <1>3 DEF StepOver, Least
  <2> HIDE DEF to
  <2>4. to \in Region.address .. RegionEnd
    BY <1>3, <1>16, <2>1, <2>2, <2>3
  <2> QED  BY <1>3, <2>1, <2>2, <2>4, Zenon DEF Edge
<1> HIDE DEF to
<1>18. DOMAIN stalled' = {"run", "here"} /\ stalled'.run \in 0 .. MaxStalls /\ pc' \in {"leave", "extent"}
       /\ (pc' = "extent" => stalled'.run < MaxStalls)
  BY <1>4, <1>14, <1>15, Sizes
<1>19. pc' # "read" /\ pc' \in Inside \cup {"leave"} /\ (pc' \in Inside => pc' = "extent")
  BY <1>18, Zenon DEF Inside
<1> QED  BY <1>1, <1>2, <1>4, <1>11, <1>13, <1>14, <1>17, <1>18, <1>19, InsideStep, Zenon

\* A query that finds an extent goes on to read it, inside the deadline.
LEMMA QueryFindsExtentStep == ASSUME WalkInv, QueryFindsExtent PROVE WalkInv'
<1>1. /\ pc = "extent" /\ cursor < RegionEnd /\ target' = target /\ limit' = limit /\ r' = r /\ walked' = walked
      /\ ranout' = ranout /\ expired' = expired /\ late' = late /\ cursor' = cursor /\ pc' = "read" /\ ~expired
      /\ stalled' = [stalled EXCEPT !.run = 0] /\ Ahead # {}
  BY Zenon DEF QueryFindsExtent, Asks, KeepRegion, check_budget
<1>2. pc \in Inside /\ pc # "Vs" /\ pc' \in Inside \cup {"leave"}
  BY <1>1, Zenon DEF Inside
<1>3. /\ SnapOk(limit, target, snap) /\ snap.stopped = 0 /\ cursor \in Region.address .. RegionEnd /\ Edge(Region, cursor)
      /\ r \in 1 .. Len(target.regions) /\ Known
  BY <1>2, InsideFacts, ZenonT(40) DEF WalkInv, Place
<1>4. PICK b, e : Found(b, e) /\ snap' = GapTo(b) /\ extent' = [base |-> b, end |-> e, got |-> 0]
  BY Zenon DEF QueryFindsExtent, Found
<1>5. ExtentOk(target, Region, cursor, extent')
  BY <1>1, <1>3, <1>4, ExtentFound, Zenon
<1>6. SnapOk(limit, target, snap)' /\ snap'.stopped = 0
  BY <1>1, <1>3, <1>4, GapOk, ZenonT(40)
<1>7. DOMAIN stalled = {"run", "here"} /\ late \in {0, 1} /\ (late = 1 => expired)
  BY Zenon DEF WalkInv, Pace
<1>8. DOMAIN stalled' = {"run", "here"} /\ stalled'.run \in 0 .. MaxStalls /\ stalled'.run < MaxStalls
  BY <1>1, <1>7, Sizes
<1>9. late' \in {0, 1} /\ late' # 1
  BY <1>1, <1>7, ZenonT(40)
<1> QED  BY <1>1, <1>2, <1>3, <1>5, <1>6, <1>8, <1>9, InsideStep, ZenonT(40)

\* One transfer: an extent of one chunk is decoded next, a longer one only asks for its
\* next chunk before the deadline.
LEMMA ReadOkStep == ASSUME WalkInv, ReadChunkOk PROVE WalkInv'
<1> DEFINE got == Least(extent.got + ReadChunk, extent.end - extent.base)
<1>1. /\ pc = "read" /\ target' = target /\ limit' = limit /\ r' = r /\ walked' = walked
      /\ ranout' = ranout /\ expired' = expired /\ cursor' = cursor /\ stalled' = stalled
      /\ late' = IF expired THEN late + 1 ELSE late
      /\ extent' = [extent EXCEPT !.got = got]
      /\ (extent.end - extent.base > ReadChunk => ~expired)
  BY Zenon DEF ReadChunkOk, Transfers, Polls, KeepRegion, Late, check_budget
<1>2. pc \in Inside \ {"extent"} /\ pc # "Vs"
  BY <1>1, Zenon DEF Inside
<1>3. /\ SnapOk(limit, target, snap) /\ snap.stopped = 0 /\ cursor \in Region.address .. RegionEnd /\ Edge(Region, cursor)
      /\ ExtentOk(target, Region, cursor, extent)
  BY <1>2, InsideFacts, ZenonT(40) DEF WalkInv, Place
<1>4. extent.got \in Nat /\ extent.base \in Nat /\ extent.end \in Nat /\ extent.base < extent.end
      /\ DOMAIN extent = {"base", "end", "got"}
  BY <1>3, Zenon DEF ExtentOk
<1>5. got \in Nat /\ (extent.end - extent.base <= ReadChunk => ~(got < extent.end - extent.base))
  BY <1>4, Sizes DEF Least
<1> HIDE DEF got
<1>6. ExtentOk(target, Region, cursor, extent')
  <2>1. DOMAIN extent' = {"base", "end", "got"} /\ extent'.got = got /\ extent'.base = extent.base /\ extent'.end = extent.end
    BY <1>1, <1>4, ZenonT(40)
  <2> QED  BY <1>3, <1>5, <2>1, Zenon DEF ExtentOk
<1>7. /\ DOMAIN stalled = {"run", "here"} /\ stalled.run \in 0 .. MaxStalls /\ stalled.run < MaxStalls
      /\ late \in {0, 1} /\ late # 1
  BY <1>1, <1>2, Zenon DEF WalkInv, Pace
<1>8. late = 0
  BY <1>7, Zenon
<1>9. CASE got < extent.end - extent.base
  <2>1. pc' = pc /\ snap' = snap
    BY <1>9, Zenon DEF ReadChunkOk, got
  <2>2. ~expired
    BY <1>1, <1>4, <1>5, <1>9, Sizes
  <2>3. late' = 0
    BY <1>1, <1>8, <2>2, Zenon
  <2>4. late' \in {0, 1} /\ late' # 1 /\ pc' \in Inside \cup {"leave"}
    BY <2>3, <2>1, <1>2
  <2>5. SnapOk(limit, target, snap)' /\ snap'.stopped = 0
    BY <1>1, <1>3, <2>1, Zenon
  <2> QED  BY <1>1, <1>2, <1>3, <1>6, <1>7, <2>4, <2>5, InsideStep, Zenon
<1>10. CASE ~(got < extent.end - extent.base)
  <2>1. pc' = "decode" /\ snap' = [snap EXCEPT !.recovered = IF stalled.here THEN @ + got ELSE @]
    BY <1>10, Zenon DEF ReadChunkOk, got
  <2>2. DOMAIN snap = SnapFields
    BY <1>3, Zenon DEF SnapOk
  <2>3. Alike(snap, snap')
    BY <2>1, <2>2, Zenon DEF Alike, SnapFields
  <2>4. SnapOk(limit, target, snap)' /\ snap'.stopped = 0
    BY <1>1, <1>3, <2>3, ZenonT(40) DEF SnapOk, Alike
  <2>5. late' \in {0, 1} /\ (late' = 1 => expired)
    BY <1>1, <1>8
  <2>6. pc' # "read" /\ pc' \in Inside \cup {"leave"}
    BY <2>1, Zenon DEF Inside
  <2> QED  BY <1>1, <1>2, <1>3, <1>6, <1>7, <2>4, <2>5, <2>6, InsideStep, Zenon
<1> QED  BY <1>9, <1>10, Zenon

\* A transfer that fails leaves the extent behind as a hole.
LEMMA ReadFailsStep == ASSUME WalkInv, ReadFails PROVE WalkInv'
<1>1. /\ pc = "read" /\ target' = target /\ limit' = limit /\ r' = r /\ walked' = walked
      /\ ranout' = ranout /\ expired' = expired /\ cursor' = extent.end /\ stalled' = stalled
      /\ late' = (IF expired THEN late + 1 ELSE late) /\ pc' = "extent"
      /\ snap' = says(unreadable(snap, extent.base, extent.end))
  BY Zenon DEF ReadFails, Transfers, KeepRegion, Late
<1>2. pc \in Inside \ {"extent"} /\ pc # "Vs" /\ pc' \in Inside \cup {"leave"} /\ pc' # "read" /\ pc' \notin Inside \ {"extent"}
  BY <1>1, Zenon DEF Inside
<1>3. /\ SnapOk(limit, target, snap) /\ snap.stopped = 0 /\ DOMAIN snap = SnapFields
      /\ RegionEnd = EndOf(Region) /\ Region.address \in Nat /\ RegionEnd \in Nat /\ cursor \in Nat /\ Region.address <= cursor
      /\ ExtentOk(target, Region, cursor, extent)
  BY <1>2, InsideFacts, Zenon DEF WalkInv, Place
<1>4. /\ cursor <= extent.base /\ extent.base \in Nat /\ extent.end \in Nat /\ extent.base < extent.end /\ extent.end <= EndOf(Region)
      /\ Edge(Region, extent.end)
  BY <1>3, Zenon DEF ExtentOk
<1>5. extent.end \in Region.address .. RegionEnd
  BY <1>3, <1>4
<1>6. SnapOk(limit, target, snap)' /\ snap'.stopped = 0
  <2>1. SnapOk(limit, target, says(unreadable(snap, extent.base, extent.end)))
    BY <1>3, UnreadableOk, SaysOk, ZenonT(40)
  <2>2. says(unreadable(snap, extent.base, extent.end)).stopped = 0
    <3>1. DOMAIN unreadable(snap, extent.base, extent.end) = SnapFields /\ unreadable(snap, extent.base, extent.end).stopped = 0
      BY <1>3, UnreadableKeeps, Zenon
    <3> QED  BY <3>1, SaysFacts, Zenon
  <2> QED  BY <1>1, <2>1, <2>2, Zenon
<1>7. /\ DOMAIN stalled = {"run", "here"} /\ stalled.run \in 0 .. MaxStalls /\ stalled.run < MaxStalls
      /\ late \in {0, 1} /\ late # 1
  BY <1>1, <1>2, Zenon DEF WalkInv, Pace
<1>8. late' \in {0, 1} /\ (late' = 1 => expired)
  BY <1>1, <1>7
<1> QED  BY <1>1, <1>2, <1>4, <1>5, <1>6, <1>7, <1>8, InsideStep, Zenon

-----------------------------------------------------------------------------
(* The decoders. *)

\* Decoding goes on in its extent, or is done with it.
LEMMA DecodeStep ==
  ASSUME WalkInv, pc \in Decoding,
         target' = target, limit' = limit, r' = r, walked' = walked, ranout' = ranout, expired' = expired,
         stalled' = stalled, extent' = extent, late' = late,
         SnapOk(limit, target, snap'),
         \/ pc' = "leave"
         \/ pc' = "extent" /\ cursor' = extent.end /\ snap'.stopped = 0
         \/ pc' \in Decoding \ {"decode"} /\ cursor' = cursor /\ (snap'.stopped # 0 => pc' = "Vs")
  PROVE  WalkInv'
<1>1. pc \in Inside \ {"extent"} /\ pc' \in Inside \cup {"leave"} /\ pc' # "read"
  BY Zenon DEF Inside, Decoding
<1>2. /\ RegionEnd = EndOf(Region) /\ Region.address \in Nat /\ RegionEnd \in Nat /\ cursor \in Nat /\ Region.address <= cursor
      /\ cursor \in Region.address .. RegionEnd /\ Edge(Region, cursor)
      /\ ExtentOk(target, Region, cursor, extent)
  BY <1>1, InsideFacts, Zenon DEF WalkInv, Place
<1>3. /\ cursor <= extent.base /\ extent.base \in Nat /\ extent.end \in Nat /\ extent.base < extent.end /\ extent.end <= EndOf(Region)
      /\ Edge(Region, extent.end)
  BY <1>2, ZenonT(40) DEF ExtentOk
<1>4. extent.end \in Region.address .. RegionEnd
  BY <1>2, <1>3
<1>5. /\ DOMAIN stalled = {"run", "here"} /\ stalled.run \in 0 .. MaxStalls /\ stalled.run < MaxStalls
      /\ late \in {0, 1} /\ (late = 1 => expired)
  BY <1>1, Zenon DEF WalkInv, Pace
<1>6. SnapOk(limit, target, snap)'
  BY Zenon
<1>7. snap'.stopped # 0 => pc' \in {"leave", "Vs"}
  BY Zenon
<1>8. pc' \in Inside => cursor' \in Region.address .. RegionEnd /\ Edge(Region, cursor')
  <2>1. pc' # "leave" \/ pc' \notin Inside
    BY Zenon DEF Inside
  <2> QED  BY <1>2, <1>3, <1>4, <2>1, ZenonT(40)
<1>9. pc' \in Inside \ {"extent"} => ExtentOk(target, Region, cursor', extent')
  <2>1. pc' \in Inside \ {"extent"} => pc' # "leave" /\ pc' # "extent"
    BY Zenon DEF Inside
  <2> QED  BY <1>2, <2>1, Zenon
<1> QED  BY <1>1, <1>5, <1>6, <1>7, <1>8, <1>9, InsideStep, ZenonT(40)

\* What a decoder may count on.
LEMMA DecodingFacts ==
  ASSUME WalkInv, pc \in Decoding
  PROVE  /\ SnapOk(limit, target, snap) /\ LimitOk(limit) /\ DOMAIN snap = SnapFields
         /\ pc # "Vs" => snap.stopped = 0
         /\ \A h, u, n, g, q : base_span(h, u, n, g, q).region = r
<1>1. pc \in Inside
  BY Zenon DEF Inside, Decoding
<1>2. \A h, u, n, g, q : base_span(h, u, n, g, q).region = r
  BY Zenon DEF base_span
<1> QED  BY <1>1, <1>2, InsideFacts, Zenon DEF WalkInv

\* The decoders begin an extent.
LEMMA BeginPagesStep == ASSUME WalkInv, BeginPages PROVE WalkInv'
<1>1. pc = "decode" /\ pc' = Decoder /\ Decoder \in {"Segment", "special"} /\ KeepExtent /\ cursor' = cursor /\ snap' = snap
  BY Zenon DEF BeginPages
<1>2. pc \in Decoding /\ pc' \in Decoding \ {"decode"} /\ pc # "Vs"
  BY <1>1, Zenon DEF Decoding
<1> QED  BY <1>1, <1>2, DecodingFacts, KeptByDecoders, DecodeStep, ZenonT(40)

\* LFH slots are begun at the first whole one of the extent.
LEMMA BeginLfhStep == ASSUME WalkInv, BeginLfh PROVE WalkInv'
<1>1. pc = "decode" /\ KeepExtent
  BY Zenon DEF BeginLfh
<1>2. pc \in Decoding /\ pc # "Vs"
  BY <1>1, Zenon DEF Decoding
<1>3. CASE Region.unit < Region.pool
  <2>1. snap' = misses(snap) /\ AfterExtent(snap')
    BY <1>3, Zenon DEF BeginLfh
  <2>2. SnapOk(limit, target, snap')
    BY <1>2, <2>1, DecodingFacts, SaysOk, Zenon
  <2>3. pc' = "leave" \/ (pc' = "extent" /\ cursor' = extent.end /\ snap'.stopped = 0)
    BY <2>1, Zenon DEF AfterExtent, match_limit_reached
  <2> QED  BY <1>1, <1>2, <2>2, <2>3, KeptByDecoders, DecodeStep, Zenon
<1>4. CASE ~(Region.unit < Region.pool)
  <2>1. snap' = snap /\ cursor' = cursor /\ pc' = "Lfh"
    BY <1>4, Zenon DEF BeginLfh
  <2>2. pc' \in Decoding \ {"decode"}
    BY <2>1, Zenon DEF Decoding
  <2> QED  BY <1>1, <1>2, <2>1, <2>2, DecodingFacts, KeptByDecoders, DecodeStep, Zenon
<1> QED  BY <1>3, <1>4, ZenonT(40)

\* A slot, a page range and a page are each recorded or passed over.
LEMMA LfhSlotStep == ASSUME WalkInv, LfhSlot PROVE WalkInv'
<1>1. pc = "Lfh" /\ KeepExtent
  BY Zenon DEF LfhSlot
<1>2. pc \in Decoding /\ pc # "Vs" /\ "Lfh" \in Decoding \ {"decode"}
  BY <1>1, Zenon DEF Decoding
<1>3. SnapOk(limit, target, snap) /\ LimitOk(limit) /\ snap.stopped = 0
  BY <1>2, DecodingFacts, Zenon
<1>4. \/ snap' = snap /\ AfterExtent(snap)
      \/ snap' = snap /\ pc' = pc /\ cursor' = cursor
      \/ snap' = misses(snap) /\ AfterExtent(snap')
      \/ /\ \E h, u, n, g, q : snap' = record_span(snap, base_span(h, u, n, g, q))
         /\ IF match_limit_reached(snap') THEN AfterExtent(snap') ELSE pc' = pc /\ cursor' = cursor
  BY Zenon DEF LfhSlot
<1>5. SnapOk(limit, target, snap')
  BY <1>2, <1>3, <1>4, DecodingFacts, SaysOk, RecordOk, ZenonT(40)
<1>6. \/ pc' = "leave"
      \/ pc' = "extent" /\ cursor' = extent.end /\ snap'.stopped = 0
      \/ pc' = "Lfh" /\ cursor' = cursor /\ (snap'.stopped # 0 => pc' = "Vs")
  BY <1>1, <1>3, <1>4, Zenon DEF AfterExtent, match_limit_reached
<1> QED  BY <1>1, <1>2, <1>5, <1>6, KeptByDecoders, DecodeStep, Zenon

\* A page range is a single allocation.
LEMMA PageRangeStep == ASSUME WalkInv, PageRange PROVE WalkInv'
<1>1. pc = "Segment" /\ KeepExtent
  BY Zenon DEF PageRange
<1>2. pc \in Decoding /\ pc # "Vs" /\ "Segment" \in Decoding \ {"decode"}
  BY <1>1, Zenon DEF Decoding
<1>3. SnapOk(limit, target, snap) /\ LimitOk(limit) /\ snap.stopped = 0
  BY <1>2, DecodingFacts, Zenon
<1>4. \/ snap' = snap /\ AfterExtent(snap)
      \/ /\ \E h, u, n, g, q : snap' = record_span(snap, base_span(h, u, n, g, q))
         /\ IF match_limit_reached(snap') THEN AfterExtent(snap') ELSE pc' = pc /\ cursor' = cursor
  BY Zenon DEF PageRange
<1>5. SnapOk(limit, target, snap')
  BY <1>2, <1>3, <1>4, DecodingFacts, RecordOk, Zenon
<1>6. \/ pc' = "leave"
      \/ pc' = "extent" /\ cursor' = extent.end /\ snap'.stopped = 0
      \/ pc' = "Segment" /\ cursor' = cursor /\ (snap'.stopped # 0 => pc' = "Vs")
  BY <1>1, <1>3, <1>4, ZenonT(40) DEF AfterExtent, match_limit_reached
<1> QED  BY <1>1, <1>2, <1>5, <1>6, KeptByDecoders, DecodeStep, ZenonT(40)

\* A page of special pool leaves a snapshot sound.
LEMMA FoundOnOk ==
  ASSUME NEW page, SnapOk(limit, target, snap)
  PROVE  SnapOk(limit, target, FoundOn(page)) /\ FoundOn(page).stopped = snap.stopped
<1>1. DOMAIN snap = SnapFields /\ snap.complete \in BOOLEAN /\ snap.said \in BOOLEAN
  BY Zenon DEF SnapOk
<1> DEFINE n == FoundOn(page)
<1>2. /\ DOMAIN n = SnapFields /\ n.spans = snap.spans /\ n.stopped = snap.stopped
      /\ n.matched = snap.matched /\ n.refused = snap.refused
      /\ n.complete = (snap.complete /\ Corroborated(page)) /\ n.said = (snap.said \/ ~Corroborated(page))
  BY <1>1, FoundOnFacts, ZenonT(40)
<1> HIDE DEF n
<1>3. n.complete \in BOOLEAN /\ n.said \in BOOLEAN /\ (n.complete => snap.complete) /\ (~n.complete => ~snap.complete \/ n.said) /\ (snap.said => n.said)
  BY <1>1, <1>2, Zenon
<1> QED  BY <1>2, <1>3, Zenon DEF SnapOk, n

\* A page of special pool is recorded, passed over or refused.
LEMMA SpecialPageStep == ASSUME WalkInv, SpecialPage PROVE WalkInv'
<1>1. pc = "special" /\ KeepExtent
  BY Zenon DEF SpecialPage
<1>2. pc \in Decoding /\ pc # "Vs" /\ "special" \in Decoding \ {"decode"}
  BY <1>1, Zenon DEF Decoding
<1>3. SnapOk(limit, target, snap) /\ LimitOk(limit) /\ snap.stopped = 0
  BY <1>2, DecodingFacts, ZenonT(40)
<1>4. \/ snap' = snap /\ AfterExtent(snap)
      \/ /\ \/ snap' = misses(snap) \/ snap' = snap
            \/ \E h, u, n, g, q : snap' = record_span(FoundOn(dec.pos), base_span(h, u, n, g, q))
         /\ IF match_limit_reached(snap') THEN AfterExtent(snap') ELSE pc' = pc /\ cursor' = cursor
  <2>1. CASE dec.pos >= extent.end
    BY <2>1, Zenon DEF SpecialPage
  <2>2. CASE ~(dec.pos >= extent.end)
    <3>1. /\ snap' = IF dec.pos \notin DOMAIN Region.content THEN misses(snap)
                     ELSE IF Region.content[dec.pos].tag # 0
                     THEN record_span(FoundOn(dec.pos),
                            base_span(dec.pos, special_pool_placement(dec.pos).usable, special_pool_placement(dec.pos).size,
                                      Region.content[dec.pos].tag, "Allocated"))
                     ELSE snap
          /\ IF match_limit_reached(snap') THEN AfterExtent(snap') ELSE pc' = pc /\ cursor' = cursor
      BY <2>2, Zenon DEF SpecialPage, FoundOn
    <3> QED  BY <3>1, Zenon
  <2> QED  BY <2>1, <2>2, ZenonT(40)
<1>5. SnapOk(limit, target, FoundOn(dec.pos)) /\ FoundOn(dec.pos).stopped = 0
  BY <1>3, FoundOnOk, Zenon
<1>6. SnapOk(limit, target, snap')
  BY <1>2, <1>3, <1>4, <1>5, DecodingFacts, SaysOk, RecordOk, Zenon
<1>7. \/ pc' = "leave"
      \/ pc' = "extent" /\ cursor' = extent.end /\ snap'.stopped = 0
      \/ pc' = "special" /\ cursor' = cursor /\ (snap'.stopped # 0 => pc' = "Vs")
  BY <1>1, <1>3, <1>4, Zenon DEF AfterExtent, match_limit_reached
<1> QED  BY <1>1, <1>2, <1>6, <1>7, KeptByDecoders, DecodeStep, ZenonT(40)

\* The chunks of a VS extent.
LEMMA BeginVsStep == ASSUME WalkInv, BeginVs PROVE WalkInv'
<1>1. /\ pc = "decode" /\ target' = target /\ limit' = limit /\ r' = r /\ walked' = walked /\ ranout' = ranout
      /\ expired' = expired /\ stalled' = stalled /\ extent' = extent /\ late' = late
  BY Zenon DEF BeginVs
<1>2. pc \in Decoding /\ pc # "Vs" /\ "Vs" \in Decoding \ {"decode"}
  BY <1>1, ZenonT(40) DEF Decoding
<1>3. SnapOk(limit, target, snap) /\ snap.stopped = 0 /\ DOMAIN snap = SnapFields
  BY <1>2, DecodingFacts, Zenon
<1>4. CASE expected < extent.base
  <2> DEFINE m == misses(snap)
             n == [m EXCEPT !.unplaced = @ + extent.end - extent.base]
  <2>1. snap' = n /\ pc' = "extent" /\ cursor' = extent.end
    BY <1>4, Zenon DEF BeginVs
  <2>2. DOMAIN m = SnapFields /\ m.stopped = 0 /\ SnapOk(limit, target, m)
    BY <1>3, SaysFacts, SaysOk, Zenon
  <2> HIDE DEF m
  <2>3. Alike(m, n)
    BY <2>2, Zenon DEF Alike, SnapFields
  <2> HIDE DEF n
  <2>4. SnapOk(limit, target, n) /\ n.stopped = 0
    BY <2>2, <2>3, Zenon DEF SnapOk, Alike
  <2> QED  BY <1>1, <1>2, <2>1, <2>4, DecodeStep, ZenonT(40)
<1>5. CASE ~(expected < extent.base)
  <2>1. snap' = snap /\ ((pc' = "extent" /\ cursor' = extent.end) \/ (pc' = "Vs" /\ cursor' = cursor))
    BY <1>5, Zenon DEF BeginVs
  <2> QED  BY <1>1, <1>2, <1>3, <2>1, DecodeStep, ZenonT(40)
<1> QED  BY <1>4, <1>5, ZenonT(40)

\* A header that does not check out, and one whose chunk overruns, stop the chain.
LEMMA VsRefuseStep == ASSUME WalkInv, VsRefuse \/ VsOverrun PROVE WalkInv'
<1>1. pc = "Vs" /\ pc' = pc /\ cursor' = cursor /\ KeepExtent /\ (snap' = misses(snap) \/ snap' = misses(ChainChecked(snap)))
  BY Zenon DEF VsRefuse, VsOverrun, VsMore
<1>2. pc \in Decoding /\ pc' \in Decoding \ {"decode"}
  BY <1>1, Zenon DEF Decoding
<1>3. SnapOk(limit, target, snap')
  BY <1>1, <1>2, DecodingFacts, ChainOk, SaysOk, ZenonT(40)
<1> QED  BY <1>1, <1>2, <1>3, KeptByDecoders, DecodeStep, Zenon

\* A chunk is recorded whole, or as its big-page entry.
LEMMA VsChunkStep == ASSUME WalkInv, VsBig \/ VsChunk PROVE WalkInv'
<1>1. pc = "Vs" /\ snap.stopped = 0
  BY Zenon DEF VsBig, VsChunk, VsMore, match_limit_reached
<1>2. \E h, u, n, g, q : \/ snap' = record_span(ChainChecked(snap), base_span(h, u, n, g, q))
                         \/ snap' = record_span(says(ChainChecked(snap)), base_span(h, u, n, g, q))
  <2>1. CASE VsBig
    BY <2>1, Zenon DEF VsBig, Stride
  <2>2. CASE VsChunk
    BY <2>2, Zenon DEF VsChunk, Stride
  <2> QED  BY <2>1, <2>2, ZenonT(40)
<1>3. pc' = pc /\ cursor' = cursor /\ KeepExtent
  <2>1. CASE VsBig
    BY <2>1, Zenon DEF VsBig, Stride
  <2>2. CASE VsChunk
    BY <2>2, Zenon DEF VsChunk, Stride
  <2> QED  BY <2>1, <2>2, Zenon
<1>4. pc \in Decoding /\ pc' \in Decoding \ {"decode"}
  BY <1>1, <1>3, Zenon DEF Decoding
<1>5. /\ SnapOk(limit, target, ChainChecked(snap)) /\ ChainChecked(snap).stopped = 0
      /\ SnapOk(limit, target, says(ChainChecked(snap))) /\ says(ChainChecked(snap)).stopped = 0
  <2>1. SnapOk(limit, target, ChainChecked(snap)) /\ ChainChecked(snap).stopped = 0
    BY <1>1, <1>4, DecodingFacts, ChainOk, ZenonT(40)
  <2>2. DOMAIN ChainChecked(snap) = SnapFields
    BY <2>1, Zenon DEF SnapOk
  <2> QED  BY <2>1, <2>2, SaysOk, SaysFacts, Zenon
<1>6. SnapOk(limit, target, snap')
  BY <1>2, <1>4, <1>5, DecodingFacts, RecordOk, ZenonT(40)
<1> QED  BY <1>1, <1>3, <1>4, <1>6, KeptByDecoders, DecodeStep, Zenon

\* The end of a VS extent says what was refused in it.
LEMMA EndVsStep == ASSUME WalkInv, EndVs PROVE WalkInv'
<1>1. /\ pc = "Vs" /\ target' = target /\ limit' = limit /\ r' = r /\ walked' = walked /\ ranout' = ranout
      /\ expired' = expired /\ stalled' = stalled /\ extent' = extent /\ late' = late
      /\ (snap' = Counted \/ snap' = misses(Counted)) /\ AfterExtent(snap)
  BY Zenon DEF EndVs, Counted
<1>2. pc \in Decoding
  BY <1>1, Zenon DEF Decoding
<1>3. SnapOk(limit, target, snap) /\ DOMAIN snap = SnapFields
  BY <1>2, DecodingFacts, ZenonT(40)
<1>5. SnapOk(limit, target, Counted) /\ Counted.stopped = snap.stopped /\ DOMAIN Counted = SnapFields
  BY <1>3, CountedFacts, Zenon DEF SnapOk
<1>6. SnapOk(limit, target, snap') /\ snap'.stopped = snap.stopped
  <2>1. SnapOk(limit, target, misses(Counted)) /\ misses(Counted).stopped = Counted.stopped
    BY <1>5, SaysOk, SaysFacts, ZenonT(40)
  <2> QED  BY <1>1, <1>5, <2>1, ZenonT(40)
<1>7. pc' = "leave" \/ (pc' = "extent" /\ cursor' = extent.end /\ snap'.stopped = 0)
  BY <1>1, <1>6, ZenonT(40) DEF AfterExtent, match_limit_reached
<1> QED  BY <1>1, <1>2, <1>6, <1>7, DecodeStep, ZenonT(40)

\* Every step of the walk keeps its accounts.
LEMMA WalkNextInv == ASSUME WalkInv, [Next]_vars PROVE WalkInv'
<1>1. CASE Next
  <2>1. CASE Expire \/ Interrupt
    BY <2>1, ClockStep, ZenonT(40)
  <2>2. CASE Walk
    BY <2>2, BeginRegionStep, LeaveRegionStep, FinishStep, HaltStep, QueryEndsStep, QueryStallsStep,
       QueryFindsExtentStep, ReadOkStep, ReadFailsStep, BeginPagesStep, BeginLfhStep, LfhSlotStep, PageRangeStep,
       SpecialPageStep, BeginVsStep, VsRefuseStep, VsChunkStep, EndVsStep, Zenon DEF Walk
  <2> QED  BY <1>1, <2>1, <2>2, ZenonT(40) DEF Next
<1>2. CASE UNCHANGED vars
  <2>1. /\ target' = target /\ limit' = limit /\ pc' = pc /\ r' = r /\ walked' = walked /\ ranout' = ranout
        /\ cursor' = cursor /\ stalled' = stalled /\ extent' = extent /\ snap' = snap /\ late' = late /\ expired' = expired
    BY <1>2, Zenon DEF vars
  <2>2. Known' /\ SnapOk(limit, target, snap)' /\ Control' /\ Pace'
    BY <2>1, ZenonT(40) DEF WalkInv, Known, Control, CutShortSaid, Done, Pace
  <2>3. Place'
    BY <2>1, Zenon DEF WalkInv, Place, Region, RegionEnd, ExtentOk, Edge
  <2> QED  BY <2>2, <2>3, ZenonT(40) DEF WalkInv
<1> QED  BY <1>1, <1>2, Zenon

\* The walk's accounts are always in order.
LEMMA WalkInvHolds == Spec => []WalkInv
<1> QED  BY WalkInitInv, WalkNextInv, PTL DEF Spec

\* For every target and every threshold: a walk that is cut short says so and why, begins one
\* transfer at most past its deadline, keeps no more matches than it was asked for, and gives
\* up a region that never advances (walk_discovered_regions, check_budget, record_span).
THEOREM WalkAccountsHolds == Spec => []WalkAccounts
<1> QED  BY WalkInvHolds, WalkInvSound, PTL

-----------------------------------------------------------------------------
(* A step over a hole keeps the walk exact. *)

\* A hole is passed over by recording it, from where no span covers it.
LEMMA UnreadablePasses ==
  ASSUME NEW s, NEW from, NEW lo \in Nat, NEW hi \in Nat, DOMAIN s = SnapFields, s.complete \in BOOLEAN,
         s.complete => from \in Nat /\ \A u \in lo .. hi - 1 : u < vs.covered \/ from <= u
  PROVE  Passed(s, unreadable(s, from, hi), lo, hi)
<1> DEFINE n == unreadable(s, from, hi)
<1>1. /\ DOMAIN n = SnapFields /\ n.refused = s.refused /\ n.complete \in BOOLEAN
      /\ \A x \in n.spans : x.state = "Allocated" => x \in s.spans
      /\ s.spans \subseteq n.spans
      /\ n.complete => s.complete
  BY UnreadableFacts, ZenonT(40)
<1>2. \A x \in n.spans : x \in s.spans \/ x.region = r
  <2>1. n.spans = s.spans \cup {gap(g) : g \in Runs(from, hi)}
    BY Zenon DEF unreadable, SnapFields
  <2>2. \A g : gap(g).region = r
    BY Zenon DEF gap, base_span
  <2> HIDE DEF n
  <2> QED  BY <2>1, <2>2, Zenon
<1>3. ASSUME n.complete, NEW u \in lo .. hi - 1, ~(u < vs.covered) PROVE ~Committed(target, u)
  <2>1. from \in Nat /\ from <= u
    BY <1>1, <1>3, Zenon
  <2>2. u \in from .. hi - 1
    BY <2>1
  <2>3. committed_run(u) => n.complete = FALSE
    BY <2>1, <2>2, MissedSaid, Zenon
  <2> QED  BY <1>3, <2>3, Zenon DEF committed_run
<1> HIDE DEF n
<1>4. n.complete => Clear(target, vs, lo, hi)
  BY <1>3, Zenon DEF Clear
<1>5. Passed(s, n, lo, hi)
  BY <1>1, <1>2, <1>4, ZenonT(40) DEF Passed, Adds
<1> QED  BY <1>5, Zenon DEF n

\* The hole before an answer is passed over.
LEMMA GapPasses ==
  ASSUME NEW b \in Nat, cursor \in Nat, DOMAIN snap = SnapFields, snap.complete \in BOOLEAN,
         snap.complete => vs.covered \in Nat
  PROVE  Passed(snap, GapTo(b), cursor, b)
<1> DEFINE from == Least(Most(cursor, vs.covered), b)
<1>1. snap.complete => from \in Nat /\ \A u \in cursor .. b - 1 : u < vs.covered \/ from <= u
  BY FromCovered, Zenon
<1> HIDE DEF from
<1>2. Passed(snap, unreadable(snap, from, b), cursor, b)
  BY <1>1, UnreadablePasses, Zenon
<1>3. Passed(snap, says(unreadable(snap, from, b)), cursor, b)
  BY <1>2, SaysPasses, Zenon
<1> QED  BY <1>2, <1>3, Zenon DEF GapTo, from

\* A query that fails, or finds nothing more, passes over the rest of the region.
LEMMA QueryEndsExact == ASSUME WalkInv, ExactInv, QueryFails \/ QueryFindsNothing PROVE ExactInv'
<1>1. pc = "extent" /\ target' = target /\ r' = r /\ vs' = vs /\ dec' = dec /\ pc' = "leave"
  BY Zenon DEF QueryFails, QueryFindsNothing, Asks, KeepRegion
<1>2. pc \in Inside /\ pc \in {"extent", "read"} /\ pc \in {"extent", "read", "decode"} /\ pc # "read"
  BY <1>1, Zenon DEF Inside
<1>3. /\ cursor \in Nat /\ RegionEnd \in Nat /\ Region.address <= cursor /\ cursor <= RegionEnd
      /\ DOMAIN snap = SnapFields /\ snap.complete \in BOOLEAN
  BY <1>2, ExactFacts, Zenon
<1>4. snap.complete => vs.covered \in Nat
  BY <1>2, CoveredIs, Zenon
<1>5. Passed(snap, GapTo(RegionEnd), cursor, RegionEnd)
  BY <1>3, <1>4, GapPasses, Zenon
<1>6. Passed(snap, unreadable(snap, Most(cursor, vs.covered), RegionEnd), cursor, RegionEnd)
  <2>1. snap.complete => /\ Most(cursor, vs.covered) \in Nat
                         /\ \A u \in cursor .. RegionEnd - 1 : u < vs.covered \/ Most(cursor, vs.covered) <= u
    BY <1>3, <1>4, FromCovered, Zenon
  <2> QED  BY <1>3, <2>1, UnreadablePasses, Zenon
<1>7. Passed(snap, says(unreadable(snap, cursor, RegionEnd)), cursor, RegionEnd)
  <2>1. \A u \in cursor .. RegionEnd - 1 : cursor <= u
    BY <1>3
  <2>2. Passed(snap, unreadable(snap, cursor, RegionEnd), cursor, RegionEnd)
    BY <1>3, <2>1, UnreadablePasses, Zenon
  <2> QED  BY <2>2, SaysPasses, Zenon
<1>8. Passed(snap, snap', cursor, RegionEnd)
  BY <1>5, <1>6, <1>7, Zenon DEF QueryFails, QueryFindsNothing
<1>9. RegionEnd <= RegionEnd
  BY <1>3
<1> QED  BY <1>1, <1>2, <1>3, <1>8, <1>9, PassStep, Zenon

\* A query that finds an extent passes over what is before it.
LEMMA QueryFindsExact == ASSUME WalkInv, ExactInv, QueryFindsExtent PROVE ExactInv'
<1>1. pc = "extent" /\ target' = target /\ r' = r /\ vs' = vs /\ dec' = dec /\ pc' = "read" /\ Ahead # {}
  BY Zenon DEF QueryFindsExtent, Asks, KeepRegion
<1>2. pc \in Inside /\ pc \in {"extent", "read"} /\ pc \in {"extent", "read", "decode"} /\ pc # "read" /\ pc' \in {"read", "decode"}
  BY <1>1, Zenon DEF Inside
<1>3. /\ cursor \in Nat /\ RegionEnd \in Nat /\ Region.address <= cursor /\ cursor <= RegionEnd
      /\ DOMAIN snap = SnapFields /\ snap.complete \in BOOLEAN /\ RegionEnd = EndOf(Region)
  BY <1>2, ExactFacts, Zenon
<1>4. snap.complete => vs.covered \in Nat
  BY <1>2, CoveredIs, Zenon
<1>5. PICK b, e : Found(b, e) /\ snap' = GapTo(b) /\ extent' = [base |-> b, end |-> e, got |-> 0]
  BY Zenon DEF QueryFindsExtent, Found
<1>6. extent'.base = b /\ extent'.end = e
  BY <1>5, Zenon
<1>7. ExtentOk(target, Region, cursor, extent')
  <2>1. cursor \in Region.address .. RegionEnd /\ Edge(Region, cursor) /\ r \in 1 .. Len(target.regions) /\ Known
    BY <1>2, InsideFacts, ZenonT(40) DEF WalkInv, Place
  <2> QED  BY <1>1, <1>5, <2>1, ExtentFound, ZenonT(40)
<1>8. b \in Nat /\ cursor <= b /\ e \in Nat /\ b < e /\ e <= RegionEnd
  BY <1>3, <1>6, <1>7, Zenon DEF ExtentOk
<1>9. b <= RegionEnd
  BY <1>3, <1>8
<1>10. Passed(snap, snap', cursor, b)
  BY <1>3, <1>4, <1>5, <1>8, GapPasses, ZenonT(40)
<1> QED  BY <1>1, <1>2, <1>3, <1>6, <1>8, <1>9, <1>10, PassStep, ZenonT(40)

\* A query that stalls passes over the hole before its answer and the page it is in.
LEMMA QueryStallsExact == ASSUME WalkInv, ExactInv, QueryStalls PROVE ExactInv'
<1>1. pc = "extent" /\ cursor < RegionEnd /\ target' = target /\ r' = r /\ vs' = vs /\ dec' = dec
  BY Zenon DEF QueryStalls, Asks, KeepRegion
<1>2. pc \in Inside /\ pc \in {"extent", "read"} /\ pc \in {"extent", "read", "decode"} /\ pc # "read"
  BY <1>1, Zenon DEF Inside
<1>3. /\ cursor \in Nat /\ RegionEnd \in Nat /\ Region.address <= cursor /\ cursor <= RegionEnd
      /\ DOMAIN snap = SnapFields /\ snap.complete \in BOOLEAN /\ Region.address \in Nat
  BY <1>2, ExactFacts, ZenonT(40)
<1>4. snap.complete => vs.covered \in Nat
  BY <1>2, CoveredIs, ZenonT(40)
<1>5. PICK b \in {cursor} \cup {p \in cursor + 1 .. RegionEnd - 1 : p % Page = 0} :
       LET to == StepOver(b)
           from == Least(Most(b, vs.covered), to)
           over == [says(unreadable(GapTo(b), from, to))
                      EXCEPT !.pages = @ + 1, !.skipped = @ + to - b]
       IN  /\ stalled' = [run |-> stalled.run + 1, here |-> TRUE]
           /\ cursor' = to
           /\ IF stalled.run + 1 >= MaxStalls
              THEN snap' = says(unreadable(over, to, RegionEnd)) /\ pc' = "leave"
              ELSE snap' = over /\ pc' = "extent"
  BY Zenon DEF QueryStalls
<1> DEFINE to == StepOver(b)
           from == Least(Most(b, vs.covered), to)
           hole == unreadable(GapTo(b), from, to)
           said == says(hole)
           over == [said EXCEPT !.pages = @ + 1, !.skipped = @ + to - b]
           rest == unreadable(over, to, RegionEnd)
<1>6. b \in Nat /\ b < RegionEnd /\ cursor <= b
  BY <1>1, <1>3
<1>7. to \in Nat /\ b <= to /\ to <= RegionEnd
  <2>1. PageStart(b) + Page \in Nat /\ PageStart(b) + Page > b
    BY <1>6, NextPage, ZenonT(40)
  <2> QED  BY <1>3, <1>6, <2>1 DEF StepOver, Least
<1>8. (snap' = says(rest) /\ pc' = "leave") \/ (snap' = over /\ pc' = "extent" /\ cursor' = to)
  BY <1>5, Zenon
<1> HIDE DEF to
<1>9. Passed(snap, GapTo(b), cursor, b)
  BY <1>3, <1>4, <1>6, GapPasses, Zenon
<1>10. /\ DOMAIN GapTo(b) = SnapFields /\ GapTo(b).complete \in BOOLEAN
       /\ GapTo(b).complete => from \in Nat /\ \A u \in b .. to - 1 : u < vs.covered \/ from <= u
  <2>1. DOMAIN GapTo(b) = SnapFields /\ GapTo(b).complete \in BOOLEAN /\ (GapTo(b).complete => snap.complete)
    BY <1>9, Zenon DEF Passed, Adds
  <2> QED  BY <1>4, <1>6, <1>7, <2>1, FromCovered, Zenon
<1> HIDE DEF from
<1>11. Passed(GapTo(b), hole, b, to)
  BY <1>6, <1>7, <1>10, UnreadablePasses, Zenon
<1> HIDE DEF hole
<1>12. Passed(snap, said, cursor, to)
  BY <1>3, <1>6, <1>7, <1>9, <1>11, PassesOn, SaysPasses, ZenonT(40)
<1> HIDE DEF said
<1>13. Alike(said, over)
  <2>1. DOMAIN said = SnapFields
    BY <1>12, Zenon DEF Passed
  <2> QED  BY <2>1, Zenon DEF Alike, SnapFields
<1> HIDE DEF over
<1>14. Passed(snap, over, cursor, to)
  BY <1>12, <1>13, AlikePasses, Zenon
<1>15. Passed(snap, says(rest), cursor, RegionEnd)
  <2>1. DOMAIN over = SnapFields /\ over.complete \in BOOLEAN
    BY <1>14, ZenonT(40) DEF Passed
  <2>2. \A u \in to .. RegionEnd - 1 : to <= u
    BY <1>3, <1>7
  <2>3. Passed(over, rest, to, RegionEnd)
    BY <1>3, <1>7, <2>1, <2>2, UnreadablePasses, Zenon
  <2> QED  BY <1>3, <1>7, <1>14, <2>3, PassesOn, SaysPasses, ZenonT(40)
<1>16. CASE snap' = says(rest) /\ pc' = "leave"
  <2>1. RegionEnd <= RegionEnd
    BY <1>3
  <2> QED  BY <1>1, <1>2, <1>3, <1>15, <1>16, <2>1, PassStep, Zenon
<1>17. CASE snap' = over /\ pc' = "extent" /\ cursor' = to
  <2>1. cursor <= to
    BY <1>3, <1>6, <1>7
  <2> QED  BY <1>1, <1>2, <1>3, <1>7, <1>14, <1>17, <2>1, PassStep, Zenon
<1> QED  BY <1>8, <1>16, <1>17, ZenonT(40)

\* A transfer changes nothing that is found, and one that fails passes over its extent.
LEMMA ReadExact == ASSUME WalkInv, ExactInv, ReadChunkOk \/ ReadFails PROVE ExactInv'
<1>1. pc = "read" /\ target' = target /\ r' = r /\ vs' = vs /\ dec' = dec
  BY Zenon DEF ReadChunkOk, ReadFails, Transfers, KeepRegion
<1>2. pc \in Inside /\ pc \in {"extent", "read"} /\ pc # "extent" /\ pc \in Inside \ {"extent"}
  BY <1>1, Zenon DEF Inside
<1>3. /\ cursor \in Nat /\ RegionEnd \in Nat /\ Region.address <= cursor /\ RegionEnd = EndOf(Region)
      /\ DOMAIN snap = SnapFields /\ snap.complete \in BOOLEAN /\ Region.address \in Nat
  BY <1>2, ExactFacts, Zenon
<1>4. /\ DOMAIN extent = {"base", "end", "got"} /\ extent.base \in Nat /\ extent.end \in Nat /\ cursor <= extent.base
      /\ extent.base < extent.end /\ extent.end <= RegionEnd
  BY <1>2, <1>3, ZenonT(40) DEF WalkInv, Place, ExtentOk
<1>5. /\ Region.address <= extent.base /\ extent.base <= extent.base /\ extent.base <= RegionEnd
      /\ extent.base <= extent.end
  BY <1>3, <1>4
<1>6. CASE ReadChunkOk
  <2>1. /\ extent' = [extent EXCEPT !.got = Least(extent.got + ReadChunk, extent.end - extent.base)]
        /\ pc' \in {"read", "decode"}
    BY <1>1, <1>6, Zenon DEF ReadChunkOk
  <2>2. extent'.base = extent.base
    BY <1>4, <2>1, ZenonT(40)
  <2>3. Alike(snap, snap')
    <3>1. snap' = snap \/ \E v : snap' = [snap EXCEPT !.recovered = v]
      BY <1>6, Zenon DEF ReadChunkOk
    <3> QED  BY <1>3, <3>1, Zenon DEF Alike, SnapFields
  <2>4. Passed(snap, snap, extent.base, extent.base)
    <3>1. \A u \in extent.base .. extent.base - 1 : FALSE
      BY <1>4
    <3> QED  BY <1>3, <3>1, ZenonT(40) DEF Passed, Adds, Clear
  <2>5. Passed(snap, snap', extent.base, extent.base)
    BY <2>3, <2>4, AlikePasses, ZenonT(40)
  <2> QED  BY <1>1, <1>2, <1>4, <1>5, <2>1, <2>2, <2>5, PassStep, Zenon
<1>7. CASE ReadFails
  <2>1. snap' = says(unreadable(snap, extent.base, extent.end)) /\ cursor' = extent.end /\ pc' = "extent"
    BY <1>7, ZenonT(40) DEF ReadFails
  <2>2. \A u \in extent.base .. extent.end - 1 : extent.base <= u
    BY <1>4
  <2>3. Passed(snap, unreadable(snap, extent.base, extent.end), extent.base, extent.end)
    BY <1>3, <1>4, <2>2, UnreadablePasses, Zenon
  <2>4. Passed(snap, snap', extent.base, extent.end)
    BY <2>1, <2>3, SaysPasses, Zenon
  <2> QED  BY <1>1, <1>2, <1>4, <1>5, <2>1, <2>4, PassStep, ZenonT(40)
<1> QED  BY <1>6, <1>7, Zenon

-----------------------------------------------------------------------------
(* A walk is exact. *)

\* Every step of the walk keeps it exact.
LEMMA ExactNext == ASSUME WalkInv, ExactInv, [Next]_vars PROVE ExactInv'
<1>0. WalkInv'
  BY WalkNextInv, Zenon
<1>1. CASE Walk
  BY <1>0, <1>1, BeginRegionExact, LeaveExact, FinishExact, QueryEndsExact, QueryStallsExact, QueryFindsExact, ReadExact,
     BeginPagesExact, BeginLfhExact, LfhSlotExact, PageRangeExact, SpecialPageExact, BeginVsExact, VsRefuseExact,
     VsChunkExact, EndVsExact, ZenonT(40) DEF Walk
<1>2. CASE Expire \/ Interrupt \/ UNCHANGED vars
  <2>1. target' = target /\ pc' = pc /\ r' = r /\ cursor' = cursor /\ vs' = vs /\ extent' = extent /\ dec' = dec /\ snap' = snap
    BY <1>2, Zenon DEF Expire, Interrupt, vars
  <2> QED  BY <2>1, ClockExact, Zenon
<1> QED  BY <1>1, <1>2, Zenon DEF Next

\* For every target that an allocator lays out, whatever the engine answers and whenever the
\* walk is cut short: a snapshot that calls itself complete has exactly the blocks that are
\* allocated, and one with no refused header has none that is not (walk_region, walk_lfh, walk_vs).
THEOREM RegionsExactHolds == Spec => []RegionsExact
<1>1. Init => ExactInv
  BY ExactInit, Zenon
<1>2. WalkInv /\ ExactInv /\ [Next]_vars => ExactInv'
  BY ExactNext, Zenon
<1>3. WalkInv /\ ExactInv => RegionsExact
  BY ExactSound, Zenon
<1> QED  BY <1>1, <1>2, <1>3, WalkInvHolds, PTL DEF Spec
=============================================================================
