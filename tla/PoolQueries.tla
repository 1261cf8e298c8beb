---------------------------- MODULE PoolQueries ----------------------------
(***************************************************************************)
(* The index a pool walk is put into (pool/index.rs), the questions asked  *)
(* of it (pool/query.rs), and the map that !poolmap draws from it          *)
(* (pool/render.rs, pool_extension.rs).  A span is a record of its header, *)
(* its usable address and size, tag, kind, heap, subsegment, backend,      *)
(* state and size class; positions count from 1 and 0 is "none".           *)
(***************************************************************************)
EXTENDS Integers, Sequences, SequencesExt, FiniteSetsExt

CONSTANT Walks  \* the span sequences a walk may have recorded, in walk order

VARIABLES
  index,   \* PoolIndex.spans
  flags,   \* its complete, budget_expired and stopped_after_matches
  asked,   \* the question put to it, <<>> before the first
  answer   \* what came back

queryVars == <<index, flags, asked, answer>>

is_chunk(state) == state \in {"Allocated", "ReusableFree", "CachedFree"}
is_paged(kind) == kind \in {"Paged", "PrototypePaged", "SpecialPaged", "SpecialPrototypePaged"}
end(span) == span.usable + span.size
contains_address(span, address) == address >= span.header /\ address < end(span)

-----------------------------------------------------------------------------
\* PoolIndex::build's order, and the postings as sets of positions.
Before(a, b) == a.heap < b.heap \/ (a.heap = b.heap /\ a.usable < b.usable)
build(spans) == SortSeq(spans, Before)

Postings(ix, tag) == {i \in DOMAIN ix : ix[i].state = "Allocated" /\ ix[i].tag = tag}
Row(span) == <<span.kind, span.heap, span.backend, span.sub, span.class>>

\* Mutant: a gap the walk accounted for is a neighbour too.
same_boundary_gaps(l, r) ==
  l.kind = r.kind /\ l.heap = r.heap /\ l.backend = r.backend /\ l.sub = r.sub

same_boundary(l, r) ==
  /\ l.kind = r.kind /\ l.heap = r.heap /\ l.backend = r.backend /\ l.sub = r.sub
  /\ is_chunk(l.state) /\ is_chunk(r.state)

predecessor(ix, i) == IF i > 1 /\ same_boundary(ix[i - 1], ix[i]) THEN i - 1 ELSE 0
successor(ix, i) == IF i < Len(ix) /\ same_boundary(ix[i], ix[i + 1]) THEN i + 1 ELSE 0

-----------------------------------------------------------------------------
\* The holes on one side of an allocation, nearest first: holes' loop, which an allocation
\* or the end of the boundary stops.
Onward(ix, i, direction) ==
  IF direction = "Overflow" THEN successor(ix, i) ELSE predecessor(ix, i)
Distance(ix, origin, i, direction) ==
  LET d == IF direction = "Overflow" THEN ix[i].usable - end(ix[origin])
                                     ELSE ix[origin].usable - end(ix[i])
  IN  IF d < 0 THEN 0 ELSE d

holes(ix, origin, direction) ==
  LET reach[n \in 0 .. Len(ix)] ==   \* the positions after n turns of the loop
        IF n = 0 THEN <<origin>>
        ELSE LET next == Onward(ix, Last(reach[n - 1]), direction)
             IN  IF next = 0 \/ Len(reach[n - 1]) < n \/ ix[next].state = "Allocated"
                 THEN reach[n - 1] ELSE Append(reach[n - 1], next)
      found == Tail(reach[Len(ix)])
  IN  [k \in DOMAIN found |->
         [at |-> found[k], distance |-> Distance(ix, origin, found[k], direction),
          immediate |-> k = 1 /\ Distance(ix, origin, found[k], direction) = 0]]

\* ranked_holes' sort key, compared lexicographically; FALSE sorts first.
RankKey(ix, origin, hole) ==
  LET span == ix[hole.at]
      bit(b) == IF b THEN 1 ELSE 0
  IN  << bit(~hole.immediate), bit(span.state # "ReusableFree"),
         bit(span.backend # ix[origin].backend \/ span.class # ix[origin].class),
         hole.distance, - span.size, span.usable >>
LexLess(a, b) ==
  \E k \in DOMAIN a : a[k] < b[k] /\ \A j \in 1 .. k - 1 : a[j] = b[j]

ranked_holes(ix, origin, direction) ==
  SortSeq(holes(ix, origin, direction),
          LAMBDA a, b : LexLess(RankKey(ix, origin, a), RankKey(ix, origin, b)))

\* The positions of a tag's allocations and of everything in their rows.
context_for_tag(ix, tag) ==
  LET rows == {Row(ix[i]) : i \in Postings(ix, tag)}
  IN  {i \in DOMAIN ix : Row(ix[i]) \in rows}

-----------------------------------------------------------------------------
KeptBy(filter, span) ==
  filter = "all" \/ (filter = "Paged") = is_paged(span.kind)

collect_tag(ix, tag, filter) == {i \in Postings(ix, tag) : KeptBy(filter, ix[i])}

touching(left, right) == left.backend = "Vs" \/ end(left) = right.header

\* The first span that holds the address, and the neighbours that border it.
neighbourhood_at(ix, address) ==
  LET holders == {i \in DOMAIN ix : contains_address(ix[i], address)}
      at == Min(holders)
      p == predecessor(ix, at)
      n == successor(ix, at)
  IN  IF holders = {} THEN [chunk |-> 0, previous |-> 0, next |-> 0]
      ELSE [chunk |-> at,
            previous |-> IF p # 0 /\ touching(ix[p], ix[at]) THEN p ELSE 0,
            next |-> IF n # 0 /\ touching(ix[at], ix[n]) THEN n ELSE 0]

\* One entry of the census, and the census in its order: bytes first, then the tag.
Summary(ix, tag) ==
  LET of == Postings(ix, tag)
  IN  [tag |-> tag, allocations |-> Cardinality(of),
       bytes |-> MapThenSumSet(LAMBDA i : ix[i].size, of),
       paged |-> Cardinality({i \in of : is_paged(ix[i].kind)}),
       nonpaged |-> Cardinality({i \in of : ~is_paged(ix[i].kind)})]

summarize_tags(ix) ==
  SetToSortSeq({Summary(ix, ix[i].tag) : i \in {j \in DOMAIN ix : ix[j].state = "Allocated"}},
               LAMBDA a, b : a.bytes > b.bytes \/ (a.bytes = b.bytes /\ a.tag < b.tag))

-----------------------------------------------------------------------------
glyph(span, selected) ==
  IF selected THEN "S"
  ELSE CASE span.state = "Allocated" -> "A"
         [] span.state = "ReusableFree" -> "."
         [] span.state = "CachedFree" -> "c"
         [] span.state = "Unreadable" -> "?"
         [] span.state = "Uncommitted" -> "-"

\* One row of the map: its cells in index order, each marked when it does not follow the one
\* before it in the index.
DrawnRow(ix, shown, row, tag) ==
  LET at == SetToSortSeq({i \in shown : Row(ix[i]) = row}, <)
  IN  [k \in DOMAIN at |->
         [bar |-> k > 1 /\ at[k - 1] + 1 # at[k],
          span |-> ix[at[k]],
          glyph |-> glyph(ix[at[k]], ix[at[k]].tag = tag /\ ix[at[k]].state = "Allocated")]]

\* Every !poolmap that draws has a tag.
render_pool_map(ix, tag) ==
  LET shown == context_for_tag(ix, tag)
  IN  {DrawnRow(ix, shown, row, tag) : row \in {Row(ix[i]) : i \in shown}}

\* The hole each side of each allocation of the tag that the advice names.
render_advice(ix, tag) ==
  {[of |-> i, direction |-> d, hole |-> Head(ranked_holes(ix, i, d))] :
     <<i, d>> \in {<<j, e>> \in Postings(ix, tag) \X {"Overflow", "Underflow"} :
                     holes(ix, j, e) # <<>>}}

\* What the walk managed, and how the summary words it.
report_of(ix) ==
  [total |-> Len(ix), allocated |-> Len(SelectSeq(ix, LAMBDA s : s.state = "Allocated")),
   coverage |-> IF flags.complete THEN "Complete"
                ELSE IF flags.expired THEN "BudgetExpired" ELSE "Partial",
   stopped |-> flags.stopped]
render_walk_summary(walked) ==
  [total |-> walked.total, allocated |-> walked.allocated,
   coverage |-> IF walked.stopped THEN "match_limit_reached" ELSE walked.coverage]

\* command_poolmap takes the report before it filters.
Summarised(ix, filtered) == render_walk_summary(report_of(ix))

Filtered(ix, filter) ==
  IF filter = "all" THEN ix ELSE build(SelectSeq(ix, LAMBDA s : KeptBy(filter, s)))

-----------------------------------------------------------------------------
Unanswered == [says |-> "nothing"]
QueryInit ==
  /\ index \in {build(w) : w \in Walks}
  /\ flags \in [complete : BOOLEAN, expired : BOOLEAN, stopped : BOOLEAN]
  /\ flags.complete => /\ ~flags.expired /\ ~flags.stopped
                       /\ \A i \in DOMAIN index : index[i].state # "Unreadable"
  /\ ~(flags.expired /\ flags.stopped)
  /\ asked = <<"nothing">> /\ answer = Unanswered

TagsIn(ix) == {ix[i].tag : i \in DOMAIN ix}
Filters == {"all", "Paged", "NonPaged"}

Asks(question, reply) ==
  asked = <<"nothing">> /\ asked' = question /\ answer' = reply /\ UNCHANGED <<index, flags>>

find_tag ==
  \E tag \in TagsIn(index), filter \in Filters :
    Asks(<<"find", tag, filter>>, [found |-> collect_tag(index, tag, filter)])

chunk_at ==
  \E address \in UNION {{s.header, s.usable, end(s)} : s \in ToSet(index)} :
    Asks(<<"chunk", address>>, neighbourhood_at(index, address))

tag_census == Asks(<<"census">>, [tags |-> summarize_tags(index)])

command_poolmap ==
  \E tag \in TagsIn(index), filter \in Filters :
    Asks(<<"map", tag, filter>>,
         [rows |-> render_pool_map(Filtered(index, filter), tag),
          advice |-> render_advice(Filtered(index, filter), tag),
          summary |-> Summarised(index, Filtered(index, filter)),
          on |-> Filtered(index, filter)])

\* !poolmap of an address: the first span that holds it, or the miss with the walk's summary.
poolmap_address ==
  \E address \in UNION {{s.header, s.usable, end(s)} : s \in ToSet(index)} :
    LET at == neighbourhood_at(index, address).chunk
    IN  Asks(<<"address", address>>,
             IF at = 0 THEN [says |-> "miss", summary |-> render_walk_summary(report_of(index))]
             ELSE [says |-> IF index[at].state = "Allocated" THEN "allocation" ELSE "hole",
                   span |-> index[at]])

QueryNext == find_tag \/ chunk_at \/ tag_census \/ command_poolmap \/ poolmap_address

-----------------------------------------------------------------------------
\* Where the allocator's chunk begins: a VS span records the pool header, which the chunk
\* header is in front of (snapshot.rs, walk_vs).
VsHeaderUnits == 1
ChunkStart(span) == span.header - (IF span.backend = "Vs" THEN VsHeaderUnits ELSE 0)
Adjoin(l, r) == l.heap = r.heap /\ l.sub = r.sub /\ end(l) = ChunkStart(r)

\* The chunk that ends where this one begins, and the one that begins where it ends, is never
\* left out of the answer when it was decoded, and LFH slack is never stepped across
\* (neighbourhood_at, same_boundary).
BorderingReported ==
  asked[1] = "chunk" /\ answer.chunk # 0 /\ is_chunk(index[answer.chunk].state) =>
    /\ \A i \in DOMAIN index :
         is_chunk(index[i].state) =>
           /\ Adjoin(index[i], index[answer.chunk]) => answer.previous = i
           /\ Adjoin(index[answer.chunk], index[i]) => answer.next = i
    /\ index[answer.chunk].backend # "Vs" =>
         /\ answer.previous # 0 => Adjoin(index[answer.previous], index[answer.chunk])
         /\ answer.next # 0 => Adjoin(index[answer.chunk], index[answer.next])

\* The census and the tag queries describe one pool: each tag is listed once, with the number
\* that find_tag answers, split by kind as its filters split it, and heavier tags first
\* (summarize_tags, "so it stays consistent with find_tag").
CensusAgrees ==
  asked[1] = "census" =>
    LET lines == answer.tags IN
    /\ {lines[k].tag : k \in DOMAIN lines} = {t \in TagsIn(index) : Postings(index, t) # {}}
    /\ \A k \in DOMAIN lines :
         /\ lines[k].allocations = Cardinality(collect_tag(index, lines[k].tag, "all"))
         /\ lines[k].paged = Cardinality(collect_tag(index, lines[k].tag, "Paged"))
         /\ lines[k].nonpaged = Cardinality(collect_tag(index, lines[k].tag, "NonPaged"))
         /\ \A j \in 1 .. k - 1 : lines[j].tag # lines[k].tag /\ lines[j].bytes >= lines[k].bytes

\* Filtering the map by kind draws exactly the rows of that kind of the whole map, with the
\* same cells and the same breaks (command_poolmap's rebuild of the index).
FilterKeepsRows ==
  asked[1] = "map" =>
    answer.rows = {r \in render_pool_map(index, asked[2]) : KeptBy(asked[3], Head(r).span)}

\* An empty or a filtered map still says how much of the pool was walked: every span and every
\* allocation of the walk is in its totals, and it reads complete only when the walk was, was
\* not stopped early and ran out of no time (render_walk_summary, report_of).
SummaryOfTheWalk ==
  asked[1] = "map" =>
    /\ answer.summary.total = Len(index)
    /\ answer.summary.allocated =
         Cardinality(UNION {Postings(index, tag) : tag \in TagsIn(index)})
    /\ answer.summary.coverage = "Complete" => flags.complete
    /\ flags.stopped => answer.summary.coverage = "match_limit_reached"

\* The hole the advice names can be reached from the allocation over free chunks only: no
\* live chunk, no gap and no other subsegment lies between them (holes, render_advice).
AdvisedHoleReachable ==
  asked[1] = "map" =>
    \A a \in answer.advice :
      LET ix == answer.on
          lo == Min({a.of, a.hole.at})
          hi == Max({a.of, a.hole.at})
      IN  /\ lo < hi /\ (a.direction = "Overflow") = (a.of = lo)
          /\ \A i \in lo .. hi :
               ix[i].sub = ix[a.of].sub /\ ix[i].heap = ix[a.of].heap /\ ix[i].backend = ix[a.of].backend
          /\ \A i \in (lo .. hi) \ {a.of} : ix[i].state \in {"ReusableFree", "CachedFree"}

\* Every answer out of one index is about the same pool: neighbours border, the census counts
\* what a tag query finds, a filter only narrows what is drawn, and advice can be followed
\* (pool/query.rs, pool/render.rs, pool_extension.rs).
QueriesAgree ==
  /\ BorderingReported
  /\ CensusAgrees
  /\ FilterKeepsRows
  /\ SummaryOfTheWalk
  /\ AdvisedHoleReachable
=============================================================================
