----------------------------- MODULE HeapRoots ------------------------------
(***************************************************************************)
(* The heaps of a user process (heap.rs): first a query, from the refusals *)
(* to the heap roots and what of them reaches the walk; then what is       *)
(* answered out of a walk that is over.                                    *)
(***************************************************************************)
EXTENDS Integers, Sequences, FiniteSets, Functions, TLC, SequencesExt

-----------------------------------------------------------------------------
(***************************************************************************)
(* A query of a user process's heaps: which targets are refused, how the   *)
(* heap roots are found by following ntdll's list of them, and what of     *)
(* that reaches the walk, its report and the cache (heap.rs).              *)
(*                                                                         *)
(* The process is external and is stopped: its heaps, the list they are    *)
(* on, what of its memory cannot be read.  The walk of the roots' regions  *)
(* is RegionWalk's; here it is complete or it is not.                      *)
(***************************************************************************)

CONSTANTS
  Processes,         \* the processes that may be looked at
  MAX_PROCESS_HEAPS,
  Selectors          \* the heaps a query may ask for alone

NoHeap == 0
Supported == "supported"
UserRange == 2 .. 99  \* user_pointer; 1 is an address inside ntdll that a head may have

VARIABLES
  process,  \* the process this behaviour is of
  ask,      \* the query: where it is, the heap it selects, whether it refreshes
  clock,    \* whether the budget has run out, and whether somebody asked to stop
  rootsFound,    \* RootEnumeration: roots, total, budget_expired, unseen
  list,     \* the loop of follow_heap_list
  scope,    \* HeapScope: the segment heaps to walk
  kept,     \* the snapshot cache: heap selector -> [roots, walked] of a walk kept
  answered  \* what the query returned

heapVars == <<process, ask, clock, rootsFound, list, scope, kept, answered>>

NoAnswer == [error |-> "none yet"]
NoList == [visited |-> {}, heads |-> {}, entry |-> 0, previous |-> 0, start |-> 0, firstBlink |-> 0]
NoRoots == [roots |-> <<>>, total |-> -1, expired |-> FALSE, unseen |-> FALSE]
Nowhere == [at |-> "idle", heap |-> NoHeap, refresh |-> FALSE, next |-> 1]

HeapInit ==
  /\ process \in Processes
  /\ ask = Nowhere
  /\ clock = [expired |-> FALSE, interrupt |-> FALSE]
  /\ rootsFound = NoRoots /\ list = NoList /\ scope = {}
  /\ kept = <<>> /\ answered = NoAnswer

At(phase) == ask.at = phase
Goto(phase) == ask' = [ask EXCEPT !.at = phase]
Return(answer) == ask' = Nowhere /\ answered' = answer
Fails(error) == Return([error |-> error, heap |-> ask.heap])

\* A deadline passes, or somebody asks the engine to stop, at any moment of a query.
Expire == clock' = [clock EXCEPT !.expired = TRUE]
Interrupt == clock' = [clock EXCEPT !.interrupt = TRUE]
ClockRuns ==
  /\ ~At("idle") /\ (Expire \/ Interrupt) /\ clock' # clock
  /\ UNCHANGED <<process, ask, rootsFound, list, scope, kept, answered>>

-----------------------------------------------------------------------------
(* The targets that are refused. *)

\* list, allocations, chunk_at, census and diagnostics ask for every heap, and
\* diagnostics_for_heap for one.
prepare_for_heap(heap, refresh) ==
  /\ At("idle")
  /\ ask' = [Nowhere EXCEPT !.at = "validate", !.heap = heap, !.refresh = refresh]
  /\ clock' = [expired |-> FALSE, interrupt |-> FALSE]
  /\ rootsFound' = NoRoots /\ list' = NoList /\ scope' = {} /\ answered' = NoAnswer
  /\ UNCHANGED <<process, kept>>

validate_target ==
  /\ At("validate")
  /\ LET t == process.target
         error == IF t.kernel THEN "NotUserTarget"
                  ELSE IF t.status = "NO_DEBUGGEE" THEN "NoDebuggee"
                  ELSE IF t.status # "BREAK" THEN "TargetRunning"
                  ELSE IF t.machine \notin {"AMD64", "ARM64"} THEN "UnsupportedArchitecture"
                  ELSE IF t.peb = 0 THEN "InvalidPeb" ELSE Supported
     IN  IF error = Supported THEN Goto("schema") /\ UNCHANGED answered ELSE Fails(error)
  /\ UNCHANGED <<process, clock, rootsFound, list, scope, kept>>

\* check: an interrupt before an expiry, both of them errors before the roots are read.
Polled(go) ==
  IF clock.interrupt THEN Fails("Interrupted")
  ELSE IF clock.expired THEN Fails("BudgetExpired") ELSE go

\* The layout of ntdll, which Layouts resolves; without a PDB's types it is refused.
resolve_schema ==
  /\ At("schema")
  /\ Polled(IF process.target.pdb THEN Goto("wow64") /\ UNCHANGED answered ELSE Fails("Layout"))
  /\ UNCHANGED <<process, clock, rootsFound, list, scope, kept>>

refuse_wow64 ==
  /\ At("wow64")
  /\ Polled(LET teb == process.target.teb
            IN  IF teb \in {"null", "unreadable"} THEN Fails("InvalidTeb")
                ELSE IF teb = "wow64" THEN Fails("Wow64Process")
                ELSE Goto("cache") /\ UNCHANGED answered)
  /\ UNCHANGED <<process, clock, rootsFound, list, scope, kept>>

\* walk_snapshot: a refresh drops the entry, whatever its key.
Cache ==
  /\ At("cache")
  /\ IF ask.refresh THEN kept' = <<>> /\ Goto("peb") /\ UNCHANGED answered
     ELSE /\ UNCHANGED kept
          /\ IF ask.heap \in DOMAIN kept
             THEN Return([error |-> "", heap |-> ask.heap, complete |-> TRUE,
                          walked |-> kept[ask.heap].walked, roots |-> kept[ask.heap].roots])
             ELSE Goto("peb") /\ UNCHANGED answered
  /\ UNCHANGED <<process, clock, rootsFound, list, scope>>

-----------------------------------------------------------------------------
(* The heap roots. *)

\* classify_root, of the two signatures that one read covers.
Signatures(h) == IF h \in DOMAIN process.heaps THEN process.heaps[h].signatures ELSE {}
classify_root(h) ==
  IF <<"signature", h>> \in process.unreadable \/ h \notin DOMAIN process.heaps THEN "Unreadable"
  ELSE IF Signatures(h) = {"Segment"} THEN "Segment"
  ELSE IF Signatures(h) = {"Nt"} THEN "Nt" ELSE "Unknown"
classify_at(h) == IF h \notin UserRange THEN "Unknown" ELSE classify_root(h)

root(h) == [address |-> h, kind |-> classify_at(h)]

\* list_entry_of: the entry a heap names, 0 when it names none, -1 when it cannot say.
list_entry_of(h) ==
  LET kind == classify_at(h)
  IN  IF kind \notin {"Segment", "Nt"} \/ <<"name", h>> \in process.unreadable THEN -1
      ELSE IF kind \notin process.fields THEN 0 ELSE process.heaps[h].names

\* root_read_budget_expired, before every read: what was rootsFound so far is the answer.
RootRead(go) ==
  IF clock.interrupt THEN Fails("Interrupted") /\ UNCHANGED <<rootsFound, list>>
  ELSE IF clock.expired
       THEN rootsFound' = [rootsFound EXCEPT !.expired = TRUE] /\ Goto("scope") /\ UNCHANGED <<list, answered>>
       ELSE go

\* peb_heaps, then where the process heap says the list is.
peb_heaps ==
  LET peb == process.peb
  IN  IF peb.unreadable THEN "Engine"
      ELSE IF peb.count > MAX_PROCESS_HEAPS THEN "InvalidPeb"
      ELSE IF peb.count = 0 THEN ""
      ELSE IF peb.array \notin UserRange THEN "InvalidPeb" ELSE ""
Named == process.peb.heaps

ReadPeb ==
  /\ At("peb")
  /\ RootRead(IF peb_heaps # "" THEN Fails(peb_heaps) /\ UNCHANGED <<rootsFound, list>>
              ELSE /\ Goto(IF Named = <<>> \/ process.fields = {} THEN "unlisted" ELSE "start")
                   /\ UNCHANGED <<rootsFound, list, answered>>)
  /\ UNCHANGED <<process, clock, scope, kept>>

Unseen == rootsFound' = [rootsFound EXCEPT !.unseen = TRUE] /\ Goto("named")

Start ==
  /\ At("start")
  /\ RootRead(LET entry == list_entry_of(Named[1])
              IN  /\ UNCHANGED answered
                  /\ IF entry = -1 THEN Unseen /\ UNCHANGED list
                     ELSE /\ UNCHANGED rootsFound
                          /\ IF entry = 0 THEN Goto("unlisted") /\ UNCHANGED list
                             ELSE /\ list' = [NoList EXCEPT !.entry = entry, !.start = entry]
                                  /\ Goto("list"))
  /\ UNCHANGED <<process, clock, scope, kept>>

\* No list to follow: the PEB's array is the answer, and its length the number of roots.
Unlisted ==
  /\ At("unlisted")
  /\ rootsFound' = [rootsFound EXCEPT !.total = Len(Named)]
  /\ Goto("named")
  /\ UNCHANGED <<process, clock, list, scope, kept, answered>>

InNtdll(entry) == entry \in process.ntdll
ReadsEntry(entry) == entry \in DOMAIN process.entries /\ <<"entry", entry>> \notin process.unreadable

\* Every entry but the first links back to the one before it.
linked_back(entry) ==
  list.previous # 0 => process.entries[entry].blink = list.previous

\* The heap an entry stands for names the entry.
named_back(entry) == list_entry_of(process.entries[entry].heap) = entry

\* Mutant: the first entry is not asked for the last one.
Closed_unchecked(l) == Cardinality(l.heads) = 1

\* At the end of the list: it closes, and exactly one entry is the head inside ntdll.
Closed(l) == l.firstBlink = l.previous /\ Cardinality(l.heads) = 1

\* One turn of follow_heap_list's loop.
ListTurn ==
  LET entry == list.entry
      links == process.entries[entry]
      next == [list EXCEPT !.visited = @ \cup {entry}, !.previous = entry, !.entry = links.flink,
                           !.heads = IF InNtdll(entry) THEN @ \cup {entry} ELSE @,
                           !.firstBlink = IF list.previous = 0 THEN links.blink ELSE @]
      taken == IF InNtdll(entry) THEN rootsFound.roots ELSE Append(rootsFound.roots, root(links.heap))
      back == links.flink = list.start
  IN  /\ At("list")
      /\ RootRead(
           /\ UNCHANGED answered
           /\ IF \/ entry \in list.visited \/ ~ReadsEntry(entry)
                 \/ ~linked_back(entry) \/ (~InNtdll(entry) /\ ~named_back(entry))
              THEN Unseen /\ UNCHANGED list
              ELSE /\ list' = next
                   /\ rootsFound' = [rootsFound EXCEPT !.roots = taken, !.unseen = back /\ ~Closed(next)]
                   /\ Goto(IF back THEN "named" ELSE "list"))
      /\ UNCHANGED <<process, clock, scope, kept>>

OnList == {rootsFound.roots[i].address : i \in DOMAIN rootsFound.roots}

\* What the PEB names and the list did not hold.  The PEB names no heap twice.
NamedTurn ==
  LET h == Named[ask.next]
  IN  /\ At("named")
      /\ IF ask.next > Len(Named) THEN Goto("scope") /\ UNCHANGED <<rootsFound, list, answered>>
         ELSE IF h \in OnList THEN ask' = [ask EXCEPT !.next = @ + 1] /\ UNCHANGED <<rootsFound, list, answered>>
         ELSE RootRead(/\ ask' = [ask EXCEPT !.next = @ + 1]
                       /\ rootsFound' = [rootsFound EXCEPT !.roots = Append(@, root(h))]
                       /\ UNCHANGED <<list, answered>>)
      /\ UNCHANGED <<process, clock, scope, kept>>

-----------------------------------------------------------------------------
(* The walk of them. *)

saw_every_root == ~rootsFound.expired /\ ~rootsFound.unseen
OfKind(kind) == {r.address : r \in {x \in Range(rootsFound.roots) : x.kind = kind}}

\* scope_for: a heap is refused when it is of another kind, or when every root was seen
\* and it is none of them.
Unsupported(heap) ==
  /\ heap # NoHeap /\ heap \notin OfKind("Segment")
  /\ heap \in OnList \/ saw_every_root

scope_for ==
  /\ At("scope")
  /\ IF Unsupported(ask.heap) THEN Fails("UnsupportedHeap") /\ UNCHANGED scope
     ELSE /\ Goto("walk") /\ UNCHANGED answered
          /\ scope' = IF rootsFound.expired THEN {}
                      ELSE OfKind("Segment") \cap (IF ask.heap = NoHeap THEN UserRange ELSE {ask.heap})
  /\ UNCHANGED <<process, clock, rootsFound, list, kept>>

\* with_unseen_roots and truncated_root_snapshot.
complete(walked) == walked /\ ~rootsFound.expired /\ ~rootsFound.unseen

\* walk_user_segment_heaps, unless the budget went before it; only a complete walk is kept,
\* and it is the one entry.
Walk ==
  /\ At("walk")
  /\ \E walked \in {"complete", "partial", "interrupted", "failed"} :
       /\ rootsFound.expired => walked = "partial"
       /\ clock.expired => walked # "complete"
       /\ IF walked \in {"interrupted", "failed"} THEN Fails(walked) /\ UNCHANGED kept
          ELSE LET whole == complete(walked = "complete")
               IN  /\ Return([error |-> "", heap |-> ask.heap, complete |-> whole,
                              walked |-> scope, roots |-> rootsFound.roots])
                   /\ kept' = IF whole THEN ask.heap :> [walked |-> scope, roots |-> rootsFound.roots]
                              ELSE kept
  /\ UNCHANGED <<process, clock, rootsFound, list, scope>>

HeapStep ==
  \/ validate_target \/ resolve_schema \/ refuse_wow64 \/ Cache \/ ReadPeb \/ Start
  \/ Unlisted \/ ListTurn \/ NamedTurn \/ scope_for \/ Walk

HeapNext ==
  \/ HeapStep \/ ClockRuns
  \/ \E heap \in Selectors \cup {NoHeap}, refresh \in BOOLEAN : prepare_for_heap(heap, refresh)

-----------------------------------------------------------------------------
(* Properties. *)

Answers == answered.error = ""
SegmentHeaps == {h \in process.genuine : Signatures(h) = {"Segment"}
                                         /\ <<"signature", h>> \notin process.unreadable}

\* Following the list from the process heap, over memory where any one link, name or heap
\* pointer is wrong or unreadable, either finds every heap of the process or says that
\* heaps may be unseen.
EveryHeapSeen ==
  At("scope") /\ saw_every_root => process.genuine \subseteq OnList

\* No heap is listed twice, however the list and the PEB overlap and whatever the links.
RootsDistinct ==
  \A i, j \in DOMAIN rootsFound.roots :
    rootsFound.roots[i].address = rootsFound.roots[j].address => i = j

\* An answer that calls itself complete, from the walk or from the cache, covers every
\* readable segment heap of the process, or the one that was asked for.
CompleteIsWhole ==
  Answers /\ answered.complete =>
    IF answered.heap = NoHeap THEN SegmentHeaps \subseteq answered.walked
    ELSE answered.heap \in SegmentHeaps => answered.heap \in answered.walked

\* A heap that is refused is not a segment heap of the process: what enumeration did not
\* see is unknown and not absent.
RefusedHeapIsNone ==
  answered.error = "UnsupportedHeap" => answered.heap \notin SegmentHeaps

\* A process whose own heaps are 32-bit ones gets no answer, though the 64-bit layer
\* beside it has heaps that would read well.
Wow64Refused == Answers => process.target.teb = "native" /\ ~process.target.kernel

-----------------------------------------------------------------------------
(***************************************************************************)
(* What is answered out of a finished walk of a process's heaps: the       *)
(* report, the chunk at an address with its neighbours, and the census     *)
(* (heap.rs).  A span runs from its header, and its capacity counts from   *)
(* the user address behind the header.                                     *)
(***************************************************************************)

CONSTANTS
  Snapshots,      \* sets of spans that do not overlap
  HeapAddresses   \* the addresses asked about

VARIABLES
  spans,      \* the spans of the walk, and whether it was complete or out of budget
  heapAnswer  \* the last answer

heapQueryVars == <<spans, heapAnswer>>

None == <<>>
Chunks == {"Allocated", "ReusableFree", "CachedFree"}
is_chunk(state) == state \in Chunks
end(a) == a.user + a.capacity
contains(a, address) == address >= a.header /\ address < end(a)

\* from_pool_snapshot: in the order of user addresses, then heaps.
allocations ==
  SetToSortSeq(spans.spans, LAMBDA a, b : a.user < b.user \/ (a.user = b.user /\ a.heap < b.heap))
InState(state) == Cardinality({a \in spans.spans : a.state = state})
coverage ==
  IF spans.complete THEN "Complete" ELSE IF spans.expired THEN "BudgetExpired" ELSE "Partial"
report ==
  [coverage |-> coverage, total |-> Len(allocations), allocated |-> InState("Allocated"),
   unreadable |-> InState("Unreadable"), uncommitted |-> InState("Uncommitted")]

-----------------------------------------------------------------------------
\* partition_point of the user addresses up to this one.
Split(address) == Cardinality({i \in DOMAIN allocations : allocations[i].user <= address})

\* The last span whose user address is not after it, or the next one, by its header.
position(address) ==
  LET before == Split(address)
  IN  IF before > 0 /\ contains(allocations[before], address) THEN before
      ELSE IF before < Len(allocations) /\ contains(allocations[before + 1], address)
           THEN before + 1 ELSE 0

same_heap(a, c) ==
  /\ c.heap = a.heap /\ c.backend = a.backend /\ c.subsegment = a.subsegment
  /\ is_chunk(c.state)

neighbourhood_at(address) ==
  LET at == position(address)
      a == allocations[at]
      before == allocations[at - 1]
      after == allocations[at + 1]
  IN  IF at = 0 THEN None
      ELSE <<[chunk |-> a, offset |-> address - a.user,
              previous |-> IF at > 1 /\ same_heap(a, before) /\ end(before) = a.header
                           THEN <<before>> ELSE None,
              next |-> IF at < Len(allocations) /\ same_heap(a, after) /\ end(a) = after.header
                       THEN <<after>> ELSE None]>>

chunk_at(address) ==
  /\ heapAnswer' = [of |-> "chunk_at", address |-> address, found |-> neighbourhood_at(address),
                    walk |-> report]
  /\ UNCHANGED spans

CensusKey(a) == <<a.heap, a.backend, a.state, a.class>>
Capacity(of) == FoldLeft(LAMBDA sum, a : sum + a.capacity, 0, SetToSeq(of))

\* Rows by capacity, then by chunks, then by key.
census_of ==
  LET row(k) == LET of == {a \in spans.spans : CensusKey(a) = k}
                    one == CHOOSE a \in of : TRUE
                IN  [heap |-> one.heap, state |-> one.state, class |-> one.class,
                     backend |-> one.backend, chunks |-> Cardinality(of), total |-> Capacity(of)]
      first(a, b) == \/ a.total > b.total
                     \/ a.total = b.total /\ a.chunks > b.chunks
  IN  SetToSortSeq({row(CensusKey(a)) : a \in spans.spans}, first)

census ==
  /\ heapAnswer' = [of |-> "census", rows |-> census_of, walk |-> report]
  /\ UNCHANGED spans

HeapQueryInit == spans \in Snapshots /\ heapAnswer = [of |-> "nothing"]
HeapQueryNext ==
  /\ heapAnswer.of = "nothing"
  /\ (\E address \in HeapAddresses : chunk_at(address)) \/ census

-----------------------------------------------------------------------------
(* Properties. *)

\* The span an address lies in is found exactly when there is one, in its header as well
\* as behind it, and whatever gaps lie between spans.
ChunkAtFound ==
  heapAnswer.of = "chunk_at" =>
    LET holding == {a \in spans.spans : contains(a, heapAnswer.address)}
    IN  IF heapAnswer.found = None THEN holding = {}
        ELSE holding = {heapAnswer.found[1].chunk}

\* The neighbours named are the chunks of the same heap, backend and subsegment that the
\* span's header and end touch: all of them, and never a gap.
NeighboursAreChunks ==
  heapAnswer.of = "chunk_at" /\ heapAnswer.found # None =>
    LET found == heapAnswer.found[1]
        a == found.chunk
        beside == {c \in spans.spans : c.state \in Chunks /\ c.heap = a.heap
                                       /\ c.backend = a.backend /\ c.subsegment = a.subsegment}
    IN  /\ Range(found.previous) = {c \in beside : c # a /\ end(c) = a.header}
        /\ Range(found.next) = {c \in beside : c # a /\ c.header = end(a)}

\* Each span is counted in one row of the census, of its own heap; the rows come with the
\* most memory first.
CensusWhole ==
  heapAnswer.of = "census" =>
    LET rows == heapAnswer.rows
    IN  /\ \A a \in spans.spans :
             Cardinality({i \in DOMAIN rows : /\ rows[i].heap = a.heap /\ rows[i].state = a.state
                                              /\ rows[i].class = a.class
                                              /\ rows[i].backend = a.backend}) = 1
        /\ FoldLeft(LAMBDA sum, r : sum + r.chunks, 0, rows) = Cardinality(spans.spans)
        /\ \A i, j \in DOMAIN rows : i < j => rows[i].total >= rows[j].total

\* What is answered of a process's heaps is true of the process: every heap is seen or said to
\* be perhaps unseen, complete means all of them, and a chunk, its neighbours and the census
\* are those of the spans walked (heap.rs).
HeapAnswersExact ==
  /\ EveryHeapSeen
  /\ RootsDistinct
  /\ CompleteIsWhole
  /\ RefusedHeapIsNone
  /\ Wow64Refused
  /\ ChunkAtFound
  /\ NeighboursAreChunks
  /\ CensusWhole
=============================================================================
