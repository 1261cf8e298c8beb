---------------------------- MODULE MCRegionWalk ----------------------------
(***************************************************************************)
(* Small targets for the walk of the regions: pages of four units, regions *)
(* of two to four pages, every choice of readable pages.                   *)
(***************************************************************************)
EXTENDS RegionWalk

NoFunction == [a \in {} |-> 0]

Plain ==
  [backend |-> "Segment", special |-> FALSE, paged |-> FALSE, address |-> 0, size |-> 8,
   pool |-> 1, unit |-> 8, bitmap |-> NoFunction, state |-> "Allocated", known |-> None,
   content |-> NoFunction, tags |-> NoFunction, cached |-> {}, reusable |-> {},
   big |-> NoFunction, skips |-> FALSE, chunks |-> NoFunction, truth |-> {}]

-----------------------------------------------------------------------------
(* VS regions, laid out from a sequence of chunks [size, allocated, big]; the headers of  *)
(* the torn ones do not decode, and off a boundary the bytes may decode as a chunk of     *)
(* size junk.                                                                             *)

Small(n) == [size |-> n, allocated |-> TRUE, big |-> FALSE]
Free(n) == [size |-> n, allocated |-> FALSE, big |-> FALSE]
Big(n) == [size |-> n, allocated |-> TRUE, big |-> TRUE]

Starts(at, chunks) ==
  [i \in DOMAIN chunks |->
     at + (IF i = 1 THEN 0 ELSE IF i = 2 THEN chunks[1].size
           ELSE IF i = 3 THEN chunks[1].size + chunks[2].size
           ELSE chunks[1].size + chunks[2].size + chunks[3].size)]

VsRegion(chunks, torn, junk, pool, skips, cached) ==
  LET at == Starts(1, chunks)
      end == at[Len(chunks)] + chunks[Len(chunks)].size
      starts == {at[i] : i \in DOMAIN chunks}
      guesses == IF junk > 0 THEN {a \in 1 .. end - 2 : a \notin starts} ELSE {}
      read == (starts \ {at[i] : i \in torn}) \cup guesses
      index(a) == CHOOSE i \in DOMAIN chunks : at[i] = a
      moved(i) == skips /\ (at[i] + 2) % 4 = 0 /\ chunks[i].size > 1 + pool
      header(i) == at[i] + 1 + (IF moved(i) THEN 1 ELSE 0)
      named == {i \in DOMAIN chunks : chunks[i].big}
      aligned(i) == ((at[i] + 4) \div 4) * 4
      bigSize(i) == at[i] + chunks[i].size - aligned(i)
      live == {i \in DOMAIN chunks : chunks[i].allocated /\ at[i] \notin cached}
      tag(i) == IF pool = 0 /\ i \notin named THEN 0 ELSE 1 + (i % 2)
      headers == {header(i) : i \in DOMAIN chunks \ named}
  IN  [Plain EXCEPT
         !.backend = "Vs", !.address = 1, !.size = end - 1, !.pool = pool, !.unit = 0,
         !.content = [a \in read |->
            IF a \in starts
            THEN [size |-> chunks[index(a)].size, allocated |-> chunks[index(a)].allocated,
                  previous |-> IF index(a) = 1 THEN 0 ELSE chunks[index(a) - 1].size]
            ELSE [size |-> junk, allocated |-> TRUE, previous |-> 0]],
         !.tags = [a \in headers |-> tag(CHOOSE i \in DOMAIN chunks \ named : header(i) = a)],
         !.cached = cached, !.skips = skips,
         !.big = [a \in {aligned(i) : i \in named} |->
            LET i == CHOOSE k \in named : aligned(k) = a
            IN  [size |-> bigSize(i), tag |-> tag(i)]],
         !.chunks = [a \in starts |->
            LET i == index(a)
                first == IF i \in named THEN aligned(i) ELSE header(i) + pool
            IN  [size |-> chunks[i].size, live |-> i \in live, usable |-> first,
                 end |-> at[i] + chunks[i].size, tag |-> tag(i)]],
         !.truth = {IF i \in named
                    THEN Block(aligned(i), aligned(i) + bigSize(i), tag(i))
                    ELSE Block(header(i) + pool, at[i] + chunks[i].size, tag(i)) : i \in live}]

Layouts ==
  {<<Small(2), Small(3), Small(4), Small(2)>>, <<Small(2), Free(7), Small(2)>>,
   <<Small(3), Small(2), Big(6)>>, <<Big(9), Small(2)>>}

VsRegions ==
  {VsRegion(c, torn, junk, 1, skips, cached) :
     c \in Layouts, torn \in {{}, {1}, {2}}, junk \in {0, 2, 6}, skips \in BOOLEAN,
     cached \in {{}, {1}}}

UserVsRegion == VsRegion(<<Small(2), Free(8), Small(1)>>, {}, 0, 0, FALSE, {})

-----------------------------------------------------------------------------
(* The other backends. *)

LfhRegion(bits, pool) ==
  LET at(s) == 1 + 3 * s
      whole == {s \in 0 .. 3 : at(s) \div 4 = (at(s) + 2) \div 4}
  IN  [Plain EXCEPT
         !.backend = "Lfh", !.paged = TRUE, !.address = 1, !.size = 12, !.unit = 3,
         !.pool = pool, !.bitmap = bits,
         !.tags = [a \in {at(s) : s \in whole} |-> 1],
         !.truth = {Block(at(s) + pool, at(s) + 3, 1) : s \in {t \in whole : bits[t]}}]

\* The withheld slots, those that straddle a page, read busy.
Bitmaps == {[s \in 0 .. 3 |-> s \in busy \cup {2, 3}] : busy \in SUBSET {0, 1}}

\* Of one the bitmap is cut short, and in one the pool header is as large as a slot.
LfhRegions ==
  {LfhRegion(bits, 1) : bits \in Bitmaps}
    \cup {[LfhRegion([s \in 0 .. 3 |-> TRUE], 1) EXCEPT !.bitmap = [s \in {0} |-> TRUE]]}
    \cup {[LfhRegion([s \in 0 .. 3 |-> FALSE], 4) EXCEPT !.unit = 3]}

PageRegion(state, known) ==
  [Plain EXCEPT !.state = state, !.known = known, !.tags = [a \in {0} |-> 2],
                !.pool = IF known = None THEN 1 ELSE 0,
                !.truth = IF state # "Allocated" THEN {}
                          ELSE {IF known = None THEN Block(1, 8, 2) ELSE Block(0, 8, known)}]

SpecialRegion(pages) ==
  [Plain EXCEPT !.special = TRUE, !.paged = TRUE, !.size = 12, !.content = pages,
                !.truth = {Block(p + 4 - pages[p].size, p + 4, pages[p].tag) :
                             p \in {q \in DOMAIN pages : pages[q].tag # 0}}]

SpecialContents ==
  UNION {[d -> [tag : {1}, size : {2}, filled : BOOLEAN]] : d \in {{0, 4, 8}, {0, 8}}}
    \cup {[p \in {0, 4} |-> [tag |-> IF p = 0 THEN 0 ELSE 1, size |-> 1, filled |-> TRUE]]}

LargeRegion(size) ==
  [Plain EXCEPT !.backend = "Large", !.size = size, !.known = 2,
                !.truth = IF size = 0 THEN {} ELSE {Block(0, size, 2)}]

-----------------------------------------------------------------------------
(* Targets. *)

Pages == 0 .. 3
Kernel(regions, readable) ==
  [user |-> FALSE, regions |-> regions, readable |-> readable, committed |-> Pages]
User(regions, readable, committed) ==
  [user |-> TRUE, regions |-> regions, readable |-> readable, committed |-> committed]

KernelTargets ==
  {Kernel(<<x>>, pages) :
     x \in VsRegions \cup LfhRegions
             \cup {PageRegion(s, None) : s \in {"Allocated", "ReusableFree"}}
             \cup {SpecialRegion(c) : c \in SpecialContents},
     pages \in SUBSET (0 .. 2)}

\* The interior of a free chunk may be decommitted; headers and blocks in use may not.
UserTargets ==
  {User(<<UserVsRegion>>, pages, committed) :
     pages \in SUBSET (0 .. 2), committed \in {{0, 1, 2}, {0, 2}}}

PairTargets ==
  {Kernel(<<x, y>>, {0, 1, 2, 3}) :
     x \in {LargeRegion(8), LargeRegion(0), PageRegion("Allocated", 1)},
     y \in {VsRegion(<<Small(3), Small(2), Big(6)>>, {}, 0, 1, FALSE, {}),
            LfhRegion([s \in 0 .. 3 |-> TRUE], 1)}}

Mapped(t) == ~t.user \/ t.readable \subseteq t.committed
Thresholds == [tag : {1}, paged : {{TRUE}, BOOLEAN}, matches : {1, 2}]

AllWalks ==
  ({t \in KernelTargets \cup UserTargets : Mapped(t)} \X {NoLimit})
    \cup (PairTargets \X (Thresholds \cup {NoLimit}))

=============================================================================
