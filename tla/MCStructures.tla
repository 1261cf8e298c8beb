---------------------------- MODULE MCStructures ----------------------------
(***************************************************************************)
(* Small instances of the readers of the target's structures: those of the *)
(* allocator and of a process's heaps, and an image's headers and tables.  *)
(* A behaviour is of one of them.                                          *)
(***************************************************************************)
EXTENDS TreeWalk, BigPages, Decode, Layouts, HeapRoots, Images

Links4 == {0, 2, 4, 5}
AllMemories ==
  UNION {[root : {0, 2}, links : [d -> [left : Links4, right : Links4]]] :
           d \in SUBSET {2, 4, 5}}

Collisions == [a \in {"a", "b", "c"} |-> IF a = "c" THEN 3 ELSE 2]

NoTree == tree = [root |-> 0, links |-> <<>>] /\ walk = tree_start(0)

-----------------------------------------------------------------------------
\* Two builds at the same base, and every set of the fields that say where the
\* variable-size state is.
Always ==
  {<<"global", "RtlpHpHeapGlobals">>, <<"_SEGMENT_HEAP", "">>, <<"_SEGMENT_HEAP", "SegmentContexts">>,
   <<"_HEAP_VS_SLOT_MAP", "">>, <<"_HEAP_VS_CONTEXT", "">>, <<"_HEAP_VS_AFFINITY_SLOT", "">>}
KernelPdb ==
  Always \cup {<<"global", "ExPoolState">>, <<"_POOL_HEADER", "">>, <<"_POOL_HEADER", "PoolTag">>}
UserPdb ==
  Always \cup {<<"_PEB", "">>, <<"_PEB", "ProcessHeaps">>, <<"_SEGMENT_HEAP", "Signature">>}
OtherPdb ==
  KernelPdb \cup {<<"_SEGMENT_HEAP", "SegContexts">>, <<"_SEGMENT_HEAP", "UserContext">>}
VsItems ==
  INLINE_VS_FIELDS \cup AFFINITY_VS_FIELDS
  \cup {<<"_HEAP_VS_AFFINITY_SLOT", b>> : b \in SLOT_BACK_REFERENCES}
World(a, b, loads, engines, targets, sessions) ==
  [pdb |-> [i \in {"a", "b"} |-> IF i = "a" THEN a ELSE b], loads |-> loads, engines |-> engines,
   image |-> [e \in {1, 2} |-> IF e = 1 THEN "a" ELSE "b"], targets |-> targets,
   sessions |-> sessions]
MCWorlds ==
  {World(KernelPdb \cup fields, {}, {1}, {1}, {"Kernel"}, 1) : fields \in SUBSET VsItems}
  \cup {World(KernelPdb \cup INLINE_VS_FIELDS, OtherPdb, {1, 2}, {1, 2}, {"Kernel"}, 2),
        World(KernelPdb \cup UserPdb, UserPdb, {1}, {1, 2}, Targets, 1)}

-----------------------------------------------------------------------------
\* A process with three heaps on the list, and with any one word of what leads to them
\* wrong or unreadable; a process of a build without the list; targets that are refused.
Sound ==
  [target |-> [kernel |-> FALSE, status |-> "BREAK", machine |-> "AMD64", peb |-> 9, pdb |-> TRUE,
               teb |-> "native"],
   peb |-> [unreadable |-> FALSE, count |-> 1, array |-> 90, heaps |-> <<12>>],
   fields |-> {"Segment", "Nt"}, ntdll |-> {1}, genuine |-> {12, 13, 14},
   entries |-> [e \in 1 .. 4 |-> [flink |-> (e % 4) + 1, blink |-> ((e + 2) % 4) + 1,
                                  heap |-> IF e = 1 THEN 0 ELSE 10 + e]],
   heaps |-> [h \in 12 .. 14 |-> [signatures |-> IF h = 13 THEN {"Nt"} ELSE {"Segment"},
                                  names |-> h - 10]],
   unreadable |-> {}]
Altered ==
  {[Sound EXCEPT !.entries[e][f] = v] :
     e \in 1 .. 4, f \in {"flink", "blink", "heap"}, v \in (0 .. 4) \cup (12 .. 14)}
  \cup {[Sound EXCEPT !.heaps[h].names = v] : h \in 12 .. 14, v \in 1 .. 5}
  \cup {[Sound EXCEPT !.heaps[13].names = 0]}
  \cup {[Sound EXCEPT !.heaps[h].signatures = v] : h \in 12 .. 14, v \in {{}, {"Segment", "Nt"}}}
  \cup {[Sound EXCEPT !.unreadable = {u}] :
          u \in ({"entry"} \X (1 .. 4)) \cup ({"signature", "name"} \X (12 .. 14))}
  \cup {[Sound EXCEPT !.fields = {"Segment"}]} \cup {[Sound EXCEPT !.ntdll = n] : n \in {{}, {1, 3}}}
WithoutList ==
  {[Sound EXCEPT !.peb.heaps = <<12, 13, 14>>, !.peb.count = 3, !.fields = f,
                 !.heaps = [h \in 12 .. 14 |-> [@[h] EXCEPT !.names = 0]]] :
     f \in {{}, {"Segment", "Nt"}}}
Refusals ==
  {[Sound EXCEPT !.target.kernel = TRUE], [Sound EXCEPT !.target.machine = "I386"],
   [Sound EXCEPT !.target.peb = 0], [Sound EXCEPT !.target.pdb = FALSE],
   [Sound EXCEPT !.peb.unreadable = TRUE], [Sound EXCEPT !.peb.count = 5],
   [Sound EXCEPT !.peb.array = 0],
   [Sound EXCEPT !.peb.heaps = <<>>, !.peb.count = 0, !.genuine = {}]}
  \cup {[Sound EXCEPT !.target.status = v] : v \in {"NO_DEBUGGEE", "GO"}}
  \cup {[Sound EXCEPT !.target.teb = v] : v \in {"null", "unreadable", "wow64"}}
MCProcesses ==
  {[p EXCEPT !.peb.heaps = named] : p \in Altered, named \in {<<12>>, <<14, 12>>}}
  \cup WithoutList \cup Refusals

-----------------------------------------------------------------------------
\* Two or three spans, of two heaps, with and without headers, that touch or do not.
Kinds ==
  {<<1, "Vs", "Allocated", 1>>, <<1, "Vs", "ReusableFree", 1>>, <<1, "Vs", "Unreadable", 1>>,
   <<2, "Vs", "Allocated", 2>>, <<1, "Lfh", "CachedFree", 3>>}
Tiles(from, kinds) ==
  {[heap |-> k[1], backend |-> k[2], state |-> k[3], header |-> at, user |-> at + h,
    capacity |-> c, subsegment |-> k[4], class |-> c] :
     k \in kinds, at \in {from, from + 1}, h \in 0 .. 1, c \in 1 .. 2}
Thirds == {{}} \cup {{t} : t \in {x \in Tiles(6, {<<1, "Vs", "Allocated", 1>>}) : x.capacity = 1}}
Apart(s) == \A a, b \in s : a # b => end(a) <= b.header \/ end(b) <= a.header
MCSnapshots ==
  {[spans |-> s, complete |-> TRUE, expired |-> FALSE] :
     s \in {x \in {{a, b} \cup c : a \in Tiles(0, Kinds), b \in Tiles(3, Kinds), c \in Thirds} : Apart(x)}}
  \cup {[spans |-> {}, complete |-> FALSE, expired |-> e] : e \in BOOLEAN}

-----------------------------------------------------------------------------
NoLayouts ==
  /\ world = {} /\ image = <<>> /\ session = 0 /\ entries = {}
  /\ asking = [e \in Engines |-> NotAsking]
NoProcess ==
  /\ process = <<>> /\ ask = Nowhere /\ clock = <<>> /\ rootsFound = NoRoots /\ list = NoList
  /\ scope = {} /\ kept = <<>> /\ answered = NoAnswer
NoSpans == spans = [spans |-> {}] /\ heapAnswer = [of |-> "nothing"]
NoMetadata == TableInit /\ DecodeInit /\ NoTree /\ NoLayouts /\ NoProcess /\ NoSpans

metadataVars == <<treeVars, tableVars, decodeVars, layoutVars, heapVars, heapQueryVars>>

-----------------------------------------------------------------------------

SoundHeader ==
  [reads |-> TRUE, mz |-> TRUE, lfanew |-> 1, pe |-> TRUE, machine |-> "AMD64", magic |-> "Bits64", room |-> 3,
   declared |-> 3, directories |-> <<<<5, 1>>, <<6, 1>>, <<7, 1>>>>, alignment |-> 2, size |-> 10,
   sections |-> <<[rva |-> 6, size |-> 1, executable |-> FALSE],
                  [rva |-> 8, size |-> 1, executable |-> TRUE]>>]
Sections == {<<[rva |-> a, size |-> m, executable |-> TRUE],
               [rva |-> b, size |-> n, executable |-> x]>> :
               a \in {6, 8}, m \in {0, 1, 3}, b \in {8, 9, 12}, n \in {1, 2, 4}, x \in BOOLEAN}
MCHeaders ==
  {[SoundHeader EXCEPT !.sections = s, !.alignment = a] : s \in Sections, a \in {1, 2, 4}}
  \cup {[SoundHeader EXCEPT !.room = r, !.declared = d] : r \in -1 .. 4, d \in 0 .. 3}
  \cup {[SoundHeader EXCEPT !.machine = m, !.magic = w] :
          m \in {"AMD64", "I386", "RISCV"}, w \in {"Bits32", "Bits64", "other"}}
  \cup {[SoundHeader EXCEPT !.size = s] : s \in {4, 6, 7}}
  \cup {[SoundHeader EXCEPT !.reads = FALSE], [SoundHeader EXCEPT !.mz = FALSE], [SoundHeader EXCEPT !.pe = FALSE],
        [SoundHeader EXCEPT !.lfanew = 3], [SoundHeader EXCEPT !.alignment = 3],
        [SoundHeader EXCEPT !.sections = @ \o @]}

\* Two libraries: an import by name and one by ordinal, then one of the second's own.
Cells0 == <<7,  16, 0, 0, 22, 19,  28, 0, 0, 22, 30,  0, 0, 0, 0, 0,  24, 131, 0,  1, 2, 0,
            5, 0,  9, 6, 6, 0,  24, 0,  1, 0,  8, 8, 0, 8>>
ByOffset(s) == [n \in 0 .. Len(s) - 1 |-> s[n + 1]]
TwoLibraries == [size |-> 32, cells |-> ByOffset(Cells0), import |-> <<1, 15>>, iat |-> <<0, 0>>,
                 export |-> <<0, 0>>]
BoundSecond == [TwoLibraries EXCEPT !.cells[6] = 0]
Replaced(t, cells, values) == {[t EXCEPT !.cells[c] = v] : c \in cells, v \in values}
Missing(t) ==
  {[t EXCEPT !.cells = [c \in {d \in DOMAIN t.cells : d \div 2 # g} |-> t.cells[c]]] : g \in 0 .. 16}

\* Three functions, one of them a forwarder, and two names.
Cells1 == <<7,  0, 0, 0, 20, 0, 3, 2, 13, 16, 18,  6, 0,  40, 41, 11,  20, 22,  0, 2,  5, 0,  6, 0,  8, 8>>
Exporting == [size |-> 24, cells |-> ByOffset(Cells1), import |-> <<0, 0>>, iat |-> <<0, 0>>,
              export |-> <<1, 12>>]

MCTables ==
  Replaced(TwoLibraries, 1 .. 31, {0, 3, 16, 19, 22, 24, 31, 33, 63, 70, 129, 170})
  \cup UNION {Missing(t) : t \in {TwoLibraries, BoundSecond, Exporting}}
  \cup {BoundSecond, [BoundSecond EXCEPT !.cells[10] = 33]}
  \cup {[t EXCEPT !.import = d] : t \in {TwoLibraries, BoundSecond},
          d \in {<<0, 0>>, <<1, 0>>, <<0, 15>>, <<1, 10>>, <<1, 14>>, <<22, 15>>, <<11, 5>>, <<1, 20>>}}
  \cup {[TwoLibraries EXCEPT !.iat = d] :
          d \in {<<19, 3>>, <<16, 5>>, <<19, 0>>, <<31, 2>>, <<0, 3>>, <<4, 6>>}}
  \cup Replaced(Exporting, 1 .. 23, {0, 1, 2, 3, 4, 11, 13, 18, 20, 22, 26, 40, 41, 129})
  \cup {[Exporting EXCEPT !.export = d] : d \in {<<1, 9>>, <<1, 24>>, <<0, 9>>, <<1, 10>>}}
MCAsked == {{}, {40}, {40, 41}, {11, 41}}

NoHeader == header = [base |-> 0, claims |-> SoundHeader] /\ parsed = NotRead
NoTables ==
  tables = TwoLibraries /\ reading = Resting /\ halting = FALSE /\ late = FALSE /\ answer = Unanswered

-----------------------------------------------------------------------------

VARIABLE subject  \* which one this behaviour is of

NoImage == NoHeader /\ NoTables

Init ==
  \/ /\ NoImage /\ TableInit /\ DecodeInit
     /\ \/ subject = "tree" /\ TreeInit /\ NoLayouts /\ NoProcess /\ NoSpans
        \/ subject \in {"big pages", "decoders"} /\ NoTree /\ NoLayouts /\ NoProcess /\ NoSpans
        \/ subject = "layouts" /\ LayoutInit /\ NoTree /\ NoProcess /\ NoSpans
        \/ subject = "roots" /\ HeapInit /\ NoTree /\ NoLayouts /\ NoSpans
        \/ subject = "answers" /\ HeapQueryInit /\ NoTree /\ NoLayouts /\ NoProcess
  \/ /\ NoMetadata
     /\ \/ subject = "headers" /\ ImageInit /\ NoTables
        \/ subject = "tables" /\ ImportInit /\ NoHeader

imagesVars == <<imageVars, importVars>>

Next ==
  /\ \/ subject = "tree" /\ TreeStep
        /\ UNCHANGED <<tableVars, decodeVars, layoutVars, heapVars, heapQueryVars, imagesVars>>
     \/ subject = "big pages" /\ TableNext
        /\ UNCHANGED <<treeVars, decodeVars, layoutVars, heapVars, heapQueryVars, imagesVars>>
     \/ subject = "decoders" /\ DecodeNext
        /\ UNCHANGED <<treeVars, tableVars, layoutVars, heapVars, heapQueryVars, imagesVars>>
     \/ subject = "layouts" /\ LayoutNext
        /\ UNCHANGED <<treeVars, tableVars, decodeVars, heapVars, heapQueryVars, imagesVars>>
     \/ subject = "roots" /\ HeapNext
        /\ UNCHANGED <<treeVars, tableVars, decodeVars, layoutVars, heapQueryVars, imagesVars>>
     \/ subject = "answers" /\ HeapQueryNext
        /\ UNCHANGED <<treeVars, tableVars, decodeVars, layoutVars, heapVars, imagesVars>>
     \/ subject = "headers" /\ ImageNext /\ UNCHANGED <<metadataVars, importVars>>
     \/ subject = "tables" /\ ImportNext /\ UNCHANGED <<metadataVars, imageVars>>
  /\ UNCHANGED subject

Spec == Init /\ [][Next]_<<subject, metadataVars, imagesVars>>
=============================================================================
