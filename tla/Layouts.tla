------------------------------ MODULE Layouts ------------------------------
(***************************************************************************)
(* Resolving an allocator's layout from an image's symbols, deciding which *)
(* of the three representations of variable-size state it describes, and   *)
(* the process-wide cache of resolved layouts (pool/layout.rs).            *)
(*                                                                         *)
(* Symbols is external: a PDB is the set of the <<type, field>> it names,  *)
(* a type by its field "".  The tables keep one row for each way in which  *)
(* rows differ, and every row vs_shape asks about.  A fact is the name it  *)
(* was found under, which stands for the offset.  Every image is loaded at *)
(* the same base.                                                          *)
(***************************************************************************)
EXTENDS Integers, Sequences, Functions, TLC

CONSTANTS
  Engines,  \* the debug engines there may be
  Images,   \* the builds of a module they may be looking at
  Worlds    \* the PDBs of the images, the engines of the process and what they look at,
            \* those whose symbols load, what is asked for, and the bound on the generation

VARIABLES
  world,    \* the one of Worlds that this behaviour is in
  image,    \* engine -> the image it is looking at
  session,  \* SESSION_GENERATION
  entries,  \* LayoutCache: the cached [target, key, schema]
  asking    \* engine -> its call of get_or_resolve, or what that returned

layoutVars == <<world, image, session, entries, asking>>

Targets == {"Kernel", "User"}
Global == "global"

-----------------------------------------------------------------------------
(* What is resolved. *)

Alias(names) == [canonical |-> names[1], aliases |-> names]
Type(name, fields) == [name |-> name, fields |-> {Alias(f) : f \in fields}]

GLOBALS == <<"ExPoolState", "RtlpHpHeapGlobals">>
OPTIONAL_GLOBALS == <<"PoolBigPageTable">>
TYPES == <<Type("_SEGMENT_HEAP", {<<"SegContexts", "SegmentContexts">>}),
           Type("_HEAP_VS_CONTEXT", {}),
           Type("_POOL_HEADER", {<<"PoolTag">>})>>
OPTIONAL_TYPES == <<Type("_HEAP_VS_AFFINITY_SLOT", {<<"FreeChunkTree">>, <<"DelayFreeContext">>}),
                    Type("_HEAP_VS_SLOT_MAP", {<<"SlotRef">>}),
                    Type("_POOL_TRACKER_BIG_PAGES", {<<"Key", "PoolTag">>})>>
OPTIONAL_FIELDS == <<<<"_SEGMENT_HEAP", "Signature">>,
                     <<"_HEAP_VS_CONTEXT", "FreeChunkTree">>,
                     <<"_HEAP_VS_CONTEXT", "DelayFreeContext">>,
                     <<"_HEAP_VS_CONTEXT", "SlotMapRef">>,
                     <<"_HEAP_VS_CONTEXT", "AffinityMask">>,
                     <<"_HEAP_VS_AFFINITY_SLOT", "VsContext">>,
                     <<"_HEAP_VS_AFFINITY_SLOT", "VsContextOffset">>>>
USER_TYPES == <<Type("_PEB", {<<"ProcessHeaps">>})>>
USER_OPTIONAL_FIELDS == <<<<"_SEGMENT_HEAP", "UserContext">>>>

Row(kind, required, spec) == [kind |-> kind, required |-> required, spec |-> spec]
Globals(names, required) ==
  [i \in DOMAIN names |-> Row("global", required, Type(names[i], {}))]
Types(specs, required) == [i \in DOMAIN specs |-> Row("type", required, specs[i])]
Fields(pairs) ==
  [i \in DOMAIN pairs |-> Row("field", FALSE, Type(pairs[i][1], {<<pairs[i][2]>>}))]

\* The order in which resolve looks things up.
resolve ==
  Globals(GLOBALS, TRUE) \o Globals(OPTIONAL_GLOBALS, FALSE)
  \o Types(TYPES, TRUE) \o Types(OPTIONAL_TYPES, FALSE) \o Fields(OPTIONAL_FIELDS)

\* resolve_user: from ntdll, without the kernel's own types and the big-page table.
resolve_user ==
  LET kernel(spec) == spec.name \notin {"_POOL_HEADER", "_POOL_TRACKER_BIG_PAGES"}
  IN  Globals(<<"RtlpHpHeapGlobals">>, TRUE)
      \o Types(SelectSeq(TYPES, kernel), TRUE) \o Types(USER_TYPES, TRUE)
      \o Types(SelectSeq(OPTIONAL_TYPES, kernel), FALSE)
      \o Fields(OPTIONAL_FIELDS) \o Fields(USER_OPTIONAL_FIELDS)

Rows(target) == IF target = "Kernel" THEN resolve ELSE resolve_user
probe_type(target) == IF target = "Kernel" THEN "_POOL_HEADER" ELSE "_PEB"

\* first_available: the first of the aliases the type has; resolve_type: the type and every
\* field listed for it; apply_optional_fields: of a type already resolved.
Available(pdb, name, field) == {i \in DOMAIN field.aliases : <<name, field.aliases[i]>> \in pdb}
first_available(pdb, name, field) ==
  field.aliases[CHOOSE i \in Available(pdb, name, field) :
                  \A j \in Available(pdb, name, field) : i <= j]
Resolves(pdb, row, schema) ==
  /\ IF row.kind = "global" THEN <<Global, row.spec.name>> \in pdb
     ELSE <<row.spec.name, "">> \in pdb
  /\ row.kind = "field" => \E fact \in schema : fact.type = row.spec.name
  /\ \A field \in row.spec.fields : Available(pdb, row.spec.name, field) # {}
resolve_type(pdb, row) ==
  LET fact(canonical, found) == [type |-> row.spec.name, field |-> canonical, found |-> found]
  IN  (IF row.kind = "field" THEN {} ELSE {fact("", "")})
      \cup {fact(f.canonical, first_available(pdb, row.spec.name, f)) : f \in row.spec.fields}

-----------------------------------------------------------------------------
(* What a resolved layout means. *)

Carries(schema, type, field) == \E fact \in schema : fact.type = type /\ fact.field = field
absent(schema, wanted) == {w \in wanted : ~Carries(schema, w[1], w[2])}

INLINE_VS_FIELDS == {<<"_HEAP_VS_CONTEXT", f>> : f \in {"FreeChunkTree", "DelayFreeContext"}}
AFFINITY_VS_FIELDS ==
  {<<"_HEAP_VS_CONTEXT", "SlotMapRef">>, <<"_HEAP_VS_CONTEXT", "AffinityMask">>,
   <<"_HEAP_VS_AFFINITY_SLOT", "FreeChunkTree">>,
   <<"_HEAP_VS_AFFINITY_SLOT", "DelayFreeContext">>, <<"_HEAP_VS_SLOT_MAP", "SlotRef">>}
SLOT_BACK_REFERENCES == {"VsContextOffset", "VsContext"}
Backs(schema) == {b \in SLOT_BACK_REFERENCES : Carries(schema, "_HEAP_VS_AFFINITY_SLOT", b)}

family(back) ==
  IF back = "VsContext" THEN "AffinitySlots" ELSE "AffinitySlotsSelfRelative"
Refused == "refused"

\* vs_shape: two back-references are ambiguous only when the rest of the slots is there,
\* and with none of them there are no slots.
vs_shape(schema) ==
  LET inline == absent(schema, INLINE_VS_FIELDS) = {}
      slots == absent(schema, AFFINITY_VS_FIELDS) = {}
      backs == Backs(schema)
      affinity == slots /\ \E b \in SLOT_BACK_REFERENCES : backs = {b}
  IN  IF slots /\ backs = SLOT_BACK_REFERENCES THEN Refused
      ELSE IF inline = affinity THEN Refused
      ELSE IF inline THEN "Inline" ELSE family(CHOOSE b \in backs : TRUE)

is_user(schema) ==
  /\ ~Carries(schema, "ExPoolState", "")
  /\ Carries(schema, "RtlpHpHeapGlobals", "")
lfh_bitmap(schema) == IF is_user(schema) THEN "SplitWord" ELSE "ContiguousBits"
pool_header_size(schema) == IF is_user(schema) THEN "none" ELSE "_POOL_HEADER"

\* provenance: the fingerprint is of the sorted facts, so it is the facts themselves.
provenance(schema) == [fingerprint |-> schema, family |-> vs_shape(schema)]

-----------------------------------------------------------------------------
(* The cache. *)

NotAsking == [at |-> "idle"]
Stopped == "Interrupted"  \* or BudgetExpired, or Poll: every caller passes them on

LayoutInit ==
  /\ world \in Worlds
  /\ image = world.image
  /\ session = 1
  /\ entries = {}
  /\ asking = [e \in Engines |-> NotAsking]

\* What engine e can look up of the image that a call is about.
Pdb(e) == IF e \in world.loads THEN world.pdb[asking[e].key.image] ELSE {}
Moves(e, fields) == asking' = [asking EXCEPT ![e] = fields @@ @]
Answered(e, error, schema) ==
  Moves(e, [at |-> "answered", row |-> 0, error |-> error, schema |-> schema])
Failed(e, error) == Answered(e, error, {})

\* Mutant: the key has the base the image is loaded at, and not which build it is.
Cached_base(c) ==
  {entry \in entries : entry.target = c.target /\ entry.key.session = c.key.session}

Cached(c) == {entry \in entries : entry.target = c.target /\ entry.key = c.key}

LayoutKey(i, s) == [image |-> i, session |-> s]

\* get_or_resolve of the key of the image the engine has now.
Ask(e, target) ==
  /\ asking[e].at \in {"idle", "answered"}
  /\ asking' = [asking EXCEPT ![e] =
       [at |-> "probe", target |-> target, key |-> LayoutKey(image[e], session), of |-> image[e],
        row |-> 1, schema |-> {}, error |-> ""]]
  /\ UNCHANGED <<world, image, session, entries>>

\* The host opens another target; it is not told.
Switch(e) ==
  /\ asking[e].at \in {"idle", "answered"}
  /\ \E i \in Images \ {image[e]} : image' = [image EXCEPT ![e] = i]
  /\ asking' = [asking EXCEPT ![e] = NotAsking]
  /\ UNCHANGED <<world, session, entries>>

OnlyAsking == UNCHANGED <<world, image, session, entries>>

\* A type this engine must have, so that its own symbols are loaded.
ProbeImage(e) ==
  /\ asking[e].at = "probe"
  /\ \/ Failed(e, Stopped)
     \/ IF <<probe_type(asking[e].target), "">> \notin Pdb(e)
        THEN Failed(e, "Missing") ELSE Moves(e, [at |-> "lookup"])
  /\ OnlyAsking

Lookup(e) ==
  /\ asking[e].at = "lookup"
  /\ IF Cached(asking[e]) = {} THEN Moves(e, [at |-> "resolve"])
     ELSE \E hit \in Cached(asking[e]) :
            Answered(e, "", hit.schema)
  /\ OnlyAsking

\* One row; polled around every lookup of it, and a poll that fails ends the whole of it.
ResolveRow(e) ==
  LET c == asking[e]
      row == Rows(c.target)[c.row]
      found == Resolves(Pdb(e), row, c.schema)
  IN  /\ c.at = "resolve" /\ c.row <= Len(Rows(c.target))
      /\ \/ Failed(e, Stopped)
         \/ IF found
            THEN Moves(e, [row |-> c.row + 1, schema |-> c.schema \cup resolve_type(Pdb(e), row)])
            ELSE IF row.required THEN Failed(e, "Missing") ELSE Moves(e, [row |-> c.row + 1])
      /\ OnlyAsking

\* A user layout must tell a segment heap; what was resolved is cached and returned.
Insert(e) ==
  LET c == asking[e]
  IN  /\ c.at = "resolve" /\ c.row > Len(Rows(c.target))
      /\ IF c.target = "User" /\ ~Carries(c.schema, "_SEGMENT_HEAP", "Signature")
         THEN Failed(e, "Missing") /\ UNCHANGED entries
         ELSE /\ Answered(e, "", c.schema)
              /\ entries' = (entries \ Cached(c))
                            \cup {[target |-> c.target, key |-> c.key, schema |-> c.schema]}
      /\ UNCHANGED <<world, image, session>>

\* The debugger reports a session transition.
bump_generation ==
  /\ session < world.sessions
  /\ session' = session + 1
  /\ UNCHANGED <<world, image, entries, asking>>

\* The rest of invalidate_session, or invalidate_caches of the heap walk.
invalidate ==
  /\ entries # {} /\ entries' = {}
  /\ UNCHANGED <<world, image, session, asking>>

LayoutNext ==
  \/ \E e \in world.engines :
       \/ \E target \in world.targets : Ask(e, target)
       \/ Switch(e) \/ ProbeImage(e) \/ Lookup(e) \/ ResolveRow(e) \/ Insert(e)
  \/ bump_generation \/ invalidate

-----------------------------------------------------------------------------
(* Properties. *)

Served(e) == asking[e].at = "answered" /\ asking[e].error = ""

\* The facts that a PDB supports, all at once.
RowsOf == [t \in Targets |-> Range(Rows(t))]
Whole(pdb, target) ==
  LET typed(row) == Resolves(pdb, [row EXCEPT !.kind = IF @ = "field" THEN "type" ELSE @], {})
      owned(row) == row.kind = "field" =>
        \E owner \in RowsOf[target] :
          owner.kind = "type" /\ owner.spec.name = row.spec.name /\ typed(owner)
  IN  UNION {resolve_type(pdb, row) : row \in {r \in RowsOf[target] : typed(r) /\ owned(r)}}

\* What the cache holds is the whole of what its image supports: a resolution that was
\* interrupted, or ran out of its budget, while it looked up something optional leaves
\* nothing behind that later calls would take for the layout.
EntriesWhole ==
  \A entry \in entries :
    entry.schema = Whole(world.pdb[entry.key.image], entry.target)

\* The layout an engine is served is that of the image it asked about and of its kind,
\* whichever engine resolved it and whatever was invalidated meanwhile, though every image
\* is loaded at the same base.
ServedForItsImage ==
  \A e \in Engines : Served(e) =>
    asking[e].schema = Whole(world.pdb[asking[e].of], asking[e].target)

\* An engine whose own symbols do not load is not served a layout another engine cached.
ServedHasSymbols == \A e \in Engines : Served(e) => e \in world.loads

\* A representation is chosen exactly when the symbols describe that one and no other.  It
\* is never a guess between two, and a field of another representation that the symbols
\* leave incomplete does not withdraw one that is whole.
ShapeUnambiguous ==
  \A e \in Engines : Served(e) =>
    LET schema == asking[e].schema
        slots == absent(schema, AFFINITY_VS_FIELDS) = {}
        described == {f \in {"Inline", "AffinitySlots", "AffinitySlotsSelfRelative"} :
                        CASE f = "Inline" -> absent(schema, INLINE_VS_FIELDS) = {}
                          [] f = "AffinitySlots" -> slots /\ "VsContext" \in Backs(schema)
                          [] OTHER -> slots /\ "VsContextOffset" \in Backs(schema)}
        chosen == provenance(schema).family
    IN  \A f \in {"Inline", "AffinitySlots", "AffinitySlotsSelfRelative"} :
          chosen = f <=> described = {f}

\* How LFH bitmaps are packed and whether blocks have a pool header follow from which
\* allocator the layout is of.
DecodedAsItsKind ==
  \A e \in Engines : Served(e) =>
    LET schema == asking[e].schema
    IN  lfh_bitmap(schema) = (IF asking[e].target = "User" THEN "SplitWord" ELSE "ContiguousBits")
        /\ (pool_header_size(schema) = "none" <=> asking[e].target = "User")

\* The layout an engine decodes with is whole, its own image's, and read in the one way that
\* image's symbols describe, whatever other engines resolve, interrupt or invalidate meanwhile
\* (pool/layout.rs).
LayoutsHonest ==
  /\ EntriesWhole
  /\ ServedForItsImage
  /\ ServedHasSymbols
  /\ ShapeUnambiguous
  /\ DecodedAsItsKind
=============================================================================
