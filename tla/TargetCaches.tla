---------------------------- MODULE TargetCaches ----------------------------
(***************************************************************************)
(* The process-wide caches of pool and heap snapshots, and the target      *)
(* identities that keep a snapshot of one target from answering for        *)
(* another (dbgeng.rs, pool/query.rs, pool/index.rs, heap.rs).             *)
(*                                                                         *)
(* Several debug clients, each driven by a thread of its own, share two    *)
(* one-entry caches.  A query reads its key, looks, walks with no lock     *)
(* held, and stores what it walked.  A key is an identity issued per       *)
(* client and a generation; the images are left out of it, which is the    *)
(* case where they tell no two targets apart.  A stamp of one counter      *)
(* names every session, every state of a target's memory and every walk.   *)
(***************************************************************************)
EXTENDS Integers, FiniteSets

CONSTANTS
  Clients,                 \* the debug clients of the process
  MAX_REMEMBERED_CLIENTS,  \* identities remembered before all are dropped
  TargetMayLeave,          \* whether a process may exit while it is debugged
  Uses,                    \* what the host uses of {"query", "scope"}
  MaxStamp,                \* bound on the stamps of a behaviour
  MaxGeneration,           \* bound on the generation
  MaxIdentity              \* bound on the identities issued

ASSUME ClientsAssumption == IsFiniteSet(Clients)
ASSUME RememberedAssumption == MAX_REMEMBERED_CLIENTS \in Nat \ {0}
ASSUME LeaveAssumption == TargetMayLeave \in BOOLEAN
ASSUME UsesAssumption == Uses \subseteq {"query", "scope"}
ASSUME BoundsAssumption ==
  MaxStamp \in Nat /\ MaxGeneration \in Nat \ {0} /\ MaxIdentity \in Nat

Caches == {"pool", "heap"}
Nothing == [empty |-> TRUE]

VARIABLES
  identities,  \* client_identities: client -> identity, 0 when not remembered
  issued,      \* NEXT_TARGET_IDENTITY
  generation,  \* SESSION_GENERATION
  stamp,       \* the last stamp given
  session,     \* client -> the session it has, 0 for none
  kernel,      \* the clients whose session is not a live process
  memory,      \* client -> the state of its target's memory
  cache,       \* the two snapshot caches
  walking,     \* client -> the walk it is in, or Nothing
  scope,       \* a Scope somebody saved, or Nothing
  restored,    \* the sessions of the scope set_scope last applied and of its client
  served,      \* the last answer that came from a cache and what it should be, or Nothing
  stale,       \* history: end_session or an opener ended the saved scope's session
  floor        \* history: cache and client -> the stamp of its last refresh

vars == <<identities, issued, generation, stamp, session, kernel, memory, cache, walking,
          scope, restored, served, stale, floor>>

Init ==
  /\ identities = [c \in Clients |-> 0]
  /\ issued = 0
  /\ generation = 1
  /\ stamp = 0
  /\ session = [c \in Clients |-> 0]
  /\ kernel = {}
  /\ memory = [c \in Clients |-> 0]
  /\ cache = [k \in Caches |-> Nothing]
  /\ walking = [c \in Clients |-> Nothing]
  /\ scope = Nothing
  /\ restored = Nothing
  /\ served = Nothing
  /\ stale = FALSE
  /\ floor = [k \in Caches |-> [c \in Clients |-> 0]]

-----------------------------------------------------------------------------
(* The identities. *)

Remembered == {c \in Clients : identities[c] # 0}

\* reissue_for: a fresh identity, whatever was there.
reissue_for(c) ==
  /\ issued < MaxIdentity
  /\ issued' = issued + 1
  /\ identities' = [identities EXCEPT ![c] = issued']

\* identity_for: the identity in force is identities'[c]; a client never seen gets one,
\* and may push everybody else's out.
identity_for(c) ==
  LET full == c \notin Remembered /\ Cardinality(Remembered) >= MAX_REMEMBERED_CLIENTS
  IN  IF c \in Remembered THEN UNCHANGED <<identities, issued>>
      ELSE /\ issued < MaxIdentity
           /\ issued' = issued + 1
           /\ identities' = [d \in Clients |-> IF d = c THEN issued'
                                               ELSE IF full THEN 0 ELSE identities[d]]

-----------------------------------------------------------------------------
(* Sessions. *)

Tick == stamp < MaxStamp /\ stamp' = stamp + 1
Still(c) == walking[c] = Nothing
SavedFrom(c) == scope # Nothing /\ scope.client = c /\ scope.session = session[c]

\* DebugEngine::new or create_from_windbg_client: a client this code made, at an address
\* another client may have had.
NewClient(c) ==
  /\ Still(c) /\ session[c] = 0
  /\ reissue_for(c)
  /\ UNCHANGED <<generation, stamp, session, kernel, memory, cache, walking, scope,
                 restored, served, stale, floor>>

\* A dump, a trace or a kernel is opened and replaces what the client had
\* (forget_the_previous_session), or connect finds a session at its server.
Open(c) ==
  /\ Still(c) /\ Tick
  /\ reissue_for(c)
  /\ session' = [session EXCEPT ![c] = stamp']
  /\ kernel' = kernel \cup {c}
  /\ stale' = (stale \/ SavedFrom(c))
  /\ memory' = [memory EXCEPT ![c] = stamp']
  /\ UNCHANGED <<generation, cache, walking, scope, restored, served, floor>>

\* launch_process or attach_process in a client without a session: no identity is issued.
OpenProcess(c) ==
  /\ Still(c) /\ Tick /\ session[c] = 0
  /\ session' = [session EXCEPT ![c] = stamp']
  /\ kernel' = kernel \ {c}
  /\ memory' = [memory EXCEPT ![c] = stamp']
  /\ UNCHANGED <<identities, issued, generation, cache, walking, scope, restored,
                 served, stale, floor>>

\* end_session reissues before it tries; EndSession may be refused.
end_session(c) ==
  /\ Still(c) /\ session[c] # 0
  /\ reissue_for(c)
  /\ \/ UNCHANGED <<session, stale>>
     \/ /\ session' = [session EXCEPT ![c] = 0]
        /\ stale' = (stale \/ SavedFrom(c))
  /\ UNCHANGED <<generation, stamp, kernel, memory, cache, walking, scope, restored, served,
                 floor>>

\* DEBUG_NOTIFY_SESSION_INACCESSIBLE, or the call of the host that resumed the target.
invalidate_allocator_snapshots == cache' = [k \in Caches |-> Nothing]

\* The target runs, which is announced, and stops again or, a process, exits.
Resume(c) ==
  /\ Still(c) /\ session[c] # 0 /\ Tick
  /\ memory' = [memory EXCEPT ![c] = stamp']
  /\ invalidate_allocator_snapshots
  /\ \/ UNCHANGED session
     \/ /\ TargetMayLeave /\ c \notin kernel
        /\ session' = [session EXCEPT ![c] = 0]
  /\ UNCHANGED <<identities, issued, generation, kernel, walking, scope, restored,
                 served, stale, floor>>

\* DEBUG_NOTIFY_SESSION_ACTIVE or INACTIVE, or a host's call, at any time.
invalidate_allocator_caches ==
  /\ generation < MaxGeneration
  /\ generation' = generation + 1
  /\ invalidate_allocator_snapshots
  /\ UNCHANGED <<identities, issued, stamp, session, kernel, memory, walking, scope,
                 restored, served, stale, floor>>

-----------------------------------------------------------------------------
(* Queries. *)

\* Mutant: the generation alone, which a session opened through the API does not move.
generationOnly(c) == [generation |-> generation, target |-> 0]

\* SessionKey and SnapshotKey.
SessionKey(c) == [generation |-> generation, target |-> identities'[c]]

\* prepare_index_until and validate_target: the key is read, before the layout is resolved.
\* A pool query needs a kernel or its dump, a heap query a process.
Prepare(c, refresh) ==
  /\ "query" \in Uses /\ Still(c) /\ session[c] # 0
  /\ identity_for(c)
  /\ walking' = [walking EXCEPT ![c] =
                   [kind |-> IF c \in kernel THEN "pool" ELSE "heap",
                    key |-> SessionKey(c), refresh |-> refresh, at |-> 0]]
  /\ served' = Nothing
  /\ UNCHANGED <<generation, stamp, session, kernel, memory, cache, scope,
                 restored, stale, floor>>

\* A forced refresh drops the entry before it walks.
replaced(k, refresh) == IF refresh THEN [cache EXCEPT ![k] = Nothing] ELSE cache

\* get_or_refresh and the head of walk_snapshot: the entry under the key is the answer, or
\* the walk begins.
Look(c) ==
  LET w == walking[c]
      k == w.kind
      hit == ~w.refresh /\ cache[k] # Nothing /\ cache[k].key = w.key
  IN  /\ w # Nothing /\ w.at = 0
      /\ \/ /\ hit
            /\ served' = [of |-> cache[k].of, now |-> memory[c], at |-> cache[k].at,
                          floor |-> floor[k][c], whole |-> cache[k].whole]
            /\ walking' = [walking EXCEPT ![c] = Nothing]
            /\ UNCHANGED <<stamp, cache, floor>>
         \/ /\ ~hit /\ Tick
            /\ cache' = replaced(k, w.refresh)
            /\ floor' = IF w.refresh THEN [floor EXCEPT ![k][c] = stamp'] ELSE floor
            /\ walking' = [walking EXCEPT ![c].at = stamp']
            /\ UNCHANGED served
      /\ UNCHANGED <<identities, issued, generation, session, kernel, memory,
                     scope, restored,
                     stale>>

\* What is kept of a walk: the pool cache takes one that reached the end, read in full or
\* not; the heap cache takes a complete one.
cacheable(k, outcome) == outcome = "complete" \/ (k = "pool" /\ outcome = "partial")

\* The walk ends, complete, partial, cut short, or failed (an interrupt included).
Walked(c, outcome) ==
  LET w == walking[c]
      k == w.kind
  IN  /\ w # Nothing /\ w.at # 0
      /\ walking' = [walking EXCEPT ![c] = Nothing]
      /\ cache' = IF cacheable(k, outcome)
                  THEN [cache EXCEPT ![k] = [key |-> w.key, of |-> memory[c], at |-> w.at,
                                             whole |-> outcome # "cut"]]
                  ELSE IF k = "pool" /\ outcome = "cut" THEN [cache EXCEPT ![k] = Nothing]
                  ELSE cache
      /\ UNCHANGED <<identities, issued, generation, stamp, session, kernel,
                     memory, scope,
                     restored, served, stale, floor>>

-----------------------------------------------------------------------------
(* Saved scopes. *)

\* scope, and scope_guard; GetScope refuses without a target.
SaveScope(c) ==
  /\ "scope" \in Uses /\ Still(c) /\ session[c] # 0
  /\ identity_for(c)
  /\ scope' = [client |-> c, target |-> identities'[c], session |-> session[c]]
  /\ restored' = Nothing
  /\ stale' = FALSE
  /\ UNCHANGED <<generation, stamp, session, kernel, memory, cache, walking, served, floor>>

\* Mutant: the scope is applied to whatever the client has.
set_scope_anyway(c) ==
  /\ scope # Nothing /\ scope.client = c /\ Still(c) /\ session[c] # 0
  /\ identity_for(c)
  /\ restored' = [saved |-> scope.session, found |-> session[c], stale |-> stale]
  /\ UNCHANGED <<generation, stamp, session, kernel, memory, cache, walking, scope,
                 served, stale, floor>>

\* set_scope, by the guard's drop or by its owner; SetScope needs a target.
set_scope(c) ==
  /\ scope # Nothing /\ scope.client = c /\ Still(c)
  /\ identity_for(c)
  /\ restored' = IF scope.target = identities'[c] /\ session[c] # 0
                 THEN [saved |-> scope.session, found |-> session[c], stale |-> stale]
                 ELSE Nothing
  /\ UNCHANGED <<generation, stamp, session, kernel, memory, cache, walking, scope,
                 served, stale, floor>>

-----------------------------------------------------------------------------
Next ==
  \/ invalidate_allocator_caches
  \/ \E c \in Clients :
       \/ NewClient(c) \/ Open(c) \/ OpenProcess(c) \/ end_session(c) \/ Resume(c)
       \/ \E refresh \in BOOLEAN : Prepare(c, refresh)
       \/ Look(c)
       \/ \E outcome \in {"complete", "partial", "cut", "failed"} : Walked(c, outcome)
       \/ SaveScope(c) \/ set_scope(c)

Spec == Init /\ [][Next]_vars

-----------------------------------------------------------------------------
(* Properties. *)

\* Every variable keeps its type.
TypeOK ==
  /\ identities \in [Clients -> 0..MaxIdentity] /\ issued \in 0..MaxIdentity
  /\ generation \in 1..MaxGeneration /\ stamp \in 0..MaxStamp
  /\ session \in [Clients -> 0..MaxStamp] /\ memory \in [Clients -> 0..MaxStamp]
  /\ kernel \subseteq Clients
  /\ stale \in BOOLEAN
  /\ restored \in {Nothing} \cup [saved : 1..MaxStamp, found : 1..MaxStamp, stale : BOOLEAN]

\* No two clients share an identity, whatever was issued, reissued or forgotten
\* (next_target_identity, identity_for, reissue_for): a cached view of one can never match
\* the key of the other.
IdentitiesDistinct ==
  \A c, d \in Remembered : identities[c] = identities[d] => c = d

\* An answer from a cache describes the memory the client's target has now, as it was
\* left by its last run, and never another target's (SessionKey, SnapshotCache).
ServedFresh == served # Nothing => served.of = served.now

\* A refresh supersedes what was cached before it, even if its walk fails or is cut short
\* ("Never fall back to geometry the user explicitly replaced", get_or_refresh).
RefreshSupersedes == served # Nothing => served.at >= served.floor

\* No answer from a cache is a walk that was cut short (get_or_refresh, walk_snapshot).
CutShortNotServed == served # Nothing => served.whole

\* A scope is never applied after the session it was read in was ended or opened over, even
\* if its client was forgotten by the registry in between (set_scope, reissue_for).
EndedScopeRefused == restored # Nothing => ~restored.stale

\* What a cache serves is the asking client's own target as it is now, no older than the last
\* refresh, and whole (SessionKey, get_or_refresh, walk_snapshot).
CacheHonest ==
  /\ ServedFresh
  /\ RefreshSupersedes
  /\ CutShortNotServed
=============================================================================
