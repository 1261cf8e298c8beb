------------------------- MODULE TargetDataProofs --------------------------
(***************************************************************************)
(* What is proved of what a target holds: the caches of what was read of   *)
(* it, the structures a pool walk follows (the trees of links, then the    *)
(* big-page table), and the events and stacks of its dumps.                *)
(***************************************************************************)
EXTENDS TreeWalk, BigPages, Events, TargetCaches, TLAPS

-----------------------------------------------------------------------------
(***************************************************************************)
(* Every safety property of the caches of a target, for any clients and    *)
(* any bounds.  An identity is held by the client it is issued to and by   *)
(* the walk that client began under it.  No two clients hold one, and a    *)
(* cached view that a client's identity still reaches is a view of that    *)
(* client's memory.                                                        *)
(***************************************************************************)

Keys == [generation : 1..MaxGeneration, target : 1..MaxIdentity]
Walks == [kind : Caches, key : Keys, refresh : BOOLEAN, at : 0..MaxStamp]
Entries == [key : Keys, of : 0..MaxStamp, at : 0..MaxStamp, whole : BOOLEAN]
Scopes == [client : Clients, target : 1..MaxIdentity, session : 1..MaxStamp]
Answers == [of : 0..MaxStamp, now : 0..MaxStamp, at : 0..MaxStamp, floor : 0..MaxStamp,
            whole : BOOLEAN]

\* A client holds an identity: the registry has it, or the client's walk began under it.
Holds(c, t) == identities[c] = t \/ (walking[c] # Nothing /\ walking[c].key.target = t)

Typed ==
  /\ TypeOK
  /\ walking \in [Clients -> Walks \cup {Nothing}]
  /\ cache \in [Caches -> Entries \cup {Nothing}]
  /\ floor \in [Caches -> [Clients -> 0..MaxStamp]]
  /\ scope \in Scopes \cup {Nothing}
  /\ served \in Answers \cup {Nothing}

\* Nobody refers to an identity that was not issued yet.
Issued ==
  /\ \A c \in Clients : identities[c] <= issued
  /\ \A c \in Clients : walking[c] # Nothing => walking[c].key.target <= issued
  /\ \A k \in Caches : cache[k] # Nothing => cache[k].key.target <= issued
  /\ scope # Nothing => scope.target <= issued

Owned ==
  \A c, d \in Clients : \A t \in 1..MaxIdentity : Holds(c, t) /\ Holds(d, t) => c = d

\* A walk is of a session, and not older than its client's last refresh.
WalkSound ==
  \A c \in Clients : walking[c] # Nothing =>
    /\ session[c] # 0
    /\ walking[c].at # 0 => walking[c].at >= floor[walking[c].kind][c]

\* A view that a client can still reach is of its memory as it is, and not older than the
\* client's last refresh.
EntrySound ==
  \A k \in Caches : cache[k] # Nothing =>
    /\ cache[k].whole
    /\ \A c \in Clients : Holds(c, cache[k].key.target) =>
         /\ cache[k].of = memory[c]
         /\ session[c] # 0
         /\ cache[k].at >= floor[k][c]

FloorSound == \A k \in Caches, c \in Clients : floor[k][c] <= stamp

ScopeSound == scope # Nothing /\ stale => identities[scope.client] # scope.target

Answered ==
  /\ ServedFresh
  /\ RefreshSupersedes
  /\ CutShortNotServed
  /\ EndedScopeRefused

Inv == Typed /\ Issued /\ Owned /\ WalkSound /\ EntrySound /\ FloorSound /\ ScopeSound /\ Answered

-----------------------------------------------------------------------------
(* The registry. *)

\* What a step of client c may do to the registry: give c the next identity, and forget.
Registered(c) ==
  /\ issued \in 0..MaxIdentity /\ issued' \in 0..MaxIdentity /\ issued <= issued'
  /\ identities' \in [Clients -> 0..MaxIdentity]
  /\ \A d \in Clients : \/ identities'[d] = identities[d]
                        \/ identities'[d] = 0
                        \/ d = c /\ identities'[d] = issued' /\ issued' = issued + 1

\* reissue_for gives its client an identity that nobody had.
LEMMA ReissueRegisters ==
  ASSUME Typed, NEW c \in Clients, reissue_for(c)
  PROVE  Registered(c) /\ identities'[c] = issued' /\ issued' = issued + 1
  BY BoundsAssumption DEF Typed, TypeOK, reissue_for, Registered

\* identity_for leaves its client with an identity, its own or one that nobody had.
LEMMA IdentityForRegisters ==
  ASSUME Typed, NEW c \in Clients, identity_for(c)
  PROVE  Registered(c) /\ identities'[c] # 0
<1> USE BoundsAssumption DEF Typed, TypeOK
<1>1. CASE c \in Remembered
  BY <1>1 DEF identity_for, Registered, Remembered
<1>2. CASE c \notin Remembered
  <2> DEFINE full == c \notin Remembered /\ Cardinality(Remembered) >= MAX_REMEMBERED_CLIENTS
  <2>1. /\ issued < MaxIdentity
        /\ issued' = issued + 1
        /\ identities' = [d \in Clients |-> IF d = c THEN issued'
                                            ELSE IF full THEN 0 ELSE identities[d]]
    BY <1>2, Zenon DEF identity_for
  <2> HIDE DEF full
  <2> QED
    BY <2>1 DEF Registered
<1> QED
  BY <1>1, <1>2, Zenon

\* A step that only moves the registry keeps what the registry is for.
LEMMA RegistryStep ==
  ASSUME Inv, NEW c \in Clients, Registered(c), UNCHANGED <<walking, cache>>
  PROVE  /\ Owned'
         /\ \A d \in Clients : identities'[d] <= issued'
         /\ \A d \in Clients : walking'[d] # Nothing => walking'[d].key.target <= issued'
         /\ \A k \in Caches : cache'[k] # Nothing => cache'[k].key.target <= issued'
         /\ \A k \in Caches : cache[k] # Nothing =>
              \A d \in Clients : Holds(d, cache[k].key.target)' => Holds(d, cache[k].key.target)
<1> USE DEF Inv, Typed, TypeOK, Registered
<1>1. \A d \in Clients, t \in 1..MaxIdentity : t <= issued /\ Holds(d, t)' => Holds(d, t)
  BY BoundsAssumption DEF Holds
<1>2. \A d \in Clients, t \in 1..MaxIdentity : t > issued /\ Holds(d, t)' => d = c
  BY BoundsAssumption DEF Holds, Issued, Walks, Keys
<1>3. Owned'
  BY <1>1, <1>2, BoundsAssumption DEF Owned
<1>4. \A d \in Clients : identities'[d] <= issued'
  BY BoundsAssumption DEF Issued
<1>5. \A d \in Clients : walking'[d] # Nothing => walking'[d].key.target <= issued'
  BY BoundsAssumption DEF Issued, Walks, Keys
<1>6. \A k \in Caches : cache'[k] # Nothing => cache'[k].key.target <= issued'
  BY BoundsAssumption DEF Issued, Entries, Keys
<1>7. \A k \in Caches : cache[k] # Nothing =>
        \A d \in Clients : Holds(d, cache[k].key.target)' => Holds(d, cache[k].key.target)
  BY <1>1, Zenon DEF Issued, Entries, Keys
<1> QED
  BY <1>3, <1>4, <1>5, <1>6, <1>7, Zenon

\* A step that moves the registry gives nobody the identity that a stale scope names.
LEMMA StaleStays ==
  ASSUME Inv, NEW c \in Clients, Registered(c), UNCHANGED <<scope, stale>>
  PROVE  ScopeSound'
<1> SUFFICES ASSUME scope # Nothing, stale PROVE identities'[scope.client] # scope.target
  BY Zenon DEF ScopeSound
<1>1. /\ identities[scope.client] # scope.target /\ scope.target <= issued /\ scope \in Scopes
      /\ issued \in 0..MaxIdentity
  BY Zenon DEF Inv, ScopeSound, Issued, Typed, Registered
<1>2. scope.client \in Clients /\ scope.target \in 1..MaxIdentity
  BY <1>1, Zenon DEF Scopes
<1>3. scope.target # 0 /\ (identities'[scope.client] = issued + 1 => scope.target # identities'[scope.client])
  BY <1>1, <1>2, BoundsAssumption
<1> QED BY <1>1, <1>2, <1>3, Zenon DEF Registered
-----------------------------------------------------------------------------
(* The steps. *)

\* The process starts with nothing issued, walked, cached or saved.
THEOREM Initially == Init => Inv
<1> SUFFICES ASSUME Init PROVE Inv
  BY Zenon
<1> USE BoundsAssumption DEF Init
<1>1. Typed
  <2>1. TypeOK
    <3>1. identities \in [Clients -> 0..MaxIdentity]
      OBVIOUS
    <3>2. session \in [Clients -> 0..MaxStamp] /\ memory \in [Clients -> 0..MaxStamp]
      OBVIOUS
    <3>3. kernel \subseteq Clients /\ stale \in BOOLEAN
      BY Zenon
    <3>4. issued \in 0..MaxIdentity /\ generation \in 1..MaxGeneration /\ stamp \in 0..MaxStamp
      OBVIOUS
    <3> QED
      BY <3>1, <3>2, <3>3, <3>4, Zenon DEF TypeOK
  <2>2. walking \in [Clients -> Walks \cup {Nothing}] /\ cache \in [Caches -> Entries \cup {Nothing}]
    BY Zenon
  <2>3. floor \in [Caches -> [Clients -> 0..MaxStamp]]
    OBVIOUS
  <2> QED
    BY <2>1, <2>2, <2>3, Zenon DEF Typed
<1>2. Issued /\ Owned
  BY DEF Issued, Owned, Holds
<1>3. WalkSound /\ EntrySound /\ ScopeSound
  BY Zenon DEF WalkSound, EntrySound, ScopeSound
<1>4. FloorSound
  BY DEF FloorSound
<1>5. Answered
  BY Zenon DEF Answered, ServedFresh, RefreshSupersedes, CutShortNotServed, EndedScopeRefused
<1> QED
  BY <1>1, <1>2, <1>3, <1>4, <1>5, Zenon DEF Inv

\* Inv is kept: an identity issued anew is above all that are held.
LEMMA NewClientStep ==
  ASSUME Inv, NEW c \in Clients, NewClient(c)
  PROVE  Inv'
<1> USE BoundsAssumption DEF NewClient
<1>1. Registered(c) /\ identities'[c] = issued' /\ issued' = issued + 1
  BY ReissueRegisters, Zenon DEF Inv
<1>2. Owned' /\ Issued'
  BY <1>1, RegistryStep DEF Issued, Inv, Typed, TypeOK, Scopes, Registered
<1>3. Typed'
  BY <1>1, Zenon DEF Inv, Typed, TypeOK, Registered
<1>4. EntrySound'
  BY <1>1, RegistryStep, Zenon DEF Inv, EntrySound, Still
<1>5. ScopeSound'
  BY <1>1 DEF Inv, ScopeSound, Issued, Registered, Typed, TypeOK, Scopes
<1>6. WalkSound' /\ FloorSound' /\ Answered'
  BY Zenon DEF Inv, WalkSound, FloorSound, Answered, ServedFresh, RefreshSupersedes,
         CutShortNotServed, EndedScopeRefused
<1> QED
  BY <1>2, <1>3, <1>4, <1>5, <1>6, Zenon DEF Inv

\* Inv is kept: what the client opened over is reached by no identity it holds now.
LEMMA OpenStep ==
  ASSUME Inv, NEW c \in Clients, Open(c)
  PROVE  Inv'
<1> USE BoundsAssumption DEF Open, Tick
<1>1. Registered(c) /\ identities'[c] = issued' /\ issued' = issued + 1
  BY ReissueRegisters, Zenon DEF Inv
<1>2. Owned' /\ Issued'
  <2>1. scope' # Nothing => scope'.target <= issued'
    BY <1>1 DEF Inv, Issued, Typed, TypeOK, Scopes
  <2> QED
    BY <1>1, <2>1, RegistryStep, Zenon DEF Issued
<1>3. Typed'
  <2>1. stale' \in BOOLEAN
    BY Zenon DEF SavedFrom
  <2>2. /\ session' \in [Clients -> 0..MaxStamp] /\ memory' \in [Clients -> 0..MaxStamp]
        /\ stamp' \in 0..MaxStamp
    BY DEF Inv, Typed, TypeOK
  <2>3. kernel' \subseteq Clients
    BY Zenon DEF Inv, Typed, TypeOK
  <2> HIDE DEF Open, Tick
  <2>4. UNCHANGED <<generation, cache, walking, scope, restored, served, floor>>
    BY Zenon DEF Open
  <2> QED
    BY <1>1, <2>1, <2>2, <2>3, <2>4, Zenon DEF Inv, Typed, TypeOK, Registered
<1>4. \A k \in Caches : cache[k] # Nothing => ~Holds(c, cache[k].key.target)'
  BY <1>1 DEF Inv, Issued, Holds, Still, Typed, TypeOK, Entries, Keys
<1>5. EntrySound'
  BY <1>1, <1>4, RegistryStep, Zenon DEF Inv, EntrySound, Typed, TypeOK
<1>6. ScopeSound'
  <2> SUFFICES ASSUME scope # Nothing, stale' PROVE identities'[scope.client] # scope.target
    BY Zenon DEF ScopeSound
  <2>1. CASE scope.client = c
    BY <1>1, <2>1 DEF Inv, Issued, Typed, TypeOK, Scopes
  <2>2. CASE scope.client # c
    <3>1. stale
      BY <2>2, Zenon DEF SavedFrom
    <3> QED
      BY <1>1, <2>2, <3>1 DEF Inv, ScopeSound, Registered, Typed, TypeOK, Scopes
  <2> QED
    BY <2>1, <2>2, Zenon
<1>7. WalkSound'
  BY Zenon DEF Inv, WalkSound, Typed, TypeOK, Still
<1>8. FloorSound'
  BY DEF Inv, FloorSound, Typed, TypeOK
<1>9. Answered'
  BY Zenon DEF Inv, Answered, ServedFresh, RefreshSupersedes, CutShortNotServed, EndedScopeRefused
<1> QED
  BY <1>2, <1>3, <1>5, <1>6, <1>7, <1>8, <1>9, Zenon DEF Inv

\* Inv is kept: a client without a session reaches no cached view.
LEMMA OpenProcessStep ==
  ASSUME Inv, NEW c \in Clients, OpenProcess(c)
  PROVE  Inv'
<1> USE BoundsAssumption DEF OpenProcess, Tick
<1>1. Typed' /\ Issued'
  BY DEF Inv, Typed, TypeOK, Issued
<1>2. Owned'
  BY Zenon DEF Inv, Owned, Holds
<1>3. EntrySound'
  BY DEF Inv, EntrySound, Holds, Typed, TypeOK
<1>4. WalkSound' /\ FloorSound'
  BY DEF Inv, WalkSound, FloorSound, Typed, TypeOK, Still
<1>5. ScopeSound' /\ Answered'
  BY Zenon DEF Inv, ScopeSound, Answered, ServedFresh, RefreshSupersedes, CutShortNotServed,
         EndedScopeRefused
<1> QED
  BY <1>1, <1>2, <1>3, <1>4, <1>5, Zenon DEF Inv

\* Inv is kept: as for an open, refused or not.
LEMMA EndSessionStep ==
  ASSUME Inv, NEW c \in Clients, end_session(c)
  PROVE  Inv'
<1> USE BoundsAssumption DEF end_session
<1>1. Registered(c) /\ identities'[c] = issued' /\ issued' = issued + 1
  BY ReissueRegisters, Zenon DEF Inv
<1>2. Owned' /\ Issued'
  BY <1>1, RegistryStep DEF Issued, Inv, Typed, TypeOK, Scopes, Registered
<1>3. Typed'
  <2>1. stale' \in BOOLEAN
    BY Zenon DEF SavedFrom, Inv, Typed, TypeOK
  <2>2. session' \in [Clients -> 0..MaxStamp]
    BY DEF Inv, Typed, TypeOK
  <2> QED
    BY <1>1, <2>1, <2>2, Zenon DEF Inv, Typed, TypeOK, Registered
<1>4. \A k \in Caches : cache[k] # Nothing => ~Holds(c, cache[k].key.target)'
  BY <1>1, SMTT(30) DEF Inv, Issued, Holds, Still, Typed, TypeOK, Entries, Keys
<1>5. EntrySound'
  <2>1. /\ UNCHANGED <<memory, walking, cache, floor>>
        /\ \A d \in Clients : d # c => session'[d] = session[d]
    BY Zenon DEF Still, Inv, Typed, TypeOK
  <2>2. \A k \in Caches : cache[k] # Nothing =>
          \A d \in Clients : Holds(d, cache[k].key.target)' => Holds(d, cache[k].key.target)
    BY <1>1, <2>1, RegistryStep, Zenon
  <2> HIDE DEF end_session
  <2> QED BY <1>4, <2>1, <2>2, Zenon DEF Inv, EntrySound
<1>6. ScopeSound'
  <2> SUFFICES ASSUME scope # Nothing, stale' PROVE identities'[scope.client] # scope.target
    BY Zenon DEF ScopeSound
  <2>1. CASE scope.client = c
    BY <1>1, <2>1 DEF Inv, Issued, Typed, TypeOK, Scopes
  <2>2. CASE scope.client # c
    <3>1. stale
      BY <2>2, Zenon DEF SavedFrom
    <3> QED
      BY <1>1, <2>2, <3>1 DEF Inv, ScopeSound, Registered, Typed, TypeOK, Scopes
  <2> QED
    BY <2>1, <2>2, Zenon
<1>7. WalkSound'
  BY SMTT(30) DEF Inv, WalkSound, Typed, TypeOK, Still
<1>8. FloorSound' /\ Answered'
  BY Zenon DEF Inv, FloorSound, Answered, ServedFresh, RefreshSupersedes, CutShortNotServed,
         EndedScopeRefused
<1> QED
  BY <1>2, <1>3, <1>5, <1>6, <1>7, <1>8, Zenon DEF Inv

\* Inv is kept: both caches are dropped.
LEMMA ResumeStep ==
  ASSUME Inv, NEW c \in Clients, Resume(c)
  PROVE  Inv'
<1> USE BoundsAssumption DEF Resume, Tick, invalidate_allocator_snapshots
<1>1. Typed' /\ Issued'
  BY DEF Inv, Typed, TypeOK, Issued
<1>2. Owned'
  BY Zenon DEF Inv, Owned, Holds
<1>3. EntrySound'
  BY Zenon DEF EntrySound
<1>4. WalkSound' /\ FloorSound'
  BY DEF Inv, WalkSound, FloorSound, Typed, TypeOK, Still
<1>5. ScopeSound' /\ Answered'
  BY Zenon DEF Inv, ScopeSound, Answered, ServedFresh, RefreshSupersedes, CutShortNotServed,
         EndedScopeRefused
<1> QED
  BY <1>1, <1>2, <1>3, <1>4, <1>5, Zenon DEF Inv

\* Inv is kept: both caches are dropped.
LEMMA InvalidateStep ==
  ASSUME Inv, invalidate_allocator_caches
  PROVE  Inv'
<1> USE BoundsAssumption DEF invalidate_allocator_caches, invalidate_allocator_snapshots
<1>1. Typed' /\ Issued'
  BY DEF Inv, Typed, TypeOK, Issued
<1>2. Owned' /\ EntrySound'
  BY Zenon DEF Inv, Owned, Holds, EntrySound
<1>3. WalkSound' /\ FloorSound' /\ ScopeSound' /\ Answered'
  BY Zenon DEF Inv, WalkSound, FloorSound, ScopeSound, Answered, ServedFresh, RefreshSupersedes,
         CutShortNotServed, EndedScopeRefused
<1> QED
  BY <1>1, <1>2, <1>3, Zenon DEF Inv

\* Inv is kept: the walk begins under an identity its client holds.
LEMMA PrepareStep ==
  ASSUME Inv, NEW c \in Clients, NEW refresh \in BOOLEAN, Prepare(c, refresh)
  PROVE  Inv'
<1> USE BoundsAssumption
<1> DEFINE w == [kind |-> IF c \in kernel THEN "pool" ELSE "heap",
                 key |-> SessionKey(c), refresh |-> refresh, at |-> 0]
<1>1. /\ Still(c) /\ session[c] # 0 /\ identity_for(c)
      /\ walking' = [walking EXCEPT ![c] = w]
      /\ served' = Nothing
      /\ UNCHANGED <<generation, stamp, session, kernel, memory, cache, scope, restored,
                     stale, floor>>
  BY Zenon DEF Prepare
<1>2. Registered(c) /\ identities'[c] # 0
  BY <1>1, IdentityForRegisters, Zenon DEF Inv
<1>3. w \in Walks /\ w.key.target = identities'[c] /\ w.at = 0
  BY <1>2 DEF Walks, Keys, SessionKey, Inv, Typed, TypeOK, Registered, Caches
<1> HIDE DEF w
<1>4. \A d \in Clients, t \in 1..MaxIdentity : t <= issued /\ Holds(d, t)' => Holds(d, t)
  BY <1>1, <1>2, <1>3, SMTT(30) DEF Inv, Typed, TypeOK, Registered, Holds
<1>5. \A d \in Clients, t \in 1..MaxIdentity : t > issued /\ Holds(d, t)' => d = c
  BY <1>1, <1>2, <1>3 DEF Inv, Typed, TypeOK, Registered, Holds, Issued, Walks, Keys
<1>6. Owned'
  BY <1>2, <1>4, <1>5 DEF Inv, Owned, Registered
<1>7. Typed'
  BY <1>1, <1>2, <1>3, Zenon DEF Inv, Typed, TypeOK, Registered
<1>8. Issued'
  <2>1. \A d \in Clients : identities'[d] <= issued'
    BY <1>2, SMTT(30) DEF Inv, Issued, Typed, TypeOK, Registered
  <2>2. \A d \in Clients : walking'[d] # Nothing => walking'[d].key.target <= issued'
    BY <1>1, <1>2, <1>3, <2>1 DEF Inv, Issued, Typed, Registered, Walks, Keys
  <2>3. \A k \in Caches : cache'[k] # Nothing => cache'[k].key.target <= issued'
    BY <1>1, <1>2 DEF Inv, Issued, Typed, Registered, Entries, Keys
  <2>4. scope' # Nothing => scope'.target <= issued'
    BY <1>1, <1>2, SMTT(30) DEF Inv, Issued, Typed, Registered, Scopes
  <2> QED
    BY <2>1, <2>2, <2>3, <2>4, Zenon DEF Issued
<1>9. EntrySound'
  <2>1. \A k \in Caches : cache[k] # Nothing =>
          cache[k].key.target \in 1..MaxIdentity /\ cache[k].key.target <= issued
    BY Zenon DEF Inv, Issued, Typed, Entries, Keys
  <2> QED BY <1>1, <1>4, <2>1, Zenon DEF Inv, EntrySound
<1>10. WalkSound' /\ FloorSound'
  BY <1>1, <1>3, Zenon DEF Inv, WalkSound, FloorSound, Typed, TypeOK
<1>11. ScopeSound'
  BY <1>1, <1>2, StaleStays, Zenon
<1>12. Answered'
  BY <1>1, Zenon DEF Inv, Answered, ServedFresh, RefreshSupersedes, CutShortNotServed,
              EndedScopeRefused
<1> QED
  BY <1>6, <1>7, <1>8, <1>9, <1>10, <1>11, <1>12, Zenon DEF Inv

\* Inv is kept: a hit is on a view its client reaches; a refresh drops the view before its floor moves.
LEMMA LookStep ==
  ASSUME Inv, NEW c \in Clients, Look(c)
  PROVE  Inv'
<1> USE BoundsAssumption
<1> DEFINE w == walking[c]
           k == w.kind
           hit == ~w.refresh /\ cache[k] # Nothing /\ cache[k].key = w.key
<1>1. /\ w \in Walks /\ w # Nothing /\ w.at = 0
      /\ UNCHANGED <<identities, issued, generation, session, kernel, memory, scope, restored,
                     stale>>
  BY Zenon DEF Look, Inv, Typed
<1>2. CASE /\ hit
           /\ served' = [of |-> cache[k].of, now |-> memory[c], at |-> cache[k].at,
                         floor |-> floor[k][c], whole |-> cache[k].whole]
           /\ walking' = [walking EXCEPT ![c] = Nothing]
           /\ UNCHANGED <<stamp, cache, floor>>
  <2>1. Holds(c, cache[k].key.target) /\ k \in Caches /\ cache[k] \in Entries
    BY <1>1, <1>2, Zenon DEF Holds, Walks, Inv, Typed
  <2>2. cache[k].of = memory[c] /\ cache[k].at >= floor[k][c] /\ cache[k].whole
    BY <1>2, <2>1, Zenon DEF Inv, EntrySound
  <2>3. \A d \in Clients, t \in 1..MaxIdentity : Holds(d, t)' => Holds(d, t)
    BY <1>1, <1>2, Zenon DEF Holds, Inv, Typed
  <2>4. Typed'
    <3>1. /\ memory[c] \in 0..MaxStamp /\ floor[k][c] \in 0..MaxStamp
          /\ cache[k].of \in 0..MaxStamp /\ cache[k].at \in 0..MaxStamp
          /\ cache[k].whole \in BOOLEAN
      BY <2>1, SMTT(30) DEF Entries, Inv, Typed, TypeOK
    <3>2. served' \in Answers
      <4> HIDE DEF k, w, hit
      <4> QED BY <1>2, <3>1, Zenon DEF Answers
    <3> QED
      BY <1>1, <1>2, <3>2, Zenon DEF Inv, Typed, TypeOK
  <2>5. Owned'
    BY <2>3, Zenon DEF Inv, Owned
  <2>6. Issued' /\ WalkSound' /\ FloorSound' /\ ScopeSound'
    BY <1>1, <1>2, Zenon DEF Inv, Issued, WalkSound, FloorSound, ScopeSound, Typed
  <2>7. EntrySound'
    <3>1. \A j \in Caches : cache[j] # Nothing => cache[j].key.target \in 1..MaxIdentity
      BY Zenon DEF Inv, Typed, Entries, Keys
    <3> QED BY <1>1, <1>2, <2>3, <3>1, Zenon DEF Inv, EntrySound
  <2>8. Answered'
    BY <1>1, <1>2, <2>2, Zenon DEF Inv, Answered, ServedFresh, RefreshSupersedes, CutShortNotServed,
                            EndedScopeRefused
  <2> QED
    BY <2>4, <2>5, <2>6, <2>7, <2>8, Zenon DEF Inv
<1>3. CASE /\ ~hit /\ Tick
           /\ cache' = replaced(k, w.refresh)
           /\ floor' = IF w.refresh THEN [floor EXCEPT ![k][c] = stamp'] ELSE floor
           /\ walking' = [walking EXCEPT ![c].at = stamp']
           /\ UNCHANGED served
  <2>1. stamp' = stamp + 1 /\ stamp' \in 1..MaxStamp /\ k \in Caches
    BY <1>1, <1>3 DEF Tick, Inv, Typed, TypeOK, Walks
  <2>2. /\ walking' \in [Clients -> Walks \cup {Nothing}]
        /\ walking'[c] \in Walks /\ walking'[c].at = stamp' /\ walking'[c].kind = k
        /\ walking'[c].key = w.key
        /\ \A d \in Clients \ {c} : walking'[d] = walking[d]
    BY <1>1, <1>3, <2>1 DEF Walks, Inv, Typed
  <2>3. \A d \in Clients, t \in 1..MaxIdentity : Holds(d, t)' => Holds(d, t)
    BY <1>1, <2>2, Zenon DEF Holds
  <2>4. \A j \in Caches : cache'[j] # Nothing => cache'[j] = cache[j] /\ ~(w.refresh /\ j = k)
    BY <1>3, <2>1, Zenon DEF replaced, Inv, Typed
  <2>5. cache' \in [Caches -> Entries \cup {Nothing}]
    BY <1>3, <2>1, Zenon DEF replaced, Inv, Typed
  <2>6. /\ floor' \in [Caches -> [Clients -> 0..MaxStamp]]
        /\ \A j \in Caches, d \in Clients : floor'[j][d] <= stamp'
        /\ \A j \in Caches, d \in Clients :
             floor'[j][d] # floor[j][d] => j = k /\ d = c /\ w.refresh
    <3>1. /\ stamp \in 0..MaxStamp /\ floor \in [Caches -> [Clients -> 0..MaxStamp]]
          /\ \A j \in Caches, d \in Clients : floor[j][d] <= stamp
      BY Zenon DEF Inv, Typed, TypeOK, FloorSound
    <3>2. floor' = IF w.refresh THEN [floor EXCEPT ![k][c] = stamp'] ELSE floor
      BY <1>3, Zenon
    <3> HIDE DEF w, k
    <3> QED BY <2>1, <3>1, <3>2
  <2>7. Typed' /\ FloorSound'
    BY <1>1, <1>3, <2>1, <2>2, <2>5, <2>6 DEF Inv, Typed, TypeOK, FloorSound
  <2>8. Owned'
    BY <2>3, Zenon DEF Inv, Owned
  <2>9. Issued'
    <3>1. \A d \in Clients : walking'[d] # Nothing => walking'[d].key.target <= issued'
      BY <1>1, <2>2, Zenon DEF Inv, Issued
    <3>2. \A j \in Caches : cache'[j] # Nothing => cache'[j].key.target <= issued'
      BY <1>1, <2>4, Zenon DEF Inv, Issued
    <3> QED
      BY <1>1, <3>1, <3>2, Zenon DEF Inv, Issued
  <2>10. WalkSound'
    <3> SUFFICES ASSUME NEW d \in Clients, walking'[d] # Nothing
                 PROVE  /\ session'[d] # 0
                        /\ walking'[d].at # 0 => walking'[d].at >= floor'[walking'[d].kind][d]
      BY Zenon DEF WalkSound
    <3>1. CASE d = c
      BY <1>1, <2>1, <2>2, <2>6, <3>1, SMTT(30) DEF Inv, WalkSound
    <3>2. CASE d # c
      BY <1>1, <2>2, <2>6, <3>2, SMTT(30) DEF Inv, WalkSound, Typed, Walks
    <3> QED
      BY <3>1, <3>2, Zenon
  <2>11. EntrySound'
    <3>1. ASSUME NEW j \in Caches, cache'[j] # Nothing
          PROVE  cache'[j].whole /\ \A d \in Clients : Holds(d, cache[j].key.target)' =>
                                      /\ cache'[j].of = memory'[d] /\ session'[d] # 0 /\ cache'[j].at >= floor'[j][d]
      <4>1. cache'[j] = cache[j] /\ cache[j] # Nothing /\ ~(w.refresh /\ j = k) /\ memory' = memory /\ session' = session
        BY <1>1, <2>4, <3>1, Zenon
      <4>2. cache'[j].key.target \in 1 .. MaxIdentity
        BY <2>5, <3>1 DEF Entries, Keys
      <4>3. \A d \in Clients : floor'[j][d] = floor[j][d]
        BY <2>6, <4>1, Zenon
      <4>4. EntrySound
        BY Zenon DEF Inv
      <4>5. ASSUME NEW d \in Clients, Holds(d, cache[j].key.target)'
            PROVE  cache'[j].of = memory'[d] /\ session'[d] # 0 /\ cache'[j].at >= floor'[j][d]
        <5>1. Holds(d, cache[j].key.target)
          BY <2>3, <4>1, <4>2, <4>5, Zenon DEF Holds
        <5>2. cache[j].of = memory[d] /\ session[d] # 0 /\ cache[j].at >= floor[j][d]
          BY <4>1, <4>4, <5>1, Zenon DEF EntrySound
        <5> QED  BY <4>1, <4>3, <5>2, Zenon
      <4>6. cache'[j].whole
        BY <4>1, <4>4, Zenon DEF EntrySound
      <4> QED  BY <4>5, <4>6, Zenon
    <3> QED  BY <3>1, Zenon DEF EntrySound
  <2>12. ScopeSound' /\ Answered'
    BY <1>1, <1>3, Zenon DEF Inv, ScopeSound, Answered, ServedFresh, RefreshSupersedes,
                      CutShortNotServed, EndedScopeRefused
  <2> QED
    BY <2>7, <2>8, <2>9, <2>10, <2>11, <2>12, Zenon DEF Inv
<1> QED
  BY <1>2, <1>3, Zenon DEF Look

\* Inv is kept: what is stored is reached by the walker alone.
LEMMA WalkedStep ==
  ASSUME Inv, NEW c \in Clients, NEW outcome \in {"complete", "partial", "cut", "failed"},
         Walked(c, outcome)
  PROVE  Inv'
<1> USE BoundsAssumption
<1> DEFINE w == walking[c]
           k == w.kind
           e == [key |-> w.key, of |-> memory[c], at |-> w.at, whole |-> outcome # "cut"]
<1>1. /\ w \in Walks /\ w # Nothing /\ w.at # 0 /\ k \in Caches
      /\ walking' = [walking EXCEPT ![c] = Nothing]
      /\ UNCHANGED <<identities, issued, generation, stamp, session, kernel, memory, scope,
                     restored, served, stale, floor>>
  BY Zenon DEF Walked, Inv, Typed, Walks
<1>2. /\ cache' \in [Caches -> Entries \cup {Nothing}]
      /\ \A j \in Caches : \/ cache'[j] = cache[j]
                           \/ cache'[j] = Nothing
                           \/ j = k /\ outcome # "cut" /\ cache'[j] = e
  <2>1. e \in Entries
    BY <1>1, Zenon DEF Entries, Walks, Inv, Typed, TypeOK
  <2>2. cacheable(k, outcome) => outcome # "cut"
    BY Zenon DEF cacheable
  <2>3. cache' = IF cacheable(k, outcome) THEN [cache EXCEPT ![k] = e]
                 ELSE IF k = "pool" /\ outcome = "cut" THEN [cache EXCEPT ![k] = Nothing]
                 ELSE cache
    BY Zenon DEF Walked
  <2>4. k \in Caches /\ cache \in [Caches -> Entries \cup {Nothing}]
    BY <1>1, Zenon DEF Inv, Typed
  <2> HIDE DEF e, k, w
  <2>5. CASE cacheable(k, outcome)
    BY <2>1, <2>2, <2>3, <2>4, <2>5, Zenon
  <2>6. CASE ~cacheable(k, outcome)
    BY <2>3, <2>4, <2>6, Zenon
  <2> QED
    BY <2>5, <2>6, Zenon
<1>3. \A d \in Clients, t \in 1..MaxIdentity : Holds(d, t)' => Holds(d, t)
  BY <1>1, Zenon DEF Holds, Inv, Typed
<1>4. Holds(c, w.key.target) /\ w.key.target \in 1..MaxIdentity
  BY <1>1, Zenon DEF Holds, Walks, Keys
<1>5. Typed'
  BY <1>1, <1>2, Zenon DEF Inv, Typed, TypeOK
<1>6. Owned'
  BY <1>3, Zenon DEF Inv, Owned
<1>7. Issued'
  <2>1. \A d \in Clients : walking'[d] # Nothing => walking'[d] = walking[d]
    BY <1>1, Zenon DEF Inv, Typed
  <2>2. w.key.target <= issued
    BY <1>1, Zenon DEF Inv, Issued
  <2>3. \A j \in Caches : cache'[j] # Nothing => cache'[j].key.target <= issued
    <3>1. e.key = w.key
      BY Zenon
    <3> HIDE DEF e
    <3> QED  BY <1>2, <2>2, <3>1, Zenon DEF Inv, Issued
  <2> QED  BY <1>1, <2>1, <2>3, Zenon DEF Inv, Issued
<1>8. WalkSound' /\ FloorSound' /\ ScopeSound'
  BY <1>1, Zenon DEF Inv, WalkSound, FloorSound, ScopeSound, Typed
<1>9. EntrySound'
  <2>1. \A d \in Clients : walking'[d] # Nothing => walking'[d] = walking[d]
    BY <1>1, Zenon DEF Inv, Typed
  <2>2. identities' = identities /\ memory' = memory /\ session' = session /\ floor' = floor
    BY <1>1, Zenon
  <2>3. session[c] # 0 /\ w.at >= floor[k][c]
    BY <1>1, Zenon DEF Inv, WalkSound
  <2>4. e.whole = (outcome # "cut") /\ e.key = w.key /\ e.of = memory[c] /\ e.at = w.at
    BY Zenon
  <2> HIDE DEF w, e, k
  <2> SUFFICES ASSUME NEW j \in Caches, cache'[j] # Nothing
               PROVE  /\ cache'[j].whole
                      /\ \A d \in Clients : Holds(d, cache[j].key.target)' =>
                           cache'[j].of = memory[d] /\ session[d] # 0 /\ cache'[j].at >= floor[j][d]
    BY <2>2, Zenon DEF EntrySound
  <2>5. ASSUME NEW d \in Clients, NEW t, t = cache'[j].key.target, Holds(d, cache[j].key.target)'
        PROVE  Holds(d, t)
    BY <2>1, <2>2, <2>5, Zenon DEF Holds
  <2>6. CASE cache'[j] = cache[j]
    <3>1. /\ cache[j].whole
          /\ \A d \in Clients : Holds(d, cache[j].key.target) =>
               cache[j].of = memory[d] /\ session[d] # 0 /\ cache[j].at >= floor[j][d]
      BY <2>6, Zenon DEF Inv, EntrySound
    <3> QED BY <2>5, <2>6, <3>1, Zenon
  <2>7. CASE j = k /\ outcome # "cut" /\ cache'[j] = e
    <3>1. ASSUME NEW d \in Clients, Holds(d, w.key.target) PROVE d = c
      BY <1>4, <3>1, Zenon DEF Inv, Owned
    <3>2. cache'[j].whole /\ cache'[j].key = w.key /\ cache'[j].of = memory[c] /\ cache'[j].at = w.at
      BY <2>4, <2>7, Zenon
    <3> QED BY <2>3, <2>5, <2>7, <3>1, <3>2, Zenon
  <2> QED BY <1>2, <2>6, <2>7, Zenon
<1>10. Answered'
  BY <1>1, Zenon DEF Inv, Answered, ServedFresh, RefreshSupersedes, CutShortNotServed,
              EndedScopeRefused
<1> QED
  BY <1>5, <1>6, <1>7, <1>8, <1>9, <1>10, Zenon DEF Inv

\* Inv is kept: a scope names an identity that is issued.
LEMMA SaveScopeStep ==
  ASSUME Inv, NEW c \in Clients, SaveScope(c)
  PROVE  Inv'
<1> USE BoundsAssumption DEF SaveScope
<1>1. Registered(c) /\ identities'[c] # 0
  BY IdentityForRegisters, Zenon DEF Inv
<1>2. scope' \in Scopes /\ scope'.target <= issued'
  BY <1>1, SMTT(30) DEF Scopes, Inv, Issued, Typed, TypeOK, Registered
<1>3. Owned' /\ Issued'
  BY <1>1, <1>2, RegistryStep, Zenon DEF Issued
<1>4. Typed'
  BY <1>1, <1>2, Zenon DEF Inv, Typed, TypeOK, Registered
<1>5. EntrySound'
  BY <1>1, RegistryStep, Zenon DEF Inv, EntrySound
<1>6. WalkSound' /\ FloorSound' /\ ScopeSound' /\ Answered'
  BY Zenon DEF Inv, WalkSound, FloorSound, ScopeSound, Answered, ServedFresh, RefreshSupersedes,
         CutShortNotServed, EndedScopeRefused
<1> QED
  BY <1>3, <1>4, <1>5, <1>6, Zenon DEF Inv

\* Inv is kept: a stale scope names an identity its client has no more.
LEMMA SetScopeStep ==
  ASSUME Inv, NEW c \in Clients, set_scope(c)
  PROVE  Inv'
<1> USE BoundsAssumption
<1>1. /\ scope # Nothing /\ scope.client = c /\ scope \in Scopes /\ identity_for(c)
      /\ restored' = IF scope.target = identities'[c] /\ session[c] # 0
                     THEN [saved |-> scope.session, found |-> session[c], stale |-> stale]
                     ELSE Nothing
      /\ UNCHANGED <<generation, stamp, session, kernel, memory, cache, walking, scope,
                     served, stale, floor>>
  BY Zenon DEF set_scope, Inv, Typed
<1>2. Registered(c) /\ identities'[c] # 0
  BY <1>1, IdentityForRegisters, Zenon DEF Inv
<1>3. scope'.target <= issued'
  <2>1. scope' = scope /\ scope.target <= issued
    BY <1>1, Zenon DEF Inv, Issued
  <2>2. issued \in 0 .. MaxIdentity /\ issued' \in 0 .. MaxIdentity /\ issued <= issued'
    BY <1>2, Zenon DEF Registered
  <2>3. scope.target \in 0 .. MaxIdentity
    BY <1>1 DEF Scopes
  <2> QED BY <2>1, <2>2, <2>3
<1>4. Owned' /\ Issued'
  BY <1>1, <1>2, <1>3, RegistryStep, Zenon DEF Issued
<1>5. scope.target = identities'[c] => ~stale
  <2>1. ScopeSound'
    BY <1>1, <1>2, StaleStays, Zenon
  <2> QED BY <1>1, <2>1, Zenon DEF ScopeSound
<1>6. restored' # Nothing => restored' = [saved |-> scope.session, found |-> session[c],
                                          stale |-> stale] /\ ~stale /\ session[c] # 0
  BY <1>1, <1>5, Zenon
<1>7. restored' \in {Nothing} \cup [saved : 1..MaxStamp, found : 1..MaxStamp, stale : BOOLEAN]
  BY <1>1, <1>6 DEF Scopes, Inv, Typed, TypeOK
<1>8. Typed'
  BY <1>1, <1>2, <1>7, Zenon DEF Inv, Typed, TypeOK, Registered
<1>9. EntrySound'
  BY <1>1, <1>2, RegistryStep, Zenon DEF Inv, EntrySound
<1>10. ScopeSound'
  BY <1>1, <1>2, StaleStays, Zenon
<1>11. WalkSound' /\ FloorSound'
  BY <1>1, Zenon DEF Inv, WalkSound, FloorSound
<1>12. Answered'
  BY <1>1, <1>6, Zenon DEF Inv, Answered, ServedFresh, RefreshSupersedes, CutShortNotServed,
                    EndedScopeRefused
<1> QED
  BY <1>4, <1>8, <1>9, <1>10, <1>11, <1>12, Zenon DEF Inv

\* Inv is kept: nothing changes.
LEMMA StutterStep ==
  ASSUME Inv, UNCHANGED vars
  PROVE  Inv'
<1> USE DEF vars
<1>1. Typed' /\ Issued' /\ FloorSound' /\ ScopeSound'
  BY Zenon DEF Inv, Typed, TypeOK, Issued, FloorSound, ScopeSound
<1>2. \A c \in Clients, t \in 1..MaxIdentity : Holds(c, t)' <=> Holds(c, t)
  BY Zenon DEF Holds
<1>3. Owned' /\ WalkSound'
  BY <1>2, Zenon DEF Inv, Owned, WalkSound
<1>4. EntrySound'
  BY Zenon DEF Inv, EntrySound, Holds
<1>5. Answered'
  BY Zenon DEF Inv, Answered, ServedFresh, RefreshSupersedes, CutShortNotServed, EndedScopeRefused
<1> QED BY <1>1, <1>3, <1>4, <1>5, Zenon DEF Inv

-----------------------------------------------------------------------------
\* Inv is inductive.
THEOREM InvHolds == Spec => []Inv
<1>1. Inv /\ [Next]_vars => Inv'
  <2> SUFFICES ASSUME Inv, [Next]_vars PROVE Inv'
    BY Zenon
  <2>1. CASE UNCHANGED vars
    BY <2>1, StutterStep, Zenon
  <2>2. CASE invalidate_allocator_caches
    BY <2>2, InvalidateStep, Zenon
  <2>3. ASSUME NEW c \in Clients,
               NewClient(c) \/ Open(c) \/ OpenProcess(c) \/ end_session(c) \/ Resume(c)
        PROVE  Inv'
    BY <2>3, NewClientStep, OpenStep, OpenProcessStep, EndSessionStep, ResumeStep, Zenon
  <2>4. ASSUME NEW c \in Clients, NEW refresh \in BOOLEAN, Prepare(c, refresh)
        PROVE  Inv'
    BY <2>4, PrepareStep, Zenon
  <2>5. ASSUME NEW c \in Clients, NEW outcome \in {"complete", "partial", "cut", "failed"},
               Walked(c, outcome)
        PROVE  Inv'
    BY <2>5, WalkedStep, Zenon
  <2>6. ASSUME NEW c \in Clients, Look(c) \/ SaveScope(c) \/ set_scope(c)
        PROVE  Inv'
    BY <2>6, LookStep, SaveScopeStep, SetScopeStep, Zenon
  <2> QED
    BY <2>1, <2>2, <2>3, <2>4, <2>5, <2>6, Zenon DEF Next
<1> QED
  BY <1>1, Initially, PTL DEF Spec

\* Every variable keeps its type, for any number of clients.
THEOREM TypeCorrect == Spec => []TypeOK
<1>1. Inv => TypeOK
  BY Zenon DEF Inv, Typed
<1> QED
  BY <1>1, InvHolds, PTL

\* However identities are issued, reissued and forgotten by a full registry, no two clients
\* have the same one (identity_for, reissue_for).
THEOREM IdentitiesDistinctHolds == Spec => []IdentitiesDistinct
<1>1. Inv => IdentitiesDistinct
  BY DEF Inv, Owned, Holds, Typed, TypeOK, IdentitiesDistinct, Remembered
<1> QED
  BY <1>1, InvHolds, PTL

\* Whatever any client of the process opens, ends, resumes or walks, an answer from a cache
\* is of the memory that the asking client's target has (get_or_refresh, walk_snapshot).
THEOREM ServedFreshHolds == Spec => []ServedFresh
<1>1. Inv => ServedFresh
  BY Zenon DEF Inv, Answered
<1> QED
  BY <1>1, InvHolds, PTL

\* No answer from a cache is older than the last refresh its client asked for, however that
\* refresh ended (get_or_refresh).
THEOREM RefreshSupersedesHolds == Spec => []RefreshSupersedes
<1>1. Inv => RefreshSupersedes
  BY Zenon DEF Inv, Answered
<1> QED
  BY <1>1, InvHolds, PTL

\* No answer from a cache is a walk that was cut short (get_or_refresh, walk_snapshot).
THEOREM CutShortNotServedHolds == Spec => []CutShortNotServed
<1>1. Inv => CutShortNotServed
  BY Zenon DEF Inv, Answered
<1> QED
  BY <1>1, InvHolds, PTL

\* No scope is applied once its session was ended or opened over, even after the registry
\* forgot its client (set_scope).
THEOREM EndedScopeRefusedHolds == Spec => []EndedScopeRefused
<1>1. Inv => EndedScopeRefused
  BY Zenon DEF Inv, Answered
<1> QED
  BY <1>1, InvHolds, PTL

\* What a cache serves is the asking client's own target as it is now, no older than its last
\* refresh, and whole, for any number of clients and any cap on those remembered (SessionKey,
\* get_or_refresh).
THEOREM CacheHonestHolds == Spec => []CacheHonest
<1>1. ServedFresh /\ RefreshSupersedes /\ CutShortNotServed => CacheHonest
  BY Zenon DEF CacheHonest
<1> QED
  BY <1>1, ServedFreshHolds, RefreshSupersedesHolds, CutShortNotServedHolds, PTL

-----------------------------------------------------------------------------
(***************************************************************************)
(* A tree walk that stays silent found exactly the nodes that the links    *)
(* lead to, for every memory and every traversal limit.                    *)
(***************************************************************************)

OnStack(w, c) == \E i \in 1 .. Len(w.stack) : w.stack[i] = c
Met(w, c) == c = 0 \/ c \in w.seen \/ OnStack(w, c) \/ w.said

TreeType ==
  /\ tree \in Memories
  /\ walk = [stack |-> walk.stack, seen |-> walk.seen, nodes |-> walk.nodes, said |-> walk.said]
  /\ walk.stack \in Seq(Nat)

\* The inductive invariant: what a taken node links to was met or is still on the stack, and
\* while nothing was said every node met was taken.
TreeInv ==
  /\ TreeType
  /\ walk.nodes \subseteq DOMAIN tree.links
  /\ Met(walk, tree.root)
  /\ \A n \in walk.nodes : Met(walk, tree.links[n].left) /\ Met(walk, tree.links[n].right)
  /\ ~walk.said => walk.seen \subseteq walk.nodes

\* What popping and pushing does to the elements of the stack.
LEMMA PrefixLemma ==
  ASSUME NEW s \in Seq(Nat), NEW k \in Nat, k <= Len(s)
  PROVE  /\ SubSeq(s, 1, k) \in Seq(Nat)
         /\ Len(SubSeq(s, 1, k)) = k
         /\ \A i \in 1 .. k : SubSeq(s, 1, k)[i] = s[i]
<1>1. SubSeq(s, 1, k) \in Seq(Nat)
  OBVIOUS
<1>2. Len(SubSeq(s, 1, k)) = k
  OBVIOUS
<1>3. \A i \in 1 .. k : SubSeq(s, 1, k)[i] = s[i]
  OBVIOUS
<1>4. QED
  BY <1>1, <1>2, <1>3, Zenon

\* The stack without its top.
LEMMA PopLemma ==
  ASSUME NEW s \in Seq(Nat), s # <<>>
  PROVE  /\ SubSeq(s, 1, Len(s) - 1) \in Seq(Nat)
         /\ Len(SubSeq(s, 1, Len(s) - 1)) = Len(s) - 1
         /\ \A i \in 1 .. Len(s) - 1 : SubSeq(s, 1, Len(s) - 1)[i] = s[i]
         /\ s[Len(s)] \in Nat /\ Len(s) >= 1
<1>1. Len(s) \in Nat /\ Len(s) # 0
  OBVIOUS
<1>2. Len(s) - 1 \in Nat /\ Len(s) - 1 <= Len(s)
  BY <1>1
<1>3. s[Len(s)] \in Nat /\ Len(s) >= 1
  BY <1>1
<1>4. /\ SubSeq(s, 1, Len(s) - 1) \in Seq(Nat)
      /\ Len(SubSeq(s, 1, Len(s) - 1)) = Len(s) - 1
      /\ \A i \in 1 .. Len(s) - 1 : SubSeq(s, 1, Len(s) - 1)[i] = s[i]
  <2> DEFINE k == Len(s) - 1
  <2>1. k \in Nat /\ k <= Len(s)
    BY <1>2, Zenon
  <2> HIDE DEF k
  <2>2. /\ SubSeq(s, 1, k) \in Seq(Nat)
        /\ Len(SubSeq(s, 1, k)) = k
        /\ \A i \in 1 .. k : SubSeq(s, 1, k)[i] = s[i]
    BY <2>1, PrefixLemma, Zenon
  <2>3. QED
    BY <2>2, Zenon DEF k
<1>5. QED
  BY <1>3, <1>4, Zenon

\* The stack with two links pushed.
LEMMA PushLemma ==
  ASSUME NEW s \in Seq(Nat), NEW a \in Nat, NEW b \in Nat
  PROVE  /\ s \o <<a, b>> \in Seq(Nat)
         /\ Len(s \o <<a, b>>) = Len(s) + 2
         /\ \A i \in 1 .. Len(s) : (s \o <<a, b>>)[i] = s[i]
         /\ (s \o <<a, b>>)[Len(s) + 1] = a
         /\ (s \o <<a, b>>)[Len(s) + 2] = b
OBVIOUS

\* One turn of the loop forgets nothing it met, and what it takes it has met the links of.
LEMMA TurnLemma ==
  ASSUME TreeInv, TreeStep
  PROVE  /\ tree' = tree
         /\ TreeType'
         /\ \A c : Met(walk, c) => Met(walk', c)
         /\ \/ /\ walk'.nodes = walk.nodes
               /\ walk'.said \/ (walk'.seen = walk.seen /\ walk'.said = walk.said)
            \/ \E n \in DOMAIN tree.links :
                 /\ walk'.nodes = walk.nodes \cup {n} /\ walk'.seen = walk.seen \cup {n}
                 /\ walk'.said = walk.said
                 /\ Met(walk', tree.links[n].left) /\ Met(walk', tree.links[n].right)
<1> DEFINE s == walk.stack
           n == s[Len(s)]
           rest == SubSeq(s, 1, Len(s) - 1)
           l == tree.links[n].left
           r == tree.links[n].right
<1>1. /\ s \in Seq(Nat) /\ s # <<>> /\ tree' = tree /\ tree \in Memories
      /\ walk' = tree_step(walk, tree.links)
      /\ walk = [stack |-> s, seen |-> walk.seen, nodes |-> walk.nodes, said |-> walk.said]
  BY Zenon DEF TreeInv, TreeType, TreeStep
<1>2. /\ rest \in Seq(Nat) /\ Len(rest) = Len(s) - 1 /\ n \in Nat /\ Len(s) >= 1 /\ Len(s) \in Nat
      /\ \A i \in 1 .. Len(s) - 1 : rest[i] = s[i]
  BY <1>1, PopLemma
<1>3. \A c : OnStack(walk, c) => c = n \/ \E i \in 1 .. Len(rest) : rest[i] = c
  BY <1>2 DEF OnStack
<1>4. Top(walk) = n /\ Popped(walk) = rest
  BY Zenon DEF Top, Popped
<1> HIDE DEF rest, n
<1>5. CASE n = 0
  <2>1. walk' = [stack |-> rest, seen |-> walk.seen, nodes |-> walk.nodes, said |-> walk.said]
    BY <1>1, <1>4, <1>5, Zenon DEF tree_step
  <2>2. \A c : Met(walk, c) => Met(walk', c)
    BY <2>1, <1>2, <1>3, <1>5, Zenon DEF Met, OnStack
  <2>3. QED
    BY <2>1, <2>2, <1>1, <1>2 DEF TreeType
<1>6. CASE n # 0 /\ n \in walk.seen
  <2>1. walk' = [stack |-> rest, seen |-> walk.seen, nodes |-> walk.nodes, said |-> TRUE]
    BY <1>1, <1>4, <1>6, Zenon DEF tree_step
  <2>2. QED
    BY <2>1, <1>1, <1>2, <1>3, <1>6 DEF TreeType, Met, OnStack
<1>7. CASE n # 0 /\ n \notin walk.seen /\ Cardinality(walk.nodes) >= Limit
  <2>1. walk' = [stack |-> <<>>, seen |-> walk.seen \cup {n}, nodes |-> walk.nodes, said |-> TRUE]
    BY <1>1, <1>4, <1>7, Zenon DEF tree_step
  <2>2. <<>> \in Seq(Nat)
    OBVIOUS
  <2>3. QED
    BY <2>1, <2>2, <1>1 DEF TreeType, Met, OnStack
<1>8. CASE /\ n # 0 /\ n \notin walk.seen /\ ~(Cardinality(walk.nodes) >= Limit)
           /\ n \notin DOMAIN tree.links
  <2>1. walk' = [stack |-> rest, seen |-> walk.seen \cup {n}, nodes |-> walk.nodes, said |-> TRUE]
    BY <1>1, <1>4, <1>8, Zenon DEF tree_step
  <2>2. QED
    BY <2>1, <1>1, <1>2, <1>3 DEF TreeType, Met, OnStack
<1>9. CASE /\ n # 0 /\ n \notin walk.seen /\ ~(Cardinality(walk.nodes) >= Limit)
           /\ n \in DOMAIN tree.links
  <2>1. walk' = [stack |-> rest \o <<r, l>>, seen |-> walk.seen \cup {n},
                 nodes |-> walk.nodes \cup {n}, said |-> walk.said]
    BY <1>1, <1>4, <1>9, Zenon DEF tree_step
  <2>2. l \in Nat /\ r \in Nat
    BY <1>1, <1>9, MemoriesAssumption, Zenon
  <2> HIDE DEF l, r
  <2>3. /\ rest \o <<r, l>> \in Seq(Nat)
        /\ Len(rest \o <<r, l>>) = Len(rest) + 2
        /\ \A i \in 1 .. Len(rest) : (rest \o <<r, l>>)[i] = rest[i]
        /\ (rest \o <<r, l>>)[Len(rest) + 1] = r
        /\ (rest \o <<r, l>>)[Len(rest) + 2] = l
    BY <2>2, <1>2, PushLemma
  <2> DEFINE pushed == rest \o <<r, l>>
  <2> HIDE DEF pushed
  <2>4. walk'.stack = pushed /\ walk'.seen = walk.seen \cup {n}
    BY <2>1, Zenon DEF pushed
  <2>5. \A i \in 1 .. Len(rest) : i \in 1 .. Len(pushed) /\ pushed[i] = rest[i]
    BY <2>3, <1>2, SMTT(30) DEF pushed
  <2>6. /\ Len(rest) + 1 \in 1 .. Len(pushed) /\ pushed[Len(rest) + 1] = r
        /\ Len(rest) + 2 \in 1 .. Len(pushed) /\ pushed[Len(rest) + 2] = l
    BY <2>3, <1>2 DEF pushed
  <2>7. OnStack(walk', l) /\ OnStack(walk', r)
    BY <2>4, <2>6, Zenon DEF OnStack
  <2>8. ASSUME NEW c, OnStack(walk, c) PROVE c = n \/ OnStack(walk', c)
    BY <2>8, <1>3, <2>4, <2>5, Zenon DEF OnStack
  <2>9. \A c : Met(walk, c) => Met(walk', c)
    BY <2>8, <2>1, <2>4, Zenon DEF Met
  <2>10. TreeType'
    BY <2>1, <2>3, <1>1 DEF TreeType
  <2>11. Met(walk', tree.links[n].left) /\ Met(walk', tree.links[n].right)
    BY <2>7, <1>1, Zenon DEF Met, l, r
  <2>12. /\ walk'.nodes = walk.nodes \cup {n} /\ walk'.seen = walk.seen \cup {n}
         /\ walk'.said = walk.said /\ n \in DOMAIN tree.links
    BY <2>1, <1>9, Zenon
  <2>13. QED
    BY <2>12, <2>9, <2>10, <2>11, <1>1, Zenon
<1>10. QED
  BY <1>5, <1>6, <1>7, <1>8, <1>9, Zenon

\* A walk that has only the root before it.
LEMMA TreeInvInitial ==
  ASSUME TreeInit
  PROVE  TreeInv
<1>2. tree.root \in Nat /\ tree \in Memories
  BY MemoriesAssumption, Zenon DEF TreeInit
<1>3. /\ walk = [stack |-> <<tree.root>>, seen |-> {}, nodes |-> {}, said |-> FALSE]
      /\ <<tree.root>> \in Seq(Nat) /\ Len(<<tree.root>>) = 1
  BY <1>2 DEF TreeInit, tree_start
<1>4. OnStack(walk, tree.root)
  BY <1>3 DEF OnStack
<1>5. QED
  BY <1>2, <1>3, <1>4, Zenon DEF TreeInv, TreeType, Met

\* Every turn of a walk.
LEMMA TreeInvInductive ==
  ASSUME TreeInv, [TreeStep]_treeVars
  PROVE  TreeInv'
<1>1. CASE UNCHANGED treeVars
  BY <1>1, Zenon DEF treeVars, TreeInv, TreeType, Met, OnStack
<1>2. CASE TreeStep
  <2>1. /\ tree' = tree /\ TreeType' /\ \A c : Met(walk, c) => Met(walk', c)
    BY <1>2, TurnLemma, Zenon
  <2>2. /\ walk.nodes \subseteq DOMAIN tree.links /\ Met(walk, tree.root)
        /\ \A n \in walk.nodes :
             Met(walk, tree.links[n].left) /\ Met(walk, tree.links[n].right)
        /\ ~walk.said => walk.seen \subseteq walk.nodes
    BY Zenon DEF TreeInv
  <2>3. /\ Met(walk', tree.root)
        /\ \A n \in walk.nodes :
             Met(walk', tree.links[n].left) /\ Met(walk', tree.links[n].right)
    BY <2>1, <2>2, Zenon
  <2>4. CASE /\ walk'.nodes = walk.nodes
             /\ walk'.said \/ (walk'.seen = walk.seen /\ walk'.said = walk.said)
    BY <2>1, <2>2, <2>3, <2>4, Zenon DEF TreeInv
  <2>5. CASE \E n \in DOMAIN tree.links :
               /\ walk'.nodes = walk.nodes \cup {n} /\ walk'.seen = walk.seen \cup {n}
               /\ walk'.said = walk.said
               /\ Met(walk', tree.links[n].left) /\ Met(walk', tree.links[n].right)
    BY <2>1, <2>2, <2>3, <2>5, Zenon DEF TreeInv
  <2>6. QED
    BY <1>2, <2>4, <2>5, TurnLemma, Zenon
<1>3. QED
  BY <1>1, <1>2, Zenon

\* A walk of walk_tree_nodes that leaves no diagnostic took every node that the links lead to
\* from the root, whatever the memory and the limit.
THEOREM TreeWalkClosed == TreeSpec => []SilentWalkIsClosed
<1>1. TreeInit => TreeInv
  BY TreeInvInitial, Zenon
<1>2. TreeInv /\ [TreeStep]_treeVars => TreeInv'
  BY TreeInvInductive, Zenon
<1>3. TreeInv => SilentWalkIsClosed
  <2>1. SUFFICES ASSUME TreeInv, walk.stack = <<>>, ~walk.said
                 PROVE  /\ walk.nodes \subseteq DOMAIN tree.links
                        /\ ClosedUnderLinks(walk.nodes \cup {0})
    BY Zenon DEF SilentWalkIsClosed
  <2>2. \A c : ~OnStack(walk, c)
    BY <2>1 DEF OnStack
  <2>3. \A c : Met(walk, c) => c \in walk.nodes \cup {0}
    BY <2>1, <2>2, Zenon DEF Met, TreeInv
  <2>4. \A n \in walk.nodes : Children(n) \subseteq walk.nodes \cup {0}
    BY <2>1, <2>3, Zenon DEF TreeInv, Children
  <2>5. 0 \notin DOMAIN tree.links
    BY <2>1, MemoriesAssumption, Zenon DEF TreeInv, TreeType
  <2>6. QED
    BY <2>1, <2>3, <2>4, <2>5, Zenon DEF TreeInv, ClosedUnderLinks
<1>4. QED
  BY <1>1, <1>2, <1>3, PTL DEF TreeSpec

-----------------------------------------------------------------------------
\* What the walk took, and what it still has on its stack, is in every set that holds the
\* root and is closed under the links.
Reached(w, S) == w.nodes \subseteq S /\ \A c : OnStack(w, c) => c \in S
ReachedInv == TreeInv /\ \A S \in SUBSET Universe : ClosedUnderLinks(S) => Reached(walk, S)

\* A turn stays within any set that holds the root and follows the links.
LEMMA ReachedStep ==
  ASSUME TreeInv, TreeStep, NEW S, ClosedUnderLinks(S), Reached(walk, S)
  PROVE  Reached(walk', S)
<1> DEFINE s == walk.stack
           n == s[Len(s)]
           rest == SubSeq(s, 1, Len(s) - 1)
<1>1. /\ s \in Seq(Nat) /\ s # <<>> /\ tree \in Memories
      /\ walk' = tree_step(walk, tree.links)
      /\ walk = [stack |-> s, seen |-> walk.seen, nodes |-> walk.nodes, said |-> walk.said]
  BY Zenon DEF TreeInv, TreeType, TreeStep
<1>2. /\ rest \in Seq(Nat) /\ Len(rest) = Len(s) - 1 /\ n \in Nat /\ Len(s) >= 1 /\ Len(s) \in Nat
      /\ \A i \in 1 .. Len(s) - 1 : rest[i] = s[i]
  BY <1>1, PopLemma
<1>3. n \in S /\ \A i \in 1 .. Len(rest) : rest[i] \in S
  <2>1. \A i \in 1 .. Len(s) : s[i] \in S
    BY Zenon DEF Reached, OnStack
  <2>2. Len(s) \in 1 .. Len(s) /\ \A i \in 1 .. Len(rest) : i \in 1 .. Len(s) /\ rest[i] = s[i]
    BY <1>2
  <2>3. QED
    BY <2>1, <2>2, Zenon
<1>4. Top(walk) = n /\ Popped(walk) = rest
  BY Zenon DEF Top, Popped
<1> HIDE DEF rest, n
<1>5. CASE walk'.stack = rest /\ walk'.nodes = walk.nodes
  BY <1>3, <1>5, Zenon DEF Reached, OnStack
<1>6. CASE walk'.stack = <<>> /\ walk'.nodes = walk.nodes
  BY <1>6 DEF Reached, OnStack
<1>7. CASE /\ n \in DOMAIN tree.links /\ walk'.nodes = walk.nodes \cup {n}
           /\ walk'.stack = rest \o <<tree.links[n].right, tree.links[n].left>>
  <2> DEFINE l == tree.links[n].left
             r == tree.links[n].right
             pushed == rest \o <<r, l>>
  <2>1. l \in S /\ r \in S /\ l \in Nat /\ r \in Nat
    BY <1>1, <1>3, <1>7, MemoriesAssumption, Zenon DEF ClosedUnderLinks, Children
  <2> HIDE DEF l, r
  <2>2. /\ Len(pushed) = Len(rest) + 2 /\ Len(rest) \in Nat
        /\ \A i \in 1 .. Len(rest) : pushed[i] = rest[i]
        /\ pushed[Len(rest) + 1] = r /\ pushed[Len(rest) + 2] = l
    <3>1. /\ Len(pushed) = Len(rest) + 2
          /\ \A i \in 1 .. Len(rest) : pushed[i] = rest[i]
          /\ pushed[Len(rest) + 1] = r /\ pushed[Len(rest) + 2] = l
      <4>1. rest \in Seq(Nat) /\ r \in Nat /\ l \in Nat
        BY <1>2, <2>1, Zenon
      <4> QED BY <4>1, PushLemma
    <3>2. Len(rest) \in Nat
      BY <1>2
    <3> QED BY <3>1, <3>2, Zenon
  <2> HIDE DEF pushed
  <2>3. \A i \in 1 .. Len(pushed) :
          i \in 1 .. Len(rest) \/ i = Len(rest) + 1 \/ i = Len(rest) + 2
    BY <2>2
  <2>4. \A i \in 1 .. Len(pushed) : pushed[i] \in S
    BY <2>1, <2>2, <2>3, <1>3, Zenon
  <2>5. walk'.stack = pushed
    BY <1>7, Zenon DEF pushed, l, r
  <2>6. QED
    BY <2>4, <2>5, <1>3, <1>7, Zenon DEF Reached, OnStack
<1>8. QED
  BY <1>1, <1>4, <1>5, <1>6, <1>7, SMTT(30) DEF tree_step

\* Whatever memory it is pointed at, walk_tree_nodes takes only nodes that the links lead to.
THEOREM TreeWalkReached == TreeSpec => []NodesReached
<1>1. TreeInit => ReachedInv
  <2>1. SUFFICES ASSUME TreeInit PROVE ReachedInv
    BY Zenon
  <2>2. tree.root \in Nat
    BY <2>1, MemoriesAssumption, Zenon DEF TreeInit
  <2>3. walk = [stack |-> <<tree.root>>, seen |-> {}, nodes |-> {}, said |-> FALSE]
    BY <2>1, Zenon DEF TreeInit, tree_start
  <2>4. \A c : OnStack(walk, c) => c = tree.root
    BY <2>2, <2>3 DEF OnStack
  <2>5. QED
    BY <2>1, <2>3, <2>4, TreeInvInitial, Zenon DEF ReachedInv, Reached, ClosedUnderLinks
<1>2. ReachedInv /\ [TreeStep]_treeVars => ReachedInv'
  <2>1. SUFFICES ASSUME ReachedInv, [TreeStep]_treeVars PROVE ReachedInv'
    BY Zenon
  <2>2. TreeInv'
    BY <2>1, TreeInvInductive, Zenon DEF ReachedInv
  <2>3. CASE UNCHANGED treeVars
    BY <2>1, <2>2, <2>3 DEF treeVars, ReachedInv, Reached, OnStack, Universe, ClosedUnderLinks,
                            Children
  <2>4. CASE TreeStep
    <3>1. tree' = tree
      BY <2>4, Zenon DEF TreeStep
    <3>2. Universe' = Universe /\ \A S : ClosedUnderLinks(S)' = ClosedUnderLinks(S)
      BY <3>1 DEF Universe, ClosedUnderLinks, Children
    <3>3. \A S \in SUBSET Universe : ClosedUnderLinks(S) => Reached(walk', S)
      BY <2>1, <2>4, ReachedStep, Zenon DEF ReachedInv
    <3>4. QED
      BY <2>2, <3>2, <3>3, Zenon DEF ReachedInv
  <2>5. QED
    BY <2>1, <2>3, <2>4, Zenon
<1>3. ReachedInv => NodesReached
  BY Zenon DEF ReachedInv, Reached, NodesReached
<1>4. QED
  BY <1>1, <1>2, <1>3, PTL DEF TreeSpec

\* A walk takes only nodes the links lead to from the root, and one that says nothing has taken
\* all of them, for every memory and every traversal limit (walk_tree_nodes).
THEOREM TreeWalkExact == TreeSpec => []WalkIsTheTree
<1>1. SilentWalkIsClosed /\ NodesReached => WalkIsTheTree
  BY Zenon DEF WalkIsTheTree
<1> QED
  BY <1>1, TreeWalkClosed, TreeWalkReached, PTL

-----------------------------------------------------------------------------
(***************************************************************************)
(* A lookup in the big-page table is exact for every size of the table,    *)
(* every hash and every history of additions and frees.                    *)
(***************************************************************************)

EntryType == [va : Addresses \cup {Never}, live : BOOLEAN, tag : Tags \cup {0}]

TableType ==
  /\ table \in [Slots -> EntryType]
  /\ \A s \in Slots : table[s].live => table[s].va # Never /\ table[s].tag \in Tags

\* Every live entry can be probed for: no slot between its hash and it is unclaimed.  And an
\* address has one live entry at most.
Placed(s) ==
  \E k \in Slots : /\ s = Probe(table[s].va, k)
                   /\ \A j \in 0 .. k - 1 : table[Probe(table[s].va, j)].va # Never

PlacedInv ==
  /\ TableType
  /\ \A s \in Slots : table[s].live => Placed(s)

\* A lookup stands where its probes have brought it, and has not passed its entry by.
LookupInv ==
  lookup.of # Never =>
    /\ stopped
    /\ lookup.of \in Addresses
    /\ lookup.probes \in 0 .. Count
    /\ lookup.index = Wrap(Hash[lookup.of] + lookup.probes)
    /\ \A j \in 0 .. lookup.probes - 1 :
         LET e == table[Probe(lookup.of, j)] IN ~(e.live /\ e.va = lookup.of)
    /\ lookup.result # NoTag => \E s \in Live(lookup.of) : table[s].tag = lookup.result

LookupRecord ==
  lookup = [of |-> lookup.of, index |-> lookup.index, probes |-> lookup.probes,
            result |-> lookup.result]

BigInv == PlacedInv /\ LookupRecord /\ LookupInv

\* Probing stays inside the table and, over a turn, meets every slot once.
LEMMA ProbeInside ==
  ASSUME NEW a \in Addresses, NEW k \in 0 .. Count
  PROVE  Wrap(Hash[a] + k) \in Slots
BY TableAssumption DEF Wrap, Slots

\* The slot after a probe is the next probe.
LEMMA NextProbe ==
  ASSUME NEW a \in Addresses, NEW k \in 0 .. Count - 1
  PROVE  Wrap(Wrap(Hash[a] + k) + 1) = Wrap(Hash[a] + (k + 1))
BY TableAssumption DEF Wrap, Slots

\* As many probes as there are slots are all different.
LEMMA ProbeDistinct ==
  ASSUME NEW a \in Addresses, NEW j \in Slots, NEW k \in Slots, Probe(a, j) = Probe(a, k)
  PROVE  j = k
BY TableAssumption DEF Wrap, Slots, Probe

\* What claims a slot or frees one keeps every live entry within reach of its hash.
LEMMA AddPlaces ==
  ASSUME PlacedInv, NEW a \in Addresses, NEW tag \in Tags, Add(a, tag)
  PROVE  PlacedInv'
<1>1. PICK k \in Slots :
        /\ Claimable(Probe(a, k))
        /\ \A j \in 0 .. k - 1 : ~Claimable(Probe(a, j))
        /\ table' = [table EXCEPT ![Probe(a, k)] = [va |-> a, live |-> TRUE, tag |-> tag]]
  BY Zenon DEF Add
<1> DEFINE p == Probe(a, k)
<1>2. p \in Slots /\ table \in [Slots -> EntryType]
  <2>1. k \in 0 .. Count
    BY TableAssumption DEF Slots
  <2>2. p \in Slots
    BY <2>1, ProbeInside, Zenon DEF Probe
  <2>3. QED
    BY <2>2, Zenon DEF PlacedInv, TableType
<1>3. /\ table'[p] = [va |-> a, live |-> TRUE, tag |-> tag]
      /\ \A s \in Slots : s # p => table'[s] = table[s]
  BY <1>1, <1>2, Zenon
<1>4. [va |-> a, live |-> TRUE, tag |-> tag] \in EntryType
  BY Zenon DEF EntryType
<1>5. table' \in [Slots -> EntryType]
  <2> HIDE DEF p
  <2>1. table' = [table EXCEPT ![p] = [va |-> a, live |-> TRUE, tag |-> tag]]
    BY <1>1, Zenon DEF p
  <2> DEFINE e == [va |-> a, live |-> TRUE, tag |-> tag]
  <2> HIDE DEF e
  <2>2. QED
    BY <1>2, <1>4, <2>1, Zenon DEF e
<1>6. a # Never
  BY NeverAssumption, Zenon
<1> HIDE DEF p
<1>7. TableType'
  <2>1. ASSUME NEW s \in Slots, table'[s].live
        PROVE  table'[s].va # Never /\ table'[s].tag \in Tags
    BY <1>3, <1>6, <2>1 DEF PlacedInv, TableType
  <2>2. QED
    BY <1>5, <2>1, Zenon DEF TableType
<1>8. \A s \in Slots : table[s].va # Never => table'[s].va # Never
  BY <1>3, <1>6
<1>9. ASSUME NEW s \in Slots, table'[s].live PROVE Placed(s)'
  <2>1. CASE s = p
    <3>1. \A j \in 0 .. k - 1 : Probe(a, j) \in Slots /\ table[Probe(a, j)].va # Never
      <4>1. SUFFICES ASSUME NEW j \in 0 .. k - 1
                     PROVE  Probe(a, j) \in Slots /\ table[Probe(a, j)].va # Never
        BY Zenon
      <4>2. j \in 0 .. Count
        BY TableAssumption DEF Slots
      <4>3. Probe(a, j) \in Slots
        BY <4>2, ProbeInside, Zenon DEF Probe
      <4>4. QED
        BY <4>3, <1>1, Zenon DEF Claimable, PlacedInv, TableType
    <3>2. table'[s].va = a /\ s = Probe(a, k)
      BY <2>1, <1>3 DEF p
    <3>3. \A j \in 0 .. k - 1 : table'[Probe(a, j)].va # Never
      BY <3>1, <1>8, SMTT(30)
    <3>4. QED
      BY <3>2, <3>3, Zenon DEF Placed, Probe
  <2>2. CASE s # p
    <3>1. table[s].live /\ table'[s] = table[s]
      BY <2>2, <1>3, <1>9, Zenon
    <3>2. Placed(s) /\ table[s].va \in Addresses
      BY <3>1, <1>2, Zenon DEF PlacedInv, TableType, EntryType
    <3>3. PICK m \in Slots :
            /\ s = Probe(table[s].va, m)
            /\ \A j \in 0 .. m - 1 : table[Probe(table[s].va, j)].va # Never
      BY <3>2, Zenon DEF Placed
    <3>4. \A j \in 0 .. m - 1 : Probe(table[s].va, j) \in Slots
      <4>1. \A j \in 0 .. m - 1 : j \in 0 .. Count
        BY TableAssumption DEF Slots
      <4>2. QED
        BY <3>2, <4>1, ProbeInside, Zenon DEF Probe
    <3>5. \A j \in 0 .. m - 1 : table'[Probe(table[s].va, j)].va # Never
      BY <3>3, <3>4, <1>8, Zenon
    <3>6. QED
      BY <3>1, <3>3, <3>5, Zenon DEF Placed, Probe
  <2>3. QED
    BY <2>1, <2>2, Zenon
<1>10. QED
  BY <1>7, <1>9, Zenon DEF PlacedInv

\* Freeing a slot moves no entry.
LEMMA RemovePlaces ==
  ASSUME PlacedInv, NEW a \in Addresses, RemoveTag(a)
  PROVE  PlacedInv'
<1>1. PICK p \in Live(a) : table' = [table EXCEPT ![p] = [@ EXCEPT !.live = FALSE]]
  BY Zenon DEF RemoveTag
<1>2. p \in Slots /\ table \in [Slots -> EntryType] /\ table[p] \in EntryType
  BY <1>1, Zenon DEF Live, PlacedInv, TableType
<1>3. /\ table'[p] = [table[p] EXCEPT !.live = FALSE]
      /\ \A s \in Slots : s # p => table'[s] = table[s]
  BY <1>1, <1>2, Zenon
<1>4. [table[p] EXCEPT !.live = FALSE] \in EntryType
  BY <1>2, Zenon DEF EntryType
<1>5. table' \in [Slots -> EntryType]
  <2> DEFINE e == [table[p] EXCEPT !.live = FALSE]
  <2>1. table' = [table EXCEPT ![p] = e] /\ e \in EntryType
    BY <1>1, <1>2, <1>4, Zenon
  <2> HIDE DEF e
  <2>2. QED
    BY <1>2, <2>1, Zenon
<1>6. \A s \in Slots : table'[s].va = table[s].va /\ table'[s].tag = table[s].tag
  BY <1>2, <1>3, Zenon DEF EntryType
<1>7. \A s \in Slots : table'[s].live => table[s].live
  BY <1>2, <1>3, Zenon DEF EntryType
<1>8. TableType'
  BY <1>5, <1>6, <1>7, SMTT(30) DEF PlacedInv, TableType
<1>9. ASSUME NEW s \in Slots, table'[s].live PROVE Placed(s)'
  <2>1. table[s].live /\ Placed(s) /\ table[s].va \in Addresses
    BY <1>7, <1>9, <1>2, Zenon DEF PlacedInv, TableType, EntryType
  <2>2. PICK m \in Slots :
          /\ s = Probe(table[s].va, m)
          /\ \A j \in 0 .. m - 1 : table[Probe(table[s].va, j)].va # Never
    BY <2>1, Zenon DEF Placed
  <2>3. \A j \in 0 .. m - 1 : Probe(table[s].va, j) \in Slots
    <3>1. \A j \in 0 .. m - 1 : j \in 0 .. Count
      BY TableAssumption DEF Slots
    <3>2. QED
      BY <2>1, <3>1, ProbeInside, Zenon DEF Probe
  <2>4. \A j \in 0 .. m - 1 : table'[Probe(table[s].va, j)].va # Never
    BY <2>2, <2>3, <1>6, SMTT(30)
  <2>5. QED
    BY <2>2, <2>4, <1>6, Zenon DEF Placed, Probe
<1>10. QED
  BY <1>8, <1>9, Zenon DEF PlacedInv

\* A step of the walk moves on only past an entry that is not the one it looks for.
LEMMA LookupAdvances ==
  ASSUME BigInv, Advance
  PROVE  LookupInv'
<1> DEFINE a == lookup.of
           k == lookup.probes
<1>1. /\ lookup.of # Never /\ lookup.probes < Count /\ lookup.result = NoTag
      /\ ~(table[lookup.index].live /\ table[lookup.index].va = a)
      /\ table' = table /\ stopped' = stopped
      /\ lookup' = [lookup EXCEPT !.index = Wrap(lookup.index + 1), !.probes = @ + 1]
  BY Zenon DEF Advance, AtHand, Looking, found, Entry
<1>2. /\ stopped /\ a \in Addresses /\ k \in 0 .. Count
      /\ lookup.index = Wrap(Hash[a] + k)
      /\ \A j \in 0 .. k - 1 :
           ~(table[Probe(a, j)].live /\ table[Probe(a, j)].va = a)
  BY <1>1, Zenon DEF BigInv, LookupInv
<1>3. PICK l : l = lookup'
  BY Zenon
<1>4. /\ l.of = a /\ l.index = Wrap(lookup.index + 1) /\ l.probes = k + 1 /\ l.result = NoTag
  BY <1>1, <1>3, Zenon DEF BigInv, LookupRecord
<1>5. k \in 0 .. Count - 1 /\ k + 1 \in 0 .. Count
  BY <1>1, <1>2, TableAssumption
<1>6. l.index = Wrap(Hash[a] + (k + 1))
  BY <1>2, <1>4, <1>5, NextProbe, SMTT(30)
<1>7. \A j \in 0 .. (k + 1) - 1 : ~(table[Probe(a, j)].live /\ table[Probe(a, j)].va = a)
  <2>1. \A j \in 0 .. (k + 1) - 1 : j \in 0 .. k - 1 \/ j = k
    BY <1>5
  <2>2. QED
    BY <2>1, <1>1, <1>2, Zenon DEF Probe
<1>8. QED
  BY <1>1, <1>2, <1>3, <1>4, <1>5, <1>6, <1>7, Zenon DEF LookupInv, Probe, Live

\* The rest of the steps leave the table alone, and either leave the lookup alone, begin or
\* end one, or take the tag of the entry they stand at.
LEMMA BigInvInductive ==
  ASSUME BigInv, [TableNext]_tableVars
  PROVE  BigInv'
<1>1. CASE UNCHANGED <<table, stopped, lookup>>
  BY <1>1, Zenon DEF BigInv, PlacedInv, TableType, Placed, LookupRecord, LookupInv, Live
<1>2. CASE \E a \in Addresses : (\E tag \in Tags : Add(a, tag)) \/ RemoveTag(a)
  <2>1. lookup' = lookup /\ ~stopped /\ lookup.of = Never
    BY <1>2, Zenon DEF Add, RemoveTag, BigInv, LookupInv
  <2>2. PlacedInv'
    BY <1>2, AddPlaces, RemovePlaces, Zenon DEF BigInv
  <2>3. QED
    BY <2>1, <2>2, Zenon DEF BigInv, LookupRecord, LookupInv
<1>3. CASE Stop
  <2>1. lookup' = lookup /\ lookup.of = Never /\ table' = table
    BY <1>3, Zenon DEF Stop, BigInv, LookupInv
  <2>2. QED
    BY <2>1, SMTT(30) DEF BigInv, PlacedInv, TableType, Placed, LookupRecord, LookupInv
<1>4. CASE \E a \in Addresses : Begin(a)
  <2>1. PICK a \in Addresses : Begin(a)
    BY <1>4, Zenon
  <2>2. /\ stopped /\ stopped' = stopped /\ table' = table
        /\ lookup' = [of |-> a, index |-> Hash[a], probes |-> 0, result |-> NoTag]
    BY <2>1, Zenon DEF Begin
  <2>3. Hash[a] = Wrap(Hash[a] + 0) /\ 0 \in 0 .. Count
    BY TableAssumption, SMTT(30) DEF Wrap
  <2>4. LookupInv' /\ LookupRecord'
    <3>1. /\ lookup'.of = a /\ lookup'.index = Hash[a] /\ lookup'.probes = 0 /\ lookup'.result = NoTag
          /\ lookup' = [of |-> lookup'.of, index |-> lookup'.index, probes |-> lookup'.probes, result |-> lookup'.result]
      BY <2>2, Zenon
    <3>2. 0 .. 0 - 1 = {}
      OBVIOUS
    <3>3. LookupRecord'
      BY <3>1, Zenon DEF LookupRecord
    <3> QED  BY <2>2, <2>3, <3>1, <3>2, <3>3, Zenon DEF LookupInv
  <2>5. QED
    BY <2>2, <2>4, Zenon DEF BigInv, PlacedInv, TableType, Placed
<1>5. CASE End
  BY <1>5, Zenon DEF End, Idle, BigInv, PlacedInv, TableType, Placed, LookupRecord, LookupInv
<1>6. CASE Advance
  <2>1. LookupInv'
    BY <1>6, LookupAdvances, Zenon
  <2>2. table' = table /\ LookupRecord'
    BY <1>6, Zenon DEF Advance, BigInv, LookupRecord
  <2>3. QED
    BY <2>1, <2>2, Zenon DEF BigInv, PlacedInv, TableType, Placed
<1>7. CASE Match
  <2>1. /\ table' = table /\ stopped' = stopped /\ lookup.of # Never /\ lookup.probes < Count
        /\ table[lookup.index].live /\ table[lookup.index].va = lookup.of
        /\ lookup' = [lookup EXCEPT !.result = table[lookup.index].tag]
    BY <1>7, Zenon DEF Match, AtHand, Looking, found, Entry
  <2>2. lookup.index \in Slots
    BY <2>1, ProbeInside, Zenon DEF BigInv, LookupInv
  <2>3. lookup.index \in Live(lookup.of)
    BY <2>1, <2>2, Zenon DEF Live
  <2>4. PICK l : l = lookup'
    BY Zenon
  <2>5. /\ l.of = lookup.of /\ l.index = lookup.index /\ l.probes = lookup.probes
        /\ l.result = table[lookup.index].tag
        /\ l = [of |-> l.of, index |-> l.index, probes |-> l.probes, result |-> l.result]
    BY <2>1, <2>4, Zenon DEF BigInv, LookupRecord
  <2>6. LookupInv'
    BY <2>1, <2>3, <2>4, <2>5, SMTT(30) DEF BigInv, LookupInv, Live
  <2>7. QED
    BY <2>1, <2>4, <2>5, <2>6 DEF BigInv, PlacedInv, TableType, Placed, LookupRecord
<1>8. QED
  BY <1>1, <1>2, <1>3, <1>4, <1>5, <1>6, <1>7, SMTT(30) DEF TableNext, tableVars, Fetch

\* BigPageTable::lookup answers with the live entry of the address and never misses one, for
\* every size of the table, every hash and every history of the kernel's additions and frees.
THEOREM BigPageLookupExact == TableSpec => []LookupExact
<1>1. TableInit => BigInv
  <2>1. SUFFICES ASSUME TableInit PROVE BigInv
    BY Zenon
  <2>2. Unclaimed \in EntryType
    BY Zenon DEF Unclaimed, EntryType
  <2>3. table \in [Slots -> EntryType] /\ \A s \in Slots : ~table[s].live
    BY <2>1, <2>2, SMTT(30) DEF TableInit, Unclaimed
  <2>4. QED
    BY <2>1, <2>3, Zenon DEF TableInit, Idle, BigInv, PlacedInv, TableType, LookupRecord, LookupInv
<1>2. BigInv /\ [TableNext]_tableVars => BigInv'
  BY BigInvInductive, Zenon
<1>3. BigInv => LookupExact
  <2>1. SUFFICES ASSUME BigInv, lookup.of # Never PROVE LookupExact
    BY SMTT(30) DEF LookupExact, AnswersNone, Looking
  <2> DEFINE a == lookup.of
             k == lookup.probes
  <2>2. /\ a \in Addresses /\ k \in 0 .. Count /\ lookup.index = Probe(a, k)
        /\ \A j \in 0 .. k - 1 : ~(table[Probe(a, j)].live /\ table[Probe(a, j)].va = a)
        /\ lookup.result # NoTag => \E s \in Live(lookup.of) : table[s].tag = lookup.result
    BY <2>1, Zenon DEF BigInv, LookupInv, Probe
  <2>3. ASSUME NEW s \in Live(a), k >= Count \/ table[lookup.index].va = Never
        PROVE  FALSE
    <3>1. PICK m \in Slots : /\ s = Probe(a, m)
                             /\ \A j \in 0 .. m - 1 : table[Probe(a, j)].va # Never
      BY <2>1, Zenon DEF BigInv, PlacedInv, Placed, Live
    <3>2. table[Probe(a, m)].live /\ table[Probe(a, m)].va = a
      BY <3>1, Zenon DEF Live
    <3>3. ~(m \in 0 .. k - 1)
      BY <2>2, <3>2, Zenon
    <3>4. m >= k /\ m < Count /\ k \in Nat /\ m \in Nat
      BY <3>3, <2>2, TableAssumption DEF Slots
    <3>5. CASE m = k
      <4>1. table[lookup.index].va = a
        BY <2>2, <3>2, <3>5, Zenon
      <4>2. QED
        BY <4>1, <3>4, <3>5, <2>3, <2>1, TableAssumption, SMTT(30)
    <3>6. CASE m > k
      <4>1. k \in 0 .. m - 1
        BY <3>4, <3>6
      <4>2. table[lookup.index].va # Never
        BY <4>1, <3>1, <2>2, Zenon
      <4>3. QED
        BY <4>2, <3>4, <3>6, <2>3, TableAssumption
    <3>7. QED
      BY <3>4, <3>5, <3>6
  <2>4. QED
    BY <2>2, <2>3, Zenon DEF LookupExact, AnswersNone, AtHand, chain_ends, Entry, Looking
<1>4. QED
  BY <1>1, <1>2, <1>3, PTL DEF TableSpec

--------------------------------------------------------------------------------
(* Events and stacks. *)

Rungs == 1 .. Len(STORED_CONTEXT_SIZES)

\* An exception event wrote no more than a record.
Bounded(e) == e.count \in Nat /\ (e.kind = EXCEPTION => e.used \in 0 .. RecordSize)

\* The open target is one there is, and its last event is bounded.
Opened(s) ==
  /\ DOMAIN s = {"dump", "id", "last", "selected"}
  /\ s.dump \in Dumps /\ s.id \in Nat \ {0} /\ Bounded(s.last)

\* A context held is of a target opened before, or of the open one and then of its stored event.
Held(c, s) ==
  /\ c.target \in Nat /\ c.target <= s.id
  /\ c.target = s.id => c.thread = s.dump.stored.thread

\* The question in progress: nothing is answered while the ladder is climbed.
Climbing(q, r) ==
  \/ q = Quiet
  \/ /\ q.pc = "stored" /\ DOMAIN q = {"pc", "rung", "refused"}
     /\ q.rung \in Rungs
     /\ r = NoReply

\* What an answer may say of the session s to a caller that holds the context c.
Honest(r, s, c) ==
  /\ r.kind = "event" =>
       /\ r.context.len > 0 => \/ r.context.len = s.dump.size
                               \/ s.dump.size > STORED_CONTEXT_SIZES[Len(STORED_CONTEXT_SIZES)]
       /\ r.record # <<>> => /\ r.event.kind = EXCEPTION /\ r.event.used = RecordSize
                             /\ r.record[1].parameters <= MaxParameters
                             /\ r.record[1].parameters <= r.event.count
  /\ r.kind = "frames" /\ r.of = "context" =>
       \A k \in DOMAIN r.frames :
         r.frames[k].target = c.target /\ r.frames[k].thread = s.dump.stored.thread
  /\ r.kind = "no bug check" => s.dump.kernel /\ s.dump.code = 0
  /\ r.kind = "no stored event" => s.dump.stored = NoEvent

EventInv ==
  /\ Opened(opened) /\ Held(carried, opened) /\ Climbing(asking, reply)
  /\ Honest(reply, opened, carried)

\* An answer that is neither an event, nor frames, nor that there is none, says nothing.
LEMMA PlainHonest ==
  ASSUME NEW r, NEW s, NEW c, r.kind \notin {"event", "frames", "no bug check", "no stored event"}
  PROVE  Honest(r, s, c)
BY Zenon DEF Honest

\* An event is told with a record only when its kind is an exception that wrote a whole one.
LEMMA EventHonest ==
  ASSUME NEW e, Bounded(e), NEW x, NEW s, NEW c,
         x.len > 0 => \/ x.len = s.dump.size
                      \/ s.dump.size > STORED_CONTEXT_SIZES[Len(STORED_CONTEXT_SIZES)]
  PROVE  Honest(DebugEvent(e, x), s, c)
<1> DEFINE r == DebugEvent(e, x)
<1>1. /\ r.kind = "event" /\ r.event = e /\ r.context = x
      /\ r.record = IF exception(e) THEN <<from_raw(e)>> ELSE <<>>
  BY Zenon DEF DebugEvent
<1> HIDE DEF r
<1>2. ASSUME r.record # <<>>
      PROVE  /\ e.kind = EXCEPTION /\ e.used = RecordSize
             /\ r.record[1].parameters <= MaxParameters /\ r.record[1].parameters <= e.count
  <2>1. exception(e) /\ r.record = <<from_raw(e)>>
    BY <1>1, <1>2, Zenon
  <2>2. e.kind = EXCEPTION /\ e.used = RecordSize
    BY <2>1, EventAssumption DEF exception, Bounded
  <2>3. r.record[1] = from_raw(e)
    BY <2>1
  <2>4. from_raw(e).parameters = IF e.count < MaxParameters THEN e.count ELSE MaxParameters
    BY Zenon DEF from_raw
  <2>5. e.count \in Nat /\ MaxParameters \in Nat
    BY EventAssumption, Zenon DEF Bounded
  <2> QED BY <2>2, <2>3, <2>4, <2>5
<1>3. r.kind \notin {"frames", "no bug check", "no stored event"}
  BY <1>1, Zenon
<1>4. Honest(r, s, c)
  BY <1>1, <1>2, <1>3, Zenon DEF Honest
<1> QED BY <1>4, Zenon DEF r

\* A stack walked from the held context is of its target and thread.
LEMMA FramesHonest ==
  ASSUME NEW s, NEW c, c.target = s.id, c.thread = s.dump.stored.thread,
         NEW n, NEW r, r.kind = "frames", r.frames = Frames(s.id, c.thread, n)
  PROVE  Honest(r, s, c)
<1>1. r.kind \notin {"event", "no bug check", "no stored event"}
  BY Zenon
<1>2. ASSUME NEW k \in DOMAIN r.frames
      PROVE  r.frames[k].target = c.target /\ r.frames[k].thread = s.dump.stored.thread
  <2>1. r.frames[k] = [target |-> s.id, thread |-> c.thread, index |-> k - 1]
    BY <1>2, Zenon DEF Frames
  <2> QED BY <2>1
<1> QED BY <1>1, <1>2, Zenon DEF Honest

\* Before anything is asked of the target first opened.
LEMMA EventInitial == EventInit => EventInv
<1> SUFFICES ASSUME NEW d \in Dumps,
                    opened = [dump |-> d, id |-> 1, last |-> NoEvent, selected |-> 1],
                    asking = Quiet, reply = NoReply, carried = NoContext
             PROVE  EventInv
  BY Zenon DEF EventInit
<1>1. Bounded(NoEvent)
  BY EventAssumption DEF Bounded, NoEvent, EXCEPTION
<1>2. Opened(opened)
  <2>1. 1 \in Nat \ {0}
    OBVIOUS
  <2>2. opened.dump = d /\ opened.id = 1 /\ opened.last = NoEvent
    BY Zenon
  <2>3. DOMAIN opened = {"dump", "id", "last", "selected"}
    BY Zenon
  <2> QED BY <1>1, <2>1, <2>2, <2>3, Zenon DEF Opened
<1>3. Held(carried, opened)
  BY DEF Held, NoContext
<1>4. Honest(reply, opened, carried)
  <2>1. reply.kind \notin {"event", "frames", "no bug check", "no stored event"}
    BY Zenon DEF NoReply
  <2> QED BY <2>1, PlainHonest, Zenon
<1> QED BY <1>2, <1>3, <1>4, Zenon DEF EventInv, Climbing

\* Every step of the session and of a question.
LEMMA EventStep ==
  ASSUME EventInv, EventNext
  PROVE  EventInv'
<1>0. /\ Opened(opened) /\ Held(carried, opened) /\ Climbing(asking, reply)
      /\ Honest(reply, opened, carried)
  BY Zenon DEF EventInv
<1>1. ASSUME Resting PROVE asking = Quiet /\ asking.pc # "stored"
  BY <1>0, <1>1, Zenon DEF Resting, Climbing, Quiet
<1>2. Honest(NoReply, opened', carried')
  BY PlainHonest, Zenon DEF NoReply
<1>3. ASSUME Moves, asking' = asking, carried' = carried, Opened(opened'), Held(carried, opened')
      PROVE  EventInv'
  <2>1. asking = Quiet /\ asking.pc # "stored" /\ reply' = NoReply
    BY <1>1, <1>3, Zenon DEF Moves
  <2> QED BY <1>2, <1>3, <2>1, Zenon DEF EventInv, Climbing
<1>4. ASSUME Asks, asking' = asking, carried' = carried, Honest(reply', opened, carried)
      PROVE  EventInv'
  <2>1. asking = Quiet /\ asking.pc # "stored" /\ opened' = opened
    BY <1>1, <1>4, Zenon DEF Asks
  <2> QED BY <1>0, <1>4, <2>1, Zenon DEF EventInv, Climbing
<1>d. ASSUME NEW d \in Dumps PROVE Bounded(d.stored) /\ d.size \in Nat
  BY <1>d, EventAssumption, Zenon DEF Bounded
<1>5. CASE Pump
  <2>1. PICK e \in {opened.dump.stored, [kind |-> 1, used |-> 1, count |-> 0, thread |-> 2]} :
          opened' = [opened EXCEPT !.last = e, !.selected = e.thread]
    BY <1>5, Zenon DEF Pump
  <2>2. Moves /\ asking' = asking /\ carried' = carried
    BY <1>5, Zenon DEF Pump
  <2>3. Bounded([kind |-> 1, used |-> 1, count |-> 0, thread |-> 2])
    BY DEF Bounded, EXCEPTION
  <2>4. Bounded(e)
    BY <1>0, <1>d, <2>3, Zenon DEF Opened
  <2>5. /\ DOMAIN opened' = {"dump", "id", "last", "selected"}
        /\ opened'.dump = opened.dump /\ opened'.id = opened.id /\ opened'.last = e
    BY <1>0, <2>1, Zenon DEF Opened
  <2> QED BY <1>0, <1>3, <2>2, <2>4, <2>5, Zenon DEF Opened, Held
<1>6. CASE SelectThread
  <2>1. PICK t \in {1, 2} : opened' = [opened EXCEPT !.selected = t]
    BY <1>6, Zenon DEF SelectThread
  <2>2. Moves /\ asking' = asking /\ carried' = carried
    BY <1>6, Zenon DEF SelectThread
  <2>3. /\ DOMAIN opened' = {"dump", "id", "last", "selected"}
        /\ opened'.dump = opened.dump /\ opened'.id = opened.id /\ opened'.last = opened.last
    BY <1>0, <2>1, Zenon DEF Opened
  <2> QED BY <1>0, <1>3, <2>2, <2>3, Zenon DEF Opened, Held
<1>7. CASE Reopen
  <2>1. PICK d \in Dumps :
          opened' = [dump |-> d, id |-> opened.id + 1, last |-> NoEvent, selected |-> 1]
    BY <1>7, Zenon DEF Reopen
  <2>2. Moves /\ asking' = asking /\ carried' = carried
    BY <1>7, Zenon DEF Reopen
  <2>3. Bounded(NoEvent)
    BY EventAssumption DEF Bounded, NoEvent, EXCEPTION
  <2>4. opened'.dump = d /\ opened'.id = opened.id + 1 /\ opened'.last = NoEvent
    BY <2>1, Zenon
  <2>5. DOMAIN opened' = {"dump", "id", "last", "selected"}
    BY <2>1, Zenon
  <2>6. opened.id \in Nat \ {0} /\ carried.target \in Nat /\ carried.target <= opened.id
    BY <1>0, Zenon DEF Opened, Held
  <2>7. opened'.id \in Nat \ {0} /\ carried.target <= opened'.id /\ carried.target # opened'.id
    BY <2>4, <2>6
  <2>8. Opened(opened') /\ Held(carried, opened')
    BY <2>3, <2>4, <2>5, <2>6, <2>7, Zenon DEF Opened, Held
  <2> QED BY <1>3, <2>2, <2>8, Zenon
<1>8. CASE last_event
  <2>1. /\ Asks /\ asking' = asking /\ carried' = carried
        /\ \/ reply' = [kind |-> "failed"]
           \/ reply' = [kind |-> "no event"]
           \/ reply' = DebugEvent(opened.last, NoContext)
    BY <1>8, Zenon DEF last_event
  <2>2. Honest([kind |-> "failed"], opened, carried) /\ Honest([kind |-> "no event"], opened, carried)
    BY PlainHonest, Zenon
  <2>3. ~(NoContext.len > 0)
    BY DEF NoContext
  <2>4. Honest(DebugEvent(opened.last, NoContext), opened, carried)
    BY <1>0, <2>3, EventHonest, Zenon DEF Opened
  <2> QED BY <1>4, <2>1, <2>2, <2>4, Zenon
<1>9. CASE bug_check
  <2>1. /\ Asks /\ asking' = asking /\ carried' = carried
        /\ \/ reply' = [kind |-> "failed"]
           \/ reply' = [kind |-> "no bug check"] /\ opened.dump.kernel /\ opened.dump.code = 0
           \/ reply' = [kind |-> "bug check", code |-> opened.dump.code]
    BY <1>9, Zenon DEF bug_check, BugCheckFailed
  <2>2. /\ Honest([kind |-> "failed"], opened, carried)
        /\ Honest([kind |-> "bug check", code |-> opened.dump.code], opened, carried)
    BY PlainHonest, Zenon
  <2>3. ASSUME opened.dump.kernel, opened.dump.code = 0
        PROVE  Honest([kind |-> "no bug check"], opened, carried)
    BY <2>3, Zenon DEF Honest
  <2> QED BY <1>4, <2>1, <2>2, <2>3, Zenon
<1>10. CASE StoredBegin
  <2>1. /\ Asks /\ carried' = carried /\ reply' = NoReply
        /\ asking' = [pc |-> "stored", rung |-> 1, refused |-> FALSE]
    BY <1>10, Zenon DEF StoredBegin
  <2>2. asking.pc # "stored" /\ opened' = opened
    BY <1>1, <2>1, Zenon DEF Asks
  <2>3. 1 \in Rungs
    BY EventAssumption DEF Rungs
  <2>4. asking'.pc = "stored" /\ DOMAIN asking' = {"pc", "rung", "refused"} /\ asking'.rung = 1
    BY <2>1, Zenon
  <2> QED BY <1>0, <1>2, <2>1, <2>2, <2>3, <2>4, Zenon DEF EventInv, Climbing
<1>11. ASSUME NEW max \in 0 .. 2, stack_frames(max) PROVE EventInv'
  <2>1. /\ Asks /\ asking' = asking /\ carried' = carried
        /\ \/ reply' = [kind |-> "failed"]
           \/ \E fs : reply' = [kind |-> "frames", of |-> "selected", max |-> max, frames |-> fs]
    BY <1>11, Zenon DEF stack_frames
  <2>2. Honest([kind |-> "failed"], opened, carried)
    BY PlainHonest, Zenon
  <2>3. ASSUME NEW fs
        PROVE  Honest([kind |-> "frames", of |-> "selected", max |-> max, frames |-> fs], opened, carried)
    BY Zenon DEF Honest
  <2> QED BY <1>4, <2>1, <2>2, <2>3, Zenon
<1>12. ASSUME NEW max \in 0 .. 2, stack_frames_from(max) PROVE EventInv'
  <2>1. /\ Asks /\ asking' = asking /\ carried' = carried
        /\ \/ reply' = [kind |-> "failed"]
           \/ reply' = [kind |-> "ContextFromAnotherTarget"]
           \/ reply' = [kind |-> "frames", of |-> "context", max |-> max, frames |-> <<>>]
           \/ /\ carried.target = opened.id
              /\ \E n : reply' = [kind |-> "frames", of |-> "context", max |-> max,
                                  frames |-> Frames(opened.id, carried.thread, n)]
    BY <1>12, Zenon DEF stack_frames_from, OfTarget
  <2>2. /\ Honest([kind |-> "failed"], opened, carried)
        /\ Honest([kind |-> "ContextFromAnotherTarget"], opened, carried)
    BY PlainHonest, Zenon
  <2>3. Honest([kind |-> "frames", of |-> "context", max |-> max, frames |-> <<>>], opened, carried)
    BY DEF Honest
  <2>4. ASSUME carried.target = opened.id, NEW n,
               reply' = [kind |-> "frames", of |-> "context", max |-> max,
                         frames |-> Frames(opened.id, carried.thread, n)]
        PROVE  Honest(reply', opened, carried)
    <3>1. carried.thread = opened.dump.stored.thread
      BY <1>0, <2>4, Zenon DEF Held
    <3>2. reply'.kind = "frames" /\ reply'.frames = Frames(opened.id, carried.thread, n)
      BY <2>4, Zenon
    <3> QED BY <2>4, <3>1, <3>2, FramesHonest, Zenon
  <2> QED BY <1>4, <2>1, <2>2, <2>3, <2>4, Zenon
<1>13. CASE Rung
  <2>1. /\ asking.pc = "stored" /\ opened' = opened
        /\ asking.rung \in Rungs /\ DOMAIN asking = {"pc", "rung", "refused"} /\ reply = NoReply
    BY <1>0, <1>13 DEF Rung, Climbing, Quiet
  <2>2. Len(STORED_CONTEXT_SIZES) \in Nat /\ \A i \in Rungs : i \in Nat /\ STORED_CONTEXT_SIZES[i] \in Nat
    BY EventAssumption DEF Rungs
  <2>3. ASSUME asking.rung < Len(STORED_CONTEXT_SIZES), carried' = carried, reply' = reply,
               asking'.pc = asking.pc, DOMAIN asking' = DOMAIN asking, asking'.rung = asking.rung + 1
        PROVE  EventInv'
    <3>1. asking'.rung \in Rungs
      BY <2>1, <2>2, <2>3 DEF Rungs
    <3> QED BY <1>0, <2>1, <2>3, <3>1, Zenon DEF EventInv, Climbing
  <2>4. ASSUME asking' = Quiet, Held(carried', opened), Honest(reply', opened, carried')
        PROVE  EventInv'
    BY <1>0, <2>1, <2>4, Zenon DEF EventInv, Climbing
  <2>5. ASSUME NEW code, code = E_UNEXPECTED => opened.dump.stored = NoEvent,
               StoredFails(code), carried' = carried
        PROVE  EventInv'
    <3>1. CASE reply' = [kind |-> "no stored event"] /\ asking' = Quiet /\ code = E_UNEXPECTED
      <4>1. Honest([kind |-> "no stored event"], opened, carried)
        BY <2>5, <3>1, Zenon DEF Honest
      <4> QED BY <1>0, <2>4, <2>5, <3>1, <4>1, Zenon
    <3>2. CASE /\ asking' = [asking EXCEPT !.rung = @ + 1, !.refused = TRUE] /\ UNCHANGED reply
               /\ asking.rung < Len(STORED_CONTEXT_SIZES)
      <4>1. asking'.pc = asking.pc /\ DOMAIN asking' = DOMAIN asking /\ asking'.rung = asking.rung + 1
        BY <2>1, <3>2, Zenon
      <4> QED BY <2>3, <2>5, <3>2, <4>1, Zenon
    <3>3. CASE reply' = [kind |-> "failed"] /\ asking' = Quiet
      <4>1. Honest([kind |-> "failed"], opened, carried)
        BY PlainHonest, Zenon
      <4> QED BY <1>0, <2>4, <2>5, <3>3, <4>1, Zenon
    <3> QED BY <2>5, <3>1, <3>2, <3>3, Zenon DEF StoredFails, no_stored_event
  <2>6. CASE opened.dump.stored = NoEvent /\ StoredFails(E_UNEXPECTED) /\ UNCHANGED <<carried, lapses>>
    BY <2>5, <2>6, Zenon
  <2>7. CASE Lapse /\ (\E code \in {E_FAIL, E_INVALIDARG} : StoredFails(code)) /\ UNCHANGED carried
    <3>1. E_FAIL # E_UNEXPECTED /\ E_INVALIDARG # E_UNEXPECTED
      BY Zenon DEF E_FAIL, E_UNEXPECTED, E_INVALIDARG
    <3> QED BY <2>5, <2>7, <3>1, Zenon
  <2>8. ASSUME NEW overstates \in BOOLEAN, opened.dump.stored # NoEvent,
               LET size == STORED_CONTEXT_SIZES[asking.rung]
                   written == IF opened.dump.size < size THEN opened.dump.size ELSE size
                   used == IF overstates THEN opened.dump.size ELSE written
                   len == IF used < size THEN used ELSE size
                   context == [len |-> len, target |-> opened.id, thread |-> opened.dump.stored.thread]
               IN IF Brim(used, asking.rung)
                  THEN asking' = [asking EXCEPT !.rung = @ + 1] /\ UNCHANGED <<reply, carried>>
                  ELSE /\ carried' = IF len = 0 THEN NoContext ELSE context
                       /\ reply' = DebugEvent(opened.dump.stored, carried')
                       /\ asking' = Quiet
        PROVE  EventInv'
    <3> DEFINE size == STORED_CONTEXT_SIZES[asking.rung]
               written == IF opened.dump.size < size THEN opened.dump.size ELSE size
               used == IF overstates THEN opened.dump.size ELSE written
               len == IF used < size THEN used ELSE size
               context == [len |-> len, target |-> opened.id, thread |-> opened.dump.stored.thread]
    <3>1. IF Brim(used, asking.rung)
          THEN asking' = [asking EXCEPT !.rung = @ + 1] /\ UNCHANGED <<reply, carried>>
          ELSE /\ carried' = IF len = 0 THEN NoContext ELSE context
               /\ reply' = DebugEvent(opened.dump.stored, carried')
               /\ asking' = Quiet
      BY <2>8, Zenon
    <3>2. size \in Nat /\ opened.dump.size \in Nat /\ Bounded(opened.dump.stored)
      BY <1>0, <1>d, <2>1, <2>2, Zenon DEF Opened
    <3>3. /\ len \in Nat
          /\ used < size => len = opened.dump.size
          /\ used >= size => len = size /\ opened.dump.size >= size
          /\ used < size \/ used >= size
      <4> HIDE DEF size
      <4> QED BY <3>2
    <3>4. CASE Brim(used, asking.rung)
      <4>1. /\ asking' = [asking EXCEPT !.rung = @ + 1] /\ reply' = reply /\ carried' = carried
            /\ asking.rung < Len(STORED_CONTEXT_SIZES)
        BY <3>1, <3>4, Zenon DEF Brim
      <4>2. asking'.pc = asking.pc /\ DOMAIN asking' = DOMAIN asking /\ asking'.rung = asking.rung + 1
        BY <2>1, <4>1, Zenon
      <4> QED BY <2>3, <4>1, <4>2, Zenon
    <3>5. CASE ~Brim(used, asking.rung)
      <4>1. /\ carried' = IF len = 0 THEN NoContext ELSE context
            /\ reply' = DebugEvent(opened.dump.stored, carried')
            /\ asking' = Quiet
        BY <3>1, <3>5, Zenon
      <4>2. len = opened.dump.size \/ opened.dump.size > STORED_CONTEXT_SIZES[Len(STORED_CONTEXT_SIZES)]
        <5>1. CASE used < size
          BY <3>3, <5>1, Zenon
        <5>2. CASE used >= size
          <6>1. ~(asking.rung < Len(STORED_CONTEXT_SIZES))
            BY <3>5, <5>2, Zenon DEF Brim
          <6>2. asking.rung = Len(STORED_CONTEXT_SIZES)
            BY <2>1, <2>2, <6>1 DEF Rungs
          <6>3. len = size /\ opened.dump.size >= size
            BY <3>3, <5>2, Zenon
          <6>4. size = STORED_CONTEXT_SIZES[Len(STORED_CONTEXT_SIZES)]
            BY <6>2, Zenon
          <6> HIDE DEF size, len
          <6> QED BY <3>2, <6>3, <6>4
        <5> QED BY <3>3, <5>1, <5>2, Zenon
      <4> HIDE DEF len
      <4>3. carried'.len = len \/ carried' = NoContext
        BY <4>1, Zenon
      <4>4. NoContext.target = 0 /\ ~(NoContext.len > 0)
        BY DEF NoContext
      <4>5. context.target = opened.id /\ context.thread = opened.dump.stored.thread
        BY Zenon
      <4>6. opened.id \in Nat /\ opened.id # 0 /\ 0 \in Nat /\ 0 <= opened.id /\ opened.id <= opened.id
        BY <1>0 DEF Opened
      <4>7. Held(carried', opened)
        BY <4>1, <4>4, <4>5, <4>6, Zenon DEF Held
      <4>8. Honest(DebugEvent(opened.dump.stored, carried'), opened, carried')
        BY <3>2, <4>2, <4>3, <4>4, EventHonest, Zenon
      <4> QED BY <2>4, <4>1, <4>7, <4>8, Zenon
    <3> QED BY <3>4, <3>5, Zenon
  <2> QED BY <1>13, <2>6, <2>7, <2>8, Zenon DEF Rung
<1> QED BY <1>5, <1>6, <1>7, <1>8, <1>9, <1>10, <1>11, <1>12, <1>13, Zenon DEF EventNext

\* What is said of an event, a record, a bug check or a stack is so of the open target.
LEMMA EventSound ==
  EventInv => ContextIsWhole /\ CrashStackStays /\ RecordIsWritten /\ NoBugCheckIsKernels
              /\ StoredNoneIsNone
BY Zenon DEF EventInv, Honest, ContextIsWhole, CrashStackStays, RecordIsWritten, NoBugCheckIsKernels,
             StoredNoneIsNone

(* EventsHonest holds for every ladder of buffer sizes, increasing or not, and every set of dumps:  *)
(* a context is whole or the target's is larger than every buffer, a stack walked from a held       *)
(* context is that event's, a record is one the engine wrote, and no stored event or bug check is   *)
(* denied by a call that failed.                                                                    *)
THEOREM EventsHonestHolds == EventSpec => []EventsHonest
<1>1. EventInv /\ UNCHANGED eventVars => EventInv'
  BY Zenon DEF eventVars, EventInv
<1>2. EventInv /\ [EventNext]_eventVars => EventInv'
  BY <1>1, EventStep, Zenon
<1>3. EventInv => EventsHonest
  BY EventSound, Zenon DEF EventsHonest
<1> QED BY <1>2, <1>3, EventInitial, PTL DEF EventSpec
=============================================================================
