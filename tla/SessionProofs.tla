---------------------------- MODULE SessionProofs ----------------------------
(***************************************************************************)
(* The safety properties of Session, for any number of processes and of    *)
(* opens.  What the register promises (Inv) holds however the session is   *)
(* used; the second part adds what needs the openers' assumptions.        *)
(***************************************************************************)
EXTENDS Session, ArrivalsProofs, FiniteSetTheorems

Whats == [kind : {"Attached", "Launched", "Unlisted"}, pid : Pids \cup {0},
          before : SUBSET Entries]

\* The entries of the processes that some open was given.
Given == {<<eid[p], p>> : p \in delivered}

Typed ==
  /\ world \in [Pids -> {"free", "gone", "foreign", "attached", "launched"}]
  /\ eid \in [Pids -> Ids]
  /\ creates \in Nat /\ inputs \in Nat
  /\ attaches \subseteq Pids /\ \A p \in attaches : world[p] = "foreign"
  /\ arrivals \in Registers(Whats, Entries) /\ arrivals.minted <= MaxOpens
  /\ attached \in [Pids -> {"no", "Deferred", "Joined"}]
  /\ guards \subseteq 1..arrivals.minted
  /\ wait \in [id : guards \cup {0}, waited : BOOLEAN, asked : BOOLEAN]
  /\ engine \in BOOLEAN
  /\ delivered \subseteq Joined
  /\ report \in [ok : BOOLEAN, took : BOOLEAN, refused : BOOLEAN]

\* The register: rows in order, claims apart, only rows without a guard abandoned, and
\* no open that waits can be given what another was given.
Registry ==
  /\ Ordered(arrivals)
  /\ Apart(arrivals)
  /\ Left(arrivals, guards)
  /\ Told(arrivals, Given)

Inv == Typed /\ Registry /\ InputsOutliveCreates

Pending(p) == p \in attaches \/ world[p] = "attached"

-----------------------------------------------------------------------------
(* Entries. *)

\* Where there is a process there is an engine id for it.
LEMMA IdZero == \A p \in Pids : 0 \in Ids
<1>1. ASSUME NEW p \in Pids PROVE Cardinality(Pids) \in Nat /\ Cardinality(Pids) # 0
  BY PidsAssumption, FS_CardinalityType, FS_EmptySet, Zenon
<1> QED BY <1>1 DEF Ids

\* An entry is neither of the marks of a claim.
LEMMA EntriesUnmarked == Entries \cap Marks = {}
<1>1. ASSUME NEW e \in Entries PROVE e # <<>> /\ e # <<0>>
  <2>1. PICK i \in Ids, p \in Pids : e = <<i, p>>
    BY DEF Entries
  <2>2. Len(e) # Len(<<>>) /\ Len(e) # Len(<<0>>)
    BY <2>1
  <2> QED BY <2>2, Zenon
<1> QED BY <1>1, Zenon DEF Marks, Waiting, Departed

\* The session's processes, and the ones some open was given, are entries.
LEMMA ProcessesAreEntries ==
  ASSUME Typed
  PROVE  /\ session_processes \subseteq Entries
         /\ Given \subseteq session_processes
         /\ Given \subseteq Entries /\ Given \cap Marks = {}
<1>1. session_processes \subseteq Entries
  BY DEF Typed, session_processes, Entries, Joined
<1>2. Given \subseteq session_processes
  BY DEF Typed, session_processes, Given
<1> QED BY <1>1, <1>2, EntriesUnmarked, Zenon

\* The descriptions an opener registers.
LEMMA OpensAreWhats ==
  ASSUME Typed
  PROVE  /\ \A p \in Pids : Attached(p) \in Whats
         /\ Launched(session_processes) \in Whats
         /\ Unlisted \in Whats
<1>1. session_processes \subseteq Entries
  BY ProcessesAreEntries, Zenon
<1> QED BY <1>1, Zenon DEF Whats, Attached, Launched, Unlisted

-----------------------------------------------------------------------------
(* The register, step by step. *)

\* What every step but a pump does: the invariant is kept, what was given stays given,
\* and nothing is given.
Keeps == Inv' /\ Final(arrivals, arrivals') /\ Quiet(arrivals, arrivals')

\* A step that leaves the register alone.
LEMMA RegisterAlone ==
  ASSUME Inv, UNCHANGED arrivals
  PROVE  Final(arrivals, arrivals') /\ Quiet(arrivals, arrivals')
<1>1. arrivals \in Registers(Whats, Entries) /\ Ordered(arrivals)
  BY Zenon DEF Inv, Typed, Registry
<1>2. Final(arrivals, arrivals)
  BY <1>1, OneSlot, Zenon DEF Final
<1>3. Quiet(arrivals, arrivals)
  BY Zenon DEF Quiet, Marks
<1> QED BY <1>2, <1>3, Zenon

\* Processes that leave the session take their entries with them.
LEMMA LeaveGiven ==
  ASSUME Inv, NEW ps, NEW becomes, Leave(ps, becomes),
         becomes \in {"free", "gone", "foreign"}
  PROVE  /\ world' \in [Pids -> {"free", "gone", "foreign", "attached", "launched"}]
         /\ eid' \in [Pids -> Ids]
         /\ delivered' \subseteq Joined'
         /\ Given' \subseteq Given
<1>1. world' \in [Pids -> {"free", "gone", "foreign", "attached", "launched"}]
  BY Zenon DEF Inv, Typed, Leave
<1>2. eid' \in [Pids -> Ids]
  BY IdZero, Zenon DEF Inv, Typed, Leave
<1>3. delivered' \subseteq Joined'
  BY Zenon DEF Inv, Typed, Leave, Joined
<1>4. Given' \subseteq Given
  BY DEF Inv, Typed, Leave, Given, Joined
<1> QED BY <1>1, <1>2, <1>3, <1>4, Zenon

\* Less has to be told of fewer.
LEMMA ToldLess ==
  ASSUME NEW a, NEW D, NEW F, F \subseteq D, Told(a, D)
  PROVE  Told(a, F)
BY Zenon DEF Told

\* A process exits.
LEMMA ExitKeeps ==
  ASSUME Inv, NEW p \in Pids, Exit(p)
  PROVE  Keeps
<1>1. Leave({p}, IF PidReuse THEN "free" ELSE "gone")
  BY Zenon DEF Exit
<1>2. UNCHANGED <<creates, inputs, arrivals, attached, guards, wait, engine, owed, report>>
  BY Zenon DEF Exit
<1>3. /\ attaches' \subseteq Pids
      /\ \A q \in attaches' : world'[q] = "foreign"
  BY <1>1, Zenon DEF Exit, Leave, Inv, Typed
<1>4. Typed'
  BY <1>1, <1>2, <1>3, LeaveGiven, ZenonT(30) DEF Inv, Typed
<1>5. Registry'
  BY <1>1, <1>2, LeaveGiven, ToldLess, Zenon DEF Inv, Registry
<1> QED BY <1>2, <1>4, <1>5, RegisterAlone, Zenon DEF Keeps, Inv, InputsOutliveCreates

\* Somebody else's process starts.
LEMMA SpawnKeeps ==
  ASSUME Inv, NEW p \in Pids, Spawn(p)
  PROVE  Keeps
<1>1. UNCHANGED <<eid, creates, attaches, inputs, arrivals, attached, guards, wait, engine,
                  delivered, owed, report>>
  BY Zenon DEF Spawn, history
<1>2. world' \in [Pids -> {"free", "gone", "foreign", "attached", "launched"}]
  BY Zenon DEF Spawn, Inv, Typed
<1>3. (\A q \in attaches' : world'[q] = "foreign") /\ delivered' \subseteq Joined'
  BY <1>1, Zenon DEF Spawn, Inv, Typed, Joined
<1>4. Typed'
  BY <1>1, <1>2, <1>3, Zenon DEF Inv, Typed
<1>5. Registry'
  BY <1>1, Zenon DEF Inv, Registry, Given
<1> QED BY <1>1, <1>4, <1>5, RegisterAlone, Zenon DEF Keeps, Inv, InputsOutliveCreates

\* A `.detach` nobody accounts for.
LEMMA DetachKeeps ==
  ASSUME Inv, NEW p \in Pids, Detach(p)
  PROVE  Keeps
<1>1. Leave({p}, "foreign") /\ p \in Joined
  BY Zenon DEF Detach
<1>2. UNCHANGED <<creates, attaches, inputs, arrivals, attached, guards, wait, engine, owed,
                  report>>
  BY Zenon DEF Detach
<1>3. \A q \in attaches' : world'[q] = "foreign"
  BY <1>1, <1>2, Zenon DEF Leave, Inv, Typed
<1>4. Typed'
  BY <1>1, <1>2, <1>3, LeaveGiven, Zenon DEF Inv, Typed
<1>5. Registry'
  BY <1>1, <1>2, LeaveGiven, ToldLess, Zenon DEF Inv, Registry
<1> QED BY <1>2, <1>4, <1>5, RegisterAlone, Zenon DEF Keeps, Inv, InputsOutliveCreates

\* What an opener's prune leaves.
LEMMA PrunedKeeps ==
  ASSUME Inv, NEW listed \in BOOLEAN
  PROVE  LET left == Pruned(listed, arrivals, attached)
         IN  /\ left.arrivals \in Registers(Whats, Entries)
             /\ Follows(arrivals, left.arrivals)
             /\ Left(left.arrivals, guards)
             /\ Told(left.arrivals, Given)
             /\ left.attached \in [Pids -> {"no", "Deferred", "Joined"}]
<1> DEFINE pruned == forget_departed(arrivals, session_processes)
           kept == retained(attached, session_processes)
<1>1. /\ arrivals \in Registers(Whats, Entries) /\ Ordered(arrivals)
      /\ Left(arrivals, guards) /\ Told(arrivals, Given)
  BY Zenon DEF Inv, Typed, Registry
<1>2. /\ pruned \in Registers(Whats, Entries)
      /\ Follows(arrivals, pruned)
      /\ Left(pruned, guards)
  BY <1>1, ForgetDepartedRows, ForgetDepartedFollows, ForgetDepartedLeft, Zenon
<1>3. Told(pruned, Given)
  BY <1>1, ProcessesAreEntries, ForgetDepartedTold, Zenon DEF Inv
<1>4. kept \in [Pids -> {"no", "Deferred", "Joined"}]
  BY Zenon DEF retained, note_attachments_present, Inv, Typed
<1>5. Follows(arrivals, arrivals)
  BY <1>1, Zenon DEF Follows, Ordered
<1>6. attached \in [Pids -> {"no", "Deferred", "Joined"}]
  BY Zenon DEF Inv, Typed
<1> HIDE DEF pruned, kept
<1>7. Pruned(listed, arrivals, attached) = IF listed THEN [arrivals |-> pruned, attached |-> kept]
                                           ELSE [arrivals |-> arrivals, attached |-> attached]
  BY Zenon DEF Pruned, pruned, kept
<1> QED BY <1>1, <1>2, <1>3, <1>4, <1>5, <1>6, <1>7, SMTT(30)

\* An open registered behind what the prune left.
LEMMA OpenKeeps ==
  ASSUME Inv, NEW left \in Registers(Whats, Entries), NEW what \in Whats,
         Follows(arrivals, left), Left(left, guards), Told(left, Given),
         arrivals.minted < MaxOpens,
         \A e \in Given : \/ what.kind = "Launched" /\ e \in what.before
                          \/ what.kind = "Attached" /\ what.pid # e[2]
                          \/ what.kind \notin {"Launched", "Attached"}
  PROVE  LET b == register(left, what)
         IN  /\ b \in Registers(Whats, Entries) /\ b.minted = arrivals.minted + 1
             /\ b.minted \in Nat /\ b.minted <= MaxOpens
             /\ Ordered(b) /\ Apart(b) /\ Left(b, guards \cup {b.minted}) /\ Told(b, Given)
             /\ Final(arrivals, b) /\ Quiet(arrivals, b)
<1> DEFINE b == register(left, what)
<1>1. /\ arrivals \in Registers(Whats, Entries) /\ Ordered(arrivals) /\ Apart(arrivals)
      /\ arrivals.minted \in Nat
  BY RowsTyped, Zenon DEF Inv, Typed, Registry
<1>2. Ordered(left)
  BY <1>1, FollowsApart, Zenon
<1>3. b \in Registers(Whats, Entries) /\ b.minted = left.minted + 1
  <2>1. /\ b \in Registers(Whats, Entries)
        /\ Registered(left, b, what, Len(left.pending) + 1)
    BY RegisterRows, Zenon
  <2> HIDE DEF b
  <2> QED BY <2>1, Zenon DEF Registered
<1>4. left.minted = arrivals.minted
  BY Zenon DEF Follows
<1>5. Ordered(b) /\ Apart(b) /\ Final(arrivals, b) /\ Quiet(arrivals, b)
  BY <1>1, OpenedBehind, Zenon
<1>6. Left(b, guards \cup {b.minted})
  BY <1>2, RegisterLeft, Zenon
<1>7. Told(b, Given)
  BY RegisterTold, Zenon
<1> HIDE DEF b
<1>8. b.minted = arrivals.minted + 1 /\ b.minted \in Nat /\ b.minted <= MaxOpens
  BY <1>1, <1>3, <1>4, OpensAssumption, SMTT(30)
<1> QED BY <1>3, <1>5, <1>6, <1>7, <1>8, Zenon DEF b

\* The ids up to the next one.
LEMMA NextId ==
  ASSUME NEW m \in Nat, NEW G, G \subseteq 1..m
  PROVE  G \cup {m + 1} \subseteq 1..(m + 1)
<1>1. 1..m \subseteq 1..(m + 1) /\ m + 1 \in 1..(m + 1)
  OBVIOUS
<1> QED BY <1>1, Zenon

\* launch_process_begin.
LEMMA LaunchKeeps ==
  ASSUME Inv, NEW pruned \in BOOLEAN, NEW listed \in BOOLEAN, NEW accepted \in BOOLEAN,
         launch_process_begin(pruned, listed, accepted)
  PROVE  Keeps
<1> DEFINE left == Pruned(pruned, arrivals, attached)
           what == IF listed THEN Launched(session_processes) ELSE Unlisted
<1>1. /\ left.arrivals \in Registers(Whats, Entries)
      /\ Follows(arrivals, left.arrivals)
      /\ Left(left.arrivals, guards)
      /\ Told(left.arrivals, Given)
      /\ left.attached \in [Pids -> {"no", "Deferred", "Joined"}]
  BY PrunedKeeps, Zenon
<1>2. /\ attached' = left.attached
      /\ arrivals.minted < MaxOpens
      /\ UNCHANGED <<world, eid, attaches, wait, engine, delivered, report>>
      /\ \/ /\ arrivals' = left.arrivals
            /\ UNCHANGED <<creates, inputs, guards>>
         \/ /\ creates' = creates + 1 /\ inputs' = inputs + 1
            /\ arrivals' = register(left.arrivals, what)
            /\ guards' = guards \cup {arrivals'.minted}
  BY Zenon DEF launch_process_begin, CanOpen
<1>3. /\ what \in Whats
      /\ \A e \in Given : \/ what.kind = "Launched" /\ e \in what.before
                          \/ what.kind \notin {"Launched", "Attached"}
  BY OpensAreWhats, ProcessesAreEntries, Zenon DEF Inv, Launched, Unlisted
<1>4. /\ arrivals \in Registers(Whats, Entries) /\ Ordered(arrivals) /\ Apart(arrivals)
      /\ arrivals.minted \in Nat
  BY RowsTyped, Zenon DEF Inv, Typed, Registry
<1> HIDE DEF left, what
<1>5. Given' = Given /\ delivered' \subseteq Joined'
  BY <1>2 DEF Given, Inv, Typed, Joined
<1>6. CASE /\ arrivals' = left.arrivals
           /\ UNCHANGED <<creates, inputs, guards>>
  <2>1. /\ arrivals' \in Registers(Whats, Entries) /\ Follows(arrivals, arrivals')
        /\ Left(arrivals', guards') /\ Told(arrivals', Given')
    BY <1>1, <1>5, <1>6, Zenon
  <2>2. Ordered(arrivals') /\ Apart(arrivals') /\ Final(arrivals, arrivals')
    BY <1>4, <2>1, FollowsApart, Zenon
  <2>3. Quiet(arrivals, arrivals')
    BY <1>4, <2>1, FollowsQuiet, Zenon
  <2>4. arrivals'.minted = arrivals.minted
    BY <2>1, Zenon DEF Follows
  <2>5. Typed'
    BY <1>1, <1>2, <1>5, <1>6, <2>1, <2>4, ZenonT(30) DEF Inv, Typed
  <2> QED BY <1>2, <1>6, <2>1, <2>2, <2>3, <2>5, Zenon
          DEF Keeps, Inv, Registry, InputsOutliveCreates
<1>7. CASE /\ creates' = creates + 1 /\ inputs' = inputs + 1
           /\ arrivals' = register(left.arrivals, what)
           /\ guards' = guards \cup {arrivals'.minted}
  <2>1. /\ arrivals' \in Registers(Whats, Entries) /\ arrivals'.minted = arrivals.minted + 1
        /\ arrivals'.minted \in Nat /\ arrivals'.minted <= MaxOpens
        /\ Ordered(arrivals') /\ Apart(arrivals') /\ Left(arrivals', guards')
        /\ Told(arrivals', Given)
        /\ Final(arrivals, arrivals') /\ Quiet(arrivals, arrivals')
    BY <1>1, <1>2, <1>3, <1>7, OpenKeeps, Zenon
  <2>2. guards' \subseteq 1..arrivals'.minted
    <3>1. guards \subseteq 1..arrivals.minted
      BY Zenon DEF Inv, Typed
    <3>2. guards \cup {arrivals.minted + 1} \subseteq 1..(arrivals.minted + 1)
      BY <1>4, <3>1, NextId, Zenon
    <3>3. /\ guards' = guards \cup {arrivals.minted + 1}
          /\ arrivals'.minted = arrivals.minted + 1
      BY <1>7, <2>1, Zenon
    <3> QED BY <3>2, <3>3, Zenon
  <2>3. wait' \in [id : guards' \cup {0}, waited : BOOLEAN, asked : BOOLEAN]
    BY <1>2, <1>7, Zenon DEF Inv, Typed
  <2>4. creates' \in Nat /\ inputs' \in Nat
    BY <1>7 DEF Inv, Typed
  <2>5. Typed'
    BY <1>1, <1>2, <1>5, <2>1, <2>2, <2>3, <2>4, Zenon DEF Inv, Typed
  <2>6. InputsOutliveCreates'
    <3>1. creates \in Nat /\ inputs \in Nat /\ (engine => creates <= inputs)
      BY Zenon DEF Inv, Typed, InputsOutliveCreates
    <3>2. creates <= inputs => creates' <= inputs'
      BY <1>7, <3>1
    <3> QED BY <1>2, <3>1, <3>2, Zenon DEF InputsOutliveCreates
  <2> QED BY <1>5, <2>1, <2>5, <2>6, Zenon DEF Keeps, Inv, Registry
<1> QED BY <1>2, <1>6, <1>7, Zenon

\* attach_process_begin: the process is not one the session holds.
LEMMA AttachKeeps ==
  ASSUME Inv, NEW p \in Pids, NEW pruned \in BOOLEAN, attach_process_begin(p, pruned)
  PROVE  Keeps
<1> DEFINE left == Pruned(pruned, arrivals, attached)
<1>1. /\ left.arrivals \in Registers(Whats, Entries)
      /\ Follows(arrivals, left.arrivals)
      /\ Left(left.arrivals, guards)
      /\ Told(left.arrivals, Given)
      /\ left.attached \in [Pids -> {"no", "Deferred", "Joined"}]
  BY PrunedKeeps, Zenon
<1>2. /\ attached' = [left.attached EXCEPT ![p] = "Deferred"]
      /\ world[p] = "foreign"
      /\ attaches' = attaches \cup {p}
      /\ arrivals.minted < MaxOpens
      /\ UNCHANGED <<world, eid, creates, inputs, wait, engine, delivered, owed, report>>
      /\ arrivals' = register(left.arrivals, Attached(p))
      /\ guards' = guards \cup {arrivals'.minted}
  BY Zenon DEF attach_process_begin, CanOpen, history
<1>3. /\ Attached(p) \in Whats
      /\ Attached(p).kind = "Attached"
      /\ \A e \in Given : Attached(p).pid # e[2]
  BY <1>2, OpensAreWhats DEF Inv, Typed, Given, Attached, Joined
<1>4. arrivals.minted \in Nat
  BY RowsTyped, Zenon DEF Inv, Typed
<1> HIDE DEF left
<1>5. Given' = Given /\ delivered' \subseteq Joined'
  BY <1>2 DEF Given, Inv, Typed, Joined
<1>6. /\ arrivals' \in Registers(Whats, Entries) /\ arrivals'.minted = arrivals.minted + 1
      /\ arrivals'.minted \in Nat /\ arrivals'.minted <= MaxOpens
      /\ Ordered(arrivals') /\ Apart(arrivals') /\ Left(arrivals', guards')
      /\ Told(arrivals', Given)
      /\ Final(arrivals, arrivals') /\ Quiet(arrivals, arrivals')
  BY <1>1, <1>2, <1>3, OpenKeeps, Zenon
<1>7. guards' \subseteq 1..arrivals'.minted
  <2>1. guards \subseteq 1..arrivals.minted
    BY Zenon DEF Inv, Typed
  <2>2. guards \cup {arrivals.minted + 1} \subseteq 1..(arrivals.minted + 1)
    BY <1>4, <2>1, NextId, Zenon
  <2>3. /\ guards' = guards \cup {arrivals.minted + 1}
        /\ arrivals'.minted = arrivals.minted + 1
    BY <1>2, <1>6, Zenon
  <2> QED BY <2>2, <2>3, Zenon
<1>8. wait' \in [id : guards' \cup {0}, waited : BOOLEAN, asked : BOOLEAN]
  BY <1>2, Zenon DEF Inv, Typed
<1>9. attached' \in [Pids -> {"no", "Deferred", "Joined"}]
  BY <1>1, <1>2, Zenon
<1>10. Typed'
  BY <1>2, <1>5, <1>6, <1>7, <1>8, <1>9, ZenonT(30) DEF Inv, Typed
<1> QED BY <1>2, <1>5, <1>6, <1>10, Zenon DEF Keeps, Inv, Registry, InputsOutliveCreates

\* A register that only lost rows or guards.
LEMMA ForgottenKeeps ==
  ASSUME Inv,
         arrivals' \in Registers(Whats, Entries), Follows(arrivals, arrivals'),
         guards' \subseteq guards, Left(arrivals', guards'), Told(arrivals', Given'),
         UNCHANGED <<world, eid, inputs, engine, delivered, report>>,
         creates' \in Nat, creates' <= creates,
         attaches' \subseteq attaches,
         attached' \in [Pids -> {"no", "Deferred", "Joined"}],
         wait' \in [id : guards' \cup {0}, waited : BOOLEAN, asked : BOOLEAN]
  PROVE  Keeps
<1>1. /\ arrivals \in Registers(Whats, Entries) /\ Ordered(arrivals) /\ Apart(arrivals)
  BY Zenon DEF Inv, Typed, Registry
<1>2. Ordered(arrivals') /\ Apart(arrivals') /\ Final(arrivals, arrivals')
  BY <1>1, FollowsApart, Zenon
<1>3. Quiet(arrivals, arrivals')
  BY <1>1, FollowsQuiet, Zenon
<1>4. arrivals'.minted = arrivals.minted
  BY Zenon DEF Follows
<1>5. delivered' \subseteq Joined'
  BY Zenon DEF Inv, Typed, Joined
<1>6. Typed'
  BY <1>4, <1>5, Zenon DEF Inv, Typed
<1>7. InputsOutliveCreates'
  <2>1. creates \in Nat /\ inputs \in Nat /\ (engine => creates <= inputs)
    BY Zenon DEF Inv, Typed, InputsOutliveCreates
  <2>2. creates <= inputs => creates' <= inputs'
    BY <2>1
  <2> QED BY <2>1, <2>2, Zenon DEF InputsOutliveCreates
<1> QED BY <1>2, <1>3, <1>6, <1>7, Zenon DEF Keeps, Inv, Registry

\* What forget, alone or behind discard, leaves of the register.
LEMMA ForgetLeaves ==
  ASSUME Inv, NEW id, NEW as \in {arrivals, discard(arrivals, id)}
  PROVE  LET b == forget(as, id)
         IN  /\ b \in Registers(Whats, Entries) /\ Follows(arrivals, b)
             /\ Left(b, guards \ {id}) /\ Told(b, Given)
<1>1. /\ arrivals \in Registers(Whats, Entries) /\ Ordered(arrivals) /\ Apart(arrivals)
      /\ Left(arrivals, guards) /\ Told(arrivals, Given) /\ Given \cap Marks = {}
  BY ProcessesAreEntries, Zenon DEF Inv, Typed, Registry
<1>2. Follows(arrivals, arrivals)
  BY <1>1, Zenon DEF Follows, Ordered
<1>3. /\ as \in Registers(Whats, Entries) /\ Follows(arrivals, as)
      /\ Left(as, guards) /\ Told(as, Given)
  BY <1>1, <1>2, DiscardRows, DiscardFollows, DiscardLeft, DiscardTold, ZenonT(30)
<1>4. Ordered(as)
  BY <1>1, <1>3, FollowsApart, Zenon
<1>5. forget(as, id) \in Registers(Whats, Entries) /\ Follows(as, forget(as, id))
  BY <1>3, <1>4, ForgetRows, ForgetFollows, Zenon
<1>6. Follows(arrivals, forget(as, id))
  BY <1>1, <1>3, <1>5, FollowsTwice, Zenon
<1>7. Left(forget(as, id), guards \ {id}) /\ Told(forget(as, id), Given)
  BY <1>1, <1>3, ForgetLeft, ForgetTold, Zenon
<1> QED BY <1>5, <1>6, <1>7, Zenon

\* The drop of a guard nobody waits under.
LEMMA DropGuardKeeps ==
  ASSUME Inv, NEW id \in guards, DropGuard(id)
  PROVE  Keeps
<1>1. /\ guards' = guards \ {id} /\ wait.id # id
      /\ arrivals' = forget(arrivals, id)
      /\ UNCHANGED <<world, eid, creates, attaches, inputs, attached, wait, engine, delivered,
                     owed, report>>
  BY Zenon DEF DropGuard, engineVars, history
<1>2. /\ arrivals' \in Registers(Whats, Entries) /\ Follows(arrivals, arrivals')
      /\ Left(arrivals', guards') /\ Told(arrivals', Given)
  BY <1>1, ForgetLeaves, Zenon
<1>3. Given' = Given
  BY <1>1, Zenon DEF Given
<1>4. wait' \in [id : guards' \cup {0}, waited : BOOLEAN, asked : BOOLEAN]
  BY <1>1, Zenon DEF Inv, Typed
<1>5. creates' \in Nat /\ creates' <= creates /\ attached' \in [Pids -> {"no", "Deferred", "Joined"}]
  BY <1>1 DEF Inv, Typed
<1> QED BY <1>1, <1>2, <1>3, <1>4, <1>5, ForgottenKeeps, SMTT(30)

\* A wait begins under a guard.
LEMMA WaitBeginKeeps ==
  ASSUME Inv, NEW id \in guards, WaitBegin(id)
  PROVE  Keeps
<1>1. /\ UNCHANGED <<world, eid, creates, attaches, inputs, arrivals, attached, guards, engine,
                     delivered, owed, report>>
      /\ wait' = [Idle EXCEPT !.id = id]
  BY Zenon DEF WaitBegin, engineVars, history
<1>2. wait' \in [id : guards' \cup {0}, waited : BOOLEAN, asked : BOOLEAN]
  BY <1>1, Zenon DEF Idle
<1>3. Given' = Given /\ delivered' \subseteq Joined'
  BY <1>1 DEF Given, Inv, Typed, Joined
<1>4. Typed'
  BY <1>1, <1>2, <1>3, Zenon DEF Inv, Typed
<1> QED BY <1>1, <1>3, <1>4, RegisterAlone, Zenon DEF Keeps, Inv, Registry, InputsOutliveCreates

\* The three ways a wait ends.
WaitEnds == WaitReturn \/ WaitTimeout \/ WaitFails

\* A wait that ends drops its guard.
LEMMA WaitEndsKeeps ==
  ASSUME Inv, WaitEnds
  PROVE  Keeps
<1>1. /\ guards' = guards \ {wait.id} /\ wait' = Idle
      /\ UNCHANGED <<world, eid, inputs, engine, delivered, report>>
  BY Zenon DEF WaitEnds, WaitReturn, WaitTimeout, WaitFails, Done, engineVars, history
<1>2. PICK as \in {arrivals, discard(arrivals, wait.id)} : arrivals' = forget(as, wait.id)
  BY Zenon DEF WaitEnds, WaitReturn, WaitTimeout, WaitFails, Done
<1>3. /\ arrivals' \in Registers(Whats, Entries) /\ Follows(arrivals, arrivals')
      /\ Left(arrivals', guards') /\ Told(arrivals', Given)
  BY <1>1, <1>2, ForgetLeaves, Zenon
<1>4. Given' = Given
  BY <1>1, Zenon DEF Given
<1>5. wait' \in [id : guards' \cup {0}, waited : BOOLEAN, asked : BOOLEAN]
  BY <1>1, Zenon DEF Idle
<1>6. creates' \in Nat /\ creates' <= creates /\ attaches' \subseteq attaches
  BY DEF Inv, Typed, WaitEnds, WaitReturn, WaitTimeout, WaitFails, engineVars
<1>7. attached' \in [Pids -> {"no", "Deferred", "Joined"}]
  <2>1. attached \in [Pids -> {"no", "Deferred", "Joined"}]
    BY Zenon DEF Inv, Typed
  <2>2. attached' = attached \/ attached' = retire_deferred_attachment(wait.id)
    BY Zenon DEF WaitEnds, WaitReturn, WaitTimeout, WaitFails
  <2> QED BY <2>1, <2>2, Zenon DEF retire_deferred_attachment
<1> QED BY <1>1, <1>3, <1>4, <1>5, <1>6, <1>7, ForgottenKeeps, ZenonT(30)

\* A register that forgets every open.
LEMMA ForgetAllLeaves ==
  ASSUME Inv
  PROVE  LET b == forget_all(arrivals)
         IN  /\ b \in Registers(Whats, Entries) /\ Follows(arrivals, b) /\ Slots(b) = {}
<1> DEFINE b == forget_all(arrivals)
<1>1. arrivals \in Registers(Whats, Entries)
  BY Zenon DEF Inv, Typed
<1>2. <<>> \in Seq(Rows(Whats, Entries)) /\ Len(<<>>) = 0
  OBVIOUS
<1>3. b \in Registers(Whats, Entries) /\ b.minted = arrivals.minted /\ b.pending = <<>>
  BY <1>1, <1>2, Zenon DEF forget_all, Registers
<1> HIDE DEF b
<1>4. Slots(b) = {}
  BY <1>2, <1>3 DEF Slots
<1> QED BY <1>3, <1>4, Zenon DEF Follows, b

\* open_dump replaces the session.
LEMMA OpenDumpKeeps ==
  ASSUME Inv, open_dump
  PROVE  Keeps
<1>1. /\ arrivals' = forget_all(arrivals)
      /\ UNCHANGED <<world, eid, inputs, guards, wait, engine, delivered, report>>
      /\ creates' = 0 /\ attaches' = {} /\ attached' = [p \in Pids |-> "no"]
  BY Zenon DEF open_dump
<1>2. /\ arrivals' \in Registers(Whats, Entries) /\ Follows(arrivals, arrivals')
      /\ Left(arrivals', guards') /\ Told(arrivals', Given')
  BY <1>1, ForgetAllLeaves, Zenon DEF Left, Told
<1>3. /\ guards' \subseteq guards /\ creates' \in Nat /\ creates' <= creates
      /\ attaches' \subseteq attaches
      /\ attached' \in [Pids -> {"no", "Deferred", "Joined"}]
      /\ wait' \in [id : guards' \cup {0}, waited : BOOLEAN, asked : BOOLEAN]
  BY <1>1 DEF Inv, Typed
<1> QED BY <1>1, <1>2, <1>3, ForgottenKeeps, Zenon

\* The end of the session, or the refusal to end it.
LEMMA EndSessionKeeps ==
  ASSUME Inv, NEW listed \in BOOLEAN, NEW failing \in SUBSET Pids, NEW ended \in BOOLEAN,
         EndSession(listed, failing, ended),
         UNCHANGED guards, engine' \in BOOLEAN, inputs' \in Nat,
         engine' => engine /\ (~ended => inputs' = inputs)
  PROVE  Keeps
<1> DEFINE out == Detached(listed, failing)
           took == IF ended THEN Joined \ out ELSE {}
<1>1. out \subseteq Joined /\ took \subseteq Joined
  BY Zenon DEF Detached
<1>2. /\ world' = [p \in Pids |-> IF p \in out THEN "foreign"
                                  ELSE IF p \notin took THEN world[p]
                                  ELSE IF PidReuse THEN "free" ELSE "gone"]
      /\ eid' = [p \in Pids |-> IF p \in out \cup took THEN 0 ELSE eid[p]]
      /\ delivered' = delivered \ (out \cup took)
      /\ attached' = [p \in Pids |-> "no"]
      /\ creates' = IF ended THEN 0 ELSE creates
      /\ attaches' = IF ended THEN {} ELSE attaches
      /\ arrivals' = IF ended THEN forget_all(arrivals) ELSE arrivals
      /\ UNCHANGED wait
  BY Zenon DEF EndSession
<1>3. report' \in [ok : BOOLEAN, took : BOOLEAN, refused : BOOLEAN]
  BY Zenon DEF EndSession, Inv, Typed, DetachFailed
<1> HIDE DEF out, took
<1>4. /\ world' \in [Pids -> {"free", "gone", "foreign", "attached", "launched"}]
      /\ attached' \in [Pids -> {"no", "Deferred", "Joined"}]
      /\ creates' \in Nat
  BY <1>2, Zenon DEF Inv, Typed
<1>5. eid' \in [Pids -> Ids]
  BY <1>2, IdZero, Zenon DEF Inv, Typed
<1>6. /\ attaches' \subseteq Pids
      /\ \A p \in attaches' : world'[p] = "foreign"
  BY <1>1, <1>2, Zenon DEF Inv, Typed, Joined
<1>7. delivered' \subseteq Joined' /\ Given' \subseteq Given
  BY <1>2 DEF Inv, Typed, Joined, Given
<1>8. /\ arrivals' \in Registers(Whats, Entries) /\ Follows(arrivals, arrivals')
      /\ Left(arrivals', guards') /\ Told(arrivals', Given')
  <2>1. CASE ended
    BY <1>2, <2>1, ForgetAllLeaves, Zenon DEF Left, Told
  <2>2. CASE ~ended
    BY <1>2, <1>7, <2>2, ToldLess, Zenon DEF Inv, Typed, Registry, Follows, Ordered
  <2> QED BY <2>1, <2>2, Zenon
<1>9. /\ arrivals \in Registers(Whats, Entries) /\ Ordered(arrivals) /\ Apart(arrivals)
  BY Zenon DEF Inv, Typed, Registry
<1>10. Ordered(arrivals') /\ Apart(arrivals') /\ Final(arrivals, arrivals')
  BY <1>8, <1>9, FollowsApart, Zenon
<1>11. Quiet(arrivals, arrivals')
  BY <1>8, <1>9, FollowsQuiet, Zenon
<1>12. arrivals'.minted = arrivals.minted
  BY <1>8, Zenon DEF Follows
<1>13. Typed'
  BY <1>2, <1>3, <1>4, <1>5, <1>6, <1>7, <1>8, <1>12, ZenonT(30) DEF Inv, Typed
<1>14. InputsOutliveCreates'
  BY <1>2 DEF Inv, InputsOutliveCreates
<1> QED BY <1>8, <1>10, <1>11, <1>13, <1>14, Zenon DEF Keeps, Inv, Registry

\* end_session.
LEMMA EndKeeps ==
  ASSUME Inv, NEW listed \in BOOLEAN, NEW failing \in SUBSET Pids, NEW ended \in BOOLEAN,
         end_session(listed, failing, ended)
  PROVE  Keeps
<1>1. /\ EndSession(listed, failing, ended)
      /\ UNCHANGED <<guards, engine>>
      /\ inputs' = IF ended THEN 0 ELSE inputs
  BY Zenon DEF end_session
<1>2. engine' \in BOOLEAN /\ inputs' \in Nat
  BY <1>1, Zenon DEF Inv, Typed
<1> QED BY <1>1, <1>2, EndSessionKeeps, Zenon

\* The drop of the engine.
LEMMA DropEngineKeeps ==
  ASSUME Inv, NEW listed \in BOOLEAN, NEW failing \in SUBSET Pids, NEW ended \in BOOLEAN,
         DropEngine(listed, failing, ended)
  PROVE  Keeps
<1>1. /\ EndSession(listed, failing, ended)
      /\ engine' = FALSE /\ UNCHANGED <<inputs, guards>>
  BY Zenon DEF DropEngine
<1>2. inputs' \in Nat
  BY <1>1, Zenon DEF Inv, Typed
<1> QED BY <1>1, <1>2, EndSessionKeeps, Zenon

-----------------------------------------------------------------------------
(* The pumps. *)

\* What a wait realises joins the session; what was in it stays, under its id.
LEMMA RealiseJoins ==
  ASSUME Inv, Realise \/ UNCHANGED engineVars
  PROVE  /\ world' \in [Pids -> {"free", "gone", "foreign", "attached", "launched"}]
         /\ eid' \in [Pids -> Ids]
         /\ creates' \in Nat /\ creates' <= creates
         /\ attaches' \subseteq Pids /\ \A p \in attaches' : world'[p] = "foreign"
         /\ \A p \in Joined : world'[p] = world[p] /\ eid'[p] = eid[p]
         /\ \A p \in Pids : world'[p] = "attached" => Pending(p)
<1>1. CASE UNCHANGED engineVars
  BY <1>1 DEF Inv, Typed, engineVars, Joined, Pending
<1>2. CASE Realise
  <2>1. PICK born \in SUBSET {p \in Pids : world[p] = "free"} :
          LET arriving == born \cup attaches
              used == {eid[p] : p \in Joined}
          IN  /\ \E id \in [arriving -> Ids \ used] :
                   eid' = [p \in Pids |-> IF p \in arriving THEN id[p] ELSE eid[p]]
              /\ world' = [p \in Pids |-> IF p \in born THEN "launched"
                                          ELSE IF p \in attaches THEN "attached" ELSE world[p]]
              /\ creates' = 0
              /\ attaches' = {}
    BY <1>2, Zenon DEF Realise
  <2> DEFINE arriving == born \cup attaches
  <2>2. PICK id \in [arriving -> Ids \ {eid[p] : p \in Joined}] :
          eid' = [p \in Pids |-> IF p \in arriving THEN id[p] ELSE eid[p]]
    BY <2>1, Zenon
  <2>3. \A p \in Joined : p \notin arriving
    BY <2>1, Zenon DEF Inv, Typed, Joined
  <2>4. \A p \in arriving : id[p] \in Ids
    BY <2>2, Zenon
  <2> HIDE DEF arriving
  <2>5. eid' \in [Pids -> Ids] /\ \A p \in Joined : eid'[p] = eid[p]
    BY <2>2, <2>3, <2>4, Zenon DEF Inv, Typed, Joined
  <2>6. world' \in [Pids -> {"free", "gone", "foreign", "attached", "launched"}]
    BY <2>1, Zenon DEF Inv, Typed
  <2>7. \A p \in Joined : world'[p] = world[p]
    BY <2>1, <2>3, Zenon DEF arriving, Joined
  <2>8. creates' \in Nat /\ creates' <= creates /\ attaches' = {}
    BY <2>1 DEF Inv, Typed
  <2>9. \A p \in Pids : world'[p] = "attached" => Pending(p)
    BY <2>1, Zenon DEF Pending
  <2> QED BY <2>5, <2>6, <2>7, <2>8, <2>9, ZenonT(30)
<1> QED BY <1>1, <1>2, Zenon

\* What the session held and some open was given is still that.
LEMMA GivenStays ==
  ASSUME Inv, Realise \/ UNCHANGED engineVars
  PROVE  /\ delivered \subseteq Joined'
         /\ {<<eid'[p], p>> : p \in delivered} = Given
<1>1. \A p \in delivered : p \in Joined /\ p \in Pids
  BY Zenon DEF Inv, Typed, Joined
<1>2. \A p \in delivered : p \in Joined' /\ eid'[p] = eid[p]
  BY <1>1, RealiseJoins, Zenon DEF Joined
<1>3. {<<eid'[p], p>> : p \in delivered} = {<<eid[p], p>> : p \in delivered}
  BY <1>2, Zenon
<1> QED BY <1>2, <1>3, Zenon DEF Given

\* The record after a stop is noted.
LEMMA NotedTyped ==
  ASSUME Inv, NEW held
  PROVE  note_attachments_present(attached, held) \in [Pids -> {"no", "Deferred", "Joined"}]
BY Zenon DEF Inv, Typed, note_attachments_present

\* A stop is recorded: it is given to the first open that waits for it, or to none.
LEMMA StopKeeps ==
  ASSUME Inv, Realise \/ UNCHANGED engineVars,
         NEW who \in Pids, record_where_it_stopped(who)
  PROVE  /\ arrivals' \in Registers(Whats, Entries) /\ arrivals'.minted = arrivals.minted
         /\ Ordered(arrivals') /\ Apart(arrivals') /\ Left(arrivals', guards)
         /\ Told(arrivals', Given') /\ Final(arrivals, arrivals')
         /\ delivered' \subseteq Joined'
         /\ attached' \in [Pids -> {"no", "Deferred", "Joined"}]
<1> DEFINE noted == note_attachments_present(attached, session_processes')
           pids == {p \in Pids : noted[p] # "no"}
           entry == <<eid'[who], who>>
           takers == Takers(arrivals, entry, pids)
<1>1. /\ attached' = noted
      /\ \/ /\ who \in Joined'
            /\ arrivals' = deliver(arrivals, entry, pids)
            /\ delivered' = IF takers = {} THEN delivered ELSE delivered \cup {who}
         \/ UNCHANGED <<arrivals, delivered>>
  BY Zenon DEF record_where_it_stopped
<1>2. attached' \in [Pids -> {"no", "Deferred", "Joined"}]
  BY <1>1, NotedTyped, Zenon
<1>3. /\ arrivals \in Registers(Whats, Entries) /\ Ordered(arrivals) /\ Apart(arrivals)
      /\ Left(arrivals, guards) /\ Told(arrivals, Given) /\ Given \cap Marks = {}
  BY ProcessesAreEntries, Zenon DEF Inv, Typed, Registry
<1>4. entry \in Entries /\ entry \notin Marks
  <2>1. eid' \in [Pids -> Ids]
    BY RealiseJoins, Zenon
  <2> QED BY <2>1, EntriesUnmarked, Zenon DEF Entries
<1> HIDE DEF noted, pids
<1>5. CASE UNCHANGED <<arrivals, delivered>>
  <2>1. Given' = Given /\ delivered' \subseteq Joined'
    BY <1>5, GivenStays, Zenon DEF Given
  <2>2. Final(arrivals, arrivals')
    BY <1>5, RegisterAlone, Zenon
  <2> QED BY <1>2, <1>3, <1>5, <2>1, <2>2, Zenon
<1>6. CASE /\ who \in Joined'
           /\ arrivals' = deliver(arrivals, entry, pids)
           /\ delivered' = IF takers = {} THEN delivered ELSE delivered \cup {who}
  <2>1. /\ arrivals' \in Registers(Whats, Entries) /\ arrivals'.minted = arrivals.minted
        /\ Ordered(arrivals') /\ Apart(arrivals') /\ Final(arrivals, arrivals')
        /\ Left(arrivals', guards)
    <3>1. arrivals' \in Registers(Whats, Entries) /\ arrivals'.minted = arrivals.minted
      <4>1. arrivals \in Registers(Whats, Entries) /\ entry \in Entries
        BY <1>3, <1>4, Zenon
      <4> HIDE DEF entry, takers
      <4>2. /\ deliver(arrivals, entry, pids) \in Registers(Whats, Entries)
            /\ deliver(arrivals, entry, pids).minted = arrivals.minted
        BY <4>1, DeliverTyped
      <4> QED BY <1>6, <4>2, Zenon
    <3>2. Ordered(arrivals') /\ Apart(arrivals') /\ Final(arrivals, arrivals')
      BY <1>3, <1>4, <1>6, DeliverApart, ZenonT(30)
    <3>3. Left(arrivals', guards)
      BY <1>3, <1>4, <1>6, DeliverLeft, ZenonT(30)
    <3> QED BY <3>1, <3>2, <3>3, ZenonT(30)
  <2>2. Told(arrivals', IF takers = {} THEN Given ELSE Given \cup {entry})
    BY <1>3, <1>4, <1>6, DeliverTold, ZenonT(30)
  <2>3. Given' = IF takers = {} THEN Given ELSE Given \cup {entry}
    BY <1>6, GivenStays, Zenon DEF Given
  <2>4. delivered' \subseteq Joined'
    BY <1>6, GivenStays, Zenon
  <2> QED BY <1>2, <2>1, <2>2, <2>3, <2>4, ZenonT(30)
<1> QED BY <1>1, <1>5, <1>6, Zenon

\* What a pump does, whoever pumps.
Pumps ==
  /\ Stopped \/ Expired \/ OnRequest
  /\ UNCHANGED <<inputs, guards, engine, report>>
  /\ wait' \in [id : {wait.id}, waited : BOOLEAN, asked : BOOLEAN]

\* Both kinds of pump are one.
LEMMA PumpsAlike ==
  ASSUME Inv, Pump \/ WaitPump
  PROVE  Pumps
<1>1. wait \in [id : {wait.id}, waited : BOOLEAN, asked : BOOLEAN]
  BY Zenon DEF Inv, Typed
<1>2. CASE Pump
  BY <1>1, <1>2, Zenon DEF Pump, Pumps
<1>3. CASE WaitPump
  <2>1. wait' \in [id : {wait.id}, waited : BOOLEAN, asked : BOOLEAN]
    BY <1>1, <1>3, Zenon DEF WaitPump
  <2> QED BY <1>3, <2>1, Zenon DEF WaitPump, Pumps
<1> QED BY <1>2, <1>3, Zenon

\* What a pump records, if anything.
LEMMA PumpRecords ==
  ASSUME Pumps
  PROVE  /\ Realise \/ UNCHANGED engineVars
         /\ (\E who \in Pids : record_where_it_stopped(who)) \/ NothingRecorded
BY Zenon DEF Pumps, Stopped, Expired, OnRequest

\* A pump keeps the invariant, and what was given stays given.
LEMMA PumpKeeps ==
  ASSUME Inv, Pumps
  PROVE  Inv' /\ Final(arrivals, arrivals')
<1>1. Realise \/ UNCHANGED engineVars
  BY PumpRecords, Zenon
<1>2. UNCHANGED <<inputs, guards, engine, report>>
  BY Zenon DEF Pumps
<1>3. /\ arrivals' \in Registers(Whats, Entries) /\ arrivals'.minted = arrivals.minted
      /\ Ordered(arrivals') /\ Apart(arrivals') /\ Left(arrivals', guards)
      /\ Told(arrivals', Given') /\ Final(arrivals, arrivals')
      /\ delivered' \subseteq Joined'
      /\ attached' \in [Pids -> {"no", "Deferred", "Joined"}]
  <2>1. CASE \E who \in Pids : record_where_it_stopped(who)
    BY <1>1, <2>1, StopKeeps, Zenon
  <2>2. CASE NothingRecorded
    <3>1. UNCHANGED <<arrivals, attached, delivered>>
      BY <2>2, Zenon DEF NothingRecorded
    <3>2. Given' = Given /\ delivered' \subseteq Joined'
      BY <1>1, <3>1, GivenStays, Zenon DEF Given
    <3>3. Final(arrivals, arrivals')
      BY <3>1, RegisterAlone, Zenon
    <3> QED BY <3>1, <3>2, <3>3, Zenon DEF Inv, Typed, Registry
  <2> QED BY <2>1, <2>2, PumpRecords, Zenon
<1>4. /\ world' \in [Pids -> {"free", "gone", "foreign", "attached", "launched"}]
      /\ eid' \in [Pids -> Ids]
      /\ creates' \in Nat /\ creates' <= creates
      /\ attaches' \subseteq Pids /\ \A p \in attaches' : world'[p] = "foreign"
  BY <1>1, RealiseJoins, Zenon
<1>5. wait' \in [id : guards' \cup {0}, waited : BOOLEAN, asked : BOOLEAN]
  BY <1>2, Zenon DEF Pumps, Inv, Typed
<1>6. Typed'
  BY <1>2, <1>3, <1>4, <1>5, Zenon DEF Inv, Typed
<1>7. InputsOutliveCreates'
  <2>1. creates \in Nat /\ inputs \in Nat /\ (engine => creates <= inputs)
    BY Zenon DEF Inv, Typed, InputsOutliveCreates
  <2>2. creates <= inputs => creates' <= inputs'
    BY <1>2, <1>4, <2>1, SMTT(30)
  <2> QED BY <1>2, <2>1, <2>2, Zenon DEF InputsOutliveCreates
<1> QED BY <1>2, <1>3, <1>6, <1>7, ZenonT(30) DEF Inv, Registry

-----------------------------------------------------------------------------
(* The promises of the register. *)

\* A session begins with an empty register.
LEMMA Initially ==
  ASSUME Init
  PROVE  Inv
<1>1. arrivals \in Registers(Whats, Entries) /\ arrivals.minted = 0 /\ Slots(arrivals) = {}
  BY DEF Init, NewArrivals, Registers, Slots
<1>2. eid \in [Pids -> Ids]
  BY IdZero, Zenon DEF Init
<1>3. wait \in [id : guards \cup {0}, waited : BOOLEAN, asked : BOOLEAN]
  BY Zenon DEF Init, Idle
<1>4. report \in [ok : BOOLEAN, took : BOOLEAN, refused : BOOLEAN]
  BY Zenon DEF Init
<1>5. Typed
  BY <1>1, <1>2, <1>3, <1>4, OpensAssumption, SMTT(30) DEF Init, Typed
<1>6. Registry
  BY <1>1, Zenon DEF Registry, Ordered, Apart, Left, Told
<1> QED BY <1>5, <1>6, SMTT(30) DEF Inv, InputsOutliveCreates, Init

\* The steps but the pumps.
LEMMA OtherSteps ==
  ASSUME Inv, Next
  PROVE  Keeps \/ Pumps
<1>1. ASSUME NEW p \in Pids, Exit(p) \/ Spawn(p) \/ Detach(p) PROVE Keeps
  BY <1>1, ExitKeeps, SpawnKeeps, DetachKeeps, Zenon
<1>2. ASSUME NEW pruned \in BOOLEAN, NEW listed \in BOOLEAN, NEW accepted \in BOOLEAN,
             launch_process_begin(pruned, listed, accepted)
      PROVE  Keeps
  BY <1>2, LaunchKeeps, Zenon
<1>3. ASSUME NEW p \in Pids, NEW pruned \in BOOLEAN, attach_process_begin(p, pruned)
      PROVE  Keeps
  BY <1>3, AttachKeeps, Zenon
<1>4. ASSUME NEW id \in guards, DropGuard(id) \/ WaitBegin(id) PROVE Keeps
  BY <1>4, DropGuardKeeps, WaitBeginKeeps, Zenon
<1>5. CASE WaitReturn \/ WaitTimeout \/ WaitFails
  BY <1>5, WaitEndsKeeps, Zenon DEF WaitEnds
<1>6. ASSUME NEW listed \in BOOLEAN, NEW ended \in BOOLEAN, NEW failing \in SUBSET Pids,
             end_session(listed, failing, ended) \/ DropEngine(listed, failing, ended)
      PROVE  Keeps
  BY <1>6, EndKeeps, DropEngineKeeps, Zenon
<1> QED BY <1>1, <1>2, <1>3, <1>4, <1>5, <1>6, OpenDumpKeeps, PumpsAlike, ZenonT(30) DEF Next

\* A step that changes nothing.
LEMMA StutterKeeps ==
  ASSUME Inv, UNCHANGED vars
  PROVE  Keeps
<1>1. UNCHANGED <<world, eid, creates, attaches, inputs, arrivals, attached, guards, wait,
                  engine, delivered, owed, report>>
  BY Zenon DEF vars, engineVars, history
<1>2. Inv'
  BY <1>1 DEF Inv, Typed, Registry, InputsOutliveCreates, Given, Joined
<1> QED BY <1>1, <1>2, RegisterAlone, Zenon DEF Keeps

\* Every step keeps the invariant, and is a pump or gives nothing.
LEMMA StepKeeps ==
  ASSUME Inv, [Next]_vars
  PROVE  Inv' /\ Final(arrivals, arrivals') /\ (Quiet(arrivals, arrivals') \/ Pumps)
<1>1. Keeps \/ Pumps
  BY OtherSteps, StutterKeeps, Zenon
<1>2. CASE Pumps
  BY <1>2, PumpKeeps, Zenon
<1> QED BY <1>1, <1>2, Zenon DEF Keeps

\* The register's invariant holds in every behaviour, whatever the constants.
THEOREM InvHolds == Spec => []Inv
<1>1. Init => Inv
  BY Initially, Zenon
<1>2. Inv /\ [Next]_vars => Inv'
  BY StepKeeps, Zenon
<1> QED BY <1>1, <1>2, PTL DEF Spec

\* Every variable keeps its type, and no open has two places in the register.
THEOREM TypeCorrect == Spec => []TypeOK
<1>1. Inv => TypeOK
  <2> SUFFICES ASSUME Inv PROVE TypeOK
    BY Zenon
  <2>1. /\ arrivals \in Registers(Whats, Entries) /\ arrivals.minted \in Nat
        /\ arrivals.minted <= MaxOpens
    BY RowsTyped, Zenon DEF Inv, Typed
  <2>2. arrivals.minted \in 0..MaxOpens
    BY <2>1, OpensAssumption, SMTT(30)
  <2>3. ASSUME NEW i \in Slots(arrivals)
        PROVE  /\ arrivals.pending[i].id \in 1..arrivals.minted
               /\ arrivals.pending[i].claim \in Entries \cup {Waiting, Departed}
               /\ arrivals.pending[i].inherited \subseteq Entries
               /\ arrivals.pending[i].abandoned => arrivals.pending[i].id \notin guards
    BY <2>1, FieldsTyped, Zenon DEF Inv, Registry, Ordered, Left
  <2>4. \A i, j \in Slots(arrivals) : i < j => arrivals.pending[i].id < arrivals.pending[j].id
    BY Zenon DEF Inv, Registry, Ordered
  <2>5. wait.id \in guards \cup {0}
    BY SMTT(30) DEF Inv, Typed
  <2> QED BY <2>2, <2>3, <2>4, <2>5, Zenon DEF Inv, Typed, TypeOK
<1> QED BY <1>1, InvHolds, PTL

\* No two opens ever hold a claim on one process (Pending::wants).
THEOREM ClaimsDistinctHolds == Spec => []ClaimsDistinct
<1>1. Inv => ClaimsDistinct
  BY Zenon DEF Inv, Registry, Apart, Marks, ClaimsDistinct
<1> QED BY <1>1, InvHolds, PTL

\* The command line of every create that is still owed is alive (retain_deferred_input).
THEOREM InputsOutliveCreatesHolds == Spec => []InputsOutliveCreates
<1>1. Inv => InputsOutliveCreates
  BY Zenon DEF Inv
<1> QED BY <1>1, InvHolds, PTL

\* What an open was given is final (Claim::Departed).
THEOREM ClaimsFinalHolds == Spec => ClaimsFinal
<1>1. Inv /\ [Next]_vars =>
        [\A i \in Slots(arrivals), j \in 1..Len(arrivals'.pending) :
           LET old == arrivals.pending[i]
               new == arrivals'.pending[j]
           IN  old.id = new.id /\ old.claim # Waiting => new.claim \in {old.claim, Departed}]_vars
  BY StepKeeps, Zenon DEF Final, Slots
<1> QED BY <1>1, InvHolds, PTL DEF Spec, ClaimsFinal

\* A stop is delivered to nobody when some open was given its process before.
LEMMA DeliveredOnce ==
  ASSUME Inv, Pumps, NEW i \in GivenSlots
  PROVE  arrivals'.pending[i].claim[2] \notin delivered
<1>1. /\ i \in Slots(arrivals)
      /\ arrivals.pending[i].claim = Waiting
      /\ arrivals'.pending[i].claim \notin {Waiting, Departed}
  BY Zenon DEF GivenSlots
<1>2. ~UNCHANGED arrivals
  BY <1>1, Zenon
<1>3. PICK who \in Pids : record_where_it_stopped(who)
  BY <1>2, PumpRecords, Zenon DEF NothingRecorded
<1> DEFINE noted == note_attachments_present(attached, session_processes')
           pids == {p \in Pids : noted[p] # "no"}
           entry == <<eid'[who], who>>
           takers == Takers(arrivals, entry, pids)
<1>4. arrivals' = deliver(arrivals, entry, pids)
  BY <1>2, <1>3, Zenon DEF record_where_it_stopped
<1>5. arrivals \in Registers(Whats, Entries) /\ Told(arrivals, Given)
  BY Zenon DEF Inv, Typed, Registry
<1>6. entry \in Entries /\ entry[2] = who
  BY PumpRecords, RealiseJoins, ZenonT(30) DEF Entries
<1> HIDE DEF noted, pids, entry
<1>7. PICK first \in takers :
        /\ \A j \in Slots(arrivals) \ {first} : arrivals'.pending[j] = arrivals.pending[j]
        /\ arrivals'.pending[first].claim = entry
  BY <1>2, <1>4, <1>5, <1>6, DeliverRows, SMTT(30)
<1>8. i = first
  BY <1>1, <1>7, SMTT(30)
<1>9. i \in takers
  BY <1>8, Zenon
<1>10. wants(arrivals, i, entry, pids)
  BY <1>9, Zenon DEF Takers
<1>11. entry \notin Given
  BY <1>1, <1>5, <1>10, BarredIsUnwanted, ZenonT(30) DEF Told
<1>12. who \in delivered => entry \in Given
  BY PumpRecords, GivenStays, Zenon DEF entry
<1> QED BY <1>6, <1>7, <1>8, <1>11, <1>12, SMTT(30)

\* What a quiet step does not do.
LEMMA QuietGives ==
  ASSUME Quiet(arrivals, arrivals')
  PROVE  GivenSlots = {}
BY Zenon DEF Quiet, GivenSlots, Marks

\* No process is given to two opens while the session holds it (Arrivals::discard).
THEOREM NeverGivenTwiceHolds == Spec => NeverGivenTwice
<1>1. Inv /\ [Next]_vars =>
        [\A i \in GivenSlots : arrivals'.pending[i].claim[2] \notin delivered]_vars
  BY StepKeeps, DeliveredOnce, QuietGives, Zenon
<1> QED BY <1>1, InvHolds, PTL DEF Spec, NeverGivenTwice

-----------------------------------------------------------------------------
(***************************************************************************)
(* What the openers of Session rely on that the register alone does not    *)
(* give: the order of the launches (Queue), where an opener's prune is     *)
(* answered, and the record of attached processes (Record), where besides  *)
(* a pid is not attached to again while the guard of an earlier attach to  *)
(* it is alive.  Both rest on the register's invariant.                    *)
(***************************************************************************)

Deferred == {p \in Pids : attached[p] = "Deferred"}

\* The entries under a pid whose attach is owed or joined and not yet noted.
Unnoted == {e \in Entries : e[2] \in Deferred /\ Pending(e[2])}

\* The record of attached processes.
Record ==
  /\ attaches \subseteq Deferred
  /\ \A p \in Pids : world[p] = "attached" => attached[p] # "no"
  /\ wait.id # 0 /\ wait.waited /\ ~wait.asked => attaches = {}
  /\ Settled(arrivals, guards, Deferred)
  /\ Clear(arrivals, Unnoted)

RecordUntilRefused == report.refused \/ Record

\* The launches in their queue.
Queue == Carried(arrivals) /\ Queued(arrivals, owed)

-----------------------------------------------------------------------------
(* The order of the launches, where an opener's prune is answered. *)

\* What an answered prune leaves.
LEMMA PruneAnswered ==
  ASSUME Inv
  PROVE  LET left == Pruned(TRUE, arrivals, attached)
         IN  /\ left.arrivals = forget_departed(arrivals, session_processes)
             /\ left.attached = retained(attached, session_processes)
             /\ left.arrivals \in Registers(Whats, Entries)
             /\ Ordered(left.arrivals)
             /\ \A i \in Slots(left.arrivals) :
                  left.arrivals.pending[i].inherited \subseteq session_processes
<1> DEFINE left == Pruned(TRUE, arrivals, attached)
<1>1. /\ left.arrivals = forget_departed(arrivals, session_processes)
      /\ left.attached = retained(attached, session_processes)
  BY Zenon DEF Pruned
<1>2. /\ arrivals \in Registers(Whats, Entries) /\ Ordered(arrivals) /\ Apart(arrivals)
  BY Zenon DEF Inv, Typed, Registry
<1> HIDE DEF left
<1>3. left.arrivals \in Registers(Whats, Entries)
  BY <1>1, <1>2, ForgetDepartedRows
<1>4. \A i \in Slots(left.arrivals) :
        left.arrivals.pending[i].inherited \subseteq session_processes
  BY <1>1, <1>2, ForgetDepartedRows
<1>5. Ordered(left.arrivals)
  BY <1>1, <1>2, <1>3, ForgetDepartedFollows, FollowsApart, SMTT(30)
<1> QED BY <1>1, <1>3, <1>4, <1>5, Zenon DEF left

\* A step of the queue.
LEMMA LaunchQueue ==
  ASSUME Inv, Queue, PruneMayFail = FALSE,
         NEW pruned \in BOOLEAN, NEW listed \in BOOLEAN, NEW accepted \in BOOLEAN,
         launch_process_begin(pruned, listed, accepted)
  PROVE  Queue'
<1> DEFINE left == Pruned(TRUE, arrivals, attached)
           what == IF listed THEN Launched(session_processes) ELSE Unlisted
<1>1. \/ arrivals' = left.arrivals /\ UNCHANGED owed
      \/ /\ arrivals' = register(left.arrivals, what)
         /\ owed' = IF listed THEN owed \cup {arrivals'.minted} ELSE owed
  BY Zenon DEF launch_process_begin
<1>2. /\ left.arrivals \in Registers(Whats, Entries)
      /\ Ordered(left.arrivals)
      /\ left.arrivals = forget_departed(arrivals, session_processes)
      /\ \A i \in Slots(left.arrivals) :
           left.arrivals.pending[i].inherited \subseteq session_processes
  BY PruneAnswered, Zenon
<1>3. Carried(left.arrivals) /\ Queued(left.arrivals, owed)
  <2> HIDE DEF left
  <2>1. arrivals \in Registers(Whats, Entries) /\ Carried(arrivals) /\ Queued(arrivals, owed)
    BY Zenon DEF Queue, Inv, Typed
  <2>2. /\ Carried(forget_departed(arrivals, session_processes))
        /\ Queued(forget_departed(arrivals, session_processes), owed)
    BY <2>1, ForgetDepartedQueue, Zenon
  <2> QED BY <1>2, <2>2, Zenon
<1>4. /\ what \in Whats
      /\ listed => what.kind = "Launched" /\ what.before = session_processes
      /\ ~listed => what.kind = "Unlisted"
  BY OpensAreWhats, Zenon DEF Inv, Launched, Unlisted
<1> HIDE DEF left, what
<1>5. CASE arrivals' = left.arrivals /\ UNCHANGED owed
  BY <1>3, <1>5, Zenon DEF Queue
<1>6. CASE /\ arrivals' = register(left.arrivals, what)
           /\ owed' = IF listed THEN owed \cup {arrivals'.minted} ELSE owed
  <2>1. what.kind = "Launched" =>
          \A i \in Slots(left.arrivals) : left.arrivals.pending[i].inherited \subseteq what.before
    BY <1>2, <1>4, Zenon
  <2>2. /\ Carried(arrivals') /\ Queued(arrivals', owed)
        /\ what.kind = "Launched" => Queued(arrivals', owed \cup {arrivals'.minted})
    BY <1>2, <1>3, <1>4, <1>6, <2>1, RegisterQueue, SMTT(30)
  <2> QED BY <1>4, <1>6, <2>2, Zenon DEF Queue
<1> QED BY <1>1, <1>5, <1>6, Zenon

\* An attach does not join the queue.
LEMMA AttachQueue ==
  ASSUME Inv, Queue, PruneMayFail = FALSE,
         NEW p \in Pids, NEW pruned \in BOOLEAN, attach_process_begin(p, pruned)
  PROVE  Queue'
<1> DEFINE left == Pruned(TRUE, arrivals, attached)
<1>1. arrivals' = register(left.arrivals, Attached(p)) /\ UNCHANGED owed
  BY Zenon DEF attach_process_begin, history
<1>2. /\ left.arrivals \in Registers(Whats, Entries)
      /\ Ordered(left.arrivals)
      /\ left.arrivals = forget_departed(arrivals, session_processes)
  BY PruneAnswered, Zenon
<1>3. Carried(left.arrivals) /\ Queued(left.arrivals, owed)
  <2> HIDE DEF left
  <2>1. arrivals \in Registers(Whats, Entries) /\ Carried(arrivals) /\ Queued(arrivals, owed)
    BY Zenon DEF Queue, Inv, Typed
  <2>2. /\ Carried(forget_departed(arrivals, session_processes))
        /\ Queued(forget_departed(arrivals, session_processes), owed)
    BY <2>1, ForgetDepartedQueue, Zenon
  <2> QED BY <1>2, <2>2, Zenon
<1>4. Attached(p) \in Whats /\ Attached(p).kind # "Launched"
  BY OpensAreWhats, Zenon DEF Inv, Attached
<1> HIDE DEF left
<1>5. Carried(arrivals') /\ Queued(arrivals', owed)
  BY <1>1, <1>2, <1>3, <1>4, RegisterQueue, Zenon
<1> QED BY <1>1, <1>5, Zenon DEF Queue

\* A guard that goes does not leave the queue; a wait that times out does.
LEMMA ForgetQueueStep ==
  ASSUME Inv, Queue, (\E id \in guards : DropGuard(id)) \/ WaitEnds
  PROVE  Queue'
<1>1. /\ arrivals \in Registers(Whats, Entries) /\ Ordered(arrivals) /\ Apart(arrivals)
      /\ Carried(arrivals) /\ Queued(arrivals, owed)
  BY Zenon DEF Inv, Typed, Registry, Queue
<1>2. ASSUME NEW id, arrivals' = forget(arrivals, id), UNCHANGED owed
      PROVE  Queue'
  BY <1>1, <1>2, ForgetQueue, Zenon DEF Queue
<1>3. ASSUME arrivals' = forget(discard(arrivals, wait.id), wait.id), owed' = owed \ {wait.id}
      PROVE  Queue'
  <2> DEFINE as == discard(arrivals, wait.id)
  <2>1. Queued(arrivals, owed')
    BY <1>1, <1>3, Zenon DEF Queued
  <2>2. wait.id \notin owed'
    BY <1>3, Zenon
  <2>3. Carried(as) /\ Queued(as, owed')
    BY <1>1, <2>1, <2>2, DiscardQueue, Zenon
  <2>4. as \in Registers(Whats, Entries) /\ Ordered(as)
    BY <1>1, DiscardRows, DiscardFollows, FollowsApart, Zenon
  <2> QED BY <1>3, <2>3, <2>4, ForgetQueue, Zenon DEF Queue
<1>4. \/ \E id : arrivals' = forget(arrivals, id) /\ UNCHANGED owed
      \/ arrivals' = forget(discard(arrivals, wait.id), wait.id) /\ owed' = owed \ {wait.id}
  BY Zenon DEF DropGuard, WaitEnds, WaitReturn, WaitTimeout, WaitFails, Done, history
<1> QED BY <1>2, <1>3, <1>4, Zenon

\* A stop takes the first that is given it out of the queue.
LEMMA PumpQueue ==
  ASSUME Inv, Queue, Pumps
  PROVE  Queue'
<1>1. CASE NothingRecorded
  BY <1>1, Zenon DEF NothingRecorded, Queue
<1>2. ASSUME NEW who \in Pids, record_where_it_stopped(who)
      PROVE  Queue'
  <2> DEFINE noted == note_attachments_present(attached, session_processes')
             pids == {p \in Pids : noted[p] # "no"}
             entry == <<eid'[who], who>>
             takers == Takers(arrivals, entry, pids)
             firsts == {i \in takers : \A k \in takers : i <= k}
  <2>1. \/ UNCHANGED <<arrivals, owed>>
        \/ /\ arrivals' = deliver(arrivals, entry, pids)
           /\ owed' = owed \ {arrivals.pending[i].id : i \in firsts}
    BY <1>2, Zenon DEF record_where_it_stopped
  <2>2. entry \in Entries
    BY PumpRecords, RealiseJoins, Zenon DEF Entries
  <2> HIDE DEF noted, pids, entry
  <2>3. CASE UNCHANGED <<arrivals, owed>>
    BY <2>3, Zenon DEF Queue
  <2>4. CASE /\ arrivals' = deliver(arrivals, entry, pids)
             /\ owed' = owed \ {arrivals.pending[i].id : i \in firsts}
    <3>1. /\ arrivals \in Registers(Whats, Entries)
          /\ Carried(arrivals) /\ Queued(arrivals, owed)
      BY Zenon DEF Inv, Typed, Queue
    <3>2. /\ Carried(deliver(arrivals, entry, pids))
          /\ Queued(deliver(arrivals, entry, pids),
                    owed \ {arrivals.pending[i].id : i \in firsts})
      BY <2>2, <3>1, DeliverQueue
    <3> QED BY <2>4, <3>2, Zenon DEF Queue
  <2> QED BY <2>1, <2>3, <2>4, Zenon
<1> QED BY <1>1, <1>2, PumpRecords, Zenon

\* A session that ends, or is replaced, has no queue.
LEMMA EmptyQueue ==
  ASSUME NEW a, a.pending = <<>>
  PROVE  Carried(a) /\ Queued(a, {})
BY DEF Carried, Queued, Slots

\* Every step keeps the queue.
LEMMA StepQueue ==
  ASSUME Inv, Queue, PruneMayFail = FALSE, [Next]_vars
  PROVE  Queue'
<1>1. ASSUME UNCHANGED <<arrivals, owed>> PROVE Queue'
  BY <1>1, Zenon DEF Queue
<1>2. ASSUME arrivals' = forget_all(arrivals), owed' = {} PROVE Queue'
  <2>1. arrivals'.pending = <<>>
    BY <1>2, Zenon DEF forget_all, Inv, Typed, Registers
  <2> QED BY <1>2, <2>1, EmptyQueue, Zenon DEF Queue
<1>3. ASSUME NEW p \in Pids, Exit(p) \/ Spawn(p) \/ Detach(p) PROVE Queue'
  BY <1>1, <1>3, Zenon DEF Exit, Spawn, Detach, history
<1>4. ASSUME NEW id \in guards, DropGuard(id) \/ WaitBegin(id) PROVE Queue'
  <2>1. CASE DropGuard(id)
    BY <2>1, ForgetQueueStep, Zenon
  <2>2. CASE WaitBegin(id)
    BY <1>1, <2>2, Zenon DEF WaitBegin, history
  <2> QED BY <1>4, <2>1, <2>2, Zenon
<1>5. ASSUME NEW listed \in BOOLEAN, NEW ended \in BOOLEAN, NEW failing \in SUBSET Pids,
             end_session(listed, failing, ended) \/ DropEngine(listed, failing, ended)
      PROVE  Queue'
  <2>1. EndSession(listed, failing, ended)
    BY <1>5, Zenon DEF end_session, DropEngine
  <2>2. \/ UNCHANGED <<arrivals, owed>>
        \/ arrivals' = forget_all(arrivals) /\ owed' = {}
    BY <2>1, Zenon DEF EndSession
  <2> QED BY <1>1, <1>2, <2>2, Zenon
<1>6. CASE open_dump
  BY <1>2, <1>6, Zenon DEF open_dump
<1>7. CASE Pump \/ WaitPump
  BY <1>7, PumpsAlike, PumpQueue, SMTT(30)
<1>8. CASE WaitReturn \/ WaitTimeout \/ WaitFails
  BY <1>8, ForgetQueueStep, Zenon DEF WaitEnds
<1>9. CASE UNCHANGED vars
  BY <1>1, <1>9, Zenon DEF vars, history
<1> QED BY <1>3, <1>4, <1>5, <1>6, <1>7, <1>8, <1>9, LaunchQueue, AttachQueue, ZenonT(30) DEF Next

\* A launch that is given a process passes over no launch of the queue but for its
\* snapshot.
LEMMA InOrder ==
  ASSUME Inv, Queue, Pumps, NEW i \in GivenSlots, NEW early \in owed,
         arrivals.pending[i].what.kind = "Launched", early < arrivals.pending[i].id
  PROVE  \E j \in SlotOf(arrivals, early) :
           arrivals'.pending[i].claim \in arrivals.pending[j].what.before
<1>1. /\ i \in Slots(arrivals)
      /\ arrivals.pending[i].claim = Waiting
      /\ arrivals'.pending[i].claim \notin {Waiting, Departed}
  BY Zenon DEF GivenSlots
<1>2. ~UNCHANGED arrivals
  BY <1>1, Zenon
<1>3. PICK who \in Pids : record_where_it_stopped(who)
  BY <1>2, PumpRecords, Zenon DEF NothingRecorded
<1> DEFINE noted == note_attachments_present(attached, session_processes')
           pids == {p \in Pids : noted[p] # "no"}
           entry == <<eid'[who], who>>
           takers == Takers(arrivals, entry, pids)
<1>4. arrivals' = deliver(arrivals, entry, pids)
  BY <1>2, <1>3, Zenon DEF record_where_it_stopped
<1>5. arrivals \in Registers(Whats, Entries) /\ Ordered(arrivals) /\ Carried(arrivals)
  BY Zenon DEF Inv, Typed, Registry, Queue
<1>6. entry \in Entries /\ entry \notin Marks
  BY PumpRecords, RealiseJoins, EntriesUnmarked, ZenonT(30) DEF Entries
<1> HIDE DEF noted, pids, entry
<1>7. PICK first \in takers :
        /\ \A k \in takers : first <= k
        /\ \A j \in Slots(arrivals) \ {first} : arrivals'.pending[j] = arrivals.pending[j]
        /\ arrivals'.pending[first].claim = entry
  BY <1>2, <1>4, <1>5, <1>6, DeliverRows, SMTT(30)
<1>8. i = first
  BY <1>1, <1>7, Zenon
<1>9. PICK j \in SlotOf(arrivals, early) : WaitingLaunch(arrivals.pending[j])
  BY Zenon DEF Queue, Queued
<1>10. j \in Slots(arrivals) /\ arrivals.pending[j].id = early
  BY <1>9, Zenon DEF SlotOf
<1>11. entry \in arrivals.pending[j].what.before
  BY <1>5, <1>6, <1>7, <1>8, <1>9, <1>10, FirstLaunchTakes, ZenonT(30)
<1> QED BY <1>7, <1>8, <1>9, <1>11, SMTT(30)

\* Launches are given their processes in order, but for a stale snapshot, where an
\* opener's prune is answered (Arrivals::forget, Pending::wants).
THEOREM LaunchesInOrderHolds ==
  ASSUME PruneMayFail = FALSE
  PROVE  Spec => LaunchesInOrder
<1>1. Init => Queue
  <2> SUFFICES ASSUME Init PROVE Queue
    BY Zenon
  <2>1. arrivals.pending = <<>> /\ owed = {}
    BY Zenon DEF Init, NewArrivals
  <2> QED BY <2>1, EmptyQueue, Zenon DEF Queue
<1>2. Inv /\ Queue /\ [Next]_vars => Queue'
  BY StepQueue, Zenon
<1>3. Inv /\ Queue /\ [Next]_vars =>
        [\A i \in GivenSlots, early \in owed :
           LET late == arrivals.pending[i]
           IN  late.what.kind = "Launched" /\ early < late.id =>
                 \E j \in SlotOf(arrivals, early) :
                   arrivals'.pending[i].claim \in arrivals.pending[j].what.before]_vars
  BY StepKeeps, InOrder, QuietGives, Zenon
<1> QED BY <1>1, <1>2, <1>3, InvHolds, PTL DEF Spec, LaunchesInOrder

-----------------------------------------------------------------------------
(* The record of attached processes, where a pid is not attached to again  *)
(* while the guard of an earlier attach to it is alive.                    *)

\* A step that gives nobody anything, drops guards and records and keeps what is owed.
LEMMA RecordLess ==
  ASSUME Inv, Record, Follows(arrivals, arrivals'), Clear(arrivals', Unnoted),
         guards' \subseteq guards, Deferred' \subseteq Deferred, Unnoted' \subseteq Unnoted,
         attaches' \subseteq Deferred',
         \A p \in Pids : world'[p] = "attached" => attached'[p] # "no",
         (wait.id # 0 /\ wait.waited /\ ~wait.asked => attaches = {})'
  PROVE  Record'
<1>1. Settled(arrivals', guards', Deferred')
  BY FollowsSettled, Zenon DEF Record
<1>2. Clear(arrivals', Unnoted')
  BY Zenon DEF Clear
<1> QED BY <1>1, <1>2, Zenon DEF Record

\* The register follows itself.
LEMMA FollowsSame ==
  ASSUME Inv
  PROVE  Follows(arrivals, arrivals)
BY Zenon DEF Follows, Ordered, Inv, Registry

\* An empty register settles everything.
LEMMA EmptyRecord ==
  ASSUME NEW a, a.pending = <<>>, NEW G, NEW S, NEW F
  PROVE  Settled(a, G, S) /\ Clear(a, F)
BY DEF Settled, Clear, Slots

\* The operating system only takes processes away from the record's care.
LEMMA SystemRecord ==
  ASSUME Inv, Record, NEW p \in Pids, Exit(p) \/ Spawn(p) \/ Detach(p)
  PROVE  Record'
<1>1. /\ UNCHANGED <<arrivals, attached, guards, wait>>
      /\ attaches' \subseteq attaches
  BY Zenon DEF Exit, Spawn, Detach
<1>2. \A q \in Pids : world'[q] = "attached" => world[q] = "attached"
  BY DEF Exit, Spawn, Detach, Leave, Inv, Typed
<1>3. Deferred' = Deferred
  BY <1>1, Zenon DEF Deferred
<1>4. Unnoted' \subseteq Unnoted
  BY <1>1, <1>2, <1>3, Zenon DEF Unnoted, Pending, Entries
<1>5. Follows(arrivals, arrivals') /\ Clear(arrivals', Unnoted)
  BY <1>1, FollowsSame, Zenon DEF Record
<1>6. /\ guards' \subseteq guards /\ Deferred' \subseteq Deferred /\ attaches' \subseteq Deferred'
      /\ \A q \in Pids : world'[q] = "attached" => attached'[q] # "no"
      /\ (wait.id # 0 /\ wait.waited /\ ~wait.asked => attaches = {})'
  BY <1>1, <1>2, <1>3, Zenon DEF Record
<1> QED BY <1>4, <1>5, <1>6, RecordLess, Zenon

\* A guard that is dropped, or waited for.
LEMMA GuardRecord ==
  ASSUME Inv, Record, NEW id \in guards, DropGuard(id) \/ WaitBegin(id)
  PROVE  Record'
<1>1. /\ UNCHANGED <<world, attaches, attached>> /\ guards' \subseteq guards
      /\ arrivals' \in {arrivals, forget(arrivals, id)}
  BY Zenon DEF DropGuard, WaitBegin, engineVars
<1>2. /\ arrivals \in Registers(Whats, Entries) /\ Ordered(arrivals) /\ Clear(arrivals, Unnoted)
  BY Zenon DEF Inv, Typed, Registry, Record
<1>3. Follows(arrivals, arrivals') /\ Clear(arrivals', Unnoted)
  BY <1>1, <1>2, FollowsSame, ForgetFollows, ForgetClear, SMTT(30)
<1>4. (wait.id # 0 /\ wait.waited /\ ~wait.asked => attaches = {})'
  BY <1>1, Zenon DEF DropGuard, WaitBegin, Idle, Record
<1>5. Deferred' = Deferred /\ Unnoted' = Unnoted
  BY <1>1, Zenon DEF Deferred, Unnoted, Pending, Entries
<1> QED BY <1>1, <1>3, <1>4, <1>5, RecordLess, ZenonT(30) DEF Record

\* A wait that times out withdraws no attach that joined.
LEMMA TimeoutSpares ==
  ASSUME Inv, Record, WaitTimeout, NEW p \in Pids, world[p] = "attached"
  PROVE  attached'[p] # "no"
<1> SUFFICES ASSUME p \in attached_pid(arrivals, wait.id), attached[p] = "Deferred"
             PROVE  FALSE
  BY Zenon DEF WaitTimeout, retire_deferred_attachment, Record
<1> DEFINE entry == <<eid[p], p>>
<1>1. PICK i \in SlotOf(arrivals, wait.id) :
        arrivals.pending[i].what.kind = "Attached" /\ arrivals.pending[i].what.pid = p
  BY Zenon DEF attached_pid
<1>2. i \in Slots(arrivals) /\ arrivals.pending[i].id = wait.id
  BY <1>1, Zenon DEF SlotOf
<1>3. wait.id \in guards /\ p \in Deferred /\ p \in Joined
  BY Zenon DEF WaitTimeout, Inv, Typed, Deferred, Joined
<1>4. arrivals.pending[i].claim = Waiting
  BY <1>1, <1>2, <1>3, SMTT(30) DEF Record, Settled
<1>5. entry \in session_processes /\ entry \in Entries /\ entry[2] = p
  BY <1>3, Zenon DEF session_processes, Entries, Inv, Typed
<1>6. entry \in Unnoted
  BY <1>3, <1>5, ZenonT(40) DEF Unnoted, Pending
<1> HIDE DEF entry
<1>7. wants(arrivals, i, entry, attached_pids)
  <2>1. entry \notin arrivals.pending[i].inherited
    BY <1>2, <1>6, Zenon DEF Record, Clear
  <2>2. \A j \in Slots(arrivals) : arrivals.pending[j].claim # entry
    BY <1>6, Zenon DEF Record, Clear
  <2> QED BY <1>1, <1>5, <2>1, <2>2, SMTT(30) DEF wants, Holds
<1>8. SlotOf(arrivals, wait.id) = {i}
  <2>1. arrivals \in Registers(Whats, Entries) /\ Ordered(arrivals)
    BY Zenon DEF Inv, Typed, Registry
  <2> QED BY <1>1, <1>2, <2>1, OneSlot, SMTT(30) DEF SlotOf
<1>9. presence(arrivals, wait.id, session_processes, attached_pids) = "Listed"
  <2>1. (CHOOSE k \in SlotOf(arrivals, wait.id) : TRUE) = i
    BY <1>8, Zenon
  <2>2. arrivals.pending[i].what.kind # "Unlisted"
    BY <1>1, Zenon
  <2> QED BY <1>4, <1>5, <1>7, <1>8, <2>1, <2>2, ZenonT(30) DEF presence
<1>10. "Absent" \in {"Unknown", presence(arrivals, wait.id, session_processes, attached_pids)}
  BY <1>3, Zenon DEF WaitTimeout, presence_of
<1> QED BY <1>9, <1>10, Zenon

\* A wait that ends keeps the record.
LEMMA WaitEndsRecord ==
  ASSUME Inv, Record, WaitEnds
  PROVE  Record'
<1>1. /\ guards' \subseteq guards /\ wait'.id = 0 /\ UNCHANGED world
      /\ attaches' \subseteq attaches
  BY DEF WaitEnds, WaitReturn, WaitTimeout, WaitFails, Done, Idle, engineVars
<1>2. PICK as \in {arrivals, discard(arrivals, wait.id)} : arrivals' = forget(as, wait.id)
  BY Zenon DEF WaitEnds, WaitReturn, WaitTimeout, WaitFails, Done
<1>3. Follows(arrivals, arrivals')
  BY <1>2, ForgetLeaves, Zenon
<1>4. Clear(arrivals', Unnoted)
  <2>1. arrivals \in Registers(Whats, Entries) /\ Clear(arrivals, Unnoted)
    BY Zenon DEF Inv, Typed, Record
  <2>2. as \in Registers(Whats, Entries) /\ Clear(as, Unnoted)
    BY <2>1, DiscardRows, DiscardClear, Zenon
  <2> QED BY <1>2, <2>2, ForgetClear, Zenon
<1>5. attached' \in {attached, retire_deferred_attachment(wait.id)}
  BY Zenon DEF WaitEnds, WaitReturn, WaitTimeout, WaitFails
<1>6. Deferred' \subseteq Deferred
  BY <1>5, Zenon DEF Deferred, retire_deferred_attachment
<1>7. Unnoted' \subseteq Unnoted
  BY <1>1, <1>6, Zenon DEF Unnoted, Pending, Entries
<1>8. attaches' \subseteq Deferred'
  <2>1. CASE UNCHANGED attached
    BY <1>1, <2>1, Zenon DEF Record, Deferred
  <2>2. CASE attaches' = {}
    BY <2>2, Zenon
  <2>3. UNCHANGED attached \/ attaches' = {}
    BY Zenon DEF WaitEnds, WaitReturn, WaitTimeout, WaitFails, Record, engineVars
  <2> QED BY <2>1, <2>2, <2>3, SMTT(30)
<1>9. ASSUME NEW p \in Pids, world'[p] = "attached" PROVE attached'[p] # "no"
  <2>1. world[p] = "attached" /\ p \in Joined
    BY <1>1, <1>9, Zenon DEF Joined
  <2>2. CASE UNCHANGED attached
    BY <2>1, <2>2, Zenon DEF Record
  <2>3. CASE WaitTimeout
    BY <2>1, <2>3, TimeoutSpares, SMTT(30)
  <2>4. UNCHANGED attached \/ WaitTimeout
    BY <2>1, Zenon DEF WaitEnds, WaitReturn, WaitFails
  <2> QED BY <2>2, <2>3, <2>4, Zenon
<1> QED BY <1>1, <1>3, <1>4, <1>6, <1>7, <1>8, <1>9, RecordLess, SMTT(30)

\* A process is listed when the session holds it, before a step and after it.
LEMMA HeldIsJoined ==
  /\ \A p \in Pids : (\E entry \in session_processes : entry[2] = p) <=> p \in Joined
  /\ \A p \in Pids : (\E entry \in session_processes' : entry[2] = p) <=> p \in Joined'
<1>1. ASSUME NEW entry \in session_processes PROVE entry[2] \in Joined
  <2>1. PICK p \in Joined : entry = <<eid[p], p>>
    BY Zenon DEF session_processes
  <2> QED BY <2>1, Zenon
<1>2. ASSUME NEW p \in Joined PROVE \E entry \in session_processes : entry[2] = p
  <2>1. <<eid[p], p>> \in session_processes /\ <<eid[p], p>>[2] = p
    BY Zenon DEF session_processes
  <2> QED BY <2>1, Zenon
<1>3. ASSUME NEW entry \in session_processes' PROVE entry[2] \in Joined'
  <2>1. PICK p \in Joined' : entry = <<eid'[p], p>>
    BY Zenon DEF session_processes
  <2> QED BY <2>1, Zenon
<1>4. ASSUME NEW p \in Joined' PROVE \E entry \in session_processes' : entry[2] = p
  <2>1. <<eid'[p], p>> \in session_processes' /\ <<eid'[p], p>>[2] = p
    BY Zenon DEF session_processes
  <2> QED BY <2>1, Zenon
<1> QED BY <1>1, <1>2, <1>3, <1>4, SMTT(30)

\* An answered prune keeps the record of every process the session holds by attaching
\* and of every attach it is owed.
LEMMA PruneSpares ==
  ASSUME Inv, Record, NEW kept, kept = retained(attached, session_processes)
  PROVE  /\ kept \in [Pids -> {"no", "Deferred", "Joined"}]
         /\ \A p \in Pids : kept[p] = "Deferred" => p \in Deferred
         /\ \A p \in attaches : kept[p] = "Deferred"
         /\ \A p \in Pids : world[p] = "attached" => kept[p] # "no"
<1>1. \A p \in Pids : (\E entry \in session_processes : entry[2] = p) <=> p \in Joined
  BY HeldIsJoined, Zenon
<1>2. \A p \in Pids :
        kept[p] = IF p \in Joined THEN IF attached[p] # "no" THEN "Joined" ELSE attached[p]
                  ELSE IF attached[p] = "Deferred" THEN "Deferred" ELSE "no"
  BY <1>1, Zenon DEF retained, note_attachments_present
<1>3. kept \in [Pids -> {"no", "Deferred", "Joined"}]
  <2>1. \A p \in Pids : kept[p] \in {"no", "Deferred", "Joined"}
    BY <1>2, Zenon DEF Inv, Typed
  <2>2. kept = [p \in Pids |-> kept[p]]
    BY Zenon DEF retained
  <2> QED BY <2>1, <2>2, Zenon
<1>4. \A p \in Pids : kept[p] = "Deferred" => p \in Deferred
  BY <1>2, Zenon DEF Deferred
<1>5. \A p \in attaches : p \in Pids /\ p \notin Joined /\ attached[p] = "Deferred"
  BY Zenon DEF Inv, Typed, Joined, Record, Deferred
<1>6. \A p \in Pids : world[p] = "attached" => p \in Joined /\ attached[p] # "no"
  BY Zenon DEF Joined, Record
<1> QED BY <1>2, <1>3, <1>4, <1>5, <1>6, SMTT(30)

\* A launch, whether it is accepted or not.
LEMMA LaunchRecord ==
  ASSUME Inv, Record, PruneMayFail = FALSE,
         NEW pruned \in BOOLEAN, NEW listed \in BOOLEAN, NEW accepted \in BOOLEAN,
         launch_process_begin(pruned, listed, accepted)
  PROVE  Record'
<1> DEFINE left == Pruned(TRUE, arrivals, attached)
           what == IF listed THEN Launched(session_processes) ELSE Unlisted
<1>1. /\ UNCHANGED <<world, attaches, wait>> /\ wait.id = 0
      /\ attached' = left.attached
      /\ \/ arrivals' = left.arrivals /\ guards' = guards
         \/ /\ arrivals' = register(left.arrivals, what)
            /\ guards' = guards \cup {arrivals'.minted}
  BY Zenon DEF launch_process_begin, CanOpen, Ready
<1>2. /\ left.arrivals \in Registers(Whats, Entries) /\ Ordered(left.arrivals)
      /\ left.arrivals = forget_departed(arrivals, session_processes)
      /\ left.attached = retained(attached, session_processes)
  BY PruneAnswered, Zenon
<1>3. what \in Whats
  BY OpensAreWhats, ZenonT(40) DEF Inv
<1> HIDE DEF left, what
<1>4. /\ Deferred' \subseteq Deferred
      /\ attaches' \subseteq Deferred'
      /\ \A p \in Pids : world'[p] = "attached" => attached'[p] # "no"
  BY <1>1, <1>2, PruneSpares, SMTT(30) DEF Deferred, Inv, Typed
<1>5. Unnoted' \subseteq Unnoted /\ Unnoted \cap Marks = {}
  BY <1>1, <1>4, EntriesUnmarked, ZenonT(30) DEF Unnoted, Pending, Entries
<1>6. arrivals \in Registers(Whats, Entries) /\ Ordered(arrivals) /\ Clear(arrivals, Unnoted)
      /\ Settled(arrivals, guards, Deferred)
  BY Zenon DEF Inv, Typed, Registry, Record
<1>7. Clear(left.arrivals, Unnoted)
  BY <1>2, <1>5, <1>6, ForgetDepartedClear, ZenonT(30)
<1>8. Settled(left.arrivals, guards, Deferred)
  BY <1>2, <1>6, ForgetDepartedFollows, FollowsSettled, SMTT(30)
<1>9. Clear(arrivals', Unnoted)
  BY <1>1, <1>2, <1>3, <1>5, <1>7, RegisterClear, SMTT(30)
<1>10. Settled(arrivals', guards', Deferred)
  <2>1. LET b == register(left.arrivals, what)
        IN  Settled(b, guards \cup {b.minted}, Deferred \cup {})
    BY <1>2, <1>3, <1>8, RegisterSettled, ZenonT(30)
  <2> QED BY <1>1, <1>8, <2>1, Zenon
<1> QED BY <1>1, <1>4, <1>5, <1>9, <1>10, SMTT(30) DEF Record, Clear, Settled

\* An attach puts its pid on the record, and no row has anything to do with it yet.
LEMMA AttachRecord ==
  ASSUME Inv, Record, PruneMayFail = FALSE, Overlap = FALSE,
         NEW p \in Pids, NEW pruned \in BOOLEAN, attach_process_begin(p, pruned)
  PROVE  Record'
<1> DEFINE left == Pruned(TRUE, arrivals, attached)
           named == {e \in Entries : e[2] = p}
<1>1. /\ UNCHANGED <<world, wait>> /\ wait.id = 0 /\ world[p] = "foreign"
      /\ attaches' = attaches \cup {p}
      /\ attached' = [left.attached EXCEPT ![p] = "Deferred"]
      /\ arrivals' = register(left.arrivals, Attached(p))
      /\ guards' = guards \cup {arrivals'.minted}
      /\ \A id \in guards : p \notin attached_pid(arrivals, id)
  BY Zenon DEF attach_process_begin, CanOpen, Ready
<1>2. /\ left.arrivals \in Registers(Whats, Entries) /\ Ordered(left.arrivals)
      /\ left.arrivals = forget_departed(arrivals, session_processes)
      /\ left.attached = retained(attached, session_processes)
  BY PruneAnswered, Zenon
<1>3. Attached(p) \in Whats
  BY OpensAreWhats, Zenon DEF Inv
<1> HIDE DEF left
<1>4. /\ Deferred' \subseteq Deferred \cup {p}
      /\ attaches' \subseteq Deferred'
      /\ \A q \in Pids : world'[q] = "attached" => attached'[q] # "no"
  <2>1. /\ left.attached \in [Pids -> {"no", "Deferred", "Joined"}]
        /\ \A q \in Pids : left.attached[q] = "Deferred" => q \in Deferred
        /\ \A q \in attaches : left.attached[q] = "Deferred"
        /\ \A q \in Pids : world[q] = "attached" => left.attached[q] # "no"
    BY <1>2, PruneSpares, Zenon
  <2>2. attached'[p] = "Deferred" /\ \A q \in Pids \ {p} : attached'[q] = left.attached[q]
    BY <1>1, <2>1, Zenon
  <2>3. attaches \subseteq Pids
    BY Zenon DEF Inv, Typed
  <2> QED BY <1>1, <2>1, <2>2, <2>3, Zenon DEF Deferred
<1>5. Unnoted' \subseteq Unnoted \cup named
  BY <1>1, <1>4, Zenon DEF Unnoted, Pending, Entries
<1>6. Unnoted \cap Marks = {} /\ named \cap Marks = {}
  BY EntriesUnmarked, Zenon DEF Unnoted
<1>7. named \cap session_processes = {}
  <2>1. p \notin Joined
    BY <1>1, Zenon DEF Joined
  <2> QED BY <2>1, HeldIsJoined, SMTT(30)
<1> HIDE DEF named
<1>8. arrivals \in Registers(Whats, Entries) /\ Ordered(arrivals) /\ Clear(arrivals, Unnoted)
      /\ Settled(arrivals, guards, Deferred)
  BY Zenon DEF Inv, Typed, Registry, Record
<1>9. Clear(arrivals', Unnoted) /\ Clear(arrivals', named)
  <2>1. Clear(left.arrivals, Unnoted)
    BY <1>2, <1>6, <1>8, ForgetDepartedClear, SMTT(30)
  <2>2. Clear(left.arrivals, named)
    BY <1>2, <1>6, <1>7, <1>8, ForgetDepartedClears, SMTT(30)
  <2> QED BY <1>1, <1>2, <1>3, <1>6, <2>1, <2>2, RegisterClear, ZenonT(30)
<1>10. Clear(arrivals', Unnoted')
  BY <1>5, <1>9, Zenon DEF Clear
<1>11. Follows(arrivals, left.arrivals)
  BY <1>2, <1>8, ForgetDepartedFollows, SMTT(30)
<1>12. Settled(left.arrivals, guards, Deferred)
  BY <1>8, <1>11, FollowsSettled, ZenonT(30)
<1>13. ASSUME NEW j \in Slots(left.arrivals), left.arrivals.pending[j].id \in guards,
              left.arrivals.pending[j].what.kind = "Attached"
       PROVE  left.arrivals.pending[j].what.pid \notin {p}
  <2>1. PICK i \in Slots(arrivals) :
          /\ left.arrivals.pending[j].id = arrivals.pending[i].id
          /\ left.arrivals.pending[j].what = arrivals.pending[i].what
    BY <1>11, Zenon DEF Follows
  <2>2. i \in SlotOf(arrivals, arrivals.pending[i].id)
    BY Zenon DEF SlotOf
  <2>3. arrivals.pending[i].what.pid \in attached_pid(arrivals, arrivals.pending[i].id)
    BY <1>13, <2>1, <2>2, Zenon DEF attached_pid
  <2> QED BY <1>1, <1>13, <2>1, <2>3, SMTT(30)
<1>14. Settled(arrivals', guards', Deferred \cup {p})
  <2>1. LET b == register(left.arrivals, Attached(p))
        IN  Settled(b, guards \cup {b.minted}, Deferred \cup {p})
    BY <1>2, <1>3, <1>12, <1>13, RegisterSettled, ZenonT(30)
  <2> QED BY <1>1, <2>1, Zenon
<1>15. Settled(arrivals', guards', Deferred')
  BY <1>4, <1>14, SMTT(30) DEF Settled
<1> QED BY <1>1, <1>4, <1>10, <1>15, SMTT(30) DEF Record

\* A stop notes every attach that joined before it is given to an open.
LEMMA StopRecord ==
  ASSUME Inv, Record, Realise \/ UNCHANGED engineVars, UNCHANGED guards,
         (\E who \in Pids : record_where_it_stopped(who)) \/ NothingRecorded
  PROVE  /\ attaches' \subseteq Deferred'
         /\ \A p \in Pids : world'[p] = "attached" => attached'[p] # "no"
         /\ Settled(arrivals', guards', Deferred')
         /\ Clear(arrivals', Unnoted')
<1>1. /\ attaches' \subseteq attaches
      /\ \A p \in attaches' : p \in Pids /\ world'[p] = "foreign"
      /\ \A p \in Pids : world'[p] = "attached" => Pending(p)
      /\ eid' \in [Pids -> Ids]
  BY RealiseJoins, Zenon DEF Realise, engineVars
<1>2. arrivals \in Registers(Whats, Entries) /\ Settled(arrivals, guards, Deferred)
      /\ Clear(arrivals, Unnoted) /\ attached \in [Pids -> {"no", "Deferred", "Joined"}]
  BY Zenon DEF Inv, Typed, Record
<1>3. ASSUME Deferred' \subseteq Deferred PROVE Clear(arrivals, Unnoted')
  <2>1. Unnoted' \subseteq Unnoted
    BY <1>1, <1>3, Zenon DEF Unnoted, Pending, Deferred, Entries
  <2> QED BY <1>2, <2>1, Zenon DEF Clear
<1>4. \A p \in Pids : Pending(p) => attached[p] # "no"
  BY Zenon DEF Pending, Record, Deferred
<1>5. CASE NothingRecorded
  <2>1. UNCHANGED <<arrivals, attached>> /\ Deferred' = Deferred
    BY <1>5, Zenon DEF NothingRecorded, Deferred
  <2> QED BY <1>1, <1>2, <1>3, <1>4, <2>1, SMTT(30) DEF Record
<1>6. ASSUME NEW who \in Pids, record_where_it_stopped(who)
      PROVE  /\ attaches' \subseteq Deferred'
             /\ \A p \in Pids : world'[p] = "attached" => attached'[p] # "no"
             /\ Settled(arrivals', guards', Deferred')
             /\ Clear(arrivals', Unnoted')
  <2> DEFINE noted == note_attachments_present(attached, session_processes')
             pids == {p \in Pids : noted[p] # "no"}
             entry == <<eid'[who], who>>
  <2>1. /\ attached' = noted
        /\ \/ who \in Joined' /\ arrivals' = deliver(arrivals, entry, pids)
           \/ UNCHANGED arrivals
    BY <1>6, Zenon DEF record_where_it_stopped
  <2>2. \A p \in Pids : (\E held \in session_processes' : held[2] = p) <=> p \in Joined'
    BY HeldIsJoined, Zenon
  <2>3. \A p \in Pids :
          attached'[p] = IF attached[p] # "no" /\ p \in Joined' THEN "Joined" ELSE attached[p]
    BY <2>1, <2>2, Zenon DEF note_attachments_present
  <2> HIDE DEF noted, pids
  <2>4. Deferred' \subseteq Deferred /\ \A p \in Joined' : p \notin Deferred'
    BY <2>3, Zenon DEF Deferred
  <2>5. attaches' \subseteq Deferred'
    BY <1>1, <2>3, ZenonT(40) DEF Record, Deferred, Joined
  <2>6. \A p \in Pids : world'[p] = "attached" => attached'[p] # "no"
    BY <1>1, <1>4, <2>3, SMTT(30)
  <2>7. Clear(arrivals, Unnoted')
    BY <1>3, <2>4, ZenonT(30)
  <2>8. CASE UNCHANGED arrivals
    BY <1>2, <2>4, <2>5, <2>6, <2>7, <2>8, SMTT(30) DEF Settled
  <2>9. CASE who \in Joined' /\ arrivals' = deliver(arrivals, entry, pids)
    <3>1. entry \in Entries /\ entry[2] \notin Deferred'
      BY <1>1, <2>4, <2>9, Zenon DEF Entries
    <3> HIDE DEF entry
    <3>2. entry \notin Unnoted'
      BY <3>1, Zenon DEF Unnoted
    <3>3. Clear(arrivals', Unnoted')
      BY <1>2, <2>7, <2>9, <3>1, <3>2, DeliverClear, SMTT(30)
    <3>4. Settled(arrivals', guards, Deferred')
      BY <1>2, <2>4, <2>9, <3>1, DeliverSettled, SMTT(30)
    <3> QED BY <2>5, <2>6, <3>3, <3>4, SMTT(30)
  <2> QED BY <2>1, <2>8, <2>9, SMTT(30)
<1> QED BY <1>5, <1>6, Zenon

\* A pump keeps the record; one that pumps for an open and goes on has realised the
\* attaches.
LEMMA PumpRecord ==
  ASSUME Inv, Record, Pump \/ WaitPump
  PROVE  Record'
<1>1. /\ Realise \/ UNCHANGED engineVars
      /\ (\E who \in Pids : record_where_it_stopped(who)) \/ NothingRecorded
      /\ UNCHANGED guards
  BY PumpsAlike, PumpRecords, Zenon DEF Pumps
<1>2. (wait.id # 0 /\ wait.waited /\ ~wait.asked => attaches = {})'
  <2>1. wait \in [id : {wait.id}, waited : BOOLEAN, asked : BOOLEAN]
    BY Zenon DEF Inv, Typed
  <2>2. CASE Pump
    BY <2>2, Zenon DEF Pump, Ready
  <2>3. CASE WaitPump
    <3>1. CASE Stopped \/ Expired
      BY <3>1, Zenon DEF Stopped, Expired, Realise
    <3>2. CASE wait' = [wait EXCEPT !.waited = TRUE, !.asked = TRUE]
      BY <2>1, <3>2, Zenon
    <3> QED BY <2>3, <3>1, <3>2, SMTT(30) DEF WaitPump
  <2> QED BY <2>2, <2>3, Zenon
<1> QED BY <1>1, <1>2, StopRecord, Zenon DEF Record

\* A session that ended, or that a dump replaced, owes nothing and holds no process.
LEMMA FreshRecord ==
  ASSUME Inv, arrivals' = forget_all(arrivals), attaches' = {}, wait'.id = 0,
         \A p \in Pids : world'[p] # "attached"
  PROVE  Record'
<1>1. arrivals'.pending = <<>>
  BY Zenon DEF forget_all, Inv, Typed, Registers
<1>2. Settled(arrivals', guards', Deferred') /\ Clear(arrivals', Unnoted')
  BY <1>1, EmptyRecord, Zenon
<1> QED BY <1>2, Zenon DEF Record

\* An end of the session, unless it is refused.
LEMMA EndRecord ==
  ASSUME Inv, RecordUntilRefused, NEW listed \in BOOLEAN, NEW ended \in BOOLEAN,
         NEW failing \in SUBSET Pids, wait.id = 0, EndSession(listed, failing, ended)
  PROVE  RecordUntilRefused'
<1>1. report'.refused = (report.refused \/ ~ended)
  BY Zenon DEF EndSession
<1>2. CASE ~ended
  BY <1>1, <1>2, Zenon DEF RecordUntilRefused
<1>3. CASE ended
  <2>1. arrivals' = forget_all(arrivals) /\ attaches' = {} /\ UNCHANGED wait
    BY <1>3, Zenon DEF EndSession
  <2>2. \A p \in Pids : world'[p] # "attached"
    BY <1>3, Zenon DEF EndSession, Detached, Joined, Inv, Typed
  <2> QED BY <2>1, <2>2, FreshRecord, Zenon DEF RecordUntilRefused
<1> QED BY <1>2, <1>3, Zenon

\* Every step keeps the record until an end is refused.
LEMMA StepRecord ==
  ASSUME Inv, RecordUntilRefused, PruneMayFail = FALSE, Overlap = FALSE, [Next]_vars
  PROVE  RecordUntilRefused'
<1>1. ASSUME NEW listed \in BOOLEAN, NEW ended \in BOOLEAN, NEW failing \in SUBSET Pids,
             end_session(listed, failing, ended) \/ DropEngine(listed, failing, ended)
      PROVE  RecordUntilRefused'
  BY <1>1, EndRecord, Zenon DEF end_session, DropEngine, Ready
<1>2. ASSUME UNCHANGED report, Record => Record' PROVE RecordUntilRefused'
  BY <1>2, Zenon DEF RecordUntilRefused
<1>3. ASSUME NEW p \in Pids, Exit(p) \/ Spawn(p) \/ Detach(p) PROVE RecordUntilRefused'
  <2>1. UNCHANGED report
    BY <1>3, Zenon DEF Exit, Spawn, Detach, history
  <2> QED BY <1>2, <1>3, <2>1, SystemRecord, SMTT(30)
<1>4. ASSUME NEW pruned \in BOOLEAN, NEW listed \in BOOLEAN, NEW accepted \in BOOLEAN,
             launch_process_begin(pruned, listed, accepted)
      PROVE  RecordUntilRefused'
  <2>1. UNCHANGED report
    BY <1>4, Zenon DEF launch_process_begin
  <2> QED BY <1>2, <1>4, <2>1, LaunchRecord, ZenonT(30)
<1>5. ASSUME NEW p \in Pids, NEW pruned \in BOOLEAN, attach_process_begin(p, pruned)
      PROVE  RecordUntilRefused'
  <2>1. UNCHANGED report
    BY <1>5, Zenon DEF attach_process_begin, history
  <2> QED BY <1>2, <1>5, <2>1, AttachRecord, ZenonT(30)
<1>6. ASSUME NEW id \in guards, DropGuard(id) \/ WaitBegin(id) PROVE RecordUntilRefused'
  <2>1. UNCHANGED report
    BY <1>6, Zenon DEF DropGuard, WaitBegin, history
  <2> QED BY <1>2, <1>6, <2>1, GuardRecord, SMTT(30)
<1>7. CASE open_dump
  <2>1. /\ UNCHANGED report /\ arrivals' = forget_all(arrivals) /\ attaches' = {}
        /\ wait'.id = 0
    BY <1>7, Zenon DEF open_dump, Ready
  <2>2. \A p \in Pids : world'[p] # "attached"
    BY <1>7, Zenon DEF open_dump, Joined
  <2> QED BY <1>2, <2>1, <2>2, FreshRecord, SMTT(30)
<1>8. CASE Pump \/ WaitPump
  <2>1. UNCHANGED report
    BY <1>8, Zenon DEF Pump, WaitPump
  <2> QED BY <1>2, <1>8, <2>1, PumpRecord, ZenonT(30)
<1>9. CASE WaitReturn \/ WaitTimeout \/ WaitFails
  <2>1. UNCHANGED report
    BY <1>9, Zenon DEF WaitReturn, WaitTimeout, WaitFails, history
  <2> QED BY <1>2, <1>9, <2>1, WaitEndsRecord, SMTT(30) DEF WaitEnds
<1>10. CASE UNCHANGED vars
  <2>1. /\ UNCHANGED <<world, attaches, attached, guards, wait, arrivals, report>>
    BY <1>10, Zenon DEF vars, engineVars, history
  <2>2. Deferred' = Deferred /\ Unnoted' = Unnoted
    BY <2>1, Zenon DEF Deferred, Unnoted, Pending, Entries
  <2>3. Record => Record'
    BY <2>1, <2>2, Zenon DEF Record
  <2> QED BY <1>2, <2>1, <2>3, Zenon
<1> QED BY <1>1, <1>3, <1>4, <1>5, <1>6, <1>7, <1>8, <1>9, <1>10, SMTT(30) DEF Next

\* The record holds until an end is refused.
THEOREM RecordHolds ==
  ASSUME PruneMayFail = FALSE, Overlap = FALSE
  PROVE  Spec => []RecordUntilRefused
<1>1. Init => RecordUntilRefused
  <2> SUFFICES ASSUME Init PROVE Record
    BY Zenon DEF RecordUntilRefused
  <2>1. arrivals.pending = <<>> /\ attaches = {} /\ wait.id = 0
    BY Zenon DEF Init, NewArrivals, Idle
  <2>2. \A p \in Pids : world[p] # "attached"
    BY Zenon DEF Init
  <2>3. Settled(arrivals, guards, Deferred) /\ Clear(arrivals, Unnoted)
    BY <2>1, EmptyRecord, Zenon
  <2> QED BY <2>1, <2>2, <2>3, Zenon DEF Record
<1>2. Inv /\ RecordUntilRefused /\ [Next]_vars => RecordUntilRefused'
  BY StepRecord, Zenon
<1> QED BY <1>1, <1>2, InvHolds, PTL DEF Spec

\* Every process held by attaching, or owed by an attach, is on the record that decides
\* at teardown which processes are detached (claim_attached, prune_processes_that_left).
THEOREM AttachmentsRecordedHolds ==
  ASSUME PruneMayFail = FALSE, Overlap = FALSE
  PROVE  Spec => []AttachmentsRecorded
<1>1. RecordUntilRefused => AttachmentsRecorded
  BY Zenon DEF RecordUntilRefused, Record, AttachmentsRecorded, attached_pids, Deferred
<1> QED BY <1>1, RecordHolds, PTL

\* An end that answers Ok took nothing that was attached to.
LEMMA EndSpares ==
  ASSUME Inv, RecordUntilRefused, NEW listed \in BOOLEAN, NEW ended \in BOOLEAN,
         NEW failing \in SUBSET Pids, EndSession(listed, failing, ended)
  PROVE  FirstEndSpares'
<1> DEFINE out == Detached(listed, failing)
<1>1. /\ report'.refused = (report.refused \/ ~ended)
      /\ report'.ok = (ended /\ ~DetachFailed(listed, failing))
      /\ report'.took = \E p \in (IF ended THEN Joined \ out ELSE {}) : world[p] = "attached"
  BY Zenon DEF EndSession
<1> SUFFICES ASSUME ~report.refused, ended, ~DetachFailed(listed, failing),
                    NEW p \in Joined \ out, world[p] = "attached"
             PROVE  FALSE
  BY <1>1, Zenon DEF FirstEndSpares
<1>2. p \in Pids /\ p \in Joined /\ p \in attached_pids
  BY Zenon DEF RecordUntilRefused, Record, Joined, attached_pids
<1>3. listed /\ p \notin failing
  BY <1>2, Zenon DEF DetachFailed
<1> QED BY <1>2, <1>3, Zenon DEF Detached

\* Only an end changes what the last end reported.
LEMMA ReportStays ==
  ASSUME [Next]_vars
  PROVE  \/ UNCHANGED report
         \/ \E listed, ended \in BOOLEAN, failing \in SUBSET Pids :
              EndSession(listed, failing, ended)
BY Zenon DEF Next, vars, history, Exit, Spawn, Detach, launch_process_begin,
       attach_process_begin, DropGuard, WaitBegin, open_dump, Pump, WaitPump,
       WaitReturn, WaitTimeout, WaitFails,
       end_session, DropEngine

\* An end_session that answers Ok took no process the session had attached to, until an
\* end is refused (detach_attached_processes).
THEOREM FirstEndSparesHolds ==
  ASSUME PruneMayFail = FALSE, Overlap = FALSE
  PROVE  Spec => []FirstEndSpares
<1>1. Init => FirstEndSpares
  BY DEF Init, FirstEndSpares
<1>2. Inv /\ RecordUntilRefused /\ FirstEndSpares /\ [Next]_vars => FirstEndSpares'
  <2> SUFFICES ASSUME Inv, RecordUntilRefused, FirstEndSpares, [Next]_vars
               PROVE  FirstEndSpares'
    BY Zenon
  <2>1. CASE UNCHANGED report
    BY <2>1, Zenon DEF FirstEndSpares
  <2> QED BY <2>1, ReportStays, EndSpares, ZenonT(30)
<1> QED BY <1>1, <1>2, InvHolds, RecordHolds, PTL DEF Spec

\* A launch passes over what is on the record, and what is attached to is.
LEMMA LaunchPassesOver ==
  ASSUME Inv, Record, Pumps, NEW i \in GivenSlots, arrivals.pending[i].what.kind = "Launched"
  PROVE  world'[arrivals'.pending[i].claim[2]] # "attached"
<1>1. /\ i \in Slots(arrivals)
      /\ arrivals.pending[i].claim = Waiting
      /\ arrivals'.pending[i].claim \notin {Waiting, Departed}
  BY Zenon DEF GivenSlots
<1>2. ~UNCHANGED arrivals
  BY <1>1, Zenon
<1>3. PICK who \in Pids : record_where_it_stopped(who)
  BY <1>2, PumpRecords, Zenon DEF NothingRecorded
<1> DEFINE noted == note_attachments_present(attached, session_processes')
           pids == {p \in Pids : noted[p] # "no"}
           entry == <<eid'[who], who>>
           takers == Takers(arrivals, entry, pids)
<1>4. arrivals' = deliver(arrivals, entry, pids) /\ attached' = noted
  BY <1>2, <1>3, ZenonT(30) DEF record_where_it_stopped
<1>5. arrivals \in Registers(Whats, Entries)
  BY Zenon DEF Inv, Typed
<1>6. entry \in Entries /\ entry[2] = who
  BY PumpRecords, RealiseJoins, ZenonT(30) DEF Entries
<1>7. who \in pids <=> attached'[who] # "no"
  BY <1>4, ZenonT(30)
<1> HIDE DEF noted, pids, entry
<1>8. PICK first \in takers :
        /\ \A j \in Slots(arrivals) \ {first} : arrivals'.pending[j] = arrivals.pending[j]
        /\ arrivals'.pending[first].claim = entry
  <2>1. deliver(arrivals, entry, pids) # arrivals
    BY <1>2, <1>4, ZenonT(40)
  <2>2. \E first \in takers :
          /\ \A j \in Slots(arrivals) \ {first} : deliver(arrivals, entry, pids).pending[j] = arrivals.pending[j]
          /\ deliver(arrivals, entry, pids).pending[first].claim = entry
    BY <1>5, <1>6, <2>1, DeliverGives
  <2> QED BY <1>4, <2>2, Zenon
<1>9. i = first
  BY <1>1, <1>8, Zenon
<1>10. entry[2] \notin pids
  BY <1>9, Zenon DEF Takers, wants
<1>11. world'[who] = "attached" => attached'[who] # "no"
  BY PumpRecords, StopRecord, Zenon DEF Pumps
<1> QED BY <1>6, <1>7, <1>8, <1>9, <1>10, <1>11, Zenon

\* A launch is never given a process the session attached to (Pending::wants).
THEOREM LaunchNotGivenAttachedHolds ==
  ASSUME PruneMayFail = FALSE, Overlap = FALSE
  PROVE  Spec => LaunchNotGivenAttached
<1>1. Inv /\ RecordUntilRefused /\ [Next]_vars =>
        [\A i \in GivenSlots : ~report.refused /\ arrivals.pending[i].what.kind = "Launched"
                                => world'[arrivals'.pending[i].claim[2]] # "attached"]_vars
  BY StepKeeps, LaunchPassesOver, QuietGives, ZenonT(40) DEF RecordUntilRefused
<1> QED BY <1>1, InvHolds, RecordHolds, PTL DEF Spec, LaunchNotGivenAttached

\* A stop goes to the open it belongs to (Arrivals::deliver).
THEOREM StopsRoutedHolds ==
  ASSUME PruneMayFail = FALSE, Overlap = FALSE
  PROVE  Spec => StopsRouted
BY NeverGivenTwiceHolds, LaunchNotGivenAttachedHolds, ClaimsFinalHolds, Zenon
   DEF StopsRouted
=============================================================================
