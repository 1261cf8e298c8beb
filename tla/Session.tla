------------------------------- MODULE Session -------------------------------
(***************************************************************************)
(* A user-mode session: opens that are accepted now and produce their      *)
(* process at a later wait, the register that routes each stop to the open *)
(* it belongs to (Arrivals), the record of the processes that were         *)
(* attached to rather than created, and the teardown that has to tell the  *)
(* two apart.                                                              *)
(*                                                                         *)
(* The engine runs on one thread: one open is waited for at a time.  The   *)
(* operating system does not wait: processes exit, detach and start        *)
(* between any two steps.                                                  *)
(***************************************************************************)
EXTENDS Arrivals

CONSTANTS
  Pids,          \* the process ids of the machine
  MaxOpens,      \* bound on the opens of a behaviour
  Opens,         \* the opens made: "Attached", "Launched"
  PidReuse,      \* whether an exited process's pid may name another process
  Overlap,       \* whether a pid may be attached to again while an earlier attach's
                 \* guard for it is alive
  PruneMayFail,  \* whether an opener's prune may find the listing refused
  EndMayFail     \* whether EndSession may be refused

ASSUME PidsAssumption == IsFiniteSet(Pids)
ASSUME OpensAssumption == MaxOpens \in Nat /\ Opens \subseteq {"Attached", "Launched"}
ASSUME FlagsAssumption == {PidReuse, Overlap, PruneMayFail, EndMayFail} \subseteq BOOLEAN

VARIABLES
  world,      \* pid -> "free", "foreign" or, in this session, "attached"/"launched"
  eid,        \* pid -> the engine's id for it while the session holds it
  creates,    \* creates accepted and not yet realised by a wait
  attaches,   \* the pids whose attach is accepted and not yet realised
  inputs,     \* command lines kept alive for deferred creates
  arrivals,   \* ClientState::arrivals
  attached,   \* ClientState::attached_processes: pid -> "no", "Deferred" or "Joined"
  guards,     \* the opens whose PendingTarget is alive
  wait,       \* the open wait_for_live_target runs for, and its locals
  engine,     \* whether the engine object exists
  delivered,  \* history: the held processes some open was given
  owed,       \* history: the launches of this session that were given no process and
              \* have not timed out
  report      \* history: what the last end_session returned, whether it took a process
              \* that was attached to, and whether an EndSession was ever refused

engineVars == <<world, eid, creates, attaches>>
history == <<delivered, owed, report>>
vars == <<engineVars, inputs, arrivals, attached, guards, wait, engine, history>>

-----------------------------------------------------------------------------
Idle == [id |-> 0, waited |-> FALSE, asked |-> FALSE]

Ready == engine /\ wait.id = 0

Joined == {p \in Pids : world[p] \in {"attached", "launched"}}
Ids == 0..(Cardinality(Pids) - 1)

\* `session_processes`, where it answers.
session_processes == {<<eid[p], p>> : p \in Joined}

attached_pids == {p \in Pids : attached[p] # "no"}

Init ==
  /\ world \in [Pids -> {"free", "foreign"}]
  /\ eid = [p \in Pids |-> 0]
  /\ creates = 0
  /\ attaches = {}
  /\ inputs = 0
  /\ arrivals = NewArrivals
  /\ attached = [p \in Pids |-> "no"]
  /\ guards = {}
  /\ wait = Idle
  /\ engine = TRUE
  /\ delivered = {}
  /\ owed = {}
  /\ report = [ok |-> FALSE, took |-> FALSE, refused |-> FALSE]

-----------------------------------------------------------------------------
(* The operating system. *)

\* Processes leave the session, or the machine, and their engine ids are free again.
Leave(ps, becomes) ==
  /\ world' = [p \in Pids |-> IF p \in ps THEN becomes ELSE world[p]]
  /\ eid' = [p \in Pids |-> IF p \in ps THEN 0 ELSE eid[p]]
  /\ delivered' = delivered \ ps

\* A process exits.
Exit(p) ==
  /\ world[p] # "free"
  /\ Leave({p}, IF PidReuse THEN "free" ELSE "gone")
  /\ attaches' = attaches \ {p}
  /\ UNCHANGED <<creates, inputs, arrivals, attached, guards, wait, engine, owed, report>>

\* Somebody else's process starts.
Spawn(p) ==
  /\ PidReuse
  /\ world[p] = "free"
  /\ world' = [world EXCEPT ![p] = "foreign"]
  /\ UNCHANGED <<eid, creates, attaches, inputs, arrivals, attached, guards, wait,
                 engine, history>>

\* A `.detach` typed through execute_command: no accounting in this crate sees it.
Detach(p) ==
  /\ Ready
  /\ p \in Joined
  /\ Leave({p}, "foreign")
  /\ UNCHANGED <<creates, attaches, inputs, arrivals, attached, guards, wait, engine, owed,
                 report>>

\* A wait realises what is owed: every attach joins, every create makes a process
\* or fails.  The engine hands out any free id.
Realise ==
  \E born \in SUBSET {p \in Pids : world[p] = "free"} :
    LET arriving == born \cup attaches
        used == {eid[p] : p \in Joined}
    IN  /\ Cardinality(born) <= creates
        /\ \E id \in [arriving -> Ids \ used] :
             /\ \A p, q \in arriving : id[p] = id[q] => p = q
             /\ eid' = [p \in Pids |-> IF p \in arriving THEN id[p] ELSE eid[p]]
        /\ world' = [p \in Pids |-> IF p \in born THEN "launched"
                                    ELSE IF p \in attaches THEN "attached" ELSE world[p]]
        /\ creates' = 0
        /\ attaches' = {}

-----------------------------------------------------------------------------
(* The record of attached processes. *)

\* An attachment whose pid the session lists has joined.
note_attachments_present(record, held) ==
  [p \in Pids |-> IF record[p] # "no" /\ \E entry \in held : entry[2] = p
                  THEN "Joined" ELSE record[p]]

\* The attachments kept by prune_processes_that_left.
retained(record, held) ==
  LET noted == note_attachments_present(record, held)
  IN  [p \in Pids |-> IF noted[p] = "Deferred" \/ \E entry \in held : entry[2] = p
                      THEN noted[p] ELSE "no"]

\* prune_processes_that_left on the register and the record; a listing that fails
\* leaves both alone.
Pruned(listed, as, record) ==
  IF listed
  THEN [arrivals |-> forget_departed(as, session_processes),
        attached |-> retained(record, session_processes)]
  ELSE [arrivals |-> as, attached |-> record]

-----------------------------------------------------------------------------
(* The opens. *)

CanOpen(kind) == Ready /\ kind \in Opens /\ arrivals.minted < MaxOpens

\* launch_process_begin.
launch_process_begin(pruned, listed, accepted) ==
  LET left == Pruned(pruned, arrivals, attached)
      what == IF listed THEN Launched(session_processes) ELSE Unlisted
  IN  /\ CanOpen("Launched") /\ (pruned \/ PruneMayFail)
      /\ attached' = left.attached
      /\ \/ /\ ~accepted
            /\ arrivals' = left.arrivals
            /\ UNCHANGED <<creates, inputs, guards, owed>>
         \/ /\ accepted
            /\ creates' = creates + 1
            /\ inputs' = inputs + 1
            /\ arrivals' = register(left.arrivals, what)
            /\ guards' = guards \cup {arrivals'.minted}
            /\ owed' = IF listed THEN owed \cup {arrivals'.minted} ELSE owed
      /\ UNCHANGED <<world, eid, attaches, wait, engine, delivered, report>>

\* Mutant: the attachment is recorded by the wait, not when it is accepted.
attachUnclaimed(p, pruned) ==
  LET left == Pruned(pruned, arrivals, attached)
  IN  /\ CanOpen("Attached") /\ (pruned \/ PruneMayFail)
      /\ world[p] = "foreign" /\ p \notin attaches
      /\ Overlap \/ \A id \in guards : p \notin attached_pid(arrivals, id)
      /\ attaches' = attaches \cup {p}
      /\ attached' = left.attached
      /\ arrivals' = register(left.arrivals, Attached(p))
      /\ guards' = guards \cup {arrivals'.minted}
      /\ UNCHANGED <<world, eid, creates, inputs, wait, engine, history>>

\* attach_process_begin, for an attach the system accepts: a process that is
\* debugged already is refused.
attach_process_begin(p, pruned) ==
  LET left == Pruned(pruned, arrivals, attached)
  IN  /\ CanOpen("Attached") /\ (pruned \/ PruneMayFail)
      /\ world[p] = "foreign" /\ p \notin attaches
      /\ Overlap \/ \A id \in guards : p \notin attached_pid(arrivals, id)
      /\ attaches' = attaches \cup {p}
      /\ attached' = [left.attached EXCEPT ![p] = "Deferred"]
      /\ arrivals' = register(left.arrivals, Attached(p))
      /\ guards' = guards \cup {arrivals'.minted}
      /\ UNCHANGED <<world, eid, creates, inputs, wait, engine, history>>

\* The drop of a PendingTarget nobody waited for.
DropGuard(id) ==
  /\ engine /\ wait.id # id
  /\ id \in guards
  /\ guards' = guards \ {id}
  /\ arrivals' = forget(arrivals, id)
  /\ UNCHANGED <<engineVars, inputs, attached, wait, engine, history>>

\* open_dump, accepted: it replaces the session, here one that holds no process.
open_dump ==
  /\ Ready /\ Joined = {}
  /\ creates' = 0 /\ attaches' = {}
  /\ attached' = [p \in Pids |-> "no"]
  /\ arrivals' = forget_all(arrivals)
  /\ owed' = {}
  /\ UNCHANGED <<world, eid, inputs, guards, wait, engine, delivered, report>>

-----------------------------------------------------------------------------
(* The waits. *)

\* record_where_it_stopped, in the state the engine stopped in: `who` is the
\* process of the last event, or nobody the session still lists.
record_where_it_stopped(who) ==
  LET held == session_processes'
      noted == note_attachments_present(attached, held)
      pids == {p \in Pids : noted[p] # "no"}
      entry == <<eid'[who], who>>
      takers == Takers(arrivals, entry, pids)
  IN  /\ attached' = noted
      /\ \/ /\ who \in Joined'
            /\ arrivals' = deliver(arrivals, entry, pids)
            /\ delivered' = IF takers = {} THEN delivered ELSE delivered \cup {who}
            /\ owed' = owed \ {arrivals.pending[i].id :
                                  i \in {j \in takers : \A k \in takers : j <= k}}
         \/ /\ who \notin Joined'
            /\ UNCHANGED <<arrivals, delivered, owed>>

NothingRecorded == UNCHANGED <<arrivals, attached, delivered, owed>>

\* What one pump does to the session: stop at an event, expire, or be asked to stop.
Stopped == /\ Realise /\ Joined' # {}
           /\ \/ \E who \in Pids : record_where_it_stopped(who)
              \/ NothingRecorded
Expired == Realise /\ Joined' # {} /\ NothingRecorded
OnRequest == (Realise \/ UNCHANGED engineVars) /\ NothingRecorded

\* A pump that is no open's: execute_and_wait, run_to_address, wait_for_event, settle.
Pump ==
  /\ Ready
  /\ creates > 0 \/ attaches # {} \/ Joined # {}
  /\ Stopped \/ OnRequest
  /\ UNCHANGED <<inputs, guards, wait, engine, report>>

WaitBegin(id) ==
  /\ Ready
  /\ id \in guards
  /\ wait' = [Idle EXCEPT !.id = id]
  /\ UNCHANGED <<engineVars, inputs, arrivals, attached, guards, engine, history>>

\* The values presence_of may have: Unknown when a probe fails.
presence_of(id) ==
  {"Unknown", IF Joined = {} THEN "Absent"
              ELSE presence(arrivals, id, session_processes, attached_pids)}

Finished(p) == p = "Arrived" \/ (p = "Unknown" /\ wait.waited)

\* One more turn of the loop of wait_for_live_target: a pump.
WaitPump ==
  /\ engine /\ wait.id # 0 /\ ~wait.asked
  /\ \E p \in presence_of(wait.id) : ~Finished(p)
  /\ \/ /\ Stopped \/ Expired
        /\ wait' = [wait EXCEPT !.waited = TRUE]
     \/ /\ OnRequest
        /\ wait' = [wait EXCEPT !.waited = TRUE, !.asked = TRUE]
  /\ UNCHANGED <<inputs, guards, engine, report>>

\* The wait is over: the PendingTarget it consumed is dropped.
Done(as) ==
  /\ guards' = guards \ {wait.id}
  /\ arrivals' = forget(as, wait.id)
  /\ wait' = Idle

\* The wait returns Ok, or that it was interrupted: nothing is retired.
WaitReturn ==
  /\ engine /\ wait.id # 0
  /\ \E p \in presence_of(wait.id) : Finished(p) \/ p # "Absent" \/ wait.asked \/ ~wait.waited
  /\ Done(arrivals)
  /\ UNCHANGED <<engineVars, inputs, attached, engine, history>>

\* retire_deferred_attachment.
retire_deferred_attachment(id) ==
  [p \in Pids |-> IF p \in attached_pid(arrivals, id) /\ attached[p] = "Deferred"
                  THEN "no" ELSE attached[p]]

\* The bound passes after a pump and the process never came: LiveTargetTimeout.
WaitTimeout ==
  /\ engine /\ wait.id # 0 /\ wait.waited /\ ~wait.asked
  /\ "Absent" \in presence_of(wait.id)
  /\ attached' = retire_deferred_attachment(wait.id)
  /\ Done(discard(arrivals, wait.id))
  /\ owed' = owed \ {wait.id}
  /\ UNCHANGED <<engineVars, inputs, engine, delivered, report>>

\* The pump fails.  A session left holding nothing has nothing to come either.
WaitFails ==
  /\ engine /\ wait.id # 0 /\ ~wait.asked
  /\ \E p \in presence_of(wait.id) : ~Finished(p)
  /\ \/ /\ Joined = {}
        /\ creates' = 0 /\ attaches' = {}
        /\ attached' = retire_deferred_attachment(wait.id)
     \/ /\ Joined # {} \/ creates > 0 \/ attaches # {}
        /\ UNCHANGED <<creates, attaches, attached>>
  /\ Done(arrivals)
  /\ UNCHANGED <<world, eid, inputs, engine, history>>

-----------------------------------------------------------------------------
(* The end of the session. *)

\* detach_attached_processes detaches everything listed and recorded but `failing`,
\* or nothing when the listing fails.
Detached(listed, failing) ==
  IF listed THEN (Joined \cap attached_pids) \ failing ELSE {}

\* Mutant: a process that would not be detached is not reported.
detachUnreported(listed, failing) == attached_pids # {} /\ ~listed

\* The failure it reports.
DetachFailed(listed, failing) ==
  attached_pids # {} /\ (~listed \/ Joined \cap attached_pids \cap failing # {})

\* The session ends, or EndSession is refused and it goes on.
EndSession(listed, failing, ended) ==
  LET out == Detached(listed, failing)
      took == IF ended THEN Joined \ out ELSE {}
      after(p) == IF p \in out THEN "foreign"
                  ELSE IF p \notin took THEN world[p]
                  ELSE IF PidReuse THEN "free" ELSE "gone"
  IN  /\ ended \/ EndMayFail
      /\ world' = [p \in Pids |-> after(p)]
      /\ eid' = [p \in Pids |-> IF p \in out \cup took THEN 0 ELSE eid[p]]
      /\ delivered' = delivered \ (out \cup took)
      /\ attached' = [p \in Pids |-> "no"]
      /\ creates' = IF ended THEN 0 ELSE creates
      /\ attaches' = IF ended THEN {} ELSE attaches
      /\ arrivals' = IF ended THEN forget_all(arrivals) ELSE arrivals
      /\ owed' = IF ended THEN {} ELSE owed
      /\ report' = [ok   |-> ended /\ ~DetachFailed(listed, failing),
                    took |-> \E p \in took : world[p] = "attached",
                    refused |-> report.refused \/ ~ended]
      /\ UNCHANGED wait

\* end_session of a session that is not a live kernel.
end_session(listed, failing, ended) ==
  /\ Ready
  /\ EndSession(listed, failing, ended)
  /\ inputs' = IF ended THEN 0 ELSE inputs
  /\ UNCHANGED <<guards, engine>>

\* Drop for DebugEngine, of the engine that owns the session; no guard outlives it.
DropEngine(listed, failing, ended) ==
  /\ Ready /\ guards = {}
  /\ EndSession(listed, failing, ended)
  /\ engine' = FALSE
  /\ UNCHANGED <<inputs, guards>>

-----------------------------------------------------------------------------
Next ==
  \/ \E p \in Pids : Exit(p) \/ Spawn(p) \/ Detach(p)
  \/ \E pruned, listed, accepted \in BOOLEAN : launch_process_begin(pruned, listed, accepted)
  \/ \E p \in Pids, pruned \in BOOLEAN : attach_process_begin(p, pruned)
  \/ \E id \in guards : DropGuard(id) \/ WaitBegin(id)
  \/ open_dump
  \/ Pump \/ WaitPump \/ WaitReturn \/ WaitTimeout \/ WaitFails
  \/ \E listed, ended \in BOOLEAN, failing \in SUBSET Pids :
       end_session(listed, failing, ended) \/ DropEngine(listed, failing, ended)

Spec == Init /\ [][Next]_vars

-----------------------------------------------------------------------------
(* Properties. *)

Entries == Ids \X Pids

\* Every variable keeps its type; in particular a claim is Waiting, Departed or an
\* entry, and no open has two places in the register.
TypeOK ==
  /\ world \in [Pids -> {"free", "gone", "foreign", "attached", "launched"}]
  /\ eid \in [Pids -> Ids]
  /\ creates \in Nat /\ attaches \subseteq Pids /\ inputs \in Nat
  /\ arrivals.minted \in 0..MaxOpens
  /\ \A i \in Slots(arrivals) :
       LET p == arrivals.pending[i]
       IN  /\ p.id \in 1..arrivals.minted
           /\ p.claim \in Entries \cup {Waiting, Departed}
           /\ p.inherited \subseteq Entries
           /\ p.abandoned => p.id \notin guards
  /\ \A i, j \in Slots(arrivals) : i < j => arrivals.pending[i].id < arrivals.pending[j].id
  /\ attached \in [Pids -> {"no", "Deferred", "Joined"}]
  /\ guards \subseteq 1..arrivals.minted
  /\ wait.id \in guards \cup {0}
  /\ engine \in BOOLEAN

\* No two opens hold a claim on the same process (Pending::wants refuses a process
\* another open was given).
ClaimsDistinct ==
  \A i, j \in Slots(arrivals) :
    /\ i # j
    /\ arrivals.pending[i].claim = arrivals.pending[j].claim
    => arrivals.pending[i].claim \in {Waiting, Departed}

\* Every process the session holds by attaching, or is still owed by an accepted
\* attach, is on the record that decides at teardown which processes are detached
\* (claim_attached, prune_processes_that_left, retire_deferred_attachment); an
\* end_session that was refused half way is the exception, ReleasedMeansSpared's.
AttachmentsRecorded ==
  report.refused \/ \A p \in Pids : p \in attaches \/ world[p] = "attached" => p \in attached_pids

\* An end_session that answers Ok took no process the session had attached to
\* (detach_attached_processes reports the first failure), as long as no EndSession of
\* the engine has been refused.
FirstEndSpares == report.refused \/ ~(report.ok /\ report.took)

\* The same of every end, those that follow a refused one included: "a caller told
\* "released" would have no reason to go and look" (detach_attached_processes).
ReleasedMeansSpared == ~(report.ok /\ report.took)

\* The command line of a create outlives the wait that realises it
\* (retain_deferred_input, and the release only after the session ended).
InputsOutliveCreates == engine => creates <= inputs

\* The slots whose open a step gives a process.
GivenSlots ==
  {i \in Slots(arrivals) : /\ i <= Len(arrivals'.pending)
                           /\ arrivals.pending[i].id = arrivals'.pending[i].id
                           /\ arrivals.pending[i].claim = Waiting
                           /\ arrivals'.pending[i].claim \notin {Waiting, Departed}}

\* A launch is given a process only once every launch before it has been given one or
\* has timed out: dropping a guard does not hand its place to the next launch
\* (Arrivals::forget keeps an abandoned launch).  One launch is passed over: the one
\* whose snapshot names that very engine id and pid, of a process that has left
\* since, for nothing prunes a snapshot (Pending::wants).
LaunchesInOrder ==
  [][\A i \in GivenSlots, early \in owed :
        LET late == arrivals.pending[i]
        IN  late.what.kind = "Launched" /\ early < late.id =>
              \E j \in SlotOf(arrivals, early) :
                arrivals'.pending[i].claim \in arrivals.pending[j].what.before]_vars

\* No process is given to two opens while the session holds it, not even when the
\* first open has returned and its guard is gone (Arrivals::discard lets the
\* others inherit the claim).
NeverGivenTwice ==
  [][\A i \in GivenSlots : arrivals'.pending[i].claim[2] \notin delivered]_vars

\* A launch is never given a process the session attached to (Pending::wants), while no
\* refused end has dropped the record that tells the two apart.
LaunchNotGivenAttached ==
  [][\A i \in GivenSlots : ~report.refused /\ arrivals.pending[i].what.kind = "Launched"
                            => world'[arrivals'.pending[i].claim[2]] # "attached"]_vars

\* An open that was given its process never waits again, and never for another
\* (Claim::Departed).
ClaimsFinal ==
  [][\A i \in Slots(arrivals), j \in 1..Len(arrivals'.pending) :
        LET old == arrivals.pending[i]
            new == arrivals'.pending[j]
        IN  old.id = new.id /\ old.claim # Waiting => new.claim \in {old.claim, Departed}]_vars

\* A stop goes to the open it belongs to: a process is given to one open, an attached one to no
\* launch, and what an open was given stays its own (Arrivals::deliver).
StopsRouted ==
  /\ NeverGivenTwice
  /\ LaunchNotGivenAttached
  /\ ClaimsFinal
=============================================================================
