------------------------------ MODULE Watchdog ------------------------------
(***************************************************************************)
(* The thread behind `struct Watchdog` (dbgeng.rs) and its owner, step by  *)
(* step: the flag under the mutex, the nap on the condition variable, the  *)
(* break, the store to `fired`, and the stop, join and load of `disarm`.   *)
(* Time is one bit per watchdog, whether its deadline has passed; a wait   *)
(* may end at any moment (a timeout, the notification, or spuriously).     *)
(***************************************************************************)
CONSTANT Dogs   \* the watchdogs alive together (one per nested operation)

VARIABLES
  due,     \* those whose deadline has passed
  stop,    \* those whose `disarmed` flag is set
  fired,   \* those whose `fired` flag is set
  thread,  \* the thread: "top", "waiting", "awake", "raising", "storing", "exited"
  owner,   \* its owner: "working", "stopping", "dropping", "joined", "gone"
  raised,  \* history: those whose `on_deadline` has been called
  report   \* what the owner was told

vars == <<due, stop, fired, thread, owner, raised, report>>

Init ==
  /\ due \in SUBSET Dogs            \* a zero deadline has already passed
  /\ stop = {}
  /\ fired = {}
  /\ thread = [d \in Dogs |-> "top"]
  /\ owner = [d \in Dogs |-> "working"]
  /\ raised = {}
  /\ report = [d \in Dogs |-> "open"]

\* The deadline passes.
Elapse(d) ==
  /\ due' = due \cup {d}
  /\ UNCHANGED <<stop, fired, thread, owner, raised, report>>

-----------------------------------------------------------------------------
(* The thread of `arm`.                                                    *)

\* Takes the lock; leaves if told to stop, and otherwise waits, which releases
\* the lock, so no notification falls between the check and the wait.
Lock(d) ==
  /\ thread[d] = "top"
  /\ thread' = [thread EXCEPT ![d] = IF d \in stop THEN "exited" ELSE "waiting"]
  /\ UNCHANGED <<due, stop, fired, owner, raised, report>>

\* The wait ends, with the lock held again; the flag is checked once more.
Wake(d) ==
  /\ thread[d] = "waiting"
  /\ thread' = [thread EXCEPT ![d] = IF d \in stop THEN "exited" ELSE "awake"]
  /\ UNCHANGED <<due, stop, fired, owner, raised, report>>

\* The deadline decides, not the fact of having woken.
Check(d) ==
  /\ thread[d] = "awake"
  /\ thread' = [thread EXCEPT ![d] = IF d \in due THEN "raising" ELSE "top"]
  /\ UNCHANGED <<due, stop, fired, owner, raised, report>>

\* `on_deadline()`.
OnDeadline(d) ==
  /\ thread[d] = "raising"
  /\ raised' = raised \cup {d}
  /\ thread' = [thread EXCEPT ![d] = "storing"]
  /\ UNCHANGED <<due, stop, fired, owner, report>>

\* `raised.store(true)`, after the call.
Store(d) ==
  /\ thread[d] = "storing"
  /\ fired' = fired \cup {d}
  /\ thread' = [thread EXCEPT ![d] = "top"]
  /\ UNCHANGED <<due, stop, owner, raised, report>>

-----------------------------------------------------------------------------
(* The owner: `disarm`, or `drop` on an unwind.                            *)

\* Mutant: the thread is notified and the flag is not set.
StopUnset(d) ==
  /\ owner[d] = "working"
  /\ \E how \in {"stopping", "dropping"} : owner' = [owner EXCEPT ![d] = how]
  /\ UNCHANGED <<due, stop, fired, thread, raised, report>>

\* `stop`, under the lock.
Stop(d) ==
  /\ owner[d] = "working"
  /\ stop' = stop \cup {d}
  /\ \E how \in {"stopping", "dropping"} : owner' = [owner EXCEPT ![d] = how]
  /\ UNCHANGED <<due, fired, thread, raised, report>>

\* Mutant: the thread is not joined.
Unjoined(d) == TRUE

\* `thread.join()` returns.
Joined(d) == thread[d] = "exited"

\* `stop` ends with the join; an unwinding owner is gone then.
Join(d) ==
  /\ owner[d] \in {"stopping", "dropping"} /\ Joined(d)
  /\ IF owner[d] = "stopping"
     THEN owner' = [owner EXCEPT ![d] = "joined"] /\ UNCHANGED report
     ELSE /\ owner' = [owner EXCEPT ![d] = "gone"]
          /\ report' = [report EXCEPT ![d] = "dropped"]
  /\ UNCHANGED <<due, stop, fired, thread, raised>>

\* `disarm` loads `fired` and answers; the Drop that follows stops again, which
\* does nothing.
Answer(d) ==
  /\ owner[d] = "joined"
  /\ owner' = [owner EXCEPT ![d] = "gone"]
  /\ report' = [report EXCEPT ![d] = IF d \in fired THEN "broke" ELSE "quiet"]
  /\ UNCHANGED <<due, stop, fired, thread, raised>>

-----------------------------------------------------------------------------
Thread(d) == Lock(d) \/ Wake(d) \/ Check(d) \/ OnDeadline(d) \/ Store(d)
Owner(d) == Join(d) \/ Answer(d)

Next == \E d \in Dogs : Elapse(d) \/ Thread(d) \/ Stop(d) \/ Owner(d)

Spec == Init /\ [][Next]_vars

\* Threads are scheduled, a wait times out, and an owner that began to disarm
\* goes on; nothing makes an owner begin.
FairSpec == Spec /\ \A d \in Dogs : WF_vars(Thread(d)) /\ WF_vars(Owner(d))

-----------------------------------------------------------------------------
\* Every variable keeps its type (struct Watchdog and the locals of its thread).
TypeOK ==
  /\ due \subseteq Dogs /\ stop \subseteq Dogs /\ fired \subseteq Dogs /\ raised \subseteq Dogs
  /\ thread \in [Dogs -> {"top", "waiting", "awake", "raising", "storing", "exited"}]
  /\ owner \in [Dogs -> {"working", "stopping", "dropping", "joined", "gone"}]
  /\ report \in [Dogs -> {"open", "broke", "quiet", "dropped"}]

Abstract == INSTANCE AbstractWatchdog WITH Dogs <- Dogs, raised <- raised, report <- report

\* The watchdog keeps its promise: no break once the owner has its answer, and
\* the answer counts a break whose store was still to come when `disarm` began.
ImplementsAbstract == Abstract!Spec

\* A break is never raised before its deadline (`start.elapsed() >= deadline`).
NeverEarly == raised \subseteq due

\* `disarm` returns: no wait of the thread outlives the notification, and no
\* lock is held across the break the owner waits behind.
DisarmReturns ==
  \A d \in Dogs : owner[d] \in {"stopping", "dropping"} ~> owner[d] = "gone"

=============================================================================
