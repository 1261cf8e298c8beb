----------------------------- MODULE Operations -----------------------------
(***************************************************************************)
(* Bounded operations of `DebugEngine` (dbgeng.rs), the watchdogs armed    *)
(* around them and the break requests hosts raise through an               *)
(* `InterruptHandle`.                                                      *)
(*                                                                         *)
(* Three kinds of thread share the engine.  The engine thread runs the     *)
(* operations: it opens a guard (`begin_operation`), makes a blocking      *)
(* engine call, reads what cut the call short, and drops the guard.  A     *)
(* host thread may call `InterruptHandle::interrupt` at any moment.  A     *)
(* watchdog thread raises a break when its operation's deadline passes,    *)
(* and again until it is disarmed.  Operations nest: a breakpoint callback *)
(* runs inside the enclosing WaitForEvent, and a kernel attach runs a      *)
(* whole `execute_and_wait` inside its own operation.                      *)
(*                                                                         *)
(* DbgEng's pending interrupt is one flag.  Here it is the set of those    *)
(* the standing breaks were raised for (0: nobody's); the flag is up when  *)
(* the set is not empty, and every consumer takes all of it at once.       *)
(***************************************************************************)
EXTENDS Integers, Sequences, FiniteSets

-----------------------------------------------------------------------------
(***************************************************************************)
(* The bookkeeping of break requests: `struct BreakScope` of dbgeng.rs.    *)
(*                                                                         *)
(* A scope is a record: how many operation ids were handed out, the stack  *)
(* of the operations the engine is inside (outermost first), and the set   *)
(* of operations a host has asked to break and that have not accounted for *)
(* it yet.  The operators below are the methods of the struct; they are    *)
(* used under one mutex, so each is one step of whoever calls it.          *)
(***************************************************************************)

\* `Option<OperationId>::None`; ids are minted from 1.
None == 0

Scope == [minted : Nat, running : Seq(Nat), asked : SUBSET Nat]

NewScope == [minted |-> 0, running |-> <<>>, asked |-> {}]

\* The ids on the stack.
Running(scope) == {scope.running[i] : i \in 1..Len(scope.running)}

\* `Vec::retain(|running| *running != op)`: ids are never reused, so op is on
\* the stack at most once and what is after it moves down by one.
Without(running, op) ==
  IF \E i \in 1..Len(running) : running[i] = op
  THEN LET at == CHOOSE i \in 1..Len(running) : running[i] = op
       IN  [i \in 1..(Len(running) - 1) |->
               IF i < at THEN running[i] ELSE running[i + 1]]
  ELSE running

-----------------------------------------------------------------------------
\* Mutant: every operation clears what was asked before it as it opens, which
\* is what the engine-wide flag did.
beginClearing(scope) ==
  [minted  |-> scope.minted + 1,
   running |-> Append(scope.running, scope.minted + 1),
   asked   |-> {}]

\* Opens an operation; its id is the minted count.
begin(scope) ==
  [minted  |-> scope.minted + 1,
   running |-> Append(scope.running, scope.minted + 1),
   asked   |-> scope.asked]

\* The operation a break issued now would stop.
innermost(scope) ==
  IF scope.running = <<>> THEN None ELSE scope.running[Len(scope.running)]

\* Files a request against op.
record(scope, op) == [scope EXCEPT !.asked = @ \cup {op}]

\* The answer of `take`: whether a request is filed against op.
isAsked(scope, op) == op \in scope.asked

\* `take` removes the request filed against op.
take(scope, op) == [scope EXCEPT !.asked = @ \ {op}]

\* Closes op; its request, read or not, goes with it.
end(scope, op) ==
  [scope EXCEPT !.running = Without(@, op), !.asked = @ \ {op}]

-----------------------------------------------------------------------------

CONSTANTS MaxOps,        \* bound on the operations opened in a behaviour
          Kinds,         \* the kinds of operation the engine thread opens
          CallbackKinds  \* those a breakpoint callback opens

(***************************************************************************)
(* command  execute_command_bounded      resolve  new_breakpoint (symbolic)*)
(* reload   reload_symbols_bounded       chunked  read_memory_bounded,     *)
(*                                                disassemble_bounded      *)
(* run      execute_and_wait             settle   settle                   *)
(* runto    run_to_address               wait     wait_for_event           *)
(* open     wait_for_live_target         attach   wait_for_kernel_break_in *)
(* announce AnnouncementGuard::wait                                        *)
(***************************************************************************)
AllKinds == {"command", "resolve", "reload", "chunked", "run", "settle",
             "runto", "wait", "open", "attach", "announce"}

ASSUME MaxOpsAssumption == MaxOps \in Nat
ASSUME KindsAssumption == Kinds \subseteq AllKinds /\ CallbackKinds \subseteq AllKinds

\* The kinds that pump WaitForEvent; a breakpoint callback runs inside those.
Pumps == {"run", "settle", "runto", "wait", "open", "attach", "announce"}

\* The kinds that issue a command with Execute before they pump.
Issuing == {"run", "runto"}

\* Whether an operation of this kind has a watchdog around its call:
\* `timeout_ms > 0` decides for the first three, `Bound::Watchdog` and
\* `Bound::WatchdogExit` always arm one, `Bound::Finite` never does.
Watched(k) ==
  CASE k \in {"command", "resolve", "reload"} -> {TRUE, FALSE}
    [] k \in {"run", "settle", "runto", "attach", "announce"} -> {TRUE}
    [] k \in {"wait", "open", "chunked"} -> {FALSE}

\* The kinds whose call site consumes the pending break of a cut-short call.
Draining == {"command", "resolve", "reload", "chunked", "run", "settle"}

VARIABLES
  scope,    \* the BreakScope, behind its mutex
  pending,  \* whom DbgEng's pending interrupt was raised for
  pc,       \* where each operation is
  kind,     \* its kind
  dog,      \* its watchdog: "off", "armed" or "fired"
  cut,      \* what it read: "none", "Deadline" or "OnRequest"
  filed,    \* history: the operations a host's request was filed against
  broken    \* history: the operations whose call a break of their own ended

vars == <<scope, pending, pc, kind, dog, cut, filed, broken>>

Ops == 1..MaxOps

Phases == {"unborn", "begun", "primed", "issued", "armed", "inside", "back",
           "disarmed", "absorb", "read", "done", "closed", "ended"}

\* The frames of the engine thread: the guards alive, and the one being dropped.
Live == {o \in Ops : pc[o] \notin {"unborn", "ended"}}

\* The innermost frame, the only one the engine thread executes.
Top(o) == o \in Live /\ \A p \in Live : p <= o

Init ==
  /\ scope = NewScope
  /\ pending = {}
  /\ pc = [o \in Ops |-> "unborn"]
  /\ kind = [o \in Ops |-> "command"]
  /\ dog = [o \in Ops |-> "off"]
  /\ cut = [o \in Ops |-> "none"]
  /\ filed = {}
  /\ broken = {}

-----------------------------------------------------------------------------

\* `InterruptHandle::interrupt`, by any host thread: under the scope's lock,
\* the break is raised and the request is recorded against the innermost
\* operation, if there is one.  (A SetInterrupt that fails changes nothing.)
Interrupt ==
  LET against == innermost(scope)
  IN  /\ pending' = pending \cup {against}
      /\ scope' = IF against = None THEN scope ELSE record(scope, against)
      /\ filed' = IF against = None THEN filed ELSE filed \cup {against}
      /\ UNCHANGED <<pc, kind, dog, cut, broken>>

\* Mutant: the watchdog raises one break and does not repeat it.
RaiseOnce(o) ==
  /\ dog[o] = "armed" /\ pc[o] \in {"armed", "inside", "back"}
  /\ pending' = pending \cup {o}
  /\ dog' = [dog EXCEPT ![o] = "fired"]
  /\ UNCHANGED <<scope, pc, kind, cut, filed, broken>>

\* Mutant: the thread is stopped and not joined, and raises once more.
RaiseUnjoined(o) ==
  /\ dog[o] # "off" /\ pc[o] \in {"armed", "inside", "back", "disarmed"}
  /\ pending' = pending \cup {o}
  /\ dog' = [dog EXCEPT ![o] = "fired"]
  /\ UNCHANGED <<scope, pc, kind, cut, filed, broken>>

\* The watchdog of o, past its deadline, raises a break (`break_in_only`), and
\* repeats it every WATCHDOG_REPEAT.  It runs until `disarm` has joined it.
\* `fired` is read only after the join, so raising and storing are one step
\* (module Watchdog has them apart).
Raise(o) ==
  /\ dog[o] # "off" /\ pc[o] \in {"armed", "inside", "back"}
  /\ pending' = pending \cup {o}
  /\ dog' = [dog EXCEPT ![o] = "fired"]
  /\ UNCHANGED <<scope, pc, kind, cut, filed, broken>>

-----------------------------------------------------------------------------
(* The engine thread.                                                      *)

\* What a break ending the call of o means for the history.
NoteBreak(o) == broken' = IF o \in pending THEN broken \cup {o} ELSE broken

\* `begin_operation`: from the caller's code when no operation is open, from a
\* breakpoint callback inside a wait, or from `absorb_initial_break_artifact`.
Begin(k) ==
  LET id == scope.minted + 1
  IN  /\ id \in Ops
      /\ \/ Live = {} /\ k \in Kinds /\ pc' = [pc EXCEPT ![id] = "begun"]
         \/ /\ k \in CallbackKinds
            /\ \E o \in Ops : Top(o) /\ pc[o] = "inside" /\ kind[o] \in Pumps
            /\ pc' = [pc EXCEPT ![id] = "begun"]
         \/ /\ k = "run"
            /\ \E o \in Ops : /\ Top(o) /\ pc[o] = "absorb"
                              /\ pc' = [pc EXCEPT ![id] = "begun", ![o] = "read"]
      /\ scope' = begin(scope)
      /\ kind' = [kind EXCEPT ![id] = k]
      /\ UNCHANGED <<pending, dog, cut, filed, broken>>

\* An early return after the guard is open: no debuggee, the output callbacks
\* could not be set, or the target an open waits for is there already.
Refuse(o) ==
  /\ Top(o) /\ pc[o] = "begun" /\ kind[o] \in {"command", "run", "runto", "settle", "open"}
  /\ pc' = [pc EXCEPT ![o] = "done"]
  /\ UNCHANGED <<scope, pending, kind, dog, cut, filed, broken>>

\* `drain_an_unowned_break`: the pending break, unless an operation other than
\* ours is running.
drain_an_unowned_break(ours) ==
  IF Running(scope) \subseteq {ours} THEN {} ELSE pending

\* `reload_symbols_bounded` drains before it reloads.
Prime(o) ==
  /\ Top(o) /\ pc[o] = "begun" /\ kind[o] = "reload"
  /\ pending' = drain_an_unowned_break(o)
  /\ pc' = [pc EXCEPT ![o] = "primed"]
  /\ UNCHANGED <<scope, kind, dog, cut, filed, broken>>

\* `execute_and_wait` and `run_to_address` issue their command.  DbgEng drops a
\* pending request as Execute begins (measured, not promised: either may
\* happen).  When Execute fails no pump runs.
Issue(o) ==
  /\ Top(o) /\ pc[o] = "begun" /\ kind[o] \in Issuing
  /\ pending' \in {pending, {}}
  /\ \E next \in {"issued", "disarmed"} : pc' = [pc EXCEPT ![o] = next]
  /\ UNCHANGED <<scope, kind, dog, cut, filed, broken>>

\* Arms the watchdog, where there is one.
Arm(o) ==
  /\ Top(o)
  /\ \/ pc[o] = "begun" /\ kind[o] \notin (Issuing \cup {"reload", "chunked"})
     \/ pc[o] \in {"primed", "issued"}
  /\ \E watched \in Watched(kind[o]) :
        dog' = [dog EXCEPT ![o] = IF watched THEN "armed" ELSE "off"]
  /\ pc' = [pc EXCEPT ![o] = "armed"]
  /\ UNCHANGED <<scope, pending, kind, cut, filed, broken>>

\* Enters the blocking engine call.  Execute may drop a pending request as it
\* begins, one the watchdog has just raised included.
Enter(o) ==
  /\ Top(o) /\ pc[o] = "armed"
  /\ \/ pending' = pending
     \/ kind[o] = "command" /\ pending' = {}
  /\ pc' = [pc EXCEPT ![o] = "inside"]
  /\ UNCHANGED <<scope, kind, dog, cut, filed, broken>>

\* The call ends because the engine polled the pending interrupt, which
\* consumes it.
BreakIn(o) ==
  /\ Top(o) /\ pc[o] = "inside" /\ pending # {}
  /\ pending' = {}
  /\ NoteBreak(o)
  /\ pc' = [pc EXCEPT ![o] = "back"]
  /\ UNCHANGED <<scope, kind, dog, cut, filed>>

\* The call ends for any other reason (an event, its end, an expiry, a
\* failure), and leaves the pending interrupt as it is.
Return(o) ==
  /\ Top(o) /\ pc[o] = "inside"
  /\ pc' = [pc EXCEPT ![o] = "back"]
  /\ UNCHANGED <<scope, pending, kind, dog, cut, filed, broken>>

\* `Watchdog::disarm` has stopped and joined the thread.
Disarm(o) ==
  /\ Top(o) /\ pc[o] = "back"
  /\ pc' = [pc EXCEPT ![o] = "disarmed"]
  /\ UNCHANGED <<scope, pending, kind, dog, cut, filed, broken>>

\* Mutant: the request decides and the watchdog is forgotten.
watchdogForgotten(fired, asked) == IF asked THEN "OnRequest" ELSE "none"

\* `cut_short_by`, and the same rule at the end of `pump`.
cut_short_by(fired, asked) ==
  IF fired THEN "Deadline" ELSE IF asked THEN "OnRequest" ELSE "none"

\* What follows the read: an open that was not cut short may pump again, a
\* kernel attach that did not reach its deadline absorbs the initial break's
\* artifact (while MaxOps leaves it an id); everything else has its answer.
AfterRead(k, why) ==
  CASE k = "open" /\ why = "none" -> {"begun", "read"}
    [] k = "attach" /\ why # "Deadline" /\ scope.minted < MaxOps -> {"absorb", "read"}
    [] OTHER -> {"read"}

\* The operation takes the request filed against it and decides what cut its
\* call short; the end of `pump`, or `cut_short_by`.
Read(o) ==
  /\ Top(o) /\ pc[o] = "disarmed"
  /\ LET why == cut_short_by(dog[o] = "fired", isAsked(scope, o))
     IN  /\ cut' = [cut EXCEPT ![o] = why]
         /\ \E next \in AfterRead(kind[o], why) : pc' = [pc EXCEPT ![o] = next]
  /\ scope' = take(scope, o)
  /\ UNCHANGED <<pending, kind, dog, filed, broken>>

\* Between two chunks, `halt` first asks the clock and then takes the request;
\* with neither, the next chunk is read or the read is over.
Poll(o) ==
  /\ Top(o) /\ pc[o] = "begun" /\ kind[o] = "chunked"
  /\ \/ /\ cut' = [cut EXCEPT ![o] = "Deadline"]
        /\ pc' = [pc EXCEPT ![o] = "read"]
        /\ scope' = scope
     \/ /\ isAsked(scope, o)
        /\ cut' = [cut EXCEPT ![o] = "OnRequest"]
        /\ pc' = [pc EXCEPT ![o] = "read"]
        /\ scope' = take(scope, o)
     \/ /\ ~isAsked(scope, o)
        /\ pc' \in {pc, [pc EXCEPT ![o] = "read"]}
        /\ UNCHANGED <<scope, cut>>
  /\ UNCHANGED <<pending, kind, dog, filed, broken>>

\* What the call site leaves pending.  `run_to_address` consumes unless it
\* landed, the target went or the command failed; a chunked read only consumes
\* the request it took; the pumping waits never do.
account(k, why) ==
  CASE why = "none" -> {pending}
    [] k = "runto" -> {pending, {}}
    [] k = "chunked" -> {IF why = "OnRequest" THEN {} ELSE pending}
    [] k \in Draining -> {{}}
    [] OTHER -> {pending}

\* The call site accounts for the break, and the guard is about to drop.
Account(o) ==
  /\ Top(o) /\ pc[o] = "read"
  /\ pending' \in account(kind[o], cut[o])
  /\ pc' = [pc EXCEPT ![o] = "done"]
  /\ UNCHANGED <<scope, kind, dog, cut, filed, broken>>

\* Mutant: the guard closes and never drains the break nobody read.
EndWithoutDrain(o) ==
  /\ Top(o) /\ pc[o] = "done"
  /\ scope' = end(scope, o)
  /\ pc' = [pc EXCEPT ![o] = "ended"]
  /\ UNCHANGED <<pending, kind, dog, cut, filed, broken>>

\* `Operation::drop`, under the lock: the operation is closed; if it left a
\* request unread, a drain is due.
End(o) ==
  /\ Top(o) /\ pc[o] = "done"
  /\ scope' = end(scope, o)
  /\ pc' = [pc EXCEPT ![o] = IF isAsked(scope, o) THEN "closed" ELSE "ended"]
  /\ UNCHANGED <<pending, kind, dog, cut, filed, broken>>

\* `Operation::drop`, outside the lock: the drain.
DropDrain(o) ==
  /\ Top(o) /\ pc[o] = "closed"
  /\ pending' = {}
  /\ pc' = [pc EXCEPT ![o] = "ended"]
  /\ UNCHANGED <<scope, kind, dog, cut, filed, broken>>

\* The engine thread is in its caller's code: between operations, or in a
\* breakpoint callback.
InCaller ==
  \/ Live = {}
  \/ CallbackKinds # {} /\ \E o \in Ops : Top(o) /\ pc[o] = "inside" /\ kind[o] \in Pumps

\* `reload_symbols`, which opens no operation: it drains an unowned break first.
reload_symbols ==
  /\ InCaller
  /\ pending' = drain_an_unowned_break(None)
  /\ UNCHANGED <<scope, pc, kind, dog, cut, filed, broken>>

\* A call that opens no operation and consumes the pending break: `interrupted`
\* itself (a host's, or the poll of a pool or heap walk), or the Execute of an
\* unbounded command.
interrupted ==
  /\ InCaller /\ pending # {}
  /\ pending' = {}
  /\ UNCHANGED <<scope, pc, kind, dog, cut, filed, broken>>

-----------------------------------------------------------------------------
\* A step of the engine thread that its own code takes; the calls it waits for
\* end by BreakIn and Return.
Step(o) ==
  \/ Prime(o) \/ Issue(o) \/ Arm(o) \/ Enter(o) \/ Disarm(o) \/ Read(o)
  \/ Poll(o) \/ Account(o) \/ End(o) \/ DropDrain(o)

Next ==
  \/ Interrupt \/ reload_symbols \/ interrupted
  \/ \E k \in AllKinds : Begin(k)
  \/ \E o \in Ops : Raise(o) \/ Step(o) \/ Refuse(o) \/ BreakIn(o) \/ Return(o)

Spec == Init /\ [][Next]_vars

\* The engine thread keeps executing its own code, starts the run that absorbs
\* a kernel attach's artifact, and acts on a pending interrupt at its next
\* poll; a watchdog past its deadline wakes up.  Nothing makes a call return by
\* itself, and no host has to ask.
Fairness ==
  /\ WF_vars(Begin("run") /\ Live # {})
  /\ \A o \in Ops : WF_vars(Step(o)) /\ WF_vars(BreakIn(o)) /\ WF_vars(Raise(o))

FairSpec == Spec /\ Fairness

-----------------------------------------------------------------------------
\* Every variable keeps its type; in particular the operations in flight and the scope's
\* ids stay within the bound, and a request is recorded only against an operation
\* (InterruptHandle::interrupt, begin_operation).
TypeOK ==
  /\ scope \in Scope
  /\ pending \subseteq Ops \cup {None}
  /\ pc \in [Ops -> Phases]
  /\ kind \in [Ops -> AllKinds]
  /\ dog \in [Ops -> {"off", "armed", "fired"}]
  /\ cut \in [Ops -> {"none", "Deadline", "OnRequest"}]
  /\ filed \subseteq Ops
  /\ broken \subseteq Ops

\* Every operation that has not yet been closed.
Open == {o \in Ops : pc[o] \notin {"unborn", "closed", "ended"}}

\* The stack names exactly the guards alive, outermost first, and a request is
\* only ever recorded against one of them: `end` takes the request with it, so
\* no request outlives its operation (struct BreakScope, `Operation::drop`).
ScopeMatchesGuards ==
  /\ Running(scope) = Open
  /\ \A i, j \in 1..Len(scope.running) : i < j => scope.running[i] < scope.running[j]
  /\ scope.asked \subseteq Open

\* A request the host was told was Raised is never erased: until its operation
\* closes it stays recorded or the operation has reported being cut short,
\* whatever opens, nests, drains or closes meanwhile (`interrupt`).
RequestKept == \A o \in filed \cap Open : o \in scope.asked \/ cut[o] # "none"

\* An operation says OnRequest only if a host's request named it, and Deadline
\* only if its own bound passed (`cut_short_by`, `pump`, `halt`).
AttributionHonest ==
  \A o \in Ops : /\ cut[o] = "OnRequest" => o \in filed
                 /\ cut[o] = "Deadline" => dog[o] = "fired" \/ kind[o] = "chunked"

\* A call ended by a break raised for its own operation, by a host or by its
\* watchdog, is never reported as having ended by itself (`pump`).
OwnBreakReported ==
  \A o \in broken : pc[o] \in {"absorb", "read", "done", "closed", "ended"} => cut[o] # "none"

\* The draining operations leave no break of their own behind to break into
\* whatever runs next, whenever it was raised ("so the next operation starts
\* clean", `Operation::drop`).
NextStartsClean ==
  \A o \in Ops : pc[o] = "ended" /\ kind[o] \in Draining => o \notin pending

\* The drain of a reload never takes the break of an enclosing operation
\* (`drain_an_unowned_break`).
ReloadSparesEnclosing ==
  [][\A o \in Ops : pc[o] = "begun" /\ pc'[o] = "primed"
        => \A p \in Open \ {o} : p \in pending => p \in pending']_vars

\* Whose watchdog has been disarmed and has answered.
Answered(o) == dog[o] # "off" /\ pc[o] \notin {"armed", "inside", "back"}

Promise ==
  INSTANCE AbstractWatchdog
    WITH Dogs <- Ops,
         raised <- {o \in Ops : dog[o] = "fired"},
         report <- [o \in Ops |-> IF ~Answered(o) THEN "open"
                                  ELSE IF dog[o] = "fired" THEN "broke" ELSE "quiet"]

\* The watchdogs of the operations do what a watchdog promises, and each is armed and disarmed
\* once, though operations are refused, fail to issue their command or pump again: the answer
\* an operation reads is final (`Watchdog::disarm`, which module Watchdog has step by step).
WatchdogsAsPromised == Promise!Spec

\* An operation with a watchdog always ends, even when its call never returns
\* by itself and breaks raised for it are dropped or taken by others
\* (`Watchdog::arm`, WATCHDOG_REPEAT).
BoundedOperationEnds == \A o \in Ops : dog[o] = "armed" ~> pc[o] = "ended"

\* Why a call ended is reported truly: a host's request only if one named this operation, its
\* deadline only if that passed, and never a natural end for a call its own break ended
\* (`cut_short_by`, `pump`).
ReportsHonest ==
  /\ AttributionHonest
  /\ OwnBreakReported
=============================================================================
