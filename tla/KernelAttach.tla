---------------------------- MODULE KernelAttach ----------------------------
(***************************************************************************)
(* Attaching to a kernel and breaking in.  The default path arms the       *)
(* engine's initial break, waits for the stop, disarms it and absorbs the  *)
(* one further break it leaves.  The experimental path watches the         *)
(* engine's output for the announcement of the connection, which arrives   *)
(* in pieces of any length, and asks for one break when it has seen it;    *)
(* the host's own output callback is forwarded to, and put back after.     *)
(***************************************************************************)
EXTENDS Integers, Sequences, SequencesExt

CONSTANTS
  PREFIX,       \* the announcement: "Connected to target ", as symbols
  Newline, Other,
  MaxPrinted,   \* a bound of the instance: the symbols of output followed
  MaxAttachFaults  \* a bound of the instance: the engine calls that may fail

VARIABLES
  engine,       \* its options, its output callback and mask, and the break-ins pending
  target,       \* the kernel: "none", "dialing", "running" or "stopped"
  notice,       \* what the observer has matched, and the interrupt it requested
  printed,      \* ghost: the normal output since the observer was installed
  hosts,        \* ghost: the host's mask, and whether it heard the last output
  attach,       \* the attach in progress
  faults

attachVars == <<engine, target, notice, printed, hosts, attach, faults>>

Fresh == [matched |-> 0, skip_line |-> FALSE, fired |-> FALSE, requested |-> "none", interrupts |-> 0]
NoAttach == [pc |-> "idle", mode |-> "none", result |-> "none", refused |-> FALSE, asked |-> FALSE, kept |-> FALSE]
AttachInit ==
  /\ \E mask \in {{}, {"normal"}, {"warning"}} :
       /\ engine = [initial_break |-> FALSE, callback |-> "host", mask |-> mask, pending |-> 0]
       /\ hosts = [mask |-> mask, expected |-> FALSE, heard |-> FALSE]
  /\ target = "none" /\ notice = Fresh /\ printed = <<>> /\ attach = NoAttach /\ faults = 0

Fault == faults < MaxAttachFaults /\ faults' = faults + 1
Ended(result) == attach' = [attach EXCEPT !.pc = "over", !.result = result]

(* attach_kernel_begin and attach_local_kernel_begin. *)
attach_kernel_begin ==
  /\ attach.pc = "idle" /\ target = "none"
  /\ engine' = [engine EXCEPT !.initial_break = TRUE]
  /\ \/ /\ target' = "dialing"
        /\ attach' = [NoAttach EXCEPT !.pc = "waiting", !.mode = "default"]
        /\ UNCHANGED faults
     \/ /\ Fault
        /\ Ended("AttachFailed")
        /\ UNCHANGED target
  /\ UNCHANGED <<notice, printed, hosts>>

(* attach_kernel_announcement_begin: install the observer, then attach without the initial break. *)
(* The mask is widened before the callback is set; a failure drops the guard, which restores.     *)
install ==
  /\ attach.pc = "idle" /\ target = "none"
  /\ notice' = Fresh /\ printed' = <<>>
  /\ \/ /\ engine' = [engine EXCEPT !.mask = @ \cup {"normal"}, !.callback = "observer"]
        /\ attach' = [NoAttach EXCEPT !.pc = "installed", !.mode = "announcement"]
        /\ UNCHANGED faults
     \/ /\ Fault
        /\ engine' \in {engine, [engine EXCEPT !.mask = @ \cup {"normal"}]}
        /\ attach' = [NoAttach EXCEPT !.pc = "dropping", !.mode = "announcement", !.result = "CommandFailed"]
  /\ UNCHANGED <<target, hosts>>
attach_kernel_announcement_begin ==
  /\ attach.pc = "installed"
  /\ \/ /\ engine' = [engine EXCEPT !.initial_break = FALSE]
        /\ target' = "dialing"
        /\ attach' = [attach EXCEPT !.pc = "waiting"]
        /\ UNCHANGED faults
     \/ /\ Fault
        /\ attach' = [attach EXCEPT !.pc = "dropping", !.result = "AttachFailed"]
        /\ UNCHANGED <<engine, target>>
  /\ UNCHANGED <<notice, printed, hosts>>

(* The engine: the link comes up, with the initial break if it is armed, which leaves one more.   *)
Connect ==
  /\ attach.pc = "waiting" /\ target = "dialing"
  /\ IF engine.initial_break
     THEN target' = "stopped" /\ engine' = [engine EXCEPT !.pending = @ + 1]
     ELSE target' = "running" /\ UNCHANGED engine
  /\ UNCHANGED <<notice, printed, hosts, attach, faults>>
BreakIn ==
  /\ target = "running"
  /\ engine.pending > 0
  /\ target' = "stopped" /\ engine' = [engine EXCEPT !.pending = @ - 1]
  /\ UNCHANGED <<notice, printed, hosts, attach, faults>>
StopByItself ==   \* a bugcheck, or a breakpoint of its own
  /\ attach.pc = "waiting" /\ target = "running"
  /\ target' = "stopped"
  /\ UNCHANGED <<engine, notice, printed, hosts, attach, faults>>

(* Notice::feed: the prefix at the start of a line, however the pieces fall.  A line that         *)
(* disagrees is skipped to its end.                                                               *)
Fed(n, symbol) ==
  IF n.fired THEN n
  ELSE IF symbol = Newline THEN [n EXCEPT !.matched = 0, !.skip_line = FALSE]
  ELSE IF n.skip_line THEN n
  ELSE IF symbol = PREFIX[n.matched + 1]
       THEN [n EXCEPT !.matched = @ + 1, !.fired = n.matched + 1 = Len(PREFIX)]
  ELSE [n EXCEPT !.matched = 0, !.skip_line = TRUE]
feed(mask, piece) == IF mask # "normal" THEN notice ELSE FoldLeft(Fed, notice, piece)
forwards(mask) == mask \in hosts.mask
Output(mask, piece) ==
  /\ attach.pc = "waiting" /\ mask \in engine.mask
  /\ Len(printed) + Len(piece) <= MaxPrinted
  /\ engine.callback = "observer"
  /\ LET after == feed(mask, piece)
     IN IF after.fired /\ ~notice.fired
        THEN \/ /\ notice' = [after EXCEPT !.requested = "ok", !.interrupts = @ + 1]
                /\ engine' = [engine EXCEPT !.pending = @ + 1]
                /\ UNCHANGED faults
             \/ Fault /\ notice' = [after EXCEPT !.requested = "failed", !.interrupts = @ + 1] /\ UNCHANGED engine
        ELSE notice' = after /\ UNCHANGED <<engine, faults>>
  /\ printed' = IF mask = "normal" THEN printed \o piece ELSE printed
  /\ hosts' = [hosts EXCEPT !.expected = mask \in hosts.mask, !.heard = forwards(mask)]
  /\ UNCHANGED <<target, attach>>

(* A host's request to break reaches a kernel that has connected. *)
Request ==
  /\ attach.pc = "waiting" /\ ~attach.asked
  /\ attach' = [attach EXCEPT !.asked = TRUE]
  /\ engine' = [engine EXCEPT !.pending = @ + 1]
  /\ UNCHANGED <<target, notice, printed, hosts, faults>>

(* The wait ends: a stop, by anyone; the deadline, once connected; an error; or no target at all. *)
PumpEnds ==
  /\ attach.pc = "waiting" /\ target # "dialing"
  /\ \/ /\ target = "stopped"
        /\ attach' = [attach EXCEPT !.pc = "woken", !.result = IF attach.asked THEN "OnRequest" ELSE "Stopped"]
        /\ UNCHANGED <<target, faults>>
     \/ /\ target = "running"
        /\ target' = IF attach.mode = "default" THEN "stopped" ELSE target
        /\ attach' = [attach EXCEPT !.pc = "woken", !.result = "Deadline"]
        /\ UNCHANGED faults
     \/ /\ Fault
        /\ \E gone \in BOOLEAN : target' = IF gone THEN "none" ELSE target
        /\ attach' = [attach EXCEPT !.pc = "woken", !.result = "WaitFailed"]
  /\ UNCHANGED <<engine, notice, printed, hosts>>

(* wait_for_kernel_break_in: the option is cleared before the outcome is looked at. *)
Woken ==
  /\ attach.pc = "woken" /\ attach.mode = "default"
  /\ engine' = [engine EXCEPT !.initial_break = FALSE]
  /\ \/ attach.result = "WaitFailed" /\ Ended("WaitFailed") /\ UNCHANGED faults
     \/ attach.result # "WaitFailed" /\ Fault /\ Ended("CommandFailed")   \* the status cannot be read
     \/ /\ attach.result # "WaitFailed"
        /\ IF attach.result = "Deadline" \/ target = "none" THEN Ended("KernelBreakTimeout")
           ELSE attach' = [attach EXCEPT !.pc = "absorb"]
        /\ UNCHANGED faults
  /\ UNCHANGED <<target, notice, printed, hosts>>
(* absorb_initial_break_artifact: one resume, bounded, and its answer ignored.  Where nothing     *)
(* breaks in again the bound does.                                                                *)
Absorb ==
  /\ attach.pc = "absorb"
  /\ \/ /\ engine' = [engine EXCEPT !.pending = IF @ > 0 THEN @ - 1 ELSE 0]
        /\ Ended("Ok") /\ UNCHANGED faults
     \/ /\ Fault
        /\ attach' = [attach EXCEPT !.pc = "over", !.result = "Ok", !.kept = TRUE] /\ UNCHANGED engine
  /\ UNCHANGED <<target, notice, printed, hosts>>

(* AnnouncementGuard::restore: the callback, then the mask; done once both are back. *)
Restored == [engine EXCEPT !.callback = "host", !.mask = hosts.mask]
RestoreFails == Fault /\ engine' \in {engine, [engine EXCEPT !.callback = "host"]}
validate_observation ==
  IF notice.requested = "ok" THEN "Ok"
  ELSE IF notice.requested = "none" THEN "not_observed" ELSE "interrupt_failed"
WaitResult ==
  IF validate_observation # "Ok" THEN validate_observation
  ELSE IF attach.result # "Stopped" THEN attach.result
  ELSE IF target # "stopped" THEN "not_confirmed" ELSE "Ok"
wait_with_timeout ==
  /\ attach.pc = "woken" /\ attach.mode = "announcement"
  /\ \/ /\ engine' = Restored
        /\ attach' = [attach EXCEPT !.pc = "over", !.result = WaitResult]
        /\ UNCHANGED faults
     \/ /\ RestoreFails
        /\ attach' = [attach EXCEPT !.pc = "dropping", !.result = "CommandFailed"]
  /\ UNCHANGED <<target, notice, printed, hosts>>
(* The guard's drop tries again what a failed restore left; so does a guard never waited on. *)
DropGuard_once ==
  /\ attach.pc = "dropping"
  /\ attach' = [attach EXCEPT !.pc = "over"]
  /\ UNCHANGED <<engine, target, notice, printed, hosts, faults>>
DropGuard ==
  /\ attach.pc = "dropping"
  /\ \/ engine' = Restored /\ attach' = [attach EXCEPT !.pc = "over"] /\ UNCHANGED faults
     \/ RestoreFails /\ attach' = [attach EXCEPT !.pc = "over", !.refused = TRUE]
  /\ UNCHANGED <<target, notice, printed, hosts>>
Abandon ==
  /\ attach.pc = "waiting"
  /\ attach' = [attach EXCEPT !.pc = IF attach.mode = "announcement" THEN "dropping" ELSE "over", !.result = "dropped"]
  /\ UNCHANGED <<engine, target, notice, printed, hosts, faults>>

AttachNext ==
  \/ attach_kernel_begin \/ install \/ attach_kernel_announcement_begin
  \/ Connect \/ BreakIn \/ StopByItself \/ Request \/ PumpEnds \/ Woken \/ Absorb \/ wait_with_timeout \/ DropGuard \/ Abandon
  \/ \E mask \in {"normal", "warning"}, n \in 1 .. 2 :
       \E piece \in [1 .. n -> {PREFIX[i] : i \in DOMAIN PREFIX} \cup {Newline, Other}] : Output(mask, piece)

--------------------------------------------------------------------------------
Announced(text) ==
  \E i \in 0 .. Len(text) - Len(PREFIX) :
    (i = 0 \/ text[i] = Newline) /\ SubSeq(text, i + 1, i + Len(PREFIX)) = PREFIX
(* The announcement is seen exactly when some line of the output begins with it, however the      *)
(* engine cuts its output into calls, and one interrupt is requested for it.                      *)
AnnouncementSeen ==
  attach.pc = "waiting" /\ attach.mode = "announcement" =>
    notice.interrupts = IF Announced(printed) THEN 1 ELSE 0

(* The host hears what its own mask asked for and nothing more, though the observer widened it.   *)
HostHearsItsOwn == hosts.heard = hosts.expected

(* Once the attach is over the host's callback and mask are back, unless the engine refused the   *)
(* last attempt to restore them; a first refusal is tried again.                                  *)
CallbackRestored ==
  attach.pc = "over" /\ ~attach.refused => engine.callback = "host" /\ engine.mask = hosts.mask

(* A wait that ended, even in an error, leaves no initial break armed to stop a later resume.     *)
InitialBreakDisarmed ==
  attach.pc \in {"absorb", "over"} /\ attach.mode = "default" /\ attach.result \notin {"AttachFailed", "dropped"}
    => ~engine.initial_break

(* An attach that succeeds has the kernel stopped: by a break asked for upon the announcement, or *)
(* with nothing left pending that would stop the caller's first resume.                           *)
AttachedIsHalted ==
  attach.pc = "over" /\ attach.result = "Ok" =>
    /\ target = "stopped"
    /\ attach.mode = "announcement" => notice.requested = "ok" /\ Announced(printed)
    /\ attach.mode = "default" /\ ~attach.asked /\ ~attach.kept => engine.pending = 0

(* An attach that succeeds leaves the kernel stopped with no further stop owed, and any attach    *)
(* leaves the host's callback as it was and lets the host hear only what it asked for.            *)
AttachSound ==
  /\ AnnouncementSeen
  /\ HostHearsItsOwn
  /\ CallbackRestored
  /\ InitialBreakDisarmed
  /\ AttachedIsHalted
=============================================================================
