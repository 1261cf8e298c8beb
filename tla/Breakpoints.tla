---------------------------- MODULE Breakpoints ----------------------------
(***************************************************************************)
(* Setting, listing, removing and arming breakpoints.  A set is a chain of *)
(* engine calls of which any may fail; the guard that owns the half-built  *)
(* breakpoint removes it on every failure, and removing what it replaces   *)
(* is the last thing a set does.  Removals go by id, collected before any  *)
(* is made, so that the renumbering of the engine's list is not seen.      *)
(***************************************************************************)
EXTENDS Integers, FiniteSets, Functions

CONSTANTS
  Specs,       \* the breakpoints a caller may ask for
  ValueOf,     \* the address each expression has once its module is loaded
  RunTo,       \* the addresses a caller may run to
  MaxHeld,     \* a bound of the instance: the breakpoints held and the refusals together
  MaxRefusals  \* a bound of the instance: the removals the engine may refuse

ASSUME BreakpointAssumption == MaxHeld \in Nat /\ MaxRefusals \in Nat

None == -1     \* no address: DEBUG_INVALID_OFFSET, or an error of GetOffset

VARIABLES
  held,        \* the engine's breakpoints, by id
  refusals,    \* how many removals the engine has refused
  loaded,      \* whether the module the expressions name is loaded
  setting,     \* the call in progress
  reported     \* what the last call returned

breakpointVars == <<held, refusals, loaded, setting, reported>>

Idle == [pc |-> "idle"]
Unreported == [kind |-> "none"]
BreakpointInit == held = <<>> /\ refusals = 0 /\ loaded \in BOOLEAN /\ setting = Idle /\ reported = Unreported

(* DataAccess: what each variant is to the engine, and the engine's bits read back. *)
Named == [Read |-> {"r"}, Write |-> {"w"}, ReadWrite |-> {"r", "w"}, Execute |-> {"x"}, Io |-> {"io"}]
to_engine(access) == IF access \in DOMAIN Named THEN Named[access] ELSE {"r", "x"}
from_engine(bits) ==
  LET names == {a \in DOMAIN Named : Named[a] = bits} IN IF names = {} THEN "Other" ELSE CHOOSE a \in names : TRUE

Aligned(address, size) == address % size = 0
(* A spec the engine would take now and refuse at the next resume. *)
validated(spec) ==
  spec.size = 0 \/ (spec.size \in {1, 2, 4, 8} /\ (spec.at.kind = "Address" => Aligned(spec.at.address, spec.size)))
flags(spec) == (IF spec.enabled THEN {"enabled"} ELSE {}) \cup (IF spec.one_shot THEN {"one_shot"} ELSE {})

(* The engine's side: a breakpoint is born disabled at address zero under the least free id. *)
LeastFree == {n \in 0 .. MaxHeld : n \notin DOMAIN held /\ 0 .. n - 1 \subseteq DOMAIN held}
Born(spec) ==
  [kind |-> IF spec.size = 0 THEN "Code" ELSE "Data", offset |-> 0, text |-> "", command |-> "",
   thread |-> None, passes |-> 1, size |-> 0, access |-> {}, flags |-> {}, late |-> FALSE]
Without(all, ids) == Restrict(all, DOMAIN all \ ids)
With(all, id, b) == [i \in DOMAIN all \cup {id} |-> IF i = id THEN b ELSE all[i]]
Mine == held[setting.id]
Located(b, expr) ==
  IF loaded THEN [b EXCEPT !.text = expr, !.offset = ValueOf[expr]]
  ELSE [b EXCEPT !.text = expr, !.offset = None, !.flags = @ \cup {"deferred"}]

(* What the getters say of a breakpoint; one that fails says nothing rather than zero. *)
address_of(b) == b.offset
breakpoint_info(id, b) ==
  [id |-> id, kind |-> b.kind, address |-> address_of(b), expression |-> b.text, command |-> b.command,
   thread |-> b.thread, size |-> IF b.kind = "Data" THEN b.size ELSE 0,
   access |-> IF b.kind = "Data" THEN from_engine(b.access) ELSE "none",
   flags |-> b.flags, pass_count |-> b.passes]

(* The guard's drop: the removal is best-effort, and its failure has nowhere to go. *)
Refusing(n) == refusals + n <= MaxRefusals /\ refusals' = refusals + n
Drop(all, id) ==
  \/ held' = Without(all, {id}) /\ UNCHANGED refusals
  \/ held' = all /\ Refusing(1)
Failed(error) ==
  /\ Drop(held, setting.id)
  /\ reported' = [kind |-> "error", error |-> error, before |-> setting.before, cleaned |-> UNCHANGED refusals]
  /\ setting' = Idle
  /\ UNCHANGED loaded

(* set_breakpoint_bounded: refusals that create nothing. *)
Refuse(spec) ==
  /\ setting.pc = "idle"
  /\ ~validated(spec)
  /\ reported' = [kind |-> "error", error |-> "InvalidBreakpoint", before |-> held, cleaned |-> TRUE]
  /\ UNCHANGED <<refusals, held, loaded, setting>>

New(spec) ==
  /\ setting.pc = "idle"
  /\ validated(spec)
  /\ Cardinality(DOMAIN held) + refusals < MaxHeld
  /\ \E id \in LeastFree :
        /\ held' = With(held, id, Born(spec))
        /\ setting' = [pc |-> "locate", spec |-> spec, id |-> id, before |-> held, cut |-> FALSE]
  /\ reported' = Unreported
  /\ UNCHANGED <<refusals, loaded>>

SetOffset ==
  /\ setting.pc = "locate"
  /\ setting.spec.at.kind = "Address"
  /\ held' = With(held, setting.id, [Mine EXCEPT !.offset = setting.spec.at.address])
  /\ setting' = [setting EXCEPT !.pc = "align"]
  /\ UNCHANGED <<refusals, loaded, reported>>

(* The resolve may be cut short by its watchdog or a request.  The engine says so variously, so   *)
(* an error counts only when nothing interrupted it, and the location is wherever it ended up.    *)
SetOffsetExpression ==
  /\ setting.pc = "locate"
  /\ setting.spec.at.kind = "Expression"
  /\ LET expr == setting.spec.at.text
     IN \/ /\ held' = With(held, setting.id, Located(Mine, expr))
           /\ setting' = [setting EXCEPT !.pc = "align"]
        \/ \E b \in {Located(Mine, expr), [Mine EXCEPT !.text = expr, !.offset = None],
                     [Mine EXCEPT !.text = expr, !.offset = None, !.flags = @ \cup {"deferred"}]} :
             /\ held' = With(held, setting.id, b)
             /\ setting' = [setting EXCEPT !.pc = "align", !.cut = TRUE]
  /\ UNCHANGED <<refusals, loaded, reported>>

(* breakpoints: every one the engine holds, as data. *)
breakpoints == [id \in DOMAIN held |-> breakpoint_info(id, held[id])]
(* remove_breakpoints_at: the ids are collected before any is removed. *)
at(address, keep) == {id \in DOMAIN breakpoints : id # keep /\ breakpoints[id].address = address}
Replaces(spec, resolved) == spec.replace /\ resolved # None

(* The first point an expression's address exists is where its alignment is judged. *)
misaligned(spec, address) == spec.size # 0 /\ address # None /\ ~Aligned(address, spec.size)
Align_replacing ==
  /\ setting.pc = "align"
  /\ IF misaligned(setting.spec, Mine.offset) THEN Failed("InvalidBreakpoint")
     ELSE /\ held' = IF Replaces(setting.spec, Mine.offset)
                     THEN Without(held, at(Mine.offset, setting.id)) ELSE held
          /\ setting' = [setting EXCEPT !.pc = "configure"]
          /\ UNCHANGED <<refusals, loaded, reported>>
Align ==
  /\ setting.pc = "align"
  /\ IF misaligned(setting.spec, Mine.offset) THEN Failed("InvalidBreakpoint")
     ELSE /\ setting' = [setting EXCEPT !.pc = "configure"] /\ UNCHANGED <<refusals, held, loaded, reported>>

Configured(b, spec) ==
  [b EXCEPT !.command = spec.command, !.passes = IF spec.passes = 0 THEN @ ELSE spec.passes,
            !.thread = spec.thread, !.size = spec.size, !.access = IF spec.size = 0 THEN @ ELSE to_engine(spec.access)]
(* SetCommand, SetPassCount, SetMatchThreadId and SetDataParameters, up to the one that fails. *)
PartlyConfigured(b, spec) ==
  {b, [b EXCEPT !.command = spec.command],
   [Configured(b, spec) EXCEPT !.thread = b.thread, !.size = b.size, !.access = b.access],
   [Configured(b, spec) EXCEPT !.size = b.size, !.access = b.access]}
Configure ==
  /\ setting.pc = "configure"
  /\ held' = With(held, setting.id, Configured(Mine, setting.spec))
  /\ setting' = [setting EXCEPT !.pc = "arm"]
  /\ UNCHANGED <<refusals, loaded, reported>>

Arm ==
  /\ setting.pc = "arm"
  /\ held' = With(held, setting.id, [Mine EXCEPT !.flags = @ \cup flags(setting.spec)])
  /\ setting' = [setting EXCEPT !.pc = "read_back"]
  /\ UNCHANGED <<refusals, loaded, reported>>

ReadBack ==
  /\ setting.pc = "read_back"
  /\ setting' = [pc |-> "replace", spec |-> setting.spec, id |-> setting.id, before |-> setting.before,
                 cut |-> setting.cut, info |-> breakpoint_info(setting.id, Mine), resolved |-> Mine.offset]
  /\ UNCHANGED <<refusals, held, loaded, reported>>

(* Any of the engine calls above may fail, with whatever landed before it in place. *)
CallFails ==
  \/ setting.pc \in {"locate", "read_back"} /\ Failed("BreakpointFailed")
  \/ setting.pc = "arm" /\ flags(setting.spec) # {} /\ Failed("BreakpointFailed")
  \/ /\ setting.pc = "configure"
     /\ Configured(Mine, setting.spec) # Mine
     /\ \E b \in PartlyConfigured(Mine, setting.spec) : Drop(With(held, setting.id, b), setting.id)
     /\ reported' = [kind |-> "error", error |-> "BreakpointFailed", before |-> setting.before,
                     cleaned |-> UNCHANGED refusals]
     /\ setting' = Idle
     /\ UNCHANGED loaded

(* The mutation is done and armed, so nothing that follows can fail the call. *)
Finish ==
  /\ setting.pc = "replace"
  /\ LET others == IF Replaces(setting.spec, setting.resolved) THEN at(setting.resolved, setting.id) ELSE {}
     IN \E taken \in SUBSET others :   \* the list may not be read, and any removal may fail
          /\ Refusing(Cardinality(others \ taken))
          /\ held' = Without(held, taken)
          /\ reported' = [kind |-> "set", spec |-> setting.spec, info |-> setting.info, replaced |-> taken,
                          refused |-> others \ taken, before |-> setting.before, cut |-> setting.cut, now |-> held']
  /\ setting' = Idle
  /\ UNCHANGED loaded

(* remove_breakpoint and enable_breakpoint: an id names whatever holds it now. *)
remove_breakpoint(id) ==
  /\ setting.pc = "idle"
  /\ id \in DOMAIN held
  /\ held' = Without(held, {id}) /\ reported' = Unreported
  /\ UNCHANGED <<refusals, loaded, setting>>
enable_breakpoint(id, enabled) ==
  /\ setting.pc = "idle"
  /\ id \in DOMAIN held
  /\ held' = With(held, id, [held[id] EXCEPT !.flags = IF enabled THEN @ \cup {"enabled"} ELSE @ \ {"enabled"}])
  /\ reported' = Unreported
  /\ UNCHANGED <<refusals, loaded, setting>>

(* run_to_address: a scoped breakpoint, and whatever the target does until the guard drops. *)
RunToBegin(address) ==
  /\ setting.pc = "idle"
  /\ Cardinality(DOMAIN held) + refusals < MaxHeld
  /\ LET b == [Born([size |-> 0]) EXCEPT !.offset = address]
     IN \E id \in LeastFree :
          \/ /\ held' = With(held, id, [b EXCEPT !.flags = {"enabled"}])
             /\ setting' = [pc |-> "running", id |-> id] /\ UNCHANGED refusals
          \/ Drop(With(held, id, b), id) /\ UNCHANGED setting
  /\ reported' = Unreported
  /\ UNCHANGED loaded
RunToEnd ==
  /\ setting.pc = "running"
  /\ Drop(held, setting.id)
  /\ reported' = [kind |-> "ran", id |-> setting.id, cleaned |-> UNCHANGED refusals]
  /\ setting' = Idle
  /\ UNCHANGED loaded

(* The engine while the target runs: a module load resolves what was deferred, and a one-shot     *)
(* breakpoint that is activated removes itself.                                                   *)
LoadModule ==
  /\ setting.pc \in {"idle", "running"}
  /\ ~loaded
  /\ loaded' = TRUE
  /\ held' = [i \in DOMAIN held |->
               IF "deferred" \in held[i].flags
               THEN [held[i] EXCEPT !.offset = ValueOf[held[i].text], !.flags = @ \ {"deferred"}, !.late = TRUE]
               ELSE held[i]]
  /\ reported' = Unreported
  /\ UNCHANGED <<refusals, setting>>
Activate(id) ==
  /\ setting.pc = "running"
  /\ id \in DOMAIN held
  /\ held[id].flags \cap {"enabled", "one_shot", "deferred"} = {"enabled", "one_shot"}
  /\ held' = Without(held, {id})
  /\ UNCHANGED <<refusals, loaded, setting, reported>>

BreakpointNext ==
  \/ \E spec \in Specs : Refuse(spec) \/ New(spec)
  \/ SetOffset \/ SetOffsetExpression \/ Align \/ Configure \/ Arm \/ ReadBack \/ CallFails \/ Finish
  \/ \E id \in 0 .. MaxHeld : remove_breakpoint(id) \/ Activate(id)
  \/ \E id \in 0 .. MaxHeld, on \in BOOLEAN : enable_breakpoint(id, on)
  \/ \E address \in RunTo : RunToBegin(address)
  \/ RunToEnd \/ LoadModule
BreakpointSpec == BreakpointInit /\ [][BreakpointNext]_breakpointVars

--------------------------------------------------------------------------------
(* A set that fails has destroyed nothing: every breakpoint the caller held is there, as it was.  *)
FailedSetDestroysNothing ==
  reported.kind = "error" =>
    \A id \in DOMAIN reported.before : id \in DOMAIN held /\ held[id] = reported.before[id]

(* A breakpoint is never armed before the command, thread, pass count and watched region it was   *)
(* asked for have landed: one hit in between would stop a target that was to run a command.       *)
ArmedIsWhole ==
  setting.pc \in {"align", "configure", "arm", "read_back", "replace"} /\ "enabled" \in Mine.flags =>
    /\ Mine.command = setting.spec.command
    /\ Mine.thread = setting.spec.thread
    /\ setting.spec.passes # 0 => Mine.passes = setting.spec.passes
    /\ Mine.size = setting.spec.size
    /\ setting.spec.size # 0 => Mine.access = to_engine(setting.spec.access)

(* No resolved data breakpoint is misaligned, however its location was spelled: the engine would  *)
(* say so only at the next resume.  One resolved by a later module load is out of this code's     *)
(* reach.                                                                                         *)
ResolvedIsAligned ==
  setting.pc = "idle" =>
    \A id \in DOMAIN held :
      held[id].size # 0 /\ "enabled" \in held[id].flags /\ held[id].offset # None /\ ~held[id].late
        => Aligned(held[id].offset, held[id].size)

(* A set that succeeds leaves its breakpoint held, says which it took, and leaves no other at the *)
(* address it replaced at but the ones the engine would not give up.                              *)
ReplacedIsGone ==
  reported.kind = "set" =>
    /\ reported.info.id \in DOMAIN reported.now
    /\ reported.replaced \cap DOMAIN reported.now = {}
    /\ DOMAIN reported.before \ reported.replaced \subseteq DOMAIN reported.now
    /\ reported.spec.replace /\ reported.info.address # None =>
         \A id \in DOMAIN reported.now :
           reported.now[id].offset = reported.info.address =>
             id \in {reported.info.id} \cup reported.refused

(* What a set reports is what the engine holds: an address only once there is one, and the region *)
(* that was asked for.                                                                            *)
ReportIsHeld ==
  reported.kind = "set" =>
    LET b == reported.now[reported.info.id]
    IN /\ reported.info.address = b.offset
       /\ ("deferred" \in b.flags => reported.info.address = None)
       /\ (reported.spec.size # 0 => /\ reported.info.size = reported.spec.size
                                     /\ to_engine(reported.info.access) = to_engine(reported.spec.access))

(* A call that fails, or a run to an address that ends, leaves no breakpoint of its own behind to *)
(* stop a later resume, unless the engine refused the removal.                                    *)
ScopedIsGone ==
  /\ reported.kind = "error" /\ reported.cleaned => DOMAIN held = DOMAIN reported.before
  /\ reported.kind = "ran" /\ reported.cleaned => reported.id \notin DOMAIN held

(* A breakpoint is set whole or not at all, whichever engine call fails: what the caller held is  *)
(* there, what was replaced is gone, and what is reported is what the engine has.                 *)
BreakpointsSound ==
  /\ FailedSetDestroysNothing
  /\ ArmedIsWhole
  /\ ResolvedIsAligned
  /\ ReplacedIsGone
  /\ ReportIsHeld
  /\ ScopedIsGone
=============================================================================
