--------------------------- MODULE KernelTeardown ---------------------------
(***************************************************************************)
(* The end of a live kernel session: `end_session` and Drop of             *)
(* `DebugEngine` through `resume_and_detach_live_kernel`.                  *)
(*                                                                         *)
(* A halted kernel may owe stops: break-ins it delivers on a later resume. *)
(* `qd` continues the target once and disconnects, so a stop still owed    *)
(* freezes a machine nobody debugs any more.  The teardown takes the       *)
(* breakpoints off, spends the owed stops with short resumes (the drain),  *)
(* quits, and asks whether the target is gone.  Each engine call may fail. *)
(***************************************************************************)
EXTENDS Integers

CONSTANTS
  MaxProcessors,    \* bound on the target's processors
  MaxBreakpoints,   \* bound on the breakpoints set when the session ends
  MaxUnlucky        \* bound on the resumes a late stop or a host's request wastes

ASSUME ProcessorsAssumption == MaxProcessors \in Nat
ASSUME BreakpointsAssumption == MaxBreakpoints \in Nat
ASSUME UnluckyAssumption == MaxUnlucky \in Nat

DRAIN_ATTEMPTS == 5
DRAIN_FREE_RUNS == 2

VARIABLES
  pc,           \* where the teardown is
  breakpoints,  \* those the engine still has
  toClear,      \* how many removals clear_all_breakpoints still makes
  owed,         \* stops the target will deliver on a later resume
  restless,     \* whether the target stops by itself at every resume
  late,         \* whether a stop has been late since one was delivered
  drain,        \* struct Drain
  target,       \* "halted", "running", "frozen" (stopped with no debugger) or "lost"
  left,         \* what was reported: "none", "KernelRunning" or "KernelHalted"
  ended,        \* whether EndSession succeeded, once it was called
  counted,      \* history: whether the target's processors were counted
  owedFirst,    \* history: the stops owed when the drain began
  unlucky,      \* history: the resumes a late stop or a request wasted
  cut           \* history: the clock, an error or a lost target ended the drain

vars == <<pc, breakpoints, toClear, owed, restless, late, drain, target, left, ended,
          counted, owedFirst, unlucky, cut>>

-----------------------------------------------------------------------------
NewDrain == [attempts |-> DRAIN_ATTEMPTS, spent |-> 0,
             free_runs |-> 0, gone |-> FALSE]

\* Mutant: the constant that was enough for the machine it was measured on.
for_anyone(processors) == NewDrain

\* `Drain::for_processors`: one resume per processor and the free runs that end it.
for_processors(processors) ==
  LET sized == processors + DRAIN_FREE_RUNS
  IN  [attempts |-> IF sized > DRAIN_ATTEMPTS THEN sized ELSE DRAIN_ATTEMPTS,
       spent |-> 0, free_runs |-> 0, gone |-> FALSE]

\* `Drain::resume_again`.
resume_again(d) == ~d.gone /\ d.spent < d.attempts /\ d.free_runs < DRAIN_FREE_RUNS

\* Mutant: a resume that delivered its stop is not counted.
saw_uncounted(d, resumed) ==
  CASE resumed = "OnABreak" -> [d EXCEPT !.free_runs = 0]
    [] resumed = "Freely" -> [d EXCEPT !.spent = @ + 1, !.free_runs = @ + 1]
    [] resumed = "OnRequest" -> [d EXCEPT !.spent = @ + 1]
    [] resumed = "Gone" -> [d EXCEPT !.spent = @ + 1, !.gone = TRUE]

\* `Drain::saw` (but `delivered`, which nothing reads).
saw(d, resumed) ==
  LET spent == [d EXCEPT !.spent = @ + 1]
  IN  CASE resumed = "OnABreak" -> [spent EXCEPT !.free_runs = 0]
        [] resumed = "Freely" -> [spent EXCEPT !.free_runs = @ + 1]
        [] resumed = "OnRequest" -> spent
        [] resumed = "Gone" -> [spent EXCEPT !.gone = TRUE]

-----------------------------------------------------------------------------
\* The target owes at most one stop per processor, or the one of the initial break.
Init ==
  /\ pc = "begin"
  /\ breakpoints \in 0..MaxBreakpoints
  /\ toClear = 0
  /\ owed \in 0..MaxProcessors
  /\ restless \in {b \in BOOLEAN : b => owed > 0}
  /\ late = FALSE
  /\ drain = NewDrain
  /\ target = "halted"
  /\ left = "none"
  /\ ended = FALSE
  /\ counted = FALSE
  /\ owedFirst = owed
  /\ unlucky = 0
  /\ cut = FALSE

\* An early return of quit_and_detach_target: the kernel counts as halted.
Fail == pc' = "failed"

\* refuse_without_a_debuggee and GetNumberBreakpoints.
Begin ==
  /\ pc = "begin"
  /\ \/ pc' = "clear" /\ toClear' = breakpoints
     \/ Fail /\ UNCHANGED toClear
  /\ UNCHANGED <<breakpoints, owed, late, drain, target, left, ended, restless, counted,
                 owedFirst, unlucky, cut>>

\* One turn of clear_all_breakpoints: the breakpoint at index 0 goes, or the clear fails.
Clear ==
  /\ pc = "clear" /\ toClear > 0
  /\ \/ breakpoints' = breakpoints - 1 /\ toClear' = toClear - 1 /\ UNCHANGED pc
     \/ Fail /\ UNCHANGED <<breakpoints, toClear>>
  /\ UNCHANGED <<owed, late, drain, target, left, ended, restless, counted, owedFirst,
                 unlucky, cut>>

\* spend_pending_break_ins sizes the drain; a count that cannot be read leaves the floor.
Size ==
  /\ pc = "clear" /\ toClear = 0
  /\ pc' = "drain"
  /\ \E processors \in 0..MaxProcessors :
        /\ owed <= processors
        /\ \/ counted' = TRUE /\ drain' = for_processors(processors)
           \/ counted' = FALSE /\ drain' = NewDrain
  /\ UNCHANGED <<breakpoints, toClear, owed, late, target, left, ended, restless,
                 owedFirst, unlucky, cut>>

\* What one `g` of the drain does to the target, and how the run reads (`Resumed::of`).
\* A stop that is owed comes at once or, late, after the window of one resume; two resumes
\* are not late without a delivered stop between them.  A host's request may end any
\* resume, before the stop or with it.
Resumes(resumed) ==
  \/ /\ resumed = "OnABreak"
     /\ owed > 0
     /\ owed' = IF restless THEN owed ELSE owed - 1
     /\ late' = FALSE
     /\ UNCHANGED <<unlucky, cut>>
  \/ /\ resumed = "Freely"
     /\ owed = 0 \/ (~late /\ unlucky < MaxUnlucky)
     /\ late' = (owed > 0)
     /\ unlucky' = IF owed > 0 THEN unlucky + 1 ELSE unlucky
     /\ UNCHANGED <<owed, cut>>
  \/ /\ resumed = "OnRequest"
     /\ unlucky < MaxUnlucky
     /\ unlucky' = unlucky + 1
     /\ owed' \in IF restless THEN {owed} ELSE {owed, owed - 1} \cap Nat
     /\ UNCHANGED <<late, cut>>
  \/ /\ resumed = "Gone"
     /\ cut' = TRUE
     /\ UNCHANGED <<owed, late, unlucky>>

\* A turn of the drain: `g` is issued while another resume is worth spending.
Go ==
  /\ pc = "drain" /\ resume_again(drain)
  /\ pc' = "going"
  /\ UNCHANGED <<breakpoints, toClear, owed, late, drain, target, left, ended, restless,
                 counted, owedFirst, unlucky, cut>>

\* The run is over, and the drain takes in what it settled.
Resume ==
  /\ pc = "going"
  /\ pc' = "drain"
  /\ \E resumed \in {"OnABreak", "Freely", "OnRequest", "Gone"} :
        /\ Resumes(resumed)
        /\ drain' = saw(drain, resumed)
        /\ target' = IF resumed = "Gone" THEN "lost" ELSE target
  /\ UNCHANGED <<breakpoints, toClear, left, ended, restless, counted, owedFirst>>

\* The drain ends: nothing more to learn, DRAIN_BUDGET spent, or a resume refused.
Drained ==
  /\ pc \in {"drain", "going"}
  /\ pc' = "quit"
  /\ cut' = (cut \/ pc = "going" \/ resume_again(drain))
  /\ UNCHANGED <<breakpoints, toClear, owed, late, drain, target, left, ended, restless,
                 counted, owedFirst, unlucky>>

\* `qd`: the target continues, until the next stop it owes; or the command fails.
Quit ==
  /\ pc = "quit"
  /\ \/ /\ pc' = "verify"
        /\ target' \in {target, IF target = "lost" THEN "lost"
                                ELSE IF owed > 0 THEN "frozen" ELSE "running"}
     \/ Fail /\ UNCHANGED target
  /\ UNCHANGED <<breakpoints, toClear, owed, late, drain, left, ended, restless, counted,
                 owedFirst, unlucky, cut>>

\* require_detached(has_target()?).
Verify ==
  /\ pc = "verify"
  /\ \/ pc' = "quitted" /\ target # "halted"
     \/ Fail
  /\ UNCHANGED <<breakpoints, toClear, owed, late, drain, target, left, ended, restless,
                 counted, owedFirst, unlucky, cut>>

\* EndSession(DEBUG_END_PASSIVE), whatever came before; it continues nothing.  The
\* disposition is decided by whether the quit went through.
End ==
  /\ pc \in {"quitted", "failed"}
  /\ pc' = "done"
  /\ left' = IF pc = "quitted" THEN "KernelRunning" ELSE "KernelHalted"
  /\ ended' \in BOOLEAN
  /\ target' = IF target = "halted" /\ ended' THEN "frozen" ELSE target
  /\ UNCHANGED <<breakpoints, toClear, owed, late, drain, restless, counted, owedFirst,
                 unlucky, cut>>

Next == Begin \/ Clear \/ Size \/ Go \/ Resume \/ Drained \/ Quit \/ Verify \/ End

Spec == Init /\ [][Next]_vars

\* The teardown runs on: every call it makes returns, the resumes because their
\* watchdog breaks in.  Drained is not owed while a resume may still be made: the
\* clock need not run out.
FairSpec ==
  /\ Spec
  /\ WF_vars(Begin) /\ WF_vars(Clear) /\ WF_vars(Size) /\ WF_vars(Go) /\ WF_vars(Resume)
  /\ WF_vars(Drained /\ ~resume_again(drain))
  /\ WF_vars(Quit) /\ WF_vars(Verify) /\ WF_vars(End)

-----------------------------------------------------------------------------
(* Properties. *)

\* Every variable keeps its type.
TypeOK ==
  /\ pc \in {"begin", "clear", "drain", "going", "quit", "verify", "quitted", "failed", "done"}
  /\ breakpoints \in 0..MaxBreakpoints /\ toClear \in 0..MaxBreakpoints
  /\ owed \in 0..MaxProcessors /\ owedFirst \in 0..MaxProcessors
  /\ unlucky \in 0..MaxUnlucky
  /\ restless \in BOOLEAN /\ counted \in BOOLEAN
  /\ late \in BOOLEAN /\ ended \in BOOLEAN /\ cut \in BOOLEAN
  /\ drain \in [attempts : Nat, spent : Nat, free_runs : Nat, gone : BOOLEAN]
  /\ target \in {"halted", "running", "frozen", "lost"}
  /\ left \in {"none", "KernelRunning", "KernelHalted"}

\* A drain that neither the clock nor an error cut short leaves no stop for `qd`, as
\* long as the stops owed, the resumes wasted and the free runs fit its attempts; and
\* with nothing wasted they fit whenever the processors were counted, each owing one
\* (`Drain`: two free runs in a row, one resume per processor).
DrainSuffices ==
  /\ pc = "quit" /\ ~cut /\ ~restless
  /\ \/ owedFirst + unlucky + DRAIN_FREE_RUNS <= drain.attempts
     \/ counted /\ unlucky = 0
  => owed = 0

\* KernelRunning is reported only of a target that `qd` released: no breakpoint is
\* left in it and the engine no longer has it (quit_and_detach_target).
RunningMeansReleased ==
  left = "KernelRunning" => breakpoints = 0 /\ target # "halted"

\* No resume of the drain runs with a breakpoint set, so the stop it comes back with
\* is an owed one (spend_pending_break_ins: "between the clear and the quit").
NoBreakpointInDrain == pc \in {"drain", "going"} => breakpoints = 0

\* The teardown ends, on a target that stops at every resume too (DRAIN_ATTEMPTS).
TeardownEnds == <>(pc = "done")

\* However its calls fail, a teardown that reports the target running has left it running: the
\* drain was long enough for the stops owed, qd was honoured, and no breakpoint stood in the
\* drain (resume_and_detach_live_kernel).
TeardownSound ==
  /\ DrainSuffices
  /\ RunningMeansReleased
  /\ NoBreakpointInDrain
=============================================================================
