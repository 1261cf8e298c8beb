--------------------------- MODULE EngineProofs ----------------------------
(***************************************************************************)
(* Proofs about leaving a kernel, for any number of processors, of         *)
(* breakpoints and of wasted resumes; about moving a replay, for any       *)
(* trace; and about the questions put to a target and what is said of its  *)
(* modules, for any targets, tables of modules and failures.               *)
(***************************************************************************)
EXTENDS KernelTeardown, TimeTravel, TargetQueries, WellFoundedInduction, SequenceTheorems, TLAPS

\* The phases from the start of the drain to the quit.
Draining == {"drain", "going", "quit"}

\* Before the drain nothing was resumed.
FreshInv ==
  pc \in {"begin", "clear"} => /\ owed = owedFirst /\ unlucky = 0 /\ ~late /\ ~cut
                               /\ drain = NewDrain /\ ~counted

\* While a stop is owed, a free run in the count is one whose stop is late.
FreeRunsInv ==
  pc \in Draining /\ owed > 0 => /\ late => drain.free_runs = 1
                                 /\ ~late => drain.free_runs = 0

\* While a stop is owed, each resume delivered a stop or was wasted.
SpentInv ==
  pc \in Draining /\ owed > 0 /\ ~cut /\ ~restless
    => drain.spent + owed <= owedFirst + unlucky

\* The drain was sized from the processors, each owing at most one stop.
SizedInv ==
  pc \in Draining => /\ counted => owedFirst + DRAIN_FREE_RUNS <= drain.attempts
                     /\ drain.gone => cut

\* A drain that was not cut short ended because another resume was worth nothing.
EndedInv == pc = "quit" /\ ~cut => ~resume_again(drain)

DrainInv == FreshInv /\ FreeRunsInv /\ SpentInv /\ SizedInv /\ EndedInv

\* The breakpoints left are those still to be removed; none is left once the clear
\* is over; and the quit went through only on a target that is no longer halted.
ReleaseInv ==
  /\ pc = "clear" => toClear = breakpoints
  /\ pc \in Draining \cup {"verify", "quitted"} => breakpoints = 0
  /\ pc = "quitted" => target # "halted"
  /\ left # "none" => pc = "done"
  /\ left = "KernelRunning" => breakpoints = 0 /\ target # "halted"

Inv == TypeOK /\ DrainInv /\ ReleaseInv

-----------------------------------------------------------------------------
\* The type of struct Drain.
Drains == [attempts : Nat, spent : Nat, free_runs : Nat, gone : BOOLEAN]

\* `Drain::for_processors` never sizes below the processors and the free runs.
LEMMA SizedLemma ==
  ASSUME NEW n \in Nat
  PROVE  /\ for_processors(n) \in Drains
         /\ n + DRAIN_FREE_RUNS <= for_processors(n).attempts
         /\ for_processors(n).spent = 0
         /\ for_processors(n).free_runs = 0
         /\ for_processors(n).gone = FALSE
  BY DEF Drains, for_processors, DRAIN_ATTEMPTS, DRAIN_FREE_RUNS

\* One field of a Drain at a time.
LEMMA FieldLemma ==
  ASSUME NEW d \in Drains
  PROVE  /\ d.spent \in Nat /\ d.free_runs \in Nat
         /\ [d EXCEPT !.spent = @ + 1] \in Drains
         /\ [d EXCEPT !.free_runs = 0] \in Drains
         /\ [d EXCEPT !.free_runs = @ + 1] \in Drains
         /\ [d EXCEPT !.gone = TRUE] \in Drains
<1>1. d.spent \in Nat /\ d.free_runs \in Nat
  BY Zenon DEF Drains
<1>2. [d EXCEPT !.spent = @ + 1] \in Drains
  BY DEF Drains
<1>3. [d EXCEPT !.free_runs = 0] \in Drains
  BY Zenon DEF Drains
<1>4. [d EXCEPT !.free_runs = @ + 1] \in Drains
  BY DEF Drains
<1>5. [d EXCEPT !.gone = TRUE] \in Drains
  BY Zenon DEF Drains
<1> QED
  BY <1>1, <1>2, <1>3, <1>4, <1>5, Zenon

\* What `Drain::saw` does to each count.
LEMMA SawLemma ==
  ASSUME NEW d \in Drains,
         NEW resumed \in {"OnABreak", "Freely", "OnRequest", "Gone"}
  PROVE  /\ saw(d, resumed) \in Drains
         /\ saw(d, resumed).attempts = d.attempts
         /\ saw(d, resumed).spent = d.spent + 1
         /\ resumed = "OnABreak" => saw(d, resumed).free_runs = 0
         /\ resumed = "Freely" => saw(d, resumed).free_runs = d.free_runs + 1
         /\ resumed \in {"OnRequest", "Gone"} => saw(d, resumed).free_runs = d.free_runs
         /\ resumed # "Gone" => saw(d, resumed).gone = d.gone
<1> DEFINE next == [d EXCEPT !.spent = @ + 1]
<1>0. saw(d, resumed) = CASE resumed = "OnABreak" -> [next EXCEPT !.free_runs = 0]
                          [] resumed = "Freely" -> [next EXCEPT !.free_runs = @ + 1]
                          [] resumed = "OnRequest" -> next
                          [] resumed = "Gone" -> [next EXCEPT !.gone = TRUE]
  BY Zenon DEF saw
<1>1. next \in Drains
  BY FieldLemma, Zenon
<1>2. /\ next.attempts = d.attempts /\ next.spent = d.spent + 1
      /\ next.free_runs = d.free_runs /\ next.gone = d.gone
  BY Zenon DEF Drains
<1> HIDE DEF next
<1>3. /\ [next EXCEPT !.free_runs = 0] \in Drains
      /\ [next EXCEPT !.free_runs = @ + 1] \in Drains
      /\ [next EXCEPT !.gone = TRUE] \in Drains
  BY <1>1, FieldLemma, Zenon
<1>4. CASE resumed = "OnABreak"
  BY <1>0, <1>1, <1>2, <1>3, <1>4, Zenon DEF Drains
<1>5. CASE resumed = "Freely"
  BY <1>0, <1>1, <1>2, <1>3, <1>5, Zenon DEF Drains
<1>6. CASE resumed = "OnRequest"
  BY <1>0, <1>1, <1>2, <1>3, <1>6, Zenon DEF Drains
<1>7. CASE resumed = "Gone"
  BY <1>0, <1>1, <1>2, <1>3, <1>7, Zenon DEF Drains
<1> QED
  BY <1>4, <1>5, <1>6, <1>7, Zenon

\* Before the teardown begins.
LEMMA InitLemma == Init => Inv
<1> SUFFICES ASSUME Init PROVE Inv
  BY Zenon
<1>1. NewDrain \in Drains
  BY Zenon DEF NewDrain, Drains, DRAIN_ATTEMPTS
<1>2. TypeOK
  <2>1. restless \in BOOLEAN
    BY Zenon DEF Init
  <2>2. late \in BOOLEAN /\ ended \in BOOLEAN /\ cut \in BOOLEAN /\ counted \in BOOLEAN
    BY Zenon DEF Init
  <2>3. /\ toClear \in 0..MaxBreakpoints /\ unlucky \in 0..MaxUnlucky
        /\ owed \in 0..MaxProcessors /\ owedFirst \in 0..MaxProcessors
    BY ProcessorsAssumption, BreakpointsAssumption, UnluckyAssumption DEF Init
  <2>4. drain \in Drains
    BY <1>1, Zenon DEF Init
  <2> QED
    BY <2>1, <2>2, <2>3, <2>4, Zenon DEF Init, TypeOK, Drains
<1>3. DrainInv
  BY Zenon DEF Init, DrainInv, FreshInv, FreeRunsInv, SpentInv, SizedInv, EndedInv, Draining
<1>4. ReleaseInv
  BY Zenon DEF Init, ReleaseInv, Draining
<1> QED
  BY <1>2, <1>3, <1>4, Zenon DEF Inv

\* The type invariant is preserved.
LEMMA TypeStep ==
  ASSUME TypeOK, ReleaseInv, [Next]_vars
  PROVE  TypeOK'
<1> USE ProcessorsAssumption, BreakpointsAssumption, UnluckyAssumption DEF TypeOK
<1>1. CASE Begin
  BY <1>1 DEF Begin, Fail
<1>2. CASE Clear
  BY <1>2 DEF Clear, Fail, ReleaseInv
<1>3. CASE Size
  <2>1. PICK processors \in 0..MaxProcessors :
          \/ drain' = for_processors(processors)
          \/ drain' = NewDrain
    BY <1>3, Zenon DEF Size
  <2>2. NewDrain \in Drains
    BY Zenon DEF NewDrain, Drains, DRAIN_ATTEMPTS
  <2>3. drain' \in Drains
    <3>1. processors \in Nat
      OBVIOUS
    <3> QED
      BY <2>1, <2>2, <3>1, SizedLemma, Zenon
  <2> QED
    BY <1>3, <2>3, Zenon DEF Size, Drains
<1>4. CASE Go
  BY <1>4 DEF Go
<1>5. CASE Resume
  <2>1. PICK resumed \in {"OnABreak", "Freely", "OnRequest", "Gone"} :
          /\ Resumes(resumed)
          /\ drain' = saw(drain, resumed)
          /\ target' = IF resumed = "Gone" THEN "lost" ELSE target
    BY <1>5, Zenon DEF Resume
  <2>2. drain' \in Drains
    BY <2>1, SawLemma, Zenon DEF Drains
  <2>3. owed' \in 0..MaxProcessors /\ unlucky' \in 0..MaxUnlucky
    BY <2>1 DEF Resumes
  <2>4. late' \in BOOLEAN
    <3>1. late' = FALSE \/ late' = (owed > 0) \/ late' = late
      BY <2>1, Zenon DEF Resumes
    <3>2. CASE owed > 0
      BY <3>1, <3>2, Zenon
    <3>3. CASE ~(owed > 0)
      <4>1. (owed > 0) = FALSE
        BY <3>3
      <4>2. late \in BOOLEAN
        BY Zenon
      <4>3. late' = FALSE \/ late' = late
        BY <3>1, <4>1, Zenon
      <4> QED
        BY <4>2, <4>3, Zenon
    <3> QED
      BY <3>2, <3>3, Zenon
  <2>6. cut' \in BOOLEAN
    BY <2>1, Zenon DEF Resumes
  <2>5. target' \in {"halted", "running", "frozen", "lost"}
    BY <2>1, Zenon
  <2> QED
    BY <1>5, <2>2, <2>3, <2>4, <2>5, <2>6, Zenon DEF Resume, Drains
<1>6. CASE Drained
  BY <1>6, Zenon DEF Drained
<1>7. CASE Quit
  BY <1>7 DEF Quit, Fail
<1>8. CASE Verify
  BY <1>8 DEF Verify, Fail
<1>9. CASE End
  BY <1>9, Zenon DEF End
<1>10. CASE UNCHANGED vars
  BY <1>10 DEF vars
<1> QED
  BY <1>1, <1>2, <1>3, <1>4, <1>5, <1>6, <1>7, <1>8, <1>9, <1>10, Zenon DEF Next

\* What is left of breakpoints and target is preserved.
LEMMA ReleaseStep ==
  ASSUME TypeOK, ReleaseInv, [Next]_vars
  PROVE  ReleaseInv'
<1> USE DEF TypeOK, ReleaseInv, Draining
<1>1. CASE Begin
  BY <1>1, Zenon DEF Begin, Fail
<1>2. CASE Clear
  BY <1>2, Zenon DEF Clear, Fail
<1>3. CASE Size
  BY <1>3, Zenon DEF Size
<1>4. CASE Go
  BY <1>4, Zenon DEF Go
<1>5. CASE Resume
  BY <1>5, Zenon DEF Resume
<1>6. CASE Drained
  BY <1>6, Zenon DEF Drained
<1>7. CASE Quit
  BY <1>7, Zenon DEF Quit, Fail
<1>8. CASE Verify
  BY <1>8, Zenon DEF Verify, Fail
<1>9. CASE End
  BY <1>9, Zenon DEF End
<1>10. CASE UNCHANGED vars
  BY <1>10, Zenon DEF vars
<1> QED
  BY <1>1, <1>2, <1>3, <1>4, <1>5, <1>6, <1>7, <1>8, <1>9, <1>10, Zenon DEF Next

\* A step of the drain keeps the account of its resumes.
LEMMA ResumeStep ==
  ASSUME TypeOK, DrainInv, Resume
  PROVE  DrainInv'
<1>1. PICK resumed \in {"OnABreak", "Freely", "OnRequest", "Gone"} :
        Resumes(resumed) /\ drain' = saw(drain, resumed)
  BY Zenon DEF Resume
<1>2. /\ pc = "going" /\ pc' = "drain"
      /\ UNCHANGED <<restless, counted, owedFirst>>
  BY Zenon DEF Resume
<1>3. /\ drain'.attempts = drain.attempts
      /\ drain'.spent = drain.spent + 1
      /\ resumed = "OnABreak" => drain'.free_runs = 0
      /\ resumed = "Freely" => drain'.free_runs = drain.free_runs + 1
      /\ resumed \in {"OnRequest", "Gone"} => drain'.free_runs = drain.free_runs
      /\ resumed # "Gone" => drain'.gone = drain.gone
  <2>1. drain \in Drains
    BY Zenon DEF TypeOK, Drains
  <2> QED
    BY <1>1, <2>1, SawLemma, Zenon
<1>4. FreshInv' /\ EndedInv'
  BY <1>2, Zenon DEF FreshInv, EndedInv
<1>5. SizedInv'
  <2>1. cut => cut'
    BY <1>1, Zenon DEF Resumes
  <2>2. resumed = "Gone" => cut'
    BY <1>1, Zenon DEF Resumes
  <2>3. SizedInv
    BY Zenon DEF DrainInv
  <2> QED
    BY <1>1, <1>2, <1>3, <2>1, <2>2, <2>3, Zenon DEF SizedInv, Draining
<1>6. FreeRunsInv'
  <2>0. FreeRunsInv /\ owed \in Nat /\ drain.free_runs \in Nat
    BY ProcessorsAssumption DEF DrainInv, TypeOK
  <2>1. CASE resumed = "OnABreak"
    BY <1>1, <1>2, <1>3, <2>0, <2>1, Zenon DEF Resumes, FreeRunsInv, Draining
  <2>2. CASE resumed = "Freely"
    <3>1. owed' = owed /\ (owed > 0 => ~late)
      BY <1>1, <2>2, <2>0 DEF Resumes
    <3>2. late' = (owed > 0)
      BY <1>1, <2>2, Zenon DEF Resumes
    <3>3. owed > 0 => late'
      BY <3>2, Zenon
    <3> QED
      BY <1>2, <1>3, <2>0, <2>2, <3>1, <3>3 DEF FreeRunsInv, Draining
  <2>3. CASE resumed = "OnRequest"
    BY <1>1, <1>2, <1>3, <2>0, <2>3 DEF Resumes, FreeRunsInv, Draining
  <2>4. CASE resumed = "Gone"
    BY <1>1, <1>2, <1>3, <2>0, <2>4, Zenon DEF Resumes, FreeRunsInv, Draining
  <2> QED
    BY <1>1, <2>1, <2>2, <2>3, <2>4, Zenon
<1>7. SpentInv'
  <2>0. /\ SpentInv /\ owed \in Nat /\ owedFirst \in Nat /\ unlucky \in Nat
        /\ drain.spent \in Nat
    BY ProcessorsAssumption, UnluckyAssumption DEF DrainInv, TypeOK
  <2>1. CASE resumed = "OnABreak"
    BY <1>1, <1>2, <1>3, <2>0, <2>1 DEF Resumes, SpentInv, Draining
  <2>2. CASE resumed = "Freely"
    BY <1>1, <1>2, <1>3, <2>0, <2>2 DEF Resumes, SpentInv, Draining
  <2>3. CASE resumed = "OnRequest"
    BY <1>1, <1>2, <1>3, <2>0, <2>3 DEF Resumes, SpentInv, Draining
  <2>4. CASE resumed = "Gone"
    BY <1>1, <1>2, <2>4, SMTT(20) DEF Resumes, SpentInv
  <2> QED
    BY <1>1, <2>1, <2>2, <2>3, <2>4, Zenon
<1> QED
  BY <1>4, <1>5, <1>6, <1>7, Zenon DEF DrainInv

\* Every other step keeps it too.
LEMMA DrainStep ==
  ASSUME TypeOK, DrainInv, [Next]_vars
  PROVE  DrainInv'
<1> USE DEF DrainInv, FreshInv, FreeRunsInv, SpentInv, SizedInv, EndedInv, Draining
<1>1. CASE Begin
  BY <1>1, Zenon DEF Begin, Fail
<1>2. CASE Clear
  BY <1>2, Zenon DEF Clear, Fail
<1>3. CASE Size
  <2>0. owed \in Nat /\ owed = owedFirst /\ unlucky = 0 /\ ~late
    BY <1>3, ProcessorsAssumption DEF Size, TypeOK
  <2>1. /\ drain'.spent = 0 /\ drain'.free_runs = 0 /\ drain'.gone = FALSE
        /\ counted' => owed + DRAIN_FREE_RUNS <= drain'.attempts
    <3>1. PICK processors \in 0..MaxProcessors :
            /\ owed <= processors
            /\ \/ counted' = TRUE /\ drain' = for_processors(processors)
               \/ counted' = FALSE /\ drain' = NewDrain
      BY <1>3, Zenon DEF Size
    <3>2. CASE drain' = NewDrain /\ counted' = FALSE
      BY <3>2, Zenon DEF NewDrain
    <3>3. CASE drain' = for_processors(processors)
      <4>1. processors \in Nat /\ owed <= processors
        BY <3>1, ProcessorsAssumption
      <4>2. drain'.spent = 0 /\ drain'.free_runs = 0 /\ drain'.gone = FALSE
        BY <3>3, <4>1, SizedLemma, Zenon
      <4>3. /\ processors + DRAIN_FREE_RUNS <= drain'.attempts
            /\ drain' \in Drains
        BY <3>3, <4>1, SizedLemma, Zenon
      <4>4. owed + DRAIN_FREE_RUNS <= drain'.attempts
        BY <2>0, <4>1, <4>3 DEF DRAIN_FREE_RUNS, Drains
      <4> QED
        BY <3>1, <3>3, <2>0, <4>1, <4>2, <4>3, <4>4, Zenon
    <3> QED
      BY <3>1, <3>2, <3>3, Zenon
  <2>2. pc' = "drain" /\ UNCHANGED <<owed, owedFirst, unlucky, late, cut, restless>>
    BY <1>3, Zenon DEF Size
  <2> QED
    BY <2>0, <2>1, <2>2
<1>4. CASE Go
  BY <1>4, Zenon DEF Go
<1>5. CASE Resume
  BY <1>5, ResumeStep, Zenon
<1>6. CASE Drained
  BY <1>6, Zenon DEF Drained, resume_again
<1>7. CASE Quit
  BY <1>7, Zenon DEF Quit, Fail
<1>8. CASE Verify
  BY <1>8, Zenon DEF Verify, Fail
<1>9. CASE End
  BY <1>9, Zenon DEF End
<1>10. CASE UNCHANGED vars
  BY <1>10, Zenon DEF vars, resume_again
<1> QED
  BY <1>1, <1>2, <1>3, <1>4, <1>5, <1>6, <1>7, <1>8, <1>9, <1>10, Zenon DEF Next

-----------------------------------------------------------------------------
\* The invariant holds throughout.
THEOREM Invariance == Spec => []Inv
<1>1. Inv /\ [Next]_vars => Inv'
  BY TypeStep, ReleaseStep, DrainStep, Zenon DEF Inv
<1> QED
  BY <1>1, InitLemma, PTL DEF Spec

\* Every variable of the teardown keeps its type (quit_and_detach_target).
THEOREM TypeCorrect == Spec => []TypeOK
  BY Invariance, PTL DEF Inv

\* A drain that is not cut short leaves no stop for `qd`, for any number of processors
\* (Drain::for_processors, spend_pending_break_ins).
THEOREM DrainSufficesHolds == Spec => []DrainSuffices
<1>1. Inv => DrainSuffices
  <2> SUFFICES ASSUME Inv, pc = "quit", ~cut, ~restless, owed # 0,
                      \/ owedFirst + unlucky + DRAIN_FREE_RUNS <= drain.attempts
                      \/ counted /\ unlucky = 0
               PROVE  FALSE
    BY Zenon DEF DrainSuffices
  <2>1. /\ owed \in Nat /\ owedFirst \in Nat /\ unlucky \in Nat /\ owed > 0
        /\ drain.spent \in Nat /\ drain.attempts \in Nat /\ drain.free_runs \in Nat
    BY ProcessorsAssumption, UnluckyAssumption DEF Inv, TypeOK
  <2>2. drain.free_runs \in {0, 1}
    BY <2>1, Zenon DEF Inv, DrainInv, FreeRunsInv, Draining
  <2>3. drain.spent + owed <= owedFirst + unlucky
    BY <2>1, Zenon DEF Inv, DrainInv, SpentInv, Draining
  <2>4. owedFirst + unlucky + DRAIN_FREE_RUNS <= drain.attempts
    BY <2>1 DEF Inv, DrainInv, SizedInv, Draining
  <2>5. drain.gone \/ drain.spent >= drain.attempts \/ drain.free_runs >= DRAIN_FREE_RUNS
    BY <2>1 DEF Inv, DrainInv, EndedInv, resume_again, DRAIN_FREE_RUNS
  <2>6. ~drain.gone
    BY Zenon DEF Inv, DrainInv, SizedInv, Draining
  <2> QED
    BY <2>1, <2>2, <2>3, <2>4, <2>5, <2>6 DEF DRAIN_FREE_RUNS
<1> QED
  BY <1>1, Invariance, PTL

\* KernelRunning is reported only of a target that was released
\* (quit_and_detach_target, require_detached).
THEOREM RunningMeansReleasedHolds == Spec => []RunningMeansReleased
<1>1. Inv => RunningMeansReleased
  BY Zenon DEF Inv, ReleaseInv, RunningMeansReleased
<1> QED
  BY <1>1, Invariance, PTL

\* No resume of the drain runs with a breakpoint set (clear_all_breakpoints first).
THEOREM NoBreakpointInDrainHolds == Spec => []NoBreakpointInDrain
<1>1. Inv => NoBreakpointInDrain
  BY Zenon DEF Inv, ReleaseInv, NoBreakpointInDrain, Draining
<1> QED
  BY <1>1, Invariance, PTL

\* A teardown that reports the target running has left it running, whichever of its calls fail
\* and for any number of processors (resume_and_detach_live_kernel).
THEOREM TeardownSoundHolds == Spec => []TeardownSound
<1>1. DrainSuffices /\ RunningMeansReleased /\ NoBreakpointInDrain => TeardownSound
  BY Zenon DEF TeardownSound
<1> QED
  BY <1>1, DrainSufficesHolds, RunningMeansReleasedHolds, NoBreakpointInDrainHolds, PTL

--------------------------------------------------------------------------------
(* A replay moved and asked. *)

\* A set of numbers has a first one.
LEMMA FirstOf ==
  ASSUME NEW T, T \subseteq Nat, T # {}
  PROVE  \E x \in T : \A y \in T : x <= y
<1> DEFINE R == OpToRel(<, Nat)
<1>1. \A x, y \in Nat : x < y => <<x, y>> \in R
  BY Zenon DEF OpToRel
<1>2. IsWellFoundedOn(R, Nat)
  BY NatLessThanWellFounded, Zenon
<1> HIDE DEF R
<1>3. PICK x \in T : \A y \in T : ~(<<y, x>> \in R)
  BY <1>2, WFMin, Zenon
<1>4. ASSUME NEW y \in T PROVE x <= y
  <2>1. x \in Nat /\ y \in Nat
    BY Zenon
  <2>2. ~(y < x)
    BY <1>1, <1>3, <2>1, Zenon
  <2> QED BY <2>1, <2>2
<1> QED BY <1>4, Zenon

\* The positions of a trace, and the threads it ran.
Positions == 0 .. TraceEnd
Threads == {ThreadAt[p] : p \in Positions}
\* The mark of a run, and a run marked or stopped.
RunMarks == [kind : {"Read", "Unread", "NotAReplay"}, pos : Positions \cup {Unread},
             thread : Threads \cup {Unread}]
Modes == {"go", "run_to"}
MarkedRuns == [pc : {"marked"}, mode : Modes, mark : RunMarks, from : Positions, on : Threads]
StoppedRuns ==
  [pc : {"stopped", "cut", "sought", "answer", "over"}, mode : Modes, mark : RunMarks,
   from : Positions, on : Threads, cut : {"none", "Deadline", "OnRequest"}, at : Positions,
   landed : BOOLEAN]

\* A replay, and one moved to a position and a thread.
Replays == [trace : BOOLEAN, pos : Positions, thread : Threads, pending : BOOLEAN]

Placed(r, p, t) == [r EXCEPT !.pos = p, !.thread = t]

ReplayTyped ==
  /\ replay \in Replays
  /\ odd \in Nat

\* What the mark of a run says is what the run started from; without a failed call it was read,
\* and one failed call does not make it a mark of no trace.
MarkSound ==
  /\ run.on = ThreadAt[run.from]
  /\ run.mark.kind = "Read" => run.mark.pos = run.from /\ run.mark.thread \in {run.on, Unread}
  /\ replay.trace /\ odd = 0 => run.mark.kind = "Read" /\ run.mark.thread = run.on
  /\ replay.trace /\ odd <= 1 => run.mark.kind # "NotAReplay"

\* Between two runs nothing is said of a landing.
BeforeRun ==
  /\ run = NoRun
  /\ landing = NoLanding
  /\ outcome # "Hit"
  /\ outcome = "none" => replay.thread = ThreadAt[replay.pos]

\* A run that is marked has not moved.
Marking ==
  /\ run \in MarkedRuns
  /\ MarkSound
  /\ landing = NoLanding /\ outcome = "none"
  /\ replay.pos = run.from

\* Before the run is put back it is where it stopped.
Stopping ==
  /\ run \in StoppedRuns /\ run.pc \in {"stopped", "cut"}
  /\ MarkSound
  /\ landing = NoLanding /\ outcome = "none"
  /\ replay.pos = run.at
  /\ ~run.landed
  /\ run.pc = "cut" => run.cut # "none"

\* A seek that did not fail arrived.
Sought ==
  /\ run \in StoppedRuns /\ run.pc = "sought"
  /\ MarkSound
  /\ landing = NoLanding /\ outcome = "none"
  /\ run.cut # "none" /\ ~run.landed
  /\ run.mark.kind # "Read" => replay.pos = run.at
  /\ run.mark.kind = "Read" /\ odd = 0 => replay.pos = run.from /\ replay.thread = run.on

\* What is said of the landing was read back.
Landed ==
  /\ run \in StoppedRuns /\ run.pc \in {"answer", "over"}
  /\ MarkSound
  /\ run.landed => run.cut # "none" /\ AtAddress
  /\ run.cut = "none" \/ run.landed \/ run.mark.kind = "NotAReplay" =>
       landing = NoLanding /\ replay.pos = run.at
  /\ run.cut # "none" /\ ~run.landed /\ run.mark.kind # "NotAReplay" =>
       landing.kind \in {"Rewound", "NotRewound"}
  /\ landing.kind = "Rewound" =>
       /\ replay.pos = run.from /\ landing.to = run.from
       /\ run.mark.thread # Unread => replay.thread = run.on
  /\ run.cut # "none" /\ ~run.landed /\ replay.trace /\ odd = 0 => landing.kind = "Rewound"
  /\ run.pc = "answer" => outcome = "none"
  /\ run.pc = "over" =>
       /\ outcome = "Hit" =>
            Ip[replay.pos] = RunAddress /\ replay.pos = run.at /\ landing = NoLanding
       /\ run.landed => outcome = "Hit"

ReplayInv ==
  /\ ReplayTyped
  /\ BeforeRun \/ Marking \/ Stopping \/ Sought \/ Landed

\* The first stop ahead of a position is a position of the trace.
LEMMA NextStopInside ==
  ASSUME NEW p \in Positions
  PROVE  NextStop(p) \in Positions
<1>1. Ahead(p) \subseteq Positions
  BY TraceAssumption DEF Ahead, Positions
<1>2. CASE Ahead(p) = {}
  BY <1>2, TraceAssumption DEF NextStop, Positions
<1>3. CASE Ahead(p) # {}
  <2>1. Ahead(p) \subseteq Nat
    BY <1>1 DEF Positions
  <2>2. \E x \in Ahead(p) : \A q \in Ahead(p) : x <= q
    BY <1>3, <2>1, FirstOf, Zenon
  <2>3. (CHOOSE x \in Ahead(p) : \A q \in Ahead(p) : x <= q) \in Ahead(p)
    BY <2>2, Zenon
  <2> QED BY <1>1, <1>3, <2>3, Zenon DEF NextStop
<1> QED BY <1>2, <1>3, Zenon

\* Where a seek or a run can leave a replay.
LEMMA MovesTyped ==
  ASSUME NEW r \in Replays, NEW p \in Positions, NEW t \in Threads
  PROVE  /\ Placed(r, p, t) \in Replays
         /\ Placed(r, p, t).pos = p /\ Placed(r, p, t).thread = t
         /\ Placed(r, p, t).trace = r.trace /\ Placed(r, p, t).pending = r.pending
BY Zenon DEF Replays, Placed

\* The thread at a position is one of the trace's.
LEMMA ThreadsTyped == \A p \in Positions : ThreadAt[p] \in Threads
BY Zenon DEF Threads

\* A replay opened and not yet moved.
LEMMA ReplayInitial == ReplayInit => ReplayInv
BY TraceAssumption DEF ReplayInit, ReplayInv, ReplayTyped, Replays, BeforeRun, Positions, Threads, NoRun, NoLanding

\* Every step of a seek, a run and its mark, and a position read.
LEMMA ReplayStep ==
  ASSUME ReplayInv, ReplayNext
  PROVE  ReplayInv'
<1> USE TraceAssumption
<1>0. replay \in Replays /\ replay.pos \in Positions /\ replay.thread \in Threads /\ odd \in Nat
  BY Zenon DEF ReplayInv, ReplayTyped, Replays
<1>t. \A p \in Positions : /\ Moved(p) = Placed(replay, p, ThreadAt[p])
                            /\ Moved(p) \in Replays
                            /\ Moved(p).pos = p /\ Moved(p).trace = replay.trace
  <2>1. \A p \in Positions : Moved(p) = Placed(replay, p, ThreadAt[p])
    BY Zenon DEF Moved, Placed
  <2>2. ASSUME NEW p \in Positions
        PROVE  Placed(replay, p, ThreadAt[p]) \in Replays /\ Placed(replay, p, ThreadAt[p]).pos = p
               /\ Placed(replay, p, ThreadAt[p]).trace = replay.trace
    <3>1. ThreadAt[p] \in Threads
      BY ThreadsTyped, Zenon
    <3> QED BY <1>0, <3>1, MovesTyped
  <2> QED BY <2>1, <2>2
<1>1. ASSUME NEW mode \in Modes, replay_mark(mode) PROVE ReplayInv'
  <2>1. BeforeRun
    BY <1>1, Zenon DEF ReplayInv, replay_mark, Marking, Stopping, Sought, Landed, MarkedRuns, StoppedRuns
  <2>2. PICK m \in Marks : odd' = odd + m[1] /\ run' = [pc |-> "marked", mode |-> mode, mark |-> m[2], from |-> replay.pos, on |-> replay.thread]
    BY <1>1, Zenon DEF replay_mark
  <2>3. UNCHANGED <<replay, landing, outcome>> /\ outcome = "none"
    BY <1>1, Zenon DEF replay_mark
  <2>4. replay.pos \in Nat
    BY DEF ReplayInv, ReplayTyped, Replays, Positions
  <2>5. ttd_position(TRUE) = IF replay.trace THEN replay.pos ELSE Unread
    BY <2>4, SMTT(30) DEF ttd_position, model_u64
  <2>6. /\ m[2] \in RunMarks /\ m[1] \in Nat
        /\ m[2].kind = "Read" => m[2].pos = replay.pos /\ m[2].thread \in {replay.thread, Unread}
        /\ replay.trace /\ m[1] = 0 => m[2].kind = "Read" /\ m[2].thread = replay.thread
        /\ replay.trace /\ m[1] <= 1 => m[2].kind # "NotAReplay"
    <3>1. CASE ~replay.trace
      BY <2>2, <3>1, SMTT(30) DEF Marks, NotAReplay, Mark, RunMarks
    <3>2. CASE replay.trace
      <4>1. ttd_position(TRUE) = replay.pos
        BY <2>5, <3>2, Zenon
      <4>2. m \in {<<0, Mark("Read", replay.pos, replay.thread)>>, <<1, Unmarked>>,
                   <<1, Mark("Read", replay.pos, Unread)>>, <<2, NotAReplay>>}
        BY <2>2, <3>2, <4>1, Zenon DEF Marks
      <4> QED BY <1>0, <3>2, <4>2 DEF Unmarked, NotAReplay, Mark, RunMarks
    <3> QED BY <3>1, <3>2, SMTT(30)
  <2>7. ReplayTyped'
    BY <2>2, <2>3, <2>6, SMTT(30) DEF ReplayInv, ReplayTyped
  <2>8. run' \in MarkedRuns
    BY <1>0, <2>2, <2>6, SMTT(20) DEF MarkedRuns
  <2>9. MarkSound'
    BY <2>1, <2>2, <2>3, <2>6, SMTT(30) DEF MarkSound, BeforeRun, ReplayInv, ReplayTyped
  <2>10. Marking'
    BY <2>1, <2>2, <2>3, <2>8, <2>9, Zenon DEF Marking, BeforeRun
  <2> QED BY <2>7, <2>10, SMTT(30) DEF ReplayInv
<1>2. CASE Stop
  <2>1. Marking
    BY <1>2 DEF ReplayInv, Stop, BeforeRun, NoRun, Stopping, Sought, Landed
  <2>2. NextStop(replay.pos) \in Positions
    BY <1>0, NextStopInside, Zenon
  <2>3. PICK how \in {"none", "Deadline", "OnRequest"} : Stopped(how, NextStop(replay.pos))
    BY <1>2, Zenon DEF Stop
  <2>4. replay' = Moved(NextStop(replay.pos)) /\ UNCHANGED <<landing, outcome, odd>>
    BY <1>2, Zenon DEF Stop
  <2>5. ReplayTyped' /\ replay'.pos = NextStop(replay.pos) /\ replay'.trace = replay.trace
    BY <1>0, <1>t, <2>2, <2>4, Zenon DEF ReplayTyped
  <2>6. run' \in StoppedRuns /\ run'.pc = "stopped" /\ run'.at = NextStop(replay.pos) /\ run'.landed = FALSE
        /\ run'.mark = run.mark /\ run'.from = run.from /\ run'.on = run.on
    BY <2>1, <2>2, <2>3, SMTT(30) DEF Stopped, Marking, StoppedRuns, MarkedRuns
  <2>7. MarkSound'
    BY <2>1, <2>4, <2>5, <2>6, SMTT(30) DEF Marking, MarkSound
  <2>8. Stopping'
    BY <2>1, <2>4, <2>5, <2>6, <2>7, SMTT(20) DEF Marking, Stopping
  <2> QED BY <2>5, <2>8, SMTT(30) DEF ReplayInv
<1>3. CASE CutShort
  <2>1. Marking
    BY <1>3 DEF ReplayInv, CutShort, BeforeRun, NoRun, Stopping, Sought, Landed
  <2>2. NextStop(replay.pos) \in Positions /\ Ahead(replay.pos) \subseteq Positions /\ replay.pos \in Positions
    BY <1>0, NextStopInside DEF Ahead, Positions
  <2>3. PICK how \in {"Deadline", "OnRequest"}, pending \in BOOLEAN,
        pos \in IF replay.trace THEN {TraceEnd, replay.pos} \cup Ahead(replay.pos)
                ELSE replay.pos .. NextStop(replay.pos) - 1 :
       replay' = [Moved(pos) EXCEPT !.pending = pending] /\ Stopped(how, pos)
    BY <1>3, Zenon DEF CutShort
  <2>4. UNCHANGED <<landing, outcome, odd>>
    BY <1>3, Zenon DEF CutShort
  <2>a. pos \in Positions
    BY <2>2, <2>3 DEF Positions
  <2>b. Moved(pos) \in Replays /\ Moved(pos).pos = pos /\ Moved(pos).trace = replay.trace
    BY <1>t, <2>a, Zenon
  <2>5. ReplayTyped' /\ replay'.pos = pos /\ replay'.trace = replay.trace
    BY <2>b, <2>3, <2>4, Zenon DEF ReplayInv, ReplayTyped, Replays
  <2>6. run' \in StoppedRuns /\ run'.pc = "stopped" /\ run'.at = pos /\ run'.landed = FALSE
        /\ run'.mark = run.mark /\ run'.from = run.from /\ run'.on = run.on
    BY <2>1, <2>a, <2>3, SMTT(30) DEF Stopped, Marking, StoppedRuns, MarkedRuns
  <2>7. MarkSound'
    BY <2>1, <2>4, <2>5, <2>6, SMTT(30) DEF Marking, MarkSound
  <2>8. Stopping'
    BY <2>1, <2>4, <2>5, <2>6, <2>7, SMTT(20) DEF Marking, Stopping
  <2> QED BY <2>5, <2>8, Zenon DEF ReplayInv
<1>4. CASE Abort
  BY <1>4 DEF Abort, Odd, ReplayInv, ReplayTyped, BeforeRun, NoRun, Marking, Stopping, Sought, Landed
<1>5. CASE Judge
  <2>1. Stopping /\ run.pc = "stopped"
    BY <1>5 DEF ReplayInv, Judge, BeforeRun, NoRun, Marking, MarkedRuns, Sought, Landed
  <2>2. PICK reads \in BOOLEAN :
       /\ IF reads THEN UNCHANGED odd ELSE run.mode = "run_to" /\ run.cut # "none" /\ Odd
       /\ LET hit == run.cut # "none" /\ reads /\ AtAddress
          IN run' = [run EXCEPT !.landed = hit, !.pc = IF run.cut # "none" /\ ~hit THEN "cut" ELSE "answer"]
    BY <1>5, Zenon DEF Judge
  <2> DEFINE hit == run.cut # "none" /\ reads /\ AtAddress
  <2>3. UNCHANGED <<replay, landing, outcome>> /\ odd' \in {odd, odd + 1}
    BY <1>5, <2>2, Zenon DEF Judge, Odd
  <2>4. hit \in BOOLEAN /\ run' = [run EXCEPT !.landed = hit, !.pc = IF run.cut # "none" /\ ~hit THEN "cut" ELSE "answer"]
    BY <2>2, Zenon
  <2>5. hit => run.cut # "none" /\ AtAddress
    BY Zenon
  <2> HIDE DEF hit
  <2>6. /\ run' \in StoppedRuns /\ run'.landed = hit
        /\ run'.pc = IF run.cut # "none" /\ ~hit THEN "cut" ELSE "answer"
        /\ run'.mark = run.mark /\ run'.from = run.from /\ run'.on = run.on /\ run'.cut = run.cut
        /\ run'.at = run.at /\ run'.mode = run.mode
    BY <2>1, <2>4, Zenon DEF Stopping, StoppedRuns
  <2>7. ReplayTyped'
    BY <2>3, SMTT(30) DEF ReplayInv, ReplayTyped
  <2>8. MarkSound'
    BY <2>1, <2>3, <2>6 DEF Stopping, MarkSound, ReplayInv, ReplayTyped
  <2>9. CASE run.cut # "none" /\ ~hit
    <3>1. Stopping'
      BY <2>1, <2>3, <2>6, <2>8, <2>9, Zenon DEF Stopping
    <3> QED BY <2>7, <3>1, SMTT(30) DEF ReplayInv
  <2>10. CASE ~(run.cut # "none" /\ ~hit)
    <3>1. Landed'
      BY <2>1, <2>3, <2>5, <2>6, <2>8, <2>10, Zenon DEF Stopping, Landed, AtAddress, NoLanding
    <3> QED BY <2>7, <3>1, SMTT(30) DEF ReplayInv
  <2> QED BY <2>9, <2>10, Zenon
<1>6. CASE SeekTo
  <2>0. /\ run.pc = "cut" /\ UNCHANGED <<landing, outcome>>
        /\ run' = [run EXCEPT !.pc = "sought"] /\ (odd' = odd \/ Odd)
    BY <1>6, Zenon DEF SeekTo
  <2>1. Stopping /\ run.pc = "cut"
    BY <2>0 DEF ReplayInv, BeforeRun, NoRun, Marking, MarkedRuns, Sought, Landed
  <2>2. UNCHANGED <<landing, outcome>> /\ run' = [run EXCEPT !.pc = "sought"] /\ odd' \in {odd, odd + 1}
    BY <2>0, Zenon DEF Odd
  <2>3. /\ run' \in StoppedRuns /\ run'.landed = run.landed /\ run'.pc = "sought"
        /\ run'.mark = run.mark /\ run'.from = run.from /\ run'.on = run.on /\ run'.cut = run.cut
        /\ run'.at = run.at /\ run'.mode = run.mode
    BY <2>1, <2>2, Zenon DEF Stopping, StoppedRuns
  <2>4. Consume \in Replays
        /\ Consume.pos = replay.pos /\ Consume.trace = replay.trace /\ Consume.pending = FALSE
    BY <1>0, Zenon DEF Consume, Replays
  <2>5. CASE run.mark.kind # "Read"
    <3>1. replay' = Consume /\ odd' = odd
      BY <1>6, <2>5, SMTT(20) DEF SeekTo
    <3>2. ReplayTyped' /\ MarkSound'
      BY <2>1, <2>3, <2>4, <3>1, Zenon DEF Stopping, MarkSound, ReplayInv, ReplayTyped
    <3>3. Sought'
      BY <2>1, <2>2, <2>3, <2>4, <2>5, <3>1, <3>2, SMTT(30) DEF Stopping, Sought
    <3> QED BY <3>2, <3>3, Zenon DEF ReplayInv
  <2>6. CASE run.mark.kind = "Read"
    <3>1. run.mark.pos = run.from /\ run.from \in Positions /\ run.on = ThreadAt[run.from]
      BY <2>1, <2>6, Zenon DEF Stopping, MarkSound, StoppedRuns
    <3>2. ASSUME NEW t \in Threads, NEW p \in Positions,
                 replay' = [Consume EXCEPT !.pos = p, !.thread = t]
          PROVE  replay' \in Replays /\ replay'.trace = replay.trace /\ replay'.pos = p /\ replay'.thread = t
      <4>1. replay' = Placed(Consume, p, t)
        BY <3>2, Zenon DEF Placed
      <4> QED BY <2>4, <4>1, MovesTyped, Zenon
    <3>a. Odd => odd' # odd
      BY DEF Odd, ReplayInv, ReplayTyped
    <3>b. /\ replay' \in Replays /\ replay'.trace = replay.trace
          /\ odd' = odd => replay'.pos = run.from /\ replay'.thread = run.on
      <4>1. CASE replay' = [Consume EXCEPT !.pos = run.mark.pos, !.thread = ThreadAt[run.mark.pos]]
        BY <3>1, <3>2, <4>1, ThreadsTyped, Zenon
      <4>2. CASE Odd /\ replay' = Consume
        BY <2>4, <3>a, <4>2, Zenon
      <4>3. CASE Odd /\ \E p \in 0 .. TraceEnd : replay' = [Consume EXCEPT !.pos = p, !.thread = ThreadAt[p]]
        BY <3>2, <3>a, <4>3, ThreadsTyped, Zenon DEF Positions
      <4>4. CASE Odd /\ \E t \in {ThreadAt[p] : p \in 0 .. TraceEnd} :
                   replay' = [Consume EXCEPT !.pos = run.mark.pos, !.thread = t]
        BY <3>1, <3>2, <3>a, <4>4, Zenon DEF Threads, Positions
      <4> QED BY <1>6, <2>4, <2>6, <4>1, <4>2, <4>3, <4>4, Zenon DEF SeekTo
    <3>3. ReplayTyped' /\ MarkSound'
      BY <2>1, <2>2, <2>3, <3>b DEF Stopping, MarkSound, ReplayInv, ReplayTyped
    <3>4. Sought'
      BY <2>1, <2>2, <2>3, <2>6, <3>b, <3>3, SMTT(30) DEF Stopping, Sought, ReplayInv, ReplayTyped
    <3> QED BY <3>3, <3>4, Zenon DEF ReplayInv
  <2> QED BY <2>5, <2>6, Zenon
<1>7. CASE PositionReadBack
  <2>1. Sought
    BY <1>7 DEF ReplayInv, PositionReadBack, BeforeRun, NoRun, Marking, MarkedRuns, Stopping, Landed
  <2>2. PICK answers \in BOOLEAN, names \in BOOLEAN :
       /\ IF answers /\ names THEN UNCHANGED odd ELSE Odd
       /\ LET now == ttd_position(answers)
              on == IF names THEN replay.thread ELSE Unread
          IN landing' = CASE run.mark.kind = "NotAReplay" -> NoLanding
                          [] run.mark.kind = "Unread" -> [kind |-> "NotRewound", from |-> Unread, left_at |-> now]
                          [] OTHER -> IF confirmed(now, on) THEN [kind |-> "Rewound", to |-> run.mark.pos]
                                      ELSE [kind |-> "NotRewound", from |-> run.mark.pos, left_at |-> now]
    BY <1>7, Zenon DEF PositionReadBack
  <2> DEFINE now == ttd_position(answers)
             on == IF names THEN replay.thread ELSE Unread
  <2>3. /\ UNCHANGED <<replay, outcome>> /\ run' = [run EXCEPT !.pc = "answer"]
        /\ odd' \in {odd, odd + 1} /\ (odd' = odd => answers /\ names)
    BY <1>7, <2>2 DEF PositionReadBack, Odd, ReplayInv, ReplayTyped
  <2>4. /\ run' \in StoppedRuns /\ run'.landed = run.landed /\ run'.pc = "answer"
        /\ run'.mark = run.mark /\ run'.from = run.from /\ run'.on = run.on /\ run'.cut = run.cut
        /\ run'.at = run.at /\ run'.mode = run.mode
    BY <2>1, <2>3, Zenon DEF Sought, StoppedRuns
  <2>5. ReplayTyped' /\ MarkSound'
    BY <2>1, <2>3, <2>4, SMTT(30) DEF Sought, MarkSound, ReplayInv, ReplayTyped
  <2>6. run.mark.kind \in {"Read", "Unread", "NotAReplay"} /\ run.mark.pos \in Positions \cup {Unread}
    BY <2>1, Zenon DEF Sought, StoppedRuns, RunMarks
  <2>7. CASE run.mark.kind = "NotAReplay"
    <3>1. landing' = NoLanding
      BY <2>2, <2>7, Zenon
    <3>2. Landed'
      BY <2>1, <2>3, <2>4, <2>5, <2>7, <3>1, Zenon DEF Sought, Landed, NoLanding, MarkSound, ReplayInv, ReplayTyped
    <3> QED BY <2>5, <3>2, Zenon DEF ReplayInv
  <2>8. CASE run.mark.kind = "Unread"
    <3>1. landing'.kind = "NotRewound"
      BY <2>2, <2>8, Zenon
    <3>2. Landed'
      BY <2>1, <2>3, <2>4, <2>5, <2>8, <3>1, Zenon DEF Sought, Landed, NoLanding, MarkSound, ReplayInv, ReplayTyped
    <3> QED BY <2>5, <3>2, Zenon DEF ReplayInv
  <2>9. CASE run.mark.kind = "Read"
    <3>1. landing' = IF confirmed(now, on) THEN [kind |-> "Rewound", to |-> run.mark.pos]
                     ELSE [kind |-> "NotRewound", from |-> run.mark.pos, left_at |-> now]
      BY <2>2, <2>9, SMTT(30)
    <3>2. run.mark.pos = run.from /\ run.from \in Nat /\ replay.pos \in Nat
      BY <2>1, <2>9 DEF Sought, MarkSound, StoppedRuns, ReplayInv, ReplayTyped, Replays, Positions
    <3>3. now = IF replay.trace /\ answers THEN replay.pos ELSE Unread
      BY <3>2, SMTT(30) DEF ttd_position, model_u64
    <3>4. confirmed(now, on) => replay.pos = run.from /\ (run.mark.thread # Unread => replay.thread = run.on)
      BY <2>1, <2>9, <3>2, <3>3 DEF confirmed, Unread, Sought, MarkSound
    <3>5. replay.trace /\ odd' = 0 => confirmed(now, on)
      BY <2>1, <2>3, <2>9, <3>2, <3>3, SMTT(30) DEF confirmed, Sought, MarkSound, ReplayInv, ReplayTyped
    <3> HIDE DEF now, on
    <3>6. landing'.kind = IF confirmed(now, on) THEN "Rewound" ELSE "NotRewound"
      BY <3>1, SMTT(30)
    <3>7. confirmed(now, on) => landing'.to = run.from
      BY <3>1, <3>2, Zenon
    <3>8. Landed'
      BY <2>1, <2>3, <2>4, <2>5, <2>9, <3>4, <3>5, <3>6, <3>7, Zenon DEF Sought, Landed, ReplayInv, ReplayTyped
    <3> QED BY <2>5, <3>8, Zenon DEF ReplayInv
  <2> QED BY <2>6, <2>7, <2>8, <2>9, Zenon
<1>8. CASE ReplayAnswer
  <2>1. Landed /\ run.pc = "answer"
    BY <1>8 DEF ReplayInv, ReplayAnswer, BeforeRun, NoRun, Marking, MarkedRuns, Stopping, Sought
  <2>2. UNCHANGED <<replay, landing, odd>> /\ run' = [run EXCEPT !.pc = "over"]
        /\ outcome' = IF run.mode = "go" THEN "run"
                ELSE IF run.cut = "Deadline" THEN IF run.landed THEN "Hit" ELSE "Timeout"
                ELSE IF Hits THEN "Hit" ELSE "StoppedElsewhere"
    BY <1>8, Zenon DEF ReplayAnswer
  <2>4. /\ run' \in StoppedRuns /\ run'.landed = run.landed /\ run'.pc = "over"
        /\ run'.mark = run.mark /\ run'.from = run.from /\ run'.on = run.on /\ run'.cut = run.cut
        /\ run'.at = run.at /\ run'.mode = run.mode
    BY <2>1, <2>2, Zenon DEF Landed, StoppedRuns
  <2>5. ReplayTyped' /\ MarkSound'
    BY <2>1, <2>2, <2>4, Zenon DEF Landed, MarkSound, ReplayInv, ReplayTyped
  <2>6. outcome' = "Hit" => Ip[replay.pos] = RunAddress /\ replay.pos = run.at /\ landing = NoLanding
    BY <2>1, <2>2 DEF Landed, Hits, AtAddress, NoLanding, StoppedRuns
  <2>7. run.landed => outcome' = "Hit"
    BY <2>1, <2>2, Zenon DEF Landed, Hits, AtAddress, StoppedRuns
  <2>8. Landed'
    BY <2>1, <2>2, <2>4, <2>5, <2>6, <2>7, Zenon DEF Landed, AtAddress
  <2> QED BY <2>5, <2>8, Zenon DEF ReplayInv
<1> QED BY <1>1, <1>2, <1>3, <1>4, <1>5, <1>6, <1>7, <1>8, Zenon DEF ReplayNext, Modes

\* What the answers rest on is enough for them.
LEMMA ReplaySound == ReplayInv => ReplayHonest
<1> SUFFICES ASSUME ReplayInv PROVE ReplayHonest
  BY Zenon
<1>1. RewoundIsThere
  BY SMTT(20) DEF ReplayInv, RewoundIsThere, BeforeRun, Marking, Stopping, Sought, Landed, NoLanding
<1>2. CutIsPutBack
  BY SMTT(20) DEF ReplayInv, CutIsPutBack, BeforeRun, NoRun, Marking, MarkedRuns, Stopping, Sought, Landed
<1>3. LandingSaid
  BY SMTT(30) DEF ReplayInv, ReplayTyped, LandingSaid, BeforeRun, NoRun, Marking, MarkedRuns, Stopping, Sought, Landed, MarkSound
<1>4. HitIsTheStop
  BY Zenon DEF ReplayInv, HitIsTheStop, BeforeRun, Marking, Stopping, Sought, Landed
<1> QED BY <1>1, <1>2, <1>3, <1>4, Zenon DEF ReplayHonest

(* ReplayHonest holds of every trace, whatever its length, its marks and its threads: a run says    *)
(* it hit only what it landed on, a run cut by its deadline says so unless it had landed, and a     *)
(* caller is told the position and thread the replay is at.                                        *)
THEOREM ReplayHonestHolds == ReplaySpec => []ReplayHonest
<1>1. ASSUME ReplayInv, UNCHANGED replayVars PROVE ReplayInv'
  <2>1. UNCHANGED <<replay, run, landing, outcome, odd>>
    BY <1>1, Zenon DEF replayVars
  <2>2. ReplayTyped' = ReplayTyped /\ MarkSound' = MarkSound
    BY <2>1, Zenon DEF ReplayTyped, MarkSound
  <2>3. BeforeRun' = BeforeRun
    BY <2>1, Zenon DEF BeforeRun
  <2>4. Marking' = Marking /\ Stopping' = Stopping
    BY <2>1, <2>2, Zenon DEF Marking, Stopping
  <2>5. Sought' = Sought
    BY <2>1, <2>2, Zenon DEF Sought
  <2>6. Landed' = Landed
    BY <2>1, <2>2, Zenon DEF Landed, AtAddress
  <2> QED BY <1>1, <2>2, <2>3, <2>4, <2>5, <2>6, Zenon DEF ReplayInv
<1> QED BY <1>1, ReplayInitial, ReplayStep, ReplaySound, PTL DEF ReplaySpec

-----------------------------------------------------------------------------
(* The questions put to a target, and its modules. *)

\* A set of numbers up to n has a last one.
LEMMA LastOf ==
  ASSUME NEW n \in Nat, NEW T, T \subseteq 0 .. n, T # {}
  PROVE  Max(T) \in T /\ \A y \in T : y <= Max(T)
  <1> DEFINE U == {x \in Nat : n - x \in T}
  <1>1. U \subseteq Nat /\ U # {}
    <2>1. PICK t \in T : t \in 0 .. n
      BY Zenon
    <2>2. n - t \in Nat /\ n - (n - t) = t
      BY <2>1
    <2>3. n - t \in U
      BY <2>2, Zenon
    <2> QED  BY <2>3, Zenon
  <1>2. PICK x \in U : \A y \in U : x <= y
    BY <1>1, FirstOf, Zenon
  <1>3. n - x \in T /\ x \in Nat
    BY Zenon
  <1>4. ASSUME NEW y \in T PROVE n - x >= y
    <2>1. y \in 0 .. n
      BY Zenon
    <2>2. n - y \in Nat /\ n - (n - y) = y
      BY <2>1
    <2>3. n - y \in U
      BY <2>2, Zenon
    <2>4. x <= n - y
      BY <1>2, <2>3, Zenon
    <2> QED  BY <1>3, <2>1, <2>4
  <1>5. \E m \in T : \A y \in T : m >= y
    BY <1>3, <1>4, Zenon
  <1>6. Max(T) \in T /\ \A y \in T : Max(T) >= y
    BY <1>5, Zenon DEF Max
  <1>7. ASSUME NEW y \in T PROVE y <= Max(T)
    <2>1. Max(T) \in 0 .. n /\ y \in 0 .. n /\ Max(T) >= y
      BY <1>6, Zenon
    <2> DEFINE k == Max(T)
    <2> HIDE DEF k
    <2>2. k \in 0 .. n /\ k >= y
      BY <2>1, Zenon DEF k
    <2>3. y <= k
      BY <2>1, <2>2, Zenon
    <2> QED  BY <2>3, Zenon DEF k
  <1> QED  BY <1>6, <1>7, Zenon

\* The leaf of a path is a part of it.
LEMMA LeafFacts ==
  ASSUME NEW C, NEW path \in Seq(C)
  PROVE  leaf(path) \in Seq(C)
  <1> DEFINE starts == {0} \cup {i \in DOMAIN path : path[i] = Separator}
             k == Max(starts)
  <1>1. Len(path) \in Nat /\ DOMAIN path = 1 .. Len(path) /\ \A i \in 1 .. Len(path) : path[i] \in C
    OBVIOUS
  <1>2. starts \subseteq 0 .. Len(path) /\ starts # {}
    BY <1>1
  <1>3. k \in 0 .. Len(path)
    BY <1>1, <1>2, LastOf, Zenon
  <1>4. leaf(path) = SubSeq(path, k + 1, Len(path))
    BY Zenon DEF leaf
  <1> HIDE DEF k
  <1>5. SubSeq(path, k + 1, Len(path)) \in Seq(C)
    BY <1>1, <1>3, SubSeqProperties
  <1> QED  BY <1>4, <1>5, Zenon

\* A name that is the beginning of another.
Begins(s, t) == \E n \in 0 .. Len(t) : s = SubSeq(t, 1, n)

\* What the fixed array holds up to its first NUL is the beginning of the name.
LEMMA ArrayBegins ==
  ASSUME NEW C, Nul \notin C, NEW name \in Seq(C), NEW n \in Nat
  PROVE  LET array == [i \in 1 .. n |-> IF i <= Len(name) THEN name[i] ELSE Nul]
         IN Begins(nul_terminated(array), name) /\ nul_terminated(array) \in Seq(C)
  <1> DEFINE array == [i \in 1 .. n |-> IF i <= Len(name) THEN name[i] ELSE Nul]
             ends == {Len(array) + 1} \cup {i \in DOMAIN array : array[i] = Nul}
             k == IF Len(name) < n THEN Len(name) ELSE n
  <1>0. Len(name) \in Nat /\ DOMAIN name = 1 .. Len(name) /\ \A i \in 1 .. Len(name) : name[i] \in C
    OBVIOUS
  <1>1. array \in Seq(C \cup {Nul}) /\ Len(array) = n /\ DOMAIN array = 1 .. n
    BY <1>0
  <1>2. \A i \in 1 .. n : array[i] = IF i <= Len(name) THEN name[i] ELSE Nul
    BY Zenon
  <1> HIDE DEF array
  <1>l. Len(name) \in Nat
    BY <1>0, Zenon
  <1>k. k \in 0 .. n /\ k \in 0 .. Len(name) /\ (k = n \/ k = Len(name))
    BY <1>l
  <1>3. k + 1 \in ends
    <2>1. CASE k = n
      BY <1>1, <2>1, Zenon
    <2>2. CASE k = Len(name) /\ k # n
      <3>1. k + 1 \in 1 .. n /\ ~(k + 1 <= Len(name))
        <4> HIDE DEF k
        <4> QED  BY <1>l, <1>k, <2>2
      <3>2. array[k + 1] = Nul
        BY <1>2, <3>1, Zenon
      <3> HIDE DEF k
      <3> QED  BY <1>1, <3>1, <3>2, Zenon
    <2> QED  BY <1>k, <2>1, <2>2, Zenon
  <1>4. ASSUME NEW e \in ends PROVE k + 1 <= e
    <2>1. CASE e = n + 1
      BY <1>k, <2>1
    <2>2. CASE e \in 1 .. n /\ array[e] = Nul
      <3>1. ~(e <= Len(name))
        <4>1. SUFFICES ASSUME e <= Len(name) PROVE FALSE
          BY Zenon
        <4>2. e \in 1 .. Len(name)
          BY <1>0, <2>2, <4>1
        <4>3. array[e] = name[e] /\ name[e] \in C
          BY <1>0, <1>2, <2>2, <4>1, <4>2, Zenon
        <4> QED  BY <2>2, <4>3, Zenon
      <3> QED  BY <1>0, <1>k, <2>2, <3>1
    <2> QED  BY <1>1, <2>1, <2>2, Zenon
  <1>5. Min(ends) = k + 1
    <2>1. \A e \in ends : e \in Int
      BY <1>1
    <2> HIDE DEF k, ends
    <2>2. \E e \in ends : \A f \in ends : e =< f
      BY <1>3, <1>4, Zenon
    <2>3. Min(ends) \in ends /\ \A f \in ends : Min(ends) =< f
      BY <2>2, Zenon DEF Min
    <2> DEFINE x == Min(ends)
    <2> HIDE DEF x
    <2>4. x \in ends /\ x =< k + 1 /\ k + 1 =< x
      BY <1>3, <1>4, <2>3, Zenon DEF x
    <2>5. x = k + 1
      BY <1>k, <2>1, <2>4, <1>3, SMT
    <2> QED  BY <2>5, Zenon DEF x
  <1>6. nul_terminated(array) = SubSeq(array, 1, k)
    <2>1. nul_terminated(array) = SubSeq(array, 1, Min(ends) - 1)
      BY Zenon DEF nul_terminated
    <2> HIDE DEF k, ends
    <2>2. Min(ends) - 1 = k
      BY <1>k, <1>5
    <2> QED  BY <2>1, <2>2, Zenon
  <1>7. \A i \in 1 .. k : array[i] = name[i] /\ array[i] \in C
    BY <1>0, <1>2, <1>k
  <1> HIDE DEF k
  <1> DEFINE r == SubSeq(array, 1, k)
  <1>8. r \in Seq(C) /\ Len(r) = k /\ \A i \in 1 .. k : r[i] = name[i]
    BY <1>k, <1>7, SubSeqProperties
  <1>9. r = SubSeq(name, 1, k)
    <2> HIDE DEF r
    <2>1. SubSeq(name, 1, k) \in Seq(C) /\ Len(SubSeq(name, 1, k)) = k /\ \A i \in 1 .. k : SubSeq(name, 1, k)[i] = name[i]
      <3>1. \A i \in 1 .. k : name[i] \in C
        BY <1>7, Zenon
      <3> QED  BY <1>k, <3>1, SubSeqProperties
    <2> QED  BY <1>8, <2>1, SeqEqual, Zenon
  <1> QED  BY <1>k, <1>6, <1>8, <1>9, Zenon DEF Begins, array

\* The order in which a target's processors are asked.
OrderOf(d) ==
  LET ahead == IF d.current < d.processors THEN 1 ELSE 0
  IN [i \in 1 .. d.processors |->
        IF i <= ahead THEN d.current ELSE IF i - 1 - ahead < d.current THEN i - 1 - ahead ELSE i - ahead]

\* Every processor is asked, and none twice.
LEMMA OrderFacts ==
  ASSUME NEW d, d.processors \in Nat, d.current \in Nat
  PROVE  /\ \A i \in 1 .. d.processors : OrderOf(d)[i] \in 0 .. d.processors - 1
         /\ \A i, j \in 1 .. d.processors : OrderOf(d)[i] = OrderOf(d)[j] => i = j
         /\ \A p \in 0 .. d.processors - 1 : \E i \in 1 .. d.processors : OrderOf(d)[i] = p
  <1> DEFINE n == d.processors
             c == d.current
             o == OrderOf(d)
  <1>0. n \in Nat /\ c \in Nat
    BY Zenon
  <1>1. ASSUME c < n
        PROVE  \A i \in 1 .. n : o[i] = IF i = 1 THEN c ELSE IF i - 2 < c THEN i - 2 ELSE i - 1
    <2>1. \A i \in 1 .. n : o[i] = IF i <= 1 THEN c ELSE IF i - 1 - 1 < c THEN i - 1 - 1 ELSE i - 1
      BY <1>1, Zenon DEF OrderOf
    <2> HIDE DEF n, c, o
    <2> QED  BY <1>0, <2>1
  <1>2. ASSUME ~(c < n)
        PROVE  \A i \in 1 .. n : o[i] = i - 1
    <2>1. \A i \in 1 .. n : o[i] = IF i <= 0 THEN c ELSE IF i - 1 - 0 < c THEN i - 1 - 0 ELSE i - 0
      BY <1>2, Zenon DEF OrderOf
    <2> HIDE DEF n, c, o
    <2> QED  BY <1>0, <1>2, <2>1
  <1> HIDE DEF n, c, o
  <1>3. \A i \in 1 .. n : o[i] \in 0 .. n - 1
    BY <1>0, <1>1, <1>2
  <1>4. \A i, j \in 1 .. n : o[i] = o[j] => i = j
    BY <1>0, <1>1, <1>2
  <1>5. ASSUME NEW p \in 0 .. n - 1 PROVE \E i \in 1 .. n : o[i] = p
    <2>1. CASE ~(c < n)
      <3>1. p + 1 \in 1 .. n /\ o[p + 1] = p
        BY <1>0, <1>2, <2>1
      <3> QED  BY <3>1, Zenon
    <2>2. CASE c < n /\ p = c
      <3>1. 1 \in 1 .. n /\ o[1] = p
        BY <1>0, <1>1, <2>2
      <3> QED  BY <3>1, Zenon
    <2>3. CASE c < n /\ p < c
      <3>1. p + 2 \in 1 .. n /\ o[p + 2] = p
        BY <1>0, <1>1, <2>3
      <3> QED  BY <3>1, Zenon
    <2>4. CASE c < n /\ p > c
      <3>1. p + 1 \in 1 .. n /\ o[p + 1] = p
        BY <1>0, <1>1, <2>4
      <3> QED  BY <3>1, Zenon
    <2> QED  BY <1>0, <2>1, <2>2, <2>3, <2>4
  <1> QED  BY <1>3, <1>4, <1>5, Zenon DEF n, c, o

\* A list without the i-th of it.
Removed(s, i) == SubSeq(s, 1, i - 1) \o SubSeq(s, i + 1, Len(s))

\* Removing one module of a list leaves the others.
LEMMA RemovedFacts ==
  ASSUME NEW M, NEW s \in Seq(M), NEW i \in DOMAIN s
  PROVE  /\ Removed(s, i) \in Seq(Range(Removed(s, i)))
         /\ Range(Removed(s, i)) \subseteq Range(s)
         /\ \A m \in Range(s) : m # s[i] => m \in Range(Removed(s, i))
  <1> DEFINE r == Removed(s, i)
             a == SubSeq(s, 1, i - 1)
             b == SubSeq(s, i + 1, Len(s))
  <1>1. Len(s) \in Nat /\ DOMAIN s = 1 .. Len(s) /\ i \in 1 .. Len(s) /\ \A j \in 1 .. Len(s) : s[j] \in M
    OBVIOUS
  <1>2. a \in Seq(M) /\ Len(a) = i - 1 /\ \A j \in 1 .. i - 1 : a[j] = s[j]
    BY <1>1, SubSeqProperties
  <1>3. b \in Seq(M) /\ Len(b) = Len(s) - i /\ \A j \in 1 .. Len(s) - i : b[j] = s[i + j]
    BY <1>1, SubSeqProperties
  <1> HIDE DEF a, b
  <1>4. /\ a \o b \in Seq(M) /\ Len(a \o b) = Len(s) - 1
        /\ \A j \in 1 .. Len(s) - 1 : (a \o b)[j] = IF j < i THEN s[j] ELSE s[j + 1]
    <2>0. a \in Seq(M) /\ b \in Seq(M) /\ Len(a) = i - 1 /\ Len(b) = Len(s) - i
      BY <1>2, <1>3, Zenon
    <2>1. /\ a \o b \in Seq(M) /\ Len(a \o b) = Len(a) + Len(b)
          /\ \A j \in 1 .. Len(a) + Len(b) : (a \o b)[j] = IF j <= Len(a) THEN a[j] ELSE b[j - Len(a)]
      BY <2>0, ConcatProperties, Zenon
    <2>2. Len(a) + Len(b) = Len(s) - 1
      BY <1>1, <2>0
    <2>3. ASSUME NEW j \in 1 .. Len(s) - 1 PROVE (a \o b)[j] = IF j < i THEN s[j] ELSE s[j + 1]
      <3>1. (a \o b)[j] = IF j <= Len(a) THEN a[j] ELSE b[j - Len(a)]
        BY <2>1, <2>2, Zenon
      <3>2. CASE j < i
        <4>1. j \in 1 .. i - 1 /\ j <= Len(a)
          BY <1>1, <2>0, <3>2
        <4> QED  BY <1>2, <3>1, <3>2, <4>1, Zenon
      <3>3. CASE ~(j < i)
        <4>1. j - Len(a) \in 1 .. Len(s) - i /\ ~(j <= Len(a)) /\ i + (j - Len(a)) = j + 1
          BY <1>1, <2>0, <3>3
        <4>2. b[j - Len(a)] = s[i + (j - Len(a))]
          BY <1>3, <4>1, Zenon
        <4> QED  BY <3>1, <3>3, <4>1, <4>2, Zenon
      <3> QED  BY <3>2, <3>3, Zenon
    <2> QED  BY <2>1, <2>2, <2>3, Zenon
  <1>5. r = a \o b
    BY Zenon DEF Removed, a, b
  <1> HIDE DEF r
  <1>6. r \in Seq(M) /\ Len(r) = Len(s) - 1 /\ DOMAIN r = 1 .. Len(s) - 1
        /\ \A j \in 1 .. Len(s) - 1 : r[j] = IF j < i THEN s[j] ELSE s[j + 1]
    BY <1>4, <1>5
  <1>7. r \in Seq(Range(r))
    BY <1>6, SeqOfRange, Zenon
  <1>8. ASSUME NEW m \in Range(r) PROVE m \in Range(s)
    <2>1. PICK j \in 1 .. Len(s) - 1 : m = r[j]
      BY <1>6, Zenon DEF Range
    <2>2. j \in DOMAIN s /\ j + 1 \in DOMAIN s
      BY <1>1
    <2>3. m = s[j] \/ m = s[j + 1]
      BY <1>6, <2>1, Zenon
    <2> QED  BY <2>2, <2>3, Zenon DEF Range
  <1>9. ASSUME NEW m \in Range(s), m # s[i] PROVE m \in Range(r)
    <2>1. PICK j \in 1 .. Len(s) : m = s[j]
      BY <1>1, Zenon DEF Range
    <2>2. j # i
      BY <1>9, <2>1, Zenon
    <2>3. CASE j < i
      <3>1. j \in 1 .. Len(s) - 1
        BY <1>1, <2>3
      <3>2. r[j] = m
        BY <1>6, <2>1, <2>3, <3>1, Zenon
      <3> QED  BY <1>6, <3>1, <3>2, Zenon DEF Range
    <2>4. CASE j > i
      <3>1. j - 1 \in 1 .. Len(s) - 1 /\ ~(j - 1 < i) /\ j - 1 + 1 = j
        BY <1>1, <2>4
      <3>2. r[j - 1] = s[j - 1 + 1]
        BY <1>6, <3>1, Zenon
      <3>3. r[j - 1] = m
        BY <2>1, <3>1, <3>2, Zenon
      <3> QED  BY <1>6, <3>1, <3>3, Zenon DEF Range
    <2> QED  BY <1>1, <2>2, <2>3, <2>4
  <1> QED  BY <1>7, <1>8, <1>9, Zenon DEF r

\* What the properties say, of a target, an answer and the calls that failed.
ProcessorSaid(d, a, k) ==
  a.kind = "processor" =>
    /\ "is" \in DOMAIN a => d.thread[a.is] = d.current
    /\ "none" \in DOMAIN a /\ d.class = "kernel" =>
         k = 0 /\ \A p \in 0 .. d.processors - 1 : d.thread[p] # d.current
    /\ "err" \in DOMAIN a => a.failed # {}
FilesSaid(d, a) ==
  a.kind = "files" /\ "files" \in DOMAIN a => d.status # "no_debuggee" /\ a.files = d.files
ImageSaid(d, a) ==
  a.kind = "image" /\ "stamp" \in DOMAIN a =>
    \E m \in Range(d.modules) : m.name = "nt" /\ m.base = a.base /\ m.stamp = a.stamp
NameSaid(d, a) ==
  a.kind = "name" /\ "is" \in DOMAIN a /\ d.class = "kernel" =>
    /\ Begins(a.is, leaf(d.process.path))
    /\ Audited(d.process) /\ d.process.length = 2 * Len(d.process.path) => a.is = leaf(d.process.path)
SaidOk(d, a, k) == ProcessorSaid(d, a, k) /\ FilesSaid(d, a) /\ ImageSaid(d, a) /\ NameSaid(d, a)

\* A walk of the processors: those asked so far do not match, or failed to answer.
WalkOk(d, q, k) ==
  /\ d.class = "kernel"
  /\ DOMAIN q = {"kind", "asked", "failed"}
  /\ q.asked \in 0 .. d.processors
  /\ \A i \in 1 .. q.asked : d.thread[OrderOf(d)[i]] # d.current \/ OrderOf(d)[i] \in q.failed
  /\ k = 0 <=> q.failed = {}
\* A walk of the dump files: those named so far are the engine's first ones.
NamingOk(d, q) ==
  /\ d.status # "no_debuggee"
  /\ DOMAIN q = {"kind", "index", "files"}
  /\ q.index \in 0 .. Len(d.files)
  /\ q.files \in Seq(Range(d.files)) /\ Len(q.files) = q.index
  /\ \A i \in 1 .. q.index : q.files[i] = d.files[i]
QueryOk(d, q, k) ==
  /\ q.kind \in {"none", "processor", "files", "image"}
  /\ q.kind = "processor" => WalkOk(d, q, k)
  /\ q.kind = "files" => NamingOk(d, q)
  /\ q.kind = "image" => \E m \in Range(d.modules) : m.name = "nt" /\ m.base = q.base

QueryInv ==
  /\ crashed = FALSE /\ lost \in Nat
  /\ debuggee = Empty \/ DebuggeeOk(debuggee)
  /\ query.kind # "none" => DebuggeeOk(debuggee) /\ answer = Unasked
  /\ query = NoQuery /\ answer = Unasked => lost = 0
  /\ QueryOk(debuggee, query, lost)
  /\ SaidOk(debuggee, answer, lost)

\* The invariant says what is promised of questions.
LEMMA QueryInvSound == QueryInv => QueriesSound
  <1> SUFFICES ASSUME QueryInv PROVE QueriesSound
    BY Zenon
  <1>0. SaidOk(debuggee, answer, lost) /\ crashed = FALSE
    BY Zenon DEF QueryInv
  <1>1. ProcessorKnownOrSaid
    BY <1>0, Zenon DEF SaidOk, ProcessorSaid, ProcessorKnownOrSaid, is_kernel
  <1>2. DumpFilesKeepSlots
    BY <1>0, Zenon DEF SaidOk, FilesSaid, DumpFilesKeepSlots, has_target
  <1>3. ImageIsTheKernel
    BY <1>0, Zenon DEF SaidOk, ImageSaid, ImageIsTheKernel
  <1>4. NameIsTheProcess
    BY <1>0, Zenon DEF SaidOk, NameSaid, NameIsTheProcess, Begins, is_kernel
  <1>5. QueriesNeverFault
    BY <1>0, Zenon DEF QueriesNeverFault
  <1> QED  BY <1>1, <1>2, <1>3, <1>4, <1>5, Zenon DEF QueriesSound

\* An answer of a kind that promises nothing, or an error, says nothing of the target.
LEMMA NothingSaid ==
  ASSUME answer'.kind # "none", answer'.kind # "processor",
         "files" \notin DOMAIN answer', "stamp" \notin DOMAIN answer', answer'.kind = "name" => "is" \notin DOMAIN answer'
  PROVE  SaidOk(debuggee, answer', lost')
  BY Zenon DEF SaidOk, ProcessorSaid, FilesSaid, ImageSaid, NameSaid

\* Nothing is asked and nothing said at first.
LEMMA QueryInitInv == TargetInit => QueryInv
  <1> SUFFICES ASSUME TargetInit PROVE QueryInv
    BY Zenon
  <1>1. /\ query.kind = "none" /\ answer.kind = "none" /\ lost = 0 /\ crashed = FALSE
        /\ debuggee \in Debuggees \cup {Empty}
    BY Zenon DEF TargetInit, NoQuery, Unasked
  <1>2. debuggee = Empty \/ DebuggeeOk(debuggee)
    BY <1>1, QueryAssumption, Zenon
  <1>3. query.kind # "processor" /\ query.kind # "files" /\ query.kind # "image"
    BY <1>1, Zenon
  <1>4. QueryOk(debuggee, query, lost)
    BY <1>1, <1>3, Zenon DEF QueryOk
  <1>5. answer.kind # "processor" /\ answer.kind # "files" /\ answer.kind # "image" /\ answer.kind # "name"
    BY <1>1, Zenon
  <1>6. SaidOk(debuggee, answer, lost)
    BY <1>5, Zenon DEF SaidOk, ProcessorSaid, FilesSaid, ImageSaid, NameSaid
  <1>7. lost \in Nat
    BY <1>1, Zenon
  <1> QED  BY <1>1, <1>2, <1>4, <1>6, <1>7, Zenon DEF QueryInv

\* A call that fails is counted.
LEMMA LookupCounts ==
  ASSUME QueryInv, LookupFails \/ UNCHANGED lost
  PROVE  lost' \in Nat /\ (LookupFails => lost' # 0)
  <1>1. lost \in Nat
    BY Zenon DEF QueryInv
  <1> QED  BY <1>1, SMT DEF LookupFails

\* A question is answered with something true of the target.
LEMMA AnswerStep ==
  ASSUME QueryInv, UNCHANGED <<debuggee, crashed>>, query' = NoQuery, LookupFails \/ UNCHANGED lost,
         SaidOk(debuggee, answer', lost'), answer'.kind # "none"
  PROVE  QueryInv'
  <1>1. lost' \in Nat
    BY LookupCounts, Zenon
  <1>2. query'.kind = "none" /\ answer' # Unasked
    BY DEF NoQuery, Unasked
  <1>3. query'.kind # "processor" /\ query'.kind # "files" /\ query'.kind # "image"
    BY <1>2, Zenon
  <1>4. QueryOk(debuggee', query', lost')
    BY <1>2, <1>3, Zenon DEF QueryOk
  <1> QED  BY <1>1, <1>2, <1>4, Zenon DEF QueryInv

\* A question goes on, with nothing said yet.
LEMMA AskOnStep ==
  ASSUME QueryInv, UNCHANGED <<debuggee, answer, crashed>>, LookupFails \/ UNCHANGED lost,
         DebuggeeOk(debuggee), answer = Unasked, query'.kind # "none", QueryOk(debuggee, query', lost')
  PROVE  QueryInv'
  <1>1. lost' \in Nat
    BY LookupCounts, Zenon
  <1>2. query' # NoQuery
    BY DEF NoQuery
  <1>3. answer'.kind # "processor" /\ answer'.kind # "files" /\ answer'.kind # "image" /\ answer'.kind # "name"
    BY Zenon DEF Unasked
  <1>4. SaidOk(debuggee', answer', lost')
    BY <1>3, Zenon DEF SaidOk, ProcessorSaid, FilesSaid, ImageSaid, NameSaid
  <1> QED  BY <1>1, <1>2, <1>4, Zenon DEF QueryInv

\* What is known when a question is put, and of a target there is.
LEMMA AskingFacts ==
  ASSUME QueryInv
  PROVE  /\ \A kind : Asking(kind) => query = NoQuery /\ answer = Unasked /\ lost = 0
         /\ has_target => DebuggeeOk(debuggee)
         /\ is_kernel => DebuggeeOk(debuggee)
  <1>1. Empty.status = "no_debuggee" /\ Empty.class # "kernel"
    BY Zenon DEF Empty
  <1>2. debuggee = Empty \/ DebuggeeOk(debuggee)
    BY Zenon DEF QueryInv
  <1>3. \A kind : Asking(kind) => query = NoQuery /\ answer = Unasked /\ lost = 0
    BY Zenon DEF QueryInv, Asking
  <1>4. has_target => DebuggeeOk(debuggee)
    BY <1>1, <1>2, Zenon DEF has_target
  <1> QED  BY <1>1, <1>2, <1>3, <1>4, Zenon DEF is_kernel, has_target

\* A question refused says nothing of the target.
LEMMA RefusedStep == ASSUME QueryInv, NEW kind \in {"command", "files", "options"}, Refused(kind) PROVE QueryInv'
  <1>1. PICK e : /\ answer' = [kind |-> kind, err |-> e] /\ query' = NoQuery
                 /\ UNCHANGED <<debuggee, crashed>> /\ (LookupFails \/ UNCHANGED lost)
    BY Zenon DEF Refused, refuse_without_a_debuggee, Answers
  <1>2. /\ answer'.kind # "none" /\ answer'.kind # "processor" /\ answer'.kind # "name"
        /\ "files" \notin DOMAIN answer' /\ "stamp" \notin DOMAIN answer'
    BY <1>1, Zenon
  <1>3. SaidOk(debuggee, answer', lost')
    BY <1>2, NothingSaid, Zenon
  <1> QED  BY <1>1, <1>2, <1>3, AnswerStep, Zenon

\* A command is only sent to an engine that holds a target.
LEMMA CommandStep == ASSUME QueryInv, execute_command \/ enable_initial_break PROVE QueryInv'
  <1>1. /\ answer' \in {[kind |-> "command"], [kind |-> "arm"]} /\ query' = NoQuery
        /\ UNCHANGED <<debuggee, crashed, lost>>
    BY Zenon DEF execute_command, enable_initial_break, Answers, Faults, PastGuard
  <1>2. /\ answer'.kind # "none" /\ answer'.kind # "processor" /\ answer'.kind # "name"
        /\ "files" \notin DOMAIN answer' /\ "stamp" \notin DOMAIN answer'
    BY <1>1
  <1>3. SaidOk(debuggee, answer', lost')
    BY <1>2, NothingSaid, Zenon
  <1> QED  BY <1>1, <1>2, <1>3, AnswerStep, Zenon

\* Neither are the options of its connection.
LEMMA OptionsStep == ASSUME QueryInv, kernel_connection_options PROVE QueryInv'
  <1>1. /\ \/ answer' = [kind |-> "options", text |-> debuggee.connection]
           \/ answer' = [kind |-> "options", err |-> "read"]
        /\ query' = NoQuery /\ UNCHANGED <<debuggee, crashed>> /\ (LookupFails \/ UNCHANGED lost)
    BY Zenon DEF kernel_connection_options, Answers, Faults, PastGuard
  <1>2. /\ answer'.kind # "none" /\ answer'.kind # "processor" /\ answer'.kind # "name"
        /\ "files" \notin DOMAIN answer' /\ "stamp" \notin DOMAIN answer'
    BY <1>1
  <1>3. SaidOk(debuggee, answer', lost')
    BY <1>2, NothingSaid, Zenon
  <1> QED  BY <1>1, <1>2, <1>3, AnswerStep, Zenon

\* An error said of a kind is true of any target.
LEMMA ErrorSaid ==
  ASSUME NEW kind \in {"files", "image", "name"}, NEW e, answer' = [kind |-> kind, err |-> e]
  PROVE  SaidOk(debuggee, answer', lost') /\ answer'.kind # "none"
  <1>1. /\ answer'.kind # "none" /\ answer'.kind # "processor" /\ "is" \notin DOMAIN answer'
        /\ "files" \notin DOMAIN answer' /\ "stamp" \notin DOMAIN answer'
    BY Zenon
  <1> QED  BY <1>1, NothingSaid, Zenon

\* The files are counted.
LEMMA CountStep == ASSUME QueryInv, CountDumpFiles PROVE QueryInv'
  <1>1. has_target /\ query = NoQuery /\ answer = Unasked /\ lost = 0 /\ DebuggeeOk(debuggee)
    BY AskingFacts, Zenon DEF CountDumpFiles, PastGuard
  <1>2. CASE /\ query' = [kind |-> "files", index |-> 0, files |-> <<>>]
             /\ UNCHANGED <<debuggee, answer, lost, crashed>>
    <2>1. /\ query'.kind = "files" /\ DOMAIN query' = {"kind", "index", "files"} /\ query'.index = 0
          /\ query'.files = <<>>
      BY <1>2, Zenon
    <2>2. Len(debuggee.files) \in Nat
      BY <1>1 DEF DebuggeeOk
    <2>3. query'.index \in 0 .. Len(debuggee.files) /\ \A i \in 1 .. query'.index : FALSE
      BY <2>1, <2>2
    <2>4. query'.files \in Seq(Range(debuggee.files)) /\ Len(query'.files) = query'.index
      BY <2>1
    <2>5. NamingOk(debuggee, query')
      BY <1>1, <2>1, <2>3, <2>4, Zenon DEF NamingOk, has_target
    <2>6. query'.kind # "none" /\ query'.kind # "processor" /\ query'.kind # "image"
      BY <2>1, Zenon
    <2>7. QueryOk(debuggee, query', lost')
      BY <2>1, <2>5, <2>6, Zenon DEF QueryOk
    <2> QED  BY <1>1, <1>2, <2>6, <2>7, AskOnStep, Zenon
  <1>3. CASE /\ LookupFails /\ answer' = [kind |-> "files", err |-> "count"] /\ query' = NoQuery
             /\ UNCHANGED <<debuggee, crashed>>
    BY <1>3, ErrorSaid, AnswerStep, Zenon
  <1> QED  BY <1>1, <1>2, <1>3, Zenon DEF CountDumpFiles, Faults, Answers

\* What is known of a question in progress.
LEMMA ProgressFacts ==
  ASSUME QueryInv
  PROVE  /\ query.kind = "files" => DebuggeeOk(debuggee) /\ answer = Unasked /\ NamingOk(debuggee, query)
         /\ query.kind = "processor" => DebuggeeOk(debuggee) /\ answer = Unasked /\ WalkOk(debuggee, query, lost)
         /\ query.kind = "image" =>
              /\ DebuggeeOk(debuggee) /\ answer = Unasked
              /\ \E m \in Range(debuggee.modules) : m.name = "nt" /\ m.base = query.base
  BY Zenon DEF QueryInv, QueryOk

\* A file's name takes its own slot.
LEMMA DumpFileStep == ASSUME QueryInv, DumpFile PROVE QueryInv'
  <1>1. /\ query.kind = "files" /\ DebuggeeOk(debuggee) /\ answer = Unasked /\ NamingOk(debuggee, query)
        /\ query.index < Len(debuggee.files) /\ UNCHANGED <<debuggee, crashed>>
    BY ProgressFacts, Zenon DEF DumpFile
  <1>2. CASE /\ query' = [query EXCEPT !.index = @ + 1, !.files = FileNamed(@, debuggee.files[query.index + 1])]
             /\ UNCHANGED <<answer, lost>>
    <2> DEFINE F == debuggee.files
               k == query.index
               s == query.files
               t == Append(s, F[k + 1])
    <2>1. /\ F \in Seq(Range(F)) /\ k \in 0 .. Len(F) /\ s \in Seq(Range(F)) /\ Len(s) = k
          /\ \A i \in 1 .. k : s[i] = F[i]
      BY <1>1, Zenon DEF NamingOk, DebuggeeOk
    <2>2. k < Len(F)
      BY <1>1, Zenon
    <2>3. DOMAIN query = {"kind", "index", "files"}
      BY <1>1, Zenon DEF NamingOk
    <2>4. query'.kind = "files" /\ DOMAIN query' = {"kind", "index", "files"} /\ query'.index = k + 1 /\ query'.files = t
      BY <1>1, <1>2, <2>3, SMT DEF FileNamed
    <2> HIDE DEF F, k, s
    <2>5. /\ t \in Seq(Range(F)) /\ Len(t) = k + 1 /\ k + 1 \in 0 .. Len(F)
          /\ \A i \in 1 .. k + 1 : t[i] = F[i]
      <3>1. Len(F) \in Nat /\ k + 1 \in 1 .. Len(F) /\ F[k + 1] \in Range(F)
        BY <2>1, <2>2
      <3> DEFINE x == F[k + 1]
      <3> HIDE DEF x
      <3>2. /\ Append(s, x) \in Seq(Range(F)) /\ Len(Append(s, x)) = k + 1
            /\ \A i \in 1 .. k + 1 : Append(s, x)[i] = IF i = k + 1 THEN x ELSE s[i]
        BY <2>1, <3>1 DEF x
      <3>3. \A i \in 1 .. k + 1 : Append(s, x)[i] = F[i]
        BY <2>1, <3>1, <3>2 DEF x
      <3> QED  BY <3>1, <3>2, <3>3 DEF x
    <2>6. NamingOk(debuggee, query')
      <3>1. debuggee.status # "no_debuggee"
        BY <1>1, Zenon DEF NamingOk
      <3> QED  BY <2>4, <2>5, <3>1, Zenon DEF NamingOk, F
    <2>7. query'.kind # "none" /\ query'.kind # "processor" /\ query'.kind # "image"
      BY <2>4, Zenon
    <2>8. QueryOk(debuggee, query', lost')
      BY <2>4, <2>6, <2>7, Zenon DEF QueryOk
    <2> QED  BY <1>1, <1>2, <2>7, <2>8, AskOnStep, Zenon
  <1>3. CASE LookupFails /\ answer' = [kind |-> "files", err |-> "name"] /\ query' = NoQuery
    BY <1>1, <1>3, ErrorSaid, AnswerStep, Zenon
  <1> QED  BY <1>2, <1>3, Zenon DEF DumpFile, Answers

\* Every file named, they are answered.
LEMMA DumpFilesStep == ASSUME QueryInv, DumpFiles PROVE QueryInv'
  <1>1. /\ query.kind = "files" /\ DebuggeeOk(debuggee) /\ NamingOk(debuggee, query)
        /\ query.index = Len(debuggee.files) /\ UNCHANGED <<debuggee, crashed, lost>>
        /\ answer' = [kind |-> "files", files |-> query.files] /\ query' = NoQuery
    BY ProgressFacts, Zenon DEF DumpFiles, Answers
  <1>2. query.files = debuggee.files
    <2> DEFINE F == debuggee.files
               s == query.files
    <2>1. /\ F \in Seq(Range(F)) /\ s \in Seq(Range(F)) /\ Len(s) = Len(F) /\ \A i \in 1 .. Len(F) : s[i] = F[i]
      BY <1>1, Zenon DEF NamingOk, DebuggeeOk
    <2> HIDE DEF F, s
    <2>2. s = F
      BY <2>1, SeqEqual, Zenon
    <2> QED  BY <2>2, Zenon DEF F, s
  <1>3. answer'.kind = "files" /\ answer'.files = debuggee.files
    BY <1>1, <1>2, Zenon
  <1>4. answer'.kind # "none" /\ answer'.kind # "processor" /\ answer'.kind # "image" /\ answer'.kind # "name"
    BY <1>3, Zenon
  <1>5. debuggee.status # "no_debuggee"
    BY <1>1, Zenon DEF NamingOk
  <1>6. SaidOk(debuggee, answer', lost')
    BY <1>3, <1>4, <1>5, Zenon DEF SaidOk, ProcessorSaid, FilesSaid, ImageSaid, NameSaid
  <1> QED  BY <1>1, <1>4, <1>6, AnswerStep, Zenon

\* Something said of a processor that is true of the target.
LEMMA ProcessorAnswer ==
  ASSUME answer'.kind = "processor", ProcessorSaid(debuggee, answer', lost')
  PROVE  SaidOk(debuggee, answer', lost') /\ answer'.kind # "none"
  <1>1. answer'.kind # "none" /\ answer'.kind # "files" /\ answer'.kind # "image" /\ answer'.kind # "name"
    BY Zenon
  <1> QED  BY <1>1, Zenon DEF SaidOk, FilesSaid, ImageSaid, NameSaid

\* An error about a processor names one that never answered.
LEMMA ProcessorError ==
  ASSUME NEW f, f # {}, answer' = [kind |-> "processor", err |-> "read", failed |-> f]
  PROVE  SaidOk(debuggee, answer', lost') /\ answer'.kind # "none"
  <1>1. /\ answer'.kind = "processor" /\ "is" \notin DOMAIN answer' /\ "none" \notin DOMAIN answer'
        /\ answer'.failed = f
    BY Zenon
  <1>2. ProcessorSaid(debuggee, answer', lost')
    BY <1>1, Zenon DEF ProcessorSaid
  <1> QED  BY <1>1, <1>2, ProcessorAnswer, Zenon

\* The processors of a kernel are walked; no other target is.
LEMMA ProcessorStep == ASSUME QueryInv, current_processor PROVE QueryInv'
  <1>1. query = NoQuery /\ answer = Unasked /\ lost = 0 /\ UNCHANGED <<debuggee, crashed>>
    BY AskingFacts, Zenon DEF current_processor
  <1>2. CASE /\ ~is_kernel /\ answer' = [kind |-> "processor", none |-> TRUE] /\ query' = NoQuery /\ UNCHANGED lost
    <2>1. answer'.kind = "processor" /\ "is" \notin DOMAIN answer' /\ "err" \notin DOMAIN answer'
      BY <1>2, Zenon
    <2>2. ProcessorSaid(debuggee, answer', lost')
      BY <1>2, <2>1, Zenon DEF ProcessorSaid, is_kernel
    <2> QED  BY <1>1, <1>2, <2>1, <2>2, ProcessorAnswer, AnswerStep, Zenon
  <1>3. CASE is_kernel /\ query' = [kind |-> "processor", asked |-> 0, failed |-> {}] /\ UNCHANGED <<answer, lost>>
    <2>1. DebuggeeOk(debuggee)
      BY <1>3, AskingFacts, Zenon
    <2>2. /\ query'.kind = "processor" /\ DOMAIN query' = {"kind", "asked", "failed"}
          /\ query'.asked = 0 /\ query'.failed = {}
      BY <1>3, Zenon
    <2>3. debuggee.processors \in Nat
      BY <2>1, Zenon DEF DebuggeeOk
    <2>4. query'.asked \in 0 .. debuggee.processors /\ \A i \in 1 .. query'.asked : FALSE
      BY <2>2, <2>3
    <2>5. WalkOk(debuggee, query', lost')
      BY <1>1, <1>3, <2>2, <2>4, Zenon DEF WalkOk, is_kernel
    <2>6. query'.kind # "none" /\ query'.kind # "files" /\ query'.kind # "image"
      BY <2>2, Zenon
    <2>7. QueryOk(debuggee, query', lost')
      BY <2>2, <2>5, <2>6, Zenon DEF QueryOk
    <2> QED  BY <1>1, <1>3, <2>1, <2>6, <2>7, AskOnStep, Zenon
  <1>4. CASE LookupFails /\ answer' = [kind |-> "processor", err |-> "read", failed |-> {-1}] /\ query' = NoQuery
    <2>1. {-1} # {}
      BY Zenon
    <2> QED  BY <1>1, <1>4, <2>1, ProcessorError, AnswerStep, Zenon
  <1> QED  BY <1>2, <1>3, <1>4, Zenon DEF current_processor, Answers

\* The order of the model is that of its target.
LEMMA OrderIsOrderOf == order = OrderOf(debuggee)
  BY Zenon DEF order, OrderOf

\* A processor asked matches, or does not, or fails to answer.
LEMMA WalkStep == ASSUME QueryInv, GetThreadIdByProcessor PROVE QueryInv'
  <1> DEFINE n == debuggee.processors
             k == query.asked
             p == OrderOf(debuggee)[k + 1]
  <1>1. /\ query.kind = "processor" /\ DebuggeeOk(debuggee) /\ answer = Unasked /\ WalkOk(debuggee, query, lost)
        /\ k < n /\ UNCHANGED <<debuggee, crashed>>
    BY ProgressFacts, Zenon DEF GetThreadIdByProcessor
  <1>2. n \in Nat /\ debuggee.current \in Nat /\ k \in 0 .. n /\ DOMAIN query = {"kind", "asked", "failed"}
    BY <1>1, Zenon DEF DebuggeeOk, WalkOk
  <1>3. k + 1 \in 1 .. n /\ k + 1 \in 0 .. n /\ 1 .. k + 1 = 1 .. k \cup {k + 1} /\ k + 1 \notin 1 .. k
        /\ 1 .. k \subseteq 1 .. n
    <2> HIDE DEF k, n
    <2> QED  BY <1>1, <1>2
  <1>4. CASE /\ debuggee.thread[p] = debuggee.current /\ answer' = [kind |-> "processor", is |-> p]
             /\ query' = NoQuery /\ UNCHANGED lost
    <2>1. answer'.kind = "processor" /\ answer'.is = p /\ "none" \notin DOMAIN answer' /\ "err" \notin DOMAIN answer'
      BY <1>4, Zenon
    <2>2. ProcessorSaid(debuggee, answer', lost')
      BY <1>4, <2>1, Zenon DEF ProcessorSaid
    <2> QED  BY <1>1, <1>4, <2>1, <2>2, ProcessorAnswer, AnswerStep, Zenon
  <1>5. ASSUME NEW f, query'.kind = "processor", DOMAIN query' = {"kind", "asked", "failed"},
               query'.asked = k + 1, query'.failed = f,
               query.failed \subseteq f, debuggee.thread[p] # debuggee.current \/ p \in f,
               lost' = 0 <=> f = {}, LookupFails \/ UNCHANGED lost, UNCHANGED answer
        PROVE  QueryInv'
    <2>2. \A i \in 1 .. k + 1 : \/ debuggee.thread[OrderOf(debuggee)[i]] # debuggee.current
                                \/ OrderOf(debuggee)[i] \in f
      BY <1>1, <1>3, <1>5, Zenon DEF WalkOk
    <2>3. debuggee.class = "kernel"
      BY <1>1, Zenon DEF WalkOk
    <2>4. WalkOk(debuggee, query', lost')
      BY <1>3, <1>5, <2>2, <2>3, Zenon DEF WalkOk
    <2>6. query'.kind # "none" /\ query'.kind # "files" /\ query'.kind # "image"
      BY <1>5, Zenon
    <2>7. QueryOk(debuggee, query', lost')
      BY <1>5, <2>4, <2>6, Zenon DEF QueryOk
    <2> QED  BY <1>1, <1>5, <2>6, <2>7, AskOnStep, Zenon
  <1>6. CASE /\ debuggee.thread[p] # debuggee.current
             /\ query' = [query EXCEPT !.asked = @ + 1] /\ UNCHANGED <<answer, lost>>
    <2>1. /\ query'.kind = "processor" /\ DOMAIN query' = {"kind", "asked", "failed"}
          /\ query'.asked = k + 1 /\ query'.failed = query.failed
      BY <1>1, <1>2, <1>6, SMT
    <2>2. lost' = 0 <=> query.failed = {}
      BY <1>1, <1>6, Zenon DEF WalkOk
    <2> QED  BY <1>5, <1>6, <2>1, <2>2, Zenon
  <1>7. CASE /\ LookupFails
             /\ query' = [query EXCEPT !.asked = @ + 1,
                                       !.failed = @ \cup (IF \E i \in 1 .. query.asked : OrderOf(debuggee)[i] = p THEN {} ELSE {p})]
             /\ UNCHANGED answer
    <2>1. ~\E i \in 1 .. query.asked : OrderOf(debuggee)[i] = p
      BY <1>2, <1>3, OrderFacts, Zenon
    <2>2. query' = [query EXCEPT !.asked = @ + 1, !.failed = query.failed \cup {p}]
      BY <1>7, <2>1, Zenon
    <2>r. /\ query'.kind = "processor" /\ DOMAIN query' = {"kind", "asked", "failed"}
          /\ query'.asked = k + 1 /\ query'.failed = query.failed \cup {p}
      BY <1>1, <1>2, <2>2, SMT
    <2>3. lost' # 0
      BY <1>7, LookupCounts, Zenon
    <2>4. query.failed \cup {p} # {} /\ query.failed \subseteq query.failed \cup {p} /\ p \in query.failed \cup {p}
      BY Zenon
    <2> QED  BY <1>5, <1>7, <2>r, <2>3, <2>4, Zenon
  <1>8. \/ /\ debuggee.thread[p] = debuggee.current /\ answer' = [kind |-> "processor", is |-> p]
           /\ query' = NoQuery /\ UNCHANGED lost
        \/ /\ debuggee.thread[p] # debuggee.current
           /\ query' = [query EXCEPT !.asked = @ + 1] /\ UNCHANGED <<answer, lost>>
        \/ /\ LookupFails
           /\ query' = [query EXCEPT !.asked = @ + 1,
                                     !.failed = @ \cup (IF \E i \in 1 .. query.asked : OrderOf(debuggee)[i] = p THEN {} ELSE {p})]
           /\ UNCHANGED answer
    BY OrderIsOrderOf, Zenon DEF GetThreadIdByProcessor, Answers
  <1> QED  BY <1>4, <1>6, <1>7, <1>8, Zenon

\* Every processor asked: there is none only if all of them answered.
LEMMA NoProcessorStep == ASSUME QueryInv, NoProcessor PROVE QueryInv'
  <1>1. /\ query.kind = "processor" /\ DebuggeeOk(debuggee) /\ WalkOk(debuggee, query, lost)
        /\ query.asked = debuggee.processors /\ UNCHANGED <<debuggee, crashed, lost>>
        /\ answer' = Unmatched /\ query' = NoQuery
    BY ProgressFacts, Zenon DEF NoProcessor, Answers
  <1>2. CASE lost = 0
    <2>1. answer' = [kind |-> "processor", none |-> TRUE]
      BY <1>1, <1>2, Zenon DEF Unmatched
    <2>2. answer'.kind = "processor" /\ "is" \notin DOMAIN answer' /\ "err" \notin DOMAIN answer'
      BY <2>1, Zenon
    <2>3. query.failed = {}
      BY <1>1, <1>2, Zenon DEF WalkOk
    <2>4. \A i \in 1 .. debuggee.processors : debuggee.thread[OrderOf(debuggee)[i]] # debuggee.current
      BY <1>1, <2>3, Zenon DEF WalkOk
    <2>5. \A p \in 0 .. debuggee.processors - 1 : \E i \in 1 .. debuggee.processors : OrderOf(debuggee)[i] = p
      <3>1. debuggee.processors \in Nat /\ debuggee.current \in Nat
        BY <1>1, Zenon DEF DebuggeeOk
      <3> QED  BY <3>1, OrderFacts, Zenon
    <2>6. \A p \in 0 .. debuggee.processors - 1 : debuggee.thread[p] # debuggee.current
      BY <2>4, <2>5, Zenon
    <2>7. ProcessorSaid(debuggee, answer', lost')
      BY <1>1, <1>2, <2>2, <2>6, Zenon DEF ProcessorSaid
    <2> QED  BY <1>1, <2>2, <2>7, ProcessorAnswer, AnswerStep, Zenon
  <1>3. CASE lost # 0
    <2>1. answer' = [kind |-> "processor", err |-> "read", failed |-> query.failed] /\ query.failed # {}
      BY <1>1, <1>3, Zenon DEF Unmatched, WalkOk
    <2> QED  BY <1>1, <2>1, ProcessorError, AnswerStep, Zenon
  <1> QED  BY <1>2, <1>3, Zenon

\* The kernel's base is found among the modules.
LEMMA KernelBaseStep == ASSUME QueryInv, kernel_base PROVE QueryInv'
  <1>1. query = NoQuery /\ answer = Unasked /\ UNCHANGED <<debuggee, crashed>>
    BY AskingFacts, Zenon DEF kernel_base
  <1>2. ASSUME NEW j \in DOMAIN debuggee.modules, debuggee.modules[j].name = "nt", has_target,
               query' = [kind |-> "image", base |-> debuggee.modules[j].base, index |-> j], UNCHANGED <<answer, lost>>
        PROVE  QueryInv'
    <2>1. query'.kind = "image" /\ query'.base = debuggee.modules[j].base
      BY <1>2, Zenon
    <2>2. debuggee.modules[j] \in Range(debuggee.modules)
      BY <1>2, Zenon DEF Range
    <2>3. query'.kind # "none" /\ query'.kind # "files" /\ query'.kind # "processor"
      BY <2>1, Zenon
    <2>4. QueryOk(debuggee, query', lost')
      BY <1>2, <2>1, <2>2, <2>3, Zenon DEF QueryOk
    <2>5. DebuggeeOk(debuggee)
      BY <1>2, AskingFacts, Zenon
    <2> QED  BY <1>1, <1>2, <2>3, <2>4, <2>5, AskOnStep, Zenon
  <1>3. CASE /\ has_target /\ \E i \in DOMAIN debuggee.modules : debuggee.modules[i].name = "nt"
             /\ LET i == CHOOSE j \in DOMAIN debuggee.modules : debuggee.modules[j].name = "nt"
                IN query' = [kind |-> "image", base |-> debuggee.modules[i].base, index |-> i]
             /\ UNCHANGED <<answer, lost>>
    <2> DEFINE i == CHOOSE j \in DOMAIN debuggee.modules : debuggee.modules[j].name = "nt"
    <2>1. i \in DOMAIN debuggee.modules /\ debuggee.modules[i].name = "nt"
      BY <1>3, Zenon
    <2>2. query' = [kind |-> "image", base |-> debuggee.modules[i].base, index |-> i]
      BY <1>3, Zenon
    <2> HIDE DEF i
    <2> QED  BY <1>2, <1>3, <2>1, <2>2, Zenon
  <1>4. CASE LookupFails /\ answer' = [kind |-> "image", err |-> "base"] /\ query' = NoQuery
    BY <1>1, <1>4, ErrorSaid, AnswerStep, Zenon
  <1> QED  BY <1>3, <1>4, Zenon DEF kernel_base, Answers

\* A module that goes between the two calls is not the kernel.
LEMMA UnloadStep == ASSUME QueryInv, Unload PROVE QueryInv'
  <1>1. /\ query.kind = "image" /\ DebuggeeOk(debuggee) /\ answer = Unasked /\ UNCHANGED <<query, answer, lost, crashed>>
        /\ \E m \in Range(debuggee.modules) : m.name = "nt" /\ m.base = query.base
    BY ProgressFacts, Zenon DEF Unload
  <1>2. PICK i \in DOMAIN debuggee.modules :
          debuggee.modules[i].name # "nt" /\ debuggee' = [debuggee EXCEPT !.modules = Removed(@, i)]
    BY Zenon DEF Unload, Removed
  <1> DEFINE s == debuggee.modules
             r == Removed(s, i)
  <1>3. /\ r \in Seq(Range(r)) /\ Range(r) \subseteq Range(s)
        /\ \A m \in Range(s) : m # s[i] => m \in Range(r)
    <2>1. s \in Seq(Range(s))
      BY <1>1, Zenon DEF DebuggeeOk
    <2> HIDE DEF s
    <2>2. i \in DOMAIN s
      BY Zenon DEF s
    <2> QED  BY <2>1, <2>2, RemovedFacts, Zenon
  <1> HIDE DEF r
  <1>4. DOMAIN debuggee = {"status", "class", "connection", "files", "processors", "current", "thread", "modules", "process",
                           "executable", "fields"}
    BY <1>1, Zenon DEF DebuggeeOk
  <1>5. /\ DOMAIN debuggee' = DOMAIN debuggee /\ debuggee'.modules = r
        /\ debuggee'.status = debuggee.status /\ debuggee'.class = debuggee.class /\ debuggee'.files = debuggee.files
        /\ debuggee'.processors = debuggee.processors /\ debuggee'.current = debuggee.current
        /\ debuggee'.process = debuggee.process
    BY <1>2, <1>4, SMT DEF r
  <1>6. \A m, n \in Range(r) : m.base = n.base => m = n
    BY <1>1, <1>3, Zenon DEF DebuggeeOk
  <1>7. DebuggeeOk(debuggee')
    BY <1>1, <1>3, <1>4, <1>5, <1>6, Zenon DEF DebuggeeOk
  <1>8. \E m \in Range(debuggee'.modules) : m.name = "nt" /\ m.base = query'.base
    BY <1>1, <1>2, <1>3, <1>5, Zenon
  <1>9. query'.kind = "image" /\ query'.kind # "none" /\ query'.kind # "processor" /\ query'.kind # "files"
    BY <1>1, Zenon
  <1>10. QueryOk(debuggee', query', lost')
    BY <1>8, <1>9, ZenonT(40) DEF QueryOk
  <1>11. query' # NoQuery /\ answer'.kind # "processor" /\ answer'.kind # "files" /\ answer'.kind # "image"
         /\ answer'.kind # "name"
    BY <1>1, <1>9 DEF NoQuery, Unasked
  <1>12. SaidOk(debuggee', answer', lost')
    BY <1>11, Zenon DEF SaidOk, ProcessorSaid, FilesSaid, ImageSaid, NameSaid
  <1> QED  BY <1>1, <1>7, <1>10, <1>11, <1>12, Zenon DEF QueryInv

\* The parameters read are of the module at the base found, which is the kernel.
LEMMA KernelImageStep == ASSUME QueryInv, kernel_image PROVE QueryInv'
  <1>1. /\ query.kind = "image" /\ DebuggeeOk(debuggee) /\ UNCHANGED <<debuggee, crashed>>
        /\ \E m \in Range(debuggee.modules) : m.name = "nt" /\ m.base = query.base
    BY ProgressFacts, Zenon DEF kernel_image
  <1>2. CASE /\ ParametersOf # {} /\ query' = NoQuery /\ UNCHANGED lost
             /\ answer' = [kind |-> "image", base |-> query.base, stamp |-> (CHOOSE m \in ParametersOf : TRUE).stamp]
    <2> DEFINE c == CHOOSE m \in ParametersOf : TRUE
    <2>1. c \in ParametersOf
      BY <1>2, Zenon
    <2>2. answer'.kind = "image" /\ answer'.base = query.base /\ answer'.stamp = c.stamp
      BY <1>2, Zenon
    <2> HIDE DEF c
    <2>3. c \in Range(debuggee.modules) /\ c.base = query.base
      BY <2>1, Zenon DEF ParametersOf
    <2>4. c.name = "nt"
      BY <1>1, <2>3, Zenon DEF DebuggeeOk
    <2>5. answer'.kind # "none" /\ answer'.kind # "processor" /\ answer'.kind # "files" /\ answer'.kind # "name"
      BY <2>2, Zenon
    <2>6. SaidOk(debuggee, answer', lost')
      BY <2>2, <2>3, <2>4, <2>5, Zenon DEF SaidOk, ProcessorSaid, FilesSaid, ImageSaid, NameSaid
    <2> QED  BY <1>1, <1>2, <2>5, <2>6, AnswerStep, Zenon
  <1>3. CASE answer' = [kind |-> "image", err |-> "parameters"] /\ query' = NoQuery /\ (LookupFails \/ UNCHANGED lost)
    BY <1>1, <1>3, ErrorSaid, AnswerStep, Zenon
  <1> QED  BY <1>2, <1>3, Zenon DEF kernel_image, Answers

\* The name found for a process: its whole leaf, or the beginning of it.
LEMMA NameFacts ==
  ASSUME DebuggeeOk(debuggee)
  PROVE  LET p == debuggee.process
         IN /\ audit_image_name(p) = IF Audited(p) THEN leaf(p.path) ELSE <<>>
            /\ Begins(leaf(p.path), leaf(p.path))
            /\ Begins(nul_terminated(ImageFileName(p)), leaf(p.path))
            /\ leaf(p.path) = <<>> => nul_terminated(ImageFileName(p)) = <<>>
  <1> DEFINE p == debuggee.process
             path == p.path
             C == Range(path)
             name == leaf(path)
             found == nul_terminated(ImageFileName(p))
  <1>1. path \in Seq(C) /\ Nul \notin C
    BY Zenon DEF DebuggeeOk
  <1>2. Audited(p) => p.length \div 2 = Len(path)
    BY Zenon DEF DebuggeeOk
  <1>3. audit_image_name(p) = IF Audited(p) THEN name ELSE <<>>
    <2>1. SubSeq(path, 1, Len(path)) = path
      <3> HIDE DEF path, C
      <3> QED  BY <1>1
    <2> QED  BY <1>2, <2>1, Zenon DEF audit_image_name
  <1>4. name \in Seq(C)
    <2> HIDE DEF path, C
    <2> QED  BY <1>1, LeafFacts, Zenon
  <1>5. EPROCESS_IMAGE_NAME_LEN \in Nat
    BY QueryAssumption, Zenon
  <1>6. ImageFileName(p) = [i \in 1 .. EPROCESS_IMAGE_NAME_LEN |-> IF i <= Len(name) THEN name[i] ELSE Nul]
    BY Zenon DEF ImageFileName
  <1>7. Begins(found, name) /\ found \in Seq(C)
    <2> HIDE DEF name, C
    <2> QED  BY <1>1, <1>4, <1>5, <1>6, ArrayBegins, Zenon
  <1> HIDE DEF name, found, C
  <1>8. Begins(name, name)
    <2>1. Len(name) \in 0 .. Len(name) /\ name = SubSeq(name, 1, Len(name))
      BY <1>4
    <2> QED  BY <2>1, Zenon DEF Begins
  <1>9. ASSUME name = <<>> PROVE found = <<>>
    <2>1. PICK n \in 0 .. Len(name) : found = SubSeq(name, 1, n)
      BY <1>7, Zenon DEF Begins
    <2>2. n = 0
      BY <1>9, <2>1
    <2>3. SubSeq(name, 1, 0) = <<>>
      BY <1>9
    <2> QED  BY <2>1, <2>2, <2>3, Zenon
  <1> QED  BY <1>3, <1>7, <1>8, <1>9, Zenon DEF name, found

\* A name said of the current process.
LEMMA NameAnswer ==
  ASSUME NEW x, answer' = [kind |-> "name", is |-> x],
         debuggee.class = "kernel" =>
           /\ Begins(x, leaf(debuggee.process.path))
           /\ Audited(debuggee.process) => x = leaf(debuggee.process.path)
  PROVE  SaidOk(debuggee, answer', lost') /\ answer'.kind # "none"
  <1>1. answer'.kind = "name" /\ answer'.is = x
    BY Zenon
  <1>2. answer'.kind # "none" /\ answer'.kind # "processor" /\ answer'.kind # "files" /\ answer'.kind # "image"
    BY <1>1, Zenon
  <1> QED  BY <1>1, <1>2, Zenon DEF SaidOk, ProcessorSaid, FilesSaid, ImageSaid, NameSaid

\* A process is named after its own path, never after the kernel's image.
LEMMA NameStep == ASSUME QueryInv, current_process_name PROVE QueryInv'
  <1> DEFINE p == debuggee.process
             full == audit_image_name(p)
             found == nul_terminated(ImageFileName(p))
  <1>1. has_target /\ DebuggeeOk(debuggee) /\ UNCHANGED <<debuggee, crashed>>
    BY AskingFacts, Zenon DEF current_process_name
  <1>2. /\ full = IF Audited(p) THEN leaf(p.path) ELSE <<>>
        /\ Begins(leaf(p.path), leaf(p.path)) /\ Begins(found, leaf(p.path))
        /\ leaf(p.path) = <<>> => found = <<>>
    BY <1>1, NameFacts, Zenon
  <1>3. ASSUME NEW e, answer' = [kind |-> "name", err |-> e], query' = NoQuery, LookupFails \/ UNCHANGED lost
        PROVE  QueryInv'
    BY <1>1, <1>3, ErrorSaid, AnswerStep, Zenon
  <1>4. CASE ~is_kernel /\ answer' = [kind |-> "name", is |-> debuggee.executable] /\ query' = NoQuery /\ UNCHANGED lost
    BY <1>1, <1>4, NameAnswer, AnswerStep, Zenon DEF is_kernel
  <1>5. CASE full # <<>> /\ answer' = [kind |-> "name", is |-> full] /\ query' = NoQuery /\ UNCHANGED lost
    <2>1. Begins(full, leaf(p.path)) /\ full = leaf(p.path)
      BY <1>2, <1>5, Zenon
    <2> QED  BY <1>1, <1>5, <2>1, NameAnswer, AnswerStep, Zenon
  <1>6. CASE full = <<>> /\ answer' = [kind |-> "name", is |-> found] /\ query' = NoQuery /\ UNCHANGED lost
    <2>1. Begins(found, leaf(p.path)) /\ (Audited(p) => found = leaf(p.path))
      BY <1>2, <1>6, Zenon
    <2> QED  BY <1>1, <1>6, <2>1, NameAnswer, AnswerStep, Zenon
  <1>7. \/ ~is_kernel /\ answer' = [kind |-> "name", is |-> debuggee.executable] /\ query' = NoQuery /\ UNCHANGED lost
        \/ full # <<>> /\ answer' = [kind |-> "name", is |-> full] /\ query' = NoQuery /\ UNCHANGED lost
        \/ full = <<>> /\ answer' = [kind |-> "name", is |-> found] /\ query' = NoQuery /\ UNCHANGED lost
        \/ /\ \E e : answer' = [kind |-> "name", err |-> e]
           /\ query' = NoQuery /\ (LookupFails \/ UNCHANGED lost)
    BY Zenon DEF current_process_name, Answers
  <1> QED  BY <1>3, <1>4, <1>5, <1>6, <1>7, Zenon

\* The names of a type's fields say nothing of the others.
LEMMA FieldsStep == ASSUME QueryInv, field_names PROVE QueryInv'
  <1>1. PICK f : /\ answer' = [kind |-> "fields", fields |-> f] /\ query' = NoQuery
                 /\ UNCHANGED <<debuggee, lost, crashed>>
    BY Zenon DEF field_names, Answers
  <1>2. /\ answer'.kind # "none" /\ answer'.kind # "processor" /\ answer'.kind # "name"
        /\ "files" \notin DOMAIN answer' /\ "stamp" \notin DOMAIN answer'
    BY <1>1, Zenon
  <1>3. SaidOk(debuggee, answer', lost')
    BY <1>2, NothingSaid, Zenon
  <1> QED  BY <1>1, <1>2, <1>3, AnswerStep, Zenon

\* Whatever the engine holds and whichever calls fail, no question faults the
\* process, and what is answered of the processors, the files, the build and
\* the process is true of the target.
THEOREM QueriesSoundHolds == TargetSpec => []QueriesSound
  <1>1. QueryInv /\ [TargetNext]_queryVars => QueryInv'
    <2> SUFFICES ASSUME QueryInv, [TargetNext]_queryVars PROVE QueryInv'
      BY Zenon
    <2>1. CASE UNCHANGED queryVars
      BY <2>1, Zenon DEF QueryInv, queryVars
    <2>2. CASE TargetNext
      BY <2>2, RefusedStep, CommandStep, CountStep, OptionsStep, DumpFileStep, DumpFilesStep, ProcessorStep, WalkStep,
         NoProcessorStep, KernelBaseStep, UnloadStep, KernelImageStep, NameStep, FieldsStep, Zenon DEF TargetNext
    <2> QED  BY <2>1, <2>2, Zenon
  <1> QED  BY <1>1, QueryInitInv, QueryInvSound, PTL DEF TargetSpec

-----------------------------------------------------------------------------
(* What is said of a target's modules, for any tables and any failures. *)

\* What the properties say, of a table, an answer and the calls that failed.
ModuleOf(t, m, i) ==
  LET e == (t.loaded \o t.unloaded)[i + 1]
  IN /\ m.base = e.base /\ m.size = e.size /\ m.symbols = symbols_from_engine(e.symbols)
     /\ m.name \in {e.name, ""} /\ m.unloaded = e.unloaded
ToldOk(t, d, k) ==
  /\ d.kind = "list" => /\ Len(d.modules) = Len(t[d.of])
                        /\ \A n \in DOMAIN d.modules : ModuleOf(t, d.modules[n], d.start + n - 1)
  /\ d.kind = "list" /\ k = 0 => \A n \in DOMAIN d.modules : d.modules[n].name # ""
  /\ d.kind = "nowhere" => ~\E i \in 0 .. Len(t.loaded) - 1 :
                              LET e == (t.loaded \o t.unloaded)[i + 1]
                              IN e.base <= d.address /\ d.address < e.base + e.size
  /\ d.kind \in {"module", "identity"} =>
       /\ ModuleOf(t, d.module, d.index)
       /\ d.kind = "identity" => d.file = (t.loaded \o t.unloaded)[d.index + 1].file
  /\ d.kind = "pdb" => d.signature = (t.loaded \o t.unloaded)[d.index + 1].signature

\* A sequence, whatever its elements are.
IsSeq(s) == s \in Seq(Range(s))

\* A listing in progress is of one of the two tables, and each module in it is the
\* engine's own, named if no name has failed to be read.
ListingOk(t, q, k) ==
  /\ DOMAIN q = {"pc", "of", "start", "count", "modules"}
  /\ \/ q.of = "loaded" /\ q.start = 0 /\ q.count = Len(t.loaded)
     \/ q.of = "unloaded" /\ q.start = Len(t.loaded) /\ q.count = Len(t.unloaded)
  /\ IsSeq(q.modules)
  /\ Len(q.modules) <= q.count
  /\ \A n \in DOMAIN q.modules : ModuleOf(t, q.modules[n], q.start + n - 1)
  /\ k = 0 => \A n \in DOMAIN q.modules : q.modules[n].name # ""

RequestOk(t, q, k) ==
  /\ q.pc \in {"idle", "names", "parameters", "symbol_file"}
  /\ q.pc = "names" => ListingOk(t, q, k)
  /\ q.pc = "parameters" => q.index \in 0 .. Len(t.loaded) - 1 /\ q.by = q.index
  /\ q.pc = "symbol_file" => q.index \in 0 .. Len(t.loaded) - 1 /\ ModuleOf(t, q.module, q.index)

ModuleInv ==
  /\ table \in ModuleTables /\ missed \in Nat
  /\ RequestOk(table, request, missed) /\ ToldOk(table, told, missed)

\* A sequence over a set is one over any larger set.
LEMMA SeqWider ==
  ASSUME NEW A, NEW B, A \subseteq B, NEW s \in Seq(A)
  PROVE  s \in Seq(B)
  <1>1. Len(s) \in Nat /\ DOMAIN s = 1 .. Len(s) /\ \A i \in 1 .. Len(s) : s[i] \in A
    OBVIOUS
  <1>2. s = [i \in 1 .. Len(s) |-> s[i]]
    OBVIOUS
  <1> QED  BY <1>1, <1>2

\* The engine's index space: the loaded modules, then the unloaded ones.
LEMMA SpaceFacts ==
  ASSUME table \in ModuleTables
  PROVE  /\ Len(table.loaded) \in Nat /\ Len(table.unloaded) \in Nat
         /\ \A i \in Loaded : At(i) = table.loaded[i + 1] /\ i + 1 \in DOMAIN table.loaded
         /\ \A i \in 0 .. Len(table.loaded) + Len(table.unloaded) - 1 : At(i).name # "" /\ At(i).sizes \in Nat
  <1> DEFINE l == table.loaded
             u == table.unloaded
             M == Range(l) \cup Range(u)
  <1>1. /\ l \in Seq(Range(l)) /\ u \in Seq(Range(u))
        /\ \A i \in DOMAIN l : l[i].name # "" /\ l[i].sizes \in Nat
        /\ \A i \in DOMAIN u : u[i].name # "" /\ u[i].sizes \in Nat
    BY ModuleAssumption, Zenon
  <1> HIDE DEF l, u
  <1>2. l \in Seq(M) /\ u \in Seq(M)
    BY <1>1, SeqWider, Zenon
  <1> HIDE DEF M
  <1>3. Len(l) \in Nat /\ Len(u) \in Nat /\ DOMAIN l = 1 .. Len(l) /\ DOMAIN u = 1 .. Len(u)
    BY <1>2
  <1>4. /\ \A i \in 1 .. Len(l) : (l \o u)[i] = l[i]
        /\ \A i \in 1 .. Len(u) : (l \o u)[Len(l) + i] = u[i]
    BY <1>2, SMT
  <1>5. ASSUME NEW i \in Loaded PROVE At(i) = l[i + 1] /\ i + 1 \in DOMAIN l
    <2>1. i \in 0 .. Len(l) - 1
      BY Zenon DEF Loaded, l
    <2>2. i + 1 \in 1 .. Len(l)
      BY <1>3, <2>1
    <2> QED  BY <1>3, <1>4, <2>2, Zenon DEF At, Space, l, u
  <1>6. ASSUME NEW i \in 0 .. Len(l) + Len(u) - 1 PROVE At(i).name # "" /\ At(i).sizes \in Nat
    <2>1. CASE i < Len(l)
      <3>1. i + 1 \in 1 .. Len(l)
        BY <1>3, <2>1
      <3>2. At(i) = l[i + 1]
        BY <1>4, <3>1, Zenon DEF At, Space, l, u
      <3> QED  BY <1>1, <1>3, <3>1, <3>2, Zenon
    <2>2. CASE ~(i < Len(l))
      <3>1. i + 1 - Len(l) \in 1 .. Len(u) /\ i + 1 = Len(l) + (i + 1 - Len(l))
        BY <1>3, <2>2
      <3>2. (l \o u)[Len(l) + (i + 1 - Len(l))] = u[i + 1 - Len(l)]
        BY <1>4, <3>1, Zenon
      <3>3. At(i) = u[i + 1 - Len(l)]
        BY <3>1, <3>2, Zenon DEF At, Space, l, u
      <3> QED  BY <1>1, <1>3, <3>1, <3>3, Zenon
    <2> QED  BY <2>1, <2>2, Zenon
  <1> QED  BY <1>3, <1>5, <1>6, Zenon DEF l, u

\* Loaded modules are told apart by their bases.
LEMMA BasesDistinct ==
  ASSUME table \in ModuleTables, NEW i \in Loaded, NEW j \in Loaded, At(i).base = At(j).base
  PROVE  i = j
  <1>1. /\ At(i) = table.loaded[i + 1] /\ i + 1 \in DOMAIN table.loaded
        /\ At(j) = table.loaded[j + 1] /\ j + 1 \in DOMAIN table.loaded
    BY SpaceFacts, Zenon
  <1>2. i + 1 = j + 1
    BY <1>1, ModuleAssumption, Zenon
  <1>3. i \in Int /\ j \in Int
    BY SMT DEF Loaded
  <1> QED  BY <1>2, <1>3, SMT

\* What is read of a module by its index, and by its index as its base gives it.
LEMMA NamedIsOf ==
  ASSUME NEW i, NEW reads \in BOOLEAN
  PROVE  /\ ModuleOf(table, named_module(i, At(i), reads), i)
         /\ reads /\ At(i).name # "" /\ At(i).sizes \in Nat => named_module(i, At(i), reads).name # ""
  <1> DEFINE m == named_module(i, At(i), reads)
  <1>1. /\ m.base = At(i).base /\ m.size = At(i).size /\ m.symbols = symbols_from_engine(At(i).symbols)
        /\ m.unloaded = At(i).unloaded
        /\ m.name = IF reads /\ sized(At(i).sizes) > 0 THEN At(i).name ELSE ""
    BY Zenon DEF named_module
  <1>2. At(i).sizes \in Nat => sized(At(i).sizes) > 0
    <2> DEFINE z == At(i).sizes
    <2> HIDE DEF z
    <2>1. z \in Nat => sized(z) > 0
      BY SMT DEF sized
    <2> QED  BY <2>1, Zenon DEF z
  <1> HIDE DEF m
  <1>3. ModuleOf(table, m, i)
    BY <1>1, Zenon DEF ModuleOf, At, Space
  <1> QED  BY <1>1, <1>2, <1>3, Zenon DEF m

\* The invariant says what is promised of modules.
LEMMA ModuleInvSound == ModuleInv => ModulesSound
  <1> SUFFICES ASSUME ModuleInv PROVE ModulesSound
    BY Zenon
  <1>0. ToldOk(table, told, missed)
    BY Zenon DEF ModuleInv
  <1>1. ListIsTheEngines
    BY <1>0, Zenon DEF ToldOk, ListIsTheEngines, IsOf, ModuleOf, At, Space
  <1>2. UnloadedAreNamed
    BY <1>0, Zenon DEF ToldOk, UnloadedAreNamed
  <1>3. NowhereIsNowhere
    BY <1>0, Zenon DEF ToldOk, NowhereIsNowhere, Loaded, Holds, At, Space
  <1>4. OneModule
    BY <1>0, Zenon DEF ToldOk, OneModule, IsOf, ModuleOf, At, Space
  <1>5. NoPdbIsNone
    BY <1>0, Zenon DEF ToldOk, NoPdbIsNone, At, Space
  <1> QED  BY <1>1, <1>2, <1>3, <1>4, <1>5, Zenon DEF ModulesSound

\* Before any question nothing is asked and nothing told.
LEMMA ModuleInitInv == ModuleInit => ModuleInv
  <1> SUFFICES ASSUME ModuleInit PROVE ModuleInv
    BY Zenon
  <1>1. table \in ModuleTables /\ missed \in Nat /\ request.pc = "idle" /\ told.kind = "none"
    BY Zenon DEF ModuleInit, NoRequest, Untold
  <1>2. RequestOk(table, request, missed)
    BY <1>1, Zenon DEF RequestOk
  <1>3. ToldOk(table, told, missed)
    BY <1>1, Zenon DEF ToldOk
  <1> QED  BY <1>1, <1>2, <1>3, Zenon DEF ModuleInv

\* A call that fails counts, and only ever more.
LEMMA FaultCounts ==
  ASSUME missed \in Nat, ListFault \/ UNCHANGED missed
  PROVE  missed' \in Nat /\ (missed' = 0 => missed = 0) /\ (ListFault => missed' # 0)
  BY SMT DEF ListFault

\* A step that leaves nothing in progress, and tells a failure or a truth.
LEMMA TellStep ==
  ASSUME ModuleInv, UNCHANGED table, request' = NoRequest, ListFault \/ UNCHANGED missed,
         ToldOk(table, told', missed')
  PROVE  ModuleInv'
  <1>1. missed' \in Nat
    BY FaultCounts, Zenon DEF ModuleInv
  <1>2. request'.pc = "idle"
    BY Zenon DEF NoRequest
  <1>3. RequestOk(table', request', missed')
    BY <1>2, Zenon DEF RequestOk
  <1> QED  BY <1>1, <1>3, Zenon DEF ModuleInv

\* A step that asks on and tells nothing yet.
LEMMA AskStep ==
  ASSUME ModuleInv, UNCHANGED <<table, told>>, ListFault \/ UNCHANGED missed,
         RequestOk(table, request', missed')
  PROVE  ModuleInv'
  <1>1. missed' \in Nat /\ (missed' = 0 => missed = 0)
    BY FaultCounts, Zenon DEF ModuleInv
  <1>2. ToldOk(table, told, missed')
    BY <1>1, Zenon DEF ModuleInv, ToldOk
  <1> QED  BY <1>1, <1>2, Zenon DEF ModuleInv

\* A failure tells nothing of any module.
LEMMA FailedStep ==
  ASSUME ModuleInv, UNCHANGED table, ListFault \/ UNCHANGED missed, ListFailed
  PROVE  ModuleInv'
  <1>1. told'.kind = "failed" /\ request' = NoRequest
    BY Zenon DEF ListFailed
  <1>2. told'.kind # "list" /\ told'.kind # "nowhere" /\ told'.kind \notin {"module", "identity"} /\ told'.kind # "pdb"
    BY <1>1, Zenon
  <1>3. ToldOk(table, told', missed')
    BY <1>2, Zenon DEF ToldOk
  <1> QED  BY <1>1, <1>3, TellStep, Zenon

\* A listing begins with one of the two tables, at its place in the index space.
LEMMA RangeStep ==
  ASSUME ModuleInv, modules \/ unloaded_modules
  PROVE  ModuleInv'
  <1>0. table \in ModuleTables /\ missed \in Nat
    BY Zenon DEF ModuleInv
  <1>1. PICK of, start, count :
          /\ \/ of = "loaded" /\ start = 0 /\ count = Len(table.loaded)
             \/ of = "unloaded" /\ start = Len(table.loaded) /\ count = Len(table.unloaded)
          /\ module_range(of, start, count)
    BY Zenon DEF modules, unloaded_modules
  <1>2. UNCHANGED table /\ request = NoRequest
    BY <1>1, Zenon DEF module_range, AtRest
  <1>c. count \in Nat
    BY <1>0, <1>1, SpaceFacts, Zenon
  <1>3. CASE count = 0
    <2>1. /\ told' = [kind |-> "list", of |-> of, start |-> start, modules |-> <<>>]
          /\ UNCHANGED <<request, missed>>
      BY <1>1, <1>3, Zenon DEF module_range
    <2>2. told'.kind = "list" /\ told'.of = of /\ told'.modules = <<>>
      BY <2>1, Zenon
    <2>3. Len(told'.modules) = 0 /\ DOMAIN told'.modules = {}
      BY <2>2
    <2>4. table[of] = table.loaded \/ table[of] = table.unloaded
      BY <1>1, Zenon
    <2>5. Len(table[of]) = 0
      BY <1>1, <1>3, Zenon
    <2>6. told'.kind # "nowhere" /\ told'.kind \notin {"module", "identity"} /\ told'.kind # "pdb"
      BY <2>2, Zenon
    <2>7. ToldOk(table, told', missed')
      BY <2>2, <2>3, <2>5, <2>6, ZenonT(40) DEF ToldOk
    <2> QED  BY <1>2, <2>1, <2>7, TellStep, Zenon
  <1>4. CASE count # 0 /\ ListFault /\ ListFailed
    BY <1>2, <1>4, FailedStep, Zenon
  <1>5. CASE /\ request' = [pc |-> "names", of |-> of, start |-> start, count |-> count, modules |-> <<>>]
             /\ UNCHANGED <<told, missed>>
    <2>1. /\ DOMAIN request' = {"pc", "of", "start", "count", "modules"} /\ request'.pc = "names"
          /\ request'.of = of /\ request'.start = start /\ request'.count = count /\ request'.modules = <<>>
      BY <1>5, Zenon
    <2>2. /\ IsSeq(request'.modules) /\ DOMAIN request'.modules = {}
          /\ Len(request'.modules) <= request'.count
      <3>1. IsSeq(<<>>) /\ DOMAIN <<>> = {} /\ Len(<<>>) = 0
        BY DEF IsSeq
      <3>2. 0 <= count
        BY <1>c, SMT
      <3> QED  BY <2>1, <3>1, <3>2, Zenon
    <2>3. ListingOk(table, request', missed')
      BY <1>1, <2>1, <2>2, ZenonT(40) DEF ListingOk
    <2>4. RequestOk(table, request', missed')
      BY <2>1, <2>3, Zenon DEF RequestOk
    <2> QED  BY <1>2, <1>5, <2>4, AskStep, Zenon
  <1> QED  BY <1>1, <1>3, <1>4, <1>5, Zenon DEF module_range

\* A sequence r that has m after what s has.
Appended(s, m, r) ==
  /\ IsSeq(r)
  /\ Len(s) \in Nat /\ Len(r) = Len(s) + 1
  /\ DOMAIN r = 1 .. Len(s) + 1 /\ DOMAIN s = 1 .. Len(s)
  /\ r[Len(s) + 1] = m
  /\ \A n \in 1 .. Len(s) : r[n] = s[n]

\* Appending one more module keeps those already listed.
LEMMA AppendFacts ==
  ASSUME NEW s, IsSeq(s), NEW m
  PROVE  Appended(s, m, Append(s, m))
  <1> DEFINE M == Range(s) \cup {m}
             r == Append(s, m)
  <1>1. s \in Seq(M)
    BY SeqWider, Zenon DEF IsSeq
  <1> HIDE DEF M
  <1>2. m \in M
    BY Zenon DEF M
  <1>3. /\ Len(s) \in Nat /\ Len(r) = Len(s) + 1
        /\ DOMAIN r = 1 .. Len(s) + 1 /\ DOMAIN s = 1 .. Len(s)
        /\ r[Len(s) + 1] = m
        /\ \A n \in 1 .. Len(s) : r[n] = s[n]
    BY <1>1, <1>2, SMT
  <1>4. r \in Seq(M)
    BY <1>1, <1>2, SMT
  <1> HIDE DEF r
  <1>5. r \in Seq(Range(r))
    <2>1. r = [i \in 1 .. Len(r) |-> r[i]] /\ Len(r) \in Nat /\ DOMAIN r = 1 .. Len(r)
      BY <1>4, SMT
    <2>2. \A i \in 1 .. Len(r) : r[i] \in Range(r)
      BY <2>1, Zenon DEF Range
    <2> DEFINE R == Range(r)
    <2> HIDE DEF R
    <2>3. \A i \in 1 .. Len(r) : r[i] \in R
      BY <2>2, Zenon DEF R
    <2>4. r \in Seq(R)
      BY <2>1, <2>3
    <2> QED  BY <2>4, Zenon DEF R
  <1> QED  BY <1>3, <1>5, Zenon DEF r, IsSeq, Appended

\* A listing goes on with the module at the next index, under its own name, and is
\* told once it has them all.
LEMMA NameEachStep ==
  ASSUME ModuleInv, NameEach
  PROVE  ModuleInv'
  <1>0. /\ table \in ModuleTables /\ missed \in Nat /\ request.pc = "names" /\ UNCHANGED table
        /\ ListingOk(table, request, missed)
    BY Zenon DEF ModuleInv, NameEach, RequestOk
  <1> DEFINE s == request.modules
             offset == Len(s)
  <1>1. /\ DOMAIN request = {"pc", "of", "start", "count", "modules"}
        /\ IsSeq(s) /\ offset <= request.count
        /\ \A n \in DOMAIN s : ModuleOf(table, s[n], request.start + n - 1)
        /\ missed = 0 => \A n \in DOMAIN s : s[n].name # ""
    BY <1>0, Zenon DEF ListingOk
  <1>2. \/ request.of = "loaded" /\ request.start = 0 /\ request.count = Len(table.loaded)
        \/ request.of = "unloaded" /\ request.start = Len(table.loaded) /\ request.count = Len(table.unloaded)
    BY <1>0, Zenon DEF ListingOk
  <1>3. Len(table.loaded) \in Nat /\ Len(table.unloaded) \in Nat
    BY <1>0, SpaceFacts, Zenon
  <1>4. offset \in Nat /\ offset <= request.count
    <2>1. Appended(s, 0, Append(s, 0))
      BY <1>1, AppendFacts, Zenon
    <2> QED  BY <1>1, <2>1, Zenon DEF Appended
  <1>5. CASE offset = request.count
    <2>1. /\ told' = [kind |-> "list", of |-> request.of, start |-> request.start, modules |-> s]
          /\ request' = NoRequest /\ UNCHANGED missed
      BY <1>5, Zenon DEF NameEach
    <2>2. told'.kind = "list" /\ told'.of = request.of /\ told'.start = request.start /\ told'.modules = s
      BY <2>1, Zenon
    <2>3. Len(table[request.of]) = request.count
      BY <1>2, Zenon
    <2>4. told'.kind # "nowhere" /\ told'.kind \notin {"module", "identity"} /\ told'.kind # "pdb"
      BY <2>2, Zenon
    <2>5. ToldOk(table, told', missed')
      BY <1>1, <1>5, <2>1, <2>2, <2>3, <2>4, Zenon DEF ToldOk
    <2> QED  BY <1>0, <2>1, <2>5, TellStep, Zenon
  <1>6. CASE offset # request.count
    <2> DEFINE i == request.start + offset
               m(reads) == named_module(i, At(i), reads)
               r(reads) == Append(s, m(reads))
    <2>1. PICK reads \in BOOLEAN :
            /\ IF reads THEN UNCHANGED missed ELSE ListFault
            /\ request' = [request EXCEPT !.modules = r(reads)]
            /\ UNCHANGED told
      BY <1>6, Zenon DEF NameEach, IndexOfName
    <2>2. i \in 0 .. Len(table.loaded) + Len(table.unloaded) - 1
      <3> HIDE DEF offset
      <3> DEFINE l == Len(table.loaded)
                 u == Len(table.unloaded)
      <3> HIDE DEF l, u
      <3>1. l \in Nat /\ u \in Nat
        BY <1>3, Zenon DEF l, u
      <3>2. ASSUME request.start = 0 /\ request.count = l PROVE i \in 0 .. l + u - 1
        BY <1>4, <1>6, <3>1, <3>2
      <3>3. ASSUME request.start = l /\ request.count = u PROVE i \in 0 .. l + u - 1
        BY <1>4, <1>6, <3>1, <3>3
      <3> QED  BY <1>2, <3>2, <3>3, Zenon DEF l, u
    <2>3. At(i).name # "" /\ At(i).sizes \in Nat
      BY <1>0, <2>2, SpaceFacts, Zenon
    <2>4. ModuleOf(table, m(reads), i) /\ (reads => m(reads).name # "")
      BY <2>3, NamedIsOf, Zenon
    <2> HIDE DEF m
    <2>5. /\ IsSeq(r(reads))
          /\ Len(r(reads)) = offset + 1
          /\ DOMAIN r(reads) = 1 .. offset + 1 /\ DOMAIN s = 1 .. offset
          /\ r(reads)[offset + 1] = m(reads)
          /\ \A n \in 1 .. offset : r(reads)[n] = s[n]
      <3>1. Appended(s, m(reads), r(reads))
        BY <1>1, AppendFacts, Zenon
      <3> HIDE DEF r
      <3> QED  BY <3>1, Zenon DEF Appended
    <2> HIDE DEF r
    <2>6. /\ DOMAIN request' = DOMAIN request /\ request'.pc = request.pc /\ request'.of = request.of
          /\ request'.start = request.start /\ request'.count = request.count /\ request'.modules = r(reads)
      <3>1. DOMAIN request = {"pc", "of", "start", "count", "modules"}
        BY <1>1, Zenon
      <3> QED  BY <3>1, <2>1, Zenon
    <2>7. offset + 1 <= request.count
      <3>1. request.count \in Nat
        BY <1>2, <1>3, Zenon
      <3> HIDE DEF offset
      <3> QED  BY <1>4, <1>6, <3>1
    <2>8. \A n \in DOMAIN r(reads) : n \in DOMAIN s \/ n = offset + 1
      <3> HIDE DEF offset
      <3> QED  BY <1>4, <2>5
    <2>9. ASSUME NEW n \in DOMAIN r(reads) PROVE ModuleOf(table, r(reads)[n], request.start + n - 1)
      <3>1. CASE n \in DOMAIN s
        BY <1>1, <2>5, <3>1, Zenon
      <3>2. CASE n = offset + 1
        <4>1. request.start + n - 1 = i
          <5>1. request.start \in Nat
            BY <1>2, <1>3
          <5> HIDE DEF offset
          <5> QED  BY <1>4, <3>2, <5>1
        <4> HIDE DEF i
        <4> QED  BY <2>4, <2>5, <3>2, <4>1, Zenon
      <3> QED  BY <2>8, <3>1, <3>2, Zenon
    <2>10. missed' = 0 => \A n \in DOMAIN r(reads) : r(reads)[n].name # ""
      <3> SUFFICES ASSUME missed' = 0, NEW n \in DOMAIN r(reads) PROVE r(reads)[n].name # ""
        BY Zenon
      <3>1. reads /\ missed = 0
        BY <1>0, <2>1, FaultCounts, Zenon
      <3>2. CASE n \in DOMAIN s
        BY <1>1, <2>5, <3>1, <3>2, Zenon
      <3>3. CASE n = offset + 1
        BY <2>4, <2>5, <3>1, <3>3, Zenon
      <3> QED  BY <2>8, <3>2, <3>3, Zenon
    <2>11. ListingOk(table, request', missed')
      BY <1>1, <1>2, <2>5, <2>6, <2>7, <2>9, <2>10, Zenon DEF ListingOk
    <2>12. request'.pc = "names"
      BY <1>0, <2>6, Zenon
    <2>13. RequestOk(table, request', missed')
      BY <2>11, <2>12, Zenon DEF RequestOk
    <2>14. ListFault \/ UNCHANGED missed
      BY <2>1, Zenon
    <2> QED  BY <1>0, <2>1, <2>13, <2>14, AskStep, Zenon
  <1> QED  BY <1>5, <1>6, Zenon

\* A request for the parameters of a loaded module, found by name or by address.
LEMMA FoundStep ==
  ASSUME ModuleInv, UNCHANGED <<table, told, missed>>, NEW i \in Loaded, NEW by, by = i, NEW then,
         request' = [pc |-> "parameters", index |-> i, by |-> by, then |-> then]
  PROVE  ModuleInv'
  <1>1. request'.pc = "parameters" /\ request'.index = i /\ request'.by = by
    BY Zenon
  <1>2. i \in 0 .. Len(table.loaded) - 1
    BY Zenon DEF Loaded
  <1>3. request'.pc # "names" /\ request'.pc # "symbol_file"
    BY <1>1, Zenon
  <1>4. RequestOk(table, request', missed')
    BY <1>1, <1>2, <1>3, Zenon DEF RequestOk
  <1> QED  BY <1>4, AskStep, Zenon

\* An address is found in a loaded module, or in none where none holds it.
LEMMA ModuleAtStep ==
  ASSUME ModuleInv, NEW address, module_at(address)
  PROVE  ModuleInv'
  <1>0. UNCHANGED table /\ request = NoRequest
    BY Zenon DEF module_at, AtRest
  <1>1. ASSUME NEW i \in Loaded,
               request' = [pc |-> "parameters", index |-> i, by |-> i, then |-> "module"], UNCHANGED <<told, missed>>
        PROVE  ModuleInv'
    BY <1>0, <1>1, FoundStep, Zenon
  <1>2. CASE /\ ~\E i \in Loaded : Holds(i, address)
             /\ told' = [kind |-> "nowhere", address |-> address] /\ UNCHANGED <<request, missed>>
    <2>1. told'.kind = "nowhere" /\ told'.address = address
      BY <1>2, Zenon
    <2>2. told'.kind # "list" /\ told'.kind \notin {"module", "identity"} /\ told'.kind # "pdb"
      BY <2>1, Zenon
    <2>3. ToldOk(table, told', missed')
      BY <1>2, <2>1, <2>2, Zenon DEF ToldOk, Loaded, Holds, At, Space
    <2> QED  BY <1>0, <1>2, <2>3, TellStep, Zenon
  <1>3. CASE ListFault /\ told' = Broke(address) /\ UNCHANGED request
    <2>1. ListFailed
      BY <1>0, <1>3, Zenon DEF ListFailed, Broke
    <2> QED  BY <1>0, <1>3, <2>1, FailedStep, Zenon
  <1> QED  BY <1>1, <1>2, <1>3, Zenon DEF module_at

\* A module found by name is the one its base gives back.
LEMMA ModuleStep ==
  ASSUME ModuleInv, NEW name, NEW then, module(name, then)
  PROVE  ModuleInv'
  <1>0. UNCHANGED table /\ table \in ModuleTables
    BY Zenon DEF module, ModuleInv
  <1>1. ASSUME NEW i \in Loaded,
               request' = [pc |-> "parameters", index |-> i, by |-> ByBase(i), then |-> then],
               UNCHANGED <<told, missed>>
        PROVE  ModuleInv'
    <2>1. ByBase(i) \in Loaded /\ At(ByBase(i)).base = At(i).base
      BY Zenon DEF ByBase
    <2>2. ByBase(i) = i
      BY <1>0, <2>1, BasesDistinct, Zenon
    <2> QED  BY <1>0, <1>1, <2>2, FoundStep, Zenon
  <1>2. CASE ListFailed /\ (ListFault \/ UNCHANGED missed)
    BY <1>0, <1>2, FailedStep, Zenon
  <1> QED  BY <1>1, <1>2, Zenon DEF module

\* The parameters read by base and the names read by index are of one module.
LEMMA ParametersStep ==
  ASSUME ModuleInv, Parameters
  PROVE  ModuleInv'
  <1>0. /\ UNCHANGED table /\ request.index \in 0 .. Len(table.loaded) - 1 /\ request.by = request.index
    BY Zenon DEF Parameters, ModuleInv, RequestOk
  <1>1. CASE ListFault /\ ListFailed
    BY <1>0, <1>1, FailedStep, Zenon
  <1>2. ASSUME NEW reads \in BOOLEAN,
               IF reads THEN UNCHANGED missed ELSE ListFault,
               NEW m, m = named_module(request.index, At(request.by), reads),
               IF request.then = "module"
               THEN told' = [kind |-> "module", module |-> m, index |-> request.index] /\ request' = NoRequest
               ELSE request' = [pc |-> "symbol_file", module |-> m, index |-> request.index] /\ UNCHANGED told
        PROVE  ModuleInv'
    <2>0. ListFault \/ UNCHANGED missed
      BY <1>2, Zenon
    <2>1. ModuleOf(table, m, request.index)
      BY <1>0, <1>2, NamedIsOf, Zenon
    <2>2. CASE told' = [kind |-> "module", module |-> m, index |-> request.index] /\ request' = NoRequest
      <3>1. told'.kind = "module" /\ told'.module = m /\ told'.index = request.index
        BY <2>2, Zenon
      <3>2. told'.kind # "list" /\ told'.kind # "nowhere" /\ told'.kind # "pdb" /\ told'.kind # "identity"
        BY <3>1, Zenon
      <3>3. ToldOk(table, told', missed')
        BY <2>1, <3>1, <3>2, Zenon DEF ToldOk
      <3> QED  BY <1>0, <2>0, <2>2, <3>3, TellStep, Zenon
    <2>3. CASE request' = [pc |-> "symbol_file", module |-> m, index |-> request.index] /\ UNCHANGED told
      <3>1. request'.pc = "symbol_file" /\ request'.module = m /\ request'.index = request.index
        BY <2>3, Zenon
      <3>2. request'.pc # "names" /\ request'.pc # "parameters"
        BY <3>1, Zenon
      <3>3. RequestOk(table, request', missed')
        BY <1>0, <2>1, <3>1, <3>2, Zenon DEF RequestOk
      <3> QED  BY <1>0, <2>0, <2>3, <3>3, AskStep, Zenon
    <2> QED  BY <1>2, <2>2, <2>3, Zenon
  <1> QED  BY <1>1, <1>2, Zenon DEF Parameters

\* The symbol file found by base is that of the module asked about.
LEMMA SymbolFileStep ==
  ASSUME ModuleInv, module_symbol_file
  PROVE  ModuleInv'
  <1>0. /\ UNCHANGED table /\ table \in ModuleTables /\ request.index \in Loaded
        /\ ModuleOf(table, request.module, request.index)
    BY Zenon DEF module_symbol_file, ModuleInv, RequestOk, Loaded
  <1>1. CASE ListFault /\ ListFailed
    BY <1>0, <1>1, FailedStep, Zenon
  <1>2. ASSUME NEW i \in Loaded, At(i).base = request.module.base,
               told' = [kind |-> "identity", module |-> request.module, index |-> request.index, file |-> At(i).file],
               request' = NoRequest, UNCHANGED missed
        PROVE  ModuleInv'
    <2>1. At(i).base = At(request.index).base
      BY <1>0, <1>2, Zenon DEF ModuleOf, At, Space
    <2>2. i = request.index
      BY <1>0, <2>1, BasesDistinct, Zenon
    <2>3. /\ told'.kind = "identity" /\ told'.module = request.module /\ told'.index = request.index
          /\ told'.file = At(i).file
      BY <1>2, Zenon
    <2>4. told'.kind # "list" /\ told'.kind # "nowhere" /\ told'.kind # "pdb"
      BY <2>3, Zenon
    <2>5. ToldOk(table, told', missed')
      BY <1>0, <2>2, <2>3, <2>4, Zenon DEF ToldOk, At, Space
    <2> QED  BY <1>0, <1>2, <2>5, TellStep, Zenon
  <1> QED  BY <1>1, <1>2, Zenon DEF module_symbol_file

\* What is said of a PDB is what the engine holds of it.
LEMMA PdbStep ==
  ASSUME ModuleInv, NEW i, module_pdb(i)
  PROVE  ModuleInv'
  <1>0. UNCHANGED table /\ request' = NoRequest
    BY Zenon DEF module_pdb, AtRest
  <1>1. CASE ListFault /\ told' = PdbBroke(i)
    <2>1. ListFailed
      BY <1>0, <1>1, Zenon DEF ListFailed, PdbBroke
    <2> QED  BY <1>0, <1>1, <2>1, FailedStep, Zenon
  <1>2. CASE told' = [kind |-> "pdb", index |-> i, signature |-> At(i).signature] /\ UNCHANGED missed
    <2>1. told'.kind = "pdb" /\ told'.index = i /\ told'.signature = At(i).signature
      BY <1>2, Zenon
    <2>2. told'.kind # "list" /\ told'.kind # "nowhere" /\ told'.kind \notin {"module", "identity"}
      BY <2>1, Zenon
    <2>3. ToldOk(table, told', missed')
      BY <2>1, <2>2, Zenon DEF ToldOk, At, Space
    <2> QED  BY <1>0, <1>2, <2>3, TellStep, Zenon
  <1> QED  BY <1>1, <1>2, Zenon DEF module_pdb

\* Every step keeps the invariant.
LEMMA ModuleNextInv ==
  ASSUME ModuleInv, [ModuleNext]_moduleVars
  PROVE  ModuleInv'
  <1>1. CASE UNCHANGED moduleVars
    BY <1>1, Zenon DEF moduleVars, ModuleInv
  <1>2. CASE CountFails
    BY <1>2, FailedStep, Zenon DEF CountFails
  <1> QED
    BY <1>1, <1>2, RangeStep, NameEachStep, ParametersStep, SymbolFileStep, ModuleAtStep, ModuleStep, PdbStep, Zenon
    DEF ModuleNext

(* What is said of a module is said of one module, under its own name, and no    *)
(* module, name or PDB is said to be missing because a call failed, for any      *)
(* tables of modules and any calls that fail.                                    *)
THEOREM ModulesSoundHolds == ModuleSpec => []ModulesSound
  <1>1. ModuleInit => ModuleInv
    BY ModuleInitInv, Zenon
  <1>2. ModuleInv /\ [ModuleNext]_moduleVars => ModuleInv'
    BY ModuleNextInv, Zenon
  <1>3. ModuleInv => ModulesSound
    BY ModuleInvSound, Zenon
  <1> QED  BY <1>1, <1>2, <1>3, PTL DEF ModuleSpec
=============================================================================
