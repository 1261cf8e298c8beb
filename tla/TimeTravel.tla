----------------------------- MODULE TimeTravel -----------------------------
(***************************************************************************)
(* A run on a recorded trace that is cut short.  The replay engine does    *)
(* not leave such a run where it had got to but at a place of its own      *)
(* choosing, past breakpoints it never reported, so the run is put back    *)
(* to where it started and the landing is read back before it is believed. *)
(***************************************************************************)
EXTENDS Integers, FiniteSets

CONSTANTS
  TraceEnd,       \* a trace's positions are 0 .. TraceEnd
  Ip, ThreadAt,   \* the instruction and the thread at each position
  Stops,          \* the positions breakpoints are at
  RunAddress,     \* where run_to_address is asked to go
  MaxReplayFaults \* a bound of the instance: model and engine calls that may fail

ASSUME TraceAssumption == TraceEnd \in Nat

VARIABLES
  replay,         \* the target: whether it is a trace, its position and thread, a break left pending
  run,            \* the run in progress
  landing,        \* where the run says it left the replay
  outcome,        \* what the run answered
  odd             \* how many calls have failed or strayed

replayVars == <<replay, run, landing, outcome, odd>>

NoRun == [pc |-> "idle"]
NoLanding == [kind |-> "none"]
ReplayInit ==
  /\ \E trace \in BOOLEAN, at \in 0 .. TraceEnd :
       replay = [trace |-> trace, pos |-> at, thread |-> ThreadAt[at], pending |-> FALSE]
  /\ run = NoRun /\ landing = NoLanding /\ outcome = "none" /\ odd = 0

Odd == odd < MaxReplayFaults /\ odd' = odd + 1
Unread == -1
(* A position is two intrinsic values of the data model; a variant that is not an integer, or a   *)
(* negative one, is refused.                                                                      *)
model_u64(variant, n) == IF variant = "integer" /\ n >= 0 THEN n ELSE Unread
ttd_position(answers) ==
  IF ~replay.trace THEN Unread
  ELSE IF answers THEN model_u64("integer", replay.pos) ELSE model_u64("other", replay.pos)

(* ttd_position: where the type cannot be read the model is asked for a trace session instead,   *)
(* and failing that too the target is taken for no trace.                                         *)
Mark(kind, pos, thread) == [kind |-> kind, pos |-> pos, thread |-> thread]
NotAReplay == Mark("NotAReplay", Unread, Unread)
Unmarked == Mark("Unread", Unread, Unread)
(* replay_mark: the position and the thread a run starts from. *)
Marks ==
  IF ~replay.trace THEN {<<0, NotAReplay>>}
  ELSE {<<0, Mark("Read", ttd_position(TRUE), replay.thread)>>, <<1, Unmarked>>,
        <<1, Mark("Read", ttd_position(TRUE), Unread)>>, <<2, NotAReplay>>}
replay_mark(mode) ==
  /\ run.pc = "idle" /\ outcome = "none"
  /\ \E m \in Marks :
       /\ odd + m[1] <= MaxReplayFaults /\ odd' = odd + m[1]
       /\ run' = [pc |-> "marked", mode |-> mode, mark |-> m[2], from |-> replay.pos, on |-> replay.thread]
  /\ UNCHANGED <<replay, landing, outcome>>

Ahead(pos) == {p \in pos + 1 .. TraceEnd : p \in Stops \/ (run.mode = "run_to" /\ Ip[p] = RunAddress)}
NextStop(pos) == IF Ahead(pos) = {} THEN TraceEnd ELSE CHOOSE p \in Ahead(pos) : \A q \in Ahead(pos) : p <= q
Moved(pos) == [replay EXCEPT !.pos = pos, !.thread = ThreadAt[pos]]

Stopped(cut, pos) ==
  run' = [pc |-> "stopped", mode |-> run.mode, mark |-> run.mark, from |-> run.from, on |-> run.on, cut |-> cut,
          at |-> pos, landed |-> FALSE]
(* The target runs to its first stop, as the bound passes or a host asks or neither. *)
Stop ==
  /\ run.pc = "marked"
  /\ \E cut \in {"none", "Deadline", "OnRequest"} : Stopped(cut, NextStop(replay.pos))
  /\ replay' = Moved(NextStop(replay.pos))
  /\ UNCHANGED <<landing, outcome, odd>>
(* It is broken in: a live target where it had got to, a trace at its end or a breakpoint.  The   *)
(* watchdog may have broken in once more.                                                         *)
CutShort ==
  /\ run.pc = "marked"
  /\ \E cut \in {"Deadline", "OnRequest"}, pending \in BOOLEAN,
        pos \in IF replay.trace THEN {TraceEnd, replay.pos} \cup Ahead(replay.pos)
                ELSE replay.pos .. NextStop(replay.pos) - 1 :
       replay' = [Moved(pos) EXCEPT !.pending = pending] /\ Stopped(cut, pos)
  /\ UNCHANGED <<landing, outcome, odd>>
(* A target that goes away, and a call that fails, end the run with nothing put back. *)
Abort ==
  /\ run.pc = "marked"
  /\ \/ ~replay.trace /\ outcome' = "TargetGone" /\ UNCHANGED odd
     \/ Odd /\ outcome' = "Failed"
  /\ run' = NoRun
  /\ UNCHANGED <<replay, landing>>

(* run_to_address: a break that landed on the address is a hit.  The pointer is read once, before *)
(* the travel, and one that cannot be read is no clean stop.                                      *)
AtAddress == run.mode = "run_to" /\ Ip[replay.pos] = RunAddress
Judge ==
  /\ run.pc = "stopped"
  /\ \E reads \in BOOLEAN :
       /\ IF reads THEN UNCHANGED odd ELSE run.mode = "run_to" /\ run.cut # "none" /\ Odd
       /\ LET hit == run.cut # "none" /\ reads /\ AtAddress
          IN run' = [run EXCEPT !.landed = hit, !.pc = IF run.cut # "none" /\ ~hit THEN "cut" ELSE "answer"]
  /\ UNCHANGED <<replay, landing, outcome>>
(* The break is consumed before the travel, so that it cannot be what a stale one lands on. *)
Consume_not == replay
Consume == [replay EXCEPT !.pending = FALSE]
SeekTo ==
  /\ run.pc = "cut"
  /\ LET r == Consume
     IN IF run.mark.kind # "Read" THEN replay' = r /\ run' = [run EXCEPT !.pc = "sought"] /\ UNCHANGED odd
        ELSE \/ /\ replay' = IF r.pending THEN [r EXCEPT !.pending = FALSE]
                             ELSE [r EXCEPT !.pos = run.mark.pos, !.thread = ThreadAt[run.mark.pos]]
                /\ run' = [run EXCEPT !.pc = "sought"] /\ UNCHANGED odd
             \/ /\ Odd   \* it fails, or arrives at another moment, or on another thread
                /\ \/ replay' = r
                   \/ \E p \in 0 .. TraceEnd : replay' = [r EXCEPT !.pos = p, !.thread = ThreadAt[p]]
                   \/ \E t \in {ThreadAt[p] : p \in 0 .. TraceEnd} :
                        replay' = [r EXCEPT !.pos = run.mark.pos, !.thread = t]
                /\ run' = [run EXCEPT !.pc = "sought"]
  /\ UNCHANGED <<landing, outcome>>
(* rewind_replay: anything short of the position and the thread both matching is not rewound. *)
confirmed(now, on) == now = run.mark.pos /\ on = run.mark.thread
PositionReadBack ==
  /\ run.pc = "sought"
  /\ \E answers \in BOOLEAN, names \in BOOLEAN :
       /\ IF answers /\ names THEN UNCHANGED odd ELSE Odd
       /\ LET now == ttd_position(answers)
              on == IF names THEN replay.thread ELSE Unread
          IN landing' = CASE run.mark.kind = "NotAReplay" -> NoLanding
                          [] run.mark.kind = "Unread" -> [kind |-> "NotRewound", from |-> Unread, left_at |-> now]
                          [] OTHER -> IF confirmed(now, on) THEN [kind |-> "Rewound", to |-> run.mark.pos]
                                      ELSE [kind |-> "NotRewound", from |-> run.mark.pos, left_at |-> now]
  /\ run' = [run EXCEPT !.pc = "answer"]
  /\ UNCHANGED <<replay, outcome>>
(* An answer reads the pointer again: it is then where the run was put back to. *)
Hits == AtAddress /\ landing = NoLanding
ReplayAnswer ==
  /\ run.pc = "answer"
  /\ outcome' = IF run.mode = "go" THEN "run"
                ELSE IF run.cut = "Deadline" THEN IF run.landed THEN "Hit" ELSE "Timeout"
                ELSE IF Hits THEN "Hit" ELSE "StoppedElsewhere"
  /\ run' = [run EXCEPT !.pc = "over"]
  /\ UNCHANGED <<replay, landing, odd>>

ReplayNext ==
  \/ \E mode \in {"go", "run_to"} : replay_mark(mode)
  \/ Stop \/ CutShort \/ Abort \/ Judge \/ SeekTo \/ PositionReadBack \/ ReplayAnswer
ReplaySpec == ReplayInit /\ [][ReplayNext]_replayVars

--------------------------------------------------------------------------------
(* A run said to have been put back is at the position it started from, and on its thread where   *)
(* the thread could be read before the run: every register read after it is of that moment.       *)
RewoundIsThere ==
  landing.kind = "Rewound" =>
    /\ replay.pos = run.from /\ landing.to = run.from
    /\ run.mark.thread # Unread => replay.thread = run.on

(* A run cut short on a trace is put back unless some call failed: going on from there reaches    *)
(* the first breakpoint ahead, and none was passed without a hit.                                 *)
CutIsPutBack ==
  run.pc = "over" /\ replay.trace /\ run.cut # "none" /\ outcome # "Hit" /\ odd = 0 =>
    landing.kind = "Rewound" /\ NextStop(replay.pos) = NextStop(run.from)

(* One call that fails does not make a trace pass for a target that is none: a run cut short on   *)
(* it says that breakpoints may have been skipped.                                                *)
LandingSaid ==
  run.pc = "over" /\ replay.trace /\ run.cut # "none" /\ outcome # "Hit" /\ odd <= 1 => landing.kind # "none"

(* A hit is where the run itself stopped, at the address: never where it was put back to, though  *)
(* it started there.                                                                              *)
HitIsTheStop == outcome = "Hit" => Ip[replay.pos] = RunAddress /\ replay.pos = run.at /\ landing = NoLanding

(* Where a run on a trace ended is where it is said to have ended: put back where it started, or  *)
(* said to have passed breakpoints, and a hit only where the run itself stopped.                  *)
ReplayHonest ==
  /\ RewoundIsThere
  /\ CutIsPutBack
  /\ LandingSaid
  /\ HitIsTheStop
=============================================================================
