-------------------------- MODULE AbstractWatchdog --------------------------
(***************************************************************************)
(* What a `Watchdog` (dbgeng.rs) promises its caller: it may raise breaks  *)
(* for as long as it is armed, none after `disarm` has answered, and the   *)
(* answer is whether it raised any.  Operations relies on exactly this.    *)
(***************************************************************************)
CONSTANT Dogs        \* the watchdogs

VARIABLES raised,    \* those that have raised a break
          report     \* "open" until disarmed; then "broke", "quiet" or "dropped"

Init == raised = {} /\ report = [d \in Dogs |-> "open"]

Raise(d) ==
  /\ report[d] = "open"
  /\ raised' = raised \cup {d}
  /\ UNCHANGED report

Disarm(d) ==
  /\ report[d] = "open"
  /\ report' = [report EXCEPT ![d] = IF d \in raised THEN "broke" ELSE "quiet"]
  /\ UNCHANGED raised

\* The guard is dropped without `disarm` (a panic in between): nobody is told.
Abandon(d) ==
  /\ report[d] = "open"
  /\ report' = [report EXCEPT ![d] = "dropped"]
  /\ UNCHANGED raised

Next == \E d \in Dogs : Raise(d) \/ Disarm(d) \/ Abandon(d)

Spec == Init /\ [][Next]_<<raised, report>>
=============================================================================
