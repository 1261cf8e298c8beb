--------------------------------- MODULE Flows ---------------------------------
(***************************************************************************)
(* What an instruction does to control flow, as a tuple: its class and,    *)
(* for a transfer, the destination it names or <<>>.                       *)
(***************************************************************************)
EXTENDS Sequences

(* Not reading an instruction is not there being none: a walk goes on past the first only. *)
falls_through(flow) == flow[1] \in {"Fallthrough", "Call", "Branch", "Unknown"}
TargetOf(flow) == IF flow[1] \in {"Call", "Jmp", "Branch"} THEN flow[2] ELSE <<>>
=============================================================================
