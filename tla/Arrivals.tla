------------------------------ MODULE Arrivals ------------------------------
(***************************************************************************)
(* The register of pending opens: `struct Arrivals` of dbgeng.rs.          *)
(*                                                                         *)
(* A process in the session is an entry <<engine id, pid>>.  Each open     *)
(* that has not been forgotten is a record in registration order: what it  *)
(* waits for, what it was given (`Claim`), the processes other opens were  *)
(* given before they finished, and whether its guard is gone.  The         *)
(* operators are the methods of the struct, used under one mutex.          *)
(***************************************************************************)
EXTENDS Integers, Sequences, FiniteSets

\* enum Claim: `Waiting`, `Departed`, and the entry itself for `Arrived`.
Waiting == <<>>
Departed == <<0>>

\* `Claim::held`.
Holds(pending, entry) == pending.claim = entry

\* enum Arrival: `Attached(pid)`, `Launched(Some(before))`, `Launched(None)`.
Attached(pid) == [kind |-> "Attached", pid |-> pid, before |-> {}]
Launched(before) == [kind |-> "Launched", pid |-> 0, before |-> before]
Unlisted == [kind |-> "Unlisted", pid |-> 0, before |-> {}]

NewArrivals == [minted |-> 0, pending |-> <<>>]

Slots(arrivals) == 1..Len(arrivals.pending)

\* The slot of an open, where it has one.
SlotOf(arrivals, id) == {i \in Slots(arrivals) : arrivals.pending[i].id = id}

-----------------------------------------------------------------------------

\* Whether entry is the process the open in slot i waits for.
wants(arrivals, i, entry, attached) ==
  LET p == arrivals.pending[i]
      others == {arrivals.pending[j] : j \in Slots(arrivals) \ {i}}
  IN  /\ entry \notin p.inherited
      /\ \A other \in others : ~Holds(other, entry)
      /\ \/ p.what.kind = "Attached" /\ p.what.pid = entry[2]
         \/ /\ p.what.kind = "Launched"
            /\ entry \notin p.what.before
            /\ entry[2] \notin attached
            /\ \A other \in others : ~(/\ other.claim = Waiting
                                       /\ other.what.kind = "Attached"
                                       /\ other.what.pid = entry[2])

\* Registers an open behind the ones before it.
register(arrivals, what) ==
  [minted  |-> arrivals.minted + 1,
   pending |-> Append(arrivals.pending,
                      [id |-> arrivals.minted + 1, what |-> what, claim |-> Waiting,
                       inherited |-> {}, abandoned |-> FALSE])]

\* The pid an open waits for, if it is an attach that is still registered.
attached_pid(arrivals, id) ==
  {arrivals.pending[i].what.pid :
     i \in {j \in SlotOf(arrivals, id) : arrivals.pending[j].what.kind = "Attached"}}

\* Mutant: the claim goes with its open and is inherited by nobody.
discardClaim(arrivals, id) ==
  IF SlotOf(arrivals, id) = {} THEN arrivals
  ELSE LET at == CHOOSE i \in SlotOf(arrivals, id) : TRUE
       IN  [arrivals EXCEPT !.pending =
              [i \in 1..(Len(arrivals.pending) - 1) |->
                 arrivals.pending[IF i < at THEN i ELSE i + 1]]]

\* Forgets an open outright; the opens still there inherit what it was given.
discard(arrivals, id) ==
  IF SlotOf(arrivals, id) = {} THEN arrivals
  ELSE LET at == CHOOSE i \in SlotOf(arrivals, id) : TRUE
           given == {arrivals.pending[at].claim} \ {Waiting, Departed}
       IN  [arrivals EXCEPT !.pending =
              [i \in 1..(Len(arrivals.pending) - 1) |->
                 LET p == arrivals.pending[IF i < at THEN i ELSE i + 1]
                 IN  [p EXCEPT !.inherited = @ \cup given]]]

\* Mutant: an abandoned launch loses its place.
forgetOutright(arrivals, id) == discard(arrivals, id)

\* Forgets an open whose guard is dropped; a launch that was given nothing keeps
\* its place, to absorb the process its create still produces.
forget(arrivals, id) ==
  IF \E i \in SlotOf(arrivals, id) : /\ arrivals.pending[i].claim = Waiting
                                     /\ arrivals.pending[i].what.kind = "Launched"
  THEN [arrivals EXCEPT !.pending =
          [i \in Slots(arrivals) |->
             [arrivals.pending[i] EXCEPT !.abandoned = @ \/ arrivals.pending[i].id = id]]]
  ELSE discard(arrivals, id)

\* Drops every claim and inheritance of a process the session does not hold.
forget_departed(arrivals, held) ==
  [arrivals EXCEPT !.pending =
     [i \in Slots(arrivals) |->
        LET p == arrivals.pending[i]
        IN  [p EXCEPT !.claim = IF @ \in held \cup {Waiting} THEN @ ELSE Departed,
                      !.inherited = @ \cap held]]]

forget_all(arrivals) == [arrivals EXCEPT !.pending = <<>>]

\* Routes a stop to the first open that waits and wants it.
Takers(arrivals, entry, attached) ==
  {i \in Slots(arrivals) : /\ arrivals.pending[i].claim = Waiting
                           /\ wants(arrivals, i, entry, attached)}

deliver(arrivals, entry, attached) ==
  LET takers == Takers(arrivals, entry, attached)
      first == CHOOSE i \in takers : \A j \in takers : i <= j
  IN  IF takers = {} THEN arrivals
      ELSE [arrivals EXCEPT !.pending[first].claim = entry]

\* Where the process an open waits for has got to, among the processes held.
presence(arrivals, id, held, attached) ==
  IF SlotOf(arrivals, id) = {} THEN "Absent"
  ELSE LET at == CHOOSE i \in SlotOf(arrivals, id) : TRUE
           p == arrivals.pending[at]
       IN  CASE p.claim # Waiting /\ p.claim \in held -> "Arrived"
             [] p.claim # Waiting /\ p.claim \notin held -> "Absent"
             [] p.claim = Waiting /\ p.what.kind = "Unlisted" -> "Unknown"
             [] p.claim = Waiting /\ p.what.kind # "Unlisted" ->
                  IF \E entry \in held : wants(arrivals, at, entry, attached)
                  THEN "Listed" ELSE "Absent"
=============================================================================
