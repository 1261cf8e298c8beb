-------------------------- MODULE OperationsProofs --------------------------
(***************************************************************************)
(* Proofs about Operations, for any number of operations, any kinds and    *)
(* any callbacks: the scope describes the guards that are alive, a request *)
(* is never erased, and what an operation reports is what happened to it.  *)
(***************************************************************************)
EXTENDS Operations, TLAPS

\* The phases before an operation has read what cut its call short.
Unread == {"begun", "primed", "issued", "armed", "inside", "back", "disarmed"}

\* The phases in which no watchdog of the operation has started.
Unarmed == {"unborn", "begun", "primed", "issued"}

\* Ids are minted in order.
MintedInv ==
  /\ scope.minted \in 0..MaxOps
  /\ \A o \in Ops : pc[o] = "unborn" <=> o > scope.minted

\* Nothing is reported before the read, no watchdog fired before it started,
\* only a kernel attach absorbs, a chunked walk makes no blocking call, and no
\* request names an operation still to come.
FreshInv ==
  /\ \A o \in Ops : pc[o] \in Unread \cup {"unborn"} => cut[o] = "none"
  /\ \A o \in Ops : pc[o] \in Unarmed => dog[o] # "fired"
  /\ \A o \in Ops : pc[o] = "absorb" => kind[o] = "attach"
  /\ \A o \in Ops : pc[o] \in Unread \ {"begun"} => kind[o] # "chunked"
  /\ \A o \in filed : pc[o] # "unborn"
  /\ scope.asked \subseteq filed

\* Whoever a standing break was raised for still knows of it: the request is
\* recorded, the watchdog has fired, or the report says so.
PendingInv ==
  \A o \in pending \cap Ops :
    /\ pc[o] # "unborn"
    /\ pc[o] \in Unread => o \in scope.asked \/ dog[o] = "fired"
    /\ pc[o] \in {"absorb", "read"} => o \in scope.asked \/ cut[o] # "none"
    /\ pc[o] = "read" /\ kind[o] = "chunked" /\ cut[o] = "Deadline" => o \in scope.asked
    /\ pc[o] = "done" /\ kind[o] \in Draining => o \in scope.asked
    /\ pc[o] = "ended" => kind[o] \notin Draining

\* The same for a call that a break of its own has ended.
BrokenInv ==
  \A o \in broken :
    /\ pc[o] \notin {"unborn", "begun", "primed", "issued", "armed", "inside"}
    /\ pc[o] \in {"back", "disarmed"} => o \in scope.asked \/ dog[o] = "fired"

Inv ==
  /\ TypeOK
  /\ ScopeMatchesGuards
  /\ MintedInv
  /\ FreshInv
  /\ RequestKept
  /\ AttributionHonest
  /\ OwnBreakReported
  /\ PendingInv
  /\ BrokenInv

-----------------------------------------------------------------------------
(* The stack.                                                              *)

Sorted(running) ==
  \A i, j \in 1..Len(running) : i < j => running[i] < running[j]

\* Opening an operation puts a new greatest id on the stack (`begin`).
LEMMA BeginLemma ==
  ASSUME NEW s \in Scope, Sorted(s.running),
         \A o \in Running(s) : o <= s.minted
  PROVE  /\ begin(s) \in Scope
         /\ begin(s).minted = s.minted + 1
         /\ begin(s).asked = s.asked
         /\ Running(begin(s)) = Running(s) \cup {s.minted + 1}
         /\ Sorted(begin(s).running)
<1> DEFINE r == s.running
           id == s.minted + 1
           t == Append(r, id)
<1>1. r \in Seq(Nat) /\ id \in Nat /\ s.asked \in SUBSET Nat /\ s.minted \in Nat
  BY DEF Scope
<1>2. t \in Seq(Nat) /\ Len(t) = Len(r) + 1 /\ t[Len(r) + 1] = id
      /\ \A i \in 1..Len(r) : t[i] = r[i]
  BY <1>1
<1>3. begin(s).minted = id /\ begin(s).running = t /\ begin(s).asked = s.asked
  BY Zenon DEF begin
<1>4. begin(s) \in Scope
  BY <1>1, <1>2, Zenon DEF begin, Scope
<1>5. {t[i] : i \in 1..Len(t)} = {r[i] : i \in 1..Len(r)} \cup {id}
  <2>1. Len(r) \in Nat
    BY <1>1
  <2>2. 1..Len(t) = 1..Len(r) \cup {Len(r) + 1}
    BY <1>2, <2>1
  <2> QED
    BY <1>2, <2>2
<1>6. \A i \in 1..Len(r) : r[i] < id
  <2> TAKE i \in 1..Len(r)
  <2>1. r[i] \in Running(s) /\ r[i] \in Nat
    BY <1>1 DEF Running
  <2> QED
    BY <2>1, <1>1, SMTT(30)
<1>7. Sorted(t)
  <2> SUFFICES ASSUME NEW i \in 1..Len(t), NEW j \in 1..Len(t), i < j
               PROVE  t[i] < t[j]
    BY Zenon DEF Sorted
  <2>1. i \in 1..Len(r)
    BY <1>1, <1>2
  <2>2. CASE j = Len(t)
    BY <2>1, <2>2, <1>2, <1>6, Zenon
  <2>3. CASE j # Len(t)
    <3>1. Len(t) = Len(r) + 1 /\ Len(r) \in Nat
      BY <1>1, <1>2
    <3>2. j \in 1..Len(r)
      BY <2>3, <3>1
    <3> QED
      BY <2>1, <3>2, <1>2, Zenon DEF Sorted
  <2> QED
    BY <2>2, <2>3, Zenon
<1> QED
  BY <1>3, <1>4, <1>5, <1>7, Zenon DEF Running

\* Closing an operation removes its id and nothing else (`Vec::retain`).
LEMMA WithoutLemma ==
  ASSUME NEW r \in Seq(Nat), NEW op \in Nat, Sorted(r)
  PROVE  /\ Without(r, op) \in Seq(Nat)
         /\ Sorted(Without(r, op))
         /\ {Without(r, op)[i] : i \in 1..Len(Without(r, op))}
              = {r[i] : i \in 1..Len(r)} \ {op}
<1>0. Len(r) \in Nat /\ \A i \in 1..Len(r) : r[i] \in Nat
  OBVIOUS
<1>1. CASE \E i \in 1..Len(r) : r[i] = op
  <2> DEFINE at == CHOOSE i \in 1..Len(r) : r[i] = op
             w == [i \in 1..(Len(r) - 1) |-> IF i < at THEN r[i] ELSE r[i + 1]]
  <2>1. at \in 1..Len(r) /\ r[at] = op
    BY <1>1, Zenon
  <2>2. Without(r, op) = w
    BY <1>1, Zenon DEF Without
  <2> HIDE DEF at
  <2>3. w \in Seq(Nat) /\ Len(w) = Len(r) - 1
    <3>1. \A i \in 1..(Len(r) - 1) : (IF i < at THEN r[i] ELSE r[i + 1]) \in Nat
      BY <1>0, <2>1
    <3>2. Len(r) - 1 \in Nat
      BY <1>0, <2>1
    <3> QED
      BY <3>1, <3>2
  <2>4. \A i, j \in 1..Len(r) : i < j => r[i] < r[j]
    BY Zenon DEF Sorted
  <2> DEFINE up(i) == IF i < at THEN i ELSE i + 1
  <2>u. \A i \in 1..(Len(r) - 1) :
          up(i) \in 1..Len(r) /\ up(i) # at /\ w[i] = r[up(i)]
    BY <1>0, <2>1
  <2>v. \A i, j \in 1..(Len(r) - 1) : i < j => up(i) < up(j)
    BY <1>0, <2>1
  <2>5. Sorted(w)
    <3> HIDE DEF w, up
    <3> SUFFICES ASSUME NEW i \in 1..(Len(r) - 1), NEW j \in 1..(Len(r) - 1), i < j
                 PROVE  w[i] < w[j]
      BY <2>3, Zenon DEF Sorted
    <3> QED
      BY <2>u, <2>v, <2>4, Zenon
  <2>6. \A i \in 1..(Len(r) - 1) : \E j \in 1..Len(r) : w[i] = r[j] /\ j # at
    <3> HIDE DEF w, up
    <3> QED
      BY <2>u, Zenon
  <2>7. \A j \in 1..Len(r) : j # at => r[j] # op
    <3> SUFFICES ASSUME NEW j \in 1..Len(r), j # at, r[j] = op PROVE FALSE
      BY Zenon
    <3>1. j < at \/ at < j
      BY <2>1, <1>0
    <3>2. r[j] < r[at] \/ r[at] < r[j]
      BY <3>1, <2>4, <2>1, Zenon
    <3> QED
      BY <3>2, <2>1, <1>0
  <2>8. \A j \in 1..Len(r) : j # at => \E i \in 1..(Len(r) - 1) : w[i] = r[j]
    <3> SUFFICES ASSUME NEW j \in 1..Len(r), j # at
                 PROVE  \E i \in 1..(Len(r) - 1) : w[i] = r[j]
      BY Zenon
    <3>1. CASE j < at
      <4>1. j \in 1..(Len(r) - 1) /\ w[j] = r[j]
        BY <3>1, <2>1, <1>0
      <4> QED
        BY <4>1, Zenon
    <3>2. CASE at < j
      <4>1. j - 1 \in 1..(Len(r) - 1) /\ w[j - 1] = r[j]
        BY <3>2, <2>1, <1>0
      <4> QED
        BY <4>1, Zenon
    <3> QED
      BY <3>1, <3>2, <2>1, <1>0
  <2> HIDE DEF w
  <2>9. {w[i] : i \in 1..Len(w)} = {r[i] : i \in 1..Len(r)} \ {op}
    <3>1. 1..Len(w) = 1..(Len(r) - 1)
      BY <2>3, Zenon
    <3>2. ASSUME NEW i \in 1..(Len(r) - 1)
          PROVE  w[i] \in {r[j] : j \in 1..Len(r)} \ {op}
      BY <2>6, <2>7, Zenon
    <3>3. ASSUME NEW x \in {r[j] : j \in 1..Len(r)} \ {op}
          PROVE  x \in {w[i] : i \in 1..(Len(r) - 1)}
      BY <2>1, <2>8, Zenon
    <3> QED
      BY <3>1, <3>2, <3>3, Zenon
  <2> QED
    BY <2>2, <2>3, <2>5, <2>9, Zenon
<1>2. CASE ~\E i \in 1..Len(r) : r[i] = op
  <2>1. Without(r, op) = r
    BY <1>2, Zenon DEF Without
  <2> QED
    BY <2>1, <1>2, Zenon
<1> QED
  BY <1>1, <1>2, Zenon

-----------------------------------------------------------------------------
(* The inductive step.                                                     *)

USE DEF Ops, None

\* What the methods of the scope do to what the invariant sees of it.
LEMMA ScopeLemma ==
  ASSUME Inv
  PROVE  /\ \A op \in Ops :
              /\ record(scope, op) \in Scope
              /\ record(scope, op).minted = scope.minted
              /\ record(scope, op).running = scope.running
              /\ record(scope, op).asked = scope.asked \cup {op}
              /\ take(scope, op) \in Scope
              /\ take(scope, op).minted = scope.minted
              /\ take(scope, op).running = scope.running
              /\ take(scope, op).asked = scope.asked \ {op}
              /\ end(scope, op) \in Scope
              /\ end(scope, op).minted = scope.minted
              /\ Running(end(scope, op)) = Open \ {op}
              /\ Sorted(end(scope, op).running)
              /\ end(scope, op).asked = scope.asked \ {op}
         /\ innermost(scope) # None => innermost(scope) \in Open
         /\ begin(scope) \in Scope
         /\ begin(scope).minted = scope.minted + 1
         /\ begin(scope).asked = scope.asked
         /\ Running(begin(scope)) = Open \cup {scope.minted + 1}
         /\ Sorted(begin(scope).running)
<1>1. scope \in Scope /\ Sorted(scope.running) /\ Running(scope) = Open
  BY Zenon DEF Inv, TypeOK, ScopeMatchesGuards, Sorted
<1>2. scope = [minted |-> scope.minted, running |-> scope.running, asked |-> scope.asked]
      /\ scope.minted \in Nat /\ scope.running \in Seq(Nat) /\ scope.asked \in SUBSET Nat
  BY <1>1, Zenon DEF Scope
<1>3. ASSUME NEW op \in Ops
      PROVE  /\ record(scope, op) \in Scope
             /\ record(scope, op).minted = scope.minted
             /\ record(scope, op).running = scope.running
             /\ record(scope, op).asked = scope.asked \cup {op}
             /\ take(scope, op) \in Scope
             /\ take(scope, op).minted = scope.minted
             /\ take(scope, op).running = scope.running
             /\ take(scope, op).asked = scope.asked \ {op}
  BY <1>1, <1>2, MaxOpsAssumption DEF record, take, Scope
<1>4. ASSUME NEW op \in Ops
      PROVE  /\ end(scope, op) \in Scope
             /\ end(scope, op).minted = scope.minted
             /\ Running(end(scope, op)) = Open \ {op}
             /\ Sorted(end(scope, op).running)
             /\ end(scope, op).asked = scope.asked \ {op}
  <2> DEFINE w == Without(scope.running, op)
  <2>1. /\ w \in Seq(Nat)
        /\ Sorted(w)
        /\ {w[i] : i \in 1..Len(w)} = Running(scope) \ {op}
    <3>1. op \in Nat
      BY MaxOpsAssumption
    <3> QED
      BY <3>1, <1>1, <1>2, WithoutLemma, Zenon DEF Running
  <2>2. /\ end(scope, op).minted = scope.minted
        /\ end(scope, op).running = w
        /\ end(scope, op).asked = scope.asked \ {op}
        /\ end(scope, op) \in Scope
    <3> HIDE DEF w
    <3>1. end(scope, op) = [scope EXCEPT !.running = w, !.asked = scope.asked \ {op}]
      BY Zenon DEF end, w
    <3> QED
      BY <3>1, <2>1, <1>1, <1>2, Zenon DEF Scope
  <2> HIDE DEF w
  <2>3. Running(end(scope, op)) = Open \ {op}
    BY <2>1, <2>2, <1>1, Zenon DEF Running
  <2> QED
    BY <2>1, <2>2, <2>3, Zenon
<1>5. innermost(scope) # None => innermost(scope) \in Open
  <2> SUFFICES ASSUME innermost(scope) # None PROVE innermost(scope) \in Running(scope)
    BY <1>1, Zenon
  <2>1. scope.running # <<>> /\ innermost(scope) = scope.running[Len(scope.running)]
    BY Zenon DEF innermost
  <2>2. Len(scope.running) \in 1..Len(scope.running)
    BY <2>1, <1>2
  <2> QED
    BY <2>1, <2>2, Zenon DEF Running
<1>6. /\ begin(scope) \in Scope
      /\ begin(scope).minted = scope.minted + 1
      /\ begin(scope).asked = scope.asked
      /\ Running(begin(scope)) = Open \cup {scope.minted + 1}
      /\ Sorted(begin(scope).running)
  <2>1. \A o \in Running(scope) : o <= scope.minted
    BY <1>1, <1>2, MaxOpsAssumption DEF Inv, MintedInv, Open
  <2> QED
    BY <2>1, <1>1, BeginLemma, Zenon
<1> QED
  BY <1>3, <1>4, <1>5, <1>6, Zenon

\* A step that opens and closes nothing, files nothing and reads nothing leaves
\* the stack, the requests and the reports as they were.
LEMMA Frame ==
  ASSUME Inv, UNCHANGED <<scope, kind, cut, filed>>,
         \A p \in Ops : /\ pc'[p] = "unborn" <=> pc[p] = "unborn"
                        /\ pc'[p] \in {"closed", "ended"} <=> pc[p] \in {"closed", "ended"}
                        /\ dog[p] = "fired" => dog'[p] = "fired"
  PROVE  ScopeMatchesGuards' /\ MintedInv' /\ RequestKept' /\ AttributionHonest'
<1>0. ScopeMatchesGuards /\ MintedInv /\ RequestKept /\ AttributionHonest
  BY Zenon DEF Inv
<1>1. Open' = Open
  BY Zenon DEF Open
<1>2. ScopeMatchesGuards'
  BY <1>0, <1>1, Zenon DEF ScopeMatchesGuards, Running
<1>3. MintedInv'
  BY <1>0, Zenon DEF MintedInv
<1>4. RequestKept'
  BY <1>0, <1>1, Zenon DEF RequestKept
<1>5. AttributionHonest'
  BY <1>0, Zenon DEF AttributionHonest
<1> QED
  BY <1>2, <1>3, <1>4, <1>5, Zenon

\* The steps of an operation that neither open, read nor close: what the scope
\* knows of its operations is not disturbed, and each break that appears,
\* moves on or disappears stays accounted for.
LEMMA EngineStep ==
  ASSUME Inv, NEW o \in Ops,
         \/ Raise(o) \/ Refuse(o) \/ Prime(o) \/ Issue(o) \/ Arm(o) \/ Enter(o)
         \/ BreakIn(o) \/ Return(o) \/ Disarm(o) \/ Account(o) \/ DropDrain(o)
  PROVE  Inv'
<1>a. TypeOK
  BY Zenon DEF Inv
<1>b. FreshInv
  BY Zenon DEF Inv
<1>c. OwnBreakReported /\ BrokenInv
  BY Zenon DEF Inv
<1>d. PendingInv
  BY Zenon DEF Inv
<1>1. CASE Raise(o)
  <2>0. /\ UNCHANGED <<scope, kind, cut, filed>>
        /\ \A p \in Ops : /\ pc'[p] = "unborn" <=> pc[p] = "unborn"
                          /\ pc'[p] \in {"closed", "ended"} <=> pc[p] \in {"closed", "ended"}
                          /\ dog[p] = "fired" => dog'[p] = "fired"
    BY <1>a, <1>b, <1>1, Zenon DEF TypeOK, FreshInv, Unarmed, Raise
  <2>1. ScopeMatchesGuards' /\ MintedInv' /\ RequestKept' /\ AttributionHonest'
    BY <2>0, Frame, Zenon
  <2>2. TypeOK'
    BY <1>a, <1>1, <2>0, Zenon DEF TypeOK, Phases, Raise
  <2>3. FreshInv'
    BY <1>a, <1>b, <1>1, <2>0 DEF TypeOK, FreshInv, Unread, Unarmed, Raise
  <2>4. OwnBreakReported' /\ BrokenInv'
    BY <1>a, <1>b, <1>c, <1>d, <1>1, <2>0
       DEF TypeOK, FreshInv, OwnBreakReported, BrokenInv, PendingInv, Unread, Unarmed,
           Raise
  <2>5. PendingInv'
    BY <1>a, <1>b, <1>d, <1>1, <2>0
       DEF TypeOK, FreshInv, PendingInv, Unread, Unarmed, Draining, Raise, Issuing
  <2> QED
    BY <2>1, <2>2, <2>3, <2>4, <2>5, Zenon DEF Inv
<1>2. CASE Refuse(o)
  <2>0. /\ UNCHANGED <<scope, kind, cut, filed>>
        /\ \A p \in Ops : /\ pc'[p] = "unborn" <=> pc[p] = "unborn"
                          /\ pc'[p] \in {"closed", "ended"} <=> pc[p] \in {"closed", "ended"}
                          /\ dog[p] = "fired" => dog'[p] = "fired"
    BY <1>a, <1>b, <1>2, Zenon DEF TypeOK, FreshInv, Unarmed, Refuse
  <2>1. ScopeMatchesGuards' /\ MintedInv' /\ RequestKept' /\ AttributionHonest'
    BY <2>0, Frame, Zenon
  <2>2. TypeOK'
    BY <1>a, <1>2, <2>0, Zenon DEF TypeOK, Phases, Refuse
  <2>3. FreshInv'
    BY <1>a, <1>b, <1>2, <2>0 DEF TypeOK, FreshInv, Unread, Unarmed, Refuse
  <2>4. OwnBreakReported' /\ BrokenInv'
    BY <1>a, <1>b, <1>c, <1>d, <1>2, <2>0
       DEF TypeOK, FreshInv, OwnBreakReported, BrokenInv, PendingInv, Unread, Unarmed,
           Refuse
  <2>5. PendingInv'
    BY <1>a, <1>b, <1>d, <1>2, <2>0
       DEF TypeOK, FreshInv, PendingInv, Unread, Unarmed, Draining, Refuse, Issuing
  <2> QED
    BY <2>1, <2>2, <2>3, <2>4, <2>5, Zenon DEF Inv
<1>3. CASE Prime(o)
  <2>0. /\ UNCHANGED <<scope, kind, cut, filed>>
        /\ \A p \in Ops : /\ pc'[p] = "unborn" <=> pc[p] = "unborn"
                          /\ pc'[p] \in {"closed", "ended"} <=> pc[p] \in {"closed", "ended"}
                          /\ dog[p] = "fired" => dog'[p] = "fired"
    BY <1>a, <1>b, <1>3, Zenon DEF TypeOK, FreshInv, Unarmed, Prime
  <2>1. ScopeMatchesGuards' /\ MintedInv' /\ RequestKept' /\ AttributionHonest'
    BY <2>0, Frame, Zenon
  <2>2. TypeOK'
    BY <1>a, <1>3, <2>0, Zenon DEF TypeOK, Phases, Prime, drain_an_unowned_break
  <2>3. FreshInv'
    BY <1>a, <1>b, <1>3, <2>0 DEF TypeOK, FreshInv, Unread, Unarmed, Prime
  <2>4. OwnBreakReported' /\ BrokenInv'
    BY <1>a, <1>b, <1>c, <1>d, <1>3, <2>0
       DEF TypeOK, FreshInv, OwnBreakReported, BrokenInv, PendingInv, Unread, Unarmed,
           Prime, drain_an_unowned_break
  <2>5. PendingInv'
    BY <1>a, <1>b, <1>d, <1>3, <2>0
       DEF TypeOK, FreshInv, PendingInv, Unread, Unarmed, Draining, Prime, drain_an_unowned_break, Issuing
  <2> QED
    BY <2>1, <2>2, <2>3, <2>4, <2>5, Zenon DEF Inv
<1>4. CASE Issue(o)
  <2>0. /\ UNCHANGED <<scope, kind, cut, filed>>
        /\ \A p \in Ops : /\ pc'[p] = "unborn" <=> pc[p] = "unborn"
                          /\ pc'[p] \in {"closed", "ended"} <=> pc[p] \in {"closed", "ended"}
                          /\ dog[p] = "fired" => dog'[p] = "fired"
    BY <1>a, <1>b, <1>4 DEF TypeOK, FreshInv, Unarmed, Issue, Issuing
  <2>1. ScopeMatchesGuards' /\ MintedInv' /\ RequestKept' /\ AttributionHonest'
    BY <2>0, Frame, Zenon
  <2>2. TypeOK'
    BY <1>a, <1>4, <2>0 DEF TypeOK, Phases, Issue, Issuing
  <2>3. FreshInv'
    BY <1>a, <1>b, <1>4, <2>0 DEF TypeOK, FreshInv, Unread, Unarmed, Issue, Issuing
  <2>4. OwnBreakReported' /\ BrokenInv'
    BY <1>a, <1>b, <1>c, <1>d, <1>4, <2>0
       DEF TypeOK, FreshInv, OwnBreakReported, BrokenInv, PendingInv, Unread, Unarmed,
           Issue, Issuing
  <2>5. PendingInv'
    BY <1>a, <1>b, <1>d, <1>4, <2>0
       DEF TypeOK, FreshInv, PendingInv, Unread, Unarmed, Draining, Issue, Issuing
  <2> QED
    BY <2>1, <2>2, <2>3, <2>4, <2>5, Zenon DEF Inv
<1>5. CASE Arm(o)
  <2>0. /\ UNCHANGED <<scope, kind, cut, filed>>
        /\ \A p \in Ops : /\ pc'[p] = "unborn" <=> pc[p] = "unborn"
                          /\ pc'[p] \in {"closed", "ended"} <=> pc[p] \in {"closed", "ended"}
                          /\ dog[p] = "fired" => dog'[p] = "fired"
    BY <1>a, <1>b, <1>5, Zenon DEF TypeOK, FreshInv, Unarmed, Arm, Watched
  <2>1. ScopeMatchesGuards' /\ MintedInv' /\ RequestKept' /\ AttributionHonest'
    BY <2>0, Frame, Zenon
  <2>2. TypeOK'
    BY <1>a, <1>5, <2>0 DEF TypeOK, Phases, Arm, Watched
  <2>3. FreshInv'
    BY <1>a, <1>b, <1>5, <2>0 DEF TypeOK, FreshInv, Unread, Unarmed, Arm, Watched
  <2>4. OwnBreakReported' /\ BrokenInv'
    BY <1>a, <1>b, <1>c, <1>d, <1>5, <2>0
       DEF TypeOK, FreshInv, OwnBreakReported, BrokenInv, PendingInv, Unread, Unarmed,
           Arm, Watched
  <2>5. PendingInv'
    BY <1>a, <1>b, <1>d, <1>5, <2>0
       DEF TypeOK, FreshInv, PendingInv, Unread, Unarmed, Draining, Arm, Watched, Issuing
  <2> QED
    BY <2>1, <2>2, <2>3, <2>4, <2>5, Zenon DEF Inv
<1>6. CASE Enter(o)
  <2>0. /\ UNCHANGED <<scope, kind, cut, filed>>
        /\ \A p \in Ops : /\ pc'[p] = "unborn" <=> pc[p] = "unborn"
                          /\ pc'[p] \in {"closed", "ended"} <=> pc[p] \in {"closed", "ended"}
                          /\ dog[p] = "fired" => dog'[p] = "fired"
    BY <1>a, <1>b, <1>6, Zenon DEF TypeOK, FreshInv, Unarmed, Enter
  <2>1. ScopeMatchesGuards' /\ MintedInv' /\ RequestKept' /\ AttributionHonest'
    BY <2>0, Frame, Zenon
  <2>2. TypeOK'
    BY <1>a, <1>6, <2>0, Zenon DEF TypeOK, Phases, Enter
  <2>3. FreshInv'
    BY <1>a, <1>b, <1>6, <2>0 DEF TypeOK, FreshInv, Unread, Unarmed, Enter
  <2>4. OwnBreakReported' /\ BrokenInv'
    BY <1>a, <1>b, <1>c, <1>d, <1>6, <2>0
       DEF TypeOK, FreshInv, OwnBreakReported, BrokenInv, PendingInv, Unread, Unarmed,
           Enter
  <2>5. PendingInv'
    BY <1>a, <1>b, <1>d, <1>6, <2>0
       DEF TypeOK, FreshInv, PendingInv, Unread, Unarmed, Draining, Enter, Issuing
  <2> QED
    BY <2>1, <2>2, <2>3, <2>4, <2>5, Zenon DEF Inv
<1>7. CASE BreakIn(o)
  <2>0. /\ UNCHANGED <<scope, kind, cut, filed>>
        /\ \A p \in Ops : /\ pc'[p] = "unborn" <=> pc[p] = "unborn"
                          /\ pc'[p] \in {"closed", "ended"} <=> pc[p] \in {"closed", "ended"}
                          /\ dog[p] = "fired" => dog'[p] = "fired"
    BY <1>a, <1>b, <1>7, Zenon DEF TypeOK, FreshInv, Unarmed, BreakIn
  <2>1. ScopeMatchesGuards' /\ MintedInv' /\ RequestKept' /\ AttributionHonest'
    BY <2>0, Frame, Zenon
  <2>2. TypeOK'
    BY <1>a, <1>7, <2>0, Zenon DEF TypeOK, Phases, BreakIn, NoteBreak
  <2>3. FreshInv'
    BY <1>a, <1>b, <1>7, <2>0, SMTT(30) DEF TypeOK, FreshInv, Unread, Unarmed, BreakIn
  <2>4. OwnBreakReported' /\ BrokenInv'
    BY <1>a, <1>b, <1>c, <1>d, <1>7, <2>0, SMTT(30)
       DEF TypeOK, FreshInv, OwnBreakReported, BrokenInv, PendingInv, Unread, Unarmed,
           BreakIn, NoteBreak
  <2>5. PendingInv'
    BY <1>a, <1>b, <1>d, <1>7, <2>0, Zenon
       DEF TypeOK, FreshInv, PendingInv, Unread, Unarmed, Draining, BreakIn, NoteBreak, Issuing
  <2> QED
    BY <2>1, <2>2, <2>3, <2>4, <2>5, Zenon DEF Inv
<1>8. CASE Return(o)
  <2>0. /\ UNCHANGED <<scope, kind, cut, filed>>
        /\ \A p \in Ops : /\ pc'[p] = "unborn" <=> pc[p] = "unborn"
                          /\ pc'[p] \in {"closed", "ended"} <=> pc[p] \in {"closed", "ended"}
                          /\ dog[p] = "fired" => dog'[p] = "fired"
    BY <1>a, <1>b, <1>8, Zenon DEF TypeOK, FreshInv, Unarmed, Return
  <2>1. ScopeMatchesGuards' /\ MintedInv' /\ RequestKept' /\ AttributionHonest'
    BY <2>0, Frame, Zenon
  <2>2. TypeOK'
    BY <1>a, <1>8, <2>0, Zenon DEF TypeOK, Phases, Return
  <2>3. FreshInv'
    BY <1>a, <1>b, <1>8, <2>0 DEF TypeOK, FreshInv, Unread, Unarmed, Return
  <2>4. OwnBreakReported' /\ BrokenInv'
    BY <1>a, <1>b, <1>c, <1>d, <1>8, <2>0
       DEF TypeOK, FreshInv, OwnBreakReported, BrokenInv, PendingInv, Unread, Unarmed,
           Return
  <2>5. PendingInv'
    BY <1>a, <1>b, <1>d, <1>8, <2>0
       DEF TypeOK, FreshInv, PendingInv, Unread, Unarmed, Draining, Return, Issuing
  <2> QED
    BY <2>1, <2>2, <2>3, <2>4, <2>5, Zenon DEF Inv
<1>9. CASE Disarm(o)
  <2>0. /\ UNCHANGED <<scope, kind, cut, filed>>
        /\ \A p \in Ops : /\ pc'[p] = "unborn" <=> pc[p] = "unborn"
                          /\ pc'[p] \in {"closed", "ended"} <=> pc[p] \in {"closed", "ended"}
                          /\ dog[p] = "fired" => dog'[p] = "fired"
    BY <1>a, <1>b, <1>9, Zenon DEF TypeOK, FreshInv, Unarmed, Disarm
  <2>1. ScopeMatchesGuards' /\ MintedInv' /\ RequestKept' /\ AttributionHonest'
    BY <2>0, Frame, Zenon
  <2>2. TypeOK'
    BY <1>a, <1>9, <2>0, Zenon DEF TypeOK, Phases, Disarm
  <2>3. FreshInv'
    BY <1>a, <1>b, <1>9, <2>0 DEF TypeOK, FreshInv, Unread, Unarmed, Disarm
  <2>4. OwnBreakReported' /\ BrokenInv'
    BY <1>a, <1>b, <1>c, <1>d, <1>9, <2>0
       DEF TypeOK, FreshInv, OwnBreakReported, BrokenInv, PendingInv, Unread, Unarmed,
           Disarm
  <2>5. PendingInv'
    BY <1>a, <1>b, <1>d, <1>9, <2>0
       DEF TypeOK, FreshInv, PendingInv, Unread, Unarmed, Draining, Disarm, Issuing
  <2> QED
    BY <2>1, <2>2, <2>3, <2>4, <2>5, Zenon DEF Inv
<1>10. CASE Account(o)
  <2>0. /\ UNCHANGED <<scope, kind, cut, filed>>
        /\ \A p \in Ops : /\ pc'[p] = "unborn" <=> pc[p] = "unborn"
                          /\ pc'[p] \in {"closed", "ended"} <=> pc[p] \in {"closed", "ended"}
                          /\ dog[p] = "fired" => dog'[p] = "fired"
    BY <1>a, <1>b, <1>10, Zenon DEF TypeOK, FreshInv, Unarmed, Account
  <2>1. ScopeMatchesGuards' /\ MintedInv' /\ RequestKept' /\ AttributionHonest'
    BY <2>0, Frame, Zenon
  <2>2. TypeOK'
    BY <1>a, <1>10, <2>0, Zenon DEF TypeOK, Phases, Account, account
  <2>3. FreshInv'
    BY <1>a, <1>b, <1>10, <2>0 DEF TypeOK, FreshInv, Unread, Unarmed, Account
  <2>4. OwnBreakReported' /\ BrokenInv'
    BY <1>a, <1>b, <1>c, <1>d, <1>10, <2>0
       DEF TypeOK, FreshInv, OwnBreakReported, BrokenInv, PendingInv, Unread, Unarmed,
           Account, account
  <2>5. PendingInv'
    BY <1>a, <1>b, <1>d, <1>10, <2>0
       DEF TypeOK, FreshInv, PendingInv, Unread, Unarmed, Draining, Account, account, Issuing
  <2> QED
    BY <2>1, <2>2, <2>3, <2>4, <2>5, Zenon DEF Inv
<1>11. CASE DropDrain(o)
  <2>0. /\ UNCHANGED <<scope, kind, cut, filed>>
        /\ \A p \in Ops : /\ pc'[p] = "unborn" <=> pc[p] = "unborn"
                          /\ pc'[p] \in {"closed", "ended"} <=> pc[p] \in {"closed", "ended"}
                          /\ dog[p] = "fired" => dog'[p] = "fired"
    BY <1>a, <1>b, <1>11, Zenon DEF TypeOK, FreshInv, Unarmed, DropDrain
  <2>1. ScopeMatchesGuards' /\ MintedInv' /\ RequestKept' /\ AttributionHonest'
    BY <2>0, Frame, Zenon
  <2>2. TypeOK'
    BY <1>a, <1>11, <2>0, Zenon DEF TypeOK, Phases, DropDrain
  <2>3. FreshInv'
    BY <1>a, <1>b, <1>11, <2>0 DEF TypeOK, FreshInv, Unread, Unarmed, DropDrain
  <2>4. OwnBreakReported' /\ BrokenInv'
    BY <1>a, <1>b, <1>c, <1>d, <1>11, <2>0
       DEF TypeOK, FreshInv, OwnBreakReported, BrokenInv, PendingInv, Unread, Unarmed,
           DropDrain
  <2>5. PendingInv'
    BY <1>a, <1>b, <1>d, <1>11, <2>0, Zenon
       DEF TypeOK, FreshInv, PendingInv, Unread, Unarmed, Draining, DropDrain, Issuing
  <2> QED
    BY <2>1, <2>2, <2>3, <2>4, <2>5, Zenon DEF Inv
<1> QED
  BY <1>1, <1>2, <1>3, <1>4, <1>5, <1>6, <1>7, <1>8, <1>9, <1>10, <1>11, Zenon

\* The steps of a host, and of the engine thread in its caller's code.
LEMMA CallerStep ==
  ASSUME Inv, Interrupt \/ reload_symbols \/ interrupted
  PROVE  Inv'
<1> USE MaxOpsAssumption DEF Phases
<1>1. CASE Interrupt /\ innermost(scope) = None
  <2>a. /\ pending' = pending \cup {None} /\ pending' \cap Ops = pending \cap Ops
        /\ UNCHANGED <<scope, pc, kind, dog, cut, filed, broken>>
    BY <1>1 DEF Interrupt
  <2>0. TypeOK'
    BY <2>a, Zenon DEF Inv, TypeOK
  <2>1. FreshInv'
    BY <2>a, Zenon DEF Inv, TypeOK, FreshInv, Unread, Unarmed
  <2>2. ScopeMatchesGuards' /\ MintedInv'
    BY <2>a DEF Inv, TypeOK, ScopeMatchesGuards, Running, Open, MintedInv
  <2>3. RequestKept'
    BY <2>a, Zenon DEF Inv, TypeOK, FreshInv, RequestKept, Open, Unread
  <2>4. AttributionHonest'
    BY <2>a, Zenon DEF Inv, TypeOK, FreshInv, AttributionHonest, Unread
  <2>5. OwnBreakReported'
    BY <2>a, Zenon DEF Inv, TypeOK, FreshInv, OwnBreakReported, BrokenInv, Unread
  <2>6. PendingInv'
    BY <2>a, Zenon DEF Inv, TypeOK, FreshInv, PendingInv, Unread, Unarmed, Draining
  <2>7. BrokenInv'
    BY <2>a, Zenon DEF Inv, TypeOK, FreshInv, BrokenInv, Unread
  <2> QED
    BY <2>0, <2>1, <2>2, <2>3, <2>4, <2>5, <2>6, <2>7, Zenon DEF Inv
<1>2. CASE Interrupt /\ innermost(scope) # None
  <2> DEFINE op == innermost(scope)
  <2>a. op \in Ops /\ pc[op] \notin {"unborn", "closed", "ended"}
    BY <1>2, ScopeLemma, Zenon DEF Open
  <2>b. /\ scope' \in Scope /\ scope'.minted = scope.minted
        /\ scope'.running = scope.running /\ scope'.asked = scope.asked \cup {op}
    BY <1>2, <2>a, ScopeLemma, Zenon DEF Interrupt
  <2>c. /\ pending' = pending \cup {op} /\ filed' = filed \cup {op}
        /\ UNCHANGED <<pc, kind, dog, cut, broken>>
    BY <1>2, Zenon DEF Interrupt
  <2> HIDE DEF op
  <2>0. TypeOK'
    BY <2>a, <2>b, <2>c, Zenon DEF Inv, TypeOK
  <2>1. FreshInv'
    BY <2>a, <2>b, <2>c, Zenon DEF Inv, TypeOK, FreshInv, Unread, Unarmed
  <2>2. ScopeMatchesGuards' /\ MintedInv'
    BY <2>a, <2>b, <2>c DEF Inv, TypeOK, ScopeMatchesGuards, Running, Open, MintedInv
  <2>3. RequestKept'
    BY <2>a, <2>b, <2>c, Zenon DEF Inv, TypeOK, FreshInv, RequestKept, Open, Unread
  <2>4. AttributionHonest'
    BY <2>a, <2>b, <2>c, Zenon DEF Inv, TypeOK, FreshInv, AttributionHonest, Unread
  <2>5. OwnBreakReported'
    BY <2>a, <2>b, <2>c, Zenon DEF Inv, TypeOK, FreshInv, OwnBreakReported, BrokenInv, Unread
  <2>6. PendingInv'
    BY <2>a, <2>b, <2>c, Zenon DEF Inv, TypeOK, FreshInv, PendingInv, Unread, Unarmed, Draining
  <2>7. BrokenInv'
    BY <2>a, <2>b, <2>c, Zenon DEF Inv, TypeOK, FreshInv, BrokenInv, Unread
  <2> QED
    BY <2>0, <2>1, <2>2, <2>3, <2>4, <2>5, <2>6, <2>7, Zenon DEF Inv
<1>3. CASE reload_symbols \/ interrupted
  <2>a. pending' \subseteq pending /\ UNCHANGED <<scope, pc, kind, dog, cut, filed, broken>>
    BY <1>3, Zenon DEF reload_symbols, interrupted, drain_an_unowned_break
  <2>0. TypeOK'
    BY <2>a, Zenon DEF Inv, TypeOK
  <2>1. FreshInv'
    BY <2>a, Zenon DEF Inv, TypeOK, FreshInv, Unread, Unarmed
  <2>2. ScopeMatchesGuards' /\ MintedInv'
    BY <2>a DEF Inv, TypeOK, ScopeMatchesGuards, Running, Open, MintedInv
  <2>3. RequestKept'
    BY <2>a, Zenon DEF Inv, TypeOK, FreshInv, RequestKept, Open, Unread
  <2>4. AttributionHonest'
    BY <2>a, Zenon DEF Inv, TypeOK, FreshInv, AttributionHonest, Unread
  <2>5. OwnBreakReported'
    BY <2>a, Zenon DEF Inv, TypeOK, FreshInv, OwnBreakReported, BrokenInv, Unread
  <2>6. PendingInv'
    BY <2>a, Zenon DEF Inv, TypeOK, FreshInv, PendingInv, Unread, Unarmed, Draining
  <2>7. BrokenInv'
    BY <2>a, Zenon DEF Inv, TypeOK, FreshInv, BrokenInv, Unread
  <2> QED
    BY <2>0, <2>1, <2>2, <2>3, <2>4, <2>5, <2>6, <2>7, Zenon DEF Inv
<1> QED
  BY <1>1, <1>2, <1>3, Zenon

\* The steps that take a request or close a guard.
LEMMA ReaderStep ==
  ASSUME Inv, NEW o \in Ops, Read(o) \/ Poll(o) \/ End(o)
  PROVE  Inv'
<1> USE MaxOpsAssumption DEF Phases
<1>0. UNCHANGED scope =>
        /\ scope' \in Scope /\ scope'.minted = scope.minted
        /\ scope'.running = scope.running /\ scope'.asked = scope.asked
  BY Zenon DEF Inv, TypeOK
<1>1. CASE Read(o)
  <2>a. /\ scope' \in Scope /\ scope'.minted = scope.minted
        /\ scope'.running = scope.running /\ scope'.asked = scope.asked \ {o}
    BY <1>1, ScopeLemma, Zenon DEF Read
  <2>b. pc[o] = "disarmed" /\ UNCHANGED <<pending, kind, dog, filed, broken>>
    BY <1>1, Zenon DEF Read
  <2>c. PICK why \in {"none", "Deadline", "OnRequest"}, next \in {"begun", "absorb", "read"} :
             /\ why = "none" <=> dog[o] # "fired" /\ o \notin scope.asked
             /\ why = "Deadline" => dog[o] = "fired"
             /\ why = "OnRequest" => o \in scope.asked
             /\ next = "begun" => why = "none" /\ kind[o] = "open"
             /\ next = "absorb" => kind[o] = "attach"
             /\ cut' = [cut EXCEPT ![o] = why]
             /\ pc' = [pc EXCEPT ![o] = next]
    BY <1>1, Zenon DEF Read, cut_short_by, isAsked, AfterRead
  <2>0. TypeOK'
    BY <2>a, <2>b, <2>c, Zenon DEF Inv, TypeOK
  <2>1. FreshInv'
    BY <2>a, <2>b, <2>c DEF Inv, TypeOK, FreshInv, Unread, Unarmed
  <2>2. ScopeMatchesGuards' /\ MintedInv'
    BY <2>a, <2>b, <2>c DEF Inv, TypeOK, ScopeMatchesGuards, Running, Open, MintedInv
  <2>3. RequestKept'
    BY <2>a, <2>b, <2>c DEF Inv, TypeOK, FreshInv, RequestKept, Open, Unread
  <2>4. AttributionHonest'
    BY <2>a, <2>b, <2>c DEF Inv, TypeOK, FreshInv, AttributionHonest, Unread
  <2>5. OwnBreakReported'
    BY <2>a, <2>b, <2>c, SMTT(30) DEF Inv, TypeOK, FreshInv, OwnBreakReported, BrokenInv, Unread
  <2>6. PendingInv'
    <3>1. why = "none" => o \notin pending
      BY <2>b, <2>c, Zenon DEF Inv, PendingInv, Unread
    <3>2. kind[o] # "chunked"
      BY <2>b, Zenon DEF Inv, FreshInv, Unread
    <3> SUFFICES ASSUME NEW p \in pending \cap Ops PROVE PendingInv!(p)'
      BY <2>b, Zenon DEF PendingInv
    <3>3. CASE p = o
      BY <3>1, <3>2, <3>3, <2>a, <2>b, <2>c, Zenon DEF Inv, TypeOK, Unread
    <3>4. CASE p # o
      BY <3>4, <2>a, <2>b, <2>c, Zenon DEF Inv, TypeOK, PendingInv
    <3> QED
      BY <3>3, <3>4, Zenon
  <2>7. BrokenInv'
    BY <2>a, <2>b, <2>c DEF Inv, TypeOK, FreshInv, BrokenInv, Unread
  <2> QED
    BY <2>0, <2>1, <2>2, <2>3, <2>4, <2>5, <2>6, <2>7, SMTT(30) DEF Inv
<1>2. CASE Poll(o)
  <2>a. pc[o] = "begun" /\ UNCHANGED <<pending, kind, dog, filed, broken>>
    BY <1>2, Zenon DEF Poll
  <2>b. PICK why \in {"none", "Deadline", "OnRequest"}, next \in {"begun", "read"} :
             /\ why = "OnRequest" => o \in scope.asked
             /\ why = "none" => o \notin scope.asked
             /\ why = "Deadline" => kind[o] = "chunked"
             /\ next = "begun" => why = "none"
             /\ cut' = [cut EXCEPT ![o] = why]
             /\ pc' = [pc EXCEPT ![o] = next]
             /\ scope' = IF why = "OnRequest" THEN take(scope, o) ELSE scope
    <3>1. cut[o] = "none" /\ cut = [cut EXCEPT ![o] = "none"] /\ pc = [pc EXCEPT ![o] = "begun"]
      BY <2>a DEF Inv, TypeOK, FreshInv, Unread
    <3> QED
      BY <1>2, <2>a, <3>1, Zenon DEF Poll, isAsked
  <2>c. /\ scope' \in Scope /\ scope'.minted = scope.minted
        /\ scope'.running = scope.running
        /\ scope'.asked = IF why = "OnRequest" THEN scope.asked \ {o} ELSE scope.asked
    BY <1>0, <2>b, ScopeLemma, Zenon
  <2>0. TypeOK'
    BY <2>a, <2>b, <2>c, Zenon DEF Inv, TypeOK
  <2>1. FreshInv'
    BY <2>a, <2>b, <2>c DEF Inv, TypeOK, FreshInv, Unread, Unarmed
  <2>2. ScopeMatchesGuards' /\ MintedInv'
    <3>0. TypeOK /\ ScopeMatchesGuards /\ MintedInv
      BY Zenon DEF Inv
    <3>1. \A p \in Ops : /\ pc'[p] = "unborn" <=> pc[p] = "unborn"
                         /\ pc'[p] \in {"closed", "ended"} <=> pc[p] \in {"closed", "ended"}
      BY <2>a, <2>b, <3>0, Zenon DEF TypeOK
    <3>2. Open' = Open
      BY <3>1, Zenon DEF Open
    <3>3. ScopeMatchesGuards'
      BY <2>c, <3>0, <3>2, Zenon DEF ScopeMatchesGuards, Running
    <3>4. MintedInv'
      BY <2>c, <3>0, <3>1, Zenon DEF MintedInv
    <3> QED
      BY <3>3, <3>4, Zenon
  <2>3. RequestKept'
    BY <2>a, <2>b, <2>c DEF Inv, TypeOK, FreshInv, RequestKept, Open, Unread
  <2>4. AttributionHonest'
    BY <2>a, <2>b, <2>c DEF Inv, TypeOK, FreshInv, AttributionHonest, Unread
  <2>5. OwnBreakReported'
    BY <2>a, <2>b, <2>c, SMTT(30) DEF Inv, TypeOK, FreshInv, OwnBreakReported, BrokenInv, Unread
  <2>6. PendingInv'
    <3>1. o \in pending => o \in scope.asked
      BY <2>a, Zenon DEF Inv, FreshInv, PendingInv, Unread, Unarmed
    <3> SUFFICES ASSUME NEW p \in pending \cap Ops PROVE PendingInv!(p)'
      BY <2>a, SMTT(30) DEF PendingInv
    <3>2. CASE p = o
      BY <3>1, <3>2, <2>a, <2>b, <2>c, Zenon DEF Inv, TypeOK, Unread
    <3>3. CASE p # o
      BY <3>3, <2>a, <2>b, <2>c, SMTT(30) DEF Inv, TypeOK, PendingInv
    <3> QED
      BY <3>2, <3>3, Zenon
  <2>7. BrokenInv'
    BY <2>a, <2>b, <2>c DEF Inv, TypeOK, FreshInv, BrokenInv, Unread
  <2> QED
    BY <2>0, <2>1, <2>2, <2>3, <2>4, <2>5, <2>6, <2>7, Zenon DEF Inv
<1>3. CASE End(o)
  <2>a. /\ scope' \in Scope /\ scope'.minted = scope.minted
        /\ Running(scope') = Open \ {o} /\ Sorted(scope'.running)
        /\ scope'.asked = scope.asked \ {o}
    BY <1>3, ScopeLemma, Zenon DEF End
  <2>b. /\ pc[o] = "done"
        /\ UNCHANGED <<pending, kind, dog, cut, filed, broken>>
    BY <1>3, Zenon DEF End
  <2>c. PICK next \in {"closed", "ended"} :
           /\ next = "ended" => o \notin scope.asked
           /\ pc' = [pc EXCEPT ![o] = next]
    BY <1>3, Zenon DEF End, isAsked
  <2>0. TypeOK'
    BY <2>a, <2>b, <2>c, Zenon DEF Inv, TypeOK
  <2>1. FreshInv'
    <3>1. \A p \in Ops : pc'[p] = IF p = o THEN next ELSE pc[p]
      BY <2>c, Zenon DEF Inv, TypeOK
    <3>2. next \notin Unread \cup {"unborn", "absorb"} /\ next \notin Unarmed
      BY <2>c, Zenon DEF Unread, Unarmed
    <3>3. FreshInv /\ scope'.asked \subseteq scope.asked
      BY <2>a, Zenon DEF Inv
    <3>4. \A p \in filed : p \in Ops /\ pc'[p] # "unborn"
      BY <3>1, <3>2, <3>3, Zenon DEF Inv, TypeOK, FreshInv
    <3> QED
      BY <2>b, <3>1, <3>2, <3>3, <3>4, Zenon DEF FreshInv
  <2>2. ScopeMatchesGuards' /\ MintedInv'
    <3>1. ScopeMatchesGuards'
      BY <2>a, <2>b, <2>c, Zenon DEF Inv, TypeOK, ScopeMatchesGuards, Sorted, Open
    <3>2. MintedInv'
      BY <2>a, <2>b, <2>c, Zenon DEF Inv, TypeOK, MintedInv
    <3> QED BY <3>1, <3>2, Zenon
  <2>3. RequestKept'
    BY <2>a, <2>b, <2>c, Zenon DEF Inv, TypeOK, FreshInv, RequestKept, Open, Unread
  <2>4. AttributionHonest'
    BY <2>a, <2>b, <2>c, Zenon DEF Inv, TypeOK, FreshInv, AttributionHonest, Unread
  <2>5. OwnBreakReported'
    BY <2>a, <2>b, <2>c, SMTT(30) DEF Inv, TypeOK, FreshInv, OwnBreakReported, BrokenInv, Unread
  <2>6. PendingInv'
    <3>1. PendingInv /\ \A p \in Ops : pc'[p] = IF p = o THEN next ELSE pc[p]
      BY <2>c, Zenon DEF Inv, TypeOK
    <3> SUFFICES ASSUME NEW p \in pending \cap Ops PROVE PendingInv!(p)'
      BY <2>b, Zenon DEF PendingInv
    <3>2. CASE p = o
      <4>1. pc'[p] = next /\ (kind[p] \in Draining => p \in scope.asked)
        BY <2>b, <3>1, <3>2, Zenon DEF PendingInv
      <4>2. /\ next # "unborn" /\ next # "absorb" /\ next # "read" /\ next # "done" /\ next \notin Unread
            /\ next = "ended" => p \notin scope.asked
        BY <2>c, <3>2, Zenon DEF Unread
      <4> QED
        BY <2>b, <4>1, <4>2, Zenon
    <3>3. CASE p # o
      <4>1. pc'[p] = pc[p] /\ (p \in scope.asked => p \in scope'.asked)
        BY <2>a, <3>1, <3>3, Zenon
      <4> QED
        BY <2>b, <3>1, <4>1, Zenon DEF PendingInv
    <3> QED
      BY <3>2, <3>3, Zenon
  <2>7. BrokenInv'
    BY <2>a, <2>b, <2>c, ZenonT(30) DEF Inv, TypeOK, FreshInv, BrokenInv, Unread
  <2> QED
    BY <2>0, <2>1, <2>2, <2>3, <2>4, <2>5, <2>6, <2>7, SMTT(30) DEF Inv
<1> QED
  BY <1>1, <1>2, <1>3, Zenon

\* Opening an operation.
LEMMA BeginStep ==
  ASSUME Inv, NEW k \in AllKinds, Begin(k)
  PROVE  Inv'
<1> USE MaxOpsAssumption DEF Phases
<1> DEFINE id == scope.minted + 1
<1>1. Inv'
  <2>a. /\ scope' \in Scope /\ scope'.minted = id /\ scope'.asked = scope.asked
        /\ Running(scope') = Open \cup {id} /\ Sorted(scope'.running)
    BY ScopeLemma, Zenon DEF Begin
  <2>b. id \in Ops /\ pc[id] = "unborn" /\ scope.minted \in Nat
    BY DEF Begin, Inv, TypeOK, MintedInv, Scope
  <2>c. /\ \/ pc' = [pc EXCEPT ![id] = "begun"]
           \/ \E o \in Ops : /\ pc[o] = "absorb"
                             /\ pc' = [pc EXCEPT ![id] = "begun", ![o] = "read"]
        /\ kind' = [kind EXCEPT ![id] = k]
    BY Zenon DEF Begin
  <2>e. UNCHANGED <<pending, dog, cut, filed, broken>>
    BY Zenon DEF Begin
  <2>d. /\ id = scope.minted + 1
        /\ pc'[id] = "begun" /\ kind'[id] = k
        /\ \A p \in Ops \ {id} :
             /\ kind'[p] = kind[p]
             /\ pc'[p] = pc[p] \/ (pc[p] = "absorb" /\ pc'[p] = "read")
    <3> HIDE DEF id
    <3>1. id = scope.minted + 1
      BY Zenon DEF id
    <3> QED
      BY <3>1, <2>b, <2>c DEF Inv, TypeOK
  <2> HIDE DEF id
  <2>f. Open' = Open \cup {id}
    BY <2>b, <2>d, Zenon DEF Open
  <2>0. TypeOK'
    BY <2>a, <2>b, <2>c, <2>e, ZenonT(40) DEF Inv, TypeOK
  <2>1. FreshInv'
    <3>1. ASSUME NEW p \in Ops
          PROVE  /\ pc'[p] \in Unread \cup {"unborn"} => cut'[p] = "none"
                 /\ pc'[p] \in Unarmed => dog'[p] # "fired"
                 /\ pc'[p] = "absorb" => kind'[p] = "attach"
                 /\ pc'[p] \in Unread \ {"begun"} => kind'[p] # "chunked"
      <4>1. CASE p = id
        BY <4>1, <2>b, <2>d, <2>e, Zenon DEF Inv, FreshInv, Unarmed
      <4>2. CASE p # id
        <5>1. p \in Ops \ {id} /\ FreshInv
          BY <4>2, Zenon DEF Inv
        <5>2. kind'[p] = kind[p] /\ (pc'[p] = pc[p] \/ pc'[p] = "read")
          BY <2>d, <5>1, Zenon
        <5>3. "read" \notin Unread \cup {"unborn", "absorb"} /\ "read" \notin Unarmed
          BY Zenon DEF Unread, Unarmed
        <5>4. cut'[p] = cut[p] /\ dog'[p] = dog[p]
          BY <2>e, Zenon
        <5> QED
          BY <5>1, <5>2, <5>3, <5>4, Zenon DEF FreshInv
      <4> QED
        BY <4>1, <4>2, Zenon
    <3>2. ASSUME NEW p \in filed' PROVE pc'[p] # "unborn"
      BY <2>d, <2>e DEF Inv, TypeOK, FreshInv
    <3> QED
      BY <3>1, <3>2, <2>a, <2>e, Zenon DEF Inv, FreshInv
  <2>2. ScopeMatchesGuards' /\ MintedInv'
    <3>1. ScopeMatchesGuards'
      BY <2>a, <2>f, Zenon DEF Inv, ScopeMatchesGuards, Sorted
    <3>2. scope'.minted \in 0 .. MaxOps
      BY <2>a, <2>b DEF Ops
    <3>3. ASSUME NEW o \in Ops PROVE pc'[o] = "unborn" <=> o > scope'.minted
      <4>1. CASE o = id
        BY <2>a, <2>b, <2>d, <4>1 DEF Ops
      <4>2. CASE o # id
        <5>1. pc'[o] = "unborn" <=> pc[o] = "unborn"
          BY <2>d, <4>2, Zenon
        <5>2. pc[o] = "unborn" <=> o > scope.minted
          BY Zenon DEF Inv, MintedInv
        <5>3. o > scope.minted <=> o > id
          BY <2>b, <2>d, <4>2 DEF Ops
        <5> QED  BY <2>a, <5>1, <5>2, <5>3, Zenon
      <4> QED  BY <4>1, <4>2, Zenon
    <3> QED  BY <3>1, <3>2, <3>3, Zenon DEF MintedInv
  <2>3. RequestKept'
    BY <2>a, <2>b, <2>d, <2>e, <2>f, SMTT(30) DEF Inv, TypeOK, FreshInv, RequestKept, Open, Unread
  <2>4. AttributionHonest'
    BY <2>a, <2>b, <2>d, <2>e, <2>f, SMTT(30) DEF Inv, TypeOK, FreshInv, AttributionHonest, Unread
  <2>5. OwnBreakReported'
    BY <2>a, <2>b, <2>d, <2>e, <2>f, SMTT(30) DEF Inv, TypeOK, FreshInv, OwnBreakReported, BrokenInv, Unread
  <2>6. PendingInv'
    BY <2>a, <2>b, <2>d, <2>e, <2>f DEF Inv, TypeOK, FreshInv, PendingInv, Unread, Unarmed, Draining
  <2>7. BrokenInv'
    BY <2>a, <2>b, <2>d, <2>e, <2>f, ZenonT(40) DEF Inv, TypeOK, FreshInv, BrokenInv, Unread
  <2> QED
    BY <2>0, <2>1, <2>2, <2>3, <2>4, <2>5, <2>6, <2>7, Zenon DEF Inv
<1> QED
  BY <1>1, Zenon

-----------------------------------------------------------------------------
(* The theorems.                                                           *)

\* Before any operation begins.
LEMMA InitInv == Init => Inv
<1> SUFFICES ASSUME Init PROVE Inv
  BY Zenon
<1> USE MaxOpsAssumption DEF Init, NewScope
<1>1. TypeOK
  BY DEF TypeOK, Scope, Phases, AllKinds
<1>2. ScopeMatchesGuards
  BY DEF ScopeMatchesGuards, Running, Open
<1>3. MintedInv /\ FreshInv
  BY DEF MintedInv, FreshInv, Unread, Unarmed
<1>4. RequestKept /\ AttributionHonest /\ OwnBreakReported /\ PendingInv /\ BrokenInv
  BY Zenon DEF RequestKept, AttributionHonest, OwnBreakReported, PendingInv, BrokenInv
<1> QED
  BY <1>1, <1>2, <1>3, <1>4, Zenon DEF Inv

\* Every step of an operation, its watchdog, the caller and the host.
LEMMA NextInv == Inv /\ [Next]_vars => Inv'
<1> SUFFICES ASSUME Inv, [Next]_vars PROVE Inv'
  BY Zenon
<1>1. CASE Interrupt \/ reload_symbols \/ interrupted
  BY <1>1, CallerStep, Zenon
<1>2. CASE \E k \in AllKinds : Begin(k)
  BY <1>2, BeginStep, Zenon
<1>3. ASSUME NEW o \in Ops,
             Raise(o) \/ Step(o) \/ Refuse(o) \/ BreakIn(o) \/ Return(o)
      PROVE  Inv'
  BY <1>3, EngineStep, ReaderStep, Zenon DEF Step
<1>4. CASE UNCHANGED vars
  BY <1>4, ZenonT(40) DEF vars, Inv, TypeOK, ScopeMatchesGuards, MintedInv, FreshInv,
     RequestKept, AttributionHonest, OwnBreakReported, PendingInv, BrokenInv, Open
<1> QED
  BY <1>1, <1>2, <1>3, <1>4, Zenon DEF Next

\* The invariant that carries the proofs below holds of every behaviour.
THEOREM Invariance == Spec => []Inv
<1> QED
  BY InitInv, NextInv, PTL DEF Spec

\* Every variable has its type.
THEOREM TypeCorrect == Spec => []TypeOK
<1>1. Inv => TypeOK
  BY Zenon DEF Inv
<1> QED
  BY <1>1, Invariance, PTL

\* The scope names exactly the guards alive, and holds no request against any
\* other operation: `begin`, `end` and `take` keep the stack and the set of
\* requests in step with the code's lexical nesting.
THEOREM ScopeMatchesGuardsHolds == Spec => []ScopeMatchesGuards
<1>1. Inv => ScopeMatchesGuards
  BY Zenon DEF Inv
<1> QED
  BY <1>1, Invariance, PTL

\* No request a host was told was raised is erased before its operation closes.
THEOREM RequestKeptHolds == Spec => []RequestKept
<1>1. Inv => RequestKept
  BY Zenon DEF Inv
<1> QED
  BY <1>1, Invariance, PTL

\* OnRequest is reported only to the operation a request named, Deadline only
\* where the operation's own bound passed.
THEOREM AttributionHonestHolds == Spec => []AttributionHonest
<1>1. Inv => AttributionHonest
  BY Zenon DEF Inv
<1> QED
  BY <1>1, Invariance, PTL

\* A call ended by its own break is never reported as ended by itself.
THEOREM OwnBreakReportedHolds == Spec => []OwnBreakReported
<1>1. Inv => OwnBreakReported
  BY Zenon DEF Inv
<1> QED
  BY <1>1, Invariance, PTL

\* A draining operation leaves no break of its own behind.
THEOREM NextStartsCleanHolds == Spec => []NextStartsClean
<1>1. Inv => NextStartsClean
  BY Zenon DEF Inv, PendingInv, NextStartsClean
<1> QED
  BY <1>1, Invariance, PTL

\* The drain of a reload never takes an enclosing operation's break.
THEOREM ReloadSparesEnclosingHolds == Spec => ReloadSparesEnclosing
<1> DEFINE Spares(o) == pc[o] = "begun" /\ pc'[o] = "primed"
                          => \A p \in Open \ {o} : p \in pending => p \in pending'
<1>1. ASSUME Inv, [Next]_vars, NEW o \in Ops PROVE Spares(o)
  <2> SUFFICES ASSUME pc[o] = "begun", pc'[o] = "primed"
               PROVE  \A p \in Open \ {o} : p \in pending => p \in pending'
    BY Zenon
  <2>1. pc \in [Ops -> Phases] /\ Running(scope) = Open
    BY <1>1, SMTT(30) DEF Inv, TypeOK, ScopeMatchesGuards
  <2>2. Prime(o)
    <3>1. ~UNCHANGED pc
      BY Zenon
    <3>2. ~(\E k \in AllKinds : Begin(k))
      BY <2>1, Zenon DEF Begin, Phases
    <3>3. ASSUME NEW p \in Ops, Step(p) \/ Refuse(p) \/ BreakIn(p) \/ Return(p)
          PROVE  Prime(o)
      <4>1. p = o
        BY <2>1, <3>3, Zenon DEF Step, Prime, Issue, Arm, Enter, Disarm, Read, Poll, Account,
           End, DropDrain, Refuse, BreakIn, Return
      <4> QED
        BY <2>1, <3>3, <4>1, Zenon DEF Step, Issue, Arm, Enter, Disarm, Read, Poll, Account,
           End, DropDrain, Refuse, BreakIn, Return, AfterRead
    <3> QED
      BY <1>1, <3>1, <3>2, <3>3, Zenon DEF Next, vars, Interrupt, reload_symbols, interrupted, Raise
  <2>3. CASE Open \subseteq {o}
    BY <2>3, Zenon
  <2>4. CASE ~(Open \subseteq {o})
    BY <2>1, <2>2, <2>4, Zenon DEF Prime, drain_an_unowned_break
  <2> QED
    BY <2>3, <2>4, Zenon
<1>2. Inv /\ [Next]_vars => [\A o \in Ops : Spares(o)]_vars
  BY <1>1, SMTT(30)
<1> QED
  BY <1>2, Invariance, PTL DEF Spec, ReloadSparesEnclosing

-----------------------------------------------------------------------------
(* The watchdogs.                                                          *)

\* A watchdog is there only once it was armed, and an open, the one kind that
\* pumps again, has none.
DogInv ==
  \A o \in Ops : /\ pc[o] \in Unarmed => dog[o] = "off"
                 /\ kind[o] = "open" => dog[o] = "off"

\* Every step keeps a watchdog to the operation it was armed for.
LEMMA DogStep == Inv /\ DogInv /\ [Next]_vars => DogInv'
<1> SUFFICES ASSUME Inv, DogInv, [Next]_vars PROVE DogInv'
  BY Zenon
<1>0. TypeOK /\ MintedInv
  BY Zenon DEF Inv
<1> USE DEF DogInv, Unarmed, TypeOK
<1>1. CASE UNCHANGED vars
  BY <1>1, SMTT(30) DEF vars
<1>2. CASE Interrupt \/ reload_symbols \/ interrupted
  BY <1>2, Zenon DEF Interrupt, reload_symbols, interrupted
<1>3. ASSUME NEW k \in AllKinds, Begin(k) PROVE DogInv'
  <2>1. scope.minted + 1 \in Ops /\ pc[scope.minted + 1] = "unborn"
    BY <1>0, <1>3, MaxOpsAssumption DEF Begin, MintedInv
  <2>2. \A o \in Ops : pc'[o] \in Unarmed => pc[o] \in Unarmed
    BY <1>0, <1>3, <2>1, Zenon DEF Begin, Phases
  <2>3. \A o \in Ops : kind'[o] = "open" => kind[o] = "open" \/ pc[o] = "unborn"
    BY <1>0, <1>3, <2>1, Zenon DEF Begin
  <2>4. UNCHANGED dog
    BY <1>3, Zenon DEF Begin
  <2> QED
    BY <2>2, <2>3, <2>4, SMTT(30)
<1>4. ASSUME NEW o \in Ops, Raise(o) PROVE DogInv'
  BY <1>0, <1>4, Zenon DEF Raise
<1>5. ASSUME NEW o \in Ops, Arm(o) PROVE DogInv'
  <2>1. \A p \in Ops \ {o} : pc'[p] = pc[p] /\ kind'[p] = kind[p] /\ dog'[p] = dog[p]
    BY <1>0, <1>5, Zenon DEF Arm
  <2>2. pc'[o] = "armed" /\ kind'[o] = kind[o]
    BY <1>0, <1>5, Zenon DEF Arm
  <2>3. kind[o] = "open" => dog'[o] = "off"
    BY <1>0, <1>5, Zenon DEF Arm, Watched
  <2> QED
    BY <2>1, <2>2, <2>3, Zenon
<1>6. ASSUME NEW o \in Ops, Read(o) PROVE DogInv'
  <2>1. \A p \in Ops \ {o} : pc'[p] = pc[p]
    BY <1>0, <1>6, Zenon DEF Read
  <2>2. pc'[o] \in {"absorb", "read"} \/ kind[o] = "open"
    BY <1>0, <1>6, Zenon DEF Read, AfterRead
  <2>3. UNCHANGED <<kind, dog>>
    BY <1>6, Zenon DEF Read
  <2> QED
    BY <2>1, <2>2, <2>3, Zenon
<1>7. ASSUME NEW o \in Ops,
             \/ Prime(o) \/ Issue(o) \/ Enter(o) \/ Disarm(o) \/ Poll(o) \/ Account(o)
             \/ End(o) \/ DropDrain(o) \/ Refuse(o) \/ BreakIn(o) \/ Return(o)
      PROVE  DogInv'
  <2>1. \A p \in Ops : pc'[p] \in Unarmed => pc[p] \in Unarmed
    BY <1>0, <1>7, ZenonT(40) DEF Prime, Issue, Enter, Disarm, Poll, Account, End, DropDrain, Refuse,
       BreakIn, Return
  <2>2. UNCHANGED <<kind, dog>>
    BY <1>7, Zenon DEF Prime, Issue, Enter, Disarm, Poll, Account, End, DropDrain, Refuse, BreakIn,
       Return
  <2> QED
    BY <2>1, <2>2, Zenon
<1> QED
  BY <1>1, <1>2, <1>3, <1>4, <1>5, <1>6, <1>7, Zenon DEF Next, Step

\* The watchdogs of any number of operations keep the promise of AbstractWatchdog:
\* a step of the operations is a break, an answer of `disarm`, or none of the
\* watchdogs' business.
THEOREM WatchdogsImplement == Spec => WatchdogsAsPromised
<1> DEFINE fired == {o \in Ops : dog[o] = "fired"}
           report == [o \in Ops |-> IF ~Answered(o) THEN "open"
                                    ELSE IF dog[o] = "fired" THEN "broke" ELSE "quiet"]
<1>1. Init => Promise!Init
  BY DEF Init, Promise!Init, Answered
<1>2. Init => DogInv
  BY Zenon DEF Init, DogInv
<1>3. Inv /\ DogInv /\ [Next]_vars => [Promise!Next]_<<fired, report>>
  <2> SUFFICES ASSUME Inv, DogInv, [Next]_vars PROVE [Promise!Next]_<<fired, report>>
    BY Zenon
  <2>0. TypeOK /\ MintedInv
    BY Zenon DEF Inv
  <2>1. ASSUME NEW o \in Ops, Raise(o) PROVE Promise!Raise(o)
    <3>1. report[o] = "open"
      BY <2>1, Zenon DEF Raise, Answered
    <3>2. fired' = fired \cup {o}
      BY <2>0, <2>1, Zenon DEF Raise, TypeOK
    <3>3. \A p \in Ops : Answered(p)' = Answered(p) /\ (Answered(p) => dog'[p] = dog[p])
      BY <2>0, <2>1, Zenon DEF Raise, TypeOK, Answered
    <3>4. report' = report
      BY <3>3, Zenon
    <3> QED
      BY <3>1, <3>2, <3>4, Zenon DEF Promise!Raise
  <2>2. ASSUME NEW o \in Ops, Disarm(o), dog[o] # "off" PROVE Promise!Disarm(o)
    <3>1. report[o] = "open"
      BY <2>2, Zenon DEF Disarm, Answered
    <3>2. fired' = fired
      BY <2>2, Zenon DEF Disarm
    <3>3. \A p \in Ops \ {o} : Answered(p)' = Answered(p) /\ dog'[p] = dog[p]
      BY <2>0, <2>2, Zenon DEF Disarm, TypeOK, Answered
    <3>4. Answered(o)' /\ dog'[o] = dog[o]
      BY <2>0, <2>2, Zenon DEF Disarm, TypeOK, Answered
    <3>5. report' = [report EXCEPT ![o] = IF o \in fired THEN "broke" ELSE "quiet"]
      BY <3>3, <3>4, Zenon
    <3> QED
      BY <3>1, <3>2, <3>5, Zenon DEF Promise!Disarm
  <2>3. ASSUME \A p \in Ops : /\ Answered(p)' = Answered(p)
                              /\ dog'[p] = "fired" <=> dog[p] = "fired"
        PROVE  UNCHANGED <<fired, report>>
    BY <2>3, Zenon
  <2>4. CASE UNCHANGED vars
    BY <2>3, <2>4, Zenon DEF vars, Answered
  <2>5. CASE Interrupt \/ reload_symbols \/ interrupted
    <3>1. UNCHANGED <<pc, dog>>
      BY <2>5, Zenon DEF Interrupt, reload_symbols, interrupted
    <3> QED
      BY <2>3, <3>1, SMTT(30) DEF Answered
  <2>6. ASSUME NEW k \in AllKinds, Begin(k) PROVE UNCHANGED <<fired, report>>
    <3>1. scope.minted + 1 \in Ops /\ pc[scope.minted + 1] = "unborn"
      BY <2>0, <2>6, MaxOpsAssumption DEF Begin, MintedInv
    <3>2. UNCHANGED dog /\ dog[scope.minted + 1] = "off"
      BY <2>6, <3>1, Zenon DEF Begin, DogInv, Unarmed
    <3>3. \A p \in Ops : \/ pc'[p] = pc[p] \/ p = scope.minted + 1
                         \/ pc[p] = "absorb" /\ pc'[p] = "read"
      BY <2>0, <2>6, <3>1, Zenon DEF Begin, TypeOK
    <3> QED
      BY <2>3, <3>2, <3>3, Zenon DEF Answered
  <2>7. ASSUME NEW o \in Ops, Arm(o) PROVE UNCHANGED <<fired, report>>
    <3>1. dog[o] = "off" /\ pc'[o] = "armed" /\ dog'[o] # "fired"
      BY <2>0, <2>7, Zenon DEF Arm, DogInv, Unarmed, TypeOK
    <3>2. \A p \in Ops \ {o} : pc'[p] = pc[p] /\ dog'[p] = dog[p]
      BY <2>0, <2>7, Zenon DEF Arm, TypeOK
    <3> QED
      BY <2>3, <3>1, <3>2, Zenon DEF Answered
  <2>8. ASSUME NEW o \in Ops,
               \/ Prime(o) \/ Issue(o) \/ Enter(o) \/ Read(o) \/ Poll(o) \/ Account(o)
               \/ End(o) \/ DropDrain(o) \/ Refuse(o) \/ BreakIn(o) \/ Return(o)
               \/ Disarm(o) /\ dog[o] = "off"
        PROVE  UNCHANGED <<fired, report>>
    <3>1. UNCHANGED dog
      BY <2>8, Zenon DEF Prime, Issue, Enter, Read, Poll, Account, End, DropDrain, Refuse, BreakIn,
         Return, Disarm
    <3>2. \A p \in Ops \ {o} : pc'[p] = pc[p]
      BY <2>0, <2>8, Zenon DEF Prime, Issue, Enter, Read, Poll, Account, End, DropDrain, Refuse,
         BreakIn, Return, Disarm, TypeOK
    <3>3. dog[o] = "off" \/ (pc[o] \in {"armed", "inside", "back"} <=> pc'[o] \in {"armed", "inside", "back"})
      BY <2>0, <2>8, Zenon DEF Prime, Issue, Enter, Read, Poll, Account, End, DropDrain, Refuse,
         BreakIn, Return, Disarm, TypeOK, DogInv, Unarmed, AfterRead
    <3> QED
      BY <2>3, <3>1, <3>2, <3>3, Zenon DEF Answered
  <2> QED
    BY <2>1, <2>2, <2>4, <2>5, <2>6, <2>7, <2>8, Zenon DEF Next, Step, Promise!Next
<1> QED
  BY <1>1, <1>2, <1>3, DogStep, Invariance, PTL
  DEF Spec, WatchdogsAsPromised, Promise!Spec

\* Why a call ended is reported truly, for any number of operations however nested: a host's
\* request only if one named the operation, its deadline only if that passed, and a break of
\* its own never as a natural end (`cut_short_by`, `pump`).
THEOREM ReportsHonestHolds == Spec => []ReportsHonest
<1>1. AttributionHonest /\ OwnBreakReported => ReportsHonest
  BY Zenon DEF ReportsHonest
<1> QED
  BY <1>1, AttributionHonestHolds, OwnBreakReportedHolds, PTL
=============================================================================
