-------------------------------- MODULE Events --------------------------------
(***************************************************************************)
(* Why a target stopped, and the stacks read from it.  The last event and  *)
(* the selected thread move with the session; the event a dump was stored  *)
(* on does not, and the register context it carries belongs to that target *)
(* alone.                                                                  *)
(***************************************************************************)
EXTENDS Integers, Sequences

CONSTANTS
  Dumps,               \* the targets there are
  STORED_CONTEXT_SIZES,\* the sizes of buffer a context is read into, smallest first
  RecordSize, MaxParameters, \* of an exception record
  MaxEventFaults, MaxMoves   \* bounds of the instance: calls that may fail, changes of the session

(* A target: [kernel, code, stored |-> event or NoEvent, size |-> of its CONTEXT].  An event:     *)
(* [kind, used |-> bytes of record written, count |-> NumberParameters, thread].  The engine      *)
(* writes no more of a record than the buffer it was handed.                                      *)
ASSUME EventAssumption ==
  /\ RecordSize \in Nat /\ MaxParameters \in Nat
  /\ STORED_CONTEXT_SIZES \in Seq(Nat) /\ STORED_CONTEXT_SIZES # <<>>
  /\ \A d \in Dumps : d.size \in Nat /\ d.stored.used \in 0 .. RecordSize /\ d.stored.count \in Nat

VARIABLES
  opened,              \* the open target, its identity, its last event and its selected thread
  asking,              \* the question in progress
  reply,               \* its answer
  carried,                \* the register context a caller holds
  lapses, moves

eventVars == <<opened, asking, reply, carried, lapses, moves>>

NoEvent == [kind |-> 0, used |-> 0, count |-> 0, thread |-> 0]
EXCEPTION == 2
E_UNEXPECTED == "E_UNEXPECTED"
E_INVALIDARG == "E_INVALIDARG"
E_FAIL == "E_FAIL"
Quiet == [pc |-> "idle"]
NoReply == [kind |-> "none"]
NoContext == [len |-> 0, target |-> 0, thread |-> 0]

EventInit ==
  /\ \E d \in Dumps : opened = [dump |-> d, id |-> 1, last |-> NoEvent, selected |-> 1]
  /\ asking = Quiet /\ reply = NoReply /\ carried = NoContext /\ lapses = 0 /\ moves = 0
Lapse == lapses < MaxEventFaults /\ lapses' = lapses + 1
Resting == asking.pc = "idle"
Moves == Resting /\ moves < MaxMoves /\ moves' = moves + 1 /\ reply' = NoReply

(* The session moves on between two questions. *)
Pump == Moves /\ \E e \in {opened.dump.stored, [kind |-> 1, used |-> 1, count |-> 0, thread |-> 2]} \ {NoEvent} :
          opened' = [opened EXCEPT !.last = e, !.selected = e.thread] /\ UNCHANGED <<asking, carried, lapses>>
SelectThread == Moves /\ \E t \in {1, 2} : opened' = [opened EXCEPT !.selected = t] /\ UNCHANGED <<asking, carried, lapses>>
Reopen ==
  /\ Moves
  /\ \E d \in Dumps : opened' = [dump |-> d, id |-> opened.id + 1, last |-> NoEvent, selected |-> 1]
  /\ UNCHANGED <<asking, carried, lapses>>
Asks == Resting /\ UNCHANGED <<opened, moves>>
BugCheckFailed == [kind |-> "failed"]

(* ExtraEventInfo::exception: the buffer is a record only for an exception that wrote all of it,  *)
(* and a record's parameters are cut to the count it declares.                                    *)
exception(event) == event.kind = EXCEPTION /\ event.used >= RecordSize
from_raw(event) == [parameters |-> IF event.count < MaxParameters THEN event.count ELSE MaxParameters]
DebugEvent(event, context) ==
  [kind |-> "event", event |-> event, record |-> IF exception(event) THEN <<from_raw(event)>> ELSE <<>>, context |-> context]

last_event ==
  /\ Asks
  /\ \/ Lapse /\ reply' = [kind |-> "failed"]
     \/ /\ reply' = IF opened.last.kind = 0 THEN [kind |-> "no event"] ELSE DebugEvent(opened.last, NoContext)
        /\ UNCHANGED lapses
  /\ UNCHANGED <<asking, carried>>
bug_check ==
  /\ Asks
  /\ IF ~opened.dump.kernel THEN reply' = BugCheckFailed /\ UNCHANGED lapses
     ELSE \/ Lapse /\ reply' = BugCheckFailed
          \/ /\ reply' = IF opened.dump.code = 0 THEN [kind |-> "no bug check"] ELSE [kind |-> "bug check", code |-> opened.dump.code]
             /\ UNCHANGED lapses
  /\ UNCHANGED <<asking, carried>>

(* stored_event: the engine truncates a context to the buffer it is offered and says only that it *)
(* filled it, so a buffer filled to the brim is tried again larger while there is a larger one.   *)
StoredBegin ==
  /\ Asks
  /\ asking' = [pc |-> "stored", rung |-> 1, refused |-> FALSE] /\ reply' = NoReply
  /\ UNCHANGED <<carried, lapses>>
Brim(used, rung) == used >= STORED_CONTEXT_SIZES[rung] /\ rung < Len(STORED_CONTEXT_SIZES)
no_stored_event(code) == code = E_UNEXPECTED
StoredFails(code) ==
  IF no_stored_event(code) THEN reply' = [kind |-> "no stored event"] /\ asking' = Quiet
  ELSE IF code = E_INVALIDARG /\ asking.rung < Len(STORED_CONTEXT_SIZES)
       THEN asking' = [asking EXCEPT !.rung = @ + 1, !.refused = TRUE] /\ UNCHANGED reply
       ELSE reply' = [kind |-> "failed"] /\ asking' = Quiet
Rung ==
  /\ asking.pc = "stored"
  /\ \/ /\ opened.dump.stored = NoEvent
        /\ StoredFails(E_UNEXPECTED) /\ UNCHANGED <<carried, lapses>>
     \/ Lapse /\ (\E code \in {E_FAIL, E_INVALIDARG} : StoredFails(code)) /\ UNCHANGED carried
     \/ /\ opened.dump.stored # NoEvent
        /\ \E overstates \in BOOLEAN :
             LET size == STORED_CONTEXT_SIZES[asking.rung]
                 written == IF opened.dump.size < size THEN opened.dump.size ELSE size
                 used == IF overstates THEN opened.dump.size ELSE written
                 len == IF used < size THEN used ELSE size
                 context == [len |-> len, target |-> opened.id, thread |-> opened.dump.stored.thread]
             IN IF Brim(used, asking.rung)
                THEN asking' = [asking EXCEPT !.rung = @ + 1] /\ UNCHANGED <<reply, carried>>
                ELSE /\ carried' = IF len = 0 THEN NoContext ELSE context
                     /\ reply' = DebugEvent(opened.dump.stored, carried')
                     /\ asking' = Quiet
        /\ UNCHANGED lapses
  /\ UNCHANGED <<opened, moves>>

(* The engine's frames, each as the target and the thread it is of.  A walk is clamped to what    *)
(* was asked for whatever the engine says it filled.                                              *)
Frames(id, thread, n) == [k \in 1 .. n |-> [target |-> id, thread |-> thread, index |-> k - 1]]
clamp(filled, max) == IF filled < max THEN filled ELSE max
stack_frames(max) ==
  /\ Asks
  /\ \/ max = 0 /\ reply' = [kind |-> "frames", of |-> "selected", max |-> max, frames |-> <<>>] /\ UNCHANGED lapses
     \/ max > 0 /\ Lapse /\ reply' = [kind |-> "failed"]
     \/ max > 0 /\ UNCHANGED lapses /\ \E filled \in 0 .. max + 1 :
          reply' = [kind |-> "frames", of |-> "selected", max |-> max,
                    frames |-> Frames(opened.id, opened.selected, clamp(filled, max))]
  /\ UNCHANGED <<asking, carried>>
OfTarget_any(context) == TRUE
OfTarget(context) == context.target = opened.id
(* A context is only made of the bytes of a stored event, so it is never empty here. *)
stack_frames_from(max) ==
  /\ Asks /\ carried # NoContext
  /\ \/ max = 0 /\ reply' = [kind |-> "frames", of |-> "context", max |-> max, frames |-> <<>>] /\ UNCHANGED lapses
     \/ max > 0 /\ ~OfTarget(carried) /\ reply' = [kind |-> "ContextFromAnotherTarget"] /\ UNCHANGED lapses
     \/ max > 0 /\ OfTarget(carried) /\ Lapse /\ reply' = [kind |-> "failed"]
     \/ max > 0 /\ OfTarget(carried) /\ UNCHANGED lapses /\ \E filled \in 0 .. max + 1 :
          reply' = [kind |-> "frames", of |-> "context", max |-> max,
                    frames |-> Frames(opened.id, carried.thread, clamp(filled, max))]
  /\ UNCHANGED <<asking, carried>>

EventNext ==
  \/ Pump \/ SelectThread \/ Reopen \/ last_event \/ bug_check \/ StoredBegin \/ Rung
  \/ \E max \in 0 .. 2 : stack_frames(max) \/ stack_frames_from(max)
EventSpec == EventInit /\ [][EventNext]_eventVars

--------------------------------------------------------------------------------
(* A context is the target's whole CONTEXT unless it is larger than every buffer: one cut short   *)
(* would be refused from a caller that did nothing wrong.                                         *)
ContextIsWhole ==
  reply.kind = "event" /\ reply.context.len > 0 =>
    \/ reply.context.len = opened.dump.size
    \/ opened.dump.size > STORED_CONTEXT_SIZES[Len(STORED_CONTEXT_SIZES)]

(* A stack walked from a recorded context is that event's, on the target it was recorded on,      *)
(* whatever the session has selected or opened since.                                             *)
CrashStackStays ==
  reply.kind = "frames" /\ reply.of = "context" =>
    \A k \in DOMAIN reply.frames :
      reply.frames[k].target = carried.target /\ reply.frames[k].thread = opened.dump.stored.thread

(* An event carries a record only where the engine wrote a whole one, and the record never more   *)
(* parameters than it holds.                                                                      *)
RecordIsWritten ==
  reply.kind = "event" /\ reply.record # <<>> =>
    /\ reply.event.kind = EXCEPTION /\ reply.event.used = RecordSize
    /\ reply.record[1].parameters <= MaxParameters /\ reply.record[1].parameters <= reply.event.count

(* A target is said to have no stored event only when it has none: a call that failed is not an   *)
(* answer.                                                                                        *)
StoredNoneIsNone == reply.kind = "no stored event" => opened.dump.stored = NoEvent

(* Only a kernel is said not to have bug checked. *)
NoBugCheckIsKernels == reply.kind = "no bug check" => opened.dump.kernel /\ opened.dump.code = 0

(* What is said of an event is what the target was stored on: a whole context or none, a record   *)
(* the engine wrote, no event only where there is none; and a stack walked from a context is that *)
(* event's, whatever was opened or selected since.                                                *)
EventsHonest ==
  /\ ContextIsWhole /\ CrashStackStays /\ RecordIsWritten
  /\ NoBugCheckIsKernels /\ StoredNoneIsNone
=============================================================================
