------------------------------ MODULE MCEngine ------------------------------
(***************************************************************************)
(* Instances for TLC of the engine's own calls (breakpoints, memory, the   *)
(* attach to a kernel) and of the questions put to a target (queries, a    *)
(* replay, modules, events).  A behaviour is of one of them.               *)
(***************************************************************************)
EXTENDS Breakpoints, MemoryReads, KernelAttach, TargetQueries, TimeTravel, Events

VARIABLE subject  \* which of them a behaviour exercises

Plain == [at |-> [kind |-> "Address", address |-> 4], size |-> 0, access |-> "Read", command |-> "", thread |-> None,
          passes |-> 0, one_shot |-> FALSE, enabled |-> TRUE, replace |-> FALSE]
Sym(e) == [kind |-> "Expression", text |-> e]
MCSpecs ==
  {[Plain EXCEPT !.command = "log"],
   [Plain EXCEPT !.at = Sym("even"), !.size = 4, !.access = "ReadWrite", !.passes = 2, !.replace = TRUE,
                 !.one_shot = TRUE],
   [Plain EXCEPT !.at = Sym("odd"), !.size = 2, !.access = "Other", !.thread = 1],
   [Plain EXCEPT !.at.address = 6, !.size = 4], [Plain EXCEPT !.size = 3]}
MCValueOf == [even |-> 4, odd |-> 5]
MCMemories == {(0 .. 15) \ (a .. b) : a \in {0, 3, 4, 6, 8, 12, 15}, b \in {2, 3, 7, 11, 15}}
MCRegions == {[base |-> b, size |-> n, state |-> s] : b \in {0, 4, 12}, n \in {0, 4, 12},
              s \in SUBSET {"commit", "reserve", "free", "new"}}
MCPREFIX == <<"C", "t">>

(* The parts a behaviour does not exercise, at rest. *)
NoBreakpoints == held = <<>> /\ refusals = 0 /\ loaded = FALSE /\ setting = Idle /\ reported = Unreported
NoReads == readable = {} /\ overclaims = FALSE /\ job = NoJob /\ pressing = {} /\ tardy = FALSE /\ got = Nothing
NoKernel ==
  /\ engine = [initial_break |-> FALSE, callback |-> "host", mask |-> {}, pending |-> 0]
  /\ hosts = [mask |-> {}, expected |-> FALSE, heard |-> FALSE]
  /\ target = "none" /\ notice = Fresh /\ printed = <<>> /\ attach = NoAttach /\ faults = 0

Process ==
  [type |-> TRUE, field |-> TRUE, info |-> "read", string |-> "read", length |-> 10, buffer |-> "read", array |-> TRUE,
   path |-> <<"\\", "d", "\\", "a", "b">>]
Kernel ==
  [status |-> "break", class |-> "kernel", connection |-> "net", files |-> <<>>, processors |-> 1, current |-> 0,
   thread |-> <<>>, modules |-> <<[name |-> "hal", base |-> 5, stamp |-> 7], [name |-> "nt", base |-> 8, stamp |-> 9],
                                 [name |-> "fs", base |-> 3, stamp |-> 1]>>,
   process |-> Process, executable |-> <<"n", "t">>, fields |-> <<"x", "", "y">>]
Long == [Process EXCEPT !.path = <<"a", "b", "c", "d">>, !.length = 8]
MCDebuggees ==
  {[Kernel EXCEPT !.processors = n, !.current = c, !.thread = t] :
     <<n, c, t>> \in {<<n, c, t>> \in (0 .. 3) \X (0 .. 3) \X UNION {[0 .. m - 1 -> {0, 1, 2}] : m \in 0 .. 3} :
                       DOMAIN t = 0 .. n - 1}}
  \cup {[Kernel EXCEPT !.process = p, !.thread = [i \in {0} |-> 0]] :
          p \in UNION {{[q EXCEPT !.type = y, !.info = i, !.buffer = b, !.length = n, !.array = a] :
                   y \in BOOLEAN, i \in {"read", "zero", "missing"}, b \in {"read", "zero", "missing"},
                   n \in {0, 2 * Len(q.path), 2 * Len(q.path) + 1, 99}, a \in BOOLEAN} : q \in {Process, Long}}}
  \cup {[Kernel EXCEPT !.class = "user", !.connection = "", !.files = f, !.modules = <<>>] :
          f \in {<<>>, <<"">>, <<"a">>, <<"a", "", "b">>}}
NoQuestions == debuggee = Empty /\ query = NoQuery /\ answer = Unasked /\ lost = 0 /\ crashed = FALSE

MCIpAt == [p \in 0 .. 4 |-> <<1, 2, 3, 2, 4>>[p + 1]]
MCThreadAt == [p \in 0 .. 4 |-> IF p \in {1, 2, 4} THEN 11 ELSE 10]
NoReplay ==
  /\ replay = [trace |-> FALSE, pos |-> 0, thread |-> ThreadAt[0], pending |-> FALSE]
  /\ run = NoRun /\ landing = NoLanding /\ outcome = "none" /\ odd = 0

Mod(name, base, size, symbols, unloaded) ==
  [name |-> name, base |-> base, size |-> size, symbols |-> symbols, unloaded |-> unloaded,
   sizes |-> IF unloaded THEN 0 ELSE 5, file |-> base + 100, signature |-> IF symbols = 3 THEN base + 200 ELSE 0]
MCModuleTables ==
  {[loaded |-> l, unloaded |-> u] :
     l \in {<<>>, <<Mod("a", 1, 2, 3, FALSE)>>, <<Mod("a", 1, 2, 5, FALSE), Mod("b", 5, 2, 3, FALSE)>>,
            <<Mod("b", 4, 3, 9, FALSE), Mod("a", 1, 2, 3, FALSE), Mod("a", 8, 1, 4, FALSE)>>},
     u \in {<<>>, <<Mod("c", 1, 2, 0, TRUE)>>, <<Mod("c", 5, 2, 0, TRUE), Mod("a", 9, 1, 0, TRUE)>>}}
NoModules == table = [loaded |-> <<>>, unloaded |-> <<>>] /\ request = NoRequest /\ told = Untold /\ missed = 0

MCLadder == <<2, 4, 8>>
Ev(kind, used, count, thread) == [kind |-> kind, used |-> used, count |-> count, thread |-> thread]
MCDumps ==
  {[kernel |-> k, code |-> IF k THEN c ELSE 0, stored |-> e, size |-> n] :
     k \in BOOLEAN, c \in {0, 9}, n \in {0, 1, 2, 3, 8, 9},
     e \in {NoEvent, Ev(2, 3, 1, 1), Ev(2, 3, 5, 2), Ev(2, 1, 2, 1), Ev(4, 3, 1, 2)}}
NoTarget ==
  /\ opened = [dump |-> [kernel |-> FALSE, code |-> 0, stored |-> NoEvent, size |-> 1], id |-> 1, last |-> NoEvent, selected |-> 1]
  /\ asking = Quiet /\ reply = NoReply /\ carried = NoContext /\ lapses = 0 /\ moves = 0

CallsAtRest == NoBreakpoints /\ NoReads /\ NoKernel
QuestionsAtRest == NoQuestions /\ NoReplay /\ NoModules /\ NoTarget
callVars == <<breakpointVars, memoryVars, attachVars>>
questionVars == <<queryVars, replayVars, moduleVars, eventVars>>
Init ==
  \/ /\ QuestionsAtRest
     /\ \/ subject = "breakpoints" /\ BreakpointInit /\ NoReads /\ NoKernel
        \/ subject = "memory" /\ MemoryInit /\ NoBreakpoints /\ NoKernel
        \/ subject = "attach" /\ AttachInit /\ NoBreakpoints /\ NoReads
  \/ /\ CallsAtRest
     /\ \/ subject = "queries" /\ TargetInit /\ NoReplay /\ NoModules /\ NoTarget
        \/ subject = "replay" /\ ReplayInit /\ NoQuestions /\ NoModules /\ NoTarget
        \/ subject = "modules" /\ ModuleInit /\ NoQuestions /\ NoReplay /\ NoTarget
        \/ subject = "events" /\ EventInit /\ NoQuestions /\ NoReplay /\ NoModules
Next ==
  /\ \/ subject = "breakpoints" /\ BreakpointNext /\ UNCHANGED <<memoryVars, attachVars, questionVars>>
     \/ subject = "memory" /\ MemoryNext /\ UNCHANGED <<breakpointVars, attachVars, questionVars>>
     \/ subject = "attach" /\ AttachNext /\ UNCHANGED <<breakpointVars, memoryVars, questionVars>>
     \/ subject = "queries" /\ TargetNext /\ UNCHANGED <<callVars, replayVars, moduleVars, eventVars>>
     \/ subject = "replay" /\ ReplayNext /\ UNCHANGED <<callVars, queryVars, moduleVars, eventVars>>
     \/ subject = "modules" /\ ModuleNext /\ UNCHANGED <<callVars, queryVars, replayVars, eventVars>>
     \/ subject = "events" /\ EventNext /\ UNCHANGED <<callVars, queryVars, replayVars, moduleVars>>
  /\ UNCHANGED subject
Spec == Init /\ [][Next]_<<subject, callVars, questionVars>>
=============================================================================
