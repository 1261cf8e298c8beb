--------------------------- MODULE TargetQueries ----------------------------
(***************************************************************************)
(* What the engine is asked about its target in several calls (dbgeng.rs): *)
(* first the target itself, its processors, files, build and process; then *)
(* its modules.                                                            *)
(***************************************************************************)
EXTENDS Integers, Sequences, FiniteSetsExt

-----------------------------------------------------------------------------
(***************************************************************************)
(* Questions put to the engine about its target: which processor stopped,  *)
(* which files it is open on, which kernel build it holds, what its        *)
(* current process is called.  Each is several engine calls; a call may    *)
(* fail, and asking an engine that holds nothing faults inside it.         *)
(***************************************************************************)

CONSTANTS
  Debuggees,        \* the targets an engine may hold
  MaxLookupFaults,  \* a bound of the instance: engine calls that may fail
  EPROCESS_IMAGE_NAME_LEN,
  MaxAuditName,     \* the longest audit name taken, in bytes
  MAX_FIELDS

VARIABLES
  debuggee,         \* what the engine holds
  query,            \* the question in progress
  answer,           \* the answer to the last one
  lost,             \* how many engine calls have failed
  crashed           \* the engine faulted: nothing catches it

queryVars == <<debuggee, query, answer, lost, crashed>>

(* An engine that never had a target and one whose target left answer alike. *)
Empty == [status |-> "no_debuggee", class |-> "uninitialized"]
NoQuery == [kind |-> "none"]
Unasked == [kind |-> "none"]
TargetInit ==
  /\ debuggee \in Debuggees \cup {Empty}
  /\ query = NoQuery /\ answer = Unasked /\ lost = 0 /\ crashed = FALSE

LookupFails == lost < MaxLookupFaults /\ lost' = lost + 1
Answers(a) == answer' = a /\ query' = NoQuery
Asking(kind) == query = NoQuery /\ answer = Unasked /\ ~crashed

(* has_target and refuse_without_a_debuggee: an unreadable status is not an answer either. *)
has_target == debuggee.status # "no_debuggee"
refuse_without_a_debuggee(kind) ==
  \/ LookupFails /\ Answers([kind |-> kind, err |-> "status"]) /\ UNCHANGED <<debuggee, crashed>>
  \/ ~has_target /\ Answers([kind |-> kind, err |-> "NoDebuggee"]) /\ UNCHANGED <<debuggee, lost, crashed>>
Refused(kind) == Asking(kind) /\ refuse_without_a_debuggee(kind)
PastGuard == has_target
(* A call that faults where there is no target behind it. *)
Faults == ~has_target /\ crashed' = TRUE /\ query' = NoQuery /\ UNCHANGED <<debuggee, answer, lost>>

(* execute_command: arbitrary text, any of which may reach execution. *)
execute_command ==
  /\ Asking("command") /\ PastGuard
  /\ \/ Faults
     \/ has_target /\ Answers([kind |-> "command"]) /\ UNCHANGED <<debuggee, lost, crashed>>
(* execute_fixed_command: a literal that only arms the initial break, run before there is a       *)
(* target.                                                                                        *)
enable_initial_break == Asking("arm") /\ Answers([kind |-> "arm"]) /\ UNCHANGED <<debuggee, lost, crashed>>

--------------------------------------------------------------------------------
(* dump_files and kernel_connection_options. *)
CountDumpFiles ==
  /\ Asking("files") /\ PastGuard
  /\ \/ Faults
     \/ has_target /\ query' = [kind |-> "files", index |-> 0, files |-> <<>>] /\ UNCHANGED <<debuggee, answer, lost, crashed>>
     \/ has_target /\ LookupFails /\ Answers([kind |-> "files", err |-> "count"]) /\ UNCHANGED <<debuggee, crashed>>
kernel_connection_options ==
  /\ Asking("options") /\ PastGuard
  /\ \/ Faults
     \/ has_target /\ Answers([kind |-> "options", text |-> debuggee.connection]) /\ UNCHANGED <<debuggee, lost, crashed>>
     \/ has_target /\ LookupFails /\ Answers([kind |-> "options", err |-> "read"]) /\ UNCHANGED <<debuggee, crashed>>
(* A name is sized and then read; one of one character is an empty name and keeps its slot. *)
FileNamed(files, name) == Append(files, name)
DumpFile ==
  /\ query.kind = "files"
  /\ query.index < Len(debuggee.files)
  /\ \/ /\ query' = [query EXCEPT !.index = @ + 1, !.files = FileNamed(@, debuggee.files[query.index + 1])]
        /\ UNCHANGED <<answer, lost>>
     \/ LookupFails /\ Answers([kind |-> "files", err |-> "name"])
  /\ UNCHANGED <<debuggee, crashed>>
DumpFiles ==
  /\ query.kind = "files"
  /\ query.index = Len(debuggee.files)
  /\ Answers([kind |-> "files", files |-> query.files])
  /\ UNCHANGED <<debuggee, lost, crashed>>

--------------------------------------------------------------------------------
(* current_processor: the current index first, if it could be one, and then the others. *)
is_kernel == debuggee.class = "kernel"
order ==
  LET ahead == IF debuggee.current < debuggee.processors THEN 1 ELSE 0
  IN [i \in 1 .. debuggee.processors |->
        IF i <= ahead THEN debuggee.current
        ELSE IF i - 1 - ahead < debuggee.current THEN i - 1 - ahead ELSE i - ahead]
current_processor ==
  /\ Asking("processor")
  /\ \/ ~is_kernel /\ Answers([kind |-> "processor", none |-> TRUE]) /\ UNCHANGED lost
     \/ /\ is_kernel
        /\ query' = [kind |-> "processor", asked |-> 0, failed |-> {}] /\ UNCHANGED <<answer, lost>>
     \/ LookupFails /\ Answers([kind |-> "processor", err |-> "read", failed |-> {-1}])
  /\ UNCHANGED <<debuggee, crashed>>
GetThreadIdByProcessor ==
  /\ query.kind = "processor" /\ query.asked < debuggee.processors
  /\ LET p == order[query.asked + 1]
     IN \/ /\ debuggee.thread[p] = debuggee.current
           /\ Answers([kind |-> "processor", is |-> p]) /\ UNCHANGED lost
        \/ /\ debuggee.thread[p] # debuggee.current
           /\ query' = [query EXCEPT !.asked = @ + 1] /\ UNCHANGED <<answer, lost>>
        \/ /\ LookupFails
           /\ query' = [query EXCEPT !.asked = @ + 1,
                                     !.failed = @ \cup (IF \E i \in 1 .. query.asked : order[i] = p THEN {} ELSE {p})]
           /\ UNCHANGED answer
  /\ UNCHANGED <<debuggee, crashed>>
(* A lookup that failed is not a processor that does not match. *)
Unmatched ==
  IF lost = 0 THEN [kind |-> "processor", none |-> TRUE]
  ELSE [kind |-> "processor", err |-> "read", failed |-> query.failed]
NoProcessor ==
  /\ query.kind = "processor" /\ query.asked = debuggee.processors
  /\ Answers(Unmatched)
  /\ UNCHANGED <<debuggee, lost, crashed>>

--------------------------------------------------------------------------------
(* kernel_image: where nt is, and then the parameters of the module at that address; the engine   *)
(* may drop another module between the two calls.                                                 *)
kernel_base ==
  /\ Asking("image")
  /\ \/ /\ has_target /\ \E i \in DOMAIN debuggee.modules : debuggee.modules[i].name = "nt"
        /\ LET i == CHOOSE j \in DOMAIN debuggee.modules : debuggee.modules[j].name = "nt"
           IN query' = [kind |-> "image", base |-> debuggee.modules[i].base, index |-> i]
        /\ UNCHANGED <<answer, lost>>
     \/ LookupFails /\ Answers([kind |-> "image", err |-> "base"])
  /\ UNCHANGED <<debuggee, crashed>>
Unload ==
  /\ query.kind = "image"
  /\ \E i \in DOMAIN debuggee.modules :
       /\ debuggee.modules[i].name # "nt"
       /\ debuggee' = [debuggee EXCEPT !.modules = SubSeq(@, 1, i - 1) \o SubSeq(@, i + 1, Len(@))]
  /\ UNCHANGED <<query, answer, lost, crashed>>
ParametersOf_index == {debuggee.modules[i] : i \in DOMAIN debuggee.modules \cap {query.index}}
ParametersOf == {m \in Range(debuggee.modules) : m.base = query.base}
kernel_image ==
  /\ query.kind = "image"
  /\ \/ /\ ParametersOf # {}
        /\ Answers([kind |-> "image", base |-> query.base, stamp |-> (CHOOSE m \in ParametersOf : TRUE).stamp])
        /\ UNCHANGED lost
     \/ ParametersOf = {} /\ Answers([kind |-> "image", err |-> "parameters"]) /\ UNCHANGED lost
     \/ LookupFails /\ Answers([kind |-> "image", err |-> "parameters"])
  /\ UNCHANGED <<debuggee, crashed>>

--------------------------------------------------------------------------------
(* current_process_name.  A process has its whole path, in memory a partial dump may not hold,    *)
(* and a fixed array padded with nothing, or filled.                                              *)
Separator == "\\"
Nul == "0"
leaf(path) ==
  LET starts == {0} \cup {i \in DOMAIN path : path[i] = Separator} IN SubSeq(path, Max(starts) + 1, Len(path))
nul_terminated(array) ==
  LET ends == {Len(array) + 1} \cup {i \in DOMAIN array : array[i] = Nul} IN SubSeq(array, 1, Min(ends) - 1)
Audited(p) == p.field /\ p.info = "read" /\ p.string = "read" /\ p.length \in 1 .. MaxAuditName /\ p.buffer = "read"
(* A target: each processor's thread, modules under distinct bases, and a path that holds no NUL  *)
(* and is as long as its length says wherever that can be read.                                   *)
DebuggeeOk(d) ==
  /\ DOMAIN d = {"status", "class", "connection", "files", "processors", "current", "thread", "modules", "process",
                 "executable", "fields"}
  /\ d.processors \in Nat /\ d.current \in Nat
  /\ d.files \in Seq(Range(d.files)) /\ d.modules \in Seq(Range(d.modules))
  /\ \A m, n \in Range(d.modules) : m.base = n.base => m = n
  /\ d.process.path \in Seq(Range(d.process.path)) /\ Nul \notin Range(d.process.path)
  /\ Audited(d.process) => d.process.length \div 2 = Len(d.process.path)
ASSUME QueryAssumption ==
  MaxLookupFaults \in Nat /\ EPROCESS_IMAGE_NAME_LEN \in Nat /\ \A d \in Debuggees : DebuggeeOk(d)

audit_image_name(p) ==
  IF Audited(p) THEN leaf(SubSeq(p.path, 1, p.length \div 2)) ELSE <<>>
ImageFileName(p) ==
  [i \in 1 .. EPROCESS_IMAGE_NAME_LEN |-> IF i <= Len(leaf(p.path)) THEN leaf(p.path)[i] ELSE Nul]
current_process_name ==
  /\ Asking("name")
  /\ has_target
  /\ LET p == debuggee.process
         full == audit_image_name(p)
     IN \/ ~is_kernel /\ Answers([kind |-> "name", is |-> debuggee.executable]) /\ UNCHANGED lost
        \/ /\ is_kernel /\ p.type
           /\ Answers(IF full # <<>> THEN [kind |-> "name", is |-> full]
                      ELSE IF p.array THEN [kind |-> "name", is |-> nul_terminated(ImageFileName(p))]
                      ELSE [kind |-> "name", err |-> "array"])
           /\ UNCHANGED lost
        \/ is_kernel /\ ~p.type /\ Answers([kind |-> "name", err |-> "symbols"]) /\ UNCHANGED lost
        \/ LookupFails /\ Answers([kind |-> "name", err |-> "call"])
  /\ UNCHANGED <<debuggee, crashed>>

(* field_names: consecutive indices, ended by the first that fails or is empty. *)
field_names ==
  /\ Asking("fields") /\ has_target
  /\ LET fields == debuggee.fields
         ends == {i \in 1 .. Len(fields) : fields[i] = ""} \cup {Len(fields) + 1, MAX_FIELDS + 1}
         n == CHOOSE i \in ends : \A j \in ends : i <= j
     IN Answers([kind |-> "fields", fields |-> SubSeq(fields, 1, n - 1)])
  /\ UNCHANGED <<debuggee, lost, crashed>>

TargetNext ==
  \/ \E kind \in {"command", "files", "options"} : Refused(kind)
  \/ execute_command \/ enable_initial_break \/ CountDumpFiles \/ kernel_connection_options
  \/ DumpFile \/ DumpFiles \/ current_processor \/ GetThreadIdByProcessor \/ NoProcessor
  \/ kernel_base \/ Unload \/ kernel_image \/ current_process_name \/ field_names
TargetSpec == TargetInit /\ [][TargetNext]_queryVars

--------------------------------------------------------------------------------
(* No question faults the process, whatever the engine holds when it is asked. *)
QueriesNeverFault == ~crashed

(* A processor named is the one the current thread is of.  That there is none is only said when   *)
(* every processor answered; an error, only when some processor never did.                        *)
ProcessorKnownOrSaid ==
  answer.kind = "processor" =>
    /\ "is" \in DOMAIN answer => debuggee.thread[answer.is] = debuggee.current
    /\ "none" \in DOMAIN answer /\ is_kernel =>
         lost = 0 /\ \A p \in 0 .. debuggee.processors - 1 : debuggee.thread[p] # debuggee.current
    /\ "err" \in DOMAIN answer => answer.failed # {}

(* The files answered are all of the engine's, in its order and each in its slot: none means none.*)
DumpFilesKeepSlots ==
  answer.kind = "files" /\ "files" \in DOMAIN answer => has_target /\ answer.files = debuggee.files

(* The build answered for a kernel is that of the kernel, though the modules may have changed     *)
(* since its address was found.                                                                   *)
ImageIsTheKernel ==
  answer.kind = "image" /\ "stamp" \in DOMAIN answer =>
    \E m \in Range(debuggee.modules) : m.name = "nt" /\ m.base = answer.base /\ m.stamp = answer.stamp

(* On a kernel the name answered is that of the current process, whole where its path can be      *)
(* read, else its beginning, and never that of the kernel's own image.                            *)
NameIsTheProcess ==
  answer.kind = "name" /\ "is" \in DOMAIN answer /\ is_kernel =>
    LET whole == leaf(debuggee.process.path)
    IN /\ \E n \in 0 .. Len(whole) : answer.is = SubSeq(whole, 1, n)
       /\ Audited(debuggee.process) /\ debuggee.process.length = 2 * Len(debuggee.process.path) => answer.is = whole

-----------------------------------------------------------------------------
(***************************************************************************)
(* What a target's modules are said to be.  The engine holds the loaded    *)
(* and the unloaded ones in one index space; their parameters are read by  *)
(* index or by base, their names always by index.                          *)
(***************************************************************************)

CONSTANTS
  ModuleTables,    \* the engine's tables: [loaded |-> Seq(module), unloaded |-> Seq(module)]
  ModuleAddresses, \* addresses asked about
  MaxModuleFaults  \* a bound of the instance: calls that may fail

(* The engine keeps modules under distinct bases, and a module has a name. *)
ASSUME ModuleAssumption ==
  /\ MaxModuleFaults \in Nat
  /\ \A t \in ModuleTables :
       /\ \A i, j \in DOMAIN t.loaded : t.loaded[i].base = t.loaded[j].base => i = j
       /\ \A s \in {t.loaded, t.unloaded} :
            s \in Seq(Range(s)) /\ \A i \in DOMAIN s : s[i].name # "" /\ s[i].sizes \in Nat

VARIABLES
  table,           \* what the engine holds
  request,         \* the question being answered, and where it has got to
  told,            \* the answer
  missed           \* how many calls have failed

moduleVars == <<table, request, told, missed>>

NoRequest == [pc |-> "idle"]
Untold == [kind |-> "none"]
ModuleInit == table \in ModuleTables /\ request = NoRequest /\ told = Untold /\ missed = 0

Space == table.loaded \o table.unloaded      \* the engine's index space, from 0
At(index) == Space[index + 1]
ListFault == missed < MaxModuleFaults /\ missed' = missed + 1
AtRest == request = NoRequest /\ told = Untold
ListFailed == told' = [kind |-> "failed"] /\ request' = NoRequest

(* A symbol type this build does not name is kept as the engine's own code. *)
symbols_from_engine(code) ==
  IF code \in 0 .. 7 THEN <<<<"None", "Coff", "CodeView", "Pdb", "Export", "Deferred", "Sym", "Dia">>[code + 1]>>
  ELSE <<"Other", code>>
(* The buffer names are read into: an unloaded module's parameters carry no sizes. *)
sized(reported) == IF reported = 0 THEN 99 ELSE reported
(* Names that cannot be read, or have no room, are left empty: the module is still a module. *)
named_module(index, params, reads) ==
  LET m == At(index)
      name == IF reads /\ sized(params.sizes) > 0 THEN m.name ELSE ""
  IN [base |-> params.base, size |-> params.size, name |-> name, symbols |-> symbols_from_engine(params.symbols),
      unloaded |-> params.unloaded]

(* module_range: the parameters in one call, then each module's names. *)
IndexOfName(start, offset) == start + offset
module_range(of, start, count) ==
  /\ AtRest
  /\ IF count = 0 THEN told' = [kind |-> "list", of |-> of, start |-> start, modules |-> <<>>] /\ UNCHANGED <<request, missed>>
     ELSE \/ ListFault /\ ListFailed
          \/ /\ request' = [pc |-> "names", of |-> of, start |-> start, count |-> count, modules |-> <<>>]
             /\ UNCHANGED <<told, missed>>
  /\ UNCHANGED table
modules == module_range("loaded", 0, Len(table.loaded))
unloaded_modules == module_range("unloaded", Len(table.loaded), Len(table.unloaded))
CountFails == AtRest /\ ListFault /\ ListFailed /\ UNCHANGED table
NameEach ==
  /\ request.pc = "names"
  /\ LET offset == Len(request.modules)
     IN IF offset = request.count
        THEN /\ told' = [kind |-> "list", of |-> request.of, start |-> request.start, modules |-> request.modules]
             /\ request' = NoRequest /\ UNCHANGED missed
        ELSE \E reads \in BOOLEAN :
               /\ IF reads THEN UNCHANGED missed ELSE ListFault
               /\ request' = [request EXCEPT !.modules =
                    Append(@, named_module(IndexOfName(request.start, offset), At(request.start + offset), reads))]
               /\ UNCHANGED told
  /\ UNCHANGED table

(* One module, found by name or by an address it holds.  The engine's own containment test        *)
(* decides, over the loaded modules.                                                              *)
Loaded == 0 .. Len(table.loaded) - 1
Holds(index, address) == At(index).base <= address /\ address < At(index).base + At(index).size
Broke_nowhere(address) == [kind |-> "nowhere", address |-> address]
Broke(address) == [kind |-> "failed"]
module_at(address) ==
  /\ AtRest
  /\ \/ \E i \in {i \in Loaded : Holds(i, address)} :
          request' = [pc |-> "parameters", index |-> i, by |-> i, then |-> "module"] /\ UNCHANGED <<told, missed>>
     \/ /\ ~\E i \in Loaded : Holds(i, address)
        /\ told' = [kind |-> "nowhere", address |-> address] /\ UNCHANGED <<request, missed>>
     \/ ListFault /\ told' = Broke(address) /\ UNCHANGED request
  /\ UNCHANGED table
(* By name the lookup gives an index and a base, and the parameters are read by that base. *)
ByBase(i) == CHOOSE j \in Loaded : At(j).base = At(i).base
module(name, then) ==
  /\ AtRest
  /\ \/ \E i \in {i \in Loaded : At(i).name = name /\ \A j \in 0 .. i - 1 : At(j).name # name} :
          request' = [pc |-> "parameters", index |-> i, by |-> ByBase(i), then |-> then] /\ UNCHANGED <<told, missed>>
     \/ (~\E i \in Loaded : At(i).name = name) /\ ListFailed /\ UNCHANGED missed
     \/ ListFault /\ ListFailed
  /\ UNCHANGED table
Parameters ==
  /\ request.pc = "parameters"
  /\ \/ ListFault /\ ListFailed
     \/ \E reads \in BOOLEAN :
          LET m == named_module(request.index, At(request.by), reads)
          IN /\ IF reads THEN UNCHANGED missed ELSE ListFault
             /\ IF request.then = "module"
                THEN told' = [kind |-> "module", module |-> m, index |-> request.index] /\ request' = NoRequest
                ELSE request' = [pc |-> "symbol_file", module |-> m, index |-> request.index] /\ UNCHANGED told
  /\ UNCHANGED table
(* module_identity: the symbol file selected for the module's base. *)
module_symbol_file ==
  /\ request.pc = "symbol_file"
  /\ \/ ListFault /\ ListFailed
     \/ /\ \E i \in Loaded : At(i).base = request.module.base /\
             told' = [kind |-> "identity", module |-> request.module, index |-> request.index, file |-> At(i).file]
        /\ request' = NoRequest /\ UNCHANGED missed
  /\ UNCHANGED table

(* module_pdb: an engine with nothing to say leaves the signature zero; a call that fails is      *)
(* nothing about the target.                                                                      *)
PdbBroke(i) == [kind |-> "failed"]
module_pdb(i) ==
  /\ AtRest
  /\ \/ ListFault /\ told' = PdbBroke(i)
     \/ told' = [kind |-> "pdb", index |-> i, signature |-> At(i).signature] /\ UNCHANGED missed
  /\ UNCHANGED <<table, request>>

ModuleNames == {At(i).name : i \in 0 .. Len(Space) - 1} \cup {"absent"}
ModuleNext ==
  \/ modules \/ unloaded_modules \/ CountFails \/ NameEach \/ Parameters \/ module_symbol_file
  \/ \E address \in ModuleAddresses : module_at(address)
  \/ \E name \in ModuleNames, then \in {"module", "identity"} : module(name, then)
  \/ \E i \in Loaded : module_pdb(i)
ModuleSpec == ModuleInit /\ [][ModuleNext]_moduleVars

--------------------------------------------------------------------------------
IsOf(m, i) ==
  m.base = At(i).base /\ m.size = At(i).size /\ m.symbols = symbols_from_engine(At(i).symbols) /\ m.name \in {At(i).name, ""} /\ m.unloaded = At(i).unloaded
(* A listing is the engine's own: every module of the kind asked for, in its order, none twice,   *)
(* each under its own name and never another's.                                                   *)
ListIsTheEngines ==
  told.kind = "list" =>
    /\ Len(told.modules) = Len(table[told.of])
    /\ \A n \in DOMAIN told.modules : IsOf(told.modules[n], told.start + n - 1)

(* A module that has unloaded is still named unless its names could not be read: a pointer into a *)
(* driver that is gone is named by this list only.                                                *)
UnloadedAreNamed ==
  told.kind = "list" /\ missed = 0 => \A n \in DOMAIN told.modules : told.modules[n].name # ""

(* An address is said to be in no module only when no loaded module holds it: a lookup that broke *)
(* is not an address attributed to nothing.                                                       *)
NowhereIsNowhere == told.kind = "nowhere" => ~\E i \in Loaded : Holds(i, told.address)

(* A module's base, size, names and symbol file are those of one module, though they are read by  *)
(* index and by base in turn.                                                                     *)
OneModule ==
  told.kind \in {"module", "identity"} =>
    IsOf(told.module, told.index) /\ (told.kind = "identity" => told.file = At(told.index).file)

(* A module is said to have no PDB only when the engine holds none for it. *)
NoPdbIsNone == told.kind = "pdb" => told.signature = At(told.index).signature

(* A question of several calls answers about one target: no call faults the engine, what is said  *)
(* is true of the target though it changes between calls, and a failure is not an absence.        *)
QueriesSound ==
  /\ QueriesNeverFault
  /\ ProcessorKnownOrSaid
  /\ DumpFilesKeepSlots
  /\ ImageIsTheKernel
  /\ NameIsTheProcess

(* What is said of a module is said of one module, under its own name, and no module, name or PDB *)
(* is said to be missing because a call failed.                                                   *)
ModulesSound ==
  /\ ListIsTheEngines
  /\ UnloadedAreNamed
  /\ NowhereIsNowhere
  /\ OneModule
  /\ NoPdbIsNone
=============================================================================
