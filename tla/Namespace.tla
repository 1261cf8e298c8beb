----------------------------- MODULE Namespace ------------------------------
(***************************************************************************)
(* The kernel's object namespace (object.rs): first the fold its names are *)
(* compared by, then the walk by name. The two are separate machines,      *)
(* which share no variable: a walk takes the fold as the function Folded.  *)
(***************************************************************************)
EXTENDS Integers, FiniteSets, Sequences, Functions

-----------------------------------------------------------------------------
(***************************************************************************)
(* Folding the code units of object names through the target's own upcase  *)
(* table, with the host's standing in where that does not read, and what   *)
(* the fold says of where it answered from (object.rs, Upcase).            *)
(*                                                                         *)
(* A unit has three digits in base Digit where the code's has a byte and   *)
(* two nibbles; the units below Floor are the bands that need no table.    *)
(***************************************************************************)

CONSTANTS
  Digit,       \* the base of a unit's digits
  Floor,       \* the first unit that needs a table
  TablePage,        \* elements of the table to a page of memory
  HostFold,    \* RtlUpcaseUnicodeChar of this host
  FoldTargets  \* what the target has: [base, pointer, reads, elements], pointer and reads
               \* whether the base's page and which of the table's are in; a base of -1 is
               \* no coordinates to read it by

Units == 0 .. Digit * Digit * Digit - 1

VARIABLES
  foldTable,  \* one of FoldTargets
  known    \* Known: the base once asked for, the units folded, whether the host folded one

upcaseVars == <<foldTable, known>>

NotAsked == -3
UpcaseInit ==
  /\ foldTable \in FoldTargets
  /\ known = [base |-> NotAsked, units |-> <<>>, hostFolded |-> FALSE]

\* base: asked for once and remembered; no coordinates, or a pointer that does not read, is -1.
base == IF known.base # NotAsked THEN known.base
        ELSE IF foldTable.pointer THEN foldTable.base ELSE -1

\* from_table: every index is of elements from the one base, and the leaf is a delta.
Element(i) == IF i \div TablePage \in foldTable.reads THEN foldTable.elements[i] ELSE -1
from_table(u) ==
  LET level1 == Element(u \div (Digit * Digit))
      level2 == IF level1 = -1 THEN -1 ELSE Element(level1 + ((u \div Digit) % Digit))
      delta == IF level2 = -1 THEN -1 ELSE Element(level2 + (u % Digit))
  IN  IF delta = -1 THEN -1 ELSE (u + delta) % (Digit * Digit * Digit)

\* Mutant: a unit that the table does not answer for is folded here and not remembered.
uncached_silent(u) ==
  IF base = -1 THEN [fold |-> HostFold[u], host |-> FALSE]
  ELSE IF base = 0 THEN [fold |-> u, host |-> FALSE]
  ELSE IF from_table(u) = -1 THEN [fold |-> HostFold[u], host |-> FALSE]
  ELSE [fold |-> from_table(u), host |-> FALSE]

\* uncached: a null table folds nothing, and one that does not read says nothing.
uncached(u) ==
  IF base = -1 THEN [fold |-> HostFold[u], host |-> FALSE]
  ELSE IF base = 0 THEN [fold |-> u, host |-> FALSE]
  ELSE IF from_table(u) = -1 THEN [fold |-> HostFold[u], host |-> TRUE]
  ELSE [fold |-> from_table(u), host |-> FALSE]

\* unit, at or above the floor: a unit folded before is not folded again.
unit(u) ==
  /\ u >= Floor /\ u \notin DOMAIN known.units
  /\ LET folded == uncached(u)
     IN  known' = [base |-> base,
                   units |-> [v \in DOMAIN known.units \cup {u} |->
                                IF v = u THEN folded.fold ELSE known.units[v]],
                   hostFolded |-> known.hostFolded \/ folded.host]
  /\ UNCHANGED foldTable

\* source, asked before a unit is folded, resolves the base.
AskSource ==
  /\ known' = [known EXCEPT !.base = base]
  /\ UNCHANGED foldTable

\* A page that was out comes back, or one that was in goes out.
Paging ==
  /\ foldTable.base > 0
  /\ \/ foldTable' = [foldTable EXCEPT !.pointer = ~@]
     \/ \E r \in SUBSET {i \div TablePage : i \in DOMAIN foldTable.elements} :
          /\ Cardinality((r \ foldTable.reads) \cup (foldTable.reads \ r)) = 1
          /\ foldTable' = [foldTable EXCEPT !.reads = r]
  /\ UNCHANGED known

UpcaseNext == (\E u \in Units : unit(u)) \/ AskSource \/ Paging

source ==
  IF base = -1 THEN "Host" ELSE IF known.hostFolded THEN "Mixed" ELSE "Target"

-----------------------------------------------------------------------------
\* What the routine of the target answers.
TargetFold(u) ==
  IF foldTable.base = 0 THEN u
  ELSE LET e == foldTable.elements
           at == e[e[u \div (Digit * Digit)] + ((u \div Digit) % Digit)] + (u % Digit)
       IN  (u + e[at]) % (Digit * Digit * Digit)

\* A fold that says it is the target's is the target's in every unit folded so far, though
\* pages of the table come and go; one that says it is the host's is the host's.
SourceHonest ==
  /\ source = "Target" => \A u \in DOMAIN known.units : known.units[u] = TargetFold(u)
  /\ source = "Host" => \A u \in DOMAIN known.units : known.units[u] = HostFold[u]

-----------------------------------------------------------------------------
(***************************************************************************)
(* The kernel's object namespace, walked by name: enumerating a directory, *)
(* resolving a path through directories, following a symbolic link, and    *)
(* stopping when asked to (object.rs, Namespace).                          *)
(*                                                                         *)
(* The kernel's memory is external.  A string is [length, maximum, buffer, *)
(* reads, text, exact]; names are compared as Folded says Upcase folds     *)
(* them.  The request to stop is GetInterrupt's: one poll takes it.        *)
(***************************************************************************)

CONSTANTS
  Kernels,         \* the kernels walked
  Paths,           \* [rooted, parts]: a path split at its separators
  Folded,          \* a name -> the name it folds to
  MAX_ENTRIES,
  MAX_COMPONENTS,
  MAX_NAME_BYTES,
  MAX_TARGET_BYTES

VARIABLES
  kernel,  \* the kernel this behaviour walks
  descent,    \* the call in progress
  stop,    \* the request to stop: "none", "raised" or "taken"
  result   \* what the call returned

namespaceVars == <<kernel, descent, stop, result>>

NoCall == [at |-> "idle"]
Nothing == [error |-> "none yet"]

NamespaceInit ==
  /\ kernel \in Kernels
  /\ descent = NoCall /\ stop = "none" /\ result = Nothing

Returns(r) == descent' = NoCall /\ result' = r
Error(e) == Returns([error |-> e, of |-> descent.op, in |-> descent.directory])
ErrorOf(e, component) ==
  Returns([error |-> e, of |-> descent.op, in |-> descent.directory, component |-> component])

-----------------------------------------------------------------------------
(* Paths and strings. *)

\* components_of: one trailing separator is dropped and no other empty component.
Stripped(path) ==
  IF Len(path.parts) > 1 /\ path.parts[Len(path.parts)] = ""
  THEN SubSeq(path.parts, 1, Len(path.parts) - 1) ELSE path.parts
IsRoot(path) == path.rooted /\ path.parts = <<"">>
BadPath(path) ==
  \/ ~path.rooted
  \/ ~IsRoot(path) /\ (\/ \E i \in DOMAIN Stripped(path) : Stripped(path)[i] = ""
                       \/ Len(Stripped(path)) > MAX_COMPONENTS)
components_of(path) == IF IsRoot(path) THEN <<>> ELSE Stripped(path)

\* unicode_at, in the order of its checks.
unicode_at(s, bound) ==
  IF ~s.reads THEN "Unreadable"
  ELSE IF s.length > s.maximum THEN "Malformed"
  ELSE IF s.length = 0 THEN "ok"
  ELSE IF ~s.buffer \/ s.length % 2 # 0 THEN "Malformed"
  ELSE IF s.length > bound THEN "TooMany"
  ELSE IF s.paged THEN "Unreadable" ELSE "ok"

\* name_of: "none" for an object filed under no name.
name_of(o) ==
  IF o.mask = "unreadable" THEN "Unreadable"
  ELSE IF o.mask = "unnamed" THEN "none"
  ELSE IF ~kernel.offsets THEN "Unavailable"
  ELSE IF o.distance = "short" THEN "Malformed"
  ELSE unicode_at(o.name, MAX_NAME_BYTES)
Text(s) == IF s.length = 0 THEN [text |-> "", exact |-> TRUE]
           ELSE [text |-> s.text, exact |-> s.exact]

\* type_of: "" where the table or the cookie cannot be read.
type_of(o) == IF kernel.typed /\ o.typeReads THEN o.type ELSE ""

-----------------------------------------------------------------------------
(* One directory. *)

\* Asks whether to stop, which takes the request.
StopPolled(stopped, go) ==
  IF stop = "raised" THEN stop' = "taken" /\ stopped ELSE UNCHANGED stop /\ go

Enumerate(directory) ==
  [descent EXCEPT !.at = "buckets", !.directory = directory, !.bucket = 1, !.entry = 0,
               !.followed = 0, !.bodies = <<>>, !.halted = FALSE, !.objects = <<>>,
               !.unreadable = 0, !.malformed = 0]

\* entries_of, at a bucket.
HashBucket ==
  LET d == descent.directory
  IN  /\ descent.at = "buckets" /\ descent.entry = 0 /\ descent.bucket <= kernel.buckets
      /\ StopPolled(/\ descent' = [descent EXCEPT !.at = "names", !.halted = TRUE] /\ UNCHANGED result,
                IF d \notin DOMAIN kernel.directories \/ <<d, descent.bucket>> \in kernel.unreadable
                THEN Error("Unreadable")
                ELSE /\ descent' = [descent EXCEPT !.entry = kernel.directories[d][descent.bucket],
                                             !.bucket = @ + 1]
                     /\ UNCHANGED result)
      /\ UNCHANGED kernel

\* Mutant: the bound is on the objects found.
followed_objects(e) ==
  descent.followed + (IF e \in DOMAIN kernel.entries /\ kernel.entries[e].object = 0 THEN 0 ELSE 1)

\* The bound is on the links followed, found or not.
followed(e) == descent.followed + 1

\* At a link of a bucket's chain.
Link ==
  LET e == descent.entry
      entry == kernel.entries[e]
  IN  /\ descent.at = "buckets" /\ e # 0
      /\ StopPolled(/\ descent' = [descent EXCEPT !.at = "names", !.halted = TRUE] /\ UNCHANGED result,
                IF followed(e) > MAX_ENTRIES THEN Error("TooMany")
                ELSE IF e \notin DOMAIN kernel.entries THEN Error("Unreadable")
                ELSE /\ descent' = [descent EXCEPT !.followed = followed(e), !.entry = entry.chain,
                                   !.bodies = IF entry.object = 0 THEN @ ELSE Append(@, entry.object)]
                     /\ UNCHANGED result)
      /\ UNCHANGED kernel

HashBucketsEnd ==
  /\ descent.at = "buckets" /\ descent.entry = 0 /\ descent.bucket > kernel.buckets
  /\ descent' = [descent EXCEPT !.at = "names"]
  /\ UNCHANGED <<kernel, stop, result>>

skip(w, why) ==
  [w EXCEPT !.unreadable = IF why = "Unreadable" THEN @ + 1 ELSE @,
            !.malformed = IF why = "Malformed" THEN @ + 1 ELSE @]

\* named_in, of one body.
Name ==
  LET body == Head(descent.bodies)
      o == kernel.objects[body]
      rest == [descent EXCEPT !.bodies = Tail(@)]
      named == IF body \in DOMAIN kernel.objects THEN name_of(o) ELSE "Unreadable"
  IN  /\ descent.at = "names" /\ descent.bodies # <<>> /\ ~descent.halted
      /\ StopPolled(/\ descent' = [descent EXCEPT !.halted = TRUE] /\ UNCHANGED result,
                IF named \in {"TooMany", "Unavailable"} THEN Error(named)
                ELSE /\ UNCHANGED result
                     /\ descent' = IF named \in {"Unreadable", "Malformed"} THEN skip(rest, named)
                                ELSE IF named = "none" THEN rest
                                ELSE IF ~o.security THEN skip(rest, "Unreadable")
                                ELSE [rest EXCEPT !.objects = Append(@,
                                        [address |-> body, name |-> Text(o.name), type |-> type_of(o)])])
      /\ UNCHANGED kernel

NamesDone == descent.at = "names" /\ (descent.halted \/ descent.bodies = <<>>)

\* Listed: the directory is the answer to objects_in.
Listing ==
  /\ NamesDone /\ descent.listing
  /\ Returns([error |-> "", of |-> descent.op, in |-> descent.directory, objects |-> descent.objects,
             skipped |-> descent.unreadable + descent.malformed, halted |-> descent.halted])
  /\ UNCHANGED <<kernel, stop>>

-----------------------------------------------------------------------------
(* A path. *)

BeginLookup(op, path) ==
  /\ descent.at = "idle" /\ result = Nothing
  /\ LET parts == components_of(path)
         call == [at |-> "root", op |-> op, parts |-> parts, next |-> 1, directory |-> 0,
                  listing |-> op = "objects_in" /\ parts = <<>>, bucket |-> 1, entry |-> 0,
                  followed |-> 0, bodies |-> <<>>, halted |-> FALSE, objects |-> <<>>,
                  unreadable |-> 0, malformed |-> 0]
     IN  IF BadPath(path) \/ (op = "object_at" /\ parts = <<>>)
         THEN result' = [error |-> "BadPath"] /\ UNCHANGED descent
         ELSE descent' = call /\ UNCHANGED result
  /\ UNCHANGED <<kernel, stop>>

\* The root's pointer: needed, readable, and for a lookup not null.
RootDirectory ==
  /\ descent.at = "root"
  /\ IF kernel.root = -1 THEN Error("Unavailable")
     ELSE IF kernel.root = 0 /\ ~descent.listing THEN Error("Malformed")
     ELSE descent' = Enumerate(kernel.root) /\ UNCHANGED result
  /\ UNCHANGED <<kernel, stop>>

same_name(a, b) == Folded[a] = Folded[b]
Component == descent.parts[descent.next]

\* Absent, or absent from what could be named.
absence == IF descent.unreadable + descent.malformed = 0 THEN "NotFound" ELSE "NotFoundInPart"

refuse_descent(type) ==
  IF type = "Directory" THEN "" ELSE IF type = "" THEN "Untyped" ELSE "NotADirectory"

\* Mutant: a stop is the answer only when the name is missing.
StopTaken_missing(matching) == descent.halted /\ matching = {}

StopTaken(matching) == descent.halted

\* object_at, with a directory named: a stop is the answer whatever was found before it.
Find ==
  LET matching == {i \in DOMAIN descent.objects : /\ descent.objects[i].name.exact
                                               /\ same_name(descent.objects[i].name.text, Component)}
      found == descent.objects[CHOOSE i \in matching : \A j \in matching : i <= j]
      last == descent.next = Len(descent.parts)
      refused == refuse_descent(found.type)
  IN  /\ NamesDone /\ ~descent.listing
      /\ IF StopTaken(matching) THEN ErrorOf("Halted", Component)
         ELSE IF matching = {} THEN ErrorOf(absence, Component)
         ELSE IF last /\ descent.op = "object_at"
              THEN Returns([error |-> "", of |-> descent.op, in |-> descent.directory, found |-> found])
         ELSE IF refused # "" THEN ErrorOf(refused, Component)
         ELSE /\ descent' = [Enumerate(found.address) EXCEPT
                            !.next = IF last THEN @ ELSE @ + 1, !.listing = last]
              /\ UNCHANGED result
      /\ UNCHANGED <<kernel, stop>>

callback(link) == link.callback

\* link_target.
link_target ==
  /\ descent.at = "idle" /\ result = Nothing
  /\ \E link \in kernel.links :
       LET s == link.target
           read == unicode_at(s, MAX_TARGET_BYTES)
           outcome == IF ~link.reads THEN "Unreadable"
                      ELSE IF callback(link) THEN "Malformed"
                      ELSE IF ~s.reads THEN "Unreadable"
                      ELSE IF s.length = 0 \/ s.length % 2 # 0 \/ s.length > s.maximum THEN "Malformed"
                      ELSE IF read # "ok" THEN read
                      ELSE IF ~s.exact THEN "Malformed" ELSE ""
       IN  result' = [error |-> outcome, of |-> "link_target", link |-> link]
  /\ UNCHANGED <<kernel, descent, stop>>

\* The caller's host asks to stop, once.
RaiseStop ==
  /\ stop = "none" /\ descent.at # "idle"
  /\ stop' = "raised"
  /\ UNCHANGED <<kernel, descent, result>>

NamespaceStep == RootDirectory \/ HashBucket \/ Link \/ HashBucketsEnd \/ Name \/ Listing \/ Find

NamespaceNext ==
  \/ \E op \in {"object_at", "objects_in"}, path \in Paths : BeginLookup(op, path)
  \/ NamespaceStep \/ link_target \/ RaiseStop

-----------------------------------------------------------------------------
(* Properties. *)

\* The objects a directory holds, by its chains.
RECURSIVE Chained(_, _)
Chained(e, seen) ==
  IF e \in seen \/ e \notin DOMAIN kernel.entries THEN {}
  ELSE ({kernel.entries[e].object} \ {0}) \cup Chained(kernel.entries[e].chain, seen \cup {e})
Held(d) == UNION {Chained(kernel.directories[d][b], {}) : b \in 1 .. kernel.buckets}
Filed(d) == {o \in Held(d) : kernel.objects[o].mask # "unnamed"}

\* "Not found" is a fact about the target: no object of the directory has that name, the
\* ones whose names do not read included.
NotFoundIsAbsent ==
  result.error = "NotFound" =>
    \A o \in Filed(result.in) :
      LET s == Text(kernel.objects[o].name)
      IN  s.exact => ~same_name(s.text, result.component)

\* A listing that is complete is of everything filed in the directory, over chains with
\* null objects, loops, and links out of the directory.
ListingIsWhole ==
  result.error = "" /\ result.of = "objects_in" /\ ~result.halted /\ result.skipped = 0 =>
    {result.objects[i].address : i \in DOMAIN result.objects} = Filed(result.in)

\* A request to stop that the walk has taken is the walk's answer: it is not lost between
\* the two loops that poll, nor behind a name that was found before it.
StopIsTheAnswer ==
  stop = "taken" /\ result # Nothing =>
    \/ result.error = "Halted"
    \/ result.error = "" /\ result.of = "objects_in" /\ result.halted

\* Only directories are read as directories.
DescendsDirectories ==
  descent.at \in {"buckets", "names"} /\ descent.directory # kernel.root =>
    descent.directory \in kernel.genuine

\* A target is given only for a link that has one.
LinkTargetReal ==
  result.error = "" /\ result.of = "link_target" =>
    ~result.link.callback /\ result.link.target.exact /\ result.link.target.length > 0

\* A walk ends, whatever the chains lead to.
WalkEnds == [](descent.at # "idle" => <>(descent.at = "idle"))

\* What the namespace is said to hold it holds: absence is said only of what is absent, a listing
\* without omissions is whole, a stop is never an answer, and only directories are descended.
NamespaceHonest ==
  /\ NotFoundIsAbsent
  /\ ListingIsWhole
  /\ StopIsTheAnswer
  /\ DescendsDirectories
  /\ LinkTargetReal
=============================================================================
