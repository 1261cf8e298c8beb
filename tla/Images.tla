------------------------------- MODULE Images -------------------------------
(***************************************************************************)
(* A loaded image (pe.rs): first its headers, then its imports and         *)
(* exports.                                                                *)
(***************************************************************************)
EXTENDS Integers, Sequences, FiniteSets, FiniteSetsExt, SequencesExt

-----------------------------------------------------------------------------
(***************************************************************************)
(* A loaded image's headers, as far as they bound a scan of its code       *)
(* (pe.rs: read_image, Image).                                             *)
(*                                                                         *)
(* A header is what the image claims of itself: [reads, mz, lfanew, pe,    *)
(* machine, magic, room, declared, directories, alignment, size,           *)
(* sections], room the data directories that SizeOfOptionalHeader leaves   *)
(* room for (-1 for one too short for its own fields).  Offsets are small  *)
(* numbers in an address space of Space addresses.                         *)
(***************************************************************************)

CONSTANTS
  Space,         \* addresses, 2^64 in the code
  Headers,       \* the headers read
  Bases,         \* where they are loaded
  HeaderPage,    \* the bound on e_lfanew
  MAX_SECTIONS

VARIABLES
  header,  \* [base, claims]: what is in memory
  parsed    \* the Image read from it, an error, or nothing yet

imageVars == <<header, parsed>>

NotRead == [error |-> "not read"]
ImageInit == header \in [base : Bases, claims : Headers] /\ parsed = NotRead

\* va: refused if either end of the span is past the address space.
Fits(base, offset, len) == base + offset + len < Space

\* Machine implies a width for the machines whose width is known.
Implied(machine) == CASE machine \in {"I386", "ARMNT"} -> {"Bits32"}
                      [] machine \in {"AMD64", "ARM64", "IA64"} -> {"Bits64"}
                      [] OTHER -> {"Bits32", "Bits64"}

\* A data directory is there when the count covers it and the optional header has room for it.
directory(h, index) ==
  IF index >= h.declared \/ index >= h.room THEN <<0, 0>> ELSE h.directories[index + 1]

\* The section table follows the optional header; a section header is one cell here.
TableAt(h) == h.lfanew + 1 + h.room

power_of_two(n) == \E k \in 0 .. 8 : n = 2^k

read_image ==
  LET h == header.claims
      error == IF ~h.reads THEN "Unreadable"
               ELSE IF ~h.mz \/ h.lfanew > HeaderPage \/ ~h.pe \/ h.magic = "other" THEN "NotAnImage"
               ELSE IF ~Fits(header.base, h.lfanew, 1) THEN "Malformed"
               ELSE IF h.magic \notin Implied(h.machine) THEN "Malformed"
               ELSE IF h.room < 0 THEN "NotAnImage"
               ELSE IF ~power_of_two(h.alignment) \/ Len(h.sections) > MAX_SECTIONS THEN "Malformed"
               ELSE IF TableAt(h) + Len(h.sections) > h.size THEN "Malformed"
               ELSE IF ~Fits(header.base, TableAt(h), Len(h.sections)) THEN "Malformed" ELSE ""
  IN  /\ parsed = NotRead
      /\ parsed' = IF error # "" THEN [error |-> error]
                  ELSE [error |-> "", base |-> header.base, size |-> h.size, alignment |-> h.alignment,
                        sections |-> h.sections, export |-> directory(h, 0),
                        import |-> directory(h, 1), iat |-> directory(h, 2)]
      /\ UNCHANGED header

\* A caller narrows SizeOfImage to the loader's extent.
Narrow(size) ==
  /\ parsed.error = "" /\ size < parsed.size
  /\ parsed' = [parsed EXCEPT !.size = size]
  /\ UNCHANGED header

-----------------------------------------------------------------------------

\* checked_va: -1 where the span is not inside the image or not inside the address space.
checked_va(i, rva, len) ==
  IF rva >= i.size \/ rva + len > i.size \/ ~Fits(i.base, rva, len) THEN -1 ELSE i.base + rva

\* section_at.
section_at(i, rva) ==
  LET holding == {n \in DOMAIN i.sections :
                    LET s == i.sections[n]
                    IN  s.rva <= rva /\ rva < s.rva + (IF s.size = 0 THEN 1 ELSE s.size)}
  IN  IF holding = {} THEN <<>> ELSE <<i.sections[CHOOSE n \in holding : \A m \in holding : n <= m]>>

\* Mutant: a section that runs past the image is dropped.
Clipped_dropped(i, s, extent) == extent

\* Clipped to the room that is left in the image.
Clipped(i, s, extent) ==
  LET room == IF i.size > s.rva THEN i.size - s.rva ELSE 0
  IN  IF extent < room THEN extent ELSE room

\* The loader's unit, not the header's byte count.
Extent(i, s) == ((s.size + i.alignment - 1) \div i.alignment) * i.alignment

\* executable_ranges: [from, to) of each executable section that has any of itself inside.
executable_ranges(i) ==
  {<<checked_va(i, s.rva, Clipped(i, s, Extent(i, s))),
     checked_va(i, s.rva, Clipped(i, s, Extent(i, s))) + Clipped(i, s, Extent(i, s))>> :
     s \in {t \in {i.sections[n] : n \in DOMAIN i.sections} :
              /\ t.executable
              /\ checked_va(i, t.rva, Clipped(i, t, Extent(i, t))) # -1
              /\ Clipped(i, t, Extent(i, t)) > 0}}

ImageNext == read_image \/ \E size \in 0 .. Space : Narrow(size)

-----------------------------------------------------------------------------
(* Properties. *)

\* The ranges a code scan is bounded by are the executable memory of this image, all of it
\* and nothing of what is mapped next, though the header or a caller puts the image's end
\* inside a section: an address in mapped code is never "not code".
RangesAreTheCode ==
  parsed.error = "" /\ parsed.base + parsed.size < Space =>
    \A r \in 0 .. Space - 1 :
      (\E range \in executable_ranges(parsed) :
         range[1] <= parsed.base + r /\ parsed.base + r < range[2])
      <=> r < parsed.size /\ \E n \in DOMAIN parsed.sections :
            LET s == parsed.sections[n]
            IN  s.executable /\ s.rva <= r /\ r < s.rva + Extent(parsed, s)

\* No range wraps, wherever the image claims to be.
RangesDoNotWrap ==
  parsed.error = "" =>
    \A range \in executable_ranges(parsed) : range[1] < range[2] /\ range[2] < Space

\* A data directory is never read out of the section table, which is where an optional header
\* with no room for it puts it.
DirectoriesInTheHeader ==
  parsed.error = "" =>
    \A n \in 1 .. 3 : <<parsed.export, parsed.import, parsed.iat>>[n] # <<0, 0>> =>
                        header.claims.lfanew + n < TableAt(header.claims)

-----------------------------------------------------------------------------
(***************************************************************************)
(* Naming an image's imports and exports from its own tables, through a    *)
(* reader that has holes and with a caller that may ask to stop (pe.rs:    *)
(* read_imports, read_import_address_table, read_exports_at).              *)
(*                                                                         *)
(* Memory is cells of small numbers: a pointer, a character and each field *)
(* of a descriptor or directory is one cell.  As a thunk a cell below      *)
(* RvaSpace is a name's offset, one from Flag an ordinal, and the rest is  *)
(* what no loader writes; as a character 0 ends a name and one from Flag   *)
(* is not text.  Cells past the image are readable: another module's.      *)
(***************************************************************************)

CONSTANTS
  Tables,         \* the images read: [size, cells, import, iat, export], cells by offset
  RvaSpace,       \* offsets, 2^32 in the code
  Flag, Ordinals, \* the ordinal flag and the ordinals below it, as thunk values
  Hint,           \* the hint's width before a name
  NAME_READ_GRANULE,
  MAX_NAME, MAX_LIBRARIES, MAX_IMPORTS_PER_LIBRARY, MAX_IMPORTS_TOTAL, MAX_EXPORTS,
  Asked           \* the sets of offsets read_exports_at is asked about

DescriptorSize == 5
ExportHeader == 10

VARIABLES
  tables,   \* the image this behaviour reads
  reading,  \* the call in progress
  halting,  \* whether the caller has asked to stop
  late,     \* whether a loop that polls has read anything since
  answer    \* what the call returned

importVars == <<tables, reading, halting, late, answer>>

Resting == [at |-> "idle"]
Unanswered == [error |-> "none yet"]
ImportInit ==
  /\ tables \in Tables
  /\ reading = Resting /\ halting = FALSE /\ late = FALSE /\ answer = Unanswered

Reply(a) == answer' = a /\ reading' = Resting
Fail(e) == Reply([error |-> e])

-----------------------------------------------------------------------------
(* Reading. *)

Readable(rva, len) == rva .. rva + len - 1 \subseteq DOMAIN tables.cells
Cells(rva, len) == [n \in 1 .. len |-> tables.cells[rva + n - 1]]
Read(rva, len) == IF Readable(rva, len) THEN <<"ok", Cells(rva, len)>> ELSE <<"Unreadable">>
Inside(rva, len) == rva < tables.size /\ rva + len <= tables.size

\* clipped_reader: the start must be inside, and the length is what room there is.
clipped_reader(rva, len) ==
  LET room == IF tables.size > rva THEN tables.size - rva ELSE 0
  IN  IF ~Inside(rva, Min({len, room})) THEN <<"Malformed">> ELSE Read(rva, Min({len, room}))

\* read_declared: all of it or none, and never at zero.
read_declared(rva, len) ==
  IF (rva = 0 /\ len > 0) \/ ~Inside(rva, len) THEN <<"Malformed">> ELSE Read(rva, len)

declared_fits(rva, len) == rva + len <= tables.size

\* A read of a name never spans a granule.
want(here, taken) == Min({NAME_READ_GRANULE - (here % NAME_READ_GRANULE), MAX_NAME - taken})

RECURSIVE CString(_, _)
CString(rva, raw) ==
  IF Len(raw) >= MAX_NAME \/ rva + Len(raw) >= RvaSpace THEN <<"Malformed">>
  ELSE LET here == rva + Len(raw)
           chunk == clipped_reader(here, want(here, Len(raw)))
       IN  IF chunk[1] # "ok" THEN chunk
           ELSE IF \A n \in DOMAIN chunk[2] : chunk[2][n] # 0 THEN CString(rva, raw \o chunk[2])
           ELSE LET end == Min({n \in DOMAIN chunk[2] : chunk[2][n] = 0})
                    name == raw \o SubSeq(chunk[2], 1, end - 1)
                IN  IF \E n \in DOMAIN name : name[n] >= Flag THEN <<"Malformed">> ELSE <<"ok", name>>
read_c_string(rva) == IF rva = 0 THEN <<"Malformed">> ELSE CString(rva, <<>>)

\* A directory is absent when both its fields are zero, and wrong when one is.
Absent(d) == d = <<0, 0>>
Contradicts(d) == (d[1] = 0) # (d[2] = 0)

-----------------------------------------------------------------------------
(* read_imports. *)

BeginImports ==
  LET d == tables.import
      read == clipped_reader(d[1], d[2])
  IN  /\ reading.at = "idle" /\ answer = Unanswered
      /\ IF Absent(d) THEN Reply([error |-> "", of |-> "imports", imports |-> <<>>, unnamed |-> <<>>])
         ELSE IF Contradicts(d) \/ d[2] \div DescriptorSize > MAX_LIBRARIES + 1 \/ ~declared_fits(d[1], d[2])
              THEN Fail("Malformed")
         ELSE IF read[1] # "ok" THEN Fail(read[1])
         ELSE /\ reading' = [at |-> "descriptor", index |-> 0, descriptors |-> read[2], imports |-> <<>>,
                             unnamed |-> <<>>, claimed |-> {}, library |-> <<>>, lookup |-> 0,
                             iat |-> 0, slot |-> 0]
              /\ UNCHANGED answer
      /\ UNCHANGED <<tables, halting, late>>

\* The table ends at a descriptor that is zero in all its fields.
Null(d) == \A n \in 1 .. DescriptorSize : d[n] = 0

LibraryRow ==
  LET d == SubSeq(reading.descriptors, reading.index * DescriptorSize + 1,
                  (reading.index + 1) * DescriptorSize)
      library == read_c_string(d[4])
  IN  /\ reading.at = "descriptor"
      /\ IF (reading.index + 1) * DescriptorSize > Len(reading.descriptors)
         THEN Fail("Malformed") /\ UNCHANGED late
         ELSE IF halting THEN Fail("Interrupted") /\ UNCHANGED late
         ELSE IF Null(d)
              THEN /\ Reply([error |-> "", of |-> "imports", imports |-> reading.imports,
                             unnamed |-> reading.unnamed])
                   /\ UNCHANGED late
         ELSE /\ late' = halting
              /\ IF d[4] = 0 \/ d[5] = 0 THEN Fail("Malformed")
                 ELSE IF library[1] # "ok" THEN Fail(library[1])
                 ELSE IF d[1] # 0
                      THEN /\ reading' = [reading EXCEPT !.at = "thunk", !.library = library[2],
                                            !.lookup = d[1], !.iat = d[5], !.slot = 0]
                           /\ UNCHANGED answer
                 ELSE IF ~Inside(d[5], 1) THEN Fail("Malformed")
                 ELSE /\ reading' = [reading EXCEPT !.unnamed = Append(@, library[2]), !.index = @ + 1]
                      /\ UNCHANGED answer
      /\ UNCHANGED <<tables, halting>>

\* What a thunk imports.
ImportName(value) ==
  IF value >= Flag
  THEN IF value - Flag >= Ordinals THEN <<"Malformed">> ELSE <<"ok", <<value>>>>
  ELSE IF value >= RvaSpace \/ value + Hint >= RvaSpace THEN <<"Malformed">>
  ELSE read_c_string(value + Hint)

\* Mutant: a library is as long as the bound.
PerLibrary_cut(slot) == IF slot >= MAX_IMPORTS_PER_LIBRARY THEN "ends" ELSE ""

\* Running out of entries is not reaching the end of them.
PerLibrary(slot) == IF slot >= MAX_IMPORTS_PER_LIBRARY THEN "Malformed" ELSE ""

\* A slot belongs to one import.
Claims(slot) == slot \notin reading.claimed

Thunk ==
  LET slot == reading.iat + reading.slot
      entry == reading.lookup + reading.slot
      read == clipped_reader(entry, 1)
      value == read[2][1]
      name == ImportName(value)
      ends == reading' = [reading EXCEPT !.at = "descriptor", !.index = @ + 1] /\ UNCHANGED answer
  IN  /\ reading.at = "thunk"
      /\ IF PerLibrary(reading.slot) = "Malformed" THEN Fail("Malformed") /\ UNCHANGED late
         ELSE IF PerLibrary(reading.slot) = "ends" THEN ends /\ UNCHANGED late
         ELSE IF halting THEN Fail("Interrupted") /\ UNCHANGED late
         ELSE /\ late' = halting
              /\ IF slot >= RvaSpace \/ ~Inside(slot, 1) \/ entry >= RvaSpace THEN Fail("Malformed")
                 ELSE IF read[1] # "ok" THEN Fail(read[1])
                 ELSE IF value = 0 THEN ends
                 ELSE IF name[1] # "ok" THEN Fail(name[1])
                 ELSE IF ~Claims(slot) \/ Len(reading.imports) >= MAX_IMPORTS_TOTAL THEN Fail("Malformed")
                 ELSE /\ reading' = [reading EXCEPT !.slot = @ + 1, !.claimed = @ \cup {slot},
                                       !.imports = Append(@, [library |-> reading.library,
                                                              name |-> name[2], slot |-> slot])]
                      /\ UNCHANGED answer
      /\ UNCHANGED <<tables, halting>>

-----------------------------------------------------------------------------
(* read_import_address_table. *)

\* Slots are numbered with the zero that ends each library's run.
SlotReads(rva, cells) ==
  {[slot |-> rva + n - 1, value |-> cells[n]] : n \in {m \in DOMAIN cells : cells[m] # 0}}

read_import_address_table ==
  LET d == tables.iat
      read == read_declared(d[1], d[2])
  IN  /\ reading.at = "idle" /\ answer = Unanswered
      /\ IF Absent(d) THEN Reply([error |-> "", of |-> "iat", slots |-> {}])
         ELSE IF Contradicts(d) \/ d[2] > MAX_IMPORTS_TOTAL + MAX_LIBRARIES THEN Fail("Malformed")
         ELSE IF read[1] # "ok" THEN Fail(read[1])
         ELSE Reply([error |-> "", of |-> "iat", slots |-> SlotReads(d[1], read[2])])
      /\ UNCHANGED <<tables, halting, late>>

-----------------------------------------------------------------------------
(* read_exports_at. *)

BeginExports(rvas) ==
  LET d == tables.export
      fields == read_declared(d[1], ExportHeader)
      h == fields[2]
      library == read_c_string(h[4])
      exports == [error |-> "", of |-> "exports", library |-> library[2], asked |-> rvas,
                  names |-> [r \in {} |-> <<>>]]
  IN  /\ reading.at = "idle" /\ answer = Unanswered
      /\ IF Absent(d) THEN Reply([error |-> "", of |-> "no exports"])
         ELSE IF Contradicts(d) \/ d[2] < ExportHeader \/ ~declared_fits(d[1], d[2]) THEN Fail("Malformed")
         ELSE IF fields[1] # "ok" THEN Fail(fields[1])
         ELSE IF h[6] > MAX_EXPORTS \/ h[7] > MAX_EXPORTS \/ (h[6] = 0 /\ h[7] > 0) THEN Fail("Malformed")
         ELSE IF library[1] # "ok" THEN Fail(library[1])
         ELSE IF rvas = {} \/ h[6] = 0 \/ h[7] = 0 THEN Reply(exports)
         ELSE /\ reading' = [at |-> "addresses", functions |-> h[6], named |-> h[7], functionsAt |-> h[8],
                             namesAt |-> h[9], ordinalsAt |-> h[10], wanted |-> <<>>, ordinals |-> <<>>,
                             names |-> <<>>, index |-> 0, exports |-> exports]
              /\ UNCHANGED answer
      /\ UNCHANGED <<tables, halting, late>>

\* An entry inside the directory's own span is a forwarder, and is not matched.
Wanted(rvas, addresses) ==
  {n \in DOMAIN addresses :
     /\ addresses[n] \in rvas
     /\ addresses[n] \notin tables.export[1] .. tables.export[1] + tables.export[2] - 1}

\* A table read whole, after a poll.
Table(rva, len, then(_)) ==
  LET read == read_declared(rva, len)
  IN  IF halting THEN Fail("Interrupted") /\ UNCHANGED late
      ELSE late' = halting /\ IF read[1] # "ok" THEN Fail(read[1]) ELSE then(read[2])

AddressTable ==
  LET next(cells) ==
        LET matched == Wanted(reading.exports.asked, cells)
        IN  IF matched = {} THEN Reply(reading.exports)
            ELSE /\ reading' = [reading EXCEPT !.at = "ordinals",
                                  !.wanted = [n \in {m - 1 : m \in matched} |-> cells[n + 1]]]
                 /\ UNCHANGED answer
  IN  /\ reading.at = "addresses"
      /\ Table(reading.functionsAt, reading.functions, next)
      /\ UNCHANGED <<tables, halting>>

NameOrdinals ==
  LET next(cells) == reading' = [reading EXCEPT !.at = "names", !.ordinals = cells] /\ UNCHANGED answer
  IN  /\ reading.at = "ordinals"
      /\ Table(reading.ordinalsAt, reading.named, next)
      /\ UNCHANGED <<tables, halting>>

NameTable ==
  LET next(cells) == reading' = [reading EXCEPT !.at = "name", !.names = cells] /\ UNCHANGED answer
  IN  /\ reading.at = "names"
      /\ Table(reading.namesAt, reading.named, next)
      /\ UNCHANGED <<tables, halting>>

ExportName ==
  LET ordinal == reading.ordinals[reading.index + 1]
      address == reading.wanted[ordinal]
      name == read_c_string(reading.names[reading.index + 1])
      told == reading.exports.names
      sofar == IF address \in DOMAIN told THEN told[address] ELSE <<>>
  IN  /\ reading.at = "name"
      /\ IF reading.index >= reading.named THEN Reply(reading.exports) /\ UNCHANGED late
         ELSE IF ordinal >= reading.functions THEN Fail("Malformed") /\ UNCHANGED late
         ELSE IF ordinal \notin DOMAIN reading.wanted
              THEN reading' = [reading EXCEPT !.index = @ + 1] /\ UNCHANGED <<answer, late>>
         ELSE IF halting THEN Fail("Interrupted") /\ UNCHANGED late
         ELSE /\ late' = halting
              /\ IF name[1] # "ok" THEN Fail(name[1])
                 ELSE /\ reading' = [reading EXCEPT !.index = @ + 1,
                           !.exports.names = [r \in DOMAIN told \cup {address} |->
                              IF r = address THEN Append(sofar, name[2]) ELSE told[r]]]
                      /\ UNCHANGED answer
      /\ UNCHANGED <<tables, halting>>

RaiseHalt ==
  /\ reading.at # "idle" /\ ~halting
  /\ halting' = TRUE
  /\ UNCHANGED <<tables, reading, late, answer>>

ImportNext ==
  \/ BeginImports \/ LibraryRow \/ Thunk
  \/ read_import_address_table
  \/ \E rvas \in Asked : BeginExports(rvas)
  \/ AddressTable \/ NameOrdinals \/ NameTable \/ ExportName
  \/ RaiseHalt

-----------------------------------------------------------------------------
(* Properties. *)

\* What the tables in memory say, with no bound and no reader between.
Cell(rva) == IF rva \in DOMAIN tables.cells THEN tables.cells[rva] ELSE -1
Ended(rva) == Min({n \in 0 .. RvaSpace : rva + n \in DOMAIN tables.cells /\ Cell(rva + n) = 0})
String(rva) == Cells(rva, Ended(rva))
RowField(i, n) == Cell(tables.import[1] + i * DescriptorSize + n)
Libraries == 0 .. Min({i \in 0 .. MAX_LIBRARIES : \A n \in 0 .. 4 : RowField(i, n) = 0}) - 1
NameOf(value) == IF value >= Flag THEN <<value>> ELSE String(value + Hint)
Imported ==
  UNION {{[library |-> String(RowField(i, 3)), name |-> NameOf(Cell(RowField(i, 0) + n)), slot |-> RowField(i, 4) + n] :
            n \in 0 .. Ended(RowField(i, 0)) - 1} : i \in {j \in Libraries : RowField(j, 0) # 0}}
Bound == {i \in Libraries : RowField(i, 0) = 0}

\* An import table that is answered is the image's whole: every function of every library up
\* to the null descriptor, under its own name, or its library among those that cannot be
\* named.  Nothing is cut at a bound.
ImportsAreWhole ==
  answer.error = "" /\ answer.of = "imports" /\ ~Absent(tables.import) =>
    /\ Range(answer.imports) = Imported
    /\ answer.unnamed = [n \in 1 .. Cardinality(Bound) |->
          String(RowField(CHOOSE i \in Bound : Cardinality({j \in Bound : j < i}) = n - 1, 3))]

\* A slot names one import, and is an address of this image.
SlotsAreOwn ==
  answer.error = "" /\ answer.of = "imports" =>
    \A m, n \in DOMAIN answer.imports :
      /\ answer.imports[n].slot < tables.size
      /\ answer.imports[m].slot = answer.imports[n].slot => m = n

Reaches(rva, n) == \A m \in 0 .. n - 1 : rva + m \in DOMAIN tables.cells /\ Cell(rva + m) # 0
Run(rva) == {rva + n : n \in {m \in 0 .. MAX_NAME : Reaches(rva, m)}}
Directory == tables.import[1] .. tables.import[1] + tables.import[2] - 1
Described == {i \in 0 .. MAX_LIBRARIES : (i + 1) * DescriptorSize <= tables.import[2]}
Needed ==
  Directory \cup
  UNION {LET thunks == IF RowField(i, 0) = 0 THEN {} ELSE Run(RowField(i, 0))
         IN  Run(RowField(i, 3)) \cup thunks
             \cup UNION {Run(Cell(c) + Hint) : c \in {t \in thunks : Cell(t) \in 1 .. Flag - 1}} :
           i \in {j \in Described : \E n \in 0 .. 4 : RowField(j, n) # 0}}
\* "Could not be read" is said of an import only when a cell it needs is not there: a hole
\* beside a name is not in its way.
UnreadableIsMissing ==
  answer.error = "Unreadable" /\ Absent(tables.iat) /\ Absent(tables.export) =>
    \E c \in Needed : c \notin DOMAIN tables.cells

\* The address table's slots are the import table's: a value is at the slot that the
\* import it holds is called through, whichever of the two tables names it.
SlotsAgree ==
  answer.error = "" /\ answer.of = "iat" =>
    \A s \in answer.slots : s.slot \in DOMAIN tables.cells /\ s.value = Cell(s.slot)

Exports(n) == Cell(tables.export[1] + n)
ExportedAt(r) ==
  SelectSeq([n \in 1 .. Exports(6) |-> n - 1],
            LAMBDA i : LET ordinal == Cell(Exports(9) + i)
                       IN  ordinal < Exports(5) /\ Cell(Exports(7) + ordinal) = r)
\* An address is given the names it is exported under, all of them, in the table's order,
\* and none that only forwards.
ExportsAreExact ==
  answer.error = "" /\ answer.of = "exports" =>
    \A r \in answer.asked :
      LET told == IF r \in DOMAIN answer.names THEN answer.names[r] ELSE <<>>
      IN  IF Exports(5) = 0 \/ r \in tables.export[1] .. tables.export[1] + tables.export[2] - 1
          THEN told = <<>>
          ELSE told = [k \in DOMAIN ExportedAt(r) |-> String(Cell(Exports(8) + ExportedAt(r)[k]))]

\* Once the caller has asked to stop, nothing more is read by a loop or a table that polls.
NothingReadLate == ~late

\* The ranges and directories taken from a header are the image's own: all of its code, and
\* nothing past its end, its address space or its header (read_image).
ImageBounds ==
  /\ RangesAreTheCode
  /\ RangesDoNotWrap
  /\ DirectoriesInTheHeader

\* The imports and exports answered are the tables' own, all of them, each slot one import's and
\* each address under its own names; unreadable is said only of what is missing, and nothing is
\* read once the caller asked to stop (read_imports, read_exports_at).
TablesExact ==
  /\ ImportsAreWhole
  /\ SlotsAreOwn
  /\ UnreadableIsMissing
  /\ SlotsAgree
  /\ ExportsAreExact
  /\ NothingReadLate
=============================================================================
