----------------------------- MODULE Disassembly -----------------------------
(***************************************************************************)
(* A target's code as instructions: a listing rendered by the engine line  *)
(* by line, a range decoded from one read of memory, and the extent of the *)
(* unwind region an address is in.                                         *)
(***************************************************************************)
EXTENDS Integers, Sequences, SequencesExt, Flows

CONSTANTS
  Texts,     \* code images: [machine, answers, memory |-> [address -> byte or Gone], entry, holder, header]
  TopAddress,\* the last address there is
  Gone,      \* a byte that cannot be read
  MaxLines   \* a bound of the instance

VARIABLES
  text,      \* the image
  due,       \* why a bounded walk should stop: a set of "Deadline" and "OnRequest"
  listing,   \* the walk in progress and what it has
  span,      \* what decode_range answered
  extent     \* what function_extent answered

disassemblyVars == <<text, due, listing, span, extent>>

NotListed == [pc |-> "idle", out |-> <<>>]
NotAsked == [kind |-> "none"]
DisassemblyInit ==
  /\ text \in Texts /\ due = {} /\ listing = NotListed /\ span = NotAsked /\ extent = NotAsked

--------------------------------------------------------------------------------
(* Decoding.  An x86 instruction is one byte or, for a jump, two; an A64 one is a word of two,    *)
(* stored low byte first and rendered high byte first.  The leading byte decides what it does.    *)
Fallthrough == <<"Fallthrough">>
Unknown == <<"Unknown">>
Unreadable == <<"Unreadable">>
Flow(lead, operand) ==
  CASE lead = 0 -> Fallthrough [] lead = 1 -> <<"Jmp", <<operand>>>> [] lead = 3 -> <<"Return">> [] OTHER -> Unknown
(* What iced makes of bytes: how many they are and what they do. *)
Iced(bytes) ==
  IF bytes[1] = 1 THEN (IF Len(bytes) > 1 THEN [len |-> 2, flow |-> Flow(1, bytes[2])] ELSE [len |-> 1, flow |-> Unknown])
  ELSE [len |-> 1, flow |-> Flow(bytes[1], 0)]
arm64_decode(word) == Flow(word[1], word[2])

from_processor_type(machine) == IF machine \in {"X86", "Amd64", "Arm64"} THEN machine ELSE "Other"
(* A listing whose processor cannot be read still has a rendering, with nothing decoded. *)
instruction_set == IF text.answers THEN from_processor_type(text.machine) ELSE "Other"

(* Bytes that are not there are not there on any architecture. *)
decode_operation(bytes, set) ==
  IF bytes = <<>> THEN Unreadable
  ELSE CASE set = "Other" -> Unknown
         [] set = "Arm64" -> IF Len(bytes) < 2 THEN Unknown ELSE arm64_decode(bytes)
         [] OTHER -> Iced(bytes).flow

--------------------------------------------------------------------------------
Readable(a) == a \in 0 .. TopAddress /\ text.memory[a] # Gone
Bytes(a, n) == [k \in 1 .. n |-> text.memory[a + k - 1]]
(* The engine's own rendering at an address: its byte column, and where the next one starts.  It  *)
(* has no column where nothing can be read, and at the top of the address space nothing is next.  *)
Width(a) == IF text.machine \in {"Arm64", "Arm64EC"} THEN 2 ELSE IF text.memory[a] = 1 THEN 2 ELSE 1
Column(a) ==
  IF ~\A k \in 0 .. Width(a) - 1 : Readable(a + k) THEN <<>>
  ELSE IF text.machine \in {"Arm64", "Arm64EC"} THEN Reverse(Bytes(a, 2)) ELSE Bytes(a, Width(a))
NextOf(a) == LET n == a + (IF Column(a) = <<>> THEN 1 ELSE Len(Column(a))) IN IF n > TopAddress THEN 0 ELSE n
split_instruction(a, set) == [address |-> a, bytes |-> Column(a), flow |-> decode_operation(Column(a), set)]

Bounded == listing.pc = "line" /\ listing.bounded
Raise(why) == Bounded /\ why \notin due /\ due' = due \cup {why} /\ UNCHANGED <<text, listing, span, extent>>
disassemble(a, count, bounded) ==
  /\ listing.pc = "idle" /\ span = NotAsked
  /\ listing' = [pc |-> "line", start |-> a, at |-> a, count |-> count, bounded |-> bounded, set |-> instruction_set, out |-> <<>>]
  /\ UNCHANGED <<text, due, span, extent>>
Done(out, cut, at) == [pc |-> "done", start |-> listing.start, count |-> listing.count, out |-> out, cut |-> cut, at |-> at]
Advances(next, at) == next > at
(* disassemble_lines: the bound is asked before each line, the deadline first; a first line that  *)
(* fails is an error, a later one the end of what can be read.  A request taken is drained by the *)
(* walk and one not taken by its operation's end, so none is left for what runs next.             *)
Cut == IF "Deadline" \in due THEN "Deadline" ELSE "OnRequest"
Finished == Done(listing.out, "no", listing.at)
Line ==
  /\ listing.pc = "line"
  /\ \/ Len(listing.out) = listing.count /\ listing' = Finished
     \/ Len(listing.out) < listing.count /\ due # {} /\ listing' = Done(listing.out, Cut, listing.at)
     \/ /\ Len(listing.out) < listing.count /\ due = {}
        /\ \/ listing' = IF listing.out = <<>> THEN [pc |-> "failed", out |-> <<>>] ELSE Done(listing.out, "no", -1)
           \/ LET out == Append(listing.out, split_instruction(listing.at, listing.set))
                  next == NextOf(listing.at)
              IN listing' = IF Advances(next, listing.at) THEN [listing EXCEPT !.out = out, !.at = next]
                            ELSE Done(out, "no", -1)
  /\ due' = IF listing'.pc = "line" THEN due ELSE {}
  /\ UNCHANGED <<text, span, extent>>

(* decode_range: the span is what one read gives, from the address to the first byte missing.     *)
ReadLen(a, n) == LET ks == {k \in 0 .. n : \A j \in 0 .. k - 1 : Readable(a + j)} IN CHOOSE k \in ks : \A j \in ks : j <= k
word_of_big(bytes) == bytes
word_of(bytes) == Reverse(bytes)
RECURSIVE X86Range(_, _)
X86Range(a, bytes) ==
  IF bytes = <<>> THEN <<>>
  ELSE LET d == Iced(bytes)
       IN <<[address |-> a, bytes |-> SubSeq(bytes, 1, d.len), flow |-> d.flow]>>
            \o X86Range(a + d.len, SubSeq(bytes, d.len + 1, Len(bytes)))
decode_range_arm64(a, bytes) ==
  [i \in 1 .. Len(bytes) \div 2 |->
     LET word == word_of(SubSeq(bytes, 2 * i - 1, 2 * i))
     IN [address |-> a + 2 * (i - 1), bytes |-> word, flow |-> arm64_decode(word)]]
decode_range(a, n) ==
  /\ span = NotAsked /\ listing.pc # "line"
  /\ LET set == from_processor_type(text.machine)
         bytes == Bytes(a, ReadLen(a, n))
     IN span' = CASE ~text.answers -> [kind |-> "failed"]
                  [] text.answers /\ set = "Other" -> [kind |-> "UndecodedInstructionSet"]
                  [] text.answers /\ set # "Other" /\ bytes = <<>> /\ n > 0 -> [kind |-> "failed"]
                  [] OTHER -> [kind |-> "range", out |-> IF set = "Arm64" THEN decode_range_arm64(a, bytes) ELSE X86Range(a, bytes)]
  /\ UNCHANGED <<text, due, listing, extent>>

(* decode_instruction: bytes a caller holds, in the order a column has them, of which only those   *)
(* the instruction occupies are reported; where nothing decodes there is no extent to report.     *)
Occupied(bytes, len) == SubSeq(bytes, 1, len)
decode_instruction(a, n) ==
  /\ span = NotAsked /\ listing.pc = "idle" /\ n > 0 /\ ReadLen(a, n) = n
  /\ LET set == from_processor_type(text.machine)
         bytes == Bytes(a, n)
         flow == decode_operation(bytes, set)
         len == IF set = "Arm64" THEN 2 ELSE Iced(bytes).len
     IN span' = [kind |-> "one", offered |-> bytes, set |-> set, flow |-> flow,
                 bytes |-> IF flow = Unknown THEN bytes ELSE Occupied(bytes, len)]
  /\ UNCHANGED <<text, due, listing, extent>>

--------------------------------------------------------------------------------
(* The second word of an ARM64 unwind record: its low two bits say whether the length is packed   *)
(* in it or is in the header it points to.                                                        *)
unwind_record(word) ==
  CASE word % 4 = 0 -> <<"XdataAt", word>> [] word % 4 = 3 -> <<"Reserved">> [] OTHER -> <<"PackedLength", ((word \div 4) % 2^11) * 4>>
NoLength == -1
xdata_length(header) == IF (header \div 2^18) % 4 = 0 THEN (header % 2^18) * 4 ELSE NoLength
(* A header that would not read is an error: the image has an entry for the address. *)
HeaderUnread(address) == [kind |-> "failed"]
UnreadHeader == -2
arm64_function_length(word) ==
  LET r == unwind_record(word)
  IN CASE r[1] = "PackedLength" -> r[2]
       [] r[1] = "Reserved" -> NoLength
       [] OTHER -> IF text.header.read THEN xdata_length(text.header.word) ELSE UnreadHeader

Expected == IF text.machine = "Amd64" THEN 3 ELSE 2
WrongShape(needed) == needed # Expected
Region(address, entry) ==
  LET length == IF text.machine = "Amd64" THEN entry.second - entry.begin ELSE arm64_function_length(entry.second)
      begin == text.holder.base + entry.begin
  IN IF length = UnreadHeader THEN HeaderUnread(address)
     ELSE IF length <= 0 \/ ~(begin <= address /\ address < begin + length) THEN [kind |-> "NoEntry", address |-> address]
     ELSE [kind |-> "Region", address |-> address, begin |-> begin, end |-> begin + length]
(* A record of another width than the architecture's is a layout this does not decode. *)
function_extent(address) ==
  /\ extent = NotAsked
  /\ extent' = CASE ~text.answers -> [kind |-> "failed"]
                 [] text.answers /\ text.machine \notin {"Amd64", "Arm64"} -> [kind |-> "Unsupported"]
                 [] OTHER ->
                      CASE text.entry.kind = "broken" -> [kind |-> "failed"]
                        [] text.entry.kind = "none" -> [kind |-> "NoEntry", address |-> address]
                        [] OTHER -> IF WrongShape(text.entry.needed) THEN [kind |-> "Unsupported"]
                                    ELSE IF text.entry.begin = 0 THEN [kind |-> "NoEntry", address |-> address]
                                    ELSE IF text.holder.kind = "failed" THEN [kind |-> "failed"]
                                    ELSE IF text.holder.kind = "nowhere" THEN [kind |-> "NoEntry", address |-> address]
                                    ELSE Region(address, text.entry)
  /\ UNCHANGED <<text, due, listing, span>>

ListingNext ==
  \/ \E why \in {"Deadline", "OnRequest"} : Raise(why)
  \/ \E a \in 0 .. TopAddress, count \in 0 .. MaxLines, bounded \in BOOLEAN : disassemble(a, count, bounded)
  \/ Line
  \/ \E a \in 0 .. TopAddress, n \in 0 .. TopAddress + 1 : a + n <= TopAddress + 1 /\ (decode_range(a, n) \/ decode_instruction(a, n))
ExtentNext == \E address \in 100 .. 112 : function_extent(address)

--------------------------------------------------------------------------------
(* A listing is a run of code: it starts where it was asked to, each instruction starts where the *)
(* one before it ended, and no address comes twice.                                               *)
ListingIsARun ==
  \A i \in DOMAIN listing.out :
    /\ i = 1 => listing.out[1].address = listing.start
    /\ i > 1 => listing.out[i].address = NextOf(listing.out[i - 1].address) /\ listing.out[i].address > listing.out[i - 1].address

(* A walk that was stopped says so and one that finished does not: the last instruction of a      *)
(* listing that is not cut short is the last asked for or the last there was.                     *)
CutIsSaid ==
  listing.pc = "done" =>
    IF listing.cut = "no" THEN Len(listing.out) = listing.count \/ listing.at = -1 ELSE Len(listing.out) < listing.count

(* No walk steps through an address nothing could be read at, whatever the instruction set; one   *)
(* that was read and not decoded is still stepped over.                                           *)
UnreadableStops ==
  \A i \in DOMAIN listing.out :
    (listing.out[i].bytes = <<>>) <=> ~falls_through(listing.out[i].flow) /\ listing.out[i].flow[1] \notin {"Jmp", "Return"}

(* An instruction is the same whichever path read it: the engine's column and the target's memory *)
(* are different orders of the same bytes.                                                        *)
PathsAgree ==
  listing.pc = "done" /\ span.kind = "range" =>
    \A i \in DOMAIN listing.out, j \in DOMAIN span.out :
      listing.out[i].address = span.out[j].address /\ listing.out[i].bytes # <<>> /\ Len(listing.out[i].bytes) = Len(span.out[j].bytes)
        => listing.out[i] = span.out[j]

(* A caller that steps through a buffer by the bytes reported misses nothing: an instruction that *)
(* decoded occupies what it is said to and what follows is another.                               *)
StepMissesNothing ==
  span.kind = "one" /\ span.flow # Unknown =>
    Len(span.bytes) = IF span.set = "Arm64" THEN 2 ELSE Len(X86Range(0, span.offered)[1].bytes)

(* What an unwind entry bounds, by the layout of the machine it was made for. *)
Bounds(address) ==
  LET length == IF text.entry.needed = 3 THEN text.entry.second - text.entry.begin
                ELSE CASE unwind_record(text.entry.second)[1] = "PackedLength" -> unwind_record(text.entry.second)[2]
                       [] unwind_record(text.entry.second)[1] = "XdataAt" -> xdata_length(text.header.word)
                       [] OTHER -> 0
  IN text.entry.begin # 0 /\ text.holder.base + text.entry.begin <= address /\ address < text.holder.base + text.entry.begin + length
(* A region is one the image's own entry bounds, and it holds the address asked about. *)
RegionIsTheEntry == extent.kind = "Region" => extent.begin <= extent.address /\ extent.address < extent.end /\ Bounds(extent.address)

(* An address is said to have no entry only when none covers it: a header that would not read, or *)
(* a lookup that failed, is not a leaf function.                                                  *)
NoEntryIsALeaf ==
  extent.kind = "NoEntry" => text.entry.kind = "none" \/ text.holder.kind = "nowhere" \/ ~Bounds(extent.address)

(* A listing is the code: each instruction follows the one before it and is the same by every     *)
(* path, a cut is said, and what could not be read is neither stepped over nor a leaf function.   *)
ListingsExact ==
  /\ ListingIsARun
  /\ CutIsSaid
  /\ UnreadableStops
  /\ PathsAgree
  /\ StepMissesNothing
  /\ RegionIsTheEntry
  /\ NoEntryIsALeaf
=============================================================================
