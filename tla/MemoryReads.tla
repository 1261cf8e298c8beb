---------------------------- MODULE MemoryReads ----------------------------
(***************************************************************************)
(* Reading the target's memory: in one transfer, or in chunks of at most a *)
(* page between which a deadline and a request to stop are looked at; and  *)
(* what the memory manager says of a run of pages.  An address stands for  *)
(* the byte it holds.                                                      *)
(***************************************************************************)
EXTENDS Integers, Sequences, FiniteSets, FiniteSetsExt

CONSTANTS
  Memories,          \* the sets of addresses a target may have readable
  ReadAddresses, ReadSizes,
  Top,               \* the size of the address space: addresses are below it
  MaxRead,           \* the longest read the engine's u32 count allows
  READ_CHUNK_BYTES,
  Regions            \* the runs of pages a target may describe

ASSUME MemoryAssumption ==
  /\ Top \in Nat /\ MaxRead \in Nat /\ READ_CHUNK_BYTES \in Nat \ {0}
  /\ ReadAddresses \subseteq 0 .. Top - 1 /\ ReadSizes \subseteq Nat
  /\ \A r \in Regions : r.base \in Nat /\ r.size \in Nat

VARIABLES
  readable,          \* the addresses the target answers for
  overclaims,        \* whether its reader claims more than it was handed
  job,               \* the bounded read in progress
  pressing,          \* which of the deadline and a request have come
  tardy,             \* a transfer was begun after one of them
  got                \* what the last call answered

memoryVars == <<readable, overclaims, job, pressing, tardy, got>>

NoJob == [pc |-> "idle"]
Nothing == [kind |-> "none"]
MemoryInit ==
  /\ readable \in Memories /\ overclaims \in BOOLEAN
  /\ job = NoJob /\ pressing = {} /\ tardy = FALSE /\ got = Nothing

(* The bytes a transfer of `len` bytes at `at` brings: those up to the first it has not.  One     *)
(* that has not the first fails.                                                                  *)
Prefix(at, len) ==
  Max({n \in 0 .. len : \A i \in 0 .. n - 1 : at + i < Top /\ at + i \in readable})
Bytes(at, n) == [i \in 1 .. n |-> at + i - 1]
MemoryAnswer(kind, address, size, bytes) == [kind |-> kind, address |-> address, size |-> size, bytes |-> bytes]

TooLarge(size) == size > MaxRead

(* read_memory: all of it or none. *)
read_memory(address, size) ==
  /\ job.pc = "idle" /\ got = Nothing
  /\ ~TooLarge(size)
  /\ LET n == Prefix(address, size)
     IN got' = IF n = 0 /\ size > 0 THEN MemoryAnswer("failed", address, size, <<>>)
               ELSE IF n # size THEN MemoryAnswer("short", address, size, Bytes(address, n))
               ELSE MemoryAnswer("read", address, size, Bytes(address, n))
  /\ UNCHANGED <<readable, overclaims, job, pressing, tardy>>

BufferTooLarge(address, size) ==
  /\ job.pc = "idle" /\ got = Nothing
  /\ TooLarge(size)
  /\ got' = MemoryAnswer("too_large", address, size, <<>>)
  /\ UNCHANGED <<readable, overclaims, job, pressing, tardy>>

read_memory_bounded(address, size) ==
  /\ job.pc = "idle" /\ got = Nothing
  /\ ~TooLarge(size)
  /\ job' = [pc |-> "reading", address |-> address, size |-> size, bytes |-> <<>>,
             buffer |-> [i \in 1 .. Min({READ_CHUNK_BYTES, size}) |-> -1]]
  /\ pressing' = {} /\ tardy' = FALSE /\ got' = Nothing
  /\ UNCHANGED <<readable, overclaims>>

Done == Len(job.bytes)
Finished(answer) == job' = NoJob /\ got' = answer /\ UNCHANGED <<readable, overclaims, pressing, tardy>>

(* The deadline is asked first, and both are asked before a transfer, never after. *)
halted == pressing # {}
Halt ==
  /\ job.pc = "reading"
  /\ Done < job.size
  /\ halted
  /\ Finished([kind |-> "cut", address |-> job.address, size |-> job.size, bytes |-> job.bytes,
               why |-> IF "deadline" \in pressing THEN "Deadline" ELSE "OnRequest"])
Whole ==
  /\ job.pc = "reading"
  /\ Done >= job.size
  /\ Finished(MemoryAnswer("read", job.address, job.size, job.bytes))

Short(n) == MemoryAnswer("short", job.address, job.size, SubSeq(job.bytes, 1, n))
(* A range whose end wraps: what lies below the wrap was read, and no more can be. *)
Wraps ==
  /\ job.pc = "reading"
  /\ Done < job.size /\ ~halted
  /\ job.address + Done >= Top
  /\ Finished(Short(Done))

(* read_chunk_len: up to the end of the page, and never past what is left. *)
read_chunk_len ==
  Min({job.size - Done, READ_CHUNK_BYTES - ((job.address + Done) % READ_CHUNK_BYTES)})
(* A reader that claims more than its slice would have the previous chunk's bytes taken. *)
clamped_not(n, len) == n
clamped(n, len) == Min({n, len})
Claimed(n, len) ==
  IF overclaims /\ n = len THEN Min({len + 1, Len(job.buffer)}) ELSE n
TransferFails ==
  /\ job.pc = "reading"
  /\ Done < job.size /\ ~halted
  /\ job.address + Done < Top
  /\ Prefix(job.address + Done, read_chunk_len) = 0
  /\ Finished(IF Done > 0 THEN Short(Done) ELSE MemoryAnswer("failed", job.address, job.size, <<>>))

Transfer ==
  /\ job.pc = "reading"
  /\ Done < job.size /\ ~halted
  /\ job.address + Done < Top
  /\ LET at == job.address + Done
         len == read_chunk_len
         n == Prefix(at, len)
         buffer == [i \in DOMAIN job.buffer |-> IF i <= n THEN at + i - 1 ELSE job.buffer[i]]
         bytes == job.bytes \o SubSeq(buffer, 1, clamped(Claimed(n, len), len))
     IN /\ n > 0
        /\ tardy' = (pressing # {})
        /\ IF n < len
           THEN job' = NoJob /\ got' = MemoryAnswer("short", job.address, job.size, bytes)
           ELSE job' = [job EXCEPT !.bytes = bytes, !.buffer = buffer] /\ UNCHANGED got
  /\ UNCHANGED <<readable, overclaims, pressing>>

(* The host may be out of room for what a transfer brought. *)
OutOfMemory ==
  /\ job.pc = "reading"
  /\ Done < job.size /\ ~halted
  /\ Finished(MemoryAnswer("oom", job.address, job.size, job.bytes))

Raise(what) ==
  /\ job.pc = "reading"
  /\ pressing' = pressing \cup {what}
  /\ UNCHANGED <<readable, overclaims, job, tardy, got>>

--------------------------------------------------------------------------------
(* virtual_region: a run of pages, and its state from the memory manager's flag word. *)
from_mem_state(bits) ==
  IF "commit" \in bits THEN "Committed" ELSE IF "reserve" \in bits THEN "Reserved"
  ELSE IF "free" \in bits THEN "Free" ELSE "Unknown"
committed(state) == IF state = "Committed" THEN "yes" ELSE IF state = "Unknown" THEN "unknown" ELSE "no"
contains(r, address) == address >= r.base /\ address - r.base < r.size
virtual_region(r) ==
  /\ job.pc = "idle" /\ got = Nothing
  /\ got' = [kind |-> "region", region |-> r, committed |-> committed(from_mem_state(r.state)),
             covers |-> {a \in 0 .. Top - 1 : contains(r, a)}]
  /\ UNCHANGED <<readable, overclaims, job, pressing, tardy>>

MemoryNext ==
  \/ \E a \in ReadAddresses, n \in ReadSizes : read_memory(a, n) \/ BufferTooLarge(a, n) \/ read_memory_bounded(a, n)
  \/ Halt \/ Whole \/ Wraps \/ TransferFails \/ Transfer \/ OutOfMemory
  \/ \E what \in {"deadline", "request"} : Raise(what)
  \/ \E r \in Regions : virtual_region(r)
MemorySpec == MemoryInit /\ [][MemoryNext]_memoryVars

--------------------------------------------------------------------------------
(* Reading in chunks answers what one transfer of the whole range would have: as far as the       *)
(* target can be read, a failure only when nothing could.                                         *)
ChunkedAgrees ==
  /\ got.kind = "read" => Prefix(got.address, got.size) = got.size
  /\ got.kind = "short" => Len(got.bytes) = Prefix(got.address, got.size) /\ Len(got.bytes) \in 1 .. got.size - 1
  /\ got.kind = "failed" => Prefix(got.address, got.size) = 0

(* Every byte answered is the target's byte at its own address, whatever a reader claims and      *)
(* whatever an earlier chunk left in the buffer.                                                  *)
BytesAreTheTarget ==
  "bytes" \in DOMAIN got => \A i \in DOMAIN got.bytes : got.bytes[i] = got.address + i - 1

(* A read is said to be cut short exactly when bytes are missing for it: one that finished        *)
(* everything before it looked is whole.                                                          *)
CutIsShort ==
  /\ got.kind = "cut" => Len(got.bytes) < got.size
  /\ got.kind = "read" => Len(got.bytes) = got.size

(* No transfer is begun once the deadline has passed or a request has come: the overshoot is the  *)
(* one in progress.                                                                               *)
NoneBegunLate == ~tardy

(* A run covers exactly its own addresses, at the top of the space too, and address space is only *)
(* said to be without pages when the memory manager said so.                                      *)
RegionTold ==
  got.kind = "region" =>
    /\ got.covers = (got.region.base .. got.region.base + got.region.size - 1) \cap (0 .. Top - 1)
    /\ got.committed = "yes" <=> "commit" \in got.region.state
    /\ got.committed = "no" => {"reserve", "free"} \cap got.region.state # {}

(* A read in chunks is the read of the whole: the target's own bytes, as far as they go, short    *)
(* only when some are missing, and with no transfer begun after the caller was to stop.           *)
ReadsExact ==
  /\ ChunkedAgrees
  /\ BytesAreTheTarget
  /\ CutIsShort
  /\ NoneBegunLate
  /\ RegionTold
=============================================================================
