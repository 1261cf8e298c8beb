------------------------ MODULE EngineCallsProofs -------------------------
(***************************************************************************)
(* Proofs about calls of the engine's.  The watchdog thread that bounds    *)
(* one and its owner implement AbstractWatchdog, for any set of watchdogs; *)
(* memory is read exactly, for any address space and chunk, whatever cuts  *)
(* it; and a breakpoint is set whole or not at all, for any specs.         *)
(***************************************************************************)
EXTENDS Watchdog, MemoryReads, Breakpoints, WellFoundedInduction, FiniteSetTheorems, TLAPS

\* Between a break and its store the thread is at "storing", and the owner has
\* its answer only after the thread has exited: so at the answer the break and
\* its record agree.
Inv ==
  /\ TypeOK
  /\ NeverEarly
  /\ \A d \in Dogs :
       /\ thread[d] = "raising" => d \in due
       /\ thread[d] = "storing" => d \in raised
       /\ thread[d] # "storing" => (d \in raised <=> d \in fired)
       /\ owner[d] \in {"joined", "gone"} => thread[d] = "exited"
       /\ report[d] = "open" <=> owner[d] # "gone"

\* Before any watchdog is armed.
LEMMA InitInv == Init => Inv
  BY Zenon DEF Init, Inv, TypeOK, NeverEarly

\* Every step of a watchdog and its owner.
LEMMA NextInv == Inv /\ [Next]_vars => Inv'
<1> SUFFICES ASSUME Inv, [Next]_vars PROVE Inv'
  BY Zenon
<1> USE DEF Inv, TypeOK, NeverEarly
<1>1. CASE UNCHANGED vars
  BY <1>1, Zenon DEF vars
<1>2. ASSUME NEW d \in Dogs, Elapse(d) PROVE Inv'
  BY <1>2, Zenon DEF Elapse
<1>3. ASSUME NEW d \in Dogs, Lock(d) PROVE Inv'
  BY <1>3, Zenon DEF Lock
<1>4. ASSUME NEW d \in Dogs, Wake(d) PROVE Inv'
  BY <1>4, Zenon DEF Wake
<1>5. ASSUME NEW d \in Dogs, Check(d) PROVE Inv'
  BY <1>5, Zenon DEF Check
<1>6. ASSUME NEW d \in Dogs, OnDeadline(d) PROVE Inv'
  BY <1>6, Zenon DEF OnDeadline
<1>7. ASSUME NEW d \in Dogs, Store(d) PROVE Inv'
  BY <1>7, Zenon DEF Store
<1>8. ASSUME NEW d \in Dogs, Stop(d) PROVE Inv'
  BY <1>8 DEF Stop
<1>9. ASSUME NEW d \in Dogs, Join(d) PROVE Inv'
  BY <1>9 DEF Join, Joined
<1>10. ASSUME NEW d \in Dogs, Answer(d) PROVE Inv'
  BY <1>10, Zenon DEF Answer
<1> QED
  BY <1>1, <1>2, <1>3, <1>4, <1>5, <1>6, <1>7, <1>8, <1>9, <1>10, Zenon
  DEF Next, Thread, Owner

\* A watchdog never breaks in before its deadline.
THEOREM NeverEarlyHolds == Spec => []NeverEarly
<1>1. Inv => NeverEarly
  BY Zenon DEF Inv
<1> QED
  BY <1>1, InitInv, NextInv, PTL DEF Spec

\* The thread, its flags and its owner implement the promise Operations builds
\* on: no break after the answer of `disarm`, and an answer that counts every
\* break.
THEOREM Implementation == Spec => ImplementsAbstract
<1>1. Init => Abstract!Init
  BY Zenon DEF Init, Abstract!Init
<1>2. Inv /\ [Next]_vars => [Abstract!Next]_<<raised, report>>
  <2> SUFFICES ASSUME Inv, [Next]_vars PROVE [Abstract!Next]_<<raised, report>>
    BY Zenon
  <2>1. CASE UNCHANGED <<raised, report>>
    BY <2>1, Zenon
  <2>2. ASSUME NEW d \in Dogs, OnDeadline(d) PROVE Abstract!Raise(d)
    BY <2>2, Zenon DEF OnDeadline, Abstract!Raise, Inv
  <2>3. ASSUME NEW d \in Dogs, Join(d), owner[d] = "dropping" PROVE Abstract!Abandon(d)
    BY <2>3, Zenon DEF Join, Abstract!Abandon, Inv
  <2>4. ASSUME NEW d \in Dogs, Answer(d) PROVE Abstract!Disarm(d)
    <3>1. report[d] = "open" /\ (d \in raised <=> d \in fired)
      BY <2>4, Zenon DEF Answer, Inv
    <3> QED
      BY <2>4, <3>1, Zenon DEF Answer, Abstract!Disarm
  <2>5. \/ UNCHANGED <<raised, report>>
        \/ \E d \in Dogs : OnDeadline(d) \/ Answer(d) \/ (Join(d) /\ owner[d] = "dropping")
    BY Zenon DEF Next, Thread, Owner, vars, Elapse, Lock, Wake, Check, Store, Stop, Join
  <2> QED
    BY <2>1, <2>2, <2>3, <2>4, <2>5, Zenon DEF Abstract!Next
<1> QED
  BY <1>1, <1>2, InitInv, NextInv, PTL DEF Spec, ImplementsAbstract, Abstract!Spec

--------------------------------------------------------------------------------
(* Memory read. *)

\* A set of numbers has a first one.
LEMMA FirstOf ==
  ASSUME NEW T, T \subseteq Nat, T # {}
  PROVE  \E x \in T : \A y \in T : x <= y
<1> DEFINE R == OpToRel(<, Nat)
<1>1. \A x, y \in Nat : x < y => <<x, y>> \in R
  BY Zenon DEF OpToRel
<1>2. IsWellFoundedOn(R, Nat)
  BY NatLessThanWellFounded, Zenon
<1> HIDE DEF R
<1>3. PICK x \in T : \A y \in T : ~(<<y, x>> \in R)
  BY <1>2, WFMin, Zenon
<1>4. ASSUME NEW y \in T PROVE x <= y
  <2>1. x \in Nat /\ y \in Nat
    BY Zenon
  <2>2. ~(y < x)
    BY <1>1, <1>3, <2>1, Zenon
  <2> QED BY <2>1, <2>2
<1> QED BY <1>4, Zenon

\* Byte a of a target that has R readable, and the n bytes from a on.
Has(R, a) == a < Top /\ a \in R
HasAll(R, a, n) == \A i \in 0 .. n - 1 : Has(R, a + i)

\* The bytes are those of their own addresses.
InPlace(a, bytes) == \A i \in 1 .. Len(bytes) : bytes[i] = a + i - 1

\* What a call may answer of a target that has R readable.
Sound(R, g) ==
  /\ "bytes" \in DOMAIN g => g.bytes \in Seq(Nat) /\ InPlace(g.address, g.bytes)
  /\ g.kind \in {"read", "short", "failed"} => g.address \in Nat /\ g.size \in Nat
  /\ g.kind = "read" => Len(g.bytes) = g.size /\ HasAll(R, g.address, g.size)
  /\ g.kind = "short" => /\ Len(g.bytes) \in 1 .. g.size - 1
                         /\ HasAll(R, g.address, Len(g.bytes))
                         /\ ~Has(R, g.address + Len(g.bytes))
  /\ g.kind = "failed" => ~Has(R, g.address)
  /\ g.kind = "cut" => Len(g.bytes) < g.size
  /\ g.kind = "region" =>
       /\ g.covers = (g.region.base .. g.region.base + g.region.size - 1) \cap (0 .. Top - 1)
       /\ g.committed = "yes" <=> "commit" \in g.region.state
       /\ g.committed = "no" => {"reserve", "free"} \cap g.region.state # {}

\* The room of the buffer of a read of n bytes.
Room(n) == IF n <= READ_CHUNK_BYTES THEN n ELSE READ_CHUNK_BYTES

\* A read under way holds the target's first bytes.
Reading(R, j) ==
  /\ j.pc = "reading" /\ DOMAIN j = {"pc", "address", "size", "bytes", "buffer"}
  /\ j.address \in 0 .. Top - 1
  /\ j.size \in Nat
  /\ j.bytes \in Seq(Nat) /\ Len(j.bytes) <= j.size
  /\ InPlace(j.address, j.bytes)
  /\ HasAll(R, j.address, Len(j.bytes))
  /\ j.buffer \in [1 .. Room(j.size) -> Int]

MemoryInv ==
  /\ tardy = FALSE
  /\ \/ job = NoJob /\ Sound(readable, got)
     \/ Reading(readable, job) /\ got = Nothing

\* The smaller of two numbers.
LEMMA MinOfTwo ==
  ASSUME NEW a \in Int, NEW b \in Int
  PROVE  Min({a, b}) = IF a <= b THEN a ELSE b
<1> DEFINE m == IF a <= b THEN a ELSE b
<1>1. m \in {a, b} /\ \A y \in {a, b} : m <= y
  OBVIOUS
<1>2. \A x \in {a, b} : (\A y \in {a, b} : x <= y) => x = m
  OBVIOUS
<1> HIDE DEF m
<1>3. (CHOOSE x \in {a, b} : \A y \in {a, b} : x <= y) = m
  BY <1>1, <1>2, Zenon
<1> QED BY <1>3, Zenon DEF Min, m

\* What a transfer brings: everything up to the first byte that is missing.
LEMMA PrefixHas ==
  ASSUME NEW addr \in Nat, NEW len \in Nat
  PROVE  /\ Prefix(addr, len) \in 0 .. len
         /\ HasAll(readable, addr, Prefix(addr, len))
         /\ Prefix(addr, len) < len => ~Has(readable, addr + Prefix(addr, len))
<1> DEFINE P == {n \in 0 .. len : \A i \in 0 .. n - 1 : addr + i < Top /\ addr + i \in readable}
           T == {len - n : n \in P}
<1>1. 0 \in P
  OBVIOUS
<1>2. T \subseteq Nat /\ len - 0 \in T
  BY <1>1
<1>3. PICK x \in T : \A y \in T : x <= y
  BY <1>2, FirstOf, Zenon
<1>4. PICK m \in P : x = len - m
  BY <1>3, Zenon
<1>5. \A n \in P : m >= n
  <2> SUFFICES ASSUME NEW n \in P PROVE m >= n
    BY Zenon
  <2>1. len - m <= len - n
    BY <1>3, <1>4, Zenon
  <2> QED BY <2>1
<1>6. Prefix(addr, len) = Max(P)
  BY Zenon DEF Prefix
<1> HIDE DEF T
<1>7. Max(P) \in P /\ \A n \in P : Max(P) >= n
  <2> HIDE DEF P
  <2>1. \E y \in P : \A n \in P : y >= n
    BY <1>5, Zenon
  <2> QED BY <2>1, Zenon DEF Max
<1> DEFINE p == Max(P)
<1>8. p \in 0 .. len /\ \A i \in 0 .. p - 1 : addr + i < Top /\ addr + i \in readable
  <2> HIDE DEF p
  <2>1. p \in P
    BY <1>7, Zenon DEF p
  <2> QED BY <2>1, Zenon
<1>9. p < len => ~Has(readable, addr + p)
  <2> HIDE DEF p
  <2> SUFFICES ASSUME p < len, Has(readable, addr + p) PROVE FALSE
    BY Zenon
  <2>1. \A i \in 0 .. (p + 1) - 1 : addr + i < Top /\ addr + i \in readable
    BY <1>8 DEF Has
  <2>2. p + 1 \in P
    BY <1>8, <2>1
  <2>3. p >= p + 1
    BY <1>7, <2>2, Zenon DEF p
  <2> QED BY <1>8, <2>3
<1> HIDE DEF P
<1> QED BY <1>6, <1>8, <1>9, Zenon DEF HasAll, Has

\* It brings exactly that much.
LEMMA PrefixIs ==
  ASSUME NEW addr \in Nat, NEW len \in Nat, NEW n \in 0 .. len,
         HasAll(readable, addr, n), n < len => ~Has(readable, addr + n)
  PROVE  Prefix(addr, len) = n
<1> DEFINE p == Prefix(addr, len)
<1>1. /\ p \in 0 .. len /\ HasAll(readable, addr, p)
      /\ p < len => ~Has(readable, addr + p)
  BY PrefixHas, Zenon
<1> HIDE DEF p
<1>2. ~(p < n)
  <2> SUFFICES ASSUME p < n PROVE FALSE
    BY Zenon
  <2>1. p \in 0 .. n - 1 /\ p < len
    BY <1>1
  <2>2. Has(readable, addr + p)
    BY <2>1, Zenon DEF HasAll
  <2> QED BY <1>1, <2>1, <2>2, Zenon
<1>3. ~(n < p)
  <2> SUFFICES ASSUME n < p PROVE FALSE
    BY Zenon
  <2>1. n \in 0 .. p - 1 /\ n < len
    BY <1>1
  <2>2. Has(readable, addr + n)
    BY <1>1, <2>1, Zenon DEF HasAll
  <2> QED BY <2>1, <2>2, Zenon
<1>4. p = n
  BY <1>1, <1>2, <1>3
<1> QED BY <1>4, Zenon DEF p

\* An answer in bytes.
LEMMA AnswerSound ==
  ASSUME NEW R, NEW kind \in {"read", "short", "failed", "too_large", "oom"},
         NEW a \in Nat, NEW n \in Nat, NEW b \in Seq(Nat), InPlace(a, b),
         kind = "read" => Len(b) = n /\ HasAll(R, a, n),
         kind = "short" => Len(b) \in 1 .. n - 1 /\ HasAll(R, a, Len(b)) /\ ~Has(R, a + Len(b)),
         kind = "failed" => ~Has(R, a)
  PROVE  Sound(R, MemoryAnswer(kind, a, n, b))
<1> DEFINE g == MemoryAnswer(kind, a, n, b)
<1>1. g.kind = kind /\ g.address = a /\ g.size = n /\ g.bytes = b
  BY Zenon DEF MemoryAnswer
<1> HIDE DEF g
<1>2. Sound(R, g)
  BY <1>1, Zenon DEF Sound
<1> QED BY <1>2, Zenon DEF g

\* The bytes of a transfer.
LEMMA BytesPlaced ==
  ASSUME NEW a \in Nat, NEW n \in Nat
  PROVE  Bytes(a, n) \in Seq(Nat) /\ Len(Bytes(a, n)) = n /\ InPlace(a, Bytes(a, n))
<1>1. \A i \in 1 .. n : a + i - 1 \in Nat
  OBVIOUS
<1>2. Bytes(a, n) \in [1 .. n -> Nat]
  BY <1>1, Zenon DEF Bytes
<1>3. Bytes(a, n) \in Seq(Nat) /\ Len(Bytes(a, n)) = n
  BY <1>2
<1> QED BY <1>3, Zenon DEF InPlace, Bytes

\* No bytes at all are in place.
LEMMA EmptyPlaced == \A a : <<>> \in Seq(Nat) /\ InPlace(a, <<>>)
BY DEF InPlace

\* A target that has the first d bytes and the n after them has them all.
LEMMA HasMore ==
  ASSUME NEW R, NEW a \in Nat, NEW d \in Nat, NEW n \in Nat,
         HasAll(R, a, d), HasAll(R, a + d, n)
  PROVE  HasAll(R, a, d + n)
<1> SUFFICES ASSUME NEW i \in 0 .. d + n - 1 PROVE Has(R, a + i)
  BY DEF HasAll
<1>1. CASE i < d
  <2>1. i \in 0 .. d - 1
    BY <1>1
  <2> QED BY <2>1, Zenon DEF HasAll
<1>2. CASE ~(i < d)
  <2>1. i - d \in 0 .. n - 1 /\ (a + d) + (i - d) = a + i
    BY <1>2
  <2>2. Has(R, (a + d) + (i - d))
    BY <2>1, Zenon DEF HasAll
  <2> QED BY <2>1, <2>2, Zenon
<1> QED BY <1>1, <1>2, Zenon

\* What a transfer of n bytes leaves in the buffer, and what is taken of it.
LEMMA Filled ==
  ASSUME NEW addr \in Nat, NEW room \in Nat, NEW n \in 0 .. room, NEW B \in [1 .. room -> Int],
         NEW F, F = [i \in DOMAIN B |-> IF i <= n THEN addr + i - 1 ELSE B[i]]
  PROVE  /\ F \in [1 .. room -> Int]
         /\ SubSeq(F, 1, n) \in Seq(Nat)
         /\ Len(SubSeq(F, 1, n)) = n
         /\ \A i \in 1 .. n : SubSeq(F, 1, n)[i] = addr + i - 1
<1>1. F = [i \in 1 .. room |-> IF i <= n THEN addr + i - 1 ELSE B[i]]
  BY Zenon
<1>2. F \in [1 .. room -> Int]
  BY <1>1
<1>3. \A i \in 1 .. n : F[i] = addr + i - 1
  BY <1>1
<1>4. F \in Seq(Int) /\ Len(F) = room
  BY <1>2
<1> DEFINE t == SubSeq(F, 1, n)
<1>5. t = [i \in 1 .. n |-> F[i]]
  BY <1>4
<1> HIDE DEF t
<1>6. \A i \in 1 .. n : addr + i - 1 \in Nat
  OBVIOUS
<1>7. t \in [1 .. n -> Nat] /\ \A i \in 1 .. n : t[i] = addr + i - 1
  BY <1>3, <1>5, <1>6, Zenon
<1>8. t \in Seq(Nat) /\ Len(t) = n
  BY <1>7
<1> QED BY <1>2, <1>7, <1>8, Zenon DEF t

\* Two sequences of bytes, one after the other.
LEMMA ConcatOf ==
  ASSUME NEW s \in Seq(Nat), NEW t \in Seq(Nat)
  PROVE  /\ s \o t \in Seq(Nat) /\ Len(s \o t) = Len(s) + Len(t)
         /\ \A i \in 1 .. Len(s) + Len(t) : (s \o t)[i] = IF i <= Len(s) THEN s[i] ELSE t[i - Len(s)]
<1>1. s \o t \in Seq(Nat)
  OBVIOUS
<1>2. Len(s \o t) = Len(s) + Len(t)
  OBVIOUS
<1>3. ASSUME NEW i \in 1 .. Len(s) + Len(t)
      PROVE  (s \o t)[i] = IF i <= Len(s) THEN s[i] ELSE t[i - Len(s)]
  BY SMTT(30)
<1> QED BY <1>1, <1>2, <1>3, Zenon

\* Bytes in place followed by those at the next address are in place.
LEMMA Followed ==
  ASSUME NEW a \in Nat, NEW d \in Nat, NEW n \in Nat,
         NEW old \in Seq(Nat), Len(old) = d, InPlace(a, old),
         NEW t \in Seq(Nat), Len(t) = n, \A i \in 1 .. n : t[i] = a + d + i - 1
  PROVE  old \o t \in Seq(Nat) /\ Len(old \o t) = d + n /\ InPlace(a, old \o t)
<1> DEFINE b == old \o t
<1>1. /\ b \in Seq(Nat) /\ Len(b) = d + n
      /\ \A i \in 1 .. d + n : b[i] = IF i <= d THEN old[i] ELSE t[i - d]
  BY ConcatOf, Zenon
<1> HIDE DEF b
<1>2. ASSUME NEW i \in 1 .. d + n PROVE b[i] = a + i - 1
  <2>1. CASE i <= d
    <3>1. i \in 1 .. d
      BY <2>1
    <3>2. old[i] = a + i - 1
      BY <3>1, Zenon DEF InPlace
    <3> QED BY <1>1, <2>1, <3>2, Zenon
  <2>2. CASE ~(i <= d)
    <3>1. i - d \in 1 .. n /\ a + d + (i - d) - 1 = a + i - 1
      BY <2>2
    <3>2. t[i - d] = a + i - 1
      BY <3>1, Zenon
    <3> QED BY <1>1, <2>2, <3>2, Zenon
  <2> QED BY <2>1, <2>2, Zenon
<1>4. InPlace(a, b)
  BY <1>1, <1>2, Zenon DEF InPlace
<1> QED BY <1>1, <1>4, Zenon DEF b

\* Before anything is read.
LEMMA MemoryInitial == MemoryInit => MemoryInv
BY DEF MemoryInit, MemoryInv, Sound, Nothing

\* Every step of a read, in one transfer or in chunks, and of a question about a region.
LEMMA MemoryStep ==
  ASSUME MemoryInv, MemoryNext
  PROVE  MemoryInv'
<1>0. /\ Top \in Nat /\ READ_CHUNK_BYTES \in Nat \ {0}
      /\ \A a \in ReadAddresses : a \in Nat /\ a < Top
      /\ \A n \in ReadSizes : n \in Nat
  BY MemoryAssumption
<1>1. job.pc = "idle" => job = NoJob
  BY Zenon DEF MemoryInv, Reading
<1>2. job.pc = "reading" => Reading(readable, job) /\ got = Nothing
  BY DEF MemoryInv, NoJob
<1>3. tardy = FALSE
  BY Zenon DEF MemoryInv
<1>4. ASSUME job' = NoJob, readable' = readable, tardy' = FALSE, Sound(readable, got')
      PROVE  MemoryInv'
  BY <1>4, Zenon DEF MemoryInv
<1>5. ASSUME NEW a \in ReadAddresses, NEW n \in ReadSizes, read_memory(a, n) PROVE MemoryInv'
  <2> DEFINE p == Prefix(a, n)
  <2>1. a \in Nat /\ n \in Nat
    BY <1>0, Zenon
  <2>2. /\ job = NoJob /\ job' = job /\ readable' = readable /\ tardy' = tardy
        /\ got' = IF p = 0 /\ n > 0 THEN MemoryAnswer("failed", a, n, <<>>)
                  ELSE IF p # n THEN MemoryAnswer("short", a, n, Bytes(a, p))
                  ELSE MemoryAnswer("read", a, n, Bytes(a, p))
    BY <1>1, <1>5, Zenon DEF read_memory
  <2>3. p \in 0 .. n /\ HasAll(readable, a, p) /\ (p < n => ~Has(readable, a + p))
    BY <2>1, PrefixHas, Zenon
  <2> HIDE DEF p
  <2>4. Bytes(a, p) \in Seq(Nat) /\ Len(Bytes(a, p)) = p /\ InPlace(a, Bytes(a, p))
    BY <2>1, <2>3, BytesPlaced
  <2>5. CASE p = 0 /\ n > 0
    <3>1. ~Has(readable, a)
      BY <2>1, <2>3, <2>5
    <3>2. Sound(readable, MemoryAnswer("failed", a, n, <<>>))
      BY <2>1, <3>1, AnswerSound, EmptyPlaced, Zenon
    <3> QED BY <1>3, <1>4, <2>2, <2>5, <3>2, Zenon
  <2>6. CASE ~(p = 0 /\ n > 0) /\ p # n
    <3>1. p \in 1 .. n - 1 /\ p < n
      BY <2>1, <2>3, <2>6
    <3>2. Sound(readable, MemoryAnswer("short", a, n, Bytes(a, p)))
      BY <2>1, <2>3, <2>4, <3>1, AnswerSound, Zenon
    <3> QED BY <1>3, <1>4, <2>2, <2>6, <3>2, Zenon
  <2>7. CASE ~(p = 0 /\ n > 0) /\ p = n
    <3>1. Sound(readable, MemoryAnswer("read", a, n, Bytes(a, p)))
      BY <2>1, <2>3, <2>4, <2>7, AnswerSound, Zenon
    <3> QED BY <1>3, <1>4, <2>2, <2>7, <3>1, Zenon
  <2> QED BY <2>5, <2>6, <2>7, Zenon
<1>6. ASSUME NEW a \in ReadAddresses, NEW n \in ReadSizes, BufferTooLarge(a, n) PROVE MemoryInv'
  <2>1. /\ job' = NoJob /\ readable' = readable /\ tardy' = tardy
        /\ got' = MemoryAnswer("too_large", a, n, <<>>)
    BY <1>1, <1>6, Zenon DEF BufferTooLarge
  <2>2. Sound(readable, MemoryAnswer("too_large", a, n, <<>>))
    BY <1>0, AnswerSound, EmptyPlaced, Zenon
  <2> QED BY <1>3, <1>4, <2>1, <2>2, Zenon
<1>7. ASSUME NEW a \in ReadAddresses, NEW n \in ReadSizes, read_memory_bounded(a, n) PROVE MemoryInv'
  <2>1. Min({READ_CHUNK_BYTES, n}) = Room(n)
    BY <1>0, MinOfTwo DEF Room
  <2>2. /\ job' = [pc |-> "reading", address |-> a, size |-> n, bytes |-> <<>>,
                   buffer |-> [i \in 1 .. Room(n) |-> -1]]
        /\ readable' = readable /\ tardy' = FALSE /\ got' = Nothing
    BY <1>7, <2>1, Zenon DEF read_memory_bounded
  <2>3. /\ job'.address = a /\ job'.size = n /\ job'.bytes = <<>>
        /\ job'.buffer = [i \in 1 .. Room(n) |-> -1]
        /\ job'.pc = "reading" /\ DOMAIN job' = {"pc", "address", "size", "bytes", "buffer"}
    BY <2>2, Zenon
  <2>4. job'.buffer \in [1 .. Room(n) -> Int]
    BY <2>3
  <2>6. a \in 0 .. Top - 1 /\ n \in Nat /\ Len(<<>>) = 0 /\ 0 <= n /\ 0 .. 0 - 1 = {}
    BY <1>0
  <2>5. Reading(readable, job')
    BY <2>3, <2>4, <2>6, EmptyPlaced, ZenonT(30) DEF Reading, HasAll
  <2> QED BY <2>2, <2>5, Zenon DEF MemoryInv
<1>8. ASSUME NEW what, Raise(what) PROVE MemoryInv'
  BY <1>8, Zenon DEF Raise, MemoryInv
<1>9. ASSUME NEW r \in Regions, virtual_region(r) PROVE MemoryInv'
  <2>1. /\ job' = NoJob /\ readable' = readable /\ tardy' = tardy
        /\ got' = [kind |-> "region", region |-> r, committed |-> committed(from_mem_state(r.state)),
                   covers |-> {a \in 0 .. Top - 1 : contains(r, a)}]
    BY <1>1, <1>9, Zenon DEF virtual_region
  <2>2. {a \in 0 .. Top - 1 : contains(r, a)} = (r.base .. r.base + r.size - 1) \cap (0 .. Top - 1)
    <3>1. r.base \in Nat /\ r.size \in Nat
      BY MemoryAssumption, Zenon
    <3> QED BY <1>0, <3>1 DEF contains
  <2>3. /\ committed(from_mem_state(r.state)) = "yes" <=> "commit" \in r.state
        /\ committed(from_mem_state(r.state)) = "no" => {"reserve", "free"} \cap r.state # {}
    BY Zenon DEF committed, from_mem_state
  <2>4. /\ got'.kind = "region" /\ got'.region = r /\ got'.committed = committed(from_mem_state(r.state))
        /\ got'.covers = {a \in 0 .. Top - 1 : contains(r, a)} /\ "bytes" \notin DOMAIN got'
    BY <2>1, Zenon
  <2>5. Sound(readable, got')
    BY <2>2, <2>3, <2>4, Zenon DEF Sound
  <2> QED BY <1>3, <1>4, <2>1, <2>5, Zenon
<1>10. ASSUME job.pc = "reading"
       PROVE  /\ job.address \in Nat /\ job.address < Top /\ job.size \in Nat
              /\ job.bytes \in Seq(Nat) /\ Done \in Nat /\ Done <= job.size
              /\ InPlace(job.address, job.bytes)
              /\ HasAll(readable, job.address, Done)
              /\ job.buffer \in [1 .. Room(job.size) -> Int]
              /\ SubSeq(job.bytes, 1, Done) = job.bytes
              /\ tardy = FALSE
  BY <1>0, <1>2, <1>3, <1>10 DEF Reading, Done
<1>11. CASE Halt
  <2>1. /\ job.pc = "reading" /\ Done < job.size /\ job' = NoJob
        /\ UNCHANGED <<readable, tardy>>
        /\ \E why : got' = [kind |-> "cut", address |-> job.address, size |-> job.size,
                            bytes |-> job.bytes, why |-> why]
    BY <1>11, Zenon DEF Halt, Finished
  <2>2. /\ got'.kind = "cut" /\ got'.address = job.address /\ got'.size = job.size
        /\ got'.bytes = job.bytes
    BY <2>1
  <2>3. Sound(readable, got')
    BY <1>10, <2>1, <2>2, Zenon DEF Sound, Done
  <2> QED BY <1>4, <1>10, <2>1, <2>3, Zenon
<1>12. CASE Whole
  <2>1. /\ job.pc = "reading" /\ Done >= job.size /\ job' = NoJob
        /\ UNCHANGED <<readable, tardy>>
        /\ got' = MemoryAnswer("read", job.address, job.size, job.bytes)
    BY <1>12, Zenon DEF Whole, Finished
  <2>2. Done = job.size
    BY <1>10, <2>1
  <2>3. Sound(readable, MemoryAnswer("read", job.address, job.size, job.bytes))
    BY <1>10, <2>1, <2>2, AnswerSound, Zenon DEF Done
  <2> QED BY <1>4, <1>10, <2>1, <2>3, Zenon
<1>13. ASSUME job.pc = "reading", Done < job.size, Done # 0, ~Has(readable, job.address + Done)
       PROVE  Sound(readable, Short(Done))
  <2>1. Done \in 1 .. job.size - 1
    BY <1>10, <1>13
  <2> QED BY <1>10, <1>13, <2>1, AnswerSound, Zenon DEF Short, Done
<1>14. CASE Wraps
  <2>1. /\ job.pc = "reading" /\ Done < job.size /\ job.address + Done >= Top
        /\ job' = NoJob /\ UNCHANGED <<readable, tardy>> /\ got' = Short(Done)
    BY <1>14, Zenon DEF Wraps, Finished
  <2>2. Done # 0 /\ ~Has(readable, job.address + Done)
    BY <1>0, <1>10, <2>1, SMTT(30) DEF Has
  <2>3. Sound(readable, Short(Done))
    BY <1>13, <2>1, <2>2, Zenon
  <2> QED BY <1>4, <1>10, <2>1, <2>3, Zenon
<1>15. ASSUME job.pc = "reading", Done < job.size
       PROVE  /\ read_chunk_len \in 1 .. job.size - Done
              /\ read_chunk_len <= Room(job.size)
              /\ job.address + Done \in Nat
  <2> DEFINE k == READ_CHUNK_BYTES - ((job.address + Done) % READ_CHUNK_BYTES)
  <2>1. job.address + Done \in Nat
    BY <1>10, <1>15
  <2>2. k \in 1 .. READ_CHUNK_BYTES
    BY <1>0, <2>1
  <2>4. read_chunk_len = Min({job.size - Done, k})
    BY Zenon DEF read_chunk_len
  <2> HIDE DEF k
  <2>5. job.size - Done \in Nat /\ 0 < job.size - Done /\ job.size - Done <= job.size
    BY <1>10, <1>15
  <2>3. read_chunk_len = IF job.size - Done <= k THEN job.size - Done ELSE k
    BY <2>2, <2>4, <2>5, MinOfTwo
  <2> QED BY <1>0, <1>10, <1>15, <2>1, <2>2, <2>3, <2>5, SMTT(20) DEF Room
<1>16. CASE TransferFails
  <2>1. /\ job.pc = "reading" /\ Done < job.size
        /\ Prefix(job.address + Done, read_chunk_len) = 0
        /\ job' = NoJob /\ UNCHANGED <<readable, tardy>>
        /\ got' = IF Done > 0 THEN Short(Done) ELSE MemoryAnswer("failed", job.address, job.size, <<>>)
    BY <1>16, Zenon DEF TransferFails, Finished
  <2>2. read_chunk_len \in Nat /\ 0 < read_chunk_len /\ job.address + Done \in Nat
    BY <1>15, <2>1
  <2>3. ~Has(readable, job.address + Done + 0)
    BY <2>1, <2>2, PrefixHas, Zenon
  <2>4. ~Has(readable, job.address + Done)
    BY <2>2, <2>3
  <2>5. CASE Done > 0
    <3>1. Done # 0
      BY <2>5
    <3>2. Sound(readable, Short(Done))
      BY <1>13, <2>1, <2>4, <3>1, Zenon
    <3> QED BY <1>4, <1>10, <2>1, <2>5, <3>2, Zenon
  <2>6. CASE ~(Done > 0)
    <3>1. ~Has(readable, job.address)
      BY <1>10, <2>1, <2>4, <2>6
    <3>2. Sound(readable, MemoryAnswer("failed", job.address, job.size, <<>>))
      BY <1>10, <2>1, <3>1, AnswerSound, EmptyPlaced, Zenon
    <3> QED BY <1>4, <1>10, <2>1, <2>6, <3>2, ZenonT(30)
  <2> QED BY <2>5, <2>6, Zenon
<1>17. CASE OutOfMemory
  <2>1. /\ job.pc = "reading" /\ job' = NoJob /\ UNCHANGED <<readable, tardy>>
        /\ got' = MemoryAnswer("oom", job.address, job.size, job.bytes)
    BY <1>17, Zenon DEF OutOfMemory, Finished
  <2>2. Sound(readable, MemoryAnswer("oom", job.address, job.size, job.bytes))
    BY <1>10, <2>1, AnswerSound, Zenon
  <2> QED BY <1>4, <1>10, <2>1, <2>2, Zenon
<1>18. CASE Transfer
  <2> DEFINE addr == job.address + Done
             len == read_chunk_len
             n == Prefix(addr, len)
             buffer == [i \in DOMAIN job.buffer |-> IF i <= n THEN addr + i - 1 ELSE job.buffer[i]]
             taken == SubSeq(buffer, 1, clamped(Claimed(n, len), len))
             bytes == job.bytes \o taken
  <2>1. /\ job.pc = "reading" /\ Done < job.size /\ pressing = {}
        /\ n > 0 /\ tardy' = (pressing # {}) /\ UNCHANGED readable
        /\ IF n < len
           THEN job' = NoJob /\ got' = MemoryAnswer("short", job.address, job.size, bytes)
           ELSE job' = [job EXCEPT !.bytes = bytes, !.buffer = buffer] /\ UNCHANGED got
    BY <1>18, Zenon DEF Transfer, halted
  <2>2. len \in 1 .. job.size - Done /\ len <= Room(job.size) /\ addr \in Nat
    BY <1>15, <2>1, Zenon
  <2>a. PICK a \in Nat, d \in Nat, z \in Nat, room \in Nat :
          /\ a = job.address /\ d = Done /\ z = job.size /\ room = Room(job.size)
          /\ d < z /\ addr = a + d
    BY <1>0, <1>10, <2>1, Zenon DEF Room
  <2>b. len \in Nat /\ 1 <= len /\ len <= z - d /\ len <= room
    BY <2>2, <2>a
  <2>3. n \in 0 .. len /\ HasAll(readable, addr, n) /\ (n < len => ~Has(readable, addr + n))
    BY <2>2, <2>b, PrefixHas, Zenon
  <2>c. n \in Nat /\ 1 <= n /\ n <= len /\ n \in 0 .. room
    BY <2>1, <2>3, <2>b
  <2>4. job.buffer \in [1 .. room -> Int] /\ Len(job.buffer) = room
    <3>1. job.buffer \in [1 .. room -> Int]
      BY <1>10, <2>1, <2>a, Zenon
    <3> QED BY <3>1
  <2> HIDE DEF n, len, addr
  <2>6. clamped(Claimed(n, len), len) = n
    <3>2. Claimed(n, len) \in Int /\ (Claimed(n, len) = n \/ (n = len /\ Claimed(n, len) >= len))
      <4>1. Min({len + 1, Len(job.buffer)}) = IF len + 1 <= room THEN len + 1 ELSE room
        BY <2>b, <2>4, MinOfTwo
      <4> QED BY <2>b, <2>c, <4>1 DEF Claimed
    <3>3. Min({Claimed(n, len), len}) = IF Claimed(n, len) <= len THEN Claimed(n, len) ELSE len
      BY <2>b, <3>2, MinOfTwo
    <3> QED BY <2>b, <2>c, <3>2, <3>3 DEF clamped
  <2>7. taken = SubSeq(buffer, 1, n)
    BY <2>6, Zenon
  <2>8. /\ buffer \in [1 .. room -> Int]
        /\ taken \in Seq(Nat) /\ Len(taken) = n /\ \A i \in 1 .. n : taken[i] = addr + i - 1
    <3> HIDE DEF taken
    <3>1. addr \in Nat
      BY <2>2, Zenon DEF addr
    <3> QED BY <2>4, <2>7, <2>c, <3>1, Filled
  <2> HIDE DEF buffer, taken
  <2>9. bytes \in Seq(Nat) /\ Len(bytes) = d + n /\ InPlace(a, bytes)
    <3>1. /\ job.bytes \in Seq(Nat) /\ Len(job.bytes) = d /\ InPlace(a, job.bytes)
          /\ taken \in Seq(Nat) /\ Len(taken) = n /\ n \in Nat
          /\ \A i \in 1 .. n : taken[i] = a + d + i - 1
      BY <1>10, <2>1, <2>8, <2>a, <2>c, Zenon DEF Done
    <3>2. PICK old \in Seq(Nat), t \in Seq(Nat) : old = job.bytes /\ t = taken
      BY <3>1, Zenon
    <3>3. /\ Len(old) = d /\ InPlace(a, old)
          /\ Len(t) = n /\ \A i \in 1 .. n : t[i] = a + d + i - 1
      BY <3>1, <3>2, Zenon
    <3>4. old \o t \in Seq(Nat) /\ Len(old \o t) = d + n /\ InPlace(a, old \o t)
      BY <2>c, <3>3, Followed
    <3> QED BY <3>2, <3>4, Zenon
  <2> HIDE DEF bytes
  <2>11. HasAll(readable, a, d + n)
    <3>1. HasAll(readable, a, d) /\ HasAll(readable, a + d, n)
      BY <1>10, <2>1, <2>3, <2>a, Zenon
    <3> QED BY <2>c, <3>1, HasMore, Zenon
  <2>12. tardy' = FALSE
    BY <2>1, Zenon
  <2>13. CASE n < len
    <3>1. d + n \in 1 .. z - 1 /\ a + (d + n) = (a + d) + n
      BY <2>13, <2>b, <2>c
    <3>2. ~Has(readable, a + (d + n))
      BY <2>3, <2>13, <2>a, <3>1, Zenon
    <3>3. Sound(readable, MemoryAnswer("short", a, z, bytes))
      BY <2>9, <2>11, <3>1, <3>2, AnswerSound, Zenon
    <3> QED BY <1>4, <2>1, <2>12, <2>13, <2>a, <3>3, Zenon
  <2>14. CASE ~(n < len)
    <3>1. job' = [job EXCEPT !.bytes = bytes, !.buffer = buffer] /\ got' = Nothing
      BY <1>2, <2>1, <2>14, Zenon
    <3>2. job.pc = "reading" /\ DOMAIN job = {"pc", "address", "size", "bytes", "buffer"}
      BY <1>2, <2>1, Zenon DEF Reading
    <3>3. /\ job'.pc = "reading" /\ DOMAIN job' = {"pc", "address", "size", "bytes", "buffer"}
          /\ job'.address = job.address /\ job'.size = job.size
          /\ job'.bytes = bytes /\ job'.buffer = buffer
      BY <3>1, <3>2, Zenon
    <3>4. d + n <= z
      BY <2>b, <2>c
    <3>5. job'.address = a /\ job'.size = z
      BY <2>a, <3>3, Zenon
    <3>7. a \in 0 .. Top - 1
      BY <1>0, <1>10, <2>1, <2>a
    <3>6. Reading(readable, job')
      BY <2>8, <2>9, <2>11, <2>a, <3>3, <3>4, <3>5, <3>7, Zenon DEF Reading
    <3> QED BY <2>1, <2>12, <3>1, <3>6, Zenon DEF MemoryInv
  <2> QED BY <2>13, <2>14, Zenon
<1> QED BY <1>5, <1>6, <1>7, <1>8, <1>9, <1>11, <1>12, <1>14, <1>16, <1>17, <1>18, ZenonT(30) DEF MemoryNext

\* What the answers hold is enough for them to be exact.
LEMMA MemorySound == MemoryInv => ReadsExact
<1> SUFFICES ASSUME MemoryInv PROVE ReadsExact
  BY Zenon
<1>1. Sound(readable, got)
  BY DEF MemoryInv, Sound, Nothing
<1>2. ChunkedAgrees
  <2>1. ASSUME got.kind = "read" PROVE Prefix(got.address, got.size) = got.size
    BY <1>1, <2>1, PrefixIs DEF Sound
  <2>2. ASSUME got.kind = "short"
        PROVE  Len(got.bytes) = Prefix(got.address, got.size) /\ Len(got.bytes) \in 1 .. got.size - 1
    <3>1. Len(got.bytes) \in 0 .. got.size /\ got.address \in Nat /\ got.size \in Nat
      BY <1>1, <2>2 DEF Sound
    <3> QED BY <1>1, <2>2, <3>1, PrefixIs, Zenon DEF Sound
  <2>3. ASSUME got.kind = "failed" PROVE Prefix(got.address, got.size) = 0
    <3>1. got.address \in Nat /\ got.size \in Nat /\ ~Has(readable, got.address + 0) /\ HasAll(readable, got.address, 0)
      BY <1>1, <2>3 DEF Sound, HasAll
    <3> QED BY <3>1, PrefixIs
  <2> QED BY <2>1, <2>2, <2>3, Zenon DEF ChunkedAgrees
<1>3. BytesAreTheTarget
  <2> SUFFICES ASSUME "bytes" \in DOMAIN got, NEW i \in DOMAIN got.bytes
               PROVE  got.bytes[i] = got.address + i - 1
    BY Zenon DEF BytesAreTheTarget
  <2>1. got.bytes \in Seq(Nat) /\ InPlace(got.address, got.bytes)
    BY <1>1, Zenon DEF Sound
  <2>2. DOMAIN got.bytes = 1 .. Len(got.bytes)
    BY <2>1
  <2> QED BY <2>1, <2>2, Zenon DEF InPlace
<1>4. CutIsShort /\ NoneBegunLate /\ RegionTold
  BY <1>1, Zenon DEF MemoryInv, Sound, CutIsShort, NoneBegunLate, RegionTold
<1> QED BY <1>2, <1>3, <1>4, Zenon DEF ReadsExact

(* ReadsExact holds for every address space, chunk size and buffer limit: a chunked read answers    *)
(* what one transfer of everything would have, its bytes are those of their own addresses even      *)
(* when the reader claims more than it was handed, a read said to be cut misses bytes, no transfer  *)
(* begins after an interrupt or the deadline, and a region's extent and state are the engine's.     *)
THEOREM ReadsExactHolds == MemorySpec => []ReadsExact
<1>1. MemoryInv /\ UNCHANGED memoryVars => MemoryInv'
  BY Zenon DEF memoryVars, MemoryInv
<1> QED BY <1>1, MemoryInitial, MemoryStep, MemorySound, PTL DEF MemorySpec

-----------------------------------------------------------------------------
(* Setting a breakpoint, for any specs, expressions and refusals. *)

BpFields == {"kind", "offset", "text", "command", "thread", "passes", "size", "access", "flags", "late"}

\* A breakpoint of the engine's: watched, resolved and not late, it is aligned.
BpOk(b) ==
  /\ DOMAIN b = BpFields
  /\ b.late \in BOOLEAN
  /\ b.size # 0 /\ b.offset # None /\ ~b.late => Aligned(b.offset, b.size)
HeldOk(h) == DOMAIN h \subseteq 0 .. MaxHeld /\ \A i \in DOMAIN h : BpOk(h[i])

\* What has landed of a spec.
Landed(b, spec) ==
  /\ b.command = spec.command
  /\ b.thread = spec.thread
  /\ spec.passes # 0 => b.passes = spec.passes
  /\ b.size = spec.size
  /\ spec.size # 0 => b.access = to_engine(spec.access)

\* The breakpoint being set: bare and disarmed until it is configured, and judged
\* for its alignment before that.
OwnOk(b, spec, at_pc) ==
  /\ b.kind = IF spec.size = 0 THEN "Code" ELSE "Data"
  /\ "deferred" \in b.flags => b.offset = None
  /\ at_pc = "locate" => b.flags = {}
  /\ at_pc \in {"locate", "align", "configure"} => b.size = 0
  /\ at_pc \in {"locate", "align", "configure", "arm"} => "enabled" \notin b.flags
  /\ at_pc \in {"configure", "arm", "read_back", "replace"} => ~misaligned(spec, b.offset)
  /\ at_pc \in {"arm", "read_back", "replace"} => Landed(b, spec)

SetPcs == {"locate", "align", "configure", "arm", "read_back", "replace"}

\* The engine holds what it held before the set, untouched, and the one being set.
Beside(h, before, id) ==
  /\ id \notin DOMAIN before
  /\ DOMAIN h = DOMAIN before \cup {id}
  /\ \A i \in DOMAIN before : h[i] = before[i]
SettingOk(h, s) ==
  /\ s.pc \in SetPcs \cup {"idle", "running"}
  /\ s.pc \in SetPcs \ {"replace"} => DOMAIN s = {"pc", "spec", "id", "before", "cut"}
  /\ s.pc \in SetPcs => Beside(h, s.before, s.id) /\ OwnOk(h[s.id], s.spec, s.pc)
  /\ s.pc = "replace" => s.info = breakpoint_info(s.id, h[s.id]) /\ s.resolved = h[s.id].offset

ReportOk ==
  /\ setting.pc # "idle" => reported.kind = "none"
  /\ FailedSetDestroysNothing
  /\ ReplacedIsGone
  /\ ReportIsHeld
  /\ ScopedIsGone

BreakpointInv == refusals \in Nat /\ HeldOk(held) /\ SettingOk(held, setting) /\ ReportOk

\* What removing breakpoints does.
LEMMA WithoutFacts ==
  ASSUME NEW all, NEW ids
  PROVE  /\ DOMAIN Without(all, ids) = DOMAIN all \ ids
         /\ \A i \in DOMAIN all \ ids : Without(all, ids)[i] = all[i]
  BY Zenon DEF Without, Restrict

\* Holding a sound breakpoint more leaves what is held sound.
LEMMA WithHeldOk ==
  ASSUME NEW all, NEW id \in 0 .. MaxHeld, NEW b, HeldOk(all), BpOk(b)
  PROVE  HeldOk(With(all, id, b))
  <1> DEFINE h == With(all, id, b)
  <1>1. /\ DOMAIN h = DOMAIN all \cup {id} /\ h[id] = b
        /\ \A i \in DOMAIN all : i # id => h[i] = all[i]
    BY Zenon DEF With
  <1> HIDE DEF h
  <1>2. DOMAIN h \subseteq 0 .. MaxHeld
    BY <1>1, Zenon DEF HeldOk
  <1>3. ASSUME NEW i \in DOMAIN h PROVE BpOk(h[i])
    <2>1. CASE i = id
      BY <1>1, <2>1, Zenon
    <2>2. CASE i # id
      BY <1>1, <2>2, Zenon DEF HeldOk
    <2> QED  BY <2>1, <2>2, Zenon
  <1> QED  BY <1>2, <1>3, Zenon DEF HeldOk, h

\* Removing breakpoints leaves what is held sound.
LEMMA WithoutHeldOk ==
  ASSUME NEW all, NEW ids, HeldOk(all)
  PROVE  HeldOk(Without(all, ids))
  <1> DEFINE h == Without(all, ids)
  <1>1. DOMAIN h = DOMAIN all \ ids /\ \A i \in DOMAIN all \ ids : h[i] = all[i]
    BY WithoutFacts, Zenon
  <1> HIDE DEF h
  <1> QED  BY <1>1, Zenon DEF HeldOk, h

\* What is held is of finitely many ids, so that the refusals counted are a number.
LEMMA HeldFinite ==
  ASSUME HeldOk(held), NEW S \in SUBSET DOMAIN held
  PROVE  Cardinality(S) \in Nat
  <1>1. IsFiniteSet(0 .. MaxHeld)
    BY FS_Interval, BreakpointAssumption, SMT
  <1>2. S \subseteq 0 .. MaxHeld
    BY Zenon DEF HeldOk
  <1> QED  BY <1>1, <1>2, FS_Subset, FS_CardinalityType, Zenon

\* A data access read back from the engine is the one it was given, for a variant
\* this build does not name as well.
LEMMA AccessRoundTrip ==
  ASSUME NEW access
  PROVE  to_engine(from_engine(to_engine(access))) = to_engine(access)
  <1> DEFINE bits == to_engine(access)
             names == {a \in DOMAIN Named : Named[a] = bits}
  <1>d. DOMAIN Named = {"Read", "Write", "ReadWrite", "Execute", "Io"}
    BY Zenon DEF Named
  <1>1. CASE access \in DOMAIN Named
    <2>1. access \in names
      BY <1>1, Zenon DEF to_engine
    <2>2. PICK c \in names : from_engine(bits) = c
      <3>1. from_engine(bits) = CHOOSE a \in names : TRUE
        BY <2>1, Zenon DEF from_engine
      <3> QED  BY <3>1, <2>1, Zenon
    <2>3. to_engine(c) = Named[c] /\ Named[c] = bits
      BY Zenon DEF to_engine
    <2> QED  BY <2>2, <2>3, Zenon
  <1>2. CASE access \notin DOMAIN Named
    <2>1. bits = {"r", "x"}
      BY <1>2, Zenon DEF to_engine
    <2>2. \A a \in DOMAIN Named : Named[a] # {"r", "x"}
      <3>1. /\ Named["Read"] = {"r"} /\ Named["Write"] = {"w"} /\ Named["ReadWrite"] = {"r", "w"}
            /\ Named["Execute"] = {"x"} /\ Named["Io"] = {"io"}
        BY Zenon DEF Named
      <3>2. /\ {"r"} # {"r", "x"} /\ {"w"} # {"r", "x"} /\ {"r", "w"} # {"r", "x"}
            /\ {"x"} # {"r", "x"} /\ {"io"} # {"r", "x"}
        OBVIOUS
      <3> QED  BY <3>1, <3>2, <1>d, Zenon
    <2>3. names = {}
      BY <2>1, <2>2, Zenon
    <2>4. from_engine(bits) = "Other"
      BY <2>3, Zenon DEF from_engine
    <2>5. "Other" \notin DOMAIN Named
      BY <1>d, Zenon
    <2> QED  BY <2>1, <2>4, <2>5, Zenon DEF to_engine
  <1> QED  BY <1>1, <1>2, Zenon

\* A call of the set that changes its own breakpoint only, and moves on, keeps the
\* rest as it was.
LEMMA OwnStep ==
  ASSUME BreakpointInv, setting.pc \in SetPcs \ {"replace"}, NEW b,
         DOMAIN held' = DOMAIN held, held'[setting.id] = b, BpOk(b),
         \A i \in DOMAIN held : i # setting.id => held'[i] = held[i],
         setting'.pc \in SetPcs \ {"locate", "replace"}, DOMAIN setting' = DOMAIN setting,
         setting'.spec = setting.spec, setting'.id = setting.id, setting'.before = setting.before,
         OwnOk(b, setting.spec, setting'.pc), UNCHANGED <<refusals, reported>>
  PROVE  BreakpointInv'
  <1>0. SettingOk(held, setting) /\ HeldOk(held) /\ ReportOk /\ refusals \in Nat
    BY Zenon DEF BreakpointInv
  <1>1. /\ DOMAIN setting = {"pc", "spec", "id", "before", "cut"}
        /\ Beside(held, setting.before, setting.id)
    BY <1>0, Zenon DEF SettingOk
  <1>3. Beside(held', setting.before, setting.id)
    BY <1>1, Zenon DEF Beside
  <1>5. HeldOk(held')
    <2>1. ASSUME NEW i \in DOMAIN held' PROVE BpOk(held'[i])
      <3>1. CASE i = setting.id
        BY <3>1, Zenon
      <3>2. CASE i # setting.id
        BY <1>0, <3>2, Zenon DEF HeldOk
      <3> QED  BY <3>1, <3>2, Zenon
    <2> QED  BY <1>0, <2>1, Zenon DEF HeldOk
  <1>6. setting'.pc # "replace" /\ setting'.pc \in SetPcs
    BY Zenon
  <1>7. SettingOk(held', setting')
    BY <1>1, <1>3, <1>6, Zenon DEF SettingOk
  <1>8. setting.pc # "idle" /\ reported'.kind = "none"
    <2>1. setting.pc # "idle"
      BY Zenon DEF SetPcs
    <2> QED  BY <2>1, <1>0, Zenon DEF ReportOk
  <1>9. ReportOk'
    <2>1. reported'.kind # "error" /\ reported'.kind # "set" /\ reported'.kind # "ran"
      BY <1>8, Zenon
    <2> QED  BY <1>8, <2>1, Zenon DEF ReportOk, FailedSetDestroysNothing, ReplacedIsGone, ReportIsHeld, ScopedIsGone
  <1> QED  BY <1>0, <1>5, <1>7, <1>9, Zenon DEF BreakpointInv

\* A set that fails drops its own breakpoint, or leaves it where the engine refuses,
\* and nothing else.
LEMMA FailStep ==
  ASSUME BreakpointInv, NEW all, NEW id, NEW before, NEW error, HeldOk(all), Beside(all, before, id), Drop(all, id),
         reported' = [kind |-> "error", error |-> error, before |-> before, cleaned |-> UNCHANGED refusals],
         setting' = Idle
  PROVE  BreakpointInv'
  <1>0. refusals \in Nat
    BY Zenon DEF BreakpointInv
  <1>1. /\ reported'.kind = "error" /\ reported'.before = before
        /\ reported'.cleaned = (refusals' = refusals)
    BY Zenon
  <1>2. setting'.pc = "idle"
    BY Zenon DEF Idle
  <1>3. SettingOk(held', setting')
    BY <1>2, Zenon DEF SettingOk, SetPcs
  <1>4. refusals' \in Nat
    BY <1>0, SMT DEF Drop, Refusing
  <1>5. HeldOk(held')
    BY WithoutHeldOk, Zenon DEF Drop
  <1>6. id \notin DOMAIN before /\ DOMAIN all = DOMAIN before \cup {id} /\ \A i \in DOMAIN before : all[i] = before[i]
    BY Zenon DEF Beside
  <1>7. ASSUME held' = Without(all, {id}) PROVE FailedSetDestroysNothing' /\ ScopedIsGone'
    <2>1. /\ DOMAIN held' = DOMAIN all \ {id}
          /\ \A i \in DOMAIN all \ {id} : held'[i] = all[i]
      BY <1>7, WithoutFacts, Zenon
    <2>2. DOMAIN held' = DOMAIN before /\ \A i \in DOMAIN before : held'[i] = before[i]
      BY <2>1, <1>6, Zenon
    <2>3. reported'.kind # "ran"
      BY <1>1, Zenon
    <2> QED  BY <2>2, <2>3, <1>1, Zenon DEF FailedSetDestroysNothing, ScopedIsGone
  <1>8. ASSUME held' = all /\ Refusing(1) PROVE FailedSetDestroysNothing' /\ ScopedIsGone'
    <2>1. refusals' # refusals
      BY <1>0, <1>8, SMT DEF Refusing
    <2>2. reported'.kind # "ran"
      BY <1>1, Zenon
    <2> QED  BY <2>1, <2>2, <1>1, <1>6, <1>8, Zenon DEF FailedSetDestroysNothing, ScopedIsGone
  <1>9. FailedSetDestroysNothing' /\ ScopedIsGone'
    BY <1>7, <1>8, Zenon DEF Drop
  <1>10. reported'.kind # "set"
    BY <1>1, Zenon
  <1>11. ReportOk'
    BY <1>2, <1>9, <1>10, Zenon DEF ReportOk, ReplacedIsGone, ReportIsHeld
  <1> QED  BY <1>3, <1>4, <1>5, <1>11, Zenon DEF BreakpointInv

\* A breakpoint located by an address is sound, and located no more.
LEMMA OffsetOwn ==
  ASSUME NEW b, NEW spec, NEW x, BpOk(b), OwnOk(b, spec, "locate")
  PROVE  BpOk([b EXCEPT !.offset = x]) /\ OwnOk([b EXCEPT !.offset = x], spec, "align")
  <1> DEFINE c == [b EXCEPT !.offset = x]
  <1>0. /\ DOMAIN b = BpFields /\ b.late \in BOOLEAN /\ b.flags = {} /\ b.size = 0
        /\ b.kind = IF spec.size = 0 THEN "Code" ELSE "Data"
    BY Zenon DEF BpOk, OwnOk
  <1>1. DOMAIN c = BpFields /\ c.late = b.late /\ c.flags = b.flags /\ c.size = b.size /\ c.kind = b.kind
    BY <1>0, Zenon DEF BpFields
  <1> HIDE DEF c
  <1>2. BpOk(c)
    BY <1>0, <1>1, Zenon DEF BpOk
  <1>3. OwnOk(c, spec, "align")
    BY <1>0, <1>1, Zenon DEF OwnOk
  <1> QED  BY <1>2, <1>3, Zenon DEF c

\* A breakpoint located by an expression, resolved or not, is sound.
LEMMA TextOwn ==
  ASSUME NEW b, NEW spec, NEW t, NEW x, BpOk(b), OwnOk(b, spec, "locate")
  PROVE  /\ BpOk([b EXCEPT !.text = t, !.offset = x])
         /\ OwnOk([b EXCEPT !.text = t, !.offset = x], spec, "align")
  <1> DEFINE c == [b EXCEPT !.text = t, !.offset = x]
  <1>0. /\ DOMAIN b = BpFields /\ b.late \in BOOLEAN /\ b.flags = {} /\ b.size = 0
        /\ b.kind = IF spec.size = 0 THEN "Code" ELSE "Data"
    BY Zenon DEF BpOk, OwnOk
  <1>1. DOMAIN c = BpFields /\ c.late = b.late /\ c.flags = b.flags /\ c.size = b.size /\ c.kind = b.kind
    BY <1>0, Zenon DEF BpFields
  <1> HIDE DEF c
  <1>2. BpOk(c)
    BY <1>0, <1>1, Zenon DEF BpOk
  <1>3. OwnOk(c, spec, "align")
    BY <1>0, <1>1, Zenon DEF OwnOk
  <1> QED  BY <1>2, <1>3, Zenon DEF c

\* A breakpoint whose expression is deferred is sound, and has no address.
LEMMA DeferredOwn ==
  ASSUME NEW b, NEW spec, NEW t, BpOk(b), OwnOk(b, spec, "locate")
  PROVE  /\ BpOk([b EXCEPT !.text = t, !.offset = None, !.flags = @ \cup {"deferred"}])
         /\ OwnOk([b EXCEPT !.text = t, !.offset = None, !.flags = @ \cup {"deferred"}], spec, "align")
  <1> DEFINE c == [b EXCEPT !.text = t, !.offset = None, !.flags = @ \cup {"deferred"}]
  <1>0. /\ DOMAIN b = BpFields /\ b.late \in BOOLEAN /\ b.flags = {} /\ b.size = 0
        /\ b.kind = IF spec.size = 0 THEN "Code" ELSE "Data"
    BY Zenon DEF BpOk, OwnOk
  <1>1. /\ DOMAIN c = BpFields /\ c.late = b.late /\ c.flags = b.flags \cup {"deferred"}
        /\ c.size = b.size /\ c.kind = b.kind /\ c.offset = None
    BY <1>0, Zenon DEF BpFields
  <1> HIDE DEF c
  <1>2. BpOk(c)
    BY <1>0, <1>1, Zenon DEF BpOk
  <1>3. "enabled" \notin c.flags
    BY <1>0, <1>1, Zenon
  <1>4. OwnOk(c, spec, "align")
    BY <1>0, <1>1, <1>3, Zenon DEF OwnOk
  <1> QED  BY <1>2, <1>4, Zenon DEF c

\* A breakpoint configured has what was asked for, and its region is aligned.
LEMMA ConfiguredOwn ==
  ASSUME NEW b, NEW spec, BpOk(b), OwnOk(b, spec, "configure")
  PROVE  BpOk(Configured(b, spec)) /\ OwnOk(Configured(b, spec), spec, "arm")
  <1> DEFINE c == Configured(b, spec)
  <1>0. /\ DOMAIN b = BpFields /\ b.late \in BOOLEAN /\ "enabled" \notin b.flags /\ b.size = 0
        /\ b.kind = IF spec.size = 0 THEN "Code" ELSE "Data"
        /\ "deferred" \in b.flags => b.offset = None
    BY Zenon DEF BpOk, OwnOk
  <1>a. ~misaligned(spec, b.offset)
    BY Zenon DEF OwnOk
  <1>1. /\ DOMAIN c = BpFields /\ c.late = b.late /\ c.flags = b.flags /\ c.kind = b.kind /\ c.offset = b.offset
        /\ c.command = spec.command /\ c.thread = spec.thread /\ c.size = spec.size
    BY <1>0, Zenon DEF BpFields, Configured
  <1>2. spec.passes # 0 => c.passes = spec.passes
    BY <1>0, Zenon DEF BpFields, Configured
  <1>3. spec.size # 0 => c.access = to_engine(spec.access)
    BY <1>0, Zenon DEF BpFields, Configured
  <1> HIDE DEF c
  <1>4. Landed(c, spec)
    BY <1>1, <1>2, <1>3, Zenon DEF Landed
  <1>5. BpOk(c)
    BY <1>0, <1>1, <1>a, ZenonT(30) DEF BpOk, misaligned
  <1>6. OwnOk(c, spec, "arm")
    BY <1>0, <1>1, <1>a, <1>4, Zenon DEF OwnOk
  <1> QED  BY <1>5, <1>6, Zenon DEF c

\* Arming changes the flags only.
LEMMA ArmedOwn ==
  ASSUME NEW b, NEW spec, BpOk(b), OwnOk(b, spec, "arm")
  PROVE  /\ BpOk([b EXCEPT !.flags = @ \cup flags(spec)])
         /\ OwnOk([b EXCEPT !.flags = @ \cup flags(spec)], spec, "read_back")
  <1> DEFINE c == [b EXCEPT !.flags = @ \cup flags(spec)]
  <1>0. /\ DOMAIN b = BpFields /\ b.late \in BOOLEAN
        /\ b.kind = IF spec.size = 0 THEN "Code" ELSE "Data"
        /\ "deferred" \in b.flags => b.offset = None
    BY Zenon DEF BpOk, OwnOk
  <1>a. ~misaligned(spec, b.offset) /\ Landed(b, spec)
    BY Zenon DEF OwnOk
  <1>1. /\ DOMAIN c = BpFields /\ c.late = b.late /\ c.kind = b.kind /\ c.offset = b.offset
        /\ c.command = b.command /\ c.thread = b.thread /\ c.size = b.size /\ c.passes = b.passes
        /\ c.access = b.access
    BY <1>0, Zenon DEF BpFields
  <1>2. c.flags = b.flags \cup flags(spec)
    BY <1>0, Zenon DEF BpFields
  <1> HIDE DEF c
  <1>3. "deferred" \in c.flags => c.offset = None
    <2>1. "deferred" \notin flags(spec)
      BY Zenon DEF flags
    <2> QED  BY <2>1, <1>0, <1>1, <1>2, Zenon
  <1>4. Landed(c, spec)
    BY <1>1, <1>a, Zenon DEF Landed
  <1>5. BpOk(c)
    BY <1>0, <1>1, ZenonT(30) DEF BpOk
  <1>6. OwnOk(c, spec, "read_back")
    BY <1>0, <1>1, <1>a, <1>3, <1>4, Zenon DEF OwnOk
  <1> QED  BY <1>5, <1>6, ZenonT(30) DEF c

\* A breakpoint half configured is not watched yet.
LEMMA PartlyOk ==
  ASSUME NEW b, NEW spec, NEW c \in PartlyConfigured(b, spec), BpOk(b), b.size = 0
  PROVE  BpOk(c)
  <1>0. DOMAIN b = BpFields /\ b.late \in BOOLEAN
    BY Zenon DEF BpOk
  <1> DEFINE whole == Configured(b, spec)
  <1>1. DOMAIN whole = BpFields /\ whole.late = b.late
    BY <1>0, Zenon DEF BpFields, Configured
  <1>2. CASE c = b
    BY <1>2, Zenon
  <1>3. CASE c = [b EXCEPT !.command = spec.command]
    <2>1. DOMAIN c = BpFields /\ c.late = b.late /\ c.size = b.size
      BY <1>0, <1>3, Zenon DEF BpFields
    <2> QED  BY <1>0, <2>1, Zenon DEF BpOk
  <1> HIDE DEF whole
  <1>4. CASE c = [whole EXCEPT !.thread = b.thread, !.size = b.size, !.access = b.access]
    <2>1. DOMAIN c = BpFields /\ c.late = b.late /\ c.size = b.size
      BY <1>1, <1>4, Zenon DEF BpFields
    <2> QED  BY <1>0, <2>1, Zenon DEF BpOk
  <1>5. CASE c = [whole EXCEPT !.size = b.size, !.access = b.access]
    <2>1. DOMAIN c = BpFields /\ c.late = b.late /\ c.size = b.size
      BY <1>1, <1>5, Zenon DEF BpFields
    <2> QED  BY <1>0, <2>1, Zenon DEF BpOk
  <1> QED  BY <1>2, <1>3, <1>4, <1>5, Zenon DEF PartlyConfigured, whole

\* Before any call nothing is held and nothing is in progress.
LEMMA BreakpointInitInv == BreakpointInit => BreakpointInv
  <1> SUFFICES ASSUME BreakpointInit PROVE BreakpointInv
    BY Zenon
  <1>1. HeldOk(held)
    <2>1. DOMAIN held = {}
      BY DEF BreakpointInit
    <2> QED  BY <2>1, Zenon DEF HeldOk
  <1>2. setting.pc = "idle" /\ reported.kind = "none" /\ refusals \in Nat
    BY Zenon DEF BreakpointInit, Idle, Unreported
  <1>3. SettingOk(held, setting)
    BY <1>2, Zenon DEF SettingOk, SetPcs
  <1>4. ReportOk
    BY <1>2, Zenon DEF ReportOk, FailedSetDestroysNothing, ReplacedIsGone, ReportIsHeld, ScopedIsGone
  <1> QED  BY <1>1, <1>2, <1>3, <1>4, Zenon DEF BreakpointInv

\* What the invariant says of a set that has not yet been read back.
LEMMA SettingFacts ==
  ASSUME BreakpointInv, setting.pc \in SetPcs
  PROVE  /\ Beside(held, setting.before, setting.id)
         /\ setting.id \in DOMAIN held
         /\ BpOk(Mine)
         /\ OwnOk(Mine, setting.spec, setting.pc)
         /\ setting.pc # "replace" => DOMAIN setting = {"pc", "spec", "id", "before", "cut"}
  <1>1. Beside(held, setting.before, setting.id) /\ OwnOk(Mine, setting.spec, setting.pc)
    BY Zenon DEF BreakpointInv, SettingOk, Mine
  <1>2. setting.id \in DOMAIN held
    BY <1>1, Zenon DEF Beside
  <1>3. BpOk(Mine)
    BY <1>2, Zenon DEF BreakpointInv, HeldOk, Mine
  <1>4. setting.pc # "replace" => DOMAIN setting = {"pc", "spec", "id", "before", "cut"}
    BY Zenon DEF BreakpointInv, SettingOk
  <1> QED  BY <1>1, <1>2, <1>3, <1>4, Zenon

\* A step of a set moves its pc and keeps what it sets and what was held before.
LEMMA MovesOn ==
  ASSUME DOMAIN setting = {"pc", "spec", "id", "before", "cut"}, NEW at_pc, NEW c,
         setting' \in {[setting EXCEPT !.pc = at_pc], [setting EXCEPT !.pc = at_pc, !.cut = c]}
  PROVE  /\ DOMAIN setting' = DOMAIN setting /\ setting'.pc = at_pc /\ setting'.spec = setting.spec
         /\ setting'.id = setting.id /\ setting'.before = setting.before
  <1>1. CASE setting' = [setting EXCEPT !.pc = at_pc]
    BY <1>1, Zenon
  <1>2. CASE setting' = [setting EXCEPT !.pc = at_pc, !.cut = c]
    BY <1>2, Zenon
  <1> QED  BY <1>1, <1>2, Zenon

\* Each call of a set that lands changes the breakpoint being set only, and what has
\* landed of it is what the next call counts on.
LEMMA LandStep ==
  ASSUME BreakpointInv, SetOffset \/ SetOffsetExpression \/ Align \/ Configure \/ Arm,
         ~(setting.pc = "align" /\ misaligned(setting.spec, Mine.offset))
  PROVE  BreakpointInv'
  <1>p. setting.pc \in {"locate", "align", "configure", "arm"}
    BY Zenon DEF SetOffset, SetOffsetExpression, Align, Configure, Arm
  <1>q. setting.pc \in SetPcs \ {"replace"}
    BY <1>p, Zenon DEF SetPcs
  <1>0. /\ Beside(held, setting.before, setting.id) /\ setting.id \in DOMAIN held
        /\ BpOk(Mine) /\ OwnOk(Mine, setting.spec, setting.pc)
        /\ DOMAIN setting = {"pc", "spec", "id", "before", "cut"}
    BY <1>q, SettingFacts, Zenon
  <1>n. ASSUME NEW b, NEW at_pc \in {"align", "configure", "arm", "read_back"}, NEW c,
               held' = With(held, setting.id, b) \/ (UNCHANGED held /\ b = Mine), BpOk(b),
               setting' \in {[setting EXCEPT !.pc = at_pc], [setting EXCEPT !.pc = at_pc, !.cut = c]},
               OwnOk(b, setting.spec, at_pc), UNCHANGED <<refusals, reported>>
        PROVE  BreakpointInv'
    <2>1. /\ DOMAIN setting' = DOMAIN setting /\ setting'.pc = at_pc /\ setting'.spec = setting.spec
          /\ setting'.id = setting.id /\ setting'.before = setting.before
      BY <1>0, <1>n, MovesOn, Zenon
    <2>2. /\ DOMAIN held' = DOMAIN held /\ held'[setting.id] = b
          /\ \A i \in DOMAIN held : i # setting.id => held'[i] = held[i]
      <3>1. CASE held' = With(held, setting.id, b)
        <4>1. /\ DOMAIN held' = DOMAIN held \cup {setting.id} /\ held'[setting.id] = b
              /\ \A i \in DOMAIN held : i # setting.id => held'[i] = held[i]
          BY <3>1, Zenon DEF With
        <4> QED  BY <1>0, <4>1, Zenon
      <3>2. CASE UNCHANGED held /\ b = Mine
        BY <3>2, Zenon DEF Mine
      <3> QED  BY <1>n, <3>1, <3>2, Zenon
    <2>3. setting'.pc \in SetPcs \ {"locate", "replace"}
      BY <2>1, Zenon DEF SetPcs
    <2>4. OwnOk(b, setting.spec, setting'.pc)
      BY <1>n, <2>1, Zenon
    <2> QED  BY <1>n, <1>q, <2>1, <2>2, <2>3, <2>4, OwnStep, Zenon
  <1>1. CASE SetOffset
    <2>1. BpOk([Mine EXCEPT !.offset = setting.spec.at.address])
          /\ OwnOk([Mine EXCEPT !.offset = setting.spec.at.address], setting.spec, "align")
      BY <1>0, <1>1, OffsetOwn, Zenon DEF SetOffset
    <2> QED  BY <1>1, <1>n, <2>1, Zenon DEF SetOffset
  <1>2. CASE SetOffsetExpression
    <2> DEFINE expr == setting.spec.at.text
               plain(x) == [Mine EXCEPT !.text = expr, !.offset = x]
               late_one == [Mine EXCEPT !.text = expr, !.offset = None, !.flags = @ \cup {"deferred"}]
    <2>0. OwnOk(Mine, setting.spec, "locate")
      BY <1>0, <1>2, Zenon DEF SetOffsetExpression
    <2>1. \A x : BpOk(plain(x)) /\ OwnOk(plain(x), setting.spec, "align")
      BY <1>0, <2>0, TextOwn, Zenon
    <2>2. BpOk(late_one) /\ OwnOk(late_one, setting.spec, "align")
      BY <1>0, <2>0, DeferredOwn, Zenon
    <2>3. Located(Mine, expr) \in {plain(ValueOf[expr]), late_one}
      BY Zenon DEF Located
    <2>4. \E b \in {Located(Mine, expr), plain(None), late_one} :
            /\ held' = With(held, setting.id, b)
            /\ setting' \in {[setting EXCEPT !.pc = "align"], [setting EXCEPT !.pc = "align", !.cut = TRUE]}
      BY <1>2, Zenon DEF SetOffsetExpression
    <2>5. PICK b : /\ BpOk(b) /\ OwnOk(b, setting.spec, "align") /\ held' = With(held, setting.id, b)
                   /\ setting' \in {[setting EXCEPT !.pc = "align"], [setting EXCEPT !.pc = "align", !.cut = TRUE]}
      <3> HIDE DEF plain, late_one
      <3> QED  BY <2>1, <2>2, <2>3, <2>4, Zenon
    <2>6. UNCHANGED <<refusals, reported>>
      BY <1>2, Zenon DEF SetOffsetExpression
    <2> QED  BY <2>5, <2>6, <1>n, Zenon
  <1>3. CASE Align
    <2>1. setting.pc = "align" /\ ~misaligned(setting.spec, Mine.offset)
      BY <1>3, Zenon DEF Align
    <2>2. /\ setting' = [setting EXCEPT !.pc = "configure"]
          /\ UNCHANGED <<refusals, held, loaded, reported>>
      BY <1>3, <2>1, Zenon DEF Align
    <2>3. OwnOk(Mine, setting.spec, "configure")
      BY <1>0, <2>1, Zenon DEF OwnOk
    <2> QED  BY <1>0, <1>n, <2>2, <2>3, Zenon
  <1>4. CASE Configure
    <2>1. BpOk(Configured(Mine, setting.spec)) /\ OwnOk(Configured(Mine, setting.spec), setting.spec, "arm")
      BY <1>0, <1>4, ConfiguredOwn, Zenon DEF Configure
    <2> QED  BY <1>4, <1>n, <2>1, Zenon DEF Configure
  <1>5. CASE Arm
    <2>1. /\ BpOk([Mine EXCEPT !.flags = @ \cup flags(setting.spec)])
          /\ OwnOk([Mine EXCEPT !.flags = @ \cup flags(setting.spec)], setting.spec, "read_back")
      BY <1>0, <1>5, ArmedOwn, Zenon DEF Arm
    <2> QED  BY <1>5, <1>n, <2>1, Zenon DEF Arm
  <1> QED  BY <1>1, <1>2, <1>3, <1>4, <1>5, Zenon

\* A call of a set that fails, or an address found misaligned, drops the breakpoint.
LEMMA FailsStep ==
  ASSUME BreakpointInv, CallFails \/ (Align /\ misaligned(setting.spec, Mine.offset))
  PROVE  BreakpointInv'
  <1>p. setting.pc \in {"locate", "align", "configure", "arm", "read_back"}
    BY Zenon DEF CallFails, Align
  <1>q. setting.pc \in SetPcs
    BY <1>p, Zenon DEF SetPcs
  <1>0. /\ Beside(held, setting.before, setting.id) /\ setting.id \in DOMAIN held
        /\ BpOk(Mine) /\ OwnOk(Mine, setting.spec, setting.pc) /\ HeldOk(held)
    BY <1>q, SettingFacts, Zenon DEF BreakpointInv
  <1>1. ASSUME NEW error, Failed(error) PROVE BreakpointInv'
    BY <1>0, <1>1, FailStep, Zenon DEF Failed
  <1>2. ASSUME setting.pc = "configure", NEW b \in PartlyConfigured(Mine, setting.spec),
               Drop(With(held, setting.id, b), setting.id),
               reported' = [kind |-> "error", error |-> "BreakpointFailed", before |-> setting.before,
                            cleaned |-> UNCHANGED refusals],
               setting' = Idle
        PROVE  BreakpointInv'
    <2> DEFINE all == With(held, setting.id, b)
    <2>1. Mine.size = 0
      <3>1. setting.pc \in {"locate", "align", "configure"}
        BY <1>2, Zenon
      <3> QED  BY <1>0, <3>1, Zenon DEF OwnOk
    <2>2. BpOk(b)
      BY <1>0, <2>1, PartlyOk, Zenon
    <2>3. setting.id \in 0 .. MaxHeld
      BY <1>0, Zenon DEF HeldOk
    <2>4. HeldOk(all)
      BY <1>0, <2>2, <2>3, WithHeldOk, Zenon
    <2>5. /\ DOMAIN all = DOMAIN held \cup {setting.id}
          /\ \A i \in DOMAIN held : i # setting.id => all[i] = held[i]
      BY Zenon DEF With
    <2> HIDE DEF all
    <2>6. Beside(all, setting.before, setting.id)
      BY <1>0, <2>5, Zenon DEF Beside
    <2>7. Drop(all, setting.id)
      BY <1>2, Zenon DEF all
    <2> QED  BY <1>2, <2>4, <2>6, <2>7, FailStep, ZenonT(30)
  <1> QED  BY <1>1, <1>2, Zenon DEF CallFails, Align

\* A step after which no call is in progress, or a run is, and nothing is reported.
LEMMA QuietStep ==
  ASSUME HeldOk(held'), refusals' \in Nat, setting'.pc \in {"idle", "running"}, reported'.kind = "none"
  PROVE  BreakpointInv'
  <1>1. SettingOk(held', setting')
    BY Zenon DEF SettingOk, SetPcs
  <1>2. ReportOk'
    <2>1. reported'.kind # "error" /\ reported'.kind # "set" /\ reported'.kind # "ran"
      BY Zenon
    <2> QED  BY <2>1, Zenon DEF ReportOk, FailedSetDestroysNothing, ReplacedIsGone, ReportIsHeld, ScopedIsGone
  <1> QED  BY <1>1, <1>2, Zenon DEF BreakpointInv

\* A spec refused creates nothing.
LEMMA RefuseStep ==
  ASSUME BreakpointInv, NEW spec, Refuse(spec)
  PROVE  BreakpointInv'
  <1>0. HeldOk(held) /\ SettingOk(held, setting) /\ refusals \in Nat /\ setting.pc = "idle"
    BY Zenon DEF BreakpointInv, Refuse
  <1>1. reported'.kind = "error" /\ reported'.before = held
    BY Zenon DEF Refuse
  <1>2. UNCHANGED <<refusals, held, loaded, setting>>
    BY Zenon DEF Refuse
  <1>3. reported'.kind # "set" /\ reported'.kind # "ran"
    BY <1>1, Zenon
  <1>4. ReportOk'
    BY <1>0, <1>1, <1>2, <1>3, Zenon
       DEF ReportOk, FailedSetDestroysNothing, ReplacedIsGone, ReportIsHeld, ScopedIsGone
  <1> QED  BY <1>0, <1>2, <1>4, Zenon DEF BreakpointInv

\* A breakpoint just made is bare: disarmed, watching nothing.
LEMMA BornOk ==
  ASSUME NEW spec
  PROVE  BpOk(Born(spec)) /\ OwnOk(Born(spec), spec, "locate")
  <1> DEFINE b == Born(spec)
  <1>1. /\ DOMAIN b = BpFields /\ b.late = FALSE /\ b.size = 0 /\ b.flags = {}
        /\ b.kind = IF spec.size = 0 THEN "Code" ELSE "Data"
    BY Zenon DEF Born, BpFields
  <1> HIDE DEF b
  <1>2. BpOk(b)
    BY <1>1, Zenon DEF BpOk
  <1>3. OwnOk(b, spec, "locate")
    BY <1>1, Zenon DEF OwnOk
  <1> QED  BY <1>2, <1>3, ZenonT(30) DEF b

\* A set begins with a breakpoint of its own beside those held.
LEMMA NewStep ==
  ASSUME BreakpointInv, NEW spec, New(spec)
  PROVE  BreakpointInv'
  <1>0. HeldOk(held) /\ refusals \in Nat
    BY Zenon DEF BreakpointInv
  <1>1. PICK id \in LeastFree :
          /\ held' = With(held, id, Born(spec))
          /\ setting' = [pc |-> "locate", spec |-> spec, id |-> id, before |-> held, cut |-> FALSE]
    BY Zenon DEF New
  <1>2. id \in 0 .. MaxHeld /\ id \notin DOMAIN held
    BY Zenon DEF LeastFree
  <1>3. HeldOk(held')
    BY <1>0, <1>1, <1>2, BornOk, WithHeldOk, Zenon
  <1>4. /\ DOMAIN held' = DOMAIN held \cup {id} /\ held'[id] = Born(spec)
        /\ \A i \in DOMAIN held : i # id => held'[i] = held[i]
    BY <1>1, ZenonT(30) DEF With
  <1>5. /\ setting'.pc = "locate" /\ setting'.spec = spec /\ setting'.id = id /\ setting'.before = held
        /\ DOMAIN setting' = {"pc", "spec", "id", "before", "cut"}
    BY <1>1, Zenon
  <1>6. Beside(held', held, id)
    BY <1>2, <1>4, Zenon DEF Beside
  <1>7. setting'.pc \in SetPcs /\ setting'.pc # "replace" /\ setting'.pc # "idle"
    BY <1>5, Zenon DEF SetPcs
  <1>8. SettingOk(held', setting')
    BY <1>4, <1>5, <1>6, <1>7, BornOk, ZenonT(30) DEF SettingOk
  <1>9. reported'.kind = "none"
    BY Zenon DEF New, Unreported
  <1>10. reported'.kind # "error" /\ reported'.kind # "set" /\ reported'.kind # "ran"
    BY <1>9, Zenon
  <1>11. ReportOk'
    BY <1>9, <1>10, Zenon DEF ReportOk, FailedSetDestroysNothing, ReplacedIsGone, ReportIsHeld, ScopedIsGone
  <1>12. refusals' = refusals
    BY Zenon DEF New
  <1> QED  BY <1>0, <1>3, <1>8, <1>11, <1>12, Zenon DEF BreakpointInv

\* Reading back takes down what the engine holds of the breakpoint.
LEMMA ReadBackStep ==
  ASSUME BreakpointInv, ReadBack
  PROVE  BreakpointInv'
  <1>p. setting.pc = "read_back" /\ UNCHANGED <<refusals, held, loaded, reported>>
    BY Zenon DEF ReadBack
  <1>q. setting.pc \in SetPcs /\ setting.pc # "idle"
    BY <1>p, Zenon DEF SetPcs
  <1>0. /\ Beside(held, setting.before, setting.id) /\ OwnOk(Mine, setting.spec, setting.pc)
        /\ HeldOk(held) /\ refusals \in Nat /\ ReportOk
    BY <1>q, SettingFacts, Zenon DEF BreakpointInv
  <1>1. /\ setting'.pc = "replace" /\ setting'.spec = setting.spec /\ setting'.id = setting.id
        /\ setting'.before = setting.before /\ setting'.resolved = Mine.offset
        /\ setting'.info = breakpoint_info(setting.id, Mine)
    BY ZenonT(30) DEF ReadBack
  <1>2. OwnOk(Mine, setting.spec, "replace")
    BY <1>0, <1>p, Zenon DEF OwnOk
  <1>3. setting'.pc \in SetPcs /\ setting'.pc # "idle"
    BY <1>1, Zenon DEF SetPcs
  <1>4. SettingOk(held', setting')
    BY <1>0, <1>1, <1>2, <1>3, <1>p, Zenon DEF SettingOk, Mine
  <1>5. reported'.kind = "none"
    BY <1>0, <1>p, <1>q, Zenon DEF ReportOk
  <1>6. reported'.kind # "error" /\ reported'.kind # "set" /\ reported'.kind # "ran"
    BY <1>5, Zenon
  <1>7. ReportOk'
    BY <1>5, <1>6, Zenon DEF ReportOk, FailedSetDestroysNothing, ReplacedIsGone, ReportIsHeld, ScopedIsGone
  <1> QED  BY <1>0, <1>4, <1>7, <1>p, Zenon DEF BreakpointInv

\* What is said of a breakpoint.
LEMMA InfoFacts ==
  ASSUME NEW i, NEW b
  PROVE  /\ breakpoint_info(i, b).id = i /\ breakpoint_info(i, b).address = b.offset
         /\ b.kind = "Data" => /\ breakpoint_info(i, b).size = b.size
                               /\ breakpoint_info(i, b).access = from_engine(b.access)
  BY Zenon DEF breakpoint_info, address_of

\* The last step of a set takes from the others at its address only, and what it
\* reports is what it leaves held.
LEMMA FinishStep ==
  ASSUME BreakpointInv, Finish
  PROVE  BreakpointInv'
  <1>p. setting.pc = "replace" /\ setting' = Idle
    BY Zenon DEF Finish
  <1>q. setting.pc \in SetPcs
    BY <1>p, Zenon DEF SetPcs
  <1>0. /\ Beside(held, setting.before, setting.id) /\ setting.id \in DOMAIN held
        /\ BpOk(Mine) /\ OwnOk(Mine, setting.spec, setting.pc)
        /\ HeldOk(held) /\ refusals \in Nat
    BY <1>q, SettingFacts, Zenon DEF BreakpointInv
  <1>r. setting.info = breakpoint_info(setting.id, Mine) /\ setting.resolved = Mine.offset
    BY <1>p, Zenon DEF BreakpointInv, SettingOk, Mine
  <1> DEFINE others == IF Replaces(setting.spec, setting.resolved) THEN at(setting.resolved, setting.id) ELSE {}
  <1>1. PICK taken \in SUBSET others :
          /\ Refusing(Cardinality(others \ taken))
          /\ held' = Without(held, taken)
          /\ reported' = [kind |-> "set", spec |-> setting.spec, info |-> setting.info, replaced |-> taken,
                          refused |-> others \ taken, before |-> setting.before, cut |-> setting.cut, now |-> held']
    BY Zenon DEF Finish
  <1>b. DOMAIN breakpoints = DOMAIN held /\ \A i \in DOMAIN held : breakpoints[i].address = held[i].offset
    <2>1. DOMAIN breakpoints = DOMAIN held /\ \A i \in DOMAIN held : breakpoints[i] = breakpoint_info(i, held[i])
      BY Zenon DEF breakpoints
    <2>2. \A i : breakpoint_info(i, held[i]).address = held[i].offset
      BY InfoFacts, ZenonT(40)
    <2> QED  BY <2>1, <2>2, Zenon
  <1>2. others \subseteq DOMAIN held /\ setting.id \notin others
    BY <1>b, Zenon DEF at
  <1>o. Replaces(setting.spec, setting.resolved) =>
          \A i \in DOMAIN held : i # setting.id /\ held[i].offset = setting.resolved => i \in others
    BY <1>b, Zenon DEF at
  <1> HIDE DEF others
  <1>3. refusals' \in Nat
    <2>1. Cardinality(others \ taken) \in Nat
      BY <1>0, <1>2, HeldFinite, Zenon
    <2>2. refusals' = refusals + Cardinality(others \ taken)
      BY <1>1, Zenon DEF Refusing
    <2> HIDE <1>1
    <2>3. \A m, n \in Nat : m + n \in Nat
      OBVIOUS
    <2> QED  BY <1>0, <2>1, <2>2, <2>3, Zenon
  <1>4. HeldOk(held')
    BY <1>0, <1>1, WithoutHeldOk, Zenon
  <1>5. setting'.pc = "idle"
    BY <1>p, Zenon DEF Idle
  <1>6. SettingOk(held', setting')
    BY <1>5, Zenon DEF SettingOk, SetPcs
  <1>7. /\ DOMAIN held' = DOMAIN held \ taken
        /\ \A i \in DOMAIN held \ taken : held'[i] = held[i]
    BY <1>1, WithoutFacts, Zenon
  <1>8. /\ reported'.kind = "set" /\ reported'.spec = setting.spec /\ reported'.info = setting.info
        /\ reported'.replaced = taken /\ reported'.refused = others \ taken
        /\ reported'.before = setting.before /\ reported'.now = held'
    BY <1>1, Zenon
  <1>9. /\ setting.info.id = setting.id /\ setting.info.address = Mine.offset
        /\ Mine.kind = "Data" => /\ setting.info.size = Mine.size
                                 /\ setting.info.access = from_engine(Mine.access)
    <2> DEFINE info == breakpoint_info(setting.id, Mine)
    <2>1. /\ info.id = setting.id /\ info.address = Mine.offset
          /\ Mine.kind = "Data" => info.size = Mine.size /\ info.access = from_engine(Mine.access)
      BY InfoFacts, ZenonT(40)
    <2>2. setting.info = info
      BY <1>r, Zenon
    <2> HIDE DEF info
    <2> QED  BY <2>1, <2>2, Zenon
  <1>10. setting.id \in DOMAIN held' /\ held'[setting.id] = Mine
    BY <1>0, <1>2, <1>7, Zenon DEF Mine
  <1>11. ReplacedIsGone'
    <2>1. taken \cap DOMAIN held' = {}
      BY <1>7, Zenon
    <2>2. DOMAIN setting.before \ taken \subseteq DOMAIN held'
      BY <1>0, <1>7, Zenon DEF Beside
    <2>3. ASSUME setting.spec.replace /\ setting.info.address # None, NEW i \in DOMAIN held',
                 held'[i].offset = setting.info.address
          PROVE  i \in {setting.id} \cup (others \ taken)
      <3>1. Replaces(setting.spec, setting.resolved)
        BY <1>9, <1>r, <2>3, Zenon DEF Replaces
      <3>2. i \in DOMAIN held \ taken /\ held[i].offset = setting.resolved
        BY <1>7, <1>9, <1>r, <2>3, Zenon
      <3> QED  BY <1>o, <3>1, <3>2, Zenon
    <2> QED  BY <1>8, <1>9, <1>10, <2>1, <2>2, <2>3, Zenon DEF ReplacedIsGone
  <1>12. ReportIsHeld'
    <2>1. "deferred" \in Mine.flags => Mine.offset = None
      BY <1>0, Zenon DEF OwnOk
    <2>2. ASSUME setting.spec.size # 0
          PROVE  /\ setting.info.size = setting.spec.size
                 /\ to_engine(setting.info.access) = to_engine(setting.spec.access)
      <3>1. Mine.kind = "Data" /\ Landed(Mine, setting.spec)
        <4>1. setting.pc \in {"arm", "read_back", "replace"}
          BY <1>p, Zenon
        <4> QED  BY <1>0, <2>2, <4>1, Zenon DEF OwnOk
      <3>2. Mine.size = setting.spec.size /\ Mine.access = to_engine(setting.spec.access)
        BY <3>1, <2>2, Zenon DEF Landed
      <3> QED  BY <1>9, <3>1, <3>2, AccessRoundTrip, ZenonT(30)
    <2> QED  BY <1>8, <1>9, <1>10, <2>1, <2>2, Zenon DEF ReportIsHeld
  <1>13. reported'.kind # "error" /\ reported'.kind # "ran"
    BY <1>8, Zenon
  <1>14. ReportOk'
    BY <1>5, <1>11, <1>12, <1>13, Zenon DEF ReportOk, FailedSetDestroysNothing, ScopedIsGone
  <1> QED  BY <1>3, <1>4, <1>6, <1>14, Zenon DEF BreakpointInv

\* Taking one breakpoint away, by its id or by its activation.
LEMMA RemoveStep ==
  ASSUME BreakpointInv, NEW id, remove_breakpoint(id) \/ Activate(id)
  PROVE  BreakpointInv'
  <1>0. HeldOk(held) /\ refusals \in Nat /\ ReportOk
    BY Zenon DEF BreakpointInv
  <1>1. /\ held' = Without(held, {id}) /\ UNCHANGED <<refusals, setting>>
        /\ setting.pc \in {"idle", "running"}
    BY Zenon DEF remove_breakpoint, Activate
  <1>2. HeldOk(held')
    BY <1>0, <1>1, WithoutHeldOk, Zenon
  <1>3. reported'.kind = "none"
    <2>1. CASE remove_breakpoint(id)
      BY <2>1, Zenon DEF remove_breakpoint, Unreported
    <2>2. CASE Activate(id)
      <3>1. setting.pc = "running" /\ UNCHANGED reported
        BY <2>2, Zenon DEF Activate
      <3>2. setting.pc # "idle"
        BY <3>1, Zenon
      <3> QED  BY <1>0, <3>1, <3>2, Zenon DEF ReportOk
    <2> QED  BY <2>1, <2>2, Zenon
  <1> QED  BY <1>0, <1>1, <1>2, <1>3, QuietStep, Zenon

\* Switching a breakpoint on or off changes its flags only.
LEMMA EnableStep ==
  ASSUME BreakpointInv, NEW id, NEW on, enable_breakpoint(id, on)
  PROVE  BreakpointInv'
  <1>0. HeldOk(held) /\ refusals \in Nat
    BY Zenon DEF BreakpointInv
  <1> DEFINE f == IF on THEN held[id].flags \cup {"enabled"} ELSE held[id].flags \ {"enabled"}
             c == [held[id] EXCEPT !.flags = f]
  <1>1. /\ held' = With(held, id, c) /\ id \in DOMAIN held /\ setting.pc = "idle"
        /\ UNCHANGED <<refusals, setting>> /\ reported' = Unreported
    BY Zenon DEF enable_breakpoint
  <1> HIDE DEF f
  <1>2. BpOk(held[id]) /\ id \in 0 .. MaxHeld
    BY <1>0, <1>1, Zenon DEF HeldOk
  <1>3. DOMAIN c = BpFields /\ c.late = held[id].late /\ c.size = held[id].size /\ c.offset = held[id].offset
    BY <1>2, Zenon DEF BpOk, BpFields
  <1> HIDE DEF c
  <1>4. BpOk(c)
    BY <1>2, <1>3, Zenon DEF BpOk
  <1>5. HeldOk(held')
    BY <1>0, <1>1, <1>2, <1>4, WithHeldOk, Zenon
  <1>6. reported'.kind = "none"
    BY <1>1, Zenon DEF Unreported
  <1> QED  BY <1>0, <1>1, <1>5, <1>6, QuietStep, Zenon

\* A run to an address holds a breakpoint that watches nothing.
LEMMA RunToBeginStep ==
  ASSUME BreakpointInv, NEW address, RunToBegin(address)
  PROVE  BreakpointInv'
  <1>0. HeldOk(held) /\ refusals \in Nat
    BY Zenon DEF BreakpointInv
  <1> DEFINE bare == Born([size |-> 0])
             b == [bare EXCEPT !.offset = address]
             armed == [b EXCEPT !.flags = {"enabled"}]
  <1>1. /\ setting.pc = "idle" /\ reported' = Unreported
        /\ \E id \in LeastFree :
             \/ /\ held' = With(held, id, armed)
                /\ setting' = [pc |-> "running", id |-> id] /\ UNCHANGED refusals
             \/ Drop(With(held, id, b), id) /\ UNCHANGED setting
    BY ZenonT(30) DEF RunToBegin
  <1>2. DOMAIN bare = BpFields /\ bare.late = FALSE /\ bare.size = 0
    BY Zenon DEF Born, BpFields
  <1> HIDE DEF bare
  <1>3. DOMAIN b = BpFields /\ b.late = FALSE /\ b.size = 0
    BY <1>2, Zenon DEF BpFields
  <1> HIDE DEF b
  <1>4. DOMAIN armed = BpFields /\ armed.late = FALSE /\ armed.size = 0
    BY <1>3, Zenon DEF BpFields
  <1> HIDE DEF armed
  <1>5. BpOk(b) /\ BpOk(armed)
    BY <1>3, <1>4, Zenon DEF BpOk
  <1>6. reported'.kind = "none"
    BY <1>1, Zenon DEF Unreported
  <1>7. PICK id \in LeastFree :
          \/ /\ held' = With(held, id, armed)
             /\ setting' = [pc |-> "running", id |-> id] /\ UNCHANGED refusals
          \/ Drop(With(held, id, b), id) /\ UNCHANGED setting
    BY <1>1, Zenon
  <1>8. id \in 0 .. MaxHeld
    BY Zenon DEF LeastFree
  <1>9. HeldOk(With(held, id, armed)) /\ HeldOk(With(held, id, b))
    BY <1>0, <1>5, <1>8, WithHeldOk, Zenon
  <1>10. CASE held' = With(held, id, armed) /\ setting' = [pc |-> "running", id |-> id] /\ UNCHANGED refusals
    <2>1. setting'.pc = "running"
      BY <1>10, Zenon
    <2> QED  BY <1>0, <1>6, <1>9, <1>10, <2>1, QuietStep, Zenon
  <1>11. CASE Drop(With(held, id, b), id) /\ UNCHANGED setting
    <2>1. HeldOk(held')
      BY <1>9, <1>11, WithoutHeldOk, Zenon DEF Drop
    <2>2. refusals' \in Nat
      BY <1>0, <1>11, SMT DEF Drop, Refusing
    <2> QED  BY <1>1, <1>6, <1>11, <2>1, <2>2, QuietStep, Zenon
  <1> QED  BY <1>7, <1>10, <1>11, Zenon

\* A run that ends drops its breakpoint, unless the engine refuses.
LEMMA RunToEndStep ==
  ASSUME BreakpointInv, RunToEnd
  PROVE  BreakpointInv'
  <1>0. HeldOk(held) /\ refusals \in Nat
    BY Zenon DEF BreakpointInv
  <1>1. /\ Drop(held, setting.id) /\ setting' = Idle
        /\ reported' = [kind |-> "ran", id |-> setting.id, cleaned |-> UNCHANGED refusals]
    BY Zenon DEF RunToEnd
  <1>2. reported'.kind = "ran" /\ reported'.id = setting.id /\ reported'.cleaned = (refusals' = refusals)
    BY <1>1, Zenon
  <1>3. setting'.pc = "idle"
    BY <1>1, Zenon DEF Idle
  <1>4. HeldOk(held')
    BY <1>0, <1>1, WithoutHeldOk, Zenon DEF Drop
  <1>5. refusals' \in Nat
    BY <1>0, <1>1, SMT DEF Drop, Refusing
  <1>6. SettingOk(held', setting')
    BY <1>3, Zenon DEF SettingOk, SetPcs
  <1>7. refusals' = refusals => setting.id \notin DOMAIN held'
    <2>1. CASE held' = Without(held, {setting.id})
      <3>1. DOMAIN held' = DOMAIN held \ {setting.id}
        BY <2>1, WithoutFacts, Zenon
      <3> QED  BY <3>1, Zenon
    <2>2. CASE Refusing(1)
      BY <1>0, <2>2, SMT DEF Refusing
    <2> QED  BY <1>1, <2>1, <2>2, Zenon DEF Drop
  <1>8. reported'.kind # "error" /\ reported'.kind # "set"
    BY <1>2, Zenon
  <1>9. ReportOk'
    BY <1>2, <1>3, <1>7, <1>8, Zenon
       DEF ReportOk, FailedSetDestroysNothing, ReplacedIsGone, ReportIsHeld, ScopedIsGone
  <1> QED  BY <1>4, <1>5, <1>6, <1>9, Zenon DEF BreakpointInv

\* A module load resolves what was deferred, and marks it late.
LEMMA LoadModuleStep ==
  ASSUME BreakpointInv, LoadModule
  PROVE  BreakpointInv'
  <1>0. HeldOk(held) /\ refusals \in Nat
    BY Zenon DEF BreakpointInv
  <1> DEFINE c(i) == [held[i] EXCEPT !.offset = ValueOf[held[i].text], !.flags = @ \ {"deferred"}, !.late = TRUE]
  <1>1. /\ setting.pc \in {"idle", "running"} /\ reported' = Unreported /\ UNCHANGED <<refusals, setting>>
        /\ held' = [i \in DOMAIN held |-> IF "deferred" \in held[i].flags THEN c(i) ELSE held[i]]
    BY Zenon DEF LoadModule
  <1>2. ASSUME NEW i \in DOMAIN held PROVE BpOk(c(i)) /\ BpOk(held[i])
    <2>1. BpOk(held[i])
      BY <1>0, Zenon DEF HeldOk
    <2>2. DOMAIN c(i) = BpFields /\ c(i).late = TRUE
      BY <2>1, Zenon DEF BpOk, BpFields
    <2> HIDE DEF c
    <2> QED  BY <2>1, <2>2, Zenon DEF BpOk
  <1> HIDE DEF c
  <1>3. /\ DOMAIN held' = DOMAIN held
        /\ \A i \in DOMAIN held : held'[i] = IF "deferred" \in held[i].flags THEN c(i) ELSE held[i]
    BY <1>1, Zenon
  <1>4. HeldOk(held')
    BY <1>0, <1>2, <1>3, Zenon DEF HeldOk
  <1>5. reported'.kind = "none"
    BY <1>1, Zenon DEF Unreported
  <1> QED  BY <1>0, <1>1, <1>4, <1>5, QuietStep, Zenon

\* Every step keeps the invariant.
LEMMA BreakpointNextInv ==
  ASSUME BreakpointInv, [BreakpointNext]_breakpointVars
  PROVE  BreakpointInv'
  <1>1. CASE UNCHANGED breakpointVars
    BY <1>1, Zenon DEF breakpointVars, BreakpointInv, ReportOk, FailedSetDestroysNothing, ReplacedIsGone,
                       ReportIsHeld, ScopedIsGone
  <1>2. CASE SetOffset \/ SetOffsetExpression \/ Align \/ Configure \/ Arm
    <2>1. CASE setting.pc = "align" /\ misaligned(setting.spec, Mine.offset)
      <3>1. setting.pc # "locate" /\ setting.pc # "configure" /\ setting.pc # "arm"
        BY <2>1, Zenon
      <3>2. Align
        BY <1>2, <3>1, Zenon DEF SetOffset, SetOffsetExpression, Configure, Arm
      <3> QED  BY <2>1, <3>2, FailsStep, Zenon
    <2> QED  BY <1>2, <2>1, LandStep, Zenon
  <1> QED
    BY <1>1, <1>2, RefuseStep, NewStep, ReadBackStep, FailsStep, FinishStep, RemoveStep, EnableStep,
       RunToBeginStep, RunToEndStep, LoadModuleStep, ZenonT(30) DEF BreakpointNext

\* The invariant says what is promised of breakpoints.
LEMMA BreakpointInvSound == BreakpointInv => BreakpointsSound
  <1> SUFFICES ASSUME BreakpointInv PROVE BreakpointsSound
    BY Zenon
  <1>1. ArmedIsWhole
    <2> SUFFICES ASSUME setting.pc \in {"align", "configure", "arm", "read_back", "replace"}, "enabled" \in Mine.flags
                 PROVE  Landed(Mine, setting.spec)
      BY Zenon DEF ArmedIsWhole, Landed
    <2>1. setting.pc \in SetPcs
      BY Zenon DEF SetPcs
    <2>2. OwnOk(Mine, setting.spec, setting.pc)
      BY <2>1, SettingFacts, Zenon
    <2> QED  BY <2>2, Zenon DEF OwnOk
  <1>2. ResolvedIsAligned
    BY Zenon DEF BreakpointInv, HeldOk, BpOk, ResolvedIsAligned
  <1> QED  BY <1>1, <1>2, Zenon DEF BreakpointInv, ReportOk, BreakpointsSound

(* A breakpoint is set whole or not at all, whichever engine call fails and      *)
(* whichever removals the engine refuses, for any specs and expressions: what    *)
(* the caller held is there as it was, nothing is armed half built or            *)
(* misaligned, what was replaced is gone, and what is reported is what is held.  *)
THEOREM BreakpointsSoundHolds == BreakpointSpec => []BreakpointsSound
  <1>1. BreakpointInit => BreakpointInv
    BY BreakpointInitInv, Zenon
  <1>2. BreakpointInv /\ [BreakpointNext]_breakpointVars => BreakpointInv'
    BY BreakpointNextInv, Zenon
  <1>3. BreakpointInv => BreakpointsSound
    BY BreakpointInvSound, Zenon
  <1> QED  BY <1>1, <1>2, <1>3, PTL DEF BreakpointSpec
=============================================================================
