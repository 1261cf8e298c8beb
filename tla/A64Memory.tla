------------------------------- MODULE A64Memory -------------------------------
(***************************************************************************)
(* A64's loads and stores: what each moves, between which registers and    *)
(* which memory, and whether its addressing moves the base afterwards.  An *)
(* index's scale and extension are left out.                               *)
(***************************************************************************)
EXTENDS A64Words

Rt(word) == field(word, 0, 5)
Base(word) == gpr(field(word, 5, 5), TRUE, TRUE)
X(number) == gpr(number, TRUE, FALSE)

(* What a single transfer moves, by its size, its opcode and its register file. *)
NoAccess == [load |-> FALSE, prefetch |-> FALSE, vector |-> FALSE, signed |-> FALSE, register |-> 0, bytes |-> 0]
access_of(size, opc, vector) ==
  LET scale == 4 * (opc \div 2) + size
      Access(load, prefetch, signed, register, bytes) ==
        [load |-> load, prefetch |-> prefetch, vector |-> vector, signed |-> signed, register |-> register, bytes |-> bytes]
  IN IF vector THEN (IF scale > 4 THEN NoAccess ELSE Access(opc % 2 = 1, FALSE, FALSE, 2^scale, 2^scale))
     ELSE CASE opc \in {0, 1} -> Access(opc = 1, FALSE, FALSE, IF size = 3 THEN 8 ELSE 4, 2^size)
            [] size \in {0, 1} -> Access(TRUE, FALSE, TRUE, IF opc = 2 THEN 8 ELSE 4, 2^size)
            [] size = 2 /\ opc = 2 -> Access(TRUE, FALSE, TRUE, 8, 4)
            [] size = 3 /\ opc = 2 -> Access(FALSE, TRUE, FALSE, 8, 8)
            [] OTHER -> NoAccess
transfer(number, access) == IF access.vector THEN vreg(number, access.register) ELSE gpr(number, access.register = 8, FALSE)
(* A prefetch moves nothing, so its memory has no width and its register field is an operation.   *)
transfer_operands(name, number, access, memory) ==
  LET r == transfer(number, access)
  IN IF access.prefetch THEN Shape("prfm", <<Other("operation"), [memory EXCEPT !.size = NoSize]>>, {}, {}, "Other")
     ELSE Shape(name, <<Register(r), memory>>, IF access.load THEN {r} ELSE {}, IF access.load THEN {} ELSE {r},
                IF access.signed THEN "MoveSigned" ELSE "Move")

(* A post-indexed access happens at its base, and the amount is an operand of its own. *)
Displaced(post, displacement) == IF post THEN 0 ELSE displacement
Moved(out, post, back, base) ==
  LET said == IF post THEN Naming(out, Other("amount")) ELSE out
  IN IF post \/ back THEN Writing(said, base) ELSE said

unscaled_acquire(word) ==
  LET access == access_of(field(word, 30, 2), field(word, 22, 2), FALSE)
  IN IF access = NoAccess \/ access.prefetch \/ field(word, 10, 2) # 0 THEN unallocated
     ELSE transfer_operands("acquire", Rt(word), access, At(access.bytes, Base(word), SignExtended(field(word, 12, 9), 9)))

(* The copy and the set advance their pointers and their count; how much they move is the count.  *)
memory_operations(word) ==
  LET op1 == field(word, 22, 2)
      op2 == field(word, 12, 4)
      source == X(field(word, 16, 5))
      count == X(field(word, 5, 5))
      d == X(Rt(word))
      through(r) == At(NoSize, r, 0)
  IN IF op1 = 3
     THEN IF op2 \div 4 = 3 THEN unallocated
          ELSE FlagsIf(op2 \div 4 = 0, Shape("set", <<through(d), Register(count), Register(source)>>, {d, count}, {count, source}, "Other"))
     ELSE FlagsIf(op1 = 0, Shape("cpy", <<through(d), through(source), Register(count)>>, {d, source, count}, {count}, "Other"))

(* A tag is moved for one granule or two, or for as many as the processor says.  The index bits   *)
(* only help to spell which: a tag load is a displaced access among the whole-granule forms.      *)
TagName(opc, index) ==
  IF index = 0 THEN <<"stzgm", "ldg", "stgm", "ldgm">>[opc + 1] ELSE <<"stg", "stzg", "st2g", "stz2g">>[opc + 1]
WholeGranule(name, index) == name \in {"stzgm", "stgm", "ldgm"}
memory_tags(word) ==
  LET index == field(word, 10, 2)
      name == TagName(field(word, 22, 2), index)
      granule == WholeGranule(name, index)
      displacement == 16 * SignExtended(field(word, 12, 9), 9)
      loads == name \in {"ldg", "ldgm"}
      tagged == gpr(Rt(word), TRUE, ~loads /\ ~granule)
      size == IF granule THEN NoSize ELSE IF name \in {"st2g", "stz2g"} THEN 32 ELSE 16
      post == index = 1
  IN IF field(word, 30, 2) # 3 THEN unallocated
     ELSE IF granule /\ displacement # 0 THEN unallocated
     ELSE Moved(Shape(name, <<Register(tagged), At(size, Base(word), Displaced(post, displacement))>>,
                      IF loads THEN {tagged} ELSE {}, IF name = "ldgm" THEN {} ELSE {tagged}, "Other"),
                post, index = 3, Base(word))

(* A literal's address is the instruction's own with its displacement. *)
load_literal(word, at) ==
  LET vector == Bit(word, 26)
      opc == field(word, 30, 2)
      displacement == 4 * SignExtended(field(word, 5, 19), 19)
      memory(size) == Memory(size, {}, displacement, Wrapped(at + displacement))
      Loaded(r, size, effect) == Shape("ldr", <<Register(r), memory(size)>>, {r}, {}, effect)
      rt == Rt(word)
  IN CASE vector /\ opc = 3 -> unallocated
       [] vector /\ opc < 3 -> Loaded(vreg(rt, 2^(opc + 2)), 2^(opc + 2), "Move")
       [] ~vector /\ opc = 3 -> Shape("prfm", <<Other("operation"), memory(NoSize)>>, {}, {}, "Other")
       [] ~vector /\ opc = 2 -> Loaded(X(rt), 4, "MoveSigned")
       [] ~vector /\ opc < 2 -> Loaded(gpr(rt, opc = 1, FALSE), 4 + 4 * opc, "Move")

(* A pair: the element's width by the opcode, which means two things by the register file. *)
load_store_pair(word) ==
  LET vector == Bit(word, 26)
      opc == field(word, 30, 2)
      index == field(word, 23, 3)
      load == Bit(word, 22)
      signed == ~vector /\ opc = 1 /\ load
      tagged == ~vector /\ opc = 1 /\ ~load
      register == IF vector THEN 2^(opc + 2) ELSE IF opc = 0 THEN 4 ELSE 8
      scale == IF signed THEN 4 ELSE IF tagged THEN 16 ELSE register
      displacement == scale * SignExtended(field(word, 15, 7), 7)
      one(number) == IF vector THEN vreg(number, register) ELSE gpr(number, register = 8, FALSE)
      r == one(Rt(word))
      r2 == one(field(word, 10, 5))
      post == index = 1
      name == IF index = 0 THEN "np" ELSE IF tagged THEN "stgp" ELSE "p"
  IN IF opc = 3 \/ (~vector /\ opc = 1 /\ index = 0) THEN unallocated
     ELSE Moved(Shape(name, <<Register(r), Register(r2), At(IF signed THEN 8 ELSE 2 * register, Base(word), Displaced(post, displacement))>>,
                      IF load THEN {r, r2} ELSE {}, IF load THEN {} ELSE {r, r2}, "Other"),
                post, index = 3, Base(word))

(* The atomics: a value goes in and the one that was there comes out, unless it is thrown away.   *)
atomic_memory_operation(word) ==
  LET size == field(word, 30, 2)
      acquire == Bit(word, 23)
      release == Bit(word, 22)
      swaps == Bit(word, 15)
      opc == field(word, 12, 3)
      s == gpr(field(word, 16, 5), size = 3, FALSE)
      t == gpr(Rt(word), size = 3, FALSE)
      memory == At(2^size, Base(word), 0)
  IN CASE swaps /\ opc = 4 /\ s.n = 31 /\ acquire /\ ~release -> Shape("ldapr", <<Register(t), memory>>, {t}, {}, "Move")
       [] OTHER ->
          CASE swaps /\ opc # 0 -> unallocated
            [] ~swaps /\ t.n = 31 /\ ~acquire -> Shape("st", <<Register(s), memory>>, {}, {s}, "Other")
            [] OTHER -> Shape(IF swaps THEN "swp" ELSE "ld", <<Register(s), Register(t), memory>>, {t}, {s}, "Other")

(* The exclusives: a store's status is a register of its own, and a compare's first is read and   *)
(* written.  A compared pair names its even halves.                                               *)
load_store_exclusive(word) ==
  LET size == field(word, 30, 2)
      ordered == Bit(word, 23)
      load == Bit(word, 22)
      o1 == Bit(word, 21)
      wide == size = 3
      s == field(word, 16, 5)
      t == field(word, 0, 5)
      rs == gpr(s, wide, FALSE)
      status == gpr(s, FALSE, FALSE)
      rt == gpr(t, wide, FALSE)
      rt2 == gpr(field(word, 10, 5), wide, FALSE)
      memory(bytes) == At(bytes, Base(word), 0)
      half(number) == gpr(number, size = 1, FALSE)
  IN CASE ~ordered /\ ~o1 ->
            IF load THEN Shape("ldxr", <<Register(rt), memory(2^size)>>, {rt}, {}, "Move")
            ELSE Shape("stxr", <<Register(status), Register(rt), memory(2^size)>>, {status}, {rt}, "Other")
       [] ~ordered /\ o1 /\ size > 1 ->
            IF load THEN Shape("ldxp", <<Register(rt), Register(rt2), memory(2^(size + 1))>>, {rt, rt2}, {}, "Other")
            ELSE Shape("stxp", <<Register(status), Register(rt), Register(rt2), memory(2^(size + 1))>>, {status}, {rt, rt2}, "Other")
       [] ~ordered /\ o1 /\ size < 2 ->
            IF s % 2 = 1 \/ t % 2 = 1 THEN unallocated
            ELSE Shape("casp", <<Register(half(s)), Register(half(s + 1)), Register(half(t)), Register(half(t + 1)), memory(8 + 8 * size)>>,
                       {half(s), half(s + 1)}, {half(s), half(s + 1), half(t), half(t + 1)}, "Other")
       [] ordered /\ ~o1 -> Shape("ordered", <<Register(rt), memory(2^size)>>, IF load THEN {rt} ELSE {}, IF load THEN {} ELSE {rt}, "Move")
       [] ordered /\ o1 -> Shape("cas", <<Register(rs), Register(rt), memory(2^size)>>, {rs}, {rs, rt}, "Other")

(* Structures of vectors: how many registers, how wide each one's share, and which merge. *)
structure_element(word, single, replicate) ==
  IF ~single THEN 8 * 2^field(word, 30, 1)
  ELSE IF replicate THEN 2^field(word, 10, 2)
  ELSE IF field(word, 14, 2) < 2 THEN 1 + field(word, 14, 2)
  ELSE 4 * 2^field(word, 10, 1)
StructureCount == [op \in {0, 2, 4, 6, 7, 8, 10} |-> CASE op \in {0, 2} -> 4 [] op \in {4, 6} -> 3 [] op = 7 -> 1 [] op \in {8, 10} -> 2]
vector_structures(word) ==
  LET post == Bit(word, 23)
      load == Bit(word, 22)
      single == Bit(word, 24)
      rm == field(word, 16, 5)
      op == field(word, 12, 4)
      count == IF single THEN 2 * field(word, 13, 1) + field(word, 21, 1) + 1 ELSE StructureCount[op]
      replicate == single /\ field(word, 14, 2) = 3
      merges == load /\ single /\ ~replicate
      list == {vreg((Rt(word) + step) % 32, 16) : step \in 0 .. count - 1}
      memory == At(count * structure_element(word, single, replicate), Base(word), 0)
      by == IF ~post THEN <<>> ELSE IF rm = 31 THEN <<Other("amount")>> ELSE <<Register(X(rm))>>
      out == Shape(IF replicate THEN "structure r" ELSE "structure", <<Other("list"), memory>> \o by, IF load THEN list ELSE {},
                   (IF merges \/ ~load THEN list ELSE {}) \cup (IF post /\ rm # 31 THEN {X(rm)} ELSE {}), "Other")
  IN IF (~post /\ rm # 0) \/ (~single /\ op \notin DOMAIN StructureCount) THEN unallocated
     ELSE IF post THEN Writing(out, Base(word)) ELSE out

(* One register, by each way an address is written. *)
ScaledOffset(word, access) ==
  transfer_operands("r", Rt(word), access, At(access.bytes, Base(word), access.bytes * field(word, 10, 12)))
RegisterOffset(word, access) ==
  IF field(word, 13, 3) \in {0, 1, 4, 5} THEN unallocated
  ELSE transfer_operands("r", Rt(word), access, Memory(access.bytes, {Base(word), gpr(field(word, 16, 5), Bit(word, 13), FALSE)}, 0, -1))
Authenticated(word) ==
  LET d == 8 * SignExtended(512 * field(word, 22, 1) + field(word, 12, 9), 10)
      r == X(Rt(word))
  IN IF Bit(word, 26) \/ field(word, 30, 2) # 3 THEN unallocated
     ELSE Moved(Shape("ldraa", <<Register(r), At(8, Base(word), d)>>, {r}, {}, "Move"), FALSE, Bit(word, 11), Base(word))
(* A prefetch is only unscaled, and an unprivileged transfer never a vector's. *)
Misplaced(access, mode) == (access.prefetch /\ mode # 0) \/ (mode = 2 /\ access.vector)
ShortOffset(word, access, mode) ==
  LET d == SignExtended(field(word, 12, 9), 9)
      post == mode = 1
  IN IF Misplaced(access, mode) THEN unallocated
     ELSE Moved(transfer_operands(IF mode = 2 THEN "tr" ELSE IF mode = 0 THEN "ur" ELSE "r", Rt(word), access, At(access.bytes, Base(word), Displaced(post, d))),
                post, mode = 3, Base(word))
load_store_register(word) ==
  LET vector == Bit(word, 26)
      access == access_of(field(word, 30, 2), field(word, 22, 2), vector)
      by == Bit(word, 21)
      mode == field(word, 10, 2)
  IN CASE field(word, 24, 2) = 1 -> IF access = NoAccess THEN unallocated ELSE ScaledOffset(word, access)
       [] OTHER ->
          CASE by /\ mode = 0 -> IF vector THEN unallocated ELSE atomic_memory_operation(word)
            [] by /\ mode = 2 -> IF access = NoAccess THEN unallocated ELSE RegisterOffset(word, access)
            [] by /\ mode \in {1, 3} -> Authenticated(word)
            [] ~by -> IF access = NoAccess THEN unallocated ELSE ShortOffset(word, access, mode)

loads_and_stores(word, at) ==
  LET slot == field(word, 24, 6)
  IN CASE slot = 8 -> load_store_exclusive(word)
       [] slot \in {12, 13} -> vector_structures(word)
       [] slot \in {24, 28} -> load_literal(word, at)
       [] OTHER ->
          CASE slot \in {25, 29} /\ field(word, 30, 2) = 0 /\ ~Bit(word, 21) /\ field(word, 10, 2) = 1 -> memory_operations(word)
            [] OTHER ->
               CASE slot = 25 -> IF Bit(word, 21) THEN memory_tags(word) ELSE unscaled_acquire(word)
                 [] field(word, 27, 3) = 5 -> load_store_pair(word)
                 [] field(word, 27, 3) = 7 -> load_store_register(word)
                 [] OTHER -> unallocated
=============================================================================
