------------------------------ MODULE A64Data -------------------------------
(***************************************************************************)
(* A64's data processing (arm64/operand.rs): first against an immediate,   *)
(* then between registers.                                                 *)
(***************************************************************************)
EXTENDS A64Words

-----------------------------------------------------------------------------
(***************************************************************************)
(* A64's data processing against an immediate: addresses, arithmetic,      *)
(* bitmasks, wide moves, and bitfields under the names they go by.         *)
(***************************************************************************)

Wide(word) == Bit(word, 31)
DataSize(wide) == IF wide THEN 64 ELSE 32
Rd(word, sp) == gpr(field(word, 0, 5), Wide(word), sp)
Rn(word, sp) == gpr(field(word, 5, 5), Wide(word), sp)
AsWord(r) == [r EXCEPT !.width = 4]
AsDoubleword(r) == [r EXCEPT !.width = 8]

(* adr and adrp compute an address and read nothing; the second from its page. *)
pc_relative(word, at) ==
  LET delta == SignExtended(4 * field(word, 5, 19) + field(word, 29, 2), 21)
      page == Bit(word, 31)
      d == AsDoubleword(Rd(word, FALSE))
      target == Wrapped(IF page THEN at - (at % 4096) + 4096 * (delta % 2^(PointerBits - 12)) ELSE at + delta)
  IN Shape(IF page THEN "adrp" ELSE "adr", <<Register(d), Memory(NoSize, {}, 0, target)>>, {d}, {}, "LoadAddress")

(* A shifted immediate is the value it stands for; a result thrown away has another name. *)
add_subtract_immediate(word) ==
  LET subtract == Bit(word, 30)
      sets == Bit(word, 29)
      shift == field(word, 22, 2)
      value == ShiftedBits(field(word, 10, 12), 12 * shift)
      rd == field(word, 0, 5)
      d == Rd(word, ~sets)
      n == Rn(word, TRUE)
  IN CASE shift > 1 -> unallocated
       [] OTHER ->
          CASE sets /\ rd = 31 ->
                 Flags(Shape(IF subtract THEN "cmp" ELSE "cmn", <<Register(n), Constant(value)>>, {}, {n}, IF subtract THEN "Compare" ELSE "Other"))
            [] ~sets /\ ~subtract /\ value = {} /\ shift = 0 /\ 31 \in {rd, field(word, 5, 5)} ->
                 Shape("mov sp", <<Register(d), Register(n)>>, {d}, {n}, "Move")
            [] OTHER -> FlagsIf(sets, Shape(IF sets THEN "adds" ELSE "add", <<Register(d), Register(n), Constant(value)>>, {d}, {n},
                                            IF subtract THEN "Subtract" ELSE "Add"))
add_subtract_immediate_tags(word) ==
  IF Bit(word, 22)
  THEN IF field(word, 29, 2) # 0 THEN unallocated
       ELSE LET d == Rd(word, FALSE)
                n == Rn(word, FALSE)
                literal == field(word, 10, 8)
            IN Shape("max", <<Register(d), Register(n), Immediate(IF Bit(word, 18) THEN literal ELSE SignExtended(literal, 8))>>, {d}, {n}, "Other")
  ELSE IF ~Wide(word) THEN unallocated
       ELSE Shape("addg", <<Register(Rd(word, TRUE)), Register(Rn(word, TRUE)), Immediate(16 * field(word, 16, 6)), Immediate(field(word, 10, 4))>>,
                  {Rd(word, TRUE)}, {Rn(word, TRUE)}, "Other")

(* A bitmask: a run of ones in an element, turned right and repeated over the register; the       *)
(* highest bit of N:NOT(imms) is the element's width.                                             *)
NoMask == {-1}
Turned(element, r, esize) == {(b - r) % esize : b \in element}
bitmask_immediate(n, immr, imms, wide) ==
  LET combined == 64 * n + (63 - imms)
      len == CHOOSE k \in 0 .. 7 : combined < 2^k /\ (k = 0 \/ combined >= 2^(k - 1))
      esize == 2^(len - 1)
      s == imms % esize
      element == Turned(0 .. s, immr % esize, esize)
  IN IF len < 2 \/ (~wide /\ n = 1) THEN NoMask
     ELSE IF s = esize - 1 THEN NoMask
     ELSE {b \in 0 .. DataSize(wide) - 1 : b % esize \in element}
LogicalDestination(word) == Rd(word, field(word, 29, 2) # 3)
logical_immediate(word) ==
  LET opc == field(word, 29, 2)
      value == bitmask_immediate(field(word, 22, 1), field(word, 16, 6), field(word, 10, 6), Wide(word))
      d == LogicalDestination(word)
      n == Rn(word, FALSE)
  IN CASE value = NoMask -> unallocated
       [] OTHER ->
          CASE opc = 1 /\ field(word, 5, 5) = 31 -> Shape("mov mask", <<Register(d), Constant(value)>>, {d}, {}, "Move")
            [] opc = 3 /\ field(word, 0, 5) = 31 -> Flags(Shape("tst", <<Register(n), Constant(value)>>, {}, {n}, "Test"))
            [] OTHER -> FlagsIf(opc = 3, Shape(<<"and", "orr", "eor", "ands">>[opc + 1], <<Register(d), Register(n), Constant(value)>>, {d}, {n},
                                               <<"BitAnd", "BitOr", "BitXor", "BitAnd">>[opc + 1]))
move_wide_immediate(word) ==
  LET opc == field(word, 29, 2)
      shift == 16 * field(word, 21, 2)
      immediate == ShiftedBits(field(word, 5, 16), shift)
      d == Rd(word, FALSE)
  IN CASE opc = 1 \/ (~Wide(word) /\ shift >= 32) -> unallocated
       [] OTHER ->
          CASE opc = 0 -> Shape("mov", <<Register(d), Constant((0 .. DataSize(Wide(word)) - 1) \ immediate)>>, {d}, {}, "Move")
            [] opc = 2 -> Shape("mov", <<Register(d), Constant(immediate)>>, {d}, {}, "Move")
            [] OTHER -> Shape("movk", <<Register(d), Constant(immediate)>>, {d}, {d}, "Other")

(* Mutant: the boundary between the two aliases is off by one. *)
Inserts_inclusive(imms, immr) == imms <= immr

(* A bitfield move is read under the alias its two positions make it; each has its own operands.  *)
Inserts(imms, immr) == imms < immr
bitfield(word) ==
  LET wide == Wide(word)
      opc == field(word, 29, 2)
      immr == field(word, 16, 6)
      imms == field(word, 10, 6)
      ds == DataSize(wide)
      d == Rd(word, FALSE)
      n == Rn(word, FALSE)
      up == Immediate((ds - immr) % ds)
      width == Immediate(imms + 1)
      Form(name, from, numbers, effect) == Shape(name, <<Register(d), Register(from)>> \o numbers, {d}, {from}, effect)
      Kept(name, named, numbers) == Shape(name, <<Register(d)>> \o named \o numbers, {d}, {d} \cup {named[i].register : i \in DOMAIN named}, "Other")
      Sign(plain, signed) == IF opc = 0 THEN signed ELSE plain
  IN CASE Bit(word, 22) # wide \/ opc = 3 \/ immr >= ds \/ imms >= ds -> unallocated
       [] OTHER ->
          CASE opc = 1 ->
                 IF ~Inserts(imms, immr) THEN Kept("bfxil", <<Register(n)>>, <<Immediate(immr), Immediate(imms - immr + 1)>>)
                 ELSE IF field(word, 5, 5) = 31 THEN Kept("bfc", <<>>, <<up, width>>)
                 ELSE Kept("bfi", <<Register(n)>>, <<up, width>>)
            [] OTHER ->
                 IF immr = 0 /\ imms = 7 THEN Form(Sign("uxtb", "sxtb"), AsWord(n), <<>>, "Other")
                 ELSE IF immr = 0 /\ imms = 15 THEN Form(Sign("uxth", "sxth"), AsWord(n), <<>>, "Other")
                 ELSE IF immr = 0 /\ imms = 31 /\ wide THEN Form(Sign("uxtw", "sxtw"), AsWord(n), <<>>, Sign("Move", "MoveSigned"))
                 ELSE IF imms = ds - 1 THEN Form(Sign("lsr", "asr"), n, <<Immediate(immr)>>, "ShiftRight")
                 ELSE IF opc = 2 /\ imms + 1 = immr THEN Form("lsl", n, <<Immediate(ds - immr)>>, "ShiftLeft")
                 ELSE IF Inserts(imms, immr) THEN Form(Sign("ubfiz", "sbfiz"), n, <<up, width>>, "Other")
                 ELSE Form(Sign("ubfx", "sbfx"), n, <<Immediate(immr), Immediate(imms - immr + 1)>>, "Other")
extract(word) ==
  LET wide == Wide(word)
      imms == field(word, 10, 6)
      m == gpr(field(word, 16, 5), wide, FALSE)
      d == Rd(word, FALSE)
      n == Rn(word, FALSE)
  IN CASE field(word, 29, 2) # 0 \/ Bit(word, 21) \/ Bit(word, 22) # wide \/ (~wide /\ imms >= 32) -> unallocated
       [] OTHER -> IF n = m THEN Shape("ror", <<Register(d), Register(n), Immediate(imms)>>, {d}, {n}, "Other")
                   ELSE Shape("extr", <<Register(d), Register(n), Register(m), Immediate(imms)>>, {d}, {n, m}, "Other")

data_processing_immediate(word, at) ==
  LET class == field(word, 23, 3)
  IN CASE class \in {0, 1} -> pc_relative(word, at)
       [] class = 2 -> add_subtract_immediate(word)
       [] class = 3 -> add_subtract_immediate_tags(word)
       [] class = 4 -> logical_immediate(word)
       [] class = 5 -> move_wide_immediate(word)
       [] class = 6 -> bitfield(word)
       [] class = 7 -> extract(word)

-----------------------------------------------------------------------------
(***************************************************************************)
(* A64's data processing between registers, and the part of the vector and *)
(* floating-point space that reaches a general-purpose register or the     *)
(* flags.                                                                  *)
(***************************************************************************)

Rm(word, sp) == gpr(field(word, 16, 5), Wide(word), sp)
(* A modifier the operands cannot carry is named, and then the effect is not claimed. *)
finish_modifier(out, modified, effect) == IF modified THEN Naming(out, Other("modifier")) ELSE [out EXCEPT !.effect = effect]
shift_modifier(amount) == amount # 0
Two(name, a, b) == Shape(name, <<Register(a), Register(b)>>, {}, {a, b}, "Other")
Into(name, d, a) == Shape(name, <<Register(d), Register(a)>>, {d}, {a}, "Other")
IntoTwo(name, d, a, b) == Shape(name, <<Register(d), Register(a), Register(b)>>, {d}, {a, b}, "Other")

logical_shifted_register(word) ==
  LET opc == field(word, 29, 2)
      negated == Bit(word, 21)
      amount == field(word, 10, 6)
      modified == shift_modifier(amount)
      d == Rd(word, FALSE)
      n == Rn(word, FALSE)
      m == Rm(word, FALSE)
  IN CASE ~Wide(word) /\ amount >= 32 -> unallocated
       [] OTHER ->
          CASE opc = 1 /\ ~negated /\ n.n = 31 /\ field(word, 22, 2) = 0 /\ ~modified -> [Into("mov", d, m) EXCEPT !.effect = "Move"]
            [] opc = 1 /\ negated /\ n.n = 31 -> finish_modifier(Into("mvn", d, m), modified, "Other")
            [] opc = 3 /\ ~negated /\ d.n = 31 -> Flags(finish_modifier(Two("tst", n, m), modified, "Test"))
            [] OTHER -> FlagsIf(opc = 3, finish_modifier(IntoTwo("logical", d, n, m), modified,
                                  IF negated THEN "Other" ELSE <<"BitAnd", "BitOr", "BitXor", "BitAnd">>[opc + 1]))
Sum(word, d, n, m, modified) ==
  finish_modifier(IntoTwo("sum", d, n, m), modified, IF Bit(word, 30) THEN "Subtract" ELSE "Add")
Compared(word, n, m, modified) ==
  IF Bit(word, 30) THEN finish_modifier(Two("cmp", n, m), modified, "Compare") ELSE finish_modifier(Two("cmn", n, m), modified, "Other")
add_subtract_shifted_register(word) ==
  LET sets == Bit(word, 29)
      amount == field(word, 10, 6)
      modified == shift_modifier(amount)
      d == Rd(word, FALSE)
      n == Rn(word, FALSE)
      m == Rm(word, FALSE)
  IN IF field(word, 22, 2) = 3 \/ (~Wide(word) /\ amount >= 32) THEN unallocated
     ELSE FlagsIf(sets, CASE sets /\ d.n = 31 -> Compared(word, n, m, modified)
                          [] ~(sets /\ d.n = 31) /\ Bit(word, 30) /\ n.n = 31 -> finish_modifier(Into("neg", d, m), modified, "Other")
                          [] OTHER -> Sum(word, d, n, m, modified))
(* An extension the register's own width already says is not a modifier. *)
add_subtract_extended_register(word) ==
  LET sets == Bit(word, 29)
      amount == field(word, 10, 3)
      option == field(word, 13, 3)
      modified == ~(amount = 0 /\ option \in {2, 3})
      d == Rd(word, ~sets)
      n == Rn(word, TRUE)
      m == gpr(field(word, 16, 5), Wide(word) /\ option % 4 = 3, FALSE)
  IN IF field(word, 22, 2) # 0 \/ amount > 4 THEN unallocated
     ELSE FlagsIf(sets, IF sets /\ d.n = 31 THEN Compared(word, n, m, modified) ELSE Sum(word, d, n, m, modified))
add_subtract_with_carry(word) ==
  LET subtract == Bit(word, 30)
      d == Rd(word, FALSE)
      n == Rn(word, FALSE)
      m == Rm(word, FALSE)
  IN FlagsIf(Bit(word, 29),
       IF subtract /\ n.n = 31 THEN Into("ngc", d, m)
       ELSE [IntoTwo("carry", d, n, m) EXCEPT !.effect = IF subtract THEN "Subtract" ELSE "Add"])
conditional_compare(word) ==
  LET n == Rn(word, FALSE)
      m == Rm(word, FALSE)
      literal == <<Immediate(field(word, 0, 4))>>
      out == IF Bit(word, 11) THEN Shape("ccmp", <<Register(n), Immediate(field(word, 16, 5))>> \o literal, {}, {n}, "Other")
             ELSE Shape("ccmp", <<Register(n), Register(m)>> \o literal, {}, {n, m}, "Other")
  IN IF ~Bit(word, 29) \/ Bit(word, 10) \/ Bit(word, 4) THEN unallocated
     ELSE Flags([out EXCEPT !.condition = condition(field(word, 12, 4))])
(* A selection's aliases ask the opposite of what is encoded. *)
invert(code) == IF code % 2 = 0 THEN code + 1 ELSE code - 1
conditional_select(word) ==
  LET kind == 2 * field(word, 30, 1) + field(word, 10, 2) + 1
      code == field(word, 12, 4)
      d == Rd(word, FALSE)
      n == Rn(word, FALSE)
      m == Rm(word, FALSE)
      aliasable == code < 14
      Asking(out, c) == [out EXCEPT !.condition = condition(c)]
  IN CASE Bit(word, 29) \/ field(word, 10, 2) > 1 -> unallocated
       [] OTHER ->
          CASE aliasable /\ kind \in {2, 3} /\ n.n = 31 /\ m.n = 31 ->
                 Asking(Shape(<<"", "cset", "csetm">>[kind], <<Register(d)>>, {d}, {}, "Other"), invert(code))
            [] aliasable /\ kind # 1 /\ n = m /\ ~(kind \in {2, 3} /\ n.n = 31) ->
                 Asking(Into(<<"", "cinc", "cinv", "cneg">>[kind], d, n), invert(code))
            [] OTHER -> Asking(IntoTwo(<<"csel", "csinc", "csinv", "csneg">>[kind], d, n, m), code)

TwoSource ==
  [op \in {0, 2, 3, 4, 5} \cup (8 .. 12) \cup (16 .. 27) |->
     CASE op = 0 -> "subp" [] op \in {2, 3} -> "div" [] op = 4 -> "irg" [] op = 5 -> "gmi" [] op = 8 -> "lsl" [] op \in {9, 10} -> "lsr"
       [] op = 11 -> "ror" [] op = 12 -> "pacga" [] op \in 16 .. 23 -> "crc32" [] op \in 24 .. 27 -> "max"]
data_processing_two_source(word) ==
  LET op == field(word, 10, 6)
      sets == Bit(word, 29)
      name == TwoSource[op]
      d == Rd(word, name = "irg")
      n == Rn(word, name \in {"irg", "gmi", "subp"})
      m == Rm(word, name \in {"subp", "pacga"})
  IN CASE (sets /\ ~(Wide(word) /\ op = 0)) \/ op \notin DOMAIN TwoSource -> unallocated
       [] OTHER ->
          CASE sets -> Flags(IntoTwo("subps", Rd(word, FALSE), Rn(word, TRUE), Rm(word, TRUE)))
            [] ~sets /\ name = "crc32" -> IntoTwo(name, AsWord(Rd(word, FALSE)), AsWord(Rn(word, FALSE)),
                                                  gpr(field(word, 16, 5), op \in {19, 23}, FALSE))
            [] OTHER -> [IntoTwo(name, d, n, m) EXCEPT !.effect = CASE name = "lsl" -> "ShiftLeft" [] name = "lsr" -> "ShiftRight" [] OTHER -> "Other"]
(* Reversals and counts; and signing a pointer in place, which reads what it writes. *)
data_processing_one_source(word) ==
  LET op == field(word, 10, 6)
      d == Rd(word, FALSE)
      by == Rn(word, TRUE)
      class == field(word, 16, 5)
  IN CASE Bit(word, 29) -> unallocated
       [] ~Bit(word, 29) /\ class = 0 ->
            IF op \in 0 .. 8 /\ (op = 3 => Wide(word)) THEN Into("one", d, Rn(word, FALSE)) ELSE unallocated
       [] ~Bit(word, 29) /\ class = 1 /\ Wide(word) /\ op <= 17 ->
            IF op >= 8 THEN Shape("pac", <<Register(d)>>, {d}, {d}, "Other")
            ELSE Shape("pac", <<Register(d), Register(by)>>, {d}, {d, by}, "Other")
       [] OTHER -> unallocated
(* Multiplies: adding to the zero register is a plain one. *)
data_processing_three_source(word) ==
  LET wide == Wide(word)
      op31 == field(word, 21, 3)
      high == op31 \in {2, 6}
      widening == op31 # 0
      d == Rd(word, FALSE)
      source(lo) == gpr(field(word, lo, 5), wide /\ (high \/ ~widening), FALSE)
      a == gpr(field(word, 10, 5), wide, FALSE)
  IN IF field(word, 29, 2) # 0 \/ op31 \notin {0, 1, 2, 5, 6} \/ (high /\ Bit(word, 15)) \/ (widening /\ ~wide) THEN unallocated
     ELSE IF high \/ a.n = 31 THEN IntoTwo("mul", d, source(5), source(16))
     ELSE Shape("madd", <<Register(d), Register(source(5)), Register(source(16)), Register(a)>>, {d}, {source(5), source(16), a}, "Other")
FlagWriter(word) ==
  LET op3 == field(word, 10, 6)
      n == AsDoubleword(Rn(word, FALSE))
  IN CASE op3 = 0 -> add_subtract_with_carry(word)
       [] op3 % 32 = 1 -> Flags(Shape("rmif", <<Register(n), Immediate(field(word, 15, 6)), Immediate(field(word, 0, 4))>>, {}, {n}, "Other"))
       [] op3 % 16 = 2 -> Flags(Shape("setf", <<Register(AsWord(n))>>, {}, {AsWord(n)}, "Other"))
       [] OTHER -> unallocated
data_processing_register(word) ==
  LET op2 == field(word, 21, 4)
  IN CASE ~Bit(word, 28) ->
            IF op2 < 8 THEN logical_shifted_register(word)
            ELSE IF op2 % 2 = 0 THEN add_subtract_shifted_register(word) ELSE add_subtract_extended_register(word)
       [] Bit(word, 28) /\ op2 = 0 -> FlagWriter(word)
       [] Bit(word, 28) /\ op2 = 2 -> conditional_compare(word)
       [] Bit(word, 28) /\ op2 = 4 -> conditional_select(word)
       [] Bit(word, 28) /\ op2 = 6 -> IF Bit(word, 30) THEN data_processing_one_source(word) ELSE data_processing_two_source(word)
       [] Bit(word, 28) /\ op2 >= 8 -> data_processing_three_source(word)
       [] OTHER -> unallocated

--------------------------------------------------------------------------------
(* The vector and floating-point space, as far as its boundary. *)
V(number) == vreg(number, 16)
float_width == [kind \in {0, 1, 3} |-> CASE kind = 0 -> 4 [] kind = 1 -> 8 [] kind = 3 -> 2]
(* A conversion's direction is its opcode; the upper-lane moves keep the other lane. *)
float_integer_conversion(word) ==
  LET kind == field(word, 22, 2)
      rmode == field(word, 19, 2)
      opcode == field(word, 16, 3)
      d == field(word, 0, 5)
      n == field(word, 5, 5)
      lane == Other("lane")
      exact == rmode = 3 /\ opcode = 6 /\ kind = 1 /\ ~Wide(word)
      known == (rmode = 0) \/ (rmode \in 1 .. 3 /\ opcode \in {0, 1}) \/ exact
      effect == IF rmode = 0 /\ opcode \in {6, 7} THEN "Move" ELSE "Other"
      name == IF effect = "Move" THEN "fmov" ELSE "convert"
      v(number) == vreg(number, float_width[kind])
      x == Rd(word, FALSE)
      from == Rn(word, FALSE)
  IN CASE Bit(word, 29) -> unallocated
       [] ~Bit(word, 29) /\ kind = 2 ->
            (CASE rmode = 1 /\ Wide(word) /\ opcode = 6 -> Shape("fmov", <<Register(x), lane>>, {x}, {V(n)}, "Move")
               [] rmode = 1 /\ Wide(word) /\ opcode = 7 -> Shape("fmov", <<lane, Register(from)>>, {V(d)}, {from, V(d)}, "Other")
               [] OTHER -> unallocated)
       [] OTHER ->
            IF ~known THEN unallocated
            ELSE FlagsIf(exact, IF opcode \in {2, 3, 7} THEN [Into(name, v(d), from) EXCEPT !.effect = effect]
                                ELSE [Into(name, x, v(n)) EXCEPT !.effect = effect])
float_fixed_conversion(word) ==
  LET kind == field(word, 22, 2)
      scale == field(word, 10, 6)
      direction == <<field(word, 19, 2), field(word, 16, 3)>>
      v(lo) == vreg(field(word, lo, 5), float_width[kind])
      fraction == Immediate(64 - scale)
  IN CASE Bit(word, 29) \/ kind = 2 \/ (~Wide(word) /\ scale < 32) -> unallocated
       [] OTHER ->
          CASE direction \in {<<3, 0>>, <<3, 1>>} -> Naming(Into("convert", Rd(word, FALSE), v(5)), fraction)
            [] direction \in {<<0, 2>>, <<0, 3>>} -> Naming(Into("convert", v(0), Rn(word, FALSE)), fraction)
            [] OTHER -> unallocated
float_compare(word) ==
  LET v(lo) == vreg(field(word, lo, 5), float_width[field(word, 22, 2)])
  IN IF Bit(word, 31) \/ Bit(word, 29) \/ field(word, 22, 2) = 2 \/ field(word, 0, 3) # 0 THEN unallocated
     ELSE Flags(IF Bit(word, 3) THEN Shape("fcmp", <<Register(v(5)), Other("zero")>>, {}, {v(5)}, "Other") ELSE Two("fcmp", v(5), v(16)))
float_conditional_compare(word) ==
  LET v(lo) == vreg(field(word, lo, 5), float_width[field(word, 22, 2)])
  IN IF Bit(word, 31) \/ Bit(word, 29) \/ field(word, 22, 2) = 2 THEN unallocated
     ELSE Flags([Naming(Two("fccmp", v(5), v(16)), Immediate(field(word, 0, 4))) EXCEPT !.condition = condition(field(word, 12, 4))])
vector_copy(word) ==
  LET imm5 == field(word, 16, 5)
      doubleword == imm5 = 8 \/ imm5 = 24
      d == field(word, 0, 5)
      n == field(word, 5, 5)
      way == field(word, 11, 4)
      lane == Other("lane")
      from == gpr(n, doubleword, FALSE)
  IN CASE imm5 \in {0, 16} -> unallocated
       [] OTHER ->
          CASE way = 0 -> Shape("dup", <<Other("vector"), lane>>, {V(d)}, {V(n)}, "Other")
            [] way = 1 -> Shape("dup", <<Other("vector"), Register(from)>>, {V(d)}, {from}, "Other")
            [] way = 3 -> Shape("ins", <<lane, Register(from)>>, {V(d)}, {from, V(d)}, "Other")
            [] way = 5 -> Shape("smov", <<Register(gpr(d, Bit(word, 30), FALSE)), lane>>, {gpr(d, Bit(word, 30), FALSE)}, {V(n)}, "MoveSigned")
            [] way = 7 -> Shape("umov", <<Register(gpr(d, doubleword, FALSE)), lane>>, {gpr(d, doubleword, FALSE)}, {V(n)}, "Move")
            [] OTHER -> undecoded("advanced-simd")
simd_and_floating_point(word) ==
  LET op3 == field(word, 10, 6)
  IN CASE ~Bit(word, 31) /\ field(word, 21, 9) = 112 /\ ~Bit(word, 15) /\ Bit(word, 10) -> vector_copy(word)
       [] ~Bit(word, 30) /\ field(word, 24, 5) = 30 ->
            (CASE ~Bit(word, 21) -> float_fixed_conversion(word)
               [] Bit(word, 21) /\ op3 = 0 -> float_integer_conversion(word)
               [] Bit(word, 21) /\ op3 = 8 -> float_compare(word)
               [] Bit(word, 21) /\ op3 % 4 = 1 -> float_conditional_compare(word)
               [] OTHER -> undecoded("floating-point"))
       [] OTHER -> IF ~Bit(word, 30) /\ field(word, 25, 4) = 15 THEN undecoded("floating-point") ELSE undecoded("advanced-simd")
=============================================================================
