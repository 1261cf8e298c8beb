-------------------------------- MODULE A64Words --------------------------------
(***************************************************************************)
(* An A64 instruction word, the registers it names and what is recorded of *)
(* it.  A word is its two halves, high first.  A value is the set of its   *)
(* bits that are set; a small one is its number.  Names are stems: what    *)
(* only spells a width or an ordering is left out.                         *)
(***************************************************************************)
EXTENDS Integers, Sequences, FiniteSets

CONSTANT PointerBits     \* the width of an address (external: 64)

field(word, lo, width) ==
  IF lo >= 16 THEN (word[1] \div 2^(lo - 16)) % 2^width
  ELSE IF lo + width <= 16 THEN (word[2] \div 2^lo) % 2^width
  ELSE (word[2] \div 2^lo) + (word[1] % 2^(lo + width - 16)) * 2^(16 - lo)
Bit(word, n) == field(word, n, 1) = 1
SignExtended(value, bits) == IF value >= 2^(bits - 1) THEN value - 2^bits ELSE value
Wrapped(n) == n % 2^PointerBits
(* A displacement counts words, from the instruction itself. *)
relative(at, immediate, bits) == Wrapped(at + 4 * SignExtended(immediate, bits))
BitsOf(n) == {b \in 0 .. 30 : (n \div 2^b) % 2 = 1}
ShiftedBits(n, by) == {b + by : b \in BitsOf(n)}

--------------------------------------------------------------------------------
(* A register is its file and number; 31 is the stack pointer or zero as its position says.       *)
gpr(number, wide, sp) ==
  [file |-> IF number = 31 THEN (IF sp THEN "sp" ELSE "zr") ELSE "x", n |-> number, width |-> IF wide THEN 8 ELSE 4]
vreg(number, bytes) == [file |-> "v", n |-> number, width |-> bytes]
link_register == gpr(30, TRUE, FALSE)
stack_pointer == gpr(31, TRUE, TRUE)
whole(r) == [r EXCEPT !.width = IF r.file = "v" THEN 16 ELSE 8]

(* Operands, in the order an instruction is written with. *)
Register(r) == [kind |-> "Register", register |-> r]
Immediate(n) == [kind |-> "Immediate", value |-> n]
Constant(bits) == [kind |-> "Constant", value |-> bits]
Target(a) == [kind |-> "Target", value |-> a]
Other(what) == [kind |-> "Other", value |-> what]
NoSize == 0
(* Memory: the registers its address is made of, a displacement, and where both are known the     *)
(* address itself; -1 when it is not.                                                             *)
Memory(size, registers, displacement, address) ==
  [kind |-> "Memory", size |-> size, registers |-> registers, value |-> displacement, address |-> address]
At(size, base, displacement) == Memory(size, {base}, displacement, -1)

(* What is recorded: a write of the whole register, a read of it as it is named, an address's     *)
(* registers as reads, and the zero register as neither.                                          *)
State(registers) == {r \in registers : r.file # "zr"}
Shape(name, operands, written, read, effect) ==
  [space |-> "", name |-> name, operands |-> operands, effect |-> effect, condition |-> "None", flags |-> FALSE, privilege |-> "None",
   writes |-> {whole(r) : r \in State(written)},
   reads |-> State(read) \cup State(UNION {operands[i].registers : i \in {i \in DOMAIN operands : operands[i].kind = "Memory"}})]
undecoded(space) == [Shape("", <<>>, {}, {}, "Other") EXCEPT !.space = space]
unallocated == undecoded("unallocated")
Flags(out) == [out EXCEPT !.flags = TRUE]
FlagsIf(sets, out) == IF sets THEN Flags(out) ELSE out
Privileged(out, family) == [out EXCEPT !.privilege = family]
Writing(out, r) == [out EXCEPT !.writes = @ \cup {whole(s) : s \in State({r})}]
Naming(out, operand) == [out EXCEPT !.operands = Append(@, operand)]

(* What a condition field asks of the flags; "always" asks nothing. *)
condition(code) ==
  IF code >= 14 THEN "None"
  ELSE <<"Equal", "NotEqual", "UnsignedAboveOrEqual", "UnsignedBelow", "Negative", "NotNegative", "Overflow", "NotOverflow",
         "UnsignedAbove", "UnsignedBelowOrEqual", "SignedGreaterOrEqual", "SignedLess", "SignedGreater", "SignedLessOrEqual">>[code + 1]
=============================================================================
