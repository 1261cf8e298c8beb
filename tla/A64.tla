-------------------------------- MODULE A64 ---------------------------------
(***************************************************************************)
(* A64 words (arm64.rs, arm64/operand.rs): first the branches, exceptions  *)
(* and system instructions, whose flow is decoded apart from their         *)
(* operands; then a whole word. Data processing is A64Data's and memory    *)
(* A64Memory's.                                                            *)
(***************************************************************************)
EXTENDS A64Data, A64Memory, Flows

-----------------------------------------------------------------------------
(***************************************************************************)
(* A64's branches, exceptions and system instructions: where each sends    *)
(* control, read one way by flow and another by the operand decoder, and   *)
(* which of them needs privilege.                                          *)
(***************************************************************************)

NoTarget == <<>>
To(at, immediate, bits) == <<relative(at, immediate, bits)>>
Trap == <<"Trap">>

(* flow: a word by its class; what a class does not allocate stops, and what is in none goes on.  *)
Always(code) == code >= 14
ConditionalFlow(word, at) ==
  IF Bit(word, 24) THEN Trap
  ELSE IF Always(field(word, 0, 4)) THEN <<"Jmp", To(at, field(word, 5, 19), 19)>>
  ELSE <<"Branch", To(at, field(word, 5, 19), 19)>>
RegisterFlow(word) ==
  LET opc == field(word, 21, 4)
  IN IF field(word, 16, 5) # 31 \/ field(word, 10, 6) \notin {0, 2, 3} THEN Trap
     ELSE CASE opc \in {0, 8} -> <<"Jmp", NoTarget>> [] opc \in {1, 9} -> <<"Call", NoTarget>>
            [] opc \in {2, 4, 5} -> <<"Return">> [] OTHER -> Trap
SystemCall(word) == field(word, 21, 3) = 0 /\ field(word, 2, 3) = 0 /\ field(word, 0, 2) \in 1 .. 3
flow(word, at) ==
  CASE field(word, 26, 5) = 5 -> <<IF Bit(word, 31) THEN "Call" ELSE "Jmp", To(at, field(word, 0, 26), 26)>>
    [] field(word, 25, 7) = 42 -> ConditionalFlow(word, at)
    [] field(word, 25, 6) = 26 -> <<"Branch", To(at, field(word, 5, 19), 19)>>
    [] field(word, 25, 6) = 27 -> <<"Branch", To(at, field(word, 5, 14), 14)>>
    [] field(word, 25, 7) = 107 -> RegisterFlow(word)
    [] field(word, 24, 8) = 212 -> IF SystemCall(word) THEN <<"Fallthrough">> ELSE Trap
    [] field(word, 25, 4) = 0 -> Trap
    [] OTHER -> <<"Fallthrough">>

--------------------------------------------------------------------------------
conditional_branch(word, at) ==
  IF Bit(word, 24) THEN unallocated
  ELSE [Shape(IF Bit(word, 4) THEN "bc" ELSE "b", <<Target(relative(at, field(word, 5, 19), 19))>>, {}, {}, "Other")
          EXCEPT !.condition = condition(field(word, 0, 4))]
branch_immediate(word, at) ==
  LET target == <<Target(relative(at, field(word, 0, 26), 26))>>
  IN IF Bit(word, 31) THEN Shape("bl", target, {link_register}, {}, "Other") ELSE Shape("b", target, {}, {}, "Other")
compare_and_branch(word, at) ==
  LET r == gpr(field(word, 0, 5), Bit(word, 31), FALSE)
  IN Shape(IF Bit(word, 24) THEN "cbnz" ELSE "cbz", <<Register(r), Target(relative(at, field(word, 5, 19), 19))>>, {}, {r}, "Other")
(* The bit number's top bit is the operand's width as well. *)
test_and_branch(word, at) ==
  LET bit == 32 * field(word, 31, 1) + field(word, 19, 5)
      r == gpr(field(word, 0, 5), bit >= 32, FALSE)
  IN Shape(IF Bit(word, 24) THEN "tbnz" ELSE "tbz",
           <<Register(r), Immediate(bit), Target(relative(at, field(word, 5, 14), 14))>>, {}, {r}, "Other")

(* Branches to a register: a field a form does not use is one the architecture fixes. *)
branch_register(word) ==
  LET op3 == field(word, 10, 6)
      op4 == field(word, 0, 5)
      rn == field(word, 5, 5)
      opc == field(word, 21, 4)
      key == op3 # 0
      modifier == opc >= 8
      fixed == IF key THEN 31 ELSE 0
      to == gpr(rn, TRUE, FALSE)
      by == gpr(op4, TRUE, TRUE)
      named == IF modifier THEN <<Register(to), Register(by)>> ELSE <<Register(to)>>
      read == IF modifier THEN {to, by} ELSE {to}
  IN CASE field(word, 16, 5) # 31 \/ op3 \notin {0, 2, 3} \/ (modifier /\ ~key) -> unallocated
       [] OTHER ->
          CASE opc \in {0, 8} /\ (modifier \/ op4 = fixed) -> Shape("br", named, {}, read, "Other")
            [] opc \in {1, 9} /\ (modifier \/ op4 = fixed) -> Shape("blr", named, {link_register}, read, "Other")
            [] opc = 2 /\ op4 = fixed /\ (key => rn = 31) ->
                 IF key THEN Shape("reta", <<>>, {}, {link_register, stack_pointer}, "Other")
                 ELSE Shape("ret", IF rn = 30 THEN <<>> ELSE <<Register(to)>>, {}, {to}, "Other")
            [] opc = 4 /\ op4 = fixed /\ rn = 31 ->
                 Privileged(Shape("eret", <<>>, {}, IF key THEN {stack_pointer} ELSE {}, "Other"), "Other")
            [] opc = 5 /\ ~key /\ rn = 31 /\ op4 = 0 -> Privileged(Shape("drps", <<>>, {}, {}, "Other"), "Other")
            [] OTHER -> unallocated

exception(word) ==
  LET opc == field(word, 21, 3)
      ll == field(word, 0, 2)
      Raised(name) == Shape(name, <<Immediate(field(word, 5, 16))>>, {}, {}, "Other")
  IN CASE field(word, 2, 3) # 0 -> unallocated
       [] OTHER ->
          CASE opc = 0 /\ ll = 1 -> Raised("svc")
            [] opc = 0 /\ ll \in {2, 3} -> Privileged(Raised(IF ll = 2 THEN "hvc" ELSE "smc"), "Virtualization")
            [] opc \in 1 .. 3 /\ ll = 0 -> Raised(<<"brk", "hlt", "tcancel">>[opc])
            [] opc = 5 /\ ll # 0 -> Privileged(Raised("dcps"), "Other")
            [] OTHER -> unallocated

--------------------------------------------------------------------------------
(* The system class. *)
privileged_level(op1) == op1 # 3
interrupt_mask(op0, op1, crn, crm, op2) == op0 = 3 /\ op1 = 3 /\ crn = 4 /\ crm = 2 /\ op2 = 1
all_interrupts_mask(op0, op1, crn, crm, op2) == op0 = 3 /\ op1 = 0 /\ crn = 4 /\ crm = 3 /\ op2 = 0
implementation_defined(op0, crn) == op0 = 3 /\ crn \in {11, 15}
(* The cache, TLB and translation operations: the cell says which, and of its operations these    *)
(* op1:op2 pairs are allocated.                                                                   *)
Cell(name, pairs) == [name |-> name, pairs |-> pairs]
Cells(crn, crm) ==
  CASE crn = 7 /\ crm = 1 -> Cell("ic", {0})
    [] crn = 7 /\ crm = 4 -> Cell("dc", {25, 27, 28, 29, 31})
    [] crn = 7 /\ crm = 5 -> Cell("ic", {0, 25})
    [] crn = 7 /\ crm = 6 -> Cell("dc", 1 .. 6)
    [] crn = 7 /\ crm = 8 -> Cell("at", (0 .. 3) \cup {32, 33, 48, 49} \cup (36 .. 39))
    [] crn = 7 /\ crm = 9 -> Cell("at", {0, 1, 2, 34, 50})
    [] crn = 7 /\ crm = 10 -> Cell("dc", {2, 4, 6, 25, 27, 29})
    [] crn = 7 /\ crm = 11 -> Cell("dc", {24, 25, 31})
    [] crn = 7 /\ crm \in {12, 13} -> Cell("dc", {25, 27, 29})
    [] crn = 7 /\ crm = 14 -> Cell("dc", {2, 4, 6, 25, 27, 29, 32, 39, 49, 53})
    [] crn = 7 /\ crm = 15 -> Cell("dc", {1, 5, 24, 31})
    [] crn \in {8, 9} /\ crm = 0 -> Cell("tlbi", {33, 34, 37, 38})
    [] crn \in {8, 9} /\ crm \in {1, 7} -> Cell("tlbi", {0, 1, 2, 3, 5, 7, 32, 33, 36, 37, 38, 48, 49, 52, 53})
    [] crn \in {8, 9} /\ crm \in {2, 5, 6} -> Cell("tlbi", {1, 3, 5, 7, 33, 34, 37, 49, 53})
    [] crn \in {8, 9} /\ crm = 3 -> Cell("tlbi", {0, 1, 2, 3, 5, 7, 32, 33, 36, 37, 38, 48, 49, 53})
    [] crn \in {8, 9} /\ crm = 4 -> Cell("tlbi", (32 .. 39) \cup {51, 55})
    [] OTHER -> Cell("sys", {})
maintenance(load, crn, crm, op1, op2) ==
  IF ~load /\ 8 * op1 + op2 \in Cells(crn, crm).pairs THEN Cells(crn, crm).name ELSE IF load THEN "sysl" ELSE "sys"

(* A hint names no register; those that sign or authenticate one change it all the same. *)
hint(number) ==
  LET ip0 == gpr(16, TRUE, FALSE)
      ip1 == gpr(17, TRUE, FALSE)
  IN CASE number = 7 -> Shape("xpaclri", <<>>, {link_register}, {link_register}, "Other")
       [] number \in {8, 10, 12, 14} -> Shape("pac1716", <<>>, {ip1}, {ip1, ip0}, "Other")
       [] number \in 24 .. 31 ->
            Shape("paclr", <<>>, {link_register}, IF number % 2 = 1 THEN {link_register, stack_pointer} ELSE {link_register}, "Other")
       [] number \in (0 .. 6) \cup (16 .. 20) \cup {22, 32, 34, 36, 38} -> Shape("named", <<>>, {}, {}, "Other")
       [] OTHER -> Shape("hint", <<Immediate(number)>>, {}, {}, "Other")
barrier(crm, op2) ==
  IF op2 \notin {2, 4, 5, 6, 7} THEN unallocated
  ELSE Shape(<<"clrex", "", IF crm \in {0, 4} THEN "ssbb" ELSE "dsb", "dmb", "isb", "sb">>[op2 - 1],
             IF op2 = 7 \/ (op2 = 4 /\ crm \in {0, 4}) THEN <<>> ELSE <<Immediate(crm)>>, {}, {}, "Other")
(* A field of the processor's state, by op1:op2. *)
PstateFields ==
  {<<0, 0, "cfinv">>, <<0, 1, "xaflag">>, <<0, 2, "axflag">>, <<0, 3, "uao">>, <<0, 4, "pan">>, <<0, 5, "spsel">>, <<1, 0, "allint">>,
   <<3, 1, "ssbs">>, <<3, 2, "dit">>, <<3, 4, "tco">>, <<3, 6, "daifset">>, <<3, 7, "daifclr">>}
FieldFamily(op1, op2) ==
  CASE (op1 = 3 /\ op2 \in {6, 7}) \/ (op1 = 1 /\ op2 = 0) -> "InterruptFlag"
    [] privileged_level(op1) -> "ControlRegister"
    [] OTHER -> "None"
pstate(op1, crm, op2) ==
  IF ~\E f \in PstateFields : f[1] = op1 /\ f[2] = op2 THEN unallocated
  ELSE LET name == (CHOOSE f \in PstateFields : f[1] = op1 /\ f[2] = op2)[3]
       IN IF op1 = 0 /\ op2 <= 2 THEN (IF crm = 0 THEN Flags(Shape(name, <<>>, {}, {}, "Other")) ELSE unallocated)
          ELSE Privileged(Shape("msr", <<Other(name), Immediate(crm)>>, {}, {}, "Other"), FieldFamily(op1, op2))
RegisterFamily(op0, op1, crn, crm, op2) ==
  IF interrupt_mask(op0, op1, crn, crm, op2) \/ all_interrupts_mask(op0, op1, crn, crm, op2) THEN "InterruptFlag"
  ELSE IF ~privileged_level(op1) THEN "None"
  ELSE IF implementation_defined(op0, crn) THEN "ModelSpecificRegister" ELSE "ControlRegister"
(* Every operation of the sys family is gated by privilege, whatever its op1. *)
SystemOperation(load, rt, op1, crn, crm, op2) ==
  LET name == maintenance(load, crn, crm, op1, op2)
      r == gpr(rt, TRUE, FALSE)
      named == <<Register(r)>>
      numbers == <<Immediate(op1), Immediate(crn), Immediate(crm), Immediate(op2)>>
  IN Privileged(Shape(name, IF load THEN named \o numbers ELSE IF rt = 31 THEN numbers ELSE numbers \o named,
                      IF load THEN {r} ELSE {}, IF load THEN {} ELSE {r}, "Other"),
                IF name \in {"ic", "dc", "tlbi"} THEN "CacheOrTlb" ELSE "Other")
SystemRegister(load, rt, op0, op1, crn, crm, op2) ==
  LET r == gpr(rt, TRUE, FALSE)
  IN FlagsIf(~load /\ op0 = 3 /\ op1 = 3 /\ crn = 4 /\ crm = 2 /\ op2 = 0,
       Privileged(IF load THEN Shape("mrs", <<Register(r), Other(<<op0, op1, crn, crm, op2>>)>>, {r}, {}, "Other")
                  ELSE Shape("msr", <<Other(<<op0, op1, crn, crm, op2>>), Register(r)>>, {}, {r}, "Other"),
                  RegisterFamily(op0, op1, crn, crm, op2)))
system(word) ==
  LET load == Bit(word, 21)
      op0 == field(word, 19, 2)
      op1 == field(word, 16, 3)
      crn == field(word, 12, 4)
      crm == field(word, 8, 4)
      op2 == field(word, 5, 3)
      rt == field(word, 0, 5)
  IN CASE op0 = 0 ->
            (CASE load -> unallocated
               [] ~load /\ crn = 2 /\ op1 = 3 /\ rt = 31 -> hint(8 * crm + op2)
               [] ~load /\ crn = 3 -> barrier(crm, op2)
               [] ~load /\ crn = 4 /\ rt = 31 -> pstate(op1, crm, op2)
               [] OTHER -> unallocated)
       [] op0 = 1 -> SystemOperation(load, rt, op1, crn, crm, op2)
       [] OTHER -> SystemRegister(load, rt, op0, op1, crn, crm, op2)

branch_exception_system(word, at) ==
  LET op0 == field(word, 29, 3)
      op1 == field(word, 22, 4)
  IN CASE op0 = 2 /\ op1 < 8 -> conditional_branch(word, at)
       [] op0 = 6 /\ op1 < 4 -> exception(word)
       [] op0 = 6 /\ op1 = 4 -> system(word)
       [] op0 = 6 /\ op1 >= 8 -> branch_register(word)
       [] op0 % 4 = 0 -> branch_immediate(word, at)
       [] op0 % 4 = 1 -> IF op1 < 8 THEN compare_and_branch(word, at) ELSE test_and_branch(word, at)
       [] OTHER -> unallocated

-----------------------------------------------------------------------------
(***************************************************************************)
(* One A64 word read: where it sends control, and everything else about    *)
(* it.  A fetched word is decoded once, as arm64::operand::decode does;    *)
(* the scalable-vector spaces come back named and unread.                  *)
(***************************************************************************)

CONSTANT Fetches   \* groups of words by their high and low halves, and the addresses they are at: [high, low, at]
VARIABLES fetched, shaped
a64Vars == <<fetched, shaped>>

NotShaped == [kind |-> "unread"]
decode(word, at) ==
  LET op0 == field(word, 25, 4)
  IN CASE op0 = 0 -> IF word[1] = 0 THEN Shape("udf", <<Immediate(word[2])>>, {}, {}, "Other") ELSE undecoded("reserved")
       [] op0 \in {1, 3} -> unallocated
       [] op0 = 2 -> undecoded("sve")
       [] op0 \in {8, 9} -> data_processing_immediate(word, at)
       [] op0 \in {10, 11} -> branch_exception_system(word, at)
       [] op0 \in {4, 6, 12, 14} -> loads_and_stores(word, at)
       [] op0 \in {5, 13} -> data_processing_register(word)
       [] op0 \in {7, 15} -> simd_and_floating_point(word)

A64Init ==
  /\ \E f \in Fetches : \E hi \in f.high, lo \in f.low, at \in f.at : fetched = [word |-> <<hi, lo>>, at |-> at]
  /\ shaped = NotShaped
DecodeWord ==
  /\ shaped = NotShaped
  /\ shaped' = [kind |-> "read", flow |-> flow(fetched.word, fetched.at), out |-> decode(fetched.word, fetched.at)]
  /\ UNCHANGED fetched
A64Next == DecodeWord

--------------------------------------------------------------------------------
Read == shaped.kind = "read"
Out == shaped.out
Known == Out.space = ""
Word == fetched.word
Class == field(Word, 25, 4)
OperandsOf(kind) == {Out.operands[i] : i \in {i \in DOMAIN Out.operands : Out.operands[i].kind = kind}}
GoesTo == {TargetOf(shaped.flow)[i] : i \in DOMAIN TargetOf(shaped.flow)}

(* The flow and the operands are read apart and say the same transfer: the target an instruction  *)
(* names is where its flow goes, only a call among the branches writes the link register, and a   *)
(* branch asks the flags exactly when its flow may go either way by them.                         *)
TransferIsDecoded ==
  Read /\ Known =>
    /\ {o.value : o \in OperandsOf("Target")} = GoesTo
    /\ Class \in {10, 11} /\ field(Word, 22, 10) # 852 =>
         (link_register \in Out.writes <=> shaped.flow[1] = "Call")
    /\ Class \in {10, 11} => (Out.condition # "None" <=> shaped.flow[1] = "Branch" /\ field(Word, 29, 3) = 2)
Stopping == {"udf", "brk", "hlt", "tcancel", "dcps"}
(* What the architecture does not define never goes on: a word left unread among the reserved,    *)
(* the exceptions and the conditional branches stops, no unread word is followed to a target, and *)
(* of those that are read only the ones that raise stop.                                          *)
UndefinedStops ==
  Read =>
    /\ ~Known /\ (Class = 0 \/ field(Word, 24, 8) \in {84, 85, 212}) => shaped.flow = Trap
    /\ ~Known => GoesTo = {}
    /\ Known => (shaped.flow = Trap <=> Out.name \in Stopping)
StackPositions ==
  CASE Class \in {4, 6, 12, 14} ->
         IF Out.name \in {"cpy", "set"} \/ (field(Word, 24, 6) \in {24, 28}) THEN {}
         ELSE IF Out.name \in {"stg", "stzg", "st2g", "stz2g"} THEN {0, 5} ELSE {5}
    [] Class \in {8, 9} ->
         (CASE Out.name \in {"add", "mov sp", "addg"} -> {0, 5} [] Out.name \in {"adds", "cmp", "cmn"} -> {5}
            [] Out.name \in {"and", "orr", "eor", "mov mask"} -> {0} [] OTHER -> {})
    [] Class \in {5, 13} ->
         (CASE ~Bit(Word, 28) /\ Bit(Word, 24) /\ Bit(Word, 21) -> IF Bit(Word, 29) THEN {5} ELSE {0, 5}
            [] Out.name = "irg" -> {0, 5} [] Out.name = "gmi" -> {5} [] Out.name \in {"subp", "subps"} -> {5, 16} [] Out.name = "pacga" -> {16}
            [] Out.name = "pac" /\ Len(Out.operands) = 2 -> {5} [] OTHER -> {})
    [] Class \in {10, 11} /\ Out.name \in {"br", "blr"} /\ Bit(Word, 24) -> {0}
    [] OTHER -> {}
(* Register 31 is the stack pointer in exactly the positions that name one, and is the zero       *)
(* register, dropped from what is read and written, in every other.                               *)
StackPointerPositions ==
  Read /\ Known =>
    LET named == {o.register : o \in OperandsOf("Register")} \cup UNION {o.registers : o \in OperandsOf("Memory")}
        stack == {r \in named : r.file = "sp"}
    IN /\ stack # {} <=> \E lo \in StackPositions : field(Word, lo, 5) = 31
       /\ \A r \in stack : r \in Out.reads \/ whole(r) \in Out.writes
       /\ \A r \in Out.reads \cup Out.writes : r.file # "zr"

ElementSize(n, imms) ==
  IF n = 1 THEN 64 ELSE CASE imms < 32 -> 32 [] imms \in 32 .. 47 -> 16 [] imms \in 48 .. 55 -> 8 [] imms \in 56 .. 59 -> 4 [] imms \in 60 .. 63 -> 2
(* A bitmask's value is the run of ones its fields ask for: bit b of it is set when b, turned     *)
(* back by the rotation within the element, is among the run; and only the reserved combinations  *)
(* are refused.                                                                                   *)
MaskIsTheEncodings ==
  Read /\ Class = 9 /\ field(Word, 23, 3) = 4 =>
    LET n == field(Word, 22, 1)
        immr == field(Word, 16, 6)
        imms == field(Word, 10, 6)
        esize == ElementSize(n, imms)
        reserved == (IF n = 1 THEN ~Wide(Word) ELSE imms >= 62) \/ imms % esize = esize - 1
    IN /\ Known <=> ~reserved
       /\ Known => {o.value : o \in OperandsOf("Constant")} =
                     {{b \in 0 .. DataSize(Wide(Word)) - 1 : (b + immr) % esize <= imms % esize}}
CopiedBits(immr, imms, ds) ==
  IF imms >= immr THEN {<<b - immr, b>> : b \in immr .. imms} ELSE {<<b + ds - immr, b>> : b \in 0 .. imms}
AliasBits(name, p, ds) ==
  CASE name \in {"uxtb", "sxtb"} -> {<<b, b>> : b \in 0 .. 7}
    [] name \in {"uxth", "sxth"} -> {<<b, b>> : b \in 0 .. 15}
    [] name \in {"uxtw", "sxtw"} -> {<<b, b>> : b \in 0 .. 31}
    [] name \in {"lsr", "asr"} -> {<<b, b + p[1]>> : b \in 0 .. ds - 1 - p[1]}
    [] name = "lsl" -> {<<b + p[1], b>> : b \in 0 .. ds - 1 - p[1]}
    [] name \in {"ubfx", "sbfx", "bfxil"} -> {<<b, b + p[1]>> : b \in 0 .. p[2] - 1}
    [] name \in {"ubfiz", "sbfiz", "bfi", "bfc"} -> {<<b + p[1], b>> : b \in 0 .. p[2] - 1}
Immediates == LET at == SelectSeq(Out.operands, LAMBDA o : o.kind = "Immediate") IN [i \in DOMAIN at |-> at[i].value]
(* A bitfield move keeps its meaning under the alias it is reported as: the alias, by its own     *)
(* operands, copies the same bits of the source to the same places.                               *)
AliasesKeepTheirMeaning ==
  Read /\ Known /\ Class = 9 /\ field(Word, 23, 3) = 6 =>
    LET ds == DataSize(Wide(Word))
    IN AliasBits(Out.name, Immediates, ds) = CopiedBits(field(Word, 16, 6), field(Word, 10, 6), ds)

HeldIn ==
  [uao |-> <<3, 0, 4, 2, 4>>, pan |-> <<3, 0, 4, 2, 3>>, spsel |-> <<3, 0, 4, 2, 0>>, allint |-> <<3, 0, 4, 3, 0>>, ssbs |-> <<3, 3, 4, 2, 6>>,
   dit |-> <<3, 3, 4, 2, 5>>, tco |-> <<3, 3, 4, 2, 7>>, daifset |-> <<3, 3, 4, 2, 1>>, daifclr |-> <<3, 3, 4, 2, 1>>]
(* A field of the processor's state needs the privilege of the register that holds it, whichever  *)
(* of the two spellings writes it.                                                                *)
FieldsAreTheirRegisters ==
  Read /\ Known /\ field(Word, 22, 10) = 852 /\ field(Word, 19, 2) = 0 /\ field(Word, 12, 4) = 4 /\ Out.name = "msr" =>
    LET r == HeldIn[Out.operands[1].value]
    IN Out.privilege = SystemRegister(FALSE, 0, r[1], r[2], r[3], r[4], r[5]).privilege

(* An access that moves its base after it happens at the base: no displacement is reported beside *)
(* an amount, and the base is written; one that is not an access writes nothing at all.           *)
AccessIsWhereItSays ==
  Read /\ Known /\ Class \in {4, 6, 12, 14} =>
    /\ \A i \in DOMAIN Out.operands : \A j \in i + 1 .. Len(Out.operands) :
         Out.operands[i].kind = "Memory" /\ Out.operands[j].kind = "Other" =>
           Out.operands[i].value = 0 /\ Out.operands[i].registers \subseteq Out.writes
    /\ Out.name = "prfm" => Out.writes = {}
(* A memory operand says how much it touches, but for the four positions whose width is not       *)
(* encoded; and a tag load is none of them.                                                       *)
SizelessAreFour ==
  Read /\ Known =>
    /\ \A o \in OperandsOf("Memory") :
         o.size = NoSize <=> Out.name \in {"adr", "adrp", "prfm", "cpy", "set", "ldgm", "stgm", "stzgm"}
    /\ field(Word, 24, 8) = 217 /\ Bit(Word, 21) =>
         (field(Word, 10, 2) # 0 \/ field(Word, 22, 2) = 1 => Out.operands[2].size # NoSize)

Opposite(c) ==
  LET pairs == {<<"Equal", "NotEqual">>, <<"UnsignedAboveOrEqual", "UnsignedBelow">>, <<"Negative", "NotNegative">>, <<"Overflow", "NotOverflow">>,
                <<"UnsignedAbove", "UnsignedBelowOrEqual">>, <<"SignedGreaterOrEqual", "SignedLess">>, <<"SignedGreater", "SignedLessOrEqual">>}
  IN CHOOSE d \in {p[1] : p \in pairs} \cup {p[2] : p \in pairs} : <<c, d>> \in pairs \/ <<d, c>> \in pairs
Changed == <<"same", "inc", "inv", "neg">>[2 * field(Word, 30, 1) + field(Word, 10, 2) + 1]
(* A conditional selection means the same under its alias: whether or not the encoded condition   *)
(* holds, the alias, asked what it reports, gives what the encoding computes.                     *)
SelectionKeepsItsMeaning ==
  Read /\ Known /\ Class = 13 /\ field(Word, 21, 4) = 4 =>
    \A holds \in BOOLEAN :
      LET encoded == condition(field(Word, 12, 4))
          n == Rn(Word, FALSE)
          computed == IF holds \/ encoded = "None" THEN <<n, "same">> ELSE <<Rm(Word, FALSE), Changed>>
          asked == Out.condition = "None" \/ (IF Out.condition = encoded THEN holds ELSE Out.condition = Opposite(encoded) /\ ~holds)
          zero == gpr(31, Wide(Word), FALSE)
          given == CASE Out.name \in {"cset", "csetm"} -> <<zero, IF asked THEN Changed ELSE "same">>
                     [] Out.name \in {"cinc", "cinv", "cneg"} -> <<Out.operands[2].register, IF asked THEN Changed ELSE "same">>
                     [] OTHER -> IF asked THEN <<Out.operands[2].register, "same">> ELSE <<Out.operands[3].register, Changed>>
      IN given = computed

Samples == {{}, {0}, {15}, {31}, {63}, {0, 7, 33}, 0 .. 63}
Shifted(bits, kind, amount, ds) ==
  CASE kind = 0 -> {b + amount : b \in bits} \cap (0 .. ds - 1)
    [] kind = 1 -> {b - amount : b \in bits} \cap (0 .. ds - 1)
    [] kind = 2 -> ({b - amount : b \in bits} \cup (IF ds - 1 \in bits THEN ds - amount .. ds - 1 ELSE {})) \cap (0 .. ds - 1)
    [] kind = 3 -> {(b - amount) % ds : b \in bits}
Extended(bits, option, amount, ds) ==
  LET w == 8 * 2^(option % 4)
      low == bits \cap (0 .. w - 1)
  IN {b + amount : b \in low \cup (IF option >= 4 /\ w - 1 \in low THEN w .. ds - 1 ELSE {})} \cap (0 .. ds - 1)
SecondValue(held, ds) ==
  LET bits == held \cap (0 .. ds - 1)
  IN IF Bit(Word, 24) /\ Bit(Word, 21) THEN Extended(bits, field(Word, 13, 3), field(Word, 10, 3), ds)
     ELSE LET s == Shifted(bits, field(Word, 22, 2), field(Word, 10, 6), ds)
          IN IF ~Bit(Word, 24) /\ Bit(Word, 21) THEN (0 .. ds - 1) \ s ELSE s
(* An effect is claimed only where the operands carry the whole operation: the value the          *)
(* processor uses of the second register is the one its operand names.                            *)
EffectIsTheOperation ==
  Read /\ Known /\ Class = 5 /\ Out.effect # "Other" =>
    LET ds == DataSize(Wide(Word))
        registers == SelectSeq(Out.operands, LAMBDA o : o.kind = "Register")
        m == registers[Len(registers)].register
    IN \A held \in Samples : SecondValue(held, ds) = held \cap (0 .. 8 * m.width - 1) \cap (0 .. ds - 1)

(* An A64 word is read as what it does: its flow and its operands agree, an alias means what was  *)
(* encoded, register 31 is the one its position makes it, and what is undefined stops.            *)
A64Exact ==
  /\ TransferIsDecoded
  /\ UndefinedStops
  /\ StackPointerPositions
  /\ MaskIsTheEncodings
  /\ AliasesKeepTheirMeaning
  /\ FieldsAreTheirRegisters
  /\ AccessIsWhereItSays
  /\ SizelessAreFour
  /\ SelectionKeepsItsMeaning
  /\ EffectIsTheOperation
=============================================================================
