---------------------------------- MODULE X86 ----------------------------------
(***************************************************************************)
(* What an x86 instruction is read as, from what the decoder knows of it:  *)
(* where control goes, what it addresses, which registers it touches and   *)
(* which privileged state it reaches.  Addresses have two halves; code of  *)
(* the narrow mode computes in the low one.                                *)
(***************************************************************************)
EXTENDS Integers, Sequences, FiniteSets, Flows

CONSTANTS
  Encodings,   \* the instructions there are
  High, Low    \* the widths of an address and of its low half, in bits (external: 64 and 32)

VARIABLES
  encoding,    \* the instruction at hand: its kind decides which of its fields there are
  decoded      \* what it was read as

x86Vars == <<encoding, decoded>>

Undecoded == [kind |-> "none"]
X86Init == encoding \in Encodings /\ decoded = Undecoded

Truncated(n, bits) == n % 2^bits
sign_extend(value, bits) ==
  IF bits = 0 \/ bits >= High THEN (IF value >= 2^(High - 1) THEN value - 2^High ELSE value)
  ELSE LET v == Truncated(value, bits) IN IF v >= 2^(bits - 1) THEN v - 2^bits ELSE v
HighHalf(n) == (n \div 2^Low) * 2^Low
Narrow == encoding.mode = "narrow"
NextIp == Truncated(encoding.ip + 2, High)

(* A value computed at the narrow width is put back in the address space of its instruction. *)
canonical_address(value) == IF Narrow THEN HighHalf(encoding.ip) + Truncated(value, Low) ELSE value

--------------------------------------------------------------------------------
(* Control.  The decoder's classes, and the two families decided here: software interrupts by     *)
(* vector, and transactions.                                                                      *)
near_branch_target == IF Narrow THEN Truncated(NextIp + encoding.rel, Low) ELSE Truncated(NextIp + encoding.rel, High)
near_target == <<canonical_address(near_branch_target)>>
Interrupt(vector) == IF vector \in {3, 41} THEN <<"Trap">> ELSE <<"Fallthrough">>
Transaction(code) == IF code = "xbegin" THEN <<"Branch", near_target>> ELSE <<"Fallthrough">>
decoded_flow ==
  CASE encoding.flow = "Next" -> <<"Fallthrough">>
    [] encoding.flow = "UnconditionalBranch" -> <<"Jmp", near_target>>
    [] encoding.flow = "IndirectBranch" -> <<"Jmp", <<>>>>
    [] encoding.flow = "ConditionalBranch" -> <<"Branch", near_target>>
    [] encoding.flow = "Return" -> <<"Return">>
    [] encoding.flow = "Call" -> <<"Call", near_target>>
    [] encoding.flow = "IndirectCall" -> <<"Call", <<>>>>
    [] encoding.flow = "Exception" -> <<"Trap">>
    [] encoding.flow = "Interrupt" -> Interrupt(encoding.vector)
    [] encoding.flow = "XbeginXabortXend" -> Transaction(encoding.code)
ReadFlow == encoding.kind = "flow" /\ decoded = Undecoded /\ decoded' = [kind |-> "flow", flow |-> decoded_flow] /\ UNCHANGED encoding

--------------------------------------------------------------------------------
(* Memory.  A register is its width in bits, 0 for none; "ip" marks the instruction pointer.      *)
(* What the decoder gives: a displacement cut to the effective address, and for a reference       *)
(* relative to the instruction pointer the target itself.                                         *)
AddressBits ==
  IF encoding.base # 0 THEN encoding.base ELSE IF encoding.index \in {Low, High} THEN encoding.index ELSE encoding.mode_bits
ip_rel_memory_address == Truncated(NextIp + encoding.disp, encoding.base)
memory_displacement64 ==
  IF encoding.ip_relative THEN ip_rel_memory_address ELSE Truncated(encoding.disp * encoding.scale, AddressBits)
(* The width a displacement is signed in: the address registers', an index that is a vector being *)
(* none, and with neither the displacement's own.                                                 *)
address_bits ==
  IF encoding.base # 0 THEN encoding.base
  ELSE IF encoding.index # 0 /\ encoding.index <= High THEN encoding.index
  ELSE encoding.displ_bits
Static == ~encoding.segment /\ (encoding.ip_relative \/ (encoding.base = 0 /\ encoding.index = 0))
address == IF ~Static THEN <<>>
           ELSE <<canonical_address(IF encoding.ip_relative THEN ip_rel_memory_address ELSE memory_displacement64)>>
displacement ==
  IF encoding.ip_relative
  THEN LET delta == Truncated(ip_rel_memory_address - NextIp, High)
       IN IF encoding.base = Low THEN sign_extend(Truncated(delta, Low), Low) ELSE sign_extend(delta, High)
  ELSE IF encoding.base = 0 /\ encoding.index = 0 THEN memory_displacement64
  ELSE sign_extend(memory_displacement64, address_bits)
read_decoded_memory == [kind |-> "memory", displacement |-> displacement, address |-> address]
ReadMemory == encoding.kind = "memory" /\ decoded = Undecoded /\ decoded' = read_decoded_memory /\ UNCHANGED encoding

--------------------------------------------------------------------------------
(* Registers: the decoder lists each access it knows, explicit or not; an access that may happen  *)
(* counts as one that does, and a list names each spelling once.                                  *)
Writes == {"Write", "CondWrite", "ReadWrite", "ReadCondWrite"}
Reads == {"Read", "CondRead", "ReadWrite", "ReadCondWrite"}
Same(a, b) == a.name = b.name
registers_from(used, wanted) ==
  LET Seen(n) == \E m \in 1 .. n - 1 : used[m].access \in wanted /\ Same(used[m], used[n])
  IN {used[n] : n \in {n \in DOMAIN used : used[n].access \in wanted /\ ~Seen(n)}}
touched_registers ==
  [kind |-> "registers", reads |-> registers_from(encoding.used, Reads), writes |-> registers_from(encoding.used, Writes)]
ReadRegisters == encoding.kind = "registers" /\ decoded = Undecoded /\ decoded' = touched_registers /\ UNCHANGED encoding

--------------------------------------------------------------------------------
(* Privilege: the order of the questions is their precedence. *)
FlagQuestion == encoding.interrupt_flag = "set or cleared"
Family ==
  CASE encoding.feature = "virtualization" -> "Virtualization"
    [] encoding.feature = "msr" -> "ModelSpecificRegister"
    [] encoding.feature = "none" ->
         IF encoding.mnemonic = "xsetbv" \/ encoding.control_register THEN "ControlRegister"
         ELSE IF FlagQuestion THEN "InterruptFlag"
         ELSE CASE encoding.mnemonic \in {"in", "out", "ins", "outs"} -> "PortIo"
                [] encoding.mnemonic \in {"lgdt", "lidt", "lldt", "ltr"} -> "DescriptorTable"
                [] encoding.mnemonic \in {"invd", "wbinvd", "wbnoinvd", "invlpg", "invpcid", "invlpgb", "tlbsync"} -> "CacheOrTlb"
                [] OTHER -> "Other"
decoded_privilege == [kind |-> "privilege", family |-> IF encoding.privileged THEN Family ELSE "None"]
ReadPrivilege == encoding.kind = "privilege" /\ decoded = Undecoded /\ decoded' = decoded_privilege /\ UNCHANGED encoding

--------------------------------------------------------------------------------
(* The condition a branch reads, of the flags the compare before it set. *)
decoded_condition_unsigned(code) ==
  CASE code \in {"a", "g"} -> "UnsignedAbove" [] code \in {"ae", "ge"} -> "UnsignedAboveOrEqual"
    [] code \in {"b", "l"} -> "UnsignedBelow" [] code \in {"be", "le"} -> "UnsignedBelowOrEqual"
    [] code = "e" -> "Equal" [] code = "ne" -> "NotEqual" [] code = "s" -> "Negative" [] code = "ns" -> "NotNegative"
    [] code = "o" -> "Overflow" [] code = "no" -> "NotOverflow"
    [] code = "p" -> "Parity" [] code = "np" -> "NotParity" [] OTHER -> "None"
decoded_condition(code) ==
  CASE code = "e" -> "Equal" [] code = "ne" -> "NotEqual"
    [] code = "a" -> "UnsignedAbove" [] code = "ae" -> "UnsignedAboveOrEqual"
    [] code = "b" -> "UnsignedBelow" [] code = "be" -> "UnsignedBelowOrEqual"
    [] code = "g" -> "SignedGreater" [] code = "ge" -> "SignedGreaterOrEqual"
    [] code = "l" -> "SignedLess" [] code = "le" -> "SignedLessOrEqual"
    [] code = "s" -> "Negative" [] code = "ns" -> "NotNegative"
    [] code = "o" -> "Overflow" [] code = "no" -> "NotOverflow"
    [] code = "p" -> "Parity" [] code = "np" -> "NotParity" [] OTHER -> "None"
ReadCondition ==
  /\ encoding.kind = "condition" /\ decoded = Undecoded
  /\ decoded' = [kind |-> "condition", condition |-> decoded_condition(encoding.code)]
  /\ UNCHANGED encoding

X86Next == ReadFlow \/ ReadMemory \/ ReadRegisters \/ ReadPrivilege \/ ReadCondition

--------------------------------------------------------------------------------
(* Where an instruction of each kind can continue, by the architecture. *)
Continues ==
  \/ encoding.flow \in {"Next", "Call", "IndirectCall", "ConditionalBranch", "XbeginXabortXend"}
  \/ encoding.flow = "Interrupt" /\ encoding.vector \notin {3, 41}
Names == encoding.flow \in {"UnconditionalBranch", "ConditionalBranch", "Call"} \/ encoding.code = "xbegin"
(* A walk that follows the flow misses nothing that can run and invents nothing: it continues     *)
(* past a system call and a halted processor, and not past a trap.                                *)
FlowFollowsTheCode ==
  decoded.kind = "flow" => (falls_through(decoded.flow) <=> Continues) /\ ((TargetOf(decoded.flow) # <<>>) <=> Names)

(* A destination is in the address space its instruction came from: narrow code keeps the half it *)
(* is in, and wide code may cross it.                                                             *)
TargetInItsSpace ==
  decoded.kind = "flow" /\ TargetOf(decoded.flow) # <<>> =>
    LET target == TargetOf(decoded.flow)[1]
    IN IF Narrow THEN HighHalf(target) = HighHalf(encoding.ip) /\ Truncated(target, Low) = Truncated(NextIp + encoding.rel, Low)
       ELSE target = Truncated(NextIp + encoding.rel, High)

(* A displacement off a register is the signed number the instruction encodes, whatever the width *)
(* of its field, of its index and of the address it is part of.                                   *)
DisplacementIsEncoded ==
  decoded.kind = "memory" /\ (encoding.base # 0 \/ encoding.index # 0) =>
    decoded.displacement = encoding.disp * (IF encoding.ip_relative THEN 1 ELSE encoding.scale)

(* An address is given only where nothing at run time contributes to it: not through a register,  *)
(* and not through a segment.                                                                     *)
AddressIsStatic ==
  decoded.kind = "memory" /\ decoded.address # <<>> =>
    ~encoding.segment /\ encoding.index = 0 /\ (encoding.base = 0 \/ encoding.ip_relative)

(* Every register an instruction may change or read is listed at the width it is touched, once:   *)
(* two parts of one register are two.                                                             *)
TouchedAreListed ==
  decoded.kind = "registers" =>
    \A n \in DOMAIN encoding.used :
      LET u == encoding.used[n]
      IN /\ u.access \in Writes => \E w \in decoded.writes : w.name = u.name
         /\ u.access \in Reads => \E r \in decoded.reads : r.name = u.name

(* The flags of comparing two values of the low width, and what each code asks of them. *)
Signed(n) == sign_extend(n, Low)
Zero(a, b) == a = b
Carry(a, b) == a < b
Sign(a, b) == Truncated(a - b, Low) >= 2^(Low - 1)
Over(a, b) == Signed(a) - Signed(b) # Signed(Truncated(a - b, Low))
Even(a, b) == Cardinality({k \in 0 .. Low - 1 : (Truncated(a - b, Low) \div 2^k) % 2 = 1}) % 2 = 0
Taken(code, a, b) ==
  CASE code = "e" -> Zero(a, b) [] code = "ne" -> ~Zero(a, b)
    [] code = "a" -> ~Carry(a, b) /\ ~Zero(a, b) [] code = "ae" -> ~Carry(a, b)
    [] code = "b" -> Carry(a, b) [] code = "be" -> Carry(a, b) \/ Zero(a, b)
    [] code = "g" -> ~Zero(a, b) /\ Sign(a, b) = Over(a, b) [] code = "ge" -> Sign(a, b) = Over(a, b)
    [] code = "l" -> Sign(a, b) # Over(a, b) [] code = "le" -> Zero(a, b) \/ Sign(a, b) # Over(a, b)
    [] code = "s" -> Sign(a, b) [] code = "ns" -> ~Sign(a, b) [] code = "o" -> Over(a, b) [] code = "no" -> ~Over(a, b)
    [] code = "p" -> Even(a, b) [] code = "np" -> ~Even(a, b)
    [] OTHER -> FALSE
Means(condition, a, b) ==
  CASE condition = "Equal" -> a = b [] condition = "NotEqual" -> a # b
    [] condition = "UnsignedAbove" -> a > b [] condition = "UnsignedAboveOrEqual" -> a >= b
    [] condition = "UnsignedBelow" -> a < b [] condition = "UnsignedBelowOrEqual" -> a <= b
    [] condition = "SignedGreater" -> Signed(a) > Signed(b) [] condition = "SignedGreaterOrEqual" -> Signed(a) >= Signed(b)
    [] condition = "SignedLess" -> Signed(a) < Signed(b) [] condition = "SignedLessOrEqual" -> Signed(a) <= Signed(b)
    [] condition = "Negative" -> Sign(a, b) [] condition = "NotNegative" -> ~Sign(a, b)
    [] condition = "Overflow" -> Over(a, b) [] condition = "NotOverflow" -> ~Over(a, b)
    [] condition = "Parity" -> Even(a, b) [] condition = "NotParity" -> ~Even(a, b) [] OTHER -> FALSE
(* A branch is taken exactly when the comparison it is said to make holds of the values compared: *)
(* a bound on an unsigned index is one, and a signed bound is not passed off as one.              *)
ConditionIsTheBranch ==
  decoded.kind = "condition" =>
    \A a, b \in 0 .. 2^Low - 1 : Taken(encoding.code, a, b) <=> Means(decoded.condition, a, b)

(* A family is named exactly for what needs privilege, and it is the state reached: an            *)
(* instruction that returns, restoring every flag, masks no interrupts.                           *)
FamilyIsReached ==
  decoded.kind = "privilege" =>
    /\ (decoded.family = "None") <=> ~encoding.privileged
    /\ decoded.family = "InterruptFlag" => encoding.interrupt_flag = "set or cleared"
    /\ encoding.privileged /\ encoding.feature = "virtualization" => decoded.family = "Virtualization"

(* An x86 instruction is read as what it does: where control goes on, which address and registers *)
(* it touches, which comparison its branch makes, and which state it needs privilege for.         *)
X86Exact ==
  /\ FlowFollowsTheCode
  /\ TargetInItsSpace
  /\ DisplacementIsEncoded
  /\ AddressIsStatic
  /\ TouchedAreListed
  /\ ConditionIsTheBranch
  /\ FamilyIsReached
=============================================================================
