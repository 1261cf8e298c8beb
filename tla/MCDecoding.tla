----------------------------- MODULE MCDecoding -----------------------------
(***************************************************************************)
(* Instances for TLC of what instructions are read as.                     *)
(***************************************************************************)
EXTENDS Disassembly, X86, A64

VARIABLE subject  \* which of them a behaviour exercises

Text(machine, memory) ==
  [machine |-> machine, answers |-> TRUE, memory |-> memory, entry |-> [kind |-> "none"], holder |-> [kind |-> "nowhere", base |-> 0],
   header |-> [read |-> FALSE, word |-> 0]]
Listed ==
  {Text(m, c) : m \in {"Amd64", "Arm64", "Arm64EC"}, c \in [0 .. 3 -> {0, 1, 2, 3, Gone}]}
  \cup {[Text(m, [a \in 0 .. 3 |-> a]) EXCEPT !.answers = FALSE] : m \in {"Amd64", "Arm64"}}
Unwound ==
  {[Text(m, [a \in 0 .. 3 |-> 0]) EXCEPT !.entry = [kind |-> e, begin |-> b, second |-> s, needed |-> n],
                                         !.holder = [kind |-> h, base |-> 100], !.header = [read |-> r, word |-> w]] :
     m \in {"Amd64", "Arm64", "X86"}, e \in {"record", "broken"}, b \in {0, 2}, s \in {1, 2, 3, 6, 8, 9, 12}, n \in {2, 3},
     h \in {"module", "nowhere", "failed"}, r \in BOOLEAN, w \in {0, 1, 2, 2^18 + 2}}
MCTexts == Listed \cup Unwound

FlowKinds ==
  {[flow |-> f, vector |-> v, code |-> "none"] : f \in {"Next", "UnconditionalBranch", "IndirectBranch", "ConditionalBranch", "Return", "Call",
                                                      "IndirectCall", "Exception"}, v \in {0}}
  \cup {[flow |-> "Interrupt", vector |-> v, code |-> "none"] : v \in {3, 41, 46}}
  \cup {[flow |-> "XbeginXabortXend", vector |-> 0, code |-> c] : c \in {"xbegin", "xabort", "xend"}}
Transfer(f, mode, ip, rel) == [kind |-> "flow", flow |-> f.flow, vector |-> f.vector, code |-> f.code, mode |-> mode, ip |-> ip, rel |-> rel]
Mem(mode, ip, base, ipr, index, seg, disp, scale) ==
  [kind |-> "memory", mode |-> mode, mode_bits |-> IF mode = "narrow" THEN Low ELSE High, ip |-> ip, base |-> base, ip_relative |-> ipr,
   index |-> index, segment |-> seg, disp |-> disp, scale |-> scale,
   displ_bits |-> IF base = 0 THEN (IF mode = "narrow" THEN Low ELSE High) ELSE 2]
Uses == [name : {"al", "ah", "rax", "rcx"}, full : {"rax", "rcx"}, access : {"Read", "Write", "CondWrite", "CondRead", "ReadWrite", "ReadCondWrite", "None"}]
RightUses == {u \in Uses : u.full = (IF u.name = "rcx" THEN "rcx" ELSE "rax")}
MCEncodings ==
  {Transfer(f, m, ip, rel) : f \in FlowKinds, m \in {"narrow", "wide"}, ip \in {1, 14, 17, 45, 62}, rel \in {-8, -3, 0, 5}}
  \cup {Mem(r[1], ip, r[2], FALSE, r[3], seg, d, sc) :
          r \in {r \in {"narrow", "wide"} \X {0, Low, High} \X {0, Low, High, 2 * High} :
                   (r[1] = "narrow" => High \notin {r[2], r[3]}) /\ {r[2], r[3]} # {Low, High}},
          ip \in {14, 33}, seg \in BOOLEAN, d \in -2 .. 1, sc \in {1, 2}}
  \cup {Mem("wide", ip, b, TRUE, 0, seg, d, 1) : ip \in {14, 33, 62}, b \in {Low, High}, seg \in BOOLEAN, d \in -8 .. 7}
  \cup {[kind |-> "registers", used |-> u] : u \in UNION {[1 .. n -> RightUses] : n \in 0 .. 2}}
  \cup {[kind |-> "condition", code |-> c] : c \in {"none", "e", "ne", "a", "ae", "b", "be", "g", "ge", "l", "le", "s", "ns", "o", "no", "p", "np"}}
  \cup {[kind |-> "privilege", privileged |-> p, feature |-> f, control_register |-> c, interrupt_flag |-> i, mnemonic |-> n] :
          p \in BOOLEAN, f \in {"virtualization", "msr", "none"}, c \in BOOLEAN, i \in {"set or cleared", "restored", "kept"},
          n \in {"in", "lgdt", "sgdt", "invd", "xsetbv", "hlt"}}

(* Words by group: the top three bits, the class, and a sample of the rest, with register 31 in every position. *)
Upper(top, class, rest) == top * 2^13 + class * 2^9 + rest
Group(high, low) == [high |-> high, low |-> low, at |-> {4120}]
Highs(classes) == {Upper(t, c, r * 32 + m) : t \in 0 .. 7, c \in classes, r \in 0 .. 15, m \in {0, 1, 31}}
Lows(mids, pairs) == {l * 2^10 + p[1] * 2^5 + p[2] : l \in mids, p \in pairs}
MCFetches ==
  {Group(Highs({4, 6, 12, 14}), Lows({4 * a + b : a \in {0, 1, 4, 7, 8, 12, 15}, b \in 0 .. 3}, {<<1, 31>>, <<31, 2>>})),
   Group(Highs({8, 9}), Lows({0, 1, 31, 63}, {<<1, 31>>, <<31, 2>>, <<31, 31>>, <<3, 2>>})),
   Group({Upper(4 * w, 9, n * 2^6 + r) : w \in {0, 1}, n \in {0, 1}, r \in 0 .. 63}, Lows(0 .. 63, {<<1, 2>>})),
   Group({Upper(4 * w + o, 9, 2^8 + w * 2^6 + r) : w \in {0, 1}, o \in 0 .. 2, r \in 0 .. 63}, Lows(0 .. 63, {<<1, 2>>})),
   Group(Highs({5, 13}), Lows(0 .. 63, {<<1, 31>>, <<31, 2>>, <<3, 15>>})),
   Group(Highs({7, 15}), Lows({0, 1, 2, 8, 11, 15, 23, 31, 40}, {<<1, 31>>, <<31, 8>>})),
   [Group(Highs({10, 11}), (0 .. 31) \cup {992, 2079, 3040, 3071, 4095, 32736, 65535}) EXCEPT !.at = {4, 4120, 2^30 - 8}],
   Group({Upper(6, 10, 256 + l * 32 + o) : l \in {0, 1}, o \in 0 .. 31},
         {crn * 2^12 + crm * 2^8 + op2 * 32 + t : crn \in {2, 3, 4, 7, 8, 11}, crm \in {0, 2, 3, 4, 14}, op2 \in 0 .. 7, t \in {31, 30}}),
   Group({Upper(t, c, r) : t \in {0, 7}, c \in 0 .. 3, r \in {0, 5}}, {0, 7})}
NoWord == fetched = [word |-> <<0, 0>>, at |-> 0] /\ shaped = NotShaped
NoText == text = Text("Amd64", [a \in 0 .. 3 |-> 0]) /\ due = {} /\ listing = NotListed /\ span = NotAsked /\ extent = NotAsked
NoEncoding == encoding = [kind |-> "none"] /\ decoded = Undecoded

Init ==
  \/ subject = "listing" /\ DisassemblyInit /\ text \in Listed /\ NoEncoding /\ NoWord
  \/ subject = "extent" /\ DisassemblyInit /\ NoEncoding /\ NoWord
  \/ subject = "x86" /\ X86Init /\ NoText /\ NoWord
  \/ subject = "a64" /\ A64Init /\ NoText /\ NoEncoding
Next ==
  \/ subject = "listing" /\ ListingNext /\ UNCHANGED <<subject, x86Vars, a64Vars>>
  \/ subject = "extent" /\ ExtentNext /\ UNCHANGED <<subject, x86Vars, a64Vars>>
  \/ subject = "x86" /\ X86Next /\ UNCHANGED <<subject, disassemblyVars, a64Vars>>
  \/ subject = "a64" /\ A64Next /\ UNCHANGED <<subject, disassemblyVars, x86Vars>>
Spec == Init /\ [][Next]_<<subject, disassemblyVars, x86Vars, a64Vars>>
=============================================================================
