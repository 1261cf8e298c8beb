------------------------------- MODULE Decode -------------------------------
(***************************************************************************)
(* The decoders of allocator metadata (pool/decode.rs), over words that    *)
(* the allocator wrote and words that it did not.  A word                  *)
(* is a number below 2^Bits; its fields are Field bits wide, where the     *)
(* code's are sixteen, and addresses from Kernel on are the kernel's.      *)
(***************************************************************************)
EXTENDS Integers, Sequences, FiniteSets, FiniteSetsExt

CONSTANTS
  Field,      \* bits of a size field
  MinBlock,   \* LFH_MIN_BLOCK_SIZE
  HalfWord,   \* blocks a word of a split bitmap covers: 32 in the code
  Byte,       \* bits of a byte
  PageBytes   \* PAGE_SIZE

VARIABLES
  word,     \* the decoder and what it was given
  written,  \* what the allocator wrote there, <<>> when the words are arbitrary
  decoded   \* the decoder's answer, <<>> for None or a refusal

decodeVars == <<word, written, decoded>>

Bits == 4 * Field
Xor(a, b) ==
  LET low[n \in 0 .. Bits] ==   \* of the lowest n bits
        IF n = 0 THEN 0
        ELSE low[n - 1] + 2 ^ (n - 1) * ((a \div 2 ^ (n - 1) + b \div 2 ^ (n - 1)) % 2)
  IN  low[Bits]
FieldAt(v, n) == (v \div 2 ^ (n * Field)) % 2 ^ Field

Kernel == 2 ^ (Bits - 1)
is_kernel_pointer(p) == p = 0 \/ p >= Kernel
is_user_pointer(p) == p \in 4 .. Kernel - 1

-----------------------------------------------------------------------------

descriptor_backend(flags) ==
  IF (flags \div 8) % 2 = 0 THEN "Segment" ELSE IF (flags \div 4) % 2 = 1 THEN "Vs" ELSE "Lfh"

\* Bytes of the unit size run to the end of the descriptor, three at most.
decode_descriptor_at(bytes, size, unit, flags) ==
  LET width == Min({3, size - unit})
      unit_size == MapThenSumSet(LAMBDA k : bytes[unit + k + 1] * 256 ^ k, 0 .. width - 1)
  IN  IF Len(bytes) < size \/ size <= unit \/ flags >= size \/ unit_size = 0 THEN <<>>
      ELSE << [unit |-> unit_size, backend |-> descriptor_backend(bytes[flags + 1]),
               allocated |-> bytes[flags + 1] % 2 = 1, first |-> (bytes[flags + 1] \div 2) % 2 = 1] >>

decode_vs_sizes(encoded, header, key) ==
  LET d == Xor(Xor(encoded, key), header)
  IN  [size |-> FieldAt(d, 1), previous |-> FieldAt(d, 2), allocated |-> FieldAt(d, 3) # 0]

decode_vs_chunk(encoded, header, key, headers, limit) ==
  LET s == decode_vs_sizes(encoded, header, key)
  IN  IF s.size = 0 \/ s.size < headers \/ header + s.size > limit THEN <<>> ELSE <<s>>

decode_lfh_offsets(encoded, page, key) ==
  LET d == Xor(Xor(encoded, key), page)
  IN  [block |-> FieldAt(d, 0), first |-> FieldAt(d, 1)]

decode_lfh_subsegment(encoded, page, key, blocks, region) ==
  LET o == decode_lfh_offsets(encoded, page, key)
  IN  IF blocks = 0 \/ o.block < MinBlock \/ o.first >= region
         \/ blocks * o.block > region - o.first
      THEN <<>> ELSE << [block |-> o.block, first |-> o.first, blocks |-> blocks] >>

-----------------------------------------------------------------------------
CeilDiv(a, b) == (a + b - 1) \div b
WordBytes == (2 * HalfWord) \div Byte

bytes_for(form, blocks) ==
  CeilDiv(blocks, IF form = "SplitWord" THEN HalfWord ELSE 2 * HalfWord) * WordBytes

\* Mutant: both allocators are read as the kernel packs them.
busy_bit_contiguous(form, slot) == slot

busy_bit(form, slot) ==
  IF form = "SplitWord" THEN (slot \div HalfWord) * (2 * HalfWord) + (slot % HalfWord) ELSE slot

\* bitmap is the set of bits that are set in the `length` bytes that were read.
normalise(form, bitmap, length, blocks) ==
  IF \E slot \in 0 .. blocks - 1 : busy_bit(form, slot) \div Byte >= length THEN <<>>
  ELSE << {slot \in 0 .. blocks - 1 : busy_bit(form, slot) \in bitmap} >>

lfh_bitmap_state(busy, slot) == IF slot \in busy THEN "Allocated" ELSE "ReusableFree"

\* The header takes two units more when the page is tracked, blocks are rounded up to four.
decode_special_pool_header(requested, tracked, header) ==
  LET header_size == header + (IF tracked THEN 2 ELSE 0)
      aligned == CeilDiv(requested, 4) * 4
  IN  IF requested = 0 \/ aligned + header_size > PageBytes THEN <<>>
      ELSE << [requested |-> requested, header_size |-> header_size] >>

decode_rb_root_for(root, tree, encoded, user) ==
  LET pointer == IF encoded THEN Xor(root, tree) ELSE root
  IN  IF pointer = 0 \/ (IF user THEN is_user_pointer(pointer) ELSE is_kernel_pointer(pointer))
      THEN <<pointer>> ELSE <<>>

\* An arithmetic shift: \div rounds towards minus infinity.
decode_slist_header_next(region) ==
  LET signed == IF region >= Kernel THEN region - 2 ^ Bits ELSE region
  IN  (signed \div 4) % 2 ^ Bits

\* The low Field bits of the address are the unused bytes; pages stand above Field bits.
decode_large_allocation_for(address_field, pages_field, user) ==
  LET address == address_field - (address_field % 2 ^ Field)
      pages == pages_field \div 2 ^ Field
  IN  IF address # 0 /\ pages # 0
         /\ (IF user THEN is_user_pointer(address) ELSE is_kernel_pointer(address))
      THEN << [address |-> address, pages |-> pages] >> ELSE <<>>

decode_large_requested_size(address_field, allocated, validated_alias) ==
  LET unused == address_field % 2 ^ Field
  IN  IF ~validated_alias \/ unused > allocated THEN <<>> ELSE <<allocated - unused>>

-----------------------------------------------------------------------------
DecodeInit == word = <<"nothing">> /\ written = <<>> /\ decoded = <<>>

Decodes(question, truth, reply) ==
  word[1] = "nothing" /\ word' = question /\ written' = truth /\ decoded' = reply

Sizes == 0 .. 2 ^ Field - 1
Keys == {0, 2 ^ Bits - 2, 2 ^ (2 * Field) + 3}

\* The page-range allocator writes the flags of what word it, on each unit of the range.
Descriptor ==
  \E units \in 0 .. 2, unit \in {2, 3}, backend \in {"Segment", "Lfh", "Vs"}, first \in BOOLEAN :
    LET request == CASE backend = "Segment" -> 0 [] backend = "Lfh" -> 8 [] backend = "Vs" -> 12
        flags == 1 + (IF first THEN 2 ELSE 0) + request
        bytes == [i \in 1 .. 4 |-> IF i = unit + 1 THEN units ELSE IF i = 2 THEN flags ELSE 0]
    IN  Decodes(<<"descriptor">>,
             IF units = 0 THEN <<>>
             ELSE << [unit |-> units, backend |-> backend, allocated |-> TRUE, first |-> first] >>,
             decode_descriptor_at(bytes, 4, unit, 1))

VsWritten ==
  \E size, previous \in Sizes \ {0}, busy \in BOOLEAN, header \in {8, 16}, key \in Keys :
    LET plain == size * 2 ^ Field + previous * 2 ^ (2 * Field)
                 + (IF busy THEN 2 ^ (3 * Field) ELSE 0)
    IN  Decodes(<<"vs", header, 20>>,
             IF size < 2 \/ header + size > 20 THEN <<>>
             ELSE << [size |-> size, previous |-> previous, allocated |-> busy] >>,
             decode_vs_chunk(Xor(Xor(plain, key), header), header, key, 2, 20))

\* Any words: a header that is being rewritten, or none at all.
LfhAny ==
  \E encoded \in 0 .. 2 ^ (2 * Field) - 1, key \in Keys, blocks \in 0 .. 4, region \in {4, 9, 16} :
    Decodes(<<"lfh", blocks, region>>, <<>>, decode_lfh_subsegment(encoded, 5, key, blocks, region))

LfhWritten ==
  \E block, first \in Sizes, key \in Keys, blocks \in 1 .. 4, region \in {9, 16} :
    /\ block >= MinBlock /\ first < region /\ first + blocks * block <= region
    /\ Decodes(<<"lfh", blocks, region>>, << [block |-> block, first |-> first, blocks |-> blocks] >>,
            decode_lfh_subsegment(Xor(Xor(block + first * 2 ^ Field, key), 5), 5, key, blocks, region))

\* The allocator sets the busy bits its own way; in a split word the bits above are its own.
Bitmap ==
  \E form \in {"SplitWord", "ContiguousBits"}, blocks \in 1 .. 2 * HalfWord + 1, unused \in BOOLEAN :
    \E busy \in SUBSET (0 .. blocks - 1), length \in 0 .. bytes_for(form, blocks) :
      LET place(slot) == IF form = "SplitWord"
                         THEN 2 * HalfWord * (slot \div HalfWord) + (slot % HalfWord)
                         ELSE slot
          others == IF form = "SplitWord" /\ unused
                    THEN {place(slot) + HalfWord : slot \in 0 .. blocks - 1} ELSE {}
      IN  Decodes(<<"bitmap", length, bytes_for(form, blocks)>>, <<busy>>,
               normalise(form, {place(slot) : slot \in busy} \cup others, length, blocks))

Special ==
  \E requested \in 0 .. PageBytes + 1, tracked \in BOOLEAN :
    Decodes(<<"special", tracked>>, <<>>, decode_special_pool_header(requested, tracked, 4))

Root ==
  \E encoded, user \in BOOLEAN, tree \in {Kernel + 8, Kernel - 8}, at \in {0, 9, Kernel + 9} :
    /\ at = 0 \/ user = (at < Kernel)
    /\ Decodes(<<"root">>, <<at>>,
            decode_rb_root_for(IF encoded THEN Xor(at, tree) ELSE at, tree, encoded, user))

SlistHead ==
  \E entry \in {4 * i : i \in 0 .. 3} \cup {2 ^ Bits - 4 * i : i \in 1 .. 3}, reserved \in 0 .. 3 :
    Decodes(<<"slist">>, <<entry>>, <<decode_slist_header_next((entry * 4 + reserved) % 2 ^ Bits)>>)

Large ==
  \E address \in {Kernel, Kernel + 2 ^ Field}, unused \in Sizes, pages \in 1 .. 2, low \in {0, 1} :
    Decodes(<<"large">>, << [address |-> address, pages |-> pages], 10 * pages - unused >>,
         decode_large_allocation_for(address + unused, pages * 2 ^ Field + low, FALSE)
         \o decode_large_requested_size(address + unused, 10 * pages, TRUE))

DecodeNext ==
  \/ Descriptor \/ VsWritten \/ LfhAny \/ LfhWritten \/ Bitmap \/ Special \/ Root
  \/ SlistHead \/ Large

-----------------------------------------------------------------------------
\* What the allocator wrote is what the decoder reads, whatever key, address, unused bits or
\* neighbouring fields are mixed into the words, and whichever allocator word for the range;
\* a chunk that reaches its subsegment's end is one of them (decode_descriptor_at,
\* decode_vs_chunk, decode_lfh_subsegment, decode_rb_root_for, decode_large_allocation_for).
ReadsBack ==
  word[1] \in {"descriptor", "vs", "root", "slist", "large"} \/ (word[1] = "lfh" /\ written # <<>>)
    => decoded = written

\* Whatever the words are, blocks that are accepted lie one after the other inside the range
\* and none is under the minimum, and a special-pool block fits its page behind its header: a
\* walk of them reads nothing of its neighbour (decode_lfh_subsegment,
\* decode_special_pool_header).
AcceptedFits ==
  decoded # <<>> =>
    /\ word[1] = "lfh" => /\ decoded[1].first + decoded[1].blocks * decoded[1].block <= word[3]
                           /\ decoded[1].block >= MinBlock /\ decoded[1].blocks = word[2]
    /\ word[1] = "special" =>
         PageBytes - CeilDiv(decoded[1].requested, 4) * 4 >= decoded[1].header_size

\* A bitmap that was read short is refused, never completed with free blocks, and one that was
\* read whole gives each slot the state the allocator packed, in either arrangement
\* (LfhBitmap::normalise, lfh_bitmap_state).
BitmapExact ==
  word[1] = "bitmap" =>
    /\ decoded = <<>> => word[2] < word[3]
    /\ decoded # <<>> =>
         \A slot \in 0 .. 2 * HalfWord :
           (lfh_bitmap_state(decoded[1], slot) = "Allocated") = (slot \in written[1])

\* A decoder reads what the allocator wrote, and of any other words it accepts only what fits
\* the memory it describes (pool/decode.rs).
DecodeExact ==
  /\ ReadsBack
  /\ AcceptedFits
  /\ BitmapExact
=============================================================================
