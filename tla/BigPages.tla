------------------------------ MODULE BigPages ------------------------------
(***************************************************************************)
(* nt!PoolBigPageTable: the kernel's open-addressed table of allocations   *)
(* too large for a pool header, and the walk's lookups in it once the      *)
(* target is stopped (pool/snapshot.rs, BigPageTable).  The kernel's side  *)
(* is external; it is what the comment on BigPageTable reads out of        *)
(* ExpAddTagForBigPages and ExpRemoveTagForBigPages.                       *)
(***************************************************************************)
EXTENDS Integers

CONSTANTS
  Count,      \* entries of the table
  Batch,      \* BIG_PAGE_BATCH
  Addresses,  \* the addresses of allocations
  Tags,
  Hash        \* big_page_hash, for this Count

ASSUME TableAssumption ==
  /\ Count \in Nat \ {0} /\ Batch \in Nat \ {0}
  /\ Hash \in [Addresses -> 0 .. Count - 1]
  /\ 0 \notin Tags

Never == "never"

ASSUME NeverAssumption == Never \notin Addresses

VARIABLES
  table,    \* slot -> [va, live, tag]; va is Never in a slot that was never claimed
  stopped,  \* whether the target is stopped and being read
  batches,  \* what the walk keeps of each batch: "unread", "read" or "empty"
  lookup    \* the lookup in progress: [of, index, probes, result]

tableVars == <<table, stopped, batches, lookup>>

Slots == 0 .. Count - 1
Wrap(i) == IF i >= Count THEN i - Count ELSE i  \* i % Count, for i < 2 * Count
Probe(a, k) == Wrap(Hash[a] + k)
Unclaimed == [va |-> Never, live |-> FALSE, tag |-> 0]
Claimable(s) == ~table[s].live
Live(a) == {s \in Slots : table[s].live /\ table[s].va = a}

NoTag == 0
Idle == [of |-> Never, index |-> 0, probes |-> 0, result |-> NoTag]

TableInit ==
  /\ table = [s \in Slots |-> Unclaimed]
  /\ stopped = FALSE
  /\ batches = [b \in 0 .. Count \div Batch |-> "unread"]
  /\ lookup = Idle

\* The kernel records an allocation in the first slot from its hash that is not in use.
Add(a, tag) ==
  /\ ~stopped /\ Live(a) = {}
  /\ \E k \in Slots :
       /\ Claimable(Probe(a, k))
       /\ \A j \in 0 .. k - 1 : ~Claimable(Probe(a, j))
       /\ table' = [table EXCEPT ![Probe(a, k)] = [va |-> a, live |-> TRUE, tag |-> tag]]
  /\ UNCHANGED <<stopped, batches, lookup>>

\* A free sets bit 0 and leaves the address and the tag behind it.
RemoveTag(a) ==
  /\ ~stopped
  /\ \E s \in Live(a) : table' = [table EXCEPT ![s] = [@ EXCEPT !.live = FALSE]]
  /\ UNCHANGED <<stopped, batches, lookup>>

Stop ==
  /\ ~stopped
  /\ stopped' = TRUE
  /\ UNCHANGED <<table, batches, lookup>>

-----------------------------------------------------------------------------
\* lookup, from the slot that the address hashes to.
Begin(a) ==
  /\ stopped /\ lookup.of = Never
  /\ lookup' = [of |-> a, index |-> Hash[a], probes |-> 0, result |-> NoTag]
  /\ UNCHANGED <<table, stopped, batches>>

Looking == lookup.of # Never
BatchOf(i) == i \div Batch

\* batch: read on first touch and kept, a read that failed as an empty batch.
Fetch ==
  /\ Looking /\ lookup.probes < Count
  /\ batches[BatchOf(lookup.index)] = "unread"
  /\ \E got \in {"read", "empty"} : batches' = [batches EXCEPT ![BatchOf(lookup.index)] = got]
  /\ UNCHANGED <<table, stopped, lookup>>

\* The lookup is over, the walk stopped by its deadline among the ways.
End ==
  /\ Looking
  /\ lookup' = Idle
  /\ UNCHANGED <<table, stopped, batches>>

AtHand == Looking /\ lookup.probes < Count /\ batches[BatchOf(lookup.index)] = "read"
Entry == table[lookup.index]

\* The comparison is of the whole word, so an entry that was freed does not match.
found == Entry.live /\ Entry.va = lookup.of

\* Mutant: the chain is taken to end at a freed slot.
chain_ends_freed == ~Entry.live

\* A slot never used ends the chain: the kernel would have claimed it.
chain_ends == Entry.va = Never

Match ==
  /\ AtHand /\ ~chain_ends /\ found /\ lookup.result = NoTag
  /\ lookup' = [lookup EXCEPT !.result = Entry.tag]
  /\ UNCHANGED <<table, stopped, batches>>

Advance ==
  /\ AtHand /\ ~chain_ends /\ ~found /\ lookup.result = NoTag
  /\ lookup' = [lookup EXCEPT !.index = Wrap(lookup.index + 1), !.probes = @ + 1]
  /\ UNCHANGED <<table, stopped, batches>>

TableNext ==
  \/ \E a \in Addresses : \/ \E tag \in Tags : Add(a, tag)
                          \/ RemoveTag(a) \/ Begin(a)
  \/ Stop \/ Fetch \/ End \/ Match \/ Advance

TableSpec == TableInit /\ [][TableNext]_tableVars

-----------------------------------------------------------------------------
\* lookup answers Ok(None) for want of an entry: at a slot never used, or after a whole turn.
AnswersNone ==
  Looking /\ lookup.result = NoTag /\ (lookup.probes >= Count \/ (AtHand /\ chain_ends))

\* What a lookup says is what the kernel's table holds, whatever was added and freed before
\* and however the entries collided: the tag of the live entry, and no entry only when the
\* address has none (BigPageTable::lookup, "stopping at a never-used slot is sound").
LookupExact ==
  /\ Looking /\ lookup.result # NoTag =>
       \E s \in Live(lookup.of) : table[s].tag = lookup.result
  /\ AnswersNone => Live(lookup.of) = {}
=============================================================================
