--------------------------- MODULE ArrivalsProofs ---------------------------
(***************************************************************************)
(* What the methods of the register of pending opens do to its rows, and   *)
(* the facts about a register each of them preserves.  W is the set of the *)
(* opens' descriptions and E the set of the session's entries.             *)
(***************************************************************************)
EXTENDS Arrivals, WellFoundedInduction, TLAPS

Rows(W, E) ==
  [id : Nat, what : W, claim : E \cup {Waiting, Departed}, inherited : SUBSET E,
   abandoned : BOOLEAN]
Registers(W, E) == [minted : Nat, pending : Seq(Rows(W, E))]

\* Rows are in the order they were registered, each under an id of its own.
Ordered(a) ==
  /\ \A i \in Slots(a) : a.pending[i].id \in 1..a.minted
  /\ \A i, j \in Slots(a) : i < j => a.pending[i].id < a.pending[j].id

Marks == {Waiting, Departed}

-----------------------------------------------------------------------------
(* The rows each method leaves. *)

\* A set of slots has a first one.
LEMMA Smallest ==
  ASSUME NEW T, T \subseteq Nat, T # {}
  PROVE  \E x \in T : \A y \in T : x <= y
<1> DEFINE R == OpToRel(<, Nat)
<1>1. \A x, y \in Nat : x < y => <<x, y>> \in R
  BY Zenon DEF OpToRel
<1>2. IsWellFoundedOn(R, Nat)
  BY NatLessThanWellFounded, Zenon
<1> HIDE DEF R
<1>3. PICK x \in T : \A y \in T : ~(<<y, x>> \in R)
  BY <1>2, WFMin, Zenon
<1>4. ASSUME NEW y \in T PROVE x <= y
  <2>1. x \in Nat /\ y \in Nat
    BY Zenon
  <2>2. ~(y < x)
    BY <1>1, <1>3, <2>1, Zenon
  <2> QED BY <2>1, <2>2
<1> QED BY <1>4, Zenon

\* A register's rows and its slots have their types.
LEMMA RowsTyped ==
  ASSUME NEW W, NEW E, NEW a \in Registers(W, E)
  PROVE  /\ a.minted \in Nat
         /\ Len(a.pending) \in Nat
         /\ a.pending \in Seq(Rows(W, E))
         /\ \A i \in Slots(a) : i \in Nat /\ a.pending[i] \in Rows(W, E)
BY DEF Registers, Slots

\* A row's fields have their types.
LEMMA FieldsTyped ==
  ASSUME NEW W, NEW E, NEW a \in Registers(W, E), NEW i \in Slots(a)
  PROVE  /\ a.pending[i].id \in Nat
         /\ a.pending[i].what \in W
         /\ a.pending[i].claim \in E \cup {Waiting, Departed}
         /\ a.pending[i].inherited \subseteq E
<1>1. a.pending[i] \in Rows(W, E)
  BY RowsTyped, Zenon
<1> QED BY <1>1, Zenon DEF Rows

\* A register given other rows keeps its count.
LEMMA Replaced ==
  ASSUME NEW W, NEW E, NEW a \in Registers(W, E), NEW s \in Seq(Rows(W, E))
  PROVE  LET b == [a EXCEPT !.pending = s]
         IN  b \in Registers(W, E) /\ b.minted = a.minted /\ b.pending = s
BY Zenon DEF Registers

\* forget_departed keeps every row; a claim or an inheritance of a process that is
\* not held goes.
LEMMA ForgetDepartedRows ==
  ASSUME NEW W, NEW E, NEW a \in Registers(W, E), NEW held
  PROVE  LET b == forget_departed(a, held)
         IN  /\ b \in Registers(W, E)
             /\ b.minted = a.minted
             /\ Slots(b) = Slots(a)
             /\ \A i \in Slots(a) :
                  /\ b.pending[i].id = a.pending[i].id
                  /\ b.pending[i].what = a.pending[i].what
                  /\ b.pending[i].abandoned = a.pending[i].abandoned
                  /\ b.pending[i].inherited = a.pending[i].inherited \cap held
                  /\ b.pending[i].claim = IF a.pending[i].claim \in held \cup {Waiting}
                                          THEN a.pending[i].claim ELSE Departed
<1> DEFINE kept(r) == IF r.claim \in held \cup {Waiting} THEN r.claim ELSE Departed
           row(i) == [a.pending[i] EXCEPT !.claim = kept(a.pending[i]),
                                          !.inherited = @ \cap held]
           s == [i \in Slots(a) |-> row(i)]
<1>1. ASSUME NEW r \in Rows(W, E)
      PROVE  kept(r) \in E \cup {Waiting, Departed} /\ r.inherited \cap held \in SUBSET E
  BY Zenon DEF Rows
<1> HIDE DEF kept
<1>2. ASSUME NEW i \in Slots(a)
      PROVE  /\ row(i) \in Rows(W, E)
             /\ row(i).id = a.pending[i].id
             /\ row(i).what = a.pending[i].what
             /\ row(i).abandoned = a.pending[i].abandoned
             /\ row(i).inherited = a.pending[i].inherited \cap held
             /\ row(i).claim = kept(a.pending[i])
  <2>1. a.pending[i] \in Rows(W, E)
    BY RowsTyped, Zenon
  <2>2. /\ kept(a.pending[i]) \in E \cup {Waiting, Departed}
        /\ a.pending[i].inherited \cap held \in SUBSET E
    BY <1>1, <2>1, Zenon
  <2> QED BY <2>1, <2>2, Zenon DEF Rows
<1> HIDE DEF row
<1>3. s \in Seq(Rows(W, E)) /\ Len(s) = Len(a.pending)
  BY <1>2, RowsTyped DEF Slots
<1>4. \A i \in Slots(a) : s[i] = row(i)
  BY Zenon
<1>5. forget_departed(a, held) = [a EXCEPT !.pending = s]
  BY Zenon DEF forget_departed, s, row, kept
<1> HIDE DEF s
<1> QED BY <1>2, <1>3, <1>4, <1>5, Replaced DEF Slots, kept

\* The slot a row had before the one in slot at went.
Src(at, i) == IF i < at THEN i ELSE i + 1

\* Slot at of a goes; every other row inherits what it held.
Dropped(a, b, at) ==
  /\ b.minted = a.minted
  /\ Len(b.pending) = Len(a.pending) - 1
  /\ \A i \in Slots(b) :
       LET p == a.pending[Src(at, i)]
       IN  /\ b.pending[i].id = p.id
           /\ b.pending[i].what = p.what
           /\ b.pending[i].abandoned = p.abandoned
           /\ b.pending[i].claim = p.claim
           /\ b.pending[i].inherited = p.inherited \cup ({a.pending[at].claim} \ Marks)

\* discard removes the row of the open it is given, where there is one.
LEMMA DiscardRows ==
  ASSUME NEW W, NEW E, NEW a \in Registers(W, E), NEW id
  PROVE  LET b == discard(a, id)
         IN  /\ b \in Registers(W, E)
             /\ \/ SlotOf(a, id) = {} /\ b = a
                \/ \E at \in SlotOf(a, id) : Dropped(a, b, at)
<1>1. CASE SlotOf(a, id) = {}
  BY <1>1, Zenon DEF discard
<1>2. CASE SlotOf(a, id) # {}
  <2> DEFINE at == CHOOSE i \in SlotOf(a, id) : TRUE
             given == {a.pending[at].claim} \ {Waiting, Departed}
             src(i) == IF i < at THEN i ELSE i + 1
             row(i) == [a.pending[src(i)] EXCEPT !.inherited = @ \cup given]
             n == Len(a.pending) - 1
             s == [i \in 1..n |-> row(i)]
  <2>1. at \in SlotOf(a, id)
    BY <1>2, Zenon
  <2>2. discard(a, id) = [a EXCEPT !.pending = s]
    BY <1>2, Zenon DEF discard
  <2> HIDE DEF at
  <2>3. at \in Slots(a) /\ n \in Nat /\ \A i \in 1..n : src(i) \in Slots(a)
    BY <2>1, RowsTyped DEF SlotOf, Slots
  <2>4. given \in SUBSET E
    <3>1. a.pending[at] \in Rows(W, E)
      BY <2>3, RowsTyped, Zenon
    <3>2. a.pending[at].claim \in E \cup {Waiting, Departed}
      BY <3>1, Zenon DEF Rows
    <3> QED BY <3>2, Zenon
  <2>5. ASSUME NEW r \in Rows(W, E), NEW h \in SUBSET E
        PROVE  LET x == [r EXCEPT !.inherited = @ \cup h]
               IN  /\ x \in Rows(W, E)
                   /\ x.id = r.id /\ x.what = r.what /\ x.abandoned = r.abandoned
                   /\ x.claim = r.claim /\ x.inherited = r.inherited \cup h
    BY Zenon DEF Rows
  <2> HIDE DEF src, given, n
  <2>6. ASSUME NEW i \in 1..n
        PROVE  /\ row(i) \in Rows(W, E)
               /\ row(i).id = a.pending[src(i)].id
               /\ row(i).what = a.pending[src(i)].what
               /\ row(i).abandoned = a.pending[src(i)].abandoned
               /\ row(i).claim = a.pending[src(i)].claim
               /\ row(i).inherited = a.pending[src(i)].inherited \cup given
    <3>1. a.pending[src(i)] \in Rows(W, E)
      BY <2>3, RowsTyped, Zenon
    <3> QED BY <2>4, <2>5, <3>1, SMTT(30)
  <2> HIDE DEF row
  <2>7. s \in Seq(Rows(W, E)) /\ Len(s) = n
    BY <2>3, <2>6
  <2>8. \A i \in 1..n : s[i] = row(i)
    BY Zenon
  <2> HIDE DEF s
  <2>9. /\ discard(a, id) \in Registers(W, E)
        /\ discard(a, id).minted = a.minted
        /\ discard(a, id).pending = s
    BY <2>2, <2>7, Replaced
  <2>10. Dropped(a, discard(a, id), at)
    BY <2>6, <2>7, <2>8, <2>9 DEF Dropped, Slots, src, given, n, Marks, Src
  <2> QED BY <2>1, <2>9, <2>10, Zenon
<1> QED BY <1>1, <1>2, Zenon

\* The row of an open is marked as abandoned and nothing else changes.
Abandoned(a, b, id) ==
  /\ b.minted = a.minted
  /\ Len(b.pending) = Len(a.pending)
  /\ \A i \in Slots(a) :
       /\ b.pending[i].id = a.pending[i].id
       /\ b.pending[i].what = a.pending[i].what
       /\ b.pending[i].claim = a.pending[i].claim
       /\ b.pending[i].inherited = a.pending[i].inherited
       /\ b.pending[i].abandoned = (a.pending[i].abandoned \/ a.pending[i].id = id)

WaitingLaunch(r) == r.claim = Waiting /\ r.what.kind = "Launched"

\* forget abandons the row of a launch that waits, and discards any other.
LEMMA ForgetRows ==
  ASSUME NEW W, NEW E, NEW a \in Registers(W, E), NEW id
  PROVE  LET b == forget(a, id)
         IN  /\ b \in Registers(W, E)
             /\ \/ /\ \E i \in SlotOf(a, id) : WaitingLaunch(a.pending[i])
                   /\ Abandoned(a, b, id)
                \/ /\ \A i \in SlotOf(a, id) : ~WaitingLaunch(a.pending[i])
                   /\ b = discard(a, id)
<1>1. CASE \E i \in SlotOf(a, id) : WaitingLaunch(a.pending[i])
  <2> DEFINE row(i) == [a.pending[i] EXCEPT !.abandoned = @ \/ a.pending[i].id = id]
             s == [i \in Slots(a) |-> row(i)]
  <2>1. forget(a, id) = [a EXCEPT !.pending = s]
    BY <1>1, Zenon DEF forget, WaitingLaunch
  <2>2. ASSUME NEW i \in Slots(a)
        PROVE  /\ row(i) \in Rows(W, E)
               /\ row(i).id = a.pending[i].id
               /\ row(i).what = a.pending[i].what
               /\ row(i).claim = a.pending[i].claim
               /\ row(i).inherited = a.pending[i].inherited
               /\ row(i).abandoned = (a.pending[i].abandoned \/ a.pending[i].id = id)
    <3>1. a.pending[i] \in Rows(W, E)
      BY RowsTyped, Zenon
    <3>2. (a.pending[i].abandoned \/ a.pending[i].id = id) \in BOOLEAN
      BY Zenon
    <3> QED BY <3>1, <3>2, Zenon DEF Rows
  <2> HIDE DEF row
  <2>3. s \in Seq(Rows(W, E)) /\ Len(s) = Len(a.pending)
    BY <2>2, RowsTyped DEF Slots
  <2>4. \A i \in Slots(a) : s[i] = row(i)
    BY Zenon
  <2> HIDE DEF s
  <2>5. /\ forget(a, id) \in Registers(W, E)
        /\ forget(a, id).minted = a.minted
        /\ forget(a, id).pending = s
    BY <2>1, <2>3, Replaced
  <2> QED BY <1>1, <2>2, <2>3, <2>4, <2>5, Zenon DEF Abandoned
<1>2. CASE \A i \in SlotOf(a, id) : ~WaitingLaunch(a.pending[i])
  <2>1. forget(a, id) = discard(a, id)
    BY <1>2, Zenon DEF forget, WaitingLaunch
  <2> QED BY <1>2, <2>1, DiscardRows, Zenon
<1> QED BY <1>1, <1>2, Zenon

\* b is a with one waiting row behind the others, in slot n, under the next id.
Registered(a, b, what, n) ==
  /\ b.minted = a.minted + 1
  /\ n \in Nat /\ n \notin Slots(a)
  /\ Slots(b) = Slots(a) \cup {n}
  /\ \A i \in Slots(a) : b.pending[i] = a.pending[i] /\ i < n
  /\ b.pending[n].id = a.minted + 1
  /\ b.pending[n].what = what
  /\ b.pending[n].claim = Waiting
  /\ b.pending[n].inherited = {}
  /\ b.pending[n].abandoned = FALSE

\* register adds one row.
LEMMA RegisterRows ==
  ASSUME NEW W, NEW E, NEW a \in Registers(W, E), NEW what \in W
  PROVE  /\ register(a, what) \in Registers(W, E)
         /\ Registered(a, register(a, what), what, Len(a.pending) + 1)
<1> DEFINE new == [id |-> a.minted + 1, what |-> what, claim |-> Waiting,
                   inherited |-> {}, abandoned |-> FALSE]
<1>1. new \in Rows(W, E)
  <2>1. a.minted + 1 \in Nat
    BY DEF Registers
  <2> QED BY <2>1, Zenon DEF Rows
<1>2. register(a, what) = [minted |-> a.minted + 1, pending |-> Append(a.pending, new)]
  BY Zenon DEF register
<1> HIDE DEF new
<1>3. /\ Append(a.pending, new) \in Seq(Rows(W, E))
      /\ Len(Append(a.pending, new)) = Len(a.pending) + 1
      /\ \A i \in Slots(a) : Append(a.pending, new)[i] = a.pending[i]
      /\ Append(a.pending, new)[Len(a.pending) + 1] = new
  BY <1>1, RowsTyped DEF Slots
<1>4. a.minted + 1 \in Nat
  BY DEF Registers
<1> DEFINE t == Append(a.pending, new)
<1> HIDE DEF t
<1>5. /\ register(a, what) \in Registers(W, E)
      /\ register(a, what).minted = a.minted + 1
      /\ register(a, what).pending = t
  BY <1>2, <1>3, <1>4 DEF Registers, t
<1>6. /\ Len(a.pending) + 1 \in Nat /\ Len(a.pending) + 1 \notin Slots(a)
      /\ 1..(Len(a.pending) + 1) = Slots(a) \cup {Len(a.pending) + 1}
      /\ \A i \in Slots(a) : i < Len(a.pending) + 1
  BY RowsTyped DEF Slots
<1>7. Len(t) = Len(a.pending) + 1 /\ t[Len(a.pending) + 1] = new
  BY <1>3, Zenon DEF t
<1>8. Slots(register(a, what)) = Slots(a) \cup {Len(a.pending) + 1}
  BY <1>5, <1>6, <1>7, Zenon DEF Slots
<1>9. \A i \in Slots(a) : t[i] = a.pending[i]
  BY <1>3, Zenon DEF t
<1> QED BY <1>5, <1>6, <1>7, <1>8, <1>9 DEF new, Registered

\* deliver gives the entry to the first row that waits and wants it, and to no other.
LEMMA DeliverRows ==
  ASSUME NEW W, NEW E, NEW a \in Registers(W, E), NEW entry \in E, NEW pids
  PROVE  LET b == deliver(a, entry, pids)
             takers == Takers(a, entry, pids)
         IN  /\ b \in Registers(W, E)
             /\ b.minted = a.minted
             /\ Slots(b) = Slots(a)
             /\ takers = {} => b = a
             /\ takers # {} =>
                  \E first \in takers :
                    /\ \A i \in takers : first <= i
                    /\ \A i \in Slots(a) \ {first} : b.pending[i] = a.pending[i]
                    /\ b.pending[first].claim = entry
                    /\ b.pending[first].id = a.pending[first].id
                    /\ b.pending[first].what = a.pending[first].what
                    /\ b.pending[first].inherited = a.pending[first].inherited
                    /\ b.pending[first].abandoned = a.pending[first].abandoned
<1>1. CASE Takers(a, entry, pids) = {}
  BY <1>1, Zenon DEF deliver
<1>2. CASE Takers(a, entry, pids) # {}
  <2> DEFINE takers == Takers(a, entry, pids)
             first == CHOOSE i \in takers : \A j \in takers : i <= j
             s == [a.pending EXCEPT ![first] = [@ EXCEPT !.claim = entry]]
  <2>1. PICK m \in takers : \A j \in takers : m <= j
    BY <1>2, RowsTyped, Smallest, Zenon DEF Takers
  <2>2. first \in takers /\ \A j \in takers : first <= j
    BY <2>1, Zenon
  <2>3. deliver(a, entry, pids) = [a EXCEPT !.pending = s]
    BY <1>2, Zenon DEF deliver
  <2> HIDE DEF first
  <2>4. first \in Slots(a)
    BY <2>2, Zenon DEF Takers
  <2>5. LET x == [a.pending[first] EXCEPT !.claim = entry]
        IN  /\ x \in Rows(W, E)
            /\ x.claim = entry
            /\ x.id = a.pending[first].id
            /\ x.what = a.pending[first].what
            /\ x.inherited = a.pending[first].inherited
            /\ x.abandoned = a.pending[first].abandoned
    <3>1. a.pending[first] \in Rows(W, E)
      BY <2>4, RowsTyped, Zenon
    <3> QED BY <3>1, Zenon DEF Rows
  <2>6. s \in Seq(Rows(W, E)) /\ Len(s) = Len(a.pending)
    BY <2>4, <2>5, RowsTyped DEF Slots
  <2>7. /\ \A i \in Slots(a) \ {first} : s[i] = a.pending[i]
        /\ s[first] = [a.pending[first] EXCEPT !.claim = entry]
    BY <2>4, RowsTyped DEF Slots
  <2> HIDE DEF s, takers
  <2>8. /\ deliver(a, entry, pids) \in Registers(W, E)
        /\ deliver(a, entry, pids).minted = a.minted
        /\ deliver(a, entry, pids).pending = s
    BY <2>3, <2>6, Replaced
  <2> QED BY <1>2, <2>2, <2>5, <2>6, <2>7, <2>8, Zenon DEF Slots, takers
<1> QED BY <1>1, <1>2, Zenon

\* A register that a process is delivered to is one, and mints nothing.
LEMMA DeliverTyped ==
  ASSUME NEW W, NEW E, NEW a \in Registers(W, E), NEW entry \in E, NEW pids
  PROVE  deliver(a, entry, pids) \in Registers(W, E) /\ deliver(a, entry, pids).minted = a.minted
BY DeliverRows

\* A delivery that changes the register gives the process to one open that could take it.
LEMMA DeliverGives ==
  ASSUME NEW W, NEW E, NEW a \in Registers(W, E), NEW entry \in E, NEW pids, deliver(a, entry, pids) # a
  PROVE  \E first \in Takers(a, entry, pids) :
           /\ \A i \in Slots(a) \ {first} : deliver(a, entry, pids).pending[i] = a.pending[i]
           /\ deliver(a, entry, pids).pending[first].claim = entry
BY DeliverRows

-----------------------------------------------------------------------------
(* What holds of a register. *)

\* No two rows hold one entry.
Apart(a) ==
  \A i, j \in Slots(a) : i # j /\ a.pending[i].claim = a.pending[j].claim
                         => a.pending[i].claim \in Marks

\* b holds opens of a, in order; what they were given they were given still, or it left.
Follows(a, b) ==
  /\ b.minted = a.minted
  /\ \A i, j \in Slots(b) : i < j => b.pending[i].id < b.pending[j].id
  /\ \A j \in Slots(b) : \E i \in Slots(a) :
       /\ b.pending[j].id = a.pending[i].id
       /\ b.pending[j].what = a.pending[i].what
       /\ \/ b.pending[j].claim = a.pending[i].claim
          \/ a.pending[i].claim # Waiting /\ b.pending[j].claim = Departed

\* What an open was given stays given to it, or has left.
Final(a, b) ==
  \A i \in Slots(a), j \in Slots(b) :
    a.pending[i].id = b.pending[j].id /\ a.pending[i].claim # Waiting
    => b.pending[j].claim \in {a.pending[i].claim, Departed}

\* An open is behind at most one row.
LEMMA OneSlot ==
  ASSUME NEW W, NEW E, NEW a \in Registers(W, E), Ordered(a),
         NEW i \in Slots(a), NEW j \in Slots(a), a.pending[i].id = a.pending[j].id
  PROVE  i = j
<1>1. i \in Nat /\ j \in Nat /\ a.pending[i].id \in Nat /\ a.pending[j].id \in Nat
  BY RowsTyped, Zenon DEF Rows
<1> QED BY <1>1 DEF Ordered

\* forget_departed leads to a register that follows.
LEMMA ForgetDepartedFollows ==
  ASSUME NEW W, NEW E, NEW a \in Registers(W, E), Ordered(a), NEW held
  PROVE  Follows(a, forget_departed(a, held))
BY ForgetDepartedRows DEF Follows, Ordered

\* The slots that are left are the others', in order.
LEMMA DroppedSlots ==
  ASSUME NEW W, NEW E, NEW a \in Registers(W, E), NEW b \in Registers(W, E),
         NEW at \in Slots(a), Dropped(a, b, at)
  PROVE  /\ \A i \in Slots(b) : Src(at, i) \in Slots(a) \ {at}
         /\ \A k \in Slots(a) \ {at} : \E i \in Slots(b) : Src(at, i) = k
         /\ \A i, j \in Slots(b) : i < j => Src(at, i) < Src(at, j)
         /\ \A i, j \in Slots(b) : Src(at, i) = Src(at, j) => i = j
<1>1. /\ at \in Nat /\ Len(a.pending) \in Nat /\ at >= 1 /\ at <= Len(a.pending)
      /\ Len(b.pending) = Len(a.pending) - 1
  BY RowsTyped DEF Dropped, Slots
<1>2. ASSUME NEW k \in Slots(a) \ {at}
      PROVE  \E i \in Slots(b) : Src(at, i) = k
  <2>1. CASE k < at
    BY <1>1, <2>1 DEF Slots, Src
  <2>2. CASE k > at
    <3>1. k - 1 \in Slots(b) /\ Src(at, k - 1) = k
      BY <1>1, <2>2 DEF Slots, Src
    <3> QED BY <3>1, Zenon
  <2> QED BY <1>1, <2>1, <2>2 DEF Slots
<1>3. \A i \in Slots(b) : Src(at, i) \in Slots(a) \ {at}
  BY <1>1 DEF Slots, Src
<1>4. /\ \A i, j \in Slots(b) : i < j => Src(at, i) < Src(at, j)
      /\ \A i, j \in Slots(b) : Src(at, i) = Src(at, j) => i = j
  BY <1>1, SMTT(30) DEF Slots, Src
<1> QED BY <1>2, <1>3, <1>4, Zenon

\* A register that lost one row follows.
LEMMA DroppedFollows ==
  ASSUME NEW W, NEW E, NEW a \in Registers(W, E), Ordered(a),
         NEW b \in Registers(W, E), NEW at \in Slots(a), Dropped(a, b, at)
  PROVE  Follows(a, b)
BY DroppedSlots DEF Follows, Ordered, Dropped

\* discard leads to a register that follows.
LEMMA DiscardFollows ==
  ASSUME NEW W, NEW E, NEW a \in Registers(W, E), Ordered(a), NEW id
  PROVE  Follows(a, discard(a, id))
<1>1. CASE discard(a, id) = a
  BY <1>1, Zenon DEF Follows, Ordered
<1>2. CASE \E at \in SlotOf(a, id) : Dropped(a, discard(a, id), at)
  BY <1>2, DiscardRows, DroppedFollows, Zenon DEF SlotOf
<1> QED BY <1>1, <1>2, DiscardRows, Zenon

\* forget leads to a register that follows.
LEMMA ForgetFollows ==
  ASSUME NEW W, NEW E, NEW a \in Registers(W, E), Ordered(a), NEW id
  PROVE  Follows(a, forget(a, id))
<1>1. CASE Abandoned(a, forget(a, id), id)
  BY <1>1, SMTT(30) DEF Follows, Ordered, Abandoned, Slots
<1>2. CASE forget(a, id) = discard(a, id)
  BY <1>2, DiscardFollows, Zenon
<1> QED BY <1>1, <1>2, ForgetRows, Zenon

\* A register that follows one whose claims are apart has them apart, and is ordered.
LEMMA FollowsApart ==
  ASSUME NEW W, NEW E, NEW a \in Registers(W, E), Ordered(a), Apart(a),
         NEW b \in Registers(W, E), Follows(a, b)
  PROVE  Ordered(b) /\ Apart(b) /\ Final(a, b)
<1>1. Ordered(b)
  BY Zenon DEF Follows, Ordered
<1>2. ASSUME NEW i \in Slots(b), NEW j \in Slots(b), i # j,
             b.pending[i].claim = b.pending[j].claim
      PROVE  b.pending[i].claim \in Marks
  <2>1. PICK k \in Slots(a) :
          /\ b.pending[i].id = a.pending[k].id
          /\ \/ b.pending[i].claim = a.pending[k].claim
             \/ b.pending[i].claim = Departed
    BY Zenon DEF Follows
  <2>2. PICK l \in Slots(a) :
          /\ b.pending[j].id = a.pending[l].id
          /\ \/ b.pending[j].claim = a.pending[l].claim
             \/ b.pending[j].claim = Departed
    BY Zenon DEF Follows
  <2>3. k # l
    BY <1>1, <1>2, <2>1, <2>2, OneSlot, Zenon
  <2> QED BY <1>2, <2>1, <2>2, <2>3, Zenon DEF Apart, Marks
<1>3. ASSUME NEW i \in Slots(a), NEW j \in Slots(b),
             a.pending[i].id = b.pending[j].id, a.pending[i].claim # Waiting
      PROVE  b.pending[j].claim \in {a.pending[i].claim, Departed}
  <2>1. PICK k \in Slots(a) :
          /\ b.pending[j].id = a.pending[k].id
          /\ \/ b.pending[j].claim = a.pending[k].claim
             \/ b.pending[j].claim = Departed
    BY Zenon DEF Follows
  <2>2. k = i
    BY <1>3, <2>1, OneSlot, Zenon
  <2> QED BY <2>1, <2>2, Zenon
<1> QED BY <1>1, <1>2, <1>3, Zenon DEF Apart, Final

\* What follows a register that follows, follows.
LEMMA FollowsTwice ==
  ASSUME NEW W, NEW E, NEW a \in Registers(W, E), NEW b \in Registers(W, E),
         NEW c \in Registers(W, E), Follows(a, b), Follows(b, c)
  PROVE  Follows(a, c)
<1>1. ASSUME NEW j \in Slots(c)
      PROVE  \E i \in Slots(a) :
               /\ c.pending[j].id = a.pending[i].id
               /\ c.pending[j].what = a.pending[i].what
               /\ \/ c.pending[j].claim = a.pending[i].claim
                  \/ a.pending[i].claim # Waiting /\ c.pending[j].claim = Departed
  <2>1. PICK k \in Slots(b) :
          /\ c.pending[j].id = b.pending[k].id
          /\ c.pending[j].what = b.pending[k].what
          /\ \/ c.pending[j].claim = b.pending[k].claim
             \/ b.pending[k].claim # Waiting /\ c.pending[j].claim = Departed
    BY Zenon DEF Follows
  <2>2. PICK i \in Slots(a) :
          /\ b.pending[k].id = a.pending[i].id
          /\ b.pending[k].what = a.pending[i].what
          /\ \/ b.pending[k].claim = a.pending[i].claim
             \/ a.pending[i].claim # Waiting /\ b.pending[k].claim = Departed
    BY Zenon DEF Follows
  <2> QED BY <2>1, <2>2, Zenon
<1> QED BY <1>1, Zenon DEF Follows

\* register leaves the rows in order and their claims apart and final.
LEMMA RegisterApart ==
  ASSUME NEW W, NEW E, NEW a \in Registers(W, E), Ordered(a), Apart(a), NEW what \in W
  PROVE  LET b == register(a, what)
         IN  Ordered(b) /\ Apart(b) /\ Final(a, b)
<1> DEFINE b == register(a, what)
           n == Len(a.pending) + 1
<1>1. Registered(a, b, what, n)
  BY RegisterRows, Zenon
<1>2. a.minted \in Nat /\ \A i \in Slots(a) : i \in Nat /\ a.pending[i].id \in Nat
  BY RowsTyped, FieldsTyped, Zenon
<1> HIDE DEF b, n
<1>3. Ordered(b)
  BY <1>1, <1>2 DEF Ordered, Registered
<1>4. Apart(b)
  BY <1>1, Zenon DEF Apart, Marks, Registered
<1>5. Final(a, b)
  <2> SUFFICES ASSUME NEW i \in Slots(a), NEW j \in Slots(b),
                      a.pending[i].id = b.pending[j].id, a.pending[i].claim # Waiting
               PROVE  b.pending[j].claim \in {a.pending[i].claim, Departed}
    BY Zenon DEF Final
  <2>1. j # n
    BY <1>1, <1>2 DEF Ordered, Registered
  <2>2. i = j
    BY <1>1, <2>1, OneSlot DEF Registered
  <2> QED BY <1>1, <2>1, <2>2, Zenon DEF Registered
<1> QED BY <1>3, <1>4, <1>5, Zenon DEF b

\* deliver leaves the rows in order and their claims apart and final.
LEMMA DeliverApart ==
  ASSUME NEW W, NEW E, NEW a \in Registers(W, E), Ordered(a), Apart(a),
         NEW entry \in E, NEW pids
  PROVE  LET b == deliver(a, entry, pids)
         IN  Ordered(b) /\ Apart(b) /\ Final(a, b)
<1> DEFINE b == deliver(a, entry, pids)
           takers == Takers(a, entry, pids)
<1>1. CASE takers = {}
  <2>1. b = a
    BY <1>1, DeliverRows, Zenon
  <2>2. Final(a, a)
    BY OneSlot, Zenon DEF Final
  <2> QED BY <2>1, <2>2, Zenon
<1>2. CASE takers # {}
  <2>1. PICK first \in takers :
          /\ \A i \in Slots(a) \ {first} : b.pending[i] = a.pending[i]
          /\ b.pending[first].claim = entry
          /\ b.pending[first].id = a.pending[first].id
    BY <1>2, DeliverRows
  <2>2. b.minted = a.minted /\ Slots(b) = Slots(a)
    BY DeliverRows
  <2>3. /\ first \in Slots(a)
        /\ a.pending[first].claim = Waiting
        /\ \A i \in Slots(a) \ {first} : a.pending[i].claim # entry
    BY Zenon DEF Takers, wants, Holds
  <2>4. \A i \in Slots(a) : b.pending[i].id = a.pending[i].id
    BY <2>1, <2>3, Zenon
  <2> HIDE DEF b, takers
  <2>5. Ordered(b)
    BY <2>1, <2>2, <2>3, <2>4, Zenon DEF Ordered
  <2>6. Apart(b)
    BY <2>1, <2>2, <2>3, <2>4 DEF Apart
  <2>7. Final(a, b)
    <3> SUFFICES ASSUME NEW i \in Slots(a), NEW j \in Slots(b),
                        a.pending[i].id = b.pending[j].id, a.pending[i].claim # Waiting
                 PROVE  b.pending[j].claim \in {a.pending[i].claim, Departed}
      BY Zenon DEF Final
    <3>1. i = j
      BY <2>1, <2>2, <2>4, OneSlot
    <3> QED BY <2>1, <2>2, <2>3, <3>1, Zenon
  <2> QED BY <2>5, <2>6, <2>7, Zenon DEF b
<1> QED BY <1>1, <1>2, Zenon

-----------------------------------------------------------------------------
(* What was told once. *)

\* The row in slot i is not given e.
Barred(a, i, e) ==
  LET r == a.pending[i]
  IN  \/ e \in r.inherited
      \/ \E j \in Slots(a) \ {i} : a.pending[j].claim = e
      \/ r.what.kind = "Launched" /\ e \in r.what.before
      \/ r.what.kind = "Attached" /\ r.what.pid # e[2]
      \/ r.what.kind \notin {"Launched", "Attached"}

\* No row that waits is given an entry of D.
Told(a, D) == \A e \in D, i \in Slots(a) : a.pending[i].claim = Waiting => Barred(a, i, e)

\* The two marks differ.
LEMMA MarksDiffer == Waiting # Departed
<1>1. Len(<<>>) # Len(<<0>>)
  OBVIOUS
<1> QED BY <1>1, Zenon DEF Waiting, Departed

\* A row does not want what it is barred from.
LEMMA BarredIsUnwanted ==
  ASSUME NEW a, NEW i \in Slots(a), NEW e, NEW pids, Barred(a, i, e)
  PROVE  ~wants(a, i, e, pids)
BY SMTT(30) DEF Barred, wants, Holds

\* What has been told stays told when what is not held is forgotten.
LEMMA ForgetDepartedTold ==
  ASSUME NEW W, NEW E, NEW a \in Registers(W, E), NEW held, NEW D, D \subseteq held,
         Told(a, D)
  PROVE  Told(forget_departed(a, held), D)
<1> DEFINE b == forget_departed(a, held)
<1> SUFFICES ASSUME NEW e \in D, NEW i \in Slots(b), b.pending[i].claim = Waiting
             PROVE  Barred(b, i, e)
  BY Zenon DEF Told
<1>1. /\ Slots(b) = Slots(a)
      /\ \A j \in Slots(a) :
           /\ b.pending[j].what = a.pending[j].what
           /\ b.pending[j].inherited = a.pending[j].inherited \cap held
           /\ b.pending[j].claim = IF a.pending[j].claim \in held \cup {Waiting}
                                   THEN a.pending[j].claim ELSE Departed
  BY ForgetDepartedRows
<1> HIDE DEF b
<1>2. a.pending[i].claim = Waiting
  BY <1>1, MarksDiffer, Zenon
<1>3. Barred(a, i, e)
  BY <1>1, <1>2, Zenon DEF Told
<1> QED BY <1>1, <1>3 DEF Barred

\* What has been told stays told when a row goes: the others inherit its claim.
LEMMA DiscardTold ==
  ASSUME NEW W, NEW E, NEW a \in Registers(W, E), NEW id, NEW D,
         D \cap Marks = {}, Told(a, D)
  PROVE  Told(discard(a, id), D)
<1> DEFINE b == discard(a, id)
<1>1. CASE b = a
  BY <1>1, SMTT(30)
<1>2. ASSUME NEW at \in SlotOf(a, id), Dropped(a, b, at)
      PROVE  Told(b, D)
  <2> SUFFICES ASSUME NEW e \in D, NEW i \in Slots(b), b.pending[i].claim = Waiting
               PROVE  Barred(b, i, e)
    BY Zenon DEF Told
  <2>1. b \in Registers(W, E) /\ at \in Slots(a)
    BY DiscardRows, Zenon DEF SlotOf
  <2> HIDE DEF b
  <2>2. /\ Src(at, i) \in Slots(a) \ {at}
        /\ \A k \in Slots(a) \ {at} : \E j \in Slots(b) : Src(at, j) = k
    BY <1>2, <2>1, DroppedSlots, Zenon
  <2>3. \A j \in Slots(b) :
          /\ b.pending[j].what = a.pending[Src(at, j)].what
          /\ b.pending[j].claim = a.pending[Src(at, j)].claim
          /\ b.pending[j].inherited =
               a.pending[Src(at, j)].inherited \cup ({a.pending[at].claim} \ Marks)
    BY <1>2, Zenon DEF Dropped
  <2>4. Barred(a, Src(at, i), e)
    BY <2>2, <2>3, Zenon DEF Told
  <2>5. CASE \E k \in Slots(a) \ {Src(at, i)} : a.pending[k].claim = e
    <3>1. PICK k \in Slots(a) \ {Src(at, i)} : a.pending[k].claim = e
      BY <2>5, Zenon
    <3>2. CASE k = at
      BY <2>3, <3>1, <3>2, Zenon DEF Barred
    <3>3. CASE k # at
      BY <2>2, <2>3, <3>1, <3>3 DEF Barred
    <3> QED BY <3>2, <3>3, Zenon
  <2> QED BY <2>3, <2>4, <2>5, Zenon DEF Barred
<1> QED BY <1>1, <1>2, DiscardRows, Zenon

\* What has been told stays told when a guard is dropped.
LEMMA ForgetTold ==
  ASSUME NEW W, NEW E, NEW a \in Registers(W, E), NEW id, NEW D,
         D \cap Marks = {}, Told(a, D)
  PROVE  Told(forget(a, id), D)
<1>1. CASE Abandoned(a, forget(a, id), id)
  <2> DEFINE b == forget(a, id)
  <2>1. /\ Slots(b) = Slots(a)
        /\ \A i \in Slots(a) : /\ b.pending[i].what = a.pending[i].what
                               /\ b.pending[i].claim = a.pending[i].claim
                               /\ b.pending[i].inherited = a.pending[i].inherited
    BY <1>1, Zenon DEF Abandoned, Slots
  <2> HIDE DEF b
  <2>2. \A i \in Slots(a), e \in D : Barred(a, i, e) => Barred(b, i, e)
    BY <2>1, Zenon DEF Barred
  <2> QED BY <2>1, <2>2, Zenon DEF Told, b
<1>2. CASE forget(a, id) = discard(a, id)
  BY <1>2, DiscardTold, Zenon
<1> QED BY <1>1, <1>2, ForgetRows, Zenon

\* What has been told stays told when an open is registered that is barred from it.
LEMMA RegisterTold ==
  ASSUME NEW W, NEW E, NEW a \in Registers(W, E), NEW what \in W, NEW D, Told(a, D),
         \A e \in D : \/ what.kind = "Launched" /\ e \in what.before
                      \/ what.kind = "Attached" /\ what.pid # e[2]
                      \/ what.kind \notin {"Launched", "Attached"}
  PROVE  Told(register(a, what), D)
<1> DEFINE b == register(a, what)
           n == Len(a.pending) + 1
<1>1. Registered(a, b, what, n)
  BY RegisterRows, Zenon
<1> HIDE DEF b, n
<1> SUFFICES ASSUME NEW e \in D, NEW i \in Slots(b), b.pending[i].claim = Waiting
             PROVE  Barred(b, i, e)
  BY Zenon DEF Told, b
<1>2. CASE i = n
  BY <1>1, <1>2, SMTT(30) DEF Registered, Barred
<1>3. CASE i \in Slots(a)
  <2>1. Barred(a, i, e)
    BY <1>1, <1>3, Zenon DEF Registered, Told
  <2> QED BY <1>1, <1>3, <2>1, Zenon DEF Registered, Barred
<1> QED BY <1>1, <1>2, <1>3, Zenon DEF Registered

\* What has been told stays told when a stop is delivered, and then it is told too.
LEMMA DeliverTold ==
  ASSUME NEW W, NEW E, NEW a \in Registers(W, E), NEW entry \in E, NEW pids,
         NEW D, D \cap Marks = {}, Told(a, D), entry \notin Marks
  PROVE  LET b == deliver(a, entry, pids)
         IN  Told(b, IF Takers(a, entry, pids) = {} THEN D ELSE D \cup {entry})
<1> DEFINE b == deliver(a, entry, pids)
           takers == Takers(a, entry, pids)
<1>1. CASE takers = {}
  BY <1>1, DeliverRows, Zenon
<1>2. CASE takers # {}
  <2>1. PICK first \in takers :
          /\ \A i \in Slots(a) \ {first} : b.pending[i] = a.pending[i]
          /\ b.pending[first].claim = entry
    BY <1>2, DeliverRows
  <2>2. Slots(b) = Slots(a)
    BY DeliverRows
  <2>3. first \in Slots(a) /\ a.pending[first].claim = Waiting
    BY Zenon DEF Takers
  <2> HIDE DEF b, takers
  <2>4. ASSUME NEW e \in D \cup {entry}, NEW i \in Slots(b), b.pending[i].claim = Waiting
        PROVE  Barred(b, i, e)
    <3>1. i # first
      BY <2>1, <2>4, Zenon DEF Marks
    <3>2. CASE e = entry
      BY <2>1, <2>2, <2>3, <3>1, <3>2, SMTT(30) DEF Barred
    <3>3. CASE e \in D
      <4>1. Barred(a, i, e)
        BY <2>1, <2>2, <2>4, <3>1, <3>3, Zenon DEF Told
      <4>2. CASE \E j \in Slots(a) \ {i} : a.pending[j].claim = e
        <5>1. PICK j \in Slots(a) \ {i} : a.pending[j].claim = e
          BY <4>2, Zenon
        <5>2. CASE j = first
          <6>1. e = Waiting
            BY <2>3, <5>1, <5>2, Zenon
          <6> QED BY <3>3, <6>1, Zenon DEF Marks
        <5>3. CASE j # first
          BY <2>1, <2>2, <5>1, <5>3, Zenon DEF Barred
        <5> QED BY <5>2, <5>3, Zenon
      <4> QED BY <2>1, <2>2, <3>1, <4>1, <4>2, Zenon DEF Barred
    <3> QED BY <3>2, <3>3, Zenon
  <2> QED BY <1>2, <2>4, Zenon DEF Told, b, takers
<1> QED BY <1>1, <1>2, Zenon

-----------------------------------------------------------------------------
(* What nobody has been given. *)

\* No row was given an entry of F, or inherited one.
Clear(a, F) ==
  \A i \in Slots(a) : a.pending[i].claim \notin F /\ a.pending[i].inherited \cap F = {}

\* What the session does not hold is nobody's once what left it is forgotten.
LEMMA ForgetDepartedClears ==
  ASSUME NEW W, NEW E, NEW a \in Registers(W, E), NEW held, NEW F,
         F \cap held = {}, F \cap Marks = {}
  PROVE  Clear(forget_departed(a, held), F)
BY ForgetDepartedRows DEF Clear, Marks

\* Forgetting what left gives nobody anything.
LEMMA ForgetDepartedClear ==
  ASSUME NEW W, NEW E, NEW a \in Registers(W, E), NEW held, NEW F,
         F \cap Marks = {}, Clear(a, F)
  PROVE  Clear(forget_departed(a, held), F)
BY ForgetDepartedRows DEF Clear, Marks

\* Discarding a row lets others inherit only what it was given.
LEMMA DiscardClear ==
  ASSUME NEW W, NEW E, NEW a \in Registers(W, E), NEW id, NEW F, Clear(a, F)
  PROVE  Clear(discard(a, id), F)
<1> DEFINE b == discard(a, id)
<1>1. ASSUME NEW at \in SlotOf(a, id), Dropped(a, b, at)
      PROVE  Clear(b, F)
  <2>1. b \in Registers(W, E) /\ at \in Slots(a)
    BY DiscardRows, Zenon DEF SlotOf
  <2>2. \A i \in Slots(b) : Src(at, i) \in Slots(a)
    BY <1>1, <2>1, DroppedSlots, Zenon
  <2> HIDE DEF b
  <2> QED BY <1>1, <2>1, <2>2, Zenon DEF Clear, Dropped
<1> QED BY <1>1, DiscardRows, Zenon

\* Dropping a guard gives nobody anything.
LEMMA ForgetClear ==
  ASSUME NEW W, NEW E, NEW a \in Registers(W, E), NEW id, NEW F, Clear(a, F)
  PROVE  Clear(forget(a, id), F)
<1>1. CASE Abandoned(a, forget(a, id), id)
  BY <1>1, Zenon DEF Clear, Abandoned, Slots
<1>2. CASE forget(a, id) = discard(a, id)
  BY <1>2, DiscardClear, Zenon
<1> QED BY <1>1, <1>2, ForgetRows, Zenon

\* Registering an open gives nobody anything.
LEMMA RegisterClear ==
  ASSUME NEW W, NEW E, NEW a \in Registers(W, E), NEW what \in W, NEW F,
         F \cap Marks = {}, Clear(a, F)
  PROVE  Clear(register(a, what), F)
<1> DEFINE b == register(a, what)
           n == Len(a.pending) + 1
<1>1. Registered(a, b, what, n)
  BY RegisterRows, Zenon
<1> HIDE DEF b, n
<1>2. b.pending[n].claim \notin F /\ b.pending[n].inherited \cap F = {}
  BY <1>1, Zenon DEF Registered, Marks
<1>3. Clear(b, F)
  BY <1>1, <1>2, Zenon DEF Registered, Clear
<1> QED BY <1>3, Zenon DEF b

\* Delivering a stop gives only its entry.
LEMMA DeliverClear ==
  ASSUME NEW W, NEW E, NEW a \in Registers(W, E), NEW entry \in E, NEW pids,
         NEW F, entry \notin F, Clear(a, F)
  PROVE  Clear(deliver(a, entry, pids), F)
<1>1. CASE Takers(a, entry, pids) = {}
  BY <1>1, DeliverRows, Zenon
<1>2. CASE Takers(a, entry, pids) # {}
  BY <1>2, DeliverRows DEF Clear
<1> QED BY <1>1, <1>2, Zenon

-----------------------------------------------------------------------------
(* The order of the launches. *)

\* What a launch inherited, a later launch inherited too or has in its snapshot.
Carried(a) ==
  \A i, j \in Slots(a) :
    /\ a.pending[i].id < a.pending[j].id
    /\ a.pending[i].what.kind = "Launched" /\ a.pending[j].what.kind = "Launched"
    => a.pending[i].inherited \subseteq a.pending[j].inherited \cup a.pending[j].what.before

\* The opens of O are launches that wait.
Queued(a, O) == \A o \in O : \E i \in SlotOf(a, o) : WaitingLaunch(a.pending[i])

\* Forgetting what left keeps inheritances and the queue.
LEMMA ForgetDepartedQueue ==
  ASSUME NEW W, NEW E, NEW a \in Registers(W, E), NEW held, NEW O, Carried(a), Queued(a, O)
  PROVE  LET b == forget_departed(a, held) IN Carried(b) /\ Queued(b, O)
<1> DEFINE b == forget_departed(a, held)
<1>1. /\ Slots(b) = Slots(a)
      /\ \A i \in Slots(a) :
           /\ b.pending[i].id = a.pending[i].id
           /\ b.pending[i].what = a.pending[i].what
           /\ b.pending[i].inherited = a.pending[i].inherited \cap held
           /\ a.pending[i].claim = Waiting => b.pending[i].claim = Waiting
  BY ForgetDepartedRows
<1> HIDE DEF b
<1>2. Carried(b)
  BY <1>1 DEF Carried
<1>3. Queued(b, O)
  BY <1>1 DEF Queued, SlotOf, WaitingLaunch
<1> QED BY <1>2, <1>3, Zenon DEF b

\* Discarding an open that is not in the queue keeps inheritances and the queue.
LEMMA DiscardQueue ==
  ASSUME NEW W, NEW E, NEW a \in Registers(W, E), NEW id, NEW O, id \notin O,
         Carried(a), Queued(a, O)
  PROVE  LET b == discard(a, id) IN Carried(b) /\ Queued(b, O)
<1> DEFINE b == discard(a, id)
<1>1. ASSUME NEW at \in SlotOf(a, id), Dropped(a, b, at)
      PROVE  Carried(b) /\ Queued(b, O)
  <2>1. b \in Registers(W, E) /\ at \in Slots(a) /\ a.pending[at].id = id
    BY DiscardRows, Zenon DEF SlotOf
  <2> HIDE DEF b
  <2>2. /\ \A i \in Slots(b) : Src(at, i) \in Slots(a)
        /\ \A k \in Slots(a) \ {at} : \E i \in Slots(b) : Src(at, i) = k
    BY <1>1, <2>1, DroppedSlots
  <2>3. \A i \in Slots(b) :
          /\ b.pending[i].id = a.pending[Src(at, i)].id
          /\ b.pending[i].what = a.pending[Src(at, i)].what
          /\ b.pending[i].claim = a.pending[Src(at, i)].claim
          /\ b.pending[i].inherited =
               a.pending[Src(at, i)].inherited \cup ({a.pending[at].claim} \ Marks)
    BY <1>1, Zenon DEF Dropped
  <2>4. Carried(b)
    <3> SUFFICES ASSUME NEW i \in Slots(b), NEW j \in Slots(b),
                        b.pending[i].id < b.pending[j].id,
                        b.pending[i].what.kind = "Launched",
                        b.pending[j].what.kind = "Launched"
                 PROVE  b.pending[i].inherited \subseteq
                          b.pending[j].inherited \cup b.pending[j].what.before
      BY SMTT(30) DEF Carried
    <3>1. a.pending[Src(at, i)].inherited \subseteq
            a.pending[Src(at, j)].inherited \cup a.pending[Src(at, j)].what.before
      BY <2>2, <2>3 DEF Carried
    <3> QED BY <2>3, <3>1, Zenon
  <2>5. ASSUME NEW o \in O
        PROVE  \E i \in SlotOf(b, o) : WaitingLaunch(b.pending[i])
    <3>1. PICK k \in SlotOf(a, o) : WaitingLaunch(a.pending[k])
      BY Zenon DEF Queued
    <3>2. k \in Slots(a) \ {at} /\ a.pending[k].id = o
      BY <2>1, <3>1, Zenon DEF SlotOf
    <3>3. PICK i \in Slots(b) : Src(at, i) = k
      BY <2>2, <3>2, Zenon
    <3>4. i \in SlotOf(b, o) /\ WaitingLaunch(b.pending[i])
      BY <2>3, <3>1, <3>2, <3>3, Zenon DEF SlotOf, WaitingLaunch
    <3> QED BY <3>4, Zenon
  <2> QED BY <2>4, <2>5, Zenon DEF Queued
<1> QED BY <1>1, DiscardRows, Zenon

\* Dropping a guard keeps inheritances and the queue.
LEMMA ForgetQueue ==
  ASSUME NEW W, NEW E, NEW a \in Registers(W, E), Ordered(a), NEW id, NEW O,
         Carried(a), Queued(a, O)
  PROVE  LET b == forget(a, id) IN Carried(b) /\ Queued(b, O)
<1> DEFINE b == forget(a, id)
<1>1. CASE Abandoned(a, b, id)
  <2>1. /\ Slots(b) = Slots(a)
        /\ \A i \in Slots(a) : /\ b.pending[i].id = a.pending[i].id
                               /\ b.pending[i].what = a.pending[i].what
                               /\ b.pending[i].claim = a.pending[i].claim
                               /\ b.pending[i].inherited = a.pending[i].inherited
    BY <1>1, SMTT(30) DEF Abandoned, Slots
  <2> HIDE DEF b
  <2>2. Carried(b)
    BY <2>1 DEF Carried
  <2>3. Queued(b, O)
    BY <2>1 DEF Queued, SlotOf, WaitingLaunch
  <2> QED BY <2>2, <2>3, Zenon DEF b
<1>2. CASE /\ \A i \in SlotOf(a, id) : ~WaitingLaunch(a.pending[i])
           /\ b = discard(a, id)
  <2>1. id \notin O
    BY <1>2, Zenon DEF Queued
  <2> QED BY <1>2, <2>1, DiscardQueue, Zenon
<1> QED BY <1>1, <1>2, ForgetRows, Zenon

\* A launch that has every inheritance in its snapshot is registered behind the others,
\* and may join the queue.
LEMMA RegisterQueue ==
  ASSUME NEW W, NEW E, NEW a \in Registers(W, E), Ordered(a), NEW what \in W, NEW O,
         Carried(a), Queued(a, O),
         what.kind = "Launched" => \A i \in Slots(a) : a.pending[i].inherited \subseteq what.before
  PROVE  LET b == register(a, what)
         IN  /\ Carried(b)
             /\ Queued(b, O)
             /\ what.kind = "Launched" => Queued(b, O \cup {b.minted})
<1> DEFINE b == register(a, what)
           n == Len(a.pending) + 1
<1>1. Registered(a, b, what, n)
  BY RegisterRows, Zenon
<1>2. a.minted \in Nat /\ \A i \in Slots(a) : a.pending[i].id \in Nat
  BY RowsTyped, FieldsTyped, SMTT(30)
<1> HIDE DEF b, n
<1>3. Carried(b)
  <2> SUFFICES ASSUME NEW i \in Slots(b), NEW j \in Slots(b),
                      b.pending[i].id < b.pending[j].id,
                      b.pending[i].what.kind = "Launched",
                      b.pending[j].what.kind = "Launched"
               PROVE  b.pending[i].inherited \subseteq
                        b.pending[j].inherited \cup b.pending[j].what.before
    BY Zenon DEF Carried
  <2>1. CASE i = n
    BY <1>1, <2>1, Zenon DEF Registered
  <2>2. CASE i \in Slots(a) /\ j = n
    BY <1>1, <2>2, SMTT(30) DEF Registered
  <2>3. CASE i \in Slots(a) /\ j \in Slots(a)
    BY <1>1, <2>3, Zenon DEF Registered, Carried
  <2> QED BY <1>1, <2>1, <2>2, <2>3, SMTT(30) DEF Registered
<1>4. Queued(b, O)
  BY <1>1 DEF Registered, Queued, SlotOf, WaitingLaunch
<1>5. what.kind = "Launched" => Queued(b, {b.minted})
  BY <1>1 DEF Registered, Queued, SlotOf, WaitingLaunch
<1> QED BY <1>3, <1>4, <1>5, Zenon DEF Queued, b

\* Delivering a stop takes at most the open that is given it out of the queue.
LEMMA DeliverQueue ==
  ASSUME NEW W, NEW E, NEW a \in Registers(W, E), NEW entry \in E, NEW pids,
         NEW O, Carried(a), Queued(a, O)
  PROVE  LET b == deliver(a, entry, pids)
             takers == Takers(a, entry, pids)
             firsts == {i \in takers : \A k \in takers : i <= k}
         IN  Carried(b) /\ Queued(b, O \ {a.pending[i].id : i \in firsts})
<1> DEFINE b == deliver(a, entry, pids)
           takers == Takers(a, entry, pids)
           firsts == {i \in takers : \A k \in takers : i <= k}
<1>1. CASE takers = {}
  <2>1. b = a
    BY <1>1, DeliverRows, Zenon
  <2> QED BY <2>1, SMTT(30) DEF Queued
<1>2. CASE takers # {}
  <2>1. PICK first \in takers :
          /\ \A i \in takers : first <= i
          /\ \A i \in Slots(a) \ {first} : b.pending[i] = a.pending[i]
          /\ b.pending[first].id = a.pending[first].id
          /\ b.pending[first].what = a.pending[first].what
          /\ b.pending[first].inherited = a.pending[first].inherited
    BY <1>2, DeliverRows, SMTT(30)
  <2>2. Slots(b) = Slots(a)
    BY DeliverRows
  <2>3. first \in firsts
    BY <2>1, Zenon
  <2> HIDE DEF b, takers, firsts
  <2>4. \A i \in Slots(a) : /\ b.pending[i].id = a.pending[i].id
                            /\ b.pending[i].what = a.pending[i].what
                            /\ b.pending[i].inherited = a.pending[i].inherited
    BY <2>1, SMTT(30)
  <2>5. Carried(b)
    BY <2>2, <2>4, ZenonT(40) DEF Carried
  <2>6. ASSUME NEW o \in O \ {a.pending[i].id : i \in firsts}
        PROVE  \E i \in SlotOf(b, o) : WaitingLaunch(b.pending[i])
    <3>1. PICK k \in SlotOf(a, o) : WaitingLaunch(a.pending[k])
      BY Zenon DEF Queued
    <3>2. k \in Slots(a) /\ a.pending[k].id = o
      BY <3>1, Zenon DEF SlotOf
    <3>3. k # first
      BY <2>3, <3>2, SMTT(30)
    <3>4. k \in SlotOf(b, o) /\ WaitingLaunch(b.pending[k])
      BY <2>1, <2>2, <3>1, <3>2, <3>3, Zenon DEF SlotOf
    <3> QED BY <3>4, Zenon
  <2> QED BY <2>5, <2>6, SMTT(30) DEF Queued, b, takers, firsts
<1> QED BY <1>1, <1>2, Zenon

\* A launch is not given what a launch before it that waits could have been given, but
\* for the earlier one's snapshot.
LEMMA FirstLaunchTakes ==
  ASSUME NEW W, NEW E, NEW a \in Registers(W, E), Ordered(a), Carried(a),
         NEW entry \in E, entry \notin Marks, NEW pids,
         NEW first \in Takers(a, entry, pids),
         \A i \in Takers(a, entry, pids) : first <= i,
         NEW early \in Slots(a), WaitingLaunch(a.pending[early]),
         a.pending[early].id < a.pending[first].id,
         a.pending[first].what.kind = "Launched"
  PROVE  entry \in a.pending[early].what.before
<1>1. /\ first \in Slots(a)
      /\ a.pending[first].claim = Waiting
      /\ entry \notin a.pending[first].inherited
      /\ entry \notin a.pending[first].what.before
      /\ entry[2] \notin pids
      /\ \A j \in Slots(a) \ {first} : a.pending[j].claim # entry
      /\ \A j \in Slots(a) \ {first} : ~(/\ a.pending[j].claim = Waiting
                                         /\ a.pending[j].what.kind = "Attached"
                                         /\ a.pending[j].what.pid = entry[2])
  BY Zenon DEF Takers, wants, Holds
<1>2. early < first
  <2>1. /\ early \in Nat /\ first \in Nat
        /\ a.pending[early].id \in Nat /\ a.pending[first].id \in Nat
    BY <1>1, RowsTyped, FieldsTyped, SMTT(30)
  <2>2. ~(first < early) /\ first # early
    BY <1>1, <2>1 DEF Ordered
  <2> QED BY <2>1, <2>2
<1>3. early \notin Takers(a, entry, pids)
  <2>1. early \in Nat /\ first \in Nat
    BY <1>1, RowsTyped, SMTT(30)
  <2> QED BY <1>2, <2>1, SMTT(30)
<1>4. entry \notin a.pending[early].inherited
  BY <1>1, SMTT(30) DEF Carried, WaitingLaunch
<1>5. a.pending[first].claim # entry
  BY <1>1, Zenon DEF Marks
<1> QED BY <1>1, <1>3, <1>4, <1>5, ZenonT(30) DEF Takers, wants, Holds, WaitingLaunch

-----------------------------------------------------------------------------
(* Rows and guards. *)

\* A row is abandoned only when its guard is gone.
Left(a, G) == \A i \in Slots(a) : a.pending[i].abandoned => a.pending[i].id \notin G

\* An attach whose guard is alive and which was given its process is not of a pid in S.
Settled(a, G, S) ==
  \A i \in Slots(a) :
    a.pending[i].id \in G /\ a.pending[i].what.kind = "Attached" /\ a.pending[i].claim # Waiting
    => a.pending[i].what.pid \notin S

\* Forgetting what left abandons nothing.
LEMMA ForgetDepartedLeft ==
  ASSUME NEW W, NEW E, NEW a \in Registers(W, E), NEW held, NEW G, Left(a, G)
  PROVE  Left(forget_departed(a, held), G)
<1> DEFINE b == forget_departed(a, held)
<1>1. /\ Slots(b) = Slots(a)
      /\ \A i \in Slots(a) : /\ b.pending[i].id = a.pending[i].id
                             /\ b.pending[i].abandoned = a.pending[i].abandoned
  BY ForgetDepartedRows
<1> HIDE DEF b
<1>2. Left(b, G)
  BY <1>1, SMTT(30) DEF Left
<1> QED BY <1>2, SMTT(30) DEF b

\* Discarding a row abandons nothing.
LEMMA DiscardLeft ==
  ASSUME NEW W, NEW E, NEW a \in Registers(W, E), NEW id, NEW G, Left(a, G)
  PROVE  Left(discard(a, id), G)
<1> DEFINE b == discard(a, id)
<1>1. ASSUME NEW at \in SlotOf(a, id), Dropped(a, b, at)
      PROVE  Left(b, G)
  <2>1. b \in Registers(W, E) /\ at \in Slots(a)
    BY DiscardRows, Zenon DEF SlotOf
  <2> HIDE DEF b
  <2>2. \A i \in Slots(b) : Src(at, i) \in Slots(a)
    BY <1>1, <2>1, DroppedSlots, Zenon
  <2> QED BY <1>1, <2>2, Zenon DEF Left, Dropped
<1> QED BY <1>1, DiscardRows, Zenon

\* Dropping a guard abandons at most its own row.
LEMMA ForgetLeft ==
  ASSUME NEW W, NEW E, NEW a \in Registers(W, E), NEW id, NEW G, Left(a, G)
  PROVE  Left(forget(a, id), G \ {id})
<1> DEFINE b == forget(a, id)
<1>1. CASE Abandoned(a, b, id)
  <2>1. Slots(b) = Slots(a)
    BY <1>1, Zenon DEF Abandoned, Slots
  <2>2. \A i \in Slots(a) :
          /\ b.pending[i].id = a.pending[i].id
          /\ b.pending[i].abandoned => a.pending[i].abandoned \/ a.pending[i].id = id
    BY <1>1, Zenon DEF Abandoned
  <2> HIDE DEF b
  <2>3. Left(b, G \ {id})
    BY <2>1, <2>2, Zenon DEF Left
  <2> QED BY <2>3, Zenon DEF b
<1>2. CASE b = discard(a, id)
  BY <1>2, DiscardLeft, Zenon DEF Left
<1> QED BY <1>1, <1>2, ForgetRows, Zenon

\* A registered open may have a guard.
LEMMA RegisterLeft ==
  ASSUME NEW W, NEW E, NEW a \in Registers(W, E), Ordered(a), NEW what \in W, NEW G, Left(a, G)
  PROVE  LET b == register(a, what) IN Left(b, G \cup {b.minted})
<1> DEFINE b == register(a, what)
           n == Len(a.pending) + 1
<1>1. Registered(a, b, what, n)
  BY RegisterRows, Zenon
<1>2. a.minted \in Nat /\ \A i \in Slots(a) : a.pending[i].id \in Nat
  BY RowsTyped, FieldsTyped, SMTT(30)
<1> HIDE DEF b, n
<1>3. \A i \in Slots(a) : a.pending[i].id # b.minted
  BY <1>1, <1>2, SMTT(30) DEF Registered, Ordered
<1>4. Left(b, G \cup {b.minted})
  BY <1>1, <1>3, Zenon DEF Registered, Left
<1> QED BY <1>4, Zenon DEF b

\* Delivering a stop abandons nothing.
LEMMA DeliverLeft ==
  ASSUME NEW W, NEW E, NEW a \in Registers(W, E), NEW entry \in E, NEW pids,
         NEW G, Left(a, G)
  PROVE  Left(deliver(a, entry, pids), G)
<1>1. CASE Takers(a, entry, pids) = {}
  BY <1>1, DeliverRows, SMTT(30)
<1>2. CASE Takers(a, entry, pids) # {}
  BY <1>2, DeliverRows, SMTT(30) DEF Left
<1> QED BY <1>1, <1>2, SMTT(30)

\* A register that follows is as settled, whatever the guards and pids that are left.
LEMMA FollowsSettled ==
  ASSUME NEW a, NEW b, Follows(a, b), NEW G, NEW H, H \subseteq G, NEW S, NEW T,
         T \subseteq S, Settled(a, G, S)
  PROVE  Settled(b, H, T)
<1> SUFFICES ASSUME NEW j \in Slots(b), b.pending[j].id \in H,
                    b.pending[j].what.kind = "Attached", b.pending[j].claim # Waiting
             PROVE  b.pending[j].what.pid \notin T
  BY SMTT(30) DEF Settled
<1>1. PICK i \in Slots(a) :
        /\ b.pending[j].id = a.pending[i].id
        /\ b.pending[j].what = a.pending[i].what
        /\ \/ b.pending[j].claim = a.pending[i].claim
           \/ a.pending[i].claim # Waiting /\ b.pending[j].claim = Departed
  BY SMTT(30) DEF Follows
<1> QED BY <1>1, Zenon DEF Settled

\* A registered open was given nothing; no other attach with a guard is of its pid.
LEMMA RegisterSettled ==
  ASSUME NEW W, NEW E, NEW a \in Registers(W, E), NEW what \in W, NEW G, NEW S, NEW T,
         Ordered(a), Settled(a, G, S),
         \A i \in Slots(a) : a.pending[i].id \in G /\ a.pending[i].what.kind = "Attached"
                             => a.pending[i].what.pid \notin T
  PROVE  LET b == register(a, what) IN Settled(b, G \cup {b.minted}, S \cup T)
<1> DEFINE b == register(a, what)
           n == Len(a.pending) + 1
<1>1. Registered(a, b, what, n)
  BY RegisterRows, SMTT(30)
<1>2. a.minted \in Nat /\ \A i \in Slots(a) : a.pending[i].id \in Nat
  BY RowsTyped, FieldsTyped, SMTT(30)
<1> HIDE DEF b, n
<1>3. \A i \in Slots(a) : a.pending[i].id # b.minted
  BY <1>1, <1>2, SMTT(30) DEF Registered, Ordered
<1>4. Settled(b, G \cup {b.minted}, S \cup T)
  BY <1>1, <1>3, Zenon DEF Registered, Settled
<1> QED BY <1>4, Zenon DEF b

\* A stop that is delivered settles the attach that is given it.
LEMMA DeliverSettled ==
  ASSUME NEW W, NEW E, NEW a \in Registers(W, E), NEW entry \in E, NEW pids,
         NEW G, NEW S, NEW T, T \subseteq S, entry[2] \notin T, Settled(a, G, S)
  PROVE  Settled(deliver(a, entry, pids), G, T)
<1> DEFINE b == deliver(a, entry, pids)
           takers == Takers(a, entry, pids)
<1>1. CASE takers = {}
  <2>1. b = a
    BY <1>1, DeliverRows, Zenon
  <2> QED BY <2>1, SMTT(30) DEF Settled
<1>2. CASE takers # {}
  <2>1. PICK first \in takers :
          /\ \A i \in Slots(a) \ {first} : b.pending[i] = a.pending[i]
          /\ b.pending[first].id = a.pending[first].id
          /\ b.pending[first].what = a.pending[first].what
    BY <1>2, DeliverRows, SMTT(30)
  <2>2. Slots(b) = Slots(a)
    BY DeliverRows, SMTT(30)
  <2>3. a.pending[first].what.kind = "Attached" => a.pending[first].what.pid = entry[2]
    BY SMTT(30) DEF Takers, wants
  <2> HIDE DEF b, takers
  <2>4. Settled(b, G, T)
    BY <2>1, <2>2, <2>3, SMTT(30) DEF Settled
  <2> QED BY <2>4, SMTT(30) DEF b
<1> QED BY <1>1, <1>2, SMTT(30)

-----------------------------------------------------------------------------
(* Steps that give nothing. *)

\* No open that waited in a was given a process in b.
Quiet(a, b) ==
  \A i \in Slots(a) :
    /\ i <= Len(b.pending)
    /\ a.pending[i].id = b.pending[i].id
    /\ a.pending[i].claim = Waiting
    => b.pending[i].claim \in Marks

\* A register that follows gave nothing.
LEMMA FollowsQuiet ==
  ASSUME NEW W, NEW E, NEW a \in Registers(W, E), Ordered(a),
         NEW b \in Registers(W, E), Follows(a, b)
  PROVE  Quiet(a, b)
<1> SUFFICES ASSUME NEW i \in Slots(a), i <= Len(b.pending),
                    a.pending[i].id = b.pending[i].id, a.pending[i].claim = Waiting
             PROVE  b.pending[i].claim \in Marks
  BY Zenon DEF Quiet
<1>1. i \in Slots(b)
  BY RowsTyped, SMTT(30) DEF Slots
<1>2. PICK k \in Slots(a) :
        /\ b.pending[i].id = a.pending[k].id
        /\ \/ b.pending[i].claim = a.pending[k].claim
           \/ b.pending[i].claim = Departed
  BY <1>1, SMTT(30) DEF Follows
<1>3. k = i
  BY <1>2, OneSlot, Zenon
<1> QED BY <1>2, <1>3, Zenon DEF Marks

\* An open registered behind a register that follows: the rows stay in order, their
\* claims apart and final, and nothing is given.
LEMMA OpenedBehind ==
  ASSUME NEW W, NEW E, NEW a \in Registers(W, E), Ordered(a), Apart(a),
         NEW x \in Registers(W, E), Follows(a, x), NEW what \in W
  PROVE  LET b == register(x, what)
         IN  Ordered(b) /\ Apart(b) /\ Final(a, b) /\ Quiet(a, b)
<1> DEFINE b == register(x, what)
           n == Len(x.pending) + 1
<1>1. Ordered(x) /\ Apart(x) /\ Final(a, x)
  BY FollowsApart, Zenon
<1>2. Ordered(b) /\ Apart(b) /\ Registered(x, b, what, n) /\ b \in Registers(W, E)
  BY <1>1, RegisterApart, RegisterRows, Zenon
<1>3. Quiet(a, x)
  BY FollowsQuiet, SMTT(30)
<1>4. /\ a.minted \in Nat /\ x.minted = a.minted
      /\ \A i \in Slots(a) : a.pending[i].id \in Nat /\ i \in Nat
      /\ Len(x.pending) \in Nat /\ Len(b.pending) \in Nat
  BY <1>2, RowsTyped, FieldsTyped, SMTT(30) DEF Follows
<1> HIDE DEF b, n
<1>5. \A i \in Slots(a) : a.pending[i].id # b.pending[n].id
  BY <1>2, <1>4, SMTT(30) DEF Registered, Ordered
<1>6. Final(a, b)
  BY <1>1, <1>2, <1>5, SMTT(30) DEF Final, Registered
<1>7. Quiet(a, b)
  <2> SUFFICES ASSUME NEW i \in Slots(a), i <= Len(b.pending),
                      a.pending[i].id = b.pending[i].id, a.pending[i].claim = Waiting
               PROVE  b.pending[i].claim \in Marks
    BY Zenon DEF Quiet
  <2>1. i \in Slots(b) /\ i # n
    BY <1>4, <1>5 DEF Slots
  <2>2. i \in Slots(x) /\ b.pending[i] = x.pending[i]
    BY <1>2, <2>1, Zenon DEF Registered
  <2>3. i <= Len(x.pending)
    BY <1>4, <2>2 DEF Slots
  <2> QED BY <1>3, <2>2, <2>3, Zenon DEF Quiet
<1> QED BY <1>2, <1>6, <1>7, Zenon DEF b
=============================================================================
