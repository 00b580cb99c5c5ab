------------------------ MODULE CommunityMessagesProofs ------------------------
(***************************************************************************)
(* What holds of a room's cursor and rows for any page size, number of     *)
(* events, failures and restarts.                                          *)
(*                                                                         *)
(* The recorded range stays right because a page is closed: with an entry  *)
(* it has everything between the cursor and that entry.                    *)
(***************************************************************************)
EXTENDS CommunityMessages, FiniteSetTheorems, TLAPS

-----------------------------------------------------------------------------
\* Sets of numbers.

LEMMA Least ==
  ASSUME NEW N \in Nat, NEW S \in SUBSET (0 .. N), S # {}
  PROVE  \E x \in S : \A y \in S : x <= y
<1> DEFINE Below(x) == {y \in S : y < x}
           Sets == {Below(x) : x \in S}
<1>0. \A x \in S : x \in Nat
  OBVIOUS
<1>1. IsFiniteSet(S)
  <2>1. IsFiniteSet(0 .. N)
    BY FS_Interval
  <2> QED
    BY <2>1, FS_Subset
<1>2. Sets \subseteq FiniteSubsetsOf(S)
  BY <1>1, FS_Subset DEF FiniteSubsetsOf
<1>3. Sets # {}
  OBVIOUS
<1> HIDE DEF Sets
<1>4. PICK B \in Sets : \A C \in Sets : <<C, B>> \notin StrictSubsetOrdering(S)
  BY <1>2, <1>3, WFMin, FS_StrictSubsetOrderingWellFounded
<1> USE DEF Sets
<1>5. PICK x \in S : B = Below(x)
  OBVIOUS
<1>6. ASSUME NEW y \in S, y < x PROVE FALSE
  <2>1. Below(y) \subseteq Below(x) /\ y \in Below(x) /\ y \notin Below(y)
    <3>1. x \in Nat /\ y \in Nat
      BY <1>0
    <3>2. \A z \in S : z < y => z < x
      BY <1>0, <1>6, <3>1
    <3>3. ~ (y < y)
      BY <3>1
    <3> QED
      BY <1>6, <3>2, <3>3, Zenon
  <2>2. Below(y) \in Sets /\ Below(x) \in Sets
    OBVIOUS
  <2>3. <<Below(y), Below(x)>> \in StrictSubsetOrdering(S)
    BY <2>1 DEF StrictSubsetOrdering
  <2> QED
    BY <1>4, <1>5, <2>2, <2>3
<1> QED
  BY <1>0, <1>6

LEMMA MinMax ==
  ASSUME NEW S \in SUBSET (0 .. MaxSeq), S # {}
  PROVE  /\ Min(S) \in S /\ \A x \in S : Min(S) <= x
         /\ Max(S) \in S /\ \A x \in S : x <= Max(S)
<1>0. MaxSeq \in Nat
  BY ConstantsOK
<1>1. \E x \in S : \A y \in S : x <= y
  BY <1>0, Least
<1>2. \E x \in S : \A y \in S : x >= y
  <2> DEFINE T == {MaxSeq - x : x \in S}
  <2>0. \A x \in S : x \in 0 .. MaxSeq /\ MaxSeq - x \in 0 .. MaxSeq
    BY <1>0
  <2>1. T \in SUBSET (0 .. MaxSeq) /\ T # {}
    BY <2>0
  <2>2. PICK m \in T : \A y \in T : m <= y
    BY <2>1, <1>0, Least
  <2>3. PICK x \in S : m = MaxSeq - x
    OBVIOUS
  <2>4. ASSUME NEW y \in S PROVE x >= y
    <3>1. MaxSeq - y \in T
      OBVIOUS
    <3> QED
      BY <1>0, <2>0, <2>2, <2>3, <3>1
  <2> QED
    BY <2>4
<1>3. \A x, y \in S : x >= y => y <= x
  BY <1>0
<1> QED
  BY <1>1, <1>2, <1>3 DEF Min, Max

LEMMA Finite == ASSUME NEW S \in SUBSET Ids PROVE IsFiniteSet(S)
<1>1. IsFiniteSet(Ids)
  BY ConstantsOK, FS_Interval DEF Ids
<1> QED
  BY <1>1, FS_Subset

-----------------------------------------------------------------------------
\* The room and its pages.

Rooms == [Ids -> [kind : Kinds, seq : 0 .. MaxSeq]]
Posted == Ids \ Of("none", Ids)

\* Ids are given in order, and every event has a sequence number of its own.
RoomInv ==
  /\ \E n \in 0 .. MaxSeq : Posted = 1 .. n
  /\ \A i \in Ids : IF i \in Posted THEN room[i].seq \in 1 .. lastSeq ELSE room[i].seq = 0
  /\ \A i, j \in Posted : room[i].seq = room[j].seq => i = j

\* A page by sequence number has all of what comes before an entry of it.
LEMMA SinceClosed ==
  ASSUME room \in Rooms, NEW seq \in 0 .. MaxSeq
  PROVE  /\ Since(seq) \subseteq Posted
         /\ \A i \in Since(seq), j \in Posted :
              seq < room[j].seq /\ room[j].seq <= room[i].seq => j \in Since(seq)
<1> DEFINE later == {i \in Posted : room[i].seq > seq}
           Ahead(i) == {j \in later : room[j].seq < room[i].seq}
<1>1. Since(seq) = {i \in later : Cardinality(Ahead(i)) < Limit}
  BY DEF Since, Posted
<1>2. ASSUME NEW i \in Since(seq), NEW j \in Posted, seq < room[j].seq, room[j].seq <= room[i].seq
      PROVE  j \in Since(seq)
  <2>1. \A k \in Ids : room[k].seq \in Nat
    BY DEF Rooms
  <2>2. i \in Ids /\ j \in Ids /\ later \subseteq Ids
    BY <1>1 DEF Posted
  <2>3. Ahead(j) \subseteq Ahead(i)
    BY <1>2, <2>1, <2>2
  <2>4. Ahead(i) \in SUBSET Ids /\ Ahead(j) \in SUBSET Ids
    BY <2>2
  <2>5. IsFiniteSet(Ahead(i)) /\ IsFiniteSet(Ahead(j))
    BY <2>4, Finite
  <2>6. Cardinality(Ahead(j)) <= Cardinality(Ahead(i))
        /\ Cardinality(Ahead(i)) \in Nat /\ Cardinality(Ahead(j)) \in Nat
    BY <2>3, <2>5, FS_Subset, FS_CardinalityType
  <2>7. Cardinality(Ahead(i)) < Limit /\ Limit \in Nat
    BY <1>1, ConstantsOK
  <2>8. Cardinality(Ahead(j)) < Limit
    BY <2>6, <2>7
  <2> QED
    BY <1>1, <1>2, <2>1, <2>2, <2>8
<1> QED
  BY <1>1, <1>2

\* A page by id has all of the messages that follow an entry of it.
LEMMA BeforeClosed ==
  ASSUME room \in Rooms, NEW id \in 0 .. MaxSeq + 1
  PROVE  /\ Before(id) \subseteq Of("live", Ids) \cup Of("garbled", Ids)
         /\ \A i \in Before(id), j \in Of("live", Ids) :
              j < id /\ i <= j => j \in Before(id)
<1> DEFINE earlier == {i \in Of("live", Ids) \cup Of("garbled", Ids) : i < id}
           After(i) == {j \in earlier : j > i}
<1>1. Before(id) = {i \in earlier : Cardinality(After(i)) < Limit}
  BY DEF Before
<1>2. ASSUME NEW i \in Before(id), NEW j \in Of("live", Ids), j < id, i <= j
      PROVE  j \in Before(id)
  <2>1. earlier \subseteq Ids /\ i \in Ids /\ j \in Ids
    BY <1>1 DEF Of
  <2>2. \A k \in Ids : k \in Nat
    BY DEF Ids
  <2>3. After(j) \subseteq After(i)
    BY <1>2, <2>1, <2>2
  <2>4. After(i) \in SUBSET Ids /\ After(j) \in SUBSET Ids
    BY <2>1
  <2>5. IsFiniteSet(After(i)) /\ IsFiniteSet(After(j))
    BY <2>4, Finite
  <2>6. Cardinality(After(j)) <= Cardinality(After(i))
        /\ Cardinality(After(i)) \in Nat /\ Cardinality(After(j)) \in Nat
    BY <2>3, <2>5, FS_Subset, FS_CardinalityType
  <2>7. Cardinality(After(i)) < Limit /\ Limit \in Nat
    BY <1>1, ConstantsOK
  <2>8. Cardinality(After(j)) < Limit
    BY <2>6, <2>7
  <2> QED
    BY <1>1, <1>2, <2>8
<1> QED
  BY <1>1, <1>2

-----------------------------------------------------------------------------
\* The server's steps.

\* A new message gets an id that was free; no event brings a deleted one back.
LEMMA EventOf ==
  ASSUME room \in Rooms, RoomInv, Post \/ Update \/ Delete
  PROVE  \E i \in Ids, kind \in Kinds \ {"none"} :
           /\ Event(i, kind) /\ room[i].kind # "deleted"
           /\ \E n \in 0 .. MaxSeq : Posted \cup {i} = 1 .. n
<1> DEFINE Good(i, kind) == /\ Event(i, kind) /\ room[i].kind # "deleted"
                            /\ \E n \in 0 .. MaxSeq : Posted \cup {i} = 1 .. n
<1>1. CASE Post
  <2>1. PICK n \in 0 .. MaxSeq : Posted = 1 .. n
    BY DEF RoomInv
  <2>2. NextId = n + 1
    <3>1. Cardinality(1 .. n) = n
      BY <2>1, FS_Interval
    <3> QED
      BY <2>1, <3>1 DEF NextId, Posted
  <2>3. n + 1 \in Ids /\ n + 1 \in 0 .. MaxSeq /\ n + 1 \notin Posted
    BY <1>1, <2>1, <2>2 DEF Post, Ids
  <2>4. room[n + 1].kind = "none"
    BY <2>3 DEF Posted, Of
  <2>5. Posted \cup {n + 1} = 1 .. n + 1
    BY <2>1
  <2> QED
    BY <1>1, <2>2, <2>3, <2>4, <2>5 DEF Post, Kinds
<1>2. CASE Update \/ Delete
  <2>1. PICK i \in Of("live", Ids) \cup Of("garbled", Ids), kind \in {"live", "deleted"} : Event(i, kind)
    BY <1>2 DEF Update, Delete
  <2>2. i \in Ids /\ i \in Posted /\ room[i].kind # "deleted"
    BY DEF Of, Posted
  <2>3. Posted \cup {i} = Posted
    BY <2>2
  <2> QED
    BY <2>1, <2>2, <2>3 DEF RoomInv, Kinds
<1> QED
  BY <1>1, <1>2

\* What an event changes.
LEMMA EventRoom ==
  ASSUME room \in Rooms, lastSeq \in 0 .. MaxSeq, RoomInv,
         NEW i \in Ids, NEW kind \in Kinds \ {"none"}, Event(i, kind),
         \E n \in 0 .. MaxSeq : Posted \cup {i} = 1 .. n
  PROVE  /\ room' \in Rooms /\ lastSeq' \in 0 .. MaxSeq /\ RoomInv' /\ lastSeq' = lastSeq + 1
         /\ room'[i] = [kind |-> kind, seq |-> lastSeq + 1]
         /\ \A j \in Ids \ {i} : room'[j] = room[j]
<1>0. MaxSeq \in Nat /\ lastSeq \in Nat
  BY ConstantsOK
<1>1. /\ lastSeq' = lastSeq + 1 /\ lastSeq + 1 \in 0 .. MaxSeq
      /\ room' = [room EXCEPT ![i] = [kind |-> kind, seq |-> lastSeq + 1]]
  <2>1. /\ lastSeq < MaxSeq /\ lastSeq' = lastSeq + 1
        /\ room' = [room EXCEPT ![i] = [kind |-> kind, seq |-> lastSeq + 1]]
    BY DEF Event
  <2> QED
    BY <1>0, <2>1
<1>2. /\ room'[i] = [kind |-> kind, seq |-> lastSeq + 1]
      /\ \A j \in Ids \ {i} : room'[j] = room[j]
  BY <1>1 DEF Rooms
<1>3. room' \in Rooms
  BY <1>1 DEF Rooms
<1>4. Posted' = Posted \cup {i}
  BY <1>2 DEF Posted, Of
<1>5. RoomInv'
  <2>1. \A j \in Ids : IF j \in Posted' THEN room'[j].seq \in 1 .. lastSeq' ELSE room'[j].seq = 0
    BY <1>1, <1>2, <1>4 DEF RoomInv
  <2>2. \A j \in Posted : room[j].seq < lastSeq + 1 /\ j \in Ids
    BY DEF RoomInv, Posted
  <2>3. \A j, k \in Posted' : room'[j].seq = room'[k].seq => j = k
    BY <1>2, <1>4, <2>2 DEF RoomInv
  <2> QED
    BY <1>4, <2>1, <2>3 DEF RoomInv
<1> QED
  BY <1>1, <1>2, <1>3, <1>5

-----------------------------------------------------------------------------
\* The cursor.

RealCursors == [earliest : 0 .. MaxSeq, latest : 0 .. MaxSeq]

\* A cursor is never ahead of the server; nothing is saved without one.
CursorInv ==
  /\ mem # NoState => mem.latest <= lastSeq
  /\ stored # NoState => stored.latest <= lastSeq
  /\ stored = NoState => \A i \in Ids : saved[i] = 0
  /\ task = "initial" => stored = NoState
  /\ task = "polling" => mem # NoState

LEMMA IsReal ==
  ASSUME NEW cursor \in Cursors
  PROVE  cursor # NoState <=> cursor \in RealCursors
<1>1. MaxSeq \in Nat
  BY ConstantsOK
<1>2. NoState \notin RealCursors
  BY <1>1 DEF NoState, Cursor, RealCursors
<1> QED
  BY <1>2 DEF Cursors, RealCursors

\* Where a page's messages move the cursor.
LEMMA AdvanceCursor ==
  ASSUME room \in Rooms, lastSeq \in 0 .. MaxSeq, RoomInv,
         NEW state \in RealCursors, state.latest <= lastSeq, NEW page \in SUBSET Posted,
         NEW ue \in BOOLEAN, NEW ul \in BOOLEAN
  PROVE  /\ Advance(state, page, ue, ul) \in RealCursors
         /\ Advance(state, page, ue, ul).latest <= lastSeq
         /\ Of("live", page) = {} => Advance(state, page, ue, ul) = state
         /\ Of("live", page) # {} =>
              /\ ue => Advance(state, page, ue, ul).earliest \in Of("live", page)
              /\ ~ue => Advance(state, page, ue, ul).earliest = state.earliest
              /\ ul => \E k \in Of("live", page) : Advance(state, page, ue, ul).latest = room[k].seq
              /\ ~ul => Advance(state, page, ue, ul).latest = state.latest
<1> DEFINE live == Of("live", page)
           next == Advance(state, page, ue, ul)
<1>0. live \subseteq Posted /\ Posted \subseteq Ids
  BY DEF Posted, Of
<1>1. CASE live = {}
  BY <1>1 DEF Advance
<1>2. CASE live # {}
  <2> DEFINE seqs == {room[i].seq : i \in live}
  <2>1. MaxSeq \in Nat /\ lastSeq \in Nat
    BY ConstantsOK
  <2>2. live \in SUBSET (0 .. MaxSeq)
    <3>1. Ids \subseteq 0 .. MaxSeq
      BY <2>1 DEF Ids
    <3> HIDE DEF Ids
    <3> QED
      BY <1>0, <3>1, Zenon
  <2>3. seqs \in SUBSET (0 .. MaxSeq) /\ seqs # {} /\ \A s \in seqs : s <= lastSeq
    <3>1. \A i \in live : room[i].seq \in 1 .. lastSeq
      BY <1>0 DEF RoomInv
    <3> QED
      BY <1>2, <2>1, <3>1
  <2>4. Min(live) \in live
    BY <1>2, <2>2, MinMax
  <2>5. Max(seqs) \in seqs
    BY <2>3, MinMax
  <2>6. next = [earliest |-> IF ue THEN Min(live) ELSE state.earliest,
                latest |-> IF ul THEN Max(seqs) ELSE state.latest]
    BY <1>2 DEF Advance
  <2> HIDE DEF seqs
  <2>7. next \in RealCursors /\ next.latest <= lastSeq
    <3>1. Min(live) \in 0 .. MaxSeq
      BY <2>2, <2>4, Zenon
    <3>2. Max(seqs) \in 0 .. MaxSeq /\ Max(seqs) <= lastSeq
      BY <2>3, <2>5, Zenon
    <3>3. state.earliest \in 0 .. MaxSeq /\ state.latest \in 0 .. MaxSeq
      BY DEF RealCursors
    <3> DEFINE e == IF ue THEN Min(live) ELSE state.earliest
               l == IF ul THEN Max(seqs) ELSE state.latest
    <3>4. e \in 0 .. MaxSeq /\ l \in 0 .. MaxSeq /\ l <= lastSeq
      BY <3>1, <3>2, <3>3
    <3>5. next = [earliest |-> e, latest |-> l]
      BY <2>6
    <3> HIDE DEF e, l
    <3> QED
      BY <3>4, <3>5 DEF RealCursors
  <2>8. (ue => next.earliest \in live) /\ (~ue => next.earliest = state.earliest)
    BY <2>4, <2>6
  <2>9. (ul => next.latest \in seqs) /\ (~ul => next.latest = state.latest)
    BY <2>5, <2>6
  <2> QED
    BY <1>2, <2>7, <2>8, <2>9 DEF seqs
<1> QED
  BY <1>1, <1>2

-----------------------------------------------------------------------------
\* The recorded range.

\* A deletion is marked whatever the earliest message is: it comes by sequence number.
RangeKept ==
  ~skipped =>
    \A i \in Ids :
      /\ room[i].kind = "live" /\ InRange(i) => saved[i] = room[i].seq
      /\ /\ room[i].kind = "deleted" /\ saved[i] # 0
         /\ stored # NoState /\ room[i].seq <= stored.latest
         => i \in marked

IInv == TypeOK /\ RoomInv /\ CursorInv /\ RangeKept /\ HiddenIsDeleted

\* What a range up to the cursor has more than the recorded one is on the page.
Covers(page, cursor) ==
  /\ \A i \in Of("live", Ids) :
       i >= cursor.earliest /\ room[i].seq <= cursor.latest => InRange(i) \/ i \in page
  /\ \A i \in Of("deleted", Ids) :
       saved[i] # 0 /\ room[i].seq <= cursor.latest
       => (stored # NoState /\ room[i].seq <= stored.latest) \/ i \in page

\* A page is saved: the range stays right if the page covers what it adds.
LEMMA SaveRange ==
  ASSUME IInv, UNCHANGED <<room, lastSeq, elsewhere>>,
         NEW state \in RealCursors, state.latest <= lastSeq, NEW page \in SUBSET Posted,
         NEW ue \in BOOLEAN, NEW ul \in BOOLEAN, SavePage(state, page, ue, ul),
         NEW next, next = Advance(state, page, ue, ul),
         state = Recorded /\ Of("live", page) \cup Of("deleted", page) # {} => Covers(page, next)
  PROVE  /\ mem' = next /\ mem' \in RealCursors /\ mem'.latest <= lastSeq
         /\ stored' \in Cursors /\ (stored' # NoState => stored'.latest <= lastSeq)
         /\ stored' = NoState => \A i \in Ids : saved'[i] = 0
         /\ saved' \in [Ids -> 0 .. MaxSeq] /\ marked' \subseteq Ids /\ skipped' \in BOOLEAN
         /\ RangeKept' /\ HiddenIsDeleted'
<1> DEFINE live == Of("live", page)
           deleted == Of("deleted", page)
<1>0. /\ room \in Rooms /\ lastSeq \in 0 .. MaxSeq /\ RoomInv /\ MaxSeq \in Nat
      /\ saved \in [Ids -> 0 .. MaxSeq] /\ marked \subseteq Ids
      /\ room' = room /\ lastSeq' = lastSeq /\ elsewhere' = elsewhere
  BY ConstantsOK DEF IInv, TypeOK, Rooms
<1>1. live \subseteq Ids /\ deleted \subseteq Ids
  BY DEF Of, Posted
<1>2. next \in RealCursors /\ next.latest <= lastSeq /\ (live = {} => next = state)
  BY <1>0, AdvanceCursor
<1>3. next \in Cursors /\ next # NoState
  <2>1. next \in Cursors
    BY <1>2 DEF Cursors, RealCursors
  <2> QED
    BY <1>2, <2>1, IsReal
<1>4. /\ mem' = next /\ stored' = IF live \cup deleted = {} THEN stored ELSE next
      /\ saved' = [i \in Ids |-> IF i \in live THEN room[i].seq ELSE saved[i]]
      /\ marked' = marked \cup {i \in deleted : saved[i] # 0}
      /\ skipped' = (skipped \/ (live \cup deleted # {} /\ state # Recorded))
  BY DEF SavePage, SaveReactions, Rows
<1>5. saved' \in [Ids -> 0 .. MaxSeq]
  BY <1>0, <1>4 DEF Rooms
<1>6. marked' \subseteq Ids
  BY <1>0, <1>1, <1>4
<1>7. HiddenIsDeleted'
  BY <1>0, <1>4 DEF HiddenIsDeleted, IInv, Of
<1>8. CASE live \cup deleted = {}
  <2>1. saved' = saved /\ marked' = marked /\ stored' = stored /\ skipped' = skipped
    <3>1. live = {} /\ deleted = {}
      BY <1>8
    <3>2. saved' = [i \in Ids |-> saved[i]]
      BY <1>4, <3>1
    <3> QED
      BY <1>0, <1>4, <1>8, <3>1, <3>2 DEF IInv, TypeOK
  <2>2. RangeKept'
    BY <1>0, <2>1 DEF RangeKept, IInv, InRange
  <2> QED
    BY <1>2, <1>4, <1>5, <1>6, <1>7, <2>1, <2>2 DEF IInv, TypeOK, CursorInv
<1>9. CASE live \cup deleted # {}
  <2>1. stored' = next /\ (~skipped' => ~skipped /\ state = Recorded)
    BY <1>4, <1>9
  <2>2. skipped' \in BOOLEAN
    BY <1>4, <1>9 DEF IInv, TypeOK
  <2>3. ASSUME ~skipped', NEW i \in Ids, room[i].kind = "live", i >= next.earliest, room[i].seq <= next.latest
        PROVE  saved'[i] = room[i].seq
    <3>1. i \in Of("live", Ids)
      BY <2>3 DEF Of
    <3>2. InRange(i) \/ i \in page
      BY <1>9, <2>1, <2>3, <3>1 DEF Covers
    <3>3. i \in page => i \in live
      BY <2>3 DEF Of
    <3>4. InRange(i) => saved[i] = room[i].seq
      BY <2>1, <2>3 DEF IInv, RangeKept
    <3> QED
      BY <1>4, <3>2, <3>3, <3>4
  <2>4. ASSUME ~skipped', NEW i \in Ids, room[i].kind = "deleted", saved'[i] # 0, room[i].seq <= next.latest
        PROVE  i \in marked'
    <3>1. i \in Of("deleted", Ids) /\ i \notin live /\ saved[i] # 0
      BY <1>4, <2>4 DEF Of
    <3>2. (stored # NoState /\ room[i].seq <= stored.latest) \/ i \in page
      BY <1>9, <2>1, <2>4, <3>1 DEF Covers
    <3>3. i \in page => i \in deleted
      BY <2>4 DEF Of
    <3>4. stored # NoState /\ room[i].seq <= stored.latest => i \in marked
      BY <2>1, <2>4, <3>1 DEF IInv, RangeKept
    <3> QED
      BY <1>4, <3>1, <3>2, <3>3, <3>4
  <2>5. RangeKept'
    <3>1. NoState' = NoState
      BY DEF NoState, Cursor
    <3> QED
      BY <1>0, <2>1, <2>3, <2>4, <3>1 DEF RangeKept, InRange
  <2> QED
    BY <1>2, <1>3, <1>4, <1>5, <1>6, <1>7, <2>1, <2>2, <2>5
<1> QED
  BY <1>8, <1>9

\* The page of a poll goes on from the recorded sequence number, and is closed.
LEMMA LatestCovers ==
  ASSUME IInv, NEW state \in RealCursors, state.latest <= lastSeq, state = Recorded,
         NEW next, next = Advance(state, Since(state.latest), FALSE, TRUE)
  PROVE  Covers(Since(state.latest), next)
<1> DEFINE page == Since(state.latest)
<1>0. /\ room \in Rooms /\ lastSeq \in 0 .. MaxSeq /\ RoomInv /\ MaxSeq \in Nat
      /\ state.latest \in 0 .. MaxSeq
  BY ConstantsOK DEF IInv, TypeOK, Rooms, RealCursors
<1>1. /\ page \subseteq Posted
      /\ \A i \in page, j \in Posted :
           state.latest < room[j].seq /\ room[j].seq <= room[i].seq => j \in page
  BY <1>0, SinceClosed
<1>2. /\ next.earliest = state.earliest
      /\ next.latest = state.latest \/ \E k \in page : next.latest = room[k].seq
  <2>1. /\ next \in RealCursors
        /\ Of("live", page) = {} => next = state
        /\ Of("live", page) # {} => /\ next.earliest = state.earliest
                                   /\ \E k \in Of("live", page) : next.latest = room[k].seq
    <3>1. page \in SUBSET Posted
      BY <1>1
    <3> HIDE DEF page
    <3>2. next = Advance(state, page, FALSE, TRUE)
      BY DEF page
    <3> DEFINE adv == Advance(state, page, FALSE, TRUE)
    <3>3. adv \in RealCursors /\ (Of("live", page) = {} => adv = state)
      BY <1>0, <3>1, AdvanceCursor
    <3>4. Of("live", page) # {} => adv.earliest = state.earliest
      BY <1>0, <3>1, AdvanceCursor
    <3>5. Of("live", page) # {} => \E k \in Of("live", page) : adv.latest = room[k].seq
      BY <1>0, <3>1, AdvanceCursor
    <3> HIDE DEF adv
    <3>6. next = adv
      BY <3>2 DEF adv
    <3> QED
      BY <3>3, <3>4, <3>5, <3>6
  <2>2. Of("live", page) \subseteq page
    BY DEF Of
  <2> QED
    BY <2>1, <2>2
<1>3. \A i \in Posted : room[i].seq \in 1 .. lastSeq /\ i \in Ids
  BY <1>0 DEF RoomInv, Posted
<1>4. ASSUME NEW i \in Posted, room[i].seq <= next.latest, i \notin page
      PROVE  stored # NoState /\ state = stored /\ room[i].seq <= stored.latest
  <2>0. room[i].seq \in Nat /\ state.latest \in Nat /\ \A k \in page : k \in Posted
    BY <1>0, <1>1, <1>3
  <2>1. room[i].seq <= state.latest
    <3>1. CASE next.latest = state.latest
      BY <1>4, <3>1
    <3>2. ASSUME NEW k \in page, next.latest = room[k].seq PROVE room[i].seq <= state.latest
      <4>1. ~ (state.latest < room[i].seq)
        BY <1>1, <1>4, <3>2
      <4> QED
        BY <2>0, <4>1
    <3> QED
      BY <1>2, <3>1, <3>2
  <2>2. stored # NoState
    BY <1>0, <1>3, <2>1 DEF Recorded, EmptyRoom, Cursor
  <2> QED
    BY <2>1, <2>2 DEF Recorded
<1>5. ASSUME NEW kind \in {"live", "deleted"}, NEW i \in Of(kind, Ids) PROVE i \in Posted
  BY DEF Of, Posted
<1> QED
  BY <1>2, <1>4, <1>5 DEF Covers, InRange

\* The page before the recorded earliest message.
LEMMA EarlierCovers ==
  ASSUME IInv, NEW state \in RealCursors, state.latest <= lastSeq, state = Recorded,
         NEW next, next = Advance(state, Before(state.earliest), TRUE, FALSE),
         Of("live", Before(state.earliest)) \cup Of("deleted", Before(state.earliest)) # {}
  PROVE  Covers(Before(state.earliest), next)
<1> DEFINE page == Before(state.earliest)
<1>0. /\ room \in Rooms /\ lastSeq \in 0 .. MaxSeq /\ RoomInv /\ MaxSeq \in Nat
      /\ state.earliest \in 0 .. MaxSeq /\ state.earliest \in 0 .. MaxSeq + 1
  BY ConstantsOK DEF IInv, TypeOK, Rooms, RealCursors
<1>1. /\ page \subseteq Of("live", Ids) \cup Of("garbled", Ids)
      /\ \A i \in page, j \in Of("live", Ids) : j < state.earliest /\ i <= j => j \in page
  BY <1>0, BeforeClosed
<1>2. page \subseteq Posted
  BY <1>1 DEF Of, Posted
<1>3. /\ next.latest = state.latest
      /\ next.earliest = state.earliest \/ next.earliest \in page
  <2>1. /\ Of("live", page) = {} => next = state
        /\ Of("live", page) # {} => /\ next.earliest \in Of("live", page)
                                   /\ next.latest = state.latest
    <3>1. page \in SUBSET Posted
      BY <1>2
    <3> HIDE DEF page
    <3>2. next = Advance(state, page, TRUE, FALSE)
      BY DEF page
    <3> DEFINE adv == Advance(state, page, TRUE, FALSE)
    <3>3. Of("live", page) = {} => adv = state
      BY <1>0, <3>1, AdvanceCursor
    <3>4. Of("live", page) # {} => adv.earliest \in Of("live", page)
      BY <1>0, <3>1, AdvanceCursor
    <3>5. Of("live", page) # {} => adv.latest = state.latest
      BY <1>0, <3>1, AdvanceCursor
    <3> HIDE DEF adv
    <3>6. next = adv
      BY <3>2 DEF adv
    <3> QED
      BY <3>3, <3>4, <3>5, <3>6
  <2>2. Of("live", page) \subseteq page
    BY DEF Of
  <2> QED
    BY <2>1, <2>2
<1>4. stored # NoState /\ state = stored
  <2>1. PICK i \in Ids : i \in page
    <3>1. page # {}
      BY DEF Of
    <3>2. page \subseteq Ids
      BY <1>2 DEF Posted
    <3> QED
      BY <3>1, <3>2, Zenon
  <2>2. i \in Nat \ {0} /\ i < state.earliest
    BY <1>0, <2>1 DEF Before, Of, Ids
  <2>3. state.earliest # 0
    BY <1>0, <2>2
  <2> QED
    BY <2>3 DEF Recorded, EmptyRoom, Cursor
<1>5. ASSUME NEW i \in Of("live", Ids), i >= next.earliest, i \notin page
      PROVE  i >= state.earliest
  <2>1. i \in Nat
    BY DEF Of, Ids
  <2>2. \A k \in page : k \in Nat
    BY <1>2 DEF Posted, Ids
  <2>3. CASE next.earliest = state.earliest
    BY <1>5, <2>3
  <2>4. CASE next.earliest \in page
    <3>1. ~ (i < state.earliest)
      BY <1>1, <1>5, <2>1, <2>2, <2>4
    <3> QED
      BY <1>0, <2>1, <3>1
  <2> QED
    BY <1>3, <2>3, <2>4
<1> QED
  BY <1>3, <1>4, <1>5 DEF Covers, InRange

\* The first page.
LEMMA InitialCovers ==
  ASSUME IInv, stored = NoState, NEW next, next = Advance(EmptyRoom, Recent, TRUE, TRUE),
         Of("live", Recent) \cup Of("deleted", Recent) # {}
  PROVE  Covers(Recent, next)
<1>0. /\ room \in Rooms /\ lastSeq \in 0 .. MaxSeq /\ RoomInv /\ MaxSeq \in Nat
      /\ MaxSeq + 1 \in 0 .. MaxSeq + 1
  BY ConstantsOK DEF IInv, TypeOK, Rooms
<1>1. /\ Recent \subseteq Of("live", Ids) \cup Of("garbled", Ids)
      /\ \A i \in Recent, j \in Of("live", Ids) : j < MaxSeq + 1 /\ i <= j => j \in Recent
  BY <1>0, BeforeClosed DEF Recent
<1>2. Recent \subseteq Posted
  BY <1>1 DEF Of, Posted
<1>3. EmptyRoom \in RealCursors /\ EmptyRoom.latest <= lastSeq
  BY <1>0 DEF EmptyRoom, Cursor, RealCursors
<1>4. Of("deleted", Recent) = {}
  BY <1>1 DEF Of
<1>5. next.earliest \in Of("live", Recent)
  <2>1. Of("live", Recent) # {}
    BY <1>4
  <2> QED
    BY <1>0, <1>2, <1>3, <2>1, AdvanceCursor
<1>6. ASSUME NEW i \in Of("live", Ids), i >= next.earliest PROVE i \in Recent
  <2>1. i \in Nat /\ i < MaxSeq + 1
    BY <1>0 DEF Of, Ids
  <2>2. next.earliest \in Recent
    BY <1>5 DEF Of
  <2> QED
    BY <1>1, <1>6, <2>1, <2>2
<1>7. \A i \in Of("deleted", Ids) : saved[i] = 0
  BY DEF IInv, CursorInv, Of
<1> QED
  BY <1>6, <1>7 DEF Covers

-----------------------------------------------------------------------------
\* The steps.

LEMMA InitIInv == Init => IInv
<1> SUFFICES ASSUME Init PROVE IInv
  OBVIOUS
<1> USE ConstantsOK DEF Init
<1>0. room = [i \in Ids |-> [kind |-> "none", seq |-> 0]] /\ Posted = {}
  BY DEF Posted, Of
<1>1. TypeOK
  <2>1. room \in [Ids -> [kind : Kinds, seq : 0 .. MaxSeq]]
    BY <1>0 DEF Kinds
  <2>2. NoState \in Cursors
    BY DEF Cursors
  <2>3. saved \in [Ids -> 0 .. MaxSeq]
    OBVIOUS
  <2>4. lastSeq \in 0 .. MaxSeq /\ failures \in 0 .. MaxFailures /\ restarts \in 0 .. MaxRestarts
    OBVIOUS
  <2>5. mem \in Cursors /\ stored \in Cursors
    BY <2>2
  <2>6. marked \subseteq Ids /\ elsewhere \subseteq Ids /\ skipped \in BOOLEAN
        /\ task \in {"start", "initial", "polling", "ended"}
    OBVIOUS
  <2> QED
    BY <2>1, <2>3, <2>4, <2>5, <2>6, Zenon DEF TypeOK
<1>2. RoomInv
  <2>1. 0 \in 0 .. MaxSeq /\ Posted = 1 .. 0
    BY <1>0
  <2>2. \E n \in 0 .. MaxSeq : Posted = 1 .. n
    BY <2>1
  <2> QED
    BY <1>0, <2>2 DEF RoomInv
<1>3. CursorInv /\ RangeKept /\ HiddenIsDeleted
  BY <1>0 DEF CursorInv, RangeKept, HiddenIsDeleted, InRange
<1> QED
  BY <1>1, <1>2, <1>3 DEF IInv

\* An event is past every cursor.
LEMMA EventStep == IInv /\ (Post \/ Update \/ Delete) => IInv'
<1> SUFFICES ASSUME IInv, Post \/ Update \/ Delete PROVE IInv'
  OBVIOUS
<1>0. room \in Rooms /\ lastSeq \in 0 .. MaxSeq /\ RoomInv /\ MaxSeq \in Nat
  BY ConstantsOK DEF IInv, TypeOK, Rooms
<1>1. PICK i \in Ids, kind \in Kinds \ {"none"} :
        /\ Event(i, kind) /\ room[i].kind # "deleted"
        /\ \E n \in 0 .. MaxSeq : Posted \cup {i} = 1 .. n
  BY <1>0, EventOf
<1>2. /\ room' \in Rooms /\ lastSeq' \in 0 .. MaxSeq /\ RoomInv' /\ lastSeq' = lastSeq + 1
      /\ room'[i] = [kind |-> kind, seq |-> lastSeq + 1]
      /\ \A j \in Ids \ {i} : room'[j] = room[j]
  BY <1>0, <1>1, EventRoom
<1>3. /\ task' = task /\ mem' = mem /\ stored' = stored /\ saved' = saved /\ marked' = marked
      /\ skipped' = skipped /\ elsewhere' = elsewhere /\ failures' = failures
      /\ restarts' = restarts /\ NoState' = NoState
  BY <1>1 DEF Event, client, NoState, Cursor
<1>4. TypeOK'
  BY <1>2, <1>3 DEF IInv, TypeOK, Rooms
<1>5. CursorInv'
  <2>1. \A c \in Cursors : c # NoState => c.latest \in Nat
    BY <1>0, IsReal DEF RealCursors
  <2>2. mem \in Cursors /\ stored \in Cursors /\ CursorInv /\ lastSeq \in Nat
    BY <1>0 DEF IInv, TypeOK
  <2>3. (mem # NoState => mem.latest <= lastSeq + 1) /\ (stored # NoState => stored.latest <= lastSeq + 1)
    BY <2>1, <2>2 DEF CursorInv
  <2> QED
    BY <1>2, <1>3, <2>2, <2>3 DEF CursorInv
<1>6. RangeKept'
  <2>1. ASSUME stored # NoState PROVE ~ (room'[i].seq <= stored.latest)
    <3>1. stored.latest \in Nat /\ stored.latest <= lastSeq
      BY <1>0, <2>1, IsReal DEF IInv, TypeOK, CursorInv, RealCursors
    <3> QED
      BY <1>0, <1>2, <3>1
  <2> QED
    BY <1>2, <1>3, <2>1 DEF IInv, RangeKept, InRange
<1>7. HiddenIsDeleted'
  BY <1>1, <1>2, <1>3 DEF IInv, HiddenIsDeleted, TypeOK
<1> QED
  BY <1>2, <1>4, <1>5, <1>6, <1>7 DEF IInv

\* A transaction that fails leaves the database as it was.
LEMMA LoseStep ==
  ASSUME IInv, UNCHANGED <<room, lastSeq, elsewhere, restarts>>,
         NEW state \in RealCursors, state.latest <= lastSeq, NEW page \in SUBSET Posted,
         NEW ue \in BOOLEAN, NEW ul \in BOOLEAN, LosePage(state, page, ue, ul),
         task' = "ended" \/ (task' = task /\ task = "polling")
  PROVE  IInv'
<1>0. room \in Rooms /\ lastSeq \in 0 .. MaxSeq /\ RoomInv
  BY DEF IInv, TypeOK, Rooms
<1>1. mem' \in RealCursors /\ mem'.latest <= lastSeq
  BY <1>0, AdvanceCursor DEF LosePage
<1>2. mem' \in Cursors
  BY <1>1 DEF Cursors, RealCursors
<1>3. mem' # NoState
  BY <1>1, <1>2, IsReal
<1>4. /\ stored' = stored /\ saved' = saved /\ marked' = marked /\ skipped' = skipped
      /\ room' = room /\ lastSeq' = lastSeq /\ elsewhere' = elsewhere /\ restarts' = restarts
      /\ failures' \in 0 .. MaxFailures /\ NoState' = NoState
  BY ConstantsOK DEF LosePage, IInv, TypeOK, NoState, Cursor
<1>5. TypeOK'
  BY <1>2, <1>4 DEF IInv, TypeOK
<1>6. RoomInv' /\ RangeKept' /\ HiddenIsDeleted'
  BY <1>4 DEF IInv, RoomInv, RangeKept, HiddenIsDeleted, InRange, Posted, Of
<1>7. CursorInv'
  BY <1>1, <1>3, <1>4 DEF IInv, CursorInv
<1> QED
  BY <1>5, <1>6, <1>7 DEF IInv

\* What a saved page leaves (SaveRange) makes the invariant.
LEMMA SavedStep ==
  ASSUME IInv, UNCHANGED <<room, lastSeq, elsewhere, restarts, failures>>, task' = "polling",
         mem' \in RealCursors, mem'.latest <= lastSeq,
         stored' \in Cursors, stored' # NoState => stored'.latest <= lastSeq,
         stored' = NoState => \A i \in Ids : saved'[i] = 0,
         saved' \in [Ids -> 0 .. MaxSeq], marked' \subseteq Ids, skipped' \in BOOLEAN,
         RangeKept', HiddenIsDeleted'
  PROVE  IInv'
<1>1. mem' \in Cursors
  BY DEF Cursors, RealCursors
<1>2. mem' # NoState /\ NoState' = NoState
  BY <1>1, IsReal DEF NoState, Cursor
<1>3. TypeOK'
  BY <1>1 DEF IInv, TypeOK
<1>4. RoomInv'
  BY DEF IInv, RoomInv, Posted, Of
<1>5. CursorInv'
  BY <1>2 DEF CursorInv
<1> QED
  BY <1>3, <1>4, <1>5 DEF IInv

LEMMA StepIInv == IInv /\ [Next]_vars => IInv'
<1> SUFFICES ASSUME IInv, [Next]_vars PROVE IInv'
  OBVIOUS
<1>0. /\ room \in Rooms /\ lastSeq \in 0 .. MaxSeq /\ RoomInv /\ MaxSeq \in Nat
      /\ NoState' = NoState
  BY ConstantsOK DEF IInv, TypeOK, Rooms, NoState, Cursor
<1>1. CASE Post \/ Update \/ Delete
  BY <1>1, EventStep
<1>2. CASE Start
  <2>1. mem' = stored /\ task' \in {"initial", "polling"}
        /\ (task' = "initial" <=> stored = NoState)
    BY <1>2 DEF Start
  <2>2. UNCHANGED <<room, lastSeq, stored, saved, marked, skipped, elsewhere, failures, restarts>>
    BY <1>2 DEF Start
  <2>3. TypeOK'
    BY <2>1, <2>2 DEF IInv, TypeOK
  <2>4. CursorInv'
    BY <1>0, <2>1, <2>2 DEF IInv, CursorInv
  <2> QED
    BY <1>0, <2>2, <2>3, <2>4 DEF IInv, RoomInv, RangeKept, HiddenIsDeleted, InRange, Posted, Of
<1>3. CASE LoadInitial
  <2>1. EmptyRoom \in RealCursors /\ EmptyRoom.latest <= lastSeq
    BY <1>0 DEF EmptyRoom, Cursor, RealCursors
  <2>2. stored = NoState /\ Recorded = EmptyRoom
    BY <1>3 DEF LoadInitial, IInv, CursorInv, Recorded
  <2>3. Recent \in SUBSET Posted
    <3>1. Recent \subseteq Of("live", Ids) \cup Of("garbled", Ids)
      BY <1>0, BeforeClosed DEF Recent
    <3> QED
      BY <3>1 DEF Of, Posted
  <2>4. CASE SavePage(EmptyRoom, Recent, TRUE, TRUE) /\ task' = "polling" /\ UNCHANGED failures
    <3> DEFINE next == Advance(EmptyRoom, Recent, TRUE, TRUE)
    <3>1. UNCHANGED <<room, lastSeq, elsewhere, restarts, failures>>
      BY <1>3, <2>4 DEF LoadInitial
    <3>2. SavePage(EmptyRoom, Recent, TRUE, TRUE) /\ task' = "polling"
      BY <2>4
    <3> HIDE DEF next
    <3>3. next = Advance(EmptyRoom, Recent, TRUE, TRUE)
      BY DEF next
    <3>4. EmptyRoom = Recorded /\ Of("live", Recent) \cup Of("deleted", Recent) # {} => Covers(Recent, next)
      BY <2>2, <3>3, InitialCovers
    <3>5. IInv'
      BY <2>1, <2>3, <3>1, <3>2, <3>3, <3>4, SaveRange, SavedStep
    <3> QED
      BY <3>5
  <2>5. CASE LosePage(EmptyRoom, Recent, TRUE, TRUE) /\ task' = "ended"
    BY <1>3, <2>1, <2>3, <2>5, LoseStep DEF LoadInitial
  <2> QED
    BY <1>3, <2>4, <2>5 DEF LoadInitial
<1>p. ASSUME task = "polling" PROVE mem \in RealCursors /\ mem.latest <= lastSeq
  BY <1>p, IsReal DEF IInv, TypeOK, CursorInv
<1>4. CASE LoadLatest
  <2>1. mem \in RealCursors /\ mem.latest <= lastSeq /\ mem.latest \in 0 .. MaxSeq
    BY <1>4, <1>p DEF LoadLatest, RealCursors
  <2>2. Since(mem.latest) \in SUBSET Posted
    BY <1>0, <2>1, SinceClosed
  <2>3. UNCHANGED <<room, lastSeq, task, elsewhere, restarts>> /\ task = "polling"
    BY <1>4 DEF LoadLatest
  <2>4. CASE SavePage(mem, Since(mem.latest), FALSE, TRUE) /\ UNCHANGED failures
    <3> DEFINE next == Advance(mem, Since(mem.latest), FALSE, TRUE)
    <3> HIDE DEF next
    <3>1. next = Advance(mem, Since(mem.latest), FALSE, TRUE)
      BY DEF next
    <3>2. mem = Recorded => Covers(Since(mem.latest), next)
      BY <2>1, <3>1, LatestCovers
    <3>3. SavePage(mem, Since(mem.latest), FALSE, TRUE)
      BY <2>4
    <3> QED
      BY <2>1, <2>2, <2>3, <2>4, <3>1, <3>2, <3>3, SaveRange, SavedStep
  <2>5. CASE LosePage(mem, Since(mem.latest), FALSE, TRUE)
    BY <2>1, <2>2, <2>3, <2>5, LoseStep
  <2> QED
    BY <1>4, <2>4, <2>5 DEF LoadLatest
<1>5. CASE LoadEarlier
  <2>1. mem \in RealCursors /\ mem.latest <= lastSeq /\ mem.earliest \in 0 .. MaxSeq + 1
    BY <1>0, <1>5, <1>p DEF LoadEarlier, RealCursors
  <2>2. Before(mem.earliest) \in SUBSET Posted
    <3>1. Before(mem.earliest) \subseteq Of("live", Ids) \cup Of("garbled", Ids)
      BY <1>0, <2>1, BeforeClosed
    <3> QED
      BY <3>1 DEF Of, Posted
  <2>3. UNCHANGED <<room, lastSeq, task, elsewhere, restarts>> /\ task = "polling"
    BY <1>5 DEF LoadEarlier
  <2>4. CASE SavePage(mem, Before(mem.earliest), TRUE, FALSE) /\ UNCHANGED failures
    <3> DEFINE next == Advance(mem, Before(mem.earliest), TRUE, FALSE)
    <3> HIDE DEF next
    <3>1. next = Advance(mem, Before(mem.earliest), TRUE, FALSE)
      BY DEF next
    <3>2. mem = Recorded
          /\ Of("live", Before(mem.earliest)) \cup Of("deleted", Before(mem.earliest)) # {}
          => Covers(Before(mem.earliest), next)
      BY <2>1, <3>1, EarlierCovers
    <3>3. SavePage(mem, Before(mem.earliest), TRUE, FALSE)
      BY <2>4
    <3> QED
      BY <2>1, <2>2, <2>3, <2>4, <3>1, <3>2, <3>3, SaveRange, SavedStep
  <2>5. CASE LosePage(mem, Before(mem.earliest), TRUE, FALSE)
    BY <2>1, <2>2, <2>3, <2>5, LoseStep
  <2> QED
    BY <1>5, <2>4, <2>5 DEF LoadEarlier
<1>6. CASE DeletedElsewhere
  <2>1. PICK i \in Ids : elsewhere' = elsewhere \cup {i} /\ marked' = marked \cup Rows({i})
    BY <1>6 DEF DeletedElsewhere
  <2>2. UNCHANGED <<room, lastSeq, task, mem, stored, saved, skipped, failures, restarts>>
    BY <1>6 DEF DeletedElsewhere
  <2>3. marked \subseteq marked' /\ marked' \subseteq marked \cup {i}
    BY <2>1 DEF Rows
  <2>4. TypeOK' /\ HiddenIsDeleted'
    BY <2>1, <2>2, <2>3 DEF IInv, TypeOK, HiddenIsDeleted
  <2>5. RoomInv' /\ CursorInv'
    BY <1>0, <2>2 DEF IInv, RoomInv, CursorInv, Posted, Of
  <2>6. RangeKept'
    BY <1>0, <2>2, <2>3 DEF IInv, RangeKept, InRange
  <2> QED
    BY <2>4, <2>5, <2>6 DEF IInv
<1>7. CASE Restart
  <2>1. /\ restarts' \in 0 .. MaxRestarts /\ task' = "start" /\ mem' = NoState
        /\ UNCHANGED <<room, lastSeq, stored, saved, marked, skipped, elsewhere, failures>>
    BY <1>7, ConstantsOK DEF Restart, IInv, TypeOK
  <2>2. TypeOK'
    BY <2>1 DEF IInv, TypeOK, Cursors
  <2> QED
    BY <1>0, <2>1, <2>2 DEF IInv, RoomInv, CursorInv, RangeKept, HiddenIsDeleted, InRange, Posted, Of
<1>8. CASE UNCHANGED vars
  BY <1>0, <1>8 DEF vars, client, IInv, TypeOK, RoomInv, CursorInv, RangeKept, HiddenIsDeleted,
     InRange, Posted, Of
<1> QED
  BY <1>1, <1>2, <1>3, <1>4, <1>5, <1>6, <1>7, <1>8 DEF Next

-----------------------------------------------------------------------------
\* The room's state always has its type.
THEOREM TypeCorrect == Spec => []TypeOK
<1>1. IInv => TypeOK
  BY DEF IInv
<1> QED
  BY InitIInv, StepIInv, <1>1, PTL DEF Spec

\* The range recorded by save_messages_and_sync_state is in the database, with the
\* reactions and deletions within it, unless a page was saved over a failed one.
THEOREM RangeIsRight == Spec => []RangeRightUnlessSkipped
<1>1. IInv => RangeRightUnlessSkipped
  BY DEF IInv, RangeKept, RangeRightUnlessSkipped, RangeIsSynced, InRange
<1> QED
  BY InitIInv, StepIInv, <1>1, PTL DEF Spec

\* update_message_delete_state hides no row that no room deleted.
THEOREM HiddenOnlyByDeletion == Spec => []HiddenIsDeleted
<1>1. IInv => HiddenIsDeleted
  BY DEF IInv
<1> QED
  BY InitIInv, StepIInv, <1>1, PTL DEF Spec

=============================================================================
