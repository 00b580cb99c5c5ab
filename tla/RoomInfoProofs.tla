---------------------------- MODULE RoomInfoProofs ----------------------------
(***************************************************************************)
(* What holds of the reactive database and its streams, with or without a  *)
(* room's task among the writers, for any tables, queries, writers and     *)
(* bounds.                                                                 *)
(***************************************************************************)
EXTENDS RoomInfo, TLAPS

\* A step of a writer or a stream; a statement counts against the bound or not.
QueryStep ==
  \/ UNCHANGED vars
  \/ \E w \in Writers : \/ Begin(w) \/ Finish(w) \/ Fail(w) \/ Announce(w)
                        \/ \E t \in Tables : Statement(w, t) /\ writes' \in 0 .. MaxWrites
  \/ \E q \in Queries : AnyStream(q)

LEMMA WriterIsStep ==
  ASSUME TypeOK, NEW w \in Writers, AnyWriter(w)
  PROVE  QueryStep
<1>1. ASSUME NEW t \in Tables, AnyStatement(w, t) PROVE QueryStep
  <2>1. writes' \in 0 .. MaxWrites
    BY <1>1, ConstantsOK DEF AnyStatement, TypeOK
  <2> QED
    BY <1>1, <2>1 DEF AnyStatement, QueryStep
<1> QED
  BY <1>1 DEF AnyWriter, WriterStep, QueryStep

LEMMA NextIsStep == TypeOK /\ [Next]_vars => QueryStep
BY WriterIsStep DEF Next, QueryStep

LEMMA RoomNextIsStep == TypeOK /\ [RoomNext]_allVars => QueryStep
<1> SUFFICES ASSUME TypeOK, [RoomNext]_allVars PROVE QueryStep
  OBVIOUS
<1> USE RoomConstantsOK, ConstantsOK
<1>1. CASE SaveStep
  BY <1>1 DEF SaveStep, SaveBegins, SaveWrites, SaveEnds, SaveIsTold, SaveFails, QueryStep, TypeOK
<1>2. ASSUME NEW w \in Writers, AnyWriter(w) PROVE QueryStep
  BY <1>2, WriterIsStep
<1>3. ASSUME NEW q \in Queries, AnyStream(q) PROVE QueryStep
  BY <1>3 DEF QueryStep
<1>4. CASE UNCHANGED vars
  BY <1>4 DEF QueryStep
<1> QED
  BY <1>1, <1>2, <1>3, <1>4 DEF RoomNext, allVars, Update, Blind, Start, Stop, Capabilities, Answer,
     AskFails, Poll

-----------------------------------------------------------------------------
IInv == TypeOK /\ StaleIsAnnounced

Results == UNION {Versions(q) : q \in Queries}

LEMMA ResultTyped ==
  ASSUME TypeOK, NEW q \in Queries
  PROVE  /\ Result(q) \in Versions(q) /\ Nowhere(q) \in Versions(q)
         /\ Versions(q) \subseteq Results
BY ConstantsOK DEF TypeOK, Result, Nowhere, Versions, Results

LEMMA InitIInv == Init => IInv
<1> SUFFICES ASSUME Init PROVE IInv
  OBVIOUS
<1>1. \A q \in Queries : Nowhere(q) \in Versions(q)
  BY ConstantsOK DEF Nowhere, Versions
<1>2. {latest, shown} \subseteq [Queries -> UNION {Versions(q) : q \in Queries}]
  BY <1>1 DEF Init
<1>3. \A q \in Queries : latest[q] \in Versions(q) /\ shown[q] \in Versions(q)
  BY <1>1 DEF Init
<1>4. TypeOK
  BY <1>2, <1>3, ConstantsOK DEF Init, TypeOK
<1>5. StaleIsAnnounced
  BY DEF Init, StaleIsAnnounced, Listening
<1> QED
  BY <1>4, <1>5 DEF IInv

LEMMA TypeStep == TypeOK /\ QueryStep => TypeOK'
<1> SUFFICES ASSUME TypeOK, QueryStep PROVE TypeOK'
  OBVIOUS
<1> DEFINE Shapes == /\ {latest, shown} \subseteq [Queries -> Results]
                     /\ \A q \in Queries : latest[q] \in Versions(q) /\ shown[q] \in Versions(q)
<1>0. Shapes
  BY DEF TypeOK, Results
<1>w. ASSUME UNCHANGED <<latest, shown>> PROVE Shapes'
  BY <1>w, <1>0
<1>1. ASSUME NEW w \in Writers, Begin(w) \/ Finish(w) PROVE TypeOK'
  <2>1. CASE Begin(w)
    BY <2>1 DEF Begin, TypeOK, streamVars
  <2>2. CASE Finish(w)
    <3>1. rows' \in [Tables -> Nat]
      BY <2>2 DEF Finish, TypeOK
    <3> QED
      BY <2>2, <3>1 DEF Finish, TypeOK, streamVars
  <2> QED
    BY <1>1, <2>1, <2>2
<1>2. ASSUME NEW w \in Writers, NEW t \in Tables, Statement(w, t), writes' \in 0 .. MaxWrites PROVE TypeOK'
  BY <1>2 DEF Statement, TypeOK, streamVars
<1>3. ASSUME NEW w \in Writers, Fail(w) PROVE TypeOK'
  BY <1>3 DEF Fail, TypeOK
<1>4. ASSUME NEW w \in Writers, Announce(w) PROVE TypeOK'
  BY <1>4 DEF Announce, Deliver, TypeOK
<1>5. ASSUME NEW q \in Queries, AnyStream(q) PROVE TypeOK'
  <2> USE DEF writerVars
  <2>0. Result(q) \in Versions(q) /\ Nowhere(q) \in Versions(q) /\ Versions(q) \subseteq Results
    BY ResultTyped
  <2>1. ASSUME NEW p \in {"absent", "broken"}, Gone(q, p) PROVE TypeOK'
    <3>1. Shapes'
      BY <2>0, <2>1, <1>0 DEF Gone
    <3> QED
      BY <2>1, <3>1 DEF Gone, TypeOK, Results
  <2>2. CASE Open(q)
    <3>1. Shapes'
      BY <2>0, <2>2, <1>0 DEF Open, FirstRun
    <3> QED
      BY <2>2, <3>1 DEF Open, TypeOK, Results
  <2>3. CASE Refetch(q)
    <3>1. Shapes'
      BY <2>0, <2>3, <1>0 DEF Refetch
    <3> QED
      BY <2>3, <3>1 DEF Refetch, TypeOK, Results
  <2>4. CASE SendData(q)
    <3>1. Shapes'
      BY <2>0, <2>4, <1>0 DEF SendData
    <3> QED
      BY <2>4, <3>1 DEF SendData, TypeOK, Results
  <2>5. CASE Subscribe(q) \/ FirstItem(q)
    <3>1. Shapes'
      BY <2>5, <1>w DEF Subscribe, FirstItem
    <3>2. /\ phase' \in [Queries -> {"absent", "opening", "open", "broken"}]
          /\ frame' \in [Queries -> {"first", "idle", "header", "data"}]
      BY <2>5 DEF Subscribe, FirstItem, TypeOK
    <3> QED
      BY <2>5, <3>1, <3>2 DEF Subscribe, FirstItem, TypeOK, Results
  <2>6. CASE Skip(q)
    <3>1. Shapes'
      BY <2>6, <1>w DEF Skip
    <3>2. inbox' \in [Queries -> SUBSET Tables]
      BY <2>6 DEF Skip, TypeOK
    <3> QED
      BY <2>6, <3>1, <3>2 DEF Skip, TypeOK, Results
  <2>7. CASE SendEnd(q) \/ DebounceOver(q)
    <3>1. Shapes'
      BY <2>7, <1>w DEF SendEnd, DebounceOver
    <3>2. /\ throttled' \in [Queries -> BOOLEAN]
          /\ frame' \in [Queries -> {"first", "idle", "header", "data"}]
      BY <2>7 DEF SendEnd, DebounceOver, TypeOK
    <3> QED
      BY <2>7, <3>1, <3>2 DEF SendEnd, DebounceOver, TypeOK, Results
  <2> QED
    BY <1>5, <2>1, <2>2, <2>3, <2>4, <2>5, <2>6, <2>7 DEF AnyStream, StreamStep, Break, Leave
<1>6. CASE UNCHANGED vars
  BY <1>6 DEF vars, writerVars, streamVars, TypeOK
<1> QED
  BY <1>1, <1>2, <1>3, <1>4, <1>5, <1>6 DEF QueryStep

\* A result goes out of date with a statement or a commit, and is announced until
\* the announcement is in the receiver, or an error in its place.
LEMMA StaleStep == IInv /\ QueryStep => StaleIsAnnounced'
<1> SUFFICES ASSUME TypeOK, StaleIsAnnounced, QueryStep,
                    NEW q \in Queries, q \in Listening', NEW t \in Reads[q], latest'[q][t] # rows'[t]
             PROVE  blind'[q] \/ Announced(q, t)'
  BY DEF IInv, StaleIsAnnounced, Listening
<1>0. /\ q \in Listening /\ latest[q][t] # rows[t] => blind[q] \/ Announced(q, t)
      /\ t \in Tables
  BY ConstantsOK DEF StaleIsAnnounced
<1> USE DEF Listening, Announced, Touched, Watched
<1>1. ASSUME NEW w \in Writers, Begin(w) PROVE blind'[q] \/ Announced(q, t)'
  BY <1>0, <1>1 DEF Begin, TypeOK, streamVars
<1>2. ASSUME NEW w \in Writers, NEW s \in Tables, Statement(w, s) PROVE blind'[q] \/ Announced(q, t)'
  BY <1>0, <1>2 DEF Statement, TypeOK, streamVars
<1>3. ASSUME NEW w \in Writers, Finish(w) PROVE blind'[q] \/ Announced(q, t)'
  BY <1>0, <1>3 DEF Finish, TypeOK, streamVars
<1>4. ASSUME NEW w \in Writers, Fail(w) PROVE blind'[q] \/ Announced(q, t)'
  BY <1>0, <1>4 DEF Fail, TypeOK
<1>5. ASSUME NEW w \in Writers, Announce(w) PROVE blind'[q] \/ Announced(q, t)'
  BY <1>0, <1>5 DEF Announce, Deliver, Hears, TypeOK
<1>6. ASSUME NEW p \in Queries, AnyStream(p) PROVE blind'[q] \/ Announced(q, t)'
  <2> USE DEF writerVars
  <2>1. ASSUME NEW a \in {"absent", "broken"}, Gone(p, a) PROVE blind'[q] \/ Announced(q, t)'
    BY <1>0, <2>1 DEF Gone, TypeOK
  <2>2. CASE Open(p)
    BY <1>0, <2>2 DEF Open, FirstRun, Result, TypeOK
  <2>3. CASE Refetch(p)
    BY <1>0, <2>3 DEF Refetch, Polled, Result, TypeOK
  <2>4. CASE Skip(p)
    BY <1>0, <2>4 DEF Skip, TypeOK
  <2>5. CASE Subscribe(p) \/ FirstItem(p) \/ SendData(p) \/ SendEnd(p) \/ DebounceOver(p)
    BY <1>0, <2>5 DEF Subscribe, FirstItem, SendData, SendEnd, DebounceOver, TypeOK
  <2> QED
    BY <1>6, <2>1, <2>2, <2>3, <2>4, <2>5 DEF AnyStream, StreamStep, Break, Leave
<1>7. CASE UNCHANGED vars
  BY <1>0, <1>7 DEF vars, writerVars, streamVars
<1> QED
  BY <1>1, <1>2, <1>3, <1>4, <1>5, <1>6, <1>7 DEF QueryStep

-----------------------------------------------------------------------------
\* The task of a room.

\* The connection is the task's only while it saves; ids are written before their
\* table is announced.
SaveInv ==
  /\ step \notin {"saving ids", "saving info"} => at[room] = "idle"
  /\ at[room] = "idle" => changed[room] = {}
  /\ at[room] = "announcing" => changed[room] # {}
  /\ step = "saving ids" /\ changed[room] # {} => own = identity

RoomInv == RoomTypeOK /\ SaveInv /\ SignsAsSaved

LEMMA RoomInitInv == RoomInit => RoomInv
<1> SUFFICES ASSUME RoomInit PROVE RoomInv
  OBVIOUS
<1>1. TypeOK /\ Init
  BY InitIInv DEF RoomInit, IInv
<1>2. RoomTypeOK
  <2>1. 1 \in 1 .. MaxUpdates + 1 /\ 0 \in 0 .. MaxStarts
    BY RoomConstantsOK
  <2> QED
    BY <1>1, <2>1 DEF RoomInit, RoomTypeOK
<1>3. at[room] = "idle" /\ changed[room] = {}
  BY <1>1, RoomConstantsOK DEF Init
<1> QED
  BY <1>2, <1>3 DEF RoomInit, RoomInv, SaveInv, SignsAsSaved

\* The other writers leave the task's connection alone.
LEMMA OthersLeave ==
  ASSUME TypeOK, NEW w \in Writers \ {room}, AnyWriter(w)
  PROVE  at'[room] = at[room] /\ changed'[room] = changed[room]
BY RoomConstantsOK DEF AnyWriter, WriterStep, AnyStatement, Begin, Statement, Finish, Fail, Announce, TypeOK

LEMMA StreamsLeave ==
  ASSUME NEW q \in Queries, AnyStream(q)
  PROVE  UNCHANGED <<at, changed>>
BY DEF AnyStream, StreamStep, Leave, Break, Gone, Open, Subscribe, FirstItem, Skip, Refetch, SendData,
   SendEnd, DebounceOver, writerVars

LEMMA SaveStepInv == RoomInv /\ SaveStep => (RoomTypeOK /\ SaveInv /\ SignsAsSaved)'
<1> SUFFICES ASSUME RoomInv, SaveStep PROVE (RoomTypeOK /\ SaveInv /\ SignsAsSaved)'
  OBVIOUS
<1> USE RoomConstantsOK DEF RoomInv, SaveInv, SignsAsSaved, Saving, roomVars, serverVars, taskVars
<1>0. /\ at \in [Writers -> {"idle", "connection", "transaction", "announcing"}]
      /\ changed \in [Writers -> SUBSET Tables] /\ TypeOK
  BY DEF RoomTypeOK, TypeOK
<1>t. TypeOK'
  <2>1. [RoomNext]_allVars
    BY DEF RoomNext
  <2> QED
    BY <1>0, <2>1, RoomNextIsStep, TypeStep
<1>1. CASE SaveBegins
  <2>1. at'[room] = "connection" /\ changed' = changed
    BY <1>0, <1>1 DEF SaveBegins, Begin
  <2> QED
    BY <1>t, <1>1, <2>1 DEF SaveBegins, RoomTypeOK
<1>2. CASE SaveWrites
  <2>1. at' = at /\ changed'[room] = {settings}
    BY <1>0, <1>2 DEF SaveWrites, Statement
  <2>2. at[room] \in {"connection", "transaction"}
    BY <1>2 DEF SaveWrites, Statement
  <2>3. step = "saving ids" => own' = identity /\ info' = info
    BY <1>2 DEF SaveWrites
  <2>4. step = "saving info" => info' = last /\ own' = own
    BY <1>2 DEF SaveWrites
  <2>5. UNCHANGED <<serverVars, taskVars>>
    BY <1>2 DEF SaveWrites
  <2>6. RoomTypeOK'
    BY <1>t, <1>2, <2>3, <2>4, <2>5 DEF SaveWrites, RoomTypeOK
  <2> QED
    BY <1>2, <2>1, <2>2, <2>3, <2>4, <2>5, <2>6 DEF SaveWrites
<1>3. CASE SaveEnds
  <2>1. at'[room] = "announcing" /\ changed' = changed
    BY <1>0, <1>3 DEF SaveEnds, Finish
  <2> QED
    BY <1>t, <1>3, <2>1 DEF SaveEnds, RoomTypeOK
<1>4. CASE SaveIsTold
  <2>1. at[room] = "announcing" /\ at'[room] = "idle" /\ changed'[room] = {}
    BY <1>0, <1>4 DEF SaveIsTold, Announce
  <2>2. UNCHANGED <<serverVars, identity, starts, info, own>>
    BY <1>4 DEF SaveIsTold
  <2>3. step = "saving ids" => step' = "asking" /\ last' = info
    BY <1>4 DEF SaveIsTold
  <2>4. step = "saving info" => step' = "waiting" /\ last' = last
    BY <1>4 DEF SaveIsTold
  <2>5. step \in {"saving ids", "saving info"}
    BY <1>4 DEF SaveIsTold
  <2>6. RoomTypeOK'
    BY <1>t, <2>2, <2>3, <2>4, <2>5 DEF RoomTypeOK
  <2> QED
    BY <2>1, <2>2, <2>3, <2>4, <2>5, <2>6
<1>5. CASE SaveFails
  <2>1. at'[room] = "idle" /\ changed'[room] = {}
    BY <1>0, <1>5 DEF SaveFails, Fail
  <2>2. UNCHANGED <<serverVars, last, starts, info, own>>
    BY <1>5 DEF SaveFails
  <2>3. step = "saving ids" => step' = "down" /\ identity' = "none"
    BY <1>5 DEF SaveFails
  <2>4. step = "saving info" => step' = "waiting" /\ identity' = identity
    BY <1>5 DEF SaveFails
  <2>5. step \in {"saving ids", "saving info"}
    BY <1>5 DEF SaveFails
  <2>6. RoomTypeOK'
    BY <1>t, <2>2, <2>3, <2>4, <2>5 DEF RoomTypeOK
  <2> QED
    BY <2>1, <2>2, <2>3, <2>4, <2>5, <2>6
<1> QED
  BY <1>1, <1>2, <1>3, <1>4, <1>5 DEF SaveStep

LEMMA RoomStepInv == RoomInv /\ [RoomNext]_allVars => RoomInv'
<1> SUFFICES ASSUME RoomInv, [RoomNext]_allVars PROVE RoomInv'
  OBVIOUS
<1> USE RoomConstantsOK
<1>0. TypeOK
  BY DEF RoomInv, RoomTypeOK
<1>t. TypeOK'
  BY <1>0, RoomNextIsStep, TypeStep
<1>1. CASE SaveStep
  BY <1>1, SaveStepInv DEF RoomInv
<1>2. ASSUME UNCHANGED vars, Update \/ Blind \/ Start \/ Stop \/ Capabilities \/ Answer \/ AskFails \/ Poll
      PROVE  RoomInv'
  <2>1. at' = at /\ changed' = changed
    BY <1>2 DEF vars, writerVars
  <2>0. RoomTypeOK /\ \A n \in 1 .. MaxUpdates + 1 : n \in Nat
    BY DEF RoomInv
  <2>2. RoomTypeOK'
    <3>1. CASE Update
      <4>1. updates' \in 1 .. MaxUpdates + 1
        <5>1. updates \in 1 .. MaxUpdates + 1 /\ updates < MaxUpdates /\ updates' = updates + 1
          BY <2>0, <3>1 DEF Update, RoomTypeOK
        <5>2. MaxUpdates \in Nat
          OBVIOUS
        <5> QED
          BY <5>1, <5>2
      <4> QED
        BY <1>t, <2>0, <3>1, <4>1 DEF Update, taskVars, RoomTypeOK
    <3>2. CASE Start
      <4>1. starts' \in 0 .. MaxStarts
        BY <2>0, <3>2 DEF Start, RoomTypeOK
      <4> QED
        BY <1>t, <2>0, <3>2, <4>1 DEF Start, serverVars, RoomTypeOK
    <3>3. CASE Blind
      BY <1>t, <2>0, <3>3 DEF Blind, taskVars, RoomTypeOK
    <3>4. CASE Stop
      BY <1>t, <2>0, <3>4 DEF Stop, serverVars, RoomTypeOK
    <3>5. CASE Capabilities
      BY <1>t, <2>0, <3>5 DEF Capabilities, serverVars, RoomTypeOK
    <3>6. CASE Answer
      BY <1>t, <2>0, <3>6 DEF Answer, serverVars, RoomTypeOK
    <3>7. CASE AskFails \/ Poll
      BY <1>t, <2>0, <3>7 DEF AskFails, Poll, serverVars, RoomTypeOK
    <3> QED
      BY <1>2, <3>1, <3>2, <3>3, <3>4, <3>5, <3>6, <3>7
  <2>3. SaveInv' /\ SignsAsSaved'
    BY <1>2, <2>1 DEF Update, Blind, Start, Stop, Capabilities, Answer, AskFails, Poll, serverVars,
       taskVars, RoomInv, RoomTypeOK, SaveInv, SignsAsSaved
  <2> QED
    BY <2>2, <2>3 DEF RoomInv
<1>3. ASSUME UNCHANGED roomVars, at'[room] = at[room] /\ changed'[room] = changed[room] PROVE RoomInv'
  BY <1>t, <1>3 DEF roomVars, serverVars, taskVars, RoomInv, RoomTypeOK, SaveInv, SignsAsSaved
<1>4. ASSUME UNCHANGED roomVars, NEW w \in Writers \ {room}, AnyWriter(w) PROVE RoomInv'
  BY <1>0, <1>3, <1>4, OthersLeave
<1>5. ASSUME UNCHANGED roomVars, NEW q \in Queries, AnyStream(q) PROVE RoomInv'
  BY <1>3, <1>5, StreamsLeave
<1>6. CASE UNCHANGED allVars
  BY <1>3, <1>6 DEF allVars, vars, writerVars
<1> QED
  BY <1>1, <1>2, <1>4, <1>5, <1>6 DEF RoomNext, Update, Blind, Start, Stop, Capabilities, Answer, AskFails, Poll

-----------------------------------------------------------------------------
\* The streams' state always has its type, whatever the writers are.
THEOREM TypeCorrect == Spec => []TypeOK
<1>1. TypeOK /\ [Next]_vars => TypeOK'
  BY NextIsStep, TypeStep
<1>2. Init => TypeOK
  BY InitIInv DEF IInv
<1> QED
  BY <1>1, <1>2, PTL DEF Spec

\* A stream of query results (rerun_query_on_changes) that is out of date has been told
\* so, or will be, whatever writers do in and out of transactions.
THEOREM StaleResultsAreAnnounced == Spec => []StaleIsAnnounced
<1>1. IInv /\ [Next]_vars => IInv'
  BY NextIsStep, TypeStep, StaleStep DEF IInv
<1>2. IInv => StaleIsAnnounced
  BY DEF IInv
<1> QED
  BY InitIInv, <1>1, <1>2, PTL DEF Spec

\* ... and when one of the writers is the task of a room (sync_community_info).
THEOREM RoomIsAnnounced == RoomSpec => []StaleIsAnnounced
<1>1. IInv /\ [RoomNext]_allVars => IInv'
  BY RoomNextIsStep, TypeStep, StaleStep DEF IInv
<1>2. IInv => StaleIsAnnounced
  BY DEF IInv
<1>3. RoomInit => IInv
  BY InitIInv DEF RoomInit
<1> QED
  BY <1>1, <1>2, <1>3, PTL DEF RoomSpec

\* The state of a room's task always has its type.
THEOREM RoomTypeCorrect == RoomSpec => []RoomTypeOK
<1>1. RoomInv => RoomTypeOK
  BY DEF RoomInv
<1> QED
  BY RoomInitInv, RoomStepInv, <1>1, PTL DEF RoomSpec

\* No request of a room's task (authenticated_executor) is signed with an id that the
\* views do not know for the user's own (community_pub_keys), whatever fails or stops.
THEOREM SignedWithOwnId == RoomSpec => []SignsAsSaved
<1>1. RoomInv => SignsAsSaved
  BY DEF RoomInv
<1> QED
  BY RoomInitInv, RoomStepInv, <1>1, PTL DEF RoomSpec
=============================================================================
