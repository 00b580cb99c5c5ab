--------------------------- MODULE NetworkProofs ---------------------------
(***************************************************************************)
(* Theorems about what stands between a request and its server: the cell   *)
(* that all share their onion path in, for every set of callers, with the  *)
(* network around it; and the batches that requests travel in.             *)
(*                                                                         *)
(* The argument for the cell is mutual exclusion first: whoever is         *)
(* retrieving holds the mutex (HolderInv), so what it is to bring is newer *)
(* than anything fetched, and the cell's value, if it has one, is the      *)
(* newest there is.                                                        *)
(*                                                                         *)
(* The argument for the batches is that a request is in one place at a     *)
(* time (PlacesApart and the four invariants after it), that its caller    *)
(* waits or went away while it is there (KeptWait), and that a future's    *)
(* results are those of its own callers, run once (RunsFollowWire,         *)
(* RanInTurn).  Each step is then one of RPCContract or is not noticed.    *)
(***************************************************************************)
EXTENDS LegacyNetwork, Batcher, FiniteSetTheorems, SequenceTheorems, TLAPS

\* The value set_error and force_retry_next carry over is a fetched value or
\* none, and the cells they and a retrieval build are variants of State<T>.
LEMMA CellTypes ==
  ASSUME TypeOK
  PROVE  /\ CarriedValue \in 0..MaxFetches
         /\ \A kind \in {"Error", "RetryRequested"}, value \in 0..MaxFetches :
              Cell(kind, value) \in Cells
         /\ \A value \in 1..MaxFetches : Cell("Loaded", value) \in Cells
<1>1. 0 \in 0..MaxFetches
  BY ConstantsOK
<1>2. CarriedValue \in 0..MaxFetches
  BY <1>1, ConstantsOK DEF TypeOK, CarriedValue, Cells, Cell, NoValue
<1> QED
  BY <1>2 DEF Cells, Cell

\* Every reachable state of the cell and its callers is well typed.
THEOREM TypeCorrect == Spec => []TypeOK
<1>1. 0 \in 0..MaxFetches /\ 0 \in 0..MaxFetches + 1
  BY ConstantsOK
<1>2. Init => TypeOK
  <2>1. Init => state \in Cells
    BY DEF Init, Cells
  <2> QED
    BY <1>1, <2>1 DEF Init, TypeOK, NoValue
<1>3. TypeOK /\ [Next]_vars => TypeOK'
  <2> SUFFICES ASSUME TypeOK, [Next]_vars
               PROVE  TypeOK'
    OBVIOUS
  <2>1. CASE UNCHANGED vars
    BY <2>1 DEF TypeOK, vars
  <2>2. CASE Elapse
    <3>1. state' \in Cells
      <4>1. \/ state \in [kind : {"Loaded"}, value : 1..MaxFetches, elapsed : BOOLEAN]
            \/ state \in [kind : {"Error", "RetryRequested"}, value : 0..MaxFetches,
                         elapsed : BOOLEAN]
        BY <2>2 DEF Elapse, FromCache, TypeOK, Cells, Cell
      <4>2. state' = [state EXCEPT !.elapsed = TRUE]
        BY <2>2 DEF Elapse
      <4> QED
        BY <4>1, <4>2 DEF Cells
    <3> QED
      BY <2>2, <3>1 DEF Elapse, TypeOK
  <2> SUFFICES ASSUME NEW c \in Callers,
                      \/ Call(c) \/ Locking(c) \/ RetrieveOk(c) \/ RetrieveErr(c)
                      \/ Cancel(c) \/ Use(c) \/ Reporting(c)
               PROVE  TypeOK'
    BY <2>1, <2>2 DEF Next
  <2>3. CASE Call(c) \/ Use(c) \/ Cancel(c)
    BY <1>1, <2>3 DEF Call, Use, Cancel, TypeOK, NoValue
  <2>4. CASE AnswerFromCache(c)
    <3>1. state.value \in 0..MaxFetches
      BY <1>1 DEF TypeOK, Cells, Cell, NoValue
    <3> QED
      BY <2>4, <3>1 DEF AnswerFromCache, Return, TypeOK
  <2>5. CASE StartRetrieve(c)
    <3>1. fetched + 1 \in 0..MaxFetches + 1 /\ fetched + 1 # NoValue
      BY ConstantsOK DEF TypeOK, NoValue
    <3> QED
      BY <2>5, <3>1 DEF StartRetrieve, TypeOK
  <2>6. CASE RetrieveOk(c)
    <3>1. asked[c] \in 1..MaxFetches /\ fetched' \in 0..MaxFetches
      BY <2>6, ConstantsOK DEF RetrieveOk, TypeOK, NoValue
    <3>2. state' \in Cells
      BY <2>6, <3>1, CellTypes DEF RetrieveOk
    <3>3. /\ pc' = [pc EXCEPT ![c] = "using"]
          /\ got' = [got EXCEPT ![c] = asked[c]]
          /\ asked' = [asked EXCEPT ![c] = 0]
      <4>1. asked[c] # 0
        BY <3>1
      <4>2. got' = [got EXCEPT ![c] = asked[c]] /\ asked' = [asked EXCEPT ![c] = 0]
        BY <2>6 DEF RetrieveOk, Return, NoValue
      <4>3. pc' = [pc EXCEPT ![c] = IF asked[c] # 0 THEN "using" ELSE "failed"]
        BY <2>6 DEF RetrieveOk, Return, NoValue
      <4> QED
        BY <4>1, <4>2, <4>3
    <3>4. /\ holder' \in Callers \cup {NoCaller} /\ attempt' \in {"none", "recent", "old"}
          /\ forced' \in BOOLEAN /\ mustRetry' \in BOOLEAN
      BY <2>6 DEF RetrieveOk
    <3> QED
      BY <1>1, <3>1, <3>2, <3>3, <3>4 DEF TypeOK, NoValue
  <2>7. CASE RetrieveErr(c)
    <3>1. state' \in Cells
      BY <2>7, CellTypes DEF RetrieveErr
    <3> QED
      BY <1>1, <2>7, <3>1, CellTypes DEF RetrieveErr, Return, TypeOK, NoValue
  <2>8. CASE ForceRetryNext(c) \/ SetError(c)
    <3>1. state' \in Cells
      BY <2>8, CellTypes DEF ForceRetryNext, SetError
    <3> QED
      BY <2>8, <3>1 DEF ForceRetryNext, SetError, TypeOK
  <2> QED
    BY <2>3, <2>4, <2>5, <2>6, <2>7, <2>8 DEF Locking, Reporting
<1> QED
  BY <1>2, <1>3, PTL DEF Spec

-----------------------------------------------------------------------------
\* Mutual exclusion, and what the one who retrieves is to bring.
HolderInv ==
  \A c \in Callers : pc[c] = "retrieving" => holder = c /\ asked[c] = fetched + 1

\* The cell's value is the newest there is, and it is missing only before the
\* first success or after a forced retry.
CellInv ==
  /\ state.value \in {NoValue, fetched}
  /\ state.kind = "Idle" => fetched = 0
  /\ state.value = NoValue \/ state.kind = "RetryRequested" => fetched = 0 \/ forced

\* A recent attempt answers from the cell unless a retry was forced.
PaceInv == attempt = "recent" => FromCache \/ mustRetry

RetrieveInv == TypeOK /\ HolderInv /\ CellInv /\ PaceInv

\* The three invariants above hold together in every reachable state: the
\* mutex held across the fetch is what keeps the cell's value the newest.
LEMMA RetrieveInvHolds == Spec => []RetrieveInv
<1>1. Init => HolderInv /\ CellInv /\ PaceInv
  BY DEF Init, HolderInv, CellInv, PaceInv, Cell, NoValue
<1>2. RetrieveInv /\ [Next]_vars => HolderInv' /\ CellInv' /\ PaceInv'
  <2> SUFFICES ASSUME RetrieveInv, [Next]_vars
               PROVE  HolderInv' /\ CellInv' /\ PaceInv'
    OBVIOUS
  <2> USE DEF RetrieveInv, NoValue
  <2>1. CASE UNCHANGED vars
    BY <2>1 DEF HolderInv, CellInv, PaceInv, vars, FromCache
  <2>2. CASE Elapse
    BY <2>2 DEF Elapse, TypeOK, HolderInv, CellInv, PaceInv, FromCache
  <2> SUFFICES ASSUME NEW c \in Callers,
                      \/ Call(c) \/ Locking(c) \/ RetrieveOk(c) \/ RetrieveErr(c)
                      \/ Cancel(c) \/ Use(c) \/ Reporting(c)
               PROVE  HolderInv' /\ CellInv' /\ PaceInv'
    BY <2>1, <2>2 DEF Next
  <2>3. CASE Call(c) \/ Use(c)
    BY <2>3 DEF Call, Use, TypeOK, HolderInv, CellInv, PaceInv, FromCache
  <2>4. CASE AnswerFromCache(c)
    BY <2>4 DEF AnswerFromCache, Return, TypeOK, HolderInv, CellInv, PaceInv, FromCache
  <2>5. CASE StartRetrieve(c)
    BY <2>5, ConstantsOK DEF StartRetrieve, TypeOK, HolderInv, CellInv, PaceInv, FromCache
  <2>6. CASE Cancel(c)
    BY <2>6 DEF Cancel, TypeOK, HolderInv, CellInv, PaceInv, FromCache
  <2>7. CASE RetrieveOk(c)
    <3>1. asked[c] = fetched + 1 /\ fetched' = fetched + 1 /\ fetched \in Nat
      BY <2>7 DEF RetrieveOk, HolderInv, TypeOK
    <3>2. HolderInv'
      <4>1. ASSUME NEW d \in Callers, pc'[d] = "retrieving"
            PROVE  FALSE
        <5>1. d # c
          BY <2>7, <4>1 DEF RetrieveOk, Return, TypeOK
        <5>2. pc[d] = "retrieving" /\ pc[c] = "retrieving"
          BY <2>7, <4>1, <5>1 DEF RetrieveOk, Return, TypeOK
        <5> QED
          BY <5>1, <5>2 DEF HolderInv
      <4> QED
        BY <4>1 DEF HolderInv
    <3> QED
      BY <2>7, <3>1, <3>2 DEF RetrieveOk, CellInv, PaceInv, FromCache, Cell
  <2>8. CASE RetrieveErr(c)
    <3>1. CarriedValue \in {0, fetched} /\ (CarriedValue = 0 => fetched = 0 \/ forced)
      BY DEF CellInv, CarriedValue, TypeOK, Cells, Cell, NoValue
    <3>2. HolderInv'
      BY <2>8 DEF RetrieveErr, Return, TypeOK, HolderInv
    <3> QED
      BY <2>8, <3>1, <3>2 DEF RetrieveErr, CellInv, PaceInv, FromCache, Cell
  <2>9. CASE ForceRetryNext(c) \/ SetError(c)
    <3>1. CarriedValue \in {0, fetched} /\ (CarriedValue = 0 => fetched = 0 \/ forced)
      BY DEF CellInv, CarriedValue, TypeOK, Cells, Cell, NoValue
    <3>2. HolderInv'
      BY <2>9 DEF ForceRetryNext, SetError, TypeOK, HolderInv
    <3> QED
      BY <2>9, <3>1, <3>2
        DEF ForceRetryNext, SetError, CellInv, PaceInv, FromCache, Cell
  <2> QED
    BY <2>3, <2>4, <2>5, <2>6, <2>7, <2>8, <2>9 DEF Locking, Reporting
<1> QED
  BY <1>1, <1>2, TypeCorrect, PTL DEF Spec, RetrieveInv

\* Which steps answer a caller, and with what.
LEMMA AnswerSteps ==
  ASSUME RetrieveInv, Next, NEW c \in Callers, Answered(c)
  PROVE  AnswerFromCache(c) \/ RetrieveOk(c) \/ RetrieveErr(c)
<1>1. CASE Elapse
  BY <1>1 DEF Elapse, Answered
<1>2. ASSUME NEW d \in Callers,
             \/ Call(d) \/ Locking(d) \/ RetrieveOk(d) \/ RetrieveErr(d)
             \/ Cancel(d) \/ Use(d) \/ Reporting(d)
      PROVE  AnswerFromCache(c) \/ RetrieveOk(c) \/ RetrieveErr(c)
  BY <1>2 DEF Answered, RetrieveInv, TypeOK, Call, Locking, AnswerFromCache, StartRetrieve,
              RetrieveOk, RetrieveErr, Cancel, Use, Reporting, ForceRetryNext, SetError, Return
<1> QED
  BY <1>1, <1>2 DEF Next

\* Whoever is answered Ok has the newest value any retrieval brought, however
\* many callers wait, retrieve, give up and report.
THEOREM AnswersNewest == Spec => AnswersAreNewest
<1>1. RetrieveInv /\ [Next]_vars
        => [\A c \in Callers : Answered(c) /\ got'[c] # NoValue => got'[c] = fetched']_vars
  <2> SUFFICES ASSUME RetrieveInv, Next, NEW c \in Callers, Answered(c), got'[c] # NoValue
               PROVE  got'[c] = fetched'
    BY DEF vars
  <2>1. CASE AnswerFromCache(c)
    BY <2>1 DEF AnswerFromCache, Return, RetrieveInv, TypeOK, CellInv
  <2>2. CASE RetrieveOk(c)
    BY <2>2 DEF RetrieveOk, Return, RetrieveInv, TypeOK, HolderInv
  <2>3. CASE RetrieveErr(c)
    BY <2>3 DEF RetrieveErr, Return, RetrieveInv, TypeOK, CellInv, CarriedValue, NoValue
  <2> QED
    BY <2>1, <2>2, <2>3, AnswerSteps
<1> QED
  BY <1>1, RetrieveInvHolds, PTL DEF Spec, AnswersAreNewest

\* An error reaches a caller only if nothing was ever fetched, or a retry was
\* forced since something was.
THEOREM ErrorsExplained == Spec => ErrorsOnlyAfterForce
<1>1. RetrieveInv /\ [Next]_vars
        => [\A c \in Callers : Answered(c) /\ got'[c] = NoValue
                                 => fetched' = 0 \/ forced]_vars
  <2> SUFFICES ASSUME RetrieveInv, Next, NEW c \in Callers, Answered(c), got'[c] = NoValue
               PROVE  fetched' = 0 \/ forced
    BY DEF vars
  <2>1. CASE AnswerFromCache(c)
    BY <2>1 DEF AnswerFromCache, Return, RetrieveInv, TypeOK, CellInv
  <2>2. CASE RetrieveOk(c)
    BY <2>2 DEF RetrieveOk, Return, RetrieveInv, TypeOK, HolderInv, NoValue
  <2>3. CASE RetrieveErr(c)
    BY <2>3 
      DEF RetrieveErr, Return, RetrieveInv, TypeOK, CellInv, CarriedValue, NoValue, Cells, Cell
  <2> QED
    BY <2>1, <2>2, <2>3, AnswerSteps
<1> QED
  BY <1>1, RetrieveInvHolds, PTL DEF Spec, ErrorsOnlyAfterForce

\* No attempt follows another before its interval has passed, unless a retry
\* was forced: failures of many callers at once do not become a storm of
\* retrievals.
THEOREM RetrievalsPaced == Spec => RetriesArePaced
<1>1. RetrieveInv /\ [Next]_vars
        => [\A c \in Callers : pc[c] = "waiting" /\ pc'[c] = "retrieving"
                                 => attempt # "recent" \/ mustRetry]_vars
  <2> SUFFICES ASSUME RetrieveInv, Next,
                      NEW c \in Callers, pc[c] = "waiting", pc'[c] = "retrieving"
               PROVE  attempt # "recent" \/ mustRetry
    BY DEF vars
  <2>1. StartRetrieve(c)
    <3>1. CASE Elapse
      BY <3>1 DEF Elapse
    <3>2. ASSUME NEW d \in Callers,
                 \/ Call(d) \/ Locking(d) \/ RetrieveOk(d) \/ RetrieveErr(d)
                 \/ Cancel(d) \/ Use(d) \/ Reporting(d)
          PROVE  StartRetrieve(c)
      BY <3>2 DEF RetrieveInv, TypeOK, Call, Locking, AnswerFromCache, StartRetrieve,
                  RetrieveOk, RetrieveErr, Cancel, Use, Reporting, ForceRetryNext,
                  SetError, Return
    <3> QED
      BY <3>1, <3>2 DEF Next
  <2> QED
    BY <2>1 DEF StartRetrieve, RetrieveInv, PaceInv
<1> QED
  BY <1>1, RetrieveInvHolds, PTL DEF Spec, RetriesArePaced

-----------------------------------------------------------------------------
\* The network.

LEMMA NetworkStep == [NetworkNext]_allVars => [Next]_vars
BY DEF NetworkNext, Ask, Arrive, ChooseNode, Perform, Leave, Report, Age, Next, allVars, vars

\* The network around the cell (network/legacy.rs) uses it as its callers do: what is
\* proved of the cell alone holds of it there.
THEOREM NetworkUsesCell == NetworkSpec => Spec
<1>1. NetworkInit => Init
  BY DEF NetworkInit
<1> QED
  BY <1>1, NetworkStep, PTL DEF NetworkSpec, Spec

LEMMA NetworkTypeStep ==
  NetworkTypeOK /\ RetrieveInv /\ [NetworkNext]_allVars /\ TypeOK' => NetworkTypeOK'
<1> SUFFICES ASSUME NetworkTypeOK, RetrieveInv, [NetworkNext]_allVars, TypeOK'
             PROVE  NetworkTypeOK'
  OBVIOUS
<1> USE DEF NetworkTypeOK
<1>0. NoValue \in 0 .. MaxFetches
  BY ConstantsOK DEF NoValue
<1>1. CASE UNCHANGED target
  BY <1>1
<1>2. ASSUME NEW c \in Callers, ChooseNode(c) PROVE NetworkTypeOK'
  BY <1>2 DEF ChooseNode, TypeOK
<1>3. ASSUME NEW c \in Callers, Perform(c) \/ Leave(c) PROVE NetworkTypeOK'
  BY <1>3, <1>0 DEF Perform, Leave
<1> QED
  BY <1>1, <1>2, <1>3 DEF NetworkNext, allVars, Ask, Arrive, Report, Age

\* Nothing that a caller was given is newer than what was fetched, so the path of a
\* request, the newest there is, is no older than the node it goes to.
PathInv ==
  \A c \in Callers :
    /\ target[c] <= fetched /\ got[c] <= fetched
    /\ pc[c] = "using" => target[c] <= got[c]

LEMMA PathStep ==
  RetrieveInv /\ NetworkTypeOK /\ PathInv /\ [NetworkNext]_allVars /\ TypeOK' => PathInv'
<1> SUFFICES ASSUME RetrieveInv, NetworkTypeOK, PathInv, [NetworkNext]_allVars, TypeOK',
                    NEW c \in Callers
             PROVE  PathInv!(c)'
  BY DEF PathInv
<1> USE DEF RetrieveInv, TypeOK, NetworkTypeOK, NoValue
<1>0. /\ target[c] \in Nat /\ got[c] \in Nat /\ fetched \in Nat /\ fetched' \in Nat
      /\ target[c] <= fetched /\ got[c] <= fetched /\ (pc[c] = "using" => target[c] <= got[c])
  BY DEF PathInv
<1>1. CASE UNCHANGED <<target, got, pc, fetched>>
  BY <1>1, <1>0
<1>2. ASSUME NEW d \in Callers, Ask(d) PROVE PathInv!(c)'
  <2>1. CASE Call(d)
    BY <1>2, <2>1, <1>0 DEF Ask, Call
  <2>2. CASE AnswerFromCache(d)
    BY <1>2, <2>2, <1>0 DEF Ask, AnswerFromCache, Return, CellInv
  <2>3. CASE StartRetrieve(d)
    BY <1>2, <2>3, <1>0 DEF Ask, StartRetrieve
  <2> QED
    BY <1>2, <2>1, <2>2, <2>3 DEF Ask, Locking
<1>3. ASSUME NEW d \in Callers, Arrive(d) PROVE PathInv!(c)'
  <2>1. CASE RetrieveOk(d)
    <3>1. fetched' = fetched + 1 /\ asked[d] = fetched + 1
      BY <2>1 DEF RetrieveOk, HolderInv
    <3>2. target' = target
      BY <1>3 DEF Arrive
    <3>3. got'[c] = IF c = d THEN fetched + 1 ELSE got[c]
      BY <2>1, <3>1 DEF RetrieveOk, Return
    <3>4. c # d => pc'[c] = pc[c]
      BY <2>1 DEF RetrieveOk, Return
    <3> QED
      BY <3>1, <3>2, <3>3, <3>4, <1>0
  <2>2. CASE RetrieveErr(d)
    <3>1. CarriedValue \in {0, fetched}
      BY DEF CarriedValue, CellInv
    <3>2. target' = target /\ fetched' = fetched
      BY <1>3, <2>2 DEF Arrive, RetrieveErr
    <3>3. got'[c] = IF c = d THEN CarriedValue ELSE got[c]
      BY <2>2 DEF RetrieveErr, Return
    <3>4. pc'[c] = IF c = d THEN IF CarriedValue # 0 THEN "using" ELSE "failed" ELSE pc[c]
      BY <2>2 DEF RetrieveErr, Return
    <3> QED
      BY <3>1, <3>2, <3>3, <3>4, <1>0
  <2> QED
    BY <1>3, <2>1, <2>2 DEF Arrive
<1>4. ASSUME NEW d \in Callers, ChooseNode(d) PROVE PathInv!(c)'
  BY <1>4, <1>0 DEF ChooseNode, Use
<1>5. ASSUME NEW d \in Callers, Perform(d) PROVE PathInv!(c)'
  BY <1>5, <1>0 DEF Perform, Use
<1>6. ASSUME NEW d \in Callers, Leave(d) PROVE PathInv!(c)'
  BY <1>6, <1>0 DEF Leave, Cancel
<1>7. ASSUME NEW d \in Callers, Report(d) PROVE PathInv!(c)'
  BY <1>7, <1>0 DEF Report, Reporting, ForceRetryNext, SetError
<1> QED
  BY <1>1, <1>2, <1>3, <1>4, <1>5, <1>6, <1>7 DEF NetworkNext, allVars, vars, Age, Elapse

LEMMA NetworkInvHolds == NetworkSpec => [](RetrieveInv /\ NetworkTypeOK /\ PathInv)
<1>0. 0 \in 0 .. MaxFetches
  BY ConstantsOK
<1>1. NetworkInit /\ TypeOK => NetworkTypeOK
  BY <1>0 DEF NetworkInit, NetworkTypeOK, NoValue
<1>2. NetworkInit => PathInv
  <2> SUFFICES ASSUME NetworkInit, NEW c \in Callers PROVE PathInv!(c)
    BY DEF PathInv
  <2>1. target[c] = 0 /\ got[c] = 0 /\ fetched = 0
    BY DEF NetworkInit, Init, NoValue
  <2> QED
    BY <2>1
<1>3. RetrieveInv => TypeOK
  BY DEF RetrieveInv
<1> QED
  BY <1>1, <1>2, <1>3, NetworkTypeStep, PathStep, NetworkUsesCell, RetrieveInvHolds, PTL
  DEF NetworkSpec

\* Every reachable state of the network around the cell is well typed.
THEOREM NetworkTypeCorrect == NetworkSpec => []NetworkTypeOK
BY NetworkInvHolds, PTL

\* A request to a random node (send_onion_request_to_random_node) goes over a path from
\* no older a node list than the one the node was chosen from.
THEOREM PathKnowsItsNode == NetworkSpec => []PathKnowsNode
<1>1. PathInv => PathKnowsNode
  BY DEF PathInv, PathKnowsNode
<1> QED
  BY <1>1, NetworkInvHolds, PTL

-----------------------------------------------------------------------------
\* The batches.  First, sequences without duplicates at both ends.

LEMMA ContainsIsMembership ==
  ASSUME NEW S, NEW s \in Seq(S), NEW e
  PROVE  Contains(s, e) <=> e \in ToSet(s)
BY LenProperties DEF Contains, ToSet

LEMMA ElementsIn ==
  ASSUME NEW S, NEW s \in Seq(S)
  PROVE  ToSet(s) \subseteq S
BY LenProperties, ElementOfSeq DEF ToSet

LEMMA Appended ==
  ASSUME NEW S, NEW s \in Seq(S), NEW e \in S
  PROVE  /\ ToSet(Append(s, e)) = ToSet(s) \cup {e}
         /\ IsInjective(s) /\ e \notin ToSet(s) => IsInjective(Append(s, e))
         /\ s # <<>> => Head(Append(s, e)) = Head(s)
<1> DEFINE t == Append(s, e)
<1>1. /\ t \in Seq(S) /\ Len(t) = Len(s) + 1 /\ t[Len(s) + 1] = e
      /\ \A i \in 1 .. Len(s) : t[i] = s[i]
  BY AppendProperties
<1>2. DOMAIN s = 1 .. Len(s) /\ DOMAIN t = 1 .. Len(s) + 1 /\ Len(s) \in Nat
  BY <1>1, LenProperties
<1>3. DOMAIN t = DOMAIN s \cup {Len(s) + 1}
  BY <1>2
<1>4. ToSet(t) = ToSet(s) \cup {e}
  BY <1>1, <1>2, <1>3, Zenon DEF ToSet
<1>5. ASSUME IsInjective(s), e \notin ToSet(s) PROVE IsInjective(t)
  BY <1>1, <1>2, <1>3, <1>5, Zenon DEF IsInjective, ToSet
<1>6. s # <<>> => Head(t) = Head(s)
  BY HeadTailAppend
<1> QED
  BY <1>4, <1>5, <1>6

LEMMA Dequeued ==
  ASSUME NEW S, NEW s \in Seq(S), s # <<>>
  PROVE  /\ Head(s) \in ToSet(s) /\ ToSet(s) = ToSet(Tail(s)) \cup {Head(s)}
         /\ IsInjective(s) => IsInjective(Tail(s)) /\ Head(s) \notin ToSet(Tail(s))
<1>1. /\ Tail(s) \in Seq(S) /\ Len(Tail(s)) = Len(s) - 1
      /\ \A i \in 1 .. Len(s) - 1 : Tail(s)[i] = s[i + 1]
  BY HeadTailProperties
<1>2. /\ Len(s) \in Nat /\ Len(s) > 0 /\ DOMAIN s = 1 .. Len(s)
      /\ DOMAIN Tail(s) = 1 .. Len(s) - 1
  BY <1>1, LenProperties, EmptySeq
<1>3. Head(s) = s[1] /\ 1 \in DOMAIN s
  BY <1>2
<1> DEFINE t == Tail(s)
<1>4. /\ \A i \in DOMAIN t : i + 1 \in DOMAIN s /\ i + 1 # 1 /\ t[i] = s[i + 1]
      /\ \A i \in DOMAIN s : i = 1 \/ (i - 1 \in DOMAIN t /\ t[i - 1] = s[i])
      /\ \A i, j \in DOMAIN t : i + 1 = j + 1 => i = j
  BY <1>1, <1>2
<1> HIDE DEF t
<1>5. ToSet(s) = ToSet(t) \cup {Head(s)}
  BY <1>3, <1>4 DEF ToSet
<1>6. ASSUME IsInjective(s) PROVE IsInjective(t) /\ Head(s) \notin ToSet(t)
  <2>1. IsInjective(t)
    BY <1>4, <1>6 DEF IsInjective
  <2>2. ASSUME NEW i \in DOMAIN t, t[i] = Head(s) PROVE FALSE
    <3>1. i + 1 \in DOMAIN s /\ s[i + 1] = s[1] /\ i + 1 # 1
      BY <1>3, <1>4, <2>2
    <3> QED
      BY <1>3, <1>6, <3>1 DEF IsInjective
  <2> QED
    BY <2>1, <2>2 DEF ToSet
<1> QED
  BY <1>3, <1>5, <1>6 DEF t, ToSet

-----------------------------------------------------------------------------
\* The requests in the channel, in batches that collect, in the hands of a future and
\* on the wire.
Queued == ToSet(channel)
Batched == UNION {ToSet(batching[i].reqs) : i \in DOMAIN batching}
Underway == UNION {ToSet(b.callers) : b \in running}
OnWire == UNION {ToSet(m.inputs) : m \in wire}

\* No request is in two of these places, unless its batch is under way and was sent.
PlacesApart ==
  /\ Queued \cap Batched = {} /\ Queued \cap Underway = {} /\ Batched \cap Underway = {}
  /\ OnWire \cap (Queued \cup Batched) = {}

\* Nor twice in one of them.
QueuedOnce == IsInjective(channel)

BatchedOnce ==
  /\ \A i \in DOMAIN batching : IsInjective(batching[i].reqs)
  /\ \A i, j \in DOMAIN batching : \A r \in ToSet(batching[i].reqs) :
       r \in ToSet(batching[j].reqs) => i = j

UnderwayOnce ==
  /\ \A b \in running : IsInjective(b.callers)
  /\ \A a, b \in running : \A r \in ToSet(a.callers) : r \in ToSet(b.callers) => a = b

SentOnce ==
  \A m, n \in wire : \A r \in ToSet(m.inputs) : r \in ToSet(n.inputs) => m = n

\* What collects in one batch goes to one destination, and no other batch collects for it.
OneBatchPerKey ==
  /\ \A i \in DOMAIN batching : \A r \in ToSet(batching[i].reqs) :
       Key[r] = Key[Head(batching[i].reqs)]
  /\ \A i, j \in DOMAIN batching :
       Key[Head(batching[i].reqs)] = Key[Head(batching[j].reqs)] => i = j

\* What travels together goes to the destination of each.
OneDestination ==
  /\ \A b \in running : \A r \in ToSet(b.callers) : Key[r] = Key[Head(b.callers)]
  /\ \A m \in wire : \A r \in ToSet(m.inputs) : Key[r] = m.key

\* The callers of what is kept wait or went away, and who waits is kept.
KeptWait ==
  /\ \A r \in Queued \cup Batched \cup Underway : stage[r] \in {"waiting", "gone"}
  /\ \A r \in OnWire : stage[r] \in {"waiting"} \cup Ended
  /\ \A r \in Requests : stage[r] = "waiting" => r \in Queued \cup Batched \cup Underway

\* How far each future has come: its request is not yet on the wire, is there, or was
\* run, and then its results are those of its callers in their order.
RunsFollowWire ==
  \A b \in running :
    /\ ~b.sent => b.results = <<>> /\ ToSet(b.callers) \cap OnWire = {}
    /\ \A m \in wire : \A r \in ToSet(m.inputs) :
         r \in ToSet(b.callers) => m.inputs = b.callers /\ b.results = <<>>
    /\ b.results # <<>> => b.results = b.callers

\* A request is run after it left the batches, and no longer on the wire.
RanInTurn ==
  /\ \A r \in Requests : stage[r] \in {"idle", "sending", "direct"} => ran[r] = <<>>
  /\ \A r \in Requests : stage[r] = "directRan" => ran[r] # <<>>
  /\ \A r \in Queued \cup Batched \cup OnWire : ran[r] = <<>>
  /\ \A b \in running : \A r \in ToSet(b.callers) :
       /\ ~b.sent => ran[r] = <<>>
       /\ b.results # <<>> => ran[r] # <<>>

BatchInv ==
  /\ BatchTypeOK /\ PlacesApart /\ QueuedOnce /\ BatchedOnce /\ UnderwayOnce /\ SentOnce
  /\ OneBatchPerKey /\ OneDestination /\ KeptWait /\ RunsFollowWire /\ RanInTurn

-----------------------------------------------------------------------------
\* What insert_to_batching finds: no batch for the request's destination, or the one.
LEMMA Inserted ==
  ASSUME BatchTypeOK, OneBatchPerKey, NEW r \in Requests
  PROVE  \/ /\ \A i \in DOMAIN batching : Key[Head(batching[i].reqs)] # Key[r]
            /\ Insert(r) = Append(batching, [left |-> Window, reqs |-> <<r>>])
         \/ \E i \in DOMAIN batching :
              /\ Key[Head(batching[i].reqs)] = Key[r]
              /\ Insert(r) = [batching EXCEPT ![i].reqs = Append(@, r)]
<1> DEFINE I == {i \in 1 .. Len(batching) : Key[Head(batching[i].reqs)] = Key[r]}
           found == IF I # {} THEN Min(I) ELSE 0
<1>1. Len(batching) \in Nat /\ DOMAIN batching = 1 .. Len(batching)
  BY LenProperties DEF BatchTypeOK
<1>2. Insert(r) = IF found # 0 THEN [batching EXCEPT ![found].reqs = Append(@, r)]
                  ELSE Append(batching, [left |-> Window, reqs |-> <<r>>])
  BY DEF Insert, SelectInSeq
<1>3. CASE I = {}
  BY <1>1, <1>2, <1>3
<1>4. ASSUME NEW i \in I
      PROVE  found = i /\ i # 0
  <2>1. i \in Nat /\ i # 0 /\ \A j \in I : j = i
    BY <1>1 DEF OneBatchPerKey
  <2>2. \E x \in I : \A y \in I : x =< y
    BY <2>1
  <2>3. Min(I) \in I
    BY <2>2 DEF Min
  <2> QED
    BY <2>1, <2>3
<1> QED
  BY <1>1, <1>2, <1>3, <1>4

\* The request joins one batch, which stays the only one for its destination.
LEMMA Collected ==
  ASSUME BatchTypeOK, BatchedOnce, OneBatchPerKey, BatchConstantsOK,
         NEW r \in Requests, r \notin Batched, batching' = Insert(r)
  PROVE  /\ batching' \in Seq(Batches) /\ Batched' = Batched \cup {r}
         /\ BatchedOnce' /\ OneBatchPerKey'
<1> DEFINE N == Len(batching)
<1>1. /\ N \in Nat /\ DOMAIN batching = 1 .. N
      /\ \A i \in 1 .. N : /\ batching[i] \in Batches
                           /\ batching[i].reqs \in Seq(Requests) /\ batching[i].reqs # <<>>
  <2>1. \A b \in Batches : b.reqs \in Seq(Requests) /\ b.reqs # <<>>
    BY DEF Batches
  <2>2. \A i \in 1 .. N : batching[i] \in Batches
    BY ElementOfSeq DEF BatchTypeOK
  <2> QED
    BY <2>1, <2>2, LenProperties DEF BatchTypeOK
<1>2. \A i \in 1 .. N : ToSet(batching[i].reqs) \subseteq Batched
  BY <1>1 DEF Batched
<1>3. CASE /\ \A i \in DOMAIN batching : Key[Head(batching[i].reqs)] # Key[r]
           /\ batching' = Append(batching, [left |-> Window, reqs |-> <<r>>])
  <2> DEFINE new == [left |-> Window, reqs |-> <<r>>]
  <2>1. /\ new \in Batches /\ new.reqs = <<r>> /\ Head(new.reqs) = r
        /\ ToSet(new.reqs) = {r} /\ IsInjective(new.reqs)
    BY DEF Batches, ToSet, IsInjective, BatchConstantsOK
  <2>2. /\ batching' \in Seq(Batches) /\ Len(batching') = N + 1 /\ batching'[N + 1] = new
        /\ \A i \in 1 .. N : batching'[i] = batching[i]
    BY <1>3, <2>1, AppendProperties DEF BatchTypeOK
  <2>3. DOMAIN batching' = (1 .. N) \cup {N + 1} /\ N + 1 \notin 1 .. N
    BY <1>1, <2>2, LenProperties
  <2> HIDE DEF N, new
  <2>4. Batched' = Batched \cup {r}
    <3>1. \A x : x \in Batched' <=> \E i \in DOMAIN batching' : x \in ToSet(batching'[i].reqs)
      BY DEF Batched
    <3>2. \A x : x \in Batched <=> \E i \in 1 .. N : x \in ToSet(batching[i].reqs)
      BY <1>1 DEF Batched
    <3> QED
      BY <2>1, <2>2, <2>3, <3>1, <3>2
  <2>5. BatchedOnce'
    <3>1. \A i \in DOMAIN batching' : IsInjective(batching'[i].reqs)
      BY <1>1, <2>1, <2>2, <2>3 DEF BatchedOnce
    <3>2. \A i, j \in DOMAIN batching' : \A x \in ToSet(batching'[i].reqs) :
            x \in ToSet(batching'[j].reqs) => i = j
      <4>1. \A i \in 1 .. N : \A x \in ToSet(batching[i].reqs) :
              x # r /\ \A j \in 1 .. N : x \in ToSet(batching[j].reqs) => i = j
        BY <1>1, <1>2 DEF BatchedOnce
      <4>2. ASSUME NEW i \in DOMAIN batching'
            PROVE  \/ i = N + 1 /\ ToSet(batching'[i].reqs) = {r}
                   \/ i \in 1 .. N /\ batching'[i] = batching[i]
        <5>1. CASE i \in 1 .. N
          BY <2>2, <5>1
        <5>2. CASE i = N + 1
          BY <2>1, <2>2, <5>2
        <5> QED
          BY <2>3, <5>1, <5>2
      <4> QED
        BY <4>1, <4>2
    <3> QED
      BY <3>1, <3>2 DEF BatchedOnce
  <2>6. OneBatchPerKey'
    BY <1>1, <1>3, <2>1, <2>2, <2>3 DEF OneBatchPerKey
  <2> QED
    BY <2>2, <2>4, <2>5, <2>6
<1>4. CASE \E i \in DOMAIN batching :
             /\ Key[Head(batching[i].reqs)] = Key[r]
             /\ batching' = [batching EXCEPT ![i].reqs = Append(@, r)]
  <2>1. PICK i \in 1 .. N : /\ Key[Head(batching[i].reqs)] = Key[r]
                            /\ batching' = [batching EXCEPT ![i].reqs = Append(@, r)]
    BY <1>1, <1>4
  <2> DEFINE grown == [batching[i] EXCEPT !.reqs = Append(@, r)]
  <2>2. /\ grown \in Batches /\ grown.reqs = Append(batching[i].reqs, r)
        /\ ToSet(grown.reqs) = ToSet(batching[i].reqs) \cup {r} /\ IsInjective(grown.reqs)
        /\ Head(grown.reqs) = Head(batching[i].reqs)
    <3>1. grown.reqs = Append(batching[i].reqs, r)
      BY <1>1 DEF Batches
    <3>2. grown \in Batches
      <4>1. /\ Append(batching[i].reqs, r) \in Seq(Requests) /\ Append(batching[i].reqs, r) # <<>>
        BY <1>1, AppendProperties
      <4> QED
        BY <1>1, <4>1 DEF Batches
    <3>3. r \notin ToSet(batching[i].reqs) /\ IsInjective(batching[i].reqs)
      BY <1>1, <1>2 DEF BatchedOnce
    <3> QED
      BY <1>1, <3>1, <3>2, <3>3, Appended
  <2>3. batching' = [batching EXCEPT ![i] = grown]
    BY <2>1
  <2>4. /\ batching' \in Seq(Batches) /\ DOMAIN batching' = 1 .. N
        /\ \A j \in 1 .. N : batching'[j] = IF j = i THEN grown ELSE batching[j]
    BY <1>1, <2>2, <2>3, ExceptSeq, LenProperties DEF BatchTypeOK
  <2> HIDE DEF N, grown
  <2>5. Batched' = Batched \cup {r}
    BY <1>1, <2>2, <2>4 DEF Batched
  <2>6. BatchedOnce'
    <3>1. \A j \in DOMAIN batching' : IsInjective(batching'[j].reqs)
      BY <1>1, <2>2, <2>4 DEF BatchedOnce
    <3>2. \A j, k \in DOMAIN batching' : \A x \in ToSet(batching'[j].reqs) :
            x \in ToSet(batching'[k].reqs) => j = k
      <4>1. \A j \in 1 .. N : \A x \in ToSet(batching[j].reqs) :
              x # r /\ \A k \in 1 .. N : x \in ToSet(batching[k].reqs) => j = k
        BY <1>1, <1>2 DEF BatchedOnce
      <4>2. \A j \in DOMAIN batching' : \A x \in ToSet(batching'[j].reqs) :
              j \in 1 .. N /\ ((x = r /\ j = i) \/ x \in ToSet(batching[j].reqs))
        BY <2>2, <2>4
      <4> QED
        BY <4>1, <4>2
    <3> QED
      BY <3>1, <3>2 DEF BatchedOnce
  <2>7. OneBatchPerKey'
    BY <1>1, <2>1, <2>2, <2>4 DEF OneBatchPerKey
  <2> QED
    BY <2>4, <2>5, <2>6, <2>7
<1> QED
  BY <1>3, <1>4, Inserted

\* The batch at the front leaves, with what it collected.
LEMMA FrontLeaves ==
  ASSUME BatchTypeOK, BatchedOnce, OneBatchPerKey, batching # <<>>, batching' = Tail(batching)
  PROVE  LET front == ToSet(Head(batching).reqs)
         IN  /\ Head(batching) \in Batches /\ batching' \in Seq(Batches)
             /\ Batched = Batched' \cup front /\ Batched' \cap front = {}
             /\ BatchedOnce' /\ OneBatchPerKey'
             /\ IsInjective(Head(batching).reqs)
             /\ \A r \in front : Key[r] = Key[Head(Head(batching).reqs)]
<1> DEFINE N == Len(batching)
           front == ToSet(Head(batching).reqs)
<1>1. /\ batching' \in Seq(Batches) /\ Len(batching') = N - 1 /\ N \in Nat /\ N > 0
      /\ \A i \in 1 .. N - 1 : batching'[i] = batching[i + 1]
      /\ DOMAIN batching = 1 .. N
  BY HeadTailProperties, EmptySeq, LenProperties DEF BatchTypeOK
<1>2. /\ DOMAIN batching' = 1 .. N - 1 /\ Head(batching) = batching[1] /\ 1 \in DOMAIN batching
      /\ batching[1] \in Batches
  BY <1>1, LenProperties, ElementOfSeq DEF BatchTypeOK
<1>3. /\ \A i \in DOMAIN batching' :
           i + 1 \in DOMAIN batching /\ i + 1 # 1 /\ batching'[i] = batching[i + 1]
      /\ \A i, j \in DOMAIN batching' : i + 1 = j + 1 => i = j
      /\ \A i \in DOMAIN batching :
           i = 1 \/ (i - 1 \in DOMAIN batching' /\ batching'[i - 1] = batching[i])
  BY <1>1, <1>2
<1> HIDE DEF N
<1>4. /\ \A x : x \in Batched' <=> \E i \in DOMAIN batching' : x \in ToSet(batching'[i].reqs)
      /\ \A x : x \in Batched <=> \E i \in DOMAIN batching : x \in ToSet(batching[i].reqs)
  BY DEF Batched
<1>5. Batched = Batched' \cup front
  <2>1. \A i \in DOMAIN batching :
          batching[i] = Head(batching) \/ \E j \in DOMAIN batching' : batching'[j] = batching[i]
    BY <1>2, <1>3
  <2>2. Batched \subseteq Batched' \cup front
    BY <1>4, <2>1
  <2>3. front \subseteq Batched /\ Batched' \subseteq Batched
    BY <1>2, <1>3, <1>4
  <2> QED
    BY <2>2, <2>3
<1>6. Batched' \cap front = {} /\ BatchedOnce' /\ IsInjective(Head(batching).reqs)
  <2>1. /\ \A i \in DOMAIN batching : IsInjective(batching[i].reqs)
        /\ \A i, j \in DOMAIN batching : \A r \in ToSet(batching[i].reqs) :
             r \in ToSet(batching[j].reqs) => i = j
    BY DEF BatchedOnce
  <2>2. Batched' \cap front = {}
    <3>1. ASSUME NEW i \in DOMAIN batching', NEW x \in front, x \in ToSet(batching'[i].reqs)
          PROVE  FALSE
      BY <1>2, <1>3, <2>1, <3>1
    <3> QED
      BY <1>4, <3>1
  <2>3. \A i \in DOMAIN batching' : IsInjective(batching'[i].reqs)
    BY <1>3, <2>1
  <2>4. \A i, j \in DOMAIN batching' : \A r \in ToSet(batching'[i].reqs) :
          r \in ToSet(batching'[j].reqs) => i = j
    BY <1>3, <2>1
  <2> QED
    BY <1>2, <2>1, <2>2, <2>3, <2>4 DEF BatchedOnce
<1>7. OneBatchPerKey' /\ \A r \in front : Key[r] = Key[Head(Head(batching).reqs)]
  BY <1>2, <1>3 DEF OneBatchPerKey
<1> QED
  BY <1>1, <1>2, <1>5, <1>6, <1>7

-----------------------------------------------------------------------------
\* The invariant, action by action.

LEMMA PlacesTyped ==
  ASSUME BatchTypeOK
  PROVE  /\ Queued \subseteq Requests /\ Batched \subseteq Requests
         /\ Underway \subseteq Requests /\ OnWire \subseteq Requests
         /\ \A b \in running :
              /\ b.callers \in Seq(Requests) /\ b.callers # <<>> /\ b.results \in Seq(Requests)
              /\ b.sent \in BOOLEAN /\ Head(b.callers) \in ToSet(b.callers)
              /\ ToSet(b.callers) \subseteq Underway
         /\ \A m \in wire :
              /\ m.key \in Keys /\ m.inputs \in Seq(Requests) /\ m.inputs # <<>>
              /\ ToSet(m.inputs) \subseteq OnWire
<1>1. \A b \in running : /\ b.callers \in Seq(Requests) /\ b.callers # <<>> /\ b.sent \in BOOLEAN
                         /\ b.results \in Seq(Requests)
  BY DEF BatchTypeOK, Runs
<1>2. \A m \in wire : m.key \in Keys /\ m.inputs \in Seq(Requests) /\ m.inputs # <<>>
  BY DEF BatchTypeOK, Messages
<1>3. \A i \in DOMAIN batching : batching[i].reqs \in Seq(Requests)
  <2>1. \A i \in DOMAIN batching : batching[i] \in Batches
    BY LenProperties, ElementOfSeq DEF BatchTypeOK
  <2> QED
    BY <2>1 DEF Batches
<1>4. \A b \in running : Head(b.callers) \in ToSet(b.callers)
  BY <1>1, Dequeued
<1>5. /\ Queued \subseteq Requests /\ Batched \subseteq Requests
      /\ Underway \subseteq Requests /\ OnWire \subseteq Requests
  BY <1>1, <1>2, <1>3, ElementsIn DEF BatchTypeOK, Queued, Batched, Underway, OnWire
<1> QED
  BY <1>1, <1>2, <1>4, <1>5 DEF Underway, OnWire

LEMMA BatchInvInit == BatchInit => BatchInv
<1> SUFFICES ASSUME BatchInit PROVE BatchInv
  OBVIOUS
<1>1. BatchTypeOK
  BY BatchConstantsOK, EmptySeq DEF BatchInit, BatchTypeOK
<1>2. Queued = {} /\ Batched = {} /\ Underway = {} /\ OnWire = {}
  BY DEF BatchInit, Queued, Batched, Underway, OnWire, ToSet
<1>3. QueuedOnce /\ BatchedOnce /\ UnderwayOnce /\ SentOnce /\ OneBatchPerKey
  BY DEF BatchInit, QueuedOnce, BatchedOnce, UnderwayOnce, SentOnce, OneBatchPerKey, IsInjective
<1>4. OneDestination /\ KeptWait /\ RunsFollowWire /\ RanInTurn
  BY <1>2 DEF BatchInit, OneDestination, KeptWait, RunsFollowWire, RanInTurn
<1> QED
  BY <1>1, <1>2, <1>3, <1>4 DEF BatchInv, PlacesApart

\* What depends on where requests are, and not on their callers.
PlacesInv ==
  /\ PlacesApart /\ QueuedOnce /\ BatchedOnce /\ UnderwayOnce /\ SentOnce
  /\ OneBatchPerKey /\ OneDestination /\ RunsFollowWire

LEMMA NothingMoves ==
  ASSUME UNCHANGED <<channel, batching, running, wire>>
  PROVE  /\ Queued' = Queued /\ Batched' = Batched /\ Underway' = Underway /\ OnWire' = OnWire
         /\ PlacesInv => PlacesInv'
<1>1. /\ Queued' = Queued /\ Batched' = Batched /\ Underway' = Underway /\ OnWire' = OnWire
  BY DEF Queued, Batched, Underway, OnWire
<1>2. PlacesApart => PlacesApart'
  BY <1>1 DEF PlacesApart
<1>3. /\ QueuedOnce => QueuedOnce'
      /\ BatchedOnce => BatchedOnce'
      /\ UnderwayOnce => UnderwayOnce'
      /\ SentOnce => SentOnce'
  BY DEF QueuedOnce, BatchedOnce, UnderwayOnce, SentOnce
<1>4. /\ OneBatchPerKey => OneBatchPerKey'
      /\ OneDestination => OneDestination'
  BY DEF OneBatchPerKey, OneDestination
<1>5. RunsFollowWire => RunsFollowWire'
  BY <1>1 DEF RunsFollowWire
<1> QED
  BY <1>1, <1>2, <1>3, <1>4, <1>5 DEF PlacesInv

\* A step of a caller that leaves its request where it is.
LEMMA CallerStep ==
  ASSUME BatchInv, NEW r \in Requests,
         Submit(r) \/ DirectRun(r) \/ DirectReply(r) \/ Abandon(r)
  PROVE  BatchInv'
<1>1. /\ UNCHANGED <<channel, batching, running, wire, alive>>
      /\ stage[r] \in InFlight \cup {"idle"}
      /\ stage' \in [Requests -> {"idle"} \cup InFlight \cup Ended]
      /\ \A q \in Requests \ {r} : stage'[q] = stage[q]
  BY DEF BatchInv, BatchTypeOK, Submit, DirectRun, DirectReply, Abandon, InFlight, Ended
<1>2. PlacesInv'
  BY <1>1, NothingMoves DEF BatchInv, PlacesInv
<1>3. /\ ran' \in [Requests -> Seq(Keys)] /\ \A q \in Requests \ {r} : ran'[q] = ran[q]
      /\ ran'[r] = ran[r] \/ (stage[r] = "direct" /\ stage'[r] = "directRan" /\ ran'[r] # <<>>)
  <2>1. CASE DirectRun(r)
    <3>1. ran[r] \in Seq(Keys) /\ Key[r] \in Keys
      BY BatchConstantsOK DEF BatchInv, BatchTypeOK
    <3>2. Append(ran[r], Key[r]) \in Seq(Keys) /\ Append(ran[r], Key[r]) # <<>>
      BY <3>1, AppendProperties
    <3> QED
      BY <2>1, <3>2 DEF DirectRun, BatchInv, BatchTypeOK
  <2> QED
    BY <2>1 DEF Submit, DirectReply, Abandon, BatchInv, BatchTypeOK
<1>4. BatchTypeOK'
  BY <1>1, <1>3 DEF BatchInv, BatchTypeOK, Submit, DirectRun, DirectReply, Abandon
<1>5. /\ Queued' = Queued /\ Batched' = Batched /\ Underway' = Underway /\ OnWire' = OnWire
      /\ Queued \subseteq Requests /\ Batched \subseteq Requests
      /\ Underway \subseteq Requests /\ OnWire \subseteq Requests
  BY <1>1, NothingMoves, PlacesTyped DEF BatchInv
<1>6. \/ stage[r] \in {"idle", "direct", "directRan"} /\ stage'[r] # "waiting"
      \/ stage'[r] = "gone"
  BY DEF Submit, DirectRun, DirectReply, Abandon, BatchInv, BatchTypeOK
<1>7. KeptWait'
  BY <1>1, <1>5, <1>6 DEF BatchInv, KeptWait, Ended
<1>8. RanInTurn'
  <2>1. r \in Queued \cup Batched \cup Underway \cup OnWire => ran'[r] = ran[r]
    BY <1>3 DEF BatchInv, KeptWait, Ended
  <2>2. stage'[r] = "directRan" => ran'[r] # <<>>
    BY <1>3 DEF Submit, DirectRun, DirectReply, Abandon, BatchInv, BatchTypeOK
  <2>3. stage'[r] \in {"idle", "sending", "direct"} => ran'[r] = <<>>
    BY DEF Submit, DirectRun, DirectReply, Abandon, BatchInv, BatchTypeOK, RanInTurn
  <2>4. \A q \in Queued \cup Batched \cup OnWire : ran'[q] = <<>>
    BY <1>3, <1>5, <2>1 DEF BatchInv, RanInTurn
  <2>5. \A b \in running : \A q \in ToSet(b.callers) : ran'[q] = ran[q]
    BY <1>3, <1>5, <2>1, PlacesTyped DEF BatchInv
  <2> QED
    BY <1>1, <1>3, <1>5, <2>2, <2>3, <2>4, <2>5 DEF BatchInv, RanInTurn
<1> QED
  BY <1>2, <1>4, <1>7, <1>8 DEF BatchInv, PlacesInv

\* A request that was never kept anywhere goes to the back of the channel.
LEMMA SendStep ==
  ASSUME BatchInv, NEW r \in Requests, Send(r)
  PROVE  BatchInv'
<1>1. CASE ~alive
  <2>1. UNCHANGED <<channel, batching, running, wire>> /\ stage' = [stage EXCEPT ![r] = "err"]
    BY <1>1 DEF Send
  <2>2. PlacesInv' /\ BatchTypeOK'
    BY <2>1, NothingMoves DEF Send, BatchInv, PlacesInv, BatchTypeOK, Ended
  <2>3. KeptWait' /\ RanInTurn'
    BY <2>1, NothingMoves DEF Send, BatchInv, BatchTypeOK, KeptWait, RanInTurn, Ended
  <2> QED
    BY <2>2, <2>3 DEF BatchInv, PlacesInv
<1>2. CASE alive
  <2>1. /\ stage[r] = "sending" /\ stage' = [stage EXCEPT ![r] = "waiting"]
        /\ channel' = Append(channel, r) /\ Len(channel) < Capacity
        /\ UNCHANGED <<batching, running, wire, ran, reply, alive>>
    BY <1>2 DEF Send
  <2>2. r \notin Queued \cup Batched \cup Underway \cup OnWire /\ ran[r] = <<>>
    BY <2>1 DEF BatchInv, KeptWait, RanInTurn, Ended
  <2>3. /\ channel' \in Seq(Requests) /\ Len(channel') <= Capacity
        /\ Queued' = Queued \cup {r} /\ QueuedOnce'
    <3>1. channel \in Seq(Requests) /\ Len(channel) \in Nat /\ Capacity \in Nat
      BY LenProperties, BatchConstantsOK DEF BatchInv, BatchTypeOK
    <3>2. channel' \in Seq(Requests) /\ Len(channel') = Len(channel) + 1
      BY <2>1, <3>1, AppendProperties
    <3> QED
      BY <2>1, <2>2, <3>1, <3>2, Appended DEF Queued, QueuedOnce, BatchInv
  <2>4. Batched' = Batched /\ Underway' = Underway /\ OnWire' = OnWire
    BY <2>1 DEF Batched, Underway, OnWire
  <2>5. BatchTypeOK'
    BY <2>1, <2>3 DEF BatchInv, BatchTypeOK, InFlight
  <2>6. PlacesApart'
    BY <2>2, <2>3, <2>4 DEF BatchInv, PlacesApart
  <2>7. BatchedOnce' /\ UnderwayOnce' /\ SentOnce' /\ OneBatchPerKey' /\ OneDestination'
    BY <2>1 DEF BatchInv, BatchedOnce, UnderwayOnce, SentOnce, OneBatchPerKey, OneDestination
  <2>8. RunsFollowWire'
    BY <2>1, <2>4 DEF BatchInv, RunsFollowWire
  <2>9. KeptWait'
    BY <2>1, <2>3, <2>4 DEF BatchInv, BatchTypeOK, KeptWait
  <2>10. RanInTurn'
    BY <2>1, <2>2, <2>3, <2>4 DEF BatchInv, BatchTypeOK, RanInTurn
  <2> QED
    BY <2>3, <2>5, <2>6, <2>7, <2>8, <2>9, <2>10 DEF BatchInv
<1> QED
  BY <1>1, <1>2 DEF BatchInv, BatchTypeOK

\* The runner takes the oldest request off the channel.
LEMMA ReceiveStep ==
  ASSUME BatchInv, Receive
  PROVE  BatchInv'
<1> DEFINE r == Head(channel)
<1>1. /\ channel \in Seq(Requests) /\ channel # <<>> /\ channel' = Tail(channel)
      /\ batching' = Insert(r)
      /\ UNCHANGED <<stage, running, wire, ran, reply, alive>>
  BY DEF Receive, BatchInv, BatchTypeOK
<1>2. /\ r \in Requests /\ channel' \in Seq(Requests) /\ Len(channel') <= Capacity
      /\ Queued = Queued' \cup {r} /\ r \notin Queued' /\ QueuedOnce'
  <2>1. /\ r \in Requests /\ channel' \in Seq(Requests) /\ Len(channel') = Len(channel) - 1
    BY <1>1, HeadTailProperties
  <2>2. Len(channel') <= Capacity
    BY <2>1, LenProperties, BatchConstantsOK DEF BatchInv, BatchTypeOK
  <2>3. Queued = Queued' \cup {r} /\ r \notin Queued' /\ QueuedOnce'
    BY <1>1, Dequeued DEF BatchInv, Queued, QueuedOnce
  <2> QED
    BY <2>1, <2>2, <2>3
<1> HIDE DEF r
<1>3. r \notin Batched
  BY <1>2 DEF BatchInv, PlacesApart
<1>4. batching' \in Seq(Batches) /\ Batched' = Batched \cup {r} /\ BatchedOnce' /\ OneBatchPerKey'
  BY <1>1, <1>2, <1>3, Collected, BatchConstantsOK DEF BatchInv
<1>5. Underway' = Underway /\ OnWire' = OnWire
  BY <1>1 DEF Underway, OnWire
<1>6. BatchTypeOK'
  BY <1>1, <1>2, <1>4 DEF BatchInv, BatchTypeOK
<1>7. PlacesApart'
  BY <1>2, <1>4, <1>5 DEF BatchInv, PlacesApart
<1>8. UnderwayOnce' /\ SentOnce' /\ OneDestination' /\ RunsFollowWire'
  BY <1>1, <1>5 DEF BatchInv, UnderwayOnce, SentOnce, OneDestination, RunsFollowWire
<1>9. KeptWait' /\ RanInTurn'
  BY <1>1, <1>2, <1>4, <1>5 DEF BatchInv, KeptWait, RanInTurn
<1> QED
  BY <1>2, <1>4, <1>6, <1>7, <1>8, <1>9 DEF BatchInv

\* Time passes: windows shrink and batches keep what they hold.
LEMMA TickStep ==
  ASSUME BatchInv, Tick
  PROVE  BatchInv'
<1> DEFINE N == Len(batching)
<1>1. N \in Nat /\ DOMAIN batching = 1 .. N /\ \A i \in 1 .. N : batching[i] \in Batches
  BY LenProperties, ElementOfSeq DEF BatchInv, BatchTypeOK
<1>2. /\ batching' = [i \in 1 .. N |->
           [batching[i] EXCEPT !.left = IF batching[i].left = 0 THEN 0 ELSE batching[i].left - 1]]
      /\ UNCHANGED <<stage, channel, running, wire, ran, reply, alive>>
  BY <1>1 DEF Tick
<1>3. \A i \in 1 .. N : batching'[i] \in Batches /\ batching'[i].reqs = batching[i].reqs
  BY <1>1, <1>2, BatchConstantsOK DEF Batches
<1>4. batching' \in [1 .. N -> Batches] /\ DOMAIN batching' = 1 .. N
  BY <1>2, <1>3
<1>5. BatchTypeOK'
  BY <1>1, <1>2, <1>4, SeqDef DEF BatchInv, BatchTypeOK
<1>6. Batched' = Batched
  BY <1>1, <1>3, <1>4 DEF Batched
<1>7. BatchedOnce' /\ OneBatchPerKey'
  BY <1>1, <1>3, <1>4 DEF BatchInv, BatchedOnce, OneBatchPerKey
<1>8. Queued' = Queued /\ Underway' = Underway /\ OnWire' = OnWire
  BY <1>2 DEF Queued, Underway, OnWire
<1>9. PlacesApart' /\ QueuedOnce' /\ UnderwayOnce' /\ SentOnce' /\ OneDestination'
  BY <1>2, <1>6, <1>8
    DEF BatchInv, PlacesApart, QueuedOnce, UnderwayOnce, SentOnce, OneDestination
<1>10. RunsFollowWire' /\ KeptWait' /\ RanInTurn'
  BY <1>2, <1>6, <1>8 DEF BatchInv, RunsFollowWire, KeptWait, RanInTurn
<1> QED
  BY <1>5, <1>7, <1>9, <1>10 DEF BatchInv

\* The front batch becomes a future.
LEMMA StartStep ==
  ASSUME BatchInv, StartBatch
  PROVE  BatchInv'
<1> DEFINE front == ToSet(Head(batching).reqs)
           b == RunOf(Head(batching))
<1>1. /\ batching # <<>> /\ batching' = Tail(batching) /\ running' = running \cup {b}
      /\ UNCHANGED <<stage, channel, wire, ran, reply, alive>>
  BY DEF StartBatch
<1>2. /\ Head(batching) \in Batches /\ batching' \in Seq(Batches)
      /\ Batched = Batched' \cup front /\ Batched' \cap front = {}
      /\ BatchedOnce' /\ OneBatchPerKey' /\ IsInjective(Head(batching).reqs)
      /\ \A r \in front : Key[r] = Key[Head(Head(batching).reqs)]
  BY <1>1, FrontLeaves DEF BatchInv
<1>3. b \in Runs /\ b.callers = Head(batching).reqs /\ ~b.sent /\ b.results = <<>>
  BY <1>2, EmptySeq DEF RunOf, Batches, Runs
<1>4. ToSet(b.callers) = front
  BY <1>3
<1> HIDE DEF b, front
<1>5. Queued' = Queued /\ Underway' = Underway \cup front /\ OnWire' = OnWire
  BY <1>1, <1>4 DEF Queued, Underway, OnWire
<1>6. BatchTypeOK'
  BY <1>1, <1>2, <1>3 DEF BatchInv, BatchTypeOK
<1>7. PlacesApart'
  BY <1>2, <1>5 DEF BatchInv, PlacesApart
<1>8. front \cap Underway = {} /\ front \cap OnWire = {}
  BY <1>2 DEF BatchInv, PlacesApart
<1>9. QueuedOnce' /\ SentOnce'
  BY <1>1 DEF BatchInv, QueuedOnce, SentOnce
<1>10. UnderwayOnce'
  <2>1. \A a \in running : \A r \in ToSet(a.callers) : r \notin front
    BY <1>8 DEF Underway
  <2>2. IsInjective(b.callers)
    BY <1>2, <1>3
  <2> QED
    BY <1>1, <1>4, <2>1, <2>2 DEF BatchInv, UnderwayOnce
<1>11. OneDestination'
  BY <1>1, <1>2, <1>3, <1>4 DEF BatchInv, OneDestination
<1>12. RunsFollowWire'
  <2>1. \A m \in wire : \A r \in ToSet(m.inputs) : r \notin front
    BY <1>8 DEF OnWire
  <2> QED
    BY <1>1, <1>3, <1>4, <1>5, <1>8, <2>1 DEF BatchInv, RunsFollowWire
<1>13. KeptWait'
  BY <1>1, <1>2, <1>5 DEF BatchInv, KeptWait
<1>14. RanInTurn'
  BY <1>1, <1>2, <1>3, <1>4, <1>5 DEF BatchInv, RanInTurn
<1> QED
  BY <1>2, <1>6, <1>7, <1>9, <1>10, <1>11, <1>12, <1>13, <1>14 DEF BatchInv

\* The future sends its batch, whose requests were never on the wire.
LEMMA ExecuteStep ==
  ASSUME BatchInv, NEW b \in running, Execute(b)
  PROVE  BatchInv'
<1> DEFINE m == [key |-> Key[Head(b.callers)], inputs |-> b.callers]
           s == [b EXCEPT !.sent = TRUE]
<1>1. /\ ~b.sent /\ wire' = wire \cup {m} /\ running' = (running \ {b}) \cup {s}
      /\ UNCHANGED <<stage, channel, batching, ran, reply, alive>>
  BY DEF Execute
<1>2. /\ b.callers \in Seq(Requests) /\ b.callers # <<>> /\ b.results = <<>> /\ b \in Runs
      /\ ToSet(b.callers) \cap OnWire = {} /\ ToSet(b.callers) \subseteq Underway
      /\ Key[Head(b.callers)] \in Keys
  <2>1. /\ b.callers \in Seq(Requests) /\ b.callers # <<>> /\ ToSet(b.callers) \subseteq Underway
        /\ Head(b.callers) \in Requests
    BY PlacesTyped, HeadTailProperties DEF BatchInv
  <2>2. Key[Head(b.callers)] \in Keys
    BY <2>1, BatchConstantsOK
  <2> QED
    BY <1>1, <2>1, <2>2 DEF BatchInv, RunsFollowWire, BatchTypeOK
<1>3. /\ m \in Messages /\ m.inputs = b.callers /\ m.key = Key[Head(b.callers)]
      /\ s \in Runs /\ s.callers = b.callers /\ s.results = b.results /\ s.sent
  BY <1>2 DEF Messages, Runs
<1> HIDE DEF m, s
<1>4. /\ Queued' = Queued /\ Batched' = Batched /\ Underway' = Underway
      /\ OnWire' = OnWire \cup ToSet(b.callers)
  BY <1>1, <1>3 DEF Queued, Batched, Underway, OnWire
<1>5. BatchTypeOK'
  BY <1>1, <1>3 DEF BatchInv, BatchTypeOK
<1>6. PlacesApart'
  BY <1>2, <1>4 DEF BatchInv, PlacesApart
<1>7. QueuedOnce' /\ BatchedOnce' /\ OneBatchPerKey'
  BY <1>1 DEF BatchInv, QueuedOnce, BatchedOnce, OneBatchPerKey
<1>8. UnderwayOnce'
  BY <1>1, <1>3 DEF BatchInv, UnderwayOnce
<1>9. \A n \in wire : \A r \in ToSet(n.inputs) : r \notin ToSet(b.callers)
  BY <1>2 DEF OnWire
<1>10. SentOnce'
  BY <1>1, <1>3, <1>9 DEF BatchInv, SentOnce
<1>11. OneDestination'
  BY <1>1, <1>3 DEF BatchInv, OneDestination
<1>12. \A a \in running : a # b => \A r \in ToSet(a.callers) : r \notin ToSet(b.callers)
  BY DEF BatchInv, UnderwayOnce
<1>13. RunsFollowWire'
  <2>1. ASSUME NEW a \in running', ~a.sent
        PROVE  a.results = <<>> /\ ToSet(a.callers) \cap OnWire' = {}
    BY <1>1, <1>3, <1>4, <1>12, <2>1 DEF BatchInv, RunsFollowWire
  <2>2. ASSUME NEW a \in running', NEW n \in wire', NEW r \in ToSet(n.inputs),
               r \in ToSet(a.callers)
        PROVE  n.inputs = a.callers /\ a.results = <<>>
    BY <1>1, <1>2, <1>3, <1>9, <1>12, <2>2 DEF BatchInv, RunsFollowWire
  <2>3. \A a \in running' : a.results # <<>> => a.results = a.callers
    BY <1>1, <1>2, <1>3 DEF BatchInv, RunsFollowWire
  <2> QED
    BY <2>1, <2>2, <2>3 DEF RunsFollowWire
<1>14. KeptWait'
  BY <1>1, <1>2, <1>4 DEF BatchInv, KeptWait, Ended
<1>15. RanInTurn'
  BY <1>1, <1>2, <1>3, <1>4 DEF BatchInv, RanInTurn
<1> QED
  BY <1>5, <1>6, <1>7, <1>8, <1>10, <1>11, <1>13, <1>14, <1>15 DEF BatchInv

\* The server runs a batch: its results go to the future whose callers it carries.
LEMMA Served ==
  ASSUME BatchInv, NEW m \in wire, Serve(m)
  PROVE  /\ \A r \in Requests :
              ran'[r] = IF r \in ToSet(m.inputs) THEN Append(ran[r], Key[r]) ELSE ran[r]
         /\ \A b \in running : \E c \in running' : c.callers = b.callers
         /\ \A c \in running' : \E b \in running :
              /\ c.callers = b.callers /\ c.sent = b.sent /\ c \in Runs
              /\ \/ b.callers = m.inputs /\ c.results = m.inputs /\ b.sent
                 \/ b = c /\ ToSet(b.callers) \cap ToSet(m.inputs) = {}
<1> DEFINE answered(b) == [b EXCEPT !.results = m.inputs]
           after(b) == IF ToSet(b.callers) = ToSet(m.inputs) THEN answered(b) ELSE b
<1>1. m.inputs \in Seq(Requests) /\ m.inputs # <<>> /\ Head(m.inputs) \in ToSet(m.inputs)
  BY PlacesTyped, Dequeued DEF BatchInv
<1>2. running' = {after(b) : b \in running}
  BY DEF Serve
<1>3. \A r \in Requests :
        ran'[r] = IF r \in ToSet(m.inputs) THEN Append(ran[r], Key[r]) ELSE ran[r]
  <2>1. \A r \in Requests :
          ran'[r] = IF Contains(m.inputs, r) THEN Append(ran[r], m.key) ELSE ran[r]
    BY DEF Serve
  <2>2. \A r \in Requests : Contains(m.inputs, r) <=> r \in ToSet(m.inputs)
    BY <1>1, ContainsIsMembership
  <2>3. \A r \in ToSet(m.inputs) : Key[r] = m.key
    BY DEF BatchInv, OneDestination
  <2> QED
    BY <2>1, <2>2, <2>3
<1>4. ASSUME NEW b \in running
      PROVE  /\ after(b).callers = b.callers /\ after(b).sent = b.sent /\ after(b) \in Runs
             /\ \/ b.callers = m.inputs /\ after(b).results = m.inputs /\ b.sent
                \/ after(b) = b /\ ToSet(b.callers) \cap ToSet(m.inputs) = {}
  <2>1. b \in Runs /\ after(b) \in Runs /\ after(b).callers = b.callers /\ after(b).sent = b.sent
    BY <1>1 DEF BatchInv, BatchTypeOK, Runs
  <2>2. CASE ToSet(b.callers) = ToSet(m.inputs)
    <3>1. Head(m.inputs) \in ToSet(b.callers) /\ Head(m.inputs) \in OnWire
      BY <1>1, <2>2 DEF OnWire
    <3>2. b.callers = m.inputs /\ b.sent
      BY <1>1, <2>1, <3>1 DEF BatchInv, RunsFollowWire, Runs
    <3> QED
      BY <2>1, <2>2, <3>2 DEF Runs
  <2>3. CASE ToSet(b.callers) # ToSet(m.inputs)
    BY <2>1, <2>3 DEF BatchInv, RunsFollowWire
  <2> QED
    BY <2>2, <2>3, <2>1
<1> HIDE DEF after
<1> QED
  BY <1>2, <1>3, <1>4

LEMMA ServeStep ==
  ASSUME BatchInv, NEW m \in wire, Serve(m)
  PROVE  BatchInv'
<1>1. wire' = wire \ {m} /\ UNCHANGED <<stage, channel, batching, reply, alive>>
  BY DEF Serve
<1>2. m.inputs \in Seq(Requests) /\ ToSet(m.inputs) \subseteq OnWire /\ OnWire \subseteq Requests
  BY PlacesTyped DEF BatchInv
<1>3. \A r \in Requests :
        ran'[r] = IF r \in ToSet(m.inputs) THEN Append(ran[r], Key[r]) ELSE ran[r]
  BY Served
<1>4. /\ \A b \in running : \E c \in running' : c.callers = b.callers
      /\ \A c \in running' : \E b \in running :
           /\ c.callers = b.callers /\ c.sent = b.sent /\ c \in Runs
           /\ \/ b.callers = m.inputs /\ c.results = m.inputs /\ b.sent
              \/ b = c /\ ToSet(b.callers) \cap ToSet(m.inputs) = {}
  BY Served
<1>5. /\ Queued' = Queued /\ Batched' = Batched
      /\ Underway' = Underway /\ OnWire' = OnWire \ ToSet(m.inputs)
  <2>1. Queued' = Queued /\ Batched' = Batched
    BY <1>1 DEF Queued, Batched
  <2>2. Underway' = Underway
    BY <1>4 DEF Underway
  <2>3. OnWire' = OnWire \ ToSet(m.inputs)
    <3>1. \A n \in wire : n # m => ToSet(n.inputs) \cap ToSet(m.inputs) = {}
      BY DEF BatchInv, SentOnce
    <3> QED
      BY <1>1, <3>1 DEF OnWire
  <2> QED
    BY <2>1, <2>2, <2>3
<1>6. BatchTypeOK'
  <2>1. \A r \in Requests : ran'[r] \in Seq(Keys)
    <3>1. \A r \in Requests : ran[r] \in Seq(Keys) /\ Key[r] \in Keys
      BY BatchConstantsOK DEF BatchInv, BatchTypeOK
    <3>2. \A r \in Requests : Append(ran[r], Key[r]) \in Seq(Keys)
      BY <3>1, AppendProperties
    <3> QED
      BY <1>3, <3>1, <3>2
  <2>2. ran' \in [Requests -> Seq(Keys)]
    BY <2>1 DEF Serve
  <2> QED
    BY <1>1, <1>4, <2>2 DEF BatchInv, BatchTypeOK
<1>7. PlacesApart'
  BY <1>5 DEF BatchInv, PlacesApart
<1>8. QueuedOnce' /\ BatchedOnce' /\ OneBatchPerKey' /\ SentOnce'
  BY <1>1 DEF BatchInv, QueuedOnce, BatchedOnce, OneBatchPerKey, SentOnce
<1>9. UnderwayOnce'
  <2>1. \A c \in running' : IsInjective(c.callers)
    BY <1>4 DEF BatchInv, UnderwayOnce
  <2>2. ASSUME NEW c \in running', NEW d \in running', NEW r \in ToSet(c.callers),
               r \in ToSet(d.callers)
        PROVE  c = d
    <3>1. PICK a \in running :
            /\ c.callers = a.callers /\ c.sent = a.sent /\ c \in Runs
            /\ \/ a.callers = m.inputs /\ c.results = m.inputs
               \/ a = c /\ ToSet(a.callers) \cap ToSet(m.inputs) = {}
      BY <1>4
    <3>2. PICK b \in running :
            /\ d.callers = b.callers /\ d.sent = b.sent /\ d \in Runs
            /\ \/ b.callers = m.inputs /\ d.results = m.inputs
               \/ b = d /\ ToSet(b.callers) \cap ToSet(m.inputs) = {}
      BY <1>4
    <3>3. a = b
      BY <2>2, <3>1, <3>2 DEF BatchInv, UnderwayOnce
    <3>4. c.callers = d.callers /\ c.sent = d.sent /\ c.results = d.results
      BY <2>2, <3>1, <3>2, <3>3
    <3> QED
      BY <3>1, <3>2, <3>4 DEF Runs
  <2> QED
    BY <2>1, <2>2 DEF UnderwayOnce
<1>10. OneDestination'
  BY <1>1, <1>4 DEF BatchInv, OneDestination
<1>11. RunsFollowWire'
  <2> SUFFICES ASSUME NEW c \in running'
               PROVE  RunsFollowWire!(c)'
    BY DEF RunsFollowWire
  <2>1. PICK b \in running :
          /\ c.callers = b.callers /\ c.sent = b.sent
          /\ \/ b.callers = m.inputs /\ c.results = m.inputs /\ b.sent
             \/ b = c /\ ToSet(b.callers) \cap ToSet(m.inputs) = {}
    BY <1>4
  <2>2. ~c.sent => c.results = <<>> /\ ToSet(c.callers) \cap OnWire' = {}
    BY <1>5, <2>1 DEF BatchInv, RunsFollowWire
  <2>3. ASSUME NEW n \in wire', NEW r \in ToSet(n.inputs), r \in ToSet(c.callers)
        PROVE  n.inputs = c.callers /\ c.results = <<>>
    <3>1. n \in wire /\ r \notin ToSet(m.inputs)
      BY <1>1, <2>3 DEF BatchInv, SentOnce
    <3> QED
      BY <2>1, <2>3, <3>1 DEF BatchInv, RunsFollowWire
  <2>4. c.results # <<>> => c.results = c.callers
    BY <2>1 DEF BatchInv, RunsFollowWire
  <2> QED
    BY <2>2, <2>3, <2>4
<1>12. KeptWait'
  BY <1>1, <1>5 DEF BatchInv, KeptWait
<1>13. RanInTurn'
  <2>1. \A r \in ToSet(m.inputs) :
          /\ r \in Requests /\ r \notin Queued \cup Batched /\ stage[r] \in {"waiting"} \cup Ended
          /\ ran'[r] # <<>>
    <3>1. \A r \in ToSet(m.inputs) : ran[r] \in Seq(Keys) /\ Key[r] \in Keys
      BY <1>2, BatchConstantsOK DEF BatchInv, BatchTypeOK
    <3>2. \A r \in ToSet(m.inputs) : Append(ran[r], Key[r]) # <<>>
      BY <3>1, AppendProperties
    <3> QED
      BY <1>2, <1>3, <3>2 DEF BatchInv, PlacesApart, KeptWait
  <2>2. \A r \in Requests : r \notin ToSet(m.inputs) => ran'[r] = ran[r]
    BY <1>3
  <2>3. \A r \in Requests : stage'[r] \in {"idle", "sending", "direct"} => ran'[r] = <<>>
    BY <1>1, <2>1, <2>2 DEF BatchInv, RanInTurn, Ended
  <2>4. \A r \in Requests : stage'[r] = "directRan" => ran'[r] # <<>>
    BY <1>1, <2>1, <2>2 DEF BatchInv, RanInTurn, Ended
  <2>5. \A r \in Queued' \cup Batched' \cup OnWire' : ran'[r] = <<>>
    BY <1>2, <1>5, <2>1, <2>2, PlacesTyped DEF BatchInv, RanInTurn
  <2>6. ASSUME NEW c \in running', NEW r \in ToSet(c.callers)
        PROVE  /\ ~c.sent => ran'[r] = <<>>
               /\ c.results # <<>> => ran'[r] # <<>>
    <3>1. PICK b \in running :
            /\ c.callers = b.callers /\ c.sent = b.sent
            /\ \/ b.callers = m.inputs /\ c.results = m.inputs /\ b.sent
               \/ b = c /\ ToSet(b.callers) \cap ToSet(m.inputs) = {}
      BY <1>4
    <3>2. r \in Requests
      BY <2>6, <3>1, PlacesTyped DEF BatchInv
    <3> QED
      BY <2>1, <2>2, <2>6, <3>1, <3>2 DEF BatchInv, RanInTurn
  <2> QED
    BY <2>3, <2>4, <2>5, <2>6 DEF RanInTurn
<1> QED
  BY <1>6, <1>7, <1>8, <1>9, <1>10, <1>11, <1>12, <1>13 DEF BatchInv

\* A future ends in one way: some of its callers get their own result, if it has results,
\* and all others that wait an error.
LEMMA EndsForItsCallers ==
  ASSUME BatchInv, NEW b \in running, DealResults(b) \/ BatchFails(b)
  PROVE  /\ running' = running \ {b} /\ UNCHANGED <<channel, batching, wire, ran, alive>>
         /\ \E good \in SUBSET {r \in ToSet(b.callers) : stage[r] = "waiting"} :
              /\ b.results = <<>> => good = {}
              /\ stage' = [r \in Requests |->
                             IF r \in good THEN "ok" ELSE Fail(ToSet(b.callers))[r]]
              /\ reply' = [r \in Requests |-> IF r \in good THEN r ELSE reply[r]]
<1>1. CASE BatchFails(b)
  <2>1. /\ stage' = [r \in Requests |-> IF r \in {} THEN "ok" ELSE Fail(ToSet(b.callers))[r]]
        /\ reply' = [r \in Requests |-> IF r \in {} THEN r ELSE reply[r]]
    BY <1>1 DEF BatchFails, Fail, BatchInv, BatchTypeOK
  <2> DEFINE good == {}
  <2>2. good \in SUBSET {r \in ToSet(b.callers) : stage[r] = "waiting"}
    OBVIOUS
  <2>3. /\ stage' = [r \in Requests |-> IF r \in good THEN "ok" ELSE Fail(ToSet(b.callers))[r]]
        /\ reply' = [r \in Requests |-> IF r \in good THEN r ELSE reply[r]]
    BY <2>1
  <2>4. b.results = <<>> => good = {}
    OBVIOUS
  <2> HIDE DEF good
  <2> QED
    BY <1>1, <2>2, <2>3, <2>4 DEF BatchFails
<1>2. CASE DealResults(b)
  <2>1. b.results = b.callers /\ b.results # <<>> /\ b.callers \in Seq(Requests)
    BY <1>2, PlacesTyped DEF DealResults, BatchInv, RunsFollowWire
  <2> DEFINE dealt(n) == {i \in 1 .. n : stage[b.callers[i]] = "waiting"}
             good(n) == {b.callers[i] : i \in dealt(n)}
             resultOf(n, r) == b.results[CHOOSE i \in dealt(n) : b.callers[i] = r]
  <2>2. PICK n \in 1 .. Len(b.results) :
          /\ stage' = [r \in Requests |->
                         IF r \in good(n) THEN "ok" ELSE Fail(ToSet(b.callers))[r]]
          /\ reply' = [r \in Requests |-> IF r \in good(n) THEN resultOf(n, r) ELSE reply[r]]
    BY <1>2 DEF DealResults
  <2>3. \A r \in good(n) : resultOf(n, r) = r
    <3>1. ASSUME NEW r \in good(n)
          PROVE  b.callers[CHOOSE i \in dealt(n) : b.callers[i] = r] = r
      BY <3>1
    <3> QED
      BY <2>1, <3>1
  <2>4. good(n) \subseteq {r \in ToSet(b.callers) : stage[r] = "waiting"}
    BY <2>1, <2>2, LenProperties DEF ToSet
  <2> HIDE DEF good, resultOf
  <2>5. reply' = [r \in Requests |-> IF r \in good(n) THEN r ELSE reply[r]]
    BY <2>2, <2>3
  <2> QED
    BY <1>2, <2>1, <2>2, <2>4, <2>5 DEF DealResults
<1> QED
  BY <1>1, <1>2

LEMMA EndStep ==
  ASSUME BatchInv, NEW b \in running, DealResults(b) \/ BatchFails(b)
  PROVE  BatchInv'
<1>1. running' = running \ {b} /\ UNCHANGED <<channel, batching, wire, ran, alive>>
  BY EndsForItsCallers
<1>2. PICK good \in SUBSET {r \in ToSet(b.callers) : stage[r] = "waiting"} :
        /\ stage' = [r \in Requests |-> IF r \in good THEN "ok" ELSE Fail(ToSet(b.callers))[r]]
        /\ reply' = [r \in Requests |-> IF r \in good THEN r ELSE reply[r]]
  BY EndsForItsCallers
<1>3. ToSet(b.callers) \subseteq Underway /\ Underway \subseteq Requests
  BY PlacesTyped DEF BatchInv
<1>4. \A r \in Requests :
        stage'[r] = IF r \in good THEN "ok"
                    ELSE IF r \in ToSet(b.callers) /\ stage[r] = "waiting" THEN "err" ELSE stage[r]
  BY <1>2 DEF Fail
<1>5. /\ Queued' = Queued /\ Batched' = Batched /\ OnWire' = OnWire
      /\ Underway' = Underway \ ToSet(b.callers)
  <2>1. \A a \in running : a # b => ToSet(a.callers) \cap ToSet(b.callers) = {}
    BY DEF BatchInv, UnderwayOnce
  <2>2. Underway' = Underway \ ToSet(b.callers)
    BY <1>1, <2>1 DEF Underway
  <2> QED
    BY <1>1, <2>2 DEF Queued, Batched, OnWire
<1>6. BatchTypeOK'
  <2>1. stage' \in [Requests -> {"idle"} \cup InFlight \cup Ended]
    BY <1>2, <1>4 DEF BatchInv, BatchTypeOK, Ended
  <2>2. reply' \in [Requests -> Requests \cup {NoReply}]
    BY <1>2, <1>3 DEF BatchInv, BatchTypeOK
  <2> QED
    BY <1>1, <2>1, <2>2 DEF BatchInv, BatchTypeOK
<1>7. PlacesApart'
  BY <1>5 DEF BatchInv, PlacesApart
<1>8. QueuedOnce' /\ BatchedOnce' /\ OneBatchPerKey' /\ SentOnce' /\ UnderwayOnce'
  BY <1>1 DEF BatchInv, QueuedOnce, BatchedOnce, OneBatchPerKey, SentOnce, UnderwayOnce
<1>9. OneDestination' /\ RunsFollowWire'
  BY <1>1, <1>5 DEF BatchInv, OneDestination, RunsFollowWire
<1>10. KeptWait'
  <2>1. \A r \in Queued \cup Batched \cup Underway' : r \in Requests /\ r \notin ToSet(b.callers)
    BY <1>3, <1>5, PlacesTyped DEF BatchInv, PlacesApart
  <2>2. \A r \in OnWire : r \in Requests /\ stage'[r] \in {"waiting"} \cup Ended
    BY <1>4, PlacesTyped DEF BatchInv, KeptWait, Ended
  <2>3. \A r \in Requests :
          stage'[r] = "waiting" => stage[r] = "waiting" /\ r \notin ToSet(b.callers)
    BY <1>4
  <2>4. \A r \in Requests : r \notin ToSet(b.callers) => stage'[r] = stage[r]
    BY <1>2, <1>4
  <2> QED
    BY <1>5, <2>1, <2>2, <2>3, <2>4 DEF BatchInv, KeptWait
<1>11. RanInTurn'
  <2>1. \A r \in Requests :
          stage'[r] \in {"idle", "sending", "direct", "directRan"} => stage'[r] = stage[r]
    BY <1>4
  <2>2. \A r \in Requests : stage'[r] \in {"idle", "sending", "direct"} => ran'[r] = <<>>
    BY <1>1, <2>1 DEF BatchInv, RanInTurn
  <2>3. \A r \in Requests : stage'[r] = "directRan" => ran'[r] # <<>>
    BY <1>1, <2>1 DEF BatchInv, RanInTurn
  <2> QED
    BY <1>1, <1>5, <2>2, <2>3 DEF BatchInv, RanInTurn
<1> QED
  BY <1>6, <1>7, <1>8, <1>9, <1>10, <1>11 DEF BatchInv

\* The runner is dropped: nothing is kept, and nobody waits.
LEMMA DropStep ==
  ASSUME BatchInv, RunnerDropped
  PROVE  BatchInv'
<1>1. /\ channel' = <<>> /\ batching' = <<>> /\ running' = {} /\ alive' = FALSE
      /\ UNCHANGED <<wire, ran, reply>>
      /\ stage' = [r \in Requests |-> IF stage[r] = "waiting" THEN "err" ELSE stage[r]]
  BY DEF RunnerDropped, Fail
<1>2. Queued' = {} /\ Batched' = {} /\ Underway' = {} /\ OnWire' = OnWire
  BY <1>1 DEF Queued, Batched, Underway, OnWire, ToSet
<1>3. BatchTypeOK'
  <2>1. stage' \in [Requests -> {"idle"} \cup InFlight \cup Ended]
    BY <1>1 DEF BatchInv, BatchTypeOK, Ended
  <2>2. /\ channel' \in Seq(Requests) /\ Len(channel') <= Capacity /\ batching' \in Seq(Batches)
        /\ running' \subseteq Runs
    BY <1>1, EmptySeq, BatchConstantsOK
  <2> QED
    BY <1>1, <2>1, <2>2 DEF BatchInv, BatchTypeOK
<1>4. PlacesApart'
  BY <1>2 DEF PlacesApart
<1>5. /\ QueuedOnce' /\ BatchedOnce' /\ UnderwayOnce' /\ SentOnce'
      /\ OneBatchPerKey' /\ OneDestination'
  BY <1>1 DEF BatchInv, QueuedOnce, BatchedOnce, UnderwayOnce, SentOnce, OneBatchPerKey,
              OneDestination, IsInjective
<1>6. RunsFollowWire' /\ RanInTurn'
  BY <1>1, <1>2 DEF BatchInv, RunsFollowWire, RanInTurn
<1>7. KeptWait'
  BY <1>1, <1>2, PlacesTyped DEF BatchInv, KeptWait, Ended
<1> QED
  BY <1>3, <1>4, <1>5, <1>6, <1>7 DEF BatchInv

LEMMA BatchInvStep ==
  ASSUME BatchInv, [BatchNext]_batchVars
  PROVE  BatchInv'
<1>1. CASE UNCHANGED batchVars
  <2>1. PlacesInv'
    BY <1>1, NothingMoves DEF batchVars, BatchInv, PlacesInv
  <2>2. BatchTypeOK' /\ KeptWait' /\ RanInTurn'
    BY <1>1, NothingMoves DEF batchVars, BatchInv, BatchTypeOK, KeptWait, RanInTurn
  <2> QED
    BY <2>1, <2>2 DEF BatchInv, PlacesInv
<1>2. CASE BatchNext
  BY <1>2, CallerStep, SendStep, ReceiveStep, TickStep, StartStep, ExecuteStep, ServeStep,
     EndStep, DropStep DEF BatchNext, RunnerStep
<1> QED
  BY <1>1, <1>2

LEMMA BatchInvHolds == BatchSpec => []BatchInv
BY BatchInvInit, BatchInvStep, PTL DEF BatchSpec

\* Every reachable state of the batcher is well typed, for any requests, destinations,
\* window and capacity (batcher.rs).
THEOREM BatchTypeCorrect == BatchSpec => []BatchTypeOK
<1>1. BatchInv => BatchTypeOK
  BY DEF BatchInv
<1> QED
  BY <1>1, BatchInvHolds, PTL

\* A batch keeps the deadline it was opened with, whoever joins it, so the batches are
\* due in the order they were opened in and the front one's deadline is the earliest.
THEOREM DueInOrderAlways == BatchSpec => []DueInOrder
<1>1. BatchInit => DueInOrder
  BY DEF BatchInit, DueInOrder
<1>2. BatchInv /\ DueInOrder /\ [BatchNext]_batchVars => DueInOrder'
  <2> SUFFICES ASSUME BatchInv, DueInOrder, [BatchNext]_batchVars
               PROVE  DueInOrder'
    OBVIOUS
  <2> DEFINE N == Len(batching)
  <2>1. /\ N \in Nat /\ DOMAIN batching = 1 .. N
        /\ \A i \in 1 .. N : batching[i] \in Batches /\ batching[i].left \in 0 .. Window
    <3>1. \A b \in Batches : b.left \in 0 .. Window
      BY DEF Batches
    <3> QED
      BY <3>1, LenProperties, ElementOfSeq DEF BatchInv, BatchTypeOK
  <2>2. Window \in Nat
    BY BatchConstantsOK
  <2>3. CASE Receive
    <3> DEFINE r == Head(channel)
               opened == [left |-> Window, reqs |-> <<r>>]
    <3>1. r \in Requests /\ batching' = Insert(r)
      BY <2>3, Dequeued DEF Receive, BatchInv, BatchTypeOK
    <3>2. CASE batching' = Append(batching, opened)
      <4>1. /\ DOMAIN batching' = 1 .. N + 1 /\ batching'[N + 1] = opened
            /\ \A i \in 1 .. N : batching'[i] = batching[i]
        BY <2>1, <3>2
      <4> QED
        BY <2>1, <2>2, <4>1 DEF DueInOrder
    <3>3. ASSUME NEW k \in DOMAIN batching,
                 batching' = [batching EXCEPT ![k].reqs = Append(@, r)]
          PROVE  DueInOrder'
      <4>1. \A i \in 1 .. N : batching'[i].left = batching[i].left
        BY <2>1, <3>3 DEF Batches
      <4> QED
        BY <2>1, <3>3, <4>1 DEF DueInOrder
    <3> QED
      BY <3>1, <3>2, <3>3, Inserted DEF BatchInv
  <2>4. CASE Tick
    <3>1. \A i \in 1 .. N : batching'[i].left = IF batching[i].left = 0 THEN 0
                                               ELSE batching[i].left - 1
      BY <2>1, <2>4 DEF Tick, Batches
    <3>2. DOMAIN batching' = 1 .. N
      BY <2>1, <2>4 DEF Tick
    <3> QED
      BY <2>1, <2>2, <3>1, <3>2 DEF DueInOrder
  <2>5. CASE StartBatch
    <3>1. batching # <<>> /\ batching' = Tail(batching)
      BY <2>5 DEF StartBatch
    <3>2. DOMAIN batching' = 1 .. N - 1 /\ \A i \in 1 .. N - 1 : batching'[i] = batching[i + 1]
      BY <2>1, <3>1 DEF BatchInv, BatchTypeOK
    <3>3. \A i, j \in 1 .. N - 1 : i < j => batching[i + 1].left <= batching[j + 1].left
      <4> SUFFICES ASSUME NEW i \in 1 .. N - 1, NEW j \in 1 .. N - 1, i < j
                   PROVE  batching[i + 1].left <= batching[j + 1].left
        OBVIOUS
      <4>1. i + 1 \in 1 .. N /\ j + 1 \in 1 .. N /\ i + 1 < j + 1
        BY <2>1
      <4> HIDE DEF N
      <4> QED
        BY <2>1, <4>1 DEF DueInOrder
    <3> HIDE DEF N
    <3> QED
      BY <3>2, <3>3 DEF DueInOrder
  <2>6. CASE RunnerDropped
    BY <2>6 DEF RunnerDropped, DueInOrder
  <2>7. CASE UNCHANGED batching
    BY <2>7 DEF DueInOrder
  <2> QED
    BY <2>3, <2>4, <2>5, <2>6, <2>7
      DEF BatchNext, batchVars, RunnerStep, Submit, DirectRun, DirectReply, Send, Abandon,
          Execute, DealResults, BatchFails, Serve
<1> QED
  BY <1>1, <1>2, BatchInvHolds, PTL DEF BatchSpec

\* Whoever waits has its callback in one place: the channel, a batch or a future, never
\* in two and never in none, whatever is received, started, failed or abandoned.
THEOREM CallbackAlwaysKept == BatchSpec => []CallbackKept
<1>1. BatchInv => CallbackKept
  <2> SUFFICES ASSUME BatchInv, NEW r \in Requests, stage[r] = "waiting"
               PROVE  Cardinality(Holders(r)) = 1
    BY DEF CallbackKept
  <2> DEFINE InChannel == {k \in DOMAIN channel : channel[k] = r}
             InBatch == {k \in DOMAIN batching : Contains(batching[k].reqs, r)}
             InRun == {b \in running : Contains(b.callers, r)}
  <2>1. /\ InChannel # {} <=> r \in Queued
        /\ \A i, j \in InChannel : i = j
    BY DEF Queued, ToSet, BatchInv, QueuedOnce, IsInjective
  <2>2. /\ InBatch # {} <=> r \in Batched
        /\ \A i, j \in InBatch : i = j
    <3>1. \A k \in DOMAIN batching : batching[k] \in Batches
      BY LenProperties, ElementOfSeq DEF BatchInv, BatchTypeOK
    <3>2. \A k \in DOMAIN batching : batching[k].reqs \in Seq(Requests)
      BY <3>1 DEF Batches
    <3>3. InBatch = {k \in DOMAIN batching : r \in ToSet(batching[k].reqs)}
      BY <3>2, ContainsIsMembership
    <3> QED
      BY <3>3 DEF Batched, BatchInv, BatchedOnce
  <2>3. /\ InRun # {} <=> r \in Underway
        /\ \A a, b \in InRun : a = b
    <3>1. InRun = {b \in running : r \in ToSet(b.callers)}
      BY PlacesTyped, ContainsIsMembership DEF BatchInv
    <3> QED
      BY <3>1 DEF Underway, BatchInv, UnderwayOnce
  <2>4. Holders(r) = {<<"channel", i>> : i \in InChannel} \cup {<<"batch", i>> : i \in InBatch}
                       \cup {<<"run", b.callers>> : b \in InRun}
    BY DEF Holders
  <2> HIDE DEF InChannel, InBatch, InRun
  <2>5. \E h : Holders(r) = {h}
    <3>1. r \in Queued \cup Batched \cup Underway
      BY DEF BatchInv, KeptWait
    <3>2. CASE r \in Queued
      <4>1. InBatch = {} /\ InRun = {}
        BY <2>1, <2>2, <2>3, <3>2 DEF BatchInv, PlacesApart
      <4>2. PICK x \in InChannel : InChannel = {x}
        BY <2>1, <2>2, <2>3, <3>2
      <4>3. Holders(r) = {<<"channel", x>>}
        BY <2>4, <4>1, <4>2, Zenon
      <4> QED
        BY <4>3
    <3>3. CASE r \in Batched
      <4>1. InChannel = {} /\ InRun = {}
        BY <2>1, <2>2, <2>3, <3>3 DEF BatchInv, PlacesApart
      <4>2. PICK x \in InBatch : InBatch = {x}
        BY <2>1, <2>2, <2>3, <3>3
      <4>3. Holders(r) = {<<"batch", x>>}
        BY <2>4, <4>1, <4>2, Zenon
      <4> QED
        BY <4>3
    <3>4. CASE r \in Underway
      <4>1. InChannel = {} /\ InBatch = {}
        BY <2>1, <2>2, <2>3, <3>4 DEF BatchInv, PlacesApart
      <4>2. PICK x \in InRun : InRun = {x}
        BY <2>1, <2>2, <2>3, <3>4
      <4>3. Holders(r) = {<<"run", x.callers>>}
        BY <2>4, <4>1, <4>2, Zenon
      <4> QED
        BY <4>3
    <3> QED
      BY <3>1, <3>2, <3>3, <3>4
  <2> QED
    BY <2>5, FS_Singleton
<1> QED
  BY <1>1, BatchInvHolds, PTL

-----------------------------------------------------------------------------
\* The batcher implements RPCContract.

\* Ok for some callers in flight, whose requests were run, and an error for others.
LEMMA AnswersAsPromised ==
  ASSUME BatchTypeOK, NEW good \in SUBSET Requests, NEW bad \in SUBSET Requests,
         good \cap bad = {}, \A r \in good \cup bad : stage[r] \in InFlight,
         \A r \in good : ran[r] # <<>>,
         stage' = [r \in Requests |-> IF r \in good THEN "ok"
                                      ELSE IF r \in bad THEN "err" ELSE stage[r]],
         reply' = [r \in Requests |-> IF r \in good THEN r ELSE reply[r]],
         ran' = ran
  PROVE  RPC!Next
<1>1. RPC!Answer(good, bad)
  BY DEF RPC!Answer, InFlight
<1> QED
  BY <1>1 DEF RPC!Next

LEMMA OneAnswered ==
  ASSUME BatchTypeOK, NEW r \in Requests, stage[r] \in InFlight, ran' = ran,
         \/ stage' = [stage EXCEPT ![r] = "ok"] /\ reply' = [reply EXCEPT ![r] = r] /\ ran[r] # <<>>
         \/ stage' = [stage EXCEPT ![r] = "err"] /\ reply' = reply
  PROVE  RPC!Next
<1> DEFINE good == IF stage'[r] = "ok" THEN {r} ELSE {}
           bad == {r} \ good
<1>1. /\ stage' = [q \in Requests |-> IF q \in good THEN "ok"
                                      ELSE IF q \in bad THEN "err" ELSE stage[q]]
      /\ reply' = [q \in Requests |-> IF q \in good THEN q ELSE reply[q]]
      /\ \A q \in good : ran[q] # <<>>
  BY DEF BatchTypeOK
<1>2. /\ good \in SUBSET Requests /\ bad \in SUBSET Requests /\ good \cap bad = {}
      /\ \A q \in good \cup bad : stage[q] \in InFlight
  OBVIOUS
<1> HIDE DEF good, bad
<1> QED
  BY <1>1, <1>2, AnswersAsPromised

\* A step that neither the callers nor the server notice.
LEMMA Unnoticed ==
  ASSUME UNCHANGED <<ran, reply>>,
         \A r \in Requests : stage'[r] = stage[r] \/ {stage[r], stage'[r]} \subseteq InFlight
  PROVE  UNCHANGED RPC!vars
BY DEF RPC!vars

LEMMA CallerContract ==
  ASSUME BatchInv, NEW r \in Requests,
         Submit(r) \/ DirectRun(r) \/ DirectReply(r) \/ Send(r) \/ Abandon(r)
  PROVE  RPC!Next \/ UNCHANGED RPC!vars
<1>0. /\ stage \in [Requests -> {"idle"} \cup InFlight \cup Ended]
      /\ reply \in [Requests -> Requests \cup {NoReply}] /\ ran \in [Requests -> Seq(Keys)]
  BY DEF BatchInv, BatchTypeOK
<1>1. CASE Submit(r)
  <2>1. RPC!Call(r)
    BY <1>0, <1>1 DEF Submit, RPC!Call, InFlight
  <2> QED
    BY <2>1 DEF RPC!Next
<1>2. CASE DirectRun(r)
  <2>1. ran[r] = <<>> /\ Append(<<>>, Key[r]) = <<Key[r]>>
    BY <1>2 DEF DirectRun, BatchInv, RanInTurn
  <2>2. RPC!Run({r})
    BY <1>0, <1>2, <2>1 DEF DirectRun, RPC!Run, InFlight
  <2> QED
    BY <2>2 DEF RPC!Next
<1>3. CASE DirectReply(r)
  <2>1. stage[r] \in InFlight /\ ran' = ran /\ (stage[r] = "directRan" => ran[r] # <<>>)
    BY <1>3 DEF DirectReply, BatchInv, RanInTurn, InFlight
  <2> QED
    BY <1>3, <2>1, OneAnswered DEF DirectReply, BatchInv
<1>4. CASE Send(r)
  <2>1. CASE alive
    BY <1>0, <1>4, <2>1, Unnoticed DEF Send, InFlight
  <2>2. CASE ~alive
    BY <1>4, <2>2, OneAnswered DEF Send, BatchInv, InFlight
  <2> QED
    BY <2>1, <2>2
<1>5. CASE Abandon(r)
  <2>1. RPC!Abandon(r)
    BY <1>0, <1>5 DEF Abandon, RPC!Abandon, InFlight
  <2> QED
    BY <2>1 DEF RPC!Next
<1> QED
  BY <1>1, <1>2, <1>3, <1>4, <1>5

\* A batch that is served runs each of its requests for the first time, with the key it
\* was made with.
LEMMA ServeContract ==
  ASSUME BatchInv, NEW m \in wire, Serve(m)
  PROVE  RPC!Next
<1> DEFINE rs == ToSet(m.inputs)
<1>1. rs \subseteq OnWire /\ rs \subseteq Requests
  BY PlacesTyped DEF BatchInv
<1>2. \A r \in rs : ran[r] = <<>> /\ stage[r] # "idle"
  BY <1>1 DEF BatchInv, RanInTurn, KeptWait, Ended
<1>3. ran' = [r \in Requests |-> IF r \in rs THEN <<Key[r]>> ELSE ran[r]]
  <2>1. \A r \in Requests : ran'[r] = IF r \in rs THEN Append(ran[r], Key[r]) ELSE ran[r]
    BY Served
  <2>2. \A r \in rs : Append(ran[r], Key[r]) = <<Key[r]>>
    <3>1. \A k : Append(<<>>, k) = <<k>>
      OBVIOUS
    <3> QED
      BY <1>2, <3>1
  <2>3. ran' = [r \in Requests |-> ran'[r]]
    BY DEF Serve
  <2> QED
    BY <2>1, <2>2, <2>3
<1> HIDE DEF rs
<1>4. RPC!Run(rs)
  BY <1>1, <1>2, <1>3 DEF Serve, RPC!Run
<1> QED
  BY <1>1, <1>4 DEF RPC!Next

\* A future that ends answers its callers and no others.
LEMMA EndContract ==
  ASSUME BatchInv, NEW b \in running, DealResults(b) \/ BatchFails(b)
  PROVE  RPC!Next
<1>1. ran' = ran /\ ToSet(b.callers) \subseteq Requests
  BY EndsForItsCallers, PlacesTyped DEF BatchInv
<1>2. PICK good \in SUBSET {r \in ToSet(b.callers) : stage[r] = "waiting"} :
        /\ b.results = <<>> => good = {}
        /\ stage' = [r \in Requests |-> IF r \in good THEN "ok" ELSE Fail(ToSet(b.callers))[r]]
        /\ reply' = [r \in Requests |-> IF r \in good THEN r ELSE reply[r]]
  BY EndsForItsCallers
<1> DEFINE bad == {r \in ToSet(b.callers) \ good : stage[r] = "waiting"}
<1>3. /\ good \in SUBSET Requests /\ bad \in SUBSET Requests /\ good \cap bad = {}
      /\ \A r \in good \cup bad : stage[r] \in InFlight
  BY <1>1, <1>2 DEF InFlight
<1>4. \A r \in good : ran[r] # <<>>
  BY <1>2 DEF BatchInv, RanInTurn
<1>5. stage' = [r \in Requests |-> IF r \in good THEN "ok"
                                   ELSE IF r \in bad THEN "err" ELSE stage[r]]
  BY <1>2 DEF Fail
<1> HIDE DEF bad
<1> QED
  BY <1>1, <1>2, <1>3, <1>4, <1>5, AnswersAsPromised DEF BatchInv

\* The runner's end is an error for all who wait.
LEMMA DropContract ==
  ASSUME BatchInv, RunnerDropped
  PROVE  RPC!Next
<1> DEFINE bad == {r \in Requests : stage[r] = "waiting"}
           good == {}
<1>1. /\ stage' = [r \in Requests |-> IF r \in good THEN "ok"
                                      ELSE IF r \in bad THEN "err" ELSE stage[r]]
      /\ reply' = [r \in Requests |-> IF r \in good THEN r ELSE reply[r]]
      /\ ran' = ran
  BY DEF RunnerDropped, Fail, BatchInv, BatchTypeOK
<1>2. /\ good \in SUBSET Requests /\ bad \in SUBSET Requests /\ good \cap bad = {}
      /\ \A r \in good \cup bad : stage[r] \in InFlight
  BY DEF InFlight
<1>3. \A r \in good : ran[r] # <<>>
  OBVIOUS
<1> HIDE DEF good, bad
<1> QED
  BY <1>1, <1>2, <1>3, AnswersAsPromised DEF BatchInv

\* Whatever calls are batched, however callers leave and servers answer, each call sees
\* what RPCExecutor::execute (rpc.rs) promises: its request is run at most once and with
\* its own arguments, and its answer is its own.
THEOREM BatchingInvisible == BatchSpec => ImplementsRPC
<1>1. BatchInit => RPC!Init
  BY DEF BatchInit, RPC!Init, InFlight
<1>2. BatchInv /\ [BatchNext]_batchVars => [RPC!Next]_(RPC!vars)
  <2> SUFFICES ASSUME BatchInv, [BatchNext]_batchVars
               PROVE  RPC!Next \/ UNCHANGED RPC!vars
    OBVIOUS
  <2>1. CASE UNCHANGED batchVars
    BY <2>1, Unnoticed DEF batchVars
  <2>2. CASE Receive \/ StartBatch \/ Tick
    BY <2>2, Unnoticed DEF Receive, StartBatch, Tick
  <2>3. ASSUME NEW b \in running, Execute(b)
        PROVE  UNCHANGED RPC!vars
    BY <2>3, Unnoticed DEF Execute
  <2> QED
    BY <2>1, <2>2, <2>3, CallerContract, ServeContract, EndContract, DropContract
      DEF BatchNext, RunnerStep
<1> QED
  BY <1>1, <1>2, BatchInvHolds, PTL DEF BatchSpec, ImplementsRPC, RPC!Spec

=============================================================================
