--------------------------- MODULE ConfigSyncProofs ---------------------------
(***************************************************************************)
(* Proofs about ConfigSync, for every set of callers, updates and nodes    *)
(* and every bound: type correctness; that a config which needs no push    *)
(* holds only what was pushed or came from the swarm, and so that Ok means *)
(* pushed; that a needed push is always requested, and unsaved changes are *)
(* flagged and notified; that saved poll positions are covered; and that   *)
(* ConfigSync implements PushContract.                                     *)
(***************************************************************************)
EXTENDS ConfigSync, TLAPS

USE DEF Updates, PushStates, NeedsPush

-----------------------------------------------------------------------------
(* Type correctness.                                                       *)

\* Merging a batch of stored messages keeps the config, the notification
\* count and the request queue typed.
LEMMA MergeTypes ==
  ASSUME NEW batch \in SUBSET (1..MaxMsg), TaskTypeOK, Merge(batch)
  PROVE  /\ cfg' \in Configs /\ notif' \in 0..2
         /\ queued' \subseteq Callers \cup {NoCallback}
<1> DEFINE good  == {Carries[i] : i \in batch} \ {Undecodable}
           fresh == good \ cfg.content
<1>1. PICK s \in PushStates :
        cfg' = [content |-> cfg.content \cup good, state |-> s,
                needsDump |-> cfg.needsDump \/ fresh # {}]
  <2>. cfg.state \in PushStates BY DEF Configs, TaskTypeOK
  <2> QED BY DEF Merge
<1>2. good \subseteq RemoteUpdates
  BY ConstantsOK
<1>3. cfg.content \subseteq Updates /\ cfg.needsDump \in BOOLEAN
  BY DEF Configs, TaskTypeOK
<1>4. cfg.content \cup good \in SUBSET Updates
  BY <1>2, <1>3
<1>5. (cfg.needsDump \/ fresh # {}) \in BOOLEAN
  OBVIOUS
<1> HIDE DEF good, fresh
<1>6. cfg' \in Configs
  BY <1>1, <1>4, <1>5 DEF Configs
<1>7. notif' \in 0..2 /\ queued' \subseteq Callers \cup {NoCallback}
  BY DEF Merge, Heard, WithRequest, TaskTypeOK
<1> QED BY <1>6, <1>7

\* The messages a poll answers with are messages a node stores.
LEMMA PolledBatch ==
  ASSUME TypeOK, poll # NoPoll, NEW k \in poll.from..stored[poll.node]
  PROVE  /\ poll.node \in Nodes /\ poll.from \in 0..MaxMsg /\ k \in 0..MaxMsg
         /\ (poll.from + 1 .. k) \in SUBSET (1..MaxMsg)
<1>1. poll \in [node : Nodes, from : 0..MaxMsg]
  BY DEF TypeOK, TaskTypeOK
<1> QED BY <1>1, ConstantsOK DEF TypeOK, StoreTypeOK

\* Every reachable state of the wrapper, its task and the tables is well typed.
THEOREM TypeCorrect == Spec => []TypeOK
<1>1. Init => TypeOK
  <2> SUFFICES ASSUME Init PROVE TypeOK
    OBVIOUS
  <2>1. TaskTypeOK
    BY DEF Init, TaskTypeOK, Configs, Pushes, IdlePush
  <2>2. CallersTypeOK
    BY DEF Init, CallersTypeOK
  <2>3. StoreTypeOK
    BY ConstantsOK DEF Init, StoreTypeOK, Snapshots
  <2>4. HistoryTypeOK
    <3>1. crashes \in 0..MaxCrashes /\ pushFailures \in 0..MaxPushFailures
      BY ConstantsOK DEF Init
    <3> QED BY <3>1 DEF Init, HistoryTypeOK
  <2> QED BY <2>1, <2>2, <2>3, <2>4 DEF TypeOK
<1>2. TypeOK /\ [Next]_vars => TypeOK'
  <2> SUFFICES ASSUME TypeOK, [Next]_vars PROVE TypeOK'
    OBVIOUS
  <2>1. TaskTypeOK'
    <3> USE DEF TypeOK, TaskTypeOK
    <3>1. ASSUME NEW c \in Callers, Mutate(c) PROVE TaskTypeOK'
      <4>1. PICK u \in LocalUpdates :
              cfg' = IF u \in cfg.content THEN cfg
                     ELSE [content |-> cfg.content \cup {u}, state |-> "Dirty",
                           needsDump |-> TRUE]
        BY <3>1 DEF Mutate
      <4>2. cfg' \in Configs
        BY <4>1 DEF Configs
      <4> QED BY <3>1, <4>2 DEF Mutate
    <3>2. ASSUME NEW c \in Callers, Notify(c) PROVE TaskTypeOK'
      BY <3>2 DEF Notify, Heard
    <3>3. ASSUME NEW c \in Callers, AnswerUnneeded(c) PROVE TaskTypeOK'
      BY <3>3 DEF AnswerUnneeded, configVars
    <3>4. ASSUME NEW c \in Callers, Request(c) PROVE TaskTypeOK'
      BY <3>4 DEF Request
    <3>5. ASSUME NEW n \in Nodes, PollStart(n) PROVE TaskTypeOK'
      BY <3>5 DEF PollStart, StoreTypeOK
    <3>6. CASE PollReply
      <4>1. PICK k \in poll.from..stored[poll.node] :
              IF k = poll.from THEN UNCHANGED <<cfg, notif, queued, lastHash>>
              ELSE Merge(poll.from + 1 .. k)
        BY <3>6 DEF PollReply
      <4>2. cfg' \in Configs /\ notif' \in 0..2
              /\ queued' \subseteq Callers \cup {NoCallback}
        BY <4>1, <3>6, PolledBatch, MergeTypes DEF PollReply
      <4> QED BY <3>6, <4>2 DEF PollReply
    <3>7. CASE PollError
      BY <3>7 DEF PollError
    <3>8. CASE SideChannel
      <4>1. PICK i \in 1..MaxMsg : Merge({i})
        BY <3>8 DEF SideChannel
      <4>2. cfg' \in Configs /\ notif' \in 0..2
              /\ queued' \subseteq Callers \cup {NoCallback}
        BY <4>1, MergeTypes
      <4> QED BY <3>8, <4>2 DEF SideChannel
    <3>9. ASSUME NEW n \in Nodes, SwarmStore(n) PROVE TaskTypeOK'
      BY <3>9 DEF SwarmStore, configVars
    <3>10. CASE Subscribe \/ DumpLagged \/ DumpNotNeeded \/ SaveRows
      BY <3>10 DEF Subscribe, DumpLagged, DumpNotNeeded, SaveRows, WithRequest
    <3>11. CASE DumpConfig
      <4>1. cfg' \in Configs
        BY <3>11 DEF DumpConfig, Configs
      <4> QED BY <3>11, <4>1 DEF DumpConfig
    <3>12. CASE DumpFails
      <4>1. cfg' \in Configs
        BY <3>12 DEF DumpFails, Configs
      <4> QED BY <3>12, <4>1 DEF DumpFails, TaskEnds, IdlePush, Pushes
    <3>13. CASE RowsFail
      BY <3>13 DEF RowsFail, TaskEnds, IdlePush, Pushes
    <3>14. CASE TakeRequests
      <4>1. push' \in Pushes
        BY <3>14 DEF TakeRequests, Pushes
      <4> QED BY <3>14, <4>1 DEF TakeRequests
    <3>15. CASE PushNotNeeded \/ PushFails
      <4>1. push' \in Pushes
        BY <3>15 DEF PushNotNeeded, PushFails, Pushes
      <4> QED
        BY <3>15, <4>1 DEF PushNotNeeded, PushFails, Heard, WithRequest
    <3>16. CASE PushConfig
      <4>1. cfg' \in Configs
        BY <3>16 DEF PushConfig, Configs
      <4>2. push' \in Pushes
        BY <3>16 DEF PushConfig, Configs, Pushes
      <4> QED BY <3>16, <4>1, <4>2 DEF PushConfig, Heard, WithRequest
    <3>17. CASE ConfirmPushed
      <4>1. cfg' \in Configs
        BY <3>17 DEF ConfirmPushed, Confirmed, Configs
      <4>2. push' \in Pushes
        BY <3>17 DEF ConfirmPushed, Pushes
      <4> QED BY <3>17, <4>1, <4>2 DEF ConfirmPushed, Heard
    <3>18. CASE AnswerRequests
      BY <3>18 DEF AnswerRequests, IdlePush, Pushes
    <3>19. CASE Restart
      <4>1. cfg' \in Configs
        BY <3>19 DEF Restart, StoreTypeOK, Configs, Snapshots
      <4> QED BY <3>19, <4>1 DEF Restart, IdlePush, Pushes
    <3>20. CASE UNCHANGED vars
      BY <3>20 DEF vars, configVars
    <3> QED
      BY <3>1, <3>2, <3>3, <3>4, <3>5, <3>6, <3>7, <3>8, <3>9, <3>10, <3>11,
         <3>12, <3>13, <3>14, <3>15, <3>16, <3>17, <3>18, <3>19, <3>20
      DEF Next, CallerStep, PollStep, DumpStep, PushStep
  <2>2. CallersTypeOK'
    <3> USE DEF TypeOK, CallersTypeOK
    <3>1. ASSUME NEW c \in Callers, CallerStep(c) PROVE CallersTypeOK'
      BY <3>1 DEF CallerStep, Mutate, Notify, AnswerUnneeded, Request
    <3>2. CASE DumpFails \/ RowsFail
      BY <3>2 DEF DumpFails, RowsFail, TaskEnds
    <3>3. CASE AnswerRequests \/ Restart
      BY <3>3 DEF AnswerRequests, Restart
    <3>4. CASE UNCHANGED <<pc, edit>>
      BY <3>4
    <3> QED
      BY <3>1, <3>2, <3>3, <3>4
      DEF Next, PollStep, PollStart, PollReply, PollError, SideChannel,
          SwarmStore, DumpStep, Subscribe, DumpLagged, DumpNotNeeded, DumpConfig,
          SaveRows, PushStep, TakeRequests, PushNotNeeded, PushConfig,
          ConfirmPushed, PushFails, vars
  <2>3. StoreTypeOK'
    <3> USE DEF TypeOK, StoreTypeOK
    <3>1. CASE PollReply
      <4>1. CASE UNCHANGED lastHash
        BY <3>1, <4>1 DEF PollReply
      <4>2. CASE \E k \in poll.from..stored[poll.node] :
                   lastHash' = [lastHash EXCEPT ![poll.node] = k]
        BY <3>1, <4>2, PolledBatch DEF PollReply
      <4> QED BY <3>1, <4>1, <4>2 DEF PollReply
    <3>2. ASSUME NEW n \in Nodes, SwarmStore(n) PROVE StoreTypeOK'
      BY <3>2, ConstantsOK DEF SwarmStore, dbVars
    <3>3. CASE DumpConfig
      <4>1. Snapshot \in Snapshots
        BY DEF Snapshot, Snapshots, Configs, TaskTypeOK
      <4> QED BY <3>3, <4>1 DEF DumpConfig
    <3>4. CASE SaveRows \/ RowsFail
      BY <3>4 DEF SaveRows, RowsFail, TaskTypeOK, Configs
    <3>5. CASE UNCHANGED <<stored, dbVars>>
      BY <3>5 DEF dbVars
    <3> QED
      BY <3>1, <3>2, <3>3, <3>4, <3>5
      DEF Next, CallerStep, Mutate, Notify, AnswerUnneeded, Request, PollStep,
          PollStart, PollError, SideChannel, DumpStep, Subscribe, DumpLagged,
          DumpNotNeeded, DumpFails, PushStep, TakeRequests, PushNotNeeded,
          PushConfig, ConfirmPushed, AnswerRequests, PushFails, Restart, vars
  <2>4. HistoryTypeOK'
    <3> USE DEF TypeOK, HistoryTypeOK
    <3>1. CASE Subscribe \/ DumpConfig
      BY <3>1 DEF Subscribe, DumpConfig, TaskTypeOK, Configs
    <3>2. CASE DumpFails \/ RowsFail
      BY <3>2 DEF DumpFails, RowsFail, Saved
    <3>3. CASE PushFails
      BY <3>3, ConstantsOK DEF PushFails
    <3>4. CASE ConfirmPushed
      BY <3>4 DEF ConfirmPushed, TaskTypeOK, Pushes
    <3>5. CASE Restart
      <4>1. crashes' \in 0..MaxCrashes
        BY <3>5, ConstantsOK DEF Restart
      <4> QED BY <3>5, <4>1 DEF Restart, Saved
    <3>6. CASE UNCHANGED historyVars
      BY <3>6 DEF historyVars
    <3> QED
      BY <3>1, <3>2, <3>3, <3>4, <3>5, <3>6
      DEF Next, CallerStep, Mutate, Notify, AnswerUnneeded, Request, PollStep,
          PollStart, PollReply, PollError, SideChannel, SwarmStore, DumpStep,
          DumpLagged, DumpNotNeeded, SaveRows, PushStep, TakeRequests,
          PushNotNeeded, PushConfig, AnswerRequests, vars
  <2> QED BY <2>1, <2>2, <2>3, <2>4 DEF TypeOK
<1> QED BY <1>1, <1>2, PTL DEF Spec

-----------------------------------------------------------------------------
(* Ok means pushed.                                                        *)

\* Merging adds remote updates only, and makes a config clean never.
LEMMA MergeAddsRemote ==
  ASSUME NEW batch \in SUBSET (1..MaxMsg), TaskTypeOK, Merge(batch)
  PROVE  /\ cfg.content \subseteq cfg'.content
         /\ cfg'.content \subseteq cfg.content \cup RemoteUpdates
         /\ ~NeedsPush(cfg') => ~NeedsPush(cfg)
         /\ queued' \in {queued, queued \cup {NoCallback}}
         /\ NeedsPush(cfg') => NoCallback \in queued'
<1> DEFINE good  == {Carries[i] : i \in batch} \ {Undecodable}
           fresh == good \ cfg.content
<1>1. PICK s \in {cfg.state, "Dirty"} :
        cfg' = [content |-> cfg.content \cup good, state |-> s,
                needsDump |-> cfg.needsDump \/ fresh # {}]
  BY DEF Merge
<1>2. good \subseteq RemoteUpdates
  BY ConstantsOK
<1>3. queued' = WithRequest(cfg', NoCallback)
  BY DEF Merge
<1> HIDE DEF good, fresh
<1> QED BY <1>1, <1>2, <1>3 DEF WithRequest

\* A polled or side-channel message is merged while the push loop is at its
\* await, so the promise to the callers is kept.
LEMMA MergeKeepsAckInv ==
  ASSUME TypeOK, AckInv, push.phase = "idle",
         NEW batch \in SUBSET (1..MaxMsg), Merge(batch),
         UNCHANGED <<push, pc, edit, dbDump, pushed>>
  PROVE  AckInv'
<1>1. /\ cfg.content \subseteq cfg'.content
      /\ cfg'.content \subseteq cfg.content \cup RemoteUpdates
      /\ ~NeedsPush(cfg') => ~NeedsPush(cfg)
      /\ queued' \in {queued, queued \cup {NoCallback}}
  BY MergeAddsRemote DEF TypeOK
<1>2. CleanIsShared'
  BY <1>1 DEF AckInv, CleanIsShared
<1>3. EditIsHeld'
  BY <1>1 DEF AckInv, EditIsHeld
<1>4. PushIsSound'
  BY <1>1 DEF AckInv, PushIsSound
<1>5. ContentIsKnown'
  BY <1>1 DEF AckInv, ContentIsKnown, Submitted
<1> QED BY <1>2, <1>3, <1>4, <1>5 DEF AckInv

\* The inductive invariant behind the answers: where an unanswered caller's
\* update is, what the push loop holds, and what may be called clean.
LEMMA AckInvHolds == Spec => []AckInv
<1>1. Init => AckInv
  BY DEF Init, AckInv, CleanIsShared, EditIsHeld, PushIsSound, ContentIsKnown,
         IdlePush
<1>2. TypeOK /\ AckInv /\ [Next]_vars => AckInv'
  <2> SUFFICES ASSUME TypeOK, AckInv, [Next]_vars PROVE AckInv'
    OBVIOUS
  <2> USE DEF AckInv
  <2>1. ASSUME NEW c \in Callers, Mutate(c) PROVE AckInv'
    <3>1. PICK u \in LocalUpdates :
            /\ edit' = [edit EXCEPT ![c] = u]
            /\ cfg' = IF u \in cfg.content THEN cfg
                      ELSE [content |-> cfg.content \cup {u},
                            state |-> "Dirty", needsDump |-> TRUE]
      BY <2>1 DEF Mutate
    <3>2. /\ cfg'.content = cfg.content \cup {u}
          /\ u \notin cfg.content => cfg'.state = "Dirty"
          /\ u \in cfg.content => cfg' = cfg
      BY <3>1 DEF TypeOK, TaskTypeOK, Configs
    <3>3. /\ pc[c] = "start" /\ edit[c] = NoUpdate
          /\ edit'[c] = u /\ \A d \in Callers \ {c} : edit'[d] = edit[d]
      BY <2>1, <3>1 DEF Mutate, EditIsHeld, TypeOK, CallersTypeOK
    <3>4. /\ pc'[c] \in {"notify+request", "notify+answer", "request", "answer"}
          /\ pc'[c] \in {"notify+answer", "answer"} => ~NeedsPush(cfg')
          /\ \A d \in Callers \ {c} : pc'[d] = pc[d]
      BY <2>1 DEF Mutate, TypeOK, CallersTypeOK
    <3>5. CleanIsShared'
      BY <2>1, <3>2 DEF Mutate, CleanIsShared, dbVars, historyVars
    <3>6. u \notin RemoteUpdates /\ u # NoUpdate
      BY ConstantsOK
    <3>7. EditIsHeld'
      <4>1. ASSUME NEW d \in Callers, d # c
            PROVE  EditIsHeld!(d)'
        BY <4>1, <2>1, <3>2, <3>3, <3>4 DEF EditIsHeld, Mutate, historyVars
      <4>2. EditIsHeld!(c)'
        BY <2>1, <3>2, <3>3, <3>4, <3>5, <3>6 DEF CleanIsShared
      <4> QED BY <4>1, <4>2 DEF EditIsHeld
    <3>8. PushIsSound'
      <4>1. \A d \in (queued \cup push.taken) \ {NoCallback} :
              pc[d] = "waiting" /\ d # c /\ d \in Callers
        BY <3>3 DEF PushIsSound, TypeOK, TaskTypeOK, Pushes
      <4>2. \A d \in push.taken : d # c /\ edit'[d] = edit[d]
        BY <4>1, <3>3, ConstantsOK DEF TypeOK, TaskTypeOK, Pushes
      <4>3. UNCHANGED <<queued, push, pushed>>
        BY <2>1 DEF Mutate, historyVars
      <4> QED
        BY <4>1, <4>2, <4>3, <3>2, <3>4 DEF PushIsSound
    <3>9. ContentIsKnown'
      <4>1. Submitted \cup {u} \subseteq Submitted'
        BY <3>3, <3>6 DEF Submitted
      <4> QED
        BY <4>1, <2>1, <3>2 DEF ContentIsKnown, Mutate, dbVars
    <3> QED BY <3>5, <3>7, <3>8, <3>9
  <2>2. ASSUME NEW c \in Callers, Notify(c) \/ AnswerUnneeded(c) \/ Request(c)
        PROVE  AckInv'
    <3>1. /\ UNCHANGED <<cfg, push, edit, dbDump, pushed>>
          /\ pc[c] \in {"notify+request", "notify+answer", "request", "answer"}
          /\ \A d \in Callers \ {c} : pc'[d] = pc[d]
          /\ queued' = queued \/ (queued' = queued \cup {c} /\ pc'[c] = "waiting")
      BY <2>2 DEF Notify, AnswerUnneeded, Request, configVars, dbVars,
                  historyVars, TypeOK, CallersTypeOK
    <3>2. CleanIsShared'
      BY <3>1 DEF CleanIsShared
    <3>3. EditIsHeld'
      <4>1. ASSUME NEW d \in Callers, d # c PROVE EditIsHeld!(d)'
        BY <4>1, <3>1 DEF EditIsHeld
      <4>2. EditIsHeld!(c)'
        <5>1. CASE pc[c] \in {"notify+request", "request"}
          BY <2>2, <5>1, <3>1 DEF EditIsHeld, Notify, AnswerUnneeded, Request,
                                  TypeOK, CallersTypeOK
        <5>2. CASE pc[c] \in {"notify+answer", "answer"}
          BY <2>2, <5>2, <3>1 DEF EditIsHeld, Notify, AnswerUnneeded, Request,
                                  TypeOK, CallersTypeOK
        <5> QED BY <5>1, <5>2, <3>1
      <4> QED BY <4>1, <4>2 DEF EditIsHeld
    <3>4. PushIsSound'
      <4>1. c \notin push.taken /\ c \notin queued
        BY <3>1, ConstantsOK DEF PushIsSound
      <4>2. push.taken \subseteq Callers
              /\ queued \subseteq Callers \cup {NoCallback}
        BY DEF TypeOK, TaskTypeOK, Pushes
      <4> QED BY <4>1, <4>2, <3>1 DEF PushIsSound
    <3>5. ContentIsKnown'
      BY <3>1 DEF ContentIsKnown, Submitted
    <3> QED BY <3>2, <3>3, <3>4, <3>5
  <2>3. CASE PollReply
    <3>1. UNCHANGED <<push, pc, edit, dbDump, pushed>> /\ push.phase = "idle"
      BY <2>3 DEF PollReply, AtAwait, historyVars
    <3>2. PICK k \in poll.from..stored[poll.node] :
            IF k = poll.from THEN UNCHANGED <<cfg, notif, queued, lastHash>>
            ELSE Merge(poll.from + 1 .. k)
      BY <2>3 DEF PollReply
    <3>3. CASE k = poll.from
      BY <3>1, <3>2, <3>3 DEF CleanIsShared, EditIsHeld, PushIsSound,
                              ContentIsKnown, Submitted
    <3>4. CASE k # poll.from
      BY <3>1, <3>2, <3>4, <2>3, PolledBatch, MergeKeepsAckInv DEF PollReply
    <3> QED BY <3>3, <3>4
  <2>4. CASE SideChannel
    <3>1. UNCHANGED <<push, pc, edit, dbDump, pushed>> /\ push.phase = "idle"
      BY <2>4 DEF SideChannel, AtAwait, dbVars, historyVars
    <3>2. PICK i \in 1..MaxMsg : Merge({i})
      BY <2>4 DEF SideChannel
    <3> QED BY <3>1, <3>2, MergeKeepsAckInv
  <2>5. CASE UNCHANGED <<cfg, queued, push, pc, edit, dbDump, pushed>>
    BY <2>5 DEF CleanIsShared, EditIsHeld, PushIsSound, ContentIsKnown,
                Submitted
  <2>6. CASE DumpNotNeeded \/ SaveRows
    <3>1. /\ UNCHANGED <<cfg, push, pc, edit, dbDump, pushed>>
          /\ queued' \in {queued, queued \cup {NoCallback}}
      BY <2>6 DEF DumpNotNeeded, SaveRows, WithRequest, dbVars, historyVars
    <3>2. NoCallback \notin push.taken
      BY ConstantsOK DEF TypeOK, TaskTypeOK, Pushes
    <3> QED BY <3>1, <3>2 DEF CleanIsShared, EditIsHeld, PushIsSound,
                              ContentIsKnown, Submitted
  <2>7. CASE DumpConfig
    <3>1. /\ cfg'.content = cfg.content /\ cfg'.state = cfg.state
          /\ dbDump'.content = cfg.content /\ dbDump'.state = cfg.state
      BY <2>7 DEF DumpConfig, Snapshot, TypeOK, TaskTypeOK, Configs
    <3>2. UNCHANGED <<queued, push, pc, edit, pushed>>
      BY <2>7 DEF DumpConfig
    <3> QED BY <3>1, <3>2 DEF CleanIsShared, EditIsHeld, PushIsSound,
                              ContentIsKnown, Submitted
  <2>8. CASE DumpFails \/ RowsFail
    <3>1. cfg'.content = cfg.content /\ cfg'.state = cfg.state
      BY <2>8 DEF DumpFails, RowsFail, TypeOK, TaskTypeOK, Configs
    <3>2. /\ UNCHANGED <<edit, dbDump, pushed>> /\ queued' = {}
          /\ push'.phase = "idle" /\ push'.taken = {} /\ push'.sent = {}
          /\ \A c \in Callers :
               pc'[c] = IF pc[c] = "waiting" THEN "err" ELSE pc[c]
      BY <2>8 DEF DumpFails, RowsFail, TaskEnds, IdlePush, dbVars
    <3> QED BY <3>1, <3>2 DEF CleanIsShared, EditIsHeld, PushIsSound,
                              ContentIsKnown, Submitted
  <2>9. CASE TakeRequests
    <3>1. /\ UNCHANGED <<cfg, pc, edit, dbDump, pushed>> /\ queued' = {}
          /\ push'.phase = "taken" /\ push'.taken = queued \ {NoCallback}
          /\ push'.sent = push.sent
      BY <2>9 DEF TakeRequests, dbVars, historyVars, TypeOK, TaskTypeOK, Pushes
    <3> QED BY <3>1 DEF CleanIsShared, EditIsHeld, PushIsSound, ContentIsKnown,
                        Submitted
  <2>10. CASE PushNotNeeded
    <3>1. /\ UNCHANGED <<cfg, queued, pc, edit, dbDump, pushed>>
          /\ push'.phase = "answer" /\ push'.taken = push.taken
          /\ push'.sent = push.sent /\ push'.ok = TRUE
      BY <2>10 DEF PushNotNeeded, dbVars, historyVars, TypeOK, TaskTypeOK, Pushes
    <3>2. \A c \in push.taken : edit[c] \in pushed
      <4> SUFFICES ASSUME NEW c \in push.taken PROVE edit[c] \in pushed
        OBVIOUS
      <4>1. c \in Callers /\ pc[c] = "waiting"
        BY ConstantsOK DEF TypeOK, TaskTypeOK, Pushes, PushIsSound
      <4>2. edit[c] \in cfg.content /\ edit[c] \in LocalUpdates
        BY <4>1 DEF EditIsHeld
      <4> QED BY <4>2, <2>10, ConstantsOK DEF PushNotNeeded, CleanIsShared
    <3> QED BY <3>1, <3>2 DEF CleanIsShared, EditIsHeld, PushIsSound,
                              ContentIsKnown, Submitted
  <2>11. CASE PushConfig
    <3>1. /\ UNCHANGED <<pc, edit, dbDump, pushed>>
          /\ cfg'.content = cfg.content /\ cfg'.state = "Waiting"
          /\ push'.phase = "confirm" /\ push'.taken = push.taken
          /\ push'.sent = cfg.content /\ queued' = queued \cup {NoCallback}
      BY <2>11 DEF PushConfig, WithRequest, dbVars, historyVars, TypeOK,
                   TaskTypeOK, Pushes, Configs
    <3>2. \A c \in push.taken : edit[c] \in cfg.content /\ c # NoCallback
      BY ConstantsOK DEF TypeOK, TaskTypeOK, Pushes, PushIsSound, EditIsHeld
    <3> QED BY <3>1, <3>2 DEF CleanIsShared, EditIsHeld, PushIsSound,
                              ContentIsKnown, Submitted
  <2>12. CASE PushFails
    <3>1. /\ UNCHANGED <<cfg, pc, edit, dbDump, pushed>>
          /\ push'.phase = "answer" /\ push'.taken = push.taken
          /\ push'.sent = push.sent /\ push'.ok = FALSE
          /\ queued' = queued \cup {NoCallback}
      BY <2>12 DEF PushFails, WithRequest, dbVars, TypeOK, TaskTypeOK, Pushes
    <3>2. NoCallback \notin push.taken
      BY ConstantsOK DEF TypeOK, TaskTypeOK, Pushes
    <3> QED BY <3>1, <3>2 DEF CleanIsShared, EditIsHeld, PushIsSound,
                              ContentIsKnown, Submitted
  <2>13. CASE ConfirmPushed
    <3>1. /\ UNCHANGED <<queued, pc, edit, dbDump>>
          /\ pushed' = pushed \cup push.sent /\ push.phase = "confirm"
          /\ push'.phase = "answer" /\ push'.taken = push.taken
          /\ push'.sent = push.sent
      BY <2>13 DEF ConfirmPushed, dbVars, TypeOK, TaskTypeOK, Pushes
    <3>2. /\ cfg'.content = cfg.content
          /\ cfg'.state = IF cfg.state = "Waiting" THEN "Clean" ELSE cfg.state
      BY <2>13 DEF ConfirmPushed, Confirmed, TypeOK, TaskTypeOK, Configs
    <3> QED BY <3>1, <3>2 DEF CleanIsShared, EditIsHeld, PushIsSound,
                              ContentIsKnown, Submitted
  <2>14. CASE AnswerRequests
    <3>1. /\ UNCHANGED <<cfg, queued, edit, dbDump, pushed>>
          /\ push.phase = "answer"
          /\ push'.phase = "idle" /\ push'.taken = {} /\ push'.sent = {}
          /\ \A c \in Callers :
               pc'[c] = IF c \in push.taken
                        THEN IF push.ok THEN "ok" ELSE "err" ELSE pc[c]
      BY <2>14 DEF AnswerRequests, IdlePush, dbVars, historyVars
    <3>2. \A c \in push.taken : pc[c] = "waiting"
      BY ConstantsOK DEF TypeOK, TaskTypeOK, Pushes, PushIsSound
    <3>3. queued \subseteq Callers \cup {NoCallback}
      BY DEF TypeOK, TaskTypeOK
    <3>4. EditIsHeld'
      <4> SUFFICES ASSUME NEW c \in Callers PROVE EditIsHeld!(c)'
        BY DEF EditIsHeld
      <4>1. CASE c \in push.taken
        BY <4>1, <3>1, <3>2 DEF EditIsHeld, PushIsSound
      <4>2. CASE c \notin push.taken
        BY <4>2, <3>1 DEF EditIsHeld
      <4> QED BY <4>1, <4>2
    <3>5. PushIsSound'
      BY <3>1, <3>3 DEF PushIsSound
    <3> QED BY <3>1, <3>4, <3>5 DEF CleanIsShared, ContentIsKnown, Submitted
  <2>15. CASE Restart
    <3>1. /\ UNCHANGED <<edit, dbDump, pushed>>
          /\ cfg'.content = dbDump.content /\ cfg'.state = dbDump.state
          /\ queued' \subseteq {NoCallback}
          /\ push'.phase = "idle" /\ push'.taken = {} /\ push'.sent = {}
          /\ \A c \in Callers :
               pc'[c] = IF pc[c] \in {"start", "ok", "err"} THEN pc[c] ELSE "gone"
      BY <2>15 DEF Restart, IdlePush, dbVars
    <3> QED BY <3>1 DEF CleanIsShared, EditIsHeld, PushIsSound, ContentIsKnown,
                        Submitted
  <2> QED
    BY <2>1, <2>2, <2>3, <2>4, <2>5, <2>6, <2>7, <2>8, <2>9, <2>10, <2>11,
       <2>12, <2>13, <2>14, <2>15
    DEF Next, CallerStep, PollStep, PollStart, PollError, SwarmStore, DumpStep,
        Subscribe, DumpLagged, PushStep, vars, configVars, dbVars, historyVars
<1> QED BY <1>1, <1>2, TypeCorrect, PTL DEF Spec

\* A caller of mutate_and_await_push that is told Ok has its update pushed.
THEOREM OkMeansPushed == Spec => []PushAckSound
<1>1. AckInv => PushAckSound
  BY DEF AckInv, EditIsHeld, PushAckSound
<1> QED BY <1>1, AckInvHolds, PTL

\* A config or saved dump that needs no push holds nothing the swarm lacks.
THEOREM CleanConfigIsShared == Spec => []CleanIsShared
<1>1. AckInv => CleanIsShared
  BY DEF AckInv
<1> QED BY <1>1, AckInvHolds, PTL

-----------------------------------------------------------------------------
(* A needed push is always asked for.                                      *)

\* No step leaves a config that needs a push without a request queued, being
\* served or on its way.
THEOREM PushAlwaysRequested == Spec => []PushIsRequested
<1>1. Init => PushIsRequested
  BY DEF Init, PushIsRequested
<1>2. TypeOK /\ AckInv /\ PushIsRequested /\ [Next]_vars => PushIsRequested'
  <2> SUFFICES ASSUME TypeOK, AckInv, PushIsRequested, [Next]_vars
               PROVE  PushIsRequested'
    OBVIOUS
  <2> USE DEF PushIsRequested
  <2>1. ASSUME NEW c \in Callers, Mutate(c) PROVE PushIsRequested'
    <3>1. CASE NeedsPush(cfg')
      BY <2>1, <3>1 DEF Mutate, TypeOK, CallersTypeOK
    <3> QED BY <3>1
  <2>2. ASSUME NEW c \in Callers, Notify(c) \/ AnswerUnneeded(c)
        PROVE  PushIsRequested'
    BY <2>2 DEF Notify, AnswerUnneeded, configVars, TypeOK, CallersTypeOK
  <2>3. ASSUME NEW c \in Callers, Request(c) PROVE PushIsRequested'
    BY <2>3 DEF Request
  <2>4. CASE PollReply
    <3>1. PICK k \in poll.from..stored[poll.node] :
            IF k = poll.from THEN UNCHANGED <<cfg, notif, queued, lastHash>>
            ELSE Merge(poll.from + 1 .. k)
      BY <2>4 DEF PollReply
    <3>2. UNCHANGED <<dumpLoop, push, task, pc>>
      BY <2>4 DEF PollReply
    <3>3. CASE k = poll.from
      BY <3>1, <3>2, <3>3
    <3>4. CASE k # poll.from
      BY <2>4, <3>1, <3>4, PolledBatch, MergeAddsRemote DEF PollReply, TypeOK
    <3> QED BY <3>3, <3>4
  <2>5. CASE SideChannel
    BY <2>5, MergeAddsRemote DEF SideChannel, TypeOK
  <2>6. CASE UNCHANGED <<cfg, queued, push, task, pc>> /\ dumpLoop # "saving"
    BY <2>6
  <2>7. CASE DumpNotNeeded \/ SaveRows
    BY <2>7 DEF DumpNotNeeded, SaveRows, WithRequest
  <2>8. CASE DumpConfig \/ DumpFails \/ RowsFail
    BY <2>8 DEF DumpConfig, DumpFails, RowsFail, TaskEnds
  <2>9. CASE TakeRequests \/ PushNotNeeded \/ PushConfig \/ PushFails
    BY <2>9 DEF TakeRequests, PushNotNeeded, PushConfig, PushFails, WithRequest,
                TypeOK, TaskTypeOK, Pushes
  <2>10. CASE ConfirmPushed
    BY <2>10 DEF ConfirmPushed, AckInv, PushIsSound
  <2>11. CASE AnswerRequests
    <3>1. \A c \in push.taken : pc[c] = "waiting"
      BY ConstantsOK DEF TypeOK, TaskTypeOK, Pushes, AckInv, PushIsSound
    <3> QED BY <2>11, <3>1 DEF AnswerRequests
  <2>12. CASE Restart
    BY <2>12 DEF Restart
  <2>13. CASE UNCHANGED <<cfg, queued, push, task, pc, dumpLoop>>
    BY <2>13
  <2> QED
    BY <2>1, <2>2, <2>3, <2>4, <2>5, <2>6, <2>7, <2>8, <2>9, <2>10, <2>11,
       <2>12, <2>13
    DEF Next, CallerStep, PollStep, PollStart, PollError, SwarmStore, DumpStep,
        Subscribe, DumpLagged, AtAwait, PushStep, configVars, vars
<1> QED BY <1>1, <1>2, TypeCorrect, AckInvHolds, PTL DEF Spec

\* The callbacks of those who wait are where something will answer them, for any number
\* of callers and however the four loops interleave, fail and restart (sync_config.rs).
THEOREM CallbackAlwaysHeld == Spec => []CallbackHeld
<1>1. Init => CallbackHeld
  BY DEF Init, CallbackHeld
<1>2. TypeOK /\ AckInv /\ CallbackHeld /\ [Next]_vars => CallbackHeld'
  <2> SUFFICES ASSUME TypeOK, AckInv, CallbackHeld, [Next]_vars,
                      NEW c \in Callers, pc'[c] = "waiting"
               PROVE  task' = "running" /\ (c \in queued' <=> c \notin push'.taken)
    BY DEF CallbackHeld
  <2>0. /\ c # NoCallback /\ push \in Pushes /\ DOMAIN pc = Callers
        /\ c \in queued \cup push.taken => pc[c] = "waiting"
        /\ push.phase = "idle" => push.taken = {}
        /\ pc[c] = "waiting" => task = "running" /\ (c \in queued <=> c \notin push.taken)
    <3>1. c # NoCallback /\ push \in Pushes /\ DOMAIN pc = Callers
      BY ConstantsOK DEF TypeOK, TaskTypeOK, CallersTypeOK
    <3>2. /\ c \in queued \cup push.taken => pc[c] = "waiting"
          /\ push.phase = "idle" => push.taken = {}
      BY <3>1 DEF AckInv, PushIsSound
    <3> QED
      BY <3>1, <3>2 DEF CallbackHeld
  <2>1. ASSUME NEW d \in Callers, CallerStep(d)
        PROVE  task' = "running" /\ (c \in queued' <=> c \notin push'.taken)
    BY <2>0, <2>1 DEF CallerStep, Mutate, Notify, AnswerUnneeded, Request, configVars
  <2>2. ASSUME pc'[c] = pc[c], task' = task, push'.taken = push.taken,
               c \in queued' <=> c \in queued
        PROVE  task' = "running" /\ (c \in queued' <=> c \notin push'.taken)
    BY <2>0, <2>2
  <2>3. CASE PollReply \/ SideChannel
    <3>1. queued' = queued \/ queued' = queued \cup {NoCallback}
      BY <2>3 DEF PollReply, SideChannel, Merge, WithRequest
    <3> QED
      BY <2>0, <2>2, <2>3, <3>1 DEF PollReply, SideChannel
  <2>4. CASE PushNotNeeded \/ PushConfig \/ PushFails \/ ConfirmPushed
    <3>1. queued' = queued \/ queued' = queued \cup {NoCallback}
      BY <2>4 DEF PushNotNeeded, PushConfig, PushFails, ConfirmPushed, WithRequest
    <3>2. push'.taken = push.taken
      BY <2>0, <2>4 DEF PushNotNeeded, PushConfig, PushFails, ConfirmPushed, Pushes
    <3> QED
      BY <2>0, <2>2, <2>4, <3>1, <3>2 DEF PushNotNeeded, PushConfig, PushFails, ConfirmPushed
  <2>5. CASE TakeRequests
    <3>1. push'.taken = queued \ {NoCallback}
      BY <2>0, <2>5 DEF TakeRequests, Pushes
    <3> QED
      BY <2>0, <2>5, <3>1 DEF TakeRequests, AtAwait
  <2>6. CASE AnswerRequests
    BY <2>0, <2>6 DEF AnswerRequests, IdlePush
  <2>7. CASE DumpFails \/ RowsFail
    BY <2>0, <2>7 DEF DumpFails, RowsFail, TaskEnds
  <2>8. CASE Restart
    BY <2>0, <2>8 DEF Restart
  <2>9. CASE Subscribe \/ DumpLagged \/ DumpNotNeeded \/ DumpConfig \/ SaveRows
    BY <2>0, <2>2, <2>9
      DEF Subscribe, DumpLagged, DumpNotNeeded, DumpConfig, SaveRows, WithRequest
  <2>10. CASE UNCHANGED <<pc, task, push, queued>>
    BY <2>2, <2>10
  <2> QED
    BY <2>1, <2>3, <2>4, <2>5, <2>6, <2>7, <2>8, <2>9, <2>10
    DEF Next, PollStep, PollStart, PollError, SwarmStore, DumpStep, PushStep, configVars, vars
<1> QED BY <1>1, <1>2, TypeCorrect, AckInvHolds, PTL DEF Spec

-----------------------------------------------------------------------------
(* Unsaved changes are flagged, and somebody is told of them.              *)

DumpInv ==
  /\ DumpIsNotified /\ DumpFlagSound
  /\ dumpLoop = "saving" => ~cfg.needsDump /\ push.phase = "idle" /\ task = "running"

\* A merge that changes the config sets the flag and is notified.
LEMMA MergeIsFlagged ==
  ASSUME NEW batch \in SUBSET (1..MaxMsg), TypeOK, Merge(batch), UNCHANGED dumpLoop
  PROVE  /\ notif <= notif' \/ notif' > 0
         /\ cfg.needsDump => cfg'.needsDump
         /\ ~cfg'.needsDump => Snapshot' = Snapshot
         /\ cfg'.needsDump /\ dumpLoop = "running" => cfg.needsDump \/ notif' > 0
<1> DEFINE good  == {Carries[i] : i \in batch} \ {Undecodable}
           fresh == good \ cfg.content
<1>1. PICK s : /\ s \in IF fresh = {} THEN {cfg.state} ELSE {cfg.state, "Dirty"}
               /\ cfg' = [content |-> cfg.content \cup good, state |-> s,
                          needsDump |-> cfg.needsDump \/ fresh # {}]
  BY DEF Merge
<1>2. notif' = Heard(IF good # {} THEN 1 ELSE 0) /\ notif \in 0..2 /\ cfg.needsDump \in BOOLEAN
  BY DEF Merge, TypeOK, TaskTypeOK, Configs
<1>3. fresh # {} => good # {}
  OBVIOUS
<1>4. fresh = {} => cfg.content \cup good = cfg.content
  OBVIOUS
<1> HIDE DEF good, fresh
<1>5. cfg'.needsDump = (cfg.needsDump \/ fresh # {})
  BY <1>1
<1>6. fresh = {} => Snapshot' = Snapshot
  BY <1>1, <1>4 DEF Snapshot
<1>7. (notif <= notif' \/ notif' > 0) /\ (good # {} /\ dumpLoop = "running" => notif' > 0)
  BY <1>2 DEF Heard
<1> QED BY <1>2, <1>3, <1>5, <1>6, <1>7

LEMMA DumpInvHolds == Spec => []DumpInv
<1>1. Init => DumpInv
  BY DEF Init, DumpInv, DumpIsNotified, DumpFlagSound, Snapshot, IdlePush
<1>2. TypeOK /\ AckInv /\ DumpInv /\ [Next]_vars => DumpInv'
  <2> SUFFICES ASSUME TypeOK, AckInv, DumpInv, [Next]_vars PROVE DumpInv'
    OBVIOUS
  <2> USE DEF DumpInv, DumpIsNotified, DumpFlagSound
  <2>0. /\ cfg \in Configs /\ notif \in 0..2 /\ push \in Pushes
        /\ pc \in [Callers -> {"start", "notify+request", "notify+answer", "request",
                               "answer", "waiting", "ok", "err", "gone"}]
    BY DEF TypeOK, TaskTypeOK, CallersTypeOK
  <2>1. ASSUME NEW c \in Callers, Mutate(c) PROVE DumpInv'
    <3>1. /\ UNCHANGED <<notif, dumpLoop, push, task, dbVars, historyVars>> /\ Unlocked
          /\ cfg' = cfg \/ cfg'.needsDump
          /\ pc'[c] = IF cfg'.needsDump
                      THEN IF NeedsPush(cfg') THEN "notify+request" ELSE "notify+answer"
                      ELSE IF NeedsPush(cfg') THEN "request" ELSE "answer"
      BY <2>0, <2>1 DEF Mutate
    <3>2. cfg'.needsDump => \E b \in Callers : pc'[b] \in {"notify+request", "notify+answer"}
      BY <3>1
    <3>3. ~cfg'.needsDump => Snapshot' = Snapshot /\ ~cfg.needsDump /\ cfg'.content = cfg.content
      BY <3>1 DEF Snapshot
    <3> QED BY <3>1, <3>2, <3>3 DEF Unlocked, dbVars, historyVars
  <2>2. ASSUME NEW c \in Callers, Notify(c) PROVE DumpInv'
    <3>1. UNCHANGED <<cfg, dumpLoop, push, task, dbVars, historyVars>> /\ notif' = Heard(1)
      BY <2>2 DEF Notify
    <3>2. dumpLoop = "running" => notif' > 0
      BY <2>0, <3>1 DEF Heard
    <3> QED BY <3>1, <3>2 DEF Snapshot, dbVars, historyVars
  <2>3. ASSUME NEW c \in Callers, AnswerUnneeded(c) \/ Request(c) PROVE DumpInv'
    <3>1. UNCHANGED <<cfg, notif, dumpLoop, push, task, dbVars, historyVars>>
      BY <2>3 DEF AnswerUnneeded, Request, configVars
    <3>2. \A b \in Callers : pc[b] \in {"notify+request", "notify+answer"} => pc'[b] = pc[b]
      BY <2>0, <2>3 DEF AnswerUnneeded, Request
    <3> QED BY <3>1, <3>2 DEF Snapshot, dbVars, historyVars
  <2>m. ASSUME NEW batch \in SUBSET (1..MaxMsg), Merge(batch), AtAwait,
               UNCHANGED <<dumpLoop, push, task, pc, dbDump, dbRows, historyVars>>
        PROVE  DumpInv'
    <3>1. /\ notif <= notif' \/ notif' > 0
          /\ cfg.needsDump => cfg'.needsDump
          /\ ~cfg'.needsDump => Snapshot' = Snapshot
          /\ cfg'.needsDump /\ dumpLoop = "running" => cfg.needsDump \/ notif' > 0
      BY <2>m, MergeIsFlagged
    <3>2. Snapshot' = Snapshot => cfg'.content = cfg.content
      BY DEF Snapshot
    <3>3. notif > 0 => notif' > 0
      <4>1. notif' \in 0..2
        BY <2>m, MergeTypes DEF TypeOK
      <4> QED BY <2>0, <3>1, <4>1
    <3> QED BY <2>m, <3>1, <3>2, <3>3 DEF AtAwait, historyVars
  <2>4. CASE PollReply
    <3>1. PICK k \in poll.from..stored[poll.node] :
            IF k = poll.from THEN UNCHANGED <<cfg, notif, queued, lastHash>>
            ELSE Merge(poll.from + 1 .. k)
      BY <2>4 DEF PollReply
    <3>2. UNCHANGED <<dumpLoop, push, task, pc, dbDump, dbRows, historyVars>> /\ AtAwait
      BY <2>4 DEF PollReply
    <3>3. CASE k = poll.from
      BY <3>1, <3>2, <3>3 DEF Snapshot, historyVars
    <3>4. CASE k # poll.from
      BY <2>4, <2>m, <3>1, <3>2, <3>4, PolledBatch DEF PollReply
    <3> QED BY <3>3, <3>4
  <2>5. CASE SideChannel
    BY <2>5, <2>m DEF SideChannel, dbVars
  <2>6. CASE Subscribe
    BY <2>6 DEF Subscribe, Snapshot, dbVars
  <2>7. CASE DumpLagged
    BY <2>7 DEF DumpLagged, Snapshot, dbVars, historyVars
  <2>8. CASE DumpNotNeeded
    BY <2>8 DEF DumpNotNeeded, Snapshot, dbVars, historyVars
  <2>9. CASE DumpConfig
    <3>1. /\ cfg'.needsDump = FALSE /\ Snapshot' = Snapshot /\ dbDump' = Snapshot
          /\ dumpLoop' = "saving" /\ push' = push /\ task' = task /\ AtAwait
      BY <2>0, <2>9 DEF DumpConfig, Snapshot, Configs
    <3> QED BY <3>1 DEF AtAwait
  <2>10. CASE SaveRows
    <3>1. /\ dumpLoop = "saving" /\ ~cfg.needsDump /\ dumpLoop' = "running"
          /\ dbRows' = cfg.content /\ UNCHANGED <<cfg, dbDump, task>>
      BY <2>10 DEF SaveRows
    <3> QED BY <3>1 DEF Snapshot
  <2>11. CASE DumpFails \/ RowsFail
    BY <2>11 DEF DumpFails, RowsFail, TaskEnds
  <2>12. CASE TakeRequests
    BY <2>12 DEF TakeRequests, AtAwait, Snapshot, dbVars, historyVars
  <2>13. CASE PushNotNeeded \/ PushFails
    <3>1. /\ UNCHANGED <<cfg, dumpLoop, task, pc, dbDump, dbRows, interrupted, unheard>>
          /\ notif' = Heard(IF cfg.needsDump THEN 1 ELSE 0) /\ push.phase = "taken"
      BY <2>13 DEF PushNotNeeded, PushFails, dbVars, historyVars
    <3>2. (notif > 0 => notif' > 0)
      BY <2>0, <3>1 DEF Heard
    <3> QED BY <3>1, <3>2 DEF Snapshot
  <2>14. CASE PushConfig
    <3>1. /\ cfg'.needsDump /\ UNCHANGED <<dumpLoop, task>>
          /\ notif' = Heard(1) /\ push.phase = "taken"
      BY <2>0, <2>14 DEF PushConfig, Configs
    <3>2. dumpLoop = "running" => notif' > 0
      BY <2>0, <3>1 DEF Heard
    <3> QED BY <3>1, <3>2
  <2>15. CASE ConfirmPushed
    <3>1. /\ UNCHANGED <<dumpLoop, task, pc, dbDump, dbRows, interrupted, unheard>>
          /\ cfg' = cfg \/ cfg'.needsDump
          /\ notif' = Heard(IF cfg'.needsDump THEN 1 ELSE 0) /\ push.phase = "confirm"
      BY <2>0, <2>15 DEF ConfirmPushed, Confirmed, dbVars, Configs
    <3>2. (notif > 0 => notif' > 0) /\ (cfg'.needsDump /\ dumpLoop = "running" => notif' > 0)
      BY <2>0, <3>1 DEF Heard
    <3> QED BY <3>1, <3>2 DEF Snapshot
  <2>16. CASE AnswerRequests
    <3>1. UNCHANGED <<cfg, notif, dumpLoop, task, dbVars, historyVars>> /\ push.phase = "answer"
      BY <2>16 DEF AnswerRequests
    <3>2. dumpLoop # "saving"
      BY <3>1
    <3>3. ASSUME NEW b \in Callers, pc[b] \in {"notify+request", "notify+answer"}
          PROVE  pc'[b] = pc[b]
      BY <2>0, <2>16, <3>3, ConstantsOK DEF AnswerRequests, AckInv, PushIsSound, Pushes
    <3> QED BY <3>1, <3>2, <3>3 DEF Snapshot, dbVars, historyVars
  <2>17. CASE Restart
    <3>1. /\ cfg' = [content |-> dbDump.content, state |-> dbDump.state, needsDump |-> FALSE]
          /\ dumpLoop' = "unstarted" /\ UNCHANGED <<dbDump, dbRows>>
          /\ interrupted' = (interrupted \/ ~Saved)
      BY <2>17 DEF Restart, dbVars
    <3>2. dbDump' = Snapshot'
      BY <3>1 DEF Snapshot, TypeOK, StoreTypeOK, Snapshots
    <3>3. ~interrupted' => dbRows' = cfg'.content
      <4>1. ~interrupted' => Saved
        BY <3>1
      <4>2. Saved => dbDump.content = cfg.content /\ dbRows = cfg.content
        BY DEF Saved, Snapshot
      <4>3. cfg'.content = dbDump.content
        BY <3>1
      <4> QED BY <3>1, <4>1, <4>2, <4>3
    <3> QED BY <3>1, <3>2, <3>3
  <2>18. CASE UNCHANGED <<cfg, notif, dumpLoop, push, task, pc, dbVars, historyVars>>
    BY <2>18 DEF Snapshot, dbVars, historyVars
  <2> QED
    BY <2>1, <2>2, <2>3, <2>4, <2>5, <2>6, <2>7, <2>8, <2>9, <2>10, <2>11, <2>12,
       <2>13, <2>14, <2>15, <2>16, <2>17, <2>18
    DEF Next, CallerStep, PollStep, PollStart, PollError, SwarmStore, DumpStep, PushStep,
        configVars, vars
<1> QED BY <1>1, <1>2, TypeCorrect, AckInvHolds, PTL DEF Spec

\* While dump_config_if_needed lives, unsaved changes have a notification in its
\* channel or on its way, but for those made before it subscribed.
THEOREM DumpAlwaysNotified == Spec => []DumpIsNotified
<1>1. DumpInv => DumpIsNotified
  BY DEF DumpInv
<1> QED BY <1>1, DumpInvHolds, PTL

\* With needs_dump cleared the database has the config as it is in memory.
THEOREM DumpFlagIsSound == Spec => []DumpFlagSound
<1>1. DumpInv => DumpFlagSound
  BY DEF DumpInv
<1> QED BY <1>1, DumpInvHolds, PTL

-----------------------------------------------------------------------------
(* Polling resumes from positions this device has the updates of.          *)

\* As long as no stop found unsaved changes, the hash saved for a node never
\* makes it skip an update missing from the config.
THEOREM ResumeCovered == Spec => []ResumeIsCovered
<1>1. Init => ResumeInv
  BY DEF Init, ResumeInv, ResumeIsCovered, UpTo
<1>2. TypeOK /\ ResumeInv /\ [Next]_vars => ResumeInv'
  <2> SUFFICES ASSUME TypeOK, ResumeInv, [Next]_vars PROVE ResumeInv'
    OBVIOUS
  <2> USE DEF ResumeInv, ResumeIsCovered
  <2>1. ASSUME cfg.content \subseteq cfg'.content, UNCHANGED lastHash,
               interrupted => interrupted', poll' \in {poll, NoPoll}
        PROVE  ResumeInv'
    BY <2>1 DEF UpTo
  <2>2. ASSUME NEW c \in Callers, CallerStep(c) PROVE ResumeInv'
    <3>1. cfg.content \subseteq cfg'.content
      BY <2>2 DEF CallerStep, Mutate, Notify, AnswerUnneeded, Request, configVars
    <3> QED
      BY <2>1, <2>2, <3>1 DEF CallerStep, Mutate, Notify, AnswerUnneeded,
                              Request, configVars, dbVars, historyVars
  <2>3. ASSUME NEW n \in Nodes, PollStart(n) PROVE ResumeInv'
    BY <2>3 DEF PollStart, NoPoll, dbVars, historyVars, UpTo
  <2>4. CASE PollReply
    <3>1. PICK k \in poll.from..stored[poll.node] :
            IF k = poll.from THEN UNCHANGED <<cfg, notif, queued, lastHash>>
            ELSE /\ Merge(poll.from + 1 .. k)
                 /\ \/ lastHash' = [lastHash EXCEPT ![poll.node] = k]
                    \/ UNCHANGED lastHash
      BY <2>4 DEF PollReply
    <3>2. poll # NoPoll /\ poll' = NoPoll /\ interrupted' = interrupted
      BY <2>4 DEF PollReply, historyVars
    <3>3. CASE k = poll.from
      BY <2>1, <3>1, <3>2, <3>3
    <3>4. CASE k # poll.from
      <4>1. cfg.content \subseteq cfg'.content
        BY <3>1, <3>2, <3>4, PolledBatch, MergeAddsRemote DEF TypeOK
      <4>2. CASE UNCHANGED lastHash
        BY <2>1, <3>2, <4>1, <4>2
      <4>3. CASE lastHash' = [lastHash EXCEPT ![poll.node] = k]
        <5>1. {Carries[i] : i \in poll.from + 1 .. k} \ {Undecodable}
                \subseteq cfg'.content
          BY <3>1, <3>4 DEF Merge
        <5>2. poll.from \in 0..MaxMsg /\ k \in 0..MaxMsg
          BY <3>1, <3>2, PolledBatch
        <5>3. UpTo(k) \subseteq UpTo(poll.from)
                \cup ({Carries[i] : i \in poll.from + 1 .. k} \ {Undecodable})
          BY <5>2, ConstantsOK DEF UpTo
        <5>4. ~interrupted => UpTo(k) \subseteq cfg'.content
          BY <3>2, <4>1, <5>1, <5>3
        <5>5. ASSUME NEW n \in Nodes, ~interrupted
              PROVE  UpTo(lastHash'[n]) \subseteq cfg'.content
          <6>1. CASE n = poll.node
            BY <4>3, <5>4, <5>5, <6>1 DEF TypeOK, StoreTypeOK
          <6>2. CASE n # poll.node
            BY <4>1, <4>3, <5>5, <6>2 DEF TypeOK, StoreTypeOK
          <6> QED BY <6>1, <6>2
        <5> QED BY <3>2, <5>5 DEF UpTo
      <4> QED BY <3>1, <3>4, <4>2, <4>3
    <3> QED BY <3>3, <3>4
  <2>5. CASE SideChannel
    BY <2>1, <2>5, MergeAddsRemote DEF SideChannel, TypeOK, dbVars, historyVars
  <2>6. CASE DumpStep \/ DumpFails \/ RowsFail
    <3>1. cfg'.content = cfg.content
      BY <2>6 DEF DumpStep, Subscribe, DumpLagged, DumpNotNeeded, DumpConfig,
                  SaveRows, DumpFails, RowsFail, TypeOK, TaskTypeOK, Configs
    <3> QED
      BY <2>1, <2>6, <3>1
      DEF DumpStep, Subscribe, DumpLagged, DumpNotNeeded, DumpConfig, SaveRows,
          DumpFails, RowsFail, TaskEnds, dbVars, historyVars
  <2>7. CASE PushStep \/ PushFails
    <3>1. cfg'.content = cfg.content
      BY <2>7 DEF PushStep, TakeRequests, PushNotNeeded, PushConfig, PushFails,
                  ConfirmPushed, Confirmed, AnswerRequests, TypeOK, TaskTypeOK,
                  Configs
    <3> QED
      BY <2>1, <2>7, <3>1
      DEF PushStep, TakeRequests, PushNotNeeded, PushConfig, PushFails,
          ConfirmPushed, AnswerRequests, dbVars, historyVars
  <2>8. CASE Restart
    <3>1. ~interrupted' => ~interrupted /\ cfg'.content = cfg.content
      <4>1. ~interrupted' => ~interrupted /\ Saved
        BY <2>8 DEF Restart, TypeOK, HistoryTypeOK
      <4>2. Saved => dbDump.content = cfg.content
        BY DEF Saved, Snapshot
      <4>3. cfg'.content = dbDump.content
        BY <2>8 DEF Restart
      <4> QED BY <4>1, <4>2, <4>3
    <3> QED BY <2>8, <3>1 DEF Restart, dbVars, UpTo
  <2>9. CASE UNCHANGED <<cfg, lastHash, interrupted>> /\ poll' \in {poll, NoPoll}
    BY <2>1, <2>9
  <2> QED
    BY <2>2, <2>3, <2>4, <2>5, <2>6, <2>7, <2>8, <2>9
    DEF Next, PollStep, PollError, SwarmStore, configVars, dbVars, historyVars,
        vars
<1>3. ResumeInv => ResumeIsCovered
  BY DEF ResumeInv
<1> QED BY <1>1, <1>2, <1>3, TypeCorrect, PTL DEF Spec

-----------------------------------------------------------------------------
(* ConfigSync implements PushContract.                                     *)

\* The loops, the queue, the database and the restarts only do what the
\* contract with the callers allows: each step maps to one of its steps or
\* to none.
THEOREM ContractImplemented == Spec => ImplementsContract
<1> DEFINE answer == [c \in Callers |-> AnswerOf(pc[c])]
<1>1. Init => Contract!Init
  BY DEF Init, Contract!Init, AnswerOf
<1>2. TypeOK /\ AckInv /\ AckInv' /\ [Next]_vars => [Contract!Next]_(Contract!vars)
  <2> SUFFICES ASSUME TypeOK, AckInv, AckInv', [Next]_vars
               PROVE  Contract!Next \/ UNCHANGED Contract!vars
    OBVIOUS
  <2> USE DEF TypeOK, CallersTypeOK
  <2>1. ASSUME NEW c \in Callers, Mutate(c) PROVE Contract!Submit(c)
    <3>1. pc[c] = "start" /\ pc'[c] \notin {"start", "ok", "err", "gone"}
      BY <2>1 DEF Mutate
    <3>2. pc' = [pc EXCEPT ![c] = pc'[c]]
      BY <2>1 DEF Mutate
    <3>3. answer' = [answer EXCEPT ![c] = "pending"]
      BY <3>1, <3>2 DEF AnswerOf
    <3>4. answer[c] = "none"
      BY <3>1 DEF AnswerOf
    <3> QED BY <2>1, <3>3, <3>4 DEF Mutate, Contract!Submit, historyVars
  <2>2. ASSUME NEW group \in SUBSET Callers, NEW r \in {"ok", "err", "gone"},
               \A c \in group : pc[c] \notin {"start", "ok", "err", "gone"},
               r = "ok" => \A c \in group : edit[c] \in pushed,
               \A c \in Callers :
                 AnswerOf(pc'[c]) = IF c \in group THEN r ELSE AnswerOf(pc[c]),
               UNCHANGED <<edit, pushed>>
        PROVE  Contract!Resolve(group, r)
    BY <2>2 DEF Contract!Resolve, AnswerOf
  <2>3. ASSUME NEW c \in Callers, Notify(c) \/ AnswerUnneeded(c) \/ Request(c)
        PROVE  Contract!Next \/ UNCHANGED Contract!vars
    <3>1. UNCHANGED <<edit, pushed>> /\ pc' = [pc EXCEPT ![c] = pc'[c]]
      BY <2>3 DEF Notify, AnswerUnneeded, Request, historyVars
    <3>2. pc[c] \notin {"start", "ok", "err", "gone"}
      BY <2>3 DEF Notify, AnswerUnneeded, Request
    <3>3. CASE pc'[c] \in {"ok", "err"}
      <4>1. pc'[c] = "ok" => edit[c] \in pushed
        BY <2>3 DEF Notify, AnswerUnneeded, Request, AckInv, EditIsHeld
      <4>2. \A d \in Callers :
              AnswerOf(pc'[d]) = IF d \in {c} THEN pc'[c] ELSE AnswerOf(pc[d])
        BY <3>1, <3>3 DEF AnswerOf
      <4>3. Contract!Resolve({c}, pc'[c])
        BY <2>2, <3>1, <3>2, <3>3, <4>1, <4>2
      <4> QED BY <3>3, <4>3 DEF Contract!Next
    <3>4. CASE pc'[c] \notin {"ok", "err"}
      <4>1. pc'[c] \in {"request", "answer", "waiting"}
        BY <2>3, <3>4 DEF Notify, AnswerUnneeded, Request
      <4>2. answer' = answer
        BY <3>1, <3>2, <4>1 DEF AnswerOf
      <4> QED BY <3>1, <4>2 DEF Contract!vars
    <3> QED BY <3>3, <3>4
  <2>4. CASE DumpFails \/ RowsFail
    <3> DEFINE group == {c \in Callers : pc[c] = "waiting"}
    <3>1. /\ UNCHANGED <<edit, pushed>>
          /\ \A c \in Callers :
               pc'[c] = IF pc[c] = "waiting" THEN "err" ELSE pc[c]
      BY <2>4 DEF DumpFails, RowsFail, TaskEnds
    <3>2. Contract!Resolve(group, "err")
      BY <2>2, <3>1 DEF AnswerOf
    <3> QED BY <3>2 DEF Contract!Next
  <2>5. CASE AnswerRequests
    <3> DEFINE r == IF push.ok THEN "ok" ELSE "err"
    <3>1. push.taken \in SUBSET Callers
      BY DEF TaskTypeOK, Pushes
    <3>2. \A c \in push.taken : pc[c] = "waiting"
      BY <3>1, ConstantsOK DEF AckInv, PushIsSound
    <3>3. r = "ok" => \A c \in push.taken : edit[c] \in pushed
      BY <2>5 DEF AnswerRequests, AckInv, PushIsSound
    <3>4. \A c \in Callers :
            AnswerOf(pc'[c]) = IF c \in push.taken THEN r ELSE AnswerOf(pc[c])
      BY <2>5 DEF AnswerRequests, AnswerOf
    <3>5. Contract!Resolve(push.taken, r)
      BY <2>2, <2>5, <3>1, <3>2, <3>3, <3>4 DEF AnswerRequests, historyVars
    <3> QED BY <3>1, <3>5 DEF Contract!Next
  <2>6. CASE Restart
    <3> DEFINE group == {c \in Callers : pc[c] \notin {"start", "ok", "err", "gone"}}
    <3>1. /\ UNCHANGED <<edit, pushed>>
          /\ \A c \in Callers : pc'[c] = IF pc[c] \in {"start", "ok", "err"}
                                       THEN pc[c] ELSE "gone"
      BY <2>6 DEF Restart
    <3>2. Contract!Resolve(group, "gone")
      BY <2>2, <3>1 DEF AnswerOf
    <3> QED BY <3>2 DEF Contract!Next
  <2>7. CASE ConfirmPushed
    <3>1. push.sent \subseteq Submitted \cup RemoteUpdates
      BY DEF AckInv, ContentIsKnown
    <3>2. Contract!Push
      BY <2>7, <3>1 DEF ConfirmPushed, Contract!Push, Contract!Submissions,
                        Submitted
    <3> QED BY <3>2 DEF Contract!Next
  <2>8. CASE UNCHANGED <<pc, edit, pushed>>
    BY <2>8 DEF Contract!vars
  <2> QED
    BY <2>1, <2>3, <2>4, <2>5, <2>6, <2>7, <2>8
    DEF Contract!Next, Next, CallerStep, PollStep, PollStart, PollReply,
        PollError, SideChannel, SwarmStore, DumpStep, Subscribe, DumpLagged,
        DumpNotNeeded, DumpConfig, SaveRows, PushStep, PushFails, TakeRequests,
        PushNotNeeded, PushConfig, historyVars, vars
<1> QED
  BY <1>1, <1>2, TypeCorrect, AckInvHolds, PTL
  DEF Spec, ImplementsContract, Contract!Spec

=============================================================================
