------------------------------ MODULE ConfigSync ------------------------------
(***************************************************************************)
(* One libsession config (contacts, user profile, ...) of an account: the  *)
(* ConfigWrapper shared by the API threads (config/wrapper.rs), and the    *)
(* task sync_config (worker/sync_config.rs) whose four futures poll the    *)
(* swarm, merge side-channel messages, dump the config to the database and *)
(* push it.  The four futures share ONE task (try_join!), so they          *)
(* interleave only at their awaits; the API threads interleave anywhere    *)
(* the config's lock is free.                                              *)
(*                                                                         *)
(* Data is abstracted to sets of updates: the content of a config is the   *)
(* set of updates merged or edited into it, a swarm message carries one    *)
(* update, and message i is the i-th a node stores.                        *)
(***************************************************************************)
EXTENDS Naturals, FiniteSets

CONSTANTS
  Callers,          \* API calls of mutate_and_await_push
  LocalUpdates,     \* the updates those calls may make
  RemoteUpdates,    \* the updates other devices put on the swarm
  Nodes,            \* nodes of the account's swarm
  MaxMsg,           \* bound: messages a node ever stores
  Carries,          \* Carries[i]: the update of message i, or Undecodable
  Undecodable,      \* what a message no merge accepts carries
  NoCallback,       \* the push request without a callback (None)
  NoUpdate,         \* a caller that has not edited yet
  MaxCrashes,       \* bound: process restarts
  MaxPushFailures   \* bound: times Config::push may return Err

ASSUME ConstantsOK ==
  /\ MaxMsg \in Nat /\ MaxCrashes \in Nat /\ MaxPushFailures \in Nat
  /\ Carries \in [1..MaxMsg -> RemoteUpdates \cup {Undecodable}]
  /\ Undecodable \notin RemoteUpdates
  /\ LocalUpdates \cap RemoteUpdates = {}
  /\ NoCallback \notin Callers
  /\ NoUpdate \notin LocalUpdates

VARIABLES
  cfg,          \* the libsession object: content, push state, needs_dump flag
  queued,       \* push_requests channel: callers' callbacks, NoCallback
  notif,        \* change notifications the dump loop has not received
  dumpLoop,     \* where dump_config_if_needed is
  push,         \* where push_config_if_needed is, and the requests it took
  task,         \* whether sync_config still runs
  poll,         \* the poll in flight: its node and the hash it asked from
  pc,           \* where each caller is
  edit,         \* the update each caller made
  stored,       \* how many messages each node stores
  dbDump,       \* table configs: content and push state last saved
  dbRows,       \* tables config_*: the content they show
  lastHash,     \* table swarm_message_sync_state, per node
  pushed,       \* history: the updates confirmed as pushed
  interrupted,  \* history: a stop happened with something unsaved
  unheard,      \* history: the dump loop subscribed to a dirty config
  crashes, pushFailures

configVars == <<cfg, queued, notif, dumpLoop, push, task, poll>>
dbVars == <<dbDump, dbRows, lastHash>>
historyVars == <<pushed, interrupted, unheard, crashes, pushFailures>>
vars == <<configVars, pc, edit, stored, dbVars, historyVars>>

Updates == LocalUpdates \cup RemoteUpdates
PushStates == {"Clean", "Dirty", "Waiting"}
Configs == [content : SUBSET Updates, state : PushStates, needsDump : BOOLEAN]
Snapshots == [content : SUBSET Updates, state : PushStates]
Snapshot == [content |-> cfg.content, state |-> cfg.state]
Saved == dbDump = Snapshot /\ dbRows = cfg.content
NeedsPush(c) == c.state # "Clean"

(***************************************************************************)
(* Where the futures of the task may run: none of them is between two      *)
(* awaits.  The dump holds the config's write lock while it saves.         *)
(***************************************************************************)
AtAwait == task = "running" /\ push.phase = "idle" /\ dumpLoop # "saving"
Unlocked == dumpLoop # "saving"

\* A send on the broadcast channel of capacity 1: only a subscribed receiver
\* hears it, and a second one before it looks makes it lag (2).
Heard(sends) ==
  IF dumpLoop \in {"running", "saving"} /\ sends > 0
  THEN IF notif = 0 THEN 1 ELSE 2
  ELSE notif

\* Mutant: only an API call asks for a push.
RequestOnlyForCallback(c, request) ==
  IF NeedsPush(c) THEN queued \cup ({request} \ {NoCallback}) ELSE queued

\* What do_mutate and merge send to push_requests when the config needs a push.
WithRequest(c, request) ==
  IF NeedsPush(c) THEN queued \cup {request} ELSE queued

IdlePush == [phase |-> "idle", taken |-> {}, sent |-> {}, ok |-> TRUE]
NoPoll == [node |-> NoUpdate, from |-> 0]

UpTo(k) == {Carries[i] : i \in 1..k} \ {Undecodable}

Init ==
  /\ cfg = [content |-> {}, state |-> "Clean", needsDump |-> FALSE]
  /\ queued = {} /\ notif = 0 /\ dumpLoop = "unstarted"
  /\ push = IdlePush /\ task = "running" /\ poll = NoPoll
  /\ pc = [c \in Callers |-> "start"]
  /\ edit = [c \in Callers |-> NoUpdate]
  /\ stored = [n \in Nodes |-> 0]
  /\ dbDump = [content |-> {}, state |-> "Clean"]
  /\ dbRows = {} /\ lastHash = [n \in Nodes |-> 0]
  /\ pushed = {} /\ interrupted = FALSE /\ unheard = FALSE
  /\ crashes = 0 /\ pushFailures = 0

-----------------------------------------------------------------------------
(* The API threads: do_mutate under the lock, then the two sends.          *)

\* Mutant: an edit that changes nothing is answered at once.
MutateOrAnswer(c) ==
  /\ pc[c] = "start" /\ Unlocked
  /\ \E u \in LocalUpdates :
       /\ edit' = [edit EXCEPT ![c] = u]
       /\ IF u \in cfg.content
          THEN cfg' = cfg /\ pc' = [pc EXCEPT ![c] = "answer"]
          ELSE /\ cfg' = [content |-> cfg.content \cup {u}, state |-> "Dirty",
                          needsDump |-> TRUE]
               /\ pc' = [pc EXCEPT ![c] = "notify+request"]
  /\ UNCHANGED <<queued, notif, dumpLoop, push, task, poll, stored, dbVars,
                 historyVars>>

\* An edit that changes nothing leaves the flags alone.  What follows the
\* unlock was decided under the lock: notify if a dump is needed, then ask for
\* a push if one is needed or answer the caller at once.
Mutate(c) ==
  /\ pc[c] = "start" /\ Unlocked
  /\ \E u \in LocalUpdates :
       /\ edit' = [edit EXCEPT ![c] = u]
       /\ cfg' = IF u \in cfg.content THEN cfg
                 ELSE [content |-> cfg.content \cup {u}, state |-> "Dirty",
                       needsDump |-> TRUE]
  /\ pc' = [pc EXCEPT ![c] =
       IF cfg'.needsDump
       THEN IF NeedsPush(cfg') THEN "notify+request" ELSE "notify+answer"
       ELSE IF NeedsPush(cfg') THEN "request" ELSE "answer"]
  /\ UNCHANGED <<queued, notif, dumpLoop, push, task, poll, stored, dbVars,
                 historyVars>>

\* change_notifications.send.
Notify(c) ==
  /\ pc[c] \in {"notify+request", "notify+answer"}
  /\ notif' = Heard(1)
  /\ pc' = [pc EXCEPT ![c] = IF @ = "notify+request" THEN "request"
                             ELSE "answer"]
  /\ UNCHANGED <<cfg, queued, dumpLoop, push, task, poll, edit, stored, dbVars,
                 historyVars>>

AnswerUnneeded(c) ==
  /\ pc[c] = "answer"
  /\ pc' = [pc EXCEPT ![c] = "ok"]
  /\ UNCHANGED <<configVars, edit, stored, dbVars, historyVars>>

\* push_requests.send: with the receiver gone the callback is dropped and
\* the caller's await fails.
Request(c) ==
  /\ pc[c] = "request"
  /\ IF task = "running"
     THEN queued' = queued \cup {c} /\ pc' = [pc EXCEPT ![c] = "waiting"]
     ELSE queued' = queued /\ pc' = [pc EXCEPT ![c] = "err"]
  /\ UNCHANGED <<cfg, notif, dumpLoop, push, task, poll, edit, stored, dbVars,
                 historyVars>>

-----------------------------------------------------------------------------
(* Polling and merging.                                                    *)

\* ConfigWrapper::merge of a non-empty batch of messages.  libsession may
\* resolve a conflict between new and present data by a new dirty config.
Merge(batch) ==
  LET good  == {Carries[i] : i \in batch} \ {Undecodable}
      fresh == good \ cfg.content
  IN /\ \E s \in IF fresh = {} THEN {cfg.state} ELSE {cfg.state, "Dirty"} :
          cfg' = [content |-> cfg.content \cup good, state |-> s,
                  needsDump |-> cfg.needsDump \/ fresh # {}]
     /\ notif' = Heard(IF good # {} THEN 1 ELSE 0)
     /\ queued' = WithRequest(cfg', NoCallback)

PollStart(n) ==
  /\ AtAwait /\ poll = NoPoll
  /\ poll' = [node |-> n, from |-> lastHash[n]]
  /\ UNCHANGED <<cfg, queued, notif, dumpLoop, push, task, pc, edit, stored,
                 dbVars, historyVars>>

\* Mutant: the hash of the newest message stored is saved, not of the newest read.
PollReplyNewest ==
  /\ AtAwait /\ poll # NoPoll
  /\ \E k \in poll.from..stored[poll.node] :
       IF k = poll.from
       THEN UNCHANGED <<cfg, notif, queued, lastHash>>
       ELSE /\ Merge(poll.from + 1 .. k)
            /\ lastHash' = [lastHash EXCEPT ![poll.node] = stored[poll.node]]
  /\ poll' = NoPoll
  /\ UNCHANGED <<dumpLoop, push, task, pc, edit, stored, dbDump, dbRows,
                 historyVars>>

\* The node's answer: messages after the hash the request carried, up to any
\* it stores.  Merging comes first; saving the hash may fail, and then the
\* poll ends in an error the loop only reports.
PollReply ==
  /\ AtAwait /\ poll # NoPoll
  /\ \E k \in poll.from..stored[poll.node] :
       IF k = poll.from
       THEN UNCHANGED <<cfg, notif, queued, lastHash>>
       ELSE /\ Merge(poll.from + 1 .. k)
            /\ \/ lastHash' = [lastHash EXCEPT ![poll.node] = k]
               \/ UNCHANGED lastHash
  /\ poll' = NoPoll
  /\ UNCHANGED <<dumpLoop, push, task, pc, edit, stored, dbDump, dbRows,
                 historyVars>>

PollError ==
  /\ AtAwait /\ poll # NoPoll
  /\ poll' = NoPoll
  /\ UNCHANGED <<cfg, queued, notif, dumpLoop, push, task, pc, edit, stored,
                 dbVars, historyVars>>

\* pipe_side_channel_messages: config messages that came with other traffic.
SideChannel ==
  /\ AtAwait
  /\ \E n \in Nodes, i \in 1..MaxMsg : i <= stored[n] /\ Merge({i})
  /\ UNCHANGED <<dumpLoop, push, task, poll, pc, edit, stored, dbVars,
                 historyVars>>

SwarmStore(n) ==
  /\ stored[n] < MaxMsg
  /\ stored' = [stored EXCEPT ![n] = @ + 1]
  /\ UNCHANGED <<configVars, pc, edit, dbVars, historyVars>>

-----------------------------------------------------------------------------
(* Dumping.                                                                *)

\* Mutant: the callbacks outlive the task.
TaskEndsSilently ==
  /\ task' = "dead" /\ dumpLoop' = "ended" /\ notif' = 0
  /\ queued' = {} /\ push' = IdlePush /\ poll' = NoPoll
  /\ UNCHANGED pc

\* An error propagates through try_join!: all four futures are dropped, and
\* with them the request queue and the callbacks that were waiting.
TaskEnds ==
  /\ task' = "dead" /\ dumpLoop' = "ended" /\ notif' = 0
  /\ queued' = {} /\ push' = IdlePush /\ poll' = NoPoll
  /\ pc' = [c \in Callers |-> IF pc[c] = "waiting" THEN "err" ELSE pc[c]]

Subscribe ==
  /\ AtAwait /\ dumpLoop = "unstarted"
  /\ dumpLoop' = "running" /\ unheard' = cfg.needsDump
  /\ UNCHANGED <<cfg, queued, notif, push, task, poll, pc, edit, stored, dbVars,
                 pushed, interrupted, crashes, pushFailures>>

\* Mutant: a lagging loop goes on with the next notification.
LagIgnored ==
  /\ AtAwait /\ dumpLoop = "running" /\ notif = 2
  /\ notif' = 0
  /\ UNCHANGED <<cfg, queued, dumpLoop, push, task, poll, pc, edit, stored,
                 dbVars, historyVars>>

DumpLagged ==
  /\ AtAwait /\ dumpLoop = "running" /\ notif = 2
  /\ dumpLoop' = "ended" /\ notif' = 0
  /\ UNCHANGED <<cfg, queued, push, task, poll, pc, edit, stored, dbVars,
                 historyVars>>

\* save_config_dump_and_rows with nothing to dump.
DumpNotNeeded ==
  /\ AtAwait /\ dumpLoop = "running" /\ notif = 1 /\ ~cfg.needsDump
  /\ notif' = 0 /\ queued' = WithRequest(cfg, NoCallback)
  /\ UNCHANGED <<cfg, dumpLoop, push, task, poll, pc, edit, stored, dbVars,
                 historyVars>>

\* save_config: dump() clears the flag, then the row of configs is replaced.
DumpConfig ==
  /\ AtAwait /\ dumpLoop = "running" /\ notif = 1 /\ cfg.needsDump
  /\ notif' = 0 /\ dumpLoop' = "saving"
  /\ cfg' = [cfg EXCEPT !.needsDump = FALSE]
  /\ dbDump' = Snapshot /\ unheard' = FALSE
  /\ UNCHANGED <<queued, push, task, poll, pc, edit, stored, dbRows, lastHash,
                 pushed, interrupted, crashes, pushFailures>>

\* save_as_rows, then the end of do_mutate.
SaveRows ==
  /\ dumpLoop = "saving"
  /\ dbRows' = cfg.content /\ dumpLoop' = "running"
  /\ queued' = WithRequest(cfg, NoCallback)
  /\ UNCHANGED <<cfg, notif, push, task, poll, pc, edit, stored, dbDump,
                 lastHash, historyVars>>

\* Mutant: a failed save is only reported.
DumpFailureIgnored ==
  /\ AtAwait /\ dumpLoop = "running" /\ notif = 1
  /\ cfg' \in {cfg, [cfg EXCEPT !.needsDump = FALSE]}
  /\ notif' = 0
  /\ UNCHANGED <<queued, dumpLoop, push, task, poll, pc, edit, stored, dbVars,
                 historyVars>>

\* No connection, or the statement on configs fails after dump() cleared the
\* flag: the error ends sync_config.
DumpFails ==
  /\ AtAwait /\ dumpLoop = "running" /\ notif = 1
  /\ cfg' \in {cfg, [cfg EXCEPT !.needsDump = FALSE]}
  /\ TaskEnds /\ interrupted' = (interrupted \/ ~Saved)
  /\ UNCHANGED <<edit, stored, dbVars, pushed, unheard, crashes, pushFailures>>

\* save_as_rows deletes and inserts one statement at a time, each its own
\* transaction: a failure leaves any part of the rows.
RowsFail ==
  /\ dumpLoop = "saving"
  /\ dbRows' \in SUBSET (dbRows \cup cfg.content)
  /\ TaskEnds /\ interrupted' = TRUE
  /\ UNCHANGED <<cfg, edit, stored, dbDump, lastHash, pushed, unheard, crashes,
                 pushFailures>>

-----------------------------------------------------------------------------
(* Pushing.                                                                *)

\* The first request, and all others in the channel at that moment.
TakeRequests ==
  /\ AtAwait /\ queued # {}
  /\ push' = [push EXCEPT !.phase = "taken", !.taken = queued \ {NoCallback}]
  /\ queued' = {}
  /\ UNCHANGED <<cfg, notif, dumpLoop, task, poll, pc, edit, stored, dbVars,
                 historyVars>>

PushNotNeeded ==
  /\ push.phase = "taken" /\ ~NeedsPush(cfg)
  /\ push' = [push EXCEPT !.phase = "answer", !.ok = TRUE]
  /\ notif' = Heard(IF cfg.needsDump THEN 1 ELSE 0)
  /\ UNCHANGED <<cfg, queued, dumpLoop, task, poll, pc, edit, stored, dbVars,
                 historyVars>>

\* Config::push marks the config as waiting for its confirmation, which is
\* still "needs push": do_mutate queues one more request.
PushConfig ==
  /\ push.phase = "taken" /\ NeedsPush(cfg)
  /\ cfg' = [cfg EXCEPT !.state = "Waiting", !.needsDump = TRUE]
  /\ push' = [push EXCEPT !.phase = "confirm", !.sent = cfg.content]
  /\ notif' = Heard(1) /\ queued' = WithRequest(cfg', NoCallback)
  /\ UNCHANGED <<dumpLoop, task, poll, pc, edit, stored, dbVars, historyVars>>

PushFails ==
  /\ push.phase = "taken" /\ NeedsPush(cfg) /\ pushFailures < MaxPushFailures
  /\ pushFailures' = pushFailures + 1
  /\ push' = [push EXCEPT !.phase = "answer", !.ok = FALSE]
  /\ notif' = Heard(IF cfg.needsDump THEN 1 ELSE 0)
  /\ queued' = WithRequest(cfg, NoCallback)
  /\ UNCHANGED <<cfg, dumpLoop, task, poll, pc, edit, stored, dbVars, pushed,
                 interrupted, unheard, crashes>>

\* Mutant: whatever changed since push() is taken as pushed.
ConfirmedAnyway(c) == [c EXCEPT !.state = "Clean", !.needsDump = TRUE]

\* confirm_pushed: libsession ignores it when the config changed after push().
Confirmed(c) ==
  IF c.state = "Waiting" THEN [c EXCEPT !.state = "Clean", !.needsDump = TRUE]
  ELSE c

ConfirmPushed ==
  /\ push.phase = "confirm"
  /\ cfg' = Confirmed(cfg)
  /\ pushed' = pushed \cup push.sent
  /\ push' = [push EXCEPT !.phase = "answer", !.ok = TRUE]
  /\ notif' = Heard(IF cfg'.needsDump THEN 1 ELSE 0)
  /\ UNCHANGED <<queued, dumpLoop, task, poll, pc, edit, stored, dbVars,
                 interrupted, unheard, crashes, pushFailures>>

\* Mutant: a failed push is not told.
AnswerAlwaysOk ==
  /\ push.phase = "answer"
  /\ pc' = [c \in Callers |-> IF c \in push.taken THEN "ok" ELSE pc[c]]
  /\ push' = IdlePush
  /\ UNCHANGED <<cfg, queued, notif, dumpLoop, task, poll, edit, stored, dbVars,
                 historyVars>>

AnswerRequests ==
  /\ push.phase = "answer"
  /\ pc' = [c \in Callers |-> IF c \in push.taken
                              THEN IF push.ok THEN "ok" ELSE "err" ELSE pc[c]]
  /\ push' = IdlePush
  /\ UNCHANGED <<cfg, queued, notif, dumpLoop, task, poll, edit, stored, dbVars,
                 historyVars>>

-----------------------------------------------------------------------------
\* The process stops anywhere and starts again from the database:
\* ConfigWrapper::new asks for a push when the loaded config needs one.
Restart ==
  /\ crashes < MaxCrashes
  /\ crashes' = crashes + 1
  /\ interrupted' = (interrupted \/ ~Saved)
  /\ cfg' = [content |-> dbDump.content, state |-> dbDump.state,
             needsDump |-> FALSE]
  /\ queued' = IF NeedsPush(cfg') THEN {NoCallback} ELSE {}
  /\ notif' = 0 /\ dumpLoop' = "unstarted" /\ unheard' = FALSE
  /\ push' = IdlePush /\ task' = "running" /\ poll' = NoPoll
  /\ pc' = [c \in Callers |-> IF pc[c] \in {"start", "ok", "err"}
                              THEN pc[c] ELSE "gone"]
  /\ UNCHANGED <<edit, stored, dbVars, pushed, pushFailures>>

CallerStep(c) == Mutate(c) \/ Notify(c) \/ AnswerUnneeded(c) \/ Request(c)
PollStep == (\E n \in Nodes : PollStart(n)) \/ PollReply \/ PollError
DumpStep == Subscribe \/ DumpLagged \/ DumpNotNeeded \/ DumpConfig \/ SaveRows
PushStep == TakeRequests \/ PushNotNeeded \/ PushConfig \/ ConfirmPushed
              \/ AnswerRequests

Next ==
  \/ \E c \in Callers : CallerStep(c)
  \/ PollStep \/ SideChannel \/ \E n \in Nodes : SwarmStore(n)
  \/ DumpStep \/ DumpFails \/ RowsFail
  \/ PushStep \/ PushFails
  \/ Restart

Spec == Init /\ [][Next]_vars

\* The runtime polls a task that can make progress, and an API thread that has
\* begun a call finishes it; nothing makes a caller start, a node answer or
\* the process restart.
Fairness ==
  /\ WF_vars(DumpStep) /\ WF_vars(PushStep)
  /\ \A c \in Callers : WF_vars(Notify(c) \/ AnswerUnneeded(c) \/ Request(c))

FairSpec == Spec /\ Fairness

-----------------------------------------------------------------------------
Pushes == [phase : {"idle", "taken", "confirm", "answer"},
           taken : SUBSET Callers, sent : SUBSET Updates, ok : BOOLEAN]

TaskTypeOK ==
  /\ cfg \in Configs
  /\ queued \subseteq Callers \cup {NoCallback}
  /\ notif \in 0..2
  /\ dumpLoop \in {"unstarted", "running", "saving", "ended"}
  /\ push \in Pushes
  /\ task \in {"running", "dead"}
  /\ poll \in [node : Nodes, from : 0..MaxMsg] \cup {NoPoll}

CallersTypeOK ==
  /\ pc \in [Callers -> {"start", "notify+request", "notify+answer", "request",
                         "answer", "waiting", "ok", "err", "gone"}]
  /\ edit \in [Callers -> LocalUpdates \cup {NoUpdate}]

StoreTypeOK ==
  /\ stored \in [Nodes -> 0..MaxMsg]
  /\ dbDump \in Snapshots
  /\ dbRows \subseteq Updates
  /\ lastHash \in [Nodes -> 0..MaxMsg]

HistoryTypeOK ==
  /\ pushed \subseteq Updates
  /\ interrupted \in BOOLEAN /\ unheard \in BOOLEAN
  /\ crashes \in 0..MaxCrashes /\ pushFailures \in 0..MaxPushFailures

TypeOK == TaskTypeOK /\ CallersTypeOK /\ StoreTypeOK /\ HistoryTypeOK

\* A caller of mutate_and_await_push is told Ok only when the update it made
\* has been pushed and confirmed, whichever request the push answered, also
\* when "no push needed: it is counted as a success" (sync_config.rs).
PushAckSound == \A c \in Callers : pc[c] = "ok" => edit[c] \in pushed

\* A config that needs no push holds nothing the swarm does not have: an edit
\* that slips in between push() and confirm_pushed() is not taken as pushed,
\* and a restart does not load one from the database as clean.
CleanIsShared ==
  /\ ~NeedsPush(cfg) => cfg.content \subseteq pushed \cup RemoteUpdates
  /\ ~NeedsPush(dbDump) => dbDump.content \subseteq pushed \cup RemoteUpdates

\* A config that needs a push never waits for one nobody will make: a request
\* is queued, or the push loop or an API thread is about to see to it.  The
\* dump loop's lock defers its own request to the end of the save.
PushIsRequested ==
  task = "running" /\ NeedsPush(cfg) =>
    \/ queued # {} \/ push.phase \in {"taken", "confirm"}
    \/ dumpLoop = "saving"
    \/ \E c \in Callers : pc[c] \in {"notify+request", "request"}

\* A caller that waits for its answer has its callback in the queue or with the
\* push loop, never in both: however the loops fail, no callback outlives the
\* task that is to answer it, and none is taken twice.
CallbackHeld ==
  \A c \in Callers : pc[c] = "waiting" =>
    task = "running" /\ (c \in queued <=> c \notin push.taken)

\* While the dump loop lives, a config with unsaved changes has a change
\* notification in the channel or on its way; the one exception is a change
\* made before the loop subscribed.
DumpIsNotified ==
  dumpLoop = "running" /\ cfg.needsDump /\ ~unheard =>
    \/ notif > 0
    \/ \E c \in Callers : pc[c] \in {"notify+request", "notify+answer"}

\* The needs_dump flag is the only record of unsaved changes: while the task
\* runs, a cleared flag means the database has the config as it is in memory.
\* The rows follow once the save is through and no save was ever cut short.
DumpFlagSound ==
  task = "running" /\ ~cfg.needsDump =>
    /\ dbDump = Snapshot
    /\ dumpLoop # "saving" /\ ~interrupted => dbRows = cfg.content

\* The per-node hash says where the next poll resumes, and the config itself is
\* saved at another time: as long as no stop found unsaved changes, no node is
\* asked to skip an update this device does not have.
ResumeIsCovered ==
  ~interrupted => \A n \in Nodes : UpTo(lastHash[n]) \subseteq cfg.content

\* Every call that edited the config is answered, or its process is gone.
CallersAnswered ==
  \A c \in Callers :
    pc[c] # "start" ~> pc[c] \in {"ok", "err", "gone"}

\* A config that needs a push gets it, unless its task ends first.
EventuallyPushed == NeedsPush(cfg) ~> ~NeedsPush(cfg) \/ task = "dead"

-----------------------------------------------------------------------------
(* The inductive invariant behind the promise.                             *)

Submitted == {edit[c] : c \in Callers} \ {NoUpdate}

\* Where a caller's own update is while the call is under way.
EditIsHeld ==
  \A c \in Callers :
    /\ pc[c] # "start" => edit[c] \in LocalUpdates
    /\ pc[c] = "start" => edit[c] = NoUpdate
    /\ pc[c] \in {"notify+request", "request", "waiting"}
         => edit[c] \in cfg.content
    /\ pc[c] \in {"notify+answer", "answer", "ok"} => edit[c] \in pushed

\* What the push loop holds: callbacks of waiting callers, and content that
\* covers their updates.  Nothing it will confirm is newer than what it sent.
PushIsSound ==
  /\ \A c \in (queued \cup push.taken) \ {NoCallback} : pc[c] = "waiting"
  /\ queued \cap push.taken = {}
  /\ push.phase = "confirm" =>
       /\ \A c \in push.taken : edit[c] \in push.sent
       /\ cfg.state = "Waiting" =>
            cfg.content \subseteq push.sent \cup RemoteUpdates
       /\ queued # {}
  /\ push.phase = "answer" /\ push.ok =>
       \A c \in push.taken : edit[c] \in pushed
  /\ push.phase = "idle" => push.taken = {}

ContentIsKnown ==
  cfg.content \cup dbDump.content \cup push.sent
    \subseteq Submitted \cup RemoteUpdates

AckInv == CleanIsShared /\ EditIsHeld /\ PushIsSound /\ ContentIsKnown

\* Behind ResumeIsCovered: the poll in flight asked from a covered position.
ResumeInv ==
  /\ ResumeIsCovered
  /\ poll # NoPoll /\ ~interrupted => UpTo(poll.from) \subseteq cfg.content

-----------------------------------------------------------------------------
(* The promise to the callers, implemented.                                *)

AnswerOf(p) ==
  CASE p = "start" -> "none"
    [] p \in {"ok", "err", "gone"} -> p
    [] OTHER -> "pending"

Contract == INSTANCE PushContract WITH
  answer <- [c \in Callers |-> AnswerOf(pc[c])], submitted <- edit

\* The loops, queue, locks and restarts together implement PushContract: only
\* submitted or remote updates are pushed, each caller gets one outcome, and
\* Ok only after its own update was pushed.
ImplementsContract == Contract!Spec

=============================================================================
