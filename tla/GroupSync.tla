------------------------------- MODULE GroupSync -------------------------------
(***************************************************************************)
(* One closed group of the account (worker/group/): the task that waits    *)
(* for the group's keys and then reads its other namespaces, the swarm it  *)
(* reads from, and the way of a side-channel message to it: account        *)
(* dispatcher (worker/sync_account.rs) -> loop over the groups             *)
(* (worker/sync_generic_groups.rs) -> the task's command handler -> the    *)
(* task's receiver for the namespace.                                      *)
(*                                                                         *)
(* A key message is its generation; the swarm has 1 .. keyCount of them.   *)
(* Any other message is its place in its namespace, and is encrypted with  *)
(* one generation.  A poll saves its hash in the step in which it merges   *)
(* (no await lies between); the dump of the keys is a step of its own.     *)
(***************************************************************************)
EXTENDS Naturals, Sequences, FiniteSets, SequencesExt

CONSTANTS
  Content,      \* namespaces read with the keys: info, members, messages
  Nodes,        \* of the group's swarm
  Capacity,     \* of the channel from the dispatcher to the loop; 16 in the code
  Pushable,     \* namespaces of the side-channel messages that come
  MaxKeys,      \* bound: key messages
  MaxPosts,     \* bound: other messages, in each namespace
  MaxPushes,    \* bound: side-channel messages
  MaxChanges,   \* bound: changes of the user's groups
  MaxRestarts,  \* bound: restarts of the process
  Nothing

Namespaces == Content \cup {"keys"}
Receivers == Namespaces \cup {"kicked"}

ASSUME ConstantsOK ==
  /\ "keys" \notin Content /\ "kicked" \notin Content
  /\ Pushable \subseteq Receivers
  /\ Capacity \in Nat \ {0}
  /\ {MaxKeys, MaxPosts, MaxPushes, MaxChanges, MaxRestarts} \subseteq Nat
  /\ Nothing \notin [ns : Receivers, at : Nat]

VARIABLES
  \* the swarm and the user's groups
  keyCount,  \* generations 1 .. keyCount have a key message on the swarm
  log,       \* for each message of a namespace, the generation it needs
  entry,     \* of the group in UserGroupsConfig
  \* the database
  hash,      \* swarm_message_sync_state: the last message read from each node
  dumped,    \* the generations in the dump of the keys
  saved,     \* messages that were decrypted and saved, or merged
  \* the loop over the groups and the task
  notified,  \* the loop's stream of config changes has an item
  phase,     \* "off" (no handle), "waiting" for the keys, "syncing", "ended"
  known,     \* the generations in GroupKeys
  dump,      \* the dump loop of the keys and its notification channel
  poller,    \* the poll loop of the keys: "idle", or the result it has to send
  pipe,      \* the same of its receiver of side-channel messages
  results,   \* mpsc(1): results of key polls
  \* side-channel messages
  pushes,    \* the one that the account's dispatcher holds; more wait before it
  commands,  \* mpsc(Capacity): to the loop over the groups
  sending,   \* the one the loop hands to the task
  queue,     \* mpsc(1): the task's commands
  hand,      \* the one the task's handler passes on
  chan,      \* mpsc(1) for each receiver
  \* history
  due,       \* 1 .. due are keys the task has to know before it reads the rest
  lost,      \* generations read and forgotten again, before they were dumped
  pushed, changes, restarts

outside == <<keyCount, log, entry>>
database == <<hash, dumped, saved>>
keys == <<known, dump, poller, pipe, results>>
messages == <<pushes, commands, sending, queue, hand, chan>>
counters == <<pushed, changes, restarts>>
vars == <<outside, database, notified, phase, keys, messages, due, lost, counters>>

Entries == {"absent", "invited", "member", "kicked"}

\* Groups the loop keeps a task for: neither kicked nor only invited.
Active == entry = "member"

\* A kick takes the admin key and the auth data out of the entry.
HasAuth == entry \in {"invited", "member"}
Found == entry # "absent"

\* GroupSwarmAuth::sign looks for the entry and for a key in it.
CanSign == Found /\ HasAuth

Alive == phase \in {"waiting", "syncing"}
Generations == 1 .. MaxKeys
Message == {m \in [ns : Receivers, at : Nat] : m.ns = "keys" => m.at \in Generations}
Empty == [r \in Receivers |-> <<>>]

Init ==
  /\ keyCount \in 0 .. MaxKeys /\ log = [c \in Content |-> <<>>] /\ entry \in Entries
  /\ hash = [ns \in Namespaces |-> [n \in Nodes |-> 0]]
  /\ dumped = {} /\ saved = [c \in Content |-> {}]
  /\ notified = TRUE /\ phase = "off"
  /\ known = {} /\ dump = "idle" /\ poller = "idle" /\ pipe = "idle" /\ results = <<>>
  /\ pushes = <<>> /\ commands = <<>> /\ sending = Nothing
  /\ queue = <<>> /\ hand = Nothing /\ chan = Empty
  /\ due = 0 /\ lost = {}
  /\ pushed = 0 /\ changes = 0 /\ restarts = 0

-----------------------------------------------------------------------------
\* The swarm: other members and admins of the group.

Rekey ==
  /\ keyCount < MaxKeys /\ keyCount' = keyCount + 1
  /\ UNCHANGED <<log, entry, database, notified, phase, keys, messages, due, lost, counters>>

Post(c) ==
  /\ keyCount > 0 /\ Len(log[c]) < MaxPosts
  /\ log' = [log EXCEPT ![c] = Append(@, keyCount)]
  /\ UNCHANGED <<keyCount, entry, database, notified, phase, keys, messages, due, lost, counters>>

Push(ns) ==
  /\ pushes = <<>> /\ pushed < MaxPushes /\ pushed' = pushed + 1
  /\ \E at \in CASE ns = "keys" -> 1 .. keyCount
                 [] ns = "kicked" -> {0}
                 [] OTHER -> DOMAIN log[ns] :
       pushes' = <<[ns |-> ns, at |-> at]>>
  /\ UNCHANGED <<outside, database, notified, phase, keys, commands, sending, queue,
                 hand, chan, due, lost, changes, restarts>>

-----------------------------------------------------------------------------
\* The task's start and end, with what it keeps in memory.

NoKeys == known' = {} /\ dump' = "idle" /\ poller' = "idle" /\ pipe' = "idle" /\ results' = <<>>
FreshChannels == queue' = <<>> /\ hand' = Nothing /\ chan' = Empty

\* Mutant: the dump is not read.
FreshKeysNoDump == NoKeys

\* What GroupKeys::new finds in the dump; the two configs it is given it only reads.
Loaded == dumped

\* The keys config is built from its dump; every channel of the task is new.
FreshKeys == known' = Loaded /\ dump' = "idle" /\ poller' = "idle" /\ pipe' = "idle" /\ results' = <<>>
\* history: keys read in this life of the task that no dump has.
Forget == due' = 0 /\ lost' = lost \cup (known \ dumped)

\* An edit or a merge of UserGroupsConfig; it notifies.
ChangeEntry ==
  /\ changes < MaxChanges /\ changes' = changes + 1
  /\ entry' \in Entries \ {entry} /\ notified' = TRUE
  /\ UNCHANGED <<keyCount, log, database, phase, keys, messages, due, lost, pushed, restarts>>

\* The loop's turn of the config: drop the handle, which aborts the task, start a
\* task, or leave the one there is (one that ended, too).
Look ==
  /\ notified /\ sending = Nothing /\ notified' = FALSE
  /\ CASE Active /\ phase = "off" -> phase' = "waiting" /\ FreshKeys /\ due' = keyCount /\ UNCHANGED lost
       [] ~Active /\ phase # "off" -> phase' = "off" /\ NoKeys /\ Forget
       [] OTHER -> UNCHANGED <<phase, keys, due, lost>>
  /\ IF Active THEN UNCHANGED <<queue, hand, chan>> ELSE FreshChannels
  /\ UNCHANGED <<outside, database, pushes, commands, sending, counters>>

\* The database fails, or anything else that ends one part of the task: try_join5
\* drops all of them, and the handle stays.
TaskFails ==
  /\ Alive /\ phase' = "ended" /\ NoKeys /\ FreshChannels /\ Forget
  /\ UNCHANGED <<outside, database, notified, pushes, commands, sending, counters>>

\* The account starts anew: its configs are read from their dumps, its channels
\* and those of its groups are empty.
Restart ==
  /\ restarts < MaxRestarts /\ restarts' = restarts + 1
  /\ phase' = "off" /\ notified' = TRUE
  /\ NoKeys /\ Forget
  /\ pushes' = <<>> /\ commands' = <<>> /\ sending' = Nothing /\ FreshChannels
  /\ UNCHANGED <<outside, database, pushed, changes>>

-----------------------------------------------------------------------------
\* Reading the keys: sync_config of GroupKeys.

\* GroupKeys::merge, and the notification if a message was loaded.  The channel
\* holds one notification: the dump loop finds a second one as a lag.
MergeKeys(gens) ==
  /\ known' = known \cup gens
  /\ dump' = CASE gens = {} \/ dump = "ended" -> dump [] dump = "idle" -> "due" [] OTHER -> "lagged"

KeyPoll(n) ==
  /\ Alive /\ poller = "idle" /\ CanSign
  /\ MergeKeys(hash["keys"][n] + 1 .. keyCount)
  /\ hash' = [hash EXCEPT !["keys"][n] = keyCount]
  /\ poller' = "ok" /\ due' = keyCount /\ lost' = lost \ known'
  /\ UNCHANGED <<outside, dumped, saved, notified, phase, pipe, results, messages, counters>>

\* No node, no answer, or nothing to sign with.
KeyPollFails ==
  /\ Alive /\ poller = "idle" /\ poller' = "failed"
  /\ UNCHANGED <<outside, database, notified, phase, known, dump, pipe, results,
                 messages, due, lost, counters>>

\* The loop sends the result, and then waits for the time of its next poll.
ReportPoll ==
  /\ Alive /\ poller # "idle" /\ results = <<>>
  /\ results' = <<poller>> /\ poller' = "idle"
  /\ UNCHANGED <<outside, database, notified, phase, known, dump, pipe, messages,
                 due, lost, counters>>

\* Keys from the side channel are merged and reported as a poll that went well.
MergePushedKeys ==
  /\ Alive /\ pipe = "idle" /\ chan["keys"] # <<>>
  /\ MergeKeys({Head(chan["keys"]).at})
  /\ chan' = [chan EXCEPT !["keys"] = <<>>]
  /\ pipe' = "ok" /\ lost' = lost \ known'
  /\ UNCHANGED <<outside, database, notified, phase, poller, results, pushes, commands,
                 sending, queue, hand, due, counters>>

ReportPush ==
  /\ Alive /\ pipe # "idle" /\ results = <<>>
  /\ results' = <<pipe>> /\ pipe' = "idle"
  /\ UNCHANGED <<outside, database, notified, phase, known, dump, poller, messages,
                 due, lost, counters>>

\* dump_config_if_needed.  A lag is an error of the receiver: the loop ends.
DumpKeys ==
  /\ Alive
  /\ \/ dump = "due" /\ dump' = "idle" /\ dumped' = known
     \/ dump = "lagged" /\ dump' = "ended" /\ UNCHANGED dumped
  /\ UNCHANGED <<outside, hash, saved, notified, phase, known, poller, pipe, results,
                 messages, due, lost, counters>>

\* What a first good result leads to: the task ends ("Group expired"), or it reads
\* everything else.
Decide ==
  \/ /\ known = {} /\ phase' = "ended" /\ NoKeys /\ FreshChannels
  \/ /\ known # {} /\ phase' = "syncing" /\ results' = <<>>
     /\ UNCHANGED <<known, dump, poller, pipe, queue, hand, chan>>

\* Mutant: an error is taken as the answer.
ReadResultAny ==
  /\ phase = "waiting" /\ results # <<>> /\ Decide
  /\ UNCHANGED <<outside, database, notified, pushes, commands, sending, due, lost, counters>>

\* Mutant: an error stays in the channel.
ReadResultKeeps ==
  /\ phase = "waiting" /\ results = <<"ok">> /\ Decide
  /\ UNCHANGED <<outside, database, notified, pushes, commands, sending, due, lost, counters>>

\* wait_for_group_keys: errors are dropped, the first success decides.  From then
\* on nothing reads the results.
ReadResult ==
  /\ phase = "waiting"
  /\ \/ /\ results = <<"failed">> /\ results' = <<>>
        /\ UNCHANGED <<phase, known, dump, poller, pipe, queue, hand, chan>>
     \/ results = <<"ok">> /\ Decide
  /\ UNCHANGED <<outside, database, notified, pushes, commands, sending, due, lost, counters>>

-----------------------------------------------------------------------------
\* Reading the rest: sync_config of info and members, sync_regular_messages.

Decrypts(c, i) == log[c][i] \in known
Readable(c, is) == {i \in is : Decrypts(c, i)}

\* create_db_message: one that cannot be decrypted is logged and left out.
Save(c, is) == saved' = [saved EXCEPT ![c] = @ \cup Readable(c, is)]

\* The hash goes past a message that was left out.
ContentPoll(c, n) ==
  /\ phase = "syncing" /\ CanSign
  /\ Save(c, hash[c][n] + 1 .. Len(log[c]))
  /\ hash' = [hash EXCEPT ![c][n] = Len(log[c])]
  /\ UNCHANGED <<outside, dumped, notified, phase, keys, messages, due, lost, counters>>

SavePushed(c) ==
  /\ phase = "syncing" /\ chan[c] # <<>>
  /\ chan' = [chan EXCEPT ![c] = <<>>]
  /\ Save(c, {Head(chan[c]).at})
  /\ UNCHANGED <<outside, hash, dumped, notified, phase, keys, pushes, commands, sending,
                 queue, hand, due, lost, counters>>

-----------------------------------------------------------------------------
\* The way of a side-channel message.

Dispatch ==
  /\ pushes # <<>> /\ Len(commands) < Capacity
  /\ commands' = commands \o pushes /\ pushes' = <<>>
  /\ UNCHANGED <<outside, database, notified, phase, keys, sending, queue, hand, chan,
                 due, lost, counters>>

Take ==
  /\ sending = Nothing /\ ~notified /\ commands # <<>>
  /\ sending' = Head(commands) /\ commands' = Tail(commands)
  /\ UNCHANGED <<outside, database, notified, phase, keys, pushes, queue, hand, chan,
                 due, lost, counters>>

\* Mutant: the channel of a task that ended stays open.
RefuseAbsent ==
  /\ sending # Nothing /\ phase = "off" /\ sending' = Nothing
  /\ UNCHANGED <<outside, database, notified, phase, keys, pushes, commands, queue, hand,
                 chan, due, lost, counters>>

\* No handle, or the receiver went with the task.
Refuse ==
  /\ sending # Nothing /\ ~Alive /\ sending' = Nothing
  /\ UNCHANGED <<outside, database, notified, phase, keys, pushes, commands, queue, hand,
                 chan, due, lost, counters>>

Hand ==
  /\ sending # Nothing /\ Alive /\ queue = <<>>
  /\ queue' = <<sending>> /\ sending' = Nothing
  /\ UNCHANGED <<outside, database, notified, phase, keys, pushes, commands, hand, chan,
                 due, lost, counters>>

\* handle_command runs once the keys are there.
Handle ==
  /\ phase = "syncing" /\ hand = Nothing /\ queue # <<>>
  /\ hand' = Head(queue) /\ queue' = <<>>
  /\ UNCHANGED <<outside, database, notified, phase, keys, pushes, commands, sending, chan,
                 due, lost, counters>>

\* The receiver for kicked messages exists, and nothing reads it.
Deliver ==
  /\ phase = "syncing" /\ hand # Nothing /\ chan[hand.ns] = <<>>
  /\ chan' = [chan EXCEPT ![hand.ns] = <<hand>>] /\ hand' = Nothing
  /\ UNCHANGED <<outside, database, notified, phase, keys, pushes, commands, sending, queue,
                 due, lost, counters>>

-----------------------------------------------------------------------------
Next ==
  \/ Rekey \/ ChangeEntry \/ Look \/ TaskFails \/ Restart
  \/ \E c \in Content : Post(c) \/ SavePushed(c)
  \/ \E ns \in Pushable : Push(ns)
  \/ \E n \in Nodes : KeyPoll(n)
  \/ \E c \in Content, n \in Nodes : ContentPoll(c, n)
  \/ KeyPollFails \/ ReportPoll \/ MergePushedKeys \/ ReportPush \/ DumpKeys \/ ReadResult
  \/ Dispatch \/ Take \/ Refuse \/ Hand \/ Handle \/ Deliver

Spec == Init /\ [][Next]_vars

\* The tasks run, and a poll that is tried again and again is answered at last.
Fairness ==
  /\ WF_vars(Look) /\ WF_vars(ReportPoll) /\ WF_vars(ReadResult) /\ WF_vars(DumpKeys)
  /\ SF_vars(\E n \in Nodes : KeyPoll(n))
  /\ WF_vars(MergePushedKeys) /\ SF_vars(ReportPush)
  /\ \A c \in Content : WF_vars(SavePushed(c))
  /\ WF_vars(Dispatch) /\ WF_vars(Take) /\ WF_vars(Refuse) /\ WF_vars(Hand)
  /\ WF_vars(Handle) /\ WF_vars(Deliver)

FairSpec == Spec /\ Fairness

-----------------------------------------------------------------------------
Results == {<<>>, <<"ok">>, <<"failed">>}
AtMostOne(S) == {s \in Seq(S) : Len(s) <= 1}

TypeOK ==
  /\ keyCount \in 0 .. MaxKeys /\ entry \in Entries /\ notified \in BOOLEAN
  /\ log \in [Content -> Seq(Generations)]
  /\ hash \in [Namespaces -> [Nodes -> Nat]]
  /\ dumped \subseteq Generations /\ known \subseteq Generations /\ lost \subseteq Generations
  /\ saved \in [Content -> SUBSET Nat]
  /\ phase \in {"off", "waiting", "syncing", "ended"}
  /\ dump \in {"idle", "due", "lagged", "ended"}
  /\ poller \in {"idle", "ok", "failed"} /\ pipe \in {"idle", "ok"} /\ results \in Results
  /\ pushes \in AtMostOne(Message) /\ commands \in Seq(Message)
  /\ sending \in Message \cup {Nothing} /\ hand \in Message \cup {Nothing}
  /\ queue \in AtMostOne(Message) /\ chan \in [Receivers -> AtMostOne(Message)]
  /\ \A m \in Range(chan["keys"]) : m.ns = "keys"
  /\ due \in 0 .. MaxKeys
  /\ pushed \in 0 .. MaxPushes /\ changes \in 0 .. MaxChanges /\ restarts \in 0 .. MaxRestarts

\* A key message that the hash of a node has gone past is known to the task or,
\* while there is none, in the dump it will start from -- but for keys that were
\* read and forgotten again: the hash is saved with the poll, the dump follows in
\* a step of its own (and not at all after a lag), and a task that is aborted, or
\* a process that ends, in between never asks that node for them again.
KeysCovered ==
  \A n \in Nodes :
    1 .. hash["keys"][n] \subseteq lost \cup IF Alive THEN known ELSE dumped

\* The hash of a namespace never goes past a message that the task had to be able
\* to read: one encrypted with a generation that was on the swarm when the task
\* started or when it last polled the keys.  Out of it are keys lost as above.
PassedAreSaved ==
  [][\A c \in Content, n \in Nodes :
       \A i \in hash[c][n] + 1 .. hash'[c][n] :
         i \in saved'[c] \/ log[c][i] > due \/ log[c][i] \in lost]_vars

\* What is stuck for good: a command for a task that still waits for keys it can
\* no longer ask for, since its entry is gone or kicked and the loop, which
\* waits with the next command, does not see that; a second kicked message; keys
\* behind the results nobody reads.
HandlerStuck ==
  \/ phase = "waiting" /\ ~CanSign
  \/ /\ phase = "syncing" /\ hand # Nothing
     /\ \/ hand.ns = "kicked" /\ chan["kicked"] # <<>>
        \/ hand.ns = "keys" /\ chan["keys"] # <<>> /\ pipe # "idle" /\ results # <<>>

LoopStuck == sending # Nothing /\ queue # <<>> /\ HandlerStuck

\* Failed polls do not use up the channel for results: a task that waits for its
\* keys goes on or ends, or is stopped, once a poll is answered.
WaitEnds == phase = "waiting" ~> (phase # "waiting" \/ LoopStuck)

\* The dispatcher of the account gets rid of the message it holds, and with it the
\* receivers of all namespaces, unless the loop over the groups is stuck for ever.
DispatcherFlows == pushes # <<>> ~> (Len(commands) < Capacity \/ LoopStuck)
=============================================================================
