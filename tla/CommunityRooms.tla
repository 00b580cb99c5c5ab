---------------------------- MODULE CommunityRooms ----------------------------
(***************************************************************************)
(* One task per community room in the user's config, and the way of a      *)
(* command to it: API call -> account channel -> loop over the rooms       *)
(* (worker/sync_generic_groups.rs) -> the room's task                      *)
(* (worker/community/sync_community.rs) -> an RPC of its own or the        *)
(* room's message download.  Every hand-over is a bounded channel with     *)
(* an awaiting sender; a callback dropped on the way is an error for its   *)
(* caller.                                                                 *)
(*                                                                         *)
(* A command names its caller; the executor an RPC is given to (Batcher's) *)
(* answers or fails it in the end.                                         *)
(***************************************************************************)
EXTENDS Naturals, Sequences, FiniteSets, SequencesExt

CONSTANTS
  Rooms,
  Callers,           \* API calls, each made at most once
  Target,            \* the room each call names
  Loads,             \* the calls for earlier messages; the others are RPCs
  Capacity,          \* of the account's channel; 100 in the code
  DownloadCapacity,  \* of a room's download channel; 5 in the code
  MaxChanges,        \* bound: changes of the config
  NoCaller, NoTask

ASSUME ConstantsOK ==
  /\ Target \in [Callers -> Rooms] /\ Loads \subseteq Callers
  /\ Capacity \in Nat \ {0} /\ DownloadCapacity \in Nat \ {0} /\ MaxChanges \in Nat
  /\ NoCaller \notin Callers

VARIABLES
  rooms,     \* UserGroupsConfig: the communities in it
  notified,  \* the loop's stream of config changes has an item
  commands,  \* mpsc: calls to the loop over the rooms
  sending,   \* the command that the loop hands to a room's task
  tasks,     \* HashMap of handles, with the state of the task behind each
  pc,        \* where each API call is
  changes

vars == <<rooms, notified, commands, sending, tasks, pc, changes>>

RPCs == Callers \ Loads
InFlight == {"sending", "waiting"}

\* sync_community: its command channel, the RPCs in its join set, the load it
\* is sending to the download, and what the download has received.
Fresh ==
  [phase |-> "starting", queue |-> <<>>, rpcs |-> {}, held |-> NoCaller,
   downloads |-> <<>>, loaded |-> FALSE]

Handles == {r \in Rooms : tasks[r] # NoTask}
Serving == {r \in Handles : tasks[r].phase = "serving"}

CallbacksOf(t) == ToSet(t.queue) \cup t.rpcs \cup {t.held} \cup ToSet(t.downloads)

\* The calls cs end: their callbacks got an answer, or were dropped.
End(cs) == [c \in Callers |-> IF c \in cs THEN "ended" ELSE pc[c]]

Init ==
  /\ rooms \in SUBSET Rooms /\ notified = TRUE
  /\ commands = <<>> /\ sending = NoCaller
  /\ tasks = [r \in Rooms |-> NoTask]
  /\ pc = [c \in Callers |-> "idle"]
  /\ changes = 0

-----------------------------------------------------------------------------
\* The API calls: CommunityRPCExecutor and GetConversationMessagesService.

Call(c) ==
  /\ pc[c] = "idle"
  /\ pc' = [pc EXCEPT ![c] = "sending"]
  /\ UNCHANGED <<rooms, notified, commands, sending, tasks, changes>>

Send(c) ==
  /\ pc[c] = "sending" /\ Len(commands) < Capacity
  /\ commands' = Append(commands, c)
  /\ pc' = [pc EXCEPT ![c] = "waiting"]
  /\ UNCHANGED <<rooms, notified, sending, tasks, changes>>

\* Five seconds are up: only for the answer to a load, and not for sending it.
TimeOut(c) ==
  /\ c \in Loads /\ pc[c] = "waiting"
  /\ pc' = End({c})
  /\ UNCHANGED <<rooms, notified, commands, sending, tasks, changes>>

Abandon(c) ==
  /\ pc[c] \in InFlight
  /\ pc' = End({c})
  /\ UNCHANGED <<rooms, notified, commands, sending, tasks, changes>>

-----------------------------------------------------------------------------
\* The config: a merge changes it and notifies before the loop runs again.

Change(new) ==
  /\ changes < MaxChanges /\ changes' = changes + 1
  /\ rooms' = new /\ notified' = TRUE
  /\ UNCHANGED <<commands, sending, tasks, pc>>

Join == \E r \in Rooms \ rooms : Change(rooms \cup {r})
Leave == \E r \in rooms : Change(rooms \ {r})

-----------------------------------------------------------------------------
\* The loop over the rooms.  It looks at the config first.

\* Mutant: a change starts every room's task again.
LookRestarts ==
  /\ sending = NoCaller /\ notified /\ notified' = FALSE
  /\ tasks' = [r \in Rooms |-> IF r \in rooms THEN Fresh ELSE NoTask]
  /\ pc' = End(UNION {CallbacksOf(tasks[r]) : r \in Handles})
  /\ UNCHANGED <<rooms, commands, sending, changes>>

\* Handles of rooms that left are dropped, and their tasks aborted; new rooms
\* get a task; a task that ended keeps its handle.
Look ==
  /\ sending = NoCaller /\ notified /\ notified' = FALSE
  /\ tasks' = [r \in Rooms |-> IF r \notin rooms THEN NoTask
                               ELSE IF r \in Handles THEN tasks[r] ELSE Fresh]
  /\ pc' = End(UNION {CallbacksOf(tasks[r]) : r \in Handles \ rooms})
  /\ UNCHANGED <<rooms, commands, sending, changes>>

Take ==
  /\ sending = NoCaller /\ ~notified /\ commands # <<>>
  /\ sending' = Head(commands) /\ commands' = Tail(commands)
  /\ UNCHANGED <<rooms, notified, tasks, pc, changes>>

\* Mutant: the channel of a task that ended stays open.
RefuseAbsent ==
  /\ sending # NoCaller /\ Target[sending] \notin Handles
  /\ sending' = NoCaller /\ pc' = End({sending})
  /\ UNCHANGED <<rooms, notified, commands, tasks, changes>>

\* A room without a handle, or whose task ended and dropped its receiver.
Refuse ==
  /\ sending # NoCaller
  /\ Target[sending] \notin {r \in Handles : tasks[r].phase # "ended"}
  /\ sending' = NoCaller /\ pc' = End({sending})
  /\ UNCHANGED <<rooms, notified, commands, tasks, changes>>

\* The channel to a task holds one command, and the loop waits for a place.
Hand ==
  /\ sending # NoCaller
  /\ LET r == Target[sending]
     IN  /\ r \in Handles /\ tasks[r].phase # "ended" /\ tasks[r].queue = <<>>
         /\ tasks' = [tasks EXCEPT ![r].queue = <<sending>>]
  /\ sending' = NoCaller
  /\ UNCHANGED <<rooms, notified, commands, pc, changes>>

-----------------------------------------------------------------------------
\* The task of room r.

\* The server has told its capabilities; asked for until it does.
CapsArrive(r) ==
  /\ r \in Handles /\ tasks[r].phase = "starting"
  /\ tasks' = [tasks EXCEPT ![r].phase = "serving"]
  /\ UNCHANGED <<rooms, notified, commands, sending, pc, changes>>

\* The newest messages are there, or were stored before; asked for likewise.
InitialLoaded(r) ==
  /\ r \in Serving /\ ~tasks[r].loaded
  /\ tasks' = [tasks EXCEPT ![r].loaded = TRUE]
  /\ UNCHANGED <<rooms, notified, commands, sending, pc, changes>>

\* Its keys or its first messages could not be saved.
TaskEnds(r) ==
  /\ r \in Handles
  /\ tasks[r].phase # "ended" /\ ~tasks[r].loaded
  /\ tasks' = [tasks EXCEPT ![r] = [Fresh EXCEPT !.phase = "ended"]]
  /\ pc' = End(CallbacksOf(tasks[r]))
  /\ UNCHANGED <<rooms, notified, commands, sending, changes>>

\* Mutant: a load stays in the channel until the download has it.
ServePeeks(r) ==
  /\ r \in Serving /\ tasks[r].held = NoCaller /\ tasks[r].queue # <<>>
  /\ LET c == Head(tasks[r].queue)
     IN  tasks' = [tasks EXCEPT ![r] =
                     IF c \in Loads THEN [tasks[r] EXCEPT !.held = c]
                     ELSE [tasks[r] EXCEPT !.queue = <<>>, !.rpcs = @ \cup {c}]]
  /\ UNCHANGED <<rooms, notified, commands, sending, pc, changes>>

\* serve_command: an RPC joins the set, a load is sent on.
Serve(r) ==
  /\ r \in Serving /\ tasks[r].held = NoCaller /\ tasks[r].queue # <<>>
  /\ LET c == Head(tasks[r].queue)
         idle == [tasks[r] EXCEPT !.queue = <<>>]
     IN  tasks' = [tasks EXCEPT ![r] = IF c \in Loads THEN [idle EXCEPT !.held = c]
                                       ELSE [idle EXCEPT !.rpcs = @ \cup {c}]]
  /\ UNCHANGED <<rooms, notified, commands, sending, pc, changes>>

Forward(r) ==
  /\ r \in Serving /\ tasks[r].held # NoCaller
  /\ Len(tasks[r].downloads) < DownloadCapacity
  /\ tasks' = [tasks EXCEPT ![r].downloads = Append(@, tasks[r].held), ![r].held = NoCaller]
  /\ UNCHANGED <<rooms, notified, commands, sending, pc, changes>>

\* The RPCs are polled only while the task waits for a command, not while it
\* waits to send a load on.
RPCDone(r) ==
  /\ r \in Serving /\ tasks[r].held = NoCaller
  /\ \E c \in tasks[r].rpcs :
       /\ tasks' = [tasks EXCEPT ![r].rpcs = @ \ {c}]
       /\ pc' = End({c})
  /\ UNCHANGED <<rooms, notified, commands, sending, changes>>

\* download_community_messages: once it has its first messages.
LoadEarlier(r) ==
  /\ r \in Serving /\ tasks[r].loaded /\ tasks[r].downloads # <<>>
  /\ pc' = End({Head(tasks[r].downloads)})
  /\ tasks' = [tasks EXCEPT ![r].downloads = Tail(@)]
  /\ UNCHANGED <<rooms, notified, commands, sending, changes>>

-----------------------------------------------------------------------------
Loop == Look \/ Take \/ Refuse \/ Hand

RoomStep(r) ==
  CapsArrive(r) \/ InitialLoaded(r) \/ TaskEnds(r) \/ Serve(r) \/ Forward(r)
  \/ RPCDone(r) \/ LoadEarlier(r)

Next ==
  \/ \E c \in Callers : Call(c) \/ Send(c) \/ TimeOut(c) \/ Abandon(c)
  \/ Join \/ Leave \/ Loop
  \/ \E r \in Rooms : RoomStep(r)

Spec == Init /\ [][Next]_vars

\* Tasks are scheduled, channels served in turn, and a request over the
\* network ends.  A server owes no answer: CapsArrive and InitialLoaded are
\* not fair.
Fairness ==
  /\ WF_vars(Look) /\ WF_vars(Take) /\ WF_vars(Refuse) /\ WF_vars(Hand)
  /\ \A c \in Callers : WF_vars(Send(c)) /\ WF_vars(TimeOut(c))
  /\ \A r \in Rooms :
       WF_vars(Serve(r)) /\ WF_vars(Forward(r)) /\ WF_vars(RPCDone(r)) /\ WF_vars(LoadEarlier(r))

FairSpec == Spec /\ Fairness

-----------------------------------------------------------------------------
Tasks ==
  [phase : {"starting", "serving", "ended"}, queue : Seq(Callers), rpcs : SUBSET RPCs,
   held : Loads \cup {NoCaller}, downloads : Seq(Loads), loaded : BOOLEAN]

ASSUME NoTaskOK == NoTask \notin Tasks

TypeOK ==
  /\ rooms \subseteq Rooms /\ notified \in BOOLEAN
  /\ commands \in Seq(Callers) /\ Len(commands) <= Capacity
  /\ sending \in Callers \cup {NoCaller}
  /\ \A r \in Handles :
       /\ tasks[r] \in Tasks
       /\ Len(tasks[r].queue) <= 1 /\ Len(tasks[r].downloads) <= DownloadCapacity
  /\ pc \in [Callers -> {"idle", "ended"} \cup InFlight]
  /\ changes \in 0..MaxChanges

\* The places of call c's command in a task, and in all: the account's channel,
\* the loop's hands, the tasks.
PlacesIn(t, c) ==
  {<<"queue", i>> : i \in {k \in DOMAIN t.queue : t.queue[k] = c}} \cup
  {<<"rpc", k>> : k \in t.rpcs \cap {c}} \cup {<<"held", k>> : k \in {t.held} \cap {c}} \cup
  {<<"download", i>> : i \in {k \in DOMAIN t.downloads : t.downloads[k] = c}}

Places(c) ==
  {<<"channel", i>> : i \in {k \in DOMAIN commands : commands[k] = c}} \cup
  {<<"loop", k>> : k \in {sending} \cap {c}} \cup
  UNION {{<<"room", r, p>> : p \in PlacesIn(tasks[r], c)} : r \in Handles}

\* A call that waits has its command in one place, and no room's task but its
\* own has it: on the way through four channels, and while rooms leave, their
\* tasks end and other callers go away, it is not lost with its caller left
\* waiting, nor served twice.
CommandKept ==
  \A c \in Callers : pc[c] = "waiting" =>
    /\ Cardinality(Places(c)) = 1
    /\ \A r \in Handles \ {Target[c]} : PlacesIn(tasks[r], c) = {}

\* A change of the config disturbs nobody who waits for a room that stays.
StayingRoomsUndisturbed ==
  [][\A c \in Callers :
       notified /\ ~notified' /\ pc[c] = "waiting" /\ Target[c] \in rooms => pc'[c] = "waiting"]_vars

\* No room's task waits for its server to answer the first time.
AllUp == \A r \in Handles : tasks[r].phase = "ended" \/ tasks[r].loaded

\* If no server stays silent for ever, every call ends, and the tasks follow
\* the config: no chain of full channels holds anybody up.
ServedUnlessDown ==
  []<>AllUp =>
    /\ \A c \in Callers : pc[c] \in InFlight ~> pc[c] = "ended"
    /\ \A r \in Rooms : r \notin rooms ~> r \in rooms \/ r \notin Handles

=============================================================================
