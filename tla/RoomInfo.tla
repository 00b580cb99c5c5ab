------------------------------- MODULE RoomInfo -------------------------------
(***************************************************************************)
(* What a community's task keeps up to date about its room                 *)
(* (worker/community/sync_community.rs, sync_community_info.rs), down to   *)
(* the clients that are shown it: the task is one of the writers of the    *)
(* reactive database, and its rows of app_settings are what the views of   *)
(* the conversations read a room's name and the user's own ids from.       *)
(*                                                                         *)
(* The task asks for the server's capabilities once, saves the ids it has  *)
(* there, and then asks for the room's details, over and over, with        *)
(* requests signed with such an id; the answer has the details only when   *)
(* they changed since the update the task names.                           *)
(***************************************************************************)
EXTENDS ReactiveQuery

CONSTANTS
  settings,    \* the table app_settings
  room,        \* the task, as a writer
  MaxUpdates,  \* bound: changes of the room's details
  MaxStarts    \* bound: starts of the task

ASSUME RoomConstantsOK ==
  /\ settings \in Tables /\ room \in Writers
  /\ MaxUpdates \in Nat /\ MaxStarts \in Nat

VARIABLES
  blinding,  \* the server has the capability "blind"
  updates,   \* info_updates of the room at the server
  step,      \* where the task is
  identity,  \* community_identity_type, "none" before the capabilities are known
  last,      \* last_room_update, 0 for none
  info,      \* the row community_room_info, its info_updates
  own,       \* the row community_pub_keys, the kind of ids in it
  starts

serverVars == <<blinding, updates>>
taskVars == <<step, identity, last, starts>>
roomVars == <<serverVars, taskVars, info, own>>
allVars == <<vars, roomVars>>

RoomInit ==
  /\ Init
  /\ blinding = FALSE /\ updates = 1
  /\ step = "down" /\ identity = "none" /\ last = 0 /\ starts = 0
  /\ info = 0 /\ own = "none"

-----------------------------------------------------------------------------
\* The server.

Update ==
  /\ updates < MaxUpdates /\ updates' = updates + 1
  /\ UNCHANGED <<vars, blinding, taskVars, info, own>>

\* It comes to want blinded ids.
Blind ==
  /\ ~blinding /\ blinding' = TRUE
  /\ UNCHANGED <<vars, updates, taskVars, info, own>>

\* The id that a request is signed with says who asks.
Accepted == blinding => identity = "blinded"

-----------------------------------------------------------------------------
\* The task.

Start ==
  /\ step = "down" /\ step' = "capabilities"
  /\ starts < MaxStarts /\ starts' = starts + 1
  /\ UNCHANGED <<vars, serverVars, identity, last, info, own>>

\* The room leaves the config, the application ends, another part of the task or the
\* reading of the row fails: the task is dropped where it waits, and nothing but the
\* rows is left of it.  A closure on a connection is not a place to wait.
Stop ==
  /\ step \in {"capabilities", "asking", "waiting"}
  /\ step' = "down" /\ identity' = "none" /\ last' = 0
  /\ UNCHANGED <<vars, serverVars, starts, info, own>>

\* Capabilities are asked for until they come, without an id.
Capabilities ==
  /\ step = "capabilities" /\ step' = "saving ids"
  /\ identity' = IF blinding THEN "blinded" ELSE "unblinded"
  /\ UNCHANGED <<vars, serverVars, last, starts, info, own>>

Saving == step \in {"saving ids", "saving info"}

SaveBegins ==
  /\ Saving /\ Begin(room) /\ at'[room] = "connection"
  /\ UNCHANGED roomVars

\* INSERT OR REPLACE
SaveWrites ==
  /\ Saving /\ changed[room] = {} /\ Statement(room, settings)
  /\ CASE step = "saving ids" -> own' = identity /\ UNCHANGED info
       [] step = "saving info" -> info' = last /\ UNCHANGED own
  /\ UNCHANGED <<writes, serverVars, taskVars>>

SaveEnds == Saving /\ changed[room] # {} /\ Finish(room) /\ UNCHANGED roomVars

\* After the ids, the room's row is read for the update to go on from.
SaveIsTold ==
  /\ Saving /\ Announce(room)
  /\ CASE step = "saving ids" -> step' = "asking" /\ last' = info
       [] step = "saving info" -> step' = "waiting" /\ UNCHANGED last
  /\ UNCHANGED <<serverVars, identity, starts, info, own>>

\* Without its ids saved the task fails; without the details it goes on.
SaveFails ==
  /\ Saving /\ changed[room] = {} /\ Fail(room)
  /\ CASE step = "saving ids" -> step' = "down" /\ identity' = "none"
       [] step = "saving info" -> step' = "waiting" /\ UNCHANGED identity
  /\ UNCHANGED <<serverVars, last, starts, info, own>>

\* The request names no update and is answered with all of the room, or it names one
\* and is answered with what came after it, if anything.
GetRoom == last = 0
PollRoomInfo == last # 0 /\ last # updates

\* Mutant: details are taken from GetRoom only.
FirstDetails == GetRoom

HasDetails == GetRoom \/ PollRoomInfo

\* The update is remembered before it is saved.
Answer ==
  /\ step = "asking" /\ Accepted
  /\ IF HasDetails THEN step' = "saving info" /\ last' = updates
                   ELSE step' = "waiting" /\ UNCHANGED last
  /\ UNCHANGED <<vars, serverVars, identity, starts, info, own>>

\* An error, and the server's refusal of the id, are only logged.
AskFails ==
  /\ step = "asking" /\ step' = "waiting"
  /\ UNCHANGED <<vars, serverVars, identity, last, starts, info, own>>

Poll ==
  /\ step = "waiting" /\ step' = "asking"
  /\ UNCHANGED <<vars, serverVars, identity, last, starts, info, own>>

-----------------------------------------------------------------------------
SaveStep == SaveBegins \/ SaveWrites \/ SaveEnds \/ SaveIsTold \/ SaveFails

RoomNext ==
  \/ Update \/ Blind \/ Start \/ Stop
  \/ Capabilities \/ SaveStep \/ Answer \/ AskFails \/ Poll
  \/ UNCHANGED roomVars /\ \E w \in Writers \ {room} : AnyWriter(w)
  \/ UNCHANGED roomVars /\ \E q \in Queries : AnyStream(q)

RoomSpec == RoomInit /\ [][RoomNext]_allVars

\* Closures end, the server polls a body while its client listens, time passes; and a
\* request that is made over and over and that the community's server would accept is
\* answered some time.
RoomFairness ==
  /\ \A w \in Writers \ {room} : WF_allVars(UNCHANGED roomVars /\ WriterStep(w))
  /\ \A q \in Queries :
       /\ WF_allVars(UNCHANGED roomVars
                       /\ (Subscribe(q) \/ FirstItem(q) \/ Skip(q) \/ Refetch(q) \/ Break(q)))
       /\ WF_allVars(UNCHANGED roomVars /\ (SendData(q) \/ SendEnd(q)))
       /\ WF_allVars(UNCHANGED roomVars /\ DebounceOver(q))
  /\ WF_allVars(Capabilities) /\ WF_allVars(SaveStep)
  /\ WF_allVars(Poll) /\ SF_allVars(Answer)

FairRoomSpec == RoomSpec /\ RoomFairness

-----------------------------------------------------------------------------
RoomTypeOK ==
  /\ TypeOK
  /\ blinding \in BOOLEAN /\ updates \in 1 .. MaxUpdates + 1
  /\ step \in {"down", "capabilities", "saving ids", "asking", "saving info", "waiting"}
  /\ identity \in {"none", "unblinded", "blinded"}
  /\ last \in Nat /\ starts \in 0 .. MaxStarts
  /\ info \in Nat /\ own \in {"none", "unblinded", "blinded"}

\* The rows of the user's own ids are what the views tell the user's messages by: no
\* request of a room is signed with an id that is not in them.
SignsAsSaved == step \in {"asking", "saving info", "waiting"} => own = identity

Shown(q) == shown[q] = Result(q) /\ info = updates

\* What keeps the details back: no task; ids of a kind the server stopped to accept
\* after the task asked for its capabilities; details that were not saved, which the
\* task takes for known until the room changes again or the task starts anew.
KeptBack == step = "down" \/ ~Accepted \/ (step \in {"asking", "waiting"} /\ last # info)

\* A change of a room comes to be shown to every client that goes on listening to a
\* list of conversations, past a task that polls, a row that is saved, a message to
\* the streams and a query run again, unless it is kept back or the stream breaks.
DetailsAreShown ==
  \A q \in Queries :
    (phase[q] = "open" /\ ~Shown(q))
      ~> (phase[q] # "open" \/ Shown(q) \/ blind[q] \/ KeptBack)
=============================================================================
