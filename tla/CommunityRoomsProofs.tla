-------------------------- MODULE CommunityRoomsProofs --------------------------
(***************************************************************************)
(* What holds of the rooms' tasks and of the calls they hold, for any      *)
(* rooms, calls and sizes of the channels.                                 *)
(*                                                                         *)
(* IInv is about the tasks, OnceInv about the commands on their way to     *)
(* them: each is in one place, and its caller waits or went away.          *)
(***************************************************************************)
EXTENDS CommunityRooms, FiniteSetTheorems, SequenceTheorems, TLAPS

\* A loop with no change to look at follows the config, also while it waits to hand
\* a command over.
Follows == ~notified => Handles = rooms

\* A call is only ever in the hands of the task of the room it names.
Delivered == \A r \in Handles : \A c \in CallbacksOf(tasks[r]) \ {NoCaller} : Target[c] = r

IInv == TypeOK /\ tasks \in [Rooms -> Tasks \cup {NoTask}] /\ Follows /\ Delivered

-----------------------------------------------------------------------------
LEMMA FreshTyped == Fresh \in Tasks /\ CallbacksOf(Fresh) = {NoCaller}
<1>1. Fresh \in Tasks
  BY DEF Fresh, Tasks, RPCs
<1>2. ToSet(<<>>) = {}
  BY DEF ToSet
<1>3. Fresh.queue = <<>> /\ Fresh.rpcs = {} /\ Fresh.held = NoCaller /\ Fresh.downloads = <<>>
  BY DEF Fresh
<1> QED
  BY <1>1, <1>2, <1>3 DEF CallbacksOf

LEMMA EndTyped ==
  ASSUME TypeOK, NEW cs
  PROVE  End(cs) \in [Callers -> {"idle", "ended"} \cup InFlight]
BY DEF End, TypeOK

LEMMA InitIInv == Init => IInv
<1> SUFFICES ASSUME Init PROVE IInv
  OBVIOUS
<1>1. Handles = {}
  BY DEF Init, Handles
<1>2. TypeOK
  BY <1>1, ConstantsOK DEF Init, TypeOK, InFlight
<1> QED
  BY <1>1, <1>2 DEF Init, IInv, Follows, Delivered

\* A step of one task: what it becomes has its type and holds no new calls.
LEMMA OneTask ==
  ASSUME IInv, NEW r \in Handles, NEW t \in Tasks,
         tasks' = [tasks EXCEPT ![r] = t],
         Len(t.queue) <= 1, Len(t.downloads) <= DownloadCapacity,
         \A c \in CallbacksOf(t) \ {NoCaller} : Target[c] = r,
         UNCHANGED <<rooms, notified, commands, changes>>,
         sending' \in Callers \cup {NoCaller},
         pc' \in [Callers -> {"idle", "ended"} \cup InFlight]
  PROVE  IInv'
<1>0. r \in Rooms /\ t # NoTask
  BY NoTaskOK DEF Handles
<1>1. tasks' \in [Rooms -> Tasks \cup {NoTask}]
  BY <1>0 DEF IInv
<1>2. /\ tasks'[r] = t
      /\ \A s \in Rooms \ {r} : tasks'[s] = tasks[s]
  BY <1>0 DEF IInv
<1>3. Handles' = Handles
  BY <1>0, <1>2 DEF Handles
<1>4. TypeOK'
  BY <1>2, <1>3 DEF IInv, TypeOK, Handles
<1>5. Follows'
  BY <1>3 DEF IInv, Follows
<1>6. Delivered'
  <2>1. ASSUME NEW s \in Handles, NEW c \in CallbacksOf(tasks'[s]) \ {NoCaller} PROVE Target[c] = s
    BY <1>2, <2>1 DEF IInv, Delivered, Handles
  <2>2. \A s \in Handles : CallbacksOf(tasks[s])' = CallbacksOf(tasks'[s])
    BY DEF CallbacksOf
  <2> QED
    BY <1>3, <2>1, <2>2 DEF Delivered
<1> QED
  BY <1>1, <1>4, <1>5, <1>6 DEF IInv

\* A task that is there, its parts and the calls it holds.
LEMMA TaskOf ==
  ASSUME IInv, NEW r \in Handles
  PROVE  /\ r \in Rooms /\ tasks[r] \in Tasks
         /\ Len(tasks[r].queue) <= 1 /\ Len(tasks[r].downloads) <= DownloadCapacity
         /\ \A c \in CallbacksOf(tasks[r]) \ {NoCaller} : Target[c] = r
         /\ \A c \in CallbacksOf(tasks[r]) \ {NoCaller} : c \in Callers
<1>1. r \in Rooms /\ tasks[r] \in Tasks
  BY DEF IInv, TypeOK, Handles
<1>2. \A c \in CallbacksOf(tasks[r]) \ {NoCaller} : c \in Callers
  <2>1. ToSet(tasks[r].queue) \subseteq Callers /\ ToSet(tasks[r].downloads) \subseteq Loads
    BY <1>1 DEF Tasks, ToSet
  <2> QED
    BY <1>1, <2>1, ConstantsOK DEF CallbacksOf, Tasks, RPCs
<1> QED
  BY <1>1, <1>2 DEF IInv, TypeOK, Delivered

LEMMA HandStep == IInv /\ Hand => IInv'
<1> SUFFICES ASSUME IInv, Hand PROVE IInv'
  OBVIOUS
<1> DEFINE r == Target[sending]
           t == [tasks[r] EXCEPT !.queue = <<sending>>]
<1>1. /\ sending # NoCaller /\ r \in Handles /\ tasks[r].queue = <<>>
      /\ tasks' = [tasks EXCEPT ![r].queue = <<sending>>] /\ sending' = NoCaller
      /\ UNCHANGED <<rooms, notified, commands, pc, changes>>
  BY DEF Hand
<1>2. sending \in Callers
  BY <1>1 DEF IInv, TypeOK
<1>3. /\ r \in Rooms /\ tasks[r] \in Tasks /\ Len(tasks[r].downloads) <= DownloadCapacity
      /\ \A c \in CallbacksOf(tasks[r]) \ {NoCaller} : Target[c] = r
  BY <1>1, TaskOf
<1>4. tasks' = [tasks EXCEPT ![r] = t]
  BY <1>1, <1>3 DEF IInv
<1>5. t \in Tasks /\ Len(t.queue) <= 1 /\ t.downloads = tasks[r].downloads
  <2>1. <<sending>> \in Seq(Callers) /\ Len(<<sending>>) = 1
    BY <1>2
  <2>2. t \in Tasks /\ t.queue = <<sending>> /\ t.downloads = tasks[r].downloads
    <3> DEFINE q == <<sending>>
    <3> HIDE DEF q, r
    <3>1. [tasks[r] EXCEPT !.queue = q] \in Tasks
      BY <1>3, <2>1 DEF Tasks, q
    <3> QED
      BY <1>3, <3>1 DEF Tasks, q
  <2> QED
    BY <2>1, <2>2
<1>6. CallbacksOf(t) \subseteq CallbacksOf(tasks[r]) \cup {sending}
  <2>1. ToSet(<<sending>>) = {sending}
    BY DEF ToSet
  <2>2. /\ t.queue = <<sending>> /\ t.rpcs = tasks[r].rpcs /\ t.held = tasks[r].held
        /\ t.downloads = tasks[r].downloads
    BY <1>3 DEF Tasks
  <2> QED
    BY <2>1, <2>2 DEF CallbacksOf
<1>7. \A c \in CallbacksOf(t) \ {NoCaller} : Target[c] = r
  BY <1>3, <1>6
<1>8. pc' \in [Callers -> {"idle", "ended"} \cup InFlight]
  BY <1>1 DEF IInv, TypeOK
<1>9. r \in Handles /\ Len(t.downloads) <= DownloadCapacity /\ sending' \in Callers \cup {NoCaller}
  BY <1>1, <1>3, <1>5
<1> HIDE DEF r, t
<1> QED
  BY <1>1, <1>4, <1>5, <1>7, <1>8, <1>9, OneTask

\* The steps of room r's task.
LEMMA ServeStep == ASSUME NEW r \in Rooms, IInv, Serve(r) PROVE IInv'
<1> DEFINE c == Head(tasks[r].queue)
           idle == [tasks[r] EXCEPT !.queue = <<>>]
           t == IF c \in Loads THEN [idle EXCEPT !.held = c] ELSE [idle EXCEPT !.rpcs = @ \cup {c}]
<1>1. /\ r \in Handles /\ tasks[r].queue # <<>> /\ tasks' = [tasks EXCEPT ![r] = t]
      /\ UNCHANGED <<rooms, notified, commands, sending, pc, changes>>
  BY DEF Serve, Serving
<1>2. /\ tasks[r] \in Tasks /\ Len(tasks[r].downloads) <= DownloadCapacity
      /\ \A k \in CallbacksOf(tasks[r]) \ {NoCaller} : Target[k] = r
  BY <1>1, TaskOf
<1>3. tasks[r].queue \in Seq(Callers)
  BY <1>2 DEF Tasks
<1>4. c \in Callers /\ c \in ToSet(tasks[r].queue)
  <2>1. c = tasks[r].queue[1] /\ 1 \in DOMAIN tasks[r].queue
    BY <1>1, <1>3
  <2> QED
    BY <1>3, <2>1 DEF ToSet
<1>5. /\ t \in Tasks /\ t.queue = <<>> /\ t.downloads = tasks[r].downloads
      /\ t.rpcs \subseteq tasks[r].rpcs \cup {c} /\ t.held \in {tasks[r].held, c}
  <2>1. idle \in Tasks /\ idle.queue = <<>> /\ idle.downloads = tasks[r].downloads
        /\ idle.rpcs = tasks[r].rpcs /\ idle.held = tasks[r].held
    <3>1. <<>> \in Seq(Callers)
      OBVIOUS
    <3> QED
      BY <1>2, <3>1 DEF Tasks
  <2> HIDE DEF idle, c
  <2>2. CASE c \in Loads
    BY <2>1, <2>2 DEF Tasks
  <2>3. CASE c \notin Loads
    BY <1>4, <2>1, <2>3 DEF Tasks, RPCs
  <2> QED
    BY <2>2, <2>3
<1>6. \A k \in CallbacksOf(t) \ {NoCaller} : Target[k] = r
  <2>1. ToSet(<<>>) = {}
    BY DEF ToSet
  <2>2. CallbacksOf(t) \subseteq CallbacksOf(tasks[r])
    <3> HIDE DEF c, t
    <3> QED
      BY <1>4, <1>5, <2>1 DEF CallbacksOf
  <2> QED
    BY <1>2, <2>2
<1>7. /\ sending' \in Callers \cup {NoCaller} /\ Len(t.queue) <= 1
      /\ pc' \in [Callers -> {"idle", "ended"} \cup InFlight]
  BY <1>1, <1>5 DEF IInv, TypeOK
<1> HIDE DEF t, c, idle
<1> QED
  BY <1>1, <1>2, <1>5, <1>6, <1>7, OneTask

LEMMA ForwardStep == ASSUME NEW r \in Rooms, IInv, Forward(r) PROVE IInv'
<1> DEFINE d == Append(tasks[r].downloads, tasks[r].held)
           t == [tasks[r] EXCEPT !.downloads = d, !.held = NoCaller]
<1>1. /\ r \in Handles /\ tasks[r].held # NoCaller /\ Len(tasks[r].downloads) < DownloadCapacity
      /\ tasks' = [tasks EXCEPT ![r].downloads = d, ![r].held = NoCaller]
      /\ UNCHANGED <<rooms, notified, commands, sending, pc, changes>>
  BY DEF Forward, Serving
<1>2. /\ tasks[r] \in Tasks /\ Len(tasks[r].queue) <= 1
      /\ \A k \in CallbacksOf(tasks[r]) \ {NoCaller} : Target[k] = r
  BY <1>1, TaskOf
<1>3. tasks[r].downloads \in Seq(Loads) /\ tasks[r].held \in Loads
  BY <1>1, <1>2 DEF Tasks
<1>4. d \in Seq(Loads) /\ Len(d) <= DownloadCapacity
      /\ ToSet(d) \subseteq ToSet(tasks[r].downloads) \cup {tasks[r].held}
  <2>1. d \in Seq(Loads) /\ Len(d) = Len(tasks[r].downloads) + 1
    BY <1>3
  <2>2. \A i \in 1 .. Len(d) : d[i] = IF i = Len(d) THEN tasks[r].held ELSE tasks[r].downloads[i]
    BY <1>3
  <2>3. ToSet(d) \subseteq ToSet(tasks[r].downloads) \cup {tasks[r].held}
    <3>1. DOMAIN d = 1 .. Len(d) /\ DOMAIN tasks[r].downloads = 1 .. Len(tasks[r].downloads)
          /\ Len(tasks[r].downloads) \in Nat
      BY <1>3, <2>1
    <3>2. \A i \in 1 .. Len(d) : i # Len(d) => i \in 1 .. Len(tasks[r].downloads)
      BY <2>1, <3>1
    <3> HIDE DEF d
    <3> QED
      BY <2>2, <3>1, <3>2 DEF ToSet
  <2> QED
    BY <1>1, <1>3, <2>1, <2>3, ConstantsOK
<1> HIDE DEF d
<1>5. tasks' = [tasks EXCEPT ![r] = t]
  BY <1>1 DEF IInv
<1>6. /\ t \in Tasks /\ t.queue = tasks[r].queue /\ t.downloads = d /\ t.rpcs = tasks[r].rpcs
      /\ t.held = NoCaller
  BY <1>2, <1>4 DEF Tasks
<1>7. \A k \in CallbacksOf(t) \ {NoCaller} : Target[k] = r
  <2>1. CallbacksOf(t) \subseteq CallbacksOf(tasks[r]) \cup {NoCaller}
    <3> HIDE DEF t
    <3> QED
      BY <1>4, <1>6 DEF CallbacksOf
  <2> QED
    BY <1>2, <2>1
<1>8. /\ sending' \in Callers \cup {NoCaller}
      /\ pc' \in [Callers -> {"idle", "ended"} \cup InFlight]
  BY <1>1 DEF IInv, TypeOK
<1> HIDE DEF t
<1> QED
  BY <1>1, <1>2, <1>4, <1>5, <1>6, <1>7, <1>8, OneTask

\* It comes up, or gets its first messages: it holds the same calls.
LEMMA UpStep == ASSUME NEW r \in Rooms, IInv, CapsArrive(r) \/ InitialLoaded(r) PROVE IInv'
<1>1. PICK t \in {[tasks[r] EXCEPT !.phase = "serving"], [tasks[r] EXCEPT !.loaded = TRUE]} :
        tasks' = [tasks EXCEPT ![r] = t]
  BY DEF CapsArrive, InitialLoaded
<1>2. /\ r \in Handles
      /\ UNCHANGED <<rooms, notified, commands, sending, pc, changes>>
  BY DEF CapsArrive, InitialLoaded, Serving
<1>3. /\ tasks[r] \in Tasks
      /\ Len(tasks[r].queue) <= 1 /\ Len(tasks[r].downloads) <= DownloadCapacity
      /\ \A c \in CallbacksOf(tasks[r]) \ {NoCaller} : Target[c] = r
  BY <1>2, TaskOf
<1>4. /\ t \in Tasks /\ t.queue = tasks[r].queue /\ t.downloads = tasks[r].downloads
      /\ t.rpcs = tasks[r].rpcs /\ t.held = tasks[r].held
  BY <1>3 DEF Tasks
<1>5. CallbacksOf(t) = CallbacksOf(tasks[r])
  BY <1>4 DEF CallbacksOf
<1>6. /\ sending' \in Callers \cup {NoCaller}
      /\ pc' \in [Callers -> {"idle", "ended"} \cup InFlight]
  BY <1>2 DEF IInv, TypeOK
<1> QED
  BY <1>1, <1>2, <1>3, <1>4, <1>5, <1>6, OneTask

\* A call it held ends.
LEMMA DoneStep == ASSUME NEW r \in Rooms, IInv, RPCDone(r) \/ LoadEarlier(r) PROVE IInv'
<1>0. r \in Handles /\ UNCHANGED <<rooms, notified, commands, sending, changes>>
  BY DEF RPCDone, LoadEarlier, Serving
<1>1. /\ tasks[r] \in Tasks
      /\ Len(tasks[r].queue) <= 1 /\ Len(tasks[r].downloads) <= DownloadCapacity
      /\ \A c \in CallbacksOf(tasks[r]) \ {NoCaller} : Target[c] = r
  BY <1>0, TaskOf
<1>2. sending' \in Callers \cup {NoCaller}
  BY <1>0 DEF IInv, TypeOK
<1>3. pc' \in [Callers -> {"idle", "ended"} \cup InFlight]
  <2>1. TypeOK
    BY DEF IInv
  <2> QED
    BY <2>1, EndTyped DEF RPCDone, LoadEarlier
<1>4. CASE RPCDone(r)
  <2>1. PICK c \in tasks[r].rpcs : tasks' = [tasks EXCEPT ![r].rpcs = @ \ {c}]
    BY <1>4 DEF RPCDone
  <2> DEFINE t == [tasks[r] EXCEPT !.rpcs = @ \ {c}]
  <2>2. tasks' = [tasks EXCEPT ![r] = t]
    BY <2>1 DEF IInv
  <2>3. /\ t \in Tasks /\ t.queue = tasks[r].queue /\ t.downloads = tasks[r].downloads
        /\ t.rpcs \subseteq tasks[r].rpcs /\ t.held = tasks[r].held
    BY <1>1 DEF Tasks
  <2> HIDE DEF t
  <2>4. CallbacksOf(t) \subseteq CallbacksOf(tasks[r])
    BY <2>3 DEF CallbacksOf
  <2> QED
    BY <1>0, <1>1, <1>2, <1>3, <2>2, <2>3, <2>4, OneTask
<1>5. CASE LoadEarlier(r)
  <2> DEFINE d == Tail(tasks[r].downloads)
             t == [tasks[r] EXCEPT !.downloads = d]
  <2>1. tasks' = [tasks EXCEPT ![r].downloads = d] /\ tasks[r].downloads # <<>>
    BY <1>5 DEF LoadEarlier
  <2>2. tasks' = [tasks EXCEPT ![r] = t]
    BY <2>1 DEF IInv
  <2>3. tasks[r].downloads \in Seq(Loads)
    BY <1>1 DEF Tasks
  <2>4. d \in Seq(Loads) /\ Len(d) = Len(tasks[r].downloads) - 1
        /\ \A i \in 1 .. Len(d) : d[i] = tasks[r].downloads[i + 1]
    BY <2>1, <2>3
  <2>5. Len(d) <= DownloadCapacity /\ ToSet(d) \subseteq ToSet(tasks[r].downloads)
    <3>1. /\ DOMAIN d = 1 .. Len(d) /\ DOMAIN tasks[r].downloads = 1 .. Len(tasks[r].downloads)
          /\ Len(tasks[r].downloads) \in Nat
      BY <2>3, <2>4
    <3>2. \A i \in 1 .. Len(d) : i + 1 \in 1 .. Len(tasks[r].downloads)
      BY <2>4, <3>1
    <3> HIDE DEF d
    <3>3. ToSet(d) \subseteq ToSet(tasks[r].downloads)
      BY <2>4, <3>1, <3>2 DEF ToSet
    <3> QED
      BY <1>1, <2>4, <3>1, <3>3, ConstantsOK
  <2> HIDE DEF d
  <2>6. /\ t \in Tasks /\ t.queue = tasks[r].queue /\ t.downloads = d
        /\ t.rpcs = tasks[r].rpcs /\ t.held = tasks[r].held
    BY <1>1, <2>4 DEF Tasks
  <2> HIDE DEF t
  <2>7. CallbacksOf(t) \subseteq CallbacksOf(tasks[r])
    BY <2>5, <2>6 DEF CallbacksOf
  <2> QED
    BY <1>0, <1>1, <1>2, <1>3, <2>2, <2>5, <2>6, <2>7, OneTask
<1> QED
  BY <1>4, <1>5

LEMMA EndsStep == ASSUME NEW r \in Rooms, IInv, TaskEnds(r) PROVE IInv'
<1> DEFINE t == [Fresh EXCEPT !.phase = "ended"]
<1>1. /\ r \in Handles /\ tasks' = [tasks EXCEPT ![r] = t]
      /\ UNCHANGED <<rooms, notified, commands, sending, changes>>
  BY DEF TaskEnds
<1>2. /\ t \in Tasks /\ t.queue = <<>> /\ t.downloads = <<>>
      /\ t.rpcs = {} /\ t.held = NoCaller
  BY FreshTyped DEF Fresh, Tasks
<1>3. Len(t.queue) <= 1 /\ Len(t.downloads) <= DownloadCapacity
  BY <1>2, ConstantsOK
<1>4. CallbacksOf(t) = {NoCaller}
  <2>1. ToSet(<<>>) = {}
    BY DEF ToSet
  <2> QED
    BY <1>2, <2>1 DEF CallbacksOf
<1>5. /\ sending' \in Callers \cup {NoCaller}
      /\ pc' \in [Callers -> {"idle", "ended"} \cup InFlight]
  <2>1. TypeOK
    BY DEF IInv
  <2> QED
    BY <1>1, <2>1, EndTyped DEF TaskEnds, TypeOK
<1> HIDE DEF t
<1> QED
  BY <1>1, <1>2, <1>3, <1>4, <1>5, OneTask

\* A change is looked at: the handles are those of the config.
LEMMA LookStep == IInv /\ Look => IInv'
<1> SUFFICES ASSUME IInv, Look PROVE IInv'
  OBVIOUS
<1>1. /\ notified' = FALSE /\ UNCHANGED <<rooms, commands, sending, changes>>
      /\ tasks' = [r \in Rooms |-> IF r \notin rooms THEN NoTask
                                   ELSE IF r \in Handles THEN tasks[r] ELSE Fresh]
  BY DEF Look
<1>2. pc' \in [Callers -> {"idle", "ended"} \cup InFlight]
  BY EndTyped DEF IInv, Look
<1>3. rooms \subseteq Rooms
  BY DEF IInv, TypeOK
<1>4. \A r \in Handles : tasks[r] \in Tasks
  BY DEF IInv, TypeOK
<1>5. \A r \in rooms : tasks'[r] = IF r \in Handles THEN tasks[r] ELSE Fresh
  BY <1>1, <1>3
<1>6. \A r \in Rooms \ rooms : tasks'[r] = NoTask
  BY <1>1
<1>7. Handles' = rooms
  BY <1>3, <1>4, <1>5, <1>6, FreshTyped, NoTaskOK DEF Handles
<1>8. tasks' \in [Rooms -> Tasks \cup {NoTask}]
  BY <1>1, <1>4, FreshTyped
<1>9. Follows'
  BY <1>1, <1>7 DEF Follows
<1>10. TypeOK'
  <2>1. \A r \in Handles' : /\ tasks'[r] \in Tasks
                           /\ Len(tasks'[r].queue) <= 1
                           /\ Len(tasks'[r].downloads) <= DownloadCapacity
    <3>1. Fresh \in Tasks /\ Len(Fresh.queue) <= 1 /\ Len(Fresh.downloads) <= DownloadCapacity
      BY FreshTyped, ConstantsOK DEF Fresh
    <3> QED
      BY <1>5, <1>7, <3>1 DEF IInv, TypeOK
  <2> QED
    BY <1>1, <1>2, <2>1 DEF IInv, TypeOK
<1>11. Delivered'
  <2>1. ASSUME NEW r \in rooms, NEW c \in CallbacksOf(tasks'[r]) \ {NoCaller} PROVE Target[c] = r
    BY <1>5, <2>1, FreshTyped DEF IInv, Delivered
  <2>2. \A r \in rooms : CallbacksOf(tasks[r])' = CallbacksOf(tasks'[r])
    BY DEF CallbacksOf
  <2> QED
    BY <1>7, <2>1, <2>2 DEF Delivered
<1> QED
  BY <1>8, <1>9, <1>10, <1>11 DEF IInv

\* What is not a task's: a call on its way, a change of the config.
LEMMA OutsideStep ==
  ASSUME IInv, tasks' = tasks, notified' = TRUE \/ UNCHANGED <<rooms, notified>>, TypeOK'
  PROVE  IInv'
<1>1. Handles' = Handles
  BY DEF Handles
<1>2. Follows'
  BY <1>1 DEF IInv, Follows
<1>3. Delivered'
  BY <1>1 DEF IInv, Delivered, CallbacksOf
<1> QED
  BY <1>2, <1>3 DEF IInv

LEMMA StepIInv == IInv /\ [Next]_vars => IInv'
<1> SUFFICES ASSUME IInv, [Next]_vars PROVE IInv'
  OBVIOUS
<1>0. TypeOK /\ (tasks' = tasks => Handles' = Handles)
  BY DEF IInv, Handles
<1>1. ASSUME NEW r \in Rooms, RoomStep(r) PROVE IInv'
  BY <1>1, UpStep, DoneStep, EndsStep, ServeStep, ForwardStep DEF RoomStep
<1>2. CASE Look
  BY <1>2, LookStep
<1>3. CASE Hand
  BY <1>3, HandStep
<1>4. CASE Take
  <2>1. /\ Head(commands) \in Callers /\ Tail(commands) \in Seq(Callers)
        /\ Len(Tail(commands)) <= Capacity
    BY <1>0, <1>4, ConstantsOK DEF Take, TypeOK
  <2>2. TypeOK'
    BY <1>0, <1>4, <2>1 DEF Take, TypeOK
  <2> QED
    BY <1>4, <2>2, OutsideStep DEF Take
<1>5. CASE Refuse
  <2>1. TypeOK'
    BY <1>0, <1>5, EndTyped DEF Refuse, TypeOK
  <2> QED
    BY <1>5, <2>1, OutsideStep DEF Refuse
<1>6. ASSUME NEW c \in Callers, Call(c) \/ TimeOut(c) \/ Abandon(c) PROVE IInv'
  <2>1. pc' \in [Callers -> {"idle", "ended"} \cup InFlight]
    BY <1>0, <1>6, EndTyped DEF Call, TimeOut, Abandon, TypeOK, InFlight
  <2>2. UNCHANGED <<rooms, notified, commands, sending, tasks, changes>>
    BY <1>6 DEF Call, TimeOut, Abandon
  <2>3. TypeOK'
    BY <1>0, <2>1, <2>2 DEF TypeOK
  <2> QED
    BY <2>2, <2>3, OutsideStep
<1>7. ASSUME NEW c \in Callers, Send(c) PROVE IInv'
  <2>1. Append(commands, c) \in Seq(Callers) /\ Len(Append(commands, c)) <= Capacity
    BY <1>0, <1>7, ConstantsOK DEF Send, TypeOK
  <2>2. pc' \in [Callers -> {"idle", "ended"} \cup InFlight]
    BY <1>0, <1>7 DEF Send, TypeOK, InFlight
  <2>3. TypeOK'
    BY <1>0, <1>7, <2>1, <2>2 DEF Send, TypeOK
  <2> QED
    BY <1>7, <2>3, OutsideStep DEF Send
<1>8. CASE Join \/ Leave
  <2>1. PICK new \in SUBSET Rooms : Change(new)
    <3>1. rooms \subseteq Rooms
      BY <1>0 DEF TypeOK
    <3> QED
      BY <1>8, <3>1 DEF Join, Leave
  <2>2. TypeOK'
    BY <1>0, <2>1, ConstantsOK DEF Change, TypeOK
  <2> QED
    BY <2>1, <2>2, OutsideStep DEF Change
<1>9. CASE UNCHANGED vars
  <2>1. TypeOK'
    BY <1>0, <1>9 DEF vars, TypeOK
  <2> QED
    BY <1>9, <2>1, OutsideStep DEF vars
<1> QED
  BY <1>1, <1>2, <1>3, <1>4, <1>5, <1>6, <1>7, <1>8, <1>9 DEF Next, Loop

-----------------------------------------------------------------------------
\* The loop's and the tasks' state always has its type.
THEOREM TypeCorrect == Spec => []TypeOK
<1>1. IInv => TypeOK
  BY DEF IInv
<1> QED
  BY InitIInv, StepIInv, <1>1, PTL DEF Spec

\* A loop that waits at select with no change to look at has a task for each
\* room of the config, started or ended, and for no other: the stream
\* subscribes before its first read, so no change falls between.
HandlesFollowConfig == sending = NoCaller /\ ~notified => Handles = rooms

\* The handles of sync_generic_groups are those of the config whenever it waits.
THEOREM HandlesAlwaysFollow == Spec => []HandlesFollowConfig
<1>1. IInv => HandlesFollowConfig
  BY DEF IInv, Follows, HandlesFollowConfig
<1> QED
  BY InitIInv, StepIInv, <1>1, PTL DEF Spec

\* What the loop drops when it looks at a change are the calls to rooms that left.
THEOREM OthersUndisturbed == Spec => StayingRoomsUndisturbed
<1> DEFINE Quiet == \A c \in Callers :
                      notified /\ ~notified' /\ pc[c] = "waiting" /\ Target[c] \in rooms
                      => pc'[c] = "waiting"
<1>1. IInv /\ [Next]_vars => [Quiet]_vars
  <2> SUFFICES ASSUME IInv, [Next]_vars,
                      NEW c \in Callers,
                      notified, ~notified', pc[c] = "waiting", Target[c] \in rooms
               PROVE  pc'[c] = "waiting"
    OBVIOUS
  <2>1. Look
    BY DEF Next, Loop, vars, Call, Send, TimeOut, Abandon, Join, Leave, Change, Take, Refuse, Hand,
       RoomStep, CapsArrive, InitialLoaded, TaskEnds, Serve, Forward, RPCDone, LoadEarlier
  <2>2. c # NoCaller
    BY ConstantsOK
  <2>3. ASSUME NEW r \in Handles \ rooms, c \in CallbacksOf(tasks[r]) PROVE FALSE
    BY <2>2, <2>3 DEF IInv, Delivered
  <2> QED
    BY <2>1, <2>3 DEF Look, End
<1> QED
  BY InitIInv, StepIInv, <1>1, PTL DEF Spec, StayingRoomsUndisturbed

-----------------------------------------------------------------------------
\* One command, one place.  First, sequences without duplicates at both ends.

LEMMA Appended ==
  ASSUME NEW S, NEW s \in Seq(S), NEW e \in S
  PROVE  /\ ToSet(Append(s, e)) = ToSet(s) \cup {e}
         /\ IsInjective(s) /\ e \notin ToSet(s) => IsInjective(Append(s, e))
         /\ s # <<>> => Head(Append(s, e)) = Head(s)
<1> DEFINE t == Append(s, e)
<1>1. /\ t \in Seq(S) /\ Len(t) = Len(s) + 1 /\ t[Len(s) + 1] = e
      /\ \A i \in 1 .. Len(s) : t[i] = s[i]
  BY AppendProperties
<1>2. DOMAIN s = 1 .. Len(s) /\ DOMAIN t = 1 .. Len(s) + 1 /\ Len(s) \in Nat
  BY <1>1, LenProperties
<1>3. DOMAIN t = DOMAIN s \cup {Len(s) + 1}
  BY <1>2
<1>4. ToSet(t) = ToSet(s) \cup {e}
  BY <1>1, <1>2, <1>3, Zenon DEF ToSet
<1>5. ASSUME IsInjective(s), e \notin ToSet(s) PROVE IsInjective(t)
  BY <1>1, <1>2, <1>3, <1>5, Zenon DEF IsInjective, ToSet
<1>6. s # <<>> => Head(t) = Head(s)
  BY HeadTailAppend
<1> QED
  BY <1>4, <1>5, <1>6

LEMMA Dequeued ==
  ASSUME NEW S, NEW s \in Seq(S), s # <<>>
  PROVE  /\ Head(s) \in ToSet(s) /\ ToSet(s) = ToSet(Tail(s)) \cup {Head(s)}
         /\ IsInjective(s) => IsInjective(Tail(s)) /\ Head(s) \notin ToSet(Tail(s))
<1>1. /\ Tail(s) \in Seq(S) /\ Len(Tail(s)) = Len(s) - 1
      /\ \A i \in 1 .. Len(s) - 1 : Tail(s)[i] = s[i + 1]
  BY HeadTailProperties
<1>2. /\ Len(s) \in Nat /\ Len(s) > 0 /\ DOMAIN s = 1 .. Len(s)
      /\ DOMAIN Tail(s) = 1 .. Len(s) - 1
  BY <1>1, LenProperties, EmptySeq
<1>3. Head(s) = s[1] /\ 1 \in DOMAIN s
  BY <1>2
<1> DEFINE t == Tail(s)
<1>4. /\ \A i \in DOMAIN t : i + 1 \in DOMAIN s /\ i + 1 # 1 /\ t[i] = s[i + 1]
      /\ \A i \in DOMAIN s : i = 1 \/ (i - 1 \in DOMAIN t /\ t[i - 1] = s[i])
      /\ \A i, j \in DOMAIN t : i + 1 = j + 1 => i = j
  BY <1>1, <1>2
<1> HIDE DEF t
<1>5. ToSet(s) = ToSet(t) \cup {Head(s)}
  BY <1>3, <1>4 DEF ToSet
<1>6. ASSUME IsInjective(s) PROVE IsInjective(t) /\ Head(s) \notin ToSet(t)
  <2>1. IsInjective(t)
    BY <1>4, <1>6 DEF IsInjective
  <2>2. ASSUME NEW i \in DOMAIN t, t[i] = Head(s) PROVE FALSE
    <3>1. i + 1 \in DOMAIN s /\ s[i + 1] = s[1] /\ i + 1 # 1
      BY <1>3, <1>4, <2>2
    <3> QED
      BY <1>3, <1>6, <3>1 DEF IsInjective
  <2> QED
    BY <2>1, <2>2 DEF ToSet
<1> QED
  BY <1>3, <1>5, <1>6 DEF t, ToSet

-----------------------------------------------------------------------------
\* The calls whose command room r's task has, and those whose command is somewhere.
Carried(r) == CallbacksOf(tasks[r]) \ {NoCaller}

Kept == ToSet(commands) \cup ({sending} \ {NoCaller}) \cup UNION {Carried(r) : r \in Handles}

\* A task does not have a command twice (an RPC and a load are not the same call).
HeldOnce(t) ==
  /\ \A c \in ToSet(t.queue) : c \notin t.rpcs /\ c # t.held /\ c \notin ToSet(t.downloads)
  /\ t.held \notin ToSet(t.downloads)
  /\ IsInjective(t.downloads)

ChannelOnce == IsInjective(commands) /\ sending \notin ToSet(commands)

TasksOnce ==
  \A r \in Handles :
    /\ HeldOnce(tasks[r])
    /\ \A c \in Carried(r) : c \notin ToSet(commands) /\ c # sending

\* The callers of what is kept wait or went away, and who waits is kept.
KeptWait ==
  /\ \A c \in Kept : pc[c] \in {"waiting", "ended"}
  /\ \A c \in Callers : pc[c] = "waiting" => c \in Kept

OnceInv == ChannelOnce /\ TasksOnce /\ KeptWait

LEMMA InitOnce == Init => OnceInv
<1> SUFFICES ASSUME Init PROVE OnceInv
  OBVIOUS
<1>1. Handles = {} /\ ToSet(commands) = {} /\ IsInjective(commands)
  BY DEF Init, Handles, ToSet, IsInjective
<1>2. Kept = {}
  BY <1>1 DEF Init, Kept
<1> QED
  BY <1>1, <1>2 DEF Init, OnceInv, ChannelOnce, TasksOnce, KeptWait

\* A step of one task that takes the loop's command or none, and ends the calls whose
\* command it has no more.
LEMMA TaskMoves ==
  ASSUME IInv, OnceInv, NEW r \in Handles, NEW t \in Tasks, HeldOnce(t),
         tasks' = [tasks EXCEPT ![r] = t], commands' = commands,
         \/ /\ sending' = sending
            /\ CallbacksOf(t) \ {NoCaller} \subseteq Carried(r)
         \/ /\ sending' = NoCaller /\ sending # NoCaller
            /\ CallbacksOf(t) \ {NoCaller} = Carried(r) \cup {sending},
         \A c \in Callers :
           pc'[c] = IF c \in Carried(r) \ CallbacksOf(t) THEN "ended" ELSE pc[c]
  PROVE  OnceInv'
<1> DEFINE calls == CallbacksOf(t) \ {NoCaller}
<1>1. r \in Rooms /\ t # NoTask
  BY NoTaskOK DEF Handles
<1>2. /\ tasks'[r] = t /\ Handles' = Handles
      /\ \A s \in Rooms \ {r} : tasks'[s] = tasks[s]
  BY <1>1 DEF IInv, Handles
<1>3. \A s \in Handles : /\ Carried(s)' = IF s = r THEN calls ELSE Carried(s)
                        /\ HeldOnce(tasks[s])' = HeldOnce(tasks'[s])
  BY <1>2 DEF Carried, CallbacksOf, HeldOnce, Handles
<1>4. NoCaller \notin ToSet(commands) /\ ToSet(commands) \subseteq Callers
  BY ConstantsOK, LenProperties, ElementOfSeq DEF IInv, TypeOK, ToSet
<1>5. Kept' \subseteq Kept /\ Kept \ (Carried(r) \ calls) \subseteq Kept'
  <2>1. Kept' = ToSet(commands) \cup ({sending'} \ {NoCaller}) \cup
                UNION {IF s = r THEN calls ELSE Carried(s) : s \in Handles}
    BY <1>2, <1>3 DEF Kept
  <2>2. UNION {IF s = r THEN calls ELSE Carried(s) : s \in Handles}
          = calls \cup UNION {Carried(s) : s \in Handles \ {r}}
    OBVIOUS
  <2>3. UNION {Carried(s) : s \in Handles}
          = Carried(r) \cup UNION {Carried(s) : s \in Handles \ {r}}
    OBVIOUS
  <2> DEFINE others == UNION {Carried(s) : s \in Handles \ {r}}
  <2> HIDE DEF others, calls
  <2>4. /\ Kept' = ToSet(commands) \cup ({sending'} \ {NoCaller}) \cup (calls \cup others)
        /\ Kept = ToSet(commands) \cup ({sending} \ {NoCaller}) \cup (Carried(r) \cup others)
    BY <2>1, <2>2, <2>3 DEF Kept, others
  <2> QED
    BY <2>4 DEF calls
<1>6. ChannelOnce'
  BY <1>4 DEF OnceInv, ChannelOnce
<1>7. TasksOnce'
  <2>1. ASSUME NEW s \in Handles, s # r
        PROVE  /\ HeldOnce(tasks'[s])
               /\ \A c \in Carried(s) : c \notin ToSet(commands) /\ c # sending'
    <3>1. tasks'[s] = tasks[s] /\ NoCaller \notin Carried(s)
      BY <1>2, <2>1 DEF Handles, Carried
    <3> QED
      BY <3>1 DEF OnceInv, TasksOnce
  <2>2. \A c \in calls : c \notin ToSet(commands) /\ c # sending'
    BY DEF OnceInv, TasksOnce, ChannelOnce
  <2> HIDE DEF calls
  <2> QED
    BY <1>2, <1>3, <2>1, <2>2 DEF TasksOnce
<1>8. KeptWait'
  <2>1. Kept \subseteq Callers
    BY <1>4, TaskOf DEF Kept, Carried, IInv, TypeOK
  <2> HIDE DEF calls
  <2>2. \A c \in Carried(r) : c # NoCaller
    BY DEF Carried
  <2>3. \A c \in Callers : pc'[c] = IF c \in Carried(r) \ calls THEN "ended" ELSE pc[c]
    BY <2>2 DEF calls
  <2> QED
    BY <1>5, <2>1, <2>3 DEF OnceInv, KeptWait
<1> QED
  BY <1>6, <1>7, <1>8 DEF OnceInv

\* The parts of a task, and who is in them.
LEMMA PartsTyped ==
  ASSUME NEW t \in Tasks
  PROVE  /\ t.queue \in Seq(Callers) /\ t.downloads \in Seq(Loads)
         /\ ToSet(t.queue) \subseteq Callers /\ ToSet(t.downloads) \subseteq Loads
         /\ t.rpcs \subseteq Callers \ Loads /\ t.held \in Loads \cup {NoCaller}
         /\ NoCaller \notin Callers /\ Loads \subseteq Callers
<1>1. /\ t.queue \in Seq(Callers) /\ t.downloads \in Seq(Loads)
      /\ t.rpcs \subseteq Callers \ Loads /\ t.held \in Loads \cup {NoCaller}
  BY DEF Tasks, RPCs
<1>2. ToSet(t.queue) \subseteq Callers /\ ToSet(t.downloads) \subseteq Loads
  BY <1>1, LenProperties, ElementOfSeq DEF ToSet
<1> QED
  BY <1>1, <1>2, ConstantsOK

LEMMA ShortQueues ==
  /\ ToSet(<<>>) = {}
  /\ \A c : ToSet(<<c>>) = {c}
BY DEF ToSet

LEMMA HandOnce == ASSUME IInv, OnceInv, Hand PROVE OnceInv'
<1> DEFINE r == Target[sending]
           t == [tasks[r] EXCEPT !.queue = <<sending>>]
<1>1. /\ sending # NoCaller /\ r \in Handles /\ tasks[r].queue = <<>>
      /\ tasks' = [tasks EXCEPT ![r].queue = <<sending>>] /\ sending' = NoCaller
      /\ UNCHANGED <<commands, pc>>
  BY DEF Hand
<1>2. r \in Rooms /\ tasks[r] \in Tasks /\ sending \in Callers
  BY <1>1, TaskOf DEF IInv, TypeOK
<1>3. tasks' = [tasks EXCEPT ![r] = t]
  BY <1>1, <1>2 DEF IInv
<1>4. /\ t.queue = <<sending>> /\ t.rpcs = tasks[r].rpcs /\ t.held = tasks[r].held
      /\ t.downloads = tasks[r].downloads
  BY <1>2 DEF Tasks
<1>5. t \in Tasks
  <2>1. <<sending>> \in Seq(Callers)
    BY <1>2
  <2> DEFINE q == <<sending>>
  <2> HIDE DEF q, r
  <2>2. [tasks[r] EXCEPT !.queue = q] \in Tasks
    BY <1>2, <2>1 DEF Tasks, q
  <2> QED
    BY <2>2 DEF q
<1> HIDE DEF t, r
<1>6. CallbacksOf(t) \ {NoCaller} = Carried(r) \cup {sending}
  BY <1>1, <1>4, ShortQueues DEF CallbacksOf, Carried
<1>7. HeldOnce(tasks[r]) /\ sending \notin Carried(r)
  BY <1>1 DEF OnceInv, TasksOnce
<1>8. HeldOnce(t)
  BY <1>1, <1>4, <1>7, ShortQueues DEF HeldOnce, Carried, CallbacksOf
<1>9. \A c \in Callers : pc'[c] = IF c \in Carried(r) \ CallbacksOf(t) THEN "ended" ELSE pc[c]
  BY <1>1, <1>6
<1> QED
  BY <1>1, <1>3, <1>5, <1>6, <1>8, <1>9, TaskMoves

LEMMA ServeOnce == ASSUME NEW r \in Rooms, IInv, OnceInv, Serve(r) PROVE OnceInv'
<1> DEFINE c == Head(tasks[r].queue)
           idle == [tasks[r] EXCEPT !.queue = <<>>]
           t == IF c \in Loads THEN [idle EXCEPT !.held = c] ELSE [idle EXCEPT !.rpcs = @ \cup {c}]
<1>1. /\ r \in Handles /\ tasks[r].queue # <<>> /\ tasks[r].held = NoCaller
      /\ tasks' = [tasks EXCEPT ![r] = t]
      /\ UNCHANGED <<commands, sending, pc>>
  BY DEF Serve, Serving
<1>2. tasks[r] \in Tasks /\ Len(tasks[r].queue) <= 1
  BY <1>1, TaskOf
<1>3. tasks[r].queue = <<c>> /\ c \in Callers
  BY <1>1, <1>2, PartsTyped
<1>4. idle \in Tasks /\ idle.queue = <<>> /\ idle.downloads = tasks[r].downloads
      /\ idle.rpcs = tasks[r].rpcs /\ idle.held = NoCaller
  <2>1. <<>> \in Seq(Callers)
    OBVIOUS
  <2> QED
    BY <1>1, <1>2, <2>1 DEF Tasks
<1>5. /\ t \in Tasks /\ t.queue = <<>> /\ t.downloads = tasks[r].downloads
      /\ \/ c \in Loads /\ t.held = c /\ t.rpcs = tasks[r].rpcs
         \/ c \notin Loads /\ t.held = NoCaller /\ t.rpcs = tasks[r].rpcs \cup {c}
  <2> HIDE DEF idle, c
  <2>1. CASE c \in Loads
    BY <1>4, <2>1 DEF Tasks
  <2>2. CASE c \notin Loads
    BY <1>3, <1>4, <2>2 DEF Tasks, RPCs
  <2> QED
    BY <2>1, <2>2
<1> HIDE DEF c, idle, t
<1>6. HeldOnce(tasks[r]) /\ NoCaller \notin ToSet(tasks[r].downloads)
  BY <1>1, <1>2, PartsTyped DEF OnceInv, TasksOnce
<1>7. HeldOnce(t)
  BY <1>3, <1>5, <1>6, ShortQueues DEF HeldOnce
<1>8. CallbacksOf(t) \ {NoCaller} = Carried(r)
  BY <1>1, <1>3, <1>5, ShortQueues DEF CallbacksOf, Carried
<1>9. \A k \in Callers : pc'[k] = IF k \in Carried(r) \ CallbacksOf(t) THEN "ended" ELSE pc[k]
  BY <1>1, <1>8
<1> QED
  BY <1>1, <1>5, <1>7, <1>8, <1>9, TaskMoves

LEMMA ForwardOnce == ASSUME NEW r \in Rooms, IInv, OnceInv, Forward(r) PROVE OnceInv'
<1> DEFINE d == Append(tasks[r].downloads, tasks[r].held)
           t == [tasks[r] EXCEPT !.downloads = d, !.held = NoCaller]
<1>1. /\ r \in Handles /\ tasks[r].held # NoCaller
      /\ tasks' = [tasks EXCEPT ![r].downloads = d, ![r].held = NoCaller]
      /\ UNCHANGED <<commands, sending, pc>>
  BY DEF Forward, Serving
<1>2. tasks[r] \in Tasks
  BY <1>1, TaskOf
<1>3. HeldOnce(tasks[r])
  BY <1>1 DEF OnceInv, TasksOnce
<1>4. /\ d \in Seq(Loads) /\ ToSet(d) = ToSet(tasks[r].downloads) \cup {tasks[r].held}
      /\ IsInjective(d)
  <2>1. tasks[r].downloads \in Seq(Loads) /\ tasks[r].held \in Loads
    BY <1>1, <1>2, PartsTyped
  <2> QED
    BY <1>3, <2>1, Appended, AppendProperties DEF HeldOnce
<1> HIDE DEF d
<1>5. tasks' = [tasks EXCEPT ![r] = t]
  BY <1>1 DEF IInv
<1>6. /\ t \in Tasks /\ t.queue = tasks[r].queue /\ t.downloads = d /\ t.rpcs = tasks[r].rpcs
      /\ t.held = NoCaller
  BY <1>2, <1>4 DEF Tasks
<1> HIDE DEF t
<1>7. HeldOnce(t)
  <2>1. NoCaller \notin ToSet(d) /\ NoCaller \notin ToSet(tasks[r].queue)
    BY <1>1, <1>2, <1>4, PartsTyped
  <2> QED
    BY <1>3, <1>4, <1>6, <2>1 DEF HeldOnce
<1>8. CallbacksOf(t) \ {NoCaller} = Carried(r)
  BY <1>4, <1>6 DEF CallbacksOf, Carried
<1>9. \A k \in Callers : pc'[k] = IF k \in Carried(r) \ CallbacksOf(t) THEN "ended" ELSE pc[k]
  BY <1>1, <1>8
<1> QED
  BY <1>1, <1>5, <1>6, <1>7, <1>8, <1>9, TaskMoves

LEMMA UpOnce ==
  ASSUME NEW r \in Rooms, IInv, OnceInv, CapsArrive(r) \/ InitialLoaded(r)
  PROVE  OnceInv'
<1>1. PICK t \in {[tasks[r] EXCEPT !.phase = "serving"], [tasks[r] EXCEPT !.loaded = TRUE]} :
        tasks' = [tasks EXCEPT ![r] = t]
  BY DEF CapsArrive, InitialLoaded
<1>2. r \in Handles /\ UNCHANGED <<commands, sending, pc>>
  BY DEF CapsArrive, InitialLoaded, Serving
<1>3. tasks[r] \in Tasks /\ HeldOnce(tasks[r])
  BY <1>2, TaskOf DEF OnceInv, TasksOnce
<1>4. /\ t \in Tasks /\ t.queue = tasks[r].queue /\ t.downloads = tasks[r].downloads
      /\ t.rpcs = tasks[r].rpcs /\ t.held = tasks[r].held
  BY <1>3 DEF Tasks
<1>5. HeldOnce(t) /\ CallbacksOf(t) \ {NoCaller} = Carried(r)
  BY <1>3, <1>4 DEF HeldOnce, CallbacksOf, Carried
<1>6. \A k \in Callers : pc'[k] = IF k \in Carried(r) \ CallbacksOf(t) THEN "ended" ELSE pc[k]
  BY <1>2, <1>5
<1> QED
  BY <1>1, <1>2, <1>4, <1>5, <1>6, TaskMoves

\* A call the task held is answered: its command was nowhere else.
LEMMA DoneOnce ==
  ASSUME NEW r \in Rooms, IInv, OnceInv, RPCDone(r) \/ LoadEarlier(r)
  PROVE  OnceInv'
<1>0. r \in Handles /\ UNCHANGED <<commands, sending>>
  BY DEF RPCDone, LoadEarlier, Serving
<1>1. tasks[r] \in Tasks /\ HeldOnce(tasks[r])
  BY <1>0, TaskOf DEF OnceInv, TasksOnce
<1>2. ASSUME NEW c \in Callers, NEW t \in Tasks, HeldOnce(t), pc' = End({c}),
             tasks' = [tasks EXCEPT ![r] = t],
             CallbacksOf(t) \ {NoCaller} = Carried(r) \ {c}, c \in Carried(r)
      PROVE  OnceInv'
  <2>1. \A k \in Callers : pc'[k] = IF k \in Carried(r) \ CallbacksOf(t) THEN "ended" ELSE pc[k]
    BY <1>2, ConstantsOK DEF End
  <2> QED
    BY <1>0, <1>2, <2>1, TaskMoves
<1>3. CASE RPCDone(r)
  <2>1. PICK c \in tasks[r].rpcs : /\ tasks' = [tasks EXCEPT ![r].rpcs = @ \ {c}]
                                  /\ pc' = End({c})
    BY <1>3 DEF RPCDone
  <2> DEFINE t == [tasks[r] EXCEPT !.rpcs = @ \ {c}]
  <2>2. tasks' = [tasks EXCEPT ![r] = t]
    BY <2>1 DEF IInv
  <2>3. /\ t \in Tasks /\ t.queue = tasks[r].queue /\ t.downloads = tasks[r].downloads
        /\ t.rpcs = tasks[r].rpcs \ {c} /\ t.held = tasks[r].held
    BY <1>1 DEF Tasks
  <2> HIDE DEF t
  <2>4. c \in Callers \ Loads /\ c # NoCaller
    BY <1>1, PartsTyped
  <2>5. HeldOnce(t)
    BY <1>1, <2>3 DEF HeldOnce
  <2>6. CallbacksOf(t) \ {NoCaller} = Carried(r) \ {c} /\ c \in Carried(r)
    <3>1. /\ c \notin ToSet(tasks[r].queue) /\ c # tasks[r].held
          /\ c \notin ToSet(tasks[r].downloads)
      BY <1>1, <2>4, PartsTyped DEF HeldOnce
    <3> QED
      BY <2>3, <2>4, <3>1 DEF CallbacksOf, Carried
  <2> QED
    BY <1>2, <2>1, <2>2, <2>3, <2>4, <2>5, <2>6
<1>4. CASE LoadEarlier(r)
  <2> DEFINE q == tasks[r].downloads
             d == Tail(q)
             c == Head(q)
             t == [tasks[r] EXCEPT !.downloads = d]
  <2>1. tasks' = [tasks EXCEPT ![r].downloads = d] /\ q # <<>> /\ pc' = End({c})
    BY <1>4 DEF LoadEarlier
  <2>2. tasks' = [tasks EXCEPT ![r] = t]
    BY <2>1 DEF IInv
  <2>3. q \in Seq(Loads) /\ IsInjective(q)
    BY <1>1, PartsTyped DEF HeldOnce
  <2>4. /\ d \in Seq(Loads) /\ IsInjective(d) /\ c \in ToSet(q) /\ c \notin ToSet(d)
        /\ ToSet(q) = ToSet(d) \cup {c}
    BY <2>1, <2>3, Dequeued, HeadTailProperties
  <2> HIDE DEF d, c
  <2>5. /\ t \in Tasks /\ t.queue = tasks[r].queue /\ t.downloads = d
        /\ t.rpcs = tasks[r].rpcs /\ t.held = tasks[r].held
    BY <1>1, <2>4 DEF Tasks
  <2> HIDE DEF t
  <2>6. c \in Loads /\ c \in Callers /\ c # NoCaller
    BY <1>1, <2>4, PartsTyped
  <2>7. HeldOnce(t)
    BY <1>1, <2>4, <2>5 DEF HeldOnce
  <2>8. CallbacksOf(t) \ {NoCaller} = Carried(r) \ {c} /\ c \in Carried(r)
    <3>1. c \notin ToSet(tasks[r].queue) /\ c # tasks[r].held /\ c \notin tasks[r].rpcs
      BY <1>1, <2>4, <2>6, PartsTyped DEF HeldOnce
    <3> QED
      BY <2>4, <2>5, <2>6, <3>1 DEF CallbacksOf, Carried
  <2> QED
    BY <1>2, <2>1, <2>2, <2>5, <2>6, <2>7, <2>8
<1> QED
  BY <1>3, <1>4

\* A task ends with all its calls.
LEMMA EndsOnce == ASSUME NEW r \in Rooms, IInv, OnceInv, TaskEnds(r) PROVE OnceInv'
<1> DEFINE t == [Fresh EXCEPT !.phase = "ended"]
<1>1. /\ r \in Handles /\ tasks' = [tasks EXCEPT ![r] = t]
      /\ UNCHANGED <<commands, sending>> /\ pc' = End(CallbacksOf(tasks[r]))
  BY DEF TaskEnds
<1>2. /\ t \in Tasks /\ t.queue = <<>> /\ t.downloads = <<>>
      /\ t.rpcs = {} /\ t.held = NoCaller
  BY FreshTyped DEF Fresh, Tasks
<1> HIDE DEF t
<1>3. CallbacksOf(t) = {NoCaller} /\ HeldOnce(t)
  BY <1>2, ShortQueues DEF CallbacksOf, HeldOnce, IsInjective
<1>4. \A k \in Callers : pc'[k] = IF k \in Carried(r) \ CallbacksOf(t) THEN "ended" ELSE pc[k]
  BY <1>1, <1>3, ConstantsOK DEF End, Carried
<1>5. CallbacksOf(t) \ {NoCaller} \subseteq Carried(r)
  BY <1>3
<1> QED
  BY <1>1, <1>2, <1>3, <1>4, <1>5, TaskMoves

\* No command is anywhere that was not before, and the calls ds whose commands are no
\* more have ended.
LEMMA KeptShrinks ==
  ASSUME IInv, KeptWait, NEW ds, pc' = End(ds), Kept' \subseteq Kept, Kept \ ds \subseteq Kept'
  PROVE  KeptWait'
<1>1. Kept \subseteq Callers
  <2>1. ToSet(commands) \subseteq Callers
    BY LenProperties, ElementOfSeq DEF IInv, TypeOK, ToSet
  <2> QED
    BY <2>1, TaskOf DEF Kept, Carried, IInv, TypeOK
<1> QED
  BY <1>1 DEF KeptWait, End

LEMMA LookOnce == ASSUME IInv, OnceInv, Look PROVE OnceInv'
<1> DEFINE ds == UNION {CallbacksOf(tasks[r]) : r \in Handles \ rooms}
<1>1. /\ UNCHANGED <<commands, sending>> /\ pc' = End(ds)
      /\ tasks' = [r \in Rooms |-> IF r \notin rooms THEN NoTask
                                   ELSE IF r \in Handles THEN tasks[r] ELSE Fresh]
  BY DEF Look
<1>2. rooms \subseteq Rooms /\ \A r \in Handles : r \in Rooms /\ tasks[r] \in Tasks
  BY DEF IInv, TypeOK, Handles
<1>3. /\ \A r \in rooms : tasks'[r] = IF r \in Handles THEN tasks[r] ELSE Fresh
      /\ \A r \in Rooms \ rooms : tasks'[r] = NoTask
  BY <1>1, <1>2
<1>4. Handles' = rooms
  BY <1>2, <1>3, FreshTyped, NoTaskOK DEF Handles
<1>5. \A r \in rooms : Carried(r)' = IF r \in Handles THEN Carried(r) ELSE {}
  BY <1>3, FreshTyped DEF Carried, CallbacksOf
<1>6. ChannelOnce'
  BY <1>1 DEF OnceInv, ChannelOnce
<1>7. TasksOnce'
  <2>1. HeldOnce(Fresh)
    BY ShortQueues DEF HeldOnce, Fresh, IsInjective
  <2>2. \A r \in rooms : HeldOnce(tasks'[r])
    BY <1>3, <2>1 DEF OnceInv, TasksOnce
  <2>3. \A r \in rooms : HeldOnce(tasks[r])' <=> HeldOnce(tasks'[r])
    BY DEF HeldOnce
  <2> QED
    BY <1>1, <1>4, <1>5, <2>2, <2>3 DEF OnceInv, TasksOnce
<1>8. Kept' \subseteq Kept /\ Kept \ ds \subseteq Kept'
  <2>1. Kept' = ToSet(commands) \cup ({sending} \ {NoCaller}) \cup
                UNION {IF r \in Handles THEN Carried(r) ELSE {} : r \in rooms}
    BY <1>1, <1>4, <1>5 DEF Kept
  <2>2. UNION {IF r \in Handles THEN Carried(r) ELSE {} : r \in rooms}
          = UNION {Carried(r) : r \in rooms \cap Handles}
    OBVIOUS
  <2>3. \A r \in Handles \ rooms : Carried(r) \subseteq ds
    BY DEF Carried
  <2> HIDE DEF ds
  <2> QED
    BY <2>1, <2>2, <2>3 DEF Kept
<1>9. KeptWait'
  <2> HIDE DEF ds
  <2> QED
    BY <1>1, <1>8, KeptShrinks DEF OnceInv
<1> QED
  BY <1>6, <1>7, <1>9 DEF OnceInv

\* What is not a task's: a call on its way, a change of the config.
LEMMA OutsideOnce ==
  ASSUME IInv, OnceInv, tasks' = tasks, ChannelOnce', KeptWait',
         \A c \in Callers : c \in ToSet(commands') \/ c = sending'
                            => c \in ToSet(commands) \/ c = sending \/ c \notin Kept
  PROVE  OnceInv'
<1>1. Handles' = Handles
  BY DEF Handles
<1>2. \A r \in Handles : /\ HeldOnce(tasks[r])' = HeldOnce(tasks[r])
                        /\ Carried(r)' = Carried(r)
  BY DEF HeldOnce, Carried, CallbacksOf
<1>3. \A r \in Handles : \A c \in Carried(r) : c \in Callers /\ c \in Kept
  BY TaskOf DEF Kept, Carried
<1>4. TasksOnce'
  BY <1>1, <1>2, <1>3 DEF TasksOnce, OnceInv
<1> QED
  BY <1>4 DEF OnceInv

LEMMA StepOnce ==
  ASSUME IInv, OnceInv, [Next]_vars
  PROVE  OnceInv'
<1> DEFINE inTasks == UNION {Carried(r) : r \in Handles}
<1>0. /\ commands \in Seq(Callers) /\ sending \in Callers \cup {NoCaller}
      /\ pc \in [Callers -> {"idle", "ended"} \cup InFlight] /\ NoCaller \notin Callers
      /\ IsInjective(commands) /\ sending \notin ToSet(commands)
      /\ Kept = ToSet(commands) \cup ({sending} \ {NoCaller}) \cup inTasks
      /\ ToSet(commands) \subseteq Callers
  <2>1. ToSet(commands) \subseteq Callers
    BY LenProperties, ElementOfSeq DEF IInv, TypeOK, ToSet
  <2> QED
    BY <2>1, ConstantsOK DEF IInv, TypeOK, OnceInv, ChannelOnce, Kept
<1>1. tasks' = tasks => inTasks' = inTasks
  BY DEF Handles, Carried, CallbacksOf
<1>2. Kept' = ToSet(commands') \cup ({sending'} \ {NoCaller}) \cup inTasks'
  BY DEF Kept
<1> HIDE DEF inTasks
<1>3. CASE /\ UNCHANGED <<tasks, commands, sending>>
           /\ pc' \in [Callers -> {"idle", "ended"} \cup InFlight]
           /\ \A c \in Callers : \/ pc'[c] = pc[c] \/ pc'[c] = "ended"
                                 \/ pc[c] = "idle" /\ pc'[c] = "sending"
  <2>1. Kept' = Kept
    BY <1>0, <1>1, <1>2, <1>3
  <2>2. Kept \subseteq Callers
    BY <1>0, TaskOf DEF Kept, Carried
  <2>3. KeptWait'
    BY <1>3, <2>1, <2>2 DEF OnceInv, KeptWait
  <2>4. ChannelOnce'
    BY <1>3 DEF OnceInv, ChannelOnce
  <2> QED
    BY <1>3, <2>3, <2>4, OutsideOnce
<1>4. ASSUME NEW c \in Callers, Call(c) \/ TimeOut(c) \/ Abandon(c) PROVE OnceInv'
  BY <1>0, <1>3, <1>4 DEF Call, TimeOut, Abandon, End, InFlight
<1>5. CASE Join \/ Leave \/ UNCHANGED vars
  BY <1>0, <1>3, <1>5 DEF Join, Leave, Change, vars
<1>6. ASSUME NEW c \in Callers, Send(c) PROVE OnceInv'
  <2>1. /\ commands' = Append(commands, c) /\ pc' = [pc EXCEPT ![c] = "waiting"]
        /\ UNCHANGED <<sending, tasks>> /\ pc[c] = "sending"
    BY <1>6 DEF Send
  <2>2. c \notin Kept /\ c # NoCaller
    BY <1>0, <2>1 DEF OnceInv, KeptWait
  <2>3. ToSet(commands') = ToSet(commands) \cup {c} /\ IsInjective(commands')
    BY <1>0, <2>1, <2>2, Appended
  <2>4. Kept' = Kept \cup {c}
    BY <1>0, <1>1, <1>2, <2>1, <2>3
  <2>5. KeptWait'
    BY <1>0, <2>1, <2>2, <2>4 DEF OnceInv, KeptWait
  <2>6. ChannelOnce'
    BY <1>0, <2>1, <2>2, <2>3 DEF ChannelOnce
  <2> QED
    BY <2>1, <2>2, <2>3, <2>5, <2>6, OutsideOnce
<1>7. CASE Take
  <2>1. /\ sending = NoCaller /\ commands # <<>> /\ sending' = Head(commands)
        /\ commands' = Tail(commands) /\ UNCHANGED <<tasks, pc>>
    BY <1>7 DEF Take
  <2>2. /\ ToSet(commands) = ToSet(commands') \cup {sending'} /\ IsInjective(commands')
        /\ sending' \notin ToSet(commands')
    BY <1>0, <2>1, Dequeued
  <2>3. Kept' = Kept
    BY <1>0, <1>1, <1>2, <2>1, <2>2
  <2>4. ChannelOnce' /\ KeptWait'
    BY <2>1, <2>2, <2>3 DEF OnceInv, KeptWait, ChannelOnce
  <2> QED
    BY <2>1, <2>2, <2>4, OutsideOnce
<1>8. CASE Refuse
  <2>1. /\ sending # NoCaller /\ sending' = NoCaller /\ pc' = End({sending})
        /\ UNCHANGED <<tasks, commands>>
    BY <1>8 DEF Refuse
  <2>2. Kept' \subseteq Kept /\ Kept \ {sending} \subseteq Kept'
    BY <1>0, <1>1, <1>2, <2>1
  <2>3. KeptWait'
    BY <2>1, <2>2, KeptShrinks DEF OnceInv
  <2>4. ChannelOnce'
    BY <1>0, <2>1 DEF ChannelOnce
  <2> QED
    BY <1>0, <2>1, <2>3, <2>4, OutsideOnce
<1> QED
  BY <1>4, <1>5, <1>6, <1>7, <1>8, LookOnce, HandOnce, UpOnce, DoneOnce, EndsOnce, ServeOnce,
     ForwardOnce DEF Next, Loop, RoomStep

-----------------------------------------------------------------------------
\* From here to the number of places.
LEMMA Occurrences ==
  ASSUME NEW S, NEW s \in Seq(S), IsInjective(s), NEW e
  PROVE  /\ e \in ToSet(s) => \E k : {i \in DOMAIN s : s[i] = e} = {k}
         /\ e \notin ToSet(s) => {i \in DOMAIN s : s[i] = e} = {}
BY DEF ToSet, IsInjective

LEMMA PlaceInTask ==
  ASSUME NEW t \in Tasks, Len(t.queue) <= 1, HeldOnce(t), NEW c \in Callers
  PROVE  /\ c \in CallbacksOf(t) => \E p : PlacesIn(t, c) = {p}
         /\ c \notin CallbacksOf(t) => PlacesIn(t, c) = {}
<1> DEFINE inQueue == {k \in DOMAIN t.queue : t.queue[k] = c}
           inDownloads == {k \in DOMAIN t.downloads : t.downloads[k] = c}
           parts == {<<"rpc", k>> : k \in t.rpcs \cap {c}} \cup
                    {<<"held", k>> : k \in {t.held} \cap {c}}
<1>1. PlacesIn(t, c) = {<<"queue", i>> : i \in inQueue} \cup parts \cup
                       {<<"download", i>> : i \in inDownloads}
  BY DEF PlacesIn
<1>2. /\ c \in ToSet(t.queue) => \E k : inQueue = {k}
      /\ c \notin ToSet(t.queue) => inQueue = {}
  <2>1. t.queue \in Seq(Callers) /\ DOMAIN t.queue = 1 .. Len(t.queue) /\ Len(t.queue) \in Nat
    BY PartsTyped, LenProperties
  <2>2. IsInjective(t.queue)
    BY <2>1 DEF IsInjective
  <2> QED
    BY <2>1, <2>2, Occurrences
<1>3. /\ c \in ToSet(t.downloads) => \E k : inDownloads = {k}
      /\ c \notin ToSet(t.downloads) => inDownloads = {}
  BY PartsTyped, Occurrences DEF HeldOnce
<1>4. parts = (IF c \in t.rpcs THEN {<<"rpc", c>>} ELSE {}) \cup
              (IF t.held = c THEN {<<"held", c>>} ELSE {})
  OBVIOUS
<1>5. CallbacksOf(t) = ToSet(t.queue) \cup t.rpcs \cup {t.held} \cup ToSet(t.downloads)
  BY DEF CallbacksOf
<1>6. t.rpcs \cap ToSet(t.downloads) = {} /\ t.held \notin t.rpcs
  BY PartsTyped
<1> HIDE DEF inQueue, inDownloads, parts
<1>7. CASE c \in ToSet(t.queue)
  <2>1. parts = {} /\ inDownloads = {}
    BY <1>3, <1>4, <1>7 DEF HeldOnce
  <2>2. PICK k : inQueue = {k}
    BY <1>2, <1>7
  <2>3. PlacesIn(t, c) = {<<"queue", k>>}
    BY <1>1, <2>1, <2>2
  <2> QED
    BY <1>5, <1>7, <2>3
<1>8. CASE c \in t.rpcs
  <2>1. parts = {<<"rpc", c>>} /\ inQueue = {} /\ inDownloads = {}
    BY <1>2, <1>3, <1>4, <1>6, <1>8 DEF HeldOnce
  <2>2. PlacesIn(t, c) = {<<"rpc", c>>}
    BY <1>1, <2>1
  <2> QED
    BY <1>5, <1>8, <2>2
<1>9. CASE c = t.held
  <2>1. parts = {<<"held", c>>} /\ inQueue = {} /\ inDownloads = {}
    BY <1>2, <1>3, <1>4, <1>6, <1>9 DEF HeldOnce
  <2>2. PlacesIn(t, c) = {<<"held", c>>}
    BY <1>1, <2>1
  <2> QED
    BY <1>5, <1>9, <2>2
<1>10. CASE c \in ToSet(t.downloads)
  <2>1. parts = {} /\ inQueue = {}
    BY <1>2, <1>4, <1>6, <1>10 DEF HeldOnce
  <2>2. PICK k : inDownloads = {k}
    BY <1>3, <1>10
  <2>3. PlacesIn(t, c) = {<<"download", k>>}
    BY <1>1, <2>1, <2>2
  <2> QED
    BY <1>5, <1>10, <2>3
<1>11. CASE c \notin CallbacksOf(t)
  <2>1. parts = {} /\ inQueue = {} /\ inDownloads = {}
    BY <1>2, <1>3, <1>4, <1>5, <1>11
  <2>2. PlacesIn(t, c) = {}
    BY <1>1, <2>1
  <2> QED
    BY <1>11, <2>2
<1> QED
  BY <1>5, <1>7, <1>8, <1>9, <1>10, <1>11

\* The way of a command from the API call to the room's download or RPC never loses or
\* doubles it, for any rooms, calls and sizes of the channels.
THEOREM CommandAlwaysKept == Spec => []CommandKept
<1>1. IInv /\ OnceInv => CommandKept
  <2> SUFFICES ASSUME IInv, OnceInv, NEW c \in Callers, pc[c] = "waiting"
               PROVE  /\ Cardinality(Places(c)) = 1
                      /\ \A r \in Handles \ {Target[c]} : PlacesIn(tasks[r], c) = {}
    BY DEF CommandKept
  <2> DEFINE inChannel == {k \in DOMAIN commands : commands[k] = c}
             inRooms == UNION {{<<"room", r, p>> : p \in PlacesIn(tasks[r], c)} : r \in Handles}
             inLoop == {<<"loop", k>> : k \in {sending} \cap {c}}
  <2>1. Places(c) = {<<"channel", i>> : i \in inChannel} \cup inLoop \cup inRooms
    BY DEF Places
  <2>2. c \in Kept /\ c # NoCaller
    BY ConstantsOK DEF OnceInv, KeptWait
  <2>3. \A r \in Handles : /\ c \in Carried(r)
                              => r = Target[c] /\ \E p : PlacesIn(tasks[r], c) = {p}
                           /\ c \notin Carried(r) => PlacesIn(tasks[r], c) = {}
    <3> SUFFICES ASSUME NEW r \in Handles
                 PROVE  /\ c \in Carried(r)
                           => r = Target[c] /\ \E p : PlacesIn(tasks[r], c) = {p}
                        /\ c \notin Carried(r) => PlacesIn(tasks[r], c) = {}
      OBVIOUS
    <3>1. tasks[r] \in Tasks /\ Len(tasks[r].queue) <= 1 /\ HeldOnce(tasks[r])
      BY TaskOf DEF OnceInv, TasksOnce
    <3>2. c \in Carried(r) <=> c \in CallbacksOf(tasks[r])
      BY <2>2 DEF Carried
    <3>3. c \in Carried(r) => r = Target[c]
      BY TaskOf DEF Carried
    <3> QED
      BY <3>1, <3>2, <3>3, PlaceInTask
  <2>4. \A r \in Handles \ {Target[c]} : PlacesIn(tasks[r], c) = {}
    BY <2>3
  <2>5. /\ c \in ToSet(commands) => \E k : inChannel = {k}
        /\ c \notin ToSet(commands) => inChannel = {}
    BY Occurrences DEF IInv, TypeOK, OnceInv, ChannelOnce
  <2>6. inLoop = IF sending = c THEN {<<"loop", c>>} ELSE {}
    OBVIOUS
  <2>7. (\A r \in Handles : c \notin Carried(r)) => inRooms = {}
    BY <2>3
  <2>8. \E p : Places(c) = {p}
    <3> HIDE DEF inChannel, inLoop
    <3>1. CASE c \in ToSet(commands)
      <4>1. inLoop = {} /\ inRooms = {}
        BY <2>6, <2>7, <3>1 DEF OnceInv, ChannelOnce, TasksOnce
      <4>2. PICK k : inChannel = {k}
        BY <2>5, <3>1
      <4> HIDE DEF inRooms
      <4>3. Places(c) = {<<"channel", k>>}
        BY <2>1, <4>1, <4>2
      <4> QED
        BY <4>3
    <3>2. CASE c = sending
      <4>1. inLoop = {<<"loop", c>>} /\ inRooms = {} /\ inChannel = {}
        BY <2>5, <2>6, <2>7, <3>2 DEF OnceInv, ChannelOnce, TasksOnce
      <4> HIDE DEF inRooms
      <4>2. Places(c) = {<<"loop", c>>}
        BY <2>1, <4>1
      <4> QED
        BY <4>2
    <3>3. ASSUME NEW r \in Handles, c \in Carried(r)
          PROVE  \E p : Places(c) = {p}
      <4>1. inChannel = {} /\ inLoop = {}
        BY <2>5, <2>6, <3>3 DEF OnceInv, TasksOnce
      <4>2. PICK p : PlacesIn(tasks[r], c) = {p}
        BY <2>3, <3>3
      <4>3. inRooms = {<<"room", r, p>>}
        <5>1. \A s \in Handles : s # r => PlacesIn(tasks[s], c) = {}
          BY <2>3, <3>3
        <5> QED
          BY <4>2, <5>1
      <4> HIDE DEF inRooms
      <4>4. Places(c) = {<<"room", r, p>>}
        BY <2>1, <4>1, <4>3
      <4> QED
        BY <4>4
    <3> QED
      BY <2>2, <3>1, <3>2, <3>3 DEF Kept
  <2> QED
    BY <2>4, <2>8, FS_Singleton
<1> QED
  BY InitIInv, StepIInv, InitOnce, StepOnce, <1>1, PTL DEF Spec

=============================================================================
