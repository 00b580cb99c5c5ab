-------------------------- MODULE CommunityMessages --------------------------
(***************************************************************************)
(* The message download of one community room                              *)
(* (worker/community/download_community_messages.rs): a cursor of the      *)
(* earliest message id and the latest sequence number, one copy in memory  *)
(* and one in the database, moved by polls for later messages and commands *)
(* for earlier ones, a page of LOAD_LIMIT entries at a time.               *)
(*                                                                         *)
(* A reply is handled before the task asks again, so a request, its reply  *)
(* and the save are one step.  has_earlier_messages is set to true and to  *)
(* nothing else, and is left out with the branch it guards.  A row's text  *)
(* is never updated (INSERT OR IGNORE), its reactions are at every save.   *)
(* Rows are hidden by server id alone, whatever their room: another room's *)
(* deletion of message 5 hides message 5 of this one.                      *)
(***************************************************************************)
EXTENDS Naturals, FiniteSets, FiniteSetsExt

CONSTANTS
  Limit,        \* LOAD_LIMIT; 256 in the code
  MaxSeq,       \* bound: events in the room
  MaxFailures,  \* bound: transactions that fail
  MaxRestarts,  \* bound: restarts of the process
  MaxElsewhere  \* bound: message ids deleted in the other rooms

ASSUME ConstantsOK ==
  /\ Limit \in Nat \ {0} /\ MaxSeq \in Nat /\ MaxFailures \in Nat /\ MaxRestarts \in Nat
  /\ MaxElsewhere \in Nat

VARIABLES
  room,      \* the server: what each message id is and its sequence number
  lastSeq,   \* the server: events so far
  task,      \* start, initial, polling, or ended
  mem,       \* the task's sync_state
  stored,    \* community_message_sync_state
  saved,     \* messages: the event each row's reactions are as of (0: no row)
  marked,    \* messages: the rows whose delete_state is DELETED
  skipped,   \* history: a page was saved over a cursor the database never had
  elsewhere, \* history: the ids whose deletion in another room was saved
  failures, restarts

client == <<task, mem, stored, saved, marked, skipped, elsewhere, failures, restarts>>
vars == <<room, lastSeq, client>>

Ids == 1..MaxSeq
Kinds == {"none", "live", "garbled", "deleted"}

Cursor(earliest, latest) == [earliest |-> earliest, latest |-> latest]
NoState == Cursor(0, MaxSeq + 1)

\* Before anything is saved the task works from the cursor of an empty room.
EmptyRoom == Cursor(0, 0)
Recorded == IF stored = NoState THEN EmptyRoom ELSE stored

Of(kind, ids) == {i \in ids : room[i].kind = kind}

Init ==
  /\ room = [i \in Ids |-> [kind |-> "none", seq |-> 0]] /\ lastSeq = 0
  /\ task = "start" /\ mem = NoState /\ stored = NoState
  /\ saved = [i \in Ids |-> 0] /\ marked = {}
  /\ skipped = FALSE /\ elsewhere = {} /\ failures = 0 /\ restarts = 0

-----------------------------------------------------------------------------
\* The room's server.

NextId == Cardinality(Ids \ Of("none", Ids)) + 1

Event(i, kind) ==
  /\ lastSeq < MaxSeq
  /\ lastSeq' = lastSeq + 1
  /\ room' = [room EXCEPT ![i] = [kind |-> kind, seq |-> lastSeq + 1]]
  /\ UNCHANGED client

Post == \E kind \in {"live", "garbled"} : NextId \in Ids /\ Event(NextId, kind)
\* A reaction or an edit.
Update == \E i \in Of("live", Ids) : Event(i, "live")
Delete == \E i \in Of("live", Ids) \cup Of("garbled", Ids) : Event(i, "deleted")

\* Pages of at most Limit entries: by sequence number and with the deletions,
\* or by id and without them.
Since(seq) ==
  LET later == {i \in Ids \ Of("none", Ids) : room[i].seq > seq}
  IN  {i \in later : Cardinality({j \in later : room[j].seq < room[i].seq}) < Limit}

Before(id) ==
  LET earlier == {i \in Of("live", Ids) \cup Of("garbled", Ids) : i < id}
  IN  {i \in earlier : Cardinality({j \in earlier : j > i}) < Limit}

Recent == Before(MaxSeq + 1)

-----------------------------------------------------------------------------
\* Mutant: every page moves both ends.
AdvanceBoth(state, page, updateEarliest, updateLatest) ==
  LET live == Of("live", page)
  IN  IF live = {} THEN state
      ELSE Cursor(Min(live), Max({room[i].seq : i \in live}))

\* The cursor after a page: only messages that decode move it.
Advance(state, page, updateEarliest, updateLatest) ==
  LET live == Of("live", page)
  IN  IF live = {} THEN state
      ELSE [earliest |-> IF updateEarliest THEN Min(live) ELSE state.earliest,
            latest |-> IF updateLatest THEN Max({room[i].seq : i \in live}) ELSE state.latest]

\* save_community_message_reactions: a row's reactions are replaced.
SaveReactions(live) == saved' = [i \in Ids |-> IF i \in live THEN room[i].seq ELSE saved[i]]

\* Mutant: the rows of the ids from the first one on.
RowsFrom(ids) == {i \in Ids : saved[i] # 0 /\ \E j \in ids : i >= j}

\* update_message_delete_state finds the rows that are there before the page.
Rows(ids) == {i \in ids : saved[i] # 0}

\* Mutant: the cursor in memory stays where it was.
SaveOnDiskOnly(state, page, updateEarliest, updateLatest) ==
  LET live == Of("live", page)
      empty == live \cup Of("deleted", page) = {}
  IN  /\ mem' = state
      /\ stored' = IF empty THEN stored
                   ELSE Advance(state, page, updateEarliest, updateLatest)
      /\ SaveReactions(live) /\ marked' = marked \cup Rows(Of("deleted", page))
      /\ UNCHANGED skipped

\* save_messages_and_sync_state: the task's cursor moves first; then one
\* transaction saves the messages and reactions, marks the deleted and saves
\* the cursor, unless the page has nothing of these.  save_messages ignores a
\* message that is there, so a mark of deletion stays.
SavePage(state, page, updateEarliest, updateLatest) ==
  LET next == Advance(state, page, updateEarliest, updateLatest)
      live == Of("live", page)
      empty == live \cup Of("deleted", page) = {}
  IN  /\ mem' = next
      /\ stored' = IF empty THEN stored ELSE next
      /\ SaveReactions(live)
      /\ marked' = marked \cup Rows(Of("deleted", page))
      /\ skipped' = (skipped \/ (~empty /\ state # Recorded))

\* The transaction fails: the database is as it was, the cursor in memory is not.
LosePage(state, page, updateEarliest, updateLatest) ==
  /\ failures < MaxFailures /\ failures' = failures + 1
  /\ Of("live", page) \cup Of("deleted", page) # {}
  /\ mem' = Advance(state, page, updateEarliest, updateLatest)
  /\ UNCHANGED <<stored, saved, marked, skipped>>

\* Another room's task saves a page that deletes its message i.
DeletedElsewhere ==
  /\ Cardinality(elsewhere) < MaxElsewhere
  /\ \E i \in Ids \ elsewhere :
       elsewhere' = elsewhere \cup {i} /\ marked' = marked \cup Rows({i})
  /\ UNCHANGED <<room, lastSeq, task, mem, stored, saved, skipped, failures, restarts>>

\* The task starts from the stored cursor, or without one.
Start ==
  /\ task = "start"
  /\ mem' = stored
  /\ task' = IF stored = NoState THEN "initial" ELSE "polling"
  /\ UNCHANGED <<room, lastSeq, stored, saved, marked, skipped, elsewhere, failures, restarts>>

\* load_initial_messages: tried until the server answers; a failure to save
\* ends the task.
LoadInitial ==
  /\ task = "initial"
  /\ \/ /\ SavePage(EmptyRoom, Recent, TRUE, TRUE)
        /\ task' = "polling" /\ UNCHANGED failures
     \/ /\ LosePage(EmptyRoom, Recent, TRUE, TRUE)
        /\ task' = "ended"
  /\ UNCHANGED <<room, lastSeq, elsewhere, restarts>>

LoadLatest ==
  /\ task = "polling"
  /\ \/ SavePage(mem, Since(mem.latest), FALSE, TRUE) /\ UNCHANGED failures
     \/ LosePage(mem, Since(mem.latest), FALSE, TRUE)
  /\ UNCHANGED <<room, lastSeq, task, elsewhere, restarts>>

LoadEarlier ==
  /\ task = "polling"
  /\ \/ SavePage(mem, Before(mem.earliest), TRUE, FALSE) /\ UNCHANGED failures
     \/ LosePage(mem, Before(mem.earliest), TRUE, FALSE)
  /\ UNCHANGED <<room, lastSeq, task, elsewhere, restarts>>

Restart ==
  /\ restarts < MaxRestarts /\ restarts' = restarts + 1
  /\ task' = "start" /\ mem' = NoState
  /\ UNCHANGED <<room, lastSeq, stored, saved, marked, skipped, elsewhere, failures>>

Next ==
  \/ Post \/ Update \/ Delete
  \/ Start \/ LoadInitial \/ LoadLatest \/ LoadEarlier \/ DeletedElsewhere \/ Restart

Spec == Init /\ [][Next]_vars

\* Polls come again and again, and the server answers some of them; nobody has
\* to ask for earlier messages.
Fairness == WF_vars(Start) /\ WF_vars(LoadInitial) /\ WF_vars(LoadLatest)

FairSpec == Spec /\ Fairness

-----------------------------------------------------------------------------
Cursors == [earliest : 0..MaxSeq, latest : 0..MaxSeq] \cup {NoState}

TypeOK ==
  /\ room \in [Ids -> [kind : Kinds, seq : 0..MaxSeq]] /\ lastSeq \in 0..MaxSeq
  /\ task \in {"start", "initial", "polling", "ended"}
  /\ mem \in Cursors /\ stored \in Cursors
  /\ saved \in [Ids -> 0..MaxSeq] /\ marked \subseteq Ids
  /\ skipped \in BOOLEAN /\ elsewhere \subseteq Ids
  /\ failures \in 0..MaxFailures /\ restarts \in 0..MaxRestarts

InRange(i) ==
  /\ stored # NoState
  /\ i >= stored.earliest /\ room[i].seq <= stored.latest

\* 16-sync-state.sql:10 "Record the sequence range of messages synced for each
\* community": every message of the recorded range is in the database, with the
\* reactions it had at its last event, and the messages deleted within it are
\* marked, if they had been saved.
RangeIsSynced ==
  \A i \in Ids :
    /\ room[i].kind = "live" /\ InRange(i) => saved[i] = room[i].seq
    /\ room[i].kind = "deleted" /\ saved[i] # 0 /\ InRange(i) => i \in marked

\* The recorded range is right as long as no page was saved after one whose
\* transaction failed: a restart in between repairs the cursor, and nothing
\* else, reactions and deletions while paging either way, opens a gap.
RangeRightUnlessSkipped == ~skipped => RangeIsSynced

\* No row is hidden but by a deletion in some room, its own or another's.
HiddenIsDeleted == \A i \in marked : room[i].kind = "deleted" \/ i \in elsewhere

CaughtUp == task = "polling" /\ \A i \in Of("live", Ids) : room[i].seq <= mem.latest

\* The page after the cursor is full and nothing on it moves the cursor.
Stalled ==
  LET page == Since(mem.latest)
  IN  task = "polling" /\ Cardinality(page) = Limit /\ Of("live", page) = {}

\* The task's cursor passes every message in the end, whatever fails or
\* restarts, but for two ends: the first page could not be saved, which ends
\* the task, or behind the cursor is a whole page of deletions and messages
\* that do not decode, and the task asks for that page for ever.
CaughtUpOrStalled == []<>(CaughtUp \/ Stalled \/ task = "ended")

=============================================================================
