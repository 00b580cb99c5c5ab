---------------------------- MODULE AccountManager ----------------------------
(***************************************************************************)
(* The accounts of the global service (service/manager): the list in       *)
(* memory behind a watch channel, its copy in global.db, the directory of  *)
(* each account, and the running Account behind a list entry.              *)
(*                                                                         *)
(* Requests are served by the threads of the runtime and have no await in  *)
(* them, so one is never cancelled, but two of them interleave wherever    *)
(* the watch's lock is not held.  A process may end anywhere.              *)
(*                                                                         *)
(* "create" is "restore" of an id that was never used.                     *)
(***************************************************************************)
EXTENDS Naturals

CONSTANTS
  Ids,        \* session ids
  Callers,    \* threads that serve requests
  Instances,  \* Accounts started in a run of the process (bound)
  Names,      \* names an account's profile may have
  Default,    \* the empty name of a new entry
  MaxUpdates, \* bound: times a profile is copied to the list
  MaxCrashes, \* bound: crashes
  None

ASSUME ConstantsOK ==
  /\ MaxUpdates \in Nat /\ MaxCrashes \in Nat
  /\ Default \in Names /\ None \notin Names \cup Instances \cup Ids

VARIABLES
  names,    \* what the list says of an account: its name, or None if not listed
  hosted,   \* account_instance of its entry
  rows,     \* the accounts table: the saved list
  disk,     \* the account's directory: gone, without or with its identity
  persist,  \* the task that saves the list
  client,   \* the stream of a client that watches the list
  live,     \* instances whose Account is not dropped: their tasks run
  started,  \* the id each instance was started for
  call,     \* the request each thread serves
  severed,  \* history: ids whose directory went away under a login or a listing
  updates, crashes

vars == <<names, hosted, rows, disk, persist, client, live, started, call,
          severed, updates, crashes>>

Listings == [Ids -> Names \cup {None}]
Nothing == [id \in Ids |-> None]

Idle == [at |-> "idle", id |-> None, account |-> None]

Unstarted == {i \in Instances : started[i] = None}
NextInstance == CHOOSE i \in Unstarted : TRUE

\* send_modify and send_if_modified: every receiver has something unseen.
Notify ==
  /\ persist' = [persist EXCEPT !.unseen = TRUE]
  /\ client' = [client EXCEPT !.unseen = TRUE]

Finish(c) == call' = [call EXCEPT ![c] = Idle]

\* A process that has just read the table; no account runs.
Booted ==
  /\ persist' = [at |-> "wait", unseen |-> FALSE, taken |-> Nothing]
  /\ client' = [at |-> "show", unseen |-> FALSE, shown |-> names']
  /\ hosted' = Nothing /\ live' = {}
  /\ started' = [i \in Instances |-> None]
  /\ call' = [c \in Callers |-> Idle]

Init ==
  /\ names \in [Ids -> {Default, None}] /\ rows = names
  /\ disk = [id \in Ids |-> IF names[id] = None THEN "gone" ELSE "identity"]
  /\ persist = [at |-> "wait", unseen |-> FALSE, taken |-> Nothing]
  /\ client = [at |-> "show", unseen |-> FALSE, shown |-> names]
  /\ hosted = Nothing /\ live = {}
  /\ started = [i \in Instances |-> None]
  /\ call = [c \in Callers |-> Idle]
  /\ severed = {} /\ updates = 0 /\ crashes = 0

-----------------------------------------------------------------------------
(* Requests.                                                               *)

\* Account::new: the account's tasks run from here on.
StartAccount(i, id) ==
  /\ live' = live \cup {i}
  /\ started' = [started EXCEPT ![i] = id]

\* ensure_account_dir.
LoginDir(c, id) ==
  /\ call[c].at = "idle"
  /\ disk' = [disk EXCEPT ![id] = IF @ = "gone" THEN "bare" ELSE @]
  /\ call' = [call EXCEPT ![c] = [Idle EXCEPT !.at = "open", !.id = id]]
  /\ UNCHANGED <<names, hosted, rows, persist, client, live, started, severed, updates, crashes>>

LoginOpens(c) ==
  LET id == call[c].id IN
  /\ call[c].at = "open" /\ disk[id] # "gone" /\ Unstarted # {}
  /\ StartAccount(NextInstance, id)
  /\ disk' = [disk EXCEPT ![id] = "identity"]
  /\ call' = [call EXCEPT ![c].at = "add", ![c].account = NextInstance]
  /\ severed' = severed \ {id}
  /\ UNCHANGED <<names, hosted, rows, persist, client, updates, crashes>>

\* Mutant: a login that failed cleans up after itself.
LoginFailsCleanly(c) ==
  LET id == call[c].id IN
  /\ call[c].at = "open"
  /\ disk' = [disk EXCEPT ![id] = "gone"]
  /\ Finish(c)
  /\ UNCHANGED <<names, hosted, rows, persist, client, live, started, severed, updates, crashes>>

\* The database cannot be opened, or a later part of the account fails.
LoginFails(c) ==
  LET id == call[c].id IN
  /\ call[c].at = "open"
  /\ \/ disk' = disk
     \/ disk[id] # "gone" /\ disk' = [disk EXCEPT ![id] = "identity"]
  /\ Finish(c)
  /\ UNCHANGED <<names, hosted, rows, persist, client, live, started, severed, updates, crashes>>

\* Mutant: the account that was in the entry is not dropped.
LoginAddsBeside(c) ==
  LET id == call[c].id IN
  /\ call[c].at = "add"
  /\ names' = [names EXCEPT ![id] = Default]
  /\ hosted' = [hosted EXCEPT ![id] = call[c].account]
  /\ Notify /\ Finish(c)
  /\ UNCHANGED <<rows, disk, live, started, severed, updates, crashes>>

\* add_account_instance: an entry that was there is overwritten, and the
\* Account in it dropped.
LoginAdds(c) ==
  LET id == call[c].id IN
  /\ call[c].at = "add"
  /\ names' = [names EXCEPT ![id] = Default]
  /\ hosted' = [hosted EXCEPT ![id] = call[c].account]
  /\ live' = live \ {hosted[id]}
  /\ Notify /\ Finish(c)
  /\ UNCHANGED <<rows, disk, started, severed, updates, crashes>>

\* account_dispatch of a listed account: without an instance, the request
\* goes on to the lock; with one it is served and nothing changes.
Dispatch(c, id) ==
  /\ call[c].at = "idle" /\ hosted[id] = None
  /\ call' = [call EXCEPT ![c] = [Idle EXCEPT !.at = "lock", !.id = id]]
  /\ UNCHANGED <<names, hosted, rows, disk, persist, client, live, started, severed, updates, crashes>>

\* Looked at again under the lock: not listed, or started by another request.
DispatchSettled(c) ==
  LET id == call[c].id IN
  /\ call[c].at = "lock"
  /\ names[id] = None \/ hosted[id] # None
  /\ Finish(c)
  /\ UNCHANGED <<names, hosted, rows, disk, persist, client, live, started, severed, updates, crashes>>

\* Account::new under the lock, from the identity in the directory.
DispatchStarts(c) ==
  LET id == call[c].id IN
  /\ call[c].at = "lock" /\ names[id] # None /\ hosted[id] = None
  /\ disk[id] = "identity" /\ Unstarted # {}
  /\ StartAccount(NextInstance, id)
  /\ hosted' = [hosted EXCEPT ![id] = NextInstance]
  /\ Notify /\ Finish(c)
  /\ UNCHANGED <<names, rows, disk, severed, updates, crashes>>

\* No identity found, or another error; the directory and the database file
\* are made on the way.
DispatchFails(c) ==
  LET id == call[c].id IN
  /\ call[c].at = "lock" /\ names[id] # None /\ hosted[id] = None
  /\ disk' = [disk EXCEPT ![id] = IF @ = "gone" THEN "bare" ELSE @]
  /\ Finish(c)
  /\ UNCHANGED <<names, hosted, rows, persist, client, live, started, severed, updates, crashes>>

\* Mutant: receivers are told only if the account was running.
DeleteQuietly(c, id) ==
  /\ call[c].at = "idle"
  /\ names' = [names EXCEPT ![id] = None]
  /\ hosted' = [hosted EXCEPT ![id] = None]
  /\ live' = live \ {hosted[id]}
  /\ IF hosted[id] # None THEN Notify ELSE UNCHANGED <<persist, client>>
  /\ call' = [call EXCEPT ![c] = [Idle EXCEPT !.at = "remove", !.id = id]]
  /\ UNCHANGED <<rows, disk, started, severed, updates, crashes>>

Delete(c, id) ==
  /\ call[c].at = "idle"
  /\ names' = [names EXCEPT ![id] = None]
  /\ hosted' = [hosted EXCEPT ![id] = None]
  /\ live' = live \ {hosted[id]}
  /\ IF names[id] # None THEN Notify ELSE UNCHANGED <<persist, client>>
  /\ call' = [call EXCEPT ![c] = [Idle EXCEPT !.at = "remove", !.id = id]]
  /\ UNCHANGED <<rows, disk, started, severed, updates, crashes>>

\* ensure_account_dir and remove_dir_all.  A directory that cannot be removed
\* may have lost some of its files; the answer is the same.
RemoveDir(c) ==
  LET id == call[c].id IN
  /\ call[c].at = "remove"
  /\ \E d \in {"gone", "bare", disk[id]} : disk' = [disk EXCEPT ![id] = d]
  /\ severed' = IF names[id] # None \/ \E d \in Callers : call[d].at = "add" /\ call[d].id = id
                THEN severed \cup {id} ELSE severed
  /\ Finish(c)
  /\ UNCHANGED <<names, hosted, rows, persist, client, live, started, updates, crashes>>

-----------------------------------------------------------------------------
(* The task that saves the list, and a client that watches it.             *)

PersistWakes ==
  /\ persist.at = "wait" /\ persist.unseen
  /\ persist' = [persist EXCEPT !.at = "take", !.unseen = FALSE]
  /\ UNCHANGED <<names, hosted, rows, disk, client, live, started, call, severed, updates, crashes>>

PersistTakes ==
  /\ persist.at = "take"
  /\ persist' = [persist EXCEPT !.at = "save", !.taken = names]
  /\ UNCHANGED <<names, hosted, rows, disk, client, live, started, call, severed, updates, crashes>>

\* Mutant: what happened meanwhile is marked as seen after the save.
PersistSavesAndSees ==
  /\ persist.at = "save"
  /\ rows' = persist.taken
  /\ persist' = [persist EXCEPT !.at = "wait", !.unseen = FALSE, !.taken = Nothing]
  /\ UNCHANGED <<names, hosted, disk, client, live, started, call, severed, updates, crashes>>

\* save_accounts: rows of accounts that are not in the list are deleted.
PersistSaves ==
  /\ persist.at = "save"
  /\ rows' = persist.taken
  /\ persist' = [persist EXCEPT !.at = "wait", !.taken = Nothing]
  /\ UNCHANGED <<names, hosted, disk, client, live, started, call, severed, updates, crashes>>

\* The task returns the error and nobody starts it again.
PersistFails ==
  /\ persist.at = "save"
  /\ persist' = [persist EXCEPT !.at = "ended", !.taken = Nothing]
  /\ UNCHANGED <<names, hosted, rows, disk, client, live, started, call, severed, updates, crashes>>

\* watch_accounts yields the list, and then waits for a change.
ClientShows ==
  /\ client.at = "show"
  /\ client' = [client EXCEPT !.at = "wait", !.shown = names]
  /\ UNCHANGED <<names, hosted, rows, disk, persist, live, started, call, severed, updates, crashes>>

ClientWakes ==
  /\ client.at = "wait" /\ client.unseen
  /\ client' = [client EXCEPT !.at = "show", !.unseen = FALSE]
  /\ UNCHANGED <<names, hosted, rows, disk, persist, live, started, call, severed, updates, crashes>>

-----------------------------------------------------------------------------
\* Mutant: the entry is changed in place and no receiver is told.
ShowProfileQuietly(i) ==
  LET id == started[i] IN
  /\ id # None /\ names[id] # None /\ updates < MaxUpdates
  /\ \A c \in Callers : call[c].account # i
  /\ \E name \in Names : names' = [names EXCEPT ![id] = name]
  /\ updates' = updates + 1
  /\ UNCHANGED <<hosted, rows, disk, persist, client, live, started, call, severed, crashes>>

\* sync_account_state, the task that copies the profile of an instance to the
\* list: it updates the entry of its id, whosever that is.  It is not one of
\* the Account's tasks and goes on when the Account is dropped.
ShowProfile(i) ==
  LET id == started[i] IN
  /\ id # None /\ names[id] # None /\ updates < MaxUpdates
  /\ \A c \in Callers : call[c].account # i
  /\ \E name \in Names : names' = [names EXCEPT ![id] = name]
  /\ Notify /\ updates' = updates + 1
  /\ UNCHANGED <<hosted, rows, disk, live, started, call, severed, crashes>>

\* The process ends, and a new one reads the table.
Crash ==
  /\ crashes < MaxCrashes /\ crashes' = crashes + 1
  /\ names' = rows
  /\ severed' = severed \cup {id \in Ids : names[id] = None /\ rows[id] # None}
  /\ Booted
  /\ UNCHANGED <<rows, disk, updates>>

Request(c) ==
  \/ \E id \in Ids : LoginDir(c, id) \/ Dispatch(c, id) \/ Delete(c, id)
  \/ LoginOpens(c) \/ LoginFails(c) \/ LoginAdds(c)
  \/ DispatchSettled(c) \/ DispatchStarts(c) \/ DispatchFails(c)
  \/ RemoveDir(c)

Persist == PersistWakes \/ PersistTakes \/ PersistSaves \/ PersistFails
Client == ClientShows \/ ClientWakes

Next ==
  \/ \E c \in Callers : Request(c)
  \/ Persist \/ Client
  \/ \E i \in Instances : ShowProfile(i)
  \/ Crash

Spec == Init /\ [][Next]_vars

\* The runtime runs every task that can go on; requests are made by choice.
FairSpec == Spec /\ WF_vars(Persist) /\ WF_vars(Client)

-----------------------------------------------------------------------------
(* Properties.                                                             *)

TypeOK ==
  /\ names \in Listings /\ rows \in Listings
  /\ hosted \in [Ids -> Instances \cup {None}]
  /\ \A id \in Ids : hosted[id] # None => names[id] # None \* it is in the entry
  /\ disk \in [Ids -> {"gone", "bare", "identity"}]
  /\ persist \in [at : {"wait", "take", "save", "ended"}, unseen : BOOLEAN, taken : Listings]
  /\ client \in [at : {"show", "wait"}, unseen : BOOLEAN, shown : Listings]
  /\ live \subseteq Instances
  /\ started \in [Instances -> Ids \cup {None}]
  /\ call \in [Callers -> [at : {"idle", "open", "add", "lock", "remove"},
                          id : Ids \cup {None}, account : Instances \cup {None}]]
  /\ severed \subseteq Ids /\ updates \in 0..MaxUpdates /\ crashes \in 0..MaxCrashes

\* A crash while the saving task waits with nothing unseen loses nothing: the
\* table then is the list, with every login, deletion and name in it.
RowsAreCurrent == persist.at = "wait" /\ ~persist.unseen => rows = names

\* An Account that runs belongs to a list entry or to a login in flight: after
\* a deletion or a second login nothing goes on syncing the old one.
NoAccountLeaks ==
  \A i \in live :
    \/ \E id \in Ids : hosted[id] = i /\ names[id] # None
    \/ \E c \in Callers : call[c].at = "add" /\ call[c].account = i

\* A listed account has its identity on disk, so that it can be opened after
\* a restart, unless a deletion's removal of the directory overlapped a login,
\* or a crash came between a deletion and its save.
ListedCanBeOpened ==
  \A id \in Ids : names[id] # None /\ id \notin severed => disk[id] = "identity"

\* Every change of the list is saved in the end, unless a save failed.
ListIsSaved == []<>(rows = names \/ persist.at = "ended")

\* A client that watches the list shows it in the end, whatever changed
\* between the yield and the wait for a change.
ListIsShown == []<>(client.shown = names)
=============================================================================
