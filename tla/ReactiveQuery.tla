----------------------------- MODULE ReactiveQuery -----------------------------
(***************************************************************************)
(* The reactive database (utils/sqlite/reactive.rs) and the streams of     *)
(* query results it feeds: the account service's lists of contacts and     *)
(* conversations and its conversation details, each an HTTP response body  *)
(* that goes on for as long as its client listens.                         *)
(*                                                                         *)
(* Writers run closures on a connection, or in a transaction; after one    *)
(* that went well the tables it changed are broadcast on a channel that    *)
(* keeps one message.  A stream runs its query once, subscribes, and runs  *)
(* it again when a table it reads is named, at most once in a debounce     *)
(* time.  The contents of a table are its version.                         *)
(***************************************************************************)
EXTENDS Naturals, FiniteSets

CONSTANTS
  Tables,
  Queries,    \* one stream each: a client that can come and go
  Reads,      \* Reads[q]: the tables q reads
  Writers,    \* threads in with_connection or with_transaction
  MaxWrites   \* bound: statements that write, and closures begun before the last

ASSUME ConstantsOK ==
  /\ Reads \in [Queries -> SUBSET Tables]
  /\ MaxWrites \in Nat

VARIABLES
  rows,       \* the committed version of each table
  at,         \* where each writer is
  changed,    \* its TRACKING_TABLE_CHANGES
  phase,      \* of each stream: "absent", "opening", "open", "broken"
  latest,     \* the last result the stream got
  inbox,      \* its broadcast receiver: the tables of the message in it, if any
  lagged,     \* ... or the error that one was lost
  throttled,  \* the debounce time since its last item is not over
  frame,      \* the body: "first" (item to come), "idle", "header" or "data" (sent)
  shown,      \* the last result whose data frame was sent
  blind,      \* history: tables it reads changed and it was not told
  writes

writerVars == <<rows, at, changed, writes>>
streamVars == <<phase, latest, inbox, lagged, throttled, frame, shown, blind>>
vars == <<writerVars, streamVars>>

Listening == {q \in Queries : phase[q] \in {"opening", "open"}}

\* tables_to_watch: the tables whose root pages EXPLAIN says the query opens.  One
\* read through a covering index alone would be missing; no query that is watched
\* has such a table.
Watched(q) == Reads[q]
Touched(q, ts) == Watched(q) \cap ts # {}

\* What q returns now.
Result(q) == [t \in Reads[q] |-> rows[t]]
Nowhere(q) == [t \in Reads[q] |-> 0]

Init ==
  /\ rows = [t \in Tables |-> 0] /\ writes = 0
  /\ at = [w \in Writers |-> "idle"] /\ changed = [w \in Writers |-> {}]
  /\ phase = [q \in Queries |-> "absent"]
  /\ latest = [q \in Queries |-> Nowhere(q)] /\ shown = [q \in Queries |-> Nowhere(q)]
  /\ inbox = [q \in Queries |-> {}] /\ lagged = [q \in Queries |-> FALSE]
  /\ throttled = [q \in Queries |-> FALSE] /\ blind = [q \in Queries |-> FALSE]
  /\ frame = [q \in Queries |-> "first"]

-----------------------------------------------------------------------------
\* Writers.

Begin(w) ==
  /\ at[w] = "idle"
  /\ \E scope \in {"connection", "transaction"} : at' = [at EXCEPT ![w] = scope]
  /\ UNCHANGED <<rows, changed, writes, streamVars>>

\* A statement outside a transaction is committed by itself.
Statement(w, t) ==
  /\ at[w] \in {"connection", "transaction"}
  /\ changed' = [changed EXCEPT ![w] = @ \cup {t}]
  /\ rows' = IF at[w] = "connection" THEN [rows EXCEPT ![t] = @ + 1] ELSE rows
  /\ UNCHANGED <<at, streamVars>>

AnyStatement(w, t) == writes < MaxWrites /\ writes' = writes + 1 /\ Statement(w, t)

Finish(w) ==
  /\ at[w] \in {"connection", "transaction"}
  /\ rows' = IF at[w] = "connection" THEN rows
             ELSE [t \in Tables |-> IF t \in changed[w] THEN rows[t] + 1 ELSE rows[t]]
  /\ at' = [at EXCEPT ![w] = IF changed[w] = {} THEN "idle" ELSE "announcing"]
  /\ UNCHANGED <<changed, writes, streamVars>>

\* The closure fails: the transaction is rolled back; statements that were
\* committed by themselves stay, and nobody is told.
Fail(w) ==
  /\ at[w] \in {"connection", "transaction"}
  /\ blind' = [q \in Queries |->
                 blind[q] \/ (at[w] = "connection" /\ q \in Listening /\ Touched(q, changed[w]))]
  /\ at' = [at EXCEPT ![w] = "idle"] /\ changed' = [changed EXCEPT ![w] = {}]
  /\ UNCHANGED <<rows, writes, phase, latest, inbox, lagged, throttled, frame, shown>>

Hears(q) == phase[q] = "open"

\* Mutant: the last message takes the place of one not read.
DeliverOver(ts) ==
  /\ inbox' = [q \in Queries |-> IF Hears(q) THEN ts ELSE inbox[q]]
  /\ UNCHANGED lagged

\* The channel has one place: a receiver with an unread message lags.
Deliver(ts) ==
  /\ inbox' = [q \in Queries |-> CASE ~Hears(q) -> inbox[q]
                                    [] Hears(q) /\ inbox[q] = {} /\ ~lagged[q] -> ts
                                    [] OTHER -> {}]
  /\ lagged' = [q \in Queries |-> lagged[q] \/ (Hears(q) /\ inbox[q] # {})]

Announce(w) ==
  /\ at[w] = "announcing"
  /\ Deliver(changed[w])
  /\ blind' = [q \in Queries |->
                 blind[q] \/ (phase[q] = "opening" /\ Touched(q, changed[w]))]
  /\ at' = [at EXCEPT ![w] = "idle"] /\ changed' = [changed EXCEPT ![w] = {}]
  /\ UNCHANGED <<rows, writes, phase, latest, throttled, frame, shown>>

-----------------------------------------------------------------------------
\* A stream, and the body of the response that it is sent in.

FirstRun(q) == latest' = [latest EXCEPT ![q] = Result(q)]

\* The request: the first run of the query.
Open(q) ==
  /\ phase[q] = "absent" /\ phase' = [phase EXCEPT ![q] = "opening"]
  /\ FirstRun(q)
  /\ UNCHANGED <<writerVars, inbox, lagged, throttled, frame, shown, blind>>

\* ... and only then the subscription.
Subscribe(q) ==
  /\ phase[q] = "opening" /\ phase' = [phase EXCEPT ![q] = "open"]
  /\ UNCHANGED <<writerVars, latest, inbox, lagged, throttled, frame, shown, blind>>

\* The first item is not subject to the debounce.
FirstItem(q) ==
  /\ phase[q] = "open" /\ frame[q] = "first"
  /\ frame' = [frame EXCEPT ![q] = "header"]
  /\ UNCHANGED <<writerVars, phase, latest, inbox, lagged, throttled, shown, blind>>

\* The body polls the stream between two items, and the stream its receiver when
\* the debounce time is over.
Polled(q) == phase[q] = "open" /\ frame[q] = "idle" /\ ~throttled[q]

Skip(q) ==
  /\ Polled(q) /\ inbox[q] # {} /\ ~Touched(q, inbox[q])
  /\ inbox' = [inbox EXCEPT ![q] = {}]
  /\ UNCHANGED <<writerVars, phase, latest, lagged, throttled, frame, shown, blind>>

\* The query is run again; the next item waits for the debounce time.
Refetch(q) ==
  /\ Polled(q) /\ Touched(q, inbox[q])
  /\ inbox' = [inbox EXCEPT ![q] = {}]
  /\ latest' = [latest EXCEPT ![q] = Result(q)] /\ blind' = [blind EXCEPT ![q] = FALSE]
  /\ throttled' = [throttled EXCEPT ![q] = TRUE]
  /\ frame' = [frame EXCEPT ![q] = "header"]
  /\ UNCHANGED <<writerVars, phase, lagged, shown>>

\* Everything of a stream is gone with it.
Gone(q, p) ==
  /\ phase' = [phase EXCEPT ![q] = p]
  /\ latest' = [latest EXCEPT ![q] = Nowhere(q)] /\ shown' = [shown EXCEPT ![q] = Nowhere(q)]
  /\ inbox' = [inbox EXCEPT ![q] = {}] /\ lagged' = [lagged EXCEPT ![q] = FALSE]
  /\ blind' = [blind EXCEPT ![q] = FALSE]
  /\ throttled' = [throttled EXCEPT ![q] = FALSE] /\ frame' = [frame EXCEPT ![q] = "first"]
  /\ UNCHANGED writerVars

\* An item that is an error ends the body: a lag, or a query that failed.
Break(q) ==
  /\ Polled(q) /\ (lagged[q] \/ Touched(q, inbox[q]))
  /\ Gone(q, "broken")

SendData(q) ==
  /\ frame[q] = "header" /\ frame' = [frame EXCEPT ![q] = "data"]
  /\ shown' = [shown EXCEPT ![q] = latest[q]]
  /\ UNCHANGED <<writerVars, phase, latest, inbox, lagged, throttled, blind>>

SendEnd(q) ==
  /\ frame[q] = "data" /\ frame' = [frame EXCEPT ![q] = "idle"]
  /\ UNCHANGED <<writerVars, phase, latest, inbox, lagged, throttled, shown, blind>>

DebounceOver(q) ==
  /\ throttled[q] /\ throttled' = [throttled EXCEPT ![q] = FALSE]
  /\ UNCHANGED <<writerVars, phase, latest, inbox, lagged, frame, shown, blind>>

\* The client goes, or comes back after an error.
Leave(q) == phase[q] # "absent" /\ Gone(q, "absent")

-----------------------------------------------------------------------------
StreamStep(q) ==
  \/ Subscribe(q) \/ FirstItem(q) \/ Skip(q) \/ Refetch(q) \/ Break(q)
  \/ SendData(q) \/ SendEnd(q) \/ DebounceOver(q)

WriterStep(w) == Finish(w) \/ Fail(w) \/ Announce(w)

\* The bound on statements is one on the closures, too.
AnyWriter(w) ==
  \/ writes < MaxWrites /\ Begin(w)
  \/ WriterStep(w)
  \/ \E t \in Tables : AnyStatement(w, t)
AnyStream(q) == Open(q) \/ StreamStep(q) \/ Leave(q)

Next ==
  \/ \E w \in Writers : AnyWriter(w)
  \/ \E q \in Queries : AnyStream(q)

Spec == Init /\ [][Next]_vars

-----------------------------------------------------------------------------
Versions(q) == [Reads[q] -> Nat]

TypeOK ==
  /\ rows \in [Tables -> Nat] /\ writes \in 0 .. MaxWrites
  /\ at \in [Writers -> {"idle", "connection", "transaction", "announcing"}]
  /\ changed \in [Writers -> SUBSET Tables]
  /\ phase \in [Queries -> {"absent", "opening", "open", "broken"}]
  /\ {latest, shown} \subseteq [Queries -> UNION {Versions(q) : q \in Queries}]
  /\ \A q \in Queries : latest[q] \in Versions(q) /\ shown[q] \in Versions(q)
  /\ inbox \in [Queries -> SUBSET Tables] /\ lagged \in [Queries -> BOOLEAN]
  /\ throttled \in [Queries -> BOOLEAN] /\ blind \in [Queries -> BOOLEAN]
  /\ frame \in [Queries -> {"first", "idle", "header", "data"}]

\* Somebody will tell the stream that t changed.
Announced(q, t) ==
  \/ lagged[q] \/ Touched(q, inbox[q])
  \/ \E w \in Writers : at[w] \in {"connection", "announcing"} /\ t \in changed[w]

\* A stream whose last result is out of date is going to be told: it has news of a
\* table it reads, or an error, in its receiver, or a writer has yet to announce
\* what it changed.  Out of it are changes in between the first run of the query
\* and the subscription, and those a failed closure leaves.
StaleIsAnnounced ==
  \A q \in Listening : \A t \in Reads[q] :
    latest[q][t] # rows[t] => blind[q] \/ Announced(q, t)
=============================================================================
