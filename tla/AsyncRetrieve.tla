---------------------------- MODULE AsyncRetrieve ----------------------------
(***************************************************************************)
(* SharedAsyncRetrieveState (utils/sync/async_retrieve.rs), the cell that  *)
(* caches one value fetched over the network behind an async mutex, and    *)
(* its two users: the swarm's node list (network/swarm.rs), which only     *)
(* gets, and the onion path (network/legacy.rs), whose callers also report *)
(* requests that failed on the path they were given.                       *)
(*                                                                         *)
(* A value stands for when it was asked for: the number of successful      *)
(* retrievals before the one that fetched it, plus one.  elapsed() is      *)
(* abstracted to whether the state's own interval has passed.              *)
(***************************************************************************)
EXTENDS Naturals

CONSTANTS
  Callers,
  NoCaller,
  MaxFetches    \* bound: values the network has

ASSUME ConstantsOK ==
  NoCaller \notin Callers /\ MaxFetches \in Nat

VARIABLES
  state,      \* State<T>: its variant, last success (0: None), interval passed
  holder,     \* who holds the async mutex across an await
  pc,         \* where each caller is
  got,        \* what its get_or_retrieve returned (0: an error, or not yet)
  asked,      \* the value a retrieval under way is to bring
  fetched,    \* history: the newest value any retrieval brought
  forced,     \* history: force_retry_next was called since the last success
  mustRetry,  \* history: it was called and no retrieval has ended since
  attempt     \* history: the last retrieval, "none", "recent" or "old"

vars == <<state, holder, pc, got, asked, fetched, forced, mustRetry, attempt>>

NoValue == 0

Cell(kind, value) == [kind |-> kind, value |-> value, elapsed |-> FALSE]

\* The match arms of set_error and force_retry_next: a success is carried over
\* from Loaded and Error, and from no other state.
CarriedLoaded == IF state.kind = "Loaded" THEN state.value ELSE NoValue   \* mutant
CarriedValue == IF state.kind \in {"Loaded", "Error"} THEN state.value ELSE NoValue

\* get_or_retrieve answers from the cell within the state's interval.
FromLoaded == state.kind = "Loaded" /\ ~state.elapsed   \* mutant: no pause after an error
FromCache == state.kind \in {"Loaded", "Error"} /\ ~state.elapsed

Init ==
  /\ state = Cell("Idle", NoValue) /\ holder = NoCaller
  /\ pc = [c \in Callers |-> "idle"] /\ got = [c \in Callers |-> NoValue]
  /\ asked = [c \in Callers |-> NoValue]
  /\ fetched = NoValue /\ forced = FALSE /\ mustRetry = FALSE /\ attempt = "none"

Return(c, value) ==
  /\ got' = [got EXCEPT ![c] = value]
  /\ pc' = [pc EXCEPT ![c] = IF value # NoValue THEN "using" ELSE "failed"]

Call(c) ==
  /\ pc[c] = "idle"
  /\ pc' = [pc EXCEPT ![c] = "waiting"]
  /\ got' = [got EXCEPT ![c] = NoValue]
  /\ UNCHANGED <<state, holder, asked, fetched, forced, mustRetry, attempt>>

AnswerFromCache(c) ==
  /\ pc[c] = "waiting" /\ holder = NoCaller /\ FromCache
  /\ Return(c, state.value)
  /\ UNCHANGED <<state, holder, asked, fetched, forced, mustRetry, attempt>>

\* Mutant: the mutex is released while the value is fetched.
StartUnlocked(c) ==
  /\ pc[c] = "waiting" /\ ~FromCache
  /\ holder' = c /\ pc' = [pc EXCEPT ![c] = "retrieving"]
  /\ asked' = [asked EXCEPT ![c] = fetched + 1]
  /\ UNCHANGED <<state, got, fetched, forced, mustRetry, attempt>>

StartRetrieve(c) ==
  /\ pc[c] = "waiting" /\ holder = NoCaller /\ ~FromCache
  /\ holder' = c /\ pc' = [pc EXCEPT ![c] = "retrieving"]
  /\ asked' = [asked EXCEPT ![c] = fetched + 1]
  /\ UNCHANGED <<state, got, fetched, forced, mustRetry, attempt>>

RetrieveOk(c) ==
  /\ pc[c] = "retrieving" /\ asked[c] <= MaxFetches
  /\ fetched' = IF asked[c] > fetched THEN asked[c] ELSE fetched
  /\ state' = Cell("Loaded", asked[c])
  /\ Return(c, asked[c])
  /\ holder' = NoCaller /\ attempt' = "recent"
  /\ forced' = FALSE /\ mustRetry' = FALSE
  /\ asked' = [asked EXCEPT ![c] = NoValue]

\* Loaded and Error(Some) keep and return the last success; every other state
\* falls to the arm that has none.
RetrieveErr(c) ==
  /\ pc[c] = "retrieving"
  /\ state' = Cell("Error", CarriedValue)
  /\ Return(c, CarriedValue)
  /\ holder' = NoCaller /\ attempt' = "recent" /\ mustRetry' = FALSE
  /\ asked' = [asked EXCEPT ![c] = NoValue]
  /\ UNCHANGED <<fetched, forced>>

\* Mutant: the mutex stays locked.
CancelLocked(c) ==
  /\ pc[c] = "retrieving"
  /\ pc' = [pc EXCEPT ![c] = "idle"]
  /\ asked' = [asked EXCEPT ![c] = NoValue]
  /\ UNCHANGED <<state, holder, got, fetched, forced, mustRetry, attempt>>

\* The caller's future is dropped while it retrieves: the guard is released
\* and the state is as it was.
Cancel(c) ==
  /\ pc[c] = "retrieving"
  /\ holder' = NoCaller /\ pc' = [pc EXCEPT ![c] = "idle"]
  /\ asked' = [asked EXCEPT ![c] = NoValue]
  /\ UNCHANGED <<state, got, fetched, forced, mustRetry, attempt>>

\* The caller's request over the value ends well, or in an error that
\* perform_onion_req reports: retryable, or not.  (The swarm's callers only
\* ever end well.)
Use(c) ==
  /\ \/ /\ pc[c] = "using"
        /\ \E next \in {"idle", "retryable", "fatal"} : pc' = [pc EXCEPT ![c] = next]
     \/ pc[c] = "failed" /\ pc' = [pc EXCEPT ![c] = "idle"]
  /\ UNCHANGED <<state, holder, got, asked, fetched, forced, mustRetry, attempt>>

ForceRetryNext(c) ==
  /\ pc[c] = "retryable" /\ holder = NoCaller
  /\ state' = Cell("RetryRequested", CarriedValue)
  /\ pc' = [pc EXCEPT ![c] = "idle"]
  /\ forced' = TRUE /\ mustRetry' = TRUE
  /\ UNCHANGED <<holder, got, asked, fetched, attempt>>

SetError(c) ==
  /\ pc[c] = "fatal" /\ holder = NoCaller
  /\ state' = Cell("Error", CarriedValue)
  /\ pc' = [pc EXCEPT ![c] = "idle"]
  /\ UNCHANGED <<holder, got, asked, fetched, forced, mustRetry, attempt>>

\* Time passes the refresh or minimum retry interval of the current state.
Elapse ==
  /\ FromCache
  /\ state' = [state EXCEPT !.elapsed = TRUE]
  /\ attempt' = IF attempt = "recent" THEN "old" ELSE attempt
  /\ UNCHANGED <<holder, pc, got, asked, fetched, forced, mustRetry>>

Locking(c) == AnswerFromCache(c) \/ StartRetrieve(c)
Reporting(c) == ForceRetryNext(c) \/ SetError(c)

Next ==
  \/ \E c \in Callers :
       \/ Call(c) \/ Locking(c) \/ RetrieveOk(c) \/ RetrieveErr(c) \/ Cancel(c)
       \/ Use(c) \/ Reporting(c)
  \/ Elapse

Spec == Init /\ [][Next]_vars

\* tokio's mutex is first come first served, so who waits for it gets it.  That
\* a retrieval ends is assumed of the network: the client that asks the seed
\* nodes has no timeout.
Fairness ==
  \A c \in Callers :
    /\ SF_vars(Locking(c)) /\ SF_vars(Reporting(c))
    /\ WF_vars(RetrieveOk(c) \/ RetrieveErr(c))

FairSpec == Spec /\ Fairness

-----------------------------------------------------------------------------
\* The variants of State<T>: Loaded has a value, Idle none, the others an Option.
Cells ==
  {Cell("Idle", NoValue)} \cup
  [kind : {"Loaded"}, value : 1..MaxFetches, elapsed : BOOLEAN] \cup
  [kind : {"Error", "RetryRequested"}, value : 0..MaxFetches, elapsed : BOOLEAN]

TypeOK ==
  /\ state \in Cells
  /\ holder \in Callers \cup {NoCaller}
  /\ pc \in [Callers -> {"idle", "waiting", "retrieving", "using", "failed",
                         "retryable", "fatal"}]
  /\ got \in [Callers -> 0..MaxFetches]
  /\ asked \in [Callers -> 0..MaxFetches + 1]
  /\ \A c \in Callers : pc[c] = "retrieving" => asked[c] # NoValue
  /\ fetched \in 0..MaxFetches
  /\ forced \in BOOLEAN /\ mustRetry \in BOOLEAN
  /\ attempt \in {"none", "recent", "old"}

Answered(c) == pc[c] \in {"waiting", "retrieving"} /\ pc'[c] \in {"using", "failed"}

\* Whoever is answered Ok has the newest value any retrieval brought: no slow
\* retrieval overwrites the result of a later one, whoever waited for the
\* mutex and whichever errors and cancellations came in between.
AnswersAreNewest ==
  [][\A c \in Callers : Answered(c) /\ got'[c] # NoValue => got'[c] = fetched']_vars

\* A caller sees an error only if no retrieval ever succeeded, or a request
\* since the last one that did asked for a forced retry.
ErrorsOnlyAfterForce ==
  [][\A c \in Callers : Answered(c) /\ got'[c] = NoValue
                          => fetched' = 0 \/ forced]_vars

\* No retrieval starts before the interval of the last attempt has passed,
\* unless a retry was forced since or the attempt was given up.
RetriesArePaced ==
  [][\A c \in Callers : pc[c] = "waiting" /\ pc'[c] = "retrieving"
                          => attempt # "recent" \/ mustRetry]_vars

\* A caller that asks for the value is answered.
CallersServed ==
  \A c \in Callers : pc[c] \in {"waiting", "retrieving"}
                       ~> pc[c] \in {"using", "failed", "idle"}

=============================================================================
