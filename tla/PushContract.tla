----------------------------- MODULE PushContract -----------------------------
(***************************************************************************)
(* What mutate_and_await_push (config/wrapper.rs) promises its callers,    *)
(* without the queue, the loops, the database and the restarts: a call     *)
(* submits an update; updates that were submitted, or came from the swarm, *)
(* get pushed; a call is answered Ok only after its own update was.        *)
(***************************************************************************)
CONSTANTS Callers, LocalUpdates, RemoteUpdates, NoUpdate

VARIABLES
  answer,    \* none, pending, ok, err or gone (with the process) per caller
  submitted, \* the update of each caller
  pushed     \* the updates that reached the swarm

vars == <<answer, submitted, pushed>>

Submissions == {submitted[c] : c \in Callers} \ {NoUpdate}

Init ==
  /\ answer = [c \in Callers |-> "none"]
  /\ submitted = [c \in Callers |-> NoUpdate]
  /\ pushed = {}

Submit(c) ==
  /\ answer[c] = "none"
  /\ answer' = [answer EXCEPT ![c] = "pending"]
  /\ \E u \in LocalUpdates : submitted' = [submitted EXCEPT ![c] = u]
  /\ UNCHANGED pushed

Push ==
  /\ \E batch \in SUBSET (Submissions \cup RemoteUpdates) :
       pushed' = pushed \cup batch
  /\ UNCHANGED <<answer, submitted>>

\* One outcome for any of the pending callers together.
Resolve(group, outcome) ==
  /\ \A c \in group : answer[c] = "pending"
  /\ outcome = "ok" => \A c \in group : submitted[c] \in pushed
  /\ answer' = [c \in Callers |-> IF c \in group THEN outcome ELSE answer[c]]
  /\ UNCHANGED <<submitted, pushed>>

Next ==
  \/ \E c \in Callers : Submit(c)
  \/ Push
  \/ \E group \in SUBSET Callers, outcome \in {"ok", "err", "gone"} :
       Resolve(group, outcome)

Spec == Init /\ [][Next]_vars

=============================================================================
