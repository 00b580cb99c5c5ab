----------------------------- MODULE RPCContract -----------------------------
(***************************************************************************)
(* What RPCExecutor::execute (rpc.rs) promises whoever calls it, however   *)
(* the requests travel: the server runs a request at most once, with the   *)
(* arguments it was made with, and an answer is the answer to that very    *)
(* request.  Errors promise nothing: the server may run the request later. *)
(***************************************************************************)
EXTENDS Sequences

CONSTANTS Requests, Key, NoReply

VARIABLES
  call,   \* idle, called, ok, err or gone (the caller went away)
  ran,    \* the keys each request was run with, in order
  reply   \* the request each Ok is the result of

vars == <<call, ran, reply>>

Init ==
  /\ call = [r \in Requests |-> "idle"]
  /\ ran = [r \in Requests |-> <<>>]
  /\ reply = [r \in Requests |-> NoReply]

Call(r) ==
  /\ call[r] = "idle"
  /\ call' = [call EXCEPT ![r] = "called"]
  /\ UNCHANGED <<ran, reply>>

Run(rs) ==
  /\ \A r \in rs : call[r] # "idle" /\ ran[r] = <<>>
  /\ ran' = [r \in Requests |-> IF r \in rs THEN <<Key[r]>> ELSE ran[r]]
  /\ UNCHANGED <<call, reply>>

Answer(good, bad) ==
  /\ \A r \in good \cup bad : call[r] = "called"
  /\ \A r \in good : ran[r] # <<>>
  /\ call' = [r \in Requests |-> IF r \in good THEN "ok"
                                 ELSE IF r \in bad THEN "err" ELSE call[r]]
  /\ reply' = [r \in Requests |-> IF r \in good THEN r ELSE reply[r]]
  /\ UNCHANGED ran

Abandon(r) ==
  /\ call[r] = "called"
  /\ call' = [call EXCEPT ![r] = "gone"]
  /\ UNCHANGED <<ran, reply>>

Next ==
  \/ \E r \in Requests : Call(r) \/ Abandon(r)
  \/ \E rs \in SUBSET Requests : Run(rs)
  \/ \E good, bad \in SUBSET Requests : good \cap bad = {} /\ Answer(good, bad)

Spec == Init /\ [][Next]_vars

=============================================================================
