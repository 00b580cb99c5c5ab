------------------------------- MODULE Batcher -------------------------------
(***************************************************************************)
(* BatchRPCExecutor and its runner (batcher.rs): requests made within a    *)
(* window and to the same destination travel as one batch request, and its *)
(* response is dealt out to the callers by position.                       *)
(*                                                                         *)
(* should_batch_with is equality of a key (server address and credentials, *)
(* oxenss/rpc.rs, network/mod.rs, http_api/executor.rs, sogs_api).  Time   *)
(* is what is left of each batch's window.                                 *)
(***************************************************************************)
EXTENDS Naturals, Sequences, FiniteSets, SequencesExt

CONSTANTS
  Requests,   \* calls of execute, each made at most once
  Keys,
  Key,        \* what a request may share a batch with
  Single,     \* the requests whose can_batch says no
  Capacity,   \* of the channel to the runner; 10 in the code
  Window,     \* ticks of batch_window; 100 ms in the code
  NoReply

ASSUME BatchConstantsOK ==
  /\ Key \in [Requests -> Keys] /\ Single \subseteq Requests
  /\ Capacity \in Nat \ {0} /\ Window \in Nat /\ NoReply \notin Requests

VARIABLES
  stage,     \* where each call of execute is
  channel,   \* mpsc: requests sent and not yet received
  batching,  \* VecDeque of batches: the window left and the requests
  running,   \* join_set: the run_batch futures
  wire,      \* batch requests on their way to a server
  ran,       \* history: the keys each request was run with
  reply,     \* the request whose result each caller got
  alive      \* whether the runner exists

batchVars == <<stage, channel, batching, running, wire, ran, reply, alive>>

Ended == {"ok", "err", "gone"}
InFlight == {"sending", "waiting", "direct", "directRan"}

BatchInit ==
  /\ stage = [r \in Requests |-> "idle"]
  /\ channel = <<>> /\ batching = <<>> /\ running = {} /\ wire = {}
  /\ ran = [r \in Requests |-> <<>>]
  /\ reply = [r \in Requests |-> NoReply]
  /\ alive = TRUE

\* execute(): a request that cannot be batched goes to the executor directly.
Submit(r) ==
  /\ stage[r] = "idle"
  /\ stage' = [stage EXCEPT ![r] = IF r \in Single THEN "direct" ELSE "sending"]
  /\ UNCHANGED <<channel, batching, running, wire, ran, reply, alive>>

DirectRun(r) ==
  /\ stage[r] = "direct"
  /\ stage' = [stage EXCEPT ![r] = "directRan"]
  /\ ran' = [ran EXCEPT ![r] = Append(@, Key[r])]
  /\ UNCHANGED <<channel, batching, running, wire, reply, alive>>

DirectReply(r) ==
  /\ \/ /\ stage[r] = "directRan"
        /\ stage' = [stage EXCEPT ![r] = "ok"] /\ reply' = [reply EXCEPT ![r] = r]
     \/ /\ stage[r] \in {"direct", "directRan"}
        /\ stage' = [stage EXCEPT ![r] = "err"] /\ UNCHANGED reply
  /\ UNCHANGED <<channel, batching, running, wire, ran, alive>>

Send(r) ==
  /\ stage[r] = "sending"
  /\ \/ /\ alive /\ Len(channel) < Capacity
        /\ channel' = Append(channel, r)
        /\ stage' = [stage EXCEPT ![r] = "waiting"]
     \/ /\ ~alive
        /\ stage' = [stage EXCEPT ![r] = "err"] /\ UNCHANGED channel
  /\ UNCHANGED <<batching, running, wire, ran, reply, alive>>

\* The caller's future is dropped; what it sent stays where it is.
Abandon(r) ==
  /\ stage[r] \in InFlight
  /\ stage' = [stage EXCEPT ![r] = "gone"]
  /\ UNCHANGED <<channel, batching, running, wire, ran, reply, alive>>

\* Mutant: a request that joins a batch renews its window.
InsertRenewing(r) ==
  LET i == SelectInSeq(batching, LAMBDA b : Key[Head(b.reqs)] = Key[r])
  IN  IF i # 0
      THEN [batching EXCEPT ![i] = [left |-> Window, reqs |-> Append(@.reqs, r)]]
      ELSE Append(batching, [left |-> Window, reqs |-> <<r>>])

\* insert_to_batching: the oldest batch with the head's key, or a new one at
\* the back.
Insert(r) ==
  LET i == SelectInSeq(batching, LAMBDA b : Key[Head(b.reqs)] = Key[r])
  IN  IF i # 0
      THEN [batching EXCEPT ![i].reqs = Append(@, r)]
      ELSE Append(batching, [left |-> Window, reqs |-> <<r>>])

Receive ==
  /\ alive /\ channel # <<>>
  /\ batching' = Insert(Head(channel))
  /\ channel' = Tail(channel)
  /\ UNCHANGED <<stage, running, wire, ran, reply, alive>>

Tick ==
  /\ \E i \in DOMAIN batching : batching[i].left > 0
  /\ batching' = [i \in DOMAIN batching |->
       [batching[i] EXCEPT !.left = IF @ = 0 THEN 0 ELSE @ - 1]]
  /\ UNCHANGED <<stage, channel, running, wire, ran, reply, alive>>

RunOf(b) == [callers |-> b.reqs, sent |-> FALSE, results |-> <<>>]

\* Mutant: the batch that is run is not popped.
StartUnpopped ==
  /\ alive /\ batching # <<>> /\ Head(batching).left = 0
  /\ running' = running \cup {RunOf(Head(batching))}
  /\ UNCHANGED <<stage, channel, batching, wire, ran, reply, alive>>

\* Mutant: the deadline is looked at only when a request arrives.
StartOnArrival ==
  /\ alive /\ batching # <<>> /\ Head(batching).left = 0 /\ channel # <<>>
  /\ running' = running \cup {RunOf(Head(batching))}
  /\ batching' = Tail(batching)
  /\ UNCHANGED <<stage, channel, wire, ran, reply, alive>>

\* Only the front batch's deadline is slept on.
StartBatch ==
  /\ alive /\ batching # <<>> /\ Head(batching).left = 0
  /\ running' = running \cup {RunOf(Head(batching))}
  /\ batching' = Tail(batching)
  /\ UNCHANGED <<stage, channel, wire, ran, reply, alive>>

\* run_batch: all the inputs go out under the arguments of the first.
Execute(b) ==
  /\ b \in running /\ ~b.sent
  /\ wire' = wire \cup {[key |-> Key[Head(b.callers)], inputs |-> b.callers]}
  /\ running' = (running \ {b}) \cup {[b EXCEPT !.sent = TRUE]}
  /\ UNCHANGED <<stage, channel, batching, ran, reply, alive>>

\* A server runs a batch request; its results find the future that sent it,
\* if that one is still there.
Serve(m) ==
  /\ m \in wire /\ wire' = wire \ {m}
  /\ ran' = [r \in Requests |->
       IF Contains(m.inputs, r) THEN Append(ran[r], m.key) ELSE ran[r]]
  /\ running' = {IF ToSet(b.callers) = ToSet(m.inputs) THEN [b EXCEPT !.results = m.inputs]
                 ELSE b : b \in running}
  /\ UNCHANGED <<stage, channel, batching, reply, alive>>

\* Whoever of rs still waits sees its oneshot sender dropped or an error sent.
Fail(rs) == [r \in Requests |-> IF r \in rs /\ stage[r] = "waiting" THEN "err" ELSE stage[r]]

\* Mutant: callers that went away are left out before the results are dealt.
DealToWaiting(b) ==
  /\ b \in running /\ b.results # <<>>
  /\ LET waiting == SelectSeq(b.callers, LAMBDA r : stage[r] = "waiting")
         place(r) == CHOOSE i \in DOMAIN waiting : waiting[i] = r
     IN  /\ stage' = [r \in Requests |-> IF Contains(waiting, r) THEN "ok" ELSE stage[r]]
         /\ reply' = [r \in Requests |-> IF Contains(waiting, r)
                                         THEN b.results[place(r)] ELSE reply[r]]
  /\ running' = running \ {b}
  /\ UNCHANGED <<channel, batching, wire, ran, alive>>

\* The results are zipped with the callbacks; the response may be shorter than
\* the batch, and the callbacks left over are dropped.
DealResults(b) ==
  /\ b \in running /\ b.results # <<>>
  /\ \E n \in 1..Len(b.results) :
       LET dealt == {i \in 1..n : stage[b.callers[i]] = "waiting"}
           resultOf(r) == b.results[CHOOSE i \in dealt : b.callers[i] = r]
           answered == {b.callers[i] : i \in dealt}
       IN  /\ stage' = [r \in Requests |->
                       IF r \in answered THEN "ok" ELSE Fail(ToSet(b.callers))[r]]
           /\ reply' = [r \in Requests |-> IF r \in answered THEN resultOf(r) ELSE reply[r]]
  /\ running' = running \ {b}
  /\ UNCHANGED <<channel, batching, wire, ran, alive>>

\* Building, sending or parsing the batch failed: one error for every caller.
BatchFails(b) ==
  /\ b \in running
  /\ stage' = Fail(ToSet(b.callers))
  /\ running' = running \ {b}
  /\ UNCHANGED <<channel, batching, wire, ran, reply, alive>>

\* The runner's future is dropped with all that it owns.
RunnerDropped ==
  /\ alive /\ alive' = FALSE
  /\ stage' = Fail(Requests)
  /\ channel' = <<>> /\ batching' = <<>> /\ running' = {}
  /\ UNCHANGED <<wire, ran, reply>>

RunnerStep ==
  \/ Receive \/ StartBatch
  \/ \E b \in running : Execute(b) \/ DealResults(b) \/ BatchFails(b)

BatchNext ==
  \/ \E r \in Requests : Submit(r) \/ DirectRun(r) \/ DirectReply(r) \/ Send(r) \/ Abandon(r)
  \/ RunnerStep \/ Tick \/ RunnerDropped
  \/ \E m \in wire : Serve(m)

BatchSpec == BatchInit /\ [][BatchNext]_batchVars

\* The runner is polled whenever something is ready and time passes; a request
\* over the network ends, in an error or a timeout at the latest.  Servers
\* owe nothing.
BatchFairness ==
  /\ WF_batchVars(Receive) /\ WF_batchVars(StartBatch) /\ WF_batchVars(Tick)
  /\ WF_batchVars(\E b \in running : DealResults(b) \/ BatchFails(b))
  /\ \A r \in Requests : WF_batchVars(Send(r)) /\ WF_batchVars(DirectReply(r))

BatchFairSpec == BatchSpec /\ BatchFairness

-----------------------------------------------------------------------------
Batches == [left : 0 .. Window, reqs : Seq(Requests) \ {<<>>}]
Runs == [callers : Seq(Requests) \ {<<>>}, sent : BOOLEAN, results : Seq(Requests)]
Messages == [key : Keys, inputs : Seq(Requests) \ {<<>>}]

\* Every variable has its type, and the channel never holds more than it may.
BatchTypeOK ==
  /\ stage \in [Requests -> {"idle"} \cup InFlight \cup Ended]
  /\ channel \in Seq(Requests) /\ Len(channel) <= Capacity
  /\ batching \in Seq(Batches) /\ running \subseteq Runs /\ wire \subseteq Messages
  /\ ran \in [Requests -> Seq(Keys)] /\ reply \in [Requests -> Requests \cup {NoReply}]
  /\ alive \in BOOLEAN

\* Where the request of a caller that waits is kept.
Holders(r) ==
  {<<"channel", i>> : i \in {k \in DOMAIN channel : channel[k] = r}} \cup
  {<<"batch", i>> : i \in {k \in DOMAIN batching : Contains(batching[k].reqs, r)}} \cup
  {<<"run", b.callers>> : b \in {x \in running : Contains(x.callers, r)}}

\* A caller that waits for its answer has its callback kept in one place, the
\* channel, a batch or a future under way: it is neither lost, which the
\* caller would see as "Cancelled", nor answered twice.
CallbackKept ==
  \A r \in Requests : stage[r] = "waiting" => Cardinality(Holders(r)) = 1

\* The runner sleeps on the deadline of the front batch only, which is enough
\* because the batches are due in the order they stand in: none waits longer
\* than its window behind another, whichever of them later requests join.
DueInOrder ==
  \A i, j \in DOMAIN batching : i < j => batching[i].left <= batching[j].left

\* A caller that is not dropped is answered, even if the server is silent, the
\* channel full or the runner gone.
AllAnswered == \A r \in Requests : stage[r] \in InFlight ~> stage[r] \in Ended

\* Batching is invisible: every call sees what a direct call could have seen.
\* Its request runs at most once and with its own arguments, whoever shared
\* the batch, and its answer is its own, whoever of the batch went away.
RPC == INSTANCE RPCContract WITH
  call <- [r \in Requests |-> IF stage[r] \in InFlight THEN "called" ELSE stage[r]]

ImplementsRPC == RPC!Spec

=============================================================================
