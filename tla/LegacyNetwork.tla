---------------------------- MODULE LegacyNetwork ----------------------------
(***************************************************************************)
(* The onion path of AsyncRetrieve inside the account's network            *)
(* (network/legacy.rs): the requests that ask for it, one to a random node *)
(* asking twice, and the reports of those that failed.  DynamicNetwork     *)
(* (network/dynamic.rs) passes requests on.  Every step is a step of       *)
(* AsyncRetrieve or leaves its variables alone.                            *)
(*                                                                         *)
(* The network's state is left out.  A retrieval sends "Connecting" to a   *)
(* Watcher that a task copies to a second one, which nobody reads;         *)
(* watch_state subscribes to a third, which nothing sends to.              *)
(***************************************************************************)
EXTENDS AsyncRetrieve

CONSTANT RandomCallers  \* callers whose requests go to a random node

ASSUME NetworkConstantsOK == RandomCallers \subseteq Callers

VARIABLE target  \* the node list each caller's random node is from (0: none yet)

allVars == <<vars, target>>

NetworkInit == Init /\ target = [c \in Callers |-> NoValue]

-----------------------------------------------------------------------------
\* A random node is chosen, and the request to it asks for the path anew.
ChooseNode(c) ==
  /\ c \in RandomCallers /\ target[c] = NoValue /\ pc[c] = "using"
  /\ Use(c) /\ pc'[c] = "idle"
  /\ target' = [target EXCEPT ![c] = got[c]]

\* The onion request is made, or there is no path for it.
Perform(c) ==
  /\ pc[c] = "using" /\ c \in RandomCallers => target[c] # NoValue
  /\ Use(c)
  /\ target' = [target EXCEPT ![c] = NoValue]

\* The caller leaves; so does try_join! when the request cannot be encoded.
Leave(c) ==
  /\ Cancel(c) /\ target' = [target EXCEPT ![c] = NoValue]

Ask(c) == (Call(c) \/ Locking(c)) /\ UNCHANGED target
Arrive(c) == (RetrieveOk(c) \/ RetrieveErr(c)) /\ UNCHANGED target
Report(c) == Reporting(c) /\ UNCHANGED target
Age == Elapse /\ UNCHANGED target

NetworkNext ==
  \/ \E c \in Callers :
       \/ Ask(c) \/ Arrive(c) \/ ChooseNode(c) \/ Perform(c)
       \/ Leave(c) \/ Report(c)
  \/ Age

NetworkSpec == NetworkInit /\ [][NetworkNext]_allVars
NetworkFairSpec == NetworkSpec /\ Fairness

-----------------------------------------------------------------------------
NetworkTypeOK == TypeOK /\ target \in [Callers -> 0 .. MaxFetches]

\* A request to a random node goes over a path from no older a node list than the
\* one the node is from, whatever other requests reported in between.
PathKnowsNode ==
  \A c \in Callers : pc[c] = "using" /\ target[c] # NoValue => target[c] <= got[c]

=============================================================================
