---------------------------- MODULE GroupSyncProofs ----------------------------
(***************************************************************************)
(* What holds of a group's keys and messages for any namespaces, nodes and *)
(* bounds.                                                                 *)
(***************************************************************************)
EXTENDS GroupSync, TLAPS

\* What the poll loop of the keys has to report, or has reported.
GoodNews == poller = "ok" \/ pipe = "ok" \/ results = <<"ok">>

\* The keys a task has to know are known, or counted as lost, before it reads
\* anything with them.
DueCovered ==
  /\ phase = "syncing" \/ (phase = "waiting" /\ GoodNews) => 1 .. due \subseteq known \cup lost
  /\ phase \in {"off", "ended"} => known = {}

\* What comes over the side channel stays in front of the task until it has its keys.
UnservedIsEmpty == phase # "syncing" => chan["keys"] = <<>>

IInv == TypeOK /\ KeysCovered /\ DueCovered /\ UnservedIsEmpty

LEMMA InitIInv == Init => IInv
<1> SUFFICES ASSUME Init PROVE IInv
  OBVIOUS
<1> USE ConstantsOK DEF Init, Empty
<1>1. TypeOK
  <2>1. <<>> \in AtMostOne(Message)
    BY DEF AtMostOne
  <2>2. <<>> \in Seq(Message) /\ <<>> \in Seq(Generations)
    OBVIOUS
  <2>3. /\ chan \in [Receivers -> AtMostOne(Message)]
        /\ \A m \in Range(chan["keys"]) : m.ns = "keys"
    BY <2>1 DEF Range, Receivers, Namespaces
  <2> QED
    BY <2>1, <2>2, <2>3 DEF TypeOK, Results
<1>2. KeysCovered
  BY DEF KeysCovered, Namespaces
<1>3. DueCovered
  BY DEF DueCovered, GoodNews
<1>4. UnservedIsEmpty
  BY DEF UnservedIsEmpty, Receivers, Namespaces
<1> QED
  BY <1>1, <1>2, <1>3, <1>4 DEF IInv

-----------------------------------------------------------------------------
\* Types.

\* A channel of one place.
LEMMA OnePlace ==
  ASSUME NEW S
  PROVE  /\ <<>> \in AtMostOne(S)
         /\ \A m \in S : <<m>> \in AtMostOne(S)
         /\ \A s \in AtMostOne(S) : s # <<>> => Head(s) \in S
BY DEF AtMostOne

LEMMA TypeStep == TypeOK /\ [Next]_vars => TypeOK'
<1> SUFFICES ASSUME TypeOK, [Next]_vars PROVE TypeOK'
  OBVIOUS
<1> USE ConstantsOK DEF TypeOK, outside, database, keys, messages, counters
<1>0. /\ <<>> \in Results /\ <<"ok">> \in Results /\ <<"failed">> \in Results
      /\ Empty \in [Receivers -> AtMostOne(Message)] /\ Range(Empty["keys"]) = {}
      /\ Content \subseteq Namespaces /\ "keys" \in Namespaces
      /\ "keys" \in Receivers /\ Content \subseteq Receivers
  <2>1. Empty \in [Receivers -> AtMostOne(Message)] /\ Range(Empty["keys"]) = {}
    BY OnePlace DEF Empty, Range, Receivers, Namespaces
  <2> QED
    BY <2>1 DEF Results, Namespaces, Receivers
<1>1. CASE Rekey
  BY <1>1 DEF Rekey, Generations
<1>2. ASSUME NEW c \in Content, Post(c) PROVE TypeOK'
  <2>1. keyCount \in Generations
    BY <1>2 DEF Post, Generations
  <2> QED
    BY <1>2, <2>1 DEF Post
<1>3. ASSUME NEW ns \in Pushable, Push(ns) PROVE TypeOK'
  <2>1. ns \in Receivers /\ (ns \notin {"keys", "kicked"} => ns \in Content)
    BY DEF Receivers, Namespaces
  <2>2. \E at \in Nat : /\ pushes' = <<[ns |-> ns, at |-> at]>>
                        /\ ns = "keys" => at \in Generations
    <3>1. CASE ns = "keys"
      BY <1>3, <3>1 DEF Push, Generations
    <3>2. CASE ns = "kicked"
      BY <1>3, <3>2 DEF Push
    <3>3. CASE ns \notin {"keys", "kicked"}
      <4>1. \E at \in DOMAIN log[ns] : pushes' = <<[ns |-> ns, at |-> at]>>
        BY <1>3, <3>3 DEF Push
      <4>2. log[ns] \in Seq(Generations)
        BY <2>1, <3>3
      <4> QED
        BY <3>3, <4>1, <4>2
    <3> QED
      BY <3>1, <3>2, <3>3
  <2>3. pushes' \in AtMostOne(Message)
    BY <2>1, <2>2, OnePlace DEF Message
  <2> QED
    BY <1>3, <2>3 DEF Push
<1>4. CASE ChangeEntry
  BY <1>4 DEF ChangeEntry
<1>5. CASE Look
  <2>1. queue' \in AtMostOne(Message) /\ hand' \in Message \cup {Nothing}
    BY <1>5, <1>0, OnePlace DEF Look, FreshChannels
  <2>2. chan' \in [Receivers -> AtMostOne(Message)] /\ \A m \in Range(chan["keys"])' : m.ns = "keys"
    BY <1>5, <1>0 DEF Look, FreshChannels
  <2>3. /\ phase' \in {"off", "waiting", "syncing", "ended"} /\ known' \subseteq Generations
        /\ dump' \in {"idle", "due", "lagged", "ended"} /\ poller' \in {"idle", "ok", "failed"}
        /\ pipe' \in {"idle", "ok"} /\ results' \in Results
    BY <1>5, <1>0 DEF Look, FreshKeys, Loaded, NoKeys
  <2>4. due' \in 0 .. MaxKeys /\ lost' \subseteq Generations
    BY <1>5 DEF Look, Forget
  <2> QED
    BY <1>5, <2>1, <2>2, <2>3, <2>4 DEF Look
<1>6. CASE Restart
  BY <1>6, <1>0, OnePlace DEF Restart, NoKeys, FreshChannels, Forget
<1>7. ASSUME NEW n \in Nodes, KeyPoll(n) PROVE TypeOK'
  <2>1. hash' \in [Namespaces -> [Nodes -> Nat]]
    BY <1>7, <1>0 DEF KeyPoll
  <2>2. known' \subseteq Generations /\ dump' \in {"idle", "due", "lagged", "ended"}
    <3>1. hash["keys"][n] \in Nat
      BY <1>0
    <3> QED
      BY <1>7, <3>1 DEF KeyPoll, MergeKeys, Generations
  <2> QED
    BY <1>7, <2>1, <2>2 DEF KeyPoll
<1>8. CASE KeyPollFails
  BY <1>8 DEF KeyPollFails
<1>9. CASE ReportPoll
  BY <1>9, <1>0 DEF ReportPoll
<1>10. CASE MergePushedKeys
  <2>1. Head(chan["keys"]).at \in Generations
    <3>1. chan["keys"] \in Seq(Message) /\ chan["keys"] # <<>>
      BY <1>10, <1>0 DEF MergePushedKeys, AtMostOne
    <3>2. Head(chan["keys"]) \in Message /\ Head(chan["keys"]) \in Range(chan["keys"])
      BY <3>1 DEF Range
    <3> QED
      BY <3>2 DEF Message
  <2>2. /\ chan' \in [Receivers -> AtMostOne(Message)]
        /\ \A m \in Range(chan'["keys"]) : m.ns = "keys"
    BY <1>10, <1>0, OnePlace DEF MergePushedKeys, Range
  <2>3. known' \subseteq Generations /\ dump' \in {"idle", "due", "lagged", "ended"}
    BY <1>10, <2>1 DEF MergePushedKeys, MergeKeys
  <2> QED
    BY <1>10, <2>2, <2>3 DEF MergePushedKeys
<1>11. CASE ReportPush
  BY <1>11, <1>0 DEF ReportPush
<1>12. CASE DumpKeys
  BY <1>12 DEF DumpKeys
<1>13. CASE ReadResult
  <2>1. CASE NoKeys /\ FreshChannels /\ phase' = "ended"
    BY <1>13, <2>1, <1>0, OnePlace DEF ReadResult, NoKeys, FreshChannels
  <2>2. CASE /\ results' = <<>> /\ phase' \in {phase, "syncing"}
             /\ UNCHANGED <<known, dump, poller, pipe, queue, hand, chan>>
    BY <1>13, <2>2, <1>0 DEF ReadResult
  <2> QED
    BY <1>13, <2>1, <2>2 DEF ReadResult, Decide
<1>14. ASSUME NEW c \in Content, NEW n \in Nodes, ContentPoll(c, n) PROVE TypeOK'
  <2>1. Len(log[c]) \in Nat
    OBVIOUS
  <2>2. hash' \in [Namespaces -> [Nodes -> Nat]]
    BY <1>14, <1>0, <2>1 DEF ContentPoll
  <2>3. saved' \in [Content -> SUBSET Nat]
    BY <1>14, <1>0, <2>1 DEF ContentPoll, Save, Readable
  <2> QED
    BY <1>14, <2>2, <2>3 DEF ContentPoll
<1>15. ASSUME NEW c \in Content, SavePushed(c) PROVE TypeOK'
  <2>1. saved' \in [Content -> SUBSET Nat]
    <3>1. chan[c] \in AtMostOne(Message) /\ chan[c] # <<>>
      BY <1>15, <1>0 DEF SavePushed
    <3>2. Head(chan[c]).at \in Nat
      BY <3>1, OnePlace DEF Message
    <3> QED
      BY <1>15, <3>2 DEF SavePushed, Save, Readable
  <2>2. /\ chan' \in [Receivers -> AtMostOne(Message)]
        /\ \A m \in Range(chan'["keys"]) : m.ns = "keys"
    BY <1>15, <1>0, OnePlace, ConstantsOK DEF SavePushed
  <2> QED
    BY <1>15, <2>1, <2>2 DEF SavePushed
<1>16. CASE Dispatch
  BY <1>16, OnePlace DEF Dispatch, AtMostOne
<1>17. CASE Take
  BY <1>17 DEF Take
<1>18. CASE Refuse
  BY <1>18 DEF Refuse
<1>19. CASE Hand
  BY <1>19, OnePlace DEF Hand
<1>20. CASE Handle
  BY <1>20, OnePlace DEF Handle
<1>21. CASE Deliver
  <2>1. /\ hand \in Message /\ hand.ns \in Receivers
        /\ chan' = [chan EXCEPT ![hand.ns] = <<hand>>] /\ hand' = Nothing
    BY <1>21 DEF Deliver, Message
  <2>2. chan' \in [Receivers -> AtMostOne(Message)]
    BY <2>1, OnePlace
  <2>3. chan'["keys"] = IF hand.ns = "keys" THEN <<hand>> ELSE chan["keys"]
    BY <2>1, <1>0
  <2>4. \A m \in Range(chan'["keys"]) : m.ns = "keys"
    BY <2>3 DEF Range
  <2> QED
    BY <1>21, <2>1, <2>2, <2>4 DEF Deliver
<1>22. CASE TaskFails
  BY <1>22, <1>0, OnePlace DEF TaskFails, NoKeys, FreshChannels, Forget
<1>23. CASE UNCHANGED vars
  BY <1>23 DEF vars
<1> QED
  BY <1>1, <1>2, <1>3, <1>4, <1>5, <1>6, <1>7, <1>8, <1>9, <1>10, <1>11, <1>12, <1>13, <1>14,
     <1>15, <1>16, <1>17, <1>18, <1>19, <1>20, <1>21, <1>22, <1>23 DEF Next

-----------------------------------------------------------------------------
\* The keys that the hashes have gone past.

LEMMA KeysStep == TypeOK /\ KeysCovered /\ DueCovered /\ [Next]_vars => KeysCovered'
<1> SUFFICES ASSUME TypeOK, KeysCovered, DueCovered, [Next]_vars PROVE KeysCovered'
  OBVIOUS
<1> DEFINE Read(n) == 1 .. hash["keys"][n]
           Safe == lost \cup IF Alive THEN known ELSE dumped
<1>0. \A n \in Nodes : hash["keys"][n] \in Nat /\ Read(n) \subseteq Safe
  BY DEF KeysCovered, TypeOK, Namespaces
<1>s. SUFFICES ASSUME NEW n \in Nodes PROVE Read(n)' \subseteq Safe'
  BY DEF KeysCovered
<1>1. CASE Look
  <2>1. CASE Active /\ phase = "off"
    BY <1>1, <2>1, <1>0 DEF Look, FreshKeys, Loaded, Alive, database
  <2>2. CASE ~Active /\ phase # "off"
    BY <1>1, <2>2, <1>0 DEF Look, NoKeys, Forget, Alive, database, DueCovered, TypeOK
  <2>3. CASE ~(Active /\ phase = "off") /\ ~(~Active /\ phase # "off")
    BY <1>1, <2>3, <1>0 DEF Look, Alive, database, keys
  <2> QED
    BY <2>1, <2>2, <2>3
<1>2. CASE Restart
  BY <1>2, <1>0 DEF Restart, NoKeys, Forget, Alive, database, DueCovered, TypeOK
<1>3. ASSUME NEW m \in Nodes, KeyPoll(m) PROVE Read(n)' \subseteq Safe'
  <2>1. known' = known \cup (hash["keys"][m] + 1 .. keyCount) /\ lost' = lost \ known' /\ Alive /\ Alive'
    BY <1>3 DEF KeyPoll, MergeKeys, Alive
  <2>2. hash["keys"][n] \in Nat /\ hash["keys"][m] \in Nat /\ keyCount \in Nat
    BY <1>0 DEF TypeOK
  <2>3. hash'["keys"][n] = IF n = m THEN keyCount ELSE hash["keys"][n]
    BY <1>3 DEF KeyPoll, TypeOK, Namespaces
  <2> QED
    BY <2>1, <2>2, <2>3, <1>0
<1>4. CASE MergePushedKeys
  BY <1>4, <1>0 DEF MergePushedKeys, MergeKeys, Alive, database
<1>5. CASE DumpKeys
  BY <1>5, <1>0 DEF DumpKeys, Alive
<1>6. CASE ReadResult
  BY <1>6, <1>0 DEF ReadResult, Decide, NoKeys, Alive, database
<1>7. ASSUME NEW c \in Content, NEW m \in Nodes, ContentPoll(c, m) PROVE Read(n)' \subseteq Safe'
  <2>1. hash'["keys"] = hash["keys"]
    BY <1>7, ConstantsOK DEF ContentPoll, TypeOK
  <2> QED
    BY <1>7, <2>1, <1>0 DEF ContentPoll, Alive, keys
<1>8. ASSUME NEW c \in Content, SavePushed(c) PROVE Read(n)' \subseteq Safe'
  BY <1>8, <1>0 DEF SavePushed, Alive, keys
<1>9. CASE TaskFails
  BY <1>9, <1>0 DEF TaskFails, NoKeys, Forget, Alive, database
<1>10. CASE UNCHANGED <<hash, lost, known, dumped, phase>>
  BY <1>10, <1>0 DEF Alive
<1> QED
  BY <1>1, <1>2, <1>3, <1>4, <1>5, <1>6, <1>7, <1>8, <1>9, <1>10 DEF Next, vars, database, keys, messages,
     Rekey, ChangeEntry, Post, Push, KeyPollFails, ReportPoll, ReportPush, Dispatch, Take, Refuse, Hand,
     Handle, Deliver

\* A poll that went well, and only such a one, brings the keys up to due.
LEMMA DueStep == TypeOK /\ KeysCovered /\ DueCovered /\ UnservedIsEmpty /\ [Next]_vars => DueCovered'
<1> SUFFICES ASSUME TypeOK, KeysCovered, DueCovered, UnservedIsEmpty, [Next]_vars PROVE DueCovered'
  OBVIOUS
<1> USE DEF DueCovered, GoodNews
<1>1. CASE Look
  <2>1. CASE Active /\ phase = "off"
    BY <1>1, <2>1 DEF Look, FreshKeys
  <2>2. CASE ~Active /\ phase # "off"
    BY <1>1, <2>2 DEF Look, NoKeys
  <2>3. CASE ~(Active /\ phase = "off") /\ ~(~Active /\ phase # "off")
    BY <1>1, <2>3 DEF Look, keys
  <2> QED
    BY <2>1, <2>2, <2>3
<1>2. CASE Restart
  BY <1>2 DEF Restart, NoKeys
<1>3. ASSUME NEW n \in Nodes, KeyPoll(n) PROVE DueCovered'
  <2>1. /\ known' = known \cup (hash["keys"][n] + 1 .. keyCount) /\ lost' = lost \ known'
        /\ due' = keyCount /\ phase' = phase /\ Alive
    BY <1>3 DEF KeyPoll, MergeKeys
  <2>2. 1 .. hash["keys"][n] \subseteq lost \cup known
    BY <2>1 DEF KeysCovered
  <2>3. hash["keys"][n] \in Nat /\ keyCount \in Nat
    BY DEF TypeOK, Namespaces
  <2> QED
    BY <2>1, <2>2, <2>3 DEF Alive
<1>4. CASE MergePushedKeys
  BY <1>4 DEF MergePushedKeys, MergeKeys, UnservedIsEmpty
<1>5. CASE ReadResult
  BY <1>5 DEF ReadResult, Decide, NoKeys
<1>6. CASE ReportPoll
  BY <1>6 DEF ReportPoll
<1>7. CASE ReportPush
  BY <1>7 DEF ReportPush, TypeOK
<1>8. CASE KeyPollFails
  BY <1>8 DEF KeyPollFails
<1>9. CASE TaskFails
  BY <1>9 DEF TaskFails, NoKeys
<1>10. CASE UNCHANGED <<phase, poller, pipe, results, due, known, lost>>
  BY <1>10
<1> QED
  BY <1>1, <1>2, <1>3, <1>4, <1>5, <1>6, <1>7, <1>8, <1>9, <1>10 DEF Next, vars, keys, messages, database,
     Rekey, ChangeEntry, Post, Push, ContentPoll, SavePushed, DumpKeys, Dispatch, Take, Refuse, Hand,
     Handle, Deliver

\* Only the handler fills the channels, and it runs once the keys are there.
LEMMA UnservedStep == TypeOK /\ UnservedIsEmpty /\ [Next]_vars => UnservedIsEmpty'
<1> SUFFICES ASSUME TypeOK, UnservedIsEmpty, [Next]_vars PROVE UnservedIsEmpty'
  OBVIOUS
<1> USE DEF UnservedIsEmpty
<1>0. "keys" \in Receivers /\ Empty["keys"] = <<>>
  BY DEF Empty, Receivers, Namespaces
<1>1. CASE Look
  BY <1>1, <1>0 DEF Look, FreshChannels, FreshKeys, NoKeys, Active
<1>2. CASE Restart \/ TaskFails
  BY <1>2, <1>0 DEF Restart, TaskFails, FreshChannels
<1>3. CASE ReadResult
  BY <1>3, <1>0 DEF ReadResult, Decide, FreshChannels
<1>4. CASE MergePushedKeys
  BY <1>4, <1>0 DEF MergePushedKeys, TypeOK
<1>5. CASE Deliver
  BY <1>5 DEF Deliver
<1>6. ASSUME NEW c \in Content, SavePushed(c) PROVE UnservedIsEmpty'
  BY <1>6 DEF SavePushed
<1>7. CASE UNCHANGED <<phase, chan>>
  BY <1>7
<1> QED
  BY <1>1, <1>2, <1>3, <1>4, <1>5, <1>6, <1>7 DEF Next, vars, keys, messages, database, Rekey,
     ChangeEntry, Post, Push, KeyPoll, KeyPollFails, ReportPoll, ReportPush, ContentPoll, DumpKeys,
     Dispatch, Take, Refuse, Hand, Handle

-----------------------------------------------------------------------------
THEOREM IInvHolds == Spec => []IInv
<1>1. IInv /\ [Next]_vars => IInv'
  BY TypeStep, KeysStep, DueStep, UnservedStep DEF IInv
<1> QED
  BY InitIInv, <1>1, PTL DEF Spec

\* The state of a group's task, its channels and its hashes always have their types.
THEOREM TypeCorrect == Spec => []TypeOK
<1>1. IInv => TypeOK
  BY DEF IInv
<1> QED
  BY IInvHolds, <1>1, PTL

\* A hash that was saved (poll_swarm_messages_once) skips no key message that the task
\* does not know, or would not find in its dump, but for keys that were read and
\* forgotten before a dump.
THEOREM KeysAreCovered == Spec => []KeysCovered
<1>1. IInv => KeysCovered
  BY DEF IInv
<1> QED
  BY IInvHolds, <1>1, PTL

\* A poll of info, members or messages saves every message that its hash goes past and
\* that was encrypted with a key the task had to have (sync_regular_messages).
THEOREM PassedAreSavedAlways == Spec => PassedAreSaved
<1> DEFINE Passed == \A c \in Content, n \in Nodes :
                       \A i \in hash[c][n] + 1 .. hash'[c][n] :
                         i \in saved'[c] \/ log[c][i] > due \/ log[c][i] \in lost
<1>1. IInv /\ [Next]_vars => [Passed]_vars
  <2> SUFFICES ASSUME IInv, [Next]_vars, NEW c \in Content, NEW n \in Nodes,
                      NEW i \in hash[c][n] + 1 .. hash'[c][n]
               PROVE  i \in saved'[c] \/ log[c][i] > due \/ log[c][i] \in lost
    OBVIOUS
  <2> USE DEF IInv
  <2>0. hash[c][n] \in Nat
    BY DEF TypeOK, Namespaces
  <2>1. ASSUME NEW d \in Content, NEW m \in Nodes, ContentPoll(d, m)
        PROVE  i \in saved'[c] \/ log[c][i] > due \/ log[c][i] \in lost
    <3>1. c = d /\ n = m /\ hash'[c][n] = Len(log[c])
      <4>1. hash' = [hash EXCEPT ![d][m] = Len(log[d])]
        BY <2>1 DEF ContentPoll
      <4>2. hash \in [Namespaces -> [Nodes -> Nat]] /\ d \in Namespaces /\ c \in Namespaces
        BY DEF TypeOK, Namespaces
      <4>3. hash'[c][n] = IF c = d /\ n = m THEN Len(log[d]) ELSE hash[c][n]
        BY <4>1, <4>2
      <4> QED
        BY <2>0, <4>3
    <3>2. i \in 1 .. Len(log[c]) /\ log[c][i] \in Generations
      BY <3>1, <2>0 DEF TypeOK
    <3>3. Decrypts(c, i) => i \in saved'[c]
      BY <2>1, <3>1, <3>2 DEF ContentPoll, Save, Readable, TypeOK
    <3>4. 1 .. due \subseteq known \cup lost
      BY <2>1 DEF ContentPoll, DueCovered
    <3> QED
      BY <3>2, <3>3, <3>4 DEF Decrypts, Generations, TypeOK
  <2>2. ASSUME NEW m \in Nodes, KeyPoll(m) PROVE hash'[c][n] = hash[c][n]
    BY <2>2, ConstantsOK DEF KeyPoll, TypeOK, Namespaces
  <2>3. \/ UNCHANGED hash \/ \E m \in Nodes : KeyPoll(m)
        \/ \E d \in Content, m \in Nodes : ContentPoll(d, m)
    BY DEF Next, vars, database, Rekey, ChangeEntry, Look, Restart, Post, SavePushed,
       Push, KeyPollFails, ReportPoll, MergePushedKeys, ReportPush, DumpKeys, ReadResult, TaskFails, Dispatch,
       Take, Refuse, Hand, Handle, Deliver
  <2>4. hash'[c][n] # hash[c][n]
    BY <2>0
  <2> QED
    BY <2>1, <2>2, <2>3, <2>4
<1> QED
  BY IInvHolds, <1>1, PTL DEF Spec, PassedAreSaved
=============================================================================
