------------------------- MODULE AccountManagerProofs -------------------------
(***************************************************************************)
(* What holds of the account manager for any accounts, threads and bounds. *)
(***************************************************************************)
EXTENDS AccountManager, TLAPS

\* What the saving task has in hand is the list, if nothing was missed since.
TakenIsCurrent == persist.at = "save" /\ ~persist.unseen => persist.taken = names

\* A login that is about to add its account has left the identity on disk.
LoginHasIdentity ==
  \A c \in Callers :
    call[c].at = "add" /\ call[c].id \notin severed => disk[call[c].id] = "identity"

\* A request that is under way has an id; one that adds has an account.
CallsAreWhole ==
  \A c \in Callers : /\ call[c].at # "idle" => call[c].id \in Ids
                     /\ call[c].at = "add" => call[c].account \in Instances

IInv == TypeOK /\ CallsAreWhole /\ RowsAreCurrent /\ TakenIsCurrent /\ NoAccountLeaks
        /\ LoginHasIdentity /\ ListedCanBeOpened

LEMMA InitIInv == Init => IInv
<1> SUFFICES ASSUME Init PROVE IInv
  OBVIOUS
<1> USE ConstantsOK DEF Init, Listings, Nothing, Idle
<1>1. TypeOK
  <2>1. names \in Listings /\ Nothing \in Listings /\ Nothing \in [Ids -> Instances \cup {None}]
    OBVIOUS
  <2>2. call \in [Callers -> [at : {"idle", "open", "add", "lock", "remove"},
                            id : Ids \cup {None}, account : Instances \cup {None}]]
    OBVIOUS
  <2>3. disk \in [Ids -> {"gone", "bare", "identity"}]
    OBVIOUS
  <2>4. \A id \in Ids : hosted[id] # None => names[id] # None
    OBVIOUS
  <2> QED
    BY <2>1, <2>2, <2>3, <2>4 DEF TypeOK
<1>2. CallsAreWhole /\ LoginHasIdentity
  BY DEF CallsAreWhole, LoginHasIdentity
<1>3. RowsAreCurrent /\ TakenIsCurrent /\ NoAccountLeaks
  BY DEF RowsAreCurrent, TakenIsCurrent, NoAccountLeaks
<1>4. ListedCanBeOpened
  BY DEF ListedCanBeOpened
<1> QED
  BY <1>1, <1>2, <1>3, <1>4 DEF IInv

\* Types, and the shape of requests.
LEMMA TypeStep == TypeOK /\ CallsAreWhole /\ [Next]_vars => TypeOK' /\ CallsAreWhole'
<1> SUFFICES ASSUME TypeOK, CallsAreWhole, [Next]_vars PROVE TypeOK' /\ CallsAreWhole'
  OBVIOUS
<1> USE ConstantsOK DEF TypeOK, CallsAreWhole, Listings, Nothing, Idle
<1>1. ASSUME NEW i \in Instances, NEW id \in Ids, StartAccount(i, id)
      PROVE  live' \subseteq Instances /\ started' \in [Instances -> Ids \cup {None}]
  BY <1>1 DEF StartAccount
<1>2. ASSUME Notify
      PROVE  /\ persist' \in [at : {"wait", "take", "save", "ended"}, unseen : BOOLEAN, taken : Listings]
             /\ client' \in [at : {"show", "wait"}, unseen : BOOLEAN, shown : Listings]
  BY <1>2 DEF Notify
<1>3. Unstarted # {} => NextInstance \in Instances
  BY DEF Unstarted, NextInstance
<1>4. ASSUME NEW c \in Callers, NEW id \in Ids, LoginDir(c, id) PROVE TypeOK' /\ CallsAreWhole'
  BY <1>4 DEF LoginDir
<1>5. ASSUME NEW c \in Callers, LoginOpens(c) PROVE TypeOK' /\ CallsAreWhole'
  <2>1. call[c].id \in Ids /\ NextInstance \in Instances
    BY <1>5, <1>3 DEF LoginOpens
  <2>2. live' \subseteq Instances /\ started' \in [Instances -> Ids \cup {None}]
    BY <1>5, <1>1, <2>1 DEF LoginOpens
  <2>3. call' = [call EXCEPT ![c] = [call[c] EXCEPT !.at = "add", !.account = NextInstance]]
    BY <1>5 DEF LoginOpens
  <2>4. disk' \in [Ids -> {"gone", "bare", "identity"}]
    BY <1>5 DEF LoginOpens
  <2> QED
    BY <1>5, <2>1, <2>2, <2>3, <2>4 DEF LoginOpens
<1>6. ASSUME NEW c \in Callers, LoginFails(c) PROVE TypeOK' /\ CallsAreWhole'
  BY <1>6 DEF LoginFails, Finish
<1>7. ASSUME NEW c \in Callers, LoginAdds(c) PROVE TypeOK' /\ CallsAreWhole'
  BY <1>7, <1>2 DEF LoginAdds, Finish
<1>8. ASSUME NEW c \in Callers, NEW id \in Ids, Dispatch(c, id) PROVE TypeOK' /\ CallsAreWhole'
  BY <1>8 DEF Dispatch
<1>9. ASSUME NEW c \in Callers, DispatchSettled(c) PROVE TypeOK' /\ CallsAreWhole'
  BY <1>9 DEF DispatchSettled, Finish
<1>10. ASSUME NEW c \in Callers, DispatchStarts(c) PROVE TypeOK' /\ CallsAreWhole'
  BY <1>10, <1>1, <1>2, <1>3 DEF DispatchStarts, Finish
<1>11. ASSUME NEW c \in Callers, DispatchFails(c) PROVE TypeOK' /\ CallsAreWhole'
  BY <1>11 DEF DispatchFails, Finish
<1>12. ASSUME NEW c \in Callers, NEW id \in Ids, Delete(c, id) PROVE TypeOK' /\ CallsAreWhole'
  BY <1>12, <1>2 DEF Delete
<1>13. ASSUME NEW c \in Callers, RemoveDir(c) PROVE TypeOK' /\ CallsAreWhole'
  BY <1>13 DEF RemoveDir, Finish
<1>a. Nothing \in Listings
  OBVIOUS
<1>14. ASSUME Persist PROVE TypeOK' /\ CallsAreWhole'
  <2> HIDE DEF Listings, Nothing
  <2>1. PersistWakes => TypeOK' /\ CallsAreWhole'
    BY DEF PersistWakes
  <2>2. PersistTakes => TypeOK' /\ CallsAreWhole'
    BY DEF PersistTakes
  <2>3. PersistSaves => TypeOK' /\ CallsAreWhole'
    BY <1>a DEF PersistSaves
  <2>4. PersistFails => TypeOK' /\ CallsAreWhole'
    BY <1>a DEF PersistFails
  <2> QED
    BY <1>14, <2>1, <2>2, <2>3, <2>4 DEF Persist
<1>15. ASSUME Client PROVE TypeOK' /\ CallsAreWhole'
  <2> HIDE DEF Listings, Nothing
  <2>1. ClientShows => TypeOK' /\ CallsAreWhole'
    <3> SUFFICES ASSUME ClientShows PROVE TypeOK' /\ CallsAreWhole'
      OBVIOUS
    <3>1. client' \in [at : {"show", "wait"}, unseen : BOOLEAN, shown : Listings]
      BY DEF ClientShows
    <3> QED
      BY <3>1 DEF ClientShows
  <2>2. ClientWakes => TypeOK' /\ CallsAreWhole'
    BY DEF ClientWakes
  <2> QED
    BY <1>15, <2>1, <2>2 DEF Client
<1>16. ASSUME NEW i \in Instances, ShowProfile(i) PROVE TypeOK' /\ CallsAreWhole'
  BY <1>16, <1>2 DEF ShowProfile
<1>17. ASSUME Crash PROVE TypeOK' /\ CallsAreWhole'
  BY <1>17 DEF Crash, Booted
<1>18. ASSUME UNCHANGED vars PROVE TypeOK' /\ CallsAreWhole'
  BY <1>18 DEF vars
<1> QED
  BY <1>4, <1>5, <1>6, <1>7, <1>8, <1>9, <1>10, <1>11, <1>12, <1>13, <1>14, <1>15, <1>16, <1>17, <1>18
     DEF Next, Request

\* The saving task, and the list.
LEMMA SavingStep == TypeOK /\ RowsAreCurrent /\ TakenIsCurrent /\ [Next]_vars
                      => RowsAreCurrent' /\ TakenIsCurrent'
<1> SUFFICES ASSUME TypeOK, RowsAreCurrent, TakenIsCurrent, [Next]_vars
             PROVE  RowsAreCurrent' /\ TakenIsCurrent'
  OBVIOUS
<1> USE DEF RowsAreCurrent, TakenIsCurrent
<1>1. persist.at \in {"wait", "take", "save", "ended"} /\ persist = [at |-> persist.at, unseen |-> persist.unseen, taken |-> persist.taken]
  BY DEF TypeOK
<1>2. ASSUME Notify PROVE persist'.unseen = TRUE
  BY <1>1, <1>2 DEF Notify
<1>3. ASSUME UNCHANGED <<persist, names, rows>> PROVE RowsAreCurrent' /\ TakenIsCurrent'
  BY <1>3
<1>4. ASSUME NEW c \in Callers, Request(c) PROVE RowsAreCurrent' /\ TakenIsCurrent'
  <2>1. UNCHANGED <<persist, names, rows>> \/ Notify
          \/ \E id \in Ids : Delete(c, id) /\ names[id] = None /\ UNCHANGED persist
    BY <1>4 DEF Request, LoginDir, LoginOpens, LoginFails, LoginAdds, Dispatch, DispatchSettled,
                DispatchStarts, DispatchFails, Delete, RemoveDir
  <2>2. ASSUME NEW id \in Ids, Delete(c, id), names[id] = None, UNCHANGED persist
        PROVE  UNCHANGED <<persist, names, rows>>
    BY <2>2 DEF Delete, TypeOK, Listings
  <2> QED
    BY <2>1, <2>2, <1>2, <1>3
<1>5. ASSUME Persist PROVE RowsAreCurrent' /\ TakenIsCurrent'
  <2>1. PersistWakes => RowsAreCurrent' /\ TakenIsCurrent'
    BY <1>1 DEF PersistWakes
  <2>2. PersistTakes => RowsAreCurrent' /\ TakenIsCurrent'
    BY <1>1 DEF PersistTakes
  <2>3. PersistSaves => RowsAreCurrent' /\ TakenIsCurrent'
    BY <1>1 DEF PersistSaves
  <2>4. PersistFails => RowsAreCurrent' /\ TakenIsCurrent'
    BY <1>1 DEF PersistFails
  <2> QED
    BY <1>5, <2>1, <2>2, <2>3, <2>4 DEF Persist
<1>6. ASSUME Client PROVE RowsAreCurrent' /\ TakenIsCurrent'
  BY <1>3, <1>6 DEF Client, ClientShows, ClientWakes
<1>7. ASSUME NEW i \in Instances, ShowProfile(i) PROVE RowsAreCurrent' /\ TakenIsCurrent'
  BY <1>2, <1>7 DEF ShowProfile
<1>8. ASSUME Crash PROVE RowsAreCurrent' /\ TakenIsCurrent'
  BY <1>8 DEF Crash, Booted
<1>9. ASSUME UNCHANGED vars PROVE RowsAreCurrent' /\ TakenIsCurrent'
  BY <1>3, <1>9 DEF vars
<1> QED
  BY <1>4, <1>5, <1>6, <1>7, <1>8, <1>9 DEF Next

\* Who owns the accounts that run.
LEMMA OwnerStep == TypeOK /\ CallsAreWhole /\ NoAccountLeaks /\ [Next]_vars => NoAccountLeaks'
<1> SUFFICES ASSUME TypeOK, CallsAreWhole, NoAccountLeaks, [Next]_vars,
                    NEW i \in live'
             PROVE  \/ \E id \in Ids : hosted'[id] = i /\ names'[id] # None
                    \/ \E c \in Callers : call'[c].at = "add" /\ call'[c].account = i
  BY DEF NoAccountLeaks
<1> DEFINE Owned == \/ \E id \in Ids : hosted'[id] = i /\ names'[id] # None
                   \/ \E c \in Callers : call'[c].at = "add" /\ call'[c].account = i
<1> USE ConstantsOK DEF Idle, Finish
<1>1. ASSUME i \in live, UNCHANGED <<hosted, names>>, NEW c \in Callers, call[c].at # "add",
             \A d \in Callers \ {c} : call'[d] = call[d]
      PROVE  Owned
  BY <1>1 DEF NoAccountLeaks
<1>2. ASSUME NEW c \in Callers, NEW id \in Ids, LoginDir(c, id) PROVE Owned
  BY <1>1, <1>2 DEF LoginDir, TypeOK
<1>3. ASSUME NEW c \in Callers, LoginOpens(c) PROVE Owned
  <2>1. CASE i = NextInstance
    BY <1>3, <2>1 DEF LoginOpens, TypeOK
  <2>2. CASE i # NextInstance
    BY <1>1, <1>3, <2>2 DEF LoginOpens, StartAccount, TypeOK
  <2> QED
    BY <2>1, <2>2
<1>4. ASSUME NEW c \in Callers, LoginFails(c) PROVE Owned
  BY <1>1, <1>4 DEF LoginFails, TypeOK
<1>5. ASSUME NEW c \in Callers, LoginAdds(c) PROVE Owned
  <2>1. call[c].id \in Ids /\ i \in live /\ i # hosted[call[c].id]
    BY <1>5 DEF LoginAdds, CallsAreWhole
  <2>2. hosted'[call[c].id] = call[c].account /\ names'[call[c].id] # None
    BY <1>5, <2>1 DEF LoginAdds, TypeOK, Listings
  <2>3. \A id \in Ids \ {call[c].id} : hosted'[id] = hosted[id] /\ names'[id] = names[id]
    BY <1>5 DEF LoginAdds, TypeOK, Listings
  <2>4. \A d \in Callers \ {c} : call'[d] = call[d]
    BY <1>5 DEF LoginAdds, TypeOK
  <2> QED
    BY <2>1, <2>2, <2>3, <2>4 DEF NoAccountLeaks
<1>6. ASSUME NEW c \in Callers, NEW id \in Ids, Dispatch(c, id) PROVE Owned
  BY <1>1, <1>6 DEF Dispatch, TypeOK
<1>7. ASSUME NEW c \in Callers, DispatchSettled(c) \/ DispatchFails(c) \/ RemoveDir(c) PROVE Owned
  BY <1>1, <1>7 DEF DispatchSettled, DispatchFails, RemoveDir, TypeOK
<1>8. ASSUME NEW c \in Callers, DispatchStarts(c) PROVE Owned
  <2>1. call[c].id \in Ids /\ hosted[call[c].id] = None /\ names' = names /\ names[call[c].id] # None
    BY <1>8 DEF DispatchStarts, CallsAreWhole
  <2>2. hosted'[call[c].id] = NextInstance
    BY <1>8, <2>1 DEF DispatchStarts, TypeOK
  <2>3. \A id \in Ids \ {call[c].id} : hosted'[id] = hosted[id]
    BY <1>8 DEF DispatchStarts, TypeOK
  <2>4. \A d \in Callers \ {c} : call'[d] = call[d]
    BY <1>8 DEF DispatchStarts, TypeOK
  <2>5. i = NextInstance \/ i \in live
    BY <1>8 DEF DispatchStarts, StartAccount
  <2>6. i \in live => i # None
    BY DEF TypeOK
  <2>7. call[c].at # "add"
    BY <1>8 DEF DispatchStarts
  <2> QED
    BY <2>1, <2>2, <2>3, <2>4, <2>5, <2>6, <2>7 DEF NoAccountLeaks
<1>9. ASSUME NEW c \in Callers, NEW id \in Ids, Delete(c, id) PROVE Owned
  <2>1. i \in live /\ i # hosted[id] /\ call[c].at # "add"
    BY <1>9 DEF Delete
  <2>2. \A x \in Ids \ {id} : hosted'[x] = hosted[x] /\ names'[x] = names[x]
    BY <1>9 DEF Delete, TypeOK, Listings
  <2>3. \A d \in Callers \ {c} : call'[d] = call[d]
    BY <1>9 DEF Delete, TypeOK
  <2> QED
    BY <2>1, <2>2, <2>3 DEF NoAccountLeaks
<1>10. ASSUME Persist \/ Client PROVE Owned
  BY <1>10 DEF Persist, PersistWakes, PersistTakes, PersistSaves, PersistFails, Client,
               ClientShows, ClientWakes, NoAccountLeaks
<1>11. ASSUME NEW j \in Instances, ShowProfile(j) PROVE Owned
  <2>1. \A id \in Ids : names[id] # None => names'[id] # None
    BY <1>11 DEF ShowProfile, TypeOK, Listings
  <2> QED
    BY <1>11, <2>1 DEF ShowProfile, NoAccountLeaks
<1>12. ASSUME Crash PROVE Owned
  BY <1>12 DEF Crash, Booted
<1>13. ASSUME UNCHANGED vars PROVE Owned
  BY <1>13 DEF vars, NoAccountLeaks
<1> QED
  BY <1>2, <1>3, <1>4, <1>5, <1>6, <1>7, <1>8, <1>9, <1>10, <1>11, <1>12, <1>13 DEF Next, Request

\* The directory of what is listed, or about to be.
LEMMA IdentityStep == TypeOK /\ CallsAreWhole /\ LoginHasIdentity /\ ListedCanBeOpened
                        /\ [Next]_vars => LoginHasIdentity' /\ ListedCanBeOpened'
<1> SUFFICES ASSUME TypeOK, CallsAreWhole, LoginHasIdentity, ListedCanBeOpened, [Next]_vars
             PROVE  LoginHasIdentity' /\ ListedCanBeOpened'
  OBVIOUS
<1> DEFINE Kept == LoginHasIdentity' /\ ListedCanBeOpened'
<1> USE ConstantsOK DEF Idle, Finish
<1>1. ASSUME UNCHANGED <<severed, names>>,
             \A id \in Ids : disk[id] = "identity" => disk'[id] = "identity",
             NEW c \in Callers, call'[c].at # "add", \A d \in Callers \ {c} : call'[d] = call[d]
      PROVE  Kept
  BY <1>1 DEF LoginHasIdentity, ListedCanBeOpened, CallsAreWhole
<1>2. ASSUME NEW c \in Callers, NEW id \in Ids, LoginDir(c, id) PROVE Kept
  BY <1>1, <1>2 DEF LoginDir, TypeOK
<1>3. ASSUME NEW c \in Callers, LoginOpens(c) PROVE Kept
  <2>1. call[c].id \in Ids /\ names' = names /\ severed' = severed \ {call[c].id}
    BY <1>3 DEF LoginOpens, CallsAreWhole
  <2>2. disk'[call[c].id] = "identity" /\ \A x \in Ids \ {call[c].id} : disk'[x] = disk[x]
    BY <1>3, <2>1 DEF LoginOpens, TypeOK
  <2>3. call'[c].id = call[c].id /\ \A d \in Callers \ {c} : call'[d] = call[d]
    BY <1>3 DEF LoginOpens, TypeOK
  <2> QED
    BY <2>1, <2>2, <2>3 DEF LoginHasIdentity, ListedCanBeOpened, CallsAreWhole
<1>4. ASSUME NEW c \in Callers, LoginFails(c) PROVE Kept
  BY <1>1, <1>4 DEF LoginFails, TypeOK
<1>5. ASSUME NEW c \in Callers, LoginAdds(c) PROVE Kept
  <2>1. call[c].id \in Ids /\ UNCHANGED <<disk, severed>> /\ call[c].at = "add"
    BY <1>5 DEF LoginAdds, CallsAreWhole
  <2>2. \A x \in Ids \ {call[c].id} : names'[x] = names[x]
    BY <1>5 DEF LoginAdds, TypeOK, Listings
  <2>3. call'[c].at # "add" /\ \A d \in Callers \ {c} : call'[d] = call[d]
    BY <1>5 DEF LoginAdds, TypeOK
  <2> QED
    BY <2>1, <2>2, <2>3 DEF LoginHasIdentity, ListedCanBeOpened
<1>6. ASSUME NEW c \in Callers, NEW id \in Ids, Dispatch(c, id) PROVE Kept
  BY <1>1, <1>6 DEF Dispatch, TypeOK
<1>7. ASSUME NEW c \in Callers, DispatchSettled(c) PROVE Kept
  BY <1>1, <1>7 DEF DispatchSettled, TypeOK
<1>8. ASSUME NEW c \in Callers, DispatchStarts(c) PROVE Kept
  BY <1>1, <1>8 DEF DispatchStarts, TypeOK
<1>9. ASSUME NEW c \in Callers, DispatchFails(c) PROVE Kept
  BY <1>1, <1>9 DEF DispatchFails, TypeOK
<1>10. ASSUME NEW c \in Callers, NEW id \in Ids, Delete(c, id) PROVE Kept
  <2>1. \A x \in Ids : names'[x] # None => names[x] # None
    BY <1>10 DEF Delete, TypeOK, Listings
  <2>2. call'[c].at # "add" /\ \A d \in Callers \ {c} : call'[d] = call[d]
    BY <1>10 DEF Delete, TypeOK
  <2> QED
    BY <1>10, <2>1, <2>2 DEF Delete, LoginHasIdentity, ListedCanBeOpened
<1>11. ASSUME NEW c \in Callers, RemoveDir(c) PROVE Kept
  <2>1. call[c].id \in Ids /\ UNCHANGED names
    BY <1>11 DEF RemoveDir, CallsAreWhole
  <2>2. \A x \in Ids \ {call[c].id} : disk'[x] = disk[x]
    BY <1>11 DEF RemoveDir, TypeOK
  <2>3. call'[c].at # "add" /\ \A d \in Callers \ {c} : call'[d] = call[d]
    BY <1>11 DEF RemoveDir, TypeOK
  <2>4. severed \subseteq severed'
    BY <1>11 DEF RemoveDir
  <2>5. CASE call[c].id \in severed'
    BY <2>1, <2>2, <2>3, <2>4, <2>5 DEF LoginHasIdentity, ListedCanBeOpened, CallsAreWhole
  <2>6. CASE call[c].id \notin severed'
    <3>1. names[call[c].id] = None
            /\ \A d \in Callers : ~(call[d].at = "add" /\ call[d].id = call[c].id)
      BY <1>11, <2>6 DEF RemoveDir
    <3> QED
      BY <2>1, <2>2, <2>3, <2>4, <3>1 DEF LoginHasIdentity, ListedCanBeOpened, CallsAreWhole
  <2> QED
    BY <2>5, <2>6
<1>12. ASSUME Persist \/ Client PROVE Kept
  BY <1>12 DEF Persist, PersistWakes, PersistTakes, PersistSaves, PersistFails, Client,
               ClientShows, ClientWakes, LoginHasIdentity, ListedCanBeOpened
<1>13. ASSUME NEW i \in Instances, ShowProfile(i) PROVE Kept
  <2>1. \A id \in Ids : names'[id] # None => names[id] # None
    BY <1>13 DEF ShowProfile, TypeOK, Listings
  <2> QED
    BY <1>13, <2>1 DEF ShowProfile, LoginHasIdentity, ListedCanBeOpened
<1>14. ASSUME Crash PROVE Kept
  <2>1. names' = rows /\ UNCHANGED disk /\ call' = [c \in Callers |-> Idle]
          /\ severed' = severed \cup {id \in Ids : names[id] = None /\ rows[id] # None}
    BY <1>14 DEF Crash, Booted
  <2> QED
    BY <2>1 DEF LoginHasIdentity, ListedCanBeOpened
<1>15. ASSUME UNCHANGED vars PROVE Kept
  BY <1>15 DEF vars, LoginHasIdentity, ListedCanBeOpened
<1> QED
  BY <1>2, <1>3, <1>4, <1>5, <1>6, <1>7, <1>8, <1>9, <1>10, <1>11, <1>12, <1>13, <1>14, <1>15
     DEF Next, Request

\* The inductive invariant holds in every state.
THEOREM Inductive == Spec => []IInv
<1>1. IInv /\ [Next]_vars => IInv'
  BY TypeStep, SavingStep, OwnerStep, IdentityStep DEF IInv
<1> QED
  BY InitIInv, <1>1, PTL DEF Spec

\* Every variable has its type, and a running account is inside its entry.
THEOREM TypeCorrect == Spec => []TypeOK
  BY Inductive, PTL DEF IInv

\* When the task that saves the list has nothing left to do, the table is the
\* list: a crash then loses no login, no deletion and no name.
THEOREM SavedWhenIdle == Spec => []RowsAreCurrent
  BY Inductive, PTL DEF IInv

\* Whatever requests interleave, an account that runs is in the list or about
\* to be: none goes on syncing after it was deleted or replaced.
THEOREM RunningIsOwned == Spec => []NoAccountLeaks
  BY Inductive, PTL DEF IInv

\* A listed account has its identity on disk, but for a deletion that overlapped
\* a login or was cut short by a crash.
THEOREM ListedHasIdentity == Spec => []ListedCanBeOpened
  BY Inductive, PTL DEF IInv
=============================================================================
