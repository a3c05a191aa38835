------------------------ MODULE AccountDatabaseProofs ------------------------
(***************************************************************************)
(* The invariants of AccountDatabase, for any number of auth servers,      *)
(* lobbies, administrators, users and account numbers.                     *)
(***************************************************************************)
EXTENDS AccountDatabase, TLAPS

CallSteps == LogInSteps \cup LogOutSteps \cup DeleteSteps

\* A number that the sequence has not given out, or that a transaction has
\* inserted and not committed, is in no table.
FreshNumbers ==
  /\ \A n \in Numbers : n >= nextNumber => userData[n] = "none"
  /\ \A w \in AuthWorkers : At(w, "addCommit") =>
       /\ tx[w].number < nextNumber
       /\ userData[tx[w].number] = "none"
       /\ ~Registered(tx[w].uid)

\* Two transactions never have inserted the same number or the same UID.
OwnRow ==
  \A v, w \in AuthWorkers : At(v, "addCommit") /\ At(w, "addCommit") /\ v # w =>
    tx[v].number # tx[w].number /\ tx[v].uid # tx[w].uid

\* Lobbies only speak of accounts that were added, and a DeleteAccount that has
\* got past its test too.
KnownNumbers ==
  /\ \A l \in Lobbies, n \in Numbers : Holds(l, n) => userData[n] # "none"
  /\ \A l \in Lobbies : tx[l] # Idle => userData[tx[l].number] # "none"
  /\ \A w \in Admins : tx[w].step \in {"delMove", "delRow", "delCommit"} =>
       userData[tx[w].number] # "none"

\* Log-ins that are in progress at the same time are what contested says.
OverlapContested ==
  \A l, k \in Lobbies, n \in Numbers : LogsIn(l, n) /\ LogsIn(k, n) /\ l # k => n \in contested

\* Between the test of IsActive and the commit the account stays inactive.
TestedInactive ==
  \A l \in Lobbies : tx[l].step \in {"inUpdate", "inCommit"} =>
    \/ tx[l].number \in contested
    \/ tx[l].number \notin isActive

\* A log-out is of a user who is leaving, or was queued twice.
LeavingLogsOut ==
  \A l \in Lobbies : tx[l].step \in LogOutSteps =>
    session[l][tx[l].number] = "leaving" \/ <<l, tx[l].number>> \in again

\* What was queued twice is contested.
TwiceContested ==
  \A l \in Lobbies, n \in Numbers :
    <<l, n>> \in again => n \in contested /\ userData[n] # "none"

\* The inductive invariant.
IInv == /\ TypeOK
        /\ RowsAgree
        /\ OneAccountPerUid
        /\ ActiveHeld
        /\ HeldIsActive
        /\ FreshNumbers
        /\ OwnRow
        /\ KnownNumbers
        /\ OverlapContested
        /\ TestedInactive
        /\ LeavingLogsOut
        /\ TwiceContested


-----------------------------------------------------------------------------
(* Steps of a transaction *)

\* What a worker is doing says what kind of worker it is.
LEMMA Kinds ==
  ASSUME TypeOK
  PROVE  /\ \A w \in AuthWorkers : tx[w] # Idle =>
              /\ tx[w] \in Adds /\ tx[w].uid \in Uids
              /\ tx[w].step \in {"count", "insert", "addCommit"}
              /\ tx[w].step = "addCommit" => tx[w].number \in Numbers
         /\ \A w \in Lobbies : tx[w] # Idle =>
              /\ tx[w] \in Calls(LogInSteps \cup LogOutSteps) /\ tx[w].number \in Numbers
              /\ tx[w].step \in LogInSteps \cup LogOutSteps
         /\ \A w \in Admins : tx[w] # Idle =>
              /\ tx[w] \in Calls(DeleteSteps) /\ tx[w].number \in Numbers
              /\ tx[w].step \in DeleteSteps
<1>1. ASSUME NEW w \in AuthWorkers, tx[w] # Idle
      PROVE  /\ tx[w] \in Adds /\ tx[w].uid \in Uids
             /\ tx[w].step \in {"count", "insert", "addCommit"}
             /\ tx[w].step = "addCommit" => tx[w].number \in Numbers
  <2>1. tx[w] \in Adds
    BY <1>1 DEF TypeOK
  <2> QED
    BY <2>1 DEF Adds
<1>2. ASSUME NEW w \in Lobbies, tx[w] # Idle
      PROVE  /\ tx[w] \in Calls(LogInSteps \cup LogOutSteps) /\ tx[w].number \in Numbers
             /\ tx[w].step \in LogInSteps \cup LogOutSteps
  BY <1>2 DEF TypeOK, Calls
<1>3. ASSUME NEW w \in Admins, tx[w] # Idle
      PROVE  /\ tx[w] \in Calls(DeleteSteps) /\ tx[w].number \in Numbers
             /\ tx[w].step \in DeleteSteps
  BY <1>3 DEF TypeOK, Calls
<1> QED
  BY <1>1, <1>2, <1>3

-----------------------------------------------------------------------------
(* Type correctness *)

\* The tables start empty.
LEMMA InitTypeOK == Init => TypeOK
  BY AccountAssumption DEF AccountAssumption, Init, TypeOK, Numbers, Idle, Workers

\* Changing what one worker has reached keeps the type of tx.
LEMMA TxType ==
  ASSUME TypeOK, NEW w \in Workers, NEW r, tx' = [tx EXCEPT ![w] = r],
         w \in AuthWorkers => r \in {Idle} \cup Adds,
         w \in Lobbies => r \in {Idle} \cup Calls(LogInSteps \cup LogOutSteps),
         w \in Admins => r \in {Idle} \cup Calls(DeleteSteps)
  PROVE  /\ tx' \in [Workers -> {Idle} \cup Adds
                                 \cup Calls(LogInSteps \cup LogOutSteps \cup DeleteSteps)]
         /\ \A v \in AuthWorkers : tx'[v] \in {Idle} \cup Adds
         /\ \A v \in Lobbies : tx'[v] \in {Idle} \cup Calls(LogInSteps \cup LogOutSteps)
         /\ \A v \in Admins : tx'[v] \in {Idle} \cup Calls(DeleteSteps)
<1>1. r \in {Idle} \cup Adds \cup Calls(LogInSteps \cup LogOutSteps \cup DeleteSteps)
  BY DEF Workers, Calls
<1>2. tx \in [Workers -> {Idle} \cup Adds
                         \cup Calls(LogInSteps \cup LogOutSteps \cup DeleteSteps)]
  BY DEF TypeOK
<1>3. \A v \in Workers : tx'[v] = IF v = w THEN r ELSE tx[v]
  BY <1>2
<1>4. AuthWorkers \subseteq Workers /\ Lobbies \subseteq Workers /\ Admins \subseteq Workers
  BY DEF Workers
<1> QED
  BY <1>1, <1>2, <1>3, <1>4 DEF TypeOK

\* What Goto does to a call of a lobby or of an administrator.
LEMMA GotoTx ==
  ASSUME TypeOK, NEW w \in Workers, NEW s, tx[w] \in Calls(CallSteps), Goto(w, s)
  PROVE  tx' = [tx EXCEPT ![w] = [step |-> s, number |-> tx[w].number]]
<1>1. [tx[w] EXCEPT !.step = s] = [step |-> s, number |-> tx[w].number]
  BY DEF Calls
<1> QED
  BY <1>1 DEF Goto

\* The step of a lobby is one of a log-in or of a log-out.
LEMMA LobbyCall ==
  ASSUME TypeOK, NEW l \in Lobbies, tx[l] # Idle
  PROVE  /\ tx[l] \in Calls(CallSteps) /\ tx[l].number \in Numbers
         /\ tx[l].step \in LogInSteps \cup LogOutSteps
         /\ \A s \in LogInSteps \cup LogOutSteps :
              [step |-> s, number |-> tx[l].number] \in Calls(LogInSteps \cup LogOutSteps)
  BY Kinds DEF Calls, CallSteps

\* The step of an administrator is one of DeleteAccount.
LEMMA AdminCall ==
  ASSUME TypeOK, NEW w \in Admins, tx[w] # Idle
  PROVE  /\ tx[w] \in Calls(CallSteps) /\ tx[w].number \in Numbers
         /\ tx[w].step \in DeleteSteps
         /\ \A s \in DeleteSteps :
              [step |-> s, number |-> tx[w].number] \in Calls(DeleteSteps)
  BY Kinds DEF Calls, CallSteps

\* The actions that take a lobby's call to its next statement and change nothing else.
Advance(l, from, to) ==
  /\ At(l, from)
  /\ tx' = [tx EXCEPT ![l] = [step |-> to, number |-> tx[l].number]]
  /\ UNCHANGED <<tables, session, again, contested, lost>>

\* The actions that end a call without changing a table.
Ends(w) == End(w) /\ UNCHANGED <<tables, contested>>

\* What the actions of a log-in come to.
LEMMA LogInShapes ==
  ASSUME TypeOK, NEW l \in Lobbies
  PROVE  /\ InExists(l) => \/ Advance(l, "inExists", "inActive")
                           \/ At(l, "inExists") /\ Ends(l) /\ UNCHANGED <<session, again, lost>>
         /\ InActive(l) => \/ /\ Advance(l, "inActive", "inUpdate")
                              /\ tx[l].number \notin isActive
                           \/ At(l, "inActive") /\ Ends(l) /\ UNCHANGED <<session, again, lost>>
         /\ InUpdate(l) => Advance(l, "inUpdate", "inCommit")
<1> l \in Workers
  BY DEF Workers
<1>1. \A s : tx[l] # Idle /\ Goto(l, s) =>
        tx' = [tx EXCEPT ![l] = [step |-> s, number |-> tx[l].number]]
  BY GotoTx, LobbyCall
<1>2. \A s : At(l, s) /\ s # "idle" => tx[l] # Idle
  BY DEF At, Idle
<1> QED
  BY <1>1, <1>2 DEF InExists, InActive, InUpdate, Advance, Ends

\* What the actions of a log-out come to.
LEMMA LogOutShapes ==
  ASSUME TypeOK, NEW l \in Lobbies
  PROVE  /\ OutExists(l) => \/ Advance(l, "outExists", "outActive")
                            \/ /\ At(l, "outExists") /\ Ends(l) /\ Leaves(l) /\ UNCHANGED lost
                               /\ ~Exists(tx[l].number)
         /\ OutActive(l) => \/ Advance(l, "outActive", "outUpdate")
                            \/ /\ At(l, "outActive") /\ Ends(l) /\ Leaves(l) /\ UNCHANGED lost
                               /\ tx[l].number \notin isActive
         /\ OutUpdate(l) => Advance(l, "outUpdate", "outCommit")
<1> l \in Workers
  BY DEF Workers
<1>1. \A s : tx[l] # Idle /\ Goto(l, s) =>
        tx' = [tx EXCEPT ![l] = [step |-> s, number |-> tx[l].number]]
  BY GotoTx, LobbyCall
<1>2. \A s : At(l, s) /\ s # "idle" => tx[l] # Idle
  BY DEF At, Idle
<1> QED
  BY <1>1, <1>2 DEF OutExists, OutActive, OutUpdate, Advance, Ends

\* What the actions of DeleteAccount come to.
LEMMA DeleteShapes ==
  ASSUME TypeOK, NEW w \in Admins
  PROVE  /\ DelExists(w) => \/ /\ Advance(w, "delExists", "delMove")
                               /\ Exists(tx[w].number)
                            \/ At(w, "delExists") /\ Ends(w) /\ UNCHANGED <<session, again, lost>>
         /\ DelMove(w) => Advance(w, "delMove", "delRow")
         /\ DelRow(w) => Advance(w, "delRow", "delCommit")
<1> w \in Workers
  BY DEF Workers
<1>1. \A s : tx[w] # Idle /\ Goto(w, s) =>
        tx' = [tx EXCEPT ![w] = [step |-> s, number |-> tx[w].number]]
  BY GotoTx, AdminCall
<1>2. \A s : At(w, s) /\ s # "idle" => tx[w] # Idle
  BY DEF At, Idle
<1> QED
  BY <1>1, <1>2 DEF DelExists, DelMove, DelRow, Advance, Ends

\* What the actions of CheckAndAddAccount come to.
LEMMA AddShapes ==
  ASSUME TypeOK, NEW w \in AuthWorkers
  PROVE  /\ Count(w) => \/ At(w, "count") /\ Ends(w) /\ UNCHANGED <<session, again, lost>>
                        \/ /\ At(w, "count")
                           /\ tx' = [tx EXCEPT ![w] = [step |-> "insert", uid |-> tx[w].uid,
                                                       number |-> 0]]
                           /\ UNCHANGED <<tables, session, again, contested, lost>>
         /\ InsertAccount(w) =>
              /\ At(w, "insert") /\ UidFree(w)
              /\ nextNumber \in Numbers /\ nextNumber' = nextNumber + 1
              /\ \/ End(w)
                 \/ /\ ~Registered(tx[w].uid)
                    /\ tx' = [tx EXCEPT ![w] = [step |-> "addCommit", uid |-> tx[w].uid,
                                                number |-> nextNumber]]
              /\ UNCHANGED <<account, isActive, userData, deletedAccount, session, again,
                             contested, lost>>
<1> w \in Workers
  BY DEF Workers
<1>1. \A s : At(w, s) /\ s # "idle" => tx[w] # Idle
  BY DEF At, Idle
<1>2. CASE At(w, "count")
  <2>1. tx[w] \in Adds /\ tx[w].number = 0
    BY <1>1, <1>2, Kinds DEF At, Adds
  <2>2. [tx[w] EXCEPT !.step = "insert"] = [step |-> "insert", uid |-> tx[w].uid, number |-> 0]
    BY <2>1 DEF Adds
  <2> QED
    BY <1>2, <2>2 DEF Count, Goto, Ends, InsertAccount, At
<1>3. CASE At(w, "insert")
  <2>3. nextNumber <= MaxNumber => nextNumber \in Numbers
    BY AccountAssumption DEF TypeOK, Numbers, AccountAssumption
  <2> QED
    BY <1>3, <2>3 DEF InsertAccount, Count, At
<1> QED
  BY <1>2, <1>3 DEF Count, InsertAccount

\* Every step keeps the types.
LEMMA NextTypeOK == TypeOK /\ [Next]_vars => TypeOK'
<1> SUFFICES ASSUME TypeOK, [Next]_vars
             PROVE  TypeOK'
  OBVIOUS
<1> USE AccountAssumption DEF AccountAssumption
<1>w. AuthWorkers \subseteq Workers /\ Lobbies \subseteq Workers /\ Admins \subseteq Workers
  BY DEF Workers
<1>moved. ASSUME NEW w \in Workers, NEW r, tx' = [tx EXCEPT ![w] = r],
                 w \in AuthWorkers => r \in {Idle} \cup Adds,
                 w \in Lobbies => r \in {Idle} \cup Calls(LogInSteps \cup LogOutSteps),
                 w \in Admins => r \in {Idle} \cup Calls(DeleteSteps),
                 account' \in [Numbers -> Uids \cup {NoUid}],
                 isActive' \subseteq Numbers,
                 userData' \in [Numbers -> {"none", "live", "deleted"}],
                 deletedAccount' \subseteq Numbers,
                 nextNumber' \in 1 .. MaxNumber + 1,
                 session' \in [Lobbies -> [Numbers -> {"out", "in", "leaving"}]],
                 again' \subseteq Lobbies \X Numbers,
                 contested' \subseteq Numbers,
                 lost' \subseteq Numbers
          PROVE  TypeOK'
  BY <1>moved, TxType DEF TypeOK
<1>advanceLobby. ASSUME NEW l \in Lobbies, NEW from \in LogInSteps \cup LogOutSteps,
                        NEW to \in LogInSteps \cup LogOutSteps, Advance(l, from, to)
                 PROVE  TypeOK'
  <2>1. tx[l] # Idle
    BY <1>advanceLobby DEF Advance, At, Idle, LogInSteps, LogOutSteps
  <2>2. [step |-> to, number |-> tx[l].number] \in Calls(LogInSteps \cup LogOutSteps)
    BY <2>1, LobbyCall
  <2> QED
    BY <1>advanceLobby, <1>w, <2>2, <1>moved DEF Advance, TypeOK, tables
<1>advanceAdmin. ASSUME NEW w \in Admins, NEW from \in DeleteSteps,
                        NEW to \in DeleteSteps, Advance(w, from, to)
                 PROVE  TypeOK'
  <2>1. tx[w] # Idle
    BY <1>advanceAdmin DEF Advance, At, Idle, DeleteSteps
  <2>2. [step |-> to, number |-> tx[w].number] \in Calls(DeleteSteps)
    BY <2>1, AdminCall
  <2> QED
    BY <1>advanceAdmin, <1>w, <2>2, <1>moved DEF Advance, TypeOK, tables
<1>ends. ASSUME NEW w \in Workers, Ends(w), UNCHANGED <<session, again, lost>>
         PROVE  TypeOK'
  BY <1>ends, <1>moved DEF Ends, End, TypeOK, tables
<1>leaves. ASSUME NEW l \in Lobbies, tx[l] # Idle, Leaves(l)
           PROVE  /\ session' \in [Lobbies -> [Numbers -> {"out", "in", "leaving"}]]
                  /\ again' \subseteq Lobbies \X Numbers
  <2>1. tx[l].number \in Numbers
    BY <1>leaves, LobbyCall
  <2> QED
    BY <1>leaves, <2>1 DEF Leaves, TypeOK
<1>1. ASSUME NEW w \in AuthWorkers, CheckAndAddAccount(w)
      PROVE  TypeOK'
  <2>1. ASSUME NEW u \in Uids, TakeAdd(w, u)
        PROVE  TypeOK'
    <3>1. [step |-> "count", uid |-> u, number |-> 0] \in Adds
      BY DEF Adds
    <3> QED
      BY <2>1, <3>1, <1>w, <1>moved DEF TakeAdd, TypeOK, tables
  <2>2. ASSUME Count(w)
        PROVE  TypeOK'
    <3>1. CASE At(w, "count") /\ Ends(w) /\ UNCHANGED <<session, again, lost>>
      BY <3>1, <1>w, <1>ends
    <3>2. CASE /\ At(w, "count")
               /\ tx' = [tx EXCEPT ![w] = [step |-> "insert", uid |-> tx[w].uid, number |-> 0]]
               /\ UNCHANGED <<tables, session, again, contested, lost>>
      <4>1. [step |-> "insert", uid |-> tx[w].uid, number |-> 0] \in Adds
        BY <3>2, Kinds DEF Adds, At, Idle
      <4> QED
        BY <3>2, <4>1, <1>w, <1>moved DEF TypeOK, tables
    <3> QED
      BY <2>2, <3>1, <3>2, AddShapes
  <2>3. ASSUME InsertAccount(w)
        PROVE  TypeOK'
    <3>1. /\ At(w, "insert") /\ nextNumber \in Numbers /\ nextNumber' = nextNumber + 1
          /\ UNCHANGED <<account, isActive, userData, deletedAccount, session, again, contested,
                       lost>>
      BY <2>3, AddShapes
    <3>2. nextNumber' \in 1 .. MaxNumber + 1
      BY <3>1 DEF Numbers
    <3>3. [step |-> "addCommit", uid |-> tx[w].uid, number |-> nextNumber] \in Adds
      BY <3>1, Kinds DEF Adds, At, Idle
    <3>4. End(w) \/ tx' = [tx EXCEPT ![w] = [step |-> "addCommit", uid |-> tx[w].uid,
                                             number |-> nextNumber]]
      BY <2>3, AddShapes
    <3> QED
      BY <3>1, <3>2, <3>3, <3>4, <1>w, <1>moved DEF End, TypeOK
  <2>4. ASSUME CommitAccount(w)
        PROVE  TypeOK'
    <3>1. tx[w].number \in Numbers /\ tx[w].uid \in Uids
      BY <2>4, Kinds DEF CommitAccount, At, Idle
    <3>2. /\ account' \in [Numbers -> Uids \cup {NoUid}]
          /\ userData' \in [Numbers -> {"none", "live", "deleted"}]
      BY <2>4, <3>1 DEF CommitAccount, TypeOK
    <3> QED
      BY <2>4, <3>2, <1>w, <1>moved DEF CommitAccount, End, TypeOK
  <2> QED
    BY <1>1, <2>1, <2>2, <2>3, <2>4 DEF CheckAndAddAccount
<1>2. ASSUME NEW l \in Lobbies, UserLogIn(l)
      PROVE  TypeOK'
  <2>1. ASSUME NEW n \in Numbers, TakeLogIn(l, n)
        PROVE  TypeOK'
    <3>1. [step |-> "inExists", number |-> n] \in Calls(LogInSteps \cup LogOutSteps)
      BY DEF Calls, LogInSteps
    <3>2. contested' \subseteq Numbers
      BY <2>1 DEF TakeLogIn, TypeOK
    <3> QED
      BY <2>1, <3>1, <3>2, <1>w, <1>moved DEF TakeLogIn, TypeOK, tables
  <2>2. CASE InExists(l)
    BY <2>2, LogInShapes, <1>w, <1>ends, <1>advanceLobby DEF LogInSteps
  <2>3. CASE InActive(l)
    BY <2>3, LogInShapes, <1>w, <1>ends, <1>advanceLobby DEF LogInSteps
  <2>4. CASE InUpdate(l)
    BY <2>4, LogInShapes, <1>advanceLobby DEF LogInSteps
  <2>5. CASE InCommit(l)
    <3>1. tx[l].number \in Numbers
      BY <2>5, LobbyCall DEF InCommit, At, Idle
    <3>2. /\ isActive' \subseteq Numbers /\ lost' \subseteq Numbers
          /\ session' \in [Lobbies -> [Numbers -> {"out", "in", "leaving"}]]
      BY <2>5, <3>1 DEF InCommit, TypeOK
    <3> QED
      BY <2>5, <3>2, <1>w, <1>moved DEF InCommit, End, TypeOK
  <2> QED
    BY <1>2, <2>1, <2>2, <2>3, <2>4, <2>5 DEF UserLogIn
<1>3. ASSUME NEW l \in Lobbies, UserLogOut(l)
      PROVE  TypeOK'
  <2>l. ASSUME Ends(l), Leaves(l), UNCHANGED lost, tx[l] # Idle
        PROVE  TypeOK'
    BY <2>l, <1>leaves, <1>w, <1>moved DEF Ends, End, TypeOK, tables
  <2>1. ASSUME NEW n \in Numbers, TakeLogOut(l, n)
        PROVE  TypeOK'
    <3>1. [step |-> "outExists", number |-> n] \in Calls(LogInSteps \cup LogOutSteps)
      BY DEF Calls, LogOutSteps
    <3> QED
      BY <2>1, <3>1, <1>w, <1>moved DEF TakeLogOut, TypeOK, tables
  <2>2. CASE OutExists(l)
    BY <2>2, LogOutShapes, <2>l, <1>advanceLobby DEF LogOutSteps, At, Idle
  <2>3. CASE OutActive(l)
    BY <2>3, LogOutShapes, <2>l, <1>advanceLobby DEF LogOutSteps, At, Idle
  <2>4. CASE OutUpdate(l)
    BY <2>4, LogOutShapes, <1>advanceLobby DEF LogOutSteps
  <2>5. CASE OutCommit(l)
    <3>1. tx[l] # Idle
      BY <2>5 DEF OutCommit, At, Idle
    <3>2. /\ session' \in [Lobbies -> [Numbers -> {"out", "in", "leaving"}]]
          /\ again' \subseteq Lobbies \X Numbers
      BY <2>5, <3>1, <1>leaves DEF OutCommit
    <3> QED
      BY <2>5, <3>2, <1>w, <1>moved DEF OutCommit, End, TypeOK
  <2> QED
    BY <1>3, <2>1, <2>2, <2>3, <2>4, <2>5 DEF UserLogOut
<1>4. ASSUME NEW l \in Lobbies, NEW n \in Numbers, Disconnect(l, n)
      PROVE  TypeOK'
  <2>1. session' \in [Lobbies -> [Numbers -> {"out", "in", "leaving"}]]
    BY <1>4 DEF Disconnect, TypeOK
  <2>2. again' \subseteq Lobbies \X Numbers /\ contested' \subseteq Numbers /\ lost' \subseteq Numbers
    BY <1>4 DEF Disconnect, TypeOK
  <2> QED
    BY <1>4, <2>1, <2>2 DEF Disconnect, TypeOK, tables
<1>5. ASSUME NEW w \in Admins, DeleteAccount(w)
      PROVE  TypeOK'
  <2>1. ASSUME NEW n \in Numbers, TakeDelete(w, n)
        PROVE  TypeOK'
    <3>1. [step |-> "delExists", number |-> n] \in Calls(DeleteSteps)
      BY DEF Calls, DeleteSteps
    <3> QED
      BY <2>1, <3>1, <1>w, <1>moved DEF TakeDelete, TypeOK, tables
  <2>2. CASE DelExists(w)
    BY <2>2, DeleteShapes, <1>w, <1>ends, <1>advanceAdmin DEF DeleteSteps
  <2>3. CASE DelMove(w)
    BY <2>3, DeleteShapes, <1>advanceAdmin DEF DeleteSteps
  <2>4. CASE DelRow(w)
    BY <2>4, DeleteShapes, <1>advanceAdmin DEF DeleteSteps
  <2>5. CASE DelCommit(w)
    <3>1. tx[w].number \in Numbers
      BY <2>5, AdminCall DEF DelCommit, At, Idle
    <3>2. /\ account' \in [Numbers -> Uids \cup {NoUid}]
          /\ userData' \in [Numbers -> {"none", "live", "deleted"}]
          /\ isActive' \subseteq Numbers
          /\ deletedAccount' \subseteq Numbers
      BY <2>5, <3>1 DEF DelCommit, TypeOK
    <3> QED
      BY <2>5, <3>2, <1>w, <1>moved DEF DelCommit, End, TypeOK
  <2> QED
    BY <1>5, <2>1, <2>2, <2>3, <2>4, <2>5 DEF DeleteAccount
<1>6. ASSUME NEW w \in Workers, Fail(w)
      PROVE  TypeOK'
  <2>1. CASE w \in Lobbies /\ tx[w].step \in LogOutSteps
    <3>1. Leaves(w) /\ lost' = lost \cup ({tx[w].number} \cap isActive)
      BY <1>6, <2>1 DEF Fail
    <3>2. /\ session' \in [Lobbies -> [Numbers -> {"out", "in", "leaving"}]]
          /\ again' \subseteq Lobbies \X Numbers /\ lost' \subseteq Numbers
      BY <1>6, <2>1, <3>1, <1>leaves DEF Fail, TypeOK
    <3> QED
      BY <1>6, <3>2, <1>moved DEF Fail, End, TypeOK, tables
  <2>2. CASE ~(w \in Lobbies /\ tx[w].step \in LogOutSteps)
    BY <1>6, <2>2, <1>ends DEF Fail, Ends
  <2> QED
    BY <2>1, <2>2
<1>7. ASSUME NEW l \in Lobbies, Stop(l)
      PROVE  TypeOK'
  <2>1. session' \in [Lobbies -> [Numbers -> {"out", "in", "leaving"}]]
    BY <1>7 DEF Stop, TypeOK
  <2>2. again' \subseteq Lobbies \X Numbers /\ lost' \subseteq Numbers
    BY <1>7 DEF Stop, TypeOK
  <2> QED
    BY <1>7, <2>1, <2>2, <1>w, <1>moved DEF Stop, TypeOK, tables
<1>8. CASE UNCHANGED vars
  BY <1>8 DEF vars, TypeOK
<1> QED
  BY <1>1, <1>2, <1>3, <1>4, <1>5, <1>6, <1>7, <1>8 DEF Next

\* Every variable of the user database's procedures keeps its type: in particular
\* a number is inserted only when the sequence has given it out.
THEOREM TypeCorrect == Spec => []TypeOK
<1>1. Init => TypeOK
  BY InitTypeOK
<1>2. TypeOK /\ [Next]_vars => TypeOK'
  BY NextTypeOK
<1> QED
  BY <1>1, <1>2, PTL DEF Spec

-----------------------------------------------------------------------------
(* The inductive invariant *)

\* Nothing is in the tables and nobody is logged in at the start.
LEMMA InitIInv == Init => IInv
<1> SUFFICES ASSUME Init
             PROVE  IInv
  OBVIOUS
<1>1. TypeOK
  BY InitTypeOK
<1>2. /\ RowsAgree /\ OneAccountPerUid /\ ActiveHeld /\ HeldIsActive
  BY DEF Init, RowsAgree, OneAccountPerUid, ActiveHeld, HeldIsActive, Exists, Holds
<1>3. \A w \in Workers : tx[w] = Idle
  BY DEF Init
<1>4. AuthWorkers \subseteq Workers /\ Lobbies \subseteq Workers /\ Admins \subseteq Workers
  BY DEF Workers
<1>5. FreshNumbers /\ OwnRow /\ KnownNumbers
  BY <1>3, <1>4 DEF Init, FreshNumbers, OwnRow, KnownNumbers, At, Idle, Holds
<1>6. OverlapContested /\ TestedInactive /\ LeavingLogsOut /\ TwiceContested
  BY <1>3, <1>4 DEF Init, OverlapContested, TestedInactive, LeavingLogsOut, TwiceContested,
                    LogsIn, LogInSteps, LogOutSteps, Idle
<1> QED
  BY <1>1, <1>2, <1>5, <1>6 DEF IInv

\* The steps that change only what one worker has reached: a call that starts,
\* goes to its next statement, or ends without effect.
LEMMA QuietInv ==
  ASSUME IInv, TypeOK', NEW w \in Workers, NEW r, tx' = [tx EXCEPT ![w] = r],
         UNCHANGED <<tables, session, again, contested, lost>>,
         w \in AuthWorkers => r.step # "addCommit",
         w \in Lobbies /\ r # Idle =>
           /\ userData[r.number] # "none"
           /\ r.step \in LogInSteps => LogsIn(w, r.number)
           /\ r.step \in {"inUpdate", "inCommit"} =>
                r.number \in contested \/ r.number \notin isActive
           /\ r.step \in LogOutSteps =>
                session[w][r.number] = "leaving" \/ <<w, r.number>> \in again,
         w \in Admins /\ r.step \in {"delMove", "delRow", "delCommit"} =>
           userData[r.number] # "none"
  PROVE  IInv'
<1> USE DEF tables
<1>1. \A v \in Workers : tx'[v] = IF v = w THEN r ELSE tx[v]
  BY DEF IInv, TypeOK
<1>2. AuthWorkers \subseteq Workers /\ Lobbies \subseteq Workers /\ Admins \subseteq Workers
  BY DEF Workers
<1>3. RowsAgree' /\ OneAccountPerUid' /\ ActiveHeld' /\ HeldIsActive'
  BY DEF IInv, RowsAgree, OneAccountPerUid, ActiveHeld, HeldIsActive, Exists, Holds
<1>4. FreshNumbers'
  BY <1>1, <1>2 DEF IInv, FreshNumbers, At, Registered
<1>5. OwnRow'
  BY <1>1, <1>2 DEF IInv, OwnRow, At
<1>6. KnownNumbers'
  BY <1>1, <1>2 DEF IInv, KnownNumbers, Holds
<1>7. OverlapContested'
  <2>1. \A l \in Lobbies, n \in Numbers : LogsIn(l, n)' => LogsIn(l, n)
    BY <1>1, <1>2 DEF LogsIn, Idle, LogInSteps
  <2> QED
    BY <2>1 DEF IInv, OverlapContested
<1>8. TestedInactive' /\ LeavingLogsOut' /\ TwiceContested'
  BY <1>1, <1>2 DEF IInv, TestedInactive, LeavingLogsOut, TwiceContested, Idle, LogOutSteps
<1> QED
  BY <1>3, <1>4, <1>5, <1>6, <1>7, <1>8 DEF IInv

\* A lobby's call that goes to its next statement.
LEMMA AdvanceLobbyInv ==
  ASSUME IInv, TypeOK', NEW l \in Lobbies, NEW from, NEW to, Advance(l, from, to),
         \/ from \in LogInSteps /\ to \in LogInSteps
         \/ from \in LogOutSteps /\ to \in LogOutSteps,
         to \in {"inUpdate", "inCommit"} =>
           from = "inUpdate" \/ tx[l].number \notin isActive
  PROVE  IInv'
<1> DEFINE r == [step |-> to, number |-> tx[l].number]
<1>1. l \in Workers /\ l \notin AuthWorkers /\ l \notin Admins
  BY AccountAssumption DEF Workers, AccountAssumption
<1>2. tx[l] # Idle /\ tx[l].step = from
  BY DEF Advance, At, Idle, LogInSteps, LogOutSteps
<1>3. userData[r.number] # "none"
  BY <1>2 DEF IInv, KnownNumbers
<1>4. r.step \in LogInSteps => LogsIn(l, r.number)
  BY <1>2 DEF LogsIn, LogInSteps, LogOutSteps
<1>5. r.step \in {"inUpdate", "inCommit"} => r.number \in contested \/ r.number \notin isActive
  BY <1>2 DEF IInv, TestedInactive
<1>6. r.step \in LogOutSteps => session[l][r.number] = "leaving" \/ <<l, r.number>> \in again
  BY <1>2 DEF IInv, LeavingLogsOut, LogInSteps, LogOutSteps
<1>7. tx' = [tx EXCEPT ![l] = r] /\ UNCHANGED <<tables, session, again, contested, lost>>
  BY DEF Advance
<1> HIDE DEF r
<1> QED
  BY <1>1, <1>3, <1>4, <1>5, <1>6, <1>7, QuietInv

\* A call of DeleteAccount that goes to its next statement.
LEMMA AdvanceAdminInv ==
  ASSUME IInv, TypeOK', NEW w \in Admins, NEW from, NEW to, Advance(w, from, to),
         from \in {"delMove", "delRow"} \/ Exists(tx[w].number),
         tx[w].number \in Numbers
  PROVE  IInv'
<1> DEFINE r == [step |-> to, number |-> tx[w].number]
<1>1. w \in Workers /\ w \notin AuthWorkers /\ w \notin Lobbies
  BY AccountAssumption DEF Workers, AccountAssumption
<1>2. userData[r.number] # "none"
  BY DEF IInv, KnownNumbers, RowsAgree, Advance, At
<1>3. tx' = [tx EXCEPT ![w] = r] /\ UNCHANGED <<tables, session, again, contested, lost>>
  BY DEF Advance
<1> HIDE DEF r
<1> QED
  BY <1>1, <1>2, <1>3, QuietInv

\* A call that ends without effect.
LEMMA EndsInv ==
  ASSUME IInv, TypeOK', NEW w \in Workers, Ends(w), UNCHANGED <<session, again, lost>>
  PROVE  IInv'
<1>1. Idle.step = "idle"
  BY DEF Idle
<1>2. tx' = [tx EXCEPT ![w] = Idle] /\ UNCHANGED <<tables, session, again, contested, lost>>
  BY DEF Ends, End
<1> QED
  BY <1>1, <1>2, QuietInv

\* A log-out that ends, with or without effect: nobody else loses the account.
LEMMA LeavesInv ==
  ASSUME IInv, TypeOK', NEW l \in Lobbies, tx[l].step \in LogOutSteps, End(l), Leaves(l),
         UNCHANGED <<account, userData, deletedAccount, nextNumber, contested>>,
         \/ /\ UNCHANGED <<isActive, lost>>
            /\ tx[l].number \notin isActive
         \/ /\ isActive' = isActive \ {tx[l].number}
            /\ lost' = lost \ {tx[l].number}
         \/ /\ UNCHANGED isActive
            /\ lost' = lost \cup ({tx[l].number} \cap isActive)
  PROVE  IInv'
<1>1. \A v \in Workers : tx'[v] = IF v = l THEN Idle ELSE tx[v]
  BY DEF IInv, TypeOK, End
<1>2. AuthWorkers \subseteq Workers /\ Lobbies \subseteq Workers /\ Admins \subseteq Workers
  BY DEF Workers
<1>3. l \notin AuthWorkers /\ l \notin Admins
  BY AccountAssumption DEF AccountAssumption
<1>4. /\ tx[l].number \in Numbers
      /\ session[l][tx[l].number] = "leaving" \/ <<l, tx[l].number>> \in again
  BY LobbyCall DEF IInv, LeavingLogsOut, LogOutSteps, Idle
<1>5. \A k \in Lobbies, n \in Numbers :
        /\ k # l \/ n # tx[l].number => session'[k][n] = session[k][n]
        /\ Holds(k, n)' => Holds(k, n)
        /\ k # l /\ <<k, n>> \in again => <<k, n>> \in again'
  BY <1>4 DEF IInv, TypeOK, Leaves, Holds
<1>a. again' \subseteq again
  BY DEF Leaves
<1>b. session[l][tx[l].number] = "leaving" => session'[l][tx[l].number] = "out"
  BY <1>4 DEF IInv, TypeOK, Leaves
<1>6. RowsAgree'
  BY DEF IInv, RowsAgree, Exists
<1>7. OneAccountPerUid'
  BY DEF IInv, OneAccountPerUid, Exists
<1>8. ActiveHeld'
  <2> SUFFICES ASSUME NEW n \in isActive', n \notin lost'
               PROVE  \E k \in Lobbies : Holds(k, n)'
    BY DEF ActiveHeld
  <2>1. n \in Numbers /\ n \in isActive /\ n \notin lost /\ n # tx[l].number
    BY DEF IInv, TypeOK
  <2>2. PICK k \in Lobbies : Holds(k, n)
    BY <2>1 DEF IInv, ActiveHeld
  <2> QED
    BY <1>5, <2>1, <2>2 DEF Holds
<1>9. HeldIsActive'
  <2> SUFFICES ASSUME NEW n \in Numbers \ contested', NEW k \in Lobbies,
                      Exists(n)', Holds(k, n)'
               PROVE  n \in isActive' /\ \A j \in Lobbies \ {k} : ~Holds(j, n)'
    BY DEF HeldIsActive
  <2>1. n \notin contested /\ Exists(n) /\ Holds(k, n)
    BY <1>5 DEF Exists
  <2>2. n \in isActive /\ \A j \in Lobbies \ {k} : ~Holds(j, n)
    BY <2>1 DEF IInv, HeldIsActive
  <2>3. n # tx[l].number
    <3> SUFFICES ASSUME n = tx[l].number
                 PROVE  FALSE
      OBVIOUS
    <3>1. session[l][n] = "leaving"
      BY <1>4, <2>1 DEF IInv, TwiceContested
    <3> QED
      BY <1>b, <2>2, <3>1 DEF Holds
  <2> QED
    BY <1>5, <2>2, <2>3
<1>10. FreshNumbers'
  BY <1>1, <1>2, <1>3 DEF IInv, FreshNumbers, At, Registered
<1>11. OwnRow'
  BY <1>1, <1>2, <1>3 DEF IInv, OwnRow, At
<1>12. KnownNumbers'
  BY <1>1, <1>2, <1>3, <1>5 DEF IInv, KnownNumbers
<1>13. OverlapContested'
  <2>1. \A k \in Lobbies, n \in Numbers : LogsIn(k, n)' => LogsIn(k, n)
    BY <1>1, <1>2 DEF LogsIn, Idle, LogInSteps
  <2> QED
    BY <2>1 DEF IInv, OverlapContested
<1>14. TestedInactive'
  BY <1>1, <1>2 DEF IInv, TestedInactive, Idle
<1>15. LeavingLogsOut'
  <2>1. \A k \in Lobbies : k # l /\ tx[k].step \in LogOutSteps => tx[k].number \in Numbers
    BY LobbyCall DEF IInv, LogOutSteps, Idle
  <2> QED
    BY <1>1, <1>2, <1>5, <2>1 DEF IInv, LeavingLogsOut, Idle, LogOutSteps
<1>16. TwiceContested'
  BY <1>a DEF IInv, TwiceContested
<1> QED
  BY <1>6, <1>7, <1>8, <1>9, <1>10, <1>11, <1>12, <1>13, <1>14, <1>15, <1>16 DEF IInv

\* CheckAndAddAccount: the number it inserts is new, and so is the UID.
LEMMA AddInv ==
  ASSUME IInv, TypeOK', NEW w \in AuthWorkers, CheckAndAddAccount(w)
  PROVE  IInv'
<1> TypeOK
  BY DEF IInv
<1>0. w \in Workers /\ w \notin Lobbies /\ w \notin Admins
  BY AccountAssumption DEF Workers, AccountAssumption
<1>w. AuthWorkers \subseteq Workers /\ Lobbies \subseteq Workers /\ Admins \subseteq Workers
  BY DEF Workers
<1>1. ASSUME NEW u \in Uids, TakeAdd(w, u)
      PROVE  IInv'
  BY <1>1, <1>0, QuietInv DEF TakeAdd
<1>2. ASSUME Count(w)
      PROVE  IInv'
  <2>1. CASE At(w, "count") /\ Ends(w) /\ UNCHANGED <<session, again, lost>>
    BY <2>1, <1>0, EndsInv
  <2>2. CASE /\ tx' = [tx EXCEPT ![w] = [step |-> "insert", uid |-> tx[w].uid, number |-> 0]]
             /\ UNCHANGED <<tables, session, again, contested, lost>>
    BY <2>2, <1>0, QuietInv
  <2> QED
    BY <1>2, <2>1, <2>2, AddShapes
<1>3. ASSUME InsertAccount(w)
      PROVE  IInv'
  <2> DEFINE r == [step |-> "addCommit", uid |-> tx[w].uid, number |-> nextNumber]
  <2>1. /\ At(w, "insert") /\ UidFree(w)
        /\ nextNumber \in Numbers /\ nextNumber' = nextNumber + 1
        /\ \/ End(w)
           \/ /\ ~Registered(tx[w].uid)
              /\ tx' = [tx EXCEPT ![w] = r]
        /\ UNCHANGED <<account, isActive, userData, deletedAccount, session, again, contested,
                       lost>>
    BY <1>3, AddShapes
  <2>2. \A v \in Workers \ {w} : tx'[v] = tx[v]
    BY <2>1, <1>0 DEF End, TypeOK
  <2>3. tx'[w] = Idle \/ (tx'[w] = r /\ ~Registered(tx[w].uid))
    BY <2>1, <1>0 DEF End, TypeOK
  <2>4. RowsAgree' /\ OneAccountPerUid' /\ ActiveHeld' /\ HeldIsActive'
    BY <2>1 DEF IInv, RowsAgree, OneAccountPerUid, ActiveHeld, HeldIsActive, Exists, Holds
  <2>5. nextNumber \in Nat /\ nextNumber < nextNumber' /\ userData[nextNumber] = "none"
    BY <2>1 DEF IInv, FreshNumbers, TypeOK, Numbers
  <2>6. FreshNumbers'
    <3>1. \A n \in Numbers : n >= nextNumber' => userData'[n] = "none"
      BY <2>1, <2>5 DEF IInv, FreshNumbers, Numbers
    <3>2. ASSUME NEW v \in AuthWorkers, At(v, "addCommit")'
          PROVE  /\ tx'[v].number < nextNumber'
                 /\ userData'[tx'[v].number] = "none"
                 /\ ~Registered(tx[v].uid)'
      <4>1. CASE v = w
        BY <4>1, <3>2, <2>1, <2>3, <2>5 DEF At, Idle, Registered
      <4>2. CASE v # w
        <5>1. tx'[v] = tx[v] /\ At(v, "addCommit")
          BY <4>2, <3>2, <2>2, <1>w DEF At
        <5>2. tx[v].number \in Numbers
          BY <5>1, Kinds DEF At, Idle
        <5>3. tx[v].number < nextNumber /\ userData[tx[v].number] = "none" /\ ~Registered(tx[v].uid)
          BY <5>1 DEF IInv, FreshNumbers
        <5> QED
          BY <5>1, <5>2, <5>3, <2>1, <2>5 DEF Registered, Numbers
      <4> QED
        BY <4>1, <4>2
    <3> QED
      BY <3>1, <3>2 DEF FreshNumbers
  <2>7. OwnRow'
    <3> SUFFICES ASSUME NEW v \in AuthWorkers, At(v, "addCommit")', v # w,
                        At(w, "addCommit")'
                 PROVE  tx'[v].number # tx'[w].number /\ tx'[v].uid # tx'[w].uid
      BY <2>2, <1>w DEF IInv, OwnRow, At
    <3>1. tx'[v] = tx[v] /\ At(v, "addCommit") /\ v \in Workers
      BY <2>2, <1>w DEF At
    <3>2. tx'[w] = r
      BY <2>3 DEF At, Idle
    <3>3. tx[v].number \in Numbers /\ tx[v].number < nextNumber
      BY <3>1, Kinds DEF At, Idle, IInv, FreshNumbers
    <3>4. tx[v].uid # tx[w].uid
      BY <2>1, <3>1 DEF UidFree, LocksUid
    <3> QED
      BY <3>1, <3>2, <3>3, <3>4, <2>5 DEF Numbers
  <2>8. KnownNumbers'
    BY <2>1, <2>2, <1>0, <1>w DEF IInv, KnownNumbers, Holds
  <2>9. OverlapContested' /\ TestedInactive' /\ LeavingLogsOut' /\ TwiceContested'
    BY <2>1, <2>2, <1>0, <1>w DEF IInv, OverlapContested, TestedInactive, LeavingLogsOut,
                                  TwiceContested, LogsIn
  <2> QED
    BY <2>4, <2>6, <2>7, <2>8, <2>9 DEF IInv
<1>4. ASSUME CommitAccount(w)
      PROVE  IInv'
  <2> DEFINE m == tx[w].number
             u == tx[w].uid
  <2>1. m \in Numbers /\ u \in Uids /\ At(w, "addCommit")
    BY <1>4, Kinds DEF CommitAccount, At, Idle
  <2>2. userData[m] = "none" /\ ~Registered(u) /\ m < nextNumber
    BY <2>1 DEF IInv, FreshNumbers
  <2>3. ~Exists(m) /\ m \notin isActive /\ m \notin deletedAccount
    BY <2>1, <2>2 DEF IInv, RowsAgree
  <2>4. /\ \A n \in Numbers : account'[n] = IF n = m THEN u ELSE account[n]
        /\ \A n \in Numbers : userData'[n] = IF n = m THEN "live" ELSE userData[n]
    <3>1. /\ account \in [Numbers -> Uids \cup {NoUid}]
          /\ userData \in [Numbers -> {"none", "live", "deleted"}]
      BY DEF TypeOK
    <3>2. account' = [account EXCEPT ![m] = u] /\ userData' = [userData EXCEPT ![m] = "live"]
      BY <1>4 DEF CommitAccount
    <3> HIDE DEF m, u
    <3> QED
      BY <3>1, <3>2
  <2>5. UNCHANGED <<isActive, deletedAccount, nextNumber, session, again, contested, lost>>
    BY <1>4 DEF CommitAccount
  <2>6. \A v \in Workers : tx'[v] = IF v = w THEN Idle ELSE tx[v]
    BY <1>4 DEF CommitAccount, End, TypeOK
  <2>7. u # NoUid
    BY <2>1, AccountAssumption DEF AccountAssumption
  <2> HIDE DEF m, u
  <2>8. RowsAgree'
    BY <2>2, <2>3, <2>4, <2>5, <2>7 DEF IInv, RowsAgree, Exists
  <2>9. OneAccountPerUid'
    BY <2>2, <2>4 DEF IInv, OneAccountPerUid, Exists, Registered
  <2>10. ActiveHeld'
    BY <2>5 DEF IInv, ActiveHeld, Holds
  <2>11. \A l \in Lobbies : ~Holds(l, m)
    BY <2>1, <2>2 DEF IInv, KnownNumbers
  <2>12. HeldIsActive'
    BY <2>4, <2>5, <2>11 DEF IInv, HeldIsActive, Exists, Holds
  <2>13. FreshNumbers'
    <3>1. \A n \in Numbers : n >= nextNumber' => userData'[n] = "none"
      BY <2>1, <2>2, <2>4, <2>5 DEF IInv, FreshNumbers, TypeOK, Numbers, m
    <3>2. ASSUME NEW v \in AuthWorkers, At(v, "addCommit")'
          PROVE  /\ tx'[v].number < nextNumber'
                 /\ userData'[tx'[v].number] = "none"
                 /\ ~Registered(tx[v].uid)'
      <4>1. v # w /\ tx'[v] = tx[v] /\ At(v, "addCommit")
        BY <3>2, <2>6, <1>w DEF At, Idle
      <4>2. tx[v].number \in Numbers /\ tx[v].number < nextNumber
            /\ userData[tx[v].number] = "none" /\ ~Registered(tx[v].uid)
        BY <4>1, Kinds DEF IInv, FreshNumbers, At, Idle
      <4>3. tx[v].number # m /\ tx[v].uid # u
        BY <4>1, <2>1 DEF IInv, OwnRow, m, u
      <4> QED
        BY <4>1, <4>2, <4>3, <2>4, <2>5 DEF Registered
    <3> QED
      BY <3>1, <3>2 DEF FreshNumbers
  <2>14. OwnRow'
    BY <2>6, <1>w DEF IInv, OwnRow, At, Idle
  <2>15. KnownNumbers'
    <3>1. \A n \in Numbers : userData[n] # "none" => userData'[n] # "none"
      BY <2>4
    <3>2. /\ \A l \in Lobbies : tx[l] # Idle => tx[l].number \in Numbers
          /\ \A v \in Admins : tx[v].step \in {"delMove", "delRow", "delCommit"} =>
               tx[v].number \in Numbers
      BY Kinds DEF Idle
    <3> QED
      BY <3>1, <3>2, <2>5, <2>6, <1>0, <1>w DEF IInv, KnownNumbers, Holds
  <2>16. OverlapContested' /\ TestedInactive' /\ LeavingLogsOut'
    BY <2>5, <2>6, <1>0, <1>w DEF IInv, OverlapContested, TestedInactive, LeavingLogsOut, LogsIn
  <2>17. TwiceContested'
    BY <2>4, <2>5 DEF IInv, TwiceContested
  <2> QED
    BY <2>8, <2>9, <2>10, <2>12, <2>13, <2>14, <2>15, <2>16, <2>17 DEF IInv
<1> QED
  BY <1>1, <1>2, <1>3, <1>4 DEF CheckAndAddAccount

\* UserLogIn: a commit finds the account inactive, or contested.
LEMMA LogInInv ==
  ASSUME IInv, TypeOK', NEW l \in Lobbies, UserLogIn(l)
  PROVE  IInv'
<1> TypeOK
  BY DEF IInv
<1>0. l \in Workers /\ l \notin AuthWorkers /\ l \notin Admins
  BY AccountAssumption DEF Workers, AccountAssumption
<1>w. AuthWorkers \subseteq Workers /\ Lobbies \subseteq Workers /\ Admins \subseteq Workers
  BY DEF Workers
<1>1. ASSUME NEW n \in Numbers, TakeLogIn(l, n)
      PROVE  IInv'
  <2>1. /\ userData[n] # "none" /\ UNCHANGED <<tables, session, again, lost>>
        /\ contested \subseteq contested'
    BY <1>1 DEF TakeLogIn
  <2>2. \A v \in Workers : tx'[v] = IF v = l THEN [step |-> "inExists", number |-> n] ELSE tx[v]
    BY <1>1 DEF TakeLogIn, TypeOK
  <2>3. RowsAgree' /\ OneAccountPerUid' /\ ActiveHeld'
    BY <2>1 DEF IInv, RowsAgree, OneAccountPerUid, ActiveHeld, Exists, Holds, tables
  <2>4. HeldIsActive'
    BY <2>1 DEF IInv, HeldIsActive, Exists, Holds, tables
  <2>5. FreshNumbers'
    BY <2>1, <2>2, <1>0, <1>w DEF IInv, FreshNumbers, At, Registered, tables
  <2>6. OwnRow' /\ KnownNumbers'
    BY <2>1, <2>2, <1>0, <1>w DEF IInv, OwnRow, KnownNumbers, At, Holds, tables
  <2>7. OverlapContested'
    <3> SUFFICES ASSUME NEW j \in Lobbies, NEW k \in Lobbies, NEW i \in Numbers,
                        LogsIn(j, i)', LogsIn(k, i)', j # k
                 PROVE  i \in contested'
      BY DEF OverlapContested
    <3>1. CASE j # l /\ k # l
      BY <3>1, <2>1, <2>2, <1>w DEF IInv, OverlapContested, LogsIn
    <3>2. CASE j = l
      <4>1. i = n /\ LogsIn(k, n)
        BY <3>2, <2>2, <1>w DEF LogsIn
      <4> QED
        BY <4>1, <1>1 DEF TakeLogIn
    <3>3. CASE k = l
      <4>1. i = n /\ LogsIn(j, n)
        BY <3>3, <2>2, <1>w DEF LogsIn
      <4> QED
        BY <4>1, <1>1 DEF TakeLogIn
    <3> QED
      BY <3>1, <3>2, <3>3
  <2>8. TestedInactive' /\ LeavingLogsOut' /\ TwiceContested'
    BY <2>1, <2>2, <1>w DEF IInv, TestedInactive, LeavingLogsOut, TwiceContested, LogOutSteps,
                            tables
  <2> QED
    BY <2>3, <2>4, <2>5, <2>6, <2>7, <2>8 DEF IInv
<1>2. CASE InExists(l)
  BY <1>2, <1>0, LogInShapes, AdvanceLobbyInv, EndsInv DEF LogInSteps
<1>3. CASE InActive(l)
  BY <1>3, <1>0, LogInShapes, AdvanceLobbyInv, EndsInv DEF LogInSteps
<1>4. CASE InUpdate(l)
  BY <1>4, LogInShapes, AdvanceLobbyInv DEF LogInSteps
<1>5. CASE InCommit(l)
  <2> DEFINE n == tx[l].number
  <2>1. n \in Numbers /\ tx[l].step = "inCommit" /\ tx[l] # Idle
    BY <1>5, LobbyCall DEF InCommit, At, Idle
  <2>2. userData[n] # "none" /\ (n \in contested \/ n \notin isActive) /\ LogsIn(l, n)
    BY <2>1 DEF IInv, KnownNumbers, TestedInactive, LogsIn, LogInSteps
  <2>3. /\ isActive' = IF Exists(n) THEN isActive \cup {n} ELSE isActive
        /\ UNCHANGED <<account, userData, deletedAccount, nextNumber, again, contested>>
        /\ lost \subseteq lost'
    BY <1>5 DEF InCommit
  <2>4. /\ \A k \in Lobbies, i \in Numbers :
             k # l \/ i # n => session'[k][i] = session[k][i]
        /\ session'[l][n] # "out" \/ (n \in lost' /\ session'[l][n] = session[l][n])
    <3>1. session \in [Lobbies -> [Numbers -> {"out", "in", "leaving"}]]
      BY DEF TypeOK
    <3>2. \/ session' = [session EXCEPT ![l][n] = "in"]
          \/ n \in lost' /\ session' = session
      BY <1>5 DEF InCommit
    <3> HIDE DEF n
    <3> QED
      BY <2>1, <3>1, <3>2
  <2>5. \A v \in Workers : tx'[v] = IF v = l THEN Idle ELSE tx[v]
    BY <1>5 DEF InCommit, End, TypeOK
  <2>6. RowsAgree' /\ OneAccountPerUid'
    BY <2>1, <2>3 DEF IInv, RowsAgree, OneAccountPerUid, Exists
  <2>7. ActiveHeld'
    <3> SUFFICES ASSUME NEW i \in isActive', i \notin lost'
                 PROVE  \E k \in Lobbies : Holds(k, i)'
      BY DEF ActiveHeld
    <3>1. CASE i = n
      BY <3>1, <2>4 DEF Holds
    <3>2. CASE i # n
      <4>1. i \in isActive /\ i \notin lost /\ i \in Numbers
        BY <3>2, <2>3 DEF TypeOK
      <4>2. PICK k \in Lobbies : Holds(k, i)
        BY <4>1 DEF IInv, ActiveHeld
      <4> QED
        BY <3>2, <2>4, <4>1, <4>2 DEF Holds
    <3> QED
      BY <3>1, <3>2
  <2>8. HeldIsActive'
    <3> SUFFICES ASSUME NEW i \in Numbers \ contested, NEW k \in Lobbies, Exists(i), Holds(k, i)'
                 PROVE  i \in isActive' /\ \A j \in Lobbies \ {k} : ~Holds(j, i)'
      BY <2>3 DEF HeldIsActive, Exists
    <3>1. CASE i = n
      <4>1. \A j \in Lobbies : ~Holds(j, n)
        BY <3>1, <2>2 DEF IInv, HeldIsActive
      <4> QED
        BY <3>1, <4>1, <2>3, <2>4 DEF Holds
    <3>2. CASE i # n
      BY <3>2, <2>3, <2>4 DEF IInv, HeldIsActive, Holds
    <3> QED
      BY <3>1, <3>2
  <2>9. FreshNumbers'
    BY <2>3, <2>5, <1>0, <1>w DEF IInv, FreshNumbers, At, Registered
  <2>10. OwnRow'
    BY <2>5, <1>0, <1>w DEF IInv, OwnRow, At
  <2>11. KnownNumbers'
    <3>1. \A k \in Lobbies, i \in Numbers : Holds(k, i)' => userData'[i] # "none"
      BY <2>2, <2>3, <2>4 DEF IInv, KnownNumbers, Holds
    <3> QED
      BY <3>1, <2>3, <2>5, <1>0, <1>w DEF IInv, KnownNumbers
  <2>12. OverlapContested'
    <3>1. \A k \in Lobbies, i \in Numbers : LogsIn(k, i)' => LogsIn(k, i)
      BY <2>5, <1>w DEF LogsIn, Idle, LogInSteps
    <3> QED
      BY <3>1, <2>3 DEF IInv, OverlapContested
  <2>13. TestedInactive'
    <3> SUFFICES ASSUME NEW k \in Lobbies, k # l, tx[k].step \in {"inUpdate", "inCommit"}
                 PROVE  tx[k].number \in contested \/ tx[k].number \notin isActive'
      BY <2>3, <2>5, <1>w DEF TestedInactive, Idle
    <3>1. tx[k].number = n => n \in contested
      BY <2>1, <2>2 DEF IInv, OverlapContested, LogsIn, LogInSteps
    <3> QED
      BY <3>1, <2>3 DEF IInv, TestedInactive
  <2>14. LeavingLogsOut'
    <3> SUFFICES ASSUME NEW k \in Lobbies, k # l, tx[k].step \in LogOutSteps
                 PROVE  session'[k][tx[k].number] = "leaving" \/ <<k, tx[k].number>> \in again'
      BY <2>5, <1>w DEF LeavingLogsOut, Idle, LogOutSteps
    <3>1. tx[k].number \in Numbers
      BY LobbyCall DEF LogOutSteps, Idle
    <3> QED
      BY <3>1, <2>3, <2>4 DEF IInv, LeavingLogsOut
  <2>15. TwiceContested'
    BY <2>3 DEF IInv, TwiceContested
  <2> QED
    BY <2>6, <2>7, <2>8, <2>9, <2>10, <2>11, <2>12, <2>13, <2>14, <2>15 DEF IInv
<1> QED
  BY <1>1, <1>2, <1>3, <1>4, <1>5 DEF UserLogIn

\* UserLogOut.
LEMMA LogOutInv ==
  ASSUME IInv, TypeOK', NEW l \in Lobbies, UserLogOut(l)
  PROVE  IInv'
<1> TypeOK
  BY DEF IInv
<1>0. l \in Workers /\ l \notin AuthWorkers /\ l \notin Admins
  BY AccountAssumption DEF Workers, AccountAssumption
<1>1. ASSUME NEW n \in Numbers, TakeLogOut(l, n)
      PROVE  IInv'
  <2> DEFINE r == [step |-> "outExists", number |-> n]
  <2>1. userData[n] # "none"
    BY <1>1 DEF IInv, KnownNumbers, TwiceContested, Holds, TakeLogOut
  <2>2. r.step \notin LogInSteps /\ r.step \notin {"inUpdate", "inCommit"}
    BY DEF LogInSteps
  <2>3. /\ tx' = [tx EXCEPT ![l] = r] /\ UNCHANGED <<tables, session, again, contested, lost>>
        /\ session[l][r.number] = "leaving" \/ <<l, r.number>> \in again
    BY <1>1 DEF TakeLogOut
  <2>4. userData[r.number] # "none"
    BY <2>1
  <2> HIDE DEF r
  <2> QED
    BY <1>0, <2>2, <2>3, <2>4, QuietInv
<1>2. CASE OutExists(l)
  <2>1. CASE Advance(l, "outExists", "outActive")
    BY <2>1, AdvanceLobbyInv DEF LogOutSteps
  <2>2. CASE At(l, "outExists") /\ Ends(l) /\ Leaves(l) /\ UNCHANGED lost /\ ~Exists(tx[l].number)
    <3>1. tx[l].number \in Numbers /\ tx[l].step \in LogOutSteps
      BY <2>2, LobbyCall DEF At, Idle, LogOutSteps
    <3>2. tx[l].number \notin isActive
      BY <2>2, <3>1 DEF IInv, RowsAgree
    <3> QED
      BY <2>2, <3>1, <3>2, LeavesInv DEF Ends, tables
  <2> QED
    BY <1>2, <2>1, <2>2, LogOutShapes
<1>3. CASE OutActive(l)
  <2>1. CASE Advance(l, "outActive", "outUpdate")
    BY <2>1, AdvanceLobbyInv DEF LogOutSteps
  <2>2. CASE /\ At(l, "outActive") /\ Ends(l) /\ Leaves(l) /\ UNCHANGED lost
             /\ tx[l].number \notin isActive
    BY <2>2, LeavesInv DEF Ends, tables, At, LogOutSteps
  <2> QED
    BY <1>3, <2>1, <2>2, LogOutShapes
<1>4. CASE OutUpdate(l)
  BY <1>4, LogOutShapes, AdvanceLobbyInv DEF LogOutSteps
<1>5. CASE OutCommit(l)
  BY <1>5, LeavesInv DEF OutCommit, At, LogOutSteps
<1> QED
  BY <1>1, <1>2, <1>3, <1>4, <1>5 DEF UserLogOut

\* A user who leaves is still held, unless the log-out is lost.
LEMMA DisconnectInv ==
  ASSUME IInv, TypeOK', NEW l \in Lobbies, NEW n \in Numbers, Disconnect(l, n)
  PROVE  IInv'
<1>1. UNCHANGED <<tables, tx>> /\ contested \subseteq contested' /\ lost \subseteq lost'
  BY DEF Disconnect
<1>2. \A k \in Lobbies, i \in Numbers :
        /\ k # l \/ i # n => session'[k][i] = session[k][i]
        /\ Holds(k, i)' => Holds(k, i)
        /\ Holds(k, i) => Holds(k, i)' \/ i \in lost' \/ i \notin isActive
  BY DEF Disconnect, Holds, IInv, TypeOK
<1>3. \A k \in Lobbies, i \in Numbers :
        /\ <<k, i>> \in again => <<k, i>> \in again'
        /\ <<k, i>> \in again' => <<k, i>> \in again \/ (i = n /\ n \in contested')
  BY DEF Disconnect
<1>4. RowsAgree' /\ OneAccountPerUid'
  BY <1>1 DEF IInv, RowsAgree, OneAccountPerUid, Exists, tables
<1>5. ActiveHeld'
  BY <1>1, <1>2 DEF IInv, ActiveHeld, TypeOK, tables
<1>6. HeldIsActive'
  BY <1>1, <1>2 DEF IInv, HeldIsActive, Exists, tables
<1>7. FreshNumbers' /\ OwnRow'
  BY <1>1 DEF IInv, FreshNumbers, OwnRow, At, Registered, tables
<1>8. KnownNumbers'
  BY <1>1, <1>2 DEF IInv, KnownNumbers, tables
<1>9. OverlapContested' /\ TestedInactive'
  BY <1>1 DEF IInv, OverlapContested, TestedInactive, LogsIn, tables
<1>10. LeavingLogsOut'
  <2> SUFFICES ASSUME NEW k \in Lobbies, tx[k].step \in LogOutSteps
               PROVE  \/ session'[k][tx[k].number] = "leaving"
                      \/ <<k, tx[k].number>> \in again'
    BY <1>1 DEF LeavingLogsOut
  <2>1. tx[k].number \in Numbers
    BY LobbyCall DEF IInv, LogOutSteps, Idle
  <2>2. session[l][n] = "in"
    BY DEF Disconnect
  <2> QED
    BY <1>2, <1>3, <2>1, <2>2 DEF IInv, LeavingLogsOut
<1>11. TwiceContested'
  <2>1. userData[n] # "none"
    BY DEF Disconnect, IInv, KnownNumbers, Holds
  <2> QED
    BY <1>1, <1>3, <2>1 DEF IInv, TwiceContested, tables
<1> QED
  BY <1>4, <1>5, <1>6, <1>7, <1>8, <1>9, <1>10, <1>11 DEF IInv

\* What a lobby that stops held is lost.
LEMMA StopInv ==
  ASSUME IInv, TypeOK', NEW l \in Lobbies, Stop(l)
  PROVE  IInv'
<1>1. UNCHANGED <<tables, contested>> /\ lost' = lost \cup {n \in isActive : Holds(l, n)}
  BY DEF Stop
<1>2. \A k \in Lobbies, n \in Numbers :
        /\ k # l => session'[k][n] = session[k][n]
        /\ ~Holds(l, n)'
        /\ k # l => (<<k, n>> \in again <=> <<k, n>> \in again')
  BY DEF Stop, Holds, IInv, TypeOK
<1>3. \A v \in Workers : tx'[v] = IF v = l THEN Idle ELSE tx[v]
  BY DEF Stop, IInv, TypeOK
<1>w. AuthWorkers \subseteq Workers /\ Lobbies \subseteq Workers /\ Admins \subseteq Workers
  BY DEF Workers
<1>0. l \notin AuthWorkers /\ l \notin Admins
  BY AccountAssumption DEF AccountAssumption
<1>4. RowsAgree' /\ OneAccountPerUid'
  BY <1>1 DEF IInv, RowsAgree, OneAccountPerUid, Exists, tables
<1>5. ActiveHeld'
  <2> SUFFICES ASSUME NEW n \in isActive, n \notin lost'
               PROVE  \E k \in Lobbies : Holds(k, n)'
    BY <1>1 DEF ActiveHeld, tables
  <2>1. n \in Numbers
    BY DEF IInv, TypeOK
  <2>2. PICK k \in Lobbies : Holds(k, n)
    BY <1>1 DEF IInv, ActiveHeld
  <2> QED
    BY <1>1, <1>2, <2>1, <2>2 DEF Holds
<1>b. \A k \in Lobbies, n \in Numbers : Holds(k, n)' => Holds(k, n)
  BY <1>2 DEF Holds
<1>6. HeldIsActive'
  BY <1>1, <1>b DEF IInv, HeldIsActive, Exists, tables
<1>7. FreshNumbers' /\ OwnRow'
  BY <1>0, <1>1, <1>3, <1>w DEF IInv, FreshNumbers, OwnRow, At, Registered, tables
<1>8. KnownNumbers'
  BY <1>0, <1>1, <1>b, <1>3, <1>w DEF IInv, KnownNumbers, tables
<1>9. OverlapContested'
  <2>1. \A k \in Lobbies, n \in Numbers : LogsIn(k, n)' => LogsIn(k, n)
    BY <1>3, <1>w DEF LogsIn, Idle, LogInSteps
  <2> QED
    BY <1>1, <2>1 DEF IInv, OverlapContested
<1>10. TestedInactive'
  BY <1>1, <1>3, <1>w DEF IInv, TestedInactive, Idle, tables
<1>11. LeavingLogsOut'
  <2>1. \A k \in Lobbies : k # l /\ tx[k].step \in LogOutSteps => tx[k].number \in Numbers
    BY LobbyCall DEF IInv, LogOutSteps, Idle
  <2> QED
    BY <1>2, <1>3, <1>w, <2>1 DEF IInv, LeavingLogsOut, Idle, LogOutSteps
<1>12. TwiceContested'
  <2>1. again' \subseteq again
    BY DEF Stop
  <2> QED
    BY <1>1, <2>1 DEF IInv, TwiceContested, tables
<1> QED
  BY <1>4, <1>5, <1>6, <1>7, <1>8, <1>9, <1>10, <1>11, <1>12 DEF IInv

\* DeleteAccount: the row, its mark in UserData and its copy change together.
LEMMA DeleteInv ==
  ASSUME IInv, TypeOK', NEW w \in Admins, DeleteAccount(w)
  PROVE  IInv'
<1> TypeOK
  BY DEF IInv
<1>0. w \in Workers /\ w \notin Lobbies /\ w \notin AuthWorkers
  BY AccountAssumption DEF Workers, AccountAssumption
<1>w. AuthWorkers \subseteq Workers /\ Lobbies \subseteq Workers /\ Admins \subseteq Workers
  BY DEF Workers
<1>1. ASSUME NEW n \in Numbers, TakeDelete(w, n)
      PROVE  IInv'
  BY <1>1, <1>0, QuietInv DEF TakeDelete
<1>n. \A s : At(w, s) /\ s # "idle" => tx[w].number \in Numbers
  BY AdminCall DEF At, Idle
<1>2. CASE DelExists(w)
  BY <1>2, <1>0, <1>n, DeleteShapes, AdvanceAdminInv, EndsInv DEF Advance
<1>3. CASE DelMove(w)
  BY <1>3, <1>n, DeleteShapes, AdvanceAdminInv DEF Advance
<1>4. CASE DelRow(w)
  BY <1>4, <1>n, DeleteShapes, AdvanceAdminInv DEF Advance
<1>5. CASE DelCommit(w)
  <2> DEFINE m == tx[w].number
  <2>1. m \in Numbers /\ tx[w].step = "delCommit"
    BY <1>5, <1>n DEF DelCommit, At
  <2>2. userData[m] # "none"
    BY <2>1 DEF IInv, KnownNumbers
  <2>3. /\ \A n \in Numbers : account'[n] = IF n = m THEN NoUid ELSE account[n]
        /\ \A n \in Numbers : userData'[n] = IF n = m THEN "deleted" ELSE userData[n]
    <3>1. /\ account \in [Numbers -> Uids \cup {NoUid}]
          /\ userData \in [Numbers -> {"none", "live", "deleted"}]
      BY DEF TypeOK
    <3>2. account' = [account EXCEPT ![m] = NoUid] /\ userData' = [userData EXCEPT ![m] = "deleted"]
      BY <1>5 DEF DelCommit
    <3> HIDE DEF m
    <3> QED
      BY <3>1, <3>2
  <2>4. /\ isActive' = isActive \ {m} /\ deletedAccount' = deletedAccount \cup {m}
        /\ UNCHANGED <<nextNumber, session, again, contested, lost>>
    BY <1>5 DEF DelCommit
  <2>5. \A v \in Workers : tx'[v] = IF v = w THEN Idle ELSE tx[v]
    BY <1>5 DEF DelCommit, End, TypeOK
  <2> HIDE DEF m
  <2>6. RowsAgree'
    BY <2>1, <2>3, <2>4 DEF IInv, RowsAgree, Exists
  <2>7. OneAccountPerUid'
    BY <2>3 DEF IInv, OneAccountPerUid, Exists
  <2>8. ActiveHeld'
    BY <2>4 DEF IInv, ActiveHeld, Holds
  <2>9. HeldIsActive'
    BY <2>3, <2>4 DEF IInv, HeldIsActive, Exists, Holds
  <2>10. FreshNumbers'
    <3>1. \A n \in Numbers : n >= nextNumber' => userData'[n] = "none"
      BY <2>1, <2>2, <2>3, <2>4 DEF IInv, FreshNumbers
    <3>2. ASSUME NEW v \in AuthWorkers, At(v, "addCommit")'
          PROVE  /\ tx'[v].number < nextNumber'
                 /\ userData'[tx'[v].number] = "none"
                 /\ ~Registered(tx[v].uid)'
      <4>1. tx'[v] = tx[v] /\ At(v, "addCommit")
        BY <3>2, <2>5, <1>0, <1>w DEF At
      <4>2. tx[v].number \in Numbers /\ tx[v].uid \in Uids /\ tx[v].number < nextNumber
            /\ userData[tx[v].number] = "none" /\ ~Registered(tx[v].uid)
        BY <4>1, Kinds DEF IInv, FreshNumbers, At, Idle
      <4>3. tx[v].uid # NoUid
        BY <4>2, AccountAssumption DEF AccountAssumption
      <4> QED
        BY <4>1, <4>2, <4>3, <2>2, <2>3, <2>4 DEF Registered
    <3> QED
      BY <3>1, <3>2 DEF FreshNumbers
  <2>11. OwnRow'
    BY <2>5, <1>0, <1>w DEF IInv, OwnRow, At
  <2>12. KnownNumbers'
    <3>1. \A n \in Numbers : userData[n] # "none" => userData'[n] # "none"
      BY <2>3
    <3>2. /\ \A l \in Lobbies : tx[l] # Idle => tx[l].number \in Numbers
          /\ \A v \in Admins : tx[v].step \in {"delMove", "delRow", "delCommit"} =>
               tx[v].number \in Numbers
      BY Kinds DEF Idle
    <3> QED
      BY <3>1, <3>2, <2>4, <2>5, <1>0, <1>w DEF IInv, KnownNumbers, Holds, Idle
  <2>13. OverlapContested' /\ TestedInactive' /\ LeavingLogsOut'
    BY <2>4, <2>5, <1>0, <1>w DEF IInv, OverlapContested, TestedInactive, LeavingLogsOut, LogsIn
  <2>14. TwiceContested'
    BY <2>3, <2>4 DEF IInv, TwiceContested
  <2> QED
    BY <2>6, <2>7, <2>8, <2>9, <2>10, <2>11, <2>12, <2>13, <2>14 DEF IInv
<1> QED
  BY <1>1, <1>2, <1>3, <1>4, <1>5 DEF DeleteAccount

\* A call that fails has no effect but on what its lobby knows.
LEMMA FailInv ==
  ASSUME IInv, TypeOK', NEW w \in Workers, Fail(w)
  PROVE  IInv'
<1>1. CASE w \in Lobbies /\ tx[w].step \in LogOutSteps
  BY <1>1, LeavesInv DEF Fail, tables
<1>2. CASE ~(w \in Lobbies /\ tx[w].step \in LogOutSteps)
  BY <1>2, EndsInv DEF Fail, Ends
<1> QED
  BY <1>1, <1>2

\* Every step of every worker keeps the inductive invariant.
LEMMA NextIInv == IInv /\ [Next]_vars => IInv'
<1> SUFFICES ASSUME IInv, [Next]_vars
             PROVE  IInv'
  OBVIOUS
<1>1. TypeOK'
  BY NextTypeOK DEF IInv
<1>2. CASE UNCHANGED vars
  <2>1. RowsAgree' /\ OneAccountPerUid' /\ ActiveHeld' /\ HeldIsActive'
    BY <1>2 DEF vars, IInv, RowsAgree, OneAccountPerUid, ActiveHeld, HeldIsActive, Exists, Holds
  <2>2. FreshNumbers' /\ OwnRow' /\ KnownNumbers'
    BY <1>2 DEF vars, IInv, FreshNumbers, OwnRow, KnownNumbers, At, Registered, Holds
  <2>3. OverlapContested' /\ TestedInactive' /\ LeavingLogsOut' /\ TwiceContested'
    BY <1>2 DEF vars, IInv, OverlapContested, TestedInactive, LeavingLogsOut, TwiceContested,
                LogsIn
  <2> QED
    BY <1>1, <2>1, <2>2, <2>3 DEF IInv
<1> QED
  BY <1>1, <1>2, AddInv, LogInInv, LogOutInv, DisconnectInv, StopInv, DeleteInv,
     FailInv DEF Next

\* The inductive invariant holds.
LEMMA Inductive == Spec => []IInv
<1>1. Init => IInv
  BY InitIInv
<1>2. IInv /\ [Next]_vars => IInv'
  BY NextIInv
<1> QED
  BY <1>1, <1>2, PTL DEF Spec

-----------------------------------------------------------------------------
(* The theorems *)

\* No account stays active without a lobby that has still to log it out, unless
\* the log-in was not recorded, the log-out was dropped or failed, or the lobby
\* stopped: whatever lobbies and administrators do at the same time.
THEOREM ActiveHeldCorrect == Spec => []ActiveHeld
<1>1. IInv => ActiveHeld
  BY DEF IInv
<1> QED
  BY <1>1, Inductive, PTL

\* As long as no two log-ins of an account overlap and its log-out is queued
\* once, an account that is held is
\* active and is held by one lobby: UserLogIn then is the atomic step of Lobby.
THEOREM HeldIsActiveCorrect == Spec => []HeldIsActive
<1>1. IInv => HeldIsActive
  BY DEF IInv
<1> QED
  BY <1>1, Inductive, PTL

\* There is one account per UID, however many auth servers add accounts.
THEOREM OneAccountPerUidCorrect == Spec => []OneAccountPerUid
<1>1. IInv => OneAccountPerUid
  BY DEF IInv
<1> QED
  BY <1>1, Inductive, PTL

\* Account, UserData and DeletedAccount agree, whatever fails in between.
THEOREM RowsAgreeCorrect == Spec => []RowsAgree
<1>1. IInv => RowsAgree
  BY DEF IInv
<1> QED
  BY <1>1, Inductive, PTL
=============================================================================
