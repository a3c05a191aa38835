--------------------------- MODULE AccountDatabase ---------------------------
(***************************************************************************)
(* CheckAndAddAccount, DeleteAccount, UserLogIn and UserLogOut of          *)
(* db/UserDatabase.sql, one action per statement that another transaction  *)
(* can tell from the next.  Every auth server has one worker that adds     *)
(* accounts, every lobby one that logs users in and out, so transactions   *)
(* of several workers interleave; DeleteAccount is called by nothing in    *)
(* the repository, hence by an administrator.                              *)
(*                                                                         *)
(* SQL Server is present through its locks at READ COMMITTED: a written    *)
(* row, or key of an index, is locked until the transaction ends; a SELECT *)
(* waits for written rows and keeps no lock.  What a transaction has       *)
(* written follows from the step it has reached, and is applied when it    *)
(* commits: the tables below hold what is committed.                       *)
(***************************************************************************)
EXTENDS Integers, FiniteSets

CONSTANTS AuthWorkers,  \* the user database workers of the auth servers
          Lobbies,      \* the user database workers of the lobbies
          Admins,       \* who calls DeleteAccount
          Uids,         \* AccountUID: the names users sign in with
          NoUid,        \* no such row
          MaxNumber,    \* bound: numbers AccountNumberSeq gives out
          MaxTwice      \* bound: log-outs that are queued twice at any one time

Workers == AuthWorkers \cup Lobbies \cup Admins
Numbers == 1 .. MaxNumber

ASSUME AccountAssumption ==
  /\ AuthWorkers \cap Lobbies = {}
  /\ AuthWorkers \cap Admins = {}
  /\ Lobbies \cap Admins = {}
  /\ NoUid \notin Uids
  /\ MaxNumber \in Nat
  /\ MaxTwice \in Nat

VARIABLES
  account,        \* account[n]: AccountUID of row n of Account, if there is one
  isActive,       \* the rows of Account with IsActive = 1
  userData,       \* userData[n]: "none", or by IsDeletedAccount "live", "deleted"
  deletedAccount, \* the numbers in DeletedAccount
  nextNumber,     \* AccountNumberSeq; a rollback does not give a number back
  tx,             \* tx[w]: the statement worker w has reached, with its variables
  session,        \* session[l][n]: what lobby l knows of its user n
  again,          \* log-outs, <<lobby, number>>, that were queued a second time
  contested,      \* ghost: accounts whose log-ins at two lobbies have overlapped,
                  \* or whose log-out was queued twice
  lost            \* ghost: active accounts whose log-in was not recorded, whose
                  \* log-out was dropped or failed, or whose lobby stopped

tables == <<account, isActive, userData, deletedAccount, nextNumber>>
vars == <<account, isActive, userData, deletedAccount, nextNumber, tx, session,
          again, contested, lost>>

LogInSteps  == {"inExists", "inActive", "inUpdate", "inCommit"}
LogOutSteps == {"outExists", "outActive", "outUpdate", "outCommit"}
DeleteSteps == {"delExists", "delMove", "delRow", "delCommit"}

Idle == [step |-> "idle"]

\* number is @AccountNumber, 0 while it is NULL.
Adds == [step : {"count", "insert"}, uid : Uids, number : {0}]
          \cup [step : {"addCommit"}, uid : Uids, number : Numbers]
Calls(steps) == [step : steps, number : Numbers]

TypeOK ==
  /\ account \in [Numbers -> Uids \cup {NoUid}]
  /\ isActive \subseteq Numbers
  /\ userData \in [Numbers -> {"none", "live", "deleted"}]
  /\ deletedAccount \subseteq Numbers
  /\ nextNumber \in 1 .. MaxNumber + 1
  /\ tx \in [Workers -> {Idle} \cup Adds
                         \cup Calls(LogInSteps \cup LogOutSteps \cup DeleteSteps)]
  /\ \A w \in AuthWorkers : tx[w] \in {Idle} \cup Adds
  /\ \A w \in Lobbies : tx[w] \in {Idle} \cup Calls(LogInSteps \cup LogOutSteps)
  /\ \A w \in Admins : tx[w] \in {Idle} \cup Calls(DeleteSteps)
  /\ session \in [Lobbies -> [Numbers -> {"out", "in", "leaving"}]]
  /\ again \subseteq Lobbies \X Numbers
  /\ contested \subseteq Numbers
  /\ lost \subseteq Numbers

Init ==
  /\ account = [n \in Numbers |-> NoUid]
  /\ isActive = {}
  /\ userData = [n \in Numbers |-> "none"]
  /\ deletedAccount = {}
  /\ nextNumber = 1
  /\ tx = [w \in Workers |-> Idle]
  /\ session = [l \in Lobbies |-> [n \in Numbers |-> "out"]]
  /\ again = {}
  /\ contested = {}
  /\ lost = {}

At(w, step) == tx[w].step = step
Goto(w, step) == tx' = [tx EXCEPT ![w].step = step]
End(w) == tx' = [tx EXCEPT ![w] = Idle]

Exists(n) == account[n] # NoUid

\* Lobby l has logged n in and has still to log it out.
Holds(l, n) == session[l][n] # "out"

-----------------------------------------------------------------------------
(* Locks *)

\* v has updated or deleted row n of Account.
LocksRow(v, n) == /\ At(v, "inCommit") \/ At(v, "outCommit") \/ At(v, "delCommit")
                  /\ tx[v].number = n
                  /\ Exists(n)

\* v has inserted or deleted the key u of the unique index of Account.
LocksUid(v, u) == \/ At(v, "addCommit") /\ tx[v].uid = u
                  \/ At(v, "delCommit") /\ account[tx[v].number] = u

RowFree(w) == \A v \in Workers \ {w} : ~LocksRow(v, tx[w].number)
UidFree(w) == \A v \in Workers \ {w} : ~LocksUid(v, tx[w].uid)

-----------------------------------------------------------------------------
(* CheckAndAddAccount *)

TakeAdd(w, u) ==
  /\ tx[w] = Idle
  /\ tx' = [tx EXCEPT ![w] = [step |-> "count", uid |-> u, number |-> 0]]
  /\ UNCHANGED <<tables, session, again, contested, lost>>

Registered(u) == \E n \in Numbers : account[n] = u

\* COUNT(*): an account that exists is looked up once more and answered.
Count(w) ==
  /\ At(w, "count") /\ UidFree(w)
  /\ IF Registered(tx[w].uid) THEN End(w) ELSE Goto(w, "insert")
  /\ UNCHANGED <<tables, session, again, contested, lost>>

\* A slip of InsertAccount: AccountUID is not UNIQUE.
InsertAccountAnyUid(w) ==
  /\ At(w, "insert")
  /\ nextNumber <= MaxNumber
  /\ nextNumber' = nextNumber + 1
  /\ tx' = [tx EXCEPT ![w] = [step |-> "addCommit", uid |-> @.uid, number |-> nextNumber]]
  /\ UNCHANGED <<account, isActive, userData, deletedAccount, session, again, contested,
                 lost>>

\* A slip of InsertAccount: the number is not OUTPUT.
InsertAccountNoOutput(w) ==
  /\ At(w, "insert") /\ UidFree(w)
  /\ nextNumber <= MaxNumber
  /\ nextNumber' = nextNumber + 1
  /\ IF Registered(tx[w].uid) THEN End(w) ELSE Goto(w, "addCommit")
  /\ UNCHANGED <<account, isActive, userData, deletedAccount, session, again, contested,
                 lost>>

\* AccountUID is UNIQUE: the INSERT waits for one of the same key and fails if
\* that one was committed.
InsertAccount(w) ==
  /\ At(w, "insert") /\ UidFree(w)
  /\ nextNumber <= MaxNumber
  /\ nextNumber' = nextNumber + 1
  /\ IF Registered(tx[w].uid)
       THEN End(w)
       ELSE tx' = [tx EXCEPT ![w] = [step |-> "addCommit", uid |-> @.uid,
                                     number |-> nextNumber]]
  /\ UNCHANGED <<account, isActive, userData, deletedAccount, session, again, contested,
                 lost>>

\* INSERT INTO UserData and COMMIT: the number is answered to the client.
CommitAccount(w) ==
  /\ At(w, "addCommit")
  /\ account' = [account EXCEPT ![tx[w].number] = tx[w].uid]
  /\ userData' = [userData EXCEPT ![tx[w].number] = "live"]
  /\ End(w)
  /\ UNCHANGED <<isActive, deletedAccount, nextNumber, session, again, contested, lost>>

-----------------------------------------------------------------------------
(* UserLogIn *)

LogsIn(l, n) == tx[l].step \in LogInSteps /\ tx[l].number = n

\* A client has the number that CheckAndAddAccount answered, in its token.  One
\* that lobby l has logged in comes back when its log-out is through: the worker
\* takes its tasks in order.
TakeLogIn(l, n) ==
  /\ tx[l] = Idle
  /\ userData[n] # "none"
  /\ session[l][n] = "out"
  /\ tx' = [tx EXCEPT ![l] = [step |-> "inExists", number |-> n]]
  /\ contested' = IF \E k \in Lobbies : LogsIn(k, n) THEN contested \cup {n} ELSE contested
  /\ UNCHANGED <<tables, session, again, lost>>

\* No such account: ResultCode 3.
InExists(l) ==
  /\ At(l, "inExists") /\ RowFree(l)
  /\ IF Exists(tx[l].number) THEN Goto(l, "inActive") ELSE End(l)
  /\ UNCHANGED <<tables, session, again, contested, lost>>

\* A slip of InActive: IsActive is not tested.
InActiveUnchecked(l) ==
  /\ At(l, "inActive") /\ RowFree(l)
  /\ Goto(l, "inUpdate")
  /\ UNCHANGED <<tables, session, again, contested, lost>>

\* Logged in already: ResultCode 2.
InActive(l) ==
  /\ At(l, "inActive") /\ RowFree(l)
  /\ IF tx[l].number \in isActive THEN End(l) ELSE Goto(l, "inUpdate")
  /\ UNCHANGED <<tables, session, again, contested, lost>>

\* UPDATE Account: no row when the account was deleted meanwhile.
InUpdate(l) ==
  /\ At(l, "inUpdate") /\ RowFree(l)
  /\ Goto(l, "inCommit")
  /\ UNCHANGED <<tables, session, again, contested, lost>>

\* INSERT INTO HistorySignInOut and COMMIT: ResultCode 1, and the lobby records
\* the user: insert() does not when the socket's entry is still an older one's.
InCommit(l) ==
  /\ At(l, "inCommit")
  /\ LET n == tx[l].number
     IN  /\ isActive' = IF Exists(n) THEN isActive \cup {n} ELSE isActive
         /\ \/ session' = [session EXCEPT ![l][n] = "in"] /\ UNCHANGED lost
            \/ lost' = lost \cup {n} /\ UNCHANGED session
  /\ End(l)
  /\ UNCHANGED <<account, userData, deletedAccount, nextNumber, again, contested>>

-----------------------------------------------------------------------------
(* UserLogOut *)

\* ProcessDisconnect forgets the user and queues the log-out.  The two disconnects
\* of a connection may each queue one; a full queue, or pushes that overlap, may
\* leave none.
Disconnect(l, n) ==
  /\ session[l][n] = "in"
  /\ \/ /\ session' = [session EXCEPT ![l][n] = "leaving"]
        /\ UNCHANGED <<again, contested, lost>>
     \/ /\ Cardinality(again) < MaxTwice
        /\ session' = [session EXCEPT ![l][n] = "leaving"]
        /\ again' = again \cup {<<l, n>>}
        /\ contested' = contested \cup {n}
        /\ UNCHANGED lost
     \/ /\ session' = [session EXCEPT ![l][n] = "out"]
        /\ lost' = lost \cup ({n} \cap isActive)
        /\ UNCHANGED <<again, contested>>
  /\ UNCHANGED <<tables, tx>>

TakeLogOut(l, n) ==
  /\ tx[l] = Idle
  /\ session[l][n] = "leaving" \/ <<l, n>> \in again
  /\ tx' = [tx EXCEPT ![l] = [step |-> "outExists", number |-> n]]
  /\ UNCHANGED <<tables, session, again, contested, lost>>

\* One of the queued log-outs is through.
Leaves(l) ==
  LET n == tx[l].number
  IN  \/ /\ session[l][n] = "leaving"
         /\ session' = [session EXCEPT ![l][n] = "out"]
         /\ UNCHANGED again
      \/ /\ session[l][n] # "leaving"
         /\ again' = again \ {<<l, n>>}
         /\ UNCHANGED session

\* No such account: ResultCode 3.
OutExists(l) ==
  /\ At(l, "outExists") /\ RowFree(l)
  /\ IF Exists(tx[l].number) THEN Goto(l, "outActive") /\ UNCHANGED <<session, again>>
                             ELSE End(l) /\ Leaves(l)
  /\ UNCHANGED <<tables, contested, lost>>

\* A slip of OutActive: IsActive = 1 instead of 0.
OutActiveSwapped(l) ==
  /\ At(l, "outActive") /\ RowFree(l)
  /\ IF tx[l].number \notin isActive THEN Goto(l, "outUpdate") /\ UNCHANGED <<session, again>>
                                     ELSE End(l) /\ Leaves(l)
  /\ UNCHANGED <<tables, contested, lost>>

\* Logged out already: ResultCode 2.
OutActive(l) ==
  /\ At(l, "outActive") /\ RowFree(l)
  /\ IF tx[l].number \in isActive THEN Goto(l, "outUpdate") /\ UNCHANGED <<session, again>>
                                  ELSE End(l) /\ Leaves(l)
  /\ UNCHANGED <<tables, contested, lost>>

OutUpdate(l) ==
  /\ At(l, "outUpdate") /\ RowFree(l)
  /\ Goto(l, "outCommit")
  /\ UNCHANGED <<tables, session, again, contested, lost>>

OutCommit(l) ==
  /\ At(l, "outCommit")
  /\ isActive' = isActive \ {tx[l].number}
  /\ lost' = lost \ {tx[l].number}
  /\ End(l)
  /\ Leaves(l)
  /\ UNCHANGED <<account, userData, deletedAccount, nextNumber, contested>>

-----------------------------------------------------------------------------
(* DeleteAccount *)

TakeDelete(w, n) ==
  /\ tx[w] = Idle
  /\ tx' = [tx EXCEPT ![w] = [step |-> "delExists", number |-> n]]
  /\ UNCHANGED <<tables, session, again, contested, lost>>

\* No such account: ROLLBACK and an error.
DelExists(w) ==
  /\ At(w, "delExists") /\ RowFree(w)
  /\ IF Exists(tx[w].number) THEN Goto(w, "delMove") ELSE End(w)
  /\ UNCHANGED <<tables, session, again, contested, lost>>

\* INSERT INTO DeletedAccount of what SELECT finds in Account: it waits for
\* another DeleteAccount that has inserted the same key.
DelMove(w) ==
  /\ At(w, "delMove") /\ RowFree(w)
  /\ \A v \in Admins \ {w} : At(v, "delRow") => tx[v].number # tx[w].number
  /\ Goto(w, "delRow")
  /\ UNCHANGED <<tables, session, again, contested, lost>>

\* DELETE FROM Account.
DelRow(w) ==
  /\ At(w, "delRow") /\ RowFree(w)
  /\ Goto(w, "delCommit")
  /\ UNCHANGED <<tables, session, again, contested, lost>>

\* UPDATE UserData and COMMIT.
DelCommit(w) ==
  /\ At(w, "delCommit")
  /\ account' = [account EXCEPT ![tx[w].number] = NoUid]
  /\ isActive' = isActive \ {tx[w].number}
  /\ deletedAccount' = deletedAccount \cup {tx[w].number}
  /\ userData' = [userData EXCEPT ![tx[w].number] = "deleted"]
  /\ End(w)
  /\ UNCHANGED <<nextNumber, session, again, contested, lost>>

-----------------------------------------------------------------------------
\* A slip of Fail: the CATCH block commits what DeleteAccount has done.
FailKeeps(w) ==
  /\ tx[w] # Idle
  /\ End(w)
  /\ IF w \in Lobbies /\ tx[w].step \in LogOutSteps
       THEN Leaves(w) /\ lost' = lost \cup ({tx[w].number} \cap isActive)
       ELSE UNCHANGED <<session, again, lost>>
  /\ IF At(w, "delCommit")
       THEN /\ account' = [account EXCEPT ![tx[w].number] = NoUid]
            /\ isActive' = isActive \ {tx[w].number}
       ELSE UNCHANGED <<account, isActive>>
  /\ UNCHANGED <<userData, deletedAccount, nextNumber, contested>>

\* Any statement may fail: the CATCH block rolls the transaction back and raises
\* the error, and the worker calls nobody back.  A lobby forgot the user when it
\* queued the log-out.
Fail(w) ==
  /\ tx[w] # Idle
  /\ End(w)
  /\ IF w \in Lobbies /\ tx[w].step \in LogOutSteps
       THEN Leaves(w) /\ lost' = lost \cup ({tx[w].number} \cap isActive)
       ELSE UNCHANGED <<session, again, lost>>
  /\ UNCHANGED <<tables, contested>>

\* A lobby stops or crashes: its transaction is rolled back, and the log-outs in
\* its queue and what it knew of its users are gone.
Stop(l) ==
  /\ tx' = [tx EXCEPT ![l] = Idle]
  /\ session' = [session EXCEPT ![l] = [n \in Numbers |-> "out"]]
  /\ again' = {q \in again : q[1] # l}
  /\ lost' = lost \cup {n \in isActive : Holds(l, n)}
  /\ UNCHANGED <<tables, contested>>

CheckAndAddAccount(w) == \/ \E u \in Uids : TakeAdd(w, u)
                         \/ Count(w)
                         \/ InsertAccount(w)
                         \/ CommitAccount(w)

UserLogIn(l) == \/ \E n \in Numbers : TakeLogIn(l, n)
                \/ InExists(l)
                \/ InActive(l)
                \/ InUpdate(l)
                \/ InCommit(l)

UserLogOut(l) == \/ \E n \in Numbers : TakeLogOut(l, n)
                 \/ OutExists(l)
                 \/ OutActive(l)
                 \/ OutUpdate(l)
                 \/ OutCommit(l)

DeleteAccount(w) == \/ \E n \in Numbers : TakeDelete(w, n)
                    \/ DelExists(w)
                    \/ DelMove(w)
                    \/ DelRow(w)
                    \/ DelCommit(w)

Next == \/ \E w \in AuthWorkers : CheckAndAddAccount(w)
        \/ \E l \in Lobbies : UserLogIn(l) \/ UserLogOut(l)
        \/ \E l \in Lobbies, n \in Numbers : Disconnect(l, n)
        \/ \E l \in Lobbies : Stop(l)
        \/ \E w \in Admins : DeleteAccount(w)
        \/ \E w \in Workers : Fail(w)

Spec == Init /\ [][Next]_vars

-----------------------------------------------------------------------------
(* Properties *)

\* An account never stays active without a user: some lobby has logged it in and
\* has still to log it out, unless the lobby did not record the log-in, its log-out
\* was dropped or failed, or the lobby stopped (UserLogIn and UserLogOut of any
\* lobbies, interleaved with each other and with DeleteAccount).
ActiveHeld == \A n \in isActive : n \in lost \/ \E l \in Lobbies : Holds(l, n)

\* UserLogIn tests IsActive and sets it later, but only two log-ins of an account
\* that overlap can both succeed, and only a log-out that was queued twice can hit
\* a later log-in: without them it is active while a lobby holds it, and no other
\* lobby holds it, which is what each lobby takes for granted.  (An account deleted
\* between the tests can be held by several, and is nobody's.)
HeldIsActive ==
  \A n \in Numbers \ contested, l \in Lobbies :
    Exists(n) /\ Holds(l, n) => /\ n \in isActive
                                /\ \A k \in Lobbies \ {l} : ~Holds(k, n)

\* CheckAndAddAccount counts before it inserts: what two auth servers add at the
\* same time, or add again while DeleteAccount runs, is still one account per UID.
OneAccountPerUid == \A m, n \in Numbers : Exists(m) /\ account[m] = account[n] => m = n

\* Account, UserData and DeletedAccount agree on every account number, whatever
\* fails between the statements and whatever deletes the account.
RowsAgree == \A n \in Numbers : /\ Exists(n) <=> userData[n] = "live"
                                /\ n \in deletedAccount <=> userData[n] = "deleted"
                                /\ n \in isActive => Exists(n)
=============================================================================
