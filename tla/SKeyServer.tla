----------------------------- MODULE SKeyServer -----------------------------
(***************************************************************************)
(* The server of the S/Key demo: one thread per connection (Response), its *)
(* handlers, and the three tables they share.                              *)
(*                                                                         *)
(* A step of this module is one SQL statement, or one reception of a       *)
(* message together with the local computation that follows it.  The       *)
(* handlers wait for the mutex "useDatabase" around their statements, but  *)
(* open it with no access (NULL), so that every wait fails at once and     *)
(* nobody looks at the result: no handler ever waits for another one.      *)
(***************************************************************************)
EXTENDS SKeyData

CONSTANTS
    Sessions,        \* connections, each served by a thread running Response
    Admins,          \* rows of `administrator`
    AdminType,       \* AD_type: 1 security administrator, 2 log administrator
    AdminPassword,   \* the administrators' password
    AdminChallenge,  \* AD_challenge_value in the dump
    Start,           \* the tick the server is first started in
    MaxTime,         \* bound: the last tick
    MaxHistory,      \* bound: rows of `password` per account before writes stop
    Used,            \* bound: the operations the clients of an instance use
    MayDrop,         \* whether a client may vanish without C_LOGOUT
    MayCrash         \* whether the server process may be killed

Operations == {"none", "C_REGISTER", "C_LOGIN", "C_RESET_PASSWORD", "C_UNFREEZE",
               "C_ADMIN_LOGIN", "C_UPDATE_PASSWORD", "C_GET_REQUEST",
               "C_REQUEST_PASS", "C_REQUEST_REJECT"}

ServerAssumption ==
    /\ Admins \cap Users = {} /\ NoUser \notin Admins
    /\ AdminType \in [Admins -> {1, 2}]
    /\ AdminPassword \in AllPasswords
    /\ AdminChallenge \in Nat /\ AdminChallenge >= 1
    /\ Start \in Nat /\ Start > LockTime /\ Date(Start) >= PasswordChangePeriod
    /\ MaxTime \in Nat /\ MaxHistory \in Nat
    /\ Used \subseteq Operations \ {"none"}
    /\ MayDrop \in BOOLEAN /\ MayCrash \in BOOLEAN

ASSUME ServerAssumption

VARIABLES
    now,            \* the clock of the database and of time(0)
    account,        \* table `account`
    password,       \* table `password`: the past credentials of each account
    administrator,  \* table `administrator`
    pc,             \* where the thread of each session is
    conn,           \* whether the client of the session is still there
    buff,           \* the message in the buffer of Response
    userId,         \* userId and userType of Response
    userType,
    local,          \* the locals of the handler that is running
    todo,           \* the ids of the batch not yet processed
    table,          \* the ids the security administrator's window shows
    reply           \* the signal the last step of the session sent, or "none"

sessionVars == <<pc, conn, buff, userId, userType, local, todo, table, reply>>
tables == <<account, password, administrator>>
vars == <<now, tables, sessionVars>>

-----------------------------------------------------------------------------
(* Messages of the client, and the locals of a handler.                    *)
NoMsg == [op |-> "none", id |-> NoUser, type |-> 0, ids |-> {}]

Msg(op, id) == [op |-> op, id |-> id, type |-> 0, ids |-> {}]

Batch(op, type, ids) == [op |-> op, id |-> NoUser, type |-> type, ids |-> ids]

Ids == Users \cup Admins \cup {NoUser}

Message == [op : Operations, id : Ids, type : 0..2, ids : SUBSET Users]

Signals == {"none", "S_ACCESS", "S_FAILED", "S_UPDATE_PASSWORD", "S_FROZEN",
            "S_NEXTSTEP", "S_NEW_RANDOM", "S_USER_EXIST", "S_BLOCK", "S_REPEAT"}

Local == [cred : Credential, first : BOOLEAN, due : BOOLEAN, at : Nat,
          past : SUBSET Credential, newRnd : Randoms, newIter : Value, cur : Ids]

NoValue == PasswdToMD5(DefaultPassword, 0, 0)

NoLocal == [cred |-> [iter |-> NoValue, chal |-> 0, rnd |-> 0],
            first |-> FALSE, due |-> FALSE, at |-> 0, past |-> {},
            newRnd |-> 0, newIter |-> NoValue, cur |-> NoUser]

\* Where the thread waits for the second message of a handler.
Waiting == {"loginWait", "adminWait", "registerWait", "updateWait"}

\* Where it is between two statements of a handler.
Working == {"loginWrite", "adminWrite", "resetSet", "unfreezeSet",
            "updatePast", "updateInsert", "updateTime", "updateChain",
            "process", "passReset"}

Control == {"closed", "idle"} \cup Waiting \cup Working

Init ==
    /\ now = Start
    /\ account = [u \in Users |-> NoRow]
    /\ password = [u \in Users |-> << >>]
    /\ administrator = [a \in Admins |->
           [iter |-> PasswdToMD5(AdminPassword, SeedRandom, AdminChallenge + 1),
            chal |-> AdminChallenge, rnd |-> SeedRandom]]
    /\ pc = [s \in Sessions |-> "closed"]
    /\ conn = [s \in Sessions |-> FALSE]
    /\ buff = [s \in Sessions |-> NoMsg]
    /\ userId = [s \in Sessions |-> NoUser]
    /\ userType = [s \in Sessions |-> 0]
    /\ local = [s \in Sessions |-> NoLocal]
    /\ todo = [s \in Sessions |-> {}]
    /\ table = [s \in Sessions |-> {}]
    /\ reply = [s \in Sessions |-> "none"]

-----------------------------------------------------------------------------
(* What the client's windows can send next.  Before a login the main       *)
(* dialog is open; afterwards the dialog of the user or of the security    *)
(* administrator, whose table is fetched again after every batch.          *)
MainMessages ==
    {Msg(op, u) : op \in {"C_REGISTER", "C_LOGIN", "C_RESET_PASSWORD", "C_UNFREEZE"},
                  u \in Users}
    \cup {Msg("C_ADMIN_LOGIN", a) : a \in Admins \cup Users}

\* Mutant: the list stays as it is after a batch.
RefreshForgotten(s) == FALSE

MustRefresh(s) == userType[s] = 1 /\ buff[s].op # "C_GET_REQUEST"

RefreshType(s) == IF buff[s].op = "C_ADMIN_LOGIN" THEN 1 ELSE buff[s].type

SecurityMessages(s) ==
    IF MustRefresh(s) THEN {Batch("C_GET_REQUEST", RefreshType(s), {})}
    ELSE {Batch("C_GET_REQUEST", t, {}) : t \in {1, 2}}
         \cup {Batch(op, buff[s].type, ids) : op \in {"C_REQUEST_PASS", "C_REQUEST_REJECT"},
                                              ids \in SUBSET table[s] \ {{}}}

ClientMessages(s) ==
    CASE userId[s] = NoUser -> MainMessages
      [] userId[s] # NoUser /\ userType[s] = 0 -> {Msg("C_UPDATE_PASSWORD", NoUser)}
      [] userId[s] # NoUser /\ userType[s] = 1 -> SecurityMessages(s)
      [] OTHER -> {}

(***************************************************************************)
(* The top of the loop in Response.  While the client is there, recv       *)
(* delivers its next message.  Once it is gone recv returns at once with   *)
(* no data, the loop does not look at the result, and the message still in *)
(* the buffer is dispatched again.                                         *)
(***************************************************************************)
Receive(s, m) ==
    /\ pc[s] = "idle"
    /\ IF conn[s] THEN m \in ClientMessages(s) /\ m.op \in Used ELSE m = buff[s] /\ m # NoMsg
    /\ buff' = [buff EXCEPT ![s] = m]

\* The ways a handler goes on: it answers and returns to the loop, it
\* answers and waits for the client, or it only moves to its next statement.
Return(s, signal) ==
    /\ pc' = [pc EXCEPT ![s] = "idle"]
    /\ local' = [local EXCEPT ![s] = NoLocal]
    /\ reply' = [reply EXCEPT ![s] = signal]

Continue(s, label, signal, l) ==
    /\ pc' = [pc EXCEPT ![s] = label]
    /\ local' = [local EXCEPT ![s] = l]
    /\ reply' = [reply EXCEPT ![s] = signal]

\* An update of one row of `account`, through the trigger.
UpdateAccount(u, new) ==
    account' = [account EXCEPT ![u] = Updated(@, new, now)]

-----------------------------------------------------------------------------
(* Connections, the clock, the process.                                    *)

\* Server::Accept starts a thread; the window opens its main dialog.
Accept(s) ==
    /\ pc[s] = "closed"
    /\ pc' = [pc EXCEPT ![s] = "idle"]
    /\ conn' = [conn EXCEPT ![s] = TRUE]
    /\ UNCHANGED <<now, tables, buff, userId, userType, local, todo,
                   table, reply>>

\* The thread is gone with all its locals.
Forget(ss) ==
    /\ pc' = [s \in Sessions |-> IF s \in ss THEN "closed" ELSE pc[s]]
    /\ conn' = [s \in Sessions |-> IF s \in ss THEN FALSE ELSE conn[s]]
    /\ buff' = [s \in Sessions |-> IF s \in ss THEN NoMsg ELSE buff[s]]
    /\ userId' = [s \in Sessions |-> IF s \in ss THEN NoUser ELSE userId[s]]
    /\ userType' = [s \in Sessions |-> IF s \in ss THEN 0 ELSE userType[s]]
    /\ local' = [s \in Sessions |-> IF s \in ss THEN NoLocal ELSE local[s]]
    /\ todo' = [s \in Sessions |-> IF s \in ss THEN {} ELSE todo[s]]
    /\ table' = [s \in Sessions |-> IF s \in ss THEN {} ELSE table[s]]
    /\ reply' = [s \in Sessions |-> IF s \in ss THEN "none" ELSE reply[s]]

\* C_LOGOUT, sent when the person closes the window.  While the window waits
\* for the table after a batch it does not react.
Logout(s) ==
    /\ pc[s] = "idle" /\ conn[s] /\ ~MustRefresh(s)
    /\ Forget({s})
    /\ UNCHANGED <<now, tables>>

\* The client disappears without C_LOGOUT: it is killed, or the network is.
Drop(s) ==
    /\ MayDrop
    /\ pc[s] # "closed" /\ conn[s]
    /\ conn' = [conn EXCEPT ![s] = FALSE]
    /\ UNCHANGED <<now, tables, pc, buff, userId, userType, local,
                   todo, table, reply>>

\* The second recv of a handler fails: the handler returns.
ReceiveError(s) ==
    /\ pc[s] \in Waiting /\ ~conn[s]
    /\ Return(s, "none")
    /\ UNCHANGED <<now, tables, conn, buff, userId, userType, todo, table>>

\* The server process dies and is started again; MySQL keeps the tables.
ServerDies ==
    /\ Forget(Sessions)
    /\ UNCHANGED <<now, tables>>

\* A client that vanishes before its first message leaves Response with an
\* uninitialised buffer; parse throws and nothing catches the exception.
ParseFailure(s) ==
    /\ pc[s] = "idle" /\ ~conn[s] /\ buff[s] = NoMsg
    /\ ServerDies

Crash == MayCrash /\ ServerDies

Tick ==
    /\ now < MaxTime
    /\ now' = now + 1
    /\ UNCHANGED <<tables, sessionVars>>

-----------------------------------------------------------------------------
(* Register.                                                               *)
RegisterQuery(s, m) ==
    /\ Receive(s, m) /\ m.op = "C_REGISTER"
    /\ \/ /\ account[m.id] # NoRow
          /\ Return(s, "S_USER_EXIST")
       \/ /\ account[m.id] = NoRow
          /\ Continue(s, "registerWait", "S_NEXTSTEP",
                      [NoLocal EXCEPT !.newRnd = GetRandomString(now)])
    /\ UNCHANGED <<now, tables, conn, userId, userType, todo, table>>

\* Mutant: `replace into` instead of `insert into`.
RegisterReplace(s, pw) ==
    /\ pc[s] = "registerWait" /\ conn[s]
    /\ LET iter == PasswdToMD5(pw, local[s].newRnd, DefaultChallenge + 1)
       IN  account' = [account EXCEPT ![buff[s].id] =
                           AddUser(local[s].newRnd, iter, DefaultChallenge, now)]
    /\ Return(s, "S_ACCESS")
    /\ UNCHANGED <<now, password, administrator, conn, buff, userId,
                   userType, todo, table>>

\* Another session may have inserted the id meanwhile; the primary key decides.
RegisterAdd(s, pw) ==
    /\ pc[s] = "registerWait" /\ conn[s]
    /\ LET u == buff[s].id
           rnd == local[s].newRnd
           iter == PasswdToMD5(pw, rnd, DefaultChallenge + 1)
       IN  \/ /\ account[u] = NoRow
              /\ account' = [account EXCEPT ![u] = AddUser(rnd, iter, DefaultChallenge, now)]
              /\ Return(s, "S_ACCESS")
           \/ /\ account[u] # NoRow
              /\ account' = account
              /\ Return(s, "S_FAILED")
    /\ UNCHANGED <<now, password, administrator, conn, buff, userId,
                   userType, todo, table>>

-----------------------------------------------------------------------------
(* Login.                                                                  *)
Challenge(s, label, c, l) ==
    LET renew == c.chal <= 1
    IN  Continue(s, label, IF renew THEN "S_NEW_RANDOM" ELSE "S_NEXTSTEP",
                 [l EXCEPT !.cred = c, !.at = now,
                           !.newRnd = IF renew THEN GetRandomString(now) ELSE 0])

LoginQuery(s, m) ==
    /\ Receive(s, m) /\ m.op = "C_LOGIN"
    /\ LET row == account[m.id] IN
       \/ row = NoRow /\ Return(s, "S_FAILED")
       \/ row # NoRow /\ Blocked(row, now) /\ Return(s, "S_BLOCK")
       \/ /\ row # NoRow /\ ~Blocked(row, now) /\ Frozen(row, now)
          /\ Return(s, "S_FROZEN")
       \/ /\ row # NoRow /\ ~Blocked(row, now) /\ ~Frozen(row, now)
          /\ Challenge(s, "loginWait", row.cred,
                       [NoLocal EXCEPT !.first = FirstError(row, now),
                                       !.due = UpdateDue(row, now)])
    /\ UNCHANGED <<now, tables, conn, userId, userType, todo, table>>

\* Mutant: the new chain is one round short.
NextIterateShort(l, pw) ==
    IF l.cred.chal > 1 THEN Answer(pw, l.cred)
    ELSE PasswdToMD5(pw, l.newRnd, DefaultChallenge)

\* The value stored after an accepted answer: the answer itself, or the top
\* of the new chain when the old one is used up.
NextIterate(l, pw) ==
    IF l.cred.chal > 1 THEN Answer(pw, l.cred)
    ELSE PasswdToMD5(pw, l.newRnd, DefaultChallenge + 1)

\* The answer is wrong for the row as it was when the challenge was sent.
LoginWrong(s, pw) ==
    /\ pc[s] = "loginWait" /\ conn[s]
    /\ ~Accepts(local[s].cred, Answer(pw, local[s].cred))
    /\ LET u == buff[s].id
       IN  UpdateAccount(u, LoginFailed(account[u], local[s].first, now))
    /\ Return(s, "S_FAILED")
    /\ UNCHANGED <<now, password, administrator, conn, buff, userId,
                   userType, todo, table>>

\* The answer is right: the client is told so before the row is updated.
LoginRight(s, pw) ==
    /\ pc[s] = "loginWait" /\ conn[s]
    /\ Accepts(local[s].cred, Answer(pw, local[s].cred))
    /\ userId' = [userId EXCEPT ![s] = buff[s].id]
    /\ userType' = [userType EXCEPT ![s] = 0]
    /\ Continue(s, "loginWrite", IF local[s].due THEN "S_UPDATE_PASSWORD" ELSE "S_ACCESS",
                [local[s] EXCEPT !.newIter = NextIterate(local[s], pw)])
    /\ UNCHANGED <<now, tables, conn, buff, todo, table>>

LoginWrite(s) ==
    /\ pc[s] = "loginWrite"
    /\ LET u == userId[s]
       IN  UpdateAccount(u, UpdateChallengeAndRandom(account[u], local[s].newIter,
                                local[s].cred.chal <= 1, local[s].newRnd, now))
    /\ Return(s, "none")
    /\ UNCHANGED <<now, password, administrator, conn, buff, userId,
                   userType, todo, table>>

-----------------------------------------------------------------------------
(* AdminLogin: the same exchange, without locks, freezing or error count.  *)
AdminLoginQuery(s, m) ==
    /\ Receive(s, m) /\ m.op = "C_ADMIN_LOGIN"
    /\ \/ m.id \notin Admins /\ Return(s, "S_FAILED")
       \/ /\ m.id \in Admins
          /\ Challenge(s, "adminWait", administrator[m.id], NoLocal)
    /\ UNCHANGED <<now, tables, conn, userId, userType, todo, table>>

AdminLoginWrong(s, pw) ==
    /\ pc[s] = "adminWait" /\ conn[s]
    /\ ~Accepts(local[s].cred, Answer(pw, local[s].cred))
    /\ Return(s, "S_FAILED")
    /\ UNCHANGED <<now, tables, conn, buff, userId, userType, todo, table>>

AdminLoginRight(s, pw) ==
    /\ pc[s] = "adminWait" /\ conn[s]
    /\ Accepts(local[s].cred, Answer(pw, local[s].cred))
    /\ userId' = [userId EXCEPT ![s] = buff[s].id]
    /\ userType' = [userType EXCEPT ![s] = AdminType[buff[s].id]]
    /\ Continue(s, "adminWrite", "S_ACCESS",
                [local[s] EXCEPT !.newIter = NextIterate(local[s], pw)])
    /\ UNCHANGED <<now, tables, conn, buff, todo, table>>

AdminLoginWrite(s) ==
    /\ pc[s] = "adminWrite"
    /\ administrator' = [administrator EXCEPT ![userId[s]] =
           Advanced(@, local[s].newIter, local[s].cred.chal <= 1, local[s].newRnd)]
    /\ Return(s, "none")
    /\ UNCHANGED <<now, account, password, conn, buff, userId,
                   userType, todo, table>>

-----------------------------------------------------------------------------
(* ResetPassword and Unfreeze: the request flags.                          *)
ResetQuery(s, m) ==
    /\ Receive(s, m) /\ m.op = "C_RESET_PASSWORD"
    /\ LET row == account[m.id] IN
       \/ row = NoRow /\ Return(s, "S_FAILED")
       \/ row # NoRow /\ ResetFlag \in row.flags /\ Return(s, "S_REPEAT")
       \/ row # NoRow /\ ResetFlag \notin row.flags /\ Continue(s, "resetSet", "none", NoLocal)
    /\ UNCHANGED <<now, tables, conn, userId, userType, todo, table>>

UnfreezeQuery(s, m) ==
    /\ Receive(s, m) /\ m.op = "C_UNFREEZE"
    /\ LET row == account[m.id] IN
       \/ row = NoRow /\ Return(s, "S_FAILED")
       \/ row # NoRow /\ UnfreezeRefused(row, now) /\ Return(s, "S_FAILED")
       \/ /\ row # NoRow /\ ~UnfreezeRefused(row, now) /\ UnfreezeFlag \in row.flags
          /\ Return(s, "S_REPEAT")
       \/ /\ row # NoRow /\ ~UnfreezeRefused(row, now) /\ UnfreezeFlag \notin row.flags
          /\ Continue(s, "unfreezeSet", "none", NoLocal)
    /\ UNCHANGED <<now, tables, conn, userId, userType, todo, table>>

FlagSet(s, label, column) ==
    /\ pc[s] = label
    /\ UpdateAccount(buff[s].id, SetFlag(account[buff[s].id], column))
    /\ Return(s, "S_ACCESS")
    /\ UNCHANGED <<now, password, administrator, conn, buff, userId,
                   userType, todo, table>>

ResetSet(s) == FlagSet(s, "resetSet", ResetFlag)

UnfreezeSet(s) == FlagSet(s, "unfreezeSet", UnfreezeFlag)

-----------------------------------------------------------------------------
(* UpdatePassword: two queries, and the three statements of UpdateValue,   *)
(* one by one and without a transaction.                                   *)
UpdateQuery(s, m) ==
    /\ Receive(s, m) /\ m.op = "C_UPDATE_PASSWORD" /\ userType[s] = 0
    /\ conn[s] => Len(password[userId[s]]) < MaxHistory
    /\ Continue(s, "updatePast", "none",
                [NoLocal EXCEPT !.cred = account[userId[s]].cred])
    /\ UNCHANGED <<now, tables, conn, userId, userType, todo, table>>

UpdatePast(s) ==
    /\ pc[s] = "updatePast"
    /\ Continue(s, "updateWait", "none",
                [local[s] EXCEPT !.past = GetPastPassword(password[userId[s]]),
                                 !.newRnd = GetRandomString(now)])
    /\ UNCHANGED <<now, tables, conn, buff, userId, userType, todo, table>>

\* Mutant: the present password is not compared.
ReusedPastOnly(l, pw) == \E c \in l.past : Repeats(pw, c)

Reused(l, pw) == \E c \in {l.cred} \cup l.past : Repeats(pw, c)

UpdateRepeat(s, pw) ==
    /\ pc[s] = "updateWait" /\ conn[s]
    /\ Reused(local[s], pw)
    /\ Return(s, "S_FAILED")
    /\ UNCHANGED <<now, tables, conn, buff, userId, userType, todo, table>>

UpdateAccept(s, pw) ==
    /\ pc[s] = "updateWait" /\ conn[s]
    /\ ~Reused(local[s], pw)
    /\ Continue(s, "updateInsert", "none",
                [local[s] EXCEPT !.newIter = PasswdToMD5(pw, local[s].newRnd,
                                                         DefaultChallenge + 1)])
    /\ UNCHANGED <<now, tables, conn, buff, userId, userType, todo, table>>

\* `insert into password .. select .. from account where A_uid = u`.
InsertPast(u) ==
    password' = [password EXCEPT ![u] =
                    IF account[u] = NoRow THEN @ ELSE Append(@, account[u].cred)]

\* Mutant: the insert is formatted and never executed.
UpdateInsertNotRun(s) ==
    /\ pc[s] = "updateInsert"
    /\ Continue(s, "updateTime", "none", local[s])
    /\ UNCHANGED <<now, tables, conn, buff, userId, userType, todo, table>>

UpdateInsert(s) ==
    /\ pc[s] = "updateInsert"
    /\ InsertPast(userId[s])
    /\ Continue(s, "updateTime", "none", local[s])
    /\ UNCHANGED <<now, account, administrator, conn, buff, userId,
                   userType, todo, table>>

UpdateTime(s) ==
    /\ pc[s] = "updateTime"
    /\ UpdateAccount(userId[s], [account[userId[s]] EXCEPT !.update = Date(now)])
    /\ Continue(s, "updateChain", "none", local[s])
    /\ UNCHANGED <<now, password, administrator, conn, buff, userId,
                   userType, todo, table>>

UpdateChain(s) ==
    /\ pc[s] = "updateChain"
    /\ LET u == userId[s]
       IN  UpdateAccount(u, UpdateChallengeAndRandom(account[u], local[s].newIter,
                                                     TRUE, local[s].newRnd, now))
    /\ Return(s, "S_ACCESS")
    /\ UNCHANGED <<now, password, administrator, conn, buff, userId,
                   userType, todo, table>>

-----------------------------------------------------------------------------
(* GetRequest, PassRequest and RejectRequest of the security administrator.*)
Requests(type) ==
    {u \in Users : /\ account[u] # NoRow
                   /\ (IF type = 1 THEN ResetFlag ELSE UnfreezeFlag) \in account[u].flags}

GetRequest(s, m) ==
    /\ Receive(s, m) /\ m.op = "C_GET_REQUEST" /\ userType[s] = 1
    /\ table' = [table EXCEPT ![s] = Requests(m.type)]
    /\ Return(s, "none")
    /\ UNCHANGED <<now, tables, conn, userId, userType, todo>>

\* The batches of two administrators may overlap, and may be on the same ids.
ProcessBegin(s, m) ==
    /\ Receive(s, m) /\ m.op \in {"C_REQUEST_PASS", "C_REQUEST_REJECT"}
    /\ userType[s] = 1
    /\ \A u \in m.ids : Len(password[u]) < MaxHistory
    /\ todo' = [todo EXCEPT ![s] = m.ids]
    /\ Continue(s, "process", "none", NoLocal)
    /\ UNCHANGED <<now, tables, conn, userId, userType, table>>

Mode(s) == IF buff[s].op = "C_REQUEST_PASS" THEN 1 ELSE 2

\* An id whose request takes one statement.
ProcessOne(s, u) ==
    /\ pc[s] = "process" /\ u \in todo[s]
    /\ ~(buff[s].type = 1 /\ Mode(s) = 1)
    /\ UpdateAccount(u, ProcessRequest(account[u], buff[s].type, Mode(s), now))
    /\ todo' = [todo EXCEPT ![s] = @ \ {u}]
    /\ UNCHANGED <<now, password, administrator, pc, conn, buff, userId,
                   userType, local, table, reply>>

\* Mutant: the insert is formatted and never executed.
PassInsertNotRun(s, u) ==
    /\ pc[s] = "process" /\ u \in todo[s]
    /\ buff[s].type = 1 /\ Mode(s) = 1
    /\ Continue(s, "passReset", "none", [NoLocal EXCEPT !.cur = u])
    /\ UNCHANGED <<now, tables, conn, buff, userId, userType, todo, table>>

\* A granted reset: the credential goes to the history, then it is replaced.
PassInsert(s, u) ==
    /\ pc[s] = "process" /\ u \in todo[s]
    /\ buff[s].type = 1 /\ Mode(s) = 1
    /\ InsertPast(u)
    /\ Continue(s, "passReset", "none", [NoLocal EXCEPT !.cur = u])
    /\ UNCHANGED <<now, account, administrator, conn, buff, userId,
                   userType, todo, table>>

PassReset(s) ==
    /\ pc[s] = "passReset"
    /\ LET u == local[s].cur
       IN  /\ UpdateAccount(u, ResetToDefault(account[u]))
           /\ todo' = [todo EXCEPT ![s] = @ \ {u}]
    /\ Continue(s, "process", "none", NoLocal)
    /\ UNCHANGED <<now, password, administrator, conn, buff, userId,
                   userType, table>>

ProcessEnd(s) ==
    /\ pc[s] = "process" /\ todo[s] = {}
    /\ Return(s, "none")
    /\ UNCHANGED <<now, tables, conn, buff, userId, userType, todo, table>>

-----------------------------------------------------------------------------
\* The switch in Response, then the further steps of the handlers.
Dispatch(s) ==
    \E m \in ClientMessages(s) \cup {buff[s]} :
        \/ RegisterQuery(s, m)
        \/ LoginQuery(s, m)
        \/ AdminLoginQuery(s, m)
        \/ ResetQuery(s, m)
        \/ UnfreezeQuery(s, m)
        \/ UpdateQuery(s, m)
        \/ GetRequest(s, m)
        \/ ProcessBegin(s, m)

\* The person at the client answers a challenge with the password they typed.
ClientAnswer(s) ==
    \/ \E pw \in Passwords :
           \/ RegisterAdd(s, pw)
           \/ UpdateRepeat(s, pw)
           \/ UpdateAccept(s, pw)
    \/ \E pw \in AllPasswords :
           \/ LoginWrong(s, pw)
           \/ LoginRight(s, pw)
           \/ AdminLoginWrong(s, pw)
           \/ AdminLoginRight(s, pw)

HandlerStep(s) ==
    \/ LoginWrite(s)
    \/ AdminLoginWrite(s)
    \/ ResetSet(s)
    \/ UnfreezeSet(s)
    \/ UpdatePast(s)
    \/ UpdateInsert(s)
    \/ UpdateTime(s)
    \/ UpdateChain(s)
    \/ \E u \in Users : ProcessOne(s, u) \/ PassInsert(s, u)
    \/ PassReset(s)
    \/ ProcessEnd(s)

ConnectionStep(s) ==
    Accept(s) \/ Logout(s) \/ Drop(s) \/ ReceiveError(s) \/ ParseFailure(s)

Next ==
    \/ \E s \in Sessions :
           Dispatch(s) \/ ClientAnswer(s) \/ HandlerStep(s) \/ ConnectionStep(s)
    \/ Crash
    \/ Tick

Spec == Init /\ [][Next]_vars

-----------------------------------------------------------------------------
(* Properties.                                                             *)

\* Every variable has its type.  The error count of a row never reaches the
\* three of trigger FROZEN, which resets it in the same update.
TypeOK ==
    /\ now \in Nat
    /\ account \in [Users -> Row \cup {NoRow}]
    /\ password \in [Users -> Seq(Credential)]
    /\ administrator \in [Admins -> Credential]
    /\ pc \in [Sessions -> Control]
    /\ conn \in [Sessions -> BOOLEAN]
    /\ buff \in [Sessions -> Message]
    /\ userId \in [Sessions -> Ids]
    /\ userType \in [Sessions -> 0..2]
    /\ local \in [Sessions -> Local]
    /\ todo \in [Sessions -> SUBSET Users]
    /\ table \in [Sessions -> SUBSET Users]
    /\ reply \in [Sessions -> Signals]

\* While an account is blocked, every session whose answer Login is still
\* going to judge got its challenge before the block began: three errors stop
\* every later attempt, whatever the interleaving with the ones under way.
BlockStopsNewAttempts ==
    \A s \in Sessions :
        pc[s] = "loginWait" =>
            LET row == account[buff[s].id]
            IN  row # NoRow /\ (now < row.block + LockTime => local[s].at <= row.block)

AccountInSync(u) == account[u] # NoRow => InSync(account[u].cred)

\* Every account and every administrator can log in: what the tables store is
\* what the owner's next answer leads to.  Holds while clients keep apart, as
\* one client at a time does, crashes included, and is lost when two sessions
\* log in to one row.
AllInSync ==
    /\ \A u \in Users : AccountInSync(u)
    /\ \A a \in Admins : InSync(administrator[a])

\* The accounts and administrators whose credential the handler of s has read,
\* or is to replace: a login waits for its answer or has still to write back, a
\* change has not installed its password, a batch has accounts to go.
WorksOn(s) ==
    CASE pc[s] \in {"loginWait", "adminWait"} -> {buff[s].id}
      [] pc[s] \in {"loginWrite", "adminWrite", "updatePast", "updateWait",
                    "updateInsert", "updateTime", "updateChain"} -> {userId[s]}
      [] pc[s] \in {"process", "passReset"} -> todo[s]
      [] OTHER -> {}

\* Clients keep apart: no two handlers are at work on one account.  No code of
\* the server sees to it; it is a premise about the clients, for the theorems.
Apart ==
    \A s, r \in Sessions : s # r => WorksOn(s) \cap WorksOn(r) = {}

\* No password change is cut short by the end of the process between its last
\* two statements.  A premise of a theorem as well.
ChangesCompleted ==
    [][ServerDies => \A s \in Sessions : pc[s] # "updateChain"]_vars

\* Session s is about to store the outcome of a login on u, and the row is no
\* longer the one it sent the challenge for.
StaleLogin(s, u) ==
    /\ pc[s] = "loginWrite" /\ userId[s] = u
    /\ account[u] # NoRow /\ account[u].cred # local[s].cred

\* The value, the challenge and the random string of an account only ever
\* stop belonging together in one way: a login writes back over a row that
\* another session changed after the login had read it.
DesyncOnlyByStaleLogin ==
    [][\A u \in Users :
          AccountInSync(u) /\ ~AccountInSync(u)'
              => \E s \in Sessions : StaleLogin(s, u) /\ pc'[s] = "idle"]_vars

\* Whose password an account's chain is built on changes only when a session
\* that logged in as the account completes UpdatePassword or when a security
\* administrator's session grants a reset; and a row is never removed.
PasswordChangesOnlyByOwnerOrGrant ==
    [][\A u \in Users :
          account[u] # NoRow
              => /\ account'[u] # NoRow
                 /\ account'[u].cred.iter.pw # account[u].cred.iter.pw
                        => \E s \in Sessions :
                              \/ pc[s] = "updateChain" /\ userId[s] = u /\ userType[s] = 0
                              \/ pc[s] = "passReset" /\ local[s].cur = u /\ userType[s] = 1]_vars

\* The same, but for the one other way there is: a login writes its next value
\* over a row that another session changed after the login read it.
PasswordChangesOrStaleLogin ==
    [][\A u \in Users :
          account[u] # NoRow
              => /\ account'[u] # NoRow
                 /\ account'[u].cred.iter.pw # account[u].cred.iter.pw
                        => \E s \in Sessions :
                              \/ pc[s] = "updateChain" /\ userId[s] = u /\ userType[s] = 0
                              \/ pc[s] = "passReset" /\ local[s].cur = u /\ userType[s] = 1
                              \/ StaleLogin(s, u)]_vars

\* A password goes out of use only after a statement has put it into the
\* history: UpdatePassword and a grant insert first and replace afterwards, with
\* the end of the process, a login or another batch in between if it must be.
\* A login written back over a row that changed meanwhile is the exception.
RetiredIsRemembered ==
    [][\A u \in Users :
          account[u] # NoRow /\ account'[u].cred.iter.pw # account[u].cred.iter.pw
              => \/ \E i \in DOMAIN password[u] :
                       password[u][i].iter.pw = account[u].cred.iter.pw
                 \/ \E s \in Sessions : StaleLogin(s, u)]_vars

AmongLastFive(pw, h) ==
    \E i \in DOMAIN h : i > Len(h) - 5 /\ h[i].iter.pw = pw

\* The password UpdatePassword installs is none of the last five: neither the
\* one it replaces, which its first statement has moved into the history, nor
\* one of the four before it.
NoReuse ==
    [][\A s \in Sessions :
          pc[s] = "updateChain" /\ pc'[s] = "idle"
              => ~AmongLastFive(local[s].newIter.pw, password[userId[s]])]_vars

\* A login with the password that a granted reset installed always ends in
\* S_UPDATE_PASSWORD: the reset made the change of password overdue, and
\* nothing but a completed change makes it less so.
DefaultPasswordForcesUpdate ==
    [][\A s \in Sessions :
          pc[s] = "loginWait" /\ pc'[s] = "loginWrite"
          /\ local[s].cred.iter.pw = DefaultPassword
              => reply'[s] = "S_UPDATE_PASSWORD"]_vars

\* An account that Login refuses as frozen can be unfrozen: Unfreeze does not
\* refuse the same account, on the same day, as not frozen.
FrozenMayAskUnfreeze ==
    [][\A s \in Sessions :
          LET u == buff'[s].id IN
          UnfreezeQuery(s, buff'[s]) /\ account[u] # NoRow /\ Frozen(account[u], now)
              => reply'[s] # "S_FAILED"]_vars

\* A security administrator's grant resets an account only while the request
\* of its owner is standing.
ResetOnlyOnRequest ==
    [][\A s \in Sessions :
          pc[s] = "passReset" /\ pc'[s] = "process"
              => ResetFlag \in account[local[s].cur].flags]_vars

-----------------------------------------------------------------------------
(* The inductive invariant.  It adds to the types what a thread knows of   *)
(* its own session at each point of a handler.                             *)

\* Messages that name an account; only these have an id a person typed.
AccountOps == {"C_REGISTER", "C_LOGIN", "C_RESET_PASSWORD", "C_UNFREEZE"}

SecurityOps == {"C_GET_REQUEST", "C_REQUEST_PASS", "C_REQUEST_REJECT"}

Updating == {"updatePast", "updateWait", "updateInsert", "updateTime", "updateChain"}

\* Who a session is logged in as, and which messages it can then hold.
Identity(s) ==
    /\ userId[s] \in Users => userType[s] = 0 /\ account[userId[s]] # NoRow
    /\ userId[s] \in Admins => userType[s] = AdminType[userId[s]]
    /\ userId[s] = NoUser => userType[s] = 0
    /\ buff[s].op \in AccountOps => buff[s].id \in Users
    /\ buff[s].op = "C_UPDATE_PASSWORD" => userId[s] \in Users
    /\ buff[s].op \in SecurityOps => userType[s] = 1

\* What a handler that is under way has already established.
HandlerKnows(s) ==
    /\ pc[s] = "loginWait" => buff[s].op = "C_LOGIN" /\ account[buff[s].id] # NoRow
    /\ pc[s] = "adminWait" => buff[s].op = "C_ADMIN_LOGIN" /\ buff[s].id \in Admins
    /\ pc[s] = "registerWait" => buff[s].op = "C_REGISTER"
    /\ pc[s] \in {"resetSet", "unfreezeSet"} => buff[s].op \in AccountOps
    /\ pc[s] \in {"loginWrite"} \cup Updating => userId[s] \in Users
    /\ pc[s] = "adminWrite" => userId[s] \in Admins
    /\ pc[s] \in {"process", "passReset"} => buff[s].op \in SecurityOps
    /\ pc[s] = "passReset" => local[s].cur \in todo[s]

\* Locks and challenges are dated in the past.
Dated(s) ==
    pc[s] = "loginWait" => local[s].at <= now

\* The value a handler is about to store is the top of the chain it belongs
\* to: one below the accepted one, or that of a chain started afresh.
FreshChain(l) == l.newIter.rnd = l.newRnd /\ l.newIter.n = DefaultChallenge + 1

NewIterate(s) ==
    /\ pc[s] \in {"loginWrite", "adminWrite"} =>
           LET l == local[s] IN
           /\ l.newIter.pw = l.cred.iter.pw
           /\ IF l.cred.chal <= 1 THEN FreshChain(l)
              ELSE l.newIter.rnd = l.cred.rnd /\ l.newIter.n = l.cred.chal
    /\ pc[s] \in {"updateInsert", "updateTime", "updateChain"} => FreshChain(local[s])

IInv ==
    /\ TypeOK
    /\ \A u \in Users : account[u] # NoRow => account[u].block <= now
    /\ \A s \in Sessions : Identity(s) /\ HandlerKnows(s) /\ Dated(s) /\ NewIterate(s)

=============================================================================
