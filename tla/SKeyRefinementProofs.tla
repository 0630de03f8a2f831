------------------------ MODULE SKeyRefinementProofs ------------------------
(***************************************************************************)
(* The server implements OneTimePassword as long as no handler writes back *)
(* over a row that changed since it read it, and so as long as clients     *)
(* keep apart; then a password that UpdatePassword installs is none of the *)
(* last five either.                                                       *)
(***************************************************************************)
EXTENDS SKeyRefinement, SKeySafetyProofs

-----------------------------------------------------------------------------
(* What a credential in sync tells of a password.                          *)

\* Login accepts the answer of the password the chain is built on, and of no
\* other.
LEMMA SyncAccepts ==
    ASSUME NEW c \in Credential, InSync(c), NEW pw
    PROVE  Accepts(c, Answer(pw, c)) <=> pw = c.iter.pw
  <1> DEFINE a == Answer(pw, c)
  <1>1. /\ c.chal \in Int /\ c.chal > 0
        /\ c.iter = [pw |-> c.iter.pw, rnd |-> c.rnd, n |-> c.chal + 1]
    BY DEF Credential, InSync, Value
  <1>2. a = [pw |-> pw, rnd |-> c.rnd, n |-> c.chal]
    BY <1>1 DEF Answer, PasswdToMD5
  <1>3. Rehash(a) = [pw |-> pw, rnd |-> c.rnd, n |-> c.chal + 1]
    BY <1>2 DEF Rehash
  <1> DEFINE r(p) == [pw |-> p, rnd |-> c.rnd, n |-> c.chal + 1]
  <1>4. r(pw) = r(c.iter.pw) <=> pw = c.iter.pw
    <2>1. r(pw).pw = pw /\ r(c.iter.pw).pw = c.iter.pw OBVIOUS
    <2> HIDE DEF r
    <2> QED BY <2>1
  <1>5. Accepts(c, a) <=> r(pw) = r(c.iter.pw) BY <1>1, <1>3 DEF Accepts
  <1> HIDE DEF a, r
  <1> QED BY <1>4, <1>5 DEF a

\* The comparison with a past password finds it, and nothing else.
LEMMA SyncRepeats ==
    ASSUME NEW c \in Credential, InSync(c), NEW pw
    PROVE  Repeats(pw, c) <=> pw = c.iter.pw
  <1>1. /\ c.chal \in Int /\ c.chal > 0
        /\ c.iter = [pw |-> c.iter.pw, rnd |-> c.rnd, n |-> c.chal + 1]
    BY DEF Credential, InSync, Value
  <1>2. PasswdToMD5(pw, c.rnd, c.chal + 1) = [pw |-> pw, rnd |-> c.rnd, n |-> c.chal + 1]
    BY <1>1 DEF PasswdToMD5
  <1> DEFINE r(p) == [pw |-> p, rnd |-> c.rnd, n |-> c.chal + 1]
  <1>3. r(pw) = r(c.iter.pw) <=> pw = c.iter.pw
    <2>1. r(pw).pw = pw /\ r(c.iter.pw).pw = c.iter.pw OBVIOUS
    <2> HIDE DEF r
    <2> QED BY <2>1
  <1>4. Repeats(pw, c) <=> r(pw) = r(c.iter.pw) BY <1>1, <1>2 DEF Repeats
  <1> HIDE DEF r
  <1> QED BY <1>3, <1>4

\* A registered account opens to exactly one password.
LEMMA OpensToOne ==
    ASSUME NEW row \in Row, InSync(row.cred)
    PROVE  Opens(row) = {row.cred.iter.pw}
  <1> DEFINE c == row.cred
  <1>1. c \in Credential /\ InSync(c) /\ c.iter.pw \in AllPasswords
    BY DEF Row, Credential, Value
  <1>2. Opens(row) = {pw \in AllPasswords : Accepts(c, Answer(pw, c))}
    BY DataAssumption DEF Opens, DataAssumption
  <1> HIDE DEF c
  <1>3. \A pw \in AllPasswords : Accepts(c, Answer(pw, c)) <=> pw = c.iter.pw
    BY <1>1, SyncAccepts
  <1>4. Opens(row) = {c.iter.pw} BY <1>1, <1>2, <1>3
  <1> QED BY <1>4 DEF c

-----------------------------------------------------------------------------
(* What a session knows, whatever the others do.                           *)

Installing == {"updateInsert", "updateTime", "updateChain"}

\* Whoever logs in has not logged in before on the connection, and a password
\* that is about to be installed is not the one it was compared with.
OwnSession(s) ==
    /\ pc[s] \in {"loginWait", "adminWait"} /\ conn[s] => userId[s] = NoUser
    /\ pc[s] \in Installing =>
           /\ local[s].newIter.pw \in Passwords
           /\ ~Repeats(local[s].newIter.pw, local[s].cred)

OwnSessions == \A s \in Sessions : OwnSession(s)

\* The labels at which OwnSession says something.
SessionLabels == {"loginWait", "adminWait"} \cup Installing

\* The windows offer a login only to somebody who has not logged in.
LEMMA LoginOnce ==
    ASSUME IInv, NEW s \in Sessions, NEW m, Receive(s, m), conn[s],
           m.op \in {"C_LOGIN", "C_ADMIN_LOGIN"}
    PROVE  userId[s] = NoUser
  <1>1. TypeOK /\ m \in ClientMessages(s) BY DEF IInv, Receive
  <1>2. CASE userId[s] # NoUser /\ userType[s] = 0
    BY <1>1, <1>2 DEF ClientMessages, Msg
  <1>3. CASE userId[s] # NoUser /\ userType[s] = 1
    <2>1. m \in SecurityMessages(s) BY <1>1, <1>3 DEF ClientMessages
    <2> QED BY <1>1, <2>1, SecurityMessageType DEF SecurityOps
  <1>4. CASE userId[s] # NoUser /\ userType[s] \notin {0, 1}
    BY <1>1, <1>4 DEF ClientMessages
  <1> QED BY <1>2, <1>3, <1>4

LEMMA SessionKept ==
    ASSUME NEW s \in Sessions, OwnSession(s), Kept(s)
    PROVE  OwnSession(s)'
  BY DEF OwnSession, Kept

\* A query starts a login only for somebody who has not logged in.
LEMMA DispatchSession ==
    ASSUME IInv, NEW s \in Sessions, Dispatch(s)
    PROVE  OwnSession(s)'
  <1>1. TypeOK BY DEF IInv
  <1>2. PICK m \in ClientMessages(s) \cup {buff[s]} :
            \/ RegisterQuery(s, m) \/ LoginQuery(s, m) \/ AdminLoginQuery(s, m)
            \/ ResetQuery(s, m) \/ UnfreezeQuery(s, m) \/ UpdateQuery(s, m)
            \/ GetRequest(s, m) \/ ProcessBegin(s, m)
    BY DEF Dispatch
  <1>3. CASE LoginQuery(s, m) \/ AdminLoginQuery(s, m)
    <2>1. conn[s] => userId[s] = NoUser
      BY <1>3, LoginOnce DEF LoginQuery, AdminLoginQuery
    <2>2. conn' = conn /\ userId' = userId BY <1>3 DEF LoginQuery, AdminLoginQuery
    <2>3. \/ \E signal : Return(s, signal)
          \/ \E label \in {"loginWait", "adminWait"} :
                \E signal, l : Continue(s, label, signal, l)
      BY <1>3 DEF LoginQuery, AdminLoginQuery, Challenge
    <2>4. pc'[s] \in {"idle", "loginWait", "adminWait"}
      BY <1>1, <2>3 DEF Return, Continue, TypeOK
    <2> QED BY <2>1, <2>2, <2>4 DEF OwnSession, Installing
  <1>4. CASE \/ RegisterQuery(s, m) \/ ResetQuery(s, m) \/ UnfreezeQuery(s, m)
             \/ UpdateQuery(s, m) \/ GetRequest(s, m) \/ ProcessBegin(s, m)
    <2>1. \/ \E signal : Return(s, signal)
          \/ \E label \in {"registerWait", "resetSet", "unfreezeSet", "updatePast",
                           "process"} :
                \E signal, l : Continue(s, label, signal, l)
      BY <1>4 DEF RegisterQuery, ResetQuery, UnfreezeQuery, UpdateQuery, GetRequest,
                  ProcessBegin
    <2>2. pc'[s] \notin SessionLabels
      BY <1>1, <2>1 DEF Return, Continue, TypeOK, SessionLabels, Installing
    <2> QED BY <2>2 DEF OwnSession, SessionLabels
  <1> QED BY <1>2, <1>3, <1>4

\* UpdatePassword accepts a password only if it is not the one it has read.
LEMMA AnswerSession ==
    ASSUME IInv, NEW s \in Sessions, ClientAnswer(s)
    PROVE  OwnSession(s)'
  <1>1. TypeOK BY DEF IInv
  <1>2. ASSUME NEW pw \in Passwords, UpdateAccept(s, pw) PROVE OwnSession(s)'
    <2> DEFINE v == PasswdToMD5(pw, local[s].newRnd, DefaultChallenge + 1)
    <2>1. /\ pc'[s] = "updateInsert"
          /\ local'[s] = [local[s] EXCEPT !.newIter = v]
          /\ ~Repeats(pw, local[s].cred)
      BY <1>1, <1>2 DEF UpdateAccept, Continue, Reused, TypeOK
    <2>2. v.pw = pw BY DEF PasswdToMD5
    <2> HIDE DEF v
    <2>3. local'[s].newIter = v /\ local'[s].cred = local[s].cred
      BY <1>1, <2>1 DEF TypeOK, Local
    <2> QED BY <1>2, <2>1, <2>2, <2>3 DEF OwnSession, Installing
  <1>3. CASE \/ \E pw \in Passwords : RegisterAdd(s, pw) \/ UpdateRepeat(s, pw)
             \/ \E pw \in AllPasswords : \/ LoginWrong(s, pw) \/ LoginRight(s, pw)
                                         \/ AdminLoginWrong(s, pw)
                                         \/ AdminLoginRight(s, pw)
    <2>1. \/ \E signal : Return(s, signal)
          \/ \E label \in {"loginWrite", "adminWrite"} :
                \E signal, l : Continue(s, label, signal, l)
      BY <1>3 DEF RegisterAdd, UpdateRepeat, LoginWrong, LoginRight, AdminLoginWrong,
                  AdminLoginRight
    <2>2. pc'[s] \notin SessionLabels
      BY <1>1, <2>1 DEF Return, Continue, TypeOK, SessionLabels, Installing
    <2> QED BY <2>2 DEF OwnSession, SessionLabels
  <1> QED BY <1>2, <1>3 DEF ClientAnswer

LEMMA HandlerSession ==
    ASSUME IInv, NEW s \in Sessions, OwnSession(s), HandlerStep(s)
    PROVE  OwnSession(s)'
  <1>1. TypeOK BY DEF IInv
  <1>2. CASE UpdateInsert(s) \/ UpdateTime(s)
    <2>1. /\ pc[s] \in Installing /\ pc'[s] \in Installing
          /\ local'[s] = local[s]
      BY <1>1, <1>2 DEF UpdateInsert, UpdateTime, Continue, TypeOK, Installing
    <2> QED BY <2>1 DEF OwnSession, Installing
  <1>3. CASE \E u \in Users : ProcessOne(s, u)
    BY <1>3 DEF ProcessOne, OwnSession, Installing
  <1>4. CASE \/ LoginWrite(s) \/ AdminLoginWrite(s) \/ ResetSet(s) \/ UnfreezeSet(s)
             \/ UpdatePast(s) \/ UpdateChain(s) \/ PassReset(s) \/ ProcessEnd(s)
             \/ \E u \in Users : PassInsert(s, u)
    <2>1. \/ \E signal : Return(s, signal)
          \/ \E label \in {"updateWait", "passReset", "process"} :
                \E signal, l : Continue(s, label, signal, l)
      BY <1>4 DEF LoginWrite, AdminLoginWrite, ResetSet, UnfreezeSet, FlagSet,
                  UpdatePast, UpdateChain, PassInsert, PassReset, ProcessEnd
    <2>2. pc'[s] \notin SessionLabels
      BY <1>1, <2>1 DEF Return, Continue, TypeOK, SessionLabels, Installing
    <2> QED BY <2>2 DEF OwnSession, SessionLabels
  <1> QED BY <1>2, <1>3, <1>4 DEF HandlerStep

\* Every session knows this for good, however many there are.
LEMMA SessionStep ==
    ASSUME IInv, NEW s \in Sessions, OwnSession(s), [Next]_vars
    PROVE  OwnSession(s)'
  <1>1. TypeOK BY DEF IInv
  <1>2. CASE Dispatch(s) \/ ClientAnswer(s) \/ HandlerStep(s)
    BY <1>2, DispatchSession, AnswerSession, HandlerSession
  <1>3. CASE pc'[s] \in {"idle", "closed"} BY <1>3 DEF OwnSession, Installing
  <1> QED BY <1>2, <1>3, OwnOrKept, SessionKept

LEMMA SessionInit ==
    ASSUME Init, NEW s \in Sessions
    PROVE  OwnSession(s)
  BY DEF Init, OwnSession, Installing

-----------------------------------------------------------------------------
(* What a session knows of the account it alone works on.                  *)

\* The passwords of the last k rows of a history.
LastPasswords(h, k) == {h[i].iter.pw : i \in {j \in DOMAIN h : j > Len(h) - k}}

\* Nobody changes the account while its owner changes the password: what
\* UpdatePassword has read is what the tables hold, and what it is about to
\* store was checked against all of it.
OwnRow(s) ==
    LET u  == userId[s]
        pw == local[s].newIter.pw
    IN  /\ pc[s] = "updateWait" => local[s].past = GetPastPassword(password[u])
        /\ pc[s] = "updateInsert" =>
               pw # account[u].cred.iter.pw
               /\ pw \notin LastPasswords(password[u], 4)
        /\ pc[s] \in {"updateTime", "updateChain"} =>
               pw # account[u].cred.iter.pw
               /\ pw \notin LastPasswords(password[u], 5)

\* Every past credential was one its owner could answer.
HistoryInSync ==
    \A u \in Users : \A i \in DOMAIN password[u] : InSync(password[u][i])

\* A statement that moves a credential into the history.
LEMMA InsertPastInSync ==
    ASSUME TypeOK, AllInSync, HistoryInSync, NEW u \in Users, InsertPast(u)
    PROVE  HistoryInSync'
  <1> SUFFICES ASSUME NEW v \in Users, NEW i \in DOMAIN password'[v]
               PROVE  InSync(password'[v][i])
    BY DEF HistoryInSync
  <1>1. CASE v # u \/ account[u] = NoRow
    <2>1. password'[v] = password[v] BY <1>1 DEF InsertPast, TypeOK
    <2> QED BY <2>1 DEF HistoryInSync
  <1>2. CASE v = u /\ account[u] # NoRow
    <2> DEFINE h == password[u]
               c == account[u].cred
    <2>1. password'[u] = Append(h, c) BY <1>2 DEF InsertPast, TypeOK
    <2>2. InSync(c) /\ \A j \in DOMAIN h : InSync(h[j])
      BY <1>2 DEF AllInSync, AccountInSync, HistoryInSync
    <2>3. h \in Seq(Credential) /\ c \in Credential
      BY <1>2 DEF TypeOK, Row
    <2> HIDE DEF h, c
    <2>4. i \in 1..(Len(h) + 1) /\ DOMAIN h = 1..Len(h)
      BY <1>2, <2>1, <2>3
    <2>5. Append(h, c)[i] = IF i = Len(h) + 1 THEN c ELSE h[i]
      BY <2>3, <2>4
    <2> QED BY <1>2, <2>1, <2>2, <2>4, <2>5
  <1> QED BY <1>1, <1>2

LEMMA HistoryStep ==
    ASSUME IInv, AllInSync, HistoryInSync, [Next]_vars
    PROVE  HistoryInSync'
  <1>1. TypeOK BY DEF IInv
  <1>2. CASE password' = password BY <1>2 DEF HistoryInSync
  <1>3. ASSUME NEW s \in Sessions, UpdateInsert(s) PROVE HistoryInSync'
    <2>1. userId[s] \in Users /\ InsertPast(userId[s])
      BY <1>3 DEF IInv, HandlerKnows, Updating, UpdateInsert
    <2> QED BY <1>1, <2>1, InsertPastInSync
  <1>4. ASSUME NEW s \in Sessions, NEW u \in Users, PassInsert(s, u)
        PROVE  HistoryInSync'
    BY <1>1, <1>4, InsertPastInSync DEF PassInsert
  <1> QED BY <1>2, <1>3, <1>4, NextHistory

\* UpdatePassword remembers the history it reads.
LEMMA UpdatePastOwn ==
    ASSUME IInv, NEW s \in Sessions, UpdatePast(s)
    PROVE  OwnRow(s)'
  <1>1. TypeOK BY DEF IInv
  <1> DEFINE P   == GetPastPassword(password[userId[s]])
             rnd == GetRandomString(now)
  <1>2. /\ pc'[s] = "updateWait"
        /\ local'[s] = [local[s] EXCEPT !.past = P, !.newRnd = rnd]
        /\ UNCHANGED <<password, userId>>
    BY <1>1 DEF UpdatePast, Continue, TypeOK, tables
  <1> HIDE DEF P, rnd
  <1>3. local[s] \in Local BY <1>1 DEF TypeOK
  <1>4. local'[s].past = P BY <1>2, <1>3 DEF Local
  <1> QED BY <1>2, <1>4 DEF OwnRow, P

LEMMA DispatchOwn ==
    ASSUME IInv, NEW s \in Sessions, Dispatch(s)
    PROVE  OwnRow(s)'
  <1>1. TypeOK BY DEF IInv
  <1>2. PICK m \in ClientMessages(s) \cup {buff[s]} :
            \/ RegisterQuery(s, m) \/ LoginQuery(s, m) \/ AdminLoginQuery(s, m)
            \/ ResetQuery(s, m) \/ UnfreezeQuery(s, m) \/ UpdateQuery(s, m)
            \/ GetRequest(s, m) \/ ProcessBegin(s, m)
    BY DEF Dispatch
  <1>3. CASE pc'[s] \notin Updating BY <1>3 DEF Updating, OwnRow
  <1>4. CASE UpdateQuery(s, m)
    <2>1. pc'[s] = "updatePast" BY <1>1, <1>4 DEF UpdateQuery, Continue, TypeOK
    <2> QED BY <2>1 DEF OwnRow
  <1>5. CASE \/ RegisterQuery(s, m) \/ LoginQuery(s, m) \/ AdminLoginQuery(s, m)
             \/ ResetQuery(s, m) \/ UnfreezeQuery(s, m)
             \/ GetRequest(s, m) \/ ProcessBegin(s, m)
    <2>1. \/ \E signal : Return(s, signal)
          \/ \E label \in {"registerWait", "loginWait", "adminWait", "resetSet",
                           "unfreezeSet", "process"} :
                \E signal, l : Continue(s, label, signal, l)
      BY <1>5 DEF RegisterQuery, LoginQuery, AdminLoginQuery, ResetQuery, UnfreezeQuery,
                  GetRequest, ProcessBegin, Challenge
    <2> QED BY <1>1, <1>3, <2>1 DEF Return, Continue, TypeOK, Updating
  <1> QED BY <1>2, <1>4, <1>5

\* The password UpdatePassword accepts was compared with the present one and
\* with the last four, and each comparison tells passwords apart.
LEMMA UpdateAcceptOwn ==
    ASSUME IInv, AllInSync, HistoryInSync, NEW s \in Sessions, Current(s), OwnRow(s),
           NEW pw \in Passwords, UpdateAccept(s, pw)
    PROVE  OwnRow(s)'
  <1>1. TypeOK /\ pc[s] = "updateWait" BY DEF IInv, UpdateAccept
  <1>2. userId[s] \in Users /\ account[userId[s]] # NoRow
    BY <1>1 DEF IInv, HandlerKnows, Identity, Updating
  <1> DEFINE u == userId[s]
             c == account[u].cred
             h == password[u]
             v == PasswdToMD5(pw, local[s].newRnd, DefaultChallenge + 1)
  <1>3. /\ pc'[s] = "updateInsert"
        /\ local'[s] = [local[s] EXCEPT !.newIter = v]
        /\ UNCHANGED <<account, password, userId>>
    BY <1>1 DEF UpdateAccept, Continue, TypeOK, tables
  <1>4. v.pw = pw BY DEF PasswdToMD5
  <1> HIDE DEF v
  <1>5. local'[s].newIter.pw = pw
    <2>1. local[s] \in Local BY <1>1 DEF TypeOK
    <2>2. local'[s].newIter = v BY <1>3, <2>1 DEF Local
    <2> QED BY <1>4, <2>2
  <1>6. \A d \in {c} \cup GetPastPassword(h) : ~Repeats(pw, d)
    BY <1>1 DEF UpdateAccept, Reused, OwnRow, Current, Updating
  <1>7. c \in Credential /\ InSync(c)
    BY <1>1, <1>2 DEF TypeOK, Row, AllInSync, AccountInSync
  <1>8. pw # c.iter.pw BY <1>6, <1>7, SyncRepeats
  <1>9. pw \notin LastPasswords(h, 4)
    <2> SUFFICES ASSUME NEW i \in DOMAIN h, i > Len(h) - 4
                 PROVE  h[i].iter.pw # pw
      BY DEF LastPasswords
    <2>1. h \in Seq(Credential) BY <1>1, <1>2 DEF TypeOK
    <2>2. h[i] \in Credential /\ InSync(h[i])
      BY <1>2, <2>1 DEF HistoryInSync
    <2>3. ~Repeats(pw, h[i]) BY <1>6 DEF GetPastPassword
    <2> QED BY <2>2, <2>3, SyncRepeats
  <1> QED BY <1>3, <1>5, <1>8, <1>9 DEF OwnRow

LEMMA AnswerOwn ==
    ASSUME IInv, AllInSync, HistoryInSync, NEW s \in Sessions, Current(s), OwnRow(s),
           ClientAnswer(s)
    PROVE  OwnRow(s)'
  <1>1. TypeOK BY DEF IInv
  <1>2. CASE pc'[s] \notin Updating BY <1>2 DEF Updating, OwnRow
  <1>3. CASE \E pw \in Passwords : UpdateAccept(s, pw) BY <1>3, UpdateAcceptOwn
  <1>4. CASE \/ \E pw \in Passwords : RegisterAdd(s, pw) \/ UpdateRepeat(s, pw)
             \/ \E pw \in AllPasswords : \/ LoginWrong(s, pw) \/ LoginRight(s, pw)
                                         \/ AdminLoginWrong(s, pw)
                                         \/ AdminLoginRight(s, pw)
    <2>1. \/ \E signal : Return(s, signal)
          \/ \E label \in {"loginWrite", "adminWrite"} :
                \E signal, l : Continue(s, label, signal, l)
      BY <1>4 DEF RegisterAdd, UpdateRepeat, LoginWrong, LoginRight, AdminLoginWrong,
                  AdminLoginRight
    <2> QED BY <1>1, <1>2, <2>1 DEF Return, Continue, TypeOK, Updating
  <1> QED BY <1>3, <1>4 DEF ClientAnswer

\* The insert moves the present password into the history: what was none of
\* the last four and not the present one is none of the last five.
LEMMA UpdateInsertOwn ==
    ASSUME IInv, NEW s \in Sessions, OwnRow(s), UpdateInsert(s)
    PROVE  OwnRow(s)'
  <1>1. TypeOK /\ pc[s] = "updateInsert" BY DEF IInv, UpdateInsert
  <1>2. userId[s] \in Users /\ account[userId[s]] # NoRow
    BY <1>1 DEF IInv, HandlerKnows, Identity, Updating
  <1> DEFINE u  == userId[s]
             c  == account[u].cred
             h  == password[u]
             pw == local[s].newIter.pw
  <1>3. /\ pc'[s] = "updateTime" /\ local'[s] = local[s]
        /\ UNCHANGED <<account, userId>>
        /\ password'[u] = Append(h, c)
    BY <1>1, <1>2 DEF UpdateInsert, InsertPast, Continue, TypeOK
  <1>4. pw # c.iter.pw /\ pw \notin LastPasswords(h, 4)
    BY <1>1 DEF OwnRow
  <1>5. h \in Seq(Credential) /\ c \in Credential
    BY <1>1, <1>2 DEF TypeOK, Row
  <1> HIDE DEF h, c, pw
  <1>6. pw \notin LastPasswords(Append(h, c), 5)
    <2> DEFINE k == Append(h, c)
    <2> SUFFICES ASSUME NEW i \in DOMAIN k, i > Len(k) - 5
                 PROVE  k[i].iter.pw # pw
      BY DEF LastPasswords
    <2>1. /\ Len(k) = Len(h) + 1 /\ Len(h) \in Nat
          /\ DOMAIN k = 1..(Len(h) + 1) /\ DOMAIN h = 1..Len(h)
      BY <1>5
    <2>2. k[i] = IF i = Len(h) + 1 THEN c ELSE h[i] BY <1>5, <2>1
    <2> HIDE DEF k
    <2>3. CASE i = Len(h) + 1 BY <1>4, <2>2, <2>3
    <2>4. CASE i # Len(h) + 1
      <3>1. i \in DOMAIN h /\ i > Len(h) - 4 BY <2>1, <2>4
      <3> QED BY <1>4, <2>2, <2>4, <3>1 DEF LastPasswords
    <2> QED BY <2>3, <2>4
  <1> QED BY <1>3, <1>4, <1>6 DEF OwnRow, h, c, pw

LEMMA UpdateTimeOwn ==
    ASSUME IInv, NEW s \in Sessions, OwnRow(s), UpdateTime(s)
    PROVE  OwnRow(s)'
  <1>1. TypeOK /\ now \in Nat /\ pc[s] = "updateTime"
    BY DEF IInv, TypeOK, UpdateTime
  <1>2. userId[s] \in Users /\ account[userId[s]] \in Row
    BY <1>1 DEF IInv, TypeOK, Identity, HandlerKnows, Updating
  <1> DEFINE u   == userId[s]
             new == [account[u] EXCEPT !.update = Date(now)]
  <1>3. /\ new \in RowBefore /\ new.block = account[u].block
        /\ new.cred = account[u].cred
    BY <1>1, <1>2, DateType, SetUpdateType
  <1>4. /\ UpdateAccount(u, new)
        /\ pc'[s] = "updateChain" /\ local'[s] = local[s]
        /\ UNCHANGED <<password, userId>>
    BY <1>1 DEF UpdateTime, Continue, TypeOK
  <1> HIDE DEF new
  <1>5. account'[u].cred = account[u].cred
    BY <1>2, <1>3, <1>4, DataAssumption, UpdateRow DEF DataAssumption
  <1> QED BY <1>1, <1>4, <1>5 DEF OwnRow

LEMMA HandlerOwn ==
    ASSUME IInv, NEW s \in Sessions, OwnRow(s), HandlerStep(s)
    PROVE  OwnRow(s)'
  <1>1. TypeOK BY DEF IInv
  <1>2. CASE UpdateInsert(s) BY <1>2, UpdateInsertOwn
  <1>3. CASE UpdateTime(s) BY <1>3, UpdateTimeOwn
  <1>4. CASE UpdatePast(s) BY <1>4, UpdatePastOwn
  <1>5. CASE HandlerStep(s) /\ ~UpdatePast(s) /\ ~UpdateInsert(s) /\ ~UpdateTime(s)
    <2>1. pc'[s] \notin Updating
      <3>1. CASE \E u \in Users : ProcessOne(s, u)
        BY <3>1 DEF ProcessOne, Updating
      <3>2. CASE ~\E u \in Users : ProcessOne(s, u)
        <4>1. \/ \E signal : Return(s, signal)
              \/ \E label \in {"passReset", "process"} :
                    \E signal, l : Continue(s, label, signal, l)
          BY <1>5, <3>2 DEF HandlerStep, LoginWrite, AdminLoginWrite, ResetSet,
                            UnfreezeSet, FlagSet, UpdateChain, PassInsert, PassReset,
                            ProcessEnd
        <4> QED BY <1>1, <4>1 DEF Return, Continue, TypeOK, Updating
      <3> QED BY <3>1, <3>2
    <2> QED BY <2>1 DEF Updating, OwnRow
  <1> QED BY <1>2, <1>3, <1>4, <1>5

LEMMA ApartOwn ==
    ASSUME IInv, AllInSync, HistoryInSync, Apart, [Next]_vars, NEW s \in Sessions,
           Current(s), OwnRow(s)
    PROVE  OwnRow(s)'
  <1>1. CASE Dispatch(s) \/ ClientAnswer(s) \/ HandlerStep(s)
    BY <1>1, DispatchOwn, AnswerOwn, HandlerOwn
  <1>2. CASE pc'[s] \notin Updating BY <1>2 DEF Updating, OwnRow
  <1>3. CASE Kept(s) /\ pc[s] \in Updating
    <2>1. UNCHANGED <<pc[s], local[s], userId[s]>> BY <1>3 DEF Kept
    <2>2. userId[s] \in Users BY <1>3 DEF IInv, HandlerKnows
    <2>3. account[userId[s]] # NoRow BY <2>2 DEF IInv, Identity
    <2>4. userId[s] \in WorksOn(s) BY <1>3 DEF WorksOn, Updating
    <2>5. account'[userId[s]].cred = account[userId[s]].cred
      BY <2>1, <2>2, <2>3, <2>4, ApartRow
    <2>6. password'[userId[s]] = password[userId[s]]
      BY <2>1, <2>2, <2>4, ApartHistory
    <2> QED BY <2>1, <2>5, <2>6 DEF OwnRow
  <1>4. pc'[s] \in {"idle", "closed"} => pc'[s] \notin Updating BY DEF Updating
  <1> QED BY <1>1, <1>2, <1>3, <1>4, OwnOrKept DEF Kept

-----------------------------------------------------------------------------
(* The invariant of the server while clients keep apart.                   *)
AllOwnRows == \A s \in Sessions : OwnRow(s)

LEMMA OwnRowsInit ==
    ASSUME Init
    PROVE  HistoryInSync /\ AllOwnRows
  BY DEF Init, OwnRow, HistoryInSync, AllOwnRows

LEMMA OwnRowsStep ==
    ASSUME IInv, AllInSync, AllCurrent, Apart, [Next]_vars, HistoryInSync, AllOwnRows
    PROVE  HistoryInSync' /\ AllOwnRows'
  BY HistoryStep, ApartOwn DEF AllCurrent, AllOwnRows

\* As long as clients keep apart, the password UpdatePassword installs is none
\* of the last five.  (A grant that comes while the owner is still typing moves
\* another password into the history.)
THEOREM ApartNoReuse == Spec /\ []Apart => NoReuse
  <1>1. AllOwnRows /\ [Next]_vars
            => [\A s \in Sessions :
                  pc[s] = "updateChain" /\ pc'[s] = "idle"
                      => ~AmongLastFive(local[s].newIter.pw, password[userId[s]])]_vars
    BY DEF AllOwnRows, OwnRow, LastPasswords, AmongLastFive
  <1>2. Init => HistoryInSync /\ AllOwnRows BY OwnRowsInit
  <1>3. IInv /\ AllInSync /\ AllCurrent /\ Apart /\ [Next]_vars
            /\ HistoryInSync /\ AllOwnRows
                => HistoryInSync' /\ AllOwnRows'
    BY OwnRowsStep
  <1> QED BY <1>1, <1>2, <1>3, ApartInvariance, ApartInSync, PTL DEF Spec, NoReuse

\* One client at a time: UpdatePassword installs none of the last five passwords.
THEOREM SerialNoReuse ==
    ASSUME NEW q, Sessions = {q}
    PROVE  Spec => NoReuse
  <1>1. Apart BY SerialApart
  <1> QED BY <1>1, ApartNoReuse, PTL

-----------------------------------------------------------------------------
(* A password goes out of use only after it was put into the history.      *)

Registered == {u \in Users : account[u] # NoRow}

\* The ids a window shows, ticks and has processed are registered.
BatchKnown(s) ==
    buff[s].ids \subseteq Registered /\ todo[s] \subseteq Registered
    /\ table[s] \subseteq Registered

LEMMA RegisteredStays ==
    ASSUME IInv, [Next]_vars
    PROVE  Registered \subseteq Registered'
  <1>1. \A u \in Users : account[u] # NoRow => account'[u] # NoRow BY PasswordStep
  <1> QED BY <1>1 DEF Registered

\* What the windows send is what they show.
LEMMA MessageIds ==
    ASSUME NEW s \in Sessions, NEW m \in ClientMessages(s)
    PROVE  m.ids \subseteq table[s]
  <1>1. CASE userId[s] = NoUser
    BY <1>1 DEF ClientMessages, MainMessages, Msg
  <1>2. CASE userId[s] # NoUser /\ userType[s] = 0
    BY <1>2 DEF ClientMessages, Msg
  <1>3. CASE userId[s] # NoUser /\ userType[s] = 1
    <2>1. m \in SecurityMessages(s) BY <1>3 DEF ClientMessages
    <2> QED BY <2>1 DEF SecurityMessages, Batch
  <1>4. CASE userId[s] # NoUser /\ userType[s] \notin {0, 1}
    BY <1>4 DEF ClientMessages
  <1> QED BY <1>1, <1>2, <1>3, <1>4

\* Where the ids of a batch come from.
LEMMA BatchSources ==
    ASSUME TypeOK, [Next]_vars, NEW s \in Sessions
    PROVE  /\ buff'[s].ids \subseteq buff[s].ids \cup table[s]
           /\ todo'[s] \subseteq todo[s] \cup buff'[s].ids
           /\ table'[s] \subseteq table[s] \cup Registered
  <1>1. CASE UNCHANGED <<buff, todo, table>> BY <1>1
  <1>2. ASSUME NEW q \in Sessions, Dispatch(q)
        PROVE  /\ buff'[s].ids \subseteq buff[s].ids \cup table[s]
               /\ todo'[s] \subseteq todo[s] \cup buff'[s].ids
               /\ table'[s] \subseteq table[s] \cup Registered
    <2>1. PICK m \in ClientMessages(q) \cup {buff[q]} :
              \/ RegisterQuery(q, m) \/ LoginQuery(q, m) \/ AdminLoginQuery(q, m)
              \/ ResetQuery(q, m) \/ UnfreezeQuery(q, m) \/ UpdateQuery(q, m)
              \/ GetRequest(q, m) \/ ProcessBegin(q, m)
      BY <1>2 DEF Dispatch
    <2>2. buff' = [buff EXCEPT ![q] = m]
      BY <2>1 DEF RegisterQuery, LoginQuery, AdminLoginQuery, ResetQuery,
                  UnfreezeQuery, UpdateQuery, GetRequest, ProcessBegin, Receive
    <2>3. m.ids \subseteq buff[q].ids \cup table[q] BY MessageIds
    <2>4. buff'[s].ids \subseteq buff[s].ids \cup table[s]
      <3>1. CASE s = q BY <2>2, <2>3, <3>1 DEF TypeOK
      <3>2. CASE s # q BY <2>2, <3>2 DEF TypeOK
      <3> QED BY <3>1, <3>2
    <2>5. todo' = todo \/ (ProcessBegin(q, m) /\ todo' = [todo EXCEPT ![q] = m.ids])
      BY <2>1 DEF RegisterQuery, LoginQuery, AdminLoginQuery, ResetQuery,
                  UnfreezeQuery, UpdateQuery, GetRequest, ProcessBegin
    <2>6. todo'[s] \subseteq todo[s] \cup buff'[s].ids
      BY <2>2, <2>5 DEF TypeOK
    <2>7. \/ table' = table
          \/ table' = [table EXCEPT ![q] = Requests(m.type)]
      BY <2>1 DEF RegisterQuery, LoginQuery, AdminLoginQuery, ResetQuery,
                  UnfreezeQuery, UpdateQuery, GetRequest, ProcessBegin
    <2>8. Requests(m.type) \subseteq Registered BY DEF Requests, Registered
    <2>9. table'[s] \subseteq table[s] \cup Registered BY <2>7, <2>8 DEF TypeOK
    <2> QED BY <2>4, <2>6, <2>9
  <1>3. ASSUME NEW q \in Sessions, ClientAnswer(q) PROVE UNCHANGED <<buff, todo, table>>
    BY <1>3 DEF ClientAnswer, RegisterAdd, UpdateRepeat, UpdateAccept, LoginWrong,
                LoginRight, AdminLoginWrong, AdminLoginRight
  <1>4. ASSUME NEW q \in Sessions, HandlerStep(q)
        PROVE  /\ UNCHANGED <<buff, table>>
               /\ todo' = todo \/ \E u : todo' = [todo EXCEPT ![q] = @ \ {u}]
    BY <1>4 DEF HandlerStep, LoginWrite, AdminLoginWrite, ResetSet, UnfreezeSet,
                FlagSet, UpdatePast, UpdateInsert, UpdateTime, UpdateChain,
                ProcessOne, PassInsert, PassReset, ProcessEnd
  <1>5. ASSUME NEW q \in Sessions, HandlerStep(q)
        PROVE  todo'[s] \subseteq todo[s] \cup buff'[s].ids
    <2>1. CASE todo' = todo BY <2>1
    <2>2. ASSUME NEW u, todo' = [todo EXCEPT ![q] = @ \ {u}]
          PROVE  todo'[s] \subseteq todo[s]
      BY <2>2 DEF TypeOK
    <2> QED BY <1>4, <1>5, <2>1, <2>2
  <1>6. ASSUME NEW ss, Forget(ss)
        PROVE  /\ buff'[s].ids \subseteq buff[s].ids \cup table[s]
               /\ todo'[s] \subseteq todo[s] \cup buff'[s].ids
               /\ table'[s] \subseteq table[s] \cup Registered
    BY <1>6 DEF Forget, NoMsg
  <1>7. ASSUME NEW q \in Sessions, ConnectionStep(q)
        PROVE  UNCHANGED <<buff, todo, table>> \/ \E ss : Forget(ss)
    BY <1>7 DEF ConnectionStep, Accept, Logout, Drop, ReceiveError, ParseFailure,
                ServerDies
  <1>8. CASE Crash BY <1>6, <1>8 DEF Crash, ServerDies
  <1>9. CASE Tick \/ UNCHANGED vars BY <1>1, <1>9 DEF Tick, vars, sessionVars
  <1> QED BY <1>1, <1>2, <1>3, <1>4, <1>5, <1>6, <1>7, <1>8, <1>9 DEF Next

LEMMA BatchKnownStep ==
    ASSUME IInv, [Next]_vars, NEW s \in Sessions, BatchKnown(s)
    PROVE  BatchKnown(s)'
  <1>1. Registered \subseteq Registered' BY RegisteredStays
  <1>2. TypeOK BY DEF IInv
  <1> QED BY <1>1, <1>2, BatchSources DEF BatchKnown

\* The history holds the password the account has.
Remembered(u) ==
    \E i \in DOMAIN password[u] : password[u][i].iter.pw = account[u].cred.iter.pw

\* A handler that is about to replace a password has moved it into the history.
OwnRemembered(s) ==
    /\ pc[s] \in {"updateTime", "updateChain"} => Remembered(userId[s])
    /\ pc[s] = "passReset" => Remembered(local[s].cur)

Replacing == {"updateTime", "updateChain", "passReset"}

LEMMA InsertRemembers ==
    ASSUME TypeOK, NEW u \in Users, account[u] # NoRow, InsertPast(u),
           account' = account
    PROVE  Remembered(u)'
  <1> DEFINE h == password[u]
             c == account[u].cred
  <1>1. password'[u] = Append(h, c) BY DEF InsertPast, TypeOK
  <1>2. h \in Seq(Credential) /\ c \in Credential BY DEF TypeOK, Row
  <1> HIDE DEF h
  <1>3. Len(h) + 1 \in DOMAIN Append(h, c) /\ Append(h, c)[Len(h) + 1] = c
    BY <1>2
  <1> QED BY <1>1, <1>3 DEF Remembered

LEMMA HandlerRemembered ==
    ASSUME IInv, NEW s \in Sessions, OwnRemembered(s), BatchKnown(s), HandlerStep(s)
    PROVE  OwnRemembered(s)'
  <1>1. TypeOK BY DEF IInv
  <1>2. CASE UpdateInsert(s)
    <2>1. userId[s] \in Users /\ account[userId[s]] # NoRow
      BY <1>2 DEF IInv, HandlerKnows, Identity, Updating, UpdateInsert
    <2>2. /\ pc'[s] = "updateTime" /\ UNCHANGED <<account, userId>>
          /\ InsertPast(userId[s])
      BY <1>1, <1>2 DEF UpdateInsert, Continue, TypeOK
    <2>3. Remembered(userId[s])' BY <1>1, <2>1, <2>2, InsertRemembers
    <2> QED BY <2>2, <2>3 DEF OwnRemembered
  <1>3. CASE UpdateTime(s)
    <2>1. now \in Nat /\ pc[s] = "updateTime" BY <1>1, <1>3 DEF TypeOK, UpdateTime
    <2>2. userId[s] \in Users /\ account[userId[s]] \in Row
      BY <1>1, <2>1 DEF IInv, TypeOK, Identity, HandlerKnows, Updating
    <2> DEFINE u   == userId[s]
               new == [account[u] EXCEPT !.update = Date(now)]
    <2>3. /\ new \in RowBefore /\ new.block = account[u].block
          /\ new.cred = account[u].cred
      BY <2>1, <2>2, DateType, SetUpdateType
    <2>4. /\ UpdateAccount(u, new)
          /\ pc'[s] = "updateChain" /\ UNCHANGED <<password, userId>>
      BY <1>1, <1>3 DEF UpdateTime, Continue, TypeOK
    <2> HIDE DEF new
    <2>5. account'[u].cred = account[u].cred
      BY <1>1, <2>2, <2>3, <2>4, DataAssumption, UpdateRow DEF DataAssumption
    <2> QED BY <2>1, <2>4, <2>5 DEF OwnRemembered, Remembered
  <1>4. ASSUME NEW u \in Users, PassInsert(s, u) PROVE OwnRemembered(s)'
    <2>1. account[u] # NoRow BY <1>4 DEF PassInsert, BatchKnown, Registered
    <2> DEFINE l == [NoLocal EXCEPT !.cur = u]
    <2>2. /\ pc'[s] = "passReset" /\ local'[s] = l
          /\ account' = account /\ InsertPast(u)
      BY <1>1, <1>4 DEF PassInsert, Continue, TypeOK
    <2>3. l.cur = u BY DEF NoLocal
    <2> HIDE DEF l
    <2>4. Remembered(u)' BY <1>1, <2>1, <2>2, InsertRemembers
    <2> QED BY <2>2, <2>3, <2>4 DEF OwnRemembered
  <1>5. ASSUME NEW u \in Users, ProcessOne(s, u) PROVE OwnRemembered(s)'
    BY <1>5 DEF ProcessOne, OwnRemembered
  <1>6. CASE \/ LoginWrite(s) \/ AdminLoginWrite(s) \/ ResetSet(s) \/ UnfreezeSet(s)
             \/ UpdatePast(s) \/ UpdateChain(s) \/ PassReset(s) \/ ProcessEnd(s)
    <2>1. \/ \E signal : Return(s, signal)
          \/ \E label \in {"updateWait", "process"} :
                \E signal, l : Continue(s, label, signal, l)
      BY <1>6 DEF LoginWrite, AdminLoginWrite, ResetSet, UnfreezeSet, FlagSet,
                  UpdatePast, UpdateChain, PassReset, ProcessEnd
    <2>2. pc'[s] \notin Replacing
      BY <1>1, <2>1 DEF Return, Continue, TypeOK, Replacing
    <2> QED BY <2>2 DEF OwnRemembered, Replacing
  <1> QED BY <1>2, <1>3, <1>4, <1>5, <1>6 DEF HandlerStep

\* A handler gets there from the insert only.
LEMMA OtherStepsRemembered ==
    ASSUME IInv, NEW s \in Sessions, Dispatch(s) \/ ClientAnswer(s)
    PROVE  OwnRemembered(s)'
  <1>1. TypeOK BY DEF IInv
  <1>2. CASE Dispatch(s)
    <2>1. \/ \E signal : Return(s, signal)
          \/ \E label \in {"registerWait", "loginWait", "adminWait", "resetSet",
                           "unfreezeSet", "updatePast", "process"} :
                \E signal, l : Continue(s, label, signal, l)
      BY <1>2 DEF Dispatch, RegisterQuery, LoginQuery, AdminLoginQuery, ResetQuery,
                  UnfreezeQuery, UpdateQuery, GetRequest, ProcessBegin, Challenge
    <2> QED BY <1>1, <2>1 DEF Return, Continue, TypeOK, OwnRemembered
  <1>3. CASE ClientAnswer(s)
    <2>1. \/ \E signal : Return(s, signal)
          \/ \E label \in {"updateInsert", "loginWrite", "adminWrite"} :
                \E signal, l : Continue(s, label, signal, l)
      BY <1>3 DEF ClientAnswer, RegisterAdd, UpdateRepeat, UpdateAccept, LoginWrong,
                  LoginRight, AdminLoginWrong, AdminLoginRight
    <2> QED BY <1>1, <2>1 DEF Return, Continue, TypeOK, OwnRemembered
  <1> QED BY <1>2, <1>3

LEMMA ApartRemembered ==
    ASSUME IInv, Apart, [Next]_vars, NEW s \in Sessions, BatchKnown(s), OwnRemembered(s)
    PROVE  OwnRemembered(s)'
  <1>1. CASE Dispatch(s) \/ ClientAnswer(s) \/ HandlerStep(s)
    BY <1>1, OtherStepsRemembered, HandlerRemembered
  <1>2. CASE pc'[s] \notin Replacing BY <1>2 DEF Replacing, OwnRemembered
  <1>3. ASSUME Kept(s), pc[s] \in Replacing,
               NEW u \in Users, u \in WorksOn(s), account[u] # NoRow, Remembered(u)
        PROVE  Remembered(u)'
    <2>1. pc'[s] = pc[s] BY <1>3 DEF Kept
    <2>2. account'[u].cred = account[u].cred BY <1>3, <2>1, ApartRow
    <2>3. password'[u] = password[u] BY <1>3, <2>1, ApartHistory
    <2> QED BY <1>3, <2>2, <2>3 DEF Remembered
  <1>4. CASE Kept(s) /\ pc[s] \in {"updateTime", "updateChain"}
    <2>1. PICK u \in Users : u = userId[s] /\ account[u] # NoRow
      BY <1>4 DEF IInv, HandlerKnows, Identity, Updating
    <2>2. u \in WorksOn(s) BY <1>4, <2>1 DEF WorksOn
    <2>3. Remembered(u) BY <1>4, <2>1 DEF OwnRemembered
    <2>4. Remembered(u)' BY <1>3, <1>4, <2>1, <2>2, <2>3 DEF Replacing
    <2>5. userId'[s] = u /\ pc'[s] = pc[s] BY <1>4, <2>1 DEF Kept
    <2> QED BY <1>4, <2>4, <2>5 DEF OwnRemembered
  <1>5. CASE Kept(s) /\ pc[s] = "passReset"
    <2>1. local[s].cur \in todo[s] BY <1>5 DEF IInv, HandlerKnows
    <2>2. PICK u \in Users : u = local[s].cur /\ account[u] # NoRow
      BY <2>1 DEF BatchKnown, Registered
    <2>3. u \in WorksOn(s) BY <1>5, <2>1, <2>2 DEF WorksOn
    <2>4. Remembered(u) BY <1>5, <2>2 DEF OwnRemembered
    <2>5. Remembered(u)' BY <1>3, <1>5, <2>2, <2>3, <2>4 DEF Replacing
    <2>6. local'[s].cur = u /\ pc'[s] = pc[s] BY <1>5, <2>2 DEF Kept
    <2> QED BY <1>5, <2>5, <2>6 DEF OwnRemembered
  <1>6. Kept(s) => pc'[s] = pc[s] BY DEF Kept
  <1>7. {"idle", "closed"} \cap Replacing = {} BY DEF Replacing
  <1> QED BY <1>1, <1>2, <1>4, <1>5, <1>6, <1>7, OwnOrKept DEF Replacing

AllRemembered == \A s \in Sessions : BatchKnown(s) /\ OwnRemembered(s)

\* As long as clients keep apart, a password an account has given up is in its
\* history: whoever compares with the history finds it.  (A grant that comes
\* between the insert of a change and its last statement gives the account a
\* password the change then replaces without a trace.)
THEOREM ApartRetired == Spec /\ []Apart => RetiredIsRemembered
  <1>1. Init => AllRemembered
    BY DEF Init, AllRemembered, BatchKnown, OwnRemembered, NoMsg
  <1>2. IInv /\ Apart /\ AllRemembered /\ [Next]_vars => AllRemembered'
    BY BatchKnownStep, ApartRemembered DEF AllRemembered
  <1>3. ASSUME IInv, AllRemembered, [Next]_vars, NEW u \in Users, account[u] # NoRow,
               account'[u].cred.iter.pw # account[u].cred.iter.pw
        PROVE  Remembered(u) \/ \E s \in Sessions : StaleLogin(s, u)
    <2>1. \E s \in Sessions : \/ ChangedByOwner(s, u) \/ ChangedByGrant(s, u)
                              \/ StaleLogin(s, u)
      BY <1>3, PasswordStep
    <2> QED BY <1>3, <2>1 DEF AllRemembered, OwnRemembered, ChangedByOwner, ChangedByGrant
  <1>4. IInv /\ AllRemembered /\ [Next]_vars
            => [\A u \in Users :
                   account[u] # NoRow /\ account'[u].cred.iter.pw # account[u].cred.iter.pw
                       => \/ \E i \in DOMAIN password[u] :
                                password[u][i].iter.pw = account[u].cred.iter.pw
                          \/ \E s \in Sessions : StaleLogin(s, u)]_vars
    BY <1>3 DEF Remembered
  <1> QED BY <1>1, <1>2, <1>4, Invariance, PTL DEF Spec, RetiredIsRemembered

-----------------------------------------------------------------------------
(* Steps of the server as steps of the promise.                            *)

\* An update that keeps the credential of every row.
CredentialsKept ==
    \A u \in Users : /\ account'[u] = NoRow <=> account[u] = NoRow
                     /\ account[u] # NoRow => account'[u].cred = account[u].cred

Stutter == UNCHANGED <<opens, left, auth, owes>>

LEMMA KeptStutters ==
    ASSUME CredentialsKept, UNCHANGED userId,
           \A r \in Sessions : pc'[r] = "loginWrite" <=> pc[r] = "loginWrite"
    PROVE  Stutter
  BY DEF CredentialsKept, Stutter, opens, left, auth, owes, Opens, Left

\* A step that gives one account a credential in sync.
LEMMA OneRow ==
    ASSUME TypeOK', UsersInSync', NEW u \in Users, account'[u] # NoRow,
           \A v \in Users : v # u => account'[v] = account[v]
    PROVE  /\ opens' = [opens EXCEPT ![u] = {account'[u].cred.iter.pw}]
           /\ left' = [left EXCEPT ![u] = account'[u].cred.chal]
  <1>1. account'[u] \in Row /\ InSync(account'[u].cred)
    BY DEF TypeOK, UsersInSync, AccountInSync
  <1>2. Opens(account'[u]) = {account'[u].cred.iter.pw} BY <1>1, OpensToOne
  <1>3. Left(account'[u]) = account'[u].cred.chal BY DEF Left
  <1> QED BY <1>2, <1>3 DEF opens, left

\* What opens and left show of a registered account in sync.
LEMMA RowOpen ==
    ASSUME TypeOK, UsersInSync, NEW u \in Users, account[u] # NoRow
    PROVE  /\ opens[u] = {account[u].cred.iter.pw}
           /\ left[u] = account[u].cred.chal
           /\ left[u] \in Int /\ left[u] >= 1
  <1>1. account[u] \in Row /\ InSync(account[u].cred) /\ account[u].cred.chal \in Int
    BY DEF TypeOK, Row, Credential, UsersInSync, AccountInSync
  <1> QED BY <1>1, OpensToOne DEF opens, left, Left, InSync

\* An update through the trigger that keeps the credential.
LEMMA UpdateKept ==
    ASSUME IInv, NEW u \in Users, NEW new, UpdateAccount(u, new),
           account[u] # NoRow => /\ new \in RowBefore
                                 /\ new.block = account[u].block
                                 /\ new.cred = account[u].cred
    PROVE  CredentialsKept
  BY UpdateRow DEF CredentialsKept

LEMMA RegisterAddRefines ==
    ASSUME IInv, TypeOK', UsersInSync', NEW s \in Sessions, NEW pw \in Passwords,
           RegisterAdd(s, pw)
    PROVE  OTP!Next \/ Stutter
  <1>1. TypeOK /\ pc[s] = "registerWait" BY DEF IInv, RegisterAdd
  <1>2. buff[s].id \in Users BY <1>1 DEF IInv, Identity, HandlerKnows, AccountOps
  <1> DEFINE u    == buff[s].id
             rnd  == local[s].newRnd
             iter == PasswdToMD5(pw, rnd, DefaultChallenge + 1)
             row  == AddUser(rnd, iter, DefaultChallenge, now)
  <1>3. userId' = userId /\ \A r \in Sessions : pc'[r] = "loginWrite" <=> pc[r] = "loginWrite"
    BY <1>1 DEF RegisterAdd, Return, TypeOK
  <1>4. CASE account' = account BY <1>3, <1>4, KeptStutters DEF CredentialsKept
  <1>5. CASE account[u] = NoRow /\ account' = [account EXCEPT ![u] = row]
    <2>1. /\ account'[u] = row
          /\ \A v \in Users : v # u => account'[v] = account[v]
      BY <1>1, <1>2, <1>5 DEF TypeOK
    <2>2. row.cred.iter.pw = pw /\ row.cred.chal = DefaultChallenge
      BY DEF AddUser, PasswdToMD5
    <2>3. account'[u] # NoRow
      <3>1. rnd \in Randoms /\ now \in Nat BY <1>1 DEF TypeOK, Local
      <3>2. iter \in Value
        BY <3>1, DataAssumption, PasswdToMD5Type DEF DataAssumption, AllPasswords
      <3> HIDE DEF iter, rnd
      <3>3. row \in Row BY <3>1, <3>2, DataAssumption, AddUserType DEF DataAssumption
      <3> QED BY <2>1, <3>3, DataAssumption DEF DataAssumption
    <2> HIDE DEF row
    <2>4. /\ opens' = [opens EXCEPT ![u] = {pw}]
          /\ left' = [left EXCEPT ![u] = DefaultChallenge]
      BY <1>2, <2>1, <2>2, <2>3, OneRow
    <2>5. opens[u] = {} BY <1>2, <1>5 DEF opens, Opens
    <2>6. auth' = auth /\ owes' = owes BY <1>3 DEF auth, owes
    <2> QED BY <1>2, <2>4, <2>5, <2>6 DEF OTP!Next, OTP!Register, OTP!FullChain
  <1> QED BY <1>4, <1>5 DEF RegisterAdd

\* Only a password that opens the account gets an answer accepted.
LEMMA LoginRightRefines ==
    ASSUME IInv, UsersInSync, NEW s \in Sessions, OwnSession(s), NEW pw \in AllPasswords,
           LoginRight(s, pw)
    PROVE  OTP!Next
  <1>1. TypeOK /\ pc[s] = "loginWait" BY DEF IInv, LoginRight
  <1>2. buff[s].op = "C_LOGIN" /\ account[buff[s].id] # NoRow
    BY <1>1 DEF IInv, HandlerKnows
  <1>3. buff[s].id \in Users BY <1>2 DEF IInv, Identity, AccountOps
  <1>4. userId[s] = NoUser BY <1>1 DEF OwnSession, LoginRight
  <1>5. /\ pc' = [pc EXCEPT ![s] = "loginWrite"]
        /\ userId' = [userId EXCEPT ![s] = buff[s].id]
        /\ account' = account
    BY <1>1 DEF LoginRight, Continue, tables
  <1>6. opens[buff[s].id] # {} BY <1>1, <1>2, <1>3, RowOpen
  <1>7. auth[s] = NoUser /\ ~owes[s]
    BY <1>1, <1>4, DataAssumption DEF auth, owes, DataAssumption
  <1>8. auth' = [auth EXCEPT ![s] = buff[s].id] /\ owes' = [owes EXCEPT ![s] = TRUE]
    BY <1>1, <1>3, <1>5 DEF auth, owes, TypeOK
  <1>9. opens' = opens /\ left' = left BY <1>5 DEF opens, left
  <1> QED BY <1>3, <1>6, <1>7, <1>8, <1>9 DEF OTP!Next, OTP!Open

\* The row that session s is about to write is the one it has read, or one that
\* opens to another password than the one it installs.
Timely(s) ==
    LET u  == userId[s]
        pw == local[s].newIter.pw
    IN  /\ pc[s] = "loginWrite" => account[u].cred = local[s].cred
        /\ pc[s] = "updateChain" => pw \in Passwords /\ pw # account[u].cred.iter.pw

\* Storing the outcome of a login strikes it off.
LEMMA LoginWriteRefines ==
    ASSUME IInv, UsersInSync, TypeOK', UsersInSync', NEW s \in Sessions, Timely(s),
           LoginWrite(s)
    PROVE  OTP!Next
  <1>1. TypeOK /\ now \in Nat /\ pc[s] = "loginWrite"
    BY DEF IInv, TypeOK, LoginWrite
  <1>2. userId[s] \in Users /\ account[userId[s]] \in Row /\ account[userId[s]] # NoRow
    BY <1>1 DEF IInv, TypeOK, Identity, HandlerKnows
  <1> DEFINE u   == userId[s]
             b   == local[s].cred.chal <= 1
             new == UpdateChallengeAndRandom(account[u], local[s].newIter, b,
                                             local[s].newRnd, now)
             c   == Advanced(account[u].cred, local[s].newIter, b, local[s].newRnd)
  <1>3. /\ UpdateAccount(u, new) /\ pc'[s] = "idle" /\ userId' = userId
        /\ \A r \in Sessions : r # s => pc'[r] = pc[r]
    BY <1>1 DEF LoginWrite, Return, TypeOK
  <1>4. new \in RowBefore /\ new.block = account[u].block /\ new.cred = c
    <2>1. local[s].newIter \in Value /\ local[s].newRnd \in Randoms /\ b \in BOOLEAN
      BY <1>1 DEF TypeOK, Local
    <2> HIDE DEF b
    <2> QED BY <1>1, <1>2, <2>1, UpdateChallengeType
  <1> HIDE DEF new
  <1>5. /\ account'[u] # NoRow /\ account'[u].cred = c
        /\ \A v \in Users : v # u => account'[v] = account[v]
    BY <1>2, <1>3, <1>4, UpdateRow
  <1>6. local[s].cred = account[u].cred /\ local[s].newIter.pw = local[s].cred.iter.pw
    BY <1>1 DEF Timely, IInv, NewIterate
  <1>7. /\ opens[u] = {account[u].cred.iter.pw} /\ left[u] = account[u].cred.chal
        /\ left[u] \in Int /\ left[u] >= 1
    BY <1>1, <1>2, RowOpen
  <1>8. /\ c.iter.pw = account[u].cred.iter.pw
        /\ c.chal = IF left[u] > 1 THEN left[u] - 1 ELSE DefaultChallenge
    <2>1. account[u].cred \in Credential BY <1>2 DEF Row
    <2>2. CASE b BY <1>6, <1>7, <2>2 DEF Advanced
    <2>3. CASE ~b BY <1>6, <1>7, <2>1, <2>3 DEF Advanced, Credential
    <2> QED BY <2>2, <2>3
  <1> HIDE DEF c
  <1>9. /\ opens' = [opens EXCEPT ![u] = {c.iter.pw}]
        /\ left' = [left EXCEPT ![u] = c.chal]
    BY <1>2, <1>5, OneRow
  <1>10. opens' = opens
    BY <1>2, <1>7, <1>8, <1>9 DEF opens
  <1>11. auth[s] = u /\ auth' = auth /\ owes[s] /\ owes' = [owes EXCEPT ![s] = FALSE]
    BY <1>1, <1>2, <1>3 DEF auth, owes
  <1> QED BY <1>8, <1>9, <1>10, <1>11 DEF OTP!Next, OTP!StrikeOff

LEMMA UpdateChainRefines ==
    ASSUME IInv, UsersInSync, TypeOK', UsersInSync', NEW s \in Sessions, Timely(s),
           UpdateChain(s)
    PROVE  OTP!Next
  <1>1. TypeOK /\ now \in Nat /\ pc[s] = "updateChain"
    BY DEF IInv, TypeOK, UpdateChain
  <1>2. userId[s] \in Users /\ account[userId[s]] \in Row /\ account[userId[s]] # NoRow
    BY <1>1 DEF IInv, TypeOK, Identity, HandlerKnows, Updating
  <1> DEFINE u   == userId[s]
             pw  == local[s].newIter.pw
             new == UpdateChallengeAndRandom(account[u], local[s].newIter, TRUE,
                                             local[s].newRnd, now)
             c   == Advanced(account[u].cred, local[s].newIter, TRUE, local[s].newRnd)
  <1>3. /\ UpdateAccount(u, new) /\ pc'[s] = "idle" /\ userId' = userId
        /\ \A r \in Sessions : r # s => pc'[r] = pc[r]
    BY <1>1 DEF UpdateChain, Return, TypeOK
  <1>4. new \in RowBefore /\ new.block = account[u].block /\ new.cred = c
    <2>1. local[s].newIter \in Value /\ local[s].newRnd \in Randoms
      BY <1>1 DEF TypeOK, Local
    <2> QED BY <1>1, <1>2, <2>1, UpdateChallengeType
  <1> HIDE DEF new
  <1>5. /\ account'[u] # NoRow /\ account'[u].cred = c
        /\ \A v \in Users : v # u => account'[v] = account[v]
    BY <1>2, <1>3, <1>4, UpdateRow
  <1>6. c.iter.pw = pw /\ c.chal = DefaultChallenge BY DEF Advanced
  <1> HIDE DEF c
  <1>7. /\ opens' = [opens EXCEPT ![u] = {pw}]
        /\ left' = [left EXCEPT ![u] = DefaultChallenge]
    BY <1>2, <1>5, <1>6, OneRow
  <1>8. pw \in Passwords \ opens[u]
    BY <1>1, <1>2, RowOpen DEF Timely
  <1>9. auth[s] = u /\ auth' = auth /\ ~owes[s] /\ owes' = owes
    BY <1>1, <1>2, <1>3 DEF auth, owes
  <1> QED BY <1>2, <1>7, <1>8, <1>9 DEF OTP!Next, OTP!Change, OTP!FullChain

LEMMA PassResetRefines ==
    ASSUME IInv, UsersInSync, TypeOK', UsersInSync', NEW s \in Sessions, PassReset(s)
    PROVE  OTP!Next \/ Stutter
  <1>1. TypeOK /\ now \in Nat /\ pc[s] = "passReset"
    BY DEF IInv, TypeOK, PassReset
  <1>2. local[s].cur \in Users
    BY <1>1 DEF IInv, TypeOK, HandlerKnows
  <1> DEFINE u   == local[s].cur
             new == ResetToDefault(account[u])
  <1>3. account[u] # NoRow => /\ new \in RowBefore /\ new.block = account[u].block
                              /\ new.cred = DefaultCredential
    BY <1>1, <1>2, ResetType DEF TypeOK
  <1>4. /\ UpdateAccount(u, new) /\ userId' = userId
        /\ \A r \in Sessions : pc'[r] = "loginWrite" <=> pc[r] = "loginWrite"
    BY <1>1 DEF PassReset, Continue, TypeOK
  <1> HIDE DEF new
  <1>5. CASE account[u] = NoRow
    BY <1>2, <1>4, <1>5, UpdateKept, KeptStutters
  <1>6. CASE account[u] # NoRow
    <2>1. /\ account'[u] # NoRow /\ account'[u].cred = DefaultCredential
          /\ \A v \in Users : v # u => account'[v] = account[v]
      BY <1>2, <1>3, <1>4, <1>6, UpdateRow
    <2>2. DefaultCredential.iter.pw = DefaultPassword /\ DefaultCredential.chal = 1
      BY DEF DefaultCredential, PasswdToMD5
    <2>3. /\ opens' = [opens EXCEPT ![u] = {DefaultPassword}]
          /\ left' = [left EXCEPT ![u] = 1]
      BY <1>2, <2>1, <2>2, OneRow
    <2>4. opens[u] # {} BY <1>1, <1>2, <1>6, RowOpen
    <2>5. auth' = auth /\ owes' = owes BY <1>4 DEF auth, owes
    <2> QED BY <1>2, <2>3, <2>4, <2>5 DEF OTP!Next, OTP!Grant
  <1> QED BY <1>5, <1>6

\* The statements that leave every credential as it is.
LEMMA FlagSetKept ==
    ASSUME IInv, NEW s \in Sessions, NEW label \in {"resetSet", "unfreezeSet"},
           NEW column \in Flags, FlagSet(s, label, column)
    PROVE  CredentialsKept
  <1>1. TypeOK /\ pc[s] = label BY DEF IInv, FlagSet
  <1>2. buff[s].id \in Users BY <1>1 DEF IInv, Identity, HandlerKnows
  <1>3. account[buff[s].id] \in Row \cup {NoRow} BY <1>1, <1>2 DEF TypeOK
  <1> QED BY <1>2, <1>3, SetFlagType, UpdateKept DEF FlagSet

LEMMA LoginWrongKept ==
    ASSUME IInv, NEW s \in Sessions, NEW pw, LoginWrong(s, pw)
    PROVE  CredentialsKept
  <1>1. TypeOK /\ now \in Nat /\ pc[s] = "loginWait"
    BY DEF IInv, TypeOK, LoginWrong
  <1>2. buff[s].id \in Users BY <1>1 DEF IInv, Identity, HandlerKnows, AccountOps
  <1>3. local[s].first \in BOOLEAN /\ account[buff[s].id] \in Row \cup {NoRow}
    BY <1>1, <1>2 DEF TypeOK, Local
  <1> QED BY <1>1, <1>2, <1>3, LoginFailedType, UpdateKept DEF LoginWrong

LEMMA UpdateTimeKept ==
    ASSUME IInv, NEW s \in Sessions, UpdateTime(s)
    PROVE  CredentialsKept
  <1>1. TypeOK /\ now \in Nat /\ pc[s] = "updateTime"
    BY DEF IInv, TypeOK, UpdateTime
  <1>2. userId[s] \in Users /\ account[userId[s]] \in Row
    BY <1>1 DEF IInv, TypeOK, Identity, HandlerKnows, Updating
  <1> QED BY <1>1, <1>2, DateType, SetUpdateType, UpdateKept DEF UpdateTime

LEMMA ProcessOneKept ==
    ASSUME IInv, NEW s \in Sessions, NEW u \in Users, ProcessOne(s, u)
    PROVE  CredentialsKept
  <1>1. TypeOK /\ now \in Nat /\ account[u] \in Row \cup {NoRow}
    BY DEF IInv, TypeOK
  <1> QED BY <1>1, ProcessType, UpdateKept DEF ProcessOne

-----------------------------------------------------------------------------
(* Every step refines.                                                     *)

LEMMA DispatchRefines ==
    ASSUME NEW s \in Sessions, IInv, Dispatch(s)
    PROVE  Stutter
  <1>1. TypeOK BY DEF IInv
  <1>2. PICK m \in ClientMessages(s) \cup {buff[s]} :
            \/ RegisterQuery(s, m) \/ LoginQuery(s, m) \/ AdminLoginQuery(s, m)
            \/ ResetQuery(s, m) \/ UnfreezeQuery(s, m) \/ UpdateQuery(s, m)
            \/ GetRequest(s, m) \/ ProcessBegin(s, m)
    BY DEF Dispatch
  <1>3. account' = account /\ userId' = userId /\ pc[s] = "idle"
    BY <1>2 DEF Receive, RegisterQuery, LoginQuery, AdminLoginQuery, ResetQuery,
                UnfreezeQuery, UpdateQuery, GetRequest, ProcessBegin, tables
  <1>4. \/ \E signal : Return(s, signal)
        \/ \E label \in {"registerWait", "loginWait", "adminWait", "resetSet",
                         "unfreezeSet", "updatePast", "process"} :
              \E signal, l : Continue(s, label, signal, l)
    BY <1>2 DEF RegisterQuery, LoginQuery, AdminLoginQuery, ResetQuery, UnfreezeQuery,
                UpdateQuery, GetRequest, ProcessBegin, Challenge
  <1>5. \A r \in Sessions : pc'[r] = "loginWrite" <=> pc[r] = "loginWrite"
    BY <1>1, <1>3, <1>4 DEF Return, Continue, TypeOK
  <1> QED BY <1>3, <1>5, KeptStutters DEF CredentialsKept

LEMMA AnswerRefines ==
    ASSUME IInv, UsersInSync, TypeOK', UsersInSync', NEW s \in Sessions, OwnSession(s),
           ClientAnswer(s)
    PROVE  OTP!Next \/ Stutter
  <1>1. IInv /\ TypeOK BY DEF IInv
  <1>2. CASE \E pw \in Passwords : RegisterAdd(s, pw)
    BY <1>1, <1>2, RegisterAddRefines
  <1>3. CASE \E pw \in AllPasswords : LoginRight(s, pw) BY <1>3, LoginRightRefines
  <1>4. CASE \E pw \in AllPasswords : LoginWrong(s, pw)
    <2>1. CredentialsKept BY <1>1, <1>4, LoginWrongKept
    <2>2. userId' = userId /\ \A r \in Sessions : pc'[r] = "loginWrite" <=> pc[r] = "loginWrite"
      BY <1>1, <1>4 DEF LoginWrong, Return, TypeOK
    <2> QED BY <2>1, <2>2, KeptStutters
  <1>5. CASE \E pw \in AllPasswords : AdminLoginRight(s, pw)
    <2>1. /\ pc[s] = "adminWait" /\ conn[s] /\ account' = account
          /\ userId' = [userId EXCEPT ![s] = buff[s].id]
          /\ pc' = [pc EXCEPT ![s] = "adminWrite"]
      BY <1>5 DEF AdminLoginRight, Continue, tables
    <2>2. userId[s] = NoUser BY <2>1 DEF OwnSession
    <2>3. buff[s].id \in Admins BY <1>1, <2>1 DEF IInv, HandlerKnows
    <2>4. NoUser \notin Users /\ buff[s].id \notin Users
      BY <2>3, DataAssumption, ServerAssumption DEF DataAssumption, ServerAssumption
    <2> QED BY <1>1, <2>1, <2>2, <2>4 DEF Stutter, opens, left, auth, owes, TypeOK
  <1>6. CASE \/ \E pw \in Passwords : UpdateRepeat(s, pw) \/ UpdateAccept(s, pw)
             \/ \E pw \in AllPasswords : AdminLoginWrong(s, pw)
    <2>1. account' = account /\ userId' = userId /\ pc[s] # "loginWrite"
      BY <1>6 DEF UpdateRepeat, UpdateAccept, AdminLoginWrong, tables
    <2>2. \/ \E signal : Return(s, signal)
          \/ \E signal, l : Continue(s, "updateInsert", signal, l)
      BY <1>6 DEF UpdateRepeat, UpdateAccept, AdminLoginWrong
    <2>3. \A r \in Sessions : pc'[r] = "loginWrite" <=> pc[r] = "loginWrite"
      BY <1>1, <2>1, <2>2 DEF Return, Continue, TypeOK
    <2> QED BY <2>1, <2>3, KeptStutters DEF CredentialsKept
  <1> QED BY <1>2, <1>3, <1>4, <1>5, <1>6 DEF ClientAnswer

LEMMA HandlerRefines ==
    ASSUME IInv, UsersInSync, TypeOK', UsersInSync', NEW s \in Sessions, Timely(s),
           HandlerStep(s)
    PROVE  OTP!Next \/ Stutter
  <1>1. IInv /\ TypeOK BY DEF IInv
  <1>2. CASE LoginWrite(s) BY <1>2, LoginWriteRefines
  <1>3. CASE UpdateChain(s) BY <1>3, UpdateChainRefines
  <1>4. CASE PassReset(s) BY <1>4, PassResetRefines
  <1>5. CASE \/ AdminLoginWrite(s) \/ ResetSet(s) \/ UnfreezeSet(s) \/ UpdatePast(s)
             \/ UpdateInsert(s) \/ UpdateTime(s) \/ ProcessEnd(s)
             \/ \E u \in Users : PassInsert(s, u) \/ ProcessOne(s, u)
    <2>1. CredentialsKept
      <3>1. CASE ResetSet(s) \/ UnfreezeSet(s)
        BY <1>1, <3>1, FlagSetKept DEF ResetSet, UnfreezeSet, Flags
      <3>2. CASE UpdateTime(s) BY <1>1, <3>2, UpdateTimeKept
      <3>3. CASE \E u \in Users : ProcessOne(s, u) BY <1>1, <3>3, ProcessOneKept
      <3>4. CASE \/ AdminLoginWrite(s) \/ UpdatePast(s) \/ UpdateInsert(s) \/ ProcessEnd(s)
                 \/ \E u \in Users : PassInsert(s, u)
        <4>1. account' = account
          BY <3>4 DEF AdminLoginWrite, UpdatePast, UpdateInsert, ProcessEnd, PassInsert, tables
        <4> QED BY <4>1 DEF CredentialsKept
      <3> QED BY <1>5, <3>1, <3>2, <3>3, <3>4
    <2>2. userId' = userId /\ pc[s] # "loginWrite"
      BY <1>5 DEF AdminLoginWrite, ResetSet, UnfreezeSet, FlagSet, UpdatePast,
                  UpdateInsert, UpdateTime, ProcessEnd, PassInsert, ProcessOne, tables
    <2>3. \/ pc' = pc
          \/ \E signal : Return(s, signal)
          \/ \E label \in {"updateWait", "updateTime", "updateChain", "passReset"} :
                \E signal, l : Continue(s, label, signal, l)
      BY <1>5 DEF AdminLoginWrite, ResetSet, UnfreezeSet, FlagSet, UpdatePast,
                  UpdateInsert, UpdateTime, ProcessEnd, PassInsert, ProcessOne, tables
    <2>4. \A r \in Sessions : pc'[r] = "loginWrite" <=> pc[r] = "loginWrite"
      BY <1>1, <2>2, <2>3 DEF Return, Continue, TypeOK
    <2> QED BY <2>1, <2>2, <2>4, KeptStutters
  <1> QED BY <1>2, <1>3, <1>4, <1>5 DEF HandlerStep

\* A connection that ends, or a server that dies, leaves the accounts alone.
LEMMA ForgetRefines ==
    ASSUME IInv, NEW ss \in SUBSET Sessions, Forget(ss), account' = account
    PROVE  OTP!Next
  <1>1. NoUser \notin Users BY DataAssumption DEF DataAssumption
  <1>2. opens' = opens /\ left' = left BY DEF opens, left
  <1>3. auth' = [s \in Sessions |-> IF s \in ss THEN NoUser ELSE auth[s]]
    BY <1>1 DEF Forget, auth
  <1>4. owes' = [s \in Sessions |-> IF s \in ss THEN FALSE ELSE owes[s]]
    BY DEF Forget, owes
  <1> QED BY <1>2, <1>3, <1>4 DEF OTP!Next, OTP!Leave

LEMMA NextRefines ==
    ASSUME IInv, UsersInSync, TypeOK', UsersInSync', [Next]_vars,
           \A s \in Sessions : OwnSession(s) /\ (pc'[s] = "idle" => Timely(s))
    PROVE  OTP!Next \/ Stutter
  <1>1. TypeOK BY DEF IInv
  <1>2. ASSUME NEW s \in Sessions, Dispatch(s) PROVE OTP!Next \/ Stutter
    BY <1>2, DispatchRefines
  <1>3. ASSUME NEW s \in Sessions, ClientAnswer(s) PROVE OTP!Next \/ Stutter
    BY <1>3, AnswerRefines
  <1>4. ASSUME NEW s \in Sessions, HandlerStep(s) PROVE OTP!Next \/ Stutter
    <2>1. CASE LoginWrite(s) \/ UpdateChain(s)
      <3>1. pc'[s] = "idle" BY <1>1, <2>1 DEF LoginWrite, UpdateChain, Return, TypeOK
      <3> QED BY <1>4, <3>1, HandlerRefines
    <2>2. CASE ~LoginWrite(s) /\ ~UpdateChain(s)
      <3>1. pc[s] \notin {"loginWrite", "updateChain"}
        BY <1>4, <2>2 DEF HandlerStep, AdminLoginWrite, ResetSet, UnfreezeSet, FlagSet,
                          UpdatePast, UpdateInsert, UpdateTime, ProcessOne, PassInsert, PassReset,
                          ProcessEnd
      <3> QED BY <1>4, <3>1, HandlerRefines DEF Timely
    <2> QED BY <2>1, <2>2
  <1>5. ASSUME NEW s \in Sessions, Logout(s) PROVE OTP!Next
    <2>1. Forget({s}) /\ account' = account BY <1>5 DEF Logout, tables
    <2> QED BY <2>1, ForgetRefines
  <1>6. CASE Crash \/ \E s \in Sessions : ParseFailure(s)
    <2>1. Forget(Sessions) /\ account' = account
      BY <1>6 DEF ParseFailure, Crash, ServerDies, tables
    <2> QED BY <2>1, ForgetRefines
  <1>7. CASE \/ Tick \/ UNCHANGED vars
             \/ \E s \in Sessions : Accept(s) \/ Drop(s) \/ ReceiveError(s)
    <2>1. account' = account /\ userId' = userId
      BY <1>7 DEF Accept, Drop, ReceiveError, Tick, vars, tables, sessionVars
    <2>2. \A r \in Sessions : pc'[r] = "loginWrite" <=> pc[r] = "loginWrite"
      BY <1>1, <1>7 DEF Accept, Drop, ReceiveError, Return, Waiting, Tick, vars,
                        sessionVars, TypeOK
    <2> QED BY <2>1, <2>2, KeptStutters DEF CredentialsKept
  <1> QED BY <1>2, <1>3, <1>4, <1>5, <1>6, <1>7 DEF Next, ConnectionStep

\* Whoever writes back over the row it has read is timely.
LEMMA FreshIsTimely ==
    ASSUME IInv, UsersInSync, NEW s \in Sessions, OwnSession(s), pc'[s] = "idle", ~StaleWrite
    PROVE  Timely(s)
  <1>1. TypeOK BY DEF IInv
  <1>2. CASE pc[s] = "loginWrite"
    <2>1. userId[s] \in Users /\ account[userId[s]] # NoRow
      BY <1>2 DEF IInv, HandlerKnows, Identity
    <2>2. account[userId[s]].cred = local[s].cred
      BY <1>2, <2>1 DEF StaleWrite, StaleLogin
    <2> QED BY <1>2, <2>2 DEF Timely
  <1>3. CASE pc[s] = "updateChain"
    <2> DEFINE c == account[userId[s]].cred
               pw == local[s].newIter.pw
    <2>1. userId[s] \in Users /\ account[userId[s]] # NoRow
      BY <1>3 DEF IInv, HandlerKnows, Identity, Updating
    <2>2. c \in Credential /\ InSync(c)
      BY <1>1, <2>1 DEF TypeOK, Row, UsersInSync, AccountInSync
    <2>3. local[s].cred = c BY <1>3 DEF StaleWrite, StaleChange
    <2>4. pw \in Passwords /\ ~Repeats(pw, c)
      BY <1>3, <2>3 DEF OwnSession, Installing
    <2>5. pw # c.iter.pw BY <2>2, <2>4, SyncRepeats
    <2> QED BY <1>3, <2>4, <2>5 DEF Timely
  <1> QED BY <1>2, <1>3 DEF Timely

\* The accounts stay in sync.
LEMMA FreshInSyncStep ==
    ASSUME IInv, UsersInSync, [Next]_vars, ~StaleWrite
    PROVE  UsersInSync'
  <1> SUFFICES ASSUME NEW u \in Users PROVE AccountInSync(u)'
    BY DEF UsersInSync
  <1> QED BY DesyncStep DEF UsersInSync, StaleWrite

\* Any number of clients at a time: a step from a state in which every owner's
\* next answer is accepted keeps the promise, or is a stale write.
LEMMA FreshRefines ==
    ASSUME IInv, \A s \in Sessions : OwnSession(s), UsersInSync, [Next]_vars, ~StaleWrite
    PROVE  OTP!Next \/ Stutter
  <1>1. TypeOK' BY NextPreserves DEF IInv
  <1>2. UsersInSync' BY FreshInSyncStep
  <1>3. \A s \in Sessions : pc'[s] = "idle" => Timely(s) BY FreshIsTimely
  <1> QED BY <1>1, <1>2, <1>3, NextRefines

LEMMA InitRefines ==
    ASSUME Init
    PROVE  OTP!Init
  <1>1. NoUser \notin Users BY DataAssumption DEF DataAssumption
  <1> QED BY <1>1 DEF Init, OTP!Init, opens, left, auth, owes, Opens, Left

LEMMA UsersInit ==
    ASSUME Init
    PROVE  UsersInSync
  BY DEF Init, UsersInSync, AccountInSync

\* What every session knows holds in every state.
LEMMA SessionsInvariance == Spec => [](IInv /\ OwnSessions)
  <1>1. Init => OwnSessions BY SessionInit DEF OwnSessions
  <1>2. IInv /\ OwnSessions /\ [Next]_vars => OwnSessions'
    BY SessionStep DEF OwnSessions
  <1> QED BY <1>1, <1>2, Invariance, PTL DEF Spec

\* For any number of clients, administrators and accounts, whatever interleaves,
\* crashes or vanishes: the only steps that break the promise are those of
\* LoginWrite and UpdateChain that write back over a row that changed since Login
\* or UpdatePassword read it.
THEOREM PromiseBrokenOnlyByStale == Spec => PromiseKeptUnlessStale
  <1>1. IInv /\ OwnSessions /\ [Next]_vars
            => [UsersInSync => OTP!Next \/ UNCHANGED OTP!otpVars \/ StaleWrite]_vars
    BY FreshRefines DEF OwnSessions, Stutter, OTP!otpVars
  <1> QED BY <1>1, SessionsInvariance, PTL DEF Spec, PromiseKeptUnlessStale

\* Any number of clients whose handlers never write back late are served as
\* OneTimePassword promises.
THEOREM RefinementUnlessStale ==
    Spec /\ [][~StaleWrite]_vars => ImplementsOneTimePassword
  <1>1. Init => OTP!Init BY InitRefines
  <1>2. Init => UsersInSync BY UsersInit
  <1>3. IInv /\ UsersInSync /\ [Next]_vars /\ [~StaleWrite]_vars => UsersInSync'
    <2> SUFFICES ASSUME IInv, UsersInSync, [Next]_vars, [~StaleWrite]_vars
                 PROVE  UsersInSync'
      OBVIOUS
    <2>1. CASE UNCHANGED vars
      BY <2>1 DEF vars, tables, UsersInSync, AccountInSync
    <2>2. CASE ~StaleWrite BY <2>2, FreshInSyncStep
    <2> QED BY <2>1, <2>2
  <1>4. IInv /\ OwnSessions /\ UsersInSync /\ [Next]_vars /\ [~StaleWrite]_vars
            => [OTP!Next]_(OTP!otpVars)
    <2> SUFFICES ASSUME IInv, OwnSessions, UsersInSync, [Next]_vars, [~StaleWrite]_vars
                 PROVE  OTP!Next \/ Stutter
      BY DEF Stutter, OTP!otpVars
    <2>1. CASE UNCHANGED vars
      <3>1. account' = account /\ userId' = userId /\ pc' = pc
        BY <2>1 DEF vars, tables, sessionVars
      <3> QED BY <3>1, KeptStutters DEF CredentialsKept
    <2>2. CASE ~StaleWrite BY <2>2, FreshRefines DEF OwnSessions
    <2> QED BY <2>1, <2>2
  <1>5. Spec /\ [][~StaleWrite]_vars => OTP!Spec
    BY <1>1, <1>2, <1>3, <1>4, SessionsInvariance, PTL DEF Spec, OTP!Spec
  <1> QED BY <1>5 DEF ImplementsOneTimePassword

\* Whoever has read a row that is still the same is not late.
LEMMA CurrentNotStale ==
    ASSUME AllCurrent
    PROVE  ~StaleWrite
  BY DEF AllCurrent, Current, Updating, StaleWrite, StaleChange, StaleLogin

\* Any number of clients that work on accounts of their own, for any accounts,
\* passwords, periods, bounds and chain length, crashes and vanishing clients
\* included, are served as OneTimePassword promises.
THEOREM ApartRefinement == Spec /\ []Apart => ImplementsOneTimePassword
  <1>1. AllCurrent => [~StaleWrite]_vars BY CurrentNotStale
  <1> QED BY <1>1, ApartInvariance, RefinementUnlessStale, PTL

\* One client at a time is served as OneTimePassword promises, crashes and a
\* client that vanishes included.
THEOREM SerialRefinement ==
    ASSUME NEW q, Sessions = {q}
    PROVE  Spec => ImplementsOneTimePassword
  <1>1. Apart BY SerialApart
  <1> QED BY <1>1, ApartRefinement, PTL
=============================================================================
