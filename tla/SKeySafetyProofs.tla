-------------------------- MODULE SKeySafetyProofs --------------------------
(***************************************************************************)
(* The safety theorems that rest on the inductive invariant of             *)
(* SKeyServerProofs: what a step can do to one row of `account`, and what  *)
(* follows for locks, for one-time-password chains and for passwords.      *)
(***************************************************************************)
EXTENDS SKeyServerProofs

-----------------------------------------------------------------------------
(* What a step can do to one row.                                          *)

\* Register inserts the row, with a chain its owner can answer.
Inserted(u) ==
    account[u] = NoRow /\ account'[u] # NoRow /\ InSync(account'[u].cred)

\* The three statements that replace the credential of an account.
LoginStores(s, u) ==
    /\ pc[s] = "loginWrite" /\ pc'[s] = "idle" /\ userId[s] = u
    /\ account'[u].cred = Advanced(account[u].cred, local[s].newIter,
                                   local[s].cred.chal <= 1, local[s].newRnd)

UpdateStores(s, u) ==
    /\ pc[s] = "updateChain" /\ pc'[s] = "idle" /\ userId[s] = u /\ userType[s] = 0
    /\ account'[u].cred = Advanced(account[u].cred, local[s].newIter, TRUE,
                                   local[s].newRnd)

ResetStores(s, u) ==
    /\ pc[s] = "passReset" /\ pc'[s] = "process" /\ local[s].cur = u /\ userType[s] = 1
    /\ account'[u].cred = DefaultCredential

Stores(s, u) == LoginStores(s, u) \/ UpdateStores(s, u) \/ ResetStores(s, u)

\* Every other update leaves the credential alone; a lock is only dated now.
Rewritten(u) ==
    /\ account[u] # NoRow /\ account'[u] # NoRow
    /\ account'[u].block \in {account[u].block, now}
    /\ \/ account'[u].cred = account[u].cred
       \/ \E s \in Sessions : Stores(s, u)

RowEffect(u) == account'[u] = account[u] \/ Inserted(u) \/ Rewritten(u)

\* An update through the trigger, row by row.
LEMMA UpdateRow ==
    ASSUME IInv, NEW u \in Users, NEW new, UpdateAccount(u, new),
           account[u] # NoRow => new \in RowBefore /\ new.block = account[u].block
    PROVE  /\ \A v \in Users : v # u => account'[v] = account[v]
           /\ account[u] = NoRow => account'[u] = account[u]
           /\ account[u] # NoRow => /\ account'[u] # NoRow
                                    /\ account'[u].cred = new.cred
                                    /\ account'[u].block \in {account[u].block, now}
  <1>1. TypeOK /\ now \in Nat BY DEF IInv, TypeOK
  <1>2. account[u] \in Row \cup {NoRow} BY <1>1 DEF TypeOK
  <1> DEFINE row == Updated(account[u], new, now)
  <1>3. /\ row = NoRow <=> account[u] = NoRow
        /\ account[u] # NoRow =>
               /\ row.cred = new.cred
               /\ row.block = IF new.errs = 3 THEN now ELSE new.block
    BY <1>1, <1>2, UpdatedType
  <1>4. account' = [account EXCEPT ![u] = row] BY DEF UpdateAccount
  <1> HIDE DEF row
  <1>5. account'[u] = row /\ \A v \in Users : v # u => account'[v] = account[v]
    BY <1>1, <1>4 DEF TypeOK
  <1> QED BY <1>3, <1>5

\* An update that keeps the credential of its row.
LEMMA UpdateKeepsCredential ==
    ASSUME IInv, NEW u \in Users, NEW new, UpdateAccount(u, new),
           account[u] # NoRow => /\ new \in RowBefore
                                 /\ new.block = account[u].block
                                 /\ new.cred = account[u].cred
    PROVE  \A v \in Users : RowEffect(v)
  BY UpdateRow DEF RowEffect, Rewritten

\* An update that stores a new credential in its row.
LEMMA UpdateStoresCredential ==
    ASSUME IInv, NEW u \in Users, NEW new, UpdateAccount(u, new), NEW s \in Sessions,
           account[u] # NoRow => new \in RowBefore /\ new.block = account[u].block,
           account'[u].cred = new.cred => Stores(s, u)
    PROVE  \A v \in Users : RowEffect(v)
  BY UpdateRow DEF RowEffect, Rewritten

LEMMA RegisterAddRow ==
    ASSUME IInv, NEW s \in Sessions, NEW pw \in Passwords, RegisterAdd(s, pw)
    PROVE  \A v \in Users : RowEffect(v)
  <1>1. TypeOK /\ now \in Nat /\ pc[s] = "registerWait"
    BY DEF IInv, TypeOK, RegisterAdd
  <1>2. buff[s].id \in Users BY <1>1 DEF IInv, Identity, HandlerKnows, AccountOps
  <1> DEFINE u    == buff[s].id
             rnd  == local[s].newRnd
             iter == PasswdToMD5(pw, rnd, DefaultChallenge + 1)
             row  == AddUser(rnd, iter, DefaultChallenge, now)
  <1>3. CASE account' = account BY <1>3 DEF RowEffect
  <1>4. CASE account[u] = NoRow /\ account' = [account EXCEPT ![u] = row]
    <2>1. /\ rnd \in Randoms /\ pw \in AllPasswords
          /\ DefaultChallenge \in Nat /\ DefaultChallenge > 1
      BY <1>1, DataAssumption DEF TypeOK, Local, AllPasswords, DataAssumption
    <2>2. /\ iter \in Value /\ iter.rnd = rnd /\ iter.n = DefaultChallenge + 1
      BY <2>1, PasswdToMD5Type DEF PasswdToMD5
    <2> HIDE DEF iter
    <2>3. row # NoRow
      BY <1>1, <2>1, <2>2, AddUserType, DataAssumption DEF DataAssumption
    <2>4. InSync(row.cred) BY <2>1, <2>2 DEF AddUser, InSync
    <2> HIDE DEF row
    <2>5. account'[u] = row /\ \A v \in Users : v # u => account'[v] = account[v]
      BY <1>1, <1>2, <1>4 DEF TypeOK
    <2> QED BY <1>4, <2>3, <2>4, <2>5 DEF RowEffect, Inserted
  <1> QED BY <1>3, <1>4 DEF RegisterAdd

LEMMA LoginWrongRow ==
    ASSUME IInv, NEW s \in Sessions, NEW pw, LoginWrong(s, pw)
    PROVE  \A v \in Users : RowEffect(v)
  <1>1. TypeOK /\ now \in Nat /\ pc[s] = "loginWait"
    BY DEF IInv, TypeOK, LoginWrong
  <1>2. buff[s].id \in Users BY <1>1 DEF IInv, Identity, HandlerKnows, AccountOps
  <1>3. local[s].first \in BOOLEAN /\ account[buff[s].id] \in Row \cup {NoRow}
    BY <1>1, <1>2 DEF TypeOK, Local
  <1> QED BY <1>1, <1>2, <1>3, LoginFailedType, UpdateKeepsCredential DEF LoginWrong

LEMMA LoginWriteRow ==
    ASSUME IInv, NEW s \in Sessions, LoginWrite(s)
    PROVE  \A v \in Users : RowEffect(v)
  <1>1. TypeOK /\ now \in Nat /\ pc[s] = "loginWrite"
    BY DEF IInv, TypeOK, LoginWrite
  <1>2. userId[s] \in Users /\ account[userId[s]] \in Row
    BY <1>1 DEF IInv, TypeOK, Identity, HandlerKnows
  <1> DEFINE u   == userId[s]
             b   == local[s].cred.chal <= 1
             new == UpdateChallengeAndRandom(account[u], local[s].newIter, b,
                                             local[s].newRnd, now)
  <1>3. /\ local[s].newIter \in Value /\ local[s].newRnd \in Randoms
        /\ b \in BOOLEAN
    BY <1>1 DEF TypeOK, Local
  <1>4. /\ new \in RowBefore /\ new.block = account[u].block
        /\ new.cred = Advanced(account[u].cred, local[s].newIter, b, local[s].newRnd)
    <2> HIDE DEF b
    <2> QED BY <1>1, <1>2, <1>3, UpdateChallengeType
  <1>5. UpdateAccount(u, new) /\ pc'[s] = "idle"
    BY <1>1 DEF LoginWrite, Return, TypeOK
  <1>6. account'[u].cred = new.cred => Stores(s, u)
    BY <1>1, <1>4, <1>5 DEF Stores, LoginStores
  <1> HIDE DEF new
  <1> QED BY <1>2, <1>4, <1>5, <1>6, UpdateStoresCredential

LEMMA FlagSetRow ==
    ASSUME IInv, NEW s \in Sessions, NEW label \in {"resetSet", "unfreezeSet"},
           NEW column \in Flags, FlagSet(s, label, column)
    PROVE  \A v \in Users : RowEffect(v)
  <1>1. TypeOK /\ pc[s] = label BY DEF IInv, FlagSet
  <1>2. buff[s].id \in Users BY <1>1 DEF IInv, Identity, HandlerKnows
  <1>3. account[buff[s].id] \in Row \cup {NoRow} BY <1>1, <1>2 DEF TypeOK
  <1> QED BY <1>2, <1>3, SetFlagType, UpdateKeepsCredential DEF FlagSet

LEMMA UpdateTimeRow ==
    ASSUME IInv, NEW s \in Sessions, UpdateTime(s)
    PROVE  \A v \in Users : RowEffect(v)
  <1>1. TypeOK /\ now \in Nat /\ pc[s] = "updateTime"
    BY DEF IInv, TypeOK, UpdateTime
  <1>2. userId[s] \in Users /\ account[userId[s]] \in Row
    BY <1>1 DEF IInv, TypeOK, Identity, HandlerKnows, Updating
  <1> QED BY <1>1, <1>2, DateType, SetUpdateType, UpdateKeepsCredential
          DEF UpdateTime

LEMMA UpdateChainRow ==
    ASSUME IInv, NEW s \in Sessions, UpdateChain(s)
    PROVE  \A v \in Users : RowEffect(v)
  <1>1. TypeOK /\ now \in Nat /\ pc[s] = "updateChain"
    BY DEF IInv, TypeOK, UpdateChain
  <1>2. userId[s] \in Users /\ account[userId[s]] \in Row /\ userType[s] = 0
    BY <1>1 DEF IInv, TypeOK, Identity, HandlerKnows, Updating
  <1> DEFINE u   == userId[s]
             new == UpdateChallengeAndRandom(account[u], local[s].newIter, TRUE,
                                             local[s].newRnd, now)
  <1>3. local[s].newIter \in Value /\ local[s].newRnd \in Randoms
    BY <1>1 DEF TypeOK, Local
  <1>4. /\ new \in RowBefore /\ new.block = account[u].block
        /\ new.cred = Advanced(account[u].cred, local[s].newIter, TRUE, local[s].newRnd)
    BY <1>1, <1>2, <1>3, UpdateChallengeType
  <1>5. UpdateAccount(u, new) /\ pc'[s] = "idle"
    BY <1>1 DEF UpdateChain, Return, TypeOK
  <1>6. account'[u].cred = new.cred => Stores(s, u)
    BY <1>1, <1>2, <1>4, <1>5 DEF Stores, UpdateStores
  <1> HIDE DEF new
  <1> QED BY <1>2, <1>4, <1>5, <1>6, UpdateStoresCredential

LEMMA ProcessOneRow ==
    ASSUME IInv, NEW s \in Sessions, NEW u \in Users, ProcessOne(s, u)
    PROVE  \A v \in Users : RowEffect(v)
  <1>1. TypeOK /\ now \in Nat /\ account[u] \in Row \cup {NoRow}
    BY DEF IInv, TypeOK
  <1> QED BY <1>1, ProcessType, UpdateKeepsCredential DEF ProcessOne

LEMMA PassResetRow ==
    ASSUME IInv, NEW s \in Sessions, PassReset(s)
    PROVE  \A v \in Users : RowEffect(v)
  <1>1. TypeOK /\ now \in Nat /\ pc[s] = "passReset"
    BY DEF IInv, TypeOK, PassReset
  <1>2. local[s].cur \in Users /\ userType[s] = 1
    BY <1>1 DEF IInv, TypeOK, HandlerKnows, Identity
  <1> DEFINE u   == local[s].cur
             new == ResetToDefault(account[u])
  <1>3. account[u] # NoRow => /\ new \in RowBefore /\ new.block = account[u].block
    BY <1>1, <1>2, ResetType DEF TypeOK
  <1>4. UpdateAccount(u, new) /\ pc'[s] = "process"
    BY <1>1 DEF PassReset, Continue, TypeOK
  <1>5. CASE account[u] = NoRow
    BY <1>2, <1>4, <1>5, UpdateRow DEF RowEffect
  <1>6. CASE account[u] # NoRow
    <2>1. new.cred = DefaultCredential BY <1>1, <1>2, <1>6, ResetType DEF TypeOK
    <2>2. account'[u].cred = new.cred => Stores(s, u)
      BY <1>1, <1>2, <1>4, <2>1 DEF Stores, ResetStores
    <2> HIDE DEF new
    <2> QED BY <1>2, <1>3, <1>4, <2>2, UpdateStoresCredential
  <1> QED BY <1>5, <1>6

\* Whatever a step does, it does one of these things to a row.
LEMMA NextRow ==
    ASSUME IInv, [Next]_vars
    PROVE  \A u \in Users : RowEffect(u)
  <1>0. CASE account' = account BY <1>0 DEF RowEffect
  <1>1. ASSUME NEW s \in Sessions, Dispatch(s) PROVE account' = account
    BY <1>1 DEF Dispatch, RegisterQuery, LoginQuery, AdminLoginQuery, ResetQuery,
                UnfreezeQuery, UpdateQuery, GetRequest, ProcessBegin, tables
  <1>2. ASSUME NEW s \in Sessions, ClientAnswer(s)
        PROVE  \A u \in Users : RowEffect(u)
    <2>1. CASE \E pw \in Passwords : UpdateRepeat(s, pw) \/ UpdateAccept(s, pw)
      BY <1>0, <2>1 DEF UpdateRepeat, UpdateAccept, tables
    <2>2. CASE \E pw \in AllPasswords : \/ LoginRight(s, pw)
                                        \/ AdminLoginWrong(s, pw)
                                        \/ AdminLoginRight(s, pw)
      BY <1>0, <2>2 DEF LoginRight, AdminLoginWrong, AdminLoginRight, tables
    <2> QED BY <1>2, <2>1, <2>2, RegisterAddRow, LoginWrongRow DEF ClientAnswer
  <1>3. ASSUME NEW s \in Sessions, HandlerStep(s)
        PROVE  \A u \in Users : RowEffect(u)
    <2>1. CASE ResetSet(s) BY <2>1, FlagSetRow DEF ResetSet, Flags
    <2>2. CASE UnfreezeSet(s) BY <2>2, FlagSetRow DEF UnfreezeSet, Flags
    <2>3. CASE \/ AdminLoginWrite(s) \/ UpdatePast(s) \/ UpdateInsert(s)
               \/ ProcessEnd(s) \/ \E u \in Users : PassInsert(s, u)
      BY <1>0, <2>3 DEF AdminLoginWrite, UpdatePast, UpdateInsert, ProcessEnd, PassInsert,
                        tables
    <2> QED BY <1>3, <2>1, <2>2, <2>3, LoginWriteRow, UpdateTimeRow,
               UpdateChainRow, ProcessOneRow, PassResetRow
            DEF HandlerStep
  <1>4. ASSUME NEW s \in Sessions, ConnectionStep(s) PROVE account' = account
    BY <1>4 DEF ConnectionStep, Accept, Logout, Drop, ReceiveError, ParseFailure,
                ServerDies, tables
  <1>5. CASE Crash BY <1>0, <1>5 DEF Crash, ServerDies, tables
  <1>6. CASE Tick BY <1>0, <1>6 DEF Tick, tables
  <1>7. CASE UNCHANGED vars BY <1>0, <1>7 DEF vars, tables
  <1> QED BY <1>0, <1>1, <1>2, <1>3, <1>4, <1>5, <1>6, <1>7 DEF Next

-----------------------------------------------------------------------------
(* One-time-password chains.                                               *)

\* A chain started afresh is in sync.
LEMMA FreshInSync ==
    ASSUME NEW c, NEW iter, NEW rnd, iter.rnd = rnd, iter.n = DefaultChallenge + 1
    PROVE  InSync(Advanced(c, iter, TRUE, rnd))
  BY DataAssumption DEF InSync, Advanced, DataAssumption

\* Storing the accepted value over the credential it answers keeps it in sync.
LEMMA CountdownInSync ==
    ASSUME NEW c \in Credential, NEW iter, c.chal > 1,
           iter.rnd = c.rnd, iter.n = c.chal, NEW rnd
    PROVE  InSync(Advanced(c, iter, FALSE, rnd))
  <1>1. c.chal \in Int BY DEF Credential
  <1> DEFINE d == Advanced(c, iter, FALSE, rnd)
  <1>2. d.iter = iter /\ d.chal = c.chal - 1 /\ d.rnd = c.rnd
    BY DEF Advanced, Credential
  <1> HIDE DEF d
  <1>3. InSync(d) BY <1>1, <1>2 DEF InSync
  <1> QED BY <1>3 DEF d

\* What a login stores over the row it read is in sync, under the password
\* that opened the login.
LEMMA LoginStoresInSync ==
    ASSUME IInv, NEW u \in Users, NEW s \in Sessions, LoginStores(s, u),
           account[u] # NoRow, account[u].cred = local[s].cred
    PROVE  /\ InSync(account'[u].cred)
           /\ account'[u].cred.iter.pw = account[u].cred.iter.pw
  <1>1. /\ pc[s] = "loginWrite" /\ NewIterate(s)
        /\ local[s].cred \in Credential /\ local[s].cred.chal \in Int
    BY DEF IInv, TypeOK, Local, Credential, LoginStores
  <1> DEFINE l == local[s]
  <1>2. account'[u].cred = Advanced(l.cred, l.newIter, l.cred.chal <= 1, l.newRnd)
    BY DEF LoginStores
  <1>3. l.newIter.pw = l.cred.iter.pw BY <1>1 DEF NewIterate
  <1>4. CASE l.cred.chal <= 1
    <2>1. l.newIter.rnd = l.newRnd /\ l.newIter.n = DefaultChallenge + 1
      BY <1>1, <1>4 DEF NewIterate, FreshChain
    <2>2. account'[u].cred = Advanced(l.cred, l.newIter, TRUE, l.newRnd)
      BY <1>2, <1>4 DEF Advanced
    <2>3. InSync(account'[u].cred) BY <2>1, <2>2, FreshInSync
    <2>4. account'[u].cred.iter = l.newIter BY <2>2 DEF Advanced
    <2> QED BY <1>3, <2>3, <2>4
  <1>5. CASE ~(l.cred.chal <= 1)
    <2>1. l.newIter.rnd = l.cred.rnd /\ l.newIter.n = l.cred.chal /\ l.cred.chal > 1
      BY <1>1, <1>5 DEF NewIterate
    <2>2. account'[u].cred = Advanced(l.cred, l.newIter, FALSE, l.newRnd)
      BY <1>2, <1>5 DEF Advanced
    <2>3. InSync(account'[u].cred) BY <1>1, <2>1, <2>2, CountdownInSync
    <2>4. account'[u].cred.iter = l.newIter
      BY <1>1, <2>2 DEF Advanced, Credential
    <2> QED BY <1>3, <2>3, <2>4
  <1> QED BY <1>4, <1>5

LEMMA UpdateStoresInSync ==
    ASSUME IInv, NEW u \in Users, NEW s \in Sessions, UpdateStores(s, u)
    PROVE  InSync(account'[u].cred)
  <1> DEFINE l == local[s]
  <1>1. l.newIter.rnd = l.newRnd /\ l.newIter.n = DefaultChallenge + 1
    BY DEF IInv, NewIterate, FreshChain, UpdateStores
  <1>2. account'[u].cred = Advanced(account[u].cred, l.newIter, TRUE, l.newRnd)
    BY DEF UpdateStores
  <1> HIDE DEF l
  <1> QED BY <1>1, <1>2, FreshInSync

LEMMA ResetStoresInSync ==
    ASSUME NEW u \in Users, NEW s \in Sessions, ResetStores(s, u)
    PROVE  InSync(account'[u].cred)
  BY DEF ResetStores, DefaultCredential, InSync, PasswdToMD5

\* A login that does not store over the row it read is a stale login.
LEMMA StoresStale ==
    ASSUME NEW u \in Users, NEW s \in Sessions, LoginStores(s, u),
           account[u] # NoRow, account[u].cred # local[s].cred
    PROVE  StaleLogin(s, u) /\ pc'[s] = "idle"
  BY DEF LoginStores, StaleLogin

\* A step takes an account out of sync only as a stale login.
LEMMA DesyncStep ==
    ASSUME IInv, [Next]_vars, NEW u \in Users, AccountInSync(u), ~AccountInSync(u)'
    PROVE  \E s \in Sessions : StaleLogin(s, u) /\ pc'[s] = "idle"
  <1>1. RowEffect(u) BY NextRow
  <1>2. account'[u] # NoRow /\ ~InSync(account'[u].cred)
    BY DEF AccountInSync
  <1>3. Rewritten(u) /\ account'[u].cred # account[u].cred
    BY <1>1, <1>2 DEF RowEffect, Inserted, Rewritten, AccountInSync
  <1>4. PICK s \in Sessions : Stores(s, u) BY <1>3 DEF Rewritten
  <1>5. LoginStores(s, u)
    BY <1>2, <1>4, UpdateStoresInSync, ResetStoresInSync DEF Stores
  <1>6. account[u].cred # local[s].cred
    BY <1>2, <1>3, <1>5, LoginStoresInSync DEF Rewritten
  <1> QED BY <1>3, <1>5, <1>6, StoresStale DEF Rewritten

\* For any number of sessions and whatever they interleave: the value, the
\* challenge and the random string of an account stop belonging together only
\* when a login writes back over a row that changed after the login read it.
THEOREM DesyncNeedsStaleLogin == Spec => DesyncOnlyByStaleLogin
  <1>1. IInv /\ [Next]_vars
            => [\A u \in Users :
                   AccountInSync(u) /\ ~AccountInSync(u)'
                       => \E s \in Sessions : StaleLogin(s, u) /\ pc'[s] = "idle"]_vars
    BY DesyncStep
  <1> QED BY <1>1, Invariance, PTL DEF Spec, DesyncOnlyByStaleLogin

\* The two legitimate ways to another password.
ChangedByOwner(s, u) == pc[s] = "updateChain" /\ userId[s] = u /\ userType[s] = 0

ChangedByGrant(s, u) == pc[s] = "passReset" /\ local[s].cur = u /\ userType[s] = 1

\* A step keeps every row, and changes whose password a chain is built on only
\* in those two ways or as a stale login.
LEMMA PasswordStep ==
    ASSUME IInv, [Next]_vars, NEW u \in Users, account[u] # NoRow
    PROVE  /\ account'[u] # NoRow
           /\ account'[u].cred.iter.pw # account[u].cred.iter.pw
                  => \E s \in Sessions : \/ ChangedByOwner(s, u)
                                         \/ ChangedByGrant(s, u)
                                         \/ StaleLogin(s, u)
  <1>1. account'[u] # NoRow
    BY NextRow DEF RowEffect, Inserted, Rewritten
  <1>2. ASSUME account'[u].cred.iter.pw # account[u].cred.iter.pw
        PROVE  \E s \in Sessions : \/ ChangedByOwner(s, u)
                                   \/ ChangedByGrant(s, u)
                                   \/ StaleLogin(s, u)
    <2>1. Rewritten(u) /\ account'[u].cred # account[u].cred
      BY <1>2, NextRow DEF RowEffect, Inserted, Rewritten
    <2>2. PICK s \in Sessions : Stores(s, u) BY <2>1 DEF Rewritten
    <2>3. CASE LoginStores(s, u)
      <3>1. account[u].cred # local[s].cred
        BY <1>2, <2>3, LoginStoresInSync
      <3> QED BY <2>3, <3>1, StoresStale
    <2>4. CASE UpdateStores(s, u) BY <2>4 DEF UpdateStores, ChangedByOwner
    <2>5. CASE ResetStores(s, u) BY <2>5 DEF ResetStores, ChangedByGrant
    <2> QED BY <2>2, <2>3, <2>4, <2>5 DEF Stores
  <1> QED BY <1>1, <1>2

\* For any number of sessions and administrators: an account is never removed,
\* and its chain is built on another password only after a completed change by
\* its owner, a grant of an administrator, or a stale login.
THEOREM PasswordChangesExplained == Spec => PasswordChangesOrStaleLogin
  <1>1. IInv /\ [Next]_vars
            => [\A u \in Users :
                   account[u] # NoRow
                       => /\ account'[u] # NoRow
                          /\ account'[u].cred.iter.pw # account[u].cred.iter.pw
                                 => \E s \in Sessions : \/ ChangedByOwner(s, u)
                                                        \/ ChangedByGrant(s, u)
                                                        \/ StaleLogin(s, u)]_vars
    BY PasswordStep
  <1> QED BY <1>1, Invariance, PTL
          DEF Spec, PasswordChangesOrStaleLogin, ChangedByOwner, ChangedByGrant

-----------------------------------------------------------------------------
(* Locks.                                                                  *)

\* A session keeps waiting for the answer to the challenge it was sent.
SameAttempt(r) ==
    pc'[r] = pc[r] /\ local'[r] = local[r] /\ buff'[r] = buff[r]

\* A session has just been sent a challenge for an account that is not locked.
NewAttempt(s) ==
    /\ UNCHANGED <<now, account>>
    /\ buff'[s].id \in Users /\ account[buff'[s].id] # NoRow
    /\ ~Blocked(account[buff'[s].id], now)

\* A step of session q leaves the attempts of the others as they are, and
\* itself waits for an answer only after a new challenge, or as before.
AttemptEffect(q) ==
    /\ \A r \in Sessions : r # q => SameAttempt(r)
    /\ pc'[q] = "loginWait" => SameAttempt(q) \/ NewAttempt(q)

\* A step that moves q to a label other than "loginWait".
LEMMA LeavesAttempt ==
    ASSUME TypeOK, NEW q \in Sessions, NEW label, label # "loginWait",
           NEW l,
           pc' = [pc EXCEPT ![q] = label], local' = [local EXCEPT ![q] = l],
           \A r \in Sessions : r # q => buff'[r] = buff[r]
    PROVE  AttemptEffect(q)
  BY DEF TypeOK, AttemptEffect, SameAttempt

\* The two ways a handler leaves a step, outside Login's query.
LEMMA ReturnAttempt ==
    ASSUME TypeOK, NEW q \in Sessions, NEW signal, Return(q, signal),
           \A r \in Sessions : r # q => buff'[r] = buff[r]
    PROVE  AttemptEffect(q)
  BY LeavesAttempt DEF Return

LEMMA ContinueAttempt ==
    ASSUME TypeOK, NEW q \in Sessions, NEW label, label # "loginWait",
           NEW signal, NEW l, Continue(q, label, signal, l),
           \A r \in Sessions : r # q => buff'[r] = buff[r]
    PROVE  AttemptEffect(q)
  BY LeavesAttempt DEF Continue

LEMMA LoginQueryAttempt ==
    ASSUME IInv, NEW q \in Sessions, NEW m, LoginQuery(q, m)
    PROVE  AttemptEffect(q)
  <1>1. TypeOK /\ Receive(q, m) /\ m.op = "C_LOGIN" BY DEF IInv, LoginQuery
  <1>2. /\ buff'[q] = m /\ m.id \in Users
        /\ \A r \in Sessions : r # q => buff'[r] = buff[r]
    BY <1>1, BuffReceived DEF BuffKept, Fits, AccountOps
  <1>3. CASE \E signal \in Signals : Return(q, signal)
    BY <1>1, <1>2, <1>3, ReturnAttempt
  <1> DEFINE row == account[m.id]
             l   == [NoLocal EXCEPT !.first = FirstError(row, now),
                                    !.due = UpdateDue(row, now)]
  <1>4. CASE /\ row # NoRow /\ ~Blocked(row, now)
             /\ Challenge(q, "loginWait", row.cred, l)
    <2>1. NewAttempt(q) BY <1>2, <1>4 DEF NewAttempt, LoginQuery, tables
    <2>2. \A r \in Sessions : r # q => pc'[r] = pc[r] /\ local'[r] = local[r]
      BY <1>1, <1>4 DEF Challenge, Continue, TypeOK
    <2> QED BY <1>2, <2>1, <2>2 DEF AttemptEffect, SameAttempt
  <1> QED BY <1>3, <1>4 DEF LoginQuery, Signals

\* The other queries and the grants.
LEMMA DispatchAttempt ==
    ASSUME IInv, NEW q \in Sessions, Dispatch(q)
    PROVE  AttemptEffect(q)
  <1>1. TypeOK BY DEF IInv
  <1>2. PICK m \in ClientMessages(q) \cup {buff[q]} :
            \/ RegisterQuery(q, m) \/ LoginQuery(q, m) \/ AdminLoginQuery(q, m)
            \/ ResetQuery(q, m) \/ UnfreezeQuery(q, m) \/ UpdateQuery(q, m)
            \/ GetRequest(q, m) \/ ProcessBegin(q, m)
    BY DEF Dispatch
  <1>3. Receive(q, m)
    BY <1>2 DEF RegisterQuery, LoginQuery, AdminLoginQuery, ResetQuery,
                UnfreezeQuery, UpdateQuery, GetRequest, ProcessBegin
  <1>4. \A r \in Sessions : r # q => buff'[r] = buff[r]
    BY <1>3, BuffReceived DEF BuffKept
  <1>5. CASE LoginQuery(q, m) BY <1>5, LoginQueryAttempt
  <1>6. CASE RegisterQuery(q, m)
    BY <1>1, <1>4, <1>6, ReturnAttempt, ContinueAttempt DEF RegisterQuery
  <1>7. CASE AdminLoginQuery(q, m)
    BY <1>1, <1>4, <1>7, ReturnAttempt, ContinueAttempt
    DEF AdminLoginQuery, Challenge
  <1>8. CASE ResetQuery(q, m)
    BY <1>1, <1>4, <1>8, ReturnAttempt, ContinueAttempt DEF ResetQuery
  <1>9. CASE UnfreezeQuery(q, m)
    BY <1>1, <1>4, <1>9, ReturnAttempt, ContinueAttempt DEF UnfreezeQuery
  <1>10. CASE UpdateQuery(q, m)
    BY <1>1, <1>4, <1>10, ContinueAttempt DEF UpdateQuery
  <1>11. CASE GetRequest(q, m) BY <1>1, <1>4, <1>11, ReturnAttempt DEF GetRequest
  <1>12. CASE ProcessBegin(q, m)
    BY <1>1, <1>4, <1>12, ContinueAttempt DEF ProcessBegin
  <1> QED BY <1>2, <1>5, <1>6, <1>7, <1>8, <1>9, <1>10, <1>11, <1>12

LEMMA AnswerAttempt ==
    ASSUME IInv, NEW q \in Sessions, ClientAnswer(q)
    PROVE  AttemptEffect(q)
  <1>1. TypeOK BY DEF IInv
  <1>2. PICK pw :
            \/ RegisterAdd(q, pw) \/ UpdateRepeat(q, pw) \/ UpdateAccept(q, pw)
            \/ LoginWrong(q, pw) \/ LoginRight(q, pw)
            \/ AdminLoginWrong(q, pw) \/ AdminLoginRight(q, pw)
    BY DEF ClientAnswer
  <1>3. buff' = buff
    BY <1>2 DEF RegisterAdd, UpdateRepeat, UpdateAccept, LoginWrong, LoginRight,
                AdminLoginWrong, AdminLoginRight
  <1>4. CASE RegisterAdd(q, pw) BY <1>1, <1>3, <1>4, ReturnAttempt DEF RegisterAdd
  <1>5. CASE UpdateRepeat(q, pw) BY <1>1, <1>3, <1>5, ReturnAttempt DEF UpdateRepeat
  <1>6. CASE UpdateAccept(q, pw)
    BY <1>1, <1>3, <1>6, ContinueAttempt DEF UpdateAccept
  <1>7. CASE LoginWrong(q, pw) BY <1>1, <1>3, <1>7, ReturnAttempt DEF LoginWrong
  <1>8. CASE LoginRight(q, pw)
    BY <1>1, <1>3, <1>8, ContinueAttempt DEF LoginRight
  <1>9. CASE AdminLoginWrong(q, pw)
    BY <1>1, <1>3, <1>9, ReturnAttempt DEF AdminLoginWrong
  <1>10. CASE AdminLoginRight(q, pw)
    BY <1>1, <1>3, <1>10, ContinueAttempt DEF AdminLoginRight
  <1> QED BY <1>2, <1>4, <1>5, <1>6, <1>7, <1>8, <1>9, <1>10

LEMMA HandlerAttempt ==
    ASSUME IInv, NEW q \in Sessions, HandlerStep(q)
    PROVE  AttemptEffect(q)
  <1>1. TypeOK BY DEF IInv
  <1>2. CASE \/ LoginWrite(q) \/ AdminLoginWrite(q) \/ ResetSet(q) \/ UnfreezeSet(q)
             \/ UpdateChain(q) \/ ProcessEnd(q)
    <2>1. buff' = buff /\ \E signal : Return(q, signal)
      BY <1>2 DEF LoginWrite, AdminLoginWrite, ResetSet, UnfreezeSet, FlagSet,
                  UpdateChain, ProcessEnd
    <2> QED BY <1>1, <2>1, ReturnAttempt
  <1>3. CASE UpdateInsert(q) BY <1>1, <1>3, ContinueAttempt DEF UpdateInsert
  <1>4. CASE UpdateTime(q) BY <1>1, <1>4, ContinueAttempt DEF UpdateTime
  <1>5. CASE \E u \in Users : PassInsert(q, u)
    BY <1>1, <1>5, ContinueAttempt DEF PassInsert
  <1>6. CASE PassReset(q) BY <1>1, <1>6, ContinueAttempt DEF PassReset
  <1>7. CASE \E u \in Users : ProcessOne(q, u)
    BY <1>7 DEF ProcessOne, AttemptEffect, SameAttempt
  <1>8. CASE UpdatePast(q) BY <1>1, <1>8, ContinueAttempt DEF UpdatePast
  <1> QED BY <1>2, <1>3, <1>4, <1>5, <1>6, <1>7, <1>8 DEF HandlerStep

\* Whoever waits for an answer after a step waited before it, or has just been
\* sent a challenge.
LEMMA NextAttempt ==
    ASSUME IInv, [Next]_vars, NEW s \in Sessions, pc'[s] = "loginWait"
    PROVE  SameAttempt(s) \/ NewAttempt(s)
  <1>0. TypeOK BY DEF IInv
  <1>1. ASSUME NEW ss \in SUBSET Sessions, Forget(ss) PROVE SameAttempt(s)
    BY <1>1 DEF Forget, SameAttempt
  <1>2. CASE \E q \in Sessions : Dispatch(q) \/ ClientAnswer(q) \/ HandlerStep(q)
    BY <1>2, DispatchAttempt, AnswerAttempt, HandlerAttempt DEF AttemptEffect
  <1>3. ASSUME NEW q \in Sessions, ConnectionStep(q) PROVE SameAttempt(s)
    <2>1. CASE Accept(q) BY <1>0, <2>1 DEF Accept, SameAttempt, TypeOK
    <2>2. CASE Drop(q) BY <2>2 DEF Drop, SameAttempt
    <2>3. CASE ReceiveError(q)
      <3>1. AttemptEffect(q) BY <1>0, <2>3, ReturnAttempt DEF ReceiveError
      <3>2. pc'[q] # "loginWait" BY <1>0, <2>3 DEF ReceiveError, Return, TypeOK
      <3> QED BY <3>1, <3>2 DEF AttemptEffect
    <2>4. CASE Logout(q) BY <1>1, <2>4 DEF Logout
    <2>5. CASE ParseFailure(q) BY <1>1, <2>5 DEF ParseFailure, ServerDies
    <2> QED BY <1>3, <2>1, <2>2, <2>3, <2>4, <2>5 DEF ConnectionStep
  <1>4. CASE Crash BY <1>1, <1>4 DEF Crash, ServerDies
  <1>5. CASE Tick BY <1>5 DEF Tick, sessionVars, SameAttempt
  <1>6. CASE UNCHANGED vars BY <1>6 DEF vars, sessionVars, SameAttempt
  <1> QED BY <1>2, <1>3, <1>4, <1>5, <1>6 DEF Next

\* The clock never goes back.
LEMMA NextClock ==
    ASSUME IInv, [Next]_vars
    PROVE  now \in Nat /\ now' \in Nat /\ now' >= now
  <1>1. now \in Nat BY DEF IInv, TypeOK
  <1>2. CASE Tick BY <1>1, <1>2 DEF Tick
  <1>3. CASE now' = now BY <1>1, <1>3
  <1>4. ASSUME NEW s \in Sessions, Dispatch(s) PROVE now' = now
    BY <1>4 DEF Dispatch, RegisterQuery, LoginQuery, AdminLoginQuery, ResetQuery,
                UnfreezeQuery, UpdateQuery, GetRequest, ProcessBegin
  <1>5. ASSUME NEW s \in Sessions, ClientAnswer(s) PROVE now' = now
    BY <1>5 DEF ClientAnswer, RegisterAdd, UpdateRepeat, UpdateAccept, LoginWrong,
                LoginRight, AdminLoginWrong, AdminLoginRight
  <1>6. ASSUME NEW s \in Sessions, HandlerStep(s) PROVE now' = now
    BY <1>6 DEF HandlerStep, LoginWrite, AdminLoginWrite, ResetSet, UnfreezeSet,
                FlagSet, UpdatePast, UpdateInsert, UpdateTime, UpdateChain, ProcessOne,
                PassInsert, PassReset, ProcessEnd
  <1>7. ASSUME NEW s \in Sessions, ConnectionStep(s) PROVE now' = now
    BY <1>7 DEF ConnectionStep, Accept, Logout, Drop, ReceiveError, ParseFailure,
                ServerDies
  <1>8. CASE Crash \/ UNCHANGED vars BY <1>3, <1>8 DEF Crash, ServerDies, vars
  <1> QED BY <1>2, <1>3, <1>4, <1>5, <1>6, <1>7, <1>8 DEF Next

LEMMA BlockPreserved ==
    ASSUME IInv, BlockStopsNewAttempts, [Next]_vars
    PROVE  BlockStopsNewAttempts'
  <1> SUFFICES ASSUME NEW s \in Sessions, pc'[s] = "loginWait"
               PROVE  LET row == account'[buff'[s].id]
                      IN  /\ row # NoRow
                          /\ now' < row.block + LockTime => local'[s].at <= row.block
    BY DEF BlockStopsNewAttempts
  <1>1. /\ IInv' /\ now \in Nat /\ now' \in Nat /\ now' >= now
        /\ LockTime \in Nat
    BY NextPreserves, NextClock, DataAssumption DEF DataAssumption
  <1> DEFINE u == buff'[s].id
  <1>2. u \in Users
    BY <1>1 DEF IInv, Identity, HandlerKnows, AccountOps
  <1>3. account'[u] # NoRow /\ account'[u].block \in Nat
    BY <1>1, <1>2 DEF IInv, HandlerKnows, TypeOK, Row
  <1>4. CASE SameAttempt(s)
    <2>1. /\ pc[s] = "loginWait" /\ u = buff[s].id /\ local'[s] = local[s]
          /\ local[s].at \in Nat /\ local[s].at <= now
      BY <1>4 DEF SameAttempt, IInv, TypeOK, Local, Dated
    <2>2. account[u] # NoRow /\ account[u].block \in Nat
      BY <1>2, <2>1 DEF IInv, HandlerKnows, TypeOK, Row
    <2>3. account'[u].block \in {account[u].block, now}
      BY <1>2, <2>2, NextRow DEF RowEffect, Inserted, Rewritten
    <2>4. now < account[u].block + LockTime => local[s].at <= account[u].block
      BY <2>1 DEF BlockStopsNewAttempts
    <2>5. CASE account'[u].block = now BY <1>3, <2>1, <2>5
    <2>6. CASE account'[u].block = account[u].block
      BY <1>1, <1>3, <2>1, <2>2, <2>4, <2>6
    <2> QED BY <2>3, <2>5, <2>6
  <1>5. CASE NewAttempt(s)
    BY <1>1, <1>3, <1>5 DEF NewAttempt, Blocked
  <1> QED BY <1>4, <1>5, NextAttempt

\* For any number of sessions and any timing: once three errors have locked an
\* account, Login judges no answer to a challenge sent after the lock, until
\* the lock has run out.
THEOREM BlockIsEffective == Spec => []BlockStopsNewAttempts
  <1>1. Init => BlockStopsNewAttempts BY DEF Init, BlockStopsNewAttempts
  <1>2. IInv /\ BlockStopsNewAttempts /\ [Next]_vars => BlockStopsNewAttempts'
    BY BlockPreserved
  <1> QED BY <1>1, <1>2, Invariance, PTL DEF Spec

-----------------------------------------------------------------------------
(* Clients that keep apart.                                                *)

\* The step of a session leaves the variables of the others alone.
LEMMA OthersKept ==
    ASSUME IInv, NEW q \in Sessions, Dispatch(q) \/ ClientAnswer(q) \/ HandlerStep(q),
           NEW r \in Sessions, r # q
    PROVE  UNCHANGED <<pc[r], local[r], buff[r], userId[r], conn[r]>>
  <1>1. TypeOK BY DEF IInv
  <1>2. pc'[r] = pc[r] /\ local'[r] = local[r] /\ buff'[r] = buff[r]
    BY DispatchAttempt, AnswerAttempt, HandlerAttempt DEF AttemptEffect, SameAttempt
  <1>3. CASE Dispatch(q)
    BY <1>2, <1>3
    DEF Dispatch, RegisterQuery, LoginQuery, AdminLoginQuery, ResetQuery, UnfreezeQuery,
        UpdateQuery, GetRequest, ProcessBegin
  <1>4. CASE ClientAnswer(q)
    BY <1>1, <1>2, <1>4
    DEF ClientAnswer, RegisterAdd, UpdateRepeat, UpdateAccept, LoginWrong, LoginRight,
        AdminLoginWrong, AdminLoginRight, TypeOK
  <1>5. CASE HandlerStep(q)
    BY <1>2, <1>5
    DEF HandlerStep, LoginWrite, AdminLoginWrite, ResetSet, UnfreezeSet, FlagSet,
        UpdatePast, UpdateInsert, UpdateTime, UpdateChain, ProcessOne, PassInsert, PassReset,
        ProcessEnd
  <1> QED BY <1>3, <1>4, <1>5

\* What a thread knows stays; its client may vanish meanwhile.
Kept(s) ==
    UNCHANGED <<pc[s], local[s], buff[s], userId[s]>> /\ (conn'[s] => conn[s])

\* From the point of view of a session: a step is one of its own handler, or
\* takes it out of every handler, or leaves it where it is.
LEMMA OwnOrKept ==
    ASSUME IInv, [Next]_vars, NEW s \in Sessions
    PROVE  \/ Dispatch(s) \/ ClientAnswer(s) \/ HandlerStep(s)
           \/ pc'[s] \in {"idle", "closed"}
           \/ Kept(s)
  <1>1. TypeOK BY DEF IInv
  <1>2. ASSUME NEW ss \in SUBSET Sessions, Forget(ss)
        PROVE  pc'[s] = "closed" \/ Kept(s)
    BY <1>2 DEF Forget, Kept
  <1>3. ASSUME NEW q \in Sessions, Dispatch(q) \/ ClientAnswer(q) \/ HandlerStep(q), q # s
        PROVE  Kept(s)
    BY <1>3, OthersKept DEF Kept
  <1>4. ASSUME NEW q \in Sessions, ConnectionStep(q)
        PROVE  pc'[s] \in {"idle", "closed"} \/ Kept(s)
    <2>1. CASE Logout(q) \/ ParseFailure(q)
      BY <1>2, <2>1 DEF Logout, ParseFailure, ServerDies
    <2>2. CASE Accept(q)
      <3>1. CASE s = q BY <1>1, <2>2, <3>1 DEF Accept, TypeOK
      <3>2. CASE s # q BY <1>1, <2>2, <3>2 DEF Accept, TypeOK, Kept
      <3> QED BY <3>1, <3>2
    <2>3. CASE ReceiveError(q)
      <3>1. CASE s = q BY <1>1, <2>3, <3>1 DEF ReceiveError, Return, TypeOK
      <3>2. CASE s # q BY <1>1, <2>3, <3>2 DEF ReceiveError, Return, TypeOK, Kept
      <3> QED BY <3>1, <3>2
    <2>4. CASE Drop(q) BY <1>1, <2>4 DEF Drop, TypeOK, Kept
    <2> QED BY <1>4, <2>1, <2>2, <2>3, <2>4 DEF ConnectionStep
  <1>5. CASE Crash BY <1>2, <1>5 DEF Crash, ServerDies
  <1>6. CASE Tick \/ UNCHANGED vars BY <1>6 DEF Tick, vars, sessionVars, Kept
  <1> QED BY <1>3, <1>4, <1>5, <1>6 DEF Next

\* Whoever stores a credential is at work on the account.
LEMMA StoresWorksOn ==
    ASSUME IInv, NEW s \in Sessions, NEW u \in Users, Stores(s, u)
    PROVE  u \in WorksOn(s) /\ pc'[s] # pc[s]
  <1>1. CASE LoginStores(s, u) BY <1>1 DEF LoginStores, WorksOn
  <1>2. CASE UpdateStores(s, u) BY <1>2 DEF UpdateStores, WorksOn
  <1>3. CASE ResetStores(s, u)
    <2>1. pc[s] = "passReset" /\ pc'[s] = "process" /\ u \in todo[s]
      BY <1>3 DEF ResetStores, IInv, HandlerKnows
    <2> QED BY <2>1 DEF WorksOn
  <1> QED BY <1>1, <1>2, <1>3 DEF Stores

\* While a handler is at work on an account, nobody else replaces its credential.
LEMMA ApartRow ==
    ASSUME IInv, Apart, [Next]_vars, NEW s \in Sessions, pc'[s] = pc[s],
           NEW u \in Users, u \in WorksOn(s), account[u] # NoRow
    PROVE  account'[u] # NoRow /\ account'[u].cred = account[u].cred
  <1>1. \A q \in Sessions : ~Stores(q, u)
    BY StoresWorksOn DEF Apart
  <1>2. RowEffect(u) BY NextRow
  <1> QED BY <1>1, <1>2 DEF RowEffect, Inserted, Rewritten

\* Three statements write the tables of the past passwords and of the
\* administrators.
LEMMA NextHistory ==
    ASSUME [Next]_vars
    PROVE  \/ password' = password
           \/ \E s \in Sessions : \/ UpdateInsert(s)
                                  \/ \E u \in Users : PassInsert(s, u)
  <1>1. ASSUME NEW s \in Sessions, Dispatch(s) PROVE password' = password
    BY <1>1 DEF Dispatch, RegisterQuery, LoginQuery, AdminLoginQuery, ResetQuery,
                UnfreezeQuery, UpdateQuery, GetRequest, ProcessBegin, tables
  <1>2. ASSUME NEW s \in Sessions, ClientAnswer(s) PROVE password' = password
    BY <1>2 DEF ClientAnswer, RegisterAdd, UpdateRepeat, UpdateAccept, LoginWrong,
                LoginRight, AdminLoginWrong, AdminLoginRight, tables
  <1>3. ASSUME NEW s \in Sessions, HandlerStep(s)
        PROVE  \/ password' = password \/ UpdateInsert(s)
               \/ \E u \in Users : PassInsert(s, u)
    BY <1>3 DEF HandlerStep, LoginWrite, AdminLoginWrite, ResetSet, UnfreezeSet,
                FlagSet, UpdatePast, UpdateTime, UpdateChain, ProcessOne, PassReset,
                ProcessEnd, tables
  <1>4. ASSUME NEW s \in Sessions, ConnectionStep(s) PROVE password' = password
    BY <1>4 DEF ConnectionStep, Accept, Logout, Drop, ReceiveError, ParseFailure,
                ServerDies, tables
  <1>5. CASE Crash \/ Tick \/ UNCHANGED vars
    BY <1>5 DEF Crash, ServerDies, Tick, vars, tables
  <1> QED BY <1>1, <1>2, <1>3, <1>4, <1>5 DEF Next

LEMMA NextAdministrator ==
    ASSUME [Next]_vars
    PROVE  administrator' = administrator \/ \E s \in Sessions : AdminLoginWrite(s)
  <1>1. ASSUME NEW s \in Sessions, Dispatch(s) PROVE administrator' = administrator
    BY <1>1 DEF Dispatch, RegisterQuery, LoginQuery, AdminLoginQuery, ResetQuery,
                UnfreezeQuery, UpdateQuery, GetRequest, ProcessBegin, tables
  <1>2. ASSUME NEW s \in Sessions, ClientAnswer(s) PROVE administrator' = administrator
    BY <1>2 DEF ClientAnswer, RegisterAdd, UpdateRepeat, UpdateAccept, LoginWrong,
                LoginRight, AdminLoginWrong, AdminLoginRight, tables
  <1>3. ASSUME NEW s \in Sessions, HandlerStep(s), ~AdminLoginWrite(s)
        PROVE  administrator' = administrator
    BY <1>3 DEF HandlerStep, LoginWrite, ResetSet, UnfreezeSet, FlagSet, UpdatePast,
                UpdateInsert, UpdateTime, UpdateChain, ProcessOne, PassInsert, PassReset,
                ProcessEnd, tables
  <1>4. ASSUME NEW s \in Sessions, ConnectionStep(s) PROVE administrator' = administrator
    BY <1>4 DEF ConnectionStep, Accept, Logout, Drop, ReceiveError, ParseFailure,
                ServerDies, tables
  <1>5. CASE Crash \/ Tick \/ UNCHANGED vars
    BY <1>5 DEF Crash, ServerDies, Tick, vars, tables
  <1> QED BY <1>1, <1>2, <1>3, <1>4, <1>5 DEF Next

\* While a handler is at work on an account, nobody else writes its history.
LEMMA ApartHistory ==
    ASSUME IInv, Apart, [Next]_vars, NEW s \in Sessions, pc'[s] = pc[s],
           NEW u \in Users, u \in WorksOn(s)
    PROVE  password'[u] = password[u]
  <1>1. TypeOK BY DEF IInv
  <1>2. ASSUME NEW q \in Sessions, UpdateInsert(q) PROVE password'[u] = password[u]
    <2>1. pc[q] = "updateInsert" /\ pc'[q] = "updateTime" /\ userId[q] \in Users
      BY <1>1, <1>2 DEF UpdateInsert, Continue, TypeOK, IInv, HandlerKnows, Updating
    <2>2. userId[q] \in WorksOn(q) BY <2>1 DEF WorksOn
    <2>3. userId[q] # u BY <2>1, <2>2 DEF Apart
    <2> QED BY <1>1, <1>2, <2>1, <2>3 DEF UpdateInsert, InsertPast, TypeOK
  <1>3. ASSUME NEW q \in Sessions, NEW v \in Users, PassInsert(q, v)
        PROVE  password'[u] = password[u]
    <2>1. pc[q] = "process" /\ pc'[q] = "passReset" /\ v \in todo[q]
      BY <1>1, <1>3 DEF PassInsert, Continue, TypeOK
    <2>2. v \in WorksOn(q) BY <2>1 DEF WorksOn
    <2>3. v # u BY <2>1, <2>2 DEF Apart
    <2> QED BY <1>1, <1>3, <2>3 DEF PassInsert, InsertPast, TypeOK
  <1> QED BY <1>2, <1>3, NextHistory

\* The same for the row of an administrator.
LEMMA ApartAdministrator ==
    ASSUME IInv, Apart, [Next]_vars, NEW s \in Sessions, pc'[s] = pc[s],
           NEW a \in Admins, a \in WorksOn(s)
    PROVE  administrator'[a] = administrator[a]
  <1>1. TypeOK BY DEF IInv
  <1>2. ASSUME NEW q \in Sessions, AdminLoginWrite(q)
        PROVE  administrator'[a] = administrator[a]
    <2>1. pc[q] = "adminWrite" /\ pc'[q] = "idle" /\ userId[q] \in Admins
      BY <1>1, <1>2 DEF AdminLoginWrite, Return, TypeOK, IInv, HandlerKnows
    <2>2. userId[q] \in WorksOn(q) BY <2>1 DEF WorksOn
    <2>3. userId[q] # a BY <2>1, <2>2 DEF Apart
    <2> QED BY <1>1, <1>2, <2>1, <2>3 DEF AdminLoginWrite, TypeOK
  <1> QED BY <1>2, NextAdministrator

\* The credential a handler has read is still the one in the table.
Current(s) ==
    /\ pc[s] = "loginWait" => account[buff[s].id].cred = local[s].cred
    /\ pc[s] \in {"loginWrite"} \cup Updating => account[userId[s]].cred = local[s].cred
    /\ pc[s] = "adminWait" => administrator[buff[s].id] = local[s].cred
    /\ pc[s] = "adminWrite" => administrator[userId[s]] = local[s].cred

AllCurrent == \A s \in Sessions : Current(s)

CurrentLabels == {"loginWait", "loginWrite", "adminWait", "adminWrite"} \cup Updating

\* Where Current says nothing.
LEMMA ElsewhereCurrent ==
    ASSUME NEW s \in Sessions, pc'[s] \notin CurrentLabels
    PROVE  Current(s)'
  BY DEF CurrentLabels, Current

LEMMA ReturnElsewhere ==
    ASSUME TypeOK, NEW s \in Sessions, NEW signal, Return(s, signal)
    PROVE  pc'[s] \notin CurrentLabels
  BY DEF Return, TypeOK, CurrentLabels, Updating

LEMMA ContinueElsewhere ==
    ASSUME TypeOK, NEW s \in Sessions, NEW signal, NEW l,
           NEW label \in {"registerWait", "resetSet", "unfreezeSet", "process", "passReset"},
           Continue(s, label, signal, l)
    PROVE  pc'[s] \notin CurrentLabels
  BY DEF Continue, TypeOK, CurrentLabels, Updating

\* What Challenge stores is what the query has just read.
LEMMA ChallengeCurrent ==
    ASSUME TypeOK, NEW s \in Sessions, NEW label, NEW c, NEW l \in Local,
           Challenge(s, label, c, l)
    PROVE  pc'[s] = label /\ local'[s].cred = c
  <1> DEFINE rnd == IF c.chal <= 1 THEN GetRandomString(now) ELSE 0
             k   == [l EXCEPT !.cred = c, !.at = now, !.newRnd = rnd]
  <1>1. k.cred = c BY DEF Local
  <1>2. pc'[s] = label /\ local'[s] = k BY DEF Challenge, Continue, TypeOK
  <1> QED BY <1>1, <1>2

LEMMA DispatchCurrent ==
    ASSUME IInv, NEW s \in Sessions, Dispatch(s)
    PROVE  Current(s)'
  <1>1. TypeOK BY DEF IInv
  <1>2. PICK m \in ClientMessages(s) \cup {buff[s]} :
            \/ RegisterQuery(s, m) \/ LoginQuery(s, m) \/ AdminLoginQuery(s, m)
            \/ ResetQuery(s, m) \/ UnfreezeQuery(s, m) \/ UpdateQuery(s, m)
            \/ GetRequest(s, m) \/ ProcessBegin(s, m)
    BY DEF Dispatch
  <1>3. CASE pc'[s] \notin CurrentLabels BY <1>3, ElsewhereCurrent
  <1>4. CASE LoginQuery(s, m)
    <2>1. buff'[s] = m /\ UNCHANGED account
      BY <1>4, BuffReceived DEF LoginQuery, tables
    <2>2. CASE \E signal : Return(s, signal)
      BY <1>1, <1>3, <2>2, ReturnElsewhere
    <2> DEFINE row == account[m.id]
               l   == [NoLocal EXCEPT !.first = FirstError(row, now),
                                      !.due = UpdateDue(row, now)]
    <2>3. CASE Challenge(s, "loginWait", row.cred, l)
      <3>1. FirstError(row, now) \in BOOLEAN /\ UpdateDue(row, now) \in BOOLEAN
        BY DEF FirstError, UpdateDue
      <3>2. l \in Local BY <3>1, NoLocalType, LocalDatesType
      <3> HIDE DEF l
      <3>3. pc'[s] = "loginWait" /\ local'[s].cred = row.cred
        BY <1>1, <2>3, <3>2, ChallengeCurrent
      <3> QED BY <2>1, <3>3 DEF Current, Updating
    <2> QED BY <1>4, <2>2, <2>3 DEF LoginQuery
  <1>5. CASE AdminLoginQuery(s, m)
    <2>1. buff'[s] = m /\ UNCHANGED administrator
      BY <1>5, BuffReceived DEF AdminLoginQuery, tables
    <2>2. CASE Return(s, "S_FAILED")
      BY <1>1, <1>3, <2>2, ReturnElsewhere
    <2>3. CASE Challenge(s, "adminWait", administrator[m.id], NoLocal)
      BY <1>1, <2>1, <2>3, NoLocalType, ChallengeCurrent DEF Current, Updating
    <2> QED BY <1>5, <2>2, <2>3 DEF AdminLoginQuery
  <1>6. CASE UpdateQuery(s, m)
    <2> DEFINE c   == account[userId[s]].cred
    <2>1. /\ pc'[s] = "updatePast"
          /\ local'[s] = [NoLocal EXCEPT !.cred = c]
          /\ UNCHANGED <<account, userId>>
      BY <1>1, <1>6 DEF UpdateQuery, Continue, TypeOK, tables
    <2> HIDE DEF c
    <2>2. local'[s].cred = c BY <2>1 DEF NoLocal
    <2> QED BY <2>1, <2>2 DEF Current, Updating, c
  <1>7. CASE \/ RegisterQuery(s, m) \/ ResetQuery(s, m) \/ UnfreezeQuery(s, m)
             \/ GetRequest(s, m) \/ ProcessBegin(s, m)
    <2>1. \/ \E signal : Return(s, signal)
          \/ \E label \in {"registerWait", "resetSet", "unfreezeSet", "process"} :
                \E signal, l : Continue(s, label, signal, l)
      BY <1>7 DEF RegisterQuery, ResetQuery, UnfreezeQuery, GetRequest, ProcessBegin
    <2> QED BY <1>1, <1>3, <2>1, ReturnElsewhere, ContinueElsewhere
  <1> QED BY <1>2, <1>4, <1>5, <1>6, <1>7

\* An answer that is accepted keeps what was read.
LEMMA AcceptedCurrent ==
    ASSUME TypeOK, NEW s \in Sessions, NEW label, NEW signal, NEW v,
           Continue(s, label, signal, [local[s] EXCEPT !.newIter = v])
    PROVE  pc'[s] = label /\ local'[s].cred = local[s].cred
  <1>1. pc'[s] = label /\ local'[s] = [local[s] EXCEPT !.newIter = v]
    BY DEF Continue, TypeOK
  <1> QED BY <1>1 DEF TypeOK, Local

LEMMA AnswerCurrent ==
    ASSUME IInv, NEW s \in Sessions, Current(s), ClientAnswer(s)
    PROVE  Current(s)'
  <1>1. TypeOK BY DEF IInv
  <1>2. ASSUME NEW pw \in AllPasswords, LoginRight(s, pw) PROVE Current(s)'
    <2>1. pc[s] = "loginWait" /\ userId'[s] = buff[s].id /\ account' = account
      BY <1>1, <1>2 DEF LoginRight, TypeOK, tables
    <2>2. pc'[s] = "loginWrite" /\ local'[s].cred = local[s].cred
      BY <1>1, <1>2, AcceptedCurrent DEF LoginRight
    <2> QED BY <2>1, <2>2 DEF Current, Updating
  <1>3. ASSUME NEW pw \in AllPasswords, AdminLoginRight(s, pw) PROVE Current(s)'
    <2>1. /\ pc[s] = "adminWait" /\ userId'[s] = buff[s].id
          /\ administrator' = administrator
      BY <1>1, <1>3 DEF AdminLoginRight, TypeOK, tables
    <2>2. pc'[s] = "adminWrite" /\ local'[s].cred = local[s].cred
      BY <1>1, <1>3, AcceptedCurrent DEF AdminLoginRight
    <2> QED BY <2>1, <2>2 DEF Current, Updating
  <1>4. ASSUME NEW pw \in Passwords, UpdateAccept(s, pw) PROVE Current(s)'
    <2>1. pc[s] = "updateWait" /\ userId'[s] = userId[s] /\ account' = account
      BY <1>4 DEF UpdateAccept, tables
    <2>2. pc'[s] = "updateInsert" /\ local'[s].cred = local[s].cred
      BY <1>1, <1>4, AcceptedCurrent DEF UpdateAccept
    <2> QED BY <2>1, <2>2 DEF Current, Updating
  <1>5. CASE \/ \E pw \in Passwords : RegisterAdd(s, pw) \/ UpdateRepeat(s, pw)
             \/ \E pw \in AllPasswords : LoginWrong(s, pw) \/ AdminLoginWrong(s, pw)
    <2>1. \E signal : Return(s, signal)
      BY <1>5 DEF RegisterAdd, UpdateRepeat, LoginWrong, AdminLoginWrong
    <2> QED BY <1>1, <2>1, ReturnElsewhere, ElsewhereCurrent
  <1> QED BY <1>2, <1>3, <1>4, <1>5 DEF ClientAnswer

\* The statements that date a change keep the credential it replaces.
LEMMA UpdateTimeCurrent ==
    ASSUME IInv, NEW s \in Sessions, Current(s), UpdateTime(s)
    PROVE  Current(s)'
  <1>1. TypeOK /\ now \in Nat /\ pc[s] = "updateTime"
    BY DEF IInv, TypeOK, UpdateTime
  <1>2. userId[s] \in Users /\ account[userId[s]] \in Row /\ account[userId[s]] # NoRow
    BY <1>1 DEF IInv, TypeOK, Identity, HandlerKnows, Updating
  <1> DEFINE u   == userId[s]
             new == [account[u] EXCEPT !.update = Date(now)]
  <1>3. /\ new \in RowBefore /\ new.block = account[u].block
        /\ new.cred = account[u].cred
    BY <1>1, <1>2, DateType, SetUpdateType
  <1>4. /\ UpdateAccount(u, new) /\ userId' = userId
        /\ pc'[s] = "updateChain" /\ local'[s] = local[s]
    BY <1>1 DEF UpdateTime, Continue, TypeOK
  <1> HIDE DEF new
  <1>5. account'[u].cred = account[u].cred BY <1>2, <1>3, <1>4, UpdateRow
  <1> QED BY <1>1, <1>4, <1>5 DEF Current, Updating

LEMMA HandlerCurrent ==
    ASSUME IInv, NEW s \in Sessions, Current(s), HandlerStep(s)
    PROVE  Current(s)'
  <1>1. TypeOK BY DEF IInv
  <1>2. CASE UpdateTime(s) BY <1>2, UpdateTimeCurrent
  <1>3. CASE UpdateInsert(s)
    <2>1. /\ pc[s] = "updateInsert" /\ pc'[s] = "updateTime"
          /\ local'[s] = local[s] /\ UNCHANGED <<account, userId>>
      BY <1>1, <1>3 DEF UpdateInsert, Continue, TypeOK
    <2> QED BY <2>1 DEF Current, Updating
  <1>4. CASE \E u \in Users : ProcessOne(s, u)
    BY <1>4, ElsewhereCurrent DEF ProcessOne, CurrentLabels, Updating
  <1>5. CASE \/ LoginWrite(s) \/ AdminLoginWrite(s) \/ ResetSet(s) \/ UnfreezeSet(s)
             \/ UpdateChain(s) \/ PassReset(s) \/ ProcessEnd(s)
             \/ \E u \in Users : PassInsert(s, u)
    <2>1. \/ \E signal : Return(s, signal)
          \/ \E label \in {"passReset", "process"} :
                \E signal, l : Continue(s, label, signal, l)
      BY <1>5 DEF LoginWrite, AdminLoginWrite, ResetSet, UnfreezeSet, FlagSet,
                  UpdateChain, PassInsert, PassReset, ProcessEnd
    <2> QED BY <1>1, <2>1, ReturnElsewhere, ContinueElsewhere, ElsewhereCurrent
  <1>6. CASE UpdatePast(s)
    <2> DEFINE P   == GetPastPassword(password[userId[s]])
               rnd == GetRandomString(now)
    <2>1. /\ pc[s] = "updatePast" /\ pc'[s] = "updateWait"
          /\ local'[s] = [local[s] EXCEPT !.past = P, !.newRnd = rnd]
          /\ UNCHANGED <<account, userId>>
      BY <1>1, <1>6 DEF UpdatePast, Continue, TypeOK, tables
    <2> HIDE DEF P, rnd
    <2>2. local'[s].cred = local[s].cred BY <1>1, <2>1 DEF TypeOK, Local
    <2> QED BY <2>1, <2>2 DEF Current, Updating
  <1> QED BY <1>2, <1>3, <1>4, <1>5, <1>6 DEF HandlerStep

\* As long as clients keep apart, nobody changes a credential behind the back
\* of a handler that has read it.
LEMMA ApartCurrent ==
    ASSUME IInv, Apart, [Next]_vars, NEW s \in Sessions, Current(s)
    PROVE  Current(s)'
  <1>1. CASE Dispatch(s) \/ ClientAnswer(s) \/ HandlerStep(s)
    BY <1>1, DispatchCurrent, AnswerCurrent, HandlerCurrent
  <1>2. CASE pc'[s] \in {"idle", "closed"}
    BY <1>2, ElsewhereCurrent DEF CurrentLabels, Updating
  <1>3. CASE Kept(s)
    <2>1. UNCHANGED <<pc[s], local[s], buff[s], userId[s]>> BY <1>3 DEF Kept
    <2>2. CASE pc[s] = "loginWait"
      <3>1. /\ buff[s].id \in Users /\ account[buff[s].id] # NoRow
            /\ buff[s].id \in WorksOn(s)
        BY <2>2 DEF IInv, Identity, HandlerKnows, AccountOps, WorksOn
      <3>2. account'[buff[s].id].cred = account[buff[s].id].cred
        BY <2>1, <3>1, ApartRow
      <3> QED BY <2>1, <2>2, <3>2 DEF Current, Updating
    <2>3. CASE pc[s] \in {"loginWrite"} \cup Updating
      <3>1. userId[s] \in Users BY <2>3 DEF IInv, HandlerKnows
      <3>2. account[userId[s]] # NoRow BY <3>1 DEF IInv, Identity
      <3>3. userId[s] \in WorksOn(s) BY <2>3 DEF WorksOn, Updating
      <3>4. account'[userId[s]].cred = account[userId[s]].cred
        BY <2>1, <3>1, <3>2, <3>3, ApartRow
      <3> QED BY <2>1, <2>3, <3>4 DEF Current, Updating
    <2>4. CASE pc[s] = "adminWait"
      <3>1. buff[s].id \in Admins /\ buff[s].id \in WorksOn(s)
        BY <2>4 DEF IInv, HandlerKnows, WorksOn
      <3>2. administrator'[buff[s].id] = administrator[buff[s].id]
        BY <2>1, <3>1, ApartAdministrator
      <3> QED BY <2>1, <2>4, <3>2 DEF Current, Updating
    <2>5. CASE pc[s] = "adminWrite"
      <3>1. userId[s] \in Admins /\ userId[s] \in WorksOn(s)
        BY <2>5 DEF IInv, HandlerKnows, WorksOn
      <3>2. administrator'[userId[s]] = administrator[userId[s]]
        BY <2>1, <3>1, ApartAdministrator
      <3> QED BY <2>1, <2>5, <3>2 DEF Current, Updating
    <2>6. CASE pc[s] \notin CurrentLabels BY <2>1, <2>6, ElsewhereCurrent
    <2> QED BY <2>2, <2>3, <2>4, <2>5, <2>6 DEF CurrentLabels
  <1> QED BY <1>1, <1>2, <1>3, OwnOrKept

\* A login that is current is not stale.
LEMMA ApartNotStale ==
    ASSUME AllCurrent
    PROVE  \A q \in Sessions, u \in Users : ~StaleLogin(q, u)
  BY DEF AllCurrent, Current, StaleLogin

\* The administrators' chains: only AdminLogin writes them.
LEMMA AdministratorSync ==
    ASSUME IInv, [Next]_vars, AllCurrent, NEW a \in Admins, InSync(administrator[a])
    PROVE  InSync(administrator'[a])
  <1>1. CASE administrator' = administrator BY <1>1
  <1>2. ASSUME NEW s \in Sessions, AdminLoginWrite(s) PROVE InSync(administrator'[a])
    <2> DEFINE l == local[s]
               c == administrator[userId[s]]
    <2>1. /\ pc[s] = "adminWrite" /\ c = l.cred /\ NewIterate(s)
          /\ administrator \in [Admins -> Credential] /\ userId[s] \in Admins
      BY <1>2 DEF AdminLoginWrite, AllCurrent, Current, IInv, TypeOK, HandlerKnows
    <2>2. administrator' = [administrator EXCEPT ![userId[s]] =
              Advanced(c, l.newIter, l.cred.chal <= 1, l.newRnd)]
      BY <1>2, <2>1 DEF AdminLoginWrite
    <2>3. InSync(Advanced(c, l.newIter, l.cred.chal <= 1, l.newRnd))
      <3>1. c \in Credential /\ c.chal \in Int BY <2>1 DEF Credential
      <3>2. CASE c.chal <= 1
        <4>1. l.newIter.rnd = l.newRnd /\ l.newIter.n = DefaultChallenge + 1
          BY <2>1, <3>2 DEF NewIterate, FreshChain
        <4>2. Advanced(c, l.newIter, l.cred.chal <= 1, l.newRnd)
                  = Advanced(c, l.newIter, TRUE, l.newRnd)
          BY <2>1, <3>2 DEF Advanced
        <4> QED BY <4>1, <4>2, FreshInSync
      <3>3. CASE ~(c.chal <= 1)
        <4>1. l.newIter.rnd = c.rnd /\ l.newIter.n = c.chal /\ c.chal > 1
          BY <2>1, <3>1, <3>3 DEF NewIterate
        <4>2. Advanced(c, l.newIter, l.cred.chal <= 1, l.newRnd)
                  = Advanced(c, l.newIter, FALSE, l.newRnd)
          BY <2>1, <3>3 DEF Advanced
        <4> HIDE DEF c, l
        <4> QED BY <3>1, <4>1, <4>2, CountdownInSync
      <3> QED BY <3>2, <3>3
    <2> HIDE DEF c, l
    <2> QED BY <2>1, <2>2, <2>3
  <1> QED BY <1>1, <1>2, NextAdministrator

LEMMA SyncInit ==
    ASSUME Init
    PROVE  AllInSync
  BY ServerAssumption
  DEF Init, AllInSync, AccountInSync, InSync, PasswdToMD5, ServerAssumption

LEMMA CurrentSync ==
    ASSUME IInv, AllCurrent, AllInSync, [Next]_vars
    PROVE  AllInSync'
  <1>1. ASSUME NEW u \in Users PROVE AccountInSync(u)'
    BY DesyncStep, ApartNotStale DEF AllInSync
  <1>2. ASSUME NEW a \in Admins PROVE InSync(administrator'[a])
    BY AdministratorSync DEF AllInSync
  <1> QED BY <1>1, <1>2 DEF AllInSync

LEMMA CurrentInit ==
    ASSUME Init
    PROVE  AllCurrent
  BY DEF Init, AllCurrent, Current, Updating

\* What every handler has read stays true as long as clients keep apart.
LEMMA ApartInvariance == Spec /\ []Apart => [](IInv /\ AllCurrent)
  <1>1. Init => AllCurrent BY CurrentInit
  <1>2. IInv /\ Apart /\ AllCurrent /\ [Next]_vars => AllCurrent'
    BY ApartCurrent DEF AllCurrent
  <1> QED BY <1>1, <1>2, Invariance, PTL DEF Spec

\* A single client keeps apart from all the others.
LEMMA SerialApart ==
    ASSUME NEW q, Sessions = {q}
    PROVE  Apart
  BY DEF Apart

\* What the server promises to any number of clients that work on accounts of
\* their own: whatever it does, and wherever one of them or the server stops,
\* the next right answer of everybody will be accepted.
THEOREM ApartInSync == Spec /\ []Apart => []AllInSync
  <1>1. Init => AllInSync BY SyncInit
  <1>2. IInv /\ AllCurrent /\ AllInSync /\ [Next]_vars => AllInSync' BY CurrentSync
  <1> QED BY <1>1, <1>2, ApartInvariance, PTL DEF Spec

\* And its password changes only when it changes it, or when it is granted a
\* reset.
THEOREM ApartPasswords == Spec /\ []Apart => PasswordChangesOnlyByOwnerOrGrant
  <1>1. IInv /\ AllCurrent /\ [Next]_vars
            => [\A u \in Users :
                   account[u] # NoRow
                       => /\ account'[u] # NoRow
                          /\ account'[u].cred.iter.pw # account[u].cred.iter.pw
                                 => \E s \in Sessions : \/ ChangedByOwner(s, u)
                                                        \/ ChangedByGrant(s, u)]_vars
    BY PasswordStep, ApartNotStale
  <1> QED BY <1>1, ApartInvariance, PTL
          DEF Spec, PasswordChangesOnlyByOwnerOrGrant, ChangedByOwner, ChangedByGrant

\* One client at a time needs no premise: its next right answer, and that of
\* everybody else, will be accepted, wherever it or the server stops.
THEOREM SerialInSync ==
    ASSUME NEW q, Sessions = {q}
    PROVE  Spec => []AllInSync
  <1>1. Apart BY SerialApart
  <1> QED BY <1>1, ApartInSync, PTL

\* One client at a time: a password changes by its owner's completed change or by
\* a grant, in no other way.
THEOREM SerialPasswords ==
    ASSUME NEW q, Sessions = {q}
    PROVE  Spec => PasswordChangesOnlyByOwnerOrGrant
  <1>1. Apart BY SerialApart
  <1> QED BY <1>1, ApartPasswords, PTL
=============================================================================
