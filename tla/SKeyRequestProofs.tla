------------------------- MODULE SKeyRequestProofs -------------------------
(***************************************************************************)
(* Requests and dates: Login and Unfreeze agree on who is frozen, as long  *)
(* as clients keep apart a reset password has to be changed, and one       *)
(* client at a time a grant meets a standing request.                      *)
(***************************************************************************)
EXTENDS SKeyRefinementProofs

-----------------------------------------------------------------------------
(* Freezing.                                                               *)

\* For any number of sessions: whom Login calls frozen, Unfreeze does not call
\* unfrozen on the same day, as long as the period written into Unfreeze is at
\* most one day longer than the setting Login reads.
THEOREM FrozenIsUnfrozen ==
    ASSUME UnfreezePeriod <= NoLoginPeriod + 1
    PROVE  Spec => FrozenMayAskUnfreeze
  <1>1. ASSUME IInv, NEW s \in Sessions, UnfreezeQuery(s, buff'[s]),
               account[buff'[s].id] # NoRow,
               Frozen(account[buff'[s].id], now)
        PROVE  reply'[s] # "S_FAILED"
    <2> DEFINE m   == buff'[s]
               row == account[m.id]
    <2>1. TypeOK /\ m.id \in Users /\ m.op = "C_UNFREEZE"
      BY <1>1, BuffReceived DEF IInv, UnfreezeQuery, Fits, AccountOps
    <2>2. row \in Row /\ now \in Nat BY <1>1, <2>1 DEF TypeOK
    <2>3. ~UnfreezeRefused(row, now)
      <3> DEFINE d == Date(now)
      <3>1. row.login \in Nat /\ d \in Nat BY <2>2, DateType DEF Row
      <3>2. row.login + NoLoginPeriod < d BY <1>1 DEF Frozen
      <3>3. NoLoginPeriod \in Nat /\ UnfreezePeriod \in Nat
        BY DataAssumption DEF DataAssumption
      <3> HIDE DEF d, row
      <3>4. ~(row.login + UnfreezePeriod > d) BY <3>1, <3>2, <3>3
      <3> QED BY <3>4 DEF UnfreezeRefused, d
    <2>4. \/ Return(s, "S_REPEAT")
          \/ Continue(s, "unfreezeSet", "none", NoLocal)
      BY <1>1, <2>3 DEF UnfreezeQuery
    <2> QED BY <2>1, <2>4 DEF Return, Continue, TypeOK
  <1>2. IInv /\ [Next]_vars
            => [\A s \in Sessions :
                  LET u == buff'[s].id IN
                  UnfreezeQuery(s, buff'[s]) /\ account[u] # NoRow
                  /\ Frozen(account[u], now)
                      => reply'[s] # "S_FAILED"]_vars
    BY <1>1
  <1> QED BY <1>2, Invariance, PTL DEF Spec, FrozenMayAskUnfreeze

-----------------------------------------------------------------------------
(* Resets.                                                                 *)

\* A grant needs a batch of type 1 and mode 1.
Granting(s) == buff[s].type = 1 /\ Mode(s) = 1

\* What the window shows is what stands, and what a grant has still to do too.
Asked(s) ==
    /\ pc[s] # "closed" => conn[s]
    /\ buff[s].op = "C_GET_REQUEST" =>
           pc[s] = "idle" /\ table[s] \subseteq Requests(buff[s].type)
    /\ pc[s] \in {"process", "passReset"} /\ Granting(s) => todo[s] \subseteq Requests(1)
    /\ pc[s] = "passReset" => Granting(s)

\* A grant or a rejection is of rows the window shows, of the list it has
\* just been sent.
LEMMA BatchFromTable ==
    ASSUME IInv, NEW s \in Sessions, NEW m, Receive(s, m), conn[s],
           m.op \in {"C_REQUEST_PASS", "C_REQUEST_REJECT"}
    PROVE  /\ buff[s].op = "C_GET_REQUEST"
           /\ m.type = buff[s].type /\ m.ids \subseteq table[s]
  <1>1. TypeOK /\ m \in ClientMessages(s) BY DEF IInv, Receive
  <1>2. m \notin MainMessages /\ m # Msg("C_UPDATE_PASSWORD", NoUser)
    BY DEF MainMessages, Msg
  <1>3. userType[s] = 1 /\ m \in SecurityMessages(s)
    BY <1>1, <1>2 DEF ClientMessages
  <1>4. m \notin {Batch("C_GET_REQUEST", t, {}) : t \in {1, 2, RefreshType(s)}}
    BY DEF Batch
  <1>5. ~MustRefresh(s)
    BY <1>3, <1>4 DEF SecurityMessages
  <1> DEFINE batches == {Batch(op, buff[s].type, ids) :
                            op \in {"C_REQUEST_PASS", "C_REQUEST_REJECT"},
                            ids \in SUBSET table[s] \ {{}}}
  <1>6. m \in batches
    <2> DEFINE lists == {Batch("C_GET_REQUEST", t, {}) : t \in {1, 2}}
    <2>1. m \notin lists BY <1>4
    <2>2. SecurityMessages(s) = lists \cup batches BY <1>5 DEF SecurityMessages
    <2> HIDE DEF lists, batches
    <2> QED BY <1>3, <2>1, <2>2
  <1>7. m.type = buff[s].type /\ m.ids \subseteq table[s]
    BY <1>6 DEF Batch
  <1> QED BY <1>3, <1>5, <1>7 DEF MustRefresh

LEMMA DispatchAsked ==
    ASSUME IInv, NEW s \in Sessions, Asked(s), Dispatch(s)
    PROVE  Asked(s)'
  <1>1. TypeOK BY DEF IInv
  <1>2. PICK m \in ClientMessages(s) \cup {buff[s]} :
            \/ RegisterQuery(s, m) \/ LoginQuery(s, m) \/ AdminLoginQuery(s, m)
            \/ ResetQuery(s, m) \/ UnfreezeQuery(s, m) \/ UpdateQuery(s, m)
            \/ GetRequest(s, m) \/ ProcessBegin(s, m)
    BY DEF Dispatch
  <1>3. Receive(s, m) /\ UNCHANGED <<account, conn>>
    BY <1>2 DEF RegisterQuery, LoginQuery, AdminLoginQuery, ResetQuery, UnfreezeQuery,
                UpdateQuery, GetRequest, ProcessBegin, tables
  <1>4. pc[s] = "idle" /\ conn[s] /\ buff'[s] = m
    BY <1>3, BuffReceived DEF Asked, Receive
  <1>5. CASE GetRequest(s, m)
    BY <1>1, <1>3, <1>4, <1>5 DEF GetRequest, Return, TypeOK, Asked, Requests
  <1>6. CASE ProcessBegin(s, m)
    <2>1. /\ m.op \in {"C_REQUEST_PASS", "C_REQUEST_REJECT"}
          /\ pc'[s] = "process" /\ todo'[s] = m.ids
      BY <1>1, <1>6 DEF ProcessBegin, Continue, TypeOK
    <2>2. /\ buff[s].op = "C_GET_REQUEST"
          /\ m.type = buff[s].type /\ m.ids \subseteq table[s]
      BY <1>3, <1>4, <2>1, BatchFromTable
    <2>3. m.ids \subseteq Requests(m.type) BY <2>2 DEF Asked
    <2>4. Granting(s)' => m.type = 1 BY <1>4 DEF Granting
    <2>5. Granting(s)' => todo'[s] \subseteq Requests(1)'
      BY <1>3, <2>1, <2>3, <2>4 DEF Requests
    <2> QED BY <1>3, <1>4, <2>1, <2>5 DEF Asked
  <1>7. CASE \/ RegisterQuery(s, m) \/ LoginQuery(s, m) \/ AdminLoginQuery(s, m)
             \/ ResetQuery(s, m) \/ UnfreezeQuery(s, m) \/ UpdateQuery(s, m)
    <2>1. m.op # "C_GET_REQUEST"
      BY <1>7 DEF RegisterQuery, LoginQuery, AdminLoginQuery, ResetQuery,
                  UnfreezeQuery, UpdateQuery
    <2>2. \/ \E signal : Return(s, signal)
          \/ \E label \in {"registerWait", "loginWait", "adminWait", "resetSet",
                           "unfreezeSet", "updatePast"} :
                \E signal, l : Continue(s, label, signal, l)
      BY <1>7 DEF RegisterQuery, LoginQuery, AdminLoginQuery, ResetQuery,
                  UnfreezeQuery, UpdateQuery, Challenge
    <2>3. pc'[s] \notin {"process", "passReset"}
      BY <1>1, <2>2 DEF Return, Continue, TypeOK
    <2> QED BY <1>3, <1>4, <2>1, <2>3 DEF Asked
  <1> QED BY <1>2, <1>5, <1>6, <1>7

LEMMA AnswerAsked ==
    ASSUME IInv, NEW s \in Sessions, Asked(s), ClientAnswer(s)
    PROVE  Asked(s)'
  <1>1. TypeOK BY DEF IInv
  <1>2. pc[s] \in Waiting /\ UNCHANGED <<conn, buff>>
    BY DEF ClientAnswer, RegisterAdd, UpdateRepeat, UpdateAccept, LoginWrong,
           LoginRight, AdminLoginWrong, AdminLoginRight, Waiting
  <1>3. pc[s] \notin {"closed", "idle"} BY <1>2 DEF Waiting
  <1>4. \/ \E signal : Return(s, signal)
        \/ \E label \in {"loginWrite", "adminWrite", "updateInsert"} :
              \E signal, l : Continue(s, label, signal, l)
    BY DEF ClientAnswer, RegisterAdd, UpdateRepeat, UpdateAccept, LoginWrong,
           LoginRight, AdminLoginWrong, AdminLoginRight
  <1>5. pc'[s] \notin {"process", "passReset"}
    BY <1>1, <1>4 DEF Return, Continue, TypeOK
  <1> QED BY <1>2, <1>3, <1>5 DEF Asked

\* The second statement of a grant drops one request, the one it met.
LEMMA PassResetAsked ==
    ASSUME IInv, NEW s \in Sessions, Asked(s), PassReset(s)
    PROVE  Asked(s)'
  <1>1. TypeOK /\ pc[s] = "passReset" /\ Granting(s)
    BY DEF IInv, PassReset, Asked
  <1>2. local[s].cur \in Users BY <1>1 DEF IInv, TypeOK, HandlerKnows
  <1> DEFINE u   == local[s].cur
             new == ResetToDefault(account[u])
  <1>3. UpdateAccount(u, new) BY DEF PassReset
  <1>4. account[u] # NoRow => /\ new \in RowBefore /\ new.block = account[u].block
    BY <1>1, <1>2, ResetType DEF TypeOK
  <1> HIDE DEF new
  <1>5. \A v \in Users : v # u => account'[v] = account[v]
    BY <1>2, <1>3, <1>4, UpdateRow
  <1>6. /\ pc'[s] = "process" /\ todo'[s] = todo[s] \ {u}
        /\ UNCHANGED <<conn, buff>>
    BY <1>1 DEF PassReset, Continue, TypeOK
  <1>7. todo[s] \subseteq Requests(1) BY <1>1 DEF Asked
  <1>8. todo'[s] \subseteq Requests(1)'
    BY <1>5, <1>6, <1>7 DEF Requests
  <1> QED BY <1>1, <1>6, <1>8 DEF Asked

LEMMA HandlerAsked ==
    ASSUME IInv, NEW s \in Sessions, Asked(s), HandlerStep(s)
    PROVE  Asked(s)'
  <1>1. TypeOK BY DEF IInv
  <1>2. pc[s] \in Working /\ UNCHANGED <<conn, buff>>
    BY DEF HandlerStep, LoginWrite, AdminLoginWrite, ResetSet, UnfreezeSet, FlagSet,
           UpdatePast, UpdateInsert, UpdateTime, UpdateChain, ProcessOne, PassInsert,
           PassReset, ProcessEnd, Working
  <1>3. pc[s] \notin {"closed", "idle"} BY <1>2 DEF Working
  <1>4. conn'[s] /\ buff'[s].op # "C_GET_REQUEST" BY <1>2, <1>3 DEF Asked
  <1>5. CASE PassReset(s) BY <1>5, PassResetAsked
  <1>6. CASE \E u \in Users : PassInsert(s, u)
    <2>1. /\ pc[s] = "process" /\ Granting(s)
          /\ UNCHANGED <<account, buff, todo>>
      BY <1>6 DEF PassInsert, Granting
    <2>2. todo'[s] \subseteq Requests(1)' /\ Granting(s)'
      BY <2>1 DEF Asked, Requests, Granting, Mode
    <2> QED BY <1>4, <2>2 DEF Asked
  <1>7. CASE \E u \in Users : ProcessOne(s, u)
    <2>1. pc'[s] = "process" /\ ~Granting(s)'
      BY <1>7 DEF ProcessOne, Granting, Mode
    <2> QED BY <1>4, <2>1 DEF Asked
  <1>8. CASE HandlerStep(s) /\ ~PassReset(s)
             /\ ~\E u \in Users : ProcessOne(s, u) \/ PassInsert(s, u)
    <2>1. \/ \E signal : Return(s, signal)
          \/ \E label \in {"updateWait", "updateTime", "updateChain"} :
                \E signal, l : Continue(s, label, signal, l)
      BY <1>8 DEF HandlerStep, LoginWrite, AdminLoginWrite, ResetSet, UnfreezeSet,
                  FlagSet, UpdatePast, UpdateInsert, UpdateTime, UpdateChain, ProcessEnd
    <2>2. pc'[s] \notin {"process", "passReset"}
      BY <1>1, <2>1 DEF Return, Continue, TypeOK
    <2>3. pc'[s] = "idle" \/ buff'[s].op # "C_GET_REQUEST" BY <1>4
    <2> QED BY <1>4, <2>2 DEF Asked
  <1> QED BY <1>5, <1>6, <1>7, <1>8

\* With a single session whose client stays, no request is withdrawn between
\* the list and the grant.
LEMMA SerialAsked ==
    ASSUME IInv, NEW s, Sessions = {s}, ~MayDrop, Asked(s), [Next]_vars
    PROVE  Asked(s)'
  <1>1. TypeOK /\ s \in Sessions BY DEF IInv
  <1>2. CASE Dispatch(s) BY <1>1, <1>2, DispatchAsked
  <1>3. CASE ClientAnswer(s) BY <1>1, <1>3, AnswerAsked
  <1>4. CASE HandlerStep(s) BY <1>1, <1>4, HandlerAsked
  <1>5. CASE Logout(s) \/ ParseFailure(s) \/ Crash
    <2>1. pc'[s] = "closed" /\ buff'[s] = NoMsg
      BY <1>1, <1>5 DEF Logout, ParseFailure, Crash, ServerDies, Forget
    <2> QED BY <2>1 DEF Asked, NoMsg
  <1>6. CASE Accept(s)
    <2>1. /\ pc'[s] = "idle" /\ conn'[s]
          /\ pc[s] = "closed" /\ buff' = buff
      BY <1>1, <1>6 DEF Accept, TypeOK
    <2> QED BY <2>1 DEF Asked
  <1>7. ~Drop(s) BY DEF Drop
  <1>8. ~ReceiveError(s) BY DEF ReceiveError, Asked, Waiting
  <1>9. CASE Tick \/ UNCHANGED vars
    <2>1. UNCHANGED <<account, pc, conn, buff, todo, table>>
      BY <1>9 DEF Tick, vars, tables, sessionVars
    <2> QED BY <2>1 DEF Asked, Granting, Mode, Requests
  <1> QED BY <1>1, <1>2, <1>3, <1>4, <1>5, <1>6, <1>7, <1>8, <1>9
          DEF Next, ConnectionStep

\* One client at a time, and as long as clients take their leave: whatever the
\* administrator ticks in a list that is read earlier, only an account whose
\* owner's request is standing is reset, crashes included.
THEOREM SerialResetOnRequest ==
    ASSUME NEW q, Sessions = {q}, ~MayDrop
    PROVE  Spec => ResetOnlyOnRequest
  <1>1. Init => Asked(q) BY DEF Init, Asked, NoMsg
  <1>2. IInv /\ Asked(q) /\ [Next]_vars => Asked(q)' BY SerialAsked
  <1>3. IInv /\ Asked(q) /\ [Next]_vars
            => [\A s \in Sessions :
                  pc[s] = "passReset" /\ pc'[s] = "process"
                      => ResetFlag \in account[local[s].cur].flags]_vars
    BY DEF IInv, HandlerKnows, Asked, Requests
  <1>4. Spec => [](IInv /\ Asked(q))
    BY <1>1, <1>2, Invariance, PTL DEF Spec
  <1> QED BY <1>3, <1>4, PTL DEF Spec, ResetOnlyOnRequest

-----------------------------------------------------------------------------
(* The default password.                                                   *)

Default(row) == row.cred.iter.pw = DefaultPassword

\* Between the statement that dates a change and the one that installs it.
Changing(u) == \E s \in Sessions : pc[s] = "updateChain" /\ userId[s] = u

\* A default password is dated day 0, except in the middle of a change.
DatedDefault(u) ==
    account[u] # NoRow /\ Default(account[u]) => account[u].update = 0 \/ Changing(u)

\* Whoever is about to log in with the default password will be told.
ToldDefault(s) == pc[s] = "loginWait" /\ Default(local[s]) => local[s].due

DefaultDue ==
    /\ now >= Start
    /\ \A u \in Users : DatedDefault(u)
    /\ \A s \in Sessions : ToldDefault(s)

\* The days go by with the ticks.
LEMMA DateGrows ==
    ASSUME NEW a \in Nat, NEW b \in Nat, a <= b
    PROVE  Date(a) <= Date(b)
  <1> DEFINE x == a \div DayLength
             y == b \div DayLength
  <1>1. DayLength \in Nat /\ DayLength > 0 BY DataAssumption DEF DataAssumption
  <1>2. x \in Int /\ y \in Int BY <1>1
  <1>3. DayLength * x <= a /\ b < DayLength * y + DayLength BY <1>1
  <1> HIDE DEF x, y
  <1>4. y < x => DayLength * y + DayLength <= DayLength * x BY <1>1, <1>2
  <1>5. DayLength * x \in Int /\ DayLength * y \in Int BY <1>1, <1>2
  <1> DEFINE p == DayLength * x
             q == DayLength * y
  <1> HIDE DEF p, q
  <1>6. p \in Int /\ q \in Int /\ p <= a /\ b < q + DayLength
        /\ (y < x => q + DayLength <= p)
    BY <1>3, <1>4, <1>5 DEF p, q
  <1>7. ~(y < x) BY <1>1, <1>6
  <1> QED BY <1>2, <1>7 DEF Date, x, y

\* An update through the trigger leaves the date to the statement.
LEMMA UpdateDated ==
    ASSUME IInv, NEW u \in Users, NEW new, UpdateAccount(u, new),
           account[u] # NoRow => new \in RowBefore
    PROVE  /\ \A v \in Users : v # u => account'[v] = account[v]
           /\ account[u] = NoRow => account'[u] = account[u]
           /\ account[u] # NoRow => /\ account'[u].cred = new.cred
                                    /\ account'[u].update = new.update
  <1>1. TypeOK /\ now \in Nat BY DEF IInv, TypeOK
  <1> DEFINE row == Updated(account[u], new, now)
  <1>2. account' = [account EXCEPT ![u] = row] BY DEF UpdateAccount
  <1>3. account[u] = NoRow => row = account[u] BY DEF Updated
  <1>4. account[u] # NoRow => row.cred = new.cred /\ row.update = new.update
    BY DEF Updated, TriggerFrozen, RowBefore
  <1> HIDE DEF row
  <1>5. account'[u] = row /\ \A v \in Users : v # u => account'[v] = account[v]
    BY <1>1, <1>2 DEF TypeOK
  <1> QED BY <1>3, <1>4, <1>5

\* The date of the last change in what the statements return.
LEMMA StatementDates ==
    ASSUME NEW row \in Row, NEW t \in Nat
    PROVE  /\ \A iter, b, rnd :
                  UpdateChallengeAndRandom(row, iter, b, rnd, t).update = row.update
           /\ \A first : LoginFailed(row, first, t).update = row.update
           /\ \A column : SetFlag(row, column).update = row.update
           /\ \A type, mode : ProcessRequest(row, type, mode, t).update = row.update
           /\ ResetToDefault(row).update = 0
  <1>1. \A iter, b, rnd :
            UpdateChallengeAndRandom(row, iter, b, rnd, t).update = row.update
    BY DEF Row, UpdateChallengeAndRandom
  <1>2. \A first : LoginFailed(row, first, t).update = row.update
    BY DEF Row, LoginFailed
  <1>3. \A column : SetFlag(row, column).update = row.update
    BY DEF Row, SetFlag
  <1>4. \A type, mode : ProcessRequest(row, type, mode, t).update = row.update
    BY DEF Row, ProcessRequest
  <1>5. ResetToDefault(row).update = 0 BY DEF Row, ResetToDefault
  <1> QED BY <1>1, <1>2, <1>3, <1>4, <1>5

\* What a step may do to a row: nothing, write no default password but one dated
\* day 0, or leave a default password with its date.
RowDue(u) ==
    \/ account'[u] = account[u]
    \/ account'[u] # NoRow /\ Default(account'[u]) => account'[u].update = 0
    \/ /\ account[u] # NoRow /\ Default(account[u])
       /\ account'[u].update = account[u].update

LEMMA RowWritten ==
    ASSUME IInv, NEW u \in Users, NEW new, UpdateAccount(u, new),
           account[u] # NoRow => new \in RowBefore /\ (Default(new) => new.update = 0)
    PROVE  \A v \in Users : RowDue(v)
  BY UpdateDated DEF RowDue, Default

\* The statements that leave both the password and the date as they are.
LEMMA RowDateKept ==
    ASSUME IInv, NEW u \in Users, NEW new, UpdateAccount(u, new),
           account[u] # NoRow =>
               /\ new \in RowBefore
               /\ new.cred.iter.pw = account[u].cred.iter.pw
               /\ new.update = account[u].update
    PROVE  \A v \in Users : RowDue(v)
  BY UpdateDated DEF RowDue, Default

LEMMA LoginWrongDue ==
    ASSUME IInv, NEW s \in Sessions, NEW pw, LoginWrong(s, pw)
    PROVE  \A v \in Users : RowDue(v)
  <1>1. TypeOK /\ now \in Nat /\ pc[s] = "loginWait"
    BY DEF IInv, TypeOK, LoginWrong
  <1>2. buff[s].id \in Users BY <1>1 DEF IInv, Identity, HandlerKnows, AccountOps
  <1>3. local[s].first \in BOOLEAN /\ account[buff[s].id] \in Row
    BY <1>1, <1>2 DEF TypeOK, Local, IInv, HandlerKnows
  <1> QED BY <1>1, <1>2, <1>3, LoginFailedType, StatementDates, RowDateKept DEF LoginWrong

\* Nobody registers with the default password.
LEMMA RegisterAddDue ==
    ASSUME IInv, NEW s \in Sessions, NEW pw \in Passwords, RegisterAdd(s, pw)
    PROVE  \A v \in Users : RowDue(v)
  <1>1. TypeOK /\ pc[s] = "registerWait" BY DEF IInv, RegisterAdd
  <1>2. buff[s].id \in Users BY <1>1 DEF IInv, Identity, HandlerKnows, AccountOps
  <1> DEFINE u    == buff[s].id
             iter == PasswdToMD5(pw, local[s].newRnd, DefaultChallenge + 1)
             row  == AddUser(local[s].newRnd, iter, DefaultChallenge, now)
  <1>3. CASE account' = account BY <1>3 DEF RowDue
  <1>4. CASE account' = [account EXCEPT ![u] = row]
    <2>1. row.cred.iter.pw = pw /\ pw # DefaultPassword
      BY DataAssumption DEF AddUser, PasswdToMD5, DataAssumption
    <2> HIDE DEF row
    <2>2. account'[u] = row /\ \A v \in Users : v # u => account'[v] = account[v]
      BY <1>1, <1>2, <1>4 DEF TypeOK
    <2> QED BY <2>1, <2>2 DEF RowDue, Default
  <1> QED BY <1>3, <1>4 DEF RegisterAdd

LEMMA AdvancedIter ==
    ASSUME NEW c \in Credential, NEW iter, NEW b \in BOOLEAN, NEW rnd
    PROVE  Advanced(c, iter, b, rnd).iter = iter
  BY DEF Advanced, Credential

\* A login that is current stores a value of the same password.
LEMMA LoginWriteDue ==
    ASSUME IInv, NEW s \in Sessions, Current(s), LoginWrite(s)
    PROVE  \A v \in Users : RowDue(v)
  <1>1. TypeOK /\ now \in Nat /\ pc[s] = "loginWrite"
    BY DEF IInv, TypeOK, LoginWrite
  <1>2. userId[s] \in Users /\ account[userId[s]] \in Row
    BY <1>1 DEF IInv, TypeOK, Identity, HandlerKnows
  <1> DEFINE u   == userId[s]
             b   == local[s].cred.chal <= 1
             new == UpdateChallengeAndRandom(account[u], local[s].newIter, b,
                                             local[s].newRnd, now)
  <1>3. /\ local[s].newIter \in Value /\ local[s].newRnd \in Randoms
        /\ b \in BOOLEAN
    BY <1>1 DEF TypeOK, Local
  <1>4. /\ new \in RowBefore /\ new.update = account[u].update
        /\ new.cred = Advanced(account[u].cred, local[s].newIter, b, local[s].newRnd)
    <2> HIDE DEF b
    <2> QED BY <1>1, <1>2, <1>3, UpdateChallengeType, StatementDates
  <1>5. new.cred.iter = local[s].newIter
    <2>1. account[u].cred \in Credential BY <1>2 DEF Row
    <2> HIDE DEF new, u, b
    <2> QED BY <1>3, <1>4, <2>1, AdvancedIter
  <1>6. local[s].newIter.pw = account[u].cred.iter.pw
    BY <1>1 DEF Current, IInv, NewIterate
  <1>7. UpdateAccount(u, new) BY DEF LoginWrite
  <1> HIDE DEF new
  <1> QED BY <1>1, <1>2, <1>4, <1>5, <1>6, <1>7, RowDateKept

\* A change installs a password a person may choose.
LEMMA UpdateChainDue ==
    ASSUME IInv, NEW s \in Sessions, OwnSession(s), UpdateChain(s)
    PROVE  /\ \A v \in Users : RowDue(v)
           /\ ~Default(account'[userId[s]])
  <1>1. TypeOK /\ now \in Nat /\ pc[s] = "updateChain"
    BY DEF IInv, TypeOK, UpdateChain
  <1>2. userId[s] \in Users /\ account[userId[s]] \in Row
    BY <1>1 DEF IInv, TypeOK, Identity, HandlerKnows, Updating
  <1> DEFINE u   == userId[s]
             new == UpdateChallengeAndRandom(account[u], local[s].newIter, TRUE,
                                             local[s].newRnd, now)
  <1>3. local[s].newIter \in Value /\ local[s].newRnd \in Randoms
    BY <1>1 DEF TypeOK, Local
  <1>4. /\ new \in RowBefore
        /\ new.cred = Advanced(account[u].cred, local[s].newIter, TRUE, local[s].newRnd)
    BY <1>1, <1>2, <1>3, UpdateChallengeType
  <1>5. new.cred.iter = local[s].newIter
    <2> DEFINE c == Advanced(account[u].cred, local[s].newIter, TRUE, local[s].newRnd)
    <2>1. c.iter = local[s].newIter BY DEF Advanced
    <2>2. new.cred = c BY <1>4
    <2> HIDE DEF new, c
    <2> QED BY <2>1, <2>2
  <1>6. local[s].newIter.pw # DefaultPassword
    BY <1>1, DataAssumption DEF OwnSession, Installing, DataAssumption
  <1>7. UpdateAccount(u, new) BY DEF UpdateChain
  <1> HIDE DEF new
  <1>8. /\ account'[u].cred = new.cred
        /\ \A v \in Users : v # u => account'[v] = account[v]
    BY <1>1, <1>2, <1>4, <1>7, UpdateDated, DataAssumption DEF DataAssumption
  <1> QED BY <1>1, <1>5, <1>6, <1>8 DEF RowDue, Default

\* Every step does that to a row, but for the statement that dates a change.
LEMMA NextDates ==
    ASSUME IInv, AllCurrent, OwnSessions, [Next]_vars,
           NEW u \in Users, ~RowDue(u)
    PROVE  \E s \in Sessions : UpdateTime(s) /\ userId[s] = u
  <1>1. TypeOK /\ now \in Nat BY DEF IInv, TypeOK
  <1>2. account' = account => RowDue(u) BY DEF RowDue
  <1>3. ASSUME NEW s \in Sessions, Dispatch(s) PROVE account' = account
    BY <1>3 DEF Dispatch, RegisterQuery, LoginQuery, AdminLoginQuery, ResetQuery,
                UnfreezeQuery, UpdateQuery, GetRequest, ProcessBegin, tables
  <1>4. ASSUME NEW s \in Sessions, ClientAnswer(s) PROVE RowDue(u)
    <2>1. CASE \/ \E pw \in Passwords : UpdateRepeat(s, pw) \/ UpdateAccept(s, pw)
               \/ \E pw \in AllPasswords : \/ LoginRight(s, pw) \/ AdminLoginWrong(s, pw)
                                           \/ AdminLoginRight(s, pw)
      BY <1>2, <2>1 DEF UpdateRepeat, UpdateAccept, LoginRight, AdminLoginWrong,
                        AdminLoginRight, tables
    <2> QED BY <1>4, <2>1, RegisterAddDue, LoginWrongDue DEF ClientAnswer
  <1>5. ASSUME NEW s \in Sessions, HandlerStep(s)
        PROVE  RowDue(u) \/ (UpdateTime(s) /\ userId[s] = u)
    <2>1. Current(s) /\ OwnSession(s) BY DEF AllCurrent, OwnSessions
    <2>2. ASSUME NEW label \in {"resetSet", "unfreezeSet"}, NEW column \in Flags,
                 FlagSet(s, label, column)
          PROVE  RowDue(u)
      <3>1. pc[s] = label /\ buff[s].id \in Users
        BY <2>2 DEF FlagSet, IInv, Identity, HandlerKnows
      <3>2. account[buff[s].id] \in Row \cup {NoRow} BY <1>1, <3>1 DEF TypeOK
      <3> QED BY <1>1, <2>2, <3>1, <3>2, SetFlagType, StatementDates, RowDateKept
              DEF FlagSet
    <2>3. CASE ResetSet(s) \/ UnfreezeSet(s)
      BY <2>2, <2>3 DEF ResetSet, UnfreezeSet, Flags
    <2>4. ASSUME NEW v \in Users, ProcessOne(s, v) PROVE RowDue(u)
      <3>1. account[v] \in Row \cup {NoRow} BY <1>1 DEF TypeOK
      <3> QED BY <1>1, <2>4, <3>1, ProcessType, StatementDates, RowDateKept DEF ProcessOne
    <2>5. ASSUME PassReset(s) PROVE RowDue(u)
      <3>1. local[s].cur \in Users
        BY <1>1, <2>5 DEF PassReset, IInv, TypeOK, HandlerKnows
      <3>2. account[local[s].cur] \in Row \cup {NoRow} BY <1>1, <3>1 DEF TypeOK
      <3> QED BY <1>1, <2>5, <3>1, <3>2, ResetType, StatementDates, RowWritten
              DEF PassReset
    <2>6. ASSUME UpdateTime(s), userId[s] # u PROVE RowDue(u)
      <3>1. pc[s] = "updateTime" BY <2>6 DEF UpdateTime
      <3>2. userId[s] \in Users /\ account[userId[s]] \in Row
        BY <1>1, <3>1 DEF IInv, TypeOK, Identity, HandlerKnows, Updating
      <3>3. account'[u] = account[u]
        BY <1>1, <2>6, <3>2, DateType, SetUpdateType, UpdateDated DEF UpdateTime
      <3> QED BY <3>3 DEF RowDue
    <2>7. CASE \/ AdminLoginWrite(s) \/ UpdatePast(s) \/ UpdateInsert(s)
               \/ ProcessEnd(s) \/ \E v \in Users : PassInsert(s, v)
      BY <1>2, <2>7 DEF AdminLoginWrite, UpdatePast, UpdateInsert, ProcessEnd, PassInsert,
                        tables
    <2>8. CASE LoginWrite(s) BY <2>1, <2>8, LoginWriteDue
    <2>9. CASE UpdateChain(s) BY <2>1, <2>9, UpdateChainDue
    <2> QED BY <1>5, <2>3, <2>4, <2>5, <2>6, <2>7, <2>8, <2>9 DEF HandlerStep
  <1>6. ASSUME NEW s \in Sessions, ConnectionStep(s) PROVE account' = account
    BY <1>6 DEF ConnectionStep, Accept, Logout, Drop, ReceiveError, ParseFailure,
                ServerDies, tables
  <1>7. CASE Crash \/ Tick \/ UNCHANGED vars
    BY <1>2, <1>7 DEF Crash, ServerDies, Tick, vars, tables
  <1> QED BY <1>2, <1>3, <1>4, <1>5, <1>6, <1>7 DEF Next

\* A change that has been dated is installed, or stays where it is, or is cut
\* short with the process.
LEMMA ChangeGoesOn ==
    ASSUME IInv, [Next]_vars, NEW s \in Sessions, pc[s] = "updateChain", ~ServerDies
    PROVE  UpdateChain(s) \/ (pc'[s] = "updateChain" /\ userId'[s] = userId[s])
  <1>1. TypeOK BY DEF IInv
  <1>2. ~Dispatch(s)
    BY DEF Dispatch, RegisterQuery, LoginQuery, AdminLoginQuery, ResetQuery,
           UnfreezeQuery, UpdateQuery, GetRequest, ProcessBegin, Receive
  <1>3. ~ClientAnswer(s)
    BY DEF ClientAnswer, RegisterAdd, UpdateRepeat, UpdateAccept, LoginWrong,
           LoginRight, AdminLoginWrong, AdminLoginRight
  <1>4. HandlerStep(s) => UpdateChain(s)
    BY DEF HandlerStep, LoginWrite, AdminLoginWrite, ResetSet, UnfreezeSet, FlagSet,
           UpdatePast, UpdateInsert, UpdateTime, ProcessOne, PassInsert, PassReset,
           ProcessEnd
  <1>5. ASSUME NEW q \in Sessions, Dispatch(q) \/ ClientAnswer(q) \/ HandlerStep(q), q # s
        PROVE  pc'[s] = pc[s] /\ userId'[s] = userId[s]
    BY <1>5, OthersKept
  <1>6. ASSUME NEW q \in Sessions, ConnectionStep(q)
        PROVE  pc'[s] = pc[s] /\ userId'[s] = userId[s]
    <2>1. CASE Accept(q) \/ Drop(q) \/ ReceiveError(q)
      BY <1>1, <2>1 DEF Accept, Drop, ReceiveError, Return, Waiting, TypeOK
    <2>2. CASE Logout(q) BY <2>2 DEF Logout, Forget
    <2>3. ~ParseFailure(q) BY DEF ParseFailure
    <2> QED BY <1>6, <2>1, <2>2, <2>3 DEF ConnectionStep
  <1>7. ~Crash BY DEF Crash
  <1>8. CASE Tick \/ UNCHANGED vars BY <1>8 DEF Tick, vars, sessionVars
  <1> QED BY <1>2, <1>3, <1>4, <1>5, <1>6, <1>7, <1>8 DEF Next

LEMMA DatedStep ==
    ASSUME IInv, AllCurrent, OwnSessions, [Next]_vars,
           ServerDies => \A s \in Sessions : pc[s] # "updateChain",
           NEW u \in Users, DatedDefault(u)
    PROVE  DatedDefault(u)'
  <1>1. TypeOK BY DEF IInv
  <1> SUFFICES ASSUME account'[u] # NoRow, Default(account'[u]), account'[u].update # 0
               PROVE  Changing(u)'
    BY DEF DatedDefault, Default
  <1>2. CASE RowDue(u)
    <2>1. account[u] # NoRow /\ Default(account[u]) /\ account[u].update # 0
      BY <1>2 DEF RowDue
    <2>2. PICK s \in Sessions : pc[s] = "updateChain" /\ userId[s] = u
      BY <2>1 DEF DatedDefault, Changing
    <2>3. ~UpdateChain(s)
      BY <2>2, UpdateChainDue DEF OwnSessions
    <2> QED BY <2>2, <2>3, ChangeGoesOn DEF Changing
  <1>3. CASE ~RowDue(u)
    <2>1. PICK s \in Sessions : UpdateTime(s) /\ userId[s] = u BY <1>3, NextDates
    <2>2. pc'[s] = "updateChain" /\ userId'[s] = u
      BY <1>1, <2>1 DEF UpdateTime, Continue, TypeOK
    <2> QED BY <2>2 DEF Changing
  <1> QED BY <1>2, <1>3

\* A challenge for the default password finds the change overdue: whoever could
\* be in the middle of the change keeps others from logging in.
LEMMA LoginQueryDue ==
    ASSUME IInv, DefaultDue, Apart', NEW s \in Sessions, NEW m, LoginQuery(s, m),
           pc'[s] = "loginWait", Default(local'[s])
    PROVE  local'[s].due
  <1>1. TypeOK /\ pc[s] = "idle" /\ m.id \in Users
    BY BuffReceived DEF IInv, LoginQuery, Receive, Fits, AccountOps
  <1> DEFINE row == account[m.id]
             l   == [NoLocal EXCEPT !.first = FirstError(row, now),
                                    !.due = UpdateDue(row, now)]
             rnd == IF row.cred.chal <= 1 THEN GetRandomString(now) ELSE 0
  <1>2. row # NoRow /\ Challenge(s, "loginWait", row.cred, l)
    BY <1>1 DEF LoginQuery, Return, TypeOK
  <1>3. local'[s] = [l EXCEPT !.cred = row.cred, !.at = now, !.newRnd = rnd]
    BY <1>1, <1>2 DEF Challenge, Continue, TypeOK
  <1> HIDE DEF rnd
  <1>4. local'[s].cred = row.cred /\ local'[s].due = UpdateDue(row, now)
    BY <1>3 DEF NoLocal
  <1>5. row.update = 0
    <2>1. SUFFICES ASSUME NEW r \in Sessions, pc[r] = "updateChain", userId[r] = m.id
                   PROVE  FALSE
      BY <1>1, <1>2, <1>4 DEF DefaultDue, DatedDefault, Changing, Default
    <2>2. r # s /\ pc'[r] = "updateChain" /\ userId'[r] = m.id
      BY <1>1, <1>2, <2>1 DEF Challenge, Continue, LoginQuery, TypeOK
    <2>3. buff'[s].id = m.id BY BuffReceived DEF LoginQuery
    <2>4. m.id \in WorksOn(r)' /\ m.id \in WorksOn(s)' BY <2>2, <2>3 DEF WorksOn
    <2> QED BY <2>2, <2>4 DEF Apart
  <1>6. UpdateDue(row, now)
    <2> DEFINE d == Date(now)
               b == Date(Start)
    <2>1. /\ now \in Nat /\ Start \in Nat /\ now >= Start
          /\ b >= PasswordChangePeriod /\ PasswordChangePeriod \in Nat
      BY <1>1, ServerAssumption, DataAssumption
      DEF TypeOK, DefaultDue, ServerAssumption, DataAssumption
    <2>2. b <= d /\ b \in Nat /\ d \in Nat BY <2>1, DateGrows, DateType
    <2> HIDE DEF b, d
    <2>3. ~(0 + PasswordChangePeriod > d) BY <2>1, <2>2
    <2> QED BY <1>5, <2>3 DEF UpdateDue, d
  <1> QED BY <1>4, <1>6

LEMMA ToldStep ==
    ASSUME IInv, DefaultDue, Apart', [Next]_vars, NEW s \in Sessions
    PROVE  ToldDefault(s)'
  <1>1. TypeOK BY DEF IInv
  <1>2. CASE pc'[s] # "loginWait" BY <1>2 DEF ToldDefault
  <1>3. CASE Dispatch(s)
    <2>1. PICK m \in ClientMessages(s) \cup {buff[s]} :
              \/ RegisterQuery(s, m) \/ LoginQuery(s, m) \/ AdminLoginQuery(s, m)
              \/ ResetQuery(s, m) \/ UnfreezeQuery(s, m) \/ UpdateQuery(s, m)
              \/ GetRequest(s, m) \/ ProcessBegin(s, m)
      BY <1>3 DEF Dispatch
    <2>2. CASE LoginQuery(s, m) BY <2>2, LoginQueryDue DEF ToldDefault, Default
    <2>3. CASE ~LoginQuery(s, m)
      <3>1. \/ \E signal : Return(s, signal)
            \/ \E label \in {"registerWait", "adminWait", "resetSet", "unfreezeSet",
                             "updatePast", "process"} :
                  \E signal, l : Continue(s, label, signal, l)
        BY <2>1, <2>3 DEF RegisterQuery, AdminLoginQuery, ResetQuery, UnfreezeQuery,
                          UpdateQuery, GetRequest, ProcessBegin, Challenge
      <3> QED BY <1>1, <1>2, <3>1 DEF Return, Continue, TypeOK
    <2> QED BY <2>2, <2>3
  <1>4. CASE SameAttempt(s)
    BY <1>4 DEF SameAttempt, ToldDefault, DefaultDue, Default
  <1>5. CASE ClientAnswer(s) \/ HandlerStep(s)
    <2>1. CASE \E u \in Users : ProcessOne(s, u) BY <1>2, <2>1 DEF ProcessOne
    <2>2. CASE ~\E u \in Users : ProcessOne(s, u)
      <3>1. \/ \E signal : Return(s, signal)
            \/ \E label \in {"loginWrite", "adminWrite", "updateWait", "updateInsert",
                             "updateTime", "updateChain", "passReset", "process"} :
                  \E signal, l : Continue(s, label, signal, l)
        BY <1>5, <2>2
        DEF ClientAnswer, RegisterAdd, UpdateRepeat, UpdateAccept, LoginWrong, LoginRight,
            AdminLoginWrong, AdminLoginRight, HandlerStep, LoginWrite, AdminLoginWrite,
            ResetSet, UnfreezeSet, FlagSet, UpdatePast, UpdateInsert, UpdateTime, UpdateChain,
            PassInsert, PassReset, ProcessEnd
      <3> QED BY <1>1, <1>2, <3>1 DEF Return, Continue, TypeOK
    <2> QED BY <2>1, <2>2
  <1>6. CASE Kept(s) BY <1>4, <1>6 DEF Kept, SameAttempt
  <1> QED BY <1>2, <1>3, <1>5, <1>6, OwnOrKept

LEMMA DueStep ==
    ASSUME IInv, AllCurrent, OwnSessions, Apart', [Next]_vars, DefaultDue,
           ServerDies => \A s \in Sessions : pc[s] # "updateChain"
    PROVE  DefaultDue'
  <1>1. now' >= Start
    BY NextClock, ServerAssumption DEF DefaultDue, ServerAssumption
  <1>2. \A u \in Users : DatedDefault(u)' BY DatedStep DEF DefaultDue
  <1>3. \A s \in Sessions : ToldDefault(s)' BY ToldStep
  <1> QED BY <1>1, <1>2, <1>3 DEF DefaultDue

\* Only LoginRight takes a thread from the challenge to the write-back.
LEMMA LoginSignal ==
    ASSUME IInv, [Next]_vars, NEW s \in Sessions,
           pc[s] = "loginWait", pc'[s] = "loginWrite", local[s].due
    PROVE  reply'[s] = "S_UPDATE_PASSWORD"
  <1>1. TypeOK BY DEF IInv
  <1>2. PICK pw \in AllPasswords : LoginRight(s, pw)
    <2>1. SUFFICES ASSUME \A pw \in AllPasswords : ~LoginRight(s, pw) PROVE FALSE
      OBVIOUS
    <2>2. ASSUME NEW q \in Sessions, Dispatch(q) \/ ClientAnswer(q) \/ HandlerStep(q)
          PROVE  FALSE
      <3>1. CASE q # s
        BY <1>1, <2>2, <3>1, DispatchAttempt, AnswerAttempt, HandlerAttempt
        DEF AttemptEffect, SameAttempt
      <3>2. CASE q = s
        <4>1. ~Dispatch(s)
          BY DEF Dispatch, RegisterQuery, LoginQuery, AdminLoginQuery, ResetQuery,
                 UnfreezeQuery, UpdateQuery, GetRequest, ProcessBegin, Receive
        <4>2. ~HandlerStep(s)
          BY DEF HandlerStep, LoginWrite, AdminLoginWrite, ResetSet, UnfreezeSet,
                 FlagSet, UpdatePast, UpdateInsert, UpdateTime, UpdateChain, ProcessOne,
                 PassInsert, PassReset, ProcessEnd
        <4>3. PICK pw \in AllPasswords : LoginWrong(s, pw)
          BY <2>1, <2>2, <3>2, <4>1, <4>2
          DEF ClientAnswer, RegisterAdd, UpdateRepeat, UpdateAccept, AdminLoginWrong,
              AdminLoginRight
        <4> QED BY <1>1, <4>3 DEF LoginWrong, Return, TypeOK
      <3> QED BY <3>1, <3>2
    <2>3. ASSUME NEW q \in Sessions, ConnectionStep(q) PROVE FALSE
      BY <1>1, <2>3 DEF ConnectionStep, Accept, Logout, Drop, ReceiveError, Return,
                        ParseFailure, ServerDies, Forget, TypeOK
    <2>4. CASE Crash BY <2>4 DEF Crash, ServerDies, Forget
    <2>5. CASE Tick \/ UNCHANGED vars BY <2>5 DEF Tick, vars, sessionVars
    <2> QED BY <2>2, <2>3, <2>4, <2>5 DEF Next
  <1> QED BY <1>1, <1>2 DEF LoginRight, Continue, TypeOK

\* For any periods, lengths of a day, accounts and sessions, and whatever
\* clients vanish: as long as clients keep apart and the process does not end in
\* the middle of a change, whoever logs in with the password that a granted
\* reset installs is told to change it.
THEOREM ApartDefaultForcesUpdate ==
    Spec /\ []Apart /\ ChangesCompleted => DefaultPasswordForcesUpdate
  <1>1. Init => DefaultDue
    BY ServerAssumption
    DEF Init, DefaultDue, DatedDefault, ToldDefault, ServerAssumption
  <1>2. IInv /\ AllCurrent /\ OwnSessions /\ Apart' /\ [Next]_vars /\ DefaultDue
            /\ [ServerDies => \A s \in Sessions : pc[s] # "updateChain"]_vars
                => DefaultDue'
    <2> SUFFICES ASSUME IInv, AllCurrent, OwnSessions, Apart', [Next]_vars, DefaultDue,
                        [ServerDies => \A s \in Sessions : pc[s] # "updateChain"]_vars
                 PROVE  DefaultDue'
      OBVIOUS
    <2>1. CASE UNCHANGED vars
      BY <2>1 DEF vars, tables, sessionVars, DefaultDue, DatedDefault, Changing,
                  ToldDefault, Default
    <2>2. CASE ServerDies => \A s \in Sessions : pc[s] # "updateChain"
      BY <2>2, DueStep
    <2> QED BY <2>1, <2>2
  <1>3. IInv /\ DefaultDue /\ [Next]_vars
            => [\A s \in Sessions :
                  pc[s] = "loginWait" /\ pc'[s] = "loginWrite"
                  /\ local[s].cred.iter.pw = DefaultPassword
                      => reply'[s] = "S_UPDATE_PASSWORD"]_vars
    BY LoginSignal DEF DefaultDue, ToldDefault, Default
  <1> QED BY <1>1, <1>2, <1>3, ApartInvariance, SessionsInvariance, PTL
          DEF Spec, ChangesCompleted, DefaultPasswordForcesUpdate

\* With one client at a time only a kill of the process cuts a change short.
LEMMA SerialCompleted ==
    ASSUME NEW q, Sessions = {q}, ~MayCrash
    PROVE  Spec => ChangesCompleted
  <1>1. IInv /\ [Next]_vars
            => [ServerDies => \A s \in Sessions : pc[s] # "updateChain"]_vars
    <2> SUFFICES ASSUME IInv, [Next]_vars, pc[q] = "updateChain", ServerDies
                 PROVE  FALSE
      OBVIOUS
    <2>1. TypeOK /\ q \in Sessions /\ pc'[q] = "closed"
      BY DEF IInv, ServerDies, Forget
    <2>2. CASE Dispatch(q) \/ ClientAnswer(q)
      BY <2>2 DEF Dispatch, RegisterQuery, LoginQuery, AdminLoginQuery, ResetQuery,
                  UnfreezeQuery, UpdateQuery, GetRequest, ProcessBegin, Receive,
                  ClientAnswer, RegisterAdd, UpdateRepeat, UpdateAccept, LoginWrong,
                  LoginRight, AdminLoginWrong, AdminLoginRight
    <2>3. CASE HandlerStep(q)
      <3>1. UpdateChain(q)
        BY <2>3 DEF HandlerStep, LoginWrite, AdminLoginWrite, ResetSet, UnfreezeSet,
                    FlagSet, UpdatePast, UpdateInsert, UpdateTime, ProcessOne, PassInsert,
                    PassReset, ProcessEnd
      <3> QED BY <2>1, <3>1 DEF UpdateChain, Return, TypeOK
    <2>4. CASE ConnectionStep(q)
      BY <2>1, <2>4 DEF ConnectionStep, Accept, Logout, Drop, ReceiveError, Waiting,
                        ParseFailure
    <2>5. CASE Crash \/ Tick \/ UNCHANGED vars
      BY <2>1, <2>5 DEF Crash, Tick, vars, sessionVars
    <2> QED BY <2>2, <2>3, <2>4, <2>5 DEF Next
  <1> QED BY <1>1, Invariance, PTL DEF Spec, ChangesCompleted

\* One client at a time and a server that is not killed: whoever logs in with the
\* password that a granted reset installs is told to change it.
THEOREM SerialDefaultForcesUpdate ==
    ASSUME NEW q, Sessions = {q}, ~MayCrash
    PROVE  Spec => DefaultPasswordForcesUpdate
  <1>1. Apart BY SerialApart
  <1> QED BY <1>1, SerialCompleted, ApartDefaultForcesUpdate, PTL
=============================================================================
