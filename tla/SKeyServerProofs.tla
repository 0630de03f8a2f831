-------------------------- MODULE SKeyServerProofs --------------------------
(***************************************************************************)
(* Theorems about SKeyServer, for any number of accounts, sessions and     *)
(* administrators, any periods and any passwords.                          *)
(***************************************************************************)
EXTENDS SKeyServer, TLAPS

-----------------------------------------------------------------------------
(* What the operators of SKeyData return: every statement of DataBase      *)
(* turns a row into a row, and a credential in sync stays in sync when the *)
(* value that is stored belongs to the challenge and the random string.    *)

\* A row as an update may hand it to the trigger: the count may be three.
RowBefore == [cred : Credential, block : Nat, err : Nat, errs : 0..3,
              login : Nat, update : Nat, flags : SUBSET Flags]

-----------------------------------------------------------------------------
\* PasswdToMD5 returns a hash value, whatever the count of rounds.
LEMMA PasswdToMD5Type ==
    ASSUME NEW pw \in AllPasswords, NEW rnd \in Randoms, NEW k \in Int
    PROVE  PasswdToMD5(pw, rnd, k) \in Value
  BY DEF PasswdToMD5, Value

\* The day of a tick is a natural number.
LEMMA DateType ==
    ASSUME NEW t \in Nat
    PROVE  Date(t) \in Nat
  BY DataAssumption DEF Date, DataAssumption

\* The random string of a second, and the two constant ones.
LEMMA RandomType ==
    /\ \A t \in Nat : GetRandomString(t) \in Randoms
    /\ DefaultRandom \in Randoms /\ SeedRandom \in Randoms
    /\ 0 \in Randoms
  BY DEF GetRandomString, Randoms, DefaultRandom, SeedRandom

-----------------------------------------------------------------------------
(* One column at a time.                                                   *)

LEMMA SetCred ==
    ASSUME NEW row \in RowBefore, NEW c \in Credential
    PROVE  [row EXCEPT !.cred = c] \in RowBefore
  BY DEF RowBefore

LEMMA SetBlock ==
    ASSUME NEW row \in RowBefore, NEW t \in Nat
    PROVE  [row EXCEPT !.block = t] \in RowBefore
  BY DEF RowBefore

LEMMA SetErr ==
    ASSUME NEW row \in RowBefore, NEW t \in Nat
    PROVE  [row EXCEPT !.err = t] \in RowBefore
  BY DEF RowBefore

LEMMA SetErrs ==
    ASSUME NEW row \in RowBefore, NEW n \in 0..3
    PROVE  [row EXCEPT !.errs = n] \in RowBefore
  BY DEF RowBefore

LEMMA SetLogin ==
    ASSUME NEW row \in RowBefore, NEW d \in Nat
    PROVE  [row EXCEPT !.login = d] \in RowBefore
  BY DEF RowBefore

LEMMA SetUpdate ==
    ASSUME NEW row \in RowBefore, NEW d \in Nat
    PROVE  [row EXCEPT !.update = d] \in RowBefore
  BY DEF RowBefore

LEMMA SetFlags ==
    ASSUME NEW row \in RowBefore, NEW F \in SUBSET Flags
    PROVE  [row EXCEPT !.flags = F] \in RowBefore
  BY DEF RowBefore

LEMMA RowIsBefore ==
    ASSUME NEW row \in Row
    PROVE  row \in RowBefore /\ row.errs \in 0..2
  BY DEF Row, RowBefore

LEMMA BeforeIsRow ==
    ASSUME NEW row \in RowBefore, row.errs # 3
    PROVE  row \in Row
  BY DEF Row, RowBefore
-----------------------------------------------------------------------------
(* What the statements return.                                             *)

LEMMA DefaultCredentialType == DefaultCredential \in Credential
  <1>0. DefaultPassword \in AllPasswords
    BY DEF AllPasswords
  <1>1. PasswdToMD5(DefaultPassword, DefaultRandom, 2) \in Value
    BY <1>0, PasswdToMD5Type, RandomType
  <1> QED BY <1>1, RandomType DEF DefaultCredential, Credential

LEMMA AdvancedType ==
    ASSUME NEW c \in Credential, NEW iter \in Value, NEW b \in BOOLEAN,
           NEW rnd \in Randoms
    PROVE  Advanced(c, iter, b, rnd) \in Credential
  <1>1. CASE b
    BY <1>1, DataAssumption DEF Advanced, Credential, DataAssumption
  <1>2. CASE ~b
    <2>1. c.chal - 1 \in Int
      BY DEF Credential
    <2> QED BY <1>2, <2>1 DEF Advanced, Credential
  <1> QED BY <1>1, <1>2

\* The trigger brings the count of errors back below three and leaves
\* everything but the count and the time of the lock alone.
LEMMA TriggerType ==
    ASSUME NEW row \in RowBefore, NEW t \in Nat
    PROVE  /\ TriggerFrozen(row, t) \in Row
           /\ TriggerFrozen(row, t).cred = row.cred
           /\ TriggerFrozen(row, t).block = IF row.errs = 3 THEN t ELSE row.block
  <1>1. CASE row.errs = 3
    <2> DEFINE r == [row EXCEPT !.block = t]
               q == [r EXCEPT !.errs = 0]
    <2>1. r \in RowBefore BY SetBlock
    <2>2. r.cred = row.cred /\ r.block = t BY DEF RowBefore
    <2>3. TriggerFrozen(row, t) = q
      BY <1>1 DEF TriggerFrozen
    <2> HIDE DEF r
    <2>4. q \in RowBefore BY <2>1 DEF RowBefore
    <2>5. q.errs = 0 /\ q.cred = row.cred /\ q.block = t
      BY <2>1, <2>2 DEF RowBefore
    <2> HIDE DEF q
    <2>6. q \in Row BY <2>4, <2>5, BeforeIsRow
    <2> QED BY <1>1, <2>3, <2>5, <2>6
  <1>2. CASE row.errs # 3
    BY <1>2, BeforeIsRow DEF TriggerFrozen
  <1> QED BY <1>1, <1>2

LEMMA AddUserType ==
    ASSUME NEW rnd \in Randoms, NEW iter \in Value, NEW t \in Nat
    PROVE  AddUser(rnd, iter, DefaultChallenge, t) \in Row
  BY DateType, DataAssumption DEF AddUser, Row, Credential, DataAssumption

LEMMA UpdateChallengeType ==
    ASSUME NEW row \in Row, NEW iter \in Value, NEW b \in BOOLEAN,
           NEW rnd \in Randoms, NEW t \in Nat
    PROVE  LET new == UpdateChallengeAndRandom(row, iter, b, rnd, t)
           IN  /\ new \in RowBefore
               /\ new.cred = Advanced(row.cred, iter, b, rnd)
               /\ new.block = row.block /\ new.errs # 3
  <1> DEFINE c == Advanced(row.cred, iter, b, rnd)
             x == [row EXCEPT !.flags = row.flags \ {ResetFlag}]
             y == [x EXCEPT !.login = Date(t)]
             z == [y EXCEPT !.cred = c]
  <1>1. row \in RowBefore /\ row.cred \in Credential /\ row.flags \in SUBSET Flags
        /\ row.errs # 3
    BY DEF Row, RowBefore
  <1>2. c \in Credential BY <1>1, AdvancedType
  <1>3. x \in RowBefore BY <1>1, SetFlags
  <1>4. y \in RowBefore BY <1>3, DateType, SetLogin
  <1>5. z \in RowBefore BY <1>2, <1>4, SetCred
  <1>6. z.cred = c /\ z.block = row.block /\ z.errs = row.errs
    BY <1>1, <1>3, <1>4 DEF RowBefore
  <1>7. UpdateChallengeAndRandom(row, iter, b, rnd, t) = z
    BY DEF UpdateChallengeAndRandom
  <1> HIDE DEF z
  <1> QED BY <1>1, <1>5, <1>6, <1>7

LEMMA LoginFailedType ==
    ASSUME NEW row \in Row, NEW first \in BOOLEAN, NEW t \in Nat
    PROVE  LET new == LoginFailed(row, first, t)
           IN  new \in RowBefore /\ new.cred = row.cred /\ new.block = row.block
  <1>1. row \in RowBefore /\ row.errs \in 0..2
    BY RowIsBefore
  <1>2. CASE first
    <2> DEFINE x == [row EXCEPT !.err = t]
               y == [x EXCEPT !.errs = 1]
    <2>1. x \in RowBefore BY <1>1, SetErr
    <2>2. x.cred = row.cred /\ x.block = row.block BY <1>1 DEF RowBefore
    <2>3. LoginFailed(row, first, t) = y BY <1>2 DEF LoginFailed
    <2> HIDE DEF x
    <2>4. y \in RowBefore /\ y.cred = x.cred /\ y.block = x.block
      BY <2>1 DEF RowBefore
    <2> QED BY <2>2, <2>3, <2>4
  <1>3. CASE ~first
    <2>1. LoginFailed(row, first, t) = [row EXCEPT !.errs = row.errs + 1]
      BY <1>3 DEF LoginFailed
    <2>2. row.errs + 1 \in 0..3 BY <1>1
    <2> QED BY <1>1, <2>1, <2>2, SetErrs DEF RowBefore
  <1> QED BY <1>2, <1>3

LEMMA SetFlagType ==
    ASSUME NEW row \in Row, NEW column \in Flags
    PROVE  LET new == SetFlag(row, column)
           IN  /\ new \in RowBefore
               /\ new.cred = row.cred /\ new.block = row.block /\ new.errs # 3
  BY RowIsBefore DEF SetFlag, Row, RowBefore

LEMMA SetUpdateType ==
    ASSUME NEW row \in Row, NEW d \in Nat
    PROVE  LET new == [row EXCEPT !.update = d]
           IN  /\ new \in RowBefore
               /\ new.cred = row.cred /\ new.block = row.block /\ new.errs # 3
  BY RowIsBefore DEF Row, RowBefore

LEMMA ResetType ==
    ASSUME NEW row \in Row
    PROVE  LET new == ResetToDefault(row)
           IN  /\ new \in RowBefore
               /\ new.cred = DefaultCredential
               /\ new.block = row.block /\ new.errs # 3
  <1> DEFINE x == [row EXCEPT !.cred = DefaultCredential]
             y == [x EXCEPT !.update = 0]
             z == [y EXCEPT !.flags = row.flags \ {ResetFlag}]
  <1>1. row \in RowBefore /\ row.flags \in SUBSET Flags /\ row.errs # 3
    BY DEF Row, RowBefore
  <1>2. /\ x \in RowBefore /\ x.cred = DefaultCredential
        /\ x.block = row.block /\ x.errs # 3
    BY <1>1, DefaultCredentialType, SetCred DEF RowBefore
  <1>3. ResetToDefault(row) = z
    BY DEF ResetToDefault
  <1> HIDE DEF x
  <1>4. /\ y \in RowBefore /\ y.cred = x.cred
        /\ y.block = x.block /\ y.errs = x.errs
    BY <1>2 DEF RowBefore
  <1> HIDE DEF y
  <1>5. /\ z \in RowBefore /\ z.cred = y.cred
        /\ z.block = y.block /\ z.errs = y.errs
    BY <1>1, <1>4 DEF RowBefore
  <1> QED BY <1>2, <1>3, <1>4, <1>5

LEMMA ProcessType ==
    ASSUME NEW row \in Row, NEW type, NEW mode, NEW t \in Nat
    PROVE  LET new == ProcessRequest(row, type, mode, t)
           IN  /\ new \in RowBefore
               /\ new.cred = row.cred /\ new.block = row.block /\ new.errs # 3
  <1>1. row \in RowBefore /\ row.flags \in SUBSET Flags /\ row.errs # 3
    BY DEF Row, RowBefore
  <1>2. \A F \in SUBSET Flags, x \in RowBefore :
            LET y == [x EXCEPT !.flags = F]
            IN  /\ y \in RowBefore
                /\ y.cred = x.cred /\ y.block = x.block /\ y.errs = x.errs
    BY DEF RowBefore
  <1> DEFINE x == [row EXCEPT !.login = Date(t)]
  <1>3. x \in RowBefore /\ x.cred = row.cred /\ x.block = row.block /\ x.errs # 3
    BY <1>1, DateType DEF RowBefore
  <1>4. CASE type # 1 /\ mode = 1
    <2>1. ProcessRequest(row, type, mode, t)
              = [x EXCEPT !.flags = row.flags \ {UnfreezeFlag}]
      BY <1>4 DEF ProcessRequest
    <2> HIDE DEF x
    <2> QED BY <1>1, <1>2, <1>3, <2>1
  <1>5. CASE type = 1
    BY <1>1, <1>2, <1>5 DEF ProcessRequest
  <1>6. CASE type # 1 /\ mode # 1
    BY <1>1, <1>2, <1>6 DEF ProcessRequest
  <1> QED BY <1>4, <1>5, <1>6

LEMMA GetPastPasswordType ==
    ASSUME NEW history \in Seq(Credential)
    PROVE  GetPastPassword(history) \in SUBSET Credential
  BY DEF GetPastPassword

\* An update of a row through the trigger.
LEMMA UpdatedType ==
    ASSUME NEW old \in Row \cup {NoRow}, NEW new, NEW t \in Nat,
           old # NoRow => new \in RowBefore
    PROVE  /\ Updated(old, new, t) \in Row \cup {NoRow}
           /\ Updated(old, new, t) = NoRow <=> old = NoRow
           /\ old # NoRow => /\ Updated(old, new, t) \in Row
                             /\ Updated(old, new, t).cred = new.cred
                             /\ Updated(old, new, t).block =
                                    IF new.errs = 3 THEN t ELSE new.block
  BY TriggerType, DataAssumption DEF Updated, DataAssumption

-----------------------------------------------------------------------------
(* Types of the values a step stores in the variables of its session.      *)

LEMMA NoCredentialType == [iter |-> NoValue, chal |-> 0, rnd |-> 0] \in Credential
  <1>0. DefaultPassword \in AllPasswords BY DEF AllPasswords
  <1>1. NoValue \in Value BY <1>0, PasswdToMD5Type, RandomType DEF NoValue
  <1> QED BY <1>1, RandomType DEF Credential

LEMMA NoLocalType == NoLocal \in Local
  <1>0. DefaultPassword \in AllPasswords BY DEF AllPasswords
  <1>1. NoValue \in Value BY <1>0, PasswdToMD5Type, RandomType DEF NoValue
  <1> QED BY <1>1, NoCredentialType, RandomType DEF NoLocal, Local, Ids

LEMMA LocalQueryType ==
    ASSUME NEW l \in Local, NEW c \in Credential, NEW t \in Nat, NEW rnd \in Randoms
    PROVE  [l EXCEPT !.cred = c, !.at = t, !.newRnd = rnd] \in Local
  BY DEF Local

LEMMA LocalPastType ==
    ASSUME NEW l \in Local, NEW P \in SUBSET Credential, NEW rnd \in Randoms
    PROVE  [l EXCEPT !.past = P, !.newRnd = rnd] \in Local
  BY DEF Local

LEMMA LocalDatesType ==
    ASSUME NEW l \in Local, NEW f \in BOOLEAN, NEW d \in BOOLEAN
    PROVE  [l EXCEPT !.first = f, !.due = d] \in Local
  BY DEF Local

LEMMA LocalRandomType ==
    ASSUME NEW l \in Local, NEW rnd \in Randoms
    PROVE  [l EXCEPT !.newRnd = rnd] \in Local
  BY DEF Local

LEMMA LocalIterType ==
    ASSUME NEW l \in Local, NEW v \in Value
    PROVE  [l EXCEPT !.newIter = v] \in Local
  BY DEF Local

LEMMA LocalCurType ==
    ASSUME NEW l \in Local, NEW u \in Ids
    PROVE  [l EXCEPT !.cur = u] \in Local
  BY DEF Local

LEMMA NoMsgType == NoMsg \in Message
  BY DEF NoMsg, Message, Operations, Ids

-----------------------------------------------------------------------------
(* The ways a step moves its session.                                      *)

\* Return answers, forgets the locals and touches no other session.
LEMMA ReturnEffect ==
    ASSUME TypeOK, NEW s \in Sessions, NEW signal \in Signals, Return(s, signal)
    PROVE  /\ pc' \in [Sessions -> Control]
           /\ local' \in [Sessions -> Local]
           /\ reply' \in [Sessions -> Signals]
           /\ pc'[s] = "idle"
           /\ \A r \in Sessions : r # s => pc'[r] = pc[r] /\ local'[r] = local[r]
  BY NoLocalType DEF TypeOK, Return, Control

\* Continue moves the session to a label of the same handler.
LEMMA ContinueEffect ==
    ASSUME TypeOK, NEW s \in Sessions, NEW label \in Control,
           NEW signal \in Signals, NEW l \in Local,
           Continue(s, label, signal, l)
    PROVE  /\ pc' \in [Sessions -> Control]
           /\ local' \in [Sessions -> Local]
           /\ reply' \in [Sessions -> Signals]
           /\ pc'[s] = label /\ local'[s] = l
           /\ \A r \in Sessions : r # s => pc'[r] = pc[r] /\ local'[r] = local[r]
  BY DEF TypeOK, Continue

\* What a message says of the session that receives it.
Fits(s, m) ==
    /\ m.op \in AccountOps => m.id \in Users
    /\ m.op = "C_UPDATE_PASSWORD" => userId[s] \in Users
    /\ m.op \in SecurityOps => userType[s] = 1

LEMMA MainMessageType ==
    ASSUME NEW m \in MainMessages
    PROVE  /\ m \in Message
           /\ m.op \in AccountOps => m.id \in Users
           /\ m.op \in AccountOps \cup {"C_ADMIN_LOGIN"}
  BY DEF MainMessages, Msg, Message, Operations, Ids, AccountOps

LEMMA SecurityMessageType ==
    ASSUME TypeOK, NEW s \in Sessions, NEW m \in SecurityMessages(s)
    PROVE  m \in Message /\ m.op \in SecurityOps
  <1>1. /\ RefreshType(s) \in 0..2 /\ buff[s].type \in 0..2
        /\ table[s] \in SUBSET Users
    BY DEF TypeOK, RefreshType, Message
  <1>2. \A op \in SecurityOps, t \in 0..2, ids \in SUBSET Users :
            Batch(op, t, ids) \in Message /\ Batch(op, t, ids).op \in SecurityOps
    BY DEF Batch, Message, Operations, Ids, SecurityOps
  <1>3. CASE MustRefresh(s)
    BY <1>1, <1>2, <1>3 DEF SecurityMessages, SecurityOps
  <1>4. CASE ~MustRefresh(s)
    BY <1>1, <1>2, <1>4 DEF SecurityMessages, SecurityOps
  <1> QED BY <1>3, <1>4

\* Whatever a session receives, from its client or out of its own buffer, is
\* a message that fits what the session is logged in as.
LEMMA ReceiveEffect ==
    ASSUME IInv, NEW s \in Sessions, NEW m, Receive(s, m)
    PROVE  /\ m \in Message /\ Fits(s, m)
           /\ pc[s] = "idle"
           /\ buff' \in [Sessions -> Message] /\ buff'[s] = m
           /\ \A r \in Sessions : r # s => buff'[r] = buff[r]
  <1>1. TypeOK /\ Identity(s) BY DEF IInv
  <1>2. m \in Message /\ Fits(s, m)
    <2>1. CASE ~conn[s]
      BY <1>1, <2>1 DEF Receive, TypeOK, Identity, Fits
    <2>2. CASE conn[s]
      <3>1. m \in ClientMessages(s) BY <2>2 DEF Receive
      <3>2. CASE userId[s] = NoUser
        <4>1. m \in MainMessages BY <3>1, <3>2 DEF ClientMessages
        <4>2. m.op # "C_UPDATE_PASSWORD" /\ m.op \notin SecurityOps
          BY <4>1, MainMessageType DEF AccountOps, SecurityOps
        <4> QED BY <4>1, <4>2, MainMessageType DEF Fits
      <3>3. CASE userId[s] # NoUser /\ userType[s] = 0
        <4>1. m = Msg("C_UPDATE_PASSWORD", NoUser)
          BY <3>1, <3>3 DEF ClientMessages
        <4>2. userId[s] \in Users
          <5>1. userId[s] \in Users \cup Admins \cup {NoUser}
            BY <1>1 DEF TypeOK, Ids
          <5>2. userId[s] \notin Admins
            BY <1>1, <3>3, ServerAssumption DEF Identity, ServerAssumption
          <5> QED BY <3>3, <5>1, <5>2
        <4> QED BY <4>1, <4>2
                DEF Msg, Message, Operations, Ids, Fits, AccountOps, SecurityOps
      <3>4. CASE userId[s] # NoUser /\ userType[s] = 1
        <4>1. m \in SecurityMessages(s) BY <3>1, <3>4 DEF ClientMessages
        <4>2. m \in Message /\ m.op \in SecurityOps
          BY <1>1, <4>1, SecurityMessageType
        <4> QED BY <3>4, <4>2 DEF Fits, AccountOps, SecurityOps
      <3>5. CASE userId[s] # NoUser /\ userType[s] # 0 /\ userType[s] # 1
        BY <3>1, <3>5 DEF ClientMessages
      <3> QED BY <3>2, <3>3, <3>4, <3>5
    <2> QED BY <2>1, <2>2
  <1> QED BY <1>1, <1>2 DEF Receive, TypeOK

-----------------------------------------------------------------------------
(* What a step has to establish for the inductive invariant.               *)

\* A step keeps every row, and dates no lock in the future.
AccountKept ==
    /\ account' \in [Users -> Row \cup {NoRow}]
    /\ \A u \in Users : account[u] # NoRow => account'[u] # NoRow
    /\ \A u \in Users : account'[u] # NoRow => account'[u].block <= now

\* A step leaves a message that fits in the buffer of its session, and the
\* other buffers as they are.
BuffKept(s) ==
    /\ buff' \in [Sessions -> Message] /\ Fits(s, buff'[s])
    /\ \A r \in Sessions : r # s => buff'[r] = buff[r]

SessionInv(s) == Identity(s) /\ HandlerKnows(s) /\ Dated(s) /\ NewIterate(s)

\* The variables of a session that the invariant speaks of.
Same(r) ==
    /\ pc'[r] = pc[r] /\ buff'[r] = buff[r] /\ local'[r] = local[r]
    /\ userId'[r] = userId[r] /\ userType'[r] = userType[r] /\ todo'[r] = todo[r]

\* The invariant of a session survives the steps of the others: they only add
\* rows, and the clock only goes forward.
LEMMA OtherSession ==
    ASSUME TypeOK, NEW r \in Sessions, SessionInv(r), Same(r),
           \A u \in Users : account[u] # NoRow => account'[u] # NoRow,
           now' \in Nat, now' >= now
    PROVE  SessionInv(r)'
  <1>1. Identity(r)' BY DEF SessionInv, Same, Identity
  <1>2. HandlerKnows(r)'
    <2>1. buff[r].op = "C_LOGIN" => buff[r].id \in Users
      BY DEF SessionInv, Identity, AccountOps
    <2> QED BY <2>1 DEF SessionInv, Same, HandlerKnows
  <1>3. Dated(r)'
    <2>1. local[r].at \in Nat /\ now \in Nat BY DEF TypeOK, Local
    <2> QED BY <2>1 DEF SessionInv, Same, Dated
  <1>4. NewIterate(r)' BY DEF SessionInv, Same, NewIterate, FreshChain
  <1> QED BY <1>1, <1>2, <1>3, <1>4 DEF SessionInv

\* A step of session s preserves the invariant if it respects the types, the
\* rows, the other sessions and what s itself has to know.
LEMMA StepPreserves ==
    ASSUME IInv, NEW s \in Sessions, TypeOK', AccountKept, now' = now,
           SessionInv(s)',
           \A r \in Sessions : r # s => Same(r)
    PROVE  IInv'
  <1>1. ASSUME NEW r \in Sessions PROVE SessionInv(r)'
    <2>1. CASE r = s BY <2>1
    <2>2. CASE r # s
      <3>1. TypeOK /\ SessionInv(r) /\ now \in Nat BY DEF IInv, SessionInv, TypeOK
      <3>2. now' \in Nat /\ now' >= now BY <3>1
      <3>3. \A u \in Users : account[u] # NoRow => account'[u] # NoRow
        BY DEF AccountKept
      <3> QED BY <2>2, <3>1, <3>2, <3>3, OtherSession
    <2> QED BY <2>1, <2>2
  <1>2. \A u \in Users : account'[u] # NoRow => account'[u].block <= now'
    BY DEF AccountKept
  <1> QED BY <1>1, <1>2 DEF IInv, SessionInv

\* The same for a step that ends its handler.
LEMMA ReturnPreserves ==
    ASSUME IInv, NEW s \in Sessions, NEW signal \in Signals, Return(s, signal),
           AccountKept, BuffKept(s),
           administrator' \in [Admins -> Credential],
           table' \in [Sessions -> SUBSET Users],
           UNCHANGED <<now, password, conn, userId, userType, todo>>
    PROVE  IInv'
  <1>1. TypeOK /\ SessionInv(s) BY DEF IInv, SessionInv
  <1>2. /\ pc' \in [Sessions -> Control]
        /\ local' \in [Sessions -> Local]
        /\ reply' \in [Sessions -> Signals]
        /\ pc'[s] = "idle"
        /\ \A r \in Sessions : r # s => pc'[r] = pc[r] /\ local'[r] = local[r]
    BY <1>1, ReturnEffect
  <1>3. TypeOK' BY <1>1, <1>2 DEF TypeOK, AccountKept, BuffKept
  <1>5. \A r \in Sessions : r # s => Same(r) BY <1>2 DEF Same, BuffKept
  <1>6. SessionInv(s)'
    <2>1. Identity(s)'
      BY <1>1 DEF SessionInv, Identity, BuffKept, Fits, AccountKept
    <2>2. HandlerKnows(s)' BY <1>2 DEF HandlerKnows, Updating
    <2>3. Dated(s)' /\ NewIterate(s)' BY <1>2 DEF Dated, NewIterate
    <2> QED BY <2>1, <2>2, <2>3 DEF SessionInv
  <1> QED BY <1>3, <1>5, <1>6, StepPreserves

\* The same for a step that goes on in its handler.
LEMMA ContinuePreserves ==
    ASSUME IInv, NEW s \in Sessions, NEW label \in Control,
           NEW signal \in Signals, NEW l \in Local,
           Continue(s, label, signal, l),
           AccountKept, BuffKept(s),
           password' \in [Users -> Seq(Credential)],
           userId' \in [Sessions -> Ids], userType' \in [Sessions -> 0..2],
           todo' \in [Sessions -> SUBSET Users],
           \A r \in Sessions : r # s => /\ userId'[r] = userId[r]
                                        /\ userType'[r] = userType[r]
                                        /\ todo'[r] = todo[r],
           UNCHANGED <<now, administrator, conn, table>>,
           SessionInv(s)'
    PROVE  IInv'
  <1>1. TypeOK BY DEF IInv
  <1>2. /\ pc' \in [Sessions -> Control]
        /\ local' \in [Sessions -> Local]
        /\ reply' \in [Sessions -> Signals]
        /\ pc'[s] = label /\ local'[s] = l
        /\ \A r \in Sessions : r # s => pc'[r] = pc[r] /\ local'[r] = local[r]
    BY <1>1, ContinueEffect
  <1>3. TypeOK' BY <1>1, <1>2 DEF TypeOK, AccountKept, BuffKept
  <1>5. \A r \in Sessions : r # s => Same(r) BY <1>2 DEF Same, BuffKept
  <1> QED BY <1>3, <1>5, StepPreserves

\* A step that leaves table `account` alone keeps its rows.
LEMMA AccountUnchanged ==
    ASSUME IInv, account' = account
    PROVE  AccountKept
  BY DEF IInv, TypeOK, AccountKept

\* An update through the trigger keeps the rows; a lock is dated now or stays.
LEMMA UpdateKeeps ==
    ASSUME IInv, NEW u \in Users, NEW new, UpdateAccount(u, new),
           account[u] # NoRow => new \in RowBefore /\ new.block = account[u].block
    PROVE  AccountKept
  <1>1. TypeOK /\ now \in Nat BY DEF IInv, TypeOK
  <1>2. account[u] \in Row \cup {NoRow} BY <1>1 DEF TypeOK
  <1> DEFINE row == Updated(account[u], new, now)
  <1>3. /\ row \in Row \cup {NoRow}
        /\ row = NoRow <=> account[u] = NoRow
        /\ account[u] # NoRow => row.block = IF new.errs = 3 THEN now ELSE new.block
    BY <1>1, <1>2, UpdatedType
  <1>4. account' = [account EXCEPT ![u] = row] BY DEF UpdateAccount
  <1>5. account[u] # NoRow => account[u].block <= now BY DEF IInv
  <1> HIDE DEF row
  <1>6. account' \in [Users -> Row \cup {NoRow}] BY <1>1, <1>3, <1>4 DEF TypeOK
  <1>7. account'[u] = row /\ \A v \in Users : v # u => account'[v] = account[v]
    BY <1>1, <1>4 DEF TypeOK
  <1>8. \A v \in Users : account[v] # NoRow => account'[v] # NoRow
    BY <1>3, <1>7
  <1>9. account'[u] # NoRow => account'[u].block <= now
    BY <1>1, <1>3, <1>5, <1>7
  <1>10. \A v \in Users : v # u /\ account'[v] # NoRow => account'[v].block <= now
    BY <1>7 DEF IInv
  <1> QED BY <1>6, <1>8, <1>9, <1>10 DEF AccountKept

\* A step that receives nothing leaves its buffer as it is.
LEMMA BuffUnchanged ==
    ASSUME IInv, NEW s \in Sessions, buff' = buff
    PROVE  BuffKept(s)
  BY DEF IInv, TypeOK, Identity, Fits, BuffKept

\* A step that receives a message stores one that fits.
LEMMA BuffReceived ==
    ASSUME IInv, NEW s \in Sessions, NEW m, Receive(s, m)
    PROVE  /\ m \in Message /\ Fits(s, m) /\ buff'[s] = m
           /\ BuffKept(s) /\ pc[s] = "idle"
  BY ReceiveEffect DEF BuffKept

-----------------------------------------------------------------------------
(* Register.                                                               *)

LEMMA RegisterQueryPreserves ==
    ASSUME IInv, NEW s \in Sessions, NEW m, RegisterQuery(s, m)
    PROVE  IInv'
  <1>1. TypeOK /\ now \in Nat BY DEF IInv, TypeOK
  <1>2. Receive(s, m) /\ m.op = "C_REGISTER" /\ AccountKept
    BY AccountUnchanged DEF RegisterQuery, tables
  <1>3. /\ BuffKept(s) /\ buff'[s] = m /\ Fits(s, m)
    BY <1>2, BuffReceived
  <1>4. UNCHANGED <<now, password, administrator, conn, userId,
                    userType, todo, table>>
    BY DEF RegisterQuery, tables
  <1>5. CASE Return(s, "S_USER_EXIST")
    BY <1>1, <1>2, <1>3, <1>4, <1>5, ReturnPreserves DEF Signals, TypeOK
  <1>6. CASE Continue(s, "registerWait", "S_NEXTSTEP",
                      [NoLocal EXCEPT !.newRnd = GetRandomString(now)])
    <2> DEFINE l == [NoLocal EXCEPT !.newRnd = GetRandomString(now)]
    <2>1. l \in Local BY <1>1, NoLocalType, RandomType, LocalRandomType
    <2>4. Continue(s, "registerWait", "S_NEXTSTEP", l) BY <1>6
    <2> HIDE DEF l
    <2>2. pc'[s] = "registerWait" BY <1>1, <1>6 DEF Continue, TypeOK
    <2>3. SessionInv(s)'
      BY <1>2, <1>3, <1>4, <2>2
      DEF IInv, SessionInv, Identity, HandlerKnows, Updating, Dated, NewIterate,
          Fits, AccountKept
    <2> QED BY <1>1, <1>2, <1>3, <1>4, <2>1, <2>3, <2>4, ContinuePreserves
            DEF Signals, Control, Waiting, TypeOK
  <1> QED BY <1>5, <1>6 DEF RegisterQuery

LEMMA RegisterAddPreserves ==
    ASSUME IInv, NEW s \in Sessions, NEW pw \in Passwords, RegisterAdd(s, pw)
    PROVE  IInv'
  <1>1. TypeOK /\ now \in Nat /\ pc[s] = "registerWait"
    BY DEF IInv, TypeOK, RegisterAdd
  <1>2. buff[s].id \in Users
    BY <1>1 DEF IInv, Identity, HandlerKnows, AccountOps
  <1>3. /\ BuffKept(s)
        /\ UNCHANGED <<now, password, administrator, conn, userId,
                       userType, todo, table>>
    BY BuffUnchanged DEF RegisterAdd
  <1> DEFINE iter == PasswdToMD5(pw, local[s].newRnd, DefaultChallenge + 1)
             row  == AddUser(local[s].newRnd, iter, DefaultChallenge, now)
  <1>4. CASE account' = account /\ Return(s, "S_FAILED")
    BY <1>1, <1>3, <1>4, AccountUnchanged, ReturnPreserves DEF Signals, TypeOK
  <1>5. CASE /\ account[buff[s].id] = NoRow
             /\ account' = [account EXCEPT ![buff[s].id] = row]
             /\ Return(s, "S_ACCESS")
    <2>1. local[s].newRnd \in Randoms /\ pw \in AllPasswords
          /\ DefaultChallenge + 1 \in Int
      BY <1>1, DataAssumption DEF TypeOK, Local, AllPasswords, DataAssumption
    <2>2. iter \in Value BY <2>1, PasswdToMD5Type
    <2>3. row \in Row /\ row # NoRow
      BY <1>1, <2>1, <2>2, AddUserType, DataAssumption DEF DataAssumption
    <2>4. row.block = 0 BY DEF AddUser
    <2> HIDE DEF row
    <2>5. AccountKept
      BY <1>1, <1>2, <1>5, <2>3, <2>4 DEF IInv, TypeOK, AccountKept
    <2> QED BY <1>1, <1>3, <1>5, <2>5, ReturnPreserves DEF Signals, TypeOK
  <1> QED BY <1>4, <1>5 DEF RegisterAdd

-----------------------------------------------------------------------------
(* Login of a user.                                                        *)

\* What Challenge puts into the locals: the credential it read, a random
\* string and the date.
LEMMA ChallengeEffect ==
    ASSUME IInv, NEW s \in Sessions, NEW label \in {"loginWait", "adminWait"},
           NEW c \in Credential, NEW l \in Local, Challenge(s, label, c, l)
    PROVE  \E signal \in Signals, k \in Local :
              /\ Continue(s, label, signal, k)
              /\ pc'[s] = label /\ local'[s] = k
              /\ k.at = now
  <1>1. TypeOK /\ now \in Nat BY DEF IInv, TypeOK
  <1> DEFINE signal == IF c.chal <= 1 THEN "S_NEW_RANDOM" ELSE "S_NEXTSTEP"
             rnd    == IF c.chal <= 1 THEN GetRandomString(now) ELSE 0
             k      == [l EXCEPT !.cred = c, !.at = now, !.newRnd = rnd]
  <1>2. signal \in Signals BY DEF Signals
  <1>3. rnd \in Randoms BY <1>1, RandomType
  <1>4. Continue(s, label, signal, k) BY DEF Challenge
  <1> HIDE DEF signal, rnd
  <1>5. k \in Local BY <1>1, <1>3, LocalQueryType
  <1>6. k.at = now BY DEF Local
  <1> HIDE DEF k
  <1>7. pc'[s] = label /\ local'[s] = k BY <1>1, <1>4 DEF Continue, TypeOK
  <1> QED BY <1>2, <1>4, <1>5, <1>6, <1>7

LEMMA LoginQueryPreserves ==
    ASSUME IInv, NEW s \in Sessions, NEW m, LoginQuery(s, m)
    PROVE  IInv'
  <1>1. TypeOK /\ now \in Nat BY DEF IInv, TypeOK
  <1>2. Receive(s, m) /\ m.op = "C_LOGIN" /\ AccountKept
    BY AccountUnchanged DEF LoginQuery, tables
  <1>3. BuffKept(s) /\ buff'[s] = m /\ Fits(s, m)
    BY <1>2, BuffReceived
  <1>4. UNCHANGED <<now, account, password, administrator, conn, userId,
                    userType, todo, table>>
    BY DEF LoginQuery, tables
  <1>5. m.id \in Users BY <1>2, <1>3 DEF Fits, AccountOps
  <1> DEFINE row == account[m.id]
             l   == [NoLocal EXCEPT !.first = FirstError(row, now),
                                    !.due = UpdateDue(row, now)]
  <1>6. CASE \E signal \in Signals : Return(s, signal)
    BY <1>1, <1>2, <1>3, <1>4, <1>6, ReturnPreserves DEF TypeOK
  <1>7. CASE row # NoRow /\ Challenge(s, "loginWait", row.cred, l)
    <2>1. row.cred \in Credential BY <1>1, <1>5, <1>7 DEF TypeOK, Row
    <2>2. FirstError(row, now) \in BOOLEAN /\ UpdateDue(row, now) \in BOOLEAN
      BY DEF FirstError, UpdateDue
    <2>3. l \in Local BY <2>2, NoLocalType, LocalDatesType
    <2> HIDE DEF l
    <2>4. PICK signal \in Signals, k \in Local :
              /\ Continue(s, "loginWait", signal, k)
              /\ pc'[s] = "loginWait" /\ local'[s] = k
              /\ k.at = now
      BY <1>7, <2>1, <2>3, ChallengeEffect
    <2>5. SessionInv(s)'
      BY <1>1, <1>2, <1>3, <1>4, <1>5, <1>7, <2>4
      DEF IInv, SessionInv, Identity, HandlerKnows, Updating, Dated, NewIterate,
          Fits
    <2> QED BY <1>1, <1>2, <1>3, <1>4, <2>4, <2>5, ContinuePreserves
            DEF Control, Waiting, TypeOK
  <1> QED BY <1>6, <1>7 DEF LoginQuery, Signals

LEMMA LoginWrongPreserves ==
    ASSUME IInv, NEW s \in Sessions, NEW pw, LoginWrong(s, pw)
    PROVE  IInv'
  <1>1. TypeOK /\ now \in Nat /\ pc[s] = "loginWait"
    BY DEF IInv, TypeOK, LoginWrong
  <1>2. buff[s].id \in Users
    BY <1>1 DEF IInv, Identity, HandlerKnows, AccountOps
  <1>3. /\ BuffKept(s)
        /\ UNCHANGED <<now, password, administrator, conn, userId,
                       userType, todo, table>>
    BY BuffUnchanged DEF LoginWrong
  <1> DEFINE u   == buff[s].id
             new == LoginFailed(account[u], local[s].first, now)
  <1>4. account[u] # NoRow => new \in RowBefore /\ new.block = account[u].block
    <2>1. account[u] \in Row \cup {NoRow} /\ local[s].first \in BOOLEAN
      BY <1>1, <1>2 DEF TypeOK, Local
    <2> QED BY <1>1, <2>1, LoginFailedType
  <1>5. UpdateAccount(u, new) /\ Return(s, "S_FAILED") BY DEF LoginWrong
  <1> HIDE DEF new
  <1>6. AccountKept BY <1>2, <1>4, <1>5, UpdateKeeps
  <1> QED BY <1>1, <1>3, <1>5, <1>6, ReturnPreserves DEF Signals, TypeOK

\* The value a login stores, for the password that opened it.
LEMMA NextIterateEffect ==
    ASSUME NEW l \in Local, NEW pw \in AllPasswords,
           Accepts(l.cred, Answer(pw, l.cred))
    PROVE  LET v == NextIterate(l, pw)
           IN  /\ v \in Value
               /\ v.pw = l.cred.iter.pw
               /\ IF l.cred.chal <= 1
                  THEN v.rnd = l.newRnd /\ v.n = DefaultChallenge + 1
                  ELSE v.rnd = l.cred.rnd /\ v.n = l.cred.chal
  <1>1. /\ l.cred \in Credential /\ l.cred.chal \in Int /\ l.cred.rnd \in Randoms
        /\ l.newRnd \in Randoms
    BY DEF Local, Credential
  <1>2. DefaultChallenge \in Nat BY DataAssumption DEF DataAssumption
  <1>3. l.cred.iter.pw = pw
    BY DEF Accepts, Answer, Rehash, PasswdToMD5
  <1>4. NextIterate(l, pw) \in Value
    BY <1>1, <1>2, PasswdToMD5Type DEF NextIterate, Answer
  <1>5. CASE l.cred.chal > 1
    BY <1>1, <1>3, <1>4, <1>5 DEF NextIterate, Answer, PasswdToMD5
  <1>6. CASE l.cred.chal <= 1
    BY <1>1, <1>2, <1>3, <1>4, <1>6 DEF NextIterate, PasswdToMD5
  <1> QED BY <1>1, <1>5, <1>6

\* The value survives being put into the locals.
LEMMA NewIterateStored ==
    ASSUME NEW l \in Local, NEW pw \in AllPasswords,
           Accepts(l.cred, Answer(pw, l.cred)),
           NEW k, k = [l EXCEPT !.newIter = NextIterate(l, pw)]
    PROVE  /\ k \in Local
           /\ k.newIter.pw = k.cred.iter.pw
           /\ IF k.cred.chal <= 1 THEN FreshChain(k)
              ELSE k.newIter.rnd = k.cred.rnd /\ k.newIter.n = k.cred.chal
  <1> DEFINE v == NextIterate(l, pw)
  <1>1. /\ v \in Value
        /\ v.pw = l.cred.iter.pw
        /\ IF l.cred.chal <= 1
           THEN v.rnd = l.newRnd /\ v.n = DefaultChallenge + 1
           ELSE v.rnd = l.cred.rnd /\ v.n = l.cred.chal
    BY NextIterateEffect
  <1> HIDE DEF v
  <1>2. k = [l EXCEPT !.newIter = v] BY DEF v
  <1>3. k \in Local BY <1>1, <1>2, LocalIterType
  <1>4. k.newIter = v /\ k.cred = l.cred /\ k.newRnd = l.newRnd
    BY <1>2 DEF Local
  <1> QED BY <1>1, <1>3, <1>4 DEF FreshChain

LEMMA LoginRightPreserves ==
    ASSUME IInv, NEW s \in Sessions, NEW pw \in AllPasswords, LoginRight(s, pw)
    PROVE  IInv'
  <1>1. TypeOK /\ pc[s] = "loginWait"
    BY DEF IInv, LoginRight
  <1>2. buff[s].id \in Users /\ account[buff[s].id] # NoRow /\ buff[s].op = "C_LOGIN"
    BY <1>1 DEF IInv, Identity, HandlerKnows, AccountOps
  <1>3. /\ BuffKept(s) /\ AccountKept
        /\ UNCHANGED <<now, account, password, administrator, conn, buff,
                       todo, table>>
    BY BuffUnchanged, AccountUnchanged DEF LoginRight, tables
  <1>4. /\ userId' = [userId EXCEPT ![s] = buff[s].id]
        /\ userType' = [userType EXCEPT ![s] = 0]
    BY DEF LoginRight
  <1> DEFINE k == [local[s] EXCEPT !.newIter = NextIterate(local[s], pw)]
             signal == IF local[s].due THEN "S_UPDATE_PASSWORD" ELSE "S_ACCESS"
  <1>5. Continue(s, "loginWrite", signal, k) BY DEF LoginRight
  <1>6. signal \in Signals BY DEF Signals
  <1>7. /\ k \in Local
        /\ k.newIter.pw = k.cred.iter.pw
        /\ IF k.cred.chal <= 1 THEN FreshChain(k)
           ELSE k.newIter.rnd = k.cred.rnd /\ k.newIter.n = k.cred.chal
    <2>1. local[s] \in Local /\ Accepts(local[s].cred, Answer(pw, local[s].cred))
      BY <1>1 DEF TypeOK, LoginRight
    <2> QED BY <2>1, NewIterateStored
  <1> HIDE DEF k, signal
  <1>8. pc'[s] = "loginWrite" /\ local'[s] = k
    BY <1>1, <1>5 DEF Continue, TypeOK
  <1>9. userId'[s] = buff[s].id /\ userType'[s] = 0
    BY <1>1, <1>4 DEF TypeOK
  <1>10. SessionInv(s)'
    <2>1. Identity(s)'
      BY <1>2, <1>3, <1>9, ServerAssumption, DataAssumption
      DEF Identity, ServerAssumption, DataAssumption, AccountOps, SecurityOps
    <2>2. HandlerKnows(s)' BY <1>2, <1>8, <1>9 DEF HandlerKnows, Updating
    <2>3. Dated(s)' /\ NewIterate(s)'
      BY <1>7, <1>8 DEF Dated, NewIterate, FreshChain
    <2> QED BY <2>1, <2>2, <2>3 DEF SessionInv
  <1>11. /\ userId' \in [Sessions -> Ids] /\ userType' \in [Sessions -> 0..2]
         /\ \A r \in Sessions : r # s => /\ userId'[r] = userId[r]
                                         /\ userType'[r] = userType[r]
    BY <1>1, <1>2, <1>4 DEF TypeOK, Ids
  <1> QED BY <1>1, <1>3, <1>5, <1>6, <1>7, <1>10, <1>11, ContinuePreserves
          DEF Control, Working, TypeOK

LEMMA LoginWritePreserves ==
    ASSUME IInv, NEW s \in Sessions, LoginWrite(s)
    PROVE  IInv'
  <1>1. TypeOK /\ now \in Nat /\ pc[s] = "loginWrite"
    BY DEF IInv, TypeOK, LoginWrite
  <1>2. userId[s] \in Users BY <1>1 DEF IInv, HandlerKnows
  <1>3. /\ BuffKept(s)
        /\ UNCHANGED <<now, password, administrator, conn, userId,
                       userType, todo, table>>
    BY BuffUnchanged DEF LoginWrite
  <1> DEFINE u   == userId[s]
             b   == local[s].cred.chal <= 1
             new == UpdateChallengeAndRandom(account[u], local[s].newIter, b,
                                             local[s].newRnd, now)
  <1>4. account[u] # NoRow => new \in RowBefore /\ new.block = account[u].block
    <2>1. /\ account[u] \in Row \cup {NoRow}
          /\ local[s].newIter \in Value /\ local[s].newRnd \in Randoms
      BY <1>1, <1>2 DEF TypeOK, Local
    <2>2. b \in BOOLEAN OBVIOUS
    <2> HIDE DEF b
    <2> QED BY <1>1, <2>1, <2>2, UpdateChallengeType
  <1>5. UpdateAccount(u, new) /\ Return(s, "none") BY DEF LoginWrite
  <1> HIDE DEF new
  <1>6. AccountKept BY <1>2, <1>4, <1>5, UpdateKeeps
  <1> QED BY <1>1, <1>3, <1>5, <1>6, ReturnPreserves DEF Signals, TypeOK

-----------------------------------------------------------------------------
(* Login of an administrator.                                              *)

LEMMA AdminLoginQueryPreserves ==
    ASSUME IInv, NEW s \in Sessions, NEW m, AdminLoginQuery(s, m)
    PROVE  IInv'
  <1>1. TypeOK /\ now \in Nat BY DEF IInv, TypeOK
  <1>2. Receive(s, m) /\ m.op = "C_ADMIN_LOGIN" /\ AccountKept
    BY AccountUnchanged DEF AdminLoginQuery, tables
  <1>3. BuffKept(s) /\ buff'[s] = m /\ Fits(s, m)
    BY <1>2, BuffReceived
  <1>4. UNCHANGED <<now, account, password, administrator, conn, userId,
                    userType, todo, table>>
    BY DEF AdminLoginQuery, tables
  <1>5. CASE Return(s, "S_FAILED")
    BY <1>1, <1>2, <1>3, <1>4, <1>5, ReturnPreserves DEF Signals, TypeOK
  <1>6. CASE m.id \in Admins /\ Challenge(s, "adminWait", administrator[m.id], NoLocal)
    <2>1. administrator[m.id] \in Credential BY <1>1, <1>6 DEF TypeOK
    <2>2. PICK signal \in Signals, k \in Local :
              /\ Continue(s, "adminWait", signal, k)
              /\ pc'[s] = "adminWait" /\ local'[s] = k
              /\ k.at = now
      BY <1>6, <2>1, NoLocalType, ChallengeEffect
    <2>3. SessionInv(s)'
      BY <1>1, <1>2, <1>3, <1>4, <1>6, <2>2
      DEF IInv, SessionInv, Identity, HandlerKnows, Updating, Dated, NewIterate,
          Fits
    <2> QED BY <1>1, <1>2, <1>3, <1>4, <2>2, <2>3, ContinuePreserves
            DEF Control, Waiting, TypeOK
  <1> QED BY <1>5, <1>6 DEF AdminLoginQuery

LEMMA AdminLoginWrongPreserves ==
    ASSUME IInv, NEW s \in Sessions, NEW pw, AdminLoginWrong(s, pw)
    PROVE  IInv'
  <1>1. TypeOK BY DEF IInv, AdminLoginWrong
  <1>2. /\ BuffKept(s) /\ AccountKept /\ Return(s, "S_FAILED")
        /\ UNCHANGED <<now, password, administrator, conn, userId,
                       userType, todo, table>>
    BY BuffUnchanged, AccountUnchanged DEF AdminLoginWrong, tables
  <1> QED BY <1>1, <1>2, ReturnPreserves DEF Signals, TypeOK

LEMMA AdminLoginRightPreserves ==
    ASSUME IInv, NEW s \in Sessions, NEW pw \in AllPasswords, AdminLoginRight(s, pw)
    PROVE  IInv'
  <1>1. TypeOK /\ pc[s] = "adminWait"
    BY DEF IInv, AdminLoginRight
  <1>2. buff[s].id \in Admins /\ buff[s].op = "C_ADMIN_LOGIN"
    BY <1>1 DEF IInv, HandlerKnows
  <1>3. /\ BuffKept(s) /\ AccountKept
        /\ UNCHANGED <<now, account, password, administrator, conn, buff,
                       todo, table>>
    BY BuffUnchanged, AccountUnchanged DEF AdminLoginRight, tables
  <1>4. /\ userId' = [userId EXCEPT ![s] = buff[s].id]
        /\ userType' = [userType EXCEPT ![s] = AdminType[buff[s].id]]
    BY DEF AdminLoginRight
  <1> DEFINE k == [local[s] EXCEPT !.newIter = NextIterate(local[s], pw)]
  <1>5. Continue(s, "adminWrite", "S_ACCESS", k) BY DEF AdminLoginRight
  <1>6. /\ k \in Local
        /\ k.newIter.pw = k.cred.iter.pw
        /\ IF k.cred.chal <= 1 THEN FreshChain(k)
           ELSE k.newIter.rnd = k.cred.rnd /\ k.newIter.n = k.cred.chal
    <2>1. local[s] \in Local /\ Accepts(local[s].cred, Answer(pw, local[s].cred))
      BY <1>1 DEF TypeOK, AdminLoginRight
    <2> QED BY <2>1, NewIterateStored
  <1> HIDE DEF k
  <1>7. pc'[s] = "adminWrite" /\ local'[s] = k
    BY <1>1, <1>5 DEF Continue, TypeOK
  <1>8. userId'[s] = buff[s].id /\ userType'[s] = AdminType[buff[s].id]
    BY <1>1, <1>4 DEF TypeOK
  <1>9. /\ AdminType[buff[s].id] \in 0..2
        /\ buff[s].id \notin Users /\ buff[s].id # NoUser
    BY <1>2, ServerAssumption DEF ServerAssumption
  <1>10. SessionInv(s)'
    <2>1. Identity(s)'
      BY <1>2, <1>3, <1>8, <1>9 DEF Identity, AccountOps, SecurityOps
    <2>2. HandlerKnows(s)' BY <1>2, <1>7, <1>8 DEF HandlerKnows, Updating
    <2>3. Dated(s)' /\ NewIterate(s)'
      BY <1>6, <1>7 DEF Dated, NewIterate, FreshChain
    <2> QED BY <2>1, <2>2, <2>3 DEF SessionInv
  <1>11. /\ userId' \in [Sessions -> Ids] /\ userType' \in [Sessions -> 0..2]
         /\ \A r \in Sessions : r # s => /\ userId'[r] = userId[r]
                                         /\ userType'[r] = userType[r]
    BY <1>1, <1>2, <1>4, <1>9 DEF TypeOK, Ids
  <1> QED BY <1>1, <1>3, <1>5, <1>6, <1>10, <1>11, ContinuePreserves
          DEF Signals, Control, Working, TypeOK

LEMMA AdminLoginWritePreserves ==
    ASSUME IInv, NEW s \in Sessions, AdminLoginWrite(s)
    PROVE  IInv'
  <1>1. TypeOK /\ pc[s] = "adminWrite"
    BY DEF IInv, AdminLoginWrite
  <1>2. userId[s] \in Admins BY <1>1 DEF IInv, HandlerKnows
  <1>3. /\ BuffKept(s) /\ AccountKept /\ Return(s, "none")
        /\ UNCHANGED <<now, password, conn, userId, userType, todo, table>>
    BY BuffUnchanged, AccountUnchanged DEF AdminLoginWrite
  <1> DEFINE a == userId[s]
             b == local[s].cred.chal <= 1
             c == Advanced(administrator[a], local[s].newIter, b, local[s].newRnd)
  <1>4. c \in Credential
    <2>1. /\ administrator[a] \in Credential
          /\ local[s].newIter \in Value /\ local[s].newRnd \in Randoms
      BY <1>1, <1>2 DEF TypeOK, Local
    <2>2. b \in BOOLEAN OBVIOUS
    <2> HIDE DEF b
    <2> QED BY <2>1, <2>2, AdvancedType
  <1>5. administrator' = [administrator EXCEPT ![a] = c] BY DEF AdminLoginWrite
  <1> HIDE DEF c
  <1>6. administrator' \in [Admins -> Credential]
    BY <1>1, <1>2, <1>4, <1>5 DEF TypeOK
  <1> QED BY <1>1, <1>3, <1>6, ReturnPreserves DEF Signals, TypeOK

-----------------------------------------------------------------------------
(* ResetPassword and Unfreeze.                                             *)

\* Both queries either answer or go on to set their flag.
LEMMA RequestQueryPreserves ==
    ASSUME IInv, NEW s \in Sessions, NEW m, Receive(s, m), m.op \in AccountOps,
           NEW label \in {"resetSet", "unfreezeSet"},
           \/ \E signal \in Signals : Return(s, signal)
           \/ Continue(s, label, "none", NoLocal),
           UNCHANGED <<now, tables, conn, userId, userType, todo, table>>
    PROVE  IInv'
  <1>1. TypeOK BY DEF IInv
  <1>2. AccountKept BY AccountUnchanged DEF tables
  <1>3. BuffKept(s) /\ buff'[s] = m /\ Fits(s, m)
    BY BuffReceived
  <1>4. UNCHANGED <<now, account, password, administrator, conn, userId,
                    userType, todo, table>>
    BY DEF tables
  <1>5. CASE \E signal \in Signals : Return(s, signal)
    BY <1>1, <1>2, <1>3, <1>4, <1>5, ReturnPreserves DEF TypeOK
  <1>6. CASE Continue(s, label, "none", NoLocal)
    <2>1. pc'[s] = label BY <1>1, <1>6 DEF Continue, TypeOK
    <2>2. SessionInv(s)'
      BY <1>1, <1>3, <1>4, <2>1
      DEF IInv, SessionInv, Identity, HandlerKnows, Updating, Dated, NewIterate,
          Fits
    <2> QED BY <1>1, <1>2, <1>3, <1>4, <1>6, <2>2, NoLocalType, ContinuePreserves
            DEF Signals, Control, Working, TypeOK
  <1> QED BY <1>5, <1>6

LEMMA ResetQueryPreserves ==
    ASSUME IInv, NEW s \in Sessions, NEW m, ResetQuery(s, m)
    PROVE  IInv'
  <1>1. m.op \in AccountOps /\ Receive(s, m) BY DEF ResetQuery, AccountOps
  <1>2. \/ \E signal \in Signals : Return(s, signal)
        \/ Continue(s, "resetSet", "none", NoLocal)
    BY DEF ResetQuery, Signals
  <1> QED BY <1>1, <1>2, RequestQueryPreserves DEF ResetQuery

LEMMA UnfreezeQueryPreserves ==
    ASSUME IInv, NEW s \in Sessions, NEW m, UnfreezeQuery(s, m)
    PROVE  IInv'
  <1>1. m.op \in AccountOps /\ Receive(s, m) BY DEF UnfreezeQuery, AccountOps
  <1>2. \/ \E signal \in Signals : Return(s, signal)
        \/ Continue(s, "unfreezeSet", "none", NoLocal)
    BY DEF UnfreezeQuery, Signals
  <1> QED BY <1>1, <1>2, RequestQueryPreserves DEF UnfreezeQuery

LEMMA FlagSetPreserves ==
    ASSUME IInv, NEW s \in Sessions, NEW label \in {"resetSet", "unfreezeSet"},
           NEW column \in Flags, FlagSet(s, label, column)
    PROVE  IInv'
  <1>1. TypeOK /\ now \in Nat /\ pc[s] = label
    BY DEF IInv, TypeOK, FlagSet
  <1>2. buff[s].id \in Users
    BY <1>1 DEF IInv, Identity, HandlerKnows
  <1>3. /\ BuffKept(s)
        /\ UNCHANGED <<now, password, administrator, conn, userId,
                       userType, todo, table>>
    BY BuffUnchanged DEF FlagSet
  <1> DEFINE u   == buff[s].id
             new == SetFlag(account[u], column)
  <1>4. account[u] # NoRow => new \in RowBefore /\ new.block = account[u].block
    BY <1>1, <1>2, SetFlagType DEF TypeOK
  <1>5. UpdateAccount(u, new) /\ Return(s, "S_ACCESS") BY DEF FlagSet
  <1> HIDE DEF new
  <1>6. AccountKept BY <1>2, <1>4, <1>5, UpdateKeeps
  <1> QED BY <1>1, <1>3, <1>5, <1>6, ReturnPreserves DEF Signals, TypeOK

-----------------------------------------------------------------------------
(* UpdatePassword.                                                         *)

LEMMA UpdateQueryPreserves ==
    ASSUME IInv, NEW s \in Sessions, NEW m, UpdateQuery(s, m)
    PROVE  IInv'
  <1>1. TypeOK /\ now \in Nat BY DEF IInv, TypeOK
  <1>2. Receive(s, m) /\ m.op = "C_UPDATE_PASSWORD" /\ AccountKept
    BY AccountUnchanged DEF UpdateQuery, tables
  <1>3. BuffKept(s) /\ buff'[s] = m /\ Fits(s, m)
    BY <1>2, BuffReceived
  <1>4. UNCHANGED <<now, account, password, administrator, conn, userId,
                    userType, todo, table>>
    BY DEF UpdateQuery, tables
  <1>5. userId[s] \in Users BY <1>2, <1>3 DEF Fits
  <1> DEFINE c == account[userId[s]].cred
             l == [NoLocal EXCEPT !.cred = c]
  <1>6. Continue(s, "updatePast", "none", l) BY DEF UpdateQuery
  <1>7. l \in Local
    <2>1. account[userId[s]] \in Row
      BY <1>1, <1>5 DEF IInv, TypeOK, Identity
    <2>2. c \in Credential BY <2>1 DEF Row
    <2> HIDE DEF c
    <2> QED BY <2>2, NoLocalType DEF Local
  <1> HIDE DEF l
  <1>8. pc'[s] = "updatePast" BY <1>1, <1>6 DEF Continue, TypeOK
  <1>9. SessionInv(s)'
    BY <1>1, <1>2, <1>3, <1>4, <1>5, <1>8
    DEF IInv, SessionInv, Identity, HandlerKnows, Updating, Dated, NewIterate, Fits
  <1> QED BY <1>1, <1>2, <1>3, <1>4, <1>6, <1>7, <1>9, ContinuePreserves
          DEF Signals, Control, Working, TypeOK

LEMMA UpdatePastPreserves ==
    ASSUME IInv, NEW s \in Sessions, UpdatePast(s)
    PROVE  IInv'
  <1>1. TypeOK /\ now \in Nat /\ pc[s] = "updatePast" BY DEF IInv, TypeOK, UpdatePast
  <1>2. /\ BuffKept(s) /\ AccountKept
        /\ UNCHANGED <<now, account, password, administrator, conn, buff,
                       userId, userType, todo, table>>
    BY BuffUnchanged, AccountUnchanged DEF UpdatePast, tables
  <1>3. userId[s] \in Users BY <1>1 DEF IInv, HandlerKnows, Updating
  <1> DEFINE P == GetPastPassword(password[userId[s]])
             l == [local[s] EXCEPT !.past = P, !.newRnd = GetRandomString(now)]
  <1>4. Continue(s, "updateWait", "none", l) BY DEF UpdatePast
  <1>5. l \in Local
    <2>1. password[userId[s]] \in Seq(Credential) BY <1>1, <1>3 DEF TypeOK
    <2>2. P \in SUBSET Credential BY <2>1, GetPastPasswordType
    <2>3. GetRandomString(now) \in Randoms BY <1>1, RandomType
    <2>4. local[s] \in Local BY <1>1 DEF TypeOK
    <2> HIDE DEF P
    <2> QED BY <2>2, <2>3, <2>4, LocalPastType
  <1> HIDE DEF l
  <1>6. pc'[s] = "updateWait" BY <1>1, <1>4 DEF Continue, TypeOK
  <1>7. SessionInv(s)'
    BY <1>1, <1>2, <1>3, <1>6
    DEF IInv, SessionInv, Identity, HandlerKnows, Updating, Dated, NewIterate
  <1> QED BY <1>1, <1>2, <1>4, <1>5, <1>7, ContinuePreserves
          DEF Signals, Control, Waiting, TypeOK

LEMMA UpdateRepeatPreserves ==
    ASSUME IInv, NEW s \in Sessions, NEW pw, UpdateRepeat(s, pw)
    PROVE  IInv'
  <1>1. TypeOK BY DEF IInv, UpdateRepeat
  <1>2. /\ BuffKept(s) /\ AccountKept /\ Return(s, "S_FAILED")
        /\ UNCHANGED <<now, password, administrator, conn, userId,
                       userType, todo, table>>
    BY BuffUnchanged, AccountUnchanged DEF UpdateRepeat, tables
  <1> QED BY <1>1, <1>2, ReturnPreserves DEF Signals, TypeOK

LEMMA UpdateAcceptPreserves ==
    ASSUME IInv, NEW s \in Sessions, NEW pw \in Passwords, UpdateAccept(s, pw)
    PROVE  IInv'
  <1>1. TypeOK /\ pc[s] = "updateWait" BY DEF IInv, UpdateAccept
  <1>2. /\ BuffKept(s) /\ AccountKept
        /\ UNCHANGED <<now, account, password, administrator, conn, buff,
                       userId, userType, todo, table>>
    BY BuffUnchanged, AccountUnchanged DEF UpdateAccept, tables
  <1>3. userId[s] \in Users BY <1>1 DEF IInv, HandlerKnows, Updating
  <1> DEFINE v == PasswdToMD5(pw, local[s].newRnd, DefaultChallenge + 1)
             k == [local[s] EXCEPT !.newIter = v]
  <1>4. Continue(s, "updateInsert", "none", k) BY DEF UpdateAccept
  <1>5. /\ local[s] \in Local /\ local[s].newRnd \in Randoms /\ pw \in AllPasswords
        /\ DefaultChallenge \in Nat
    BY <1>1, DataAssumption DEF TypeOK, Local, AllPasswords, DataAssumption
  <1>6. v \in Value BY <1>5, PasswdToMD5Type
  <1>7. v.rnd = local[s].newRnd /\ v.n = DefaultChallenge + 1
    BY <1>5 DEF PasswdToMD5
  <1> HIDE DEF v
  <1>8. k \in Local BY <1>5, <1>6, LocalIterType
  <1>9. k.newIter = v /\ k.newRnd = local[s].newRnd BY <1>5 DEF Local
  <1> HIDE DEF k
  <1>10. pc'[s] = "updateInsert" /\ local'[s] = k
    BY <1>1, <1>4 DEF Continue, TypeOK
  <1>11. SessionInv(s)'
    BY <1>1, <1>2, <1>3, <1>7, <1>9, <1>10
    DEF IInv, SessionInv, Identity, HandlerKnows, Updating, Dated, NewIterate,
        FreshChain
  <1> QED BY <1>1, <1>2, <1>4, <1>8, <1>11, ContinuePreserves
          DEF Signals, Control, Working, TypeOK

\* Moving a credential into the history.
LEMMA InsertPastType ==
    ASSUME TypeOK, NEW u \in Users, InsertPast(u)
    PROVE  password' \in [Users -> Seq(Credential)]
  <1>1. password \in [Users -> Seq(Credential)] /\ account[u] \in Row \cup {NoRow}
    BY DEF TypeOK
  <1>2. CASE account[u] = NoRow
    BY <1>1, <1>2 DEF InsertPast
  <1>3. CASE account[u] # NoRow
    <2>1. account[u].cred \in Credential BY <1>1, <1>3 DEF Row
    <2>2. Append(password[u], account[u].cred) \in Seq(Credential)
      BY <1>1, <2>1
    <2> QED BY <1>1, <1>3, <2>2 DEF InsertPast
  <1> QED BY <1>2, <1>3

LEMMA UpdateInsertPreserves ==
    ASSUME IInv, NEW s \in Sessions, UpdateInsert(s)
    PROVE  IInv'
  <1>1. TypeOK /\ pc[s] = "updateInsert" /\ local[s] \in Local
    BY DEF IInv, TypeOK, UpdateInsert
  <1>2. /\ BuffKept(s) /\ AccountKept /\ InsertPast(userId[s])
        /\ Continue(s, "updateTime", "none", local[s])
        /\ UNCHANGED <<now, account, administrator, conn, buff,
                       userId, userType, todo, table>>
    BY BuffUnchanged, AccountUnchanged DEF UpdateInsert
  <1>3. userId[s] \in Users BY <1>1 DEF IInv, HandlerKnows, Updating
  <1>4. password' \in [Users -> Seq(Credential)]
    BY <1>1, <1>2, <1>3, InsertPastType
  <1>5. pc'[s] = "updateTime" /\ local'[s] = local[s]
    BY <1>1, <1>2 DEF Continue, TypeOK
  <1>6. SessionInv(s)'
    BY <1>1, <1>2, <1>3, <1>5
    DEF IInv, SessionInv, Identity, HandlerKnows, Updating, Dated, NewIterate,
        FreshChain
  <1> QED BY <1>1, <1>2, <1>4, <1>6, ContinuePreserves
          DEF Signals, Control, Working, TypeOK

LEMMA UpdateTimePreserves ==
    ASSUME IInv, NEW s \in Sessions, UpdateTime(s)
    PROVE  IInv'
  <1>1. TypeOK /\ now \in Nat /\ pc[s] = "updateTime" /\ local[s] \in Local
    BY DEF IInv, TypeOK, UpdateTime
  <1>2. userId[s] \in Users /\ account[userId[s]] \in Row
    BY <1>1 DEF IInv, TypeOK, Identity, HandlerKnows, Updating
  <1> DEFINE u   == userId[s]
             new == [account[u] EXCEPT !.update = Date(now)]
  <1>3. /\ BuffKept(s) /\ UpdateAccount(u, new)
        /\ Continue(s, "updateChain", "none", local[s])
        /\ UNCHANGED <<now, password, administrator, conn, buff,
                       userId, userType, todo, table>>
    BY BuffUnchanged DEF UpdateTime
  <1>4. new \in RowBefore /\ new.block = account[u].block
    BY <1>1, <1>2, DateType, SetUpdateType
  <1> HIDE DEF new
  <1>5. AccountKept BY <1>2, <1>3, <1>4, UpdateKeeps
  <1>6. pc'[s] = "updateChain" /\ local'[s] = local[s]
    BY <1>1, <1>3 DEF Continue, TypeOK
  <1>7. SessionInv(s)'
    BY <1>1, <1>2, <1>3, <1>5, <1>6
    DEF IInv, SessionInv, Identity, HandlerKnows, Updating, Dated, NewIterate,
        FreshChain, AccountKept
  <1> QED BY <1>1, <1>3, <1>5, <1>7, ContinuePreserves
          DEF Signals, Control, Working, TypeOK

LEMMA UpdateChainPreserves ==
    ASSUME IInv, NEW s \in Sessions, UpdateChain(s)
    PROVE  IInv'
  <1>1. TypeOK /\ now \in Nat /\ pc[s] = "updateChain"
    BY DEF IInv, TypeOK, UpdateChain
  <1>2. userId[s] \in Users /\ account[userId[s]] \in Row
    BY <1>1 DEF IInv, TypeOK, Identity, HandlerKnows, Updating
  <1> DEFINE u   == userId[s]
             new == UpdateChallengeAndRandom(account[u], local[s].newIter, TRUE,
                                             local[s].newRnd, now)
  <1>3. /\ BuffKept(s) /\ UpdateAccount(u, new) /\ Return(s, "S_ACCESS")
        /\ UNCHANGED <<now, password, administrator, conn, userId,
                       userType, todo, table>>
    BY BuffUnchanged DEF UpdateChain
  <1>4. new \in RowBefore /\ new.block = account[u].block
    <2>1. local[s].newIter \in Value /\ local[s].newRnd \in Randoms
      BY <1>1 DEF TypeOK, Local
    <2> QED BY <1>1, <1>2, <2>1, UpdateChallengeType
  <1> HIDE DEF new
  <1>5. AccountKept BY <1>2, <1>3, <1>4, UpdateKeeps
  <1> QED BY <1>1, <1>3, <1>5, ReturnPreserves DEF Signals, TypeOK

-----------------------------------------------------------------------------
(* The security administrator.                                             *)

LEMMA GetRequestPreserves ==
    ASSUME IInv, NEW s \in Sessions, NEW m, GetRequest(s, m)
    PROVE  IInv'
  <1>1. TypeOK BY DEF IInv
  <1>2. Receive(s, m) /\ AccountKept BY AccountUnchanged DEF GetRequest, tables
  <1>3. BuffKept(s) BY <1>2, BuffReceived
  <1>4. table' \in [Sessions -> SUBSET Users]
    BY <1>1 DEF TypeOK, GetRequest, Requests
  <1>5. /\ Return(s, "none")
        /\ UNCHANGED <<now, password, administrator, conn, userId,
                       userType, todo>>
    BY DEF GetRequest, tables
  <1> QED BY <1>1, <1>2, <1>3, <1>4, <1>5, ReturnPreserves DEF Signals, TypeOK

LEMMA ProcessBeginPreserves ==
    ASSUME IInv, NEW s \in Sessions, NEW m, ProcessBegin(s, m)
    PROVE  IInv'
  <1>1. TypeOK BY DEF IInv
  <1>2. Receive(s, m) /\ m.op \in SecurityOps /\ AccountKept
    BY AccountUnchanged DEF ProcessBegin, tables, SecurityOps
  <1>3. BuffKept(s) /\ buff'[s] = m /\ m \in Message /\ Fits(s, m) /\ pc[s] = "idle"
    BY <1>2, BuffReceived
  <1>4. /\ Continue(s, "process", "none", NoLocal)
        /\ todo' = [todo EXCEPT ![s] = m.ids]
        /\ UNCHANGED <<now, account, password, administrator, conn, userId,
                       userType, table>>
    BY DEF ProcessBegin, tables
  <1>5. /\ pc' \in [Sessions -> Control]
        /\ local' \in [Sessions -> Local]
        /\ reply' \in [Sessions -> Signals]
        /\ pc'[s] = "process"
        /\ \A r \in Sessions : r # s => pc'[r] = pc[r] /\ local'[r] = local[r]
    BY <1>1, <1>4, NoLocalType, ContinueEffect DEF Control, Working, Signals
  <1>6. todo' \in [Sessions -> SUBSET Users]
    BY <1>1, <1>3, <1>4 DEF TypeOK, Message
  <1>7. TypeOK' BY <1>1, <1>3, <1>4, <1>5, <1>6 DEF TypeOK, BuffKept
  <1>9. \A r \in Sessions : r # s => Same(r)
    BY <1>1, <1>3, <1>4, <1>5 DEF Same, BuffKept, TypeOK
  <1>10. SessionInv(s)'
    BY <1>1, <1>2, <1>3, <1>4, <1>5
    DEF IInv, SessionInv, Identity, HandlerKnows, Updating, Dated, NewIterate,
        Fits
  <1> QED BY <1>2, <1>4, <1>7, <1>9, <1>10, StepPreserves

LEMMA ProcessOnePreserves ==
    ASSUME IInv, NEW s \in Sessions, NEW u \in Users, ProcessOne(s, u)
    PROVE  IInv'
  <1>1. TypeOK /\ now \in Nat /\ pc[s] = "process"
    BY DEF IInv, TypeOK, ProcessOne
  <1> DEFINE new == ProcessRequest(account[u], buff[s].type, Mode(s), now)
  <1>2. /\ UpdateAccount(u, new) /\ todo' = [todo EXCEPT ![s] = @ \ {u}]
        /\ UNCHANGED <<now, password, administrator, pc, conn, buff,
                       userId, userType, local, table, reply>>
    BY DEF ProcessOne
  <1>3. account[u] # NoRow => new \in RowBefore /\ new.block = account[u].block
    BY <1>1, ProcessType DEF TypeOK
  <1> HIDE DEF new
  <1>4. AccountKept BY <1>2, <1>3, UpdateKeeps
  <1>5. TypeOK' BY <1>1, <1>2, <1>4 DEF TypeOK, AccountKept
  <1>7. \A r \in Sessions : r # s => Same(r) BY <1>1, <1>2 DEF Same, TypeOK
  <1>8. SessionInv(s)'
    BY <1>1, <1>2, <1>4
    DEF IInv, SessionInv, Identity, HandlerKnows, Updating, Dated, NewIterate,
        AccountKept
  <1> QED BY <1>2, <1>4, <1>5, <1>7, <1>8, StepPreserves

LEMMA PassInsertPreserves ==
    ASSUME IInv, NEW s \in Sessions, NEW u \in Users, PassInsert(s, u)
    PROVE  IInv'
  <1>1. TypeOK /\ pc[s] = "process" /\ u \in todo[s] /\ u \in Ids
    BY DEF IInv, PassInsert, Ids
  <1> DEFINE l == [NoLocal EXCEPT !.cur = u]
  <1>2. /\ BuffKept(s) /\ AccountKept /\ InsertPast(u)
        /\ Continue(s, "passReset", "none", l)
        /\ UNCHANGED <<now, account, administrator, conn, buff,
                       userId, userType, todo, table>>
    BY BuffUnchanged, AccountUnchanged DEF PassInsert
  <1>3. l \in Local /\ l.cur = u
    BY <1>1, NoLocalType, LocalCurType DEF Local
  <1> HIDE DEF l
  <1>4. password' \in [Users -> Seq(Credential)] BY <1>1, <1>2, InsertPastType
  <1>5. pc'[s] = "passReset" /\ local'[s] = l
    BY <1>1, <1>2 DEF Continue, TypeOK
  <1>6. SessionInv(s)'
    BY <1>1, <1>2, <1>3, <1>5
    DEF IInv, SessionInv, Identity, HandlerKnows, Updating, Dated, NewIterate
  <1> QED BY <1>1, <1>2, <1>3, <1>4, <1>6, ContinuePreserves
          DEF Signals, Control, Working, TypeOK

LEMMA PassResetPreserves ==
    ASSUME IInv, NEW s \in Sessions, PassReset(s)
    PROVE  IInv'
  <1>1. TypeOK /\ now \in Nat /\ pc[s] = "passReset"
    BY DEF IInv, TypeOK, PassReset
  <1>2. local[s].cur \in Users BY <1>1 DEF IInv, TypeOK, HandlerKnows
  <1> DEFINE u   == local[s].cur
             new == ResetToDefault(account[u])
  <1>3. /\ BuffKept(s) /\ UpdateAccount(u, new)
        /\ Continue(s, "process", "none", NoLocal)
        /\ todo' = [todo EXCEPT ![s] = @ \ {u}]
        /\ UNCHANGED <<now, password, administrator, conn, buff,
                       userId, userType, table>>
    BY BuffUnchanged DEF PassReset
  <1>4. account[u] # NoRow => new \in RowBefore /\ new.block = account[u].block
    BY <1>1, <1>2, ResetType DEF TypeOK
  <1> HIDE DEF new
  <1>5. AccountKept BY <1>2, <1>3, <1>4, UpdateKeeps
  <1>6. pc'[s] = "process" BY <1>1, <1>3 DEF Continue, TypeOK
  <1>7. SessionInv(s)'
    BY <1>1, <1>3, <1>5, <1>6
    DEF IInv, SessionInv, Identity, HandlerKnows, Updating, Dated, NewIterate,
        AccountKept
  <1>8. /\ todo' \in [Sessions -> SUBSET Users]
        /\ \A r \in Sessions : r # s => todo'[r] = todo[r]
    BY <1>1, <1>3 DEF TypeOK
  <1> QED BY <1>1, <1>3, <1>5, <1>7, <1>8, NoLocalType, ContinuePreserves
          DEF Signals, Control, Working, TypeOK

LEMMA ProcessEndPreserves ==
    ASSUME IInv, NEW s \in Sessions, ProcessEnd(s)
    PROVE  IInv'
  <1>1. TypeOK /\ pc[s] = "process"
    BY DEF IInv, ProcessEnd
  <1>2. /\ BuffKept(s) /\ AccountKept /\ Return(s, "none")
        /\ UNCHANGED <<now, account, password, administrator, conn, buff, userId,
                       userType, todo, table>>
    BY BuffUnchanged, AccountUnchanged DEF ProcessEnd, tables
  <1>3. /\ pc' \in [Sessions -> Control]
        /\ local' \in [Sessions -> Local]
        /\ reply' \in [Sessions -> Signals]
        /\ pc'[s] = "idle"
        /\ \A r \in Sessions : r # s => pc'[r] = pc[r] /\ local'[r] = local[r]
    BY <1>1, <1>2, ReturnEffect DEF Signals
  <1>4. TypeOK' BY <1>1, <1>2, <1>3 DEF TypeOK
  <1>6. \A r \in Sessions : r # s => Same(r) BY <1>2, <1>3 DEF Same
  <1>7. SessionInv(s)'
    BY <1>1, <1>2, <1>3
    DEF IInv, SessionInv, Identity, HandlerKnows, Updating, Dated, NewIterate
  <1> QED BY <1>2, <1>4, <1>6, <1>7, StepPreserves

-----------------------------------------------------------------------------
(* Connections, the clock, the process.                                    *)

LEMMA AcceptPreserves ==
    ASSUME IInv, NEW s \in Sessions, Accept(s)
    PROVE  IInv'
  <1>1. TypeOK /\ pc[s] = "closed" BY DEF IInv, Accept
  <1>2. /\ pc' = [pc EXCEPT ![s] = "idle"] /\ conn' = [conn EXCEPT ![s] = TRUE]
        /\ UNCHANGED <<now, account, password, administrator, buff,
                       userId, userType, local, todo, table, reply>>
    BY DEF Accept, tables
  <1>3. pc'[s] = "idle" /\ \A r \in Sessions : r # s => pc'[r] = pc[r]
    BY <1>1, <1>2 DEF TypeOK
  <1>4. AccountKept BY <1>2, AccountUnchanged
  <1>5. TypeOK' BY <1>1, <1>2 DEF TypeOK, Control
  <1>7. \A r \in Sessions : r # s => Same(r) BY <1>2, <1>3 DEF Same
  <1>8. SessionInv(s)'
    BY <1>1, <1>2, <1>3
    DEF IInv, SessionInv, Identity, HandlerKnows, Updating, Dated, NewIterate
  <1> QED BY <1>2, <1>4, <1>5, <1>7, <1>8, StepPreserves

\* A session that is forgotten is as at the start.
LEMMA ForgetPreserves ==
    ASSUME IInv, NEW ss \in SUBSET Sessions, Forget(ss),
           UNCHANGED <<now, tables>>
    PROVE  IInv'
  <1>1. TypeOK /\ now \in Nat BY DEF IInv, TypeOK
  <1>2. UNCHANGED <<now, account, password, administrator>> BY DEF tables
  <1>3. NoUser \in Ids /\ "closed" \in Control /\ "none" \in Signals
        /\ 0 \in 0..2 /\ FALSE \in BOOLEAN
    BY DEF Ids, Control, Signals
  <1>4. TypeOK'
    <2>1. pc' \in [Sessions -> Control] BY <1>1, <1>3 DEF Forget, TypeOK
    <2>2. conn' \in [Sessions -> BOOLEAN] BY <1>1, <1>3 DEF Forget, TypeOK
    <2>3. buff' \in [Sessions -> Message] BY <1>1, NoMsgType DEF Forget, TypeOK
    <2>4. userId' \in [Sessions -> Ids] BY <1>1, <1>3 DEF Forget, TypeOK
    <2>5. userType' \in [Sessions -> 0..2] BY <1>1, <1>3 DEF Forget, TypeOK
    <2>6. local' \in [Sessions -> Local] BY <1>1, NoLocalType DEF Forget, TypeOK
    <2>7. /\ todo' \in [Sessions -> SUBSET Users]
          /\ table' \in [Sessions -> SUBSET Users]
      BY <1>1 DEF Forget, TypeOK
    <2>8. reply' \in [Sessions -> Signals] BY <1>1, <1>3 DEF Forget, TypeOK
    <2> QED BY <1>1, <1>2, <2>1, <2>2, <2>3, <2>4, <2>5, <2>6, <2>7, <2>8
            DEF TypeOK
  <1>6. \A u \in Users : account'[u] # NoRow => account'[u].block <= now'
    BY <1>2 DEF IInv
  <1>7. ASSUME NEW r \in Sessions PROVE SessionInv(r)'
    <2>1. CASE r \in ss
      <3>1. /\ pc'[r] = "closed" /\ buff'[r] = NoMsg
            /\ userId'[r] = NoUser /\ userType'[r] = 0
        BY <2>1 DEF Forget
      <3>2. NoUser \notin Users /\ NoUser \notin Admins
        BY ServerAssumption, DataAssumption DEF ServerAssumption, DataAssumption
      <3> QED BY <3>1, <3>2
              DEF SessionInv, Identity, HandlerKnows, Updating, Dated, NewIterate,
                  NoMsg, AccountOps, SecurityOps
    <2>2. CASE r \notin ss
      <3>1. Same(r) BY <2>2 DEF Same, Forget
      <3>2. SessionInv(r) BY DEF IInv, SessionInv
      <3>3. \A u \in Users : account[u] # NoRow => account'[u] # NoRow BY <1>2
      <3>4. now' \in Nat /\ now' >= now BY <1>1, <1>2
      <3> QED BY <1>1, <3>1, <3>2, <3>3, <3>4, OtherSession
    <2> QED BY <2>1, <2>2
  <1> QED BY <1>4, <1>6, <1>7 DEF IInv, SessionInv

LEMMA LogoutPreserves ==
    ASSUME IInv, NEW s \in Sessions, Logout(s)
    PROVE  IInv'
  BY ForgetPreserves DEF Logout

LEMMA ServerDiesPreserves ==
    ASSUME IInv, ServerDies
    PROVE  IInv'
  BY ForgetPreserves DEF ServerDies

LEMMA DropPreserves ==
    ASSUME IInv, NEW s \in Sessions, Drop(s)
    PROVE  IInv'
  <1>1. TypeOK BY DEF IInv
  <1>2. /\ conn' = [conn EXCEPT ![s] = FALSE]
        /\ UNCHANGED <<now, account, password, administrator, pc, buff,
                       userId, userType, local, todo, table, reply>>
    BY DEF Drop, tables
  <1>3. AccountKept BY <1>2, AccountUnchanged
  <1>4. TypeOK' BY <1>1, <1>2 DEF TypeOK
  <1>6. \A r \in Sessions : Same(r) BY <1>2 DEF Same
  <1>7. SessionInv(s)'
    BY <1>2
    DEF IInv, SessionInv, Identity, HandlerKnows, Dated, NewIterate, FreshChain
  <1> QED BY <1>2, <1>3, <1>4, <1>6, <1>7, StepPreserves

LEMMA ReceiveErrorPreserves ==
    ASSUME IInv, NEW s \in Sessions, ReceiveError(s)
    PROVE  IInv'
  <1>1. TypeOK
    BY DEF IInv, ReceiveError, Waiting
  <1>2. /\ BuffKept(s) /\ AccountKept /\ Return(s, "none")
        /\ UNCHANGED <<now, password, administrator, conn, userId,
                       userType, todo, table>>
    BY BuffUnchanged, AccountUnchanged DEF ReceiveError, tables
  <1> QED BY <1>1, <1>2, ReturnPreserves DEF Signals, TypeOK

LEMMA TickPreserves ==
    ASSUME IInv, Tick
    PROVE  IInv'
  <1>1. TypeOK /\ now \in Nat /\ now' = now + 1
    BY DEF IInv, TypeOK, Tick
  <1>2. UNCHANGED <<account, password, administrator, pc, conn, buff,
                    userId, userType, local, todo, table, reply>>
    BY DEF Tick, tables, sessionVars
  <1>3. TypeOK' BY <1>1, <1>2 DEF TypeOK
  <1>5. ASSUME NEW u \in Users, account'[u] # NoRow
        PROVE  account'[u].block <= now'
    <2>1. account[u].block \in Nat BY <1>1, <1>2, <1>5 DEF TypeOK, Row
    <2>2. account[u].block <= now BY <1>2, <1>5 DEF IInv
    <2> QED BY <1>1, <1>2, <2>1, <2>2
  <1>6. ASSUME NEW r \in Sessions PROVE SessionInv(r)'
    <2>1. Same(r) BY <1>2 DEF Same
    <2>2. SessionInv(r) BY DEF IInv, SessionInv
    <2>3. now' \in Nat /\ now' >= now BY <1>1
    <2> QED BY <1>1, <1>2, <2>1, <2>2, <2>3, OtherSession
  <1> QED BY <1>3, <1>5, <1>6 DEF IInv, SessionInv

LEMMA StutterPreserves ==
    ASSUME IInv, UNCHANGED vars
    PROVE  IInv'
  BY DEF IInv, vars, tables, sessionVars, TypeOK, Identity,
         HandlerKnows, Dated, NewIterate, FreshChain

-----------------------------------------------------------------------------
(* The theorems.                                                           *)

\* The tables of a fresh installation, without sessions, satisfy the invariant.
LEMMA InitInvariant ==
    ASSUME Init
    PROVE  IInv
  <1>1. /\ Start \in Nat
        /\ AdminPassword \in AllPasswords
        /\ AdminChallenge \in Nat /\ NoUser \notin Users /\ NoUser \notin Admins
    BY ServerAssumption, DataAssumption DEF ServerAssumption, DataAssumption
  <1>2. administrator \in [Admins -> Credential]
    <2>1. AdminChallenge + 1 \in Int /\ AdminChallenge \in Int BY <1>1
    <2>2. PasswdToMD5(AdminPassword, SeedRandom, AdminChallenge + 1) \in Value
      BY <1>1, <2>1, PasswdToMD5Type, RandomType
    <2> QED BY <2>1, <2>2, RandomType DEF Init, Credential
  <1>3. TypeOK
    <2>1. password \in [Users -> Seq(Credential)] BY DEF Init
    <2>2. account \in [Users -> Row \cup {NoRow}] BY DEF Init
    <2>3. local \in [Sessions -> Local] BY NoLocalType DEF Init
    <2>4. buff \in [Sessions -> Message] BY NoMsgType DEF Init
    <2> QED BY <1>1, <1>2, <2>1, <2>2, <2>3, <2>4
            DEF Init, TypeOK, Control, Ids, Signals
  <1>5. \A u \in Users : account[u] # NoRow => account[u].block <= now
    BY DEF Init
  <1>6. \A s \in Sessions : Identity(s) /\ HandlerKnows(s) /\ Dated(s) /\ NewIterate(s)
    BY <1>1 DEF Init, Identity, HandlerKnows, Updating, Dated, NewIterate, NoMsg,
                AccountOps, SecurityOps
  <1> QED BY <1>3, <1>5, <1>6 DEF IInv

\* Every step of the server, its clients and its clock preserves it.
LEMMA NextPreserves ==
    ASSUME IInv, [Next]_vars
    PROVE  IInv'
  <1>1. ASSUME NEW s \in Sessions, Dispatch(s) PROVE IInv'
    BY <1>1, RegisterQueryPreserves, LoginQueryPreserves, AdminLoginQueryPreserves,
       ResetQueryPreserves, UnfreezeQueryPreserves, UpdateQueryPreserves,
       GetRequestPreserves, ProcessBeginPreserves
    DEF Dispatch
  <1>2. ASSUME NEW s \in Sessions, ClientAnswer(s) PROVE IInv'
    BY <1>2, RegisterAddPreserves, UpdateRepeatPreserves, UpdateAcceptPreserves,
       LoginWrongPreserves, LoginRightPreserves, AdminLoginWrongPreserves,
       AdminLoginRightPreserves
    DEF ClientAnswer
  <1>3. ASSUME NEW s \in Sessions, HandlerStep(s) PROVE IInv'
    <2>1. CASE ResetSet(s)
      BY <2>1, FlagSetPreserves DEF ResetSet, Flags
    <2>2. CASE UnfreezeSet(s)
      BY <2>2, FlagSetPreserves DEF UnfreezeSet, Flags
    <2> QED BY <1>3, <2>1, <2>2, LoginWritePreserves, AdminLoginWritePreserves,
               UpdatePastPreserves, UpdateInsertPreserves, UpdateTimePreserves, UpdateChainPreserves,
               ProcessOnePreserves, PassInsertPreserves, PassResetPreserves,
               ProcessEndPreserves
            DEF HandlerStep
  <1>4. ASSUME NEW s \in Sessions, ConnectionStep(s) PROVE IInv'
    BY <1>4, AcceptPreserves, LogoutPreserves, DropPreserves,
       ReceiveErrorPreserves, ServerDiesPreserves
    DEF ConnectionStep, ParseFailure
  <1>5. CASE Crash BY <1>5, ServerDiesPreserves DEF Crash
  <1>6. CASE Tick BY <1>6, TickPreserves
  <1>7. CASE UNCHANGED vars BY <1>7, StutterPreserves
  <1> QED BY <1>1, <1>2, <1>3, <1>4, <1>5, <1>6, <1>7 DEF Next

\* The inductive invariant: types, and what the thread of every
\* session knows at each point of its handler.
THEOREM Invariance == Spec => []IInv
  <1>1. Init => IInv BY InitInvariant
  <1>2. IInv /\ [Next]_vars => IInv' BY NextPreserves
  <1> QED BY <1>1, <1>2, PTL DEF Spec

\* Type correctness, with the count of errors bounded by the trigger.
THEOREM TypeCorrect == Spec => []TypeOK
  <1>1. IInv => TypeOK BY DEF IInv
  <1> QED BY <1>1, Invariance, PTL

=============================================================================
