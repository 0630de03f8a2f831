------------------------------ MODULE SKeyData ------------------------------
(***************************************************************************)
(* The data of the S/Key server: one-time-password values, rows of the     *)
(* tables `account`, `password` and `administrator`, and what every SQL    *)
(* statement of class DataBase does to one row.  Operators only, no state. *)
(*                                                                         *)
(* The clock is a natural number of ticks since 2000-01-01 00:00:00, the   *)
(* default of the date columns (so that default is tick 0, day 0).         *)
(***************************************************************************)
EXTENDS Integers, Sequences

CONSTANTS
    Users,                 \* account ids a person may type
    Passwords,             \* passwords CheckPassword lets a person choose
    DefaultPassword,       \* the password a granted reset installs
    DefaultChallenge,      \* DataBase::defaultChallenge (255)
    NoLoginPeriod,         \* setting no_login_period, in days
    PasswordChangePeriod,  \* setting password_change_period, in days
    UnfreezePeriod,        \* the 30 days written into Unfreeze
    LockTime,              \* the 5 minutes written into Login, in ticks
    DayLength,             \* ticks in a day
    NoUser,                \* "", the userId of a session before its login
    NoRow                  \* the result of a query without a row

(***************************************************************************)
(* PasswdToMD5(pw, rnd, k) is the k-fold MD5 of pw concatenated with rnd.  *)
(* The hash is a free constructor: the value remembers what was hashed and *)
(* how often, and two values are equal only if all three agree.  A count   *)
(* below one runs the loop zero times.                                     *)
(***************************************************************************)
PasswdToMD5(pw, rnd, k) ==
    [pw |-> pw, rnd |-> rnd, n |-> IF k > 0 THEN k ELSE 0]

\* PasswdToMD5(iterate, "", 1): one more round on a value already hashed.
Rehash(v) == [v EXCEPT !.n = @ + 1]

\* Random strings.  GetRandomString seeds rand() with the second it is called
\* in, so the string is a function of that second.  '123456' is the constant
\* of ProcessRequest, SeedRandom the one in the dump of `administrator`.
GetRandomString(t) == t
DefaultRandom == -1
SeedRandom == -2
Randoms == {DefaultRandom, SeedRandom} \cup Nat

AllPasswords == Passwords \cup {DefaultPassword}

Value == [pw : AllPasswords, rnd : Randoms, n : Nat]

\* What a login needs of a row, and what table `password` keeps of it.
Credential == [iter : Value, chal : Int, rnd : Randoms]

\* The boolean columns of `account`; a row holds the set of those that are true.
ResetFlag == "A_reset_password"
UnfreezeFlag == "A_request_unfreeze"
Flags == {ResetFlag, UnfreezeFlag}

\* A row of `account`; the name is left out, nothing depends on it.
Row == [cred : Credential, block : Nat, err : Nat, errs : 0..2,
        login : Nat, update : Nat, flags : SUBSET Flags]

\* A row of `administrator` is a Credential: the name is left out and the
\* type, which no statement changes, is a constant of SKeyServer.

Date(t) == t \div DayLength

DataAssumption ==
    /\ DefaultPassword \notin Passwords
    /\ NoUser \notin Users
    /\ DefaultChallenge \in Nat /\ DefaultChallenge > 1
    /\ NoLoginPeriod \in Nat /\ PasswordChangePeriod \in Nat
    /\ UnfreezePeriod \in Nat
    /\ LockTime \in Nat /\ LockTime > 0
    /\ DayLength \in Nat /\ DayLength > 0
    /\ NoRow \notin Row

ASSUME DataAssumption

-----------------------------------------------------------------------------
(* Trigger FROZEN, before every update of a row of `account`.              *)
\* Mutant: the comparison is one too late.
TriggerFrozenLate(row, t) ==
    IF row.errs > 3 THEN [row EXCEPT !.block = t, !.errs = 0] ELSE row

TriggerFrozen(row, t) ==
    IF row.errs = 3 THEN [row EXCEPT !.block = t, !.errs = 0] ELSE row

\* `update account set .. where A_uid = u` leaves the table alone if there is
\* no such row, and otherwise passes the new row through the trigger.
Updated(old, new, t) == IF old = NoRow THEN old ELSE TriggerFrozen(new, t)

\* AddUser: the columns it names, the defaults of the schema for the others.
AddUser(rnd, iter, chal, t) ==
    [cred |-> [iter |-> iter, chal |-> chal, rnd |-> rnd],
     block |-> 0, err |-> 0, errs |-> 0,
     login |-> Date(t), update |-> Date(t), flags |-> {}]

\* Mutants: a new chain under the old random string; no countdown.
AdvancedOldRandom(c, iter, changeRand, rnd) ==
    IF changeRand THEN [c EXCEPT !.iter = iter, !.chal = DefaultChallenge]
                  ELSE [c EXCEPT !.iter = iter, !.chal = @ - 1]

AdvancedNoCount(c, iter, changeRand, rnd) ==
    IF changeRand THEN [iter |-> iter, chal |-> DefaultChallenge, rnd |-> rnd]
                  ELSE [c EXCEPT !.iter = iter]

\* What UpdateChallengeAndRandom and UdpateAdminChallengeAndRandom do to a
\* credential; changeRand picks the statement.
Advanced(c, iter, changeRand, rnd) ==
    IF changeRand THEN [iter |-> iter, chal |-> DefaultChallenge, rnd |-> rnd]
                  ELSE [c EXCEPT !.iter = iter, !.chal = @ - 1]

\* The last statement of UpdateChallengeAndRandom.
UpdateChallengeAndRandom(row, iter, changeRand, rnd, t) ==
    [row EXCEPT !.flags = @ \ {ResetFlag}, !.login = Date(t),
                !.cred = Advanced(@, iter, changeRand, rnd)]

LoginFailed(row, isFirstError, t) ==
    IF isFirstError THEN [row EXCEPT !.err = t, !.errs = 1]
                    ELSE [row EXCEPT !.errs = @ + 1]

SetFlag(row, column) == [row EXCEPT !.flags = @ \cup {column}]

\* The credential a granted reset installs: a chain of length one.
DefaultCredential ==
    [iter |-> PasswdToMD5(DefaultPassword, DefaultRandom, 2),
     chal |-> 1, rnd |-> DefaultRandom]

\* Mutant: the date column is forgotten.
ResetKeepingDate(row) ==
    [row EXCEPT !.cred = DefaultCredential, !.flags = @ \ {ResetFlag}]

\* Mutant: the challenge of the old chain stays.
ResetKeepingChallenge(row) ==
    [row EXCEPT !.cred = [DefaultCredential EXCEPT !.chal = row.cred.chal],
                !.update = 0, !.flags = @ \ {ResetFlag}]

\* ProcessRequest(1, 1, u), second statement: the default password, due for a
\* change since day 0.
ResetToDefault(row) ==
    [row EXCEPT !.cred = DefaultCredential, !.update = 0, !.flags = @ \ {ResetFlag}]

\* Mutant: a rejected reset is carried out all the same.
ProcessRejected(row, type, mode, t) ==
    IF type = 1 THEN ResetToDefault(row)
    ELSE IF mode = 1 THEN [row EXCEPT !.login = Date(t), !.flags = @ \ {UnfreezeFlag}]
    ELSE [row EXCEPT !.flags = @ \ {UnfreezeFlag}]

\* ProcessRequest(type, mode, u) where it is a single statement.
ProcessRequest(row, type, mode, t) ==
    IF type = 1 THEN [row EXCEPT !.flags = @ \ {ResetFlag}]
    ELSE IF mode = 1 THEN [row EXCEPT !.login = Date(t), !.flags = @ \ {UnfreezeFlag}]
    ELSE [row EXCEPT !.flags = @ \ {UnfreezeFlag}]

\* Mutant: the limit is one row short.
LastThree(history) ==
    {history[i] : i \in {j \in DOMAIN history : j > Len(history) - 3}}

\* GetPastPassword: `order by P_no desc limit 0, 4`, as a set because
\* UpdatePassword only asks whether one of them matches.
GetPastPassword(history) ==
    {history[i] : i \in {j \in DOMAIN history : j > Len(history) - 4}}

-----------------------------------------------------------------------------
(* The conditions Login and Unfreeze put on the dates of a row.            *)
\* Mutant: the lock counts from the first error, column a_error_time.
BlockedByError(row, t) == row.err + LockTime > t

Blocked(row, t) == row.block + LockTime > t

Frozen(row, t) == row.login + NoLoginPeriod < Date(t)

FirstError(row, t) == row.err + LockTime < t

UpdateDue(row, t) == ~(row.update + PasswordChangePeriod > Date(t))

\* Mutant: the day on which Login starts to refuse is not counted as frozen.
UnfreezeRefusedLonger(row, t) == row.login + UnfreezePeriod >= Date(t)

\* Unfreeze refuses the account as not frozen.
UnfreezeRefused(row, t) == row.login + UnfreezePeriod > Date(t)

-----------------------------------------------------------------------------
(* A credential is in sync when the stored value is the (challenge + 1)-th *)
(* iterate for the stored random string: then, and only then, the answer   *)
(* of the owner's client to the next challenge is the one Login expects.   *)
InSync(c) == c.iter.rnd = c.rnd /\ c.iter.n = c.chal + 1 /\ c.chal >= 1

\* The iterate a client computes for a challenge, and the test of the server.
Answer(pw, c) == PasswdToMD5(pw, c.rnd, c.chal)
Accepts(c, answer) == Rehash(answer) = c.iter

\* The client's side and the server's side of the comparison with a past
\* password: the client hashes challenge + 1 times, the server compares.
Repeats(pw, c) == PasswdToMD5(pw, c.rnd, c.chal + 1) = c.iter
=============================================================================
