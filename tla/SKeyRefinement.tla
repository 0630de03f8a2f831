--------------------------- MODULE SKeyRefinement ---------------------------
(***************************************************************************)
(* The server implements the abstract promise of OneTimePassword.          *)
(***************************************************************************)
EXTENDS SKeyServer

\* The passwords whose answer to the next challenge Login would accept: a
\* credential out of sync opens to none.
Opens(row) ==
    IF row = NoRow THEN {}
    ELSE {pw \in AllPasswords : Accepts(row.cred, Answer(pw, row.cred))}

Left(row) == IF row = NoRow THEN 0 ELSE row.cred.chal

\* The refinement mapping, one expression for each variable of the promise.
opens == [u \in Users |-> Opens(account[u])]
left == [u \in Users |-> Left(account[u])]
auth == [s \in Sessions |-> IF userId[s] \in Users THEN userId[s] ELSE NoUser]
owes == [s \in Sessions |-> pc[s] = "loginWrite"]

OTP == INSTANCE OneTimePassword WITH ChainLength <- DefaultChallenge

\* As long as clients keep apart, one client at a time in particular, the server
\* keeps the promise: a registered account opens to exactly one password at every
\* moment, every login that is told S_ACCESS uses the chain up by one, in that
\* session or not at all, and the password changes to a different one, of full
\* length, or by a grant.
ImplementsOneTimePassword == OTP!Spec

\* Session s is about to install a password that was compared with a credential
\* which is no longer the account's.
StaleChange(s) ==
    pc[s] = "updateChain" /\ account[userId[s]].cred # local[s].cred

\* A handler writes back over a row that another session changed after the
\* handler had read it, and returns.
StaleWrite ==
    \E s \in Sessions :
        pc'[s] = "idle" /\ (StaleChange(s) \/ \E u \in Users : StaleLogin(s, u))

UsersInSync == \A u \in Users : AccountInSync(u)

\* With any number of clients at a time there is one way to break the promise:
\* the write-back of a login or of a password change that comes too late.  Every
\* other step, however the handlers interleave, is one of the promise, or it
\* changes nothing that can be seen from outside.
PromiseKeptUnlessStale ==
    [][UsersInSync => OTP!Next \/ UNCHANGED OTP!otpVars \/ StaleWrite]_vars
=============================================================================
