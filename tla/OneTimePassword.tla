-------------------------- MODULE OneTimePassword ---------------------------
(***************************************************************************)
(* What the server promises the person behind an account, without hashes,  *)
(* random strings or statements: an account opens to exactly one           *)
(* password, every login uses up one of the logins its chain has left and  *)
(* a used-up chain is replaced by a full one, and only a session that has  *)
(* opened the account, or a grant, changes the password.                   *)
(***************************************************************************)
EXTENDS Naturals

CONSTANTS Users, Passwords, DefaultPassword, Sessions, NoUser, ChainLength

VARIABLES
    opens,   \* the passwords that open an account; none before it is registered
    left,    \* the logins left in the account's chain
    auth,    \* the account a session has opened, or NoUser
    owes     \* whether a session's last login is still to be struck off

otpVars == <<opens, left, auth, owes>>

Init ==
    /\ opens = [u \in Users |-> {}]
    /\ left = [u \in Users |-> 0]
    /\ auth = [s \in Sessions |-> NoUser]
    /\ owes = [s \in Sessions |-> FALSE]

\* An account gets its password and a full chain.
FullChain(u, pw) ==
    /\ opens' = [opens EXCEPT ![u] = {pw}]
    /\ left' = [left EXCEPT ![u] = ChainLength]

Register(u) ==
    /\ opens[u] = {}
    /\ \E pw \in Passwords : FullChain(u, pw)
    /\ UNCHANGED <<auth, owes>>

\* Somebody who types the password is let in.
Open(s, u) ==
    /\ auth[s] = NoUser /\ ~owes[s]
    /\ opens[u] # {}
    /\ auth' = [auth EXCEPT ![s] = u]
    /\ owes' = [owes EXCEPT ![s] = TRUE]
    /\ UNCHANGED <<opens, left>>

\* The login is struck off; the last one of a chain brings a full chain.
StrikeOff(s) ==
    /\ owes[s]
    /\ left' = [left EXCEPT ![auth[s]] = IF @ > 1 THEN @ - 1 ELSE ChainLength]
    /\ owes' = [owes EXCEPT ![s] = FALSE]
    /\ UNCHANGED <<opens, auth>>

\* A session inside the account installs another password.
Change(s) ==
    /\ auth[s] \in Users /\ ~owes[s]
    /\ \E pw \in Passwords \ opens[auth[s]] : FullChain(auth[s], pw)
    /\ UNCHANGED <<auth, owes>>

\* A grant installs the default password for a single login.
Grant(u) ==
    /\ opens[u] # {}
    /\ opens' = [opens EXCEPT ![u] = {DefaultPassword}]
    /\ left' = [left EXCEPT ![u] = 1]
    /\ UNCHANGED <<auth, owes>>

\* Sessions end; a login that was not struck off by then never is.
Leave(ss) ==
    /\ auth' = [s \in Sessions |-> IF s \in ss THEN NoUser ELSE auth[s]]
    /\ owes' = [s \in Sessions |-> IF s \in ss THEN FALSE ELSE owes[s]]
    /\ UNCHANGED <<opens, left>>

Next ==
    \/ \E u \in Users : Register(u) \/ Grant(u)
    \/ \E s \in Sessions : StrikeOff(s) \/ Change(s) \/ \E u \in Users : Open(s, u)
    \/ \E ss \in SUBSET Sessions : Leave(ss)

Spec == Init /\ [][Next]_otpVars
=============================================================================
