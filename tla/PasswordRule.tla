---------------------------- MODULE PasswordRule ----------------------------
(***************************************************************************)
(* CheckPassword: what the windows accept as a new password.  A password   *)
(* is a sequence of character codes, 0..255.                               *)
(***************************************************************************)
EXTENDS Integers, Sequences, TLAPS

Characters == 0..255

\* The second range of the code ends at 'z', not at 'Z': it takes [ \ ] ^ _ `
\* for capitals as well.
Kind(c) ==
    CASE c \in 97..122               -> "lower"
      [] c \in 65..122 \ (97..122)   -> "upper"
      [] c \in 48..57                -> "num"
      [] OTHER                       -> "other"

\* The loop returns TRUE at the first k where the three kinds have been seen,
\* and FALSE when it meets another character before that.
CheckPassword(password) ==
    /\ Len(password) \in 8..20
    /\ \E k \in 1..Len(password) :
          {"lower", "upper", "num"} = {Kind(password[i]) : i \in 1..k}

\* Every accepted password has the length and the three kinds the README's
\* "requirements of length and complexity" speak of.
THEOREM AcceptedHasKinds ==
    ASSUME NEW password \in Seq(Characters), CheckPassword(password)
    PROVE  /\ Len(password) \in 8..20
           /\ \A kind \in {"lower", "upper", "num"} :
                 \E i \in 1..Len(password) : Kind(password[i]) = kind
<1>1. PICK k \in 1..Len(password) :
          {"lower", "upper", "num"} = {Kind(password[i]) : i \in 1..k}
  BY DEF CheckPassword
<1>2. ASSUME NEW kind \in {"lower", "upper", "num"}
      PROVE  \E i \in 1..Len(password) : Kind(password[i]) = kind
  <2>1. PICK i \in 1..k : Kind(password[i]) = kind
    BY <1>1
  <2>2. i \in 1..Len(password)
    BY <1>1
  <2> QED
    BY <2>1, <2>2
<1> QED
  BY <1>2 DEF CheckPassword

\* The rest is not looked at: behind a lower case letter, a capital and a digit
\* any characters are accepted, those the loop refuses elsewhere included.  The
\* message at ISEMCourseDesignClientDlg.cpp:845 says that a password may not
\* contain symbols.
THEOREM AnyTailAccepted ==
    ASSUME NEW tail \in Seq(Characters), Len(tail) \in 5..17
    PROVE  CheckPassword(<<97, 65, 48>> \o tail)
<1> DEFINE password == <<97, 65, 48>> \o tail
<1>1. Len(password) = 3 + Len(tail)
  OBVIOUS
<1>2. password[1] = 97 /\ password[2] = 65 /\ password[3] = 48
  OBVIOUS
<1> HIDE DEF password
<1>3. Kind(password[1]) = "lower" /\ Kind(password[2]) = "upper" /\ Kind(password[3]) = "num"
  BY <1>2 DEF Kind
<1>4. 1..3 = {1, 2, 3}
  OBVIOUS
<1>5. {"lower", "upper", "num"} = {Kind(password[i]) : i \in 1..3}
  BY <1>3, <1>4
<1>6. Len(password) \in 8..20 /\ 3 \in 1..Len(password)
  <2> DEFINE n == Len(tail)
             m == Len(password)
  <2>1. n \in 5..17 /\ m = 3 + n
    BY <1>1
  <2> HIDE DEF n, m
  <2>2. m \in 8..20 /\ 3 \in 1..m
    BY <2>1
  <2> QED
    BY <2>2 DEF m
<1>7. CheckPassword(password)
  BY <1>5, <1>6 DEF CheckPassword
<1> QED
  BY <1>7 DEF password

\* Length decides on the default password 123456 of a reset account: its owner
\* can never choose it.
THEOREM DefaultRefused == ~CheckPassword(<<49, 50, 51, 52, 53, 54>>)
<1>1. Len(<<49, 50, 51, 52, 53, 54>>) = 6
  OBVIOUS
<1> QED
  BY <1>1 DEF CheckPassword
=============================================================================
