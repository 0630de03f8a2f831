---------------------------- MODULE MCSKeyServer ----------------------------
(* Values for the constants of SKeyServer in the runs. *)
EXTENDS SKeyRefinement, TLC

CONSTANTS a1, a2, s1, s2

\* One security administrator, or one of each kind.
MCOneAdmin == [a \in {a1} |-> 1]
MCBothAdmins == (a1 :> 1) @@ (a2 :> 2)

\* The operations the clients of a run use.
MCLogin == {"C_REGISTER", "C_LOGIN"}
MCUpdate == MCLogin \cup {"C_UPDATE_PASSWORD"}
MCReset == {"C_RESET_PASSWORD", "C_ADMIN_LOGIN", "C_GET_REQUEST",
            "C_REQUEST_PASS", "C_REQUEST_REJECT"}
MCAdmin == MCLogin \cup MCReset
MCAll == MCUpdate \cup MCReset \cup {"C_UNFREEZE"}

MCDates == MCAll \ {"C_REQUEST_REJECT"}
MCBatch == MCLogin \cup (MCReset \ {"C_REQUEST_REJECT"})

\* Runs with several passwords do not tell them apart.
MCPasswordSymmetry == Permutations(Passwords)

MCSymmetry == Permutations(Sessions)
=============================================================================
