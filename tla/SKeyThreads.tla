----------------------------- MODULE SKeyThreads ----------------------------
(***************************************************************************)
(* What the threads of the server share, one step below a statement: the   *)
(* one DataBase with its query buffer, the connection with the rows nobody *)
(* has stored yet, and the pointer to the last result.                     *)
(*                                                                         *)
(* Handlers wait for "useDatabase" around their statements and for         *)
(* "writeRecord" around a line of the log.  They open both with            *)
(* OpenMutex(NULL, ..): a handle that has no right to be waited on, or no  *)
(* handle.  Every wait fails at once, nobody looks at its result, and the  *)
(* sections of the threads interleave.  A wait is therefore no step here.  *)
(*                                                                         *)
(* A handler of ServerProcessed.cpp is a plan: a sequence of sections.     *)
(* The data decide which plan a handler follows; here any of its plans may *)
(* be the one.  A call of the MySQL library is atomic.                     *)
(***************************************************************************)
EXTENDS Naturals, Sequences

CONSTANTS
    Threads,       \* connections, each served by a thread running Response
    Used,          \* bound: the operations the clients of an instance use
    MaxBatch,      \* bound: ids of one PassRequest or RejectRequest
    Nothing,       \* a null result, a statement that was not executed
    Freed          \* what is left of rows that mysql_free_result has freed

VARIABLES
    query,         \* DataBase::query: the statement the buffer holds
    pending,       \* the select whose rows nobody has stored yet
    result,        \* DataBase::result: the select whose rows it points to
    pc,            \* where each thread is
    plan,          \* the sections of its handler that are left
    op,            \* the operation in the buffer of Response
    role,          \* userType, and whether somebody is logged in at all
    conn,          \* whether the client is still there
    got,           \* the rows its select got, or what its last write executed
    overlapped     \* history: whether two threads were inside a section at once

database == <<query, pending, result>>
session == <<op, role, conn>>
vars == <<database, pc, plan, session, got, overlapped>>

-----------------------------------------------------------------------------
(* The handlers.  "query": a select and its rows; "write": any other       *)
(* statement; "record": a line of the log; "ask": the client's next        *)
(* message; "ready": its answer to the header of the log; "user",          *)
(* "security", "log": userId and userType are set.                         *)

Login == {<<"query", "record">>,
          <<"query", "ask", "write", "record">>,
          <<"query", "ask", "record", "user", "write">>}

Register == {<<"query", "record">>, <<"query", "ask", "write", "record">>}

AdminLogin == {<<"query", "record">>, <<"query", "ask", "record">>}
              \cup {<<"query", "ask", "record", r, "write">> : r \in {"security", "log"}}

\* ResetPassword and Unfreeze.
SetRequest == {<<"query", "record">>, <<"query", "write", "record">>}

UpdatePassword == {<<"query", "query", "ask", "record">>,
                   <<"query", "query", "ask", "write", "write", "write", "record">>}

\* Batches whose ids take k - 1 statements and a line of the log each.
Batches(k) == {[i \in 1..(k * n) |-> IF i % k = 0 THEN "record" ELSE "write"] :
                  n \in 1..MaxBatch}

GetLog == {<<"record">>, <<"ready", "record">>}

Operations ==
    [C_LOGIN          |-> [role |-> "main", plans |-> Login],
     C_REGISTER       |-> [role |-> "main", plans |-> Register],
     C_ADMIN_LOGIN    |-> [role |-> "main", plans |-> AdminLogin],
     C_RESET_PASSWORD |-> [role |-> "main", plans |-> SetRequest],
     C_UNFREEZE       |-> [role |-> "main", plans |-> SetRequest],
     C_UPDATE_PASSWORD |-> [role |-> "user", plans |-> UpdatePassword],
     C_GET_REQUEST    |-> [role |-> "security", plans |-> {<<"query", "record">>}],
     C_REQUEST_PASS   |-> [role |-> "security", plans |-> Batches(2) \cup Batches(3)],
     C_REQUEST_REJECT |-> [role |-> "security", plans |-> Batches(2)],
     C_GET_LOG        |-> [role |-> "log", plans |-> GetLog]]

Sections == {"query", "write", "record", "ask", "ready", "user", "security", "log"}

Roles == {"main", "user", "security", "log"}

\* A statement: who formatted it, and whether it has rows.
Statements == [by : Threads, kind : {"select", "update"}]

ThreadsAssumption ==
    /\ Used \subseteq DOMAIN Operations
    /\ MaxBatch \in Nat \ {0}
    /\ Nothing \notin Statements /\ Freed \notin Statements /\ Nothing # Freed

ASSUME ThreadsAssumption

\* Between the format of a statement and the end of its section.
Inside == {"exec", "free", "store", "get", "use", "writeExec"}

Control == {"closed", "idle", "between"} \cup Inside

Init ==
    /\ query = Nothing /\ pending = Nothing /\ result = Nothing
    /\ pc = [t \in Threads |-> "closed"]
    /\ plan = [t \in Threads |-> << >>]
    /\ op = [t \in Threads |-> "none"]
    /\ role = [t \in Threads |-> "main"]
    /\ conn = [t \in Threads |-> FALSE]
    /\ got = [t \in Threads |-> Nothing]
    /\ overlapped = FALSE

-----------------------------------------------------------------------------
Goto(t, label) == pc' = [pc EXCEPT ![t] = label]

\* Thread t is about to enter a section of one of the given names.
Enters(t, names) ==
    /\ pc[t] = "between" /\ plan[t] # << >>
    /\ Head(plan[t]) \in names

\* Mutant: the handler does not return after its last section.
FinishLate(t) ==
    /\ plan' = [plan EXCEPT ![t] = Tail(@)]
    /\ pc' = [pc EXCEPT ![t] = "between"]

\* The section is over; after the last one the handler returns.
Finish(t) ==
    /\ plan' = [plan EXCEPT ![t] = Tail(@)]
    /\ pc' = [pc EXCEPT ![t] = IF Len(plan[t]) > 1 THEN "between" ELSE "idle"]

\* The threads in ts end, by C_LOGOUT or with the process.
Close(ts) ==
    /\ pc' = [t \in Threads |-> IF t \in ts THEN "closed" ELSE pc[t]]
    /\ plan' = [t \in Threads |-> IF t \in ts THEN << >> ELSE plan[t]]
    /\ op' = [t \in Threads |-> IF t \in ts THEN "none" ELSE op[t]]
    /\ role' = [t \in Threads |-> IF t \in ts THEN "main" ELSE role[t]]
    /\ conn' = [t \in Threads |-> IF t \in ts THEN FALSE ELSE conn[t]]
    /\ got' = [t \in Threads |-> IF t \in ts THEN Nothing ELSE got[t]]

\* An exception nobody catches, a null pointer or a damaged heap: the process
\* is gone, and it is started again.
ProcessDies ==
    /\ Close(Threads)
    /\ query' = Nothing /\ pending' = Nothing /\ result' = Nothing
    /\ overlapped' = FALSE

\* A statement is formatted into the buffer, whoever else is using it.
Format(t, kind) ==
    /\ query' = [by |-> t, kind |-> kind]
    /\ overlapped' = (overlapped \/ \E u \in Threads \ {t} : pc[u] \in Inside)

(***************************************************************************)
(* mysql_query on the shared buffer.  MySQL refuses every statement while  *)
(* the rows of a select are pending.  A buffer another thread has written  *)
(* to holds that thread's statement, or a mixture MySQL cannot parse.      *)
(***************************************************************************)
Executed(t) ==
    IF pending # Nothing THEN {Nothing}
    ELSE IF query.by = t THEN {query} ELSE {query, Nothing}

Execute(s) ==
    pending' = IF s # Nothing /\ s.kind = "select" THEN s ELSE pending

-----------------------------------------------------------------------------
(* Connections and the loop of Response.                                   *)

Accept(t) ==
    /\ pc[t] = "closed"
    /\ Goto(t, "idle")
    /\ conn' = [conn EXCEPT ![t] = TRUE]
    /\ UNCHANGED <<database, plan, op, role, got, overlapped>>

\* The security window fetches its table when it opens and after a batch.
Refreshes(t) ==
    role[t] = "security" /\ op[t] \in {"C_ADMIN_LOGIN", "C_REQUEST_PASS", "C_REQUEST_REJECT"}

\* The message recv finds: the client's next one, or, when the client is
\* gone, the one that is still in the buffer.
Received(t, o) ==
    IF conn[t] THEN /\ o \in Used /\ Operations[o].role = role[t]
                    /\ Refreshes(t) => o = "C_GET_REQUEST"
    ELSE op[t] # "none" /\ o = op[t]

Dispatch(t) ==
    /\ pc[t] = "idle"
    /\ \E o \in DOMAIN Operations :
           /\ Received(t, o)
           /\ op' = [op EXCEPT ![t] = o]
           /\ \E p \in Operations[o].plans : plan' = [plan EXCEPT ![t] = p]
    /\ Goto(t, "between")
    /\ UNCHANGED <<database, role, conn, got, overlapped>>

Logout(t) ==
    /\ pc[t] = "idle" /\ conn[t] /\ ~Refreshes(t)
    /\ Close({t})
    /\ UNCHANGED <<database, overlapped>>

Drop(t) ==
    /\ pc[t] # "closed" /\ conn[t]
    /\ conn' = [conn EXCEPT ![t] = FALSE]
    /\ UNCHANGED <<database, pc, plan, op, role, got, overlapped>>

\* No message ever came: parse reads an uninitialised buffer and throws.
ParseFailure(t) ==
    /\ pc[t] = "idle" /\ ~conn[t] /\ op[t] = "none"
    /\ ProcessDies

\* The client answers the challenge of the handler.
Answered(t) ==
    /\ Enters(t, {"ask"}) /\ conn[t]
    /\ Finish(t)
    /\ UNCHANGED <<database, session, got, overlapped>>


\* It does not: recv fails and the handler returns.
Unanswered(t) ==
    /\ Enters(t, {"ask"}) /\ ~conn[t]
    /\ plan' = [plan EXCEPT ![t] = << >>]
    /\ Goto(t, "idle")
    /\ UNCHANGED <<database, session, got, overlapped>>

SetRole(t) ==
    /\ Enters(t, {"user", "security", "log"})
    /\ role' = [role EXCEPT ![t] = Head(plan[t])]
    /\ Finish(t)
    /\ UNCHANGED <<database, op, conn, got, overlapped>>

-----------------------------------------------------------------------------
(* A select: QueryAccount, QueryAdmin, GetPastPassword and GetRequest.     *)

QueryFormat(t) ==
    /\ Enters(t, {"query"})
    /\ Format(t, "select")
    /\ Goto(t, "exec")
    /\ UNCHANGED <<pending, result, plan, session, got>>

QueryExec(t) ==
    /\ pc[t] = "exec"
    /\ \E s \in Executed(t) : Execute(s)
    /\ Goto(t, "free")
    /\ UNCHANGED <<query, result, plan, session, got, overlapped>>

(***************************************************************************)
(* The last result is freed and the pointer cleared.  Whoever still reads  *)
(* those rows reads freed memory.  Two threads that both found the pointer *)
(* set free it twice, which may end the process.                           *)
(***************************************************************************)
QueryFree(t) ==
    /\ pc[t] = "free"
    /\ \/ /\ Goto(t, "store")
          /\ result' = Nothing
          /\ got' = [u \in Threads |-> IF pc[u] = "use" /\ got[u] = result THEN Freed
                                       ELSE got[u]]
          /\ UNCHANGED <<query, pending, plan, session, overlapped>>
       \/ /\ result # Nothing /\ \E u \in Threads \ {t} : pc[u] = "free"
          /\ ProcessDies

\* Mutant: the result is not stored, as after an update.
QueryStoreForgotten(t) ==
    /\ pc[t] = "store"
    /\ result' = pending
    /\ Goto(t, "get")
    /\ UNCHANGED <<query, pending, plan, session, got, overlapped>>

\* Mutant: the old result is freed after the new one is stored.
QueryStoreThenFree(t) ==
    /\ pc[t] = "store"
    /\ result' = Nothing
    /\ pending' = Nothing
    /\ Goto(t, "get")
    /\ UNCHANGED <<query, plan, session, got, overlapped>>

\* mysql_store_result: the pending rows, whoever selected them, or NULL.
QueryStore(t) ==
    /\ pc[t] = "store"
    /\ result' = pending
    /\ pending' = Nothing
    /\ Goto(t, "get")
    /\ UNCHANGED <<query, plan, session, got, overlapped>>

\* GetResult; the number of rows of a null result ends the process.
QueryGet(t) ==
    /\ pc[t] = "get"
    /\ \/ /\ result # Nothing
          /\ got' = [got EXCEPT ![t] = result]
          /\ Goto(t, "use")
          /\ UNCHANGED <<database, plan, session, overlapped>>
       \/ result = Nothing /\ ProcessDies

Select(t) == [by |-> t, kind |-> "select"]

\* The rows are read.  Freed rows, or those of a select with other columns,
\* may end the process.
QueryUse(t) ==
    /\ pc[t] = "use"
    /\ \/ /\ got' = [got EXCEPT ![t] = Nothing]
          /\ Finish(t)
          /\ UNCHANGED <<database, session, overlapped>>
       \/ got[t] # Select(t) /\ ProcessDies

-----------------------------------------------------------------------------
(* Any other statement, one of a batch included, and the log.              *)

WriteFormat(t) ==
    /\ Enters(t, {"write"})
    /\ Format(t, "update")
    /\ Goto(t, "writeExec")
    /\ UNCHANGED <<pending, result, plan, session, got>>

WriteExec(t) ==
    /\ pc[t] = "writeExec"
    /\ \E s \in Executed(t) :
           /\ Execute(s)
           /\ got' = [got EXCEPT ![t] = IF Len(plan[t]) > 1 THEN s ELSE Nothing]
    /\ Finish(t)
    /\ UNCHANGED <<query, result, session, overlapped>>

\* WriteRecord opens the file, appends its line and closes the file.
Record(t) ==
    /\ Enters(t, {"record"})
    /\ got' = [got EXCEPT ![t] = Nothing]
    /\ Finish(t)
    /\ UNCHANGED <<database, session, overlapped>>

\* GetLog sends the header and waits for the client, which answers that it is
\* ready; the client of this repository has no other answer.
LogReady(t) ==
    /\ Enters(t, {"ready"}) /\ conn[t]
    /\ Finish(t)
    /\ UNCHANGED <<database, session, got, overlapped>>

\* A client that is gone leaves an empty buffer, and parse throws.
LogUnanswered(t) ==
    /\ Enters(t, {"ready"}) /\ ~conn[t]
    /\ ProcessDies

-----------------------------------------------------------------------------
(* What a thread does by itself, and what it needs its client for.         *)
Step(t) ==
    \/ QueryFormat(t) \/ QueryExec(t) \/ QueryFree(t)
    \/ QueryStore(t) \/ QueryGet(t) \/ QueryUse(t)
    \/ WriteFormat(t) \/ WriteExec(t) \/ Record(t)
    \/ SetRole(t) \/ Unanswered(t) \/ LogUnanswered(t)

Connection(t) ==
    \/ Accept(t) \/ Dispatch(t) \/ Logout(t) \/ Drop(t) \/ ParseFailure(t)
    \/ Answered(t) \/ LogReady(t)

Next == \E t \in Threads : Step(t) \/ Connection(t)

Spec == Init /\ [][Next]_vars

\* Windows runs every thread that can run.  Nothing is assumed of clients.
FairSpec == Spec /\ \A t \in Threads : WF_vars(Step(t))

-----------------------------------------------------------------------------
(* Properties.                                                             *)

\* Every variable has its type, and a thread has sections left exactly while
\* it is in a handler.
Typed ==
    /\ {query, pending, result} \subseteq Statements \cup {Nothing}
    /\ pc \in [Threads -> Control]
    /\ plan \in [Threads -> Seq(Sections)]
    /\ op \in [Threads -> DOMAIN Operations \cup {"none"}]
    /\ role \in [Threads -> Roles]
    /\ conn \in [Threads -> BOOLEAN]
    /\ got \in [Threads -> Statements \cup {Nothing, Freed}]
    /\ overlapped \in BOOLEAN
    /\ \A t \in Threads : plan[t] = << >> <=> pc[t] \in {"closed", "idle"}

\* The premise under which SKeyServer may take a statement as one step: until
\* two threads are inside a section at once, every thread executes its own
\* statement, on a connection that is ready for it, and stores, finds and reads
\* the rows of its own select; no earlier section leaves anything behind.
OnlyOverlapIntrudes ==
    ~overlapped =>
        \A t \in Threads :
            /\ pc[t] \in {"exec", "writeExec"} => query.by = t /\ pending = Nothing
            /\ pc[t] = "store" => pending = Select(t)
            /\ pc[t] = "get" => result = Select(t)
            /\ pc[t] = "use" => got[t] = Select(t)
            /\ Enters(t, {"record"}) => got[t] = Nothing \/ got[t].by = t

\* A handler is cut short only by the end of the process, and the process ends
\* only for a client that vanished before its first message or in a download, or
\* after two threads were inside a section at once: no order of formats,
\* executions, frees and stores of threads that keep apart gives a null result,
\* frees one twice, or reads rows that are gone.
CutShortOnlyFor ==
    [][(\E t \in Threads : pc[t] \notin {"closed", "idle"} /\ pc'[t] = "closed")
           => \/ overlapped
              \/ \E u \in Threads : ~conn[u] /\ (op[u] = "none" \/ Enters(u, {"ready"}))]_vars

\* README.md:47 S_ACCESS, the operation succeeded: a Register that got a
\* result from MySQL has executed its own statement.
AccessMeansInserted ==
    \A t \in Threads :
        Enters(t, {"record"}) /\ op[t] = "C_REGISTER" /\ got[t] # Nothing => got[t].by = t

\* A handler is at work unless it waits for a client that is there.
Busy(t) ==
    /\ pc[t] \notin {"closed", "idle"}
    /\ ~(Enters(t, {"ask", "ready"}) /\ conn[t])

=============================================================================
