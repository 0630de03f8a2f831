------------------------- MODULE SKeyThreadsProofs -------------------------
(***************************************************************************)
(* For any number of connections: the types hold; until two threads are    *)
(* inside a section at once every thread executes its own statement and    *)
(* reads its own rows; and only such an overlap, or a client that is gone, *)
(* ends the process under a handler.                                       *)
(***************************************************************************)
EXTENDS SKeyThreads, SequenceTheorems, TLAPS

(***************************************************************************)
(* The inductive invariant.  While nothing has overlapped, at most one     *)
(* thread is inside a section, rows are pending only between its execution *)
(* and its store, and the buffer, the pending rows, the result and what    *)
(* the thread got are its own, each from the step that sets it to the one  *)
(* that uses it.                                                           *)
(***************************************************************************)
Alone == \A t, u \in Threads : pc[t] \in Inside /\ pc[u] \in Inside => t = u

Tidy == pending # Nothing => \E t \in Threads : pc[t] \in {"free", "store"}

Own(t) ==
    /\ pc[t] = "exec" => query = Select(t)
    /\ pc[t] = "writeExec" => query = [by |-> t, kind |-> "update"]
    /\ pc[t] \in {"free", "store"} => pending = Select(t)
    /\ pc[t] = "get" => result = Select(t)
    /\ pc[t] = "use" => got[t] = Select(t)
    /\ got[t] = Nothing \/ got[t].by = t

Quiet == Alone /\ Tidy /\ \A t \in Threads : Own(t)

IInv == Typed /\ (~overlapped => Quiet)

-----------------------------------------------------------------------------
(* Lemmas.                                                                 *)

\* The plan of a batch is a non-empty sequence of sections.
LEMMA BatchesAreSections ==
    \A p \in Batches(2) \cup Batches(3) : p \in Seq(Sections) /\ p # << >>
<1>1. ASSUME NEW k \in {2, 3}, NEW p \in Batches(k)
      PROVE  p \in Seq(Sections) /\ p # << >>
  <2>1. PICK n \in 1..MaxBatch :
           p = [i \in 1..(k * n) |-> IF i % k = 0 THEN "record" ELSE "write"]
    BY <1>1 DEF Batches
  <2>2. n \in Nat /\ n >= 1
    BY ThreadsAssumption DEF ThreadsAssumption
  <2>3. k * n \in Nat /\ k * n >= 1
    BY <2>2
  <2>4. p \in [1..(k * n) -> Sections]
    BY <2>1 DEF Sections
  <2>5. p \in Seq(Sections)
    BY <2>3, <2>4
  <2>6. 1 \in DOMAIN p
    BY <2>3, <2>4
  <2>7. DOMAIN << >> = {}
    OBVIOUS
  <2> QED BY <2>5, <2>6, <2>7
<1> QED BY <1>1

\* Every plan is a non-empty sequence of sections.
LEMMA PlansAreSections ==
    \A o \in DOMAIN Operations : \A p \in Operations[o].plans :
        p \in Seq(Sections) /\ p # << >>
<1> DEFINE Good(p) == p \in Seq(Sections) /\ p # << >>
<1>1. Good(<<"query", "record">>)
  BY DEF Sections
<1>2. Good(<<"query", "ask", "write", "record">>)
  BY DEF Sections
<1>3. Good(<<"query", "ask", "record", "user", "write">>)
  BY DEF Sections
<1>4. Good(<<"query", "ask", "record">>)
  BY DEF Sections
<1>5. Good(<<"query", "ask", "record", "security", "write">>)
  BY DEF Sections
<1>6. Good(<<"query", "ask", "record", "log", "write">>)
  BY DEF Sections
<1>7. Good(<<"query", "write", "record">>)
  BY DEF Sections
<1>8. Good(<<"query", "query", "ask", "record">>)
  BY DEF Sections
<1>9. Good(<<"query", "query", "ask", "write", "write", "write", "record">>)
  BY DEF Sections
<1>10. Good(<<"record">>) /\ Good(<<"ready", "record">>)
  BY DEF Sections
<1>11. \A p \in Batches(2) \cup Batches(3) : Good(p)
  BY BatchesAreSections
<1> HIDE DEF Good
<1>12. \A p \in Login : Good(p)
  BY <1>1, <1>2, <1>3 DEF Login
<1>13. \A p \in Register : Good(p)
  BY <1>1, <1>2 DEF Register
<1>14. \A p \in AdminLogin : Good(p)
  BY <1>1, <1>4, <1>5, <1>6 DEF AdminLogin
<1>15. \A p \in SetRequest : Good(p)
  BY <1>1, <1>7 DEF SetRequest
<1>16. \A p \in UpdatePassword : Good(p)
  BY <1>8, <1>9 DEF UpdatePassword
<1>17. \A p \in GetLog \cup {<<"query", "record">>} : Good(p)
  BY <1>1, <1>10 DEF GetLog
<1>18. \A o \in DOMAIN Operations :
          Operations[o].plans \in {Login, Register, AdminLogin, SetRequest, UpdatePassword, GetLog,
                                   {<<"query", "record">>}, Batches(2), Batches(2) \cup Batches(3)}
  BY DEF Operations
<1>19. \A o \in DOMAIN Operations : \A p \in Operations[o].plans : Good(p)
  BY <1>11, <1>12, <1>13, <1>14, <1>15, <1>16, <1>17, <1>18
<1> QED BY <1>19 DEF Good

LEMMA TailOfPlan ==
    ASSUME NEW p \in Seq(Sections), p # << >>
    PROVE  /\ Tail(p) \in Seq(Sections)
           /\ Len(p) > 1 <=> Tail(p) # << >>
           /\ Head(p) \in Sections
<1>1. Len(p) \in Nat /\ Len(p) # 0
  BY LenProperties, EmptySeq
<1>2. Tail(p) \in Seq(Sections) /\ Len(Tail(p)) = Len(p) - 1 /\ Head(p) \in Sections
  BY HeadTailProperties
<1>3. Tail(p) = << >> <=> Len(Tail(p)) = 0
  BY <1>2, EmptySeq
<1> QED BY <1>1, <1>2, <1>3

\* A statement is neither of the two constants that stand for no statement.
LEMMA StatementsAreNot ==
    ASSUME NEW t \in Threads
    PROVE  /\ Select(t) \in Statements /\ Select(t) # Nothing /\ Select(t) # Freed
           /\ Select(t).by = t /\ Select(t).kind = "select"
           /\ [by |-> t, kind |-> "update"] \in Statements
           /\ [by |-> t, kind |-> "update"] # Nothing
BY ThreadsAssumption DEF ThreadsAssumption, Select, Statements

LEMMA InitInv == Init => IInv
<1> SUFFICES ASSUME Init PROVE IInv
  OBVIOUS
<1>1. Typed
  BY EmptySeq DEF Init, Typed, Control, Roles
<1>2. Quiet
  BY DEF Init, Quiet, Alone, Tidy, Own, Inside
<1> QED BY <1>1, <1>2 DEF IInv

\* A process that starts again starts like the first one.
LEMMA DiesInv == ProcessDies => IInv'
<1> SUFFICES ASSUME ProcessDies PROVE IInv'
  OBVIOUS
<1>1. Typed'
  BY EmptySeq DEF ProcessDies, Close, Typed, Control, Roles
<1>2. Quiet'
  BY DEF ProcessDies, Close, Quiet, Alone, Tidy, Own, Inside
<1> QED BY <1>1, <1>2 DEF IInv

\* What the end of a section does to the control state of its thread.
LEMMA FinishOk ==
    ASSUME NEW t \in Threads, Typed, plan[t] # << >>, Finish(t)
    PROVE  /\ plan' \in [Threads -> Seq(Sections)]
           /\ pc' \in [Threads -> Control]
           /\ pc'[t] \in {"between", "idle"}
           /\ plan'[t] = << >> <=> pc'[t] = "idle"
           /\ \A u \in Threads \ {t} : pc'[u] = pc[u] /\ plan'[u] = plan[u]
<1>1. plan[t] \in Seq(Sections)
  BY DEF Typed
<1>2. Tail(plan[t]) \in Seq(Sections) /\ (Len(plan[t]) > 1 <=> Tail(plan[t]) # << >>)
  BY <1>1, TailOfPlan
<1>3. plan' = [plan EXCEPT ![t] = Tail(plan[t])]
  BY DEF Finish
<1>4. pc' = [pc EXCEPT ![t] = IF Len(plan[t]) > 1 THEN "between" ELSE "idle"]
  BY DEF Finish
<1>5. "between" \in Control /\ "idle" \in Control
  BY DEF Control
<1> HIDE DEF Finish
<1> QED BY <1>2, <1>3, <1>4, <1>5 DEF Typed

-----------------------------------------------------------------------------
(* The steps after which the process is still there.                       *)

FreeRows(t) == QueryFree(t) /\ pc' = [pc EXCEPT ![t] = "store"] /\ ~ProcessDies
GetRows(t) == QueryGet(t) /\ ~ProcessDies
UseRows(t) == QueryUse(t) /\ ~ProcessDies

Works(t) ==
    \/ QueryFormat(t) \/ QueryExec(t) \/ FreeRows(t) \/ QueryStore(t) \/ GetRows(t)
    \/ UseRows(t) \/ WriteFormat(t) \/ WriteExec(t) \/ Record(t) \/ SetRole(t)
    \/ Unanswered(t) \/ Accept(t) \/ Dispatch(t) \/ Drop(t) \/ Answered(t) \/ LogReady(t)

\* Every step is one of these, a logout or the end of the process.
LEMMA StepKinds ==
    ASSUME NEW t \in Threads, Step(t) \/ Connection(t)
    PROVE  Works(t) \/ Logout(t) \/ ProcessDies
<1>1. QueryFree(t) => FreeRows(t) \/ ProcessDies
  BY DEF QueryFree, FreeRows, Goto
<1>2. QueryGet(t) => GetRows(t) \/ ProcessDies
  BY DEF GetRows
<1>3. QueryUse(t) => UseRows(t) \/ ProcessDies
  BY DEF UseRows
<1>4. LogUnanswered(t) \/ ParseFailure(t) => ProcessDies
  BY DEF LogUnanswered, ParseFailure
<1> QED BY <1>1, <1>2, <1>3, <1>4 DEF Step, Connection, Works

\* A step that moves one thread to a label and keeps its plan.
LEMMA TypedMove ==
    ASSUME NEW t \in Threads, Typed, NEW label \in Control \ {"closed", "idle"},
           pc[t] \notin {"closed", "idle"}, Goto(t, label),
           UNCHANGED <<plan, op, role, conn>>,
           {query, pending, result}' \subseteq Statements \cup {Nothing},
           got' \in [Threads -> Statements \cup {Nothing, Freed}],
           overlapped' \in BOOLEAN
    PROVE  Typed'
<1>1. pc' \in [Threads -> Control]
  BY DEF Goto, Typed
<1>2. \A u \in Threads : plan'[u] = << >> <=> pc'[u] \in {"closed", "idle"}
  BY DEF Goto, Typed
<1> QED BY <1>1, <1>2 DEF Typed

\* A step that ends a section.
LEMMA TypedFinish ==
    ASSUME NEW t \in Threads, Typed, pc[t] \notin {"closed", "idle"}, Finish(t),
           op' \in [Threads -> DOMAIN Operations \cup {"none"}],
           role' \in [Threads -> Roles], conn' \in [Threads -> BOOLEAN],
           {query, pending, result}' \subseteq Statements \cup {Nothing},
           got' \in [Threads -> Statements \cup {Nothing, Freed}],
           overlapped' \in BOOLEAN
    PROVE  Typed'
<1>1. plan[t] # << >>
  BY DEF Typed
<1>2. /\ plan' \in [Threads -> Seq(Sections)]
      /\ pc' \in [Threads -> Control]
      /\ pc'[t] \in {"between", "idle"}
      /\ plan'[t] = << >> <=> pc'[t] = "idle"
      /\ \A u \in Threads \ {t} : pc'[u] = pc[u] /\ plan'[u] = plan[u]
  BY <1>1, FinishOk
<1>3. \A u \in Threads : plan'[u] = << >> <=> pc'[u] \in {"closed", "idle"}
  BY <1>2 DEF Typed
<1> QED BY <1>2, <1>3 DEF Typed

\* What mysql_query leaves pending.
LEMMA ExecuteTyped ==
    ASSUME NEW t \in Threads, Typed, NEW s \in Executed(t), Execute(s)
    PROVE  s \in Statements \cup {Nothing} /\ pending' \in Statements \cup {Nothing}
<1>1. s \in Statements \cup {Nothing}
  BY DEF Executed, Typed
<1> QED BY <1>1 DEF Execute, Typed

LEMMA TypedStep ==
    ASSUME NEW t \in Threads, Typed, Works(t)
    PROVE  Typed'
<1> USE DEF session, database
<1>1. CASE QueryFormat(t)
  <2>1. query' \in Statements /\ overlapped' \in BOOLEAN
    BY <1>1 DEF QueryFormat, Format, Typed, Statements
  <2> QED BY <1>1, <2>1, TypedMove DEF QueryFormat, Enters, Typed, Control, Inside
<1>2. CASE QueryExec(t)
  <2>1. pending' \in Statements \cup {Nothing}
    BY <1>2, ExecuteTyped DEF QueryExec
  <2> QED BY <1>2, <2>1, TypedMove DEF QueryExec, Typed, Control, Inside
<1>3. CASE FreeRows(t)
  <2>1. /\ pc[t] = "free" /\ Goto(t, "store") /\ result' = Nothing
        /\ got' = [u \in Threads |-> IF pc[u] = "use" /\ got[u] = result THEN Freed ELSE got[u]]
        /\ UNCHANGED <<query, pending, plan, op, role, conn, overlapped>>
    BY <1>3 DEF FreeRows, QueryFree
  <2>2. got' \in [Threads -> Statements \cup {Nothing, Freed}]
    BY <2>1 DEF Typed
  <2> QED BY <2>1, <2>2, TypedMove DEF Typed, Control, Inside
<1>4. CASE QueryStore(t)
  BY <1>4, TypedMove DEF QueryStore, Typed, Control, Inside
<1>5. CASE GetRows(t)
  BY <1>5, TypedMove DEF GetRows, QueryGet, Typed, Control, Inside
<1>6. CASE UseRows(t)
  BY <1>6, TypedFinish DEF UseRows, QueryUse, Typed
<1>7. CASE WriteFormat(t)
  <2>1. query' \in Statements /\ overlapped' \in BOOLEAN
    BY <1>7 DEF WriteFormat, Format, Typed, Statements
  <2> QED BY <1>7, <2>1, TypedMove DEF WriteFormat, Enters, Typed, Control, Inside
<1>8. CASE WriteExec(t)
  <2>1. PICK s \in Executed(t) :
           /\ Execute(s)
           /\ got' = [got EXCEPT ![t] = IF Len(plan[t]) > 1 THEN s ELSE Nothing]
    BY <1>8 DEF WriteExec
  <2>2. s \in Statements \cup {Nothing} /\ pending' \in Statements \cup {Nothing}
    BY <2>1, ExecuteTyped
  <2>3. got' \in [Threads -> Statements \cup {Nothing, Freed}]
    BY <2>1, <2>2 DEF Typed
  <2> QED BY <1>8, <2>2, <2>3, TypedFinish DEF WriteExec, Typed
<1>9. CASE Record(t)
  BY <1>9, TypedFinish DEF Record, Enters, Typed
<1>10. CASE SetRole(t)
  BY <1>10, TypedFinish DEF SetRole, Enters, Typed, Roles
<1>11. CASE Unanswered(t)
  BY <1>11, EmptySeq DEF Unanswered, Enters, Goto, Typed, Control
<1>12. CASE Accept(t)
  BY <1>12 DEF Accept, Goto, Typed, Control
<1>13. CASE Dispatch(t)
  BY <1>13, PlansAreSections DEF Dispatch, Goto, Typed, Control
<1>14. CASE Drop(t)
  BY <1>14 DEF Drop, Typed
<1>15. CASE Answered(t)
  BY <1>15, TypedFinish DEF Answered, Enters, Typed
<1>16. CASE LogReady(t)
  BY <1>16, TypedFinish DEF LogReady, Enters, Typed
<1> QED BY <1>1, <1>2, <1>3, <1>4, <1>5, <1>6, <1>7, <1>8, <1>9, <1>10, <1>11, <1>12, <1>13,
           <1>14, <1>15, <1>16 DEF Works

LEMMA LogoutTyped ==
    ASSUME NEW t \in Threads, Typed, Logout(t)
    PROVE  Typed'
BY EmptySeq DEF Logout, Close, Typed, Control, Roles, database

-----------------------------------------------------------------------------
(* While nothing has overlapped.                                           *)

\* A step of a thread that is outside and stays outside.
LEMMA QuietOutside ==
    ASSUME NEW t \in Threads, Quiet, UNCHANGED <<query, pending, result>>,
           pc[t] \notin Inside, pc'[t] \notin Inside,
           got'[t] = Nothing \/ got'[t] = got[t],
           \A u \in Threads \ {t} : pc'[u] = pc[u] /\ got'[u] = got[u]
    PROVE  Quiet'
<1>1. Alone'
  BY DEF Quiet, Alone
<1>2. Tidy'
  BY DEF Quiet, Tidy, Inside
<1>3. ASSUME NEW u \in Threads \ {t} PROVE Own(u)'
  BY <1>3 DEF Quiet, Own, Select
<1>4. Own(t)'
  BY DEF Quiet, Own, Inside
<1> QED BY <1>1, <1>2, <1>3, <1>4 DEF Quiet

\* A step of the thread that is inside: nobody else depends on the database.
LEMMA QuietInside ==
    ASSUME NEW t \in Threads, Typed, Quiet, pc[t] \in Inside, Tidy', Own(t)',
           \A u \in Threads \ {t} : pc'[u] = pc[u] /\ got'[u] = got[u]
    PROVE  Quiet'
<1>1. \A u \in Threads \ {t} : pc[u] \notin Inside
  BY DEF Quiet, Alone
<1>2. Alone'
  BY <1>1 DEF Alone
<1>3. ASSUME NEW u \in Threads \ {t} PROVE Own(u)'
  BY <1>1, <1>3 DEF Quiet, Own, Inside
<1> QED BY <1>2, <1>3 DEF Quiet

\* A thread enters a section while all others are outside.
LEMMA QuietFormat ==
    ASSUME NEW t \in Threads, Typed, Quiet, NEW kind \in {"select", "update"},
           NEW label \in {"exec", "writeExec"}, label = "exec" <=> kind = "select",
           Format(t, kind), Goto(t, label), ~overlapped', UNCHANGED <<pending, got>>,
           pc[t] = "between"
    PROVE  Quiet'
<1>1. \A u \in Threads \ {t} : pc[u] \notin Inside
  BY DEF Format
<1>2. pc'[t] = label /\ \A u \in Threads \ {t} : pc'[u] = pc[u]
  BY DEF Goto, Typed
<1>3. Alone'
  BY <1>1, <1>2 DEF Alone
<1>4. Tidy'
  BY <1>1, <1>2 DEF Quiet, Tidy, Inside
<1>5. ASSUME NEW u \in Threads \ {t} PROVE Own(u)'
  BY <1>1, <1>2, <1>5 DEF Quiet, Own, Inside
<1>6. Own(t)'
  BY <1>2 DEF Quiet, Own, Format, Select
<1> QED BY <1>3, <1>4, <1>5, <1>6 DEF Quiet

\* A statement is executed: it is the thread's own and nothing is pending.
LEMMA ExecutesOwn ==
    ASSUME NEW t \in Threads, Typed, Quiet, pc[t] \in {"exec", "writeExec"}
    PROVE  /\ pending = Nothing
           /\ query # Nothing /\ query.by = t
           /\ pc[t] = "exec" <=> query.kind = "select"
           /\ Executed(t) = {query}
<1>1. pending = Nothing
  <2>1. \A u \in Threads : pc[u] \notin {"free", "store"}
    BY DEF Quiet, Alone, Inside
  <2> QED BY <2>1 DEF Quiet, Tidy
<1>2. CASE pc[t] = "exec"
  <2>1. query = Select(t)
    BY <1>2 DEF Quiet, Own
  <2>2. query # Nothing /\ query.by = t /\ query.kind = "select"
    BY <2>1, StatementsAreNot
  <2> QED BY <1>1, <1>2, <2>2 DEF Executed
<1>3. CASE pc[t] = "writeExec"
  <2>1. query = [by |-> t, kind |-> "update"]
    BY <1>3 DEF Quiet, Own
  <2>2. query # Nothing /\ query.by = t /\ query.kind # "select"
    BY <2>1, StatementsAreNot
  <2> QED BY <1>1, <1>3, <2>2 DEF Executed
<1> QED BY <1>2, <1>3

LEMMA QuietStep ==
    ASSUME NEW t \in Threads, Typed, Quiet, ~overlapped, ~overlapped', Works(t)
    PROVE  Quiet'
<1> USE DEF session, database
<1>1. CASE QueryFormat(t)
  BY <1>1, QuietFormat DEF QueryFormat, Enters
<1>2. CASE QueryExec(t)
  <2>1. pending' = query
    BY <1>2, ExecutesOwn DEF QueryExec, Execute
  <2>2. pc'[t] = "free" /\ got' = got /\ \A u \in Threads \ {t} : pc'[u] = pc[u]
    BY <1>2 DEF QueryExec, Goto, Typed
  <2>3. query = Select(t)
    BY <1>2 DEF QueryExec, Quiet, Own
  <2>4. Own(t)' /\ Tidy'
    BY <2>1, <2>2, <2>3 DEF Quiet, Own, Tidy, Select
  <2> QED BY <1>2, <2>2, <2>4, QuietInside DEF QueryExec, Inside
<1>3. CASE FreeRows(t)
  <2>1. /\ pc[t] = "free" /\ pc' = [pc EXCEPT ![t] = "store"] /\ pending' = pending
        /\ got' = [u \in Threads |-> IF pc[u] = "use" /\ got[u] = result THEN Freed ELSE got[u]]
    BY <1>3 DEF FreeRows, QueryFree
  <2>2. \A u \in Threads : pc[u] # "use"
    BY <2>1 DEF Quiet, Alone, Inside
  <2>3. pc'[t] = "store" /\ \A u \in Threads \ {t} : pc'[u] = pc[u] /\ got'[u] = got[u]
    BY <2>1, <2>2 DEF Typed
  <2>4. got'[t] = got[t]
    BY <2>1, <2>2
  <2>5. Own(t)' /\ Tidy'
    BY <2>1, <2>3, <2>4 DEF Quiet, Own, Tidy, Select
  <2> QED BY <2>1, <2>3, <2>5, QuietInside DEF Inside
<1>4. CASE QueryStore(t)
  <2>1. pc[t] = "store" /\ result' = pending /\ pending' = Nothing /\ got' = got
    BY <1>4 DEF QueryStore
  <2>2. pc'[t] = "get" /\ \A u \in Threads \ {t} : pc'[u] = pc[u]
    BY <1>4 DEF QueryStore, Goto, Typed
  <2>3. Own(t)' /\ Tidy'
    BY <2>1, <2>2 DEF Quiet, Own, Tidy, Select
  <2> QED BY <2>1, <2>2, <2>3, QuietInside DEF Inside
<1>5. CASE GetRows(t)
  <2>1. /\ pc[t] = "get" /\ got' = [got EXCEPT ![t] = result]
        /\ Goto(t, "use") /\ pending' = pending
    BY <1>5 DEF GetRows, QueryGet
  <2>2. pc'[t] = "use" /\ got'[t] = result
        /\ \A u \in Threads \ {t} : pc'[u] = pc[u] /\ got'[u] = got[u]
    BY <2>1 DEF Goto, Typed
  <2>3. result = Select(t)
    BY <2>1 DEF Quiet, Own
  <2>4. Own(t)'
    BY <2>2, <2>3, StatementsAreNot DEF Own, Select
  <2>5. Tidy'
    BY <2>1, <2>2 DEF Quiet, Tidy, Alone, Inside
  <2> QED BY <2>1, <2>2, <2>4, <2>5, QuietInside DEF Inside
<1>6. CASE UseRows(t)
  <2>1. /\ pc[t] = "use" /\ got' = [got EXCEPT ![t] = Nothing] /\ Finish(t)
        /\ pending' = pending
    BY <1>6 DEF UseRows, QueryUse
  <2>2. plan[t] # << >>
    BY <2>1 DEF Typed
  <2>3. pc'[t] \in {"between", "idle"}
        /\ \A u \in Threads \ {t} : pc'[u] = pc[u] /\ got'[u] = got[u]
    BY <2>1, <2>2, FinishOk DEF Typed
  <2>4. Own(t)' /\ Tidy'
    BY <2>1, <2>3 DEF Quiet, Own, Tidy, Alone, Inside, Typed
  <2> QED BY <2>1, <2>3, <2>4, QuietInside DEF Inside
<1>7. CASE WriteFormat(t)
  BY <1>7, QuietFormat DEF WriteFormat, Enters
<1>8. CASE WriteExec(t)
  <2>1. pc[t] = "writeExec" /\ Finish(t) /\ plan[t] # << >>
    BY <1>8 DEF WriteExec, Typed
  <2>0. pending = Nothing /\ query.kind # "select" /\ Executed(t) = {query}
    BY <2>1, ExecutesOwn
  <2>2. /\ pending' = Nothing
        /\ got' = [got EXCEPT ![t] = IF Len(plan[t]) > 1 THEN query ELSE Nothing]
    BY <1>8, <2>0 DEF WriteExec, Execute
  <2>3. pc'[t] \in {"between", "idle"}
        /\ \A u \in Threads \ {t} : pc'[u] = pc[u] /\ got'[u] = got[u]
    BY <2>1, <2>2, FinishOk DEF Typed
  <2>4. got'[t] = Nothing \/ got'[t].by = t
    BY <2>1, <2>2, ExecutesOwn DEF Typed
  <2>5. Own(t)' /\ Tidy'
    BY <2>2, <2>3, <2>4 DEF Own, Tidy
  <2> QED BY <2>1, <2>3, <2>5, QuietInside DEF Inside
<1>9. CASE Record(t)
  <2>1. plan[t] # << >> /\ Finish(t) /\ pc[t] = "between" /\ got' = [got EXCEPT ![t] = Nothing]
    BY <1>9 DEF Record, Enters
  <2> QED BY <1>9, <2>1, FinishOk, QuietOutside DEF Record, Inside, Typed
<1>10. CASE SetRole(t)
  <2>1. plan[t] # << >> /\ Finish(t) /\ pc[t] = "between" /\ got' = got
    BY <1>10 DEF SetRole, Enters
  <2> QED BY <1>10, <2>1, FinishOk, QuietOutside DEF SetRole, Inside
<1>11. CASE Unanswered(t)
  BY <1>11, QuietOutside DEF Unanswered, Enters, Goto, Inside, Typed
<1>12. CASE Accept(t)
  BY <1>12, QuietOutside DEF Accept, Goto, Inside, Typed
<1>13. CASE Dispatch(t)
  BY <1>13, QuietOutside DEF Dispatch, Goto, Inside, Typed
<1>14. CASE Drop(t)
  BY <1>14 DEF Drop, Quiet, Alone, Tidy, Own, Select
<1>15. CASE Answered(t)
  <2>1. plan[t] # << >> /\ Finish(t) /\ pc[t] = "between" /\ got' = got
    BY <1>15 DEF Answered, Enters
  <2> QED BY <1>15, <2>1, FinishOk, QuietOutside DEF Answered, Inside
<1>16. CASE LogReady(t)
  <2>1. plan[t] # << >> /\ Finish(t) /\ pc[t] = "between" /\ got' = got
    BY <1>16 DEF LogReady, Enters
  <2> QED BY <1>16, <2>1, FinishOk, QuietOutside DEF LogReady, Inside
<1> QED BY <1>1, <1>2, <1>3, <1>4, <1>5, <1>6, <1>7, <1>8, <1>9, <1>10, <1>11, <1>12, <1>13,
           <1>14, <1>15, <1>16 DEF Works

\* An overlap is forgotten only with the process.
LEMMA OverlapStays ==
    ASSUME NEW t \in Threads, Works(t), overlapped
    PROVE  overlapped'
BY DEF Works, QueryFormat, QueryExec, FreeRows, QueryFree, QueryStore, GetRows, QueryGet, UseRows,
       QueryUse, WriteFormat, WriteExec, Record, SetRole, Unanswered, Accept, Dispatch, Drop,
       Answered, LogReady, Format

\* Every step preserves the inductive invariant.
LEMMA NextInv == IInv /\ [Next]_vars => IInv'
<1> SUFFICES ASSUME IInv, [Next]_vars PROVE IInv'
  OBVIOUS
<1>1. ASSUME NEW t \in Threads, Works(t) PROVE IInv'
  <2>1. Typed'
    BY <1>1, TypedStep DEF IInv
  <2>2. ~overlapped' => Quiet'
    BY <1>1, OverlapStays, QuietStep DEF IInv
  <2> QED BY <2>1, <2>2 DEF IInv
<1>2. ASSUME NEW t \in Threads, Logout(t) PROVE IInv'
  <2>1. Typed'
    BY <1>2, LogoutTyped DEF IInv
  <2>2. /\ pc[t] = "idle" /\ pc'[t] = "closed" /\ got'[t] = Nothing
        /\ \A u \in Threads \ {t} : pc'[u] = pc[u] /\ got'[u] = got[u]
        /\ UNCHANGED <<query, pending, result, overlapped>>
    BY <1>2 DEF Logout, Close, database
  <2>3. ~overlapped' => Quiet'
    BY <2>2, QuietOutside DEF IInv, Inside
  <2> QED BY <2>1, <2>3 DEF IInv
<1>3. CASE UNCHANGED vars
  BY <1>3 DEF vars, database, session, IInv, Typed, Quiet, Alone, Tidy, Own, Select
<1>4. CASE Next
  BY <1>1, <1>2, <1>4, DiesInv, StepKinds DEF Next
<1> QED BY <1>3, <1>4

LEMMA AlwaysInv == Spec => []IInv
BY InitInv, NextInv, PTL DEF Spec

-----------------------------------------------------------------------------
(* Theorems.                                                               *)

\* The type invariant, for any number of connections: in particular a thread
\* has sections left exactly while it is in a handler.
THEOREM ThreadsTyped == Spec => []Typed
<1>1. IInv => Typed
  BY DEF IInv
<1> QED BY <1>1, AlwaysInv, PTL

\* A handler's statements, rows and results are its own until two threads are
\* inside a section at once, for any number of connections, any plans and any
\* order of vanished clients and restarts.
THEOREM IntrusionNeedsOverlap == Spec => []OnlyOverlapIntrudes
<1>1. IInv => OnlyOverlapIntrudes
  <2> SUFFICES ASSUME IInv, ~overlapped, NEW t \in Threads
               PROVE  /\ pc[t] \in {"exec", "writeExec"} => query.by = t /\ pending = Nothing
                      /\ pc[t] = "store" => pending = Select(t)
                      /\ pc[t] = "get" => result = Select(t)
                      /\ pc[t] = "use" => got[t] = Select(t)
                      /\ Enters(t, {"record"}) => got[t] = Nothing \/ got[t].by = t
    BY DEF OnlyOverlapIntrudes
  <2>1. pc[t] \in {"exec", "writeExec"} => query.by = t /\ pending = Nothing
    BY ExecutesOwn DEF IInv
  <2>2. Own(t)
    BY DEF IInv, Quiet
  <2> QED BY <2>1, <2>2 DEF Own
<1> QED BY <1>1, AlwaysInv, PTL

\* A thread that goes on working is not closed.
LEMMA WorksStays ==
    ASSUME NEW t \in Threads, Typed, Works(t), NEW u \in Threads,
           pc[u] \notin {"closed", "idle"}
    PROVE  pc'[u] # "closed"
<1>1. ASSUME Finish(t), pc[t] \notin {"closed", "idle"} PROVE pc'[u] # "closed"
  BY <1>1, FinishOk DEF Typed
<1>2. ASSUME NEW label, label # "closed", Goto(t, label) PROVE pc'[u] # "closed"
  BY <1>2 DEF Goto, Typed
<1>3. QueryFormat(t) => pc'[u] # "closed"
  BY <1>2 DEF QueryFormat
<1>4. QueryExec(t) => pc'[u] # "closed"
  BY <1>2 DEF QueryExec
<1>5. FreeRows(t) => pc'[u] # "closed"
  BY DEF FreeRows, Typed
<1>6. QueryStore(t) => pc'[u] # "closed"
  BY <1>2 DEF QueryStore
<1>7. GetRows(t) => pc'[u] # "closed"
  BY <1>2 DEF GetRows, QueryGet
<1>8. UseRows(t) => pc'[u] # "closed"
  BY <1>1 DEF UseRows, QueryUse
<1>9. WriteFormat(t) => pc'[u] # "closed"
  BY <1>2 DEF WriteFormat
<1>10. WriteExec(t) => pc'[u] # "closed"
  BY <1>1 DEF WriteExec
<1>11. Record(t) \/ SetRole(t) \/ Answered(t) \/ LogReady(t) => pc'[u] # "closed"
  BY <1>1 DEF Record, SetRole, Answered, LogReady, Enters
<1>12. Unanswered(t) \/ Accept(t) \/ Dispatch(t) => pc'[u] # "closed"
  BY <1>2 DEF Unanswered, Accept, Dispatch
<1>13. Drop(t) => pc'[u] # "closed"
  BY DEF Drop
<1> QED BY <1>3, <1>4, <1>5, <1>6, <1>7, <1>8, <1>9, <1>10, <1>11, <1>12, <1>13 DEF Works

\* Only an overlap or a vanished client ends the process under a handler.
THEOREM CutShortExplained == Spec => CutShortOnlyFor
<1> DEFINE Cut == \E t \in Threads : pc[t] \notin {"closed", "idle"} /\ pc'[t] = "closed"
           Cause == \/ overlapped
                    \/ \E u \in Threads : ~conn[u] /\ (op[u] = "none" \/ Enters(u, {"ready"}))
<1>1. IInv /\ [Next]_vars => [Cut => Cause]_vars
  <2> SUFFICES ASSUME IInv, Next, Cut, ~overlapped PROVE Cause
    OBVIOUS
  <2>1. PICK t \in Threads : Step(t) \/ Connection(t)
    BY DEF Next
  <2>2. Quiet /\ Typed
    BY DEF IInv
  <2>3. ~Works(t)
    BY <2>2, WorksStays
  <2>4. ~Logout(t)
    BY DEF Logout, Close
  <2>5. ~QueryFree(t)
    <3>1. ~(\E u \in Threads \ {t} : pc[t] = "free" /\ pc[u] = "free")
      BY <2>2 DEF Quiet, Alone, Inside
    <3> QED BY <2>3, <3>1 DEF QueryFree, Works, FreeRows, Goto, Typed, ProcessDies, Close
  <2>6. ~QueryGet(t)
    <3>1. pc[t] = "get" => result # Nothing
      BY <2>2, StatementsAreNot DEF Quiet, Own
    <3>2. ~(Goto(t, "use") /\ ProcessDies)
      BY <2>2 DEF Goto, ProcessDies, Close, Typed
    <3> QED BY <2>3, <3>1, <3>2 DEF QueryGet, Works, GetRows
  <2>7. ~QueryUse(t)
    <3>1. pc[t] = "use" => got[t] = Select(t)
      BY <2>2 DEF Quiet, Own
    <3>2. ~(pc[t] = "use" /\ Finish(t) /\ ProcessDies)
      <4>1. pc[t] = "use" => plan[t] # << >>
        BY <2>2 DEF Typed
      <4>2. ProcessDies => pc'[t] = "closed"
        BY DEF ProcessDies, Close
      <4> QED BY <2>2, <4>1, <4>2, FinishOk
    <3> QED BY <2>3, <3>1, <3>2 DEF QueryUse, Works, UseRows
  <2>8. LogUnanswered(t) \/ ParseFailure(t)
    BY <2>1, <2>3, <2>4, <2>5, <2>6, <2>7 DEF Step, Connection, Works
  <2> QED BY <2>8 DEF LogUnanswered, ParseFailure
<1>2. Spec => [][Cut => Cause]_vars
  BY <1>1, AlwaysInv, PTL DEF Spec
<1> QED BY <1>2 DEF CutShortOnlyFor
=============================================================================
