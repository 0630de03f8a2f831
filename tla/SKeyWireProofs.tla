--------------------------- MODULE SKeyWireProofs ---------------------------
(***************************************************************************)
(* For any size of a block, of a list and of the log: as long as every     *)
(* recv returns what was sent, the two ends of an administrator's          *)
(* connection keep in step.                                                *)
(***************************************************************************)
EXTENDS SKeyWire, TLAPS

-----------------------------------------------------------------------------
(* Arithmetic of blocks.                                                   *)

\* A product grows with its factor.
LEMMA ProductGrows ==
    ASSUME NEW a \in Nat, NEW b \in Nat, a <= b
    PROVE  /\ a * Block \in Nat /\ b * Block \in Nat
           /\ a * Block <= b * Block
           /\ (a + 1) * Block = a * Block + Block
  BY WireAssumption DEF WireAssumption

\* The blocks before the last are full, and the last reaches the end.
LEMMA BlocksCover ==
    ASSUME NEW n \in Nat, NEW k \in Nat
    PROVE  BlockCount(n) \in Nat /\ (k < BlockCount(n) <=> k * Block < n)
  <1> DEFINE q == n \div Block
             r == n % Block
  <1>1. Block \in Nat /\ Block > 0 BY WireAssumption DEF WireAssumption
  <1>2. q \in Nat /\ r \in Nat /\ r < Block /\ n = Block * q + r
    BY <1>1
  <1>3. BlockCount(n) = IF r # 0 THEN q + 1 ELSE q
    BY DEF BlockCount
  <1> HIDE DEF q, r
  <1>4. CASE k < q
    <2>1. (k + 1) * Block <= q * Block BY <1>1, <1>2, <1>4
    <2> QED BY <1>1, <1>2, <1>3, <1>4, <2>1
  <1>5. CASE k = q
    BY <1>1, <1>2, <1>3, <1>5
  <1>6. CASE k > q
    <2>1. (q + 1) * Block <= k * Block BY <1>1, <1>2, <1>6
    <2> QED BY <1>1, <1>2, <1>3, <1>6, <2>1
  <1> QED BY <1>2, <1>4, <1>5, <1>6

\* A log that grows inside its last block keeps the number of blocks.
LEMMA GrownKeeps ==
    ASSUME NEW size \in Nat, NEW n \in Grown(size)
    PROVE  /\ n \in Nat /\ n >= size /\ n <= 3 * MaxLines
           /\ BlockCount(n) = BlockCount(size)
           /\ Grown(n) \subseteq Grown(size)
  <1> DEFINE all == BlockCount(size)
             own == BlockCount(n)
             top == all * Block
  <1>1. /\ all \in Nat /\ Block \in Nat /\ top \in Nat /\ 3 * MaxLines \in Nat
    BY BlocksCover, WireAssumption DEF WireAssumption
  <1>2. n \in Nat /\ n >= size /\ n <= top /\ n <= 3 * MaxLines
    BY <1>1 DEF Grown, Least
  <1>3. own \in Nat /\ ~(all < own) BY <1>1, <1>2, BlocksCover
  <1>4. ~(own < all)
    <2>1. ~(own * Block < n) BY <1>2, <1>3, BlocksCover
    <2>2. ~(own * Block < size) BY <1>1, <1>2, <1>3, <2>1
    <2> QED BY <1>3, <2>2, BlocksCover
  <1>5. own = all BY <1>1, <1>3, <1>4
  <1>6. Grown(n) \subseteq Grown(size)
    BY <1>1, <1>2, <1>5 DEF Grown, Least
  <1> QED BY <1>2, <1>5, <1>6

-----------------------------------------------------------------------------
(* Messages and streams.                                                   *)

Part(op, val, i) == [op |-> op, val |-> val, part |-> i]

Parts(op, val) == {Part(op, val, i) : i \in Nat}

\* The operations whose messages are one unit.
Single(op) == op \notin Batches \cup {"list"}

LEMMA MsgSeq ==
    ASSUME NEW op, NEW val \in Nat
    PROVE  /\ Units(op, val) \in Nat \ {0}
           /\ Msg(op, val) \in Seq(Parts(op, val))
           /\ Len(Msg(op, val)) = Units(op, val)
           /\ \A i \in 1..Units(op, val) : Msg(op, val)[i] = Part(op, val, i)
  <1>1. Units(op, val) \in Nat \ {0} BY DEF Units
  <1> DEFINE n == Units(op, val)
             m == [i \in 1..n |-> Part(op, val, i)]
  <1>2. Msg(op, val) = m BY DEF Msg, Part
  <1> HIDE DEF n
  <1>3. m \in Seq(Parts(op, val)) /\ Len(m) = n
    BY <1>1 DEF Parts, n
  <1> QED BY <1>1, <1>2, <1>3 DEF n

LEMMA MsgAfterNothing ==
    ASSUME NEW op, NEW val \in Nat
    PROVE  <<>> \o Msg(op, val) = Msg(op, val) /\ Msg(op, val) # <<>>
  BY MsgSeq

LEMMA SingleMsg ==
    ASSUME NEW op, Single(op), NEW val \in Nat
    PROVE  Msg(op, val) = <<Part(op, val, 1)>>
  BY MsgSeq DEF Single, Units

\* Nothing is received from an empty stream.
LEMMA NothingArrives ==
    ASSUME NEW max \in Nat
    PROVE  Arrivals(<<>>, max) = {}
  BY DEF Arrivals, Least

\* What is received is a part of the stream from its start, in one piece if
\* nothing is torn.
LEMMA ArrivesInOrder ==
    ASSUME NEW S, NEW stream \in Seq(S), NEW max \in Nat,
           NEW chunk \in Arrivals(stream, max)
    PROVE  /\ chunk \in Seq(S) /\ Len(chunk) \in 1..Least(Len(stream), max)
           /\ \A i \in 1..Len(chunk) : chunk[i] = stream[i]
           /\ Rest(stream, chunk) \in Seq(S)
           /\ Len(Rest(stream, chunk)) = Len(stream) - Len(chunk)
           /\ \A i \in 1..(Len(stream) - Len(chunk)) :
                  Rest(stream, chunk)[i] = stream[Len(chunk) + i]
           /\ Torn(stream, chunk, max) = {} => Len(chunk) = Least(Len(stream), max)
  <1> DEFINE all == Least(Len(stream), max)
  <1>1. all \in Nat /\ all <= Len(stream) BY DEF Least
  <1>2. PICK n \in 1..all : chunk = SubSeq(stream, 1, n)
    BY <1>1 DEF Arrivals
  <1>3. /\ chunk \in Seq(S) /\ Len(chunk) = n
        /\ \A i \in 1..n : chunk[i] = stream[i]
    BY <1>1, <1>2
  <1> HIDE DEF all
  <1>4. /\ Rest(stream, chunk) \in Seq(S)
        /\ Len(Rest(stream, chunk)) = Len(stream) - n
        /\ \A i \in 1..(Len(stream) - n) : Rest(stream, chunk)[i] = stream[n + i]
    BY <1>1, <1>2, <1>3 DEF Rest
  <1>5. Torn(stream, chunk, max) = {} => n >= all
    BY <1>1, <1>3 DEF Torn, all
  <1> QED BY <1>1, <1>2, <1>3, <1>4, <1>5 DEF all

\* A message parses.
LEMMA MsgParses ==
    ASSUME NEW op, op \notin Bytes, NEW val \in Nat
    PROVE  /\ Parses(Msg(op, val)) /\ Msg(op, val)[1] = Part(op, val, 1)
           /\ Msg(op, val)[1].op = op /\ Msg(op, val)[1].val = val
  BY MsgSeq DEF Parses, Part

\* What is received from the start of a stream that begins with a message, and
\* parses, is that message.
LEMMA OnlyWholeParses ==
    ASSUME NEW S, NEW stream \in Seq(S), NEW max \in Nat,
           NEW chunk \in Arrivals(stream, max), Parses(chunk),
           NEW op, NEW val \in Nat, stream[1] = Part(op, val, 1)
    PROVE  chunk = Msg(op, val) /\ chunk[1] = Part(op, val, 1)
  BY ArrivesInOrder DEF Parses, Part

-----------------------------------------------------------------------------
(* The invariant: where the two ends are, as long as every recv gets what  *)
(* was sent.                                                               *)

\* The faults after which the ends may no longer agree.
Calm == faults \cap {"split", "notOpened", "stopped"} = {} /\ server # "stopped"

\* A request is on its way, or the thread is about to serve it.
Asked(op) ==
    /\ down = <<>>
    /\ \/ up = Msg(op, 0) /\ server = "loop"
       \/ up = <<>> /\ server = "dispatch" /\ buff = Part(op, 0, 1)

\* The answer is on its way, and the thread is at state.
Answered(op, val, state) == up = <<>> /\ down = Msg(op, val) /\ server = state

Quiet == up = <<>> /\ down = <<>> /\ server = "loop"

AtIdle ==
    /\ Quiet
    /\ userType = CASE window = "main" -> 0
                    [] window = "security" -> 1
                    [] window = "log" -> 2

AtChallenge ==
    /\ window = "main" /\ userType = 0
    /\ \/ Asked("C_ADMIN_LOGIN")
       \/ Answered("S_FAILED", 0, "loop")
       \/ Answered("S_NEXTSTEP", 0, "answer")

AtResult ==
    /\ window = "main"
    /\ \/ userType = 0 /\ up = Msg("answer", 0) /\ down = <<>> /\ server = "answer"
       \/ userType = 0 /\ Answered("S_FAILED", 0, "loop")
       \/ userType \in {1, 2} /\ Answered("S_ACCESS", userType, "loop")

\* A batch was sent and nothing else.
AtRefresh ==
    /\ window = "security" /\ userType = 1 /\ "pressed" \in faults
    /\ down = <<>>
    /\ \/ server = "loop" /\ \E op \in Batches, n \in Nat : up = Msg(op, n)
       \/ server = "dispatch" /\ buff.op \in Batches /\ up = <<>>
       \/ server = "loop" /\ up = <<>>

\* The list was asked for, after a batch or not.
AtList ==
    /\ window = "security" /\ userType = 1
    /\ \/ Asked("C_GET_REQUEST")
       \/ /\ "pressed" \in faults /\ down = <<>> /\ server = "loop"
          /\ \E op \in Batches, n \in Nat : up = Msg(op, n) \o Msg("C_GET_REQUEST", 0)
       \/ /\ "pressed" \in faults /\ down = <<>> /\ server = "dispatch"
          /\ buff.op \in Batches /\ up = Msg("C_GET_REQUEST", 0)
       \/ /\ buff.op = "C_GET_REQUEST"
          /\ \E rows \in Nat :
                /\ Answered("list", rows, "loop")
                /\ Units("list", rows) > 2 * Block => "tooLong" \in faults

AtHeader ==
    /\ window = "log" /\ userType = 2
    /\ \/ Asked("C_GET_LOG")
       \/ length > 0 /\ sent = 0 /\ Answered("header", length, "ready")

\* The blocks the client has counted and what is in the stream make up what
\* was sent.
AtBlocks ==
    /\ window = "log" /\ userType = 2 /\ length > 0
    /\ \/ /\ up = Msg("ready", 1) /\ down = <<>> /\ server = "ready"
          /\ sent = 0 /\ left = BlockCount(length)
       \/ /\ up = <<>> /\ server \in {"sending", "loop"}
          /\ server = "loop" <=> sent = BlockCount(length)
          /\ left \in 1..BlockCount(length)
          /\ sent \in (BlockCount(length) - left)..BlockCount(length)
          /\ Len(down) = Least(sent * Block, length) - (BlockCount(length) - left) * Block

AtClosed ==
    /\ down = <<>>
    /\ \/ Asked("C_LOGOUT")
       \/ up = <<>> /\ server = "closed"

\* The client ended for a list that was too long.
AtDead ==
    \/ "vanished" \in faults
    \/ /\ up = <<>> /\ down = <<>>
       /\ server \in {"loop", "dispatch"} /\ buff.op = "C_GET_REQUEST"
       /\ "tooLong" \in faults

Phase ==
    /\ client = "idle" => AtIdle
    /\ client = "challenge" => AtChallenge
    /\ client = "result" => AtResult
    /\ client = "refresh" => AtRefresh
    /\ client = "list" => AtList
    /\ client = "header" => AtHeader
    /\ client = "blocks" => AtBlocks
    /\ client = "closed" => AtClosed
    /\ client = "dead" => AtDead

Ops == Requests \cup Bytes \cup {"answer", "ready", "list", "header",
                                  "S_FAILED", "S_NEXTSTEP", "S_ACCESS", "none"}

Unit == [op : Ops, val : Nat, part : Nat]

\* The types the invariant needs.
WireKinds ==
    /\ client \in {"idle", "challenge", "result", "list", "refresh", "header", "blocks",
                   "closed", "dead"}
    /\ up \in Seq(Unit) /\ down \in Seq(Unit) /\ buff \in Unit
    /\ length \in Nat /\ sent \in Nat /\ left \in Nat /\ shown \in Nat
    /\ client = "blocks" => left > 0
    /\ faults \subseteq Faults

WireInv ==
    /\ WireKinds
    /\ OnlyTheseStopServer /\ OnlyTheseStopClient
    /\ Calm => Phase

-----------------------------------------------------------------------------
(* What a recv makes of a stream that starts with a message.               *)

LEMMA MsgUnits ==
    ASSUME NEW op \in Ops, NEW val \in Nat
    PROVE  Msg(op, val) \in Seq(Unit) /\ Part(op, val, 1) \in Unit
  <1> DEFINE n == Units(op, val)
  <1>1. n \in Nat BY MsgSeq
  <1>2. \A i \in Nat : Part(op, val, i) \in Unit BY DEF Part, Unit
  <1>3. Msg(op, val) = [i \in 1..n |-> Part(op, val, i)] BY DEF Msg, Part
  <1> HIDE DEF n
  <1>4. [i \in 1..n |-> Part(op, val, i)] \in Seq(Unit) BY <1>1, <1>2
  <1> QED BY <1>2, <1>3, <1>4

\* A message of one unit arrives whole.
LEMMA SingleArrives ==
    ASSUME NEW op, Single(op), NEW val \in Nat, NEW max \in Nat,
           NEW chunk \in Arrivals(Msg(op, val), max)
    PROVE  chunk = Msg(op, val) /\ chunk[1] = Part(op, val, 1)
           /\ Rest(Msg(op, val), chunk) = <<>>
  <1> DEFINE m == Msg(op, val)
  <1>1. /\ m \in Seq(Parts(op, val)) /\ Len(m) = 1 /\ m[1] = Part(op, val, 1)
    BY MsgSeq DEF Single, Units
  <1> HIDE DEF m
  <1>2. /\ chunk \in Seq(Parts(op, val)) /\ Len(chunk) = 1 /\ chunk[1] = m[1]
        /\ Rest(m, chunk) \in Seq(Parts(op, val)) /\ Len(Rest(m, chunk)) = 0
    BY <1>1, ArrivesInOrder DEF m, Least
  <1>3. chunk = m /\ Rest(m, chunk) = <<>> BY <1>1, <1>2
  <1> QED BY <1>1, <1>3 DEF m

\* What arrives of a message and parses is the message.
LEMMA WholeArrives ==
    ASSUME NEW op, NEW val \in Nat, NEW max \in Nat,
           NEW chunk \in Arrivals(Msg(op, val), max), Parses(chunk)
    PROVE  chunk = Msg(op, val) /\ chunk[1] = Part(op, val, 1)
           /\ Rest(Msg(op, val), chunk) = <<>>
  <1> DEFINE m == Msg(op, val)
  <1>1. /\ m \in Seq(Parts(op, val)) /\ m[1] = Part(op, val, 1)
    BY MsgSeq
  <1>2. chunk = m /\ chunk[1] = Part(op, val, 1)
    BY <1>1, OnlyWholeParses
  <1> HIDE DEF m
  <1>3. /\ Rest(m, chunk) \in Seq(Parts(op, val)) /\ Len(Rest(m, chunk)) = 0
    BY <1>1, <1>2, ArrivesInOrder DEF m
  <1> QED BY <1>2, <1>3 DEF m

\* What arrives of a batch and the request after it, and parses, is the batch.
LEMMA FirstArrives ==
    ASSUME NEW op \in Ops, NEW val \in Nat, NEW next \in Ops, NEW max \in Nat,
           NEW chunk \in Arrivals(Msg(op, val) \o Msg(next, 0), max), Parses(chunk)
    PROVE  chunk[1] = Part(op, val, 1)
           /\ Rest(Msg(op, val) \o Msg(next, 0), chunk) = Msg(next, 0)
  <1> DEFINE m == Msg(op, val)
             k == Msg(next, 0)
             both == m \o k
  <1>1. m \in Seq(Unit) /\ Len(m) \in Nat \ {0} /\ m[1] = Part(op, val, 1)
    <2>1. Len(m) \in Nat \ {0} /\ m[1] = Part(op, val, 1) BY MsgSeq
    <2> QED BY <2>1, MsgUnits
  <1>2. k \in Seq(Unit) /\ Len(k) \in Nat
    BY MsgUnits
  <1>3. chunk \in Arrivals(both, max) OBVIOUS
  <1>4. m = Msg(op, val) OBVIOUS
  <1> HIDE DEF m, k
  <1>5. /\ both \in Seq(Unit) /\ Len(both) = Len(m) + Len(k) /\ both[1] = Part(op, val, 1)
        /\ \A i \in 1..Len(k) : both[Len(m) + i] = k[i]
    BY <1>1, <1>2
  <1> HIDE DEF both
  <1>6. chunk = m /\ chunk[1] = Part(op, val, 1)
    BY <1>3, <1>4, <1>5, OnlyWholeParses
  <1>7. /\ Rest(both, chunk) \in Seq(Unit) /\ Len(Rest(both, chunk)) = Len(both) - Len(chunk)
        /\ \A i \in 1..(Len(both) - Len(chunk)) : Rest(both, chunk)[i] = both[Len(chunk) + i]
    <2>1. both \in Seq(Unit) BY <1>5
    <2> QED BY ONLY <2>1, <1>3, ArrivesInOrder, max \in Nat
  <1>8. Rest(both, chunk) = k BY <1>1, <1>2, <1>5, <1>6, <1>7
  <1> QED BY <1>6, <1>8 DEF both, m, k

\* A list that fits in the buffer and is not torn is understood.
LEMMA ListArrives ==
    ASSUME NEW rows \in Nat, NEW max \in Nat, Units("list", rows) <= max,
           NEW chunk \in Arrivals(Msg("list", rows), max),
           Torn(Msg("list", rows), chunk, max) = {}
    PROVE  Parses(chunk) /\ chunk[1].op = "list"
  <1> DEFINE m == Msg("list", rows)
  <1>1. /\ m \in Seq(Parts("list", rows)) /\ Len(m) = Units("list", rows)
        /\ Units("list", rows) \in Nat
    BY MsgSeq
  <1>2. Parses(m) /\ m[1].op = "list" BY MsgParses DEF Bytes
  <1> HIDE DEF m
  <1>3. /\ chunk \in Seq(Parts("list", rows)) /\ Len(chunk) = Len(m)
        /\ \A i \in 1..Len(chunk) : chunk[i] = m[i]
    BY <1>1, ArrivesInOrder DEF m, Least
  <1>4. chunk = m BY <1>1, <1>3
  <1> QED BY <1>2, <1>4

-----------------------------------------------------------------------------
(* The steps of the thread, one phase at a time.                           *)

\* The thread does what its state and its buffer say, and no window moves.
LEMMA ServerAt ==
    ASSUME ServerStep
    PROVE  /\ server = "loop" => Listen \/ ListenFails
           /\ server = "dispatch" => AdminLogin \/ GetRequest \/ ProcessBatch \/ GetLog \/ Logout
           /\ server = "answer" => AdminAnswer \/ HandlerFails
           /\ server = "ready" => LogReady \/ HandlerFails
           /\ server = "sending" => LogBlock
           /\ server \notin {"stopped", "closed"}
           /\ UNCHANGED windows
  BY DEF ServerStep, Listen, ListenFails, AdminLogin, AdminAnswer, GetRequest,
         ProcessBatch, GetLog, LogReady, LogBlock, HandlerFails, Logout, ServerStops,
         Dispatched, ServerRest

\* The thread takes the request that was sent.
LEMMA Listens ==
    ASSUME ServerStep, server = "loop", NEW op \in Requests \ Batches, up = Msg(op, 0)
    PROVE  /\ server' = "dispatch" /\ buff' = Part(op, 0, 1) /\ up' = <<>>
           /\ UNCHANGED <<windows, userType, length, sent, down, faults>>
  <1>1. Single(op) /\ op \notin Bytes /\ 0 \in Nat /\ Block \in Nat
    BY WireAssumption DEF Single, Requests, Batches, Bytes, WireAssumption
  <1>2. up # <<>> BY <1>1, MsgAfterNothing
  <1>3. \A chunk \in Arrivals(up, Block) :
            Parses(chunk) /\ chunk[1] = Part(op, 0, 1) /\ Rest(up, chunk) = <<>>
    BY <1>1, SingleArrives, MsgParses
  <1>4. Part(op, 0, 1).op = op BY DEF Part
  <1>5. ~ListenFails BY <1>2, <1>3, <1>4 DEF ListenFails, RecvFails
  <1> QED BY <1>2, <1>3, <1>5, ServerAt DEF Listen, RecvFails

\* With nothing to read it waits.
LEMMA ListensInVain ==
    ASSUME server = "loop", up = <<>>, ~Gone
    PROVE  ~ServerStep
  <1>1. Arrivals(up, Block) = {}
    BY NothingArrives, WireAssumption DEF WireAssumption
  <1> QED BY <1>1, ServerAt DEF Listen, ListenFails, RecvFails

\* The thread in AdminLogin or GetLog gets the message it waits for.
LEMMA HandlerHears ==
    ASSUME ServerStep, server \in {"answer", "ready"},
           NEW val \in Nat, up = Msg(server, val)
    PROVE  /\ ~HandlerFails /\ up # <<>>
           /\ \A chunk \in Arrivals(up, Block) :
                  /\ Parses(chunk) /\ chunk[1].op = server /\ chunk[1].val = val
                  /\ Rest(up, chunk) = <<>>
  <1>1. Single(server) /\ server \notin Bytes /\ Block \in Nat
    BY WireAssumption DEF Single, Batches, Bytes, WireAssumption
  <1>2. up # <<>> BY <1>1, MsgAfterNothing
  <1>3. \A chunk \in Arrivals(up, Block) :
            Parses(chunk) /\ chunk[1] = Part(server, val, 1) /\ Rest(up, chunk) = <<>>
    BY <1>1, SingleArrives, MsgParses
  <1>4. Part(server, val, 1).op = server /\ Part(server, val, 1).val = val BY DEF Part
  <1>5. ~HandlerFails BY <1>2, <1>3, <1>4 DEF HandlerFails, RecvFails
  <1> QED BY <1>2, <1>3, <1>4, <1>5

\* It waits when the client has not sent it yet.
LEMMA HandlerWaits ==
    ASSUME server \in {"answer", "ready"}, up = <<>>, ~Gone
    PROVE  ~ServerStep
  <1>1. Arrivals(up, Block) = {}
    BY NothingArrives, WireAssumption DEF WireAssumption
  <1> QED BY <1>1, ServerAt DEF AdminAnswer, LogReady, HandlerFails, RecvFails

\* The handlers go by the request in the buffer.
LEMMA Dispatches ==
    ASSUME ServerStep, server = "dispatch"
    PROVE  /\ buff.op = "C_ADMIN_LOGIN" => AdminLogin
           /\ buff.op = "C_GET_REQUEST" => GetRequest
           /\ buff.op = "C_GET_LOG" => GetLog
           /\ buff.op = "C_LOGOUT" => Logout
           /\ buff.op \in Batches => ProcessBatch
  BY ServerAt DEF AdminLogin, GetRequest, GetLog, Logout, ProcessBatch, Dispatched, Batches

LEMMA IdleWaits ==
    ASSUME client = "idle", AtIdle
    PROVE  ~ServerStep
  BY ListensInVain DEF AtIdle, Quiet, Gone

LEMMA ChallengeServed ==
    ASSUME client = "challenge", AtChallenge, ServerStep
    PROVE  AtChallenge' /\ server' # "stopped" /\ faults' = faults
  <1>1. window' = window /\ client' = client /\ ~Gone BY ServerAt DEF windows, Gone
  <1>2. CASE up = Msg("C_ADMIN_LOGIN", 0) /\ server = "loop" /\ down = <<>>
    BY <1>1, <1>2, Listens DEF AtChallenge, Asked, Requests, Batches
  <1>3. CASE up = <<>> /\ down = <<>> /\ server = "dispatch" /\ buff = Part("C_ADMIN_LOGIN", 0, 1)
    <2>1. AdminLogin BY <1>3, Dispatches DEF Part
    <2> QED BY <1>1, <1>3, <2>1, MsgAfterNothing
        DEF AdminLogin, AtChallenge, Answered, Reply, Back, ServerRest
  <1>4. ~(server \in {"loop", "answer"} /\ up = <<>>)
    BY <1>1, ListensInVain, HandlerWaits
  <1> QED BY <1>2, <1>3, <1>4 DEF AtChallenge, Asked, Answered

LEMMA ResultServed ==
    ASSUME client = "result", AtResult, ServerStep
    PROVE  AtResult' /\ server' # "stopped" /\ faults' = faults
  <1>1. window' = window /\ client' = client /\ ~Gone BY ServerAt DEF windows, Gone
  <1>2. CASE userType = 0 /\ up = Msg("answer", 0) /\ down = <<>> /\ server = "answer"
    <2>1. up # <<>> /\ ~HandlerFails /\ \A chunk \in Arrivals(up, Block) : Rest(up, chunk) = <<>>
      BY <1>2, HandlerHears
    <2>2. AdminAnswer BY <1>2, <2>1, ServerAt
    <2>3. AdminTypes \subseteq {1, 2} BY WireAssumption DEF WireAssumption
    <2> QED BY <1>1, <1>2, <2>1, <2>2, <2>3, MsgAfterNothing
        DEF AdminAnswer, AtResult, Answered, Reply, Back, RecvFails
  <1>3. ~(server = "loop" /\ up = <<>>) BY <1>1, ListensInVain
  <1> QED BY <1>2, <1>3 DEF AtResult, Answered

LEMMA RefreshServed ==
    ASSUME client = "refresh", AtRefresh, ServerStep, server' # "stopped"
    PROVE  AtRefresh'
  <1>1. window' = window /\ client' = client /\ ~Gone BY ServerAt DEF windows, Gone
  <1>2. CASE server = "loop" /\ \E op \in Batches, n \in Nat : up = Msg(op, n)
    <2>1. PICK op \in Batches, n \in Nat : up = Msg(op, n) BY <1>2
    <2>2. Listen BY <1>2, ServerAt DEF ListenFails, ServerStops
    <2>3. PICK chunk \in Arrivals(up, Block) :
              Parses(chunk) /\ buff' = chunk[1] /\ up' = Rest(up, chunk)
      BY <1>1, <2>2 DEF Listen, RecvFails
    <2>4. Block \in Nat BY WireAssumption DEF WireAssumption
    <2>5. buff' = Part(op, n, 1) /\ up' = <<>> BY <2>1, <2>3, <2>4, WholeArrives
    <2>6. buff'.op \in Batches BY <2>5 DEF Part
    <2> QED BY <1>1, <2>2, <2>5, <2>6 DEF Listen, AtRefresh
  <1>3. CASE server = "dispatch" /\ buff.op \in Batches /\ up = <<>>
    <2>1. ProcessBatch BY <1>3, Dispatches
    <2> QED BY <1>1, <1>3, <2>1 DEF ProcessBatch, AtRefresh, Back, ServerRest
  <1>4. ~(server = "loop" /\ up = <<>>) BY <1>1, ListensInVain
  <1> QED BY <1>2, <1>3, <1>4 DEF AtRefresh

LEMMA ListServed ==
    ASSUME client = "list", AtList, ServerStep
    PROVE  /\ server' # "stopped" => AtList'
           /\ server' = "stopped" => "pressed" \in faults
  <1>1. window' = window /\ client' = client /\ ~Gone BY ServerAt DEF windows, Gone
  <1>2. CASE up = Msg("C_GET_REQUEST", 0) /\ server = "loop" /\ down = <<>>
    BY <1>1, <1>2, Listens DEF AtList, Asked, Requests, Batches
  <1>3. CASE up = <<>> /\ down = <<>> /\ server = "dispatch" /\ buff = Part("C_GET_REQUEST", 0, 1)
    <2>1. GetRequest /\ buff.op = "C_GET_REQUEST" BY <1>3, Dispatches DEF Part
    <2>2. userType = 1 BY DEF AtList
    <2>3. PICK rows \in 0..MaxRows :
              /\ Reply(Msg("list", rows))
              /\ faults' = IF Units("list", rows) > 2 * Block
                           THEN faults \cup {"tooLong"} ELSE faults
      BY <2>1, <2>2 DEF GetRequest
    <2>4. rows \in Nat BY WireAssumption DEF WireAssumption
    <2>5. down' = Msg("list", rows) BY <1>1, <1>3, <2>3, <2>4, MsgAfterNothing DEF Reply
    <2>6. Answered("list", rows, "loop")'
      BY <1>3, <2>1, <2>5 DEF Answered, GetRequest, Back
    <2>7. Units("list", rows) > 2 * Block => "tooLong" \in faults' BY <2>3
    <2>8. window' = "security" /\ userType' = 1 /\ buff'.op = "C_GET_REQUEST"
          /\ server' = "loop"
      BY <1>1, <2>1 DEF GetRequest, AtList, Back
    <2> QED BY <2>4, <2>6, <2>7, <2>8 DEF AtList
  <1>4. CASE /\ "pressed" \in faults /\ down = <<>> /\ server = "loop"
             /\ \E op \in Batches, n \in Nat : up = Msg(op, n) \o Msg("C_GET_REQUEST", 0)
    <2>1. PICK op \in Batches, n \in Nat : up = Msg(op, n) \o Msg("C_GET_REQUEST", 0) BY <1>4
    <2>2. CASE server' = "stopped" BY <1>4, <2>2
    <2>3. CASE server' # "stopped"
      <3>1. Listen BY <1>4, <2>3, ServerAt DEF ListenFails, ServerStops
      <3>2. PICK chunk \in Arrivals(up, Block) :
                Parses(chunk) /\ buff' = chunk[1] /\ up' = Rest(up, chunk)
        BY <1>1, <3>1 DEF Listen, RecvFails
      <3>3. Block \in Nat /\ op \in Ops /\ "C_GET_REQUEST" \in Ops
        BY WireAssumption DEF WireAssumption, Ops, Requests
      <3>4. buff' = Part(op, n, 1) /\ up' = Msg("C_GET_REQUEST", 0)
        BY <2>1, <3>2, <3>3, FirstArrives
      <3>5. buff'.op \in Batches BY <3>4 DEF Part
      <3> QED BY <1>1, <1>4, <2>3, <3>1, <3>4, <3>5 DEF Listen, AtList
    <2> QED BY <2>2, <2>3
  <1>5. CASE /\ "pressed" \in faults /\ down = <<>> /\ server = "dispatch"
             /\ buff.op \in Batches /\ up = Msg("C_GET_REQUEST", 0)
    <2>1. ProcessBatch BY <1>5, Dispatches
    <2> QED BY <1>1, <1>5, <2>1 DEF ProcessBatch, AtList, Asked, Back, ServerRest
  <1>6. ~(server = "loop" /\ up = <<>>) BY <1>1, ListensInVain
  <1> QED BY <1>2, <1>3, <1>4, <1>5, <1>6 DEF AtList, Asked, Answered

LEMMA HeaderServed ==
    ASSUME client = "header", AtHeader, ServerStep
    PROVE  AtHeader' /\ server' # "stopped" /\ faults' = faults
  <1>1. window' = window /\ client' = client /\ ~Gone BY ServerAt DEF windows, Gone
  <1>2. CASE up = Msg("C_GET_LOG", 0) /\ server = "loop" /\ down = <<>>
    BY <1>1, <1>2, Listens DEF AtHeader, Asked, Requests, Batches
  <1>3. CASE up = <<>> /\ down = <<>> /\ server = "dispatch" /\ buff = Part("C_GET_LOG", 0, 1)
    <2>1. GetLog BY <1>3, Dispatches DEF Part
    <2>2. userType = 2 BY DEF AtHeader
    <2>3. PICK lines \in 1..MaxLines :
              /\ length' = 3 * lines /\ sent' = 0 /\ server' = "ready"
              /\ Reply(Msg("header", 3 * lines))
      BY <2>1, <2>2 DEF GetLog
    <2>4. 3 * lines \in Nat /\ 3 * lines > 0 BY WireAssumption DEF WireAssumption
    <2>5. down' = Msg("header", length') BY <1>1, <1>3, <2>3, <2>4, MsgAfterNothing DEF Reply
    <2> QED BY <1>1, <1>3, <2>1, <2>2, <2>3, <2>4, <2>5
        DEF GetLog, ServerRest, AtHeader, Answered
  <1>4. ~(server = "ready" /\ up = <<>>) BY <1>1, HandlerWaits
  <1> QED BY <1>2, <1>3, <1>4 DEF AtHeader, Asked, Answered

LEMMA ClosedServed ==
    ASSUME client = "closed", AtClosed, ServerStep
    PROVE  AtClosed' /\ server' # "stopped" /\ faults' = faults
  <1>1. client' = client /\ Gone BY ServerAt DEF windows, Gone
  <1>2. CASE up = Msg("C_LOGOUT", 0) /\ server = "loop" /\ down = <<>>
    BY <1>1, <1>2, Listens DEF AtClosed, Asked, Requests, Batches
  <1>3. CASE up = <<>> /\ down = <<>> /\ server = "dispatch" /\ buff = Part("C_LOGOUT", 0, 1)
    <2>1. Logout BY <1>3, Dispatches DEF Part
    <2> QED BY <1>1, <1>3, <2>1 DEF Logout, AtClosed, ServerRest
  <1>4. server # "closed" BY ServerAt
  <1> QED BY <1>2, <1>3, <1>4 DEF AtClosed, Asked

LEMMA DeadServed ==
    ASSUME client = "dead", AtDead, ServerStep, faults \subseteq faults'
    PROVE  /\ server' # "stopped" => AtDead'
           /\ server' = "stopped" => "vanished" \in faults
  <1>1. client' = client /\ Gone BY ServerAt DEF windows, Gone
  <1>2. CASE "vanished" \in faults BY <1>2 DEF AtDead
  <1>3. CASE /\ up = <<>> /\ down = <<>> /\ buff.op = "C_GET_REQUEST"
             /\ "tooLong" \in faults /\ server = "loop"
    <2>1. Arrivals(up, Block) = {}
      BY <1>3, NothingArrives, WireAssumption DEF WireAssumption
    <2>2. buff # Nothing BY <1>3 DEF Nothing
    <2>3. Listen BY <1>3, <2>1, <2>2, ServerAt DEF ListenFails
    <2> QED BY <1>1, <1>3, <2>1, <2>3 DEF Listen, AtDead
  <1>4. CASE /\ up = <<>> /\ down = <<>> /\ buff.op = "C_GET_REQUEST"
             /\ "tooLong" \in faults /\ server = "dispatch"
    <2>1. GetRequest BY <1>4, Dispatches
    <2>2. down' = <<>> BY <1>1, <1>4, <2>1 DEF GetRequest, Reply
    <2> QED BY <1>1, <1>4, <2>1, <2>2 DEF GetRequest, AtDead, Back
  <1> QED BY <1>2, <1>3, <1>4 DEF AtDead

\* The piece of the log that is one block.
LEMMA BlockSent ==
    ASSUME NEW size \in Nat, NEW k \in Nat, k < BlockCount(size)
    PROVE  LET block == SubSeq(LogFile(size), k * Block + 1, Least((k + 1) * Block, size))
           IN  /\ block \in Seq(Unit)
               /\ Len(block) = Least((k + 1) * Block, size) - k * Block
               /\ Least(k * Block, size) = k * Block
  <1>1. /\ k * Block \in Nat /\ k * Block < size
        /\ (k + 1) * Block = k * Block + Block /\ Block \in Nat \ {0}
    BY BlocksCover, ProductGrows, WireAssumption DEF WireAssumption
  <1>2. LogFile(size) \in Seq(Unit) /\ Len(LogFile(size)) = size
    <2>1. \A i \in 1..size : Line[((i - 1) % 3) + 1] \in Unit
      BY DEF Line, Byte, Unit, Ops, Bytes
    <2> DEFINE f == [i \in 1..size |-> Line[((i - 1) % 3) + 1]]
    <2>2. f \in Seq(Unit) /\ Len(f) = size BY <2>1
    <2> QED BY <2>2 DEF LogFile
  <1> DEFINE file == LogFile(size)
             a == k * Block
             b == Least((k + 1) * Block, size)
  <1>3. a \in Nat /\ b \in Nat /\ a < b /\ b <= size BY <1>1 DEF Least
  <1>4. Least(a, size) = a BY <1>1 DEF Least
  <1> HIDE DEF file, a, b
  <1>5. SubSeq(file, a + 1, b) \in Seq(Unit) /\ Len(SubSeq(file, a + 1, b)) = b - a
    BY <1>2, <1>3 DEF file
  <1> QED BY <1>4, <1>5 DEF file, a, b

LEMMA BlocksServed ==
    ASSUME WireKinds, client = "blocks", AtBlocks, ServerStep
    PROVE  AtBlocks' /\ server' # "stopped" /\ faults' = faults
  <1>1. window' = window /\ client' = client /\ left' = left /\ ~Gone
    BY ServerAt DEF windows, Gone
  <1>2. /\ length \in Nat /\ length > 0 /\ sent \in Nat /\ left \in Nat
        /\ down \in Seq(Unit)
    BY DEF WireKinds, AtBlocks
  <1>3. BlockCount(length) \in Nat /\ BlockCount(length) > 0 /\ Block \in Nat
    <2>1. 0 * Block = 0 /\ Block \in Nat BY WireAssumption DEF WireAssumption
    <2> QED BY <1>2, <2>1, BlocksCover
  <1>4. CASE /\ up = Msg("ready", 1) /\ down = <<>> /\ server = "ready"
             /\ sent = 0 /\ left = BlockCount(length)
    <2>1. up # <<>> /\ LogReady
      BY <1>4, HandlerHears, ServerAt
    <2>2. up' = <<>> /\ server' = "sending"
      BY <1>3, <1>4, <2>1, HandlerHears DEF LogReady
    <2>3. /\ UNCHANGED <<sent, left, down, faults, userType>>
          /\ length' \in Grown(length)
      BY <1>1, <2>1 DEF LogReady
    <2>9. /\ length' \in Nat /\ length' > 0
          /\ BlockCount(length') = BlockCount(length)
      BY <1>2, <2>3, GrownKeeps
    <2>4. /\ Len(down') = Least(sent' * Block, length') - (BlockCount(length') - left') * Block
          /\ left' \in 1..BlockCount(length') /\ sent' = 0 /\ BlockCount(length') - left' = 0
      <3>1. left' = BlockCount(length') /\ sent' = 0 /\ down' = <<>>
        BY <1>1, <1>4, <2>3, <2>9
      <3>2. BlockCount(length') - left' = 0 BY <1>3, <2>9, <3>1
      <3>3. 0 * Block = 0 BY <1>3
      <3>4. Least(0, length') - 0 = 0 BY <2>9 DEF Least
      <3> QED BY <1>3, <2>9, <3>1, <3>2, <3>3, <3>4
    <2>5. /\ sent' \in (BlockCount(length') - left')..BlockCount(length')
          /\ sent' # BlockCount(length')
      BY <1>3, <2>3, <2>4, <2>9
    <2> QED BY <1>1, <1>2, <1>4, <2>2, <2>3, <2>4, <2>5, <2>9 DEF AtBlocks
  <1>5. CASE up = <<>> /\ server = "sending"
    <2>1. LogBlock BY <1>5, ServerAt
    <2>2. /\ left \in 1..BlockCount(length) /\ sent # BlockCount(length)
          /\ sent \in (BlockCount(length) - left)..BlockCount(length)
          /\ Len(down) = Least(sent * Block, length) - (BlockCount(length) - left) * Block
      BY <1>5, MsgAfterNothing DEF AtBlocks
    <2> DEFINE block == SubSeq(LogFile(length), sent * Block + 1, Least((sent + 1) * Block, length))
    <2>3. sent < BlockCount(length) BY <1>2, <1>3, <2>2
    <2>4. /\ block \in Seq(Unit)
          /\ Len(block) = Least((sent + 1) * Block, length) - sent * Block
          /\ Least(sent * Block, length) = sent * Block
      BY <1>2, <2>3, BlockSent
    <2>5. /\ down' = down \o block /\ sent' = sent + 1 /\ up' = <<>>
          /\ server' = IF sent + 1 >= BlockCount(length) THEN "loop" ELSE "sending"
          /\ UNCHANGED <<length, faults, userType>>
      BY <1>1, <1>5, <2>1 DEF LogBlock, Reply, ServerRest
    <2> HIDE DEF block
    <2>6. Len(down') = Len(down) + Len(block) BY <1>2, <2>4, <2>5
    <2>7. Len(down') = Least((sent + 1) * Block, length) - (BlockCount(length) - left) * Block
      <3> DEFINE a == sent * Block
                 b == Least((sent + 1) * Block, length)
                 c == (BlockCount(length) - left) * Block
      <3>1. a \in Nat /\ c \in Nat /\ b \in Nat
        BY <1>2, <1>3, <2>2, ProductGrows DEF Least
      <3>2. Len(down) = a - c /\ Len(block) = b - a BY <2>2, <2>4
      <3> HIDE DEF a, b, c
      <3>3. Len(down') = b - c BY <2>6, <3>1, <3>2
      <3> QED BY <3>3 DEF b, c
    <2>8. server' = "loop" <=> sent + 1 = BlockCount(length) BY <1>2, <1>3, <2>3, <2>5
    <2> QED BY <1>1, <1>2, <1>3, <2>2, <2>3, <2>5, <2>7, <2>8 DEF AtBlocks
  <1>6. ~(server = "loop" /\ up = <<>>) BY <1>1, ListensInVain
  <1> QED BY <1>4, <1>5, <1>6 DEF AtBlocks

-----------------------------------------------------------------------------
(* The steps of the windows.                                               *)

LEMMA PhaseAt ==
    ASSUME Phase
    PROVE  /\ client = "idle" => AtIdle
           /\ client = "challenge" => AtChallenge
           /\ client = "result" => AtResult
           /\ client = "refresh" => AtRefresh
           /\ client = "list" => AtList
           /\ client = "header" => AtHeader
           /\ client = "blocks" => AtBlocks
           /\ client = "closed" => AtClosed
           /\ client = "dead" => AtDead
  BY DEF Phase

\* A person at an idle window starts an exchange or leaves.
PersonStep ==
    \/ StartLogin \/ SwitchTable \/ StartDownload \/ Close \/ Vanish
    \/ \E op \in Batches, n \in 1..shown : Press(op, n)

LEMMA PersonActs ==
    ASSUME WireKinds, Calm, Phase, PersonStep
    PROVE  /\ Phase'
           /\ UNCHANGED server
           /\ client' = "dead" => "vanished" \in faults'
  <1>1. client = "idle" => AtIdle /\ Quiet BY DEF Phase, AtIdle
  <1>2. CASE StartLogin
    <2>1. up' = Msg("C_ADMIN_LOGIN", 0) BY <1>1, <1>2, MsgAfterNothing DEF StartLogin, Send, Quiet
    <2> QED BY <1>1, <1>2, <2>1
        DEF StartLogin, Phase, AtChallenge, Asked, AtIdle, Quiet, threads
  <1>3. CASE SwitchTable
    <2>1. up' = Msg("C_GET_REQUEST", 0) BY <1>1, <1>3, MsgAfterNothing DEF SwitchTable, Send, Quiet
    <2> QED BY <1>1, <1>3, <2>1
        DEF SwitchTable, Phase, AtList, Asked, AtIdle, Quiet, threads
  <1>4. CASE StartDownload
    <2>1. up' = Msg("C_GET_LOG", 0) BY <1>1, <1>4, MsgAfterNothing DEF StartDownload, Send, Quiet
    <2> QED BY <1>1, <1>4, <2>1
        DEF StartDownload, Phase, AtHeader, Asked, AtIdle, Quiet, threads
  <1>5. CASE \E op \in Batches, n \in 1..shown : Press(op, n)
    <2>1. PICK op \in Batches, n \in 1..shown : Press(op, n) BY <1>5
    <2>2. n \in Nat BY DEF WireKinds
    <2>3. up' = Msg(op, n) BY <1>1, <2>1, <2>2, MsgAfterNothing DEF Press, Send, Quiet
    <2> QED BY <1>1, <2>1, <2>2, <2>3
        DEF Press, Phase, AtRefresh, AtIdle, Quiet, threads
  <1>6. CASE Close
    <2>1. up' = Msg("C_LOGOUT", 0) /\ down' = <<>>
      BY <1>1, <1>6, MsgAfterNothing DEF Close, Leave, Quiet
    <2> QED BY <1>1, <1>6, <2>1
        DEF Close, Leave, Phase, AtClosed, Asked, Quiet, threads
  <1>7. CASE Vanish
    BY <1>7 DEF Vanish, Leave, Phase, AtDead, threads
  <1> QED BY <1>2, <1>3, <1>4, <1>5, <1>6, <1>7 DEF PersonStep

LEMMA RefreshActs ==
    ASSUME Calm, Phase, Refresh
    PROVE  Phase' /\ server' = server /\ client' = "list"
  <1>1. AtRefresh BY DEF Refresh, Phase
  <1>2. /\ up' = up \o Msg("C_GET_REQUEST", 0) /\ client' = "list"
        /\ UNCHANGED <<window, server, buff, userType, down, faults>>
    BY DEF Refresh, Send, threads
  <1>3. CASE up = <<>>
    <2>1. up' = Msg("C_GET_REQUEST", 0) BY <1>2, <1>3, MsgAfterNothing
    <2>2. ~\E op \in Batches, n \in Nat : up = Msg(op, n) BY <1>3, MsgAfterNothing
    <2> QED BY <1>1, <1>2, <1>3, <2>1, <2>2 DEF AtRefresh, Phase, AtList, Asked
  <1>4. CASE up # <<>>
    <2>1. PICK op \in Batches, n \in Nat : up = Msg(op, n) /\ server = "loop"
      BY <1>1, <1>4 DEF AtRefresh
    <2>2. up' = Msg(op, n) \o Msg("C_GET_REQUEST", 0) BY <1>2, <2>1
    <2> QED BY <1>1, <1>2, <2>1, <2>2 DEF AtRefresh, Phase, AtList
  <1> QED BY <1>3, <1>4

\* With nothing to read the client waits.
LEMMA ClientWaits ==
    ASSUME down = <<>>, server # "stopped"
    PROVE  ~ClientReceives
  <1>1. ClientBuffer \in Nat /\ Block \in Nat
    BY WireAssumption DEF WireAssumption, ClientBuffer
  <1>2. Arrivals(down, ClientBuffer) = {} /\ Arrivals(down, Block) = {}
    BY <1>1, NothingArrives
  <1> QED BY <1>2 DEF ClientReceives, Receive, Misread, ReceiveBlock, BlocksEnd

\* A message of one unit that the code can go on with is not misread.
LEMMA ClientHears ==
    ASSUME NEW op \in {"S_FAILED", "S_NEXTSTEP", "S_ACCESS", "header"}, op \in Understood,
           NEW val \in Nat, down = Msg(op, val)
    PROVE  /\ ~Misread
           /\ \A chunk \in Arrivals(down, ClientBuffer) :
                  chunk[1] = Part(op, val, 1) /\ Rest(down, chunk) = <<>>
  <1>1. ClientBuffer \in Nat
    BY WireAssumption DEF WireAssumption, ClientBuffer
  <1>2. down # <<>> BY MsgAfterNothing
  <1>3. \A chunk \in Arrivals(down, ClientBuffer) :
            Parses(chunk) /\ chunk[1] = Part(op, val, 1) /\ Rest(down, chunk) = <<>>
    <2>1. Single(op) /\ op \notin Bytes BY DEF Single, Batches, Bytes
    <2> QED BY <1>1, <2>1, SingleArrives, MsgParses
  <1>4. Part(op, val, 1).op = op BY DEF Part
  <1> QED BY <1>2, <1>3, <1>4 DEF Misread

\* Where the steps of a Receive are possible.
LEMMA ReceivesAt ==
    ASSUME ClientReceives, server # "stopped"
    PROVE  /\ down # <<>>
           /\ client \in {"challenge", "result", "list", "header"} => Receive \/ Misread
           /\ client = "blocks" => ReceiveBlock
           /\ client \in {"challenge", "result", "list", "header", "blocks"}
  BY ClientWaits DEF ClientReceives, Receive, Misread, ReceiveBlock, BlocksEnd, Understood

LEMMA ChallengeReceived ==
    ASSUME server # "stopped", AtChallenge, client = "challenge", ClientReceives
    PROVE  /\ \/ client' = "idle" /\ AtIdle'
              \/ client' = "result" /\ AtResult'
           /\ UNCHANGED <<window, server>>
  <1>1. Understood = {"S_FAILED", "S_NEXTSTEP"} BY DEF Understood
  <1>2. CASE Answered("S_FAILED", 0, "loop")
    <2>1. ~Misread /\ \A chunk \in Arrivals(down, ClientBuffer) :
                    chunk[1] = Part("S_FAILED", 0, 1) /\ Rest(down, chunk) = <<>>
      <3>1. "S_FAILED" \in Understood /\ down = Msg("S_FAILED", 0) BY <1>1, <1>2 DEF Answered
      <3> QED BY <3>1, ClientHears
    <2>2. GotFailed /\ down' = <<>> /\ UNCHANGED threads
      BY <2>1, ReceivesAt DEF Receive, Got, Part
    <2> QED BY <1>2, <2>2
        DEF GotFailed, AtChallenge, Answered, AtIdle, Quiet, threads
  <1>3. CASE Answered("S_NEXTSTEP", 0, "answer")
    <2>1. ~Misread /\ \A chunk \in Arrivals(down, ClientBuffer) :
                    chunk[1] = Part("S_NEXTSTEP", 0, 1) /\ Rest(down, chunk) = <<>>
      <3>1. "S_NEXTSTEP" \in Understood /\ down = Msg("S_NEXTSTEP", 0) BY <1>1, <1>3 DEF Answered
      <3> QED BY <3>1, ClientHears
    <2>2. GotChallenge /\ down' = <<>> /\ UNCHANGED threads
      BY <2>1, ReceivesAt DEF Receive, Got, Part
    <2>3. up' = Msg("answer", 0)
      BY <1>3, <2>2, MsgAfterNothing DEF GotChallenge, Send, Answered
    <2> QED BY <1>3, <2>2, <2>3
        DEF GotChallenge, AtChallenge, Answered, AtResult, threads
  <1>4. ~Asked("C_ADMIN_LOGIN") BY ReceivesAt DEF Asked
  <1> QED BY <1>2, <1>3, <1>4 DEF AtChallenge

LEMMA ResultReceived ==
    ASSUME server # "stopped", AtResult, client = "result", ClientReceives
    PROVE  /\ \/ client' = "idle" /\ window' \in {"main", "log"} /\ AtIdle'
              \/ client' = "list" /\ window' = "security" /\ AtList'
           /\ UNCHANGED server
  <1>1. down # <<>> BY ReceivesAt
  <1>2. Understood = {"S_FAILED", "S_ACCESS"} BY DEF Understood
  <1>3. CASE userType = 0 /\ Answered("S_FAILED", 0, "loop")
    <2>1. ~Misread /\ \A chunk \in Arrivals(down, ClientBuffer) :
                    chunk[1] = Part("S_FAILED", 0, 1) /\ Rest(down, chunk) = <<>>
      <3>1. "S_FAILED" \in Understood /\ down = Msg("S_FAILED", 0) BY <1>2, <1>3 DEF Answered
      <3> QED BY <3>1, ClientHears
    <2>2. GotFailed /\ down' = <<>> /\ UNCHANGED threads
      BY <2>1, ReceivesAt DEF Receive, Got, Part
    <2> QED BY <1>3, <2>2
        DEF GotFailed, AtResult, Answered, AtIdle, Quiet, threads
  <1>4. CASE userType \in {1, 2} /\ Answered("S_ACCESS", userType, "loop")
    <2>1. userType \in Nat BY <1>4
    <2>2. ~Misread /\ \A chunk \in Arrivals(down, ClientBuffer) :
                    chunk[1] = Part("S_ACCESS", userType, 1) /\ Rest(down, chunk) = <<>>
      <3>1. "S_ACCESS" \in Understood /\ down = Msg("S_ACCESS", userType) BY <1>2, <1>4, <2>1 DEF Answered
      <3> QED BY <2>1, <3>1, ClientHears
    <2>3. GotAccess(userType) /\ down' = <<>> /\ UNCHANGED threads
      BY <2>2, ReceivesAt DEF Receive, Got, Part
    <2>4. CASE userType = 1
      <3>1. up' = Msg("C_GET_REQUEST", 0)
        BY <1>4, <2>3, <2>4, MsgAfterNothing DEF GotAccess, Send, Answered
      <3> QED BY <1>4, <2>3, <2>4, <3>1
          DEF GotAccess, Answered, AtList, Asked, threads
    <2>5. CASE userType = 2
      BY <1>4, <2>3, <2>5 DEF GotAccess, Answered, AtIdle, Quiet, threads
    <2> QED BY <1>4, <2>4, <2>5
  <1> QED BY <1>1, <1>3, <1>4 DEF AtResult

LEMMA ListReceived ==
    ASSUME Calm, Phase, client = "list", ClientReceives
    PROVE  /\ Calm' => Phase'
           /\ UNCHANGED server
           /\ client' = "dead" => faults' \cap {"split", "tooLong"} # {}
  <1>1. AtList /\ server # "stopped" /\ down # <<>> /\ (Receive \/ Misread)
    BY ReceivesAt DEF Phase, Calm
  <1>2. Understood = {"list"} BY DEF Understood
  <1>3. ClientBuffer = 2 * Block /\ 2 * Block \in Nat
    BY WireAssumption DEF WireAssumption, ClientBuffer
  <1>4. /\ window = "security" /\ userType = 1 /\ up = <<>> /\ server = "loop"
        /\ buff.op = "C_GET_REQUEST"
    BY <1>1 DEF AtList, Asked, Answered
  <1>5. PICK rows \in Nat : /\ down = Msg("list", rows)
                            /\ Units("list", rows) > 2 * Block => "tooLong" \in faults
    BY <1>1 DEF AtList, Asked, Answered
  <1>6. CASE Receive
    <2>1. PICK chunk \in Arrivals(down, ClientBuffer) :
              /\ Parses(chunk) /\ chunk[1].op \in Understood
              /\ down' = Rest(down, chunk) /\ Got(chunk[1]) /\ UNCHANGED threads
      BY <1>6 DEF Receive
    <2>2. chunk[1] = Part("list", rows, 1) /\ down' = <<>>
      BY <1>3, <1>5, <2>1, WholeArrives
    <2>3. GotList(rows) BY <2>1, <2>2 DEF Got, Part
    <2> QED BY <1>4, <2>1, <2>2, <2>3 DEF GotList, Phase, AtIdle, Quiet, threads
  <1>7. CASE Misread
    <2>1. /\ client' = "dead" /\ down' = <<>> /\ up' \in {up \o <<>>, <<>>}
          /\ UNCHANGED <<server, buff>>
      BY <1>7 DEF Misread, Leave, threads
    <2>2. up' = <<>> BY <1>4, <2>1
    <2>3. PICK chunk \in Arrivals(down, ClientBuffer) :
              /\ ~Parses(chunk) \/ chunk[1].op \notin Understood
              /\ faults' = faults \cup Torn(down, chunk, ClientBuffer)
      BY <1>1, <1>7 DEF Misread
    <2>4. CASE Torn(down, chunk, ClientBuffer) = {}
      <3>1. ~(Units("list", rows) <= 2 * Block)
        BY <1>2, <1>3, <1>5, <2>3, <2>4, ListArrives
      <3>2. Units("list", rows) \in Nat BY MsgSeq
      <3>3. "tooLong" \in faults BY <1>3, <1>5, <3>1, <3>2
      <3> QED BY <1>4, <2>1, <2>2, <2>3, <3>3 DEF Phase, AtDead
    <2>5. CASE Torn(down, chunk, ClientBuffer) # {}
      <3>1. "split" \in faults' BY <2>3, <2>5 DEF Torn
      <3> QED BY <2>1, <3>1 DEF Calm
    <2> QED BY <2>4, <2>5
  <1> QED BY <1>1, <1>6, <1>7

LEMMA HeaderReceived ==
    ASSUME WireKinds, Calm, Phase, client = "header", ClientReceives
    PROVE  /\ Calm' => Phase'
           /\ UNCHANGED server /\ client' # "dead"
  <1>1. AtHeader /\ server # "stopped" /\ down # <<>> BY ReceivesAt DEF Phase, Calm
  <1>2. Understood = {"header"} /\ length \in Nat BY DEF Understood, WireKinds
  <1>3. length > 0 /\ sent = 0 /\ Answered("header", length, "ready")
    BY <1>1 DEF AtHeader, Asked
  <1>4. ~Misread /\ \A chunk \in Arrivals(down, ClientBuffer) :
                  chunk[1] = Part("header", length, 1) /\ Rest(down, chunk) = <<>>
    <2>1. "header" \in Understood /\ down = Msg("header", length) BY <1>2, <1>3 DEF Answered
    <2> QED BY <1>2, <2>1, ClientHears
  <1>5. down' = <<>> /\ UNCHANGED threads /\ \E opens \in BOOLEAN :
            /\ GotHeader(length, opens)
            /\ faults' = IF opens THEN faults ELSE faults \cup {"notOpened"}
    BY <1>1, <1>4, ReceivesAt DEF Receive, Got, Part
  <1>6. up' = Msg("ready", 1)
    BY <1>3, <1>5, MsgAfterNothing DEF GotHeader, Send, Answered
  <1>7. BlockCount(length) > 0
    <2>1. 0 * Block = 0 BY WireAssumption DEF WireAssumption
    <2> QED BY <1>2, <1>3, <2>1, BlocksCover
  <1>8. CASE GotHeader(length, TRUE)
    <2>1. /\ client' = "blocks" /\ left' = BlockCount(length)
          /\ UNCHANGED <<window, server, userType, length, sent>>
      BY <1>5, <1>7, <1>8 DEF GotHeader, threads
    <2> QED BY <1>1, <1>3, <1>5, <1>6, <2>1 DEF AtHeader, Answered, Phase, AtBlocks
  <1>9. CASE faults' = faults \cup {"notOpened"} /\ GotHeader(length, FALSE)
    BY <1>5, <1>9 DEF Calm, GotHeader, threads
  <1> QED BY <1>5, <1>8, <1>9

\* A client that counts its reads gets a whole block with each, and with the
\* last one the end of the file.
LEMMA BlocksCounted ==
    ASSUME WireKinds, server # "stopped", AtBlocks, client = "blocks", ReceiveBlock,
           "split" \notin faults'
    PROVE  /\ left > 1 => client' = "blocks" /\ AtBlocks'
           /\ left = 1 => /\ client' = "idle" /\ AtIdle'
                          /\ down' = <<>> /\ sent = BlockCount(length)
           /\ left >= 1
  <1>1. down # <<>> BY ReceivesAt DEF ClientReceives
  <1>2. PICK chunk \in Arrivals(down, Block) :
            down' = Rest(down, chunk) /\ faults' = faults \cup Torn(down, chunk, Block)
    BY DEF ReceiveBlock
  <1>3. /\ left' = left - 1 /\ client' = IF left = 1 THEN "idle" ELSE "blocks"
        /\ UNCHANGED <<window, server, userType, length, sent, up>>
    BY DEF ReceiveBlock, threads
  <1>4. Torn(down, chunk, Block) = {} BY <1>2 DEF Torn
  <1> DEFINE all == BlockCount(length)
             done == all - left
  <1>5. /\ window = "log" /\ userType = 2 /\ length > 0
        /\ up = <<>> /\ server \in {"sending", "loop"}
        /\ server = "loop" <=> sent = all
        /\ left \in 1..all /\ sent \in done..all
        /\ Len(down) = Least(sent * Block, length) - done * Block
    BY <1>1 DEF AtBlocks
  <1>6. /\ length \in Nat /\ sent \in Nat /\ left \in Nat /\ down \in Seq(Unit)
        /\ Block \in Nat \ {0} /\ all \in Nat
    BY BlocksCover, WireAssumption DEF WireKinds, WireAssumption
  <1>7. Len(chunk) = Least(Len(down), Block) /\ Len(down') = Len(down) - Len(chunk)
    BY <1>2, <1>4, <1>6, ArrivesInOrder
  <1>8. down' \in Seq(Unit)
    <2>1. Rest(down, chunk) \in Seq(Unit) BY <1>6, ArrivesInOrder
    <2> QED BY <1>2, <2>1
  <1>9. Len(down) \in Nat /\ Len(down) # 0 BY <1>1, <1>6
  <1>10. done \in Nat /\ done < all /\ done <= sent BY <1>5, <1>6
  <1>11. done * Block \in Nat /\ (done + 1) * Block = done * Block + Block
    BY <1>10, ProductGrows
  <1>12. sent > done
    <2>1. CASE sent = done
      <3>1. Len(down) = Least(done * Block, length) - done * Block BY <1>5, <2>1
      <3>2. Least(done * Block, length) <= done * Block BY <1>6, <1>11 DEF Least
      <3> QED BY <1>6, <1>9, <1>11, <3>1, <3>2 DEF Least
    <2> QED BY <1>6, <1>10, <2>1
  <1>13. CASE left > 1
    <2>1. done + 1 < all /\ (done + 1) * Block < length
      <3>1. done + 1 < all /\ done + 1 \in Nat BY <1>6, <1>10, <1>13
      <3> QED BY <1>6, <3>1, BlocksCover
    <2>2. sent * Block \in Nat /\ (done + 1) * Block <= sent * Block
      BY <1>6, <1>10, <1>12, ProductGrows
    <2>3. Least(sent * Block, length) \in Nat
          /\ Least(sent * Block, length) >= done * Block + Block
      BY <1>6, <1>11, <2>1, <2>2 DEF Least
    <2>4. Len(chunk) = Block
      <3>1. Len(down) >= Block BY <1>5, <1>6, <1>11, <2>3
      <3> QED BY <1>6, <1>7, <1>9, <3>1 DEF Least
    <2>5. Len(down') = Least(sent * Block, length) - (done + 1) * Block
      BY <1>5, <1>6, <1>7, <1>11, <2>3, <2>4
    <2>6. all - left' = done + 1 /\ left' \in 1..all /\ client' = "blocks"
      BY <1>3, <1>5, <1>6, <1>13
    <2>7. sent \in (done + 1)..all BY <1>5, <1>6, <1>10, <1>12
    <2>8. AtBlocks'
      <3> HIDE DEF done
      <3> QED BY <1>3, <1>5, <2>5, <2>6, <2>7 DEF AtBlocks
    <2>9. left # 1 /\ left >= 1 BY <1>6, <1>13
    <2> QED BY <2>6, <2>8, <2>9
  <1>14. CASE left = 1
    <2>1. done + 1 = all /\ ~((done + 1) * Block < length)
      BY <1>6, <1>10, <1>14, BlocksCover
    <2>2. Least(sent * Block, length) <= length /\ Least(sent * Block, length) \in Nat
      BY <1>6, ProductGrows DEF Least
    <2>3. Len(down) <= Block BY <1>5, <1>6, <1>11, <2>1, <2>2
    <2>4. Len(down') = 0 BY <1>6, <1>7, <1>9, <2>3 DEF Least
    <2>5. down' = <<>> BY <1>8, <2>4
    <2>6. sent = all BY <1>5, <1>6, <1>10, <1>12, <2>1
    <2>7. AtIdle' /\ client' = "idle"
      BY <1>3, <1>5, <1>14, <2>5, <2>6 DEF AtIdle, Quiet
    <2> QED BY <1>3, <1>5, <1>14, <2>5, <2>6, <2>7
  <1> QED BY <1>5, <1>6, <1>13, <1>14

LEMMA BlocksReceived ==
    ASSUME WireKinds, Calm, Phase, client = "blocks", ClientReceives
    PROVE  /\ Calm' => Phase'
           /\ UNCHANGED server /\ client' # "dead"
  <1>1. AtBlocks /\ server # "stopped" /\ ReceiveBlock
    BY ReceivesAt DEF Phase, Calm
  <1>2. left \in Nat /\ UNCHANGED server /\ client' \in {"idle", "blocks"}
    BY <1>1 DEF WireKinds, ReceiveBlock, threads
  <1> SUFFICES ASSUME Calm' PROVE Phase'
    BY <1>2
  <1>3. "split" \notin faults' BY DEF Calm
  <1>4. \/ client' = "blocks" /\ AtBlocks'
        \/ client' = "idle" /\ AtIdle'
    BY <1>1, <1>2, <1>3, BlocksCounted
  <1> QED BY <1>4 DEF Phase

-----------------------------------------------------------------------------
(* Types, and that nothing is undone: no fault is forgotten and a process  *)
(* that ended does not come back.                                          *)

LEMMA KindsInit ==
    ASSUME Init
    PROVE  WireKinds
  BY DEF Init, WireKinds, Unit, Ops, Nothing, Faults

LEMMA NoUnits == <<>> \in Seq(Unit)
  OBVIOUS

\* What is sent are units.
LEMMA SendKinds ==
    ASSUME up \in Seq(Unit), NEW m \in Seq(Unit), Send(m)
    PROVE  up' \in Seq(Unit)
  BY DEF Send

LEMMA ReplyKinds ==
    ASSUME down \in Seq(Unit), NEW m \in Seq(Unit), Reply(m)
    PROVE  down' \in Seq(Unit)
  BY NoUnits DEF Reply

LEMMA LeaveKinds ==
    ASSUME up \in Seq(Unit), NEW last \in Seq(Unit), NEW state, Leave(state, last)
    PROVE  up' \in Seq(Unit) /\ down' \in Seq(Unit)
  <1>1. down' = <<>> /\ up' \in {up \o last, <<>>} BY DEF Leave
  <1>2. up \o last \in Seq(Unit) OBVIOUS
  <1> QED BY <1>1, <1>2, NoUnits

\* What is received, and what is left, are streams of units.
LEMMA ArrivalKinds ==
    ASSUME NEW stream \in Seq(Unit), NEW max \in Nat, NEW chunk \in Arrivals(stream, max)
    PROVE  Rest(stream, chunk) \in Seq(Unit) /\ chunk[1] \in Unit
  <1>1. /\ Rest(stream, chunk) \in Seq(Unit)
        /\ chunk \in Seq(Unit) /\ Len(chunk) \in 1..Least(Len(stream), max)
    BY ArrivesInOrder
  <1>2. Len(chunk) \in Nat /\ Len(chunk) >= 1 BY <1>1 DEF Least
  <1> QED BY <1>1, <1>2

LEMMA LogPiece ==
    ASSUME NEW size \in Nat, NEW k \in Nat
    PROVE  SubSeq(LogFile(size), k * Block + 1, Least((k + 1) * Block, size)) \in Seq(Unit)
  <1>1. CASE k < BlockCount(size) BY <1>1, BlockSent
  <1>2. CASE ~(k < BlockCount(size))
    <2> DEFINE a == k * Block
               b == Least((k + 1) * Block, size)
    <2>1. a \in Nat /\ b \in Nat /\ b <= a
      BY <1>2, BlocksCover, ProductGrows DEF Least
    <2>2. \A s : SubSeq(s, a + 1, b) = <<>>
      <3> HIDE DEF a, b
      <3> QED BY <2>1
    <2>3. SubSeq(LogFile(size), a + 1, b) = <<>> BY <2>2
    <2> QED BY <2>3, NoUnits
  <1> QED BY <1>1, <1>2

LEMMA ServerKinds ==
    ASSUME WireKinds, ServerStep
    PROVE  WireKinds'
  <1>1. /\ up \in Seq(Unit) /\ down \in Seq(Unit) /\ buff \in Unit
        /\ length \in Nat /\ sent \in Nat /\ faults \subseteq Faults /\ Block \in Nat
    BY WireAssumption DEF WireKinds, WireAssumption
  <1>2. UNCHANGED <<client, left, shown>> BY ServerAt DEF windows
  <1>3. <<>> \in Seq(Unit) BY NoUnits
  <1>4. \A m \in Seq(Unit) : Reply(m) => down' \in Seq(Unit)
    BY <1>1, ReplyKinds
  <1>5. \A op \in Ops, val \in Nat : Msg(op, val) \in Seq(Unit) BY MsgUnits
  <1>6. \A chunk \in Arrivals(up, Block) : Rest(up, chunk) \in Seq(Unit) /\ chunk[1] \in Unit
    BY <1>1, ArrivalKinds
  <1>7. \A s, chunk, max : faults \cup Torn(s, chunk, max) \subseteq Faults
    BY <1>1 DEF Torn, Faults
  <1>8. /\ up' \in Seq(Unit) /\ down' \in Seq(Unit) /\ buff' \in Unit
        /\ length' \in Nat /\ sent' \in Nat /\ faults' \subseteq Faults
    <2>1. CASE Listen BY <1>1, <1>6, <2>1 DEF Listen
    <2>2. CASE ListenFails BY <1>1, <1>3, <1>7, <2>2 DEF ListenFails, ServerStops
    <2>3. CASE HandlerFails BY <1>1, <1>3, <1>7, <2>3 DEF HandlerFails, ServerStops
    <2>4. CASE AdminLogin
      <3>1. Msg("S_FAILED", 0) \in Seq(Unit) /\ Msg("S_NEXTSTEP", 0) \in Seq(Unit)
        BY <1>5 DEF Ops
      <3> QED BY <1>1, <1>4, <2>4, <3>1 DEF AdminLogin, ServerRest
    <2>5. CASE AdminAnswer
      <3>1. AdminTypes \subseteq Nat BY WireAssumption DEF WireAssumption
      <3>2. Msg("S_FAILED", 0) \in Seq(Unit)
            /\ \A type \in AdminTypes : Msg("S_ACCESS", type) \in Seq(Unit)
        BY <1>5, <3>1 DEF Ops
      <3> QED BY <1>1, <1>4, <1>6, <2>5, <3>2 DEF AdminAnswer
    <2>6. CASE GetRequest
      <3>1. \A rows \in 0..MaxRows : Msg("list", rows) \in Seq(Unit)
        <4>1. "list" \in Ops /\ 0..MaxRows \subseteq Nat
          BY WireAssumption DEF Ops, WireAssumption
        <4> QED BY <1>5, <4>1
      <3> QED BY <1>1, <1>4, <2>6, <3>1 DEF GetRequest, Faults
    <2>7. CASE ProcessBatch \/ Logout
      BY <1>1, <2>7 DEF ProcessBatch, Logout, ServerRest
    <2>8. CASE GetLog
      <3>1. \A lines \in 1..MaxLines : 3 * lines \in Nat /\ Msg("header", 3 * lines) \in Seq(Unit)
        <4>1. "header" \in Ops /\ \A lines \in 1..MaxLines : 3 * lines \in Nat
          BY WireAssumption DEF Ops, WireAssumption
        <4> QED BY <1>5, <4>1
      <3> QED BY <1>1, <1>4, <2>8, <3>1 DEF GetLog, ServerRest
    <2>9. CASE LogReady
      <3>1. length' \in Nat BY <1>1, <2>9, GrownKeeps DEF LogReady
      <3> QED BY <1>1, <1>6, <2>9, <3>1 DEF LogReady
    <2>10. CASE LogBlock
      <3>1. SubSeq(LogFile(length), sent * Block + 1, Least((sent + 1) * Block, length)) \in Seq(Unit)
        BY <1>1, LogPiece
      <3>2. /\ sent' = sent + 1 /\ UNCHANGED <<up, buff, length, faults>>
            /\ Reply(SubSeq(LogFile(length), sent * Block + 1, Least((sent + 1) * Block, length)))
        BY <2>10 DEF LogBlock, ServerRest
      <3>3. down' \in Seq(Unit) BY <1>1, <3>1, <3>2, ReplyKinds
      <3> QED BY <1>1, <3>2, <3>3
    <2> QED BY <2>1, <2>2, <2>3, <2>4, <2>5, <2>6, <2>7, <2>8, <2>9, <2>10 DEF ServerStep
  <1> QED BY <1>2, <1>8 DEF WireKinds

LEMMA ClientKinds ==
    ASSUME WireKinds, ClientStep
    PROVE  WireKinds'
  <1>1. /\ up \in Seq(Unit) /\ down \in Seq(Unit) /\ faults \subseteq Faults
        /\ left \in Nat /\ shown \in Nat /\ (client = "blocks" => left > 0)
        /\ Block \in Nat /\ ClientBuffer \in Nat
    BY WireAssumption DEF WireKinds, WireAssumption, ClientBuffer
  <1>2. \A m \in Seq(Unit) : Send(m) => up' \in Seq(Unit)
    BY <1>1, SendKinds
  <1>3. \A op \in Ops, val \in Nat : Msg(op, val) \in Seq(Unit) BY MsgUnits
  <1>4. \A s, chunk, max : faults \cup Torn(s, chunk, max) \subseteq Faults
    BY <1>1 DEF Torn, Faults
  <1>5. /\ Leave("dead", <<>>) => up' \in Seq(Unit) /\ down' \in Seq(Unit)
        /\ Leave("closed", Msg("C_LOGOUT", 0)) => up' \in Seq(Unit) /\ down' \in Seq(Unit)
    <2>1. <<>> \in Seq(Unit) /\ Msg("C_LOGOUT", 0) \in Seq(Unit)
      BY <1>3, NoUnits DEF Ops, Requests
    <2> QED BY <1>1, <2>1, LeaveKinds
  <1>6. CASE StartLogin \/ SwitchTable \/ StartDownload \/ Refresh
    <2>1. \A op \in Requests : Msg(op, 0) \in Seq(Unit) BY <1>3 DEF Ops
    <2>2. up' \in Seq(Unit)
      BY <1>2, <1>6, <2>1 DEF StartLogin, SwitchTable, StartDownload, Refresh, Requests
    <2> QED BY <1>6, <2>2
        DEF StartLogin, SwitchTable, StartDownload, Refresh, SameWindow, threads, WireKinds
  <1>7. CASE \E op \in Batches, n \in 1..shown : Press(op, n)
    <2>1. PICK op \in Batches, n \in 1..shown : Press(op, n) BY <1>7
    <2>2. Msg(op, n) \in Seq(Unit) BY <1>1, <1>3 DEF Ops, Requests
    <2>3. up' \in Seq(Unit) BY <1>2, <2>1, <2>2 DEF Press
    <2> QED BY <2>1, <2>3 DEF Press, SameWindow, threads, WireKinds, Faults
  <1>8. CASE Close
    <2>1. up' \in Seq(Unit) /\ down' \in Seq(Unit) BY <1>5, <1>8 DEF Close
    <2> QED BY <1>8, <2>1 DEF Close, Leave, SameWindow, threads, WireKinds
  <1>9. CASE Vanish
    <2>1. up' \in Seq(Unit) /\ down' \in Seq(Unit) BY <1>5, <1>9 DEF Vanish
    <2> QED BY <1>9, <2>1 DEF Vanish, Leave, SameWindow, threads, WireKinds, Faults
  <1>10. CASE Misread
    <2>1. up' \in Seq(Unit) /\ down' \in Seq(Unit) BY <1>5, <1>10 DEF Misread
    <2>2. faults' \subseteq Faults BY <1>1, <1>4, <1>10 DEF Misread
    <2> QED BY <1>10, <2>1, <2>2 DEF Misread, Leave, SameWindow, threads, WireKinds
  <1>11. CASE Receive
    <2>1. PICK chunk \in Arrivals(down, ClientBuffer) :
              down' = Rest(down, chunk) /\ Got(chunk[1]) /\ UNCHANGED threads
      BY <1>11 DEF Receive
    <2> DEFINE m == chunk[1]
    <2>2. down' \in Seq(Unit) /\ m \in Unit BY <1>1, <2>1, ArrivalKinds
    <2>3. Got(m) BY <2>1
    <2>4. m.val \in Nat BY <2>2 DEF Unit
    <2> HIDE DEF m
    <2>5. /\ up' \in Seq(Unit) /\ left' \in Nat /\ shown' \in Nat /\ faults' \subseteq Faults
          /\ client' \in {"idle", "result", "list", "blocks"}
          /\ client' = "blocks" => left' > 0
      <3>1. CASE GotFailed /\ UNCHANGED faults
        BY <1>1, <3>1 DEF GotFailed, SameWindow
      <3>2. CASE GotChallenge /\ UNCHANGED faults
        <4>1. Msg("answer", 0) \in Seq(Unit) BY <1>3 DEF Ops
        <4> QED BY <1>1, <1>2, <3>2, <4>1 DEF GotChallenge, SameWindow
      <3>3. CASE GotAccess(m.val) /\ UNCHANGED faults
        <4>1. Msg("C_GET_REQUEST", 0) \in Seq(Unit) BY <1>3 DEF Ops, Requests
        <4> QED BY <1>1, <1>2, <3>3, <4>1 DEF GotAccess, SameWindow
      <3>4. CASE GotList(m.val) /\ UNCHANGED faults
        BY <1>1, <2>4, <3>4 DEF GotList
      <3>5. ASSUME NEW opens \in BOOLEAN, GotHeader(m.val, opens),
                   faults' = IF opens THEN faults ELSE faults \cup {"notOpened"}
            PROVE  /\ up' \in Seq(Unit) /\ left' \in Nat /\ shown' \in Nat
                   /\ faults' \subseteq Faults /\ client' \in {"idle", "blocks"}
                   /\ client' = "blocks" => left' > 0
        <4>1. Msg("ready", 1) \in Seq(Unit) BY <1>3 DEF Ops
        <4>2. BlockCount(m.val) \in Nat BY <2>4, BlocksCover
        <4> QED BY <1>1, <1>2, <3>5, <4>1, <4>2 DEF GotHeader, Faults
      <3> QED BY <2>3, <3>1, <3>2, <3>3, <3>4, <3>5 DEF Got
    <2> QED BY <2>1, <2>2, <2>5 DEF threads, WireKinds
  <1>12. CASE ReceiveBlock
    <2>1. down' \in Seq(Unit) BY <1>1, <1>12, ArrivalKinds DEF ReceiveBlock
    <2>2. faults' \subseteq Faults BY <1>4, <1>12 DEF ReceiveBlock
    <2>3. /\ left' \in Nat /\ client' \in {"idle", "blocks"}
          /\ client' = "blocks" => left' > 0
      BY <1>1, <1>12 DEF ReceiveBlock
    <2> QED BY <1>12, <2>1, <2>2, <2>3 DEF ReceiveBlock, threads, WireKinds
  <1>13. CASE BlocksEnd
    BY <1>13 DEF BlocksEnd, threads, WireKinds
  <1> QED BY <1>6, <1>7, <1>8, <1>9, <1>10, <1>11, <1>12, <1>13 DEF ClientStep, ClientReceives

LEMMA KindsStep ==
    ASSUME WireKinds, [Next]_vars
    PROVE  WireKinds'
  <1>1. CASE StoppedElsewhere
    BY <1>1, NoUnits
    DEF StoppedElsewhere, ServerStops, windows, WireKinds, Faults
  <1>2. CASE UNCHANGED vars
    BY <1>2 DEF vars, windows, threads, WireKinds
  <1> QED BY <1>1, <1>2, ServerKinds, ClientKinds DEF Next, Ended

LEMMA FaultsKept ==
    ASSUME [Next]_vars
    PROVE  /\ faults \subseteq faults'
           /\ server = "stopped" => server' = "stopped"
           /\ client = "dead" => client' = "dead"
  <1>1. CASE ClientStep
    <2>1. CASE Receive
      BY <2>1 DEF Receive, Got, threads, Understood
    <2>2. CASE ~Receive
      BY <1>1, <2>2
      DEF ClientStep, ClientReceives, StartLogin, SwitchTable, StartDownload, Close, Vanish,
          Press, Refresh, Misread, ReceiveBlock, BlocksEnd, Leave, threads, Understood, Gone
    <2> QED BY <2>1, <2>2
  <1>2. CASE ServerStep
    <2>1. server # "stopped" /\ client' = client BY <1>2, ServerAt DEF windows
    <2>2. faults \subseteq faults'
      BY <1>2
      DEF ServerStep, Listen, ListenFails, AdminLogin, AdminAnswer, GetRequest, ProcessBatch,
          GetLog, LogReady, LogBlock, HandlerFails, Logout, ServerRest
    <2> QED BY <2>1, <2>2
  <1>3. CASE StoppedElsewhere
    BY <1>3 DEF StoppedElsewhere, ServerStops, windows
  <1>4. CASE UNCHANGED vars
    BY <1>4 DEF vars, windows, threads
  <1> QED BY <1>1, <1>2, <1>3, <1>4 DEF Next, Ended

-----------------------------------------------------------------------------
(* The invariant and what follows from it.                                 *)

\* As long as nothing is out of the ordinary every step leads from one phase to
\* another; what ends the thread or the client is remembered.
LEMMA PhaseServer ==
    ASSUME WireKinds, Calm, Phase, ServerStep, faults \subseteq faults'
    PROVE  /\ Calm' => Phase'
           /\ server' = "stopped" => faults' \cap {"pressed", "vanished"} # {}
  <1>1. client' = client BY ServerAt DEF windows
  <1>2. CASE client = "idle" BY <1>2, IdleWaits DEF Phase
  <1>3. CASE client = "challenge" BY <1>1, <1>3, ChallengeServed DEF Phase
  <1>4. CASE client = "result" BY <1>1, <1>4, ResultServed DEF Phase
  <1>5. CASE client = "refresh"
    <2>1. "pressed" \in faults BY <1>5 DEF Phase, AtRefresh
    <2> QED BY <1>1, <1>5, <2>1, RefreshServed DEF Phase, Calm
  <1>6. CASE client = "list" BY <1>1, <1>6, ListServed DEF Phase, Calm
  <1>7. CASE client = "header" BY <1>1, <1>7, HeaderServed DEF Phase
  <1>8. CASE client = "blocks" BY <1>1, <1>8, BlocksServed DEF Phase
  <1>9. CASE client = "closed" BY <1>1, <1>9, ClosedServed DEF Phase
  <1>10. CASE client = "dead" BY <1>1, <1>10, DeadServed DEF Phase, Calm
  <1> QED BY <1>2, <1>3, <1>4, <1>5, <1>6, <1>7, <1>8, <1>9, <1>10 DEF WireKinds

LEMMA PhaseClient ==
    ASSUME WireKinds, Calm, Phase, ClientStep
    PROVE  /\ Calm' => Phase'
           /\ UNCHANGED server
           /\ client' = "dead" => faults' \cap {"split", "tooLong", "vanished"} # {}
  <1>1. CASE ClientReceives
    <2>1. client \in {"challenge", "result", "list", "header", "blocks"}
      BY <1>1, ReceivesAt DEF Calm
    <2>2. CASE client = "challenge"
      <3>1. AtChallenge /\ server # "stopped" BY <2>2 DEF Phase, Calm
      <3> QED BY <1>1, <2>2, <3>1, ChallengeReceived DEF Phase
    <2>3. CASE client = "result"
      <3>1. AtResult /\ server # "stopped" BY <2>3 DEF Phase, Calm
      <3> QED BY <1>1, <2>3, <3>1, ResultReceived DEF Phase
    <2> QED BY <1>1, <2>1, <2>2, <2>3, ListReceived, HeaderReceived, BlocksReceived
  <1>2. CASE Refresh BY <1>2, RefreshActs
  <1>3. CASE ~ClientReceives /\ ~Refresh
    <2>1. PersonStep BY <1>3 DEF ClientStep, PersonStep
    <2> QED BY <2>1, PersonActs
  <1> QED BY <1>1, <1>2, <1>3

LEMMA WireInit ==
    ASSUME Init
    PROVE  WireInv
  <1>1. AtIdle BY DEF Init, AtIdle, Quiet
  <1> QED BY <1>1, KindsInit
      DEF Init, WireInv, OnlyTheseStopServer, OnlyTheseStopClient, Phase

LEMMA WireStep ==
    ASSUME WireInv, [Next]_vars
    PROVE  WireInv'
  <1>1. WireKinds /\ WireKinds' /\ faults \subseteq faults'
    BY KindsStep, FaultsKept DEF WireInv
  <1>2. Calm => Phase BY DEF WireInv
  <1>3. Calm' => Calm BY <1>1, FaultsKept DEF Calm
  <1>4. CASE ~Calm
    <2>1. \/ faults \cap {"split", "notOpened", "stopped"} # {}
          \/ server = "stopped"
      BY <1>4 DEF Calm
    <2>2. OnlyTheseStopServer' /\ OnlyTheseStopClient'
      BY <1>1, <2>1, FaultsKept
      DEF WireInv, OnlyTheseStopServer, OnlyTheseStopClient, Faults
    <2> QED BY <1>1, <1>3, <1>4, <2>2 DEF WireInv
  <1>5. CASE Calm /\ ServerStep
    <2>1. client' = client BY <1>5, ServerAt DEF windows
    <2>2. /\ Calm' => Phase'
          /\ server' = "stopped" => faults' \cap {"pressed", "vanished"} # {}
      BY <1>1, <1>2, <1>5, PhaseServer
    <2>3. OnlyTheseStopServer' BY <2>2 DEF OnlyTheseStopServer
    <2>4. OnlyTheseStopClient'
      BY <1>1, <1>5, <2>1 DEF WireInv, OnlyTheseStopClient, Calm
    <2> QED BY <1>1, <2>2, <2>3, <2>4 DEF WireInv
  <1>6. CASE Calm /\ ClientStep
    BY <1>1, <1>2, <1>6, PhaseClient
    DEF WireInv, OnlyTheseStopServer, OnlyTheseStopClient, Calm, Faults
  <1>7. CASE StoppedElsewhere
    BY <1>1, <1>7
    DEF StoppedElsewhere, ServerStops, windows, Calm, WireInv, OnlyTheseStopServer,
        OnlyTheseStopClient
  <1>8. CASE UNCHANGED vars
    <2>1. WireInv' <=> WireInv
      BY <1>8
      DEF vars, windows, threads, WireInv, WireKinds, OnlyTheseStopServer,
          OnlyTheseStopClient, Calm, Phase, AtIdle, AtChallenge, AtResult, AtRefresh, AtList,
          AtHeader, AtBlocks, AtClosed, AtDead, Quiet, Asked, Answered
    <2> QED BY <2>1
  <1> QED BY <1>4, <1>5, <1>6, <1>7, <1>8 DEF Next, Ended

THEOREM WireInvariance == Spec => []WireInv
  <1>1. Init => WireInv BY WireInit
  <1>2. WireInv /\ [Next]_vars => WireInv' BY WireStep
  <1> QED BY <1>1, <1>2, PTL DEF Spec

\* An idle window has nothing unread and the server nothing to answer, however
\* long the blocks, the lists and the log are, as long as every recv returns
\* what was sent.
THEOREM EndsInStep == Spec => []InStep
  <1>1. WireInv => InStep BY DEF WireInv, Calm, Phase, AtIdle, Quiet, InStep
  <1> QED BY <1>1, WireInvariance, PTL

\* A client of the administrators ends the server's process only by a batch, by
\* blocks it leaves unread, or by vanishing.
THEOREM ServerStopsOnlyFor == Spec => []OnlyTheseStopServer
  <1>1. WireInv => OnlyTheseStopServer BY DEF WireInv
  <1> QED BY <1>1, WireInvariance, PTL

\* The client ends for an error only if a list was too long for its buffer, a
\* file was not opened, a read was short, or the server has stopped.
THEOREM ClientStopsOnlyFor == Spec => []OnlyTheseStopClient
  <1>1. WireInv => OnlyTheseStopClient BY DEF WireInv
  <1> QED BY <1>1, WireInvariance, PTL
=============================================================================
