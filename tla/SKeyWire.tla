------------------------------ MODULE SKeyWire ------------------------------
(***************************************************************************)
(* One connection of an administrator at the level of TCP: the windows of  *)
(* the client, the thread that serves them, and a byte stream each way.    *)
(* A stream keeps no boundaries between messages: recv returns what has    *)
(* arrived, as far as its buffer reaches.                                  *)
(*                                                                         *)
(* A stream is a sequence of units.  A message is one unit, and one more   *)
(* for each id or row it lists; record.log is sent byte by byte.           *)
(***************************************************************************)
EXTENDS Naturals, SequencesExt

CONSTANTS
    Block,         \* units that fit in the 1024 bytes of a block, of the server's buffer
    AdminTypes,    \* the kinds of administrator: 1 security, 2 log
    MaxRows,       \* bound: requests standing at a time
    MaxLines,      \* bound: lines of record.log
    Splits,        \* whether a recv may see only part of what was sent
    MayFail        \* whether client or server may stop in the middle

VARIABLES
    window,        \* the window on the screen
    client,        \* where the code behind the window is
    shown,         \* rows in the table of the security administrator
    expected,      \* GetLogFile: length and blocks left, copy its record.log
    left,
    copy,
    finished,      \* GetLogFile: the last download was reported complete
    server,        \* where the thread is
    buff,          \* the message in the buffer of Response
    userType,
    length,        \* GetLog: length of the log it reads, and blocks sent
    sent,
    up,            \* the streams: from client to server and back
    down,
    faults         \* history: what was out of the ordinary so far

windows == <<window, client, shown, expected, left, copy, finished>>
threads == <<server, buff, userType, length, sent>>
vars == <<windows, threads, up, down, faults>>

WireAssumption ==
    /\ Block \in Nat \ {0}
    /\ AdminTypes \subseteq {1, 2}
    /\ MaxRows \in Nat /\ MaxLines \in Nat
    /\ Splits \in BOOLEAN /\ MayFail \in BOOLEAN

ASSUME WireAssumption

-----------------------------------------------------------------------------
(* Messages, the log, and what recv makes of a stream.                     *)

Batches == {"C_REQUEST_PASS", "C_REQUEST_REJECT"}
Requests == Batches \cup {"C_ADMIN_LOGIN", "C_GET_REQUEST", "C_GET_LOG", "C_LOGOUT"}
Bytes == {"text", "CR", "LF"}

Units(op, val) == IF op \in Batches \cup {"list"} THEN val + 1 ELSE 1

Msg(op, val) == [i \in 1..Units(op, val) |-> [op |-> op, val |-> val, part |-> i]]

Nothing == [op |-> "none", val |-> 0, part |-> 1]

\* parse accepts what was received: one whole message and nothing else.
Parses(chunk) ==
    /\ chunk # <<>> /\ chunk[1].op \notin Bytes
    /\ chunk = Msg(chunk[1].op, chunk[1].val)

Byte(b) == [op |-> b, val |-> 0, part |-> 1]

\* WriteRecord appends in text mode: "\n" becomes CR LF in the file.
Line == <<Byte("text"), Byte("CR"), Byte("LF")>>

LogFile(size) == [i \in 1..size |-> Line[((i - 1) % 3) + 1]]

\* GetLogFile writes its copy in text mode once more.
Written(chunk) ==
    FlattenSeq([i \in DOMAIN chunk |-> IF chunk[i] = Byte("LF") THEN <<Byte("CR"), Byte("LF")>>
                                                               ELSE <<chunk[i]>>])

\* Mutant: the last block, which is not full, is forgotten.
BlockCountFloor(size) == size \div Block

\* The number of blocks, by the same formula at both ends.
BlockCount(size) == IF size % Block # 0 THEN size \div Block + 1 ELSE size \div Block

\* The bytes of the log from block i + 1 on.
LogFrom(i, size) == SubSeq(LogFile(size), i * Block + 1, size)

Least(a, b) == IF a < b THEN a ELSE b

\* How much of the log the blocks of a download may hold: other threads append
\* to it until the last block, which may have room for more, is read.
Grown(size) == size..Least(BlockCount(size) * Block, 3 * MaxLines)

\* What a recv with a buffer of max units may return.
Arrivals(stream, max) ==
    LET all == Least(Len(stream), max) IN
    {SubSeq(stream, 1, n) : n \in IF Splits THEN 1..all ELSE {all} \ {0}}

Rest(stream, chunk) == SubSeq(stream, Len(chunk) + 1, Len(stream))

\* What has to be remembered of a recv that returned chunk.
Torn(stream, chunk, max) ==
    IF Len(chunk) < Least(Len(stream), max) THEN {"split"} ELSE {}

-----------------------------------------------------------------------------
Init ==
    /\ window = "main" /\ client = "idle"
    /\ shown = 0 /\ expected = 0 /\ left = 0 /\ copy = <<>> /\ finished = FALSE
    /\ server = "loop" /\ buff = Nothing /\ userType = 0 /\ length = 0 /\ sent = 0
    /\ up = <<>> /\ down = <<>> /\ faults = {}

Gone == client \in {"closed", "dead"}

Send(m) == up' = up \o m

\* What the server sends to a client that has closed its socket is dropped.
Reply(m) == down' = IF Gone THEN <<>> ELSE down \o m

-----------------------------------------------------------------------------
(* The client.                                                             *)

SameWindow == UNCHANGED <<shown, expected, left, copy, finished>>

\* OnBnClickedButtonAdminLogin.
StartLogin ==
    /\ window = "main" /\ client = "idle"
    /\ Send(Msg("C_ADMIN_LOGIN", 0))
    /\ client' = "challenge"
    /\ SameWindow
    /\ UNCHANGED <<window, threads, down, faults>>

\* A click on the other tab of the security administrator's window.
SwitchTable ==
    /\ window = "security" /\ client = "idle"
    /\ Send(Msg("C_GET_REQUEST", 0))
    /\ client' = "list"
    /\ SameWindow
    /\ UNCHANGED <<window, threads, down, faults>>

\* A button of that window sends the ticked rows ...
Press(op, n) ==
    /\ window = "security" /\ client = "idle"
    /\ Send(Msg(op, n))
    /\ client' = "refresh"
    /\ faults' = faults \cup {"pressed"}
    /\ SameWindow
    /\ UNCHANGED <<window, threads, down>>

\* ... and asks for the list again without waiting for an answer.
Refresh ==
    /\ client = "refresh"
    /\ Send(Msg("C_GET_REQUEST", 0))
    /\ client' = "list"
    /\ SameWindow
    /\ UNCHANGED <<window, threads, down, faults>>

\* OnBnClickedButtonGetLogFile, up to the first Receive.
StartDownload ==
    /\ window = "log" /\ client = "idle"
    /\ Send(Msg("C_GET_LOG", 0))
    /\ client' = "header" /\ finished' = FALSE
    /\ UNCHANGED <<window, shown, expected, left, copy, threads, down, faults>>

\* The client goes away: its window is closed, or it ends for an error.
\* Closing a socket with bytes unread or still to come resets the connection,
\* and the server may lose what it has not received yet.
Leave(state, last) ==
    /\ client' = state
    /\ down' = <<>>
    /\ \/ up' = up \o last
       \/ (down # <<>> \/ server = "sending" \/ state = "dead") /\ up' = <<>>
    /\ SameWindow
    /\ UNCHANGED <<window, threads>>

\* OnClose sends C_LOGOUT.
Close ==
    /\ client = "idle"
    /\ Leave("closed", Msg("C_LOGOUT", 0))
    /\ UNCHANGED faults

\* The client is killed.
Vanish ==
    /\ MayFail /\ ~Gone
    /\ Leave("dead", <<>>)
    /\ faults' = faults \cup {"vanished"}

\* The messages a Receive of the client can go on with.
Understood ==
    CASE client = "challenge" -> {"S_FAILED", "S_NEXTSTEP"}
      [] client = "result"    -> {"S_FAILED", "S_ACCESS"}
      [] client = "list"      -> {"list"}
      [] client = "header"    -> {"header"}
      [] OTHER                -> {}

\* Mutant: every message is read into the shorter buffer.
ClientBufferShort == Block

ClientBuffer == IF client = "header" THEN Block ELSE 2 * Block

GotFailed ==
    /\ client' = "idle"
    /\ SameWindow /\ UNCHANGED <<window, up>>

GotChallenge ==
    /\ Send(Msg("answer", 0))
    /\ client' = "result"
    /\ SameWindow /\ UNCHANGED window

\* The window of a kind of administrator; the first of them asks for its list.
GotAccess(type) ==
    /\ window' = IF type = 1 THEN "security" ELSE "log"
    /\ client' = IF type = 1 THEN "list" ELSE "idle"
    /\ IF type = 1 THEN Send(Msg("C_GET_REQUEST", 0)) ELSE UNCHANGED up
    /\ SameWindow

GotList(rows) ==
    /\ client' = "idle" /\ shown' = rows
    /\ UNCHANGED <<window, expected, left, copy, finished, up>>

\* The client agrees with the number of blocks, which both compute alike, and
\* can open its file or not; the server sends the blocks in both cases.
GotHeader(size, opens) ==
    /\ expected' = size
    /\ Send(Msg("ready", 1))
    /\ client' = IF opens /\ BlockCount(size) > 0 THEN "blocks" ELSE "idle"
    /\ IF opens
       THEN left' = BlockCount(size) /\ copy' = <<>> /\ finished' = (left' = 0)
       ELSE UNCHANGED <<left, copy, finished>>
    /\ UNCHANGED <<window, shown>>

Got(m) ==
    \/ m.op = "S_FAILED" /\ GotFailed /\ UNCHANGED faults
    \/ m.op = "S_NEXTSTEP" /\ GotChallenge /\ UNCHANGED faults
    \/ m.op = "S_ACCESS" /\ GotAccess(m.val) /\ UNCHANGED faults
    \/ m.op = "list" /\ GotList(m.val) /\ UNCHANGED faults
    \/ m.op = "header" /\ \E opens \in BOOLEAN :
          /\ GotHeader(m.val, opens)
          /\ faults' = IF opens THEN faults ELSE faults \cup {"notOpened"}

\* A Receive that returns one whole message the code knows what to do with.
Receive ==
    \E chunk \in Arrivals(down, ClientBuffer) :
        /\ Parses(chunk) /\ chunk[1].op \in Understood
        /\ down' = Rest(down, chunk)
        /\ Got(chunk[1])
        /\ UNCHANGED threads

\* Anything else, or nothing because the server has gone: parse or at throws,
\* nothing catches it and the client ends.
Misread ==
    /\ Understood # {}
    /\ \/ \E chunk \in Arrivals(down, ClientBuffer) :
             /\ ~Parses(chunk) \/ chunk[1].op \notin Understood
             /\ faults' = faults \cup Torn(down, chunk, ClientBuffer)
       \/ down = <<>> /\ server = "stopped" /\ UNCHANGED faults
    /\ Leave("dead", <<>>)

\* Mutant: the loop stops a block too early.
ReceiveBlockShort ==
    /\ client = "blocks"
    /\ \E chunk \in Arrivals(down, Block) :
          /\ down' = Rest(down, chunk)
          /\ copy' = copy \o Written(chunk)
          /\ faults' = faults \cup Torn(down, chunk, Block)
    /\ left' = left - 1
    /\ client' = IF left <= 2 THEN "idle" ELSE "blocks"
    /\ finished' = (left <= 2)
    /\ UNCHANGED <<window, shown, expected, threads, up>>

\* One Receive of the loop counts as one block, whatever it returned.
ReceiveBlock ==
    /\ client = "blocks"
    /\ \E chunk \in Arrivals(down, Block) :
          /\ down' = Rest(down, chunk)
          /\ copy' = copy \o Written(chunk)
          /\ faults' = faults \cup Torn(down, chunk, Block)
    /\ left' = left - 1
    /\ client' = IF left = 1 THEN "idle" ELSE "blocks"
    /\ finished' = (left = 1)
    /\ UNCHANGED <<window, shown, expected, threads, up>>

\* The server has gone: the loop ends, and the download is reported complete.
BlocksEnd ==
    /\ client = "blocks" /\ down = <<>> /\ server = "stopped"
    /\ client' = "idle" /\ finished' = TRUE
    /\ UNCHANGED <<window, shown, expected, left, copy, threads, up, down, faults>>

ClientReceives == Receive \/ Misread \/ ReceiveBlock \/ BlocksEnd

ClientStep ==
    \/ StartLogin \/ SwitchTable \/ StartDownload \/ Close \/ Vanish
    \/ \E op \in Batches, n \in 1..shown : Press(op, n)
    \/ Refresh \/ ClientReceives

-----------------------------------------------------------------------------
(* The server: Response and the handlers of administrators.                *)

\* The process ends, for every client.  The reset of the connection may reach
\* the client before it has read everything.
ServerStops ==
    /\ server' = "stopped" /\ up' = <<>>
    /\ UNCHANGED down \/ down' = <<>>
    /\ UNCHANGED <<windows, buff, userType, length, sent>>

\* Another connection makes the process end, or its machine does.
StoppedElsewhere ==
    /\ MayFail /\ server \notin {"stopped", "closed"}
    /\ ServerStops
    /\ faults' = faults \cup {"stopped"}

RecvFails == Gone /\ up = <<>>

\* The top of the loop: a whole request is dispatched.  When recv fails the
\* buffer still holds the request before.
Listen ==
    /\ server = "loop"
    /\ \/ \E chunk \in Arrivals(up, Block) :
             /\ Parses(chunk) /\ chunk[1].op \in Requests
             /\ buff' = chunk[1] /\ up' = Rest(up, chunk)
       \/ RecvFails /\ buff # Nothing /\ UNCHANGED <<buff, up>>
    /\ server' = "dispatch"
    /\ UNCHANGED <<windows, userType, length, sent, down, faults>>

\* What arrived is no request, or part of one, or more than one; or recv fails
\* and nothing was ever received: parse or at throws and the process ends.
ListenFails ==
    /\ server = "loop"
    /\ \/ \E chunk \in Arrivals(up, Block) :
             /\ ~Parses(chunk) \/ chunk[1].op \notin Requests
             /\ faults' = faults \cup Torn(up, chunk, Block)
       \/ RecvFails /\ buff = Nothing /\ UNCHANGED faults
    /\ ServerStops

Dispatched(op) == server = "dispatch" /\ buff.op = op

Back == server' = "loop"

ServerRest == UNCHANGED <<windows, buff, up, faults>>

\* No such administrator, or a challenge is sent.
AdminLogin ==
    /\ Dispatched("C_ADMIN_LOGIN")
    /\ \/ Reply(Msg("S_FAILED", 0)) /\ Back
       \/ Reply(Msg("S_NEXTSTEP", 0)) /\ server' = "answer"
    /\ ServerRest /\ UNCHANGED <<userType, length, sent>>

\* The second recv of AdminLogin and what follows it.
AdminAnswer ==
    /\ server = "answer"
    /\ \/ \E chunk \in Arrivals(up, Block) :
             /\ Parses(chunk) /\ chunk[1].op = "answer"
             /\ up' = Rest(up, chunk)
             /\ \/ Reply(Msg("S_FAILED", 0)) /\ UNCHANGED userType
                \/ \E type \in AdminTypes : Reply(Msg("S_ACCESS", type)) /\ userType' = type
       \/ RecvFails /\ UNCHANGED <<userType, up, down>>
    /\ Back
    /\ UNCHANGED <<windows, buff, length, sent, faults>>

\* Mutant: nothing is sent when no request stands.
GetRequestSilent ==
    /\ Dispatched("C_GET_REQUEST")
    /\ \E rows \in 0..MaxRows : IF rows = 0 THEN UNCHANGED down ELSE Reply(Msg("list", rows))
    /\ Back
    /\ ServerRest /\ UNCHANGED <<userType, length, sent>>

\* A list that is longer than the client's buffer will not parse there.
GetRequest ==
    /\ Dispatched("C_GET_REQUEST")
    /\ IF userType = 1
       THEN \E rows \in 0..MaxRows :
               /\ Reply(Msg("list", rows))
               /\ faults' = IF Units("list", rows) > 2 * Block THEN faults \cup {"tooLong"} ELSE faults
       ELSE UNCHANGED <<down, faults>>
    /\ Back
    /\ UNCHANGED <<windows, buff, up, userType, length, sent>>

\* PassRequest and RejectRequest answer nothing.
ProcessBatch ==
    /\ server = "dispatch" /\ buff.op \in Batches
    /\ Back
    /\ ServerRest /\ UNCHANGED <<userType, length, sent, down>>

\* The header; the log has the line of this administrator's login at least.
GetLog ==
    /\ Dispatched("C_GET_LOG")
    /\ IF userType = 2
       THEN \E lines \in 1..MaxLines :
               /\ length' = 3 * lines /\ sent' = 0
               /\ Reply(Msg("header", 3 * lines))
               /\ server' = "ready"
       ELSE Back /\ UNCHANGED <<length, sent, down>>
    /\ ServerRest /\ UNCHANGED userType

\* From here on length is that of the log the loop below will read.
LogReady ==
    /\ server = "ready"
    /\ length' \in Grown(length)
    /\ \E chunk \in Arrivals(up, Block) :
          /\ Parses(chunk) /\ chunk[1].op = "ready"
          /\ up' = Rest(up, chunk)
          /\ server' = IF chunk[1].val = 1 /\ BlockCount(length) > 0 THEN "sending" ELSE "loop"
    /\ UNCHANGED <<windows, buff, userType, sent, down, faults>>

\* Mutant: the loop runs from 0 to totalNo.
LogBlockOneMore ==
    /\ server = "sending"
    /\ Reply(SubSeq(LogFile(length), sent * Block + 1, Least((sent + 1) * Block, length)))
    /\ sent' = sent + 1
    /\ server' = IF sent >= BlockCount(length) \/ Gone THEN "loop" ELSE "sending"
    /\ ServerRest /\ UNCHANGED <<userType, length>>

\* Mutant: the file is read where it stands, at its end.
LogBlockNoSeek ==
    /\ server = "sending"
    /\ UNCHANGED down
    /\ sent' = sent + 1
    /\ server' = IF sent + 1 >= BlockCount(length) \/ Gone THEN "loop" ELSE "sending"
    /\ ServerRest /\ UNCHANGED <<userType, length>>

\* One block.  When the client has gone the send fails and the loop ends.
LogBlock ==
    /\ server = "sending"
    /\ Reply(SubSeq(LogFile(length), sent * Block + 1, Least((sent + 1) * Block, length)))
    /\ sent' = sent + 1
    /\ server' = IF sent + 1 >= BlockCount(length) \/ Gone THEN "loop" ELSE "sending"
    /\ ServerRest /\ UNCHANGED <<userType, length>>

\* The second message of AdminLogin or GetLog is not the one; GetLog parses
\* its buffer also when its recv failed.
HandlerFails ==
    /\ server \in {"answer", "ready"}
    /\ \/ \E chunk \in Arrivals(up, Block) :
             /\ ~Parses(chunk) \/ chunk[1].op # server
             /\ faults' = faults \cup Torn(up, chunk, Block)
       \/ server = "ready" /\ RecvFails /\ UNCHANGED faults
    /\ ServerStops

Logout ==
    /\ Dispatched("C_LOGOUT")
    /\ server' = "closed"
    /\ ServerRest /\ UNCHANGED <<userType, length, sent, down>>

ServerStep ==
    \/ Listen \/ ListenFails \/ AdminLogin \/ AdminAnswer \/ GetRequest \/ ProcessBatch
    \/ GetLog \/ LogReady \/ LogBlock \/ HandlerFails \/ Logout

Ended == Gone /\ server \in {"stopped", "closed"} /\ UNCHANGED vars

Next == ClientStep \/ ServerStep \/ StoppedElsewhere \/ Ended

Spec == Init /\ [][Next]_vars

\* Threads that can run do; nothing is assumed of the person at the windows.
FairSpec == Spec /\ WF_vars(ServerStep) /\ WF_vars(ClientReceives) /\ WF_vars(Refresh)

-----------------------------------------------------------------------------
Faults == {"split", "pressed", "notOpened", "tooLong", "vanished", "stopped"}

WireTypes ==
    /\ window \in {"main", "security", "log"}
    /\ client \in {"idle", "challenge", "result", "list", "refresh", "header", "blocks",
                   "closed", "dead"}
    /\ server \in {"loop", "dispatch", "answer", "ready", "sending", "closed", "stopped"}
    /\ buff.op \in Requests \cup {"none"}
    /\ userType \in 0..2 /\ shown \in 0..MaxRows
    /\ expected \in 0..3 * MaxLines /\ left \in 0..BlockCount(3 * MaxLines)
    /\ length \in 0..3 * MaxLines /\ sent \in 0..BlockCount(length)
    /\ finished \in BOOLEAN /\ faults \subseteq Faults

\* The two ends keep in step: as long as every recv got what was sent and the
\* client's file could be opened, a window that is idle has nothing unread, the
\* server has answered everything, and it takes the client for what its
\* window is.
InStep ==
    client = "idle" /\ faults \cap {"split", "notOpened", "stopped"} = {} /\ server # "stopped"
        => /\ up = <<>> /\ down = <<>> /\ server = "loop"
           /\ userType = CASE window = "main" -> 0
                           [] window = "security" -> 1
                           [] window = "log" -> 2

\* GetLogFile loses nothing on the way: what it has written, what is in the
\* stream and what the server has not sent yet make up the log, in text mode,
\* in whatever pieces it arrives.
NothingLost ==
    client = "blocks" /\ server # "stopped"
        => copy \o Written(down \o LogFrom(sent, length)) = Written(LogFile(length))

\* A download that is reported complete has the log the header announced, and
\* perhaps what others appended to it meanwhile, when the blocks arrive as they
\* were sent and the server does not stop in the middle.
LogComplete ==
    finished /\ faults \cap {"split", "stopped"} = {}
        => \E n \in Grown(expected) : copy = Written(LogFile(n))

\* The windows end the server's process in no other way than by a batch, by
\* leaving blocks unread, or by vanishing: not by any order of logins, tabs,
\* downloads and list requests, however long the lists are.
OnlyTheseStopServer ==
    server = "stopped"
        => faults \cap {"split", "pressed", "notOpened", "vanished", "stopped"} # {}

\* The client ends for an error only if a list was too long for its buffer,
\* or a file was not opened, a read was short, or the server has stopped.
OnlyTheseStopClient ==
    client = "dead" => faults \cap (Faults \ {"pressed"}) # {} \/ server = "stopped"

\* An exchange the client has started ends, or the client does.
ExchangesEnd == []<>(client \in {"idle", "closed", "dead"})

\* README.md:3, the security administrator reviews requests: pressing a button
\* does not by itself stop the server.
ReviewKeepsServer == faults \subseteq {"pressed"} => server # "stopped"
=============================================================================
