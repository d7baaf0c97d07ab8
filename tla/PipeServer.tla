----------------------------- MODULE PipeServer -----------------------------
(***************************************************************************)
(* The named-pipe server of src/src/server.rs, its clients, and the kernel *)
(* between them: one thread multiplexes MAX_SESSIONS pipe instances with   *)
(* overlapped I/O, and clients connect, write, read and close when they    *)
(* like.                                                                   *)
(*                                                                         *)
(* Server::run waits for an event and then sweeps the sessions in order.   *)
(* A step of the server makes at most one call whose outcome depends on    *)
(* the client, so that clients act between any two such calls.             *)
(***************************************************************************)
EXTENDS Integers, Sequences, FiniteSets

CONSTANTS
    MaxSessions,     \* MAX_SESSIONS
    MaxReqsPerWake,  \* MAX_REQS_PER_WAKE
    HeaderLen,       \* HEADER_LEN, in the units a client may write singly
    BodyLen,         \* the length of a body, in such units
    OutRoom,         \* how many responses the kernel buffers for a client
    Clients,
    Readers,         \* the clients that go on reading what is sent to them
    Kinds,           \* what clients ask for, see FrameKinds
    EarlyClients,    \* whether clients come before Server::new is done
    MaxFrames,       \* bound of the state space: frames per connection
    MaxConnections   \* bound of the state space: connections per client

FrameKinds == {"request",    \* is answered
               "malformed",  \* has a bad type or a length over MAX_TOTAL_LEN
               "refused"}    \* DaemonState::handle returns an error

ASSUME ServerAssumption ==
    /\ MaxSessions \in Nat \ {0} /\ MaxReqsPerWake \in Nat \ {0}
    /\ HeaderLen \in Nat \ {0} /\ BodyLen \in Nat \ {0} /\ OutRoom \in Nat \ {0}
    /\ Readers \subseteq Clients
    /\ Kinds \subseteq FrameKinds /\ EarlyClients \in BOOLEAN
    /\ MaxFrames \in Nat /\ MaxConnections \in Nat

VARIABLES
    sessions,  \* Server.sessions, each with the kernel's side of its instance
    pc, at,    \* what the server does, and with which session
    served,    \* `served` of service_session
    recency,   \* the sessions by last_activity, least recent first
    conn,      \* each client's side of its connection
    tries,     \* how often each client has connected
    active,    \* history: the sessions serviced since the server last waited
    waited     \* history: responses to others while a session's event is set

vars == <<sessions, pc, at, served, recency, conn, tries, active, waited>>

Ids == 1 .. MaxSessions

----------------------------------------------------------------------------
(* Bytes, and the kernel's side of a session.                              *)

\* The units of the n-th frame of a connection.
Frame(n, kind) ==
    [k \in 1 .. HeaderLen + (IF kind = "malformed" THEN 0 ELSE BodyLen) |->
        [frame |-> n, kind |-> kind, pos |-> k]]

Least(a, b) == IF a < b THEN a ELSE b
Taken(s, n) == SubSeq(s, 1, Least(n, Len(s)))
Left(s, n)  == SubSeq(s, Least(n, Len(s)) + 1, Len(s))

\* The pending operation of s is over: `how` is "done" or "failed".
Over(s, how) == [s EXCEPT !.io = how, !.event = TRUE]

\* Reading n units, or as many as there are.
Fetched(s, n) == [s EXCEPT !.data = Taken(s.inbox, n), !.inbox = Left(s.inbox, n)]

\* CreateFileW by a client.
Opened(s) == IF s.state = "listening"
             THEN Over([s EXCEPT !.state = "connected"], "done")
             ELSE [s EXCEPT !.state = "connected"]

\* WriteFile by the client.
Received(s, units) ==
    LET more == [s EXCEPT !.inbox = @ \o units] IN
    IF s.op = "ReadPending" /\ s.io = "pending"
    THEN Over(Fetched(more, s.asked), "done") ELSE more

\* ReadFile by the client, of one response: it makes room for the next.
Drained(s) ==
    LET less == [s EXCEPT !.outbox = Tail(@)] IN
    IF s.op = "WritePending" /\ s.io = "pending"
    THEN Over([less EXCEPT !.outbox = Append(@, s.write_buf)], "done") ELSE less

\* CloseHandle by the client: what it has not read is lost, what it wrote can
\* still be read, and a pending operation fails.
Closed(s) ==
    LET gone == [s EXCEPT !.state = "closing", !.outbox = <<>>] IN
    IF s.op \in {"ReadPending", "WritePending"} /\ s.io = "pending"
    THEN Over(gone, "failed") ELSE gone

----------------------------------------------------------------------------
(* The clients.                                                            *)

NoConn       == [id |-> 0, frames |-> 0, rest |-> <<>>, read |-> <<>>]
Connected(c) == conn[c].id # 0

Connect(c, i) ==
    /\ ~Connected(c) /\ tries[c] < MaxConnections
    /\ \/ sessions[i].state = "listening"
       \/ EarlyClients /\ sessions[i].state = "created"
    /\ sessions' = [sessions EXCEPT ![i] = Opened(@)]
    /\ conn' = [conn EXCEPT ![c].id = i]
    /\ tries' = [tries EXCEPT ![c] = @ + 1]

\* A frame goes out in as many writes as the client likes; some clients write
\* the next before they have read the answer.
Write(c, kind, n) ==
    LET new  == conn[c].rest = <<>>
        rest == IF new THEN Frame(conn[c].frames + 1, kind) ELSE conn[c].rest
    IN  /\ Connected(c) /\ (new => conn[c].frames < MaxFrames) /\ n <= Len(rest)
        /\ sessions' = [sessions EXCEPT ![conn[c].id] = Received(@, Taken(rest, n))]
        /\ conn' = [conn EXCEPT ![c].rest = Left(rest, n),
                                ![c].frames = IF new THEN @ + 1 ELSE @]
        /\ UNCHANGED tries

Read(c) ==
    /\ Connected(c) /\ sessions[conn[c].id].outbox # <<>>
    /\ sessions' = [sessions EXCEPT ![conn[c].id] = Drained(@)]
    /\ conn' = [conn EXCEPT ![c].read = Append(@, Head(sessions[conn[c].id].outbox))]
    /\ UNCHANGED tries

Close(c) ==
    /\ Connected(c)
    /\ sessions' = [sessions EXCEPT ![conn[c].id] = Closed(@)]
    /\ conn' = [conn EXCEPT ![c] = NoConn]
    /\ UNCHANGED tries

----------------------------------------------------------------------------
(* The session the server is at.                                           *)

Session   == sessions[at]
Become(s) == sessions' = [sessions EXCEPT ![at] = s] /\ UNCHANGED conn

NextSession == IF at < MaxSessions THEN pc' = "sweep" /\ at' = at + 1
                                   ELSE pc' = "evict" /\ at' = 1

\* Mutant: the event is left as it was.
BegunStillSet(s) == [s EXCEPT !.io = "none"]

\* begin_op clears the OVERLAPPED and the event.
Begun(s) == [s EXCEPT !.io = "none", !.event = FALSE]

\* The units that a read has brought are added to the buffer.
Gained(s) == [s EXCEPT !.got = @ \o s.data, !.data = <<>>, !.asked = 0]

Fresh == [op |-> "Connect", connected |-> FALSE, stage |-> "Header",
          want |-> HeaderLen, got |-> <<>>, write_buf |-> 0, event |-> FALSE,
          state |-> "created", inbox |-> <<>>, outbox |-> <<>>,
          io |-> "none", asked |-> 0, data |-> <<>>]

\* rearm_connect: a client that is there already completes the call, one that
\* has been there and gone (ERROR_NO_DATA) makes it fail.
RearmConnect(s) ==
    LET begun == [Begun(s) EXCEPT !.op = "Connect"] IN
    CASE s.state = "created"   -> [begun EXCEPT !.state = "listening", !.io = "pending"]
      [] s.state = "connected" -> Over(begun, "done")
      [] s.state = "closing"   -> begun

\* Mutant: the next client of the instance inherits the buffer.
DisconnectKeepsBuffer(i) ==
    /\ sessions' = [sessions EXCEPT ![i] = RearmConnect([Fresh EXCEPT !.got = sessions[i].got])]
    /\ conn' = [c \in Clients |-> IF conn[c].id = i THEN NoConn ELSE conn[c]]

\* disconnect_session: DisconnectNamedPipe drops what is on its way in both
\* directions; an operation it cancels is waited for.
Disconnect(i) ==
    /\ sessions' = [sessions EXCEPT ![i] = RearmConnect(Fresh)]
    /\ conn' = [c \in Clients |-> IF conn[c].id = i THEN NoConn ELSE conn[c]]

----------------------------------------------------------------------------
(* The server.                                                             *)

\* Server::new: the instances exist, their ConnectNamedPipe is yet to come.
Rearm ==
    /\ pc = "new" /\ Become(RearmConnect(Session))
    /\ IF at < MaxSessions THEN at' = at + 1 /\ UNCHANGED pc
                           ELSE at' = 1 /\ pc' = "wait"
    /\ UNCHANGED <<served, recency, active>>

\* Server::run: WaitForMultipleObjects returns, for an event of a session or
\* for one of the watcher.
Wakes == /\ pc = "wait" /\ pc' = "sweep"
         /\ active' = {}
         /\ UNCHANGED <<sessions, at, served, recency, conn>>
Wake        == (\E i \in Ids : sessions[i].event) /\ Wakes
WatcherWake == Wakes

Skip == /\ pc = "sweep" /\ ~Session.event
        /\ NextSession
        /\ UNCHANGED <<sessions, served, recency, conn, active>>

\* consume_completed_op, where the operation has succeeded.
Consumed(s) ==
    CASE s.op = "Connect"      -> [s EXCEPT !.op = "Idle", !.connected = TRUE]
      [] s.op = "WritePending" -> [s EXCEPT !.op = "Idle", !.write_buf = 0]
      [] OTHER                 -> [Gained(s) EXCEPT !.op = "Idle"]

Failed(s) == s.op = "Idle" \/ s.io = "failed"
Park(s)   == [s EXCEPT !.event = FALSE]

\* The order in which sessions were last active, when it is the turn of i.
MovedLast(order, i) ==
    LET place == CHOOSE k \in Ids : order[k] = i IN
    [k \in Ids |-> IF k < place THEN order[k]
                   ELSE IF k < MaxSessions THEN order[k + 1] ELSE i]

\* service_session, up to what its completed operation says.
Service ==
    /\ pc = "sweep" /\ Session.event
    /\ served' = 0
    /\ active' = active \cup {at}
    /\ recency' = MovedLast(recency, at)
    /\ IF Session.op \in {"ReadPending", "WritePending"} /\ Session.io = "pending"
       THEN Become(Park(Session)) /\ NextSession
       ELSE IF Failed(Session) THEN Disconnect(at) /\ NextSession
       ELSE Become(Consumed(Session)) /\ pc' = "advance" /\ UNCHANGED at

\* issue_read_at with nothing to read: the client is waited for, or is gone.
ReadLater(n) ==
    /\ Session.inbox = <<>>
    /\ NextSession
    /\ IF Session.state = "connected"
       THEN Become([Begun(Session) EXCEPT !.op = "ReadPending", !.io = "pending", !.asked = n])
       ELSE Disconnect(at)

\* issue_read_at with something to read: it is in `data` and the event is set.
ReadNow(n) == [Fetched(Begun(Session), n) EXCEPT !.event = TRUE]

\* advance_stages: the frame is not complete yet.
ReadMore ==
    LET missing == Session.want - Len(Session.got) IN
    /\ pc = "advance" /\ missing > 0
    /\ \/ ReadLater(missing)
       \/ /\ Session.inbox # <<>> /\ Become(Gained(ReadNow(missing)))
          /\ UNCHANGED <<pc, at>>
    /\ UNCHANGED <<served, recency, active>>

\* advance_one_stage: the header is.
HeaderDone ==
    /\ pc = "advance" /\ Session.stage = "Header" /\ Len(Session.got) >= Session.want
    /\ IF Session.got[1].kind = "malformed"
       THEN Disconnect(at) /\ NextSession
       ELSE /\ Become([Session EXCEPT !.stage = "Body", !.want = HeaderLen + BodyLen])
            /\ UNCHANGED <<pc, at>>
    /\ UNCHANGED <<served, recency, active>>

\* What handle() answers: the frame it was given, or nothing anyone asked.
Answer(got) == IF got = Frame(got[1].frame, "request") THEN got[1].frame ELSE 0

\* handle_complete_request: handle() and WriteFile.
HandleRequest ==
    LET answered == [Begun(Session) EXCEPT !.got = <<>>, !.stage = "Header",
                         !.want = HeaderLen, !.write_buf = Answer(Session.got)]
    IN  /\ pc = "advance" /\ Session.stage = "Body" /\ Len(Session.got) >= Session.want
        /\ \/ /\ Session.got[1].kind = "refused" /\ UNCHANGED served
              /\ Disconnect(at) /\ NextSession
           \/ /\ Session.got[1].kind # "refused" /\ served' = served + 1
              /\ IF Session.state # "connected" THEN Disconnect(at) /\ NextSession
                 ELSE IF Len(Session.outbox) < OutRoom
                 THEN /\ Become([answered EXCEPT !.event = TRUE,
                                     !.outbox = Append(@, answered.write_buf)])
                      /\ pc' = "next" /\ UNCHANGED at
                 ELSE /\ Become([answered EXCEPT !.op = "WritePending", !.io = "pending"])
                      /\ NextSession
        /\ UNCHANGED <<recency, active>>

\* Mutant: a client is served for as long as it has requests.
NextReadAlways ==
    /\ pc = "next"
    /\ \/ ReadLater(HeaderLen)
       \/ /\ Session.inbox # <<>> /\ Become(Gained(ReadNow(HeaderLen)))
          /\ pc' = "advance" /\ UNCHANGED at
    /\ UNCHANGED <<served, recency, active>>

\* Mutant: a session that has had its share does not wake the server again.
NextReadAsleep ==
    /\ pc = "next"
    /\ \/ ReadLater(HeaderLen)
       \/ /\ Session.inbox # <<>> /\ served < MaxReqsPerWake
          /\ Become(Gained(ReadNow(HeaderLen)))
          /\ pc' = "advance" /\ UNCHANGED at
       \/ /\ Session.inbox # <<>> /\ served >= MaxReqsPerWake
          /\ Become([ReadNow(HeaderLen) EXCEPT !.op = "ReadBuffered", !.event = FALSE])
          /\ NextSession
    /\ UNCHANGED <<served, recency, active>>

\* issue_next_read: a client that has had its share of this wake is served
\* again in the next.
NextRead ==
    /\ pc = "next"
    /\ \/ ReadLater(HeaderLen)
       \/ /\ Session.inbox # <<>> /\ served < MaxReqsPerWake
          /\ Become(Gained(ReadNow(HeaderLen)))
          /\ pc' = "advance" /\ UNCHANGED at
       \/ /\ Session.inbox # <<>> /\ served >= MaxReqsPerWake
          /\ Become([ReadNow(HeaderLen) EXCEPT !.op = "ReadBuffered"])
          /\ NextSession
    /\ UNCHANGED <<served, recency, active>>

\* Mutant: room is made one session too late.
EvictLate ==
    /\ pc = "evict" /\ pc' = "wait"
    /\ IF Cardinality({i \in Ids : sessions[i].connected}) > MaxSessions
       THEN Disconnect(recency[1]) ELSE UNCHANGED <<sessions, conn>>
    /\ UNCHANGED <<at, served, recency, active>>

\* Mutant: the most recently active session goes.
EvictBusiest ==
    /\ pc = "evict" /\ pc' = "wait"
    /\ IF \A i \in Ids : sessions[i].connected THEN Disconnect(recency[MaxSessions])
                                               ELSE UNCHANGED <<sessions, conn>>
    /\ UNCHANGED <<at, served, recency, active>>

\* service_signaled_sessions, when it has seen all: with every session
\* connected, the least recently active one makes room.
Evict ==
    /\ pc = "evict" /\ pc' = "wait"
    /\ IF \A i \in Ids : sessions[i].connected THEN Disconnect(recency[1])
                                               ELSE UNCHANGED <<sessions, conn>>
    /\ UNCHANGED <<at, served, recency, active>>

----------------------------------------------------------------------------

Server == \/ Rearm \/ Wake \/ Skip \/ Service
          \/ ReadMore \/ HeaderDone \/ HandleRequest \/ NextRead \/ Evict

Client(c) == \/ \E i \in Ids : Connect(c, i)
             \/ \E kind \in Kinds, n \in 1 .. HeaderLen + BodyLen : Write(c, kind, n)
             \/ Read(c)
             \/ Close(c)

\* The session that is being serviced is not kept waiting.
InService(i) == i = at /\ pc \in {"advance", "next"}

History ==
    waited' = [i \in Ids |->
        IF ~sessions'[i].event \/ InService(i) THEN 0
        ELSE IF sessions[i].event /\ pc = "advance" /\ served' > served THEN waited[i] + 1
        ELSE waited[i]]

Init ==
    /\ sessions = [i \in Ids |-> Fresh]
    /\ pc = "new" /\ at = 1 /\ served = 0
    /\ recency = [i \in Ids |-> i]
    /\ conn = [c \in Clients |-> NoConn] /\ tries = [c \in Clients |-> 0]
    /\ active = {} /\ waited = [i \in Ids |-> 0]

Next == /\ \/ Server /\ UNCHANGED tries
           \/ WatcherWake /\ UNCHANGED tries
           \/ \E c \in Clients : Client(c) /\ UNCHANGED <<pc, at, served, recency, active>>
        /\ History

\* The thread of the server runs on, and the Readers read on.
Spec == /\ Init /\ [][Next]_vars
        /\ WF_vars(Server /\ UNCHANGED tries /\ History)
        /\ \A c \in Readers :
              WF_vars(Read(c) /\ UNCHANGED <<pc, at, served, recency, active>> /\ History)

----------------------------------------------------------------------------
(* Properties.                                                             *)

Units == [frame : Nat, kind : Kinds, pos : Nat]

SessionType ==
    [op : {"Connect", "ReadPending", "ReadBuffered", "WritePending", "Idle"},
     connected : BOOLEAN, stage : {"Header", "Body"}, want : Nat, got : Seq(Units),
     write_buf : Nat, event : BOOLEAN,
     state : {"created", "listening", "connected", "closing"},
     inbox : Seq(Units), outbox : Seq(Nat), io : {"none", "pending", "done", "failed"},
     asked : Nat, data : Seq(Units)]

ConnType == [id : 0 .. MaxSessions, frames : Nat, rest : Seq(Units), read : Seq(Nat)]

TypeOK ==
    /\ sessions \in [Ids -> SessionType]
    /\ pc \in {"new", "wait", "sweep", "advance", "next", "evict"}
    /\ at \in Ids /\ served \in 0 .. MaxReqsPerWake
    /\ recency \in [Ids -> Ids] /\ \A i, j \in Ids : recency[i] = recency[j] => i = j
    /\ conn \in [Clients -> ConnType]
    /\ tries \in [Clients -> 0 .. MaxConnections]
    /\ active \subseteq Ids /\ waited \in [Ids -> Nat]

\* A session's event is set if and only if its operation is over, so that
\* service_session neither meets an operation that is still going on (park would
\* lose its wake-up) nor none at all (IdleDefensive), and the OVERLAPPED of an
\* operation that the kernel still works on is never cleared.
EventMeansDone ==
    \A i \in Ids : LET s == sessions[i] IN
        IF InService(i)
        THEN s.op = "Idle" /\ s.io # "pending"
        ELSE /\ s.op # "Idle"
             /\ s.event <=> (s.io \in {"done", "failed"} \/ s.op = "ReadBuffered")

\* What a client has asked, and what it has been answered: the answers that it
\* has read, those in its pipe, and the one that waits for room there.
Asked(c)   == conn[c].frames - (IF conn[c].rest = <<>> THEN 0 ELSE 1)
Pending(s) == IF s.op = "WritePending" /\ s.io = "pending" THEN <<s.write_buf>> ELSE <<>>
Out(s)     == s.outbox \o Pending(s)
Answers(c) == IF Connected(c) THEN conn[c].read \o Out(sessions[conn[c].id]) ELSE <<>>

\* On each connection the answers are to its own requests, in their order, one
\* to each; however the requests are cut up and whoever else is served.
Exchanges == INSTANCE Exchange WITH
    asked   <- [c \in Clients |-> Asked(c)],
    answers <- [c \in Clients |-> Answers(c)]
AnswersInOrder == Exchanges!Spec

\* A client that streams requests cannot keep another waiting: while a session's
\* event is set, every other gets at most one turn of MAX_REQS_PER_WAKE.
FairShare == \A i \in Ids : waited[i] <= (MaxSessions - 1) * MaxReqsPerWake

\* "a fresh instance must be listening after eviction" (src/tests/ipc.rs:815):
\* the server never waits with no instance that a client could open.
SlotFree ==
    pc = "wait" => \E i \in Ids : \/ sessions[i].state = "listening"
                                  \/ ~sessions[i].connected /\ sessions[i].event

\* "a non-LRU session must survive" (src/tests/ipc.rs:811): to make room, no
\* session is disconnected that was serviced since the server last waited, if
\* there is one that was not.
IdleGoFirst ==
    [][\A c \in Clients :
          (pc = "evict" /\ pc' = "wait" /\ Connected(c) /\ ~Connected(c)')
              => conn[c].id \notin active \/ active = Ids]_vars

\* Every request that a client has written is answered, or its connection ends,
\* whatever the other clients write, leave unread or leave half written.
EveryRequestAnswered ==
    \A c \in Readers, n \in 1 .. MaxFrames :
        (Connected(c) /\ conn[c].frames >= n /\ (conn[c].frames = n => conn[c].rest = <<>>))
            ~> (~Connected(c) \/ \E k \in DOMAIN conn[c].read : conn[c].read[k] = n)
=============================================================================
