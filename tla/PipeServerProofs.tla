--------------------------- MODULE PipeServerProofs ---------------------------
(***************************************************************************)
(* Proofs about PipeServer, for any number of sessions and clients, any    *)
(* length of header and body, and any share and bounds.                    *)
(***************************************************************************)
EXTENDS PipeServer, SequenceTheorems, TLAPS

----------------------------------------------------------------------------
(* What goes over a pipe.                                                  *)

\* What is taken from a sequence and what is left of it make up the sequence.
LEMMA TakenAndLeft ==
    ASSUME NEW S, NEW s \in Seq(S), NEW n \in Nat
    PROVE  /\ Taken(s, n) \in Seq(S) /\ Left(s, n) \in Seq(S)
           /\ Len(Taken(s, n)) = Least(n, Len(s))
           /\ Taken(s, n) \o Left(s, n) = s
<1> DEFINE m == Least(n, Len(s))
<1>1. /\ Len(s) \in Nat /\ m \in 0 .. Len(s)
      /\ \A i \in 1 .. Len(s) : s[i] \in S
      BY LenProperties, ElementOfSeq DEF Least
<1> HIDE DEF m
<1>2. /\ SubSeq(s, 1, m) \in Seq(S)
      /\ Len(SubSeq(s, 1, m)) = IF 1 <= m THEN m - 1 + 1 ELSE 0
      BY <1>1, SubSeqProperties
<1>3. SubSeq(s, m + 1, Len(s)) \in Seq(S)
      BY <1>1, SubSeqProperties
<1>4. SubSeq(s, 1, m) \o SubSeq(s, m + 1, Len(s)) = SubSeq(s, 1, Len(s))
  <2>1. 1 \in 1 .. Len(s) + 1 /\ m \in 1 - 1 .. Len(s) /\ Len(s) \in m .. Len(s)
        BY <1>1
  <2> QED BY <2>1, ConcatAdjacentSubSeq
<1>5. SubSeq(s, 1, Len(s)) = s
      BY SubSeqFull
<1>6. Len(SubSeq(s, 1, m)) = m
      BY <1>1, <1>2
<1>7. Taken(s, n) = SubSeq(s, 1, m) /\ Left(s, n) = SubSeq(s, m + 1, Len(s))
      BY DEF Taken, Left, m
<1> QED BY <1>2, <1>3, <1>4, <1>5, <1>6, <1>7 DEF m

\* A frame is a sequence of units.
LEMMA FrameType ==
    ASSUME NEW n \in Nat, NEW kind \in Kinds
    PROVE  /\ Frame(n, kind) \in Seq(Units)
           /\ Len(Frame(n, kind)) = HeaderLen + (IF kind = "malformed" THEN 0 ELSE BodyLen)
           /\ Len(Frame(n, kind)) > 0
<1> DEFINE len == HeaderLen + (IF kind = "malformed" THEN 0 ELSE BodyLen)
<1>1. len \in Nat /\ len > 0
      BY ServerAssumption
<1>2. \A k \in 1 .. len : [frame |-> n, kind |-> kind, pos |-> k] \in Units
      BY <1>1 DEF Units
<1>3. Frame(n, kind) \in [1 .. len -> Units]
      BY <1>2 DEF Frame
<1> HIDE DEF len
<1>4. Frame(n, kind) \in Seq(Units)
      BY <1>1, <1>3
<1>5. Len(Frame(n, kind)) = len
      BY <1>1, <1>3, <1>4, LenProperties
<1> QED BY <1>1, <1>4, <1>5 DEF len

----------------------------------------------------------------------------
(* What the operators on one session keep and change.                      *)

\* What the server alone writes: the kernel and a client have no part in it.
SameServerSide(s, t) ==
    /\ t.op = s.op /\ t.connected = s.connected /\ t.stage = s.stage
    /\ t.want = s.want /\ t.got = s.got /\ t.write_buf = s.write_buf
    /\ t.asked = s.asked

\* The operation of s is pending in s and no longer in t, or t has that of s.
MayComplete(s, t, completes, how) ==
    /\ completes => t.io = how /\ t.event
    /\ ~completes => t.io = s.io /\ t.event = s.event

\* A client that opens a listening instance completes its ConnectNamedPipe.
LEMMA OpenedKeeps ==
    ASSUME NEW s \in SessionType
    PROVE  LET t == Opened(s) IN
           /\ t \in SessionType /\ SameServerSide(s, t)
           /\ t.inbox = s.inbox /\ t.outbox = s.outbox /\ t.data = s.data
           /\ t.state = "connected"
           /\ MayComplete(s, t, s.state = "listening", "done")
BY DEF Opened, Over, SessionType, SameServerSide, MayComplete

\* Units that arrive complete a pending read, or wait in the pipe.
LEMMA ReceivedKeeps ==
    ASSUME NEW s \in SessionType, NEW units \in Seq(Units)
    PROVE  LET t    == Received(s, units)
               over == s.op = "ReadPending" /\ s.io = "pending"
           IN  /\ t \in SessionType /\ SameServerSide(s, t)
               /\ t.outbox = s.outbox /\ t.state = s.state
               /\ MayComplete(s, t, over, "done")
               /\ ~over => t.inbox = s.inbox \o units /\ t.data = s.data
               /\ over => /\ t.data = Taken(s.inbox \o units, s.asked)
                          /\ t.inbox = Left(s.inbox \o units, s.asked)
<1> DEFINE all  == s.inbox \o units
           got  == Taken(all, s.asked)
           left == Left(all, s.asked)
<1>1. all \in Seq(Units) /\ s.asked \in Nat
      BY ConcatProperties DEF SessionType
<1>2. got \in Seq(Units) /\ left \in Seq(Units)
      BY <1>1, TakenAndLeft
<1>3. Received(s, units) =
        IF s.op = "ReadPending" /\ s.io = "pending"
        THEN [s EXCEPT !.inbox = left, !.data = got, !.io = "done", !.event = TRUE]
        ELSE [s EXCEPT !.inbox = all]
      BY DEF Received, Over, Fetched, SessionType
<1> HIDE DEF all, got, left
<1>4. CASE s.op = "ReadPending" /\ s.io = "pending"
      BY <1>2, <1>3, <1>4 DEF SessionType, SameServerSide, MayComplete, all, got, left
<1>5. CASE ~(s.op = "ReadPending" /\ s.io = "pending")
      BY <1>1, <1>3, <1>5 DEF SessionType, SameServerSide, MayComplete, all
<1> QED BY <1>4, <1>5

\* A response that is read makes room for the one that is pending.
LEMMA DrainedKeeps ==
    ASSUME NEW s \in SessionType, s.outbox # <<>>
    PROVE  LET t    == Drained(s)
               over == s.op = "WritePending" /\ s.io = "pending"
           IN  /\ t \in SessionType /\ SameServerSide(s, t)
               /\ t.inbox = s.inbox /\ t.data = s.data /\ t.state = s.state
               /\ MayComplete(s, t, over, "done")
               /\ t.outbox = IF over THEN Append(Tail(s.outbox), s.write_buf)
                                     ELSE Tail(s.outbox)
<1> DEFINE less == Tail(s.outbox)
           full == Append(less, s.write_buf)
<1>1. less \in Seq(Nat) /\ s.write_buf \in Nat
      BY HeadTailProperties DEF SessionType
<1>2. full \in Seq(Nat)
      BY <1>1, AppendProperties
<1>3. Drained(s) = IF s.op = "WritePending" /\ s.io = "pending"
                   THEN [s EXCEPT !.outbox = full, !.io = "done", !.event = TRUE]
                   ELSE [s EXCEPT !.outbox = less]
      BY DEF Drained, Over, SessionType
<1> HIDE DEF less, full
<1>4. CASE s.op = "WritePending" /\ s.io = "pending"
      BY <1>2, <1>3, <1>4 DEF SessionType, SameServerSide, MayComplete, full, less
<1>5. CASE ~(s.op = "WritePending" /\ s.io = "pending")
      BY <1>1, <1>3, <1>5 DEF SessionType, SameServerSide, MayComplete, less
<1> QED BY <1>4, <1>5

\* A client that goes fails a pending read or write.
LEMMA ClosedKeeps ==
    ASSUME NEW s \in SessionType
    PROVE  LET t == Closed(s) IN
           /\ t \in SessionType /\ SameServerSide(s, t)
           /\ t.inbox = s.inbox /\ t.data = s.data
           /\ t.state = "closing" /\ t.outbox = <<>>
           /\ MayComplete(s, t, s.op \in {"ReadPending", "WritePending"} /\ s.io = "pending",
                          "failed")
BY EmptySeq DEF Closed, Over, SessionType, SameServerSide, MayComplete

\* A session as Session::new makes it.
LEMMA FreshType == Fresh \in SessionType
<1>1. HeaderLen \in Nat /\ <<>> \in Seq(Units) /\ <<>> \in Seq(Nat)
      BY ServerAssumption, EmptySeq
<1> QED BY <1>1 DEF Fresh, SessionType

\* A session that is disconnected listens again.
LEMMA RearmedFresh ==
    LET t == RearmConnect(Fresh) IN
    /\ t \in SessionType
    /\ t.op = "Connect" /\ ~t.connected /\ t.stage = "Header" /\ t.want = HeaderLen
    /\ t.got = <<>> /\ t.data = <<>> /\ t.inbox = <<>> /\ t.outbox = <<>>
    /\ t.state = "listening" /\ t.io = "pending" /\ t.event = FALSE
<1>1. RearmConnect(Fresh)
        = [Fresh EXCEPT !.op = "Connect", !.state = "listening", !.io = "pending",
                        !.event = FALSE]
      BY DEF RearmConnect, Begun, Fresh
<1> QED BY <1>1, FreshType DEF Fresh, SessionType

----------------------------------------------------------------------------
(* The inductive invariant.                                                *)

\* The ConnectNamedPipe of Server::new has been issued.
Rearmed(i) == pc # "new" \/ i < at

\* How the fields of a session go together: of one that is `rearmed` or not,
\* and `serviced` or not.
Good(s, rearmed, serviced) ==
    /\ ~rearmed => s.op = "Connect" /\ s.io = "none" /\ ~s.event /\ ~s.connected
    /\ rearmed => s.state # "created"
    /\ s.state = "listening" => s.op = "Connect" /\ s.io = "pending"
    /\ s.op = "ReadBuffered" => s.io = "none"
    /\ s.op # "Connect" => s.connected
    /\ s.want = IF s.stage = "Header" THEN HeaderLen ELSE HeaderLen + BodyLen
    /\ serviced => s.op = "Idle" /\ s.io # "pending"
    /\ ~serviced => /\ s.op # "Idle"
                    /\ s.event <=> (s.io \in {"done", "failed"} \/ s.op = "ReadBuffered")
    /\ ~EarlyClients => /\ ~rearmed => s.state = "created"
                        /\ rearmed /\ ~s.connected => s.state = "listening" \/ s.event

SessionsOK == \A i \in Ids : Good(sessions[i], Rearmed(i), InService(i))

ServerOK == /\ pc \in {"wait", "evict"} => at = 1
            /\ pc = "advance" => served < MaxReqsPerWake
            /\ \A i \in Ids : \E k \in Ids : recency[k] = i

\* An instance has one client, and is disconnected or closing when it has none.
OwnersOK == /\ \A c \in Clients : Connected(c) => sessions[conn[c].id].state = "connected"
            /\ \A c, d \in Clients : Connected(c) /\ conn[c].id = conn[d].id => c = d

IInv == TypeOK /\ SessionsOK /\ ServerOK /\ OwnersOK

----------------------------------------------------------------------------
(* Clients keep the fields of a session together.                          *)

LEMMA OpenedGood ==
    ASSUME NEW s \in SessionType, NEW rearmed \in BOOLEAN, NEW serviced \in BOOLEAN,
           Good(s, rearmed, serviced),
           s.state = "listening" \/ (EarlyClients /\ s.state = "created")
    PROVE  Good(Opened(s), rearmed, serviced)
<1> DEFINE t == Opened(s)
<1>1. /\ SameServerSide(s, t) /\ t.state = "connected"
      /\ MayComplete(s, t, s.state = "listening", "done")
      BY OpenedKeeps
<1> HIDE DEF t
<1>2. Good(t, rearmed, serviced)
      BY <1>1 DEF Good, SameServerSide, MayComplete, SessionType
<1> QED BY <1>2 DEF t

LEMMA ReceivedGood ==
    ASSUME NEW s \in SessionType, NEW rearmed \in BOOLEAN, NEW serviced \in BOOLEAN,
           Good(s, rearmed, serviced), NEW units \in Seq(Units)
    PROVE  Good(Received(s, units), rearmed, serviced)
<1> DEFINE t == Received(s, units)
<1>1. /\ SameServerSide(s, t) /\ t.state = s.state
      /\ MayComplete(s, t, s.op = "ReadPending" /\ s.io = "pending", "done")
      BY ReceivedKeeps
<1> HIDE DEF t
<1>2. Good(t, rearmed, serviced)
      BY <1>1 DEF Good, SameServerSide, MayComplete, SessionType
<1> QED BY <1>2 DEF t

LEMMA DrainedGood ==
    ASSUME NEW s \in SessionType, NEW rearmed \in BOOLEAN, NEW serviced \in BOOLEAN,
           Good(s, rearmed, serviced), s.outbox # <<>>
    PROVE  Good(Drained(s), rearmed, serviced)
<1> DEFINE t == Drained(s)
<1>1. /\ SameServerSide(s, t) /\ t.state = s.state
      /\ MayComplete(s, t, s.op = "WritePending" /\ s.io = "pending", "done")
      BY DrainedKeeps
<1> HIDE DEF t
<1>2. Good(t, rearmed, serviced)
      BY <1>1 DEF Good, SameServerSide, MayComplete, SessionType
<1> QED BY <1>2 DEF t

LEMMA ClosedGood ==
    ASSUME NEW s \in SessionType, NEW rearmed \in BOOLEAN, NEW serviced \in BOOLEAN,
           Good(s, rearmed, serviced), s.state = "connected"
    PROVE  Good(Closed(s), rearmed, serviced)
<1> DEFINE t == Closed(s)
<1>1. /\ SameServerSide(s, t) /\ t.state = "closing"
      /\ MayComplete(s, t, s.op \in {"ReadPending", "WritePending"} /\ s.io = "pending",
                     "failed")
      BY ClosedKeeps
<1> HIDE DEF t
<1>2. Good(t, rearmed, serviced)
      BY <1>1 DEF Good, SameServerSide, MayComplete, SessionType
<1> QED BY <1>2 DEF t

----------------------------------------------------------------------------
(* So does the server.                                                     *)

LEMMA FreshGood == Good(RearmConnect(Fresh), TRUE, FALSE)
<1> DEFINE t == RearmConnect(Fresh)
<1>1. /\ t.op = "Connect" /\ ~t.connected /\ t.stage = "Header" /\ t.want = HeaderLen
      /\ t.state = "listening" /\ t.io = "pending" /\ t.event = FALSE
      BY RearmedFresh
<1> HIDE DEF t
<1>2. Good(t, TRUE, FALSE)
      BY <1>1 DEF Good
<1> QED BY <1>2 DEF t

LEMMA RearmConnectGood ==
    ASSUME NEW s \in SessionType, Good(s, FALSE, FALSE)
    PROVE  /\ RearmConnect(s) \in SessionType
           /\ Good(RearmConnect(s), TRUE, FALSE)
<1>1. s.state \in {"created", "connected", "closing"}
      BY DEF Good, SessionType
<1>2. CASE s.state = "created"
  <2>1. RearmConnect(s) = [s EXCEPT !.op = "Connect", !.state = "listening",
                                    !.io = "pending", !.event = FALSE]
        BY <1>2 DEF RearmConnect, Begun, SessionType
  <2> QED BY <2>1 DEF Good, SessionType
<1>3. CASE s.state = "connected"
  <2>1. RearmConnect(s) = [s EXCEPT !.op = "Connect", !.io = "done", !.event = TRUE]
        BY <1>3 DEF RearmConnect, Begun, Over, SessionType
  <2> QED BY <1>3, <2>1 DEF Good, SessionType
<1>4. CASE s.state = "closing"
  <2>1. RearmConnect(s) = [s EXCEPT !.op = "Connect", !.io = "none", !.event = FALSE]
        BY <1>4 DEF RearmConnect, Begun, SessionType
  <2> QED BY <1>4, <2>1 DEF Good, SessionType
<1> QED BY <1>1, <1>2, <1>3, <1>4

\* An operation that has succeeded leaves the session idle and connected.
LEMMA ConsumedGood ==
    ASSUME NEW s \in SessionType, Good(s, TRUE, FALSE), s.event, ~Failed(s),
           ~(s.op \in {"ReadPending", "WritePending"} /\ s.io = "pending")
    PROVE  /\ Consumed(s) \in SessionType
           /\ Good(Consumed(s), TRUE, TRUE)
<1>1. s.op # "Idle" /\ s.io \in {"none", "done"} /\ s.state # "listening"
      BY DEF Good, Failed, SessionType
<1>2. CASE s.op = "Connect"
  <2>1. Consumed(s) = [s EXCEPT !.op = "Idle", !.connected = TRUE]
        BY <1>2 DEF Consumed
  <2> QED BY <1>1, <2>1 DEF Good, SessionType
<1>3. CASE s.op = "WritePending"
  <2> DEFINE t == [s EXCEPT !.op = "Idle", !.write_buf = 0]
  <2>1. Consumed(s) = t
        BY <1>3 DEF Consumed
  <2>2. t \in SessionType
        BY DEF SessionType
  <2>3. /\ t.op = "Idle" /\ t.io = s.io /\ t.event = s.event /\ t.state = s.state
        /\ t.connected = s.connected /\ t.stage = s.stage /\ t.want = s.want
        BY DEF SessionType
  <2> HIDE DEF t
  <2>4. Good(t, TRUE, TRUE)
        BY <1>1, <1>3, <2>3 DEF Good
  <2> QED BY <2>1, <2>2, <2>4
<1>4. CASE s.op \notin {"Connect", "WritePending"}
  <2> DEFINE all == s.got \o s.data
             t   == [s EXCEPT !.op = "Idle", !.got = all, !.data = <<>>, !.asked = 0]
  <2>1. Consumed(s) = t
        BY <1>4 DEF Consumed, Gained, SessionType
  <2>2. all \in Seq(Units) /\ <<>> \in Seq(Units)
        BY ConcatProperties, EmptySeq DEF SessionType
  <2> HIDE DEF all
  <2>3. t \in SessionType
        BY <2>2 DEF SessionType
  <2>4. /\ t.op = "Idle" /\ t.io = s.io /\ t.event = s.event /\ t.state = s.state
        /\ t.connected = s.connected /\ t.stage = s.stage /\ t.want = s.want
        BY DEF SessionType
  <2> HIDE DEF t
  <2>5. Good(t, TRUE, TRUE)
        BY <1>1, <1>4, <2>4 DEF Good
  <2> QED BY <2>1, <2>3, <2>5
<1> QED BY <1>2, <1>3, <1>4

\* A read that must wait, for a client that is there.
Awaiting(s, n) == [Begun(s) EXCEPT !.op = "ReadPending", !.io = "pending", !.asked = n]

LEMMA AwaitingGood ==
    ASSUME NEW s \in SessionType, Good(s, TRUE, TRUE), NEW n \in Nat, s.state = "connected"
    PROVE  /\ Awaiting(s, n) \in SessionType
           /\ Good(Awaiting(s, n), TRUE, FALSE)
<1>1. Awaiting(s, n) = [s EXCEPT !.op = "ReadPending", !.io = "pending", !.asked = n,
                                 !.event = FALSE]
      BY DEF Awaiting, Begun, SessionType
<1>2. s.connected
      BY DEF Good
<1> QED BY <1>1, <1>2 DEF Good, SessionType

\* A read that need not wait.
LEMMA ReadNowKeeps ==
    ASSUME Session \in SessionType, NEW n \in Nat
    PROVE  /\ ReadNow(n) = [Session EXCEPT !.io = "none", !.event = TRUE,
                               !.data = Taken(Session.inbox, n),
                               !.inbox = Left(Session.inbox, n)]
           /\ Taken(Session.inbox, n) \in Seq(Units) /\ Left(Session.inbox, n) \in Seq(Units)
<1>1. Session.inbox \in Seq(Units)
      BY DEF SessionType
<1>2. Taken(Session.inbox, n) \in Seq(Units) /\ Left(Session.inbox, n) \in Seq(Units)
      BY <1>1, TakenAndLeft
<1>3. ReadNow(n) = [Session EXCEPT !.io = "none", !.event = TRUE,
                       !.data = Taken(Session.inbox, n), !.inbox = Left(Session.inbox, n)]
      BY DEF ReadNow, Fetched, Begun, SessionType
<1> QED BY <1>2, <1>3

----------------------------------------------------------------------------
(* The steps.                                                              *)

\* The invariant, but for what only bounds and history are about.
Core == /\ sessions \in [Ids -> SessionType]
        /\ pc \in {"new", "wait", "sweep", "advance", "next", "evict"}
        /\ at \in Ids /\ served \in 0 .. MaxReqsPerWake
        /\ recency \in [Ids -> Ids] /\ \A i, j \in Ids : recency[i] = recency[j] => i = j
        /\ conn \in [Clients -> ConnType]
        /\ active \subseteq Ids
        /\ SessionsOK /\ ServerOK /\ OwnersOK

\* A step that changes one session keeps the others as they must be.
LEMMA ReplaceStep ==
    ASSUME Core, NEW j \in Ids, NEW t \in SessionType,
           sessions' = [sessions EXCEPT ![j] = t],
           Good(t, Rearmed(j)', InService(j)'),
           \A i \in Ids \ {j} : Rearmed(i)' = Rearmed(i) /\ InService(i)' = InService(i)
    PROVE  sessions' \in [Ids -> SessionType] /\ SessionsOK'
<1>1. sessions' \in [Ids -> SessionType] /\ sessions'[j] = t
      /\ \A i \in Ids \ {j} : sessions'[i] = sessions[i]
      BY DEF Core
<1>2. ASSUME NEW i \in Ids PROVE Good(sessions'[i], Rearmed(i)', InService(i)')
  <2>1. CASE i = j
        BY <1>1, <2>1
  <2>2. CASE i # j
    <3>1. sessions'[i] = sessions[i] /\ Rearmed(i)' = Rearmed(i) /\ InService(i)' = InService(i)
          BY <1>1, <2>2
    <3>2. Good(sessions[i], Rearmed(i), InService(i))
          BY DEF Core, SessionsOK
    <3> QED BY <3>1, <3>2
  <2> QED BY <2>1, <2>2
<1> QED BY <1>1, <1>2 DEF SessionsOK

\* The client of a session stays, if it does.
LEMMA SameOwners ==
    ASSUME Core, NEW j \in Ids, NEW t, sessions' = [sessions EXCEPT ![j] = t],
           sessions[j].state = "connected" => t.state = "connected",
           conn' = conn
    PROVE  OwnersOK' /\ conn' \in [Clients -> ConnType]
<1>1. \A c \in Clients : Connected(c) => conn[c].id \in Ids
      BY DEF Core, ConnType, Connected, Ids
<1>2. \A c \in Clients : Connected(c)' <=> Connected(c)
      BY DEF Connected
<1>3. \A c \in Clients : Connected(c) => sessions'[conn[c].id].state = "connected"
      BY <1>1 DEF Core, OwnersOK
<1> QED BY <1>2, <1>3 DEF Core, OwnersOK

\* A session that is disconnected has no client.
LEMMA DisconnectStep ==
    ASSUME Core, NEW j \in Ids, Disconnect(j), Rearmed(j)', ~InService(j)',
           \A i \in Ids \ {j} : Rearmed(i)' = Rearmed(i) /\ InService(i)' = InService(i)
    PROVE  /\ sessions' \in [Ids -> SessionType] /\ SessionsOK'
           /\ OwnersOK' /\ conn' \in [Clients -> ConnType]
<1> DEFINE t == RearmConnect(Fresh)
<1>1. /\ sessions' = [sessions EXCEPT ![j] = t]
      /\ conn' = [c \in Clients |-> IF conn[c].id = j THEN NoConn ELSE conn[c]]
      BY DEF Disconnect
<1>2. t \in SessionType /\ Good(t, Rearmed(j)', InService(j)')
  <2>1. Rearmed(j)' = TRUE /\ InService(j)' = FALSE
        BY DEF Rearmed, InService
  <2> QED BY <2>1, FreshGood, RearmedFresh
<1> HIDE DEF t
<1>3. sessions' \in [Ids -> SessionType] /\ SessionsOK'
      BY <1>1, <1>2, ReplaceStep
<1>4. conn' \in [Clients -> ConnType]
  <2>1. NoConn \in ConnType
        BY EmptySeq, ServerAssumption DEF NoConn, ConnType
  <2> QED BY <1>1, <2>1 DEF Core
<1>5. \A c \in Clients : Connected(c)' => /\ conn'[c] = conn[c] /\ conn[c].id # j
                                          /\ Connected(c) /\ conn[c].id \in Ids
      BY <1>1 DEF Core, Connected, NoConn, ConnType, Ids
<1>6. OwnersOK'
  <2>1. \A c \in Clients : Connected(c)' => sessions'[conn'[c].id].state = "connected"
        BY <1>1, <1>5 DEF Core, OwnersOK
  <2>2. \A c, d \in Clients : Connected(c)' /\ conn'[c].id = conn'[d].id => c = d
    <3> SUFFICES ASSUME NEW c \in Clients, NEW d \in Clients,
                        Connected(c)', conn'[c].id = conn'[d].id
                 PROVE  c = d
        OBVIOUS
    <3>1. Connected(d)'
          BY DEF Connected
    <3> QED BY <1>5, <3>1 DEF Core, OwnersOK
  <2> QED BY <2>1, <2>2 DEF OwnersOK
<1> QED BY <1>3, <1>4, <1>6

\* The server goes on to the next session, or has seen all.
LEMMA NextSessionStep ==
    ASSUME Core, NextSession, pc \in {"sweep", "advance", "next"}
    PROVE  /\ pc' \in {"sweep", "evict"} /\ at' \in Ids
           /\ pc' = "evict" => at' = 1
           /\ \A i \in Ids : Rearmed(i) /\ Rearmed(i)' /\ ~InService(i)'
<1>1. MaxSessions \in Nat \ {0} /\ at \in 1 .. MaxSessions
      BY ServerAssumption DEF Core, Ids
<1> QED BY <1>1 DEF NextSession, Rearmed, InService, Ids

\* Server::new arms one instance after another.
LEMMA RearmStep ==
    ASSUME Core, Rearm PROVE Core'
<1> MaxSessions \in Nat \ {0}
    BY ServerAssumption
<1>1. PICK j \in Ids : j = at
      BY DEF Core
<1> DEFINE t == RearmConnect(sessions[j])
<1>2. pc = "new" /\ sessions' = [sessions EXCEPT ![j] = t] /\ conn' = conn
      BY <1>1 DEF Rearm, Become, Session
<1>3. sessions[j] \in SessionType /\ Good(sessions[j], FALSE, FALSE)
  <2>1. Rearmed(j) = FALSE /\ InService(j) = FALSE
        BY <1>1, <1>2 DEF Rearmed, InService, Ids
  <2> QED BY <2>1 DEF Core, SessionsOK
<1>4. t \in SessionType /\ Good(t, TRUE, FALSE)
      BY <1>3, RearmConnectGood
<1>5. sessions[j].state = "connected" => t.state = "connected"
      BY <1>3 DEF RearmConnect, Begun, Over, SessionType
<1>6. /\ at' \in Ids /\ pc' \in {"new", "wait"}
      /\ pc' = "wait" => at' = 1
      /\ Rearmed(j)' = TRUE /\ InService(j)' = FALSE
      /\ \A i \in Ids \ {j} : Rearmed(i)' = Rearmed(i) /\ InService(i)' = InService(i)
  <2>1. CASE at < MaxSessions
        BY <1>1, <1>2, <2>1 DEF Rearm, Rearmed, InService, Ids
  <2>2. CASE ~(at < MaxSessions)
        BY <1>1, <1>2, <2>2 DEF Rearm, Rearmed, InService, Ids
  <2> QED BY <2>1, <2>2
<1> HIDE DEF t
<1>7. sessions' \in [Ids -> SessionType] /\ SessionsOK'
  <2>1. Good(t, Rearmed(j)', InService(j)')
        BY <1>4, <1>6
  <2> QED BY <1>2, <1>4, <1>6, <2>1, ReplaceStep
<1>8. OwnersOK' /\ conn' \in [Clients -> ConnType]
      BY <1>2, <1>5, SameOwners
<1>9. served' = served /\ recency' = recency /\ active' = active
      BY DEF Rearm
<1> QED BY <1>6, <1>7, <1>8, <1>9 DEF Core, ServerOK

\* The server wakes up.
LEMMA WakesStep ==
    ASSUME Core, Wakes PROVE Core'
<1>1. /\ pc = "wait" /\ pc' = "sweep" /\ active' = {}
      /\ sessions' = sessions /\ at' = at /\ served' = served
      /\ recency' = recency /\ conn' = conn
      BY DEF Wakes
<1>2. \A i \in Ids : Rearmed(i)' = Rearmed(i) /\ InService(i)' = InService(i)
      BY <1>1 DEF Rearmed, InService
<1>3. SessionsOK'
      BY <1>1, <1>2 DEF Core, SessionsOK
<1>4. OwnersOK'
      BY <1>1 DEF Core, OwnersOK, Connected
<1> QED BY <1>1, <1>3, <1>4 DEF Core, ServerOK

\* It passes by a session whose event is not set.
LEMMA SkipStep ==
    ASSUME Core, Skip PROVE Core'
<1>1. /\ pc = "sweep" /\ NextSession
      /\ sessions' = sessions /\ served' = served /\ active' = active
      /\ recency' = recency /\ conn' = conn
      BY DEF Skip
<1>2. /\ pc' \in {"sweep", "evict"} /\ at' \in Ids /\ (pc' = "evict" => at' = 1)
      /\ \A i \in Ids : Rearmed(i) /\ Rearmed(i)' /\ ~InService(i)'
      BY <1>1, NextSessionStep
<1>3. \A i \in Ids : Rearmed(i)' = Rearmed(i) /\ InService(i)' = InService(i)
      BY <1>1, <1>2 DEF Rearmed, InService
<1>4. SessionsOK'
      BY <1>1, <1>3 DEF Core, SessionsOK
<1>5. OwnersOK'
      BY <1>1 DEF Core, OwnersOK, Connected
<1> QED BY <1>1, <1>2, <1>4, <1>5 DEF Core, ServerOK

\* Moving a session to the end of the order keeps all the others in theirs.
LEMMA MovedLastKeeps ==
    ASSUME NEW order \in [Ids -> Ids], NEW i \in Ids,
           \A j, k \in Ids : order[j] = order[k] => j = k,
           \A j \in Ids : \E k \in Ids : order[k] = j
    PROVE  \E place \in Ids :
              /\ order[place] = i
              /\ MovedLast(order, i) \in [Ids -> Ids]
              /\ \A k \in Ids : MovedLast(order, i)[k] =
                    IF k < place THEN order[k]
                    ELSE IF k < MaxSessions THEN order[k + 1] ELSE i
<1> DEFINE place == CHOOSE k \in Ids : order[k] = i
<1>1. place \in Ids /\ order[place] = i
      OBVIOUS
<1>2. MovedLast(order, i) = [k \in Ids |-> IF k < place THEN order[k]
                               ELSE IF k < MaxSessions THEN order[k + 1] ELSE i]
      BY DEF MovedLast
<1> HIDE DEF place
<1>3. \A k \in Ids : k < MaxSessions => k + 1 \in Ids
      BY ServerAssumption DEF Ids
<1>4. \A k \in Ids : (IF k < place THEN order[k]
                     ELSE IF k < MaxSessions THEN order[k + 1] ELSE i) \in Ids
      BY <1>3
<1> QED BY <1>1, <1>2, <1>4

LEMMA MovedLastPermutes ==
    ASSUME NEW order \in [Ids -> Ids], NEW i \in Ids,
           \A j, k \in Ids : order[j] = order[k] => j = k,
           \A j \in Ids : \E k \in Ids : order[k] = j
    PROVE  LET moved == MovedLast(order, i) IN
           /\ moved \in [Ids -> Ids]
           /\ \A j, k \in Ids : moved[j] = moved[k] => j = k
           /\ \A j \in Ids : \E k \in Ids : moved[k] = j
<1> DEFINE moved == MovedLast(order, i)
<1>1. PICK place \in Ids :
         /\ order[place] = i
         /\ moved \in [Ids -> Ids]
         /\ \A k \in Ids : moved[k] = IF k < place THEN order[k]
                                     ELSE IF k < MaxSessions THEN order[k + 1] ELSE i
      BY MovedLastKeeps
<1> HIDE DEF moved
<1>2. MaxSessions \in Nat \ {0} /\ Ids = 1 .. MaxSessions
      BY ServerAssumption DEF Ids
<1>3. \A k \in Ids : k < MaxSessions => k + 1 \in Ids
      BY <1>2
<1> DEFINE From(k) == IF k < place THEN k ELSE IF k < MaxSessions THEN k + 1 ELSE place
<1>4. ASSUME NEW j \in Ids, NEW k \in Ids, moved[j] = moved[k] PROVE j = k
  <2>1. /\ From(j) \in Ids /\ moved[j] = order[From(j)]
        /\ From(k) \in Ids /\ moved[k] = order[From(k)]
        BY <1>1, <1>3
  <2>2. From(j) = From(k)
        BY <1>4, <2>1
  <2>3. j \in 1 .. MaxSessions /\ k \in 1 .. MaxSessions /\ place \in 1 .. MaxSessions
        BY <1>2
  <2>4. /\ j \in Int /\ k \in Int /\ place \in Int /\ MaxSessions \in Int
        /\ j <= MaxSessions /\ k <= MaxSessions
        BY <1>2, <2>3
  <2> HIDE <1>2, <2>3
  <2>5. CASE j < place
        BY <2>2, <2>4, <2>5
  <2>6. CASE ~(j < place)
        BY <2>2, <2>4, <2>6
  <2> QED BY <2>5, <2>6
<1>5. ASSUME NEW j \in Ids PROVE \E k \in Ids : moved[k] = j
  <2>1. PICK k \in Ids : order[k] = j
        OBVIOUS
  <2>2. CASE k < place
        BY <1>1, <2>1, <2>2
  <2>3. CASE k = place
    <3>1. MaxSessions \in Ids /\ ~(MaxSessions < place) /\ ~(MaxSessions < MaxSessions)
          BY <1>2
    <3> QED BY <1>1, <2>1, <2>3, <3>1
  <2>4. CASE k > place
    <3>1. k - 1 \in Ids /\ ~(k - 1 < place) /\ k - 1 < MaxSessions /\ (k - 1) + 1 = k
          BY <1>2, <2>4
    <3> QED BY <1>1, <2>1, <3>1
  <2> QED BY <1>2, <2>2, <2>3, <2>4
<1> QED BY <1>1, <1>4, <1>5 DEF moved

\* What a turn of a session leaves in order.
Kept == /\ sessions' \in [Ids -> SessionType] /\ SessionsOK'
        /\ OwnersOK' /\ conn' \in [Clients -> ConnType]
        /\ at' \in Ids
        /\ pc' \in {"new", "wait", "sweep", "advance", "next", "evict"}
        /\ pc' \in {"wait", "evict"} => at' = 1

Turn == pc \in {"sweep", "advance", "next"}

\* The server leaves a session with an operation that goes on or is over.
LEMMA LeavesWith ==
    ASSUME Core, Turn, NEW t \in SessionType, Good(t, TRUE, FALSE),
           t.state = Session.state, Become(t), NextSession
    PROVE  Kept /\ pc' \in {"sweep", "evict"}
<1>1. PICK j \in Ids : j = at
      BY DEF Core
<1>2. sessions' = [sessions EXCEPT ![j] = t] /\ conn' = conn
      BY <1>1 DEF Become
<1>3. /\ pc' \in {"sweep", "evict"} /\ at' \in Ids /\ (pc' = "evict" => at' = 1)
      /\ \A i \in Ids : Rearmed(i) /\ Rearmed(i)' /\ ~InService(i)'
      BY NextSessionStep DEF Turn
<1>4. Rearmed(j)' = TRUE /\ InService(j)' = FALSE
      BY <1>3 DEF Rearmed, InService
<1>5. \A i \in Ids \ {j} : Rearmed(i)' = Rearmed(i) /\ InService(i)' = InService(i)
      BY <1>1, <1>3 DEF Rearmed, InService
<1>6. Good(t, Rearmed(j)', InService(j)')
      BY <1>4
<1>7. sessions' \in [Ids -> SessionType] /\ SessionsOK'
      BY <1>2, <1>5, <1>6, ReplaceStep
<1>8. sessions[j].state = "connected" => t.state = "connected"
      BY <1>1 DEF Session
<1>9. OwnersOK' /\ conn' \in [Clients -> ConnType]
      BY <1>2, <1>8, SameOwners
<1> QED BY <1>3, <1>7, <1>9 DEF Kept

\* It disconnects it.
LEMMA LeavesWithout ==
    ASSUME Core, Turn, Disconnect(at), NextSession
    PROVE  Kept /\ pc' \in {"sweep", "evict"}
<1>1. PICK j \in Ids : j = at
      BY DEF Core
<1>2. /\ pc' \in {"sweep", "evict"} /\ at' \in Ids /\ (pc' = "evict" => at' = 1)
      /\ \A i \in Ids : Rearmed(i) /\ Rearmed(i)' /\ ~InService(i)'
      BY NextSessionStep DEF Turn
<1>3. Rearmed(j)' /\ ~InService(j)' /\ Disconnect(j)
      BY <1>1, <1>2 DEF Rearmed, InService
<1>4. \A i \in Ids \ {j} : Rearmed(i)' = Rearmed(i) /\ InService(i)' = InService(i)
      BY <1>1, <1>2 DEF Rearmed, InService
<1>5. /\ sessions' \in [Ids -> SessionType] /\ SessionsOK'
      /\ OwnersOK' /\ conn' \in [Clients -> ConnType]
      BY <1>3, <1>4, DisconnectStep
<1> QED BY <1>2, <1>5 DEF Kept

\* It goes on with it.
LEMMA StaysWith ==
    ASSUME Core, Turn, NEW t \in SessionType, Good(t, TRUE, TRUE),
           t.state = Session.state, Become(t), at' = at, pc' \in {"advance", "next"}
    PROVE  Kept
<1>1. PICK j \in Ids : j = at
      BY DEF Core
<1>2. sessions' = [sessions EXCEPT ![j] = t] /\ conn' = conn
      BY <1>1 DEF Become
<1>3. Rearmed(j)' = TRUE /\ InService(j)' = TRUE
      BY <1>1 DEF Rearmed, InService
<1>4. \A i \in Ids \ {j} : Rearmed(i)' = Rearmed(i) /\ InService(i)' = InService(i)
      BY <1>1 DEF Rearmed, InService, Turn
<1>5. Good(t, Rearmed(j)', InService(j)')
      BY <1>3
<1>6. sessions' \in [Ids -> SessionType] /\ SessionsOK'
      BY <1>2, <1>4, <1>5, ReplaceStep
<1>7. sessions[j].state = "connected" => t.state = "connected"
      BY <1>1 DEF Session
<1>8. OwnersOK' /\ conn' \in [Clients -> ConnType]
      BY <1>2, <1>7, SameOwners
<1> QED BY <1>6, <1>8 DEF Kept, Core

\* The session the server is at, in a turn.
LEMMA SessionGood ==
    ASSUME Core, Turn
    PROVE  /\ Session \in SessionType /\ at \in Ids
           /\ Good(Session, TRUE, pc # "sweep")
<1>1. PICK j \in Ids : j = at
      BY DEF Core
<1>2. Rearmed(j) = TRUE /\ InService(j) = (pc # "sweep")
      BY <1>1 DEF Rearmed, InService, Turn
<1>3. Good(sessions[j], Rearmed(j), InService(j))
      BY DEF Core, SessionsOK
<1>4. sessions[j] \in SessionType
      BY DEF Core
<1> QED BY <1>1, <1>2, <1>3, <1>4 DEF Session

\* A read that finds nothing ends the turn.
LEMMA ReadLaterKeeps ==
    ASSUME Core, pc \in {"advance", "next"}, NEW n \in Nat, ReadLater(n)
    PROVE  Kept /\ pc' \in {"sweep", "evict"}
<1>1. Turn /\ Session \in SessionType /\ Good(Session, TRUE, TRUE)
  <2>1. Turn /\ (pc # "sweep") = TRUE
        BY DEF Turn
  <2> QED BY <2>1, SessionGood
<1>2. NextSession
      BY DEF ReadLater
<1>3. CASE Session.state = "connected"
  <2> DEFINE t == Awaiting(Session, n)
  <2>1. t \in SessionType /\ Good(t, TRUE, FALSE)
        BY <1>1, <1>3, AwaitingGood
  <2>2. t.state = Session.state
        BY <1>1 DEF Awaiting, Begun, SessionType
  <2>3. Become(t)
        BY <1>3 DEF ReadLater, Awaiting
  <2> HIDE DEF t
  <2> QED BY <1>1, <1>2, <2>1, <2>2, <2>3, LeavesWith
<1>4. CASE Session.state # "connected"
      BY <1>1, <1>2, <1>4, LeavesWithout DEF ReadLater
<1> QED BY <1>3, <1>4

\* One that finds something is taken up at once.
LEMMA ReadNowGood ==
    ASSUME Session \in SessionType, Good(Session, TRUE, TRUE), NEW n \in Nat
    PROVE  LET t == Gained(ReadNow(n)) IN
           /\ t \in SessionType /\ Good(t, TRUE, TRUE) /\ t.state = Session.state
<1> DEFINE all  == Session.got \o Taken(Session.inbox, n)
           left == Left(Session.inbox, n)
           t    == [Session EXCEPT !.io = "none", !.event = TRUE, !.inbox = left,
                                   !.got = all, !.data = <<>>, !.asked = 0]
<1>0. /\ ReadNow(n) = [Session EXCEPT !.io = "none", !.event = TRUE,
                             !.data = Taken(Session.inbox, n),
                             !.inbox = Left(Session.inbox, n)]
      /\ Taken(Session.inbox, n) \in Seq(Units) /\ Left(Session.inbox, n) \in Seq(Units)
      BY ReadNowKeeps, Zenon
<1>1. Gained(ReadNow(n)) = t
      BY <1>0 DEF Gained, SessionType
<1>2. all \in Seq(Units) /\ left \in Seq(Units) /\ <<>> \in Seq(Units)
      BY <1>0, ConcatProperties, EmptySeq DEF SessionType
<1> HIDE DEF all, left
<1>3. t \in SessionType
      BY <1>2 DEF SessionType
<1>4. /\ t.op = Session.op /\ t.io = "none" /\ t.state = Session.state
      /\ t.connected = Session.connected /\ t.stage = Session.stage /\ t.want = Session.want
      BY DEF SessionType
<1> HIDE DEF t
<1>5. Good(t, TRUE, TRUE)
  <2>1. Session.state # "listening" /\ Session.op = "Idle"
        BY DEF Good
  <2> QED BY <1>4, <2>1 DEF Good
<1> QED BY <1>1, <1>3, <1>4, <1>5

\* A turn that leaves the order and the history alone.
LEMMA KeptCore ==
    ASSUME Core, Kept, served' \in 0 .. MaxReqsPerWake,
           recency' = recency, active' = active,
           pc' = "advance" => served' < MaxReqsPerWake
    PROVE  Core'
BY DEF Core, Kept, ServerOK

\* advance_stages reads on.
LEMMA ReadMoreStep ==
    ASSUME Core, ReadMore PROVE Core'
<1> DEFINE n == Session.want - Len(Session.got)
<1>1. /\ pc = "advance" /\ served' = served /\ recency' = recency /\ active' = active
      /\ n > 0
      BY DEF ReadMore
<1>2. Turn /\ Session \in SessionType /\ Good(Session, TRUE, TRUE)
  <2>1. Turn /\ (pc # "sweep") = TRUE
        BY <1>1 DEF Turn
  <2> QED BY <2>1, SessionGood
<1>3. n \in Nat
  <2>1. Session.want \in Nat /\ Session.got \in Seq(Units)
        BY <1>2 DEF SessionType
  <2>2. Len(Session.got) \in Nat
        BY <2>1, LenProperties
  <2> QED BY <1>1, <2>1, <2>2
<1>4. served < MaxReqsPerWake /\ served \in 0 .. MaxReqsPerWake
      BY <1>1 DEF Core, ServerOK
<1>5. CASE ReadLater(n)
  <2> HIDE DEF n
  <2>1. Kept /\ pc' \in {"sweep", "evict"}
        BY <1>1, <1>3, <1>5, ReadLaterKeeps
  <2> QED BY <1>1, <1>4, <2>1, KeptCore
<1>6. CASE ~ReadLater(n)
  <2> DEFINE t == Gained(ReadNow(n))
  <2>1. Become(t) /\ pc' = pc /\ at' = at
        BY <1>6 DEF ReadMore
  <2> HIDE DEF n
  <2>2. t \in SessionType /\ Good(t, TRUE, TRUE) /\ t.state = Session.state
        BY <1>2, <1>3, ReadNowGood, Zenon
  <2> HIDE DEF t
  <2>3. Kept
        BY <1>1, <1>2, <2>1, <2>2, StaysWith
  <2> QED BY <1>1, <1>4, <2>3, KeptCore
<1> QED BY <1>5, <1>6

\* advance_one_stage has the header.
LEMMA HeaderDoneStep ==
    ASSUME Core, HeaderDone PROVE Core'
<1>1. /\ pc = "advance" /\ served' = served /\ recency' = recency /\ active' = active
      /\ Session.stage = "Header"
      BY DEF HeaderDone
<1>2. Turn /\ Session \in SessionType /\ Good(Session, TRUE, TRUE)
  <2>1. Turn /\ (pc # "sweep") = TRUE
        BY <1>1 DEF Turn
  <2> QED BY <2>1, SessionGood
<1>3. served < MaxReqsPerWake /\ served \in 0 .. MaxReqsPerWake
      BY <1>1 DEF Core, ServerOK
<1>4. CASE Session.got[1].kind = "malformed"
  <2>1. Disconnect(at) /\ NextSession
        BY <1>4 DEF HeaderDone
  <2>2. Kept /\ pc' \in {"sweep", "evict"}
        BY <1>2, <2>1, LeavesWithout
  <2> QED BY <1>1, <1>3, <2>2, KeptCore
<1>5. CASE Session.got[1].kind # "malformed"
  <2> DEFINE t == [Session EXCEPT !.stage = "Body", !.want = HeaderLen + BodyLen]
  <2>1. Become(t) /\ pc' = pc /\ at' = at
        BY <1>5 DEF HeaderDone
  <2>2. HeaderLen + BodyLen \in Nat
        BY ServerAssumption
  <2>3. t \in SessionType /\ t.state = Session.state
        BY <1>2, <2>2 DEF SessionType
  <2>4. /\ t.op = Session.op /\ t.io = Session.io /\ t.event = Session.event
        /\ t.connected = Session.connected /\ t.stage = "Body"
        /\ t.want = HeaderLen + BodyLen
        BY <1>2 DEF SessionType
  <2> HIDE DEF t
  <2>5. Good(t, TRUE, TRUE)
        BY <1>2, <2>3, <2>4 DEF Good
  <2>6. Kept
        BY <1>1, <1>2, <2>1, <2>3, <2>5, StaysWith
  <2> QED BY <1>1, <1>3, <2>6, KeptCore
<1> QED BY <1>4, <1>5

\* issue_next_read.
LEMMA NextReadStep ==
    ASSUME Core, NextRead PROVE Core'
<1>1. /\ pc = "next" /\ served' = served /\ recency' = recency /\ active' = active
      BY DEF NextRead
<1>2. Turn /\ Session \in SessionType /\ Good(Session, TRUE, TRUE)
  <2>1. Turn /\ (pc # "sweep") = TRUE
        BY <1>1 DEF Turn
  <2> QED BY <2>1, SessionGood
<1>3. HeaderLen \in Nat /\ served \in 0 .. MaxReqsPerWake
      BY ServerAssumption DEF Core
<1>4. CASE ReadLater(HeaderLen)
  <2>1. Kept /\ pc' \in {"sweep", "evict"}
        BY <1>1, <1>3, <1>4, ReadLaterKeeps
  <2> QED BY <1>1, <1>3, <2>1, KeptCore
<1>5. CASE ~ReadLater(HeaderLen) /\ served < MaxReqsPerWake
  <2> DEFINE t == Gained(ReadNow(HeaderLen))
  <2>1. Become(t) /\ pc' = "advance" /\ at' = at
        BY <1>5, <1>3, ServerAssumption DEF NextRead
  <2>2. t \in SessionType /\ Good(t, TRUE, TRUE) /\ t.state = Session.state
        BY <1>2, <1>3, ReadNowGood, Zenon
  <2> HIDE DEF t
  <2>3. Kept
        BY <1>1, <1>2, <2>1, <2>2, StaysWith
  <2> QED BY <1>1, <1>3, <1>5, <2>3, KeptCore
<1>6. CASE ~ReadLater(HeaderLen) /\ ~(served < MaxReqsPerWake)
  <2> DEFINE got  == Taken(Session.inbox, HeaderLen)
             left == Left(Session.inbox, HeaderLen)
             t    == [Session EXCEPT !.io = "none", !.event = TRUE, !.data = got,
                                     !.inbox = left, !.op = "ReadBuffered"]
  <2>1. Become([ReadNow(HeaderLen) EXCEPT !.op = "ReadBuffered"]) /\ NextSession
        BY <1>6 DEF NextRead
  <2>2. /\ ReadNow(HeaderLen) = [Session EXCEPT !.io = "none", !.event = TRUE,
                                    !.data = Taken(Session.inbox, HeaderLen),
                                    !.inbox = Left(Session.inbox, HeaderLen)]
        /\ Taken(Session.inbox, HeaderLen) \in Seq(Units)
        /\ Left(Session.inbox, HeaderLen) \in Seq(Units)
        BY <1>2, <1>3, ReadNowKeeps, Zenon
  <2>3. Become(t)
        BY <2>1, <2>2 DEF SessionType
  <2>4. got \in Seq(Units) /\ left \in Seq(Units)
        BY <2>2
  <2> HIDE DEF got, left
  <2>5. t \in SessionType
        BY <1>2, <2>4 DEF SessionType
  <2>6. /\ t.op = "ReadBuffered" /\ t.io = "none" /\ t.event = TRUE
        /\ t.state = Session.state /\ t.connected = Session.connected
        /\ t.stage = Session.stage /\ t.want = Session.want
        BY <1>2 DEF SessionType
  <2> HIDE DEF t
  <2>7. Good(t, TRUE, FALSE)
    <3>1. Session.connected /\ Session.state # "listening"
          BY <1>2 DEF Good
    <3> QED BY <1>2, <2>6, <3>1 DEF Good
  <2>8. Kept /\ pc' \in {"sweep", "evict"}
        BY <1>2, <2>1, <2>3, <2>5, <2>6, <2>7, LeavesWith
  <2> QED BY <1>1, <1>3, <2>8, KeptCore
<1> QED BY <1>4, <1>5, <1>6

\* What is answered is the number of a request, or 0.
LEMMA AnswerType ==
    ASSUME NEW got \in Seq(Units), Len(got) > 0
    PROVE  Answer(got) \in Nat
<1>1. got[1] \in Units
  <2>1. Len(got) \in Nat
        BY LenProperties
  <2>2. 1 \in 1 .. Len(got)
        BY <2>1
  <2> QED BY <2>2, ElementOfSeq
<1> QED BY <1>1 DEF Answer, Units

\* The session has been given what handle() answers, and its buffer is empty.
AnsweredWith(s, n) == [Begun(s) EXCEPT !.got = <<>>, !.stage = "Header",
                                       !.want = HeaderLen, !.write_buf = n]

LEMMA AnsweredKeeps ==
    ASSUME NEW s \in SessionType, NEW n \in Nat
    PROVE  LET t == AnsweredWith(s, n) IN
           /\ t \in SessionType
           /\ t.op = s.op /\ t.io = "none" /\ t.event = FALSE /\ t.state = s.state
           /\ t.connected = s.connected /\ t.stage = "Header" /\ t.want = HeaderLen
           /\ t.write_buf = n /\ t.outbox = s.outbox /\ t.got = <<>>
           /\ t.inbox = s.inbox /\ t.data = s.data
<1>1. HeaderLen \in Nat /\ <<>> \in Seq(Units)
      BY ServerAssumption, EmptySeq
<1>2. AnsweredWith(s, n) = [s EXCEPT !.io = "none", !.event = FALSE, !.got = <<>>,
                               !.stage = "Header", !.want = HeaderLen, !.write_buf = n]
      BY DEF AnsweredWith, Begun, SessionType
<1> DEFINE t == [s EXCEPT !.io = "none", !.event = FALSE, !.got = <<>>,
                         !.stage = "Header", !.want = HeaderLen, !.write_buf = n]
<1>3. t \in SessionType
      BY <1>1 DEF SessionType
<1>4. /\ t.op = s.op /\ t.io = "none" /\ t.event = FALSE /\ t.state = s.state
      /\ t.connected = s.connected /\ t.stage = "Header" /\ t.want = HeaderLen
      /\ t.write_buf = n /\ t.outbox = s.outbox /\ t.got = <<>>
      /\ t.inbox = s.inbox /\ t.data = s.data
      BY DEF SessionType
<1> QED BY <1>2, <1>3, <1>4, Zenon

\* handle_complete_request: the answer has found room, or waits for it.
LEMMA HandleRequestStep ==
    ASSUME Core, HandleRequest PROVE Core'
<1> DEFINE n == Answer(Session.got)
           a == AnsweredWith(Session, n)
<1>1. /\ pc = "advance" /\ recency' = recency /\ active' = active
      /\ Session.stage = "Body" /\ Len(Session.got) >= Session.want
      BY DEF HandleRequest
<1>2. Turn /\ Session \in SessionType /\ Good(Session, TRUE, TRUE)
  <2>1. Turn /\ (pc # "sweep") = TRUE
        BY <1>1 DEF Turn
  <2> QED BY <2>1, SessionGood
<1>3. /\ served < MaxReqsPerWake /\ served \in 0 .. MaxReqsPerWake
      /\ MaxReqsPerWake \in Nat
      BY <1>1, ServerAssumption DEF Core, ServerOK
<1>4. n \in Nat
  <2>1. Session.got \in Seq(Units)
        BY <1>2 DEF SessionType
  <2>2. Len(Session.got) \in Nat /\ Len(Session.got) > 0
    <3>1. Session.want = HeaderLen + BodyLen
          BY <1>1, <1>2 DEF Good
    <3> QED BY <1>1, <2>1, <3>1, LenProperties, ServerAssumption
  <2> QED BY <2>1, <2>2, AnswerType
<1> HIDE DEF n
<1>5. /\ a \in SessionType
      /\ a.op = Session.op /\ a.io = "none" /\ a.event = FALSE /\ a.state = Session.state
      /\ a.connected = Session.connected /\ a.stage = "Header" /\ a.want = HeaderLen
      /\ a.write_buf = n /\ a.outbox = Session.outbox
      BY <1>2, <1>4, AnsweredKeeps, Zenon
<1>6. /\ served' \in 0 .. MaxReqsPerWake
      BY <1>3 DEF HandleRequest
<1>7. CASE Disconnect(at) /\ NextSession
  <2>1. Kept /\ pc' \in {"sweep", "evict"}
        BY <1>2, <1>7, LeavesWithout
  <2> QED BY <1>1, <1>6, <2>1, KeptCore
<1>8. CASE ~(Disconnect(at) /\ NextSession) /\ Len(Session.outbox) < OutRoom
  <2> DEFINE out == Append(Session.outbox, n)
             t   == [a EXCEPT !.event = TRUE, !.outbox = out]
  <2>1. /\ Become([a EXCEPT !.event = TRUE, !.outbox = Append(@, a.write_buf)])
        /\ pc' = "next" /\ at' = at /\ Session.state = "connected"
        BY <1>8 DEF HandleRequest, AnsweredWith, n
  <2>2. Become(t)
        BY <1>5, <2>1 DEF SessionType
  <2>3. out \in Seq(Nat)
        BY <1>2, <1>4, AppendProperties DEF SessionType
  <2> HIDE DEF out, a
  <2>4. t \in SessionType
        BY <1>5, <2>3 DEF SessionType
  <2>5. /\ t.op = a.op /\ t.io = a.io /\ t.event = TRUE
        /\ t.state = a.state /\ t.connected = a.connected
        /\ t.stage = a.stage /\ t.want = a.want
        BY <1>5 DEF SessionType
  <2> HIDE DEF t
  <2>6. Good(t, TRUE, TRUE)
        BY <1>2, <1>5, <2>1, <2>5 DEF Good
  <2>7. Kept
        BY <1>2, <1>5, <2>1, <2>2, <2>4, <2>5, <2>6, StaysWith
  <2> QED BY <1>1, <1>6, <2>1, <2>7, KeptCore
<1>9. CASE ~(Disconnect(at) /\ NextSession) /\ ~(Len(Session.outbox) < OutRoom)
  <2> DEFINE t == [a EXCEPT !.op = "WritePending", !.io = "pending"]
  <2>1. Become(t) /\ NextSession /\ Session.state = "connected"
        BY <1>9 DEF HandleRequest, AnsweredWith, n
  <2> HIDE DEF a
  <2>2. t \in SessionType
        BY <1>5 DEF SessionType
  <2>3. /\ t.op = "WritePending" /\ t.io = "pending" /\ t.event = FALSE
        /\ t.state = a.state /\ t.connected = a.connected
        /\ t.stage = a.stage /\ t.want = a.want
        BY <1>5 DEF SessionType
  <2> HIDE DEF t
  <2>4. Good(t, TRUE, FALSE)
        BY <1>2, <1>5, <2>1, <2>3 DEF Good
  <2>5. Kept /\ pc' \in {"sweep", "evict"}
        BY <1>2, <1>5, <2>1, <2>2, <2>3, <2>4, LeavesWith
  <2> QED BY <1>1, <1>6, <2>5, KeptCore
<1> QED BY <1>7, <1>8, <1>9

\* service_session starts with what the completed operation says.
LEMMA ServiceStep ==
    ASSUME Core, Service PROVE Core'
<1>1. PICK j \in Ids : j = at
      BY DEF Core
<1>2. /\ pc = "sweep" /\ Session.event
      /\ served' = 0 /\ active' = active \cup {j} /\ recency' = MovedLast(recency, j)
      BY <1>1 DEF Service
<1>3. Turn /\ Session \in SessionType /\ Good(Session, TRUE, FALSE)
  <2>1. Turn /\ (pc # "sweep") = FALSE
        BY <1>2 DEF Turn
  <2> QED BY <2>1, SessionGood
<1>4. 0 \in 0 .. MaxReqsPerWake /\ 0 < MaxReqsPerWake
      BY ServerAssumption
<1>5. /\ recency' \in [Ids -> Ids]
      /\ \A k, l \in Ids : recency'[k] = recency'[l] => k = l
      /\ \A k \in Ids : \E l \in Ids : recency'[l] = k
  <2>1. /\ recency \in [Ids -> Ids]
        /\ \A k, l \in Ids : recency[k] = recency[l] => k = l
        /\ \A k \in Ids : \E l \in Ids : recency[l] = k
        BY DEF Core, ServerOK
  <2> DEFINE moved == MovedLast(recency, j)
  <2>2. /\ moved \in [Ids -> Ids]
        /\ \A k, l \in Ids : moved[k] = moved[l] => k = l
        /\ \A k \in Ids : \E l \in Ids : moved[l] = k
        BY <2>1, MovedLastPermutes, Zenon
  <2> QED BY <1>2, <2>2
<1>6. Kept
  <2>1. CASE Session.op \in {"ReadPending", "WritePending"} /\ Session.io = "pending"
        BY <1>2, <1>3, <2>1 DEF Good
  <2>2. CASE /\ ~(Session.op \in {"ReadPending", "WritePending"} /\ Session.io = "pending")
             /\ Failed(Session)
    <3>1. Disconnect(at) /\ NextSession
          BY <2>2 DEF Service
    <3> QED BY <1>3, <3>1, LeavesWithout
  <2>3. CASE /\ ~(Session.op \in {"ReadPending", "WritePending"} /\ Session.io = "pending")
             /\ ~Failed(Session)
    <3> DEFINE t == Consumed(Session)
    <3>1. Become(t) /\ pc' = "advance" /\ at' = at
          BY <2>3 DEF Service
    <3>2. t \in SessionType /\ Good(t, TRUE, TRUE)
          BY <1>2, <1>3, <2>3, ConsumedGood, Zenon
    <3>3. t.state = Session.state
          BY <1>3 DEF Consumed, Gained, SessionType
    <3> HIDE DEF t
    <3> QED BY <1>3, <3>1, <3>2, <3>3, StaysWith
  <2> QED BY <2>1, <2>2, <2>3
<1> QED BY <1>2, <1>4, <1>5, <1>6 DEF Core, Kept, ServerOK

\* When it has seen all, room is made, or there is room.
LEMMA EvictStep ==
    ASSUME Core, Evict PROVE Core'
<1>1. /\ pc = "evict" /\ pc' = "wait" /\ at' = at /\ at = 1
      /\ served' = served /\ recency' = recency /\ active' = active
      BY DEF Evict, Core, ServerOK
<1>2. \A i \in Ids : Rearmed(i) /\ Rearmed(i)' /\ ~InService(i) /\ ~InService(i)'
      BY <1>1 DEF Rearmed, InService
<1>3. \A i \in Ids : Rearmed(i)' = Rearmed(i) /\ InService(i)' = InService(i)
      BY <1>1 DEF Rearmed, InService
<1>4. CASE \A i \in Ids : sessions[i].connected
  <2>1. PICK j \in Ids : j = recency[1]
    <3>1. 1 \in Ids
          BY <1>1 DEF Core
    <3> QED BY <3>1 DEF Core
  <2>2. Disconnect(j)
        BY <1>4, <2>1 DEF Evict
  <2>3. /\ sessions' \in [Ids -> SessionType] /\ SessionsOK'
        /\ OwnersOK' /\ conn' \in [Clients -> ConnType]
        BY <1>2, <1>3, <2>2, DisconnectStep
  <2> QED BY <1>1, <2>3 DEF Core, ServerOK
<1>5. CASE ~\A i \in Ids : sessions[i].connected
  <2>1. sessions' = sessions /\ conn' = conn
        BY <1>5 DEF Evict
  <2>2. SessionsOK'
        BY <1>3, <2>1 DEF Core, SessionsOK
  <2>3. OwnersOK'
        BY <2>1 DEF Core, OwnersOK, Connected
  <2> QED BY <1>1, <2>1, <2>2, <2>3 DEF Core, ServerOK
<1> QED BY <1>4, <1>5

\* All that the server does.
LEMMA ServerStep ==
    ASSUME Core, Server \/ WatcherWake PROVE Core'
BY RearmStep, WakesStep, SkipStep, ServiceStep, ReadMoreStep, HeaderDoneStep,
   HandleRequestStep, NextReadStep, EvictStep
   DEF Server, Wake, WatcherWake

\* A client changes one session and its own side of the connection.
LEMMA ClientChange ==
    ASSUME Core, UNCHANGED <<pc, at, served, recency, active>>,
           NEW j \in Ids, NEW t \in SessionType, NEW c \in Clients, NEW d \in ConnType,
           sessions' = [sessions EXCEPT ![j] = t],
           Good(t, Rearmed(j), InService(j)),
           conn' = [conn EXCEPT ![c] = d],
           d.id \in {0, j} /\ (Connected(c) => conn[c].id = j),
           Connected(c) \/ sessions[j].state # "connected",
           d.id = j => t.state = "connected"
    PROVE  Core'
<1>1. \A i \in Ids : Rearmed(i)' = Rearmed(i) /\ InService(i)' = InService(i)
      BY DEF Rearmed, InService
<1>2. sessions' \in [Ids -> SessionType] /\ SessionsOK'
  <2>1. Good(t, Rearmed(j)', InService(j)')
        BY <1>1
  <2> QED BY <1>1, <2>1, ReplaceStep
<1>3. conn' \in [Clients -> ConnType] /\ conn'[c] = d
      /\ \A e \in Clients \ {c} : conn'[e] = conn[e]
      BY DEF Core
<1>4. \A e \in Clients \ {c} : /\ Connected(e)' <=> Connected(e)
                               /\ Connected(e) => conn[e].id \in Ids /\ conn[e].id # j
  <2>1. ASSUME NEW e \in Clients \ {c}, Connected(e) PROVE conn[e].id \in Ids /\ conn[e].id # j
        BY <2>1 DEF Core, ConnType, Connected, Ids, OwnersOK
  <2> QED BY <1>3, <2>1 DEF Connected
<1>5. \A e \in Clients : Connected(e)' => sessions'[conn'[e].id].state = "connected"
  <2> SUFFICES ASSUME NEW e \in Clients, Connected(e)'
               PROVE  sessions'[conn'[e].id].state = "connected"
      OBVIOUS
  <2>1. CASE e = c
        BY <1>3, <2>1 DEF Connected, Core
  <2>2. CASE e # c
        BY <1>3, <1>4, <2>2 DEF Core, OwnersOK
  <2> QED BY <2>1, <2>2
<1>6. \A e, f \in Clients : Connected(e)' /\ conn'[e].id = conn'[f].id => e = f
  <2> SUFFICES ASSUME NEW e \in Clients, NEW f \in Clients, Connected(e)',
                      conn'[e].id = conn'[f].id
               PROVE  e = f
      OBVIOUS
  <2>1. Connected(f)'
        BY DEF Connected
  <2>2. CASE e = c \/ f = c
        BY <1>3, <1>4, <2>1, <2>2 DEF Connected
  <2>3. CASE e # c /\ f # c
        BY <1>3, <1>4, <2>3 DEF Core, OwnersOK
  <2> QED BY <2>2, <2>3
<1> QED BY <1>2, <1>3, <1>5, <1>6 DEF Core, OwnersOK, ServerOK

\* A client that is connected has a session, which is connected as well.
LEMMA ConnectedSession ==
    ASSUME Core, NEW c \in Clients, Connected(c)
    PROVE  /\ conn[c].id \in Ids /\ conn[c] \in ConnType
           /\ sessions[conn[c].id] \in SessionType
           /\ sessions[conn[c].id].state = "connected"
           /\ Good(sessions[conn[c].id], Rearmed(conn[c].id), InService(conn[c].id))
<1>1. conn[c].id \in Ids /\ conn[c] \in ConnType
      BY DEF Core, ConnType, Connected, Ids
<1> QED BY <1>1 DEF Core, SessionsOK, OwnersOK

LEMMA ConnectStep ==
    ASSUME Core, UNCHANGED <<pc, at, served, recency, active>>,
           NEW c \in Clients, NEW i \in Ids, Connect(c, i)
    PROVE  Core'
<1> DEFINE t == Opened(sessions[i])
           d == [conn[c] EXCEPT !.id = i]
<1>1. /\ ~Connected(c)
      /\ sessions[i].state = "listening" \/ (EarlyClients /\ sessions[i].state = "created")
      /\ sessions' = [sessions EXCEPT ![i] = t] /\ conn' = [conn EXCEPT ![c] = d]
      BY DEF Connect, Core
<1>2. d \in ConnType /\ d.id = i
  <2>1. conn[c] \in ConnType /\ i \in 0 .. MaxSessions
        BY ServerAssumption DEF Core, Ids
  <2> QED BY <2>1 DEF ConnType
<1>3. /\ sessions[i] \in SessionType /\ Good(sessions[i], Rearmed(i), InService(i))
      /\ Rearmed(i) \in BOOLEAN /\ InService(i) \in BOOLEAN
      BY DEF Core, SessionsOK, Rearmed, InService
<1>4. t \in SessionType /\ t.state = "connected"
      BY <1>3, OpenedKeeps, Zenon
<1>5. Good(t, Rearmed(i), InService(i))
      BY <1>1, <1>3, OpenedGood
<1> HIDE DEF t, d
<1> QED BY <1>1, <1>2, <1>4, <1>5, ClientChange

LEMMA WriteStep ==
    ASSUME Core, UNCHANGED <<pc, at, served, recency, active>>,
           NEW c \in Clients, NEW kind \in Kinds, NEW n \in Nat, Write(c, kind, n)
    PROVE  Core'
<1> DEFINE new   == conn[c].rest = <<>>
           rest  == IF new THEN Frame(conn[c].frames + 1, kind) ELSE conn[c].rest
           left  == Left(rest, n)
           frames == IF new THEN conn[c].frames + 1 ELSE conn[c].frames
           d == [conn[c] EXCEPT !.rest = left, !.frames = frames]
<1>1. Connected(c)
      BY DEF Write
<1>2. PICK j \in Ids : j = conn[c].id
      BY <1>1, ConnectedSession
<1>3. /\ conn[c] \in ConnType /\ sessions[j] \in SessionType
      /\ sessions[j].state = "connected" /\ Good(sessions[j], Rearmed(j), InService(j))
      BY <1>1, <1>2, ConnectedSession
<1> DEFINE t == Received(sessions[j], Taken(rest, n))
<1>4. /\ sessions' = [sessions EXCEPT ![j] = t]
      /\ conn' = [conn EXCEPT ![c].rest = left, ![c].frames = frames]
      BY <1>2, <1>3 DEF Write, Core
<1>5. rest \in Seq(Units)
  <2>1. conn[c].frames + 1 \in Nat /\ conn[c].rest \in Seq(Units)
        BY <1>3 DEF ConnType
  <2> QED BY <2>1, FrameType
<1>6. Taken(rest, n) \in Seq(Units) /\ left \in Seq(Units)
  <2> HIDE DEF rest
  <2> QED BY <1>5, TakenAndLeft
<1>7. frames \in Nat
      BY <1>3 DEF ConnType
<1> HIDE DEF rest, left, frames
<1>8. conn' = [conn EXCEPT ![c] = d]
      BY <1>3, <1>4 DEF Core, ConnType
<1>9. d \in ConnType /\ d.id = j
      BY <1>2, <1>3, <1>6, <1>7 DEF ConnType
<1>10. Rearmed(j) \in BOOLEAN /\ InService(j) \in BOOLEAN
      BY DEF Rearmed, InService
<1>11. t \in SessionType /\ t.state = sessions[j].state
      BY <1>3, <1>6, ReceivedKeeps, Zenon
<1>12. Good(t, Rearmed(j), InService(j))
      BY <1>3, <1>6, <1>10, ReceivedGood
<1> HIDE DEF t, d
<1> QED BY <1>1, <1>2, <1>3, <1>4, <1>8, <1>9, <1>11, <1>12, ClientChange

LEMMA ReadStep ==
    ASSUME Core, UNCHANGED <<pc, at, served, recency, active>>,
           NEW c \in Clients, Read(c)
    PROVE  Core'
<1>1. Connected(c)
      BY DEF Read
<1>2. PICK j \in Ids : j = conn[c].id
      BY <1>1, ConnectedSession
<1>3. /\ conn[c] \in ConnType /\ sessions[j] \in SessionType
      /\ sessions[j].state = "connected" /\ Good(sessions[j], Rearmed(j), InService(j))
      BY <1>1, <1>2, ConnectedSession
<1> DEFINE t    == Drained(sessions[j])
           read == Append(conn[c].read, Head(sessions[j].outbox))
           d    == [conn[c] EXCEPT !.read = read]
<1>4. /\ sessions[j].outbox # <<>>
      /\ sessions' = [sessions EXCEPT ![j] = t]
      /\ conn' = [conn EXCEPT ![c] = d]
      BY <1>2 DEF Read, Core
<1>5. read \in Seq(Nat)
  <2>1. sessions[j].outbox \in Seq(Nat) /\ conn[c].read \in Seq(Nat)
        BY <1>3 DEF SessionType, ConnType
  <2>2. Head(sessions[j].outbox) \in Nat
        BY <1>4, <2>1, HeadTailProperties
  <2> QED BY <2>1, <2>2, AppendProperties
<1> HIDE DEF read
<1>6. d \in ConnType /\ d.id = j
      BY <1>2, <1>3, <1>5 DEF ConnType
<1>7. Rearmed(j) \in BOOLEAN /\ InService(j) \in BOOLEAN
      BY DEF Rearmed, InService
<1>8. t \in SessionType /\ t.state = sessions[j].state
      BY <1>3, <1>4, DrainedKeeps, Zenon
<1>9. Good(t, Rearmed(j), InService(j))
      BY <1>3, <1>4, <1>7, DrainedGood
<1> HIDE DEF t, d
<1> QED BY <1>1, <1>2, <1>3, <1>4, <1>6, <1>8, <1>9, ClientChange

LEMMA CloseStep ==
    ASSUME Core, UNCHANGED <<pc, at, served, recency, active>>,
           NEW c \in Clients, Close(c)
    PROVE  Core'
<1>1. Connected(c)
      BY DEF Close
<1>2. PICK j \in Ids : j = conn[c].id
      BY <1>1, ConnectedSession
<1>3. /\ sessions[j] \in SessionType
      /\ sessions[j].state = "connected" /\ Good(sessions[j], Rearmed(j), InService(j))
      BY <1>1, <1>2, ConnectedSession
<1> DEFINE t == Closed(sessions[j])
<1>4. sessions' = [sessions EXCEPT ![j] = t] /\ conn' = [conn EXCEPT ![c] = NoConn]
      BY <1>2 DEF Close, Core
<1>5. NoConn \in ConnType /\ NoConn.id = 0 /\ ~(0 \in Ids)
      BY EmptySeq, ServerAssumption DEF NoConn, ConnType, Ids
<1>6. Rearmed(j) \in BOOLEAN /\ InService(j) \in BOOLEAN
      BY DEF Rearmed, InService
<1>7. t \in SessionType
      BY <1>3, ClosedKeeps, Zenon
<1>8. Good(t, Rearmed(j), InService(j))
      BY <1>3, <1>6, ClosedGood
<1> HIDE DEF t
<1> QED BY <1>1, <1>2, <1>3, <1>4, <1>5, <1>7, <1>8, ClientChange

\* All that a client does.
LEMMA ClientStep ==
    ASSUME Core, NEW c \in Clients, Client(c), UNCHANGED <<pc, at, served, recency, active>>
    PROVE  Core'
<1>1. \A n \in 1 .. HeaderLen + BodyLen : n \in Nat
      BY ServerAssumption
<1> QED BY <1>1, ConnectStep, WriteStep, ReadStep, CloseStep DEF Client

----------------------------------------------------------------------------
(* The theorems.                                                           *)

LEMMA InvariantInit == Init => IInv
<1> SUFFICES ASSUME Init PROVE IInv
    OBVIOUS
<1>1. /\ MaxSessions \in Nat \ {0} /\ Ids = 1 .. MaxSessions /\ HeaderLen \in Nat
      /\ MaxReqsPerWake \in Nat \ {0} /\ MaxConnections \in Nat
      BY ServerAssumption DEF Ids
<1>2. NoConn \in ConnType /\ NoConn.id = 0
      BY EmptySeq, <1>1 DEF NoConn, ConnType
<1>3. TypeOK
      BY <1>1, <1>2, FreshType DEF Init, TypeOK
<1>4. \A i \in Ids : ~Rearmed(i) /\ ~InService(i)
      BY <1>1 DEF Init, Rearmed, InService
<1>5. Good(Fresh, FALSE, FALSE)
      BY DEF Good, Fresh
<1>6. SessionsOK
  <2>1. ASSUME NEW i \in Ids PROVE Good(sessions[i], Rearmed(i), InService(i))
    <3>1. sessions[i] = Fresh /\ Rearmed(i) = FALSE /\ InService(i) = FALSE
          BY <1>4 DEF Init, Rearmed, InService
    <3> QED BY <1>5, <3>1
  <2> QED BY <2>1 DEF SessionsOK
<1>7. ServerOK
      BY DEF Init, ServerOK
<1>8. OwnersOK
      BY <1>2 DEF Init, OwnersOK, Connected
<1> QED BY <1>3, <1>6, <1>7, <1>8 DEF IInv

LEMMA InvariantStep == IInv /\ [Next]_vars => IInv'
<1> SUFFICES ASSUME IInv, [Next]_vars PROVE IInv'
    OBVIOUS
<1>1. Core /\ tries \in [Clients -> 0 .. MaxConnections] /\ waited \in [Ids -> Nat]
      BY DEF IInv, TypeOK, Core
<1>2. CASE Next
  <2>1. Core'
        BY <1>1, <1>2, ServerStep, ClientStep DEF Next
  <2>2. tries' \in [Clients -> 0 .. MaxConnections]
    <3>1. CASE tries' = tries
          BY <1>1, <3>1
    <3>2. CASE tries' # tries
      <4>1. PICK c \in Clients : Client(c)
            BY <1>2, <3>2 DEF Next
      <4>2. PICK i \in Ids : Connect(c, i)
            BY <3>2, <4>1 DEF Client, Write, Read, Close
      <4>3. tries[c] < MaxConnections /\ tries' = [tries EXCEPT ![c] = @ + 1]
            BY <4>2 DEF Connect
      <4> QED BY <1>1, <4>3, ServerAssumption
    <3> QED BY <3>1, <3>2
  <2>3. waited' \in [Ids -> Nat]
        BY <1>1, <1>2 DEF Next, History
  <2> QED BY <2>1, <2>2, <2>3 DEF Core, IInv, TypeOK
<1>3. CASE UNCHANGED vars
      BY <1>3 DEF vars, IInv, TypeOK, SessionsOK, ServerOK, OwnersOK, Rearmed, InService,
                  Connected
<1> QED BY <1>2, <1>3

\* The inductive invariant holds in every state of every behaviour.
THEOREM Invariance == Spec => []IInv
<1> QED BY InvariantInit, InvariantStep, PTL DEF Spec

\* All variables, and all fields of the sessions, keep their types.
THEOREM TypeCorrectness == Spec => []TypeOK
<1>1. IInv => TypeOK
      BY DEF IInv
<1> QED BY <1>1, Invariance, PTL

\* service_session neither meets an operation that is still going on nor none at
\* all, and begin_op never clears the event of one that the kernel works on.
THEOREM EventsMeanDone == Spec => []EventMeansDone
<1>1. IInv => EventMeansDone
  <2> SUFFICES ASSUME IInv, NEW i \in Ids
               PROVE  IF InService(i)
                      THEN sessions[i].op = "Idle" /\ sessions[i].io # "pending"
                      ELSE /\ sessions[i].op # "Idle"
                           /\ sessions[i].event <=> (sessions[i].io \in {"done", "failed"}
                                                     \/ sessions[i].op = "ReadBuffered")
      BY DEF EventMeansDone
  <2>1. Good(sessions[i], Rearmed(i), InService(i))
        BY DEF IInv, SessionsOK
  <2> QED BY <2>1 DEF Good
<1> QED BY <1>1, Invariance, PTL

----------------------------------------------------------------------------
(* Room for a client.                                                      *)

\* What a client does to a session is none of what the server alone writes.
LEMMA ClientSameServerSide ==
    ASSUME Core, NEW c \in Clients, Client(c)
    PROVE  \A i \in Ids : SameServerSide(sessions[i], sessions'[i])
<1>1. \A s : SameServerSide(s, s)
      BY DEF SameServerSide
<1>2. ASSUME NEW j \in Ids, NEW t, sessions' = [sessions EXCEPT ![j] = t],
             SameServerSide(sessions[j], t)
      PROVE  \A i \in Ids : SameServerSide(sessions[i], sessions'[i])
      BY <1>1, <1>2 DEF Core
<1>3. ASSUME NEW i \in Ids, Connect(c, i)
      PROVE  \A k \in Ids : SameServerSide(sessions[k], sessions'[k])
  <2> DEFINE t == Opened(sessions[i])
  <2>1. sessions' = [sessions EXCEPT ![i] = t]
        BY <1>3 DEF Connect
  <2>2. SameServerSide(sessions[i], t)
    <3>1. sessions[i] \in SessionType
          BY DEF Core
    <3> QED BY <3>1, OpenedKeeps, Zenon
  <2> HIDE DEF t
  <2> QED BY <1>2, <2>1, <2>2
<1>4. ASSUME NEW kind \in Kinds, NEW n \in 1 .. HeaderLen + BodyLen, Write(c, kind, n)
      PROVE  \A k \in Ids : SameServerSide(sessions[k], sessions'[k])
  <2>1. Connected(c)
        BY <1>4 DEF Write
  <2>2. PICK j \in Ids : j = conn[c].id
        BY <2>1, ConnectedSession
  <2>3. conn[c] \in ConnType /\ sessions[j] \in SessionType
        BY <2>1, <2>2, ConnectedSession
  <2> DEFINE rest == IF conn[c].rest = <<>> THEN Frame(conn[c].frames + 1, kind)
                                            ELSE conn[c].rest
             t    == Received(sessions[j], Taken(rest, n))
  <2>4. sessions' = [sessions EXCEPT ![j] = t]
        BY <1>4, <2>2 DEF Write
  <2>5. rest \in Seq(Units)
    <3>1. conn[c].frames + 1 \in Nat /\ conn[c].rest \in Seq(Units)
          BY <2>3 DEF ConnType
    <3> QED BY <3>1, FrameType
  <2> HIDE DEF rest
  <2>6. Taken(rest, n) \in Seq(Units)
    <3>1. n \in Nat
          BY ServerAssumption
    <3> QED BY <2>5, <3>1, TakenAndLeft
  <2>7. SameServerSide(sessions[j], t)
        BY <2>3, <2>6, ReceivedKeeps, Zenon
  <2> HIDE DEF t
  <2> QED BY <1>2, <2>4, <2>7
<1>5. ASSUME Read(c)
      PROVE  \A k \in Ids : SameServerSide(sessions[k], sessions'[k])
  <2>1. Connected(c)
        BY <1>5 DEF Read
  <2>2. PICK j \in Ids : j = conn[c].id
        BY <2>1, ConnectedSession
  <2> DEFINE t == Drained(sessions[j])
  <2>3. sessions' = [sessions EXCEPT ![j] = t] /\ sessions[j].outbox # <<>>
        BY <1>5, <2>2 DEF Read
  <2>4. SameServerSide(sessions[j], t)
    <3>1. sessions[j] \in SessionType
          BY DEF Core
    <3> QED BY <2>3, <3>1, DrainedKeeps, Zenon
  <2> HIDE DEF t
  <2> QED BY <1>2, <2>3, <2>4
<1>6. ASSUME Close(c)
      PROVE  \A k \in Ids : SameServerSide(sessions[k], sessions'[k])
  <2>1. Connected(c)
        BY <1>6 DEF Close
  <2>2. PICK j \in Ids : j = conn[c].id
        BY <2>1, ConnectedSession
  <2> DEFINE t == Closed(sessions[j])
  <2>3. sessions' = [sessions EXCEPT ![j] = t]
        BY <1>6, <2>2 DEF Close
  <2>4. SameServerSide(sessions[j], t)
    <3>1. sessions[j] \in SessionType
          BY DEF Core
    <3> QED BY <3>1, ClosedKeeps, Zenon
  <2> HIDE DEF t
  <2> QED BY <1>2, <2>3, <2>4
<1> QED BY <1>3, <1>4, <1>5, <1>6 DEF Client

\* While the server waits, not every session is connected.
NotFull == pc = "wait" => \E i \in Ids : ~sessions[i].connected

LEMMA NotFullStep ==
    ASSUME IInv, NotFull, [Next]_vars PROVE NotFull'
<1> SUFFICES ASSUME pc' = "wait" PROVE \E i \in Ids : ~sessions'[i].connected
    BY DEF NotFull
<1>1. Core
      BY DEF IInv, TypeOK, Core
<1>2. CASE Rearm
  <2>1. PICK j \in Ids : j = at
        BY <1>1 DEF Core
  <2>2. pc = "new" /\ sessions' = [sessions EXCEPT ![j] = RearmConnect(sessions[j])]
        BY <1>2, <2>1 DEF Rearm, Become, Session
  <2>3. sessions[j] \in SessionType /\ Good(sessions[j], FALSE, FALSE)
    <3>1. Rearmed(j) = FALSE /\ InService(j) = FALSE
          BY <2>1, <2>2, ServerAssumption DEF Rearmed, InService, Ids
    <3> QED BY <1>1, <3>1 DEF Core, SessionsOK
  <2>4. ~RearmConnect(sessions[j]).connected
        BY <2>3 DEF RearmConnect, Begun, Over, Good, SessionType
  <2> QED BY <1>1, <2>2, <2>4 DEF Core
<1>3. CASE Evict
  <2>1. CASE \A i \in Ids : sessions[i].connected
    <3>1. PICK j \in Ids : j = recency[1]
      <4>1. 1 \in Ids
            BY ServerAssumption DEF Ids
      <4> QED BY <1>1, <4>1 DEF Core
    <3>2. sessions' = [sessions EXCEPT ![j] = RearmConnect(Fresh)]
          BY <1>3, <2>1, <3>1 DEF Evict, Disconnect
    <3> QED BY <1>1, <3>2, RearmedFresh DEF Core
  <2>2. CASE ~\A i \in Ids : sessions[i].connected
        BY <1>3, <2>2 DEF Evict
  <2> QED BY <2>1, <2>2
<1>4. CASE pc = "wait" /\ \E c \in Clients : Client(c)
  <2>1. \A i \in Ids : SameServerSide(sessions[i], sessions'[i])
        BY <1>1, <1>4, ClientSameServerSide
  <2> QED BY <1>4, <2>1 DEF NotFull, SameServerSide
<1>5. CASE UNCHANGED vars
      BY <1>5 DEF vars, NotFull
<1>6. ~(pc' = "wait" /\ (Wake \/ WatcherWake \/ Skip \/ Service \/ ReadMore \/ HeaderDone
                         \/ HandleRequest \/ NextRead))
      BY DEF Wake, WatcherWake, Wakes, Skip, Service, ReadMore, ReadLater, HeaderDone,
             HandleRequest, NextRead, NextSession
<1> QED BY <1>2, <1>3, <1>4, <1>5, <1>6 DEF Next, Server

\* When no client comes before Server::new is done, the server never waits with
\* no instance that a client could open: after an eviction as at any other time.
THEOREM RoomForOne ==
    ASSUME EarlyClients = FALSE PROVE Spec => []SlotFree
<1>1. Init => NotFull
      BY DEF Init, NotFull
<1>2. IInv /\ NotFull /\ [Next]_vars => NotFull'
      BY NotFullStep
<1>3. IInv /\ NotFull => SlotFree
  <2> SUFFICES ASSUME IInv, NotFull, pc = "wait" PROVE SlotFree
      BY DEF SlotFree
  <2>1. PICK i \in Ids : ~sessions[i].connected
        BY DEF NotFull
  <2>2. Good(sessions[i], Rearmed(i), InService(i)) /\ Rearmed(i)
        BY DEF IInv, SessionsOK, Rearmed
  <2>3. sessions[i].state = "listening" \/ sessions[i].event
        BY <2>1, <2>2 DEF Good
  <2> QED BY <2>1, <2>3 DEF SlotFree
<1> QED BY <1>1, <1>2, <1>3, Invariance, PTL DEF Spec

----------------------------------------------------------------------------
(* Fairness between the clients.                                           *)

LEMMA ProductSucc == ASSUME NEW a \in Nat, NEW m \in Nat PROVE (a + 1) * m = a * m + m
OBVIOUS

LEMMA ProductNat == ASSUME NEW a \in Nat, NEW m \in Nat PROVE a * m \in Nat
OBVIOUS

\* How many sessions may have had a turn since it was last that of i.
Past(i) == IF i < at THEN at - i - 1 ELSE MaxSessions - i + at - 1

\* What the session in service has been answered in its turn.
Current(i) == IF i # at /\ pc \in {"advance", "next"} THEN served ELSE 0

\* No session waits for more than the shares of those.
Shares == /\ \A i \in Ids : waited[i] <= Past(i) * MaxReqsPerWake + Current(i)
          /\ pc = "new" => \A i \in Ids : waited[i] = 0

LEMMA TurnsNat ==
    ASSUME NEW n \in Nat, NEW k \in 1 .. n, NEW i \in 1 .. n
    PROVE  (IF i < k THEN k - i - 1 ELSE n - i + k - 1) \in Nat
<1>1. i \in Int /\ k \in Int /\ 1 <= i /\ i <= n /\ 1 <= k /\ k <= n
      OBVIOUS
<1> QED BY <1>1

LEMMA PastNat ==
    ASSUME Core, NEW i \in Ids
    PROVE  /\ Past(i) \in Nat /\ Past(i) <= MaxSessions - 1
           /\ i # at => Past(i) + 1 <= MaxSessions - 1
           /\ Current(i) \in 0 .. MaxReqsPerWake
<1>1. MaxSessions \in Nat /\ at \in 1 .. MaxSessions /\ i \in 1 .. MaxSessions
      BY ServerAssumption DEF Core, Ids
<1>2. served \in 0 .. MaxReqsPerWake /\ MaxReqsPerWake \in Nat
      BY ServerAssumption DEF Core
<1>3. Current(i) \in 0 .. MaxReqsPerWake
      BY <1>2 DEF Current
<1>4. CASE i < at
      BY <1>1, <1>3, <1>4 DEF Past
<1>5. CASE ~(i < at)
      BY <1>1, <1>3, <1>5 DEF Past
<1> QED BY <1>4, <1>5

\* One answer more for those that are not in service.
Answered == IF pc = "advance" /\ served' > served THEN 1 ELSE 0

LEMMA WaitedStep ==
    ASSUME Core, waited \in [Ids -> Nat], History, NEW i \in Ids
    PROVE  /\ waited'[i] \in Nat /\ waited[i] \in Nat
           /\ waited'[i] <= waited[i] + Answered
           /\ InService(i) \/ ~sessions'[i].event => waited'[i] = 0
BY DEF History, Answered

\* The server stays where it is.
LEMMA SharesStay ==
    ASSUME IInv, Core', Shares, History, at' = at,
           pc = "new" => pc' \in {"new", "wait"},
           pc' = "new" => pc = "new",
           \A i \in Ids : InService(i) \/ Current(i)' >= Current(i) + Answered
    PROVE  Shares'
<1>1. Core /\ waited \in [Ids -> Nat] /\ MaxReqsPerWake \in Nat
      BY ServerAssumption DEF IInv, TypeOK, Core
<1>2. ASSUME NEW i \in Ids
      PROVE  /\ waited'[i] <= Past(i)' * MaxReqsPerWake + Current(i)'
             /\ pc' = "new" => waited'[i] = 0
  <2>1. /\ waited'[i] \in Nat /\ waited[i] \in Nat
        /\ waited'[i] <= waited[i] + Answered
        /\ InService(i) => waited'[i] = 0
        BY <1>1, WaitedStep
  <2>2. Past(i)' = Past(i)
        BY DEF Past
  <2>3. /\ Past(i) \in Nat /\ Current(i) \in Int
        BY <1>1, PastNat
  <2>4. Current(i)' \in Nat
        BY <1>1 DEF Core, Current
  <2>5. Past(i) * MaxReqsPerWake \in Nat
        BY <1>1, <2>3, ProductNat
  <2>6. Answered \in {0, 1} /\ (pc = "new" => Answered = 0)
        BY DEF Answered
  <2> DEFINE p == Past(i) * MaxReqsPerWake
             c == Current(i)'
  <2>7. waited[i] <= p + Current(i) /\ (pc = "new" => waited[i] = 0)
        BY DEF Shares
  <2>8. waited'[i] <= p + c
    <3>1. p \in Nat /\ c \in Nat
          BY <2>4, <2>5
    <3>2. InService(i) \/ c >= Current(i) + Answered
          OBVIOUS
    <3> HIDE DEF p, c
    <3> QED BY <2>1, <2>3, <2>6, <2>7, <3>1, <3>2
  <2>9. pc' = "new" => waited'[i] = 0
        BY <2>1, <2>6, <2>7
  <2> QED BY <2>2, <2>8, <2>9
<1> QED BY <1>2 DEF Shares

\* It goes on to the next session.
LEMMA SharesMove ==
    ASSUME IInv, Core', Shares, History, NextSession, Turn,
           served' \in {0, served, served + 1}, pc = "advance" \/ served' <= served,
           \A i \in Ids : i = at => InService(i) \/ ~sessions'[i].event
    PROVE  Shares'
<1>1. /\ Core /\ waited \in [Ids -> Nat] /\ MaxReqsPerWake \in Nat
      /\ MaxSessions \in Nat \ {0} /\ at \in 1 .. MaxSessions
      /\ served \in 0 .. MaxReqsPerWake
      /\ pc = "advance" => served < MaxReqsPerWake
      BY ServerAssumption DEF IInv, TypeOK, Core, ServerOK, Ids
<1>2. pc' \in {"sweep", "evict"} /\ at' = IF at < MaxSessions THEN at + 1 ELSE 1
      BY DEF NextSession
<1>3. ASSUME NEW i \in Ids
      PROVE  waited'[i] <= Past(i)' * MaxReqsPerWake + Current(i)'
  <2>1. /\ waited'[i] \in Nat /\ waited[i] \in Nat
        /\ waited'[i] <= waited[i] + Answered
        /\ i = at => waited'[i] = 0
        BY <1>1, WaitedStep
  <2>2. i \in 1 .. MaxSessions
        BY DEF Ids
  <2>3. Current(i)' = 0
        BY <1>2 DEF Current
  <2>4. CASE i = at
    <3>1. Past(i)' \in Nat
          BY <1>1, <1>2, <2>2, <2>4 DEF Past
    <3>2. Past(i)' * MaxReqsPerWake \in Nat
          BY <1>1, <3>1, ProductNat
    <3> QED BY <2>1, <2>3, <2>4, <3>2
  <2>5. CASE i # at
    <3>1. Past(i) \in Nat /\ Past(i)' = Past(i) + 1
      <4>1. CASE at < MaxSessions
            BY <1>1, <1>2, <2>2, <2>5, <4>1 DEF Past
      <4>2. CASE ~(at < MaxSessions)
            BY <1>1, <1>2, <2>2, <2>5, <4>2 DEF Past
      <4> QED BY <4>1, <4>2
    <3>2. Past(i)' * MaxReqsPerWake = Past(i) * MaxReqsPerWake + MaxReqsPerWake
          BY <1>1, <3>1, ProductSucc
    <3>3. Past(i) * MaxReqsPerWake \in Nat
          BY <1>1, <3>1, ProductNat
    <3>4. Current(i) + Answered <= MaxReqsPerWake
          BY <1>1 DEF Current, Answered
    <3>5. waited[i] <= Past(i) * MaxReqsPerWake + Current(i)
          BY DEF Shares
    <3>6. Current(i) \in Nat /\ Answered \in Nat
          BY <1>1 DEF Current, Answered
    <3> DEFINE p == Past(i) * MaxReqsPerWake
    <3> HIDE DEF p
    <3>7. waited'[i] <= p + MaxReqsPerWake
          BY <1>1, <2>1, <3>3, <3>4, <3>5, <3>6 DEF p
    <3> QED BY <2>3, <3>2, <3>3, <3>7, <1>1 DEF p
  <2> QED BY <2>4, <2>5
<1> QED BY <1>2, <1>3 DEF Shares

\* A turn that ends with a disconnect, or with an operation that goes on.
LEMMA ServiceMoves ==
    ASSUME Core, Service, NextSession
    PROVE  \A i \in Ids : i = at => ~sessions'[i].event
<1>1. PICK j \in Ids : j = at
      BY DEF Core
<1>2. pc = "sweep" /\ Session.event
      BY DEF Service
<1>3. Turn /\ Session \in SessionType /\ Good(Session, TRUE, FALSE)
  <2>1. Turn /\ (pc # "sweep") = FALSE
        BY <1>2 DEF Turn
  <2> QED BY <2>1, SessionGood
<1>4. ~(Session.op \in {"ReadPending", "WritePending"} /\ Session.io = "pending")
      BY <1>2, <1>3 DEF Good
<1>5. pc' # "advance"
      BY DEF NextSession
<1>6. Disconnect(j)
      BY <1>1, <1>4, <1>5 DEF Service
<1>7. sessions' = [sessions EXCEPT ![j] = RearmConnect(Fresh)]
      BY <1>6 DEF Disconnect
<1> QED BY <1>1, <1>7, RearmedFresh DEF Core

LEMMA SharesStep ==
    ASSUME IInv, Shares, [Next]_vars PROVE Shares'
<1>1. Core
      BY DEF IInv, TypeOK, Core
<1>2. Core'
  <2>1. IInv'
        BY InvariantStep
  <2> QED BY <2>1 DEF IInv, TypeOK, Core
<1>3. CASE UNCHANGED vars
      BY <1>3 DEF vars, Shares, Past, Current
<1>4. ASSUME History, UNCHANGED <<at, pc, served>>
      PROVE  Shares'
  <2>1. \A i \in Ids : Current(i)' >= Current(i) + Answered
        BY <1>1, <1>4, ServerAssumption DEF Current, Answered, Core
  <2> QED BY <1>2, <1>4, <2>1, SharesStay
<1>5. CASE History /\ Wakes
  <2>1. at' = at /\ pc = "wait" /\ pc' = "sweep"
        BY <1>5 DEF Wakes
  <2>2. \A i \in Ids : Current(i)' >= Current(i) + Answered
        BY <2>1 DEF Current, Answered
  <2> QED BY <1>2, <1>5, <2>1, <2>2, SharesStay
<1>6. CASE History /\ Evict
  <2>1. at' = at /\ pc = "evict" /\ pc' = "wait"
        BY <1>6 DEF Evict
  <2>2. \A i \in Ids : Current(i)' >= Current(i) + Answered
        BY <2>1 DEF Current, Answered
  <2> QED BY <1>2, <1>6, <2>1, <2>2, SharesStay
<1>7. CASE History /\ Rearm
  <2>1. /\ pc = "new" /\ pc' \in {"new", "wait"}
        /\ \A i \in Ids : waited[i] = 0
        BY <1>7 DEF Rearm, Shares
  <2>2. \A i \in Ids : waited'[i] = 0
        BY <1>7, <2>1 DEF History
  <2>3. ASSUME NEW i \in Ids PROVE waited'[i] <= Past(i)' * MaxReqsPerWake + Current(i)'
    <3>1. Past(i)' \in Nat
      <4>1. MaxSessions \in Nat /\ at' \in 1 .. MaxSessions /\ i \in 1 .. MaxSessions
            BY <1>2, ServerAssumption DEF Core, Ids
      <4>2. Past(i)' = IF i < at' THEN at' - i - 1 ELSE MaxSessions - i + at' - 1
            BY DEF Past
      <4> QED BY <4>1, <4>2, TurnsNat
    <3>2. Past(i)' * MaxReqsPerWake \in Nat
          BY <3>1, ProductNat, ServerAssumption
    <3>3. Current(i)' = 0
          BY <2>1 DEF Current
    <3> QED BY <2>2, <3>2, <3>3
  <2> QED BY <2>2, <2>3 DEF Shares
<1>8. CASE History /\ Skip
  <2>1. /\ NextSession /\ Turn /\ served' = served
        /\ \A i \in Ids : i = at => ~sessions'[i].event
        BY <1>8 DEF Skip, Turn, Session
  <2>2. served' \in {0, served, served + 1} /\ served' <= served
        BY <1>1, <2>1, ServerAssumption DEF Core
  <2> QED BY <1>2, <1>8, <2>1, <2>2, SharesMove
<1>9. CASE History /\ Service
  <2>1. pc = "sweep" /\ served' = 0 /\ Turn
        BY <1>9 DEF Service, Turn
  <2>2. served' <= served /\ served' \in {0, served, served + 1}
        BY <1>1, <2>1, ServerAssumption DEF Core
  <2>3. CASE NextSession
    <3>1. \A i \in Ids : i = at => ~sessions'[i].event
          BY <1>1, <1>9, <2>3, ServiceMoves
    <3> QED BY <1>2, <1>9, <2>1, <2>2, <2>3, <3>1, SharesMove
  <2>4. CASE ~NextSession
    <3>1. at' = at /\ pc' = "advance"
          BY <1>9, <2>4 DEF Service
    <3>2. \A i \in Ids : Current(i)' >= Current(i) + Answered
          BY <2>1, <3>1 DEF Current, Answered
    <3> QED BY <1>2, <1>9, <2>1, <3>1, <3>2, SharesStay
  <2> QED BY <2>3, <2>4
<1>10. CASE History /\ (ReadMore \/ HeaderDone \/ NextRead)
  <2>1. pc \in {"advance", "next"} /\ served' = served /\ Turn
        BY <1>10 DEF ReadMore, HeaderDone, NextRead, Turn
  <2>2. \A i \in Ids : i = at => InService(i)
        BY <2>1 DEF InService
  <2>3. CASE NextSession
    <3>1. served' \in {0, served, served + 1} /\ served' <= served
          BY <1>1, <2>1, ServerAssumption DEF Core
    <3> QED BY <1>2, <1>10, <2>1, <2>2, <2>3, <3>1, SharesMove
  <2>4. CASE ~NextSession
    <3>1. at' = at /\ pc' \in {"advance", "next"}
          BY <1>10, <2>1, <2>4 DEF ReadMore, HeaderDone, NextRead, ReadLater
    <3>2. \A i \in Ids : Current(i)' >= Current(i) + Answered
          BY <1>1, <2>1, <3>1, ServerAssumption DEF Current, Answered, Core
    <3> QED BY <1>2, <1>10, <2>1, <3>1, <3>2, SharesStay
  <2> QED BY <2>3, <2>4
<1>11. CASE History /\ HandleRequest
  <2>1. pc = "advance" /\ served' \in {served, served + 1} /\ Turn
        BY <1>11 DEF HandleRequest, Turn
  <2>2. \A i \in Ids : i = at => InService(i)
        BY <2>1 DEF InService
  <2>3. CASE NextSession
    <3>1. served' \in {0, served, served + 1} /\ (pc = "advance" \/ served' <= served)
          BY <2>1
    <3> QED BY <1>2, <1>11, <2>1, <2>2, <2>3, <3>1, SharesMove
  <2>4. CASE ~NextSession
    <3>1. at' = at /\ pc' = "next" /\ served' = served + 1
          BY <1>11, <2>4 DEF HandleRequest
    <3>2. \A i \in Ids : InService(i) \/ Current(i)' >= Current(i) + Answered
      <4> SUFFICES ASSUME NEW i \in Ids, i # at
                   PROVE  Current(i)' >= Current(i) + Answered
          BY <2>2
      <4>1. Current(i)' = served + 1 /\ Current(i) = served
            BY <2>1, <3>1 DEF Current
      <4> QED BY <1>1, <4>1, ServerAssumption DEF Answered, Core
    <3> QED BY <1>2, <1>11, <2>1, <3>1, <3>2, SharesStay
  <2> QED BY <2>3, <2>4
<1> QED BY <1>3, <1>4, <1>5, <1>6, <1>7, <1>8, <1>9, <1>10, <1>11
        DEF Next, Server, Wake, WatcherWake

\* A client that streams requests does not keep another waiting: while a session's
\* event is set, every other gets at most one turn of MAX_REQS_PER_WAKE.
THEOREM Fairness == Spec => []FairShare
<1>1. Init => Shares
  <2> SUFFICES ASSUME Init PROVE Shares
      OBVIOUS
  <2>1. IInv
        BY InvariantInit
  <2>2. Core /\ pc = "new"
        BY <2>1 DEF IInv, TypeOK, Core, Init
  <2>3. ASSUME NEW i \in Ids PROVE waited[i] <= Past(i) * MaxReqsPerWake + Current(i)
    <3>1. Past(i) \in Nat
          BY <2>2, PastNat
    <3>2. Past(i) * MaxReqsPerWake \in Nat
          BY <3>1, ProductNat, ServerAssumption
    <3> QED BY <2>2, <3>2 DEF Init, Current
  <2> QED BY <2>3 DEF Shares, Init
<1>2. IInv /\ Shares /\ [Next]_vars => Shares'
      BY SharesStep
<1>3. IInv /\ Shares => FairShare
  <2> SUFFICES ASSUME IInv, Shares, NEW i \in Ids
               PROVE  waited[i] <= (MaxSessions - 1) * MaxReqsPerWake
      BY DEF FairShare
  <2>1. /\ Core /\ waited[i] \in Nat /\ MaxReqsPerWake \in Nat
        /\ MaxSessions \in Nat \ {0}
        BY ServerAssumption DEF IInv, TypeOK, Core
  <2>2. /\ Past(i) \in Nat /\ Past(i) <= MaxSessions - 1
        /\ i # at => Past(i) + 1 <= MaxSessions - 1
        /\ Current(i) \in 0 .. MaxReqsPerWake
        BY <2>1, PastNat
  <2>3. waited[i] <= Past(i) * MaxReqsPerWake + Current(i)
        BY DEF Shares
  <2>4. CASE i = at
    <3>1. Current(i) = 0
          BY <2>4 DEF Current
    <3>2. Past(i) * MaxReqsPerWake <= (MaxSessions - 1) * MaxReqsPerWake
          BY <2>1, <2>2
    <3>3. Past(i) * MaxReqsPerWake \in Nat /\ (MaxSessions - 1) * MaxReqsPerWake \in Nat
          BY <2>1, <2>2, ProductNat
    <3> QED BY <2>1, <2>3, <3>1, <3>2, <3>3
  <2>5. CASE i # at
    <3>1. (Past(i) + 1) * MaxReqsPerWake <= (MaxSessions - 1) * MaxReqsPerWake
          BY <2>1, <2>2, <2>5
    <3>2. (Past(i) + 1) * MaxReqsPerWake = Past(i) * MaxReqsPerWake + MaxReqsPerWake
          BY <2>1, <2>2, ProductSucc
    <3>3. Past(i) * MaxReqsPerWake \in Nat /\ (MaxSessions - 1) * MaxReqsPerWake \in Nat
          BY <2>1, <2>2, ProductNat
    <3> QED BY <2>1, <2>2, <2>3, <3>1, <3>2, <3>3
  <2> QED BY <2>4, <2>5
<1> QED BY <1>1, <1>2, <1>3, Invariance, PTL DEF Spec

----------------------------------------------------------------------------
(* Which session makes room.                                               *)

\* The sessions serviced since the server last waited come last in the order.
Recent == \A k, l \in Ids : k < l /\ recency[k] \in active => recency[l] \in active

LEMMA RecentStep ==
    ASSUME IInv, Recent, [Next]_vars PROVE Recent'
<1>1. Core
      BY DEF IInv, TypeOK, Core
<1>2. CASE Service
  <2>1. PICK j \in Ids : j = at
        BY <1>1 DEF Core
  <2>2. active' = active \cup {j} /\ recency' = MovedLast(recency, j)
        BY <1>2, <2>1 DEF Service
  <2>3. /\ recency \in [Ids -> Ids]
        /\ \A k, l \in Ids : recency[k] = recency[l] => k = l
        /\ \A k \in Ids : \E l \in Ids : recency[l] = k
        BY <1>1 DEF Core, ServerOK
  <2> DEFINE moved == MovedLast(recency, j)
  <2>4. PICK place \in Ids :
           /\ recency[place] = j
           /\ moved \in [Ids -> Ids]
           /\ \A k \in Ids : moved[k] = IF k < place THEN recency[k]
                                       ELSE IF k < MaxSessions THEN recency[k + 1] ELSE j
        BY <2>3, MovedLastKeeps, Zenon
  <2> HIDE DEF moved
  <2>5. MaxSessions \in Nat \ {0} /\ Ids = 1 .. MaxSessions
        BY ServerAssumption DEF Ids
  <2>6. ASSUME NEW k \in Ids, NEW l \in Ids, k < l, moved[k] \in active \cup {j}
        PROVE  moved[l] \in active \cup {j}
    <3>1. k < MaxSessions /\ k + 1 \in Ids /\ k \in Int /\ l \in Int /\ place \in Int
          BY <2>5, <2>6
    <3>2. CASE ~(l < MaxSessions)
      <4>1. ~(l < place)
            BY <2>5, <3>2
      <4> QED BY <2>4, <3>2, <4>1
    <3>3. CASE l < MaxSessions /\ l < place
      <4>1. k < place /\ moved[k] = recency[k] /\ moved[l] = recency[l]
            BY <2>4, <2>6, <3>1, <3>3
      <4>2. recency[k] # j
            BY <2>3, <2>4, <4>1, <3>1
      <4> QED BY <2>6, <4>1, <4>2 DEF Recent
    <3>4. CASE l < MaxSessions /\ ~(l < place) /\ k < place
      <4>1. moved[k] = recency[k] /\ moved[l] = recency[l + 1]
            BY <2>4, <3>4
      <4>2. recency[k] # j
            BY <2>3, <2>4, <3>1, <3>4
      <4>3. l + 1 \in Ids /\ k < l + 1
            BY <2>5, <2>6, <3>1, <3>4
      <4> QED BY <2>6, <4>1, <4>2, <4>3 DEF Recent
    <3>5. CASE l < MaxSessions /\ ~(l < place) /\ ~(k < place)
      <4>1. moved[k] = recency[k + 1] /\ moved[l] = recency[l + 1]
            BY <2>4, <3>1, <3>5
      <4>2. k + 1 # place
            BY <3>1, <3>5
      <4>3. recency[k + 1] # j
            BY <2>3, <2>4, <3>1, <4>2
      <4>4. l + 1 \in Ids /\ k + 1 < l + 1
            BY <2>5, <2>6, <3>1, <3>5
      <4> QED BY <2>6, <3>1, <4>1, <4>3, <4>4 DEF Recent
    <3> QED BY <3>2, <3>3, <3>4, <3>5
  <2> QED BY <2>2, <2>6 DEF Recent, moved
<1>3. CASE Wakes
      BY <1>3 DEF Wakes, Recent
<1>4. CASE UNCHANGED <<recency, active>>
      BY <1>4 DEF Recent
<1> QED BY <1>2, <1>3, <1>4
        DEF Next, vars, Server, Wake, WatcherWake, Rearm, Skip, ReadMore, HeaderDone,
            HandleRequest, NextRead, Evict

\* To make room, no session is disconnected that was serviced since the server
\* last waited, if there is one that was not.
THEOREM IdleMakesRoom == Spec => IdleGoFirst
<1>1. Init => Recent
      BY DEF Init, Recent
<1>2. IInv /\ Recent /\ [Next]_vars => Recent'
      BY RecentStep
<1>3. IInv /\ Recent /\ [Next]_vars =>
        [\A c \in Clients :
            (pc = "evict" /\ pc' = "wait" /\ Connected(c) /\ ~Connected(c)')
                => conn[c].id \notin active \/ active = Ids]_vars
  <2> SUFFICES ASSUME IInv, Recent, Next, NEW c \in Clients,
                      pc = "evict", pc' = "wait", Connected(c), ~Connected(c)',
                      conn[c].id \in active
               PROVE  active = Ids
      OBVIOUS
  <2>1. Evict
        BY DEF Next, Server, Rearm, Wake, WatcherWake, Wakes, Skip, Service, ReadMore,
               HeaderDone, HandleRequest, NextRead
  <2>2. conn[c].id = recency[1]
        BY <2>1 DEF Evict, Disconnect, Connected, IInv, TypeOK
  <2>3. MaxSessions \in Nat \ {0} /\ Ids = 1 .. MaxSessions
        BY ServerAssumption DEF Ids
  <2>4. ASSUME NEW i \in Ids PROVE i \in active
    <3>1. PICK k \in Ids : recency[k] = i
          BY DEF IInv, ServerOK
    <3>2. k = 1 \/ 1 < k
          BY <2>3
    <3>3. 1 \in Ids
          BY <2>3
    <3> QED BY <2>2, <3>1, <3>2, <3>3 DEF Recent
  <2> QED BY <2>4 DEF IInv, TypeOK
<1> QED BY <1>1, <1>2, <1>3, Invariance, PTL DEF Spec, IdleGoFirst
=============================================================================
