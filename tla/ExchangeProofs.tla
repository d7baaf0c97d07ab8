---------------------------- MODULE ExchangeProofs ----------------------------
(***************************************************************************)
(* PipeServer implements Exchange: on each connection the answers are to   *)
(* its own requests, one to each and in their order, for any number of     *)
(* sessions and clients and however the requests are cut up.               *)
(***************************************************************************)
EXTENDS PipeServerProofs

----------------------------------------------------------------------------
(* The inductive invariant.                                                *)

\* What is on its way from the client.
In(s)     == (s.got \o s.data) \o s.inbox
Stream(c) == In(sessions[conn[c].id]) \o conn[c].rest

\* The units of a frame of a kind are so many.
FrameLen(kind) == HeaderLen + (IF kind = "malformed" THEN 0 ELSE BodyLen)

\* The stream is the frames after `first`, up to `last`, one after the other: the
\* n-th is of kinds[n] and ends with the unit ends[n].
Spells(stream, first, last, ends, kinds) ==
    /\ ends[first] = 0 /\ ends[last] = Len(stream)
    /\ \A m, n \in first .. last : m <= n => ends[m] <= ends[n]
    /\ \A n \in first + 1 .. last :
         /\ ends[n] = ends[n - 1] + FrameLen(kinds[n])
         /\ \A p \in 1 .. FrameLen(kinds[n]) :
               stream[ends[n - 1] + p] = [frame |-> n, kind |-> kinds[n], pos |-> p]

Spelled(stream, first, last) ==
    /\ first <= last
    /\ \E ends \in [first .. last -> Nat], kinds \in [first + 1 .. last -> Kinds] :
          Spells(stream, first, last, ends, kinds)

\* No more is read than is wanted, and nothing is there before anything was read.
Buffers(s) ==
    /\ Len(s.got) + Len(s.data) <= s.want
    /\ s.op = "ReadPending" /\ s.io = "pending" =>
          /\ s.data = <<>> /\ s.inbox = <<>>
          /\ s.asked + Len(s.got) <= s.want
    /\ s.op \in {"Connect", "Idle", "WritePending"} => s.data = <<>>
    /\ s.op = "Connect" => s.got = <<>> /\ s.outbox = <<>>
    /\ s.state \in {"created", "listening"} => s.inbox = <<>>
    /\ s.stage = "Body" => /\ Len(s.got) > 0
                           /\ s.got[1].kind # "malformed"

BuffersOK == \A i \in Ids : Buffers(sessions[i])

StreamOK(c) == IF Connected(c) THEN Spelled(Stream(c), Len(Answers(c)), conn[c].frames)
                               ELSE conn[c] = NoConn

StreamsOK == \A c \in Clients : StreamOK(c)

\* The buffer is empty when its request has been answered.
AnswerGiven == pc = "next" => Session.got = <<>> /\ Session.stage = "Header"

EInv == BuffersOK /\ StreamsOK /\ AnswerGiven

----------------------------------------------------------------------------
(* Frames that follow one another.                                         *)

LEMMA FrameUnits ==
    ASSUME NEW n \in Nat, NEW kind \in Kinds
    PROVE  /\ FrameLen(kind) \in Nat \ {0}
           /\ Frame(n, kind) \in Seq(Units) /\ Len(Frame(n, kind)) = FrameLen(kind)
           /\ \A p \in 1 .. FrameLen(kind) :
                 Frame(n, kind)[p] = [frame |-> n, kind |-> kind, pos |-> p]
<1>1. FrameLen(kind) \in Nat \ {0}
      BY ServerAssumption DEF FrameLen
<1> QED BY <1>1, FrameType DEF Frame, FrameLen

\* Nothing is spelled by nothing.
LEMMA SpelledNothing == Spelled(<<>>, 0, 0)
<1> DEFINE ends == [n \in 0 .. 0 |-> 0]
           kinds == [n \in 0 + 1 .. 0 |-> "request"]
<1>1. ends \in [0 .. 0 -> Nat] /\ kinds \in [0 + 1 .. 0 -> Kinds]
      OBVIOUS
<1>2. Len(<<>>) = 0 /\ ends[0] = 0 /\ \A n \in 0 .. 0 : n = 0
      OBVIOUS
<1>3. \A n \in 0 + 1 .. 0 : FALSE
      OBVIOUS
<1> HIDE DEF ends, kinds
<1>4. Spells(<<>>, 0, 0, ends, kinds)
      BY <1>2, <1>3 DEF Spells
<1>5. 0 <= 0
      OBVIOUS
<1> QED BY <1>1, <1>4, <1>5, Zenon DEF Spelled

\* The next frame is added at the end.
LEMMA SpelledMore ==
    ASSUME NEW s \in Seq(Units), NEW first \in Nat, NEW last \in Nat, NEW kind \in Kinds,
           Spelled(s, first, last)
    PROVE  Spelled(s \o Frame(last + 1, kind), first, last + 1)
<1> DEFINE f == Frame(last + 1, kind)
           t == s \o f
           len == FrameLen(kind)
<1>1. PICK ends \in [first .. last -> Nat], kinds \in [first + 1 .. last -> Kinds] :
         Spells(s, first, last, ends, kinds)
      BY DEF Spelled
<1>2. first <= last
      BY DEF Spelled
<1>3. /\ len \in Nat \ {0} /\ f \in Seq(Units) /\ Len(f) = len
      /\ \A p \in 1 .. len : f[p] = [frame |-> last + 1, kind |-> kind, pos |-> p]
  <2>1. last + 1 \in Nat
        OBVIOUS
  <2> QED BY <2>1, FrameUnits
<1> HIDE DEF f
<1> HIDE DEF len
<1>4. /\ Len(s) \in Nat /\ t \in Seq(Units) /\ Len(t) = Len(s) + len
      /\ \A i \in 1 .. Len(s) + len : t[i] = IF i <= Len(s) THEN s[i] ELSE f[i - Len(s)]
  <2>1. /\ s \o f \in Seq(Units) /\ Len(s \o f) = Len(s) + Len(f)
        /\ \A i \in 1 .. Len(s) + Len(f) :
              (s \o f)[i] = IF i <= Len(s) THEN s[i] ELSE f[i - Len(s)]
        BY <1>3, ConcatProperties, Zenon
  <2> QED BY <1>3, <2>1, LenProperties
<1> HIDE DEF t
<1> DEFINE more == [n \in first .. last + 1 |-> IF n = last + 1 THEN Len(s) + len ELSE ends[n]]
           kinds2 == [n \in first + 1 .. last + 1 |-> IF n = last + 1 THEN kind ELSE kinds[n]]
<1>5. \A n \in first .. last + 1 : n = last + 1 \/ n \in first .. last
      OBVIOUS
<1>6. more \in [first .. last + 1 -> Nat] /\ kinds2 \in [first + 1 .. last + 1 -> Kinds]
  <2>1. \A n \in first + 1 .. last + 1 : n = last + 1 \/ n \in first + 1 .. last
        OBVIOUS
  <2> QED BY <1>3, <1>4, <1>5, <2>1
<1>7. /\ \A n \in first .. last : more[n] = ends[n] /\ ends[n] \in Nat /\ ends[n] <= Len(s)
      /\ more[last + 1] = Len(s) + len
      /\ more[last] = Len(s)
  <2>1. \A n \in first .. last : n \in first .. last + 1 /\ n # last + 1 /\ n <= last
        OBVIOUS
  <2>2. last \in first .. last /\ last + 1 \in first .. last + 1
        BY <1>2
  <2> QED BY <1>1, <2>1, <2>2 DEF Spells
<1>8. more[first] = 0
  <2>1. first \in first .. last
        BY <1>2
  <2> QED BY <1>1, <1>7, <2>1 DEF Spells
<1>9. ASSUME NEW m \in first .. last + 1, NEW n \in first .. last + 1, m <= n
      PROVE  more[m] <= more[n]
  <2> HIDE DEF more
  <2>1. CASE n = last + 1
    <3>1. m = last + 1 \/ m \in first .. last
          BY <1>5
    <3> QED BY <1>3, <1>4, <1>7, <2>1, <3>1
  <2>2. CASE n \in first .. last
    <3>1. m \in first .. last
          BY <1>9, <2>2
    <3> QED BY <1>1, <1>7, <1>9, <2>2, <3>1 DEF Spells
  <2> QED BY <1>5, <2>1, <2>2
<1>10. ASSUME NEW n \in first + 1 .. last + 1
       PROVE  /\ more[n] = more[n - 1] + FrameLen(kinds2[n])
              /\ \A p \in 1 .. FrameLen(kinds2[n]) :
                    t[more[n - 1] + p] = [frame |-> n, kind |-> kinds2[n], pos |-> p]
  <2>1. CASE n = last + 1
    <3>1. kinds2[n] = kind /\ n - 1 = last
          BY <2>1
    <3>2. more[n - 1] = Len(s) /\ more[n] = Len(s) + FrameLen(kinds2[n])
          BY <1>7, <2>1, <3>1 DEF len
    <3>3. ASSUME NEW p \in 1 .. len PROVE t[Len(s) + p] = [frame |-> n, kind |-> kind, pos |-> p]
      <4>1. /\ Len(s) + p \in 1 .. Len(s) + len /\ ~(Len(s) + p <= Len(s))
            /\ Len(s) + p - Len(s) = p
            BY <1>3, <1>4
      <4>2. t[Len(s) + p] = f[p]
            BY <1>4, <4>1
      <4> QED BY <1>3, <2>1, <4>2
    <3> QED BY <3>1, <3>2, <3>3 DEF len
  <2>2. CASE n # last + 1
    <3>1. n \in first + 1 .. last /\ n - 1 \in first .. last /\ n \in first .. last
          BY <2>2
    <3>2. /\ kinds2[n] = kinds[n] /\ more[n] = ends[n] /\ more[n - 1] = ends[n - 1]
          /\ kinds[n] \in Kinds
          BY <1>7, <2>2, <3>1
    <3>3. ends[n] = ends[n - 1] + FrameLen(kinds[n])
          BY <1>1, <3>1 DEF Spells
    <3>4. ASSUME NEW p \in 1 .. FrameLen(kinds[n])
          PROVE  t[ends[n - 1] + p] = [frame |-> n, kind |-> kinds[n], pos |-> p]
      <4>1. ends[n - 1] \in Nat /\ ends[n] \in Nat /\ ends[n] <= Len(s)
            BY <1>7, <3>1
      <4>2. FrameLen(kinds[n]) \in Nat
            BY <3>2, FrameUnits
      <4>3. /\ ends[n - 1] + p \in 1 .. Len(s) + len /\ ends[n - 1] + p <= Len(s)
            BY <1>3, <1>4, <3>3, <4>1, <4>2
      <4>4. t[ends[n - 1] + p] = s[ends[n - 1] + p]
            BY <1>4, <4>3
      <4> QED BY <1>1, <3>1, <4>4 DEF Spells
    <3> QED BY <3>2, <3>3, <3>4
  <2> QED BY <2>1, <2>2
<1>11. first <= last + 1 /\ more[last + 1] = Len(t)
      BY <1>2, <1>4, <1>7
<1> HIDE DEF more, kinds2
<1>12. Spells(t, first, last + 1, more, kinds2)
      BY <1>8, <1>9, <1>10, <1>11 DEF Spells
<1> QED BY <1>6, <1>11, <1>12 DEF Spelled, t, f

LEMMA Within ==
    ASSUME NEW l \in Nat, NEW m \in Nat, NEW a \in Nat, NEW k \in Nat, NEW p \in 1 .. k,
           l <= a, a + k <= l + m
    PROVE  (a - l) + p \in 1 .. m /\ a + p = l + ((a - l) + p)
OBVIOUS

\* A whole frame at the start is the next one, and the others follow.
LEMMA SpelledFirst ==
    ASSUME NEW got \in Seq(Units), NEW more \in Seq(Units), NEW first \in Nat, NEW last \in Nat,
           Spelled(got \o more, first, last),
           Len(got) = HeaderLen + BodyLen, got[1].kind # "malformed"
    PROVE  /\ first < last /\ got[1].kind \in Kinds
           /\ got = Frame(first + 1, got[1].kind)
           /\ Spelled(more, first + 1, last)
           /\ more # <<>> => first + 1 < last
<1> DEFINE s == got \o more
           len == HeaderLen + BodyLen
           kind == got[1].kind
<1>1. PICK ends \in [first .. last -> Nat], kinds \in [first + 1 .. last -> Kinds] :
         Spells(s, first, last, ends, kinds)
      BY DEF Spelled
<1>2. first <= last
      BY DEF Spelled
<1>3. len \in Nat \ {0} /\ Len(got) = len /\ Len(more) \in Nat
      BY ServerAssumption, LenProperties
<1>4. /\ Len(s) = len + Len(more)
      /\ \A i \in 1 .. len : s[i] = got[i]
      /\ \A i \in 1 .. Len(more) : s[len + i] = more[i]
  <2>1. /\ s \in Seq(Units) /\ Len(s) = Len(got) + Len(more)
        /\ \A i \in 1 .. Len(got) + Len(more) :
              s[i] = IF i <= Len(got) THEN got[i] ELSE more[i - Len(got)]
        BY ConcatProperties, Zenon
  <2> HIDE DEF s, len
  <2>2. \A i \in 1 .. Len(more) : /\ len + i \in 1 .. Len(got) + Len(more)
                                  /\ ~(len + i <= Len(got)) /\ len + i - Len(got) = i
        BY <1>3
  <2>3. \A i \in 1 .. len : i \in 1 .. Len(got) + Len(more) /\ i <= Len(got)
        BY <1>3
  <2> QED BY <1>3, <2>1, <2>2, <2>3
<1> HIDE DEF s
<1>5. first < last
  <2> SUFFICES ASSUME first = last PROVE FALSE
      BY <1>2
  <2> HIDE DEF len
  <2> QED BY <1>1, <1>3, <1>4 DEF Spells
<1>6. /\ first + 1 \in first + 1 .. last /\ first + 1 \in first .. last
      /\ first \in first .. last /\ (first + 1) - 1 = first
      BY <1>5
<1>7. /\ ends[first] = 0 /\ ends[first + 1] = FrameLen(kinds[first + 1])
      /\ \A p \in 1 .. FrameLen(kinds[first + 1]) :
            s[p] = [frame |-> first + 1, kind |-> kinds[first + 1], pos |-> p]
  <2>1. /\ ends[first] = 0
        /\ ends[first + 1] = ends[(first + 1) - 1] + FrameLen(kinds[first + 1])
        /\ \A p \in 1 .. FrameLen(kinds[first + 1]) :
              s[ends[(first + 1) - 1] + p]
                = [frame |-> first + 1, kind |-> kinds[first + 1], pos |-> p]
        BY <1>1, <1>6 DEF Spells
  <2>2. kinds[first + 1] \in Kinds
        BY <1>6
  <2>3. FrameLen(kinds[first + 1]) \in Nat
        BY <2>2, FrameUnits
  <2>4. \A p \in 1 .. FrameLen(kinds[first + 1]) : 0 + p = p
        BY <2>3
  <2> QED BY <1>6, <2>1, <2>3, <2>4
<1>8. kinds[first + 1] = kind /\ FrameLen(kind) = len /\ kind \in Kinds
  <2>1. kinds[first + 1] \in Kinds
        BY <1>6
  <2>2. 1 \in 1 .. FrameLen(kinds[first + 1])
        BY <2>1, FrameUnits
  <2>3. s[1] = [frame |-> first + 1, kind |-> kinds[first + 1], pos |-> 1]
        BY <1>7, <2>2
  <2>4. s[1] = got[1]
        BY <1>3, <1>4
  <2>6. s[1].kind = kinds[first + 1]
        BY <2>3
  <2>5. kinds[first + 1] = kind
        BY <2>4, <2>6
  <2> QED BY <2>1, <2>5 DEF FrameLen
<1>9. got = Frame(first + 1, kind)
  <2>1. /\ Frame(first + 1, kind) \in Seq(Units) /\ Len(Frame(first + 1, kind)) = len
        /\ \A p \in 1 .. len :
              Frame(first + 1, kind)[p] = [frame |-> first + 1, kind |-> kind, pos |-> p]
    <3>1. first + 1 \in Nat
          OBVIOUS
    <3> QED BY <1>8, <3>1, FrameUnits, Zenon
  <2> HIDE DEF kind, len
  <2>5. \A p \in 1 .. len : s[p] = [frame |-> first + 1, kind |-> kind, pos |-> p]
        BY <1>7, <1>8, Zenon
  <2>4. \A p \in 1 .. len : got[p] = Frame(first + 1, kind)[p]
        BY <1>4, <2>1, <2>5, Zenon
  <2>2. \A p \in 1 .. Len(got) : got[p] = Frame(first + 1, kind)[p]
        BY <1>3, <2>4
  <2>3. Len(got) = Len(Frame(first + 1, kind))
        BY <1>3, <2>1
  <2> QED BY <2>1, <2>2, <2>3, SeqEqual, Zenon
<1> DEFINE ends2 == [n \in first + 1 .. last |-> ends[n] - len]
           kinds2 == [n \in (first + 1) + 1 .. last |-> kinds[n]]
<1>10. ends[first + 1] = len
       BY <1>7, <1>8
<1> HIDE DEF len, kind
<1>11. ASSUME NEW n \in first + 1 .. last PROVE ends[n] \in Nat /\ ends[n] >= len /\ n \in first .. last
  <2>1. n \in first .. last /\ first + 1 <= n
        BY <1>6
  <2> QED BY <1>1, <1>6, <1>10, <2>1 DEF Spells
<1>12. ends2 \in [first + 1 .. last -> Nat] /\ kinds2 \in [(first + 1) + 1 .. last -> Kinds]
  <2>1. \A n \in first + 1 .. last : ends[n] - len \in Nat
        BY <1>3, <1>11
  <2>2. \A n \in (first + 1) + 1 .. last : n \in first + 1 .. last
        OBVIOUS
  <2> QED BY <2>1, <2>2
<1>13. \A n \in first + 1 .. last : ends2[n] = ends[n] - len
       OBVIOUS
<1>14. \A n \in (first + 1) + 1 .. last : kinds2[n] = kinds[n]
       OBVIOUS
<1> HIDE DEF ends2, kinds2
<1>15. ends2[first + 1] = 0 /\ ends2[last] = Len(more)
  <2>1. last \in first + 1 .. last
        BY <1>5
  <2>2. ends[last] = Len(s)
        BY <1>1 DEF Spells
  <2> QED BY <1>3, <1>4, <1>6, <1>10, <1>13, <2>1, <2>2
<1>16. ASSUME NEW m \in first + 1 .. last, NEW n \in first + 1 .. last, m <= n
       PROVE  ends2[m] <= ends2[n]
  <2>1. ends[m] <= ends[n]
        BY <1>1, <1>11, <1>16 DEF Spells
  <2> QED BY <1>3, <1>11, <1>13, <2>1
<1>17. ASSUME NEW n \in (first + 1) + 1 .. last
       PROVE  /\ ends2[n] = ends2[n - 1] + FrameLen(kinds2[n])
              /\ \A p \in 1 .. FrameLen(kinds2[n]) :
                    more[ends2[n - 1] + p] = [frame |-> n, kind |-> kinds2[n], pos |-> p]
  <2>1. n \in first + 1 .. last /\ n - 1 \in first + 1 .. last
        OBVIOUS
  <2>2. kinds[n] \in Kinds
        BY <2>1
  <2>3. FrameLen(kinds[n]) \in Nat
        BY <2>2, FrameUnits
  <2>4. ends[n] = ends[n - 1] + FrameLen(kinds[n])
        BY <1>1, <2>1 DEF Spells
  <2>7. /\ ends[n] \in Nat /\ ends[n - 1] \in Nat /\ ends[n - 1] >= len
        /\ ends2[n] = ends[n] - len /\ ends2[n - 1] = ends[n - 1] - len
        BY <1>11, <1>13, <2>1
  <2>5. ends2[n] = ends2[n - 1] + FrameLen(kinds[n])
        BY <1>3, <2>3, <2>4, <2>7
  <2>6. ASSUME NEW p \in 1 .. FrameLen(kinds[n])
        PROVE  more[ends2[n - 1] + p] = [frame |-> n, kind |-> kinds[n], pos |-> p]
    <3>1. s[ends[n - 1] + p] = [frame |-> n, kind |-> kinds[n], pos |-> p]
          BY <1>1, <2>1 DEF Spells
    <3>2. ends[n - 1] = len + ends2[n - 1] /\ ends2[n - 1] \in Nat
          BY <1>3, <2>7
    <3>3. last \in first .. last /\ n <= last
          BY <2>1
    <3>4. ends[n] <= Len(s)
          BY <1>1, <1>11, <2>1, <3>3 DEF Spells
    <3>5. ends[n - 1] + FrameLen(kinds[n]) <= len + Len(more)
          BY <1>4, <2>4, <3>4
    <3>6. ends2[n - 1] + p \in 1 .. Len(more) /\ ends[n - 1] + p = len + (ends2[n - 1] + p)
          BY <1>3, <2>3, <2>7, <3>5, Within
    <3> QED BY <1>4, <3>1, <3>6
  <2> QED BY <1>14, <2>5, <2>6
<1>18. Spells(more, first + 1, last, ends2, kinds2)
       BY <1>15, <1>16, <1>17 DEF Spells
<1>19. Spelled(more, first + 1, last)
  <2>1. first + 1 <= last
        BY <1>5
  <2> QED BY <1>12, <1>18, <2>1, Zenon DEF Spelled
<1>20. ASSUME more # <<>> PROVE first + 1 < last
  <2> SUFFICES ASSUME first + 1 = last PROVE FALSE
      BY <1>5
  <2>1. Len(more) = 0
        BY <1>15
  <2> QED BY <1>20, <2>1, EmptySeq
<1> QED BY <1>5, <1>8, <1>9, <1>19, <1>20 DEF kind

----------------------------------------------------------------------------
(* What the operators on one session do to what is on its way.             *)

LEMMA InOut ==
    ASSUME NEW s \in SessionType
    PROVE  /\ s.got \in Seq(Units) /\ s.data \in Seq(Units) /\ s.inbox \in Seq(Units)
           /\ s.outbox \in Seq(Nat) /\ s.write_buf \in Nat /\ s.want \in Nat /\ s.asked \in Nat
           /\ Len(s.got) \in Nat /\ Len(s.data) \in Nat
           /\ In(s) \in Seq(Units) /\ Pending(s) \in Seq(Nat) /\ Out(s) \in Seq(Nat)
           /\ s.data = <<>> => In(s) = s.got \o s.inbox
<1>1. /\ s.got \in Seq(Units) /\ s.data \in Seq(Units) /\ s.inbox \in Seq(Units)
      /\ s.outbox \in Seq(Nat) /\ s.write_buf \in Nat /\ s.want \in Nat /\ s.asked \in Nat
      BY DEF SessionType
<1>2. Len(s.got) \in Nat /\ Len(s.data) \in Nat
      BY <1>1, LenProperties
<1>3. s.got \o s.data \in Seq(Units)
      BY <1>1, ConcatProperties
<1>4. In(s) \in Seq(Units)
      BY <1>1, <1>3, ConcatProperties DEF In
<1>5. Pending(s) \in Seq(Nat)
      BY <1>1, EmptySeq DEF Pending
<1>6. Out(s) \in Seq(Nat)
      BY <1>1, <1>5, ConcatProperties DEF Out
<1>7. s.data = <<>> => In(s) = s.got \o s.inbox
      BY <1>1, ConcatEmptySeq DEF In
<1> QED BY <1>1, <1>2, <1>4, <1>5, <1>6, <1>7

LEMMA UnitsAssociate ==
    \A r, s, t \in Seq(Units) : (r \o s) \o t = r \o (s \o t)
BY ConcatAssociative

LEMMA AnswersAssociate ==
    \A r, s, t \in Seq(Nat) : (r \o s) \o t = r \o (s \o t)
BY ConcatAssociative

LEMMA AtMost ==
    ASSUME NEW a \in Nat, NEW b \in Nat, NEW c \in Nat, NEW w \in Nat, b <= c, c + a <= w
    PROVE  a + b <= w
OBVIOUS

\* t has what s has on its way.
SameWay(s, t) == In(t) = In(s) /\ Out(t) = Out(s)

\* An instance that a client can open has nothing on its way.
LEMMA OpenedWay ==
    ASSUME NEW s \in SessionType, NEW rearmed \in BOOLEAN, NEW serviced \in BOOLEAN,
           Good(s, rearmed, serviced), Buffers(s), s.state \in {"created", "listening"}
    PROVE  /\ Buffers(Opened(s)) /\ SameWay(s, Opened(s))
           /\ In(s) = <<>> /\ Out(s) = <<>>
<1> DEFINE t == Opened(s)
<1>1. /\ SameServerSide(s, t) /\ t.state = "connected"
      /\ t.inbox = s.inbox /\ t.outbox = s.outbox /\ t.data = s.data
      BY OpenedKeeps, Zenon
<1>2. s.op = "Connect"
      BY DEF Good
<1>3. s.got = <<>> /\ s.data = <<>> /\ s.inbox = <<>> /\ s.outbox = <<>>
      BY <1>2 DEF Buffers
<1> HIDE DEF t
<1>4. Buffers(t)
      BY <1>1, <1>2 DEF Buffers, SameServerSide
<1>5. Pending(s) = <<>> /\ Pending(t) = <<>>
      BY <1>1, <1>2 DEF Pending, SameServerSide
<1>6. SameWay(s, t)
      BY <1>1, <1>5 DEF SameWay, In, Out, SameServerSide
<1>7. In(s) = <<>> /\ Out(s) = <<>>
      BY <1>3, <1>5, ConcatEmptySeq, EmptySeq DEF In, Out
<1> QED BY <1>4, <1>6, <1>7 DEF t

\* What a client writes is added to what is on its way.
LEMMA ReceivedWay ==
    ASSUME NEW s \in SessionType, NEW units \in Seq(Units), Buffers(s), s.state = "connected"
    PROVE  LET t == Received(s, units) IN
           Buffers(t) /\ In(t) = In(s) \o units /\ Out(t) = Out(s)
<1> DEFINE t == Received(s, units)
           over == s.op = "ReadPending" /\ s.io = "pending"
<1>1. /\ t \in SessionType /\ SameServerSide(s, t)
      /\ t.outbox = s.outbox /\ t.state = s.state
      /\ MayComplete(s, t, over, "done")
      /\ ~over => t.inbox = s.inbox \o units /\ t.data = s.data
      /\ over => /\ t.data = Taken(s.inbox \o units, s.asked)
                 /\ t.inbox = Left(s.inbox \o units, s.asked)
      BY ReceivedKeeps, Zenon
<1> HIDE DEF t
<1>2. Pending(t) = Pending(s)
      BY <1>1 DEF Pending, SameServerSide, MayComplete
<1>3. Out(t) = Out(s)
      BY <1>1, <1>2 DEF Out
<1>4. /\ s.got \in Seq(Units) /\ s.data \in Seq(Units) /\ s.inbox \in Seq(Units)
      /\ s.want \in Nat /\ s.asked \in Nat /\ Len(s.got) \in Nat
      BY InOut
<1>5. t.got = s.got /\ t.want = s.want /\ t.op = s.op /\ t.stage = s.stage
      BY <1>1 DEF SameServerSide
<1>6. ASSUME over PROVE Buffers(t) /\ In(t) = In(s) \o units
  <2>1. s.data = <<>> /\ s.inbox = <<>> /\ s.asked + Len(s.got) <= s.want
        BY <1>6 DEF Buffers
  <2>2. s.inbox \o units = units
        BY <2>1, ConcatEmptySeq
  <2>3. /\ Taken(units, s.asked) \in Seq(Units) /\ Left(units, s.asked) \in Seq(Units)
        /\ Len(Taken(units, s.asked)) = Least(s.asked, Len(units))
        /\ Taken(units, s.asked) \o Left(units, s.asked) = units
        BY <1>4, TakenAndLeft
  <2>4. t.data = Taken(units, s.asked) /\ t.inbox = Left(units, s.asked)
        BY <1>1, <1>6, <2>2
  <2>5. Len(t.data) \in Nat /\ Len(t.data) <= s.asked
    <3>1. Len(units) \in Nat
          BY LenProperties
    <3> QED BY <1>4, <2>3, <2>4, <3>1 DEF Least
  <2>6. Len(t.got) + Len(t.data) <= t.want
    <3>1. Len(s.got) + Len(t.data) <= s.want
          BY <1>4, <2>1, <2>5, AtMost
    <3> QED BY <1>5, <3>1, Zenon
  <2>7. Buffers(t)
        BY <1>1, <1>5, <1>6, <2>6 DEF Buffers, MayComplete
  <2>8. In(s) = s.got
        BY <1>4, <2>1, ConcatEmptySeq DEF In
  <2>9. In(t) = s.got \o units
    <3>1. In(t) = (s.got \o Taken(units, s.asked)) \o Left(units, s.asked)
          BY <1>5, <2>4 DEF In
    <3>2. @ = s.got \o (Taken(units, s.asked) \o Left(units, s.asked))
          BY <1>4, <2>3, UnitsAssociate, Zenon
    <3> QED BY <2>3, <3>1, <3>2
  <2> QED BY <2>7, <2>8, <2>9
<1>7. ASSUME ~over PROVE Buffers(t) /\ In(t) = In(s) \o units
  <2>1. t.inbox = s.inbox \o units /\ t.data = s.data /\ t.io = s.io /\ t.event = s.event
        BY <1>1, <1>7 DEF MayComplete
  <2>2. Buffers(t)
        BY <1>1, <1>5, <1>7, <2>1 DEF Buffers, SameServerSide
  <2>3. s.got \o s.data \in Seq(Units)
        BY <1>4, ConcatProperties
  <2>4. In(t) = (s.got \o s.data) \o (s.inbox \o units)
        BY <1>5, <2>1 DEF In
  <2>5. @ = In(s) \o units
        BY <1>4, <2>3, UnitsAssociate, Zenon DEF In
  <2> QED BY <2>2, <2>4, <2>5
<1>8. Buffers(t) /\ In(t) = In(s) \o units /\ Out(t) = Out(s)
      BY <1>3, <1>6, <1>7
<1> QED BY <1>8 DEF t

\* What a client reads is the first of what is on its way to it.
LEMMA DrainedWay ==
    ASSUME NEW s \in SessionType, Buffers(s), s.state = "connected", s.outbox # <<>>
    PROVE  LET t == Drained(s) IN
           /\ Buffers(t) /\ In(t) = In(s)
           /\ Head(s.outbox) \in Nat /\ Out(s) = <<Head(s.outbox)>> \o Out(t)
<1> DEFINE t == Drained(s)
           over == s.op = "WritePending" /\ s.io = "pending"
           head == Head(s.outbox)
           tail == Tail(s.outbox)
<1>1. /\ t \in SessionType /\ SameServerSide(s, t)
      /\ t.inbox = s.inbox /\ t.data = s.data /\ t.state = s.state
      /\ MayComplete(s, t, over, "done")
      /\ t.outbox = IF over THEN Append(tail, s.write_buf) ELSE tail
      BY DrainedKeeps, Zenon
<1> HIDE DEF t
<1>2. s.outbox \in Seq(Nat) /\ s.write_buf \in Nat
      BY InOut
<1>3. head \in Nat /\ tail \in Seq(Nat) /\ <<head>> \in Seq(Nat)
      BY <1>2, HeadTailProperties
<1>4. s.outbox = <<head>> \o tail
  <2>1. /\ Len(tail) = Len(s.outbox) - 1 /\ Len(s.outbox) \in Nat
        /\ \A i \in 1 .. Len(tail) : tail[i] = s.outbox[i + 1]
        BY <1>2, HeadTailProperties, LenProperties
  <2>2. head = s.outbox[1]
        BY <1>2
  <2>3. /\ <<head>> \o tail \in Seq(Nat) /\ Len(<<head>>) = 1 /\ <<head>>[1] = head
        /\ Len(<<head>> \o tail) = Len(<<head>>) + Len(tail)
        /\ \A i \in 1 .. Len(<<head>>) + Len(tail) :
              (<<head>> \o tail)[i] = IF i <= Len(<<head>>) THEN <<head>>[i]
                                      ELSE tail[i - Len(<<head>>)]
        BY <1>3, ConcatProperties
  <2> HIDE DEF head, tail
  <2>4. Len(s.outbox) = Len(<<head>> \o tail)
        BY <2>1, <2>3
  <2>5. \A i \in 1 .. Len(s.outbox) : s.outbox[i] = (<<head>> \o tail)[i]
    <3> SUFFICES ASSUME NEW i \in 1 .. Len(s.outbox) PROVE s.outbox[i] = (<<head>> \o tail)[i]
        OBVIOUS
    <3>1. CASE i = 1
          BY <2>1, <2>2, <2>3, <3>1
    <3>2. CASE i # 1
      <4>1. i - 1 \in 1 .. Len(tail) /\ (i - 1) + 1 = i /\ ~(i <= 1)
            /\ i \in 1 .. 1 + Len(tail)
            BY <2>1, <3>2
      <4>2. tail[i - 1] = s.outbox[i]
            BY <2>1, <4>1
      <4> QED BY <2>3, <4>1, <4>2
    <3> QED BY <3>1, <3>2
  <2> QED BY <1>2, <2>3, <2>4, <2>5, SeqEqual
<1> HIDE DEF head, tail
<1>5. In(t) = In(s)
      BY <1>1 DEF In, SameServerSide
<1>6. Buffers(t)
  <2>1. s.op # "Connect"
        BY DEF Buffers
  <2> QED BY <1>1, <2>1 DEF Buffers, SameServerSide, MayComplete
<1>7. Out(s) = <<head>> \o Out(t)
  <2>1. CASE over
    <3>1. Out(s) = s.outbox \o <<s.write_buf>>
          BY <2>1 DEF Out, Pending
    <3>2. t.outbox = tail \o <<s.write_buf>> /\ <<s.write_buf>> \in Seq(Nat)
          BY <1>1, <1>2, <1>3, <2>1, AppendIsConcat
    <3>3. Out(t) = tail \o <<s.write_buf>>
      <4>1. Pending(t) = <<>>
            BY <1>1, <2>1 DEF Pending, MayComplete
      <4>2. tail \o <<s.write_buf>> \in Seq(Nat)
            BY <1>3, <3>2, ConcatProperties
      <4> QED BY <3>2, <4>1, <4>2, ConcatEmptySeq DEF Out
    <3> QED BY <1>3, <1>4, <3>1, <3>2, <3>3, ConcatAssociative
  <2>2. CASE ~over
    <3>1. Pending(s) = <<>> /\ Pending(t) = <<>>
          BY <1>1, <2>2 DEF Pending, SameServerSide, MayComplete
    <3>2. Out(s) = s.outbox /\ Out(t) = tail
          BY <1>1, <1>2, <1>3, <2>2, <3>1, ConcatEmptySeq DEF Out
    <3> QED BY <1>4, <3>2
  <2> QED BY <2>1, <2>2
<1> QED BY <1>3, <1>5, <1>6, <1>7 DEF t, head

LEMMA ClosedWay ==
    ASSUME NEW s \in SessionType, Buffers(s)
    PROVE  Buffers(Closed(s))
<1> DEFINE t == Closed(s)
<1>1. /\ SameServerSide(s, t) /\ t.inbox = s.inbox /\ t.data = s.data
      /\ t.state = "closing" /\ t.outbox = <<>>
      /\ MayComplete(s, t, s.op \in {"ReadPending", "WritePending"} /\ s.io = "pending",
                     "failed")
      BY ClosedKeeps, Zenon
<1> HIDE DEF t
<1>2. Buffers(t)
      BY <1>1 DEF Buffers, SameServerSide, MayComplete
<1> QED BY <1>2 DEF t

LEMMA FreshWay == Buffers(Fresh) /\ Buffers(RearmConnect(Fresh))
<1>1. HeaderLen \in Nat /\ Len(<<>>) = 0
      BY ServerAssumption
<1>2. Buffers(Fresh)
      BY <1>1 DEF Buffers, Fresh
<1> DEFINE t == RearmConnect(Fresh)
<1>3. /\ t.op = "Connect" /\ t.stage = "Header" /\ t.want = HeaderLen
      /\ t.got = <<>> /\ t.data = <<>> /\ t.inbox = <<>> /\ t.outbox = <<>>
      BY RearmedFresh, Zenon
<1> HIDE DEF t
<1>4. Buffers(t)
      BY <1>1, <1>3 DEF Buffers
<1> QED BY <1>2, <1>4 DEF t

LEMMA RearmConnectWay ==
    ASSUME NEW s \in SessionType, Good(s, FALSE, FALSE), Buffers(s)
    PROVE  Buffers(RearmConnect(s)) /\ SameWay(s, RearmConnect(s))
<1> DEFINE t == RearmConnect(s)
<1>1. s.op = "Connect" /\ s.state \in {"created", "connected", "closing"}
      BY DEF Good, SessionType
<1>2. /\ t.op = "Connect" /\ t.got = s.got /\ t.data = s.data /\ t.inbox = s.inbox
      /\ t.outbox = s.outbox /\ t.want = s.want /\ t.stage = s.stage
      /\ t.state \in {"created", "listening"} => s.state = "created"
      BY <1>1 DEF RearmConnect, Begun, Over, SessionType
<1> HIDE DEF t
<1>3. Buffers(t)
      BY <1>1, <1>2 DEF Buffers
<1>4. SameWay(s, t)
      BY <1>1, <1>2 DEF SameWay, In, Out, Pending
<1> QED BY <1>3, <1>4 DEF t

\* What an operation has brought is in the buffer.
LEMMA ConsumedWay ==
    ASSUME NEW s \in SessionType, Good(s, TRUE, FALSE), s.event, Buffers(s)
    PROVE  Buffers(Consumed(s)) /\ SameWay(s, Consumed(s))
<1> DEFINE t   == Consumed(s)
           all == s.got \o s.data
           got == s.got
           new == s.data
<1>1. s.state \notin {"created", "listening"} /\ s.io # "pending"
      BY DEF Good
<1>2. /\ s.got \in Seq(Units) /\ s.data \in Seq(Units) /\ s.inbox \in Seq(Units)
      /\ s.outbox \in Seq(Nat) /\ s.want \in Nat
      /\ Len(s.got) \in Nat /\ Len(s.data) \in Nat
      BY InOut
<1>3. Pending(s) = <<>>
      BY <1>1 DEF Pending
<1>4. /\ all \in Seq(Units) /\ Len(all) = Len(s.got) + Len(s.data)
      /\ Len(s.got) > 0 => all[1] = s.got[1]
  <2>1. /\ all \in Seq(Units) /\ Len(all) = Len(s.got) + Len(s.data)
        /\ \A i \in 1 .. Len(s.got) + Len(s.data) :
              all[i] = IF i <= Len(s.got) THEN s.got[i] ELSE s.data[i - Len(s.got)]
        BY <1>2, ConcatProperties, Zenon
  <2>2. Len(got) \in Nat /\ Len(new) \in Nat
        BY <1>2
  <2> HIDE DEF all, got, new
  <2>3. Len(got) > 0 => 1 \in 1 .. Len(got) + Len(new) /\ 1 <= Len(got)
        BY <2>2
  <2> QED BY <2>1, <2>3 DEF got, new
<1>5. /\ t.op = "Idle" /\ t.inbox = s.inbox /\ t.outbox = s.outbox /\ t.state = s.state
      /\ t.want = s.want /\ t.stage = s.stage /\ t.data = <<>> /\ t.got = all
  <2>1. CASE s.op \in {"Connect", "WritePending"}
    <3>1. s.data = <<>>
          BY <2>1 DEF Buffers
    <3>2. all = s.got
          BY <1>2, <3>1, ConcatEmptySeq
    <3> HIDE DEF all
    <3> QED BY <2>1, <3>1, <3>2 DEF Consumed, SessionType
  <2>2. CASE s.op \notin {"Connect", "WritePending"}
        BY <2>2 DEF Consumed, Gained, SessionType
  <2> QED BY <2>1, <2>2
<1>6. In(t) = In(s)
  <2>1. all \o <<>> = all
        BY <1>4, ConcatEmptySeq
  <2> QED BY <1>5, <2>1 DEF In
<1> HIDE DEF t, all
<1>7. Out(t) = Out(s)
  <2>1. Pending(t) = <<>>
        BY <1>5 DEF Pending
  <2> QED BY <1>3, <1>5, <2>1 DEF Out
<1>8. Buffers(t)
  <2>1. Len(t.got) + Len(t.data) <= t.want
    <3>0. Len(got) + Len(new) <= s.want /\ Len(all) = Len(got) + Len(new)
          /\ Len(got) \in Nat /\ Len(new) \in Nat
          BY <1>2, <1>4 DEF Buffers, got, new
    <3> HIDE DEF got, new
    <3>1. Len(all) <= s.want /\ Len(all) \in Nat
          BY <1>2, <3>0
    <3>2. Len(all) + 0 <= s.want
          BY <1>2, <3>1
    <3>3. Len(<<>>) = 0
          OBVIOUS
    <3> QED BY <1>5, <3>2, <3>3, Zenon
  <2>2. t.stage = "Body" => Len(t.got) > 0 /\ t.got[1].kind # "malformed"
    <3> SUFFICES ASSUME s.stage = "Body" PROVE Len(all) > 0 /\ all[1].kind # "malformed"
        BY <1>5
    <3>1. Len(got) > 0 /\ got[1].kind # "malformed"
          BY DEF Buffers, got
    <3>2. /\ Len(all) = Len(got) + Len(new) /\ (Len(got) > 0 => all[1] = got[1])
          /\ Len(got) \in Nat /\ Len(new) \in Nat
          BY <1>2, <1>4 DEF got, new
    <3> HIDE DEF got, new
    <3> QED BY <3>1, <3>2
  <2> QED BY <1>1, <1>5, <2>1, <2>2 DEF Buffers
<1> QED BY <1>6, <1>7, <1>8 DEF SameWay, t

\* A read that waits has found nothing.
LEMMA AwaitingWay ==
    ASSUME NEW s \in SessionType, Good(s, TRUE, TRUE), Buffers(s), NEW n \in Nat,
           s.state = "connected", s.inbox = <<>>, n + Len(s.got) <= s.want
    PROVE  Buffers(Awaiting(s, n)) /\ SameWay(s, Awaiting(s, n))
<1> DEFINE t == Awaiting(s, n)
<1>1. s.op = "Idle" /\ s.data = <<>>
      BY DEF Good, Buffers
<1>2. /\ t.op = "ReadPending" /\ t.io = "pending" /\ t.asked = n
      /\ t.got = s.got /\ t.data = s.data /\ t.inbox = s.inbox /\ t.outbox = s.outbox
      /\ t.want = s.want /\ t.stage = s.stage /\ t.state = s.state
      BY DEF Awaiting, Begun, SessionType
<1> HIDE DEF t
<1>3. Buffers(t)
      BY <1>1, <1>2 DEF Buffers
<1>4. SameWay(s, t)
      BY <1>1, <1>2 DEF SameWay, In, Out, Pending
<1> QED BY <1>3, <1>4 DEF t

\* A read that need not wait moves what it takes.
LEMMA ReadNowWay ==
    ASSUME Session \in SessionType, Good(Session, TRUE, TRUE), Buffers(Session), NEW n \in Nat,
           n + Len(Session.got) <= Session.want
    PROVE  LET t == Gained(ReadNow(n)) IN Buffers(t) /\ SameWay(Session, t)
<1> DEFINE t     == Gained(ReadNow(n))
           taken == Taken(Session.inbox, n)
           left  == Left(Session.inbox, n)
           got   == Session.got
<1>1. Session.op = "Idle" /\ Session.data = <<>> /\ Session.state \notin {"created", "listening"}
      BY DEF Good, Buffers
<1>2. /\ got \in Seq(Units) /\ Session.inbox \in Seq(Units) /\ Session.want \in Nat
      /\ Len(got) \in Nat /\ Session.outbox \in Seq(Nat)
      BY InOut
<1>3. /\ taken \in Seq(Units) /\ left \in Seq(Units)
      /\ Len(taken) = Least(n, Len(Session.inbox)) /\ taken \o left = Session.inbox
      BY <1>2, TakenAndLeft
<1>4. /\ ReadNow(n) = [Session EXCEPT !.io = "none", !.event = TRUE,
                             !.data = Taken(Session.inbox, n),
                             !.inbox = Left(Session.inbox, n)]
      BY ReadNowKeeps, Zenon
<1>5. /\ t.op = "Idle" /\ t.outbox = Session.outbox /\ t.state = Session.state
      /\ t.want = Session.want /\ t.stage = Session.stage /\ t.data = <<>>
      /\ t.got = got \o taken /\ t.inbox = left
      BY <1>1, <1>4 DEF Gained, SessionType
<1> HIDE DEF t, taken, left, got
<1>6. /\ got \o taken \in Seq(Units) /\ Len(got \o taken) = Len(got) + Len(taken)
      /\ \A i \in 1 .. Len(got) + Len(taken) :
            (got \o taken)[i] = IF i <= Len(got) THEN got[i] ELSE taken[i - Len(got)]
      BY <1>2, <1>3, ConcatProperties, Zenon
<1>7. Len(taken) \in Nat /\ Len(taken) <= n
  <2>1. Len(Session.inbox) \in Nat
        BY <1>2, LenProperties
  <2> QED BY <1>3, <2>1 DEF Least
<1>8. In(t) = In(Session)
  <2>1. In(Session) = got \o Session.inbox
        BY <1>1, InOut DEF got
  <2>2. In(t) = (got \o taken) \o left
        BY <1>5, <1>6, ConcatEmptySeq DEF In
  <2>3. @ = got \o (taken \o left)
        BY <1>2, <1>3, UnitsAssociate, Zenon
  <2> QED BY <1>3, <2>1, <2>2, <2>3
<1>9. Out(t) = Out(Session)
      BY <1>1, <1>5 DEF Out, Pending
<1>10. Buffers(t)
  <2>1. Len(t.got) + Len(t.data) <= t.want
    <3>1. Len(got) + Len(taken) <= Session.want
          BY <1>2, <1>7, AtMost DEF got
    <3>2. Len(got \o taken) + 0 <= Session.want
          BY <1>2, <1>6, <1>7, <3>1
    <3>3. Len(<<>>) = 0
          OBVIOUS
    <3> QED BY <1>5, <3>2, <3>3, Zenon
  <2>2. t.stage = "Body" => Len(t.got) > 0 /\ t.got[1].kind # "malformed"
    <3> SUFFICES ASSUME Session.stage = "Body"
                 PROVE  Len(got \o taken) > 0 /\ (got \o taken)[1].kind # "malformed"
        BY <1>5
    <3>1. Len(got) > 0 /\ got[1].kind # "malformed"
          BY DEF Buffers, got
    <3>2. 1 \in 1 .. Len(got) + Len(taken) /\ 1 <= Len(got)
          BY <1>2, <1>7, <3>1
    <3> QED BY <1>2, <1>6, <1>7, <3>1, <3>2
  <2> QED BY <1>1, <1>5, <2>1, <2>2 DEF Buffers
<1> QED BY <1>8, <1>9, <1>10 DEF SameWay, t

\* So does one whose result is taken up in the next wake.
LEMMA ReadBufferedWay ==
    ASSUME Session \in SessionType, Good(Session, TRUE, TRUE), Buffers(Session), NEW n \in Nat,
           Session.got = <<>>, Session.stage = "Header", n <= Session.want
    PROVE  LET t == [ReadNow(n) EXCEPT !.op = "ReadBuffered"] IN
           Buffers(t) /\ SameWay(Session, t)
<1> DEFINE t     == [ReadNow(n) EXCEPT !.op = "ReadBuffered"]
           taken == Taken(Session.inbox, n)
           left  == Left(Session.inbox, n)
<1>1. Session.op = "Idle" /\ Session.data = <<>> /\ Session.state \notin {"created", "listening"}
      BY DEF Good, Buffers
<1>2. /\ Session.inbox \in Seq(Units) /\ Session.want \in Nat
      BY InOut
<1>3. /\ taken \in Seq(Units) /\ left \in Seq(Units)
      /\ Len(taken) = Least(n, Len(Session.inbox)) /\ taken \o left = Session.inbox
      BY <1>2, TakenAndLeft
<1>4. /\ ReadNow(n) = [Session EXCEPT !.io = "none", !.event = TRUE,
                             !.data = Taken(Session.inbox, n),
                             !.inbox = Left(Session.inbox, n)]
      BY ReadNowKeeps, Zenon
<1>5. /\ t.op = "ReadBuffered" /\ t.io = "none"
      /\ t.outbox = Session.outbox /\ t.state = Session.state
      /\ t.want = Session.want /\ t.stage = Session.stage /\ t.data = taken
      /\ t.got = <<>> /\ t.inbox = left
      BY <1>4 DEF SessionType
<1> HIDE DEF t, taken, left
<1>6. Len(taken) \in Nat /\ Len(taken) <= n
  <2>1. Len(Session.inbox) \in Nat
        BY <1>2, LenProperties
  <2> QED BY <1>3, <2>1 DEF Least
<1>7. In(t) = In(Session)
  <2>1. In(Session) = <<>> \o Session.inbox
        BY <1>1, InOut
  <2>2. In(t) = taken \o left /\ <<>> \o Session.inbox = Session.inbox
        BY <1>2, <1>3, <1>5, ConcatEmptySeq DEF In
  <2> QED BY <1>3, <2>1, <2>2
<1>8. Out(t) = Out(Session)
      BY <1>1, <1>5 DEF Out, Pending
<1>9. Buffers(t)
  <2>1. Len(t.got) + Len(t.data) <= t.want
    <3>1. 0 + Len(taken) <= Session.want
          BY <1>2, <1>6
    <3>2. Len(<<>>) = 0
          OBVIOUS
    <3> QED BY <1>5, <3>1, <3>2, Zenon
  <2> QED BY <1>1, <1>5, <2>1 DEF Buffers
<1> QED BY <1>7, <1>8, <1>9 DEF SameWay, t

\* The header leaves the buffer as it is, and asks for the body.
LEMMA HeaderWay ==
    ASSUME NEW s \in SessionType, Good(s, TRUE, TRUE), Buffers(s), s.stage = "Header",
           Len(s.got) >= s.want, s.got[1].kind # "malformed"
    PROVE  LET t == [s EXCEPT !.stage = "Body", !.want = HeaderLen + BodyLen] IN
           Buffers(t) /\ SameWay(s, t)
<1> DEFINE t   == [s EXCEPT !.stage = "Body", !.want = HeaderLen + BodyLen]
           got == s.got
<1>1. s.op = "Idle" /\ s.data = <<>> /\ s.state \notin {"created", "listening"}
      /\ s.want = HeaderLen
      BY DEF Good, Buffers
<1>2. /\ t.op = s.op /\ t.got = got /\ t.data = s.data /\ t.inbox = s.inbox
      /\ t.outbox = s.outbox /\ t.state = s.state /\ t.stage = "Body"
      /\ t.want = HeaderLen + BodyLen
      BY DEF SessionType
<1>3. Len(got) \in Nat /\ Len(got) >= HeaderLen /\ Len(got) + Len(<<>>) <= HeaderLen
      BY <1>1, InOut DEF Buffers
<1>4. got[1].kind # "malformed"
      OBVIOUS
<1> HIDE DEF t, got
<1>5. Buffers(t)
  <2>1. /\ Len(got) > 0 /\ Len(got) + Len(<<>>) <= HeaderLen + BodyLen
        BY <1>3, ServerAssumption
  <2>2. Len(t.got) + Len(t.data) <= t.want
        BY <1>1, <1>2, <2>1, Zenon
  <2> QED BY <1>1, <1>2, <1>4, <2>1, <2>2 DEF Buffers
<1>6. SameWay(s, t)
      BY <1>1, <1>2 DEF SameWay, In, Out, Pending, got
<1> QED BY <1>5, <1>6 DEF t

\* A request that is answered leaves the buffer, and its answer is the last.
LEMMA AnsweredWay ==
    ASSUME NEW s \in SessionType, Good(s, TRUE, TRUE), Buffers(s), NEW n \in Nat,
           NEW t, t \in {[AnsweredWith(s, n) EXCEPT !.event = TRUE,
                             !.outbox = Append(s.outbox, n)],
                         [AnsweredWith(s, n) EXCEPT !.op = "WritePending", !.io = "pending"]}
    PROVE  /\ Buffers(t) /\ In(s) = s.got \o In(t) /\ Out(t) = Append(Out(s), n)
           /\ t.got = <<>> /\ t.stage = "Header"
<1> DEFINE a == AnsweredWith(s, n)
<1>1. s.op = "Idle" /\ s.data = <<>> /\ s.state \notin {"created", "listening"}
      BY DEF Good, Buffers
<1>2. /\ a \in SessionType
      /\ a.op = s.op /\ a.io = "none" /\ a.event = FALSE /\ a.state = s.state
      /\ a.connected = s.connected /\ a.stage = "Header" /\ a.want = HeaderLen
      /\ a.write_buf = n /\ a.outbox = s.outbox /\ a.got = <<>>
      /\ a.inbox = s.inbox /\ a.data = s.data
      BY AnsweredKeeps, Zenon
<1>3. /\ s.got \in Seq(Units) /\ s.inbox \in Seq(Units) /\ s.outbox \in Seq(Nat)
      BY InOut
<1>4. Out(s) = s.outbox
      BY <1>1, <1>3, ConcatEmptySeq DEF Out, Pending
<1>5. Append(s.outbox, n) \in Seq(Nat) /\ Append(s.outbox, n) = s.outbox \o <<n>>
      BY <1>3, AppendProperties, AppendIsConcat
<1> DEFINE more == Append(s.outbox, n)
<1> HIDE DEF a
<1>6. /\ t.got = <<>> /\ t.data = <<>> /\ t.inbox = s.inbox /\ t.stage = "Header"
      /\ t.want = HeaderLen /\ t.state = s.state
      /\ \/ t.op = "Idle" /\ t.outbox = more
         \/ t.op = "WritePending" /\ t.io = "pending" /\ t.outbox = s.outbox /\ t.write_buf = n
  <2> HIDE DEF more
  <2>1. CASE t = [a EXCEPT !.event = TRUE, !.outbox = more]
        BY <1>1, <1>2, <2>1 DEF SessionType
  <2>2. CASE t = [a EXCEPT !.op = "WritePending", !.io = "pending"]
        BY <1>1, <1>2, <2>2 DEF SessionType
  <2> QED BY <2>1, <2>2 DEF more, a
<1>7. Buffers(t)
  <2>1. HeaderLen \in Nat /\ Len(<<>>) = 0
        BY ServerAssumption
  <2>2. Len(<<>>) + Len(<<>>) <= HeaderLen
        BY <2>1
  <2>3. Len(t.got) + Len(t.data) <= t.want
        BY <1>6, <2>2, Zenon
  <2> QED BY <1>1, <1>6, <2>3 DEF Buffers
<1>8. In(s) = s.got \o In(t)
  <2>1. <<>> \o <<>> = <<>> /\ <<>> \o s.inbox = s.inbox
        BY <1>3, ConcatEmptySeq, EmptySeq
  <2>2. In(t) = s.inbox
        BY <1>6, <2>1 DEF In
  <2> QED BY <1>1, <2>2, InOut
<1>9. Out(t) = more
  <2>1. CASE t.op = "Idle" /\ t.outbox = more
        BY <1>5, <2>1, ConcatEmptySeq DEF Out, Pending
  <2>2. CASE t.op = "WritePending" /\ t.io = "pending" /\ t.outbox = s.outbox /\ t.write_buf = n
        BY <1>5, <2>2 DEF Out, Pending
  <2> QED BY <1>6, <2>1, <2>2
<1> QED BY <1>4, <1>6, <1>7, <1>8, <1>9

----------------------------------------------------------------------------
(* What a step means to the clients.                                       *)

\* What Exchange says of a client, where PipeServer maps it to.
Stays(c)   == Asked(c)' = Asked(c) /\ Answers(c)' = Answers(c)
Asks(c)    == Asked(c)' = Asked(c) + 1 /\ Answers(c)' = Answers(c)
HangsUp(c) == Asked(c)' = 0 /\ Answers(c)' = <<>>
IsAnswered(c) == /\ Len(Answers(c)) < Asked(c)
                 /\ Asked(c)' = Asked(c)
                 /\ Answers(c)' = Append(Answers(c), Len(Answers(c)) + 1)

AllStay == \A c \in Clients : Stays(c)
OneMoves == \E c \in Clients : /\ Asks(c) \/ HangsUp(c) \/ IsAnswered(c)
                               /\ \A d \in Clients \ {c} : Stays(d)

\* Nothing changes for a client whose session keeps what is on its way.
LEMMA SameClient ==
    ASSUME NEW c \in Clients, StreamOK(c), conn'[c] = conn[c],
           Connected(c) => SameWay(sessions[conn[c].id], sessions'[conn[c].id])
    PROVE  StreamOK(c)' /\ Stays(c)
<1>1. Connected(c)' <=> Connected(c)
      BY DEF Connected
<1>2. Asked(c)' = Asked(c)
      BY DEF Asked
<1>3. CASE Connected(c)
  <2>1. Stream(c)' = Stream(c) /\ Answers(c)' = Answers(c)
        BY <1>1, <1>3 DEF Stream, Answers, SameWay
  <2> QED BY <1>1, <1>2, <1>3, <2>1 DEF StreamOK, Stays
<1>4. CASE ~Connected(c)
  <2>1. Answers(c)' = Answers(c)
        BY <1>1, <1>4 DEF Answers
  <2> QED BY <1>1, <1>2, <1>4, <2>1 DEF StreamOK, Stays
<1> QED BY <1>3, <1>4

LEMMA BuffersChange ==
    ASSUME Core, BuffersOK, NEW j \in Ids, NEW t, Buffers(t),
           sessions' = [sessions EXCEPT ![j] = t]
    PROVE  BuffersOK'
<1>1. ASSUME NEW i \in Ids PROVE Buffers(sessions'[i])
  <2>1. sessions'[i] = IF i = j THEN t ELSE sessions[i]
        BY DEF Core
  <2> QED BY <2>1 DEF BuffersOK
<1> QED BY <1>1 DEF BuffersOK

\* A step that only moves what is on its way, within one session.
LEMMA QuietChange ==
    ASSUME Core, BuffersOK, StreamsOK, NEW j \in Ids, NEW t, Buffers(t),
           SameWay(sessions[j], t),
           sessions' = [sessions EXCEPT ![j] = t], conn' = conn
    PROVE  BuffersOK' /\ StreamsOK' /\ AllStay
<1>1. BuffersOK'
      BY BuffersChange
<1>2. ASSUME NEW c \in Clients PROVE StreamOK(c)' /\ Stays(c)
  <2>1. StreamOK(c) /\ conn'[c] = conn[c]
        BY DEF StreamsOK
  <2>2. Connected(c) => SameWay(sessions[conn[c].id], sessions'[conn[c].id])
    <3> SUFFICES ASSUME Connected(c)
                 PROVE  SameWay(sessions[conn[c].id], sessions'[conn[c].id])
        OBVIOUS
    <3>1. conn[c].id \in Ids
          BY ConnectedSession
    <3>2. CASE conn[c].id = j
          BY <3>1, <3>2 DEF Core
    <3>3. CASE conn[c].id # j
          BY <3>1, <3>3 DEF Core, SameWay
    <3> QED BY <3>2, <3>3
  <2> QED BY <2>1, <2>2, SameClient
<1> QED BY <1>1, <1>2 DEF StreamsOK, AllStay

\* A session that is disconnected hangs up on its client, if it has one.
LEMMA DisconnectChange ==
    ASSUME Core, BuffersOK, StreamsOK, NEW j \in Ids, Disconnect(j)
    PROVE  BuffersOK' /\ StreamsOK' /\ (AllStay \/ OneMoves)
<1>1. /\ sessions' = [sessions EXCEPT ![j] = RearmConnect(Fresh)]
      /\ conn' = [c \in Clients |-> IF conn[c].id = j THEN NoConn ELSE conn[c]]
      BY DEF Disconnect
<1>2. BuffersOK'
      BY <1>1, FreshWay, BuffersChange
<1>3. ASSUME NEW c \in Clients, conn[c].id # j PROVE StreamOK(c)' /\ Stays(c)
  <2>1. StreamOK(c) /\ conn'[c] = conn[c]
        BY <1>1, <1>3 DEF StreamsOK
  <2>2. Connected(c) => SameWay(sessions[conn[c].id], sessions'[conn[c].id])
    <3> SUFFICES ASSUME Connected(c)
                 PROVE  SameWay(sessions[conn[c].id], sessions'[conn[c].id])
        OBVIOUS
    <3>1. conn[c].id \in Ids
          BY ConnectedSession
    <3> QED BY <1>1, <1>3, <3>1 DEF Core, SameWay
  <2> QED BY <2>1, <2>2, SameClient
<1>4. ASSUME NEW c \in Clients, conn[c].id = j PROVE StreamOK(c)' /\ HangsUp(c) /\ Connected(c)
  <2>1. conn'[c] = NoConn
        BY <1>1, <1>4
  <2>2. ~Connected(c)' /\ Asked(c)' = 0
        BY <2>1 DEF Connected, NoConn, Asked
  <2>3. Connected(c)
        BY <1>4, ServerAssumption DEF Connected, Ids
  <2> QED BY <2>1, <2>2, <2>3 DEF StreamOK, HangsUp, Answers
<1>5. StreamsOK'
      BY <1>3, <1>4 DEF StreamsOK
<1>6. CASE \A c \in Clients : conn[c].id # j
      BY <1>2, <1>3, <1>5, <1>6 DEF AllStay
<1>7. CASE \E c \in Clients : conn[c].id = j
  <2>1. PICK c \in Clients : conn[c].id = j
        BY <1>7
  <2>2. Connected(c)
        BY <1>4, <2>1
  <2>3. \A d \in Clients \ {c} : conn[d].id # j
        BY <2>1, <2>2 DEF Core, OwnersOK
  <2>4. \A d \in Clients \ {c} : Stays(d)
        BY <1>3, <2>3
  <2>5. HangsUp(c)
        BY <1>4, <2>1
  <2> QED BY <1>2, <1>5, <2>4, <2>5 DEF OneMoves
<1> QED BY <1>6, <1>7

LEMMA NoChange ==
    ASSUME Core, BuffersOK, StreamsOK, sessions' = sessions, conn' = conn
    PROVE  BuffersOK' /\ StreamsOK' /\ AllStay
<1>1. BuffersOK'
      BY DEF BuffersOK
<1>2. ASSUME NEW c \in Clients PROVE StreamOK(c)' /\ Stays(c)
  <2>1. StreamOK(c) /\ conn'[c] = conn[c]
        BY DEF StreamsOK
  <2>2. Connected(c) => SameWay(sessions[conn[c].id], sessions'[conn[c].id])
        BY DEF SameWay
  <2> QED BY <2>1, <2>2, SameClient
<1> QED BY <1>1, <1>2 DEF StreamsOK, AllStay

----------------------------------------------------------------------------
(* The steps of the server.                                                *)

\* What every step does.
Moves == BuffersOK' /\ StreamsOK' /\ (AllStay \/ OneMoves)

\* A turn that only moves what is on its way.
LEMMA QuietTurn ==
    ASSUME Core, BuffersOK, StreamsOK, NEW t, Buffers(t), SameWay(Session, t), Become(t)
    PROVE  Moves
<1>1. PICK j \in Ids : j = at
      BY DEF Core
<1>2. /\ sessions' = [sessions EXCEPT ![j] = t] /\ conn' = conn
      /\ SameWay(sessions[j], t)
      BY <1>1 DEF Become, Session
<1> QED BY <1>2, QuietChange DEF Moves

LEMMA DisconnectTurn ==
    ASSUME Core, BuffersOK, StreamsOK, Disconnect(at)
    PROVE  Moves
<1>1. PICK j \in Ids : j = at
      BY DEF Core
<1>2. Disconnect(j)
      BY <1>1
<1> QED BY <1>2, DisconnectChange DEF Moves

\* The session the server is at, and its buffer.
LEMMA SessionBuffers ==
    ASSUME Core, BuffersOK, Turn
    PROVE  /\ Session \in SessionType /\ Buffers(Session)
           /\ pc # "sweep" => Good(Session, TRUE, TRUE)
           /\ pc = "sweep" => Good(Session, TRUE, FALSE)
<1>1. Session \in SessionType /\ at \in Ids /\ Good(Session, TRUE, pc # "sweep")
      BY SessionGood
<1>2. Buffers(Session)
      BY <1>1 DEF BuffersOK, Session
<1>3. pc # "sweep" => (pc # "sweep") = TRUE
      OBVIOUS
<1>4. pc = "sweep" => (pc # "sweep") = FALSE
      OBVIOUS
<1> QED BY <1>1, <1>2, <1>3, <1>4

LEMMA ReadLaterMoves ==
    ASSUME Core, BuffersOK, StreamsOK, pc \in {"advance", "next"}, NEW n \in Nat,
           ReadLater(n), n + Len(Session.got) <= Session.want
    PROVE  Moves
<1>1. Turn /\ pc # "sweep"
      BY DEF Turn
<1>2. Session \in SessionType /\ Buffers(Session) /\ Good(Session, TRUE, TRUE)
      BY <1>1, SessionBuffers
<1>3. CASE Session.state = "connected"
  <2> DEFINE t == Awaiting(Session, n)
  <2>1. Session.inbox = <<>> /\ Become(t)
        BY <1>3 DEF ReadLater, Awaiting
  <2>2. Buffers(t) /\ SameWay(Session, t)
        BY <1>2, <1>3, <2>1, AwaitingWay
  <2> HIDE DEF t
  <2> QED BY <2>1, <2>2, QuietTurn
<1>4. CASE Session.state # "connected"
      BY <1>4, DisconnectTurn DEF ReadLater
<1> QED BY <1>3, <1>4

LEMMA RearmMoves ==
    ASSUME Core, BuffersOK, StreamsOK, Rearm PROVE Moves
<1>1. PICK j \in Ids : j = at
      BY DEF Core
<1>2. pc = "new" /\ Become(RearmConnect(Session))
      BY DEF Rearm
<1>3. Rearmed(j) = FALSE /\ InService(j) = FALSE
      BY <1>1, <1>2, ServerAssumption DEF Rearmed, InService, Ids
<1>4. sessions[j] \in SessionType /\ Good(sessions[j], FALSE, FALSE) /\ Buffers(sessions[j])
      BY <1>3 DEF Core, SessionsOK, BuffersOK
<1>5. Session \in SessionType /\ Good(Session, FALSE, FALSE) /\ Buffers(Session)
      BY <1>1, <1>4 DEF Session
<1> DEFINE t == RearmConnect(Session)
<1>6. Buffers(t) /\ SameWay(Session, t)
      BY <1>5, RearmConnectWay
<1> HIDE DEF t
<1> QED BY <1>2, <1>6, QuietTurn DEF t

LEMMA ServiceMovesOn ==
    ASSUME Core, BuffersOK, StreamsOK, Service PROVE Moves
<1>1. pc = "sweep" /\ Session.event /\ Turn
      BY DEF Service, Turn
<1>2. Session \in SessionType /\ Buffers(Session) /\ Good(Session, TRUE, FALSE)
      BY <1>1, SessionBuffers
<1>3. ~(Session.op \in {"ReadPending", "WritePending"} /\ Session.io = "pending")
      BY <1>1, <1>2 DEF Good
<1>4. CASE Failed(Session)
      BY <1>3, <1>4, DisconnectTurn DEF Service
<1>5. CASE ~Failed(Session)
  <2> DEFINE t == Consumed(Session)
  <2>1. Become(t)
        BY <1>3, <1>5 DEF Service
  <2>2. Buffers(t) /\ SameWay(Session, t)
        BY <1>1, <1>2, ConsumedWay
  <2> HIDE DEF t
  <2> QED BY <2>1, <2>2, QuietTurn
<1> QED BY <1>4, <1>5

LEMMA ReadMoreMoves ==
    ASSUME Core, BuffersOK, StreamsOK, ReadMore PROVE Moves
<1> DEFINE n == Session.want - Len(Session.got)
<1>1. pc = "advance" /\ Turn /\ pc # "sweep" /\ n > 0
      BY DEF ReadMore, Turn
<1>2. Session \in SessionType /\ Buffers(Session) /\ Good(Session, TRUE, TRUE)
      BY <1>1, SessionBuffers
<1>3. n \in Nat /\ n + Len(Session.got) <= Session.want
  <2> DEFINE want == Session.want
             len  == Len(Session.got)
  <2>1. want \in Nat /\ len \in Nat
        BY <1>2, InOut
  <2> HIDE DEF want, len
  <2>2. want - len > 0 => want - len \in Nat /\ (want - len) + len <= want
        BY <2>1
  <2> QED BY <1>1, <2>2 DEF want, len
<1>4. CASE ReadLater(n)
  <2> HIDE DEF n
  <2> QED BY <1>1, <1>3, <1>4, ReadLaterMoves
<1>5. CASE ~ReadLater(n)
  <2> DEFINE t == Gained(ReadNow(n))
  <2>1. Become(t)
        BY <1>5 DEF ReadMore
  <2> HIDE DEF n
  <2>2. Buffers(t) /\ SameWay(Session, t)
        BY <1>2, <1>3, ReadNowWay, Zenon
  <2> HIDE DEF t
  <2> QED BY <2>1, <2>2, QuietTurn
<1> QED BY <1>4, <1>5

LEMMA HeaderDoneMoves ==
    ASSUME Core, BuffersOK, StreamsOK, HeaderDone PROVE Moves
<1>1. /\ pc = "advance" /\ Turn /\ pc # "sweep"
      /\ Session.stage = "Header" /\ Len(Session.got) >= Session.want
      BY DEF HeaderDone, Turn
<1>2. Session \in SessionType /\ Buffers(Session) /\ Good(Session, TRUE, TRUE)
      BY <1>1, SessionBuffers
<1>3. CASE Session.got[1].kind = "malformed"
      BY <1>3, DisconnectTurn DEF HeaderDone
<1>4. CASE Session.got[1].kind # "malformed"
  <2> DEFINE t == [Session EXCEPT !.stage = "Body", !.want = HeaderLen + BodyLen]
  <2>1. Become(t)
        BY <1>4 DEF HeaderDone
  <2>2. Buffers(t) /\ SameWay(Session, t)
        BY <1>1, <1>2, <1>4, HeaderWay, Zenon
  <2> HIDE DEF t
  <2> QED BY <2>1, <2>2, QuietTurn
<1> QED BY <1>3, <1>4

LEMMA NextReadMoves ==
    ASSUME Core, EInv, NextRead PROVE Moves
<1>1. /\ pc = "next" /\ Turn /\ pc # "sweep" /\ BuffersOK /\ StreamsOK
      /\ Session.got = <<>> /\ Session.stage = "Header"
      BY DEF NextRead, Turn, EInv, AnswerGiven
<1>2. Session \in SessionType /\ Buffers(Session) /\ Good(Session, TRUE, TRUE)
      BY <1>1, SessionBuffers
<1>3. /\ HeaderLen \in Nat /\ Session.want = HeaderLen
      /\ HeaderLen <= Session.want /\ HeaderLen + Len(Session.got) <= Session.want
  <2>1. HeaderLen \in Nat /\ Len(<<>>) = 0 /\ HeaderLen + Len(<<>>) <= HeaderLen
        BY ServerAssumption
  <2>2. Session.want = HeaderLen
        BY <1>1, <1>2 DEF Good
  <2> QED BY <1>1, <2>1, <2>2
<1>4. CASE ReadLater(HeaderLen)
      BY <1>1, <1>3, <1>4, ReadLaterMoves
<1>5. CASE ~ReadLater(HeaderLen) /\ served < MaxReqsPerWake
  <2> DEFINE t == Gained(ReadNow(HeaderLen))
  <2>1. Become(t)
        BY <1>5, ServerAssumption DEF NextRead, Core
  <2>2. Buffers(t) /\ SameWay(Session, t)
        BY <1>2, <1>3, ReadNowWay, Zenon
  <2> HIDE DEF t
  <2> QED BY <1>1, <2>1, <2>2, QuietTurn
<1>6. CASE ~ReadLater(HeaderLen) /\ ~(served < MaxReqsPerWake)
  <2> DEFINE t == [ReadNow(HeaderLen) EXCEPT !.op = "ReadBuffered"]
  <2>1. Become(t)
        BY <1>6 DEF NextRead
  <2>2. Buffers(t) /\ SameWay(Session, t)
        BY <1>1, <1>2, <1>3, ReadBufferedWay, Zenon
  <2> HIDE DEF t
  <2> QED BY <1>1, <2>1, <2>2, QuietTurn
<1> QED BY <1>4, <1>5, <1>6

LEMMA EvictMoves ==
    ASSUME Core, BuffersOK, StreamsOK, Evict PROVE Moves
<1>1. CASE \A i \in Ids : sessions[i].connected
  <2>1. PICK j \in Ids : j = recency[1]
    <3>1. 1 \in Ids
          BY ServerAssumption DEF Ids
    <3> QED BY <3>1 DEF Core
  <2>2. Disconnect(j)
        BY <1>1, <2>1 DEF Evict
  <2> QED BY <2>2, DisconnectChange DEF Moves
<1>2. CASE ~\A i \in Ids : sessions[i].connected
      BY <1>2, NoChange DEF Evict, Moves
<1> QED BY <1>1, <1>2

LEMMA ConcatAppend ==
    ASSUME NEW r \in Seq(Nat), NEW s \in Seq(Nat), NEW e \in Nat
    PROVE  r \o Append(s, e) = Append(r \o s, e)
<1>1. r \o s \in Seq(Nat) /\ <<e>> \in Seq(Nat)
      BY ConcatProperties
<1>2. Append(s, e) = s \o <<e>> /\ Append(r \o s, e) = (r \o s) \o <<e>>
      BY <1>1, AppendIsConcat
<1>3. (r \o s) \o <<e>> = r \o (s \o <<e>>)
      BY <1>1, AnswersAssociate
<1> QED BY <1>2, <1>3

\* What is known of a client's side.
LEMMA ClientParts ==
    ASSUME Core, NEW c \in Clients, Connected(c)
    PROVE  /\ conn[c].id \in Ids /\ conn[c].frames \in Nat
           /\ conn[c].rest \in Seq(Units) /\ conn[c].read \in Seq(Nat)
           /\ Stream(c) \in Seq(Units)
           /\ Answers(c) = conn[c].read \o Out(sessions[conn[c].id])
           /\ Answers(c) \in Seq(Nat) /\ Len(Answers(c)) \in Nat
<1>1. conn[c].id \in Ids /\ conn[c] \in ConnType /\ sessions[conn[c].id] \in SessionType
      BY ConnectedSession
<1>2. conn[c].frames \in Nat /\ conn[c].rest \in Seq(Units) /\ conn[c].read \in Seq(Nat)
      BY <1>1 DEF ConnType
<1>3. In(sessions[conn[c].id]) \in Seq(Units) /\ Out(sessions[conn[c].id]) \in Seq(Nat)
      BY <1>1, InOut
<1>4. Stream(c) \in Seq(Units)
      BY <1>2, <1>3, ConcatProperties DEF Stream
<1>5. Answers(c) = conn[c].read \o Out(sessions[conn[c].id])
      BY DEF Answers
<1>6. Answers(c) \in Seq(Nat)
      BY <1>2, <1>3, <1>5, ConcatProperties
<1>7. Len(Answers(c)) \in Nat
      BY <1>6, LenProperties
<1> QED BY <1>1, <1>2, <1>4, <1>5, <1>6, <1>7

\* The request that is complete is the first one not answered yet.
LEMMA RequestIsNext ==
    ASSUME Core, BuffersOK, StreamsOK, HandleRequest, Session.got[1].kind # "refused",
           NEW c \in Clients, conn[c].id = at,
           NEW more \in Seq(Units), In(Session) = Session.got \o more
    PROVE  LET first == Len(Answers(c)) IN
           /\ Connected(c) /\ Answer(Session.got) = first + 1
           /\ Spelled(more \o conn[c].rest, first + 1, conn[c].frames)
           /\ first < Asked(c)
<1> DEFINE got   == Session.got
           first == Len(Answers(c))
           last  == conn[c].frames
           rest  == conn[c].rest
           kind  == got[1].kind
<1>1. /\ pc = "advance" /\ Turn /\ pc # "sweep"
      /\ Session.stage = "Body" /\ Len(Session.got) >= Session.want
      BY DEF HandleRequest, Turn
<1>2. Session \in SessionType /\ Buffers(Session) /\ Good(Session, TRUE, TRUE)
      BY <1>1, SessionBuffers
<1>3. Connected(c)
      BY ServerAssumption DEF Core, Connected, Ids
<1>4. /\ last \in Nat /\ rest \in Seq(Units) /\ first \in Nat
      BY <1>3, ClientParts
<1>5. got \in Seq(Units) /\ Len(got) = HeaderLen + BodyLen
  <2>1. Session.want = HeaderLen + BodyLen /\ HeaderLen + BodyLen \in Nat
        BY <1>1, <1>2, ServerAssumption DEF Good
  <2>2. got \in Seq(Units) /\ Len(got) \in Nat
        BY <1>2, InOut
  <2>3. Session.data = <<>> /\ Len(<<>>) = 0
        BY <1>2 DEF Good, Buffers
  <2>4. Len(got) + Len(<<>>) <= HeaderLen + BodyLen
        BY <1>2, <2>1, <2>3 DEF Buffers
  <2>5. Len(got) >= HeaderLen + BodyLen
        BY <1>1, <2>1
  <2> HIDE DEF got
  <2> QED BY <2>1, <2>2, <2>3, <2>4, <2>5
<1>6. kind # "malformed" /\ kind # "refused"
      BY <1>1, <1>2 DEF Buffers
<1>7. Spelled(got \o (more \o rest), first, last)
  <2>1. StreamOK(c) /\ Session = sessions[conn[c].id]
        BY DEF StreamsOK, Session
  <2>2. Stream(c) = In(Session) \o rest
        BY <2>1 DEF Stream
  <2>3. (got \o more) \o rest = got \o (more \o rest)
        BY <1>4, <1>5, UnitsAssociate
  <2> QED BY <1>3, <2>1, <2>2, <2>3 DEF StreamOK
<1>8. more \o rest \in Seq(Units)
      BY <1>4, ConcatProperties
<1> HIDE DEF first, last, rest, got
<1>9. /\ first < last /\ kind \in Kinds
      /\ got = Frame(first + 1, kind)
      /\ Spelled(more \o rest, first + 1, last)
      /\ more \o rest # <<>> => first + 1 < last
      BY <1>4, <1>5, <1>6, <1>7, <1>8, SpelledFirst
<1>10. kind = "request"
      BY <1>6, <1>9, ServerAssumption DEF FrameKinds
<1>11. got[1].frame = first + 1
  <2>1. first + 1 \in Nat
        BY <1>4
  <2> HIDE DEF kind
  <2>2. /\ FrameLen(kind) \in Nat \ {0}
        /\ \A p \in 1 .. FrameLen(kind) :
              Frame(first + 1, kind)[p] = [frame |-> first + 1, kind |-> kind, pos |-> p]
        BY <1>9, <2>1, FrameUnits
  <2>3. 1 \in 1 .. FrameLen(kind)
        BY <2>2
  <2>4. got[1] = [frame |-> first + 1, kind |-> kind, pos |-> 1]
        BY <1>9, <2>2, <2>3
  <2> QED BY <2>4
<1>12. Answer(got) = first + 1
  <2> HIDE DEF kind
  <2> QED BY <1>9, <1>10, <1>11 DEF Answer
<1>13. first < Asked(c)
  <2>1. CASE rest = <<>>
    <3>1. Asked(c) = last
          BY <1>4, <2>1 DEF Asked, last, rest
    <3> QED BY <1>9, <3>1
  <2>2. CASE rest # <<>>
    <3>1. more \o rest # <<>>
          BY <1>4, <2>2, ConcatEqualIffEmpty
    <3>2. Asked(c) = last - 1
          BY <2>2 DEF Asked, last, rest
    <3> QED BY <1>4, <1>9, <3>1, <3>2
  <2> QED BY <2>1, <2>2
<1> QED BY <1>3, <1>9, <1>12, <1>13 DEF first, last, rest, got

LEMMA HandleRequestMoves ==
    ASSUME Core, BuffersOK, StreamsOK, HandleRequest
    PROVE  Moves /\ AnswerGiven'
<1> DEFINE n == Answer(Session.got)
           a == AnsweredWith(Session, n)
<1>1. /\ pc = "advance" /\ Turn /\ pc # "sweep"
      /\ Session.stage = "Body" /\ Len(Session.got) >= Session.want
      BY DEF HandleRequest, Turn
<1>2. Session \in SessionType /\ Buffers(Session) /\ Good(Session, TRUE, TRUE)
      BY <1>1, SessionBuffers
<1>3. CASE Disconnect(at) /\ NextSession
      BY <1>3, DisconnectTurn DEF AnswerGiven, NextSession
<1>4. CASE ~(Disconnect(at) /\ NextSession)
  <2>1. PICK t : /\ t \in {[a EXCEPT !.event = TRUE, !.outbox = Append(Session.outbox, n)],
                           [a EXCEPT !.op = "WritePending", !.io = "pending"]}
                 /\ Become(t) /\ Session.got[1].kind # "refused"
                 /\ pc' = "next" => at' = at
    <3>1. Session.got[1].kind # "refused" /\ Session.state = "connected"
          BY <1>4 DEF HandleRequest
    <3>2. CASE Len(Session.outbox) < OutRoom
      <4>1. a.outbox = Session.outbox /\ a.write_buf = n
            BY <1>2 DEF AnsweredWith, Begun, SessionType
      <4>2. /\ Become([a EXCEPT !.event = TRUE, !.outbox = Append(@, a.write_buf)])
            /\ at' = at
            BY <1>4, <3>1, <3>2 DEF HandleRequest, AnsweredWith
      <4>3. Become([a EXCEPT !.event = TRUE, !.outbox = Append(Session.outbox, n)])
            BY <4>1, <4>2
      <4> HIDE DEF a, n
      <4> QED BY <3>1, <4>2, <4>3
    <3>3. CASE ~(Len(Session.outbox) < OutRoom)
      <4>1. Become([a EXCEPT !.op = "WritePending", !.io = "pending"]) /\ NextSession
            BY <1>4, <3>1, <3>3 DEF HandleRequest, AnsweredWith
      <4>2. pc' # "next"
            BY <4>1 DEF NextSession
      <4> HIDE DEF a, n
      <4> QED BY <3>1, <4>1, <4>2
    <3> QED BY <3>2, <3>3
  <2>2. PICK j \in Ids : j = at
        BY DEF Core
  <2>3. n \in Nat
    <3>1. Session.got \in Seq(Units) /\ Session.got[1] \in Units
      <4> DEFINE got == Session.got
      <4>1. got \in Seq(Units) /\ Len(got) \in Nat /\ Len(got) > 0
            BY <1>1, <1>2, InOut DEF Buffers
      <4> HIDE DEF got
      <4>2. got[1] \in Units
        <5>1. 1 \in 1 .. Len(got)
              BY <4>1
        <5> QED BY <4>1, <5>1, ElementOfSeq
      <4> QED BY <4>1, <4>2 DEF got
    <3> QED BY <3>1 DEF Answer, Units
  <2>4. /\ Buffers(t) /\ In(Session) = Session.got \o In(t) /\ Out(t) = Append(Out(Session), n)
        /\ t.got = <<>> /\ t.stage = "Header"
    <3> HIDE DEF n
    <3> QED BY <1>2, <2>1, <2>3, AnsweredWay, Zenon
  <2> HIDE DEF a, n
  <2>5. sessions' = [sessions EXCEPT ![j] = t] /\ conn' = conn
        BY <2>1, <2>2 DEF Become
  <2>6. t = sessions'[j] /\ \A i \in Ids \ {j} : sessions'[i] = sessions[i]
        BY <2>5 DEF Core
  <2>7. t \in SessionType
    <3>1. Core'
          BY HandleRequestStep
    <3> QED BY <2>6, <3>1 DEF Core
  <2>8. In(t) \in Seq(Units) /\ Out(Session) \in Seq(Nat)
        BY <1>2, <2>7, InOut
  <2>9. BuffersOK'
        BY <2>4, <2>5, BuffersChange
  <2>10. ASSUME NEW c \in Clients, conn[c].id # j PROVE StreamOK(c)' /\ Stays(c)
    <3>1. StreamOK(c) /\ conn'[c] = conn[c]
          BY <2>5 DEF StreamsOK
    <3>2. Connected(c) => SameWay(sessions[conn[c].id], sessions'[conn[c].id])
      <4> SUFFICES ASSUME Connected(c)
                   PROVE  SameWay(sessions[conn[c].id], sessions'[conn[c].id])
          OBVIOUS
      <4>1. conn[c].id \in Ids
            BY ConnectedSession
      <4> QED BY <2>6, <2>10, <4>1 DEF SameWay
    <3> QED BY <3>1, <3>2, SameClient
  <2>11. ASSUME NEW c \in Clients, conn[c].id = j PROVE StreamOK(c)' /\ IsAnswered(c) /\ Connected(c)
    <3>1. /\ Connected(c) /\ n = Len(Answers(c)) + 1
          /\ Spelled(In(t) \o conn[c].rest, Len(Answers(c)) + 1, conn[c].frames)
          /\ Len(Answers(c)) < Asked(c)
          BY <2>1, <2>2, <2>4, <2>8, <2>11, RequestIsNext DEF n
    <3>2. Connected(c)' /\ Asked(c)' = Asked(c) /\ conn'[c] = conn[c]
          BY <2>5, <3>1 DEF Connected, Asked
    <3>3. Stream(c)' = In(t) \o conn[c].rest
          BY <2>6, <2>11, <3>2 DEF Stream
    <3>4. /\ Answers(c) \in Seq(Nat) /\ Answers(c) = conn[c].read \o Out(Session)
          /\ conn[c].read \in Seq(Nat)
          BY <2>2, <2>11, <3>1, ClientParts DEF Session
    <3>5. Answers(c)' = conn[c].read \o Append(Out(Session), n)
          BY <2>4, <2>6, <2>11, <3>2 DEF Answers
    <3>6. Answers(c)' = Append(Answers(c), n)
      <4>1. conn[c].read \o Append(Out(Session), n) = Append(conn[c].read \o Out(Session), n)
            BY <2>3, <2>8, <3>4, ConcatAppend, Zenon
      <4> QED BY <3>4, <3>5, <4>1, Zenon
    <3>7. Len(Answers(c)') = Len(Answers(c)) + 1
          BY <2>3, <3>4, <3>6, AppendProperties
    <3>8. StreamOK(c)'
          BY <3>1, <3>2, <3>3, <3>7 DEF StreamOK
    <3> QED BY <3>1, <3>2, <3>6, <3>8 DEF IsAnswered
  <2>12. StreamsOK'
        BY <2>10, <2>11 DEF StreamsOK
  <2>13. AllStay \/ OneMoves
    <3>1. CASE \A c \in Clients : conn[c].id # j
          BY <2>10, <3>1 DEF AllStay
    <3>2. CASE \E c \in Clients : conn[c].id = j
      <4>1. PICK c \in Clients : conn[c].id = j
            BY <3>2
      <4>2. IsAnswered(c) /\ Connected(c)
            BY <2>11, <4>1
      <4>3. \A d \in Clients \ {c} : conn[d].id # j
            BY <4>1, <4>2 DEF Core, OwnersOK
      <4> QED BY <2>10, <4>2, <4>3 DEF OneMoves
    <3> QED BY <3>1, <3>2
  <2>14. AnswerGiven'
        BY <2>1, <2>2, <2>4, <2>6 DEF AnswerGiven, Session
  <2> QED BY <2>9, <2>12, <2>13, <2>14 DEF Moves
<1> QED BY <1>3, <1>4

----------------------------------------------------------------------------
(* The steps of the clients.                                               *)

\* A step of one client, on its session, is nothing to the others.
LEMMA OtherClient ==
    ASSUME Core, NEW j \in Ids, NEW t, sessions' = [sessions EXCEPT ![j] = t],
           NEW d \in Clients, StreamOK(d), conn'[d] = conn[d],
           Connected(d) => conn[d].id # j
    PROVE  StreamOK(d)' /\ Stays(d)
<1>1. Connected(d) => SameWay(sessions[conn[d].id], sessions'[conn[d].id])
  <2> SUFFICES ASSUME Connected(d)
               PROVE  SameWay(sessions[conn[d].id], sessions'[conn[d].id])
      OBVIOUS
  <2>1. conn[d].id \in Ids
        BY ConnectedSession
  <2> QED BY <2>1 DEF Core, SameWay
<1> QED BY <1>1, SameClient

\* So it is enough to look at that client.
LEMMA ClientMoves ==
    ASSUME Core, BuffersOK, StreamsOK, NEW j \in Ids, NEW t, NEW c \in Clients, NEW e,
           sessions' = [sessions EXCEPT ![j] = t], conn' = [conn EXCEPT ![c] = e],
           \A d \in Clients \ {c} : Connected(d) => conn[d].id # j,
           Buffers(t), StreamOK(c)', Stays(c) \/ Asks(c) \/ HangsUp(c)
    PROVE  Moves
<1>1. BuffersOK'
      BY BuffersChange
<1>2. ASSUME NEW d \in Clients \ {c} PROVE StreamOK(d)' /\ Stays(d)
  <2>1. StreamOK(d) /\ conn'[d] = conn[d]
        BY DEF StreamsOK, Core
  <2>2. Connected(d) => conn[d].id # j
        OBVIOUS
  <2> QED BY <2>1, <2>2, OtherClient
<1>3. StreamsOK'
      BY <1>2 DEF StreamsOK
<1>4. AllStay \/ OneMoves
      BY <1>2 DEF AllStay, OneMoves
<1> QED BY <1>1, <1>3, <1>4 DEF Moves

LEMMA ConnectMoves ==
    ASSUME Core, BuffersOK, StreamsOK, NEW c \in Clients, NEW i \in Ids, Connect(c, i)
    PROVE  Moves
<1> DEFINE s == sessions[i]
           t == Opened(s)
           e == [conn[c] EXCEPT !.id = i]
<1>1. /\ ~Connected(c) /\ s.state \in {"created", "listening"}
      /\ sessions' = [sessions EXCEPT ![i] = t] /\ conn' = [conn EXCEPT ![c] = e]
      BY DEF Connect, Core
<1>2. s \in SessionType /\ Good(s, Rearmed(i), InService(i)) /\ Buffers(s)
      BY DEF Core, SessionsOK, BuffersOK
<1>3. Rearmed(i) \in BOOLEAN /\ InService(i) \in BOOLEAN
      BY DEF Rearmed, InService
<1>4. Buffers(t) /\ SameWay(s, t) /\ In(s) = <<>> /\ Out(s) = <<>>
      BY <1>1, <1>2, <1>3, OpenedWay, Zenon
<1>5. \A d \in Clients \ {c} : Connected(d) => conn[d].id # i
      BY <1>1 DEF Core, OwnersOK
<1>6. conn[c] = NoConn
      BY <1>1 DEF StreamsOK, StreamOK
<1>7. e.id = i /\ e.frames = 0 /\ e.rest = <<>> /\ e.read = <<>>
      BY <1>6 DEF NoConn
<1> HIDE DEF s, t, e
<1>8. conn'[c] = e /\ sessions'[i] = t
      BY <1>1 DEF Core
<1>9. Connected(c)'
      BY <1>7, <1>8, ServerAssumption DEF Connected, Ids
<1>10. <<>> \o <<>> = <<>> /\ Len(<<>>) = 0
      BY ConcatEmptySeq, EmptySeq
<1>11. Stream(c)' = <<>> /\ Answers(c)' = <<>> /\ Asked(c)' = 0
      BY <1>4, <1>7, <1>8, <1>9, <1>10 DEF Stream, Answers, Asked, SameWay
<1>12. Answers(c) = <<>> /\ Asked(c) = 0
      BY <1>1, <1>6 DEF Answers, Asked, NoConn
<1>13. StreamOK(c)'
      BY <1>7, <1>8, <1>9, <1>10, <1>11, SpelledNothing DEF StreamOK
<1>14. Stays(c)
      BY <1>11, <1>12 DEF Stays
<1> QED BY <1>1, <1>4, <1>5, <1>13, <1>14, ClientMoves

\* A client that is connected, and its session.
LEMMA OwnSession ==
    ASSUME Core, BuffersOK, StreamsOK, NEW c \in Clients, Connected(c)
    PROVE  \E j \in Ids :
              /\ conn[c].id = j /\ sessions[j] \in SessionType /\ Buffers(sessions[j])
              /\ sessions[j].state = "connected"
              /\ Stream(c) = In(sessions[j]) \o conn[c].rest
              /\ Answers(c) = conn[c].read \o Out(sessions[j])
              /\ Spelled(Stream(c), Len(Answers(c)), conn[c].frames)
              /\ \A d \in Clients \ {c} : Connected(d) => conn[d].id # j
<1>1. PICK j \in Ids : j = conn[c].id
      BY ConnectedSession
<1>2. sessions[j] \in SessionType /\ sessions[j].state = "connected"
      BY <1>1, ConnectedSession
<1>3. Buffers(sessions[j])
      BY DEF BuffersOK
<1>4. Spelled(Stream(c), Len(Answers(c)), conn[c].frames)
      BY DEF StreamsOK, StreamOK
<1>5. \A d \in Clients \ {c} : Connected(d) => conn[d].id # j
      BY <1>1 DEF Core, OwnersOK
<1> QED BY <1>1, <1>2, <1>3, <1>4, <1>5 DEF Stream, Answers

LEMMA WriteMoves ==
    ASSUME Core, BuffersOK, StreamsOK, NEW c \in Clients, NEW kind \in Kinds, NEW n \in Nat,
           Write(c, kind, n)
    PROVE  Moves
<1> DEFINE new    == conn[c].rest = <<>>
           rest   == IF new THEN Frame(conn[c].frames + 1, kind) ELSE conn[c].rest
           taken  == Taken(rest, n)
           left   == Left(rest, n)
           frames == IF new THEN conn[c].frames + 1 ELSE conn[c].frames
           e      == [conn[c] EXCEPT !.rest = left, !.frames = frames]
<1>1. Connected(c)
      BY DEF Write
<1>2. PICK j \in Ids :
         /\ conn[c].id = j /\ sessions[j] \in SessionType /\ Buffers(sessions[j])
         /\ sessions[j].state = "connected"
         /\ Stream(c) = In(sessions[j]) \o conn[c].rest
         /\ Answers(c) = conn[c].read \o Out(sessions[j])
         /\ Spelled(Stream(c), Len(Answers(c)), conn[c].frames)
         /\ \A d \in Clients \ {c} : Connected(d) => conn[d].id # j
      BY <1>1, OwnSession
<1> DEFINE s == sessions[j]
           t == Received(s, taken)
<1>3. /\ conn[c] \in ConnType /\ conn[c].frames \in Nat /\ conn[c].rest \in Seq(Units)
      /\ Len(Answers(c)) \in Nat
      BY <1>1, ConnectedSession, ClientParts
<1>4. rest \in Seq(Units) /\ frames \in Nat
  <2>1. conn[c].frames + 1 \in Nat
        BY <1>3
  <2> QED BY <1>3, <2>1, FrameType
<1>5. taken \in Seq(Units) /\ left \in Seq(Units) /\ taken \o left = rest
  <2> HIDE DEF rest
  <2> QED BY <1>4, TakenAndLeft
<1>6. In(s) \in Seq(Units)
      BY <1>2, InOut
<1>7. In(s) \o rest = IF new THEN Stream(c) \o Frame(conn[c].frames + 1, kind) ELSE Stream(c)
  <2>1. new => In(s) = Stream(c)
        BY <1>2, <1>6, ConcatEmptySeq
  <2> HIDE DEF s
  <2> QED BY <1>2, <2>1 DEF s
<1>8. /\ sessions' = [sessions EXCEPT ![j] = t]
      /\ conn' = [conn EXCEPT ![c].rest = left, ![c].frames = frames]
      BY <1>2 DEF Write, Core
<1>9. Spelled(In(s) \o rest, Len(Answers(c)), frames)
  <2>1. CASE new
    <3>1. Stream(c) \in Seq(Units)
          BY <1>1, ClientParts
    <3>2. Spelled(Stream(c) \o Frame(conn[c].frames + 1, kind), Len(Answers(c)),
                  conn[c].frames + 1)
          BY <1>2, <1>3, <3>1, SpelledMore
    <3>3. In(s) \o rest = Stream(c) \o Frame(conn[c].frames + 1, kind)
          BY <1>7, <2>1, Zenon
    <3>4. frames = conn[c].frames + 1
          BY <2>1, Zenon
    <3> HIDE DEF rest, frames
    <3> QED BY <3>2, <3>3, <3>4, Zenon
  <2>2. CASE ~new
    <3>1. In(s) \o rest = Stream(c) /\ frames = conn[c].frames
          BY <1>7, <2>2, Zenon
    <3> HIDE DEF rest, frames
    <3> QED BY <1>2, <3>1, Zenon
  <2> QED BY <2>1, <2>2
<1>10. /\ new => frames = conn[c].frames + 1
       /\ ~new => frames = conn[c].frames
       OBVIOUS
<1> HIDE DEF rest, taken, left, frames
<1>11. conn' = [conn EXCEPT ![c] = e] /\ conn'[c] = e /\ sessions'[j] = t
       BY <1>3, <1>8 DEF Core, ConnType
<1>12. e.id = j /\ e.rest = left /\ e.frames = frames /\ e.read = conn[c].read
       BY <1>2, <1>3 DEF ConnType
<1>13. Buffers(t) /\ In(t) = In(s) \o taken /\ Out(t) = Out(s)
       BY <1>2, <1>5, ReceivedWay, Zenon
<1> HIDE DEF e, t, s
<1>14. Connected(c)'
       BY <1>1, <1>2, <1>11, <1>12 DEF Connected
<1>15. Stream(c)' = In(s) \o rest
  <2>1. Stream(c)' = (In(s) \o taken) \o left
        BY <1>11, <1>12, <1>13 DEF Stream
  <2>2. (In(s) \o taken) \o left = In(s) \o (taken \o left)
        BY <1>5, <1>6, UnitsAssociate
  <2> QED BY <1>5, <2>1, <2>2
<1>16. Answers(c)' = Answers(c)
       BY <1>2, <1>11, <1>12, <1>13, <1>14 DEF Answers, s
<1>17. StreamOK(c)'
       BY <1>9, <1>11, <1>12, <1>14, <1>15, <1>16 DEF StreamOK
<1>18. Asked(c)' = Asked(c) \/ Asked(c)' = Asked(c) + 1
  <2>1. Asked(c)' = frames - (IF left = <<>> THEN 0 ELSE 1)
        BY <1>11, <1>12 DEF Asked
  <2>2. CASE new
        BY <1>3, <1>10, <2>1, <2>2 DEF Asked
  <2>3. CASE ~new
        BY <1>3, <1>10, <2>1, <2>3 DEF Asked
  <2> QED BY <2>2, <2>3
<1>19. Stays(c) \/ Asks(c)
       BY <1>16, <1>18 DEF Stays, Asks
<1> QED BY <1>2, <1>8, <1>11, <1>13, <1>17, <1>19, ClientMoves

LEMMA ReadMoves ==
    ASSUME Core, BuffersOK, StreamsOK, NEW c \in Clients, Read(c)
    PROVE  Moves
<1>1. Connected(c)
      BY DEF Read
<1>2. PICK j \in Ids :
         /\ conn[c].id = j /\ sessions[j] \in SessionType /\ Buffers(sessions[j])
         /\ sessions[j].state = "connected"
         /\ Stream(c) = In(sessions[j]) \o conn[c].rest
         /\ Answers(c) = conn[c].read \o Out(sessions[j])
         /\ Spelled(Stream(c), Len(Answers(c)), conn[c].frames)
         /\ \A d \in Clients \ {c} : Connected(d) => conn[d].id # j
      BY <1>1, OwnSession
<1> DEFINE s    == sessions[j]
           t    == Drained(s)
           head == Head(s.outbox)
           read == Append(conn[c].read, head)
           e    == [conn[c] EXCEPT !.read = read]
<1>3. conn[c] \in ConnType /\ conn[c].read \in Seq(Nat)
      BY <1>1, ConnectedSession, ClientParts
<1>4. /\ s.outbox # <<>> /\ sessions' = [sessions EXCEPT ![j] = t]
      /\ conn' = [conn EXCEPT ![c] = e]
      BY <1>2 DEF Read, Core
<1>5. /\ Buffers(t) /\ In(t) = In(s) /\ head \in Nat /\ Out(s) = <<head>> \o Out(t)
      BY <1>2, <1>4, DrainedWay, Zenon
<1>6. Out(t) \in Seq(Nat)
  <2>1. t \in SessionType
        BY <1>2, <1>4, DrainedKeeps, Zenon
  <2> HIDE DEF t
  <2> QED BY <2>1, InOut
<1> HIDE DEF head
<1>7. read = conn[c].read \o <<head>> /\ <<head>> \in Seq(Nat)
  <2>1. head \in Nat /\ conn[c].read \in Seq(Nat)
        BY <1>3, <1>5
  <2>2. Append(conn[c].read, head) = conn[c].read \o <<head>>
        BY <2>1, AppendIsConcat, Zenon
  <2>3. <<head>> \in Seq(Nat)
        BY <2>1
  <2> QED BY <2>2, <2>3
<1>8. conn'[c] = e /\ sessions'[j] = t
      BY <1>3, <1>4 DEF Core
<1>9. e.id = j /\ e.rest = conn[c].rest /\ e.frames = conn[c].frames /\ e.read = read
      BY <1>2, <1>3 DEF ConnType
<1> HIDE DEF e, t, s, read
<1>10. Connected(c)'
       BY <1>1, <1>2, <1>8, <1>9 DEF Connected
<1>11. Stream(c)' = Stream(c) /\ Asked(c)' = Asked(c)
       BY <1>2, <1>5, <1>8, <1>9 DEF Stream, Asked, s
<1>12. Answers(c)' = Answers(c)
  <2>1. Answers(c)' = (conn[c].read \o <<head>>) \o Out(t)
        BY <1>7, <1>8, <1>9, <1>10 DEF Answers
  <2>2. (conn[c].read \o <<head>>) \o Out(t) = conn[c].read \o (<<head>> \o Out(t))
        BY <1>3, <1>6, <1>7, AnswersAssociate
  <2> QED BY <1>2, <1>5, <2>1, <2>2 DEF s
<1>13. StreamOK(c)'
       BY <1>2, <1>8, <1>9, <1>10, <1>11, <1>12 DEF StreamOK
<1>14. Stays(c)
       BY <1>11, <1>12 DEF Stays
<1> QED BY <1>2, <1>4, <1>5, <1>13, <1>14, ClientMoves

LEMMA CloseMoves ==
    ASSUME Core, BuffersOK, StreamsOK, NEW c \in Clients, Close(c)
    PROVE  Moves
<1>1. Connected(c)
      BY DEF Close
<1>2. PICK j \in Ids :
         /\ conn[c].id = j /\ sessions[j] \in SessionType /\ Buffers(sessions[j])
         /\ \A d \in Clients \ {c} : Connected(d) => conn[d].id # j
      BY <1>1, OwnSession
<1> DEFINE t == Closed(sessions[j])
<1>3. /\ sessions' = [sessions EXCEPT ![j] = t] /\ conn' = [conn EXCEPT ![c] = NoConn]
      BY <1>2 DEF Close
<1>4. Buffers(t)
      BY <1>2, ClosedWay
<1>5. conn'[c] = NoConn
      BY <1>3 DEF Core
<1>6. ~Connected(c)' /\ Asked(c)' = 0
      BY <1>5 DEF Connected, Asked, NoConn
<1>7. StreamOK(c)' /\ HangsUp(c)
      BY <1>5, <1>6 DEF StreamOK, HangsUp, Answers
<1> HIDE DEF t
<1> QED BY <1>2, <1>3, <1>4, <1>7, ClientMoves

----------------------------------------------------------------------------
(* The theorem.                                                            *)

\* Where a request has been answered, the buffer is empty until the next is read.
LEMMA ClientKeepsAnswerGiven ==
    ASSUME Core, AnswerGiven, NEW c \in Clients, Client(c), UNCHANGED <<pc, at>>
    PROVE  AnswerGiven'
<1>1. PICK j \in Ids : j = at
      BY DEF Core
<1>2. SameServerSide(sessions[j], sessions'[j])
      BY ClientSameServerSide
<1> QED BY <1>1, <1>2 DEF AnswerGiven, Session, SameServerSide

LEMMA ServerKeepsAnswerGiven ==
    ASSUME Server \/ WatcherWake, ~HandleRequest
    PROVE  AnswerGiven'
<1>1. pc' # "next"
      BY DEF Server, WatcherWake, Wake, Wakes, Rearm, Skip, Service, ReadMore, ReadLater,
             HeaderDone, NextRead, Evict, NextSession
<1> QED BY <1>1 DEF AnswerGiven

LEMMA ServerMoves ==
    ASSUME Core, EInv, Server \/ WatcherWake
    PROVE  Moves /\ AnswerGiven'
<1>1. BuffersOK /\ StreamsOK
      BY DEF EInv
<1>2. CASE HandleRequest
      BY <1>1, <1>2, HandleRequestMoves
<1>3. CASE ~HandleRequest
  <2>1. ASSUME Wakes \/ Skip PROVE Moves
        BY <1>1, <2>1, NoChange DEF Wakes, Skip, Moves
  <2>2. Moves
        BY <1>1, <1>3, <2>1, RearmMoves, ServiceMovesOn, ReadMoreMoves, HeaderDoneMoves,
           NextReadMoves, EvictMoves DEF Server, Wake, WatcherWake
  <2> QED BY <1>3, <2>2, ServerKeepsAnswerGiven
<1> QED BY <1>2, <1>3

LEMMA ClientMovesAll ==
    ASSUME Core, EInv, NEW c \in Clients, Client(c), UNCHANGED <<pc, at>>
    PROVE  Moves /\ AnswerGiven'
<1>1. BuffersOK /\ StreamsOK /\ AnswerGiven
      BY DEF EInv
<1>2. \A n \in 1 .. HeaderLen + BodyLen : n \in Nat
      BY ServerAssumption
<1>3. Moves
      BY <1>1, <1>2, ConnectMoves, WriteMoves, ReadMoves, CloseMoves DEF Client
<1> QED BY <1>1, <1>3, ClientKeepsAnswerGiven

LEMMA ExchangeInit == Init => EInv
<1> SUFFICES ASSUME Init PROVE EInv
    OBVIOUS
<1>1. BuffersOK
      BY FreshWay DEF Init, BuffersOK
<1>2. StreamsOK
      BY DEF Init, StreamsOK, StreamOK, Connected, NoConn
<1>3. AnswerGiven
      BY DEF Init, AnswerGiven
<1> QED BY <1>1, <1>2, <1>3 DEF EInv

\* Every step keeps the invariant, and is to the clients what Exchange allows.
LEMMA ExchangeStep == IInv /\ EInv /\ [Next]_vars => EInv' /\ (AllStay \/ OneMoves)
<1> SUFFICES ASSUME IInv, EInv, [Next]_vars PROVE EInv' /\ (AllStay \/ OneMoves)
    OBVIOUS
<1>1. Core
      BY DEF IInv, TypeOK, Core
<1>2. CASE Next
      BY <1>1, <1>2, ServerMoves, ClientMovesAll DEF Next, Moves, EInv
<1>3. CASE UNCHANGED vars
  <2>1. sessions' = sessions /\ conn' = conn /\ BuffersOK /\ StreamsOK
        BY <1>3 DEF vars, EInv
  <2>2. AnswerGiven'
        BY <1>3 DEF vars, EInv, AnswerGiven, Session
  <2> QED BY <1>1, <2>1, <2>2, NoChange DEF EInv
<1> QED BY <1>2, <1>3

\* PipeServer implements Exchange: each connection's requests are answered one by
\* one and in their order, whatever the other clients do meanwhile.
THEOREM AnswersComeInOrder == Spec => AnswersInOrder
<1>1. Init => Exchanges!Init
      BY DEF Init, Exchanges!Init, Asked, Answers, Connected, NoConn
<1>2. IInv /\ EInv /\ [Next]_vars
      => EInv' /\ [Exchanges!Next]_<<[c \in Clients |-> Asked(c)], [c \in Clients |-> Answers(c)]>>
  <2> SUFFICES ASSUME IInv, EInv, [Next]_vars
               PROVE  EInv' /\ [Exchanges!Next]_<<[c \in Clients |-> Asked(c)],
                                                  [c \in Clients |-> Answers(c)]>>
      OBVIOUS
  <2>1. EInv' /\ (AllStay \/ OneMoves)
        BY ExchangeStep
  <2>2. CASE AllStay
    <3>1. UNCHANGED <<[c \in Clients |-> Asked(c)], [c \in Clients |-> Answers(c)]>>
          BY <2>2 DEF AllStay, Stays
    <3> QED BY <2>1, <3>1
  <2>3. CASE OneMoves
    <3>1. PICK c \in Clients : /\ Asks(c) \/ HangsUp(c) \/ IsAnswered(c)
                               /\ \A d \in Clients \ {c} : Stays(d)
          BY <2>3 DEF OneMoves
    <3> DEFINE asked   == [d \in Clients |-> Asked(d)]
               answers == [d \in Clients |-> Answers(d)]
    <3>2. CASE Asks(c)
      <4>1. asked' = [asked EXCEPT ![c] = asked[c] + 1] /\ answers' = answers
            BY <3>1, <3>2 DEF Asks, Stays
      <4>2. Exchanges!Ask(c)
            BY <4>1 DEF Exchanges!Ask
      <4> QED BY <2>1, <4>2 DEF Exchanges!Next
    <3>3. CASE HangsUp(c)
      <4>1. asked' = [asked EXCEPT ![c] = 0] /\ answers' = [answers EXCEPT ![c] = <<>>]
            BY <3>1, <3>3 DEF HangsUp, Stays
      <4>2. Exchanges!HangUp(c)
            BY <4>1 DEF Exchanges!HangUp
      <4> QED BY <2>1, <4>2 DEF Exchanges!Next
    <3>4. CASE IsAnswered(c)
      <4>1. /\ Len(answers[c]) < asked[c] /\ asked' = asked
            /\ answers' = [answers EXCEPT ![c] = Append(answers[c], Len(answers[c]) + 1)]
            BY <3>1, <3>4 DEF IsAnswered, Stays
      <4>2. Exchanges!Answer(c)
            BY <4>1 DEF Exchanges!Answer
      <4> QED BY <2>1, <4>2 DEF Exchanges!Next
    <3> QED BY <2>1, <3>1, <3>2, <3>3, <3>4
  <2> QED BY <2>1, <2>2, <2>3
<1> QED BY <1>1, <1>2, ExchangeInit, Invariance, PTL DEF Spec, AnswersInOrder, Exchanges!Spec
=============================================================================
