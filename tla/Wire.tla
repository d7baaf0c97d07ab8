--------------------------------- MODULE Wire ---------------------------------
(***************************************************************************)
(* What goes over the pipe: the layout of a request and of a reply         *)
(* (src/src/lib.rs, StarshipFrame in src/starship-daemon.psm1), from the   *)
(* request that a shell means to the text that it shows.                   *)
(*                                                                         *)
(* A frame is a sequence of digits below Base, which stand for bytes, and  *)
(* the limits shrink with it: as in the code a frame is shorter than the   *)
(* least length that does not fit two digits.                              *)
(***************************************************************************)
EXTENDS Naturals, Sequences, FiniteSetsExt

CONSTANTS
    Base,                         \* 256
    MaxFrameLen,                  \* 65536, which is Base^2
    MaxCwd, MaxKeymap, MaxConfig, \* 32768, 256, 4096
    Bad,          \* a byte that is not part of well-formed UTF-8
    Requests,     \* what a shell may ask
    Texts,        \* what the daemon may render: a text is the set of the
                  \* places, in bytes, between its characters
    Nothing,
    Alterations   \* bound: how many bytes of a frame may be others than meant

ASSUME WireAssumption ==
    /\ Base \in Nat \ {0, 1, 2} /\ MaxFrameLen = Base * Base
    /\ \A limit \in {MaxCwd, MaxKeymap, MaxConfig} : limit \in Nat
    /\ MaxCwd + MaxKeymap + MaxConfig + 22 <= MaxFrameLen
    /\ Bad \in 0 .. Base - 1

VARIABLES
    request,  \* what the shell means
    frame,    \* what the daemon gets
    altered,  \* how many bytes of it were not sent by the shell
    message,  \* the reply in the pipe: the length it states and its own
    rendered, \* the text that was rendered
    shown,    \* the length of what the shell makes of the reply
    left,     \* what stays in the pipe of a reply that was read
    pipe      \* of the shell: "open" or "closed"

wireVars == <<request, frame, altered, message, rendered, shown, left, pipe>>

HeaderLen   == 5
MaxTotalLen == MaxFrameLen - HeaderLen
Kinds       == {1, 2}     \* REQ_PROMPT, REQ_TIMINGS
Numbers     == 0 .. Base * (Base * (Base * Base)) - 1   \* of four bytes

----------------------------------------------------------------------------
(* Numbers and texts.                                                      *)

\* to_le_bytes, of n as a number of k bytes, at most four.
LE(n, k) == LET second == n \div Base  third == second \div Base  fourth == third \div Base
            IN  [i \in 1 .. k |-> <<n, second, third, fourth>>[i] % Base]

\* from_le_bytes.
Value(bytes) == LET digit(i) == IF i \in DOMAIN bytes THEN bytes[i] ELSE 0
                IN  digit(1) + Base * (digit(2) + Base * (digit(3) + Base * digit(4)))

Replacement == Base       \* U+FFFD, which is none of the bytes

\* from_utf8_lossy, of texts in which a byte is a character.
Lossy(bytes) == [i \in DOMAIN bytes |-> IF bytes[i] = Bad THEN Replacement ELSE bytes[i]]

\* A text that may be left out is, when it is empty.
Optional(text) == IF text = <<>> THEN Nothing ELSE text

----------------------------------------------------------------------------
(* Requests.                                                               *)

Layout(r) ==
    LE(Len(r.cwd), 4) \o r.cwd \o LE(r.status, 4)
        \o LE(Len(r.keymap), 2) \o r.keymap \o LE(r.width, 4)
        \o LE(Len(r.config), 2) \o r.config \o LE(r.disable, 1)

\* A shell asks in well-formed UTF-8, and no more than can be counted.
ASSUME RequestAssumption ==
    /\ Nothing \notin Requests
    /\ \A r \in Requests :
          /\ r.kind \in Kinds /\ r.disable \in 0 .. Base - 1
          /\ \A text \in {r.cwd, r.keymap, r.config} : text \in Seq((0 .. Base - 1) \ {Bad})
          /\ {r.status, r.width, Len(Layout(r))} \subseteq Numbers

\* encode_request, and Build of the shell module, which sends no longer cwd
\* than the daemon takes.
Encode(r) == IF Len(r.cwd) > MaxCwd THEN Nothing
             ELSE <<r.kind>> \o LE(Len(Layout(r)), 4) \o Layout(r)

Meaning(r) == [kind |-> r.kind, cwd |-> r.cwd, status |-> r.status,
               keymap |-> Optional(r.keymap), width |-> r.width,
               config |-> Optional(r.config), disable_cache |-> r.disable # 0]

\* read_slice and the numbers read with it; Has is its check.
Has(body, off, n)    == off + n <= Len(body)
Slice(body, off, n)  == SubSeq(body, off + 1, off + n)
Number(body, off, n) == Value(Slice(body, off, n))

\* parse_request, of the body of a frame: each field lies where the ones
\* before it end, within the body and its own limit.
ParseBody(kind, body) ==
    LET cwd       == Number(body, 0, 4)
        status_at == 4 + cwd
        keymap    == Number(body, status_at + 4, 2)
        width_at  == status_at + 6 + keymap
        config    == Number(body, width_at + 4, 2)
        last      == width_at + 6 + config
    IN  IF /\ Has(body, 0, 4) /\ cwd <= MaxCwd
           /\ Has(body, status_at, 6) /\ keymap <= MaxKeymap
           /\ Has(body, width_at, 6) /\ config <= MaxConfig
           /\ Has(body, last, 1)
        THEN [kind |-> kind,
              cwd |-> Lossy(Slice(body, 4, cwd)),
              status |-> Number(body, status_at, 4),
              keymap |-> Optional(Lossy(Slice(body, status_at + 6, keymap))),
              width |-> Number(body, width_at, 4),
              config |-> Optional(Lossy(Slice(body, width_at + 6, config))),
              disable_cache |-> body[last + 1] # 0]
        ELSE Nothing

\* Mutant: a frame may have any length.
ParseUncapped(data) ==
    IF Len(data) >= HeaderLen /\ data[1] \in Kinds /\ Has(data, HeaderLen, Number(data, 1, 4))
    THEN ParseBody(data[1], Slice(data, HeaderLen, Number(data, 1, 4))) ELSE Nothing

\* Mutant: the body is what comes after the header, however much that is.
ParseToTheEnd(data) ==
    IF /\ Len(data) >= HeaderLen /\ data[1] \in Kinds
       /\ Number(data, 1, 4) <= MaxTotalLen /\ Has(data, HeaderLen, Number(data, 1, 4))
    THEN ParseBody(data[1], Slice(data, HeaderLen, Len(data) - HeaderLen)) ELSE Nothing

\* parse_request.
Parse(data) ==
    LET total == Number(data, 1, 4)
    IN  IF /\ Len(data) >= HeaderLen /\ data[1] \in Kinds
           /\ total <= MaxTotalLen /\ Has(data, HeaderLen, total)
        THEN ParseBody(data[1], Slice(data, HeaderLen, total))
        ELSE Nothing

----------------------------------------------------------------------------
(* Replies.  Of a text only its length counts, and where it may be cut.    *)

\* A character has at most four bytes.
ASSUME TextAssumption ==
    /\ \A text \in Texts :
          /\ 0 \in text /\ text \subseteq Numbers
          /\ \A end \in text \ {0} : \E start \in text : start < end /\ end <= start + 4
    /\ Nothing \notin Texts \cup [states : Seq(Nat), length : Nat]

Size(text) == Max(text)

\* Mutant: the limit of a frame is taken for that of its body.
TruncateToFrame(text) == Max({end \in text : end <= MaxFrameLen})

\* truncate_utf8 of the report: back to where a character ends.
Truncate(text) == Max({end \in text : end <= MaxTotalLen})

\* stage_response.
StageResponse(length) == [states |-> LE(length, 4), length |-> 4 + length]

\* Mutant: a reply that is too long is shown as far as it came.
ReadAsItComes(m) ==
    LET read == Min({m.length, MaxFrameLen})
    IN  IF Value(m.states) = 0 THEN Nothing ELSE Min({Value(m.states), read - 4})

\* StarshipFrame's Parse, of what ReadAsync put into a buffer of a frame's length.
ReadReply(m) ==
    LET read == Min({m.length, MaxFrameLen})
        len  == Value(m.states)
    IN  IF len \in 1 .. MaxTotalLen /\ 4 + len <= read THEN len ELSE Nothing

IsMessageComplete(m) == m.length <= MaxFrameLen

----------------------------------------------------------------------------
(* One exchange.                                                           *)

WireInit == /\ request = Nothing /\ frame = Nothing /\ altered = 0
            /\ message = Nothing /\ rendered = Nothing /\ shown = Nothing
            /\ left = 0 /\ pipe = "open"

Send == /\ request = Nothing /\ request' \in Requests
        /\ frame' = Encode(request')
        /\ UNCHANGED <<altered, message, rendered, shown, left, pipe>>

\* Any program may write to the pipe: the daemon gets a frame that differs.
Alter == /\ altered < Alterations /\ frame # Nothing /\ rendered = Nothing /\ pipe = "open"
         /\ \E i \in DOMAIN frame, b \in 0 .. Base - 1 :
               b # frame[i] /\ frame' = [frame EXCEPT ![i] = b]
         /\ altered' = altered + 1
         /\ UNCHANGED <<request, message, rendered, shown, left, pipe>>

\* handle() refuses what it cannot parse, and the connection goes with it.
Refuse == /\ pipe = "open" /\ frame # Nothing /\ Parse(frame) = Nothing
          /\ pipe' = "closed"
          /\ UNCHANGED <<request, frame, altered, message, rendered, shown, left>>

\* It answers the rest, with a report only as far as that fits.
Answer == /\ frame # Nothing /\ altered = 0 /\ rendered = Nothing
          /\ Parse(frame) # Nothing
          /\ rendered' \in Texts
          /\ message' = StageResponse(IF Parse(frame).kind = 2 THEN Truncate(rendered')
                                                               ELSE Size(rendered'))
          /\ UNCHANGED <<request, frame, altered, shown, left, pipe>>

\* Mutant: the pipe is kept unless a read fails.
Keeps(m) == TRUE

\* Get-StarshipPrompt keeps the pipe when all of the reply was read, and
\* Get-StarshipDaemonTimings when it had a report.
KeepsPipe(m) == \/ ReadReply(m) # Nothing
                \/ request.kind = 1 /\ IsMessageComplete(m)

Receive == /\ message # Nothing /\ message' = Nothing
           /\ shown' = ReadReply(message)
           /\ left' = message.length - Min({message.length, MaxFrameLen})
           /\ pipe' = IF KeepsPipe(message) THEN pipe ELSE "closed"
           /\ UNCHANGED <<request, frame, altered, rendered>>

WireNext == Send \/ Alter \/ Refuse \/ Answer \/ Receive

WireSpec == WireInit /\ [][WireNext]_wireVars

----------------------------------------------------------------------------
(* Properties.                                                             *)

Fits(r) == /\ Len(r.cwd) <= MaxCwd /\ Len(r.keymap) <= MaxKeymap
           /\ Len(r.config) <= MaxConfig

\* What a shell asks is taken for what it means, or refused if a part is
\* longer than the daemon takes, also where the length of that part does not
\* fit the two bytes it is written in.
TakenAsMeant ==
    altered = 0 /\ frame # Nothing =>
       Parse(frame) = IF Fits(request) THEN Meaning(request) ELSE Nothing

\* Whatever comes, a request ends where its header says: no less of it is a
\* request, and what comes behind it is not read for it.
StandsAlone ==
    frame # Nothing /\ Parse(frame) # Nothing =>
       LET end == HeaderLen + Number(frame, 1, 4) IN
       /\ \A n \in 0 .. end - 1 : Parse(SubSeq(frame, 1, n)) = Nothing
       /\ \A n \in end .. Len(frame) : Parse(SubSeq(frame, 1, n)) = Parse(frame)
       /\ Parse(frame \o frame) = Parse(frame)

Received == rendered # Nothing /\ message = Nothing

\* A shell shows the prompt that was rendered or falls back to its own, which
\* it does for no prompt that fits; it shows of a report all the characters
\* that fit.
ShownWhole ==
    Received =>
       IF request.kind = 1
       THEN shown = IF Size(rendered) \in 1 .. MaxTotalLen THEN Size(rendered) ELSE Nothing
       ELSE Size(rendered) > 0 =>
               /\ shown \in rendered
               /\ \A end \in rendered : end > shown => end > MaxTotalLen

\* A shell goes on with a pipe only when nothing of a reply is left in it, or
\* it would take that for the answer to its next request.
NothingLeft == pipe = "open" => left = 0
=============================================================================
