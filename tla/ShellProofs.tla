----------------------------- MODULE ShellProofs -----------------------------
(***************************************************************************)
(* Shell shows no answer but to the request just written, and Start and    *)
(* Restart do their halves of its repair, for any number of requests.      *)
(***************************************************************************)
EXTENDS Shell, TLAPS

ShellTypeOK ==
    /\ DaemonPipe \in Pipes \cup {NoPipe}
    /\ DaemonDown \in BOOLEAN
    /\ command \in {"prompt", "timings"}
    /\ step \in {"idle", "connect", "write", "read"}
    /\ asked \in Nat
    /\ process \in {"none", "running", "dying"}
    /\ mended \subseteq {"start", "restart"} /\ failed \subseteq {"start", "restart"}

\* There is a pipe to write to and to read from, and on it there is at most the
\* one request that is still to be answered, of a daemon that is there, or its
\* reply; neither only when the daemon has gone.
OneAtATime ==
    /\ step \in {"write", "read"} => Connected
    /\ Connected =>
          IF step = "read"
          THEN \/ /\ DaemonPipe.requests = <<asked>> /\ DaemonPipe.replies = <<>>
                  /\ DaemonPipe.alive
               \/ DaemonPipe.requests = <<>> /\ DaemonPipe.replies = <<asked>>
               \/ /\ DaemonPipe.requests = <<>> /\ DaemonPipe.replies = <<>>
                  /\ ~DaemonPipe.alive
          ELSE DaemonPipe.requests = <<>> /\ DaemonPipe.replies = <<>>

IInv == ShellTypeOK /\ OneAtATime

\* A pipe is not $null.
LEMMA PipeIsNotNull ==
    ASSUME NEW p \in Pipes PROVE p # NoPipe
BY ShellAssumption

\* What the steps put together is a pipe.
LEMMA BuiltPipe ==
    ASSUME NEW alive \in BOOLEAN, NEW requests \in Seq(Nat), NEW replies \in Seq(Nat)
    PROVE  /\ [alive |-> alive, requests |-> requests, replies |-> replies] \in Pipes
           /\ [alive |-> alive, requests |-> requests, replies |-> replies] # NoPipe
<1>1. [alive |-> alive, requests |-> requests, replies |-> replies] \in Pipes
    BY DEF Pipes
<1> QED BY <1>1, PipeIsNotNull

\* The invariant holds at first.
LEMMA IInvInit == ShellInit => IInv
<1> SUFFICES ASSUME ShellInit PROVE IInv
    OBVIOUS
<1>1. ShellTypeOK
    BY DEF ShellInit, ShellTypeOK
<1>2. OneAtATime
    BY DEF ShellInit, OneAtATime, Connected
<1> QED BY <1>1, <1>2 DEF IInv

\* Giving up leaves nothing that could be read later.
LEMMA GiveUpKeeps ==
    ASSUME IInv, GiveUp, UNCHANGED <<command, asked, process>>, GoesWrong \/ MendedInVain
    PROVE  IInv'
BY DEF IInv, ShellTypeOK, OneAtATime, Connected, GiveUp, Return, GoesWrong, MendedInVain

\* So does every step.
LEMMA IInvStep == IInv /\ [ShellNext]_shellVars => IInv'
<1> SUFFICES ASSUME IInv, [ShellNext]_shellVars PROVE IInv'
    OBVIOUS
<1> USE DEF IInv, ShellTypeOK, OneAtATime, Connected, histories
<1>1. ASSUME NEW c \in {"prompt", "timings"}, Invoke(c) PROVE IInv'
    BY <1>1 DEF Invoke
<1>2. CASE Connect
    <2>1. /\ DaemonPipe' \in Pipes /\ DaemonPipe' # NoPipe
          /\ DaemonPipe'.requests = <<>> /\ DaemonPipe'.replies = <<>>
        <3>1. DaemonPipe' = [alive |-> TRUE, requests |-> <<>>, replies |-> <<>>]
            BY <1>2 DEF Connect
        <3>2. TRUE \in BOOLEAN /\ <<>> \in Seq(Nat)
            OBVIOUS
        <3>3. DaemonPipe' \in Pipes /\ DaemonPipe' # NoPipe
            BY <3>1, <3>2, BuiltPipe
        <3> QED BY <3>1, <3>3
    <2>2. ShellTypeOK'
        BY <1>2, <2>1 DEF Connect
    <2>3. OneAtATime'
        BY <1>2, <2>1 DEF Connect
    <2> QED BY <2>2, <2>3
<1>3. CASE ConnectFails
    BY <1>3, GiveUpKeeps DEF ConnectFails
<1>4. CASE WriteRequest
    <2>1. DaemonPipe \in Pipes
        BY <1>4 DEF WriteRequest
    <2>2. CASE DaemonPipe.alive
        <3>1. /\ asked' = asked + 1 /\ step' = "read"
              /\ DaemonPipe' = [DaemonPipe EXCEPT !.requests = Append(@, asked')]
              /\ UNCHANGED <<DaemonDown, command, process, histories>>
            BY <1>4, <2>2 DEF WriteRequest
        <3>2. DaemonPipe.requests = <<>> /\ DaemonPipe.replies = <<>>
            BY <1>4, <2>1, PipeIsNotNull DEF WriteRequest
        <3>3. DaemonPipe' = [alive |-> DaemonPipe.alive, requests |-> <<asked'>>, replies |-> <<>>]
            BY <3>1, <3>2, <2>1 DEF Pipes
        <3>4. /\ DaemonPipe' \in Pipes /\ DaemonPipe' # NoPipe
              /\ DaemonPipe'.requests = <<asked'>> /\ DaemonPipe'.replies = <<>>
              /\ DaemonPipe'.alive
            <4>1. DaemonPipe.alive \in BOOLEAN /\ <<asked'>> \in Seq(Nat) /\ <<>> \in Seq(Nat)
                BY <2>1, <3>1 DEF Pipes
            <4>2. DaemonPipe' \in Pipes /\ DaemonPipe' # NoPipe
                BY <3>3, <4>1, BuiltPipe
            <4> QED BY <2>2, <3>3, <4>2
        <3>5. ShellTypeOK'
            BY <3>1, <3>4
        <3>6. OneAtATime'
            BY <3>1, <3>4
        <3> QED BY <3>5, <3>6
    <2>3. CASE ~DaemonPipe.alive
        BY <1>4, <2>3, GiveUpKeeps DEF WriteRequest
    <2> QED BY <2>2, <2>3
<1>5. CASE ReadAnswer
    <2>1. DaemonPipe \in Pipes /\ DaemonPipe.requests = <<>> /\ DaemonPipe.replies = <<asked>>
        BY <1>5 DEF ReadAnswer
    <2>2. DaemonPipe' = [alive |-> DaemonPipe.alive, requests |-> <<>>, replies |-> <<>>]
        BY <1>5, <2>1 DEF ReadAnswer, Pipes
    <2>3. DaemonPipe' \in Pipes
        BY <2>1, <2>2 DEF Pipes
    <2> QED BY <1>5, <2>2, <2>3 DEF ReadAnswer, Return
<1>6. CASE ReadNothing
    <2>1. DaemonPipe \in Pipes /\ DaemonPipe.requests = <<>>
        <3>1. DaemonPipe \in Pipes
            BY <1>6 DEF ReadNothing
        <3>2. CASE DaemonPipe.alive
            BY <1>6, <3>1, <3>2 DEF ReadNothing
        <3>3. CASE ~DaemonPipe.alive
            BY <1>6, <3>1, <3>3 DEF ReadNothing
        <3> QED BY <3>1, <3>2, <3>3
    <2>2. CASE command = "prompt"
        <3>1. DaemonPipe' = [alive |-> DaemonPipe.alive, requests |-> <<>>, replies |-> <<>>]
            BY <1>6, <2>1, <2>2 DEF ReadNothing, Pipes
        <3>2. DaemonPipe' \in Pipes
            BY <2>1, <3>1 DEF Pipes
        <3> QED BY <1>6, <2>2, <3>1, <3>2 DEF ReadNothing, Return
    <2>3. CASE command # "prompt"
        BY <1>6, <2>3, GiveUpKeeps DEF ReadNothing, MendedInVain
    <2> QED BY <2>2, <2>3
<1>7. CASE TimeOut
    BY <1>7, GiveUpKeeps DEF TimeOut
<1>8. CASE Start
    BY <1>8 DEF Start, Launched
<1>9. CASE Stop
    BY <1>9 DEF Stop, Remains, GoesWrong
<1>10. CASE Restart
    BY <1>10 DEF Restart, Remains, Launched
<1>11. CASE Replies
    <2>1. DaemonPipe \in Pipes /\ step = "read"
          /\ DaemonPipe.requests = <<asked>> /\ DaemonPipe.replies = <<>>
        <3>1. DaemonPipe \in Pipes /\ DaemonPipe.requests # <<>>
            BY <1>11 DEF Replies
        <3>2. step = "read"
            BY <1>11, <3>1 DEF Replies
        <3> QED BY <1>11, <3>1, <3>2 DEF Replies
    <2>2. DaemonPipe' = [alive |-> DaemonPipe.alive, requests |-> <<>>, replies |-> <<asked>>]
        <3>1. DaemonPipe' = [DaemonPipe EXCEPT !.requests = <<>>, !.replies = <<asked>>]
            BY <1>11, <2>1 DEF Replies
        <3> QED BY <2>1, <3>1 DEF Pipes
    <2>3. /\ DaemonPipe' \in Pipes /\ DaemonPipe' # NoPipe
          /\ DaemonPipe'.requests = <<>> /\ DaemonPipe'.replies = <<asked>>
        BY <2>1, <2>2, BuiltPipe DEF Pipes
    <2>4. ShellTypeOK'
        BY <1>11, <2>1, <2>3 DEF Replies
    <2>5. OneAtATime'
        BY <1>11, <2>1, <2>3 DEF Replies
    <2> QED BY <2>4, <2>5
<1>12. CASE HangsUp
    <2>1. /\ DaemonPipe' \in Pipes /\ DaemonPipe' # NoPipe /\ ~DaemonPipe'.alive
          /\ DaemonPipe'.requests = <<>> /\ DaemonPipe'.replies = <<>>
        <3>1. DaemonPipe' = [alive |-> FALSE, requests |-> <<>>, replies |-> <<>>]
            BY <1>12 DEF HangsUp
        <3>2. FALSE \in BOOLEAN /\ <<>> \in Seq(Nat)
            OBVIOUS
        <3>3. DaemonPipe' \in Pipes /\ DaemonPipe' # NoPipe
            BY <3>1, <3>2, BuiltPipe
        <3> QED BY <3>1, <3>3
    <2>2. ShellTypeOK'
        BY <1>12, <2>1 DEF HangsUp, GoesWrong
    <2>3. OneAtATime'
        BY <1>12, <2>1 DEF HangsUp
    <2> QED BY <2>2, <2>3
<1>13. CASE Dies
    <2>1. process' \in {"none", "running", "dying"} /\ GoesWrong
        BY <1>13 DEF Dies, Remains
    <2>2. CASE ~Connected
        BY <1>13, <2>1, <2>2 DEF Dies, GoesWrong
    <2>3. CASE Connected
        <3>1. DaemonPipe \in Pipes
            BY <2>3
        <3>2. DaemonPipe' = [alive |-> FALSE, requests |-> <<>>, replies |-> DaemonPipe.replies]
            BY <1>13, <2>3, <3>1 DEF Dies, Pipes
        <3>3. /\ DaemonPipe' \in Pipes /\ DaemonPipe' # NoPipe /\ ~DaemonPipe'.alive
              /\ DaemonPipe'.requests = <<>> /\ DaemonPipe'.replies = DaemonPipe.replies
            <4>1. FALSE \in BOOLEAN /\ <<>> \in Seq(Nat) /\ DaemonPipe.replies \in Seq(Nat)
                BY <3>1 DEF Pipes
            <4>2. DaemonPipe' \in Pipes /\ DaemonPipe' # NoPipe
                BY <3>2, <4>1, BuiltPipe
            <4> QED BY <3>2, <4>2
        <3>4. ShellTypeOK'
            BY <1>13, <2>1, <3>3 DEF Dies, GoesWrong
        <3>5. OneAtATime'
            BY <1>13, <2>3, <3>3 DEF Dies
        <3> QED BY <3>4, <3>5
    <2> QED BY <2>2, <2>3
<1>14. CASE OthersStart
    BY <1>14 DEF OthersStart
<1>15. CASE Exits
    BY <1>15 DEF Exits
<1>16. CASE UNCHANGED shellVars
    BY <1>16 DEF shellVars
<1>17. CASE NothingToWrite
    BY <1>17 DEF NothingToWrite, Return
<1>18. CASE ReadTooMuch
    BY <1>18 DEF ReadTooMuch, Return
<1> QED
    BY <1>1, <1>2, <1>3, <1>4, <1>5, <1>6, <1>7, <1>8, <1>9, <1>10, <1>11, <1>12, <1>13,
       <1>14, <1>15, <1>16, <1>17, <1>18 DEF ShellNext, Goes

\* In every behavior a pipe has at most one request or reply on it.
THEOREM ShellInvariance == ShellSpec => []IInv
BY IInvInit, IInvStep, PTL DEF ShellSpec

\* What a step returns while it reads answers the request it wrote.
LEMMA ReadsItsOwn ==
    ASSUME IInv, [ShellNext]_shellVars, step = "read", step' = "idle"
    PROVE  result' \in {Plain, asked}
<1>1. CASE ReadAnswer
    <2>1. DaemonPipe.replies = <<asked>>
        BY <1>1 DEF ReadAnswer, IInv, OneAtATime, Connected
    <2> QED BY <1>1, <2>1 DEF ReadAnswer, Return
<1>2. CASE ReadNothing
    BY <1>2 DEF ReadNothing, GiveUp, Return
<1>3. CASE TimeOut
    BY <1>3 DEF TimeOut, GiveUp, Return
<1>4. CASE ReadTooMuch
    BY <1>4 DEF ReadTooMuch, Return
<1> QED
    BY <1>1, <1>2, <1>3, <1>4
    DEF ShellNext, Goes, Invoke, Connect, ConnectFails, WriteRequest, NothingToWrite, Start, Stop, Restart,
        Replies, HangsUp, Dies, OthersStart, Exits, shellVars

\* A shell shows no answer but to the request it has just written: none that
\* came late for one it gave up, whether for a prompt or a report.
THEOREM NoLateAnswer == ShellSpec => ShowsItsOwn
<1>1. IInv /\ [ShellNext]_shellVars
        => [step = "read" /\ step' = "idle" => result' \in {Plain, asked}]_shellVars
    BY ReadsItsOwn
<1> QED BY <1>1, ShellInvariance, PTL DEF ShellSpec, ShowsItsOwn

----------------------------------------------------------------------------
(* What Start and Restart repair.                                          *)

\* Every step keeps what the two have put in order, or notes that something
\* else has gone wrong since.
LEMMA RepairedStep ==
    ASSUME IInv, Repaired, [ShellNext]_shellVars
    PROVE  Repaired'
<1> USE DEF Repaired, Connected, histories
<1>1. ASSUME NEW c \in {"prompt", "timings"}, Invoke(c) PROVE Repaired'
    BY <1>1 DEF Invoke
<1>2. CASE Connect
    BY <1>2 DEF Connect
<1>3. CASE ConnectFails
    BY <1>3 DEF ConnectFails, GiveUp, GoesWrong, MendedInVain
<1>4. CASE WriteRequest
    <2>1. DaemonPipe \in Pipes
        BY <1>4 DEF WriteRequest, IInv, ShellTypeOK, OneAtATime
    <2>2. CASE DaemonPipe.alive
        BY <1>4, <2>1, <2>2 DEF WriteRequest, Pipes
    <2>3. CASE ~DaemonPipe.alive
        <3>1. "restart" \notin mended
            BY <1>4, <2>1, <2>3, PipeIsNotNull
        <3> QED BY <1>4, <2>3, <3>1 DEF WriteRequest, GiveUp, MendedInVain
    <2> QED BY <2>2, <2>3
<1>5. CASE ReadAnswer
    BY <1>5 DEF ReadAnswer, IInv, ShellTypeOK, OneAtATime, Pipes
<1>6. CASE ReadNothing
    BY <1>6 DEF ReadNothing, GiveUp, IInv, ShellTypeOK, OneAtATime, Pipes
<1>7. CASE TimeOut
    BY <1>7 DEF TimeOut, GoesWrong
<1>8. CASE Start
    BY <1>8 DEF Start, Launched
<1>9. CASE Stop
    BY <1>9 DEF Stop, GoesWrong
<1>10. CASE Restart
    BY <1>10 DEF Restart
<1>11. CASE Replies
    BY <1>11 DEF Replies, IInv, ShellTypeOK, Pipes
<1>12. CASE HangsUp
    BY <1>12 DEF HangsUp, GoesWrong
<1>13. CASE Dies
    BY <1>13 DEF Dies, GoesWrong
<1>14. CASE OthersStart
    BY <1>14 DEF OthersStart
<1>15. CASE Exits
    BY <1>15 DEF Exits
<1>16. CASE UNCHANGED shellVars
    BY <1>16 DEF shellVars
<1>17. CASE NothingToWrite
    BY <1>17 DEF NothingToWrite, Return
<1>18. CASE ReadTooMuch
    BY <1>18 DEF ReadTooMuch, Return
<1> QED
    BY <1>1, <1>2, <1>3, <1>4, <1>5, <1>6, <1>7, <1>8, <1>9, <1>10, <1>11, <1>12, <1>13,
       <1>14, <1>15, <1>16, <1>17, <1>18 DEF ShellNext, Goes

\* Whatever a shell was left with, after Start where there was no daemon there is
\* one, and after Restart the shell tries, with no pipe but to a daemon that is
\* there; until something else goes wrong.  That a prompt then gets an answer does
\* not follow from either, as the run cures_fail shows.
THEOREM EachRepairsItsHalf == ShellSpec => []Repaired
<1>1. ShellInit => Repaired
    BY DEF ShellInit, Repaired
<1>2. IInv /\ Repaired /\ [ShellNext]_shellVars => Repaired'
    BY RepairedStep
<1> QED BY <1>1, <1>2, ShellInvariance, PTL DEF ShellSpec
=============================================================================
