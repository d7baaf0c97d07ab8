-------------------------------- MODULE Shell --------------------------------
(***************************************************************************)
(* The shell's side of the pipe: src/starship-daemon.psm1, which keeps one *)
(* connection for prompts and reports, falls back to a plain prompt when   *)
(* that fails, and starts and stops the daemon.  The daemon and the other  *)
(* shells are the world: a daemon may die, be started by another shell, or *)
(* end the connection at any point, and need not answer in time.           *)
(*                                                                         *)
(* What a request says of the configuration is in Daemon, how a reply is   *)
(* laid out in Wire.                                                       *)
(***************************************************************************)
EXTENDS Naturals, Sequences

CONSTANTS
    NoPipe,    \* $null
    Plain,     \* the prompt that needs no daemon
    MaxAsked   \* bound of the state space

Pipes == [alive : BOOLEAN, requests : Seq(Nat), replies : Seq(Nat)]

ASSUME ShellAssumption ==
    /\ NoPipe \notin Pipes
    /\ MaxAsked \in Nat /\ Plain \notin 0 .. MaxAsked

VARIABLES
    DaemonPipe,  \* $script:DaemonPipe with the kernel's side of it: whether
                 \* the daemon is still there, the requests on their way to
                 \* it and the replies on their way back
    DaemonDown,  \* $script:DaemonDown
    command,     \* what runs in the shell: "prompt" or "timings"
    step,        \* where it is in that
    asked,       \* the number of requests written
    result,      \* what it returned last: the request it answers, or Plain
    process,     \* the daemon: "none", "running" or "dying"
    mended,      \* history: which of "start", where there was no daemon, and
                 \* "restart" was run since something last went wrong
    failed       \* history: those of them after which, with nothing else gone
                 \* wrong, a prompt fell back to the plain one all the same

histories == <<mended, failed>>
shellVars == <<DaemonPipe, DaemonDown, command, step, asked, result, process, histories>>

Connected == DaemonPipe # NoPipe

----------------------------------------------------------------------------
(* Get-StarshipPrompt and Get-StarshipDaemonTimings.                       *)

Return(r) == step' = "idle" /\ result' = r

\* Mutant: a pipe that was given up is used again.
GiveUpKeepsPipe == /\ DaemonDown' = (DaemonDown \/ command = "prompt")
                   /\ Return(Plain)
                   /\ UNCHANGED DaemonPipe

\* What both do when connecting, writing or reading fails; a prompt takes the
\* daemon for dead then.
GiveUp == /\ DaemonPipe' = NoPipe
          /\ DaemonDown' = (DaemonDown \/ command = "prompt")
          /\ Return(Plain)

\* A prompt has fallen back to the plain one, and nobody is to blame for that
\* but the commands that should have mended it.
MendedInVain == /\ mended' = IF command = "prompt" THEN {} ELSE mended
                /\ failed' = IF command = "prompt" THEN failed \cup mended ELSE failed

\* Something goes wrong that no command could know of.
GoesWrong == mended' = {} /\ UNCHANGED failed

\* A prompt is not tried when the daemon is down, a report always.
Invoke(c) ==
    /\ step = "idle" /\ asked < MaxAsked      \* bound
    /\ c = "prompt" => ~DaemonDown
    /\ command' = c
    /\ step' = IF Connected THEN "write" ELSE "connect"
    /\ UNCHANGED <<DaemonPipe, DaemonDown, asked, result, process, histories>>

Connect ==
    /\ step = "connect" /\ process = "running"
    /\ DaemonPipe' = [alive |-> TRUE, requests |-> <<>>, replies |-> <<>>]
    /\ step' = "write"
    /\ UNCHANGED <<DaemonDown, command, asked, result, process, histories>>

\* There is no daemon, or it has not come up or has no instance free in time.
ConnectFails ==
    /\ step = "connect"
    /\ GiveUp
    /\ IF process = "running" THEN GoesWrong ELSE MendedInVain
    /\ UNCHANGED <<command, asked, process>>

WriteRequest ==
    /\ step = "write"
    /\ IF DaemonPipe.alive
       THEN /\ asked' = asked + 1 /\ step' = "read"
            /\ DaemonPipe' = [DaemonPipe EXCEPT !.requests = Append(@, asked')]
            /\ UNCHANGED <<DaemonDown, result, histories>>
       ELSE GiveUp /\ MendedInVain /\ UNCHANGED asked
    /\ UNCHANGED <<command, process>>

\* Build makes no request of a directory whose name is too long.
NothingToWrite ==
    /\ step = "write"
    /\ Return(Plain)
    /\ UNCHANGED <<DaemonPipe, DaemonDown, command, asked, process, histories>>

\* ReadAsync brings a reply.
ReadAnswer ==
    /\ step = "read" /\ DaemonPipe.replies # <<>>
    /\ DaemonPipe' = [DaemonPipe EXCEPT !.replies = Tail(@)]
    /\ Return(Head(DaemonPipe.replies))
    /\ UNCHANGED <<DaemonDown, command, asked, process, histories>>

\* The reply is of length 0, as an empty prompt's is, or the pipe has ended, in
\* which case ReadAsync returns 0 bytes.  No exception: for a prompt neither
\* is a failure, and the pipe is kept.
ReadNothing ==
    /\ step = "read"
    /\ DaemonPipe.alive => DaemonPipe.replies # <<>>
    /\ IF command = "prompt"
       THEN /\ DaemonPipe' = [DaemonPipe EXCEPT !.replies = <<>>]
            /\ Return(Plain) /\ UNCHANGED DaemonDown
       ELSE GiveUp
    /\ UNCHANGED <<command, asked, process, histories>>

\* A prompt longer than the buffer: the pipe goes with the rest of it.
ReadTooMuch ==
    /\ step = "read" /\ command = "prompt" /\ DaemonPipe.replies # <<>>
    /\ DaemonPipe' = NoPipe
    /\ Return(Plain)
    /\ UNCHANGED <<DaemonDown, command, asked, process, histories>>

\* Mutant: only a report is given up.
TimeOutReports ==
    /\ step = "read" /\ DaemonPipe.alive /\ DaemonPipe.replies = <<>>
    /\ command = "timings"
    /\ GiveUp /\ GoesWrong
    /\ UNCHANGED <<command, asked, process>>

\* 5 seconds for a prompt, 15 for a report.
TimeOut ==
    /\ step = "read" /\ DaemonPipe.alive /\ DaemonPipe.replies = <<>>
    /\ GiveUp /\ GoesWrong
    /\ UNCHANGED <<command, asked, process>>

----------------------------------------------------------------------------
(* Start-StarshipDaemon, Stop-StarshipDaemon, Restart-StarshipDaemon.      *)

\* What is left of a process when Stop-Process returns: it does not wait for
\* the end of what it has told to end.
Remains == IF process = "none" THEN {"none"} ELSE {"none", "dying"}

\* Get-Process finds a process until it has ended.
Launched(p) == IF p = "none" THEN "running" ELSE p

\* It takes any process for a daemon, also one that is about to end, and leaves
\* the pipe alone.
Start ==
    /\ step = "idle"
    /\ DaemonDown' = FALSE
    /\ process' = Launched(process)
    /\ mended' = IF process = "none" THEN mended \cup {"start"} ELSE mended
    /\ UNCHANGED <<DaemonPipe, command, step, asked, result, failed>>

Stop ==
    /\ step = "idle"
    /\ DaemonPipe' = NoPipe /\ DaemonDown' = FALSE
    /\ process' \in Remains
    /\ GoesWrong
    /\ UNCHANGED <<command, step, asked, result>>

\* Mutant: the pipe to the daemon that was stopped is kept.
RestartKeepsPipe ==
    /\ step = "idle"
    /\ DaemonPipe' = IF Connected THEN [DaemonPipe EXCEPT !.alive = FALSE] ELSE NoPipe
    /\ DaemonDown' = FALSE
    /\ \E p \in Remains : process' = Launched(p)
    /\ mended' = {"restart"}
    /\ UNCHANGED <<command, step, asked, result, failed>>

\* The one, then the other at once: Start may find the process of which Stop has
\* just told it to end, and then there will be none.
Restart ==
    /\ step = "idle"
    /\ DaemonPipe' = NoPipe /\ DaemonDown' = FALSE
    /\ \E p \in Remains : process' = Launched(p)
    /\ mended' = {"restart"}
    /\ UNCHANGED <<command, step, asked, result, failed>>

----------------------------------------------------------------------------
(* External: the daemon and the other shells.                              *)

Replies ==
    /\ Connected /\ DaemonPipe.alive /\ DaemonPipe.requests # <<>>
    /\ DaemonPipe' = [DaemonPipe EXCEPT !.requests = Tail(@),
                                        !.replies = Append(@, Head(DaemonPipe.requests))]
    /\ UNCHANGED <<DaemonDown, command, step, asked, result, process, histories>>

\* The server disconnects: what is on its way is lost.
HangsUp ==
    /\ Connected /\ DaemonPipe.alive
    /\ DaemonPipe' = [alive |-> FALSE, requests |-> <<>>, replies |-> <<>>]
    /\ GoesWrong
    /\ UNCHANGED <<DaemonDown, command, step, asked, result, process>>

\* The daemon crashes or is stopped: what it has written can still be read.
Dies ==
    /\ process = "running"
    /\ process' \in Remains
    /\ DaemonPipe' = IF Connected
                     THEN [DaemonPipe EXCEPT !.alive = FALSE, !.requests = <<>>] ELSE NoPipe
    /\ GoesWrong
    /\ UNCHANGED <<DaemonDown, command, step, asked, result>>

OthersStart ==
    /\ process = "none" /\ process' = "running"
    /\ UNCHANGED <<DaemonPipe, DaemonDown, command, step, asked, result, histories>>

Exits ==
    /\ process = "dying" /\ process' = "none"
    /\ UNCHANGED <<DaemonPipe, DaemonDown, command, step, asked, result, histories>>

----------------------------------------------------------------------------

ShellInit ==
    /\ DaemonPipe = NoPipe /\ DaemonDown = FALSE
    /\ command = "prompt" /\ step = "idle" /\ asked = 0 /\ result = Plain
    /\ process = "none" /\ mended = {} /\ failed = {}

\* What runs in the shell goes on until it returns.
Goes == \/ Connect \/ ConnectFails
        \/ WriteRequest \/ NothingToWrite
        \/ ReadAnswer \/ ReadNothing \/ ReadTooMuch \/ TimeOut

ShellNext == \/ \E c \in {"prompt", "timings"} : Invoke(c)
             \/ Goes
             \/ Start \/ Stop \/ Restart
             \/ Replies \/ HangsUp \/ Dies \/ OthersStart \/ Exits

\* A command that has time-outs, run by the shell: nothing is assumed of the
\* daemon.
ShellFairness == WF_shellVars(Goes)

ShellSpec == ShellInit /\ [][ShellNext]_shellVars /\ ShellFairness

----------------------------------------------------------------------------
(* Properties.                                                             *)

\* What is shown answers the request that was written for it, and not an
\* earlier one that was given up and is answered late, or was made for a
\* report.
ShowsItsOwn == [][step = "read" /\ step' = "idle" => result' \in {Plain, asked}]_shellVars

\* Either command does its half, whatever had gone wrong before and with whatever
\* pipe the shell was left, until something else goes wrong.  After
\* Start-StarshipDaemon where there was none, there is a daemon; after
\* Restart-StarshipDaemon a prompt is tried, and with no pipe but to a daemon
\* that is there.
Repaired == /\ "start" \in mended => process = "running"
            /\ "restart" \in mended => /\ ~DaemonDown
                                       /\ Connected => DaemonPipe.alive

\* "This is also the fix if the module keeps falling back to the plain prompt
\* after a daemon crash", it "stays that way until you run
\* `Start-StarshipDaemon` or `Restart-StarshipDaemon`" (src/README.md:44): at
\* least one of the two can be relied on, of which a prompt never falls back
\* again with nothing else gone wrong since.
OneOfThemCures == failed # {"start", "restart"}

\* "while the daemon is down the module fails to the plain prompt"
\* (src/README.md:44): no prompt waits for ever, whatever becomes of the daemon.
PromptReturns == (step # "idle") ~> (step = "idle")
=============================================================================
