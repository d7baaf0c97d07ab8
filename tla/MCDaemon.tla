------------------------------ MODULE MCDaemon ------------------------------
(***************************************************************************)
(* Instances of Daemon for TLC.  A behavior is of one scene, in which the  *)
(* requests and the world are those that the scene is about.               *)
(***************************************************************************)
EXTENDS Daemon, TLC

CONSTANTS r1,           \* a repository
          log,          \* a file a rule may match
          top, sub,     \* two directories of r1
          home, far,    \* two directories in no repository
          c1, c2,       \* configuration files
          s1, s2,       \* shells
          Scenes        \* of "files", "requests" and "any"

VARIABLE scene

OneDirectory == top :> r1
InOneRepo    == top :> r1 @@ sub :> r1
Home         == home :> NoRepo
Everywhere   == InOneRepo @@ home :> NoRepo @@ far :> NoRepo

\* Two directories of a repository whose files and branches change, and prompts
\* and reports that differ in nothing but where they are asked for.
AboutFiles ==
    /\ req # Unset => req.cwd \in {top, sub} /\ req.status = 0 /\ ~req.nocache
    /\ minute = 0

\* HEAD moves once.
OneSwitch == head' \in {head, [r \in Repos |-> 1]}

\* Configurations, minutes and exit statuses, and no repository.  What is not
\* an ordinary prompt is asked for in one of two directories.
AboutRequests ==
    req # Unset =>
       /\ req.cwd \in {home, far}
       /\ req.status # 0 \/ req.nocache \/ req.kind = "timings"
             => req.cwd = home /\ (req.status # 0 => ~req.nocache /\ req.kind = "prompt")

MCInit ==
    /\ DaemonInit /\ scene \in Scenes
    /\ scene = "files" => /\ file = [f \in ConfigFiles |-> MaxEdits]
                          /\ env = [s \in Shells |-> Unset]
    /\ scene = "requests" => linked = {}

MCNext ==
    /\ DaemonNext /\ UNCHANGED scene
    /\ IF scene = "files" THEN AboutFiles' /\ OneSwitch /\ UNCHANGED <<file, env>>
       ELSE IF scene = "requests" THEN AboutRequests' /\ UNCHANGED <<disk, head>>
       ELSE TRUE

MCSpec == MCInit /\ [][MCNext]_<<allVars, scene>>

\* Neither the last answer nor the watcher's history is read by any step: for
\* a property that does not read them, states that differ in them are one.
\* Nor does what find_git_dir has found matter while no .git comes or goes.
servedState == <<file, minute, env, linked, head, sent, configVars, lru, context, scans, pc,
                 requestVars, edited, scene>>
NoHistory   == <<entries, epoch, touch, disk, servedState>>
WithAltered == <<entries, epoch, touch, disk, altered, servedState>>
WithFound   == <<entries, epoch, touch, disk, servedState, present, found, litter>>
=============================================================================
