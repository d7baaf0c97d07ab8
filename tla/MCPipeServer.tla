---------------------------- MODULE MCPipeServer ----------------------------
(***************************************************************************)
(* Instances of PipeServer for TLC.  A behavior is of one scene, in which  *)
(* the clients do what the scene is about.                                 *)
(***************************************************************************)
EXTENDS PipeServer, TLC

CONSTANTS a, b, c3,   \* clients
          Scenes      \* of "frames", "clients" and "any"

VARIABLE scene

\* Two clients and what they write: requests and frames that are none, cut up in
\* all ways, of the second one at most.
AboutFrames == tries[c3] = 0 /\ conn[b].frames <= 1

\* Three clients and when they come and go: requests, of which the header comes
\* in one piece.
AboutClients ==
    /\ \A i \in Ids : LET s == sessions[i] IN
          \A units \in {s.inbox, s.data} : \A k \in DOMAIN units : units[k].kind = "request"
    /\ \A c \in Clients : Len(conn[c].rest) # BodyLen + 1

\* In either no client leaves before the server is up, and in the second none
\* comes before.
NotTooEarly ==
    pc = "new" => /\ \A c \in Clients : Connected(c) => Connected(c)'
                  /\ scene = "clients" => UNCHANGED conn

MCInit == Init /\ scene \in Scenes

MCNext ==
    /\ Next /\ UNCHANGED scene
    /\ scene = "frames" => AboutFrames' /\ NotTooEarly
    /\ scene = "clients" => AboutClients' /\ NotTooEarly

MCSpec ==
    /\ MCInit /\ [][MCNext]_<<vars, scene>>
    /\ WF_vars(Server /\ UNCHANGED tries /\ History)
    /\ \A c \in Readers :
          WF_vars(Read(c) /\ UNCHANGED <<pc, at, served, recency, active>> /\ History)
=============================================================================
