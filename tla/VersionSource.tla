--------------------------- MODULE VersionSource ---------------------------
(***************************************************************************)
(* What the rest of the daemon relies on of WatcherState::version(): a     *)
(* number that stands for one state of one repository, so that it can be   *)
(* part of a cache key and of the name of a bust directory.                *)
(***************************************************************************)
EXTENDS Integers

CONSTANT Repos

VARIABLES version,  \* of each repository; 0 is "not watched"
          next      \* no version so far was this large

vars == <<version, next>>

Init == /\ version = [r \in Repos |-> 0]
        /\ next \in Nat \ {0}

\* A repository keeps its version, loses it, or takes one never seen before.
Step == /\ version' \in [Repos -> Nat]
        /\ next' \in Nat /\ next' >= next
        /\ \A r \in Repos : \/ version'[r] \in {version[r], 0}
                            \/ version'[r] \in next .. next' - 1

\* No two repositories are given the same one.
Distinct == \A r, s \in Repos :
                version[r] = version[s] /\ version[r] # 0 => r = s

Spec == Init /\ [][Step /\ Distinct']_vars

============================================================================
