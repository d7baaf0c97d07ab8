----------------------------- MODULE MCWatcher -----------------------------
(* Instances of Watcher for TLC. *)
EXTENDS Watcher, TLC

CONSTANTS r1, r2, r3,   \* repositories
          src,          \* a file no rule matches
          log           \* a file a rule may match

\* The repositories are interchangeable in the safety runs.
AnyRepo == Permutations(Repos)

\* With one .gitignore content, what the files hold has no effect on the
\* entries: states that differ in it alone are one state.
WatcherOnly == <<entries, epoch, touch>>

=============================================================================
