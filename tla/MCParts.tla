-------------------------------- MODULE MCParts --------------------------------
(***************************************************************************)
(* Instances of Gitignore, Wire, Formats and Shell for TLC.  They have     *)
(* nothing in common: a behavior is one of one of them, while the others   *)
(* stay as they start.                                                     *)
(***************************************************************************)
EXTENDS Gitignore, Wire, Formats, Shell

VARIABLE part

partsVars == <<lines, wireVars, formatsVars, shellVars, part>>

Init == /\ GitignoreInit /\ WireInit /\ FormatsInit /\ ShellInit
        /\ part \in {"gitignore", "wire", "formats", "shell"}

Next ==
    /\ \/ part = "gitignore" /\ AddLine /\ UNCHANGED <<wireVars, formatsVars, shellVars>>
       \/ part = "wire" /\ WireNext /\ UNCHANGED <<lines, formatsVars, shellVars>>
       \/ part = "formats" /\ FormatsNext /\ UNCHANGED <<lines, wireVars, shellVars>>
       \/ part = "shell" /\ ShellNext /\ UNCHANGED <<lines, wireVars, formatsVars>>
    /\ UNCHANGED part

Spec == Init /\ [][Next]_partsVars /\ ShellFairness

----------------------------------------------------------------------------
(* Gitignore: two lines, of the patterns a, ab, a*, ?, *, ** and of pairs  *)
(* and triples with and without ** at the start, in the middle and at the  *)
(* end, two with ** twice, and paths of up to three components.            *)

Single   == {<<"a">>, <<"a", "*">>, <<"?">>, <<"*">>, DoubleStar}
Patterned == {<<>>} \cup {<<c>> : c \in Single}
               \cup {<<c, d>> : c, d \in {<<"a">>, <<"*">>, DoubleStar}}
               \cup {<<<<"a">>, DoubleStar, <<"b">>>>, <<DoubleStar, <<"a">>, <<"b">>>>,
                     <<DoubleStar, <<"a">>, DoubleStar, <<"b">>>>,
                     <<<<"a">>, DoubleStar, <<"b">>, DoubleStar, <<"a">>>>}
FileNames == {<<"a">>, <<"b">>, <<"a", "b">>}
FilePaths == {<<n>> : n \in FileNames} \cup {<<n, o>> : n, o \in FileNames}
                \cup {<<n, o, p>> : n, o, p \in {<<"a">>, <<"b">>}}

(* Wire: texts that are empty, short, as long as allowed, one longer, and  *)
(* one longer than two bytes can say; replies around the limit, with       *)
(* characters of up to four bytes across it.                               *)

Run(d, n) == [i \in 1 .. n |-> d]
ShellRequests ==
    {[kind |-> 2 - disable, cwd |-> Run(d, c), status |-> 1000 * d, keymap |-> Run(d, k),
      width |-> 9, config |-> Run(d, g), disable |-> disable] :
        disable \in {0, 1}, d \in {0, 1}, c \in {0, 4, 5}, k \in {0, 2, 3, 65}, g \in {0, 1, 66}}
Rendered == {(0 .. n) \ (cut \ {n}) :
                n \in {0, 1, 57, 58, 59, 60, 61, 64},
                cut \in {{}, {59}, {58, 59}, {57, 58, 59}, {59, 60}, {58, 59, 60}, {60}}}

(* Formats: a module, the two that stand for others, one that changes with *)
(* the minute, each with and without braces where that may matter, a word  *)
(* and a mark.                                                             *)

SomeOrder  == <<"dir", "custom", "env_var", "time">>
SomeTables == [custom |-> {"custom.kid"}, env_var |-> {"env_var.kid"}]
SomePieces == {<<"$", "all">>, <<"$", "{", "all", "}">>, <<"$", "dir">>, <<"$", "time">>,
               <<"$", "custom">>, <<"$", "{", "custom.kid", "}">>, <<"$", "env_var">>,
               <<"x">>, <<".">>}
=============================================================================
