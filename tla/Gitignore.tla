------------------------------ MODULE Gitignore ------------------------------
(***************************************************************************)
(* The matcher of src/src/gitignore.rs, which decides what changes of a    *)
(* repository the watcher drops, against what git itself ignores.          *)
(*                                                                         *)
(* A name is a sequence of characters, a path a sequence of names.  A line *)
(* of .gitignore is Blank, for empty lines and comments, or a record: its  *)
(* pattern, split at the slashes, and whether it starts with "!", starts   *)
(* with a slash and ends in one.                                           *)
(***************************************************************************)
EXTENDS Naturals, Sequences, FiniteSets, FiniteSetsExt, Functions

CONSTANTS Patterns,   \* patterns of a line, as sequences of components
          Paths,      \* paths of changed files
          Blank,
          MaxLines    \* bound of the state space

VARIABLE lines        \* .gitignore

ASSUME GitignoreAssumption ==
    /\ \A parts \in Patterns : parts \in Seq(Seq(STRING))
    /\ \A path \in Paths : path \in Seq(Seq(STRING)) /\ path # <<>>

DoubleStar == <<"*", "*">>

----------------------------------------------------------------------------
(* The matcher.                                                            *)

\* Mutant: a star takes at least one character.
ComponentMatchPlus(p, n) ==
    LET match[i \in 1 .. Len(p) + 1] == [j \in 1 .. Len(n) + 1 |->
          IF i > Len(p) THEN j > Len(n)
          ELSE IF j > Len(n) THEN FALSE
          ELSE IF p[i] = "*" THEN match[i + 1][j + 1] \/ match[i][j + 1]
          ELSE p[i] \in {"?", n[j]} /\ match[i + 1][j + 1]]
    IN  match[1][1]

\* component_match: whether p, with its * and ?, matches all of the name n;
\* match[i][j] is about the rest of p from i and of n from j on.
ComponentMatch(p, n) ==
    LET match[i \in 1 .. Len(p) + 1] == [j \in 1 .. Len(n) + 1 |->
          IF i > Len(p) THEN j > Len(n)
          ELSE IF j > Len(n) THEN \A k \in i .. Len(p) : p[k] = "*"
          ELSE IF p[i] = "*" THEN match[i + 1][j] \/ match[i][j + 1]
          ELSE p[i] \in {"?", n[j]} /\ match[i + 1][j + 1]]
    IN  match[1][1]

\* The ends that a ** at part pi, from component ci on, is tried with.  As the
\* code subtracts, 0 is one of them also where the remaining parts are too many.
Ends(P, C, pi, ci) ==
    LET remaining   == P - pi - 1
        min_consume == IF remaining = 0 /\ P > 1 THEN 1 ELSE 0
    IN  {end \in ci + min_consume .. C : end = 0 \/ end + remaining <= C}

\* match_with_doublestar: the parts from pi on against the components from ci on.
MatchWithDoubleStar(parts, comps, anchored) ==
    LET P == Len(parts)  C == Len(comps)
        walk[pi \in 0 .. P] == [ci \in 0 .. C |->
          IF pi = P THEN ci = C
          ELSE IF parts[pi + 1] = DoubleStar
          THEN \E end \in Ends(P, C, pi, ci) : walk[pi + 1][end]
          ELSE /\ ci < C /\ ComponentMatch(parts[pi + 1], comps[ci + 1])
               /\ walk[pi + 1][ci + 1]]
    IN  \E start \in 0 .. (IF anchored THEN 0 ELSE C) : walk[0][start]

\* path_match.  Without ** a pattern matches what is below its match, too.
PathMatch(rule, comps) ==
    IF \E i \in DOMAIN rule.parts : rule.parts[i] = DoubleStar
    THEN MatchWithDoubleStar(rule.parts, comps, rule.anchored)
    ELSE IF Len(rule.parts) = 1
    THEN \E i \in 1 .. (IF rule.anchored THEN 1 ELSE Len(comps)) :
            ComponentMatch(rule.parts[1], comps[i])
    ELSE /\ Len(rule.parts) <= Len(comps)
         /\ \A i \in DOMAIN rule.parts : ComponentMatch(rule.parts[i], comps[i])

\* Mutant: only a leading slash anchors a pattern.
ParseLineLeadingOnly(l) ==
    [parts |-> l.parts, negate |-> l.bang, dir_only |-> l.trail, anchored |-> l.lead]

\* parse_rule_line, of a line with a pattern.
ParseLine(l) ==
    [parts |-> l.parts, negate |-> l.bang, dir_only |-> l.trail,
     anchored |-> l.lead \/ (Len(l.parts) > 1 /\ l.parts[1] # DoubleStar)]

\* load_gitignore: the rules, by line; none are as good as no file.
Rules == [i \in {i \in DOMAIN lines : lines[i] # Blank /\ lines[i].parts # <<>>} |->
            ParseLine(lines[i])]

\* The last rule of a kind that matches decides.
Decides(rules, dir_only, comps) ==
    LET hits == {i \in DOMAIN rules : rules[i].dir_only = dir_only /\ PathMatch(rules[i], comps)}
    IN  hits # {} /\ ~rules[Max(hits)].negate

\* Mutant: rules for directories are tried on the whole path only.
IsIgnoredAsAWhole(rules, path) == \E dir_only \in BOOLEAN : Decides(rules, dir_only, path)

\* is_ignored_str: the rules for directories, on each directory of the path
\* and on the path itself, which may be one; then the others.
IsIgnored(rules, path) ==
    \/ \E depth \in DOMAIN path : Decides(rules, TRUE, SubSeq(path, 1, depth))
    \/ Decides(rules, FALSE, path)

----------------------------------------------------------------------------
(* What git does (gitignore(5)).                                           *)

\* A pattern is laid along a name, piece i from cut[i - 1] to cut[i].
GlobMatches(p, n) ==
    \E cut \in [0 .. Len(p) -> 0 .. Len(n)] :
       /\ cut[0] = 0 /\ cut[Len(p)] = Len(n)
       /\ \A i \in DOMAIN p :
             IF p[i] = "*" THEN cut[i - 1] <= cut[i]
             ELSE cut[i] = cut[i - 1] + 1 /\ p[i] \in {"?", n[cut[i]]}

\* So are the components along a path: ** takes any number of them, at the
\* end of a longer pattern one at least.
PathMatches(parts, comps) ==
    \E cut \in [0 .. Len(parts) -> 0 .. Len(comps)] :
       /\ cut[0] = 0 /\ cut[Len(parts)] = Len(comps)
       /\ \A i \in DOMAIN parts :
             IF parts[i] = DoubleStar
             THEN /\ cut[i - 1] <= cut[i]
                  /\ i = Len(parts) /\ i > 1 => cut[i - 1] < cut[i]
             ELSE cut[i] = cut[i - 1] + 1 /\ GlobMatches(parts[i], comps[cut[i]])

\* A pattern without a slash is for names anywhere, another for paths.
GitMatches(l, comps, directory) ==
    /\ l # Blank /\ l.parts # <<>>
    /\ l.trail => directory
    /\ IF l.lead \/ Len(l.parts) > 1 THEN PathMatches(l.parts, comps)
       ELSE PathMatches(l.parts, <<comps[Len(comps)]>>)

\* A path is ignored if the last line that matches it, or one of the
\* directories it is in, says so.
GitIgnores(path, directory) ==
    \E depth \in DOMAIN path :
       LET hits == {i \in DOMAIN lines :
                      GitMatches(lines[i], SubSeq(path, 1, depth), depth < Len(path) \/ directory)}
       IN  hits # {} /\ ~lines[Max(hits)].bang

----------------------------------------------------------------------------
(* A .gitignore, line by line.                                             *)

Lines == {Blank} \cup [bang : BOOLEAN, lead : BOOLEAN, parts : Patterns, trail : BOOLEAN]

GitignoreInit == lines = <<>>

AddLine == /\ Len(lines) < MaxLines
           /\ \E l \in Lines : lines' = Append(lines, l)

GitignoreSpec == GitignoreInit /\ [][AddLine]_lines

----------------------------------------------------------------------------
(* Properties.                                                             *)

\* No ** comes after another one, but at the end.
OneDoubleStar(parts) == \A i, j \in DOMAIN parts :
    i < j /\ parts[i] = DoubleStar /\ parts[j] = DoubleStar => j = Len(parts)

\* The matchers of components and of paths agree with laying the pattern along.
\* Of several ** the first are tried with too few ends, and match too little:
\* a/**/b/**/a does not match a/b/a.
MatchersAgree ==
    \A i \in DOMAIN Rules : LET parts == Rules[i].parts IN
       \A path \in Paths :
          /\ \A k \in DOMAIN parts, j \in DOMAIN path :
                ComponentMatch(parts[k], path[j]) = GlobMatches(parts[k], path[j])
          /\ MatchWithDoubleStar(parts, path, TRUE) => PathMatches(parts, path)
          /\ OneDoubleStar(parts) /\ PathMatches(parts, path) => MatchWithDoubleStar(parts, path, TRUE)

\* Rules for directories are tried apart from the others, and one with ** does
\* not reach below what it matches; a ! line does not undo an earlier line that
\* is tried apart or reaches further.
FallsShort ==
    \E i, j \in DOMAIN Rules :
       /\ i < j /\ ~Rules[i].negate /\ Rules[j].negate
       /\ \/ Rules[i].dir_only # Rules[j].dir_only
          \/ DoubleStar \in Range(Rules[j].parts)

\* Where there is no such pair,
\* nothing is dropped that git shows: what the matcher ignores git ignores, as
\* a file or as a directory, since the matcher cannot tell one from the other.
HidesNoMore ==
    ~FallsShort => \A path \in Paths :
       IsIgnored(Rules, path) => GitIgnores(path, FALSE) \/ GitIgnores(path, TRUE)

\* And builds cost nothing: all that git ignores is dropped, but for ! lines,
\* which the matcher lets include too much, for ** where it is not followed by
\* a slash at the end, and for several **.
DropsBuilds ==
    (\A i \in DOMAIN Rules : LET r == Rules[i] IN
        /\ ~r.negate /\ OneDoubleStar(r.parts)
        /\ r.dir_only \/ \A j \in DOMAIN r.parts : r.parts[j] # DoubleStar)
       => \A path \in Paths : GitIgnores(path, FALSE) => IsIgnored(Rules, path)
=============================================================================
