--------------------------- MODULE GitignoreProofs ---------------------------
(***************************************************************************)
(* Proofs about the gitignore matcher: that it matches as git does, of any *)
(* pattern and any path, and what follows for what is dropped.             *)
(***************************************************************************)
EXTENDS Gitignore, WellFoundedInduction, TLAPS

\* A set of numbers that is not empty has a least one.
LEMMA LeastNumber ==
    ASSUME NEW T, T \subseteq Nat, T # {}
    PROVE  \E n \in T : \A m \in T : n <= m
<1> DEFINE R == OpToRel(<, Nat)
<1>1. IsWellFoundedOn(R, Nat)
      BY NatLessThanWellFounded
<1>2. \A n, m \in Nat : n < m => <<n, m>> \in R
      BY DEF OpToRel
<1> HIDE DEF R
<1>3. PICK n \in T : \A m \in T : <<m, n>> \notin R
      BY <1>1, WFMin
<1>4. \A m \in T : ~(m < n)
      BY <1>2, <1>3
<1> QED BY <1>3, <1>4

----------------------------------------------------------------------------
(* A name.  What the matcher finds out by recursion is whether the rest of *)
(* a pattern can be laid along the rest of a name.                         *)

\* `cut` lays the pieces of p after the first i along n, from character j on.
Lays(cut, p, n, i, j) ==
    /\ cut \in [i .. Len(p) -> 0 .. Len(n)]
    /\ cut[i] = j /\ cut[Len(p)] = Len(n)
    /\ \A k \in i + 1 .. Len(p) :
          IF p[k] = "*" THEN cut[k - 1] <= cut[k]
          ELSE cut[k] = cut[k - 1] + 1 /\ p[k] \in {"?", n[cut[k]]}

Laid(p, n, i, j) == \E cut : Lays(cut, p, n, i, j)

\* Nothing can be laid along nothing.
LEMMA LaidEnd ==
    ASSUME NEW p, NEW n, Len(p) \in Nat, Len(n) \in Nat, NEW j \in 0 .. Len(n)
    PROVE  Laid(p, n, Len(p), j) <=> j = Len(n)
<1>1. ASSUME j = Len(n) PROVE Laid(p, n, Len(p), j)
  <2> DEFINE cut == [k \in Len(p) .. Len(p) |-> j]
  <2>1. Lays(cut, p, n, Len(p), j)
        BY <1>1 DEF Lays
  <2> QED BY <2>1 DEF Laid
<1>2. ASSUME Laid(p, n, Len(p), j) PROVE j = Len(n)
      BY <1>2 DEF Laid, Lays
<1> QED BY <1>1, <1>2

\* Along nothing only stars can be laid.
LEMMA LaidEmpty ==
    ASSUME NEW p, NEW n, Len(p) \in Nat, Len(n) \in Nat, NEW i \in 0 .. Len(p)
    PROVE  Laid(p, n, i, Len(n)) <=> \A k \in i + 1 .. Len(p) : p[k] = "*"
<1>1. ASSUME \A k \in i + 1 .. Len(p) : p[k] = "*" PROVE Laid(p, n, i, Len(n))
  <2> DEFINE cut == [k \in i .. Len(p) |-> Len(n)]
  <2>1. \A k \in i .. Len(p) : cut[k] = Len(n)
        OBVIOUS
  <2>2. cut \in [i .. Len(p) -> 0 .. Len(n)]
        OBVIOUS
  <2> HIDE DEF cut
  <2>3. \A k \in i + 1 .. Len(p) : k - 1 \in i .. Len(p) /\ k \in i .. Len(p)
        OBVIOUS
  <2>4. Lays(cut, p, n, i, Len(n))
        BY <1>1, <2>1, <2>2, <2>3 DEF Lays
  <2> QED BY <2>4 DEF Laid
<1>2. ASSUME NEW cut, Lays(cut, p, n, i, Len(n)) PROVE \A k \in i + 1 .. Len(p) : p[k] = "*"
  <2> DEFINE Odd == {k \in i + 1 .. Len(p) : p[k] # "*" \/ cut[k] # Len(n)}
  <2>1. Odd = {}
    <3> SUFFICES ASSUME Odd # {} PROVE FALSE
        OBVIOUS
    <3>0. Odd \subseteq Nat
          OBVIOUS
    <3>1. PICK k \in Odd : \A m \in Odd : k <= m
      <4> HIDE DEF Odd
      <4> QED BY <3>0, LeastNumber
    <3>2. /\ k \in i + 1 .. Len(p) /\ k - 1 \in i .. Len(p) /\ k \in i .. Len(p)
          /\ k - 1 \notin Odd
          BY <3>1
    <3>3. cut[k - 1] = Len(n)
      <4>1. CASE k = i + 1
            BY <1>2, <3>2, <4>1 DEF Lays
      <4>2. CASE k # i + 1
            BY <3>2, <4>2
      <4> QED BY <4>1, <4>2
    <3>4. cut[k] \in 0 .. Len(n)
          BY <1>2, <3>2 DEF Lays
    <3>5. p[k] = "*" /\ cut[k] = Len(n)
          BY <1>2, <3>2, <3>3, <3>4 DEF Lays
    <3> QED BY <3>1, <3>5
  <2> QED BY <2>1
<1> QED BY <1>1, <1>2 DEF Laid

\* A star takes nothing, or a character more.
LEMMA LaidStar ==
    ASSUME NEW p, NEW n, Len(p) \in Nat, Len(n) \in Nat,
           NEW i \in 0 .. Len(p) - 1, NEW j \in 0 .. Len(n) - 1, p[i + 1] = "*"
    PROVE  Laid(p, n, i, j) <=> Laid(p, n, i + 1, j) \/ Laid(p, n, i, j + 1)
<1>1. ASSUME NEW cut, Lays(cut, p, n, i, j)
      PROVE  Laid(p, n, i + 1, j) \/ Laid(p, n, i, j + 1)
  <2>1. /\ i + 1 \in i + 1 .. Len(p) /\ i + 1 \in i .. Len(p) /\ i \in i .. Len(p)
        /\ cut[i + 1] \in 0 .. Len(n) /\ j <= cut[i + 1]
    <3>1. i + 1 \in i + 1 .. Len(p) /\ i + 1 \in i .. Len(p) /\ i \in i .. Len(p) /\ (i + 1) - 1 = i
          OBVIOUS
    <3> QED BY <1>1, <3>1 DEF Lays
  <2>2. CASE cut[i + 1] = j
    <3> DEFINE rest == [k \in i + 1 .. Len(p) |-> cut[k]]
    <3>1. \A k \in i + 1 .. Len(p) : rest[k] = cut[k] /\ k \in i .. Len(p)
          OBVIOUS
    <3>2. rest \in [i + 1 .. Len(p) -> 0 .. Len(n)]
          BY <1>1, <3>1 DEF Lays
    <3> HIDE DEF rest
    <3>3. Len(p) \in i + 1 .. Len(p) /\ \A k \in (i + 1) + 1 .. Len(p) : k - 1 \in i + 1 .. Len(p) /\ k \in i + 1 .. Len(p)
          OBVIOUS
    <3>4. Lays(rest, p, n, i + 1, j)
          BY <1>1, <2>1, <2>2, <3>1, <3>2, <3>3 DEF Lays
    <3> QED BY <3>4 DEF Laid
  <2>3. CASE cut[i + 1] # j
    <3> DEFINE more == [k \in i .. Len(p) |-> IF k = i THEN j + 1 ELSE cut[k]]
    <3>1. more[i] = j + 1 /\ \A k \in i + 1 .. Len(p) : more[k] = cut[k] /\ k \in i .. Len(p)
          BY <2>1
    <3>2. more \in [i .. Len(p) -> 0 .. Len(n)]
          BY <1>1 DEF Lays
    <3> HIDE DEF more
    <3>3. Len(p) \in i + 1 .. Len(p) /\ \A k \in i + 1 .. Len(p) : k = i + 1 \/ k - 1 \in i + 1 .. Len(p)
          OBVIOUS
    <3>4. \A k \in i + 1 .. Len(p) : p[k] # "*" => more[k - 1] = cut[k - 1]
          BY <3>1, <3>3
    <3>5. ASSUME NEW k \in i + 1 .. Len(p), p[k] = "*" PROVE more[k - 1] <= more[k]
      <4>1. CASE k = i + 1
            BY <2>1, <2>3, <3>1, <4>1
      <4>2. CASE k # i + 1
        <5>1. cut[k - 1] <= cut[k] /\ more[k - 1] = cut[k - 1] /\ more[k] = cut[k]
              BY <1>1, <3>1, <3>3, <3>5, <4>2 DEF Lays
        <5> QED BY <5>1
      <4> QED BY <4>1, <4>2
    <3>6. Lays(more, p, n, i, j + 1)
          BY <1>1, <2>1, <3>1, <3>2, <3>3, <3>4, <3>5 DEF Lays
    <3> QED BY <3>6 DEF Laid
  <2> QED BY <2>2, <2>3
<1>2. ASSUME NEW rest, Lays(rest, p, n, i + 1, j)
      PROVE  Laid(p, n, i, j)
  <2> DEFINE cut == [k \in i .. Len(p) |-> IF k = i THEN j ELSE rest[k]]
  <2>1. cut[i] = j /\ \A k \in i + 1 .. Len(p) : cut[k] = rest[k]
        OBVIOUS
  <2>2. cut \in [i .. Len(p) -> 0 .. Len(n)]
        BY <1>2 DEF Lays
  <2> HIDE DEF cut
  <2>3. Len(p) \in i + 1 .. Len(p) /\ i + 1 \in i + 1 .. Len(p)
        OBVIOUS
  <2>4. \A k \in i + 1 .. Len(p) : k = i + 1 \/ (k - 1 \in i + 1 .. Len(p) /\ k \in (i + 1) + 1 .. Len(p))
        OBVIOUS
  <2>5. ASSUME NEW k \in i + 1 .. Len(p)
        PROVE  IF p[k] = "*" THEN cut[k - 1] <= cut[k]
               ELSE cut[k] = cut[k - 1] + 1 /\ p[k] \in {"?", n[cut[k]]}
    <3>1. CASE k = i + 1
          BY <1>2, <2>1, <2>3, <3>1 DEF Lays
    <3>2. CASE k # i + 1
          BY <1>2, <2>1, <2>4, <3>2 DEF Lays
    <3> QED BY <3>1, <3>2
  <2>6. Lays(cut, p, n, i, j)
        BY <1>2, <2>1, <2>2, <2>3, <2>5 DEF Lays
  <2> QED BY <2>6 DEF Laid
<1>3. ASSUME NEW more, Lays(more, p, n, i, j + 1)
      PROVE  Laid(p, n, i, j)
  <2> DEFINE cut == [k \in i .. Len(p) |-> IF k = i THEN j ELSE more[k]]
  <2>1. cut[i] = j /\ \A k \in i + 1 .. Len(p) : cut[k] = more[k]
        OBVIOUS
  <2>2. cut \in [i .. Len(p) -> 0 .. Len(n)]
        BY <1>3 DEF Lays
  <2> HIDE DEF cut
  <2>3. Len(p) \in i + 1 .. Len(p) /\ i + 1 \in i + 1 .. Len(p) /\ i + 1 \in i .. Len(p) /\ (i + 1) - 1 = i
        OBVIOUS
  <2>4. \A k \in i + 1 .. Len(p) : k = i + 1 \/ k - 1 \in i + 1 .. Len(p)
        OBVIOUS
  <2>5. cut[i] <= cut[i + 1]
        BY <1>3, <2>1, <2>3 DEF Lays
  <2>6. Lays(cut, p, n, i, j)
        BY <1>3, <2>1, <2>2, <2>3, <2>4, <2>5 DEF Lays
  <2> QED BY <2>6 DEF Laid
<1> QED BY <1>1, <1>2, <1>3 DEF Laid

\* Any other piece takes the character it stands for.
LEMMA LaidChar ==
    ASSUME NEW p, NEW n, Len(p) \in Nat, Len(n) \in Nat,
           NEW i \in 0 .. Len(p) - 1, NEW j \in 0 .. Len(n) - 1, p[i + 1] # "*"
    PROVE  Laid(p, n, i, j) <=> p[i + 1] \in {"?", n[j + 1]} /\ Laid(p, n, i + 1, j + 1)
<1>0. /\ Len(p) \in i + 1 .. Len(p) /\ i + 1 \in i + 1 .. Len(p) /\ i \in i .. Len(p) /\ i + 1 \in i .. Len(p)
      /\ (i + 1) - 1 = i
      /\ \A k \in i + 1 .. Len(p) : k \in i .. Len(p) /\ (k = i + 1 \/ (k - 1 \in i + 1 .. Len(p) /\ k \in (i + 1) + 1 .. Len(p)))
      /\ \A k \in (i + 1) + 1 .. Len(p) : k \in i + 1 .. Len(p) /\ k - 1 \in i + 1 .. Len(p)
      OBVIOUS
<1>1. ASSUME NEW cut, Lays(cut, p, n, i, j)
      PROVE  p[i + 1] \in {"?", n[j + 1]} /\ Laid(p, n, i + 1, j + 1)
  <2>1. cut[i + 1] = j + 1 /\ p[i + 1] \in {"?", n[j + 1]}
        BY <1>0, <1>1 DEF Lays
  <2> DEFINE rest == [k \in i + 1 .. Len(p) |-> cut[k]]
  <2>2. \A k \in i + 1 .. Len(p) : rest[k] = cut[k]
        OBVIOUS
  <2>3. rest \in [i + 1 .. Len(p) -> 0 .. Len(n)]
        BY <1>0, <1>1 DEF Lays
  <2> HIDE DEF rest
  <2>4. Lays(rest, p, n, i + 1, j + 1)
        BY <1>0, <1>1, <2>1, <2>2, <2>3 DEF Lays
  <2> QED BY <2>1, <2>4 DEF Laid
<1>2. ASSUME NEW rest, Lays(rest, p, n, i + 1, j + 1), p[i + 1] \in {"?", n[j + 1]}
      PROVE  Laid(p, n, i, j)
  <2> DEFINE cut == [k \in i .. Len(p) |-> IF k = i THEN j ELSE rest[k]]
  <2>1. cut[i] = j /\ \A k \in i + 1 .. Len(p) : cut[k] = rest[k]
        OBVIOUS
  <2>2. cut \in [i .. Len(p) -> 0 .. Len(n)]
        BY <1>2 DEF Lays
  <2> HIDE DEF cut
  <2>3. Lays(cut, p, n, i, j)
        BY <1>0, <1>2, <2>1, <2>2 DEF Lays
  <2> QED BY <2>3 DEF Laid
<1> QED BY <1>1, <1>2 DEF Laid

\* The equation of the recursion.
Match(p, n, f, i, j) ==
    IF i > Len(p) THEN j > Len(n)
    ELSE IF j > Len(n) THEN \A k \in i .. Len(p) : p[k] = "*"
    ELSE IF p[i] = "*" THEN f[i + 1][j] \/ f[i][j + 1]
    ELSE p[i] \in {"?", n[j]} /\ f[i + 1][j + 1]

LEMMA MatchBoolean ==
    ASSUME NEW p, NEW n, NEW f, NEW i, NEW j
    PROVE  Match(p, n, f, i, j) = TRUE \/ Match(p, n, f, i, j) = FALSE
<1>1. CASE i > Len(p)
      BY <1>1 DEF Match
<1>2. CASE ~(i > Len(p)) /\ j > Len(n)
      BY <1>2 DEF Match
<1>3. CASE ~(i > Len(p)) /\ ~(j > Len(n)) /\ p[i] = "*"
      BY <1>3 DEF Match
<1>4. CASE ~(i > Len(p)) /\ ~(j > Len(n)) /\ p[i] # "*"
      BY <1>4 DEF Match
<1> QED BY <1>1, <1>2, <1>3, <1>4

\* Laying patterns satisfies it, where it does for the shorter rests.
LEMMA LaidMatches ==
    ASSUME NEW p, NEW n, Len(p) \in Nat, Len(n) \in Nat, NEW f,
           NEW i \in 1 .. Len(p) + 1, NEW j \in 1 .. Len(n) + 1,
           i <= Len(p) => (f[i + 1][j] <=> Laid(p, n, i, j - 1)),
           j <= Len(n) => (f[i][j + 1] <=> Laid(p, n, i - 1, j)),
           i <= Len(p) /\ j <= Len(n) => (f[i + 1][j + 1] <=> Laid(p, n, i, j))
    PROVE  Match(p, n, f, i, j) <=> Laid(p, n, i - 1, j - 1)
<1>1. CASE i > Len(p)
  <2>1. i - 1 = Len(p) /\ j - 1 \in 0 .. Len(n) /\ (j - 1 = Len(n) <=> j > Len(n))
        BY <1>1
  <2>2. Laid(p, n, Len(p), j - 1) <=> j - 1 = Len(n)
        BY <2>1, LaidEnd
  <2> QED BY <1>1, <2>1, <2>2 DEF Match
<1>2. CASE i <= Len(p) /\ j > Len(n)
  <2>1. j - 1 = Len(n) /\ i - 1 \in 0 .. Len(p) /\ (i - 1) + 1 = i /\ ~(i > Len(p))
        BY <1>2
  <2>2. Laid(p, n, i - 1, Len(n)) <=> \A k \in i .. Len(p) : p[k] = "*"
        BY <2>1, LaidEmpty
  <2> QED BY <1>2, <2>1, <2>2 DEF Match
<1>3. CASE i <= Len(p) /\ j <= Len(n)
  <2>1. /\ i - 1 \in 0 .. Len(p) - 1 /\ j - 1 \in 0 .. Len(n) - 1
        /\ (i - 1) + 1 = i /\ (j - 1) + 1 = j /\ ~(i > Len(p)) /\ ~(j > Len(n))
        BY <1>3
  <2>2. CASE p[i] = "*"
    <3>1. Laid(p, n, i - 1, j - 1) <=> Laid(p, n, i, j - 1) \/ Laid(p, n, i - 1, j)
          BY <2>1, <2>2, LaidStar
    <3> QED BY <1>3, <2>1, <2>2, <3>1 DEF Match
  <2>3. CASE p[i] # "*"
    <3>1. Laid(p, n, i - 1, j - 1) <=> p[i] \in {"?", n[j]} /\ Laid(p, n, i, j)
          BY <2>1, <2>3, LaidChar
    <3> QED BY <1>3, <2>1, <2>3, <3>1 DEF Match
  <2> QED BY <2>2, <2>3
<1> QED BY <1>1, <1>2, <1>3

\* The matcher satisfies its equation, as there is a function that does.
LEMMA MatchExists ==
    ASSUME NEW p, NEW n, Len(p) \in Nat, Len(n) \in Nat
    PROVE  \E f : /\ f = [i \in 1 .. Len(p) + 1 |-> [j \in 1 .. Len(n) + 1 |-> Match(p, n, f, i, j)]]
                  /\ ComponentMatch(p, n) = f[1][1]
<1> DEFINE Eq(f) == f = [i \in 1 .. Len(p) + 1 |-> [j \in 1 .. Len(n) + 1 |-> Match(p, n, f, i, j)]]
           g == [i \in 1 .. Len(p) + 1 |-> [j \in 1 .. Len(n) + 1 |-> Laid(p, n, i - 1, j - 1)]]
<1>1. \A i \in 1 .. Len(p) + 1, j \in 1 .. Len(n) + 1 : Match(p, n, g, i, j) = Laid(p, n, i - 1, j - 1)
  <2>1. \A k \in 1 .. Len(p) + 1, l \in 1 .. Len(n) + 1 : g[k][l] = Laid(p, n, k - 1, l - 1)
        OBVIOUS
  <2> HIDE DEF g
  <2> SUFFICES ASSUME NEW i \in 1 .. Len(p) + 1, NEW j \in 1 .. Len(n) + 1
               PROVE  Match(p, n, g, i, j) <=> Laid(p, n, i - 1, j - 1)
      BY MatchBoolean DEF Laid
  <2>2. i <= Len(p) => (g[i + 1][j] <=> Laid(p, n, i, j - 1))
    <3> HAVE i <= Len(p)
    <3>1. i + 1 \in 1 .. Len(p) + 1 /\ (i + 1) - 1 = i
          OBVIOUS
    <3> QED BY <2>1, <3>1
  <2>3. j <= Len(n) => (g[i][j + 1] <=> Laid(p, n, i - 1, j))
    <3> HAVE j <= Len(n)
    <3>1. j + 1 \in 1 .. Len(n) + 1 /\ (j + 1) - 1 = j
          OBVIOUS
    <3> QED BY <2>1, <3>1
  <2>4. i <= Len(p) /\ j <= Len(n) => (g[i + 1][j + 1] <=> Laid(p, n, i, j))
    <3> HAVE i <= Len(p) /\ j <= Len(n)
    <3>1. i + 1 \in 1 .. Len(p) + 1 /\ (i + 1) - 1 = i /\ j + 1 \in 1 .. Len(n) + 1 /\ (j + 1) - 1 = j
          OBVIOUS
    <3> QED BY <2>1, <3>1
  <2> QED BY <2>2, <2>3, <2>4, LaidMatches
<1>2. Eq(g)
      BY <1>1
<1>3. ComponentMatch(p, n) = (CHOOSE f : Eq(f))[1][1]
      BY DEF ComponentMatch, Match
<1> HIDE DEF g, Eq
<1>4. Eq(CHOOSE f : Eq(f))
      BY <1>2
<1>5. \E f : Eq(f) /\ ComponentMatch(p, n) = f[1][1]
      BY <1>3, <1>4
<1> QED BY <1>5 DEF Eq

\* component_match matches a name just when the pattern can be laid along it.
THEOREM ComponentMatchIsGlob ==
    ASSUME NEW p, NEW n, Len(p) \in Nat, Len(n) \in Nat, DOMAIN p = 1 .. Len(p)
    PROVE  ComponentMatch(p, n) = GlobMatches(p, n)
<1>1. PICK f : /\ f = [i \in 1 .. Len(p) + 1 |-> [j \in 1 .. Len(n) + 1 |-> Match(p, n, f, i, j)]]
               /\ ComponentMatch(p, n) = f[1][1]
      BY MatchExists
<1>2. \A i \in 1 .. Len(p) + 1, j \in 1 .. Len(n) + 1 : f[i][j] = Match(p, n, f, i, j)
  <2>1. TAKE i \in 1 .. Len(p) + 1, j \in 1 .. Len(n) + 1
  <2>2. f[i] = [l \in 1 .. Len(n) + 1 |-> Match(p, n, f, i, l)]
        BY <1>1
  <2> QED BY <2>2
<1> DEFINE Off == {m \in Nat : \E i \in 1 .. Len(p) + 1, j \in 1 .. Len(n) + 1 :
                      m = ((Len(p) + 1) - i) + ((Len(n) + 1) - j) /\ ~(f[i][j] <=> Laid(p, n, i - 1, j - 1))}
<1>3. Off = {}
  <2> SUFFICES ASSUME Off # {} PROVE FALSE
      OBVIOUS
  <2>1. PICK m \in Off : \A l \in Off : m <= l
    <3>1. Off \subseteq Nat
          OBVIOUS
    <3> HIDE DEF Off
    <3> QED BY <3>1, LeastNumber
  <2>2. PICK i \in 1 .. Len(p) + 1, j \in 1 .. Len(n) + 1 :
           m = ((Len(p) + 1) - i) + ((Len(n) + 1) - j) /\ ~(f[i][j] <=> Laid(p, n, i - 1, j - 1))
        BY <2>1
  <2>3. ASSUME NEW k \in 1 .. Len(p) + 1, NEW l \in 1 .. Len(n) + 1,
               ((Len(p) + 1) - k) + ((Len(n) + 1) - l) < m
        PROVE  f[k][l] <=> Laid(p, n, k - 1, l - 1)
    <3>1. ((Len(p) + 1) - k) + ((Len(n) + 1) - l) \in Nat /\ m \in Nat
          BY <2>1
    <3>2. ((Len(p) + 1) - k) + ((Len(n) + 1) - l) \notin Off
      <4> HIDE DEF Off
      <4> QED BY <2>1, <2>3, <3>1
    <3> QED BY <3>1, <3>2
  <2> HIDE DEF Off
  <2>4. i <= Len(p) => (f[i + 1][j] <=> Laid(p, n, i, j - 1))
    <3> HAVE i <= Len(p)
    <3>1. i + 1 \in 1 .. Len(p) + 1 /\ (i + 1) - 1 = i /\ ((Len(p) + 1) - (i + 1)) + ((Len(n) + 1) - j) < m
          BY <2>2
    <3> QED BY <2>3, <3>1
  <2>5. j <= Len(n) => (f[i][j + 1] <=> Laid(p, n, i - 1, j))
    <3> HAVE j <= Len(n)
    <3>1. j + 1 \in 1 .. Len(n) + 1 /\ (j + 1) - 1 = j /\ ((Len(p) + 1) - i) + ((Len(n) + 1) - (j + 1)) < m
          BY <2>2
    <3> QED BY <2>3, <3>1
  <2>6. i <= Len(p) /\ j <= Len(n) => (f[i + 1][j + 1] <=> Laid(p, n, i, j))
    <3> HAVE i <= Len(p) /\ j <= Len(n)
    <3>1. /\ i + 1 \in 1 .. Len(p) + 1 /\ (i + 1) - 1 = i /\ j + 1 \in 1 .. Len(n) + 1 /\ (j + 1) - 1 = j
          /\ ((Len(p) + 1) - (i + 1)) + ((Len(n) + 1) - (j + 1)) < m
          BY <2>2
    <3> QED BY <2>3, <3>1
  <2>7. Match(p, n, f, i, j) <=> Laid(p, n, i - 1, j - 1)
        BY <2>4, <2>5, <2>6, LaidMatches
  <2> QED BY <1>2, <2>2, <2>7
<1>4. f[1][1] <=> Laid(p, n, 0, 0)
  <2>1. /\ 1 \in 1 .. Len(p) + 1 /\ 1 \in 1 .. Len(n) + 1 /\ 1 - 1 = 0
        /\ ((Len(p) + 1) - 1) + ((Len(n) + 1) - 1) \in Nat
        OBVIOUS
  <2> QED BY <1>3, <2>1
<1>5. Laid(p, n, 0, 0) <=> GlobMatches(p, n)
      BY DEF Laid, Lays, GlobMatches
<1>6. f[1][1] = TRUE \/ f[1][1] = FALSE
  <2>1. f[1][1] = Match(p, n, f, 1, 1)
        BY <1>2
  <2> QED BY <2>1, MatchBoolean
<1>7. GlobMatches(p, n) = TRUE \/ GlobMatches(p, n) = FALSE
      BY DEF GlobMatches
<1> QED BY <1>1, <1>4, <1>5, <1>6, <1>7

----------------------------------------------------------------------------
(* A path.  Here the recursion finds out whether the rest of the parts can *)
(* be walked along the rest of the components; the walk leaves out some of *)
(* the ends that git tries for a **.                                       *)

Step(parts, comps, k, from, to) ==
    IF parts[k] = DoubleStar THEN to \in Ends(Len(parts), Len(comps), k - 1, from)
    ELSE to = from + 1 /\ ComponentMatch(parts[k], comps[to])

\* `cut` walks the parts after the first pi along comps, from component ci on.
Walks(cut, parts, comps, pi, ci) ==
    /\ cut \in [pi .. Len(parts) -> 0 .. Len(comps)]
    /\ cut[pi] = ci /\ cut[Len(parts)] = Len(comps)
    /\ \A k \in pi + 1 .. Len(parts) : Step(parts, comps, k, cut[k - 1], cut[k])

Walked(parts, comps, pi, ci) == \E cut : Walks(cut, parts, comps, pi, ci)

LEMMA WalkedEnd ==
    ASSUME NEW parts, NEW comps, Len(parts) \in Nat, Len(comps) \in Nat, NEW ci \in 0 .. Len(comps)
    PROVE  Walked(parts, comps, Len(parts), ci) <=> ci = Len(comps)
<1>1. ASSUME ci = Len(comps) PROVE Walked(parts, comps, Len(parts), ci)
  <2> DEFINE cut == [k \in Len(parts) .. Len(parts) |-> ci]
  <2>1. Walks(cut, parts, comps, Len(parts), ci)
        BY <1>1 DEF Walks
  <2> QED BY <2>1 DEF Walked
<1>2. ASSUME Walked(parts, comps, Len(parts), ci) PROVE ci = Len(comps)
      BY <1>2 DEF Walked, Walks
<1> QED BY <1>1, <1>2

LEMMA WalkedStep ==
    ASSUME NEW parts, NEW comps, Len(parts) \in Nat, Len(comps) \in Nat,
           NEW pi \in 0 .. Len(parts) - 1, NEW ci \in 0 .. Len(comps)
    PROVE  Walked(parts, comps, pi, ci) <=>
              \E end \in 0 .. Len(comps) :
                 Step(parts, comps, pi + 1, ci, end) /\ Walked(parts, comps, pi + 1, end)
<1>0. /\ Len(parts) \in pi + 1 .. Len(parts) /\ pi + 1 \in pi + 1 .. Len(parts)
      /\ pi \in pi .. Len(parts) /\ pi + 1 \in pi .. Len(parts) /\ (pi + 1) - 1 = pi
      /\ \A k \in pi + 1 .. Len(parts) :
            k \in pi .. Len(parts) /\ (k = pi + 1 \/ (k - 1 \in pi + 1 .. Len(parts) /\ k \in (pi + 1) + 1 .. Len(parts)))
      /\ \A k \in (pi + 1) + 1 .. Len(parts) : k \in pi + 1 .. Len(parts) /\ k - 1 \in pi + 1 .. Len(parts)
      OBVIOUS
<1>1. ASSUME NEW cut, Walks(cut, parts, comps, pi, ci)
      PROVE  \E end \in 0 .. Len(comps) :
                Step(parts, comps, pi + 1, ci, end) /\ Walked(parts, comps, pi + 1, end)
  <2>1. cut[pi + 1] \in 0 .. Len(comps) /\ Step(parts, comps, pi + 1, ci, cut[pi + 1])
        BY <1>0, <1>1 DEF Walks
  <2> DEFINE rest == [k \in pi + 1 .. Len(parts) |-> cut[k]]
  <2>2. \A k \in pi + 1 .. Len(parts) : rest[k] = cut[k]
        OBVIOUS
  <2>3. rest \in [pi + 1 .. Len(parts) -> 0 .. Len(comps)]
        BY <1>0, <1>1 DEF Walks
  <2> HIDE DEF rest
  <2>4. Walks(rest, parts, comps, pi + 1, cut[pi + 1])
        BY <1>0, <1>1, <2>2, <2>3 DEF Walks
  <2> QED BY <2>1, <2>4 DEF Walked
<1>2. ASSUME NEW end \in 0 .. Len(comps), Step(parts, comps, pi + 1, ci, end),
             NEW rest, Walks(rest, parts, comps, pi + 1, end)
      PROVE  Walked(parts, comps, pi, ci)
  <2> DEFINE cut == [k \in pi .. Len(parts) |-> IF k = pi THEN ci ELSE rest[k]]
  <2>1. cut[pi] = ci /\ \A k \in pi + 1 .. Len(parts) : cut[k] = rest[k]
        OBVIOUS
  <2>2. cut \in [pi .. Len(parts) -> 0 .. Len(comps)]
        BY <1>2 DEF Walks
  <2> HIDE DEF cut
  <2>3. ASSUME NEW k \in pi + 1 .. Len(parts)
        PROVE  Step(parts, comps, k, cut[k - 1], cut[k])
    <3>1. CASE k = pi + 1
          BY <1>0, <1>2, <2>1, <3>1 DEF Walks
    <3>2. CASE k # pi + 1
          BY <1>0, <1>2, <2>1, <3>2 DEF Walks
    <3> QED BY <3>1, <3>2
  <2>4. Walks(cut, parts, comps, pi, ci)
        BY <1>0, <1>2, <2>1, <2>2, <2>3 DEF Walks
  <2> QED BY <2>4 DEF Walked
<1> QED BY <1>1, <1>2 DEF Walked

\* The equation of the recursion.
Walk(parts, comps, f, pi, ci) ==
    IF pi = Len(parts) THEN ci = Len(comps)
    ELSE IF parts[pi + 1] = DoubleStar
    THEN \E end \in Ends(Len(parts), Len(comps), pi, ci) : f[pi + 1][end]
    ELSE /\ ci < Len(comps) /\ ComponentMatch(parts[pi + 1], comps[ci + 1])
         /\ f[pi + 1][ci + 1]

LEMMA WalkBoolean ==
    ASSUME NEW parts, NEW comps, NEW f, NEW pi, NEW ci
    PROVE  Walk(parts, comps, f, pi, ci) = TRUE \/ Walk(parts, comps, f, pi, ci) = FALSE
<1>1. CASE pi = Len(parts)
      BY <1>1 DEF Walk
<1>2. CASE pi # Len(parts) /\ parts[pi + 1] = DoubleStar
      BY <1>2 DEF Walk
<1>3. CASE pi # Len(parts) /\ parts[pi + 1] # DoubleStar
      BY <1>3 DEF Walk
<1> QED BY <1>1, <1>2, <1>3

LEMMA EndsInPath ==
    ASSUME NEW P \in Nat, NEW C \in Nat, NEW pi \in 0 .. P - 1, NEW ci \in 0 .. C
    PROVE  Ends(P, C, pi, ci) \subseteq ci .. C
BY DEF Ends

\* Walking satisfies it, where it does for the shorter rests.
LEMMA WalkedWalks ==
    ASSUME NEW parts, NEW comps, Len(parts) \in Nat, Len(comps) \in Nat, NEW f,
           NEW pi \in 0 .. Len(parts), NEW ci \in 0 .. Len(comps),
           pi < Len(parts) =>
              \A end \in 0 .. Len(comps) : f[pi + 1][end] <=> Walked(parts, comps, pi + 1, end)
    PROVE  Walk(parts, comps, f, pi, ci) <=> Walked(parts, comps, pi, ci)
<1>1. CASE pi = Len(parts)
  <2>1. Walked(parts, comps, Len(parts), ci) <=> ci = Len(comps)
        BY WalkedEnd
  <2> QED BY <1>1, <2>1 DEF Walk
<1>2. CASE pi # Len(parts)
  <2>1. pi \in 0 .. Len(parts) - 1 /\ pi < Len(parts) /\ (pi + 1) - 1 = pi
        BY <1>2
  <2>2. Walked(parts, comps, pi, ci) <=>
           \E end \in 0 .. Len(comps) :
              Step(parts, comps, pi + 1, ci, end) /\ f[pi + 1][end]
        BY <2>1, WalkedStep
  <2>3. CASE parts[pi + 1] = DoubleStar
    <3>1. Ends(Len(parts), Len(comps), pi, ci) \subseteq 0 .. Len(comps)
          BY <2>1, EndsInPath
    <3> QED BY <1>2, <2>1, <2>2, <2>3, <3>1 DEF Walk, Step
  <2>4. CASE parts[pi + 1] # DoubleStar
    <3>1. \A end \in 0 .. Len(comps) : end = ci + 1 => ci < Len(comps)
          OBVIOUS
    <3>2. ci < Len(comps) => ci + 1 \in 0 .. Len(comps)
          OBVIOUS
    <3> QED BY <1>2, <2>2, <2>4, <3>1, <3>2 DEF Walk, Step
  <2> QED BY <2>3, <2>4
<1> QED BY <1>1, <1>2

\* match_with_doublestar satisfies its equation, as there is a function that does.
LEMMA WalkExists ==
    ASSUME NEW parts, NEW comps, Len(parts) \in Nat, Len(comps) \in Nat
    PROVE  \E f : /\ f = [pi \in 0 .. Len(parts) |-> [ci \in 0 .. Len(comps) |-> Walk(parts, comps, f, pi, ci)]]
                  /\ \A anchored \in BOOLEAN :
                        MatchWithDoubleStar(parts, comps, anchored) <=>
                           \E start \in 0 .. (IF anchored THEN 0 ELSE Len(comps)) : f[0][start]
<1> DEFINE Eq(f) == f = [pi \in 0 .. Len(parts) |-> [ci \in 0 .. Len(comps) |-> Walk(parts, comps, f, pi, ci)]]
           g == [pi \in 0 .. Len(parts) |-> [ci \in 0 .. Len(comps) |-> Walked(parts, comps, pi, ci)]]
<1>1. \A pi \in 0 .. Len(parts), ci \in 0 .. Len(comps) :
         Walk(parts, comps, g, pi, ci) = Walked(parts, comps, pi, ci)
  <2>1. \A k \in 0 .. Len(parts), l \in 0 .. Len(comps) : g[k][l] = Walked(parts, comps, k, l)
        OBVIOUS
  <2> HIDE DEF g
  <2> SUFFICES ASSUME NEW pi \in 0 .. Len(parts), NEW ci \in 0 .. Len(comps)
               PROVE  Walk(parts, comps, g, pi, ci) <=> Walked(parts, comps, pi, ci)
      BY WalkBoolean DEF Walked
  <2>2. pi < Len(parts) => pi + 1 \in 0 .. Len(parts)
        OBVIOUS
  <2> QED BY <2>1, <2>2, WalkedWalks
<1>2. Eq(g)
      BY <1>1
<1>3. \A anchored \in BOOLEAN :
         MatchWithDoubleStar(parts, comps, anchored) <=>
            \E start \in 0 .. (IF anchored THEN 0 ELSE Len(comps)) : (CHOOSE f : Eq(f))[0][start]
      BY DEF MatchWithDoubleStar, Walk
<1> HIDE DEF g, Eq
<1>4. Eq(CHOOSE f : Eq(f))
      BY <1>2
<1>5. \E f : /\ Eq(f)
             /\ \A anchored \in BOOLEAN :
                   MatchWithDoubleStar(parts, comps, anchored) <=>
                      \E start \in 0 .. (IF anchored THEN 0 ELSE Len(comps)) : f[0][start]
      BY <1>3, <1>4
<1> QED BY <1>5 DEF Eq

\* match_with_doublestar matches a path just when the parts can be walked
\* along it, from its start or, unless they are anchored, from further on.
LEMMA MatchIsWalk ==
    ASSUME NEW parts, NEW comps, Len(parts) \in Nat, Len(comps) \in Nat, NEW anchored \in BOOLEAN
    PROVE  MatchWithDoubleStar(parts, comps, anchored) <=>
              \E start \in 0 .. (IF anchored THEN 0 ELSE Len(comps)) : Walked(parts, comps, 0, start)
<1>1. PICK f : /\ f = [pi \in 0 .. Len(parts) |-> [ci \in 0 .. Len(comps) |-> Walk(parts, comps, f, pi, ci)]]
               /\ \A a \in BOOLEAN :
                     MatchWithDoubleStar(parts, comps, a) <=>
                        \E start \in 0 .. (IF a THEN 0 ELSE Len(comps)) : f[0][start]
      BY WalkExists
<1>2. \A pi \in 0 .. Len(parts), ci \in 0 .. Len(comps) : f[pi][ci] = Walk(parts, comps, f, pi, ci)
  <2>1. TAKE pi \in 0 .. Len(parts), ci \in 0 .. Len(comps)
  <2>2. f[pi] = [l \in 0 .. Len(comps) |-> Walk(parts, comps, f, pi, l)]
        BY <1>1
  <2> QED BY <2>2
<1> DEFINE Off == {m \in 0 .. Len(parts) :
                      \E ci \in 0 .. Len(comps) : ~(f[Len(parts) - m][ci] <=> Walked(parts, comps, Len(parts) - m, ci))}
<1>3. Off = {}
  <2> SUFFICES ASSUME Off # {} PROVE FALSE
      OBVIOUS
  <2>1. PICK m \in Off : \A l \in Off : m <= l
    <3>1. Off \subseteq Nat
          OBVIOUS
    <3> HIDE DEF Off
    <3> QED BY <3>1, LeastNumber
  <2> DEFINE pi == Len(parts) - m
  <2>2. PICK ci \in 0 .. Len(comps) : ~(f[pi][ci] <=> Walked(parts, comps, pi, ci))
        BY <2>1
  <2>3. m \in 0 .. Len(parts) /\ pi \in 0 .. Len(parts) /\ (pi < Len(parts) => m - 1 \in 0 .. Len(parts) /\ pi + 1 = Len(parts) - (m - 1))
        BY <2>1
  <2>4. m - 1 \notin Off
    <3> HIDE DEF Off, pi
    <3> QED BY <2>1, <2>3
  <2>5. pi < Len(parts) =>
           \A end \in 0 .. Len(comps) : f[pi + 1][end] <=> Walked(parts, comps, pi + 1, end)
        BY <2>3, <2>4
  <2>6. Walk(parts, comps, f, pi, ci) <=> Walked(parts, comps, pi, ci)
    <3> HIDE DEF Off, pi
    <3> QED BY <2>3, <2>5, WalkedWalks
  <2> HIDE DEF Off, pi
  <2> QED BY <1>2, <2>2, <2>3, <2>6
<1>4. \A start \in 0 .. Len(comps) : f[0][start] <=> Walked(parts, comps, 0, start)
  <2>1. Len(parts) \in 0 .. Len(parts) /\ Len(parts) - Len(parts) = 0
        OBVIOUS
  <2> QED BY <1>3, <2>1
<1>5. 0 .. (IF anchored THEN 0 ELSE Len(comps)) \subseteq 0 .. Len(comps)
      OBVIOUS
<1> QED BY <1>1, <1>4, <1>5

\* Names and paths are what they should be.
IsPath(s) == s \in Seq(Seq(STRING))

LEMMA PathParts ==
    ASSUME NEW s, IsPath(s)
    PROVE  /\ Len(s) \in Nat /\ DOMAIN s = 1 .. Len(s)
           /\ \A k \in 1 .. Len(s) : Len(s[k]) \in Nat /\ DOMAIN s[k] = 1 .. Len(s[k])
<1>1. Len(s) \in Nat /\ DOMAIN s = 1 .. Len(s) /\ \A k \in 1 .. Len(s) : s[k] \in Seq(STRING)
      BY DEF IsPath
<1> QED BY <1>1

\* A step of the walk along a part and its step as git lays it.
LaysPart(parts, comps, k, from, to) ==
    IF parts[k] = DoubleStar
    THEN /\ from <= to
         /\ k = Len(parts) /\ k > 1 => from < to
    ELSE to = from + 1 /\ GlobMatches(parts[k], comps[to])

LEMMA StepLaysPart ==
    ASSUME NEW parts, NEW comps, IsPath(parts), IsPath(comps), NEW k \in 1 .. Len(parts),
           NEW from \in 0 .. Len(comps), NEW to \in 0 .. Len(comps)
    PROVE  /\ Step(parts, comps, k, from, to) => LaysPart(parts, comps, k, from, to)
           /\ LaysPart(parts, comps, k, from, to) /\ to + (Len(parts) - k) <= Len(comps) =>
                 Step(parts, comps, k, from, to)
           /\ parts[k] # DoubleStar =>
                 (Step(parts, comps, k, from, to) <=> LaysPart(parts, comps, k, from, to))
<1>1. /\ Len(parts) \in Nat /\ Len(comps) \in Nat
      /\ Len(parts[k]) \in Nat /\ DOMAIN parts[k] = 1 .. Len(parts[k])
      /\ \A j \in 1 .. Len(comps) : Len(comps[j]) \in Nat
      BY PathParts
<1>2. CASE parts[k] = DoubleStar
      BY <1>1, <1>2 DEF Step, LaysPart, Ends
<1>3. CASE parts[k] # DoubleStar
  <2>1. to = from + 1 => ComponentMatch(parts[k], comps[to]) = GlobMatches(parts[k], comps[to])
    <3> HAVE to = from + 1
    <3>1. to \in 1 .. Len(comps)
          OBVIOUS
    <3> QED BY <1>1, <3>1, ComponentMatchIsGlob
  <2> QED BY <1>3, <2>1 DEF Step, LaysPart
<1> QED BY <1>2, <1>3

LEMMA PathMatchesLaid ==
    ASSUME NEW parts, NEW comps, IsPath(parts), IsPath(comps)
    PROVE  PathMatches(parts, comps) <=>
              \E cut \in [0 .. Len(parts) -> 0 .. Len(comps)] :
                 /\ cut[0] = 0 /\ cut[Len(parts)] = Len(comps)
                 /\ \A k \in 1 .. Len(parts) : LaysPart(parts, comps, k, cut[k - 1], cut[k])
<1>1. DOMAIN parts = 1 .. Len(parts)
      BY PathParts
<1> QED BY <1>1 DEF PathMatches, LaysPart

\* The walk finds nothing that git does not.
LEMMA WalkIsSound ==
    ASSUME NEW parts, NEW comps, IsPath(parts), IsPath(comps), Walked(parts, comps, 0, 0)
    PROVE  PathMatches(parts, comps)
<1>1. PICK cut : Walks(cut, parts, comps, 0, 0)
      BY DEF Walked
<1>2. /\ cut \in [0 .. Len(parts) -> 0 .. Len(comps)]
      /\ cut[0] = 0 /\ cut[Len(parts)] = Len(comps)
      BY <1>1 DEF Walks
<1>3. ASSUME NEW k \in 1 .. Len(parts)
      PROVE  LaysPart(parts, comps, k, cut[k - 1], cut[k])
  <2>1. k \in 0 + 1 .. Len(parts) /\ k - 1 \in 0 .. Len(parts) /\ k \in 0 .. Len(parts)
        BY PathParts
  <2>2. Step(parts, comps, k, cut[k - 1], cut[k])
        BY <1>1, <2>1 DEF Walks
  <2> QED BY <1>2, <2>1, <2>2, StepLaysPart
<1> QED BY <1>2, <1>3, PathMatchesLaid

\* With one ** it finds all that git does: the parts that come after it take a
\* component each, so the ends it leaves out come to nothing.
LEMMA WalkIsComplete ==
    ASSUME NEW parts, NEW comps, IsPath(parts), IsPath(comps), OneDoubleStar(parts),
           PathMatches(parts, comps)
    PROVE  Walked(parts, comps, 0, 0)
<1> DEFINE P == Len(parts)
           C == Len(comps)
<1>0. P \in Nat /\ C \in Nat /\ DOMAIN parts = 1 .. P
      BY PathParts
<1>1. PICK cut \in [0 .. P -> 0 .. C] :
           /\ cut[0] = 0 /\ cut[P] = C
           /\ \A k \in 1 .. P : LaysPart(parts, comps, k, cut[k - 1], cut[k])
      BY PathMatchesLaid
<1> HIDE DEF P, C
<1>2. ASSUME NEW k \in 1 .. P, parts[k] = DoubleStar
      PROVE  cut[k] + (P - k) <= C
  <2> DEFINE Far == {m \in 0 .. P - k : cut[P - m] + m > C}
  <2>1. Far = {}
    <3> SUFFICES ASSUME Far # {} PROVE FALSE
        OBVIOUS
    <3>1. Far \subseteq Nat
          BY <1>0
    <3>2. PICK m \in Far : \A l \in Far : m <= l
      <4> HIDE DEF Far
      <4> QED BY <3>1, LeastNumber
    <3>3. m \in 0 .. P - k /\ cut[P - m] + m > C /\ cut[P - m] \in 0 .. C
      <4>1. m \in 0 .. P - k /\ cut[P - m] + m > C
            BY <3>2
      <4>2. P - m \in 0 .. P
            BY <1>0, <4>1
      <4> QED BY <1>1, <4>1, <4>2
    <3>4. m # 0
          BY <1>0, <1>1, <3>3
    <3>5. m - 1 \notin Far /\ m - 1 \in 0 .. P - k
      <4>1. m - 1 \in 0 .. P - k /\ m - 1 < m
            BY <1>0, <3>3, <3>4
      <4> HIDE DEF Far
      <4> QED BY <3>1, <3>2, <4>1
    <3> DEFINE l == P - (m - 1)
    <3>6. l \in 1 .. P /\ l > k /\ l - 1 = P - m /\ l \in 0 .. P /\ (l = P => l > 1)
          BY <1>0, <3>3, <3>4
    <3>7. cut[l] + (m - 1) <= C /\ cut[l] \in 0 .. C
          BY <1>0, <1>1, <3>5, <3>6
    <3>8. cut[l - 1] < cut[l]
      <4> HIDE DEF l, Far
      <4>1. LaysPart(parts, comps, l, cut[l - 1], cut[l])
            BY <1>1, <3>6
      <4>2. cut[l - 1] \in 0 .. C
            BY <3>3, <3>6
      <4>3. parts[l] = DoubleStar => l = P
            BY <1>0, <1>2, <3>6 DEF OneDoubleStar, P
      <4>4. CASE parts[l] = DoubleStar
            BY <3>6, <4>1, <4>3, <4>4 DEF LaysPart, P
      <4>5. CASE parts[l] # DoubleStar
            BY <3>7, <4>1, <4>2, <4>5 DEF LaysPart
      <4> QED BY <4>4, <4>5
    <3> HIDE DEF Far
    <3> QED BY <1>0, <3>3, <3>6, <3>7, <3>8
  <2>2. P - k \in 0 .. P - k /\ P - (P - k) = k /\ cut[k] \in 0 .. C
        BY <1>0, <1>1
  <2>3. ~(cut[P - (P - k)] + (P - k) > C)
        BY <2>1, <2>2
  <2> HIDE DEF Far
  <2> QED BY <1>0, <2>2, <2>3
<1>3. ASSUME NEW k \in 0 + 1 .. P
      PROVE  Step(parts, comps, k, cut[k - 1], cut[k])
  <2>1. k \in 1 .. P /\ k - 1 \in 0 .. P /\ k \in 0 .. P
        BY <1>0
  <2>2. cut[k - 1] \in 0 .. C /\ cut[k] \in 0 .. C /\ LaysPart(parts, comps, k, cut[k - 1], cut[k])
        BY <1>1, <2>1
  <2> QED BY <1>2, <2>1, <2>2, StepLaysPart DEF P, C
<1>4. Walks(cut, parts, comps, 0, 0)
      BY <1>0, <1>1, <1>3 DEF Walks, P, C
<1> QED BY <1>4 DEF Walked

\* match_with_doublestar, of an anchored pattern, matches only what git does,
\* and with one ** all of it.
THEOREM DoubleStarAsGit ==
    ASSUME NEW parts, NEW comps, IsPath(parts), IsPath(comps)
    PROVE  /\ MatchWithDoubleStar(parts, comps, TRUE) => PathMatches(parts, comps)
           /\ OneDoubleStar(parts) /\ PathMatches(parts, comps) =>
                 MatchWithDoubleStar(parts, comps, TRUE)
<1>1. MatchWithDoubleStar(parts, comps, TRUE) <=> Walked(parts, comps, 0, 0)
  <2>1. Len(parts) \in Nat /\ Len(comps) \in Nat
        BY PathParts
  <2>2. MatchWithDoubleStar(parts, comps, TRUE) <=>
           \E start \in 0 .. (IF TRUE THEN 0 ELSE Len(comps)) : Walked(parts, comps, 0, start)
        BY <2>1, MatchIsWalk
  <2>3. 0 .. (IF TRUE THEN 0 ELSE Len(comps)) = {0}
        OBVIOUS
  <2> QED BY <2>2, <2>3
<1> QED BY <1>1, WalkIsSound, WalkIsComplete

----------------------------------------------------------------------------
(* Lines and rules.                                                        *)

LinesOK == lines \in Seq(Lines)

\* A .gitignore is a sequence of lines.
THEOREM GitignoreTypes == GitignoreSpec => []LinesOK
<1>1. GitignoreInit => LinesOK
      BY DEF GitignoreInit, LinesOK
<1>2. LinesOK /\ [AddLine]_lines => LinesOK'
  <2> SUFFICES ASSUME LinesOK, [AddLine]_lines PROVE LinesOK'
      OBVIOUS
  <2>1. CASE AddLine
    <3>1. PICK l \in Lines : lines' = Append(lines, l)
          BY <2>1 DEF AddLine
    <3> HIDE DEF Lines
    <3> QED BY <3>1 DEF LinesOK
  <2>2. CASE UNCHANGED lines
        BY <2>2 DEF LinesOK
  <2> QED BY <2>1, <2>2
<1> QED BY <1>1, <1>2, PTL DEF GitignoreSpec

\* A line that is a rule.
IsRule(l) ==
    /\ l # Blank /\ IsPath(l.parts) /\ l.parts # <<>>
    /\ l.bang \in BOOLEAN /\ l.lead \in BOOLEAN /\ l.trail \in BOOLEAN

LEMMA RulesOfLines ==
    ASSUME LinesOK
    PROVE  /\ DOMAIN Rules = {i \in DOMAIN lines : lines[i] # Blank /\ lines[i].parts # <<>>}
           /\ \A i \in DOMAIN Rules : Rules[i] = ParseLine(lines[i]) /\ IsRule(lines[i])
           /\ Len(lines) \in Nat /\ DOMAIN Rules \subseteq 1 .. Len(lines)
           /\ DOMAIN lines = 1 .. Len(lines)
<1>1. Len(lines) \in Nat /\ DOMAIN lines = 1 .. Len(lines)
      BY DEF LinesOK
<1>2. \A i \in DOMAIN lines : lines[i] \in Lines
      BY DEF LinesOK
<1>3. /\ DOMAIN Rules = {i \in DOMAIN lines : lines[i] # Blank /\ lines[i].parts # <<>>}
      /\ \A i \in DOMAIN Rules : Rules[i] = ParseLine(lines[i])
      BY DEF Rules
<1>4. ASSUME NEW i \in DOMAIN Rules PROVE IsRule(lines[i])
  <2>1. lines[i] \in Lines /\ lines[i] # Blank /\ lines[i].parts # <<>>
        BY <1>2, <1>3
  <2>2. lines[i] \in [bang : BOOLEAN, lead : BOOLEAN, parts : Patterns, trail : BOOLEAN]
        BY <2>1 DEF Lines
  <2> QED BY <2>1, <2>2, GitignoreAssumption DEF IsRule, IsPath
<1> QED BY <1>1, <1>3, <1>4

LEMMA PathsArePaths ==
    ASSUME NEW path \in Paths
    PROVE  IsPath(path) /\ path # <<>> /\ Len(path) \in Nat \ {0}
<1>1. IsPath(path) /\ path # <<>>
      BY GitignoreAssumption DEF IsPath
<1> QED BY <1>1 DEF IsPath

LEMMA MatchersAgreeOnLines ==
    ASSUME LinesOK
    PROVE  MatchersAgree
<1>1. ASSUME NEW i \in DOMAIN Rules, NEW path \in Paths
      PROVE  LET parts == Rules[i].parts IN
          /\ \A k \in DOMAIN parts, j \in DOMAIN path :
                ComponentMatch(parts[k], path[j]) = GlobMatches(parts[k], path[j])
          /\ MatchWithDoubleStar(parts, path, TRUE) => PathMatches(parts, path)
          /\ OneDoubleStar(parts) /\ PathMatches(parts, path) => MatchWithDoubleStar(parts, path, TRUE)
  <2> DEFINE parts == Rules[i].parts
  <2>1. IsPath(parts) /\ IsPath(path)
    <3>1. parts = lines[i].parts
          BY RulesOfLines DEF ParseLine
    <3> QED BY <3>1, RulesOfLines, PathsArePaths DEF IsRule
  <2> HIDE DEF parts
  <2>2. ASSUME NEW k \in DOMAIN parts, NEW j \in DOMAIN path
        PROVE  ComponentMatch(parts[k], path[j]) = GlobMatches(parts[k], path[j])
    <3>1. Len(parts[k]) \in Nat /\ DOMAIN parts[k] = 1 .. Len(parts[k]) /\ Len(path[j]) \in Nat
          BY <2>1, PathParts
    <3> QED BY <3>1, ComponentMatchIsGlob
  <2>3. /\ MatchWithDoubleStar(parts, path, TRUE) => PathMatches(parts, path)
        /\ OneDoubleStar(parts) /\ PathMatches(parts, path) => MatchWithDoubleStar(parts, path, TRUE)
        BY <2>1, DoubleStarAsGit
  <2> QED BY <2>2, <2>3 DEF parts
<1> QED BY <1>1 DEF MatchersAgree

\* The matchers of names and of paths agree with git's, of any lines and paths.
THEOREM MatchersAgreeAlways == GitignoreSpec => []MatchersAgree
<1>1. LinesOK => MatchersAgree
      BY MatchersAgreeOnLines
<1> QED BY <1>1, GitignoreTypes, PTL

----------------------------------------------------------------------------
(* A rule and its line against a path and what it is in.                   *)

Prefix(path, depth) == SubSeq(path, 1, depth)

LEMMA PrefixIsPath ==
    ASSUME NEW path, IsPath(path), NEW depth \in 1 .. Len(path)
    PROVE  /\ IsPath(Prefix(path, depth)) /\ Len(Prefix(path, depth)) = depth
           /\ \A k \in 1 .. depth : Prefix(path, depth)[k] = path[k]
<1>1. path \in Seq(Seq(STRING)) /\ Len(path) \in Nat
      BY DEF IsPath
<1> QED BY <1>1 DEF Prefix, IsPath

NoDoubleStar(parts) == \A k \in DOMAIN parts : parts[k] # DoubleStar

\* Without ** a pattern is laid part by part.
LEMMA PlainPathMatches ==
    ASSUME NEW parts, NEW comps, IsPath(parts), IsPath(comps), NoDoubleStar(parts)
    PROVE  PathMatches(parts, comps) <=>
              /\ Len(parts) = Len(comps)
              /\ \A k \in 1 .. Len(parts) : ComponentMatch(parts[k], comps[k])
<1>0. /\ Len(parts) \in Nat /\ Len(comps) \in Nat /\ DOMAIN parts = 1 .. Len(parts)
      /\ \A k \in 1 .. Len(parts) : Len(parts[k]) \in Nat /\ DOMAIN parts[k] = 1 .. Len(parts[k])
      /\ \A k \in 1 .. Len(comps) : Len(comps[k]) \in Nat
      BY PathParts
<1>1. ASSUME Len(parts) = Len(comps), \A k \in 1 .. Len(parts) : ComponentMatch(parts[k], comps[k])
      PROVE  PathMatches(parts, comps)
  <2> DEFINE cut == [k \in 0 .. Len(parts) |-> k]
  <2>1. cut \in [0 .. Len(parts) -> 0 .. Len(comps)] /\ cut[0] = 0 /\ cut[Len(parts)] = Len(comps)
        BY <1>0, <1>1
  <2>2. ASSUME NEW k \in 1 .. Len(parts) PROVE LaysPart(parts, comps, k, cut[k - 1], cut[k])
    <3>1. cut[k - 1] = k - 1 /\ cut[k] = k /\ k = (k - 1) + 1
          BY <1>0
    <3>2. GlobMatches(parts[k], comps[k])
          BY <1>0, <1>1, ComponentMatchIsGlob
    <3> QED BY <1>0, <3>1, <3>2 DEF LaysPart, NoDoubleStar
  <2> HIDE DEF cut
  <2> QED BY <2>1, <2>2, PathMatchesLaid
<1>2. ASSUME PathMatches(parts, comps)
      PROVE  /\ Len(parts) = Len(comps)
             /\ \A k \in 1 .. Len(parts) : ComponentMatch(parts[k], comps[k])
  <2>1. PICK cut \in [0 .. Len(parts) -> 0 .. Len(comps)] :
             /\ cut[0] = 0 /\ cut[Len(parts)] = Len(comps)
             /\ \A k \in 1 .. Len(parts) : LaysPart(parts, comps, k, cut[k - 1], cut[k])
        BY <1>2, PathMatchesLaid
  <2>2. \A k \in 1 .. Len(parts) :
           cut[k] = cut[k - 1] + 1 /\ GlobMatches(parts[k], comps[cut[k]])
        BY <1>0, <2>1 DEF LaysPart, NoDoubleStar
  <2> DEFINE Odd == {k \in 0 .. Len(parts) : cut[k] # k}
  <2>3. Odd = {}
    <3> SUFFICES ASSUME Odd # {} PROVE FALSE
        OBVIOUS
    <3>1. Odd \subseteq Nat
          OBVIOUS
    <3>2. PICK k \in Odd : \A m \in Odd : k <= m
      <4> HIDE DEF Odd
      <4> QED BY <3>1, LeastNumber
    <3>3. k \in 0 .. Len(parts) /\ cut[k] # k
          BY <3>2
    <3>4. k \in 1 .. Len(parts) /\ k - 1 \in 0 .. Len(parts) /\ k - 1 < k
          BY <1>0, <2>1, <3>3
    <3>5. k - 1 \notin Odd
      <4> HIDE DEF Odd
      <4> QED BY <3>1, <3>2, <3>4
    <3>6. cut[k - 1] = k - 1
          BY <3>4, <3>5
    <3> QED BY <2>2, <3>3, <3>4, <3>6
  <2>4. \A k \in 0 .. Len(parts) : cut[k] = k
        BY <2>3
  <2>5. Len(parts) = Len(comps)
        BY <1>0, <2>1, <2>4
  <2>6. ASSUME NEW k \in 1 .. Len(parts) PROVE ComponentMatch(parts[k], comps[k])
    <3>1. cut[k] = k /\ GlobMatches(parts[k], comps[k])
          BY <1>0, <2>2, <2>4
    <3> QED BY <1>0, <2>5, <3>1, ComponentMatchIsGlob
  <2> QED BY <2>5, <2>6
<1> QED BY <1>1, <1>2

LEMMA RuleParts ==
    ASSUME NEW l, IsRule(l)
    PROVE  /\ ParseLine(l).parts = l.parts
           /\ (ParseLine(l).anchored <=> l.lead \/ (Len(l.parts) > 1 /\ l.parts[1] # DoubleStar))
           /\ ParseLine(l).anchored \in BOOLEAN
           /\ Len(l.parts) \in Nat \ {0} /\ DOMAIN l.parts = 1 .. Len(l.parts)
<1>1. Len(l.parts) \in Nat \ {0} /\ DOMAIN l.parts = 1 .. Len(l.parts)
      BY DEF IsRule, IsPath
<1> QED BY <1>1 DEF ParseLine

\* ** alone matches all.
LEMMA OnlyDoubleStar ==
    ASSUME NEW parts, NEW comps, IsPath(parts), IsPath(comps), Len(parts) = 1, parts[1] = DoubleStar
    PROVE  Walked(parts, comps, 0, 0)
<1>1. Len(comps) \in Nat
      BY PathParts
<1>2. Walked(parts, comps, 1, Len(comps))
  <2>1. Len(comps) \in 0 .. Len(comps) /\ Len(parts) \in Nat
        BY <1>1
  <2>2. Walked(parts, comps, Len(parts), Len(comps))
        BY <1>1, <2>1, WalkedEnd
  <2> QED BY <2>2
<1>3. Step(parts, comps, 1, 0, Len(comps))
      BY <1>1 DEF Step, Ends
<1>4. 0 \in 0 .. Len(parts) - 1 /\ 0 \in 0 .. Len(comps) /\ Len(comps) \in 0 .. Len(comps) /\ 0 + 1 = 1
      BY <1>1
<1>5. \E end \in 0 .. Len(comps) : Step(parts, comps, 1, 0, end) /\ Walked(parts, comps, 1, end)
      BY <1>2, <1>3, <1>4
<1>6. Len(parts) \in Nat
      OBVIOUS
<1> QED BY <1>1, <1>4, <1>5, <1>6, WalkedStep

\* A walk that may start anywhere as its first part is ** may start at 0.
LEMMA WalkFromStart ==
    ASSUME NEW parts, NEW comps, IsPath(parts), IsPath(comps), Len(parts) > 1, parts[1] = DoubleStar,
           NEW start \in 0 .. Len(comps), Walked(parts, comps, 0, start)
    PROVE  Walked(parts, comps, 0, 0)
<1>1. Len(comps) \in Nat /\ Len(parts) \in Nat
      BY PathParts
<1>2. 0 \in 0 .. Len(parts) - 1 /\ 0 \in 0 .. Len(comps) /\ 0 + 1 = 1
      BY <1>1
<1>3. PICK end \in 0 .. Len(comps) :
              Step(parts, comps, 1, start, end) /\ Walked(parts, comps, 1, end)
      BY <1>1, <1>2, WalkedStep
<1>4. Step(parts, comps, 1, 0, end)
      BY <1>1, <1>3 DEF Step, Ends
<1> QED BY <1>1, <1>2, <1>3, <1>4, WalkedStep

LEMMA MatchFromStart ==
    ASSUME NEW parts, NEW comps, IsPath(parts), IsPath(comps), Walked(parts, comps, 0, 0),
           NEW anchored \in BOOLEAN
    PROVE  MatchWithDoubleStar(parts, comps, anchored)
<1>1. Len(comps) \in Nat /\ Len(parts) \in Nat
      BY PathParts
<1>2. 0 \in 0 .. (IF anchored THEN 0 ELSE Len(comps))
      BY <1>1
<1> QED BY <1>1, <1>2, MatchIsWalk

LEMMA NameIsPath ==
    ASSUME NEW path, IsPath(path), NEW depth \in 1 .. Len(path)
    PROVE  LET comps == Prefix(path, depth)
               name  == <<comps[Len(comps)]>>
           IN  IsPath(name) /\ Len(name) = 1 /\ name[1] = path[depth]
<1>1. /\ Len(Prefix(path, depth)) = depth /\ Prefix(path, depth)[depth] = path[depth]
      /\ path[depth] \in Seq(STRING)
      BY PrefixIsPath DEF IsPath
<1> QED BY <1>1 DEF IsPath

\* What git matches of a directory that a path is in, or of the path, the
\* matcher matches; a pattern without ** also of all that is below.
LEMMA CodeFollowsGit ==
    ASSUME NEW l, IsRule(l), NEW path, IsPath(path), NEW e \in 1 .. Len(path), NEW d \in e .. Len(path),
           NEW directory \in BOOLEAN, GitMatches(l, Prefix(path, e), directory)
    PROVE  /\ NoDoubleStar(l.parts) => PathMatch(ParseLine(l), Prefix(path, d))
           /\ OneDoubleStar(l.parts) /\ ~NoDoubleStar(l.parts) => PathMatch(ParseLine(l), Prefix(path, e))
<1> DEFINE parts == l.parts
           comps == Prefix(path, e)
           below == Prefix(path, d)
           name  == <<comps[Len(comps)]>>
           anchored == ParseLine(l).anchored
<1>0. Len(path) \in Nat /\ d \in 1 .. Len(path)
      BY PathParts
<1>1. /\ IsPath(comps) /\ Len(comps) = e /\ \A k \in 1 .. e : comps[k] = path[k]
      /\ IsPath(below) /\ Len(below) = d /\ \A k \in 1 .. d : below[k] = path[k]
      /\ IsPath(name) /\ Len(name) = 1 /\ name[1] = path[e]
      BY <1>0, PrefixIsPath, NameIsPath
<1>2. /\ ParseLine(l).parts = parts /\ IsPath(parts)
      /\ (anchored <=> l.lead \/ (Len(parts) > 1 /\ parts[1] # DoubleStar)) /\ anchored \in BOOLEAN
      /\ Len(parts) \in Nat \ {0} /\ DOMAIN parts = 1 .. Len(parts)
      BY RuleParts DEF IsRule
<1>3. IF l.lead \/ Len(parts) > 1 THEN PathMatches(parts, comps) ELSE PathMatches(parts, name)
      BY DEF GitMatches
<1> HIDE DEF parts, comps, below, name, anchored
<1>4. ASSUME NoDoubleStar(parts) PROVE PathMatch(ParseLine(l), below)
  <2>0. ~(\E i \in DOMAIN parts : parts[i] = DoubleStar)
        BY <1>4 DEF NoDoubleStar
  <2>1. CASE l.lead \/ Len(parts) > 1
    <3>1. Len(parts) = e /\ \A k \in 1 .. Len(parts) : ComponentMatch(parts[k], comps[k])
          BY <1>1, <1>2, <1>3, <1>4, <2>1, PlainPathMatches
    <3>2. CASE Len(parts) = 1
      <4>1. l.lead /\ 1 \in 1 .. (IF anchored THEN 1 ELSE Len(below)) /\ ComponentMatch(parts[1], below[1])
            BY <1>0, <1>1, <1>2, <2>1, <3>1, <3>2
      <4> QED BY <1>2, <2>0, <3>2, <4>1 DEF PathMatch, anchored
    <3>3. CASE Len(parts) # 1
      <4>1. Len(parts) <= Len(below) /\ \A k \in DOMAIN parts : ComponentMatch(parts[k], below[k])
            BY <1>0, <1>1, <1>2, <3>1
      <4> QED BY <1>2, <2>0, <3>3, <4>1 DEF PathMatch
    <3> QED BY <3>2, <3>3
  <2>2. CASE ~(l.lead \/ Len(parts) > 1)
    <3>1. Len(parts) = 1 /\ ~anchored /\ PathMatches(parts, name)
      <4>1. Len(parts) = 1 /\ ~l.lead
            BY <1>2, <2>2
      <4>2. ~anchored
            BY <1>2, <4>1
      <4> QED BY <1>3, <2>2, <4>1, <4>2
    <3>2. ComponentMatch(parts[1], name[1])
      <4>1. \A k \in 1 .. Len(parts) : ComponentMatch(parts[k], name[k])
            BY <1>1, <1>2, <1>4, <3>1, PlainPathMatches
      <4> QED BY <3>1, <4>1
    <3>3. e \in 1 .. (IF anchored THEN 1 ELSE Len(below)) /\ ComponentMatch(parts[1], below[e])
          BY <1>0, <1>1, <3>1, <3>2
    <3> QED BY <1>2, <2>0, <3>1, <3>3 DEF PathMatch, anchored
  <2> QED BY <2>1, <2>2
<1>5. ASSUME OneDoubleStar(parts), ~NoDoubleStar(parts) PROVE PathMatch(ParseLine(l), comps)
  <2>0. \E i \in DOMAIN parts : parts[i] = DoubleStar
        BY <1>5 DEF NoDoubleStar
  <2>1. CASE l.lead \/ Len(parts) > 1
    <3>1. Walked(parts, comps, 0, 0)
          BY <1>1, <1>2, <1>3, <1>5, <2>1, WalkIsComplete
    <3>2. MatchWithDoubleStar(parts, comps, anchored)
          BY <1>1, <1>2, <3>1, MatchFromStart
    <3> QED BY <1>2, <2>0, <3>2 DEF PathMatch, anchored
  <2>2. CASE ~(l.lead \/ Len(parts) > 1)
    <3>1. Len(parts) = 1 /\ parts[1] = DoubleStar
          BY <1>2, <2>0, <2>2
    <3>2. Walked(parts, comps, 0, 0)
          BY <1>1, <1>2, <3>1, OnlyDoubleStar
    <3>3. MatchWithDoubleStar(parts, comps, anchored)
          BY <1>1, <1>2, <3>2, MatchFromStart
    <3> QED BY <1>2, <2>0, <3>3 DEF PathMatch, anchored
  <2> QED BY <2>1, <2>2
<1> QED BY <1>4, <1>5 DEF parts, comps, below

\* What the matcher matches git matches, as a directory that the path is in,
\* or as the path if that is one.
LEMMA GitFollowsCode ==
    ASSUME NEW l, IsRule(l), NEW path, IsPath(path), NEW d \in 1 .. Len(path),
           PathMatch(ParseLine(l), Prefix(path, d))
    PROVE  \E e \in 1 .. d : GitMatches(l, Prefix(path, e), TRUE)
<1> DEFINE parts == l.parts
           comps == Prefix(path, d)
           anchored == ParseLine(l).anchored
<1>0. Len(path) \in Nat /\ \A e \in 1 .. d : e \in 1 .. Len(path)
      BY PathParts
<1>1. IsPath(comps) /\ Len(comps) = d /\ \A k \in 1 .. d : comps[k] = path[k]
      BY PrefixIsPath
<1>2. /\ ParseLine(l).parts = parts /\ IsPath(parts)
      /\ (anchored <=> l.lead \/ (Len(parts) > 1 /\ parts[1] # DoubleStar)) /\ anchored \in BOOLEAN
      /\ Len(parts) \in Nat \ {0} /\ DOMAIN parts = 1 .. Len(parts)
      BY RuleParts DEF IsRule
<1> DEFINE name(e) == <<Prefix(path, e)[Len(Prefix(path, e))]>>
<1>3. \A e \in 1 .. d : (IF l.lead \/ Len(parts) > 1 THEN PathMatches(parts, Prefix(path, e))
                         ELSE PathMatches(parts, name(e)))
                        => GitMatches(l, Prefix(path, e), TRUE)
      BY DEF GitMatches, IsRule
<1>4. \A e \in 1 .. d : /\ IsPath(Prefix(path, e)) /\ Len(Prefix(path, e)) = e
                        /\ \A k \in 1 .. e : Prefix(path, e)[k] = path[k]
                        /\ IsPath(name(e)) /\ Len(name(e)) = 1 /\ name(e)[1] = path[e]
      BY <1>0, PrefixIsPath, NameIsPath
<1> HIDE DEF parts, anchored, name
<1>5. CASE NoDoubleStar(parts)
  <2>0. ~(\E i \in DOMAIN parts : parts[i] = DoubleStar)
        BY <1>5 DEF NoDoubleStar
  <2>1. CASE Len(parts) = 1
    <3>1. PICK i \in 1 .. (IF anchored THEN 1 ELSE Len(comps)) : ComponentMatch(parts[1], comps[i])
          BY <1>2, <2>0, <2>1 DEF PathMatch, anchored
    <3>2. i \in 1 .. d /\ (anchored => i = 1) /\ (anchored <=> l.lead) /\ ComponentMatch(parts[1], path[i])
      <4>1. (anchored <=> l.lead) /\ (anchored => i = 1)
            BY <1>2, <2>1, <3>1
      <4>2. i \in 1 .. d
        <5>1. CASE anchored
              BY <1>0, <3>1, <5>1
        <5>2. CASE ~anchored
              BY <1>1, <3>1, <5>2
        <5> QED BY <5>1, <5>2
      <4> QED BY <1>1, <3>1, <4>1, <4>2
    <3>3. CASE l.lead
      <4>1. PathMatches(parts, Prefix(path, i))
        <5>1. i = 1 /\ IsPath(Prefix(path, i)) /\ Len(Prefix(path, i)) = Len(parts)
              BY <1>4, <2>1, <3>2, <3>3
        <5>2. \A k \in 1 .. Len(parts) : ComponentMatch(parts[k], Prefix(path, i)[k])
              BY <1>4, <2>1, <3>2, <5>1
        <5> QED BY <1>2, <1>5, <5>1, <5>2, PlainPathMatches
      <4> QED BY <1>3, <3>2, <3>3, <4>1
    <3>4. CASE ~l.lead
      <4>1. PathMatches(parts, name(i))
        <5>1. \A k \in 1 .. Len(parts) : ComponentMatch(parts[k], name(i)[k])
              BY <1>4, <2>1, <3>2
        <5> QED BY <1>2, <1>4, <1>5, <2>1, <3>2, <5>1, PlainPathMatches
      <4>2. ~(l.lead \/ Len(parts) > 1)
            BY <2>1, <3>4
      <4>3. GitMatches(l, Prefix(path, i), TRUE)
            BY <1>3, <3>2, <4>1, <4>2
      <4> QED BY <3>2, <4>3
    <3> QED BY <3>3, <3>4
  <2>2. CASE Len(parts) # 1
    <3>1. Len(parts) <= d /\ \A k \in 1 .. Len(parts) : ComponentMatch(parts[k], comps[k])
          BY <1>1, <1>2, <2>0, <2>2 DEF PathMatch
    <3>2. Len(parts) \in 1 .. d /\ Len(parts) > 1
          BY <1>2, <2>2, <3>1
    <3>3. \A k \in 1 .. Len(parts) : ComponentMatch(parts[k], Prefix(path, Len(parts))[k])
          BY <1>0, <1>1, <1>4, <3>1, <3>2
    <3>4. PathMatches(parts, Prefix(path, Len(parts)))
          BY <1>2, <1>4, <1>5, <3>2, <3>3, PlainPathMatches
    <3> QED BY <1>3, <3>2, <3>4
  <2> QED BY <2>1, <2>2
<1>6. CASE ~NoDoubleStar(parts)
  <2>0. \E i \in DOMAIN parts : parts[i] = DoubleStar
        BY <1>6 DEF NoDoubleStar
  <2>1. d \in 1 .. d
        BY <1>0
  <2>2. MatchWithDoubleStar(parts, comps, anchored)
        BY <1>2, <2>0 DEF PathMatch, anchored
  <2>3. PICK start \in 0 .. (IF anchored THEN 0 ELSE Len(comps)) : Walked(parts, comps, 0, start)
        BY <1>1, <1>2, <2>2, MatchIsWalk, PathParts
  <2>4. CASE l.lead \/ Len(parts) > 1
    <3>1. Walked(parts, comps, 0, 0)
      <4>1. CASE anchored
            BY <2>3, <4>1
      <4>2. CASE ~anchored
        <5>1. Len(parts) > 1 /\ parts[1] = DoubleStar /\ start \in 0 .. Len(comps)
              BY <1>2, <2>3, <2>4, <4>2
        <5> QED BY <1>1, <1>2, <2>3, <5>1, WalkFromStart
      <4> QED BY <4>1, <4>2
    <3>2. PathMatches(parts, comps)
          BY <1>1, <1>2, <3>1, WalkIsSound
    <3> QED BY <1>3, <2>1, <2>4, <3>2
  <2>5. CASE ~(l.lead \/ Len(parts) > 1)
    <3>1. Len(parts) = 1 /\ parts[1] = DoubleStar
          BY <1>2, <2>0, <2>5
    <3>2. PathMatches(parts, name(d))
          BY <1>2, <1>4, <2>1, <3>1, OnlyDoubleStar, WalkIsSound
    <3> QED BY <1>3, <2>1, <2>5, <3>2
  <2> QED BY <2>4, <2>5
<1> QED BY <1>5, <1>6

----------------------------------------------------------------------------
(* The last line that matches.                                             *)

LEMMA GreatestNumber ==
    ASSUME NEW n \in Nat, NEW T, T \subseteq 1 .. n, T # {}
    PROVE  Max(T) \in T /\ \A m \in T : m <= Max(T)
<1> DEFINE D == {n - m : m \in T}
<1>1. D \subseteq Nat /\ D # {}
  <2>1. PICK t \in T : TRUE
        OBVIOUS
  <2>2. n - t \in D
        OBVIOUS
  <2>3. \A m \in T : n - m \in Nat
        OBVIOUS
  <2> QED BY <2>2, <2>3
<1>2. PICK d \in D : \A e \in D : d <= e
  <2> HIDE DEF D
  <2> QED BY <1>1, LeastNumber
<1>3. PICK x \in T : d = n - x
      BY <1>2
<1>4. \A m \in T : x >= m
  <2> TAKE m \in T
  <2>1. n - m \in D /\ m \in Nat /\ x \in Nat
        BY <1>3
  <2>2. n - x <= n - m
        BY <1>2, <1>3, <2>1
  <2> QED BY <2>1, <2>2
<1>5. Max(T) = CHOOSE y \in T : \A m \in T : y >= m
      BY DEF Max
<1>6. Max(T) \in T /\ \A m \in T : Max(T) >= m
      BY <1>3, <1>4, <1>5
<1> QED BY <1>6

\* The lines that git tries and the rules that the matcher does.
GitHits(path, e, directory) ==
    {i \in DOMAIN lines : GitMatches(lines[i], SubSeq(path, 1, e), e < Len(path) \/ directory)}
Hits(dir_only, comps) ==
    {i \in DOMAIN Rules : Rules[i].dir_only = dir_only /\ PathMatch(Rules[i], comps)}

LEMMA HitsBounded ==
    ASSUME LinesOK, NEW path, NEW e, NEW directory, NEW dir_only, NEW comps
    PROVE  /\ Hits(dir_only, comps) \subseteq 1 .. Len(lines)
           /\ Hits(dir_only, comps) \subseteq DOMAIN Rules
           /\ GitHits(path, e, directory) \subseteq DOMAIN Rules
           /\ GitHits(path, e, directory) \subseteq 1 .. Len(lines)
<1>1. GitHits(path, e, directory) \subseteq DOMAIN Rules
      BY RulesOfLines DEF GitHits, GitMatches
<1> QED BY <1>1, RulesOfLines DEF Hits

\* A rule that decides at some depth is, with its line, the last word of git at
\* some depth, too.
LEMMA DecidedByGit ==
    ASSUME LinesOK, ~FallsShort, NEW path \in Paths, NEW d \in DOMAIN path,
           NEW dir_only \in BOOLEAN, Decides(Rules, dir_only, SubSeq(path, 1, d))
    PROVE  GitIgnores(path, TRUE)
<1> DEFINE comps == SubSeq(path, 1, d)
           i == Max(Hits(dir_only, comps))
<1>0. /\ Len(lines) \in Nat /\ DOMAIN lines = 1 .. Len(lines) /\ DOMAIN Rules \subseteq 1 .. Len(lines)
      /\ IsPath(path) /\ DOMAIN path = 1 .. Len(path) /\ Len(path) \in Nat
      BY RulesOfLines, PathsArePaths, PathParts
<1>1. /\ i \in DOMAIN Rules /\ Rules[i].dir_only = dir_only /\ PathMatch(Rules[i], comps)
      /\ ~Rules[i].negate /\ \A j \in Hits(dir_only, comps) : j <= i
  <2>1. Hits(dir_only, comps) # {} /\ ~Rules[i].negate
        BY DEF Decides, Hits
  <2>2. Hits(dir_only, comps) \subseteq 1 .. Len(lines)
        BY HitsBounded
  <2>3. i \in Hits(dir_only, comps) /\ \A j \in Hits(dir_only, comps) : j <= i
    <3> HIDE DEF comps
    <3> QED BY <1>0, <2>1, <2>2, GreatestNumber
  <2> HIDE DEF comps, i
  <2> QED BY <2>1, <2>3 DEF Hits
<1> HIDE DEF i, comps
<1>2. IsRule(lines[i]) /\ Rules[i] = ParseLine(lines[i])
      BY <1>1, RulesOfLines
<1>3. PICK e \in 1 .. d : GitMatches(lines[i], Prefix(path, e), TRUE)
      BY <1>0, <1>1, <1>2, GitFollowsCode DEF comps, Prefix
<1> DEFINE git == GitHits(path, e, TRUE)
           m == Max(git)
<1>4. e \in DOMAIN path /\ d \in e .. Len(path) /\ e \in 1 .. Len(path)
      BY <1>0
<1>5. i \in git
      BY <1>0, <1>1, <1>3 DEF GitHits, Prefix
<1>6. git \subseteq 1 .. Len(lines) /\ git \subseteq DOMAIN Rules
      BY HitsBounded
<1>7. m \in git /\ i <= m
  <2> HIDE DEF git
  <2> QED BY <1>0, <1>5, <1>6, GreatestNumber
<1>8. /\ m \in DOMAIN Rules /\ m \in DOMAIN lines /\ GitMatches(lines[m], Prefix(path, e), TRUE)
      /\ IsRule(lines[m]) /\ Rules[m] = ParseLine(lines[m])
  <2>1. m \in DOMAIN Rules
        BY <1>6, <1>7
  <2>2. m \in DOMAIN lines /\ GitMatches(lines[m], Prefix(path, e), TRUE)
        BY <1>7 DEF GitHits, Prefix
  <2> HIDE DEF m
  <2> QED BY <2>1, <2>2, RulesOfLines
<1>9. ~lines[m].bang
  <2>0. SUFFICES ASSUME lines[m].bang PROVE FALSE
      OBVIOUS
  <2> HIDE DEF m, git
  <2>1. Rules[m].negate /\ ~Rules[i].negate
        BY <1>1, <1>8, <2>0 DEF ParseLine
  <2>2. i < m
        BY <1>0, <1>1, <1>7, <1>8, <2>1
  <2>3. Rules[i].dir_only = Rules[m].dir_only /\ DoubleStar \notin Range(Rules[m].parts)
        BY <1>1, <1>8, <2>1, <2>2 DEF FallsShort
  <2>4. NoDoubleStar(lines[m].parts)
    <3>1. Rules[m].parts = lines[m].parts
          BY <1>8 DEF ParseLine
    <3> QED BY <2>3, <3>1 DEF NoDoubleStar, Range
  <2>5. PathMatch(Rules[m], comps)
        BY <1>0, <1>4, <1>8, <2>4, CodeFollowsGit DEF comps, Prefix
  <2>6. m \in Hits(dir_only, comps)
        BY <1>1, <1>8, <2>3, <2>5 DEF Hits
  <2>7. m <= i
        BY <1>1, <2>6
  <2> QED BY <1>0, <1>1, <1>8, <2>2, <2>7
<1> QED BY <1>4, <1>5, <1>9 DEF GitIgnores, GitHits

LEMMA HidesNoMoreOfLines ==
    ASSUME LinesOK
    PROVE  HidesNoMore
<1> SUFFICES ASSUME ~FallsShort, NEW path \in Paths, IsIgnored(Rules, path)
             PROVE  GitIgnores(path, TRUE)
    BY DEF HidesNoMore
<1>1. CASE \E depth \in DOMAIN path : Decides(Rules, TRUE, SubSeq(path, 1, depth))
      BY <1>1, DecidedByGit
<1>2. CASE Decides(Rules, FALSE, path)
  <2>1. Len(path) \in DOMAIN path /\ SubSeq(path, 1, Len(path)) = path
        BY PathsArePaths DEF IsPath
  <2> QED BY <1>2, <2>1, DecidedByGit
<1> QED BY <1>1, <1>2 DEF IsIgnored

\* Where no ! line undoes a line that is tried apart or reaches further,
\* nothing is dropped that git shows: of any .gitignore and any path.
THEOREM HidesNoMoreAlways == GitignoreSpec => []HidesNoMore
<1>1. LinesOK => HidesNoMore
      BY HidesNoMoreOfLines
<1> QED BY <1>1, GitignoreTypes, PTL

LEMMA DropsBuildsOfLines ==
    ASSUME LinesOK
    PROVE  DropsBuilds
<1> SUFFICES ASSUME \A i \in DOMAIN Rules :
                       /\ ~Rules[i].negate /\ OneDoubleStar(Rules[i].parts)
                       /\ Rules[i].dir_only \/ \A j \in DOMAIN Rules[i].parts : Rules[i].parts[j] # DoubleStar,
                    NEW path \in Paths, GitIgnores(path, FALSE)
             PROVE  IsIgnored(Rules, path)
    BY DEF DropsBuilds
<1>0. /\ Len(lines) \in Nat /\ DOMAIN lines = 1 .. Len(lines) /\ DOMAIN Rules \subseteq 1 .. Len(lines)
      /\ IsPath(path) /\ DOMAIN path = 1 .. Len(path) /\ Len(path) \in Nat \ {0}
      BY RulesOfLines, PathsArePaths, PathParts
<1>1. PICK e \in DOMAIN path : GitHits(path, e, FALSE) # {}
      BY DEF GitIgnores, GitHits
<1>2. PICK i \in GitHits(path, e, FALSE) : TRUE
      BY <1>1
<1>3. /\ i \in DOMAIN Rules /\ GitMatches(lines[i], Prefix(path, e), e < Len(path) \/ FALSE)
      /\ IsRule(lines[i]) /\ Rules[i] = ParseLine(lines[i])
  <2>1. i \in DOMAIN Rules
        BY <1>2, HitsBounded
  <2>2. GitMatches(lines[i], Prefix(path, e), e < Len(path) \/ FALSE)
        BY <1>2 DEF GitHits, Prefix
  <2> QED BY <2>1, <2>2, RulesOfLines
<1>4. /\ Rules[i].dir_only = lines[i].trail /\ Rules[i].parts = lines[i].parts
      /\ lines[i].trail \in BOOLEAN /\ OneDoubleStar(lines[i].parts)
      /\ ~lines[i].trail => NoDoubleStar(lines[i].parts)
      BY <1>3 DEF ParseLine, IsRule, NoDoubleStar
<1>5. /\ e \in 1 .. Len(path) /\ e \in e .. Len(path) /\ Len(path) \in e .. Len(path)
      /\ (e < Len(path) \/ FALSE) \in BOOLEAN /\ Prefix(path, Len(path)) = path
  <2>1. Prefix(path, Len(path)) = path
        BY <1>0 DEF IsPath, Prefix
  <2> QED BY <1>0, <2>1
<1>6. ASSUME NEW dir_only \in BOOLEAN, NEW comps, i \in Hits(dir_only, comps)
      PROVE  Decides(Rules, dir_only, comps)
  <2>1. Max(Hits(dir_only, comps)) \in DOMAIN Rules
    <3>1. Hits(dir_only, comps) \subseteq 1 .. Len(lines) /\ Hits(dir_only, comps) \subseteq DOMAIN Rules
          BY HitsBounded
    <3> QED BY <1>0, <1>6, <3>1, GreatestNumber
  <2>2. ~Rules[Max(Hits(dir_only, comps))].negate
        BY <2>1
  <2> QED BY <1>6, <2>2 DEF Decides, Hits
<1>7. CASE lines[i].trail
  <2>1. PathMatch(Rules[i], Prefix(path, e))
        BY <1>0, <1>3, <1>4, <1>5, CodeFollowsGit
  <2>2. i \in Hits(TRUE, SubSeq(path, 1, e))
        BY <1>3, <1>4, <1>7, <2>1 DEF Hits, Prefix
  <2>3. Decides(Rules, TRUE, SubSeq(path, 1, e))
        BY <1>6, <2>2
  <2> QED BY <2>3 DEF IsIgnored
<1>8. CASE ~lines[i].trail
  <2>1. PathMatch(Rules[i], Prefix(path, Len(path)))
        BY <1>0, <1>3, <1>4, <1>5, <1>8, CodeFollowsGit
  <2>2. i \in Hits(FALSE, path)
        BY <1>3, <1>4, <1>5, <1>8, <2>1 DEF Hits
  <2> QED BY <1>6, <2>2 DEF IsIgnored
<1> QED BY <1>7, <1>8

\* Where no line starts with !, has ** before another or ends in one, all that
\* git ignores is dropped: of any .gitignore and any path.
THEOREM DropsBuildsAlways == GitignoreSpec => []DropsBuilds
<1>1. LinesOK => DropsBuilds
      BY DropsBuildsOfLines
<1> QED BY <1>1, GitignoreTypes, PTL
=============================================================================
