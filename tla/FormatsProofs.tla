----------------------------- MODULE FormatsProofs -----------------------------
(***************************************************************************)
(* Proofs about formats: that the text replacement of $all does what $all  *)
(* means, of any formats, modules and tables, and what follows for the     *)
(* fork build and the timings report.                                      *)
(***************************************************************************)
EXTENDS Formats, SequenceTheorems, FunctionTheorems, FiniteSetTheorems, WellFoundedInduction, TLAPS

\* What holds at i where it does at all later places holds at every place.
LEMMA Backwards ==
    ASSUME NEW n \in Nat, NEW T,
           \A i \in 1 .. n + 1 : (\A j \in i + 1 .. n + 1 : j \in T) => i \in T
    PROVE  \A i \in 1 .. n + 1 : i \in T
<1> DEFINE R == OpToRel(<, Nat)
           Odd == {k \in 0 .. n : (n + 1) - k \notin T}
<1>1. IsWellFoundedOn(R, Nat)
      BY NatLessThanWellFounded
<1>2. \A k, m \in Nat : k < m => <<k, m>> \in R
      BY DEF OpToRel
<1> HIDE DEF R
<1>3. SUFFICES ASSUME Odd # {} PROVE FALSE
  <2>1. \A i \in 1 .. n + 1 : (n + 1) - i \in 0 .. n /\ (n + 1) - ((n + 1) - i) = i
        OBVIOUS
  <2> QED BY <2>1
<1>4. PICK k \in Odd : \A m \in Odd : <<m, k>> \notin R
  <2>1. Odd \subseteq Nat
        OBVIOUS
  <2> HIDE DEF Odd
  <2> QED BY <1>1, <1>3, <2>1, WFMin
<1> DEFINE i == (n + 1) - k
<1>5. \A j \in i + 1 .. n + 1 : j \in T
  <2> SUFFICES ASSUME NEW j \in i + 1 .. n + 1, j \notin T PROVE FALSE
      OBVIOUS
  <2>1. PICK m : m = (n + 1) - j
        OBVIOUS
  <2>2. m \in 0 .. n /\ (n + 1) - m = j /\ m < k /\ m \in Nat /\ k \in Nat
        BY <1>4, <2>1
  <2>3. m \in Odd
        BY <2>2
  <2> HIDE DEF Odd
  <2> QED BY <1>2, <1>4, <2>2, <2>3
<1>6. i \in 1 .. n + 1 /\ i \notin T
      BY <1>4
<1> HIDE DEF i, Odd
<1> QED BY <1>5, <1>6

\* The end of a text, and a text in two parts.
LEMMA PartOf ==
    ASSUME NEW S, NEW f \in Seq(S), NEW a \in Nat, NEW b \in 0 .. Len(f), a <= b
    PROVE  /\ SubSeq(f, a + 1, b) \in Seq(S) /\ Len(SubSeq(f, a + 1, b)) = b - a
           /\ \A i \in 1 .. b - a : SubSeq(f, a + 1, b)[i] = f[a + i]
<1>1. SubSeq(f, a + 1, b) = [i \in 1 .. b - a |-> f[a + i]]
  <2>1. SubSeq(f, a + 1, b) = [i \in 1 .. b - (a + 1) + 1 |-> f[i + (a + 1) - 1]]
        OBVIOUS
  <2> QED BY <2>1
<1>2. \A i \in 1 .. b - a : f[a + i] \in S
      OBVIOUS
<1> QED BY <1>1, <1>2

LEMMA Joined ==
    ASSUME NEW S, NEW p \in Seq(S), NEW s \in Seq(S)
    PROVE  /\ p \o s \in Seq(S) /\ Len(p \o s) = Len(p) + Len(s)
           /\ DOMAIN (p \o s) = 1 .. Len(p) + Len(s)
           /\ \A i \in 1 .. Len(p) : (p \o s)[i] = p[i]
           /\ \A i \in 1 .. Len(s) : (p \o s)[Len(p) + i] = s[i]
           /\ \A i \in Len(p) + 1 .. Len(p) + Len(s) :
                 i - Len(p) \in 1 .. Len(s) /\ (p \o s)[i] = s[i - Len(p)]
OBVIOUS

\* The words and marks of formats.  They are strings, but the provers do not
\* take a string for a member of STRING.
Lexemes == STRING \cup Marks \cup {"all"}

----------------------------------------------------------------------------
(* Names by their places.                                                  *)

\* x stands after i, and is words.
Spells(f, i, x) ==
    /\ x # <<>>
    /\ \A j \in 1 .. Len(x) : i + j \in 1 .. Len(f) /\ f[i + j] = x[j] /\ x[j] \notin Marks

\* At k there is the name x, in braces or not.
NameAt(f, braced, k, x) ==
    /\ x \in Seq(Lexemes) /\ k \in 1 .. Len(f) /\ f[k] = "$"
    /\ IF braced
       THEN /\ k + 1 \in 1 .. Len(f) /\ f[k + 1] = "{" /\ Spells(f, k + 1, x)
            /\ k + Len(x) + 2 \in 1 .. Len(f) /\ f[k + Len(x) + 2] = "}"
       ELSE /\ Spells(f, k, x)
            /\ k + Len(x) = Len(f) \/ f[k + Len(x) + 1] \in Marks

\* The record that Names has for it.
NameRecord(braced, k, x) ==
    LET i == IF braced THEN k + 1 ELSE k IN [place |-> <<i, i + Len(x)>>, name |-> x]

LEMMA RecordIsName ==
    ASSUME NEW f \in Seq(Lexemes), NEW braced \in BOOLEAN, NEW k, NEW x, NameAt(f, braced, k, x)
    PROVE  NameRecord(braced, k, x) \in Names(f)
<1> DEFINE P(w) == \A l \in w[1] + 1 .. w[2] : f[l] \notin Marks
           Q(w) == \/ f[w[1]] = "$" /\ (w[2] = Len(f) \/ f[w[2] + 1] \in Marks)
                   \/ /\ w[1] > 1 /\ f[w[1] - 1] = "$" /\ f[w[1]] = "{"
                      /\ w[2] < Len(f) /\ f[w[2] + 1] = "}"
<1>0. Names(f) = {[place |-> w, name |-> SubSeq(f, w[1] + 1, w[2])] :
                     w \in {w \in (DOMAIN f) \X (DOMAIN f) : (w[1] < w[2] /\ P(w)) /\ Q(w)}}
      BY Zenon DEF Names
<1>1. PICK i : i = IF braced THEN k + 1 ELSE k
      OBVIOUS
<1>2. /\ x \in Seq(Lexemes) /\ Len(x) \in Nat /\ x # <<>> /\ k \in 1 .. Len(f) /\ Len(f) \in Nat
      /\ f[k] = "$" /\ DOMAIN f = 1 .. Len(f)
  <2>1. x \in Seq(Lexemes) /\ k \in 1 .. Len(f) /\ f[k] = "$"
        BY DEF NameAt
  <2>2. x # <<>>
    <3>1. CASE braced
          BY <3>1 DEF NameAt, Spells
    <3>2. CASE ~braced
          BY <3>2 DEF NameAt, Spells
    <3> QED BY <3>1, <3>2
  <2> HIDE DEF P, Q
  <2> QED BY <2>1, <2>2
<1>3. i \in 1 .. Len(f) /\ Spells(f, i, x)
      BY <1>1 DEF NameAt
<1>4. Len(x) \in 1 .. Len(x) /\ Len(x) >= 1
      BY <1>2
<1>5. i + Len(x) \in 1 .. Len(f)
      BY <1>3, <1>4 DEF Spells
<1>6. PICK w : w = <<i, i + Len(x)>>
      OBVIOUS
<1>7. w[1] = i /\ w[2] = i + Len(x) /\ w \in (DOMAIN f) \X (DOMAIN f) /\ w[1] < w[2]
      BY <1>2, <1>3, <1>4, <1>5, <1>6
<1>8. P(w)
  <2> SUFFICES ASSUME NEW l \in i + 1 .. i + Len(x) PROVE f[l] \notin Marks
      BY <1>7
  <2>1. l - i \in 1 .. Len(x) /\ i + (l - i) = l
        BY <1>2, <1>3
  <2> QED BY <1>3, <2>1 DEF Spells
<1>9. Q(w)
  <2>1. CASE braced
    <3>1. i = k + 1 /\ i > 1 /\ i - 1 = k /\ (i + Len(x)) + 1 = k + Len(x) + 2
          BY <1>1, <1>2, <2>1
    <3>2. f[i] = "{" /\ (i + Len(x)) + 1 \in 1 .. Len(f) /\ f[(i + Len(x)) + 1] = "}"
          BY <2>1, <3>1 DEF NameAt
    <3>3. i + Len(x) < Len(f)
      <4> HIDE DEF P, Q
      <4>1. i \in Nat /\ Len(x) \in Nat /\ Len(f) \in Nat
            BY <1>2, <1>3
      <4>2. (i + Len(x)) + 1 \in 1 .. Len(f)
            BY <3>2
      <4> QED BY <4>1, <4>2
    <3> QED BY <1>2, <1>7, <3>1, <3>2, <3>3
  <2>2. CASE ~braced
    <3>1. i = k
          BY <1>1, <2>2
    <3>2. k + Len(x) = Len(f) \/ f[k + Len(x) + 1] \in Marks
          BY <2>2 DEF NameAt
    <3> QED BY <1>2, <1>7, <3>1, <3>2
  <2> QED BY <2>1, <2>2
<1>10. SubSeq(f, w[1] + 1, w[2]) = x
  <2>1. i \in Nat /\ i + Len(x) \in 0 .. Len(f) /\ i <= i + Len(x) /\ (i + Len(x)) - i = Len(x)
        BY <1>2, <1>3, <1>5
  <2>2. PICK b : b = i + Len(x)
        OBVIOUS
  <2>3. /\ SubSeq(f, i + 1, b) \in Seq(Lexemes) /\ Len(SubSeq(f, i + 1, b)) = Len(x)
        /\ \A j \in 1 .. Len(x) : SubSeq(f, i + 1, b)[j] = f[i + j]
        BY <2>1, <2>2, PartOf
  <2>4. \A j \in 1 .. Len(x) : SubSeq(f, i + 1, b)[j] = x[j]
        BY <1>3, <2>3 DEF Spells
  <2> HIDE DEF P, Q
  <2>5. SubSeq(f, i + 1, b) = x
    <3>1. x \in Seq(Lexemes)
          BY <1>2
    <3>2. SubSeq(f, i + 1, b) \in Seq(Lexemes) /\ Len(SubSeq(f, i + 1, b)) = Len(x)
          BY <2>3
    <3> QED BY <2>4, <3>1, <3>2, SeqEqual
  <2> QED BY <1>7, <2>2, <2>5
<1>11. NameRecord(braced, k, x) = [place |-> w, name |-> SubSeq(f, w[1] + 1, w[2])]
       BY <1>1, <1>6, <1>10 DEF NameRecord
<1> HIDE DEF P, Q
<1> QED BY <1>0, <1>7, <1>8, <1>9, <1>11

LEMMA NameHasPlace ==
    ASSUME NEW f \in Seq(Lexemes), NEW n \in Names(f)
    PROVE  \E braced \in BOOLEAN, k \in 1 .. Len(f) :
              NameAt(f, braced, k, n.name) /\ n = NameRecord(braced, k, n.name)
<1> DEFINE P(w) == \A l \in w[1] + 1 .. w[2] : f[l] \notin Marks
           Q(w) == \/ f[w[1]] = "$" /\ (w[2] = Len(f) \/ f[w[2] + 1] \in Marks)
                   \/ /\ w[1] > 1 /\ f[w[1] - 1] = "$" /\ f[w[1]] = "{"
                      /\ w[2] < Len(f) /\ f[w[2] + 1] = "}"
<1>0. Names(f) = {[place |-> w, name |-> SubSeq(f, w[1] + 1, w[2])] :
                     w \in {w \in (DOMAIN f) \X (DOMAIN f) : (w[1] < w[2] /\ P(w)) /\ Q(w)}}
      BY Zenon DEF Names
<1> HIDE DEF P, Q
<1>w. PICK w \in (DOMAIN f) \X (DOMAIN f) :
         w[1] < w[2] /\ P(w) /\ Q(w) /\ n = [place |-> w, name |-> SubSeq(f, w[1] + 1, w[2])]
      BY <1>0
<1>a. PICK a \in 1 .. Len(f), b \in 1 .. Len(f) : w = <<a, b>>
      BY <1>w
<1>1. /\ a < b /\ \A l \in a + 1 .. b : f[l] \notin Marks
      /\ \/ f[a] = "$" /\ (b = Len(f) \/ f[b + 1] \in Marks)
         \/ a > 1 /\ f[a - 1] = "$" /\ f[a] = "{" /\ b < Len(f) /\ f[b + 1] = "}"
      /\ n = [place |-> <<a, b>>, name |-> SubSeq(f, a + 1, b)]
  <2>1. w[1] = a /\ w[2] = b
        BY <1>a
  <2> QED BY <1>w, <1>a, <2>1 DEF P, Q
<1>2. Len(f) \in Nat
      OBVIOUS
<1>3. /\ n.name \in Seq(Lexemes) /\ Len(n.name) = b - a /\ n.place = <<a, b>>
      /\ \A j \in 1 .. b - a : n.name[j] = f[a + j]
  <2>1. n.name = SubSeq(f, a + 1, b) /\ n.place = <<a, b>>
        BY <1>1
  <2>2. a \in Nat /\ b \in 0 .. Len(f) /\ a <= b
    <3>1. a < b
          BY <1>1
    <3> QED BY <1>2, <3>1
  <2> QED BY <2>1, <2>2, PartOf
<1>4. Spells(f, a, n.name)
  <2>1. n.name # <<>>
    <3>1. a < b /\ Len(n.name) = b - a
          BY <1>1, <1>3
    <3> QED BY <3>1
  <2>2. \A j \in 1 .. b - a : a + j \in a + 1 .. b /\ a + j \in 1 .. Len(f)
        BY <1>2
  <2> QED BY <1>1, <1>3, <2>1, <2>2 DEF Spells
<1>5. a + Len(n.name) = b
      BY <1>2, <1>3
<1>6. CASE f[a] = "$"
  <2>1. b = Len(f) \/ f[b + 1] \in Marks
        BY <1>1, <1>6
  <2>2. NameAt(f, FALSE, a, n.name)
        BY <1>2, <1>3, <1>4, <1>5, <1>6, <2>1 DEF NameAt
  <2>3. n = NameRecord(FALSE, a, n.name)
        BY <1>1, <1>2, <1>3, <1>5 DEF NameRecord
  <2> QED BY <1>2, <2>2, <2>3
<1>7. CASE f[a] # "$"
  <2>1. a > 1 /\ f[a - 1] = "$" /\ f[a] = "{" /\ b < Len(f) /\ f[b + 1] = "}"
        BY <1>1, <1>7
  <2>2. a - 1 \in 1 .. Len(f) /\ (a - 1) + 1 = a /\ (a - 1) + Len(n.name) + 2 = b + 1 /\ b + 1 \in 1 .. Len(f)
    <3>1. Len(n.name) = b - a
          BY <1>3
    <3>2. a > 1 /\ b < Len(f)
          BY <2>1
    <3> QED BY <1>2, <3>1, <3>2
  <2>3. NameAt(f, TRUE, a - 1, n.name)
        BY <1>2, <1>3, <1>4, <2>1, <2>2 DEF NameAt
  <2>4. n = NameRecord(TRUE, a - 1, n.name)
        BY <1>1, <1>2, <1>3, <1>5, <2>2 DEF NameRecord
  <2> QED BY <2>2, <2>3, <2>4
<1> QED BY <1>6, <1>7

LEMMA VariablesAre ==
    ASSUME NEW f \in Seq(Lexemes)
    PROVE  /\ Variables(f) \subseteq Seq(Lexemes)
           /\ \A x : x \in Variables(f) <=> \E braced \in BOOLEAN, k \in 1 .. Len(f) : NameAt(f, braced, k, x)
<1>1. ASSUME NEW x \in Variables(f)
      PROVE  x \in Seq(Lexemes) /\ \E braced \in BOOLEAN, k \in 1 .. Len(f) : NameAt(f, braced, k, x)
  <2>1. PICK n \in Names(f) : n.name = x
        BY DEF Variables
  <2> QED BY <2>1, NameHasPlace DEF NameAt
<1>2. ASSUME NEW x, NEW braced \in BOOLEAN, NEW k, NameAt(f, braced, k, x)
      PROVE  x \in Variables(f)
  <2>1. NameRecord(braced, k, x) \in Names(f) /\ NameRecord(braced, k, x).name = x
        BY <1>2, RecordIsName DEF NameRecord
  <2> QED BY <2>1 DEF Variables
<1> QED BY <1>1, <1>2

\* A text with no $ that no name follows.
Reads(f) == /\ f \in Seq(Lexemes)
            /\ \A k \in 1 .. Len(f) :
                  f[k] = "$" => /\ k < Len(f)
                                /\ f[k + 1] \in Marks => \E x : NameAt(f, TRUE, k, x)

LEMMA ReadsIsReadable ==
    ASSUME NEW f \in Seq(Lexemes)
    PROVE  Reads(f) <=> Readable(f)
<1>0. DOMAIN f = 1 .. Len(f)
      OBVIOUS
<1>1. ASSUME NEW k \in 1 .. Len(f), NEW x, NameAt(f, TRUE, k, x)
      PROVE  f[k + 1] = "{" /\ \E n \in Names(f) : n.place[1] = k + 1
  <2>1. NameRecord(TRUE, k, x) \in Names(f)
        BY <1>1, RecordIsName
  <2>2. NameRecord(TRUE, k, x).place[1] = k + 1
        BY DEF NameRecord
  <2> QED BY <1>1, <2>1, <2>2 DEF NameAt
<1>2. ASSUME NEW k \in 1 .. Len(f), f[k + 1] = "{", NEW n \in Names(f), n.place[1] = k + 1
      PROVE  \E x : NameAt(f, TRUE, k, x)
  <2>1. PICK braced \in BOOLEAN, l \in 1 .. Len(f) :
           NameAt(f, braced, l, n.name) /\ n = NameRecord(braced, l, n.name)
        BY NameHasPlace
  <2>2. CASE braced
    <3>1. n.place[1] = l + 1
          BY <2>1, <2>2 DEF NameRecord
    <3>2. l = k
      <4>1. n.place[1] = k + 1
            BY <1>2
      <4> QED BY <3>1, <4>1
    <3>3. braced = TRUE
          BY <2>2
    <3> QED BY <2>1, <3>2, <3>3
  <2>3. CASE ~braced
    <3>1. n.place[1] = l
          BY <2>1, <2>3 DEF NameRecord
    <3>2. f[l] = "$"
          BY <2>1 DEF NameAt
    <3> QED BY <1>2, <3>1, <3>2
  <2> QED BY <2>2, <2>3
<1> QED BY <1>0, <1>1, <1>2 DEF Reads, Readable

----------------------------------------------------------------------------
(* Texts put together.                                                     *)

\* f is p and then s.
Cat(f, p, s) ==
    /\ f \in Seq(Lexemes) /\ p \in Seq(Lexemes) /\ s \in Seq(Lexemes)
    /\ Len(f) = Len(p) + Len(s)
    /\ \A i \in 1 .. Len(p) : f[i] = p[i]
    /\ \A i \in 1 .. Len(s) : f[Len(p) + i] = s[i]

LEMMA JoinedIsCat ==
    ASSUME NEW p \in Seq(Lexemes), NEW s \in Seq(Lexemes)
    PROVE  Cat(p \o s, p, s)
BY Joined DEF Cat

LEMMA CatOfThree ==
    ASSUME NEW f, NEW p, NEW g, NEW q, NEW s, Cat(f, p, g), Cat(g, q, s)
    PROVE  Cat(f, p \o q, s)
<1>0. /\ f \in Seq(Lexemes) /\ p \in Seq(Lexemes) /\ g \in Seq(Lexemes) /\ q \in Seq(Lexemes) /\ s \in Seq(Lexemes)
      /\ Len(f) = Len(p) + Len(g) /\ Len(g) = Len(q) + Len(s)
      BY DEF Cat
<1>1. Len(p) \in Nat /\ Len(q) \in Nat /\ Len(s) \in Nat
      BY <1>0
<1>2. PICK r : r = p \o q
      OBVIOUS
<1>3. /\ r \in Seq(Lexemes) /\ Len(r) = Len(p) + Len(q)
      /\ \A i \in 1 .. Len(p) : r[i] = p[i]
      /\ \A i \in Len(p) + 1 .. Len(p) + Len(q) : r[i] = q[i - Len(p)]
      BY <1>0, <1>2, Joined
<1>4. Len(f) = Len(r) + Len(s)
      BY <1>0, <1>1, <1>3
<1>5. \A i \in 1 .. Len(r) : f[i] = r[i]
  <2> SUFFICES ASSUME NEW i \in 1 .. Len(r) PROVE f[i] = r[i]
      OBVIOUS
  <2>1. CASE i \in 1 .. Len(p)
        BY <1>3, <2>1 DEF Cat
  <2>2. CASE i \notin 1 .. Len(p)
    <3>1. PICK j \in 1 .. Len(q) : j = i - Len(p) /\ i = Len(p) + j /\ j \in 1 .. Len(g)
          /\ i \in Len(p) + 1 .. Len(p) + Len(q)
      <4> DEFINE a == Len(p)
                 b == Len(q)
                 c == Len(s)
      <4>1. a \in Nat /\ b \in Nat /\ c \in Nat /\ i \in 1 .. a + b /\ i \notin 1 .. a
            BY <1>1, <1>3, <2>2
      <4>2. Len(g) = b + c
            BY <1>0
      <4> HIDE DEF a, b, c
      <4>3. /\ i - a \in 1 .. b /\ i = a + (i - a) /\ i - a \in 1 .. b + c
            /\ i \in a + 1 .. a + b
            BY <4>1
      <4> QED BY <4>2, <4>3 DEF a, b
    <3>2. f[Len(p) + j] = g[j] /\ g[j] = q[j]
          BY <3>1 DEF Cat
    <3> QED BY <1>3, <3>1, <3>2
  <2> QED BY <2>1, <2>2
<1>6. \A i \in 1 .. Len(s) : f[Len(r) + i] = s[i]
  <2> SUFFICES ASSUME NEW i \in 1 .. Len(s) PROVE f[Len(r) + i] = s[i]
      OBVIOUS
  <2>1. Len(q) + i \in 1 .. Len(g) /\ Len(r) + i = Len(p) + (Len(q) + i)
        BY <1>0, <1>1, <1>3
  <2>2. f[Len(p) + (Len(q) + i)] = g[Len(q) + i] /\ g[Len(q) + i] = s[i]
        BY <2>1 DEF Cat
  <2> QED BY <2>1, <2>2
<1>7. Cat(f, r, s)
      BY <1>0, <1>3, <1>4, <1>5, <1>6 DEF Cat
<1> QED BY <1>2, <1>7

LEMMA CatLengths ==
    ASSUME NEW f, NEW p, NEW s, Cat(f, p, s)
    PROVE  /\ Len(f) \in Nat /\ Len(p) \in Nat /\ Len(s) \in Nat
           /\ Len(f) = Len(p) + Len(s) /\ \A i \in 1 .. Len(p) : i \in 1 .. Len(f)
<1>1. f \in Seq(Lexemes) /\ p \in Seq(Lexemes) /\ s \in Seq(Lexemes) /\ Len(f) = Len(p) + Len(s)
      BY DEF Cat
<1>2. Len(f) \in Nat /\ Len(p) \in Nat /\ Len(s) \in Nat
      BY <1>1
<1> QED BY <1>1, <1>2

\* A name before s ends there.
Meets(s) == Len(s) = 0 \/ s[1] \in Marks

LEMMA SpellsLeft ==
    ASSUME NEW f, NEW p, NEW s, Cat(f, p, s), NEW i \in Nat, NEW x \in Seq(Lexemes), i + Len(x) <= Len(p)
    PROVE  Spells(f, i, x) <=> Spells(p, i, x)
<1>1. \A j \in 1 .. Len(x) : i + j \in 1 .. Len(p) /\ i + j \in 1 .. Len(f)
      BY DEF Cat
<1>2. \A j \in 1 .. Len(x) : f[i + j] = p[i + j]
      BY <1>1 DEF Cat
<1> QED BY <1>1, <1>2 DEF Spells

LEMMA SpellsRight ==
    ASSUME NEW f, NEW p, NEW s, Cat(f, p, s), NEW i \in Nat, NEW x \in Seq(Lexemes)
    PROVE  Spells(f, Len(p) + i, x) <=> Spells(s, i, x)
<1>1. \A j \in 1 .. Len(x) : /\ (Len(p) + i) + j = Len(p) + (i + j)
                             /\ (Len(p) + i) + j \in 1 .. Len(f) <=> i + j \in 1 .. Len(s)
      BY DEF Cat
<1>2. \A j \in 1 .. Len(x) : i + j \in 1 .. Len(s) => f[(Len(p) + i) + j] = s[i + j]
      BY <1>1 DEF Cat
<1> QED BY <1>1, <1>2 DEF Spells

LEMMA SpellsNoMark ==
    ASSUME NEW f, NEW i \in Nat, NEW x \in Seq(Lexemes), Spells(f, i, x), NEW m \in i + 1 .. i + Len(x)
    PROVE  m \in 1 .. Len(f) /\ f[m] \notin Marks
<1>1. m - i \in 1 .. Len(x) /\ i + (m - i) = m
      OBVIOUS
<1> QED BY <1>1 DEF Spells

LEMMA CatRight ==
    ASSUME NEW f, NEW p, NEW s, Cat(f, p, s), NEW braced \in BOOLEAN, NEW k \in 1 .. Len(s), NEW x
    PROVE  NameAt(f, braced, Len(p) + k, x) <=> NameAt(s, braced, k, x)
<1> SUFFICES ASSUME x \in Seq(Lexemes)
             PROVE  NameAt(f, braced, Len(p) + k, x) <=> NameAt(s, braced, k, x)
    BY DEF NameAt
<1>1. /\ Len(f) \in Nat /\ Len(p) \in Nat /\ Len(s) \in Nat /\ Len(x) \in Nat
      /\ Len(f) = Len(p) + Len(s)
      /\ \A i \in 1 .. Len(s) : f[Len(p) + i] = s[i]
      BY DEF Cat
<1>2. \A i \in Nat : i >= 1 => (Len(p) + i \in 1 .. Len(f) <=> i \in 1 .. Len(s))
      BY <1>1
<1>3. Len(p) + k \in 1 .. Len(f) /\ f[Len(p) + k] = s[k]
      BY <1>1, <1>2
<1>4. CASE braced
  <2>1. /\ (Len(p) + k) + 1 = Len(p) + (k + 1)
        /\ (Len(p) + k) + Len(x) + 2 = Len(p) + (k + Len(x) + 2)
        /\ k + 1 \in Nat /\ k + Len(x) + 2 \in Nat /\ k + Len(x) + 2 >= 1
        BY <1>1
  <2>2. Spells(f, Len(p) + (k + 1), x) <=> Spells(s, k + 1, x)
        BY <2>1, SpellsRight
  <2>3. /\ Len(p) + (k + 1) \in 1 .. Len(f) <=> k + 1 \in 1 .. Len(s)
        /\ Len(p) + (k + Len(x) + 2) \in 1 .. Len(f) <=> k + Len(x) + 2 \in 1 .. Len(s)
        BY <1>2, <2>1
  <2>4. /\ k + 1 \in 1 .. Len(s) => f[Len(p) + (k + 1)] = s[k + 1]
        /\ k + Len(x) + 2 \in 1 .. Len(s) => f[Len(p) + (k + Len(x) + 2)] = s[k + Len(x) + 2]
        BY <1>1
  <2> QED BY <1>3, <1>4, <2>1, <2>2, <2>3, <2>4 DEF NameAt
<1>5. CASE ~braced
  <2>1. Spells(f, Len(p) + k, x) <=> Spells(s, k, x)
        BY SpellsRight
  <2>2. ASSUME Spells(s, k, x)
        PROVE  ((Len(p) + k) + Len(x) = Len(f) \/ f[(Len(p) + k) + Len(x) + 1] \in Marks)
                  <=> (k + Len(x) = Len(s) \/ s[k + Len(x) + 1] \in Marks)
    <3>1. k + Len(x) \in 1 .. Len(s)
      <4>1. Len(x) \in 1 .. Len(x)
            BY <1>1, <2>2 DEF Spells
      <4> QED BY <2>2, <4>1 DEF Spells
    <3>2. CASE k + Len(x) = Len(s)
      <4>1. (Len(p) + k) + Len(x) = Len(p) + (k + Len(x))
            BY <1>1
      <4>2. (Len(p) + k) + Len(x) = Len(f)
            BY <1>1, <3>2, <4>1
      <4> QED BY <3>2, <4>2
    <3>3. CASE k + Len(x) # Len(s)
      <4>1. PICK m : m = k + Len(x) + 1
            OBVIOUS
      <4>2. /\ m \in 1 .. Len(s) /\ (Len(p) + k) + Len(x) + 1 = Len(p) + m
            /\ (Len(p) + k) + Len(x) # Len(f)
            BY <1>1, <3>1, <3>3, <4>1
      <4>3. f[Len(p) + m] = s[m]
            BY <1>1, <4>2
      <4>4. f[(Len(p) + k) + Len(x) + 1] = s[k + Len(x) + 1]
            BY <4>1, <4>2, <4>3
      <4>5. (Len(p) + k) + Len(x) # Len(f)
            BY <4>2
      <4>6. f[(Len(p) + k) + Len(x) + 1] \in Marks <=> s[k + Len(x) + 1] \in Marks
            BY <4>4
      <4> QED BY <3>3, <4>5, <4>6
    <3> QED BY <3>2, <3>3
  <2> QED BY <1>3, <1>5, <2>1, <2>2 DEF NameAt
<1> QED BY <1>4, <1>5

LEMMA CatLeft ==
    ASSUME NEW f, NEW p, NEW s, Cat(f, p, s), Reads(p), Meets(s),
           NEW braced \in BOOLEAN, NEW k \in 1 .. Len(p), NEW x
    PROVE  NameAt(f, braced, k, x) <=> NameAt(p, braced, k, x)
<1> SUFFICES ASSUME x \in Seq(Lexemes)
             PROVE  NameAt(f, braced, k, x) <=> NameAt(p, braced, k, x)
    BY DEF NameAt
<1>1. /\ Len(f) \in Nat /\ Len(p) \in Nat /\ Len(s) \in Nat /\ Len(x) \in Nat
      /\ Len(f) = Len(p) + Len(s)
      /\ \A i \in 1 .. Len(p) : f[i] = p[i] /\ i \in 1 .. Len(f)
  <2>1. Len(x) \in Nat
        OBVIOUS
  <2>2. \A i \in 1 .. Len(p) : f[i] = p[i]
        BY DEF Cat
  <2> QED BY <2>1, <2>2, CatLengths
<1>2. f[Len(p) + 1] \in Marks \/ Len(f) = Len(p)
  <2>1. CASE Len(s) = 0
        BY <1>1, <2>1
  <2>2. CASE Len(s) # 0
    <3>1. 1 \in 1 .. Len(s)
          BY <1>1, <2>2
    <3> QED BY <2>2, <3>1 DEF Cat, Meets
  <2> QED BY <2>1, <2>2
<1>3. CASE ~braced
  <2>1. ASSUME NameAt(f, FALSE, k, x) PROVE k + Len(x) <= Len(p)
    <3> SUFFICES ASSUME k + Len(x) > Len(p) PROVE FALSE
        BY <1>1
    <3>1. Len(p) + 1 \in k + 1 .. k + Len(x) /\ Spells(f, k, x)
          BY <1>1, <2>1 DEF NameAt
    <3>2. Len(p) + 1 \in 1 .. Len(f) /\ f[Len(p) + 1] \notin Marks
          BY <3>1, SpellsNoMark
    <3> QED BY <1>1, <1>2, <3>2
  <2>2. ASSUME NameAt(p, FALSE, k, x) PROVE k + Len(x) <= Len(p)
    <3>1. Len(x) \in 1 .. Len(x) /\ Spells(p, k, x)
      <4>1. Spells(p, k, x)
            BY <2>2 DEF NameAt
      <4> QED BY <1>1, <4>1 DEF Spells
    <3>2. k + Len(x) \in 1 .. Len(p)
          BY <3>1 DEF Spells
    <3> QED BY <1>1, <3>2
  <2>3. ASSUME k + Len(x) <= Len(p) PROVE NameAt(f, FALSE, k, x) <=> NameAt(p, FALSE, k, x)
    <3>1. Spells(f, k, x) <=> Spells(p, k, x)
          BY <2>3, SpellsLeft
    <3>2. (k + Len(x) = Len(f) \/ f[k + Len(x) + 1] \in Marks)
             <=> (k + Len(x) = Len(p) \/ p[k + Len(x) + 1] \in Marks)
      <4>1. CASE k + Len(x) = Len(p)
            BY <1>2, <4>1
      <4>2. CASE k + Len(x) # Len(p)
        <5>1. k + Len(x) + 1 \in 1 .. Len(p) /\ k + Len(x) # Len(f)
              BY <1>1, <2>3, <4>2
        <5> QED BY <1>1, <4>2, <5>1
      <4> QED BY <4>1, <4>2
    <3> QED BY <1>1, <3>1, <3>2 DEF NameAt
  <2> QED BY <1>3, <2>1, <2>2, <2>3
<1>4. CASE braced
  <2>1. ASSUME NameAt(f, TRUE, k, x) PROVE k + Len(x) + 2 <= Len(p)
    <3>1. p[k] = "$" /\ f[k + 1] = "{"
          BY <1>1, <2>1 DEF NameAt
    <3>2. k < Len(p) /\ p[k + 1] \in Marks
      <4>1. k < Len(p)
            BY <3>1 DEF Reads
      <4>2. k + 1 \in 1 .. Len(p)
            BY <1>1, <4>1
      <4> QED BY <1>1, <3>1, <4>1, <4>2 DEF Marks
    <3>3. PICK y : NameAt(p, TRUE, k, y)
          BY <3>1, <3>2 DEF Reads
    <3>4. /\ y \in Seq(Lexemes) /\ Len(y) \in Nat /\ k + Len(y) + 2 \in 1 .. Len(p) /\ p[k + Len(y) + 2] = "}"
          /\ Spells(f, k + 1, x)
      <4>1. y \in Seq(Lexemes) /\ k + Len(y) + 2 \in 1 .. Len(p) /\ p[k + Len(y) + 2] = "}"
            BY <3>3 DEF NameAt
      <4>2. Spells(f, k + 1, x)
            BY <2>1 DEF NameAt
      <4>3. Len(y) \in Nat
        <5>1. y \in Seq(Lexemes)
              BY <4>1
        <5> QED BY <5>1
      <4> QED BY <4>1, <4>2, <4>3
    <3>5. f[k + Len(y) + 2] \in Marks
          BY <1>1, <3>4 DEF Marks
    <3>6. ASSUME k + Len(x) + 2 > Len(p) PROVE FALSE
      <4>1. Len(y) \in Nat /\ Len(x) \in Nat /\ Len(p) \in Nat /\ k + Len(y) + 2 <= Len(p)
        <5>1. k + Len(y) + 2 \in 1 .. Len(p) /\ Len(y) \in Nat
              BY <3>4
        <5>2. Len(x) \in Nat /\ Len(p) \in Nat
              BY <1>1
        <5> QED BY <5>1, <5>2
      <4>2. k + Len(y) + 2 \in (k + 1) + 1 .. (k + 1) + Len(x)
            BY <3>6, <4>1
      <4>3. k + 1 \in Nat
            OBVIOUS
      <4> QED BY <3>4, <3>5, <4>2, <4>3, SpellsNoMark
    <3> QED BY <1>1, <3>6
  <2>2. ASSUME NameAt(p, TRUE, k, x) PROVE k + Len(x) + 2 <= Len(p)
    <3>1. k + Len(x) + 2 \in 1 .. Len(p) /\ Len(p) \in Nat
          BY <1>1, <2>2 DEF NameAt
    <3> QED BY <3>1
  <2>3. ASSUME k + Len(x) + 2 <= Len(p) PROVE NameAt(f, TRUE, k, x) <=> NameAt(p, TRUE, k, x)
    <3>1. /\ k + 1 \in Nat /\ (k + 1) + Len(x) <= Len(p)
          /\ k + 1 \in 1 .. Len(p) /\ k + Len(x) + 2 \in 1 .. Len(p)
          BY <1>1, <2>3
    <3>2. Spells(f, k + 1, x) <=> Spells(p, k + 1, x)
          BY <3>1, SpellsLeft
    <3> QED BY <1>1, <3>1, <3>2 DEF NameAt
  <2> QED BY <1>4, <2>1, <2>2, <2>3
<1> QED BY <1>3, <1>4

LEMMA ReadsRight ==
    ASSUME NEW f, NEW p, NEW s, Cat(f, p, s), Reads(f)
    PROVE  Reads(s)
<1> SUFFICES ASSUME NEW k \in 1 .. Len(s), s[k] = "$"
             PROVE  k < Len(s) /\ (s[k + 1] \in Marks => \E x : NameAt(s, TRUE, k, x))
    BY DEF Reads, Cat
<1>1. PICK l : l = Len(p) + k
      OBVIOUS
<1>2. /\ l \in 1 .. Len(f) /\ f[l] = "$" /\ Len(f) = Len(p) + Len(s)
      /\ Len(p) \in Nat /\ Len(s) \in Nat
  <2>1. f[Len(p) + k] = s[k]
        BY DEF Cat
  <2> QED BY <1>1, <2>1, CatLengths
<1>3. l < Len(f) /\ (f[l + 1] \in Marks => \E x : NameAt(f, TRUE, l, x))
      BY <1>2 DEF Reads
<1>4. k < Len(s) /\ k + 1 \in 1 .. Len(s) /\ l + 1 = Len(p) + (k + 1)
      BY <1>1, <1>2, <1>3
<1>5. f[l + 1] = s[k + 1]
      BY <1>4 DEF Cat
<1>6. \A x : NameAt(f, TRUE, l, x) <=> NameAt(s, TRUE, k, x)
      BY <1>1, CatRight
<1> QED BY <1>3, <1>4, <1>5, <1>6

LEMMA ReadsLeft ==
    ASSUME NEW f, NEW p, NEW s, Cat(f, p, s), Reads(f), Len(s) # 0, s[1] = "$"
    PROVE  Reads(p)
<1>0. Len(f) \in Nat /\ Len(p) \in Nat /\ Len(s) \in Nat /\ Len(f) = Len(p) + Len(s)
      BY CatLengths
<1>1. f[Len(p) + 1] = "$"
  <2>1. 1 \in 1 .. Len(s)
        BY <1>0
  <2> QED BY <2>1 DEF Cat
<1>2. SUFFICES ASSUME NEW k \in 1 .. Len(p), p[k] = "$"
               PROVE  k < Len(p) /\ (p[k + 1] \in Marks => \E x : NameAt(p, TRUE, k, x))
      BY DEF Reads, Cat
<1>3. k \in 1 .. Len(f) /\ f[k] = "$"
      BY <1>0, <1>2 DEF Cat
<1>4. k < Len(f) /\ (f[k + 1] \in Marks => \E x : NameAt(f, TRUE, k, x))
      BY <1>3 DEF Reads
<1>5. k < Len(p)
  <2> SUFFICES ASSUME k = Len(p) PROVE FALSE
      BY <1>0
  <2>1. f[k + 1] = "$" /\ f[k + 1] \in Marks
        BY <1>1 DEF Marks
  <2>2. PICK x : NameAt(f, TRUE, k, x)
        BY <1>4, <2>1
  <2> QED BY <2>1, <2>2 DEF NameAt
<1>6. k + 1 \in 1 .. Len(p) /\ f[k + 1] = p[k + 1]
  <2>1. k + 1 \in 1 .. Len(p)
        BY <1>0, <1>5
  <2> QED BY <2>1 DEF Cat
<1>7. ASSUME NEW x, NameAt(f, TRUE, k, x) PROVE NameAt(p, TRUE, k, x)
  <2>1. /\ x \in Seq(Lexemes) /\ Spells(f, k + 1, x)
        /\ k + Len(x) + 2 \in 1 .. Len(f) /\ f[k + Len(x) + 2] = "}" /\ f[k + 1] = "{"
        BY <1>7 DEF NameAt
  <2>2. Len(x) \in Nat
    <3>1. x \in Seq(Lexemes)
          BY <2>1
    <3> QED BY <3>1
  <2>3. k + Len(x) + 2 <= Len(p)
    <3> SUFFICES ASSUME k + Len(x) + 2 > Len(p) PROVE FALSE
        BY <1>0, <2>2
    <3>1. Len(p) + 1 = k + Len(x) + 2 \/ Len(p) + 1 \in (k + 1) + 1 .. (k + 1) + Len(x)
          BY <1>0, <1>5, <2>2
    <3>2. CASE Len(p) + 1 = k + Len(x) + 2
          BY <1>1, <2>1, <3>2
    <3>3. CASE Len(p) + 1 \in (k + 1) + 1 .. (k + 1) + Len(x)
      <4>1. k + 1 \in Nat
            OBVIOUS
      <4>2. f[Len(p) + 1] \notin Marks
            BY <2>1, <3>3, <4>1, SpellsNoMark
      <4> QED BY <1>1, <4>2 DEF Marks
    <3> QED BY <3>1, <3>2, <3>3
  <2>4. k + Len(x) + 2 \in 1 .. Len(p) /\ k + 1 \in Nat /\ (k + 1) + Len(x) <= Len(p)
        BY <1>0, <2>2, <2>3
  <2>5. Spells(p, k + 1, x)
        BY <2>1, <2>4, SpellsLeft
  <2>6. p[k + Len(x) + 2] = "}"
        BY <2>1, <2>4 DEF Cat
  <2> QED BY <1>2, <1>6, <2>1, <2>4, <2>5, <2>6 DEF NameAt
<1> QED BY <1>4, <1>5, <1>6, <1>7

LEMMA ReadsJoined ==
    ASSUME NEW f, NEW p, NEW s, Cat(f, p, s), Reads(p), Reads(s)
    PROVE  Reads(f)
<1>0. Len(f) \in Nat /\ Len(p) \in Nat /\ Len(s) \in Nat /\ Len(f) = Len(p) + Len(s)
      BY CatLengths
<1>1. SUFFICES ASSUME NEW k \in 1 .. Len(f), f[k] = "$"
               PROVE  k < Len(f) /\ (f[k + 1] \in Marks => \E x : NameAt(f, TRUE, k, x))
      BY DEF Reads, Cat
<1>2. CASE k \in 1 .. Len(p)
  <2>1. p[k] = "$"
        BY <1>1, <1>2 DEF Cat
  <2>2. k < Len(p) /\ (p[k + 1] \in Marks => \E x : NameAt(p, TRUE, k, x))
        BY <1>2, <2>1 DEF Reads
  <2>3. k + 1 \in 1 .. Len(p) /\ k < Len(f)
        BY <1>0, <2>2
  <2>4. f[k + 1] = p[k + 1]
        BY <2>3 DEF Cat
  <2>5. ASSUME NEW x, NameAt(p, TRUE, k, x) PROVE NameAt(f, TRUE, k, x)
    <3>1. /\ x \in Seq(Lexemes) /\ Spells(p, k + 1, x)
          /\ k + Len(x) + 2 \in 1 .. Len(p) /\ p[k + Len(x) + 2] = "}" /\ p[k + 1] = "{"
          BY <2>5 DEF NameAt
    <3>2. Len(x) \in Nat
      <4>1. x \in Seq(Lexemes)
            BY <3>1
      <4> QED BY <4>1
    <3>3. /\ k + 1 \in Nat /\ (k + 1) + Len(x) <= Len(p)
          /\ k + 1 \in 1 .. Len(f) /\ k + Len(x) + 2 \in 1 .. Len(f)
      <4>1. k + Len(x) + 2 \in 1 .. Len(p)
            BY <3>1
      <4> QED BY <1>0, <2>3, <3>2, <4>1
    <3>4. Spells(f, k + 1, x)
          BY <3>1, <3>3, SpellsLeft
    <3>5. f[k + Len(x) + 2] = "}"
          BY <3>1 DEF Cat
    <3> QED BY <1>1, <2>4, <3>1, <3>3, <3>4, <3>5 DEF NameAt
  <2> QED BY <2>2, <2>3, <2>4, <2>5
<1>3. CASE k \notin 1 .. Len(p)
  <2>1. PICK l \in 1 .. Len(s) : k = Len(p) + l
    <3>1. k - Len(p) \in 1 .. Len(s) /\ k = Len(p) + (k - Len(p))
          BY <1>0, <1>3
    <3> QED BY <3>1
  <2>2. s[l] = "$"
        BY <1>1, <2>1 DEF Cat
  <2>3. l < Len(s) /\ (s[l + 1] \in Marks => \E x : NameAt(s, TRUE, l, x))
        BY <2>2 DEF Reads
  <2>4. l + 1 \in 1 .. Len(s) /\ k + 1 = Len(p) + (l + 1) /\ k < Len(f)
        BY <1>0, <2>1, <2>3
  <2>5. f[k + 1] = s[l + 1]
        BY <2>4 DEF Cat
  <2>6. \A x : NameAt(f, TRUE, k, x) <=> NameAt(s, TRUE, l, x)
        BY <2>1, CatRight
  <2> QED BY <2>3, <2>4, <2>5, <2>6
<1> QED BY <1>2, <1>3

\* The names of a text with and without braces.
NamesIn(f, braced) == {x \in Seq(Lexemes) : \E k \in 1 .. Len(f) : NameAt(f, braced, k, x)}

LEMMA VariablesByNames ==
    ASSUME NEW f \in Seq(Lexemes)
    PROVE  Variables(f) = NamesIn(f, TRUE) \cup NamesIn(f, FALSE)
BY VariablesAre DEF NamesIn

LEMMA NamesJoined ==
    ASSUME NEW f, NEW p, NEW s, Cat(f, p, s), Reads(p), Meets(s), NEW braced \in BOOLEAN
    PROVE  NamesIn(f, braced) = NamesIn(p, braced) \cup NamesIn(s, braced)
<1>0. Len(f) \in Nat /\ Len(p) \in Nat /\ Len(s) \in Nat /\ Len(f) = Len(p) + Len(s)
      BY CatLengths
<1>1. ASSUME NEW k \in 1 .. Len(f), NEW x, NameAt(f, braced, k, x)
      PROVE  \/ k \in 1 .. Len(p) /\ NameAt(p, braced, k, x)
             \/ \E l \in 1 .. Len(s) : NameAt(s, braced, l, x)
  <2>1. CASE k \in 1 .. Len(p)
        BY <1>1, <2>1, CatLeft
  <2>2. CASE k \notin 1 .. Len(p)
    <3>1. PICK l \in 1 .. Len(s) : k = Len(p) + l
      <4>1. k - Len(p) \in 1 .. Len(s) /\ k = Len(p) + (k - Len(p))
            BY <1>0, <2>2
      <4> QED BY <4>1
    <3> QED BY <1>1, <3>1, CatRight
  <2> QED BY <2>1, <2>2
<1>2. ASSUME NEW k \in 1 .. Len(p), NEW x, NameAt(p, braced, k, x)
      PROVE  k \in 1 .. Len(f) /\ NameAt(f, braced, k, x)
      BY <1>0, <1>2, CatLeft
<1>3. ASSUME NEW l \in 1 .. Len(s), NEW x, NameAt(s, braced, l, x)
      PROVE  \E k \in 1 .. Len(f) : NameAt(f, braced, k, x)
  <2>1. Len(p) + l \in 1 .. Len(f)
        BY <1>0
  <2> QED BY <1>3, <2>1, CatRight
<1> QED BY <1>1, <1>2, <1>3 DEF NamesIn

----------------------------------------------------------------------------
(* How often names come.                                                   *)

\* The places of names in X.
Starts(f, X) == {k \in 1 .. Len(f) : \E braced \in BOOLEAN, x \in X : NameAt(f, braced, k, x)}

LEMMA NameEnds ==
    ASSUME NEW f \in Seq(Lexemes), NEW i \in Nat, NEW x \in Seq(Lexemes), NEW y \in Seq(Lexemes),
           Spells(f, i, x), Spells(f, i, y),
           i + Len(x) = Len(f) \/ f[i + Len(x) + 1] \in Marks
    PROVE  Len(y) <= Len(x)
<1>1. Len(x) \in Nat /\ Len(y) \in Nat /\ Len(f) \in Nat
      OBVIOUS
<1>2. SUFFICES ASSUME Len(x) < Len(y) PROVE FALSE
      BY <1>1
<1>3. i + Len(x) + 1 \in i + 1 .. i + Len(y)
      BY <1>1, <1>2
<1>4. i + Len(x) + 1 \in 1 .. Len(f) /\ f[i + Len(x) + 1] \notin Marks
      BY <1>3, SpellsNoMark
<1> QED BY <1>1, <1>4

LEMMA NameFacts ==
    ASSUME NEW f \in Seq(Lexemes), NEW braced \in BOOLEAN, NEW k, NEW x, NameAt(f, braced, k, x)
    PROVE  /\ x \in Seq(Lexemes) /\ k \in 1 .. Len(f) /\ k \in Nat /\ f[k] = "$"
           /\ braced => f[k + 1] = "{"
           /\ ~braced => Spells(f, k, x)
<1>1. x \in Seq(Lexemes) /\ k \in 1 .. Len(f) /\ f[k] = "$"
      BY DEF NameAt
<1>2. k \in Nat
      BY <1>1
<1>3. braced => f[k + 1] = "{"
      BY DEF NameAt
<1>4. ~braced => Spells(f, k, x)
      BY DEF NameAt
<1> QED BY <1>1, <1>2, <1>3, <1>4

LEMMA OneNameAt ==
    ASSUME NEW f \in Seq(Lexemes), NEW k, NEW braced \in BOOLEAN, NEW x, NEW other \in BOOLEAN, NEW y,
           NameAt(f, braced, k, x), NameAt(f, other, k, y)
    PROVE  braced = other /\ x = y
<1>1. x \in Seq(Lexemes) /\ y \in Seq(Lexemes) /\ k \in 1 .. Len(f) /\ k \in Nat /\ k + 1 \in Nat
  <2>1. x \in Seq(Lexemes) /\ y \in Seq(Lexemes) /\ k \in Nat /\ k \in 1 .. Len(f)
        BY NameFacts
  <2> QED BY <2>1
<1>2. ASSUME NEW z \in Seq(Lexemes), Spells(f, k, z) PROVE f[k + 1] \notin Marks
  <2>1. 1 \in 1 .. Len(z)
        BY <1>2 DEF Spells
  <2> QED BY <1>2, <2>1 DEF Spells
<1>3. braced = other
  <2>1. braced => f[k + 1] = "{"
        BY NameFacts
  <2>2. other => f[k + 1] = "{"
        BY NameFacts
  <2>3. ~braced => Spells(f, k, x)
        BY NameFacts
  <2>4. ~other => Spells(f, k, y)
        BY NameFacts
  <2>5. "{" \in Marks
        BY DEF Marks
  <2>6. ~braced => f[k + 1] \notin Marks
        BY <1>1, <1>2, <2>3
  <2>7. ~other => f[k + 1] \notin Marks
        BY <1>1, <1>2, <2>4
  <2>8. braced <=> other
        BY <2>1, <2>2, <2>5, <2>6, <2>7
  <2> QED BY <2>8
<1>4. PICK i \in Nat : /\ Spells(f, i, x) /\ Spells(f, i, y)
                       /\ i + Len(x) = Len(f) \/ f[i + Len(x) + 1] \in Marks
                       /\ i + Len(y) = Len(f) \/ f[i + Len(y) + 1] \in Marks
  <2>1. CASE braced
    <3>1. /\ Spells(f, k + 1, x) /\ Spells(f, k + 1, y)
          /\ f[k + Len(x) + 2] = "}" /\ f[k + Len(y) + 2] = "}"
          BY <1>3, <2>1 DEF NameAt
    <3>2. /\ (k + 1) + Len(x) + 1 = k + Len(x) + 2
          /\ (k + 1) + Len(y) + 1 = k + Len(y) + 2
      <4>1. Len(x) \in Nat /\ Len(y) \in Nat
            BY <1>1
      <4> QED BY <1>1, <4>1
    <3>3. "}" \in Marks
          BY DEF Marks
    <3> QED BY <1>1, <3>1, <3>2, <3>3
  <2>2. CASE ~braced
        BY <1>1, <1>3, <2>2 DEF NameAt
  <2> QED BY <2>1, <2>2
<1>5. Len(x) = Len(y)
  <2>1. Len(x) <= Len(y) /\ Len(y) <= Len(x)
        BY <1>1, <1>4, NameEnds
  <2>2. Len(x) \in Nat /\ Len(y) \in Nat
        BY <1>1
  <2> QED BY <2>1, <2>2
<1>6. \A j \in 1 .. Len(x) : x[j] = y[j]
      BY <1>4, <1>5 DEF Spells
<1> QED BY <1>1, <1>3, <1>5, <1>6, SeqEqual

LEMMA CountedByStarts ==
    ASSUME NEW f \in Seq(Lexemes), NEW X
    PROVE  /\ IsFiniteSet(Starts(f, X)) /\ Cardinality(Starts(f, X)) \in Nat
           /\ Cardinality({n \in Names(f) : n.name \in X}) = Cardinality(Starts(f, X))
<1> DEFINE N == {n \in Names(f) : n.name \in X}
           Rec(k, n) == \E braced \in BOOLEAN, x \in X : NameAt(f, braced, k, x) /\ n = NameRecord(braced, k, x)
           g == [k \in Starts(f, X) |-> CHOOSE n : Rec(k, n)]
<1>1. IsFiniteSet(Starts(f, X)) /\ Cardinality(Starts(f, X)) \in Nat
  <2>1. IsFiniteSet(1 .. Len(f))
        BY FS_Interval
  <2>2. IsFiniteSet(Starts(f, X))
        BY <2>1, FS_Subset DEF Starts
  <2> QED BY <2>2, FS_CardinalityType
<1>2. ASSUME NEW k \in Starts(f, X) PROVE Rec(k, g[k])
  <2>1. \E n : Rec(k, n)
        BY DEF Starts
  <2> HIDE DEF Rec
  <2>2. Rec(k, CHOOSE n : Rec(k, n))
        BY <2>1
  <2> QED BY <2>2
<1>3. ASSUME NEW k, NEW n, Rec(k, n) PROVE n \in N
  <2>1. PICK braced \in BOOLEAN, x \in X : NameAt(f, braced, k, x) /\ n = NameRecord(braced, k, x)
        BY <1>3
  <2>2. n \in Names(f) /\ n.name = x
        BY <2>1, RecordIsName DEF NameRecord
  <2> QED BY <2>2
<1>4. ASSUME NEW k, NEW n, NEW m, Rec(k, n), Rec(k, m) PROVE n = m
  <2>1. PICK b1 \in BOOLEAN, x \in X : NameAt(f, b1, k, x) /\ n = NameRecord(b1, k, x)
        BY <1>4
  <2>2. PICK b2 \in BOOLEAN, y \in X : NameAt(f, b2, k, y) /\ m = NameRecord(b2, k, y)
        BY <1>4
  <2>3. b1 = b2 /\ x = y
        BY <2>1, <2>2, OneNameAt
  <2> QED BY <2>1, <2>2, <2>3
<1>5. ASSUME NEW k, NEW l, NEW n, Rec(k, n), Rec(l, n) PROVE k = l
  <2>1. PICK b1 \in BOOLEAN, x \in X : NameAt(f, b1, k, x) /\ n = NameRecord(b1, k, x)
        BY <1>5
  <2>2. PICK b2 \in BOOLEAN, y \in X : NameAt(f, b2, l, y) /\ n = NameRecord(b2, l, y)
        BY <1>5
  <2>3. k \in Nat /\ l \in Nat /\ f[k] = "$" /\ f[l] = "$"
        BY <2>1, <2>2, NameFacts
  <2>4. /\ n.place[1] = IF b1 THEN k + 1 ELSE k
        /\ n.place[1] = IF b2 THEN l + 1 ELSE l
        BY <2>1, <2>2 DEF NameRecord
  <2>5. (b1 => f[k + 1] = "{") /\ (b2 => f[l + 1] = "{")
        BY <2>1, <2>2, NameFacts
  <2>6. CASE b1 /\ ~b2
    <3>1. l = k + 1
          BY <2>4, <2>6
    <3> QED BY <2>3, <2>5, <2>6, <3>1
  <2>7. CASE ~b1 /\ b2
    <3>1. k = l + 1
          BY <2>4, <2>7
    <3> QED BY <2>3, <2>5, <2>7, <3>1
  <2>8. CASE b1 <=> b2
    <3>1. k + 1 = l + 1 \/ k = l
          BY <2>4, <2>8
    <3> QED BY <2>3, <3>1
  <2> QED BY <2>6, <2>7, <2>8
<1>6. ASSUME NEW n \in N PROVE \E k \in Starts(f, X) : Rec(k, n)
  <2>1. PICK braced \in BOOLEAN, k \in 1 .. Len(f) :
           NameAt(f, braced, k, n.name) /\ n = NameRecord(braced, k, n.name)
        BY NameHasPlace
  <2>2. n.name \in X
        OBVIOUS
  <2>3. k \in Starts(f, X) /\ Rec(k, n)
        BY <2>1, <2>2 DEF Starts
  <2> QED BY <2>3
<1>7. ExistsBijection(Starts(f, X), N)
  <2>0. DOMAIN g = Starts(f, X) /\ g = [k \in Starts(f, X) |-> g[k]]
        OBVIOUS
  <2> HIDE DEF g, N, Rec
  <2>1. g \in [Starts(f, X) -> N]
        BY <1>2, <1>3, <2>0
  <2>2. \A k, l \in Starts(f, X) : g[k] = g[l] => k = l
        BY <1>2, <1>5
  <2>3. \A n \in N : \E k \in Starts(f, X) : g[k] = n
        BY <1>2, <1>4, <1>6
  <2>4. g \in Bijection(Starts(f, X), N)
        BY <2>1, <2>2, <2>3, Fun_IsBij
  <2> QED BY <2>4 DEF ExistsBijection
<1> HIDE DEF N
<1>8. Cardinality(N) = Cardinality(Starts(f, X))
      BY <1>1, <1>7, FS_Bijection
<1> QED BY <1>1, <1>8 DEF N

LEMMA StartsJoined ==
    ASSUME NEW f, NEW p, NEW s, Cat(f, p, s), Reads(p), Meets(s), NEW X
    PROVE  Cardinality(Starts(f, X)) = Cardinality(Starts(p, X)) + Cardinality(Starts(s, X))
<1> DEFINE Moved == {k \in Len(p) + 1 .. Len(f) : k - Len(p) \in Starts(s, X)}
           g == [k \in Starts(s, X) |-> Len(p) + k]
<1>0. Len(f) \in Nat /\ Len(p) \in Nat /\ Len(s) \in Nat /\ Len(f) = Len(p) + Len(s)
      BY CatLengths
<1>1. /\ IsFiniteSet(Starts(p, X)) /\ Cardinality(Starts(p, X)) \in Nat
      /\ IsFiniteSet(Starts(s, X)) /\ Cardinality(Starts(s, X)) \in Nat
      BY CountedByStarts DEF Cat
<1>2. Starts(s, X) \subseteq 1 .. Len(s) /\ Starts(p, X) \subseteq 1 .. Len(p)
      BY DEF Starts
<1>3. IsFiniteSet(Moved) /\ Cardinality(Moved) = Cardinality(Starts(s, X))
  <2>1. g \in [Starts(s, X) -> Moved] /\ \A k \in Starts(s, X) : g[k] = Len(p) + k
    <3>1. \A k \in Starts(s, X) : Len(p) + k \in Len(p) + 1 .. Len(f) /\ (Len(p) + k) - Len(p) = k
          BY <1>0, <1>2
    <3> QED BY <3>1
  <2>2. \A k, l \in Starts(s, X) : g[k] = g[l] => k = l
    <3> HIDE DEF g
    <3> QED BY <1>0, <1>2, <2>1
  <2>3. \A n \in Moved : \E k \in Starts(s, X) : g[k] = n
    <3> SUFFICES ASSUME NEW n \in Moved PROVE g[n - Len(p)] = n
        OBVIOUS
    <3>1. n - Len(p) \in Starts(s, X) /\ Len(p) + (n - Len(p)) = n
          BY <1>0
    <3> HIDE DEF g
    <3> QED BY <2>1, <3>1
  <2> HIDE DEF g, Moved
  <2>4. g \in Bijection(Starts(s, X), Moved)
        BY <2>1, <2>2, <2>3, Fun_IsBij
  <2>5. ExistsBijection(Starts(s, X), Moved)
        BY <2>4 DEF ExistsBijection
  <2> QED BY <1>1, <2>5, FS_Bijection
<1>4. Starts(f, X) = Starts(p, X) \cup Moved
  <2>1. ASSUME NEW k \in Starts(f, X) PROVE k \in Starts(p, X) \cup Moved
    <3>1. PICK braced \in BOOLEAN, x \in X : k \in 1 .. Len(f) /\ NameAt(f, braced, k, x)
          BY <2>1 DEF Starts
    <3>2. CASE k \in 1 .. Len(p)
      <4>1. NameAt(p, braced, k, x)
            BY <3>1, <3>2, CatLeft
      <4> QED BY <3>2, <4>1 DEF Starts
    <3>3. CASE k \notin 1 .. Len(p)
      <4>1. PICK l : l = k - Len(p)
            OBVIOUS
      <4>2. l \in 1 .. Len(s) /\ k = Len(p) + l /\ k \in Len(p) + 1 .. Len(f)
            BY <1>0, <3>1, <3>3, <4>1
      <4>3. NameAt(s, braced, l, x)
            BY <3>1, <4>2, CatRight
      <4>4. l \in Starts(s, X)
            BY <4>2, <4>3 DEF Starts
      <4> QED BY <4>1, <4>2, <4>4
    <3> QED BY <3>2, <3>3
  <2>2. ASSUME NEW k \in Starts(p, X) PROVE k \in Starts(f, X)
    <3>1. PICK braced \in BOOLEAN, x \in X : k \in 1 .. Len(p) /\ NameAt(p, braced, k, x)
          BY <2>2 DEF Starts
    <3>2. k \in 1 .. Len(f) /\ NameAt(f, braced, k, x)
          BY <1>0, <3>1, CatLeft
    <3> QED BY <3>2 DEF Starts
  <2>3. ASSUME NEW k \in Moved PROVE k \in Starts(f, X)
    <3>1. PICK l \in Starts(s, X) : k = Len(p) + l /\ k \in 1 .. Len(f)
      <4>1. k - Len(p) \in Starts(s, X) /\ k = Len(p) + (k - Len(p)) /\ k \in 1 .. Len(f)
            BY <1>0
      <4> QED BY <4>1
    <3>2. PICK braced \in BOOLEAN, x \in X : l \in 1 .. Len(s) /\ NameAt(s, braced, l, x)
          BY <3>1 DEF Starts
    <3>3. NameAt(f, braced, k, x)
          BY <3>1, <3>2, CatRight
    <3> QED BY <3>1, <3>3 DEF Starts
  <2> QED BY <2>1, <2>2, <2>3
<1>5. Starts(p, X) \cap Moved = {}
      BY <1>0, <1>2
<1> HIDE DEF Moved
<1>6. Cardinality(Starts(p, X) \cap Moved) = 0
      BY <1>5, FS_EmptySet
<1>7. Cardinality(Starts(p, X) \cup Moved) = Cardinality(Starts(p, X)) + Cardinality(Moved) - 0
      BY <1>1, <1>3, <1>6, FS_Union
<1> QED BY <1>1, <1>3, <1>4, <1>7

LEMMA NoStarts ==
    ASSUME NEW f \in Seq(Lexemes), NEW X, X \cap (NamesIn(f, TRUE) \cup NamesIn(f, FALSE)) = {}
    PROVE  Cardinality(Starts(f, X)) = 0
<1>1. Starts(f, X) = {}
  <2> SUFFICES ASSUME NEW k \in 1 .. Len(f), NEW braced \in BOOLEAN, NEW x \in X, NameAt(f, braced, k, x)
               PROVE  FALSE
      BY DEF Starts
  <2>1. x \in Seq(Lexemes)
        BY DEF NameAt
  <2>2. x \in NamesIn(f, braced) /\ (braced = TRUE \/ braced = FALSE)
        BY <2>1 DEF NamesIn
  <2> QED BY <2>2
<1> QED BY <1>1, FS_EmptySet

----------------------------------------------------------------------------
(* Where the text of $all stands.                                          *)

Old(braced) == IF braced THEN BracedAll ELSE PlainAll
Size(braced) == IF braced THEN 4 ELSE 2

\* It stands at k.
Stands(f, braced, k) ==
    /\ k \in Nat \ {0} /\ f[k] = "$"
    /\ IF braced THEN k + 3 <= Len(f) /\ f[k + 1] = "{" /\ f[k + 2] = "all" /\ f[k + 3] = "}"
       ELSE k + 1 <= Len(f) /\ f[k + 1] = "all"

LEMMA TuplesOf ==
    ASSUME NEW S, NEW a \in S, NEW b \in S, NEW c \in S, NEW d \in S
    PROVE  /\ <<a>> \in Seq(S) /\ Len(<<a>>) = 1 /\ <<a>> # <<>>
           /\ <<a, b>> \in Seq(S) /\ Len(<<a, b>>) = 2
           /\ <<a, b, c, d>> \in Seq(S) /\ Len(<<a, b, c, d>>) = 4
OBVIOUS

LEMMA Tuples ==
    /\ PlainAll \in Seq(Lexemes) /\ Len(PlainAll) = 2 /\ PlainAll[1] = "$" /\ PlainAll[2] = "all"
    /\ BracedAll \in Seq(Lexemes) /\ Len(BracedAll) = 4 /\ BracedAll[1] = "$" /\ BracedAll[2] = "{"
    /\ BracedAll[3] = "all" /\ BracedAll[4] = "}"
    /\ All \in Seq(Lexemes) /\ Len(All) = 1 /\ All[1] = "all" /\ All # <<>>
<1>0. "$" \in Lexemes /\ "{" \in Lexemes /\ "}" \in Lexemes /\ "all" \in Lexemes
      BY DEF Lexemes, Marks
<1>1. /\ <<"all">> \in Seq(Lexemes) /\ Len(<<"all">>) = 1 /\ <<"all">> # <<>>
      /\ <<"$", "all">> \in Seq(Lexemes) /\ Len(<<"$", "all">>) = 2
      /\ <<"$", "{", "all", "}">> \in Seq(Lexemes) /\ Len(<<"$", "{", "all", "}">>) = 4
      BY <1>0, TuplesOf, Zenon
<1>2. /\ <<"all">>[1] = "all" /\ <<"$", "all">>[1] = "$" /\ <<"$", "all">>[2] = "all"
      /\ <<"$", "{", "all", "}">>[1] = "$" /\ <<"$", "{", "all", "}">>[2] = "{"
      /\ <<"$", "{", "all", "}">>[3] = "all" /\ <<"$", "{", "all", "}">>[4] = "}"
      OBVIOUS
<1> QED BY <1>1, <1>2, Zenon DEF PlainAll, BracedAll, All

LEMMA OldIs ==
    ASSUME NEW braced \in BOOLEAN
    PROVE  /\ Old(braced) \in Seq(Lexemes) /\ Len(Old(braced)) = Size(braced)
           /\ Size(braced) \in Nat /\ Size(braced) > 0 /\ Size(braced) >= 2
           /\ Old(braced)[1] = "$"
<1>1. CASE braced
  <2>1. Old(braced) = BracedAll /\ Size(braced) = 4
        BY <1>1 DEF Old, Size
  <2>2. Old(braced) \in Seq(Lexemes) /\ Len(Old(braced)) = Size(braced) /\ Old(braced)[1] = "$"
        BY <2>1, Tuples, Zenon
  <2>3. Size(braced) \in Nat /\ Size(braced) > 0 /\ Size(braced) >= 2
        BY <2>1
  <2> QED BY <2>2, <2>3, Zenon
<1>2. CASE ~braced
  <2>1. Old(braced) = PlainAll /\ Size(braced) = 2
        BY <1>2 DEF Old, Size
  <2>2. Old(braced) \in Seq(Lexemes) /\ Len(Old(braced)) = Size(braced) /\ Old(braced)[1] = "$"
        BY <2>1, Tuples, Zenon
  <2>3. Size(braced) \in Nat /\ Size(braced) > 0 /\ Size(braced) >= 2
        BY <2>1
  <2> QED BY <2>2, <2>3, Zenon
<1> QED BY <1>1, <1>2

LEMMA StandsElements ==
    ASSUME NEW f \in Seq(Lexemes), NEW braced \in BOOLEAN, NEW k \in Nat \ {0}
    PROVE  Stands(f, braced, k) <=> /\ k + Size(braced) <= Len(f) + 1
                                    /\ \A j \in 1 .. Size(braced) : f[(k - 1) + j] = Old(braced)[j]
<1>0. Len(f) \in Nat /\ (k - 1) + 1 = k /\ (k - 1) + 2 = k + 1 /\ (k - 1) + 3 = k + 2 /\ (k - 1) + 4 = k + 3
      OBVIOUS
<1>1. CASE braced
  <2>1. Size(braced) = 4 /\ 1 .. 4 = {1, 2, 3, 4}
        BY <1>1 DEF Size
  <2>2. (\A j \in 1 .. 4 : f[(k - 1) + j] = Old(braced)[j])
           <=> f[k] = "$" /\ f[k + 1] = "{" /\ f[k + 2] = "all" /\ f[k + 3] = "}"
    <3>1. \A j : j \in 1 .. 4 <=> j = 1 \/ j = 2 \/ j = 3 \/ j = 4
          BY <2>1
    <3> QED BY <1>0, <1>1, <3>1, Tuples DEF Old
  <2>3. k + 4 <= Len(f) + 1 <=> k + 3 <= Len(f)
        BY <1>0
  <2> QED BY <1>1, <2>1, <2>2, <2>3 DEF Stands
<1>2. CASE ~braced
  <2>1. Size(braced) = 2 /\ 1 .. 2 = {1, 2}
        BY <1>2 DEF Size
  <2>2. (\A j \in 1 .. 2 : f[(k - 1) + j] = Old(braced)[j]) <=> f[k] = "$" /\ f[k + 1] = "all"
    <3>1. \A j : j \in 1 .. 2 <=> j = 1 \/ j = 2
          BY <2>1
    <3> QED BY <1>0, <1>2, <3>1, Tuples DEF Old
  <2>3. k + 2 <= Len(f) + 1 <=> k + 1 <= Len(f)
        BY <1>0
  <2> QED BY <1>2, <2>1, <2>2, <2>3 DEF Stands
<1> QED BY <1>1, <1>2

\* The comparison of Replace finds it.
LEMMA FoundWhereItStands ==
    ASSUME NEW f \in Seq(Lexemes), NEW braced \in BOOLEAN, NEW k \in Nat \ {0}
    PROVE  (/\ k + Len(Old(braced)) <= Len(f) + 1
            /\ SubSeq(f, k, k + Len(Old(braced)) - 1) = Old(braced)) <=> Stands(f, braced, k)
<1>0. /\ Old(braced) \in Seq(Lexemes) /\ Len(Old(braced)) = Size(braced) /\ Size(braced) \in Nat
      /\ Size(braced) > 0 /\ Len(f) \in Nat
      BY OldIs
<1>1. SUFFICES ASSUME k + Size(braced) <= Len(f) + 1
               PROVE  SubSeq(f, k, k + Size(braced) - 1) = Old(braced)
                         <=> \A j \in 1 .. Size(braced) : f[(k - 1) + j] = Old(braced)[j]
      BY <1>0, StandsElements
<1>2. PICK a \in Nat, b \in 0 .. Len(f) :
         a = k - 1 /\ b = k + Size(braced) - 1 /\ a <= b /\ b - a = Size(braced) /\ a + 1 = k
  <2>1. k - 1 \in Nat /\ k + Size(braced) - 1 \in 0 .. Len(f) /\ k - 1 <= k + Size(braced) - 1
        /\ (k + Size(braced) - 1) - (k - 1) = Size(braced) /\ (k - 1) + 1 = k
        BY <1>0, <1>1
  <2> QED BY <2>1
<1>3. PICK part : part = SubSeq(f, k, k + Size(braced) - 1)
      OBVIOUS
<1>4. /\ part \in Seq(Lexemes) /\ Len(part) = Size(braced)
      /\ \A j \in 1 .. Size(braced) : part[j] = f[(k - 1) + j]
  <2>1. part = SubSeq(f, a + 1, b)
        BY <1>2, <1>3
  <2>2. /\ part \in Seq(Lexemes) /\ Len(part) = b - a
        /\ \A j \in 1 .. b - a : part[j] = f[a + j]
    <3>1. a <= b
          BY <1>2
    <3> QED BY <2>1, <3>1, PartOf
  <2> QED BY <1>2, <2>2
<1>5. ASSUME \A j \in 1 .. Size(braced) : f[(k - 1) + j] = Old(braced)[j] PROVE part = Old(braced)
  <2>1. \A j \in 1 .. Len(part) : part[j] = Old(braced)[j]
        BY <1>4, <1>5
  <2>2. part \in Seq(Lexemes) /\ Old(braced) \in Seq(Lexemes) /\ Len(part) = Len(Old(braced))
        BY <1>0, <1>4
  <2> QED BY <2>1, <2>2, SeqEqual
<1> QED BY <1>3, <1>4, <1>5

LEMMA HeldWhereItStands ==
    ASSUME NEW f \in Seq(Lexemes), NEW braced \in BOOLEAN
    PROVE  Holds(f, Old(braced)) <=> \E k \in 1 .. Len(f) : Stands(f, braced, k)
<1>0. /\ Len(Old(braced)) = Size(braced) /\ Size(braced) \in Nat /\ Size(braced) > 0 /\ Len(f) \in Nat
      BY OldIs
<1>1. ASSUME NEW i \in 0 .. Len(f), NEW j \in 0 .. Len(f), Old(braced) = SubSeq(f, i + 1, j)
      PROVE  \E k \in 1 .. Len(f) : Stands(f, braced, k)
  <2>1. i <= j
    <3> SUFFICES ASSUME ~(i <= j) PROVE FALSE
        OBVIOUS
    <3>1. i + 1 > j
          BY <1>0
    <3>2. Len(SubSeq(f, i + 1, j)) = 0
          BY <1>0, <3>1
    <3> QED BY <1>0, <1>1, <3>2
  <2>2. Len(SubSeq(f, i + 1, j)) = j - i
        BY <2>1, PartOf
  <2>3. /\ j = (i + 1) + Size(braced) - 1 /\ (i + 1) + Size(braced) <= Len(f) + 1
        /\ i + 1 \in 1 .. Len(f) /\ i + 1 \in Nat \ {0}
        BY <1>0, <1>1, <2>2
  <2>4. Stands(f, braced, i + 1)
        BY <1>0, <1>1, <2>3, FoundWhereItStands
  <2> QED BY <2>3, <2>4
<1>2. ASSUME NEW k \in 1 .. Len(f), Stands(f, braced, k)
      PROVE  \E i, j \in 0 .. Len(f) : Old(braced) = SubSeq(f, i + 1, j)
  <2>1. k + Size(braced) <= Len(f) + 1 /\ SubSeq(f, k, k + Size(braced) - 1) = Old(braced)
    <3>1. k \in Nat \ {0}
          OBVIOUS
    <3>2. /\ k + Len(Old(braced)) <= Len(f) + 1
          /\ SubSeq(f, k, k + Len(Old(braced)) - 1) = Old(braced)
          BY <1>2, <3>1, FoundWhereItStands
    <3> QED BY <1>0, <3>2
  <2>2. /\ k - 1 \in 0 .. Len(f) /\ (k - 1) + 1 = k /\ k + Size(braced) - 1 \in 0 .. Len(f)
        BY <1>0, <2>1
  <2> QED BY <2>1, <2>2
<1> QED BY <1>1, <1>2 DEF Holds, SubSeqs

\* No word follows it.
Apart(f, braced) ==
    \A k \in 1 .. Len(f) :
       Stands(f, braced, k) => k + Size(braced) > Len(f) \/ f[k + Size(braced)] \in Marks

LEMMA StandsForItself ==
    ASSUME NEW f \in Seq(Lexemes), NEW braced \in BOOLEAN, NEW k \in 1 .. Len(f)
    PROVE  /\ NameAt(f, braced, k, All) => Stands(f, braced, k)
           /\ Apart(f, braced) /\ Stands(f, braced, k) => NameAt(f, braced, k, All)
<1>0. /\ All \in Seq(Lexemes) /\ Len(All) = 1 /\ All[1] = "all" /\ All # <<>>
      /\ "all" \notin Marks /\ Len(f) \in Nat
  <2>1. "all" \notin Marks
        BY DEF Marks
  <2>2. Len(f) \in Nat
        OBVIOUS
  <2> QED BY <2>1, <2>2, Tuples, Zenon
<1>1. \A i : Spells(f, i, All) <=> i + 1 \in 1 .. Len(f) /\ f[i + 1] = "all"
  <2>1. \A j : j \in 1 .. Len(All) <=> j = 1
        BY <1>0
  <2> QED BY <1>0, <2>1 DEF Spells
<1>2. CASE braced
  <2>1. /\ k + 3 \in 1 .. Len(f) <=> k + 3 <= Len(f)
        /\ k + 3 <= Len(f) => k + 1 \in 1 .. Len(f) /\ k + 2 \in 1 .. Len(f)
        /\ (k + 1) + 1 = k + 2 /\ k + 1 + 2 = k + 3
        /\ k \in Nat \ {0}
        BY <1>0
  <2>2. NameAt(f, TRUE, k, All) <=> Stands(f, TRUE, k)
        BY <1>0, <1>1, <2>1 DEF NameAt, Stands
  <2> QED BY <1>2, <2>2
<1>3. CASE ~braced
  <2>1. /\ k + 1 \in 1 .. Len(f) <=> k + 1 <= Len(f)
        /\ k \in Nat \ {0} /\ k + 1 + 1 = k + 2
        /\ k + 1 <= Len(f) => (k + 2 > Len(f) => k + 1 = Len(f))
        BY <1>0
  <2>2. /\ NameAt(f, FALSE, k, All) => Stands(f, FALSE, k)
        /\ Stands(f, FALSE, k) /\ (k + 2 > Len(f) \/ f[k + 2] \in Marks) => NameAt(f, FALSE, k, All)
        BY <1>0, <1>1, <2>1 DEF NameAt, Stands
  <2> QED BY <1>3, <2>2 DEF Apart, Size
<1> QED BY <1>2, <1>3

LEMMA ApartLeft ==
    ASSUME NEW f, NEW p, NEW s, Cat(f, p, s), Apart(f, FALSE)
    PROVE  Apart(p, FALSE)
<1>0. Len(f) \in Nat /\ Len(p) \in Nat /\ Len(s) \in Nat /\ Len(f) = Len(p) + Len(s)
      BY CatLengths
<1>s. Size(FALSE) = 2
      BY DEF Size
<1> SUFFICES ASSUME NEW k \in 1 .. Len(p), Stands(p, FALSE, k), ~(k + 2 > Len(p)) PROVE p[k + 2] \in Marks
    BY <1>s DEF Apart
<1>1. k + 1 \in 1 .. Len(p) /\ k + 2 \in 1 .. Len(p) /\ k \in 1 .. Len(f) /\ k + 1 <= Len(f) /\ k + 2 <= Len(f)
      BY <1>0
<1>2. f[k] = p[k] /\ f[k + 1] = p[k + 1] /\ f[k + 2] = p[k + 2]
      BY <1>1 DEF Cat
<1>3. Stands(f, FALSE, k)
      BY <1>1, <1>2 DEF Stands
<1>4. k + 2 > Len(f) \/ f[k + 2] \in Marks
      BY <1>s, <1>1, <1>3 DEF Apart
<1> QED BY <1>0, <1>1, <1>2, <1>4

LEMMA StandsRight ==
    ASSUME NEW f, NEW p, NEW s, Cat(f, p, s), NEW braced \in BOOLEAN, NEW k \in 1 .. Len(s)
    PROVE  Stands(f, braced, Len(p) + k) <=> Stands(s, braced, k)
<1>0. Len(f) \in Nat /\ Len(p) \in Nat /\ Len(s) \in Nat /\ Len(f) = Len(p) + Len(s)
      BY CatLengths
<1>1. \A i \in {0, 1, 2, 3} : /\ (Len(p) + k) + i = Len(p) + (k + i)
                              /\ (Len(p) + k) + i <= Len(f) <=> k + i <= Len(s)
                              /\ k + i <= Len(s) <=> k + i \in 1 .. Len(s)
      BY <1>0
<1>2. \A i \in {0, 1, 2, 3} : k + i <= Len(s) => f[(Len(p) + k) + i] = s[k + i]
      BY <1>1 DEF Cat
<1>3. k + 0 = k /\ (Len(p) + k) + 0 = Len(p) + k /\ k \in Nat \ {0} /\ Len(p) + k \in Nat \ {0}
      /\ (k + 3 <= Len(s) => k + 2 <= Len(s) /\ k + 1 <= Len(s)) /\ k + 0 <= Len(s)
      BY <1>0
<1> QED BY <1>1, <1>2, <1>3 DEF Stands

LEMMA ApartRight ==
    ASSUME NEW f, NEW p, NEW s, Cat(f, p, s), NEW braced \in BOOLEAN, Apart(f, braced)
    PROVE  Apart(s, braced)
<1>0. Len(f) \in Nat /\ Len(p) \in Nat /\ Len(s) \in Nat /\ Len(f) = Len(p) + Len(s)
      /\ Size(braced) \in Nat
      BY CatLengths DEF Size
<1> SUFFICES ASSUME NEW k \in 1 .. Len(s), Stands(s, braced, k), k + Size(braced) <= Len(s)
             PROVE  s[k + Size(braced)] \in Marks
    BY <1>0 DEF Apart
<1>1. /\ Len(p) + k \in 1 .. Len(f) /\ (Len(p) + k) + Size(braced) = Len(p) + (k + Size(braced))
      /\ (Len(p) + k) + Size(braced) <= Len(f) /\ k + Size(braced) \in 1 .. Len(s)
      BY <1>0
<1>2. Stands(f, braced, Len(p) + k)
      BY StandsRight
<1>3. f[(Len(p) + k) + Size(braced)] \in Marks
      BY <1>0, <1>1, <1>2 DEF Apart
<1>4. f[Len(p) + (k + Size(braced))] = s[k + Size(braced)]
      BY <1>1 DEF Cat
<1> QED BY <1>1, <1>3, <1>4

LEMMA ApartJoined ==
    ASSUME NEW f, NEW p, NEW s, Cat(f, p, s), Reads(p), Meets(s), Apart(p, FALSE), Apart(s, FALSE)
    PROVE  Apart(f, FALSE)
<1>0. Len(f) \in Nat /\ Len(p) \in Nat /\ Len(s) \in Nat /\ Len(f) = Len(p) + Len(s)
      BY CatLengths
<1>s. Size(FALSE) = 2
      BY DEF Size
<1> SUFFICES ASSUME NEW k \in 1 .. Len(f), Stands(f, FALSE, k), ~(k + 2 > Len(f)) PROVE f[k + 2] \in Marks
    BY <1>s DEF Apart
<1>1. CASE k \in 1 .. Len(p)
  <2>1. p[k] = "$"
        BY <1>1 DEF Cat, Stands
  <2>2. k < Len(p)
        BY <1>1, <2>1 DEF Reads
  <2>3. k + 1 \in 1 .. Len(p) /\ k + 1 <= Len(p)
        BY <1>0, <2>2
  <2>4. Stands(p, FALSE, k)
        BY <1>0, <1>1, <2>1, <2>3 DEF Stands, Cat
  <2>5. k + 2 > Len(p) \/ p[k + 2] \in Marks
        BY <1>s, <1>1, <2>4 DEF Apart
  <2>6. CASE k + 2 <= Len(p)
    <3>1. k + 2 \in 1 .. Len(p)
          BY <1>0, <2>6
    <3>2. f[k + 2] = p[k + 2]
          BY <3>1 DEF Cat
    <3> QED BY <1>0, <2>5, <2>6, <3>2
  <2>7. CASE k + 2 > Len(p)
    <3>1. k + 2 = Len(p) + 1 /\ Len(s) # 0 /\ 1 \in 1 .. Len(s)
          BY <1>0, <2>3, <2>7
    <3>2. f[k + 2] = s[1]
          BY <3>1 DEF Cat
    <3> QED BY <3>1, <3>2 DEF Meets
  <2> QED BY <1>0, <2>6, <2>7
<1>2. CASE k \notin 1 .. Len(p)
  <2>1. PICK l \in 1 .. Len(s) : k = Len(p) + l
    <3>1. k - Len(p) \in 1 .. Len(s) /\ k = Len(p) + (k - Len(p))
          BY <1>0, <1>2
    <3> QED BY <3>1
  <2>2. Stands(s, FALSE, l)
        BY <2>1, StandsRight
  <2>3. l + 2 > Len(s) \/ s[l + 2] \in Marks
        BY <1>s, <2>2 DEF Apart
  <2>4. l + 2 \in 1 .. Len(s) /\ k + 2 = Len(p) + (l + 2)
        BY <1>0, <2>1
  <2>5. f[k + 2] = s[l + 2]
        BY <2>4 DEF Cat
  <2> QED BY <2>3, <2>4, <2>5
<1> QED BY <1>1, <1>2

----------------------------------------------------------------------------
(* The replacement of a text.                                              *)

\* The equation of the recursion.
Step(text, braced, new, f, i) ==
    IF i > Len(text) THEN <<>>
    ELSE IF Stands(text, braced, i) THEN new \o f[i + Size(braced)]
    ELSE <<text[i]>> \o f[i + 1]

LEMMA StepLooksAhead ==
    ASSUME NEW text \in Seq(Lexemes), NEW braced \in BOOLEAN, NEW new, NEW f, NEW g,
           NEW i \in 1 .. Len(text) + 1, \A j \in i + 1 .. Len(text) + 1 : f[j] = g[j]
    PROVE  Step(text, braced, new, f, i) = Step(text, braced, new, g, i)
<1>0. Len(text) \in Nat /\ Size(braced) \in Nat /\ Size(braced) > 0
      BY OldIs
<1>1. CASE i > Len(text)
      BY <1>1 DEF Step
<1>2. CASE ~(i > Len(text)) /\ Stands(text, braced, i)
  <2>1. i + Size(braced) \in i + 1 .. Len(text) + 1
    <3>1. i \in Nat \ {0}
          BY <1>0
    <3>2. i + Size(braced) <= Len(text) + 1
          BY <1>2, <3>1, StandsElements
    <3> QED BY <1>0, <3>1, <3>2
  <2> QED BY <1>2, <2>1 DEF Step
<1>3. CASE ~(i > Len(text)) /\ ~Stands(text, braced, i)
  <2>1. i + 1 \in i + 1 .. Len(text) + 1
        BY <1>0, <1>3
  <2> QED BY <1>3, <2>1 DEF Step
<1> QED BY <1>1, <1>2, <1>3

LEMMA StepsExist ==
    ASSUME NEW text \in Seq(Lexemes), NEW braced \in BOOLEAN, NEW new
    PROVE  \E f : f = [i \in 1 .. Len(text) + 1 |-> Step(text, braced, new, f, i)]
<1> DEFINE n == Len(text)
           Solves(g, i) == \A j \in i .. n + 1 : g[j] = Step(text, braced, new, g, j)
           T == {i \in 1 .. n + 1 : \E g : Solves(g, i)}
<1>0. n \in Nat
      OBVIOUS
<1>1. ASSUME NEW i \in 1 .. n + 1, \A j \in i + 1 .. n + 1 : j \in T PROVE i \in T
  <2>1. \E g : Solves(g, i + 1)
    <3>1. CASE i = n + 1
          BY <1>0, <3>1
    <3>2. CASE i # n + 1
      <4>1. i + 1 \in i + 1 .. n + 1
            BY <1>0, <3>2
      <4>2. i + 1 \in T
            BY <1>1, <4>1
      <4> QED BY <4>2
    <3> QED BY <3>1, <3>2
  <2>2. PICK g : Solves(g, i + 1)
        BY <2>1
  <2> DEFINE h == [j \in 1 .. n + 1 |-> IF j = i THEN Step(text, braced, new, g, i) ELSE g[j]]
  <2>3. h[i] = Step(text, braced, new, g, i) /\ \A j \in i + 1 .. n + 1 : h[j] = g[j]
        BY <1>0
  <2> HIDE DEF h
  <2>4. \A j \in i .. n + 1 : Step(text, braced, new, h, j) = Step(text, braced, new, g, j)
    <3> SUFFICES ASSUME NEW j \in i .. n + 1
                 PROVE  Step(text, braced, new, h, j) = Step(text, braced, new, g, j)
        OBVIOUS
    <3>1. j \in 1 .. Len(text) + 1 /\ \A l \in j + 1 .. Len(text) + 1 : h[l] = g[l]
          BY <1>0, <2>3
    <3> QED BY <3>1, StepLooksAhead
  <2>5. Solves(h, i)
    <3> SUFFICES ASSUME NEW j \in i .. n + 1 PROVE h[j] = Step(text, braced, new, h, j)
        OBVIOUS
    <3>1. CASE j = i
          BY <2>3, <2>4, <3>1
    <3>2. CASE j # i
      <4>1. j \in i + 1 .. n + 1
            BY <1>0, <3>2
      <4> QED BY <2>2, <2>3, <2>4, <4>1
    <3> QED BY <3>1, <3>2
  <2> HIDE DEF Solves
  <2> QED BY <2>5
<1>2. \A i \in 1 .. n + 1 : i \in T
  <2> HIDE DEF T, n
  <2> QED BY <1>0, <1>1, Backwards
<1>3. PICK g : Solves(g, 1)
  <2>1. 1 \in T
        BY <1>0, <1>2
  <2> HIDE DEF Solves
  <2> QED BY <2>1
<1> DEFINE h == [j \in 1 .. n + 1 |-> g[j]]
<1>4. \A j \in 1 .. n + 1 : h[j] = g[j]
      OBVIOUS
<1>5. \A j \in 1 .. n + 1 : Step(text, braced, new, h, j) = Step(text, braced, new, g, j)
  <2> SUFFICES ASSUME NEW j \in 1 .. n + 1
               PROVE  Step(text, braced, new, h, j) = Step(text, braced, new, g, j)
      OBVIOUS
  <2> HIDE DEF h
  <2>1. \A l \in j + 1 .. Len(text) + 1 : h[l] = g[l]
        BY <1>0, <1>4
  <2> QED BY <2>1, StepLooksAhead
<1>6. h = [j \in 1 .. n + 1 |-> Step(text, braced, new, h, j)]
  <2>1. \A j \in 1 .. n + 1 : g[j] = Step(text, braced, new, h, j)
        BY <1>3, <1>5
  <2> QED BY <2>1
<1> QED BY <1>6

\* Replace is what that equation makes of the first place.
LEMMA ReplaceSteps ==
    ASSUME NEW text \in Seq(Lexemes), NEW braced \in BOOLEAN, NEW new
    PROVE  \E f : /\ \A i \in 1 .. Len(text) + 1 : f[i] = Step(text, braced, new, f, i)
                  /\ Replace(text, Old(braced), new) = f[1]
<1> DEFINE old == Old(braced)
           Eq(f) == f = [i \in 1 .. Len(text) + 1 |->
                           IF i > Len(text) THEN <<>>
                           ELSE IF i + Len(old) <= Len(text) + 1 /\ SubSeq(text, i, i + Len(old) - 1) = old
                           THEN new \o f[i + Len(old)]
                           ELSE <<text[i]>> \o f[i + 1]]
<1>1. Replace(text, old, new) = (CHOOSE f : Eq(f))[1]
      BY DEF Replace
<1>2. ASSUME NEW f
      PROVE  Eq(f) <=> f = [i \in 1 .. Len(text) + 1 |-> Step(text, braced, new, f, i)]
  <2>1. ASSUME NEW i \in 1 .. Len(text) + 1
        PROVE  (IF i > Len(text) THEN <<>>
                ELSE IF i + Len(old) <= Len(text) + 1 /\ SubSeq(text, i, i + Len(old) - 1) = old
                THEN new \o f[i + Len(old)]
                ELSE <<text[i]>> \o f[i + 1]) = Step(text, braced, new, f, i)
    <3>1. i \in Nat \ {0} /\ Len(old) = Size(braced)
          BY OldIs
    <3>2. (i + Len(old) <= Len(text) + 1 /\ SubSeq(text, i, i + Len(old) - 1) = old) <=> Stands(text, braced, i)
          BY <3>1, FoundWhereItStands
    <3> HIDE DEF old
    <3> QED BY <3>1, <3>2 DEF Step
  <2> HIDE DEF old
  <2> QED BY <2>1
<1>3. \E f : Eq(f)
  <2>1. PICK f : f = [i \in 1 .. Len(text) + 1 |-> Step(text, braced, new, f, i)]
        BY StepsExist
  <2> HIDE DEF Eq
  <2> QED BY <1>2, <2>1
<1> HIDE DEF Eq
<1>4. Eq(CHOOSE g : Eq(g))
      BY <1>3
<1>5. PICK g : g = (CHOOSE h : Eq(h))
      OBVIOUS
<1>6. g = [i \in 1 .. Len(text) + 1 |-> Step(text, braced, new, g, i)] /\ Replace(text, old, new) = g[1]
      BY <1>1, <1>2, <1>4, <1>5
<1>7. \A i \in 1 .. Len(text) + 1 : g[i] = Step(text, braced, new, g, i)
      BY <1>6
<1> QED BY <1>6, <1>7

----------------------------------------------------------------------------
(* What the replacement makes of a text.                                   *)

\* What is put there does not change what stands around it, has only names
\* without braces, and none of them in X.
Fits(new, X) ==
    /\ Reads(new) /\ Meets(new) /\ Apart(new, FALSE)
    /\ NamesIn(new, TRUE) = {} /\ NamesIn(new, FALSE) \cap (X \cup {All}) = {}
    /\ All \notin X

\* f has the names of text without $all, and those that are put for it.  The
\* names in X come as often.
Becomes(text, f, braced, new, X) ==
    /\ Reads(f) /\ (Meets(text) => Meets(f)) /\ (Apart(text, FALSE) => Apart(f, FALSE))
    /\ NamesIn(f, TRUE) = NamesIn(text, TRUE) \ (IF braced THEN {All} ELSE {})
    /\ NamesIn(f, FALSE) = (NamesIn(text, FALSE) \ (IF braced THEN {} ELSE {All}))
                              \cup (IF All \in NamesIn(text, braced) THEN NamesIn(new, FALSE) ELSE {})
    /\ Cardinality(Starts(f, X)) = Cardinality(Starts(text, X))

LEMMA BecomesItself ==
    ASSUME NEW text, NEW braced \in BOOLEAN, NEW new, NEW X, Reads(text),
           \A k \in 1 .. Len(text) : ~Stands(text, braced, k)
    PROVE  Becomes(text, text, braced, new, X)
<1>1. All \notin NamesIn(text, braced)
      BY StandsForItself DEF NamesIn, Reads
<1>2. CASE braced
  <2>1. braced = TRUE
        BY <1>2
  <2> QED BY <1>1, <2>1 DEF Becomes
<1>3. CASE ~braced
  <2>1. braced = FALSE
        BY <1>3
  <2> QED BY <1>1, <2>1 DEF Becomes
<1> QED BY <1>2, <1>3

LEMMA OldNames ==
    ASSUME NEW braced \in BOOLEAN
    PROVE  /\ Reads(Old(braced)) /\ NamesIn(Old(braced), braced) = {All}
           /\ \A other \in BOOLEAN : other # braced => NamesIn(Old(braced), other) = {}
<1> DEFINE old == Old(braced)
<1>0. old \in Seq(Lexemes) /\ Len(old) = Size(braced) /\ Size(braced) \in Nat /\ Size(braced) >= 2
      BY OldIs
<1>1. \A k \in 1 .. Len(old) : old[k] = "$" => k = 1
  <2>1. CASE braced
    <3>1. old = BracedAll /\ Len(old) = 4
          BY <2>1, Tuples, Zenon DEF Old
    <3>2. \A k \in 1 .. 4 : k = 1 \/ k = 2 \/ k = 3 \/ k = 4
          OBVIOUS
    <3>3. BracedAll[2] # "$" /\ BracedAll[3] # "$" /\ BracedAll[4] # "$"
          BY Tuples
    <3> HIDE DEF old
    <3> QED BY <3>1, <3>2, <3>3
  <2>2. CASE ~braced
    <3>1. old = PlainAll /\ Len(old) = 2
          BY <2>2, Tuples, Zenon DEF Old
    <3>2. \A k \in 1 .. 2 : k = 1 \/ k = 2
          OBVIOUS
    <3>3. PlainAll[2] # "$"
          BY Tuples
    <3> HIDE DEF old
    <3> QED BY <3>1, <3>2, <3>3
  <2> QED BY <2>1, <2>2
<1>2. Stands(old, braced, 1)
  <2>1. 1 \in Nat \ {0} /\ 1 + Size(braced) <= Len(old) + 1 /\ \A j \in 1 .. Size(braced) : (1 - 1) + j = j
        BY <1>0
  <2> HIDE DEF old
  <2>2. Old(braced) = old
        BY DEF old
  <2>3. \A j \in 1 .. Size(braced) : old[(1 - 1) + j] = Old(braced)[j]
        BY <2>1, <2>2
  <2> QED BY <1>0, <2>1, <2>3, StandsElements
<1> HIDE DEF old
<1>3. Apart(old, braced)
  <2> SUFFICES ASSUME NEW k \in 1 .. Len(old), Stands(old, braced, k) PROVE k + Size(braced) > Len(old)
      BY DEF Apart
  <2>1. k = 1
        BY <1>1 DEF Stands
  <2> QED BY <1>0, <2>1
<1>4. 1 \in 1 .. Len(old)
      BY <1>0
<1>5. NameAt(old, braced, 1, All)
      BY <1>0, <1>2, <1>3, <1>4, StandsForItself
<1>6. ASSUME NEW other \in BOOLEAN, NEW k \in 1 .. Len(old), NEW x, NameAt(old, other, k, x)
      PROVE  other = braced /\ x = All
  <2>1. old[k] = "$"
        BY <1>0, <1>6, NameFacts
  <2>2. k = 1
        BY <1>1, <2>1
  <2> QED BY <1>0, <1>5, <1>6, <2>2, OneNameAt
<1>7. All \in Seq(Lexemes)
      BY Tuples, Zenon
<1>8. NamesIn(old, braced) = {All}
      BY <1>4, <1>5, <1>6, <1>7 DEF NamesIn
<1>9. \A other \in BOOLEAN : other # braced => NamesIn(old, other) = {}
      BY <1>6 DEF NamesIn
<1>10. Reads(old)
  <2> SUFFICES ASSUME NEW k \in 1 .. Len(old), old[k] = "$"
               PROVE  k < Len(old) /\ (old[k + 1] \in Marks => \E x : NameAt(old, TRUE, k, x))
      BY <1>0 DEF Reads
  <2>1. k = 1 /\ k < Len(old)
        BY <1>0, <1>1
  <2>2. CASE braced
    <3>1. braced = TRUE
          BY <2>2
    <3> QED BY <1>5, <2>1, <3>1
  <2>3. CASE ~braced
    <3>1. old[2] = "all"
      <4>1. old = PlainAll
            BY <2>3 DEF old, Old
      <4> QED BY <4>1, Tuples, Zenon
    <3>2. k + 1 = 2 /\ "all" \notin Marks
          BY <2>1 DEF Marks
    <3> QED BY <2>1, <3>1, <3>2
  <2> QED BY <2>2, <2>3
<1> QED BY <1>8, <1>9, <1>10 DEF old

\* The same before it on both sides.
LEMMA BecomesAfter ==
    ASSUME NEW braced \in BOOLEAN, NEW new, NEW X, NEW p,
           NEW text, NEW f, NEW whole, NEW all, Cat(whole, p, text), Cat(all, p, f),
           Becomes(text, f, braced, new, X), Reads(p), Meets(text), All \notin NamesIn(p, braced)
    PROVE  Becomes(whole, all, braced, new, X)
<1>1. Reads(f) /\ Meets(f)
      BY DEF Becomes
<1>2. Reads(all)
      BY <1>1, ReadsJoined
<1>3. Meets(whole) => Meets(all)
  <2>1. Len(whole) \in Nat /\ Len(p) \in Nat /\ Len(text) \in Nat /\ Len(whole) = Len(p) + Len(text)
        /\ Len(all) \in Nat /\ Len(f) \in Nat /\ Len(all) = Len(p) + Len(f)
        BY CatLengths
  <2>2. CASE Len(p) = 0
    <3>1. CASE Len(f) = 0
          BY <2>1, <2>2, <3>1 DEF Meets
    <3>2. CASE Len(f) # 0
      <4>1. 1 \in 1 .. Len(f) /\ Len(p) + 1 = 1
            BY <2>1, <2>2, <3>2
      <4>2. all[1] = f[1]
            BY <4>1 DEF Cat
      <4> QED BY <1>1, <3>2, <4>2 DEF Meets
    <3> QED BY <3>1, <3>2
  <2>3. CASE Len(p) # 0
    <3>1. 1 \in 1 .. Len(p) /\ Len(whole) # 0
          BY <2>1, <2>3
    <3>2. all[1] = p[1] /\ whole[1] = p[1]
          BY <3>1 DEF Cat
    <3> QED BY <3>1, <3>2 DEF Meets
  <2> QED BY <2>2, <2>3
<1>4. ASSUME Apart(whole, FALSE) PROVE Apart(all, FALSE)
  <2>1. Apart(p, FALSE)
        BY <1>4, ApartLeft
  <2>2. Apart(text, FALSE)
        BY <1>4, ApartRight
  <2>3. Apart(f, FALSE)
        BY <2>2 DEF Becomes
  <2> QED BY <1>1, <2>1, <2>3, ApartJoined
<1>5. \A b \in BOOLEAN : NamesIn(whole, b) = NamesIn(p, b) \cup NamesIn(text, b)
      BY NamesJoined
<1>6. \A b \in BOOLEAN : NamesIn(all, b) = NamesIn(p, b) \cup NamesIn(f, b)
      BY <1>1, NamesJoined
<1>7. /\ NamesIn(all, TRUE) = NamesIn(whole, TRUE) \ (IF braced THEN {All} ELSE {})
      /\ NamesIn(all, FALSE) = (NamesIn(whole, FALSE) \ (IF braced THEN {} ELSE {All}))
              \cup (IF All \in NamesIn(whole, braced) THEN NamesIn(new, FALSE) ELSE {})
  <2>1. /\ NamesIn(whole, TRUE) = NamesIn(p, TRUE) \cup NamesIn(text, TRUE)
        /\ NamesIn(whole, FALSE) = NamesIn(p, FALSE) \cup NamesIn(text, FALSE)
        /\ NamesIn(all, TRUE) = NamesIn(p, TRUE) \cup NamesIn(f, TRUE)
        /\ NamesIn(all, FALSE) = NamesIn(p, FALSE) \cup NamesIn(f, FALSE)
        BY <1>5, <1>6
  <2>2. All \in NamesIn(whole, braced) <=> All \in NamesIn(text, braced)
        BY <1>5
  <2>3. /\ NamesIn(f, TRUE) = NamesIn(text, TRUE) \ (IF braced THEN {All} ELSE {})
        /\ NamesIn(f, FALSE) = (NamesIn(text, FALSE) \ (IF braced THEN {} ELSE {All}))
              \cup (IF All \in NamesIn(text, braced) THEN NamesIn(new, FALSE) ELSE {})
        BY DEF Becomes
  <2>4. CASE braced
    <3>1. braced = TRUE
          BY <2>4
    <3>2. All \notin NamesIn(p, TRUE)
          BY <3>1
    <3> QED BY <2>1, <2>2, <2>3, <2>4, <3>2
  <2>5. CASE ~braced
    <3>1. braced = FALSE
          BY <2>5
    <3>2. All \notin NamesIn(p, FALSE)
          BY <3>1
    <3> QED BY <2>1, <2>2, <2>3, <2>5, <3>2
  <2> QED BY <2>4, <2>5
<1>8. Cardinality(Starts(all, X)) = Cardinality(Starts(whole, X))
  <2>1. Cardinality(Starts(whole, X)) = Cardinality(Starts(p, X)) + Cardinality(Starts(text, X))
        BY StartsJoined
  <2>2. Cardinality(Starts(all, X)) = Cardinality(Starts(p, X)) + Cardinality(Starts(f, X))
        BY <1>1, StartsJoined
  <2>3. Cardinality(Starts(f, X)) = Cardinality(Starts(text, X))
        BY DEF Becomes
  <2> QED BY <2>1, <2>2, <2>3
<1> QED BY <1>2, <1>3, <1>4, <1>7, <1>8 DEF Becomes

\* What is put for $all, and what the rest becomes.
LEMMA BecomesNew ==
    ASSUME NEW braced \in BOOLEAN, NEW new, NEW X, Fits(new, X),
           NEW text, NEW f, NEW whole, NEW all, Cat(whole, Old(braced), text), Cat(all, new, f),
           Becomes(text, f, braced, new, X), Meets(text)
    PROVE  Becomes(whole, all, braced, new, X)
<1>1. Reads(f) /\ Meets(f) /\ Reads(new) /\ Meets(new) /\ Reads(Old(braced))
      BY OldNames DEF Becomes, Fits
<1>2. Reads(all)
      BY <1>1, ReadsJoined
<1>3. Meets(all)
  <2>1. Len(new) \in Nat /\ Len(all) \in Nat /\ Len(f) \in Nat /\ Len(all) = Len(new) + Len(f)
        BY CatLengths
  <2>2. CASE Len(new) = 0
    <3>1. CASE Len(f) = 0
          BY <2>1, <2>2, <3>1 DEF Meets
    <3>2. CASE Len(f) # 0
      <4>1. 1 \in 1 .. Len(f) /\ Len(new) + 1 = 1
            BY <2>1, <2>2, <3>2
      <4>2. all[1] = f[1]
            BY <4>1 DEF Cat
      <4> QED BY <1>1, <3>2, <4>2 DEF Meets
    <3> QED BY <3>1, <3>2
  <2>3. CASE Len(new) # 0
    <3>1. 1 \in 1 .. Len(new)
          BY <2>1, <2>3
    <3>2. all[1] = new[1]
          BY <3>1 DEF Cat
    <3> QED BY <1>1, <2>3, <3>2 DEF Meets
  <2> QED BY <2>2, <2>3
<1>4. ASSUME Apart(whole, FALSE) PROVE Apart(all, FALSE)
  <2>1. Apart(new, FALSE)
        BY DEF Fits
  <2>2. Apart(text, FALSE)
        BY <1>4, ApartRight
  <2>3. Apart(f, FALSE)
        BY <2>2 DEF Becomes
  <2> QED BY <1>1, <2>1, <2>3, ApartJoined
<1>5. \A b \in BOOLEAN : NamesIn(whole, b) = NamesIn(Old(braced), b) \cup NamesIn(text, b)
      BY <1>1, NamesJoined
<1>6. \A b \in BOOLEAN : NamesIn(all, b) = NamesIn(new, b) \cup NamesIn(f, b)
      BY <1>1, NamesJoined
<1>7. /\ NamesIn(all, TRUE) = NamesIn(whole, TRUE) \ (IF braced THEN {All} ELSE {})
      /\ NamesIn(all, FALSE) = (NamesIn(whole, FALSE) \ (IF braced THEN {} ELSE {All}))
              \cup (IF All \in NamesIn(whole, braced) THEN NamesIn(new, FALSE) ELSE {})
  <2>1. /\ NamesIn(whole, TRUE) = NamesIn(Old(braced), TRUE) \cup NamesIn(text, TRUE)
        /\ NamesIn(whole, FALSE) = NamesIn(Old(braced), FALSE) \cup NamesIn(text, FALSE)
        /\ NamesIn(all, TRUE) = NamesIn(new, TRUE) \cup NamesIn(f, TRUE)
        /\ NamesIn(all, FALSE) = NamesIn(new, FALSE) \cup NamesIn(f, FALSE)
        BY <1>5, <1>6
  <2>2. /\ NamesIn(f, TRUE) = NamesIn(text, TRUE) \ (IF braced THEN {All} ELSE {})
        /\ NamesIn(f, FALSE) = (NamesIn(text, FALSE) \ (IF braced THEN {} ELSE {All}))
              \cup (IF All \in NamesIn(text, braced) THEN NamesIn(new, FALSE) ELSE {})
        BY DEF Becomes
  <2>3. NamesIn(new, TRUE) = {} /\ All \notin NamesIn(new, FALSE)
        BY DEF Fits
  <2>4. All \in NamesIn(whole, braced)
        BY <1>5, OldNames
  <2>5. CASE braced
    <3>1. braced = TRUE
          BY <2>5
    <3>2. NamesIn(Old(braced), TRUE) = {All} /\ NamesIn(Old(braced), FALSE) = {}
          BY <3>1, OldNames
    <3> QED BY <2>1, <2>2, <2>3, <2>4, <2>5, <3>2
  <2>6. CASE ~braced
    <3>1. braced = FALSE
          BY <2>6
    <3>2. NamesIn(Old(braced), FALSE) = {All} /\ NamesIn(Old(braced), TRUE) = {}
          BY <3>1, OldNames
    <3> QED BY <2>1, <2>2, <2>3, <2>4, <2>6, <3>2
  <2> QED BY <2>5, <2>6
<1>8. Cardinality(Starts(all, X)) = Cardinality(Starts(whole, X))
  <2>1. Cardinality(Starts(whole, X)) = Cardinality(Starts(Old(braced), X)) + Cardinality(Starts(text, X))
        BY <1>1, StartsJoined
  <2>2. Cardinality(Starts(all, X)) = Cardinality(Starts(new, X)) + Cardinality(Starts(f, X))
        BY <1>1, StartsJoined
  <2>3. Cardinality(Starts(f, X)) = Cardinality(Starts(text, X))
        BY DEF Becomes
  <2>4. Cardinality(Starts(new, X)) = 0
    <3>1. X \cap (NamesIn(new, TRUE) \cup NamesIn(new, FALSE)) = {} /\ new \in Seq(Lexemes)
          BY DEF Fits, Reads
    <3> QED BY <3>1, NoStarts
  <2>5. Cardinality(Starts(Old(braced), X)) = 0
    <3>1. NamesIn(Old(braced), TRUE) \cup NamesIn(Old(braced), FALSE) \subseteq {All}
          BY OldNames
    <3>2. X \cap (NamesIn(Old(braced), TRUE) \cup NamesIn(Old(braced), FALSE)) = {}
          BY <3>1 DEF Fits
    <3> QED BY <3>2, OldIs, NoStarts
  <2> QED BY <2>1, <2>2, <2>3, <2>4, <2>5
<1> QED BY <1>2, <1>3, <1>4, <1>7, <1>8 DEF Becomes

\* What is left of a text from i on.
Rest(text, i) == SubSeq(text, i, Len(text))

LEMMA RestIs ==
    ASSUME NEW text \in Seq(Lexemes), NEW i \in 1 .. Len(text) + 1
    PROVE  /\ Rest(text, i) \in Seq(Lexemes) /\ Len(Rest(text, i)) = (Len(text) + 1) - i
           /\ \A j \in 1 .. (Len(text) + 1) - i : Rest(text, i)[j] = text[(i - 1) + j]
<1>1. PICK a \in Nat : a = i - 1 /\ a + 1 = i /\ a <= Len(text) /\ Len(text) - a = (Len(text) + 1) - i
  <2>1. i - 1 \in Nat /\ (i - 1) + 1 = i /\ i - 1 <= Len(text) /\ Len(text) - (i - 1) = (Len(text) + 1) - i
        OBVIOUS
  <2> QED BY <2>1
<1>2. Len(text) \in 0 .. Len(text)
      OBVIOUS
<1>3. /\ SubSeq(text, a + 1, Len(text)) \in Seq(Lexemes) /\ Len(SubSeq(text, a + 1, Len(text))) = Len(text) - a
      /\ \A j \in 1 .. Len(text) - a : SubSeq(text, a + 1, Len(text))[j] = text[a + j]
      BY <1>1, <1>2, PartOf
<1> QED BY <1>1, <1>3 DEF Rest

LEMMA RestInParts ==
    ASSUME NEW text \in Seq(Lexemes), NEW i \in 1 .. Len(text) + 1, NEW k \in i .. Len(text) + 1,
           NEW p \in Seq(Lexemes), Len(p) = k - i, \A j \in 1 .. k - i : p[j] = text[(i - 1) + j]
    PROVE  Cat(Rest(text, i), p, Rest(text, k))
<1>0. k \in 1 .. Len(text) + 1 /\ Len(text) \in Nat
      OBVIOUS
<1>1. /\ Rest(text, i) \in Seq(Lexemes) /\ Len(Rest(text, i)) = (Len(text) + 1) - i
      /\ \A j \in 1 .. (Len(text) + 1) - i : Rest(text, i)[j] = text[(i - 1) + j]
      BY RestIs
<1>2. /\ Rest(text, k) \in Seq(Lexemes) /\ Len(Rest(text, k)) = (Len(text) + 1) - k
      /\ \A j \in 1 .. (Len(text) + 1) - k : Rest(text, k)[j] = text[(k - 1) + j]
      BY <1>0, RestIs
<1>3. Len(Rest(text, i)) = Len(p) + Len(Rest(text, k))
      BY <1>0, <1>1, <1>2
<1>4. \A j \in 1 .. Len(p) : Rest(text, i)[j] = p[j]
  <2>1. \A j \in 1 .. Len(p) : j \in 1 .. (Len(text) + 1) - i /\ j \in 1 .. k - i
        BY <1>0
  <2> QED BY <1>1, <2>1
<1>5. \A j \in 1 .. Len(Rest(text, k)) : Rest(text, i)[Len(p) + j] = Rest(text, k)[j]
  <2> SUFFICES ASSUME NEW j \in 1 .. (Len(text) + 1) - k
               PROVE  Rest(text, i)[Len(p) + j] = Rest(text, k)[j]
      BY <1>2
  <2>1. Len(p) + j \in 1 .. (Len(text) + 1) - i /\ (i - 1) + (Len(p) + j) = (k - 1) + j
        BY <1>0
  <2>2. Rest(text, i)[Len(p) + j] = text[(i - 1) + (Len(p) + j)]
        BY <1>1, <2>1
  <2> QED BY <1>2, <2>1, <2>2
<1> QED BY <1>1, <1>2, <1>3, <1>4, <1>5 DEF Cat

LEMMA RestEnds ==
    ASSUME NEW text \in Seq(Lexemes), NEW i \in 1 .. Len(text) + 1
    PROVE  \E p : Len(p) = i - 1 /\ Cat(text, p, Rest(text, i))
<1>1. PICK p : p = SubSeq(text, 1, i - 1)
      OBVIOUS
<1>2. /\ p \in Seq(Lexemes) /\ Len(p) = i - 1 /\ \A l \in 1 .. i - 1 : p[l] = text[l]
  <2>1. i - 1 \in 0 .. Len(text) /\ 0 <= i - 1 /\ 0 \in Nat
        OBVIOUS
  <2>2. PICK b \in 0 .. Len(text) : b = i - 1 /\ 0 <= b
        BY <2>1
  <2>3. /\ SubSeq(text, 0 + 1, b) \in Seq(Lexemes) /\ Len(SubSeq(text, 0 + 1, b)) = b - 0
        /\ \A l \in 1 .. b - 0 : SubSeq(text, 0 + 1, b)[l] = text[0 + l]
        BY <2>1, <2>2, PartOf
  <2>4. b - 0 = i - 1 /\ 0 + 1 = 1 /\ \A l \in 1 .. i - 1 : 0 + l = l
        BY <2>2
  <2> QED BY <1>1, <2>2, <2>3, <2>4
<1>3. Cat(Rest(text, 1), p, Rest(text, i))
  <2>1. 1 \in 1 .. Len(text) + 1 /\ i \in 1 .. Len(text) + 1 /\ \A l \in 1 .. i - 1 : (1 - 1) + l = l
        OBVIOUS
  <2>2. \A l \in 1 .. i - 1 : p[l] = text[(1 - 1) + l]
        BY <1>2, <2>1
  <2> QED BY <1>2, <2>1, <2>2, RestInParts
<1>4. Rest(text, 1) = text
      BY DEF Rest
<1> QED BY <1>2, <1>3, <1>4

LEMMA StandsInRest ==
    ASSUME NEW text \in Seq(Lexemes), NEW i \in 1 .. Len(text) + 1, NEW braced \in BOOLEAN,
           NEW j \in 1 .. (Len(text) + 1) - i
    PROVE  Stands(Rest(text, i), braced, j) <=> Stands(text, braced, (i - 1) + j)
<1>1. PICK p : Len(p) = i - 1 /\ Cat(text, p, Rest(text, i))
      BY RestEnds
<1>2. j \in 1 .. Len(Rest(text, i))
      BY RestIs
<1>3. Stands(text, braced, Len(p) + j) <=> Stands(Rest(text, i), braced, j)
      BY <1>1, <1>2, StandsRight
<1> QED BY <1>1, <1>3

LEMMA RestReads ==
    ASSUME NEW text, Reads(text), NEW i \in 1 .. Len(text) + 1, NEW braced \in BOOLEAN
    PROVE  Reads(Rest(text, i)) /\ (Apart(text, braced) => Apart(Rest(text, i), braced))
<1>1. PICK p : Len(p) = i - 1 /\ Cat(text, p, Rest(text, i))
      BY RestEnds DEF Reads
<1> QED BY <1>1, ReadsRight, ApartRight

LEMMA ReplacedIsText ==
    ASSUME NEW text \in Seq(Lexemes), NEW braced \in BOOLEAN, NEW new \in Seq(Lexemes), NEW f,
           \A i \in 1 .. Len(text) + 1 : f[i] = Step(text, braced, new, f, i)
    PROVE  \A i \in 1 .. Len(text) + 1 : f[i] \in Seq(Lexemes)
<1> DEFINE T == {i \in 1 .. Len(text) + 1 : f[i] \in Seq(Lexemes)}
<1>0. Len(text) \in Nat /\ Size(braced) \in Nat /\ Size(braced) > 0
      BY OldIs
<1>1. ASSUME NEW i \in 1 .. Len(text) + 1, \A j \in i + 1 .. Len(text) + 1 : j \in T PROVE i \in T
  <2>a. f[i] = Step(text, braced, new, f, i)
        OBVIOUS
  <2>b. \A j \in i + 1 .. Len(text) + 1 : f[j] \in Seq(Lexemes)
        BY <1>1
  <2>c. f[i] \in Seq(Lexemes)
    <3>1. CASE i > Len(text)
      <4>1. f[i] = <<>>
            BY <2>a, <3>1 DEF Step
      <4> QED BY <4>1
    <3>2. CASE ~(i > Len(text)) /\ Stands(text, braced, i)
      <4>1. i \in Nat \ {0}
            BY <1>0
      <4>2. i + Size(braced) \in i + 1 .. Len(text) + 1
        <5>1. i + Size(braced) <= Len(text) + 1
              BY <3>2, <4>1, StandsElements
        <5> QED BY <1>0, <4>1, <5>1
      <4>3. PICK s : s = f[i + Size(braced)] /\ s \in Seq(Lexemes)
            BY <2>b, <4>2
      <4>4. f[i] = new \o s
            BY <2>a, <3>2, <4>3, Zenon DEF Step
      <4>5. new \o s \in Seq(Lexemes)
            BY <4>3
      <4> QED BY <4>4, <4>5
    <3>3. CASE ~(i > Len(text)) /\ ~Stands(text, braced, i)
      <4>1. i + 1 \in i + 1 .. Len(text) + 1 /\ i \in 1 .. Len(text)
            BY <1>0, <3>3
      <4>2. PICK s : s = f[i + 1] /\ s \in Seq(Lexemes)
            BY <2>b, <4>1
      <4>3. PICK c \in Lexemes : c = text[i]
            BY <4>1
      <4>4. f[i] = <<c>> \o s
            BY <2>a, <3>3, <4>2, <4>3, Zenon DEF Step
      <4>5. <<c>> \o s \in Seq(Lexemes)
            BY <4>2, <4>3
      <4> QED BY <4>4, <4>5
    <3> QED BY <3>1, <3>2, <3>3
  <2> QED BY <2>c
<1> HIDE DEF T
<1>2. \A i \in 1 .. Len(text) + 1 : i \in T
      BY <1>0, <1>1, Backwards
<1> QED BY <1>2 DEF T

\* From i on, p comes before the next $all or the end, in the text and in the result.
Copied(text, braced, f, i) ==
    \E k \in i .. Len(text) + 1, p \in Seq(Lexemes) :
       /\ Cat(Rest(text, i), p, Rest(text, k)) /\ Cat(f[i], p, f[k]) /\ Len(p) = k - i
       /\ k = Len(text) + 1 \/ Stands(text, braced, k)
       /\ \A m \in i .. k - 1 : ~Stands(text, braced, m)

LEMMA CopiesToTheNext ==
    ASSUME NEW text \in Seq(Lexemes), NEW braced \in BOOLEAN, NEW new \in Seq(Lexemes), NEW f,
           \A i \in 1 .. Len(text) + 1 : f[i] = Step(text, braced, new, f, i)
    PROVE  \A i \in 1 .. Len(text) + 1 : Copied(text, braced, f, i)
<1> DEFINE n == Len(text)
           Q(i, k, p) == /\ p \in Seq(Lexemes) /\ Len(p) = k - i
                         /\ \A j \in 1 .. k - i : p[j] = text[(i - 1) + j]
                         /\ Cat(f[i], p, f[k])
                         /\ k = n + 1 \/ Stands(text, braced, k)
                         /\ \A m \in i .. k - 1 : ~Stands(text, braced, m)
           T == {i \in 1 .. n + 1 : \E k \in i .. n + 1 : \E p : Q(i, k, p)}
<1>0. n \in Nat
      OBVIOUS
<1>f. \A i \in 1 .. n + 1 : f[i] \in Seq(Lexemes)
      BY ReplacedIsText
<1>1. ASSUME NEW i \in 1 .. n + 1, \A j \in i + 1 .. n + 1 : j \in T PROVE i \in T
  <2>1. CASE i = n + 1 \/ Stands(text, braced, i)
    <3>1. Cat(f[i], <<>>, f[i])
      <4>1. <<>> \in Seq(Lexemes) /\ Len(<<>>) = 0 /\ f[i] \in Seq(Lexemes)
            BY <1>f
      <4>2. Len(f[i]) \in Nat
            BY <4>1
      <4> QED BY <4>1, <4>2 DEF Cat
    <3>2. <<>> \in Seq(Lexemes) /\ Len(<<>>) = i - i /\ i \in i .. n + 1
          /\ (\A j \in 1 .. i - i : FALSE) /\ (\A m \in i .. i - 1 : FALSE)
          BY <1>0
    <3> DEFINE e == <<>>
    <3> HIDE DEF n
    <3>3. Q(i, i, e)
          BY <2>1, <3>1, <3>2
    <3> HIDE DEF Q, e
    <3> QED BY <3>2, <3>3
  <2>2. CASE i # n + 1 /\ ~Stands(text, braced, i)
    <3>1. i + 1 \in i + 1 .. n + 1 /\ i \in 1 .. Len(text) /\ ~(i > Len(text))
          BY <1>0, <2>2
    <3>2. PICK k \in i + 1 .. n + 1 : \E p : Q(i + 1, k, p)
          BY <1>1, <3>1
    <3>3. PICK p : Q(i + 1, k, p)
          BY <3>2
    <3>4. f[i] = <<text[i]>> \o f[i + 1] /\ text[i] \in Lexemes
      <4>1. f[i] = Step(text, braced, new, f, i)
            OBVIOUS
      <4>2. text[i] \in Lexemes
            BY <3>1
      <4>3. ~(i > Len(text)) /\ ~Stands(text, braced, i)
            BY <2>2, <3>1
      <4> HIDE DEF n, Q, T
      <4>4. f[i] = <<text[i]>> \o f[i + 1]
            BY <4>1, <4>3, Zenon DEF Step
      <4> QED BY <4>2, <4>4
    <3>5. PICK q : q = <<text[i]>> \o p
          OBVIOUS
    <3>6. /\ q \in Seq(Lexemes) /\ Len(q) = Len(p) + 1 /\ q[1] = text[i]
          /\ \A j \in 1 .. Len(p) : q[j + 1] = p[j]
          /\ p \in Seq(Lexemes) /\ Len(p) = k - (i + 1)
          BY <3>3, <3>4, <3>5
    <3>7. Len(q) = k - i /\ k \in i .. n + 1
          BY <1>0, <3>6
    <3>8. \A j \in 1 .. k - i : q[j] = text[(i - 1) + j]
      <4> SUFFICES ASSUME NEW j \in 1 .. k - i PROVE q[j] = text[(i - 1) + j]
          OBVIOUS
      <4>1. CASE j = 1
        <5>1. (i - 1) + 1 = i
              OBVIOUS
        <5> QED BY <3>6, <4>1, <5>1
      <4>2. CASE j # 1
        <5>1. j - 1 \in 1 .. k - (i + 1) /\ (j - 1) + 1 = j /\ ((i + 1) - 1) + (j - 1) = (i - 1) + j
              BY <1>0, <4>2
        <5>2. p[j - 1] = text[((i + 1) - 1) + (j - 1)]
              BY <3>3, <5>1
        <5> QED BY <3>6, <5>1, <5>2
      <4> QED BY <4>1, <4>2
    <3>9. Cat(f[i], q, f[k])
      <4>1. Cat(f[i + 1], p, f[k])
            BY <3>3
      <4>2. Cat(f[i], <<text[i]>>, f[i + 1])
        <5>1. f[i + 1] \in Seq(Lexemes) /\ <<text[i]>> \in Seq(Lexemes)
              BY <1>f, <3>1, <3>4
        <5> QED BY <3>4, <5>1, JoinedIsCat
      <4>3. q = <<text[i]>> \o p
            BY <3>5
      <4> HIDE DEF n, Q, T
      <4> QED BY <4>1, <4>2, <4>3, CatOfThree
    <3>10. \A m \in i .. k - 1 : ~Stands(text, braced, m)
      <4>1. \A m \in i .. k - 1 : m = i \/ m \in i + 1 .. k - 1
            OBVIOUS
      <4> QED BY <2>2, <3>3, <4>1
    <3>11. k = n + 1 \/ Stands(text, braced, k)
           BY <3>3
    <3>12. Q(i, k, q)
           BY <3>6, <3>7, <3>8, <3>9, <3>10, <3>11
    <3> HIDE DEF Q
    <3> QED BY <3>7, <3>12
  <2> QED BY <2>1, <2>2
<1>2. \A i \in 1 .. n + 1 : i \in T
  <2> HIDE DEF T, n
  <2> QED BY <1>0, <1>1, Backwards
<1>3. ASSUME NEW i \in 1 .. n + 1
      PROVE  Copied(text, braced, f, i)
  <2>1. PICK k \in i .. n + 1 : \E p : Q(i, k, p)
        BY <1>2
  <2>2. PICK p : Q(i, k, p)
        BY <2>1
  <2>3. Cat(Rest(text, i), p, Rest(text, k))
        BY <2>2, RestInParts
  <2> QED BY <2>2, <2>3 DEF Copied
<1> QED BY <1>3

LEMMA CatWithNothing ==
    ASSUME NEW f, NEW g, NEW p, NEW s, NEW t, Cat(f, p, s), Cat(g, p, t), Len(s) = 0, Len(t) = 0
    PROVE  f = g
<1>1. f \in Seq(Lexemes) /\ g \in Seq(Lexemes)
      BY DEF Cat
<1>2. Len(f) = Len(p) /\ Len(g) = Len(p)
      BY CatLengths
<1>3. \A i \in 1 .. Len(p) : f[i] = p[i] /\ g[i] = p[i]
      BY DEF Cat
<1>4. Len(f) = Len(g) /\ \A i \in 1 .. Len(f) : f[i] = g[i]
      BY <1>2, <1>3
<1> QED BY <1>1, <1>4, SeqEqual

\* The text of $all stands at the head of what is left from there.
LEMMA HeadOfRest ==
    ASSUME NEW text, Reads(text), NEW braced \in BOOLEAN, Apart(text, braced),
           NEW k \in 1 .. Len(text), Stands(text, braced, k)
    PROVE  /\ k + Size(braced) \in k + 1 .. Len(text) + 1
           /\ Len(Rest(text, k)) # 0 /\ Rest(text, k)[1] = "$"
           /\ Cat(Rest(text, k), Old(braced), Rest(text, k + Size(braced)))
           /\ Meets(Rest(text, k + Size(braced)))
<1>0. /\ text \in Seq(Lexemes) /\ Old(braced) \in Seq(Lexemes) /\ Len(Old(braced)) = Size(braced)
      /\ Size(braced) \in Nat /\ Size(braced) > 0
      BY OldIs DEF Reads
<1>1. Len(text) \in Nat /\ k \in Nat \ {0} /\ k \in 1 .. Len(text) + 1
      BY <1>0
<1>2. PICK z \in Nat : z = Size(braced) /\ z > 0
      BY <1>0
<1>3. /\ k + z <= Len(text) + 1
      /\ \A j \in 1 .. z : text[(k - 1) + j] = Old(braced)[j]
      BY <1>0, <1>1, <1>2, StandsElements
<1>4. PICK l \in 1 .. Len(text) + 1 : l = k + z /\ l - k = z /\ l \in k + 1 .. Len(text) + 1 /\ l \in k .. Len(text) + 1
  <2>1. /\ k + z \in 1 .. Len(text) + 1 /\ (k + z) - k = z
        /\ k + z \in k + 1 .. Len(text) + 1 /\ k + z \in k .. Len(text) + 1
        BY <1>1, <1>2, <1>3
  <2> QED BY <2>1
<1>5. Cat(Rest(text, k), Old(braced), Rest(text, l))
  <2>1. Len(Old(braced)) = l - k /\ \A j \in 1 .. l - k : Old(braced)[j] = text[(k - 1) + j]
        BY <1>0, <1>2, <1>3, <1>4
  <2> QED BY <1>0, <1>1, <1>4, <2>1, RestInParts
<1>6. Len(Rest(text, k)) # 0 /\ Rest(text, k)[1] = "$"
  <2>1. /\ Len(Rest(text, k)) = (Len(text) + 1) - k
        /\ \A j \in 1 .. (Len(text) + 1) - k : Rest(text, k)[j] = text[(k - 1) + j]
        BY <1>0, <1>1, RestIs
  <2>2. 1 \in 1 .. (Len(text) + 1) - k /\ (Len(text) + 1) - k # 0 /\ (k - 1) + 1 = k
        BY <1>1
  <2>3. text[k] = "$"
        BY Zenon DEF Stands
  <2> QED BY <2>1, <2>2, <2>3
<1>7. Meets(Rest(text, l))
  <2>1. /\ Len(Rest(text, l)) = (Len(text) + 1) - l
        /\ \A j \in 1 .. (Len(text) + 1) - l : Rest(text, l)[j] = text[(l - 1) + j]
        BY <1>0, <1>4, RestIs
  <2>2. CASE l > Len(text)
    <3>1. (Len(text) + 1) - l = 0
          BY <1>1, <1>4, <2>2
    <3> QED BY <2>1, <3>1 DEF Meets
  <2>3. CASE ~(l > Len(text))
    <3>1. 1 \in 1 .. (Len(text) + 1) - l /\ (l - 1) + 1 = l
          BY <1>1, <1>4, <2>3
    <3>2. l > Len(text) \/ text[l] \in Marks
          BY <1>2, <1>4 DEF Apart
    <3>3. Rest(text, l)[1] = text[l]
          BY <2>1, <3>1
    <3> QED BY <2>3, <3>2, <3>3 DEF Meets
  <2> QED BY <2>2, <2>3
<1> QED BY <1>2, <1>4, <1>5, <1>6, <1>7

LEMMA ReplaceBecomes ==
    ASSUME NEW text, Reads(text), NEW braced \in BOOLEAN, Apart(text, braced),
           NEW new, NEW X, Fits(new, X)
    PROVE  Becomes(text, Replace(text, Old(braced), new), braced, new, X)
<1>0. text \in Seq(Lexemes) /\ new \in Seq(Lexemes) /\ All \notin X /\ Len(text) \in Nat
      BY DEF Reads, Fits
<1>1. PICK f : /\ \A i \in 1 .. Len(text) + 1 : f[i] = Step(text, braced, new, f, i)
               /\ Replace(text, Old(braced), new) = f[1]
      BY <1>0, ReplaceSteps
<1> DEFINE n == Len(text)
           T == {i \in 1 .. n + 1 : Becomes(Rest(text, i), f[i], braced, new, X)}
<1>2. ASSUME NEW i \in 1 .. n + 1, \A j \in i + 1 .. n + 1 : j \in T
      PROVE  Becomes(Rest(text, i), f[i], braced, new, X)
  <2>1. \A j \in i + 1 .. n + 1 : Becomes(Rest(text, j), f[j], braced, new, X)
        BY <1>2
  <2> HIDE DEF T
  <2>2. PICK k \in i .. n + 1, p \in Seq(Lexemes) :
              /\ Cat(Rest(text, i), p, Rest(text, k)) /\ Cat(f[i], p, f[k]) /\ Len(p) = k - i
              /\ k = n + 1 \/ Stands(text, braced, k)
              /\ \A m \in i .. k - 1 : ~Stands(text, braced, m)
    <3>1. \A h \in 1 .. Len(text) + 1 : f[h] = Step(text, braced, new, f, h)
          BY <1>1
    <3>2. \A h \in 1 .. Len(text) + 1 : Copied(text, braced, f, h)
      <4> HIDE DEF n
      <4> QED BY <1>0, <3>1, CopiesToTheNext
    <3> QED BY <3>2 DEF Copied
  <2>3. Reads(Rest(text, i)) /\ Len(Rest(text, i)) = (n + 1) - i
        BY <1>0, RestReads, RestIs
  <2>4. CASE k = n + 1
    <3>1. Len(Rest(text, k)) = 0
      <4>1. k \in 1 .. Len(text) + 1 /\ (Len(text) + 1) - k = 0
            BY <1>0, <2>4
      <4> QED BY <1>0, <4>1, RestIs
    <3>2. f[k] = <<>>
      <4>1. k \in 1 .. Len(text) + 1 /\ k > Len(text)
            BY <1>0, <2>4
      <4>2. f[k] = Step(text, braced, new, f, k)
            BY <1>1, <4>1
      <4> QED BY <4>1, <4>2 DEF Step
    <3>3. Len(f[k]) = 0
          BY <3>2
    <3>4. f[i] = Rest(text, i)
          BY <2>2, <3>1, <3>3, CatWithNothing
    <3>5. \A m \in 1 .. Len(Rest(text, i)) : ~Stands(Rest(text, i), braced, m)
      <4> SUFFICES ASSUME NEW m \in 1 .. (Len(text) + 1) - i PROVE ~Stands(Rest(text, i), braced, m)
          BY <2>3
      <4>1. (i - 1) + m \in i .. k - 1
            BY <1>0, <2>4
      <4> QED BY <1>0, <2>2, <4>1, StandsInRest
    <3> QED BY <2>3, <3>4, <3>5, BecomesItself
  <2>5. CASE k # n + 1
    <3>1. k \in 1 .. Len(text) /\ Stands(text, braced, k) /\ k \in 1 .. Len(text) + 1
          BY <1>0, <2>2, <2>5
    <3>2. PICK l : l = k + Size(braced)
          OBVIOUS
    <3>3. /\ l \in k + 1 .. Len(text) + 1
          /\ Len(Rest(text, k)) # 0 /\ Rest(text, k)[1] = "$"
          /\ Cat(Rest(text, k), Old(braced), Rest(text, l)) /\ Meets(Rest(text, l))
          BY <3>1, <3>2, HeadOfRest
    <3>4. Becomes(Rest(text, l), f[l], braced, new, X)
      <4>1. l \in i + 1 .. n + 1
            BY <1>0, <3>3
      <4> QED BY <2>1, <4>1
    <3>5. Cat(f[k], new, f[l])
      <4>1. f[k] = Step(text, braced, new, f, k) /\ ~(k > Len(text))
            BY <1>0, <1>1, <3>1
      <4>2. f[k] = new \o f[l]
            BY <3>1, <3>2, <4>1, Zenon DEF Step
      <4>3. f[l] \in Seq(Lexemes)
            BY <3>4 DEF Becomes, Reads
      <4> QED BY <1>0, <4>2, <4>3, JoinedIsCat
    <3>6. Becomes(Rest(text, k), f[k], braced, new, X)
          BY <3>3, <3>4, <3>5, BecomesNew
    <3>7. Reads(p) /\ Meets(Rest(text, k))
      <4>1. Meets(Rest(text, k))
        <5>1. "$" \in Marks
              BY DEF Marks
        <5> QED BY <3>3, <5>1 DEF Meets
      <4> QED BY <2>2, <2>3, <3>3, <4>1, ReadsLeft
    <3>8. All \notin NamesIn(p, braced)
      <4> SUFFICES ASSUME NEW m \in 1 .. Len(p), NameAt(p, braced, m, All) PROVE FALSE
          BY DEF NamesIn
      <4>1. NameAt(Rest(text, i), braced, m, All)
            BY <2>2, <3>7, CatLeft
      <4>2. m \in 1 .. (Len(text) + 1) - i /\ (i - 1) + m \in i .. k - 1
            BY <1>0, <2>2
      <4>3. m \in 1 .. Len(Rest(text, i)) /\ Rest(text, i) \in Seq(Lexemes)
            BY <2>3, <4>2 DEF Reads
      <4>4. Stands(Rest(text, i), braced, m)
            BY <4>1, <4>3, StandsForItself
      <4>5. Stands(text, braced, (i - 1) + m)
            BY <1>0, <4>2, <4>4, StandsInRest
      <4> QED BY <2>2, <4>2, <4>5
    <3> QED BY <2>2, <3>6, <3>7, <3>8, BecomesAfter
  <2> QED BY <2>4, <2>5
<1>3. \A i \in 1 .. n + 1 : i \in T
  <2>1. ASSUME NEW i \in 1 .. n + 1, \A j \in i + 1 .. n + 1 : j \in T PROVE i \in T
        BY <1>2, <2>1
  <2> HIDE DEF T, n
  <2>2. n \in Nat
        BY <1>0 DEF n
  <2> QED BY <2>1, <2>2, Backwards
<1>4. Becomes(Rest(text, 1), f[1], braced, new, X)
  <2>1. 1 \in 1 .. n + 1
        BY <1>0
  <2> QED BY <1>3, <2>1
<1>5. Rest(text, 1) = text
      BY <1>0 DEF Rest
<1> QED BY <1>1, <1>4, <1>5

----------------------------------------------------------------------------
(* What is put for $all.                                                   *)

LEMMA OrderIs ==
    /\ Len(PromptOrder) \in Nat
    /\ \A i \in 1 .. Len(PromptOrder) :
          /\ PromptOrder[i] \in Lexemes /\ PromptOrder[i] \notin Marks /\ PromptOrder[i] # "all"
          /\ <<PromptOrder[i]>> \in Ordered
    /\ \A x \in Ordered : \E i \in 1 .. Len(PromptOrder) : x = <<PromptOrder[i]>>
    /\ All \notin Ordered
<1>1. PromptOrder \in Seq(STRING \ (Marks \cup {"all"}))
      BY FormatsAssumption
<1> DEFINE S == STRING \ (Marks \cup {"all"})
<1>2. S \subseteq Lexemes /\ S \cap Marks = {} /\ "all" \notin S
      BY DEF Lexemes
<1> HIDE DEF S
<1>3. PromptOrder \in Seq(S) /\ Len(PromptOrder) \in Nat /\ DOMAIN PromptOrder = 1 .. Len(PromptOrder)
      BY <1>1 DEF S
<1>4. \A i \in 1 .. Len(PromptOrder) : PromptOrder[i] \in S
      BY <1>3
<1>5. ToSet(PromptOrder) = {PromptOrder[i] : i \in 1 .. Len(PromptOrder)}
      BY <1>3 DEF ToSet
<1>6. All \notin Ordered
  <2> SUFFICES ASSUME NEW m \in ToSet(PromptOrder), All = <<m>> PROVE FALSE
      BY DEF Ordered
  <2>1. m \in S
        BY <1>4, <1>5
  <2>2. m = "all"
        BY DEF All
  <2> QED BY <1>2, <2>1, <2>2
<1> QED BY <1>2, <1>3, <1>4, <1>5, <1>6 DEF Ordered

LEMMA MarksHave == "$" \in Marks /\ "{" \in Marks /\ "$" \in Lexemes
<1>1. "$" \in Marks /\ "{" \in Marks
      BY DEF Marks
<1>2. \A x \in Marks : x \in Lexemes
      BY DEF Lexemes
<1> QED BY <1>1, <1>2, Zenon

LEMMA DollarIs ==
    ASSUME NEW m \in Lexemes, m \notin Marks, m # "all"
    PROVE  /\ Reads(Dollar(m)) /\ Meets(Dollar(m)) /\ Apart(Dollar(m), FALSE)
           /\ NamesIn(Dollar(m), TRUE) = {} /\ NamesIn(Dollar(m), FALSE) = {<<m>>}
<1>1. PICK d : d = Dollar(m)
      OBVIOUS
<1>2. "$" \in Lexemes /\ "$" \in Marks /\ "{" \in Marks
      BY MarksHave, Zenon
<1>3. d \in Seq(Lexemes) /\ Len(d) = 2 /\ d[1] = "$" /\ d[2] = m
  <2>1. <<"$", m>>[1] = "$" /\ <<"$", m>>[2] = m
        OBVIOUS
  <2>2. <<"$", m>> \in Seq(Lexemes) /\ Len(<<"$", m>>) = 2
        BY <1>2, TuplesOf, Zenon
  <2> QED BY <1>1, <2>1, <2>2, Zenon DEF Dollar
<1>4. m # "$" /\ m # "{"
      BY <1>2, Zenon
<1>5. \A k \in 1 .. Len(d) : d[k] = "$" => k = 1
  <2>1. \A k \in 1 .. 2 : k = 1 \/ k = 2
        OBVIOUS
  <2>2. d[2] # "$"
        BY <1>3, <1>4, Zenon
  <2> QED BY <1>3, <2>1, <2>2
<1>6. Reads(d)
  <2> SUFFICES ASSUME NEW k \in 1 .. Len(d), d[k] = "$"
               PROVE  k < Len(d) /\ (d[k + 1] \in Marks => \E x : NameAt(d, TRUE, k, x))
      BY <1>3 DEF Reads
  <2>1. k = 1
        BY <1>5
  <2>2. k < Len(d) /\ k + 1 = 2
        BY <1>3, <2>1
  <2> QED BY <1>3, <2>2
<1>7. Meets(d)
  <2>1. d[1] \in Marks
        BY <1>2, <1>3, Zenon
  <2> QED BY <2>1 DEF Meets
<1>8. Apart(d, FALSE)
  <2> SUFFICES ASSUME NEW k \in 1 .. Len(d), Stands(d, FALSE, k) PROVE FALSE
      BY DEF Apart
  <2>1. d[k] = "$" /\ d[k + 1] = "all"
        BY Zenon DEF Stands
  <2>2. k = 1
        BY <1>5, <2>1
  <2>3. k + 1 = 2
        BY <2>2
  <2>4. d[2] = "all"
        BY <2>1, <2>3, Zenon
  <2> QED BY <1>3, <2>4, Zenon
<1>9. NamesIn(d, TRUE) = {}
  <2> SUFFICES ASSUME NEW k \in 1 .. Len(d), NEW x, NameAt(d, TRUE, k, x) PROVE FALSE
      BY DEF NamesIn
  <2>1. d[k] = "$" /\ d[k + 1] = "{"
        BY Zenon DEF NameAt
  <2>2. k = 1
        BY <1>5, <2>1, Zenon
  <2>3. k + 1 = 2
        BY <2>2
  <2>4. d[2] = "{"
        BY <2>1, <2>3, Zenon
  <2> QED BY <1>3, <1>4, <2>4, Zenon
<1>10. <<m>> \in NamesIn(d, FALSE)
  <2>1. <<m>> \in Seq(Lexemes) /\ Len(<<m>>) = 1 /\ <<m>> # <<>> /\ <<m>>[1] = m
    <3>1. <<m>>[1] = m
          OBVIOUS
    <3> QED BY <3>1, TuplesOf
  <2>2. PICK x : x = <<m>>
        OBVIOUS
  <2>3. Spells(d, 1, x)
    <3>1. \A j \in 1 .. 1 : j = 1 /\ 1 + j = 2 /\ 1 + j \in 1 .. 2
          OBVIOUS
    <3>2. d[2] = x[1] /\ x[1] \notin Marks /\ Len(x) = 1 /\ x # <<>>
          BY <1>3, <2>1, <2>2
    <3> QED BY <1>3, <3>1, <3>2 DEF Spells
  <2>4. 1 + Len(x) = Len(d) /\ 1 \in 1 .. Len(d) /\ x \in Seq(Lexemes)
        BY <1>3, <2>1, <2>2
  <2>5. NameAt(d, FALSE, 1, x)
        BY <1>3, <2>3, <2>4, Zenon DEF NameAt
  <2> QED BY <2>2, <2>4, <2>5 DEF NamesIn
<1>11. ASSUME NEW x \in NamesIn(d, FALSE) PROVE x = <<m>>
  <2>1. PICK k \in 1 .. Len(d) : NameAt(d, FALSE, k, x)
        BY DEF NamesIn
  <2>2. d[k] = "$" /\ x \in Seq(Lexemes) /\ Spells(d, k, x)
        BY <2>1, Zenon DEF NameAt
  <2>3. k = 1
        BY <1>5, <2>2
  <2>4. \A j \in 1 .. Len(x) : 1 + j \in 1 .. 2 /\ d[1 + j] = x[j]
        BY <1>3, <2>2, <2>3 DEF Spells
  <2>5. x # <<>>
        BY <2>2 DEF Spells
  <2>6. Len(x) = 1
    <3>1. PICK l \in Nat : l = Len(x) /\ l # 0
          BY <2>2, <2>5, EmptySeq
    <3>2. 1 + l \in 1 .. 2
      <4>1. l \in 1 .. l
            BY <3>1
      <4> QED BY <2>4, <3>1, <4>1
    <3>3. l = 1
          BY <3>1, <3>2
    <3> QED BY <3>1, <3>3
  <2>7. x[1] = m
    <3>1. 1 \in 1 .. Len(x) /\ 1 + 1 = 2
          BY <2>6
    <3> QED BY <1>3, <2>4, <3>1
  <2> QED BY <2>2, <2>6, <2>7
<1>12. NamesIn(d, FALSE) = {<<m>>}
      BY <1>10, <1>11
<1> QED BY <1>1, <1>6, <1>7, <1>8, <1>9, <1>12

\* The equation of the recursion.
Put(E, f, i) ==
    IF i > Len(PromptOrder) THEN <<>>
    ELSE IF <<PromptOrder[i]>> \in E \cup disabled THEN f[i + 1]
    ELSE Dollar(PromptOrder[i]) \o f[i + 1]

LEMMA PutLooksAhead ==
    ASSUME NEW E, NEW f, NEW g,
           NEW i \in 1 .. Len(PromptOrder) + 1, \A j \in i + 1 .. Len(PromptOrder) + 1 : f[j] = g[j]
    PROVE  Put(E, f, i) = Put(E, g, i)
<1>0. Len(PromptOrder) \in Nat
      BY OrderIs
<1>1. CASE i > Len(PromptOrder)
      BY <1>1 DEF Put
<1>2. CASE ~(i > Len(PromptOrder))
  <2>1. i + 1 \in i + 1 .. Len(PromptOrder) + 1
        BY <1>0, <1>2
  <2>2. f[i + 1] = g[i + 1]
        BY <2>1
  <2> QED BY <1>2, <2>2 DEF Put
<1> QED BY <1>1, <1>2

LEMMA PutsExist ==
    ASSUME NEW E
    PROVE  \E f : f = [i \in 1 .. Len(PromptOrder) + 1 |-> Put(E, f, i)]
<1> DEFINE n == Len(PromptOrder)
           Solves(g, i) == \A j \in i .. n + 1 : g[j] = Put(E, g, j)
           T == {i \in 1 .. n + 1 : \E g : Solves(g, i)}
<1>0. n \in Nat
      BY OrderIs
<1>1. ASSUME NEW i \in 1 .. n + 1, \A j \in i + 1 .. n + 1 : j \in T PROVE i \in T
  <2>1. \E g : Solves(g, i + 1)
    <3>1. CASE i = n + 1
          BY <1>0, <3>1
    <3>2. CASE i # n + 1
      <4>1. i + 1 \in i + 1 .. n + 1
            BY <1>0, <3>2
      <4>2. i + 1 \in T
            BY <1>1, <4>1
      <4> QED BY <4>2
    <3> QED BY <3>1, <3>2
  <2>2. PICK g : Solves(g, i + 1)
        BY <2>1
  <2> DEFINE h == [j \in 1 .. n + 1 |-> IF j = i THEN Put(E, g, i) ELSE g[j]]
  <2>3. h[i] = Put(E, g, i) /\ \A j \in i + 1 .. n + 1 : h[j] = g[j]
        BY <1>0
  <2> HIDE DEF h
  <2>4. \A j \in i .. n + 1 : Put(E, h, j) = Put(E, g, j)
    <3> SUFFICES ASSUME NEW j \in i .. n + 1
                 PROVE  Put(E, h, j) = Put(E, g, j)
        OBVIOUS
    <3>1. j \in 1 .. Len(PromptOrder) + 1 /\ \A l \in j + 1 .. Len(PromptOrder) + 1 : h[l] = g[l]
          BY <1>0, <2>3
    <3> QED BY <3>1, PutLooksAhead
  <2>5. Solves(h, i)
    <3> SUFFICES ASSUME NEW j \in i .. n + 1 PROVE h[j] = Put(E, h, j)
        OBVIOUS
    <3>1. CASE j = i
          BY <2>3, <2>4, <3>1
    <3>2. CASE j # i
      <4>1. j \in i + 1 .. n + 1
            BY <1>0, <3>2
      <4> QED BY <2>2, <2>3, <2>4, <4>1
    <3> QED BY <3>1, <3>2
  <2> HIDE DEF Solves
  <2> QED BY <2>5
<1>2. \A i \in 1 .. n + 1 : i \in T
  <2> HIDE DEF T, n
  <2> QED BY <1>0, <1>1, Backwards
<1>3. PICK g : Solves(g, 1)
  <2>1. 1 \in T
        BY <1>0, <1>2
  <2> HIDE DEF Solves
  <2> QED BY <2>1
<1> DEFINE h == [j \in 1 .. n + 1 |-> g[j]]
<1>4. \A j \in 1 .. n + 1 : h[j] = g[j]
      OBVIOUS
<1>5. \A j \in 1 .. n + 1 : Put(E, h, j) = Put(E, g, j)
  <2> SUFFICES ASSUME NEW j \in 1 .. n + 1
               PROVE  Put(E, h, j) = Put(E, g, j)
      OBVIOUS
  <2> HIDE DEF h
  <2>1. \A l \in j + 1 .. Len(PromptOrder) + 1 : h[l] = g[l]
        BY <1>0, <1>4
  <2> QED BY <2>1, PutLooksAhead
<1>6. h = [j \in 1 .. n + 1 |-> Put(E, h, j)]
  <2>1. \A j \in 1 .. n + 1 : g[j] = Put(E, h, j)
        BY <1>3, <1>5
  <2> QED BY <2>1
<1> QED BY <1>6

\* PutForAll is what that equation makes of the first place.
LEMMA ReplacementPuts ==
    ASSUME NEW E
    PROVE  \E f : /\ \A i \in 1 .. Len(PromptOrder) + 1 : f[i] = Put(E, f, i)
                  /\ PutForAll(E) = f[1]
<1> DEFINE Eq(f) == f = [i \in 1 .. Len(PromptOrder) + 1 |->
                           IF i > Len(PromptOrder) THEN <<>>
                           ELSE IF <<PromptOrder[i]>> \in E \cup disabled THEN f[i + 1]
                           ELSE Dollar(PromptOrder[i]) \o f[i + 1]]
<1>1. PutForAll(E) = (CHOOSE f : Eq(f))[1]
      BY DEF PutForAll
<1>2. ASSUME NEW f PROVE Eq(f) <=> f = [i \in 1 .. Len(PromptOrder) + 1 |-> Put(E, f, i)]
      BY DEF Put
<1>3. \E f : Eq(f)
  <2>1. PICK f : f = [i \in 1 .. Len(PromptOrder) + 1 |-> Put(E, f, i)]
        BY PutsExist
  <2> HIDE DEF Eq
  <2> QED BY <1>2, <2>1
<1> HIDE DEF Eq
<1>4. PICK g : g = (CHOOSE h : Eq(h)) /\ Eq(g)
      BY <1>3
<1>5. g = [i \in 1 .. Len(PromptOrder) + 1 |-> Put(E, g, i)] /\ PutForAll(E) = g[1]
      BY <1>1, <1>2, <1>4
<1>6. \A i \in 1 .. Len(PromptOrder) + 1 : g[i] = Put(E, g, i)
      BY <1>5
<1> QED BY <1>5, <1>6

\* x is what is put for the modules of the order from i on.
Puts(E, x, i) ==
    /\ Reads(x) /\ Meets(x) /\ Apart(x, FALSE) /\ NamesIn(x, TRUE) = {}
    /\ NamesIn(x, FALSE) = {<<PromptOrder[j]>> : j \in i .. Len(PromptOrder)} \ (E \cup disabled)

LEMMA PutsNothing ==
    ASSUME NEW E, NEW i \in Nat, i > Len(PromptOrder)
    PROVE  Puts(E, <<>>, i)
<1>1. PICK x : x = <<>>
      OBVIOUS
<1>2. x \in Seq(Lexemes) /\ Len(x) = 0 /\ 1 .. Len(x) = {}
      BY <1>1
<1>3. Reads(x) /\ Meets(x) /\ Apart(x, FALSE)
      BY <1>2 DEF Reads, Meets, Apart
<1>4. NamesIn(x, TRUE) = {} /\ NamesIn(x, FALSE) = {}
      BY <1>2 DEF NamesIn
<1>5. i .. Len(PromptOrder) = {}
      BY OrderIs
<1> QED BY <1>1, <1>3, <1>4, <1>5 DEF Puts

LEMMA ReplacementIs ==
    ASSUME NEW E
    PROVE  /\ Reads(PutForAll(E)) /\ Meets(PutForAll(E)) /\ Apart(PutForAll(E), FALSE)
           /\ NamesIn(PutForAll(E), TRUE) = {}
           /\ NamesIn(PutForAll(E), FALSE) = Ordered \ (E \cup disabled)
<1> DEFINE n == Len(PromptOrder)
<1>0. n \in Nat
      BY OrderIs
<1>1. PICK f : (\A i \in 1 .. n + 1 : f[i] = Put(E, f, i)) /\ PutForAll(E) = f[1]
      BY ReplacementPuts
<1> DEFINE T == {i \in 1 .. n + 1 : Puts(E, f[i], i)}
<1>2. ASSUME NEW i \in 1 .. n + 1, \A j \in i + 1 .. n + 1 : j \in T
      PROVE  Puts(E, f[i], i)
  <2>1. CASE i > n
    <3>1. f[i] = <<>>
          BY <1>1, <2>1 DEF Put
    <3>2. i \in Nat
          BY <1>0
    <3> QED BY <2>1, <3>1, <3>2, PutsNothing
  <2>2. CASE ~(i > n)
    <3>1. i \in 1 .. n /\ i + 1 \in i + 1 .. n + 1
          BY <1>0, <2>2
    <3>2. Puts(E, f[i + 1], i + 1)
          BY <1>2, <3>1
    <3>3. PICK m \in Lexemes : m = PromptOrder[i] /\ m \notin Marks /\ m # "all"
          BY <3>1, OrderIs
    <3>4. PICK O : O = {<<PromptOrder[j]>> : j \in i + 1 .. n}
          OBVIOUS
    <3>5. {<<PromptOrder[j]>> : j \in i .. n} = O \cup {<<m>>}
      <4>1. \A j : j \in i .. n <=> j = i \/ j \in i + 1 .. n
            BY <1>0, <3>1
      <4> HIDE DEF n
      <4> QED BY <3>3, <3>4, <4>1
    <3>6. PICK s : s = f[i + 1]
          OBVIOUS
    <3>7. f[i] = IF <<m>> \in E \cup disabled THEN s ELSE Dollar(m) \o s
      <4>1. f[i] = Put(E, f, i)
            BY <1>1
      <4> QED BY <2>2, <3>3, <3>6, <4>1, Zenon DEF Put
    <3>8. /\ Reads(s) /\ Meets(s) /\ Apart(s, FALSE) /\ NamesIn(s, TRUE) = {}
          /\ NamesIn(s, FALSE) = O \ (E \cup disabled)
          BY <3>2, <3>4, <3>6 DEF Puts
    <3>9. CASE <<m>> \in E \cup disabled
      <4>1. f[i] = s
            BY <3>7, <3>9
      <4>2. O \ (E \cup disabled) = (O \cup {<<m>>}) \ (E \cup disabled)
            BY <3>9
      <4> QED BY <3>5, <3>8, <4>1, <4>2 DEF Puts
    <3>10. CASE <<m>> \notin E \cup disabled
      <4>1. PICK d : d = Dollar(m)
            OBVIOUS
      <4>2. Reads(d) /\ Meets(d) /\ Apart(d, FALSE) /\ NamesIn(d, TRUE) = {} /\ NamesIn(d, FALSE) = {<<m>>}
            BY <3>3, <4>1, DollarIs
      <4>3. Cat(f[i], d, s)
        <5>1. f[i] = d \o s
              BY <3>7, <3>10, <4>1
        <5> QED BY <3>8, <4>2, <5>1, JoinedIsCat DEF Reads
      <4>4. Reads(f[i])
            BY <3>8, <4>2, <4>3, ReadsJoined
      <4>5. Apart(f[i], FALSE)
            BY <3>8, <4>2, <4>3, ApartJoined
      <4>6. NamesIn(f[i], TRUE) = {} /\ NamesIn(f[i], FALSE) = {<<m>>} \cup (O \ (E \cup disabled))
        <5>1. \A braced \in BOOLEAN : NamesIn(f[i], braced) = NamesIn(d, braced) \cup NamesIn(s, braced)
              BY <3>8, <4>2, <4>3, NamesJoined
        <5> QED BY <3>8, <4>2, <5>1
      <4>7. Meets(f[i])
        <5>1. 1 \in 1 .. Len(d) /\ d[1] \in Marks
          <6>1. d \in Seq(Lexemes) /\ d # <<>>
            <7>1. d # <<>>
              <8>1. <<"$", m>> # <<>>
                    OBVIOUS
              <8> QED BY <4>1, <8>1 DEF Dollar
            <7> QED BY <4>2, <7>1 DEF Reads
          <6>2. Len(d) \in Nat /\ Len(d) # 0
                BY <6>1, EmptySeq
          <6>3. 1 \in 1 .. Len(d)
                BY <6>2
          <6> QED BY <4>2, <6>2, <6>3 DEF Meets
        <5>2. f[i][1] = d[1]
              BY <4>3, <5>1 DEF Cat
        <5> QED BY <5>1, <5>2 DEF Meets
      <4>8. (O \cup {<<m>>}) \ (E \cup disabled) = {<<m>>} \cup (O \ (E \cup disabled))
            BY <3>10
      <4> QED BY <3>5, <4>4, <4>5, <4>6, <4>7, <4>8 DEF Puts
    <3> QED BY <3>9, <3>10
  <2> QED BY <2>1, <2>2
<1>3. \A i \in 1 .. n + 1 : i \in T
  <2>1. ASSUME NEW i \in 1 .. n + 1, \A j \in i + 1 .. n + 1 : j \in T PROVE i \in T
        BY <1>2, <2>1
  <2> HIDE DEF T, n
  <2> QED BY <1>0, <2>1, Backwards
<1>4. Puts(E, f[1], 1)
  <2>1. 1 \in 1 .. n + 1
        BY <1>0
  <2> QED BY <1>3, <2>1
<1>5. {<<PromptOrder[j]>> : j \in 1 .. n} = Ordered
  <2> HIDE DEF n
  <2>1. \A x : x \in Ordered <=> \E j \in 1 .. n : x = <<PromptOrder[j]>>
        BY OrderIs DEF n
  <2> QED BY <2>1
<1> QED BY <1>1, <1>4, <1>5 DEF Puts

\* Put for $all, it leaves what the formats name alone.
LEMMA ReplacementFits ==
    ASSUME NEW E
    PROVE  Fits(PutForAll(E), E \ {All})
<1>1. All \notin Ordered
      BY OrderIs
<1>2. PICK r : r = PutForAll(E)
      OBVIOUS
<1>3. /\ Reads(r) /\ Meets(r) /\ Apart(r, FALSE)
      /\ NamesIn(r, TRUE) = {} /\ NamesIn(r, FALSE) = Ordered \ (E \cup disabled)
      BY <1>2, ReplacementIs
<1>4. (Ordered \ (E \cup disabled)) \cap ((E \ {All}) \cup {All}) = {} /\ All \notin E \ {All}
      BY <1>1
<1> QED BY <1>2, <1>3, <1>4, Zenon DEF Fits

----------------------------------------------------------------------------
(* What expanding makes of a format.                                       *)

LEMMA ApartFromRunsOn ==
    ASSUME format \in Seq(Lexemes), ~RunsOn, NEW braced \in BOOLEAN
    PROVE  Apart(format, braced)
<1> DEFINE old == Old(braced)
<1>1. /\ old \in Seq(Lexemes) /\ Len(old) = Size(braced) /\ Size(braced) \in Nat /\ Size(braced) >= 2
      /\ Len(format) \in Nat /\ DOMAIN format = 1 .. Len(format)
      BY OldIs
<1>2. old \in {PlainAll, BracedAll}
      BY DEF Old
<1> SUFFICES ASSUME NEW k \in 1 .. Len(format), Stands(format, braced, k),
                    k + Size(braced) <= Len(format), format[k + Size(braced)] \notin Marks
             PROVE  FALSE
  <2>1. \A k \in 1 .. Len(format) : k + Size(braced) > Len(format) \/ k + Size(braced) <= Len(format)
        BY <1>1
  <2> QED BY <2>1 DEF Apart
<1>3. PICK l \in 1 .. Len(format) : l = k + Size(braced)
      BY <1>1
<1>4. format[l] \in {f \in ToSet(format) : f \notin Marks}
      BY <1>1, <1>3 DEF ToSet
<1>5. PICK w : w = format[l] /\ w \in Lexemes
      BY <1>3
<1> HIDE DEF old
<1>6. SubSeq(format, k, l) = Append(old, w)
  <2>1. PICK z \in Nat : z = Size(braced) /\ z >= 2 /\ l = k + z /\ Len(old) = z
        BY <1>1, <1>3
  <2>2. PICK a \in Nat : a + 1 = k /\ a = k - 1 /\ l - a = z + 1 /\ a <= l /\ l \in 0 .. Len(format) /\ l = a + (z + 1)
    <3>1. /\ k - 1 \in Nat /\ (k - 1) + 1 = k /\ l - (k - 1) = z + 1 /\ k - 1 <= l /\ l \in 0 .. Len(format)
          /\ l = (k - 1) + (z + 1)
          BY <1>1, <2>1
    <3> QED BY <3>1
  <2>3. \A j \in 1 .. z : format[a + j] = old[j]
    <3>1. k \in Nat \ {0}
          BY <1>1
    <3> QED BY <2>1, <2>2, <3>1, StandsElements DEF old
  <2>4. PICK s : s = SubSeq(format, k, l)
        OBVIOUS
  <2>5. s \in Seq(Lexemes) /\ Len(s) = z + 1 /\ \A j \in 1 .. z + 1 : s[j] = format[a + j]
        BY <2>2, <2>4, PartOf
  <2>6. PICK g : g = Append(old, w)
        OBVIOUS
  <2>7. /\ g \in Seq(Lexemes) /\ Len(g) = z + 1
        /\ (\A j \in 1 .. z : g[j] = old[j]) /\ g[z + 1] = w
        BY <1>1, <1>5, <2>1, <2>6
  <2>8. \A j \in 1 .. z + 1 : s[j] = g[j]
    <3> SUFFICES ASSUME NEW j \in 1 .. z + 1 PROVE s[j] = g[j]
        OBVIOUS
    <3>1. CASE j = z + 1
      <4>1. format[a + (z + 1)] = w
            BY <1>5, <2>2
      <4> QED BY <2>5, <2>7, <3>1, <4>1
    <3>2. CASE j # z + 1
      <4>1. j \in 1 .. z
            BY <2>1, <3>2
      <4> QED BY <2>3, <2>5, <2>7, <4>1
    <3> QED BY <3>1, <3>2
  <2> QED BY <2>4, <2>5, <2>6, <2>7, <2>8, SeqEqual
<1>7. SubSeq(format, k, l) \in SubSeqs(format)
  <2>1. PICK a \in 0 .. Len(format) : a + 1 = k
    <3>1. k - 1 \in 0 .. Len(format) /\ (k - 1) + 1 = k
          BY <1>1
    <3> QED BY <3>1
  <2>2. l \in 0 .. Len(format)
        BY <1>1
  <2>3. SubSeq(format, k, l) = SubSeq(format, a + 1, l)
        BY <2>1
  <2> QED BY <2>1, <2>2, <2>3 DEF SubSeqs
<1> QED BY <1>2, <1>4, <1>5, <1>6, <1>7 DEF RunsOn, Holds, old

LEMMA HeldAsNamed ==
    ASSUME Reads(format), ~RunsOn, NEW braced \in BOOLEAN
    PROVE  Holds(format, Old(braced)) <=> All \in NamesIn(format, braced)
<1>0. format \in Seq(Lexemes) /\ All \in Seq(Lexemes)
  <2>1. All \in Seq(Lexemes)
        BY Tuples, Zenon
  <2> QED BY <2>1 DEF Reads
<1>1. Apart(format, braced)
      BY <1>0, ApartFromRunsOn
<1>2. \A k \in 1 .. Len(format) : Stands(format, braced, k) <=> NameAt(format, braced, k, All)
      BY <1>0, <1>1, StandsForItself
<1>3. Holds(format, Old(braced)) <=> \E k \in 1 .. Len(format) : Stands(format, braced, k)
      BY <1>0, HeldWhereItStands
<1> QED BY <1>0, <1>2, <1>3 DEF NamesIn

\* Expanding puts the modules that no format names for $all, and keeps each
\* name in E as often.
LEMMA CoreMeansAll ==
    ASSUME Reads(format), ~RunsOn, NEW E
    PROVE  /\ ExpandAllCore(format, E) \in Seq(Lexemes)
           /\ Variables(ExpandAllCore(format, E)) =
                 (Variables(format) \ {All})
                    \cup (IF All \in Variables(format) THEN Ordered \ (E \cup disabled) ELSE {})
           /\ Cardinality({n \in Names(ExpandAllCore(format, E)) : n.name \in E \ {All}})
                 = Cardinality({n \in Names(format) : n.name \in E \ {All}})
<1> DEFINE X == E \ {All}
<1>1. PICK r : r = PutForAll(E)
      OBVIOUS
<1>2. PICK m : m = Replace(format, BracedAll, r)
      OBVIOUS
<1>3. PICK g : g = Replace(m, PlainAll, r)
      OBVIOUS
<1>4. ExpandAllCore(format, E) = g
      BY <1>1, <1>2, <1>3 DEF ExpandAllCore
<1>5. Fits(r, X) /\ NamesIn(r, FALSE) = Ordered \ (E \cup disabled) /\ All \notin Ordered
      BY <1>1, ReplacementFits, ReplacementIs, OrderIs
<1>6. Apart(format, TRUE) /\ Apart(format, FALSE)
  <2>1. format \in Seq(Lexemes)
        BY DEF Reads
  <2> QED BY <2>1, ApartFromRunsOn
<1> HIDE DEF X
<1>7. Becomes(format, m, TRUE, r, X)
  <2>1. Old(TRUE) = BracedAll
        BY DEF Old
  <2>2. Becomes(format, Replace(format, Old(TRUE), r), TRUE, r, X)
        BY <1>5, <1>6, ReplaceBecomes
  <2> QED BY <1>2, <2>1, <2>2, Zenon
<1>8. Reads(m) /\ Apart(m, FALSE)
      BY <1>6, <1>7 DEF Becomes
<1>9. Becomes(m, g, FALSE, r, X)
  <2>1. Old(FALSE) = PlainAll
        BY DEF Old
  <2>2. Becomes(m, Replace(m, Old(FALSE), r), FALSE, r, X)
        BY <1>5, <1>8, ReplaceBecomes
  <2> QED BY <1>3, <2>1, <2>2, Zenon
<1>10. g \in Seq(Lexemes) /\ format \in Seq(Lexemes)
       BY <1>9 DEF Becomes, Reads
<1>11. Variables(g) = (Variables(format) \ {All})
          \cup (IF All \in Variables(format) THEN Ordered \ (E \cup disabled) ELSE {})
  <2>1. PICK O : O = Ordered \ (E \cup disabled) /\ All \notin O /\ NamesIn(r, FALSE) = O
        BY <1>5
  <2>2. /\ NamesIn(m, TRUE) = NamesIn(format, TRUE) \ {All}
        /\ NamesIn(m, FALSE) = NamesIn(format, FALSE) \cup (IF All \in NamesIn(format, TRUE) THEN O ELSE {})
        BY <1>7, <2>1 DEF Becomes
  <2>3. /\ NamesIn(g, TRUE) = NamesIn(m, TRUE)
        /\ NamesIn(g, FALSE) = (NamesIn(m, FALSE) \ {All}) \cup (IF All \in NamesIn(m, FALSE) THEN O ELSE {})
        BY <1>9, <2>1 DEF Becomes
  <2>4. /\ Variables(g) = NamesIn(g, TRUE) \cup NamesIn(g, FALSE)
        /\ Variables(format) = NamesIn(format, TRUE) \cup NamesIn(format, FALSE)
        BY <1>10, VariablesByNames
  <2> DEFINE NT == NamesIn(format, TRUE)
             NF == NamesIn(format, FALSE)
  <2>5. NT = NamesIn(format, TRUE) /\ NF = NamesIn(format, FALSE)
        OBVIOUS
  <2> HIDE DEF NT, NF
  <2>6. Variables(g) = (NT \ {All}) \cup ((NF \cup (IF All \in NT THEN O ELSE {})) \ {All})
           \cup (IF All \in NF \cup (IF All \in NT THEN O ELSE {}) THEN O ELSE {})
        BY <2>2, <2>3, <2>4, <2>5
  <2>7. CASE All \in NT
        BY <2>1, <2>4, <2>5, <2>6, <2>7
  <2>8. CASE All \notin NT
        BY <2>1, <2>4, <2>5, <2>6, <2>8
  <2> QED BY <2>7, <2>8
<1>12. Cardinality({n \in Names(g) : n.name \in X}) = Cardinality({n \in Names(format) : n.name \in X})
  <2>1. Cardinality(Starts(g, X)) = Cardinality(Starts(m, X)) /\ Cardinality(Starts(m, X)) = Cardinality(Starts(format, X))
        BY <1>7, <1>9 DEF Becomes
  <2>2. /\ Cardinality({n \in Names(g) : n.name \in X}) = Cardinality(Starts(g, X))
        /\ Cardinality({n \in Names(format) : n.name \in X}) = Cardinality(Starts(format, X))
        BY <1>10, CountedByStarts
  <2> QED BY <2>1, <2>2
<1> QED BY <1>4, <1>10, <1>11, <1>12 DEF X

----------------------------------------------------------------------------
(* What is shown.                                                          *)

\* The modules that $all stands for.
Unnamed == Ordered \ (ExplicitVars \cup disabled)

\* The variables of a format once $all is resolved.
Named == (Variables(format) \ {All}) \cup (IF All \in Variables(format) THEN Unnamed ELSE {})

LEMMA ExpandedVariables ==
    ASSUME Reads(format), ~RunsOn
    PROVE  /\ Holds(format, PlainAll) => All \in Variables(format) /\ Variables(ExpandAll) = Named
           /\ ~Holds(format, PlainAll) => ExpandAll = format
           /\ Variables(ResolveFormat) \ {All} = Named
           /\ ExpandAll \in Seq(Lexemes)
           /\ Cardinality({n \in Names(ExpandAll) : n.name \in ExplicitVars \ {All}})
                 = Cardinality({n \in Names(format) : n.name \in ExplicitVars \ {All}})
<1>0. format \in Seq(Lexemes)
      BY DEF Reads
<1>1. PICK core : core = ExpandAllCore(format, ExplicitVars)
      OBVIOUS
<1>2. core \in Seq(Lexemes) /\ Variables(core) = Named
      BY <1>1, CoreMeansAll DEF Named, Unnamed
<1>3. /\ Holds(format, PlainAll) => All \in Variables(format)
      /\ Holds(format, BracedAll) => All \in Variables(format)
      /\ All \in Variables(format) => Holds(format, PlainAll) \/ Holds(format, BracedAll)
  <2>1. Old(TRUE) = BracedAll /\ Old(FALSE) = PlainAll
        BY DEF Old
  <2>2. Holds(format, Old(TRUE)) <=> All \in NamesIn(format, TRUE)
        BY HeldAsNamed
  <2>3. Holds(format, Old(FALSE)) <=> All \in NamesIn(format, FALSE)
        BY HeldAsNamed
  <2>4. Variables(format) = NamesIn(format, TRUE) \cup NamesIn(format, FALSE)
        BY <1>0, VariablesByNames
  <2> QED BY <2>1, <2>2, <2>3, <2>4
<1>4. All \notin Unnamed
      BY OrderIs DEF Unnamed
<1>5. CASE Holds(format, PlainAll)
  <2>1. ExpandAll = core /\ ResolveFormat = core
        BY <1>1, <1>5 DEF ExpandAll, ResolveFormat
  <2>2. Named \ {All} = Named
        BY <1>4 DEF Named
  <2>3. Cardinality({n \in Names(core) : n.name \in ExplicitVars \ {All}})
           = Cardinality({n \in Names(format) : n.name \in ExplicitVars \ {All}})
        BY <1>1, CoreMeansAll
  <2> QED BY <1>2, <1>3, <1>5, <2>1, <2>2, <2>3
<1>6. CASE ~Holds(format, PlainAll)
  <2>1. ExpandAll = format
        BY <1>6 DEF ExpandAll
  <2>2. CASE Holds(format, BracedAll)
    <3>1. ResolveFormat = core
          BY <1>1, <2>2 DEF ResolveFormat
    <3>2. Named \ {All} = Named
          BY <1>4 DEF Named
    <3> QED BY <1>0, <1>2, <1>6, <2>1, <3>1, <3>2
  <2>3. CASE ~Holds(format, BracedAll)
    <3>1. ResolveFormat = format
          BY <1>6, <2>3 DEF ResolveFormat
    <3>2. All \notin Variables(format) /\ Named = Variables(format) /\ Variables(format) \ {All} = Variables(format)
          BY <1>3, <1>6, <2>3 DEF Named
    <3> QED BY <1>0, <1>6, <2>1, <3>1, <3>2
  <2> QED BY <2>2, <2>3
<1> QED BY <1>5, <1>6

LEMMA TablesOf ==
    ASSUME NEW m \in Seq(Lexemes)
    PROVE  /\ (Len(m) = 1 /\ m[1] \in DOMAIN Children) <=> m \in {<<"custom">>, <<"env_var">>}
           /\ Len(m) = 1 /\ m[1] \in DOMAIN Children => {<<c>> : c \in Children[m[1]]} \subseteq Tables
<1>1. DOMAIN Children = {"custom", "env_var"}
      BY FormatsAssumption
<1>2. Len(m) = 1 <=> m = <<m[1]>>
  <2>1. ASSUME Len(m) = 1 PROVE m = <<m[1]>>
    <3>1. PICK c \in Lexemes : c = m[1]
      <4>1. 1 \in 1 .. Len(m)
            BY <2>1
      <4> QED BY <4>1
    <3>2. PICK o : o = <<c>>
          OBVIOUS
    <3>3. o \in Seq(Lexemes) /\ Len(o) = 1 /\ o[1] = c
          BY <3>2
    <3>4. \A i \in 1 .. 1 : i = 1
          OBVIOUS
    <3>5. m = o
          BY <2>1, <3>1, <3>3, <3>4, SeqEqual
    <3> QED BY <3>1, <3>2, <3>5
  <2>2. Len(<<m[1]>>) = 1
        OBVIOUS
  <2> QED BY <2>1, <2>2
<1>3. ASSUME Len(m) = 1, m[1] \in DOMAIN Children PROVE m \in {<<"custom">>, <<"env_var">>}
  <2>1. m = <<m[1]>>
        BY <1>2, <1>3
  <2>2. m[1] = "custom" \/ m[1] = "env_var"
        BY <1>1, <1>3
  <2> QED BY <2>1, <2>2, Zenon
<1>4. ASSUME NEW s, m = <<s>>, s \in DOMAIN Children PROVE Len(m) = 1 /\ m[1] \in DOMAIN Children
      BY <1>4
<1>5. ASSUME m \in {<<"custom">>, <<"env_var">>} PROVE Len(m) = 1 /\ m[1] \in DOMAIN Children
  <2>1. "custom" \in DOMAIN Children /\ "env_var" \in DOMAIN Children
        BY <1>1
  <2>2. m = <<"custom">> \/ m = <<"env_var">>
        BY <1>5
  <2> QED BY <1>4, <2>1, <2>2, Zenon
<1>6. ASSUME m[1] \in DOMAIN Children PROVE {<<c>> : c \in Children[m[1]]} \subseteq Tables
  <2>1. Children[m[1]] \subseteq Children["custom"] \cup Children["env_var"]
    <3>1. m[1] = "custom" \/ m[1] = "env_var"
          BY <1>1, <1>6
    <3> QED BY <3>1
  <2> QED BY <2>1 DEF Tables
<1> QED BY <1>3, <1>5, <1>6

\* A module stands for tables only, none of them left out or disabled.
LEMMA ImplicitIs ==
    ASSUME NEW m \in Seq(Lexemes), NEW E
    PROVE  /\ Implicit(m, E) \cap disabled = {}
           /\ Implicit(m, E) # {} => m \in {<<"custom">>, <<"env_var">>}
           /\ \A F : E \ (Ordered \cup {All}) = F \ (Ordered \cup {All}) => Implicit(m, E) = Implicit(m, F)
<1>1. CASE Len(m) = 1 /\ m[1] \in DOMAIN Children
  <2>1. PICK C : C = {<<c>> : c \in Children[m[1]]}
        OBVIOUS
  <2>2. \A F : Implicit(m, F) = C \ (F \cup disabled)
        BY <1>1, <2>1 DEF Implicit
  <2>3. C \subseteq Tables /\ m \in {<<"custom">>, <<"env_var">>}
        BY <1>1, <2>1, TablesOf, Zenon
  <2>4. C \cap (Ordered \cup {All}) = {}
        BY <2>3, FormatsAssumption
  <2>5. Implicit(m, E) \cap disabled = {}
        BY <2>2
  <2>6. ASSUME NEW F, E \ (Ordered \cup {All}) = F \ (Ordered \cup {All}) PROVE Implicit(m, E) = Implicit(m, F)
    <3>1. C \ (E \cup disabled) = C \ (F \cup disabled)
          BY <2>4, <2>6
    <3> QED BY <2>2, <3>1
  <2> QED BY <2>3, <2>5, <2>6
<1>2. CASE ~(Len(m) = 1 /\ m[1] \in DOMAIN Children)
  <2>1. \A F : Implicit(m, F) = {}
        BY <1>2 DEF Implicit
  <2> QED BY <2>1
<1> QED BY <1>1, <1>2

LEMMA SameModules ==
    ASSUME NEW A, NEW B, A \ {All} = B \ {All}, A \ {All} \subseteq Seq(Lexemes),
           NEW E, NEW F, E \ (Ordered \cup {All}) = F \ (Ordered \cup {All})
    PROVE  Modules(A, E) = Modules(B, F)
<1>1. \A m \in A \ {All} : Implicit(m, E) = Implicit(m, F)
      BY ImplicitIs
<1>2. UNION {Implicit(m, E) : m \in A \ {All}} = UNION {Implicit(m, F) : m \in B \ {All}}
      BY <1>1
<1>3. A \ {All, <<"custom">>} = B \ {All, <<"custom">>}
      OBVIOUS
<1> QED BY <1>2, <1>3 DEF Modules

LEMMA NamedAreTexts ==
    ASSUME format \in Seq(Lexemes), right_format \in Seq(Lexemes)
    PROVE  /\ Variables(format) \subseteq Seq(Lexemes) /\ Variables(right_format) \subseteq Seq(Lexemes)
           /\ Ordered \subseteq Seq(Lexemes) /\ Unnamed \subseteq Seq(Lexemes) /\ Named \subseteq Seq(Lexemes)
           /\ All \notin Named /\ Unnamed \subseteq Ordered /\ All \notin Unnamed
<1>1. Variables(format) \subseteq Seq(Lexemes) /\ Variables(right_format) \subseteq Seq(Lexemes)
      BY VariablesAre
<1>2. Ordered \subseteq Seq(Lexemes)
  <2> SUFFICES ASSUME NEW x \in Ordered PROVE x \in Seq(Lexemes)
      OBVIOUS
  <2>1. PICK i \in 1 .. Len(PromptOrder) : x = <<PromptOrder[i]>>
        BY OrderIs
  <2>2. PICK c \in Lexemes : c = PromptOrder[i]
        BY OrderIs
  <2> QED BY <2>1, <2>2
<1>3. Unnamed \subseteq Ordered /\ All \notin Unnamed
      BY OrderIs DEF Unnamed
<1>4. Named \subseteq Seq(Lexemes) /\ All \notin Named
      BY <1>1, <1>2, <1>3 DEF Named
<1> QED BY <1>1, <1>2, <1>3, <1>4

LEMMA ShownIs ==
    ASSUME format \in Seq(Lexemes), right_format \in Seq(Lexemes)
    PROVE  Shown(format, right_format) = Modules(Named, ExplicitVars)
<1>1. PICK A : A = Variables(format) \cup (IF All \in Variables(format) THEN Unnamed ELSE {})
      OBVIOUS
<1>2. Shown(format, right_format) = Modules(A, ExplicitVars)
  <2>1. (Ordered \ ExplicitVars) \ disabled = Unnamed
        BY DEF Unnamed
  <2>2. Variables(format) \cup Variables(right_format) = ExplicitVars
        BY DEF ExplicitVars
  <2> QED BY <1>1, <2>1, <2>2 DEF Shown
<1>3. A \ {All} = Named \ {All} /\ A \ {All} \subseteq Seq(Lexemes)
      BY <1>1, NamedAreTexts DEF Named
<1> QED BY <1>2, <1>3, SameModules

\* The expanded format shows the same.
LEMMA ShownTheSame ==
    ASSUME Reads(format), right_format \in Seq(Lexemes), ~RunsOn
    PROVE  Shown(ExpandAll, right_format) = Shown(format, right_format)
<1>0. format \in Seq(Lexemes)
      BY DEF Reads
<1>1. CASE Holds(format, PlainAll)
  <2>1. Variables(ExpandAll) = Named /\ All \notin Named
        BY <1>0, <1>1, ExpandedVariables, NamedAreTexts
  <2>2. PICK F : F = Named \cup Variables(right_format)
        OBVIOUS
  <2>3. Shown(ExpandAll, right_format) = Modules(Named, F)
    <3>1. Variables(ExpandAll) \cup Variables(right_format) = F
          BY <2>1, <2>2
    <3>2. Named \cup {} = Named
          OBVIOUS
    <3> QED BY <2>1, <3>1, <3>2 DEF Shown
  <2>4. F \ (Ordered \cup {All}) = ExplicitVars \ (Ordered \cup {All})
        BY <1>0, <2>2, NamedAreTexts DEF Named, ExplicitVars
  <2>5. Named \ {All} = Named \ {All} /\ Named \ {All} \subseteq Seq(Lexemes)
        BY <1>0, NamedAreTexts
  <2>6. Modules(Named, F) = Modules(Named, ExplicitVars)
        BY <2>4, <2>5, SameModules
  <2> QED BY <1>0, <2>3, <2>6, ShownIs
<1>2. CASE ~Holds(format, PlainAll)
      BY <1>2, ExpandedVariables
<1> QED BY <1>1, <1>2

----------------------------------------------------------------------------
(* The properties.                                                         *)

LEMMA OfMore ==
    ASSUME NEW S, NEW T, S \subseteq T, NEW p \in Seq(S)
    PROVE  p \in Seq(T)
OBVIOUS

\* Configurations are those that starship accepts.
Accepted == {f \in Seq(Lexemes) : Reads(f)}

FormatsInv == format \in Accepted /\ right_format \in Accepted

\* Configurations put together from what starship accepts are accepted: each $
\* of either format stands before a name, as StringFormatter::new requires,
\* which src/src/render/fork.rs:87 and src/src/timings.rs:36 call.
THEOREM FormatsAreRead == FormatsSpec => []FormatsInv
<1>1. ASSUME NEW p \in Pieces PROVE p \in Seq(Lexemes) /\ Reads(p)
  <2>1. p \in Seq(STRING) /\ Readable(p)
        BY FormatsAssumption
  <2>2. p \in Seq(Lexemes)
    <3>1. STRING \subseteq Lexemes
          BY DEF Lexemes
    <3> QED BY <2>1, <3>1, OfMore
  <2> QED BY <2>1, <2>2, ReadsIsReadable
<1>2. FormatsInit => FormatsInv
  <2> SUFFICES ASSUME FormatsInit PROVE FormatsInv
      OBVIOUS
  <2>1. format = <<>> /\ right_format = <<>>
        BY DEF FormatsInit
  <2>2. format \in Seq(Lexemes) /\ right_format \in Seq(Lexemes) /\ 1 .. Len(format) = {} /\ 1 .. Len(right_format) = {}
        BY <2>1
  <2> QED BY <2>2 DEF FormatsInv, Accepted, Reads
<1>3. FormatsInv /\ [FormatsNext]_formatsVars => FormatsInv'
  <2> SUFFICES ASSUME FormatsInv, [FormatsNext]_formatsVars PROVE FormatsInv'
      OBVIOUS
  <2>1. ASSUME AddLeft PROVE FormatsInv'
    <3>1. PICK p \in Pieces : format' = format \o p /\ right_format' = right_format
          BY <2>1 DEF AddLeft
    <3>2. format \in Seq(Lexemes) /\ Reads(format)
          BY DEF FormatsInv, Accepted
    <3>3. Cat(format \o p, format, p)
          BY <1>1, <3>2, JoinedIsCat
    <3>4. Reads(format \o p)
          BY <1>1, <3>2, <3>3, ReadsJoined
    <3>5. format \o p \in Accepted
          BY <3>3, <3>4 DEF Accepted, Cat
    <3> QED BY <3>1, <3>5 DEF FormatsInv
  <2>2. ASSUME AddRight PROVE FormatsInv'
    <3>1. PICK p \in Pieces : right_format' = p /\ format' = format
          BY <2>2 DEF AddRight
    <3>2. p \in Accepted
          BY <1>1 DEF Accepted
    <3> QED BY <3>1, <3>2 DEF FormatsInv
  <2>3. ASSUME Disable PROVE FormatsInv'
        BY <2>3 DEF Disable, FormatsInv
  <2>4. ASSUME UNCHANGED formatsVars PROVE FormatsInv'
        BY <2>4 DEF formatsVars, FormatsInv
  <2> QED BY <2>1, <2>2, <2>3, <2>4 DEF FormatsNext
<1> QED BY <1>2, <1>3, PTL DEF FormatsSpec

\* An expanded format shows the modules that it showed, and names each of them
\* as often: expand_all_core leaves out what either format names
\* (src/src/render/mod.rs:207).
THEOREM ExpandsAsMeant == FormatsSpec => []ExpandsToTheSame
<1>1. FormatsInv => ExpandsToTheSame
  <2> SUFFICES ASSUME FormatsInv, ~RunsOn
               PROVE  /\ Shown(ExpandAll, right_format) = Shown(format, right_format)
                      /\ Cardinality({n \in Names(ExpandAll) : n.name \in ExplicitVars \ {All}})
                            = Cardinality({n \in Names(format) : n.name \in ExplicitVars \ {All}})
      BY DEF ExpandsToTheSame
  <2>1. Reads(format) /\ right_format \in Seq(Lexemes)
        BY DEF FormatsInv, Accepted
  <2> QED BY <2>1, ShownTheSame, ExpandedVariables
<1> QED BY <1>1, FormatsAreRead, PTL

\* The timings report measures the modules that the prompt shows: what
\* resolve_format and module_names make of the formats of the configuration
\* (src/src/timings.rs).
THEOREM ReportIsOfThePrompt == FormatsSpec => []ReportsWhatIsShown
<1>1. FormatsInv => ReportsWhatIsShown
  <2> SUFFICES ASSUME FormatsInv, ~RunsOn
               PROVE  ModuleNames = Shown(ExpandAll, right_format)
                                       \cup Modules(Variables(right_format), ExplicitVars)
      BY DEF ReportsWhatIsShown
  <2>1. Reads(format) /\ format \in Seq(Lexemes) /\ right_format \in Seq(Lexemes)
        BY DEF FormatsInv, Accepted
  <2>2. Shown(ExpandAll, right_format) = Modules(Named, ExplicitVars)
        BY <2>1, ShownTheSame, ShownIs
  <2>3. PICK W : W = Variables(right_format)
        OBVIOUS
  <2>4. PICK N : N = Named
        OBVIOUS
  <2>5. N \subseteq Seq(Lexemes) /\ W \subseteq Seq(Lexemes) /\ All \notin N
        BY <2>1, <2>3, <2>4, NamedAreTexts
  <2>6. PICK names : names = (N \cup W) \ {All}
        OBVIOUS
  <2>7. (Variables(ResolveFormat) \cup Variables(right_format)) \ {All} = names
    <3>1. Variables(ResolveFormat) \ {All} = N
          BY <2>1, <2>4, ExpandedVariables
    <3> QED BY <2>3, <2>5, <2>6, <3>1
  <2>8. \A n \in names : ImplicitChildren(n) = Implicit(n, ExplicitVars)
    <3> SUFFICES ASSUME NEW n \in names PROVE ImplicitChildren(n) = Implicit(n, ExplicitVars)
        OBVIOUS
    <3>1. n \in Seq(Lexemes)
          BY <2>5, <2>6
    <3>2. (Len(n) = 1 /\ n[1] \in DOMAIN Children) <=> n \in {<<"custom">>, <<"env_var">>}
          BY <3>1, TablesOf, Zenon
    <3>3. {<<c>> : c \in {c \in Children[n[1]] : <<c>> \notin ExplicitVars \cup disabled}}
             = {<<c>> : c \in Children[n[1]]} \ (ExplicitVars \cup disabled)
          OBVIOUS
    <3> QED BY <3>2, <3>3, Zenon DEF ImplicitChildren, Implicit
  <2>9. \A n \in names : Implicit(n, ExplicitVars) \cap disabled = {}
        BY <2>5, <2>6, ImplicitIs
  <2>10. ModuleNames = ((names \ {<<"custom">>}) \cup UNION {Implicit(n, ExplicitVars) : n \in names}) \ disabled
         BY <2>7, <2>8 DEF ModuleNames
  <2>11. /\ Modules(N, ExplicitVars) = ((N \ {All, <<"custom">>}) \ disabled)
                                           \cup UNION {Implicit(m, ExplicitVars) : m \in N \ {All}}
         /\ Modules(W, ExplicitVars) = ((W \ {All, <<"custom">>}) \ disabled)
                                           \cup UNION {Implicit(m, ExplicitVars) : m \in W \ {All}}
         BY DEF Modules
  <2>12. ModuleNames = Modules(N, ExplicitVars) \cup Modules(W, ExplicitVars)
         BY <2>6, <2>9, <2>10, <2>11
  <2> QED BY <2>2, <2>3, <2>4, <2>12
<1> QED BY <1>1, FormatsAreRead, PTL

\* What populate_cache keeps is none of the live modules, and of the others all
\* that the prompt shows but what ${all} and $custom stand for
\* (src/README.md:90, src/src/render/fork.rs).
THEOREM KeepsWhatStands == FormatsSpec => []KeepsAllButTheLive
<1>1. FormatsInv => KeepsAllButTheLive
  <2> DEFINE Tabled == UNION {Implicit(m, ExplicitVars) : m \in {<<"custom">>, <<"env_var">>}}
  <2> SUFFICES ASSUME FormatsInv, ~RunsOn
               PROVE  /\ PopulateCache \cap Live = {}
                      /\ Shown(format, right_format) \ (PopulateCache \cup Live)
                           \subseteq (IF Holds(format, PlainAll) THEN {} ELSE Ordered) \cup Tabled
      BY DEF KeepsAllButTheLive
  <2>1. Reads(format) /\ format \in Seq(Lexemes) /\ right_format \in Seq(Lexemes)
        BY DEF FormatsInv, Accepted
  <2>2. PopulateCache \cap Live = {}
        BY DEF PopulateCache
  <2>3. Shown(format, right_format) = Modules(Named, ExplicitVars)
        BY <2>1, ShownIs
  <2>4. Named \subseteq Seq(Lexemes) /\ All \notin Named /\ Unnamed \subseteq Ordered
        BY <2>1, NamedAreTexts
  <2>5. \A m \in Named \ {All} : Implicit(m, ExplicitVars) \subseteq Tabled
    <3> SUFFICES ASSUME NEW m \in Named PROVE Implicit(m, ExplicitVars) \subseteq Tabled
        OBVIOUS
    <3>1. Implicit(m, ExplicitVars) # {} => m \in {<<"custom">>, <<"env_var">>}
          BY <2>4, ImplicitIs
    <3> QED BY <3>1
  <2> HIDE DEF Tabled
  <2>6. Modules(Named, ExplicitVars) \subseteq (Named \ disabled) \cup Tabled
        BY <2>5 DEF Modules
  <2>7. Named \ (Variables(ExpandAll) \ {All}) \subseteq (IF Holds(format, PlainAll) THEN {} ELSE Ordered)
    <3>1. CASE Holds(format, PlainAll)
          BY <2>1, <2>4, <3>1, ExpandedVariables
    <3>2. CASE ~Holds(format, PlainAll)
      <4>1. ExpandAll = format
            BY <2>1, <3>2, ExpandedVariables
      <4> QED BY <2>4, <3>2, <4>1 DEF Named
    <3> QED BY <3>1, <3>2
  <2>8. (Named \ disabled) \ (PopulateCache \cup Live)
           \subseteq (IF Holds(format, PlainAll) THEN {} ELSE Ordered)
    <3>1. (Named \ disabled) \ (PopulateCache \cup Live) \subseteq Named \ (Variables(ExpandAll) \ {All})
          BY DEF PopulateCache
    <3> QED BY <2>7, <3>1
  <2> QED BY <2>2, <2>3, <2>6, <2>8
<1> QED BY <1>1, FormatsAreRead, PTL
=============================================================================
