----------------------------- MODULE WireProofs -----------------------------
(***************************************************************************)
(* Proofs about what goes over the pipe: that every request is taken for   *)
(* what it means, of any length of its parts, stands alone whatever bytes  *)
(* come, and that a reply is shown whole and leaves nothing behind.        *)
(***************************************************************************)
EXTENDS Wire, SequenceTheorems, WellFoundedInduction, TLAPS

----------------------------------------------------------------------------
(* Numbers.                                                                *)

LEMMA BaseFacts ==
    /\ Base \in Nat /\ Base > 2 /\ Base # 0
    /\ MaxFrameLen \in Nat /\ MaxTotalLen \in Nat /\ MaxTotalLen = MaxFrameLen - 5
    /\ MaxTotalLen >= 4
<1>1. Base \in Nat /\ Base >= 3 /\ MaxFrameLen = Base * Base
      BY WireAssumption
<1>2. Base * Base >= 3 * 3 /\ Base * Base \in Nat
      BY <1>1
<1> QED BY <1>1, <1>2 DEF MaxTotalLen, HeaderLen

\* A number is its first digit and Base times the rest.
LEMMA Division ==
    ASSUME NEW n \in Nat
    PROVE  /\ n \div Base \in Nat /\ n % Base \in 0 .. Base - 1
           /\ n = (n % Base) + Base * (n \div Base)
BY BaseFacts

LEMMA Quotient ==
    ASSUME NEW n \in Nat, NEW m \in Nat, n < Base * m
    PROVE  n \div Base < m
<1>1. n \div Base \in Nat /\ n % Base \in Nat /\ n = (n % Base) + Base * (n \div Base)
      BY Division, BaseFacts
<1>2. SUFFICES ASSUME m <= n \div Base PROVE FALSE
      BY <1>1
<1>3. Base * m <= Base * (n \div Base)
      BY <1>1, <1>2, BaseFacts
<1> QED BY <1>1, <1>3, BaseFacts

LEMMA Remainder ==
    ASSUME NEW n \in Nat, n < Base
    PROVE  n % Base = n /\ n \div Base = 0
BY BaseFacts

Byte == 0 .. Base - 1

LEMMA LEDigits ==
    ASSUME NEW n \in Nat, NEW k \in {1, 2, 4}
    PROVE  /\ LE(n, k) \in Seq(Byte) /\ Len(LE(n, k)) = k /\ DOMAIN LE(n, k) = 1 .. k
           /\ LE(n, k)[1] = n % Base
           /\ k >= 2 => LE(n, k)[2] = (n \div Base) % Base
           /\ k = 4 => /\ LE(n, k)[3] = ((n \div Base) \div Base) % Base
                       /\ LE(n, k)[4] = (((n \div Base) \div Base) \div Base) % Base
<1> DEFINE n2 == n \div Base
           n3 == n2 \div Base
           n4 == n3 \div Base
           rest == <<n, n2, n3, n4>>
<1>1. n2 \in Nat
      BY Division
<1>2. n3 \in Nat
      BY <1>1, Division
<1>3. n4 \in Nat
      BY <1>2, Division
<1>4. LE(n, k) = [i \in 1 .. k |-> rest[i] % Base]
      BY DEF LE
<1> HIDE DEF n2, n3, n4
<1>5. /\ n % Base \in Byte /\ n2 % Base \in Byte /\ n3 % Base \in Byte /\ n4 % Base \in Byte
      BY <1>1, <1>2, <1>3, Division DEF Byte
<1>6. rest[1] = n /\ rest[2] = n2 /\ rest[3] = n3 /\ rest[4] = n4
      OBVIOUS
<1>7. \A i \in 1 .. k : i = 1 \/ i = 2 \/ i = 3 \/ i = 4
      OBVIOUS
<1> HIDE DEF rest, Byte
<1>8. \A i \in 1 .. k : rest[i] % Base \in Byte
      BY <1>5, <1>6, <1>7
<1>9. LE(n, k) \in Seq(Byte) /\ Len(LE(n, k)) = k /\ DOMAIN LE(n, k) = 1 .. k
      BY <1>4, <1>8
<1> QED BY <1>4, <1>6, <1>9 DEF n2, n3, n4

LEMMA ValueOf4 ==
    ASSUME NEW n \in Numbers
    PROVE  Value(LE(n, 4)) = n
<1> DEFINE n2 == n \div Base
           n3 == n2 \div Base
           n4 == n3 \div Base
<1>0. n \in Nat /\ Base \in Nat /\ Base * Base \in Nat /\ Base * (Base * Base) \in Nat
      /\ n < Base * (Base * (Base * Base))
      BY BaseFacts DEF Numbers
<1>1. n2 \in Nat /\ n = (n % Base) + Base * n2 /\ n2 < Base * (Base * Base)
      BY <1>0, Division, Quotient
<1>2. n3 \in Nat /\ n2 = (n2 % Base) + Base * n3 /\ n3 < Base * Base
      BY <1>0, <1>1, Division, Quotient
<1>3. n4 \in Nat /\ n3 = (n3 % Base) + Base * n4 /\ n4 < Base
      BY <1>0, <1>2, Division, Quotient
<1>4. n4 % Base = n4
      BY <1>3, Remainder
<1>5. LET s == LE(n, 4) IN
      /\ DOMAIN s = 1 .. 4
      /\ s[1] = n % Base /\ s[2] = n2 % Base /\ s[3] = n3 % Base /\ s[4] = n4 % Base
      BY <1>0, LEDigits
<1> HIDE DEF n2, n3, n4
<1>6. Value(LE(n, 4)) = (n % Base) + Base * ((n2 % Base) + Base * ((n3 % Base) + Base * n4))
      BY <1>4, <1>5 DEF Value
<1> QED BY <1>1, <1>2, <1>3, <1>6

LEMMA ValueOf2 ==
    ASSUME NEW n \in 0 .. MaxFrameLen - 1
    PROVE  Value(LE(n, 2)) = n
<1> DEFINE n2 == n \div Base
<1>0. n \in Nat /\ Base \in Nat /\ n < Base * Base
      BY BaseFacts, WireAssumption
<1>1. n2 \in Nat /\ n = (n % Base) + Base * n2 /\ n2 < Base
      BY <1>0, Division, Quotient
<1>2. n2 % Base = n2
      BY <1>1, Remainder
<1>3. LET s == LE(n, 2) IN DOMAIN s = 1 .. 2 /\ s[1] = n % Base /\ s[2] = n2 % Base
      BY <1>0, LEDigits
<1> HIDE DEF n2
<1>4. Value(LE(n, 2)) = (n % Base) + Base * (n2 + Base * (0 + Base * 0))
      BY <1>2, <1>3 DEF Value
<1>5. Base * (n2 + Base * (0 + Base * 0)) = Base * n2
      BY <1>0, <1>1
<1> QED BY <1>1, <1>4, <1>5

\* Bytes are a number, whichever they are.
LEMMA ValueIsNumber ==
    ASSUME NEW s \in Seq(Byte)
    PROVE  Value(s) \in Nat
<1> DEFINE digit(i) == IF i \in DOMAIN s THEN s[i] ELSE 0
<1>1. \A i \in {1, 2, 3, 4} : digit(i) \in Nat
      BY BaseFacts DEF Byte
<1>2. Value(s) = digit(1) + Base * (digit(2) + Base * (digit(3) + Base * digit(4)))
      BY DEF Value
<1> HIDE DEF digit
<1>3. Base * digit(4) \in Nat
      BY <1>1, BaseFacts
<1>4. Base * (digit(3) + Base * digit(4)) \in Nat
      BY <1>1, <1>3, BaseFacts
<1>5. Base * (digit(2) + Base * (digit(3) + Base * digit(4))) \in Nat
      BY <1>1, <1>4, BaseFacts
<1> QED BY <1>1, <1>2, <1>5

----------------------------------------------------------------------------
(* Slices.                                                                 *)

LEMMA SliceIs ==
    ASSUME NEW S, NEW s \in Seq(S), NEW off \in Nat, NEW n \in Nat, off + n <= Len(s)
    PROVE  /\ Slice(s, off, n) \in Seq(S) /\ Len(Slice(s, off, n)) = n
           /\ \A i \in 1 .. n : Slice(s, off, n)[i] = s[off + i]
<1>1. Slice(s, off, n) = [i \in 1 .. n |-> s[off + i]]
  <2>1. Slice(s, off, n) = [i \in 1 .. (off + n) - (off + 1) + 1 |-> s[i + (off + 1) - 1]]
        BY DEF Slice
  <2> QED BY <2>1
<1>2. \A i \in 1 .. n : off + i \in 1 .. Len(s)
      OBVIOUS
<1>3. \A i \in 1 .. n : s[off + i] \in S
      BY <1>2
<1> QED BY <1>1, <1>3

\* Where two sequences have the same elements they have the same slices.
LEMMA SameSlice ==
    ASSUME NEW S, NEW s \in Seq(S), NEW t \in Seq(S), NEW off \in Nat, NEW n \in Nat,
           off + n <= Len(s), off + n <= Len(t),
           \A i \in off + 1 .. off + n : s[i] = t[i]
    PROVE  Slice(s, off, n) = Slice(t, off, n)
<1>1. /\ Slice(s, off, n) \in Seq(S) /\ Len(Slice(s, off, n)) = n
      /\ \A i \in 1 .. n : Slice(s, off, n)[i] = s[off + i]
      BY SliceIs
<1>2. /\ Slice(t, off, n) \in Seq(S) /\ Len(Slice(t, off, n)) = n
      /\ \A i \in 1 .. n : Slice(t, off, n)[i] = t[off + i]
      BY SliceIs
<1>3. \A i \in 1 .. n : off + i \in off + 1 .. off + n
      OBVIOUS
<1>4. \A i \in 1 .. n : Slice(s, off, n)[i] = Slice(t, off, n)[i]
      BY <1>1, <1>2, <1>3
<1> QED BY <1>1, <1>2, <1>4, SeqEqual

\* The header of a frame.
LEMMA HeaderNumber ==
    ASSUME NEW data \in Seq(Byte), Len(data) >= HeaderLen
    PROVE  Number(data, 1, 4) \in Nat
<1>1. Slice(data, 1, 4) \in Seq(Byte)
      BY SliceIs DEF HeaderLen
<1> QED BY <1>1, ValueIsNumber DEF Number

\* A frame is parsed from what its header says is of it, and the same whatever
\* comes behind that.
LEMMA SameParse ==
    ASSUME NEW data \in Seq(Byte), NEW other \in Seq(Byte), Len(data) >= HeaderLen,
           HeaderLen + Number(data, 1, 4) <= Len(data),
           HeaderLen + Number(data, 1, 4) <= Len(other),
           \A i \in 1 .. HeaderLen + Number(data, 1, 4) : other[i] = data[i]
    PROVE  Parse(other) = Parse(data)
<1> DEFINE total == Number(data, 1, 4)
<1>1. total \in Nat
      BY HeaderNumber
<1>2. Len(other) >= HeaderLen /\ Len(other) \in Nat /\ Len(data) \in Nat /\ HeaderLen = 5
      BY <1>1 DEF HeaderLen
<1> HIDE DEF total
<1>3. Number(other, 1, 4) = total
  <2>1. \A i \in 1 + 1 .. 1 + 4 : other[i] = data[i]
        BY <1>1, <1>2 DEF total
  <2>2. Slice(other, 1, 4) = Slice(data, 1, 4)
        BY <1>2, <2>1, SameSlice
  <2> QED BY <2>2 DEF Number, total
<1>4. other[1] = data[1]
      BY <1>1, <1>2 DEF total
<1>5. Slice(other, HeaderLen, total) = Slice(data, HeaderLen, total)
  <2>1. \A i \in HeaderLen + 1 .. HeaderLen + total : other[i] = data[i]
        BY <1>1, <1>2 DEF total
  <2> QED BY <1>1, <1>2, <2>1, SameSlice DEF total
<1> QED BY <1>1, <1>2, <1>3, <1>4, <1>5 DEF Parse, Has, total

\* And not at all from less.
LEMMA NoParse ==
    ASSUME NEW data \in Seq(Byte), Len(data) >= HeaderLen,
           NEW n \in 0 .. HeaderLen + Number(data, 1, 4) - 1, n <= Len(data)
    PROVE  Parse(SubSeq(data, 1, n)) = Nothing
<1> DEFINE less == SubSeq(data, 1, n)
<1>1. Number(data, 1, 4) \in Nat /\ Len(data) \in Nat /\ HeaderLen = 5
      BY HeaderNumber DEF HeaderLen
<1>2. less \in Seq(Byte) /\ Len(less) = n /\ \A i \in 1 .. n : less[i] = data[i]
      BY <1>1
<1> HIDE DEF less
<1>3. CASE n < HeaderLen
      BY <1>1, <1>2, <1>3 DEF Parse, less
<1>4. CASE n >= HeaderLen
  <2>1. \A i \in 1 + 1 .. 1 + 4 : less[i] = data[i]
        BY <1>1, <1>2, <1>4
  <2>2. Slice(less, 1, 4) = Slice(data, 1, 4)
    <3>1. 1 + 4 <= Len(less) /\ 1 + 4 <= Len(data) /\ 1 \in Nat /\ 4 \in Nat
          BY <1>1, <1>2, <1>4
    <3> QED BY <1>2, <2>1, <3>1, SameSlice
  <2>3. Number(less, 1, 4) = Number(data, 1, 4)
        BY <2>2 DEF Number
  <2>4. ~Has(less, HeaderLen, Number(less, 1, 4))
        BY <1>1, <1>2, <2>3 DEF Has
  <2> QED BY <2>4 DEF Parse, less
<1> QED BY <1>1, <1>3, <1>4

LEMMA FrameStandsAlone ==
    ASSUME frame \in Seq(Byte)
    PROVE  StandsAlone
<1> SUFFICES ASSUME Parse(frame) # Nothing
             PROVE  LET end == HeaderLen + Number(frame, 1, 4) IN
                    /\ \A n \in 0 .. end - 1 : Parse(SubSeq(frame, 1, n)) = Nothing
                    /\ \A n \in end .. Len(frame) : Parse(SubSeq(frame, 1, n)) = Parse(frame)
                    /\ Parse(frame \o frame) = Parse(frame)
    BY DEF StandsAlone
<1> DEFINE end == HeaderLen + Number(frame, 1, 4)
<1>1. Len(frame) >= HeaderLen /\ end <= Len(frame) /\ Len(frame) \in Nat
      BY DEF Parse, Has
<1>2. end \in Nat /\ end >= HeaderLen
      BY <1>1, HeaderNumber DEF HeaderLen
<1>3. ASSUME NEW n \in 0 .. end - 1 PROVE Parse(SubSeq(frame, 1, n)) = Nothing
  <2>1. n <= Len(frame)
        BY <1>1, <1>2
  <2>2. n \in 0 .. HeaderLen + Number(frame, 1, 4) - 1
        BY <1>1, HeaderNumber DEF HeaderLen
  <2> HIDE DEF end
  <2> QED BY <1>1, <2>1, <2>2, NoParse
<1>4. ASSUME NEW n \in end .. Len(frame) PROVE Parse(SubSeq(frame, 1, n)) = Parse(frame)
  <2>1. /\ SubSeq(frame, 1, n) \in Seq(Byte) /\ Len(SubSeq(frame, 1, n)) = n
        /\ \A i \in 1 .. end : SubSeq(frame, 1, n)[i] = frame[i]
        BY <1>1, <1>2
  <2>2. n >= end
        BY <1>2, <1>4
  <2> QED BY <1>1, <1>2, <2>1, <2>2, SameParse
<1>5. Parse(frame \o frame) = Parse(frame)
  <2>1. /\ frame \o frame \in Seq(Byte) /\ end <= Len(frame \o frame)
        /\ \A i \in 1 .. end : (frame \o frame)[i] = frame[i]
        BY <1>1, <1>2
  <2> QED BY <1>1, <1>2, <2>1, SameParse
<1> QED BY <1>3, <1>4, <1>5

----------------------------------------------------------------------------
(* Layouts.  What lies behind a part does not move it.                     *)

Starts(s, p) == Len(p) <= Len(s) /\ \A i \in 1 .. Len(p) : s[i] = p[i]

LEMMA Part ==
    ASSUME NEW S, NEW s \in Seq(S), NEW p \in Seq(S), NEW f \in Seq(S), Starts(s, p \o f)
    PROVE  /\ Starts(s, p) /\ Len(p \o f) = Len(p) + Len(f) /\ Len(p) + Len(f) <= Len(s)
           /\ Slice(s, Len(p), Len(f)) = f
<1>1. /\ Len(p) \in Nat /\ Len(f) \in Nat /\ Len(s) \in Nat
      /\ Len(p \o f) = Len(p) + Len(f) /\ Len(p) + Len(f) <= Len(s)
      BY LenProperties, ConcatProperties DEF Starts
<1>2. \A i \in 1 .. Len(p) + Len(f) : s[i] = IF i <= Len(p) THEN p[i] ELSE f[i - Len(p)]
      BY <1>1, ConcatProperties DEF Starts
<1>3. Starts(s, p)
      BY <1>1, <1>2 DEF Starts
<1>4. /\ Slice(s, Len(p), Len(f)) \in Seq(S) /\ Len(Slice(s, Len(p), Len(f))) = Len(f)
      /\ \A i \in 1 .. Len(f) : Slice(s, Len(p), Len(f))[i] = s[Len(p) + i]
      BY <1>1, SliceIs
<1>5. ASSUME NEW i \in 1 .. Len(f) PROVE Slice(s, Len(p), Len(f))[i] = f[i]
  <2>1. /\ Len(p) + i \in 1 .. Len(p) + Len(f) /\ ~(Len(p) + i <= Len(p))
        /\ (Len(p) + i) - Len(p) = i
        BY <1>1
  <2>2. s[Len(p) + i] = f[i]
        BY <1>2, <2>1
  <2> QED BY <1>4, <2>2
<1> QED BY <1>1, <1>3, <1>4, <1>5, SeqEqual

\* The same for bytes, with the places as numbers.
Bytes(s, n) == s \in Seq(Byte) /\ Len(s) = n

LEMMA Joined ==
    ASSUME NEW p, NEW f, NEW at, NEW n, Bytes(p, at), Bytes(f, n)
    PROVE  Bytes(p \o f, at + n)
<1>1. p \in Seq(Byte) /\ f \in Seq(Byte) /\ Len(p) = at /\ Len(f) = n
      BY DEF Bytes
<1>2. p \o f \in Seq(Byte) /\ Len(p \o f) = Len(p) + Len(f)
      BY <1>1, ConcatProperties
<1> QED BY <1>1, <1>2 DEF Bytes

LEMMA PartAt ==
    ASSUME NEW s, NEW m, Bytes(s, m), NEW p, NEW at, Bytes(p, at), NEW f, NEW n, Bytes(f, n),
           Starts(s, p \o f)
    PROVE  Starts(s, p) /\ Slice(s, at, n) = f
<1>1. /\ s \in Seq(Byte) /\ p \in Seq(Byte) /\ f \in Seq(Byte)
      /\ Len(p) = at /\ Len(f) = n
      BY DEF Bytes
<1>2. Starts(s, p) /\ Slice(s, Len(p), Len(f)) = f
      BY <1>1, Part
<1> QED BY <1>1, <1>2

LEMMA LossyOfText ==
    ASSUME NEW text \in Seq((0 .. Base - 1) \ {Bad})
    PROVE  text \in Seq(Byte) /\ Lossy(text) = text
<1>1. DOMAIN text = 1 .. Len(text) /\ Len(text) \in Nat
      BY LenProperties
<1>2. \A i \in DOMAIN text : text[i] \in Byte /\ text[i] # Bad
      BY <1>1, ElementOfSeq DEF Byte
<1>3. text \in Seq(Byte)
  <2> DEFINE Good == (0 .. Base - 1) \ {Bad}
  <2>1. Good \subseteq Byte
        BY DEF Byte
  <2>2. text \in Seq(Good)
        OBVIOUS
  <2> HIDE DEF Good
  <2> QED BY <2>1, <2>2, SeqMonotonic
<1>4. Lossy(text) = [i \in DOMAIN text |-> text[i]]
      BY <1>2 DEF Lossy
<1>5. text = [i \in DOMAIN text |-> text[i]]
      BY <1>1
<1> QED BY <1>3, <1>4, <1>5

\* The parts of a request, and where each one starts.
LEMMA LayoutParts ==
    ASSUME NEW r \in Requests
    PROVE  LET body == Layout(r)
               c == Len(r.cwd)  k == Len(r.keymap)  g == Len(r.config)
           IN  /\ body \in Seq(Byte) /\ c \in Nat /\ k \in Nat /\ g \in Nat
               /\ Len(body) = 17 + c + k + g
               /\ Slice(body, 0, 4) = LE(c, 4) /\ Slice(body, 4, c) = r.cwd
               /\ Slice(body, 4 + c, 4) = LE(r.status, 4)
               /\ Slice(body, 8 + c, 2) = LE(k, 2) /\ Slice(body, 10 + c, k) = r.keymap
               /\ Slice(body, 10 + c + k, 4) = LE(r.width, 4)
               /\ Slice(body, 14 + c + k, 2) = LE(g, 2) /\ Slice(body, 16 + c + k, g) = r.config
               /\ Slice(body, 16 + c + k + g, 1) = LE(r.disable, 1)
<1> DEFINE c == Len(r.cwd)
           k == Len(r.keymap)
           g == Len(r.config)
<1>1. r.status \in Nat /\ r.width \in Nat /\ r.disable \in Nat
      BY RequestAssumption, BaseFacts DEF Numbers
<1>2. r.cwd \in Seq(Byte) /\ r.keymap \in Seq(Byte) /\ r.config \in Seq(Byte)
      BY RequestAssumption, LossyOfText
<1>3. c \in Nat /\ k \in Nat /\ g \in Nat
      BY <1>2, LenProperties
<1> HIDE DEF c, k, g
<1> DEFINE e1 == LE(c, 4)
           e2 == r.cwd
           e3 == LE(r.status, 4)
           e4 == LE(k, 2)
           e5 == r.keymap
           e6 == LE(r.width, 4)
           e7 == LE(g, 2)
           e8 == r.config
           e9 == LE(r.disable, 1)
           body == Layout(r)
<1>4. Bytes(e1, 4) /\ Bytes(e3, 4) /\ Bytes(e6, 4)
      BY <1>1, <1>3, LEDigits DEF Bytes
<1>5. Bytes(e4, 2) /\ Bytes(e7, 2) /\ Bytes(e9, 1)
      BY <1>1, <1>3, LEDigits DEF Bytes
<1>6. Bytes(e2, c) /\ Bytes(e5, k) /\ Bytes(e8, g)
      BY <1>2 DEF Bytes, c, k, g
<1>7. body = e1 \o e2 \o e3 \o e4 \o e5 \o e6 \o e7 \o e8 \o e9
      BY DEF Layout, c, k, g
<1> HIDE DEF e1, e2, e3, e4, e5, e6, e7, e8, e9, body
<1> DEFINE p2 == e1 \o e2
           p3 == p2 \o e3
           p4 == p3 \o e4
           p5 == p4 \o e5
           p6 == p5 \o e6
           p7 == p6 \o e7
           p8 == p7 \o e8
<1>8. body = p8 \o e9
      BY <1>7
<1>9. p2 = e1 \o e2
      OBVIOUS
<1>10. p3 = p2 \o e3
      OBVIOUS
<1>11. p4 = p3 \o e4
      OBVIOUS
<1>12. p5 = p4 \o e5
      OBVIOUS
<1>13. p6 = p5 \o e6
      OBVIOUS
<1>14. p7 = p6 \o e7
      OBVIOUS
<1>15. p8 = p7 \o e8
      OBVIOUS
<1> HIDE DEF p2, p3, p4, p5, p6, p7, p8
<1>16. Bytes(p2, 4 + c)
  <2>1. Bytes(e1 \o e2, 4 + c)
        BY <1>4, <1>5, <1>6, Joined
  <2> QED BY <1>9, <2>1
<1>17. Bytes(p3, 8 + c)
  <2>1. Bytes(p2 \o e3, (4 + c) + 4)
        BY <1>4, <1>5, <1>6, <1>16, Joined
  <2>2. (4 + c) + 4 = 8 + c
        BY <1>3
  <2> QED BY <1>10, <2>1, <2>2
<1>18. Bytes(p4, 10 + c)
  <2>1. Bytes(p3 \o e4, (8 + c) + 2)
        BY <1>4, <1>5, <1>6, <1>17, Joined
  <2>2. (8 + c) + 2 = 10 + c
        BY <1>3
  <2> QED BY <1>11, <2>1, <2>2
<1>19. Bytes(p5, 10 + c + k)
  <2>1. Bytes(p4 \o e5, (10 + c) + k)
        BY <1>4, <1>5, <1>6, <1>18, Joined
  <2>2. (10 + c) + k = 10 + c + k
        BY <1>3
  <2> QED BY <1>12, <2>1, <2>2
<1>20. Bytes(p6, 14 + c + k)
  <2>1. Bytes(p5 \o e6, (10 + c + k) + 4)
        BY <1>4, <1>5, <1>6, <1>19, Joined
  <2>2. (10 + c + k) + 4 = 14 + c + k
        BY <1>3
  <2> QED BY <1>13, <2>1, <2>2
<1>21. Bytes(p7, 16 + c + k)
  <2>1. Bytes(p6 \o e7, (14 + c + k) + 2)
        BY <1>4, <1>5, <1>6, <1>20, Joined
  <2>2. (14 + c + k) + 2 = 16 + c + k
        BY <1>3
  <2> QED BY <1>14, <2>1, <2>2
<1>22. Bytes(p8, 16 + c + k + g)
  <2>1. Bytes(p7 \o e8, (16 + c + k) + g)
        BY <1>4, <1>5, <1>6, <1>21, Joined
  <2>2. (16 + c + k) + g = 16 + c + k + g
        BY <1>3
  <2> QED BY <1>15, <2>1, <2>2
<1>23. Bytes(body, 17 + c + k + g)
  <2>1. Bytes(p8 \o e9, (16 + c + k + g) + 1)
        BY <1>4, <1>5, <1>6, <1>22, Joined
  <2>2. (16 + c + k + g) + 1 = 17 + c + k + g
        BY <1>3
  <2> QED BY <1>8, <2>1, <2>2
<1>24. Starts(body, body)
  <2>1. body \in Seq(Byte)
        BY <1>23 DEF Bytes
  <2> QED BY <2>1, LenProperties DEF Starts
<1>25. Starts(body, p8) /\ Slice(body, 16 + c + k + g, 1) = e9
  <2>1. Starts(body, p8 \o e9)
        BY <1>8, <1>24
  <2> QED BY <1>4, <1>5, <1>6, <1>23, <1>22, <2>1, PartAt
<1>26. Starts(body, p7) /\ Slice(body, 16 + c + k, g) = e8
  <2>1. Starts(body, p7 \o e8)
        BY <1>15, <1>25
  <2> QED BY <1>4, <1>5, <1>6, <1>23, <1>21, <2>1, PartAt
<1>27. Starts(body, p6) /\ Slice(body, 14 + c + k, 2) = e7
  <2>1. Starts(body, p6 \o e7)
        BY <1>14, <1>26
  <2> QED BY <1>4, <1>5, <1>6, <1>23, <1>20, <2>1, PartAt
<1>28. Starts(body, p5) /\ Slice(body, 10 + c + k, 4) = e6
  <2>1. Starts(body, p5 \o e6)
        BY <1>13, <1>27
  <2> QED BY <1>4, <1>5, <1>6, <1>23, <1>19, <2>1, PartAt
<1>29. Starts(body, p4) /\ Slice(body, 10 + c, k) = e5
  <2>1. Starts(body, p4 \o e5)
        BY <1>12, <1>28
  <2> QED BY <1>4, <1>5, <1>6, <1>23, <1>18, <2>1, PartAt
<1>30. Starts(body, p3) /\ Slice(body, 8 + c, 2) = e4
  <2>1. Starts(body, p3 \o e4)
        BY <1>11, <1>29
  <2> QED BY <1>4, <1>5, <1>6, <1>23, <1>17, <2>1, PartAt
<1>31. Starts(body, p2) /\ Slice(body, 4 + c, 4) = e3
  <2>1. Starts(body, p2 \o e3)
        BY <1>10, <1>30
  <2> QED BY <1>4, <1>5, <1>6, <1>23, <1>16, <2>1, PartAt
<1>32. Starts(body, e1) /\ Slice(body, 4, c) = e2
  <2>1. Starts(body, e1 \o e2)
        BY <1>9, <1>31
  <2> QED BY <1>4, <1>5, <1>6, <1>23, <2>1, PartAt
<1>33. Slice(body, 0, 4) = e1
  <2> DEFINE none == <<>>
  <2>1. e1 = none \o e1 /\ Bytes(none, 0)
        BY ConcatEmptySeq, EmptySeq DEF Bytes
  <2> HIDE DEF none
  <2>2. Starts(body, none \o e1)
        BY <1>32, <2>1
  <2> QED BY <1>4, <1>5, <1>6, <1>23, <2>1, <2>2, PartAt
<1> QED BY <1>3, <1>23, <1>25, <1>26, <1>27, <1>28, <1>29, <1>30, <1>31, <1>32, <1>33
        DEF c, k, g, e1, e2, e3, e4, e5, e6, e7, e8, e9, body, Bytes

\* A frame of a request: its kind, the length of its layout and that layout.
LEMMA EncodeParts ==
    ASSUME NEW r \in Requests, Len(r.cwd) <= MaxCwd
    PROVE  LET data == Encode(r)  body == Layout(r)
           IN  /\ Bytes(data, 5 + Len(body)) /\ data[1] = r.kind
               /\ Slice(data, 1, 4) = LE(Len(body), 4) /\ Slice(data, 5, Len(body)) = body
<1> DEFINE body == Layout(r)
           n == Len(body)
           kind == <<r.kind>>
           len == LE(n, 4)
           head == kind \o len
           data == Encode(r)
<1>1. body \in Seq(Byte) /\ n \in Nat
      BY LayoutParts, LenProperties
<1>2. Bytes(body, n)
      BY <1>1 DEF Bytes
<1> HIDE DEF body, n
<1>3. kind \in Seq(Byte) /\ Len(kind) = 1 /\ kind[1] = r.kind
      BY RequestAssumption, BaseFacts DEF Kinds, Byte
<1>4. Bytes(kind, 1)
      BY <1>3 DEF Bytes
<1>5. Bytes(len, 4)
      BY <1>1, LEDigits DEF Bytes
<1>6. data = head \o body
  <2>1. ~(Len(r.cwd) > MaxCwd)
        BY LayoutParts, WireAssumption
  <2> QED BY <2>1 DEF Encode, body, n
<1>7. head = kind \o len
      OBVIOUS
<1> HIDE DEF kind, len, head, data
<1>8. Bytes(head, 5)
  <2>1. Bytes(kind \o len, 1 + 4)
        BY <1>4, <1>5, Joined
  <2> QED BY <1>7, <2>1
<1>9. Bytes(data, 5 + n)
  <2>1. Bytes(head \o body, 5 + n)
        BY <1>2, <1>8, Joined
  <2> QED BY <1>6, <2>1
<1>10. Starts(data, data)
  <2>1. data \in Seq(Byte)
        BY <1>9 DEF Bytes
  <2> QED BY <2>1, LenProperties DEF Starts
<1>11. Starts(data, head) /\ Slice(data, 5, n) = body
  <2>1. Starts(data, head \o body)
        BY <1>6, <1>10
  <2> QED BY <1>2, <1>8, <1>9, <2>1, PartAt
<1>12. Starts(data, kind) /\ Slice(data, 1, 4) = len
  <2>1. Starts(data, kind \o len)
        BY <1>7, <1>11
  <2> QED BY <1>4, <1>5, <1>9, <2>1, PartAt
<1>13. data[1] = r.kind
       BY <1>3, <1>12 DEF Starts
<1> QED BY <1>9, <1>11, <1>12, <1>13 DEF data, body, n, len

\* The layout of a request whose lengths can be written down is taken for what
\* it means.
LEMMA ParseBodyOfLayout ==
    ASSUME NEW r \in Requests, Len(r.cwd) <= MaxCwd, Len(Layout(r)) <= MaxTotalLen
    PROVE  ParseBody(r.kind, Layout(r)) = IF Fits(r) THEN Meaning(r) ELSE Nothing
<1> DEFINE body == Layout(r)
           c == Len(r.cwd)
           k == Len(r.keymap)
           g == Len(r.config)
<1>1. /\ body \in Seq(Byte) /\ c \in Nat /\ k \in Nat /\ g \in Nat /\ Len(body) = 17 + c + k + g
      /\ Slice(body, 0, 4) = LE(c, 4) /\ Slice(body, 4, c) = r.cwd
      /\ Slice(body, 4 + c, 4) = LE(r.status, 4)
      /\ Slice(body, 8 + c, 2) = LE(k, 2) /\ Slice(body, 10 + c, k) = r.keymap
      /\ Slice(body, 10 + c + k, 4) = LE(r.width, 4)
      /\ Slice(body, 14 + c + k, 2) = LE(g, 2) /\ Slice(body, 16 + c + k, g) = r.config
      /\ Slice(body, 16 + c + k + g, 1) = LE(r.disable, 1)
      BY LayoutParts
<1>2. /\ r.status \in Numbers /\ r.width \in Numbers /\ Len(body) \in Numbers
      /\ r.disable \in Nat /\ r.disable < Base
      BY RequestAssumption, BaseFacts
<1>3. /\ Lossy(r.cwd) = r.cwd /\ Lossy(r.keymap) = r.keymap /\ Lossy(r.config) = r.config
      BY RequestAssumption, LossyOfText
<1>4. Fits(r) <=> k <= MaxKeymap /\ g <= MaxConfig
      BY DEF Fits
<1>5. c <= MaxCwd /\ Len(body) <= MaxTotalLen
      OBVIOUS
<1>a. k \in 0 .. MaxFrameLen - 1 /\ g \in 0 .. MaxFrameLen - 1
  <2> HIDE DEF body, c, k, g
  <2>1. c \in Nat /\ k \in Nat /\ g \in Nat /\ 17 + c + k + g <= MaxTotalLen
        BY <1>1, <1>5
  <2> QED BY <2>1, BaseFacts
<1> DEFINE cwd == r.cwd
           keymap == r.keymap
           config == r.config
           status == r.status
           width == r.width
           disable == r.disable
           kind == r.kind
<1>6. Meaning(r) = [kind |-> kind, cwd |-> cwd, status |-> status,
                    keymap |-> Optional(keymap), width |-> width,
                    config |-> Optional(config), disable_cache |-> disable # 0]
      BY DEF Meaning
<1> HIDE DEF body, c, k, g, cwd, keymap, config, status, width, disable, kind
<1>7. Number(body, 0, 4) = c
  <2>1. c \in Numbers
        BY <1>1, <1>2, BaseFacts DEF Numbers
  <2> QED BY <1>1, <2>1, ValueOf4 DEF Number
<1>8. Number(body, 4 + c, 4) = status
      BY <1>1, <1>2, ValueOf4 DEF Number, status
<1>9. Number(body, 8 + c, 2) = k
      BY <1>1, <1>a, ValueOf2 DEF Number
<1>10. Number(body, 10 + c + k, 4) = width
      BY <1>1, <1>2, ValueOf4 DEF Number, width
<1>11. Number(body, 14 + c + k, 2) = g
      BY <1>1, <1>a, ValueOf2 DEF Number
<1>12. body[(16 + c + k + g) + 1] = disable
  <2> DEFINE last == 16 + c + k + g
  <2>1. last \in Nat /\ last + 1 <= Len(body)
        BY <1>1
  <2>2. Slice(body, last, 1) = LE(disable, 1)
        BY <1>1 DEF disable
  <2> HIDE DEF last
  <2>3. Slice(body, last, 1)[1] = body[last + 1]
        BY <1>1, <2>1, SliceIs
  <2>4. LE(disable, 1)[1] = disable
        BY <1>2, LEDigits, Remainder DEF disable
  <2> QED BY <2>2, <2>3, <2>4 DEF last
<1>13. /\ (4 + c) + 4 = 8 + c /\ (4 + c) + 6 = 10 + c
       /\ (4 + c) + 6 + k = 10 + c + k /\ (10 + c + k) + 4 = 14 + c + k
       /\ (10 + c + k) + 6 = 16 + c + k /\ (10 + c + k) + 6 + g = 16 + c + k + g
       BY <1>1
<1>14. /\ Has(body, 0, 4) /\ Has(body, 4 + c, 6) /\ Has(body, 10 + c + k, 6)
       /\ Has(body, 16 + c + k + g, 1)
       BY <1>1 DEF Has
<1>15. Lossy(cwd) = cwd /\ Lossy(keymap) = keymap /\ Lossy(config) = config
       BY <1>3 DEF cwd, keymap, config
<1>16. Slice(body, 4, c) = cwd /\ Slice(body, 10 + c, k) = keymap
       /\ Slice(body, 16 + c + k, g) = config
       BY <1>1 DEF cwd, keymap, config
<1>17. ParseBody(kind, body) =
          IF k <= MaxKeymap /\ g <= MaxConfig
          THEN [kind |-> kind, cwd |-> cwd, status |-> status,
                keymap |-> Optional(keymap), width |-> width,
                config |-> Optional(config), disable_cache |-> disable # 0]
          ELSE Nothing
       BY <1>5, <1>7, <1>8, <1>9, <1>10, <1>11, <1>12, <1>13, <1>14, <1>15, <1>16 DEF ParseBody
<1> QED BY <1>4, <1>6, <1>17 DEF body, kind

\* What a shell sends is taken for what it means.
LEMMA ParseOfEncode ==
    ASSUME NEW r \in Requests, Len(r.cwd) <= MaxCwd
    PROVE  Parse(Encode(r)) = IF Fits(r) THEN Meaning(r) ELSE Nothing
<1> DEFINE data == Encode(r)
           body == Layout(r)
           n == Len(body)
<1>1. /\ data \in Seq(Byte) /\ Len(data) = 5 + n /\ data[1] = r.kind
      /\ Slice(data, 1, 4) = LE(n, 4) /\ Slice(data, 5, n) = body
      BY EncodeParts DEF Bytes
<1>2. n \in Numbers /\ r.kind \in Kinds
      BY RequestAssumption
<1>3. n \in Nat
      BY LayoutParts, LenProperties
<1> HIDE DEF data, n
<1>4. Number(data, 1, 4) = n
      BY <1>1, <1>2, ValueOf4 DEF Number
<1>5. Parse(data) = IF n <= MaxTotalLen THEN ParseBody(r.kind, body) ELSE Nothing
      BY <1>1, <1>2, <1>3, <1>4 DEF Parse, Has, HeaderLen
<1>6. CASE n <= MaxTotalLen
      BY <1>5, <1>6, ParseBodyOfLayout DEF data, n
<1>7. CASE n > MaxTotalLen
  <2>1. ~Fits(r)
    <3>1. n = 17 + Len(r.cwd) + Len(r.keymap) + Len(r.config)
          BY LayoutParts DEF n
    <3>2. Len(r.cwd) \in Nat /\ Len(r.keymap) \in Nat /\ Len(r.config) \in Nat
          BY LayoutParts
    <3>3. MaxCwd \in Nat /\ MaxKeymap \in Nat /\ MaxConfig \in Nat
          BY WireAssumption
    <3>4. MaxCwd + MaxKeymap + MaxConfig + 22 <= MaxFrameLen
          BY WireAssumption
    <3>5. SUFFICES ASSUME /\ Len(r.cwd) <= MaxCwd /\ Len(r.keymap) <= MaxKeymap
                          /\ Len(r.config) <= MaxConfig
                   PROVE  FALSE
          BY DEF Fits
    <3> DEFINE c == Len(r.cwd)
               k == Len(r.keymap)
               g == Len(r.config)
    <3>6. /\ n = 17 + c + k + g /\ c \in Nat /\ k \in Nat /\ g \in Nat
          /\ c <= MaxCwd /\ k <= MaxKeymap /\ g <= MaxConfig
          BY <3>1, <3>2, <3>5
    <3> HIDE DEF c, k, g
    <3>7. c + k + g <= MaxCwd + MaxKeymap + MaxConfig
          BY <3>3, <3>6
    <3> QED BY <1>7, <3>3, <3>4, <3>6, <3>7, BaseFacts
  <2> QED BY <1>3, <1>5, <1>7, <2>1, BaseFacts DEF data
<1> QED BY <1>3, <1>6, <1>7, BaseFacts

----------------------------------------------------------------------------
(* Replies.                                                                *)

LEMMA LeastNumber ==
    ASSUME NEW T, T \subseteq Nat, T # {}
    PROVE  \E n \in T : \A m \in T : n <= m
<1> DEFINE R == OpToRel(<, Nat)
<1>1. IsWellFoundedOn(R, Nat)
      BY NatLessThanWellFounded
<1>2. \A n, m \in Nat : n < m => <<n, m>> \in R
      BY DEF OpToRel
<1> HIDE DEF R
<1>3. PICK n \in T : \A m \in T : <<m, n>> \notin R
      BY <1>1, WFMin
<1>4. \A m \in T : ~(m < n)
      BY <1>2, <1>3
<1> QED BY <1>3, <1>4

LEMMA GreatestNumber ==
    ASSUME NEW n \in Nat, NEW T, T \subseteq 0 .. n, T # {}
    PROVE  Max(T) \in T /\ \A m \in T : m <= Max(T)
<1> DEFINE D == {n - m : m \in T}
<1>1. D \subseteq Nat /\ D # {}
  <2>1. PICK t \in T : TRUE
        OBVIOUS
  <2>2. n - t \in D
        OBVIOUS
  <2>3. \A m \in T : n - m \in Nat
        OBVIOUS
  <2> QED BY <2>2, <2>3
<1>2. PICK d \in D : \A e \in D : d <= e
  <2> HIDE DEF D
  <2> QED BY <1>1, LeastNumber
<1>3. PICK x \in T : d = n - x
      BY <1>2
<1>4. \A m \in T : x >= m
  <2> TAKE m \in T
  <2>1. n - m \in D /\ m \in Nat /\ x \in Nat
        BY <1>3
  <2>2. n - x <= n - m
        BY <1>2, <1>3, <2>1
  <2> QED BY <2>1, <2>2
<1>5. \E y \in T : \A m \in T : y >= m
      BY <1>3, <1>4
<1>6. Max(T) \in T /\ \A m \in T : Max(T) >= m
      BY <1>5 DEF Max
<1> QED BY <1>6

LEMMA Smaller ==
    ASSUME NEW a \in Nat, NEW b \in Nat
    PROVE  Min({a, b}) = IF a <= b THEN a ELSE b
<1> DEFINE least == IF a <= b THEN a ELSE b
<1>1. least \in {a, b} /\ \A y \in {a, b} : least <= y
      OBVIOUS
<1>2. \A x \in {a, b} : (\A y \in {a, b} : x <= y) => x = least
      OBVIOUS
<1> HIDE DEF least
<1>3. Min({a, b}) = least
      BY <1>1, <1>2 DEF Min
<1> QED BY <1>3 DEF least

\* What a reply of n bytes is read as, and what reading leaves of it.
LEMMA ReadOfStaged ==
    ASSUME NEW n \in Numbers
    PROVE  LET m == StageResponse(n)
           IN  /\ m # Nothing /\ m.length = 4 + n /\ n \in Nat
               /\ ReadReply(m) = IF n \in 1 .. MaxTotalLen THEN n ELSE Nothing
               /\ ReadReply(m) # Nothing => m.length <= MaxFrameLen
               /\ m.length <= MaxFrameLen => m.length - Min({m.length, MaxFrameLen}) = 0
<1> DEFINE m == StageResponse(n)
<1>1. n \in Nat
      BY BaseFacts DEF Numbers
<1>2. LE(n, 4) \in Seq(Nat)
  <2>1. LE(n, 4) \in Seq(Byte)
        BY <1>1, LEDigits
  <2>2. Byte \subseteq Nat
        BY BaseFacts DEF Byte
  <2> HIDE DEF Byte
  <2> QED BY <2>1, <2>2, SeqMonotonic
<1>3. m = [states |-> LE(n, 4), length |-> 4 + n]
      BY DEF StageResponse
<1>4. m # Nothing
  <2>1. m \in [states : Seq(Nat), length : Nat]
        BY <1>1, <1>2, <1>3
  <2> HIDE DEF m
  <2> QED BY <2>1, TextAssumption
<1>5. Value(m.states) = n /\ m.length = 4 + n
      BY <1>3, ValueOf4
<1> HIDE DEF m
<1>6. Min({m.length, MaxFrameLen}) = IF 4 + n <= MaxFrameLen THEN 4 + n ELSE MaxFrameLen
      BY <1>1, <1>5, BaseFacts, Smaller
<1>7. ReadReply(m) = IF n \in 1 .. MaxTotalLen THEN n ELSE Nothing
      BY <1>1, <1>5, <1>6, BaseFacts DEF ReadReply
<1>8. ReadReply(m) # Nothing => m.length <= MaxFrameLen
      BY <1>1, <1>5, <1>7, BaseFacts
<1>9. m.length <= MaxFrameLen => m.length - Min({m.length, MaxFrameLen}) = 0
      BY <1>1, <1>5, <1>6
<1> QED BY <1>1, <1>4, <1>5, <1>7, <1>8, <1>9 DEF m

LEMMA SizeOfText ==
    ASSUME NEW text \in Texts
    PROVE  /\ text \subseteq Numbers /\ Size(text) \in text
           /\ \A end \in text : end <= Size(text)
<1> DEFINE top == Base * (Base * (Base * Base)) - 1
<1>1. 0 \in text /\ text \subseteq Numbers
      BY TextAssumption
<1>2. top \in Nat
  <2>1. Base * Base \in Nat /\ Base * Base >= 1
        BY BaseFacts
  <2>2. Base * (Base * Base) \in Nat /\ Base * (Base * Base) >= 1
        BY <2>1, BaseFacts
  <2>3. Base * (Base * (Base * Base)) \in Nat /\ Base * (Base * (Base * Base)) >= 1
        BY <2>2, BaseFacts
  <2> QED BY <2>3
<1>3. text \subseteq 0 .. top
      BY <1>1 DEF Numbers
<1> HIDE DEF top
<1>4. Max(text) \in text /\ \A end \in text : end <= Max(text)
      BY <1>1, <1>2, <1>3, GreatestNumber
<1> QED BY <1>1, <1>4 DEF Size

\* A text that is not empty is never cut to nothing.
LEMMA TruncateOfText ==
    ASSUME NEW text \in Texts
    PROVE  /\ Truncate(text) \in text /\ Truncate(text) <= MaxTotalLen
           /\ \A end \in text : end > Truncate(text) => end > MaxTotalLen
           /\ Size(text) > 0 => Truncate(text) >= 1
<1> DEFINE T == {end \in text : end <= MaxTotalLen}
<1>1. 0 \in text /\ text \subseteq Nat
      BY TextAssumption, BaseFacts DEF Numbers
<1>2. T \subseteq 0 .. MaxTotalLen /\ 0 \in T
  <2>1. MaxTotalLen \in Nat
        BY BaseFacts
  <2>2. \A end \in T : end \in 0 .. MaxTotalLen
        BY <1>1, <2>1
  <2>3. 0 \in T
        BY <1>1, <2>1
  <2> QED BY <2>2, <2>3
<1>3. Max(T) \in T /\ \A end \in T : end <= Max(T)
  <2> HIDE DEF T
  <2> QED BY <1>2, BaseFacts, GreatestNumber
<1>4. Truncate(text) = Max(T)
      BY DEF Truncate
<1> DEFINE t == Truncate(text)
<1>5. t \in text /\ t \in Nat /\ t <= MaxTotalLen
      BY <1>1, <1>3, <1>4
<1>6. ASSUME NEW end \in text, end > t PROVE end > MaxTotalLen
  <2>1. end \notin T
        BY <1>1, <1>3, <1>4, <1>5, <1>6
  <2> QED BY <1>1, <2>1, BaseFacts
<1>7. ASSUME Size(text) > 0 PROVE t >= 1
  <2> DEFINE P == text \ {0}
  <2>1. P \subseteq Nat /\ P # {}
        BY <1>1, <1>7, SizeOfText
  <2>2. PICK least \in P : \A m \in P : least <= m
    <3> HIDE DEF P
    <3> QED BY <2>1, LeastNumber
  <2>3. PICK start \in text : start < least /\ least <= start + 4
        BY <2>2, TextAssumption
  <2>4. start = 0
        BY <1>1, <2>2, <2>3
  <2>5. least \in T /\ least >= 1
        BY <1>1, <2>2, <2>3, <2>4, BaseFacts
  <2>6. least <= t
        BY <1>3, <1>4, <2>5
  <2> QED BY <1>1, <1>5, <2>5, <2>6
<1> QED BY <1>5, <1>6, <1>7

----------------------------------------------------------------------------
(* One exchange.                                                           *)

\* What is sent of a text.
Sent == IF request.kind = 2 THEN Truncate(rendered) ELSE Size(rendered)

RequestInv ==
    /\ altered \in Nat
    /\ frame # Nothing => frame \in Seq(Byte) /\ request \in Requests
    /\ altered = 0 /\ frame # Nothing => Len(request.cwd) <= MaxCwd /\ frame = Encode(request)

ReplyInv ==
    /\ rendered # Nothing => rendered \in Texts /\ request \in Requests
    /\ message # Nothing => rendered # Nothing /\ message = StageResponse(Sent)
    /\ Received => shown = ReadReply(StageResponse(Sent))

WireInv == RequestInv /\ ReplyInv /\ NothingLeft

LEMMA SentIsNumber ==
    ASSUME rendered \in Texts
    PROVE  Sent \in Numbers
<1>1. Size(rendered) \in Numbers
      BY SizeOfText
<1>2. Truncate(rendered) \in Numbers
      BY SizeOfText, TruncateOfText
<1> QED BY <1>1, <1>2 DEF Sent

LEMMA EncodedLength ==
    ASSUME NEW r \in Requests, Encode(r) # Nothing
    PROVE  Len(r.cwd) <= MaxCwd /\ Encode(r) \in Seq(Byte)
<1>1. Len(r.cwd) \in Nat /\ MaxCwd \in Nat
      BY LayoutParts, WireAssumption
<1>2. ~(Len(r.cwd) > MaxCwd)
      BY DEF Encode
<1>3. Len(r.cwd) <= MaxCwd
      BY <1>1, <1>2
<1> QED BY <1>3, EncodeParts DEF Bytes

LEMMA WireInitInv == WireInit => WireInv
BY DEF WireInit, WireInv, RequestInv, ReplyInv, NothingLeft, Received

LEMMA SendInv == WireInv /\ Send => WireInv'
<1> SUFFICES ASSUME WireInv, Send PROVE WireInv'
    OBVIOUS
<1>1. /\ request = Nothing /\ request' \in Requests /\ frame' = Encode(request')
      /\ altered' = altered /\ message' = message /\ rendered' = rendered /\ shown' = shown
      /\ left' = left /\ pipe' = pipe
      BY DEF Send
<1>2. frame' # Nothing => Len(request'.cwd) <= MaxCwd /\ frame' \in Seq(Byte)
      BY <1>1, EncodedLength
<1>3. RequestInv'
      BY <1>1, <1>2 DEF WireInv, RequestInv
<1>4. rendered = Nothing /\ message = Nothing
      BY <1>1, RequestAssumption DEF WireInv, ReplyInv
<1>5. ReplyInv' /\ NothingLeft'
      BY <1>1, <1>4 DEF WireInv, ReplyInv, Received, NothingLeft
<1> QED BY <1>3, <1>5 DEF WireInv

LEMMA AlterInv == WireInv /\ Alter => WireInv'
<1> SUFFICES ASSUME WireInv, Alter PROVE WireInv'
    OBVIOUS
<1>1. /\ frame # Nothing /\ rendered = Nothing /\ altered' = altered + 1
      /\ request' = request /\ message' = message /\ rendered' = rendered /\ shown' = shown
      /\ left' = left /\ pipe' = pipe
      BY DEF Alter
<1>2. PICK i \in DOMAIN frame, b \in 0 .. Base - 1 : frame' = [frame EXCEPT ![i] = b]
      BY DEF Alter
<1>3. frame \in Seq(Byte) /\ altered \in Nat /\ request \in Requests
      BY <1>1 DEF WireInv, RequestInv
<1>4. frame' \in Seq(Byte)
  <2>1. b \in Byte
        BY DEF Byte
  <2> HIDE DEF Byte
  <2> QED BY <1>2, <1>3, <2>1, ExceptSeq
<1>5. RequestInv'
      BY <1>1, <1>3, <1>4 DEF RequestInv
<1>6. message = Nothing
      BY <1>1 DEF WireInv, ReplyInv
<1>7. ReplyInv' /\ NothingLeft'
      BY <1>1, <1>6 DEF WireInv, ReplyInv, Received, NothingLeft
<1> QED BY <1>5, <1>7 DEF WireInv

LEMMA RefuseInv == WireInv /\ Refuse => WireInv'
BY DEF WireInv, RequestInv, ReplyInv, NothingLeft, Received, Sent, Refuse

LEMMA AnswerInv == WireInv /\ Answer => WireInv'
<1> SUFFICES ASSUME WireInv, Answer PROVE WireInv'
    OBVIOUS
<1>1. /\ frame # Nothing /\ altered = 0 /\ rendered = Nothing /\ Parse(frame) # Nothing
      /\ rendered' \in Texts
      /\ message' = StageResponse(IF Parse(frame).kind = 2 THEN Truncate(rendered')
                                                           ELSE Size(rendered'))
      /\ request' = request /\ frame' = frame /\ altered' = altered /\ shown' = shown
      /\ left' = left /\ pipe' = pipe
      BY DEF Answer
<1>2. request \in Requests /\ Len(request.cwd) <= MaxCwd /\ frame = Encode(request)
      BY <1>1 DEF WireInv, RequestInv
<1>3. Parse(frame).kind = request.kind
  <2>1. Parse(frame) = Meaning(request)
        BY <1>1, <1>2, ParseOfEncode
  <2> QED BY <2>1 DEF Meaning
<1>4. message' = StageResponse(Sent')
      BY <1>1, <1>3 DEF Sent
<1>5. message' # Nothing
      BY <1>1, <1>4, SentIsNumber, ReadOfStaged, SizeOfText, TruncateOfText DEF Sent
<1>6. rendered' # Nothing
      BY <1>1, TextAssumption
<1>7. RequestInv'
      BY <1>1 DEF WireInv, RequestInv
<1>8. ReplyInv' /\ NothingLeft'
      BY <1>1, <1>2, <1>4, <1>5, <1>6 DEF WireInv, ReplyInv, Received, NothingLeft
<1> QED BY <1>7, <1>8 DEF WireInv

LEMMA ReceiveInv == WireInv /\ Receive => WireInv'
<1> SUFFICES ASSUME WireInv, Receive PROVE WireInv'
    OBVIOUS
<1>1. /\ message # Nothing /\ message' = Nothing /\ shown' = ReadReply(message)
      /\ left' = message.length - Min({message.length, MaxFrameLen})
      /\ pipe' = IF KeepsPipe(message) THEN pipe ELSE "closed"
      /\ request' = request /\ frame' = frame /\ altered' = altered /\ rendered' = rendered
      BY DEF Receive
<1>2. rendered # Nothing /\ rendered \in Texts /\ message = StageResponse(Sent)
      BY <1>1 DEF WireInv, ReplyInv
<1>3. Sent \in Numbers
      BY <1>2, SentIsNumber
<1>4. /\ ReadReply(message) # Nothing => message.length <= MaxFrameLen
      /\ message.length <= MaxFrameLen => message.length - Min({message.length, MaxFrameLen}) = 0
      BY <1>2, <1>3, ReadOfStaged
<1>5. NothingLeft'
  <2>1. pipe' = "open" => KeepsPipe(message)
        BY <1>1
  <2>2. KeepsPipe(message) => message.length <= MaxFrameLen
        BY <1>4 DEF KeepsPipe, IsMessageComplete
  <2> QED BY <1>1, <1>4, <2>1, <2>2 DEF NothingLeft
<1>6. Sent' = Sent
      BY <1>1 DEF Sent
<1>7. ReplyInv'
      BY <1>1, <1>2, <1>6 DEF WireInv, ReplyInv, Received
<1>8. RequestInv'
      BY <1>1 DEF WireInv, RequestInv
<1> QED BY <1>5, <1>7, <1>8 DEF WireInv

\* What was sent is what the shell meant, as bytes, until somebody else writes
\* to the pipe; and a reply, in the pipe or read from it, is of the text that
\* was rendered, cut only if it is a report.
THEOREM WireInvariant == WireSpec => []WireInv
<1>1. WireInv /\ UNCHANGED wireVars => WireInv'
      BY DEF WireInv, RequestInv, ReplyInv, NothingLeft, Received, Sent, wireVars
<1>2. WireInv /\ [WireNext]_wireVars => WireInv'
      BY <1>1, SendInv, AlterInv, RefuseInv, AnswerInv, ReceiveInv DEF WireNext
<1> QED BY <1>2, WireInitInv, PTL DEF WireSpec

\* encode_request and Build against parse_request: a request of any length of
\* its parts is taken for what it means, or refused if a part is too long.
THEOREM TakenAsMeantAlways == WireSpec => []TakenAsMeant
<1>1. WireInv => TakenAsMeant
      BY ParseOfEncode DEF WireInv, RequestInv, TakenAsMeant
<1> QED BY <1>1, WireInvariant, PTL

\* parse_request: of any bytes, a request is those that its header counts, all
\* of them and no more.
THEOREM StandsAloneAlways == WireSpec => []StandsAlone
<1>1. WireInv => StandsAlone
  <2> SUFFICES ASSUME WireInv PROVE StandsAlone
      OBVIOUS
  <2>1. CASE frame = Nothing
        BY <2>1 DEF StandsAlone
  <2>2. CASE frame # Nothing
        BY <2>2, FrameStandsAlone DEF WireInv, RequestInv
  <2> QED BY <2>1, <2>2
<1> QED BY <1>1, WireInvariant, PTL

\* stage_response and truncate_utf8 against the Parse of the shell module: a
\* prompt is shown whole or not at all, a report as far as it fits.
THEOREM ShownWholeAlways == WireSpec => []ShownWhole
<1>1. WireInv => ShownWhole
  <2> SUFFICES ASSUME WireInv, Received
               PROVE  IF request.kind = 1
                      THEN shown = IF Size(rendered) \in 1 .. MaxTotalLen
                                   THEN Size(rendered) ELSE Nothing
                      ELSE Size(rendered) > 0 =>
                              /\ shown \in rendered
                              /\ \A end \in rendered : end > shown => end > MaxTotalLen
      BY DEF ShownWhole
  <2>1. rendered \in Texts /\ request \in Requests /\ shown = ReadReply(StageResponse(Sent))
        BY DEF WireInv, ReplyInv, Received
  <2>2. shown = IF Sent \in 1 .. MaxTotalLen THEN Sent ELSE Nothing
        BY <2>1, SentIsNumber, ReadOfStaged
  <2>3. CASE request.kind = 1
        BY <2>2, <2>3 DEF Sent
  <2>4. CASE request.kind # 1
    <3>1. request.kind = 2
          BY <2>1, <2>4, RequestAssumption DEF Kinds
    <3>2. Sent = Truncate(rendered)
          BY <3>1 DEF Sent
    <3>3. SUFFICES ASSUME Size(rendered) > 0
                   PROVE  /\ shown \in rendered
                          /\ \A end \in rendered : end > shown => end > MaxTotalLen
          BY <2>4
    <3>4. /\ Sent \in rendered /\ Sent <= MaxTotalLen /\ Sent >= 1
          /\ \A end \in rendered : end > Sent => end > MaxTotalLen
          BY <2>1, <3>2, <3>3, TruncateOfText
    <3>5. Sent \in Nat /\ MaxTotalLen \in Nat
          BY <2>1, SentIsNumber, BaseFacts DEF Numbers
    <3>6. shown = Sent
          BY <2>2, <3>4, <3>5
    <3> QED BY <3>4, <3>6
  <2> QED BY <2>3, <2>4
<1> QED BY <1>1, WireInvariant, PTL

\* KeepsPipe: a shell goes on with no pipe in which some of a reply is left.
THEOREM NothingLeftAlways == WireSpec => []NothingLeft
<1>1. WireInv => NothingLeft
      BY DEF WireInv
<1> QED BY <1>1, WireInvariant, PTL
=============================================================================
