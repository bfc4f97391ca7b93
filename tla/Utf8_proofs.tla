------------------------------ MODULE Utf8_proofs ------------------------------
(***************************************************************************)
(* The sanitizer for every stream of bytes and every place a read may cut  *)
(* it: what goes out, in all, is what one read of everything would send    *)
(* out, it is well-formed, and no more than three bytes are held back.     *)
(*                                                                         *)
(* Inductions over a stream are inductions over its length, by UpTo.       *)
(***************************************************************************)
EXTENDS Utf8, Sums_proofs

-----------------------------------------------------------------------------
(***************************************************************************)
(* What begins at a place.                                                 *)
(***************************************************************************)

Needs(lead) == IF lead \in DOMAIN Leads THEN Leads[lead] ELSE 0

Fitting(rest, n) ==
    /\ n < Len(rest)
    /\ rest[n + 1] \in IF n = 1 THEN SecondBytes[rest[1]] ELSE Continuations

(* g continuation bytes fit, and no more. *)
Got(rest, g) ==
    /\ g \in 0 .. Needs(rest[1])
    /\ \A n \in 1 .. g : Fitting(rest, n)
    /\ g < Needs(rest[1]) => ~Fitting(rest, g + 1)

Stray(lead) == lead \in Continuations \union NeverBytes

(* Decoded, by what it got. *)
JudgedBy(rest, g) ==
    IF Stray(rest[1]) THEN [kind |-> "invalid", length |-> 1]
    ELSE IF g = Needs(rest[1]) THEN [kind |-> "character", length |-> g + 1]
    ELSE IF g + 1 = Len(rest) THEN [kind |-> "partial", length |-> g + 1]
    ELSE [kind |-> "invalid", length |-> g + 1]

(* A byte needs three more at the most, and one that is stray needs none. *)
LEMMA NeedsType ==
    ASSUME NEW lead
    PROVE  Needs(lead) \in 0 .. 3 /\ (Stray(lead) => Needs(lead) = 0)
BY Utf8Assumption DEF Needs, Stray

(* There is one number of continuation bytes that fit, and they are there. *)
LEMMA GotExists ==
    ASSUME NEW Byte, NEW rest \in Seq(Byte), rest # <<>>
    PROVE  \E g : Got(rest, g)
<1> DEFINE needs == Needs(rest[1])
           Not == {n \in 1 .. needs : ~Fitting(rest, n)}
<1>1. needs \in Nat
    BY NeedsType
<1>2. CASE Not = {}
    <2>1. Got(rest, needs)
        BY <1>1, <1>2 DEF Got
    <2> QED
        BY <2>1
<1>3. CASE Not # {}
    <2>1. Not \in SUBSET Nat
        BY <1>1
    <2>2. Min(Not) \in Not /\ \A n \in Not : Min(Not) =< n
        BY <1>3, <2>1, NatMin
    <2> DEFINE m == Min(Not)
    <2>3. m \in 1 .. needs /\ ~Fitting(rest, m) /\ \A n \in 1 .. needs : n < m => Fitting(rest, n)
        <3>1. m \in Not /\ \A n \in Not : m =< n
            BY <2>2
        <3> HIDE DEF m
        <3>2. m \in 1 .. needs /\ ~Fitting(rest, m)
            BY <3>1
        <3>3. ASSUME NEW n \in 1 .. needs, n < m PROVE Fitting(rest, n)
            <4>1. ~ (m =< n)
                BY <1>1, <3>2, <3>3
            <4> QED
                BY <3>1, <4>1
        <3> QED
            BY <3>2, <3>3
    <2> HIDE DEF m, Not
    <2>4. m - 1 \in 0 .. needs /\ (m - 1) + 1 = m /\ \A n \in 1 .. (m - 1) : n \in 1 .. needs /\ n < m
        BY <1>1, <2>3
    <2>5. Got(rest, m - 1)
        BY <2>3, <2>4 DEF Got
    <2> QED
        BY <2>5
<1> QED
    BY <1>2, <1>3

(* They are in the stream, behind the first byte. *)
LEMMA GotIsThere ==
    ASSUME NEW Byte, NEW rest \in Seq(Byte), rest # <<>>, NEW g, Got(rest, g)
    PROVE  g \in 0 .. 3 /\ g < Len(rest)
<1>1. g \in 0 .. 3
    BY NeedsType DEF Got
<1>2. Len(rest) \in Nat \ {0}
    OBVIOUS
<1>3. g # 0 => Fitting(rest, g)
    BY <1>1 DEF Got
<1> QED
    BY <1>1, <1>2, <1>3 DEF Fitting

(* No other number of them fits, and no more. *)
LEMMA GotOnce ==
    ASSUME NEW rest, NEW g, NEW h, Got(rest, g), Got(rest, h)
    PROVE  g = h
<1>1. g \in 0 .. 3 /\ h \in 0 .. 3 /\ Needs(rest[1]) \in 0 .. 3
    BY NeedsType DEF Got
<1>2. ~ g < h
    BY <1>1 DEF Got
<1>3. ~ h < g
    BY <1>1 DEF Got
<1> QED
    BY <1>1, <1>2, <1>3

(* The verdict is that of what it got. *)
LEMMA DecodedIs ==
    ASSUME NEW Byte, NEW rest \in Seq(Byte), rest # <<>>, NEW g, Got(rest, g)
    PROVE  Decoded(rest) = JudgedBy(rest, g)
<1> DEFINE lead == Head(rest)
           needs == IF lead \in DOMAIN Leads THEN Leads[lead] ELSE 0
           Fits(n) == /\ n < Len(rest)
                      /\ rest[n + 1] \in IF n = 1 THEN SecondBytes[lead] ELSE Continuations
           Least(n) == ~Fits(n + 1) /\ \A m \in 1 .. n : Fits(m)
           got == IF \A n \in 1 .. needs : Fits(n) THEN needs
                  ELSE CHOOSE n \in 0 .. needs - 1 : Least(n)
<1>1. Decoded(rest) =
        CASE lead \in Continuations \union NeverBytes -> [kind |-> "invalid", length |-> 1]
          [] got = needs /\ lead \notin Continuations \union NeverBytes ->
                [kind |-> "character", length |-> needs + 1]
          [] got < needs /\ got + 1 = Len(rest) -> [kind |-> "partial", length |-> got + 1]
          [] OTHER -> [kind |-> "invalid", length |-> got + 1]
    BY Zenon DEF Decoded
<1>2. lead = rest[1] /\ needs = Needs(rest[1])
    BY DEF Needs
<1>3. \A n : Fits(n) <=> Fitting(rest, n)
    BY <1>2 DEF Fitting
<1>4. needs \in 0 .. 3 /\ g \in 0 .. needs /\ (Stray(lead) => needs = 0)
    BY <1>2, NeedsType DEF Got
<1> HIDE DEF Fits, needs, lead
<1>5. got = g
    <2>1. CASE g = needs
        <3>1. \A n \in 1 .. needs : Fits(n)
            BY <1>2, <1>3, <2>1 DEF Got
        <3> QED
            BY <2>1, <3>1
    <2>2. CASE g # needs
        <3>1. g \in 0 .. needs - 1 /\ Least(g)
            BY <1>2, <1>3, <1>4, <2>2 DEF Got
        <3>2. g + 1 \in 1 .. needs /\ ~Fits(g + 1)
            BY <1>4, <3>1
        <3>3. got = CHOOSE n \in 0 .. needs - 1 : Least(n)
            BY <3>2
        <3>4. got \in 0 .. needs - 1 /\ Least(got)
            BY <3>1, <3>3, Zenon
        <3> HIDE DEF got
        <3>5. Got(rest, got)
            BY <1>2, <1>3, <1>4, <3>4 DEF Got
        <3> QED
            BY <3>5, GotOnce
    <2> QED
        BY <2>1, <2>2
<1> HIDE DEF got
<1>6. g < needs <=> g # needs
    BY <1>4
<1> QED
    BY <1>1, <1>2, <1>4, <1>5, <1>6 DEF JudgedBy, Stray

(* A verdict takes at least one byte; one that waits for more takes what is
   left, which is three bytes at the most. *)
LEMMA DecodedProperties ==
    ASSUME NEW Byte, NEW rest \in Seq(Byte), rest # <<>>
    PROVE  /\ Decoded(rest).kind \in {"invalid", "character", "partial"}
           /\ Decoded(rest).length \in 1 .. Len(rest)
           /\ Decoded(rest).kind = "partial" =>
                 Decoded(rest).length = Len(rest) /\ Len(rest) =< 3
<1>1. PICK g : Got(rest, g)
    BY GotExists
<1>2. Decoded(rest) = JudgedBy(rest, g)
    BY <1>1, DecodedIs
<1>3. g \in 0 .. 3 /\ g < Len(rest) /\ Len(rest) \in Nat
    BY <1>1, GotIsThere
<1>4. g \in 0 .. Needs(rest[1]) /\ Needs(rest[1]) \in 0 .. 3
    BY <1>1, NeedsType DEF Got
<1> QED
    BY <1>2, <1>3, <1>4 DEF JudgedBy

(* More bytes change no verdict but one that waits for them. *)
LEMMA DecodedOfMore ==
    ASSUME NEW Byte, NEW x \in Seq(Byte), x # <<>>, NEW b \in Seq(Byte),
           Decoded(x).kind # "partial"
    PROVE  Decoded(x \o b) = Decoded(x)
<1> DEFINE y == x \o b
<1>1. PICK g : Got(x, g)
    BY GotExists
<1>2. Decoded(x) = JudgedBy(x, g)
    BY <1>1, DecodedIs
<1>3. g \in 0 .. 3 /\ g < Len(x) /\ Len(x) \in Nat \ {0}
    BY <1>1, GotIsThere
<1>4. /\ y \in Seq(Byte) /\ y # <<>> /\ Len(y) \in Nat /\ Len(y) >= Len(x)
      /\ \A n \in 1 .. Len(x) : y[n] = x[n]
    BY <1>3
<1> HIDE DEF y
<1>5. y[1] = x[1] /\ Needs(y[1]) \in 0 .. 3 /\ g \in 0 .. Needs(y[1])
    BY <1>1, <1>3, <1>4, NeedsType DEF Got
<1>6. \A n \in 0 .. 4 : n < Len(x) => (Fitting(y, n) <=> Fitting(x, n))
    <2> SUFFICES ASSUME NEW n \in 0 .. 4, n < Len(x) PROVE Fitting(y, n) <=> Fitting(x, n)
        OBVIOUS
    <2>1. n + 1 \in 1 .. Len(x) /\ n < Len(y)
        BY <1>3, <1>4
    <2> QED
        BY <1>4, <1>5, <2>1 DEF Fitting
<1>7. \A n \in 1 .. g : Fitting(y, n)
    <2> TAKE n \in 1 .. g
    <2>1. Fitting(x, n) /\ n < Len(x) /\ n \in 0 .. 4
        BY <1>1, <1>3 DEF Got
    <2> QED
        BY <1>6, <2>1
<1>8. CASE Stray(x[1])
    <2>1. Needs(y[1]) = 0
        BY <1>5, <1>8, NeedsType
    <2>2. Got(y, g)
        BY <1>5, <1>7, <2>1 DEF Got
    <2>3. Decoded(y) = JudgedBy(y, g)
        BY <1>4, <2>2, DecodedIs
    <2> QED
        BY <1>2, <1>5, <1>8, <2>3 DEF JudgedBy, y
<1>9. CASE ~Stray(x[1]) /\ g = Needs(x[1])
    <2>2. Got(y, g)
        BY <1>5, <1>7, <1>9 DEF Got
    <2>3. Decoded(y) = JudgedBy(y, g)
        BY <1>4, <2>2, DecodedIs
    <2> QED
        BY <1>2, <1>5, <1>9, <2>3 DEF JudgedBy, y
<1>10. CASE ~Stray(x[1]) /\ g # Needs(x[1])
    <2>1. g + 1 # Len(x)
        BY <1>2, <1>10 DEF JudgedBy
    <2>2. g + 1 < Len(x) /\ g + 1 \in 0 .. 4
        BY <1>3, <2>1
    <2>3. ~Fitting(x, g + 1)
        BY <1>1, <1>5, <1>10 DEF Got
    <2>4. ~Fitting(y, g + 1)
        BY <1>6, <2>2, <2>3
    <2>5. Got(y, g)
        BY <1>5, <1>7, <2>4 DEF Got
    <2>6. Decoded(y) = JudgedBy(y, g)
        BY <1>4, <2>5, DecodedIs
    <2>7. g + 1 # Len(y)
        BY <1>3, <1>4, <2>2
    <2> QED
        BY <1>2, <1>5, <1>10, <2>1, <2>6, <2>7 DEF JudgedBy, y
<1> QED
    BY <1>8, <1>9, <1>10

-----------------------------------------------------------------------------
(***************************************************************************)
(* The function Sanitize goes through a stream with.                       *)
(***************************************************************************)

(* What it gives from the i-th byte on. *)
Body(rest, f, i) ==
    IF i > Len(rest) THEN [out |-> <<>>, carry |-> <<>>]
    ELSE LET d == Decoded(SubSeq(rest, i, Len(rest))) IN
         IF d.kind = "partial"
         THEN [out |-> <<>>, carry |-> SubSeq(rest, i, Len(rest))]
         ELSE [f[i + d.length] EXCEPT !.out =
                  (IF d.kind = "character" THEN SubSeq(rest, i, i + d.length - 1)
                   ELSE Replacement) \o @]

Through(rest, f, lo) == f = [i \in lo .. Len(rest) + 1 |-> Body(rest, f, i)]

From(rest) == CHOOSE f : Through(rest, f, 1)

(* A whole stream, sanitized. *)
Sanitized(rest) == From(rest)[1]

Sane(Byte) == [out : Seq(Byte), carry : Seq(Byte)]

(* Sanitize goes through the carry and the read. *)
LEMMA SanitizeIs ==
    ASSUME NEW carry, NEW bytes
    PROVE  Sanitize(carry, bytes) = Sanitized(carry \o bytes)
BY Zenon DEF Sanitize, Sanitized, From, Through, Body

(* What is left of a stream, and what begins there. *)
LEMMA SuffixProperties ==
    ASSUME NEW Byte, NEW rest \in Seq(Byte), NEW i \in 1 .. Len(rest)
    PROVE  /\ SubSeq(rest, i, Len(rest)) \in Seq(Byte) /\ SubSeq(rest, i, Len(rest)) # <<>>
           /\ Len(SubSeq(rest, i, Len(rest))) = Len(rest) + 1 - i
           /\ i + Decoded(SubSeq(rest, i, Len(rest))).length \in i + 1 .. Len(rest) + 1
<1> DEFINE q == SubSeq(rest, i, Len(rest))
<1>1. q \in Seq(Byte) /\ Len(q) = Len(rest) + 1 - i /\ Len(rest) \in Nat
    OBVIOUS
<1> HIDE DEF q
<1>2. q # <<>>
    BY <1>1
<1>3. Decoded(q).length \in 1 .. Len(q)
    BY <1>1, <1>2, DecodedProperties
<1>4. i + Decoded(q).length \in i + 1 .. Len(rest) + 1
    BY <1>1, <1>3
<1> QED
    BY <1>1, <1>2, <1>4 DEF q

(* What it gives at a place depends on what it gives at later ones. *)
LEMMA BodyLater ==
    ASSUME NEW Byte, NEW rest \in Seq(Byte), NEW i \in 1 .. Len(rest) + 1, NEW f, NEW g,
           \A k \in i + 1 .. Len(rest) + 1 : f[k] = g[k]
    PROVE  Body(rest, f, i) = Body(rest, g, i)
<1>1. CASE i > Len(rest)
    BY <1>1, Zenon DEF Body
<1>2. CASE ~ i > Len(rest)
    <2>1. i \in 1 .. Len(rest)
        BY <1>2
    <2>2. f[i + Decoded(SubSeq(rest, i, Len(rest))).length]
            = g[i + Decoded(SubSeq(rest, i, Len(rest))).length]
        BY <2>1, SuffixProperties
    <2> QED
        BY <1>2, <2>2, Zenon DEF Body
<1> QED
    BY <1>1, <1>2

(* One place more, from the later ones. *)
LEMMA ThroughNext ==
    ASSUME NEW Byte, NEW rest \in Seq(Byte), NEW lo \in 1 .. Len(rest), NEW g, Through(rest, g, lo + 1)
    PROVE  \E f : Through(rest, f, lo)
<1> DEFINE n == Len(rest) + 1
           f == [i \in lo .. n |-> IF i = lo THEN Body(rest, g, lo) ELSE g[i]]
<1>1. n \in Nat /\ lo < n /\ lo \in Nat
    OBVIOUS
<1>2. \A k \in lo + 1 .. n : f[k] = g[k]
    BY <1>1
<1>3. f[lo] = Body(rest, g, lo)
    BY <1>1
<1>4. g = [i \in lo + 1 .. n |-> Body(rest, g, i)]
    BY DEF Through
<1>5. f = [i \in lo .. n |-> f[i]]
    OBVIOUS
<1> HIDE DEF f
<1>6. ASSUME NEW i \in lo .. n PROVE f[i] = Body(rest, f, i)
    <2>0. i \in 1 .. Len(rest) + 1
        BY <1>1 DEF n
    <2>1. \A k \in i + 1 .. n : f[k] = g[k]
        BY <1>1, <1>2
    <2>2. Body(rest, f, i) = Body(rest, g, i)
        BY <2>0, <2>1, BodyLater DEF n
    <2>3. CASE i = lo
        BY <1>3, <2>2, <2>3
    <2>4. CASE i # lo
        <3>1. i \in lo + 1 .. n
            BY <1>1, <2>4
        <3>2. f[i] = g[i] /\ g[i] = Body(rest, g, i)
            BY <1>2, <1>4, <3>1
        <3> QED
            BY <2>2, <3>2
    <2> QED
        BY <2>3, <2>4
<1>7. Through(rest, f, lo)
    BY <1>5, <1>6 DEF Through, n
<1> QED
    BY <1>7

(* There is a function that goes through. *)
LEMMA FromIs ==
    ASSUME NEW Byte, NEW rest \in Seq(Byte)
    PROVE  Through(rest, From(rest), 1)
<1> DEFINE n == Len(rest)
           S == {j \in 0 .. n : \E f : Through(rest, f, n + 1 - j)}
<1>1. n \in Nat
    OBVIOUS
<1>2. 0 \in S
    <2> DEFINE last == [i \in n + 1 .. n + 1 |-> [out |-> <<>>, carry |-> <<>>]]
    <2>1. \A i \in n + 1 .. n + 1 : i > n
        BY <1>1
    <2>2. \A i \in n + 1 .. n + 1 : Body(rest, last, i) = [out |-> <<>>, carry |-> <<>>]
        BY <2>1 DEF Body
    <2> HIDE DEF last
    <2>3. last = [i \in n + 1 .. n + 1 |-> Body(rest, last, i)]
        BY <2>2 DEF last
    <2>4. Through(rest, last, n + 1)
        BY <2>3 DEF Through
    <2>5. n + 1 - 0 = n + 1
        BY <1>1
    <2> QED
        BY <1>1, <2>4, <2>5
<1>3. ASSUME NEW k \in 1 .. n, k - 1 \in S PROVE k \in S
    <2> DEFINE lo == n + 1 - k
    <2>1. lo \in 1 .. Len(rest) /\ n + 1 - (k - 1) = lo + 1 /\ k \in 0 .. n
        BY <1>1
    <2>2. \E g : Through(rest, g, lo + 1)
        BY <1>3, <2>1
    <2>3. \E f : Through(rest, f, lo)
        BY <2>1, <2>2, ThroughNext
    <2> QED
        BY <2>1, <2>3
<1> HIDE DEF S
<1>4. \A k \in 0 .. n : k \in S
    BY <1>1, <1>2, <1>3, UpTo
<1>5. \E f : Through(rest, f, 1)
    <2>1. n \in 0 .. n /\ n + 1 - n = 1
        BY <1>1
    <2>2. n \in S
        BY <1>4, <2>1
    <2>3. \E f : Through(rest, f, n + 1 - n)
        BY <2>2 DEF S
    <2> QED
        BY <2>1, <2>3
<1> QED
    BY <1>5, Zenon DEF From

-----------------------------------------------------------------------------
(***************************************************************************)
(* A stream, one verdict at a time.                                        *)
(***************************************************************************)

(* What goes out for what a stream begins with, and the stream behind it. *)
Piece(rest) ==
    IF Decoded(rest).kind = "character" THEN SubSeq(rest, 1, Decoded(rest).length)
    ELSE Replacement

Behind(rest) == SubSeq(rest, Decoded(rest).length + 1, Len(rest))

Grown(sane, piece) == [sane EXCEPT !.out = piece \o @]

(* At a place the function gives what begins there, and goes on behind it. *)
LEMMA BodyIs ==
    ASSUME NEW Byte, Replacement \in Seq(Byte), NEW rest \in Seq(Byte),
           NEW i \in 1 .. Len(rest), NEW f,
           \A k \in i + 1 .. Len(rest) + 1 : f[k] \in Sane(Byte)
    PROVE  LET q == SubSeq(rest, i, Len(rest))
               j == i + Decoded(q).length IN
           /\ Decoded(q).kind = "partial" => Body(rest, f, i) = [out |-> <<>>, carry |-> q]
           /\ Decoded(q).kind # "partial" =>
                 Body(rest, f, i) = [out |-> Piece(q) \o f[j].out, carry |-> f[j].carry]
<1> DEFINE q == SubSeq(rest, i, Len(rest))
           j == i + Decoded(q).length
<1>1. /\ q \in Seq(Byte) /\ q # <<>> /\ Len(q) = Len(rest) + 1 - i
      /\ j \in i + 1 .. Len(rest) + 1 /\ Len(rest) \in Nat /\ i \in Nat
    BY SuffixProperties
<1>2. f[j] \in Sane(Byte)
    BY <1>1
<1>3. ~ i > Len(rest)
    BY <1>1
<1>4. Body(rest, f, i) =
        IF Decoded(q).kind = "partial" THEN [out |-> <<>>, carry |-> q]
        ELSE Grown(f[j], IF Decoded(q).kind = "character" THEN SubSeq(rest, i, j - 1) ELSE Replacement)
    <2>1. j - 1 = i + Decoded(q).length - 1
        <3> DEFINE n == Decoded(q).length
        <3>1. n \in 1 .. Len(q)
            BY <1>1, DecodedProperties
        <3> HIDE DEF n
        <3>2. (i + n) - 1 = i + n - 1
            BY <1>1, <3>1
        <3> QED
            BY <3>2 DEF n
    <2>2. Body(rest, f, i) =
            IF Decoded(q).kind = "partial" THEN [out |-> <<>>, carry |-> q]
            ELSE Grown(f[j], IF Decoded(q).kind = "character"
                             THEN SubSeq(rest, i, i + Decoded(q).length - 1) ELSE Replacement)
        BY <1>3, Zenon DEF Body, Grown
    <2> HIDE DEF j
    <2> QED
        BY <2>1, <2>2
<1> HIDE DEF q, j
<1>5. SubSeq(rest, i, j - 1) = SubSeq(q, 1, Decoded(q).length)
    <2> DEFINE n == Decoded(q).length
               a == SubSeq(rest, i, j - 1)
               b == SubSeq(q, 1, n)
    <2>1. n \in 1 .. Len(q)
        BY <1>1, DecodedProperties
    <2> HIDE DEF n
    <2>2. j = i + n
        BY DEF n, j
    <2>3. a \in Seq(Byte) /\ Len(a) = n /\ \A k \in 1 .. n : a[k] = rest[i + k - 1]
        <3> DEFINE m == j - 1
        <3>1. n \in Nat /\ m \in Nat /\ m = i + n - 1 /\ i =< m /\ m =< Len(rest) /\ 1 =< i
            BY <1>1, <2>1, <2>2
        <3> HIDE DEF m
        <3>2. SubSeq(rest, i, m) \in Seq(Byte)
            BY <1>1, <3>1
        <3>3. Len(SubSeq(rest, i, m)) = m - i + 1
            BY <1>1, <3>1
        <3>4. \A k \in 1 .. m - i + 1 : SubSeq(rest, i, m)[k] = rest[i + k - 1]
            BY <1>1, <3>1
        <3>5. m - i + 1 = n
            BY <1>1, <3>1
        <3> QED
            BY <3>2, <3>3, <3>4, <3>5 DEF m
    <2>4. b \in Seq(Byte) /\ Len(b) = n /\ \A k \in 1 .. n : b[k] = q[k]
        BY <1>1, <2>1
    <2>5. \A k \in 1 .. n : q[k] = rest[i + k - 1]
        BY <1>1, <2>1 DEF q
    <2> HIDE DEF a, b
    <2>6. \A k \in 1 .. Len(a) : a[k] = b[k]
        BY <2>3, <2>4, <2>5
    <2>7. a = b
        BY <2>3, <2>4, <2>6, SeqEqual
    <2> QED
        BY <2>7 DEF a, b, n
<1>6. \A x : Grown(f[j], x) = [out |-> x \o f[j].out, carry |-> f[j].carry]
    <2> DEFINE g == f[j]
    <2>1. PICK o \in Seq(Byte), c \in Seq(Byte) : g = [out |-> o, carry |-> c]
        BY <1>2 DEF Sane
    <2> HIDE DEF g
    <2>2. g.out = o /\ g.carry = c
        BY <2>1
    <2>3. \A y : [g EXCEPT !.out = y] = [out |-> y, carry |-> c]
        BY <2>1
    <2>4. \A x : [g EXCEPT !.out = x \o g.out] = [out |-> x \o g.out, carry |-> g.carry]
        BY <2>2, <2>3, Zenon
    <2> QED
        BY <2>4, Zenon DEF g, Grown
<1>7. CASE Decoded(q).kind = "partial"
    BY <1>4, <1>7 DEF q, j
<1>8. CASE Decoded(q).kind # "partial"
    <2>1. Body(rest, f, i) = Grown(f[j], Piece(q))
        BY <1>4, <1>5, <1>8 DEF Piece
    <2>2. Body(rest, f, i) = [out |-> Piece(q) \o f[j].out, carry |-> f[j].carry]
        BY <1>6, <2>1
    <2> QED
        BY <1>8, <2>2 DEF q, j
<1> QED
    BY <1>7, <1>8

(* What is sent out and what is held back are bytes. *)
LEMMA FromType ==
    ASSUME NEW Byte, Replacement \in Seq(Byte), NEW rest \in Seq(Byte)
    PROVE  \A i \in 1 .. Len(rest) + 1 : From(rest)[i] \in Sane(Byte)
<1> DEFINE n == Len(rest)
           f == From(rest)
           S == {j \in 0 .. n : \A i \in n + 1 - j .. n + 1 : f[i] \in Sane(Byte)}
<1>1. n \in Nat
    OBVIOUS
<1>2. \A i \in 1 .. n + 1 : f[i] = Body(rest, f, i)
    BY FromIs DEF Through
<1> HIDE DEF f
<1>3. 0 \in S
    <2>1. n + 1 \in 1 .. n + 1 /\ n + 1 > Len(rest)
        BY <1>1
    <2>2. f[n + 1] = [out |-> <<>>, carry |-> <<>>]
        BY <1>2, <2>1, Zenon DEF Body
    <2>3. f[n + 1] \in Sane(Byte)
        BY <2>2 DEF Sane
    <2>4. \A i \in n + 1 - 0 .. n + 1 : i = n + 1
        BY <1>1
    <2>5. 0 \in 0 .. n
        BY <1>1
    <2> QED
        BY <2>3, <2>4, <2>5
<1>4. ASSUME NEW k \in 1 .. n, k - 1 \in S PROVE k \in S
    <2> DEFINE lo == n + 1 - k
               q == SubSeq(rest, lo, Len(rest))
               j == lo + Decoded(q).length
    <2>1. lo \in 1 .. Len(rest) /\ n + 1 - (k - 1) = lo + 1 /\ k \in 0 .. n /\ lo \in 1 .. n + 1
        BY <1>1
    <2>2. \A i \in lo + 1 .. Len(rest) + 1 : f[i] \in Sane(Byte)
        BY <1>4, <2>1
    <2>3. q \in Seq(Byte) /\ j \in lo + 1 .. Len(rest) + 1 /\ q # <<>>
        BY <2>1, SuffixProperties
    <2> HIDE DEF lo, q, j
    <2>4. f[j] \in Sane(Byte)
        BY <2>2, <2>3
    <2>5. Piece(q) \in Seq(Byte)
        <3>1. Decoded(q).length \in 1 .. Len(q)
            BY <2>3, DecodedProperties
        <3>2. SubSeq(q, 1, Decoded(q).length) \in Seq(Byte)
            BY <2>3, <3>1
        <3> QED
            BY <3>2 DEF Piece
    <2>6. f[lo] = Body(rest, f, lo)
        BY <1>2, <2>1
    <2>7. /\ Decoded(q).kind = "partial" => f[lo] = [out |-> <<>>, carry |-> q]
          /\ Decoded(q).kind # "partial" => f[lo] = [out |-> Piece(q) \o f[j].out, carry |-> f[j].carry]
        <3>1. /\ Decoded(q).kind = "partial" => Body(rest, f, lo) = [out |-> <<>>, carry |-> q]
              /\ Decoded(q).kind # "partial" =>
                    Body(rest, f, lo) = [out |-> Piece(q) \o f[j].out, carry |-> f[j].carry]
            BY <2>1, <2>2, BodyIs, Zenon DEF q, j
        <3> QED
            BY <2>6, <3>1
    <2>8. f[lo] \in Sane(Byte)
        <3>1. f[j].out \in Seq(Byte) /\ f[j].carry \in Seq(Byte)
            BY <2>4 DEF Sane
        <3>2. Piece(q) \o f[j].out \in Seq(Byte)
            BY <2>5, <3>1
        <3>3. \A o \in Seq(Byte), c \in Seq(Byte) : [out |-> o, carry |-> c] \in Sane(Byte)
            BY DEF Sane
        <3>4. <<>> \in Seq(Byte)
            OBVIOUS
        <3> QED
            BY <2>3, <2>7, <3>1, <3>2, <3>3, <3>4, Zenon
    <2>9. \A i \in lo .. n + 1 : i = lo \/ i \in lo + 1 .. n + 1
        BY <1>1, <2>1
    <2>10. \A i \in n + 1 - k .. n + 1 : f[i] \in Sane(Byte)
        BY <2>2, <2>8, <2>9 DEF lo
    <2> QED
        BY <2>1, <2>10
<1> HIDE DEF S
<1>5. \A k \in 0 .. n : k \in S
    BY <1>1, <1>3, <1>4, UpTo
<1>6. n \in S
    BY <1>1, <1>5
<1>7. n + 1 - n = 1
    BY <1>1
<1> QED
    BY <1>6, <1>7 DEF S, f

(* The last bytes of a stream, and the last bytes of those. *)
Ends(rest, k, r) ==
    /\ Len(r) = Len(rest) - k
    /\ \A i \in 1 .. Len(r) : r[i] = rest[k + i]

(* A place of those is a place of the stream. *)
LEMMA EndOfEnd ==
    ASSUME NEW Byte, NEW rest \in Seq(Byte), NEW k \in 0 .. Len(rest),
           NEW r \in Seq(Byte), Ends(rest, k, r), NEW lo \in 1 .. Len(r)
    PROVE  SubSeq(rest, k + lo, Len(rest)) = SubSeq(r, lo, Len(r))
<1> DEFINE n == Len(rest)
           m == Len(r)
           h == k + lo
           a == SubSeq(rest, h, n)
           b == SubSeq(r, lo, m)
<1>1. n \in Nat /\ m \in Nat /\ k \in Nat /\ k =< n /\ m = n - k /\ lo \in 1 .. m
    BY DEF Ends
<1>2. h \in 1 .. n /\ n + 1 - h = m + 1 - lo /\ h = k + lo
    <2> HIDE DEF n, m
    <2> QED
        BY <1>1
<1> HIDE DEF h
<1>3. a \in Seq(Byte) /\ Len(a) = n + 1 - h /\ \A i \in 1 .. n + 1 - h : a[i] = rest[h + i - 1]
    BY <1>1, <1>2
<1>4. b \in Seq(Byte) /\ Len(b) = m + 1 - lo /\ \A i \in 1 .. m + 1 - lo : b[i] = r[lo + i - 1]
    BY <1>1
<1>5. \A i \in 1 .. m : r[i] = rest[k + i]
    BY DEF Ends
<1> HIDE DEF a, b, n, m
<1>6. ASSUME NEW i \in 1 .. m + 1 - lo PROVE a[i] = b[i]
    <2>1. lo + i - 1 \in 1 .. m /\ k + (lo + i - 1) = h + i - 1 /\ i \in 1 .. n + 1 - h
        BY <1>1, <1>2
    <2> QED
        BY <1>3, <1>4, <1>5, <2>1
<1>7. a = b
    BY <1>2, <1>3, <1>4, <1>6, SeqEqual
<1> QED
    BY <1>7 DEF a, b, n, m, h

(* After a place a function gives bytes, and the same as another one. *)
SaneAfter(Byte, x, f, i) == \A k \in i + 1 .. Len(x) + 1 : f[k] \in Sane(Byte)

AlikeAfter(f, i, g, j, n) == \A k \in 1 .. n : f[i + k] = g[j + k]

(* The same bytes begin at place i of x and place j of y, and after those f
   gives for x what g gives for y. *)
Alike(Byte, x, i, f, y, j, g) ==
    /\ x \in Seq(Byte) /\ i \in 1 .. Len(x) /\ SaneAfter(Byte, x, f, i)
    /\ y \in Seq(Byte) /\ j \in 1 .. Len(y) /\ SaneAfter(Byte, y, g, j)
    /\ SubSeq(x, i, Len(x)) = SubSeq(y, j, Len(y))
    /\ AlikeAfter(f, i, g, j, Len(x) + 1 - i)

(* Then they give the same at those places. *)
LEMMA SamePlace ==
    ASSUME NEW Byte, Replacement \in Seq(Byte), NEW x, NEW i, NEW f, NEW y, NEW j, NEW g,
           Alike(Byte, x, i, f, y, j, g)
    PROVE  Body(x, f, i) = Body(y, g, j)
<1> USE DEF Alike
<1> DEFINE q == SubSeq(x, i, Len(x))
           n == Decoded(q).length
<1>1. q \in Seq(Byte) /\ q # <<>> /\ Len(q) = Len(x) + 1 - i
    BY SuffixProperties
<1>2. /\ Decoded(q).kind = "partial" => Body(x, f, i) = [out |-> <<>>, carry |-> q]
      /\ Decoded(q).kind # "partial" =>
            Body(x, f, i) = [out |-> Piece(q) \o f[i + n].out, carry |-> f[i + n].carry]
    BY BodyIs, Zenon DEF SaneAfter
<1>3. /\ Decoded(q).kind = "partial" => Body(y, g, j) = [out |-> <<>>, carry |-> q]
      /\ Decoded(q).kind # "partial" =>
            Body(y, g, j) = [out |-> Piece(q) \o g[j + n].out, carry |-> g[j + n].carry]
    <2> DEFINE p == SubSeq(y, j, Len(y))
               m == j + Decoded(p).length
    <2>1. /\ Decoded(p).kind = "partial" => Body(y, g, j) = [out |-> <<>>, carry |-> p]
          /\ Decoded(p).kind # "partial" =>
                Body(y, g, j) = [out |-> Piece(p) \o g[m].out, carry |-> g[m].carry]
        BY BodyIs, Zenon DEF SaneAfter
    <2>2. p = q
        OBVIOUS
    <2> HIDE DEF p, q
    <2> QED
        BY <2>1, <2>2
<1>4. n \in 1 .. Len(q)
    BY <1>1, DecodedProperties
<1>5. f[i + n] = g[j + n]
    BY <1>1, <1>4 DEF AlikeAfter
<1> HIDE DEF q, n
<1> QED
    BY <1>2, <1>3, <1>5

(* What the function gives within a stream it gives for the rest of it alone. *)
LEMMA Shift ==
    ASSUME NEW Byte, Replacement \in Seq(Byte), NEW rest \in Seq(Byte), NEW k \in 0 .. Len(rest),
           NEW r \in Seq(Byte), Ends(rest, k, r)
    PROVE  From(rest)[k + 1] = From(r)[1]
<1> DEFINE n == Len(rest)
           m == Len(r)
           f == From(rest)
           g == From(r)
           S == {j \in 0 .. m : \A i \in m + 1 - j .. m + 1 : f[k + i] = g[i]}
<1>1. n \in Nat /\ k \in Nat /\ k =< n /\ r \in Seq(Byte) /\ m \in Nat /\ m = n - k
    BY DEF Ends
<1>2. \A i \in 1 .. n + 1 : f[i] = Body(rest, f, i) /\ f[i] \in Sane(Byte)
    BY FromIs, FromType DEF Through
<1>3. \A i \in 1 .. m + 1 : g[i] = Body(r, g, i) /\ g[i] \in Sane(Byte)
    BY <1>1, FromIs, FromType DEF Through
<1> HIDE DEF f, g
<1>4. 0 \in S
    <2>1. n + 1 > n /\ m + 1 > m /\ k + (m + 1) = n + 1 /\ n + 1 \in 1 .. n + 1 /\ m + 1 \in 1 .. m + 1
        BY <1>1
    <2>2. Body(rest, f, n + 1) = [out |-> <<>>, carry |-> <<>>]
        BY <2>1, Zenon DEF Body
    <2>3. Body(r, g, m + 1) = [out |-> <<>>, carry |-> <<>>]
        BY <2>1, Zenon DEF Body
    <2>4. f[k + (m + 1)] = g[m + 1]
        BY <1>2, <1>3, <2>1, <2>2, <2>3
    <2>5. \A i \in m + 1 - 0 .. m + 1 : i = m + 1
        BY <1>1
    <2>6. 0 \in 0 .. m
        BY <1>1
    <2> QED
        BY <2>4, <2>5, <2>6
<1>5. ASSUME NEW l \in 1 .. m, l - 1 \in S PROVE l \in S
    <2> DEFINE lo == m + 1 - l
    <2>1. /\ lo \in 1 .. m /\ k + lo \in 1 .. n /\ m + 1 - (l - 1) = lo + 1 /\ l \in 0 .. m
          /\ n + 1 - (k + lo) = m + 1 - lo
        <3>1. lo \in Int /\ lo \in 1 .. m
            BY <1>1
        <3>2. m + 1 - (l - 1) = lo + 1 /\ l \in 0 .. m
            BY <1>1
        <3> HIDE DEF lo, m, n
        <3>3. k + lo \in 1 .. n
            BY <1>1, <3>1
        <3>4. n + 1 - (k + lo) = m + 1 - lo
            BY <1>1, <3>1
        <3> QED
            BY <3>1, <3>2, <3>3, <3>4
    <2>2. \A i \in lo + 1 .. m + 1 : f[k + i] = g[i]
        BY <1>5, <2>1
    <2> HIDE DEF lo
    <2>3. SubSeq(rest, k + lo, Len(rest)) = SubSeq(r, lo, Len(r))
        BY <1>1, <2>1, EndOfEnd
    <2>4. AlikeAfter(f, k + lo, g, lo, n + 1 - (k + lo))
        <3> SUFFICES ASSUME NEW i \in 1 .. n + 1 - (k + lo) PROVE f[(k + lo) + i] = g[lo + i]
            BY DEF AlikeAfter
        <3>1. lo + i \in lo + 1 .. m + 1 /\ (k + lo) + i = k + (lo + i)
            BY <1>1, <2>1
        <3> QED
            BY <2>2, <3>1
    <2>5. SaneAfter(Byte, rest, f, k + lo)
        BY <1>1, <1>2, <2>1 DEF SaneAfter
    <2>6. SaneAfter(Byte, r, g, lo)
        BY <1>1, <1>3, <2>1 DEF SaneAfter
    <2>7. Body(rest, f, k + lo) = Body(r, g, lo)
        <3> DEFINE h == k + lo
        <3>1. h \in 1 .. Len(rest) /\ lo \in 1 .. Len(r) /\ r \in Seq(Byte)
            BY <1>1, <2>1
        <3>2. /\ SubSeq(rest, h, Len(rest)) = SubSeq(r, lo, Len(r))
              /\ AlikeAfter(f, h, g, lo, Len(rest) + 1 - h)
              /\ SaneAfter(Byte, rest, f, h)
              /\ SaneAfter(Byte, r, g, lo)
            BY <2>3, <2>4, <2>5, <2>6
        <3> HIDE DEF h, m, n, S
        <3>3. Body(rest, f, h) = Body(r, g, lo)
            <4>1. Alike(Byte, rest, h, f, r, lo, g)
                BY <3>1, <3>2 DEF Alike
            <4> QED
                BY <4>1, SamePlace
        <3> QED
            BY <3>3 DEF h
    <2>8. f[k + lo] = g[lo]
        <3>1. k + lo \in 1 .. n + 1 /\ lo \in 1 .. m + 1
            BY <1>1, <2>1
        <3> QED
            BY <1>2, <1>3, <2>7, <3>1
    <2>9. \A i \in lo .. m + 1 : i = lo \/ i \in lo + 1 .. m + 1
        BY <1>1, <2>1
    <2>10. \A i \in lo .. m + 1 : f[k + i] = g[i]
        BY <2>2, <2>8, <2>9
    <2> QED
        BY <2>1, <2>10 DEF lo
<1> HIDE DEF S
<1>6. \A l \in 0 .. m : l \in S
    BY <1>1, <1>4, <1>5, UpTo
<1>7. m \in S /\ m + 1 - m = 1 /\ 1 \in 1 .. m + 1
    BY <1>1, <1>6
<1> QED
    BY <1>7 DEF S, f, g

(* No bytes give nothing; others give what they begin with, and what is
   behind it gives. *)
LEMMA Unfold ==
    ASSUME NEW Byte, Replacement \in Seq(Byte), NEW r \in Seq(Byte)
    PROVE  /\ Sanitized(r) \in Sane(Byte)
           /\ r = <<>> => Sanitized(r) = [out |-> <<>>, carry |-> <<>>]
           /\ r # <<>> /\ Decoded(r).kind = "partial" => Sanitized(r) = [out |-> <<>>, carry |-> r]
           /\ r # <<>> /\ Decoded(r).kind # "partial" =>
                 Sanitized(r) = [out |-> Piece(r) \o Sanitized(Behind(r)).out,
                                 carry |-> Sanitized(Behind(r)).carry]
<1> DEFINE f == From(r)
           n == Len(r)
<1>1. n \in Nat /\ 1 \in 1 .. n + 1
    OBVIOUS
<1>2. \A i \in 1 .. n + 1 : f[i] = Body(r, f, i) /\ f[i] \in Sane(Byte)
    BY FromIs, FromType DEF Through
<1>3. Sanitized(r) = f[1]
    BY DEF Sanitized
<1> HIDE DEF f
<1>4. Sanitized(r) = Body(r, f, 1) /\ Sanitized(r) \in Sane(Byte)
    BY <1>1, <1>2, <1>3
<1>5. CASE r = <<>>
    <2>1. 1 > Len(r)
        BY <1>5
    <2>2. Body(r, f, 1) = [out |-> <<>>, carry |-> <<>>]
        BY <2>1, Zenon DEF Body
    <2> QED
        BY <1>4, <1>5, <2>2
<1>6. CASE r # <<>>
    <2> DEFINE k == Decoded(r).length
    <2>1. 1 \in 1 .. Len(r) /\ SubSeq(r, 1, Len(r)) = r
        BY <1>6
    <2>2. k \in 1 .. Len(r)
        BY <1>6, DecodedProperties
    <2>3. \A i \in 1 + 1 .. Len(r) + 1 : f[i] \in Sane(Byte)
        BY <1>1, <1>2
    <2>4. /\ Decoded(r).kind = "partial" => Body(r, f, 1) = [out |-> <<>>, carry |-> r]
          /\ Decoded(r).kind # "partial" =>
                Body(r, f, 1) = [out |-> Piece(r) \o f[1 + k].out, carry |-> f[1 + k].carry]
        <3>1. LET q == SubSeq(r, 1, Len(r))
                  j == 1 + Decoded(q).length IN
              /\ Decoded(q).kind = "partial" => Body(r, f, 1) = [out |-> <<>>, carry |-> q]
              /\ Decoded(q).kind # "partial" =>
                    Body(r, f, 1) = [out |-> Piece(q) \o f[j].out, carry |-> f[j].carry]
            BY <2>1, <2>3, BodyIs
        <3> QED
            BY <2>1, <3>1
    <2> HIDE DEF k
    <2>5. 1 + k = k + 1 /\ k \in 0 .. Len(r)
        BY <1>1, <2>2
    <2>6. From(r)[k + 1] = From(SubSeq(r, k + 1, Len(r)))[1]
        <3> DEFINE b == SubSeq(r, k + 1, Len(r))
        <3>1. b \in Seq(Byte) /\ Len(b) = Len(r) - k
            BY <2>5, CutAndRejoin
        <3>2. \A i \in 1 .. Len(r) - k : b[i] = r[k + i]
            <4> TAKE i \in 1 .. Len(r) - k
            <4>1. b[i] = r[(k + 1) + i - 1]
                BY <1>1, <2>2
            <4>2. (k + 1) + i - 1 = k + i
                BY <1>1, <2>2
            <4> QED
                BY <4>1, <4>2
        <3> HIDE DEF b
        <3>3. Ends(r, k, b)
            BY <3>1, <3>2 DEF Ends
        <3>4. From(r)[k + 1] = From(b)[1]
            BY <2>5, <3>1, <3>3, Shift
        <3> QED
            BY <3>4 DEF b
    <2>7. Behind(r) = SubSeq(r, k + 1, Len(r))
        BY DEF Behind, k
    <2>8. f[1 + k] = Sanitized(Behind(r))
        BY <2>5, <2>6, <2>7, Zenon DEF Sanitized, f
    <2> QED
        BY <1>4, <1>6, <2>4, <2>8
<1> QED
    BY <1>5, <1>6

(* What is behind the first verdict is shorter. *)
LEMMA BehindProperties ==
    ASSUME NEW Byte, NEW x \in Seq(Byte), x # <<>>
    PROVE  Behind(x) \in Seq(Byte) /\ Len(Behind(x)) \in 0 .. Len(x) - 1
<1> DEFINE k == Decoded(x).length
<1>1. k \in 1 .. Len(x) /\ Len(x) \in Nat
    BY DecodedProperties
<1> HIDE DEF k
<1>2. k \in 0 .. Len(x)
    BY <1>1
<1>3. SubSeq(x, k + 1, Len(x)) \in Seq(Byte) /\ Len(SubSeq(x, k + 1, Len(x))) = Len(x) - k
    BY <1>2, CutAndRejoin
<1>4. Len(x) - k \in 0 .. Len(x) - 1
    BY <1>1
<1> QED
    BY <1>3, <1>4 DEF Behind, k

(* The first bytes of two streams, one behind the other. *)
LEMMA FirstOfBoth ==
    ASSUME NEW Byte, NEW x \in Seq(Byte), NEW b \in Seq(Byte), NEW k \in 0 .. Len(x)
    PROVE  /\ SubSeq(x \o b, 1, k) = SubSeq(x, 1, k)
           /\ SubSeq(x \o b, k + 1, Len(x \o b)) = SubSeq(x, k + 1, Len(x)) \o b
<1> DEFINE p == SubSeq(x, 1, k)
           r == SubSeq(x, k + 1, Len(x))
           y == x \o b
           m == Len(y)
           v == SubSeq(y, 1, k)
           w == SubSeq(y, k + 1, m)
           u == r \o b
<1>0. Len(x) \in Nat /\ Len(b) \in Nat /\ k \in Nat /\ k =< Len(x)
    OBVIOUS
<1>1. p \in Seq(Byte) /\ Len(p) = k /\ r \in Seq(Byte) /\ Len(r) = Len(x) - k
    BY CutAndRejoin
<1>2. /\ \A i \in 1 .. k : p[i] = x[i]
      /\ \A i \in 1 .. Len(x) - k : r[i] = x[k + i]
    <2>1. \A i \in 1 .. k : p[i] = x[i]
        BY <1>0
    <2>2. \A i \in 1 .. Len(x) - k : r[i] = x[(k + 1) + i - 1] /\ (k + 1) + i - 1 = k + i
        BY <1>0
    <2> QED
        BY <2>1, <2>2
<1>3. /\ y \in Seq(Byte) /\ m = Len(x) + Len(b)
      /\ \A i \in 1 .. m : y[i] = IF i =< Len(x) THEN x[i] ELSE b[i - Len(x)]
    BY <1>0
<1> HIDE DEF p, r, y
<1>4. k \in 0 .. m
    BY <1>0, <1>3
<1>5. v \in Seq(Byte) /\ Len(v) = k /\ w \in Seq(Byte) /\ Len(w) = m - k
    BY <1>3, <1>4, CutAndRejoin
<1>6. /\ \A i \in 1 .. k : v[i] = y[i]
      /\ \A i \in 1 .. m - k : w[i] = y[k + i]
    <2>1. \A i \in 1 .. k : v[i] = y[i]
        BY <1>3, <1>4
    <2>2. \A i \in 1 .. m - k : w[i] = y[(k + 1) + i - 1] /\ (k + 1) + i - 1 = k + i
        BY <1>3, <1>4
    <2> QED
        BY <2>1, <2>2
<1> HIDE DEF m, v, w
<1>7. /\ u \in Seq(Byte) /\ Len(u) = Len(r) + Len(b)
      /\ \A i \in 1 .. Len(u) : u[i] = IF i =< Len(r) THEN r[i] ELSE b[i - Len(r)]
    <2>1. u \in Seq(Byte)
        BY <1>1
    <2>2. Len(u) = Len(r) + Len(b)
        <3>1. r \in Seq(Byte) /\ b \in Seq(Byte)
            BY <1>1
        <3> QED
            BY <3>1, ConcatProperties
    <2>3. \A i \in 1 .. Len(r) + Len(b) : u[i] = IF i =< Len(r) THEN r[i] ELSE b[i - Len(r)]
        BY <1>1
    <2> QED
        BY <2>1, <2>2, <2>3
<1> HIDE DEF u
<1>8. v = p
    <2>1. ASSUME NEW i \in 1 .. k PROVE v[i] = p[i]
        <3>1. i \in 1 .. m /\ i =< Len(x)
            BY <1>0, <1>3
        <3>2. v[i] = y[i] /\ p[i] = x[i]
            BY <1>2, <1>6
        <3>3. y[i] = x[i]
            BY <1>3, <3>1
        <3> QED
            BY <3>2, <3>3
    <2> QED
        BY <1>1, <1>5, <2>1, SeqEqual
<1>9. w = u
    <2>1. Len(w) = Len(u) /\ Len(u) = m - k
        BY <1>0, <1>1, <1>3, <1>5, <1>7
    <2>2. ASSUME NEW i \in 1 .. m - k PROVE w[i] = u[i]
        <3>1. w[i] = y[k + i] /\ k + i \in 1 .. m /\ i \in 1 .. Len(u)
            BY <1>0, <1>3, <1>6, <2>1
        <3>2. CASE i =< Len(x) - k
            <4>1. k + i =< Len(x) /\ i \in 1 .. Len(x) - k /\ i =< Len(r)
                BY <1>0, <1>1, <3>2
            <4>2. y[k + i] = x[k + i]
                BY <1>3, <3>1, <4>1
            <4>3. u[i] = r[i] /\ r[i] = x[k + i]
                BY <1>2, <1>7, <3>1, <4>1
            <4> QED
                BY <3>1, <4>2, <4>3
        <3>3. CASE ~ i =< Len(x) - k
            <4>1. ~ k + i =< Len(x) /\ ~ i =< Len(r) /\ (k + i) - Len(x) = i - Len(r)
                BY <1>0, <1>1, <3>3
            <4>2. y[k + i] = b[(k + i) - Len(x)]
                BY <1>3, <3>1, <4>1
            <4>3. u[i] = b[i - Len(r)]
                BY <1>7, <3>1, <4>1
            <4> QED
                BY <3>1, <4>1, <4>2, <4>3
        <3> QED
            BY <3>2, <3>3
    <2> QED
        BY <1>5, <1>7, <2>1, <2>2, SeqEqual
<1> QED
    BY <1>8, <1>9 DEF v, w, u, m, y, p, r

(* More bytes leave what a stream begins with alone, if it does not wait for
   them, and come behind what is behind it. *)
LEMMA BehindMore ==
    ASSUME NEW Byte, NEW x \in Seq(Byte), x # <<>>, NEW b \in Seq(Byte),
           Decoded(x).kind # "partial"
    PROVE  /\ x \o b \in Seq(Byte) /\ x \o b # <<>>
           /\ Decoded(x \o b).kind # "partial"
           /\ Piece(x \o b) = Piece(x)
           /\ Behind(x \o b) = Behind(x) \o b
<1>1. x \o b \in Seq(Byte) /\ x \o b # <<>>
    OBVIOUS
<1>2. Decoded(x \o b) = Decoded(x)
    BY DecodedOfMore
<1>3. Decoded(x).length \in 0 .. Len(x)
    BY DecodedProperties
<1>4. /\ SubSeq(x \o b, 1, Decoded(x).length) = SubSeq(x, 1, Decoded(x).length)
      /\ SubSeq(x \o b, Decoded(x).length + 1, Len(x \o b))
            = SubSeq(x, Decoded(x).length + 1, Len(x)) \o b
    BY <1>3, FirstOfBoth
<1>5. Piece(x \o b) = Piece(x)
    BY <1>2, <1>4 DEF Piece
<1>6. Behind(x \o b) = Behind(x) \o b
    BY <1>2, <1>4 DEF Behind
<1> QED
    BY <1>1, <1>2, <1>5, <1>6

-----------------------------------------------------------------------------
(***************************************************************************)
(* Where a read cuts the stream.                                           *)
(***************************************************************************)

(* A cut behind x is not seen, whatever follows. *)
CutBehind(Byte, x) ==
    \A b \in Seq(Byte) :
        Sanitized(x \o b) =
            [out |-> Sanitized(x).out \o Sanitized(Sanitized(x).carry \o b).out,
             carry |-> Sanitized(Sanitized(x).carry \o b).carry]

(* Nor is it if a cut behind the rest of x is not. *)
LEMMA CutNext ==
    ASSUME NEW Byte, Replacement \in Seq(Byte), NEW x \in Seq(Byte), x # <<>>,
           Decoded(x).kind # "partial", CutBehind(Byte, Behind(x))
    PROVE  CutBehind(Byte, x)
<1> SUFFICES ASSUME NEW b \in Seq(Byte)
             PROVE  Sanitized(x \o b) =
                        [out |-> Sanitized(x).out \o Sanitized(Sanitized(x).carry \o b).out,
                         carry |-> Sanitized(Sanitized(x).carry \o b).carry]
    BY DEF CutBehind
<1> DEFINE y == Behind(x)
           s == Sanitized(y)
           t == Sanitized(s.carry \o b)
<1>1. y \in Seq(Byte)
    BY BehindProperties
<1>2. /\ x \o b \in Seq(Byte) /\ x \o b # <<>>
      /\ Decoded(x \o b).kind # "partial"
      /\ Piece(x \o b) = Piece(x) /\ Behind(x \o b) = y \o b
    BY BehindMore
<1>3. Sanitized(x) = [out |-> Piece(x) \o s.out, carry |-> s.carry]
    BY Unfold
<1>4. Sanitized(x \o b) = [out |-> Piece(x) \o Sanitized(y \o b).out, carry |-> Sanitized(y \o b).carry]
    <2>1. Sanitized(x \o b) = [out |-> Piece(x \o b) \o Sanitized(Behind(x \o b)).out,
                               carry |-> Sanitized(Behind(x \o b)).carry]
        BY <1>2, Unfold
    <2> QED
        BY <1>2, <2>1
<1>5. Sanitized(y \o b) = [out |-> s.out \o t.out, carry |-> t.carry]
    BY DEF CutBehind
<1>6. s \in Sane(Byte)
    BY <1>1, Unfold
<1>7. s.carry \o b \in Seq(Byte) /\ s.out \in Seq(Byte)
    BY <1>6 DEF Sane
<1>8. t \in Sane(Byte)
    BY <1>7, Unfold
<1>9. t.out \in Seq(Byte)
    BY <1>8 DEF Sane
<1>10. Piece(x) \in Seq(Byte)
    <2>1. Decoded(x).length \in 0 .. Len(x)
        BY DecodedProperties
    <2>2. SubSeq(x, 1, Decoded(x).length) \in Seq(Byte)
        BY <2>1, CutAndRejoin
    <2> QED
        BY <2>2 DEF Piece
<1>11. Piece(x) \o (s.out \o t.out) = (Piece(x) \o s.out) \o t.out
    <2> DEFINE p == Piece(x)
               o == s.out
               u == t.out
    <2>1. p \in Seq(Byte) /\ o \in Seq(Byte) /\ u \in Seq(Byte)
        BY <1>7, <1>9, <1>10
    <2> HIDE DEF p, o, u
    <2>2. (p \o o) \o u = p \o (o \o u)
        BY <2>1, ConcatAssociative, SMTT(30)
    <2> QED
        BY <2>2 DEF p, o, u
<1> HIDE DEF s, t, y
<1>12. Sanitized(x \o b) = [out |-> Piece(x) \o (s.out \o t.out), carry |-> t.carry]
    BY <1>4, <1>5
<1>13. Sanitized(x).out = Piece(x) \o s.out /\ Sanitized(x).carry = s.carry
    BY <1>3
<1>14. t = Sanitized(Sanitized(x).carry \o b)
    BY <1>13, Zenon DEF t
<1> QED
    BY <1>11, <1>12, <1>13, <1>14

(* A cut is never seen. *)
LEMMA CutAnywhere ==
    ASSUME NEW Byte, Replacement \in Seq(Byte), NEW all \in Seq(Byte)
    PROVE  CutBehind(Byte, all)
<1> DEFINE n == Len(all)
           S == {k \in 0 .. n : \A x \in Seq(Byte) : Len(x) =< k => CutBehind(Byte, x)}
<1>1. n \in Nat
    OBVIOUS
<1>2. ASSUME NEW x \in Seq(Byte), x = <<>> PROVE CutBehind(Byte, x)
    <2> SUFFICES ASSUME NEW b \in Seq(Byte)
                 PROVE  Sanitized(x \o b) =
                            [out |-> Sanitized(x).out \o Sanitized(Sanitized(x).carry \o b).out,
                             carry |-> Sanitized(Sanitized(x).carry \o b).carry]
        BY DEF CutBehind
    <2>1. Sanitized(x).out = <<>> /\ Sanitized(x).carry = <<>>
        <3>1. Sanitized(x) = [out |-> <<>>, carry |-> <<>>]
            BY <1>2, Unfold
        <3> QED
            BY <3>1
    <2>2. x \o b = b /\ Sanitized(x).carry \o b = b
        BY <1>2, <2>1
    <2>3. Sanitized(b) \in Sane(Byte)
        BY Unfold
    <2> DEFINE t == Sanitized(b)
    <2> HIDE DEF t
    <2>4. t = [out |-> t.out, carry |-> t.carry] /\ <<>> \o t.out = t.out
        BY <2>3 DEF Sane, t
    <2> QED
        BY <2>1, <2>2, <2>4 DEF t
<1>3. ASSUME NEW x \in Seq(Byte), x # <<>>, Decoded(x).kind = "partial" PROVE CutBehind(Byte, x)
    <2> SUFFICES ASSUME NEW b \in Seq(Byte)
                 PROVE  Sanitized(x \o b) =
                            [out |-> Sanitized(x).out \o Sanitized(Sanitized(x).carry \o b).out,
                             carry |-> Sanitized(Sanitized(x).carry \o b).carry]
        BY DEF CutBehind
    <2>1. Sanitized(x).out = <<>> /\ Sanitized(x).carry = x
        BY <1>3, Unfold
    <2>2. x \o b \in Seq(Byte)
        OBVIOUS
    <2> DEFINE t == Sanitized(x \o b)
    <2>3. t \in Sane(Byte)
        BY <2>2, Unfold
    <2> HIDE DEF t
    <2>4. t = [out |-> t.out, carry |-> t.carry] /\ <<>> \o t.out = t.out
        BY <2>3 DEF Sane
    <2> QED
        BY <2>1, <2>4 DEF t
<1>4. 0 \in S
    <2>1. \A x \in Seq(Byte) : Len(x) =< 0 => x = <<>>
        OBVIOUS
    <2>2. \A x \in Seq(Byte) : Len(x) =< 0 => CutBehind(Byte, x)
        BY <1>2, <2>1
    <2> QED
        BY <1>1, <2>2
<1>5. ASSUME NEW k \in 1 .. n, k - 1 \in S PROVE k \in S
    <2>1. ASSUME NEW x \in Seq(Byte), Len(x) =< k PROVE CutBehind(Byte, x)
        <3>1. CASE x # <<>> /\ Decoded(x).kind # "partial"
            <4>1. Behind(x) \in Seq(Byte) /\ Len(Behind(x)) \in 0 .. Len(x) - 1
                BY <3>1, BehindProperties
            <4>2. Len(Behind(x)) =< k - 1
                BY <1>1, <2>1, <4>1
            <4>3. CutBehind(Byte, Behind(x))
                BY <1>5, <4>1, <4>2
            <4> QED
                BY <3>1, <4>3, CutNext
        <3> QED
            BY <1>2, <1>3, <3>1
    <2> QED
        BY <1>1, <2>1
<1> HIDE DEF S
<1>6. \A k \in 0 .. n : k \in S
    BY <1>1, <1>4, <1>5, UpTo
<1>7. n \in S /\ n =< n
    BY <1>1, <1>6
<1> QED
    BY <1>7 DEF S

(* Where the reads of a pseudo-terminal cut the stream makes no difference:
   after any first part of it, sanitizing what comes next with what was held
   back sends out, in all, what one read of everything would have sent out, and
   holds back the same (Utf8Sanitizer::feed). *)
THEOREM CutsAreInvisible ==
    ASSUME NEW Byte, Replacement \in Seq(Byte), NEW before \in Seq(Byte), NEW bytes \in Seq(Byte)
    PROVE  LET first == Sanitize(<<>>, before)
               second == Sanitize(first.carry, bytes) IN
           Sanitize(<<>>, before \o bytes) = [out |-> first.out \o second.out, carry |-> second.carry]
<1> DEFINE first == Sanitize(<<>>, before)
           second == Sanitize(first.carry, bytes)
<1>1. before \o bytes \in Seq(Byte)
    OBVIOUS
<1>2. <<>> \o before = before /\ <<>> \o (before \o bytes) = before \o bytes
    OBVIOUS
<1>3. first = Sanitized(before) /\ Sanitize(<<>>, before \o bytes) = Sanitized(before \o bytes)
    <2>1. first = Sanitized(<<>> \o before)
        BY SanitizeIs
    <2>2. Sanitize(<<>>, before \o bytes) = Sanitized(<<>> \o (before \o bytes))
        BY SanitizeIs
    <2> QED
        BY <1>2, <2>1, <2>2
<1> HIDE DEF first
<1>4. second = Sanitized(first.carry \o bytes)
    BY SanitizeIs
<1> HIDE DEF second
<1>5. CutBehind(Byte, before)
    BY CutAnywhere
<1>6. Sanitized(before \o bytes) =
        [out |-> Sanitized(before).out \o Sanitized(Sanitized(before).carry \o bytes).out,
         carry |-> Sanitized(Sanitized(before).carry \o bytes).carry]
    BY <1>5 DEF CutBehind
<1>7. Sanitize(<<>>, before \o bytes) = [out |-> first.out \o second.out, carry |-> second.carry]
    BY <1>3, <1>4, <1>6
<1> QED
    BY <1>7 DEF first, second

(* What is held back is nothing, or a character that is not over. *)
Waiting(carry) == carry # <<>> => Decoded(carry).kind = "partial"

(* That is so after every stream. *)
LEMMA CarryWaits ==
    ASSUME NEW Byte, Replacement \in Seq(Byte), NEW all \in Seq(Byte)
    PROVE  Waiting(Sanitized(all).carry)
<1> DEFINE n == Len(all)
           S == {k \in 0 .. n : \A x \in Seq(Byte) : Len(x) =< k => Waiting(Sanitized(x).carry)}
<1>1. n \in Nat
    OBVIOUS
<1>2. ASSUME NEW x \in Seq(Byte), x = <<>> \/ Decoded(x).kind = "partial"
      PROVE  Waiting(Sanitized(x).carry)
    <2>1. CASE x = <<>>
        <3>1. Sanitized(x) = [out |-> <<>>, carry |-> <<>>]
            BY <2>1, Unfold
        <3>2. Sanitized(x).carry = <<>>
            BY <3>1
        <3> QED
            BY <3>2 DEF Waiting
    <2>2. CASE x # <<>>
        <3>1. Sanitized(x) = [out |-> <<>>, carry |-> x]
            BY <1>2, <2>2, Unfold
        <3>2. Sanitized(x).carry = x
            BY <3>1
        <3> QED
            BY <1>2, <2>2, <3>2 DEF Waiting
    <2> QED
        BY <2>1, <2>2
<1>3. 0 \in S
    <2>1. \A x \in Seq(Byte) : Len(x) =< 0 => x = <<>>
        OBVIOUS
    <2>2. \A x \in Seq(Byte) : Len(x) =< 0 => Waiting(Sanitized(x).carry)
        BY <1>2, <2>1
    <2> QED
        BY <1>1, <2>2
<1>4. ASSUME NEW k \in 1 .. n, k - 1 \in S PROVE k \in S
    <2>1. ASSUME NEW x \in Seq(Byte), Len(x) =< k PROVE Waiting(Sanitized(x).carry)
        <3>1. CASE x # <<>> /\ Decoded(x).kind # "partial"
            <4>1. Behind(x) \in Seq(Byte) /\ Len(Behind(x)) \in 0 .. Len(x) - 1
                BY <3>1, BehindProperties
            <4>2. Len(Behind(x)) =< k - 1
                BY <1>1, <2>1, <4>1
            <4>3. Waiting(Sanitized(Behind(x)).carry)
                BY <1>4, <4>1, <4>2
            <4>4. Sanitized(x) = [out |-> Piece(x) \o Sanitized(Behind(x)).out,
                                  carry |-> Sanitized(Behind(x)).carry]
                BY <3>1, Unfold
            <4> QED
                BY <4>3, <4>4
        <3> QED
            BY <1>2, <3>1
    <2> QED
        BY <1>1, <2>1
<1> HIDE DEF S
<1>5. \A k \in 0 .. n : k \in S
    BY <1>1, <1>3, <1>4, UpTo
<1>6. n \in S /\ n =< n
    BY <1>1, <1>5
<1> QED
    BY <1>6 DEF S

(* The sanitizer holds back three bytes at the most, whatever it is fed
   (utf8.rs:22, "at most three bytes"), and they are the beginning of a
   character. *)
THEOREM CarryIsShort ==
    ASSUME NEW Byte, Replacement \in Seq(Byte), NEW carry \in Seq(Byte), NEW bytes \in Seq(Byte)
    PROVE  LET held == Sanitize(carry, bytes).carry IN
           Len(held) =< 3 /\ (held # <<>> => Decoded(held).kind = "partial")
<1> DEFINE x == carry \o bytes
           held == Sanitized(x).carry
<1>1. x \in Seq(Byte)
    OBVIOUS
<1> HIDE DEF x
<1>2. Sanitized(x) \in Sane(Byte)
    BY <1>1, Unfold
<1>3. held \in Seq(Byte)
    BY <1>2 DEF Sane
<1>4. Waiting(held)
    BY <1>1, CarryWaits
<1> HIDE DEF held
<1>5. ASSUME held = <<>> PROVE Len(held) =< 3
    BY <1>5
<1>6. ASSUME held # <<>> PROVE Len(held) =< 3
    <2>1. Decoded(held).kind = "partial"
        BY <1>4, <1>6 DEF Waiting
    <2>2. Len(held) =< 3
        BY <1>3, <1>6, <2>1, DecodedProperties
    <2> QED
        BY <2>2
<1>7. Len(held) =< 3 /\ (held # <<>> => Decoded(held).kind = "partial")
    BY <1>4, <1>5, <1>6 DEF Waiting
<1>8. Sanitize(carry, bytes) = Sanitized(x)
    BY SanitizeIs DEF x
<1> QED
    BY <1>7, <1>8 DEF held

-----------------------------------------------------------------------------
(***************************************************************************)
(* What goes out.                                                          *)
(***************************************************************************)

(* What goes out for a verdict is one character, whole. *)
LEMMA PieceIsWhole ==
    ASSUME NEW Byte, Replacement \in Seq(Byte), NEW x \in Seq(Byte), x # <<>>,
           Decoded(x).kind # "partial"
    PROVE  /\ Piece(x) \in Seq(Byte) /\ Piece(x) # <<>>
           /\ Decoded(Piece(x)) = [kind |-> "character", length |-> Len(Piece(x))]
<1>1. CASE Decoded(x).kind # "character"
    BY <1>1, ReplacementAssumption DEF Piece
<1>2. CASE Decoded(x).kind = "character"
    <2> DEFINE p == SubSeq(x, 1, Decoded(x).length)
    <2>1. PICK g : Got(x, g)
        BY GotExists
    <2>2. Decoded(x) = JudgedBy(x, g)
        BY <2>1, DecodedIs
    <2>3. ~Stray(x[1]) /\ g = Needs(x[1]) /\ Decoded(x).length = g + 1
        BY <1>2, <2>2 DEF JudgedBy
    <2>4. g \in 0 .. 3 /\ g < Len(x) /\ Len(x) \in Nat
        BY <2>1, GotIsThere
    <2>5. g + 1 \in 1 .. Len(x) /\ g + 1 \in 0 .. Len(x)
        BY <2>4
    <2>6. p \in Seq(Byte) /\ Len(p) = g + 1
        BY <2>3, <2>5, CutAndRejoin
    <2>7. \A i \in 1 .. g + 1 : p[i] = x[i]
        BY <2>3, <2>4, <2>5
    <2> HIDE DEF p
    <2>8. p # <<>> /\ p[1] = x[1] /\ Needs(p[1]) = g
        BY <2>3, <2>4, <2>6, <2>7
    <2>9. \A n \in 1 .. g : Fitting(p, n)
        <3> TAKE n \in 1 .. g
        <3>1. Fitting(x, n) /\ n + 1 \in 1 .. g + 1 /\ n < g + 1
            BY <2>1, <2>4 DEF Got
        <3> QED
            BY <2>6, <2>7, <2>8, <3>1 DEF Fitting
    <2>10. Got(p, g)
        BY <2>4, <2>8, <2>9 DEF Got
    <2>11. Decoded(p) = JudgedBy(p, g)
        BY <2>6, <2>8, <2>10, DecodedIs
    <2>12. Decoded(p) = [kind |-> "character", length |-> Len(p)]
        BY <2>3, <2>6, <2>8, <2>11 DEF JudgedBy
    <2> QED
        BY <1>2, <2>6, <2>8, <2>12 DEF Piece, p
<1> QED
    BY <1>1, <1>2

(* Nothing is changed in it, and nothing held back. *)
Settled(out) == Sanitized(out) = [out |-> out, carry |-> <<>>]

(* One character before settled bytes. *)
LEMMA SettledNext ==
    ASSUME NEW Byte, Replacement \in Seq(Byte), NEW p \in Seq(Byte), p # <<>>,
           Decoded(p) = [kind |-> "character", length |-> Len(p)],
           NEW out \in Seq(Byte), Settled(out)
    PROVE  Settled(p \o out)
<1>1. Decoded(p).kind = "character" /\ Decoded(p).length = Len(p)
    OBVIOUS
<1>2. /\ p \o out \in Seq(Byte) /\ p \o out # <<>>
      /\ Decoded(p \o out).kind # "partial"
      /\ Piece(p \o out) = Piece(p) /\ Behind(p \o out) = Behind(p) \o out
    BY <1>1, BehindMore
<1>3. Len(p) \in Nat /\ Len(p) \in 0 .. Len(p)
    OBVIOUS
<1>4. SubSeq(p, 1, Len(p)) = p
    OBVIOUS
<1>5. SubSeq(p, Len(p) + 1, Len(p)) = <<>>
    <2>1. Len(SubSeq(p, Len(p) + 1, Len(p))) = 0 /\ SubSeq(p, Len(p) + 1, Len(p)) \in Seq(Byte)
        BY <1>3, CutAndRejoin
    <2> QED
        BY <2>1
<1>6. Piece(p) = p /\ Behind(p) = <<>>
    BY <1>1, <1>4, <1>5 DEF Piece, Behind
<1>7. <<>> \o out = out
    OBVIOUS
<1>8. Sanitized(p \o out) = [out |-> Piece(p \o out) \o Sanitized(Behind(p \o out)).out,
                             carry |-> Sanitized(Behind(p \o out)).carry]
    BY <1>2, Unfold
<1>9. Sanitized(p \o out) = [out |-> p \o Sanitized(out).out, carry |-> Sanitized(out).carry]
    BY <1>2, <1>6, <1>7, <1>8
<1>10. Sanitized(out).out = out /\ Sanitized(out).carry = <<>>
    BY DEF Settled
<1> QED
    BY <1>9, <1>10 DEF Settled

(* All that goes out is settled. *)
LEMMA OutSettles ==
    ASSUME NEW Byte, Replacement \in Seq(Byte), NEW all \in Seq(Byte)
    PROVE  Settled(Sanitized(all).out)
<1> DEFINE n == Len(all)
           S == {k \in 0 .. n : \A x \in Seq(Byte) : Len(x) =< k => Settled(Sanitized(x).out)}
<1>1. n \in Nat
    OBVIOUS
<1>2. ASSUME NEW x \in Seq(Byte), x = <<>> \/ Decoded(x).kind = "partial"
      PROVE  Settled(Sanitized(x).out)
    <2>1. Sanitized(x).out = <<>>
        <3>1. CASE x = <<>>
            <4>1. Sanitized(x) = [out |-> <<>>, carry |-> <<>>]
                BY <3>1, Unfold
            <4> QED
                BY <4>1
        <3>2. CASE x # <<>>
            <4>1. Sanitized(x) = [out |-> <<>>, carry |-> x]
                BY <1>2, <3>2, Unfold
            <4> QED
                BY <4>1
        <3> QED
            BY <3>1, <3>2
    <2>2. <<>> \in Seq(Byte)
        OBVIOUS
    <2>3. Settled(<<>>)
        BY <2>2, Unfold DEF Settled
    <2> QED
        BY <2>1, <2>3
<1>3. 0 \in S
    <2>1. \A x \in Seq(Byte) : Len(x) =< 0 => x = <<>>
        OBVIOUS
    <2>2. \A x \in Seq(Byte) : Len(x) =< 0 => Settled(Sanitized(x).out)
        BY <1>2, <2>1
    <2> QED
        BY <1>1, <2>2
<1>4. ASSUME NEW k \in 1 .. n, k - 1 \in S PROVE k \in S
    <2>1. ASSUME NEW x \in Seq(Byte), Len(x) =< k PROVE Settled(Sanitized(x).out)
        <3>1. CASE x # <<>> /\ Decoded(x).kind # "partial"
            <4> DEFINE out == Sanitized(Behind(x)).out
            <4>1. Behind(x) \in Seq(Byte) /\ Len(Behind(x)) \in 0 .. Len(x) - 1
                BY <3>1, BehindProperties
            <4>2. Len(Behind(x)) =< k - 1
                BY <1>1, <2>1, <4>1
            <4>3. Settled(out)
                BY <1>4, <4>1, <4>2
            <4>4. Sanitized(Behind(x)) \in Sane(Byte)
                BY <4>1, Unfold
            <4>5. out \in Seq(Byte)
                BY <4>4 DEF Sane
            <4>6. Sanitized(x) = [out |-> Piece(x) \o out, carry |-> Sanitized(Behind(x)).carry]
                BY <3>1, Unfold
            <4>7. /\ Piece(x) \in Seq(Byte) /\ Piece(x) # <<>>
                  /\ Decoded(Piece(x)) = [kind |-> "character", length |-> Len(Piece(x))]
                BY <3>1, PieceIsWhole
            <4> HIDE DEF out
            <4>8. Settled(Piece(x) \o out)
                BY <4>3, <4>5, <4>7, SettledNext
            <4>9. Sanitized(x).out = Piece(x) \o out
                BY <4>6
            <4> QED
                BY <4>8, <4>9
        <3> QED
            BY <1>2, <3>1
    <2> QED
        BY <1>1, <2>1
<1> HIDE DEF S
<1>5. \A k \in 0 .. n : k \in S
    BY <1>1, <1>3, <1>4, UpTo
<1>6. n \in S /\ n =< n
    BY <1>1, <1>5
<1> QED
    BY <1>6 DEF S

(* What goes on to the emulator is well-formed, whatever the child wrote: the
   sanitizer, fed with it, would change nothing and hold nothing back
   (utf8.rs:27, "always valid UTF-8"). *)
THEOREM OutIsWellFormed ==
    ASSUME NEW Byte, Replacement \in Seq(Byte), NEW carry \in Seq(Byte), NEW bytes \in Seq(Byte)
    PROVE  LET out == Sanitize(carry, bytes).out IN
           Sanitize(<<>>, out) = [out |-> out, carry |-> <<>>]
<1> DEFINE x == carry \o bytes
           out == Sanitized(x).out
<1>1. x \in Seq(Byte)
    OBVIOUS
<1>2. Sanitize(carry, bytes) = Sanitized(x)
    BY SanitizeIs
<1> HIDE DEF x
<1>3. Sanitized(x) \in Sane(Byte) /\ Settled(out)
    BY <1>1, Unfold, OutSettles
<1>4. out \in Seq(Byte)
    BY <1>3 DEF Sane
<1> HIDE DEF out
<1>5. <<>> \o out = out
    BY <1>4
<1>6. Sanitize(<<>>, out) = Sanitized(<<>> \o out)
    BY SanitizeIs
<1>7. Sanitize(<<>>, out) = [out |-> out, carry |-> <<>>]
    BY <1>3, <1>5, <1>6 DEF Settled
<1> QED
    BY <1>2, <1>7 DEF out

=============================================================================
