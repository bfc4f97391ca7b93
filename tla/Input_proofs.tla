----------------------------- MODULE Input_proofs -----------------------------
(***************************************************************************)
(* What a test sends is what the application takes it for: keys, reports   *)
(* of the mouse, drags, focus and text, for every key and modifier, every  *)
(* place and every set of modes.                                           *)
(***************************************************************************)
EXTENDS InputMeaning, Sums_proofs

-----------------------------------------------------------------------------
(* Folding a sequence, step by step. *)

(* f goes through a sequence from its first element to its last. *)
Follows(f, base, step, s) ==
    /\ f[0] = base
    /\ \A n \in 1 .. Len(s) : f[n] = step[<<f[n - 1], s[n]>>]

Following(base, step, s) ==
    CHOOSE f : f = [n \in 0 .. Len(s) |-> IF n = 0 THEN base ELSE step[<<f[n - 1], s[n]>>]]

(* What it comes to at the end. *)
Folding(base, step, s) == Following(base, step, s)[Len(s)]

(* s and t begin alike, for k elements. *)
BeginAlike(s, t, k) == \A n \in 1 .. k : s[n] = t[n]

(* There is such a function. *)
LEMMA FollowingIs ==
    ASSUME NEW E, NEW s \in Seq(E), NEW base, NEW step
    PROVE  Follows(Following(base, step, s), base, step, s)
<1> DEFINE Is(f, m) == f = [n \in 0 .. m |-> IF n = 0 THEN base ELSE step[<<f[n - 1], s[n]>>]]
           S == {m \in 0 .. Len(s) : \E f : Is(f, m)}
<1>1. Len(s) \in Nat
    OBVIOUS
<1>2. 0 \in S
    <2> DEFINE f == [n \in 0 .. 0 |-> base]
    <2>1. f = [n \in 0 .. 0 |-> IF n = 0 THEN base ELSE step[<<f[n - 1], s[n]>>]]
        OBVIOUS
    <2> HIDE DEF f
    <2>2. Is(f, 0)
        BY <2>1
    <2> QED
        BY <1>1, <2>2
<1>3. ASSUME NEW k \in 1 .. Len(s), k - 1 \in S PROVE k \in S
    <2>1. PICK g : Is(g, k - 1)
        BY <1>3
    <2> DEFINE f == [n \in 0 .. k |-> IF n = k THEN step[<<g[k - 1], s[k]>>] ELSE g[n]]
    <2>2. \A n \in 0 .. k - 1 : n \in 0 .. k /\ f[n] = g[n]
        BY <1>1
    <2>3. \A n \in 0 .. k : f[n] = IF n = 0 THEN base ELSE step[<<f[n - 1], s[n]>>]
        <3> TAKE n \in 0 .. k
        <3>1. CASE n = k
            <4>1. k - 1 \in 0 .. k - 1 /\ k # 0
                BY <1>1
            <4> QED
                BY <2>2, <3>1, <4>1
        <3>2. CASE n # k
            <4>1. n \in 0 .. k - 1 /\ (n # 0 => n - 1 \in 0 .. k - 1)
                BY <1>1, <3>2
            <4>2. g[n] = IF n = 0 THEN base ELSE step[<<g[n - 1], s[n]>>]
                BY <2>1, <4>1
            <4> QED
                BY <2>2, <4>1, <4>2
        <3> QED
            BY <3>1, <3>2
    <2>4. f = [n \in 0 .. k |-> f[n]]
        OBVIOUS
    <2> HIDE DEF f
    <2>5. Is(f, k)
        BY <2>3, <2>4
    <2> QED
        BY <1>1, <2>5
<1> HIDE DEF S
<1>4. Len(s) \in S
    <2>1. \A k \in 0 .. Len(s) : k \in S
        BY <1>1, <1>2, <1>3, UpTo
    <2> QED
        BY <1>1, <2>1
<1>5. \E f : Is(f, Len(s))
    BY <1>4 DEF S
<1>6. Is(Following(base, step, s), Len(s))
    BY <1>5, Zenon DEF Following
<1> DEFINE f == Following(base, step, s)
<1>7. \A n \in 0 .. Len(s) : f[n] = IF n = 0 THEN base ELSE step[<<f[n - 1], s[n]>>]
    BY <1>6
<1> HIDE DEF f, Is, S
<1>8. f[0] = base
    <2>1. 0 \in 0 .. Len(s)
        BY <1>1
    <2> QED
        BY <1>7, <2>1
<1>9. \A n \in 1 .. Len(s) : f[n] = step[<<f[n - 1], s[n]>>]
    BY <1>1, <1>7
<1> QED
    BY <1>8, <1>9 DEF Follows, f

(* It is told by what it goes through. *)
LEMMA FollowsOnce ==
    ASSUME NEW E, NEW s \in Seq(E), NEW t \in Seq(E), NEW base, NEW step, NEW f, NEW g,
           Follows(f, base, step, s), Follows(g, base, step, t),
           NEW k \in Nat, k <= Len(s), k <= Len(t), BeginAlike(s, t, k)
    PROVE  f[k] = g[k]
<1> DEFINE S == {n \in 0 .. k : f[n] = g[n]}
<1>1. 0 \in S
    BY DEF Follows
<1>2. ASSUME NEW n \in 1 .. k, n - 1 \in S PROVE n \in S
    <2>1. n \in 1 .. Len(s) /\ n \in 1 .. Len(t) /\ s[n] = t[n] /\ n \in 0 .. k
        BY DEF BeginAlike
    <2>2. f[n - 1] = g[n - 1]
        BY <1>2
    <2>3. f[n] = step[<<f[n - 1], s[n]>>] /\ g[n] = step[<<g[n - 1], t[n]>>]
        BY <2>1 DEF Follows
    <2> QED
        BY <2>1, <2>2, <2>3
<1>3. k \in 0 .. k
    OBVIOUS
<1> HIDE DEF S
<1>4. k \in S
    BY <1>1, <1>2, <1>3, UpTo
<1> QED
    BY <1>4 DEF S

(* Nothing comes to the base, and one more element takes one more step. *)
LEMMA FoldingNone ==
    ASSUME NEW base, NEW step
    PROVE  Folding(base, step, <<>>) = base
<1>1. <<>> \in Seq({}) /\ Len(<<>>) = 0
    OBVIOUS
<1>2. Follows(Following(base, step, <<>>), base, step, <<>>)
    BY <1>1, FollowingIs
<1> QED
    BY <1>1, <1>2 DEF Folding, Follows

(* Folding one more element is one more step. *)
LEMMA FoldingMore ==
    ASSUME NEW E, NEW base, NEW step, NEW s \in Seq(E), NEW c \in E
    PROVE  Folding(base, step, Append(s, c)) = step[<<Folding(base, step, s), c>>]
<1> DEFINE t == Append(s, c)
           f == Following(base, step, t)
           g == Following(base, step, s)
           n == Len(s)
<1>1. t \in Seq(E) /\ n \in Nat /\ Len(t) = n + 1 /\ t[n + 1] = c /\ \A i \in 1 .. n : t[i] = s[i]
    OBVIOUS
<1>2. Follows(f, base, step, t) /\ Follows(g, base, step, s)
    BY <1>1, FollowingIs
<1> HIDE DEF t, f, g, n
<1>3. BeginAlike(t, s, n) /\ n <= Len(t) /\ n <= Len(s)
    BY <1>1 DEF BeginAlike, n
<1>4. f[n] = g[n]
    BY <1>1, <1>2, <1>3, FollowsOnce
<1>5. n + 1 \in 1 .. Len(t) /\ (n + 1) - 1 = n
    BY <1>1
<1>6. f[n + 1] = step[<<f[n], c>>]
    <2>1. f[n + 1] = step[<<f[(n + 1) - 1], t[n + 1]>>]
        BY <1>2, <1>5 DEF Follows
    <2> QED
        BY <1>1, <1>5, <2>1
<1> QED
    BY <1>1, <1>4, <1>6 DEF Folding, t, f, g, n

(* One that steps as step does as long as it keeps to V comes to the same. *)
Keeps(f, V, base, step, s) ==
    /\ f[0] = base
    /\ \A n \in 1 .. Len(s) : f[n - 1] \in V => f[n] = step[<<f[n - 1], s[n]>>]

ComesTo(f, s, x) == f[Len(s)] = x

(* A function that goes by the steps stays in what they keep, and is the fold on the way. *)
LEMMA FoldingKeeps ==
    ASSUME NEW E, NEW V, NEW s \in Seq(E), NEW base \in V, NEW step \in [V \X E -> V], NEW f,
           Keeps(f, V, base, step, s)
    PROVE  /\ \A n \in 0 .. Len(s) : f[n] \in V
           /\ Follows(f, base, step, s)
<1> DEFINE N == Len(s)
           S == {n \in 0 .. N : f[n] \in V}
<1>1. N \in Nat
    OBVIOUS
<1>2. 0 \in S
    BY <1>1 DEF Keeps
<1>3. ASSUME NEW n \in 1 .. N, n - 1 \in S PROVE n \in S
    <2>1. n \in 0 .. N /\ n \in 1 .. Len(s) /\ s[n] \in E
        BY <1>1
    <2>2. f[n - 1] \in V
        BY <1>3
    <2>3. f[n] = step[<<f[n - 1], s[n]>>]
        BY <2>1, <2>2 DEF Keeps
    <2> QED
        BY <2>1, <2>2, <2>3
<1> HIDE DEF S
<1>4. \A n \in 0 .. N : n \in S
    BY <1>1, <1>2, <1>3, UpTo
<1>5. \A n \in 0 .. N : f[n] \in V
    BY <1>4 DEF S
<1>6. Follows(f, base, step, s)
    <2>1. \A n \in 1 .. Len(s) : n - 1 \in 0 .. N
        BY <1>1
    <2> QED
        BY <1>5, <2>1 DEF Follows, Keeps
<1> QED
    BY <1>5, <1>6

(* There is one such function: it ends at the fold. *)
LEMMA FoldingIs ==
    ASSUME NEW E, NEW V, NEW s \in Seq(E), NEW base \in V, NEW step \in [V \X E -> V], NEW f,
           Keeps(f, V, base, step, s)
    PROVE  ComesTo(f, s, Folding(base, step, s))
<1> DEFINE N == Len(s)
<1>1. N \in Nat
    OBVIOUS
<1>2. Follows(f, base, step, s)
    BY FoldingKeeps
<1>3. Follows(Following(base, step, s), base, step, s)
    BY FollowingIs
<1>4. BeginAlike(s, s, N) /\ N <= N
    BY <1>1 DEF BeginAlike
<1>5. f[N] = Following(base, step, s)[N]
    BY <1>1, <1>2, <1>3, <1>4, FollowsOnce
<1> QED
    BY <1>5 DEF Folding, ComesTo

(* The function that Folding goes by, as one over its domain. *)
LEMMA FollowingType ==
    ASSUME NEW E, NEW V, NEW s \in Seq(E), NEW base \in V, NEW step \in [V \X E -> V]
    PROVE  \E f : /\ f \in [0 .. Len(s) -> V]
                  /\ Follows(f, base, step, s)
<1> DEFINE g == Following(base, step, s)
           f == [n \in 0 .. Len(s) |-> g[n]]
<1>1. Follows(g, base, step, s)
    BY FollowingIs
<1>2. Keeps(g, V, base, step, s)
    BY <1>1 DEF Follows, Keeps
<1>3. \A n \in 0 .. Len(s) : g[n] \in V
    BY <1>2, FoldingKeeps
<1> HIDE DEF g
<1>4. f \in [0 .. Len(s) -> V]
    BY <1>3
<1>5. Follows(f, base, step, s)
    <2>1. Len(s) \in Nat /\ 0 \in 0 .. Len(s) /\ \A n \in 1 .. Len(s) : n \in 0 .. Len(s) /\ n - 1 \in 0 .. Len(s)
        OBVIOUS
    <2>2. f[0] = g[0] /\ \A n \in 1 .. Len(s) : f[n] = g[n] /\ f[n - 1] = g[n - 1]
        BY <2>1
    <2> HIDE DEF f
    <2> QED
        BY <1>1, <2>2 DEF Follows
<1> QED
    BY <1>4, <1>5

-----------------------------------------------------------------------------
(* Consuming a sequence, piece by piece. *)

(* What is behind the first n elements. *)
Onward(q, n) == SubSeq(q, n + 1, Len(q))

(* The place n elements further, or behind all of them. *)
Later(q, i, n) == IF i + n <= Len(q) THEN i + n ELSE Len(q) + 1

(* f takes what a sequence begins with, and goes on behind that. *)
Goes(f, next, q) ==
    /\ f[Len(q) + 1] = <<>>
    /\ \A i \in 1 .. Len(q) :
          f[i] = next[SubSeq(q, i, Len(q))].out \o f[Later(q, i, next[SubSeq(q, i, Len(q))].length)]

Going(next, q) ==
    CHOOSE f : f = [i \in 1 .. Len(q) + 1 |->
                       IF i = Len(q) + 1 THEN <<>>
                       ELSE next[SubSeq(q, i, Len(q))].out
                                \o f[Later(q, i, next[SubSeq(q, i, Len(q))].length)]]

Consuming(next, q) == Going(next, q)[1]

(* What may be taken: at least one element at a time. *)
Takes(E, V) == [Seq(E) -> [out : Seq(V), length : Nat \ {0}]]

(* At every place there is something left, and it goes on behind it. *)
LEMMA LaterIsLater ==
    ASSUME NEW E, NEW V, NEW next \in Takes(E, V), NEW q \in Seq(E), NEW i \in 1 .. Len(q)
    PROVE  /\ SubSeq(q, i, Len(q)) \in Seq(E)
           /\ next[SubSeq(q, i, Len(q))].out \in Seq(V)
           /\ next[SubSeq(q, i, Len(q))].length \in Nat \ {0}
           /\ Later(q, i, next[SubSeq(q, i, Len(q))].length) \in i + 1 .. Len(q) + 1
<1> DEFINE p == SubSeq(q, i, Len(q))
           n == next[p].length
<1>1. p \in Seq(E)
    OBVIOUS
<1> HIDE DEF p
<1>2. next[p] \in [out : Seq(V), length : Nat \ {0}]
    BY <1>1 DEF Takes
<1>3. next[p].out \in Seq(V) /\ n \in Nat \ {0}
    BY <1>2
<1> HIDE DEF n
<1>4. Later(q, i, n) \in i + 1 .. Len(q) + 1
    BY <1>3 DEF Later
<1> QED
    BY <1>1, <1>3, <1>4 DEF p, n

(* There is such a function. *)
LEMMA GoingIs ==
    ASSUME NEW E, NEW V, NEW next \in Takes(E, V), NEW q \in Seq(E)
    PROVE  Goes(Going(next, q), next, q)
<1> DEFINE N == Len(q)
           Out(i) == next[SubSeq(q, i, Len(q))].out
           To(i) == Later(q, i, next[SubSeq(q, i, Len(q))].length)
           Is(f, lo) == f = [i \in lo .. N + 1 |-> IF i = N + 1 THEN <<>> ELSE Out(i) \o f[To(i)]]
           S == {j \in 0 .. N : \E f : Is(f, N + 1 - j)}
<1>1. N \in Nat
    OBVIOUS
<1>2. \A i \in 1 .. N : To(i) \in i + 1 .. N + 1
    BY LaterIsLater
<1> HIDE DEF N, To, Out
<1>3. 0 \in S
    <2> DEFINE f == [i \in N + 1 .. N + 1 |-> <<>>]
    <2>1. f = [i \in N + 1 .. N + 1 |-> IF i = N + 1 THEN <<>> ELSE Out(i) \o f[To(i)]]
        BY <1>1
    <2> HIDE DEF f
    <2>2. Is(f, N + 1)
        BY <2>1
    <2>3. N + 1 - 0 = N + 1 /\ 0 \in 0 .. N
        BY <1>1
    <2> HIDE DEF Is
    <2> QED
        BY <2>2, <2>3
<1>4. ASSUME NEW k \in 1 .. N, k - 1 \in S PROVE k \in S
    <2> DEFINE lo == N + 1 - k
    <2>1. lo \in 1 .. N /\ N + 1 - (k - 1) = lo + 1 /\ k \in 0 .. N
        BY <1>1
    <2>2. PICK g : Is(g, lo + 1)
        BY <1>4, <2>1
    <2> DEFINE f == [i \in lo .. N + 1 |-> IF i = lo THEN Out(lo) \o g[To(lo)] ELSE g[i]]
    <2> HIDE DEF lo
    <2>3. \A i \in lo + 1 .. N + 1 : i \in lo .. N + 1 /\ f[i] = g[i]
        BY <1>1, <2>1
    <2>4. \A i \in lo .. N + 1 : f[i] = IF i = N + 1 THEN <<>> ELSE Out(i) \o f[To(i)]
        <3> TAKE i \in lo .. N + 1
        <3>1. CASE i = lo
            <4>1. i # N + 1 /\ To(i) \in lo + 1 .. N + 1
                BY <1>1, <1>2, <2>1, <3>1
            <4>2. f[i] = Out(i) \o g[To(i)]
                BY <3>1
            <4> QED
                BY <2>3, <4>1, <4>2
        <3>2. CASE i # lo
            <4>1. i \in lo + 1 .. N + 1
                BY <1>1, <2>1, <3>2
            <4>2. g[i] = IF i = N + 1 THEN <<>> ELSE Out(i) \o g[To(i)]
                BY <2>2, <4>1
            <4>3. i # N + 1 => To(i) \in lo + 1 .. N + 1
                <5> SUFFICES ASSUME i # N + 1 PROVE To(i) \in lo + 1 .. N + 1
                    OBVIOUS
                <5>1. i \in 1 .. N
                    BY <1>1, <2>1, <4>1
                <5>2. To(i) \in i + 1 .. N + 1
                    BY <1>2, <5>1
                <5> QED
                    BY <1>1, <2>1, <4>1, <5>2
            <4>4. f[i] = g[i] /\ (i # N + 1 => f[To(i)] = g[To(i)])
                BY <2>3, <4>1, <4>3
            <4> QED
                BY <4>2, <4>4
        <3> QED
            BY <3>1, <3>2
    <2>5. f = [i \in lo .. N + 1 |-> f[i]]
        OBVIOUS
    <2> HIDE DEF f
    <2>6. Is(f, lo)
        BY <2>4, <2>5
    <2> HIDE DEF Is
    <2>7. \E h : Is(h, N + 1 - k)
        BY <2>6 DEF lo
    <2> QED
        BY <2>1, <2>7
<1> HIDE DEF S
<1>5. \A k \in 0 .. N : k \in S
    BY <1>1, <1>3, <1>4, UpTo
<1>6. \E f : Is(f, 1)
    <2>1. N \in S /\ N + 1 - N = 1
        BY <1>1, <1>5
    <2> HIDE DEF Is
    <2>2. \E f : Is(f, N + 1 - N)
        BY <2>1 DEF S
    <2> QED
        BY <2>1, <2>2
<1>7. Is(Going(next, q), 1)
    BY <1>6, Zenon DEF Going, N, To, Out
<1> DEFINE f == Going(next, q)
<1>8. \A i \in 1 .. N + 1 : f[i] = IF i = N + 1 THEN <<>> ELSE Out(i) \o f[To(i)]
    BY <1>7
<1> HIDE DEF f, Is
<1>9. f[N + 1] = <<>>
    <2>1. N + 1 \in 1 .. N + 1
        BY <1>1
    <2> QED
        BY <1>8, <2>1
<1>10. \A i \in 1 .. N : f[i] = Out(i) \o f[To(i)]
    <2>1. \A i \in 1 .. N : i \in 1 .. N + 1 /\ i # N + 1
        BY <1>1
    <2> QED
        BY <1>8, <2>1
<1> QED
    BY <1>9, <1>10, Zenon DEF Goes, f, N, To, Out

(* The end of a sequence: r is what is behind its first k elements. *)
EndsIn(q, k, r) ==
    /\ Len(r) = Len(q) - k
    /\ \A i \in 1 .. Len(r) : r[i] = q[k + i]

(* What is left of a sequence after some of it. *)
LEMMA OnwardProperties ==
    ASSUME NEW E, NEW q \in Seq(E), NEW k \in 0 .. Len(q)
    PROVE  Onward(q, k) \in Seq(E) /\ Len(Onward(q, k)) = Len(q) - k /\ EndsIn(q, k, Onward(q, k))
<1> DEFINE r == Onward(q, k)
<1>1. r \in Seq(E) /\ Len(r) = Len(q) - k
    BY CutAndRejoin DEF Onward
<1>2. ASSUME NEW i \in 1 .. Len(r) PROVE r[i] = q[k + i]
    <2>1. i \in 1 .. Len(q) - k
        BY <1>1
    <2>2. r[i] = q[(k + 1) + i - 1] /\ (k + 1) + i - 1 = k + i
        BY <2>1 DEF Onward
    <2> QED
        BY <2>2
<1> HIDE DEF r
<1>3. EndsIn(q, k, r)
    BY <1>1, <1>2 DEF EndsIn
<1> QED
    BY <1>1, <1>3 DEF r

(* The end of the end. *)
LEMMA EndOfTheEnd ==
    ASSUME NEW E, NEW q \in Seq(E), NEW k \in 0 .. Len(q), NEW r \in Seq(E), EndsIn(q, k, r),
           NEW lo \in 1 .. Len(r)
    PROVE  SubSeq(q, k + lo, Len(q)) = SubSeq(r, lo, Len(r))
<1> DEFINE n == Len(q)
           m == Len(r)
           h == k + lo
           a == SubSeq(q, h, n)
           b == SubSeq(r, lo, m)
<1>1. n \in Nat /\ m \in Nat /\ k \in Nat /\ k =< n /\ m = n - k /\ lo \in 1 .. m
    BY DEF EndsIn
<1>2. h \in 1 .. n /\ n + 1 - h = m + 1 - lo /\ h = k + lo
    <2> HIDE DEF n, m
    <2> QED
        BY <1>1
<1> HIDE DEF h
<1>3. a \in Seq(E) /\ Len(a) = n + 1 - h /\ \A i \in 1 .. n + 1 - h : a[i] = q[h + i - 1]
    BY <1>1, <1>2
<1>4. b \in Seq(E) /\ Len(b) = m + 1 - lo /\ \A i \in 1 .. m + 1 - lo : b[i] = r[lo + i - 1]
    BY <1>1
<1>5. \A i \in 1 .. m : r[i] = q[k + i]
    BY DEF EndsIn
<1> HIDE DEF a, b, n, m
<1>6. ASSUME NEW i \in 1 .. m + 1 - lo PROVE a[i] = b[i]
    <2>1. lo + i - 1 \in 1 .. m /\ k + (lo + i - 1) = h + i - 1 /\ i \in 1 .. n + 1 - h
        BY <1>1, <1>2
    <2> QED
        BY <1>3, <1>4, <1>5, <2>1
<1>7. a = b
    BY <1>2, <1>3, <1>4, <1>6, SeqEqual
<1> QED
    BY <1>7 DEF a, b, n, m, h

(* What it makes of the end it makes of the end alone. *)
LEMMA GoesShift ==
    ASSUME NEW E, NEW V, NEW next \in Takes(E, V), NEW q \in Seq(E), NEW k \in 0 .. Len(q),
           NEW r \in Seq(E), EndsIn(q, k, r), NEW f, NEW g, Goes(f, next, q), Goes(g, next, r)
    PROVE  f[k + 1] = g[1]
<1> DEFINE n == Len(q)
           m == Len(r)
           S == {j \in 0 .. m : \A i \in m + 1 - j .. m + 1 : f[k + i] = g[i]}
<1>1. n \in Nat /\ k \in Nat /\ k =< n /\ m \in Nat /\ m = n - k
    BY DEF EndsIn
<1>2. 0 \in S
    <2>1. k + (m + 1) = n + 1 /\ 0 \in 0 .. m /\ \A i \in m + 1 - 0 .. m + 1 : i = m + 1
        BY <1>1
    <2>2. f[n + 1] = <<>> /\ g[m + 1] = <<>>
        BY DEF Goes
    <2> QED
        BY <2>1, <2>2
<1>3. ASSUME NEW l \in 1 .. m, l - 1 \in S PROVE l \in S
    <2> DEFINE lo == m + 1 - l
               h == k + lo
               p == SubSeq(r, lo, Len(r))
               d == next[p].length
    <2> HIDE DEF n, m
    <2>1. lo \in 1 .. m /\ h \in 1 .. n /\ m + 1 - (l - 1) = lo + 1 /\ l \in 0 .. m /\ h = k + lo
        BY <1>1
    <2>2. \A i \in lo + 1 .. m + 1 : f[k + i] = g[i]
        BY <1>3, <2>1
    <2> HIDE DEF lo, h
    <2>3. SubSeq(q, h, Len(q)) = p
        BY <1>1, <2>1, EndOfTheEnd DEF n, m
    <2>4. d \in Nat \ {0}
        BY <2>1, LaterIsLater DEF m
    <2>5. f[h] = next[p].out \o f[Later(q, h, d)] /\ g[lo] = next[p].out \o g[Later(r, lo, d)]
        BY <2>1, <2>3 DEF Goes, n, m
    <2> HIDE DEF p, d
    <2>6. Later(r, lo, d) \in lo + 1 .. m + 1 /\ Later(q, h, d) = k + Later(r, lo, d)
        <3>1. Later(r, lo, d) = (IF lo + d <= m THEN lo + d ELSE m + 1)
            BY DEF Later, m
        <3>2. Later(q, h, d) = (IF h + d <= n THEN h + d ELSE n + 1)
            BY DEF Later, n
        <3> QED
            BY <1>1, <2>1, <2>4, <3>1, <3>2
    <2>7. f[h] = g[lo]
        BY <2>2, <2>5, <2>6
    <2>8. \A i \in lo .. m + 1 : i = lo \/ i \in lo + 1 .. m + 1
        BY <1>1, <2>1
    <2>9. \A i \in lo .. m + 1 : f[k + i] = g[i]
        BY <2>1, <2>2, <2>7, <2>8
    <2> QED
        BY <2>1, <2>9 DEF lo, m
<1> HIDE DEF S
<1>4. \A l \in 0 .. m : l \in S
    BY <1>1, <1>2, <1>3, UpTo
<1>5. m \in S /\ m + 1 - m = 1 /\ 1 \in 1 .. m + 1
    BY <1>1, <1>4
<1> QED
    BY <1>5 DEF S

(* Whatever goes as next says makes the same of it. *)
LEMMA ConsumingIs ==
    ASSUME NEW E, NEW V, NEW next \in Takes(E, V), NEW q \in Seq(E), NEW f, Goes(f, next, q)
    PROVE  f[1] = Consuming(next, q)
<1>1. Goes(Going(next, q), next, q)
    BY GoingIs
<1>2. EndsIn(q, 0, q) /\ 0 \in 0 .. Len(q) /\ 0 + 1 = 1
    BY DEF EndsIn
<1>3. f[0 + 1] = Going(next, q)[1]
    BY <1>1, <1>2, GoesShift
<1> QED
    BY <1>2, <1>3 DEF Consuming

(* It makes nothing of nothing, and else what is taken first, and then what it
   makes of the rest. *)
LEMMA ConsumingNext ==
    ASSUME NEW E, NEW V, NEW next \in Takes(E, V)
    PROVE  /\ Consuming(next, <<>>) = <<>>
           /\ \A q \in Seq(E) : q # <<>> =>
                 Consuming(next, q) = next[q].out \o Consuming(next, Onward(q, next[q].length))
<1>1. Consuming(next, <<>>) = <<>>
    <2>1. <<>> \in Seq(E) /\ Len(<<>>) = 0
        OBVIOUS
    <2>2. Goes(Going(next, <<>>), next, <<>>)
        BY <2>1, GoingIs
    <2>3. Going(next, <<>>)[0 + 1] = <<>>
        BY <2>1, <2>2 DEF Goes
    <2> QED
        BY <2>3 DEF Consuming
<1>2. ASSUME NEW q \in Seq(E), q # <<>>
      PROVE  Consuming(next, q) = next[q].out \o Consuming(next, Onward(q, next[q].length))
    <2> DEFINE n == Len(q)
               d == next[q].length
               k == IF d <= n THEN d ELSE n
               r == Onward(q, d)
               f == Going(next, q)
               g == Going(next, r)
    <2>1. n \in Nat \ {0} /\ 1 \in 1 .. n /\ SubSeq(q, 1, n) = q
        BY <1>2
    <2>2. d \in Nat \ {0}
        BY <2>1, LaterIsLater
    <2> HIDE DEF n, d
    <2>3. k \in 0 .. n /\ Later(q, 1, d) = k + 1
        <3>1. Later(q, 1, d) = (IF 1 + d <= n THEN 1 + d ELSE n + 1)
            BY DEF Later, n
        <3> QED
            BY <2>1, <2>2, <3>1
    <2>4. r = Onward(q, k)
        <3>1. CASE d <= n
            BY <3>1
        <3>2. CASE ~ d <= n
            <4>1. d + 1 > n /\ n + 1 > n /\ k = n
                BY <2>1, <2>2, <3>2
            <4>2. SubSeq(q, d + 1, n) = <<>> /\ SubSeq(q, n + 1, n) = <<>>
                BY <2>1, <2>2, <4>1
            <4> QED
                BY <4>1, <4>2 DEF Onward, n
        <3> QED
            BY <3>1, <3>2
    <2> HIDE DEF r, k
    <2>5. r \in Seq(E) /\ EndsIn(q, k, r)
        BY <2>3, <2>4, OnwardProperties DEF n
    <2>6. Goes(f, next, q) /\ Goes(g, next, r)
        BY <2>5, GoingIs
    <2> HIDE DEF f, g
    <2>7. f[k + 1] = g[1]
        BY <2>3, <2>5, <2>6, GoesShift DEF n
    <2>8. f[1] = next[q].out \o f[Later(q, 1, d)]
        BY <2>1, <2>6 DEF Goes, n, d
    <2> QED
        BY <2>3, <2>7, <2>8 DEF Consuming, f, g, r, d
<1> QED
    BY <1>1, <1>2

(* It makes a sequence of V. *)
LEMMA ConsumingType ==
    ASSUME NEW E, NEW V, NEW next \in Takes(E, V), NEW q \in Seq(E)
    PROVE  Consuming(next, q) \in Seq(V)
<1> DEFINE N == Len(q)
           S == {n \in 0 .. N : \A p \in Seq(E) : Len(p) <= n => Consuming(next, p) \in Seq(V)}
<1>1. N \in Nat
    OBVIOUS
<1>2. 0 \in S
    <2>1. \A p \in Seq(E) : Len(p) <= 0 => p = <<>>
        OBVIOUS
    <2>2. Consuming(next, <<>>) = <<>>
        BY ConsumingNext
    <2>3. <<>> \in Seq(V)
        OBVIOUS
    <2> QED
        BY <1>1, <2>1, <2>2, <2>3
<1>3. ASSUME NEW k \in 1 .. N, k - 1 \in S PROVE k \in S
    <2> SUFFICES ASSUME NEW p \in Seq(E), Len(p) <= k PROVE Consuming(next, p) \in Seq(V)
        BY <1>1
    <2>1. CASE p = <<>>
        <3>1. Consuming(next, p) = <<>>
            BY <2>1, ConsumingNext
        <3> QED
            BY <3>1
    <2>2. CASE p # <<>>
        <3> DEFINE d == next[p].length
                   r == Onward(p, d)
        <3>1. 1 \in 1 .. Len(p) /\ SubSeq(p, 1, Len(p)) = p
            BY <2>2
        <3>2. next[p].out \in Seq(V) /\ d \in Nat \ {0}
            BY <3>1, LaterIsLater
        <3> HIDE DEF d
        <3>3. r \in Seq(E) /\ Len(r) <= k - 1
            <4>1. CASE d <= Len(p)
                <5>1. d \in 0 .. Len(p)
                    BY <3>2, <4>1
                <5>2. r \in Seq(E) /\ Len(r) = Len(p) - d
                    BY <5>1, OnwardProperties
                <5> QED
                    BY <1>1, <3>2, <5>2
            <4>2. CASE ~ d <= Len(p)
                <5>1. SubSeq(p, d + 1, Len(p)) = <<>>
                    BY <3>2, <4>2
                <5>2. r = <<>>
                    BY <5>1 DEF Onward
                <5>3. <<>> \in Seq(E) /\ Len(<<>>) = 0 /\ 0 <= k - 1
                    BY <1>1
                <5> HIDE DEF r
                <5> QED
                    BY <5>2, <5>3
            <4> QED
                BY <4>1, <4>2
        <3> HIDE DEF r
        <3>4. Consuming(next, r) \in Seq(V)
            BY <1>3, <3>3
        <3>5. Consuming(next, p) = next[p].out \o Consuming(next, r)
            BY <2>2, ConsumingNext DEF r, d
        <3> QED
            BY <3>2, <3>4, <3>5
    <2> QED
        BY <2>1, <2>2
<1>4. N \in 0 .. N /\ Len(q) <= N
    BY <1>1
<1> HIDE DEF S
<1>5. N \in S
    <2>1. \A k \in 0 .. N : k \in S
        BY <1>1, <1>2, <1>3, UpTo
    <2> QED
        BY <1>4, <2>1
<1> QED
    BY <1>4, <1>5 DEF S

-----------------------------------------------------------------------------
(* The reader of the input. *)

Bytes == Seq(Nat)

(* Putting sequences together in either order. *)
LEMMA Associates ==
    ASSUME NEW V
    PROVE  \A s, t, u \in Seq(V) : (s \o t) \o u = s \o (t \o u)
BY ConcatAssociative

(* The same of bytes. *)
LEMMA BytesAssociate == \A s, t, u \in Seq(Nat) : (s \o t) \o u = s \o (t \o u)
BY Associates, SMTT(40)

(* The character that bytes begin with takes one to four of them. *)
LEMMA CharTakes ==
    ASSUME NEW q
    PROVE  CharIn(q).length \in 1 .. 4
BY DEF CharIn

(* A sequence with a final byte ends with the first of them. *)
LEMMA FirstFinal ==
    ASSUME NEW q \in Bytes, \E j \in 3 .. Len(q) : q[j] >= 64
    PROVE  \E j \in 3 .. Len(q) : IsFinal(q, j)
<1> DEFINE T == {j \in 3 .. Len(q) : q[j] >= 64}
<1>1. T \in SUBSET Nat /\ T # {}
    BY DEF Bytes
<1> DEFINE j == Min(T)
<1>2. j \in T /\ \A k \in T : j =< k
    BY <1>1, NatMin
<1> HIDE DEF j
<1>3. ASSUME NEW k \in 3 .. j - 1 PROVE q[k] < 64
    <2>1. k \in 3 .. Len(q) /\ k < j
        BY <1>2
    <2>2. k \notin T
        BY <1>2, <2>1
    <2>3. q[k] \in Nat
        BY <2>1 DEF Bytes
    <2> QED
        BY <2>1, <2>2, <2>3
<1> QED
    BY <1>2, <1>3 DEF IsFinal

(* What a control sequence takes is a number of bytes. *)
LEMMA CsiTakes ==
    ASSUME NEW m, NEW params, NEW final, NEW after \in Bytes
    PROVE  CsiEvent(m, params, final, after).length \in Nat
<1> DEFINE closes == {j \in 1 .. Len(after) - 5 : SubSeq(after, j, j + 5) = PasteEnd}
           close == CHOOSE j \in closes : \A k \in closes : j <= k
<1>1. closes # {} => close + 5 \in Nat
    <2> SUFFICES ASSUME closes # {} PROVE close \in Nat
        OBVIOUS
    <2>1. closes \in SUBSET Nat
        BY DEF Bytes
    <2> HIDE DEF closes
    <2>2. Min(closes) \in closes /\ \A y \in closes : Min(closes) <= y
        BY <2>1, NatMin
    <2>3. close \in closes
        BY <2>2
    <2> QED
        BY <2>1, <2>3
<1> DEFINE sgr == params # <<>> /\ params[1] = 60
           numbers == NumbersIn(IF sgr THEN Tail(params) ELSE params)
           at == [col |-> numbers[2] - 1, row |-> numbers[3] - 1]
           t1 == ByButton(numbers[1], at, final = 109)
           t2 == ByButton(numbers[1] - 32, at, FALSE)
           t3 == PasteEvent(SubSeq(after, 1, close - 1))
           t4 == FocusEvent(final = 73)
           t5 == KeyByFinal(m, final, numbers)
           g1 == sgr /\ m.encoding = 1006
           g2 == ~sgr /\ Len(numbers) = 3 /\ m.encoding = 1015
           g3 == ~sgr /\ final = 126 /\ numbers = <<200>> /\ m.paste /\ closes # {}
           g4 == ~sgr /\ final \in {73, 79} /\ m.focus
<1>2. CsiEvent(m, params, final, after) =
          CASE g1 -> Taken(t1, 0) [] g2 -> Taken(t2, 0) [] g3 -> Taken(t3, close + 5)
            [] g4 -> Taken(t4, 0) [] OTHER -> Taken(t5, 0)
    BY Zenon DEF CsiEvent
<1>3. g3 => closes # {}
    OBVIOUS
<1> HIDE DEF sgr, numbers, at, t1, t2, t3, t4, t5, g1, g2, g3, g4, closes, close
<1>4. CsiEvent(m, params, final, after).length = 0 \/ (g3 /\ CsiEvent(m, params, final, after).length = close + 5)
    <2> DEFINE a == Taken(t1, 0)
               b == Taken(t2, 0)
               c == Taken(t3, close + 5)
               d == Taken(t4, 0)
               e == Taken(t5, 0)
    <2>1. a.length = 0 /\ b.length = 0 /\ c.length = close + 5 /\ d.length = 0 /\ e.length = 0
        BY DEF Taken
    <2> HIDE DEF a, b, c, d, e
    <2>2. CsiEvent(m, params, final, after) = CASE g1 -> a [] g2 -> b [] g3 -> c [] g4 -> d [] OTHER -> e
        BY <1>2, Zenon DEF a, b, c, d, e
    <2> QED
        BY <2>1, <2>2
<1> QED
    BY <1>1, <1>3, <1>4

(* Every event takes at least one byte: the reader of the input goes on. *)
LEMMA EventTakes ==
    ASSUME NEW m, NEW q \in Bytes, q # <<>>
    PROVE  EventIn(m, q).length \in Nat \ {0}
<1>1. CharIn(q).length \in Nat \ {0} /\ 1 + CharIn(Behind(q, 1)).length \in Nat \ {0}
    <2>1. \A x \in 1 .. 4 : x \in Nat \ {0} /\ 1 + x \in Nat \ {0}
        OBVIOUS
    <2> QED
        BY <2>1, CharTakes
<1>2. OldMouse(m, q).length \in Nat \ {0}
    <2>1. \A x, y \in 1 .. 4 : 4 + x + y \in Nat \ {0}
        OBVIOUS
    <2> QED
        BY <2>1, CharTakes DEF OldMouse, Taken
<1>3. ASSUME \E j \in 3 .. Len(q) : q[j] >= 64
      PROVE  CsiIn(m, q).length \in Nat \ {0}
    <2> DEFINE end == CHOOSE j \in 3 .. Len(q) : IsFinal(q, j)
    <2>1. end \in 3 .. Len(q)
        BY <1>3, FirstFinal
    <2> HIDE DEF end
    <2>2. Behind(q, end) \in Bytes
        BY <2>1 DEF Behind, Bytes
    <2>3. CsiEvent(m, SubSeq(q, 3, end - 1), q[end], Behind(q, end)).length \in Nat
        BY <2>2, CsiTakes
    <2>4. CsiIn(m, q).length = end + CsiEvent(m, SubSeq(q, 3, end - 1), q[end], Behind(q, end)).length
        BY DEF CsiIn, Taken, end
    <2> QED
        BY <2>1, <2>3, <2>4 DEF Bytes
<1>4. \/ EventIn(m, q).length \in {CharIn(q).length, 1, 3, OldMouse(m, q).length, 1 + CharIn(Behind(q, 1)).length}
      \/ (\E j \in 3 .. Len(q) : q[j] >= 64) /\ EventIn(m, q).length = CsiIn(m, q).length
    BY DEF EventIn, Taken
<1> QED
    BY <1>1, <1>2, <1>3, <1>4

(* Whatever the application may take bytes for. *)
Events(m) == {EventIn(m, q).event : q \in Bytes}

Next1(m) ==
    [q \in Bytes |-> IF q = <<>> THEN [out |-> <<>>, length |-> 1]
                     ELSE [out |-> <<EventIn(m, q).event>>, length |-> EventIn(m, q).length]]

(* Taking the next event, as a step of consuming. *)
LEMMA NextTakes ==
    ASSUME NEW m
    PROVE  Next1(m) \in Takes(Nat, Events(m))
<1>1. ASSUME NEW q \in Bytes
      PROVE  Next1(m)[q] \in [out : Seq(Events(m)), length : Nat \ {0}]
    <2>1. CASE q = <<>>
        BY <2>1 DEF Next1
    <2>2. CASE q # <<>>
        <3>1. EventIn(m, q).event \in Events(m)
            BY DEF Events
        <3>2. EventIn(m, q).length \in Nat \ {0}
            BY <2>2, EventTakes
        <3> QED
            BY <2>2, <3>1, <3>2 DEF Next1
    <2> QED
        BY <2>1, <2>2
<1> QED
    BY <1>1 DEF Takes, Bytes, Next1

(* Reading input is consuming it, event by event. *)
LEMMA EventsInIs ==
    ASSUME NEW m, NEW q \in Bytes
    PROVE  EventsIn(m, q) = Consuming(Next1(m), q)
<1> DEFINE N == Len(q)
           First(i) == EventIn(m, Behind(q, i - 1))
           Is(f) == f = [i \in 1 .. N + 1 |->
                            IF i > N THEN <<>> ELSE <<First(i).event>> \o f[Least(i + First(i).length, N + 1)]]
           c == CHOOSE f : Is(f)
           g == Going(Next1(m), q)
           h == [i \in 1 .. N + 1 |-> g[i]]
<1>1. N \in Nat /\ q \in Seq(Nat)
    BY DEF Bytes
<1>2. \A i \in 1 .. N : SubSeq(q, i, N) \in Bytes /\ SubSeq(q, i, N) # <<>> /\ Behind(q, i - 1) = SubSeq(q, i, N)
    <2> TAKE i \in 1 .. N
    <2>1. SubSeq(q, i, N) \in Bytes /\ Len(SubSeq(q, i, N)) = N + 1 - i
        BY <1>1 DEF Bytes
    <2>2. Len(SubSeq(q, i, N)) # 0
        BY <1>1, <2>1
    <2>3. (i - 1) + 1 = i
        BY <1>1
    <2>4. Behind(q, i - 1) = SubSeq(q, i, N)
        BY <2>3, Zenon DEF Behind
    <2>5. \A s : Len(s) # 0 => s # <<>>
        OBVIOUS
    <2>6. SubSeq(q, i, N) # <<>>
        BY <2>2, <2>5, Zenon
    <2> QED
        BY <2>1, <2>4, <2>6, Zenon
<1>3. \A i \in 1 .. N : /\ Next1(m)[SubSeq(q, i, N)].out = <<First(i).event>>
                        /\ Next1(m)[SubSeq(q, i, N)].length = First(i).length
    BY <1>2 DEF Next1
<1>4. \A i \in 1 .. N : /\ First(i).length \in Nat \ {0}
                        /\ Least(i + First(i).length, N + 1) = Later(q, i, First(i).length)
                        /\ Later(q, i, First(i).length) \in 1 .. N + 1
    <2> TAKE i \in 1 .. N
    <2> DEFINE n == First(i).length
    <2>1. n \in Nat \ {0}
        BY <1>2, EventTakes
    <2> HIDE DEF n, First
    <2> QED
        BY <1>1, <2>1 DEF Later, Least, n
<1>5. Goes(g, Next1(m), q)
    BY <1>1, NextTakes, GoingIs
<1> HIDE DEF g, First
<1>6. \A i \in 1 .. N : g[i] = <<First(i).event>> \o g[Later(q, i, First(i).length)]
    <2> TAKE i \in 1 .. N
    <2>1. g[i] = Next1(m)[SubSeq(q, i, N)].out \o g[Later(q, i, Next1(m)[SubSeq(q, i, N)].length)]
        BY <1>5, Zenon DEF Goes
    <2>2. Next1(m)[SubSeq(q, i, N)].out = <<First(i).event>> /\ Next1(m)[SubSeq(q, i, N)].length = First(i).length
        BY <1>3, Zenon
    <2> QED
        BY <2>1, <2>2, Zenon
<1>7. Is(h)
    <2>1. \A i \in 1 .. N + 1 : h[i] = g[i]
        OBVIOUS
    <2>2. h = [i \in 1 .. N + 1 |-> h[i]]
        OBVIOUS
    <2> HIDE DEF h
    <2>3. g[N + 1] = <<>>
        BY <1>5 DEF Goes
    <2>4. ASSUME NEW i \in 1 .. N + 1
          PROVE  h[i] = IF i > N THEN <<>> ELSE <<First(i).event>> \o h[Least(i + First(i).length, N + 1)]
        <3>1. CASE i > N
            <4>1. i = N + 1
                BY <1>1, <3>1
            <4> QED
                BY <2>1, <2>3, <3>1, <4>1
        <3>2. CASE ~ (i > N)
            <4>1. i \in 1 .. N
                BY <1>1, <3>2
            <4> QED
                BY <1>4, <1>6, <2>1, <3>2, <4>1
        <3> QED
            BY <3>1, <3>2
    <2> QED
        BY <2>2, <2>4
<1> HIDE DEF h
<1>8. Is(c)
    BY <1>7, Zenon
<1>9. Goes(c, Next1(m), q)
    <2> HIDE DEF c, N
    <2>1. \A i \in 1 .. N + 1 : c[i] = IF i > N THEN <<>> ELSE <<First(i).event>> \o c[Least(i + First(i).length, N + 1)]
        BY <1>8
    <2>2. c[N + 1] = <<>>
        <3>1. N + 1 \in 1 .. N + 1 /\ N + 1 > N
            BY <1>1
        <3> QED
            BY <2>1, <3>1
    <2>3. ASSUME NEW i \in 1 .. N
          PROVE  c[i] = <<First(i).event>> \o c[Later(q, i, First(i).length)]
        <3>1. i \in 1 .. N + 1 /\ ~ (i > N)
            BY <1>1
        <3>2. c[i] = <<First(i).event>> \o c[Least(i + First(i).length, N + 1)]
            BY <2>1, <3>1
        <3> QED
            BY <1>4, <3>2, Zenon
    <2> QED
        <3>1. ASSUME NEW i \in 1 .. N
              PROVE  c[i] = Next1(m)[SubSeq(q, i, N)].out \o c[Later(q, i, Next1(m)[SubSeq(q, i, N)].length)]
            <4>1. Next1(m)[SubSeq(q, i, N)].out = <<First(i).event>> /\ Next1(m)[SubSeq(q, i, N)].length = First(i).length
                BY <1>3, Zenon
            <4> QED
                BY <2>3, <4>1, Zenon
        <3> QED
            BY <2>2, <3>1, Zenon DEF Goes, N
<1>10. EventsIn(m, q) = c[1]
    BY Zenon DEF EventsIn, First
<1> QED
    BY <1>1, <1>9, <1>10, NextTakes, ConsumingIs

(* What is read is the first event and what is read of the rest. *)
LEMMA EventsNext ==
    ASSUME NEW m
    PROVE  /\ EventsIn(m, <<>>) = <<>>
           /\ \A q \in Bytes : q # <<>> =>
                 EventsIn(m, q) = <<EventIn(m, q).event>> \o EventsIn(m, Onward(q, EventIn(m, q).length))
           /\ \A q \in Bytes : EventsIn(m, q) \in Seq(Events(m))
<1>1. EventsIn(m, <<>>) = <<>>
    <2>1. <<>> \in Bytes
        BY DEF Bytes
    <2> QED
        <3>1. EventsIn(m, <<>>) = Consuming(Next1(m), <<>>)
            BY <2>1, EventsInIs
        <3>2. Next1(m) \in Takes(Nat, Events(m))
            BY NextTakes
        <3>3. Consuming(Next1(m), <<>>) = <<>>
            BY <3>2, ConsumingNext
        <3> QED
            BY <3>1, <3>3
<1>2. ASSUME NEW q \in Bytes, q # <<>>
      PROVE  EventsIn(m, q) = <<EventIn(m, q).event>> \o EventsIn(m, Onward(q, EventIn(m, q).length))
    <2> DEFINE n == EventIn(m, q).length
    <2>1. n \in Nat \ {0}
        BY <1>2, EventTakes
    <2>2. Next1(m)[q].out = <<EventIn(m, q).event>> /\ Next1(m)[q].length = n
        BY <1>2 DEF Next1
    <2> HIDE DEF n
    <2>3. Onward(q, n) \in Bytes
        BY <2>1 DEF Onward, Bytes
    <2>4. q \in Seq(Nat)
        BY DEF Bytes
    <2>5. Consuming(Next1(m), q) = Next1(m)[q].out \o Consuming(Next1(m), Onward(q, Next1(m)[q].length))
        BY <1>2, <2>4, NextTakes, ConsumingNext
    <2>6. EventsIn(m, q) = Consuming(Next1(m), q) /\ EventsIn(m, Onward(q, n)) = Consuming(Next1(m), Onward(q, n))
        BY <2>3, EventsInIs
    <2>7. EventsIn(m, q) = <<EventIn(m, q).event>> \o EventsIn(m, Onward(q, n))
        BY <2>2, <2>5, <2>6
    <2> QED
        BY <2>7 DEF n
<1>3. ASSUME NEW q \in Bytes PROVE EventsIn(m, q) \in Seq(Events(m))
    <2>1. q \in Seq(Nat)
        BY DEF Bytes
    <2> QED
        BY <2>1, EventsInIs, NextTakes, ConsumingType
<1> QED
    BY <1>1, <1>2, <1>3

(* The application takes w for these events, whatever follows it. *)
Reads(m, w, events) ==
    /\ w \in Bytes /\ events \in Seq(Events(m))
    /\ \A rest \in Bytes : EventsIn(m, w \o rest) = events \o EventsIn(m, rest)

(* It takes it for one event. *)
LEMMA ReadsOne ==
    ASSUME NEW m, NEW w \in Bytes, w # <<>>, NEW event,
           \A rest \in Bytes : EventIn(m, w \o rest) = Taken(event, Len(w))
    PROVE  Reads(m, w, <<event>>)
<1>1. w \o <<>> = w /\ <<>> \in Bytes
    BY DEF Bytes
<1>2. event \in Events(m)
    <2>1. EventIn(m, w) = Taken(event, Len(w))
        BY <1>1
    <2>2. EventIn(m, w).event = event
        BY <2>1 DEF Taken
    <2> QED
        BY <2>2 DEF Events
<1>3. ASSUME NEW rest \in Bytes
      PROVE  EventsIn(m, w \o rest) = <<event>> \o EventsIn(m, rest)
    <2> DEFINE q == w \o rest
    <2>1. q \in Bytes /\ q # <<>> /\ Onward(q, Len(w)) = rest
        <3>1. q \in Seq(Nat) /\ Len(q) = Len(w) + Len(rest) /\ w \in Seq(Nat) /\ rest \in Seq(Nat)
            BY DEF Bytes
        <3>2. Len(w) \in Nat /\ Len(rest) \in Nat /\ Len(w) # 0
            BY <3>1
        <3>3. q # <<>>
            BY <3>1, <3>2
        <3>4. Onward(q, Len(w)) \in Seq(Nat) /\ Len(Onward(q, Len(w))) = Len(q) - Len(w) /\ EndsIn(q, Len(w), Onward(q, Len(w)))
            <4>1. Len(w) \in 0 .. Len(q)
                BY <3>1, <3>2
            <4> QED
                BY <3>1, <4>1, OnwardProperties
        <3>5. \A i \in 1 .. Len(rest) : q[Len(w) + i] = rest[i]
            BY <3>1, <3>2, ConcatProperties
        <3>6. Len(Onward(q, Len(w))) = Len(rest)
            BY <3>1, <3>2, <3>4
        <3> HIDE DEF q
        <3>7. \A i \in 1 .. Len(rest) : Onward(q, Len(w))[i] = rest[i]
            BY <3>4, <3>5, <3>6 DEF EndsIn
        <3>8. Onward(q, Len(w)) = rest
            BY <3>1, <3>4, <3>6, <3>7, SeqEqual
        <3> QED
            BY <3>1, <3>3, <3>8 DEF Bytes
    <2>2. EventIn(m, q).event = event /\ EventIn(m, q).length = Len(w)
        BY DEF Taken
    <2> HIDE DEF q
    <2>3. EventsIn(m, q) = <<EventIn(m, q).event>> \o EventsIn(m, Onward(q, EventIn(m, q).length))
        BY <2>1, EventsNext
    <2> QED
        BY <2>1, <2>2, <2>3 DEF q
<1> QED
    BY <1>2, <1>3 DEF Reads

(* Nothing is nothing, and one input after the other. *)
LEMMA ReadsBoth ==
    ASSUME NEW m
    PROVE  /\ Reads(m, <<>>, <<>>)
           /\ \A u, v, e, f : Reads(m, u, e) /\ Reads(m, v, f) => Reads(m, u \o v, e \o f)
           /\ \A u, e : Reads(m, u, e) => EventsIn(m, u) = e
<1>1. Reads(m, <<>>, <<>>)
    <2>1. <<>> \in Bytes /\ <<>> \in Seq(Events(m))
        BY DEF Bytes
    <2>2. \A rest \in Bytes : <<>> \o rest = rest /\ <<>> \o EventsIn(m, rest) = EventsIn(m, rest)
        BY EventsNext DEF Bytes
    <2> QED
        BY <2>1, <2>2 DEF Reads
<1>2. ASSUME NEW u, NEW v, NEW e, NEW f, Reads(m, u, e), Reads(m, v, f)
      PROVE  Reads(m, u \o v, e \o f)
    <2>1. u \in Seq(Nat) /\ v \in Seq(Nat) /\ e \in Seq(Events(m)) /\ f \in Seq(Events(m))
        BY <1>2 DEF Reads, Bytes
    <2>2. u \o v \in Bytes /\ e \o f \in Seq(Events(m))
        BY <2>1, ConcatProperties DEF Bytes
    <2>3. ASSUME NEW rest \in Bytes
          PROVE  EventsIn(m, (u \o v) \o rest) = (e \o f) \o EventsIn(m, rest)
        <3>1. rest \in Seq(Nat) /\ v \o rest \in Bytes /\ EventsIn(m, rest) \in Seq(Events(m))
            BY <2>1, EventsNext, ConcatProperties DEF Bytes
        <3>2. (u \o v) \o rest = u \o (v \o rest)
            <4>1. \A s, t, x \in Seq(Nat) : (s \o t) \o x = s \o (t \o x)
                BY Associates, SMTT(40)
            <4> QED
                BY <2>1, <3>1, <4>1, Zenon
        <3>3. EventsIn(m, u \o (v \o rest)) = e \o EventsIn(m, v \o rest)
            BY <1>2, <3>1 DEF Reads
        <3>4. EventsIn(m, v \o rest) = f \o EventsIn(m, rest)
            BY <1>2 DEF Reads
        <3>5. e \o (f \o EventsIn(m, rest)) = (e \o f) \o EventsIn(m, rest)
            <4>1. \A s, t, x \in Seq(Events(m)) : (s \o t) \o x = s \o (t \o x)
                BY Associates
            <4> QED
                BY <2>1, <3>1, <4>1, Zenon
        <3> QED
            BY <3>2, <3>3, <3>4, <3>5
    <2> QED
        BY <2>2, <2>3 DEF Reads
<1>3. ASSUME NEW u, NEW e, Reads(m, u, e) PROVE EventsIn(m, u) = e
    <2>1. u \in Seq(Nat) /\ e \in Seq(Events(m)) /\ <<>> \in Bytes
        BY <1>3 DEF Reads, Bytes
    <2>2. u \o <<>> = u /\ e \o <<>> = e
        BY <2>1, ConcatEmptySeq
    <2>3. EventsIn(m, u \o <<>>) = e \o EventsIn(m, <<>>)
        BY <1>3, <2>1 DEF Reads
    <2> QED
        BY <2>2, <2>3, EventsNext
<1> QED
    BY <1>1, <1>2, <1>3

-----------------------------------------------------------------------------
(* Sequences of sequences. *)

(* f joins the sequences of ss one after the other. *)
JoinsUp(f, ss) ==
    /\ f[0] = <<>>
    /\ \A n \in 1 .. Len(ss) : f[n] = f[n - 1] \o ss[n]

Joins(V) == [p \in Seq(V) \X Seq(V) |-> p[1] \o p[2]]

(* Joining two sequences, as a step. *)
LEMMA JoinsType ==
    ASSUME NEW V
    PROVE  /\ <<>> \in Seq(V)
           /\ Joins(V) \in [Seq(V) \X Seq(V) -> Seq(V)]
           /\ \A a, b \in Seq(V) : Joins(V)[<<a, b>>] = a \o b /\ a \o b \in Seq(V)
           /\ \A ss \in Seq(Seq(V)) : \A n \in 1 .. Len(ss) : ss[n] \in Seq(V)
<1>1. <<>> \in Seq(V)
    OBVIOUS
<1>2. Joins(V) \in [Seq(V) \X Seq(V) -> Seq(V)]
    BY DEF Joins
<1>3. ASSUME NEW a \in Seq(V), NEW b \in Seq(V)
      PROVE  Joins(V)[<<a, b>>] = a \o b /\ a \o b \in Seq(V)
    <2>1. a \o b \in Seq(V)
        OBVIOUS
    <2>2. <<a, b>> \in Seq(V) \X Seq(V) /\ <<a, b>>[1] = a /\ <<a, b>>[2] = b
        OBVIOUS
    <2>3. Joins(V)[<<a, b>>] = <<a, b>>[1] \o <<a, b>>[2]
        BY <2>2, Zenon DEF Joins
    <2> QED
        BY <2>1, <2>2, <2>3, Zenon
<1>4. \A ss \in Seq(Seq(V)) : \A n \in 1 .. Len(ss) : ss[n] \in Seq(V)
    BY ElementOfSeq
<1> QED
    BY <1>1, <1>2, <1>3, <1>4

(* A function that joins up a sequence of sequences ends at their fold. *)
LEMMA JoinsUpIs ==
    ASSUME NEW V, NEW ss \in Seq(Seq(V)), NEW f, JoinsUp(f, ss)
    PROVE  /\ \A n \in 0 .. Len(ss) : f[n] \in Seq(V)
           /\ f[Len(ss)] = Folding(<<>>, Joins(V), ss)
<1>1. Keeps(f, Seq(V), <<>>, Joins(V), ss)
    <2>1. ASSUME NEW n \in 1 .. Len(ss), f[n - 1] \in Seq(V)
          PROVE  f[n] = Joins(V)[<<f[n - 1], ss[n]>>]
        <3>1. f[n] = f[n - 1] \o ss[n] /\ ss[n] \in Seq(V)
            BY JoinsType DEF JoinsUp
        <3>2. \A a, b \in Seq(V) : Joins(V)[<<a, b>>] = a \o b
            BY JoinsType
        <3> QED
            BY <2>1, <3>1, <3>2
    <2> QED
        BY <2>1 DEF Keeps, JoinsUp
<1>2. <<>> \in Seq(V) /\ Joins(V) \in [Seq(V) \X Seq(V) -> Seq(V)]
    BY JoinsType, Zenon
<1>3. \A n \in 0 .. Len(ss) : f[n] \in Seq(V)
    BY <1>1, <1>2, FoldingKeeps
<1>4. f[Len(ss)] = Folding(<<>>, Joins(V), ss)
    <2> DEFINE W == Seq(V)
               base == <<>>
               step == Joins(V)
    <2>1. ss \in Seq(W) /\ base \in W /\ step \in [W \X W -> W] /\ Keeps(f, W, base, step, ss)
        BY <1>1, <1>2, Zenon
    <2> HIDE DEF W, base, step
    <2>2. ComesTo(f, ss, Folding(base, step, ss))
        BY <2>1, FoldingIs
    <2> QED
        BY <2>2 DEF base, step, ComesTo
<1> QED
    BY <1>3, <1>4

(* Flattening is folding. *)
LEMMA FlattenIs ==
    ASSUME NEW V, NEW ss \in Seq(Seq(V))
    PROVE  FlattenSeq(ss) = Folding(<<>>, Joins(V), ss)
<1> DEFINE N == Len(ss)
<1>0. N \in Nat
    OBVIOUS
<1>1. CASE N = 0
    <2>1. ss = <<>>
        BY <1>1
    <2> HIDE DEF N
    <2>2. FlattenSeq(ss) = <<>>
        BY <1>1, <2>1 DEF FlattenSeq
    <2> QED
        BY <2>1, <2>2, FoldingNone
<1>2. CASE N # 0
    <2> DEFINE Is(f) == f = [i \in 1 .. N |-> IF i = 1 THEN ss[i] ELSE f[i - 1] \o ss[i]]
               c == CHOOSE f : Is(f)
    <2>1. FlattenSeq(ss) = c[N]
        BY <1>2, Zenon DEF FlattenSeq
    <2>2. PICK g : g \in [0 .. N -> Seq(V)] /\ Follows(g, <<>>, Joins(V), ss)
        <3>1. <<>> \in Seq(V) /\ Joins(V) \in [Seq(V) \X Seq(V) -> Seq(V)]
            BY JoinsType, Zenon
        <3> QED
            BY <3>1, FollowingType
    <2>3. g[0] = <<>> /\ \A n \in 1 .. N : g[n] = g[n - 1] \o ss[n] /\ ss[n] \in Seq(V)
        <3>1. ASSUME NEW n \in 1 .. N
              PROVE  g[n] = g[n - 1] \o ss[n] /\ ss[n] \in Seq(V)
            <4>1. g[n] = Joins(V)[<<g[n - 1], ss[n]>>] /\ n - 1 \in 0 .. N
                BY <1>0, <2>2 DEF Follows
            <4>2. ss[n] \in Seq(V) /\ g[n - 1] \in Seq(V)
                BY <2>2, <4>1, JoinsType
            <4> QED
                BY <4>1, <4>2, JoinsType, ZenonT(40)
        <3> QED
            BY <2>2, <3>1 DEF Follows
    <2> DEFINE h == [i \in 1 .. N |-> g[i]]
    <2> HIDE DEF N
    <2>4. Is(h)
        <3>1. ASSUME NEW i \in 1 .. N
              PROVE  h[i] = IF i = 1 THEN ss[i] ELSE h[i - 1] \o ss[i]
            <4>1. CASE i = 1
                <5>0. i - 1 = 0
                    BY <4>1
                <5>1. g[i] = <<>> \o ss[i] /\ ss[i] \in Seq(V)
                    BY <2>3, <5>0
                <5>2. <<>> \o ss[i] = ss[i]
                    BY <5>1
                <5> QED
                    BY <4>1, <5>1, <5>2
            <4>2. CASE i # 1
                <5>1. i - 1 \in 1 .. N
                    BY <1>0, <4>2
                <5> QED
                    BY <2>3, <4>2, <5>1
            <4> QED
                BY <4>1, <4>2
        <3>2. h = [i \in 1 .. N |-> h[i]]
            OBVIOUS
        <3> HIDE DEF h
        <3> QED
            BY <3>1, <3>2
    <2> HIDE DEF h
    <2>5. Is(c)
        BY <2>4, Zenon
    <2>6. \A i \in 1 .. N : c[i] = IF i = 1 THEN ss[i] ELSE c[i - 1] \o ss[i]
        <3> HIDE DEF c
        <3> QED
            BY <2>5
    <2> HIDE DEF c, Is
    <2> DEFINE k == [n \in 0 .. N |-> IF n = 0 THEN <<>> ELSE c[n]]
    <2>7. k[0] = <<>> /\ \A n \in 1 .. N : k[n] = c[n]
        BY <1>0
    <2>8. \A n \in 1 .. N : k[n] = k[n - 1] \o ss[n]
        <3> TAKE n \in 1 .. N
        <3>1. CASE n = 1
            <4>0. n - 1 = 0
                BY <3>1
            <4>1. ss[n] \in Seq(V) /\ n - 1 = 0
                BY <2>3, <4>0
            <4>2. <<>> \o ss[n] = ss[n]
                BY <4>1
            <4>3. c[n] = ss[n]
                BY <2>6, <3>1
            <4> HIDE DEF k
            <4> QED
                BY <2>7, <4>1, <4>2, <4>3
        <3>2. CASE n # 1
            <4>1. n - 1 \in 1 .. N
                BY <1>0, <3>2
            <4> HIDE DEF k
            <4> QED
                BY <2>6, <2>7, <3>2, <4>1
        <3> QED
            BY <3>1, <3>2
    <2> HIDE DEF k
    <2>9. JoinsUp(k, ss)
        BY <2>7, <2>8 DEF JoinsUp, N
    <2>10. k[N] = Folding(<<>>, Joins(V), ss)
        BY <2>9, JoinsUpIs DEF N
    <2>11. N \in 1 .. N
        BY <1>0, <1>2
    <2> QED
        BY <2>1, <2>7, <2>10, <2>11
<1> QED
    BY <1>1, <1>2

(* Flattening joins: as a function, and one more sequence at the end. *)
LEMMA FlattenJoins ==
    ASSUME NEW V, NEW ss \in Seq(Seq(V))
    PROVE  /\ FlattenSeq(ss) \in Seq(V)
           /\ \E f : /\ JoinsUp(f, ss) /\ f[Len(ss)] = FlattenSeq(ss)
                     /\ \A n \in 0 .. Len(ss) : f[n] \in Seq(V)
           /\ \A f : JoinsUp(f, ss) => f[Len(ss)] = FlattenSeq(ss)
<1>1. PICK g : g \in [0 .. Len(ss) -> Seq(V)] /\ Follows(g, <<>>, Joins(V), ss)
    <2>1. <<>> \in Seq(V) /\ Joins(V) \in [Seq(V) \X Seq(V) -> Seq(V)]
        BY JoinsType, Zenon
    <2> QED
        BY <2>1, FollowingType
<1>2. JoinsUp(g, ss)
    <2>1. ASSUME NEW n \in 1 .. Len(ss)
          PROVE  g[n] = g[n - 1] \o ss[n]
        <3>1. g[n] = Joins(V)[<<g[n - 1], ss[n]>>] /\ n - 1 \in 0 .. Len(ss)
            BY <1>1 DEF Follows
        <3>2. ss[n] \in Seq(V) /\ g[n - 1] \in Seq(V)
            BY <1>1, <3>1, JoinsType
        <3> QED
            BY <3>1, <3>2, JoinsType
    <2> QED
        BY <1>1, <2>1 DEF Follows, JoinsUp
<1>3. \A f : JoinsUp(f, ss) => f[Len(ss)] = FlattenSeq(ss)
    BY FlattenIs, JoinsUpIs
<1>4. Len(ss) \in 0 .. Len(ss)
    OBVIOUS
<1>5. FlattenSeq(ss) \in Seq(V)
    BY <1>1, <1>2, <1>3, <1>4
<1> QED
    BY <1>1, <1>2, <1>3, <1>5

(* Flattening nothing, one more and only one. *)
LEMMA FlattenNext ==
    ASSUME NEW V
    PROVE  /\ FlattenSeq(<<>>) = <<>>
           /\ \A ss \in Seq(Seq(V)) : FlattenSeq(ss) \in Seq(V)
           /\ \A ss \in Seq(Seq(V)), s \in Seq(V) : FlattenSeq(Append(ss, s)) = FlattenSeq(ss) \o s
           /\ \A s \in Seq(V) : FlattenSeq(<<s>>) = s
<1>1. FlattenSeq(<<>>) = <<>>
    BY DEF FlattenSeq
<1>2. \A ss \in Seq(Seq(V)) : FlattenSeq(ss) \in Seq(V)
    BY FlattenJoins
<1>3. ASSUME NEW ss \in Seq(Seq(V)), NEW s \in Seq(V)
      PROVE  FlattenSeq(Append(ss, s)) = FlattenSeq(ss) \o s
    <2>1. Append(ss, s) \in Seq(Seq(V))
        OBVIOUS
    <2>2. Folding(<<>>, Joins(V), Append(ss, s)) = Joins(V)[<<Folding(<<>>, Joins(V), ss), s>>]
        BY FoldingMore
    <2>3. FlattenSeq(ss) \in Seq(V) /\ FlattenSeq(ss) = Folding(<<>>, Joins(V), ss)
        BY <1>2, FlattenIs, Zenon
    <2>4. FlattenSeq(Append(ss, s)) = Folding(<<>>, Joins(V), Append(ss, s))
        BY <2>1, FlattenIs, Zenon
    <2>5. \A a, b \in Seq(V) : Joins(V)[<<a, b>>] = a \o b
        BY JoinsType
    <2> QED
        BY <2>2, <2>3, <2>4, <2>5
<1>4. ASSUME NEW s \in Seq(V) PROVE FlattenSeq(<<s>>) = s
    <2>1. <<s>> = Append(<<>>, s) /\ <<>> \in Seq(Seq(V))
        OBVIOUS
    <2>2. FlattenSeq(<<s>>) = FlattenSeq(<<>>) \o s
        BY <1>3, <2>1
    <2>3. <<>> \o s = s
        OBVIOUS
    <2> QED
        BY <1>1, <2>2, <2>3
<1> QED
    BY <1>1, <1>2, <1>3, <1>4

(* The elements of a sequence, each by itself. *)
LEMMA FlattenSingles ==
    ASSUME NEW V, NEW s \in Seq(V)
    PROVE  /\ [i \in DOMAIN s |-> <<s[i]>>] \in Seq(Seq(V))
           /\ FlattenSeq([i \in DOMAIN s |-> <<s[i]>>]) = s
<1> DEFINE ss == [i \in DOMAIN s |-> <<s[i]>>]
           f == [n \in 0 .. Len(s) |-> SubSeq(s, 1, n)]
<1>1. ss \in Seq(Seq(V)) /\ Len(ss) = Len(s) /\ \A i \in 1 .. Len(s) : ss[i] = <<s[i]>>
    <2>1. DOMAIN s = 1 .. Len(s) /\ Len(s) \in Nat
        OBVIOUS
    <2>2. \A i \in 1 .. Len(s) : <<s[i]>> \in Seq(V)
        OBVIOUS
    <2> QED
        BY <2>1, <2>2
<1>2. f[0] = <<>> /\ f[Len(s)] = s
    <2>1. SubSeq(s, 1, 0) = <<>> /\ SubSeq(s, 1, Len(s)) = s
        BY SubSeqFull
    <2> QED
        BY <2>1
<1>3. ASSUME NEW n \in 1 .. Len(s) PROVE f[n] = f[n - 1] \o ss[n]
    <2>1. SubSeq(s, 1, n) = SubSeq(s, 1, n - 1) \o <<s[n]>>
        BY SubSeqRecursiveSecond
    <2>2. f[n] = SubSeq(s, 1, n) /\ f[n - 1] = SubSeq(s, 1, n - 1)
        OBVIOUS
    <2> QED
        BY <1>1, <2>1, <2>2
<1> HIDE DEF f, ss
<1>4. JoinsUp(f, ss)
    BY <1>1, <1>2, <1>3 DEF JoinsUp
<1>5. FlattenSeq(ss) = s
    BY <1>1, <1>2, <1>4, FlattenJoins
<1> QED
    BY <1>1, <1>5 DEF ss

(* Inputs one after the other, each taken for its events. *)
LEMMA ReadsAll ==
    ASSUME NEW m, NEW ws \in Seq(Bytes), NEW es \in Seq(Seq(Events(m))), Len(ws) = Len(es),
           \A i \in 1 .. Len(ws) : Reads(m, ws[i], es[i])
    PROVE  Reads(m, FlattenSeq(ws), FlattenSeq(es))
<1> DEFINE N == Len(ws)
<1>1. PICK f : JoinsUp(f, ws) /\ f[Len(ws)] = FlattenSeq(ws)
    <2>1. ws \in Seq(Seq(Nat))
        BY DEF Bytes
    <2> QED
        BY <2>1, FlattenJoins
<1>2. PICK g : JoinsUp(g, es) /\ g[Len(es)] = FlattenSeq(es)
    BY FlattenJoins
<1> DEFINE S == {n \in 0 .. N : Reads(m, f[n], g[n])}
<1>3. N \in Nat
    OBVIOUS
<1>4. 0 \in S
    BY <1>1, <1>2, <1>3, ReadsBoth DEF JoinsUp
<1>5. ASSUME NEW n \in 1 .. N, n - 1 \in S PROVE n \in S
    <2>1. f[n] = f[n - 1] \o ws[n] /\ g[n] = g[n - 1] \o es[n] /\ n \in 0 .. N
        <3>1. n \in 1 .. Len(ws) /\ n \in 1 .. Len(es) /\ n \in 0 .. N
            BY <1>3
        <3> QED
            BY <1>1, <1>2, <3>1, Zenon DEF JoinsUp
    <2>2. Reads(m, f[n - 1], g[n - 1]) /\ Reads(m, ws[n], es[n])
        BY <1>5
    <2>3. Reads(m, f[n - 1] \o ws[n], g[n - 1] \o es[n])
        BY <2>2, ReadsBoth, Zenon
    <2> QED
        BY <2>1, <2>3
<1> HIDE DEF S
<1>6. N \in S
    <2>1. \A k \in 0 .. N : k \in S
        BY <1>3, <1>4, <1>5, UpTo
    <2> QED
        BY <1>3, <2>1
<1> QED
    BY <1>1, <1>2, <1>6 DEF S

-----------------------------------------------------------------------------
(* Characters and their bytes. *)

(* The bytes of a character, by its size. *)
LEMMA Utf8Cases ==
    ASSUME NEW c \in Nat
    PROVE  /\ c < 128 => Utf8Of(c) = <<c>>
           /\ c >= 128 /\ c < 2048 => Utf8Of(c) = <<192 + c \div 64, 128 + (c % 64)>>
           /\ c >= 2048 /\ c < 65536 =>
                 Utf8Of(c) = <<224 + c \div 4096, 128 + ((c \div 64) % 64), 128 + (c % 64)>>
           /\ c >= 65536 =>
                 Utf8Of(c) = <<240 + c \div 262144, 128 + ((c \div 4096) % 64),
                               128 + ((c \div 64) % 64), 128 + (c % 64)>>
<1>1. c \div 1 = c
    BY SMT
<1> QED
    BY <1>1, SMT DEF Utf8Of

(* What a character is in bytes: one below 128 itself, and others bytes of 128
   and more, that tell it. *)
LEMMA Utf8OfType ==
    ASSUME NEW c \in Char
    PROVE  /\ Utf8Of(c) \in Bytes /\ Utf8Of(c) # <<>>
           /\ c < 128 => Utf8Of(c) = <<c>>
           /\ c >= 128 => \A i \in 1 .. Len(Utf8Of(c)) : Utf8Of(c)[i] >= 128
           /\ Utf8Of(c)[1] = 27 <=> c = 27
<1>0. c \in Nat /\ c < 1114112
    BY SMT DEF Char
<1>1. CASE c < 128
    <2>1. Utf8Of(c) = <<c>>
        BY <1>0, <1>1, Utf8Cases, SMT
    <2> QED
        BY <1>0, <1>1, <2>1, SMT DEF Char, Bytes
<1>2. CASE c >= 128 /\ c < 2048
    <2> DEFINE a == 192 + c \div 64
               b == 128 + (c % 64)
    <2>1. Utf8Of(c) = <<a, b>>
        BY <1>0, <1>2, Utf8Cases, SMT
    <2>2. a \in Nat /\ b \in Nat /\ a >= 128 /\ b >= 128
        BY <1>0, <1>2, SMT
    <2> HIDE DEF a, b
    <2> QED
        BY <1>0, <1>2, <2>1, <2>2, SMT DEF Bytes
<1>3. CASE c >= 2048 /\ c < 65536
    <2> DEFINE a == 224 + c \div 4096
               b == 128 + ((c \div 64) % 64)
               d == 128 + (c % 64)
    <2>1. Utf8Of(c) = <<a, b, d>>
        BY <1>0, <1>3, Utf8Cases, SMT
    <2>2. a \in Nat /\ b \in Nat /\ d \in Nat /\ a >= 128 /\ b >= 128 /\ d >= 128
        BY <1>0, <1>3, SMT
    <2> HIDE DEF a, b, d
    <2> QED
        BY <1>0, <1>3, <2>1, <2>2, SMT DEF Bytes
<1>4. CASE c >= 65536 /\ c < 1114112
    <2> DEFINE a == 240 + c \div 262144
               b == 128 + ((c \div 4096) % 64)
               d == 128 + ((c \div 64) % 64)
               e == 128 + (c % 64)
    <2>1. Utf8Of(c) = <<a, b, d, e>>
        BY <1>0, <1>4, Utf8Cases, SMT
    <2>2. a \in Nat /\ b \in Nat /\ d \in Nat /\ e \in Nat /\ a >= 128 /\ b >= 128 /\ d >= 128 /\ e >= 128
        BY <1>0, <1>4, SMT
    <2> HIDE DEF a, b, d, e
    <2> QED
        BY <1>0, <1>4, <2>1, <2>2, SMT DEF Bytes
<1>5. c < 128 \/ (c >= 128 /\ c < 2048) \/ (c >= 2048 /\ c < 65536) \/ (c >= 65536 /\ c < 1114112)
    BY SMT DEF Char
<1> QED
    BY <1>0, <1>1, <1>2, <1>3, <1>4, <1>5, SMT

(* A sequence that begins with another one has its elements. *)
LEMMA Begins ==
    ASSUME NEW V, NEW u \in Seq(V), NEW v \in Seq(V)
    PROVE  /\ u \o v \in Seq(V) /\ Len(u \o v) = Len(u) + Len(v)
           /\ \A i \in 1 .. Len(u) : (u \o v)[i] = u[i]
           /\ \A i \in 1 .. Len(v) : (u \o v)[Len(u) + i] = v[i]
<1>1. Len(u) \in Nat /\ Len(v) \in Nat
    OBVIOUS
<1> QED
    BY <1>1, ConcatProperties

(* A character is read back from its own bytes, whatever follows. *)
LEMMA CharInUtf8 ==
    ASSUME NEW c \in Char, NEW rest \in Bytes
    PROVE  CharIn(Utf8Of(c) \o rest) = [char |-> c, length |-> Len(Utf8Of(c))]
<1> DEFINE u == Utf8Of(c)
           q == u \o rest
<1>0. u \in Seq(Nat) /\ rest \in Seq(Nat) /\ c \in Nat /\ c < 1114112
    BY Utf8OfType, SMT DEF Bytes, Char
<1>1. \A i \in 1 .. Len(u) : q[i] = u[i]
    BY <1>0, Begins, SMT
<1>2. CASE c < 128
    <2>0. Utf8Of(c) = <<c>>
        BY <1>0, <1>2, Utf8OfType, SMT
    <2>1. u = <<c>>
        BY <2>0, SMT
    <2> HIDE DEF u, q
    <2>2. q[1] = c /\ Len(u) = 1
        BY <1>1, <2>1, SMT
    <2>3. c < 192 /\ q[1] = c
        BY <1>0, <1>2, <2>2, SMT
    <2>4. CharIn(q) = [char |-> q[1], length |-> 1]
        BY <2>3, SMT DEF CharIn
    <2> QED
        BY <2>2, <2>3, <2>4, SMT DEF u, q
<1>3. CASE c >= 128 /\ c < 2048
    <2> DEFINE a == 192 + c \div 64
               b == 128 + (c % 64)
    <2>0. Utf8Of(c) = <<a, b>>
        BY <1>0, <1>3, Utf8Cases, SMT
    <2>1. u = <<a, b>>
        BY <2>0, SMT
    <2>2. a \in 192 .. 223 /\ b \in Nat /\ 64 * (a - 192) + b - 128 = c
        BY <1>0, <1>3, SMT
    <2> HIDE DEF u, q, a, b
    <2>3. q[1] = a /\ q[2] = b /\ Len(u) = 2
        BY <1>1, <2>1, SMT
    <2>4. CharIn(q) = [char |-> 64 * (a - 192) + b - 128, length |-> 2]
        BY <2>2, <2>3, SMT DEF CharIn
    <2> QED
        BY <2>2, <2>3, <2>4, SMT DEF u, q
<1>4. CASE c >= 2048 /\ c < 65536
    <2> DEFINE a == 224 + c \div 4096
               b == 128 + ((c \div 64) % 64)
               d == 128 + (c % 64)
    <2>0. Utf8Of(c) = <<a, b, d>>
        BY <1>0, <1>4, Utf8Cases, SMT
    <2>1. u = <<a, b, d>>
        BY <2>0, SMT
    <2>2. a \in 224 .. 239 /\ b \in Nat /\ d \in Nat /\ 64 * (64 * (a - 224) + b - 128) + d - 128 = c
        BY <1>0, <1>4, SMT
    <2> HIDE DEF u, q, a, b, d
    <2>3. q[1] = a /\ q[2] = b /\ q[3] = d /\ Len(u) = 3
        BY <1>1, <2>1, SMT
    <2>4. CharIn(q) = [char |-> 64 * (64 * (a - 224) + b - 128) + d - 128, length |-> 3]
        BY <2>2, <2>3, SMT DEF CharIn
    <2> QED
        BY <2>2, <2>3, <2>4, SMT DEF u, q
<1>5. CASE c >= 65536 /\ c < 1114112
    <2> DEFINE a == 240 + c \div 262144
               b == 128 + ((c \div 4096) % 64)
               d == 128 + ((c \div 64) % 64)
               e == 128 + (c % 64)
    <2>0. Utf8Of(c) = <<a, b, d, e>>
        BY <1>0, <1>5, Utf8Cases, SMT
    <2>1. u = <<a, b, d, e>>
        BY <2>0, SMT
    <2>2. a \in 240 .. 255 /\ b \in Nat /\ d \in Nat /\ e \in Nat
          /\ 64 * (64 * (64 * (a - 240) + b - 128) + d - 128) + e - 128 = c
        <3>1. c \div 4096 = 64 * (c \div 262144) + ((c \div 4096) % 64)
            BY <1>0, SMT
        <3>2. c \div 64 = 64 * (c \div 4096) + ((c \div 64) % 64)
            BY <1>0, SMT
        <3>3. c = 64 * (c \div 64) + (c % 64)
            BY <1>0, SMT
        <3>4. c \div 262144 \in 0 .. 15
            BY <1>0, SMT
        <3> QED
            BY <1>0, <3>1, <3>2, <3>3, <3>4, SMT
    <2> HIDE DEF u, q, a, b, d, e
    <2>3. q[1] = a /\ q[2] = b /\ q[3] = d /\ q[4] = e /\ Len(u) = 4
        BY <1>1, <2>1, SMT
    <2>4. CharIn(q) = [char |-> 64 * (64 * (64 * (a - 240) + b - 128) + d - 128) + e - 128, length |-> 4]
        BY <2>2, <2>3, SMT DEF CharIn
    <2> QED
        BY <2>2, <2>3, <2>4, SMT DEF u, q
<1>6. c < 128 \/ (c >= 128 /\ c < 2048) \/ (c >= 2048 /\ c < 65536) \/ (c >= 65536 /\ c < 1114112)
    BY SMT DEF Char
<1> QED
    BY <1>0, <1>2, <1>3, <1>4, <1>5, <1>6, SMT

(* A character is taken for the key it is, unless it is Esc. *)
LEMMA CharReads ==
    ASSUME NEW m, NEW c \in Char, c # 27
    PROVE  Reads(m, Utf8Of(c), <<CharEvent(c)>>)
<1>1. ASSUME NEW rest \in Bytes
      PROVE  EventIn(m, Utf8Of(c) \o rest) = Taken(CharEvent(c), Len(Utf8Of(c)))
    <2> DEFINE q == Utf8Of(c) \o rest
    <2>1. q[1] # 27
        <3>1. Utf8Of(c) \in Seq(Nat) /\ rest \in Seq(Nat) /\ Utf8Of(c) # <<>> /\ Utf8Of(c)[1] # 27
            BY Utf8OfType DEF Bytes
        <3>2. 1 \in 1 .. Len(Utf8Of(c))
            BY <3>1
        <3> QED
            BY <3>1, <3>2, Begins
    <2>2. CharIn(q).char = c /\ CharIn(q).length = Len(Utf8Of(c))
        BY CharInUtf8
    <2> HIDE DEF q
    <2>3. EventIn(m, q) = Taken(CharEvent(CharIn(q).char), CharIn(q).length)
        BY <2>1 DEF EventIn
    <2> QED
        BY <2>2, <2>3 DEF q
<1> QED
    BY <1>1, Utf8OfType, ReadsOne

(* So is a text. *)
LEMMA TextReads ==
    ASSUME NEW m, NEW text \in Seq(Char \ {27})
    PROVE  Reads(m, Utf8(text), Typed(text))
<1> DEFINE ws == [i \in DOMAIN text |-> Utf8Of(text[i])]
           es == [i \in DOMAIN text |-> <<Typed(text)[i]>>]
<1>1. DOMAIN text = 1 .. Len(text) /\ Len(text) \in Nat
    OBVIOUS
<1>2. ASSUME NEW i \in 1 .. Len(text)
      PROVE  Reads(m, Utf8Of(text[i]), <<Typed(text)[i]>>)
    <2>1. text[i] \in Char /\ text[i] # 27
        OBVIOUS
    <2>2. Typed(text)[i] = CharEvent(text[i])
        BY <1>1 DEF Typed
    <2> QED
        BY <2>1, <2>2, CharReads
<1>3. \A i \in 1 .. Len(text) : Utf8Of(text[i]) \in Bytes /\ <<Typed(text)[i]>> \in Seq(Events(m))
    BY <1>2 DEF Reads
<1>4. Len(ws) = Len(text) /\ Len(es) = Len(text) /\ ws \in Seq(Bytes) /\ es \in Seq(Seq(Events(m)))
    BY <1>1, <1>3
<1>5. \A i \in 1 .. Len(ws) : Reads(m, ws[i], es[i])
    BY <1>1, <1>2, <1>4
<1>6. Reads(m, FlattenSeq(ws), FlattenSeq(es))
    <2> HIDE DEF ws, es
    <2> QED
        BY <1>4, <1>5, ReadsAll
<1>7. FlattenSeq(es) = Typed(text)
    <2>1. Typed(text) \in Seq({Typed(text)[i] : i \in 1 .. Len(text)}) /\ DOMAIN Typed(text) = DOMAIN text
        BY <1>1 DEF Typed
    <2> QED
        BY <2>1, FlattenSingles
<1> QED
    BY <1>6, <1>7 DEF Utf8

-----------------------------------------------------------------------------
(* Numbers and their digits. *)

(* f tells the digits of the numbers up to n. *)
IsDigits(f, n) ==
    f = [k \in 0 .. n |-> IF k < 10 THEN <<48 + k>> ELSE Append(f[k \div 10], 48 + (k % 10))]

(* The digits of a number end with its remainder. *)
LEMMA DigitsAre ==
    ASSUME NEW n \in Nat, NEW f, IsDigits(f, n), NEW k \in 0 .. n
    PROVE  /\ k < 10 => f[k] = <<48 + k>>
           /\ ~ (k < 10) => f[k] = Append(f[k \div 10], 48 + (k % 10)) /\ k \div 10 \in 0 .. k - 1
<1>1. f[k] = IF k < 10 THEN <<48 + k>> ELSE Append(f[k \div 10], 48 + (k % 10))
    BY DEF IsDigits
<1>2. ~ (k < 10) => k \div 10 \in 0 .. k - 1
    OBVIOUS
<1> QED
    BY <1>1, <1>2

(* Every number has digits. *)
LEMMA DigitsExist ==
    ASSUME NEW n \in Nat
    PROVE  \E f : IsDigits(f, n)
<1> DEFINE S == {m \in 0 .. n : \E f : IsDigits(f, m)}
<1>1. 0 \in S
    <2> DEFINE f == [k \in 0 .. 0 |-> <<48 + k>>]
    <2>1. \A k \in 0 .. 0 : f[k] = IF k < 10 THEN <<48 + k>> ELSE Append(f[k \div 10], 48 + (k % 10))
        OBVIOUS
    <2>2. f = [k \in 0 .. 0 |-> f[k]]
        OBVIOUS
    <2> HIDE DEF f
    <2>3. IsDigits(f, 0)
        BY <2>1, <2>2 DEF IsDigits
    <2> QED
        BY <2>3
<1>2. ASSUME NEW m \in 1 .. n, m - 1 \in S PROVE m \in S
    <2>1. PICK g : IsDigits(g, m - 1)
        BY <1>2
    <2> DEFINE f == [k \in 0 .. m |-> IF k = m THEN (IF m < 10 THEN <<48 + m>> ELSE Append(g[m \div 10], 48 + (m % 10)))
                                      ELSE g[k]]
    <2>2. \A k \in 0 .. m - 1 : f[k] = g[k]
        OBVIOUS
    <2>3. f[m] = IF m < 10 THEN <<48 + m>> ELSE Append(g[m \div 10], 48 + (m % 10))
        OBVIOUS
    <2>4. f = [k \in 0 .. m |-> f[k]]
        OBVIOUS
    <2>5. ~ (m < 10) => m \div 10 \in 0 .. m - 1
        OBVIOUS
    <2> HIDE DEF f
    <2>6. ASSUME NEW k \in 0 .. m
          PROVE  f[k] = IF k < 10 THEN <<48 + k>> ELSE Append(f[k \div 10], 48 + (k % 10))
        <3>1. CASE k = m
            BY <2>2, <2>3, <2>5, <3>1
        <3>2. CASE k # m
            <4>1. k \in 0 .. m - 1 /\ m - 1 \in Nat
                BY <3>2
            <4>2. ~ (k < 10) => k \div 10 \in 0 .. m - 1
                BY <4>1
            <4>3. g[k] = IF k < 10 THEN <<48 + k>> ELSE Append(g[k \div 10], 48 + (k % 10))
                BY <2>1, <4>1 DEF IsDigits
            <4> QED
                BY <2>2, <4>1, <4>2, <4>3
        <3> QED
            BY <3>1, <3>2
    <2>7. IsDigits(f, m)
        BY <2>4, <2>6 DEF IsDigits
    <2> QED
        BY <2>7
<1> HIDE DEF S
<1>3. \A k \in 0 .. n : k \in S
    BY <1>1, <1>2, UpTo
<1>4. n \in S
    BY <1>3
<1> QED
    BY <1>4 DEF S

(* They are the same up to any number. *)
LEMMA DigitsAgree ==
    ASSUME NEW n \in Nat, NEW m \in Nat, NEW f, NEW g, IsDigits(f, n), IsDigits(g, m),
           NEW k \in Nat, k <= n, k <= m
    PROVE  f[k] = g[k]
<1> DEFINE S == {j \in 0 .. k : \A i \in 0 .. j : f[i] = g[i]}
<1>0. \A i \in 0 .. k : i \in 0 .. n /\ i \in 0 .. m
    OBVIOUS
<1>1. 0 \in S
    <2>1. f[0] = <<48 + 0>> /\ g[0] = <<48 + 0>>
        BY <1>0, DigitsAre
    <2> QED
        BY <2>1
<1>2. ASSUME NEW j \in 1 .. k, j - 1 \in S PROVE j \in S
    <2>1. \A i \in 0 .. j - 1 : f[i] = g[i]
        BY <1>2
    <2>2. f[j] = g[j]
        <3>1. CASE j < 10
            <4>1. f[j] = <<48 + j>> /\ g[j] = <<48 + j>>
                BY <1>0, <3>1, DigitsAre
            <4> QED
                BY <4>1
        <3>2. CASE ~ (j < 10)
            <4>0. j \in 0 .. n /\ j \in 0 .. m
                BY <1>0
            <4>1. f[j] = Append(f[j \div 10], 48 + (j % 10)) /\ j \div 10 \in 0 .. j - 1
                BY <3>2, <4>0, DigitsAre
            <4>2. g[j] = Append(g[j \div 10], 48 + (j % 10))
                BY <3>2, <4>0, DigitsAre, SMTT(40)
            <4> QED
                BY <2>1, <4>1, <4>2
        <3> QED
            BY <3>1, <3>2
    <2>3. \A i \in 0 .. j : i \in 0 .. j - 1 \/ i = j
        OBVIOUS
    <2> QED
        BY <2>1, <2>2, <2>3
<1> HIDE DEF S
<1>3. \A j \in 0 .. k : j \in S
    BY <1>1, <1>2, UpTo
<1>4. k \in S
    BY <1>3
<1> QED
    BY <1>4 DEF S

(* A number has the digits of a tenth of it and one more. *)
LEMMA DecimalNext ==
    ASSUME NEW n \in Nat
    PROVE  /\ n < 10 => Decimal(n) = <<48 + n>>
           /\ ~ (n < 10) => Decimal(n) = Append(Decimal(n \div 10), 48 + (n % 10))
<1> DEFINE Digits(k) == CHOOSE f : IsDigits(f, k)
<1>1. \A k \in Nat : IsDigits(Digits(k), k)
    BY DigitsExist
<1>2. \A k \in Nat : Decimal(k) = Digits(k)[k]
    BY Zenon DEF Decimal, IsDigits
<1> HIDE DEF Digits
<1>3. n \in 0 .. n
    OBVIOUS
<1>4. IsDigits(Digits(n), n)
    BY <1>1
<1>5. CASE n < 10
    BY <1>2, <1>3, <1>4, <1>5, DigitsAre
<1>6. CASE ~ (n < 10)
    <2> DEFINE t == n \div 10
    <2>1. t \in Nat /\ t <= n
        OBVIOUS
    <2> HIDE DEF t
    <2>2. Digits(n)[n] = Append(Digits(n)[t], 48 + (n % 10))
        BY <1>3, <1>4, <1>6, DigitsAre DEF t
    <2>3. IsDigits(Digits(t), t)
        BY <1>1, <2>1
    <2>4. Digits(n)[t] = Digits(t)[t]
        BY <1>4, <2>1, <2>3, DigitsAgree
    <2>5. Decimal(n) = Append(Decimal(t), 48 + (n % 10))
        BY <1>2, <2>1, <2>2, <2>4
    <2> QED
        BY <1>6, <2>5 DEF t
<1> QED
    BY <1>5, <1>6

(* The digits of a number are digits, and there are some. *)
LEMMA DecimalType ==
    ASSUME NEW n \in Nat
    PROVE  Decimal(n) \in Seq(48 .. 57) /\ Decimal(n) # <<>>
<1> DEFINE S == {j \in 0 .. n : \A i \in 0 .. j : Decimal(i) \in Seq(48 .. 57) /\ Decimal(i) # <<>>}
<1>1. 0 \in S
    <2>1. Decimal(0) = <<48>>
        BY DecimalNext
    <2>2. <<48>> \in Seq(48 .. 57) /\ <<48>> # <<>>
        OBVIOUS
    <2>3. 0 .. 0 = {0} /\ 0 \in 0 .. n
        OBVIOUS
    <2> QED
        BY <2>1, <2>2, <2>3
<1>2. ASSUME NEW j \in 1 .. n, j - 1 \in S PROVE j \in S
    <2>1. \A i \in 0 .. j - 1 : Decimal(i) \in Seq(48 .. 57)
        BY <1>2
    <2>2. Decimal(j) \in Seq(48 .. 57) /\ Decimal(j) # <<>>
        <3>1. CASE j < 10
            <4>0. j \in Nat /\ 48 + j \in 48 .. 57
                BY <3>1
            <4>1. Decimal(j) = <<48 + j>> /\ 48 + j \in 48 .. 57
                BY <3>1, <4>0, DecimalNext
            <4> QED
                BY <4>1
        <3>2. CASE ~ (j < 10)
            <4>0. j \in Nat /\ j \div 10 \in 0 .. j - 1
                BY <3>2
            <4>1. Decimal(j) = Append(Decimal(j \div 10), 48 + (j % 10))
                BY <3>2, <4>0, DecimalNext
            <4>2. 48 + (j % 10) \in 48 .. 57
                OBVIOUS
            <4> QED
                BY <2>1, <4>0, <4>1, <4>2, AppendProperties
        <3> QED
            BY <3>1, <3>2
    <2>3. \A i \in 0 .. j : i \in 0 .. j - 1 \/ i = j
        OBVIOUS
    <2> QED
        BY <1>2, <2>2, <2>3
<1> HIDE DEF S
<1>3. \A j \in 0 .. n : j \in S
    BY <1>1, <1>2, UpTo
<1>4. n \in S
    BY <1>3
<1> QED
    BY <1>4 DEF S

-----------------------------------------------------------------------------
(* The numbers between semicolons: one more byte. *)
NumberLists == {a \in Seq(Int) : a # <<>>}

NumberStep ==
    [p \in NumberLists \X Nat |->
        IF p[2] = 59 THEN Append(p[1], 0) ELSE Append(Front(p[1]), 10 * Last(p[1]) + p[2] - 48)]

(* Reading parameters, a byte at a time, as a step. *)
LEMMA NumberStepType ==
    /\ <<0>> \in NumberLists
    /\ \A a \in NumberLists, b \in Nat :
          /\ NumberStep[<<a, b>>] = IF b = 59 THEN Append(a, 0) ELSE Append(Front(a), 10 * Last(a) + b - 48)
          /\ NumberStep[<<a, b>>] \in NumberLists
    /\ NumberStep \in [NumberLists \X Nat -> NumberLists]
<1>1. <<0>> \in NumberLists
    <2>1. <<0>> \in Seq(Int) /\ <<0>> # <<>>
        OBVIOUS
    <2> QED
        BY <2>1 DEF NumberLists
<1>2. ASSUME NEW a \in NumberLists, NEW b \in Nat
      PROVE  (IF b = 59 THEN Append(a, 0) ELSE Append(Front(a), 10 * Last(a) + b - 48)) \in NumberLists
    <2>1. a \in Seq(Int) /\ Len(a) \in Nat /\ Len(a) # 0
        BY DEF NumberLists
    <2>2. Last(a) \in Int /\ Front(a) \in Seq(Int)
        BY <2>1 DEF Last, Front
    <2>3. 10 * Last(a) + b - 48 \in Int
        BY <2>2
    <2>4. Append(a, 0) \in NumberLists
        BY <2>1, AppendProperties DEF NumberLists
    <2> DEFINE x == 10 * Last(a) + b - 48
               f == Front(a)
    <2>5. Append(f, x) \in NumberLists
        <3> HIDE DEF x, f
        <3>1. x \in Int /\ f \in Seq(Int)
            BY <2>2, <2>3 DEF x, f
        <3> QED
            BY <3>1, AppendProperties, SMTT(40) DEF NumberLists
    <2> QED
        BY <2>4, <2>5
<1>3. ASSUME NEW a \in NumberLists, NEW b \in Nat
      PROVE  NumberStep[<<a, b>>] = IF b = 59 THEN Append(a, 0) ELSE Append(Front(a), 10 * Last(a) + b - 48)
    <2>1. <<a, b>> \in NumberLists \X Nat /\ <<a, b>>[1] = a /\ <<a, b>>[2] = b
        OBVIOUS
    <2> QED
        BY <2>1 DEF NumberStep
<1>4. NumberStep \in [NumberLists \X Nat -> NumberLists]
    <2>1. \A p \in NumberLists \X Nat :
              (IF p[2] = 59 THEN Append(p[1], 0) ELSE Append(Front(p[1]), 10 * Last(p[1]) + p[2] - 48)) \in NumberLists
        BY <1>2
    <2> QED
        BY <2>1 DEF NumberStep
<1> QED
    BY <1>1, <1>2, <1>3, <1>4

(* Reading parameters is folding them. *)
LEMMA NumbersInIs ==
    ASSUME NEW s \in Bytes
    PROVE  NumbersIn(s) = Folding(<<0>>, NumberStep, s)
<1> DEFINE Is(f) == f = [n \in 0 .. Len(s) |->
                           IF n = 0 THEN <<0>>
                           ELSE IF s[n] = 59 THEN Append(f[n - 1], 0)
                           ELSE Append(Front(f[n - 1]), 10 * Last(f[n - 1]) + s[n] - 48)]
           c == CHOOSE f : Is(f)
<1>0. s \in Seq(Nat) /\ Len(s) \in Nat /\ \A n \in 1 .. Len(s) : s[n] \in Nat
    BY DEF Bytes
<1>1. PICK g : g \in [0 .. Len(s) -> NumberLists] /\ Follows(g, <<0>>, NumberStep, s)
    BY <1>0, NumberStepType, FollowingType
<1>2. Is(g)
    <2>1. g[0] = <<0>>
        BY <1>1 DEF Follows
    <2>2. ASSUME NEW n \in 0 .. Len(s)
          PROVE  g[n] = IF n = 0 THEN <<0>>
                        ELSE IF s[n] = 59 THEN Append(g[n - 1], 0)
                        ELSE Append(Front(g[n - 1]), 10 * Last(g[n - 1]) + s[n] - 48)
        <3>1. CASE n = 0
            BY <2>1, <3>1
        <3>2. CASE n # 0
            <4>1. n \in 1 .. Len(s) /\ n - 1 \in 0 .. Len(s)
                BY <1>0, <3>2
            <4>2. g[n] = NumberStep[<<g[n - 1], s[n]>>] /\ g[n - 1] \in NumberLists /\ s[n] \in Nat
                BY <1>0, <1>1, <4>1 DEF Follows
            <4> QED
                BY <3>2, <4>2, NumberStepType
        <3> QED
            BY <3>1, <3>2
    <2>3. g = [n \in 0 .. Len(s) |-> g[n]]
        BY <1>1
    <2> QED
        BY <2>2, <2>3
<1>3. Is(c)
    BY <1>2, Zenon
<1>4. \A n \in 0 .. Len(s) : c[n] = IF n = 0 THEN <<0>>
                        ELSE IF s[n] = 59 THEN Append(c[n - 1], 0)
                        ELSE Append(Front(c[n - 1]), 10 * Last(c[n - 1]) + s[n] - 48)
    <2> HIDE DEF c
    <2> QED
        BY <1>3
<1>5. NumbersIn(s) = c[Len(s)]
    BY Zenon DEF NumbersIn
<1> HIDE DEF c, Is
<1>6. Keeps(c, NumberLists, <<0>>, NumberStep, s)
    <2>1. c[0] = <<0>>
        BY <1>0, <1>4
    <2>2. ASSUME NEW n \in 1 .. Len(s), c[n - 1] \in NumberLists
          PROVE  c[n] = NumberStep[<<c[n - 1], s[n]>>]
        <3>1. n \in 0 .. Len(s) /\ n # 0
            BY <1>0
        <3>2. c[n] = IF s[n] = 59 THEN Append(c[n - 1], 0)
                     ELSE Append(Front(c[n - 1]), 10 * Last(c[n - 1]) + s[n] - 48)
            BY <1>4, <3>1
        <3> QED
            BY <1>0, <2>2, <3>2, NumberStepType
    <2> QED
        BY <2>1, <2>2 DEF Keeps
<1>7. ComesTo(c, s, Folding(<<0>>, NumberStep, s))
    <2> DEFINE base == <<0>>
    <2>1. base \in NumberLists /\ NumberStep \in [NumberLists \X Nat -> NumberLists] /\ Keeps(c, NumberLists, base, NumberStep, s)
        BY <1>6, NumberStepType, Zenon
    <2> HIDE DEF base
    <2>2. ComesTo(c, s, Folding(base, NumberStep, s))
        BY <1>0, <2>1, FoldingIs
    <2> QED
        BY <2>2 DEF base
<1> QED
    BY <1>5, <1>7 DEF ComesTo

(* The parameters of one more byte. *)
LEMMA NumbersNext ==
    /\ NumbersIn(<<>>) = <<0>>
    /\ \A s \in Bytes : NumbersIn(s) \in NumberLists
    /\ \A s \in Bytes, b \in Nat :
          NumbersIn(Append(s, b)) =
              IF b = 59 THEN Append(NumbersIn(s), 0)
              ELSE Append(Front(NumbersIn(s)), 10 * Last(NumbersIn(s)) + b - 48)
<1>1. NumbersIn(<<>>) = <<0>>
    <2>1. <<>> \in Bytes
        BY DEF Bytes
    <2> QED
        BY <2>1, NumbersInIs, FoldingNone
<1>2. ASSUME NEW s \in Bytes PROVE NumbersIn(s) \in NumberLists
    <2>1. PICK g : g \in [0 .. Len(s) -> NumberLists] /\ Follows(g, <<0>>, NumberStep, s)
        BY NumberStepType, FollowingType DEF Bytes
    <2>2. Keeps(g, NumberLists, <<0>>, NumberStep, s) /\ Len(s) \in 0 .. Len(s) /\ s \in Seq(Nat)
        BY <2>1 DEF Follows, Keeps, Bytes
    <2> DEFINE base == <<0>>
    <2>3. base \in NumberLists /\ NumberStep \in [NumberLists \X Nat -> NumberLists] /\ Keeps(g, NumberLists, base, NumberStep, s)
        BY <2>2, NumberStepType, Zenon
    <2> HIDE DEF base
    <2>4. ComesTo(g, s, Folding(base, NumberStep, s))
        BY <2>2, <2>3, FoldingIs
    <2> QED
        BY <2>1, <2>2, <2>4, NumbersInIs DEF base, ComesTo
<1>3. ASSUME NEW s \in Bytes, NEW b \in Nat
      PROVE  NumbersIn(Append(s, b)) = IF b = 59 THEN Append(NumbersIn(s), 0)
                                       ELSE Append(Front(NumbersIn(s)), 10 * Last(NumbersIn(s)) + b - 48)
    <2>1. s \in Seq(Nat) /\ Append(s, b) \in Bytes
        BY DEF Bytes
    <2>2. Folding(<<0>>, NumberStep, Append(s, b)) = NumberStep[<<Folding(<<0>>, NumberStep, s), b>>]
        BY <2>1, FoldingMore
    <2>3. NumbersIn(s) = Folding(<<0>>, NumberStep, s) /\ NumbersIn(Append(s, b)) = Folding(<<0>>, NumberStep, Append(s, b))
        BY <2>1, NumbersInIs
    <2>4. NumbersIn(s) \in NumberLists
        BY <1>2
    <2> QED
        <3> DEFINE a == NumbersIn(s)
        <3>1. a \in NumberLists /\ NumbersIn(Append(s, b)) = NumberStep[<<a, b>>]
            BY <2>2, <2>3, <2>4, Zenon
        <3> HIDE DEF a
        <3>2. NumberStep[<<a, b>>] = IF b = 59 THEN Append(a, 0) ELSE Append(Front(a), 10 * Last(a) + b - 48)
            BY <3>1, NumberStepType
        <3>3. NumbersIn(Append(s, b)) = IF b = 59 THEN Append(a, 0) ELSE Append(Front(a), 10 * Last(a) + b - 48)
            BY <3>1, <3>2, Zenon
        <3> QED
            BY <3>3, Zenon DEF a
<1> QED
    BY <1>1, <1>2, <1>3

(* Where a number begins, one in decimal is read as it is. *)
LEMMA NumberIsRead ==
    ASSUME NEW p \in Bytes, NEW a \in Seq(Int), NumbersIn(p) = Append(a, 0), NEW n \in Nat
    PROVE  p \o Decimal(n) \in Bytes /\ NumbersIn(p \o Decimal(n)) = Append(a, n)
<1> DEFINE S == {j \in 0 .. n : \A i \in 0 .. j : NumbersIn(p \o Decimal(i)) = Append(a, i)}
<1>1. p \in Seq(Nat) /\ \A i \in Nat : Decimal(i) \in Seq(Nat) /\ p \o Decimal(i) \in Bytes
    <2>1. p \in Seq(Nat)
        BY DEF Bytes
    <2>2. ASSUME NEW i \in Nat PROVE Decimal(i) \in Seq(Nat)
        <3>1. 48 .. 57 \subseteq Nat
            OBVIOUS
        <3> QED
            BY <3>1, DecimalType, SeqMonotonic
    <2> QED
        BY <2>1, <2>2, ConcatProperties DEF Bytes
<1>2. \A x \in Int : /\ Append(a, x) \in Seq(Int) /\ Front(Append(a, x)) = a /\ Last(Append(a, x)) = x
    <2> TAKE x \in Int
    <2>1. Append(a, x) \in Seq(Int) /\ Len(Append(a, x)) = Len(a) + 1 /\ Append(a, x)[Len(a) + 1] = x /\ Len(a) \in Nat
        BY AppendProperties
    <2>2. Last(Append(a, x)) = x
        BY <2>1 DEF Last
    <2>3. SubSeq(Append(a, x), 1, Len(a)) = a
        OBVIOUS
    <2> QED
        BY <2>1, <2>2, <2>3 DEF Front
<1>3. ASSUME NEW i \in Nat, NEW t \in Nat, i < 10
      PROVE  \A s \in Bytes : NumbersIn(s) = Append(a, t) => NumbersIn(Append(s, 48 + i)) = Append(a, 10 * t + i)
    <2> TAKE s \in Bytes
    <2> HAVE NumbersIn(s) = Append(a, t)
    <2>1. 48 + i \in Nat /\ 48 + i # 59 /\ 10 * t + (48 + i) - 48 = 10 * t + i
        BY <1>3
    <2>2. NumbersIn(Append(s, 48 + i)) = Append(Front(NumbersIn(s)), 10 * Last(NumbersIn(s)) + (48 + i) - 48)
        BY <2>1, NumbersNext
    <2> QED
        BY <1>2, <2>1, <2>2
<1>4. \A i \in Nat : i < 10 => NumbersIn(p \o Decimal(i)) = Append(a, i)
    <2> SUFFICES ASSUME NEW i \in Nat, i < 10 PROVE NumbersIn(p \o Decimal(i)) = Append(a, i)
        OBVIOUS
    <2>1. Decimal(i) = <<48 + i>> /\ 48 + i \in Nat
        BY DecimalNext
    <2>2. p \o Decimal(i) = Append(p, 48 + i)
        BY <1>1, <2>1, AppendIsConcat
    <2>3. NumbersIn(Append(p, 48 + i)) = Append(a, 10 * 0 + i)
        BY <1>3
    <2> QED
        BY <2>2, <2>3
<1>5. 0 \in S
    BY <1>4
<1>6. ASSUME NEW j \in 1 .. n, j - 1 \in S PROVE j \in S
    <2>1. \A i \in 0 .. j - 1 : NumbersIn(p \o Decimal(i)) = Append(a, i)
        BY <1>6
    <2>2. NumbersIn(p \o Decimal(j)) = Append(a, j)
        <3>1. CASE j < 10
            BY <1>4, <3>1
        <3>2. CASE ~ (j < 10)
            <4> DEFINE t == j \div 10
                       d == j % 10
            <4>1. t \in 0 .. j - 1 /\ t \in Nat /\ d \in Nat /\ d < 10 /\ 10 * t + d = j
                BY <3>2
            <4>2. Decimal(j) = Append(Decimal(t), 48 + d)
                <5>1. j \in Nat
                    OBVIOUS
                <5> QED
                    BY <3>2, <5>1, DecimalNext
            <4> HIDE DEF t, d
            <4>3. p \o Append(Decimal(t), 48 + d) = Append(p \o Decimal(t), 48 + d)
                <5>1. Decimal(t) \in Seq(Nat) /\ 48 + d \in Nat /\ p \o Decimal(t) \in Seq(Nat)
                    BY <1>1, <4>1 DEF Bytes
                <5>2. Append(Decimal(t), 48 + d) = Decimal(t) \o <<48 + d>> /\ <<48 + d>> \in Seq(Nat)
                    BY <5>1, AppendIsConcat
                <5>3. Append(p \o Decimal(t), 48 + d) = (p \o Decimal(t)) \o <<48 + d>>
                    BY <5>1, AppendIsConcat
                <5>4. (p \o Decimal(t)) \o <<48 + d>> = p \o (Decimal(t) \o <<48 + d>>)
                    BY <1>1, <5>1, <5>2, BytesAssociate, ZenonT(40)
                <5> QED
                    BY <5>2, <5>3, <5>4
            <4>4. p \o Decimal(t) \in Bytes /\ NumbersIn(p \o Decimal(t)) = Append(a, t)
                BY <1>1, <2>1, <4>1
            <4>5. NumbersIn(Append(p \o Decimal(t), 48 + d)) = Append(a, 10 * t + d)
                BY <1>3, <4>1, <4>4
            <4> QED
                BY <4>1, <4>2, <4>3, <4>5
        <3> QED
            BY <3>1, <3>2
    <2>3. \A i \in 0 .. j : i \in 0 .. j - 1 \/ i = j
        OBVIOUS
    <2> QED
        BY <2>1, <2>2, <2>3
<1> HIDE DEF S
<1>7. \A j \in 0 .. n : j \in S
    BY <1>5, <1>6, UpTo
<1>8. n \in S
    BY <1>7
<1> QED
    BY <1>1, <1>8 DEF S

-----------------------------------------------------------------------------
(* Control sequences. *)

Params == Seq(0 .. 63)

(* Parameters are bytes. *)
LEMMA ParamsAreBytes == \A p \in Params : p \in Seq(Nat) /\ p \in Bytes
<1>1. 0 .. 63 \subseteq Nat
    OBVIOUS
<1> QED
    BY <1>1, SeqMonotonic DEF Params, Bytes

(* ESC [ and what follows it, by their places. *)
CsiLaid(q, p, n, final, rest) ==
    /\ q \in Bytes /\ Len(q) = n + 3 + Len(rest)
    /\ q[1] = 27 /\ q[2] = 91 /\ q[n + 3] = final
    /\ \A i \in 1 .. n : q[2 + i] = p[i] /\ p[i] \in 0 .. 63
    /\ \A i \in 1 .. Len(rest) : q[n + 3 + i] = rest[i]

(* Where the parts of a control sequence are in its bytes. *)
LEMMA CsiPlaces ==
    ASSUME NEW p \in Params, NEW final \in Nat, NEW rest \in Bytes, NEW q,
           q = ((Csi \o p) \o <<final>>) \o rest
    PROVE  CsiLaid(q, p, Len(p), final, rest)
<1>1. Csi = <<27, 91>> /\ Csi \in Seq(Nat) /\ Len(Csi) = 2
    BY DEF Csi, ESC
<1>2. p \in Seq(Nat) /\ rest \in Seq(Nat) /\ <<final>> \in Seq(Nat) /\ Len(<<final>>) = 1
    BY ParamsAreBytes DEF Bytes
<1> DEFINE a == Csi \o p
           b == a \o <<final>>
<1>3. /\ a \in Seq(Nat) /\ Len(a) = Len(p) + 2
      /\ a[1] = 27 /\ a[2] = 91 /\ \A i \in 1 .. Len(p) : a[2 + i] = p[i]
    BY <1>1, <1>2, Begins
<1> HIDE DEF a
<1>4. /\ b \in Seq(Nat) /\ Len(b) = Len(p) + 3
      /\ b[1] = 27 /\ b[2] = 91 /\ b[Len(p) + 3] = final
      /\ \A i \in 1 .. Len(p) : b[2 + i] = p[i]
    <2>1. Len(p) \in Nat /\ \A i \in 1 .. Len(p) : 2 + i \in 1 .. Len(p) + 2
        BY <1>2
    <2>2. b \in Seq(Nat) /\ Len(b) = Len(a) + 1 /\ \A i \in 1 .. Len(a) : b[i] = a[i]
        BY <1>2, <1>3, Begins
    <2>3. b[Len(a) + 1] = final
        BY <1>2, <1>3, Begins
    <2> HIDE DEF b
    <2>4. Len(a) + 1 = Len(p) + 3 /\ 1 \in 1 .. Len(a) /\ 2 \in 1 .. Len(a)
        BY <1>3, <2>1
    <2>5. Len(b) = Len(p) + 3 /\ b[Len(p) + 3] = final
        BY <2>2, <2>3, <2>4
    <2>6. b[1] = 27 /\ b[2] = 91
        BY <1>3, <2>2, <2>4
    <2>7. \A i \in 1 .. Len(p) : b[2 + i] = p[i]
        <3> TAKE i \in 1 .. Len(p)
        <3>1. 2 + i \in 1 .. Len(a)
            BY <1>3, <2>1
        <3> QED
            BY <1>3, <2>2, <3>1
    <2> QED
        BY <2>2, <2>5, <2>6, <2>7
<1> HIDE DEF b
<1>5. Len(p) \in Nat /\ Len(rest) \in Nat /\ \A i \in 1 .. Len(p) : 2 + i \in 1 .. Len(p) + 3
    BY <1>2
<1>6. q = b \o rest
    BY DEF a, b
<1>7. /\ q \in Seq(Nat) /\ Len(q) = Len(b) + Len(rest)
      /\ \A i \in 1 .. Len(b) : q[i] = b[i]
      /\ \A i \in 1 .. Len(rest) : q[Len(b) + i] = rest[i]
    <2>1. b \in Seq(Nat) /\ rest \in Seq(Nat)
        BY <1>2, <1>4
    <2>2. /\ b \o rest \in Seq(Nat) /\ Len(b \o rest) = Len(b) + Len(rest)
          /\ \A i \in 1 .. Len(b) : (b \o rest)[i] = b[i]
          /\ \A i \in 1 .. Len(rest) : (b \o rest)[Len(b) + i] = rest[i]
        BY <2>1, Begins
    <2> QED
        BY <1>6, <2>2, Zenon
<1>8. \A i \in 1 .. Len(p) : p[i] \in 0 .. 63
    <2>1. p \in Seq(0 .. 63)
        BY DEF Params
    <2> QED
        BY <2>1, ElementOfSeq
<1>9. /\ q[1] = 27 /\ q[2] = 91 /\ q[Len(p) + 3] = final
      /\ \A i \in 1 .. Len(p) : q[2 + i] = p[i]
    <2>1. 1 \in 1 .. Len(b) /\ 2 \in 1 .. Len(b) /\ Len(p) + 3 \in 1 .. Len(b)
        BY <1>4, <1>5
    <2>2. q[1] = 27 /\ q[2] = 91 /\ q[Len(p) + 3] = final
        BY <1>4, <1>7, <2>1
    <2>3. \A i \in 1 .. Len(p) : q[2 + i] = p[i]
        <3> TAKE i \in 1 .. Len(p)
        <3>1. 2 + i \in 1 .. Len(b)
            BY <1>4, <1>5
        <3> QED
            BY <1>4, <1>7, <3>1
    <2> QED
        BY <2>2, <2>3
<1>10. /\ q \in Bytes /\ Len(q) = Len(p) + 3 + Len(rest)
       /\ \A i \in 1 .. Len(rest) : q[Len(p) + 3 + i] = rest[i]
    BY <1>4, <1>5, <1>7 DEF Bytes
<1> QED
    BY <1>8, <1>9, <1>10 DEF CsiLaid

(* A sequence ends with its final byte, whatever follows it. *)
LEMMA CsiIs ==
    ASSUME NEW m, NEW p \in Params, NEW final \in Nat, final >= 64, p # <<>> \/ final # 77,
           NEW rest \in Bytes
    PROVE  EventIn(m, ((Csi \o p) \o <<final>>) \o rest) =
               Taken(CsiEvent(m, p, final, rest).event, Len(p) + 3 + CsiEvent(m, p, final, rest).length)
<1> DEFINE q == ((Csi \o p) \o <<final>>) \o rest
           N == Len(p)
           n == N + 3
<1>1. /\ q \in Bytes /\ Len(q) = N + 3 + Len(rest)
      /\ q[1] = 27 /\ q[2] = 91 /\ q[N + 3] = final
      /\ \A i \in 1 .. N : q[2 + i] = p[i] /\ p[i] \in 0 .. 63
      /\ \A i \in 1 .. Len(rest) : q[N + 3 + i] = rest[i]
    <2> HIDE DEF q
    <2>1. q = ((Csi \o p) \o <<final>>) \o rest
        BY DEF q
    <2>2. CsiLaid(q, p, N, final, rest)
        BY <2>1, CsiPlaces, Zenon
    <2> HIDE DEF N
    <2> QED
        BY <2>2 DEF CsiLaid
<1>2. N \in Nat /\ Len(rest) \in Nat /\ p \in Seq(Nat) /\ rest \in Seq(Nat) /\ q \in Seq(Nat)
    BY <1>1, ParamsAreBytes DEF Bytes
<1>2a. p # <<>> => N # 0
    BY <1>2
<1> HIDE DEF q, N
<1>3. n \in 3 .. Len(q) /\ q[n] >= 64 /\ q[n] = final
    BY <1>1, <1>2
<1>4. \A k \in 3 .. n - 1 : q[k] < 64
    <2> TAKE k \in 3 .. n - 1
    <2>1. PICK i \in 1 .. N : 2 + i = k
        <3>1. k - 2 \in 1 .. N /\ 2 + (k - 2) = k
            BY <1>2
        <3> QED
            BY <3>1
    <2>2. q[2 + i] = p[i] /\ p[i] \in 0 .. 63
        BY <1>1, Zenon
    <2>3. q[k] \in 0 .. 63
        BY <2>1, <2>2, Zenon
    <2>4. \A b \in 0 .. 63 : b < 64
        OBVIOUS
    <2> QED
        BY <2>3, <2>4, Zenon
<1>5. q[3] # 77 /\ Len(q) >= 3
    <2>1. CASE N = 0
        <3>1. q[3] = final /\ p = <<>>
            BY <1>1, <1>2, <2>1 DEF N
        <3>2. Len(q) >= 3
            BY <1>3
        <3> QED
            BY <3>1, <3>2
    <2>2. CASE N # 0
        <3>1. 3 \in 3 .. n - 1
            BY <1>2, <2>2
        <3>2. q[3] < 64
            BY <1>4, <3>1
        <3> QED
            BY <1>1, <1>2, <3>2
    <2> QED
        BY <2>1, <2>2
<1>6. IsFinal(q, n) /\ \A j \in 3 .. Len(q) : IsFinal(q, j) => j = n
    <2>1. IsFinal(q, n)
        BY <1>3, <1>4 DEF IsFinal
    <2>2. ASSUME NEW j \in 3 .. Len(q), IsFinal(q, j) PROVE j = n
        <3>1. q[j] >= 64 /\ \A k \in 3 .. j - 1 : q[k] < 64
            BY <2>2 DEF IsFinal
        <3>2. n \in Nat /\ q[j] \in Nat /\ q[n] \in Nat
            BY <1>2, <1>3, <2>2
        <3>3. ~ (j < n)
            <4> SUFFICES ASSUME j < n PROVE FALSE
                OBVIOUS
            <4>1. j \in 3 .. n - 1
                BY <3>2
            <4>2. q[j] < 64
                BY <1>4, <4>1
            <4> QED
                BY <3>1, <3>2, <4>2
        <3>4. ~ (n < j)
            <4> SUFFICES ASSUME n < j PROVE FALSE
                OBVIOUS
            <4>1. n \in 3 .. j - 1
                BY <1>3, <3>2
            <4>2. q[n] < 64
                BY <3>1, <4>1
            <4> QED
                BY <1>3, <3>2, <4>2
        <3> QED
            BY <3>2, <3>3, <3>4
    <2> QED
        BY <2>1, <2>2
<1>7. SubSeq(q, 3, n - 1) = p
    <2> DEFINE s == SubSeq(q, 3, n - 1)
    <2>1. s \in Seq(Nat) /\ Len(s) = N /\ \A i \in 1 .. N : s[i] = q[2 + i]
        BY <1>1, <1>2, <1>3
    <2> HIDE DEF s
    <2>2. \A i \in 1 .. N : s[i] = p[i]
        <3> TAKE i \in 1 .. N
        <3>1. s[i] = q[2 + i]
            BY <2>1, Zenon
        <3>2. q[2 + i] = p[i]
            BY <1>1, Zenon
        <3> QED
            BY <3>1, <3>2, Zenon
    <2> QED
        BY <1>2, <2>1, <2>2, SeqEqual DEF s, N
<1>8. Behind(q, n) = rest
    <2> DEFINE s == Onward(q, n)
    <2>1. n \in 0 .. Len(q)
        BY <1>2, <1>3
    <2>2. s \in Seq(Nat) /\ Len(s) = Len(q) - n /\ EndsIn(q, n, s)
        BY <1>2, <2>1, OnwardProperties
    <2>3. Len(s) = Len(rest)
        BY <1>1, <1>2, <2>2
    <2> HIDE DEF s
    <2>4. \A i \in 1 .. Len(s) : s[i] = rest[i]
        BY <1>1, <2>2, <2>3 DEF EndsIn
    <2>5. s = rest
        BY <1>2, <2>2, <2>3, <2>4, SeqEqual
    <2> QED
        BY <2>5 DEF Behind, Onward, s
<1> HIDE DEF n
<1>9. CsiIn(m, q) = Taken(CsiEvent(m, p, final, rest).event, n + CsiEvent(m, p, final, rest).length)
    <2> DEFINE end == CHOOSE j \in 3 .. Len(q) : IsFinal(q, j)
    <2>1. end = n
        BY <1>3, <1>6
    <2>2. CsiIn(m, q) = Taken(CsiEvent(m, SubSeq(q, 3, end - 1), q[end], Behind(q, end)).event,
                              end + CsiEvent(m, SubSeq(q, 3, end - 1), q[end], Behind(q, end)).length)
        BY Zenon DEF CsiIn
    <2> HIDE DEF end
    <2> QED
        BY <1>3, <1>7, <1>8, <2>1, <2>2, Zenon
<1>10. EventIn(m, q) = CsiIn(m, q)
    <2>1. \E j \in 3 .. Len(q) : q[j] >= 64
        BY <1>3
    <2>2. 2 <= Len(q) /\ 3 <= Len(q) /\ q[1] = 27 /\ q[2] = 91 /\ q[3] # 77
        BY <1>1, <1>2, <1>5
    <2> QED
        BY <2>1, <2>2 DEF EventIn
<1> QED
    BY <1>9, <1>10 DEF q, n, N

(* One that tells its event by itself. *)
LEMMA CsiReads ==
    ASSUME NEW m, NEW p \in Params, NEW final \in Nat, final >= 64, p # <<>> \/ final # 77, NEW event,
           \A rest \in Bytes : CsiEvent(m, p, final, rest) = Taken(event, 0)
    PROVE  Reads(m, (Csi \o p) \o <<final>>, <<event>>)
<1> DEFINE w == (Csi \o p) \o <<final>>
<1>1. w \in Bytes /\ Len(w) = Len(p) + 3 /\ w # <<>>
    <2>1. <<>> \in Bytes /\ Len(<<>>) = 0
        BY DEF Bytes
    <2>2. Csi \in Seq(Nat) /\ p \in Seq(Nat) /\ <<final>> \in Seq(Nat) /\ Len(Csi) = 2 /\ Len(<<final>>) = 1
        BY ParamsAreBytes DEF Csi, ESC
    <2>3. w \in Seq(Nat) /\ Len(w) = (2 + Len(p)) + 1 /\ Len(p) \in Nat
        <3>1. Csi \o p \in Seq(Nat) /\ Len(Csi \o p) = Len(Csi) + Len(p)
            BY <2>2, Begins, ZenonT(40)
        <3>2. /\ (Csi \o p) \o <<final>> \in Seq(Nat)
              /\ Len((Csi \o p) \o <<final>>) = Len(Csi \o p) + Len(<<final>>)
            BY <2>2, <3>1, Begins, ZenonT(40)
        <3>3. Len(p) \in Nat
            BY <2>2
        <3> QED
            BY <2>2, <3>1, <3>2, <3>3, Zenon
    <2> HIDE DEF w
    <2>4. Len(w) = Len(p) + 3 /\ Len(w) # 0
        BY <2>3
    <2>5. w # <<>>
        BY <2>1, <2>4
    <2> QED
        BY <2>3, <2>4, <2>5 DEF Bytes
<1>2. ASSUME NEW rest \in Bytes
      PROVE  EventIn(m, w \o rest) = Taken(event, Len(w))
    <2>1. CsiEvent(m, p, final, rest).event = event /\ CsiEvent(m, p, final, rest).length = 0
        BY DEF Taken
    <2>2. EventIn(m, w \o rest) = Taken(event, Len(p) + 3 + 0)
        BY <2>1, CsiIs
    <2>3. Len(p) \in Nat
        BY ParamsAreBytes
    <2> HIDE DEF w
    <2> QED
        BY <1>1, <2>2, <2>3
<1> HIDE DEF w
<1>3. Reads(m, w, <<event>>)
    BY <1>1, <1>2, ReadsOne
<1> QED
    BY <1>3 DEF w

(* Numbers one by one. *)
LEMMA Tuples ==
    ASSUME NEW a \in Nat, NEW b \in Nat, NEW c \in Nat
    PROVE  /\ <<a>> \in Seq(Int) /\ <<a, b>> \in Seq(Int)
           /\ Append(<<a>>, b) = <<a, b>> /\ Append(<<a, b>>, c) = <<a, b, c>>
<1>1. a \in Int /\ b \in Int /\ c \in Int
    OBVIOUS
<1>2. <<a>> \in Seq(Int) /\ Len(<<a>>) = 1 /\ <<a>>[1] = a
    BY <1>1
<1>3. /\ <<a, b>> \in Seq(Int) /\ Len(<<a, b>>) = 2 /\ <<a, b>>[1] = a /\ <<a, b>>[2] = b
    BY <1>1
<1>4. <<a, b, c>> \in Seq(Int) /\ Len(<<a, b, c>>) = 3 /\ <<a, b, c>>[1] = a /\ <<a, b, c>>[2] = b /\ <<a, b, c>>[3] = c
    BY <1>1
<1>5. Append(<<a>>, b) = <<a, b>>
    <2> DEFINE s == Append(<<a>>, b)
               t == <<a, b>>
    <2>1. s \in Seq(Int) /\ Len(s) = 2 /\ s[1] = a /\ s[2] = b
        BY <1>1, <1>2, AppendProperties
    <2>2. t \in Seq(Int) /\ Len(t) = 2 /\ t[1] = a /\ t[2] = b
        BY <1>3
    <2> HIDE DEF s, t
    <2>3. \A i \in 1 .. Len(s) : s[i] = t[i]
        BY <2>1, <2>2
    <2>4. s = t
        BY <2>1, <2>2, <2>3, SeqEqual
    <2> QED
        BY <2>4 DEF s, t
<1>6. Append(<<a, b>>, c) = <<a, b, c>>
    <2> DEFINE s == Append(<<a, b>>, c)
               t == <<a, b, c>>
    <2>1. s \in Seq(Int) /\ Len(s) = 3 /\ s[1] = a /\ s[2] = b /\ s[3] = c
        BY <1>1, <1>3, AppendProperties
    <2>2. t \in Seq(Int) /\ Len(t) = 3 /\ t[1] = a /\ t[2] = b /\ t[3] = c
        BY <1>4
    <2> HIDE DEF s, t
    <2>3. \A i \in 1 .. Len(s) : s[i] = t[i]
        BY <2>1, <2>2
    <2>4. s = t
        BY <2>1, <2>2, <2>3, SeqEqual
    <2> QED
        BY <2>4 DEF s, t
<1> QED
    BY <1>2, <1>3, <1>5, <1>6

(* One number, or several with semicolons between them. *)
LEMMA NumbersAre ==
    /\ \A a \in Nat : Decimal(a) \in Params /\ NumbersIn(Decimal(a)) = <<a>> /\ Decimal(a) # <<>> /\ Decimal(a)[1] # 60
    /\ \A a, b \in Nat : LET p == (Decimal(a) \o <<59>>) \o Decimal(b) IN
                         p \in Params /\ NumbersIn(p) = <<a, b>> /\ p # <<>> /\ p[1] # 60
    /\ \A a, b, c \in Nat : LET p == (((Decimal(a) \o <<59>>) \o Decimal(b)) \o <<59>>) \o Decimal(c) IN
                            p \in Params /\ NumbersIn(p) = <<a, b, c>> /\ p # <<>> /\ p[1] # 60
<1>1. \A a \in Nat : Decimal(a) \in Params /\ Decimal(a) # <<>> /\ Decimal(a)[1] \in 48 .. 57
    <2> TAKE a \in Nat
    <2>1. Decimal(a) \in Seq(48 .. 57) /\ Decimal(a) # <<>>
        BY DecimalType
    <2>2. 48 .. 57 \subseteq 0 .. 63
        OBVIOUS
    <2>3. Decimal(a) \in Params
        BY <2>1, <2>2, SeqMonotonic DEF Params
    <2>4. Decimal(a)[1] \in 48 .. 57
        BY <2>1
    <2> QED
        BY <2>1, <2>3, <2>4
<1>2. ASSUME NEW p \in Params, NEW a \in Seq(Int), NumbersIn(p) = Append(a, 0), NEW n \in Nat
      PROVE  p \o Decimal(n) \in Params /\ NumbersIn(p \o Decimal(n)) = Append(a, n)
    <2>1. p \o Decimal(n) \in Params
        BY <1>1, ConcatProperties DEF Params
    <2>2. p \in Bytes
        BY ParamsAreBytes
    <2> QED
        BY <1>2, <2>1, <2>2, NumberIsRead
<1>3. ASSUME NEW p \in Params
      PROVE  p \o <<59>> \in Params /\ NumbersIn(p \o <<59>>) = Append(NumbersIn(p), 0)
    <2>1. p \in Bytes /\ p \in Seq(Nat) /\ 59 \in 0 .. 63
        BY ParamsAreBytes
    <2>2. p \o <<59>> = Append(p, 59)
        BY <2>1, AppendIsConcat
    <2>3. Append(p, 59) \in Params
        BY <2>1 DEF Params
    <2> QED
        BY <2>1, <2>2, <2>3, NumbersNext
<1>4. ASSUME NEW p \in Params, NEW r \in Params, p # <<>>, p[1] # 60
      PROVE  p \o r # <<>> /\ (p \o r)[1] # 60
    <2>1. p \in Seq(Nat) /\ r \in Seq(Nat)
        BY ParamsAreBytes
    <2>2. 1 \in 1 .. Len(p) /\ Len(p \o r) = Len(p) + Len(r) /\ (p \o r)[1] = p[1]
        BY <1>4, <2>1, Begins
    <2>3. Len(p \o r) # 0
        BY <2>1, <2>2
    <2> QED
        BY <1>4, <2>2, <2>3
<1>5. ASSUME NEW a \in Nat
      PROVE  NumbersIn(Decimal(a)) = <<a>> /\ Decimal(a)[1] # 60
    <2>1. <<>> \in Params /\ <<>> \in Seq(Int) /\ NumbersIn(<<>>) = <<0>>
        BY NumbersNext DEF Params
    <2>2. NumbersIn(<<>>) = Append(<<>>, 0) /\ Append(<<>>, a) = <<a>> /\ <<>> \o Decimal(a) = Decimal(a)
        BY <1>1, <2>1 DEF Params
    <2>3. NumbersIn(<<>> \o Decimal(a)) = Append(<<>>, a)
        BY <1>2, <2>1, <2>2
    <2>4. Decimal(a)[1] # 60
        BY <1>1
    <2> QED
        BY <2>2, <2>3, <2>4
<1>6. <<59>> \in Params
    BY DEF Params
<1>7. ASSUME NEW a \in Nat, NEW b \in Nat
      PROVE  LET p == (Decimal(a) \o <<59>>) \o Decimal(b) IN
             p \in Params /\ NumbersIn(p) = <<a, b>> /\ p # <<>> /\ p[1] # 60
    <2> DEFINE s == Decimal(a) \o <<59>>
               p == s \o Decimal(b)
    <2>0. Decimal(a) \in Params /\ NumbersIn(Decimal(a)) = <<a>> /\ Decimal(a) # <<>> /\ Decimal(a)[1] # 60
        BY <1>1, <1>5
    <2>1. s \in Params /\ NumbersIn(s) = Append(<<a>>, 0) /\ s # <<>> /\ s[1] # 60
        BY <1>3, <1>4, <1>6, <2>0, ZenonT(40)
    <2> HIDE DEF p, s
    <2>2. <<a>> \in Seq(Int) /\ Append(<<a>>, b) = <<a, b>>
        BY Tuples
    <2> USE DEF p
    <2>3. p \in Params /\ NumbersIn(p) = Append(<<a>>, b)
        BY <1>2, <2>1, <2>2
    <2>4. p # <<>> /\ p[1] # 60
        BY <1>1, <1>4, <2>1
    <2> HIDE DEF p
    <2>5. p \in Params /\ NumbersIn(p) = <<a, b>> /\ p # <<>> /\ p[1] # 60
        BY <2>2, <2>3, <2>4
    <2> QED
        BY <2>5 DEF p, s
<1>8. ASSUME NEW a \in Nat, NEW b \in Nat, NEW c \in Nat
      PROVE  LET p == (((Decimal(a) \o <<59>>) \o Decimal(b)) \o <<59>>) \o Decimal(c) IN
             p \in Params /\ NumbersIn(p) = <<a, b, c>> /\ p # <<>> /\ p[1] # 60
    <2> DEFINE t == (Decimal(a) \o <<59>>) \o Decimal(b)
               s == t \o <<59>>
               p == s \o Decimal(c)
    <2>0. t \in Params /\ NumbersIn(t) = <<a, b>> /\ t # <<>> /\ t[1] # 60
        BY <1>7, ZenonT(40)
    <2> HIDE DEF t
    <2>1. s \in Params /\ NumbersIn(s) = Append(<<a, b>>, 0) /\ s # <<>> /\ s[1] # 60
        BY <1>3, <1>4, <1>6, <2>0, ZenonT(40)
    <2> HIDE DEF p, s
    <2>2. <<a, b>> \in Seq(Int) /\ Append(<<a, b>>, c) = <<a, b, c>>
        BY Tuples
    <2> USE DEF p
    <2>3. p \in Params /\ NumbersIn(p) = Append(<<a, b>>, c)
        BY <1>2, <2>1, <2>2
    <2>4. p # <<>> /\ p[1] # 60
        BY <1>1, <1>4, <2>1
    <2> HIDE DEF p
    <2>5. p \in Params /\ NumbersIn(p) = <<a, b, c>> /\ p # <<>> /\ p[1] # 60
        BY <2>2, <2>3, <2>4
    <2> QED
        BY <2>5 DEF p, s, t
<1> QED
    BY <1>1, <1>5, <1>7, <1>8

(* Two numbers. *)
IsPair(p, a, b) == p \in Params /\ NumbersIn(p) = <<a, b>> /\ p # <<>> /\ p[1] # 60

(* Two numbers and a semicolon are read as the two numbers. *)
LEMMA PairsAre == \A a, b \in Nat : IsPair((Decimal(a) \o <<59>>) \o Decimal(b), a, b)
<1>1. \A a, b \in Nat : LET p == (Decimal(a) \o <<59>>) \o Decimal(b) IN
                        p \in Params /\ NumbersIn(p) = <<a, b>> /\ p # <<>> /\ p[1] # 60
    BY NumbersAre
<1> QED
    BY <1>1, Zenon DEF IsPair

-----------------------------------------------------------------------------
(* The tables of the keys. *)

(* Modifiers are told by the bits that are set. *)
LEMMA ModsAre ==
    ASSUME NEW mods \in SUBSET Modifiers, NEW n, NEW shift, NEW alt, NEW ctrl,
           Bit(n, shift) <=> "shift" \in mods, Bit(n, alt) <=> "alt" \in mods,
           Bit(n, ctrl) <=> "ctrl" \in mods
    PROVE  ModsOf(n, shift, alt, ctrl) = mods
<1> HIDE DEF Modifiers
<1>1. ModsOf(n, shift, alt, ctrl) =
        (IF "shift" \in mods THEN {"shift"} ELSE {}) \union (IF "alt" \in mods THEN {"alt"} ELSE {})
            \union (IF "ctrl" \in mods THEN {"ctrl"} ELSE {})
    BY Zenon DEF ModsOf
<1>2. \A x \in mods : x = "shift" \/ x = "alt" \/ x = "ctrl"
    BY DEF Modifiers
<1> QED
    BY <1>1, <1>2

(* What is added to 1 for them, and to a button. *)
LEMMA ModifierSumIs ==
    ASSUME NEW mods \in SUBSET Modifiers
    PROVE  \E s \in 0 .. 1, a \in 0 .. 1, c \in 0 .. 1 :
               /\ ("shift" \in mods <=> s = 1) /\ ("alt" \in mods <=> a = 1) /\ ("ctrl" \in mods <=> c = 1)
               /\ ModifierSum(mods, 1, 2, 4) = s + 2 * a + 4 * c
               /\ ModifierSum(mods, 4, 8, 16) = 4 * s + 8 * a + 16 * c
<1> DEFINE s == IF "shift" \in mods THEN 1 ELSE 0
           a == IF "alt" \in mods THEN 1 ELSE 0
           c == IF "ctrl" \in mods THEN 1 ELSE 0
<1>1. s \in 0 .. 1 /\ a \in 0 .. 1 /\ c \in 0 .. 1
    OBVIOUS
<1>2. ("shift" \in mods <=> s = 1) /\ ("alt" \in mods <=> a = 1) /\ ("ctrl" \in mods <=> c = 1)
    OBVIOUS
<1>3. ModifierSum(mods, 1, 2, 4) = s + 2 * a + 4 * c
    BY DEF ModifierSum
<1>4. ModifierSum(mods, 4, 8, 16) = 4 * s + 8 * a + 16 * c
    BY DEF ModifierSum
<1> HIDE DEF s, a, c
<1> QED
    BY <1>1, <1>2, <1>3, <1>4

(* The modifiers of a key come back from their sum. *)
LEMMA BitsOfKeys ==
    ASSUME NEW mods \in SUBSET Modifiers
    PROVE  /\ ModifierSum(mods, 1, 2, 4) \in 0 .. 7
           /\ ModsOf(ModifierSum(mods, 1, 2, 4), 1, 2, 4) = mods
<1> DEFINE n == ModifierSum(mods, 1, 2, 4)
<1>1. PICK s \in 0 .. 1, a \in 0 .. 1, c \in 0 .. 1 :
               /\ ("shift" \in mods <=> s = 1) /\ ("alt" \in mods <=> a = 1) /\ ("ctrl" \in mods <=> c = 1)
               /\ n = s + 2 * a + 4 * c
    BY ModifierSumIs
<1> HIDE DEF n
<1>2. n \in 0 .. 7 /\ n = s + 2 * a + 4 * c
    BY <1>1
<1>3. (n \div 1) % 2 = s /\ (n \div 2) % 2 = a /\ (n \div 4) % 2 = c
    BY <1>2
<1>4. (Bit(n, 1) <=> "shift" \in mods) /\ (Bit(n, 2) <=> "alt" \in mods) /\ (Bit(n, 4) <=> "ctrl" \in mods)
    BY <1>1, <1>3 DEF Bit
<1>5. ModsOf(n, 1, 2, 4) = mods
    BY <1>4, ModsAre
<1> QED
    BY <1>2, <1>5 DEF n

(* A sequence of a key. *)
LEMMA CsiKey ==
    ASSUME NEW m, NEW p, p # <<>> => p[1] # 60, NEW final \in Nat, final # 73, final # 79,
           NEW numbers, NumbersIn(p) = numbers, Len(numbers) # 3, final = 126 => numbers # << 200 >>, NEW after
    PROVE  CsiEvent(m, p, final, after) = Taken(KeyByFinal(m, final, numbers), 0)
<1> DEFINE sgr == p # <<>> /\ p[1] = 60
           numbersOf == NumbersIn(IF sgr THEN Tail(p) ELSE p)
           at == [col |-> numbersOf[2] - 1, row |-> numbersOf[3] - 1]
           closes == {j \in 1 .. Len(after) - 5 : SubSeq(after, j, j + 5) = PasteEnd}
           close == CHOOSE j \in closes : \A k \in closes : j <= k
           g1 == sgr /\ m.encoding = 1006
           g2 == ~sgr /\ Len(numbersOf) = 3 /\ m.encoding = 1015
           g3 == ~sgr /\ final = 126 /\ numbersOf = <<200>> /\ m.paste /\ closes # {}
           g4 == ~sgr /\ final \in {73, 79} /\ m.focus
           t1 == Taken(ByButton(numbersOf[1], at, final = 109), 0)
           t2 == Taken(ByButton(numbersOf[1] - 32, at, FALSE), 0)
           t3 == Taken(PasteEvent(SubSeq(after, 1, close - 1)), close + 5)
           t4 == Taken(FocusEvent(final = 73), 0)
           t5 == Taken(KeyByFinal(m, final, numbersOf), 0)
<1>1. CsiEvent(m, p, final, after) =
        CASE g1 -> t1 [] g2 -> t2 [] g3 -> t3 [] g4 -> t4 [] OTHER -> t5
    BY Zenon DEF CsiEvent
<1>2. ~sgr
    OBVIOUS
<1>3. numbersOf = numbers
    BY <1>2
<1>4. ~g1 /\ ~g2 /\ ~g3 /\ ~g4
    BY <1>2, <1>3
<1>5. t5 = Taken(KeyByFinal(m, final, numbers), 0)
    BY <1>3
<1> HIDE DEF g1, g2, g3, g4, t1, t2, t3, t4, t5
<1> QED
    BY <1>1, <1>4, <1>5

(* The keys by the last byte of their sequence, without and with modifiers. *)
LEMMA LetterKeysAre ==
    /\ DOMAIN LetterKeys = {65, 66, 67, 68, 70, 72}
    /\ DOMAIN CursorLetters = {"Up", "Down", "Right", "Left", "Home", "End"}
    /\ \A name \in DOMAIN CursorLetters :
          CursorLetters[name] \in DOMAIN LetterKeys /\ LetterKeys[CursorLetters[name]] = name
<1>1. DOMAIN LetterKeys = {65, 66, 67, 68, 70, 72}
    BY DEF LetterKeys
<1>2. DOMAIN CursorLetters = {"Up", "Down", "Right", "Left", "Home", "End"}
    BY DEF CursorLetters
<1>3. /\ CursorLetters["Up"] = 65 /\ CursorLetters["Down"] = 66 /\ CursorLetters["Right"] = 67
      /\ CursorLetters["Left"] = 68 /\ CursorLetters["Home"] = 72 /\ CursorLetters["End"] = 70
    BY DEF CursorLetters
<1>4. /\ LetterKeys[65] = "Up" /\ LetterKeys[66] = "Down" /\ LetterKeys[67] = "Right"
      /\ LetterKeys[68] = "Left" /\ LetterKeys[72] = "Home" /\ LetterKeys[70] = "End"
    BY DEF LetterKeys
<1> QED
    BY <1>1, <1>2, <1>3, <1>4

(* The keys that are sent as a number, and their names. *)
LEMMA NumberKeysAre ==
    /\ DOMAIN NumberKeys = {2, 3, 5, 6}
    /\ DOMAIN EditNumbers = {"Insert", "Delete", "PageUp", "PageDown"}
    /\ \A name \in DOMAIN EditNumbers :
          EditNumbers[name] \in DOMAIN NumberKeys /\ NumberKeys[EditNumbers[name]] = name
<1>1. DOMAIN NumberKeys = {2, 3, 5, 6}
    BY DEF NumberKeys
<1>2. DOMAIN EditNumbers = {"Insert", "Delete", "PageUp", "PageDown"}
    BY DEF EditNumbers
<1>3. /\ EditNumbers["Insert"] = 2 /\ EditNumbers["Delete"] = 3 /\ EditNumbers["PageUp"] = 5
      /\ EditNumbers["PageDown"] = 6
    BY DEF EditNumbers
<1>4. NumberKeys[2] = "Insert" /\ NumberKeys[3] = "Delete" /\ NumberKeys[5] = "PageUp" /\ NumberKeys[6] = "PageDown"
    BY DEF NumberKeys
<1> QED
    BY <1>1, <1>2, <1>3, <1>4

(* The function keys that are sent as a number come back from it. *)
LEMMA FunctionsAre ==
    \A n \in 5 .. 12 :
        /\ FunctionNumber(n) \in 15 .. 24
        /\ FunctionNumbers[n - 4] = FunctionNumber(n)
        /\ \A k \in DOMAIN FunctionNumbers : FunctionNumbers[k] = FunctionNumber(n) => k = n - 4
        /\ n - 4 \in DOMAIN FunctionNumbers
<1>1. DOMAIN FunctionNumbers = 1 .. 8
    BY DEF FunctionNumbers
<1>2. /\ FunctionNumbers[1] = 15 /\ FunctionNumbers[2] = 17 /\ FunctionNumbers[3] = 18 /\ FunctionNumbers[4] = 19
      /\ FunctionNumbers[5] = 20 /\ FunctionNumbers[6] = 21 /\ FunctionNumbers[7] = 23 /\ FunctionNumbers[8] = 24
    BY DEF FunctionNumbers
<1>3. /\ FunctionNumber(5) = 15 /\ FunctionNumber(6) = 17 /\ FunctionNumber(7) = 18 /\ FunctionNumber(8) = 19
      /\ FunctionNumber(9) = 20 /\ FunctionNumber(10) = 21 /\ FunctionNumber(11) = 23 /\ FunctionNumber(12) = 24
    BY DEF FunctionNumber
<1> TAKE n \in 5 .. 12
<1>4. n \in {5, 6, 7, 8, 9, 10, 11, 12}
    OBVIOUS
<1>5. \A k \in 1 .. 8 : k \in {1, 2, 3, 4, 5, 6, 7, 8}
    OBVIOUS
<1> QED
    BY <1>1, <1>2, <1>3, <1>4, <1>5

(* What a key is by its last byte. *)
LEMMA KeysByFinal ==
    ASSUME NEW m, NEW mods \in SUBSET Modifiers
    PROVE  LET held == 1 + ModifierSum(mods, 1, 2, 4) IN
           /\ KeyByFinal(m, 90, <<0>>) = KeyEvent("BackTab", 0, {})
           /\ \A name \in DOMAIN CursorLetters :
                 /\ ~m.applicationCursor => KeyByFinal(m, CursorLetters[name], <<0>>) = KeyEvent(name, 0, {})
                 /\ KeyByFinal(m, CursorLetters[name], <<1, held>>) = KeyEvent(name, 0, mods)
           /\ \A n \in 1 .. 4 : KeyByFinal(m, 79 + n, <<1, held>>) = KeyEvent("F", n, mods)
           /\ \A name \in DOMAIN EditNumbers :
                 /\ KeyByFinal(m, 126, <<EditNumbers[name]>>) = KeyEvent(name, 0, {})
                 /\ KeyByFinal(m, 126, <<EditNumbers[name], held>>) = KeyEvent(name, 0, mods)
           /\ \A n \in 5 .. 12 :
                 /\ KeyByFinal(m, 126, <<FunctionNumber(n)>>) = KeyEvent("F", n, {})
                 /\ KeyByFinal(m, 126, <<FunctionNumber(n), held>>) = KeyEvent("F", n, mods)
<1> DEFINE sum == ModifierSum(mods, 1, 2, 4)
           held == 1 + sum
<1>1. sum \in 0 .. 7 /\ ModsOf(sum, 1, 2, 4) = mods
    BY BitsOfKeys
<1> HIDE DEF sum
<1>2. held - 1 = sum /\ held \in Nat
    BY <1>1
<1> HIDE DEF held
<1>3. ModsOf(held - 1, 1, 2, 4) = mods
    BY <1>1, <1>2
<1> DEFINE modsOf(numbers) == IF Len(numbers) = 2 THEN ModsOf(numbers[2] - 1, 1, 2, 4) ELSE {}
           functions(numbers) == {k \in DOMAIN FunctionNumbers : FunctionNumbers[k] = numbers[1]}
           g1(final, numbers) == final = 90 /\ numbers = <<0>>
           g2(final, numbers) == final \in DOMAIN LetterKeys /\ numbers = <<0>> /\ ~m.applicationCursor
           g3(final, numbers) == final \in DOMAIN LetterKeys /\ Len(numbers) = 2
           g4(final, numbers) == final \in 80 .. 83 /\ Len(numbers) = 2
           g5(final, numbers) == final = 126 /\ numbers[1] \in DOMAIN NumberKeys
           g6(final, numbers) == final = 126 /\ functions(numbers) # {}
           t2(final) == KeyEvent(LetterKeys[final], 0, {})
           t3(final, numbers) == KeyEvent(LetterKeys[final], 0, modsOf(numbers))
           t4(final, numbers) == KeyEvent("F", final - 79, modsOf(numbers))
           t5(numbers) == KeyEvent(NumberKeys[numbers[1]], 0, modsOf(numbers))
           t6(numbers) == KeyEvent("F", 4 + CHOOSE k \in functions(numbers) : TRUE, modsOf(numbers))
<1>4. \A final, numbers : KeyByFinal(m, final, numbers) =
        CASE g1(final, numbers) -> KeyEvent("BackTab", 0, {})
          [] g2(final, numbers) -> t2(final)
          [] g3(final, numbers) -> t3(final, numbers)
          [] g4(final, numbers) -> t4(final, numbers)
          [] g5(final, numbers) -> t5(numbers)
          [] g6(final, numbers) -> t6(numbers)
          [] OTHER -> Unknown
    BY Zenon DEF KeyByFinal
<1>5. /\ \A a : modsOf(<<a>>) = {}
      /\ \A a : modsOf(<<a, held>>) = mods
      /\ \A a : Len(<<a>>) = 1 /\ <<a>>[1] = a
      /\ \A a, b : Len(<<a, b>>) = 2 /\ <<a, b>>[1] = a
    BY <1>3
<1>5a. \A a, b : <<a, b>> # <<0>>
    <2> TAKE a, b
    <2>1. Len(<<a, b>>) = 2 /\ Len(<<0>>) = 1
        OBVIOUS
    <2> QED
        BY <2>1
<1>6. /\ \A a, b : functions(<<a, b>>) = functions(<<a>>)
      /\ \A n \in 5 .. 12 : functions(<<FunctionNumber(n)>>) = {n - 4}
    <2>1. \A a, b : functions(<<a, b>>) = functions(<<a>>)
        BY <1>5
    <2>2. \A n \in 5 .. 12 : functions(<<FunctionNumber(n)>>) = {n - 4}
        <3> TAKE n \in 5 .. 12
        <3>1. <<FunctionNumber(n)>>[1] = FunctionNumber(n)
            BY <1>5
        <3> QED
            BY <3>1, FunctionsAre
    <2> QED
        BY <2>1, <2>2
<1> HIDE DEF modsOf, functions
<1>7. KeyByFinal(m, 90, <<0>>) = KeyEvent("BackTab", 0, {})
    <2>1. g1(90, <<0>>) /\ ~g2(90, <<0>>) /\ ~g3(90, <<0>>) /\ ~g4(90, <<0>>) /\ ~g5(90, <<0>>) /\ ~g6(90, <<0>>)
        BY <1>5, LetterKeysAre
    <2> HIDE DEF g1, g2, g3, g4, g5, g6, t2, t3, t4, t5, t6
    <2> QED
        BY <1>4, <2>1
<1>8. ASSUME NEW name \in DOMAIN CursorLetters, ~m.applicationCursor
      PROVE  KeyByFinal(m, CursorLetters[name], <<0>>) = KeyEvent(name, 0, {})
    <2> DEFINE final == CursorLetters[name]
    <2>1. final \in DOMAIN LetterKeys /\ final \in {65, 66, 67, 68, 70, 72} /\ LetterKeys[final] = name
        BY LetterKeysAre
    <2> HIDE DEF final
    <2>2. ~g1(final, <<0>>) /\ g2(final, <<0>>) /\ ~g3(final, <<0>>) /\ ~g4(final, <<0>>) /\ ~g5(final, <<0>>)
          /\ ~g6(final, <<0>>)
        BY <1>5, <1>8, <2>1
    <2>3. t2(final) = KeyEvent(name, 0, {})
        BY <2>1
    <2> HIDE DEF g1, g2, g3, g4, g5, g6, t2, t3, t4, t5, t6
    <2>4. KeyByFinal(m, final, <<0>>) = t2(final)
        BY <1>4, <2>2
    <2> QED
        BY <2>3, <2>4 DEF final
<1>9. ASSUME NEW name \in DOMAIN CursorLetters
      PROVE  KeyByFinal(m, CursorLetters[name], <<1, held>>) = KeyEvent(name, 0, mods)
    <2> DEFINE final == CursorLetters[name]
               numbers == <<1, held>>
    <2>1. final \in DOMAIN LetterKeys /\ final \in {65, 66, 67, 68, 70, 72} /\ LetterKeys[final] = name
        BY LetterKeysAre
    <2> HIDE DEF final
    <2>2. numbers # <<0>> /\ Len(numbers) = 2
        BY <1>5, <1>5a
    <2>3. t3(final, numbers) = KeyEvent(name, 0, mods)
        BY <1>5, <2>1
    <2> HIDE DEF numbers
    <2>4. ~g1(final, numbers) /\ ~g2(final, numbers) /\ g3(final, numbers) /\ ~g4(final, numbers)
          /\ ~g5(final, numbers) /\ ~g6(final, numbers)
        BY <2>1, <2>2
    <2> HIDE DEF g1, g2, g3, g4, g5, g6, t2, t3, t4, t5, t6
    <2>5. KeyByFinal(m, final, numbers) = t3(final, numbers)
        BY <1>4, <2>4
    <2> QED
        BY <2>3, <2>5 DEF final, numbers
<1>10. ASSUME NEW n \in 1 .. 4
       PROVE  KeyByFinal(m, 79 + n, <<1, held>>) = KeyEvent("F", n, mods)
    <2> DEFINE final == 79 + n
               numbers == <<1, held>>
    <2>1. final \in 80 .. 83 /\ final - 79 = n /\ final \notin DOMAIN LetterKeys
        BY LetterKeysAre
    <2>2. numbers # <<0>> /\ Len(numbers) = 2
        BY <1>5, <1>5a
    <2>3. t4(final, numbers) = KeyEvent("F", n, mods)
        BY <1>5, <2>1
    <2> HIDE DEF numbers, final
    <2>4. ~g1(final, numbers) /\ ~g2(final, numbers) /\ ~g3(final, numbers) /\ g4(final, numbers)
          /\ ~g5(final, numbers) /\ ~g6(final, numbers)
        BY <2>1, <2>2
    <2> HIDE DEF g1, g2, g3, g4, g5, g6, t2, t3, t4, t5, t6
    <2>5. KeyByFinal(m, final, numbers) = t4(final, numbers)
        BY <1>4, <2>4
    <2> QED
        BY <2>3, <2>5 DEF final, numbers
<1>11. ASSUME NEW name \in DOMAIN EditNumbers, NEW numbers, numbers = <<EditNumbers[name]>> \/ numbers = <<EditNumbers[name], held>>
       PROVE  KeyByFinal(m, 126, numbers) = KeyEvent(name, 0, modsOf(numbers))
    <2>1. numbers[1] = EditNumbers[name]
        BY <1>5, <1>11
    <2>2. numbers[1] \in {2, 3, 5, 6} /\ NumberKeys[numbers[1]] = name
        BY <2>1, NumberKeysAre
    <2>3. functions(numbers) = {}
        BY <2>2 DEF functions, FunctionNumbers
    <2>4. ~g1(126, numbers) /\ ~g2(126, numbers) /\ ~g3(126, numbers) /\ ~g4(126, numbers)
          /\ g5(126, numbers) /\ ~g6(126, numbers)
        BY <2>2, <2>3, NumberKeysAre, LetterKeysAre
    <2>5. t5(numbers) = KeyEvent(name, 0, modsOf(numbers))
        BY <2>2
    <2> HIDE DEF g1, g2, g3, g4, g5, g6, t2, t3, t4, t5, t6
    <2>6. KeyByFinal(m, 126, numbers) = t5(numbers)
        BY <1>4, <2>4
    <2> QED
        BY <2>5, <2>6
<1>12. ASSUME NEW n \in 5 .. 12, NEW numbers, numbers = <<FunctionNumber(n)>> \/ numbers = <<FunctionNumber(n), held>>
       PROVE  KeyByFinal(m, 126, numbers) = KeyEvent("F", n, modsOf(numbers))
    <2>1. numbers[1] = FunctionNumber(n) /\ numbers[1] \in 15 .. 24
        BY <1>5, <1>12, FunctionsAre
    <2>2. functions(numbers) = {n - 4}
        BY <1>6, <1>12
    <2>3. ~g1(126, numbers) /\ ~g2(126, numbers) /\ ~g3(126, numbers) /\ ~g4(126, numbers)
          /\ ~g5(126, numbers) /\ g6(126, numbers)
        BY <2>1, <2>2, NumberKeysAre, LetterKeysAre
    <2>4. (CHOOSE k \in functions(numbers) : TRUE) = n - 4
        BY <2>2
    <2>5. t6(numbers) = KeyEvent("F", n, modsOf(numbers))
        <3>1. 4 + (n - 4) = n
            OBVIOUS
        <3> QED
            BY <2>4, <3>1, Zenon
    <2> HIDE DEF g1, g2, g3, g4, g5, g6, t2, t3, t4, t5, t6
    <2>6. KeyByFinal(m, 126, numbers) = t6(numbers)
        BY <1>4, <2>3
    <2> QED
        BY <2>5, <2>6
<1> HIDE DEF g1, g2, g3, g4, g5, g6, t2, t3, t4, t5, t6
<1>13. \A name \in DOMAIN EditNumbers :
                 /\ KeyByFinal(m, 126, <<EditNumbers[name]>>) = KeyEvent(name, 0, {})
                 /\ KeyByFinal(m, 126, <<EditNumbers[name], held>>) = KeyEvent(name, 0, mods)
    BY <1>5, <1>11
<1>14. \A n \in 5 .. 12 :
                 /\ KeyByFinal(m, 126, <<FunctionNumber(n)>>) = KeyEvent("F", n, {})
                 /\ KeyByFinal(m, 126, <<FunctionNumber(n), held>>) = KeyEvent("F", n, mods)
    BY <1>5, <1>12
<1> QED
    BY <1>7, <1>8, <1>9, <1>10, <1>13, <1>14 DEF held, sum

-----------------------------------------------------------------------------
(* What is sent and what it says. *)

(* What is written for one input: it is read as what it means, and it is read
   so whatever follows it, unless it is the beginning of a sequence. *)
Item(m, w) == w \in Beginnings \/ Reads(m, w, EventsIn(m, w))

Says(m, w, meaning) == w \in Bytes /\ EventsIn(m, w) = meaning /\ Item(m, w)

(* What is read on its own, whatever follows, is said. *)
LEMMA ReadsSay ==
    ASSUME NEW m, NEW w, NEW meaning, Reads(m, w, meaning)
    PROVE  Says(m, w, meaning)
<1>1. EventsIn(m, w) = meaning /\ w \in Bytes
    <2>1. \A u, e : Reads(m, u, e) => EventsIn(m, u) = e
        BY ReadsBoth
    <2>2. w \in Bytes
        BY DEF Reads
    <2> QED
        BY <2>1, <2>2
<1> QED
    BY <1>1 DEF Says, Item

(* A byte, and what there is of a sequence. *)
LEMMA Short ==
    /\ \A a \in Nat : <<a>> \in Bytes /\ <<a>> # <<>> /\ Len(<<a>>) = 1 /\ <<a>>[1] = a
    /\ \A a, b \in Nat : <<a, b>> \in Bytes /\ Len(<<a, b>>) = 2 /\ <<a, b>>[1] = a /\ <<a, b>>[2] = b
<1>1. \A a \in Nat : <<a>> \in Seq(Nat) /\ Len(<<a>>) = 1 /\ <<a>>[1] = a
    OBVIOUS
<1>2. \A a, b \in Nat : <<a, b>> \in Seq(Nat) /\ Len(<<a, b>>) = 2 /\ <<a, b>>[1] = a /\ <<a, b>>[2] = b
    OBVIOUS
<1>3. \A a : <<a>> # <<>>
    OBVIOUS
<1> QED
    BY <1>1, <1>2, <1>3 DEF Bytes

(* Behind the first element. *)
LEMMA BehindFirst ==
    ASSUME NEW a \in Nat, NEW u \in Bytes
    PROVE  /\ <<a>> \o u \in Bytes /\ Len(<<a>> \o u) = 1 + Len(u) /\ (<<a>> \o u)[1] = a
           /\ \A i \in 1 .. Len(u) : (<<a>> \o u)[1 + i] = u[i]
           /\ Behind(<<a>> \o u, 1) = u
<1> DEFINE q == <<a>> \o u
<1>1. <<a>> \in Seq(Nat) /\ u \in Seq(Nat) /\ Len(<<a>>) = 1 /\ <<a>>[1] = a
    BY Short DEF Bytes
<1>2. /\ q \in Seq(Nat) /\ Len(q) = Len(<<a>>) + Len(u)
      /\ \A i \in 1 .. Len(<<a>>) : q[i] = <<a>>[i]
      /\ \A i \in 1 .. Len(u) : q[Len(<<a>>) + i] = u[i]
    BY <1>1, Begins
<1> HIDE DEF q
<1>3. Len(q) = 1 + Len(u) /\ q[1] = a /\ \A i \in 1 .. Len(u) : q[1 + i] = u[i]
    <2>1. 1 \in 1 .. 1
        OBVIOUS
    <2> QED
        BY <1>1, <1>2, <2>1, Zenon
<1>4. Len(u) \in Nat
    BY <1>1
<1> DEFINE s == Onward(q, 1)
<1>5. 1 \in 0 .. Len(q)
    BY <1>3, <1>4
<1>6. s \in Seq(Nat) /\ Len(s) = Len(q) - 1 /\ EndsIn(q, 1, s)
    BY <1>2, <1>5, OnwardProperties
<1>7. Len(s) = Len(u)
    BY <1>3, <1>4, <1>6
<1>8. \A i \in 1 .. Len(s) : s[i] = u[i]
    BY <1>3, <1>6, <1>7, Zenon DEF EndsIn
<1> HIDE DEF s
<1>9. s = u
    BY <1>1, <1>6, <1>7, <1>8, SeqEqual
<1>10. Behind(q, 1) = u
    BY <1>9 DEF s, Onward, Behind
<1>11. q \in Bytes
    BY <1>2 DEF Bytes
<1> QED
    BY <1>3, <1>10, <1>11 DEF q

(* An Esc, and what may come behind it. *)
LEMMA EscReads ==
    ASSUME NEW m, NEW q \in Bytes, Len(q) >= 1, q[1] = 27
    PROVE  /\ Len(q) = 1 => EventIn(m, q) = Taken(CharEvent(27), 1)
           /\ Len(q) >= 3 /\ q[2] = 79 => EventIn(m, q) = Taken(Ss3Key(m, q[3]), 3)
           /\ Len(q) >= 2 /\ q[2] # 27 /\ (q[2] \in {79, 91} => Len(q) = 2) =>
                 EventIn(m, q) = Taken(KeyEvent("Alt", CharIn(Behind(q, 1)).char, {}), 1 + CharIn(Behind(q, 1)).length)
<1> DEFINE Byte(k) == IF k <= Len(q) THEN q[k] ELSE -1
           typed == CharIn(q)
           meta == CharIn(Behind(q, 1))
           g1 == q[1] # 27
           g2 == q[1] = 27 /\ Byte(2) \in {-1, 27}
           g3 == q[1] = 27 /\ Byte(2) = 91 /\ Byte(3) = 77 /\ m.mouse # 0 /\ m.encoding \in {0, 1005}
           g4 == q[1] = 27 /\ Byte(2) = 91 /\ Byte(3) # 77 /\ (\E j \in 3 .. Len(q) : q[j] >= 64)
           g5 == q[1] = 27 /\ Byte(2) = 79 /\ Byte(3) # -1
           t1 == Taken(CharEvent(typed.char), typed.length)
           t2 == Taken(CharEvent(27), 1)
           t3 == OldMouse(m, q)
           t4 == CsiIn(m, q)
           t5 == Taken(Ss3Key(m, q[3]), 3)
           t6 == Taken(KeyEvent("Alt", meta.char, {}), 1 + meta.length)
<1>1. EventIn(m, q) = CASE g1 -> t1 [] g2 -> t2 [] g3 -> t3 [] g4 -> t4 [] g5 -> t5 [] OTHER -> t6
    BY Zenon DEF EventIn
<1>2. Len(q) \in Nat /\ \A i \in 1 .. Len(q) : q[i] \in Nat
    BY DEF Bytes
<1>3. Len(q) = 1 => ~g1 /\ g2 /\ ~g3 /\ ~g4 /\ ~g5
    BY <1>2
<1>4. Len(q) >= 3 /\ q[2] = 79 => ~g1 /\ ~g2 /\ ~g3 /\ ~g4 /\ g5
    <2> SUFFICES ASSUME Len(q) >= 3, q[2] = 79 PROVE ~g1 /\ ~g2 /\ ~g3 /\ ~g4 /\ g5
        OBVIOUS
    <2>1. Byte(2) = 79 /\ Byte(3) = q[3]
        BY <1>2
    <2>2. q[3] \in Nat
        BY <1>2
    <2> HIDE DEF Byte
    <2> QED
        BY <2>1, <2>2
<1>5. Len(q) >= 2 /\ q[2] # 27 /\ (q[2] \in {79, 91} => Len(q) = 2) => ~g1 /\ ~g2 /\ ~g3 /\ ~g4 /\ ~g5
    <2> SUFFICES ASSUME Len(q) >= 2, q[2] # 27, q[2] \in {79, 91} => Len(q) = 2
                 PROVE  ~g1 /\ ~g2 /\ ~g3 /\ ~g4 /\ ~g5
        OBVIOUS
    <2>1. Byte(2) = q[2] /\ q[2] \in Nat
        BY <1>2
    <2>2. Len(q) = 2 => Byte(3) = -1 /\ 3 .. Len(q) = {}
        BY <1>2
    <2> HIDE DEF Byte
    <2> QED
        BY <2>1, <2>2
<1> HIDE DEF g1, g2, g3, g4, g5, t1, t2, t3, t4, t5
<1> QED
    BY <1>1, <1>3, <1>4, <1>5 DEF t2, t5

(* The keys that others begin like. *)
LEMMA BeginningsSay ==
    ASSUME NEW m
    PROVE  /\ Says(m, <<27>>, <<CharEvent(27)>>)
           /\ \A c \in {79, 91} : Says(m, <<27>> \o Utf8Of(c), <<KeyEvent("Alt", c, {})>>)
<1>1. EventsIn(m, <<>>) = <<>>
    BY EventsNext
<1>2. Says(m, <<27>>, <<CharEvent(27)>>)
    <2> DEFINE w == <<27>>
    <2>1. w \in Bytes /\ w # <<>> /\ Len(w) = 1 /\ w[1] = 27
        BY Short
    <2>2. EventIn(m, w) = Taken(CharEvent(27), 1)
        BY <2>1, EscReads
    <2>3. Onward(w, 1) = <<>>
        BY <2>1 DEF Onward
    <2>4. w \in Beginnings
        BY DEF Beginnings
    <2> HIDE DEF w
    <2>5. EventsIn(m, w) = <<EventIn(m, w).event>> \o EventsIn(m, Onward(w, EventIn(m, w).length))
        BY <2>1, EventsNext
    <2>6. EventIn(m, w).event = CharEvent(27) /\ EventIn(m, w).length = 1
        BY <2>2 DEF Taken
    <2>7. EventsIn(m, w) = <<CharEvent(27)>> \o <<>>
        BY <1>1, <2>3, <2>5, <2>6
    <2> QED
        BY <2>1, <2>4, <2>7 DEF Says, Item, w
<1>3. ASSUME NEW c \in {79, 91}
      PROVE  Says(m, <<27>> \o Utf8Of(c), <<KeyEvent("Alt", c, {})>>)
    <2> DEFINE w == <<27>> \o Utf8Of(c)
    <2>0. c \in Nat /\ c < 128 /\ c \in Char
        BY SMT DEF Char
    <2>1. Utf8Of(c) = <<c>>
        BY <2>0, Utf8Cases
    <2>2. <<c>> \in Bytes /\ Len(<<c>>) = 1 /\ <<c>>[1] = c /\ 27 \in Nat
        BY <2>0, Short
    <2>3. w \in Bytes /\ Len(w) = 2 /\ w[1] = 27 /\ w[2] = c /\ Behind(w, 1) = <<c>>
        <3>1. /\ w \in Bytes /\ Len(w) = 1 + Len(<<c>>) /\ w[1] = 27 /\ Behind(w, 1) = <<c>>
              /\ \A i \in 1 .. Len(<<c>>) : w[1 + i] = <<c>>[i]
            BY <2>1, <2>2, BehindFirst
        <3>2. w[1 + 1] = c
            BY <2>2, <3>1
        <3> QED
            BY <2>2, <3>1, <3>2
    <2>4. w = <<27, c>>
        <3>1. <<27, c>> \in Seq(Nat) /\ Len(<<27, c>>) = 2 /\ <<27, c>>[1] = 27 /\ <<27, c>>[2] = c
            BY <2>0, <2>2, Short DEF Bytes
        <3>2. w \in Seq(Nat)
            BY <2>3 DEF Bytes
        <3> HIDE DEF w
        <3>3. \A i \in 1 .. Len(w) : w[i] = <<27, c>>[i]
            BY <2>3, <3>1
        <3> QED
            BY <2>3, <3>1, <3>2, <3>3, SeqEqual
    <2>5. w \in Beginnings
        BY <2>4 DEF Beginnings
    <2>6. CharIn(<<c>>) = [char |-> c, length |-> 1]
        BY <2>0, <2>2 DEF CharIn
    <2> HIDE DEF w
    <2>7. EventIn(m, w) = Taken(KeyEvent("Alt", CharIn(Behind(w, 1)).char, {}), 1 + CharIn(Behind(w, 1)).length)
        BY <2>0, <2>3, EscReads
    <2>8. EventIn(m, w).event = KeyEvent("Alt", c, {}) /\ EventIn(m, w).length = 2
        BY <2>3, <2>6, <2>7 DEF Taken
    <2>9. Onward(w, 2) = <<>>
        BY <2>3 DEF Onward, Bytes
    <2>10. EventsIn(m, w) = <<EventIn(m, w).event>> \o EventsIn(m, Onward(w, EventIn(m, w).length))
        <3>1. w # <<>>
            BY <2>3
        <3> QED
            BY <2>3, <3>1, EventsNext
    <2>11. EventsIn(m, w) = <<KeyEvent("Alt", c, {})>>
        <3> HIDE DEF KeyEvent
        <3>1. EventsIn(m, w) = <<KeyEvent("Alt", c, {})>> \o <<>>
            BY <1>1, <2>8, <2>9, <2>10
        <3> QED
            BY <3>1
    <2> QED
        BY <2>3, <2>5, <2>11 DEF Says, Item, w
<1> QED
    BY <1>2, <1>3

-----------------------------------------------------------------------------
(* Keys are told. *)

(* A character with Alt is read as that. *)
LEMMA AltReads ==
    ASSUME NEW m, NEW c \in Char, c \notin {27, 79, 91}
    PROVE  Reads(m, <<27>> \o Utf8Of(c), <<KeyEvent("Alt", c, {})>>)
<1> DEFINE u == Utf8Of(c)
           w == <<27>> \o u
<1>1. u \in Bytes /\ u # <<>> /\ (c < 128 => u = <<c>>) /\ (c >= 128 => \A i \in 1 .. Len(u) : u[i] >= 128)
    BY Utf8OfType
<1>2. c \in Nat
    BY DEF Char
<1>3. u[1] \notin {27, 79, 91} /\ Len(u) >= 1 /\ Len(u) \in Nat
    <2>1. Len(u) \in Nat /\ Len(u) >= 1
        BY <1>1 DEF Bytes
    <2>2. CASE c < 128
        <3>1. u[1] = c
            BY <1>1, <1>2, <2>2, Short
        <3> QED
            BY <2>1, <3>1
    <2>3. CASE ~(c < 128)
        <3>1. c >= 128
            BY <1>2, <2>3
        <3>2. u[1] >= 128
            BY <1>1, <2>1, <3>1
        <3> HIDE DEF u
        <3> QED
            BY <2>1, <3>2
    <2> QED
        BY <2>2, <2>3
<1> HIDE DEF u
<1>4. 27 \in Nat
    OBVIOUS
<1>5. w \in Bytes /\ Len(w) = 1 + Len(u)
    BY <1>1, <1>4, BehindFirst
<1>6. w # <<>>
    <2>1. Len(w) # 0
        BY <1>3, <1>5
    <2> QED
        BY <2>1
<1>7. ASSUME NEW rest \in Bytes
      PROVE  EventIn(m, w \o rest) = Taken(KeyEvent("Alt", c, {}), Len(w))
    <2> DEFINE v == u \o rest
               q == <<27>> \o v
    <2>1. v \in Bytes /\ Len(v) = Len(u) + Len(rest) /\ v[1] = u[1]
        <3>1. u \in Seq(Nat) /\ rest \in Seq(Nat)
            BY <1>1 DEF Bytes
        <3>2. v \in Seq(Nat) /\ Len(v) = Len(u) + Len(rest) /\ \A i \in 1 .. Len(u) : v[i] = u[i]
            BY <3>1, Begins
        <3> HIDE DEF v
        <3> QED
            BY <1>3, <3>2 DEF Bytes
    <2>2. w \o rest = q
        <3>1. <<27>> \in Seq(Nat) /\ u \in Seq(Nat) /\ rest \in Seq(Nat)
            BY <1>1, Short DEF Bytes
        <3> QED
            BY <3>1, BytesAssociate, Zenon
    <2>3. CharIn(v) = [char |-> c, length |-> Len(u)]
        BY CharInUtf8 DEF u
    <2> HIDE DEF v
    <2>4. q \in Bytes /\ Len(q) = 1 + Len(v) /\ q[1] = 27 /\ Behind(q, 1) = v /\ \A i \in 1 .. Len(v) : q[1 + i] = v[i]
        BY <1>4, <2>1, BehindFirst
    <2> HIDE DEF q
    <2>5. Len(rest) \in Nat
        BY DEF Bytes
    <2>6. 1 \in 1 .. Len(v) /\ Len(q) >= 2 /\ Len(q) >= 1
        BY <1>3, <2>1, <2>4, <2>5
    <2>7. q[1 + 1] = v[1]
        BY <2>4, <2>6
    <2>8. q[2] \notin {27, 79, 91}
        BY <1>3, <2>1, <2>7
    <2>9. EventIn(m, q) = Taken(KeyEvent("Alt", CharIn(Behind(q, 1)).char, {}), 1 + CharIn(Behind(q, 1)).length)
        BY <2>4, <2>6, <2>8, EscReads
    <2>10. CharIn(Behind(q, 1)).char = c /\ CharIn(Behind(q, 1)).length = Len(u)
        BY <2>3, <2>4
    <2> QED
        BY <1>5, <2>2, <2>9, <2>10
<1> HIDE DEF w
<1>8. Reads(m, w, <<KeyEvent("Alt", c, {})>>)
    BY <1>5, <1>6, <1>7, ReadsOne
<1> QED
    BY <1>8 DEF w, u

(* What follows SS3 is read as its key. *)
LEMMA Ss3Reads ==
    ASSUME NEW m, NEW final \in Nat
    PROVE  Reads(m, Ss3 \o <<final>>, <<Ss3Key(m, final)>>)
<1> DEFINE w == Ss3 \o <<final>>
<1>1. Ss3 = <<27, 79>> /\ Ss3 \in Seq(Nat) /\ Len(Ss3) = 2 /\ Ss3[1] = 27 /\ Ss3[2] = 79
    BY DEF Ss3, ESC
<1>2. <<final>> \in Seq(Nat) /\ Len(<<final>>) = 1 /\ <<final>>[1] = final
    OBVIOUS
<1>3. /\ w \in Seq(Nat) /\ Len(w) = Len(Ss3) + Len(<<final>>)
      /\ \A i \in 1 .. Len(Ss3) : w[i] = Ss3[i]
      /\ \A i \in 1 .. Len(<<final>>) : w[Len(Ss3) + i] = <<final>>[i]
    BY <1>1, <1>2, Begins
<1> HIDE DEF w
<1>4. w \in Seq(Nat) /\ Len(w) = 3 /\ w[1] = 27 /\ w[2] = 79 /\ w[3] = final
    <2>1. w[2 + 1] = final
        BY <1>1, <1>2, <1>3
    <2> QED
        BY <1>1, <1>2, <1>3, <2>1
<1>5. w \in Bytes /\ w # <<>>
    <2>1. Len(w) # 0 /\ w \in Seq(Nat)
        BY <1>4
    <2>2. \A s : Len(s) # 0 => s # <<>>
        OBVIOUS
    <2> QED
        BY <2>1, <2>2 DEF Bytes
<1>6. ASSUME NEW rest \in Bytes
      PROVE  EventIn(m, w \o rest) = Taken(Ss3Key(m, final), Len(w))
    <2> DEFINE q == w \o rest
    <2>1. rest \in Seq(Nat) /\ Len(rest) \in Nat /\ w \in Seq(Nat)
        BY <1>5 DEF Bytes
    <2>2. q \in Seq(Nat) /\ Len(q) = Len(w) + Len(rest) /\ \A i \in 1 .. Len(w) : q[i] = w[i]
        BY <2>1, Begins
    <2> HIDE DEF q
    <2>3. q \in Bytes /\ Len(q) >= 3 /\ Len(q) >= 1 /\ q[1] = 27 /\ q[2] = 79 /\ q[3] = final
        BY <1>4, <2>1, <2>2 DEF Bytes
    <2>4. EventIn(m, q) = Taken(Ss3Key(m, q[3]), 3)
        BY <2>3, EscReads
    <2> QED
        BY <1>4, <2>3, <2>4 DEF q
<1>7. Reads(m, w, <<Ss3Key(m, final)>>)
    BY <1>5, <1>6, ReadsOne
<1> QED
    BY <1>7 DEF w

(* A key with a sequence of its own. *)
LEMMA CsiKeySays ==
    ASSUME NEW m, NEW p \in Params, p # <<>> => p[1] # 60,
           NEW final \in Nat, final >= 64, final \notin {73, 77, 79},
           Len(NumbersIn(p)) # 3, final = 126 => NumbersIn(p) # << 200 >>
    PROVE  Says(m, (Csi \o p) \o <<final>>, <<KeyByFinal(m, final, NumbersIn(p))>>)
<1>1. \A rest \in Bytes : CsiEvent(m, p, final, rest) = Taken(KeyByFinal(m, final, NumbersIn(p)), 0)
    BY CsiKey
<1>2. Reads(m, (Csi \o p) \o <<final>>, <<KeyByFinal(m, final, NumbersIn(p))>>)
    BY <1>1, CsiReads
<1> QED
    BY <1>2, ReadsSay

(* One number before its last byte, or two, or none. *)
LEMMA NumberedSay ==
    ASSUME NEW m, NEW final \in Nat, final >= 64, final \notin {73, 77, 79}
    PROVE  /\ Says(m, Csi \o <<final>>, <<KeyByFinal(m, final, <<0>>)>>)
           /\ \A a \in Nat \ {200} :
                 Says(m, (Csi \o Decimal(a)) \o <<final>>, <<KeyByFinal(m, final, <<a>>)>>)
           /\ \A a, b \in Nat :
                 Says(m, ((Csi \o Decimal(a)) \o (<<59>> \o Decimal(b))) \o <<final>>, <<KeyByFinal(m, final, <<a, b>>)>>)
<1>1. \A a : Len(<<a>>) = 1 /\ <<a>>[1] = a
    OBVIOUS
<1>2. \A a, b : Len(<<a, b>>) = 2
    OBVIOUS
<1>3. Says(m, Csi \o <<final>>, <<KeyByFinal(m, final, <<0>>)>>)
    <2>1. <<>> \in Params /\ NumbersIn(<<>>) = <<0>> /\ Csi \o <<>> = Csi
        BY NumbersNext DEF Params, Csi, ESC
    <2>2. <<0>> # <<200>>
        BY <1>1
    <2> DEFINE p == <<>>
    <2>3. p \in Params /\ (p # <<>> => p[1] # 60) /\ Len(NumbersIn(p)) # 3 /\ NumbersIn(p) # <<200>>
        BY <1>1, <2>1, <2>2
    <2> HIDE DEF p
    <2>4. Says(m, (Csi \o p) \o <<final>>, <<KeyByFinal(m, final, NumbersIn(p))>>)
        BY <2>3, CsiKeySays
    <2> QED
        BY <2>1, <2>4 DEF p
<1>4. ASSUME NEW a \in Nat \ {200}
      PROVE  Says(m, (Csi \o Decimal(a)) \o <<final>>, <<KeyByFinal(m, final, <<a>>)>>)
    <2>1. Decimal(a) \in Params /\ NumbersIn(Decimal(a)) = <<a>> /\ Decimal(a)[1] # 60
        BY NumbersAre, ZenonT(40)
    <2>2. <<a>> # <<200>>
        BY <1>1
    <2> QED
        BY <1>1, <2>1, <2>2, CsiKeySays, SMTT(40)
<1>5. ASSUME NEW a \in Nat, NEW b \in Nat
      PROVE  Says(m, ((Csi \o Decimal(a)) \o (<<59>> \o Decimal(b))) \o <<final>>, <<KeyByFinal(m, final, <<a, b>>)>>)
    <2> DEFINE p == (Decimal(a) \o <<59>>) \o Decimal(b)
    <2>1. p \in Params /\ NumbersIn(p) = <<a, b>> /\ p # <<>> /\ p[1] # 60
        <3>1. IsPair((Decimal(a) \o <<59>>) \o Decimal(b), a, b)
            BY PairsAre
        <3> QED
            BY <3>1, Zenon DEF IsPair
    <2>2. Csi \o p = (Csi \o Decimal(a)) \o (<<59>> \o Decimal(b))
        <3> DEFINE c == Csi
                   d == Decimal(a)
                   e == <<59>>
                   f == Decimal(b)
        <3>1. c \in Seq(Nat) /\ d \in Seq(Nat) /\ e \in Seq(Nat) /\ f \in Seq(Nat)
            BY NumbersAre, ParamsAreBytes, Short DEF Csi, ESC, Bytes
        <3> HIDE DEF c, d, e, f
        <3>2. e \o f \in Seq(Nat)
            BY <3>1, Begins
        <3>3. (d \o e) \o f = d \o (e \o f)
            BY <3>1, BytesAssociate, Zenon
        <3>3a. (c \o d) \o (e \o f) = c \o (d \o (e \o f))
            BY <3>1, <3>2, BytesAssociate, ZenonT(40)
        <3>4. c \o ((d \o e) \o f) = (c \o d) \o (e \o f)
            BY <3>3, <3>3a, Zenon
        <3> QED
            BY <3>4, Zenon DEF c, d, e, f
    <2> HIDE DEF p
    <2>3. <<a, b>> # <<200>>
        BY <1>1, <1>2
    <2>4. Len(NumbersIn(p)) # 3 /\ NumbersIn(p) # <<200>>
        BY <1>2, <2>1, <2>3
    <2>5. Says(m, (Csi \o p) \o <<final>>, <<KeyByFinal(m, final, NumbersIn(p))>>)
        BY <2>1, <2>4, CsiKeySays
    <2>6. Says(m, (Csi \o p) \o <<final>>, <<KeyByFinal(m, final, <<a, b>>)>>)
        BY <2>1, <2>5, Zenon
    <2> QED
        BY <2>2, <2>6, Zenon
<1> QED
    BY <1>3, <1>4, <1>5

(* What is typed with one of the keys is read as that key. *)
LEMMA SimpleSays ==
    ASSUME NEW m
    PROVE  /\ \A c \in Char : Says(m, Utf8Of(c), <<CharEvent(c)>>)
           /\ \A c \in 0 .. 127 : Says(m, <<c>>, <<CharEvent(c)>>)
           /\ \A c \in Char \ {27} : Says(m, <<27>> \o Utf8Of(c), <<KeyEvent("Alt", c, {})>>)
<1>1. \A c \in 0 .. 127 : c \in Char /\ c \in Nat /\ c < 128 /\ Utf8Of(c) = <<c>>
    <2> TAKE c \in 0 .. 127
    <2>1. c \in Nat /\ c < 128 /\ c < 1114112
        BY SMT
    <2>2. c \in Char
        BY <2>1, SMT DEF Char
    <2> QED
        BY <2>1, <2>2, Utf8Cases
<1>2. ASSUME NEW c \in Char
      PROVE  Says(m, Utf8Of(c), <<CharEvent(c)>>)
    <2>1. CASE c = 27
        <3>1. 27 \in 0 .. 127
            OBVIOUS
        <3>2. Utf8Of(27) = <<27>>
            BY <1>1, <3>1
        <3> QED
            BY <2>1, <3>2, BeginningsSay
    <2>2. CASE c # 27
        BY <2>2, CharReads, ReadsSay
    <2> QED
        BY <2>1, <2>2
<1>3. ASSUME NEW c \in Char \ {27}
      PROVE  Says(m, <<27>> \o Utf8Of(c), <<KeyEvent("Alt", c, {})>>)
    <2>1. CASE c \in {79, 91}
        BY <2>1, BeginningsSay
    <2>2. CASE c \notin {79, 91}
        BY <2>2, AltReads, ReadsSay
    <2> QED
        BY <2>1, <2>2
<1>4. \A c \in 0 .. 127 : Says(m, <<c>>, <<CharEvent(c)>>)
    BY <1>1, <1>2
<1> QED
    BY <1>2, <1>3, <1>4

(* Ctrl and a character is a byte below 32, or that of Backspace. *)
LEMMA CtrlSays ==
    ASSUME NEW m, NEW c \in {32, 63} \union 64 .. 95 \union 97 .. 122
    PROVE  Says(m, <<CtrlByte(c)>>, <<CtrlEvent(c)>>)
<1>1. CtrlByte(c) \in 0 .. 127 /\ CtrlEvent(c) = CharEvent(CtrlByte(c))
    <2>1. CASE c = 32
        BY <2>1 DEF CtrlByte, CtrlEvent, CharEvent
    <2>2. CASE c = 63
        BY <2>2 DEF CtrlByte, CtrlEvent
    <2>3. CASE c \in 64 .. 95
        <3>1. c % 32 = c - 64 /\ c - 64 \in 0 .. 127 /\ c # 32 /\ c # 63 /\ c \notin 97 .. 122
            BY <2>3
        <3> QED
            BY <3>1 DEF CtrlByte, CtrlEvent
    <2>4. CASE c \in 97 .. 122
        <3>1. c % 32 = c - 96 /\ c - 96 \in 0 .. 127 /\ c # 32 /\ c # 63
            BY <2>4
        <3>2. (c - 32) - 64 = c - 96
            BY <2>4
        <3>3. CtrlByte(c) = c - 96
            BY <3>1 DEF CtrlByte
        <3>4. CtrlEvent(c) = CharEvent((c - 32) - 64)
            BY <2>4, <3>1 DEF CtrlEvent
        <3> QED
            BY <3>1, <3>2, <3>3, <3>4
    <2> QED
        BY <2>1, <2>2, <2>3, <2>4
<1> QED
    BY <1>1, SimpleSays

(* The keys whose form the modes do not change. *)
LEMMA NamedSay ==
    ASSUME NEW m, NEW name \in DOMAIN Simple
    PROVE  Says(m, Simple[name], <<KeyEvent(name, 0, {})>>)
<1>1. DOMAIN Simple = {"Enter", "Esc", "Tab", "BackTab", "Backspace"}
    BY DEF Simple
<1>2. /\ Simple["Enter"] = <<13>> /\ Simple["Esc"] = <<27>> /\ Simple["Tab"] = <<9>>
      /\ Simple["BackTab"] = Csi \o <<90>> /\ Simple["Backspace"] = <<127>>
    BY DEF Simple, CR, ESC
<1>3. /\ CharEvent(13) = KeyEvent("Enter", 0, {}) /\ CharEvent(27) = KeyEvent("Esc", 0, {})
      /\ CharEvent(9) = KeyEvent("Tab", 0, {}) /\ CharEvent(127) = KeyEvent("Backspace", 0, {})
    BY DEF CharEvent
<1>4. 13 \in 0 .. 127 /\ 27 \in 0 .. 127 /\ 9 \in 0 .. 127 /\ 127 \in 0 .. 127
    OBVIOUS
<1>5. Says(m, Csi \o <<90>>, <<KeyByFinal(m, 90, <<0>>)>>)
    <2>1. 90 \in Nat /\ 90 >= 64 /\ 90 \notin {73, 77, 79}
        OBVIOUS
    <2> QED
        BY <2>1, NumberedSay
<1>6. KeyByFinal(m, 90, <<0>>) = KeyEvent("BackTab", 0, {})
    <2>1. {} \in SUBSET Modifiers
        OBVIOUS
    <2> QED
        BY <2>1, KeysByFinal
<1>7. \A c \in 0 .. 127 : Says(m, <<c>>, <<CharEvent(c)>>)
    BY SimpleSays
<1> HIDE DEF KeyEvent
<1>8. /\ Says(m, <<13>>, <<KeyEvent("Enter", 0, {})>>) /\ Says(m, <<27>>, <<KeyEvent("Esc", 0, {})>>)
      /\ Says(m, <<9>>, <<KeyEvent("Tab", 0, {})>>) /\ Says(m, <<127>>, <<KeyEvent("Backspace", 0, {})>>)
    BY <1>3, <1>4, <1>7, Zenon
<1>9. name = "Enter" \/ name = "Esc" \/ name = "Tab" \/ name = "BackTab" \/ name = "Backspace"
    BY <1>1
<1>10. Says(m, Simple["BackTab"], <<KeyEvent("BackTab", 0, {})>>)
    BY <1>2, <1>5, <1>6, Zenon
<1>12. CASE name = "Enter"
    BY <1>2, <1>8, <1>12
<1>13. CASE name = "Esc"
    BY <1>2, <1>8, <1>13
<1>14. CASE name = "Tab"
    BY <1>2, <1>8, <1>14
<1>15. CASE name = "BackTab"
    BY <1>10, <1>15
<1>16. CASE name = "Backspace"
    BY <1>2, <1>8, <1>16
<1> QED
    BY <1>9, <1>12, <1>13, <1>14, <1>15, <1>16, Zenon

(* The cursor keys, the keys beside them and the function keys, with modifiers
   and without. *)
LEMMA CursorSays ==
    ASSUME NEW m \in AllModes, NEW name \in DOMAIN CursorLetters
    PROVE  /\ ~m.applicationCursor => Says(m, Csi \o <<CursorLetters[name]>>, <<KeyEvent(name, 0, {})>>)
           /\ m.applicationCursor => Says(m, Ss3 \o <<CursorLetters[name]>>, <<KeyEvent(name, 0, {})>>)
<1> DEFINE final == CursorLetters[name]
<1>1. final \in DOMAIN LetterKeys /\ final \in {65, 66, 67, 68, 70, 72} /\ LetterKeys[final] = name
    BY LetterKeysAre
<1>2. ~m.applicationCursor => KeyByFinal(m, final, <<0>>) = KeyEvent(name, 0, {})
    <2>1. {} \in SUBSET Modifiers
        OBVIOUS
    <2> QED
        BY <2>1, KeysByFinal
<1> HIDE DEF final
<1>3. final \in Nat /\ final >= 64 /\ final \notin {73, 77, 79} /\ final \notin 80 .. 83
    BY <1>1
<1>4. Says(m, Csi \o <<final>>, <<KeyByFinal(m, final, <<0>>)>>)
    BY <1>3, NumberedSay
<1>5. m.applicationCursor => Ss3Key(m, final) = KeyEvent(name, 0, {})
    BY <1>1, <1>3 DEF Ss3Key
<1>6. Says(m, Ss3 \o <<final>>, <<Ss3Key(m, final)>>)
    BY <1>3, Ss3Reads, ReadsSay
<1> HIDE DEF KeyEvent
<1> QED
    BY <1>2, <1>4, <1>5, <1>6 DEF final

(* F1 to F4 are told. *)
LEMMA FunctionSays ==
    ASSUME NEW m, NEW n \in 1 .. 4
    PROVE  Says(m, Ss3 \o <<79 + n>>, <<KeyEvent("F", n, {})>>)
<1>1. 79 + n \in 80 .. 83 /\ 79 + n \in Nat /\ (79 + n) - 79 = n
    OBVIOUS
<1>2. Ss3Key(m, 79 + n) = KeyEvent("F", n, {})
    <2> DEFINE final == 79 + n
    <2>1. final \in 80 .. 83 /\ final - 79 = n /\ final \notin DOMAIN LetterKeys
        BY LetterKeysAre
    <2> HIDE DEF final
    <2>2. Ss3Key(m, final) = KeyEvent("F", n, {})
        BY <2>1 DEF Ss3Key
    <2> QED
        BY <2>2 DEF final
<1>3. Says(m, Ss3 \o <<79 + n>>, <<Ss3Key(m, 79 + n)>>)
    BY <1>1, Ss3Reads, ReadsSay
<1> QED
    BY <1>2, <1>3, Zenon

(* The keys of a number are told. *)
LEMMA EditSays ==
    ASSUME NEW m
    PROVE  /\ \A name \in DOMAIN EditNumbers :
                 Says(m, (Csi \o Decimal(EditNumbers[name])) \o <<126>>, <<KeyEvent(name, 0, {})>>)
           /\ \A n \in 5 .. 12 :
                 Says(m, (Csi \o Decimal(FunctionNumber(n))) \o <<126>>, <<KeyEvent("F", n, {})>>)
<1>1. {} \in SUBSET Modifiers
    OBVIOUS
<1>2. 126 \in Nat /\ 126 >= 64 /\ 126 \notin {73, 77, 79}
    OBVIOUS
<1>3. \A a \in Nat \ {200} : Says(m, (Csi \o Decimal(a)) \o <<126>>, <<KeyByFinal(m, 126, <<a>>)>>)
    BY <1>2, NumberedSay, ZenonT(40)
<1>4. ASSUME NEW name \in DOMAIN EditNumbers
      PROVE  Says(m, (Csi \o Decimal(EditNumbers[name])) \o <<126>>, <<KeyEvent(name, 0, {})>>)
    <2>1. EditNumbers[name] \in Nat \ {200}
        BY NumberKeysAre
    <2>2. KeyByFinal(m, 126, <<EditNumbers[name]>>) = KeyEvent(name, 0, {})
        BY <1>1, KeysByFinal
    <2> QED
        BY <1>3, <2>1, <2>2, Zenon
<1>5. ASSUME NEW n \in 5 .. 12
      PROVE  Says(m, (Csi \o Decimal(FunctionNumber(n))) \o <<126>>, <<KeyEvent("F", n, {})>>)
    <2>1. FunctionNumber(n) \in Nat \ {200}
        BY FunctionsAre
    <2>2. KeyByFinal(m, 126, <<FunctionNumber(n)>>) = KeyEvent("F", n, {})
        BY <1>1, KeysByFinal
    <2> QED
        BY <1>3, <2>1, <2>2, Zenon
<1> QED
    BY <1>4, <1>5

(* The keys that are held with modifiers are told with them. *)
LEMMA ChordSays ==
    ASSUME NEW m, NEW mods \in SUBSET Modifiers
    PROVE  LET held == <<59>> \o Decimal(1 + ModifierSum(mods, 1, 2, 4)) IN
           /\ \A name \in DOMAIN CursorLetters :
                 Says(m, ((Csi \o <<49>>) \o held) \o <<CursorLetters[name]>>, <<KeyEvent(name, 0, mods)>>)
           /\ \A n \in 1 .. 4 :
                 Says(m, ((Csi \o <<49>>) \o held) \o <<79 + n>>, <<KeyEvent("F", n, mods)>>)
           /\ \A name \in DOMAIN EditNumbers :
                 Says(m, ((Csi \o Decimal(EditNumbers[name])) \o held) \o <<126>>, <<KeyEvent(name, 0, mods)>>)
           /\ \A n \in 5 .. 12 :
                 Says(m, ((Csi \o Decimal(FunctionNumber(n))) \o held) \o <<126>>, <<KeyEvent("F", n, mods)>>)
<1> DEFINE b == 1 + ModifierSum(mods, 1, 2, 4)
           held == <<59>> \o Decimal(b)
<1>1. b \in Nat
    BY BitsOfKeys
<1>2. /\ \A name \in DOMAIN CursorLetters : KeyByFinal(m, CursorLetters[name], <<1, b>>) = KeyEvent(name, 0, mods)
      /\ \A n \in 1 .. 4 : KeyByFinal(m, 79 + n, <<1, b>>) = KeyEvent("F", n, mods)
      /\ \A name \in DOMAIN EditNumbers : KeyByFinal(m, 126, <<EditNumbers[name], b>>) = KeyEvent(name, 0, mods)
      /\ \A n \in 5 .. 12 : KeyByFinal(m, 126, <<FunctionNumber(n), b>>) = KeyEvent("F", n, mods)
    <2> USE DEF b
    <2>1. \A name \in DOMAIN CursorLetters : KeyByFinal(m, CursorLetters[name], <<1, b>>) = KeyEvent(name, 0, mods)
        BY KeysByFinal, ZenonT(40)
    <2>2. \A n \in 1 .. 4 : KeyByFinal(m, 79 + n, <<1, b>>) = KeyEvent("F", n, mods)
        BY KeysByFinal, ZenonT(40)
    <2>3. \A name \in DOMAIN EditNumbers : KeyByFinal(m, 126, <<EditNumbers[name], b>>) = KeyEvent(name, 0, mods)
        BY KeysByFinal, ZenonT(40)
    <2>4. \A n \in 5 .. 12 : KeyByFinal(m, 126, <<FunctionNumber(n), b>>) = KeyEvent("F", n, mods)
        BY KeysByFinal, ZenonT(40)
    <2> QED
        BY <2>1, <2>2, <2>3, <2>4
<1>3. Decimal(1) = <<49>>
    BY DecimalNext
<1> HIDE DEF b
<1>4. ASSUME NEW final \in Nat, final >= 64, final \notin {73, 77, 79}, NEW a \in Nat
      PROVE  Says(m, ((Csi \o Decimal(a)) \o held) \o <<final>>, <<KeyByFinal(m, final, <<a, b>>)>>)
    BY <1>1, <1>4, NumberedSay
<1> HIDE DEF held, KeyEvent
<1>5. ASSUME NEW name \in DOMAIN CursorLetters
      PROVE  Says(m, ((Csi \o <<49>>) \o held) \o <<CursorLetters[name]>>, <<KeyEvent(name, 0, mods)>>)
    <2>1. CursorLetters[name] \in {65, 66, 67, 68, 70, 72}
        BY LetterKeysAre
    <2>2. CursorLetters[name] \in Nat /\ CursorLetters[name] >= 64 /\ CursorLetters[name] \notin {73, 77, 79}
        BY <2>1
    <2>3. 1 \in Nat
        OBVIOUS
    <2>4. Says(m, ((Csi \o Decimal(1)) \o held) \o <<CursorLetters[name]>>, <<KeyByFinal(m, CursorLetters[name], <<1, b>>)>>)
        BY <1>4, <2>2, <2>3, Zenon
    <2> QED
        BY <1>2, <1>3, <2>4, Zenon
<1>6. ASSUME NEW n \in 1 .. 4
      PROVE  Says(m, ((Csi \o <<49>>) \o held) \o <<79 + n>>, <<KeyEvent("F", n, mods)>>)
    <2>1. 79 + n \in Nat /\ 79 + n >= 64 /\ 79 + n \notin {73, 77, 79} /\ 1 \in Nat
        OBVIOUS
    <2>2. Says(m, ((Csi \o Decimal(1)) \o held) \o <<79 + n>>, <<KeyByFinal(m, 79 + n, <<1, b>>)>>)
        BY <1>4, <2>1, Zenon
    <2> QED
        BY <1>2, <1>3, <2>2, Zenon
<1>7. 126 \in Nat /\ 126 >= 64 /\ 126 \notin {73, 77, 79}
    OBVIOUS
<1>8. ASSUME NEW name \in DOMAIN EditNumbers
      PROVE  Says(m, ((Csi \o Decimal(EditNumbers[name])) \o held) \o <<126>>, <<KeyEvent(name, 0, mods)>>)
    <2>1. EditNumbers[name] \in Nat
        BY NumberKeysAre
    <2> QED
        BY <1>2, <1>4, <1>7, <2>1, ZenonT(40)
<1>9. ASSUME NEW n \in 5 .. 12
      PROVE  Says(m, ((Csi \o Decimal(FunctionNumber(n))) \o held) \o <<126>>, <<KeyEvent("F", n, mods)>>)
    <2>1. FunctionNumber(n) \in Nat
        BY FunctionsAre
    <2> QED
        BY <1>2, <1>4, <1>7, <2>1, ZenonT(40)
<1> QED
    BY <1>5, <1>6, <1>8, <1>9 DEF held, b

(* The names of keys are of one kind or another. *)
LEMMA NamesDiffer ==
    /\ DOMAIN Simple = {"Enter", "Esc", "Tab", "BackTab", "Backspace"}
    /\ DOMAIN CursorLetters = {"Up", "Down", "Right", "Left", "Home", "End"}
    /\ DOMAIN EditNumbers = {"Insert", "Delete", "PageUp", "PageDown"}
<1>1. DOMAIN Simple = {"Enter", "Esc", "Tab", "BackTab", "Backspace"}
    BY DEF Simple
<1> QED
    BY <1>1, LetterKeysAre, NumberKeysAre

(* What is written for a key, by its kind. *)
LEMMA EncodingIs ==
    ASSUME NEW key \in Keys
    PROVE  LET held == <<59>> \o Decimal(1 + ModifierSum(key.mods, 1, 2, 4)) IN
           /\ key.name \in DOMAIN CursorLetters =>
                 /\ Encode(key) = Csi \o <<CursorLetters[key.name]>>
                 /\ EncodeChord(key) = ((Csi \o <<49>>) \o held) \o <<CursorLetters[key.name]>>
           /\ key.name \in DOMAIN EditNumbers =>
                 /\ Encode(key) = (Csi \o Decimal(EditNumbers[key.name])) \o <<126>>
                 /\ EncodeChord(key) = ((Csi \o Decimal(EditNumbers[key.name])) \o held) \o <<126>>
           /\ key.name = "F" /\ key.arg \in 1 .. 4 =>
                 /\ Encode(key) = Ss3 \o <<79 + key.arg>>
                 /\ EncodeChord(key) = ((Csi \o <<49>>) \o held) \o <<79 + key.arg>>
           /\ key.name = "F" /\ key.arg \in 5 .. 12 =>
                 /\ Encode(key) = (Csi \o Decimal(FunctionNumber(key.arg))) \o <<126>>
                 /\ EncodeChord(key) = ((Csi \o Decimal(FunctionNumber(key.arg))) \o held) \o <<126>>
           /\ key.name \in DOMAIN Simple => Encode(key) = Simple[key.name]
           /\ key.name = "Char" => Encode(key) = Utf8Of(key.arg)
           /\ key.name = "Ctrl" => Encode(key) = <<CtrlByte(key.arg)>>
           /\ key.name = "Alt" => Encode(key) = <<27>> \o Utf8Of(key.arg)
<1> DEFINE held == <<59>> \o Decimal(1 + ModifierSum(key.mods, 1, 2, 4))
           g1 == key.name \in DOMAIN Simple
           g2 == key.name \in DOMAIN CursorLetters
           g3 == key.name \in DOMAIN EditNumbers
           g4 == key.name = "F" /\ key.arg \in 1 .. 4
           g5 == key.name = "F" /\ key.arg \in 5 .. 12
           g6 == key.name = "Char"
           g7 == key.name = "Ctrl"
           g8 == key.name = "Alt"
           t1 == Simple[key.name]
           t2 == Csi \o <<CursorLetters[key.name]>>
           t3 == Csi \o Decimal(EditNumbers[key.name]) \o <<Tilde>>
           t4 == Ss3 \o <<79 + key.arg>>
           t5 == Csi \o Decimal(FunctionNumber(key.arg)) \o <<Tilde>>
           t6 == Utf8Of(key.arg)
           t7 == <<CtrlByte(key.arg)>>
           t8 == <<ESC>> \o Utf8Of(key.arg)
           c2 == Csi \o <<49>> \o held \o <<CursorLetters[key.name]>>
           c3 == Csi \o Decimal(EditNumbers[key.name]) \o held \o <<Tilde>>
           c4 == Csi \o <<49>> \o held \o <<79 + key.arg>>
           c5 == Csi \o Decimal(FunctionNumber(key.arg)) \o held \o <<Tilde>>
<1>1. Encode(key) = CASE g1 -> t1 [] g2 -> t2 [] g3 -> t3 [] g4 -> t4 [] g5 -> t5 [] g6 -> t6 [] g7 -> t7 [] g8 -> t8
    BY Zenon DEF Encode
<1>2. EncodeChord(key) = CASE g2 -> c2 [] g3 -> c3 [] g4 -> c4 [] g5 -> c5
    BY Zenon DEF EncodeChord
<1>3. /\ g1 => ~g2 /\ ~g3 /\ ~g4 /\ ~g5 /\ ~g6 /\ ~g7 /\ ~g8
      /\ g2 => ~g1 /\ ~g3 /\ ~g4 /\ ~g5 /\ ~g6 /\ ~g7 /\ ~g8
      /\ g3 => ~g1 /\ ~g2 /\ ~g4 /\ ~g5 /\ ~g6 /\ ~g7 /\ ~g8
      /\ g4 => ~g1 /\ ~g2 /\ ~g3 /\ ~g5 /\ ~g6 /\ ~g7 /\ ~g8
    BY NamesDiffer
<1>4. /\ g5 => ~g1 /\ ~g2 /\ ~g3 /\ ~g4 /\ ~g6 /\ ~g7 /\ ~g8
      /\ g6 => ~g1 /\ ~g2 /\ ~g3 /\ ~g4 /\ ~g5 /\ ~g7 /\ ~g8
      /\ g7 => ~g1 /\ ~g2 /\ ~g3 /\ ~g4 /\ ~g5 /\ ~g6 /\ ~g8
      /\ g8 => ~g1 /\ ~g2 /\ ~g3 /\ ~g4 /\ ~g5 /\ ~g6 /\ ~g7
    BY NamesDiffer
<1>5. /\ t3 = (Csi \o Decimal(EditNumbers[key.name])) \o <<126>>
      /\ t5 = (Csi \o Decimal(FunctionNumber(key.arg))) \o <<126>>
      /\ t8 = <<27>> \o Utf8Of(key.arg)
      /\ c2 = ((Csi \o <<49>>) \o held) \o <<CursorLetters[key.name]>>
      /\ c3 = ((Csi \o Decimal(EditNumbers[key.name])) \o held) \o <<126>>
      /\ c4 = ((Csi \o <<49>>) \o held) \o <<79 + key.arg>>
      /\ c5 = ((Csi \o Decimal(FunctionNumber(key.arg))) \o held) \o <<126>>
    BY Zenon DEF Tilde, ESC
<1> HIDE DEF g1, g2, g3, g4, g5, g6, g7, g8, t1, t2, t3, t4, t5, t6, t7, t8, c2, c3, c4, c5
<1>6. /\ g1 => Encode(key) = t1
      /\ g2 => Encode(key) = t2 /\ EncodeChord(key) = c2
      /\ g3 => Encode(key) = t3 /\ EncodeChord(key) = c3
      /\ g4 => Encode(key) = t4 /\ EncodeChord(key) = c4
      /\ g5 => Encode(key) = t5 /\ EncodeChord(key) = c5
      /\ g6 => Encode(key) = t6
      /\ g7 => Encode(key) = t7
      /\ g8 => Encode(key) = t8
    BY <1>1, <1>2, <1>3, <1>4
<1> HIDE DEF held
<1>7. /\ g2 => Encode(key) = Csi \o <<CursorLetters[key.name]>>
      /\ g2 => EncodeChord(key) = ((Csi \o <<49>>) \o held) \o <<CursorLetters[key.name]>>
      /\ g3 => Encode(key) = (Csi \o Decimal(EditNumbers[key.name])) \o <<126>>
      /\ g3 => EncodeChord(key) = ((Csi \o Decimal(EditNumbers[key.name])) \o held) \o <<126>>
      /\ g4 => Encode(key) = Ss3 \o <<79 + key.arg>>
      /\ g4 => EncodeChord(key) = ((Csi \o <<49>>) \o held) \o <<79 + key.arg>>
      /\ g5 => Encode(key) = (Csi \o Decimal(FunctionNumber(key.arg))) \o <<126>>
      /\ g5 => EncodeChord(key) = ((Csi \o Decimal(FunctionNumber(key.arg))) \o held) \o <<126>>
    BY <1>5, <1>6, Zenon DEF t2, t4
<1>8. /\ g1 => Encode(key) = Simple[key.name]
      /\ g6 => Encode(key) = Utf8Of(key.arg)
      /\ g7 => Encode(key) = <<CtrlByte(key.arg)>>
      /\ g8 => Encode(key) = <<27>> \o Utf8Of(key.arg)
    BY <1>5, <1>6, Zenon DEF t1, t6, t7
<1> QED
    BY <1>7, <1>8, Zenon DEF g1, g2, g3, g4, g5, g6, g7, g8, held

(* Every key that can be sent is the key that is read. *)
LEMMA KeySays ==
    ASSUME NEW m \in AllModes, NEW key \in Keys
    PROVE  Says(m, EncodeModal(key, m.applicationCursor), <<KeyMeans(key)>>)
<1> DEFINE held == <<59>> \o Decimal(1 + ModifierSum(key.mods, 1, 2, 4))
<1>1. m.applicationCursor \in BOOLEAN
    BY DEF AllModes
<1>2. /\ key.mods # {} => EncodeModal(key, m.applicationCursor) = EncodeChord(key)
      /\ key.mods = {} /\ m.applicationCursor /\ key.name \in DOMAIN CursorLetters =>
            EncodeModal(key, m.applicationCursor) = Ss3 \o <<CursorLetters[key.name]>>
      /\ key.mods = {} /\ ~(m.applicationCursor /\ key.name \in DOMAIN CursorLetters) =>
            EncodeModal(key, m.applicationCursor) = Encode(key)
    BY DEF EncodeModal
<1>3. key.name # "Char" /\ key.name # "Ctrl" => KeyMeans(key) = KeyEvent(key.name, key.arg, key.mods)
    BY DEF KeyMeans
<1>4. CASE key.name \in DOMAIN CursorLetters \union DOMAIN EditNumbers
    <2>1. key.arg = 0 /\ key.mods \in SUBSET Modifiers
        BY <1>4, NamesDiffer DEF Keys
    <2>2. key.name # "Char" /\ key.name # "Ctrl"
        BY <1>4, NamesDiffer
    <2>3. KeyMeans(key) = KeyEvent(key.name, 0, key.mods)
        BY <1>3, <2>1, <2>2, Zenon
    <2>4. CASE key.name \in DOMAIN CursorLetters
        <3>1. CASE key.mods # {}
            <4>1. EncodeModal(key, m.applicationCursor) = ((Csi \o <<49>>) \o held) \o <<CursorLetters[key.name]>>
                BY <1>2, <2>4, <3>1, EncodingIs
            <4>2. Says(m, ((Csi \o <<49>>) \o held) \o <<CursorLetters[key.name]>>, <<KeyEvent(key.name, 0, key.mods)>>)
                BY <2>1, <2>4, ChordSays, ZenonT(40)
            <4> QED
                BY <2>3, <4>1, <4>2, Zenon
        <3>2. CASE key.mods = {} /\ m.applicationCursor
            BY <1>2, <2>3, <2>4, <3>2, CursorSays
        <3>3. CASE key.mods = {} /\ ~m.applicationCursor
            BY <1>2, <2>3, <2>4, <3>3, EncodingIs, CursorSays
        <3> QED
            BY <3>1, <3>2, <3>3
    <2>5. CASE key.name \in DOMAIN EditNumbers
        <3>1. CASE key.mods # {}
            <4>1. EncodeModal(key, m.applicationCursor) = ((Csi \o Decimal(EditNumbers[key.name])) \o held) \o <<126>>
                BY <1>2, <2>5, <3>1, EncodingIs
            <4>2. Says(m, ((Csi \o Decimal(EditNumbers[key.name])) \o held) \o <<126>>, <<KeyEvent(key.name, 0, key.mods)>>)
                BY <2>1, <2>5, ChordSays, ZenonT(40)
            <4> QED
                BY <2>3, <4>1, <4>2, Zenon
        <3>2. CASE key.mods = {}
            <4>1. key.name \notin DOMAIN CursorLetters
                BY <2>5, NamesDiffer
            <4>2. EncodeModal(key, m.applicationCursor) = (Csi \o Decimal(EditNumbers[key.name])) \o <<126>>
                BY <1>2, <2>5, <3>2, <4>1, EncodingIs
            <4>3. Says(m, (Csi \o Decimal(EditNumbers[key.name])) \o <<126>>, <<KeyEvent(key.name, 0, {})>>)
                BY <2>5, EditSays
            <4> QED
                BY <2>3, <3>2, <4>2, <4>3, Zenon
        <3> QED
            BY <3>1, <3>2
    <2> QED
        BY <1>4, <2>4, <2>5
<1>5. CASE key.name = "F"
    <2>1. key.arg \in 1 .. 12 /\ key.mods \in SUBSET Modifiers
        BY <1>5, NamesDiffer DEF Keys
    <2>2. KeyMeans(key) = KeyEvent("F", key.arg, key.mods) /\ key.name \notin DOMAIN CursorLetters
        BY <1>3, <1>5, NamesDiffer
    <2>3. key.arg \in 1 .. 4 \/ key.arg \in 5 .. 12
        BY <2>1
    <2>4. CASE key.arg \in 1 .. 4 /\ key.mods # {}
        <3>1. EncodeModal(key, m.applicationCursor) = ((Csi \o <<49>>) \o held) \o <<79 + key.arg>>
            BY <1>2, <1>5, <2>2, <2>4, EncodingIs
        <3>2. Says(m, ((Csi \o <<49>>) \o held) \o <<79 + key.arg>>, <<KeyEvent("F", key.arg, key.mods)>>)
            BY <2>1, <2>4, ChordSays
        <3> QED
            BY <2>2, <2>4, <3>1, <3>2, Zenon
    <2>5. CASE key.arg \in 5 .. 12 /\ key.mods # {}
        <3>1. EncodeModal(key, m.applicationCursor) = ((Csi \o Decimal(FunctionNumber(key.arg))) \o held) \o <<126>>
            BY <1>2, <1>5, <2>2, <2>5, EncodingIs
        <3>2. Says(m, ((Csi \o Decimal(FunctionNumber(key.arg))) \o held) \o <<126>>, <<KeyEvent("F", key.arg, key.mods)>>)
            BY <2>1, <2>5, ChordSays
        <3> QED
            BY <2>2, <2>5, <3>1, <3>2, Zenon
    <2>6. CASE key.arg \in 1 .. 4 /\ key.mods = {}
        <3>1. EncodeModal(key, m.applicationCursor) = Ss3 \o <<79 + key.arg>>
            BY <1>2, <1>5, <2>2, <2>6, EncodingIs
        <3>2. Says(m, Ss3 \o <<79 + key.arg>>, <<KeyEvent("F", key.arg, {})>>)
            BY <2>1, <2>6, FunctionSays
        <3> QED
            BY <2>2, <2>6, <3>1, <3>2, Zenon
    <2>7. CASE key.arg \in 5 .. 12 /\ key.mods = {}
        <3>1. EncodeModal(key, m.applicationCursor) = (Csi \o Decimal(FunctionNumber(key.arg))) \o <<126>>
            BY <1>2, <1>5, <2>2, <2>7, EncodingIs
        <3>2. Says(m, (Csi \o Decimal(FunctionNumber(key.arg))) \o <<126>>, <<KeyEvent("F", key.arg, {})>>)
            BY <2>1, <2>7, EditSays
        <3> QED
            BY <2>2, <2>7, <3>1, <3>2, Zenon
    <2> QED
        BY <2>3, <2>4, <2>5, <2>6, <2>7
<1>6. CASE key.name \notin DOMAIN CursorLetters \union DOMAIN EditNumbers /\ key.name # "F"
    <2>1. key.mods = {}
        BY <1>6 DEF Keys
    <2>2. EncodeModal(key, m.applicationCursor) = Encode(key)
        BY <1>2, <1>6, <2>1
    <2>3. CASE key.name \in DOMAIN Simple
        <3>1. key.arg = 0 /\ key.name # "Char" /\ key.name # "Ctrl"
            BY <2>3, NamesDiffer DEF Keys
        <3>2. KeyMeans(key) = KeyEvent(key.name, 0, {})
            BY <1>3, <2>1, <3>1, Zenon
        <3>3. Encode(key) = Simple[key.name]
            BY <2>3, EncodingIs
        <3> QED
            BY <2>2, <2>3, <3>2, <3>3, NamedSay
    <2>4. CASE key.name = "Char"
        <3>1. key.arg \in Char
            BY <2>4, NamesDiffer DEF Keys
        <3>2. KeyMeans(key) = CharEvent(key.arg)
            BY <2>4 DEF KeyMeans
        <3>3. Encode(key) = Utf8Of(key.arg)
            BY <2>4, EncodingIs
        <3> QED
            BY <2>2, <3>1, <3>2, <3>3, SimpleSays
    <2>5. CASE key.name = "Ctrl"
        <3>1. key.arg \in {32, 63} \union 64 .. 95 \union 97 .. 122
            BY <2>5, NamesDiffer DEF Keys
        <3>2. KeyMeans(key) = CtrlEvent(key.arg)
            BY <2>5 DEF KeyMeans
        <3>3. Encode(key) = <<CtrlByte(key.arg)>>
            BY <2>5, EncodingIs
        <3> QED
            BY <2>2, <3>1, <3>2, <3>3, CtrlSays
    <2>6. CASE key.name = "Alt"
        <3>1. key.arg \in Char \ {27}
            BY <2>6, NamesDiffer DEF Keys, ESC
        <3>2. KeyMeans(key) = KeyEvent("Alt", key.arg, {})
            BY <1>3, <2>1, <2>6
        <3>3. Encode(key) = <<27>> \o Utf8Of(key.arg)
            BY <2>6, EncodingIs
        <3> QED
            BY <2>2, <3>1, <3>2, <3>3, SimpleSays
    <2> QED
        BY <1>6, <2>3, <2>4, <2>5, <2>6 DEF Keys
<1> QED
    BY <1>4, <1>5, <1>6

-----------------------------------------------------------------------------
(* Buttons and modifiers. *)

Buttons == DOMAIN ButtonCodes
Wheels == DOMAIN WheelCodes
Positions == [col : Nat, row : Nat]

(* The number of a button by its bits. *)
LEMMA ButtonBits ==
    ASSUME NEW b \in 0 .. 3, NEW s \in 0 .. 1, NEW a \in 0 .. 1, NEW c \in 0 .. 1,
           NEW motion \in 0 .. 1, NEW wheel \in 0 .. 1, NEW code,
           code = b + 4 * s + 8 * a + 16 * c + 32 * motion + 64 * wheel
    PROVE  /\ code \in Nat /\ code < 128 /\ code % 4 = b
           /\ Bit(code, 4) <=> s = 1
           /\ Bit(code, 8) <=> a = 1
           /\ Bit(code, 16) <=> c = 1
           /\ Bit(code, 32) <=> motion = 1
           /\ Bit(code, 64) <=> wheel = 1
<1>1. code \in Nat /\ code < 128 /\ code % 4 = b
    OBVIOUS
<1>2. (code \div 4) % 2 = s /\ (code \div 8) % 2 = a /\ (code \div 16) % 2 = c
    OBVIOUS
<1>3. (code \div 32) % 2 = motion /\ (code \div 64) % 2 = wheel
    OBVIOUS
<1> QED
    BY <1>1, <1>2, <1>3 DEF Bit

(* Its modifiers, button and kind. *)
LEMMA CodesAre ==
    ASSUME NEW mods \in SUBSET Modifiers, NEW b \in 0 .. 3, NEW motion \in 0 .. 1, NEW wheel \in 0 .. 1, NEW code,
           code = ChordCode(b, mods) + 32 * motion + 64 * wheel
    PROVE  /\ code \in Nat /\ code < 128 /\ code % 4 = b /\ ModsOf(code, 4, 8, 16) = mods
           /\ Bit(code, 32) <=> motion = 1
           /\ Bit(code, 64) <=> wheel = 1
<1> DEFINE n == ModifierSum(mods, 4, 8, 16)
<1>1. PICK s \in 0 .. 1, a \in 0 .. 1, c \in 0 .. 1 :
               /\ ("shift" \in mods <=> s = 1) /\ ("alt" \in mods <=> a = 1) /\ ("ctrl" \in mods <=> c = 1)
               /\ n = 4 * s + 8 * a + 16 * c
    BY ModifierSumIs
<1>2. code = b + n + 32 * motion + 64 * wheel
    BY DEF ChordCode
<1> HIDE DEF n
<1>3. code = b + 4 * s + 8 * a + 16 * c + 32 * motion + 64 * wheel
    BY <1>1, <1>2
<1>4. /\ code \in Nat /\ code < 128 /\ code % 4 = b
      /\ Bit(code, 4) <=> s = 1
      /\ Bit(code, 8) <=> a = 1
      /\ Bit(code, 16) <=> c = 1
      /\ Bit(code, 32) <=> motion = 1
      /\ Bit(code, 64) <=> wheel = 1
    BY <1>3, ButtonBits
<1>5. (Bit(code, 4) <=> "shift" \in mods) /\ (Bit(code, 8) <=> "alt" \in mods) /\ (Bit(code, 16) <=> "ctrl" \in mods)
    BY <1>1, <1>4
<1>6. ModsOf(code, 4, 8, 16) = mods
    BY <1>5, ModsAre
<1> QED
    BY <1>4, <1>6

(* What an event is by the number. *)
LEMMA ByButtonIs ==
    ASSUME NEW mods \in SUBSET Modifiers, NEW at
    PROVE  /\ \A button \in Buttons :
                 LET code == ChordCode(ButtonCodes[button], mods) IN
                 /\ code \in Nat /\ code < 128
                 /\ ByButton(code, at, FALSE) = MouseEvent("press", button, mods, at)
                 /\ ByButton(code, at, TRUE) = MouseEvent("release", button, mods, at)
                 /\ code + MotionCode \in Nat /\ code + MotionCode < 128
                 /\ ByButton(code + MotionCode, at, FALSE) = MouseEvent("motion", button, mods, at)
           /\ ByButton(3, at, FALSE) = MouseEvent("release", "any", {}, at)
           /\ \A wheel \in Wheels :
                 LET code == ChordCode(WheelCodes[wheel], mods) IN
                 /\ code \in Nat /\ code < 128
                 /\ ByButton(code, at, FALSE) = MouseEvent("wheel", wheel, mods, at)
<1>1. ASSUME NEW code, NEW released \in BOOLEAN
      PROVE  ByButton(code, at, released) =
                LET button == ButtonNames[(code % 4) + 1]
                    of == ModsOf(code, 4, 8, 16) IN
                CASE Bit(code, 64) -> MouseEvent("wheel", WheelNames[(code % 4) + 1], of, at)
                  [] ~Bit(code, 64) /\ Bit(code, 32) -> MouseEvent("motion", button, of, at)
                  [] ~Bit(code, 64) /\ ~Bit(code, 32) /\ (released \/ button = "any") -> MouseEvent("release", button, of, at)
                  [] OTHER -> MouseEvent("press", button, of, at)
    BY Zenon DEF ByButton
<1>2. /\ Buttons = {"Left", "Middle", "Right"}
      /\ ButtonCodes["Left"] = 0 /\ ButtonCodes["Middle"] = 1 /\ ButtonCodes["Right"] = 2
    BY DEF Buttons, ButtonCodes
<1>3. ButtonNames[1] = "Left" /\ ButtonNames[2] = "Middle" /\ ButtonNames[3] = "Right" /\ ButtonNames[4] = "any"
    BY DEF ButtonNames
<1>4. WheelNames[1] = "Up" /\ WheelNames[2] = "Down" /\ WheelNames[3] = "Left" /\ WheelNames[4] = "Right"
    BY DEF WheelNames
<1>5. /\ Wheels = {"Up", "Down", "Left", "Right"}
      /\ WheelCodes["Up"] = 64 /\ WheelCodes["Down"] = 65 /\ WheelCodes["Left"] = 66 /\ WheelCodes["Right"] = 67
    BY DEF Wheels, WheelCodes
<1>6. ASSUME NEW b \in 0 .. 3, NEW of \in SUBSET Modifiers, NEW released \in BOOLEAN
      PROVE  LET code == ChordCode(b, of) IN
             /\ code \in Nat /\ code < 128
             /\ ByButton(code, at, released) =
                   IF released \/ ButtonNames[b + 1] = "any" THEN MouseEvent("release", ButtonNames[b + 1], of, at)
                   ELSE MouseEvent("press", ButtonNames[b + 1], of, at)
    <2> DEFINE code == ChordCode(b, of)
    <2>0. ModifierSum(of, 4, 8, 16) \in Nat
        BY ModifierSumIs
    <2>1. code = ChordCode(b, of) + 32 * 0 + 64 * 0
        BY <2>0 DEF ChordCode
    <2> HIDE DEF code
    <2>2. code \in Nat /\ code < 128 /\ code % 4 = b /\ ModsOf(code, 4, 8, 16) = of /\ ~Bit(code, 32) /\ ~Bit(code, 64)
        <3>1. 0 \in 0 .. 1 /\ 0 # 1
            OBVIOUS
        <3> QED
            BY <2>1, <3>1, CodesAre
    <2>3. ByButton(code, at, released) =
             IF released \/ ButtonNames[b + 1] = "any" THEN MouseEvent("release", ButtonNames[b + 1], of, at)
             ELSE MouseEvent("press", ButtonNames[b + 1], of, at)
        BY <1>1, <2>2
    <2> QED
        BY <2>2, <2>3 DEF code
<1>7. ASSUME NEW b \in 0 .. 3
      PROVE  LET code == ChordCode(b, mods) + MotionCode IN
             /\ code \in Nat /\ code < 128
             /\ ByButton(code, at, FALSE) = MouseEvent("motion", ButtonNames[b + 1], mods, at)
    <2> DEFINE code == ChordCode(b, mods) + MotionCode
    <2>0. ModifierSum(mods, 4, 8, 16) \in Nat
        BY ModifierSumIs
    <2>1. code = ChordCode(b, mods) + 32 * 1 + 64 * 0
        BY <2>0 DEF ChordCode, MotionCode
    <2> HIDE DEF code
    <2>2. code \in Nat /\ code < 128 /\ code % 4 = b /\ ModsOf(code, 4, 8, 16) = mods /\ Bit(code, 32) /\ ~Bit(code, 64)
        <3>1. 0 \in 0 .. 1 /\ 0 # 1 /\ 1 \in 0 .. 1
            OBVIOUS
        <3> QED
            BY <2>1, <3>1, CodesAre
    <2>3. ByButton(code, at, FALSE) = MouseEvent("motion", ButtonNames[b + 1], mods, at)
        BY <1>1, <2>2
    <2> QED
        BY <2>2, <2>3 DEF code
<1>8. ASSUME NEW b \in 0 .. 3
      PROVE  LET code == ChordCode(64 + b, mods) IN
             /\ code \in Nat /\ code < 128
             /\ ByButton(code, at, FALSE) = MouseEvent("wheel", WheelNames[b + 1], mods, at)
    <2> DEFINE code == ChordCode(64 + b, mods)
    <2>0. ModifierSum(mods, 4, 8, 16) \in Nat
        BY ModifierSumIs
    <2>1. code = ChordCode(b, mods) + 32 * 0 + 64 * 1
        BY <2>0 DEF ChordCode
    <2> HIDE DEF code
    <2>2. code \in Nat /\ code < 128 /\ code % 4 = b /\ ModsOf(code, 4, 8, 16) = mods /\ Bit(code, 64)
        <3>1. 0 \in 0 .. 1 /\ 0 # 1 /\ 1 \in 0 .. 1
            OBVIOUS
        <3> QED
            BY <2>1, <3>1, CodesAre
    <2>3. ByButton(code, at, FALSE) = MouseEvent("wheel", WheelNames[b + 1], mods, at)
        BY <1>1, <2>2
    <2> QED
        BY <2>2, <2>3 DEF code
<1>9. ASSUME NEW button \in Buttons
      PROVE  LET code == ChordCode(ButtonCodes[button], mods) IN
                 /\ code \in Nat /\ code < 128
                 /\ ByButton(code, at, FALSE) = MouseEvent("press", button, mods, at)
                 /\ ByButton(code, at, TRUE) = MouseEvent("release", button, mods, at)
                 /\ code + MotionCode \in Nat /\ code + MotionCode < 128
                 /\ ByButton(code + MotionCode, at, FALSE) = MouseEvent("motion", button, mods, at)
    <2> DEFINE b == ButtonCodes[button]
    <2>1. b \in 0 .. 3 /\ ButtonNames[b + 1] = button /\ button # "any"
        BY <1>2, <1>3
    <2> HIDE DEF b
    <2>2. /\ ChordCode(b, mods) \in Nat /\ ChordCode(b, mods) < 128
          /\ ByButton(ChordCode(b, mods), at, FALSE) = MouseEvent("press", button, mods, at)
          /\ ByButton(ChordCode(b, mods), at, TRUE) = MouseEvent("release", button, mods, at)
        BY <1>6, <2>1
    <2>3. /\ ChordCode(b, mods) + MotionCode \in Nat /\ ChordCode(b, mods) + MotionCode < 128
          /\ ByButton(ChordCode(b, mods) + MotionCode, at, FALSE) = MouseEvent("motion", button, mods, at)
        BY <1>7, <2>1
    <2> QED
        BY <2>2, <2>3 DEF b
<1>10. ByButton(3, at, FALSE) = MouseEvent("release", "any", {}, at)
    <2>1. ChordCode(3, {}) = 3 /\ {} \in SUBSET Modifiers /\ 3 \in 0 .. 3
        BY DEF ChordCode, ModifierSum
    <2>2. ButtonNames[3 + 1] = "any"
        BY <1>3
    <2>3. ByButton(ChordCode(3, {}), at, FALSE) =
             IF FALSE \/ ButtonNames[3 + 1] = "any" THEN MouseEvent("release", ButtonNames[3 + 1], {}, at)
             ELSE MouseEvent("press", ButtonNames[3 + 1], {}, at)
        BY <1>6, <2>1
    <2> QED
        BY <2>1, <2>2, <2>3
<1>11. ASSUME NEW wheel \in Wheels
      PROVE  LET code == ChordCode(WheelCodes[wheel], mods) IN
                 /\ code \in Nat /\ code < 128
                 /\ ByButton(code, at, FALSE) = MouseEvent("wheel", wheel, mods, at)
    <2>1. \E b \in 0 .. 3 : WheelCodes[wheel] = 64 + b /\ WheelNames[b + 1] = wheel
        <3>1. CASE wheel = "Up"
            BY <1>4, <1>5, <3>1
        <3>2. CASE wheel = "Down"
            BY <1>4, <1>5, <3>2
        <3>3. CASE wheel = "Left"
            BY <1>4, <1>5, <3>3
        <3>4. CASE wheel = "Right"
            BY <1>4, <1>5, <3>4
        <3> QED
            BY <1>5, <3>1, <3>2, <3>3, <3>4
    <2> QED
        BY <1>8, <2>1
<1> QED
    BY <1>9, <1>10, <1>11

-----------------------------------------------------------------------------
(* The encodings of the mouse. *)

(* Behind the first of two. *)
LEMMA BehindJoin ==
    ASSUME NEW u \in Bytes, NEW v \in Bytes
    PROVE  u \o v \in Bytes /\ Len(u \o v) = Len(u) + Len(v) /\ Behind(u \o v, Len(u)) = v
<1> DEFINE q == u \o v
           k == Len(u)
           s == Onward(q, k)
<1>1. u \in Seq(Nat) /\ v \in Seq(Nat)
    BY DEF Bytes
<1>2. q \in Seq(Nat) /\ Len(q) = Len(u) + Len(v) /\ \A i \in 1 .. Len(v) : q[Len(u) + i] = v[i]
    BY <1>1, Begins
<1>3. Len(u) \in Nat /\ Len(v) \in Nat
    BY <1>1
<1> HIDE DEF q
<1>4. k \in 0 .. Len(q)
    BY <1>2, <1>3
<1>5. s \in Seq(Nat) /\ Len(s) = Len(q) - k /\ EndsIn(q, k, s)
    BY <1>2, <1>4, OnwardProperties
<1>6. Len(s) = Len(v)
    BY <1>2, <1>3, <1>5
<1>7. \A i \in 1 .. Len(s) : s[i] = v[i]
    BY <1>2, <1>5, <1>6, Zenon DEF EndsIn
<1> HIDE DEF s
<1>8. s = v
    BY <1>1, <1>5, <1>6, <1>7, SeqEqual
<1>9. Behind(q, k) = v
    BY <1>8 DEF s, Onward, Behind
<1>10. q \in Bytes
    BY <1>2 DEF Bytes
<1> QED
    BY <1>2, <1>9, <1>10 DEF q, k

Abuts(u, v) ==
    /\ u \o v \in Bytes /\ Len(u \o v) = Len(u) + Len(v) /\ Behind(u \o v, Len(u)) = v
    /\ \A i \in 1 .. Len(u) : (u \o v)[i] = u[i]
    /\ \A i \in 1 .. Len(v) : (u \o v)[Len(u) + i] = v[i]

(* The bytes of two one after the other. *)
LEMMA AbutsAlways ==
    ASSUME NEW u \in Bytes, NEW v \in Bytes
    PROVE  Abuts(u, v)
<1>1. u \in Seq(Nat) /\ v \in Seq(Nat)
    BY DEF Bytes
<1>2. (\A i \in 1 .. Len(u) : (u \o v)[i] = u[i]) /\ (\A i \in 1 .. Len(v) : (u \o v)[Len(u) + i] = v[i])
    BY <1>1, Begins
<1>3. u \o v \in Bytes /\ Len(u \o v) = Len(u) + Len(v) /\ Behind(u \o v, Len(u)) = v
    BY BehindJoin
<1> QED
    BY <1>2, <1>3, Zenon DEF Abuts

(* Where the brackets are does not matter. *)
Regroups(s, t, u) == (s \o t) \o u = s \o (t \o u)

(* Sequences put together in another order. *)
LEMMA Regrouped ==
    ASSUME NEW s \in Seq(Nat), NEW t \in Seq(Nat), NEW u \in Seq(Nat)
    PROVE  Regroups(s, t, u)
BY BytesAssociate, Zenon DEF Regroups

AllSeq(x, a, b, c, d, e, f) ==
    /\ x \in Seq(Nat) /\ a \in Seq(Nat) /\ b \in Seq(Nat) /\ c \in Seq(Nat)
    /\ d \in Seq(Nat) /\ e \in Seq(Nat) /\ f \in Seq(Nat)

Rebrackets(x, a, b, c, d, e, f) ==
    /\ ((x \o b) \o c) \o ((d \o e) \o f) = x \o ((((b \o c) \o d) \o e) \o f)
    /\ (((x \o a) \o b) \o c) \o ((d \o e) \o f) = x \o (a \o ((((b \o c) \o d) \o e) \o f))

(* The same of more of them. *)
LEMMA Rebracketed ==
    ASSUME NEW x, NEW a, NEW b, NEW c, NEW d, NEW e, NEW f, AllSeq(x, a, b, c, d, e, f)
    PROVE  Rebrackets(x, a, b, c, d, e, f)
<1>1. \A s, t \in Seq(Nat) : s \o t \in Seq(Nat)
    BY Begins
<1> DEFINE de == d \o e
           g == de \o f
           h == b \o c
           hd == h \o d
           hde == hd \o e
           z == hde \o f
<1>2. /\ x \in Seq(Nat) /\ a \in Seq(Nat) /\ b \in Seq(Nat) /\ c \in Seq(Nat)
      /\ d \in Seq(Nat) /\ e \in Seq(Nat) /\ f \in Seq(Nat)
    BY DEF AllSeq
<1>3. h \in Seq(Nat) /\ de \in Seq(Nat)
    BY <1>1, <1>2
<1>4. hd \in Seq(Nat)
    <2> HIDE DEF h
    <2> QED
        BY <1>1, <1>2, <1>3
<1>5. hde \in Seq(Nat)
    <2> HIDE DEF hd
    <2> QED
        BY <1>1, <1>2, <1>4
<1>6. z \in Seq(Nat)
    <2> HIDE DEF hde
    <2> QED
        BY <1>1, <1>2, <1>5
<1>7. g \in Seq(Nat)
    <2> HIDE DEF de
    <2> QED
        BY <1>1, <1>2, <1>3
<1> HIDE DEF de, g, h, hd, hde, z
<1>8. h \o g = z
    <2>1. Regroups(h, de, f) /\ Regroups(h, d, e)
        BY <1>2, <1>3, Regrouped
    <2>2. (h \o de) \o f = h \o g /\ h \o de = hde
        BY <2>1, Zenon DEF Regroups, g, de, hd, hde
    <2> QED
        BY <2>2, Zenon DEF z
<1>9. ASSUME NEW y \in Seq(Nat)
      PROVE  ((y \o b) \o c) \o g = y \o z
    <2>1. Regroups(y, b, c) /\ Regroups(y, h, g)
        BY <1>2, <1>3, <1>7, Regrouped
    <2>2. (y \o b) \o c = y \o h /\ (y \o h) \o g = y \o (h \o g)
        BY <2>1, Zenon DEF Regroups, h
    <2> QED
        BY <1>8, <2>2, Zenon
<1>10. ((x \o b) \o c) \o g = x \o z
    BY <1>2, <1>9, Zenon
<1>11. (((x \o a) \o b) \o c) \o g = x \o (a \o z)
    <2>1. x \o a \in Seq(Nat)
        BY <1>1, <1>2
    <2>2. (((x \o a) \o b) \o c) \o g = (x \o a) \o z
        BY <1>9, <2>1, Zenon
    <2>3. Regroups(x, a, z)
        BY <1>2, <1>6, Regrouped
    <2> QED
        BY <2>2, <2>3, Zenon DEF Regroups
<1> QED
    BY <1>10, <1>11, Zenon DEF Rebrackets, g, de, z, hde, hd, h

(* The forms with three numbers. *)
Pointed(a, b, c) == (((Decimal(a) \o <<59>>) \o Decimal(b)) \o <<59>>) \o Decimal(c)

(* The three numbers of a mouse report are read as those numbers. *)
LEMMA PointedIs ==
    ASSUME NEW a \in Nat, NEW b \in Nat, NEW c \in Nat
    PROVE  /\ Pointed(a, b, c) \in Params /\ NumbersIn(Pointed(a, b, c)) = <<a, b, c>>
           /\ Pointed(a, b, c) # <<>> /\ Pointed(a, b, c)[1] # 60
<1> DEFINE p == (((Decimal(a) \o <<59>>) \o Decimal(b)) \o <<59>>) \o Decimal(c)
<1>1. p \in Params /\ NumbersIn(p) = <<a, b, c>> /\ p # <<>> /\ p[1] # 60
    BY NumbersAre, ZenonT(40)
<1>2. Pointed(a, b, c) = p
    BY Zenon DEF Pointed
<1> HIDE DEF p
<1> QED
    BY <1>1, <1>2

SgrPoint(code, at, press) ==
    MouseSgr(code, at, press) =
        (Csi \o (<<60>> \o Pointed(code, at.col + 1, at.row + 1))) \o <<IF press THEN 77 ELSE 109>>
UrxvtPoint(code, at) == MouseUrxvt(code, at) = (Csi \o Pointed(32 + code, at.col + 1, at.row + 1)) \o <<77>>

(* The reports of the mouse in decimal are their three numbers and a final. *)
LEMMA MousePoints ==
    ASSUME NEW code \in Nat, NEW at \in Positions, NEW press \in BOOLEAN
    PROVE  SgrPoint(code, at, press) /\ UrxvtPoint(code, at)
<1>1. at.col + 1 \in Nat /\ at.row + 1 \in Nat /\ 32 + code \in Nat
    BY DEF Positions
<1>2. \A a \in Nat : Decimal(a) \in Seq(Nat)
    BY NumbersAre, ParamsAreBytes
<1> DEFINE x == Csi
           a == <<60>>
           b == Decimal(code)
           h == Decimal(32 + code)
           c == <<59>>
           d == Decimal(at.col + 1)
           f == Decimal(at.row + 1)
           end == <<IF press THEN 77 ELSE 109>>
           last == <<77>>
<1>3. x \in Seq(Nat) /\ a \in Seq(Nat) /\ c \in Seq(Nat)
    BY Short DEF Csi, ESC, Bytes
<1>4. b \in Seq(Nat) /\ h \in Seq(Nat) /\ d \in Seq(Nat) /\ f \in Seq(Nat)
    BY <1>1, <1>2
<1>5. /\ MouseSgr(code, at, press) = ((((x \o a) \o b) \o c) \o ((d \o c) \o f)) \o end
      /\ MouseUrxvt(code, at) = (((x \o h) \o c) \o ((d \o c) \o f)) \o last
    BY Zenon DEF MouseSgr, MouseUrxvt, Point
<1>6. /\ Pointed(code, at.col + 1, at.row + 1) = (((b \o c) \o d) \o c) \o f
      /\ Pointed(32 + code, at.col + 1, at.row + 1) = (((h \o c) \o d) \o c) \o f
    BY Zenon DEF Pointed
<1> HIDE DEF x, a, b, h, c, d, f, end, last
<1>7. (((x \o a) \o b) \o c) \o ((d \o c) \o f) = x \o (a \o ((((b \o c) \o d) \o c) \o f))
    <2>1. AllSeq(x, a, b, c, d, c, f)
        BY <1>3, <1>4 DEF AllSeq
    <2>2. Rebrackets(x, a, b, c, d, c, f)
        BY <2>1, Rebracketed
    <2> QED
        BY <2>2, Zenon DEF Rebrackets
<1>8. ((x \o h) \o c) \o ((d \o c) \o f) = x \o ((((h \o c) \o d) \o c) \o f)
    <2>1. AllSeq(x, a, h, c, d, c, f)
        BY <1>3, <1>4 DEF AllSeq
    <2>2. Rebrackets(x, a, h, c, d, c, f)
        BY <2>1, Rebracketed
    <2> QED
        BY <2>2, Zenon DEF Rebrackets
<1>9. /\ MouseSgr(code, at, press) = (x \o (a \o Pointed(code, at.col + 1, at.row + 1))) \o end
      /\ MouseUrxvt(code, at) = (x \o Pointed(32 + code, at.col + 1, at.row + 1)) \o last
    BY <1>5, <1>6, <1>7, <1>8, Zenon
<1> QED
    BY <1>9, Zenon DEF x, a, end, last, SgrPoint, UrxvtPoint

(* A place in numbers. *)
Tells(bytes, code, at) == NumbersIn(bytes) = <<code, at.col + 1, at.row + 1>>

PointsTo(code, at) ==
    LET p == Pointed(code, at.col + 1, at.row + 1) IN p \in Params /\ Tells(p, code, at) /\ p # <<>> /\ p[1] # 60

(* The three numbers tell the button and the place. *)
LEMMA PointsToIt ==
    ASSUME NEW code \in Nat, NEW at \in Positions
    PROVE  PointsTo(code, at)
<1> DEFINE c == at.col + 1
           r == at.row + 1
           p == Pointed(code, c, r)
<1>1. c \in Nat /\ r \in Nat
    BY DEF Positions
<1> HIDE DEF c, r
<1>2. p \in Params /\ NumbersIn(p) = <<code, c, r>> /\ p # <<>> /\ p[1] # 60
    BY <1>1, PointedIs
<1> HIDE DEF p
<1> QED
    BY <1>2, Zenon DEF PointsTo, Tells, p, c, r

Gives(m, p, final, after, event) == CsiEvent(m, p, final, after) = Taken(event, 0)
Told(code, at) == ByButton(code, at, FALSE)
ToldBy(code, at, final) == ByButton(code, at, final = 109)

MouseGives(m, p, final, after, code, at) ==
    /\ m.encoding = 1006 /\ p # <<>> /\ p[1] = 60 /\ Tells(Tail(p), code, at) =>
          Gives(m, p, final, after, ByButton(code, at, final = 109))
    /\ m.encoding = 1015 /\ p # <<>> /\ p[1] # 60 /\ Tells(p, 32 + code, at) /\ final = 77 =>
          Gives(m, p, final, after, ByButton(code, at, FALSE))

(* Their events. *)
LEMMA CsiMouse ==
    ASSUME NEW m, NEW p, NEW final \in Nat, NEW after, NEW code \in Nat, NEW at \in Positions
    PROVE  MouseGives(m, p, final, after, code, at)
<1> DEFINE sgr == p # <<>> /\ p[1] = 60
           numbersOf == NumbersIn(IF sgr THEN Tail(p) ELSE p)
           place == [col |-> numbersOf[2] - 1, row |-> numbersOf[3] - 1]
           closes == {j \in 1 .. Len(after) - 5 : SubSeq(after, j, j + 5) = PasteEnd}
           close == CHOOSE j \in closes : \A k \in closes : j <= k
           g1 == sgr /\ m.encoding = 1006
           g2 == ~sgr /\ Len(numbersOf) = 3 /\ m.encoding = 1015
           g3 == ~sgr /\ final = 126 /\ numbersOf = <<200>> /\ m.paste /\ closes # {}
           g4 == ~sgr /\ final \in {73, 79} /\ m.focus
           t1 == Taken(ByButton(numbersOf[1], place, final = 109), 0)
           t2 == Taken(ByButton(numbersOf[1] - 32, place, FALSE), 0)
           t3 == Taken(PasteEvent(SubSeq(after, 1, close - 1)), close + 5)
           t4 == Taken(FocusEvent(final = 73), 0)
           t5 == Taken(KeyByFinal(m, final, numbersOf), 0)
<1>1. CsiEvent(m, p, final, after) =
        CASE g1 -> t1 [] g2 -> t2 [] g3 -> t3 [] g4 -> t4 [] OTHER -> t5
    BY Zenon DEF CsiEvent
<1>2. ASSUME NEW n \in Nat, numbersOf = <<n, at.col + 1, at.row + 1>>
      PROVE  numbersOf[1] = n /\ Len(numbersOf) = 3 /\ numbersOf # <<200>> /\ place = at
    <2>1. at = [col |-> at.col, row |-> at.row] /\ at.col \in Nat /\ at.row \in Nat
        BY DEF Positions
    <2> HIDE DEF numbersOf
    <2>2. numbersOf[1] = n /\ numbersOf[2] = at.col + 1 /\ numbersOf[3] = at.row + 1 /\ Len(numbersOf) = 3
        BY <1>2
    <2>3. (at.col + 1) - 1 = at.col /\ (at.row + 1) - 1 = at.row
        BY <2>1
    <2>4. place = at
        BY <2>1, <2>2, <2>3
    <2>5. Len(<<200>>) = 1
        OBVIOUS
    <2> QED
        BY <2>2, <2>4, <2>5
<1>3. ASSUME m.encoding = 1006, p # <<>>, p[1] = 60, NumbersIn(Tail(p)) = <<code, at.col + 1, at.row + 1>>
      PROVE  CsiEvent(m, p, final, after) = Taken(ByButton(code, at, final = 109), 0)
    <2>1. sgr /\ numbersOf = <<code, at.col + 1, at.row + 1>>
        BY <1>3
    <2>2. numbersOf[1] = code /\ place = at
        BY <1>2, <2>1
    <2>3. g1 /\ ~g2 /\ ~g3 /\ ~g4
        BY <1>3, <2>1
    <2>4. t1 = Taken(ByButton(code, at, final = 109), 0)
        BY <2>2, Zenon
    <2> HIDE DEF g1, g2, g3, g4, t1, t2, t3, t4, t5
    <2> QED
        BY <1>1, <2>3, <2>4
<1>4. ASSUME m.encoding = 1015, p # <<>>, p[1] # 60, NumbersIn(p) = <<32 + code, at.col + 1, at.row + 1>>,
             final = 77
      PROVE  CsiEvent(m, p, final, after) = Taken(ByButton(code, at, FALSE), 0)
    <2>1. ~sgr /\ numbersOf = <<32 + code, at.col + 1, at.row + 1>> /\ 32 + code \in Nat /\ (32 + code) - 32 = code
        BY <1>4
    <2>2. numbersOf[1] = 32 + code /\ Len(numbersOf) = 3 /\ numbersOf # <<200>> /\ place = at
        BY <1>2, <2>1
    <2>3. ~g1 /\ g2 /\ ~g3 /\ ~g4
        BY <1>4, <2>1, <2>2
    <2>4. t2 = Taken(ByButton(code, at, FALSE), 0)
        BY <2>1, <2>2, Zenon
    <2> HIDE DEF g1, g2, g3, g4, t1, t2, t3, t4, t5
    <2> QED
        BY <1>1, <2>3, <2>4
<1> HIDE DEF sgr, numbersOf, place, closes, close, g1, g2, g3, g4, t1, t2, t3, t4, t5
<1>5. m.encoding = 1006 /\ p # <<>> /\ p[1] = 60 /\ NumbersIn(Tail(p)) = <<code, at.col + 1, at.row + 1>> =>
                 CsiEvent(m, p, final, after) = Taken(ByButton(code, at, final = 109), 0)
    BY <1>3, Zenon
<1>6. m.encoding = 1015 /\ p # <<>> /\ p[1] # 60 /\ NumbersIn(p) = <<32 + code, at.col + 1, at.row + 1>> /\ final = 77 =>
                 CsiEvent(m, p, final, after) = Taken(ByButton(code, at, FALSE), 0)
    BY <1>4, Zenon
<1> QED
    BY <1>5, <1>6, Zenon DEF MouseGives, Tells, Gives

(* What an SGR report is taken for. *)
LEMMA SgrGives ==
    ASSUME NEW m, NEW p, NEW final \in Nat, NEW after, NEW code \in Nat, NEW at \in Positions,
           m.encoding = 1006, p # <<>>, p[1] = 60, Tells(Tail(p), code, at)
    PROVE  Gives(m, p, final, after, ToldBy(code, at, final))
<1>1. MouseGives(m, p, final, after, code, at)
    BY CsiMouse
<1> QED
    BY <1>1, Zenon DEF MouseGives, Told, ToldBy

(* What a urxvt report is taken for. *)
LEMMA UrxvtGives ==
    ASSUME NEW m, NEW p, NEW final \in Nat, final = 77, NEW after, NEW code \in Nat, NEW at \in Positions,
           m.encoding = 1015, p # <<>>, p[1] # 60, Tells(p, 32 + code, at)
    PROVE  Gives(m, p, final, after, Told(code, at))
<1>1. MouseGives(m, p, final, after, code, at)
    BY CsiMouse
<1> QED
    BY <1>1, Zenon DEF MouseGives, Told, ToldBy

-----------------------------------------------------------------------------
(* Reports are read. *)

(* A report in the SGR encoding is read as the event it was of. *)
LEMMA SgrReads ==
    ASSUME NEW m, m.encoding = 1006, NEW code \in Nat, NEW at \in Positions, NEW press \in BOOLEAN
    PROVE  Reads(m, MouseSgr(code, at, press), <<ByButton(code, at, ~press)>>)
<1> DEFINE t == Pointed(code, at.col + 1, at.row + 1)
           p == <<60>> \o t
           final == IF press THEN 77 ELSE 109
           event == ByButton(code, at, ~press)
<1>1. t \in Params /\ Tells(t, code, at)
    <2>1. PointsTo(code, at)
        BY PointsToIt
    <2> QED
        BY <2>1, Zenon DEF PointsTo
<1>2. MouseSgr(code, at, press) = (Csi \o p) \o <<final>>
    <2>1. SgrPoint(code, at, press)
        BY MousePoints
    <2> QED
        BY <2>1, Zenon DEF SgrPoint
<1> HIDE DEF t
<1>3. p \in Params /\ p # <<>> /\ p[1] = 60 /\ Tail(p) = t
    <2>1. <<60>> \in Seq(0 .. 63) /\ t \in Seq(0 .. 63) /\ Len(<<60>>) = 1 /\ <<60>>[1] = 60
        BY <1>1 DEF Params
    <2>2. /\ p \in Seq(0 .. 63) /\ Len(p) = Len(<<60>>) + Len(t)
          /\ \A i \in 1 .. Len(<<60>>) : p[i] = <<60>>[i]
          /\ \A i \in 1 .. Len(t) : p[Len(<<60>>) + i] = t[i]
        BY <2>1, Begins
    <2> HIDE DEF p
    <2>3. Len(t) \in Nat /\ 1 \in 1 .. 1
        BY <2>1
    <2>4. Len(p) = 1 + Len(t) /\ p[1] = 60 /\ \A i \in 1 .. Len(t) : p[1 + i] = t[i]
        <3>1. Len(p) = 1 + Len(t) /\ p[1] = 60
            BY <2>1, <2>2, <2>3
        <3>2. \A i \in 1 .. Len(t) : p[1 + i] = t[i]
            BY <2>1, <2>2
        <3> QED
            BY <3>1, <3>2
    <2>5. Len(p) # 0
        BY <2>3, <2>4
    <2>6. \A s : Len(s) # 0 => s # <<>>
        OBVIOUS
    <2>7. p # <<>>
        BY <2>5, <2>6
    <2>8. Tail(p) \in Seq(0 .. 63) /\ Len(Tail(p)) = Len(p) - 1 /\ \A i \in 1 .. Len(Tail(p)) : Tail(p)[i] = p[i + 1]
        BY <2>2, <2>7, HeadTailProperties
    <2>9. Tail(p) = t
        <3> DEFINE s == Tail(p)
        <3>1. Len(s) = Len(t)
            BY <2>3, <2>4, <2>8
        <3>2. \A i \in 1 .. Len(s) : s[i] = t[i]
            <4> TAKE i \in 1 .. Len(s)
            <4>1. s[i] = p[i + 1] /\ i \in 1 .. Len(t) /\ i + 1 = 1 + i
                BY <2>3, <2>8, <3>1
            <4>2. p[1 + i] = t[i]
                BY <2>4, <4>1
            <4> QED
                BY <4>1, <4>2
        <3> HIDE DEF s
        <3> QED
            BY <2>1, <2>8, <3>1, <3>2, SeqEqual DEF s
    <2> QED
        BY <2>2, <2>4, <2>7, <2>9 DEF Params
<1> HIDE DEF p
<1>4. final \in Nat /\ final >= 64 /\ ((final = 109) = ~press)
    OBVIOUS
<1> HIDE DEF final
<1>5. Tells(Tail(p), code, at)
    BY <1>1, <1>3
<1>6. event = ByButton(code, at, final = 109)
    BY <1>4
<1>7. \A rest \in Bytes : CsiEvent(m, p, final, rest) = Taken(event, 0)
    <2> TAKE rest \in Bytes
    <2>1. Gives(m, p, final, rest, ToldBy(code, at, final))
        BY <1>3, <1>4, <1>5, SgrGives
    <2> QED
        BY <1>6, <2>1, Zenon DEF Gives, ToldBy
<1> HIDE DEF event
<1>8. Reads(m, (Csi \o p) \o <<final>>, <<event>>)
    BY <1>3, <1>4, <1>7, CsiReads
<1> QED
    BY <1>2, <1>8, Zenon DEF event

(* A report in the urxvt encoding is read as the event it was of. *)
LEMMA UrxvtReads ==
    ASSUME NEW m, m.encoding = 1015, NEW code \in Nat, NEW at \in Positions
    PROVE  Reads(m, MouseUrxvt(code, at), <<Told(code, at)>>)
<1> DEFINE n == 32 + code
           p == Pointed(32 + code, at.col + 1, at.row + 1)
           event == ByButton(code, at, FALSE)
           final == 77
<1>1. n \in Nat
    OBVIOUS
<1>2. p \in Params /\ Tells(p, 32 + code, at) /\ p # <<>> /\ p[1] # 60
    <2> HIDE DEF n
    <2>1. PointsTo(n, at)
        BY <1>1, PointsToIt
    <2> QED
        BY <2>1, Zenon DEF PointsTo, n
<1>3. MouseUrxvt(code, at) = (Csi \o p) \o <<final>>
    <2>1. UrxvtPoint(code, at)
        BY MousePoints
    <2> QED
        BY <2>1, Zenon DEF UrxvtPoint
<1> HIDE DEF p
<1>4. final \in Nat /\ final >= 64 /\ final = 77
    OBVIOUS
<1> HIDE DEF final
<1>5. \A rest \in Bytes : CsiEvent(m, p, final, rest) = Taken(event, 0)
    <2> TAKE rest \in Bytes
    <2>1. Gives(m, p, final, rest, Told(code, at))
        BY <1>2, <1>4, UrxvtGives
    <2> QED
        BY <2>1, Zenon DEF Gives, Told
<1> HIDE DEF event
<1>6. Reads(m, (Csi \o p) \o <<final>>, <<event>>)
    BY <1>2, <1>4, <1>5, CsiReads
<1> QED
    BY <1>3, <1>6, Zenon DEF event, Told

(* ESC [ M. *)
LEMMA OldReads ==
    ASSUME NEW m, m.mouse # 0, m.encoding \in {0, 1005}, NEW q \in Bytes, Len(q) >= 3,
           q[1] = 27, q[2] = 91, q[3] = 77
    PROVE  EventIn(m, q) = OldMouse(m, q)
<1> DEFINE Byte(k) == IF k <= Len(q) THEN q[k] ELSE -1
           typed == CharIn(q)
           meta == CharIn(Behind(q, 1))
           g1 == q[1] # 27
           g2 == q[1] = 27 /\ Byte(2) \in {-1, 27}
           g3 == q[1] = 27 /\ Byte(2) = 91 /\ Byte(3) = 77 /\ m.mouse # 0 /\ m.encoding \in {0, 1005}
           g4 == q[1] = 27 /\ Byte(2) = 91 /\ Byte(3) # 77 /\ (\E j \in 3 .. Len(q) : q[j] >= 64)
           g5 == q[1] = 27 /\ Byte(2) = 79 /\ Byte(3) # -1
           t1 == Taken(CharEvent(typed.char), typed.length)
           t2 == Taken(CharEvent(27), 1)
           t3 == OldMouse(m, q)
           t4 == CsiIn(m, q)
           t5 == Taken(Ss3Key(m, q[3]), 3)
           t6 == Taken(KeyEvent("Alt", meta.char, {}), 1 + meta.length)
<1>1. EventIn(m, q) = CASE g1 -> t1 [] g2 -> t2 [] g3 -> t3 [] g4 -> t4 [] g5 -> t5 [] OTHER -> t6
    BY Zenon DEF EventIn
<1>2. Len(q) \in Nat
    BY DEF Bytes
<1>3. Byte(2) = 91 /\ Byte(3) = 77
    BY <1>2
<1> HIDE DEF Byte
<1>4. ~g1 /\ ~g2 /\ g3 /\ ~g4 /\ ~g5
    BY <1>3
<1> HIDE DEF g1, g2, g3, g4, g5, t1, t2, t4, t5, t6
<1> QED
    BY <1>1, <1>4

(* The first byte behind some. *)
LEMMA BehindAt ==
    ASSUME NEW q \in Bytes, NEW k \in Nat, k < Len(q)
    PROVE  Behind(q, k)[1] = q[k + 1] /\ Behind(q, k) \in Bytes
<1>1. q \in Seq(Nat) /\ Len(q) \in Nat /\ k \in 0 .. Len(q)
    BY DEF Bytes
<1> DEFINE s == Onward(q, k)
<1>2. s \in Seq(Nat) /\ Len(s) = Len(q) - k /\ EndsIn(q, k, s)
    BY <1>1, OnwardProperties
<1> HIDE DEF s
<1>3. 1 \in 1 .. Len(s)
    BY <1>1, <1>2
<1>4. s[1] = q[k + 1]
    BY <1>2, <1>3 DEF EndsIn
<1>5. Behind(q, k) = s
    BY DEF Behind, Onward, s
<1> QED
    BY <1>2, <1>4, <1>5 DEF Bytes

(* A report in the legacy encoding is read as the event it was of. *)
LEMMA LegacyReads ==
    ASSUME NEW m, m.mouse # 0, m.encoding = 0, NEW code \in Nat, NEW at \in Positions
    PROVE  Reads(m, MouseLegacy(code, at), <<Told(code, at)>>)
<1> DEFINE x == 32 + code
           y == 33 + at.col
           z == 33 + at.row
           tail == <<77, x, y, z>>
           w == Csi \o tail
<1>1. at.col \in Nat /\ at.row \in Nat /\ at = [col |-> at.col, row |-> at.row]
    BY DEF Positions
<1>2. x \in Nat /\ y \in Nat /\ z \in Nat /\ x - 32 = code /\ y - 33 = at.col /\ z - 33 = at.row
    BY <1>1
<1> HIDE DEF x, y, z
<1>3. tail \in Seq(Nat) /\ Len(tail) = 4 /\ tail[1] = 77 /\ tail[2] = x /\ tail[3] = y /\ tail[4] = z
    BY <1>2
<1> HIDE DEF tail
<1>4. Csi \in Seq(Nat) /\ Len(Csi) = 2 /\ Csi[1] = 27 /\ Csi[2] = 91
    BY DEF Csi, ESC
<1>5. /\ w \in Bytes /\ Len(w) = Len(Csi) + Len(tail)
      /\ \A i \in 1 .. Len(Csi) : w[i] = Csi[i]
      /\ \A i \in 1 .. Len(tail) : w[Len(Csi) + i] = tail[i]
    <2>1. Csi \in Bytes /\ tail \in Bytes
        BY <1>3, <1>4 DEF Bytes
    <2>2. Abuts(Csi, tail)
        BY <2>1, AbutsAlways
    <2> QED
        BY <2>2, Zenon DEF Abuts
<1> HIDE DEF w
<1>6. Len(w) = 6 /\ w[1] = 27 /\ w[2] = 91 /\ \A i \in 1 .. 4 : w[2 + i] = tail[i]
    BY <1>3, <1>4, <1>5
<1>7. w[3] = 77 /\ w[4] = x /\ w[5] = y /\ w[6] = z
    <2>1. w[2 + 1] = 77 /\ w[2 + 2] = x /\ w[2 + 3] = y /\ w[2 + 4] = z
        BY <1>3, <1>6
    <2> QED
        BY <2>1
<1>8. w \in Bytes /\ w # <<>>
    <2>1. Len(w) # 0 /\ \A s : Len(s) # 0 => s # <<>>
        BY <1>6
    <2> QED
        BY <1>5, <2>1
<1>9. ASSUME NEW rest \in Bytes
      PROVE  EventIn(m, w \o rest) = Taken(ByButton(code, at, FALSE), Len(w))
    <2> DEFINE q == w \o rest
    <2>1. Len(rest) \in Nat
        BY DEF Bytes
    <2>2. q \in Bytes /\ Len(q) = Len(w) + Len(rest) /\ \A i \in 1 .. Len(w) : q[i] = w[i]
        <3>1. Abuts(w, rest)
            BY <1>5, AbutsAlways
        <3> QED
            BY <3>1, Zenon DEF Abuts
    <2> HIDE DEF q
    <2>3. q \in Bytes /\ Len(q) \in Nat /\ Len(q) >= 6
        BY <1>6, <2>1, <2>2
    <2>4. q[1] = 27 /\ q[2] = 91 /\ q[3] = 77 /\ q[4] = x /\ q[5] = y /\ q[6] = z
        BY <1>6, <1>7, <2>2
    <2>5. Behind(q, 4)[1] = y /\ Behind(q, 5)[1] = z
        <3>1. 4 \in Nat /\ 5 \in Nat /\ 4 < Len(q) /\ 5 < Len(q)
            BY <2>3
        <3>2. Behind(q, 4)[1] = q[4 + 1] /\ Behind(q, 5)[1] = q[5 + 1]
            BY <2>3, <3>1, BehindAt
        <3> QED
            BY <2>4, <3>2
    <2>6. EventIn(m, q) = OldMouse(m, q)
        BY <2>3, <2>4, OldReads
    <2>7. OldMouse(m, q) = Taken(ByButton(q[4] - 32, [col |-> Behind(q, 4)[1] - 33, row |-> Behind(q, 4 + 1)[1] - 33], FALSE), 4 + 1 + 1)
        <3>1. m.encoding # 1005
            OBVIOUS
        <3> QED
            BY <3>1 DEF OldMouse
    <2>8. 4 + 1 = 5 /\ 4 + 1 + 1 = 6
        OBVIOUS
    <2>9. OldMouse(m, q) = Taken(ByButton(code, at, FALSE), 6)
        <3>1. q[4] - 32 = code /\ Behind(q, 4)[1] - 33 = at.col /\ Behind(q, 4 + 1)[1] - 33 = at.row
            BY <1>2, <2>4, <2>5, <2>8
        <3> QED
            BY <1>1, <2>7, <2>8, <3>1, Zenon
    <2> QED
        BY <1>6, <2>6, <2>9 DEF q
<1>10. Reads(m, w, <<ByButton(code, at, FALSE)>>)
    BY <1>8, <1>9, ReadsOne
<1> QED
    BY <1>10, Zenon DEF w, tail, x, y, z, MouseLegacy, Told

(* A report in the UTF-8 encoding is read as the event it was of. *)
LEMMA Utf8MouseReads ==
    ASSUME NEW m, m.mouse # 0, m.encoding = 1005, NEW code \in Nat, NEW at \in Positions,
           33 + at.col \in Char, 33 + at.row \in Char
    PROVE  Reads(m, MouseUtf8(code, at), <<Told(code, at)>>)
<1> DEFINE x == 32 + code
           y == 33 + at.col
           z == 33 + at.row
           tail == <<77, x>>
           head == Csi \o tail
           u == Utf8Of(y)
           v == Utf8Of(z)
           w == (head \o u) \o v
<1>1. at.col \in Nat /\ at.row \in Nat /\ at = [col |-> at.col, row |-> at.row]
    BY DEF Positions
<1>2. x \in Nat /\ y \in Nat /\ z \in Nat /\ x - 32 = code /\ y - 33 = at.col /\ z - 33 = at.row
    BY <1>1
<1>3. y \in Char /\ z \in Char
    OBVIOUS
<1> HIDE DEF x, y, z
<1>4. tail \in Seq(Nat) /\ Len(tail) = 2 /\ tail[1] = 77 /\ tail[2] = x
    BY <1>2
<1> HIDE DEF tail
<1>5. Csi \in Seq(Nat) /\ Len(Csi) = 2 /\ Csi[1] = 27 /\ Csi[2] = 91
    BY DEF Csi, ESC
<1>6. /\ head \in Bytes /\ Len(head) = Len(Csi) + Len(tail)
      /\ \A i \in 1 .. Len(Csi) : head[i] = Csi[i]
      /\ \A i \in 1 .. Len(tail) : head[Len(Csi) + i] = tail[i]
    <2>1. Csi \in Bytes /\ tail \in Bytes
        BY <1>4, <1>5 DEF Bytes
    <2>2. Abuts(Csi, tail)
        BY <2>1, AbutsAlways
    <2> QED
        BY <2>2, Zenon DEF Abuts
<1> HIDE DEF head
<1>7. head \in Bytes /\ Len(head) = 4 /\ head[1] = 27 /\ head[2] = 91 /\ head[3] = 77 /\ head[4] = x
    <2>1. Len(head) = 4 /\ head[1] = 27 /\ head[2] = 91
        BY <1>4, <1>5, <1>6
    <2>2. head[2 + 1] = 77 /\ head[2 + 2] = x
        BY <1>4, <1>5, <1>6
    <2> QED
        <3>1. head[3] = 77 /\ head[4] = x
            BY <2>2
        <3>2. head \in Bytes
            BY <1>6, Zenon
        <3> QED
            BY <2>1, <3>1, <3>2, Zenon
<1>8. u \in Bytes /\ v \in Bytes /\ Len(u) \in Nat /\ Len(v) \in Nat
    BY <1>3, Utf8OfType DEF Bytes
<1>9. /\ \A r \in Bytes : CharIn(u \o r) = [char |-> y, length |-> Len(u)]
      /\ \A r \in Bytes : CharIn(v \o r) = [char |-> z, length |-> Len(v)]
    BY <1>3, CharInUtf8
<1> HIDE DEF u, v
<1>10. head \o u \in Bytes /\ Len(head \o u) = 4 + Len(u)
    <2>1. Abuts(head, u)
        BY <1>7, <1>8, AbutsAlways
    <2> QED
        BY <1>7, <2>1, ZenonT(40) DEF Abuts
<1>11. w \in Bytes /\ Len(w) = 4 + Len(u) + Len(v) /\ w # <<>>
    <2> DEFINE h == head \o u
    <2>1. h \in Bytes /\ Len(h) = 4 + Len(u)
        BY <1>10
    <2> HIDE DEF h
    <2>2. h \o v \in Bytes /\ Len(h \o v) = Len(h) + Len(v)
        <3>1. Abuts(h, v)
            BY <1>8, <2>1, AbutsAlways
        <3> QED
            BY <3>1, Zenon DEF Abuts
    <2>3. Len(h \o v) # 0 /\ \A s : Len(s) # 0 => s # <<>>
        BY <1>8, <2>1, <2>2
    <2>4. h \o v # <<>>
        BY <2>3
    <2> QED
        BY <2>1, <2>2, <2>4 DEF h
<1>12. ASSUME NEW rest \in Bytes
      PROVE  EventIn(m, w \o rest) = Taken(ByButton(code, at, FALSE), Len(w))
    <2> DEFINE h == head \o u
               r == v \o rest
               ur == u \o r
               q == h \o r
    <2>1. r \in Bytes /\ h \in Bytes /\ Len(h) = 4 + Len(u)
        <3>1. Abuts(v, rest)
            BY <1>8, AbutsAlways
        <3> QED
            BY <1>10, <3>1, Zenon DEF Abuts
    <2> HIDE DEF r
    <2>2. ur \in Bytes /\ Len(ur) = Len(u) + Len(r)
        <3>1. Abuts(u, r)
            BY <1>8, <2>1, AbutsAlways
        <3> QED
            BY <3>1, Zenon DEF Abuts
    <2> HIDE DEF ur
    <2>3. w \o rest = q
        <3>1. Regroups(h, v, rest)
            <4>1. h \in Seq(Nat) /\ v \in Seq(Nat) /\ rest \in Seq(Nat)
                BY <1>8, <2>1 DEF Bytes
            <4> HIDE DEF h
            <4> QED
                BY <4>1, Regrouped
        <3> QED
            BY <3>1, Zenon DEF Regroups, r
    <2>4. q = head \o ur
        <3>1. Regroups(head, u, r)
            <4>1. head \in Seq(Nat) /\ u \in Seq(Nat) /\ r \in Seq(Nat)
                BY <1>7, <1>8, <2>1 DEF Bytes
            <4> QED
                BY <4>1, Regrouped
        <3> QED
            BY <3>1, Zenon DEF Regroups, ur
    <2> HIDE DEF h
    <2>5. q \in Bytes /\ Behind(q, 4 + Len(u)) = r
        <3>1. Abuts(h, r)
            BY <2>1, AbutsAlways
        <3> QED
            BY <2>1, <3>1, ZenonT(40) DEF Abuts
    <2> HIDE DEF q
    <2>6. Behind(q, 4) = ur /\ Len(q) = 4 + Len(ur) /\ q[1] = 27 /\ q[2] = 91 /\ q[3] = 77 /\ q[4] = x
        <3>1. head \o ur \in Bytes /\ Len(head \o ur) = Len(head) + Len(ur) /\ Behind(head \o ur, Len(head)) = ur
            <4>1. Abuts(head, ur)
                BY <1>7, <2>2, AbutsAlways
            <4> QED
                BY <4>1, Zenon DEF Abuts
        <3>2. \A i \in 1 .. Len(head) : (head \o ur)[i] = head[i]
            <4>1. Abuts(head, ur)
                BY <1>7, <2>2, AbutsAlways
            <4> QED
                BY <4>1, Zenon DEF Abuts
        <3>3. 1 \in 1 .. Len(head) /\ 2 \in 1 .. Len(head) /\ 3 \in 1 .. Len(head) /\ 4 \in 1 .. Len(head)
            BY <1>7
        <3> QED
            BY <1>7, <2>4, <3>1, <3>2, <3>3
    <2>7. Len(ur) \in Nat /\ Len(q) >= 3
        BY <2>2, <2>6 DEF Bytes
    <2>8. CharIn(Behind(q, 4)) = [char |-> y, length |-> Len(u)]
        <3>1. CharIn(u \o r) = [char |-> y, length |-> Len(u)]
            BY <1>9, <2>1
        <3> QED
            BY <2>6, <3>1, Zenon DEF ur
    <2>9. CharIn(Behind(q, 4 + Len(u))) = [char |-> z, length |-> Len(v)]
        <3>1. CharIn(v \o rest) = [char |-> z, length |-> Len(v)]
            BY <1>9
        <3>2. Behind(q, 4 + Len(u)) = v \o rest
            BY <2>5, Zenon DEF r
        <3> QED
            BY <3>1, <3>2, Zenon
    <2>10. EventIn(m, q) = OldMouse(m, q)
        BY <2>5, <2>6, <2>7, OldReads
    <2> DEFINE c == CharIn(Behind(q, 4))
               d == CharIn(Behind(q, 4 + c.length))
    <2>11. OldMouse(m, q) = Taken(ByButton(q[4] - 32, [col |-> c.char - 33, row |-> d.char - 33], FALSE), 4 + c.length + d.length)
        <3>1. m.encoding = 1005
            OBVIOUS
        <3> QED
            BY <3>1 DEF OldMouse
    <2>12. c.char = y /\ c.length = Len(u)
        BY <2>8
    <2> HIDE DEF c
    <2>13. d.char = z /\ d.length = Len(v)
        BY <2>9, <2>12
    <2> HIDE DEF d
    <2>14. OldMouse(m, q) = Taken(ByButton(code, at, FALSE), 4 + Len(u) + Len(v))
        <3>1. q[4] - 32 = code /\ c.char - 33 = at.col /\ d.char - 33 = at.row
            BY <1>2, <2>6, <2>12, <2>13
        <3> QED
            BY <1>1, <2>11, <2>12, <2>13, <3>1, Zenon
    <2> QED
        BY <1>11, <2>3, <2>10, <2>14
<1> HIDE DEF w
<1> DEFINE event == ByButton(code, at, FALSE)
<1> HIDE DEF event
<1>13. Reads(m, w, <<event>>)
    <2>1. \A rest \in Bytes : EventIn(m, w \o rest) = Taken(event, Len(w))
        BY <1>12, Zenon DEF event
    <2> QED
        BY <1>11, <2>1, ReadsOne
<1> QED
    BY <1>13, Zenon DEF event, Told, w, head, tail, u, v, x, y, z, MouseUtf8

-----------------------------------------------------------------------------
(* Several reports. *)

(* A place that a report can tell. *)
Tellable(m, at) == m.encoding = 0 => at.col <= LegacyMax /\ at.row <= LegacyMax

ReportedAs(m, code, at, press) ==
    IF m.encoding = 1006 THEN ByButton(code, at, ~press) ELSE Told(IF press THEN code ELSE 3, at)

OneReport(m, result, event) == \E w : result = {w} /\ Reads(m, w, <<event>>)

(* A report is refused, or taken for its event. *)
LEMMA ReportReads ==
    ASSUME NEW m \in AllModes, m.mouse # 0, NEW code \in Nat, NEW at \in Positions, NEW press \in BOOLEAN,
           33 + at.col \in Char, 33 + at.row \in Char
    PROVE  /\ ~Tellable(m, at) => MouseReport(m, code, at, press) = {}
           /\ Tellable(m, at) => OneReport(m, MouseReport(m, code, at, press), ReportedAs(m, code, at, press))
<1> DEFINE button == IF press THEN code ELSE 3
           result == MouseReport(m, code, at, press)
           event == ReportedAs(m, code, at, press)
           form == m.encoding
           g1 == form = 1006
           g2 == form = 1005
           g3 == form = 1015
           g4 == form = 0 /\ at.col <= LegacyMax /\ at.row <= LegacyMax
           said == ByButton(code, at, ~press)
           told == Told(button, at)
           sgr == MouseSgr(code, at, press)
           utf8 == MouseUtf8(button, at)
           urxvt == MouseUrxvt(button, at)
           legacy == MouseLegacy(button, at)
<1>1. form \in {0, 1005, 1006, 1015}
    BY DEF AllModes
<1>2. button \in Nat
    OBVIOUS
<1>3. result = CASE g1 -> {sgr} [] g2 -> {utf8} [] g3 -> {urxvt} [] g4 -> {legacy} [] OTHER -> {}
    BY Zenon DEF MouseReport
<1>4. event = IF g1 THEN said ELSE told
    BY Zenon DEF ReportedAs
<1>5. /\ g1 => Reads(m, sgr, <<said>>)
      /\ g2 => Reads(m, utf8, <<told>>)
      /\ g3 => Reads(m, urxvt, <<told>>)
      /\ form = 0 => Reads(m, legacy, <<told>>)
    <2>1. g1 => Reads(m, MouseSgr(code, at, press), <<ByButton(code, at, ~press)>>)
        BY SgrReads
    <2> HIDE DEF button
    <2>2. g2 => Reads(m, MouseUtf8(button, at), <<Told(button, at)>>)
        BY <1>2, Utf8MouseReads
    <2>3. g3 => Reads(m, MouseUrxvt(button, at), <<Told(button, at)>>)
        BY <1>2, UrxvtReads
    <2>4. form = 0 => Reads(m, MouseLegacy(button, at), <<Told(button, at)>>)
        BY <1>2, LegacyReads
    <2> QED
        BY <2>1, <2>2, <2>3, <2>4, Zenon
<1>6. /\ g1 \/ g2 \/ g3 => Tellable(m, at)
      /\ Tellable(m, at) => g1 \/ g2 \/ g3 \/ g4
      /\ g4 => form = 0 /\ Tellable(m, at)
      /\ g1 => ~g2 /\ ~g3 /\ ~g4
      /\ g2 => ~g1 /\ ~g3 /\ ~g4
      /\ g3 => ~g1 /\ ~g2 /\ ~g4
      /\ g4 => ~g1 /\ ~g2 /\ ~g3
    BY <1>1 DEF Tellable
<1> HIDE DEF result, event, said, told, sgr, utf8, urxvt, legacy, form, g1, g2, g3, g4
<1>7. \/ ~Tellable(m, at) /\ result = {}
      \/ Tellable(m, at) /\ \E w : result = {w} /\ Reads(m, w, <<event>>)
    <2>1. CASE g1
        <3>1. result = {sgr} /\ event = said /\ Reads(m, sgr, <<said>>) /\ Tellable(m, at)
            <4>1. result = {sgr}
                BY <1>3, <1>6, <2>1, Zenon
            <4> QED
                BY <1>4, <1>5, <1>6, <2>1, <4>1, Zenon
        <3> QED
            BY <3>1, Zenon
    <2>2. CASE g2
        <3>1. result = {utf8} /\ event = told /\ Reads(m, utf8, <<told>>) /\ Tellable(m, at)
            <4>1. result = {utf8}
                BY <1>3, <1>6, <2>2, Zenon
            <4> QED
                BY <1>4, <1>5, <1>6, <2>2, <4>1, Zenon
        <3> QED
            BY <3>1, Zenon
    <2>3. CASE g3
        <3>1. result = {urxvt} /\ event = told /\ Reads(m, urxvt, <<told>>) /\ Tellable(m, at)
            <4>1. result = {urxvt}
                BY <1>3, <1>6, <2>3, Zenon
            <4> QED
                BY <1>4, <1>5, <1>6, <2>3, <4>1, Zenon
        <3> QED
            BY <3>1, Zenon
    <2>4. CASE g4
        <3>1. result = {legacy} /\ event = told /\ Reads(m, legacy, <<told>>) /\ Tellable(m, at)
            <4>1. result = {legacy}
                BY <1>3, <1>6, <2>4, Zenon
            <4> QED
                BY <1>4, <1>5, <1>6, <2>4, <4>1, Zenon
        <3> QED
            BY <3>1, Zenon
    <2>5. CASE ~g1 /\ ~g2 /\ ~g3 /\ ~g4
        <3>1. result = {}
            BY <1>3, <2>5, Zenon
        <3> QED
            BY <1>6, <2>5, <3>1, Zenon
    <2> QED
        BY <2>1, <2>2, <2>3, <2>4, <2>5, Zenon
<1> QED
    BY <1>7, Zenon DEF OneReport, result, event

(* Reports one after the other are taken for their events, and one that is
   refused refuses them all. *)
AllReports(m, result, events) == \E w : result = {w} /\ Reads(m, w, events)

(* Several reports are read as their events, if none is refused. *)
LEMMA ReportsRead ==
    ASSUME NEW m, NEW results, NEW events, NEW n \in Nat, DOMAIN results = 1 .. n, DOMAIN events = 1 .. n,
           events \in [1 .. n -> Events(m)],
           \A i \in 1 .. n : OneReport(m, results[i], events[i])
    PROVE  AllReports(m, Reports(results), events)
<1> DEFINE ws == [i \in DOMAIN results |-> CHOOSE bytes \in results[i] : TRUE]
           es == [i \in DOMAIN events |-> <<events[i]>>]
<1>1. ASSUME NEW i \in 1 .. n
      PROVE  results[i] # {} /\ ws[i] \in Bytes /\ Reads(m, ws[i], es[i]) /\ es[i] \in Seq(Events(m))
    <2>1. PICK w : results[i] = {w} /\ Reads(m, w, <<events[i]>>)
        BY Zenon DEF OneReport
    <2>2. w \in Bytes
        BY <2>1, Zenon DEF Reads
    <2>3. ws[i] = w
        BY <2>1
    <2>4. es[i] = <<events[i]>>
        OBVIOUS
    <2>5. <<events[i]>> \in Seq(Events(m))
        BY <2>1, Zenon DEF Reads
    <2> QED
        BY <2>1, <2>2, <2>3, <2>4, <2>5
<1>2. ws \in Seq(Bytes) /\ Len(ws) = n
    <2>1. ws \in [1 .. n -> Bytes]
        BY <1>1, Zenon
    <2> HIDE DEF ws
    <2> QED
        BY <2>1
<1>3. es \in Seq(Seq(Events(m))) /\ Len(es) = n
    <2>1. es \in [1 .. n -> Seq(Events(m))]
        BY <1>1, Zenon
    <2> HIDE DEF es
    <2> QED
        BY <2>1
<1>4. FlattenSeq(es) = events
    <2>1. events \in Seq(Events(m))
        OBVIOUS
    <2> QED
        BY <2>1, FlattenSingles
<1>5. ~ \E i \in DOMAIN results : results[i] = {}
    BY <1>1
<1>6. Reports(results) = {FlattenSeq(ws)}
    BY <1>5, Zenon DEF Reports
<1>7. Reads(m, FlattenSeq(ws), FlattenSeq(es))
    <2> HIDE DEF ws, es
    <2>1. Len(ws) = Len(es)
        BY <1>2, <1>3
    <2>2. \A i \in 1 .. Len(ws) : Reads(m, ws[i], es[i])
        BY <1>1, <1>2
    <2> QED
        BY <1>2, <1>3, <2>1, <2>2, ReadsAll
<1> QED
    BY <1>4, <1>6, <1>7, Zenon DEF AllReports

-----------------------------------------------------------------------------
(* Presses and releases. *)

(* A size. *)
Sized(size) == size.cols \in Nat /\ size.rows \in Nat

(* Where a test may click. *)
LEMMA SpotsAre ==
    ASSUME NEW at \in Spots
    PROVE  at \in Positions /\ 33 + at.col \in Char /\ 33 + at.row \in Char /\ at.col \in Nat /\ at.row \in Nat
<1>1. at = [col |-> at.col, row |-> at.row] /\ at.col \in Narrow /\ at.row \in Narrow
    BY DEF Spots
<1>2. \A n \in Narrow : n \in Nat /\ 33 + n \in Char
    BY SMTT(40) DEF Narrow, Char
<1>3. at.col \in Nat /\ at.row \in Nat /\ 33 + at.col \in Char /\ 33 + at.row \in Char
    BY <1>1, <1>2, Zenon
<1> QED
    BY <1>1, <1>3 DEF Positions

(* A place can be told if it is in the grid and in the reach of the encoding. *)
LEMMA CanTellIs ==
    ASSUME NEW m, NEW size, Sized(size), NEW at \in Spots
    PROVE  CanTell(m, size, at) <=> InGrid(size, at) /\ Tellable(m, at)
<1> DEFINE c == at.col
           r == at.row
           cols == size.cols
           rows == size.rows
<1>1. c \in Nat /\ r \in Nat
    BY SpotsAre, Zenon
<1>2. cols \in Nat /\ rows \in Nat
    BY Zenon DEF Sized
<1> HIDE DEF c, r, cols, rows
<1>3. /\ c \in 0 .. cols - 1 <=> c < cols
      /\ r \in 0 .. rows - 1 <=> r < rows
      /\ 33 + c < 256 <=> c <= LegacyMax
      /\ 33 + r < 256 <=> r <= LegacyMax
    BY <1>1, <1>2 DEF LegacyMax
<1> QED
    BY <1>3, Zenon DEF CanTell, InGrid, Tellable, c, r, cols, rows

(* An input is understood: it is refused and means nothing, or there is one thing
   to write for it, and this is taken for what it means. *)
Understood(m, bytes, meaning) ==
    (bytes = {} /\ meaning = <<>>) \/ (\E w : bytes = {w} /\ Says(m, w, meaning))

(* Reports that are read as their events are understood. *)
LEMMA AllUnderstood ==
    ASSUME NEW m, NEW result, NEW events, AllReports(m, result, events)
    PROVE  Understood(m, result, events)
<1>1. PICK w : result = {w} /\ Reads(m, w, events)
    BY Zenon DEF AllReports
<1>2. Says(m, w, events)
    BY <1>1, ReadsSay
<1> QED
    BY <1>1, <1>2, Zenon DEF Understood

(* So is one report. *)
LEMMA OneUnderstood ==
    ASSUME NEW m, NEW result, NEW event, OneReport(m, result, event)
    PROVE  Understood(m, result, <<event>>)
<1>1. AllReports(m, result, <<event>>)
    BY Zenon DEF OneReport, AllReports
<1> QED
    BY <1>1, AllUnderstood

(* The numbers of the buttons. *)
PressTold(m, button, mods, at) ==
    LET code == ChordCode(ButtonCodes[button], mods) IN
    /\ code \in Nat /\ code + MotionCode \in Nat /\ ButtonCodes[button] \in Nat
    /\ ReportedAs(m, code, at, TRUE) = MouseEvent("press", button, mods, at)
    /\ ReportedAs(m, code + MotionCode, at, TRUE) = MouseEvent("motion", button, mods, at)
    /\ ReportedAs(m, ButtonCodes[button], at, TRUE) = MouseEvent("press", button, {}, at)
    /\ ReportedAs(m, code, at, FALSE) = Release(m, button, mods, at)

(* A press is refused, or it is read as the press that it was. *)
LEMMA PressIsTold ==
    ASSUME NEW m, NEW button \in Buttons, NEW mods \in SUBSET Modifiers, NEW at
    PROVE  PressTold(m, button, mods, at)
<1> DEFINE code == ChordCode(ButtonCodes[button], mods)
           bare == ChordCode(ButtonCodes[button], {})
           n == ButtonCodes[button]
<1>1. /\ code \in Nat /\ code + MotionCode \in Nat
      /\ ByButton(code, at, FALSE) = MouseEvent("press", button, mods, at)
      /\ ByButton(code, at, TRUE) = MouseEvent("release", button, mods, at)
      /\ ByButton(code + MotionCode, at, FALSE) = MouseEvent("motion", button, mods, at)
      /\ ByButton(3, at, FALSE) = MouseEvent("release", "any", {}, at)
    BY ByButtonIs, ZenonT(40)
<1>2. {} \in SUBSET Modifiers
    OBVIOUS
<1>3. bare \in Nat /\ ByButton(bare, at, FALSE) = MouseEvent("press", button, {}, at)
    BY <1>2, ByButtonIs
<1>4. n \in Nat
    BY DEF Buttons, ButtonCodes
<1>5. bare = n
    <2>1. ModifierSum({}, 4, 8, 16) = 0
        BY DEF ModifierSum
    <2>2. bare = n + 0
        BY <2>1, Zenon DEF ChordCode
    <2> HIDE DEF bare, n
    <2> QED
        BY <1>4, <2>2
<1> DEFINE moved == code + MotionCode
<1>6. \A k : ReportedAs(m, k, at, TRUE) = ByButton(k, at, FALSE)
    BY ZenonT(40) DEF ReportedAs, Told
<1>7. ReportedAs(m, code, at, FALSE) = IF m.encoding = 1006 THEN ByButton(code, at, TRUE) ELSE ByButton(3, at, FALSE)
    BY ZenonT(40) DEF ReportedAs, Told
<1>8. ReportedAs(m, code, at, FALSE) = Release(m, button, mods, at)
    BY <1>1, <1>7, ZenonT(40) DEF Release
<1> QED
    BY <1>1, <1>3, <1>4, <1>5, <1>6, <1>8, Zenon DEF PressTold

-----------------------------------------------------------------------------
(* Clicks and wheels. *)

(* What one report is read as is an event. *)
LEMMA OneIsEvent ==
    ASSUME NEW m, NEW result, NEW event, OneReport(m, result, event)
    PROVE  event \in Events(m)
<1>1. PICK w : Reads(m, w, <<event>>)
    BY Zenon DEF OneReport
<1>2. <<event>> \in Seq(Events(m))
    BY <1>1, Zenon DEF Reads
<1> DEFINE s == <<event>>
           V == Events(m)
<1>3. Len(s) = 1 /\ s[1] = event
    OBVIOUS
<1>4. s \in Seq(V)
    BY <1>2
<1> HIDE DEF s, V
<1>5. s[1] \in V
    BY <1>3, <1>4
<1> QED
    BY <1>3, <1>5, Zenon DEF V

(* Two reports are read as two events. *)
LEMMA Two ==
    ASSUME NEW m, NEW r1, NEW r2, NEW e1, NEW e2, OneReport(m, r1, e1), OneReport(m, r2, e2)
    PROVE  AllReports(m, Reports(<<r1, r2>>), <<e1, e2>>)
<1> DEFINE rs == <<r1, r2>>
           es == <<e1, e2>>
           V == Events(m)
           n == 2
<1>1. e1 \in V /\ e2 \in V
    BY OneIsEvent, Zenon
<1> HIDE DEF V
<1>2. DOMAIN rs = 1 .. n /\ DOMAIN es = 1 .. n /\ es \in [1 .. n -> V] /\ n \in Nat
    BY <1>1
<1>3. rs[1] = r1 /\ rs[2] = r2 /\ es[1] = e1 /\ es[2] = e2 /\ \A i \in 1 .. n : i = 1 \/ i = 2
    OBVIOUS
<1> HIDE DEF rs, es, n
<1>4. \A i \in 1 .. n : OneReport(m, rs[i], es[i])
    BY <1>3, Zenon
<1>5. AllReports(m, Reports(rs), es)
    BY <1>2, <1>4, ReportsRead DEF V
<1> QED
    BY <1>5, Zenon DEF rs, es

(* One report that is refused refuses them all. *)
LEMMA RefusedAll ==
    ASSUME NEW results, NEW i \in DOMAIN results, results[i] = {}
    PROVE  Reports(results) = {}
BY Zenon DEF Reports

(* A click (click_with, mouse_report) is refused where the application has not
   asked for it, outside the grid and where the encoding runs out; otherwise the
   application takes it for the press and the release, with the button, the
   modifiers and the place, as far as its tracking mode and encoding tell them. *)
THEOREM ClickUnderstood ==
    ASSUME NEW m \in AllModes, NEW size, Sized(size), NEW button \in Buttons, NEW mods \in SUBSET Modifiers,
           NEW at \in Spots
    PROVE  Understood(m, ClickWith(m, size, button, mods, at), ClickMeans(m, size, button, mods, at))
<1> DEFINE code == ChordCode(ButtonCodes[button], mods)
           bare == ButtonCodes[button]
           tells == CanTell(m, size, at)
           result == ClickWith(m, size, button, mods, at)
           meaning == ClickMeans(m, size, button, mods, at)
           inside == InGrid(size, at)
           off == m.mouse = 0
           old == m.mouse = 9
           pressed == MouseReport(m, code, at, TRUE)
           released == MouseReport(m, code, at, FALSE)
           plain == MouseReport(m, bare, at, TRUE)
           press == MouseEvent("press", button, mods, at)
           release == Release(m, button, mods, at)
           only == MouseEvent("press", button, {}, at)
<1>1. at \in Positions /\ 33 + at.col \in Char /\ 33 + at.row \in Char
    BY SpotsAre, Zenon
<1>2. tells <=> inside /\ Tellable(m, at)
    BY CanTellIs
<1>3. /\ code \in Nat /\ bare \in Nat
      /\ ReportedAs(m, code, at, TRUE) = press
      /\ ReportedAs(m, code, at, FALSE) = release
      /\ ReportedAs(m, bare, at, TRUE) = only
    <2>1. PressTold(m, button, mods, at)
        BY PressIsTold
    <2> QED
        BY <2>1, Zenon DEF PressTold
<1>4. ~(off /\ old)
    OBVIOUS
<1>5. result = CASE off \/ ~inside -> {} [] old /\ inside -> plain [] OTHER -> Reports(<<pressed, released>>)
    BY Zenon DEF ClickWith
<1>6. meaning = CASE off \/ ~tells -> <<>> [] old /\ tells -> <<only>> [] OTHER -> <<press, release>>
    BY Zenon DEF ClickMeans
<1>7. TRUE \in BOOLEAN /\ FALSE \in BOOLEAN
    OBVIOUS
<1> HIDE DEF code, bare
<1>8. ASSUME ~off
      PROVE  /\ ~Tellable(m, at) => pressed = {} /\ plain = {}
             /\ Tellable(m, at) => /\ OneReport(m, pressed, press) /\ OneReport(m, released, release)
                                   /\ OneReport(m, plain, only)
    <2>1. m.mouse # 0
        BY <1>8
    <2>2. /\ ~Tellable(m, at) => pressed = {}
          /\ Tellable(m, at) => OneReport(m, pressed, ReportedAs(m, code, at, TRUE))
        BY <1>1, <1>3, <1>7, <2>1, ReportReads
    <2>3. Tellable(m, at) => OneReport(m, released, ReportedAs(m, code, at, FALSE))
        BY <1>1, <1>3, <1>7, <2>1, ReportReads
    <2>4. /\ ~Tellable(m, at) => plain = {}
          /\ Tellable(m, at) => OneReport(m, plain, ReportedAs(m, bare, at, TRUE))
        BY <1>1, <1>3, <1>7, <2>1, ReportReads
    <2> QED
        BY <1>3, <2>2, <2>3, <2>4, Zenon
<1> HIDE DEF tells, inside, result, meaning, off, old, pressed, released, plain, press, release, only
<1>9. CASE off \/ ~inside
    <2>1. result = {} /\ meaning = <<>>
        BY <1>2, <1>4, <1>5, <1>6, <1>9, Zenon
    <2> QED
        BY <2>1, Zenon DEF Understood, result, meaning
<1>10. CASE ~off /\ inside /\ ~Tellable(m, at)
    <2>1. meaning = <<>>
        BY <1>2, <1>6, <1>10, Zenon
    <2>2. pressed = {} /\ plain = {}
        BY <1>8, <1>10, Zenon
    <2>3. Reports(<<pressed, released>>) = {}
        <3>1. 1 \in DOMAIN <<pressed, released>> /\ <<pressed, released>>[1] = {}
            BY <2>2
        <3> QED
            BY <3>1, RefusedAll
    <2>4. result = {}
        <3>1. CASE old
            <4>1. result = plain
                BY <1>5, <1>10, <3>1, Zenon
            <4> QED
                BY <2>2, <4>1, Zenon
        <3>2. CASE ~old
            <4>1. result = Reports(<<pressed, released>>)
                BY <1>5, <1>10, <3>2, Zenon
            <4> QED
                BY <2>3, <4>1, Zenon
        <3> QED
            BY <3>1, <3>2
    <2> QED
        BY <2>1, <2>4, Zenon DEF Understood, result, meaning
<1>11. CASE ~off /\ inside /\ Tellable(m, at) /\ old
    <2>1. result = plain /\ meaning = <<only>>
        BY <1>2, <1>5, <1>6, <1>11, Zenon
    <2>2. OneReport(m, plain, only)
        BY <1>8, <1>11, Zenon
    <2>3. Understood(m, plain, <<only>>)
        BY <2>2, OneUnderstood
    <2> QED
        BY <2>1, <2>3, Zenon DEF result, meaning
<1>12. CASE ~off /\ inside /\ Tellable(m, at) /\ ~old
    <2>1. result = Reports(<<pressed, released>>) /\ meaning = <<press, release>>
        BY <1>2, <1>5, <1>6, <1>12, Zenon
    <2>2. OneReport(m, pressed, press) /\ OneReport(m, released, release)
        BY <1>8, <1>12, Zenon
    <2>3. AllReports(m, Reports(<<pressed, released>>), <<press, release>>)
        BY <2>2, Two
    <2>4. Understood(m, Reports(<<pressed, released>>), <<press, release>>)
        BY <2>3, AllUnderstood
    <2> QED
        BY <2>1, <2>4, Zenon DEF result, meaning
<1> QED
    BY <1>9, <1>10, <1>11, <1>12, Zenon

-----------------------------------------------------------------------------
(* Focus and text. *)

(* A turn of the wheel (scroll_with) is refused or told, likewise. *)
THEOREM ScrollUnderstood ==
    ASSUME NEW m \in AllModes, NEW size, Sized(size), NEW wheel \in Wheels, NEW mods \in SUBSET Modifiers,
           NEW at \in Spots
    PROVE  Understood(m, ScrollWith(m, size, wheel, mods, at), ScrollMeans(m, size, wheel, mods, at))
<1> DEFINE code == ChordCode(WheelCodes[wheel], mods)
           off == m.mouse \in {0, 9}
           tells == CanTell(m, size, at)
           inside == InGrid(size, at)
           turned == MouseReport(m, code, at, TRUE)
           event == MouseEvent("wheel", wheel, mods, at)
           result == ScrollWith(m, size, wheel, mods, at)
           meaning == ScrollMeans(m, size, wheel, mods, at)
<1>1. at \in Positions /\ 33 + at.col \in Char /\ 33 + at.row \in Char
    BY SpotsAre, Zenon
<1>2. tells <=> inside /\ Tellable(m, at)
    BY CanTellIs
<1>3. code \in Nat /\ ByButton(code, at, FALSE) = event
    BY ByButtonIs
<1>4. ReportedAs(m, code, at, TRUE) = event
    BY <1>3, ZenonT(40) DEF ReportedAs, Told
<1>5. result = IF off \/ ~inside THEN {} ELSE turned
    BY Zenon DEF ScrollWith
<1>6. meaning = IF off \/ ~tells THEN <<>> ELSE <<event>>
    BY Zenon DEF ScrollMeans
<1> HIDE DEF code
<1>7. ASSUME ~off
      PROVE  /\ ~Tellable(m, at) => turned = {}
             /\ Tellable(m, at) => OneReport(m, turned, event)
    <2>1. m.mouse # 0 /\ TRUE \in BOOLEAN
        BY <1>7
    <2>2. /\ ~Tellable(m, at) => turned = {}
          /\ Tellable(m, at) => OneReport(m, turned, ReportedAs(m, code, at, TRUE))
        BY <1>1, <1>3, <2>1, ReportReads
    <2> QED
        BY <1>4, <2>2, Zenon
<1> HIDE DEF off, tells, inside, turned, event, result, meaning
<1>8. CASE off \/ ~inside
    <2>1. result = {} /\ meaning = <<>>
        BY <1>2, <1>5, <1>6, <1>8, Zenon
    <2> QED
        BY <2>1, Zenon DEF Understood, result, meaning
<1>9. CASE ~off /\ inside /\ ~Tellable(m, at)
    <2>1. result = turned /\ turned = {} /\ meaning = <<>>
        BY <1>2, <1>5, <1>6, <1>7, <1>9, Zenon
    <2> QED
        BY <2>1, Zenon DEF Understood, result, meaning
<1>10. CASE ~off /\ inside /\ Tellable(m, at)
    <2>1. result = turned /\ meaning = <<event>> /\ OneReport(m, turned, event)
        BY <1>2, <1>5, <1>6, <1>7, <1>10, Zenon
    <2>2. Understood(m, turned, <<event>>)
        BY <2>1, OneUnderstood
    <2> QED
        BY <2>1, <2>2, Zenon DEF result, meaning
<1> QED
    BY <1>8, <1>9, <1>10, Zenon

(* The focus. *)
FocusBy(final) == FocusEvent(final = 73)

(* What a focus report is taken for. *)
LEMMA FocusGives ==
    ASSUME NEW m, m.focus, NEW final \in {73, 79}, NEW after
    PROVE  Gives(m, <<>>, final, after, FocusBy(final))
<1> DEFINE p == <<>>
           sgr == p # <<>> /\ p[1] = 60
           numbersOf == NumbersIn(IF sgr THEN Tail(p) ELSE p)
           at == [col |-> numbersOf[2] - 1, row |-> numbersOf[3] - 1]
           closes == {j \in 1 .. Len(after) - 5 : SubSeq(after, j, j + 5) = PasteEnd}
           close == CHOOSE j \in closes : \A k \in closes : j <= k
           g1 == sgr /\ m.encoding = 1006
           g2 == ~sgr /\ Len(numbersOf) = 3 /\ m.encoding = 1015
           g3 == ~sgr /\ final = 126 /\ numbersOf = <<200>> /\ m.paste /\ closes # {}
           g4 == ~sgr /\ final \in {73, 79} /\ m.focus
           t1 == Taken(ByButton(numbersOf[1], at, final = 109), 0)
           t2 == Taken(ByButton(numbersOf[1] - 32, at, FALSE), 0)
           t3 == Taken(PasteEvent(SubSeq(after, 1, close - 1)), close + 5)
           t4 == Taken(FocusEvent(final = 73), 0)
           t5 == Taken(KeyByFinal(m, final, numbersOf), 0)
<1>1. CsiEvent(m, p, final, after) =
        CASE g1 -> t1 [] g2 -> t2 [] g3 -> t3 [] g4 -> t4 [] OTHER -> t5
    BY Zenon DEF CsiEvent
<1>2. ~sgr
    OBVIOUS
<1>3. numbersOf = NumbersIn(<<>>)
    BY <1>2, Zenon
<1>4. numbersOf = <<0>>
    BY <1>3, NumbersNext, Zenon
<1>5. Len(<<0>>) = 1 /\ final # 126
    OBVIOUS
<1> HIDE DEF sgr, numbersOf
<1>6. Len(numbersOf) # 3
    BY <1>4, <1>5
<1>7. ~g1 /\ ~g2 /\ ~g3 /\ g4
    BY <1>2, <1>5, <1>6
<1> HIDE DEF g1, g2, g3, g4, t1, t2, t3, t4, t5
<1>8. CsiEvent(m, p, final, after) = t4
    BY <1>1, <1>7, Zenon
<1> QED
    BY <1>8, Zenon DEF Gives, FocusBy, t4

(* A change of focus (focus) is told if it was asked for and refused otherwise. *)
THEOREM FocusUnderstood ==
    ASSUME NEW m \in AllModes, NEW gained \in BOOLEAN
    PROVE  Understood(m, Focus(m, gained), FocusMeans(m, gained))
<1>1. CASE ~m.focus
    <2>1. Focus(m, gained) = {} /\ FocusMeans(m, gained) = <<>>
        BY <1>1, Zenon DEF Focus, FocusMeans
    <2> QED
        BY <2>1, Zenon DEF Understood
<1>2. CASE m.focus
    <2> DEFINE final == IF gained THEN 73 ELSE 79
               event == FocusEvent(gained)
               empty == <<>>
    <2>1. final \in {73, 79} /\ final \in Nat /\ final >= 64 /\ final # 77 /\ ((final = 73) = gained)
        OBVIOUS
    <2>2. Focus(m, gained) = {Csi \o <<final>>} /\ FocusMeans(m, gained) = <<event>>
        BY <1>2, Zenon DEF Focus, FocusMeans
    <2>3. Csi \o empty = Csi
        BY DEF Csi, ESC
    <2>4. empty \in Params
        BY DEF Params
    <2> HIDE DEF final, empty
    <2>6. \A rest \in Bytes : CsiEvent(m, empty, final, rest) = Taken(event, 0)
        <3> TAKE rest \in Bytes
        <3>1. Gives(m, <<>>, final, rest, FocusBy(final))
            BY <1>2, <2>1, FocusGives
        <3> QED
            BY <2>1, <3>1, Zenon DEF Gives, FocusBy, empty
    <2> HIDE DEF event
    <2>7. Reads(m, (Csi \o empty) \o <<final>>, <<event>>)
        BY <2>1, <2>4, <2>6, CsiReads
    <2> DEFINE w == Csi \o <<final>>
    <2>8. Reads(m, w, <<event>>)
        BY <2>3, <2>7, Zenon
    <2>9. Says(m, w, <<event>>)
        BY <2>8, ReadsSay
    <2> QED
        BY <2>2, <2>9, Zenon DEF Understood
<1> QED
    BY <1>1, <1>2

(* A key or chord that is sent (send_key, encode_modal, Chord::encode) is told
   by what is written for it, under every mode of the cursor keys, whatever is
   written after it but for an Esc, Alt-[ and Alt-O. *)
THEOREM KeyUnderstood ==
    ASSUME NEW m \in AllModes, NEW key \in Keys
    PROVE  Understood(m, SendKey(m, key), <<KeyMeans(key)>>)
<1>1. Says(m, EncodeModal(key, m.applicationCursor), <<KeyMeans(key)>>)
    BY KeySays
<1> QED
    BY <1>1, Zenon DEF Understood, SendKey

(* Text that is typed is understood, if there is no escape in it. *)
LEMMA TextUnderstood ==
    ASSUME NEW m, NEW text \in Seq(Char \ {27})
    PROVE  Understood(m, SendStr(text), Typed(text))
<1>1. Reads(m, Utf8(text), Typed(text))
    BY TextReads
<1>2. Says(m, Utf8(text), Typed(text))
    BY <1>1, ReadsSay
<1> QED
    BY <1>2, Zenon DEF Understood, SendStr

-----------------------------------------------------------------------------
(* The way of a drag. *)

AbsOf(x) == IF x < 0 THEN -x ELSE x

(* Products and their order. *)
LEMMA Products ==
    /\ \A n \in Nat, a, b \in Nat : a <= b => n * a <= n * b
    /\ \A n \in Nat, a, b \in Nat : a < b => n * a + n <= n * b
    /\ \A n \in Nat, a \in Nat : n * a \in Nat
<1>1. ASSUME NEW n \in Nat, NEW a \in Nat
      PROVE  n * a \in Nat
    OBVIOUS
<1>2. ASSUME NEW n \in Nat, NEW a \in Nat, NEW b \in Nat, a <= b
      PROVE  n * a <= n * b
    <2> DEFINE c == b - a
    <2>1. c \in Nat /\ b = a + c
        BY <1>2
    <2> HIDE DEF c
    <2>2. n * b = n * a + n * c
        BY <2>1
    <2>3. n * c \in Nat /\ n * a \in Nat
        BY <1>1, <2>1
    <2> DEFINE u == n * a
               v == n * b
               w == n * c
    <2> HIDE DEF u, v, w
    <2>4. u \in Nat /\ w \in Nat /\ v = u + w
        BY <2>2, <2>3, Zenon DEF u, v, w
    <2>5. u <= v
        BY <2>4
    <2> QED
        BY <2>5, Zenon DEF u, v
<1>3. ASSUME NEW n \in Nat, NEW a \in Nat, NEW b \in Nat, a < b
      PROVE  n * a + n <= n * b
    <2>1. a + 1 \in Nat /\ a + 1 <= b
        BY <1>3
    <2>2. n * (a + 1) <= n * b
        BY <1>2, <2>1
    <2>3. n * (a + 1) = n * a + n
        OBVIOUS
    <2> QED
        BY <2>2, <2>3
<1> QED
    BY <1>1, <1>2, <1>3

(* The nearest multiple, and of two as near the greater. *)
IsNearest(n, K, D, j0) ==
    /\ j0 \in 0 .. D
    /\ \A j \in 0 .. D : \/ AbsOf(n * j0 - K) < AbsOf(n * j - K)
                         \/ AbsOf(n * j0 - K) = AbsOf(n * j - K) /\ j0 >= j

(* The nearest whole number of steps. *)
LEMMA Nearest ==
    ASSUME NEW n \in Nat \ {0}, NEW K \in Nat, NEW D \in Nat, K <= n * D, NEW j0, j0 = (K + n \div 2) \div n
    PROVE  IsNearest(n, K, D, j0)
<1> DEFINE h == n \div 2
           p == n * j0
<1>1. h \in Nat /\ 2 * h <= n /\ n <= 2 * h + 1
    OBVIOUS
<1> HIDE DEF h
<1>2. j0 \in Nat /\ p <= K + h /\ K + h < p + n /\ p \in Nat
    <2> DEFINE x == K + h
    <2>1. x \in Nat /\ j0 = x \div n
        BY <1>1 DEF h
    <2> HIDE DEF x
    <2>2. j0 \in Nat /\ n * j0 <= x /\ x < n * j0 + n
        BY <2>1
    <2>3. n * j0 \in Nat
        BY <2>2, Products
    <2> QED
        BY <2>2, <2>3 DEF x
<1>3. j0 <= D
    <2> SUFFICES ASSUME D < j0
                 PROVE  FALSE
        BY <1>2
    <2> DEFINE q == n * D
    <2>1. q + n <= p /\ q \in Nat
        BY <1>2, Products
    <2>2. K <= q
        OBVIOUS
    <2> HIDE DEF q, p
    <2> QED
        BY <1>1, <1>2, <2>1, <2>2
<1>4. ASSUME NEW j \in 0 .. D
      PROVE  \/ AbsOf(p - K) < AbsOf(n * j - K)
             \/ AbsOf(p - K) = AbsOf(n * j - K) /\ j0 >= j
    <2> DEFINE q == n * j
    <2>1. q \in Nat /\ (j < j0 => q + n <= p) /\ (j0 < j => p + n <= q) /\ (j = j0 => q = p)
        BY <1>2, Products
    <2>2. j \in Nat
        OBVIOUS
    <2> HIDE DEF p, q
    <2>3. \/ AbsOf(p - K) < AbsOf(q - K)
          \/ AbsOf(p - K) = AbsOf(q - K) /\ j0 >= j
        BY <1>1, <1>2, <2>1, <2>2 DEF AbsOf
    <2> QED
        BY <2>3 DEF q
<1>5. j0 \in 0 .. D
    BY <1>2, <1>3
<1> QED
    BY <1>4, <1>5, Zenon DEF IsNearest

(* How far along an axis the code goes. *)
Gone(d, k, n) ==
    LET Sign(e) == IF e < 0 THEN -1 ELSE 1
        Size(e) == Sign(e) * e IN
    Sign(d) * ((Size(d) * k + n \div 2) \div n)

(* A place on the way of a drag lies between its ends. *)
LEMMA AlongIs ==
    ASSUME NEW from \in Nat, NEW to \in Nat, NEW n \in Nat \ {0}, NEW k \in 1 .. n,
           to - from <= n, from - to <= n
    PROVE  /\ Along(from, to, k, n) = from + Gone(to - from, k, n)
           /\ Along(from, to, k, n) \in Nat
           /\ Along(from, to, k, n) <= from \/ Along(from, to, k, n) <= to
<1> DEFINE Off(x) == AbsOf(n * (x - from) - k * (to - from))
           between == IF from <= to THEN from .. to ELSE to .. from
           Best(x) == \A y \in between : Off(x) < Off(y) \/ (Off(x) = Off(y) /\ AbsOf(x - from) >= AbsOf(y - from))
           D == AbsOf(to - from)
           K == k * D
           j0 == (K + n \div 2) \div n
           s == IF to < from THEN -1 ELSE 1
           x0 == from + s * j0
<1>1. Along(from, to, k, n) = CHOOSE x \in between : Best(x)
    BY Zenon DEF Along, AbsOf
<1>2. D \in Nat /\ D <= n /\ to - from = s * D
    BY DEF AbsOf
<1>3. K \in Nat /\ K <= n * D
    <2> HIDE DEF D
    <2>1. D * k <= D * n /\ k \in Nat /\ D * k \in Nat
        BY <1>2, Products
    <2>2. D * k = k * D /\ D * n = n * D
        BY <1>2, <2>1
    <2> QED
        BY <2>1, <2>2
<1>4. Gone(to - from, k, n) = s * j0
    <2>1. to - from < 0 <=> to < from
        OBVIOUS
    <2> DEFINE e == to - from
    <2>2. (IF e < 0 THEN -1 ELSE 1) = s
        BY <2>1
    <2>3. s * e = D
        BY DEF AbsOf
    <2> HIDE DEF e, s, D
    <2>4. Gone(e, k, n) = s * ((D * k + n \div 2) \div n)
        BY <2>2, <2>3, Zenon DEF Gone
    <2>5. D * k = k * D
        BY <1>2
    <2> QED
        BY <2>4, <2>5, Zenon DEF e
<1>5. /\ j0 \in 0 .. D
      /\ \A j \in 0 .. D : \/ AbsOf(n * j0 - K) < AbsOf(n * j - K)
                           \/ AbsOf(n * j0 - K) = AbsOf(n * j - K) /\ j0 >= j
    <2> DEFINE j1 == (K + n \div 2) \div n
    <2>1. j1 = (K + n \div 2) \div n
        OBVIOUS
    <2> HIDE DEF D, K, j1
    <2>2. IsNearest(n, K, D, j1)
        BY <1>2, <1>3, <2>1, Nearest
    <2> QED
        BY <2>2, Zenon DEF IsNearest, j1
<1>6. ASSUME NEW x \in between
      PROVE  /\ AbsOf(x - from) \in 0 .. D
             /\ Off(x) = AbsOf(n * AbsOf(x - from) - K)
             /\ x = from + s * AbsOf(x - from)
    <2> DEFINE j == AbsOf(x - from)
    <2>1. j \in 0 .. D /\ x - from = s * j /\ x = from + s * j
        BY DEF AbsOf
    <2>2. to - from = s * D
        BY <1>2
    <2> HIDE DEF j, D
    <2>3. Off(x) = AbsOf(n * (s * j) - k * (s * D))
        BY <2>1, <2>2, Zenon
    <2>4. j \in Int /\ D \in Int
        BY <1>2, <2>1
    <2> HIDE DEF Off
    <2>5. CASE s = 1
        <3>1. n * (s * j) = n * j /\ k * (s * D) = k * D
            BY <2>4, <2>5
        <3> QED
            BY <2>1, <2>3, <3>1, Zenon DEF j
    <2>6. CASE s = -1
        <3>1. n * (s * j) = -(n * j) /\ k * (s * D) = -(k * D) /\ n * j \in Int /\ k * D \in Int
            BY <2>4, <2>6
        <3> DEFINE u == n * j
                   v == k * D
        <3> HIDE DEF u, v
        <3>2. Off(x) = AbsOf(-u - (-v)) /\ u \in Int /\ v \in Int
            BY <2>3, <3>1, Zenon DEF u, v
        <3>3. AbsOf(-u - (-v)) = AbsOf(u - v)
            BY <3>2 DEF AbsOf
        <3> QED
            BY <2>1, <3>2, <3>3, Zenon DEF j, u, v
    <2>7. s = 1 \/ s = -1
        OBVIOUS
    <2> QED
        BY <2>5, <2>6, <2>7
<1>7. x0 \in between /\ AbsOf(x0 - from) = j0
    <2>1. j0 \in 0 .. D
        BY <1>5
    <2> HIDE DEF j0
    <2> QED
        BY <2>1 DEF AbsOf
<1>8. Best(x0)
    <2> TAKE y \in between
    <2> DEFINE j == AbsOf(y - from)
    <2>1. j \in 0 .. D /\ Off(y) = AbsOf(n * j - K)
        BY <1>6
    <2>2. Off(x0) = AbsOf(n * j0 - K)
        BY <1>6, <1>7
    <2> HIDE DEF j, Off, x0, j0, K, D
    <2> QED
        BY <1>5, <1>7, <2>1, <2>2, Zenon DEF j
<1>9. ASSUME NEW x \in between, Best(x)
      PROVE  x = x0
    <2> DEFINE j == AbsOf(x - from)
    <2>1. Off(x) < Off(x0) \/ (Off(x) = Off(x0) /\ j >= j0)
        BY <1>7, <1>9
    <2>2. Off(x0) < Off(x) \/ (Off(x0) = Off(x) /\ j0 >= j)
        BY <1>7, <1>8, <1>9
    <2>3. Off(x) \in Int /\ Off(x0) \in Int /\ j \in Int /\ j0 \in Int
        <3>1. \A y \in Int : AbsOf(y) \in Int
            BY DEF AbsOf
        <3>2. x \in Int /\ x0 \in Int
            BY <1>7, <1>9
        <3>3. j \in Int /\ j0 \in Int
            <4>1. j \in 0 .. D /\ j0 \in 0 .. D
                BY <1>5, <1>6, <1>9, Zenon
            <4> HIDE DEF j, j0
            <4> QED
                BY <4>1
        <3> HIDE DEF x0, j0, j
        <3>4. n * (x - from) - k * (to - from) \in Int /\ n * (x0 - from) - k * (to - from) \in Int
            BY <3>2
        <3> QED
            BY <3>1, <3>3, <3>4, Zenon
    <2>4. x = from + s * j
        BY <1>6, <1>9
    <2> HIDE DEF Off, j, j0, s
    <2>5. j = j0
        BY <2>1, <2>2, <2>3
    <2> QED
        BY <2>4, <2>5
<1>10. Along(from, to, k, n) = x0
    <2> HIDE DEF Best, between, x0
    <2> DEFINE c == CHOOSE x \in between : Best(x)
    <2>1. c \in between /\ Best(c)
        BY <1>7, <1>8
    <2> HIDE DEF c
    <2>2. c = x0
        BY <1>9, <2>1
    <2> QED
        BY <1>1, <2>2, Zenon DEF c
<1>11. x0 \in Nat /\ (x0 <= from \/ x0 <= to)
    <2> HIDE DEF x0
    <2> QED
        BY <1>7
<1> QED
    BY <1>4, <1>10, <1>11

-----------------------------------------------------------------------------
(* Framed sequences. *)

StepsOf(from, to) ==
    Greatest(1, Greatest(Greatest(from.col, to.col) - Least(from.col, to.col),
                         Greatest(from.row, to.row) - Least(from.row, to.row)))

Crossing(from, to, k) ==
    [col |-> Along(from.col, to.col, k, StepsOf(from, to)), row |-> Along(from.row, to.row, k, StepsOf(from, to))]

(* The cells on the way are those nearest to the line. *)
LEMMA PathIs ==
    ASSUME NEW from \in Positions, NEW to \in Positions
    PROVE  /\ StepsOf(from, to) \in Nat \ {0}
           /\ CellsBetween(from, to) = [k \in 1 .. StepsOf(from, to) |-> Crossing(from, to, k)]
           /\ \A k \in 1 .. StepsOf(from, to) :
                 /\ Crossing(from, to, k).col \in Nat /\ Crossing(from, to, k).row \in Nat
                 /\ Crossing(from, to, k).col <= from.col \/ Crossing(from, to, k).col <= to.col
                 /\ Crossing(from, to, k).row <= from.row \/ Crossing(from, to, k).row <= to.row
<1> DEFINE a == from.col
           b == to.col
           c == from.row
           d == to.row
           n == StepsOf(from, to)
           S(e) == IF e < 0 THEN -1 ELSE 1
           Z(e) == S(e) * e
           s == IF Z(b - a) < Z(d - c) THEN Z(d - c) ELSE Z(b - a)
<1>1. a \in Nat /\ b \in Nat /\ c \in Nat /\ d \in Nat /\ to = [col |-> b, row |-> d]
    BY DEF Positions
<1>2. n = Greatest(1, Greatest(Greatest(a, b) - Least(a, b), Greatest(c, d) - Least(c, d)))
    BY Zenon DEF StepsOf
<1>3. CellsBetween(from, to) =
        IF s = 0 THEN <<to>> ELSE [k \in 1 .. s |-> [col |-> a + Gone(b - a, k, s), row |-> c + Gone(d - c, k, s)]]
    BY Zenon DEF CellsBetween, Gone
<1> HIDE DEF n, a, b, c, d
<1>4. /\ n \in Nat \ {0} /\ b - a <= n /\ a - b <= n /\ d - c <= n /\ c - d <= n
      /\ s = 0 => a = b /\ c = d /\ n = 1
      /\ s # 0 => n = s
    BY <1>1, <1>2 DEF Greatest, Least
<1> HIDE DEF s
<1>5. ASSUME NEW k \in 1 .. n
      PROVE  /\ Along(a, b, k, n) = a + Gone(b - a, k, n) /\ Along(a, b, k, n) \in Nat
             /\ Along(a, b, k, n) <= a \/ Along(a, b, k, n) <= b
             /\ Along(c, d, k, n) = c + Gone(d - c, k, n) /\ Along(c, d, k, n) \in Nat
             /\ Along(c, d, k, n) <= c \/ Along(c, d, k, n) <= d
    BY <1>1, <1>4, AlongIs
<1>6. CellsBetween(from, to) = [k \in 1 .. n |-> [col |-> Along(a, b, k, n), row |-> Along(c, d, k, n)]]
    <2>1. CASE s # 0
        <3>1. n = s
            BY <1>4, <2>1
        <3> QED
            BY <1>3, <1>5, <2>1, <3>1
    <2>2. CASE s = 0
        <3>1. a = b /\ c = d /\ n = 1
            BY <1>4, <2>2
        <3>2. Gone(0, 1, 1) = 0
            BY DEF Gone
        <3>3. 1 \in 1 .. n /\ b - a = 0 /\ d - c = 0
            BY <1>1, <3>1
        <3>4. Along(a, b, 1, n) = a + 0 /\ Along(c, d, 1, n) = c + 0
            BY <1>5, <3>1, <3>2, <3>3
        <3>5. Along(a, b, 1, n) = b /\ Along(c, d, 1, n) = d
            BY <1>1, <3>1, <3>4
        <3>6. \A k \in 1 .. n : k = 1
            BY <3>1
        <3> DEFINE f == [k \in 1 .. n |-> [col |-> Along(a, b, k, n), row |-> Along(c, d, k, n)]]
        <3>7. \A k \in 1 .. n : f[k] = to
            BY <1>1, <3>5, <3>6
        <3>8. CellsBetween(from, to) = <<to>>
            BY <1>3, <2>2
        <3>9. <<to>> = [k \in 1 .. 1 |-> to]
            OBVIOUS
        <3>10. f = [k \in 1 .. 1 |-> to]
            BY <3>1, <3>7
        <3> QED
            BY <3>8, <3>9, <3>10, Zenon
    <2> QED
        BY <2>1, <2>2
<1>7. \A k : Crossing(from, to, k) = [col |-> Along(a, b, k, n), row |-> Along(c, d, k, n)]
    BY Zenon DEF Crossing, a, b, c, d, n
<1>8. \A k : Crossing(from, to, k).col = Along(a, b, k, n) /\ Crossing(from, to, k).row = Along(c, d, k, n)
    BY <1>7
<1>9. CellsBetween(from, to) = [k \in 1 .. n |-> Crossing(from, to, k)]
    BY <1>6, <1>7
<1>10. n \in Nat \ {0}
    BY <1>4
<1>11. \A k \in 1 .. n :
                 /\ Crossing(from, to, k).col \in Nat /\ Crossing(from, to, k).row \in Nat
                 /\ Crossing(from, to, k).col <= a \/ Crossing(from, to, k).col <= b
                 /\ Crossing(from, to, k).row <= c \/ Crossing(from, to, k).row <= d
    BY <1>5, <1>8, Zenon
<1> QED
    BY <1>9, <1>10, <1>11, Zenon DEF a, b, c, d, n

(* A sequence with one before it and one after. *)
Framed(S, a, s, b) ==
    LET q == (<<a>> \o s) \o <<b>> IN
    /\ q \in Seq(S) /\ Len(q) = Len(s) + 2
    /\ q[1] = a /\ q[Len(s) + 2] = b
    /\ \A i \in 1 .. Len(s) : q[i + 1] = s[i]

(* A sequence with one element before it and one after. *)
LEMMA IsFramed ==
    ASSUME NEW S, NEW a \in S, NEW s \in Seq(S), NEW b \in S
    PROVE  Framed(S, a, s, b)
<1> DEFINE h == <<a>> \o s
           q == h \o <<b>>
           n == Len(s)
<1>1. <<a>> \in Seq(S) /\ Len(<<a>>) = 1 /\ <<a>>[1] = a /\ <<b>> \in Seq(S) /\ Len(<<b>>) = 1 /\ <<b>>[1] = b
    OBVIOUS
<1>2. n \in Nat
    OBVIOUS
<1>3. /\ h \in Seq(S) /\ Len(h) = Len(<<a>>) + Len(s) /\ (\A i \in 1 .. Len(<<a>>) : h[i] = <<a>>[i])
      /\ \A i \in 1 .. Len(s) : h[Len(<<a>>) + i] = s[i]
    <2>1. <<a>> \in Seq(S) /\ s \in Seq(S)
        BY <1>1
    <2> QED
        BY <2>1, Begins
<1> HIDE DEF h
<1>4. Len(h) = n + 1 /\ h[1] = a /\ \A i \in 1 .. n : h[i + 1] = s[i]
    <2>1. Len(h) = n + 1 /\ h[1] = a
        BY <1>1, <1>2, <1>3
    <2>2. ASSUME NEW i \in 1 .. n
          PROVE  h[i + 1] = s[i]
        <3>1. h[1 + i] = s[i] /\ 1 + i = i + 1
            BY <1>1, <1>2, <1>3
        <3> QED
            BY <3>1
    <2> QED
        BY <2>1, <2>2
<1>5. /\ q \in Seq(S) /\ Len(q) = Len(h) + Len(<<b>>) /\ (\A i \in 1 .. Len(h) : q[i] = h[i])
      /\ \A i \in 1 .. Len(<<b>>) : q[Len(h) + i] = <<b>>[i]
    <2>1. h \in Seq(S) /\ <<b>> \in Seq(S)
        BY <1>1, <1>3
    <2> QED
        BY <2>1, Begins
<1> HIDE DEF q
<1>6. Len(q) = n + 2 /\ q[1] = a
    BY <1>1, <1>2, <1>4, <1>5
<1>7. q[n + 2] = b
    <2>1. q[(n + 1) + 1] = b /\ (n + 1) + 1 = n + 2
        BY <1>1, <1>2, <1>4, <1>5
    <2> QED
        BY <2>1
<1>8. \A i \in 1 .. n : q[i + 1] = s[i]
    <2> TAKE i \in 1 .. n
    <2>1. i + 1 \in 1 .. Len(h)
        BY <1>2, <1>4
    <2> QED
        BY <1>4, <1>5, <2>1
<1>9. q \in Seq(S)
    BY <1>5
<1> QED
    BY <1>6, <1>7, <1>8, <1>9, Zenon DEF Framed, q, h, n

-----------------------------------------------------------------------------
(* Drags are told. *)

(* Where the code and the test take a drag through. *)
Way(m, from, to) == IF m.mouse \in {1002, 1003} THEN StepsOf(from, to) ELSE 0
MotionsSent(m, code, from, to) ==
    [k \in 1 .. Way(m, from, to) |-> MouseReport(m, code + MotionCode, Crossing(from, to, k), TRUE)]
MotionsMeant(m, button, mods, from, to) ==
    [k \in 1 .. Way(m, from, to) |-> MouseEvent("motion", button, mods, Crossing(from, to, k))]

OnTheWay(m, code, button, mods, from, to) ==
    /\ Way(m, from, to) \in Nat
    /\ LET path == IF m.mouse \in {1002, 1003} THEN CellsBetween(from, to) ELSE <<>> IN
       [k \in DOMAIN path |-> MouseReport(m, code + MotionCode, path[k], TRUE)] = MotionsSent(m, code, from, to)
    /\ LET cols == Greatest(from.col, to.col) - Least(from.col, to.col)
           rows == Greatest(from.row, to.row) - Least(from.row, to.row)
           steps == Greatest(1, Greatest(cols, rows))
           Crossed(k) == [col |-> Along(from.col, to.col, k, steps), row |-> Along(from.row, to.row, k, steps)] IN
       (IF m.mouse \in {1002, 1003} THEN [k \in 1 .. steps |-> MouseEvent("motion", button, mods, Crossed(k))] ELSE <<>>)
           = MotionsMeant(m, button, mods, from, to)

(* The reports on the way of a drag are read as its moves. *)
LEMMA WayIs ==
    ASSUME NEW m, NEW code, NEW button, NEW mods, NEW from \in Positions, NEW to \in Positions
    PROVE  OnTheWay(m, code, button, mods, from, to)
<1> DEFINE moves == m.mouse \in {1002, 1003}
           path == IF moves THEN CellsBetween(from, to) ELSE <<>>
           sent == [k \in DOMAIN path |-> MouseReport(m, code + MotionCode, path[k], TRUE)]
           cols == Greatest(from.col, to.col) - Least(from.col, to.col)
           rows == Greatest(from.row, to.row) - Least(from.row, to.row)
           steps == Greatest(1, Greatest(cols, rows))
           Crossed(k) == [col |-> Along(from.col, to.col, k, steps), row |-> Along(from.row, to.row, k, steps)]
           meant0 == IF moves THEN [k \in 1 .. steps |-> MouseEvent("motion", button, mods, Crossed(k))] ELSE <<>>
           n == StepsOf(from, to)
           w == Way(m, from, to)
<1>1. n \in Nat \ {0} /\ CellsBetween(from, to) = [k \in 1 .. n |-> Crossing(from, to, k)]
    BY PathIs
<1>2. w = IF moves THEN n ELSE 0
    BY Zenon DEF Way
<1>3. n = steps /\ \A k : Crossing(from, to, k) = Crossed(k)
    BY Zenon DEF StepsOf, Crossing
<1> HIDE DEF Crossed, steps, n, moves, w
<1>4. CASE moves
    <2>1. sent = [k \in 1 .. n |-> MouseReport(m, code + MotionCode, Crossing(from, to, k), TRUE)]
        BY <1>1, <1>4
    <2>2. sent = MotionsSent(m, code, from, to)
        BY <1>2, <1>4, <2>1, Zenon DEF MotionsSent, w
    <2>3. meant0 = [k \in 1 .. n |-> MouseEvent("motion", button, mods, Crossing(from, to, k))]
        BY <1>3, <1>4
    <2>4. meant0 = MotionsMeant(m, button, mods, from, to)
        BY <1>2, <1>4, <2>3, Zenon DEF MotionsMeant, w
    <2> HIDE DEF sent, meant0
    <2>5. w \in Nat
        BY <1>1, <1>2, <1>4
    <2> QED
        BY <2>2, <2>4, <2>5, Zenon DEF OnTheWay, sent, meant0, path, steps, Crossed, moves, w
<1>5. CASE ~moves
    <2>1. w = 0 /\ 1 .. 0 = {}
        BY <1>2, <1>5
    <2>2. sent = <<>>
        BY <1>5
    <2>3. meant0 = <<>>
        BY <1>5
    <2>4. \A f : DOMAIN f = {} /\ f = [k \in {} |-> f[k]] => f = <<>>
        OBVIOUS
    <2>5. MotionsSent(m, code, from, to) = <<>>
        <3>1. MotionsSent(m, code, from, to) = [k \in {} |-> MouseReport(m, code + MotionCode, Crossing(from, to, k), TRUE)]
            BY <2>1, Zenon DEF MotionsSent, w
        <3> QED
            BY <3>1
    <2>6. MotionsMeant(m, button, mods, from, to) = <<>>
        <3>1. MotionsMeant(m, button, mods, from, to) = [k \in {} |-> MouseEvent("motion", button, mods, Crossing(from, to, k))]
            BY <2>1, Zenon DEF MotionsMeant, w
        <3> QED
            BY <3>1
    <2> HIDE DEF sent, meant0
    <2>7. w \in Nat
        BY <2>1
    <2>8. sent = MotionsSent(m, code, from, to) /\ meant0 = MotionsMeant(m, button, mods, from, to)
        BY <2>2, <2>3, <2>5, <2>6, Zenon
    <2> QED
        BY <2>7, <2>8, Zenon DEF OnTheWay, sent, meant0, path, steps, Crossed, moves, w
<1> QED
    BY <1>4, <1>5, Zenon

(* The cells on the way can be told if both ends can. *)
LEMMA WayTold ==
    ASSUME NEW m, NEW from \in Spots, NEW to \in Spots, Tellable(m, from), Tellable(m, to),
           NEW k \in 1 .. Way(m, from, to)
    PROVE  /\ Crossing(from, to, k) \in Positions /\ Tellable(m, Crossing(from, to, k))
           /\ 33 + Crossing(from, to, k).col \in Char /\ 33 + Crossing(from, to, k).row \in Char
<1> DEFINE at == Crossing(from, to, k)
           x == at.col
           y == at.row
           a == from.col
           b == to.col
           c == from.row
           d == to.row
<1>1. from \in Positions /\ to \in Positions /\ a \in Nat /\ b \in Nat /\ c \in Nat /\ d \in Nat
      /\ 33 + a \in Char /\ 33 + b \in Char /\ 33 + c \in Char /\ 33 + d \in Char
    BY SpotsAre, Zenon
<1>2. k \in 1 .. StepsOf(from, to)
    <2>1. StepsOf(from, to) \in Nat
        BY <1>1, PathIs
    <2> DEFINE n == StepsOf(from, to)
    <2>2. Way(m, from, to) = n \/ Way(m, from, to) = 0
        BY DEF Way
    <2> HIDE DEF n
    <2>3. n \in Nat /\ k \in 1 .. Way(m, from, to)
        BY <2>1, Zenon DEF n
    <2>4. k \in 1 .. n
        BY <2>2, <2>3
    <2> QED
        BY <2>4, Zenon DEF n
<1>3. /\ at.col \in Nat /\ at.row \in Nat
      /\ at.col <= a \/ at.col <= b
      /\ at.row <= c \/ at.row <= d
    BY <1>1, <1>2, PathIs, Zenon
<1>4. at = [col |-> at.col, row |-> at.row]
    <2>1. \A u, v : LET r == [col |-> u, row |-> v] IN r = [col |-> r.col, row |-> r.row]
        OBVIOUS
    <2> QED
        BY <2>1, Zenon DEF Crossing
<1>5. at \in Positions
    <2> DEFINE u == at.col
               v == at.row
    <2>1. u \in Nat /\ v \in Nat /\ at = [col |-> u, row |-> v]
        BY <1>3, <1>4, Zenon
    <2> HIDE DEF u, v, at
    <2> QED
        BY <2>1 DEF Positions
<1>6. \A n, p \in Nat : n <= p /\ 33 + p \in Char => 33 + n \in Char
    BY SMT DEF Char
<1>7. 33 + x \in Char /\ 33 + y \in Char
    BY <1>1, <1>3, <1>6, Zenon
<1>8. Tellable(m, at)
    <2> SUFFICES ASSUME m.encoding = 0
                 PROVE  x <= LegacyMax /\ y <= LegacyMax
        BY Zenon DEF Tellable
    <2>1. a <= LegacyMax /\ b <= LegacyMax /\ c <= LegacyMax /\ d <= LegacyMax
        BY Zenon DEF Tellable
    <2>2. LegacyMax \in Nat
        BY DEF LegacyMax
    <2> HIDE DEF x, y, a, b, c, d, at
    <2>3. x <= LegacyMax /\ y <= LegacyMax
        BY <1>1, <1>3, <2>1, <2>2 DEF x, y
    <2> QED
        BY <2>3
<1> QED
    BY <1>5, <1>7, <1>8, Zenon

(* A drag (drag, cells_between) is told by its press, by a motion for
   every cell it crosses where the application asked for motion, each the nearest
   to the line, and by its release; or it is refused as a whole. *)
THEOREM DragUnderstood ==
    ASSUME NEW m \in AllModes, NEW size, Sized(size), NEW button \in Buttons, NEW mods \in SUBSET Modifiers,
           NEW from \in Spots, NEW to \in Spots
    PROVE  Understood(m, Drag(m, size, button, mods, from, to), DragMeans(m, size, button, mods, from, to))
<1> DEFINE code == ChordCode(ButtonCodes[button], mods)
           off == m.mouse \in {0, 9}
           tells == CanTell(m, size, from) /\ CanTell(m, size, to)
           inside == InGrid(size, from) /\ InGrid(size, to)
           near == Tellable(m, from) /\ Tellable(m, to)
           A == MouseReport(m, code, from, TRUE)
           B == MouseReport(m, code, to, FALSE)
           P == MotionsSent(m, code, from, to)
           a == MouseEvent("press", button, mods, from)
           b == Release(m, button, mods, to)
           p == MotionsMeant(m, button, mods, from, to)
           n == Way(m, from, to)
           Q == (<<A>> \o P) \o <<B>>
           q == (<<a>> \o p) \o <<b>>
           result == Drag(m, size, button, mods, from, to)
           meaning == DragMeans(m, size, button, mods, from, to)
           V == Events(m)
           S == {A, B} \union {P[k] : k \in 1 .. n}
<1>1. /\ from \in Positions /\ 33 + from.col \in Char /\ 33 + from.row \in Char
      /\ to \in Positions /\ 33 + to.col \in Char /\ 33 + to.row \in Char
    BY SpotsAre, Zenon
<1>2. tells <=> inside /\ near
    <2>1. CanTell(m, size, from) <=> InGrid(size, from) /\ Tellable(m, from)
        BY CanTellIs
    <2>2. CanTell(m, size, to) <=> InGrid(size, to) /\ Tellable(m, to)
        BY CanTellIs
    <2> QED
        BY <2>1, <2>2, Zenon
<1>3. /\ code \in Nat /\ code + MotionCode \in Nat
      /\ ReportedAs(m, code, from, TRUE) = a
      /\ ReportedAs(m, code, to, FALSE) = b
      /\ \A at : ReportedAs(m, code + MotionCode, at, TRUE) = MouseEvent("motion", button, mods, at)
    <2>1. PressTold(m, button, mods, from) /\ PressTold(m, button, mods, to)
          /\ \A at : PressTold(m, button, mods, at)
        BY PressIsTold
    <2> QED
        BY <2>1, Zenon DEF PressTold
<1>4. OnTheWay(m, code, button, mods, from, to) /\ n \in Nat
    <2>1. OnTheWay(m, code, button, mods, from, to)
        BY <1>1, WayIs
    <2> QED
        BY <2>1, Zenon DEF OnTheWay
<1>5. result = IF off \/ ~inside THEN {} ELSE Reports(Q)
    <2>1. result = IF off \/ ~InGrid(size, from) \/ ~InGrid(size, to) THEN {} ELSE Reports(Q)
        <3> DEFINE path == IF m.mouse \in {1002, 1003} THEN CellsBetween(from, to) ELSE <<>>
                   sent == [k \in DOMAIN path |-> MouseReport(m, code + MotionCode, path[k], TRUE)]
        <3>1. sent = P
            BY <1>4, Zenon DEF OnTheWay
        <3>2. result = IF off \/ ~InGrid(size, from) \/ ~InGrid(size, to) THEN {} ELSE Reports((<<A>> \o sent) \o <<B>>)
            BY Zenon DEF Drag
        <3> HIDE DEF sent
        <3> QED
            BY <3>1, <3>2, Zenon
    <2> QED
        BY <2>1, Zenon
<1>6. meaning = IF off \/ ~tells THEN <<>> ELSE q
    <2> DEFINE cols == Greatest(from.col, to.col) - Least(from.col, to.col)
               rows == Greatest(from.row, to.row) - Least(from.row, to.row)
               steps == Greatest(1, Greatest(cols, rows))
               Crossed(k) == [col |-> Along(from.col, to.col, k, steps), row |-> Along(from.row, to.row, k, steps)]
               path == IF m.mouse \in {1002, 1003} THEN [k \in 1 .. steps |-> MouseEvent("motion", button, mods, Crossed(k))] ELSE <<>>
    <2>1. path = p
        BY <1>4, Zenon DEF OnTheWay
    <2>2. meaning = IF off \/ ~CanTell(m, size, from) \/ ~CanTell(m, size, to) THEN <<>> ELSE (<<a>> \o path) \o <<b>>
        BY Zenon DEF DragMeans
    <2> HIDE DEF path
    <2> QED
        BY <2>1, <2>2, Zenon
<1>7. P = [k \in 1 .. n |-> P[k]] /\ P \in Seq(S) /\ Len(P) = n /\ A \in S /\ B \in S
    <2>1. P = [k \in 1 .. n |-> P[k]]
        BY DEF MotionsSent
    <2> HIDE DEF P, n, A, B
    <2>2. P \in [1 .. n -> S]
        BY <2>1
    <2>3. A \in S /\ B \in S
        OBVIOUS
    <2> HIDE DEF S
    <2> QED
        BY <1>4, <2>1, <2>2, <2>3
<1> DEFINE N == n + 2
<1>8. Q \in Seq(S) /\ DOMAIN Q = 1 .. N /\ Q[1] = A /\ Q[N] = B /\ \A i \in 1 .. n : Q[i + 1] = P[i]
    <2> HIDE DEF S, P, A, B
    <2>1. Framed(S, A, P, B)
        BY <1>7, IsFramed
    <2>2. Q \in Seq(S) /\ Len(Q) = Len(P) + 2 /\ Q[1] = A /\ Q[Len(P) + 2] = B /\ \A i \in 1 .. Len(P) : Q[i + 1] = P[i]
        BY <2>1, Zenon DEF Framed
    <2> HIDE DEF Q, n
    <2>3. Len(Q) = N /\ DOMAIN Q = 1 .. Len(Q)
        <3>1. Len(P) = n /\ Len(Q) = Len(P) + 2 /\ Q \in Seq(S)
            BY <1>7, <2>2, Zenon
        <3>2. DOMAIN Q = 1 .. Len(Q)
            BY <3>1
        <3> QED
            BY <3>1, <3>2, Zenon
    <2> QED
        BY <1>7, <2>2, <2>3, Zenon
<1>9. CASE off \/ ~inside
    <2>1. result = {} /\ meaning = <<>>
        BY <1>2, <1>5, <1>6, <1>9, Zenon
    <2> QED
        BY <2>1, Zenon DEF Understood
<1>10. ASSUME ~off
       PROVE  m.mouse # 0
    BY <1>10
<1>11. TRUE \in BOOLEAN /\ FALSE \in BOOLEAN
    OBVIOUS
<1>12. CASE ~off /\ inside /\ ~near
    <2>1. meaning = <<>>
        BY <1>2, <1>6, <1>12, Zenon
    <2> HIDE DEF code
    <2>2. (~Tellable(m, from) => A = {}) /\ (~Tellable(m, to) => B = {})
        <3>1. m.mouse # 0
            BY <1>10, <1>12
        <3>2. ~Tellable(m, from) => A = {}
            BY <1>1, <1>3, <1>11, <3>1, ReportReads
        <3>3. ~Tellable(m, to) => B = {}
            BY <1>1, <1>3, <1>11, <3>1, ReportReads
        <3> QED
            BY <3>2, <3>3
    <2>3. 1 \in 1 .. N /\ N \in 1 .. N
        BY <1>4
    <2> HIDE DEF N, Q, A, B
    <2>4. 1 \in DOMAIN Q /\ N \in DOMAIN Q /\ (Q[1] = {} \/ Q[N] = {})
        BY <1>8, <1>12, <2>2, <2>3, Zenon
    <2>5. Reports(Q) = {}
        BY <2>4, RefusedAll, Zenon
    <2>6. result = {}
        BY <1>5, <1>12, <2>5, Zenon
    <2> QED
        BY <2>1, <2>6, Zenon DEF Understood
<1>13. CASE ~off /\ inside /\ near
    <2>1. result = Reports(Q) /\ meaning = q
        BY <1>2, <1>5, <1>6, <1>13, Zenon
    <2>2. m.mouse # 0
        BY <1>10, <1>13
    <2> HIDE DEF code
    <2>3. OneReport(m, A, a) /\ OneReport(m, B, b)
        <3>1. Tellable(m, from) /\ Tellable(m, to)
            BY <1>13
        <3>2. OneReport(m, A, ReportedAs(m, code, from, TRUE))
            BY <1>1, <1>3, <1>11, <2>2, <3>1, ReportReads
        <3>3. OneReport(m, B, ReportedAs(m, code, to, FALSE))
            BY <1>1, <1>3, <1>11, <2>2, <3>1, ReportReads
        <3> QED
            BY <1>3, <3>2, <3>3, Zenon
    <2>4. ASSUME NEW k \in 1 .. n
          PROVE  OneReport(m, P[k], p[k])
        <3> DEFINE at == Crossing(from, to, k)
                   moved == code + MotionCode
        <3>1. at \in Positions /\ Tellable(m, at) /\ 33 + at.col \in Char /\ 33 + at.row \in Char
            BY <1>13, WayTold
        <3>2. P[k] = MouseReport(m, moved, at, TRUE) /\ p[k] = MouseEvent("motion", button, mods, at)
            BY DEF MotionsSent, MotionsMeant
        <3>3. moved \in Nat /\ ReportedAs(m, moved, at, TRUE) = MouseEvent("motion", button, mods, at)
            BY <1>3, Zenon
        <3> HIDE DEF at, moved
        <3>4. OneReport(m, MouseReport(m, moved, at, TRUE), ReportedAs(m, moved, at, TRUE))
            BY <1>11, <2>2, <3>1, <3>3, ReportReads
        <3> QED
            BY <3>2, <3>3, <3>4, Zenon
    <2>5. a \in V /\ b \in V /\ \A k \in 1 .. n : p[k] \in V
        BY <2>3, <2>4, OneIsEvent
    <2>6. p = [k \in 1 .. n |-> p[k]]
        BY DEF MotionsMeant
    <2> HIDE DEF p, P, n, V, a, b, A, B
    <2>7. p \in Seq(V) /\ Len(p) = n
        <3>1. p \in [1 .. n -> V]
            BY <2>5, <2>6
        <3> QED
            BY <1>4, <3>1
    <2>8. Framed(V, a, p, b)
        BY <2>5, <2>7, IsFramed
    <2>9. q \in Seq(V) /\ Len(q) = Len(p) + 2 /\ q[1] = a /\ q[Len(p) + 2] = b /\ \A i \in 1 .. Len(p) : q[i + 1] = p[i]
        BY <2>8, Zenon DEF Framed
    <2> HIDE DEF q, Q
    <2>10. DOMAIN q = 1 .. N /\ q \in [1 .. N -> V] /\ q[1] = a /\ q[N] = b /\ \A i \in 1 .. n : q[i + 1] = p[i]
        <3>1. Len(q) = N /\ DOMAIN q = 1 .. Len(q) /\ q \in [1 .. Len(q) -> V]
            BY <2>7, <2>9
        <3> QED
            BY <2>7, <2>9, <3>1, Zenon
    <2>11. \A i \in 1 .. N : OneReport(m, Q[i], q[i])
        <3> TAKE i \in 1 .. N
        <3>1. i = 1 \/ i = N \/ \E k \in 1 .. n : i = k + 1
            <4>1. i - 1 \in 1 .. n \/ i = 1 \/ i = N
                BY <1>4
            <4>2. i = (i - 1) + 1
                BY <1>4
            <4> QED
                BY <4>1, <4>2
        <3>2. CASE \E k \in 1 .. n : i = k + 1
            <4>1. PICK k \in 1 .. n : i = k + 1
                BY <3>2
            <4>2. Q[k + 1] = P[k] /\ q[k + 1] = p[k]
                BY <1>8, <2>10, Zenon
            <4> QED
                BY <2>4, <4>1, <4>2
        <3> HIDE DEF N
        <3> QED
            BY <1>8, <2>3, <2>10, <3>1, <3>2, Zenon
    <2>12. N \in Nat
        BY <1>4
    <2> HIDE DEF N
    <2>13. AllReports(m, Reports(Q), q)
        <3>1. DOMAIN Q = 1 .. N /\ DOMAIN q = 1 .. N /\ q \in [1 .. N -> Events(m)]
            BY <1>8, <2>10, Zenon DEF V
        <3> QED
            BY <2>11, <2>12, <3>1, ReportsRead
    <2>14. Understood(m, Reports(Q), q)
        BY <2>13, AllUnderstood
    <2> HIDE DEF result, meaning
    <2>15. Understood(m, result, meaning)
        BY <2>1, <2>14, Zenon
    <2> QED
        BY <2>15, Zenon DEF result, meaning
<1> QED
    BY <1>9, <1>12, <1>13, Zenon
===============================================================================
