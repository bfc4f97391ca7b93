-------------------------- MODULE TestSession_proofs --------------------------
(***************************************************************************)
(* The session of a test: pastes are told, what the test holds are screens *)
(* and files whatever it masks, saves and reads, what it finds is a place, *)
(* the application takes the input for what the test meant, and the JSON   *)
(* of every screen reads back as that screen.                              *)
(***************************************************************************)
EXTENDS TestSession, Input_proofs, FiniteSetTheorems

-----------------------------------------------------------------------------
(* Replacing in a sequence. *)

(* A sequence that is not empty is its first element and the rest. *)
Unfolds(E, q) ==
    /\ q[1] \in E /\ Onward(q, 1) \in Seq(E) /\ Len(Onward(q, 1)) = Len(q) - 1
    /\ q = <<q[1]>> \o Onward(q, 1)

(* A sequence is its first element and the rest. *)
LEMMA FirstAndRest ==
    ASSUME NEW E, NEW q \in Seq(E), q # <<>>
    PROVE  Unfolds(E, q)
<1>1. Len(q) \in Nat \ {0} /\ 1 \in 0 .. Len(q) /\ q[1] \in E
    OBVIOUS
<1>2. /\ SubSeq(q, 1 + 1, Len(q)) \in Seq(E) /\ Len(SubSeq(q, 1 + 1, Len(q))) = Len(q) - 1
      /\ SubSeq(q, 1, 1) \o SubSeq(q, 1 + 1, Len(q)) = q
      /\ SubSeq(q, 1, 1) \in Seq(E) /\ Len(SubSeq(q, 1, 1)) = 1
    BY <1>1, CutAndRejoin
<1>3. SubSeq(q, 1, 1) = <<q[1]>>
    <2> DEFINE a == SubSeq(q, 1, 1)
               b == <<q[1]>>
    <2>1. a \in Seq(E) /\ Len(a) = 1 /\ a[1] = q[1]
        BY <1>1
    <2>2. b \in Seq(E) /\ Len(b) = 1 /\ b[1] = q[1]
        BY <1>1
    <2> HIDE DEF a, b
    <2>3. \A i \in 1 .. Len(a) : a[i] = b[i]
        BY <2>1, <2>2
    <2> QED
        BY <2>1, <2>2, <2>3, SeqEqual DEF a, b
<1> QED
    BY <1>1, <1>2, <1>3, Zenon DEF Unfolds, Onward

(* What it begins with, and the rest. *)
Breaks(E, what, q) ==
    /\ Len(what) <= Len(q)
    /\ Onward(q, Len(what)) \in Seq(E) /\ Len(Onward(q, Len(what))) = Len(q) - Len(what)
    /\ q = what \o Onward(q, Len(what))

(* A sequence is its prefix and the rest. *)
LEMMA PrefixAndRest ==
    ASSUME NEW E, NEW q \in Seq(E), NEW what \in Seq(E), IsPrefix(what, q)
    PROVE  Breaks(E, what, q)
<1> DEFINE k == Len(what)
<1>1. k \in 0 .. Len(q) /\ k <= Len(q)
    BY DEF IsPrefix
<1>2. SubSeq(what, 1, k) = SubSeq(q, 1, k)
    BY DEF IsPrefix
<1>3. SubSeq(what, 1, k) = what
    BY SubSeqFull
<1>4. /\ SubSeq(q, k + 1, Len(q)) \in Seq(E) /\ Len(SubSeq(q, k + 1, Len(q))) = Len(q) - k
      /\ SubSeq(q, 1, k) \o SubSeq(q, k + 1, Len(q)) = q
    BY <1>1, CutAndRejoin
<1> QED
    BY <1>1, <1>2, <1>3, <1>4, Zenon DEF Breaks, Onward

(* The first of two is a prefix of both together. *)
LEMMA PrefixOfJoin ==
    ASSUME NEW E, NEW what \in Seq(E), NEW v \in Seq(E)
    PROVE  IsPrefix(what, what \o v)
<1> DEFINE q == what \o v
<1>1. q \in Seq(E) /\ Len(q) = Len(what) + Len(v) /\ \A i \in 1 .. Len(what) : q[i] = what[i]
    BY Begins
<1>2. Len(what) <= Len(q) /\ Len(v) \in Nat /\ Len(what) \in Nat
    BY <1>1
<1> HIDE DEF q
<1>3. SubSeq(what, 1, Len(what)) = SubSeq(q, 1, Len(what))
    <2> DEFINE a == SubSeq(what, 1, Len(what))
               b == SubSeq(q, 1, Len(what))
    <2>1. a \in Seq(E) /\ Len(a) = Len(what) /\ \A i \in 1 .. Len(a) : a[i] = what[i]
        BY <1>2
    <2>2. b \in Seq(E) /\ Len(b) = Len(what) /\ \A i \in 1 .. Len(b) : b[i] = q[i]
        BY <1>1, <1>2
    <2>3. \A i \in 1 .. Len(a) : a[i] = b[i]
        BY <1>1, <2>1, <2>2
    <2> HIDE DEF a, b
    <2> QED
        BY <2>1, <2>2, <2>3, SeqEqual DEF a, b
<1> QED
    BY <1>2, <1>3 DEF IsPrefix, q

(* What is replaced, and what is kept. *)
Replacing(E, what, with) ==
    [q \in Seq(E) |-> IF q = <<>> THEN [out |-> <<>>, length |-> 1]
                      ELSE IF IsPrefix(what, q) THEN [out |-> with, length |-> Len(what)]
                      ELSE [out |-> <<q[1]>>, length |-> 1]]

(* Replacing, as a step of consuming. *)
LEMMA ReplacingTakes ==
    ASSUME NEW E, NEW what \in Seq(E), what # <<>>, NEW with \in Seq(E)
    PROVE  Replacing(E, what, with) \in Takes(E, E)
<1>1. ASSUME NEW q \in Seq(E)
      PROVE  Replacing(E, what, with)[q] \in [out : Seq(E), length : Nat \ {0}]
    <2>1. Len(what) \in Nat \ {0}
        OBVIOUS
    <2>2. CASE q = <<>>
        BY <2>2 DEF Replacing
    <2>3. CASE q # <<>> /\ IsPrefix(what, q)
        BY <2>1, <2>3 DEF Replacing
    <2>4. CASE q # <<>> /\ ~IsPrefix(what, q)
        <3>1. q[1] \in E
            BY <2>4, FirstAndRest, Zenon DEF Unfolds
        <3>2. <<q[1]>> \in Seq(E)
            BY <3>1
        <3> QED
            BY <2>4, <3>2 DEF Replacing
    <2> QED
        BY <2>2, <2>3, <2>4
<1> QED
    BY <1>1 DEF Takes, Replacing

(* Replacing every occurrence is consuming, occurrence by occurrence. *)
LEMMA ReplacedIs ==
    ASSUME NEW E, NEW what \in Seq(E), what # <<>>, NEW with \in Seq(E), NEW q \in Seq(E)
    PROVE  Replaced(q, what, with) = Consuming(Replacing(E, what, with), q)
<1> DEFINE N == Len(q)
           Hit(i) == i <= Len(q) /\ IsPrefix(what, SubSeq(q, i, Len(q)))
           Value(f, i) == CASE i > Len(q) -> <<>> [] Hit(i) -> with \o f[i + Len(what)]
                            [] OTHER -> <<q[i]>> \o f[i + 1]
           Is(f) == f = [i \in 1 .. N + 1 |-> Value(f, i)]
           c == CHOOSE f : Is(f)
           next == Replacing(E, what, with)
           g == Going(next, q)
           h == [i \in 1 .. N + 1 |-> g[i]]
           At(i) == SubSeq(q, i, Len(q))
<1>1. N \in Nat /\ Len(what) \in Nat \ {0} /\ next \in Takes(E, E)
    BY ReplacingTakes
<1>2. ASSUME NEW i \in 1 .. N
      PROVE  At(i) \in Seq(E) /\ At(i) # <<>> /\ At(i)[1] = q[i] /\ Len(At(i)) = N + 1 - i
    <2>1. At(i) \in Seq(E) /\ Len(At(i)) = N + 1 - i
        BY <1>1
    <2>2. At(i)[1] = q[i]
        BY <1>1
    <2>3. Len(At(i)) # 0
        BY <1>1, <2>1
    <2>4. \A s : Len(s) # 0 => s # <<>>
        OBVIOUS
    <2> QED
        BY <2>1, <2>2, <2>3, <2>4, Zenon
<1>3. ASSUME NEW i \in 1 .. N
      PROVE  /\ Hit(i) => /\ next[At(i)].out = with /\ Later(q, i, next[At(i)].length) = i + Len(what)
                          /\ i + Len(what) \in 1 .. N + 1
             /\ ~Hit(i) => next[At(i)].out = <<q[i]>> /\ Later(q, i, next[At(i)].length) = i + 1
    <2> DEFINE a == At(i)
    <2>1. a \in Seq(E) /\ a # <<>> /\ a[1] = q[i] /\ Len(a) = N + 1 - i
        BY <1>2
    <2>2. Hit(i) <=> IsPrefix(what, a)
        OBVIOUS
    <2> HIDE DEF a
    <2>3. ASSUME IsPrefix(what, a)
          PROVE  next[a].out = with /\ next[a].length = Len(what) /\ Len(what) <= N + 1 - i
        <3>1. next[a] = [out |-> with, length |-> Len(what)]
            BY <2>1, <2>3 DEF Replacing
        <3>2. Len(what) <= Len(a)
            BY <2>3 DEF IsPrefix
        <3> HIDE DEF next
        <3> QED
            BY <2>1, <3>1, <3>2
    <2>4. ASSUME ~IsPrefix(what, a)
          PROVE  next[a].out = <<q[i]>> /\ next[a].length = 1
        <3>1. next[a] = [out |-> <<q[i]>>, length |-> 1]
            BY <2>1, <2>4 DEF Replacing
        <3> HIDE DEF next
        <3> QED
            BY <3>1
    <2> HIDE DEF next
    <2>5. ASSUME IsPrefix(what, a)
          PROVE  Later(q, i, next[a].length) = i + Len(what) /\ i + Len(what) \in 1 .. N + 1
        <3> DEFINE w == Len(what)
        <3>1. w \in Nat /\ w <= N + 1 - i /\ next[a].length = w
            BY <1>1, <2>3, <2>5
        <3> HIDE DEF w
        <3>2. Later(q, i, w) = i + w /\ i + w \in 1 .. N + 1
            BY <1>1, <3>1 DEF Later
        <3> QED
            BY <3>1, <3>2 DEF w
    <2>6. ASSUME ~IsPrefix(what, a)
          PROVE  Later(q, i, next[a].length) = i + 1
        <3>1. next[a].length = 1
            BY <2>4, <2>6
        <3>2. Later(q, i, 1) = i + 1
            BY <1>1 DEF Later
        <3> QED
            BY <3>1, <3>2
    <2> QED
        BY <2>2, <2>3, <2>4, <2>5, <2>6, Zenon DEF a
<1>4. Goes(g, next, q)
    BY <1>1, GoingIs
<1> HIDE DEF g, next
<1>5. g[N + 1] = <<>> /\ \A i \in 1 .. N : g[i] = next[At(i)].out \o g[Later(q, i, next[At(i)].length)]
    BY <1>4, Zenon DEF Goes
<1> HIDE DEF At
<1>6. Is(h)
    <2>1. \A i \in 1 .. N + 1 : h[i] = g[i]
        OBVIOUS
    <2>2. h = [i \in 1 .. N + 1 |-> h[i]]
        OBVIOUS
    <2> HIDE DEF h
    <2>3. ASSUME NEW i \in 1 .. N + 1
          PROVE  h[i] = Value(h, i)
        <3>1. CASE i > N
            <4>1. i = N + 1
                BY <1>1, <3>1
            <4>2. ~Hit(i) /\ Value(h, i) = <<>>
                BY <1>1, <3>1
            <4> QED
                BY <1>5, <2>1, <4>1, <4>2, Zenon
        <3>2. CASE ~(i > N) /\ Hit(i)
            <4>1. i \in 1 .. N
                BY <1>1, <3>2
            <4>2. Value(h, i) = with \o h[i + Len(what)]
                BY <3>2, Zenon
            <4> HIDE DEF Value, Hit
            <4>3. g[i] = with \o g[i + Len(what)] /\ i + Len(what) \in 1 .. N + 1
                BY <1>3, <1>5, <3>2, <4>1, Zenon
            <4> QED
                BY <2>1, <4>2, <4>3, Zenon
        <3>3. CASE ~(i > N) /\ ~Hit(i)
            <4>1. i \in 1 .. N /\ i + 1 \in 1 .. N + 1
                BY <1>1, <3>3
            <4>2. Value(h, i) = <<q[i]>> \o h[i + 1]
                BY <3>3, Zenon
            <4> HIDE DEF Value, Hit
            <4>3. g[i] = <<q[i]>> \o g[i + 1]
                BY <1>3, <1>5, <3>3, <4>1, Zenon
            <4> QED
                BY <2>1, <4>1, <4>2, <4>3, Zenon
        <3> QED
            BY <3>1, <3>2, <3>3, Zenon
    <2> HIDE DEF Value
    <2> QED
        BY <2>2, <2>3
<1> HIDE DEF h
<1>7. Is(c)
    BY <1>6, Zenon
<1>8. Goes(c, next, q)
    <2> HIDE DEF c
    <2>1. \A i \in 1 .. N + 1 : c[i] = Value(c, i)
        <3> HIDE DEF Value
        <3> QED
            BY <1>7
    <2>2. c[N + 1] = <<>>
        <3>1. N + 1 \in 1 .. N + 1 /\ N + 1 > N /\ ~Hit(N + 1)
            BY <1>1
        <3> DEFINE k == N + 1
        <3>2. c[k] = Value(c, k)
            BY <2>1, <3>1
        <3>3. k > Len(q) /\ ~Hit(k)
            BY <3>1
        <3> HIDE DEF k, Hit
        <3>4. c[k] = <<>>
            BY <3>2, <3>3, Zenon
        <3> QED
            BY <3>4 DEF k
    <2>3. ASSUME NEW i \in 1 .. N
          PROVE  c[i] = next[At(i)].out \o c[Later(q, i, next[At(i)].length)]
        <3>1. i \in 1 .. N + 1 /\ ~(i > Len(q))
            BY <1>1
        <3>2. c[i] = Value(c, i)
            BY <2>1, <3>1
        <3> HIDE DEF Hit
        <3>3. CASE Hit(i)
            <4>1. c[i] = with \o c[i + Len(what)]
                BY <3>1, <3>2, <3>3, Zenon
            <4> QED
                BY <1>3, <3>3, <4>1, Zenon
        <3>4. CASE ~Hit(i)
            <4>1. c[i] = <<q[i]>> \o c[i + 1]
                BY <3>1, <3>2, <3>4, Zenon
            <4> QED
                BY <1>3, <3>4, <4>1, Zenon
        <3> QED
            BY <3>3, <3>4
    <2> QED
        BY <2>2, <2>3, Zenon DEF Goes, At
<1>9. Replaced(q, what, with) = c[1]
    BY Zenon DEF Replaced
<1> HIDE DEF c
<1>10. c[1] = Consuming(next, q)
    BY <1>1, <1>8, ConsumingIs
<1> QED
    BY <1>9, <1>10 DEF next

(* It goes through a text from its beginning. *)
ReplacesIn(E, what, with) ==
    /\ Replaced(<<>>, what, with) = <<>>
    /\ \A q \in Seq(E) : Replaced(q, what, with) \in Seq(E)
    /\ \A v \in Seq(E) : Replaced(what \o v, what, with) = with \o Replaced(v, what, with)
    /\ \A q \in Seq(E) : q # <<>> /\ ~IsPrefix(what, q) =>
          Replaced(q, what, with) = <<q[1]>> \o Replaced(Onward(q, 1), what, with)

(* What is replaced of nothing, of an occurrence and of anything else. *)
LEMMA ReplacedNext ==
    ASSUME NEW E, NEW what \in Seq(E), what # <<>>, NEW with \in Seq(E)
    PROVE  ReplacesIn(E, what, with)
<1> DEFINE next == Replacing(E, what, with)
           C(q) == Consuming(next, q)
<1>1. next \in Takes(E, E)
    BY ReplacingTakes
<1>2. \A q \in Seq(E) : Replaced(q, what, with) = C(q)
    BY ReplacedIs
<1>3. <<>> \in Seq(E)
    OBVIOUS
<1>4. \A q \in Seq(E) : q # <<>> =>
         /\ IsPrefix(what, q) => next[q].out = with /\ next[q].length = Len(what)
         /\ ~IsPrefix(what, q) => next[q].out = <<q[1]>> /\ next[q].length = 1
    BY DEF Replacing
<1> HIDE DEF next
<1>5. C(<<>>) = <<>>
    BY <1>1, ConsumingNext
<1>6. \A q \in Seq(E) : q # <<>> => C(q) = next[q].out \o C(Onward(q, next[q].length))
    BY <1>1, ConsumingNext
<1>7. \A q \in Seq(E) : C(q) \in Seq(E)
    BY <1>1, ConsumingType
<1> HIDE DEF C
<1>8. ASSUME NEW v \in Seq(E)
      PROVE  Replaced(what \o v, what, with) = with \o Replaced(v, what, with)
    <2> DEFINE q == what \o v
    <2>1. IsPrefix(what, q)
        BY PrefixOfJoin
    <2>2. q \in Seq(E) /\ Len(q) = Len(what) + Len(v) /\ \A i \in 1 .. Len(v) : q[Len(what) + i] = v[i]
        BY Begins
    <2>3. q # <<>>
        <3>1. Len(what) # 0 /\ Len(what) \in Nat /\ Len(v) \in Nat
            OBVIOUS
        <3> HIDE DEF q
        <3>2. Len(q) # 0
            BY <2>2, <3>1
        <3> QED
            BY <3>2
    <2> HIDE DEF q
    <2>4. Onward(q, Len(what)) = v
        <3> DEFINE s == Onward(q, Len(what))
                   k == Len(what)
        <3>1. k \in 0 .. Len(q)
            BY <2>2
        <3>2. s \in Seq(E) /\ Len(s) = Len(q) - k /\ EndsIn(q, k, s)
            BY <2>2, <3>1, OnwardProperties
        <3> HIDE DEF s
        <3>3. Len(s) = Len(v)
            BY <2>2, <3>2
        <3>4. \A i \in 1 .. Len(s) : s[i] = v[i]
            BY <2>2, <3>2, <3>3, Zenon DEF EndsIn
        <3> QED
            BY <3>2, <3>3, <3>4, SeqEqual DEF s
    <2>5. next[q].out = with /\ next[q].length = Len(what)
        BY <1>4, <2>1, <2>2, <2>3
    <2>6. C(q) = with \o C(v)
        BY <1>6, <2>2, <2>3, <2>4, <2>5, Zenon
    <2> QED
        BY <1>2, <2>2, <2>6, Zenon DEF q
<1>9. ASSUME NEW q \in Seq(E), q # <<>>, ~IsPrefix(what, q)
      PROVE  Replaced(q, what, with) = <<q[1]>> \o Replaced(Onward(q, 1), what, with)
    <2>1. next[q].out = <<q[1]>> /\ next[q].length = 1
        BY <1>4, <1>9
    <2>2. Onward(q, 1) \in Seq(E)
        BY <1>9, FirstAndRest, Zenon DEF Unfolds
    <2>3. C(q) = <<q[1]>> \o C(Onward(q, 1))
        BY <1>6, <1>9, <2>1, Zenon
    <2> QED
        BY <1>2, <2>2, <2>3, Zenon
<1>10. Replaced(<<>>, what, with) = <<>>
    BY <1>2, <1>3, <1>5, Zenon
<1>11. \A q \in Seq(E) : Replaced(q, what, with) \in Seq(E)
    BY <1>2, <1>7, Zenon
<1> QED
    BY <1>8, <1>9, <1>10, <1>11, Zenon DEF ReplacesIn

-----------------------------------------------------------------------------
(* Taking out the markers of a paste. *)

(* What comes of two sequences, one after the other. *)
LEMMA FoldingJoin ==
    ASSUME NEW E, NEW base, NEW step, NEW u \in Seq(E), NEW v \in Seq(E)
    PROVE  Folding(base, step, u \o v) = Folding(Folding(base, step, u), step, v)
<1> DEFINE w == u \o v
           f == Following(base, step, w)
           g == Following(base, step, u)
           next == Folding(base, step, u)
           h == Following(next, step, v)
           N == Len(u)
           M == Len(v)
           k == [n \in 0 .. M |-> f[N + n]]
<1>1. /\ w \in Seq(E) /\ Len(w) = N + M /\ N \in Nat /\ M \in Nat
      /\ \A i \in 1 .. N : w[i] = u[i]
      /\ \A i \in 1 .. M : w[N + i] = v[i]
    BY Begins
<1>2. Follows(f, base, step, w) /\ Follows(g, base, step, u) /\ Follows(h, next, step, v)
    BY <1>1, FollowingIs
<1>3. next = g[N] /\ Folding(base, step, w) = f[Len(w)] /\ Folding(next, step, v) = h[M]
    BY DEF Folding
<1> HIDE DEF w, f, g, next, h
<1>4. f[N] = g[N]
    <2>1. BeginAlike(w, u, N) /\ N <= Len(w) /\ N <= Len(u)
        BY <1>1 DEF BeginAlike
    <2> HIDE DEF N
    <2> QED
        BY <1>1, <1>2, <2>1, FollowsOnce
<1>5. \A n \in 0 .. M : k[n] = f[N + n]
    OBVIOUS
<1> HIDE DEF k
<1>6. Follows(k, next, step, v)
    <2>1. k[0] = next
        <3>1. 0 \in 0 .. M /\ N + 0 = N
            BY <1>1
        <3> QED
            BY <1>3, <1>4, <1>5, <3>1
    <2>2. ASSUME NEW n \in 1 .. Len(v)
          PROVE  k[n] = step[<<k[n - 1], v[n]>>]
        <3>1. n \in 0 .. M /\ n - 1 \in 0 .. M /\ N + n \in 1 .. Len(w) /\ (N + n) - 1 = N + (n - 1) /\ n \in 1 .. M
            BY <1>1
        <3>2. f[N + n] = step[<<f[(N + n) - 1], w[N + n]>>]
            BY <1>2, <3>1 DEF Follows
        <3> QED
            BY <1>1, <1>5, <3>1, <3>2
    <2> QED
        BY <2>1, <2>2 DEF Follows
<1>7. k[M] = h[M]
    <2>1. BeginAlike(v, v, M) /\ M <= Len(v)
        BY <1>1 DEF BeginAlike
    <2> HIDE DEF M
    <2> QED
        BY <1>1, <1>2, <1>6, <2>1, FollowsOnce
<1>8. M \in 0 .. M
    BY <1>1
<1> QED
    <2>1. k[M] = f[Len(w)]
        BY <1>1, <1>5, <1>8
    <2>2. Folding(base, step, w) = Folding(next, step, v)
        BY <1>3, <1>7, <2>1, Zenon
    <2> QED
        BY <2>2, Zenon DEF w, next

(* Folding one element is one step. *)
LEMMA FoldingOne ==
    ASSUME NEW E, NEW base, NEW step, NEW c \in E
    PROVE  Folding(base, step, <<c>>) = step[<<base, c>>]
<1> DEFINE s == <<c>>
           f == Following(base, step, s)
<1>1. s \in Seq(E) /\ Len(s) = 1 /\ s[1] = c
    OBVIOUS
<1>2. Folding(base, step, s) = f[1]
    BY <1>1 DEF Folding
<1>3. Follows(f, base, step, s)
    BY <1>1, FollowingIs
<1> HIDE DEF s, f
<1>4. f[1] = step[<<base, c>>]
    <2>1. 1 \in 1 .. Len(s) /\ 1 - 1 = 0
        BY <1>1
    <2>2. f[1] = step[<<f[1 - 1], s[1]>>] /\ f[0] = base
        BY <1>3, <2>1 DEF Follows
    <2> QED
        BY <1>1, <2>1, <2>2
<1> QED
    BY <1>2, <1>4 DEF s

(* A character more, and a marker less. *)
UnmarkStep ==
    [p \in Bytes \X Nat |->
        LET next == Append(p[1], p[2]) IN
        IF Len(next) >= 6 /\ SubSeq(next, Len(next) - 5, Len(next)) \in Markers
        THEN SubSeq(next, 1, Len(next) - 6) ELSE next]

(* Dropping the markers that the last byte ended, as a step. *)
LEMMA UnmarkStepType ==
    /\ UnmarkStep \in [Bytes \X Nat -> Bytes]
    /\ <<>> \in Bytes
    /\ \A acc \in Bytes, c \in Nat :
          UnmarkStep[<<acc, c>>] =
              LET next == Append(acc, c) IN
              IF Len(next) >= 6 /\ SubSeq(next, Len(next) - 5, Len(next)) \in Markers
              THEN SubSeq(next, 1, Len(next) - 6) ELSE next
<1>1. ASSUME NEW p \in Bytes \X Nat
      PROVE  UnmarkStep[p] \in Bytes
    <2> DEFINE next == Append(p[1], p[2])
    <2>1. next \in Seq(Nat)
        BY DEF Bytes
    <2>2. UnmarkStep[p] = IF Len(next) >= 6 /\ SubSeq(next, Len(next) - 5, Len(next)) \in Markers
                          THEN SubSeq(next, 1, Len(next) - 6) ELSE next
        BY Zenon DEF UnmarkStep
    <2> HIDE DEF next
    <2>3. Len(next) >= 6 => SubSeq(next, 1, Len(next) - 6) \in Seq(Nat)
        BY <2>1
    <2> QED
        BY <2>1, <2>2, <2>3 DEF Bytes
<1>2. UnmarkStep \in [Bytes \X Nat -> Bytes]
    <2>1. UnmarkStep = [p \in Bytes \X Nat |-> UnmarkStep[p]]
        BY DEF UnmarkStep
    <2> QED
        BY <1>1, <2>1
<1>3. <<>> \in Bytes
    BY DEF Bytes
<1>4. ASSUME NEW acc \in Bytes, NEW c \in Nat
      PROVE  UnmarkStep[<<acc, c>>] =
                 LET next == Append(acc, c) IN
                 IF Len(next) >= 6 /\ SubSeq(next, Len(next) - 5, Len(next)) \in Markers
                 THEN SubSeq(next, 1, Len(next) - 6) ELSE next
    <2>1. <<acc, c>> \in Bytes \X Nat /\ <<acc, c>>[1] = acc /\ <<acc, c>>[2] = c
        OBVIOUS
    <2> QED
        BY <2>1 DEF UnmarkStep
<1> QED
    BY <1>2, <1>3, <1>4, Zenon

Unmarking(acc, text) == Folding(acc, UnmarkStep, text)

(* Text without markers is a fold. *)
LEMMA UnmarkedIs ==
    ASSUME NEW text \in Bytes
    PROVE  Unmarked(text) = Unmarking(<<>>, text)
<1> DEFINE Next1A(f, n) == LET next == Append(f[n - 1], text[n]) IN
                           IF Len(next) >= 6 /\ SubSeq(next, Len(next) - 5, Len(next)) \in Markers
                           THEN SubSeq(next, 1, Len(next) - 6) ELSE next
           Is(f) == f = [n \in 0 .. Len(text) |-> IF n = 0 THEN <<>> ELSE Next1A(f, n)]
           c == CHOOSE f : Is(f)
<1>1. text \in Seq(Nat) /\ Len(text) \in Nat /\ \A n \in 1 .. Len(text) : text[n] \in Nat
    BY DEF Bytes
<1>2. PICK g : g \in [0 .. Len(text) -> Bytes] /\ Follows(g, <<>>, UnmarkStep, text)
    BY <1>1, UnmarkStepType, FollowingType
<1>3. \A f, n : f[n - 1] \in Bytes /\ n \in 1 .. Len(text) => UnmarkStep[<<f[n - 1], text[n]>>] = Next1A(f, n)
    BY <1>1, UnmarkStepType, Zenon
<1> HIDE DEF Next1A
<1>4. Is(g)
    <2>1. \A n \in 0 .. Len(text) : g[n] = IF n = 0 THEN <<>> ELSE Next1A(g, n)
        <3> TAKE n \in 0 .. Len(text)
        <3>1. CASE n = 0
            BY <1>2, <3>1 DEF Follows
        <3>2. CASE n # 0
            <4>1. n \in 1 .. Len(text) /\ n - 1 \in 0 .. Len(text)
                BY <1>1, <3>2
            <4>2. g[n - 1] \in Bytes
                BY <1>2, <4>1
            <4>3. g[n] = UnmarkStep[<<g[n - 1], text[n]>>]
                BY <1>2, <4>1 DEF Follows
            <4> QED
                BY <1>3, <3>2, <4>1, <4>2, <4>3, Zenon
        <3> QED
            BY <3>1, <3>2
    <2>2. g = [n \in 0 .. Len(text) |-> g[n]]
        BY <1>2
    <2> QED
        BY <2>1, <2>2
<1>5. Is(c)
    BY <1>4, Zenon
<1>6. Unmarked(text) = c[Len(text)]
    BY Zenon DEF Unmarked, Next1A
<1> HIDE DEF c
<1>7. \A n \in 0 .. Len(text) : c[n] = IF n = 0 THEN <<>> ELSE Next1A(c, n)
    BY <1>5
<1> HIDE DEF Is
<1>8. Keeps(c, Bytes, <<>>, UnmarkStep, text)
    <2>1. c[0] = <<>>
        BY <1>1, <1>7
    <2>2. ASSUME NEW n \in 1 .. Len(text), c[n - 1] \in Bytes
          PROVE  c[n] = UnmarkStep[<<c[n - 1], text[n]>>]
        <3>1. n \in 0 .. Len(text) /\ n # 0
            BY <1>1
        <3>2. c[n] = Next1A(c, n)
            BY <1>7, <3>1
        <3> QED
            BY <1>3, <2>2, <3>2, Zenon
    <2> QED
        BY <2>1, <2>2 DEF Keeps
<1>9. ComesTo(c, text, Folding(<<>>, UnmarkStep, text))
    <2> DEFINE base == <<>>
    <2>1. base \in Bytes /\ UnmarkStep \in [Bytes \X Nat -> Bytes] /\ Keeps(c, Bytes, base, UnmarkStep, text)
        BY <1>8, UnmarkStepType, Zenon
    <2> HIDE DEF base
    <2>2. ComesTo(c, text, Folding(base, UnmarkStep, text))
        BY <1>1, <2>1, FoldingIs
    <2> QED
        BY <2>2 DEF base
<1> QED
    BY <1>6, <1>9 DEF ComesTo, Unmarking
Starts == <<27, 91, 50, 48, 48, 126>>
Closes == <<27, 91, 50, 48, 49, 126>>

(* The markers, byte by byte. *)
LEMMA Sixes ==
    \A x \in {48, 49} :
        /\ <<27, 91>> \o <<50, 48, x>> \o <<126>> = <<27, 91, 50, 48, x, 126>>
        /\ <<27, 91, 50, 48, x, 126>> \in Bytes /\ Len(<<27, 91, 50, 48, x, 126>>) = 6
        /\ <<27, 91, 50, 48, x, 126>>[1] = 27 /\ <<27, 91, 50, 48, x, 126>>[6] = 126
<1> TAKE x \in {48, 49}
<1> DEFINE a == <<27, 91>>
           b == <<50, 48, x>>
           c == <<126>>
           s == (a \o b) \o c
           t == <<27, 91, 50, 48, x, 126>>
<1>1. x \in Nat
    OBVIOUS
<1>2. a \in Seq(Nat) /\ Len(a) = 2 /\ a[1] = 27 /\ a[2] = 91
    OBVIOUS
<1>3. b \in Seq(Nat) /\ Len(b) = 3 /\ b[1] = 50 /\ b[2] = 48 /\ b[3] = x
    BY <1>1
<1>4. c \in Seq(Nat) /\ Len(c) = 1 /\ c[1] = 126
    OBVIOUS
<1>5. t \in Seq(Nat) /\ Len(t) = 6 /\ t[1] = 27 /\ t[2] = 91 /\ t[3] = 50 /\ t[4] = 48 /\ t[5] = x /\ t[6] = 126
    BY <1>1
<1> HIDE DEF a, b, c, t
<1>6. s \in Seq(Nat) /\ Len(s) = 6 /\ s[1] = 27 /\ s[2] = 91 /\ s[3] = 50 /\ s[4] = 48 /\ s[5] = x /\ s[6] = 126
    <2> DEFINE d == a \o b
    <2>1. d \in Seq(Nat) /\ Len(d) = 5 /\ d[1] = 27 /\ d[2] = 91 /\ d[3] = 50 /\ d[4] = 48 /\ d[5] = x
        <3>1. d \in Seq(Nat) /\ Len(d) = Len(a) + Len(b) /\ (\A i \in 1 .. Len(a) : d[i] = a[i])
              /\ (\A i \in 1 .. Len(b) : d[Len(a) + i] = b[i])
            <4>1. a \in Seq(Nat) /\ b \in Seq(Nat)
                BY <1>2, <1>3
            <4> QED
                BY <4>1, Begins
        <3> HIDE DEF d
        <3>2. (\A i \in 1 .. 2 : d[i] = a[i]) /\ (\A i \in 1 .. 3 : d[2 + i] = b[i])
            BY <1>2, <1>3, <3>1
        <3>3. d[1] = a[1] /\ d[2] = a[2] /\ d[2 + 1] = b[1] /\ d[2 + 2] = b[2] /\ d[2 + 3] = b[3]
            BY <3>2
        <3> QED
            BY <1>2, <1>3, <3>1, <3>3
    <2> HIDE DEF d
    <2>2. d \o c \in Seq(Nat) /\ Len(d \o c) = 6 /\ (d \o c)[6] = 126
          /\ (d \o c)[1] = d[1] /\ (d \o c)[2] = d[2] /\ (d \o c)[3] = d[3] /\ (d \o c)[4] = d[4] /\ (d \o c)[5] = d[5]
        <3> DEFINE e == d \o c
        <3>1. e \in Seq(Nat) /\ Len(e) = Len(d) + Len(c) /\ (\A i \in 1 .. Len(d) : e[i] = d[i])
              /\ (\A i \in 1 .. Len(c) : e[Len(d) + i] = c[i])
            <4>1. d \in Seq(Nat) /\ c \in Seq(Nat)
                BY <1>4, <2>1
            <4> QED
                BY <4>1, Begins
        <3> HIDE DEF e
        <3>2. (\A i \in 1 .. 5 : e[i] = d[i]) /\ (\A i \in 1 .. 1 : e[5 + i] = c[i])
            BY <1>4, <2>1, <3>1
        <3>3. e[1] = d[1] /\ e[2] = d[2] /\ e[3] = d[3] /\ e[4] = d[4] /\ e[5] = d[5] /\ e[5 + 1] = c[1]
            BY <3>2
        <3>4. e[6] = 126
            BY <1>4, <3>3
        <3> QED
            BY <1>4, <2>1, <3>1, <3>3, <3>4 DEF e
    <2> QED
        BY <2>1, <2>2 DEF d
<1> HIDE DEF s
<1>7. \A i \in 1 .. 6 : i \in {1, 2, 3, 4, 5, 6}
    OBVIOUS
<1>8. \A i \in 1 .. Len(s) : s[i] = t[i]
    BY <1>5, <1>6, <1>7
<1>9. s = t
    <2>1. s \in Seq(Nat) /\ t \in Seq(Nat) /\ Len(s) = Len(t)
        BY <1>5, <1>6
    <2> QED
        BY <1>8, <2>1, SeqEqual
<1> QED
    BY <1>5, <1>9 DEF a, b, c, s, t, Bytes

(* The two markers: six bytes, of which the first begins one and the last ends one. *)
LEMMA MarkersAre ==
    /\ Markers = {Starts, Closes}
    /\ PasteStart = Starts /\ PasteEnd = Closes
    /\ \A mk \in Markers : /\ mk \in Bytes /\ Len(mk) = 6
                           /\ mk[1] = 27 /\ mk[6] = 126
                           /\ \A i \in 1 .. 5 : mk[i] # 126
<1>1. Markers = {Starts, Closes}
    BY DEF Markers, Starts, Closes
<1>2. Decimal(200) = <<50, 48, 48>> /\ Decimal(201) = <<50, 48, 49>>
    <2>1. \A n \in Nat : /\ n < 10 => Decimal(n) = <<48 + n>>
                        /\ ~ (n < 10) => Decimal(n) = Append(Decimal(n \div 10), 48 + (n % 10))
        BY DecimalNext
    <2>2. /\ 20 \div 10 = 2 /\ 20 % 10 = 0 /\ 200 \div 10 = 20 /\ 200 % 10 = 0
          /\ 201 \div 10 = 20 /\ 201 % 10 = 1
        OBVIOUS
    <2>3. Decimal(2) = <<50>>
        <3> DEFINE n == 2
        <3>1. n \in Nat /\ n < 10 /\ 48 + n = 50
            OBVIOUS
        <3> HIDE DEF n
        <3>2. Decimal(n) = <<48 + n>>
            BY <3>1, DecimalNext
        <3>3. Decimal(n) = <<50>>
            BY <3>1, <3>2
        <3> QED
            BY <3>3 DEF n
    <2>4. Decimal(20) = Append(Decimal(2), 48)
        <3> DEFINE n == 20
                   t == 2
                   d == 48
        <3>1. n \in Nat /\ ~ (n < 10) /\ n \div 10 = t /\ 48 + (n % 10) = d
            BY <2>2
        <3> HIDE DEF n, t, d
        <3>2. Decimal(n) = Append(Decimal(n \div 10), 48 + (n % 10))
            BY <2>1, <3>1, Zenon
        <3>3. Decimal(n) = Append(Decimal(t), d)
            BY <3>1, <3>2, Zenon
        <3> QED
            BY <3>3 DEF n, t, d
    <2>5. Decimal(200) = Append(Decimal(20), 48)
        <3> DEFINE n == 200
                   t == 20
                   d == 48
        <3>1. n \in Nat /\ ~ (n < 10) /\ n \div 10 = t /\ 48 + (n % 10) = d
            BY <2>2
        <3> HIDE DEF n, t, d
        <3>2. Decimal(n) = Append(Decimal(n \div 10), 48 + (n % 10))
            BY <2>1, <3>1, Zenon
        <3>3. Decimal(n) = Append(Decimal(t), d)
            BY <3>1, <3>2, Zenon
        <3> QED
            BY <3>3 DEF n, t, d
    <2>5a. Decimal(201) = Append(Decimal(20), 49)
        <3> DEFINE n == 201
                   t == 20
                   d == 49
        <3>1. n \in Nat /\ ~ (n < 10) /\ n \div 10 = t /\ 48 + (n % 10) = d
            BY <2>2
        <3> HIDE DEF n, t, d
        <3>2. Decimal(n) = Append(Decimal(n \div 10), 48 + (n % 10))
            BY <2>1, <3>1, Zenon
        <3>3. Decimal(n) = Append(Decimal(t), d)
            BY <3>1, <3>2, Zenon
        <3> QED
            BY <3>3 DEF n, t, d
    <2>6. Append(<<50>>, 48) = <<50, 48>> /\ Append(<<50, 48>>, 48) = <<50, 48, 48>> /\ Append(<<50, 48>>, 49) = <<50, 48, 49>>
        BY Tuples
    <2> QED
        BY <2>3, <2>4, <2>5, <2>5a, <2>6, ZenonT(40)
<1>3. PasteStart = Starts
    <2>1. PasteStart = <<27, 91>> \o <<50, 48, 48>> \o <<126>>
        BY <1>2, Zenon DEF PasteStart, Csi, Tilde, ESC
    <2> QED
        BY <2>1, Sixes, Zenon DEF Starts
<1>4. PasteEnd = Closes
    <2>1. PasteEnd = <<27, 91>> \o <<50, 48, 49>> \o <<126>>
        BY <1>2, Zenon DEF PasteEnd, Csi, Tilde, ESC
    <2> QED
        BY <2>1, Sixes, Zenon DEF Closes
<1>5. \A mk \in {Starts, Closes} : mk \in Bytes /\ Len(mk) = 6 /\ mk[1] = 27 /\ mk[6] = 126
    BY Sixes, ZenonT(40) DEF Starts, Closes
<1>6. \A mk \in {Starts, Closes} : \A i \in 1 .. 5 : mk[i] # 126
    <2>1. \A i \in 1 .. 5 : i \in {1, 2, 3, 4, 5}
        OBVIOUS
    <2>2. \A mk \in {Starts, Closes} : mk[1] # 126 /\ mk[2] # 126 /\ mk[3] # 126 /\ mk[4] # 126 /\ mk[5] # 126
        BY DEF Starts, Closes
    <2> QED
        BY <2>1, <2>2
<1> QED
    BY <1>1, <1>3, <1>4, <1>5, <1>6

(* A character that ends no marker is kept. *)
LEMMA UnmarkKeeps ==
    ASSUME NEW acc \in Bytes, NEW c \in Nat, c # 126
    PROVE  UnmarkStep[<<acc, c>>] = Append(acc, c)
<1> DEFINE next == Append(acc, c)
           last == SubSeq(next, Len(next) - 5, Len(next))
<1>1. next \in Seq(Nat) /\ Len(next) \in Nat /\ next[Len(next)] = c
    BY DEF Bytes
<1>2. UnmarkStep[<<acc, c>>] =
          IF Len(next) >= 6 /\ last \in Markers THEN SubSeq(next, 1, Len(next) - 6) ELSE next
    BY UnmarkStepType, Zenon
<1> HIDE DEF next
<1>3. Len(next) >= 6 => last[6] = c
    BY <1>1
<1>4. \A mk \in Markers : mk[6] = 126
    BY MarkersAre
<1> HIDE DEF last
<1> QED
    BY <1>2, <1>3, <1>4 DEF next

(* A marker comes to nothing, whatever came before it. *)
LEMMA MarkerGoes ==
    ASSUME NEW acc \in Bytes, NEW mk \in Markers
    PROVE  Unmarking(acc, mk) = acc
<1> DEFINE f == Following(acc, UnmarkStep, mk)
           n == Len(acc)
<1>1. /\ mk \in Bytes /\ mk \in Seq(Nat) /\ Len(mk) = 6 /\ mk[6] = 126
      /\ \A i \in 1 .. 5 : mk[i] # 126
      /\ \A i \in 1 .. 6 : mk[i] \in Nat
    <2>1. mk \in Bytes /\ Len(mk) = 6 /\ mk[6] = 126 /\ \A i \in 1 .. 5 : mk[i] # 126
        BY MarkersAre
    <2>2. mk \in Seq(Nat)
        BY <2>1 DEF Bytes
    <2>3. \A i \in 1 .. 6 : mk[i] \in Nat
        <3>1. \A i \in 1 .. Len(mk) : mk[i] \in Nat
            BY <2>2, ElementOfSeq
        <3> QED
            BY <2>1, <3>1
    <2> QED
        BY <2>1, <2>2, <2>3
<1>2. acc \in Seq(Nat) /\ n \in Nat
    BY DEF Bytes
<1>3. Follows(f, acc, UnmarkStep, mk)
    BY <1>1, FollowingIs
<1>4. Unmarking(acc, mk) = f[6]
    BY <1>1 DEF Unmarking, Folding
<1> HIDE DEF f
<1> DEFINE Upto(k) == f[k] \in Bytes /\ Len(f[k]) = n + k
                      /\ (\A i \in 1 .. n : f[k][i] = acc[i]) /\ (\A i \in 1 .. k : f[k][n + i] = mk[i])
<1>5. Upto(0)
    <2>1. f[0] = acc
        BY <1>3 DEF Follows
    <2>2. acc \in Bytes /\ Len(acc) = n + 0 /\ (\A i \in 1 .. n : acc[i] = acc[i]) /\ (\A i \in 1 .. 0 : acc[n + i] = mk[i])
        BY <1>2
    <2>3. f[0] \in Bytes /\ Len(f[0]) = n + 0
        BY <2>1, <2>2, Zenon
    <2>4. (\A i \in 1 .. n : f[0][i] = acc[i]) /\ (\A i \in 1 .. 0 : f[0][n + i] = mk[i])
        BY <2>1, <2>2, Zenon
    <2> QED
        BY <2>3, <2>4
<1>6. ASSUME NEW k \in 1 .. 5, Upto(k - 1)
      PROVE  Upto(k)
    <2> DEFINE a == f[k - 1]
               b == f[k]
               c == mk[k]
    <2>1. a \in Bytes /\ Len(a) = n + (k - 1)
          /\ (\A i \in 1 .. n : a[i] = acc[i]) /\ (\A i \in 1 .. k - 1 : a[n + i] = mk[i])
        BY <1>6
    <2>2. c \in Nat /\ c # 126
        BY <1>1
    <2>3. b = UnmarkStep[<<a, c>>]
        <3>1. k \in 1 .. Len(mk)
            BY <1>1
        <3> QED
            BY <1>3, <3>1, Zenon DEF Follows
    <2> HIDE DEF a, b
    <2>4. b = Append(a, c)
        <3> HIDE DEF c
        <3> QED
            BY <2>1, <2>2, <2>3, UnmarkKeeps
    <2>5. b \in Bytes /\ Len(b) = n + k
        BY <1>2, <2>1, <2>2, <2>4 DEF Bytes
    <2>6. \A i \in 1 .. n : b[i] = acc[i]
        BY <1>2, <2>1, <2>2, <2>4 DEF Bytes
    <2>7. \A i \in 1 .. k : b[n + i] = mk[i]
        <3> TAKE i \in 1 .. k
        <3>1. CASE i = k
            BY <1>2, <2>1, <2>2, <2>4, <3>1 DEF Bytes
        <3>2. CASE i # k
            <4>1. i \in 1 .. k - 1 /\ n + i \in 1 .. Len(a)
                BY <1>2, <2>1, <3>2
            <4>2. b[n + i] = a[n + i]
                BY <2>1, <2>2, <2>4, <4>1 DEF Bytes
            <4> QED
                BY <2>1, <4>1, <4>2
        <3> QED
            BY <3>1, <3>2
    <2> QED
        BY <2>5, <2>6, <2>7 DEF b
<1> HIDE DEF Upto
<1>7. Upto(5)
    <2>1. Upto(1)
        BY <1>5, <1>6
    <2>2. Upto(2)
        BY <2>1, <1>6
    <2>3. Upto(3)
        BY <2>2, <1>6
    <2>4. Upto(4)
        BY <2>3, <1>6
    <2> QED
        BY <2>4, <1>6
<1> DEFINE a == f[5]
           next == Append(a, 126)
<1>8. a \in Bytes /\ Len(a) = n + 5
      /\ (\A i \in 1 .. n : a[i] = acc[i]) /\ (\A i \in 1 .. 5 : a[n + i] = mk[i])
    BY <1>7 DEF Upto
<1>9. f[6] = UnmarkStep[<<a, 126>>]
    <2>1. 6 \in 1 .. Len(mk) /\ 6 - 1 = 5
        BY <1>1
    <2>2. f[6] = UnmarkStep[<<f[6 - 1], mk[6]>>]
        BY <1>3, <2>1, Zenon DEF Follows
    <2> QED
        BY <1>1, <2>1, <2>2
<1> HIDE DEF a
<1>10. next \in Seq(Nat) /\ Len(next) = n + 6 /\ (\A i \in 1 .. n + 5 : next[i] = a[i]) /\ next[n + 6] = 126
    <2>1. a \in Seq(Nat) /\ Len(a) = n + 5 /\ n \in Nat
        BY <1>2, <1>8 DEF Bytes
    <2>2. /\ next \in Seq(Nat) /\ Len(next) = Len(a) + 1 /\ next[Len(a) + 1] = 126
          /\ \A i \in 1 .. Len(a) : next[i] = a[i]
        BY <2>1
    <2> HIDE DEF next
    <2>3. Len(a) + 1 = n + 6
        BY <2>1
    <2> QED
        BY <2>1, <2>2, <2>3
<1>11. f[6] = IF Len(next) >= 6 /\ SubSeq(next, Len(next) - 5, Len(next)) \in Markers
              THEN SubSeq(next, 1, Len(next) - 6) ELSE next
    <2>1. \A x \in Bytes, y \in Nat : UnmarkStep[<<x, y>>] =
              LET next0 == Append(x, y) IN
              IF Len(next0) >= 6 /\ SubSeq(next0, Len(next0) - 5, Len(next0)) \in Markers
              THEN SubSeq(next0, 1, Len(next0) - 6) ELSE next0
        BY UnmarkStepType, Zenon
    <2> DEFINE c == 126
    <2>2. c \in Nat
        OBVIOUS
    <2>3. f[6] = UnmarkStep[<<a, c>>] /\ next = Append(a, c)
        BY <1>9
    <2> HIDE DEF c, next
    <2>4. UnmarkStep[<<a, c>>] =
              LET next0 == Append(a, c) IN
              IF Len(next0) >= 6 /\ SubSeq(next0, Len(next0) - 5, Len(next0)) \in Markers
              THEN SubSeq(next0, 1, Len(next0) - 6) ELSE next0
        BY <1>8, <2>1, <2>2, Zenon
    <2> QED
        BY <2>3, <2>4, Zenon
<1> HIDE DEF next
<1>12. SubSeq(next, Len(next) - 5, Len(next)) = mk
    <2> DEFINE r == SubSeq(next, Len(next) - 5, Len(next))
    <2>1. r \in Seq(Nat) /\ Len(r) = 6 /\ \A i \in 1 .. 6 : r[i] = next[n + i]
        BY <1>2, <1>10
    <2> HIDE DEF r
    <2>2. \A i \in 1 .. 6 : next[n + i] = mk[i]
        <3> TAKE i \in 1 .. 6
        <3>1. CASE i = 6
            BY <1>1, <1>10, <3>1
        <3>2. CASE i # 6
            <4>1. i \in 1 .. 5 /\ n + i \in 1 .. n + 5
                BY <1>2, <3>2
            <4> QED
                BY <1>8, <1>10, <4>1, ZenonT(40)
        <3> QED
            BY <3>1, <3>2
    <2>3. Len(r) = Len(mk) /\ \A i \in 1 .. Len(r) : r[i] = mk[i]
        BY <1>1, <2>1, <2>2, SMTT(40)
    <2>4. mk \in Seq(Nat)
        BY <1>1
    <2>5. r = mk
        BY <2>1, <2>3, <2>4, SeqEqual
    <2> QED
        BY <2>5 DEF r
<1>13. SubSeq(next, 1, Len(next) - 6) = acc
    <2> DEFINE r == SubSeq(next, 1, Len(next) - 6)
    <2>1. r \in Seq(Nat) /\ Len(r) = n /\ \A i \in 1 .. n : r[i] = next[i]
        BY <1>2, <1>10
    <2> HIDE DEF r
    <2>2. \A i \in 1 .. n : i \in 1 .. n + 5
        BY <1>2
    <2>3. Len(r) = Len(acc) /\ \A i \in 1 .. Len(r) : r[i] = acc[i]
        BY <1>8, <1>10, <2>1, <2>2
    <2>4. acc \in Seq(Nat)
        BY <1>2
    <2>5. r = acc
        BY <2>1, <2>3, <2>4, SeqEqual
    <2> QED
        BY <2>5 DEF r
<1>14. Len(next) >= 6
    BY <1>2, <1>10
<1> QED
    BY <1>4, <1>11, <1>12, <1>13, <1>14, Zenon

-----------------------------------------------------------------------------
(* Taking them out one marker at a time. *)

UnmarkingGoes ==
    /\ \A acc : Unmarking(acc, <<>>) = acc
    /\ \A acc \in Bytes, u \in Bytes : Unmarking(acc, u) \in Bytes
    /\ \A acc \in Bytes, u \in Bytes, v \in Bytes : Unmarking(acc, u \o v) = Unmarking(Unmarking(acc, u), v)
    /\ \A acc \in Bytes, mk \in Markers, v \in Bytes : Unmarking(acc, mk \o v) = Unmarking(acc, v)

(* Unmarking one byte more. *)
LEMMA UnmarkingIs == UnmarkingGoes
<1>1. \A acc : Unmarking(acc, <<>>) = acc
    BY FoldingNone DEF Unmarking
<1>2. ASSUME NEW acc \in Bytes, NEW u \in Bytes
      PROVE  Unmarking(acc, u) \in Bytes
    <2>1. u \in Seq(Nat) /\ Len(u) \in 0 .. Len(u)
        BY DEF Bytes
    <2>2. PICK g : g \in [0 .. Len(u) -> Bytes] /\ Follows(g, acc, UnmarkStep, u)
        BY <2>1, UnmarkStepType, FollowingType
    <2>3. Keeps(g, Bytes, acc, UnmarkStep, u) /\ acc \in Bytes /\ UnmarkStep \in [Bytes \X Nat -> Bytes]
        BY <2>2, UnmarkStepType DEF Follows, Keeps
    <2>4. ComesTo(g, u, Folding(acc, UnmarkStep, u))
        BY <2>1, <2>3, FoldingIs
    <2> QED
        BY <2>1, <2>2, <2>4 DEF ComesTo, Unmarking
<1>3. ASSUME NEW acc \in Bytes, NEW u \in Bytes, NEW v \in Bytes
      PROVE  Unmarking(acc, u \o v) = Unmarking(Unmarking(acc, u), v)
    <2>1. u \in Seq(Nat) /\ v \in Seq(Nat)
        BY DEF Bytes
    <2> QED
        BY <2>1, FoldingJoin DEF Unmarking
<1>4. ASSUME NEW acc \in Bytes, NEW mk \in Markers, NEW v \in Bytes
      PROVE  Unmarking(acc, mk \o v) = Unmarking(acc, v)
    <2>1. mk \in Bytes
        BY MarkersAre
    <2>2. Unmarking(acc, mk \o v) = Unmarking(Unmarking(acc, mk), v)
        BY <1>3, <2>1
    <2>3. Unmarking(acc, mk) = acc
        BY MarkerGoes
    <2> QED
        BY <2>2, <2>3, Zenon
<1> QED
    BY <1>1, <1>2, <1>3, <1>4, Zenon DEF UnmarkingGoes

(* There is no such thing in a text. *)
FreeOf(what, t) == \A k \in 0 .. Len(t) : ~IsPrefix(what, Onward(t, k))

(* The rest of the rest. *)
LEMMA OnwardOnward ==
    ASSUME NEW E, NEW t \in Seq(E), t # <<>>, NEW k \in 0 .. Len(t) - 1
    PROVE  Onward(Onward(t, 1), k) = Onward(t, k + 1)
<1> DEFINE v == Onward(t, 1)
           a == Onward(v, k)
           b == Onward(t, k + 1)
<1>1. Len(t) \in Nat \ {0} /\ 1 \in 0 .. Len(t) /\ k + 1 \in 0 .. Len(t) /\ k \in Nat
    OBVIOUS
<1>2. v \in Seq(E) /\ Len(v) = Len(t) - 1 /\ EndsIn(t, 1, v)
    BY <1>1, OnwardProperties
<1>3. k \in 0 .. Len(v)
    BY <1>1, <1>2
<1> HIDE DEF v
<1>4. a \in Seq(E) /\ Len(a) = Len(v) - k /\ EndsIn(v, k, a)
    BY <1>2, <1>3, OnwardProperties
<1>5. b \in Seq(E) /\ Len(b) = Len(t) - (k + 1) /\ EndsIn(t, k + 1, b)
    BY <1>1, OnwardProperties
<1> HIDE DEF a, b
<1>6. Len(a) = Len(b)
    BY <1>1, <1>2, <1>4, <1>5
<1>7. \A i \in 1 .. Len(a) : a[i] = b[i]
    <2> TAKE i \in 1 .. Len(a)
    <2>1. a[i] = v[k + i] /\ k + i \in 1 .. Len(v)
        BY <1>1, <1>2, <1>4 DEF EndsIn
    <2>2. v[k + i] = t[1 + (k + i)]
        BY <1>2, <2>1 DEF EndsIn
    <2>3. b[i] = t[(k + 1) + i]
        BY <1>5, <1>6 DEF EndsIn
    <2>4. 1 + (k + i) = (k + 1) + i
        BY <1>1
    <2> QED
        BY <2>1, <2>2, <2>3, <2>4
<1> QED
    BY <1>4, <1>5, <1>6, <1>7, SeqEqual DEF a, b, v

(* What is free of a marker and does not begin with one is free of it. *)
LEMMA FreeNext ==
    ASSUME NEW what, NEW E, NEW t \in Seq(E), t # <<>>, ~IsPrefix(what, t), FreeOf(what, Onward(t, 1))
    PROVE  FreeOf(what, t)
<1> DEFINE v == Onward(t, 1)
<1>1. Len(t) \in Nat \ {0} /\ v \in Seq(E) /\ Len(v) = Len(t) - 1
    <2>1. Unfolds(E, t)
        BY FirstAndRest
    <2>2. v \in Seq(E) /\ Len(v) = Len(t) - 1
        BY <2>1, Zenon DEF Unfolds
    <2>3. Len(t) \in Nat \ {0}
        OBVIOUS
    <2> QED
        BY <2>2, <2>3
<1> SUFFICES ASSUME NEW k \in 0 .. Len(t)
             PROVE  ~IsPrefix(what, Onward(t, k))
    BY DEF FreeOf
<1>2. CASE k = 0
    <2>1. Onward(t, 0) = t
        BY <1>1, SubSeqFull DEF Onward
    <2> QED
        BY <1>2, <2>1
<1>3. CASE k # 0
    <2> DEFINE j == k - 1
    <2>1. j \in 0 .. Len(t) - 1 /\ j + 1 = k /\ j \in 0 .. Len(v)
        BY <1>1, <1>3
    <2> HIDE DEF j
    <2>2. Onward(v, j) = Onward(t, j + 1)
        BY <2>1, OnwardOnward
    <2>3. ~IsPrefix(what, Onward(v, j))
        BY <2>1, Zenon DEF FreeOf
    <2> QED
        BY <2>1, <2>2, <2>3
<1> QED
    BY <1>2, <1>3

(* A marker is taken out of a text. *)
Without(mk, t) == Replaced(t, mk, <<>>)

Taking(mk, t) ==
    /\ Without(mk, t) \in Bytes
    /\ \A acc \in Bytes : Unmarking(acc, Without(mk, t)) = Unmarking(acc, t)
    /\ \/ Without(mk, t) = t /\ FreeOf(mk, t)
       \/ Len(Without(mk, t)) + 6 <= Len(t)

(* What is left of nothing, of a marker and of anything else. *)
LEMMA WithoutNext ==
    ASSUME NEW mk \in Markers
    PROVE  /\ Without(mk, <<>>) = <<>>
           /\ \A v \in Bytes : Without(mk, mk \o v) = Without(mk, v)
           /\ \A t \in Bytes : t # <<>> /\ ~IsPrefix(mk, t) => Without(mk, t) = <<t[1]>> \o Without(mk, Onward(t, 1))
           /\ \A t \in Bytes : Without(mk, t) \in Bytes
<1> DEFINE none == <<>>
<1>1. mk \in Seq(Nat) /\ mk # <<>> /\ none \in Seq(Nat)
    <2>1. mk \in Bytes /\ Len(mk) = 6
        BY MarkersAre
    <2>2. \A s : Len(s) = 6 => s # <<>>
        OBVIOUS
    <2>3. mk # <<>>
        BY <2>1, <2>2, Zenon
    <2> QED
        BY <2>1, <2>3 DEF Bytes
<1>2. ReplacesIn(Nat, mk, none)
    <2> HIDE DEF none
    <2> QED
        BY <1>1, ReplacedNext
<1>3. \A s \in Seq(Nat) : none \o s = s
    OBVIOUS
<1>4. \A v \in Bytes : Without(mk, v) \in Bytes
    BY <1>2, Zenon DEF ReplacesIn, Without, Bytes
<1>5. \A v \in Bytes : Without(mk, mk \o v) = <<>> \o Without(mk, v)
    BY <1>2, Zenon DEF ReplacesIn, Without, Bytes
<1>6. \A v \in Bytes : Without(mk, mk \o v) = Without(mk, v)
    BY <1>3, <1>4, <1>5, Zenon DEF Bytes
<1>7. Without(mk, <<>>) = <<>>
    BY <1>2, Zenon DEF ReplacesIn, Without
<1>8. \A t \in Bytes : t # <<>> /\ ~IsPrefix(mk, t) => Without(mk, t) = <<t[1]>> \o Without(mk, Onward(t, 1))
    BY <1>2, Zenon DEF ReplacesIn, Without, Bytes
<1> QED
    BY <1>4, <1>6, <1>7, <1>8
(* Taking markers out of nothing. *)
LEMMA TakingNone ==
    ASSUME NEW mk \in Markers
    PROVE  Taking(mk, <<>>)
<1> DEFINE none == <<>>
<1>1. Without(mk, none) = none
    BY WithoutNext
<1>2. none \in Bytes /\ Len(none) = 0 /\ none \in Seq(Nat)
    BY DEF Bytes
<1> HIDE DEF none
<1>3. FreeOf(mk, none)
    <2>1. ASSUME NEW k \in 0 .. Len(none), IsPrefix(mk, Onward(none, k))
          PROVE  FALSE
        <3>1. Len(mk) = 6
            BY MarkersAre
        <3>2. Len(Onward(none, k)) = Len(none) - k
            BY <1>2, OnwardProperties
        <3>3. Len(mk) <= Len(Onward(none, k))
            BY <2>1 DEF IsPrefix
        <3> QED
            BY <1>2, <3>1, <3>2, <3>3
    <2> QED
        BY <2>1 DEF FreeOf
<1> QED
    BY <1>1, <1>2, <1>3, Zenon DEF Taking, none

(* A marker at the beginning. *)
LEMMA TakingMarker ==
    ASSUME NEW mk \in Markers, NEW v \in Bytes, Taking(mk, v)
    PROVE  Taking(mk, mk \o v)
<1> DEFINE t == mk \o v
           a == Without(mk, v)
<1>1. Without(mk, t) = a
    BY WithoutNext
<1>2. Len(t) = 6 + Len(v) /\ Len(v) \in Nat
    <2>1. mk \in Bytes /\ Len(mk) = 6
        BY MarkersAre
    <2>2. mk \in Seq(Nat) /\ v \in Seq(Nat)
        BY <2>1 DEF Bytes
    <2>3. Len(t) = Len(mk) + Len(v)
        BY <2>2, Begins
    <2> QED
        BY <2>1, <2>2, <2>3
<1>3. \A acc \in Bytes : Unmarking(acc, t) = Unmarking(acc, v)
    BY UnmarkingIs DEF UnmarkingGoes
<1>4. a \in Bytes /\ \A acc \in Bytes : Unmarking(acc, a) = Unmarking(acc, v)
    BY Zenon DEF Taking
<1>5. a = v \/ Len(a) + 6 <= Len(v)
    BY Zenon DEF Taking
<1> HIDE DEF t, a
<1>6. Len(a) + 6 <= Len(t)
    <2>1. Len(a) \in Nat
        BY <1>4 DEF Bytes
    <2> QED
        BY <1>2, <1>5, <2>1
<1>7. Without(mk, t) \in Bytes /\ \A acc \in Bytes : Unmarking(acc, Without(mk, t)) = Unmarking(acc, t)
    BY <1>1, <1>3, <1>4, Zenon
<1> QED
    BY <1>1, <1>6, <1>7, Zenon DEF Taking, t

(* Another character there. *)
LEMMA TakingOther ==
    ASSUME NEW mk \in Markers, NEW t \in Bytes, t # <<>>, ~IsPrefix(mk, t), Taking(mk, Onward(t, 1))
    PROVE  Taking(mk, t)
<1> DEFINE v == Onward(t, 1)
           a == Without(mk, v)
           c == <<t[1]>>
           b == Without(mk, t)
<1>1. b = c \o a
    BY WithoutNext
<1>2. t \in Seq(Nat) /\ Unfolds(Nat, t)
    <2>1. t \in Seq(Nat)
        BY DEF Bytes
    <2> QED
        BY <2>1, FirstAndRest
<1>3. t[1] \in Nat /\ v \in Bytes /\ Len(v) = Len(t) - 1 /\ t = c \o v
    BY <1>2, Zenon DEF Unfolds, Bytes
<1>4. c \in Bytes /\ Len(c) = 1
    BY <1>3 DEF Bytes
<1>5. /\ a \in Bytes
      /\ \A acc \in Bytes : Unmarking(acc, a) = Unmarking(acc, v)
      /\ (a = v /\ FreeOf(mk, v)) \/ Len(a) + 6 <= Len(v)
    BY Zenon DEF Taking
<1>6. /\ \A acc \in Bytes, u \in Bytes : Unmarking(acc, u) \in Bytes
      /\ \A acc \in Bytes, x \in Bytes, y \in Bytes : Unmarking(acc, x \o y) = Unmarking(Unmarking(acc, x), y)
    BY UnmarkingIs, Zenon DEF UnmarkingGoes
<1>7. a = v /\ FreeOf(mk, v) => b = t /\ FreeOf(mk, t)
    <2>1. FreeOf(mk, v) => FreeOf(mk, t)
        BY <1>2, FreeNext
    <2> QED
        BY <1>1, <1>3, <2>1, Zenon
<1> HIDE DEF a, c, b, v
<1>8. b \in Bytes /\ Len(b) = Len(a) + 1
    <2>1. c \in Seq(Nat) /\ a \in Seq(Nat)
        BY <1>4, <1>5 DEF Bytes
    <2>2. c \o a \in Seq(Nat) /\ Len(c \o a) = Len(c) + Len(a)
        BY <2>1, Begins
    <2> QED
        BY <1>1, <1>4, <2>1, <2>2 DEF Bytes
<1>9. ASSUME NEW acc \in Bytes
      PROVE  Unmarking(acc, b) = Unmarking(acc, t)
    <2> DEFINE d == Unmarking(acc, c)
    <2>1. d \in Bytes /\ Unmarking(acc, c \o a) = Unmarking(d, a) /\ Unmarking(acc, c \o v) = Unmarking(d, v)
        BY <1>3, <1>4, <1>5, <1>6
    <2>2. Unmarking(d, a) = Unmarking(d, v)
        BY <1>5, <2>1
    <2> HIDE DEF d
    <2> QED
        BY <1>1, <1>3, <2>1, <2>2, Zenon
<1>10. Len(a) + 6 <= Len(v) => Len(b) + 6 <= Len(t)
    <2>1. Len(a) \in Nat /\ Len(t) \in Nat
        BY <1>2, <1>5 DEF Bytes
    <2> QED
        BY <1>3, <1>8, <2>1
<1>11. (b = t /\ FreeOf(mk, t)) \/ Len(b) + 6 <= Len(t)
    BY <1>5, <1>7, <1>10, Zenon
<1> QED
    BY <1>8, <1>9, <1>11, Zenon DEF Taking, b

(* Taking out the occurrences of a marker first changes nothing that unmarking gives. *)
LEMMA AllTaking ==
    ASSUME NEW mk \in Markers, NEW t \in Bytes
    PROVE  Taking(mk, t)
<1> DEFINE N == Len(t)
           S == {n \in 0 .. N : \A p \in Bytes : Len(p) <= n => Taking(mk, p)}
<1>1. N \in Nat /\ \A p \in Bytes : Len(p) \in Nat
    BY DEF Bytes
<1>2. \A p \in Bytes : Len(p) = 0 => Taking(mk, p)
    <2>1. \A p \in Bytes : Len(p) = 0 => p = <<>>
        BY DEF Bytes
    <2> QED
        BY <2>1, TakingNone
<1>3. 0 \in S
    <2>1. \A p \in Bytes : Len(p) <= 0 => Len(p) = 0
        BY <1>1
    <2> QED
        BY <1>1, <1>2, <2>1
<1>4. ASSUME NEW n \in 1 .. N, n - 1 \in S PROVE n \in S
    <2>1. \A p \in Bytes : Len(p) <= n - 1 => Taking(mk, p)
        BY <1>4
    <2>2. ASSUME NEW p \in Bytes, Len(p) = n
          PROVE  Taking(mk, p)
        <3>1. p \in Seq(Nat) /\ p # <<>> /\ mk \in Seq(Nat) /\ Len(mk) = 6
            <4>1. mk \in Bytes /\ Len(mk) = 6
                BY MarkersAre
            <4>2. p # <<>>
                BY <1>1, <2>2
            <4> QED
                BY <4>1, <4>2 DEF Bytes
        <3>2. CASE IsPrefix(mk, p)
            <4> DEFINE v == Onward(p, 6)
            <4>1. Breaks(Nat, mk, p)
                BY <3>1, <3>2, PrefixAndRest
            <4>2. v \in Bytes /\ Len(v) = Len(p) - 6 /\ p = mk \o v
                BY <3>1, <4>1, Zenon DEF Breaks, Bytes
            <4> HIDE DEF v
            <4>3. Taking(mk, v)
                BY <1>1, <2>1, <2>2, <4>2
            <4>4. Taking(mk, mk \o v)
                BY <4>2, <4>3, TakingMarker
            <4> QED
                BY <4>2, <4>4, Zenon
        <3>3. CASE ~IsPrefix(mk, p)
            <4>1. Unfolds(Nat, p)
                BY <3>1, FirstAndRest
            <4>2. Onward(p, 1) \in Bytes /\ Len(Onward(p, 1)) = Len(p) - 1
                BY <4>1, Zenon DEF Unfolds, Bytes
            <4>3. Taking(mk, Onward(p, 1))
                BY <1>1, <2>1, <2>2, <4>2
            <4> QED
                BY <3>1, <3>3, <4>3, TakingOther
        <3> QED
            BY <3>2, <3>3
    <2>3. \A p \in Bytes : Len(p) <= n => Len(p) <= n - 1 \/ Len(p) = n
        BY <1>1
    <2>4. \A p \in Bytes : Len(p) <= n => Taking(mk, p)
        BY <2>1, <2>2, <2>3, Zenon
    <2>5. n \in 0 .. N
        BY <1>1
    <2> QED
        BY <2>4, <2>5
<1> HIDE DEF S
<1>5. \A n \in 0 .. N : n \in S
    BY <1>1, <1>3, <1>4, UpTo
<1>6. N \in S /\ Len(t) <= N
    BY <1>1, <1>5
<1> QED
    BY <1>6 DEF S

-----------------------------------------------------------------------------
(* Taking them out again and again. *)

(* What is in the middle of a text is the beginning of the rest from there. *)
LEMMA MiddleBegins ==
    ASSUME NEW E, NEW t \in Seq(E), NEW what \in Seq(E), NEW k \in 0 .. Len(t), k + Len(what) <= Len(t),
           \A i \in 1 .. Len(what) : t[k + i] = what[i]
    PROVE  IsPrefix(what, Onward(t, k))
<1> DEFINE v == Onward(t, k)
           n == Len(what)
           a == SubSeq(what, 1, n)
           b == SubSeq(v, 1, n)
<1>1. Len(t) \in Nat /\ n \in Nat /\ k \in Nat
    OBVIOUS
<1>2. v \in Seq(E) /\ Len(v) = Len(t) - k /\ EndsIn(t, k, v)
    BY OnwardProperties
<1>3. \A i \in 1 .. Len(v) : v[i] = t[k + i]
    BY <1>2 DEF EndsIn
<1> HIDE DEF v
<1>4. n <= Len(v)
    BY <1>1, <1>2
<1>5. a \in Seq(E) /\ Len(a) = n /\ \A i \in 1 .. n : a[i] = what[i]
    BY <1>1
<1>6. b \in Seq(E) /\ Len(b) = n /\ \A i \in 1 .. n : b[i] = v[i]
    BY <1>1, <1>2, <1>4
<1> HIDE DEF a, b
<1>7. \A i \in 1 .. Len(a) : a[i] = b[i]
    <2>1. \A i \in 1 .. n : i \in 1 .. Len(v)
        BY <1>1, <1>2, <1>4
    <2> QED
        BY <1>3, <1>5, <1>6, <2>1
<1>8. a = b
    <2>1. Len(a) = Len(b)
        BY <1>5, <1>6
    <2> QED
        BY <1>5, <1>6, <1>7, <2>1, SeqEqual
<1> QED
    BY <1>4, <1>8 DEF IsPrefix, a, b, v

(* Text that is free of the markers is left as it is. *)
LEMMA FreeIsKept ==
    ASSUME NEW t \in Bytes, \A mk \in Markers : FreeOf(mk, t)
    PROVE  Unmarking(<<>>, t) = t
<1> DEFINE N == Len(t)
           Upto(n) == SubSeq(t, 1, n)
           f == [n \in 0 .. N |-> Upto(n)]
           g == Following(<<>>, UnmarkStep, t)
<1>1. t \in Seq(Nat) /\ N \in Nat
    BY DEF Bytes
<1>2. \A n \in 0 .. N : Upto(n) \in Bytes /\ Len(Upto(n)) = n /\ \A i \in 1 .. n : Upto(n)[i] = t[i]
    BY <1>1 DEF Bytes
<1>3. \A n \in 1 .. N : Append(Upto(n - 1), t[n]) = Upto(n) /\ t[n] \in Nat
    <2> TAKE n \in 1 .. N
    <2> DEFINE a == Append(Upto(n - 1), t[n])
    <2>1. n - 1 \in 0 .. N /\ n \in 0 .. N
        BY <1>1
    <2>2. t[n] \in Nat
        BY <1>1, ElementOfSeq
    <2>3. Upto(n - 1) \in Seq(Nat) /\ Len(Upto(n - 1)) = n - 1 /\ \A i \in 1 .. n - 1 : Upto(n - 1)[i] = t[i]
        BY <1>2, <2>1 DEF Bytes
    <2>4. Upto(n) \in Seq(Nat) /\ Len(Upto(n)) = n /\ \A i \in 1 .. n : Upto(n)[i] = t[i]
        BY <1>2, <2>1 DEF Bytes
    <2> HIDE DEF Upto
    <2>5. a \in Seq(Nat) /\ Len(a) = n /\ a[n] = t[n] /\ \A i \in 1 .. n - 1 : a[i] = t[i]
        BY <2>2, <2>3
    <2> HIDE DEF a
    <2>6. \A i \in 1 .. Len(a) : a[i] = Upto(n)[i]
        <3> TAKE i \in 1 .. Len(a)
        <3>1. i \in 1 .. n /\ (i = n \/ i \in 1 .. n - 1)
            BY <2>5
        <3> QED
            BY <2>4, <2>5, <3>1
    <2>7. a = Upto(n)
        <3>1. Len(a) = Len(Upto(n)) /\ a \in Seq(Nat) /\ Upto(n) \in Seq(Nat)
            BY <2>4, <2>5
        <3> QED
            BY <2>6, <3>1, SeqEqual
    <2> QED
        BY <2>2, <2>7 DEF a
<1>4. ASSUME NEW n \in 6 .. N
      PROVE  SubSeq(Upto(n), n - 5, n) \notin Markers
    <2> SUFFICES ASSUME NEW mk \in Markers, SubSeq(Upto(n), n - 5, n) = mk
                 PROVE  FALSE
        BY Zenon
    <2> DEFINE k == n - 6
    <2>1. mk \in Seq(Nat) /\ Len(mk) = 6
        <3>1. mk \in Bytes /\ Len(mk) = 6
            BY MarkersAre
        <3> QED
            BY <3>1 DEF Bytes
    <2>2. k \in 0 .. N /\ k + 6 = n /\ k + 6 <= N /\ n \in 0 .. N /\ \A i \in 1 .. 6 : k + i \in 1 .. n
        BY <1>1
    <2>3. Upto(n) \in Seq(Nat) /\ Len(Upto(n)) = n /\ \A i \in 1 .. n : Upto(n)[i] = t[i]
        BY <1>2, <2>2 DEF Bytes
    <2> HIDE DEF Upto
    <2>4. \A i \in 1 .. 6 : SubSeq(Upto(n), n - 5, n)[i] = Upto(n)[k + i]
        <3> DEFINE u == Upto(n)
        <3>1. n \in Nat /\ n >= 6 /\ u \in Seq(Nat) /\ Len(u) = n
            BY <1>1, <2>3
        <3> HIDE DEF u
        <3>2. \A i \in 1 .. 6 : SubSeq(u, n - 5, n)[i] = u[(n - 5) + i - 1]
            BY <3>1
        <3>3. \A i \in 1 .. 6 : (n - 5) + i - 1 = k + i
            BY <3>1
        <3> QED
            BY <3>2, <3>3 DEF u
    <2> HIDE DEF k
    <2>5. \A i \in 1 .. Len(mk) : t[k + i] = mk[i]
        BY <2>1, <2>2, <2>3, <2>4
    <2>6. k + Len(mk) <= Len(t)
        BY <2>1, <2>2
    <2>7. IsPrefix(mk, Onward(t, k))
        BY <1>1, <2>1, <2>2, <2>5, <2>6, MiddleBegins
    <2> QED
        BY <2>2, <2>7 DEF FreeOf
<1>5. Follows(f, <<>>, UnmarkStep, t)
    <2>1. \A n \in 0 .. N : f[n] = Upto(n)
        OBVIOUS
    <2> HIDE DEF f, Upto
    <2>2. f[0] = <<>>
        <3>1. 0 \in 0 .. N
            BY <1>1
        <3>2. Upto(0) \in Seq(Nat) /\ Len(Upto(0)) = 0
            BY <1>2, <3>1 DEF Bytes
        <3>3. Upto(0) = <<>>
            BY <3>2
        <3> QED
            BY <2>1, <3>1, <3>3
    <2>3. ASSUME NEW n \in 1 .. Len(t)
          PROVE  f[n] = UnmarkStep[<<f[n - 1], t[n]>>]
        <3> DEFINE a == Upto(n - 1)
                   c == t[n]
                   b == Upto(n)
        <3>1. n \in 0 .. N /\ n - 1 \in 0 .. N /\ n \in 1 .. N
            BY <1>1
        <3>2. f[n] = b /\ f[n - 1] = a /\ a \in Bytes /\ c \in Nat /\ Append(a, c) = b /\ Len(b) = n
            BY <1>2, <1>3, <2>1, <3>1
        <3>3. n >= 6 => SubSeq(b, n - 5, n) \notin Markers
            <4>1. n >= 6 => n \in 6 .. N
                BY <3>1
            <4> QED
                BY <1>4, <4>1
        <3> HIDE DEF a, b, c
        <3>4. UnmarkStep[<<a, c>>] =
                 LET next == Append(a, c) IN
                 IF Len(next) >= 6 /\ SubSeq(next, Len(next) - 5, Len(next)) \in Markers
                 THEN SubSeq(next, 1, Len(next) - 6) ELSE next
            BY <3>2, UnmarkStepType, Zenon
        <3>5. UnmarkStep[<<a, c>>] = b
            BY <3>2, <3>3, <3>4, Zenon
        <3> QED
            BY <3>2, <3>5 DEF c
    <2> QED
        BY <2>2, <2>3 DEF Follows
<1>6. Follows(g, <<>>, UnmarkStep, t)
    BY <1>1, FollowingIs
<1>7. f[N] = t
    BY <1>1, SubSeqFull
<1> HIDE DEF f, g
<1>8. BeginAlike(t, t, N) /\ N <= Len(t)
    BY <1>1 DEF BeginAlike
<1>9. f[N] = g[N]
    <2> HIDE DEF N
    <2> QED
        BY <1>1, <1>5, <1>6, <1>8, FollowsOnce
<1> QED
    BY <1>7, <1>9 DEF Unmarking, Folding, g
(* Both are taken out, once. *)
Once(t) == Without(Closes, Without(Starts, t))

(* One round of taking out the markers leaves what unmarking gives, and ends or shortens the text. *)
LEMMA OnceIs ==
    ASSUME NEW t \in Bytes
    PROVE  /\ Once(t) \in Bytes
           /\ Unmarking(<<>>, Once(t)) = Unmarking(<<>>, t)
           /\ (Once(t) = t /\ \A mk \in Markers : FreeOf(mk, t)) \/ Len(Once(t)) + 6 <= Len(t)
<1> DEFINE a == Without(Starts, t)
           b == Without(Closes, a)
           none == <<>>
<1>1. Starts \in Markers /\ Closes \in Markers /\ none \in Bytes
    BY MarkersAre DEF Bytes
<1>2. Taking(Starts, t)
    BY <1>1, AllTaking
<1>3. a \in Bytes
    BY <1>2, Zenon DEF Taking
<1> HIDE DEF none
<1>4. Unmarking(none, a) = Unmarking(none, t)
    BY <1>1, <1>2, Zenon DEF Taking
<1>5. (a = t /\ FreeOf(Starts, t)) \/ Len(a) + 6 <= Len(t)
    BY <1>2, Zenon DEF Taking
<1> HIDE DEF a
<1>6. Taking(Closes, a)
    BY <1>1, <1>3, AllTaking
<1>7. b \in Bytes
    BY <1>6, Zenon DEF Taking
<1>8. Unmarking(none, b) = Unmarking(none, a)
    BY <1>1, <1>6, Zenon DEF Taking
<1>9. (b = a /\ FreeOf(Closes, a)) \/ Len(b) + 6 <= Len(a)
    BY <1>6, Zenon DEF Taking
<1> HIDE DEF b
<1>10. Len(a) \in Nat /\ Len(b) \in Nat /\ Len(t) \in Nat
    BY <1>3, <1>7 DEF Bytes
<1>11. ASSUME a = t, FreeOf(Starts, t), b = a, FreeOf(Closes, a)
       PROVE  b = t /\ \A mk \in Markers : FreeOf(mk, t)
    BY <1>11, MarkersAre
<1>12. Len(a) <= Len(t) /\ Len(b) <= Len(a)
    BY <1>5, <1>9, <1>10
<1>13. (a = t /\ FreeOf(Starts, t) /\ b = a /\ FreeOf(Closes, a)) \/ Len(b) + 6 <= Len(t)
    BY <1>5, <1>9, <1>10, <1>12
<1>14. (b = t /\ \A mk \in Markers : FreeOf(mk, t)) \/ Len(b) + 6 <= Len(t)
    BY <1>11, <1>13, Zenon
<1> QED
    BY <1>4, <1>7, <1>8, <1>14, Zenon DEF Once, a, b, none

OnceStep == [p \in Bytes \X Nat |-> Once(p[1])]

(* Both markers taken out until none is left (strip_paste_markers) leave what one
   pass leaves that drops a marker as soon as its last byte has come, and there is
   no marker in it, however markers nest in the text. *)
THEOREM StripIsUnmarked ==
    ASSUME NEW t \in Bytes
    PROVE  StripPasteMarkers(t) = Unmarked(t) /\ StripPasteMarkers(t) \in Bytes
           /\ \A mk \in Markers : FreeOf(mk, StripPasteMarkers(t))
<1> DEFINE N == Len(t)
           Is(f) == f = [n \in 0 .. N |-> IF n = 0 THEN t ELSE Once(f[n - 1])]
           c == CHOOSE f : Is(f)
           K == N \div 6
<1>1. t \in Seq(Nat) /\ N \in Nat /\ K \in 0 .. N /\ 6 * K <= N /\ N < 6 * K + 6
    BY DEF Bytes
<1>2. \A p \in Bytes : Once(p) \in Bytes
    BY OnceIs
<1>3. OnceStep \in [Bytes \X Nat -> Bytes] /\ \A p \in Bytes, n \in Nat : OnceStep[<<p, n>>] = Once(p)
    BY <1>2 DEF OnceStep
<1>4. PICK g : g \in [0 .. N -> Bytes] /\ Follows(g, t, OnceStep, t)
    BY <1>1, <1>3, FollowingType
<1>5. Is(g)
    <2>1. \A n \in 0 .. N : g[n] = IF n = 0 THEN t ELSE Once(g[n - 1])
        <3> TAKE n \in 0 .. N
        <3>1. CASE n = 0
            BY <1>4, <3>1 DEF Follows
        <3>2. CASE n # 0
            <4>1. n \in 1 .. Len(t) /\ n - 1 \in 0 .. N
                BY <1>1, <3>2
            <4>2. g[n - 1] \in Bytes /\ t[n] \in Nat
                BY <1>1, <1>4, <4>1, ElementOfSeq
            <4>3. g[n] = OnceStep[<<g[n - 1], t[n]>>]
                BY <1>4, <4>1 DEF Follows
            <4> QED
                BY <1>3, <3>2, <4>2, <4>3, Zenon
        <3> QED
            BY <3>1, <3>2
    <2>2. g = [n \in 0 .. N |-> g[n]]
        BY <1>4
    <2> QED
        BY <2>1, <2>2
<1>6. Is(c)
    BY <1>5, Zenon
<1>7. StripPasteMarkers(t) = c[K]
    <2>1. PasteStart = Starts /\ PasteEnd = Closes
        BY MarkersAre
    <2>2. Len(PasteStart) = 6
        BY MarkersAre
    <2>3. StripPasteMarkers(t) = c[N \div Len(PasteStart)]
        BY <2>1, Zenon DEF StripPasteMarkers, Once, Without
    <2> HIDE DEF c
    <2> QED
        BY <2>2, <2>3
<1> HIDE DEF c
<1>8. c[0] = t /\ \A n \in 1 .. N : c[n] = Once(c[n - 1])
    <2>1. \A n \in 0 .. N : c[n] = IF n = 0 THEN t ELSE Once(c[n - 1])
        BY <1>6
    <2>2. 0 \in 0 .. N /\ \A n \in 1 .. N : n \in 0 .. N /\ n # 0
        BY <1>1
    <2> HIDE DEF N
    <2> QED
        BY <2>1, <2>2, Zenon
<1> HIDE DEF Is
<1> DEFINE none == <<>>
           Good(p, n) == /\ p \in Bytes /\ Unmarking(none, p) = Unmarking(none, t)
                         /\ Once(p) = p \/ Len(p) + 6 * n <= N
           S == {n \in 0 .. N : Good(c[n], n)}
<1>9. ASSUME NEW p \in Bytes
      PROVE  /\ Unmarking(none, Once(p)) = Unmarking(none, p)
             /\ (Once(p) = p /\ \A mk \in Markers : FreeOf(mk, p)) \/ Len(Once(p)) + 6 <= Len(p)
    BY OnceIs
<1> HIDE DEF none
<1>10. 0 \in S
    BY <1>1, <1>8
<1>11. ASSUME NEW n \in 1 .. N, n - 1 \in S PROVE n \in S
    <2> DEFINE p == c[n - 1]
               q == c[n]
    <2>1. Good(p, n - 1) /\ n \in 0 .. N
        <3>1. n \in 0 .. N
            BY <1>1
        <3>2. Good(c[n - 1], n - 1)
            <4> HIDE DEF Good
            <4> QED
                BY <1>11
        <3> QED
            BY <3>1, <3>2, Zenon
    <2>2. q = Once(p)
        BY <1>8
    <2> HIDE DEF p, q
    <2>3. q \in Bytes /\ Unmarking(none, q) = Unmarking(none, t)
        BY <1>2, <1>9, <2>1, <2>2, Zenon
    <2>4. Once(p) = p => Once(q) = q
        BY <2>2
    <2>5. ASSUME Len(p) + 6 * (n - 1) <= N, Once(p) # p
          PROVE  Len(q) + 6 * n <= N
        <3>1. Len(q) + 6 <= Len(p)
            BY <1>9, <2>1, <2>2, <2>5, Zenon
        <3>2. Len(q) \in Nat /\ Len(p) \in Nat
            BY <2>1, <2>3 DEF Bytes
        <3> QED
            BY <1>1, <2>5, <3>1, <3>2
    <2>6. Once(q) = q \/ Len(q) + 6 * n <= N
        BY <2>1, <2>4, <2>5, Zenon
    <2>7. Good(q, n)
        BY <2>3, <2>6, Zenon
    <2> QED
        <3> HIDE DEF Good
        <3> QED
            BY <2>1, <2>7 DEF q
<1> HIDE DEF S
<1>12. K \in S
    <2>1. \A n \in 0 .. N : n \in S
        BY <1>1, <1>10, <1>11, UpTo
    <2> QED
        BY <1>1, <2>1
<1> DEFINE r == c[K]
<1>13. Good(r, K)
    BY <1>12 DEF S
<1> HIDE DEF r, K
<1>14. Once(r) = r /\ \A mk \in Markers : FreeOf(mk, r)
    <2>1. r \in Bytes
        BY <1>13
    <2>2. Len(r) \in Nat /\ Len(Once(r)) \in Nat /\ K \in Nat
        BY <1>1, <1>2, <2>1 DEF Bytes
    <2>3. (Once(r) = r /\ \A mk \in Markers : FreeOf(mk, r)) \/ Len(Once(r)) + 6 <= Len(r)
        BY <1>9, <2>1
    <2>4. ~(Len(Once(r)) + 6 <= Len(r))
        <3>1. Once(r) = r => ~(Len(Once(r)) + 6 <= Len(r))
            BY <2>2
        <3>2. Len(r) + 6 * K <= N => ~(Len(Once(r)) + 6 <= Len(r))
            BY <1>1, <2>2
        <3> QED
            BY <1>13, <3>1, <3>2, Zenon
    <2> QED
        BY <2>3, <2>4, Zenon
<1>15. Unmarking(none, r) = r
    <2>1. r \in Bytes
        BY <1>13
    <2> QED
        BY <1>14, <2>1, FreeIsKept DEF none
<1>16. Unmarked(t) = Unmarking(none, t)
    BY UnmarkedIs DEF none
<1> QED
    BY <1>7, <1>13, <1>14, <1>15, <1>16, Zenon DEF r

-----------------------------------------------------------------------------
(* Line breaks, in one pass. *)

(* What a character comes to after another one. *)
Break(before, c) == IF c # LF THEN <<c>> ELSE IF before = CR THEN <<>> ELSE <<CR>>

Carried == Bytes \X Nat

BreakStep == [p \in Carried \X Nat |-> <<p[1][1] \o Break(p[1][2], p[2]), p[2]>>]

(* What a line break is sent as. *)
LEMMA BreakType == \A V : CR \in V => \A before, c \in V : Break(before, c) \in Seq(V)
<1> SUFFICES ASSUME NEW V, CR \in V, NEW before \in V, NEW c \in V PROVE Break(before, c) \in Seq(V)
    OBVIOUS
<1>1. <<c>> \in Seq(V) /\ <<>> \in Seq(V) /\ <<CR>> \in Seq(V)
    OBVIOUS
<1> QED
    BY <1>1 DEF Break

(* Folding line breaks, as a step that remembers the byte before. *)
LEMMA BreakStepType ==
    /\ BreakStep \in [Carried \X Nat -> Carried]
    /\ \A o \in Bytes, before \in Nat, c \in Nat : <<o, before>> \in Carried
    /\ \A o \in Bytes, before \in Nat, c \in Nat : BreakStep[<<<<o, before>>, c>>] = <<o \o Break(before, c), c>>
    /\ \A o \in Bytes, before \in Nat, c \in Nat : o \o Break(before, c) \in Bytes
<1>1. ASSUME NEW o \in Bytes, NEW before \in Nat, NEW c \in Nat
      PROVE  o \o Break(before, c) \in Bytes
    <2>1. Break(before, c) \in Seq(Nat)
        BY BreakType DEF CR
    <2>2. o \in Seq(Nat)
        BY DEF Bytes
    <2> HIDE DEF Break
    <2> QED
        BY <2>1, <2>2 DEF Bytes
<1>2. ASSUME NEW o \in Bytes, NEW before \in Nat, NEW c \in Nat
      PROVE  BreakStep[<<<<o, before>>, c>>] = <<o \o Break(before, c), c>>
    <2> DEFINE p == <<<<o, before>>, c>>
    <2>1. p \in Carried \X Nat /\ p[1][1] = o /\ p[1][2] = before /\ p[2] = c
        BY DEF Carried
    <2> HIDE DEF p
    <2>2. BreakStep[p] = <<p[1][1] \o Break(p[1][2], p[2]), p[2]>>
        BY <2>1, Zenon DEF BreakStep
    <2>3. BreakStep[p] = <<o \o Break(before, c), c>>
        BY <2>1, <2>2, Zenon
    <2> QED
        BY <2>3, Zenon DEF p
<1>3. ASSUME NEW p \in Carried \X Nat
      PROVE  BreakStep[p] \in Carried
    <2>1. PICK o \in Bytes, before \in Nat, c \in Nat : p = <<<<o, before>>, c>>
        BY DEF Carried
    <2>2. BreakStep[p] = <<o \o Break(before, c), c>>
        BY <1>2, <2>1
    <2> DEFINE x == o \o Break(before, c)
    <2>3. x \in Bytes
        BY <1>1
    <2> HIDE DEF x
    <2>4. BreakStep[p] = <<x, c>>
        BY <2>2, Zenon DEF x
    <2> QED
        BY <2>3, <2>4 DEF Carried
<1>4. BreakStep \in [Carried \X Nat -> Carried]
    <2>1. BreakStep = [p \in Carried \X Nat |-> BreakStep[p]]
        BY DEF BreakStep
    <2> QED
        BY <1>3, <2>1
<1>5. \A o \in Bytes, before \in Nat, c \in Nat : <<o, before>> \in Carried
    BY DEF Carried
<1> QED
    BY <1>1, <1>2, <1>4, <1>5

Breaking(o, before, t) == Folding(<<o, before>>, BreakStep, t)[1]

BreakingGoes ==
    /\ \A o, before : Breaking(o, before, <<>>) = o
    /\ \A o \in Bytes, before \in Nat, c \in Nat, v \in Bytes :
          Breaking(o, before, <<c>> \o v) = Breaking(o \o Break(before, c), c, v)

(* Folding the breaks of one byte more. *)
LEMMA BreakingIs == BreakingGoes
<1>1. ASSUME NEW o, NEW before
      PROVE  Breaking(o, before, <<>>) = o
    <2> DEFINE base == <<o, before>>
    <2>1. base[1] = o
        OBVIOUS
    <2> HIDE DEF base
    <2>2. Folding(base, BreakStep, <<>>) = base
        BY FoldingNone
    <2> QED
        BY <2>1, <2>2 DEF Breaking, base
<1>2. ASSUME NEW o \in Bytes, NEW before \in Nat, NEW c \in Nat, NEW v \in Bytes
      PROVE  Breaking(o, before, <<c>> \o v) = Breaking(o \o Break(before, c), c, v)
    <2> DEFINE base == <<o, before>>
               u == <<c>>
               next == <<o \o Break(before, c), c>>
    <2>1. u \in Seq(Nat) /\ v \in Seq(Nat)
        BY DEF Bytes
    <2>2. BreakStep[<<base, c>>] = next
        BY BreakStepType, Zenon
    <2> HIDE DEF base, next
    <2>3. Folding(base, BreakStep, u) = BreakStep[<<base, c>>]
        BY FoldingOne
    <2> HIDE DEF u
    <2>4. Folding(base, BreakStep, u \o v) = Folding(Folding(base, BreakStep, u), BreakStep, v)
        BY <2>1, FoldingJoin
    <2>5. Folding(base, BreakStep, u \o v) = Folding(next, BreakStep, v)
        BY <2>2, <2>3, <2>4, Zenon
    <2> QED
        BY <2>5, Zenon DEF Breaking, base, next, u
<1> QED
    BY <1>1, <1>2, Zenon DEF BreakingGoes

(* It is what folding makes of a text. *)
Folds(t) == [i \in DOMAIN t |->
                IF t[i] # LF THEN <<t[i]>> ELSE IF i > 1 /\ t[i - 1] = CR THEN <<>> ELSE <<CR>>]

(* The parts of folded text. *)
LEMMA FoldsType ==
    ASSUME NEW V, CR \in V, NEW t \in Seq(V)
    PROVE  Folds(t) \in Seq(Seq(V)) /\ Len(Folds(t)) = Len(t) /\ Folded(t) \in Seq(V)
<1>1. Len(t) \in Nat /\ DOMAIN t = 1 .. Len(t) /\ \A i \in 1 .. Len(t) : t[i] \in V
    BY ElementOfSeq
<1>2. ASSUME NEW i \in 1 .. Len(t)
      PROVE  Folds(t)[i] \in Seq(V)
    <2>1. t[i] \in V /\ i \in DOMAIN t
        BY <1>1
    <2>2. <<t[i]>> \in Seq(V) /\ <<>> \in Seq(V) /\ <<CR>> \in Seq(V)
        BY <2>1
    <2> QED
        BY <2>1, <2>2 DEF Folds
<1>3. Folds(t) \in Seq(Seq(V)) /\ Len(Folds(t)) = Len(t)
    <2>1. Folds(t) = [i \in 1 .. Len(t) |-> Folds(t)[i]]
        BY <1>1 DEF Folds
    <2>2. Folds(t) \in [1 .. Len(t) -> Seq(V)]
        BY <1>2, <2>1
    <2> QED
        BY <1>1, <2>2
<1>4. FlattenSeq(Folds(t)) \in Seq(V)
    BY <1>3, FlattenNext
<1> QED
    BY <1>3, <1>4, Zenon DEF Folded, Folds

(* Folded text is a fold. *)
LEMMA FoldedIs ==
    ASSUME NEW t \in Bytes
    PROVE  Folded(t) = Breaking(<<>>, 0, t)
<1> DEFINE N == Len(t)
           e == Folds(t)
           none == <<>>
           base == <<none, 0>>
           Before(n) == IF n = 0 THEN 0 ELSE t[n]
           g == Following(base, BreakStep, t)
<1>1. t \in Seq(Nat) /\ N \in Nat /\ CR \in Nat /\ \A i \in 1 .. N : t[i] \in Nat
    <2>1. t \in Seq(Nat)
        BY DEF Bytes
    <2>2. \A i \in 1 .. N : t[i] \in Nat
        BY <2>1, ElementOfSeq
    <2> QED
        BY <2>1, <2>2 DEF CR
<1>2. e \in Seq(Seq(Nat)) /\ Len(e) = N
    BY <1>1, FoldsType
<1>3. \A n \in 1 .. N : e[n] = Break(Before(n - 1), t[n])
    <2> TAKE n \in 1 .. N
    <2>1. n \in DOMAIN t
        BY <1>1
    <2>2. e[n] = IF t[n] # LF THEN <<t[n]>> ELSE IF n > 1 /\ t[n - 1] = CR THEN <<>> ELSE <<CR>>
        BY <2>1, Zenon DEF Folds
    <2>3. (n > 1 /\ t[n - 1] = CR) <=> Before(n - 1) = CR
        <3>1. n = 1 => Before(n - 1) = 0
            OBVIOUS
        <3>2. n # 1 => n > 1 /\ Before(n - 1) = t[n - 1]
            BY <1>1
        <3>3. 0 # CR /\ (n = 1 => ~(n > 1))
            BY DEF CR
        <3> QED
            BY <3>1, <3>2, <3>3
    <2> HIDE DEF e, Before
    <2> QED
        BY <2>2, <2>3, Zenon DEF Break
<1>4. PICK J : JoinsUp(J, e) /\ J[Len(e)] = FlattenSeq(e) /\ \A n \in 0 .. Len(e) : J[n] \in Seq(Nat)
    BY <1>2, FlattenJoins
<1>5. Folded(t) = FlattenSeq(e)
    BY Zenon DEF Folded, Folds
<1> DEFINE f == [n \in 0 .. N |-> <<J[n], Before(n)>>]
<1>6. \A n \in 0 .. N : f[n] = <<J[n], Before(n)>>
    OBVIOUS
<1>7. \A n \in 0 .. N : Before(n) \in Nat /\ J[n] \in Bytes
    BY <1>1, <1>2, <1>4 DEF Bytes
<1>8. Before(0) = 0 /\ \A n \in 1 .. N : Before(n) = t[n]
    BY <1>1
<1> HIDE DEF e, f, Before
<1>9. Follows(f, base, BreakStep, t)
    <2>1. f[0] = base
        <3>1. 0 \in 0 .. N /\ J[0] = none
            BY <1>1, <1>4 DEF JoinsUp
        <3> QED
            BY <1>6, <1>8, <3>1, Zenon
    <2>2. ASSUME NEW n \in 1 .. Len(t)
          PROVE  f[n] = BreakStep[<<f[n - 1], t[n]>>]
        <3>1. n \in 0 .. N /\ n - 1 \in 0 .. N /\ n \in 1 .. N /\ n \in 1 .. Len(e)
            BY <1>1, <1>2
        <3> DEFINE o == J[n - 1]
                   b == Before(n - 1)
                   c == t[n]
        <3>2. o \in Bytes /\ b \in Nat /\ c \in Nat
            BY <1>1, <1>7, <3>1
        <3>3. f[n - 1] = <<o, b>>
            BY <1>6, <3>1
        <3>4. f[n] = <<J[n], c>>
            BY <1>6, <1>8, <3>1
        <3>5. J[n] = o \o Break(b, c)
            BY <1>3, <1>4, <3>1 DEF JoinsUp
        <3> HIDE DEF o, b
        <3>6. BreakStep[<<<<o, b>>, c>>] = <<o \o Break(b, c), c>>
            BY <3>2, BreakStepType, Zenon
        <3> QED
            BY <3>3, <3>4, <3>5, <3>6, Zenon
    <2> QED
        BY <2>1, <2>2 DEF Follows
<1>10. Follows(g, base, BreakStep, t)
    BY <1>1, FollowingIs
<1> HIDE DEF g, base
<1>11. BeginAlike(t, t, N) /\ N <= Len(t)
    BY <1>1 DEF BeginAlike
<1>12. f[N] = g[N]
    <2> HIDE DEF N
    <2> QED
        BY <1>1, <1>9, <1>10, <1>11, FollowsOnce
<1>13. f[N] = <<Folded(t), Before(N)>>
    <2>1. N \in 0 .. N
        BY <1>1
    <2> QED
        BY <1>2, <1>4, <1>5, <1>6, <2>1
<1>14. g[N][1] = Folded(t)
    BY <1>12, <1>13
<1> QED
    BY <1>14 DEF Breaking, Folding, g, base, none

-----------------------------------------------------------------------------
(* Line breaks, replaced. *)

Broken(t) == Replaced(Replaced(t, <<CR, LF>>, <<CR>>), <<LF>>, <<CR>>)

(* The rest after the first of two is the second. *)
LEMMA OnwardOfJoin ==
    ASSUME NEW E, NEW u \in Seq(E), NEW v \in Seq(E)
    PROVE  Onward(u \o v, Len(u)) = v
<1> DEFINE q == u \o v
           s == Onward(q, Len(u))
           k == Len(u)
<1>1. q \in Seq(E) /\ Len(q) = Len(u) + Len(v) /\ \A i \in 1 .. Len(v) : q[Len(u) + i] = v[i]
    BY Begins
<1>2. k \in 0 .. Len(q)
    <2>1. Len(u) \in Nat /\ Len(v) \in Nat
        OBVIOUS
    <2> HIDE DEF q
    <2> QED
        BY <1>1, <2>1
<1> HIDE DEF q
<1>3. s \in Seq(E) /\ Len(s) = Len(q) - k /\ EndsIn(q, k, s)
    BY <1>1, <1>2, OnwardProperties
<1> HIDE DEF s
<1>4. Len(s) = Len(v)
    BY <1>1, <1>3
<1>5. \A i \in 1 .. Len(s) : s[i] = v[i]
    BY <1>1, <1>3, <1>4, Zenon DEF EndsIn
<1>6. s = v
    BY <1>3, <1>4, <1>5, SeqEqual
<1> QED
    BY <1>6, Zenon DEF s, q

(* The first and the rest of a sequence that is put together so. *)
Headed(c, v, q) == q # <<>> /\ q[1] = c /\ Onward(q, 1) = v

(* A byte and what follows it. *)
LEMMA HeadAndRest ==
    ASSUME NEW c \in Nat, NEW v \in Bytes
    PROVE  <<c>> \o v \in Bytes /\ Headed(c, v, <<c>> \o v)
<1> DEFINE u == <<c>>
           q == u \o v
<1>1. u \in Seq(Nat) /\ v \in Seq(Nat) /\ Len(u) = 1 /\ u[1] = c
    BY DEF Bytes
<1> HIDE DEF u
<1>2. q \in Seq(Nat) /\ Len(q) = Len(u) + Len(v) /\ \A i \in 1 .. Len(u) : q[i] = u[i]
    BY <1>1, Begins
<1>3. Onward(q, Len(u)) = v
    BY <1>1, OnwardOfJoin
<1> HIDE DEF q
<1>4. q[1] = c /\ Onward(q, 1) = v
    BY <1>1, <1>2, <1>3
<1>5. q # <<>>
    <2>1. Len(q) # 0
        BY <1>1, <1>2
    <2> QED
        BY <2>1
<1>6. q \in Bytes
    BY <1>2 DEF Bytes
<1>7. Headed(c, v, q)
    BY <1>4, <1>5, Zenon DEF Headed
<1> QED
    BY <1>6, <1>7, Zenon DEF q, u

(* What a text begins with. *)
LEMMA BreaksAt ==
    ASSUME NEW q \in Bytes, q # <<>>
    PROVE  /\ IsPrefix(<<LF>>, q) <=> q[1] = LF
           /\ IsPrefix(<<CR, LF>>, q) <=> (q[1] = CR /\ Onward(q, 1) # <<>> /\ Onward(q, 1)[1] = LF)
<1> DEFINE one == <<LF>>
           two == <<CR, LF>>
           v == Onward(q, 1)
<1>1. q \in Seq(Nat) /\ Len(q) \in Nat \ {0}
    <2>1. q \in Seq(Nat)
        BY DEF Bytes
    <2> QED
        BY <2>1
<1>2. one \in Seq(Nat) /\ Len(one) = 1 /\ one[1] = LF
    BY DEF LF
<1>3. two \in Seq(Nat) /\ Len(two) = 2 /\ two[1] = CR /\ two[2] = LF
    BY DEF LF, CR
<1>4. v \in Seq(Nat) /\ Len(v) = Len(q) - 1 /\ EndsIn(q, 1, v)
    <2>1. 1 \in 0 .. Len(q)
        BY <1>1
    <2> QED
        BY <1>1, <2>1, OnwardProperties
<1>5. Onward(q, 0) = q
    BY <1>1, SubSeqFull DEF Onward
<1> HIDE DEF one, two, v
<1>6. v # <<>> => Len(q) >= 2 /\ v[1] = q[2]
    <2>1. v # <<>> => Len(v) >= 1
        BY <1>4
    <2>2. Len(v) >= 1 => v[1] = q[1 + 1]
        BY <1>4 DEF EndsIn
    <2> QED
        BY <1>1, <1>4, <2>1, <2>2
<1>7. Len(q) >= 2 => v # <<>>
    <2>1. Len(q) >= 2 => Len(v) # 0
        BY <1>1, <1>4
    <2> QED
        BY <2>1
<1>8. ASSUME NEW what \in Seq(Nat), Len(what) \in {1, 2}, IsPrefix(what, q)
      PROVE  /\ Len(q) >= Len(what) /\ what[1] = q[1]
             /\ Len(what) = 2 => what[2] = q[2]
    <2>1. Len(what) <= Len(q) /\ SubSeq(what, 1, Len(what)) = SubSeq(q, 1, Len(what))
        BY <1>8 DEF IsPrefix
    <2> DEFINE n == Len(what)
    <2>2. n \in Nat /\ n <= Len(q) /\ n >= 1
        BY <1>8, <2>1
    <2>3. \A i \in 1 .. n : SubSeq(what, 1, n)[i] = what[i]
        BY <2>2
    <2>4. \A i \in 1 .. n : SubSeq(q, 1, n)[i] = q[i]
        BY <1>1, <2>2
    <2> HIDE DEF n
    <2>5. 1 \in 1 .. n /\ (n = 2 => 2 \in 1 .. n)
        BY <2>2
    <2>6. \A i \in 1 .. n : what[i] = q[i]
        BY <2>1, <2>3, <2>4 DEF n
    <2> QED
        BY <2>1, <2>5, <2>6 DEF n
<1>9. q[1] = LF => IsPrefix(one, q)
    <2> SUFFICES ASSUME q[1] = LF PROVE IsPrefix(one, q)
        OBVIOUS
    <2>1. 0 \in 0 .. Len(q) /\ 0 + Len(one) <= Len(q)
        BY <1>1, <1>2
    <2>2. \A i \in 1 .. Len(one) : q[0 + i] = one[i]
        BY <1>2
    <2>3. IsPrefix(one, Onward(q, 0))
        BY <1>1, <1>2, <2>1, <2>2, MiddleBegins
    <2> QED
        BY <1>5, <2>3
<1>10. q[1] = CR /\ Len(q) >= 2 /\ q[2] = LF => IsPrefix(two, q)
    <2> SUFFICES ASSUME q[1] = CR, Len(q) >= 2, q[2] = LF PROVE IsPrefix(two, q)
        OBVIOUS
    <2>1. 0 \in 0 .. Len(q) /\ 0 + Len(two) <= Len(q)
        BY <1>1, <1>3
    <2>2. \A i \in 1 .. Len(two) : q[0 + i] = two[i]
        <3>1. \A i \in 1 .. Len(two) : i \in {1, 2} /\ 0 + i = i
            BY <1>3
        <3> QED
            BY <1>3, <3>1
    <2>3. IsPrefix(two, Onward(q, 0))
        BY <1>1, <1>3, <2>1, <2>2, MiddleBegins
    <2> QED
        BY <1>5, <2>3
<1>11. IsPrefix(one, q) => q[1] = LF
    BY <1>2, <1>8
<1>12. IsPrefix(two, q) => q[1] = CR /\ Len(q) >= 2 /\ q[2] = LF
    BY <1>3, <1>8
<1>13. IsPrefix(two, q) <=> (q[1] = CR /\ v # <<>> /\ v[1] = LF)
    BY <1>6, <1>7, <1>10, <1>12
<1> QED
    BY <1>9, <1>11, <1>13 DEF one, two, v
(* The breaks of nothing, of a pair and of anything else. *)
LEMMA BrokenNext ==
    /\ Broken(<<>>) = <<>>
    /\ \A t \in Bytes : Broken(t) \in Bytes
    /\ \A v \in Bytes : Broken(<<CR, LF>> \o v) = <<CR>> \o Broken(v)
    /\ \A t \in Bytes : t # <<>> /\ ~IsPrefix(<<CR, LF>>, t) =>
          Broken(t) = (IF t[1] = LF THEN <<CR>> ELSE <<t[1]>>) \o Broken(Onward(t, 1))
<1> DEFINE one == <<LF>>
           two == <<CR, LF>>
           r == <<CR>>
           A(t) == Replaced(t, two, r)
           B(t) == Replaced(t, one, r)
<1>1. one \in Seq(Nat) /\ one # <<>> /\ two \in Seq(Nat) /\ two # <<>> /\ r \in Seq(Nat)
    BY DEF CR, LF
<1>2. ReplacesIn(Nat, one, r) /\ ReplacesIn(Nat, two, r)
    <2> HIDE DEF one, two, r
    <2> QED
        BY <1>1, ReplacedNext
<1>3. \A t : Broken(t) = B(A(t))
    BY DEF Broken
<1>4. A(<<>>) = <<>> /\ B(<<>>) = <<>>
    BY <1>2, Zenon DEF ReplacesIn
<1>5. (\A t \in Bytes : A(t) \in Bytes) /\ (\A t \in Bytes : B(t) \in Bytes)
    BY <1>2, Zenon DEF ReplacesIn, Bytes
<1>6. \A v \in Bytes : A(two \o v) = r \o A(v)
    BY <1>2, Zenon DEF ReplacesIn, Bytes
<1>7. \A v \in Bytes : B(one \o v) = r \o B(v)
    BY <1>2, Zenon DEF ReplacesIn, Bytes
<1>8. \A t \in Bytes : t # <<>> /\ ~IsPrefix(two, t) => A(t) = <<t[1]>> \o A(Onward(t, 1))
    BY <1>2, Zenon DEF ReplacesIn, Bytes
<1>9. \A t \in Bytes : t # <<>> /\ ~IsPrefix(one, t) => B(t) = <<t[1]>> \o B(Onward(t, 1))
    BY <1>2, Zenon DEF ReplacesIn, Bytes
<1> HIDE DEF A, B
<1>10. ASSUME NEW c \in Nat, NEW s \in Bytes
       PROVE  B(<<c>> \o s) = (IF c = LF THEN <<CR>> ELSE <<c>>) \o B(s)
    <2> DEFINE q == <<c>> \o s
    <2>1. CASE c = LF
        BY <1>7, <2>1, Zenon
    <2>2. CASE c # LF
        <3>1. q \in Bytes /\ Headed(c, s, q)
            BY HeadAndRest
        <3> HIDE DEF q
        <3>2. q # <<>> /\ q[1] = c /\ Onward(q, 1) = s
            BY <3>1, Zenon DEF Headed
        <3>3. ~IsPrefix(one, q)
            BY <2>2, <3>1, <3>2, BreaksAt
        <3>4. B(q) = <<c>> \o B(s)
            BY <1>9, <3>1, <3>2, <3>3, Zenon
        <3> QED
            BY <2>2, <3>4, Zenon DEF q
    <2> QED
        BY <2>1, <2>2
<1>11. ASSUME NEW v \in Bytes
       PROVE  Broken(two \o v) = r \o Broken(v)
    <2>1. A(v) \in Bytes /\ CR \in Nat /\ CR # LF
        BY <1>5 DEF CR, LF
    <2>2. B(<<CR>> \o A(v)) = <<CR>> \o B(A(v))
        BY <1>10, <2>1, Zenon
    <2> QED
        BY <1>3, <1>6, <2>2, Zenon
<1>12. ASSUME NEW t \in Bytes, t # <<>>, ~IsPrefix(two, t)
       PROVE  Broken(t) = (IF t[1] = LF THEN <<CR>> ELSE <<t[1]>>) \o Broken(Onward(t, 1))
    <2>1. Unfolds(Nat, t)
        BY <1>12, FirstAndRest DEF Bytes
    <2>2. t[1] \in Nat /\ Onward(t, 1) \in Bytes
        BY <2>1, Zenon DEF Unfolds, Bytes
    <2>3. A(Onward(t, 1)) \in Bytes /\ A(t) = <<t[1]>> \o A(Onward(t, 1))
        BY <1>5, <1>8, <1>12, <2>2, Zenon
    <2>4. B(A(t)) = (IF t[1] = LF THEN <<CR>> ELSE <<t[1]>>) \o B(A(Onward(t, 1)))
        BY <1>10, <2>2, <2>3, Zenon
    <2> QED
        BY <1>3, <2>4, Zenon
<1>13. Broken(<<>>) = <<>>
    BY <1>3, <1>4, Zenon
<1>14. \A t \in Bytes : Broken(t) \in Bytes
    BY <1>3, <1>5, Zenon
<1> QED
    BY <1>11, <1>12, <1>13, <1>14, Zenon DEF two, r

(* Breaking a text after a character. *)
Splits(t) ==
    \A o \in Bytes, before \in Nat :
        (before # CR \/ t = <<>> \/ t[1] # LF) => Breaking(o, before, t) = o \o Broken(t)

(* Breaking nothing is folding nothing. *)
LEMMA SplitsNone == Splits(<<>>)
<1>1. \A o \in Bytes : o \o <<>> = o
    BY DEF Bytes
<1>2. Broken(<<>>) = <<>>
    BY BrokenNext
<1>3. \A o, before : Breaking(o, before, <<>>) = o
    BY BreakingIs, Zenon DEF BreakingGoes
<1> QED
    BY <1>1, <1>2, <1>3, Zenon DEF Splits

(* A carriage return and a line feed are one break in both. *)
LEMMA SplitsPair ==
    ASSUME NEW v \in Bytes, Splits(v)
    PROVE  Splits(<<CR, LF>> \o v)
<1> DEFINE w == <<LF>> \o v
           t == <<CR>> \o w
           r == <<CR>>
           b == Broken(v)
<1>1. CR \in Nat /\ LF \in Nat /\ CR # LF
    BY DEF CR, LF
<1>2. w \in Bytes
    BY <1>1, HeadAndRest
<1>3. <<CR, LF>> \o v = t
    <2> DEFINE a == <<CR>>
               c == <<LF>>
    <2>1. a \in Seq(Nat) /\ c \in Seq(Nat) /\ v \in Seq(Nat) /\ a \o c = <<CR, LF>>
        <3>1. a \in Seq(Nat) /\ c \in Seq(Nat)
            BY <1>1
        <3>2. v \in Seq(Nat)
            BY DEF Bytes
        <3>3. a \o c = <<CR, LF>>
            <4> DEFINE s == a \o c
                       p == <<CR, LF>>
            <4>1. a \in Seq(Nat) /\ Len(a) = 1 /\ a[1] = CR /\ c \in Seq(Nat) /\ Len(c) = 1 /\ c[1] = LF
                BY <1>1
            <4>2. p \in Seq(Nat) /\ Len(p) = 2 /\ p[1] = CR /\ p[2] = LF
                BY <1>1
            <4> HIDE DEF a, c, p
            <4>3. s \in Seq(Nat) /\ Len(s) = 2 /\ s[1] = CR /\ s[2] = LF
                <5>1. a \in Seq(Nat) /\ c \in Seq(Nat)
                    BY <4>1
                <5>2. /\ s \in Seq(Nat) /\ Len(s) = Len(a) + Len(c) /\ (\A i \in 1 .. Len(a) : s[i] = a[i])
                      /\ (\A i \in 1 .. Len(c) : s[Len(a) + i] = c[i])
                    BY <5>1, Begins
                <5> HIDE DEF s
                <5>3. s[1] = a[1] /\ s[1 + 1] = c[1] /\ Len(s) = 1 + 1
                    BY <4>1, <5>2
                <5> QED
                    BY <4>1, <5>2, <5>3
            <4> HIDE DEF s
            <4>4. \A i \in 1 .. Len(s) : s[i] = p[i]
                <5>1. \A i \in 1 .. Len(s) : i = 1 \/ i = 2
                    BY <4>3
                <5> QED
                    BY <4>2, <4>3, <5>1
            <4>5. s = p
                BY <4>2, <4>3, <4>4, SeqEqual
            <4> QED
                BY <4>5 DEF s, p
        <3> QED
            BY <3>1, <3>2, <3>3
    <2> HIDE DEF a, c
    <2>2. (a \o c) \o v = a \o (c \o v)
        BY <2>1, BytesAssociate
    <2> QED
        BY <2>1, <2>2, Zenon DEF a, c
<1>4. Broken(t) = r \o b /\ b \in Bytes
    BY <1>3, BrokenNext
<1> SUFFICES ASSUME NEW o \in Bytes, NEW before \in Nat
             PROVE  Breaking(o, before, t) = o \o Broken(t)
    BY <1>3 DEF Splits
<1> DEFINE x == o \o r
<1>5. Break(before, CR) = r /\ Break(CR, LF) = <<>>
    BY <1>1 DEF Break
<1>6. x \in Bytes /\ x \o <<>> = x /\ x \o b = o \o (r \o b)
    <2>1. o \in Seq(Nat) /\ r \in Seq(Nat) /\ b \in Seq(Nat)
        BY <1>1, <1>4 DEF Bytes
    <2> HIDE DEF r, b
    <2>2. x \in Seq(Nat)
        BY <2>1
    <2>3. x \o <<>> = x
        BY <2>2
    <2>4. x \o b = o \o (r \o b)
        BY <2>1, BytesAssociate
    <2> QED
        BY <2>2, <2>3, <2>4 DEF Bytes
<1>7. \A p \in Bytes, q \in Nat, c \in Nat, u \in Bytes : Breaking(p, q, <<c>> \o u) = Breaking(p \o Break(q, c), c, u)
    BY BreakingIs, Zenon DEF BreakingGoes
<1>8. Breaking(o, before, t) = Breaking(o \o Break(before, CR), CR, w)
    BY <1>1, <1>2, <1>7
<1>9. Breaking(x, CR, w) = Breaking(x \o Break(CR, LF), LF, v)
    BY <1>1, <1>6, <1>7
<1>10. Breaking(x, LF, v) = x \o b
    BY <1>1, <1>6, Zenon DEF Splits
<1> QED
    BY <1>4, <1>5, <1>6, <1>8, <1>9, <1>10, Zenon

(* Anything else is the same in both. *)
LEMMA SplitsOther ==
    ASSUME NEW t \in Bytes, t # <<>>, ~IsPrefix(<<CR, LF>>, t), Splits(Onward(t, 1))
    PROVE  Splits(t)
<1> DEFINE v == Onward(t, 1)
           c == t[1]
           b == Broken(v)
           x == IF c = LF THEN <<CR>> ELSE <<c>>
<1>1. CR \in Nat /\ LF \in Nat /\ CR # LF
    BY DEF CR, LF
<1>2. c \in Nat /\ v \in Bytes /\ t = <<c>> \o v
    <2>1. Unfolds(Nat, t)
        BY FirstAndRest DEF Bytes
    <2> QED
        BY <2>1, Zenon DEF Unfolds, Bytes
<1>3. Broken(t) = x \o b
    BY BrokenNext, Zenon
<1>4. b \in Bytes
    BY <1>2, BrokenNext
<1>5. c # CR \/ v = <<>> \/ v[1] # LF
    BY BreaksAt, Zenon
<1>6. x \in Seq(Nat)
    BY <1>1, <1>2
<1> SUFFICES ASSUME NEW o \in Bytes, NEW before \in Nat, before # CR \/ t = <<>> \/ t[1] # LF
             PROVE  Breaking(o, before, t) = o \o Broken(t)
    BY Zenon DEF Splits
<1>7. Break(before, c) = x
    BY Zenon DEF Break
<1>8. \A p \in Bytes, q \in Nat, d \in Nat, u \in Bytes : Breaking(p, q, <<d>> \o u) = Breaking(p \o Break(q, d), d, u)
    BY BreakingIs, Zenon DEF BreakingGoes
<1> HIDE DEF v, c, b, x
<1>9. Breaking(o, before, t) = Breaking(o \o Break(before, c), c, v)
    BY <1>2, <1>8, Zenon
<1>10. o \o x \in Bytes /\ (o \o x) \o b = o \o (x \o b)
    <2>1. o \in Seq(Nat) /\ b \in Seq(Nat)
        BY <1>4 DEF Bytes
    <2>2. o \o x \in Seq(Nat)
        BY <1>6, <2>1
    <2>3. (o \o x) \o b = o \o (x \o b)
        BY <1>6, <2>1, BytesAssociate
    <2> QED
        BY <2>2, <2>3 DEF Bytes
<1>11. Breaking(o \o x, c, v) = (o \o x) \o b
    BY <1>2, <1>5, <1>10, Zenon DEF Splits, v, b
<1> QED
    BY <1>3, <1>7, <1>9, <1>10, <1>11, Zenon

(* To replace the pairs CR LF and then the line feeds that are left (paste) is to
   fold the line breaks of a text in one pass. *)
THEOREM FoldedIsBroken ==
    ASSUME NEW t \in Bytes
    PROVE  Broken(t) = Folded(t)
<1> DEFINE N == Len(t)
           S == {n \in 0 .. N : \A p \in Bytes : Len(p) <= n => Splits(p)}
           two == <<CR, LF>>
<1>1. N \in Nat /\ \A p \in Bytes : Len(p) \in Nat
    BY DEF Bytes
<1>2. \A p \in Bytes : Len(p) = 0 => Splits(p)
    <2>1. \A p \in Bytes : Len(p) = 0 => p = <<>>
        BY DEF Bytes
    <2> QED
        BY <2>1, SplitsNone
<1>3. 0 \in S
    <2>1. \A p \in Bytes : Len(p) <= 0 => Len(p) = 0
        BY <1>1
    <2> QED
        BY <1>1, <1>2, <2>1
<1>4. ASSUME NEW n \in 1 .. N, n - 1 \in S PROVE n \in S
    <2>1. \A p \in Bytes : Len(p) <= n - 1 => Splits(p)
        BY <1>4
    <2>2. ASSUME NEW p \in Bytes, Len(p) = n
          PROVE  Splits(p)
        <3>1. p \in Seq(Nat) /\ two \in Seq(Nat) /\ Len(two) = 2
            BY DEF Bytes, CR, LF
        <3>2. p # <<>>
            BY <1>1, <2>2
        <3> HIDE DEF two
        <3>3. CASE IsPrefix(two, p)
            <4> DEFINE v == Onward(p, 2)
            <4>1. Breaks(Nat, two, p)
                BY <3>1, <3>3, PrefixAndRest
            <4>2. v \in Bytes /\ Len(v) = Len(p) - 2 /\ p = two \o v
                BY <3>1, <4>1, Zenon DEF Breaks, Bytes
            <4> HIDE DEF v
            <4>3. Splits(v)
                BY <1>1, <2>1, <2>2, <4>2
            <4>4. Splits(two \o v)
                BY <4>2, <4>3, SplitsPair DEF two
            <4> QED
                BY <4>2, <4>4, Zenon
        <3>4. CASE ~IsPrefix(two, p)
            <4>1. Unfolds(Nat, p)
                BY <3>1, <3>2, FirstAndRest
            <4>2. Onward(p, 1) \in Bytes /\ Len(Onward(p, 1)) = Len(p) - 1
                BY <4>1, Zenon DEF Unfolds, Bytes
            <4>3. Splits(Onward(p, 1))
                BY <1>1, <2>1, <2>2, <4>2
            <4> QED
                BY <3>2, <3>4, <4>3, SplitsOther DEF two
        <3> QED
            BY <3>3, <3>4
    <2>3. \A p \in Bytes : Len(p) <= n => Len(p) <= n - 1 \/ Len(p) = n
        BY <1>1
    <2>4. \A p \in Bytes : Len(p) <= n => Splits(p)
        BY <2>1, <2>2, <2>3, Zenon
    <2>5. n \in 0 .. N
        BY <1>1
    <2> QED
        BY <2>4, <2>5
<1> HIDE DEF S
<1>5. \A n \in 0 .. N : n \in S
    BY <1>1, <1>3, <1>4, UpTo
<1>6. N \in S /\ Len(t) <= N
    BY <1>1, <1>5
<1>7. Splits(t)
    BY <1>6 DEF S
<1> DEFINE none == <<>>
<1>8. none \in Bytes /\ 0 \in Nat /\ 0 # CR
    BY DEF Bytes, CR
<1>9. none \o Broken(t) = Broken(t)
    <2>1. Broken(t) \in Seq(Nat)
        BY BrokenNext DEF Bytes
    <2> QED
        BY <2>1
<1>10. Folded(t) = Breaking(none, 0, t)
    BY FoldedIs
<1> HIDE DEF none
<1>11. Breaking(none, 0, t) = none \o Broken(t)
    BY <1>7, <1>8, Zenon DEF Splits
<1> QED
    BY <1>9, <1>10, <1>11, Zenon

-----------------------------------------------------------------------------
(* The bytes of a text. *)

Associating(V) == \A s, t, u \in Seq(V) : (s \o t) \o u = s \o (t \o u)

(* Putting sequences together in either order, of any set. *)
LEMMA AllAssociate == \A V : Associating(V)
BY Associates DEF Associating

(* Sequences put together in two parts. *)
LEMMA FlattenBoth ==
    ASSUME NEW V, NEW ss \in Seq(Seq(V)), NEW tt \in Seq(Seq(V))
    PROVE  FlattenSeq(ss \o tt) = FlattenSeq(ss) \o FlattenSeq(tt)
<1> DEFINE J == Joins(V)
           none == <<>>
           a == FlattenSeq(ss)
           b == FlattenSeq(tt)
           N == Len(tt)
<1>1. ss \o tt \in Seq(Seq(V)) /\ a \in Seq(V) /\ b \in Seq(V) /\ N \in Nat
    <2>1. ss \o tt \in Seq(Seq(V))
        OBVIOUS
    <2>2. a \in Seq(V) /\ b \in Seq(V)
        BY FlattenJoins
    <2> QED
        BY <2>1, <2>2
<1>2. /\ FlattenSeq(ss \o tt) = Folding(none, J, ss \o tt)
      /\ a = Folding(none, J, ss)
    BY <1>1, FlattenIs
<1> HIDE DEF none
<1>3. Folding(none, J, ss \o tt) = Folding(Folding(none, J, ss), J, tt)
    BY FoldingJoin
<1>4. PICK f : JoinsUp(f, tt) /\ f[Len(tt)] = FlattenSeq(tt) /\ \A n \in 0 .. Len(tt) : f[n] \in Seq(V)
    BY FlattenJoins
<1>5. /\ \A x, y \in Seq(V) : J[<<x, y>>] = x \o y
      /\ \A n \in 1 .. Len(tt) : tt[n] \in Seq(V)
    BY JoinsType
<1> DEFINE g == [n \in 0 .. N |-> a \o f[n]]
           h == Following(a, J, tt)
<1>6. \A n \in 0 .. N : g[n] = a \o f[n]
    OBVIOUS
<1> HIDE DEF g, a, b, J
<1>7. Follows(g, a, J, tt)
    <2>1. g[0] = a
        <3>1. 0 \in 0 .. N /\ f[0] = <<>>
            BY <1>1, <1>4 DEF JoinsUp
        <3>2. a \o <<>> = a
            BY <1>1
        <3> QED
            BY <1>6, <3>1, <3>2, Zenon
    <2>2. ASSUME NEW n \in 1 .. Len(tt)
          PROVE  g[n] = J[<<g[n - 1], tt[n]>>]
        <3> DEFINE x == f[n - 1]
                   y == tt[n]
        <3>1. n \in 0 .. N /\ n - 1 \in 0 .. N
            BY <1>1
        <3>2. x \in Seq(V) /\ y \in Seq(V) /\ g[n - 1] = a \o x /\ g[n] = a \o f[n] /\ f[n] = x \o y
            BY <1>4, <1>5, <1>6, <3>1 DEF JoinsUp
        <3> HIDE DEF x, y
        <3>3. a \o x \in Seq(V) /\ a \o (x \o y) = (a \o x) \o y
            <4>1. a \o x \in Seq(V)
                BY <1>1, <3>2
            <4>2. a \o (x \o y) = (a \o x) \o y
                <5>1. Associating(V)
                    BY AllAssociate
                <5>2. a \in Seq(V) /\ x \in Seq(V) /\ y \in Seq(V)
                    BY <1>1, <3>2
                <5>3. (a \o x) \o y = a \o (x \o y)
                    BY <5>1, <5>2, Zenon DEF Associating
                <5> QED
                    BY <5>3
            <4> QED
                BY <4>1, <4>2
        <3>4. J[<<a \o x, y>>] = (a \o x) \o y
            BY <1>5, <3>2, <3>3
        <3> QED
            BY <3>2, <3>3, <3>4, Zenon DEF y
    <2> QED
        BY <2>1, <2>2 DEF Follows
<1>8. Follows(h, a, J, tt)
    BY <1>1, FollowingIs
<1> HIDE DEF h
<1>9. BeginAlike(tt, tt, N) /\ N <= Len(tt)
    BY <1>1 DEF BeginAlike
<1>10. g[N] = h[N]
    <2> HIDE DEF N
    <2> QED
        BY <1>1, <1>7, <1>8, <1>9, FollowsOnce
<1>11. N \in 0 .. N
    BY <1>1
<1>12. Folding(a, J, tt) = a \o b
    <2>1. Folding(a, J, tt) = h[N]
        BY DEF Folding, h
    <2>2. g[N] = a \o b
        BY <1>4, <1>6, <1>11 DEF b
    <2> QED
        BY <1>10, <2>1, <2>2
<1> QED
    BY <1>2, <1>3, <1>12, Zenon DEF a, b

(* A text in UTF-8, by its characters. *)
Spelling(text) == [i \in DOMAIN text |-> Utf8Of(text[i])]

(* Text, as bytes. *)
LEMMA Utf8Type ==
    ASSUME NEW text \in Seq(Char)
    PROVE  Spelling(text) \in Seq(Seq(Nat)) /\ Utf8(text) = FlattenSeq(Spelling(text)) /\ Utf8(text) \in Bytes
<1>1. DOMAIN text = 1 .. Len(text) /\ Len(text) \in Nat /\ \A i \in 1 .. Len(text) : text[i] \in Char
    BY ElementOfSeq
<1>2. \A i \in 1 .. Len(text) : Utf8Of(text[i]) \in Seq(Nat)
    BY <1>1, Utf8OfType DEF Bytes
<1>3. Spelling(text) \in [1 .. Len(text) -> Seq(Nat)]
    BY <1>1, <1>2 DEF Spelling
<1>4. Spelling(text) \in Seq(Seq(Nat))
    BY <1>1, <1>3
<1>5. Utf8(text) = FlattenSeq(Spelling(text))
    BY Zenon DEF Utf8, Spelling
<1>6. FlattenSeq(Spelling(text)) \in Seq(Nat)
    BY <1>4, FlattenJoins
<1> QED
    BY <1>4, <1>5, <1>6 DEF Bytes

(* The bytes of text are those of its first character and of the rest. *)
LEMMA Utf8First ==
    /\ Utf8(<<>>) = <<>>
    /\ \A c \in Char, v \in Seq(Char) : Utf8(<<c>> \o v) = Utf8Of(c) \o Utf8(v)
<1>1. Utf8(<<>>) = <<>>
    <2>1. Spelling(<<>>) = <<>>
        BY DEF Spelling
    <2>2. <<>> \in Seq(Char)
        OBVIOUS
    <2>3. Utf8(<<>>) = FlattenSeq(<<>>)
        BY <2>1, Zenon DEF Utf8, Spelling
    <2> QED
        BY <2>3, FlattenNext
<1>2. ASSUME NEW c \in Char, NEW v \in Seq(Char)
      PROVE  Utf8(<<c>> \o v) = Utf8Of(c) \o Utf8(v)
    <2> DEFINE u == <<c>>
               t == u \o v
               w == Utf8Of(c)
               ws == <<w>>
               e == Spelling(v)
               d == ws \o e
               f == Spelling(t)
    <2>1. u \in Seq(Char) /\ Len(u) = 1 /\ u[1] = c
        OBVIOUS
    <2>2. w \in Seq(Nat)
        BY Utf8OfType DEF Bytes
    <2>3. e \in Seq(Seq(Nat)) /\ Utf8(v) = FlattenSeq(e)
        BY Utf8Type
    <2>4. Len(e) = Len(v) /\ Len(v) \in Nat /\ \A i \in 1 .. Len(v) : e[i] = Utf8Of(v[i])
        BY DEF Spelling
    <2> HIDE DEF u, w
    <2>5. ws \in Seq(Seq(Nat)) /\ Len(ws) = 1 /\ ws[1] = w
        BY <2>2
    <2>6. t \in Seq(Char) /\ Len(t) = 1 + Len(v) /\ t[1] = c /\ \A i \in 1 .. Len(v) : t[1 + i] = v[i]
        <3>1. t \in Seq(Char) /\ Len(t) = Len(u) + Len(v) /\ (\A i \in 1 .. Len(u) : t[i] = u[i])
              /\ \A i \in 1 .. Len(v) : t[Len(u) + i] = v[i]
            BY <2>1, Begins
        <3> HIDE DEF t
        <3> QED
            BY <2>1, <3>1
    <2> HIDE DEF t
    <2>7. f \in Seq(Seq(Nat)) /\ Utf8(t) = FlattenSeq(f)
        BY <2>6, Utf8Type
    <2>8. Len(f) = Len(t) /\ \A i \in 1 .. Len(t) : f[i] = Utf8Of(t[i])
        BY <2>6 DEF Spelling
    <2> HIDE DEF e, f, ws
    <2>9. d \in Seq(Seq(Nat)) /\ Len(d) = 1 + Len(e) /\ d[1] = w /\ \A i \in 1 .. Len(e) : d[1 + i] = e[i]
        <3>1. d \in Seq(Seq(Nat)) /\ Len(d) = Len(ws) + Len(e) /\ (\A i \in 1 .. Len(ws) : d[i] = ws[i])
              /\ \A i \in 1 .. Len(e) : d[Len(ws) + i] = e[i]
            <4>1. ws \in Seq(Seq(Nat)) /\ e \in Seq(Seq(Nat))
                BY <2>3, <2>5
            <4> QED
                BY <4>1, Begins
        <3> HIDE DEF d
        <3> QED
            BY <2>5, <3>1
    <2> HIDE DEF d
    <2>10. \A i \in 1 .. Len(f) : f[i] = d[i]
        <3> TAKE i \in 1 .. Len(f)
        <3>1. CASE i = 1
            BY <2>6, <2>8, <2>9, <3>1 DEF w
        <3>2. CASE i # 1
            <4> DEFINE k == i - 1
            <4>1. k \in 1 .. Len(v) /\ 1 + k = i /\ k \in 1 .. Len(e) /\ i \in 1 .. Len(t)
                BY <2>4, <2>6, <2>8, <3>2
            <4> HIDE DEF k
            <4>2. f[i] = Utf8Of(t[1 + k]) /\ d[i] = e[k]
                BY <2>8, <2>9, <4>1
            <4>3. t[1 + k] = v[k] /\ e[k] = Utf8Of(v[k])
                BY <2>4, <2>6, <4>1
            <4> QED
                BY <4>2, <4>3, Zenon
        <3> QED
            BY <3>1, <3>2
    <2>11. f = d
        <3>1. Len(f) = Len(d)
            BY <2>4, <2>6, <2>8, <2>9
        <3> QED
            BY <2>7, <2>9, <2>10, <3>1, SeqEqual
    <2>12. FlattenSeq(d) = FlattenSeq(ws) \o FlattenSeq(e)
        BY <2>3, <2>5, FlattenBoth DEF d
    <2>13. FlattenSeq(ws) = w
        BY <2>2, FlattenNext DEF ws
    <2> QED
        BY <2>3, <2>7, <2>11, <2>12, <2>13, Zenon DEF t, u, w
<1> QED
    BY <1>1, <1>2

-----------------------------------------------------------------------------
(* Heads of bytes. *)

(* u begins with p. *)
Heads(p, u) == Len(p) <= Len(u) /\ \A i \in 1 .. Len(p) : u[i] = p[i]

(* A head of bytes, by its first byte and the rest. *)
LEMMA HeadsNext ==
    ASSUME NEW p \in Bytes, p # <<>>, NEW u \in Bytes
    PROVE  /\ Heads(p, u) => u # <<>> /\ u[1] = p[1] /\ Heads(Onward(p, 1), Onward(u, 1))
           /\ u # <<>> /\ u[1] = p[1] /\ Heads(Onward(p, 1), Onward(u, 1)) => Heads(p, u)
<1> DEFINE a == Onward(p, 1)
           b == Onward(u, 1)
<1>1. p \in Seq(Nat) /\ u \in Seq(Nat) /\ Len(p) \in Nat \ {0} /\ Len(u) \in Nat
    <2>1. p \in Seq(Nat) /\ u \in Seq(Nat)
        BY DEF Bytes
    <2> QED
        BY <2>1
<1>2. Len(a) = Len(p) - 1 /\ \A i \in 1 .. Len(p) - 1 : a[i] = p[1 + i]
    <2>1. 1 \in 0 .. Len(p)
        BY <1>1
    <2>2. Len(a) = Len(p) - 1 /\ EndsIn(p, 1, a)
        BY <1>1, <2>1, OnwardProperties
    <2> HIDE DEF a
    <2> QED
        BY <2>2 DEF EndsIn
<1>3. u # <<>> => Len(u) >= 1
    BY <1>1
<1>4. u # <<>> => Len(b) = Len(u) - 1 /\ \A i \in 1 .. Len(u) - 1 : b[i] = u[1 + i]
    <2> SUFFICES ASSUME u # <<>> PROVE Len(b) = Len(u) - 1 /\ \A i \in 1 .. Len(u) - 1 : b[i] = u[1 + i]
        OBVIOUS
    <2>1. 1 \in 0 .. Len(u)
        BY <1>1, <1>3
    <2>2. Len(b) = Len(u) - 1 /\ EndsIn(u, 1, b)
        BY <1>1, <2>1, OnwardProperties
    <2> HIDE DEF b
    <2> QED
        BY <2>2 DEF EndsIn
<1>5. Len(u) >= 1 => u # <<>>
    BY <1>1
<1> HIDE DEF a, b
<1>6. ASSUME Heads(p, u)
      PROVE  u # <<>> /\ u[1] = p[1] /\ Heads(a, b)
    <2>1. Len(p) <= Len(u) /\ \A i \in 1 .. Len(p) : u[i] = p[i]
        BY <1>6 DEF Heads
    <2>2. u # <<>> /\ u[1] = p[1]
        BY <1>1, <1>5, <2>1
    <2>3. Len(a) <= Len(b) /\ Len(b) = Len(u) - 1
        BY <1>1, <1>2, <1>4, <2>1, <2>2
    <2>4. \A i \in 1 .. Len(a) : b[i] = a[i]
        <3> TAKE i \in 1 .. Len(a)
        <3>1. i \in 1 .. Len(p) - 1 /\ i \in 1 .. Len(u) - 1 /\ 1 + i \in 1 .. Len(p)
            BY <1>1, <1>2, <2>3
        <3> QED
            BY <1>2, <1>4, <2>1, <2>2, <3>1
    <2> QED
        BY <2>2, <2>3, <2>4 DEF Heads
<1>7. ASSUME u # <<>>, u[1] = p[1], Heads(a, b)
      PROVE  Heads(p, u)
    <2>1. Len(a) <= Len(b) /\ \A i \in 1 .. Len(a) : b[i] = a[i]
        BY <1>7 DEF Heads
    <2>2. Len(p) <= Len(u)
        BY <1>1, <1>2, <1>4, <1>7, <2>1
    <2>3. \A i \in 1 .. Len(p) : u[i] = p[i]
        <3> TAKE i \in 1 .. Len(p)
        <3>1. CASE i = 1
            BY <1>7, <3>1
        <3>2. CASE i # 1
            <4> DEFINE k == i - 1
            <4>1. k \in 1 .. Len(p) - 1 /\ k \in 1 .. Len(a) /\ k \in 1 .. Len(u) - 1 /\ 1 + k = i
                BY <1>1, <1>2, <2>2, <3>2
            <4> HIDE DEF k
            <4>2. a[k] = p[1 + k] /\ b[k] = u[1 + k] /\ b[k] = a[k]
                BY <1>2, <1>4, <1>7, <2>1, <4>1
            <4> QED
                BY <4>1, <4>2
        <3> QED
            BY <3>1, <3>2
    <2> QED
        BY <2>2, <2>3 DEF Heads
<1> QED
    BY <1>6, <1>7 DEF a, b

(* The bytes of a text that is not empty: those of its first character, and of the rest. *)
Spells(t, c, v) ==
    /\ c \in Char /\ v \in Seq(Char) /\ v \in Bytes
    /\ c = t[1] /\ v = Onward(t, 1) /\ Len(v) = Len(t) - 1
    /\ Utf8(t) = Utf8Of(c) \o Utf8(v)
    /\ Utf8(v) \in Bytes

(* Characters are numbers. *)
LEMMA CharsAreBytes == \A t \in Seq(Char) : t \in Bytes
<1>1. Char \subseteq Nat
    BY DEF Char
<1> QED
    BY <1>1, SeqMonotonic DEF Bytes

(* The bytes of text begin with those of its first character. *)
LEMMA SpellsFirst ==
    ASSUME NEW t \in Seq(Char), t # <<>>
    PROVE  Spells(t, t[1], Onward(t, 1))
<1> DEFINE c == t[1]
           v == Onward(t, 1)
<1>1. Unfolds(Char, t)
    BY FirstAndRest
<1>2. c \in Char /\ v \in Seq(Char) /\ Len(v) = Len(t) - 1 /\ t = <<c>> \o v
    BY <1>1, Zenon DEF Unfolds
<1> HIDE DEF c, v
<1>3. Utf8(<<c>> \o v) = Utf8Of(c) \o Utf8(v)
    BY <1>2, Utf8First
<1>4. Utf8(v) \in Bytes
    BY <1>2, Utf8Type
<1>5. v \in Bytes
    BY <1>2, CharsAreBytes
<1>6. Utf8(t) = Utf8Of(c) \o Utf8(v)
    BY <1>2, <1>3, Zenon
<1> QED
    BY <1>2, <1>4, <1>5, <1>6, Zenon DEF Spells, c, v

(* Where the bytes of a text are ASCII, so are its characters. *)
Ascii == {p \in Bytes : \A i \in 1 .. Len(p) : p[i] < 128}

ShowsIn(p) == \A t \in Seq(Char) : Heads(p, Utf8(t)) => Heads(p, t)

(* No bytes show in any text. *)
LEMMA ShowsNone == ShowsIn(<<>>)
<1>1. \A t \in Seq(Char) : Len(<<>>) <= Len(t) /\ \A i \in 1 .. Len(<<>>) : t[i] = <<>>[i]
    OBVIOUS
<1> QED
    BY <1>1, Zenon DEF ShowsIn, Heads

(* If the rest of some ASCII bytes shows in text, so do they. *)
LEMMA ShowsNext ==
    ASSUME NEW p \in Bytes, p # <<>>, p[1] \in Nat, p[1] < 128, ShowsIn(Onward(p, 1))
    PROVE  ShowsIn(p)
<1> SUFFICES ASSUME NEW t \in Seq(Char), Heads(p, Utf8(t)) PROVE Heads(p, t)
    BY Zenon DEF ShowsIn
<1> DEFINE u == Utf8(t)
           c == t[1]
           v == Onward(t, 1)
           w == Utf8(v)
           x == Utf8Of(c)
<1>1. u \in Bytes /\ t \in Bytes
    BY Utf8Type, CharsAreBytes
<1>2. u # <<>> /\ u[1] = p[1] /\ Heads(Onward(p, 1), Onward(u, 1))
    BY <1>1, HeadsNext, Zenon
<1>3. t # <<>>
    BY <1>2, Utf8First
<1>4. Spells(t, c, v)
    BY <1>3, SpellsFirst
<1>5. c \in Char /\ v \in Seq(Char) /\ u = x \o w /\ w \in Bytes
    BY <1>4, Zenon DEF Spells
<1>6. /\ x \in Bytes /\ x # <<>>
      /\ c < 128 => x = <<c>>
      /\ c >= 128 => \A i \in 1 .. Len(x) : x[i] >= 128
    BY <1>5, Utf8OfType
<1> HIDE DEF u, v, w, x, c
<1>7. x[1] = p[1] /\ 1 \in 1 .. Len(x)
    <2>1. x \in Seq(Nat) /\ w \in Seq(Nat)
        BY <1>5, <1>6 DEF Bytes
    <2>2. \A i \in 1 .. Len(x) : (x \o w)[i] = x[i]
        BY <2>1, Begins
    <2>3. 1 \in 1 .. Len(x)
        BY <1>6, <2>1
    <2> QED
        BY <1>2, <1>5, <2>2, <2>3
<1>8. c \in Nat /\ c < 128
    <2>1. c \in Nat
        BY <1>5 DEF Char
    <2>2. ~(c >= 128)
        BY <1>6, <1>7
    <2> QED
        BY <2>1, <2>2
<1>9. c = p[1]
    <2>1. x = <<c>>
        BY <1>6, <1>8
    <2>2. x[1] = c
        BY <2>1
    <2> QED
        BY <1>7, <2>2
<1>10. Onward(u, 1) = w
    <2>1. u = <<c>> \o w
        BY <1>5, <1>6, <1>8, Zenon
    <2>2. Headed(c, w, <<c>> \o w)
        BY <1>5, <1>8, HeadAndRest
    <2> QED
        BY <2>1, <2>2, Zenon DEF Headed
<1>11. Heads(Onward(p, 1), v)
    <2>1. Heads(Onward(p, 1), w)
        BY <1>2, <1>10, Zenon
    <2> QED
        BY <1>5, <2>1, Zenon DEF ShowsIn, w
<1>12. t[1] = p[1] /\ Heads(Onward(p, 1), Onward(t, 1))
    BY <1>9, <1>11, Zenon DEF c, v
<1> QED
    BY <1>1, <1>3, <1>12, HeadsNext, Zenon

-----------------------------------------------------------------------------
(* No end marker in the bytes. *)

(* ASCII bytes at the head of the bytes of text are characters at its head. *)
LEMMA AllShow ==
    ASSUME NEW t \in Ascii
    PROVE  ShowsIn(t)
<1> DEFINE N == Len(t)
           S == {n \in 0 .. N : \A p \in Ascii : Len(p) <= n => ShowsIn(p)}
<1>1. N \in Nat /\ \A p \in Ascii : Len(p) \in Nat /\ p \in Seq(Nat) /\ p \in Bytes
    BY DEF Bytes, Ascii
<1>2. \A p \in Ascii : Len(p) = 0 => ShowsIn(p)
    <2>1. \A p \in Ascii : Len(p) = 0 => p = <<>>
        BY <1>1
    <2> QED
        BY <2>1, ShowsNone
<1>3. 0 \in S
    <2>1. \A p \in Ascii : Len(p) <= 0 => Len(p) = 0
        BY <1>1
    <2> QED
        BY <1>1, <1>2, <2>1
<1>4. ASSUME NEW n \in 1 .. N, n - 1 \in S PROVE n \in S
    <2>1. \A p \in Ascii : Len(p) <= n - 1 => ShowsIn(p)
        BY <1>4
    <2>2. ASSUME NEW p \in Ascii, Len(p) = n
          PROVE  ShowsIn(p)
        <3> DEFINE v == Onward(p, 1)
        <3>1. p \in Seq(Nat) /\ p \in Bytes /\ p # <<>> /\ 1 \in 1 .. Len(p) /\ 1 \in 0 .. Len(p)
            BY <1>1, <2>2
        <3>2. p[1] \in Nat /\ p[1] < 128 /\ \A i \in 1 .. Len(p) : p[i] < 128
            BY <3>1 DEF Ascii
        <3>3. v \in Seq(Nat) /\ Len(v) = Len(p) - 1 /\ EndsIn(p, 1, v)
            BY <3>1, OnwardProperties
        <3> HIDE DEF v
        <3>4. v \in Ascii
            <4>1. \A i \in 1 .. Len(v) : v[i] = p[1 + i] /\ 1 + i \in 1 .. Len(p)
                BY <3>1, <3>3 DEF EndsIn
            <4> QED
                BY <3>2, <3>3, <4>1 DEF Ascii, Bytes
        <3>5. ShowsIn(v)
            BY <1>1, <2>1, <2>2, <3>3, <3>4
        <3> QED
            BY <3>1, <3>2, <3>5, ShowsNext DEF v
    <2>3. \A p \in Ascii : Len(p) <= n => Len(p) <= n - 1 \/ Len(p) = n
        BY <1>1
    <2>4. \A p \in Ascii : Len(p) <= n => ShowsIn(p)
        BY <2>1, <2>2, <2>3, Zenon
    <2>5. n \in 0 .. N
        BY <1>1
    <2> QED
        BY <2>4, <2>5
<1> HIDE DEF S
<1>5. \A n \in 0 .. N : n \in S
    BY <1>1, <1>3, <1>4, UpTo
<1>6. N \in S /\ Len(t) <= N
    BY <1>1, <1>5
<1> QED
    BY <1>6 DEF S

(* The end marker is ASCII, and only its first byte is an escape. *)
LEMMA ClosesIs ==
    /\ Closes \in Bytes /\ Len(Closes) = 6 /\ Closes \in Ascii /\ Closes \in Markers
    /\ Closes[1] = 27 /\ \A i \in 2 .. 6 : Closes[i] # 27
<1>1. Closes \in Markers /\ Closes \in Bytes /\ Len(Closes) = 6 /\ Closes[1] = 27
    BY MarkersAre
<1>2. /\ Closes[2] = 91 /\ Closes[3] = 50 /\ Closes[4] = 48 /\ Closes[5] = 49 /\ Closes[6] = 126
    BY DEF Closes
<1>3. \A i \in 1 .. 6 : i \in {1, 2, 3, 4, 5, 6}
    OBVIOUS
<1>4. \A i \in 1 .. 6 : Closes[i] < 128
    BY <1>1, <1>2, <1>3
<1>5. \A i \in 2 .. 6 : Closes[i] # 27
    <2>1. \A i \in 2 .. 6 : i \in {2, 3, 4, 5, 6}
        OBVIOUS
    <2> QED
        BY <1>2, <2>1
<1>6. Closes \in Ascii
    <2> DEFINE p == Closes
    <2>1. p \in Bytes /\ \A i \in 1 .. Len(p) : p[i] < 128
        BY <1>1, <1>4
    <2> HIDE DEF p
    <2>2. p \in Ascii
        BY <2>1 DEF Ascii
    <2> QED
        BY <2>2 DEF p
<1> QED
    BY <1>1, <1>5, <1>6

(* The end marker is nowhere in the bytes. *)
Absent(t) == \A j \in 0 .. Len(Utf8(t)) : ~Heads(Closes, Onward(Utf8(t), j))

(* There is no end marker in nothing. *)
LEMMA AbsentNone == Absent(<<>>)
<1>1. Utf8(<<>>) = <<>> /\ <<>> \in Seq(Nat) /\ Len(<<>>) = 0
    BY Utf8First
<1> DEFINE u == Utf8(<<>>)
<1>2. ASSUME NEW j \in 0 .. Len(u)
      PROVE  ~Heads(Closes, Onward(u, j))
    <2>1. u \in Seq(Nat) /\ Len(u) = 0
        BY <1>1
    <2>2. Len(Onward(u, j)) = Len(u) - j
        <3> HIDE DEF u
        <3> QED
            BY <2>1, OnwardProperties
    <2> HIDE DEF u
    <2> QED
        BY <2>1, <2>2, ClosesIs DEF Heads
<1> QED
    BY <1>2 DEF Absent

(* Text that begins with the end marker is not free of it. *)
LEMMA HeadsIsPrefix ==
    ASSUME NEW t \in Bytes, Heads(Closes, t)
    PROVE  ~FreeOf(Closes, t)
<1>1. t \in Seq(Nat) /\ Closes \in Seq(Nat) /\ Len(t) \in Nat
    BY ClosesIs DEF Bytes
<1>2. Len(Closes) <= Len(t) /\ \A i \in 1 .. Len(Closes) : t[i] = Closes[i]
    BY Zenon DEF Heads
<1>3. 0 \in 0 .. Len(t) /\ 0 + Len(Closes) <= Len(t) /\ \A i \in 1 .. Len(Closes) : t[0 + i] = Closes[i]
    BY <1>1, <1>2
<1>4. IsPrefix(Closes, Onward(t, 0))
    BY <1>1, <1>3, MiddleBegins
<1> QED
    BY <1>3, <1>4, Zenon DEF FreeOf

(* The rest of free text is free. *)
LEMMA FreeOfTheRest ==
    ASSUME NEW t \in Bytes, t # <<>>, FreeOf(Closes, t)
    PROVE  FreeOf(Closes, Onward(t, 1))
<1> DEFINE v == Onward(t, 1)
<1>1. t \in Seq(Nat) /\ Unfolds(Nat, t)
    BY FirstAndRest DEF Bytes
<1>2. Len(v) = Len(t) - 1 /\ Len(t) \in Nat
    <2>1. Len(v) = Len(t) - 1
        BY <1>1, Zenon DEF Unfolds
    <2>2. Len(t) \in Nat
        BY <1>1
    <2> QED
        BY <2>1, <2>2
<1> SUFFICES ASSUME NEW k \in 0 .. Len(v) PROVE ~IsPrefix(Closes, Onward(v, k))
    BY Zenon DEF FreeOf
<1>3. k \in 0 .. Len(t) - 1 /\ k + 1 \in 0 .. Len(t)
    BY <1>2
<1>4. Onward(v, k) = Onward(t, k + 1)
    BY <1>1, <1>3, OnwardOnward
<1> QED
    BY <1>3, <1>4, Zenon DEF FreeOf

(* If the end marker is not in the bytes of the rest it is not in those of the text. *)
LEMMA AbsentNext ==
    ASSUME NEW t \in Seq(Char), t # <<>>, FreeOf(Closes, t), Absent(Onward(t, 1))
    PROVE  Absent(t)
<1> DEFINE u == Utf8(t)
           c == t[1]
           v == Onward(t, 1)
           w == Utf8(v)
           x == Utf8Of(c)
<1>1. u \in Bytes /\ t \in Bytes
    BY Utf8Type, CharsAreBytes
<1>2. Spells(t, c, v)
    BY SpellsFirst
<1>3. c \in Char /\ v \in Seq(Char) /\ u = x \o w /\ w \in Bytes
    BY <1>2, Zenon DEF Spells
<1>4. /\ x \in Bytes /\ x # <<>>
      /\ c < 128 => x = <<c>>
      /\ c >= 128 => \A i \in 1 .. Len(x) : x[i] >= 128
    BY <1>3, Utf8OfType
<1>5. \A j \in 0 .. Len(w) : ~Heads(Closes, Onward(w, j))
    BY Zenon DEF Absent
<1>6. ~Heads(Closes, u)
    <2>1. ~Heads(Closes, t)
        BY <1>1, HeadsIsPrefix
    <2>2. ShowsIn(Closes)
        BY ClosesIs, AllShow
    <2> QED
        BY <2>1, <2>2, Zenon DEF ShowsIn
<1> SUFFICES ASSUME NEW j \in 0 .. Len(u), Heads(Closes, Onward(u, j)) PROVE FALSE
    BY Zenon DEF Absent
<1> HIDE DEF u, v, w, x, c
<1>7. /\ x \in Seq(Nat) /\ w \in Seq(Nat) /\ u \in Seq(Nat) /\ Len(u) = Len(x) + Len(w) /\ Len(x) \in Nat \ {0} /\ Len(w) \in Nat
      /\ (\A i \in 1 .. Len(x) : u[i] = x[i]) /\ (\A i \in 1 .. Len(w) : u[Len(x) + i] = w[i])
    <2>1. x \in Seq(Nat) /\ w \in Seq(Nat)
        BY <1>3, <1>4 DEF Bytes
    <2>2. /\ x \o w \in Seq(Nat) /\ Len(x \o w) = Len(x) + Len(w)
          /\ (\A i \in 1 .. Len(x) : (x \o w)[i] = x[i]) /\ (\A i \in 1 .. Len(w) : (x \o w)[Len(x) + i] = w[i])
        BY <2>1, Begins
    <2>3. Len(x) \in Nat \ {0} /\ Len(w) \in Nat
        BY <1>4, <2>1
    <2> QED
        BY <1>3, <2>1, <2>2, <2>3, Zenon
<1> DEFINE r == Onward(u, j)
<1>8. r \in Seq(Nat) /\ Len(r) = Len(u) - j /\ EndsIn(u, j, r)
    BY <1>7, OnwardProperties
<1> HIDE DEF r
<1>9. 6 <= Len(r) /\ \A i \in 1 .. 6 : r[i] = Closes[i]
    BY ClosesIs DEF Heads, r
<1>10. CASE j >= Len(x)
    <2> DEFINE k == j - Len(x)
               s == Onward(w, k)
    <2>1. k \in 0 .. Len(w) /\ j = Len(x) + k
        BY <1>7, <1>10
    <2> HIDE DEF k
    <2>2. s \in Seq(Nat) /\ Len(s) = Len(w) - k /\ EndsIn(w, k, s)
        BY <1>7, <2>1, OnwardProperties
    <2> HIDE DEF s
    <2>3. Len(s) = Len(r)
        BY <1>7, <1>8, <2>1, <2>2
    <2>4. \A i \in 1 .. Len(r) : s[i] = r[i]
        <3> TAKE i \in 1 .. Len(r)
        <3>1. r[i] = u[j + i] /\ s[i] = w[k + i]
            BY <1>8, <2>2, <2>3 DEF EndsIn
        <3>2. k + i \in 1 .. Len(w) /\ j + i = Len(x) + (k + i)
            BY <1>7, <2>1, <2>2, <2>3
        <3>3. u[Len(x) + (k + i)] = w[k + i]
            BY <1>7, <3>2
        <3> QED
            BY <3>1, <3>2, <3>3
    <2>5. s = r
        BY <1>8, <2>2, <2>3, <2>4, SeqEqual
    <2> QED
        BY <1>5, <2>1, <2>5, Zenon DEF r, s
<1>11. CASE ~(j >= Len(x))
    <2>1. j + 1 \in 1 .. Len(x)
        BY <1>7, <1>11
    <2>2. x[j + 1] = 27
        <3>1. 1 \in 1 .. Len(r) /\ 1 \in 1 .. 6
            BY <1>8, <1>9
        <3>2. r[1] = u[j + 1]
            BY <1>8, <3>1 DEF EndsIn
        <3> QED
            BY <1>7, <1>9, <2>1, <3>1, <3>2, ClosesIs
    <2>3. c \in Nat /\ c < 128
        <3>1. c \in Nat
            BY <1>3 DEF Char
        <3>2. ~(c >= 128)
            BY <1>4, <2>1, <2>2
        <3> QED
            BY <3>1, <3>2
    <2>4. Len(x) = 1
        <3>1. x = <<c>>
            BY <1>4, <2>3
        <3> QED
            BY <3>1
    <2>5. j = 0
        BY <1>7, <2>1, <2>4
    <2>6. r = u
        BY <1>7, <2>5, SubSeqFull DEF Onward, r
    <2> QED
        BY <1>6, <2>6, Zenon DEF r
<1> QED
    BY <1>10, <1>11

-----------------------------------------------------------------------------
(* Where a paste ends. *)

(* A text without the end marker has none in its bytes. *)
LEMMA AllAbsent ==
    ASSUME NEW t \in Seq(Char), FreeOf(Closes, t)
    PROVE  Absent(t)
<1> DEFINE N == Len(t)
           S == {n \in 0 .. N : \A p \in Seq(Char) : Len(p) <= n /\ FreeOf(Closes, p) => Absent(p)}
<1>1. N \in Nat /\ \A p \in Seq(Char) : Len(p) \in Nat
    OBVIOUS
<1>2. \A p \in Seq(Char) : Len(p) = 0 => Absent(p)
    <2>1. \A p \in Seq(Char) : Len(p) = 0 => p = <<>>
        OBVIOUS
    <2> QED
        BY <2>1, AbsentNone
<1>3. 0 \in S
    <2>1. \A p \in Seq(Char) : Len(p) <= 0 => Len(p) = 0
        BY <1>1
    <2> QED
        BY <1>1, <1>2, <2>1
<1>4. ASSUME NEW n \in 1 .. N, n - 1 \in S PROVE n \in S
    <2>1. \A p \in Seq(Char) : Len(p) <= n - 1 /\ FreeOf(Closes, p) => Absent(p)
        BY <1>4
    <2>2. ASSUME NEW p \in Seq(Char), Len(p) = n, FreeOf(Closes, p)
          PROVE  Absent(p)
        <3> DEFINE v == Onward(p, 1)
        <3>1. p # <<>> /\ p \in Bytes
            BY <1>1, <2>2, CharsAreBytes
        <3>2. Spells(p, p[1], v)
            BY <3>1, SpellsFirst
        <3>3. v \in Seq(Char) /\ Len(v) = Len(p) - 1
            BY <3>2, Zenon DEF Spells
        <3>4. FreeOf(Closes, v)
            BY <2>2, <3>1, FreeOfTheRest
        <3> HIDE DEF v
        <3>5. Len(v) <= n - 1
            BY <1>1, <2>2, <3>3
        <3>6. Absent(v)
            BY <2>1, <3>3, <3>4, <3>5
        <3> QED
            BY <2>2, <3>1, <3>6, AbsentNext DEF v
    <2>3. \A p \in Seq(Char) : Len(p) <= n => Len(p) <= n - 1 \/ Len(p) = n
        BY <1>1
    <2>4. \A p \in Seq(Char) : Len(p) <= n /\ FreeOf(Closes, p) => Absent(p)
        BY <2>1, <2>2, <2>3, Zenon
    <2>5. n \in 0 .. N
        BY <1>1
    <2> QED
        BY <2>4, <2>5
<1> HIDE DEF S
<1>5. \A n \in 0 .. N : n \in S
    BY <1>1, <1>3, <1>4, UpTo
<1>6. N \in S /\ Len(t) <= N
    BY <1>1, <1>5
<1> QED
    BY <1>6 DEF S

(* Where the end marker stands. *)
ClosesAt(after) == {j \in 1 .. Len(after) - 5 : SubSeq(after, j, j + 5) = PasteEnd}

(* Where the end marker is, byte by byte. *)
LEMMA SixAt ==
    ASSUME NEW s \in Seq(Nat), NEW j \in 1 .. Len(s) - 5
    PROVE  SubSeq(s, j, j + 5) = PasteEnd <=> \A i \in 1 .. 6 : s[j + (i - 1)] = Closes[i]
<1> DEFINE r == SubSeq(s, j, j + 5)
<1>1. Closes \in Seq(Nat) /\ Len(Closes) = 6 /\ PasteEnd = Closes
    BY ClosesIs, MarkersAre DEF Bytes
<1>2. r \in Seq(Nat) /\ Len(r) = 6 /\ \A i \in 1 .. 6 : r[i] = s[j + (i - 1)]
    <2> DEFINE k == j + 5
    <2>1. j \in Nat /\ k \in Nat /\ k <= Len(s) /\ Len(s) \in Nat /\ j >= 1 /\ k = j + 5
        OBVIOUS
    <2> HIDE DEF k
    <2>2. SubSeq(s, j, k) \in Seq(Nat) /\ Len(SubSeq(s, j, k)) = 6
          /\ \A i \in 1 .. 6 : SubSeq(s, j, k)[i] = s[j + (i - 1)]
        <3>1. SubSeq(s, j, k) \in Seq(Nat) /\ Len(SubSeq(s, j, k)) = (k - j) + 1
            BY <2>1
        <3>2. (k - j) + 1 = 6
            BY <2>1
        <3>3. \A i \in 1 .. 6 : SubSeq(s, j, k)[i] = s[(j + i) - 1] /\ (j + i) - 1 = j + (i - 1)
            BY <2>1, <3>2
        <3> QED
            BY <3>1, <3>2, <3>3
    <2> QED
        BY <2>2 DEF k
<1> HIDE DEF r
<1>3. r = Closes => \A i \in 1 .. 6 : s[j + (i - 1)] = Closes[i]
    BY <1>2
<1>4. ASSUME \A i \in 1 .. 6 : s[j + (i - 1)] = Closes[i]
      PROVE  r = Closes
    <2>1. \A i \in 1 .. Len(r) : r[i] = Closes[i]
        BY <1>2, <1>4
    <2> QED
        BY <1>1, <1>2, <2>1, SeqEqual
<1> QED
    BY <1>1, <1>3, <1>4 DEF r

(* Behind bytes without it, it stands first where it is put. *)
FirstClose(after, n) == n + 1 \in ClosesAt(after) /\ \A k \in ClosesAt(after) : n + 1 <= k

(* What is free of the end marker is read up to the marker that was put after it. *)
LEMMA ClosesFirst ==
    ASSUME NEW u \in Seq(Nat), \A j \in 0 .. Len(u) : ~Heads(Closes, Onward(u, j)), NEW rest \in Seq(Nat)
    PROVE  /\ (u \o Closes) \o rest \in Seq(Nat)
           /\ FirstClose((u \o Closes) \o rest, Len(u))
           /\ SubSeq((u \o Closes) \o rest, 1, Len(u)) = u
<1> DEFINE b == u \o Closes
           a == b \o rest
           L == Len(u)
<1>1. /\ Closes \in Seq(Nat) /\ Len(Closes) = 6
      /\ Closes[1] = 27 /\ \A i \in 2 .. 6 : Closes[i] # 27
    BY ClosesIs DEF Bytes
<1>2. /\ b \in Seq(Nat) /\ Len(b) = Len(u) + Len(Closes)
      /\ \A i \in 1 .. Len(u) : b[i] = u[i]
      /\ \A i \in 1 .. Len(Closes) : b[Len(u) + i] = Closes[i]
    <2>1. Closes \in Seq(Nat)
        BY <1>1
    <2> QED
        BY <2>1, Begins
<1> HIDE DEF b
<1>3. /\ a \in Seq(Nat) /\ Len(a) = Len(b) + Len(rest)
      /\ \A i \in 1 .. Len(b) : a[i] = b[i]
    <2>1. b \in Seq(Nat)
        BY <1>2
    <2> QED
        BY <2>1, Begins
<1>4. L \in Nat /\ Len(rest) \in Nat
    OBVIOUS
<1>4a. L = Len(u)
    OBVIOUS
<1> HIDE DEF a, L
<1>5. Len(a) = L + 6 + Len(rest) /\ (\A i \in 1 .. L : a[i] = u[i]) /\ \A i \in 1 .. 6 : a[L + i] = Closes[i]
    <2>1. Len(b) = L + 6 /\ (\A i \in 1 .. L : b[i] = u[i]) /\ \A i \in 1 .. 6 : b[L + i] = Closes[i]
        BY <1>1, <1>2, <1>4a
    <2>2. /\ \A i \in 1 .. L : i \in 1 .. Len(b)
          /\ \A i \in 1 .. 6 : L + i \in 1 .. Len(b)
        <3>1. \A i \in 1 .. L : i \in 1 .. L + 6
            BY <1>4
        <3>2. \A i \in 1 .. 6 : L + i \in 1 .. L + 6
            BY <1>4
        <3> QED
            BY <2>1, <3>1, <3>2
    <2>3. \A i \in 1 .. 6 : a[L + i] = b[L + i]
        BY <1>3, <2>2
    <2> QED
        BY <1>3, <2>1, <2>2, <2>3
<1>6. L + 1 \in ClosesAt(a)
    <2>1. L + 1 \in 1 .. Len(a) - 5
        BY <1>4, <1>5
    <2>2. \A i \in 1 .. 6 : (L + 1) + (i - 1) = L + i
        BY <1>4
    <2>3. \A i \in 1 .. 6 : a[(L + 1) + (i - 1)] = Closes[i]
        BY <1>5, <2>2
    <2> DEFINE j == L + 1
    <2>4. j \in 1 .. Len(a) - 5 /\ \A i \in 1 .. 6 : a[j + (i - 1)] = Closes[i]
        BY <2>1, <2>3
    <2> HIDE DEF j
    <2>5. SubSeq(a, j, j + 5) = PasteEnd
        BY <1>3, <2>4, SixAt
    <2> QED
        BY <2>4, <2>5 DEF ClosesAt, j
<1>7. ASSUME NEW k \in ClosesAt(a)
      PROVE  L + 1 <= k
    <2>1. k \in 1 .. Len(a) - 5 /\ \A i \in 1 .. 6 : a[k + (i - 1)] = Closes[i]
        BY <1>3, SixAt DEF ClosesAt
    <2> SUFFICES ASSUME k <= L PROVE FALSE
        BY <1>4, <2>1
    <2>2. CASE k + 5 <= L
        <3> DEFINE n == k - 1
                   r == Onward(u, n)
        <3>1. n \in 0 .. Len(u) /\ k = n + 1 /\ n \in Nat
            BY <1>4, <1>4a, <2>1, <2>2
        <3>2. Len(r) = L - n /\ EndsIn(u, n, r)
            BY <1>4a, <3>1, OnwardProperties
        <3>3. Len(Closes) <= Len(r)
            BY <1>1, <1>4, <2>2, <3>1, <3>2
        <3> HIDE DEF n, r
        <3>4. \A i \in 1 .. 6 : i \in 1 .. Len(r) /\ n + i \in 1 .. L /\ k + (i - 1) = n + i
            <4>1. Len(r) \in Nat /\ Len(r) >= 6 /\ n + 6 <= L
                BY <1>4, <2>2, <3>1, <3>2
            <4> QED
                BY <1>4, <3>1, <4>1
        <3>5. \A i \in 1 .. 6 : r[i] = Closes[i]
            <4>1. \A i \in 1 .. 6 : r[i] = u[n + i]
                BY <3>2, <3>4 DEF EndsIn
            <4>2. \A i \in 1 .. 6 : u[n + i] = a[n + i]
                BY <1>4, <1>5, <3>4
            <4>3. \A i \in 1 .. 6 : a[n + i] = Closes[i]
                BY <2>1, <3>4
            <4> QED
                BY <4>1, <4>2, <4>3
        <3>6. Heads(Closes, r)
            BY <1>1, <3>3, <3>5 DEF Heads
        <3> QED
            BY <3>1, <3>6 DEF r
    <2>3. CASE ~ (k + 5 <= L)
        <3> DEFINE i == L + 2 - k
        <3>1. i \in 2 .. 6 /\ i \in 1 .. 6 /\ k + (i - 1) = L + 1 /\ 1 \in 1 .. 6
            <4>1. k \in Nat /\ k <= L /\ k + 5 > L
                BY <1>4, <2>1, <2>3
            <4> QED
                BY <1>4, <4>1
        <3> HIDE DEF i
        <3>2. a[k + (i - 1)] = Closes[i] /\ a[L + 1] = Closes[1]
            BY <1>5, <2>1, <3>1
        <3> QED
            BY <1>1, <3>1, <3>2
    <2> QED
        BY <2>2, <2>3
<1>8. SubSeq(a, 1, L) = u
    <2> DEFINE r == SubSeq(a, 1, L)
    <2>1. r \in Seq(Nat) /\ Len(r) = L /\ \A i \in 1 .. L : r[i] = a[i]
        <3>1. L <= Len(a) /\ a \in Seq(Nat)
            BY <1>3, <1>4, <1>5
        <3> QED
            BY <1>4, <3>1
    <2> HIDE DEF r
    <2>2. \A i \in 1 .. Len(r) : r[i] = u[i]
        BY <1>5, <2>1
    <2>3. Len(r) = Len(u) /\ r \in Seq(Nat)
        BY <1>4a, <2>1
    <2> QED
        BY <2>2, <2>3, SeqEqual DEF r
<1>9. FirstClose(a, L)
    BY <1>6, <1>7 DEF FirstClose
<1> QED
    BY <1>3, <1>8, <1>9 DEF a, b, L

-----------------------------------------------------------------------------
(* Pastes in brackets. *)

(* What is between the brackets is one event. *)
LEMMA PasteGives ==
    ASSUME NEW m, m.paste, NEW u \in Seq(Nat), NEW after, FirstClose(after, Len(u)), SubSeq(after, 1, Len(u)) = u
    PROVE  CsiEvent(m, Decimal(200), 126, after) = Taken(PasteEvent(u), Len(u) + 6)
<1> DEFINE n == 200
           p == Decimal(n)
           final == 126
           sgr == p # <<>> /\ p[1] = 60
           numbersOf == NumbersIn(IF sgr THEN Tail(p) ELSE p)
           at == [col |-> numbersOf[2] - 1, row |-> numbersOf[3] - 1]
           closes == {j \in 1 .. Len(after) - 5 : SubSeq(after, j, j + 5) = PasteEnd}
           close == CHOOSE j \in closes : \A k \in closes : j <= k
           g1 == sgr /\ m.encoding = 1006
           g2 == ~sgr /\ Len(numbersOf) = 3 /\ m.encoding = 1015
           g3 == ~sgr /\ final = 126 /\ numbersOf = <<200>> /\ m.paste /\ closes # {}
           g4 == ~sgr /\ final \in {73, 79} /\ m.focus
           t1 == Taken(ByButton(numbersOf[1], at, final = 109), 0)
           t2 == Taken(ByButton(numbersOf[1] - 32, at, FALSE), 0)
           t3 == Taken(PasteEvent(SubSeq(after, 1, close - 1)), close + 5)
           t4 == Taken(FocusEvent(final = 73), 0)
           t5 == Taken(KeyByFinal(m, final, numbersOf), 0)
<1>1. CsiEvent(m, p, final, after) =
        CASE g1 -> t1 [] g2 -> t2 [] g3 -> t3 [] g4 -> t4 [] OTHER -> t5
    BY Zenon DEF CsiEvent
<1>2. ~sgr /\ NumbersIn(p) = <<n>>
    <2>1. n \in Nat
        OBVIOUS
    <2> HIDE DEF n
    <2>2. p[1] # 60 /\ NumbersIn(p) = <<n>>
        BY <2>1, NumbersAre
    <2> QED
        BY <2>2, Zenon
<1>3. numbersOf = <<200>>
    <2>1. numbersOf = NumbersIn(p)
        BY <1>2, Zenon
    <2> HIDE DEF numbersOf, p
    <2> QED
        BY <1>2, <2>1
<1>4. Len(<<200>>) # 3 /\ final \notin {73, 79} /\ final = 126
    OBVIOUS
<1> HIDE DEF sgr, numbersOf, p
<1>5. closes = ClosesAt(after)
    BY Zenon DEF ClosesAt
<1>6. Len(u) + 1 \in closes /\ \A k \in closes : Len(u) + 1 <= k
    BY <1>5, Zenon DEF FirstClose
<1>7. close = Len(u) + 1
    <2> DEFINE h == Len(u) + 1
    <2>1. \A k \in closes : k \in Int
        OBVIOUS
    <2>2. h \in closes /\ \A k \in closes : h <= k
        BY <1>6
    <2> HIDE DEF h, closes
    <2>3. close \in closes /\ \A k \in closes : close <= k
        BY <2>2, Zenon
    <2> HIDE DEF close
    <2>4. h <= close /\ close <= h
        BY <2>2, <2>3
    <2>5. close \in Int /\ h \in Int
        BY <2>1, <2>2, <2>3
    <2>6. close = h
        BY <2>4, <2>5
    <2> QED
        BY <2>6 DEF h
<1>8. closes # {}
    BY <1>6, Zenon
<1>9. t3 = Taken(PasteEvent(u), Len(u) + 6)
    <2>1. Len(u) \in Nat
        OBVIOUS
    <2> HIDE DEF close
    <2>2. close - 1 = Len(u) /\ close + 5 = Len(u) + 6
        BY <1>7, <2>1
    <2> QED
        BY <2>2, Zenon
<1> HIDE DEF close, closes
<1>10. ~g1 /\ ~g2 /\ g3 /\ ~g4
    BY <1>2, <1>3, <1>4, <1>8
<1> HIDE DEF g1, g2, g3, g4, t1, t2, t3, t4, t5, final
<1>11. CsiEvent(m, p, final, after) = t3
    BY <1>1, <1>10, Zenon
<1> QED
    BY <1>9, <1>11, Zenon DEF p, n, final

(* A paste in brackets is read as one paste of the text it was of, if that is free of the end marker. *)
LEMMA PasteReads ==
    ASSUME NEW m, m.paste, NEW t \in Seq(Char), FreeOf(Closes, t)
    PROVE  Reads(m, (PasteStart \o Utf8(t)) \o PasteEnd, <<PasteEvent(Utf8(t))>>)
<1> DEFINE n == 200
           p == Decimal(n)
           c == Csi \o p
           final == 126
           a == c \o <<final>>
           u == Utf8(t)
           b == a \o u
           w == b \o Closes
<1>1. u \in Seq(Nat) /\ \A j \in 0 .. Len(u) : ~Heads(Closes, Onward(u, j))
    <2>1. Absent(t)
        BY AllAbsent
    <2>2. u \in Seq(Nat)
        BY Utf8Type DEF Bytes
    <2> QED
        BY <2>1, <2>2, Zenon DEF Absent
<1>2. p \in Params /\ p # <<>> /\ p \in Seq(Nat) /\ Len(p) \in Nat
    <2>1. n \in Nat
        OBVIOUS
    <2> HIDE DEF n
    <2>2. p \in Params /\ p # <<>>
        BY <2>1, NumbersAre
    <2>3. p \in Seq(Nat)
        BY <2>2, ParamsAreBytes
    <2> QED
        BY <2>2, <2>3
<1>3. Closes \in Seq(Nat) /\ Len(Closes) = 6 /\ PasteEnd = Closes
    BY ClosesIs, MarkersAre DEF Bytes
<1>4. final \in Nat /\ final >= 64 /\ <<final>> \in Seq(Nat) /\ Len(<<final>>) = 1
    OBVIOUS
<1>5. PasteStart = a
    BY Zenon DEF PasteStart, Tilde
<1>6. Csi \in Seq(Nat) /\ Len(Csi) = 2
    BY DEF Csi, ESC
<1> HIDE DEF n, p, u, final
<1>7. c \in Seq(Nat) /\ Len(c) = 2 + Len(p)
    <2> DEFINE i == Csi
    <2>1. i \in Seq(Nat) /\ p \in Seq(Nat) /\ Len(i) = 2
        BY <1>2, <1>6
    <2> HIDE DEF i
    <2>2. i \o p \in Seq(Nat) /\ Len(i \o p) = Len(i) + Len(p)
        <3>1. i \in Seq(Nat) /\ p \in Seq(Nat)
            BY <2>1
        <3> QED
            BY <3>1, Begins
    <2> QED
        BY <2>1, <2>2 DEF i
<1> HIDE DEF c
<1>8. a \in Seq(Nat) /\ Len(a) = 3 + Len(p)
    <2>1. a \in Seq(Nat) /\ Len(a) = Len(c) + 1
        BY <1>4, <1>7
    <2> HIDE DEF a
    <2> QED
        BY <1>2, <1>7, <2>1
<1>9. b \in Seq(Nat) /\ Len(b) = Len(a) + Len(u)
    BY <1>1, <1>8
<1> HIDE DEF a, b
<1>10. w \in Seq(Nat) /\ Len(w) = Len(p) + 3 + (Len(u) + 6) /\ w # <<>>
    <2>1. w \in Seq(Nat) /\ Len(w) = Len(b) + 6
        <3>1. Closes \in Seq(Nat) /\ b \in Seq(Nat)
            BY <1>3, <1>9
        <3>2. w \in Seq(Nat) /\ Len(w) = Len(b) + Len(Closes)
            BY <3>1, Begins
        <3> QED
            BY <1>3, <3>2
    <2>2. Len(u) \in Nat
        BY <1>1
    <2> HIDE DEF w
    <2>3. Len(w) = Len(p) + 3 + (Len(u) + 6)
        BY <1>2, <1>8, <1>9, <2>1, <2>2
    <2>4. Len(w) # 0
        BY <1>2, <2>2, <2>3
    <2> QED
        BY <2>1, <2>3, <2>4, SMTT(40)
<1>11. ASSUME NEW rest \in Bytes
       PROVE  EventIn(m, w \o rest) = Taken(PasteEvent(u), Len(w))
    <2> DEFINE d == u \o Closes
               after == d \o rest
    <2>1. rest \in Seq(Nat) /\ d \in Seq(Nat)
        BY <1>1, <1>3 DEF Bytes
    <2>2. after \in Seq(Nat) /\ FirstClose(after, Len(u)) /\ SubSeq(after, 1, Len(u)) = u
        BY <1>1, <2>1, ClosesFirst
    <2>3. w = a \o d
        <3>1. (a \o u) \o Closes = a \o (u \o Closes)
            BY <1>1, <1>3, <1>8, BytesAssociate
        <3> QED
            BY <3>1, Zenon DEF w, b
    <2> HIDE DEF d, w
    <2>4. w \o rest = a \o after
        <3>1. (a \o d) \o rest = a \o (d \o rest)
            BY <1>8, <2>1, BytesAssociate
        <3> QED
            BY <2>3, <3>1, Zenon
    <2> HIDE DEF after
    <2>5. after \in Bytes
        BY <2>2 DEF Bytes
    <2>6. EventIn(m, a \o after) =
              Taken(CsiEvent(m, p, final, after).event, Len(p) + 3 + CsiEvent(m, p, final, after).length)
        BY <1>2, <1>4, <2>5, CsiIs DEF a, c
    <2>7. CsiEvent(m, p, final, after) = Taken(PasteEvent(u), Len(u) + 6)
        BY <1>1, <2>2, PasteGives DEF p, n, final
    <2>8. /\ Taken(PasteEvent(u), Len(u) + 6).event = PasteEvent(u)
          /\ Taken(PasteEvent(u), Len(u) + 6).length = Len(u) + 6
        BY DEF Taken
    <2> QED
        BY <1>10, <2>4, <2>6, <2>7, <2>8, Zenon
<1>12. Reads(m, w, <<PasteEvent(u)>>)
    <2> DEFINE event == PasteEvent(u)
    <2>1. w \in Bytes /\ w # <<>>
        BY <1>10 DEF Bytes
    <2> HIDE DEF w, event
    <2>2. \A rest \in Bytes : EventIn(m, w \o rest) = Taken(event, Len(w))
        BY <1>11, Zenon DEF event
    <2>3. Reads(m, w, <<event>>)
        BY <2>1, <2>2, ReadsOne
    <2> QED
        BY <2>3 DEF event
<1> QED
    BY <1>3, <1>5, <1>12, Zenon DEF w, b, u

-----------------------------------------------------------------------------
(* Pastes are told. *)

(* What is kept without markers are characters of the text. *)
CharStep == [p \in Seq(Char) \X Char |-> UnmarkStep[p]]

(* Unmarking works on characters as it does on bytes. *)
LEMMA CharStepType ==
    /\ CharStep \in [Seq(Char) \X Char -> Seq(Char)]
    /\ \A acc \in Seq(Char), c \in Char : CharStep[<<acc, c>>] = UnmarkStep[<<acc, c>>]
<1>1. ASSUME NEW acc \in Seq(Char), NEW c \in Char
      PROVE  CharStep[<<acc, c>>] = UnmarkStep[<<acc, c>>] /\ UnmarkStep[<<acc, c>>] \in Seq(Char)
    <2> DEFINE next == Append(acc, c)
    <2>1. CharStep[<<acc, c>>] = UnmarkStep[<<acc, c>>]
        <3>1. <<acc, c>> \in Seq(Char) \X Char
            OBVIOUS
        <3> QED
            BY <3>1 DEF CharStep
    <2>2. acc \in Bytes /\ c \in Nat
        BY CharsAreBytes DEF Char
    <2>3. UnmarkStep[<<acc, c>>] = IF Len(next) >= 6 /\ SubSeq(next, Len(next) - 5, Len(next)) \in Markers
                                   THEN SubSeq(next, 1, Len(next) - 6) ELSE next
        BY <2>2, UnmarkStepType, Zenon
    <2>4. next \in Seq(Char)
        OBVIOUS
    <2> HIDE DEF next
    <2>5. Len(next) >= 6 => SubSeq(next, 1, Len(next) - 6) \in Seq(Char)
        BY <2>4
    <2>6. UnmarkStep[<<acc, c>>] \in Seq(Char)
        BY <2>3, <2>4, <2>5, Zenon
    <2> QED
        BY <2>1, <2>6
<1>2. \A p \in Seq(Char) \X Char : CharStep[p] \in Seq(Char)
    <2> TAKE p \in Seq(Char) \X Char
    <2> DEFINE a == p[1]
               b == p[2]
    <2>1. a \in Seq(Char) /\ b \in Char /\ p = <<a, b>>
        OBVIOUS
    <2> HIDE DEF a, b
    <2> QED
        BY <1>1, <2>1, Zenon
<1>3. CharStep = [p \in Seq(Char) \X Char |-> CharStep[p]]
    BY DEF CharStep
<1> QED
    BY <1>1, <1>2, <1>3

(* Text without markers is text. *)
LEMMA UnmarkedType ==
    ASSUME NEW t \in Seq(Char)
    PROVE  Unmarked(t) \in Seq(Char)
<1> DEFINE none == <<>>
           f == Following(none, UnmarkStep, t)
           V == Seq(Char)
<1>1. Unmarked(t) = f[Len(t)]
    BY UnmarkedIs, CharsAreBytes, Zenon DEF Unmarking, Folding
<1>2. none \in V /\ Len(t) \in Nat /\ Len(t) \in 0 .. Len(t) /\ \A n \in 1 .. Len(t) : t[n] \in Char
    OBVIOUS
<1>3. Follows(f, none, UnmarkStep, t)
    BY FollowingIs
<1> HIDE DEF none, f
<1>4. Keeps(f, V, none, CharStep, t)
    <2>1. ASSUME NEW n \in 1 .. Len(t), f[n - 1] \in V
          PROVE  f[n] = CharStep[<<f[n - 1], t[n]>>]
        <3>1. f[n] = UnmarkStep[<<f[n - 1], t[n]>>]
            BY <1>3, Zenon DEF Follows
        <3>2. t[n] \in Char
            BY <1>2
        <3> QED
            BY <2>1, <3>1, <3>2, CharStepType, Zenon
    <2>2. f[0] = none
        BY <1>3, Zenon DEF Follows
    <2> QED
        BY <2>1, <2>2, Zenon DEF Keeps
<1>5. \A n \in 0 .. Len(t) : f[n] \in V
    <2>1. CharStep \in [V \X Char -> V]
        BY CharStepType
    <2> HIDE DEF V
    <2> QED
        BY <1>2, <1>4, <2>1, FoldingKeeps
<1> QED
    BY <1>1, <1>2, <1>5

(* What is pasted (paste) is told as one paste of the text, whatever it contains,
   if the application asked for brackets; without them it is told key by key, if
   there is no Esc in it. *)
THEOREM PasteUnderstood ==
    ASSUME NEW m \in AllModes, NEW text \in Seq(Char), m.paste \/ text \in Seq(Char \ {27})
    PROVE  Understood(m, Paste(m, text), PasteMeans(m, text))
<1> DEFINE broken == Broken(text)
           folded == Folded(text)
           kept == Unmarked(folded)
           w == (PasteStart \o Utf8(kept)) \o PasteEnd
           event == PasteEvent(Utf8(kept))
<1>1. CR \in Char /\ CR \in Char \ {27}
    BY DEF CR, Char
<1>2. folded \in Seq(Char) /\ text \in Bytes
    BY <1>1, FoldsType, CharsAreBytes
<1>3. broken = folded
    BY <1>2, FoldedIsBroken
<1>4. Paste(m, text) =
          IF m.paste THEN {(PasteStart \o Utf8(StripPasteMarkers(broken))) \o PasteEnd} ELSE SendStr(broken)
    BY Zenon DEF Paste, Broken
<1>5. PasteMeans(m, text) = IF m.paste THEN <<event>> ELSE Typed(folded)
    BY Zenon DEF PasteMeans
<1> HIDE DEF broken
<1>6. CASE m.paste
    <2>1. folded \in Bytes
        BY <1>2, CharsAreBytes
    <2>2. StripPasteMarkers(folded) = kept /\ \A mk \in Markers : FreeOf(mk, StripPasteMarkers(folded))
        <3> HIDE DEF folded
        <3> QED
            BY <2>1, StripIsUnmarked
    <2>3. kept \in Seq(Char)
        <3> HIDE DEF folded
        <3> QED
            BY <1>2, UnmarkedType
    <2>4. FreeOf(Closes, kept)
        <3>1. Closes \in Markers
            BY MarkersAre
        <3> QED
            BY <2>2, <3>1, Zenon
    <2>5. Reads(m, w, <<event>>)
        <3> HIDE DEF kept
        <3> QED
            BY <1>6, <2>3, <2>4, PasteReads
    <2>6. Paste(m, text) = {w} /\ PasteMeans(m, text) = <<event>>
        BY <1>3, <1>4, <1>5, <1>6, <2>2, Zenon
    <2>7. Says(m, w, <<event>>)
        <3> HIDE DEF w, event
        <3> QED
            BY <2>5, ReadsSay
    <2> QED
        BY <2>6, <2>7, Zenon DEF Understood
<1>7. CASE ~m.paste
    <2>1. text \in Seq(Char \ {27})
        BY <1>7
    <2>2. folded \in Seq(Char \ {27})
        <3> DEFINE V == Char \ {27}
        <3>1. CR \in V /\ text \in Seq(V)
            BY <1>1, <2>1
        <3> HIDE DEF V
        <3>2. folded \in Seq(V)
            BY <3>1, FoldsType
        <3> QED
            BY <3>2 DEF V
    <2>3. Understood(m, SendStr(folded), Typed(folded))
        <3> HIDE DEF folded
        <3> QED
            BY <2>2, TextUnderstood
    <2> QED
        BY <1>3, <1>4, <1>5, <1>7, <2>3, Zenon
<1> QED
    BY <1>6, <1>7, Zenon

-----------------------------------------------------------------------------
(* What is written and not yet read. *)

(* A set of one or none, as a sequence. *)
LEMMA SetToSeqOne == SetToSeq({}) = <<>> /\ \A w : SetToSeq({w}) = <<w>>
<1>1. SetToSeq({}) = <<>>
    <2> DEFINE f == SetToSeq({})
    <2>1. Cardinality({}) = 0
        BY FS_EmptySet
    <2>2. <<>> \in [1 .. 0 -> {}] /\ IsInjective(<<>>)
        BY DEF IsInjective
    <2>3. f = CHOOSE g \in [1 .. 0 -> {}] : IsInjective(g)
        BY <2>1 DEF SetToSeq
    <2>4. f \in [1 .. 0 -> {}]
        BY <2>2, <2>3, Zenon
    <2> HIDE DEF f
    <2>5. f = <<>>
        BY <2>4
    <2> QED
        BY <2>5 DEF f
<1>2. ASSUME NEW w
      PROVE  SetToSeq({w}) = <<w>>
    <2> DEFINE f == SetToSeq({w})
    <2>1. Cardinality({w}) = 1
        BY FS_Singleton
    <2>2. <<w>> \in [1 .. 1 -> {w}] /\ IsInjective(<<w>>)
        BY DEF IsInjective
    <2>3. f = CHOOSE g \in [1 .. 1 -> {w}] : IsInjective(g)
        BY <2>1 DEF SetToSeq
    <2>4. f \in [1 .. 1 -> {w}]
        BY <2>2, <2>3, Zenon
    <2> HIDE DEF f
    <2>5. f \in Seq({w}) /\ Len(f) = 1 /\ f[1] = w
        <3>1. DOMAIN f = 1 .. 1 /\ f[1] = w
            BY <2>4
        <3>2. f = [i \in 1 .. 1 |-> f[i]]
            BY <2>4
        <3>3. \A i \in 1 .. 1 : f[i] \in {w}
            BY <2>4
        <3>4. f \in Seq({w})
            BY <3>2, <3>3
        <3>5. Len(f) = 1
            BY <3>1, <3>4
        <3> QED
            BY <3>1, <3>4, <3>5
    <2>6. <<w>> \in Seq({w}) /\ Len(<<w>>) = 1 /\ <<w>>[1] = w
        OBVIOUS
    <2> DEFINE g == <<w>>
    <2>7. f \in Seq({w}) /\ g \in Seq({w}) /\ Len(f) = Len(g) /\ \A i \in 1 .. Len(f) : f[i] = g[i]
        BY <2>5, <2>6
    <2> HIDE DEF g
    <2>8. f = g
        BY <2>7, SeqEqual
    <2> QED
        BY <2>8 DEF f, g
<1> QED
    BY <1>1, <1>2

(* What the application will take for what is written, one after the other. *)
Hears(m, ws) == [i \in DOMAIN ws |-> EventsIn(m, ws[i])]
Hearing(m, ws) == FlattenSeq(Hears(m, ws))

(* What the application hears of what was written, write by write. *)
LEMMA HearsType ==
    ASSUME NEW m, NEW ws \in Seq(Bytes)
    PROVE  /\ Hears(m, ws) \in Seq(Seq(Events(m))) /\ Len(Hears(m, ws)) = Len(ws)
           /\ \A i \in 1 .. Len(ws) : Hears(m, ws)[i] = EventsIn(m, ws[i])
           /\ Hearing(m, ws) \in Seq(Events(m))
<1>1. DOMAIN ws = 1 .. Len(ws) /\ Len(ws) \in Nat /\ \A i \in 1 .. Len(ws) : ws[i] \in Bytes
    BY ElementOfSeq
<1>2. \A i \in 1 .. Len(ws) : EventsIn(m, ws[i]) \in Seq(Events(m))
    BY <1>1, EventsNext
<1>3. /\ Hears(m, ws) \in Seq(Seq(Events(m))) /\ Len(Hears(m, ws)) = Len(ws)
      /\ \A i \in 1 .. Len(ws) : Hears(m, ws)[i] = EventsIn(m, ws[i])
    BY <1>1, <1>2 DEF Hears
<1>4. Hearing(m, ws) \in Seq(Events(m))
    BY <1>3, FlattenJoins DEF Hearing
<1> QED
    BY <1>3, <1>4

HearsBoth(m, ws, vs) == Hearing(m, ws \o vs) = Hearing(m, ws) \o Hearing(m, vs)

(* It hears what was written before and then what was written after. *)
LEMMA HearingJoins ==
    ASSUME NEW m, NEW ws \in Seq(Bytes), NEW vs \in Seq(Bytes)
    PROVE  HearsBoth(m, ws, vs)
<1> DEFINE us == ws \o vs
           a == Hears(m, ws)
           b == Hears(m, vs)
           c == Hears(m, us)
           d == a \o b
           V == Seq(Events(m))
           N == Len(ws)
           M == Len(vs)
<1>1. /\ us \in Seq(Bytes) /\ Len(us) = Len(ws) + Len(vs)
      /\ \A i \in 1 .. Len(ws) : us[i] = ws[i]
      /\ \A i \in 1 .. Len(vs) : us[Len(ws) + i] = vs[i]
    BY Begins
<1>2. a \in Seq(V) /\ Len(a) = N /\ \A i \in 1 .. N : a[i] = EventsIn(m, ws[i])
    BY HearsType
<1>3. b \in Seq(V) /\ Len(b) = M /\ \A i \in 1 .. M : b[i] = EventsIn(m, vs[i])
    BY HearsType
<1> HIDE DEF us
<1>4. c \in Seq(V) /\ Len(c) = Len(us) /\ \A i \in 1 .. Len(us) : c[i] = EventsIn(m, us[i])
    BY <1>1, HearsType
<1>5. N \in Nat /\ M \in Nat /\ Len(us) = N + M
    BY <1>1
<1>6. FlattenSeq(a \o b) = FlattenSeq(a) \o FlattenSeq(b)
    <2> DEFINE E == Events(m)
    <2>1. a \in Seq(Seq(E)) /\ b \in Seq(Seq(E))
        BY <1>2, <1>3
    <2> HIDE DEF a, b, E
    <2> QED
        BY <2>1, FlattenBoth
<1> HIDE DEF a, b, c, V
<1>7. /\ d \in Seq(V) /\ Len(d) = Len(a) + Len(b)
      /\ \A i \in 1 .. Len(a) : d[i] = a[i]
      /\ \A i \in 1 .. Len(b) : d[Len(a) + i] = b[i]
    <2>1. a \in Seq(V) /\ b \in Seq(V)
        BY <1>2, <1>3
    <2> QED
        BY <2>1, Begins
<1> HIDE DEF d
<1>7a. /\ \A i \in 1 .. N : us[i] = ws[i] /\ d[i] = a[i]
       /\ \A i \in 1 .. M : us[N + i] = vs[i] /\ d[N + i] = b[i]
    BY <1>1, <1>2, <1>3, <1>7
<1> HIDE DEF N, M
<1>8. \A i \in 1 .. Len(c) : c[i] = d[i]
    <2> TAKE i \in 1 .. Len(c)
    <2>1. i \in 1 .. N + M /\ c[i] = EventsIn(m, us[i])
        BY <1>4, <1>5
    <2>2. CASE i <= N
        <3>1. i \in 1 .. N
            BY <1>5, <2>1, <2>2
        <3>2. us[i] = ws[i] /\ d[i] = a[i] /\ a[i] = EventsIn(m, ws[i])
            BY <1>2, <1>7a, <3>1
        <3> QED
            BY <2>1, <3>2, Zenon
    <2>3. CASE ~ (i <= N)
        <3> DEFINE k == i - N
        <3>1. k \in 1 .. M /\ N + k = i
            BY <1>5, <2>1, <2>3
        <3> HIDE DEF k
        <3>2. us[N + k] = vs[k] /\ d[N + k] = b[k] /\ b[k] = EventsIn(m, vs[k])
            BY <1>3, <1>7a, <3>1
        <3> QED
            BY <2>1, <3>1, <3>2, Zenon
    <2> QED
        BY <2>2, <2>3
<1>9. c = d
    <2>1. c \in Seq(V) /\ d \in Seq(V) /\ Len(c) = Len(d)
        BY <1>2, <1>3, <1>4, <1>5, <1>7
    <2> QED
        BY <1>8, <2>1, SeqEqual
<1> QED
    BY <1>6, <1>9, Zenon DEF HearsBoth, Hearing, us, a, b, c, d

(* It hears of one write what is read in it. *)
LEMMA HearingOne ==
    ASSUME NEW m
    PROVE  Hearing(m, <<>>) = <<>> /\ \A w \in Bytes : Hearing(m, <<w>>) = EventsIn(m, w)
<1>1. Hearing(m, <<>>) = <<>>
    <2>1. Hears(m, <<>>) = <<>>
        BY DEF Hears
    <2> QED
        BY <2>1, FlattenNext DEF Hearing
<1>2. ASSUME NEW w \in Bytes
      PROVE  Hearing(m, <<w>>) = EventsIn(m, w)
    <2> DEFINE ws == <<w>>
               e == EventsIn(m, w)
               E == Events(m)
               es == <<e>>
               h == Hears(m, ws)
    <2>1. ws \in Seq(Bytes) /\ Len(ws) = 1 /\ ws[1] = w
        OBVIOUS
    <2>2. e \in Seq(E)
        BY EventsNext
    <2> HIDE DEF e, E
    <2>3. es \in Seq(Seq(E)) /\ Len(es) = 1 /\ es[1] = e
        BY <2>2
    <2> HIDE DEF ws, es
    <2>4. h \in Seq(Seq(E)) /\ Len(h) = 1 /\ h[1] = e
        BY <2>1, HearsType DEF e, E
    <2> HIDE DEF h
    <2>5. h \in Seq(Seq(E)) /\ es \in Seq(Seq(E)) /\ Len(h) = Len(es) /\ \A i \in 1 .. Len(h) : h[i] = es[i]
        BY <2>3, <2>4
    <2> DEFINE V == Seq(E)
    <2> HIDE DEF V
    <2>6. h = es
        BY <2>5, SeqEqual DEF V
    <2>7. FlattenSeq(es) = e
        BY <2>2, FlattenNext DEF es
    <2> QED
        BY <2>6, <2>7, Zenon DEF Hearing, h, ws, e
<1> QED
    BY <1>1, <1>2

(* A read of the first write. *)
LEMMA HearsFirst ==
    ASSUME NEW m, NEW ws \in Seq(Bytes), ws # <<>>
    PROVE  /\ Hearing(m, ws) = EventsIn(m, FlattenSeq(SubSeq(ws, 1, 1))) \o Hearing(m, Onward(ws, 1))
           /\ Onward(ws, 1) \in Seq(Bytes) /\ Len(Onward(ws, 1)) = Len(ws) - 1
           /\ \A i \in 1 .. Len(ws) - 1 : Onward(ws, 1)[i] = ws[1 + i]
<1> DEFINE w == ws[1]
           one == <<w>>
           rest == Onward(ws, 1)
<1>1. Unfolds(Bytes, ws)
    BY FirstAndRest
<1>2. w \in Bytes /\ rest \in Seq(Bytes) /\ Len(rest) = Len(ws) - 1 /\ ws = one \o rest
    BY <1>1, Zenon DEF Unfolds
<1>3. Len(ws) \in Nat \ {0}
    OBVIOUS
<1>4. \A i \in 1 .. Len(ws) - 1 : rest[i] = ws[1 + i]
    <2>1. 1 \in 0 .. Len(ws)
        BY <1>3
    <2>2. EndsIn(ws, 1, rest)
        BY <2>1, OnwardProperties
    <2> HIDE DEF rest
    <2> QED
        BY <1>2, <2>2 DEF EndsIn
<1>5. SubSeq(ws, 1, 1) = one
    <2> DEFINE s == SubSeq(ws, 1, 1)
    <2>1. s \in Seq(Bytes) /\ Len(s) = 1 /\ s[1] = w
        BY <1>3
    <2>2. one \in Seq(Bytes) /\ Len(one) = 1 /\ one[1] = w
        BY <1>2
    <2> HIDE DEF s, one, w
    <2>3. s \in Seq(Bytes) /\ one \in Seq(Bytes) /\ Len(s) = Len(one) /\ \A i \in 1 .. Len(s) : s[i] = one[i]
        BY <2>1, <2>2
    <2>4. s = one
        BY <2>3, SeqEqual
    <2> QED
        BY <2>4 DEF s
<1> HIDE DEF w, rest
<1>6. FlattenSeq(one) = w
    <2>1. w \in Seq(Nat)
        BY <1>2 DEF Bytes
    <2> QED
        BY <2>1, FlattenNext
<1>7. one \in Seq(Bytes)
    BY <1>2
<1>8. Hearing(m, one) = EventsIn(m, w)
    BY <1>2, HearingOne
<1> HIDE DEF one
<1>9. HearsBoth(m, one, rest)
    BY <1>2, <1>7, HearingJoins
<1>10. Hearing(m, one \o rest) = EventsIn(m, w) \o Hearing(m, rest)
    BY <1>8, <1>9, Zenon DEF HearsBoth
<1>11. Hearing(m, ws) = EventsIn(m, FlattenSeq(SubSeq(ws, 1, 1))) \o Hearing(m, rest)
    BY <1>2, <1>5, <1>6, <1>10, Zenon
<1> QED
    BY <1>2, <1>4, <1>11, Zenon DEF rest

(* A read of all writes, of which the last at most may be cut off. *)
LEMMA HearsAll ==
    ASSUME NEW m, NEW ws \in Seq(Bytes), ws # <<>>,
           \A i \in 1 .. Len(ws) : Item(m, ws[i]), \A i \in 1 .. Len(ws) - 1 : ws[i] \notin Beginnings
    PROVE  EventsIn(m, FlattenSeq(ws)) = Hearing(m, ws)
<1> DEFINE n == Len(ws) - 1
           s == SubSeq(ws, 1, n)
           w == ws[Len(ws)]
           es == Hears(m, s)
           u == FlattenSeq(s)
<1>1. Len(ws) \in Nat \ {0} /\ n \in Nat /\ n + 1 = Len(ws)
    OBVIOUS
<1>2. s \in Seq(Bytes) /\ Len(s) = n /\ \A i \in 1 .. n : s[i] = ws[i]
    BY <1>1
<1>3. w \in Bytes
    BY <1>1
<1>4. ws = Append(s, w)
    BY <1>1
<1> HIDE DEF s, n
<1>5. \A i \in 1 .. Len(s) : Reads(m, s[i], es[i])
    <2> TAKE i \in 1 .. Len(s)
    <2>1. i \in 1 .. n /\ i \in 1 .. Len(ws) /\ i \in 1 .. Len(ws) - 1
        BY <1>1, <1>2 DEF n
    <2>2. Reads(m, ws[i], EventsIn(m, ws[i]))
        BY <2>1, Zenon DEF Item
    <2>3. es[i] = EventsIn(m, s[i])
        BY <1>2, HearsType
    <2> QED
        BY <1>2, <2>1, <2>2, <2>3, Zenon
<1>6. es \in Seq(Seq(Events(m))) /\ Len(es) = Len(s)
    BY <1>2, HearsType
<1> HIDE DEF es
<1>7. Reads(m, u, FlattenSeq(es))
    BY <1>2, <1>5, <1>6, ReadsAll
<1>8. EventsIn(m, u \o w) = FlattenSeq(es) \o EventsIn(m, w)
    BY <1>3, <1>7, Zenon DEF Reads
<1>9. FlattenSeq(Append(s, w)) = u \o w
    <2>1. s \in Seq(Seq(Nat)) /\ w \in Seq(Nat)
        BY <1>2, <1>3 DEF Bytes
    <2> HIDE DEF w
    <2> QED
        BY <2>1, FlattenNext
<1> DEFINE one == <<w>>
<1>10. one \in Seq(Bytes) /\ Append(s, w) = s \o one
    BY <1>2, <1>3
<1>11. Hearing(m, one) = EventsIn(m, w)
    BY <1>3, HearingOne
<1> HIDE DEF w, one, u
<1>12. HearsBoth(m, s, one)
    BY <1>2, <1>10, HearingJoins
<1> QED
    BY <1>4, <1>8, <1>9, <1>10, <1>11, <1>12, Zenon DEF HearsBoth, Hearing, es

(* Everything an application may take something for. *)
AllEvents == UNION {Events(m) : m \in AllModes}

(* What is written and not read is what is missing of what was meant. *)
Pending(m, ws, had, said) ==
    /\ ws \in Seq(Bytes) /\ \A i \in 1 .. Len(ws) : Item(m, ws[i])
    /\ had \in Seq(AllEvents) /\ said \in Seq(AllEvents)
    /\ said = had \o Hearing(m, ws)

(* The events under some modes are events. *)
LEMMA EventsAreEvents ==
    ASSUME NEW m \in AllModes
    PROVE  \A q \in Seq(Events(m)) : q \in Seq(AllEvents)
<1>1. Events(m) \subseteq AllEvents
    BY DEF AllEvents
<1> QED
    BY <1>1

(* Nothing is pending, whatever the modes. *)
LEMMA PendingNone ==
    ASSUME NEW m, NEW n, NEW had, NEW said, Pending(m, <<>>, had, said)
    PROVE  Pending(n, <<>>, had, said)
<1>1. Hearing(m, <<>>) = Hearing(n, <<>>)
    BY HearingOne
<1>2. <<>> \in Seq(Bytes) /\ \A i \in 1 .. Len(<<>>) : Item(n, <<>>[i])
    OBVIOUS
<1> QED
    BY <1>1, <1>2 DEF Pending

(* Something is written. *)
LEMMA PendingMore ==
    ASSUME NEW m \in AllModes, NEW ws, NEW had, NEW said, Pending(m, ws, had, said),
           NEW bytes, NEW meaning, Understood(m, bytes, meaning)
    PROVE  Pending(m, ws \o SetToSeq(bytes), had, said \o meaning)
<1>1. /\ ws \in Seq(Bytes) /\ \A i \in 1 .. Len(ws) : Item(m, ws[i])
      /\ had \in Seq(AllEvents) /\ said \in Seq(AllEvents)
      /\ said = had \o Hearing(m, ws)
    BY Zenon DEF Pending
<1>2. CASE bytes = {} /\ meaning = <<>>
    <2>1. SetToSeq(bytes) = <<>>
        BY <1>2, SetToSeqOne
    <2>2. ws \o <<>> = ws /\ said \o <<>> = said
        BY <1>1
    <2> QED
        BY <1>2, <2>1, <2>2, Zenon
<1>3. CASE \E w : bytes = {w} /\ Says(m, w, meaning)
    <2>1. PICK w : bytes = {w} /\ Says(m, w, meaning)
        BY <1>3
    <2>2. w \in Bytes /\ EventsIn(m, w) = meaning /\ Item(m, w)
        BY <2>1, Zenon DEF Says
    <2> DEFINE one == <<w>>
               us == ws \o one
               h == Hearing(m, ws)
    <2>3. SetToSeq(bytes) = one
        BY <2>1, SetToSeqOne
    <2>4. one \in Seq(Bytes) /\ Len(one) = 1 /\ one[1] = w
        BY <2>2
    <2>5. Hearing(m, one) = meaning
        BY <2>2, HearingOne
    <2> HIDE DEF one
    <2>6. us \in Seq(Bytes) /\ Len(us) = Len(ws) + 1 /\ us[Len(ws) + 1] = w
          /\ \A i \in 1 .. Len(ws) : us[i] = ws[i]
        <3>1. /\ ws \o one \in Seq(Bytes) /\ Len(ws \o one) = Len(ws) + Len(one)
              /\ \A i \in 1 .. Len(ws) : (ws \o one)[i] = ws[i]
              /\ \A i \in 1 .. Len(one) : (ws \o one)[Len(ws) + i] = one[i]
            <4>1. ws \in Seq(Bytes) /\ one \in Seq(Bytes)
                BY <1>1, <2>4
            <4> QED
                BY <4>1, Begins
        <3>2. 1 \in 1 .. Len(one)
            BY <2>4
        <3> QED
            BY <2>4, <3>1, <3>2
    <2>7. HearsBoth(m, ws, one)
        BY <1>1, <2>4, HearingJoins
    <2>8. Hearing(m, us) = h \o meaning
        BY <2>5, <2>7, Zenon DEF HearsBoth
    <2>9. h \in Seq(Events(m)) /\ meaning \in Seq(Events(m))
        BY <1>1, <2>2, HearsType, EventsNext
    <2>10. h \in Seq(AllEvents) /\ meaning \in Seq(AllEvents)
        BY <2>9, EventsAreEvents
    <2>11. Len(ws) \in Nat
        BY <1>1
    <2> HIDE DEF us
    <2>12. \A i \in 1 .. Len(us) : Item(m, us[i])
        <3> TAKE i \in 1 .. Len(us)
        <3>1. i \in 1 .. Len(ws) \/ i = Len(ws) + 1
            BY <2>6, <2>11
        <3> QED
            BY <1>1, <2>2, <2>6, <3>1
    <2> HIDE DEF h
    <2>13. said \o meaning = had \o (h \o meaning) /\ said \o meaning \in Seq(AllEvents)
        <3>1. said = had \o h
            BY <1>1 DEF h
        <3>2. (had \o h) \o meaning = had \o (h \o meaning)
            BY <1>1, <2>10, Associates
        <3> QED
            BY <1>1, <2>10, <3>1, <3>2
    <2> QED
        BY <1>1, <2>3, <2>6, <2>8, <2>12, <2>13, Zenon DEF Pending, us
<1> QED
    BY <1>2, <1>3, Zenon DEF Understood

(* One write is read, or all of them and none but the last may be cut off. *)
LEMMA PendingLess ==
    ASSUME NEW m \in AllModes, NEW ws, NEW had, NEW said, Pending(m, ws, had, said), ws # <<>>,
           NEW n \in {1, Len(ws)}, \A i \in 1 .. n - 1 : ws[i] \notin Beginnings
    PROVE  Pending(m, SubSeq(ws, n + 1, Len(ws)), had \o EventsIn(m, FlattenSeq(SubSeq(ws, 1, n))), said)
<1> DEFINE rest == SubSeq(ws, n + 1, Len(ws))
           got == EventsIn(m, FlattenSeq(SubSeq(ws, 1, n)))
<1>1. /\ ws \in Seq(Bytes) /\ \A i \in 1 .. Len(ws) : Item(m, ws[i])
      /\ had \in Seq(AllEvents) /\ said \in Seq(AllEvents)
      /\ said = had \o Hearing(m, ws)
    BY Zenon DEF Pending
<1>2. rest \in Seq(Bytes) /\ \A i \in 1 .. Len(rest) : Item(m, rest[i])
    <2>1. CASE n = 1
        <3>1. /\ Onward(ws, 1) \in Seq(Bytes) /\ Len(Onward(ws, 1)) = Len(ws) - 1
              /\ \A i \in 1 .. Len(ws) - 1 : Onward(ws, 1)[i] = ws[1 + i]
            BY <1>1, HearsFirst
        <3>2. rest = Onward(ws, 1)
            BY <2>1 DEF Onward
        <3>3. Len(ws) \in Nat /\ \A i \in 1 .. Len(ws) - 1 : 1 + i \in 1 .. Len(ws)
            BY <1>1
        <3> HIDE DEF rest
        <3> QED
            BY <1>1, <3>1, <3>2, <3>3
    <2>2. CASE n = Len(ws)
        <3>1. rest = <<>>
            BY <1>1, <2>2
        <3>2. <<>> \in Seq(Bytes) /\ 1 .. Len(<<>>) = {}
            OBVIOUS
        <3> HIDE DEF rest
        <3> QED
            BY <3>1, <3>2
    <2> QED
        BY <2>1, <2>2
<1>3. Hearing(m, ws) = got \o Hearing(m, rest)
    <2>1. CASE n = 1
        <3>1. Hearing(m, ws) = EventsIn(m, FlattenSeq(SubSeq(ws, 1, 1))) \o Hearing(m, Onward(ws, 1))
            BY <1>1, HearsFirst
        <3>2. rest = Onward(ws, 1)
            BY <2>1 DEF Onward
        <3> QED
            BY <2>1, <3>1, <3>2, Zenon
    <2>2. CASE n = Len(ws)
        <3>1. SubSeq(ws, 1, n) = ws /\ rest = <<>>
            BY <1>1, <2>2
        <3>2. \A i \in 1 .. Len(ws) - 1 : ws[i] \notin Beginnings
            BY <2>2
        <3>3. EventsIn(m, FlattenSeq(ws)) = Hearing(m, ws)
            BY <1>1, <3>2, HearsAll
        <3>4. Hearing(m, rest) = <<>>
            BY <3>1, HearingOne
        <3>5. Hearing(m, ws) \in Seq(Events(m))
            BY <1>1, HearsType
        <3>6. got = Hearing(m, ws)
            BY <3>1, <3>3, Zenon
        <3> HIDE DEF got, rest
        <3>7. got \o <<>> = got
            BY <3>5, <3>6
        <3> QED
            BY <3>4, <3>6, <3>7, Zenon
    <2> QED
        BY <2>1, <2>2
<1>4. got \in Seq(AllEvents)
    <2>1. FlattenSeq(SubSeq(ws, 1, n)) \in Bytes
        <3>1. Len(ws) \in Nat \ {0} /\ SubSeq(ws, 1, n) \in Seq(Bytes)
            BY <1>1
        <3>2. SubSeq(ws, 1, n) \in Seq(Seq(Nat))
            BY <3>1 DEF Bytes
        <3> QED
            BY <3>2, FlattenNext DEF Bytes
    <2>2. got \in Seq(Events(m))
        BY <2>1, EventsNext
    <2> HIDE DEF got
    <2> QED
        BY <2>2, EventsAreEvents
<1> HIDE DEF rest, got
<1> DEFINE h == Hearing(m, rest)
<1>5. h \in Seq(AllEvents)
    <2>1. h \in Seq(Events(m))
        BY <1>2, HearsType
    <2> HIDE DEF h
    <2> QED
        BY <2>1, EventsAreEvents
<1>6. said = (had \o got) \o h /\ had \o got \in Seq(AllEvents)
    <2>1. said = had \o (got \o h)
        BY <1>1, <1>3
    <2> HIDE DEF h
    <2>2. (had \o got) \o h = had \o (got \o h)
        <3>1. \A s, t, u \in Seq(AllEvents) : (s \o t) \o u = s \o (t \o u)
            BY Associates
        <3> QED
            BY <1>1, <1>4, <1>5, <3>1, ZenonT(40)
    <2> QED
        BY <1>1, <1>4, <2>1, <2>2
<1> QED
    BY <1>1, <1>2, <1>6, Zenon DEF Pending, rest, got

-----------------------------------------------------------------------------
(* Screens and masks. *)

(* Cells, rows and screens are what they are made of. *)
LEMMA CellIs ==
    ASSUME NEW text \in Text, NEW style, NEW wide, NEW tail
    PROVE  IsCell(Cell(text, style, wide, tail))
<1>1. DOMAIN Cell(text, style, wide, tail) = {"text", "style", "wide", "tail"} /\ Cell(text, style, wide, tail).text = text
    BY DEF Cell
<1>2. DOMAIN ErasedCell = {"text", "style", "wide", "tail"}
    BY DEF ErasedCell, Cell
<1> QED
    BY <1>1, <1>2, Zenon DEF IsCell

(* A sequence of one. *)
LEMMA OneOf ==
    ASSUME NEW V, NEW a \in V
    PROVE  <<a>> \in Seq(V)
OBVIOUS

(* The empty text, the fill and the erased cell. *)
LEMMA NoText == <<>> \in Text /\ <<Fill>> \in Text /\ IsCell(ErasedCell)
<1>1. <<>> \in Text
    BY DEF Text
<1>2. <<Fill>> \in Text
    <2>1. Fill \in STRING
        BY WordsAssumption
    <2> QED
        BY <2>1, OneOf, Zenon DEF Text
<1> QED
    BY <1>1, <1>2, CellIs, Zenon DEF ErasedCell

(* A row is a function of its columns to cells. *)
LEMMA RowIs ==
    ASSUME NEW n, NEW f, DOMAIN f = 1 .. n, f = [c \in 1 .. n |-> f[c]], \A c \in 1 .. n : IsCell(f[c])
    PROVE  IsRow(f, n)
BY Zenon DEF IsRow, HasLength

(* A screen with other cells. *)
LEMMA OtherCells ==
    ASSUME NEW s, IsScreen(s), NEW cells, cells = [r \in 1 .. s.rows |-> cells[r]],
           \A r \in 1 .. s.rows : IsRow(cells[r], s.cols)
    PROVE  IsScreen([s EXCEPT !.cells = cells])
<1> DEFINE t == [s EXCEPT !.cells = cells]
<1>1. DOMAIN s = ScreenFields /\ s.cols \in Narrow /\ s.rows \in Narrow
    BY Zenon DEF IsScreen
<1>2. "cols" \in ScreenFields /\ "rows" \in ScreenFields /\ "cells" \in ScreenFields
    BY DEF ScreenFields
<1>3. DOMAIN t = ScreenFields /\ t.cols = s.cols /\ t.rows = s.rows /\ t.cells = cells
    BY <1>1, <1>2
<1> HIDE DEF t
<1>4. HasLength(cells, s.rows)
    BY Zenon DEF HasLength
<1>5. IsScreen(t)
    BY <1>1, <1>3, <1>4, Zenon DEF IsScreen
<1> QED
    BY <1>5 DEF t

(* The rows and cells of a screen. *)
LEMMA CellOf ==
    ASSUME NEW s, IsScreen(s), NEW r \in 1 .. s.rows
    PROVE  IsRow(s.cells[r], s.cols) /\ (\A c \in 1 .. s.cols : IsCell(s.cells[r][c]))
BY Zenon DEF IsScreen, IsRow

(* A mask leaves a screen. *)
LEMMA MaskType ==
    ASSUME NEW s, IsScreen(s), NEW hits, NEW fill \in Text
    PROVE  IsScreen(ApplyMask(s, hits, fill))
<1> DEFINE masked == WithHalves(s, hits)
           X(r, c) == IF <<r - 1, c - 1>> \in masked
                      THEN Cell(fill, CellAt(s, r - 1, c - 1).style, FALSE, FALSE)
                      ELSE CellAt(s, r - 1, c - 1)
           row == [r \in 1 .. s.rows |-> [c \in 1 .. s.cols |-> X(r, c)]]
<1>1. ApplyMask(s, hits, fill) = [s EXCEPT !.cells = row]
    BY Zenon DEF ApplyMask
<1>2. ASSUME NEW r \in 1 .. s.rows, NEW c \in 1 .. s.cols PROVE IsCell(X(r, c))
    <2>1. CellAt(s, r - 1, c - 1) = s.cells[r][c]
        <3>1. r \in Int /\ c \in Int
            OBVIOUS
        <3>2. (r - 1) + 1 = r /\ (c - 1) + 1 = c
            BY <3>1
        <3> QED
            BY <3>2, Zenon DEF CellAt, CellsOf
    <2>2. IsCell(CellAt(s, r - 1, c - 1))
        BY <2>1, CellOf, Zenon
    <2>3. IsCell(Cell(fill, CellAt(s, r - 1, c - 1).style, FALSE, FALSE))
        BY CellIs
    <2> QED
        BY <2>2, <2>3, Zenon
<1> HIDE DEF X
<1>3. \A r \in 1 .. s.rows : IsRow(row[r], s.cols)
    <2> TAKE r \in 1 .. s.rows
    <2> DEFINE f == row[r]
    <2>1. DOMAIN f = 1 .. s.cols /\ f = [c \in 1 .. s.cols |-> f[c]] /\ \A c \in 1 .. s.cols : f[c] = X(r, c)
        OBVIOUS
    <2> HIDE DEF f
    <2>2. \A c \in 1 .. s.cols : IsCell(f[c])
        BY <1>2, <2>1, Zenon
    <2>3. IsRow(f, s.cols)
        BY <2>1, <2>2, RowIs
    <2> QED
        BY <2>3 DEF f
<1>4. row = [r \in 1 .. s.rows |-> row[r]]
    OBVIOUS
<1> HIDE DEF row
<1>5. IsScreen([s EXCEPT !.cells = row])
    BY <1>3, <1>4, OtherCells
<1> QED
    BY <1>1, <1>5

(* Every mask leaves a screen. *)
LEMMA MaskedType ==
    ASSUME NEW s, IsScreen(s), NEW mask, mask[1] \in {"matching", "rect", "style"}
    PROVE  IsScreen(Masked(s, mask))
<1>1. CASE mask[1] = "matching"
    <2> DEFINE hits == IF \E i \in DOMAIN Nfc(mask[2]) : Nfc(mask[2])[i] = NewLine
                       THEN MultirowCells(SearchableRows(s), Segments(Nfc(mask[2])))
                       ELSE MatchedCells(SearchableRows(s), Nfc(mask[2]))
    <2>1. Masked(s, mask) = MaskMatching(s, mask[2], Fill)
        BY <1>1 DEF Masked
    <2>2. MaskMatching(s, mask[2], Fill) = ApplyMask(s, hits, <<Fill>>)
        BY Zenon DEF MaskMatching
    <2> HIDE DEF hits
    <2>3. IsScreen(ApplyMask(s, hits, <<Fill>>))
        BY MaskType, NoText
    <2> QED
        BY <2>1, <2>2, <2>3, Zenon
<1>2. CASE mask[1] = "rect"
    <2> DEFINE c == ClampRange(mask[2][1], s.cols)
               r == ClampRange(mask[2][2], s.rows)
               hits == (r.start .. r.end - 1) \X (c.start .. c.end - 1)
    <2>1. Masked(s, mask) = MaskRect(s, mask[2][1], mask[2][2])
        BY <1>2 DEF Masked
    <2>2. MaskRect(s, mask[2][1], mask[2][2]) = ApplyMask(s, hits, <<>>)
        BY Zenon DEF MaskRect
    <2> HIDE DEF hits
    <2>3. IsScreen(ApplyMask(s, hits, <<>>))
        BY MaskType, NoText
    <2> QED
        BY <2>1, <2>2, <2>3, Zenon
<1>3. CASE mask[1] = "style"
    <2> DEFINE hits == {p \in Places(s) : CellAt(s, p[1], p[2]).style = mask[2]}
    <2>1. Masked(s, mask) = MaskStyled(s, mask[2])
        BY <1>3 DEF Masked
    <2>2. MaskStyled(s, mask[2]) = ApplyMask(s, hits, <<>>)
        BY Zenon DEF MaskStyled
    <2> HIDE DEF hits
    <2>3. IsScreen(ApplyMask(s, hits, <<>>))
        BY MaskType, NoText
    <2> QED
        BY <2>1, <2>2, <2>3, Zenon
<1> QED
    BY <1>1, <1>2, <1>3

-----------------------------------------------------------------------------
(* The text of a row. *)

(* What goes step by step has a value at every step. *)
Steps(g, n, V, base, step) ==
    /\ g = [k \in 0 .. n |-> g[k]]
    /\ g[0] = base /\ (\A k \in 1 .. n : g[k] = step[<<g[k - 1], k>>])
    /\ \A k \in 0 .. n : g[k] \in V

(* Whatever goes step by step exists. *)
LEMMA StepsExist ==
    ASSUME NEW n \in Nat, NEW V, NEW base \in V, NEW step \in [V \X (1 .. n) -> V]
    PROVE  \E g : Steps(g, n, V, base, step)
<1> DEFINE s == [i \in 1 .. n |-> i]
           E == 1 .. n
<1>1. s \in Seq(E) /\ Len(s) = n /\ \A i \in 1 .. n : s[i] = i
    OBVIOUS
<1> HIDE DEF s, E
<1>2. step \in [V \X E -> V]
    BY DEF E
<1>3. PICK g : g \in [0 .. Len(s) -> V] /\ Follows(g, base, step, s)
    BY <1>1, <1>2, FollowingType
<1>4. g = [k \in 0 .. n |-> g[k]] /\ \A k \in 0 .. n : g[k] \in V
    BY <1>1, <1>3
<1>5. g[0] = base /\ \A k \in 1 .. n : g[k] = step[<<g[k - 1], k>>]
    BY <1>1, <1>3 DEF Follows
<1> QED
    BY <1>4, <1>5, Zenon DEF Steps

(* A property that every step keeps. *)
LEMMA StepsKeep ==
    ASSUME NEW n \in Nat, NEW V, NEW c, c[0] \in V, \A k \in 1 .. n : c[k - 1] \in V => c[k] \in V
    PROVE  \A k \in 0 .. n : c[k] \in V
<1> DEFINE S == {k \in 0 .. n : c[k] \in V}
<1>1. 0 \in S
    OBVIOUS
<1>2. ASSUME NEW k \in 1 .. n, k - 1 \in S PROVE k \in S
    BY <1>2
<1> HIDE DEF S
<1>3. \A k \in 0 .. n : k \in S
    BY <1>1, <1>2, UpTo
<1> QED
    BY <1>3 DEF S

NfcNext(text, x, k) ==
    IF x # <<>> /\ <<Last(x), text[k]>> \in DOMAIN Composed
    THEN Append(Front(x), Composed[<<Last(x), text[k]>>]) ELSE Append(x, text[k])

(* Normalising keeps text text. *)
LEMMA NfcNextType ==
    ASSUME NEW text \in Text
    PROVE  /\ Len(text) \in Nat /\ <<>> \in Text
           /\ \A x \in Text, k \in 1 .. Len(text) : NfcNext(text, x, k) \in Text
<1> DEFINE V == STRING
<1>1. text \in Seq(V)
    BY DEF Text
<1>2. \A pair \in DOMAIN Composed : Composed[pair] \in V
    BY CharactersAssumption
<1> HIDE DEF V
<1>3. ASSUME NEW x \in Seq(V), NEW k \in 1 .. Len(text)
      PROVE  NfcNext(text, x, k) \in Seq(V)
    <2>1. Append(x, text[k]) \in Seq(V)
        BY <1>1
    <2>2. x # <<>> => Front(x) \in Seq(V)
        BY DEF Front
    <2> QED
        BY <1>2, <2>1, <2>2 DEF NfcNext
<1>4. Len(text) \in Nat /\ <<>> \in Seq(V)
    BY <1>1
<1> QED
    BY <1>3, <1>4, Zenon DEF V, Text

(* Character by character. *)
LEMMA NfcGoes ==
    ASSUME NEW text \in Text
    PROVE  \E c : /\ c[0] = <<>> /\ (\A k \in 1 .. Len(text) : c[k] = NfcNext(text, c[k - 1], k))
                  /\ (\A k \in 0 .. Len(text) : c[k] \in Text)
                  /\ Nfc(text) = c[Len(text)]
<1> DEFINE N == Len(text)
           V == Text
           none == <<>>
           Is(f) == f = [k \in 0 .. N |-> IF k = 0 THEN none ELSE NfcNext(text, f[k - 1], k)]
           c == CHOOSE f : Is(f)
           step == [p \in V \X (1 .. N) |-> NfcNext(text, p[1], p[2])]
<1>1. N \in Nat /\ none \in V /\ \A x \in V, k \in 1 .. N : NfcNext(text, x, k) \in V
    BY NfcNextType
<1>2. Nfc(text) = c[N]
    BY Zenon DEF Nfc, NfcNext
<1> HIDE DEF N, V, none
<1>3. step \in [V \X (1 .. N) -> V] /\ \A x \in V, k \in 1 .. N : step[<<x, k>>] = NfcNext(text, x, k)
    BY <1>1
<1> HIDE DEF step
<1>4. \E g : Steps(g, N, V, none, step)
    BY <1>1, <1>3, StepsExist
<1>5. PICK g : /\ g = [k \in 0 .. N |-> g[k]]
               /\ g[0] = none /\ (\A k \in 1 .. N : g[k] = step[<<g[k - 1], k>>])
               /\ \A k \in 0 .. N : g[k] \in V
    BY <1>4, Zenon DEF Steps
<1>6. \A k \in 0 .. N : g[k] = IF k = 0 THEN none ELSE NfcNext(text, g[k - 1], k)
    <2> TAKE k \in 0 .. N
    <2>1. k # 0 => k \in 1 .. N /\ k - 1 \in 0 .. N
        BY <1>1
    <2> QED
        BY <1>3, <1>5, <2>1
<1>7. Is(g)
    BY <1>5, <1>6
<1>8. Is(c)
    BY <1>7, Zenon
<1> HIDE DEF c
<1>9. \A k \in 0 .. N : c[k] = IF k = 0 THEN none ELSE NfcNext(text, c[k - 1], k)
    BY <1>8
<1> HIDE DEF Is
<1>10. c[0] = none /\ \A k \in 1 .. N : c[k] = NfcNext(text, c[k - 1], k)
    <2>1. 0 \in 0 .. N /\ \A k \in 1 .. N : k \in 0 .. N /\ k # 0
        BY <1>1
    <2> QED
        BY <1>9, <2>1
<1>11. c[0] \in V /\ \A k \in 1 .. N : c[k - 1] \in V => c[k] \in V
    BY <1>1, <1>10
<1>12. \A k \in 0 .. N : c[k] \in V
    BY <1>1, <1>11, StepsKeep
<1> QED
    BY <1>2, <1>10, <1>12 DEF N, V, none

(* Normalised text is text. *)
LEMMA NfcType ==
    ASSUME NEW text \in Text
    PROVE  Nfc(text) \in Text
<1>1. PICK c : /\ \A k \in 0 .. Len(text) : c[k] \in Text
               /\ Nfc(text) = c[Len(text)]
    BY NfcGoes
<1>2. Len(text) \in 0 .. Len(text)
    BY NfcNextType
<1> QED
    BY <1>1, <1>2

(* Trimmed text is text, and no longer. *)
LEMMA TrimType ==
    ASSUME NEW text \in Text
    PROVE  /\ TrimEnd(text) \in Text /\ Len(TrimEnd(text)) \in Nat /\ Len(TrimEnd(text)) <= Len(text)
<1> DEFINE kept == {i \in DOMAIN text : text[i] \notin Spaces}
           n == IF kept = {} THEN 0 ELSE CHOOSE i \in kept : \A j \in kept : j <= i
           V == STRING
<1>1. text \in Seq(V)
    BY DEF Text
<1>2. TrimEnd(text) = SubSeq(text, 1, n)
    BY Zenon DEF TrimEnd
<1> HIDE DEF V
<1>3. kept \in SUBSET (1 .. Len(text)) /\ Len(text) \in Nat
    BY <1>1
<1> HIDE DEF kept
<1>4. n \in 0 .. Len(text)
    <2>1. CASE kept = {}
        BY <1>3, <2>1
    <2>2. CASE kept # {}
        <3> DEFINE m == CHOOSE i \in kept : \A j \in kept : j <= i
        <3>1. Max(kept) \in kept /\ \A j \in kept : Max(kept) >= j
            BY <1>3, <2>2, UpToMax
        <3>2. \A j \in kept : j \in Int
            BY <1>3
        <3>3. \E i \in kept : \A j \in kept : j <= i
            BY <3>1, <3>2
        <3>4. m \in kept
            BY <3>3, Zenon
        <3>5. n = m
            BY <2>2, Zenon
        <3> HIDE DEF m, n
        <3> QED
            BY <1>3, <3>4, <3>5
    <2> QED
        BY <2>1, <2>2
<1> HIDE DEF n
<1>5. SubSeq(text, 1, n) \in Seq(V) /\ Len(SubSeq(text, 1, n)) = n
    BY <1>1, <1>4
<1> QED
    BY <1>2, <1>3, <1>4, <1>5 DEF Text, V

(* The text of cells, and the column of each of its characters. *)
Lays == {x \in [text : Text, cols : Seq(Nat)] : Len(x.text) = Len(x.cols)}
IsCells(cells) == Len(cells) \in Nat /\ \A k \in 1 .. Len(cells) : IsCell(cells[k])

LayNext(cells, folded, x, k) ==
    LET glyph == IF folded THEN Nfc(Glyph(cells[k])) ELSE Glyph(cells[k]) IN
    IF cells[k].tail THEN x
    ELSE [text |-> x.text \o glyph, cols |-> x.cols \o [i \in DOMAIN glyph |-> k - 1]]

(* What a cell shows is text, normalised or not. *)
LEMMA GlyphType ==
    ASSUME NEW cell, IsCell(cell), NEW folded
    PROVE  (IF folded THEN Nfc(Glyph(cell)) ELSE Glyph(cell)) \in Text
<1>1. <<Space>> \in Text
    <2>1. Space \in STRING
        BY WordsAssumption
    <2> QED
        BY <2>1, OneOf, Zenon DEF Text
<1>2. Glyph(cell) \in Text
    BY <1>1, Zenon DEF Glyph, IsCell
<1>3. Nfc(Glyph(cell)) \in Text
    BY <1>2, NfcType
<1> QED
    BY <1>2, <1>3, Zenon

(* One cell more is laid out as text with a column for every character. *)
LEMMA LayNextType ==
    ASSUME NEW cells, IsCells(cells), NEW folded
    PROVE  /\ Len(cells) \in Nat /\ [text |-> <<>>, cols |-> <<>>] \in Lays
           /\ \A x \in Lays, k \in 1 .. Len(cells) : LayNext(cells, folded, x, k) \in Lays
<1>1. [text |-> <<>>, cols |-> <<>>] \in Lays
    <2>1. <<>> \in Text /\ <<>> \in Seq(Nat)
        BY NoText
    <2> QED
        BY <2>1 DEF Lays
<1>2. ASSUME NEW x \in Lays, NEW k \in 1 .. Len(cells)
      PROVE  LayNext(cells, folded, x, k) \in Lays
    <2> DEFINE glyph == IF folded THEN Nfc(Glyph(cells[k])) ELSE Glyph(cells[k])
               more == [i \in DOMAIN glyph |-> k - 1]
               V == STRING
    <2>1. glyph \in Text
        BY GlyphType DEF IsCells
    <2>2. x.text \in Text /\ x.cols \in Seq(Nat) /\ Len(x.text) = Len(x.cols)
        BY DEF Lays
    <2>3. LayNext(cells, folded, x, k) =
              IF cells[k].tail THEN x ELSE [text |-> x.text \o glyph, cols |-> x.cols \o more]
        BY Zenon DEF LayNext
    <2> HIDE DEF glyph, V
    <2>4. glyph \in Seq(V) /\ x.text \in Seq(V)
        BY <2>1, <2>2 DEF Text, V
    <2>5. more \in Seq(Nat) /\ Len(more) = Len(glyph)
        <3>1. k - 1 \in Nat /\ DOMAIN glyph = 1 .. Len(glyph) /\ Len(glyph) \in Nat
            BY <2>4 DEF IsCells
        <3> QED
            BY <3>1
    <2> HIDE DEF more
    <2>6. x.text \o glyph \in Seq(V) /\ Len(x.text \o glyph) = Len(x.text) + Len(glyph)
        BY <2>4
    <2>7. x.cols \o more \in Seq(Nat) /\ Len(x.cols \o more) = Len(x.cols) + Len(more)
        <3> DEFINE u == x.cols
        <3>1. u \in Seq(Nat) /\ more \in Seq(Nat)
            BY <2>2, <2>5
        <3> HIDE DEF u
        <3>2. u \o more \in Seq(Nat) /\ Len(u \o more) = Len(u) + Len(more)
            BY <3>1, Begins
        <3> QED
            BY <3>2 DEF u
    <2>8. [text |-> x.text \o glyph, cols |-> x.cols \o more] \in Lays
        BY <2>2, <2>5, <2>6, <2>7 DEF Lays, Text, V
    <2> QED
        BY <2>3, <2>8, Zenon
<1> QED
    BY <1>1, <1>2, Zenon DEF IsCells

(* Cell by cell. *)
LEMMA LayGoes ==
    ASSUME NEW cells, IsCells(cells), NEW folded
    PROVE  \E c : /\ c[0] = [text |-> <<>>, cols |-> <<>>] /\ (\A k \in 1 .. Len(cells) : c[k] = LayNext(cells, folded, c[k - 1], k))
                  /\ (\A k \in 0 .. Len(cells) : c[k] \in Lays)
                  /\ Laid(cells, folded) = c[Len(cells)]
<1> DEFINE N == Len(cells)
           V == Lays
           none == [text |-> <<>>, cols |-> <<>>]
           Is(f) == f = [k \in 0 .. N |-> IF k = 0 THEN none ELSE LayNext(cells, folded, f[k - 1], k)]
           c == CHOOSE f : Is(f)
           step == [p \in V \X (1 .. N) |-> LayNext(cells, folded, p[1], p[2])]
<1>1. N \in Nat /\ none \in V /\ \A x \in V, k \in 1 .. N : LayNext(cells, folded, x, k) \in V
    BY LayNextType
<1>2. Laid(cells, folded) = c[N]
    BY Zenon DEF Laid, LayNext
<1> HIDE DEF N, V, none
<1>3. step \in [V \X (1 .. N) -> V] /\ \A x \in V, k \in 1 .. N : step[<<x, k>>] = LayNext(cells, folded, x, k)
    BY <1>1
<1> HIDE DEF step
<1>4. \E g : Steps(g, N, V, none, step)
    BY <1>1, <1>3, StepsExist
<1>5. PICK g : /\ g = [k \in 0 .. N |-> g[k]]
               /\ g[0] = none /\ (\A k \in 1 .. N : g[k] = step[<<g[k - 1], k>>])
               /\ \A k \in 0 .. N : g[k] \in V
    BY <1>4, Zenon DEF Steps
<1>6. \A k \in 0 .. N : g[k] = IF k = 0 THEN none ELSE LayNext(cells, folded, g[k - 1], k)
    <2> TAKE k \in 0 .. N
    <2>1. k # 0 => k \in 1 .. N /\ k - 1 \in 0 .. N
        BY <1>1
    <2> QED
        BY <1>3, <1>5, <2>1
<1>7. Is(g)
    BY <1>5, <1>6
<1>8. Is(c)
    BY <1>7, Zenon
<1> HIDE DEF c
<1>9. \A k \in 0 .. N : c[k] = IF k = 0 THEN none ELSE LayNext(cells, folded, c[k - 1], k)
    BY <1>8
<1> HIDE DEF Is
<1>10. c[0] = none /\ \A k \in 1 .. N : c[k] = LayNext(cells, folded, c[k - 1], k)
    <2>1. 0 \in 0 .. N /\ \A k \in 1 .. N : k \in 0 .. N /\ k # 0
        BY <1>1
    <2> QED
        BY <1>9, <2>1
<1>11. c[0] \in V /\ \A k \in 1 .. N : c[k - 1] \in V => c[k] \in V
    BY <1>1, <1>10
<1>12. \A k \in 0 .. N : c[k] \in V
    BY <1>1, <1>11, StepsKeep
<1> QED
    BY <1>2, <1>10, <1>12 DEF N, V, none

(* A row is laid out as text with a column for every character. *)
LEMMA LaidType ==
    ASSUME NEW cells, IsCells(cells), NEW folded
    PROVE  /\ Laid(cells, folded).text \in Text /\ Laid(cells, folded).cols \in Seq(Nat)
           /\ Len(Laid(cells, folded).text) = Len(Laid(cells, folded).cols)
<1>1. PICK c : /\ \A k \in 0 .. Len(cells) : c[k] \in Lays
               /\ Laid(cells, folded) = c[Len(cells)]
    BY LayGoes
<1>2. Len(cells) \in 0 .. Len(cells)
    BY DEF IsCells
<1>3. Laid(cells, folded) \in Lays
    BY <1>1, <1>2
<1> QED
    BY <1>3 DEF Lays

(* The cells of a row. *)
LEMMA RowCells ==
    ASSUME NEW n \in Nat, NEW cells, IsRow(cells, n)
    PROVE  IsCells(cells) /\ Len(cells) = n
<1> DEFINE V == {cells[i] : i \in 1 .. n}
           f == [i \in 1 .. n |-> cells[i]]
<1>1. cells = f /\ \A c \in 1 .. n : IsCell(cells[c])
    BY Zenon DEF IsRow, HasLength
<1>2. f \in Seq(V) /\ Len(f) = n
    OBVIOUS
<1> HIDE DEF f
<1>3. Len(cells) = n
    BY <1>1, <1>2
<1> QED
    BY <1>1, <1>3 DEF IsCells

-----------------------------------------------------------------------------
(* Laying out a row. *)

(* A row that is laid out: its cells, in the default style. *)
PlainCells == [text : Text, style : {PlainStyle}, wide : BOOLEAN, tail : BOOLEAN]
LaidRows(cols) == [cells : [1 .. cols -> PlainCells], col : 0 .. cols, ok : BOOLEAN]

(* A plain cell is a cell. *)
LEMMA PlainIs ==
    /\ \A text \in Text, wide \in BOOLEAN, tail \in BOOLEAN : Cell(text, PlainStyle, wide, tail) \in PlainCells
    /\ \A cell \in PlainCells : IsCell(cell) /\ cell.text \in Text
<1>1. \A text \in Text, wide \in BOOLEAN, tail \in BOOLEAN : Cell(text, PlainStyle, wide, tail) \in PlainCells
    BY DEF Cell, PlainCells
<1>2. ASSUME NEW cell \in PlainCells PROVE IsCell(cell) /\ cell.text \in Text
    <2>1. DOMAIN cell = {"text", "style", "wide", "tail"} /\ cell.text \in Text
        BY DEF PlainCells
    <2>2. DOMAIN ErasedCell = {"text", "style", "wide", "tail"}
        BY DEF ErasedCell, Cell
    <2> QED
        BY <2>1, <2>2, Zenon DEF IsCell
<1> QED
    BY <1>1, <1>2

(* A row begins empty. *)
LEMMA EmptyRowType ==
    ASSUME NEW cols \in Nat
    PROVE  EmptyRow(cols) \in LaidRows(cols)
<1>1. ErasedCell \in PlainCells
    BY NoText, PlainIs DEF ErasedCell
<1>2. [c \in 1 .. cols |-> ErasedCell] \in [1 .. cols -> PlainCells] /\ 0 \in 0 .. cols
    BY <1>1
<1> DEFINE cells == [c \in 1 .. cols |-> ErasedCell]
<1>3. EmptyRow(cols) = [cells |-> cells, col |-> 0, ok |-> TRUE]
    BY Zenon DEF EmptyRow
<1> HIDE DEF cells
<1> QED
    BY <1>2, <1>3 DEF LaidRows, cells

(* A mark leaves the row in its columns, also where it widens the character it joins. *)
LEMMA JoinMarkType ==
    ASSUME NEW cols \in Nat, NEW row \in LaidRows(cols), NEW c \in STRING, NEW widen
    PROVE  JoinMark(row, cols, c, widen) \in LaidRows(cols)
<1> DEFINE owner == IF row.cells[row.col].tail THEN row.col - 1 ELSE row.col
           joined == [row EXCEPT !.cells[owner].text = Append(@, c)]
           widens == /\ widen /\ c = Selector /\ owner = row.col
                     /\ ~row.cells[owner].wide /\ CellIsWide(joined.cells[owner].text)
           refused == \/ row.col = 0
                      \/ row.cells[owner].text = <<>>
                      \/ widens /\ row.col >= cols
           wider == [joined EXCEPT !.cells[owner].wide = TRUE,
                                   !.cells[row.col + 1] = Cell(<<>>, PlainStyle, FALSE, TRUE),
                                   !.col = @ + 1]
           bad == [row EXCEPT !.ok = FALSE]
<1>1. JoinMark(row, cols, c, widen) =
          CASE refused -> bad [] ~refused /\ ~widens -> joined [] OTHER -> wider
    BY Zenon DEF JoinMark
<1>2. row.cells \in [1 .. cols -> PlainCells] /\ row.col \in 0 .. cols /\ row.ok \in BOOLEAN
    BY DEF LaidRows
<1>3. bad \in LaidRows(cols)
    BY DEF LaidRows
<1>4. joined \in LaidRows(cols) /\ joined.col = row.col
    <2> HIDE DEF owner
    <2>1. \A cell \in PlainCells : [cell EXCEPT !.text = Append(@, c)] \in PlainCells
        <3> TAKE cell \in PlainCells
        <3>1. cell.text \in Text
            BY PlainIs
        <3>2. Append(cell.text, c) \in Text
            BY <3>1 DEF Text
        <3> QED
            BY <3>2 DEF PlainCells
    <2> DEFINE new == [row.cells[owner] EXCEPT !.text = Append(row.cells[owner].text, c)]
               cells == [row.cells EXCEPT ![owner] = new]
    <2>2. cells \in [1 .. cols -> PlainCells]
        <3>1. cells = [row.cells EXCEPT ![owner] = new]
            OBVIOUS
        <3>2. owner \in 1 .. cols => new \in PlainCells
            BY <1>2, <2>1, Zenon
        <3> HIDE DEF cells, new
        <3> QED
            BY <1>2, <3>1, <3>2
    <2>3. joined = [row EXCEPT !.cells = cells]
        OBVIOUS
    <2> HIDE DEF cells
    <2> QED
        BY <2>2, <2>3 DEF LaidRows
<1>5. ASSUME ~refused PROVE widens => wider \in LaidRows(cols)
    <2> SUFFICES ASSUME widens PROVE wider \in LaidRows(cols)
        OBVIOUS
    <2>1. row.col < cols
        BY <1>2, <1>5, SMTT(40)
    <2>2. Cell(<<>>, PlainStyle, FALSE, TRUE) \in PlainCells
        BY NoText, PlainIs
    <2> HIDE DEF owner, joined
    <2> DEFINE tail == Cell(<<>>, PlainStyle, FALSE, TRUE)
               one == [joined.cells EXCEPT ![owner] = [@ EXCEPT !.wide = TRUE]]
               two == [one EXCEPT ![row.col + 1] = tail]
    <2>3. \A cell \in PlainCells : [cell EXCEPT !.wide = TRUE] \in PlainCells
        BY DEF PlainCells
    <2>4. joined.cells \in [1 .. cols -> PlainCells]
        BY <1>4 DEF LaidRows
    <2>5. one \in [1 .. cols -> PlainCells]
        BY <2>3, <2>4
    <2>6. two \in [1 .. cols -> PlainCells]
        <3> HIDE DEF one, tail
        <3> QED
            BY <2>2, <2>5 DEF tail
    <2>7. wider = [joined EXCEPT !.cells = two, !.col = @ + 1]
        BY <1>4 DEF LaidRows
    <2> HIDE DEF two
    <2>8. joined.col + 1 \in 0 .. cols
        BY <1>2, <1>4, <2>1
    <2> QED
        BY <1>4, <2>6, <2>7, <2>8 DEF LaidRows
<1> HIDE DEF refused, widens, joined, wider, bad
<1> QED
    BY <1>1, <1>3, <1>4, <1>5

(* A character leaves the row in its columns, also where it is cut by the last one. *)
LEMMA PlaceCharType ==
    ASSUME NEW cols \in Nat, NEW row \in LaidRows(cols), NEW c \in STRING, NEW widen
    PROVE  PlaceChar(row, cols, c, widen) \in LaidRows(cols)
<1> DEFINE width == CharColumns(c)
           first == Cell(<<c>>, PlainStyle, width = 2, FALSE)
           cut == width = 2 /\ row.col + 1 = cols
           refused == c \in ControlChars \/ (width > 0 /\ ~cut /\ row.col + width > cols)
           bad == [row EXCEPT !.ok = FALSE]
           mark == JoinMark(row, cols, c, widen)
           half == [row EXCEPT !.cells[cols] = first, !.col = cols]
           tail == Cell(<<>>, PlainStyle, FALSE, TRUE)
           cells == [i \in 1 .. cols |-> CASE i = row.col + 1 -> first
                                           [] width = 2 /\ i = row.col + 2 -> tail
                                           [] OTHER -> row.cells[i]]
           placed == [row EXCEPT !.cells = cells, !.col = row.col + width]
<1>1. PlaceChar(row, cols, c, widen) =
          CASE refused -> bad [] ~refused /\ width = 0 -> mark [] ~refused /\ cut -> half [] OTHER -> placed
    BY Zenon DEF PlaceChar
<1>2. row.cells \in [1 .. cols -> PlainCells] /\ row.col \in 0 .. cols /\ row.ok \in BOOLEAN
    BY DEF LaidRows
<1>3. bad \in LaidRows(cols)
    BY DEF LaidRows
<1>4. mark \in LaidRows(cols)
    BY JoinMarkType
<1>5. width \in {0, 1, 2}
    BY DEF CharColumns
<1>6. first \in PlainCells /\ tail \in PlainCells
    <2>1. <<c>> \in Text /\ <<>> \in Text
        BY NoText, OneOf, Zenon DEF Text
    <2>2. (width = 2) \in BOOLEAN
        OBVIOUS
    <2> QED
        BY <2>1, <2>2, PlainIs
<1> HIDE DEF width, first, tail
<1>7. half \in LaidRows(cols)
    <2>1. [row.cells EXCEPT ![cols] = first] \in [1 .. cols -> PlainCells]
        BY <1>2, <1>6
    <2> DEFINE put == [row.cells EXCEPT ![cols] = first]
    <2>2. half = [row EXCEPT !.cells = put, !.col = cols]
        OBVIOUS
    <2>3. cols \in 0 .. cols
        OBVIOUS
    <2> HIDE DEF put, half
    <2> QED
        BY <1>2, <2>1, <2>2, <2>3 DEF LaidRows, put
<1>8. cells \in [1 .. cols -> PlainCells]
    BY <1>2, <1>6
<1>9. ASSUME ~refused, width # 0, ~cut PROVE placed \in LaidRows(cols)
    <2>1. row.col + width \in 0 .. cols
        BY <1>2, <1>5, <1>9
    <2> HIDE DEF cells
    <2> QED
        BY <1>8, <2>1 DEF LaidRows
<1> HIDE DEF refused, cut, bad, mark, half, placed
<1> QED
    BY <1>1, <1>3, <1>4, <1>7, <1>9

LayOutNext(text, cols, widen, x, k) == IF x.ok THEN PlaceChar(x, cols, text[k], widen) ELSE x

(* Laying out one character more. *)
LEMMA LayOutNextType ==
    ASSUME NEW text \in Text, NEW cols \in Nat, NEW widen
    PROVE  /\ Len(text) \in Nat /\ EmptyRow(cols) \in LaidRows(cols)
           /\ \A x \in LaidRows(cols), k \in 1 .. Len(text) : LayOutNext(text, cols, widen, x, k) \in LaidRows(cols)
<1> DEFINE V == STRING
<1>1. text \in Seq(V)
    BY DEF Text
<1> HIDE DEF V
<1>2. Len(text) \in Nat /\ \A k \in 1 .. Len(text) : text[k] \in V
    BY <1>1
<1>3. ASSUME NEW x \in LaidRows(cols), NEW k \in 1 .. Len(text)
      PROVE  LayOutNext(text, cols, widen, x, k) \in LaidRows(cols)
    <2>1. text[k] \in STRING
        BY <1>2 DEF V
    <2>2. PlaceChar(x, cols, text[k], widen) \in LaidRows(cols)
        BY <2>1, PlaceCharType
    <2> QED
        BY <2>2, Zenon DEF LayOutNext
<1> QED
    BY <1>2, <1>3, EmptyRowType, Zenon

(* What an empty row has and every character keeps, the row that is laid out has. *)
LEMMA LayOutKeeps ==
    ASSUME NEW text \in Text, NEW cols \in Nat, NEW widen, NEW V, EmptyRow(cols) \in V,
           \A x \in V, k \in 1 .. Len(text) : LayOutNext(text, cols, widen, x, k) \in V
    PROVE  LayOutRow(text, cols, widen) \in V
<1> DEFINE N == Len(text)
           none == EmptyRow(cols)
           Is(f) == f = [k \in 0 .. N |-> IF k = 0 THEN none ELSE LayOutNext(text, cols, widen, f[k - 1], k)]
           c == CHOOSE f : Is(f)
           step == [p \in V \X (1 .. N) |-> LayOutNext(text, cols, widen, p[1], p[2])]
<1>1. N \in Nat /\ none \in V /\ \A x \in V, k \in 1 .. N : LayOutNext(text, cols, widen, x, k) \in V
    BY LayOutNextType
<1>2. LayOutRow(text, cols, widen) = c[N]
    BY Zenon DEF LayOutRow, LayOutNext
<1> HIDE DEF N, none
<1>3. step \in [V \X (1 .. N) -> V] /\ \A x \in V, k \in 1 .. N : step[<<x, k>>] = LayOutNext(text, cols, widen, x, k)
    BY <1>1
<1> HIDE DEF step
<1>4. \E g : Steps(g, N, V, none, step)
    BY <1>1, <1>3, StepsExist
<1>5. PICK g : /\ g = [k \in 0 .. N |-> g[k]]
               /\ g[0] = none /\ (\A k \in 1 .. N : g[k] = step[<<g[k - 1], k>>])
               /\ \A k \in 0 .. N : g[k] \in V
    BY <1>4, Zenon DEF Steps
<1>6. \A k \in 0 .. N : g[k] = IF k = 0 THEN none ELSE LayOutNext(text, cols, widen, g[k - 1], k)
    <2> TAKE k \in 0 .. N
    <2>1. k # 0 => k \in 1 .. N /\ k - 1 \in 0 .. N
        BY <1>1
    <2> QED
        BY <1>3, <1>5, <2>1
<1>7. Is(g)
    BY <1>5, <1>6
<1>8. Is(c)
    BY <1>7, Zenon
<1> HIDE DEF c
<1>9. \A k \in 0 .. N : c[k] = IF k = 0 THEN none ELSE LayOutNext(text, cols, widen, c[k - 1], k)
    BY <1>8
<1> HIDE DEF Is
<1>10. c[0] = none /\ \A k \in 1 .. N : c[k] = LayOutNext(text, cols, widen, c[k - 1], k)
    <2>1. 0 \in 0 .. N /\ \A k \in 1 .. N : k \in 0 .. N /\ k # 0
        BY <1>1
    <2> QED
        BY <1>9, <2>1
<1>11. c[0] \in V /\ \A k \in 1 .. N : c[k - 1] \in V => c[k] \in V
    BY <1>1, <1>10
<1>12. \A k \in 0 .. N : c[k] \in V
    BY <1>1, <1>11, StepsKeep
<1>13. N \in 0 .. N
    BY <1>1
<1> QED
    BY <1>2, <1>12, <1>13

(* A row that is read has its columns, whatever the text is. *)
LEMMA ReadRowType ==
    ASSUME NEW text \in Text, NEW cols \in Nat
    PROVE  ReadRow(text, cols) \in LaidRows(cols)
<1> DEFINE V == LaidRows(cols)
<1>1. EmptyRow(cols) \in V
    BY LayOutNextType
<1>2. ASSUME NEW widen PROVE LayOutRow(text, cols, widen) \in V
    <2>1. \A x \in V, k \in 1 .. Len(text) : LayOutNext(text, cols, widen, x, k) \in V
        BY LayOutNextType
    <2> HIDE DEF V
    <2> QED
        BY <1>1, <2>1, LayOutKeeps
<1> QED
    BY <1>2, Zenon DEF ReadRow

(* A row that was laid out is a row of a screen. *)
LEMMA LaidRowIs ==
    ASSUME NEW cols \in Nat, NEW row \in LaidRows(cols)
    PROVE  IsRow(row.cells, cols)
<1> DEFINE f == row.cells
<1>1. f \in [1 .. cols -> PlainCells]
    BY DEF LaidRows
<1> HIDE DEF f
<1>2. DOMAIN f = 1 .. cols /\ f = [c \in 1 .. cols |-> f[c]] /\ \A c \in 1 .. cols : f[c] \in PlainCells
    BY <1>1
<1>3. \A c \in 1 .. cols : IsCell(f[c])
    BY <1>2, PlainIs
<1>4. IsRow(f, cols)
    BY <1>2, <1>3, RowIs
<1> QED
    BY <1>4 DEF f

-----------------------------------------------------------------------------
(* Reading files. *)

(* The cells of a screen, in other styles. *)
LEMMA StyledCell ==
    ASSUME NEW cell, IsCell(cell), NEW style
    PROVE  IsCell([cell EXCEPT !.style = style])
<1> DEFINE t == [cell EXCEPT !.style = style]
<1>1. DOMAIN cell = DOMAIN ErasedCell /\ cell.text \in Text
    BY Zenon DEF IsCell
<1>2. DOMAIN ErasedCell = {"text", "style", "wide", "tail"}
    BY DEF ErasedCell, Cell
<1>3. DOMAIN t = DOMAIN ErasedCell /\ t.text = cell.text
    BY <1>1, <1>2
<1> HIDE DEF t
<1>4. IsCell(t)
    BY <1>1, <1>3, Zenon DEF IsCell
<1> QED
    BY <1>4 DEF t

(* The styles that are read leave a screen. *)
LEMMA StylesType ==
    ASSUME NEW s, IsScreen(s), NEW lines, NEW t \in ReadStyles(s, lines)
    PROVE  IsScreen(t)
<1> DEFINE HasSpans(line) == line.text \notin {<<>>, <<NoneWord>>}
           said == SelectSeq(lines, HasSpans)
           Spans(row) == UNION {said[i].spans : i \in {j \in DOMAIN said : said[j].row = row}}
           Over(row, col) == {span \in Spans(row) : span.from <= col /\ col <= span.to}
           Style(r, c) == IF Over(r - 1, c - 1) = {} THEN PlainStyle
                          ELSE StyleOf((CHOOSE span \in Over(r - 1, c - 1) : TRUE).tokens)
           X(r, c) == [s.cells[r][c] EXCEPT !.style = Style(r, c)]
           row == [r \in 1 .. s.rows |-> [c \in 1 .. s.cols |-> X(r, c)]]
           bad == \E i \in DOMAIN said : ~SpansOk(s, said[i])
<1>1. ReadStyles(s, lines) = IF bad THEN {} ELSE {[s EXCEPT !.cells = row]}
    BY Zenon DEF ReadStyles
<1> HIDE DEF bad, Style
<1>2. t = [s EXCEPT !.cells = row]
    <2> HIDE DEF row
    <2> QED
        BY <1>1
<1>3. ASSUME NEW r \in 1 .. s.rows, NEW c \in 1 .. s.cols PROVE IsCell(X(r, c))
    BY CellOf, StyledCell
<1> HIDE DEF X
<1>4. \A r \in 1 .. s.rows : IsRow(row[r], s.cols)
    <2> TAKE r \in 1 .. s.rows
    <2> DEFINE f == row[r]
    <2>1. DOMAIN f = 1 .. s.cols /\ f = [c \in 1 .. s.cols |-> f[c]] /\ \A c \in 1 .. s.cols : f[c] = X(r, c)
        OBVIOUS
    <2> HIDE DEF f
    <2>2. \A c \in 1 .. s.cols : IsCell(f[c])
        BY <1>3, <2>1, Zenon
    <2>3. IsRow(f, s.cols)
        BY <2>1, <2>2, RowIs
    <2> QED
        BY <2>3 DEF f
<1>5. row = [r \in 1 .. s.rows |-> row[r]]
    OBVIOUS
<1> HIDE DEF row
<1>6. IsScreen([s EXCEPT !.cells = row])
    BY <1>4, <1>5, OtherCells
<1> QED
    BY <1>2, <1>6

(* The sizes of a screen are numbers. *)
LEMMA NarrowNat == \A n \in Narrow : n \in Nat
BY SMTT(40) DEF Narrow

(* What is read from a text is a screen, whatever the text says. *)
LEMMA ParseType ==
    ASSUME NEW file, IsText(file), NEW t \in Parse(file)
    PROVE  IsScreen(t)
<1> DEFINE split == GridLines(file)
           rows == [i \in 1 .. file.rows |->
                      IF i <= split THEN ReadRow(file.lines[i].text, file.cols) ELSE EmptyRow(file.cols)]
           rest == {i \in split + 1 .. Len(file.lines) : file.lines[i].text # <<>>}
           word == CHOOSE i \in rest : \A j \in rest : i <= j
           cells == [r \in 1 .. file.rows |-> rows[r].cells]
           Bare(cursor) ==
               [cols |-> file.cols, rows |-> file.rows, cursor |-> cursor,
                cells |-> cells, wrapped |-> <<>>, history |-> <<>>]
           bad == (\E r \in DOMAIN rows : ~rows[r].ok) \/ (rest # {} /\ file.lines[word].text # <<StylesWord>>)
           after == SubSeq(file.lines, word + 1, Len(file.lines))
<1>1. Parse(file) =
          IF bad THEN {} ELSE IF rest = {} THEN {Bare(c) : c \in ReadHeader(file)}
          ELSE UNION {ReadStyles(Bare(c), after) : c \in ReadHeader(file)}
    BY Zenon DEF Parse
<1>2. /\ file.cols \in Narrow /\ file.rows \in Narrow
      /\ Len(file.lines) \in Nat /\ \A i \in 1 .. Len(file.lines) : file.lines[i].text \in Text
    BY Zenon DEF IsText
<1>3. file.cols \in Nat /\ file.rows \in Nat
    BY <1>2, NarrowNat, Zenon
<1>4. \A i \in 1 .. file.rows : i <= split => i \in 1 .. Len(file.lines)
    BY <1>2, <1>3 DEF GridLines, Least
<1> HIDE DEF split
<1>5. \A i \in 1 .. file.rows : rows[i] \in LaidRows(file.cols)
    <2> TAKE i \in 1 .. file.rows
    <2>1. rows[i] = IF i <= split THEN ReadRow(file.lines[i].text, file.cols) ELSE EmptyRow(file.cols)
        OBVIOUS
    <2> HIDE DEF rows
    <2>2. CASE i <= split
        <3> DEFINE text == file.lines[i].text
        <3>1. text \in Text
            BY <1>2, <1>4, <2>2
        <3> HIDE DEF text
        <3>2. ReadRow(text, file.cols) \in LaidRows(file.cols)
            BY <1>3, <3>1, ReadRowType
        <3> QED
            BY <2>1, <2>2, <3>2, Zenon DEF text
    <2>3. CASE ~ i <= split
        <3>1. EmptyRow(file.cols) \in LaidRows(file.cols)
            BY <1>3, EmptyRowType
        <3> QED
            BY <2>1, <2>3, <3>1, Zenon
    <2> QED
        BY <2>2, <2>3
<1> HIDE DEF rows, bad, after
<1>6. ASSUME NEW c PROVE IsScreen(Bare(c))
    <2> DEFINE b == Bare(c)
    <2>1. /\ DOMAIN b = ScreenFields /\ b.cols = file.cols /\ b.rows = file.rows
          /\ b.cells = cells
        BY DEF ScreenFields
    <2>2. \A r \in 1 .. file.rows : IsRow(cells[r], file.cols)
        <3> TAKE r \in 1 .. file.rows
        <3>1. IsRow(rows[r].cells, file.cols)
            BY <1>3, <1>5, LaidRowIs
        <3> QED
            BY <3>1
    <2>3. cells = [r \in 1 .. file.rows |-> cells[r]]
        OBVIOUS
    <2> HIDE DEF b, cells
    <2>4. HasLength(cells, file.rows)
        BY <2>3, Zenon DEF HasLength
    <2>5. IsScreen(b)
        BY <1>2, <2>1, <2>2, <2>4, Zenon DEF IsScreen
    <2> QED
        BY <2>5 DEF b
<1> HIDE DEF rest, word, Bare
<1>7. (\E c : t = Bare(c)) \/ (\E c : t \in ReadStyles(Bare(c), after))
    BY <1>1
<1>8. CASE \E c : t = Bare(c)
    BY <1>6, <1>8
<1>9. CASE \E c : t \in ReadStyles(Bare(c), after)
    <2>1. PICK c : t \in ReadStyles(Bare(c), after)
        BY <1>9
    <2>2. IsScreen(Bare(c))
        BY <1>6
    <2> QED
        BY <2>1, <2>2, StylesType
<1> QED
    BY <1>7, <1>8, <1>9

(* What is read of a JSON document is a screen, whatever the document says. *)
LEMMA JsonType ==
    ASSUME NEW document, IsJson(document), NEW t \in FromJson(document)
    PROVE  IsScreen(t)
<1> DEFINE s == document.screen
           good == /\ document.format = JsonFormat
                   /\ s.cols \in 1 .. MaxDimension /\ s.rows \in 1 .. MaxDimension
                   /\ Len(s.cells) = s.rows
                   /\ \A r \in DOMAIN s.cells : Len(s.cells[r]) = s.cols /\ RowReads(s.cells[r])
<1>1. FromJson(document) = IF good THEN {[s EXCEPT !.cursor = c] : c \in ReadCursor(s.cols, s.rows, s.cursor)} ELSE {}
    BY Zenon DEF FromJson
<1>2. /\ DOMAIN s = ScreenFields /\ s.cols \in Narrow /\ s.rows \in Narrow
      /\ HasLength(s.cells, Len(s.cells)) /\ \A r \in DOMAIN s.cells : IsRow(s.cells[r], Len(s.cells[r]))
    BY Zenon DEF IsJson
<1> HIDE DEF s
<1>3. good /\ \E c : t = [s EXCEPT !.cursor = c]
    <2> HIDE DEF good
    <2> QED
        BY <1>1
<1>4. HasLength(s.cells, s.rows) /\ \A r \in 1 .. s.rows : IsRow(s.cells[r], s.cols)
    <2>1. HasLength(s.cells, s.rows)
        BY <1>2, <1>3, Zenon
    <2>2. DOMAIN s.cells = 1 .. s.rows
        <3> DEFINE f == s.cells
        <3>1. f = [i \in 1 .. s.rows |-> f[i]]
            BY <2>1, Zenon DEF HasLength
        <3> HIDE DEF f
        <3>2. DOMAIN f = 1 .. s.rows
            BY <3>1
        <3> QED
            BY <3>2 DEF f
    <2>3. \A r \in DOMAIN s.cells : IsRow(s.cells[r], s.cols)
        BY <1>2, <1>3, Zenon
    <2> QED
        BY <2>1, <2>2, <2>3, Zenon
<1>5. PICK c : t = [s EXCEPT !.cursor = c]
    BY <1>3
<1>6. DOMAIN t = ScreenFields /\ t.cols = s.cols /\ t.rows = s.rows /\ t.cells = s.cells
    <2>1. "cols" \in DOMAIN s /\ "rows" \in DOMAIN s /\ "cells" \in DOMAIN s
        BY <1>2 DEF ScreenFields
    <2> QED
        BY <1>2, <1>5, <2>1
<1> HIDE DEF good
<1> QED
    BY <1>2, <1>4, <1>6, Zenon DEF IsScreen

(* What is read of any file (parse, Deserialize) is a screen: as many cells in each
   row as it has columns, whatever the file says of itself. *)
THEOREM ReadType ==
    ASSUME NEW file, IsFile(file)
    PROVE  \A s \in ReadFile(file) : IsScreen(s)
<1>1. CASE file.kind = "text"
    <2>1. ReadFile(file) = Parse(file.document) /\ IsText(file.document)
        BY <1>1 DEF ReadFile, IsFile
    <2>2. \A s \in Parse(file.document) : IsScreen(s)
        BY <2>1, ParseType
    <2> QED
        BY <2>1, <2>2, Zenon
<1>2. CASE file.kind # "text"
    <2>1. ReadFile(file) = FromJson(file.document) /\ IsJson(file.document)
        BY <1>2, Zenon DEF ReadFile, IsFile
    <2>2. \A s \in FromJson(file.document) : IsScreen(s)
        BY <2>1, JsonType
    <2> QED
        BY <2>1, <2>2, Zenon
<1> QED
    BY <1>1, <1>2

-----------------------------------------------------------------------------
(* Saving screens. *)

(* The rows of a screen. *)
LEMMA RowOf ==
    ASSUME NEW s, IsScreen(s), NEW r \in 1 .. s.rows
    PROVE  CellsOf(s, r - 1) = s.cells[r] /\ IsCells(CellsOf(s, r - 1)) /\ Len(s.cells[r]) = s.cols
<1>1. (r - 1) + 1 = r
    <2>1. r \in Int
        OBVIOUS
    <2> QED
        BY <2>1
<1>2. CellsOf(s, r - 1) = s.cells[r]
    BY <1>1, Zenon DEF CellsOf
<1>3. s.cols \in Nat /\ IsRow(s.cells[r], s.cols)
    BY NarrowNat, CellOf, Zenon DEF IsScreen
<1> DEFINE f == s.cells[r]
<1> HIDE DEF f
<1>4. IsRow(f, s.cols)
    BY <1>3 DEF f
<1>5. IsCells(f) /\ Len(f) = s.cols
    BY <1>3, <1>4, RowCells
<1> QED
    BY <1>2, <1>5, Zenon DEF f

(* The text of a row is text. *)
LEMMA RowTextType ==
    ASSUME NEW s, IsScreen(s), NEW r \in 1 .. s.rows
    PROVE  RowText(s, r - 1) \in Text /\ TrimEnd(RowText(s, r - 1)) \in Text
<1> DEFINE no == FALSE
           cells == CellsOf(s, r - 1)
<1> HIDE DEF no, cells
<1>1. IsCells(cells)
    BY RowOf, Zenon DEF cells
<1>2. Laid(cells, no).text \in Text
    BY <1>1, LaidType
<1>3. RowText(s, r - 1) \in Text
    BY <1>2, Zenon DEF RowText, no, cells
<1> QED
    BY <1>3, TrimType

(* The lines that are saved of a screen. *)
SavedLines(s) == [text : Text, row : Int, spans : {{}} \union {RowSpans(s, i - 1) : i \in 1 .. s.rows}]

(* The lines that are saved. *)
LEMMA LineTypes ==
    ASSUME NEW s
    PROVE  /\ \A text \in Text : TextLine(text) \in SavedLines(s)
           /\ \A i \in 1 .. s.rows : SpanLine(i - 1, RowSpans(s, i - 1)) \in SavedLines(s)
           /\ \A line \in SavedLines(s) : line.text \in Text
           /\ <<StylesWord>> \in Text /\ <<NoneWord>> \in Text
<1>1. StylesWord \in STRING /\ NoneWord \in STRING /\ SpansWord \in STRING
    BY WordsAssumption
<1>2. <<StylesWord>> \in Text /\ <<NoneWord>> \in Text /\ <<SpansWord>> \in Text
    BY <1>1, OneOf, Zenon DEF Text
<1>3. \A text \in Text : TextLine(text) \in SavedLines(s)
    BY DEF TextLine, SavedLines
<1>4. ASSUME NEW i \in 1 .. s.rows PROVE SpanLine(i - 1, RowSpans(s, i - 1)) \in SavedLines(s)
    <2> DEFINE spans == RowSpans(s, i - 1)
    <2>1. i - 1 \in Int /\ spans \in {{}} \union {RowSpans(s, j - 1) : j \in 1 .. s.rows}
        OBVIOUS
    <2> HIDE DEF spans
    <2>2. SpanLine(i - 1, spans) \in SavedLines(s)
        BY <1>2, <2>1 DEF SpanLine, SavedLines
    <2> QED
        BY <2>2 DEF spans
<1>5. \A line \in SavedLines(s) : line.text \in Text
    BY DEF SavedLines
<1> QED
    BY <1>2, <1>3, <1>4, <1>5

(* What is saved as text can be read as text. *)
LEMMA SavedTextType ==
    ASSUME NEW s, IsScreen(s)
    PROVE  IsText(WithStyles(s))
<1> DEFINE V == SavedLines(s)
           Spans(row) == RowSpans(s, row)
           parts == [i \in 1 .. s.rows |->
                        IF Spans(i - 1) = {} THEN <<>> ELSE <<SpanLine(i - 1, Spans(i - 1))>>]
           spans == FlattenSeq(parts)
           shown == [i \in 1 .. s.rows |-> TextLine(RowTexts(s)[i])]
           more == IF spans = <<>> THEN <<TextLine(<<NoneWord>>)>> ELSE spans
           two == <<TextLine(<<>>), TextLine(<<StylesWord>>)>>
           all == shown \o two \o more
<1>1. s.cols \in Narrow /\ s.rows \in Narrow /\ s.rows \in Nat
    BY NarrowNat, Zenon DEF IsScreen
<1>2. WithStyles(s) = [Displayed(s) EXCEPT !.lines = @ \o two \o more]
    BY Zenon DEF WithStyles
<1>3. /\ Displayed(s).lines = shown /\ Displayed(s).cols = s.cols /\ Displayed(s).rows = s.rows
      /\ DOMAIN Displayed(s) = {"cols", "rows", "cursor", "lines"}
    BY DEF Displayed
<1> HIDE DEF shown, two, more
<1>4. WithStyles(s).lines = all /\ WithStyles(s).cols = s.cols /\ WithStyles(s).rows = s.rows
    BY <1>2, <1>3
<1>5. shown \in Seq(V)
    <2>1. ASSUME NEW i \in 1 .. s.rows PROVE TextLine(RowTexts(s)[i]) \in V
        <3>1. RowTexts(s)[i] = TrimEnd(RowText(s, i - 1))
            BY DEF RowTexts
        <3>2. TrimEnd(RowText(s, i - 1)) \in Text
            BY RowTextType
        <3> QED
            BY <3>1, <3>2, LineTypes
    <2> HIDE DEF V
    <2> QED
        BY <1>1, <2>1 DEF shown
<1>6. two \in Seq(V)
    <2>1. TextLine(<<>>) \in V /\ TextLine(<<StylesWord>>) \in V
        BY LineTypes, NoText
    <2> DEFINE a == TextLine(<<>>)
               b == TextLine(<<StylesWord>>)
    <2>2. two = <<a, b>> /\ a \in V /\ b \in V
        BY <2>1 DEF two
    <2> HIDE DEF V, a, b
    <2> QED
        BY <2>2
<1>7. more \in Seq(V)
    <2>1. parts \in Seq(Seq(V))
        <3>1. ASSUME NEW i \in 1 .. s.rows PROVE parts[i] \in Seq(V)
            <4>1. <<>> \in Seq(V) /\ SpanLine(i - 1, Spans(i - 1)) \in V
                BY LineTypes
            <4>2. <<SpanLine(i - 1, Spans(i - 1))>> \in Seq(V)
                BY <4>1, OneOf, Zenon
            <4>3. parts[i] = IF Spans(i - 1) = {} THEN <<>> ELSE <<SpanLine(i - 1, Spans(i - 1))>>
                OBVIOUS
            <4> QED
                BY <4>1, <4>2, <4>3, Zenon
        <3>2. parts = [i \in 1 .. s.rows |-> parts[i]]
            OBVIOUS
        <3> DEFINE W == Seq(V)
        <3> HIDE DEF parts
        <3>3. \A i \in 1 .. s.rows : parts[i] \in W
            BY <3>1
        <3> HIDE DEF W
        <3>4. [i \in 1 .. s.rows |-> parts[i]] \in Seq(W)
            BY <1>1, <3>3
        <3>5. parts \in Seq(W)
            BY <3>2, <3>4
        <3> QED
            BY <3>5 DEF W
    <2> HIDE DEF parts
    <2>2. spans \in Seq(V)
        BY <2>1, FlattenNext
    <2>3. TextLine(<<NoneWord>>) \in V
        BY LineTypes
    <2>4. <<TextLine(<<NoneWord>>)>> \in Seq(V)
        BY <2>3, OneOf, Zenon
    <2> QED
        BY <2>2, <2>4, Zenon DEF more
<1>8. \A line \in V : line.text \in Text
    BY LineTypes
<1> HIDE DEF V
<1>9. all \in Seq(V)
    BY <1>5, <1>6, <1>7
<1> HIDE DEF all
<1>10. Len(all) \in Nat /\ \A i \in 1 .. Len(all) : all[i].text \in Text
    <2>1. Len(all) \in Nat /\ \A i \in 1 .. Len(all) : all[i] \in V
        BY <1>9
    <2> QED
        BY <1>8, <2>1
<1> QED
    BY <1>1, <1>4, <1>10, Zenon DEF IsText

(* What is saved as JSON can be read as JSON. *)
LEMMA SavedJsonType ==
    ASSUME NEW s, IsScreen(s)
    PROVE  IsJson(ToJson(s))
<1> DEFINE document == ToJson(s)
<1>1. document.screen = s
    BY DEF ToJson
<1>2. /\ DOMAIN s = ScreenFields /\ s.cols \in Narrow /\ s.rows \in Narrow
      /\ HasLength(s.cells, s.rows) /\ \A r \in 1 .. s.rows : IsRow(s.cells[r], s.cols)
    BY Zenon DEF IsScreen
<1>3. s.rows \in Nat
    BY <1>2, NarrowNat, Zenon
<1>4. Len(s.cells) = s.rows /\ DOMAIN s.cells = 1 .. s.rows
    <2> DEFINE n == s.rows
               f == s.cells
               V == {f[i] : i \in 1 .. n}
    <2>1. n \in Nat /\ f = [i \in 1 .. n |-> f[i]]
        BY <1>2, <1>3, Zenon DEF HasLength
    <2> HIDE DEF n, f
    <2>2. [i \in 1 .. n |-> f[i]] \in Seq(V)
        BY <2>1
    <2>3. Len(f) = n /\ DOMAIN f = 1 .. n
        BY <2>1, <2>2
    <2> QED
        BY <2>3 DEF n, f
<1>5. \A r \in DOMAIN s.cells : IsRow(s.cells[r], Len(s.cells[r]))
    <2> TAKE r \in DOMAIN s.cells
    <2>1. r \in 1 .. s.rows
        BY <1>4, Zenon
    <2>2. Len(s.cells[r]) = s.cols
        BY <2>1, RowOf
    <2> QED
        BY <1>2, <2>1, <2>2, Zenon
<1>6. HasLength(s.cells, Len(s.cells))
    BY <1>2, <1>4, Zenon
<1> HIDE DEF document
<1>7. IsJson(document)
    BY <1>1, <1>2, <1>5, <1>6, Zenon DEF IsJson
<1> QED
    BY <1>7 DEF document

(* What is saved is a file. *)
LEMMA SavedType ==
    ASSUME NEW s, IsScreen(s)
    PROVE  /\ IsFile([kind |-> "text", document |-> WithStyles(s)])
           /\ IsFile([kind |-> "json", document |-> ToJson(s)])
<1>1. IsText(WithStyles(s)) /\ IsJson(ToJson(s))
    BY SavedTextType, SavedJsonType
<1> DEFINE text == [kind |-> "text", document |-> WithStyles(s)]
           json == [kind |-> "json", document |-> ToJson(s)]
<1>2. text.kind = "text" /\ text.document = WithStyles(s) /\ json.kind = "json" /\ json.document = ToJson(s)
    OBVIOUS
<1> HIDE DEF text, json
<1>3. IsFile(text) /\ IsFile(json)
    BY <1>1, <1>2, Zenon DEF IsFile
<1> QED
    BY <1>3 DEF text, json

-----------------------------------------------------------------------------
(* Functions that descend. *)

(* A function that is what it is elsewhere, until it is there. *)
Descends(f, D, to, base, step) ==
    f = [x \in D |-> IF to[x] = x THEN base[x] ELSE step[<<x, f[to[x]]>>]]

(* Where it goes is nearer to where it ends. *)
Nears(D, to, rank, n) ==
    /\ to \in [D -> D] /\ rank \in [D -> 0 .. n]
    /\ \A x \in D : to[x] # x => rank[to[x]] < rank[x]

(* There is a function that is what it is nearer to the end. *)
LEMMA DescentExists ==
    ASSUME NEW D, NEW V, NEW n \in Nat, NEW to, NEW rank, Nears(D, to, rank, n),
           NEW base \in [D -> V], NEW step \in [D \X V -> V]
    PROVE  \E f : Descends(f, D, to, base, step)
<1> DEFINE Near(k) == {x \in D : rank[x] <= k}
           Is(f, k) == /\ f \in [Near(k) -> V]
                       /\ \A x \in Near(k) : f[x] = IF to[x] = x THEN base[x] ELSE step[<<x, f[to[x]]>>]
           S == {k \in 0 .. n : \E f : Is(f, k)}
<1>1. /\ \A x \in D : to[x] \in D /\ rank[x] \in 0 .. n /\ rank[to[x]] \in 0 .. n
      /\ \A x \in D : to[x] # x => rank[to[x]] < rank[x]
    BY DEF Nears
<1>2. 0 \in S
    <2> DEFINE f == [x \in Near(0) |-> base[x]]
    <2>1. \A x \in Near(0) : to[x] = x /\ base[x] \in V
        BY <1>1
    <2>2. Is(f, 0)
        BY <2>1
    <2> HIDE DEF f
    <2>3. \E g : Is(g, 0)
        BY <2>2, Zenon
    <2>4. 0 \in 0 .. n
        OBVIOUS
    <2> QED
        BY <2>3, <2>4, Zenon
<1>3. ASSUME NEW k \in 1 .. n, k - 1 \in S PROVE k \in S
    <2>1. PICK g : Is(g, k - 1)
        BY <1>3
    <2> DEFINE f == [x \in Near(k) |-> IF to[x] = x THEN base[x] ELSE step[<<x, g[to[x]]>>]]
    <2>2. \A x \in Near(k) : x \in D /\ (to[x] # x => to[x] \in Near(k - 1))
        BY <1>1
    <2>3. \A x \in Near(k - 1) : g[x] \in V /\ x \in Near(k)
                                 /\ g[x] = IF to[x] = x THEN base[x] ELSE step[<<x, g[to[x]]>>]
        BY <1>1, <2>1
    <2>4. \A x \in D : base[x] \in V /\ \A v \in V : step[<<x, v>>] \in V
        OBVIOUS
    <2> HIDE DEF Near
    <2>5. \A x \in Near(k - 1) : f[x] = g[x]
        BY <2>3
    <2>6. \A x \in Near(k) : f[x] \in V
        BY <2>2, <2>3, <2>4
    <2>7. \A x \in Near(k) : f[x] = IF to[x] = x THEN base[x] ELSE step[<<x, f[to[x]]>>]
        BY <2>2, <2>5
    <2>8. f \in [Near(k) -> V]
        BY <2>6
    <2> HIDE DEF f
    <2>9. Is(f, k)
        BY <2>7, <2>8
    <2> QED
        BY <2>9
<1> HIDE DEF S
<1>4. \A k \in 0 .. n : k \in S
    BY <1>2, <1>3, UpTo
<1>5. PICK g : Is(g, n)
    <2>1. n \in S
        BY <1>4
    <2>2. \E f : Is(f, n)
        BY <2>1, Zenon DEF S
    <2> QED
        BY <2>2, Zenon
<1>6. Near(n) = D
    BY <1>1
<1> DEFINE f == [x \in D |-> g[x]]
<1>7. \A x \in D : f[x] = IF to[x] = x THEN base[x] ELSE step[<<x, f[to[x]]>>]
    BY <1>1, <1>5, <1>6
<1>8. Descends(f, D, to, base, step)
    <2>1. f = [x \in D |-> f[x]]
        OBVIOUS
    <2> HIDE DEF f
    <2> QED
        BY <1>7, <2>1 DEF Descends
<1> QED
    BY <1>8

(* What holds where it ends and is kept on the way holds everywhere. *)
LEMMA DescentKeeps ==
    ASSUME NEW D, NEW n \in Nat, NEW to, NEW rank, Nears(D, to, rank, n), NEW S,
           \A x \in D : (to[x] = x \/ to[x] \in S) => x \in S
    PROVE  \A x \in D : x \in S
<1> DEFINE T == {k \in 0 .. n : \A x \in D : rank[x] <= k => x \in S}
<1>1. /\ \A x \in D : to[x] \in D /\ rank[x] \in 0 .. n /\ rank[to[x]] \in 0 .. n
      /\ \A x \in D : to[x] # x => rank[to[x]] < rank[x]
    BY DEF Nears
<1>2. 0 \in T
    BY <1>1
<1>3. ASSUME NEW k \in 1 .. n, k - 1 \in T PROVE k \in T
    <2>1. ASSUME NEW x \in D, rank[x] <= k, to[x] # x PROVE to[x] \in S
        <3>1. to[x] \in D /\ rank[to[x]] <= k - 1
            BY <1>1, <2>1
        <3> QED
            BY <1>3, <3>1
    <2>2. \A x \in D : rank[x] <= k => x \in S
        BY <2>1
    <2> QED
        BY <2>2
<1> HIDE DEF T
<1>4. \A k \in 0 .. n : k \in T
    BY <1>2, <1>3, UpTo
<1>5. n \in T
    BY <1>4
<1> QED
    BY <1>1, <1>5 DEF T

-----------------------------------------------------------------------------
(* Places of a needle. *)

(* The places of a needle are places of the text. *)
LEMMA MatchType ==
    ASSUME NEW text \in Text, NEW needle \in Text
    PROVE  \A i \in MatchIndices(text, needle) : i \in 1 .. Len(text)
<1> DEFINE N == Len(text)
           L == Len(needle)
           Hit(i) == OccursAt(needle, text, i)
           Is(f) == f = [i \in 1 .. N + 1 |->
                            IF i + L > N + 1 THEN {} ELSE IF Hit(i) THEN {i} \union f[i + L] ELSE f[i + 1]]
           c == CHOOSE f : Is(f)
<1>1. MatchIndices(text, needle) = IF needle = <<>> THEN {} ELSE c[1]
    BY Zenon DEF MatchIndices
<1>2. N \in Nat /\ L \in Nat /\ (needle # <<>> => L >= 1)
    <2> DEFINE X == STRING
    <2>1. text \in Seq(X) /\ needle \in Seq(X)
        BY DEF Text
    <2> HIDE DEF X
    <2> QED
        BY <2>1
<1>3. CASE needle = <<>>
    BY <1>1, <1>3
<1>4. CASE needle # <<>>
    <2> HIDE DEF N, L, Hit
    <2> DEFINE D == 1 .. N + 1
               V == SUBSET D
               to == [i \in D |-> IF i + L > N + 1 THEN i ELSE IF Hit(i) THEN i + L ELSE i + 1]
               rank == [i \in D |-> N + 1 - i]
               base == [i \in D |-> {}]
               step == [p \in D \X V |-> IF Hit(p[1]) THEN {p[1]} \union p[2] ELSE p[2]]
    <2>1. L \in Nat /\ L >= 1
        BY <1>2, <1>4
    <2>2. \A i \in D : /\ to[i] \in D /\ rank[i] \in 0 .. N
                       /\ to[i] = IF i + L > N + 1 THEN i ELSE IF Hit(i) THEN i + L ELSE i + 1
        BY <1>2, <2>1
    <2>3. Nears(D, to, rank, N)
        <3>1. to \in [D -> D] /\ rank \in [D -> 0 .. N]
            BY <1>2, <2>1
        <3>2. \A i \in D : to[i] # i => rank[to[i]] < rank[i]
            BY <1>2, <2>1
        <3> HIDE DEF to, rank, D
        <3> QED
            BY <3>1, <3>2 DEF Nears
    <2>4. base \in [D -> V] /\ step \in [D \X V -> V]
        BY <1>2
    <2>5. \A i \in D, v \in V : step[<<i, v>>] = IF Hit(i) THEN {i} \union v ELSE v
        OBVIOUS
    <2>6. \E f : Descends(f, D, to, base, step)
        <3> HIDE DEF D, V, to, rank, base, step
        <3> QED
            BY <1>2, <2>3, <2>4, DescentExists
    <2>7. PICK g : Descends(g, D, to, base, step)
        BY <2>6
    <2>8. \A i \in D : g[i] \in V
        <3> DEFINE S == {i \in D : g[i] \in V}
        <3>1. \A i \in D : g[i] = IF to[i] = i THEN base[i] ELSE step[<<i, g[to[i]]>>]
            <4> HIDE DEF D, to, base, step
            <4> QED
                BY <2>7 DEF Descends
        <3> HIDE DEF D, V, to, rank, base, step
        <3>2. \A i \in D : (to[i] = i \/ to[i] \in S) => i \in S
            BY <2>2, <2>4, <3>1
        <3> HIDE DEF S
        <3>3. \A i \in D : i \in S
            BY <1>2, <2>3, <3>2, DescentKeeps
        <3> QED
            BY <3>3 DEF S
    <2>9. g = [i \in D |-> g[i]] /\ \A i \in D : g[i] = IF to[i] = i THEN {} ELSE step[<<i, g[to[i]]>>]
        <3>1. \A i \in D : base[i] = {}
            OBVIOUS
        <3> HIDE DEF D, to, base, step
        <3> QED
            BY <2>7, <3>1 DEF Descends
    <2>10. \A i \in D : /\ i + L > N + 1 <=> to[i] = i
                        /\ to[i] # i => to[i] = IF Hit(i) THEN i + L ELSE i + 1
        BY <1>2, <2>1
    <2>11. \A i \in D : g[i] = IF i + L > N + 1 THEN {} ELSE IF Hit(i) THEN {i} \union g[i + L] ELSE g[i + 1]
        <3> HIDE DEF D, V, to, rank, base, step
        <3> TAKE i \in D
        <3>1. CASE to[i] = i
            BY <2>9, <2>10, <3>1
        <3>2. CASE to[i] # i
            <4>1. ~(i + L > N + 1) /\ to[i] = IF Hit(i) THEN i + L ELSE i + 1
                BY <2>10, <3>2
            <4>2. g[i] = step[<<i, g[to[i]]>>] /\ g[to[i]] \in V
                BY <2>2, <2>8, <2>9, <3>2
            <4>3. g[i] = IF Hit(i) THEN {i} \union g[to[i]] ELSE g[to[i]]
                BY <2>5, <4>2, Zenon
            <4> QED
                BY <4>1, <4>3, Zenon
        <3> QED
            BY <3>1, <3>2
    <2>12. Is(g)
        <3> HIDE DEF V, to, rank, base, step
        <3> QED
            BY <2>9, <2>11
    <2>13. Is(c)
        BY <2>12, Zenon
    <2> HIDE DEF c
    <2>14. \A i \in D : c[i] = IF i + L > N + 1 THEN {} ELSE IF Hit(i) THEN {i} \union c[i + L] ELSE c[i + 1]
        BY <2>13
    <2>15. \A i \in D : c[i] \in SUBSET (1 .. N)
        <3> DEFINE S == {i \in D : c[i] \in SUBSET (1 .. N)}
        <3>1. \A i \in D : i + L <= N + 1 => i \in 1 .. N
            BY <1>2, <2>1
        <3>2. \A i \in D : (to[i] = i \/ to[i] \in S) => i \in S
            <4> TAKE i \in D
            <4> HAVE to[i] = i \/ to[i] \in S
            <4>1. CASE to[i] = i
                BY <2>10, <2>14, <4>1
            <4>2. CASE to[i] # i
                <5>1. i \in 1 .. N
                    BY <1>2, <2>1, <2>10, <3>1, <4>2
                <5>2. c[to[i]] \in SUBSET (1 .. N)
                    BY <4>2
                <5>3. c[i] = c[to[i]] \/ c[i] = {i} \union c[to[i]]
                    <6> HIDE DEF D, to
                    <6>1. ~(i + L > N + 1) /\ to[i] = IF Hit(i) THEN i + L ELSE i + 1
                        BY <2>10, <4>2
                    <6>2. c[i] = IF i + L > N + 1 THEN {} ELSE IF Hit(i) THEN {i} \union c[i + L] ELSE c[i + 1]
                        BY <2>14
                    <6> QED
                        BY <6>1, <6>2, Zenon
                <5> QED
                    BY <5>1, <5>2, <5>3
            <4> QED
                BY <4>1, <4>2
        <3> HIDE DEF S, D, to, rank
        <3>3. \A i \in D : i \in S
            BY <1>2, <2>3, <3>2, DescentKeeps
        <3> QED
            BY <3>3 DEF S
    <2>16. 1 \in D
        BY <1>2
    <2> HIDE DEF D
    <2>17. c[1] \in SUBSET (1 .. N)
        BY <2>15, <2>16
    <2> QED
        BY <1>1, <1>4, <2>17 DEF N
<1> QED
    BY <1>3, <1>4

-----------------------------------------------------------------------------
(* The segments of a needle. *)

(* The segments of a text, from its end: one more character before them. *)
SegNext(text, i, v) ==
    IF text[i] = NewLine THEN << <<>> >> \o v ELSE << <<text[i]>> \o Head(v) >> \o Tail(v)

SomeTexts == {v \in Seq(Text) : v # <<>>}

(* One character more: a line feed begins a segment, any other joins the first one. *)
LEMMA SegNextType ==
    ASSUME NEW text \in Text, NEW i \in 1 .. Len(text), NEW v \in SomeTexts
    PROVE  /\ SegNext(text, i, v) \in SomeTexts /\ Len(SegNext(text, i, v)) >= Len(v)
           /\ text[i] = NewLine => Len(SegNext(text, i, v)) >= 2
           /\ Len(v) \in Nat /\ Len(v) >= 1 /\ Len(SegNext(text, i, v)) \in Nat
<1> DEFINE T == Text
<1>1. v \in Seq(T) /\ v # <<>>
    BY DEF SomeTexts
<1>2. Len(v) \in Nat /\ Len(v) >= 1 /\ Head(v) \in T /\ Tail(v) \in Seq(T) /\ Len(Tail(v)) = Len(v) - 1
    <2> HIDE DEF T
    <2> QED
        BY <1>1
<1>3. CASE text[i] = NewLine
    <2>1. SegNext(text, i, v) = << <<>> >> \o v
        BY <1>3, Zenon DEF SegNext
    <2>2. << <<>> >> \in Seq(T)
        BY NoText, OneOf, Zenon
    <2>3. << <<>> >> \o v \in Seq(T) /\ Len(<< <<>> >> \o v) = Len(v) + 1
        <3> DEFINE a == << <<>> >>
        <3>1. a \in Seq(T) /\ Len(a) = 1
            BY <2>2
        <3> HIDE DEF a, T
        <3>2. a \o v \in Seq(T) /\ Len(a \o v) = Len(v) + 1
            <4>1. a \in Seq(T) /\ v \in Seq(T)
                BY <1>1, <3>1
            <4>2. a \o v \in Seq(T) /\ Len(a \o v) = Len(a) + Len(v)
                BY <4>1, Begins
            <4> QED
                BY <1>2, <3>1, <4>2
        <3> QED
            BY <3>2 DEF a
    <2> DEFINE w == << <<>> >> \o v
    <2>4. w \in Seq(T) /\ Len(w) = Len(v) + 1
        BY <2>3
    <2> HIDE DEF T, w
    <2>5. w \in Seq(T) /\ w # <<>> /\ Len(w) \in Nat /\ Len(w) >= Len(v) /\ Len(w) >= 2
        BY <1>2, <2>4
    <2>6. SegNext(text, i, v) = w
        BY <2>1, Zenon DEF w
    <2> QED
        BY <1>2, <2>5, <2>6 DEF SomeTexts, T
<1>4. CASE text[i] # NewLine
    <2> DEFINE head == <<text[i]>> \o Head(v)
               w == <<head>> \o Tail(v)
    <2>1. SegNext(text, i, v) = w
        BY <1>4, Zenon DEF SegNext
    <2>2. head \in T
        <3> DEFINE X == STRING
                   a == <<text[i]>>
                   b == Head(v)
        <3>1. text \in Seq(X) /\ b \in Seq(X)
            BY <1>2 DEF Text
        <3> HIDE DEF X, b
        <3>2. text[i] \in X
            BY <3>1
        <3>3. a \in Seq(X)
            BY <3>2, OneOf, Zenon
        <3> HIDE DEF a
        <3>4. a \o b \in Seq(X)
            BY <3>1, <3>3
        <3> QED
            BY <3>4 DEF a, b, X, Text
    <2> HIDE DEF head
    <2>3. <<head>> \in Seq(T) /\ Len(<<head>>) = 1
        BY <2>2, OneOf
    <2> DEFINE a == <<head>>
               b == Tail(v)
    <2>4. a \in Seq(T) /\ Len(a) = 1 /\ b \in Seq(T) /\ Len(b) = Len(v) - 1
        BY <1>2, <2>3
    <2> HIDE DEF T, a, b
    <2>5. a \o b \in Seq(T) /\ Len(a \o b) = Len(v)
        <3>1. a \in Seq(T) /\ b \in Seq(T)
            BY <2>4
        <3>2. a \o b \in Seq(T) /\ Len(a \o b) = Len(a) + Len(b)
            BY <3>1, Begins
        <3> QED
            BY <1>2, <2>4, <3>2
    <2>6. w = a \o b
        BY DEF a, b
    <2> HIDE DEF w
    <2>7. w \in Seq(T) /\ w # <<>> /\ Len(w) \in Nat /\ Len(w) >= Len(v)
        BY <1>2, <2>5, <2>6
    <2> QED
        BY <1>2, <1>4, <2>1, <2>7 DEF SomeTexts, T
<1> QED
    BY <1>3, <1>4

(* A text has a segment, and one with a line feed in it at least two. *)
LEMMA SegmentsType ==
    ASSUME NEW text \in Text
    PROVE  /\ Segments(text) \in SomeTexts
           /\ (\E j \in 1 .. Len(text) : text[j] = NewLine) => Len(Segments(text)) >= 2
<1> DEFINE N == Len(text)
           none == << <<>> >>
           OneMore(i, v) == SegNext(text, i, v)
           Is(f) == f = [i \in 1 .. N + 1 |-> IF i > N THEN none ELSE OneMore(i, f[i + 1])]
           c == CHOOSE f : Is(f)
           D == 1 .. N + 1
           V == SomeTexts
           to == [i \in D |-> IF i > N THEN i ELSE i + 1]
           rank == [i \in D |-> N + 1 - i]
           base == [i \in D |-> none]
           step == [p \in D \X V |-> IF p[1] > N THEN p[2] ELSE OneMore(p[1], p[2])]
<1>1. Segments(text) = c[1]
    BY Zenon DEF Segments, SegNext
<1>2. N \in Nat
    <2> DEFINE X == STRING
    <2>1. text \in Seq(X)
        BY DEF Text
    <2> HIDE DEF X
    <2> QED
        BY <2>1
<1>3. none \in V
    <2>1. none \in Seq(Text)
        BY NoText, OneOf, Zenon
    <2> QED
        BY <2>1 DEF SomeTexts
<1>4. \A i \in 1 .. N, v \in V : /\ OneMore(i, v) \in V /\ Len(OneMore(i, v)) >= Len(v)
                                 /\ text[i] = NewLine => Len(OneMore(i, v)) >= 2
                                 /\ Len(v) \in Nat /\ Len(OneMore(i, v)) \in Nat
    BY SegNextType
<1> HIDE DEF N, none, OneMore, V
<1>5. \A i \in D : /\ to[i] \in D /\ (to[i] = i <=> i > N) /\ (to[i] # i => to[i] = i + 1 /\ i \in 1 .. N)
    BY <1>2
<1>6. Nears(D, to, rank, N)
    <2>1. to \in [D -> D] /\ rank \in [D -> 0 .. N]
        BY <1>2
    <2>2. \A i \in D : to[i] # i => rank[to[i]] < rank[i]
        BY <1>2
    <2> HIDE DEF to, rank, D
    <2> QED
        BY <2>1, <2>2 DEF Nears
<1>7. /\ base \in [D -> V] /\ step \in [D \X V -> V]
      /\ \A i \in D : base[i] = none
      /\ \A i \in D, v \in V : step[<<i, v>>] = IF i > N THEN v ELSE OneMore(i, v)
    <2>1. base \in [D -> V] /\ \A i \in D : base[i] = none
        BY <1>3
    <2>2. ASSUME NEW p \in D \X V PROVE (IF p[1] > N THEN p[2] ELSE OneMore(p[1], p[2])) \in V
        BY <1>2, <1>4
    <2> QED
        BY <2>1, <2>2
<1> HIDE DEF D, to, rank, base, step
<1>8. \E f : Descends(f, D, to, base, step)
    BY <1>2, <1>6, <1>7, DescentExists
<1>9. PICK g : Descends(g, D, to, base, step)
    BY <1>8
<1>10. g = [i \in D |-> g[i]] /\ \A i \in D : g[i] = IF to[i] = i THEN base[i] ELSE step[<<i, g[to[i]]>>]
    BY <1>9 DEF Descends
<1>11. \A i \in D : g[i] \in V
    <2> DEFINE S == {i \in D : g[i] \in V}
    <2>1. \A i \in D : (to[i] = i \/ to[i] \in S) => i \in S
        BY <1>5, <1>7, <1>10, ZenonT(40)
    <2> HIDE DEF S
    <2>2. \A i \in D : i \in S
        BY <1>2, <1>6, <2>1, DescentKeeps
    <2> QED
        BY <2>2 DEF S
<1>12. \A i \in D : g[i] = IF i > N THEN none ELSE OneMore(i, g[i + 1])
    <2> TAKE i \in D
    <2>1. CASE to[i] = i
        BY <1>5, <1>7, <1>10, <2>1
    <2>2. CASE to[i] # i
        <3>1. ~(i > N) /\ to[i] = i + 1
            BY <1>5, <2>2
        <3>2. g[i] = step[<<i, g[to[i]]>>] /\ g[to[i]] \in V
            BY <1>5, <1>10, <1>11, <2>2
        <3>3. g[i] = IF i > N THEN g[to[i]] ELSE OneMore(i, g[to[i]])
            BY <1>7, <3>2, Zenon
        <3> QED
            BY <3>1, <3>3, Zenon
    <2> QED
        BY <2>1, <2>2
<1>13. Is(g)
    BY <1>10, <1>12 DEF D
<1>14. Is(c)
    BY <1>13, Zenon
<1> HIDE DEF c
<1>15. \A i \in D : c[i] = IF i > N THEN none ELSE OneMore(i, c[i + 1])
    BY <1>14 DEF D
<1> DEFINE Split(i) == \E j \in i .. N : text[j] = NewLine
           S == {i \in D : c[i] \in V /\ Len(c[i]) \in Nat /\ (Split(i) => Len(c[i]) >= 2)}
<1>16. \A i \in D : (to[i] = i \/ to[i] \in S) => i \in S
    <2> TAKE i \in D
    <2> HAVE to[i] = i \/ to[i] \in S
    <2>0. i \in Nat
        BY DEF D
    <2>1. CASE to[i] = i
        <3>1. i > N /\ c[i] = none
            BY <1>5, <1>15, <2>1
        <3>2. ~Split(i) /\ Len(none) \in Nat
            BY <1>2, <2>0, <3>1 DEF none
        <3> QED
            BY <1>3, <3>1, <3>2
    <2>2. CASE to[i] # i
        <3>1. i \in 1 .. N /\ to[i] = i + 1 /\ c[i] = OneMore(i, c[i + 1])
            <4>1. ~(i > N) /\ to[i] = i + 1 /\ i \in 1 .. N
                BY <1>5, <2>2
            <4> QED
                BY <1>15, <4>1, Zenon
        <3>2. c[i + 1] \in V /\ Len(c[i + 1]) \in Nat /\ (Split(i + 1) => Len(c[i + 1]) >= 2)
            BY <2>2, <3>1, Zenon
        <3>3. /\ OneMore(i, c[i + 1]) \in V /\ Len(OneMore(i, c[i + 1])) >= Len(c[i + 1])
              /\ text[i] = NewLine => Len(OneMore(i, c[i + 1])) >= 2
              /\ Len(OneMore(i, c[i + 1])) \in Nat
            BY <1>4, <3>1, <3>2
        <3>4. Split(i) => text[i] = NewLine \/ Split(i + 1)
            <4>1. \A j \in i .. N : j = i \/ j \in i + 1 .. N
                BY <1>2, <2>0
            <4> QED
                BY <4>1
        <3> HIDE DEF Split
        <3> QED
            BY <3>1, <3>2, <3>3, <3>4
    <2> QED
        BY <2>1, <2>2
<1> HIDE DEF S
<1>17. \A i \in D : i \in S
    BY <1>2, <1>6, <1>16, DescentKeeps
<1>18. 1 \in D
    BY <1>2 DEF D
<1>19. c[1] \in V /\ (Split(1) => Len(c[1]) >= 2)
    <2>1. 1 \in S
        BY <1>17, <1>18
    <2> QED
        BY <2>1 DEF S
<1> QED
    BY <1>1, <1>19, Zenon DEF V, N

-----------------------------------------------------------------------------
(* Needles of several rows. *)

(* Where a needle of several lines is found, its first segment ends a row. *)
LEMMA MultirowType ==
    ASSUME NEW rows, Len(rows) \in Nat, DOMAIN rows = 1 .. Len(rows), NEW segments, Len(segments) \in Nat, Len(segments) >= 2
    PROVE  \A row \in MultirowMatches(rows, segments) :
               row \in 1 .. Len(rows) /\ IsSuffix(segments[1], TrimEnd(rows[row].text))
<1> DEFINE R == Len(rows)
           extra == Len(segments) - 1
           yes == TRUE
           no == FALSE
           lines == [i \in DOMAIN rows |-> TrimEnd(rows[i].text)]
           middle == WholeRowsAt(lines, SubSeq(segments, 2, extra))
           ColumnOf(row, i) == rows[row].cols[i]
           FirstColumn(row) == ColumnOf(row, Len(lines[row]) - Len(segments[1]) + 1)
           MatchedAt(row) == /\ IsSuffix(segments[1], lines[row])
                             /\ row + 1 \in middle
                             /\ IsPrefix(Last(segments), lines[row + extra])
           Spent(row) == IF Last(segments) = <<>> THEN -1 ELSE ColumnOf(row, Len(Last(segments)))
           Opens(row, ended) == /\ MatchedAt(row)
                                 /\ ~(ended /\ segments[1] # <<>> /\ FirstColumn(row) <= Spent(row))
           Hit(p) == Opens(p[1], p[2])
           D == (1 .. R + 1) \X BOOLEAN
           Is(f) == f = [p \in D |-> IF p[1] + extra > R THEN {}
                                     ELSE IF Hit(p) THEN {p[1]} \union f[<<p[1] + extra, yes>>]
                                     ELSE f[<<p[1] + 1, no>>]]
           c == CHOOSE f : Is(f)
           start == <<1, no>>
           Good == {row \in 1 .. R : IsSuffix(segments[1], TrimEnd(rows[row].text))}
<1>1. MultirowMatches(rows, segments) = c[start]
    BY Zenon DEF MultirowMatches
<1>2. R \in Nat /\ extra \in Nat /\ extra >= 1 /\ yes \in BOOLEAN /\ no \in BOOLEAN
    OBVIOUS
<1>3. \A p \in D : Hit(p) => IsSuffix(segments[1], lines[p[1]])
    BY Zenon
<1>4. \A row \in 1 .. R : lines[row] = TrimEnd(rows[row].text)
    OBVIOUS
<1> HIDE DEF R, extra, yes, no, Hit, lines
<1> DEFINE V == SUBSET (1 .. R + 1)
           far == [p \in D |-> IF Hit(p) THEN <<p[1] + extra, yes>> ELSE <<p[1] + 1, no>>]
           to == [p \in D |-> IF p[1] + extra > R THEN p ELSE far[p]]
           rank == [p \in D |-> R + 1 - p[1]]
           base == [p \in D |-> {}]
           step == [q \in D \X V |-> IF Hit(q[1]) THEN {q[1][1]} \union q[2] ELSE q[2]]
<1>5. \A p \in D : p[1] \in 1 .. R + 1 /\ p[1] \in Nat
    BY <1>2
<1>6. \A p \in D : ~(p[1] + extra > R) =>
          /\ p[1] \in 1 .. R
          /\ far[p] \in D /\ far[p] # p /\ far[p][1] > p[1]
          /\ far[p] = IF Hit(p) THEN <<p[1] + extra, yes>> ELSE <<p[1] + 1, no>>
    <2> TAKE p \in D
    <2> HAVE ~(p[1] + extra > R)
    <2>1. p[1] \in 1 .. R + 1 /\ p[1] \in Nat
        BY <1>5
    <2> DEFINE r == p[1]
               a == <<r + extra, yes>>
               b == <<r + 1, no>>
    <2>2. far[p] = IF Hit(p) THEN a ELSE b
        OBVIOUS
    <2>3. a[1] = r + extra /\ b[1] = r + 1
        OBVIOUS
    <2>4. r + extra \in 1 .. R + 1 /\ r + 1 \in 1 .. R + 1 /\ r + extra > r /\ r + 1 > r /\ r \in 1 .. R
        BY <1>2, <2>1
    <2>5. a \in D /\ b \in D
        BY <1>2, <2>4
    <2>6. a[1] > p[1] /\ b[1] > p[1] /\ a # p /\ b # p
        BY <2>1, <2>3, <2>4
    <2> HIDE DEF far, a, b, D
    <2>7. far[p] = a \/ far[p] = b
        BY <2>2
    <2> QED
        BY <2>2, <2>4, <2>5, <2>6, <2>7 DEF a, b
<1>7. \A p \in D : /\ to[p] \in D /\ (p[1] + extra > R <=> to[p] = p)
                   /\ to[p] # p => to[p] = far[p]
    <2>1. \A p \in D : to[p] = IF p[1] + extra > R THEN p ELSE far[p]
        OBVIOUS
    <2> HIDE DEF far, to, D
    <2> QED
        BY <1>6, <2>1
<1>8. Nears(D, to, rank, R)
    <2>1. \A p \in D : rank[p] = R + 1 - p[1] /\ rank[p] \in 0 .. R
        BY <1>2, <1>5
    <2>2. \A p \in D : to[p] # p => rank[to[p]] < rank[p]
        <3> TAKE p \in D
        <3> HAVE to[p] # p
        <3>1. to[p] \in D /\ to[p] = far[p] /\ far[p][1] > p[1] /\ far[p] \in D
            BY <1>6, <1>7
        <3> HIDE DEF D, to, far, rank
        <3>2. to[p][1] \in Nat /\ p[1] \in Nat /\ to[p][1] > p[1]
            BY <1>5, <3>1
        <3> QED
            BY <1>2, <2>1, <3>1, <3>2
    <2>3. to \in [D -> D] /\ rank \in [D -> 0 .. R]
        <3>1. to = [p \in D |-> to[p]] /\ rank = [p \in D |-> rank[p]]
            OBVIOUS
        <3> HIDE DEF to, rank, D
        <3> QED
            BY <1>7, <2>1, <3>1
    <2> HIDE DEF to, rank, D
    <2> QED
        BY <2>2, <2>3 DEF Nears
<1>9. /\ base \in [D -> V] /\ step \in [D \X V -> V]
      /\ \A p \in D : base[p] = {}
      /\ \A p \in D, v \in V : step[<<p, v>>] = IF Hit(p) THEN {p[1]} \union v ELSE v
    <2>1. base \in [D -> V] /\ \A p \in D : base[p] = {}
        OBVIOUS
    <2>2. ASSUME NEW q \in D \X V PROVE (IF Hit(q[1]) THEN {q[1][1]} \union q[2] ELSE q[2]) \in V
        <3>1. q[1] \in D /\ q[2] \in V
            OBVIOUS
        <3>2. q[1][1] \in 1 .. R + 1
            BY <1>5, <3>1
        <3> QED
            BY <3>1, <3>2
    <2> HIDE DEF D, V
    <2>3. step \in [D \X V -> V]
        BY <2>2
    <2>4. \A p \in D, v \in V : step[<<p, v>>] = IF Hit(p) THEN {p[1]} \union v ELSE v
        OBVIOUS
    <2> QED
        BY <2>1, <2>3, <2>4
<1> HIDE DEF D, V, far, to, rank, base, step
<1>10. \E f : Descends(f, D, to, base, step)
    BY <1>2, <1>8, <1>9, DescentExists
<1>11. PICK g : Descends(g, D, to, base, step)
    BY <1>10
<1>12. g = [p \in D |-> g[p]] /\ \A p \in D : g[p] = IF to[p] = p THEN base[p] ELSE step[<<p, g[to[p]]>>]
    BY <1>11 DEF Descends
<1>13. \A p \in D : g[p] \in V
    <2> DEFINE S == {p \in D : g[p] \in V}
    <2>1. \A p \in D : (to[p] = p \/ to[p] \in S) => p \in S
        <3> TAKE p \in D
        <3> HAVE to[p] = p \/ to[p] \in S
        <3>1. CASE to[p] = p
            <4>1. g[p] = base[p] /\ base[p] \in V
                BY <1>9, <1>12, <3>1
            <4> QED
                BY <4>1
        <3>2. CASE to[p] # p
            <4>1. g[p] = step[<<p, g[to[p]]>>] /\ g[to[p]] \in V
                BY <1>12, <3>2
            <4>2. step[<<p, g[to[p]]>>] \in V
                BY <1>9, <4>1
            <4> QED
                BY <4>1, <4>2
        <3> QED
            BY <3>1, <3>2
    <2> HIDE DEF S
    <2>2. \A p \in D : p \in S
        BY <1>2, <1>8, <2>1, DescentKeeps
    <2> QED
        BY <2>2 DEF S
<1> DEFINE Rhs(f, p) == IF p[1] + extra > R THEN {}
                        ELSE IF Hit(p) THEN {p[1]} \union f[<<p[1] + extra, yes>>]
                        ELSE f[<<p[1] + 1, no>>]
<1>14. \A p \in D : g[p] = Rhs(g, p)
    <2> TAKE p \in D
    <2>1. CASE to[p] = p
        <3>1. g[p] = {} /\ p[1] + extra > R
            BY <1>7, <1>9, <1>12, <2>1
        <3> QED
            BY <3>1, Zenon
    <2>2. CASE to[p] # p
        <3>1. ~(p[1] + extra > R) /\ to[p] = far[p] /\ to[p] \in D
            BY <1>7, <2>2
        <3>2. to[p] = IF Hit(p) THEN <<p[1] + extra, yes>> ELSE <<p[1] + 1, no>>
            BY <1>6, <3>1
        <3>3. g[p] = step[<<p, g[to[p]]>>] /\ g[to[p]] \in V
            BY <1>12, <1>13, <2>2, <3>1
        <3>4. g[p] = IF Hit(p) THEN {p[1]} \union g[to[p]] ELSE g[to[p]]
            BY <1>9, <3>3, Zenon
        <3> QED
            BY <3>1, <3>2, <3>4, Zenon
    <2> QED
        BY <2>1, <2>2
<1>15. Is(g)
    <2>1. g = [p \in D |-> Rhs(g, p)]
        <3> HIDE DEF Rhs
        <3> QED
            BY <1>12, <1>14
    <2> QED
        BY <2>1, Zenon
<1>16. Is(c)
    BY <1>15, Zenon
<1> HIDE DEF c
<1>17. \A p \in D : c[p] = Rhs(c, p)
    <2>1. c = [p \in D |-> Rhs(c, p)]
        BY <1>16, Zenon
    <2> HIDE DEF Rhs
    <2> QED
        BY <2>1
<1> HIDE DEF Is
<1> DEFINE S == {p \in D : c[p] \in SUBSET Good}
<1>18. \A p \in D : (to[p] = p \/ to[p] \in S) => p \in S
    <2> TAKE p \in D
    <2> HAVE to[p] = p \/ to[p] \in S
    <2>1. CASE to[p] = p
        <3>1. p[1] + extra > R
            BY <1>7, <2>1
        <3>2. c[p] = {}
            BY <1>17, <3>1, Zenon
        <3> QED
            BY <3>2
    <2>2. CASE to[p] # p
        <3>1. ~(p[1] + extra > R) /\ to[p] = far[p] /\ to[p] \in D /\ p[1] \in 1 .. R
            BY <1>6, <1>7, <2>2
        <3>2. to[p] = IF Hit(p) THEN <<p[1] + extra, yes>> ELSE <<p[1] + 1, no>>
            BY <1>6, <3>1
        <3>3. c[to[p]] \in SUBSET Good
            BY <2>2
        <3>4. c[p] = IF Hit(p) THEN {p[1]} \union c[to[p]] ELSE c[to[p]]
            BY <1>17, <3>1, <3>2, Zenon
        <3>5. Hit(p) => p[1] \in Good
            BY <1>3, <1>4, <3>1
        <3> HIDE DEF Good
        <3>6. c[p] \in SUBSET Good
            BY <3>3, <3>4, <3>5
        <3> QED
            BY <3>6
    <2> QED
        BY <2>1, <2>2
<1> HIDE DEF S
<1>19. \A p \in D : p \in S
    BY <1>2, <1>8, <1>18, DescentKeeps
<1>20. start \in D
    BY <1>2 DEF D
<1> HIDE DEF start, Good
<1>21. c[start] \in SUBSET Good
    BY <1>19, <1>20 DEF S
<1>22. \A row \in c[start] : row \in Good
    BY <1>21
<1> QED
    BY <1>1, <1>22, Zenon DEF Good, R

-----------------------------------------------------------------------------
(* What is found. *)

(* The rows as they are searched: what is left of a row has columns. *)
LEMMA SearchableType ==
    ASSUME NEW s, IsScreen(s)
    PROVE  /\ s.rows \in Nat /\ Len(SearchableRows(s)) = s.rows /\ DOMAIN SearchableRows(s) = 1 .. s.rows
           /\ \A r \in 1 .. s.rows :
                  /\ r - 1 \in Nat /\ TrimEnd(SearchableRows(s)[r].text) \in Text
                  /\ \A i \in 1 .. Len(TrimEnd(SearchableRows(s)[r].text)) : SearchableRows(s)[r].cols[i] \in Nat
<1> DEFINE rows == SearchableRows(s)
           yes == TRUE
           n == s.rows
           Row(r) == Laid(CellsOf(s, r - 1), yes)
<1>1. n \in Nat
    BY NarrowNat, Zenon DEF IsScreen
<1>2. rows = [r \in 1 .. n |-> Row(r)]
    BY Zenon DEF SearchableRows, SearchableRow
<1> HIDE DEF rows, yes
<1>3. ASSUME NEW r \in 1 .. n
      PROVE  /\ r - 1 \in Nat /\ TrimEnd(Row(r).text) \in Text
             /\ \A i \in 1 .. Len(TrimEnd(Row(r).text)) : Row(r).cols[i] \in Nat
    <2> DEFINE x == Row(r)
               cells == CellsOf(s, r - 1)
    <2>1. IsCells(cells)
        BY RowOf, Zenon
    <2> HIDE DEF cells
    <2>2. Laid(cells, yes).text \in Text /\ Laid(cells, yes).cols \in Seq(Nat)
          /\ Len(Laid(cells, yes).text) = Len(Laid(cells, yes).cols)
        BY <2>1, LaidType
    <2>3. x.text \in Text /\ x.cols \in Seq(Nat) /\ Len(x.text) = Len(x.cols)
        BY <2>2, Zenon DEF cells
    <2> HIDE DEF x, Row
    <2> DEFINE text == x.text
               cols == x.cols
               kept == TrimEnd(text)
    <2>4. text \in Text /\ cols \in Seq(Nat) /\ Len(text) = Len(cols)
        BY <2>3
    <2> HIDE DEF text, cols
    <2>5. kept \in Text /\ Len(kept) \in Nat /\ Len(kept) <= Len(text)
        BY <2>4, TrimType
    <2> HIDE DEF kept
    <2>6. \A i \in 1 .. Len(kept) : cols[i] \in Nat
        <3>1. Len(cols) \in Nat /\ \A i \in 1 .. Len(cols) : cols[i] \in Nat
            BY <2>4
        <3> QED
            BY <2>4, <2>5, <3>1
    <2>7. r - 1 \in Nat
        BY <1>1
    <2> QED
        BY <2>5, <2>6, <2>7 DEF text, cols, kept, x
<1>4. DOMAIN rows = 1 .. n /\ \A r \in 1 .. n : rows[r] = Row(r)
    BY <1>2
<1>5. Len(rows) = n
    <2> DEFINE V == {Row(r) : r \in 1 .. n}
    <2> HIDE DEF Row
    <2>1. [r \in 1 .. n |-> Row(r)] \in Seq(V) /\ Len([r \in 1 .. n |-> Row(r)]) = n
        BY <1>1
    <2> QED
        BY <1>2, <2>1
<1> HIDE DEF Row
<1>6. \A r \in 1 .. n : /\ r - 1 \in Nat /\ TrimEnd(rows[r].text) \in Text
                        /\ \A i \in 1 .. Len(TrimEnd(rows[r].text)) : rows[r].cols[i] \in Nat
    BY <1>3, <1>4, Zenon
<1> QED
    BY <1>1, <1>4, <1>5, <1>6, Zenon DEF rows

IsPlace(p) == p[1] \in Nat /\ p[2] \in Nat

(* A segment that ends a line starts on it. *)
LEMMA SuffixIn ==
    ASSUME NEW a \in Text, NEW b \in Text, IsSuffix(a, b), a # <<>>
    PROVE  Len(b) - Len(a) + 1 \in 1 .. Len(b)
<1> DEFINE X == STRING
<1>1. a \in Seq(X) /\ b \in Seq(X)
    BY DEF Text
<1> HIDE DEF X
<1>2. Len(a) \in Nat /\ Len(b) \in Nat /\ Len(a) >= 1
    BY <1>1
<1>3. Len(Reverse(a)) <= Len(Reverse(b))
    BY Zenon DEF IsSuffix, IsPrefix
<1>4. Len(Reverse(a)) = Len(a) /\ Len(Reverse(b)) = Len(b)
    BY <1>1 DEF Reverse
<1> QED
    BY <1>2, <1>3, <1>4

(* The place of a match of several rows is a row and a column. *)
LEMMA MultirowPlaceType ==
    ASSUME NEW s, IsScreen(s), NEW segments \in SomeTexts, NEW row \in 1 .. s.rows,
           IsSuffix(segments[1], TrimEnd(SearchableRows(s)[row].text))
    PROVE  IsPlace(MultirowPlace(SearchableRows(s), segments, row))
<1> DEFINE rows == SearchableRows(s)
           filled == {k \in DOMAIN segments : segments[k] # <<>>}
           k == CHOOSE i \in filled : \A j \in filled : i <= j
           line == TrimEnd(rows[row].text)
           at == Len(line) - Len(segments[1]) + 1
           one == <<row - 1 + Len(segments) - 1, 0>>
           two == <<row - 1, rows[row].cols[at]>>
           three == <<row - 1 + k - 1, 0>>
           none == filled = {}
           first == filled # {} /\ k = 1
<1>1. MultirowPlace(rows, segments, row) = CASE none -> one [] first -> two [] OTHER -> three
    BY Zenon DEF MultirowPlace
<1>2. /\ row - 1 \in Nat /\ line \in Text /\ \A i \in 1 .. Len(line) : rows[row].cols[i] \in Nat
    BY SearchableType
<1>3. segments \in Seq(Text) /\ segments # <<>>
    BY DEF SomeTexts
<1>4. Len(segments) \in Nat /\ Len(segments) >= 1 /\ DOMAIN segments = 1 .. Len(segments) /\ segments[1] \in Text
    <2> DEFINE T == Text
    <2>1. segments \in Seq(T)
        BY <1>3
    <2> HIDE DEF T
    <2>2. Len(segments) \in Nat /\ Len(segments) >= 1 /\ DOMAIN segments = 1 .. Len(segments) /\ segments[1] \in T
        BY <1>3, <2>1
    <2> QED
        BY <2>2 DEF T
<1>5. filled # {} => k \in filled
    <2> SUFFICES ASSUME filled # {} PROVE k \in filled
        OBVIOUS
    <2>1. filled \in SUBSET Nat
        BY <1>4
    <2> HIDE DEF filled
    <2>2. Min(filled) \in filled /\ \A y \in filled : Min(filled) =< y
        BY <2>1, NatMin
    <2> QED
        BY <2>2, Zenon
<1>6. none => IsPlace(one)
    BY <1>2, <1>4 DEF IsPlace
<1>7. first => IsPlace(two)
    <2> SUFFICES ASSUME first PROVE IsPlace(two)
        OBVIOUS
    <2>1. segments[1] # <<>>
        <3>1. 1 \in filled
            BY <1>5
        <3> QED
            BY <3>1
    <2>2. at \in 1 .. Len(line)
        <3> DEFINE a == segments[1]
        <3>1. a \in Text /\ line \in Text /\ IsSuffix(a, line) /\ a # <<>>
            BY <1>2, <1>4, <2>1
        <3> HIDE DEF a, line
        <3>2. Len(line) - Len(a) + 1 \in 1 .. Len(line)
            BY <3>1, SuffixIn
        <3> QED
            BY <3>2 DEF a
    <2> HIDE DEF at
    <2>3. rows[row].cols[at] \in Nat
        BY <1>2, <2>2
    <2> QED
        BY <1>2, <2>3 DEF IsPlace
<1>8. ~none => IsPlace(three)
    <2> SUFFICES ASSUME ~none PROVE IsPlace(three)
        OBVIOUS
    <2>1. k \in 1 .. Len(segments)
        BY <1>4, <1>5
    <2> HIDE DEF k
    <2>2. row - 1 + k - 1 \in Nat
        BY <1>2, <1>4, <2>1
    <2> QED
        BY <2>2 DEF IsPlace
<1> HIDE DEF none, first, one, two, three
<1>9. IsPlace(MultirowPlace(rows, segments, row))
    <2>1. first => ~none
        BY DEF none, first
    <2> DEFINE place == MultirowPlace(rows, segments, row)
    <2> HIDE DEF rows, place
    <2>2. place = CASE none -> one [] first -> two [] OTHER -> three
        BY <1>1 DEF place, rows
    <2>3. IsPlace(place)
        BY <1>6, <1>7, <1>8, <2>1, <2>2
    <2> QED
        BY <2>3 DEF place
<1> QED
    BY <1>9

(* What is found is a place. *)
LEMMA FoundAllType ==
    ASSUME NEW s, IsScreen(s), NEW needle \in Text
    PROVE  \A p \in FindAll(s, needle) : IsPlace(p)
<1> DEFINE wanted == Nfc(needle)
           rows == SearchableRows(s)
           segments == Segments(wanted)
           oneLine == wanted # <<>> /\ (\A i \in DOMAIN wanted : wanted[i] # NewLine)
           inRow == UNION {{<<r - 1, rows[r].cols[i]>> : i \in MatchIndices(TrimEnd(rows[r].text), wanted)}
                           : r \in DOMAIN rows}
           inRows == {MultirowPlace(rows, segments, r) : r \in MultirowMatches(rows, segments)}
           none == wanted = <<>>
           start == {<<0, 0>>}
<1>1. FindAll(s, needle) = CASE none -> start [] oneLine -> inRow [] OTHER -> inRows
    BY Zenon DEF FindAll
<1>2. wanted \in Text
    BY NfcType
<1> HIDE DEF wanted
<1>3. \A p \in start : IsPlace(p)
    BY DEF IsPlace
<1>4. ASSUME NEW p \in inRow PROVE IsPlace(p)
    <2>1. DOMAIN rows = 1 .. s.rows
        BY SearchableType
    <2>2. PICK r \in 1 .. s.rows : \E i \in MatchIndices(TrimEnd(rows[r].text), wanted) : p = <<r - 1, rows[r].cols[i]>>
        BY <1>4, <2>1
    <2>3. PICK i \in MatchIndices(TrimEnd(rows[r].text), wanted) : p = <<r - 1, rows[r].cols[i]>>
        BY <2>2
    <2> DEFINE line == TrimEnd(rows[r].text)
    <2>4. r - 1 \in Nat /\ line \in Text /\ \A j \in 1 .. Len(line) : rows[r].cols[j] \in Nat
        BY SearchableType
    <2>5. i \in MatchIndices(line, wanted)
        BY <2>3
    <2> HIDE DEF line
    <2>6. i \in 1 .. Len(line)
        BY <1>2, <2>4, <2>5, MatchType
    <2> QED
        BY <2>3, <2>4, <2>6 DEF IsPlace
<1>5. ASSUME ~none, ~oneLine, NEW p \in inRows PROVE IsPlace(p)
    <2>1. segments \in SomeTexts /\ ((\E j \in 1 .. Len(wanted) : wanted[j] = NewLine) => Len(segments) >= 2)
        BY <1>2, SegmentsType
    <2>2. \E j \in 1 .. Len(wanted) : wanted[j] = NewLine
        <3> DEFINE X == STRING
        <3>1. wanted \in Seq(X)
            BY <1>2 DEF Text
        <3> HIDE DEF X
        <3>2. DOMAIN wanted = 1 .. Len(wanted)
            BY <3>1
        <3> QED
            BY <1>5, <3>2
    <2>3. Len(segments) \in Nat /\ Len(segments) >= 2
        <3>1. segments \in Seq(Text)
            BY <2>1 DEF SomeTexts
        <3> HIDE DEF segments
        <3> QED
            BY <2>1, <2>2, <3>1
    <2>4. s.rows \in Nat /\ Len(rows) = s.rows /\ DOMAIN rows = 1 .. Len(rows)
        BY SearchableType
    <2> HIDE DEF segments
    <2>5. PICK r \in MultirowMatches(rows, segments) : p = MultirowPlace(rows, segments, r)
        BY <1>5
    <2> HIDE DEF rows
    <2>6. r \in 1 .. Len(rows) /\ IsSuffix(segments[1], TrimEnd(rows[r].text))
        BY <2>3, <2>4, <2>5, MultirowType
    <2>7. r \in 1 .. s.rows /\ IsSuffix(segments[1], TrimEnd(SearchableRows(s)[r].text))
        BY <2>4, <2>6 DEF rows
    <2>8. IsPlace(MultirowPlace(SearchableRows(s), segments, r))
        BY <2>1, <2>7, MultirowPlaceType
    <2> QED
        BY <2>5, <2>8 DEF rows
<1>6. oneLine => ~none
    OBVIOUS
<1> DEFINE found == FindAll(s, needle)
<1> HIDE DEF none, oneLine, start, inRow, inRows, found
<1>7. found = CASE none -> start [] oneLine -> inRow [] OTHER -> inRows
    BY <1>1 DEF found
<1>8. \A p \in found : IsPlace(p)
    BY <1>3, <1>4, <1>5, <1>6, <1>7
<1> QED
    BY <1>8 DEF found

(* What is found is a row and a column. *)
LEMMA FoundType ==
    ASSUME NEW s, IsScreen(s), NEW needle \in Text, NEW p \in Find(s, needle)
    PROVE  p[1] \in Nat /\ p[2] \in Nat
<1>1. p \in FindAll(s, needle)
    BY DEF Find, FirstOf
<1> QED
    BY <1>1, FoundAllType, Zenon DEF IsPlace

-----------------------------------------------------------------------------
(* The session. *)

(* The inductive invariant of a session: the screen it holds and the file it has
   saved are a screen and a file, the modes are modes, and as long as nothing
   was unclear, what the test meant is what the application has taken its input
   for and what it will take for what is written and not read. *)
IInv ==
    /\ session \in Sessions
    /\ modes \in AllModes
    /\ IsScreen(screen)
    /\ saved = NoFile \/ IsFile(saved)
    /\ ~unclear => Pending(modes, wire, heard, meant)

(* What a session may hold. *)
LEMMA SessionIs ==
    ASSUME NEW s \in Sessions
    PROVE  /\ (\A x \in s.screens : IsScreen(x)) /\ (\A file \in s.files : IsFile(file))
           /\ (\A mask \in s.masks : mask[1] \in {"matching", "rect", "style"}) /\ s.found \subseteq Text
           /\ s.modes \subseteq AllModes /\ s.focus \subseteq BOOLEAN
           /\ s.keys \subseteq Keys /\ s.texts \subseteq Seq(Char) /\ s.pastes \subseteq Seq(Char)
           /\ \A c \in s.clicks : c.button \in Buttons /\ c.mods \subseteq Modifiers /\ c.at \in Spots
           /\ \A d \in s.drags : /\ d.button \in Buttons /\ d.mods \subseteq Modifiers
                                 /\ d.from \in Spots /\ d.to \in Spots
           /\ \A c \in s.scrolls : c.wheel \in Wheels /\ c.mods \subseteq Modifiers /\ c.at \in Spots
BY SessionsAssumption, Zenon DEF Buttons, Wheels

(* The size of a screen. *)
LEMMA ScreenSized ==
    ASSUME NEW s, IsScreen(s)
    PROVE  Sized(s) /\ s.cols \in Narrow /\ s.rows \in Narrow
<1>1. s.cols \in Narrow /\ s.rows \in Narrow
    BY Zenon DEF IsScreen
<1>2. \A n \in Narrow : n \in Nat
    BY SMTT(40) DEF Narrow
<1> QED
    BY <1>1, <1>2, Zenon DEF Sized

(* No screen is an empty one. *)
LEMMA NoScreenIs == IsScreen(NoScreen)
<1>1. /\ DOMAIN NoScreen = ScreenFields
      /\ NoScreen.cols = 0 /\ NoScreen.rows = 0 /\ NoScreen.cells = <<>>
    BY DEF NoScreen, ScreenFields
<1>2. HasLength(<<>>, 0) /\ 0 \in Narrow /\ 1 .. 0 = {}
    BY DEF HasLength, Narrow
<1> QED
    BY <1>1, <1>2 DEF IsScreen

(* A session begins in its invariant. *)
LEMMA InitIsSession == Init => IInv
<1> SUFFICES ASSUME Init PROVE IInv
    OBVIOUS
<1>1. session \in Sessions /\ screen = NoScreen /\ modes = DefaultModes
      /\ saved \in session.files \union {NoFile}
      /\ wire = <<>> /\ heard = <<>> /\ meant = <<>>
    BY DEF Init
<1>2. modes \in AllModes
    BY <1>1 DEF AllModes, DefaultModes
<1>3. saved = NoFile \/ IsFile(saved)
    BY <1>1, SessionIs
<1>4. Pending(modes, wire, heard, meant)
    <2>1. Hearing(modes, <<>>) = <<>>
        BY HearingOne
    <2>2. <<>> \in Seq(Bytes) /\ <<>> \in Seq(AllEvents) /\ <<>> \o <<>> = <<>> /\ 1 .. Len(<<>>) = {}
        OBVIOUS
    <2> QED
        BY <1>1, <2>1, <2>2 DEF Pending
<1>5. IsScreen(screen)
    BY <1>1, NoScreenIs
<1> QED
    BY <1>1, <1>2, <1>3, <1>4, <1>5 DEF IInv

(* What is not about the input leaves it alone. *)
LEMMA LookingKeeps ==
    ASSUME IInv, Looking, IsScreen(screen'), saved' = NoFile \/ IsFile(saved')
    PROVE  IInv'
BY Zenon DEF IInv, Looking, Step

(* What is written for an input is what is meant by it, if that is clear. *)
LEMMA WritingKeeps ==
    ASSUME IInv, NEW bytes, NEW meaning, Written(bytes, meaning),
           ~unclear' => ~unclear /\ Understood(modes, bytes, meaning)
    PROVE  IInv'
<1>1. /\ session' = session /\ screen' = screen /\ saved' = saved /\ modes' = modes /\ heard' = heard
      /\ wire' = wire \o SetToSeq(bytes) /\ meant' = meant \o meaning
    BY Zenon DEF Written, Step
<1>2. ASSUME ~unclear'
      PROVE  Pending(modes, wire \o SetToSeq(bytes), heard, meant \o meaning)
    <2>1. modes \in AllModes /\ Pending(modes, wire, heard, meant) /\ Understood(modes, bytes, meaning)
        BY <1>2, Zenon DEF IInv
    <2> QED
        BY <2>1, PendingMore
<1>3. ~unclear' => Pending(modes', wire', heard', meant')
    BY <1>1, <1>2, Zenon
<1> QED
    BY <1>1, <1>3, Zenon DEF IInv

(* A text without an escape. *)
LEMMA NoEscape ==
    ASSUME NEW text \in Seq(Char), ~HasEscape(text)
    PROVE  text \in Seq(Char \ {27})
<1>1. DOMAIN text = 1 .. Len(text) /\ Len(text) \in Nat /\ \A i \in 1 .. Len(text) : text[i] \in Char
    BY ElementOfSeq
<1>2. \A i \in 1 .. Len(text) : text[i] \in Char \ {27}
    BY <1>1 DEF HasEscape, ESC
<1> QED
    BY <1>2

(* The modes are set when there is nothing to read, and what is read was heard. *)
LEMMA TypeKeyKeeps == IInv /\ TypeKey => IInv'
<1> SUFFICES ASSUME IInv, TypeKey PROVE IInv'
    OBVIOUS
<1>1. PICK key \in session.keys :
          Written(SendKey(modes, key), <<KeyMeans(key)>>) /\ unclear' = unclear
    BY Zenon DEF TypeKey
<1>2. modes \in AllModes /\ key \in Keys
    BY <1>1, SessionIs DEF IInv
<1>3. Understood(modes, SendKey(modes, key), <<KeyMeans(key)>>)
    BY <1>2, KeyUnderstood
<1> DEFINE bytes == SendKey(modes, key)
           meaning == <<KeyMeans(key)>>
<1>4. Written(bytes, meaning) /\ (~unclear' => ~unclear /\ Understood(modes, bytes, meaning))
    BY <1>1, <1>3, Zenon
<1> HIDE DEF bytes, meaning
<1> QED
    BY <1>4, WritingKeeps

(* Typing text keeps it. *)
LEMMA TypeTextKeeps == IInv /\ TypeText => IInv'
<1> SUFFICES ASSUME IInv, TypeText PROVE IInv'
    OBVIOUS
<1>1. PICK text \in session.texts :
          Written(SendStr(text), Typed(text)) /\ unclear' = (unclear \/ HasEscape(text))
    BY Zenon DEF TypeText
<1>2. modes \in AllModes /\ text \in Seq(Char)
    BY <1>1, SessionIs DEF IInv
<1>3. ASSUME ~HasEscape(text) PROVE Understood(modes, SendStr(text), Typed(text))
    <2>1. text \in Seq(Char \ {27})
        BY <1>2, <1>3, NoEscape
    <2> QED
        BY <2>1, TextUnderstood
<1> DEFINE bytes == SendStr(text)
           meaning == Typed(text)
<1>4. Written(bytes, meaning) /\ (~unclear' => ~unclear /\ Understood(modes, bytes, meaning))
    BY <1>1, <1>3, Zenon
<1> HIDE DEF bytes, meaning
<1> QED
    BY <1>4, WritingKeeps

(* Pasting keeps it. *)
LEMMA PasteTextKeeps == IInv /\ PasteText => IInv'
<1> SUFFICES ASSUME IInv, PasteText PROVE IInv'
    OBVIOUS
<1>1. PICK text \in session.pastes :
          /\ Written(Paste(modes, text), PasteMeans(modes, text))
          /\ unclear' = (unclear \/ (~modes.paste /\ HasEscape(text)))
    BY Zenon DEF PasteText
<1>2. modes \in AllModes /\ text \in Seq(Char)
    BY <1>1, SessionIs DEF IInv
<1>3. ASSUME ~(~modes.paste /\ HasEscape(text)) PROVE Understood(modes, Paste(modes, text), PasteMeans(modes, text))
    <2>1. modes.paste \/ text \in Seq(Char \ {27})
        BY <1>2, <1>3, NoEscape
    <2> QED
        BY <1>2, <2>1, PasteUnderstood
<1> DEFINE bytes == Paste(modes, text)
           meaning == PasteMeans(modes, text)
<1>4. Written(bytes, meaning) /\ (~unclear' => ~unclear /\ Understood(modes, bytes, meaning))
    BY <1>1, <1>3, Zenon
<1> HIDE DEF bytes, meaning
<1> QED
    BY <1>4, WritingKeeps

(* Clicking keeps it. *)
LEMMA ClickKeeps == IInv /\ Click => IInv'
<1> SUFFICES ASSUME IInv, Click PROVE IInv'
    OBVIOUS
<1>1. PICK c \in session.clicks :
          /\ Written(ClickWith(modes, screen, c.button, c.mods, c.at), ClickMeans(modes, screen, c.button, c.mods, c.at))
          /\ unclear' = unclear
    BY Zenon DEF Click
<1>2. modes \in AllModes /\ Sized(screen) /\ c.button \in Buttons /\ c.mods \in SUBSET Modifiers /\ c.at \in Spots
    BY <1>1, SessionIs, ScreenSized DEF IInv
<1> DEFINE bytes == ClickWith(modes, screen, c.button, c.mods, c.at)
           meaning == ClickMeans(modes, screen, c.button, c.mods, c.at)
<1>3. Understood(modes, bytes, meaning)
    BY <1>2, ClickUnderstood
<1>4. Written(bytes, meaning) /\ (~unclear' => ~unclear /\ Understood(modes, bytes, meaning))
    BY <1>1, <1>3, Zenon
<1> HIDE DEF bytes, meaning
<1> QED
    BY <1>4, WritingKeeps

(* Dragging keeps it. *)
LEMMA DragKeeps == IInv /\ DragAcross => IInv'
<1> SUFFICES ASSUME IInv, DragAcross PROVE IInv'
    OBVIOUS
<1>1. PICK d \in session.drags :
          /\ Written(Drag(modes, screen, d.button, d.mods, d.from, d.to),
                     DragMeans(modes, screen, d.button, d.mods, d.from, d.to))
          /\ unclear' = unclear
    BY Zenon DEF DragAcross
<1>2. /\ modes \in AllModes /\ Sized(screen) /\ d.button \in Buttons /\ d.mods \in SUBSET Modifiers
      /\ d.from \in Spots /\ d.to \in Spots
    BY <1>1, SessionIs, ScreenSized DEF IInv
<1> DEFINE bytes == Drag(modes, screen, d.button, d.mods, d.from, d.to)
           meaning == DragMeans(modes, screen, d.button, d.mods, d.from, d.to)
<1>3. Understood(modes, bytes, meaning)
    BY <1>2, DragUnderstood
<1>4. Written(bytes, meaning) /\ (~unclear' => ~unclear /\ Understood(modes, bytes, meaning))
    BY <1>1, <1>3, Zenon
<1> HIDE DEF bytes, meaning
<1> QED
    BY <1>4, WritingKeeps

(* Scrolling keeps it. *)
LEMMA ScrollKeeps == IInv /\ Scroll => IInv'
<1> SUFFICES ASSUME IInv, Scroll PROVE IInv'
    OBVIOUS
<1>1. PICK c \in session.scrolls :
          /\ Written(ScrollWith(modes, screen, c.wheel, c.mods, c.at), ScrollMeans(modes, screen, c.wheel, c.mods, c.at))
          /\ unclear' = unclear
    BY Zenon DEF Scroll
<1>2. modes \in AllModes /\ Sized(screen) /\ c.wheel \in Wheels /\ c.mods \in SUBSET Modifiers /\ c.at \in Spots
    BY <1>1, SessionIs, ScreenSized DEF IInv
<1> DEFINE bytes == ScrollWith(modes, screen, c.wheel, c.mods, c.at)
           meaning == ScrollMeans(modes, screen, c.wheel, c.mods, c.at)
<1>3. Understood(modes, bytes, meaning)
    BY <1>2, ScrollUnderstood
<1>4. Written(bytes, meaning) /\ (~unclear' => ~unclear /\ Understood(modes, bytes, meaning))
    BY <1>1, <1>3, Zenon
<1> HIDE DEF bytes, meaning
<1> QED
    BY <1>4, WritingKeeps

(* Changing the focus keeps it. *)
LEMMA FocusKeeps == IInv /\ ChangeFocus => IInv'
<1> SUFFICES ASSUME IInv, ChangeFocus PROVE IInv'
    OBVIOUS
<1>1. PICK gained \in session.focus :
          Written(Focus(modes, gained), FocusMeans(modes, gained)) /\ unclear' = unclear
    BY Zenon DEF ChangeFocus
<1>2. modes \in AllModes /\ gained \in BOOLEAN
    BY <1>1, SessionIs DEF IInv
<1> DEFINE bytes == Focus(modes, gained)
           meaning == FocusMeans(modes, gained)
<1>3. Understood(modes, bytes, meaning)
    BY <1>2, FocusUnderstood
<1>4. Written(bytes, meaning) /\ (~unclear' => ~unclear /\ Understood(modes, bytes, meaning))
    BY <1>1, <1>3, Zenon
<1> HIDE DEF bytes, meaning
<1> QED
    BY <1>4, WritingKeeps

(* A place that was found is one that a report can tell, or off the screen. *)
LEMMA OutsideUnderstood ==
    ASSUME NEW m \in AllModes, NEW size, Sized(size), NEW button, NEW mods, NEW at,
           at.col \in Nat, at.row \in Nat, ~InGrid(size, at)
    PROVE  Understood(m, ClickWith(m, size, button, mods, at), ClickMeans(m, size, button, mods, at))
<1>1. ~CanTell(m, size, at)
    BY DEF CanTell, InGrid, Sized
<1>2. ClickWith(m, size, button, mods, at) = {}
    BY Zenon DEF ClickWith
<1>3. ClickMeans(m, size, button, mods, at) = <<>>
    BY <1>1, Zenon DEF ClickMeans
<1> QED
    BY <1>2, <1>3, Zenon DEF Understood

(* A click on what was found is understood, or refused where the place cannot be told. *)
LEMMA FoundUnderstood ==
    ASSUME NEW m \in AllModes, NEW s, IsScreen(s), NEW needle \in Text, NEW p \in Find(s, needle)
    PROVE  LET at == [col |-> p[2], row |-> p[1]] IN
           Understood(m, ClickWith(m, s, "Left", {}, at), ClickMeans(m, s, "Left", {}, at))
<1> DEFINE col == p[2]
           row == p[1]
           at == [col |-> col, row |-> row]
           button == "Left"
           mods == {}
<1>1. row \in Nat /\ col \in Nat
    BY FoundType
<1> HIDE DEF col, row
<1>2. at.col = col /\ at.row = row
    OBVIOUS
<1>3. Sized(s) /\ s.cols \in Narrow /\ s.rows \in Narrow
    BY ScreenSized
<1>4. button \in Buttons /\ mods \in SUBSET Modifiers
    BY DEF Buttons, ButtonCodes
<1>5. CASE InGrid(s, at)
    <2>1. col < s.cols /\ row < s.rows
        BY <1>2, <1>5, Zenon DEF InGrid
    <2>2. col \in Narrow /\ row \in Narrow
        <3> DEFINE c == s.cols
                   r == s.rows
        <3>1. c \in Narrow /\ r \in Narrow /\ col < c /\ row < r
            BY <1>3, <2>1, Zenon
        <3> HIDE DEF c, r
        <3>2. \A x \in Nat, y \in Narrow : x < y => x \in Narrow
            <4> DEFINE M == 65535
            <4>1. M \in Nat /\ Narrow = 0 .. M
                BY DEF Narrow
            <4> HIDE DEF M
            <4> QED
                BY <4>1
        <3> QED
            BY <1>1, <3>1, <3>2, Zenon
    <2>3. at \in Spots
        BY <2>2 DEF Spots
    <2> HIDE DEF at, button, mods
    <2>4. Understood(m, ClickWith(m, s, button, mods, at), ClickMeans(m, s, button, mods, at))
        BY <1>3, <1>4, <2>3, ClickUnderstood
    <2> QED
        BY <2>4, Zenon DEF button, mods, at, col, row
<1>6. CASE ~InGrid(s, at)
    <2>1. at.col \in Nat /\ at.row \in Nat
        BY <1>1, <1>2
    <2> HIDE DEF at, button, mods
    <2>2. Understood(m, ClickWith(m, s, button, mods, at), ClickMeans(m, s, button, mods, at))
        BY <1>3, <1>6, <2>1, OutsideUnderstood
    <2> QED
        BY <2>2, Zenon DEF button, mods, at, col, row
<1> QED
    BY <1>5, <1>6, Zenon

(* Clicking what was found keeps it. *)
LEMMA ClickFoundKeeps == IInv /\ ClickFound => IInv'
<1> SUFFICES ASSUME IInv, ClickFound PROVE IInv'
    OBVIOUS
<1>1. PICK needle \in session.found : \E p \in Find(screen, needle) :
          LET at == [col |-> p[2], row |-> p[1]] IN
          /\ Written(ClickWith(modes, screen, "Left", {}, at), ClickMeans(modes, screen, "Left", {}, at))
          /\ unclear' = unclear
    BY Zenon DEF ClickFound
<1>1a. PICK p \in Find(screen, needle) :
          LET at == [col |-> p[2], row |-> p[1]] IN
          /\ Written(ClickWith(modes, screen, "Left", {}, at), ClickMeans(modes, screen, "Left", {}, at))
          /\ unclear' = unclear
    BY <1>1, Zenon
<1> DEFINE at == [col |-> p[2], row |-> p[1]]
           bytes == ClickWith(modes, screen, "Left", {}, at)
           meaning == ClickMeans(modes, screen, "Left", {}, at)
<1>2. modes \in AllModes /\ IsScreen(screen) /\ needle \in Text
    BY <1>1, SessionIs DEF IInv
<1>3. Understood(modes, bytes, meaning)
    BY <1>2, FoundUnderstood, Zenon
<1>4. Written(bytes, meaning) /\ (~unclear' => ~unclear /\ Understood(modes, bytes, meaning))
    BY <1>1a, <1>3, Zenon
<1> HIDE DEF bytes, meaning
<1> QED
    BY <1>4, WritingKeeps

(* The application reading its input keeps it. *)
LEMMA AppReadsKeeps == IInv /\ AppReads => IInv'
<1> SUFFICES ASSUME IInv, AppReads PROVE IInv'
    OBVIOUS
<1>1. PICK n \in {1, Len(wire)} :
        /\ heard' = heard \o EventsIn(modes, FlattenSeq(SubSeq(wire, 1, n)))
        /\ wire' = SubSeq(wire, n + 1, Len(wire))
        /\ unclear' = (unclear \/ \E i \in 1 .. n - 1 : wire[i] \in Beginnings)
    BY Zenon DEF AppReads
<1>2. wire # <<>> /\ session' = session /\ screen' = screen /\ saved' = saved /\ modes' = modes /\ meant' = meant
    BY Zenon DEF AppReads
<1>3. ASSUME ~unclear'
      PROVE  Pending(modes, wire', heard', meant)
    <2>1. modes \in AllModes /\ Pending(modes, wire, heard, meant) /\ \A i \in 1 .. n - 1 : wire[i] \notin Beginnings
        BY <1>1, <1>3, Zenon DEF IInv
    <2>2. Pending(modes, SubSeq(wire, n + 1, Len(wire)), heard \o EventsIn(modes, FlattenSeq(SubSeq(wire, 1, n))), meant)
        BY <1>2, <2>1, PendingLess
    <2> QED
        BY <1>1, <2>2, Zenon
<1> QED
    BY <1>2, <1>3, Zenon DEF IInv

(* The application setting its modes keeps it. *)
LEMMA AppSetsModesKeeps == IInv /\ AppSetsModes => IInv'
<1> SUFFICES ASSUME IInv, AppSetsModes PROVE IInv'
    OBVIOUS
<1>1. /\ session' = session /\ screen' = screen /\ saved' = saved /\ wire = <<>> /\ wire' = wire
      /\ heard' = heard /\ meant' = meant /\ unclear' = unclear /\ modes' \in session.modes
    BY Zenon DEF AppSetsModes, Step
<1>2. modes' \in AllModes
    BY <1>1, SessionIs DEF IInv
<1>3. ASSUME ~unclear'
      PROVE  Pending(modes', wire', heard', meant')
    <2>1. Pending(modes, <<>>, heard, meant)
        BY <1>1, <1>3, Zenon DEF IInv
    <2>2. Pending(modes', <<>>, heard, meant)
        BY <2>1, PendingNone
    <2> QED
        BY <1>1, <2>2, Zenon
<1> QED
    BY <1>1, <1>2, <1>3, Zenon DEF IInv

(* What is done with the screen keeps it. *)
LEMMA ScreenKeeps == IInv /\ (TakeSnapshot \/ Mask \/ SaveText \/ SaveJson \/ ReadSaved) => IInv'
<1>1. ASSUME IInv, TakeSnapshot PROVE IInv'
    <2>1. IsScreen(screen') /\ Looking /\ saved' = saved
        BY <1>1, SessionIs DEF TakeSnapshot, IInv
    <2>2. saved' = NoFile \/ IsFile(saved')
        BY <1>1, <2>1, Zenon DEF IInv
    <2> QED
        BY <1>1, <2>1, <2>2, LookingKeeps
<1>2. ASSUME IInv, Mask PROVE IInv'
    <2>1. Looking /\ saved' = saved
        BY <1>2, Zenon DEF Mask
    <2>2. PICK mask \in session.masks : screen' = Masked(screen, mask)
        BY <1>2, Zenon DEF Mask
    <2>3. mask[1] \in {"matching", "rect", "style"} /\ IsScreen(screen)
        BY <1>2, SessionIs, Zenon DEF IInv
    <2>4. IsScreen(Masked(screen, mask))
        BY <2>3, MaskedType
    <2>5. saved' = NoFile \/ IsFile(saved')
        BY <1>2, <2>1, Zenon DEF IInv
    <2>6. IsScreen(screen')
        BY <2>2, <2>4, Zenon
    <2> QED
        BY <1>2, <2>1, <2>5, <2>6, LookingKeeps
<1>3. ASSUME IInv, SaveText PROVE IInv'
    <2>1. Looking /\ screen' = screen /\ saved' = [kind |-> "text", document |-> WithStyles(screen)] /\ IsScreen(screen)
        BY <1>3, Zenon DEF SaveText, IInv
    <2>2. IsFile([kind |-> "text", document |-> WithStyles(screen)])
        BY <2>1, SavedType
    <2>3. IsFile(saved') /\ IsScreen(screen')
        BY <2>1, <2>2, Zenon
    <2> QED
        BY <1>3, <2>1, <2>3, LookingKeeps
<1>4. ASSUME IInv, SaveJson PROVE IInv'
    <2>1. Looking /\ screen' = screen /\ saved' = [kind |-> "json", document |-> ToJson(screen)] /\ IsScreen(screen)
        BY <1>4, Zenon DEF SaveJson, IInv
    <2>2. IsFile([kind |-> "json", document |-> ToJson(screen)])
        BY <2>1, SavedType
    <2>3. IsFile(saved') /\ IsScreen(screen')
        BY <2>1, <2>2, Zenon
    <2> QED
        BY <1>4, <2>1, <2>3, LookingKeeps
<1>5. ASSUME IInv, ReadSaved PROVE IInv'
    <2>1. Looking /\ saved # NoFile /\ screen' \in ReadFile(saved) /\ saved' = saved
        BY <1>5, Zenon DEF ReadSaved
    <2>2. IsFile(saved)
        BY <1>5, <2>1, Zenon DEF IInv
    <2>3. \A s \in ReadFile(saved) : IsScreen(s)
        BY <2>2, ReadType
    <2>4. IsScreen(screen') /\ IsFile(saved')
        BY <2>1, <2>2, <2>3, Zenon
    <2> QED
        BY <1>5, <2>1, <2>4, LookingKeeps
<1> QED
    BY <1>1, <1>2, <1>3, <1>4, <1>5

(* Stuttering keeps it. *)
LEMMA StayKeeps == IInv /\ vars' = vars => IInv'
<1> SUFFICES ASSUME IInv, vars' = vars PROVE IInv'
    OBVIOUS
<1>1. /\ session' = session /\ screen' = screen /\ saved' = saved /\ modes' = modes /\ wire' = wire
      /\ heard' = heard /\ meant' = meant /\ unclear' = unclear
    BY DEF vars
<1> QED
    BY <1>1, Zenon DEF IInv

(* Every step keeps it. *)
LEMMA StepKeeps == IInv /\ [Next]_vars => IInv'
BY TypeKeyKeeps, TypeTextKeeps, PasteTextKeeps, ClickKeeps, ClickFoundKeeps, DragKeeps, ScrollKeeps, FocusKeeps,
   AppReadsKeeps, AppSetsModesKeeps, ScreenKeeps, StayKeeps, Zenon DEF Next

(* Sequences put together of short ones. *)
LEMMA Together ==
    ASSUME NEW a \in Nat, NEW b \in Nat, NEW c \in Nat, NEW d \in Nat
    PROVE  /\ <<a, b>> \o <<c>> = <<a, b, c>>
           /\ (<<a, b>> \o <<c>>) \o <<d>> = <<a, b, c, d>>
<1> DEFINE u == <<a, b>>
           v == <<c>>
           w == <<a, b, c>>
           x == <<d>>
           y == <<a, b, c, d>>
<1>1. u \in Seq(Nat) /\ v \in Seq(Nat) /\ w \in Seq(Nat) /\ Len(u) = 2 /\ Len(v) = 1 /\ Len(w) = 3
      /\ x \in Seq(Nat) /\ y \in Seq(Nat) /\ Len(x) = 1 /\ Len(y) = 4
    OBVIOUS
<1>2. u[1] = a /\ u[2] = b /\ v[1] = c /\ w[1] = a /\ w[2] = b /\ w[3] = c
      /\ x[1] = d /\ y[1] = a /\ y[2] = b /\ y[3] = c /\ y[4] = d
    OBVIOUS
<1> HIDE DEF u, v, w, x, y
<1>3. u \o v = w
    <2> DEFINE z == u \o v
    <2>0. /\ z \in Seq(Nat) /\ Len(z) = Len(u) + Len(v) /\ \A i \in 1 .. Len(u) : z[i] = u[i]
          /\ \A i \in 1 .. Len(v) : z[Len(u) + i] = v[i]
        <3>1. u \in Seq(Nat) /\ v \in Seq(Nat)
            BY <1>1
        <3> QED
            BY <3>1, Begins
    <2> HIDE DEF z
    <2>1. z \in Seq(Nat) /\ Len(z) = 3 /\ z[1] = a /\ z[2] = b /\ z[3] = c
        BY <1>1, <1>2, <2>0
    <2> HIDE DEF z
    <2>2. z \in Seq(Nat) /\ w \in Seq(Nat) /\ Len(z) = Len(w) /\ \A i \in 1 .. Len(z) : z[i] = w[i]
        BY <1>1, <1>2, <2>1
    <2>3. z = w
        BY <2>2, SeqEqual
    <2> QED
        BY <2>3 DEF z
<1>4. w \o x = y
    <2> DEFINE z == w \o x
    <2>0. /\ z \in Seq(Nat) /\ Len(z) = Len(w) + Len(x) /\ \A i \in 1 .. Len(w) : z[i] = w[i]
          /\ \A i \in 1 .. Len(x) : z[Len(w) + i] = x[i]
        <3>1. w \in Seq(Nat) /\ x \in Seq(Nat)
            BY <1>1
        <3> QED
            BY <3>1, Begins
    <2> HIDE DEF z
    <2>1. z \in Seq(Nat) /\ Len(z) = 4 /\ z[1] = a /\ z[2] = b /\ z[3] = c /\ z[4] = d
        BY <1>1, <1>2, <2>0
    <2> HIDE DEF z
    <2>2. z \in Seq(Nat) /\ y \in Seq(Nat) /\ Len(z) = Len(y) /\ \A i \in 1 .. Len(z) : z[i] = y[i]
        BY <1>1, <1>2, <2>1
    <2>3. z = y
        BY <2>2, SeqEqual
    <2> QED
        BY <2>3 DEF z
<1> QED
    BY <1>3, <1>4, Zenon DEF u, v, w, x, y

(* A key as it is sent: for a cursor key, and for one with a number. *)
PlainKey(name) == [name |-> name, arg |-> 0, mods |-> {}]
Sends(name, bytes) == Encode(PlainKey(name)) = bytes

(* The bytes of the cursor keys. *)
LEMMA CursorSends ==
    ASSUME NEW name \in DOMAIN CursorLetters
    PROVE  Encode(PlainKey(name)) = <<27, 91, CursorLetters[name]>>
<1>1. PlainKey(name) \in Keys /\ PlainKey(name).name = name
    BY DEF PlainKey, Keys
<1>2. Encode(PlainKey(name)) = Csi \o <<CursorLetters[name]>>
    BY <1>1, EncodingIs, ZenonT(40)
<1> DEFINE c == CursorLetters[name]
           a == 27
           b == 91
<1>3. c \in Nat /\ a \in Nat /\ b \in Nat
    BY LetterKeysAre
<1>4. Csi = <<a, b>>
    BY Zenon DEF Csi, ESC
<1> HIDE DEF a, b, c
<1>5. <<a, b>> \o <<c>> = <<a, b, c>>
    BY <1>3, Together
<1> QED
    BY <1>2, <1>4, <1>5, Zenon DEF a, b, c

(* The bytes of the keys of a number. *)
LEMMA NumberSends ==
    ASSUME NEW name \in DOMAIN EditNumbers
    PROVE  Encode(PlainKey(name)) = <<27, 91, 48 + EditNumbers[name], 126>>
<1>1. PlainKey(name) \in Keys /\ PlainKey(name).name = name
    BY DEF PlainKey, Keys
<1> DEFINE n == EditNumbers[name]
           a == 27
           b == 91
           c == 48 + n
           d == 126
<1>2. Encode(PlainKey(name)) = (Csi \o Decimal(n)) \o <<d>>
    BY <1>1, EncodingIs, ZenonT(40)
<1>3. n \in {2, 3, 5, 6} /\ a \in Nat /\ b \in Nat /\ d \in Nat
    BY NumberKeysAre
<1>4. Csi = <<a, b>>
    BY Zenon DEF Csi, ESC
<1> HIDE DEF n, a, b, d
<1>5. Decimal(n) = <<c>>
    <2>1. n \in Nat /\ n < 10
        BY <1>3
    <2> QED
        BY <2>1, DecimalNext
<1>6. c \in Nat
    BY <1>3
<1> HIDE DEF c
<1>7. (<<a, b>> \o <<c>>) \o <<d>> = <<a, b, c, d>>
    BY <1>3, <1>6, Together
<1> QED
    BY <1>2, <1>4, <1>5, <1>7, Zenon DEF a, b, c, d, n

(* What is told of the keys is what is sent for them. *)
LEMMA KeysAreTold ==
    \A name \in DOMAIN CapabilityKeys :
        TermcapKeys[name] = Encode([name |-> CapabilityKeys[name], arg |-> 0, mods |-> {}])
<1>1. /\ CursorLetters["Up"] = 65 /\ CursorLetters["Down"] = 66 /\ CursorLetters["Right"] = 67
      /\ CursorLetters["Left"] = 68 /\ CursorLetters["Home"] = 72 /\ CursorLetters["End"] = 70
    BY DEF CursorLetters
<1>2. EditNumbers["Delete"] = 3 /\ EditNumbers["PageUp"] = 5 /\ EditNumbers["PageDown"] = 6
    BY DEF EditNumbers
<1>3. /\ Sends("Up", <<27, 91, 65>>) /\ Sends("Down", <<27, 91, 66>>)
      /\ Sends("Right", <<27, 91, 67>>) /\ Sends("Left", <<27, 91, 68>>)
      /\ Sends("Home", <<27, 91, 72>>) /\ Sends("End", <<27, 91, 70>>)
    BY <1>1, CursorSends, LetterKeysAre DEF Sends
<1>4. /\ Sends("Delete", <<27, 91, 51, 126>>) /\ Sends("PageUp", <<27, 91, 53, 126>>)
      /\ Sends("PageDown", <<27, 91, 54, 126>>)
    BY <1>2, NumberSends, NumberKeysAre DEF Sends
<1>5. Sends("Backspace", <<127>>)
    <2>1. PlainKey("Backspace") \in Keys /\ PlainKey("Backspace").name = "Backspace" /\ "Backspace" \in DOMAIN Simple
        BY NamesDiffer DEF PlainKey, Keys
    <2>2. Encode(PlainKey("Backspace")) = Simple["Backspace"]
        BY <2>1, EncodingIs, ZenonT(40)
    <2>3. Simple["Backspace"] = <<127>>
        BY DEF Simple
    <2> QED
        BY <2>2, <2>3, Zenon DEF Sends
<1>6. \A name \in DOMAIN CapabilityKeys : Sends(CapabilityKeys[name], TermcapKeys[name])
    BY <1>3, <1>4, <1>5 DEF CapabilityKeys, TermcapKeys
<1> QED
    BY <1>6, Zenon DEF Sends, PlainKey

(* The invariant says that input is understood. *)
LEMMA InvUnderstands == IInv => InputIsUnderstood
<1> SUFFICES ASSUME IInv PROVE InputIsUnderstood
    OBVIOUS
<1>1. ASSUME ~unclear PROVE IsPrefix(heard, meant) /\ (wire = <<>> => heard = meant)
    <2> DEFINE h == Hearing(modes, wire)
    <2>1. modes \in AllModes /\ wire \in Seq(Bytes) /\ heard \in Seq(AllEvents) /\ meant = heard \o h
        BY <1>1, Zenon DEF IInv, Pending
    <2>2. h \in Seq(Events(modes))
        BY <2>1, HearsType
    <2> HIDE DEF h
    <2>3. h \in Seq(AllEvents)
        BY <2>1, <2>2, EventsAreEvents
    <2>4. IsPrefix(heard, meant)
        BY <2>1, <2>3 DEF IsPrefix
    <2>5. ASSUME wire = <<>> PROVE heard = meant
        <3>1. h = <<>>
            BY <2>5, HearingOne DEF h
        <3> QED
            BY <2>1, <3>1
    <2> QED
        BY <2>4, <2>5
<1> QED
    BY <1>1, KeysAreTold, Zenon DEF InputIsUnderstood

(* In every session, what was written and is not yet read is heard as it was meant, unless
   its meaning hangs on where a read ends, and the test holds screens and files only. *)
THEOREM SessionInvariant == Spec => []IInv
<1> QED
    BY InitIsSession, StepKeeps, PTL DEF Spec

(* The application takes its input for what the test did, in order: every key,
   chord, text, click, drag, turn of the wheel, paste and change of focus that is
   written under whatever modes it has set, for any screens, files, masks and inputs;
   and the keys it was told of (capability_value, CapabilityKeys) are those sent. *)
THEOREM InputUnderstood == Spec => []InputIsUnderstood
BY SessionInvariant, InvUnderstands, PTL


-----------------------------------------------------------------------------
(* What a release can have written in a row. *)

(* A cell reads by its text, its width and whether it is a second half. *)
LEMMA CellReadsAs ==
    ASSUME NEW a, NEW b, a.text = b.text, a.wide = b.wide, a.tail = b.tail, CellReads(a)
    PROVE  CellReads(b)
BY Zenon DEF CellReads

(* The cells that are written on their own. *)
LEMMA CellsRead ==
    /\ \A style, tail : CellReads(Cell(<<>>, style, FALSE, tail))
    /\ \A style : CellReads(Cell(<<Fill>>, style, FALSE, FALSE))
    /\ \A style, c, wide : c \notin ControlChars /\ (wide => c \in WideChars) => CellReads(Cell(<<c>>, style, wide, FALSE))
<1>1. \A style, tail : CellReads(Cell(<<>>, style, FALSE, tail))
    BY DEF Cell, CellReads
<1>2. ASSUME NEW style, NEW c, NEW wide, c \notin ControlChars, wide => c \in WideChars
      PROVE  CellReads(Cell(<<c>>, style, wide, FALSE))
    <2> DEFINE cell == Cell(<<c>>, style, wide, FALSE)
    <2>1. cell.text = <<c>> /\ cell.wide = wide /\ cell.tail = FALSE
        BY DEF Cell
    <2>2. <<c>> # <<>> /\ DOMAIN <<c>> = {1} /\ <<c>>[1] = c /\ Head(<<c>>) = c /\ 2 .. Len(<<c>>) = {}
        OBVIOUS
    <2>3. wide => ~OneColumn(c)
        BY <1>2, CharactersAssumption DEF OneColumn
    <2> HIDE DEF cell
    <2>4. \A i \in DOMAIN cell.text : cell.text[i] \notin ControlChars
        BY <1>2, <2>1, <2>2
    <2>5. cell.text # <<>> /\ ~cell.tail /\ (cell.wide => ~OneColumn(Head(cell.text))) /\ 2 .. Len(cell.text) = {}
        BY <2>1, <2>2, <2>3
    <2>6. CellReads(cell)
        BY <2>4, <2>5, Zenon DEF CellReads
    <2> QED
        BY <2>6 DEF cell
<1>3. Fill \notin ControlChars
    BY WordsAssumption
<1> QED
    BY <1>1, <1>2, <1>3, Zenon

(* The rows of a screen. *)
RowsRead(s) == \A r \in 1 .. s.rows : RowReads(s.cells[r])

(* A row of cells that read, in which a second half follows a first. *)
LEMMA RowReadsIs ==
    ASSUME NEW n \in Nat, NEW f, DOMAIN f = 1 .. n,
           \A c \in 1 .. n : CellReads(f[c]) /\ (f[c].tail => c > 1 /\ f[c - 1].wide)
    PROVE  RowReads(f)
BY Zenon DEF RowReads

(* The cells of a screen that reads. *)
LEMMA CellOfRead ==
    ASSUME NEW s, IsScreen(s), RowsRead(s), NEW r \in 1 .. s.rows, NEW c \in 1 .. s.cols
    PROVE  /\ CellAt(s, r - 1, c - 1) = s.cells[r][c] /\ CellReads(s.cells[r][c])
           /\ s.cells[r][c].tail => c > 1 /\ c - 1 \in 1 .. s.cols /\ s.cells[r][c - 1].wide
<1>1. s.cols \in Nat /\ s.rows \in Nat
    BY NarrowNat, Zenon DEF IsScreen
<1>2. (r - 1) + 1 = r /\ (c - 1) + 1 = c
    BY <1>1
<1>3. CellAt(s, r - 1, c - 1) = s.cells[r][c]
    BY <1>2, Zenon DEF CellAt, CellsOf
<1>4. DOMAIN s.cells[r] = 1 .. s.cols
    <2> DEFINE f == s.cells[r]
    <2>1. f = [i \in 1 .. s.cols |-> f[i]]
        BY CellOf, Zenon DEF IsRow, HasLength
    <2> HIDE DEF f
    <2>2. DOMAIN f = 1 .. s.cols
        BY <2>1
    <2> QED
        BY <2>2 DEF f
<1>5. CellReads(s.cells[r][c]) /\ (s.cells[r][c].tail => c > 1 /\ s.cells[r][c - 1].wide)
    BY <1>4, Zenon DEF RowsRead, RowReads
<1>6. c > 1 => c - 1 \in 1 .. s.cols
    BY <1>1
<1> QED
    BY <1>3, <1>5, <1>6

(* What is masked of a wide character is both of its halves, also where one was cut. *)
LEMMA HalvesTogether ==
    ASSUME NEW s, s.rows \in Nat, s.cols \in Nat, NEW hits, NEW row, NEW col \in Int, <<row, col>> \in Places(s), col > 0,
           CellAt(s, row, col).tail, CellAt(s, row, col - 1).wide
    PROVE  <<row, col - 1>> \in WithHalves(s, hits) => <<row, col>> \in WithHalves(s, hits)
<1> DEFINE Wide(a, b) == CellAt(s, a, b).wide
           IsTail(a, b) == CellAt(s, a, b).tail
           reached == {p \in Places(s) : \E c \in 0 .. p[2] : <<p[1], c>> \in hits /\ \A b \in c .. p[2] - 1 : Wide(p[1], b)}
           backs == {<<p[1], p[2] - 1>> : p \in {q \in reached : IsTail(q[1], q[2]) /\ q[2] > 0}}
<1>1. WithHalves(s, hits) = reached \union backs
    BY Zenon DEF WithHalves
<1>2. \A p \in Places(s) : p = <<p[1], p[2]>> /\ p[2] \in Nat
    BY DEF Places
<1>3. ASSUME <<row, col - 1>> \in reached PROVE <<row, col>> \in reached
    <2> HIDE DEF Wide, IsTail
    <2>1. PICK c \in 0 .. col - 1 : <<row, c>> \in hits /\ \A b \in c .. col - 2 : Wide(row, b)
        <3>1. \E c \in 0 .. col - 1 : <<row, c>> \in hits /\ \A b \in c .. (col - 1) - 1 : Wide(row, b)
            BY <1>3
        <3>2. (col - 1) - 1 = col - 2
            OBVIOUS
        <3> QED
            BY <3>1, <3>2
    <2>2. Wide(row, col - 1)
        BY DEF Wide
    <2>3. c \in 0 .. col /\ \A b \in c .. col - 1 : Wide(row, b)
        <3>1. \A b \in c .. col - 1 : b \in c .. col - 2 \/ b = col - 1
            BY <2>1
        <3> QED
            BY <2>1, <2>2, <3>1
    <2>4. \E d \in 0 .. col : <<row, d>> \in hits /\ \A b \in d .. col - 1 : Wide(row, b)
        BY <2>1, <2>3
    <2> QED
        BY <2>4
<1>4. ASSUME <<row, col - 1>> \in backs PROVE <<row, col>> \in reached
    <2> HIDE DEF IsTail
    <2>1. reached \subseteq Places(s)
        OBVIOUS
    <2> HIDE DEF reached
    <2>2. PICK p \in reached : <<row, col - 1>> = <<p[1], p[2] - 1>>
        BY <1>4
    <2>3. p[1] = row /\ p[2] - 1 = col - 1
        BY <2>2
    <2>4. p = <<p[1], p[2]>> /\ p[2] \in Nat
        BY <1>2, <2>1
    <2>5. p[2] = col
        BY <2>3, <2>4
    <2> QED
        BY <2>2, <2>3, <2>4, <2>5
<1> QED
    BY <1>1, <1>3, <1>4

(* A mask leaves rows that read. *)
LEMMA MaskReads ==
    ASSUME NEW s, IsScreen(s), RowsRead(s), NEW hits, NEW fill \in {<<>>, <<Fill>>}
    PROVE  /\ RowsRead(ApplyMask(s, hits, fill))
           /\ \E cells : ApplyMask(s, hits, fill) = [s EXCEPT !.cells = cells]
<1> DEFINE masked == WithHalves(s, hits)
           X(r, c) == IF <<r - 1, c - 1>> \in masked
                      THEN Cell(fill, CellAt(s, r - 1, c - 1).style, FALSE, FALSE)
                      ELSE CellAt(s, r - 1, c - 1)
           row == [r \in 1 .. s.rows |-> [c \in 1 .. s.cols |-> X(r, c)]]
<1>1. ApplyMask(s, hits, fill) = [s EXCEPT !.cells = row]
    BY Zenon DEF ApplyMask
<1>2. s.cols \in Nat /\ s.rows \in Nat /\ "cells" \in DOMAIN s /\ "rows" \in DOMAIN s
    <2>1. DOMAIN s = ScreenFields /\ s.cols \in Narrow /\ s.rows \in Narrow
        BY Zenon DEF IsScreen
    <2> QED
        BY <2>1, NarrowNat DEF ScreenFields
<1> HIDE DEF masked
<1>3. ASSUME NEW r \in 1 .. s.rows, NEW c \in 1 .. s.cols
      PROVE  CellReads(X(r, c)) /\ (X(r, c).tail => c > 1 /\ c - 1 \in 1 .. s.cols /\ X(r, c - 1).wide)
    <2>1. CellAt(s, r - 1, c - 1) = s.cells[r][c] /\ CellReads(s.cells[r][c])
        BY CellOfRead
    <2>2. CASE <<r - 1, c - 1>> \in masked
        <3> DEFINE style == CellAt(s, r - 1, c - 1).style
                   cell == Cell(fill, style, FALSE, FALSE)
        <3>1. X(r, c) = cell
            BY <2>2, Zenon
        <3> HIDE DEF style
        <3>2. cell.tail = FALSE /\ CellReads(cell)
            BY CellsRead DEF Cell
        <3> QED
            BY <3>1, <3>2, Zenon
    <2>3. CASE <<r - 1, c - 1>> \notin masked
        <3>1. X(r, c) = s.cells[r][c]
            BY <2>1, <2>3, Zenon
        <3>2. ASSUME s.cells[r][c].tail
              PROVE  c > 1 /\ c - 1 \in 1 .. s.cols /\ X(r, c - 1).wide
            <4>1. c > 1 /\ c - 1 \in 1 .. s.cols /\ s.cells[r][c - 1].wide
                BY <3>2, CellOfRead
            <4>2. CellAt(s, r - 1, (c - 1) - 1) = s.cells[r][c - 1]
                BY <4>1, CellOfRead
            <4>3. <<r - 1, c - 1>> \in Places(s) /\ c - 1 \in Int /\ c - 1 > 0
                BY <1>2, <4>1 DEF Places
            <4>4. <<r - 1, (c - 1) - 1>> \notin masked
                BY <1>2, <2>1, <2>3, <3>2, <4>1, <4>2, <4>3, HalvesTogether DEF masked
            <4>5. X(r, c - 1) = s.cells[r][c - 1]
                BY <4>2, <4>4, Zenon
            <4> QED
                BY <4>1, <4>5, Zenon
        <3> QED
            BY <2>1, <3>1, <3>2, Zenon
    <2> QED
        BY <2>2, <2>3, Zenon
<1> HIDE DEF X
<1>4. \A r \in 1 .. s.rows : RowReads(row[r])
    <2> TAKE r \in 1 .. s.rows
    <2> DEFINE f == row[r]
    <2>1. DOMAIN f = 1 .. s.cols /\ \A c \in 1 .. s.cols : f[c] = X(r, c)
        OBVIOUS
    <2> HIDE DEF f
    <2>2. \A c \in 1 .. s.cols : CellReads(f[c]) /\ (f[c].tail => c > 1 /\ f[c - 1].wide)
        <3> TAKE c \in 1 .. s.cols
        <3>1. f[c] = X(r, c) /\ CellReads(X(r, c))
            BY <1>3, <2>1
        <3>2. X(r, c).tail => c > 1 /\ c - 1 \in 1 .. s.cols /\ X(r, c - 1).wide
            BY <1>3
        <3>3. c - 1 \in 1 .. s.cols => f[c - 1] = X(r, c - 1)
            BY <2>1
        <3> QED
            BY <3>1, <3>2, <3>3, Zenon
    <2>3. RowReads(f)
        BY <1>2, <2>1, <2>2, RowReadsIs
    <2> QED
        BY <2>3 DEF f
<1> HIDE DEF row
<1> DEFINE t == [s EXCEPT !.cells = row]
<1>5. t.cells = row /\ t.rows = s.rows
    BY <1>2
<1> HIDE DEF t
<1>6. RowsRead(t)
    BY <1>4, <1>5, Zenon DEF RowsRead
<1> QED
    BY <1>1, <1>6, Zenon DEF t

(* Screens that differ in their cells only are captured alike. *)
LEMMA CapturedCells ==
    ASSUME NEW s, IsCaptured(s), NEW t, \E cells : t = [s EXCEPT !.cells = cells], RowsRead(t)
    PROVE  IsCaptured(t)
<1>1. PICK cells : t = [s EXCEPT !.cells = cells]
    OBVIOUS
<1>2. s = [f \in ScreenFields |-> s[f]]
    BY Zenon DEF IsCaptured
<1>3. /\ t = [f \in ScreenFields |-> t[f]]
      /\ \A f \in ScreenFields \ {"cells"} : t[f] = s[f]
    BY <1>1, <1>2
<1>4. {"cols", "rows", "cursor"} \subseteq ScreenFields \ {"cells"}
    BY DEF ScreenFields
<1>5. t.cols = s.cols /\ t.rows = s.rows /\ t.cursor = s.cursor
    BY <1>3, <1>4
<1> QED
    BY <1>3, <1>5, Zenon DEF IsCaptured, RowsRead

(* A mask of a captured screen leaves one. *)
LEMMA MaskCaptured ==
    ASSUME NEW s, IsScreen(s), IsCaptured(s), NEW hits, NEW fill \in {<<>>, <<Fill>>}
    PROVE  IsCaptured(ApplyMask(s, hits, fill))
<1>1. RowsRead(s)
    BY Zenon DEF IsCaptured, RowsRead
<1>2. /\ RowsRead(ApplyMask(s, hits, fill))
      /\ \E cells : ApplyMask(s, hits, fill) = [s EXCEPT !.cells = cells]
    BY <1>1, MaskReads
<1> QED
    BY <1>2, CapturedCells

(* Every mask does. *)
LEMMA MaskedCaptured ==
    ASSUME NEW s, IsScreen(s), IsCaptured(s), NEW mask, mask[1] \in {"matching", "rect", "style"}
    PROVE  IsCaptured(Masked(s, mask))
<1>1. CASE mask[1] = "matching"
    <2> DEFINE hits == IF \E i \in DOMAIN Nfc(mask[2]) : Nfc(mask[2])[i] = NewLine
                       THEN MultirowCells(SearchableRows(s), Segments(Nfc(mask[2])))
                       ELSE MatchedCells(SearchableRows(s), Nfc(mask[2]))
    <2>1. Masked(s, mask) = MaskMatching(s, mask[2], Fill)
        BY <1>1 DEF Masked
    <2>2. MaskMatching(s, mask[2], Fill) = ApplyMask(s, hits, <<Fill>>)
        BY Zenon DEF MaskMatching
    <2> HIDE DEF hits
    <2>3. IsCaptured(ApplyMask(s, hits, <<Fill>>))
        BY MaskCaptured
    <2> QED
        BY <2>1, <2>2, <2>3, Zenon
<1>2. CASE mask[1] = "rect"
    <2> DEFINE c == ClampRange(mask[2][1], s.cols)
               r == ClampRange(mask[2][2], s.rows)
               hits == (r.start .. r.end - 1) \X (c.start .. c.end - 1)
    <2>1. Masked(s, mask) = MaskRect(s, mask[2][1], mask[2][2])
        BY <1>2 DEF Masked
    <2>2. MaskRect(s, mask[2][1], mask[2][2]) = ApplyMask(s, hits, <<>>)
        BY Zenon DEF MaskRect
    <2> HIDE DEF hits
    <2>3. IsCaptured(ApplyMask(s, hits, <<>>))
        BY MaskCaptured
    <2> QED
        BY <2>1, <2>2, <2>3, Zenon
<1>3. CASE mask[1] = "style"
    <2> DEFINE hits == {p \in Places(s) : CellAt(s, p[1], p[2]).style = mask[2]}
    <2>1. Masked(s, mask) = MaskStyled(s, mask[2])
        BY <1>3 DEF Masked
    <2>2. MaskStyled(s, mask[2]) = ApplyMask(s, hits, <<>>)
        BY Zenon DEF MaskStyled
    <2> HIDE DEF hits
    <2>3. IsCaptured(ApplyMask(s, hits, <<>>))
        BY MaskCaptured
    <2> QED
        BY <2>1, <2>2, <2>3, Zenon
<1> QED
    BY <1>1, <1>2, <1>3

(* A row that is laid out reads, and after its last column it is erased. *)
ReadableRows(cols) ==
    {row \in LaidRows(cols) :
        /\ \A c \in 1 .. cols : CellReads(row.cells[c]) /\ (row.cells[c].tail => c > 1 /\ row.cells[c - 1].wide)
        /\ \A c \in row.col + 1 .. cols : row.cells[c] = ErasedCell}

(* What a readable row is. *)
LEMMA ReadableIs ==
    ASSUME NEW cols, NEW row \in ReadableRows(cols)
    PROVE  /\ row \in LaidRows(cols)
           /\ \A i \in 1 .. cols : CellReads(row.cells[i]) /\ (row.cells[i].tail => i > 1 /\ row.cells[i - 1].wide)
           /\ \A i \in row.col + 1 .. cols : row.cells[i] = ErasedCell
BY DEF ReadableRows

(* A row begins readable. *)
LEMMA EmptyRowReads ==
    ASSUME NEW cols \in Nat
    PROVE  EmptyRow(cols) \in ReadableRows(cols)
<1> DEFINE cells == [c \in 1 .. cols |-> ErasedCell]
<1>1. EmptyRow(cols).cells = cells /\ EmptyRow(cols).col = 0
    BY DEF EmptyRow
<1>2. CellReads(ErasedCell) /\ ErasedCell.tail = FALSE
    BY CellsRead DEF ErasedCell, Cell
<1>3. \A c \in 1 .. cols : cells[c] = ErasedCell
    OBVIOUS
<1> HIDE DEF cells
<1>4. EmptyRow(cols) \in LaidRows(cols)
    BY EmptyRowType
<1>5. \A c \in 0 + 1 .. cols : c \in 1 .. cols
    OBVIOUS
<1> QED
    BY <1>1, <1>2, <1>3, <1>4, <1>5, Zenon DEF ReadableRows

(* A row of other cells, of which those up to a column are changed. *)
LEMMA MarkedReads ==
    ASSUME NEW text, NEW wide \in BOOLEAN, NEW c \in Marks, c \notin ControlChars,
           NEW cell, cell.text \in Text, cell.text # <<>>, CellReads(cell),
           text = Append(cell.text, c), NEW new, new.text = text, new.tail = cell.tail,
           cell.wide => new.wide, new.wide => cell.wide \/ c = Selector
    PROVE  CellReads(new) /\ ~new.tail
<1> DEFINE V == STRING
           t == cell.text
<1>1. t \in Seq(V) /\ t # <<>>
    BY DEF Text
<1> HIDE DEF V, t
<1>2. /\ DOMAIN text = 1 .. Len(t) + 1 /\ (\A i \in 1 .. Len(t) : text[i] = t[i]) /\ text[Len(t) + 1] = c
      /\ Head(text) = Head(t) /\ text # <<>> /\ Len(text) = Len(t) + 1 /\ DOMAIN t = 1 .. Len(t) /\ Len(t) \in Nat
      /\ Len(t) >= 1
    BY <1>1 DEF t
<1>3. ~OneColumn(c)
    BY CharactersAssumption DEF OneColumn
<1>4. /\ \A i \in DOMAIN t : t[i] \notin ControlChars
      /\ ~cell.tail
      /\ cell.wide => ~OneColumn(Head(t)) \/ (\E i \in DOMAIN t : t[i] = Selector)
      /\ \A i \in 2 .. Len(t) : ~OneColumn(t[i])
    BY Zenon DEF CellReads, t
<1>5. \A i \in DOMAIN text : text[i] \notin ControlChars
    <2> TAKE i \in DOMAIN text
    <2>1. i \in 1 .. Len(t) \/ i = Len(t) + 1
        BY <1>2
    <2> QED
        BY <1>2, <1>4, <2>1
<1>6. \A i \in 2 .. Len(text) : ~OneColumn(text[i])
    <2> TAKE i \in 2 .. Len(text)
    <2>1. i \in 2 .. Len(t) \/ i = Len(t) + 1
        BY <1>2
    <2>2. i \in 2 .. Len(t) => i \in 1 .. Len(t)
        BY <1>2
    <2> QED
        BY <1>2, <1>3, <1>4, <2>1, <2>2, Zenon
<1>7. new.wide => ~OneColumn(Head(text)) \/ (\E i \in DOMAIN text : text[i] = Selector)
    <2>1. c = Selector => \E i \in DOMAIN text : text[i] = Selector
        BY <1>2
    <2>2. (\E i \in DOMAIN t : t[i] = Selector) => \E i \in DOMAIN text : text[i] = Selector
        BY <1>2
    <2> QED
        BY <1>2, <1>4, <2>1, <2>2, Zenon
<1> QED
    BY <1>2, <1>4, <1>5, <1>6, <1>7, Zenon DEF CellReads

(* A row in which cells are replaced by ones that read, and no wide one by one that is not. *)
LEMMA ChangedReads ==
    ASSUME NEW n \in Nat, NEW cells, NEW f,
           \A c \in 1 .. n : CellReads(cells[c]) /\ (cells[c].tail => c > 1 /\ cells[c - 1].wide),
           \A c \in 1 .. n : cells[c].wide => f[c].wide,
           \A c \in 1 .. n : f[c] = cells[c] \/ (CellReads(f[c]) /\ (f[c].tail => c > 1 /\ f[c - 1].wide))
    PROVE  \A c \in 1 .. n : CellReads(f[c]) /\ (f[c].tail => c > 1 /\ f[c - 1].wide)
<1> TAKE c \in 1 .. n
<1>1. CASE f[c] = cells[c]
    <2>1. c > 1 => c - 1 \in 1 .. n
        OBVIOUS
    <2> QED
        BY <1>1, <2>1
<1>2. CASE CellReads(f[c]) /\ (f[c].tail => c > 1 /\ f[c - 1].wide)
    BY <1>2
<1> QED
    BY <1>1, <1>2

(* A mark leaves a row that reads. *)
LEMMA JoinMarkReads ==
    ASSUME NEW cols \in Nat, NEW row \in ReadableRows(cols), NEW c \in STRING, c \in Marks, c \notin ControlChars, NEW widen
    PROVE  JoinMark(row, cols, c, widen) \in ReadableRows(cols)
<1> DEFINE owner == IF row.cells[row.col].tail THEN row.col - 1 ELSE row.col
           joined == [row EXCEPT !.cells[owner].text = Append(@, c)]
           widens == /\ widen /\ c = Selector /\ owner = row.col
                     /\ ~row.cells[owner].wide /\ CellIsWide(joined.cells[owner].text)
           refused == \/ row.col = 0
                      \/ row.cells[owner].text = <<>>
                      \/ widens /\ row.col >= cols
           wider == [joined EXCEPT !.cells[owner].wide = TRUE,
                                   !.cells[row.col + 1] = Cell(<<>>, PlainStyle, FALSE, TRUE),
                                   !.col = @ + 1]
           bad == [row EXCEPT !.ok = FALSE]
<1>1. JoinMark(row, cols, c, widen) =
          CASE refused -> bad [] ~refused /\ ~widens -> joined [] OTHER -> wider
    BY Zenon DEF JoinMark
<1>2. /\ row \in LaidRows(cols)
      /\ row.cells \in [1 .. cols -> PlainCells] /\ row.col \in 0 .. cols /\ row.ok \in BOOLEAN
    BY DEF LaidRows, ReadableRows
<1>3. /\ \A i \in 1 .. cols : CellReads(row.cells[i]) /\ (row.cells[i].tail => i > 1 /\ row.cells[i - 1].wide)
      /\ \A i \in row.col + 1 .. cols : row.cells[i] = ErasedCell
    BY ReadableIs
<1>4. JoinMark(row, cols, c, widen) \in LaidRows(cols)
    BY <1>2, JoinMarkType
<1>5. ASSUME refused PROVE bad \in ReadableRows(cols)
    <2>1. bad.cells = row.cells /\ bad.col = row.col
        BY <1>2 DEF LaidRows
    <2>2. bad \in LaidRows(cols)
        BY <1>1, <1>4, <1>5
    <2> HIDE DEF bad
    <2> QED
        BY <1>3, <2>1, <2>2 DEF ReadableRows
<1>6. ASSUME ~refused
      PROVE  owner \in 1 .. row.col /\ owner \in 1 .. cols /\ row.col \in 1 .. cols /\ row.cells[owner].text # <<>>
    <2>1. row.col \in 1 .. cols /\ row.cells[owner].text # <<>>
        BY <1>2, <1>6, SMTT(40)
    <2>2. owner \in 1 .. row.col
        BY <1>3, <2>1
    <2> QED
        BY <2>1, <2>2
<1> DEFINE old == row.cells[owner]
           new == [old EXCEPT !.text = Append(old.text, c)]
           wide == [new EXCEPT !.wide = TRUE]
           tail == Cell(<<>>, PlainStyle, FALSE, TRUE)
           one == [row.cells EXCEPT ![owner] = new]
           two == [[row.cells EXCEPT ![owner] = wide] EXCEPT ![row.col + 1] = tail]
<1>7. ASSUME ~refused
      PROVE  /\ old \in PlainCells /\ old.text # <<>> /\ CellReads(old) /\ old.text \in Text
             /\ CellReads(new) /\ ~new.tail /\ new.wide = old.wide
    <2> HIDE DEF owner
    <2>1. old \in PlainCells /\ old.text # <<>> /\ CellReads(old)
        BY <1>2, <1>3, <1>6, <1>7
    <2>2. old.text \in Text
        BY <2>1, PlainIs
    <2> HIDE DEF old
    <2>3. new.text = Append(old.text, c) /\ new.tail = old.tail /\ new.wide = old.wide
        BY <2>1 DEF PlainCells
    <2> HIDE DEF new
    <2>4. CellReads(new) /\ ~new.tail
        BY <2>1, <2>2, <2>3, MarkedReads
    <2> QED
        BY <2>1, <2>2, <2>3, <2>4 DEF new
<1>8. ASSUME ~refused, ~widens PROVE joined \in ReadableRows(cols)
    <2>1. joined \in LaidRows(cols)
        BY <1>1, <1>4, <1>8
    <2>2. joined.cells = one /\ joined.col = row.col
        BY <1>2 DEF LaidRows
    <2>3. owner \in 1 .. row.col
        BY <1>6, <1>8
    <2> DEFINE f == one
    <2>4. /\ f[owner] = new /\ \A i \in 1 .. cols : i # owner => f[i] = row.cells[i]
        <3> HIDE DEF owner, new
        <3> QED
            BY <1>2, <2>3
    <2>5. CellReads(new) /\ ~new.tail /\ new.wide = row.cells[owner].wide
        BY <1>7, <1>8
    <2> HIDE DEF f, owner, new, joined
    <2>6. \A i \in 1 .. cols : row.cells[i].wide => f[i].wide
        BY <2>4, <2>5
    <2>7. \A i \in 1 .. cols : f[i] = row.cells[i] \/ (CellReads(f[i]) /\ (f[i].tail => i > 1 /\ f[i - 1].wide))
        BY <2>4, <2>5
    <2>8. \A i \in 1 .. cols : CellReads(f[i]) /\ (f[i].tail => i > 1 /\ f[i - 1].wide)
        BY <1>3, <2>6, <2>7, ChangedReads
    <2>9. \A i \in row.col + 1 .. cols : f[i] = ErasedCell
        <3> TAKE i \in row.col + 1 .. cols
        <3>1. i \in 1 .. cols /\ i # owner
            BY <1>2, <2>3
        <3> QED
            BY <1>3, <2>4, <3>1
    <2>10. joined.cells = f /\ joined.col = row.col
        BY <2>2 DEF f
    <2> QED
        BY <2>1, <2>8, <2>9, <2>10 DEF ReadableRows
<1>9. ASSUME ~refused, widens PROVE wider \in ReadableRows(cols)
    <2>1. wider \in LaidRows(cols)
        BY <1>1, <1>4, <1>9
    <2>2. owner = row.col /\ row.col \in 1 .. cols /\ c = Selector
        BY <1>6, <1>9
    <2>3. row.col < cols
        BY <1>2, <1>9, SMTT(40)
    <2>4. wider.cells = two /\ wider.col = row.col + 1
        <3> HIDE DEF owner
        <3> QED
            BY <1>2 DEF LaidRows
    <2>5. CellReads(wide) /\ ~wide.tail /\ wide.wide
        <3>1. old \in PlainCells /\ old.text # <<>> /\ CellReads(old) /\ old.text \in Text
            BY <1>7, <1>9
        <3> HIDE DEF old
        <3>2. wide.text = Append(old.text, c) /\ wide.tail = old.tail /\ wide.wide = TRUE
            BY <3>1 DEF PlainCells
        <3> HIDE DEF wide
        <3>3. CellReads(wide) /\ ~wide.tail
            BY <2>2, <3>1, <3>2, MarkedReads
        <3> QED
            BY <3>2, <3>3
    <2> DEFINE f == two
    <2>6. /\ f[row.col] = wide /\ f[row.col + 1] = tail
          /\ \A i \in 1 .. cols : i # row.col /\ i # row.col + 1 => f[i] = row.cells[i]
        <3> HIDE DEF wide, tail
        <3>1. f = [[row.cells EXCEPT ![row.col] = wide] EXCEPT ![row.col + 1] = tail]
            BY <2>2
        <3> HIDE DEF f
        <3> QED
            BY <1>2, <2>2, <2>3, <3>1
    <2>7. CellReads(tail) /\ tail.tail /\ ~tail.wide
        BY CellsRead DEF Cell
    <2>8. ErasedCell.wide = FALSE /\ row.cells[row.col + 1] = ErasedCell
        <3>1. row.col + 1 \in row.col + 1 .. cols
            BY <1>2, <2>3
        <3>2. ErasedCell.wide = FALSE
            BY DEF ErasedCell, Cell
        <3> QED
            BY <1>3, <3>1, <3>2
    <2> HIDE DEF f, owner, wide, tail, wider, two
    <2>9. \A i \in 1 .. cols : row.cells[i].wide => f[i].wide
        BY <2>5, <2>6, <2>8
    <2>10. \A i \in 1 .. cols : f[i] = row.cells[i] \/ (CellReads(f[i]) /\ (f[i].tail => i > 1 /\ f[i - 1].wide))
        <3> TAKE i \in 1 .. cols
        <3>1. i = row.col + 1 => i > 1 /\ i - 1 = row.col
            BY <2>2
        <3> QED
            BY <2>5, <2>6, <2>7, <3>1
    <2>11. \A i \in 1 .. cols : CellReads(f[i]) /\ (f[i].tail => i > 1 /\ f[i - 1].wide)
        BY <1>3, <2>9, <2>10, ChangedReads
    <2>12. \A i \in (row.col + 1) + 1 .. cols : f[i] = ErasedCell
        <3> TAKE i \in (row.col + 1) + 1 .. cols
        <3>1. i \in 1 .. cols /\ i # row.col /\ i # row.col + 1 /\ i \in row.col + 1 .. cols
            BY <2>2
        <3> QED
            BY <1>3, <2>6, <3>1
    <2>13. wider.cells = f /\ wider.col = row.col + 1
        BY <2>4 DEF f
    <2> QED
        BY <2>1, <2>11, <2>12, <2>13 DEF ReadableRows
<1> HIDE DEF refused, widens, joined, wider, bad
<1> QED
    BY <1>1, <1>5, <1>8, <1>9

(* A character leaves a row that reads. *)
LEMMA PlaceCharReads ==
    ASSUME NEW cols \in Nat, NEW row \in ReadableRows(cols), NEW c \in STRING, NEW widen
    PROVE  PlaceChar(row, cols, c, widen) \in ReadableRows(cols)
<1> DEFINE width == CharColumns(c)
           first == Cell(<<c>>, PlainStyle, width = 2, FALSE)
           cut == width = 2 /\ row.col + 1 = cols
           refused == c \in ControlChars \/ (width > 0 /\ ~cut /\ row.col + width > cols)
           bad == [row EXCEPT !.ok = FALSE]
           mark == JoinMark(row, cols, c, widen)
           half == [row EXCEPT !.cells[cols] = first, !.col = cols]
           tail == Cell(<<>>, PlainStyle, FALSE, TRUE)
           cells == [i \in 1 .. cols |-> CASE i = row.col + 1 -> first
                                           [] width = 2 /\ i = row.col + 2 -> tail
                                           [] OTHER -> row.cells[i]]
           placed == [row EXCEPT !.cells = cells, !.col = row.col + width]
<1>1. PlaceChar(row, cols, c, widen) =
          CASE refused -> bad [] ~refused /\ width = 0 -> mark [] ~refused /\ cut -> half [] OTHER -> placed
    BY Zenon DEF PlaceChar
<1>2. /\ row \in LaidRows(cols)
      /\ row.cells \in [1 .. cols -> PlainCells] /\ row.col \in 0 .. cols /\ row.ok \in BOOLEAN
    BY DEF LaidRows, ReadableRows
<1>3. /\ \A i \in 1 .. cols : CellReads(row.cells[i]) /\ (row.cells[i].tail => i > 1 /\ row.cells[i - 1].wide)
      /\ \A i \in row.col + 1 .. cols : row.cells[i] = ErasedCell
    BY ReadableIs
<1>4. PlaceChar(row, cols, c, widen) \in LaidRows(cols)
    BY <1>2, PlaceCharType
<1>5. width \in {0, 1, 2} /\ (width = 0 => c \in Marks) /\ (width = 2 => c \in WideChars)
    BY DEF CharColumns
<1>6. ErasedCell.wide = FALSE /\ ErasedCell.tail = FALSE
    BY DEF ErasedCell, Cell
<1>7. ASSUME c \notin ControlChars
      PROVE  CellReads(first) /\ first.tail = FALSE /\ (width = 2 => first.wide)
    <2>1. (width = 2) => c \in WideChars
        BY <1>5
    <2>2. CellReads(first)
        <3> DEFINE is == width = 2
        <3>1. is => c \in WideChars
            BY <2>1
        <3> HIDE DEF is
        <3>2. CellReads(Cell(<<c>>, PlainStyle, is, FALSE))
            BY <1>7, <3>1, CellsRead, Zenon
        <3> QED
            BY <3>2 DEF is
    <2>3. first.tail = FALSE /\ (width = 2 => first.wide)
        BY DEF Cell
    <2> QED
        BY <2>2, <2>3
<1>8. CellReads(tail) /\ tail.tail
    BY CellsRead DEF Cell
<1> HIDE DEF width, first, tail
<1>9. ASSUME refused PROVE bad \in ReadableRows(cols)
    <2>1. bad.cells = row.cells /\ bad.col = row.col
        BY <1>2 DEF LaidRows
    <2>2. bad \in LaidRows(cols)
        BY <1>1, <1>4, <1>9
    <2> HIDE DEF bad
    <2> QED
        BY <1>3, <2>1, <2>2 DEF ReadableRows
<1>10. ASSUME ~refused, width = 0 PROVE mark \in ReadableRows(cols)
    <2>1. c \in Marks /\ c \notin ControlChars
        BY <1>5, <1>10
    <2> QED
        BY <2>1, JoinMarkReads
<1>11. ASSUME ~refused, width # 0, cut PROVE half \in ReadableRows(cols)
    <2>1. half \in LaidRows(cols)
        BY <1>1, <1>4, <1>11
    <2>2. row.col + 1 = cols /\ CellReads(first) /\ first.tail = FALSE
        BY <1>7, <1>11
    <2> DEFINE f == [row.cells EXCEPT ![cols] = first]
    <2>3. half.cells = f /\ half.col = cols
        BY <1>2 DEF LaidRows
    <2>4. f[cols] = first /\ \A i \in 1 .. cols : i # cols => f[i] = row.cells[i]
        BY <1>2, <2>2
    <2>5. row.cells[cols] = ErasedCell
        BY <1>2, <1>3, <2>2
    <2> HIDE DEF f, half
    <2>6. \A i \in 1 .. cols : row.cells[i].wide => f[i].wide
        BY <1>6, <2>4, <2>5
    <2>7. \A i \in 1 .. cols : f[i] = row.cells[i] \/ (CellReads(f[i]) /\ (f[i].tail => i > 1 /\ f[i - 1].wide))
        BY <2>2, <2>4
    <2>8. \A i \in 1 .. cols : CellReads(f[i]) /\ (f[i].tail => i > 1 /\ f[i - 1].wide)
        BY <1>3, <2>6, <2>7, ChangedReads
    <2>9. \A i \in cols + 1 .. cols : f[i] = ErasedCell
        OBVIOUS
    <2> QED
        BY <2>1, <2>3, <2>8, <2>9 DEF ReadableRows
<1>12. ASSUME ~refused, width # 0, ~cut PROVE placed \in ReadableRows(cols)
    <2>1. placed \in LaidRows(cols)
        BY <1>1, <1>4, <1>12
    <2>2. CellReads(first) /\ first.tail = FALSE /\ (width = 2 => first.wide) /\ row.col + width <= cols /\ width \in {1, 2}
        <3>1. width \in {1, 2}
            BY <1>5, <1>12
        <3>2. c \notin ControlChars /\ row.col + width <= cols
            BY <1>2, <1>12, <3>1
        <3> QED
            BY <1>7, <3>1, <3>2, Zenon
    <2>3. placed.cells = cells /\ placed.col = row.col + width
        <3> HIDE DEF cells
        <3> QED
            BY <1>2 DEF LaidRows
    <2>4. /\ cells[row.col + 1] = first
          /\ width = 2 => cells[row.col + 2] = tail
          /\ \A i \in 1 .. cols : i # row.col + 1 /\ (width = 2 => i # row.col + 2) => cells[i] = row.cells[i]
        BY <1>2, <2>2
    <2> HIDE DEF cells, placed
    <2>5. \A i \in 1 .. cols : row.cells[i].wide => cells[i].wide
        <3> TAKE i \in 1 .. cols
        <3>1. i <= row.col \/ i \in row.col + 1 .. cols
            BY <1>2
        <3>2. i <= row.col => cells[i] = row.cells[i]
            BY <1>2, <2>4
        <3> QED
            BY <1>3, <1>6, <3>1, <3>2
    <2>6. \A i \in 1 .. cols : cells[i] = row.cells[i] \/ (CellReads(cells[i]) /\ (cells[i].tail => i > 1 /\ cells[i - 1].wide))
        <3> TAKE i \in 1 .. cols
        <3>1. CASE i = row.col + 1
            BY <2>2, <2>4, <3>1
        <3>2. CASE width = 2 /\ i = row.col + 2
            <4>1. i - 1 = row.col + 1 /\ i > 1
                BY <1>2, <3>2
            <4> QED
                BY <1>8, <2>2, <2>4, <3>2, <4>1
        <3>3. CASE i # row.col + 1 /\ (width = 2 => i # row.col + 2)
            BY <2>4, <3>3
        <3> QED
            BY <3>1, <3>2, <3>3
    <2>7. \A i \in 1 .. cols : CellReads(cells[i]) /\ (cells[i].tail => i > 1 /\ cells[i - 1].wide)
        BY <1>3, <2>5, <2>6, ChangedReads
    <2>8. \A i \in (row.col + width) + 1 .. cols : cells[i] = ErasedCell
        <3> TAKE i \in (row.col + width) + 1 .. cols
        <3>1. i \in 1 .. cols /\ i \in row.col + 1 .. cols /\ i # row.col + 1 /\ (width = 2 => i # row.col + 2)
            BY <1>2, <2>2
        <3> QED
            BY <1>3, <2>4, <3>1
    <2> QED
        BY <2>1, <2>3, <2>7, <2>8 DEF ReadableRows
<1>17. cut => width = 2
    OBVIOUS
<1> HIDE DEF refused, cut, bad, mark, half, placed
<1>13. CASE refused
    BY <1>1, <1>9, <1>13
<1>14. CASE ~refused /\ width = 0
    BY <1>1, <1>10, <1>14, <1>17
<1>15. CASE ~refused /\ width # 0 /\ cut
    BY <1>1, <1>11, <1>15
<1>16. CASE ~refused /\ width # 0 /\ ~cut
    BY <1>1, <1>12, <1>16
<1> QED
    BY <1>13, <1>14, <1>15, <1>16

(* A row that is read of a text reads. *)
LEMMA ReadRowReads ==
    ASSUME NEW text \in Text, NEW cols \in Nat
    PROVE  ReadRow(text, cols) \in ReadableRows(cols)
<1> DEFINE V == ReadableRows(cols)
<1>1. EmptyRow(cols) \in V
    BY EmptyRowReads
<1>2. ASSUME NEW widen PROVE LayOutRow(text, cols, widen) \in V
    <2>1. ASSUME NEW x \in V, NEW k \in 1 .. Len(text) PROVE LayOutNext(text, cols, widen, x, k) \in V
        <3>1. text[k] \in STRING
            BY DEF Text
        <3>2. PlaceChar(x, cols, text[k], widen) \in V
            BY <3>1, PlaceCharReads
        <3> QED
            BY <3>2, Zenon DEF LayOutNext
    <2> HIDE DEF V
    <2> QED
        BY <1>1, <2>1, LayOutKeeps
<1> QED
    BY <1>2, Zenon DEF ReadRow

(* The styles that are read change no text. *)
LEMMA StylesRead ==
    ASSUME NEW s, IsScreen(s), RowsRead(s), NEW lines, NEW t \in ReadStyles(s, lines)
    PROVE  RowsRead(t) /\ \E cells : t = [s EXCEPT !.cells = cells]
<1> DEFINE HasSpans(line) == line.text \notin {<<>>, <<NoneWord>>}
           said == SelectSeq(lines, HasSpans)
           Spans(row) == UNION {said[i].spans : i \in {j \in DOMAIN said : said[j].row = row}}
           Over(row, col) == {span \in Spans(row) : span.from <= col /\ col <= span.to}
           Style(r, c) == IF Over(r - 1, c - 1) = {} THEN PlainStyle
                          ELSE StyleOf((CHOOSE span \in Over(r - 1, c - 1) : TRUE).tokens)
           X(r, c) == [s.cells[r][c] EXCEPT !.style = Style(r, c)]
           row == [r \in 1 .. s.rows |-> [c \in 1 .. s.cols |-> X(r, c)]]
           bad == \E i \in DOMAIN said : ~SpansOk(s, said[i])
<1>1. ReadStyles(s, lines) = IF bad THEN {} ELSE {[s EXCEPT !.cells = row]}
    BY Zenon DEF ReadStyles
<1> HIDE DEF bad, Style
<1>2. t = [s EXCEPT !.cells = row]
    <2> HIDE DEF row
    <2> QED
        BY <1>1
<1>3. s.cols \in Nat /\ s.rows \in Nat /\ "cells" \in DOMAIN s /\ "rows" \in DOMAIN s
    <2>1. DOMAIN s = ScreenFields /\ s.cols \in Narrow /\ s.rows \in Narrow
        BY Zenon DEF IsScreen
    <2> QED
        BY <2>1, NarrowNat DEF ScreenFields
<1>4. ASSUME NEW r \in 1 .. s.rows, NEW c \in 1 .. s.cols
      PROVE  X(r, c).text = s.cells[r][c].text /\ X(r, c).wide = s.cells[r][c].wide /\ X(r, c).tail = s.cells[r][c].tail
    <2> DEFINE cell == s.cells[r][c]
    <2>1. DOMAIN cell = {"text", "style", "wide", "tail"}
        <3>1. IsCell(cell)
            BY CellOf, Zenon
        <3>2. DOMAIN ErasedCell = {"text", "style", "wide", "tail"}
            BY DEF ErasedCell, Cell
        <3> QED
            BY <3>1, <3>2, Zenon DEF IsCell
    <2> HIDE DEF cell
    <2>2. /\ [cell EXCEPT !.style = Style(r, c)].text = cell.text
          /\ [cell EXCEPT !.style = Style(r, c)].wide = cell.wide
          /\ [cell EXCEPT !.style = Style(r, c)].tail = cell.tail
        BY <2>1
    <2> QED
        BY <2>2 DEF cell
<1> HIDE DEF X
<1>5. \A r \in 1 .. s.rows : RowReads(row[r])
    <2> TAKE r \in 1 .. s.rows
    <2> DEFINE f == row[r]
    <2>1. DOMAIN f = 1 .. s.cols /\ \A c \in 1 .. s.cols : f[c] = X(r, c)
        OBVIOUS
    <2> HIDE DEF f
    <2>2. \A c \in 1 .. s.cols : CellReads(f[c]) /\ (f[c].tail => c > 1 /\ f[c - 1].wide)
        <3> TAKE c \in 1 .. s.cols
        <3>1. f[c] = X(r, c) /\ CellReads(X(r, c))
            <4>1. CellReads(s.cells[r][c])
                BY CellOfRead
            <4>2. CellReads(X(r, c))
                BY <1>4, <4>1, CellReadsAs
            <4> QED
                BY <2>1, <4>2
        <3>2. f[c].tail => c > 1 /\ c - 1 \in 1 .. s.cols /\ s.cells[r][c - 1].wide
            BY <1>4, <3>1, CellOfRead
        <3>3. c - 1 \in 1 .. s.cols => f[c - 1].wide = s.cells[r][c - 1].wide
            BY <1>4, <2>1
        <3> QED
            BY <3>1, <3>2, <3>3, Zenon
    <2>3. RowReads(f)
        BY <1>3, <2>1, <2>2, RowReadsIs
    <2> QED
        BY <2>3 DEF f
<1> HIDE DEF row
<1>6. t.cells = row /\ t.rows = s.rows
    BY <1>2, <1>3
<1>7. RowsRead(t)
    BY <1>5, <1>6, Zenon DEF RowsRead
<1> QED
    BY <1>2, <1>7, Zenon

(* The cursor that is read is on the screen. *)
LEMMA CursorReads ==
    ASSUME NEW cols \in Nat, cols > 0, NEW rows \in Nat, NEW cursor \in Cursors, NEW c \in ReadCursor(cols, rows, cursor)
    PROVE  c \in Cursors /\ c.row < rows /\ c.col < cols
<1> DEFINE col == IF cursor.col = cols THEN cols - 1 ELSE cursor.col
<1>1. cursor.row < rows /\ col < cols /\ c = [cursor EXCEPT !.col = col]
    BY DEF ReadCursor
<1>2. col \in Nat
    BY DEF Cursors
<1> HIDE DEF col
<1> QED
    BY <1>1, <1>2 DEF Cursors

(* A cursor that is on the screen reads as it is. *)
LEMMA CursorReadsBack ==
    ASSUME NEW cols \in Nat, NEW rows \in Nat, NEW cursor \in Cursors, cursor.row < rows, cursor.col < cols
    PROVE  ReadCursor(cols, rows, cursor) = {cursor}
<1>1. cursor.col \in Int /\ cursor.row \in Int
    BY DEF Cursors
<1>2. cursor.col # cols
    BY <1>1
<1>3. ReadCursor(cols, rows, cursor) = {[cursor EXCEPT !.col = cursor.col]}
    BY <1>2 DEF ReadCursor
<1>4. [cursor EXCEPT !.col = cursor.col] = cursor
    BY DEF Cursors
<1> QED
    BY <1>3, <1>4

(* What is read from a text is such a screen as the emulator makes. *)
LEMMA ParseCaptured ==
    ASSUME NEW file, IsText(file), file.cursor \in Cursors, NEW t \in Parse(file)
    PROVE  IsCaptured(t)
<1> DEFINE split == GridLines(file)
           rows == [i \in 1 .. file.rows |->
                      IF i <= split THEN ReadRow(file.lines[i].text, file.cols) ELSE EmptyRow(file.cols)]
           rest == {i \in split + 1 .. Len(file.lines) : file.lines[i].text # <<>>}
           word == CHOOSE i \in rest : \A j \in rest : i <= j
           cells == [r \in 1 .. file.rows |-> rows[r].cells]
           Bare(cursor) ==
               [cols |-> file.cols, rows |-> file.rows, cursor |-> cursor,
                cells |-> cells, wrapped |-> <<>>, history |-> <<>>]
           bad == (\E r \in DOMAIN rows : ~rows[r].ok) \/ (rest # {} /\ file.lines[word].text # <<StylesWord>>)
           after == SubSeq(file.lines, word + 1, Len(file.lines))
<1>1. Parse(file) =
          IF bad THEN {} ELSE IF rest = {} THEN {Bare(c) : c \in ReadHeader(file)}
          ELSE UNION {ReadStyles(Bare(c), after) : c \in ReadHeader(file)}
    BY Zenon DEF Parse
<1>2. /\ file.cols \in Narrow /\ file.rows \in Narrow
      /\ Len(file.lines) \in Nat /\ \A i \in 1 .. Len(file.lines) : file.lines[i].text \in Text
    BY Zenon DEF IsText
<1>3. file.cols \in Nat /\ file.rows \in Nat
    BY <1>2, NarrowNat, Zenon
<1>4. \A i \in 1 .. file.rows : i <= split => i \in 1 .. Len(file.lines)
    BY <1>2, <1>3 DEF GridLines, Least
<1> HIDE DEF split
<1>5. \A i \in 1 .. file.rows : rows[i] \in ReadableRows(file.cols)
    <2> TAKE i \in 1 .. file.rows
    <2>1. rows[i] = IF i <= split THEN ReadRow(file.lines[i].text, file.cols) ELSE EmptyRow(file.cols)
        OBVIOUS
    <2> HIDE DEF rows
    <2>2. CASE i <= split
        <3> DEFINE text == file.lines[i].text
        <3>1. text \in Text
            BY <1>2, <1>4, <2>2
        <3> HIDE DEF text
        <3>2. ReadRow(text, file.cols) \in ReadableRows(file.cols)
            BY <1>3, <3>1, ReadRowReads
        <3> QED
            BY <2>1, <2>2, <3>2, Zenon DEF text
    <2>3. CASE ~ i <= split
        <3>1. EmptyRow(file.cols) \in ReadableRows(file.cols)
            BY <1>3, EmptyRowReads
        <3> QED
            BY <2>1, <2>3, <3>1, Zenon
    <2> QED
        BY <2>2, <2>3
<1> HIDE DEF rows, bad, after
<1>6. \A r \in 1 .. file.rows : RowReads(cells[r]) /\ IsRow(cells[r], file.cols)
    <2> TAKE r \in 1 .. file.rows
    <2> DEFINE row == rows[r]
    <2>1. row \in ReadableRows(file.cols) /\ cells[r] = row.cells
        BY <1>5
    <2> HIDE DEF row, cells
    <2>2. row \in LaidRows(file.cols)
        BY <2>1, ReadableIs
    <2>3. DOMAIN row.cells = 1 .. file.cols
        BY <2>2 DEF LaidRows
    <2>4. \A i \in 1 .. file.cols : CellReads(row.cells[i]) /\ (row.cells[i].tail => i > 1 /\ row.cells[i - 1].wide)
        BY <2>1, ReadableIs
    <2>5. RowReads(row.cells)
        BY <2>3, <2>4, Zenon DEF RowReads
    <2>6. IsRow(row.cells, file.cols)
        BY <1>3, <2>2, LaidRowIs
    <2> QED
        BY <2>1, <2>5, <2>6, Zenon
<1>7. cells = [r \in 1 .. file.rows |-> cells[r]]
    OBVIOUS
<1> HIDE DEF cells
<1>8. ASSUME NEW c PROVE /\ IsScreen(Bare(c)) /\ RowsRead(Bare(c)) /\ Bare(c) = [f \in ScreenFields |-> Bare(c)[f]]
                         /\ Bare(c).cols = file.cols /\ Bare(c).rows = file.rows /\ Bare(c).cursor = c
    <2> DEFINE b == Bare(c)
    <2>1. /\ DOMAIN b = ScreenFields /\ b.cols = file.cols /\ b.rows = file.rows /\ b.cells = cells /\ b.cursor = c
          /\ b = [f \in ScreenFields |-> b[f]]
        BY DEF ScreenFields
    <2> HIDE DEF b
    <2>2. HasLength(cells, file.rows)
        BY <1>7, Zenon DEF HasLength
    <2>3. IsScreen(b)
        BY <1>2, <1>6, <2>1, <2>2, Zenon DEF IsScreen
    <2>4. RowsRead(b)
        BY <1>6, <2>1, Zenon DEF RowsRead
    <2> QED
        BY <2>1, <2>3, <2>4 DEF b
<1>9. ASSUME NEW c \in ReadHeader(file) PROVE IsScreen(Bare(c)) /\ IsCaptured(Bare(c))
    <2>1. file.cols \in 1 .. MaxDimension /\ file.rows \in 1 .. MaxDimension
        BY <1>9 DEF ReadHeader
    <2>2. c \in Cursors /\ c.row < file.rows /\ c.col < file.cols
        <3>1. CASE file.cursor.visible
            <4>1. c \in ReadCursor(file.cols, file.rows, file.cursor)
                BY <1>9, <2>1, <3>1 DEF ReadHeader
            <4>2. file.cols > 0
                BY <1>3, <2>1
            <4> QED
                BY <1>3, <4>1, <4>2, CursorReads
        <3>2. CASE ~file.cursor.visible
            <4>1. c = HiddenCursor
                BY <1>9, <2>1, <3>2 DEF ReadHeader
            <4>2. file.cols > 0 /\ file.rows > 0
                BY <1>3, <2>1
            <4> QED
                BY <4>1, <4>2 DEF HiddenCursor, Cursors
        <3> QED
            BY <3>1, <3>2
    <2> DEFINE b == Bare(c)
    <2>3. /\ IsScreen(b) /\ RowsRead(b) /\ b = [f \in ScreenFields |-> b[f]]
          /\ b.cols = file.cols /\ b.rows = file.rows /\ b.cursor = c
        BY <1>8
    <2> HIDE DEF b
    <2>4. IsCaptured(b)
        BY <2>1, <2>2, <2>3, Zenon DEF IsCaptured, RowsRead
    <2> QED
        BY <2>3, <2>4 DEF b
<1> HIDE DEF rest, word, Bare
<1>10. (\E c \in ReadHeader(file) : t = Bare(c)) \/ (\E c \in ReadHeader(file) : t \in ReadStyles(Bare(c), after))
    BY <1>1
<1>11. CASE \E c \in ReadHeader(file) : t = Bare(c)
    BY <1>9, <1>11
<1>12. CASE \E c \in ReadHeader(file) : t \in ReadStyles(Bare(c), after)
    <2>1. PICK c \in ReadHeader(file) : t \in ReadStyles(Bare(c), after)
        BY <1>12
    <2> DEFINE b == Bare(c)
    <2>2. IsScreen(b) /\ IsCaptured(b) /\ t \in ReadStyles(b, after)
        BY <1>9, <2>1
    <2> HIDE DEF b
    <2>3. RowsRead(b)
        BY <2>2, Zenon DEF IsCaptured, RowsRead
    <2>4. RowsRead(t) /\ \E cs : t = [b EXCEPT !.cells = cs]
        BY <2>2, <2>3, StylesRead
    <2> QED
        BY <2>2, <2>4, CapturedCells
<1> QED
    BY <1>10, <1>11, <1>12

(* What is read of a JSON document is such a screen. *)
LEMMA JsonCaptured ==
    ASSUME NEW document, IsJson(document), document.screen = [f \in ScreenFields |-> document.screen[f]],
           document.screen.cursor \in Cursors, NEW t \in FromJson(document)
    PROVE  IsCaptured(t)
<1> DEFINE s == document.screen
           good == /\ document.format = JsonFormat
                   /\ s.cols \in 1 .. MaxDimension /\ s.rows \in 1 .. MaxDimension
                   /\ Len(s.cells) = s.rows
                   /\ \A r \in DOMAIN s.cells : Len(s.cells[r]) = s.cols /\ RowReads(s.cells[r])
<1>1. FromJson(document) = IF good THEN {[s EXCEPT !.cursor = c] : c \in ReadCursor(s.cols, s.rows, s.cursor)} ELSE {}
    BY Zenon DEF FromJson
<1>2. s.cols \in Nat /\ s.rows \in Nat /\ HasLength(s.cells, Len(s.cells))
    BY NarrowNat, Zenon DEF IsJson
<1>3. s = [f \in ScreenFields |-> s[f]] /\ s.cursor \in Cursors
    OBVIOUS
<1> HIDE DEF s
<1>4. good /\ \E c \in ReadCursor(s.cols, s.rows, s.cursor) : t = [s EXCEPT !.cursor = c]
    <2> HIDE DEF good
    <2> QED
        BY <1>1
<1>5. PICK c \in ReadCursor(s.cols, s.rows, s.cursor) : t = [s EXCEPT !.cursor = c]
    BY <1>4
<1>6. /\ t = [f \in ScreenFields |-> t[f]] /\ t.cursor = c
      /\ t.cols = s.cols /\ t.rows = s.rows /\ t.cells = s.cells
    <2>1. {"cols", "rows", "cells", "cursor"} \subseteq ScreenFields
        BY DEF ScreenFields
    <2>2. t = [f \in ScreenFields |-> t[f]] /\ t["cursor"] = c /\ \A f \in ScreenFields \ {"cursor"} : t[f] = s[f]
        BY <1>3, <1>5, <2>1
    <2> QED
        BY <2>1, <2>2
<1>7. c \in Cursors /\ c.row < s.rows /\ c.col < s.cols
    <2>1. s.cols > 0
        BY <1>2, <1>4
    <2> QED
        BY <1>2, <1>3, <2>1, CursorReads
<1>8. \A r \in 1 .. s.rows : RowReads(s.cells[r])
    <2>1. DOMAIN s.cells = 1 .. s.rows
        <3> DEFINE f == s.cells
        <3>1. f = [i \in 1 .. s.rows |-> f[i]]
            BY <1>2, <1>4, Zenon DEF HasLength
        <3> HIDE DEF f
        <3>2. DOMAIN f = 1 .. s.rows
            BY <3>1
        <3> QED
            BY <3>2 DEF f
    <2> QED
        BY <1>4, <2>1, Zenon
<1>9. s.cols \in 1 .. MaxDimension /\ s.rows \in 1 .. MaxDimension
    BY <1>4, Zenon
<1> HIDE DEF good
<1> QED
    BY <1>6, <1>7, <1>8, <1>9, Zenon DEF IsCaptured

(* The JSON of such a screen reads as the screen. *)
LEMMA JsonIsRead ==
    ASSUME NEW s, IsScreen(s), IsCaptured(s)
    PROVE  FromJson(ToJson(s)) = {s}
<1> DEFINE document == ToJson(s)
<1>1. document.screen = s /\ document.format = JsonFormat
    BY DEF ToJson
<1>2. /\ s = [f \in ScreenFields |-> s[f]]
      /\ s.cols \in 1 .. MaxDimension /\ s.rows \in 1 .. MaxDimension
      /\ s.cursor \in Cursors /\ s.cursor.row < s.rows /\ s.cursor.col < s.cols
      /\ \A r \in 1 .. s.rows : RowReads(s.cells[r])
    BY Zenon DEF IsCaptured
<1>3. s.cols \in Nat /\ s.rows \in Nat /\ HasLength(s.cells, s.rows)
    BY NarrowNat, Zenon DEF IsScreen
<1>4. Len(s.cells) = s.rows /\ DOMAIN s.cells = 1 .. s.rows
    <2> DEFINE n == s.rows
               f == s.cells
               V == {f[i] : i \in 1 .. n}
    <2>1. n \in Nat /\ f = [i \in 1 .. n |-> f[i]]
        BY <1>3, Zenon DEF HasLength
    <2> HIDE DEF n, f
    <2>2. [i \in 1 .. n |-> f[i]] \in Seq(V)
        BY <2>1
    <2>3. Len(f) = n /\ DOMAIN f = 1 .. n
        BY <2>1, <2>2
    <2> QED
        BY <2>3 DEF n, f
<1>5. \A r \in 1 .. s.rows : Len(s.cells[r]) = s.cols
    BY RowOf
<1>6. ReadCursor(s.cols, s.rows, s.cursor) = {s.cursor}
    BY <1>2, <1>3, CursorReadsBack
<1>7. [s EXCEPT !.cursor = s.cursor] = s
    BY <1>2
<1> HIDE DEF document
<1> DEFINE good == /\ document.format = JsonFormat
                   /\ s.cols \in 1 .. MaxDimension /\ s.rows \in 1 .. MaxDimension
                   /\ Len(s.cells) = s.rows
                   /\ \A r \in DOMAIN s.cells : Len(s.cells[r]) = s.cols /\ RowReads(s.cells[r])
<1>8. good
    BY <1>1, <1>2, <1>4, <1>5, Zenon
<1>9. FromJson(document) = IF good THEN {[s EXCEPT !.cursor = c] : c \in ReadCursor(s.cols, s.rows, s.cursor)} ELSE {}
    BY <1>1, Zenon DEF FromJson
<1> HIDE DEF good
<1>10. FromJson(document) = {[s EXCEPT !.cursor = s.cursor]}
    BY <1>6, <1>8, <1>9
<1>11. FromJson(document) = {s}
    BY <1>7, <1>10, Zenon
<1> QED
    BY <1>11 DEF document

(* What is saved of such a screen says where the cursor is. *)
LEMMA SavedSays ==
    ASSUME NEW s, IsCaptured(s)
    PROVE  /\ SaysCursor([kind |-> "text", document |-> WithStyles(s)])
           /\ SaysCursor([kind |-> "json", document |-> ToJson(s)])
<1>1. s = [f \in ScreenFields |-> s[f]] /\ s.cursor \in Cursors
    BY Zenon DEF IsCaptured
<1>2. WithStyles(s).cursor \in Cursors
    <2> DEFINE Spans(row) == RowSpans(s, row)
               spans == FlattenSeq([i \in 1 .. s.rows |->
                            IF Spans(i - 1) = {} THEN <<>> ELSE <<SpanLine(i - 1, Spans(i - 1))>>])
               more == <<TextLine(<<>>), TextLine(<<StylesWord>>)>>
                           \o IF spans = <<>> THEN <<TextLine(<<NoneWord>>)>> ELSE spans
    <2>1. \E lines : WithStyles(s) = [Displayed(s) EXCEPT !.lines = lines]
        <3>1. WithStyles(s) = [Displayed(s) EXCEPT !.lines =
                  @ \o <<TextLine(<<>>), TextLine(<<StylesWord>>)>>
                    \o IF spans = <<>> THEN <<TextLine(<<NoneWord>>)>> ELSE spans]
            BY Zenon DEF WithStyles
        <3> QED
            BY <3>1, Zenon
    <2>2. PICK lines : WithStyles(s) = [Displayed(s) EXCEPT !.lines = lines]
        BY <2>1
    <2>3. Displayed(s).cursor \in Cursors /\ DOMAIN Displayed(s) = {"cols", "rows", "cursor", "lines"}
        BY <1>1 DEF Displayed, HiddenCursor, Cursors
    <2> QED
        BY <2>2, <2>3
<1> DEFINE text == [kind |-> "text", document |-> WithStyles(s)]
           json == [kind |-> "json", document |-> ToJson(s)]
<1>3. text.kind = "text" /\ text.document = WithStyles(s) /\ json.kind = "json" /\ json.document.screen = s
    BY DEF ToJson
<1> HIDE DEF text, json
<1>4. SaysCursor(text)
    BY <1>2, <1>3 DEF SaysCursor
<1>5. SaysCursor(json)
    BY <1>1, <1>3, Zenon DEF SaysCursor
<1> QED
    BY <1>4, <1>5 DEF text, json

(* The screen that is held is such a one, and what is saved says where its cursor is. *)
ReadsInv ==
    /\ IInv
    /\ screen = NoScreen \/ IsCaptured(screen)
    /\ saved = NoFile \/ SaysCursor(saved)

(* A session begins in it. *)
LEMMA InitReads == Init => ReadsInv
<1> SUFFICES ASSUME Init PROVE ReadsInv
    OBVIOUS
<1>1. IInv
    BY InitIsSession
<1>2. screen = NoScreen /\ session \in Sessions /\ saved \in session.files \union {NoFile}
    BY DEF Init
<1>3. saved = NoFile \/ SaysCursor(saved)
    BY <1>2, SessionsAssumption
<1> QED
    BY <1>1, <1>2, <1>3, Zenon DEF ReadsInv

(* What is done with the screen keeps it. *)
LEMMA ScreenReads ==
    ReadsInv /\ (TakeSnapshot \/ Mask \/ SaveText \/ SaveJson \/ ReadSaved)
        => (screen' = NoScreen \/ IsCaptured(screen')) /\ (saved' = NoFile \/ SaysCursor(saved'))
<1> DEFINE Goal == (screen' = NoScreen \/ IsCaptured(screen')) /\ (saved' = NoFile \/ SaysCursor(saved'))
<1> SUFFICES ASSUME ReadsInv PROVE TakeSnapshot \/ Mask \/ SaveText \/ SaveJson \/ ReadSaved => Goal
    OBVIOUS
<1>0. /\ session \in Sessions /\ IsScreen(screen) /\ (screen = NoScreen \/ IsCaptured(screen))
      /\ (saved = NoFile \/ SaysCursor(saved)) /\ (saved = NoFile \/ IsFile(saved))
    BY Zenon DEF ReadsInv, IInv
<1>1. ASSUME TakeSnapshot PROVE Goal
    <2>1. screen' \in session.screens /\ saved' = saved
        BY <1>1, Zenon DEF TakeSnapshot
    <2>2. \A x \in session.screens : IsCaptured(x)
        BY <1>0, SessionsAssumption, Zenon
    <2> QED
        BY <1>0, <2>1, <2>2, Zenon
<1>2. ASSUME Mask PROVE Goal
    <2>1. screen # NoScreen /\ saved' = saved
        BY <1>2, Zenon DEF Mask
    <2>2. PICK mask \in session.masks : screen' = Masked(screen, mask)
        BY <1>2, Zenon DEF Mask
    <2>3. mask[1] \in {"matching", "rect", "style"} /\ IsCaptured(screen)
        BY <1>0, <2>1, SessionIs, Zenon
    <2>4. IsCaptured(Masked(screen, mask))
        BY <1>0, <2>3, MaskedCaptured
    <2> QED
        BY <1>0, <2>1, <2>2, <2>4, Zenon
<1>3. ASSUME SaveText PROVE Goal
    <2>1. screen # NoScreen /\ screen' = screen /\ saved' = [kind |-> "text", document |-> WithStyles(screen)]
        BY <1>3, Zenon DEF SaveText
    <2>2. IsCaptured(screen)
        BY <1>0, <2>1
    <2>3. SaysCursor([kind |-> "text", document |-> WithStyles(screen)])
        BY <2>2, SavedSays
    <2> QED
        BY <2>1, <2>2, <2>3, Zenon
<1>4. ASSUME SaveJson PROVE Goal
    <2>1. screen # NoScreen /\ screen' = screen /\ saved' = [kind |-> "json", document |-> ToJson(screen)]
        BY <1>4, Zenon DEF SaveJson
    <2>2. IsCaptured(screen)
        BY <1>0, <2>1
    <2>3. SaysCursor([kind |-> "json", document |-> ToJson(screen)])
        BY <2>2, SavedSays
    <2> QED
        BY <2>1, <2>2, <2>3, Zenon
<1>5. ASSUME ReadSaved PROVE Goal
    <2>1. saved # NoFile /\ screen' \in ReadFile(saved) /\ saved' = saved
        BY <1>5, Zenon DEF ReadSaved
    <2>2. SaysCursor(saved) /\ IsFile(saved)
        BY <1>0, <2>1
    <2>3. CASE saved.kind = "text"
        <3> DEFINE file == saved.document
        <3>1. screen' \in Parse(file) /\ IsText(file) /\ file.cursor \in Cursors
            BY <2>1, <2>2, <2>3 DEF ReadFile, IsFile, SaysCursor
        <3> HIDE DEF file
        <3>2. IsCaptured(screen')
            BY <3>1, ParseCaptured
        <3> QED
            BY <1>0, <2>1, <3>2, Zenon
    <2>4. CASE saved.kind # "text"
        <3> DEFINE document == saved.document
        <3>1. /\ screen' \in FromJson(document) /\ IsJson(document)
              /\ document.screen = [f \in ScreenFields |-> document.screen[f]] /\ document.screen.cursor \in Cursors
            BY <2>1, <2>2, <2>4, Zenon DEF ReadFile, IsFile, SaysCursor
        <3> HIDE DEF document
        <3>2. IsCaptured(screen')
            BY <3>1, JsonCaptured
        <3> QED
            BY <1>0, <2>1, <3>2, Zenon
    <2> QED
        BY <2>3, <2>4
<1> HIDE DEF Goal
<1> QED
    BY <1>1, <1>2, <1>3, <1>4, <1>5

(* Input leaves the screen and what is saved alone. *)
LEMMA InputLeaves ==
    [Next]_vars => (TakeSnapshot \/ Mask \/ SaveText \/ SaveJson \/ ReadSaved) \/ (screen' = screen /\ saved' = saved)
<1>1. \A bytes, meaning : Written(bytes, meaning) => screen' = screen /\ saved' = saved
    BY Zenon DEF Written
<1>2. TypeKey \/ TypeText \/ PasteText \/ Click \/ ClickFound \/ DragAcross \/ Scroll \/ ChangeFocus
          => screen' = screen /\ saved' = saved
    BY <1>1, Zenon DEF TypeKey, TypeText, PasteText, Click, ClickFound, DragAcross, Scroll, ChangeFocus
<1>3. AppReads \/ AppSetsModes => screen' = screen /\ saved' = saved
    BY Zenon DEF AppReads, AppSetsModes
<1>4. vars' = vars => screen' = screen /\ saved' = saved
    BY DEF vars
<1> QED
    BY <1>2, <1>3, <1>4, Zenon DEF Next

(* Every step keeps it. *)
LEMMA StepReads == ReadsInv /\ [Next]_vars => ReadsInv'
<1> SUFFICES ASSUME ReadsInv, [Next]_vars PROVE ReadsInv'
    OBVIOUS
<1>1. IInv'
    BY StepKeeps, Zenon DEF ReadsInv
<1>2. (screen' = NoScreen \/ IsCaptured(screen')) /\ (saved' = NoFile \/ SaysCursor(saved'))
    <2>1. CASE TakeSnapshot \/ Mask \/ SaveText \/ SaveJson \/ ReadSaved
        BY <2>1, ScreenReads
    <2>2. CASE screen' = screen /\ saved' = saved
        BY <2>2, Zenon DEF ReadsInv
    <2> QED
        BY <2>1, <2>2, InputLeaves
<1> QED
    BY <1>1, <1>2, Zenon DEF ReadsInv

(* The invariant says that JSON reads back. *)
LEMMA InvReads == ReadsInv => JsonReadsBack
BY JsonIsRead, Zenon DEF ReadsInv, IInv, JsonReadsBack

(* In every session, of any screens, masks and files, the screen that the test holds is
   one that the emulator could have made: its size within the limit, its cursor on it,
   no control character in its cells, and a first half before every second one. *)
THEOREM ReadsInvariant == Spec => []ReadsInv
<1> QED
    BY InitReads, StepReads, PTL DEF Spec

(* The JSON of every screen (Serialize) reads back (Deserialize) as that screen, also
   of one that was read from an old release's file or that the masks went over. *)
THEOREM JsonIsReadBack == Spec => []JsonReadsBack
BY ReadsInvariant, InvReads, PTL
===============================================================================
