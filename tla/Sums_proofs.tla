----------------------------- MODULE Sums_proofs -----------------------------
(***************************************************************************)
(* The sums the model writes as folds: the cells of a recording, the       *)
(* replies and the bytes of a queue.  FoldLeft is a recursive function on  *)
(* the subsets of the sequence's domain, taken apart from its greatest     *)
(* element down; on the initial segments 1..k it is the sum of the first k *)
(* entries (IteratesSums), and a sum of partial sums is all the proofs     *)
(* that use it need (PartialShift).                                        *)
(*                                                                         *)
(* The inductions are over sets of counterexamples: a non-empty set of     *)
(* numbers has a least one.                                                *)
(***************************************************************************)
EXTENDS Integers, SequencesExt, SequenceTheorems, TLAPS, WellFoundedInduction

(* A non-empty set of numbers has its Min, and the Min is the least. *)
LEMMA NatMin ==
    ASSUME NEW T \in SUBSET Nat, T # {}
    PROVE  Min(T) \in T /\ \A y \in T : Min(T) =< y
<1>1. PICK x \in T : \A y \in T : ~ (<<y, x>> \in OpToRel(<, Nat))
    BY NatLessThanWellFounded, WFMin
<1>2. ASSUME NEW y \in T PROVE x =< y
    <2>1. ~ (<<y, x>> \in OpToRel(<, Nat))
        BY <1>1
    <2>2. ~ (y < x)
        BY <2>1, Zenon DEF OpToRel
    <2> QED
        BY <2>2
<1> QED
    BY <1>2 DEF Min

(* A set of numbers that holds 0 and, with every number below n, the next
   one, holds them all up to n. *)
LEMMA UpTo ==
    ASSUME NEW n \in Nat, NEW S, 0 \in S, \A k \in 1..n : k - 1 \in S => k \in S
    PROVE  \A k \in 0..n : k \in S
<1> DEFINE Bad == {k \in 0..n : k \notin S}
<1> SUFFICES ASSUME Bad # {} PROVE FALSE
    OBVIOUS
<1>1. Bad \in SUBSET Nat
    OBVIOUS
<1>2. Min(Bad) \in Bad /\ \A y \in Bad : Min(Bad) =< y
    BY <1>1, NatMin
<1> DEFINE m == Min(Bad)
<1>3. m \in 0..n /\ m \notin S
    BY <1>2
<1> HIDE DEF m
<1>4. m \in 1..n
    BY <1>3
<1>5. m - 1 \in 0..n /\ m - 1 < m
    BY <1>4
<1>6. m - 1 \in S
    BY <1>2, <1>5 DEF m
<1> QED
    BY <1>3, <1>4, <1>6

(* A non-empty set of numbers up to n has its Max, and the Max is the greatest. *)
LEMMA UpToMax ==
    ASSUME NEW n \in Nat, NEW T \in SUBSET (1..n), T # {}
    PROVE  Max(T) \in T /\ \A y \in T : Max(T) >= y
<1> DEFINE U == {b \in Nat : \A y \in T : y =< b}
<1>1. U \in SUBSET Nat /\ n \in U
    OBVIOUS
<1>2. Min(U) \in U /\ \A y \in U : Min(U) =< y
    BY <1>1, NatMin
<1> DEFINE m == Min(U)
<1>3. m \in Nat /\ \A y \in T : y =< m
    BY <1>2
<1>4. m \in T
    <2> SUFFICES ASSUME m \notin T PROVE FALSE
        OBVIOUS
    <2>1. PICK z \in T : TRUE
        OBVIOUS
    <2> HIDE DEF m
    <2>2. m - 1 \in Nat
        BY <1>3, <2>1
    <2>3. \A y \in T : y =< m - 1
        BY <1>3
    <2>4. m - 1 \in U
        BY <2>2, <2>3
    <2>5. m =< m - 1
        BY <1>2, <2>4 DEF m
    <2> QED
        BY <1>3, <2>5
<1> HIDE DEF m
<1>5. \A y \in T : m >= y
    BY <1>3
<1> QED
    BY <1>4, <1>5 DEF Max

-----------------------------------------------------------------------------
(***************************************************************************)
(* The recursive function behind a fold.                                   *)
(***************************************************************************)

(* What FoldLeft's function is asked to be, for the weights c. *)
Iterates(it, c, n) ==
    it = [s \in SUBSET (1..n) |-> IF s = {} THEN 0 ELSE it[s \ {Max(s)}] + c[Max(s)]]

(* The partial sums of the first n weights. *)
Partial(sum, c, n) ==
    /\ \A k \in 1..n : c[k] \in Nat
    /\ sum \in [0..n -> Nat]
    /\ sum[0] = 0
    /\ \A k \in 1..n : sum[k] = sum[k - 1] + c[k]

(* The function of one weight more, from that of the weights before it. *)
LEMMA IteratesNext ==
    ASSUME NEW m \in Nat \ {0}, NEW c, NEW g, Iterates(g, c, m - 1)
    PROVE  \E it : Iterates(it, c, m)
<1> DEFINE it == [s \in SUBSET (1..m) |-> IF m \in s THEN g[s \ {m}] + c[m] ELSE g[s]]
<1>1. g = [s \in SUBSET (1..(m - 1)) |-> IF s = {} THEN 0 ELSE g[s \ {Max(s)}] + c[Max(s)]]
    BY DEF Iterates
<1>2. ASSUME NEW s \in SUBSET (1..m)
      PROVE  it[s] = IF s = {} THEN 0 ELSE it[s \ {Max(s)}] + c[Max(s)]
    <2>1. CASE m \in s
        <3>1. Max(s) = m
            <4>1. Max(s) \in s /\ Max(s) >= m
                BY <2>1, UpToMax
            <4>2. Max(s) \in 1..m
                BY <4>1
            <4> QED
                BY <4>1, <4>2
        <3>2. s \ {m} \in SUBSET (1..m) /\ m \notin s \ {m}
            OBVIOUS
        <3>3. it[s \ {m}] = g[s \ {m}]
            BY <3>2
        <3> QED
            BY <2>1, <3>1, <3>3
    <2>2. CASE m \notin s
        <3>1. s \in SUBSET (1..(m - 1))
            BY <2>2
        <3>2. s \ {Max(s)} \in SUBSET (1..m) /\ m \notin s \ {Max(s)}
            BY <2>2
        <3>3. it[s \ {Max(s)}] = g[s \ {Max(s)}] /\ it[s] = g[s]
            BY <2>2, <3>2
        <3>4. g[s] = IF s = {} THEN 0 ELSE g[s \ {Max(s)}] + c[Max(s)]
            BY <1>1, <3>1
        <3> QED
            BY <3>3, <3>4
    <2> QED
        BY <2>1, <2>2
<1>3. it = [s \in SUBSET (1..m) |-> it[s]]
    OBVIOUS
<1> HIDE DEF it
<1>4. Iterates(it, c, m)
    BY <1>2, <1>3 DEF Iterates
<1> QED
    BY <1>4

(* There is such a function. *)
LEMMA IteratesExists ==
    ASSUME NEW n \in Nat, NEW c
    PROVE  \E it : Iterates(it, c, n)
<1> DEFINE S == {m \in 0..n : \E it : Iterates(it, c, m)}
<1>1. 0 \in S
    <2> DEFINE none == [s \in SUBSET (1..0) |-> 0]
    <2>1. \A s \in SUBSET (1..0) : s = {}
        OBVIOUS
    <2>2. Iterates(none, c, 0)
        BY <2>1 DEF Iterates
    <2> QED
        BY <2>2
<1>2. ASSUME NEW k \in 1..n, k - 1 \in S PROVE k \in S
    <2>1. PICK g : Iterates(g, c, k - 1)
        BY <1>2
    <2>2. k \in Nat \ {0}
        OBVIOUS
    <2>3. \E it : Iterates(it, c, k)
        BY <2>1, <2>2, IteratesNext
    <2> QED
        BY <2>3
<1>3. n \in 0..n
    OBVIOUS
<1> HIDE DEF S
<1>4. n \in S
    BY <1>1, <1>2, <1>3, UpTo
<1> QED
    BY <1>4 DEF S

(* On the initial segments it is the partial sums. *)
LEMMA IteratesSums ==
    ASSUME NEW n \in Nat, NEW c, \A k \in 1..n : c[k] \in Nat, NEW it, Iterates(it, c, n)
    PROVE  \E sum : Partial(sum, c, n) /\ sum[n] = it[1..n]
<1> DEFINE sum == [k \in 0..n |-> it[1..k]]
<1>1. it = [s \in SUBSET (1..n) |-> IF s = {} THEN 0 ELSE it[s \ {Max(s)}] + c[Max(s)]]
    BY DEF Iterates
<1>2. sum[0] = 0
    <2>1. 1..0 = {} /\ {} \in SUBSET (1..n)
        OBVIOUS
    <2> QED
        BY <1>1, <2>1
<1>3. ASSUME NEW k \in 1..n PROVE sum[k] = sum[k - 1] + c[k]
    <2>1. 1..k \in SUBSET (1..n) /\ 1..k # {} /\ k \in 1..k
        OBVIOUS
    <2>2. Max(1..k) = k
        <3>1. Max(1..k) \in 1..k /\ Max(1..k) >= k
            BY <2>1, UpToMax
        <3> QED
            BY <3>1
    <2>3. (1..k) \ {k} = 1..(k - 1)
        OBVIOUS
    <2>4. it[1..k] = it[1..(k - 1)] + c[k]
        BY <1>1, <2>1, <2>2, <2>3
    <2>5. k \in 0..n /\ k - 1 \in 0..n
        OBVIOUS
    <2> QED
        BY <2>4, <2>5
<1>4. DOMAIN sum = 0..n /\ sum = [k \in 0..n |-> sum[k]] /\ sum[n] = it[1..n]
    OBVIOUS
<1> HIDE DEF sum
<1>5. \A k \in 0..n : sum[k] \in Nat
    <2> DEFINE S == {k \in 0..n : sum[k] \in Nat}
    <2>1. 0 \in S
        BY <1>2
    <2>2. ASSUME NEW k \in 1..n, k - 1 \in S PROVE k \in S
        BY <1>3, <2>2
    <2> HIDE DEF S
    <2>3. \A k \in 0..n : k \in S
        BY <2>1, <2>2, UpTo
    <2> QED
        BY <2>3 DEF S
<1>6. Partial(sum, c, n)
    BY <1>2, <1>3, <1>4, <1>5 DEF Partial
<1> QED
    BY <1>4, <1>6

(* d is c from its i-th weight on, for m weights. *)
Continues(d, c, i, m) == \A k \in 1..m : d[k] = c[i + k]

(* Partial sums that start i weights later lag by the first i weights. *)
LEMMA PartialShift ==
    ASSUME NEW n \in Nat, NEW m \in Nat, NEW c, NEW d, NEW sum, NEW rest,
           Partial(sum, c, n), Partial(rest, d, m),
           NEW i \in 0..n, i + m <= n, Continues(d, c, i, m)
    PROVE  \A j \in 0..m : sum[i + j] = sum[i] + rest[j]
<1> DEFINE S == {j \in 0..m : sum[i + j] = sum[i] + rest[j]}
<1>1. 0 \in S
    <2>1. sum[i] \in Nat /\ rest[0] = 0
        BY DEF Partial
    <2> QED
        BY <2>1
<1>2. ASSUME NEW j \in 1..m, j - 1 \in S PROVE j \in S
    <2>1. i + j \in 1..n /\ (i + j) - 1 = i + (j - 1)
        OBVIOUS
    <2>2. sum[i + j] = sum[(i + j) - 1] + c[i + j]
        BY <2>1 DEF Partial
    <2>3. rest[j] = rest[j - 1] + c[i + j]
        BY DEF Partial, Continues
    <2>4. sum[i + (j - 1)] = sum[i] + rest[j - 1]
        BY <1>2
    <2>5. sum[i] \in Nat /\ rest[j - 1] \in Nat /\ rest[j] \in Nat /\ sum[i + j] \in Nat
        <3>1. j - 1 \in 0..m /\ j \in 0..m /\ i + j \in 0..n
            OBVIOUS
        <3> QED
            BY <3>1 DEF Partial
    <2>6. c[i + j] \in Nat
        BY <2>1 DEF Partial
    <2> QED
        BY <2>1, <2>2, <2>3, <2>4, <2>5, <2>6
<1> HIDE DEF S
<1>3. \A j \in 0..m : j \in S
    BY <1>1, <1>2, UpTo
<1> QED
    BY <1>3 DEF S

(* The sum over a sequence in two parts. *)
LEMMA PartialConcat ==
    ASSUME NEW i \in Nat, NEW m \in Nat, NEW n \in Nat, n = i + m,
           NEW c, NEW d, NEW e, NEW sum, NEW left, NEW right,
           Partial(sum, c, n), Partial(left, d, i), Partial(right, e, m),
           Continues(d, c, 0, i), Continues(e, c, i, m)
    PROVE  sum[n] = left[i] + right[m]
<1>1. 0 \in 0..n /\ i \in 0..n /\ 0 + i <= n /\ i + m <= n
    OBVIOUS
<1>2. \A j \in 0..i : sum[0 + j] = sum[0] + left[j]
    BY <1>1, PartialShift
<1>3. \A j \in 0..m : sum[i + j] = sum[i] + right[j]
    BY <1>1, PartialShift
<1>4. sum[0] = 0 /\ left[i] \in Nat
    BY DEF Partial
<1>5. sum[i] = left[i]
    <2>1. i \in 0..i /\ 0 + i = i
        OBVIOUS
    <2> QED
        BY <1>2, <1>4, <2>1
<1>6. m \in 0..m
    OBVIOUS
<1> QED
    BY <1>3, <1>5, <1>6
-----------------------------------------------------------------------------
(* The first n weights of c come to total. *)
Adds(c, n, total) == \E sum : Partial(sum, c, n) /\ sum[n] = total

(* The recursive function of a fold gives what the weights come to. *)
LEMMA IteratesAdds ==
    ASSUME NEW n \in Nat, NEW c, \A k \in 1..n : c[k] \in Nat, NEW it, Iterates(it, c, n)
    PROVE  Adds(c, n, it[1..n])
BY IteratesSums DEF Adds

(* It is a number, and no weights come to 0. *)
LEMMA AddsNumber ==
    ASSUME NEW n \in Nat, NEW c, NEW total, Adds(c, n, total)
    PROVE  total \in Nat /\ (n = 0 => total = 0)
<1>1. PICK sum : Partial(sum, c, n) /\ sum[n] = total
    BY DEF Adds
<1>2. n \in 0..n
    OBVIOUS
<1> QED
    BY <1>1, <1>2 DEF Partial

(* The first weight and the rest of them. *)
LEMMA AddsFirst ==
    ASSUME NEW m \in Nat, NEW n \in Nat, n = m + 1, NEW c, NEW d, NEW total, NEW rest,
           Adds(c, n, total), Adds(d, m, rest), Continues(d, c, 1, m)
    PROVE  total = c[1] + rest
<1>1. PICK sum : Partial(sum, c, n) /\ sum[n] = total
    BY DEF Adds
<1>2. PICK part : Partial(part, d, m) /\ part[m] = rest
    BY DEF Adds
<1>3. 1 \in 0..n /\ 1 + m <= n /\ m \in 0..m /\ 1 + m = n /\ 1 \in 1..n
    OBVIOUS
<1>4. \A j \in 0..m : sum[1 + j] = sum[1] + part[j]
    BY <1>1, <1>2, <1>3, PartialShift
<1>5. sum[n] = sum[1] + part[m]
    BY <1>3, <1>4
<1>6. sum[1] = sum[1 - 1] + c[1] /\ sum[0] = 0 /\ c[1] \in Nat
    BY <1>1, <1>3 DEF Partial
<1> QED
    BY <1>1, <1>2, <1>5, <1>6

(* The last weight and those before it. *)
LEMMA AddsLast ==
    ASSUME NEW m \in Nat, NEW n \in Nat, n = m + 1, NEW c, NEW d, NEW total, NEW before,
           Adds(c, n, total), Adds(d, m, before), Continues(d, c, 0, m)
    PROVE  total = before + c[n]
<1>1. PICK sum : Partial(sum, c, n) /\ sum[n] = total
    BY DEF Adds
<1>2. PICK part : Partial(part, d, m) /\ part[m] = before
    BY DEF Adds
<1>3. 0 \in 0..n /\ 0 + m <= n /\ m \in 0..m /\ 0 + m = m /\ n \in 1..n /\ n - 1 = m
    OBVIOUS
<1>4. \A j \in 0..m : sum[0 + j] = sum[0] + part[j]
    BY <1>1, <1>2, <1>3, PartialShift
<1>5. sum[m] = sum[0] + part[m]
    BY <1>3, <1>4
<1>6. sum[n] = sum[m] + c[n] /\ sum[0] = 0 /\ part[m] \in Nat
    BY <1>1, <1>2, <1>3 DEF Partial
<1> QED
    BY <1>1, <1>2, <1>5, <1>6

-----------------------------------------------------------------------------
(* A sequence cut after its k-th entry is its two parts put together. *)
LEMMA CutAndRejoin ==
    ASSUME NEW S, NEW q \in Seq(S), NEW k \in 0..Len(q)
    PROVE  /\ SubSeq(q, 1, k) \in Seq(S) /\ Len(SubSeq(q, 1, k)) = k
           /\ SubSeq(q, k + 1, Len(q)) \in Seq(S)
           /\ Len(SubSeq(q, k + 1, Len(q))) = Len(q) - k
           /\ SubSeq(q, 1, k) \o SubSeq(q, k + 1, Len(q)) = q
<1> DEFINE n == Len(q)
           p == SubSeq(q, 1, k)
           r == SubSeq(q, k + 1, n)
<1>1. n \in Nat /\ k \in Nat /\ k <= n
    OBVIOUS
<1>2. p \in Seq(S) /\ Len(p) = k /\ r \in Seq(S) /\ Len(r) = n - k
    BY <1>1
<1>3. /\ \A j \in 1..k : p[j] = q[j]
      /\ \A i \in 1..(n - k) : r[i] = q[(k + 1) + i - 1]
    BY <1>1
<1> HIDE DEF p, r, n
<1>4. p \o r \in Seq(S) /\ Len(p \o r) = n
    BY <1>1, <1>2
<1>5. ASSUME NEW j \in 1..n PROVE (p \o r)[j] = q[j]
    <2>1. CASE j <= k
        <3>1. j \in 1..k /\ (p \o r)[j] = p[j]
            BY <1>1, <1>2, <2>1
        <3> QED
            BY <1>3, <3>1
    <2>2. CASE j > k
        <3>1. (p \o r)[j] = r[j - k]
            BY <1>1, <1>2, <2>2
        <3>2. j - k \in 1..(n - k) /\ (k + 1) + (j - k) - 1 = j
            BY <1>1, <2>2
        <3>3. r[j - k] = q[j]
            BY <1>3, <3>2
        <3> QED
            BY <3>1, <3>3
    <2>3. j <= k \/ j > k
        BY <1>1
    <2> QED
        BY <2>1, <2>2, <2>3
<1>6. p \o r = q
    BY <1>4, <1>5, SeqEqual DEF n
<1> QED
    BY <1>2, <1>6 DEF p, r, n
=============================================================================
