-------------------------- MODULE SelectionProofs --------------------------
EXTENDS Selection, SequencesExt, FiniteSetTheorems, FunctionTheorems, SequenceTheorems, TLAPS

\* Induction, for a set of numbers: were m missing, n |-> n + 1 would map
\* what is below m into itself, injectively but without 0 in its image.
LEMMA SetInduction ==
  ASSUME NEW S, 0 \in S, \A n \in Nat : n \in S => n + 1 \in S
  PROVE  \A n \in Nat : n \in S
<1> SUFFICES ASSUME NEW m \in Nat, m \notin S PROVE FALSE
  OBVIOUS
<1> DEFINE T == {n \in 0..m : n \in S}
           f == [n \in T |-> n + 1]
<1>1. IsFiniteSet(T)
  <2>1. IsFiniteSet(0..m)
    BY FS_Interval
  <2> QED
    BY <2>1, FS_Subset
<1>2. \A n \in T : n + 1 \in T
  <2> SUFFICES ASSUME NEW n \in T PROVE n + 1 \in T
    OBVIOUS
  <2>1. n \in Nat /\ n <= m /\ n \in S /\ n # m
    OBVIOUS
  <2> QED
    BY <2>1
<1>3. 0 \in T /\ \A n \in T : n \in Nat
  OBVIOUS
<1> HIDE DEF T
<1>4. f \in Injection(T, T)
  <2>1. f \in [T -> T]
    BY <1>2
  <2>2. \A a, b \in T : f[a] = f[b] => a = b
    BY <1>3
  <2> QED
    BY <2>1, <2>2, Fun_IsInj
<1>5. f \in Surjection(T, T)
  BY <1>1, <1>4, FS_Injection
<1>6. PICK n \in T : f[n] = 0
  BY <1>3, <1>5, Fun_SurjectionProperties
<1> QED
  BY <1>3, <1>6

\* Bounded by n.
LEMMA UpTo ==
  ASSUME NEW N \in Nat, NEW S, 0 \in S,
         \A n \in 0..N : n < N /\ n \in S => n + 1 \in S
  PROVE  \A n \in 0..N : n \in S
<1> DEFINE T == S \cup {n \in Nat : n > N}
<1>1. 0 \in T
  OBVIOUS
<1>2. \A n \in Nat : n \in T => n + 1 \in T
  <2> SUFFICES ASSUME NEW n \in Nat, n \in T PROVE n + 1 \in T
    OBVIOUS
  <2>1. CASE n >= N
    BY <2>1
  <2>2. CASE n < N
    BY <2>2
  <2> QED
    BY <2>1, <2>2
<1> HIDE DEF T
<1>3. \A n \in Nat : n \in T
  BY <1>1, <1>2, SetInduction
<1> QED
  BY <1>3 DEF T

\* What a function defined by recursion along 0..N computes: step[n] is what
\* its nth step makes of the value before.
LEMMA RecursionExists ==
  ASSUME NEW N \in Nat, NEW V, NEW base \in V, NEW step \in [1..N -> [V -> V]]
  PROVE  \E f \in [0..N -> V] :
            f[0] = base /\ \A n \in 1..N : f[n] = step[n][f[n - 1]]
<1> DEFINE Computes(f, m) == f[0] = base /\ \A n \in 1..m : f[n] = step[n][f[n - 1]]
           S == {m \in 0..N : \E f \in [0..m -> V] : Computes(f, m)}
<1>1. 0 \in S
  <2>1. [n \in 0..0 |-> base] \in [0..0 -> V] /\ Computes([n \in 0..0 |-> base], 0)
    OBVIOUS
  <2>2. 0 \in 0..N
    OBVIOUS
  <2> HIDE DEF Computes
  <2>3. \E f \in [0..0 -> V] : Computes(f, 0)
    BY <2>1
  <2> QED
    BY <2>2, <2>3
<1>2. ASSUME NEW m \in 0..N, m < N, m \in S PROVE m + 1 \in S
  <2>1. PICK f \in [0..m -> V] : Computes(f, m)
    BY <1>2
  <2> DEFINE g == [n \in 0..(m + 1) |-> IF n <= m THEN f[n] ELSE step[m + 1][f[m]]]
  <2>2. f[m] \in V /\ m + 1 \in 1..N
    BY <1>2
  <2>3. step[m + 1][f[m]] \in V
    BY <2>2
  <2>4. g \in [0..(m + 1) -> V]
    BY <2>3
  <2>5. g[0] = base
    BY <2>1
  <2>6. ASSUME NEW n \in 1..(m + 1) PROVE g[n] = step[n][g[n - 1]]
    <3>1. CASE n <= m
      BY <2>1, <3>1
    <3>2. CASE n = m + 1
      BY <3>2
    <3> QED
      BY <3>1, <3>2
  <2>7. m + 1 \in 0..N
    BY <2>2
  <2> HIDE DEF g
  <2> QED
    BY <2>4, <2>5, <2>6, <2>7
<1> HIDE DEF S
<1>3. \A m \in 0..N : m \in S
  BY <1>1, <1>2, UpTo
<1>4. N \in S
  BY <1>3
<1> QED
  BY <1>4 DEF S

Recurses(N, V, base, step) ==
    \E f \in [0..N -> V] : f[0] = base /\ \A n \in 1..N : f[n] = step[n][f[n - 1]]

\* The same for all bounds, sets of values and steps.
LEMMA RecursionFor ==
  \A N \in Nat : \A V : \A base \in V : \A step \in [1..N -> [V -> V]] :
      Recurses(N, V, base, step)
  BY RecursionExists DEF Recurses

\* The function inside Only.
Recursion(s, T) ==
    CHOOSE only : only = [n \in 0 .. Len(s) |->
        IF n = 0 THEN <<>>
        ELSE IF s[n] \in T THEN Append(only[n - 1], s[n]) ELSE only[n - 1]]

\* Only is the last value of the function inside it.
LEMMA OnlyIs == \A s, T : Only(s, T) = Recursion(s, T)[Len(s)]
  BY DEF Only, Recursion

\* What it is: the selections of the prefixes of s.
Selects(r, s, T, X) ==
    /\ r \in [0..Len(s) -> Seq(X \cap T)]
    /\ r[0] = <<>>
    /\ \A n \in 1..Len(s) :
          r[n] = IF s[n] \in T THEN Append(r[n - 1], s[n]) ELSE r[n - 1]

\* The function inside Only exists, and is the one its equation describes.
LEMMA RecursionIs ==
  ASSUME NEW X, NEW T, NEW s \in Seq(X)
  PROVE  Selects(Recursion(s, T), s, T, X)
<1> DEFINE N == Len(s)
           V == Seq(X \cap T)
           step == [n \in 1..N |-> [v \in V |-> IF s[n] \in T THEN Append(v, s[n]) ELSE v]]
           Body(only) == [n \in 0 .. N |->
                            IF n = 0 THEN <<>>
                            ELSE IF s[n] \in T THEN Append(only[n - 1], s[n]) ELSE only[n - 1]]
<1>1. N \in Nat /\ <<>> \in V /\ \A n \in 1..N : s[n] \in X
  OBVIOUS
<1>2. step \in [1..N -> [V -> V]]
  <2>1. \A n \in 1..N : \A v \in V : (IF s[n] \in T THEN Append(v, s[n]) ELSE v) \in V
    <3> SUFFICES ASSUME NEW n \in 1..N, NEW v \in V
                 PROVE  (IF s[n] \in T THEN Append(v, s[n]) ELSE v) \in V
      OBVIOUS
    <3>1. CASE s[n] \in T
      <4>1. s[n] \in X \cap T
        BY <1>1, <3>1
      <4>2. Append(v, s[n]) \in V
        BY <4>1, AppendProperties
      <4> QED
        BY <3>1, <4>2
    <3> QED
      BY <3>1
  <2> HIDE DEF V
  <2> QED
    BY <2>1
<1> HIDE DEF N, V
<1>3. PICK f \in [0..N -> V] :
          f[0] = <<>> /\ \A n \in 1..N : f[n] = step[n][f[n - 1]]
  <2> HIDE DEF step, Body
  <2> QED
    BY <1>1, <1>2, RecursionExists
<1>4. \A n \in 1..N : f[n] = IF s[n] \in T THEN Append(f[n - 1], s[n]) ELSE f[n - 1]
  <2> SUFFICES ASSUME NEW n \in 1..N
               PROVE  f[n] = IF s[n] \in T THEN Append(f[n - 1], s[n]) ELSE f[n - 1]
    OBVIOUS
  <2>1. f[n - 1] \in V
    BY <1>1, <1>3
  <2>2. step[n][f[n - 1]] = IF s[n] \in T THEN Append(f[n - 1], s[n]) ELSE f[n - 1]
    BY <2>1
  <2> QED
    BY <1>3, <2>2
<1>5. f = Body(f)
  <2>1. ASSUME NEW n \in 0..N PROVE f[n] = Body(f)[n]
    <3>1. CASE n = 0
      BY <1>3, <3>1
    <3>2. CASE n # 0
      <4>1. n \in 1..N
        BY <1>1, <3>2
      <4>2. Body(f)[n] = IF s[n] \in T THEN Append(f[n - 1], s[n]) ELSE f[n - 1]
        BY <3>2
      <4> QED
        BY <1>4, <4>1, <4>2
    <3> QED
      BY <3>1, <3>2
  <2> QED
    BY <1>3, <2>1
<1>6. Recursion(s, T) = Body(Recursion(s, T))
  BY <1>5 DEF Recursion, N
<1> DEFINE r == Recursion(s, T)
<1>7. /\ r = [n \in 0..N |-> r[n]] /\ r[0] = <<>>
      /\ \A n \in 1..N : r[n] = IF s[n] \in T THEN Append(r[n - 1], s[n]) ELSE r[n - 1]
  <2>1. r = Body(r)
    BY <1>6
  <2> HIDE DEF r
  <2>2. r = [n \in 0..N |-> r[n]] /\ \A n \in 0..N : r[n] = Body(r)[n]
    BY <2>1
  <2>3. ASSUME NEW n \in 1..N
        PROVE  r[n] = IF s[n] \in T THEN Append(r[n - 1], s[n]) ELSE r[n - 1]
    <3>1. n \in 0..N /\ n # 0
      BY <1>1
    <3>2. Body(r)[n] = IF s[n] \in T THEN Append(r[n - 1], s[n]) ELSE r[n - 1]
      BY <3>1
    <3> QED
      BY <2>2, <3>1, <3>2
  <2>4. r[0] = <<>>
    <3>1. 0 \in 0..N
      BY <1>1
    <3> QED
      BY <2>2, <3>1
  <2> HIDE DEF Body
  <2> QED
    BY <2>2, <2>3, <2>4
<1> HIDE DEF r
<1>8. \A n \in 0..N : r[n] \in V
  <2> DEFINE S == {n \in 0..N : r[n] \in V}
  <2>1. 0 \in S
    BY <1>1, <1>7
  <2>2. ASSUME NEW n \in 0..N, n < N, n \in S PROVE n + 1 \in S
    <3>1. n + 1 \in 1..N /\ (n + 1) - 1 = n /\ r[n] \in V
      BY <1>1, <2>2
    <3>2. step[n + 1][r[n]] \in V
      BY <1>2, <3>1
    <3>3. step[n + 1][r[n]] = r[n + 1]
      BY <1>7, <3>1
    <3> QED
      BY <1>1, <3>1, <3>2, <3>3
  <2> HIDE DEF S
  <2>3. \A n \in 0..N : n \in S
    BY <1>1, <2>1, <2>2, UpTo
  <2> QED
    BY <2>3 DEF S
<1> QED
  BY <1>7, <1>8 DEF r, N, V, Selects

-----------------------------------------------------------------------------
(* What Only gives.                                                        *)

\* A selection is a sequence of what was selected from.
LEMMA OnlyType ==
  ASSUME NEW X, NEW T, NEW s \in Seq(X)
  PROVE  Only(s, T) \in Seq(X \cap T)
<1>1. Len(s) \in 0..Len(s)
  OBVIOUS
<1>2. Selects(Recursion(s, T), s, T, X)
  BY RecursionIs
<1> QED
  BY <1>1, <1>2, OnlyIs DEF Selects

\* Nothing is selected from nothing.
LEMMA OnlyEmpty == \A T : Only(<<>>, T) = <<>>
<1> SUFFICES ASSUME NEW T PROVE Only(<<>>, T) = <<>>
  OBVIOUS
<1>1. <<>> \in Seq({}) /\ Len(<<>>) = 0
  OBVIOUS
<1>2. Selects(Recursion(<<>>, T), <<>>, T, {})
  BY <1>1, RecursionIs
<1> QED
  BY <1>1, <1>2, OnlyIs DEF Selects

\* The recursions of a sequence and of a longer one agree as far as both go.
LEMMA RecursionAgrees ==
  ASSUME NEW X, NEW T, NEW s \in Seq(X), NEW t \in Seq(X), Len(s) <= Len(t),
         \A n \in 1..Len(s) : t[n] = s[n]
  PROVE  \A n \in 0..Len(s) : Recursion(t, T)[n] = Recursion(s, T)[n]
<1> DEFINE N == Len(s)
<1>0. N \in Nat /\ Len(t) \in Nat /\ \A n \in 1..N : n \in 1..Len(t)
  OBVIOUS
<1> DEFINE r == Recursion(s, T)
           q == Recursion(t, T)
<1>3. Selects(r, s, T, X) /\ Selects(q, t, T, X)
  BY RecursionIs
<1> HIDE DEF r, q
<1> DEFINE S == {n \in 0..N : q[n] = r[n]}
<1>1. 0 \in S
  BY <1>0, <1>3 DEF Selects
<1>2. ASSUME NEW n \in 0..N, n < N, n \in S PROVE n + 1 \in S
  <2>1. n + 1 \in 1..N /\ (n + 1) - 1 = n /\ n + 1 \in 0..N
    BY <1>0, <1>2
  <2>2. r[n + 1] = IF s[n + 1] \in T THEN Append(r[n], s[n + 1]) ELSE r[n]
    BY <1>3, <2>1 DEF Selects
  <2>3. n + 1 \in 1..Len(t)
    BY <1>0, <2>1
  <2>4. q[n + 1] = IF t[n + 1] \in T THEN Append(q[n], t[n + 1]) ELSE q[n]
    BY <1>3, <2>1, <2>3 DEF Selects
  <2> QED
    BY <1>2, <2>1, <2>2, <2>4
<1> HIDE DEF S
<1>4. \A n \in 0..N : n \in S
  BY <1>0, <1>1, <1>2, UpTo
<1> QED
  BY <1>4 DEF S, r, q

\* One more element is selected or left out.
LEMMA OnlyAppend ==
  ASSUME NEW X, NEW T, NEW s \in Seq(X), NEW x \in X
  PROVE  Only(Append(s, x), T) = IF x \in T THEN Append(Only(s, T), x) ELSE Only(s, T)
<1> DEFINE t == Append(s, x)
           N == Len(s)
<1>1. /\ t \in Seq(X) /\ Len(t) = N + 1 /\ t[N + 1] = x /\ N \in Nat
      /\ \A n \in 1..N : t[n] = s[n]
  BY AppendProperties
<1> HIDE DEF t, N
<1>2. N + 1 \in 1..Len(t) /\ (N + 1) - 1 = N /\ N \in 0..N
  BY <1>1
<1>3. Recursion(t, T)[N + 1] = IF x \in T THEN Append(Recursion(t, T)[N], x)
                               ELSE Recursion(t, T)[N]
  <2>1. Selects(Recursion(t, T), t, T, X)
    BY <1>1, RecursionIs
  <2> QED
    BY <1>1, <1>2, <2>1 DEF Selects
<1>4. Recursion(t, T)[N] = Recursion(s, T)[N]
  <2>1. N <= Len(t) /\ Len(s) = N
    BY <1>1 DEF N
  <2> QED
    BY <1>1, <1>2, <2>1, RecursionAgrees
<1>5. Only(t, T) = Recursion(t, T)[N + 1] /\ Only(s, T) = Recursion(s, T)[N]
  BY <1>1, OnlyIs DEF N
<1> QED
  BY <1>3, <1>4, <1>5 DEF t

\* Induction for what is claimed of every prefix of s.
LEMMA PrefixStep ==
  ASSUME NEW X, NEW s \in Seq(X), NEW n \in 0..Len(s), n < Len(s)
  PROVE  /\ SubSeq(s, 1, n) \in Seq(X) /\ Len(SubSeq(s, 1, n)) = n
         /\ s[n + 1] \in X
         /\ SubSeq(s, 1, n + 1) = Append(SubSeq(s, 1, n), s[n + 1])
<1>1. n + 1 \in 1..Len(s) /\ n \in 0..Len(s)
  OBVIOUS
<1>2. SubSeq(s, 1, n) \in Seq(X) /\ Len(SubSeq(s, 1, n)) = n
      /\ \A i \in 1..n : SubSeq(s, 1, n)[i] = s[i]
  BY <1>1
<1>3. SubSeq(s, 1, n + 1) \in Seq(X) /\ Len(SubSeq(s, 1, n + 1)) = n + 1
      /\ \A i \in 1..(n + 1) : SubSeq(s, 1, n + 1)[i] = s[i]
  BY <1>1
<1>4. s[n + 1] \in X
  BY <1>1
<1> DEFINE p == SubSeq(s, 1, n)
           q == SubSeq(s, 1, n + 1)
           a == Append(p, s[n + 1])
<1>5. /\ a \in Seq(X) /\ Len(a) = n + 1 /\ a[n + 1] = s[n + 1]
      /\ \A i \in 1..n : a[i] = s[i]
  BY <1>1, <1>2, <1>4, AppendProperties
<1>6. q = a
  <2>1. \A i \in 1..(n + 1) : q[i] = a[i]
    BY <1>1, <1>3, <1>5
  <2> HIDE DEF q, a
  <2> QED
    BY <1>3, <1>5, <2>1, SeqEqual DEF q
<1> QED
  BY <1>2, <1>4, <1>6

\* Induction over sequences, for a set of them.
LEMMA SequenceInduction ==
  ASSUME NEW X, NEW S, <<>> \in S,
         \A s \in Seq(X), x \in X : s \in S => Append(s, x) \in S
  PROVE  \A s \in Seq(X) : s \in S
<1> SUFFICES ASSUME NEW s \in Seq(X) PROVE s \in S
  OBVIOUS
<1> DEFINE T == {n \in 0..Len(s) : SubSeq(s, 1, n) \in S}
<1>1. 0 \in T
  <2>1. SubSeq(s, 1, 0) = <<>>
    OBVIOUS
  <2>2. SubSeq(s, 1, 0) \in S
    BY <2>1, Zenon
  <2>3. 0 \in 0..Len(s)
    OBVIOUS
  <2> QED
    BY <2>2, <2>3
<1>2. ASSUME NEW n \in 0..Len(s), n < Len(s), n \in T PROVE n + 1 \in T
  <2>1. /\ SubSeq(s, 1, n) \in Seq(X) /\ s[n + 1] \in X
        /\ SubSeq(s, 1, n + 1) = Append(SubSeq(s, 1, n), s[n + 1])
    BY <1>2, PrefixStep
  <2>2. SubSeq(s, 1, n + 1) \in S
    BY <1>2, <2>1
  <2> QED
    BY <1>2, <2>2
<1> HIDE DEF T
<1>3. \A n \in 0..Len(s) : n \in T
  BY <1>1, <1>2, UpTo
<1>4. SubSeq(s, 1, Len(s)) \in S
  BY <1>3 DEF T
<1>5. SubSeq(s, 1, Len(s)) = s
  <2> DEFINE q == SubSeq(s, 1, Len(s))
  <2>0. Len(s) \in 0..Len(s) /\ \A i \in 1..Len(s) : s[i] \in X
    OBVIOUS
  <2>1. q \in Seq(X) /\ Len(q) = Len(s) /\ \A i \in 1..Len(q) : q[i] = s[i]
    BY <2>0
  <2> HIDE DEF q
  <2>2. q = s
    BY <2>1, SeqEqual
  <2> QED
    BY <2>2 DEF q
<1> QED
  BY <1>4, <1>5

-----------------------------------------------------------------------------
(* What a selection contains.                                              *)

\* One more element is one more member.
LEMMA ToSetAppend ==
  ASSUME NEW X, NEW s \in Seq(X), NEW x \in X
  PROVE  /\ Append(s, x) \in Seq(X) /\ ToSet(Append(s, x)) = ToSet(s) \cup {x}
<1> DEFINE t == Append(s, x)
           N == Len(s)
<1>1. /\ t \in Seq(X) /\ Len(t) = N + 1 /\ t[N + 1] = x /\ N \in Nat
      /\ DOMAIN s = 1..N /\ DOMAIN t = 1..(N + 1)
      /\ \A n \in 1..N : t[n] = s[n]
  BY AppendProperties
<1> HIDE DEF t, N
<1>2. ToSet(t) = ToSet(s) \cup {x}
  BY <1>1 DEF ToSet
<1> QED
  BY <1>1, <1>2 DEF t

\* A selection has the elements it selects.
LEMMA OnlyElements ==
  ASSUME NEW X, NEW T, NEW s \in Seq(X)
  PROVE  ToSet(Only(s, T)) = ToSet(s) \cap T
<1> DEFINE S == {q \in Seq(X) : ToSet(Only(q, T)) = ToSet(q) \cap T}
<1>1. <<>> \in S
  <2>1. ToSet(<<>>) = {}
    BY DEF ToSet
  <2> QED
    BY <2>1, OnlyEmpty
<1>2. ASSUME NEW q \in Seq(X), NEW x \in X, q \in S PROVE Append(q, x) \in S
  <2>1. Only(Append(q, x), T) = IF x \in T THEN Append(Only(q, T), x) ELSE Only(q, T)
    BY OnlyAppend
  <2>2. Only(q, T) \in Seq(X \cap T)
    BY OnlyType
  <2>3. Append(q, x) \in Seq(X) /\ ToSet(Append(q, x)) = ToSet(q) \cup {x}
    BY ToSetAppend
  <2>4. CASE x \in T
    <3>1. x \in X \cap T
      BY <2>4
    <3>2. ToSet(Append(Only(q, T), x)) = ToSet(Only(q, T)) \cup {x}
      BY <2>2, <3>1, ToSetAppend
    <3> QED
      BY <1>2, <2>1, <2>3, <2>4, <3>2
  <2>5. CASE x \notin T
    BY <1>2, <2>1, <2>3, <2>5
  <2> QED
    BY <2>4, <2>5
<1> HIDE DEF S
<1>3. \A q \in Seq(X) : q \in S
  BY <1>1, <1>2, SequenceInduction
<1> QED
  BY <1>3 DEF S

\* A longer injective sequence.
LEMMA InjectiveAppend ==
  ASSUME NEW X, NEW s \in Seq(X), NEW x \in X
  PROVE  IsInjective(Append(s, x)) <=> IsInjective(s) /\ x \notin ToSet(s)
<1> DEFINE t == Append(s, x)
           N == Len(s)
<1>1. /\ t \in Seq(X) /\ Len(t) = N + 1 /\ t[N + 1] = x /\ N \in Nat
      /\ DOMAIN s = 1..N /\ DOMAIN t = 1..(N + 1)
      /\ \A n \in 1..N : t[n] = s[n]
  BY AppendProperties
<1> HIDE DEF t, N
<1>2. IsInjective(t) <=> IsInjective(s) /\ x \notin ToSet(s)
  BY <1>1 DEF IsInjective, ToSet
<1> QED
  BY <1>2 DEF t

\* A selection repeats nothing that was not repeated.
LEMMA OnlyInjective ==
  ASSUME NEW X, NEW T, NEW s \in Seq(X), IsInjective(s)
  PROVE  IsInjective(Only(s, T))
<1> DEFINE S == {q \in Seq(X) : IsInjective(q) => IsInjective(Only(q, T))}
<1>1. <<>> \in S
  <2>1. IsInjective(<<>>)
    BY DEF IsInjective
  <2> QED
    BY <2>1, OnlyEmpty
<1>2. ASSUME NEW q \in Seq(X), NEW x \in X, q \in S PROVE Append(q, x) \in S
  <2>1. Only(Append(q, x), T) = IF x \in T THEN Append(Only(q, T), x) ELSE Only(q, T)
    BY OnlyAppend
  <2>2. Only(q, T) \in Seq(X \cap T) /\ ToSet(Only(q, T)) = ToSet(q) \cap T
    BY OnlyType, OnlyElements
  <2>3. Append(q, x) \in Seq(X) /\ (IsInjective(Append(q, x)) <=> IsInjective(q) /\ x \notin ToSet(q))
    BY ToSetAppend, InjectiveAppend
  <2>4. CASE x \in T
    <3>1. x \in X \cap T
      BY <2>4
    <3>2. IsInjective(Append(Only(q, T), x))
              <=> IsInjective(Only(q, T)) /\ x \notin ToSet(Only(q, T))
      BY <2>2, <3>1, InjectiveAppend
    <3> QED
      BY <1>2, <2>1, <2>2, <2>3, <2>4, <3>2
  <2>5. CASE x \notin T
    BY <1>2, <2>1, <2>3, <2>5
  <2> QED
    BY <2>4, <2>5
<1> HIDE DEF S
<1>3. \A q \in Seq(X) : q \in S
  BY <1>1, <1>2, SequenceInduction
<1> QED
  BY <1>3 DEF S

\* Selecting twice.
LEMMA OnlyTwice ==
  ASSUME NEW X, NEW T, NEW U, NEW s \in Seq(X)
  PROVE  Only(Only(s, T), U) = Only(s, T \cap U)
<1> DEFINE S == {q \in Seq(X) : Only(Only(q, T), U) = Only(q, T \cap U)}
<1>1. <<>> \in S
  BY OnlyEmpty
<1>2. ASSUME NEW q \in Seq(X), NEW x \in X, q \in S PROVE Append(q, x) \in S
  <2>0. Append(q, x) \in Seq(X)
    BY ToSetAppend
  <2>1. Only(Append(q, x), T) = IF x \in T THEN Append(Only(q, T), x) ELSE Only(q, T)
    BY OnlyAppend
  <2>2. Only(q, T) \in Seq(X \cap T)
    BY OnlyType
  <2>3. Only(Append(q, x), T \cap U)
            = IF x \in T \cap U THEN Append(Only(q, T \cap U), x) ELSE Only(q, T \cap U)
    BY OnlyAppend
  <2>4. CASE x \in T
    <3>1. x \in X \cap T
      BY <2>4
    <3>2. Only(Append(Only(q, T), x), U)
              = IF x \in U THEN Append(Only(Only(q, T), U), x) ELSE Only(Only(q, T), U)
      BY <2>2, <3>1, OnlyAppend
    <3>3. Only(Only(q, T), U) = Only(q, T \cap U)
      BY <1>2
    <3>4. x \in U <=> x \in T \cap U
      BY <2>4
    <3>5. Only(Only(Append(q, x), T), U) = Only(Append(q, x), T \cap U)
      <4>1. CASE x \in U
        BY <2>1, <2>3, <2>4, <3>2, <3>3, <3>4, <4>1
      <4>2. CASE x \notin U
        BY <2>1, <2>3, <2>4, <3>2, <3>3, <3>4, <4>2
      <4> QED
        BY <4>1, <4>2
    <3> QED
      BY <2>0, <3>5
  <2>5. CASE x \notin T
    <3>1. x \notin T \cap U
      BY <2>5
    <3>2. Only(Only(Append(q, x), T), U) = Only(Append(q, x), T \cap U)
      BY <1>2, <2>1, <2>3, <2>5, <3>1
    <3> QED
      BY <2>0, <3>2
  <2> QED
    BY <2>4, <2>5
<1> HIDE DEF S
<1>3. \A q \in Seq(X) : q \in S
  BY <1>1, <1>2, SequenceInduction
<1> QED
  BY <1>3 DEF S

\* Appending to the second of two sequences.
LEMMA ConcatAppends ==
  ASSUME NEW X, NEW s \in Seq(X), NEW t \in Seq(X), NEW x \in X
  PROVE  s \o Append(t, x) = Append(s \o t, x)
<1>1. Append(t, x) = t \o <<x>> /\ <<x>> \in Seq(X) /\ s \o t \in Seq(X)
  BY AppendIsConcat, ConcatProperties
<1>2. Append(s \o t, x) = (s \o t) \o <<x>>
  BY <1>1, AppendIsConcat
<1> QED
  BY <1>1, <1>2, ConcatAssociative

\* A selection from a concatenation.
LEMMA OnlyConcat ==
  ASSUME NEW X, NEW T, NEW s \in Seq(X), NEW t \in Seq(X)
  PROVE  Only(s \o t, T) = Only(s, T) \o Only(t, T)
<1> DEFINE S == {q \in Seq(X) : Only(s \o q, T) = Only(s, T) \o Only(q, T)}
<1>0. Only(s, T) \in Seq(X \cap T)
  BY OnlyType
<1>1. <<>> \in S
  <2>1. s \o <<>> = s /\ Only(s, T) \o <<>> = Only(s, T)
    BY <1>0, ConcatEmptySeq
  <2>2. Only(<<>>, T) = <<>>
    BY OnlyEmpty
  <2>3. Only(s \o <<>>, T) = Only(s, T) \o Only(<<>>, T)
    BY <2>1, <2>2, Zenon
  <2> QED
    BY <2>3
<1>2. ASSUME NEW q \in Seq(X), NEW x \in X, q \in S PROVE Append(q, x) \in S
  <2>0. Append(q, x) \in Seq(X) /\ s \o q \in Seq(X) /\ Only(q, T) \in Seq(X \cap T)
    BY ToSetAppend, OnlyType, ConcatProperties
  <2>1. s \o Append(q, x) = Append(s \o q, x)
    BY ConcatAppends
  <2>2. Only(Append(s \o q, x), T)
            = IF x \in T THEN Append(Only(s \o q, T), x) ELSE Only(s \o q, T)
    <3>1. ASSUME NEW p \in Seq(X)
          PROVE  Only(Append(p, x), T) = IF x \in T THEN Append(Only(p, T), x) ELSE Only(p, T)
      BY OnlyAppend
    <3> QED
      BY <2>0, <3>1, Zenon
  <2>3. Only(Append(q, x), T) = IF x \in T THEN Append(Only(q, T), x) ELSE Only(q, T)
    BY OnlyAppend
  <2>4. CASE x \in T
    <3>1. x \in X \cap T
      BY <2>4
    <3>2. Only(s, T) \o Append(Only(q, T), x) = Append(Only(s, T) \o Only(q, T), x)
      BY <1>0, <2>0, <3>1, ConcatAppends
    <3> QED
      BY <1>2, <2>0, <2>1, <2>2, <2>3, <2>4, <3>2
  <2>5. CASE x \notin T
    BY <1>2, <2>0, <2>1, <2>2, <2>3, <2>5
  <2> QED
    BY <2>4, <2>5
<1> HIDE DEF S
<1>3. \A q \in Seq(X) : q \in S
  BY <1>1, <1>2, SequenceInduction
<1> QED
  BY <1>3 DEF S

\* Nothing dropped, everything dropped.
LEMMA OnlyAllOrNone ==
  ASSUME NEW X, NEW T, NEW s \in Seq(X)
  PROVE  /\ ToSet(s) \subseteq T => Only(s, T) = s
         /\ ToSet(s) \cap T = {} => Only(s, T) = <<>>
<1> DEFINE S == {q \in Seq(X) : /\ ToSet(q) \subseteq T => Only(q, T) = q
                                /\ ToSet(q) \cap T = {} => Only(q, T) = <<>>}
<1>1. <<>> \in S
  BY OnlyEmpty
<1>2. ASSUME NEW q \in Seq(X), NEW x \in X, q \in S PROVE Append(q, x) \in S
  <2>1. Only(Append(q, x), T) = IF x \in T THEN Append(Only(q, T), x) ELSE Only(q, T)
    BY OnlyAppend
  <2>2. Append(q, x) \in Seq(X) /\ ToSet(Append(q, x)) = ToSet(q) \cup {x}
    BY ToSetAppend
  <2>3. CASE x \in T
    BY <1>2, <2>1, <2>2, <2>3
  <2>4. CASE x \notin T
    BY <1>2, <2>1, <2>2, <2>4
  <2> QED
    BY <2>3, <2>4
<1> HIDE DEF S
<1>3. \A q \in Seq(X) : q \in S
  BY <1>1, <1>2, SequenceInduction
<1> QED
  BY <1>3 DEF S

-----------------------------------------------------------------------------
(* FlattenSeq, of the community modules.                                   *)

\* The function inside FlattenSeq.
Flattening(seqs) ==
    CHOOSE flatten : flatten = [i \in 1..Len(seqs) |->
        IF i = 1 THEN seqs[i] ELSE flatten[i - 1] \o seqs[i]]

\* FlattenSeq is the last value of the function inside it.
LEMMA FlattenSeqIs ==
  ASSUME NEW seqs
  PROVE  FlattenSeq(seqs) = IF Len(seqs) = 0 THEN seqs ELSE Flattening(seqs)[Len(seqs)]
  BY DEF FlattenSeq, Flattening

Flattens(f, seqs, X) ==
    /\ f \in [1..Len(seqs) -> Seq(X)]
    /\ Len(seqs) # 0 => f[1] = seqs[1]
    /\ \A i \in 2..Len(seqs) : f[i] = f[i - 1] \o seqs[i]

\* The function inside FlattenSeq is the one its equation describes.
LEMMA FlatteningIs ==
  ASSUME NEW X, NEW seqs \in Seq(Seq(X))
  PROVE  Flattens(Flattening(seqs), seqs, X)
<1> DEFINE N == Len(seqs)
           V == Seq(X)
           step == [n \in 1..N |-> [v \in V |-> v \o seqs[n]]]
           Body(flatten) == [i \in 1..N |-> IF i = 1 THEN seqs[i]
                                            ELSE flatten[i - 1] \o seqs[i]]
<1>1. N \in Nat /\ <<>> \in V /\ \A n \in 1..N : seqs[n] \in V
  OBVIOUS
<1>2. step \in [1..N -> [V -> V]]
  <2>1. ASSUME NEW n \in 1..N, NEW v \in V PROVE v \o seqs[n] \in V
    BY <1>1, ConcatProperties
  <2> HIDE DEF V, N
  <2> QED
    BY <2>1
<1>0. \A v \in V : <<>> \o v = v
  BY ConcatEmptySeq
<1>10. N \in Nat /\ <<>> \in V
  BY <1>1
<1> HIDE DEF N, V
<1>3. PICK f \in [0..N -> V] :
          f[0] = <<>> /\ \A n \in 1..N : f[n] = step[n][f[n - 1]]
  <2> HIDE DEF step, Body
  <2>1. Recurses(N, V, <<>>, step)
    BY <1>10, <1>2, RecursionFor, Zenon
  <2> QED
    BY <2>1 DEF Recurses
<1>4. ASSUME NEW n \in 1..N PROVE f[n - 1] \in V /\ f[n] = f[n - 1] \o seqs[n]
  <2>1. n - 1 \in 0..N
    BY <1>10
  <2>2. f[n - 1] \in V
    BY <1>3, <2>1
  <2>3. step[n][f[n - 1]] = f[n - 1] \o seqs[n]
    BY <2>2
  <2>4. f[n] = step[n][f[n - 1]]
    BY <1>3
  <2> QED
    BY <2>2, <2>3, <2>4
<1> DEFINE g == [i \in 1..N |-> f[i]]
<1>5. g = Body(g)
  <2>1. ASSUME NEW i \in 1..N PROVE f[i] = Body(g)[i]
    <3>1. CASE i = 1
      <4>0. 1 \in 1..N /\ 1 - 1 = 0
        BY <3>1
      <4>1. f[1] = f[0] \o seqs[1] /\ seqs[1] \in V
        BY <1>1, <1>4, <4>0
      <4>2. f[1] = seqs[1]
        BY <4>1, <1>3, <1>0
      <4> QED
        BY <3>1, <4>2
    <3>2. CASE i # 1
      <4>1. i - 1 \in 1..N
        BY <1>1, <3>2
      <4>2. Body(g)[i] = g[i - 1] \o seqs[i]
        BY <3>2
      <4>3. g[i - 1] = f[i - 1]
        BY <4>1
      <4> QED
        BY <1>4, <4>2, <4>3
    <3> QED
      BY <3>1, <3>2
  <2> QED
    BY <2>1
<1>6. Flattening(seqs) = Body(Flattening(seqs))
  BY <1>5 DEF Flattening, N
<1> DEFINE r == Flattening(seqs)
<1>7. /\ r = [n \in 1..N |-> r[n]]
      /\ N # 0 => r[1] = seqs[1]
      /\ \A n \in 2..N : r[n] = r[n - 1] \o seqs[n]
  <2>1. r = Body(r)
    BY <1>6
  <2> HIDE DEF r
  <2>2. r = [n \in 1..N |-> r[n]] /\ \A n \in 1..N : r[n] = Body(r)[n]
    BY <2>1
  <2>3. ASSUME NEW n \in 2..N
        PROVE  r[n] = r[n - 1] \o seqs[n]
    <3>1. n \in 1..N /\ n # 1
      BY <1>1
    <3>2. Body(r)[n] = r[n - 1] \o seqs[n]
      BY <3>1
    <3> QED
      BY <2>2, <3>1, <3>2
  <2>4. ASSUME N # 0 PROVE r[1] = seqs[1]
    <3>1. 1 \in 1..N
      BY <1>1, <2>4
    <3> QED
      BY <2>2, <3>1
  <2> HIDE DEF Body
  <2> QED
    BY <2>2, <2>3, <2>4
<1> HIDE DEF r
<1>8. \A n \in 1..N : r[n] \in V
  <2> DEFINE S == {n \in 0..N : n = 0 \/ r[n] \in V}
  <2>1. 0 \in S
    BY <1>1
  <2>2. ASSUME NEW n \in 0..N, n < N, n \in S PROVE n + 1 \in S
    <3>1. n + 1 \in 1..N /\ (n + 1) - 1 = n
      BY <1>1, <2>2
    <3>2. CASE n = 0
      <4>1. r[1] = seqs[1] /\ seqs[1] \in V
        BY <1>1, <1>7, <3>1, <3>2
      <4> QED
        BY <3>1, <3>2, <4>1
    <3>3. CASE n # 0
      <4>1. r[n] \in V /\ n + 1 \in 2..N
        BY <2>2, <3>1, <3>3
      <4>2. r[n + 1] = r[n] \o seqs[n + 1] /\ seqs[n + 1] \in V
        BY <1>1, <1>7, <3>1, <4>1
      <4>3. r[n] \o seqs[n + 1] \in V
        BY <4>1, <4>2, ConcatProperties DEF V
      <4>4. n + 1 \in 0..N
        BY <1>1, <3>1
      <4> QED
        BY <4>2, <4>3, <4>4
    <3> QED
      BY <3>2, <3>3
  <2> HIDE DEF S
  <2>3. \A n \in 0..N : n \in S
    BY <1>1, <2>1, <2>2, UpTo
  <2>4. ASSUME NEW n \in 1..N PROVE r[n] \in V
    <3>1. n \in 0..N /\ n # 0
      BY <1>1
    <3> QED
      BY <2>3, <3>1 DEF S
  <2> QED
    BY <2>4
<1> QED
  BY <1>7, <1>8 DEF r, N, V, Flattens

\* No sequences make an empty one.
LEMMA FlattenEmpty == FlattenSeq(<<>>) = <<>>
  BY FlattenSeqIs

\* Sequences over a set make a sequence over it.
LEMMA FlattenType ==
  ASSUME NEW X, NEW seqs \in Seq(Seq(X))
  PROVE  FlattenSeq(seqs) \in Seq(X)
<1>1. CASE Len(seqs) = 0
  <2>1. seqs = <<>> /\ <<>> \in Seq(X)
    BY <1>1
  <2> QED
    BY <2>1, FlattenEmpty
<1>2. CASE Len(seqs) # 0
  <2>1. Flattens(Flattening(seqs), seqs, X)
    BY FlatteningIs
  <2>2. Len(seqs) \in 1..Len(seqs)
    BY <1>2
  <2>3. Flattening(seqs)[Len(seqs)] \in Seq(X)
    BY <2>1, <2>2 DEF Flattens
  <2> QED
    BY <1>2, <2>3, FlattenSeqIs
<1> QED
  BY <1>1, <1>2

\* The flattenings of a sequence and of a longer one agree as far as both go.
LEMMA FlatteningAgrees ==
  ASSUME NEW X, NEW s \in Seq(Seq(X)), NEW t \in Seq(Seq(X)), Len(s) <= Len(t),
         \A n \in 1..Len(s) : t[n] = s[n]
  PROVE  \A n \in 1..Len(s) : Flattening(t)[n] = Flattening(s)[n]
<1> DEFINE N == Len(s)
           r == Flattening(s)
           q == Flattening(t)
<1>0. N \in Nat /\ Len(t) \in Nat /\ \A n \in 1..N : n \in 1..Len(t)
  OBVIOUS
<1>3. Flattens(r, s, X) /\ Flattens(q, t, X)
  BY FlatteningIs
<1> HIDE DEF r, q
<1> DEFINE S == {n \in 0..N : n = 0 \/ q[n] = r[n]}
<1>1. 0 \in S
  BY <1>0
<1>2. ASSUME NEW n \in 0..N, n < N, n \in S PROVE n + 1 \in S
  <2>1. n + 1 \in 1..N /\ (n + 1) - 1 = n /\ n + 1 \in 0..N /\ n + 1 \in 1..Len(t)
    BY <1>0, <1>2
  <2>2. CASE n = 0
    BY <1>0, <1>3, <2>1, <2>2 DEF Flattens
  <2>3. CASE n # 0
    <3>1. n + 1 \in 2..N /\ n + 1 \in 2..Len(t)
      BY <1>0, <1>2, <2>1, <2>3
    <3>2. r[n + 1] = r[n] \o s[n + 1] /\ q[n + 1] = q[n] \o t[n + 1]
      BY <1>3, <2>1, <3>1 DEF Flattens
    <3> QED
      BY <1>2, <2>1, <2>3, <3>2
  <2> QED
    BY <2>2, <2>3
<1> HIDE DEF S
<1>4. \A n \in 0..N : n \in S
  BY <1>0, <1>1, <1>2, UpTo
<1>5. ASSUME NEW n \in 1..N PROVE q[n] = r[n]
  <2>1. n \in 0..N /\ n # 0
    BY <1>0
  <2> QED
    BY <1>4, <2>1 DEF S
<1> QED
  BY <1>5 DEF r, q

\* One more sequence is appended to the others.
LEMMA FlattenAppend ==
  ASSUME NEW X, NEW seqs \in Seq(Seq(X)), NEW x \in Seq(X)
  PROVE  FlattenSeq(Append(seqs, x)) = FlattenSeq(seqs) \o x
<1> DEFINE t == Append(seqs, x)
           N == Len(seqs)
<1>1. /\ t \in Seq(Seq(X)) /\ Len(t) = N + 1 /\ t[N + 1] = x /\ N \in Nat
      /\ \A n \in 1..N : t[n] = seqs[n]
  BY AppendProperties
<1> HIDE DEF t
<1>2. Flattens(Flattening(t), t, X)
  BY <1>1, FlatteningIs
<1>3. FlattenSeq(t) = Flattening(t)[N + 1]
  BY <1>1, FlattenSeqIs
<1>4. CASE N = 0
  <2>1. seqs = <<>> /\ <<>> \o x = x
    BY <1>4, ConcatEmptySeq
  <2>2. Flattening(t)[1] = x
    BY <1>1, <1>2, <1>4 DEF Flattens
  <2> QED
    BY <1>1, <1>3, <1>4, <2>1, <2>2, FlattenEmpty DEF t
<1>5. CASE N # 0
  <2>1. N + 1 \in 2..Len(t) /\ (N + 1) - 1 = N /\ N \in 1..N /\ N <= Len(t)
    BY <1>1, <1>5
  <2>2. Flattening(t)[N + 1] = Flattening(t)[N] \o x
    BY <1>1, <1>2, <2>1 DEF Flattens
  <2>3. Flattening(t)[N] = Flattening(seqs)[N]
    BY <1>1, <2>1, FlatteningAgrees
  <2>4. FlattenSeq(seqs) = Flattening(seqs)[N]
    BY <1>5, FlattenSeqIs
  <2> QED
    BY <1>3, <2>2, <2>3, <2>4 DEF t
<1> QED
  BY <1>4, <1>5
\* Where a sequence is found in another.
FoundAt(part, text, o) ==
    o + Len(part) <= Len(text) /\ \A j \in 1..Len(part) : text[o + j] = part[j]

\* What is found in a sequence is found in a longer one, and so is what makes
\* it longer.
LEMMA FoundInLonger ==
  ASSUME NEW X, NEW s \in Seq(X), NEW t \in Seq(X), NEW part \in Seq(X)
  PROVE  /\ \A o \in Nat : FoundAt(part, s, o) => FoundAt(part, s \o t, o)
         /\ FoundAt(t, s \o t, Len(s))
<1> DEFINE r == s \o t
<1>1. /\ Len(r) = Len(s) + Len(t) /\ Len(s) \in Nat /\ Len(t) \in Nat /\ Len(part) \in Nat
      /\ \A i \in 1..Len(s) : r[i] = s[i]
      /\ \A j \in 1..Len(t) : r[Len(s) + j] = t[j]
  BY ConcatProperties
<1> HIDE DEF r
<1>2. ASSUME NEW o \in Nat, FoundAt(part, s, o) PROVE FoundAt(part, r, o)
  <2>1. \A j \in 1..Len(part) : o + j \in 1..Len(s)
    BY <1>1, <1>2 DEF FoundAt
  <2> QED
    BY <1>1, <1>2, <2>1 DEF FoundAt
<1>3. FoundAt(t, r, Len(s))
  BY <1>1 DEF FoundAt
<1> QED
  BY <1>2, <1>3 DEF r

\* Each of the sequences is found in what they make.
LEMMA FlattenHolds ==
  ASSUME NEW X, NEW seqs \in Seq(Seq(X)), NEW i \in 1..Len(seqs)
  PROVE  \E o \in Nat : FoundAt(seqs[i], FlattenSeq(seqs), o)
<1> DEFINE S == {s \in Seq(Seq(X)) :
                    \A k \in 1..Len(s) : \E o \in Nat : FoundAt(s[k], FlattenSeq(s), o)}
<1>1. <<>> \in S
  OBVIOUS
<1>2. ASSUME NEW s \in Seq(Seq(X)), NEW x \in Seq(X), s \in S PROVE Append(s, x) \in S
  <2> DEFINE t == Append(s, x)
             f == FlattenSeq(s)
  <2>1. /\ t \in Seq(Seq(X)) /\ Len(t) = Len(s) + 1 /\ t[Len(s) + 1] = x /\ Len(s) \in Nat
        /\ \A k \in 1..Len(s) : t[k] = s[k] /\ s[k] \in Seq(X)
    BY AppendProperties
  <2>2. f \in Seq(X) /\ FlattenSeq(t) = f \o x /\ Len(f) \in Nat
    <3>1. f \in Seq(X)
      BY FlattenType
    <3>2. FlattenSeq(t) = f \o x
      BY FlattenAppend
    <3> HIDE DEF t, f
    <3> QED
      BY <3>1, <3>2
  <2> HIDE DEF t, f
  <2>3. ASSUME NEW k \in 1..Len(t) PROVE \E o \in Nat : FoundAt(t[k], f \o x, o)
    <3>1. CASE k \in 1..Len(s)
      <4>1. PICK o \in Nat : FoundAt(s[k], f, o)
        BY <1>2, <3>1 DEF f
      <4> QED
        BY <2>1, <2>2, <3>1, <4>1, FoundInLonger
    <3>2. CASE k = Len(s) + 1
      BY <2>1, <2>2, <3>2, FoundInLonger
    <3> QED
      BY <2>1, <3>1, <3>2
  <2>4. t \in S
    BY <2>1, <2>2, <2>3
  <2> QED
    BY <2>4 DEF t
<1> HIDE DEF S
<1>3. \A s \in Seq(Seq(X)) : s \in S
  BY <1>1, <1>2, SequenceInduction
<1> QED
  BY <1>3 DEF S
-----------------------------------------------------------------------------
(* Sequences made element by element, and sorted ones.                     *)

\* What each element becomes.
Each(g, s) == [i \in DOMAIN s |-> g[s[i]]]

\* As facts about one term, where the prover would take an equation apart.
Extends(u, s, x) == u = Append(s, x)
Joins(u, s, t) == u = s \o t

\* The same for one element more.
LEMMA EachAppend ==
  ASSUME NEW X, NEW Y, NEW g \in [X -> Y], NEW s \in Seq(X), NEW x \in X,
         NEW t, Extends(t, s, x)
  PROVE  Each(g, s) \in Seq(Y) /\ Extends(Each(g, t), Each(g, s), g[x])
<1> DEFINE m == Each(g, s)
<1>1. /\ t \in Seq(X) /\ Len(t) = Len(s) + 1 /\ t[Len(s) + 1] = x /\ Len(s) \in Nat
      /\ DOMAIN s = 1..Len(s) /\ DOMAIN t = 1..(Len(s) + 1)
      /\ \A i \in 1..Len(s) : t[i] = s[i] /\ s[i] \in X
  BY AppendProperties DEF Extends
<1>2. m \in Seq(Y) /\ Len(m) = Len(s) /\ \A i \in 1..Len(s) : m[i] = g[s[i]]
  BY <1>1 DEF Each
<1> HIDE DEF m
<1> DEFINE u == Append(m, g[x])
           v == Each(g, t)
<1>3. /\ u \in Seq(Y) /\ Len(u) = Len(s) + 1 /\ u[Len(s) + 1] = g[x]
      /\ \A i \in 1..Len(s) : u[i] = m[i]
  BY <1>1, <1>2, AppendProperties
<1>4. v \in Seq(Y) /\ Len(v) = Len(s) + 1 /\ \A i \in 1..(Len(s) + 1) : v[i] = g[t[i]]
  <2>1. \A i \in 1..(Len(s) + 1) : t[i] \in X
    BY <1>1
  <2> QED
    BY <1>1, <2>1 DEF Each
<1> HIDE DEF u, v
<1>5. \A i \in 1..Len(v) : v[i] = u[i]
  <2> SUFFICES ASSUME NEW i \in 1..(Len(s) + 1) PROVE v[i] = u[i]
    BY <1>4
  <2>1. CASE i = Len(s) + 1
    BY <1>1, <1>3, <1>4, <2>1
  <2>2. CASE i \in 1..Len(s)
    BY <1>1, <1>2, <1>3, <1>4, <2>2
  <2> QED
    BY <1>1, <2>1, <2>2
<1>6. v = u
  BY <1>3, <1>4, <1>5, SeqEqual
<1> QED
  BY <1>2, <1>6 DEF m, u, v, Extends

\* What the sequences that each element becomes make together.
LEMMA FlattenEach ==
  ASSUME NEW X, NEW Y, NEW g \in [X -> Seq(Y)], NEW s \in Seq(X), NEW x \in X,
         NEW t, Extends(t, s, x)
  PROVE  /\ FlattenSeq(Each(g, <<>>)) = <<>>
         /\ FlattenSeq(Each(g, s)) \in Seq(Y)
         /\ Joins(FlattenSeq(Each(g, t)), FlattenSeq(Each(g, s)), g[x])
<1> DEFINE m == Each(g, s)
           u == Each(g, t)
           y == g[x]
           Z == Seq(Y)
<1>1. g \in [X -> Z]
  OBVIOUS
<1> HIDE DEF Z
<1>2. m \in Seq(Z)
  BY <1>1, EachAppend
<1>3. Extends(u, m, y)
  BY <1>1, EachAppend
<1>4. y \in Z
  BY <1>1
<1>5. Each(g, <<>>) = <<>>
  BY DEF Each
<1> HIDE DEF m, u, y
<1>6. FlattenSeq(m) \in Seq(Y) /\ FlattenSeq(u) = FlattenSeq(m) \o y
  <2>1. m \in Seq(Seq(Y)) /\ y \in Seq(Y)
    BY <1>2, <1>4 DEF Z
  <2>2. FlattenSeq(m) \in Seq(Y)
    BY <2>1, FlattenType
  <2>3. FlattenSeq(u) = FlattenSeq(m) \o y
    BY <1>3, <2>1, FlattenAppend DEF Extends
  <2> QED
    BY <2>2, <2>3
<1> QED
  BY <1>5, <1>6, FlattenEmpty DEF m, u, y, Joins

\* What two sequences in a row are made of.
LEMMA JoinsProperties ==
  ASSUME NEW X, NEW s \in Seq(X), NEW t \in Seq(X), NEW u, Joins(u, s, t)
  PROVE  /\ u \in Seq(X) /\ Len(u) = Len(s) + Len(t)
         /\ \A i \in 1..Len(s) : u[i] = s[i]
         /\ \A i \in 1..Len(t) : u[Len(s) + i] = t[i]
<1>1. u = s \o t /\ Len(s) \in Nat /\ Len(t) \in Nat
  BY DEF Joins
<1>2. /\ u \in Seq(X) /\ Len(u) = Len(s) + Len(t)
      /\ \A i \in 1 .. Len(s) + Len(t) : u[i] = IF i <= Len(s) THEN s[i] ELSE t[i - Len(s)]
  BY <1>1, ConcatProperties
<1>3. ASSUME NEW i \in 1..Len(t) PROVE u[Len(s) + i] = t[i]
  <2>1. Len(s) + i \in 1 .. Len(s) + Len(t) /\ ~(Len(s) + i <= Len(s)) /\ (Len(s) + i) - Len(s) = i
    BY <1>1
  <2> QED
    BY <1>2, <2>1
<1>4. ASSUME NEW i \in 1..Len(s) PROVE u[i] = s[i]
  <2>1. i \in 1 .. Len(s) + Len(t) /\ i <= Len(s)
    BY <1>1
  <2> QED
    BY <1>2, <2>1
<1> QED
  BY <1>2, <1>3, <1>4

\* Three sequences in a row.
LEMMA JoinsAssociate ==
  ASSUME NEW X, NEW a \in Seq(X), NEW b \in Seq(X), NEW c \in Seq(X),
         NEW ab, Joins(ab, a, b), NEW bc, Joins(bc, b, c)
  PROVE  \A u : Joins(u, a, bc) <=> Joins(u, ab, c)
<1>1. (a \o b) \o c = a \o (b \o c)
  BY ConcatAssociative
<1>2. ab = a \o b /\ bc = b \o c
  BY DEF Joins
<1>3. ab \o c = a \o bc
  BY <1>1, <1>2, Zenon
<1> QED
  BY <1>3 DEF Joins

\* Appending to one of two that are flattened one after the other.
LEMMA FlattenConcat ==
  ASSUME NEW X, NEW a \in Seq(Seq(X)), NEW b \in Seq(Seq(X)), NEW ab, Joins(ab, a, b)
  PROVE  /\ FlattenSeq(a) \in Seq(X) /\ FlattenSeq(b) \in Seq(X)
         /\ Joins(FlattenSeq(ab), FlattenSeq(a), FlattenSeq(b))
<1> DEFINE fa == FlattenSeq(a)
           S == {q \in Seq(Seq(X)) : FlattenSeq(a \o q) = fa \o FlattenSeq(q)}
<1>0. fa \in Seq(X)
  BY FlattenType
<1>1. <<>> \in S
  <2>1. a \o <<>> = a /\ fa \o <<>> = fa
    BY <1>0, ConcatEmptySeq
  <2>2. FlattenSeq(a \o <<>>) = fa \o FlattenSeq(<<>>)
    BY <2>1, FlattenEmpty, Zenon
  <2> QED
    BY <2>2
<1>2. ASSUME NEW q \in Seq(Seq(X)), NEW x \in Seq(X), q \in S PROVE Append(q, x) \in S
  <2>0. Append(q, x) \in Seq(Seq(X)) /\ a \o q \in Seq(Seq(X)) /\ FlattenSeq(q) \in Seq(X)
    BY AppendProperties, ConcatProperties, FlattenType
  <2>1. a \o Append(q, x) = Append(a \o q, x)
    BY ConcatAppends
  <2>2. FlattenSeq(Append(a \o q, x)) = FlattenSeq(a \o q) \o x
    <3>1. ASSUME NEW p \in Seq(Seq(X)) PROVE FlattenSeq(Append(p, x)) = FlattenSeq(p) \o x
      BY FlattenAppend
    <3> QED
      BY <2>0, <3>1, Zenon
  <2>3. FlattenSeq(Append(q, x)) = FlattenSeq(q) \o x
    BY FlattenAppend
  <2>4. FlattenSeq(a \o q) = fa \o FlattenSeq(q)
    BY <1>2
  <2> HIDE DEF fa
  <2>5. (fa \o FlattenSeq(q)) \o x = fa \o (FlattenSeq(q) \o x)
    <3> DEFINE fq == FlattenSeq(q)
               v == fa \o fq
               w == fq \o x
    <3>1. fq \in Seq(X) /\ Joins(v, fa, fq) /\ Joins(w, fq, x)
      BY <2>0 DEF Joins
    <3> HIDE DEF v, w, fq
    <3>2. \A u : Joins(u, fa, w) <=> Joins(u, v, x)
      BY <1>0, <3>1, JoinsAssociate
    <3>3. v \o x = fa \o w
      BY <3>2 DEF Joins
    <3> QED
      BY <3>3 DEF v, w, fq
  <2>6. FlattenSeq(a \o Append(q, x)) = fa \o FlattenSeq(Append(q, x))
    BY <2>1, <2>2, <2>3, <2>4, <2>5, Zenon
  <2> QED
    BY <2>0, <2>6
<1> HIDE DEF S
<1>3. \A q \in Seq(Seq(X)) : q \in S
  BY <1>1, <1>2, SequenceInduction
<1>4. FlattenSeq(a \o b) = fa \o FlattenSeq(b)
  BY <1>3 DEF S
<1> QED
  BY <1>0, <1>4, FlattenType DEF Joins

\* below[a] is what comes before a in a strict order of S.
IsOrder(below, S) ==
    /\ below \in [S -> SUBSET S]
    /\ \A a \in S : a \notin below[a]
    /\ \A a, b \in S : b \in below[a] => below[b] \subseteq below[a]
    /\ \A a, b \in S : a # b => a \in below[b] \/ b \in below[a]

\* The kth element has k - 1 before it.
Ranks(q, below, S) ==
    /\ q \in Seq(S) /\ Len(q) = Cardinality(S)
    /\ \A k \in 1..Cardinality(S) : Cardinality(below[q[k]]) = k - 1

\* In an ordered finite set there is one with k - 1 before it, for every k up to
\* its size.
LEMMA RanksExist ==
  ASSUME NEW S, IsFiniteSet(S), NEW below, IsOrder(below, S)
  PROVE  /\ Cardinality(S) \in Nat
         /\ \A a \in S : Cardinality(below[a]) \in 0..(Cardinality(S) - 1)
         /\ \A a, b \in S : a \in below[b] => Cardinality(below[a]) < Cardinality(below[b])
         /\ \A k \in 1..Cardinality(S) : \E a \in S : Cardinality(below[a]) = k - 1
<1> DEFINE n == Cardinality(S)
           rank == [a \in S |-> Cardinality(below[a])]
<1>1. n \in Nat
  BY FS_CardinalityType
<1>2. ASSUME NEW a \in S
      PROVE  IsFiniteSet(below[a]) /\ Cardinality(below[a]) \in 0..(n - 1)
  <2>1. below[a] \subseteq S /\ below[a] # S
    BY DEF IsOrder
  <2>2. IsFiniteSet(below[a]) /\ Cardinality(below[a]) <= n
        /\ (Cardinality(below[a]) = n => below[a] = S)
    BY <2>1, FS_Subset
  <2> QED
    BY <1>1, <2>1, <2>2, FS_CardinalityType
<1>3. ASSUME NEW a \in S, NEW b \in S, a \in below[b]
      PROVE  Cardinality(below[a]) < Cardinality(below[b])
  <2>1. below[a] \subseteq below[b] /\ below[a] # below[b]
    BY <1>3 DEF IsOrder
  <2>2. IsFiniteSet(below[b]) /\ Cardinality(below[a]) \in Nat /\ Cardinality(below[b]) \in Nat
    BY <1>1, <1>2
  <2>3. Cardinality(below[a]) <= Cardinality(below[b])
        /\ (Cardinality(below[a]) = Cardinality(below[b]) => below[a] = below[b])
    BY <2>1, <2>2, FS_Subset
  <2> QED
    BY <2>1, <2>2, <2>3
<1>4. rank \in Injection(S, 0..(n - 1))
  <2>1. rank \in [S -> 0..(n - 1)]
    BY <1>2
  <2>2. ASSUME NEW a \in S, NEW b \in S, rank[a] = rank[b] PROVE a = b
    <3>1. Cardinality(below[a]) = Cardinality(below[b]) /\ Cardinality(below[a]) \in Int
      BY <1>2, <2>2
    <3>2. a \notin below[b] /\ b \notin below[a]
      BY <1>3, <3>1
    <3> QED
      BY <3>2 DEF IsOrder
  <2> QED
    BY <2>1, <2>2, Fun_IsInj
<1>5. IsFiniteSet(0..(n - 1)) /\ Cardinality(0..(n - 1)) = n
  BY <1>1, FS_Interval
<1> HIDE DEF n, rank
<1>6. rank \in Surjection(S, 0..(n - 1))
  BY <1>4, <1>5, FS_Injection DEF n
<1> DEFINE T == 0..(n - 1)
<1> HIDE DEF T
<1>7. rank \in Surjection(S, T)
  BY <1>6 DEF T
<1>8. \A t \in T : \E a \in S : rank[a] = t
  BY <1>7, Fun_SurjectionProperties
<1>10. ASSUME NEW k \in 1..n PROVE \E a \in S : Cardinality(below[a]) = k - 1
  <2>1. k - 1 \in 0..(n - 1)
    BY <1>1
  <2>2. PICK a \in S : rank[a] = k - 1
    BY <1>8, <2>1 DEF T
  <2> QED
    BY <2>2 DEF rank
<1> QED
  BY <1>1, <1>2, <1>3, <1>10 DEF n

\* A sequence with these is sorted and has every member.
LEMMA RankedIsSorted ==
  ASSUME NEW S, IsFiniteSet(S), NEW below, IsOrder(below, S), NEW q, Ranks(q, below, S)
  PROVE  /\ \A i, j \in 1..Len(q) : i < j => q[i] \in below[q[j]]
         /\ \A a \in S : \E k \in 1..Len(q) : q[k] = a
<1>0. /\ Cardinality(S) \in Nat /\ Len(q) = Cardinality(S)
      /\ \A k \in 1..Len(q) : q[k] \in S /\ Cardinality(below[q[k]]) = k - 1
  BY RanksExist DEF Ranks
<1>1. ASSUME NEW i \in 1..Len(q), NEW j \in 1..Len(q), i < j PROVE q[i] \in below[q[j]]
  <2>1. q[i] # q[j]
    BY <1>0, <1>1
  <2>2. q[j] \notin below[q[i]]
    <3>1. ~(Cardinality(below[q[j]]) < Cardinality(below[q[i]]))
      BY <1>0, <1>1
    <3> QED
      BY <1>0, <3>1, RanksExist
  <2> QED
    BY <1>0, <2>1, <2>2 DEF IsOrder
<1>2. ASSUME NEW a \in S PROVE \E k \in 1..Len(q) : q[k] = a
  <2> DEFINE k == Cardinality(below[a]) + 1
  <2>1. Cardinality(below[a]) \in 0..(Cardinality(S) - 1)
    BY RanksExist
  <2>2. k \in 1..Len(q) /\ k - 1 = Cardinality(below[a])
    BY <1>0, <2>1
  <2> HIDE DEF k
  <2>3. Cardinality(below[q[k]]) = Cardinality(below[a]) /\ q[k] \in S
    BY <1>0, <2>2
  <2>4. q[k] \notin below[a] /\ a \notin below[q[k]]
    <3>1. ~(Cardinality(below[a]) < Cardinality(below[q[k]]))
          /\ ~(Cardinality(below[q[k]]) < Cardinality(below[a]))
      BY <2>1, <2>3
    <3> QED
      BY <2>3, <3>1, RanksExist
  <2> QED
    BY <2>2, <2>3, <2>4 DEF IsOrder
<1> QED
  BY <1>1, <1>2
-----------------------------------------------------------------------------
(* Sequences made from the back.                                           *)

\* onward[c] is what the sequences behind the cth make together.
Onwards(onward, seqs, X) ==
    /\ onward \in [0..Len(seqs) -> Seq(X)]
    /\ onward[Len(seqs)] = <<>>
    /\ \A c \in 0..(Len(seqs) - 1) : Joins(onward[c], seqs[c + 1], onward[c + 1])

\* There is one.
LEMMA OnwardsExist ==
  ASSUME NEW X, NEW seqs \in Seq(Seq(X))
  PROVE  \E onward : Onwards(onward, seqs, X)
<1> DEFINE N == Len(seqs)
           V == Seq(X)
           step == [m \in 1..N |-> [v \in V |-> seqs[(N + 1) - m] \o v]]
<1>1. N \in Nat /\ <<>> \in V
  OBVIOUS
<1>2. \A m \in 1..N : (N + 1) - m \in 1..N /\ seqs[(N + 1) - m] \in V
  OBVIOUS
<1>3. \A s, v \in V : s \o v \in V
  BY ConcatProperties
<1> HIDE DEF N, V
<1>4. step \in [1..N -> [V -> V]]
  BY <1>2, <1>3
<1>5. PICK f \in [0..N -> V] : f[0] = <<>> /\ \A m \in 1..N : f[m] = step[m][f[m - 1]]
  <2> HIDE DEF step
  <2>1. Recurses(N, V, <<>>, step)
    BY <1>1, <1>4, RecursionFor
  <2> QED
    BY <2>1 DEF Recurses
<1> DEFINE onward == [c \in 0..N |-> f[N - c]]
<1>6. onward \in [0..N -> V] /\ onward[N] = <<>>
  <2>1. \A c \in 0..N : N - c \in 0..N
    BY <1>1
  <2>2. N \in 0..N /\ N - N = 0
    BY <1>1
  <2> QED
    BY <1>5, <2>1, <2>2
<1>7. ASSUME NEW c \in 0..(N - 1) PROVE Joins(onward[c], seqs[c + 1], onward[c + 1])
  <2> DEFINE m == N - c
  <2>1. /\ m \in 1..N /\ m - 1 \in 0..N /\ (N + 1) - m = c + 1 /\ N - (c + 1) = m - 1
        /\ c \in 0..N /\ c + 1 \in 0..N
    BY <1>1
  <2>2. onward[c] = f[m] /\ onward[c + 1] = f[m - 1]
    BY <2>1
  <2> HIDE DEF onward, m
  <2>3. f[m - 1] \in V
    BY <1>5, <2>1
  <2>4. step[m] = [v \in V |-> seqs[(N + 1) - m] \o v]
    BY <2>1
  <2>5. step[m][f[m - 1]] = seqs[(N + 1) - m] \o f[m - 1]
    BY <2>3, <2>4
  <2> HIDE DEF step
  <2>6. Joins(f[m], seqs[c + 1], f[m - 1])
    BY <1>5, <2>1, <2>5 DEF Joins
  <2> QED
    BY <2>2, <2>6
<1> HIDE DEF onward
<1>8. Onwards(onward, seqs, X)
  BY <1>6, <1>7 DEF Onwards, N, V
<1> QED
  BY <1>8

\* All of them, from the back, are what they make from the front.
LEMMA FlattenOnward ==
  ASSUME NEW X, NEW seqs \in Seq(Seq(X)), NEW onward, Onwards(onward, seqs, X)
  PROVE  FlattenSeq(seqs) = onward[0]
<1> DEFINE N == Len(seqs)
           V == Seq(X)
           Made(c) == FlattenSeq(SubSeq(seqs, 1, c))
           S == {c \in 0..N : Joins(onward[0], Made(c), onward[c])}
<1>1. N \in Nat /\ <<>> \in V /\ seqs \in Seq(V)
  OBVIOUS
<1>2. /\ onward \in [0..N -> V] /\ onward[N] = <<>>
      /\ \A c \in 0..(N - 1) : Joins(onward[c], seqs[c + 1], onward[c + 1])
  BY DEF Onwards
<1>3. ASSUME NEW c \in 0..N PROVE Made(c) \in V
  <2>1. SubSeq(seqs, 1, c) \in Seq(Seq(X))
    BY <1>3
  <2> QED
    BY <2>1, FlattenType
<1>4. ASSUME NEW c \in 0..N, c < N PROVE seqs[c + 1] \in V /\ Joins(Made(c + 1), Made(c), seqs[c + 1])
  <2> DEFINE p == SubSeq(seqs, 1, c)
             x == seqs[c + 1]
             q == SubSeq(seqs, 1, c + 1)
  <2>1. p \in Seq(Seq(X)) /\ x \in Seq(X) /\ q = Append(p, x)
    BY <1>4, PrefixStep
  <2> HIDE DEF p, x, q
  <2>2. FlattenSeq(q) = FlattenSeq(p) \o x
    BY <2>1, FlattenAppend
  <2> QED
    BY <2>1, <2>2 DEF Joins, p, x, q
<1>5. Made(0) = <<>>
  <2>1. SubSeq(seqs, 1, 0) = <<>>
    BY SubSeqEmpty
  <2> QED
    BY <2>1, FlattenEmpty
<1>6. Made(N) = FlattenSeq(seqs)
  <2>1. SubSeq(seqs, 1, N) = seqs
    BY <1>1, SubSeqFull
  <2> QED
    BY <2>1
<1> HIDE DEF N, V, Made
<1>7. 0 \in S
  <2>1. onward[0] \in V /\ 0 \in 0..N
    BY <1>1, <1>2
  <2>2. <<>> \o onward[0] = onward[0]
    BY <2>1, ConcatEmptySeq DEF V
  <2> QED
    BY <1>5, <2>1, <2>2 DEF Joins
<1>8. ASSUME NEW c \in 0..N, c < N, c \in S PROVE c + 1 \in S
  <2>1. c \in 0..(N - 1) /\ c + 1 \in 0..N
    BY <1>1, <1>8
  <2> DEFINE a == Made(c)
             b == seqs[c + 1]
             r == onward[c + 1]
             ab == Made(c + 1)
             bc == onward[c]
             u == onward[0]
  <2>2. a \in V /\ b \in V /\ r \in V
    BY <1>2, <1>3, <1>4, <1>8, <2>1
  <2>3. Joins(ab, a, b) /\ Joins(bc, b, r) /\ Joins(u, a, bc)
    BY <1>2, <1>4, <1>8, <2>1
  <2> HIDE DEF a, b, r, ab, bc, u
  <2>4. Joins(u, ab, r)
    BY <2>2, <2>3, JoinsAssociate DEF V
  <2> QED
    BY <2>1, <2>4 DEF ab, r, u
<1> HIDE DEF S
<1>9. N \in S
  <2>1. \A c \in 0..N : c \in S
    BY <1>1, <1>7, <1>8, UpTo
  <2> QED
    BY <1>1, <2>1
<1>10. Joins(onward[0], FlattenSeq(seqs), <<>>) /\ FlattenSeq(seqs) \in V
  BY <1>1, <1>2, <1>3, <1>6, <1>9 DEF S
<1>11. FlattenSeq(seqs) \o <<>> = FlattenSeq(seqs)
  BY <1>10, ConcatEmptySeq DEF V
<1> QED
  BY <1>10, <1>11 DEF Joins

\* Of sequences that are all empty but one, that one is left.
LEMMA FlattenAlone ==
  ASSUME NEW X, NEW seqs \in Seq(Seq(X)), NEW j \in 0..Len(seqs),
         \A i \in 1..Len(seqs) : i # j => seqs[i] = <<>>
  PROVE  FlattenSeq(seqs) = IF j = 0 THEN <<>> ELSE seqs[j]
<1> DEFINE N == Len(seqs)
           V == Seq(X)
           alone == IF j = 0 THEN <<>> ELSE seqs[j]
           onward == [c \in 0..N |-> IF c < j THEN alone ELSE <<>>]
<1>1. N \in Nat /\ <<>> \in V /\ alone \in V /\ \A i \in 1..N : seqs[i] \in V
  OBVIOUS
<1>2. \A v \in V : Joins(v, v, <<>>) /\ Joins(v, <<>>, v)
  BY ConcatEmptySeq DEF Joins
<1>3. (j = 0 => alone = <<>>) /\ (j # 0 => alone = seqs[j])
  OBVIOUS
<1> HIDE DEF N, V, alone
<1>4. onward \in [0..N -> V] /\ onward[N] = <<>>
  <2>1. N \in 0..N /\ ~(N < j)
    BY <1>1 DEF N
  <2> QED
    BY <1>1, <2>1
<1>5. ASSUME NEW c \in 0..(N - 1) PROVE Joins(onward[c], seqs[c + 1], onward[c + 1])
  <2>1. c \in 0..N /\ c + 1 \in 1..N /\ c + 1 \in 0..N /\ c + 1 # 0 /\ j \in 0..N
    BY <1>1 DEF N
  <2>2. /\ onward[c] = IF c < j THEN alone ELSE <<>>
        /\ onward[c + 1] = IF c + 1 < j THEN alone ELSE <<>>
    BY <2>1
  <2> HIDE DEF onward
  <2>3. CASE c + 1 = j
    BY <1>1, <1>2, <1>3, <2>1, <2>2, <2>3
  <2>4. CASE c + 1 # j
    <3>1. seqs[c + 1] = <<>> /\ (c < j <=> c + 1 < j)
      BY <2>1, <2>4 DEF N
    <3> QED
      BY <1>1, <1>2, <2>2, <3>1
  <2> QED
    BY <2>3, <2>4
<1> HIDE DEF onward
<1>6. Onwards(onward, seqs, X)
  BY <1>4, <1>5 DEF Onwards, N, V
<1>7. FlattenSeq(seqs) = onward[0]
  BY <1>6, FlattenOnward
<1>8. onward[0] = alone
  <2>1. 0 \in 0..N /\ j \in 0..N
    BY <1>1 DEF N
  <2> QED
    BY <1>3, <2>1 DEF onward
<1> QED
  BY <1>7, <1>8 DEF alone
\* There is only one increasing enumeration of some numbers.
Increases(e, S) ==
    /\ Len(e) \in Nat /\ \A k \in 1..Len(e) : e[k] \in S /\ e[k] \in Nat
    /\ \A i, j \in 1..Len(e) : i < j => e[i] < e[j]
    /\ \A a \in S : \E k \in 1..Len(e) : e[k] = a

LEMMA IncreasingAgree ==
  ASSUME NEW S, NEW e, Increases(e, S), NEW o, Increases(o, S)
  PROVE  Len(o) <= Len(e) /\ \A k \in 1..Len(o) : e[k] = o[k]
<1> DEFINE N == Len(o)
           M == Len(e)
           T == {n \in 0..N : n <= M /\ \A k \in 1..n : e[k] = o[k]}
<1>1. /\ N \in Nat /\ M \in Nat
      /\ \A k \in 1..N : o[k] \in S /\ o[k] \in Nat
      /\ \A k \in 1..M : e[k] \in S /\ e[k] \in Nat
      /\ \A i, j \in 1..N : i < j => o[i] < o[j]
      /\ \A i, j \in 1..M : i < j => e[i] < e[j]
      /\ \A a \in S : (\E k \in 1..N : o[k] = a) /\ (\E k \in 1..M : e[k] = a)
  BY DEF Increases
<1> HIDE DEF N, M
<1>2. 0 \in T
  BY <1>1
<1>3. ASSUME NEW n \in 0..N, n < N, n \in T PROVE n + 1 \in T
  <2>1. n + 1 \in 1..N /\ n <= M /\ \A k \in 1..n : e[k] = o[k] /\ k \in 1..N /\ k \in 1..M /\ k < n + 1
    BY <1>1, <1>3
  <2>2. PICK j \in 1..M : e[j] = o[n + 1]
    BY <1>1, <2>1
  <2>3. ~(j \in 1..n)
    <3>1. SUFFICES ASSUME j \in 1..n PROVE FALSE
      OBVIOUS
    <3>2. o[j] < o[n + 1] /\ e[j] = o[j] /\ o[j] \in Nat
      BY <1>1, <2>1, <3>1
    <3> QED
      BY <1>1, <2>1, <2>2, <3>2
  <2>4. n + 1 \in 1..M /\ n + 1 <= j
    BY <1>1, <1>3, <2>2, <2>3
  <2>5. PICK m \in 1..N : o[m] = e[n + 1]
    BY <1>1, <2>4
  <2>6. ~(m \in 1..n)
    <3>1. SUFFICES ASSUME m \in 1..n PROVE FALSE
      OBVIOUS
    <3>2. e[m] < e[n + 1] /\ e[m] = o[m] /\ e[m] \in Nat
      BY <1>1, <2>1, <2>4, <3>1
    <3> QED
      BY <1>1, <2>4, <2>5, <3>2
  <2>7. n + 1 <= m
    BY <1>1, <1>3, <2>5, <2>6
  <2>8. e[n + 1] <= e[j]
    BY <1>1, <2>2, <2>4
  <2>9. o[n + 1] <= o[m]
    BY <1>1, <2>1, <2>5, <2>7
  <2>10. e[n + 1] = o[n + 1]
    <3>1. e[n + 1] \in Nat /\ o[n + 1] \in Nat
      BY <1>1, <2>1, <2>4
    <3> QED
      BY <2>2, <2>5, <2>8, <2>9, <3>1
  <2>11. \A k \in 1..(n + 1) : k \in 1..n \/ k = n + 1
    BY <1>3
  <2>12. \A k \in 1..(n + 1) : e[k] = o[k]
    BY <2>1, <2>10, <2>11
  <2> QED
    BY <1>1, <2>1, <2>4, <2>12
<1> HIDE DEF T
<1>4. \A n \in 0..N : n \in T
  BY <1>1, <1>2, <1>3, UpTo
<1>5. N \in T
  BY <1>1, <1>4
<1> QED
  BY <1>5 DEF T, N, M

\* Equal as sequences.
LEMMA OneIncreasing ==
  ASSUME NEW S, NEW X, NEW e \in Seq(X), Increases(e, S), NEW o \in Seq(X), Increases(o, S)
  PROVE  o = e
<1>1. Len(o) <= Len(e) /\ \A k \in 1..Len(o) : e[k] = o[k]
  BY IncreasingAgree
<1>2. Len(e) <= Len(o)
  BY IncreasingAgree
<1>3. Len(o) = Len(e)
  BY <1>1, <1>2
<1> QED
  BY <1>1, <1>3, SeqEqual
=============================================================================
