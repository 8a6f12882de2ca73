----------------------------- MODULE OrderLemmas -----------------------------
(***************************************************************************)
(* Largest and smallest elements of bounded sets of naturals: what Max and *)
(* Min of FiniteSetsExt return.  The elements of sequences and their       *)
(* order: what Append, concatenation, Tail and Among do with them.         *)
(***************************************************************************)
EXTENDS Integers, FiniteSetsExt, Sequencing, SequenceTheorems, WellFoundedInduction, TLAPS

\* A nonempty set of naturals has a least element.
LEMMA LeastExists ==
    ASSUME NEW S, S \subseteq Nat, S # {}
    PROVE  \E x \in S : \A y \in S : x <= y
<1> DEFINE Less == OpToRel(<, Nat)
<1>1. \E x \in S : \A y \in S : ~ (<<y, x>> \in Less)
    <2>1. IsWellFoundedOn(Less, Nat)
        BY NatLessThanWellFounded
    <2>. HIDE DEF Less
    <2>. QED BY <2>1, WFMin
<1>2. ASSUME NEW x \in S, NEW y \in S, ~ (<<y, x>> \in Less)
      PROVE  x <= y
    <2>1. <<y, x>> \in Nat \X Nat
        OBVIOUS
    <2>2. ~(y < x)
        BY <1>2, <2>1 DEF OpToRel
    <2>. QED BY <2>2
<1>. QED BY <1>1, <1>2

\* A nonempty set of naturals up to n has a greatest element.
LEMMA GreatestExists ==
    ASSUME NEW n \in Nat, NEW S, S \subseteq 0..n, S # {}
    PROVE  \E x \in S : \A y \in S : y <= x
<1> DEFINE Mirror == {n - s : s \in S}
<1>1. Mirror \subseteq Nat /\ Mirror # {}
    <2>1. \A s \in S : n - s \in Nat
        OBVIOUS
    <2>2. PICK s \in S : TRUE
        OBVIOUS
    <2>3. n - s \in Mirror
        OBVIOUS
    <2>. QED BY <2>1, <2>3
<1>2. PICK m \in Mirror : \A k \in Mirror : m <= k
    BY <1>1, LeastExists
<1>3. PICK x \in S : m = n - x
    BY <1>2
<1>4. \A y \in S : y <= x
    BY <1>2, <1>3
<1>. QED BY <1>4

\* Max returns the greatest element.
LEMMA MaxFacts ==
    ASSUME NEW n \in Nat, NEW S, S \subseteq 0..n, S # {}
    PROVE  Max(S) \in S /\ \A y \in S : y <= Max(S)
BY GreatestExists DEF Max

\* Min returns the least element.
LEMMA MinFacts ==
    ASSUME NEW S, S \subseteq Nat, S # {}
    PROVE  Min(S) \in S /\ \A y \in S : Min(S) <= y
BY LeastExists DEF Min

-----------------------------------------------------------------------------
(* Sequences *)

\* The elements of a sequence.
LEMMA Elements ==
    ASSUME NEW T, NEW s \in Seq(T)
    PROVE  /\ Len(s) \in Nat /\ DOMAIN s = 1..Len(s)
           /\ Range(s) \subseteq T
           /\ \A i \in 1..Len(s) : s[i] \in Range(s)
           /\ \A x \in Range(s) : \E i \in 1..Len(s) : s[i] = x
           /\ s = <<>> <=> Range(s) = {}
           /\ s # <<>> => Len(s) > 0
<1>1. /\ Len(s) \in Nat /\ DOMAIN s = 1..Len(s)
      /\ s # <<>> => Len(s) > 0
      /\ s = <<>> => DOMAIN s = {}
    BY LenProperties, EmptySeq
<1>2. Range(s) = {s[i] : i \in 1..Len(s)}
    BY <1>1 DEF Range
<1>3. \A i \in 1..Len(s) : s[i] \in T
    BY ElementOfSeq
<1>4. s # <<>> => s[1] \in Range(s)
    BY <1>1, <1>2
<1> QED BY <1>1, <1>2, <1>3, <1>4

LEMMA AppendElements ==
    ASSUME NEW T, NEW s \in Seq(T), NEW x \in T
    PROVE  /\ Append(s, x) \in Seq(T)
           /\ Range(Append(s, x)) = Range(s) \cup {x}
           /\ Append(s, x)[1] = IF s = <<>> THEN x ELSE s[1]
           /\ Append(s, x) # <<>>
           /\ IsInjective(s) /\ x \notin Range(s) => IsInjective(Append(s, x))
<1> DEFINE t == Append(s, x)
<1>1. /\ t \in Seq(T) /\ Len(s) \in Nat /\ DOMAIN s = 1..Len(s) /\ DOMAIN t = 1..(Len(s) + 1)
      /\ t[Len(s) + 1] = x /\ t # <<>>
      /\ \A i \in 1..Len(s) : t[i] = s[i]
    BY AppendProperties, LenProperties
<1> HIDE DEF t
<1>2. Range(s) = {s[i] : i \in 1..Len(s)} /\ Range(t) = {t[i] : i \in 1..(Len(s) + 1)}
    BY <1>1 DEF Range
<1>3. Range(t) = Range(s) \cup {x}
    <2>1. 1..(Len(s) + 1) = (1..Len(s)) \cup {Len(s) + 1}
        BY <1>1
    <2> QED BY <1>1, <1>2, <2>1
<1>4. t[1] = IF s = <<>> THEN x ELSE s[1]
    <2>1. s = <<>> => Len(s) = 0
        BY EmptySeq
    <2>2. s # <<>> => 1 \in 1..Len(s)
        BY <1>1, EmptySeq
    <2> QED BY <1>1, <2>1, <2>2
<1>5. ASSUME IsInjective(s), x \notin Range(s) PROVE IsInjective(t)
    <2> SUFFICES ASSUME NEW i \in 1..(Len(s) + 1), NEW j \in 1..(Len(s) + 1), t[i] = t[j] PROVE i = j
        BY <1>1 DEF IsInjective
    <2>1. \A k \in 1..Len(s) : t[k] # x
        BY <1>1, <1>2, <1>5
    <2>2. CASE i \in 1..Len(s) /\ j \in 1..Len(s)
        BY <1>1, <1>5, <2>2 DEF IsInjective
    <2>3. CASE ~(i \in 1..Len(s) /\ j \in 1..Len(s))
        BY <1>1, <2>1, <2>3
    <2> QED BY <2>2, <2>3
<1> QED BY <1>1, <1>3, <1>4, <1>5 DEF t

LEMMA ConcatElements ==
    ASSUME NEW T, NEW s \in Seq(T), NEW u \in Seq(T)
    PROVE  /\ s \o u \in Seq(T)
           /\ Range(s \o u) = Range(s) \cup Range(u)
           /\ IsInjective(s) /\ IsInjective(u) /\ Range(s) \cap Range(u) = {} => IsInjective(s \o u)
<1> DEFINE t == s \o u
           m == Len(s)
           n == Len(u)
<1>1. t \in Seq(T) /\ Len(t) = m + n
      /\ \A i \in 1..(m + n) : t[i] = IF i <= m THEN s[i] ELSE u[i - m]
    BY ConcatProperties
<1>2. m \in Nat /\ n \in Nat /\ DOMAIN s = 1..m /\ DOMAIN u = 1..n
    BY LenProperties
<1> HIDE DEF t
<1>3. DOMAIN t = 1..(m + n)
    BY <1>1, LenProperties
<1> HIDE DEF m, n
<1>4. /\ \A i \in 1..m : i \in 1..(m + n) /\ t[i] = s[i]
      /\ \A i \in 1..n : i + m \in 1..(m + n) /\ t[i + m] = u[i]
      /\ \A i \in 1..(m + n) : \/ i \in 1..m /\ t[i] = s[i]
                               \/ i - m \in 1..n /\ t[i] = u[i - m]
    BY <1>1, <1>2
<1>5. /\ Range(s) = {s[i] : i \in 1..m} /\ Range(u) = {u[i] : i \in 1..n}
      /\ Range(t) = {t[i] : i \in 1..(m + n)}
    BY <1>2, <1>3 DEF Range
<1>6. Range(t) = Range(s) \cup Range(u)
    <2>1. Range(t) \subseteq Range(s) \cup Range(u)
        BY <1>4, <1>5
    <2>2. Range(s) \subseteq Range(t)
        BY <1>4, <1>5
    <2>3. Range(u) \subseteq Range(t)
        BY <1>4, <1>5
    <2> QED BY <2>1, <2>2, <2>3
<1>7. ASSUME IsInjective(s), IsInjective(u), Range(s) \cap Range(u) = {} PROVE IsInjective(t)
    <2> SUFFICES ASSUME NEW i \in 1..(m + n), NEW j \in 1..(m + n), t[i] = t[j] PROVE i = j
        BY <1>3 DEF IsInjective
    <2>1. \A a, b \in 1..m : s[a] = s[b] => a = b
        BY <1>2, <1>7 DEF IsInjective
    <2>2. \A a, b \in 1..n : u[a] = u[b] => a = b
        BY <1>2, <1>7 DEF IsInjective
    <2>3. \A a \in 1..m, b \in 1..n : s[a] # u[b]
        BY <1>5, <1>7
    <2>4. CASE i \in 1..m /\ t[i] = s[i]
        <3>1. CASE j \in 1..m /\ t[j] = s[j]
            BY <2>1, <2>4, <3>1
        <3>2. CASE j - m \in 1..n /\ t[j] = u[j - m]
            BY <2>3, <2>4, <3>2
        <3> QED BY <1>4, <3>1, <3>2
    <2>5. CASE i - m \in 1..n /\ t[i] = u[i - m]
        <3>1. CASE j \in 1..m /\ t[j] = s[j]
            BY <2>3, <2>5, <3>1
        <3>2. CASE j - m \in 1..n /\ t[j] = u[j - m]
            <4>1. i - m = j - m
                BY <2>2, <2>5, <3>2
            <4> QED BY <1>2, <4>1
        <3> QED BY <1>4, <3>1, <3>2
    <2> QED BY <1>4, <2>4, <2>5
<1> QED BY <1>1, <1>6, <1>7 DEF t

LEMMA TailElements ==
    ASSUME NEW T, NEW s \in Seq(T), s # <<>>, IsInjective(s)
    PROVE  /\ Tail(s) \in Seq(T) /\ Head(s) \in Range(s) /\ Head(s) = s[1]
           /\ Range(Tail(s)) = Range(s) \ {Head(s)}
           /\ IsInjective(Tail(s))
<1> DEFINE t == Tail(s)
           m == Len(s)
<1>1. /\ t \in Seq(T) /\ m \in Nat /\ m > 0 /\ DOMAIN s = 1..m /\ Head(s) = s[1]
      /\ DOMAIN t = 1..(m - 1)
      /\ \A i \in 1..(m - 1) : t[i] = s[i + 1]
    BY HeadTailProperties, LenProperties, EmptySeq
<1> HIDE DEF t, m
<1>2. Range(s) = {s[i] : i \in 1..m} /\ Range(t) = {t[i] : i \in 1..(m - 1)}
    BY <1>1 DEF Range
<1>3. /\ \A i \in 1..(m - 1) : i + 1 \in 1..m /\ i + 1 # 1
      /\ \A i \in 1..m : i = 1 \/ (i - 1 \in 1..(m - 1) /\ (i - 1) + 1 = i)
      /\ 1 \in 1..m
    BY <1>1
<1>4. \A a, b \in 1..m : s[a] = s[b] => a = b
    BY <1>1 DEF IsInjective
<1>5. Range(t) \subseteq Range(s) \ {s[1]}
    BY <1>1, <1>2, <1>3, <1>4
<1>6. ASSUME NEW x \in Range(s) \ {s[1]} PROVE x \in Range(t)
    <2>1. PICK i \in 1..m : x = s[i]
        BY <1>2
    <2>2. i - 1 \in 1..(m - 1) /\ (i - 1) + 1 = i
        BY <1>3, <1>6, <2>1
    <2>3. x = t[i - 1]
        BY <1>1, <2>1, <2>2
    <2> QED BY <1>2, <2>2, <2>3
<1>7. IsInjective(t)
    <2> SUFFICES ASSUME NEW i \in 1..(m - 1), NEW j \in 1..(m - 1), t[i] = t[j] PROVE i = j
        BY <1>1 DEF IsInjective
    <2>1. s[i + 1] = s[j + 1]
        BY <1>1
    <2>2. i + 1 = j + 1
        BY <1>3, <1>4, <2>1
    <2> QED BY <2>2
<1> QED BY <1>1, <1>2, <1>3, <1>5, <1>6, <1>7 DEF t

\* What Among computes, element by element.
IsAmong(f, s, S, n) ==
    f = [i \in 0..n |->
            IF i = 0 THEN <<>>
            ELSE IF s[i] \in S THEN Append(f[i - 1], s[i]) ELSE f[i - 1]]

LEMMA AmongExists ==
    ASSUME NEW s, NEW S, NEW n \in Nat
    PROVE  \E f : IsAmong(f, s, S, n)
<1> DEFINE B == {m \in Nat : ~\E f : IsAmong(f, s, S, m)}
<1>1. ASSUME B # {} PROVE FALSE
    <2>1. PICK m \in B : \A k \in B : m <= k
        BY <1>1, LeastExists
    <2>2. ~\E f : IsAmong(f, s, S, m)
        BY <2>1
    <2>3. CASE m = 0
        <3> DEFINE f == [i \in 0..0 |-> <<>>]
        <3>1. f = [i \in 0..0 |-> IF i = 0 THEN <<>>
                     ELSE IF s[i] \in S THEN Append(f[i - 1], s[i]) ELSE f[i - 1]]
            OBVIOUS
        <3>2. IsAmong(f, s, S, 0)
            BY <3>1 DEF IsAmong
        <3> QED BY <2>2, <2>3, <3>2
    <2>4. CASE m # 0
        <3>1. m \in Nat /\ m - 1 \in Nat /\ m - 1 \notin B
            BY <2>1, <2>4
        <3>2. PICK f : IsAmong(f, s, S, m - 1)
            BY <3>1
        <3> DEFINE last == IF s[m] \in S THEN Append(f[m - 1], s[m]) ELSE f[m - 1]
                   g == [i \in 0..m |-> IF i = m THEN last ELSE f[i]]
        <3>3. \A i \in 0..(m - 1) :
                 f[i] = IF i = 0 THEN <<>>
                        ELSE IF s[i] \in S THEN Append(f[i - 1], s[i]) ELSE f[i - 1]
            BY <3>2 DEF IsAmong
        <3>4. /\ \A i \in 0..(m - 1) : i \in 0..m /\ i # m
              /\ m \in 0..m
              /\ \A i \in 0..m : i # 0 => i - 1 \in 0..(m - 1) /\ i - 1 # m /\ i - 1 \in 0..m
            BY <3>1
        <3>5. /\ \A i \in 0..(m - 1) : g[i] = f[i]
              /\ g[m] = last
            BY <3>4
        <3>6. ASSUME NEW i \in 0..m
              PROVE  g[i] = IF i = 0 THEN <<>>
                            ELSE IF s[i] \in S THEN Append(g[i - 1], s[i]) ELSE g[i - 1]
            <4> HIDE DEF g
            <4>1. i # 0 => g[i - 1] = f[i - 1]
                BY <3>4, <3>5
            <4>2. CASE i = m
                BY <2>4, <3>5, <4>1, <4>2
            <4>3. CASE i # m
                <5>1. i \in 0..(m - 1)
                    BY <3>1, <4>3
                <5>2. g[i] = f[i]
                    BY <3>5, <5>1
                <5> QED BY <3>3, <4>1, <5>1, <5>2
            <4> QED BY <4>2, <4>3
        <3>7. g = [i \in 0..m |-> g[i]]
            OBVIOUS
        <3> HIDE DEF g
        <3>8. IsAmong(g, s, S, m)
            <4>1. [i \in 0..m |-> g[i]] =
                      [i \in 0..m |-> IF i = 0 THEN <<>>
                            ELSE IF s[i] \in S THEN Append(g[i - 1], s[i]) ELSE g[i - 1]]
                BY <3>6
            <4> QED BY <3>7, <4>1 DEF IsAmong
        <3> QED BY <2>2, <3>8
    <2> QED BY <2>3, <2>4
<1> QED BY <1>1

\* Among keeps the elements of a sequence that are in the set, each as often as it is
\* there.
LEMMA AmongFacts ==
    ASSUME NEW T, NEW s \in Seq(T), NEW S
    PROVE  /\ Among(s, S) \in Seq(T)
           /\ Range(Among(s, S)) = Range(s) \cap S
           /\ IsInjective(s) => IsInjective(Among(s, S))
<1> DEFINE n == Len(s)
           f == CHOOSE g : IsAmong(g, s, S, n)
           Good(k) == /\ f[k] \in Seq(T)
                      /\ Range(f[k]) = {s[i] : i \in 1..k} \cap S
                      /\ IsInjective(s) => IsInjective(f[k])
           B == {k \in 0..n : ~Good(k)}
<1>1. n \in Nat /\ DOMAIN s = 1..n /\ Range(s) = {s[i] : i \in 1..n}
    BY LenProperties DEF Range
<1>2. IsAmong(f, s, S, n)
    <2>1. \E g : IsAmong(g, s, S, n)
        BY <1>1, AmongExists
    <2> QED BY <2>1
<1>3. Among(s, S) = f[n]
    BY Zenon DEF Among, IsAmong
<1> HIDE DEF f, n
<1>4. \A k \in 0..n : f[k] = IF k = 0 THEN <<>>
                             ELSE IF s[k] \in S THEN Append(f[k - 1], s[k]) ELSE f[k - 1]
    BY <1>2 DEF IsAmong
<1>5. ASSUME B # {} PROVE FALSE
    <2> HIDE DEF Good
    <2>1. PICK k \in B : \A j \in B : k <= j
        <3>1. B \subseteq Nat
            OBVIOUS
        <3> HIDE DEF B
        <3> QED BY <1>5, <3>1, LeastExists
    <2>2. k \in 0..n /\ ~Good(k) /\ k \in Nat
        BY <1>1, <2>1
    <2>5. \A j \in 0..n : j < k => Good(j)
        BY <1>1, <2>1, <2>2
    <2> USE DEF Good
    <2>3. CASE k = 0
        <3>1. f[k] = <<>>
            BY <1>4, <2>2, <2>3
        <3>2. <<>> \in Seq(T) /\ Range(<<>>) = {} /\ IsInjective(<<>>)
            BY DEF Range, IsInjective
        <3>3. {s[i] : i \in 1..k} = {}
            BY <2>3
        <3> QED BY <2>2, <3>1, <3>2, <3>3
    <2>4. CASE k # 0
        <3> DEFINE j == k - 1
        <3>1. j \in 0..n /\ k \in 1..n /\ j \in Nat /\ k = j + 1 /\ j < k
            BY <1>1, <2>2, <2>4
        <3>2. Good(j)
            <4> HIDE DEF Good
            <4> QED BY <2>5, <3>1
        <3>3. f[k] = IF s[k] \in S THEN Append(f[j], s[k]) ELSE f[j]
            BY <1>4, <2>2, <2>4
        <3> HIDE DEF j
        <3>4. 1..k = (1..j) \cup {k} /\ k \notin 1..j /\ 1..j \subseteq 1..n
            BY <1>1, <2>2, <3>1
        <3>5. {s[i] : i \in 1..k} = {s[i] : i \in 1..j} \cup {s[k]}
            BY <3>4
        <3>6. s[k] \in T
            BY <1>1, <3>1, ElementOfSeq DEF n
        <3>7. IsInjective(s) => s[k] \notin {s[i] : i \in 1..j}
            BY <1>1, <3>1, <3>4 DEF IsInjective
        <3>8. CASE s[k] \in S
            <4>1. f[k] = Append(f[j], s[k])
                BY <3>3, <3>8
            <4>2. /\ f[k] \in Seq(T) /\ Range(f[k]) = Range(f[j]) \cup {s[k]}
                  /\ IsInjective(f[j]) /\ s[k] \notin Range(f[j]) => IsInjective(f[k])
                <5>1. f[j] \in Seq(T)
                    BY <3>2
                <5> QED BY <3>6, <4>1, <5>1, AppendElements
            <4>3. Range(f[k]) = {s[i] : i \in 1..k} \cap S
                BY <3>2, <3>5, <3>8, <4>2
            <4>4. IsInjective(s) => IsInjective(f[k])
                BY <3>2, <3>7, <4>2
            <4> QED BY <2>2, <4>2, <4>3, <4>4
        <3>9. CASE s[k] \notin S
            <4>1. f[k] = f[j]
                BY <3>3, <3>9
            <4>2. {s[i] : i \in 1..k} \cap S = {s[i] : i \in 1..j} \cap S
                BY <3>5, <3>9
            <4> QED BY <2>2, <3>2, <4>1, <4>2
        <3> QED BY <3>8, <3>9
    <2> QED BY <2>3, <2>4
<1>6. Good(n)
    <2>1. n \in 0..n
        BY <1>1
    <2> QED BY <1>5, <2>1
<1> QED BY <1>1, <1>3, <1>6

-----------------------------------------------------------------------------
(* Sequences in order *)

\* A sequence in the order of a rank.
Ascends(s, R) == \A i, j \in 1..Len(s) : i < j => R[s[i]] <= R[s[j]]

LEMMA AppendAscends ==
    ASSUME NEW T, NEW s \in Seq(T), NEW x \in T, NEW R \in [T -> Nat], Ascends(s, R),
           \A y \in Range(s) : R[y] <= R[x]
    PROVE  Ascends(Append(s, x), R)
<1> DEFINE u == Append(s, x)
           m == Len(s)
<1>1. /\ m \in Nat /\ Len(u) = m + 1 /\ u[m + 1] = x
      /\ \A i \in 1..m : u[i] = s[i]
    BY AppendProperties
<1> HIDE DEF u
<1> SUFFICES ASSUME NEW i \in 1..(m + 1), NEW j \in 1..(m + 1), i < j PROVE R[u[i]] <= R[u[j]]
    BY <1>1 DEF Ascends, u
<1>2. i \in 1..m /\ (j \in 1..m \/ j = m + 1)
    BY <1>1
<1>3. s[i] \in Range(s) /\ u[i] = s[i]
    BY <1>1, <1>2, Elements
<1>4. CASE j \in 1..m
    BY <1>1, <1>2, <1>3, <1>4 DEF Ascends
<1>5. CASE j = m + 1
    BY <1>1, <1>3, <1>5
<1> QED BY <1>2, <1>4, <1>5

LEMMA ConcatAscends ==
    ASSUME NEW T, NEW s \in Seq(T), NEW u \in Seq(T), NEW R \in [T -> Nat],
           Ascends(s, R), Ascends(u, R), \A x \in Range(s), y \in Range(u) : R[x] <= R[y]
    PROVE  Ascends(s \o u, R)
<1> DEFINE v == s \o u
           m == Len(s)
           n == Len(u)
<1>1. /\ m \in Nat /\ n \in Nat /\ Len(v) = m + n
      /\ \A i \in 1..(m + n) : v[i] = IF i <= m THEN s[i] ELSE u[i - m]
    BY ConcatProperties, LenProperties
<1> HIDE DEF v, m, n
<1> SUFFICES ASSUME NEW i \in 1..(m + n), NEW j \in 1..(m + n), i < j PROVE R[v[i]] <= R[v[j]]
    BY <1>1 DEF Ascends, v
<1>2. CASE j <= m
    <2>1. i \in 1..m /\ j \in 1..m /\ v[i] = s[i] /\ v[j] = s[j]
        BY <1>1, <1>2
    <2> QED BY <2>1 DEF Ascends, m
<1>3. CASE i > m
    <2>1. i - m \in 1..n /\ j - m \in 1..n /\ i - m < j - m /\ v[i] = u[i - m] /\ v[j] = u[j - m]
        BY <1>1, <1>3
    <2> QED BY <2>1 DEF Ascends, n
<1>4. CASE i <= m /\ j > m
    <2>1. i \in 1..m /\ j - m \in 1..n /\ v[i] = s[i] /\ v[j] = u[j - m]
        BY <1>1, <1>4
    <2>2. s[i] \in Range(s) /\ u[j - m] \in Range(u)
        BY <2>1, Elements DEF m, n
    <2> QED BY <2>1, <2>2
<1> QED BY <1>1, <1>2, <1>3, <1>4

\* Among keeps an order.
LEMMA AmongAscends ==
    ASSUME NEW T, NEW s \in Seq(T), NEW S, NEW R \in [T -> Nat], Ascends(s, R)
    PROVE  Ascends(Among(s, S), R)
<1> DEFINE n == Len(s)
           f == CHOOSE g : IsAmong(g, s, S, n)
           Good(k) == /\ f[k] \in Seq(T)
                      /\ Range(f[k]) \subseteq {s[i] : i \in 1..k}
                      /\ Ascends(f[k], R)
           B == {k \in 0..n : ~Good(k)}
<1>1. n \in Nat /\ DOMAIN s = 1..n
    BY LenProperties
<1>2. IsAmong(f, s, S, n)
    <2>1. \E g : IsAmong(g, s, S, n)
        BY <1>1, AmongExists
    <2> QED BY <2>1
<1>3. Among(s, S) = f[n]
    BY Zenon DEF Among, IsAmong
<1> HIDE DEF f
<1>4. \A k \in 0..n : f[k] = IF k = 0 THEN <<>>
                             ELSE IF s[k] \in S THEN Append(f[k - 1], s[k]) ELSE f[k - 1]
    BY <1>2 DEF IsAmong
<1>5. ASSUME B # {} PROVE FALSE
    <2> HIDE DEF Good
    <2>1. PICK k \in B : \A j \in B : k <= j
        <3>1. B \subseteq Nat
            OBVIOUS
        <3> HIDE DEF B
        <3> QED BY <1>5, <3>1, LeastExists
    <2>2. k \in 0..n /\ ~Good(k) /\ k \in Nat
        BY <1>1, <2>1
    <2>5. \A j \in 0..n : j < k => Good(j)
        BY <1>1, <2>1, <2>2
    <2>3. CASE k = 0
        <3>1. f[k] = <<>>
            BY <1>4, <2>2, <2>3
        <3>2. <<>> \in Seq(T) /\ Range(<<>>) = {} /\ Ascends(<<>>, R)
            BY DEF Range, Ascends
        <3> QED BY <2>2, <3>1, <3>2 DEF Good
    <2>4. CASE k # 0
        <3> DEFINE j == k - 1
        <3>1. j \in 0..n /\ k \in 1..n /\ j \in Nat /\ k = j + 1 /\ j < k
            BY <1>1, <2>2, <2>4
        <3>2. Good(j)
            BY <2>5, <3>1
        <3>3. f[k] = IF s[k] \in S THEN Append(f[j], s[k]) ELSE f[j]
            BY <1>4, <2>2, <2>4
        <3> HIDE DEF j
        <3>4. 1..j \subseteq 1..k /\ k \in 1..k /\ \A i \in 1..j : i \in 1..n /\ i < k
            BY <1>1, <2>2, <3>1
        <3>6. s[k] \in T
            BY <1>1, <3>1, ElementOfSeq
        <3>7. f[j] \in Seq(T) /\ Ascends(f[j], R) /\ Range(f[j]) \subseteq {s[i] : i \in 1..j}
            BY <3>2 DEF Good
        <3>8. CASE s[k] \in S
            <4>1. f[k] = Append(f[j], s[k])
                BY <3>3, <3>8
            <4>2. f[k] \in Seq(T) /\ Range(f[k]) = Range(f[j]) \cup {s[k]}
                BY <3>6, <3>7, <4>1, AppendElements
            <4>3. \A y \in Range(f[j]) : R[y] <= R[s[k]]
                <5> TAKE y \in Range(f[j])
                <5>1. PICK i \in 1..j : y = s[i]
                    BY <3>7
                <5> QED BY <3>1, <3>4, <5>1 DEF Ascends
            <4>4. Ascends(f[k], R)
                <5>1. PICK a \in Seq(T), b \in T : a = f[j] /\ b = s[k]
                    BY <3>6, <3>7
                <5>2. Ascends(a, R) /\ \A y \in Range(a) : R[y] <= R[b]
                    BY <3>7, <4>3, <5>1
                <5>3. Ascends(Append(a, b), R)
                    BY <5>2, AppendAscends
                <5> QED BY <4>1, <5>1, <5>3
            <4>5. Range(f[k]) \subseteq {s[i] : i \in 1..k}
                BY <3>4, <3>7, <4>2
            <4> QED BY <2>2, <4>2, <4>4, <4>5 DEF Good
        <3>9. CASE s[k] \notin S
            <4>1. f[k] = f[j]
                BY <3>3, <3>9
            <4>2. Range(f[k]) \subseteq {s[i] : i \in 1..k}
                BY <3>4, <3>7, <4>1
            <4> QED BY <2>2, <3>7, <4>1, <4>2 DEF Good
        <3> QED BY <3>8, <3>9
    <2> QED BY <2>3, <2>4
<1>6. Good(n)
    <2>1. n \in 0..n
        BY <1>1
    <2> QED BY <1>5, <2>1
<1> QED BY <1>1, <1>3, <1>6

\* The first element of a sequence in order has the least rank.
LEMMA FirstIsLeast ==
    ASSUME NEW T, NEW s \in Seq(T), s # <<>>, NEW R \in [T -> Nat], Ascends(s, R)
    PROVE  s[1] \in Range(s) /\ s[1] \in T /\ \A x \in Range(s) : R[s[1]] <= R[x]
<1>1. Len(s) \in Nat /\ 1 \in 1..Len(s)
    BY EmptySeq, LenProperties
<1>2. s[1] \in T /\ s[1] \in Range(s)
    BY <1>1, Elements
<1>3. ASSUME NEW x \in Range(s) PROVE R[s[1]] <= R[x]
    <2>1. PICK i \in 1..Len(s) : s[i] = x
        BY Elements
    <2>2. CASE i = 1
        BY <1>2, <2>1, <2>2
    <2>3. CASE i # 1
        BY <1>1, <2>1, <2>3 DEF Ascends
    <2> QED BY <2>2, <2>3
<1> QED BY <1>2, <1>3

LEMMA AscendsToo ==
    ASSUME NEW T, NEW s \in Seq(T), NEW R, NEW Q, Ascends(s, R),
           \A x, y \in Range(s) : R[x] <= R[y] => Q[x] <= Q[y]
    PROVE  Ascends(s, Q)
<1>1. \A i \in 1..Len(s) : s[i] \in Range(s)
    BY Elements
<1> QED BY <1>1 DEF Ascends

LEMMA AscendsInOneRank ==
    ASSUME NEW T, NEW s \in Seq(T), NEW R \in [T -> Nat], \A x, y \in Range(s) : R[x] = R[y]
    PROVE  Ascends(s, R)
<1>1. \A i \in 1..Len(s) : s[i] \in Range(s) /\ s[i] \in T
    BY Elements
<1>2. \A i \in 1..Len(s) : R[s[i]] \in Nat
    BY <1>1
<1> SUFFICES ASSUME NEW i \in 1..Len(s), NEW j \in 1..Len(s) PROVE R[s[i]] <= R[s[j]]
    BY DEF Ascends
<1>3. R[s[i]] = R[s[j]]
    BY <1>1
<1> QED BY <1>2, <1>3
=============================================================================
