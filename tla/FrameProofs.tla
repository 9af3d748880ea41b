---------------------------- MODULE FrameProofs ----------------------------
(***************************************************************************)
(* Proofs about key frames and time codes: where a primitive may differ    *)
(* from one time code to the next, which mesh a source is at a time code,  *)
(* and that bringing a primitive to a time code makes it that mesh.        *)
(***************************************************************************)
EXTENDS MeshPipeline, SetFacts, SequenceTheorems, TLAPS

-----------------------------------------------------------------------------
(* Sequences of anything, and what flattening keeps of a sequence of them. *)

\* A sequence of whatever it holds.
IsSeq(s) == s \in Seq({s[j] : j \in DOMAIN s})

\* A sequence over any set is a sequence.
LEMMA SeqIsSeq ==
  ASSUME NEW S, NEW s \in Seq(S)
  PROVE  IsSeq(s) /\ Len(s) \in Nat /\ DOMAIN s = 1 .. Len(s)
  <1> DEFINE n == Len(s)
             T == {s[j] : j \in DOMAIN s}
  <1>1. n \in Nat /\ DOMAIN s = 1 .. n /\ s = [j \in 1 .. n |-> s[j]]
    OBVIOUS
  <1>2. s \in [1 .. n -> T]
    BY <1>1
  <1>3. [1 .. n -> T] \subseteq Seq(T)
    BY <1>1
  <1> QED  BY <1>1, <1>2, <1>3 DEF IsSeq

\* A sequence over a set is one over any larger set.
LEMMA SeqWiden ==
  ASSUME NEW S, NEW T, S \subseteq T, NEW s \in Seq(S)
  PROVE  s \in Seq(T)
  OBVIOUS

\* What an append does.
LEMMA AppendAny ==
  ASSUME NEW s, IsSeq(s), NEW v
  PROVE  LET t == Append(s, v) IN
         /\ IsSeq(t) /\ Len(s) \in Nat /\ Len(t) = Len(s) + 1
         /\ DOMAIN s = 1 .. Len(s) /\ DOMAIN t = 1 .. Len(s) + 1
         /\ \A j \in 1 .. Len(s) : t[j] = s[j]
         /\ t[Len(s) + 1] = v
  <1> DEFINE T == {s[j] : j \in DOMAIN s}
             U == T \cup {v}
             t == Append(s, v)
  <1>1. s \in Seq(U) /\ v \in U
    <2>1. s \in Seq(T)
      BY DEF IsSeq
    <2>2. T \subseteq U
      OBVIOUS
    <2> HIDE DEF T, U
    <2>3. s \in Seq(U)
      BY <2>1, <2>2
    <2> QED  BY <2>3 DEF U
  <1> HIDE DEF T, U
  <1>2. /\ t \in Seq(U) /\ Len(t) = Len(s) + 1
        /\ \A j \in 1 .. Len(s) : t[j] = s[j]
        /\ t[Len(s) + 1] = v
    BY <1>1, AppendProperties
  <1>3. Len(s) \in Nat /\ DOMAIN s = 1 .. Len(s)
    BY <1>1, SeqIsSeq
  <1>4. IsSeq(t) /\ DOMAIN t = 1 .. Len(t)
    BY <1>2, SeqIsSeq
  <1> HIDE DEF t
  <1> QED  BY <1>2, <1>3, <1>4 DEF t

\* Two sequences, one after the other, ...
LEMMA ConcatIs ==
  ASSUME NEW S, NEW a \in Seq(S), NEW b \in Seq(S)
  PROVE  /\ a \o b \in Seq(S) /\ Len(a \o b) = Len(a) + Len(b)
         /\ Len(a) \in Nat /\ Len(b) \in Nat
         /\ \A i \in 1 .. Len(a) : (a \o b)[i] = a[i]
         /\ \A i \in 1 .. Len(b) : (a \o b)[Len(a) + i] = b[i]
  OBVIOUS

\* ... have the entries of both.
LEMMA ToSetConcat ==
  ASSUME NEW S, NEW a \in Seq(S), NEW b \in Seq(S)
  PROVE  a \o b \in Seq(S) /\ ToSet(a \o b) = ToSet(a) \cup ToSet(b)
  <1> DEFINE m == Len(a)
             n == Len(b)
             c == a \o b
  <1>1. /\ m \in Nat /\ n \in Nat /\ DOMAIN a = 1 .. m /\ DOMAIN b = 1 .. n
        /\ c \in Seq(S) /\ DOMAIN c = 1 .. m + n
        /\ \A i \in 1 .. m : c[i] = a[i]
        /\ \A i \in 1 .. n : c[m + i] = b[i]
    OBVIOUS
  <1> HIDE DEF m, n, c
  <1>2. \A i \in 1 .. m : i \in DOMAIN c
    BY <1>1
  <1>3. \A i \in 1 .. n : m + i \in DOMAIN c
    BY <1>1
  <1>4. \A i \in DOMAIN c : i \in 1 .. m \/ (i - m \in 1 .. n /\ i = m + (i - m))
    BY <1>1
  <1>5. ToSet(c) = ToSet(a) \cup ToSet(b)
    <2>1. ASSUME NEW i \in DOMAIN c  PROVE c[i] \in ToSet(a) \cup ToSet(b)
      BY <1>1, <1>4 DEF ToSet
    <2>2. ASSUME NEW i \in DOMAIN a  PROVE a[i] \in ToSet(c)
      BY <1>1, <1>2 DEF ToSet
    <2>3. ASSUME NEW i \in DOMAIN b  PROVE b[i] \in ToSet(c)
      BY <1>1, <1>3 DEF ToSet
    <2> QED  BY <2>1, <2>2, <2>3 DEF ToSet
  <1> QED  BY <1>1, <1>5 DEF c

\* The function that FlattenSeq defines by recursion, on the first k parts.
Flattens(g, ss, k) ==
  g = [i \in 1 .. k |-> IF i = 1 THEN ss[i] ELSE g[i - 1] \o ss[i]]

\* A set of numbers has a smallest one: of the intervals up to its members, the one that
\* contains no other.
LEMMA SmallestNumber ==
  ASSUME NEW B, B \subseteq Nat, B # {}
  PROVE  \E n \in B : \A m \in B : n <= m
  <1>1. PICK n \in B : n \in Nat
    OBVIOUS
  <1> DEFINE C == {1 .. m : m \in {x \in B : x <= n}}
             I == 1 .. n
  <1>2. IsFiniteSet(I)
    BY <1>1, FS_Interval
  <1>3. C \subseteq SUBSET I /\ C # {}
    BY <1>1
  <1>4. \E T \in C : \A U \in C : ~(U \subseteq T /\ U # T)
    <2> HIDE DEF C, I
    <2> QED  BY <1>2, <1>3, SmallestSubset
  <1>5. PICK k \in {x \in B : x <= n} : \A U \in C : ~(U \subseteq 1 .. k /\ U # 1 .. k)
    BY <1>4
  <1>6. ASSUME NEW m \in B, ~(k <= m)  PROVE FALSE
    <2>1. k \in Nat /\ m \in Nat /\ m < k /\ m <= n
      BY <1>1, <1>5, <1>6
    <2>2. 1 .. m \in C
      BY <2>1
    <2>3. 1 .. m \subseteq 1 .. k /\ k \in 1 .. k /\ k \notin 1 .. m
      BY <2>1
    <2> QED  BY <1>5, <2>2, <2>3
  <1> QED  BY <1>5, <1>6

\* The recursion that flattens the first k parts has a solution.
LEMMA FlattensExists ==
  ASSUME NEW ss, NEW n \in Nat
  PROVE  \E g : Flattens(g, ss, n)
  <1> DEFINE B == {k \in Nat : ~ \E g : Flattens(g, ss, k)}
  <1> SUFFICES ASSUME B # {}  PROVE FALSE
    OBVIOUS
  <1>1. PICK k \in B : \A m \in B : k <= m
    BY SmallestNumber
  <1>2. CASE k = 0
    <2>1. Flattens([i \in 1 .. 0 |-> ss[i]], ss, 0)
      BY DEF Flattens
    <2> QED  BY <1>1, <1>2, <2>1
  <1>3. CASE k # 0
    <2>1. k \in Nat /\ k - 1 \in Nat /\ k - 1 \notin B
      BY <1>1, <1>3
    <2>2. PICK g : Flattens(g, ss, k - 1)
      BY <2>1
    <2> DEFINE h == [i \in 1 .. k |-> IF i = 1 THEN ss[i] ELSE g[i - 1] \o ss[i]]
    <2>3. ASSUME NEW i \in 1 .. k - 1  PROVE h[i] = g[i]
      <3>1. g[i] = IF i = 1 THEN ss[i] ELSE g[i - 1] \o ss[i]
        BY <2>2 DEF Flattens
      <3> QED  BY <2>1, <3>1
    <2>4. \A i \in 1 .. k : i # 1 => i - 1 \in 1 .. k - 1
      BY <2>1
    <2>5. h = [i \in 1 .. k |-> IF i = 1 THEN ss[i] ELSE h[i - 1] \o ss[i]]
      <3>1. \A i \in 1 .. k : i # 1 => h[i - 1] = g[i - 1]
        BY <2>3, <2>4
      <3> QED  BY <3>1
    <2>6. Flattens(h, ss, k)
      BY <2>5 DEF Flattens
    <2> QED  BY <1>1, <2>6
  <1> QED  BY <1>2, <1>3

\* The sums of the first numbers of a sequence grow, and every number below the last sum is
\* passed by one of them.
LEMMA SumToIs ==
  ASSUME NEW n \in Nat, NEW f, \A i \in 1 .. n : f[i] \in Nat
  PROVE  /\ SumTo(f, 0) = 0
         /\ \A i \in 0 .. n : SumTo(f, i) \in Nat
         /\ \A i \in 1 .. n : SumTo(f, i) = SumTo(f, i - 1) + f[i]
  <1>1. ASSUME NEW i  PROVE SumTo(f, i) = Total(f, 1 .. i)
    BY DEF SumTo, Total, MapThenSumSet, MapThenFoldSet
  <1>2. SumTo(f, 0) = 0
    <2>1. 1 .. 0 = {}
      OBVIOUS
    <2> QED  BY <1>1, <2>1, SumEmpty
  <1>3. ASSUME NEW i \in 0 .. n  PROVE SumTo(f, i) \in Nat
    <2>1. IsFiniteSet(1 .. i) /\ \A j \in 1 .. i : f[j] \in Nat
      BY FS_Interval
    <2> QED  BY <1>1, <2>1, SumNonNegative
  <1>4. ASSUME NEW i \in 1 .. n  PROVE SumTo(f, i) = SumTo(f, i - 1) + f[i]
    <2>1. /\ 1 .. i = 1 .. (i - 1) \cup {i} /\ i \notin 1 .. (i - 1)
          /\ \A j \in 1 .. (i - 1) \cup {i} : f[j] \in Int
      OBVIOUS
    <2>2. IsFiniteSet(1 .. (i - 1))
      BY FS_Interval
    <2> DEFINE T == 1 .. (i - 1)
    <2>3. Total(f, T \cup {i}) = Total(f, T) + f[i]
      <3> HIDE DEF T
      <3> QED  BY <2>1, <2>2, SumAdd DEF T
    <2> QED  BY <1>1, <2>1, <2>3
  <1> QED  BY <1>2, <1>3, <1>4

\* ... and they grow.
LEMMA SumToGrows ==
  ASSUME NEW n \in Nat, NEW f, \A i \in 1 .. n : f[i] \in Nat
  PROVE  /\ \A i, j \in 0 .. n : i <= j => SumTo(f, i) <= SumTo(f, j)
         /\ \A x \in 1 .. SumTo(f, n) : \E i \in 1 .. n : \E d \in 1 .. f[i] :
              x = SumTo(f, i - 1) + d
  <1> DEFINE g == [i \in 0 .. n |-> SumTo(f, i)]
  <1>1. /\ g[0] = 0 /\ \A i \in 0 .. n : g[i] \in Nat /\ g[i] = SumTo(f, i)
        /\ \A i \in 1 .. n : g[i] = g[i - 1] + f[i] /\ i - 1 \in 0 .. n
    <2>1. SumTo(f, 0) = 0 /\ \A i \in 0 .. n : SumTo(f, i) \in Nat
      BY SumToIs
    <2>2. \A i \in 1 .. n : SumTo(f, i) = SumTo(f, i - 1) + f[i]
      BY SumToIs
    <2>3. 0 \in 0 .. n /\ \A i \in 1 .. n : i \in 0 .. n /\ i - 1 \in 0 .. n
      OBVIOUS
    <2>4. \A i \in 0 .. n : g[i] = SumTo(f, i)
      OBVIOUS
    <2> HIDE DEF g
    <2> QED  BY <2>1, <2>2, <2>3, <2>4
  <1> HIDE DEF g
  <1>2. ASSUME NEW i \in 0 .. n
        PROVE  \A j \in 0 .. n : i <= j => g[i] <= g[j]
    <2> DEFINE B == {j \in 0 .. n : i <= j /\ ~(g[i] <= g[j])}
    <2> SUFFICES ASSUME B # {}  PROVE FALSE
      OBVIOUS
    <2>1. PICK j \in B : \A m \in B : j <= m
      <3>1. B \subseteq Nat
        OBVIOUS
      <3> HIDE DEF B
      <3> QED  BY <3>1, SmallestNumber
    <2>2. i # j /\ i <= j /\ j \in 1 .. n
      BY <1>1
    <2>3. i <= j - 1 /\ j - 1 \in 0 .. n /\ ~(j <= j - 1)
      BY <2>2
    <2>4. g[i] <= g[j - 1]
      BY <2>1, <2>3
    <2>5. g[j] = g[j - 1] + f[j] /\ f[j] \in Nat /\ g[j - 1] \in Nat /\ g[i] \in Nat
      BY <1>1, <2>2, <2>3
    <2>6. ~(g[i] <= g[j])
      OBVIOUS
    <2> QED  BY <2>4, <2>5, <2>6
  <1>3. ASSUME NEW x \in 1 .. SumTo(f, n)
        PROVE  \E i \in 1 .. n : \E d \in 1 .. f[i] : x = g[i - 1] + d
    <2> DEFINE B == {i \in 0 .. n : x <= g[i]}
    <2>1. x \in Nat /\ 1 <= x /\ x <= g[n] /\ n \in 0 .. n
      BY <1>1
    <2>2. PICK i \in B : \A m \in B : i <= m
      <3>1. B \subseteq Nat /\ n \in B
        BY <2>1
      <3> HIDE DEF B
      <3> QED  BY <3>1, SmallestNumber
    <2>3. i \in 0 .. n /\ x <= g[i] /\ i # 0
      BY <1>1, <2>1
    <2>4. i \in 1 .. n /\ i - 1 \in 0 .. n /\ ~(i <= i - 1)
      BY <2>3
    <2>5. ~(x <= g[i - 1])
      BY <2>2, <2>4
    <2>6. g[i] = g[i - 1] + f[i] /\ f[i] \in Nat /\ g[i - 1] \in Nat
      BY <1>1, <2>4
    <2>7. x - g[i - 1] \in 1 .. f[i] /\ x = g[i - 1] + (x - g[i - 1])
      BY <2>1, <2>3, <2>5, <2>6
    <2> QED  BY <2>4, <2>7
  <1> QED  BY <1>1, <1>2, <1>3

\* The lengths of some sequences.
Lens(ss) == [i \in 1 .. Len(ss) |-> Len(ss[i])]

\* Flattening puts sequences one after the other: each entry is found behind the lengths of
\* the parts before its own.
LEMMA FlattenAt ==
  ASSUME NEW S, NEW ss \in Seq(Seq(S))
  PROVE  /\ FlattenSeq(ss) \in Seq(S)
         /\ Len(FlattenSeq(ss)) = SumTo(Lens(ss), Len(ss))
         /\ \A i \in 1 .. Len(ss) : \A j \in 1 .. Len(ss[i]) :
              /\ SumTo(Lens(ss), i - 1) + j \in 1 .. Len(FlattenSeq(ss))
              /\ FlattenSeq(ss)[SumTo(Lens(ss), i - 1) + j] = ss[i][j]
         /\ \A e \in 1 .. Len(FlattenSeq(ss)) : \E i \in 1 .. Len(ss) :
              \E j \in 1 .. Len(ss[i]) : e = SumTo(Lens(ss), i - 1) + j
  <1> DEFINE n == Len(ss)
             F == CHOOSE g : Flattens(g, ss, n)
             f == Lens(ss)
             to == [i \in 0 .. n |-> SumTo(f, i)]
             Good(k) == /\ F[k] \in Seq(S) /\ Len(F[k]) = to[k]
                        /\ \A i \in 1 .. k : \A j \in 1 .. f[i] : F[k][to[i - 1] + j] = ss[i][j]
             B == {k \in Nat : k \in 1 .. n /\ ~ Good(k)}
  <1>1. n \in Nat /\ \A i \in 1 .. n : ss[i] \in Seq(S) /\ Len(ss[i]) \in Nat
    OBVIOUS
  <1>2. \A i \in 1 .. n : f[i] = Len(ss[i]) /\ f[i] \in Nat
    BY <1>1 DEF Lens
  <1>3. FlattenSeq(ss) = IF n = 0 THEN ss ELSE F[n]
    BY DEF FlattenSeq, Flattens
  <1>4. Flattens(F, ss, n)
    BY <1>1, FlattensExists
  <1> HIDE DEF F, f
  <1>5. \A k \in 1 .. n : F[k] = IF k = 1 THEN ss[k] ELSE F[k - 1] \o ss[k]
    BY <1>4 DEF Flattens
  <1>6. /\ to[0] = 0 /\ \A i \in 0 .. n : to[i] \in Nat /\ to[i] = SumTo(f, i)
        /\ \A i \in 1 .. n : to[i] = to[i - 1] + f[i] /\ i - 1 \in 0 .. n
    <2> HIDE DEF n
    <2>1. /\ SumTo(f, 0) = 0 /\ \A i \in 0 .. n : SumTo(f, i) \in Nat
          /\ \A i \in 1 .. n : SumTo(f, i) = SumTo(f, i - 1) + f[i]
      <3> HIDE DEF to
      <3> QED  BY <1>1, <1>2, SumToIs
    <2>2. n \in Nat /\ 0 \in 0 .. n /\ \A i \in 1 .. n : i \in 0 .. n /\ i - 1 \in 0 .. n
      BY <1>1
    <2>3. \A i \in 0 .. n : to[i] = SumTo(f, i)
      OBVIOUS
    <2> HIDE DEF to
    <2> QED  BY <2>1, <2>2, <2>3
  <1>7. /\ \A i, j \in 0 .. n : i <= j => to[i] <= to[j]
        /\ \A x \in 1 .. to[n] : \E i \in 1 .. n : \E d \in 1 .. f[i] : x = to[i - 1] + d
    <2>1. n \in 0 .. n /\ \A i \in 1 .. n : i - 1 \in 0 .. n
      BY <1>1
    <2> HIDE DEF n
    <2>2. /\ \A i, j \in 0 .. n : i <= j => SumTo(f, i) <= SumTo(f, j)
          /\ \A x \in 1 .. SumTo(f, n) : \E i \in 1 .. n : \E d \in 1 .. f[i] :
               x = SumTo(f, i - 1) + d
      <3>1. n \in Nat /\ \A i \in 1 .. n : f[i] \in Nat
        BY <1>1, <1>2
      <3> HIDE DEF to, Good, B
      <3>2. \A i, j \in 0 .. n : i <= j => SumTo(f, i) <= SumTo(f, j)
        BY <3>1, SumToGrows
      <3>3. ASSUME NEW x \in 1 .. SumTo(f, n)
            PROVE  \E i \in 1 .. n : \E d \in 1 .. f[i] : x = SumTo(f, i - 1) + d
        BY <3>1, SumToGrows
      <3> QED  BY <3>2, <3>3
    <2>3. \A i, j \in 0 .. n : i <= j => to[i] <= to[j]
      BY <1>6, <2>2
    <2>4. ASSUME NEW x \in 1 .. to[n]
          PROVE  \E i \in 1 .. n : \E d \in 1 .. f[i] : x = to[i - 1] + d
      <3>1. PICK i \in 1 .. n : \E d \in 1 .. f[i] : x = SumTo(f, i - 1) + d
        BY <1>6, <2>1, <2>2
      <3> QED  BY <1>6, <2>1, <3>1
    <2> QED  BY <2>3, <2>4
  <1> HIDE DEF to
  <1>8. B = {}
    <2> SUFFICES ASSUME B # {}  PROVE FALSE
      OBVIOUS
    <2>1. PICK k \in B : \A m \in B : k <= m
      <3>1. B \subseteq Nat
        OBVIOUS
      <3> HIDE DEF B
      <3> QED  BY <3>1, SmallestNumber
    <2>2. k \in 1 .. n /\ ~ Good(k)
      BY <2>1
    <2>3. CASE k = 1
      <3>1. F[k] = ss[1] /\ 1 .. k = {1} /\ to[1] = f[1] /\ 1 \in 1 .. n /\ 1 - 1 = 0
        BY <1>5, <1>6, <1>2, <2>2, <2>3
      <3>2. \A j \in 1 .. f[1] : to[1 - 1] + j = j
        BY <1>6, <3>1
      <3> QED  BY <1>1, <1>2, <2>2, <2>3, <3>1, <3>2
    <2>4. CASE k # 1
      <3>1. /\ k - 1 \in 1 .. n /\ k \in Nat /\ 1 .. k = 1 .. (k - 1) \cup {k}
            /\ k - 1 \in 0 .. n /\ k \in 0 .. n
        BY <1>1, <2>2, <2>4, SMTT(20)
      <3>2. Good(k - 1)
        <4> HIDE DEF Good
        <4>1. k - 1 \in B => k <= k - 1
          BY <2>1
        <4> QED  BY <3>1, <4>1
      <3>3. PICK a \in Seq(S) : a = F[k - 1]
        BY <3>2
      <3>4. PICK b \in Seq(S) : b = ss[k]
        BY <1>1, <2>2
      <3>5. PICK c : c = F[k]
        OBVIOUS
      <3>6. /\ c = a \o b /\ c \in Seq(S) /\ Len(c) = Len(a) + Len(b)
            /\ Len(a) \in Nat /\ Len(b) \in Nat
            /\ \A i \in 1 .. Len(a) : c[i] = a[i]
            /\ \A i \in 1 .. Len(b) : c[Len(a) + i] = b[i]
        <4>1. c = a \o b
          BY <1>5, <2>2, <2>4, <3>3, <3>4, <3>5
        <4>2. PICK d : d = a \o b
          OBVIOUS
        <4>3. /\ d \in Seq(S) /\ Len(d) = Len(a) + Len(b)
              /\ Len(a) \in Nat /\ Len(b) \in Nat
              /\ \A i \in 1 .. Len(a) : d[i] = a[i]
              /\ \A i \in 1 .. Len(b) : d[Len(a) + i] = b[i]
          BY <4>2, ConcatIs
        <4> QED  BY <4>1, <4>2, <4>3, Zenon
      <3>7. Len(a) = to[k - 1] /\ Len(b) = f[k] /\ Len(c) = to[k]
        BY <1>2, <1>6, <2>2, <3>2, <3>3, <3>4, <3>6
      <3>8. ASSUME NEW i \in 1 .. k, NEW j \in 1 .. f[i]  PROVE c[to[i - 1] + j] = ss[i][j]
        <4>1. CASE i = k
          <5>1. c[Len(a) + j] = b[j]
            BY <3>6, <3>7, <4>1
          <5> QED  BY <3>4, <3>7, <4>1, <5>1
        <4>2. CASE i # k
          <5>1. i \in 1 .. k - 1 /\ i \in 1 .. n /\ i \in 0 .. n /\ i <= k - 1
            BY <3>1, <4>2
          <5>2. F[k - 1][to[i - 1] + j] = ss[i][j]
            BY <3>2, <5>1
          <5>3. to[i - 1] + f[i] <= to[k - 1] /\ to[i - 1] \in Nat /\ f[i] \in Nat
            BY <1>2, <1>6, <1>7, <3>1, <5>1
          <5>4. to[i - 1] + j \in 1 .. Len(a)
            <6>1. Len(a) \in Nat /\ to[k - 1] = Len(a)
              BY <3>6, <3>7
            <6>2. PICK x, y, z : x = to[i - 1] /\ y = f[i] /\ z = Len(a)
              OBVIOUS
            <6>3. x \in Nat /\ y \in Nat /\ z \in Nat /\ x + y <= z /\ j \in 1 .. y
              BY <5>3, <6>1, <6>2
            <6> HIDE DEF B, Good
            <6>4. x + j \in 1 .. z
              BY <6>3
            <6> QED  BY <6>2, <6>4
          <5> QED  BY <3>3, <3>6, <5>2, <5>4
        <4> QED  BY <4>1, <4>2
      <3> QED  BY <2>2, <3>5, <3>6, <3>7, <3>8
    <2> QED  BY <2>3, <2>4
  <1>9. CASE n = 0
    <2>1. ss = <<>> /\ 1 .. n = {} /\ to[n] = 0
      BY <1>1, <1>6, <1>9
    <2>2. FlattenSeq(ss) = <<>>
      BY <1>3, <1>9, <2>1
    <2>3. <<>> \in Seq(S) /\ Len(<<>>) = 0 /\ 1 .. 0 = {}
      OBVIOUS
    <2>4. Len(FlattenSeq(ss)) = SumTo(Lens(ss), Len(ss))
      BY <1>6, <1>9, <2>1, <2>2, <2>3 DEF f
    <2> QED  BY <2>1, <2>2, <2>3, <2>4
  <1>10. CASE n # 0
    <2>1. n \in Nat /\ n \in 1 .. n /\ n \in 0 .. n
      BY <1>1, <1>10
    <2>2. Good(n)
      <3> HIDE DEF Good
      <3> QED  BY <1>8, <2>1
    <2>3. PICK c : c = FlattenSeq(ss)
      OBVIOUS
    <2>4. c = F[n] /\ c \in Seq(S) /\ Len(c) = to[n]
      BY <1>3, <1>10, <2>2, <2>3
    <2>5. ASSUME NEW i \in 1 .. n, NEW j \in 1 .. f[i]
          PROVE  to[i - 1] + j \in 1 .. Len(c) /\ c[to[i - 1] + j] = ss[i][j]
      <3>1. c[to[i - 1] + j] = ss[i][j]
        BY <2>2, <2>4
      <3>2. i \in 0 .. n /\ i <= n
        BY <2>1
      <3>3. to[i - 1] + f[i] <= to[n] /\ to[i - 1] \in Nat /\ f[i] \in Nat /\ to[n] \in Nat
        BY <1>2, <1>6, <1>7, <2>1, <3>2
      <3> QED  BY <2>4, <3>1, <3>3, SMTT(20)
    <2>6. \A e \in 1 .. Len(c) : \E i \in 1 .. n : \E j \in 1 .. f[i] : e = to[i - 1] + j
      BY <1>7, <2>4
    <2>7. /\ \A i \in 0 .. n : to[i] = SumTo(Lens(ss), i)
          /\ \A i \in 1 .. n : i - 1 \in 0 .. n
      BY <1>6 DEF f
    <2>8. Len(c) = SumTo(Lens(ss), n)
      BY <2>1, <2>4, <2>7
    <2>9. ASSUME NEW i \in 1 .. n, NEW j \in 1 .. Len(ss[i])
          PROVE  SumTo(Lens(ss), i - 1) + j \in 1 .. Len(c)
                 /\ c[SumTo(Lens(ss), i - 1) + j] = ss[i][j]
      BY <1>2, <2>5, <2>7
    <2>10. ASSUME NEW e \in 1 .. Len(c)
           PROVE  \E i \in 1 .. n : \E j \in 1 .. Len(ss[i]) : e = SumTo(Lens(ss), i - 1) + j
      <3>1. PICK i \in 1 .. n : \E j \in 1 .. f[i] : e = to[i - 1] + j
        BY <2>6
      <3>2. f[i] = Len(ss[i]) /\ to[i - 1] = SumTo(Lens(ss), i - 1)
        BY <1>2, <2>7
      <3>3. \E j \in 1 .. Len(ss[i]) : e = SumTo(Lens(ss), i - 1) + j
        BY <3>1, <3>2
      <3> QED  BY <3>3
    <2> QED  BY <2>3, <2>4, <2>8, <2>9, <2>10
  <1> QED  BY <1>9, <1>10

\* Flattening keeps the entries of the parts, and no others.
LEMMA FlattenKeeps ==
  ASSUME NEW S, NEW ss \in Seq(Seq(S))
  PROVE  /\ FlattenSeq(ss) \in Seq(S)
         /\ ToSet(FlattenSeq(ss)) = UNION {ToSet(ss[i]) : i \in 1 .. Len(ss)}
  <1> DEFINE n == Len(ss)
             c == FlattenSeq(ss)
             at(i, j) == SumTo(Lens(ss), i - 1) + j
             U == UNION {ToSet(ss[i]) : i \in 1 .. n}
  <1>1. /\ c \in Seq(S) /\ Len(c) \in Nat /\ DOMAIN c = 1 .. Len(c)
        /\ \A i \in 1 .. n : \A j \in 1 .. Len(ss[i]) :
             at(i, j) \in 1 .. Len(c) /\ c[at(i, j)] = ss[i][j]
        /\ \A e \in 1 .. Len(c) : \E i \in 1 .. n : \E j \in 1 .. Len(ss[i]) : e = at(i, j)
    BY FlattenAt, SeqIsSeq
  <1>2. \A i \in 1 .. n : DOMAIN ss[i] = 1 .. Len(ss[i])
    OBVIOUS
  <1>3. \A x : x \in U <=> \E i \in 1 .. n : x \in ToSet(ss[i])
    OBVIOUS
  <1> HIDE DEF c, at, n, U
  <1>4. ASSUME NEW x \in ToSet(c)  PROVE x \in U
    <2>1. PICK e \in 1 .. Len(c) : x = c[e]
      BY <1>1 DEF ToSet
    <2>2. PICK i \in 1 .. n : \E j \in 1 .. Len(ss[i]) : e = at(i, j)
      BY <1>1
    <2>3. PICK j \in 1 .. Len(ss[i]) : e = at(i, j)
      BY <2>2
    <2>4. x = ss[i][j] /\ j \in DOMAIN ss[i]
      BY <1>1, <1>2, <2>1, <2>3
    <2> QED  BY <1>3, <2>4 DEF ToSet
  <1>5. ASSUME NEW x \in U  PROVE x \in ToSet(c)
    <2>1. PICK i \in 1 .. n : x \in ToSet(ss[i])
      BY <1>3
    <2>2. PICK j \in 1 .. Len(ss[i]) : x = ss[i][j]
      BY <1>2, <2>1 DEF ToSet
    <2> QED  BY <1>1, <2>2 DEF ToSet
  <1> QED  BY <1>1, <1>4, <1>5 DEF c, n, U

-----------------------------------------------------------------------------
(* Numbers in ascending order.                                             *)

\* How many members of a set are not greater than a number.
Rank(S, x) == Cardinality({y \in S : y <= x})

\* The ranks of the members of a set of n numbers are 1 .. n, one each.
LEMMA RanksAre ==
  ASSUME NEW S, IsFiniteSet(S), S \subseteq Int
  PROVE  /\ Cardinality(S) \in Nat
         /\ \A x \in S : Rank(S, x) \in 1 .. Cardinality(S)
         /\ \A x, y \in S : Rank(S, x) = Rank(S, y) => x = y
         /\ \A i \in 1 .. Cardinality(S) : \E x \in S : Rank(S, x) = i
  <1> DEFINE n == Cardinality(S)
             Upto(x) == {y \in S : y <= x}
             I == 1 .. n
             f == [x \in S |-> Rank(S, x)]
  <1>1. n \in Nat
    BY FS_CardinalityType
  <1>2. ASSUME NEW x
        PROVE  IsFiniteSet(Upto(x)) /\ Cardinality(Upto(x)) \in Nat /\ Cardinality(Upto(x)) <= n
    <2> HIDE DEF n
    <2>1. Upto(x) \in SUBSET S
      OBVIOUS
    <2> HIDE DEF Upto
    <2>2. IsFiniteSet(Upto(x)) /\ Cardinality(Upto(x)) <= Cardinality(S)
      BY <2>1, FS_Subset
    <2> QED  BY <2>2, FS_CardinalityType DEF n
  <1>3. ASSUME NEW x \in S  PROVE Rank(S, x) \in I
    <2>1. x \in Upto(x)
      OBVIOUS
    <2> HIDE DEF Upto, n
    <2>2. Cardinality(Upto(x)) # 0
      BY <1>2, <2>1, FS_EmptySet
    <2>3. Cardinality(Upto(x)) \in 1 .. n
      BY <1>1, <1>2, <2>2
    <2> QED  BY <2>3 DEF Rank, Upto
  <1>4. ASSUME NEW x \in S, NEW y \in S, x < y  PROVE Rank(S, x) # Rank(S, y)
    <2>0. x \in Int /\ y \in Int /\ \A z \in S : z \in Int
      OBVIOUS
    <2>1. Upto(x) \in SUBSET Upto(y) /\ y \in Upto(y) /\ y \notin Upto(x)
      <3>1. \A z \in S : z <= x => z <= y
        BY <1>4, <2>0
      <3>2. y <= y /\ ~(y <= x)
        BY <1>4, <2>0
      <3> QED  BY <3>1, <3>2
    <2> HIDE DEF Upto
    <2>2. Upto(x) # Upto(y) /\ IsFiniteSet(Upto(y))
      BY <1>2, <2>1
    <2>3. Cardinality(Upto(y)) # Cardinality(Upto(x))
      BY <2>1, <2>2, FS_Subset
    <2> QED  BY <2>3 DEF Rank, Upto
  <1>5. \A x, y \in S : Rank(S, x) = Rank(S, y) => x = y
    <2>1. \A x, y \in S : x # y => x < y \/ y < x
      OBVIOUS
    <2> QED  BY <1>4, <2>1
  <1>6. f \in Injection(S, I)
    <2>1. f \in [S -> I]
      BY <1>3
    <2>2. IsInjective(f)
      BY <1>5 DEF IsInjective
    <2> HIDE DEF f, I
    <2> QED  BY <2>1, <2>2 DEF Injection
  <1>7. IsFiniteSet(I) /\ Cardinality(I) = n
    <2> HIDE DEF n
    <2>1. IsFiniteSet(1 .. n) /\ Cardinality(1 .. n) = IF 1 > n THEN 0 ELSE n - 1 + 1
      BY <1>1, FS_Interval
    <2> QED  BY <1>1, <2>1
  <1>8. f \in Surjection(S, I)
    <2> HIDE DEF f, I
    <2> QED  BY <1>6, <1>7, FS_Injection
  <1>9. \A i \in I : \E x \in S : f[x] = i
    <2> HIDE DEF f, I
    <2> QED  BY <1>8 DEF Surjection
  <1> QED  BY <1>1, <1>3, <1>5, <1>9

\* InOrder puts the members of a finite set of numbers in ascending order, each at its rank.
LEMMA InOrderIs ==
  ASSUME NEW S, IsFiniteSet(S), S \subseteq Int
  PROVE  /\ InOrder(S) \in Seq(S) /\ Len(InOrder(S)) = Cardinality(S)
         /\ ToSet(InOrder(S)) = S
         /\ \A x \in S : InOrder(S)[Rank(S, x)] = x
         /\ \A i, j \in 1 .. Cardinality(S) : i < j => InOrder(S)[i] < InOrder(S)[j]
  <1> DEFINE n == Cardinality(S)
             o == InOrder(S)
  <1>1. /\ n \in Nat
        /\ \A x \in S : Rank(S, x) \in 1 .. n
        /\ \A x, y \in S : Rank(S, x) = Rank(S, y) => x = y
        /\ \A i \in 1 .. n : \E x \in S : Rank(S, x) = i
    BY RanksAre
  <1>2. o = [i \in 1 .. n |-> CHOOSE x \in S : Rank(S, x) = i]
    BY DEF InOrder, Rank
  <1> HIDE DEF n, o
  <1>3. \A i \in 1 .. n : o[i] \in S /\ Rank(S, o[i]) = i
    BY <1>1, <1>2
  <1>4. o \in [1 .. n -> S] /\ DOMAIN o = 1 .. n
    <2>1. DOMAIN o = 1 .. n /\ o = [i \in 1 .. n |-> o[i]]
      BY <1>2
    <2> QED  BY <1>3, <2>1
  <1>5. o \in Seq(S) /\ Len(o) = n
    BY <1>1, <1>4
  <1>6. ASSUME NEW x \in S  PROVE o[Rank(S, x)] = x
    <2>1. PICK i \in 1 .. n : i = Rank(S, x)
      BY <1>1
    <2>2. o[i] \in S /\ Rank(S, o[i]) = i
      BY <1>3
    <2> QED  BY <1>1, <2>1, <2>2
  <1>7. ToSet(o) = S
    <2>1. \A x \in S : \E i \in DOMAIN o : o[i] = x
      BY <1>1, <1>4, <1>6
    <2> QED  BY <1>3, <1>4, <2>1 DEF ToSet
  <1>8. ASSUME NEW i \in 1 .. n, NEW j \in 1 .. n, i < j, ~(o[i] < o[j])  PROVE FALSE
    <2>0. PICK a, b \in S : a = o[i] /\ b = o[j]
      BY <1>3
    <2>1. a \in Int /\ b \in Int /\ b <= a
      BY <1>8, <2>0
    <2> DEFINE U == {y \in S : y <= a}
               V == {y \in S : y <= b}
    <2>2. V \in SUBSET U /\ U \in SUBSET S
      <3>1. \A y \in S : y <= b => y <= a
        BY <2>1
      <3> QED  BY <3>1
    <2>3. Cardinality(U) = i /\ Cardinality(V) = j
      BY <1>3, <2>0 DEF Rank
    <2> HIDE DEF U, V
    <2>4. IsFiniteSet(U)
      BY <2>2, FS_Subset
    <2>5. j <= i
      BY <2>2, <2>3, <2>4, FS_Subset
    <2> QED  BY <1>1, <1>8, <2>5
  <1> QED  BY <1>5, <1>6, <1>7, <1>8 DEF n, o

-----------------------------------------------------------------------------
(* Key frames.                                                             *)

\* Which frame a time code takes: the one before or at it, or the first.
Place(c, t) == IF SegmentOf(c, t) = 0 THEN 1 ELSE SegmentOf(c, t)

\* A channel has the same frame at two time codes that take the same place.
LEMMA FrameByPlace ==
  ASSUME NEW c, NEW s, NEW t, Place(c, s) = Place(c, t)
  PROVE  Frame(c, s) = Frame(c, t)
  BY DEF Frame, Place

\* What is not flagged when a primitive goes to another time code has the same key frame there.
LEMMA UnflaggedStays ==
  ASSUME NEW kf, NEW skel, NEW old, NEW t,
         NEW a \in {"pos", "topo", "uv", "nrm", "clr"} \ meshRequireUpdate(kf, skel, old, t).dirty
  PROVE  Frame(kf[a], old) = Frame(kf[a], t)
  <1>1. CASE old = t
    BY <1>1
  <1>2. CASE old # t
    <2> DEFINE c == kf[a]
    <2>1. ~(DOMAIN c.at # {} /\ SegmentOf(c, old) # SegmentOf(c, t))
      BY <1>2 DEF meshRequireUpdate
    <2> HIDE DEF c
    <2>2. DOMAIN c.at = {} => SegmentOf(c, old) = SegmentOf(c, t)
      <3>1. SUFFICES ASSUME DOMAIN c.at = {}  PROVE SegmentOf(c, old) = SegmentOf(c, t)
        OBVIOUS
      <3>2. ASSUME NEW x  PROVE SegmentOf(c, x) = Cardinality({})
        <4>1. {k \in DOMAIN c.at : ~Later(k, x)} = {}
          BY <3>1
        <4> QED  BY <4>1 DEF SegmentOf
      <3>3. SegmentOf(c, old) = Cardinality({})
        BY <3>2
      <3>4. SegmentOf(c, t) = Cardinality({})
        BY <3>2
      <3> QED  BY <3>3, <3>4
    <2>3. Place(c, old) = Place(c, t)
      BY <2>1, <2>2 DEF Place
    <2>4. Frame(c, old) = Frame(c, t)
      BY <2>3, FrameByPlace
    <2> QED  BY <2>4 DEF c
  <1> QED  BY <1>1, <1>2

\* Before the first sample of a skeleton and after its last one, the pose does not change.
LEMMA PoseStays ==
  ASSUME NEW u, IsFiniteSet(TimeSamples(u.pose)), TimeSamples(u.pose) \subseteq Int,
         NEW kf, NEW old \in Times, NEW t \in Times,
         ~ meshRequireUpdate(kf, Skel(u), old, t).needed
  PROVE  Pose(u, old) = Pose(u, t)
  <1> DEFINE S == TimeSamples(u.pose)
             p == u.pose
  <1>1. CASE old = t
    BY <1>1
  <1>2. CASE old # t /\ S = {}
    BY <1>2 DEF Pose
  <1>3. CASE old # t /\ S # {}
    <2>1. /\ Min(S) \in S /\ \A y \in S : Min(S) <= y
          /\ Max(S) \in S /\ \A y \in S : Max(S) >= y
      <3>1. IsFiniteSet(S) /\ S \subseteq Int
        OBVIOUS
      <3> HIDE DEF S
      <3> QED  BY <1>3, <3>1, MinExists, MaxExists
    <2>2. Skel(u) = <<Min(S), Max(S)>> /\ Skel(u)[1] = Min(S) /\ Skel(u)[2] = Max(S)
      BY <1>3 DEF Skel
    <2>3. Skel(u) # None
      <3>1. <<Min(S), Max(S)>> \in Int \X Int
        BY <2>1
      <3> HIDE DEF S
      <3> QED  BY <2>2, <3>1, TimesAreNumbers DEF TimesAreNumbers
    <2>4. /\ (old = NaN) = (t = NaN)
          /\ \/ Later(Min(S), old) /\ Later(Min(S), t)
             \/ Later(old, Max(S)) /\ Later(t, Max(S))
      BY <1>3, <2>2, <2>3 DEF meshRequireUpdate
    <2>5. old \in Int /\ t \in Int /\ old # NaN /\ t # NaN
      BY <1>3, <2>4, TimesAreNumbers DEF TimesAreNumbers
    <2>6. CASE Later(Min(S), old) /\ Later(Min(S), t)
      <3>1. Min(S) > old /\ Min(S) > t
        BY <2>6 DEF Later
      <3>2. ASSUME NEW x \in {old, t}  PROVE Pose(u, x) = p[Min(S)]
        <4>1. x \in Int /\ x # NaN /\ Min(S) > x /\ \A s \in S : s > x /\ ~(s <= x)
          BY <2>1, <2>5, <3>1
        <4>2. ~(\A s \in S : s <= x)
          BY <1>3, <4>1
        <4> QED  BY <1>3, <4>1, <4>2 DEF Pose
      <3> QED  BY <3>2
    <2>7. CASE Later(old, Max(S)) /\ Later(t, Max(S))
      <3>1. Max(S) < old /\ Max(S) < t
        BY <2>1, <2>5, <2>7 DEF Later
      <3>2. ASSUME NEW x \in {old, t}  PROVE Pose(u, x) = p[Max(S)]
        <4>1. x \in Int /\ x # NaN /\ \A s \in S : s <= x
          BY <2>1, <2>5, <3>1
        <4>2. \E s \in S : ~(s > x)
          BY <1>3, <4>1
        <4> QED  BY <1>3, <4>1, <4>2 DEF Pose
      <3> QED  BY <3>2
    <2> QED  BY <2>4, <2>6, <2>7
  <1> QED  BY <1>1, <1>2, <1>3

-----------------------------------------------------------------------------
(* The time codes of a primitive.                                          *)

\* The samples of a mesh that its time codes are made of.
SamplesOf(u) ==
  TimeSamples(u.points) \cup TopoTcs(u) \cup TimeSamples(u.uv) \cup TimeSamples(u.nrm)
  \cup TimeSamples(u.clr) \cup TimeSamples(u.vis) \cup TransformTcs(u)

\* They are merged into an ascending sequence.
LEMMA TotalsAre ==
  ASSUME NEW u \in Sources, u.form = "usd"
  PROVE  /\ IsFiniteSet(SamplesOf(u)) /\ SamplesOf(u) \subseteq Int
         /\ TotalTcs(u) = InOrder(SamplesOf(u))
         /\ TotalTcs(u) \in Seq(Int)
         /\ ToSet(TotalTcs(u)) = SamplesOf(u)
  <1> DEFINE S == SamplesOf(u)
  <1>1. /\ \A f \in {"points", "counts", "indices", "uv", "nrm", "clr", "vis", "pose"} :
             IsFiniteSet(TimeSamples(u[f])) /\ TimeSamples(u[f]) \subseteq Int
        /\ IsFiniteSet(u.moves) /\ u.moves \subseteq Int
    BY SamplesAreNumbers DEF SamplesAreNumbers
  <1>2. /\ IsFiniteSet(TimeSamples(u.points)) /\ TimeSamples(u.points) \subseteq Int
        /\ IsFiniteSet(TimeSamples(u.counts)) /\ TimeSamples(u.counts) \subseteq Int
        /\ IsFiniteSet(TimeSamples(u.indices)) /\ TimeSamples(u.indices) \subseteq Int
        /\ IsFiniteSet(TimeSamples(u.uv)) /\ TimeSamples(u.uv) \subseteq Int
        /\ IsFiniteSet(TimeSamples(u.nrm)) /\ TimeSamples(u.nrm) \subseteq Int
        /\ IsFiniteSet(TimeSamples(u.clr)) /\ TimeSamples(u.clr) \subseteq Int
        /\ IsFiniteSet(TimeSamples(u.vis)) /\ TimeSamples(u.vis) \subseteq Int
        /\ IsFiniteSet(TransformTcs(u)) /\ TransformTcs(u) \subseteq Int
    BY <1>1 DEF TransformTcs
  <1>3. S \subseteq Int
    BY <1>2 DEF SamplesOf, TopoTcs
  <1>4. IsFiniteSet(TopoTcs(u))
    BY <1>2, FS_Union DEF TopoTcs
  <1>5. IsFiniteSet(S)
    <2>1. IsFiniteSet(TimeSamples(u.points) \cup TopoTcs(u))
      BY <1>2, <1>4, FS_Union
    <2>2. IsFiniteSet(TimeSamples(u.points) \cup TopoTcs(u) \cup TimeSamples(u.uv))
      BY <1>2, <2>1, FS_Union
    <2>3. IsFiniteSet(TimeSamples(u.points) \cup TopoTcs(u) \cup TimeSamples(u.uv)
                      \cup TimeSamples(u.nrm))
      BY <1>2, <2>2, FS_Union
    <2>4. IsFiniteSet(TimeSamples(u.points) \cup TopoTcs(u) \cup TimeSamples(u.uv)
                      \cup TimeSamples(u.nrm) \cup TimeSamples(u.clr))
      BY <1>2, <2>3, FS_Union
    <2>5. IsFiniteSet(TimeSamples(u.points) \cup TopoTcs(u) \cup TimeSamples(u.uv)
                      \cup TimeSamples(u.nrm) \cup TimeSamples(u.clr) \cup TimeSamples(u.vis))
      BY <1>2, <2>4, FS_Union
    <2> QED  BY <1>2, <2>5, FS_Union DEF SamplesOf
  <1>6. TotalTcs(u) = InOrder(S)
    <2>1. UNION {TimeSamples(u.points), TopoTcs(u), TimeSamples(u.uv), TimeSamples(u.nrm),
                 TimeSamples(u.clr), TimeSamples(u.vis), TransformTcs(u)} = S
      BY DEF SamplesOf
    <2> HIDE DEF S
    <2> QED  BY <2>1 DEF TotalTcs, Merged
  <1>7. InOrder(S) \in Seq(S) /\ ToSet(InOrder(S)) = S
    <2> HIDE DEF S
    <2> QED  BY <1>3, <1>5, InOrderIs
  <1>8. InOrder(S) \in Seq(Int)
    <2> HIDE DEF S
    <2>1. PICK o : o = InOrder(S)
      OBVIOUS
    <2>2. o \in Seq(S)
      BY <1>7, <2>1
    <2>3. o \in Seq(Int)
      BY <1>3, <2>2, SeqWiden
    <2> QED  BY <2>1, <2>3
  <1> QED  BY <1>3, <1>5, <1>6, <1>7, <1>8

\* The interval of the skeleton of a mesh.
LEMMA SkelIs ==
  ASSUME NEW u \in Sources, u.form = "usd"
  PROVE  /\ Skel(u) = None <=> TimeSamples(u.pose) = {}
         /\ Skel(u) # None => \E a, b \in Int : Skel(u) = <<a, b>>
  <1> DEFINE S == TimeSamples(u.pose)
  <1>1. IsFiniteSet(S) /\ S \subseteq Int
    BY SamplesAreNumbers DEF SamplesAreNumbers
  <1>2. CASE S = {}
    BY <1>2 DEF Skel
  <1>3. CASE S # {}
    <2>1. Min(S) \in Int /\ Max(S) \in Int
      <3> HIDE DEF S
      <3> QED  BY <1>1, <1>3, MinExists, MaxExists
    <2>2. Skel(u) = <<Min(S), Max(S)>>
      BY <1>3 DEF Skel
    <2> HIDE DEF S
    <2>3. <<Min(S), Max(S)>> # None
      <3>1. <<Min(S), Max(S)>> \in Int \X Int
        BY <2>1
      <3> QED  BY <3>1, TimesAreNumbers DEF TimesAreNumbers
    <2> QED  BY <1>3, <2>1, <2>2, <2>3 DEF S
  <1> QED  BY <1>2, <1>3

\* The global time codes of a primitive are numbers, and every sample is among them.
LEMMA GlobalsAre ==
  ASSUME NEW u \in Sources, u.form = "usd"
  PROVE  LET G == ToSet(KeyFrames(u).global)
         IN IsFiniteSet(G) /\ G \subseteq Int /\ SamplesOf(u) \subseteq G
  <1> DEFINE tcs == TotalTcs(u)
             skel == Skel(u)
             G == ToSet(KeyFrames(u).global)
  <1>1. /\ IsFiniteSet(SamplesOf(u)) /\ SamplesOf(u) \subseteq Int
        /\ tcs \in Seq(Int) /\ ToSet(tcs) = SamplesOf(u)
    BY TotalsAre
  <1>2. KeyFrames(u).global = GlobalTcs(tcs, skel)
    BY DEF KeyFrames
  <1>3. CASE skel = None
    <2>1. GlobalTcs(tcs, skel) = tcs
      BY <1>3 DEF GlobalTcs
    <2> QED  BY <1>1, <1>2, <2>1
  <1>4. CASE skel # None
    <2>1. PICK a, b \in Int : skel = <<a, b>>
      BY <1>4, SkelIs
    <2>2. IsFiniteSet({a, b})
      <3>1. IsFiniteSet({a}) /\ IsFiniteSet({b}) /\ {a, b} = {a} \cup {b}
        BY FS_Singleton
      <3> QED  BY <3>1, FS_Union
    <2>3. CASE tcs = <<>>
      <3>1. GlobalTcs(tcs, skel) = <<a, b>>
        BY <1>4, <2>1, <2>3 DEF GlobalTcs
      <3>2. ToSet(<<a, b>>) = {a, b}
        BY DEF ToSet
      <3>3. ToSet(<<>>) = {}
        BY DEF ToSet
      <3>4. SamplesOf(u) = {}
        BY <1>1, <2>3, <3>3
      <3> QED  BY <1>2, <2>2, <3>1, <3>2, <3>4
    <2>4. CASE tcs # <<>>
      <3> DEFINE p == IF a < tcs[1] THEN <<a>> ELSE <<>>
                 q == IF b > Last(tcs) THEN <<b>> ELSE <<>>
      <3>1. GlobalTcs(tcs, skel) = p \o tcs \o q
        <4>1. skel[1] = a /\ skel[2] = b
          BY <2>1
        <4> HIDE DEF tcs, skel
        <4>2. GlobalTcs(tcs, skel) = (IF skel[1] < tcs[1] THEN <<skel[1]>> ELSE <<>>) \o tcs
                                       \o (IF skel[2] > Last(tcs) THEN <<skel[2]>> ELSE <<>>)
          BY <1>4, <2>4, Zenon DEF GlobalTcs
        <4> QED  BY <4>1, <4>2, Zenon
      <3>2. /\ p \in Seq(Int) /\ q \in Seq(Int)
            /\ ToSet(p) \subseteq {a, b} /\ ToSet(q) \subseteq {a, b}
        BY DEF ToSet
      <3> HIDE DEF p, q, tcs, skel
      <3>3. p \o tcs \in Seq(Int) /\ ToSet(p \o tcs) = ToSet(p) \cup ToSet(tcs)
        BY <1>1, <3>2, ToSetConcat
      <3> DEFINE pt == p \o tcs
      <3>4. ToSet(pt \o q) = ToSet(pt) \cup ToSet(q)
        <4>1. pt \in Seq(Int)
          BY <3>3
        <4> HIDE DEF pt
        <4> QED  BY <3>2, <4>1, ToSetConcat
      <3>5. G = ToSet(p) \cup SamplesOf(u) \cup ToSet(q)
        BY <1>1, <1>2, <3>1, <3>3, <3>4
      <3>6. IsFiniteSet(SamplesOf(u) \cup {a, b})
        BY <1>1, <2>2, FS_Union
      <3>7. G \in SUBSET (SamplesOf(u) \cup {a, b})
        BY <3>2, <3>5
      <3>8. IsFiniteSet(G)
        <4> HIDE DEF G
        <4> QED  BY <3>6, <3>7, FS_Subset
      <3> QED  BY <1>1, <3>5, <3>7, <3>8
    <2> QED  BY <2>3, <2>4
  <1> QED  BY <1>3, <1>4

\* They begin with the skeleton or before it, and end with it or after it.
LEMMA SkelWithin ==
  ASSUME NEW u \in Sources, u.form = "usd", NEW a \in Int, NEW b \in Int, Skel(u) = <<a, b>>
  PROVE  LET G == ToSet(KeyFrames(u).global)
         IN (\E g \in G : g <= a) /\ (\E g \in G : b <= g)
  <1>1. PICK tcs, skel, G : tcs = TotalTcs(u) /\ skel = Skel(u) /\ G = ToSet(KeyFrames(u).global)
    OBVIOUS
  <1>2. tcs \in Seq(Int) /\ skel = <<a, b>> /\ skel[1] = a /\ skel[2] = b
    BY <1>1, TotalsAre
  <1>3. skel # None
    <2>1. <<a, b>> \in Int \X Int
      OBVIOUS
    <2> QED  BY <1>2, <2>1, TimesAreNumbers DEF TimesAreNumbers
  <1>4. G = ToSet(GlobalTcs(tcs, skel))
    BY <1>1 DEF KeyFrames
  <1>5. CASE tcs = <<>>
    <2>1. GlobalTcs(tcs, skel) = <<a, b>>
      BY <1>2, <1>3, <1>5 DEF GlobalTcs
    <2>2. ToSet(<<a, b>>) = {a, b}
      BY DEF ToSet
    <2> QED  BY <1>1, <1>4, <2>1, <2>2
  <1>6. CASE tcs # <<>>
    <2>1. PICK n \in Nat : n = Len(tcs)
      BY <1>2
    <2>2. 1 \in 1 .. n /\ n \in 1 .. n /\ DOMAIN tcs = 1 .. n
      BY <1>2, <1>6, <2>1
    <2>3. PICK l, r \in Int : l = tcs[1] /\ r = tcs[n]
      BY <1>2, <2>2
    <2>4. Last(tcs) = r
      BY <2>1, <2>3 DEF Last
    <2>5. PICK p, q : /\ p = (IF a < l THEN <<a>> ELSE <<>>)
                      /\ q = (IF b > r THEN <<b>> ELSE <<>>)
      OBVIOUS
    <2>6. GlobalTcs(tcs, skel) = p \o tcs \o q
      <3>1. GlobalTcs(tcs, skel) = (IF skel[1] < tcs[1] THEN <<skel[1]>> ELSE <<>>) \o tcs
                                     \o (IF skel[2] > Last(tcs) THEN <<skel[2]>> ELSE <<>>)
        BY <1>3, <1>6, Zenon DEF GlobalTcs
      <3> QED  BY <1>2, <2>3, <2>4, <2>5, <3>1
    <2>7. p \in Seq(Int) /\ q \in Seq(Int)
      BY <2>5
    <2>8. PICK pt : pt = p \o tcs
      OBVIOUS
    <2>9. pt \in Seq(Int) /\ ToSet(pt) = ToSet(p) \cup ToSet(tcs)
      BY <1>2, <2>7, <2>8, ToSetConcat
    <2>10. ToSet(pt \o q) = ToSet(pt) \cup ToSet(q)
      BY <2>7, <2>9, ToSetConcat
    <2>11. ToSet(p) \subseteq G /\ ToSet(tcs) \subseteq G /\ ToSet(q) \subseteq G
      BY <1>4, <2>6, <2>8, <2>9, <2>10
    <2>12. l \in G /\ r \in G
      <3>1. l \in ToSet(tcs) /\ r \in ToSet(tcs)
        BY <2>2, <2>3 DEF ToSet
      <3> QED  BY <2>11, <3>1
    <2>13. a < l => a \in G
      <3>1. a < l => a \in ToSet(p)
        BY <2>5 DEF ToSet
      <3> QED  BY <2>11, <3>1
    <2>14. b > r => b \in G
      <3>1. b > r => b \in ToSet(q)
        BY <2>5 DEF ToSet
      <3> QED  BY <2>11, <3>1
    <2>15. \E g \in G : g <= a
      BY <2>3, <2>12, <2>13
    <2>16. \E g \in G : b <= g
      BY <2>3, <2>12, <2>14
    <2> QED  BY <1>1, <2>15, <2>16
  <1> QED  BY <1>5, <1>6

\* The pose at the first sample of a skeleton, before it, at the last one and after it.
LEMMA PoseAtEnds ==
  ASSUME NEW u, IsFiniteSet(TimeSamples(u.pose)), TimeSamples(u.pose) \subseteq Int,
         TimeSamples(u.pose) # {}, NEW t \in Int,
         \A s \in TimeSamples(u.pose) : u.pose[s] \in Int
  PROVE  /\ t <= Min(TimeSamples(u.pose)) => Pose(u, t) = u.pose[Min(TimeSamples(u.pose))]
         /\ Max(TimeSamples(u.pose)) <= t => Pose(u, t) = u.pose[Max(TimeSamples(u.pose))]
  <1> DEFINE S == TimeSamples(u.pose)
  <1>1. PICK lo, hi : lo = Min(S) /\ hi = Max(S)
    OBVIOUS
  <1>2. lo \in S /\ hi \in S /\ \A y \in S : y \in Int /\ lo <= y /\ y <= hi
    <2>1. IsFiniteSet(S) /\ S \subseteq Int /\ S # {}
      OBVIOUS
    <2> HIDE DEF S
    <2> QED  BY <1>1, <2>1, MinExists, MaxExists
  <1>3. t # NaN
    BY TimesAreNumbers DEF TimesAreNumbers
  <1>4. ASSUME hi <= t  PROVE Pose(u, t) = u.pose[hi]
    <2>1. \A s \in S : s <= t
      BY <1>2, <1>4
    <2> QED  BY <1>1, <1>3, <2>1 DEF Pose
  <1>5. ASSUME t < lo  PROVE Pose(u, t) = u.pose[lo]
    <2>1. \A s \in S : s > t /\ ~ (s <= t)
      BY <1>2, <1>5
    <2>2. ~ \A s \in S : s <= t
      BY <1>2, <2>1
    <2> QED  BY <1>1, <1>2, <1>3, <2>1, <2>2 DEF Pose
  <1>6. ASSUME t = lo  PROVE Pose(u, t) = u.pose[lo]
    <2>1. CASE lo = hi
      BY <1>4, <1>6, <2>1
    <2>2. CASE lo # hi
      <3>1. {s \in S : s <= t} = {lo}
        BY <1>2, <1>6
      <3>2. PICK a, b : a = Max({s \in S : s <= t}) /\ b = Min({s \in S : s > t})
        OBVIOUS
      <3>3. a = lo
        <4>1. Max({lo}) \in {lo}
          BY <1>2, FS_Singleton, MaxExists
        <4> QED  BY <3>1, <3>2, <4>1
      <3>4. b \in S /\ b > t
        <4>1. PICK R : R = {s \in S : s > t}
          OBVIOUS
        <4>2. R \subseteq S /\ hi \in R
          BY <1>2, <1>6, <2>2, <4>1
        <4>3. IsFiniteSet(R) /\ R \subseteq Int
          <5>1. IsFiniteSet(S)
            OBVIOUS
          <5> HIDE DEF S
          <5> QED  BY <1>2, <4>2, <5>1, FS_Subset
        <4>4. Min(R) \in R
          BY <4>2, <4>3, MinExists
        <4> QED  BY <3>2, <4>1, <4>4
      <3>5. Pose(u, t) = u.pose[a] + ((u.pose[b] - u.pose[a]) * (t - a)) \div (b - a)
        <4>1. ~ (\A s \in S : s <= t) /\ ~ (\A s \in S : s > t)
          BY <1>2, <1>6, <2>2
        <4> QED  BY <1>2, <1>3, <3>2, <4>1 DEF Pose
      <3>6. PICK x, y, d \in Int : x = u.pose[a] /\ y = u.pose[b] /\ d = b - a
        BY <1>2, <3>3, <3>4
      <3>7. t - a = 0 /\ d > 0
        BY <1>2, <1>6, <3>3, <3>4, <3>6
      <3>8. (y - x) * 0 = 0 /\ 0 \div d = 0
        BY <3>6, <3>7
      <3>9. x + 0 = x
        OBVIOUS
      <3> QED  BY <3>3, <3>5, <3>6, <3>7, <3>8, <3>9
    <2> QED  BY <2>1, <2>2
  <1>7. t <= lo => t < lo \/ t = lo
    BY <1>2
  <1> QED  BY <1>1, <1>4, <1>5, <1>6, <1>7

\* Before the first time code and after the last one, the pose is that of the nearest.
LEMMA PoseOutside ==
  ASSUME NEW u \in Sources, u.form = "usd", NEW t \in Int,
         NEW G, G = ToSet(KeyFrames(u).global), G # {},
         (\A g \in G : g < t) \/ (\A g \in G : t < g)
  PROVE  Pose(u, t) = Pose(u, BaseOf(G, t))
  <1>1. PICK S, b : S = TimeSamples(u.pose) /\ b = BaseOf(G, t)
    OBVIOUS
  <1>2. IsFiniteSet(S) /\ S \subseteq Int /\ \A s \in S : u.pose[s] \in Int
    BY <1>1, SamplesAreNumbers DEF SamplesAreNumbers
  <1>3. IsFiniteSet(G) /\ G \subseteq Int
    BY GlobalsAre
  <1>4. CASE S = {}
    BY <1>1, <1>4 DEF Pose
  <1>5. CASE S # {}
    <2>1. PICK lo, hi \in Int : lo = Min(S) /\ hi = Max(S)
      BY <1>2, <1>5, MinExists, MaxExists
    <2>2. Skel(u) = <<lo, hi>>
      BY <1>1, <1>5, <2>1 DEF Skel
    <2>3. (\E g \in G : g <= lo) /\ (\E g \in G : hi <= g)
      BY <2>2, SkelWithin
    <2>4. \A x \in Int : /\ x <= lo => Pose(u, x) = u.pose[lo]
                         /\ hi <= x => Pose(u, x) = u.pose[hi]
      BY <1>1, <1>2, <1>5, <2>1, PoseAtEnds
    <2>5. CASE \A g \in G : g < t
      <3>1. {g \in G : g <= t} = G
        BY <1>3, <2>5
      <3>2. b = Max(G)
        BY <1>1, <2>5, <3>1 DEF BaseOf
      <3>3. b \in Int /\ hi <= b /\ hi <= t
        BY <1>3, <2>1, <2>3, <2>5, <3>2, MaxExists
      <3> QED  BY <1>1, <2>4, <3>3
    <2>6. CASE \A g \in G : t < g
      <3>1. ~ \E g \in G : g <= t
        BY <1>3, <2>6
      <3>2. b = Min(G)
        BY <1>1, <3>1 DEF BaseOf
      <3>3. b \in Int /\ b <= lo /\ t <= lo
        BY <1>3, <2>1, <2>3, <2>6, <3>2, MinExists
      <3> QED  BY <1>1, <2>4, <3>3
    <2> QED  BY <2>5, <2>6
  <1> QED  BY <1>4, <1>5

\* The frames of a property are at its own samples or, without any, at the default time code.
AttribKeys(a) == IF TimeSamples(a) # {} THEN TimeSamples(a)
                 ELSE IF HasValue(a) THEN {NaN} ELSE {}

\* A channel of key frames has its keys among the global time codes, or is at the default one.
LEMMA KeysAre ==
  ASSUME NEW u \in Sources, u.form = "usd",
         NEW a \in {"pos", "topo", "uv", "nrm", "clr"}
  PROVE  \/ DOMAIN KeyFrames(u)[a].at \subseteq ToSet(KeyFrames(u).global)
         \/ DOMAIN KeyFrames(u)[a].at \subseteq {NaN}
  <1> DEFINE kf == KeyFrames(u)
             G == ToSet(kf.global)
             pos == PosFrames(u)
             topo == TopoFrames(u)
  <1>1. /\ TimeSamples(u.points) \subseteq G /\ TopoTcs(u) \subseteq G
        /\ TimeSamples(u.uv) \subseteq G /\ TimeSamples(u.nrm) \subseteq G
        /\ TimeSamples(u.clr) \subseteq G
    <2>1. SamplesOf(u) \subseteq G
      BY GlobalsAre
    <2> HIDE DEF G
    <2> QED  BY <2>1 DEF SamplesOf
  <1>2. kf.pos = pos /\ DOMAIN pos.at \subseteq TimeSamples(u.points)
    <2>1. kf.pos = pos
      BY DEF KeyFrames
    <2>2. DOMAIN PosFrames(u).at \subseteq TimeSamples(u.points)
      <3>1. CASE TimeSamples(u.points) = {}
        BY <3>1 DEF PosFrames, Constant
      <3>2. CASE TimeSamples(u.points) # {}
        BY <3>2 DEF PosFrames, Channel
      <3> QED  BY <3>1, <3>2
    <2> QED  BY <2>1, <2>2
  <1>3. kf.topo = topo /\ DOMAIN topo.at \subseteq TopoTcs(u)
    <2>1. kf.topo = topo
      BY DEF KeyFrames
    <2>2. DOMAIN TopoFrames(u).at \subseteq TopoTcs(u)
      <3>1. CASE TopoTcs(u) = {}
        BY <3>1 DEF TopoFrames, Constant
      <3>2. CASE TopoTcs(u) # {}
        BY <3>2 DEF TopoFrames, Channel
      <3> QED  BY <3>1, <3>2
    <2> QED  BY <2>1, <2>2
  <1>4. kf.uv = UvFrames(u, pos, topo) /\ DOMAIN kf.uv.at \subseteq AttribKeys(u.uv)
    <2>1. kf.uv = UvFrames(u, pos, topo)
      BY DEF KeyFrames
    <2> HIDE DEF pos, topo
    <2>2. DOMAIN UvFrames(u, pos, topo).at \subseteq AttribKeys(u.uv)
      BY DEF UvFrames, AttribFrames, Channel, AttribKeys
    <2> QED  BY <2>1, <2>2
  <1>5. kf.nrm = NormalFrames(u, pos, topo) /\ DOMAIN kf.nrm.at \subseteq AttribKeys(u.nrm)
    <2>1. kf.nrm = NormalFrames(u, pos, topo)
      BY DEF KeyFrames
    <2> HIDE DEF pos, topo
    <2>2. DOMAIN NormalFrames(u, pos, topo).at \subseteq AttribKeys(u.nrm)
      BY DEF NormalFrames, AttribFrames, Channel, AttribKeys
    <2> QED  BY <2>1, <2>2
  <1>6. kf.clr = ColorFrames(u, pos, topo) /\ DOMAIN kf.clr.at \subseteq AttribKeys(u.clr)
    <2>1. kf.clr = ColorFrames(u, pos, topo)
      BY DEF KeyFrames
    <2> HIDE DEF pos, topo
    <2>2. DOMAIN ColorFrames(u, pos, topo).at \subseteq AttribKeys(u.clr)
      BY DEF ColorFrames, AttribFrames, Channel, AttribKeys
    <2> QED  BY <2>1, <2>2
  <1>7. \A x : AttribKeys(x) \subseteq TimeSamples(x) \/ AttribKeys(x) \subseteq {NaN}
    BY DEF AttribKeys
  <1> HIDE DEF kf, G, pos, topo
  <1>8. CASE a = "pos"
    BY <1>1, <1>2, <1>8 DEF kf, G
  <1>9. CASE a = "topo"
    BY <1>1, <1>3, <1>9 DEF kf, G
  <1>10. CASE a = "uv"
    BY <1>1, <1>4, <1>7, <1>10 DEF kf, G
  <1>11. CASE a = "nrm"
    BY <1>1, <1>5, <1>7, <1>11 DEF kf, G
  <1>12. CASE a = "clr"
    BY <1>1, <1>6, <1>7, <1>12 DEF kf, G
  <1> QED  BY <1>8, <1>9, <1>10, <1>11, <1>12

\* Between two time codes, a channel whose keys are among them keeps its frame.
LEMMA FrameBetween ==
  ASSUME NEW G, IsFiniteSet(G), G \subseteq Int, G # {},
         NEW c, DOMAIN c.at \subseteq G, NEW t \in Int
  PROVE  Place(c, t) = Place(c, BaseOf(G, t))
  <1> DEFINE K == DOMAIN c.at
             b == BaseOf(G, t)
             U == {s \in G : s <= t}
  <1>1. ASSUME NEW x \in Int  PROVE {k \in K : ~Later(k, x)} = {k \in K : k <= x}
    <2>1. \A k \in K : k \in Int /\ (Later(k, x) <=> k > x)
      BY TimesAreNumbers DEF TimesAreNumbers, Later
    <2>2. \A k \in K : ~Later(k, x) <=> k <= x
      BY <2>1
    <2> QED  BY <2>2
  <1>2. CASE U # {}
    <2>1. U \in SUBSET G /\ U \subseteq Int
      OBVIOUS
    <2>2. Max(U) \in U /\ \A y \in U : Max(U) >= y
      <3> HIDE DEF U
      <3> QED  BY <1>2, <2>1, FS_Subset, MaxExists
    <2>3. b = Max(U)
      BY <1>2 DEF BaseOf
    <2>4. b \in Int /\ b <= t /\ \A y \in G : y <= t => y <= b
      <3> HIDE DEF b
      <3>1. b \in U /\ \A y \in U : b >= y
        BY <2>2, <2>3
      <3> QED  BY <3>1
    <2> HIDE DEF b, U
    <2>5. \A k \in K : k <= t <=> k <= b
      <3>1. ASSUME NEW k \in K  PROVE k <= t <=> k <= b
        <4>1. k \in Int /\ k \in G
          OBVIOUS
        <4> QED  BY <2>4, <4>1
      <3> QED  BY <3>1
    <2>6. {k \in K : ~Later(k, t)} = {k \in K : ~Later(k, b)}
      BY <1>1, <2>4, <2>5
    <2> QED  BY <2>6 DEF Place, SegmentOf, b
  <1>3. CASE U = {}
    <2>1. b = Min(G)
      BY <1>3 DEF BaseOf
    <2>2. b \in G /\ b \in Int /\ \A y \in G : b <= y
      BY <2>1, MinExists
    <2>3. {k \in K : ~Later(k, t)} = {}
      BY <1>1, <1>3
    <2> HIDE DEF b
    <2>4. {k \in K : ~Later(k, b)} \in SUBSET {b}
      <3>1. ASSUME NEW k \in K, k <= b  PROVE k = b
        <4>1. k \in Int /\ k \in G
          OBVIOUS
        <4> QED  BY <2>2, <3>1, <4>1
      <3> QED  BY <1>1, <2>2, <3>1
    <2>5. IsFiniteSet({b}) /\ Cardinality({b}) = 1
      BY FS_Singleton
    <2> DEFINE V == {k \in K : ~Later(k, b)}
    <2>6. Cardinality(V) \in Nat /\ Cardinality(V) <= 1
      <3> HIDE DEF V
      <3> QED  BY <2>4, <2>5, FS_Subset, FS_CardinalityType DEF V
    <2>7. Place(c, b) = 1
      <3>1. SegmentOf(c, b) = Cardinality(V)
        BY DEF SegmentOf
      <3> HIDE DEF V
      <3> QED  BY <2>6, <3>1 DEF Place
    <2>8. Place(c, t) = 1
      <3>1. SegmentOf(c, t) = 0
        BY <2>3, FS_EmptySet DEF SegmentOf
      <3> QED  BY <3>1 DEF Place
    <2> QED  BY <2>7, <2>8 DEF b
  <1> QED  BY <1>2, <1>3

\* A channel at the default time code alone has the same frame at every time code.
LEMMA FrameAlways ==
  ASSUME NEW c, DOMAIN c.at \subseteq {NaN}, NEW s, NEW t
  PROVE  Place(c, s) = Place(c, t)
  <1>1. ASSUME NEW x  PROVE {k \in DOMAIN c.at : ~Later(k, x)} = DOMAIN c.at
    <2>1. \A k \in DOMAIN c.at : ~Later(k, x)
      BY DEF Later
    <2> QED  BY <2>1
  <1>2. ASSUME NEW x  PROVE SegmentOf(c, x) = Cardinality(DOMAIN c.at)
    BY <1>1 DEF SegmentOf
  <1>3. SegmentOf(c, s) = Cardinality(DOMAIN c.at)
    BY <1>2
  <1>4. SegmentOf(c, t) = Cardinality(DOMAIN c.at)
    BY <1>2
  <1> QED  BY <1>3, <1>4 DEF Place

\* What a primitive holds at a time code is made of the frames of its channels.
ShapeFrom(p, pos, topo) ==
  LET Fit(o, n) == [a \in DOMAIN p.at[o] |-> Resized(p.at[o][a], n)]
  IN [p EXCEPT !.pos = pos, !.vert = topo.index, !.poly = topo.face,
               !.at["points"] = Fit("points", Len(pos)),
               !.at["verts"] = Fit("verts", Len(topo.index)),
               !.at["Poly_"] = Fit("Poly_", Len(topo.face))]

\* A property is assigned to its owner if the frames have samples or a default of it.
AttribFrom(p, kf, a, f) ==
  IF DOMAIN kf[a].at = {} /\ kf[a].default = None THEN p
  ELSE LET n == CASE f.owner = "points" -> Len(p.pos) [] f.owner = "verts" -> Len(p.vert)
                  [] OTHER -> Len(p.poly)
       IN Assign(p, f.owner, a, n, f.vals)

\* An update looks at the frames of a time code and at nothing else of it.
LEMMA UpdateOfFrames ==
  ASSUME NEW p, NEW kf, NEW s, NEW t,
         \A a \in {"pos", "topo", "uv", "nrm", "clr"} : Frame(kf[a], s) = Frame(kf[a], t)
  PROVE  Update(p, kf, s) = Update(p, kf, t)
  <1>1. ASSUME NEW x, NEW q
        PROVE  /\ UpdateShape(q, kf, x) = ShapeFrom(q, Frame(kf.pos, x), Frame(kf.topo, x))
               /\ UpdateAttrib(q, kf, "uv", x) = AttribFrom(q, kf, "uv", Frame(kf["uv"], x))
               /\ UpdateAttrib(q, kf, "nrm", x) = AttribFrom(q, kf, "nrm", Frame(kf["nrm"], x))
               /\ UpdateAttrib(q, kf, "clr", x) = AttribFrom(q, kf, "clr", Frame(kf["clr"], x))
    BY Zenon DEF UpdateShape, ShapeFrom, UpdateAttrib, AttribFrom
  <1>2. Frame(kf.pos, s) = Frame(kf.pos, t) /\ Frame(kf.topo, s) = Frame(kf.topo, t)
    OBVIOUS
  <1>3. \A q : UpdateShape(q, kf, s) = UpdateShape(q, kf, t)
    BY <1>1, <1>2, Zenon
  <1>4. /\ \A q : UpdateAttrib(q, kf, "uv", s) = UpdateAttrib(q, kf, "uv", t)
        /\ \A q : UpdateAttrib(q, kf, "nrm", s) = UpdateAttrib(q, kf, "nrm", t)
        /\ \A q : UpdateAttrib(q, kf, "clr", s) = UpdateAttrib(q, kf, "clr", t)
    BY <1>1, Zenon
  <1> QED  BY <1>3, <1>4, Zenon DEF Update

-----------------------------------------------------------------------------
(* The frames at a time code.                                              *)

\* Which key a channel of numbers takes at a time code: the last one at the default.
KeyAt(K, t) == IF t = NaN THEN Max(K) ELSE BaseOf(K, t)

\* The key is one of the channel's, the last one at the default time code.
LEMMA KeyAtIs ==
  ASSUME NEW K, IsFiniteSet(K), K \subseteq Int, K # {}, NEW t \in Int \cup {NaN}
  PROVE  /\ KeyAt(K, t) \in K
         /\ t = NaN => \A k \in K : k <= KeyAt(K, t)
         /\ t # NaN /\ (\E k \in K : k <= t) =>
              KeyAt(K, t) <= t /\ \A k \in K : k <= t => k <= KeyAt(K, t)
         /\ t # NaN /\ (\A k \in K : ~(k <= t)) => \A k \in K : KeyAt(K, t) <= k
  <1> DEFINE U == {k \in K : k <= t}
  <1>1. CASE t = NaN
    <2>1. KeyAt(K, t) = Max(K)
      BY <1>1 DEF KeyAt
    <2>2. Max(K) \in K /\ \A k \in K : Max(K) >= k
      BY MaxExists
    <2> QED  BY <1>1, <2>1, <2>2
  <1>2. CASE t # NaN /\ U # {}
    <2>1. KeyAt(K, t) = Max(U)
      BY <1>2 DEF KeyAt, BaseOf
    <2>2. U \in SUBSET K /\ U \subseteq Int
      OBVIOUS
    <2>3. Max(U) \in U /\ \A y \in U : Max(U) >= y
      <3> HIDE DEF U
      <3> QED  BY <1>2, <2>2, FS_Subset, MaxExists
    <2>4. PICK m : m = KeyAt(K, t)
      OBVIOUS
    <2>5. m \in U /\ \A y \in U : m >= y
      <3> HIDE DEF U
      <3> QED  BY <2>1, <2>3, <2>4
    <2>6. m \in K /\ m \in Int /\ m <= t /\ \A k \in K : k <= t => k <= m
      BY <2>5
    <2> QED  BY <1>2, <2>4, <2>6
  <1>3. CASE t # NaN /\ U = {}
    <2>1. KeyAt(K, t) = Min(K)
      BY <1>3 DEF KeyAt, BaseOf
    <2>2. Min(K) \in K /\ \A k \in K : Min(K) <= k
      BY MinExists
    <2>3. \A k \in K : ~(k <= t)
      BY <1>3
    <2> QED  BY <1>3, <2>1, <2>2, <2>3
  <1> QED  BY <1>1, <1>2, <1>3

\* The frame of a channel is the one at that key.
LEMMA FrameIs ==
  ASSUME NEW c, IsFiniteSet(DOMAIN c.at), DOMAIN c.at \subseteq Int, DOMAIN c.at # {},
         NEW t \in Int \cup {NaN}
  PROVE  Frame(c, t) = c.at[KeyAt(DOMAIN c.at, t)]
  <1>1. PICK K : K = DOMAIN c.at
    OBVIOUS
  <1>2. PICK b : b = KeyAt(K, t)
    OBVIOUS
  <1>3. /\ b \in K
        /\ t = NaN => \A k \in K : k <= b
        /\ t # NaN /\ (\E k \in K : k <= t) => b <= t /\ \A k \in K : k <= t => k <= b
        /\ t # NaN /\ (\A k \in K : ~(k <= t)) => \A k \in K : b <= k
    BY <1>1, <1>2, KeyAtIs
  <1>4. IsFiniteSet(K) /\ K \subseteq Int /\ NaN \notin K
    BY <1>1, TimesAreNumbers DEF TimesAreNumbers
  <1>5. /\ Rank(K, b) \in 1 .. Cardinality(K) /\ Cardinality(K) \in Nat
        /\ InOrder(K)[Rank(K, b)] = b /\ Len(InOrder(K)) = Cardinality(K)
    BY <1>3, <1>4, RanksAre, InOrderIs
  <1>6. Frame(c, t) = c.at[InOrder(K)[Place(c, t)]]
    <2>1. InOrder(K) # <<>>
      <3>1. Len(InOrder(K)) # 0
        BY <1>5
      <3> QED  BY <3>1
    <2> QED  BY <1>1, <1>4, <2>1 DEF Frame, Place
  <1>7. Place(c, t) = Rank(K, b)
    <2> DEFINE L == {k \in K : ~Later(k, t)}
               R == {y \in K : y <= b}
    <2>1. CASE t = NaN \/ \E k \in K : k <= t
      <3>1. ASSUME NEW k \in K  PROVE ~Later(k, t) <=> k <= b
        <4>1. k \in Int /\ b \in Int /\ k # NaN
          BY <1>3, <1>4
        <4>2. CASE t = NaN
          BY <1>3, <4>2 DEF Later
        <4>3. CASE t # NaN
          <5>1. t \in Int /\ b <= t /\ (k <= t => k <= b)
            BY <1>3, <2>1, <4>3
          <5> QED  BY <4>1, <4>3, <5>1 DEF Later
        <4> QED  BY <4>2, <4>3
      <3>2. L = R
        BY <3>1
      <3>3. SegmentOf(c, t) = Rank(K, b)
        BY <1>1, <3>2 DEF SegmentOf, Rank
      <3> QED  BY <1>5, <3>3 DEF Place
    <2>2. CASE t # NaN /\ \A k \in K : ~(k <= t)
      <3>1. L = {}
        <4>1. ASSUME NEW k \in K  PROVE Later(k, t)
          <5>1. k \in Int /\ k # NaN /\ t \in Int /\ ~(k <= t)
            BY <1>4, <2>2
          <5> QED  BY <2>2, <5>1 DEF Later
        <4> QED  BY <4>1
      <3>2. SegmentOf(c, t) = 0
        BY <1>1, <3>1, FS_EmptySet DEF SegmentOf
      <3>3. R = {b}
        <4>1. ASSUME NEW k \in K, k <= b  PROVE k = b
          <5>1. k \in Int /\ b \in Int /\ b <= k
            BY <1>3, <1>4, <2>2
          <5> QED  BY <4>1, <5>1
        <4>2. b <= b
          BY <1>3, <1>4
        <4> QED  BY <1>3, <4>1, <4>2
      <3>4. Rank(K, b) = 1
        BY <3>3, FS_Singleton DEF Rank
      <3> QED  BY <3>2, <3>4 DEF Place
    <2> QED  BY <2>1, <2>2
  <1> QED  BY <1>1, <1>2, <1>5, <1>6, <1>7

\* An attribute holds at that key what it shows at the time code, if it has no other samples
\* than the keys.
LEMMA HeldIs ==
  ASSUME NEW K, IsFiniteSet(K), K \subseteq Int, K # {}, NEW t \in Int \cup {NaN},
         NEW a, TimeSamples(a) \subseteq K
  PROVE  Held(a, KeyAt(K, t)) = AsOf(a, t)
  <1>1. PICK T : T = TimeSamples(a)
    OBVIOUS
  <1>2. PICK b : b = KeyAt(K, t)
    OBVIOUS
  <1>3. /\ b \in K
        /\ t = NaN => \A k \in K : k <= b
        /\ t # NaN /\ (\E k \in K : k <= t) => b <= t /\ \A k \in K : k <= t => k <= b
        /\ t # NaN /\ (\A k \in K : ~(k <= t)) => \A k \in K : b <= k
    BY <1>2, KeyAtIs
  <1>4. b \in Int /\ b # NaN
    BY <1>3, TimesAreNumbers DEF TimesAreNumbers
  <1>5. CASE T = {}
    <2>1. \A x : Held(a, x) = IF NaN \in DOMAIN a THEN a[NaN] ELSE <<>>
      BY <1>1, <1>5 DEF Held
    <2> QED  BY <1>1, <1>2, <1>5, <2>1 DEF AsOf
  <1>6. CASE T # {}
    <2>1. T \subseteq K /\ T \subseteq Int
      BY <1>1
    <2>2. ASSUME NEW x, x # NaN
          PROVE  Held(a, x) = IF \E s \in T : s <= x THEN a[Max({s \in T : s <= x})] ELSE a[Min(T)]
      BY <1>1, <1>6, <2>2 DEF Held
    <2>3. CASE t = NaN
      <3>1. AsOf(a, t) = a[Max(T)]
        BY <1>1, <1>6, <2>3 DEF AsOf
      <3>2. \A s \in T : s <= b
        BY <1>3, <2>1, <2>3
      <3>3. {s \in T : s <= b} = T
        BY <3>2
      <3> QED  BY <1>2, <1>4, <1>6, <2>2, <3>1, <3>2, <3>3
    <2>4. CASE t # NaN
      <3>1. AsOf(a, t) = Held(a, t) /\ t \in Int
        BY <2>4 DEF AsOf
      <3>2. CASE \E k \in K : k <= t
        <4>1. \A s \in T : s <= b <=> s <= t
          <5>1. ASSUME NEW s \in T  PROVE s <= b <=> s <= t
            <6>1. s \in Int /\ s \in K
              BY <2>1
            <6>2. b <= t /\ (s <= t => s <= b)
              BY <1>3, <2>4, <3>2, <6>1
            <6> QED  BY <1>4, <3>1, <6>1, <6>2
          <5> QED  BY <5>1
        <4>2. {s \in T : s <= b} = {s \in T : s <= t}
          BY <4>1
        <4> QED  BY <1>2, <1>4, <2>2, <2>4, <3>1, <4>1, <4>2
      <3>3. CASE \A k \in K : ~(k <= t)
        <4>1. ~ \E s \in T : s <= t
          BY <2>1, <3>3
        <4>2. Held(a, t) = a[Min(T)]
          BY <2>2, <2>4, <4>1
        <4>3. \A s \in T : b <= s
          BY <1>3, <2>1, <2>4, <3>3
        <4>4. CASE \E s \in T : s <= b
          <5>1. PICK s \in T : s <= b
            BY <4>4
          <5>2. s = b
            BY <1>4, <2>1, <4>3, <5>1
          <5>3. {x \in T : x <= b} = {b}
            <6>1. \A x \in T : x <= b => x = b
              BY <1>4, <2>1, <4>3
            <6> QED  BY <5>1, <5>2, <6>1
          <5>4. Max({b}) = b
            <6>1. IsFiniteSet({b}) /\ {b} \subseteq Int /\ {b} # {}
              BY <1>4, FS_Singleton
            <6>2. Max({b}) \in {b}
              BY <6>1, MaxExists
            <6> QED  BY <6>2
          <5>5. Min(T) = b
            <6>1. IsFiniteSet(T)
              BY <2>1, FS_Subset
            <6>2. Min(T) \in T /\ \A y \in T : Min(T) <= y
              BY <1>6, <2>1, <6>1, MinExists
            <6>3. Min(T) <= b /\ b <= Min(T) /\ Min(T) \in Int
              BY <2>1, <4>3, <5>1, <5>2, <6>2
            <6> QED  BY <1>4, <6>3
          <5>6. Held(a, b) = a[Max({x \in T : x <= b})]
            BY <1>4, <2>2, <4>4
          <5> QED  BY <1>2, <3>1, <4>2, <5>3, <5>4, <5>5, <5>6
        <4>5. CASE ~ \E s \in T : s <= b
          BY <1>2, <1>4, <2>2, <3>1, <4>2, <4>5
        <4> QED  BY <4>4, <4>5
      <3> QED  BY <3>2, <3>3
    <2> QED  BY <2>3, <2>4
  <1> QED  BY <1>5, <1>6

\* A channel without keys has its default value as its frame.
LEMMA ConstantIs ==
  ASSUME NEW v, NEW t
  PROVE  Frame(Constant(v), t) = v
  <1>1. IsFiniteSet({}) /\ {} \subseteq Int /\ Cardinality({}) = 0
    BY FS_EmptySet
  <1> DEFINE E == {x \in Int : FALSE}
  <1>2. E = {}
    OBVIOUS
  <1>3. InOrder(E) \in Seq(E) /\ Len(InOrder(E)) = 0
    <2>1. IsFiniteSet(E) /\ E \subseteq Int /\ Cardinality(E) = 0
      BY <1>1, <1>2
    <2> HIDE DEF E
    <2> QED  BY <2>1, InOrderIs
  <1> HIDE DEF E
  <1>4. InOrder(E) = <<>>
    BY <1>3
  <1>5. DOMAIN Constant(v).at = {} /\ Constant(v).default = v
    BY DEF Constant
  <1> QED  BY <1>2, <1>4, <1>5 DEF Frame

\* The time codes that a source is brought to, and what its frames are.
MeshTimes(s) == Times \cup {StartOf(s)}
FramesOf(s)  == IF s.form = "usd" THEN KeyFrames(s)
                ELSE IF s.form = "trimesh" THEN TriMeshFrames(s) ELSE NoFrames

\* The points, faces and corners of a source at a time code.
PosAt(s, t) == IF s.form = "usd" THEN AsOf(s.points, t) ELSE s.nodes
TopoAt(s, t) ==
  IF s.form = "usd"
  THEN [face  |-> Polys(AsOf(s.counts, t)),
        index |-> Oriented(Polys(AsOf(s.counts, t)), AsOf(s.indices, t), s.left)]
  ELSE [face  |-> Polys([i \in 1 .. Len(s.elems) |-> 3]), index |-> FlattenSeq(s.elems)]

\* A source is built at a number or at the default time code.
LEMMA StartIs ==
  ASSUME NEW s \in Sources
  PROVE  /\ MeshTimes(s) \subseteq Int \cup {NaN}
         /\ s.form = "usd" => StartOf(s) \in {NaN} \cup ToSet(KeyFrames(s).global)
         /\ s.form # "usd" => StartOf(s) = NaN
  <1>1. CASE s.form = "usd"
    <2>1. /\ IsFiniteSet(ToSet(KeyFrames(s).global)) /\ ToSet(KeyFrames(s).global) \subseteq Int
          /\ SamplesOf(s) \subseteq ToSet(KeyFrames(s).global)
      BY <1>1, GlobalsAre
    <2>2. TotalTcs(s) \in Seq(Int) /\ ToSet(TotalTcs(s)) = SamplesOf(s)
      BY <1>1, TotalsAre
    <2>3. PICK tcs \in Seq(Int) : tcs = TotalTcs(s)
      BY <2>2
    <2>4. CASE tcs # <<>>
      <3>1. StartOf(s) = tcs[1]
        BY <1>1, <2>3, <2>4 DEF StartOf, InitialTc
      <3>2. 1 \in DOMAIN tcs
        BY <2>4
      <3>3. tcs[1] \in ToSet(tcs)
        BY <3>2 DEF ToSet
      <3>4. StartOf(s) \in ToSet(KeyFrames(s).global)
        BY <2>1, <2>2, <2>3, <3>1, <3>3
      <3> QED  BY <1>1, <2>1, <3>4, TimesAreNumbers DEF MeshTimes, TimesAreNumbers
    <2>5. CASE tcs = <<>> /\ Skel(s) # None
      <3>1. PICK a, b \in Int : Skel(s) = <<a, b>>
        BY <1>1, <2>5, SkelIs
      <3>2. KeyFrames(s).global = <<a, b>>
        <4>1. KeyFrames(s).global = GlobalTcs(TotalTcs(s), Skel(s))
          BY DEF KeyFrames
        <4>2. GlobalTcs(<<>>, Skel(s)) = Skel(s)
          BY <2>5 DEF GlobalTcs
        <4> QED  BY <2>3, <2>5, <3>1, <4>1, <4>2
      <3>3. StartOf(s) = a
        <4>1. StartOf(s) = Skel(s)[1]
          BY <1>1, <2>3, <2>5 DEF StartOf, InitialTc
        <4> QED  BY <3>1, <4>1
      <3>4. a \in ToSet(<<a, b>>)
        <4>1. 1 \in DOMAIN <<a, b>> /\ <<a, b>>[1] = a
          OBVIOUS
        <4> QED  BY <4>1 DEF ToSet
      <3> QED  BY <1>1, <3>2, <3>3, <3>4, TimesAreNumbers DEF MeshTimes, TimesAreNumbers
    <2>6. CASE tcs = <<>> /\ Skel(s) = None
      <3>1. StartOf(s) = NaN
        BY <1>1, <2>3, <2>6 DEF StartOf, InitialTc
      <3> QED  BY <1>1, <3>1, TimesAreNumbers DEF MeshTimes, TimesAreNumbers
    <2> QED  BY <2>4, <2>5, <2>6
  <1>2. CASE s.form # "usd"
    BY <1>2, TimesAreNumbers DEF MeshTimes, StartOf, TimesAreNumbers
  <1> QED  BY <1>1, <1>2

\* A frame of faces, made of the sizes and indices of a time code that has corners.
LEMMA TopoOfIs ==
  ASSUME NEW u, NEW t, NEW sizes, NEW ids,
         Held(u.counts, t) = sizes, Held(u.indices, t) = ids, sizes # <<>>, ids # <<>>
  PROVE  TopoOf(u, t) = [face |-> Polys(sizes), index |-> Oriented(Polys(sizes), ids, u.left)]
  <1>1. Sizes(u, t) = sizes /\ Indices(u, t) = ids
    BY DEF Sizes, Indices
  <1> QED  BY <1>1 DEF TopoOf

\* The points and the faces of a USD mesh at a time code.
LEMMA UsdIs ==
  ASSUME NEW s \in Sources, s.form = "usd", NEW t \in MeshTimes(s)
  PROVE  /\ AsOf(s.points, t) \in Seq(Int) /\ AsOf(s.counts, t) \in Seq(Nat)
         /\ AsOf(s.indices, t) \in Seq(1 .. Len(AsOf(s.points, t)))
         /\ AsOf(s.indices, t) # <<>> /\ AsOf(s.counts, t) # <<>>
         /\ Len(AsOf(s.indices, t)) = SumTo(AsOf(s.counts, t), Len(AsOf(s.counts, t)))
         /\ s.left \in BOOLEAN
  <1>1. PICK pos, sizes, ids : pos = AsOf(s.points, t) /\ sizes = AsOf(s.counts, t)
                               /\ ids = AsOf(s.indices, t)
    OBVIOUS
  <1>2. /\ pos \in Seq(Int) /\ sizes \in Seq(Nat)
        /\ ids \in Seq(1 .. Len(pos)) /\ ids # <<>>
        /\ Len(ids) = SumTo(sizes, Len(sizes))
        /\ s.left \in BOOLEAN
    BY <1>1, SourcesAreMeshes DEF SourcesAreMeshes, MeshTimes
  <1>3. sizes # <<>>
    <2>1. SUFFICES ASSUME sizes = <<>>  PROVE FALSE
      OBVIOUS
    <2>2. Len(sizes) = 0
      BY <2>1
    <2>3. SumTo(sizes, 0) = 0
      <3>1. 0 \in Nat /\ \A i \in 1 .. 0 : sizes[i] \in Nat
        OBVIOUS
      <3> QED  BY <3>1, SumToIs
    <2>4. Len(ids) = 0
      BY <1>2, <2>2, <2>3
    <2> QED  BY <1>2, <2>4
  <1> QED  BY <1>1, <1>2, <1>3

\* The frames of a source at a time code are its points, faces and corners there.
LEMMA ShapeAtIs ==
  ASSUME NEW s \in Sources, s.form \in {"usd", "trimesh"}, NEW t \in MeshTimes(s)
  PROVE  /\ Frame(FramesOf(s).pos, t) = PosAt(s, t)
         /\ Frame(FramesOf(s).topo, t) = TopoAt(s, t)
  <1>1. CASE s.form = "trimesh"
    <2>1. /\ FramesOf(s).pos = Constant(PosAt(s, t))
          /\ FramesOf(s).topo = Constant(TopoAt(s, t))
      BY <1>1 DEF FramesOf, TriMeshFrames, PosAt, TopoAt
    <2> QED  BY <2>1, ConstantIs
  <1>2. CASE s.form = "usd"
    <2>1. /\ \A f \in {"points", "counts", "indices"} :
               IsFiniteSet(TimeSamples(s[f])) /\ TimeSamples(s[f]) \subseteq Int
      BY <1>2, SamplesAreNumbers DEF SamplesAreNumbers
    <2>2. t \in Int \cup {NaN}
      BY StartIs
    <2>3. /\ IsFiniteSet(TimeSamples(s.points)) /\ TimeSamples(s.points) \subseteq Int
          /\ IsFiniteSet(TimeSamples(s.counts)) /\ TimeSamples(s.counts) \subseteq Int
          /\ IsFiniteSet(TimeSamples(s.indices)) /\ TimeSamples(s.indices) \subseteq Int
      BY <2>1
    <2>4. FramesOf(s).pos = PosFrames(s) /\ FramesOf(s).topo = TopoFrames(s)
      BY <1>2 DEF FramesOf, KeyFrames
    <2>5. Frame(PosFrames(s), t) = AsOf(s.points, t)
      <3>1. PICK K : K = TimeSamples(s.points)
        OBVIOUS
      <3>2. CASE K = {}
        <4>1. Frame(PosFrames(s), t) = Held(s.points, NaN)
          BY <3>1, <3>2, ConstantIs DEF PosFrames, Positions
        <4>2. Held(s.points, NaN) = Held(s.points, t) /\ AsOf(s.points, t) = Held(s.points, t)
          BY <3>1, <3>2 DEF Held, AsOf
        <4> QED  BY <4>1, <4>2
      <3>3. CASE K # {}
        <4>1. PICK c : c = PosFrames(s)
          OBVIOUS
        <4>2. DOMAIN c.at = K /\ \A k \in K : c.at[k] = Held(s.points, k)
          BY <3>1, <3>3, <4>1 DEF PosFrames, Channel, Positions
        <4>3. Frame(c, t) = c.at[KeyAt(K, t)] /\ KeyAt(K, t) \in K
          BY <2>2, <2>3, <3>1, <3>3, <4>2, FrameIs, KeyAtIs
        <4>4. Held(s.points, KeyAt(K, t)) = AsOf(s.points, t)
          <5>1. PICK a : a = s.points
            OBVIOUS
          <5>2. Held(a, KeyAt(K, t)) = AsOf(a, t)
            BY <2>2, <2>3, <3>1, <3>3, <5>1, HeldIs
          <5> QED  BY <5>1, <5>2
        <4> QED  BY <4>1, <4>2, <4>3, <4>4
      <3> QED  BY <3>2, <3>3
    <2>6. PICK sizes, ids : sizes = AsOf(s.counts, t) /\ ids = AsOf(s.indices, t)
      OBVIOUS
    <2>7. sizes # <<>> /\ ids # <<>>
      BY <1>2, <2>6, UsdIs
    <2>8. TopoAt(s, t) = [face |-> Polys(sizes), index |-> Oriented(Polys(sizes), ids, s.left)]
      BY <1>2, <2>6 DEF TopoAt
    <2>9. Frame(TopoFrames(s), t) = TopoAt(s, t)
      <3>1. PICK K : K = TopoTcs(s)
        OBVIOUS
      <3>2. IsFiniteSet(K) /\ K \subseteq Int
        BY <2>3, <3>1, FS_Union DEF TopoTcs
      <3>3. TimeSamples(s.counts) \subseteq K /\ TimeSamples(s.indices) \subseteq K
        BY <3>1 DEF TopoTcs
      <3>4. CASE K = {}
        <4>1. Frame(TopoFrames(s), t) = TopoOf(s, NaN)
          BY <3>1, <3>4, ConstantIs DEF TopoFrames
        <4>2. TimeSamples(s.counts) = {} /\ TimeSamples(s.indices) = {}
          BY <3>3, <3>4
        <4>3. /\ Held(s.counts, NaN) = Held(s.counts, t) /\ AsOf(s.counts, t) = Held(s.counts, t)
              /\ Held(s.indices, NaN) = Held(s.indices, t)
              /\ AsOf(s.indices, t) = Held(s.indices, t)
          BY <4>2 DEF Held, AsOf
        <4>4. TopoOf(s, NaN) = [face |-> Polys(sizes),
                          index |-> Oriented(Polys(sizes), ids, s.left)]
          BY <2>6, <2>7, <4>3, TopoOfIs
        <4> QED  BY <2>8, <4>1, <4>4
      <3>5. CASE K # {}
        <4>1. PICK c : c = TopoFrames(s)
          OBVIOUS
        <4>2. DOMAIN c.at = K /\ \A k \in K : c.at[k] = TopoOf(s, k)
          BY <3>1, <3>5, <4>1 DEF TopoFrames, Channel
        <4>3. PICK b : b = KeyAt(K, t)
          OBVIOUS
        <4>4. Frame(c, t) = c.at[b] /\ b \in K
          BY <2>2, <3>2, <3>5, <4>2, <4>3, FrameIs, KeyAtIs
        <4>5. Held(s.counts, b) = sizes /\ Held(s.indices, b) = ids
          <5>1. PICK x, y : x = s.counts /\ y = s.indices
            OBVIOUS
          <5>2. Held(x, KeyAt(K, t)) = AsOf(x, t)
            BY <2>2, <3>2, <3>3, <3>5, <5>1, HeldIs
          <5>3. Held(y, KeyAt(K, t)) = AsOf(y, t)
            BY <2>2, <3>2, <3>3, <3>5, <5>1, HeldIs
          <5> QED  BY <2>6, <4>3, <5>1, <5>2, <5>3
        <4>6. TopoOf(s, b) = [face |-> Polys(sizes), index |-> Oriented(Polys(sizes), ids, s.left)]
          BY <2>7, <4>5, TopoOfIs
        <4> QED  BY <2>8, <4>1, <4>2, <4>4, <4>6
      <3> QED  BY <3>4, <3>5
    <2>10. PosAt(s, t) = AsOf(s.points, t)
      BY <1>2 DEF PosAt
    <2> QED  BY <2>4, <2>5, <2>9, <2>10
  <1> QED  BY <1>1, <1>2

-----------------------------------------------------------------------------
(* The mesh that a source is at a time code.                               *)

\* What a polygon is.
Ranges == [off : Nat, size : Nat]

\* Polygons of some sizes lie one behind the other.
LEMMA PolysAre ==
  ASSUME NEW sizes \in Seq(Nat)
  PROVE  LET poly == Polys(sizes)
             n == Len(sizes)
         IN /\ poly \in Seq(Ranges) /\ Len(poly) = n
            /\ \A f \in 1 .. n : /\ poly[f].size = sizes[f]
                                 /\ poly[f].off = SumTo(sizes, f - 1)
                                 /\ poly[f].off + poly[f].size <= SumTo(sizes, n)
            /\ SumTo(sizes, n) \in Nat
  <1> DEFINE poly == Polys(sizes)
             n == Len(sizes)
  <1>1. n \in Nat /\ DOMAIN sizes = 1 .. n /\ \A f \in 1 .. n : sizes[f] \in Nat
    OBVIOUS
  <1>2. poly = [f \in 1 .. n |-> [off |-> SumTo(sizes, f - 1), size |-> sizes[f]]]
    BY <1>1 DEF Polys
  <1> HIDE DEF poly, n
  <1>3. /\ \A i \in 0 .. n : SumTo(sizes, i) \in Nat
        /\ \A i \in 1 .. n : SumTo(sizes, i) = SumTo(sizes, i - 1) + sizes[i]
    BY <1>1, SumToIs
  <1>4. \A i, j \in 0 .. n : i <= j => SumTo(sizes, i) <= SumTo(sizes, j)
    BY <1>1, SumToGrows
  <1>5. n \in 0 .. n /\ \A f \in 1 .. n : f \in 0 .. n /\ f - 1 \in 0 .. n /\ f <= n
    BY <1>1
  <1>6. ASSUME NEW f \in 1 .. n
        PROVE  /\ poly[f] \in Ranges /\ poly[f].size = sizes[f]
               /\ poly[f].off = SumTo(sizes, f - 1)
               /\ poly[f].off + poly[f].size <= SumTo(sizes, n)
    <2>1. poly[f] = [off |-> SumTo(sizes, f - 1), size |-> sizes[f]]
      BY <1>2
    <2>2. SumTo(sizes, f - 1) \in Nat /\ sizes[f] \in Nat
      BY <1>1, <1>3, <1>5
    <2>3. SumTo(sizes, f - 1) + sizes[f] <= SumTo(sizes, n)
      <3>1. SumTo(sizes, f) <= SumTo(sizes, n)
        BY <1>4, <1>5
      <3> QED  BY <1>3, <3>1
    <2> QED  BY <2>1, <2>2, <2>3 DEF Ranges
  <1>7. poly \in Seq(Ranges) /\ Len(poly) = n
    <2>1. poly \in [1 .. n -> Ranges]
      BY <1>2, <1>6
    <2> QED  BY <1>1, <2>1
  <1>8. SumTo(sizes, n) \in Nat
    BY <1>3, <1>5
  <1> QED  BY <1>6, <1>7, <1>8 DEF poly, n

\* The corners of faces, flattened, are found through the polygons of their sizes.
LEMMA LaidOut ==
  ASSUME NEW S, NEW ss \in Seq(Seq(S)), NEW sizes \in Seq(Nat), Len(sizes) = Len(ss),
         \A f \in 1 .. Len(ss) : Len(ss[f]) = sizes[f]
  PROVE  /\ FlattenSeq(ss) \in Seq(S) /\ Len(FlattenSeq(ss)) = SumTo(sizes, Len(sizes))
         /\ \A f \in 1 .. Len(sizes) : \A i \in 1 .. sizes[f] :
              /\ Polys(sizes)[f].off + i \in 1 .. Len(FlattenSeq(ss))
              /\ FlattenSeq(ss)[Polys(sizes)[f].off + i] = ss[f][i]
  <1>1. Lens(ss) = sizes
    <2>1. DOMAIN sizes = 1 .. Len(ss) /\ sizes = [f \in 1 .. Len(ss) |-> sizes[f]]
      OBVIOUS
    <2> QED  BY <2>1 DEF Lens
  <1>2. \A f \in 1 .. Len(sizes) : Polys(sizes)[f].off = SumTo(sizes, f - 1)
    BY PolysAre
  <1> DEFINE c == FlattenSeq(ss)
  <1>3. /\ c \in Seq(S) /\ Len(c) = SumTo(Lens(ss), Len(ss))
        /\ \A i \in 1 .. Len(ss) : \A j \in 1 .. Len(ss[i]) :
             /\ SumTo(Lens(ss), i - 1) + j \in 1 .. Len(c)
             /\ c[SumTo(Lens(ss), i - 1) + j] = ss[i][j]
    BY FlattenAt
  <1> HIDE DEF c
  <1>4. \A f \in 1 .. Len(sizes) : \A i \in 1 .. sizes[f] :
          Polys(sizes)[f].off + i \in 1 .. Len(c) /\ c[Polys(sizes)[f].off + i] = ss[f][i]
    BY <1>1, <1>2, <1>3
  <1> QED  BY <1>1, <1>3, <1>4 DEF c

\* A triangle is a sequence.
LEMMA TripleIs ==
  ASSUME NEW S, NEW x \in [1 .. 3 -> S]
  PROVE  x \in Seq(S) /\ Len(x) = 3
  <1>1. PICK n \in Nat : n = 3
    OBVIOUS
  <1>2. x \in [1 .. n -> S]
    BY <1>1
  <1>3. x \in Seq(S) /\ Len(x) = n
    BY <1>2
  <1> QED  BY <1>1, <1>3

\* The points of the corners of a face of a source.
CornerAt(s, t, f, i) ==
  IF s.form = "usd"
  THEN LET p == Polys(AsOf(s.counts, t))[f]
       IN AsOf(s.indices, t)[IF s.left /\ i > 1 THEN p.off + p.size + 2 - i ELSE p.off + i]
  ELSE s.elems[f][i]

\* The sizes of the faces of a source.
SizesAt(s, t) == IF s.form = "usd" THEN AsOf(s.counts, t) ELSE [f \in 1 .. Len(s.elems) |-> 3]

\* A source is a mesh: each corner of a face is one of its points.
LEMMA TopoIs ==
  ASSUME NEW s \in Sources, s.form \in {"usd", "trimesh"}, NEW t \in MeshTimes(s)
  PROVE  LET pos == PosAt(s, t)
             sizes == SizesAt(s, t)
             poly == TopoAt(s, t).face
             vert == TopoAt(s, t).index
         IN /\ pos \in Seq(Int)
            /\ sizes \in Seq(Nat) /\ sizes # <<>> /\ poly = Polys(sizes)
            /\ vert \in Seq(1 .. Len(pos)) /\ Len(vert) = SumTo(sizes, Len(sizes))
            /\ vert # <<>>
            /\ \A f \in 1 .. Len(sizes) : \A i \in 1 .. sizes[f] :
                 /\ poly[f].off + i \in 1 .. Len(vert)
                 /\ vert[poly[f].off + i] = CornerAt(s, t, f, i)
  <1>1. CASE s.form = "usd"
    <2>1. PICK pos, sizes, ids : pos = AsOf(s.points, t) /\ sizes = AsOf(s.counts, t)
                                 /\ ids = AsOf(s.indices, t)
      OBVIOUS
    <2>2. /\ pos \in Seq(Int) /\ sizes \in Seq(Nat) /\ sizes # <<>>
          /\ ids \in Seq(1 .. Len(pos)) /\ ids # <<>> /\ Len(ids) = SumTo(sizes, Len(sizes))
          /\ s.left \in BOOLEAN
      BY <1>1, <2>1, UsdIs
    <2>3. PICK poly : poly = Polys(sizes)
      OBVIOUS
    <2>4. PICK left \in BOOLEAN : left = s.left
      BY <2>2
    <2> DEFINE n == Len(sizes)
               S == 1 .. Len(pos)
               place(f, i) == IF left /\ i > 1 THEN poly[f].off + poly[f].size + 2 - i
                                               ELSE poly[f].off + i
               part(f) == [i \in 1 .. poly[f].size |-> At(ids, place(f, i))]
               ss == [f \in 1 .. n |-> part(f)]
    <2>5. /\ n \in Nat /\ Len(poly) = n /\ DOMAIN poly = 1 .. n
          /\ \A f \in 1 .. n : /\ poly[f].off \in Nat /\ poly[f].size \in Nat
                               /\ poly[f].size = sizes[f]
                               /\ poly[f].off + poly[f].size <= Len(ids)
      <3>1. /\ poly \in Seq(Ranges) /\ Len(poly) = n
            /\ \A f \in 1 .. n : /\ poly[f].size = sizes[f]
                                 /\ poly[f].off + poly[f].size <= SumTo(sizes, n)
        BY <2>2, <2>3, PolysAre
      <3>2. n \in Nat /\ DOMAIN poly = 1 .. n /\ \A f \in 1 .. n : poly[f] \in Ranges
        BY <3>1
      <3> QED  BY <2>2, <3>1, <3>2 DEF Ranges
    <2>6. Oriented(poly, ids, left) = FlattenSeq(ss)
      BY <2>5 DEF Oriented
    <2>7. TopoAt(s, t) = [face |-> poly, index |-> FlattenSeq(ss)]
      BY <1>1, <2>1, <2>3, <2>4, <2>6 DEF TopoAt
    <2>8. ASSUME NEW f \in 1 .. n, NEW i \in 1 .. poly[f].size
          PROVE  place(f, i) \in 1 .. Len(ids) /\ At(ids, place(f, i)) = ids[place(f, i)]
                 /\ ids[place(f, i)] \in S
      <3>1. PICK o, z, m : o = poly[f].off /\ z = poly[f].size /\ m = Len(ids)
        OBVIOUS
      <3>0. o \in Nat /\ z \in Nat /\ m \in Nat
        BY <2>2, <2>5, <3>1
      <3>2. o + z <= m /\ i \in 1 .. z
        BY <2>5, <3>1
      <3> HIDE DEF S, n
      <3>3. i > 1 => o + z + 2 - i \in 1 .. m
        BY <3>0, <3>2
      <3>4. o + i \in 1 .. m
        BY <3>0, <3>2
      <3>5. place(f, i) \in 1 .. Len(ids)
        BY <3>1, <3>3, <3>4
      <3> HIDE DEF place
      <3> QED  BY <2>2, <3>5 DEF At, S
    <2>9. ss \in Seq(Seq(S)) /\ Len(ss) = n /\ \A f \in 1 .. n : Len(ss[f]) = sizes[f]
      <3>1. ASSUME NEW f \in 1 .. n  PROVE ss[f] \in Seq(S) /\ Len(ss[f]) = sizes[f]
        <4>1. PICK z \in Nat : z = poly[f].size
          BY <2>5
        <4>2. PICK q : q = ss[f]
          OBVIOUS
        <4>3. q = part(f)
          BY <4>2
        <4>4. q = [i \in 1 .. z |-> At(ids, place(f, i))]
          BY <4>1, <4>3
        <4>5. \A i \in 1 .. z : At(ids, place(f, i)) \in S
          BY <2>8, <4>1
        <4> HIDE DEF place, S, ss, part
        <4>6. q \in [1 .. z -> S]
          BY <4>4, <4>5
        <4>7. q \in Seq(S) /\ Len(q) = z
          BY <4>6
        <4> QED  BY <2>5, <4>1, <4>2, <4>7
      <3>2. ss \in [1 .. n -> Seq(S)]
        <4>1. ss = [f \in 1 .. n |-> ss[f]]
          OBVIOUS
        <4> HIDE DEF ss
        <4> QED  BY <3>1, <4>1
      <3> HIDE DEF ss, n, S
      <3> QED  BY <2>5, <3>1, <3>2
    <2>10. \A f \in 1 .. n : \A i \in 1 .. sizes[f] : ss[f][i] = CornerAt(s, t, f, i)
      <3> SUFFICES ASSUME NEW f \in 1 .. n, NEW i \in 1 .. sizes[f]
                   PROVE  ss[f][i] = CornerAt(s, t, f, i)
        OBVIOUS
      <3>1. i \in 1 .. poly[f].size
        BY <2>5
      <3>2. ss[f][i] = At(ids, place(f, i))
        BY <3>1
      <3>3. At(ids, place(f, i)) = ids[place(f, i)]
        BY <2>8, <3>1
      <3>4. CornerAt(s, t, f, i) = ids[place(f, i)]
        BY <1>1, <2>1, <2>3, <2>4 DEF CornerAt
      <3> QED  BY <3>2, <3>3, <3>4
    <2> DEFINE vert == FlattenSeq(ss)
    <2>12. /\ vert \in Seq(S) /\ Len(vert) = SumTo(sizes, Len(sizes))
           /\ \A f \in 1 .. n : \A i \in 1 .. sizes[f] :
                poly[f].off + i \in 1 .. Len(vert) /\ vert[poly[f].off + i] = ss[f][i]
      <3> HIDE DEF ss, S
      <3>1. sizes \in Seq(Nat) /\ Len(sizes) = Len(ss)
            /\ \A f \in 1 .. Len(ss) : Len(ss[f]) = sizes[f]
        BY <2>2, <2>9
      <3>2. ss \in Seq(Seq(S))
        BY <2>9
      <3>3. PICK z, c : z = sizes /\ c = vert
        OBVIOUS
      <3>4. /\ c \in Seq(S) /\ Len(c) = SumTo(z, Len(z))
            /\ \A f \in 1 .. Len(z) : \A i \in 1 .. z[f] :
                 Polys(z)[f].off + i \in 1 .. Len(c) /\ c[Polys(z)[f].off + i] = ss[f][i]
        BY <3>1, <3>2, <3>3, LaidOut
      <3> HIDE DEF vert
      <3> QED  BY <2>3, <3>3, <3>4
    <2> HIDE DEF vert
    <2>13. vert # <<>>
      <3>1. Len(vert) = Len(ids) /\ Len(ids) # 0
        BY <2>2, <2>12
      <3> QED  BY <3>1
    <2>14. PosAt(s, t) = pos /\ SizesAt(s, t) = sizes
      BY <1>1, <2>1 DEF PosAt, SizesAt
    <2>15. TopoAt(s, t).face = poly /\ TopoAt(s, t).index = vert
      <3> HIDE DEF ss
      <3> QED  BY <2>7 DEF vert
    <2> HIDE DEF ss, n, S
    <2> QED  BY <2>2, <2>3, <2>10, <2>12, <2>13, <2>14, <2>15 DEF n, S
  <1>2. CASE s.form = "trimesh"
    <2>1. PICK pos, ss : pos = s.nodes /\ ss = s.elems
      OBVIOUS
    <2> DEFINE n == Len(ss)
               S == 1 .. Len(pos)
               sizes == [f \in 1 .. n |-> 3]
    <2>2. /\ pos \in Seq(Int) /\ ss \in Seq([1 .. 3 -> S]) /\ ss # <<>>
      BY <1>2, <2>1, SourcesAreMeshes DEF SourcesAreMeshes
    <2>3. /\ ss \in Seq(Seq(S)) /\ n \in Nat /\ n # 0 /\ \A f \in 1 .. n : Len(ss[f]) = 3
      <3> HIDE DEF S
      <3>1. [1 .. 3 -> S] \subseteq Seq(S) /\ \A x \in [1 .. 3 -> S] : Len(x) = 3
        BY TripleIs
      <3>2. ss \in Seq(Seq(S))
        <4> DEFINE A == [1 .. 3 -> S]
                   B == Seq(S)
        <4>1. A \subseteq B /\ ss \in Seq(A)
          BY <2>2, <3>1
        <4> HIDE DEF A, B
        <4>2. ss \in Seq(B)
          BY <4>1, SeqWiden
        <4> QED  BY <4>2 DEF B
      <3>3. \A f \in 1 .. n : ss[f] \in [1 .. 3 -> S]
        BY <2>2
      <3> QED  BY <2>2, <3>1, <3>2, <3>3
    <2>4. sizes \in Seq(Nat) /\ Len(sizes) = n /\ \A f \in 1 .. n : sizes[f] = 3
      <3>1. sizes \in [1 .. n -> Nat]
        OBVIOUS
      <3> QED  BY <2>3, <3>1
    <2>5. PICK z : z = sizes
      OBVIOUS
    <2>6. z \in Seq(Nat) /\ Len(z) = n /\ \A f \in 1 .. n : z[f] = 3
      BY <2>4, <2>5
    <2> HIDE DEF sizes
    <2>7. PICK poly : poly = Polys(z)
      OBVIOUS
    <2> DEFINE vert == FlattenSeq(ss)
    <2>8. /\ vert \in Seq(S) /\ Len(vert) = SumTo(z, Len(z))
          /\ \A f \in 1 .. Len(z) : \A i \in 1 .. z[f] :
               poly[f].off + i \in 1 .. Len(vert) /\ vert[poly[f].off + i] = ss[f][i]
      <3> HIDE DEF S
      <3>1. z \in Seq(Nat) /\ Len(z) = Len(ss) /\ \A f \in 1 .. Len(ss) : Len(ss[f]) = z[f]
        BY <2>3, <2>6
      <3>2. ss \in Seq(Seq(S))
        BY <2>3
      <3> QED  BY <2>7, <3>1, <3>2, LaidOut
    <2> HIDE DEF vert
    <2>9. vert # <<>> /\ z # <<>>
      <3>1. 1 \in 1 .. n /\ 1 \in 1 .. 3
        BY <2>3
      <3>2. poly[1].off + 1 \in 1 .. Len(vert)
        BY <2>6, <2>8, <3>1
      <3>3. vert # <<>>
        BY <3>2
      <3>4. z # <<>>
        BY <2>3, <2>6
      <3> QED  BY <3>3, <3>4
    <2>10. \A f, i : CornerAt(s, t, f, i) = ss[f][i]
      BY <1>2, <2>1 DEF CornerAt
    <2>11. /\ PosAt(s, t) = pos /\ SizesAt(s, t) = z
           /\ TopoAt(s, t).face = poly /\ TopoAt(s, t).index = vert
      BY <1>2, <2>1, <2>5, <2>7 DEF PosAt, SizesAt, TopoAt, sizes, vert
    <2> HIDE DEF S
    <2>12. \A f \in 1 .. Len(z) : \A i \in 1 .. z[f] :
             poly[f].off + i \in 1 .. Len(vert) /\ vert[poly[f].off + i] = CornerAt(s, t, f, i)
      BY <2>8, <2>10
    <2> QED  BY <2>2, <2>6, <2>7, <2>8, <2>9, <2>11, <2>12, ZenonT(30) DEF S
  <1> QED  BY <1>1, <1>2

\* The simple mesh of some polygons: for each of them its prims, if they are of that kind.
PartsOf(poly, k) ==
  [i \in 1 .. Len(poly) |->
     IF KindOf(poly[i]) # k THEN <<>>
     ELSE [j \in 1 .. Len(Fan(poly[i])) |-> [v |-> Fan(poly[i])[j], of |-> i]]]
SimpleOf(poly) == [k \in Kinds |-> FlattenSeq(PartsOf(poly, k))]

\* The vertices, polygons and simple mesh of a source.
VertAt(s, t) == IF s.form = "tris" THEN [i \in 1 .. Len(s.nodes) |-> i] ELSE TopoAt(s, t).index
PolyAt(s, t) == IF s.form = "tris" THEN <<>> ELSE TopoAt(s, t).face
SimpleAt(s, t) ==
  IF s.form = "tris"
  THEN [k \in Kinds |-> IF k # "Tri_" THEN <<>>
                        ELSE [e \in 1 .. Len(s.elems) |-> [v |-> s.elems[e], of |-> 0]]]
  ELSE SimpleOf(PolyAt(s, t))

\* A prim of a simple mesh, with m vertices to choose from.
Prims(m) == [v : Seq(1 .. m), of : Nat]

\* The prims of a polygon are made of its vertices.
LEMMA FanIs ==
  ASSUME NEW f \in Ranges, NEW m \in Nat, f.off + f.size <= m
  PROVE  /\ Fan(f) \in Seq(Seq(1 .. m))
         /\ KindOf(f) = "Tri_" =>
              /\ Len(Fan(f)) = IF f.size > 2 THEN f.size - 2 ELSE 0
              /\ \A j \in 1 .. Len(Fan(f)) :
                   Fan(f)[j] = <<f.off + 1, f.off + j + 1, f.off + j + 2>>
  <1>1. PICK o, z : o = f.off /\ z = f.size
    OBVIOUS
  <1>2. o \in Nat /\ z \in Nat /\ o + z <= m
    BY <1>1 DEF Ranges
  <1> DEFINE S == 1 .. m
  <1>3. CASE z = 1
    <2>1. Fan(f) = << <<o + 1>> >>
      BY <1>1, <1>3 DEF Fan
    <2>2. o + 1 \in S
      BY <1>2, <1>3
    <2> HIDE DEF S
    <2>3. <<o + 1>> \in Seq(S)
      BY <2>2
    <2>4. << <<o + 1>> >> \in Seq(Seq(S))
      BY <2>3
    <2>5. KindOf(f) # "Tri_"
      BY <1>1, <1>3 DEF KindOf
    <2> QED  BY <2>1, <2>4, <2>5 DEF S
  <1>4. CASE z = 2
    <2>1. Fan(f) = << <<o + 1, o + 2>> >>
      BY <1>1, <1>4 DEF Fan
    <2>2. o + 1 \in S /\ o + 2 \in S
      BY <1>2, <1>4
    <2> HIDE DEF S
    <2>3. <<o + 1, o + 2>> \in Seq(S)
      BY <2>2
    <2>4. << <<o + 1, o + 2>> >> \in Seq(Seq(S))
      BY <2>3
    <2>5. KindOf(f) # "Tri_"
      BY <1>1, <1>4 DEF KindOf
    <2> QED  BY <2>1, <2>4, <2>5 DEF S
  <1>5. CASE z # 1 /\ z # 2
    <2> DEFINE tri(j) == <<o + 1, o + j + 1, o + j + 2>>
    <2>1. Fan(f) = [j \in 1 .. z - 2 |-> tri(j)]
      BY <1>1, <1>5 DEF Fan
    <2>2. ASSUME NEW j \in 1 .. z - 2  PROVE tri(j) \in Seq(S)
      <3>1. o + 1 \in S /\ o + j + 1 \in S /\ o + j + 2 \in S
        BY <1>2, <2>2
      <3> HIDE DEF S
      <3> QED  BY <3>1
    <2>3. PICK n : n = IF z > 2 THEN z - 2 ELSE 0
      OBVIOUS
    <2>4. n \in Nat /\ 1 .. n = 1 .. z - 2
      <3>1. CASE z > 2
        BY <1>2, <2>3, <3>1
      <3>2. CASE ~(z > 2)
        <4>1. z = 0 /\ n = 0
          BY <1>2, <1>5, <2>3, <3>2
        <4> QED  BY <4>1
      <3> QED  BY <3>1, <3>2
    <2>5. PICK q : q = Fan(f)
      OBVIOUS
    <2>6. q = [j \in 1 .. n |-> tri(j)] /\ \A j \in 1 .. n : tri(j) \in Seq(S)
      BY <2>1, <2>2, <2>4, <2>5
    <2> HIDE DEF S, tri
    <2>7. q \in [1 .. n -> Seq(S)]
      BY <2>6
    <2>8. q \in Seq(Seq(S)) /\ Len(q) = n /\ \A j \in 1 .. n : q[j] = tri(j)
      BY <2>4, <2>6, <2>7
    <2> QED  BY <1>1, <2>3, <2>5, <2>8 DEF S, tri
  <1> QED  BY <1>3, <1>4, <1>5

\* The prims of a kind, polygon by polygon.
LEMMA PartsAre ==
  ASSUME NEW m \in Nat, NEW poly \in Seq(Ranges),
         \A f \in 1 .. Len(poly) : poly[f].off + poly[f].size <= m, NEW k \in Kinds
  PROVE  PartsOf(poly, k) \in Seq(Seq(Prims(m))) /\ Len(PartsOf(poly, k)) = Len(poly)
  <1> DEFINE n == Len(poly)
             P == Prims(m)
             ss == PartsOf(poly, k)
  <1>1. n \in Nat /\ \A i \in 1 .. n : poly[i] \in Ranges
    OBVIOUS
  <1>2. ASSUME NEW i \in 1 .. n  PROVE ss[i] \in Seq(P)
    <2>1. PICK f \in Ranges : f = poly[i]
      BY <1>1
    <2>2. PICK g : g = Fan(f)
      OBVIOUS
    <2>3. g \in Seq(Seq(1 .. m))
      BY <2>1, <2>2, FanIs
    <2>4. CASE KindOf(f) # k
      <3>1. ss[i] = <<>>
        BY <2>1, <2>4 DEF PartsOf
      <3> HIDE DEF ss, P
      <3> QED  BY <3>1
    <2>5. CASE KindOf(f) = k
      <3>1. ss[i] = [j \in 1 .. Len(g) |-> [v |-> g[j], of |-> i]]
        BY <2>1, <2>2, <2>5 DEF PartsOf
      <3>2. \A j \in 1 .. Len(g) : [v |-> g[j], of |-> i] \in P
        <4>1. \A j \in 1 .. Len(g) : g[j] \in Seq(1 .. m)
          BY <2>3
        <4>2. i \in Nat
          BY <1>1
        <4> QED  BY <4>1, <4>2 DEF Prims
      <3>3. Len(g) \in Nat
        BY <2>3
      <3> HIDE DEF ss, P
      <3> QED  BY <3>1, <3>2, <3>3
    <2> QED  BY <2>4, <2>5
  <1>3. ss = [i \in 1 .. n |-> ss[i]]
    BY DEF PartsOf
  <1> HIDE DEF ss, P, n
  <1>4. ss \in [1 .. n -> Seq(P)]
    BY <1>2, <1>3
  <1>5. ss \in Seq(Seq(P)) /\ Len(ss) = n
    BY <1>1, <1>4
  <1> QED  BY <1>5 DEF ss, P, n

\* The simple mesh of a source is made of its vertices, and its vertices of its points.
LEMMA SourceIs ==
  ASSUME NEW s \in Sources, NEW t \in MeshTimes(s)
  PROVE  LET pos == PosAt(s, t)
             vert == VertAt(s, t)
             poly == PolyAt(s, t)
         IN /\ pos \in Seq(Int) /\ pos # <<>> /\ vert \in Seq(1 .. Len(pos))
            /\ poly \in Seq(Ranges) /\ (poly = <<>> <=> s.form = "tris")
            /\ SimpleAt(s, t) \in [Kinds -> Seq(Prims(Len(vert)))]
            /\ s.form \in {"usd", "trimesh", "tris"}
  <1>1. s.form \in {"usd", "trimesh", "tris"}
    BY SourcesAreMeshes DEF SourcesAreMeshes
  <1>2. CASE s.form = "tris"
    <2>1. PICK pos, ss : pos = s.nodes /\ ss = s.elems
      OBVIOUS
    <2>2. PICK n : n = Len(pos)
      OBVIOUS
    <2>3. pos \in Seq(Int) /\ n \in Nat /\ ss \in Seq([1 .. 3 -> 1 .. n]) /\ ss # <<>>
      <3>1. /\ s.nodes \in Seq(Int) /\ s.elems # <<>>
            /\ s.elems \in Seq([1 .. 3 -> 1 .. Len(s.nodes)])
        BY <1>2, SourcesAreMeshes DEF SourcesAreMeshes
      <3>2. Len(s.nodes) = n /\ Len(s.nodes) \in Nat
        BY <2>1, <2>2, <3>1
      <3> QED  BY <2>1, <3>1, <3>2
    <2>4. pos # <<>>
      <3>1. ss[1] \in [1 .. 3 -> 1 .. n]
        BY <2>3
      <3>2. 1 \in 1 .. 3
        OBVIOUS
      <3>3. ss[1][1] \in 1 .. n
        BY <3>1, <3>2
      <3> QED  BY <2>2, <2>3, <3>3
    <2>5. PICK vert : vert = [i \in 1 .. n |-> i]
      OBVIOUS
    <2>6. vert \in Seq(1 .. n) /\ Len(vert) = n
      <3>1. vert \in [1 .. n -> 1 .. n]
        BY <2>5
      <3> QED  BY <2>3, <3>1
    <2>7. PosAt(s, t) = pos /\ VertAt(s, t) = vert /\ PolyAt(s, t) = <<>>
      BY <1>2, <2>1, <2>2, <2>5 DEF PosAt, VertAt, PolyAt
    <2>8. SimpleAt(s, t) \in [Kinds -> Seq(Prims(n))]
      <3> DEFINE P == Prims(n)
                 tri == [e \in 1 .. Len(ss) |-> [v |-> ss[e], of |-> 0]]
      <3>1. SimpleAt(s, t) = [k \in Kinds |-> IF k # "Tri_" THEN <<>> ELSE tri]
        BY <1>2, <2>1 DEF SimpleAt
      <3>2. \A e \in 1 .. Len(ss) : [v |-> ss[e], of |-> 0] \in P
        <4>1. ASSUME NEW e \in 1 .. Len(ss)  PROVE ss[e] \in Seq(1 .. n)
          <5>1. ss[e] \in [1 .. 3 -> 1 .. n]
            BY <2>3
          <5> QED  BY <5>1, TripleIs
        <4> QED  BY <4>1 DEF Prims
      <3>3. Len(ss) \in Nat
        BY <2>3
      <3> HIDE DEF P
      <3>4. tri \in Seq(P)
        BY <3>2, <3>3
      <3> HIDE DEF tri
      <3>5. <<>> \in Seq(P)
        OBVIOUS
      <3>6. SimpleAt(s, t) \in [Kinds -> Seq(P)]
        BY <3>1, <3>4, <3>5
      <3> QED  BY <3>6 DEF P
    <2> QED  BY <1>1, <1>2, <2>2, <2>3, <2>4, <2>6, <2>7, <2>8
  <1>3. CASE s.form # "tris"
    <2>1. PICK pos, sizes, poly, vert :
            /\ pos = PosAt(s, t) /\ sizes = SizesAt(s, t)
            /\ poly = TopoAt(s, t).face /\ vert = TopoAt(s, t).index
      OBVIOUS
    <2>2. /\ pos \in Seq(Int) /\ sizes \in Seq(Nat) /\ sizes # <<>> /\ poly = Polys(sizes)
          /\ vert \in Seq(1 .. Len(pos)) /\ Len(vert) = SumTo(sizes, Len(sizes)) /\ vert # <<>>
      BY <1>1, <1>3, <2>1, TopoIs
    <2>3. /\ poly \in Seq(Ranges) /\ Len(poly) = Len(sizes)
          /\ \A f \in 1 .. Len(poly) : poly[f].off + poly[f].size <= Len(vert)
      BY <2>2, PolysAre
    <2>4. pos # <<>> /\ poly # <<>>
      <3>1. vert[1] \in 1 .. Len(pos)
        BY <2>2
      <3>2. Len(pos) # 0
        BY <3>1
      <3>3. Len(poly) # 0
        BY <2>2, <2>3
      <3> QED  BY <3>2, <3>3
    <2>5. VertAt(s, t) = vert /\ PolyAt(s, t) = poly /\ SimpleAt(s, t) = SimpleOf(poly)
      BY <1>3, <2>1 DEF VertAt, PolyAt, SimpleAt
    <2>6. PICK m \in Nat : m = Len(vert)
      BY <2>2
    <2>7. SimpleOf(poly) \in [Kinds -> Seq(Prims(m))]
      <3>1. ASSUME NEW k \in Kinds  PROVE SimpleOf(poly)[k] \in Seq(Prims(m))
        <4>1. PartsOf(poly, k) \in Seq(Seq(Prims(m)))
          BY <2>3, <2>6, PartsAre
        <4>2. FlattenSeq(PartsOf(poly, k)) \in Seq(Prims(m))
          BY <4>1, FlattenAt
        <4> QED  BY <4>2 DEF SimpleOf
      <3>2. SimpleOf(poly) = [k \in Kinds |-> SimpleOf(poly)[k]]
        BY DEF SimpleOf
      <3> QED  BY <3>1, <3>2
    <2> QED  BY <1>1, <1>3, <2>1, <2>2, <2>3, <2>4, <2>5, <2>6, <2>7
  <1> QED  BY <1>2, <1>3

-----------------------------------------------------------------------------
(* Properties and what brings a primitive to a time code.                  *)

\* A primitive has its fields, and each property has as many values as its owner has elements.
Filled(p) ==
  /\ DOMAIN p = {"pos", "vert", "poly", "simple", "at", "global"}
  /\ DOMAIN p.at = Owners
  /\ Len(p.pos) \in Nat /\ Len(p.vert) \in Nat /\ Len(p.poly) \in Nat
  /\ \A a \in DOMAIN p.at["points"] : Len(p.at["points"][a]) = Len(p.pos)
  /\ \A a \in DOMAIN p.at["verts"] : Len(p.at["verts"][a]) = Len(p.vert)
  /\ \A a \in DOMAIN p.at["Poly_"] : Len(p.at["Poly_"][a]) = Len(p.poly)

\* Two primitives have the same points, vertices and polygons.
Alike(p, q) == q.pos = p.pos /\ q.vert = p.vert /\ q.poly = p.poly

\* The points, vertices and polygons stay, and so does the simple mesh.
Refilled(p, q) == Filled(q) /\ Alike(p, q) /\ q.simple = p.simple

\* Properties with as many values as there are elements.
Fits(p, at) ==
  /\ DOMAIN at = Owners
  /\ \A a \in DOMAIN at["points"] : Len(at["points"][a]) = Len(p.pos)
  /\ \A a \in DOMAIN at["verts"] : Len(at["verts"][a]) = Len(p.vert)
  /\ \A a \in DOMAIN at["Poly_"] : Len(at["Poly_"][a]) = Len(p.poly)

\* A primitive with properties of its own.
LEMMA FillAt ==
  ASSUME NEW p, Filled(p), NEW at, Fits(p, at), NEW q, q = [p EXCEPT !.at = at]
  PROVE  Refilled(p, q) /\ q.at = at
  <1>1. /\ DOMAIN p = {"pos", "vert", "poly", "simple", "at", "global"}
        /\ Len(p.pos) \in Nat /\ Len(p.vert) \in Nat /\ Len(p.poly) \in Nat
    BY DEF Filled
  <1>2. DOMAIN q = DOMAIN p /\ q.at = at /\ q.pos = p.pos /\ q.vert = p.vert /\ q.poly = p.poly
        /\ q.simple = p.simple
    BY <1>1
  <1>3. Filled(q)
    BY <1>1, <1>2 DEF Filled, Fits
  <1> QED  BY <1>2, <1>3 DEF Refilled, Alike

\* The lengths of arrays that are made.
LEMMA MadeLength ==
  ASSUME NEW n \in Nat, NEW f, DOMAIN f = 1 .. n
  PROVE  Len(f) = n
  OBVIOUS

\* The number of elements of an owner.
Elements(p, o, n) ==
  /\ n \in Nat
  /\ o = "points" => n = Len(p.pos)
  /\ o = "verts" => n = Len(p.vert)
  /\ o = "Poly_" => n = Len(p.poly)

\* All properties but one belong to the points or not, as before.
OthersStay(p, q, a) == \A b : b # a => (Has(q, "points", b) <=> Has(p, "points", b))

\* What assigning a property does.
LEMMA AssignIs ==
  ASSUME NEW p, Filled(p), NEW o, NEW a, NEW n, NEW vals, Elements(p, o, n),
         NEW r, r = Assign(p, o, a, n, vals)
  PROVE  /\ Refilled(p, r) /\ OthersStay(p, r, a)
         /\ o = "points" => Has(r, "points", a)
         /\ o = "points" /\ Len(vals) = n =>
              r.at["points"][a] = [i \in 1 .. n |-> vals[i]]
  <1> DEFINE old == IF Has(p, o, a) THEN p.at[o][a] ELSE <<>>
             new == [i \in 1 .. n |-> IF i <= Len(vals) THEN vals[i] ELSE Resized(old, n)[i]]
             mine == [b \in DOMAIN p.at[o] \cup {a} |-> IF b = a THEN new ELSE p.at[o][b]]
             at == [p.at EXCEPT ![o] = mine]
             q == [p EXCEPT !.at = at]
  <1>0. /\ n \in Nat
        /\ o = "points" => n = Len(p.pos)
        /\ o = "verts" => n = Len(p.vert)
        /\ o = "Poly_" => n = Len(p.poly)
    BY DEF Elements
  <1>1. r = q
    BY DEF Assign
  <1>2. Len(new) = n
    <2>1. DOMAIN new = 1 .. n
      OBVIOUS
    <2> HIDE DEF new
    <2> QED  BY <1>0, <2>1, MadeLength
  <1>3. Len(vals) = n => new = [i \in 1 .. n |-> vals[i]]
    <2> SUFFICES ASSUME Len(vals) = n  PROVE new = [i \in 1 .. n |-> vals[i]]
      OBVIOUS
    <2>1. \A i \in 1 .. n : i <= Len(vals)
      BY <1>0
    <2> QED  BY <2>1
  <1> HIDE DEF new
  <1>4. DOMAIN mine = DOMAIN p.at[o] \cup {a} /\ mine[a] = new
        /\ \A b \in DOMAIN p.at[o] : b # a => mine[b] = p.at[o][b]
    OBVIOUS
  <1> HIDE DEF mine
  <1>5. DOMAIN p.at = Owners /\ "points" \in Owners /\ "verts" \in Owners /\ "Poly_" \in Owners
    BY DEF Filled, Owners
  <1>6. /\ DOMAIN at = Owners
        /\ \A x \in Owners : at[x] = IF x = o THEN mine ELSE p.at[x]
    BY <1>5
  <1> HIDE DEF at
  <1>7. ASSUME NEW x \in Owners, NEW l, \A b \in DOMAIN p.at[x] : Len(p.at[x][b]) = l,
               x = o => n = l
        PROVE  \A b \in DOMAIN at[x] : Len(at[x][b]) = l
    <2>1. CASE x = o
      BY <1>2, <1>4, <1>6, <1>7, <2>1
    <2>2. CASE x # o
      BY <1>6, <1>7, <2>2
    <2> QED  BY <2>1, <2>2
  <1>8. /\ \A b \in DOMAIN at["points"] : Len(at["points"][b]) = Len(p.pos)
        /\ \A b \in DOMAIN at["verts"] : Len(at["verts"][b]) = Len(p.vert)
        /\ \A b \in DOMAIN at["Poly_"] : Len(at["Poly_"][b]) = Len(p.poly)
    BY <1>0, <1>5, <1>7 DEF Filled
  <1> HIDE DEF q
  <1>12. Fits(p, at)
    BY <1>6, <1>8 DEF Fits
  <1>9. Refilled(p, q) /\ q.at = at
    BY <1>12, FillAt DEF q
  <1>10. \A b : b # a => (Has(q, "points", b) <=> Has(p, "points", b))
    <2> SUFFICES ASSUME NEW b, b # a
                 PROVE  b \in DOMAIN at["points"] <=> b \in DOMAIN p.at["points"]
      BY <1>9 DEF Has
    <2>1. CASE o = "points"
      BY <1>4, <1>5, <1>6, <2>1
    <2>2. CASE o # "points"
      BY <1>5, <1>6, <2>2
    <2> QED  BY <2>1, <2>2
  <1>11. o = "points" => Has(q, "points", a) /\ q.at["points"][a] = new
    BY <1>4, <1>5, <1>6, <1>9 DEF Has
  <1> QED  BY <1>1, <1>3, <1>9, <1>10, <1>11 DEF Refilled, OthersStay

\* The shape of a key frame, and what is left of the properties.
LEMMA UpdateShapeIs ==
  ASSUME NEW p, Filled(p), NEW kf, NEW t, NEW pos, NEW topo,
         Frame(kf.pos, t) = pos, Frame(kf.topo, t) = topo,
         Len(pos) \in Nat, Len(topo.index) \in Nat, Len(topo.face) \in Nat
  PROVE  LET q == UpdateShape(p, kf, t)
         IN /\ Filled(q) /\ q.simple = p.simple
            /\ q.pos = pos /\ q.vert = topo.index /\ q.poly = topo.face
            /\ \A b : Has(q, "points", b) <=> Has(p, "points", b)
  <1> DEFINE Fit(o, n) == [a \in DOMAIN p.at[o] |-> Resized(p.at[o][a], n)]
             at == [p.at EXCEPT !["points"] = Fit("points", Len(pos)),
                                !["verts"] = Fit("verts", Len(topo.index)),
                                !["Poly_"] = Fit("Poly_", Len(topo.face))]
             r == [p EXCEPT !.pos = pos, !.vert = topo.index, !.poly = topo.face]
  <1>1. UpdateShape(p, kf, t) = [r EXCEPT !.at = at]
    BY Zenon DEF UpdateShape
  <1>2. PICK q : q = UpdateShape(p, kf, t)
    OBVIOUS
  <1>3. /\ DOMAIN p = {"pos", "vert", "poly", "simple", "at", "global"}
        /\ DOMAIN p.at = Owners
        /\ "points" \in Owners /\ "verts" \in Owners /\ "Poly_" \in Owners
    BY DEF Filled, Owners
  <1>4. /\ DOMAIN q = DOMAIN p /\ q.at = at
        /\ q.pos = pos /\ q.vert = topo.index /\ q.poly = topo.face /\ q.simple = p.simple
    <2> HIDE DEF at
    <2> QED  BY <1>1, <1>2, <1>3
  <1>5. /\ DOMAIN at = Owners /\ at["points"] = Fit("points", Len(pos))
        /\ at["verts"] = Fit("verts", Len(topo.index))
        /\ at["Poly_"] = Fit("Poly_", Len(topo.face))
    <2> HIDE DEF Fit
    <2> QED  BY <1>3
  <1> HIDE DEF at
  <1>6. ASSUME NEW o, NEW n \in Nat
        PROVE  /\ DOMAIN Fit(o, n) = DOMAIN p.at[o]
               /\ \A a \in DOMAIN p.at[o] : Len(Fit(o, n)[a]) = n
    <2>1. ASSUME NEW a  PROVE Len(Resized(p.at[o][a], n)) = n
      <3>1. DOMAIN Resized(p.at[o][a], n) = 1 .. n
        BY DEF Resized
      <3> QED  BY <3>1, MadeLength
    <2> QED  BY <2>1
  <1> HIDE DEF Fit
  <1>7. /\ \A a \in DOMAIN q.at["points"] : Len(q.at["points"][a]) = Len(q.pos)
        /\ \A a \in DOMAIN q.at["verts"] : Len(q.at["verts"][a]) = Len(q.vert)
        /\ \A a \in DOMAIN q.at["Poly_"] : Len(q.at["Poly_"][a]) = Len(q.poly)
    BY <1>4, <1>5, <1>6
  <1>8. Filled(q)
    BY <1>3, <1>4, <1>5, <1>7 DEF Filled
  <1>9. \A b : Has(q, "points", b) <=> Has(p, "points", b)
    BY <1>4, <1>5, <1>6 DEF Has
  <1> QED  BY <1>2, <1>4, <1>8, <1>9

\* An update keeps the simple mesh, and whether there is a second position.
LEMMA UpdateIs ==
  ASSUME NEW p, Filled(p), NEW kf, NEW t, NEW pos, NEW topo,
         Frame(kf.pos, t) = pos, Frame(kf.topo, t) = topo,
         Len(pos) \in Nat, Len(topo.index) \in Nat, Len(topo.face) \in Nat
  PROVE  LET q == Update(p, kf, t)
         IN /\ Filled(q) /\ q.simple = p.simple
            /\ q.pos = pos /\ q.vert = topo.index /\ q.poly = topo.face
            /\ Has(q, "points", "skin") <=> Has(p, "points", "skin")
  <1>1. ASSUME NEW q, Filled(q), NEW a \in {"uv", "nrm", "clr"}
        PROVE  LET r == UpdateAttrib(q, kf, a, t)
               IN /\ Filled(r) /\ Alike(q, r) /\ r.simple = q.simple
                  /\ Has(r, "points", "skin") <=> Has(q, "points", "skin")
    <2>1. CASE DOMAIN kf[a].at = {} /\ kf[a].default = None
      <3>1. UpdateAttrib(q, kf, a, t) = q
        BY <2>1 DEF UpdateAttrib
      <3> QED  BY <1>1, <3>1 DEF Alike
    <2>2. CASE ~ (DOMAIN kf[a].at = {} /\ kf[a].default = None)
      <3>1. PICK o, vals : o = Frame(kf[a], t).owner /\ vals = Frame(kf[a], t).vals
        OBVIOUS
      <3>2. PICK n : n = CASE o = "points" -> Len(q.pos) [] o = "verts" -> Len(q.vert)
                           [] OTHER -> Len(q.poly)
        OBVIOUS
      <3>3. UpdateAttrib(q, kf, a, t) = Assign(q, o, a, n, vals)
        BY <2>2, <3>1, <3>2, Zenon DEF UpdateAttrib
      <3>4. Len(q.pos) \in Nat /\ Len(q.vert) \in Nat /\ Len(q.poly) \in Nat
        BY <1>1 DEF Filled
      <3>5. n \in Nat
        BY <3>2, <3>4
      <3>6. (o = "points" => n = Len(q.pos)) /\ (o = "verts" => n = Len(q.vert))
            /\ (o = "Poly_" => n = Len(q.poly))
        BY <3>2
      <3>7. PICK r : r = Assign(q, o, a, n, vals)
        OBVIOUS
      <3>8. Elements(q, o, n)
        BY <3>5, <3>6 DEF Elements
      <3>9. Refilled(q, r) /\ OthersStay(q, r, a)
        BY <1>1, <3>7, <3>8, AssignIs
      <3>10. a # "skin"
        OBVIOUS
      <3> QED  BY <3>3, <3>7, <3>9, <3>10 DEF Refilled, OthersStay
    <2> QED  BY <2>1, <2>2
  <1>2. PICK q : q = UpdateShape(p, kf, t)
    OBVIOUS
  <1>3. PICK q1 : q1 = UpdateAttrib(q, kf, "uv", t)
    OBVIOUS
  <1>4. PICK q2 : q2 = UpdateAttrib(q1, kf, "nrm", t)
    OBVIOUS
  <1>5. PICK q3 : q3 = UpdateAttrib(q2, kf, "clr", t)
    OBVIOUS
  <1>6. q3 = Update(p, kf, t)
    BY <1>2, <1>3, <1>4, <1>5, Zenon DEF Update
  <1>7. /\ Filled(q) /\ q.simple = p.simple
        /\ q.pos = pos /\ q.vert = topo.index /\ q.poly = topo.face
        /\ Has(q, "points", "skin") <=> Has(p, "points", "skin")
    BY <1>2, UpdateShapeIs
  <1>8. /\ Filled(q1) /\ Alike(q, q1) /\ q1.simple = q.simple
        /\ Has(q1, "points", "skin") <=> Has(q, "points", "skin")
    BY <1>1, <1>3, <1>7
  <1>9. /\ Filled(q2) /\ Alike(q1, q2) /\ q2.simple = q1.simple
        /\ Has(q2, "points", "skin") <=> Has(q1, "points", "skin")
    BY <1>1, <1>4, <1>8
  <1>10. /\ Filled(q3) /\ Alike(q2, q3) /\ q3.simple = q2.simple
         /\ Has(q3, "points", "skin") <=> Has(q2, "points", "skin")
    BY <1>1, <1>5, <1>9
  <1> QED  BY <1>6, <1>7, <1>8, <1>9, <1>10 DEF Alike

\* The second positions of points.
SkinAt(q, pos, x) == /\ Has(q, "points", "skin")
                     /\ q.at["points"]["skin"] = [i \in 1 .. Len(pos) |-> pos[i] + x]

\* Points that hang on a skeleton get their second positions.
LEMMA SkinnedIs ==
  ASSUME NEW p, Filled(p), p.pos \in Seq(Int), NEW u, NEW t, NEW q, q = Skinned(p, u, t)
  PROVE  /\ Refilled(p, q)
         /\ p.pos # <<>> /\ Skel(u) # None /\ Pose(u, t) # None => SkinAt(q, p.pos, Pose(u, t))
  <1>1. CASE p.pos = <<>> \/ Skel(u) = None \/ Pose(u, t) = None
    <2>1. Skinned(p, u, t) = p
      BY <1>1 DEF Skinned
    <2> QED  BY <1>1, <2>1 DEF Refilled, Alike
  <1>2. CASE ~ (p.pos = <<>> \/ Skel(u) = None \/ Pose(u, t) = None)
    <2>1. PICK vals : vals = [i \in 1 .. Len(p.pos) |-> p.pos[i] + Pose(u, t)]
      OBVIOUS
    <2>2. PICK n : n = Len(p.pos)
      OBVIOUS
    <2>3. Skinned(p, u, t) = Assign(p, "points", "skin", n, vals)
      <3>1. DOMAIN p.pos = 1 .. Len(p.pos)
        OBVIOUS
      <3> QED  BY <1>2, <2>1, <2>2, <3>1, Zenon DEF Skinned
    <2>4. n \in Nat
      BY <2>2 DEF Filled
    <2>5. DOMAIN vals = 1 .. n
      BY <2>1, <2>2
    <2>6. Len(vals) = n
      BY <2>4, <2>5, MadeLength
    <2>7. PICK r : r = Assign(p, "points", "skin", n, vals)
      OBVIOUS
    <2>8. Elements(p, "points", n)
      BY <2>2, <2>4 DEF Elements
    <2>9. /\ Refilled(p, r) /\ Has(r, "points", "skin")
          /\ r.at["points"]["skin"] = [i \in 1 .. n |-> vals[i]]
      BY <2>6, <2>7, <2>8, AssignIs
    <2>10. [i \in 1 .. n |-> vals[i]] = [i \in 1 .. Len(p.pos) |-> p.pos[i] + Pose(u, t)]
      BY <2>1, <2>2
    <2> QED  BY <1>2, <2>3, <2>7, <2>7, <2>9, <2>10 DEF SkinAt
  <1> QED  BY <1>1, <1>2

\* The points keep their properties, too.
Reformed(p, q) == Filled(q) /\ Alike(p, q) /\ q.at["points"] = p.at["points"]

\* It is kept by one step after the other.
LEMMA ReformedAgain ==
  ASSUME NEW p, NEW q, NEW r, Reformed(p, q), Reformed(q, r)
  PROVE  Reformed(p, r)
  BY DEF Reformed, Alike

\* Nothing is a primitive.
LEMMA BlankIs == Filled(Blank) /\ ~ Has(Blank, "points", "skin")
  <1>1. DOMAIN Blank = {"pos", "vert", "poly", "simple", "at", "global"}
    BY DEF Blank
  <1>2. Blank.pos = <<>> /\ Blank.vert = <<>> /\ Blank.poly = <<>>
        /\ Blank.at = [o \in Owners |-> NoAttr]
    BY DEF Blank
  <1>3. DOMAIN NoAttr = {}
    BY DEF NoAttr
  <1>4. "points" \in Owners /\ "verts" \in Owners /\ "Poly_" \in Owners
    BY DEF Owners
  <1>5. Len(<<>>) \in Nat
    OBVIOUS
  <1>6. /\ DOMAIN Blank.at = Owners
        /\ Blank.at["points"] = NoAttr /\ Blank.at["verts"] = NoAttr /\ Blank.at["Poly_"] = NoAttr
    BY <1>2, <1>4
  <1> QED  BY <1>1, <1>2, <1>3, <1>5, <1>6 DEF Filled, Has

\* A triangle mesh becomes a primitive.
LEMMA TriMeshIs ==
  ASSUME NEW s \in Sources, s.form = "tris"
  PROVE  LET q == AssignTriMesh(s)
         IN /\ Filled(q) /\ ~ Has(q, "points", "skin")
            /\ q.pos = s.nodes /\ q.vert = [i \in 1 .. Len(s.nodes) |-> i] /\ q.poly = <<>>
            /\ q.simple = [k \in Kinds |-> IF k # "Tri_" THEN <<>>
                             ELSE [e \in 1 .. Len(s.elems) |-> [v |-> s.elems[e], of |-> 0]]]
  <1>1. s.nodes \in Seq(Int) /\ \A a \in DOMAIN s.attr : Len(s.attr[a]) = Len(s.nodes)
    BY SourcesAreMeshes DEF SourcesAreMeshes
  <1>2. PICK n : n = Len(s.nodes)
    OBVIOUS
  <1>3. n \in Nat
    BY <1>1, <1>2
  <1>4. PICK vert, tris, pts, global :
          /\ vert = [i \in 1 .. n |-> i]
          /\ tris = [e \in 1 .. Len(s.elems) |-> [v |-> s.elems[e], of |-> 0]]
          /\ pts = [a \in {"clr", "nrm"} \cup (DOMAIN s.attr \cap {"uv"}) |->
                      IF a \in DOMAIN s.attr THEN s.attr[a] ELSE [i \in 1 .. n |-> Default]]
          /\ global = [e \in 1 .. Len(s.elems) |-> <<"Tri_", e>>]
    OBVIOUS
  <1>5. PICK q : q = AssignTriMesh(s)
    OBVIOUS
  <1>6. q = [Blank EXCEPT !.pos = s.nodes, !.vert = vert, !.simple["Tri_"] = tris,
                          !.at["points"] = pts, !.global = global]
    BY <1>2, <1>4, <1>5, Zenon DEF AssignTriMesh
  <1>7. DOMAIN Blank = {"pos", "vert", "poly", "simple", "at", "global"}
    BY DEF Blank
  <1>8. /\ Blank.poly = <<>> /\ Blank.simple = [k \in Kinds |-> <<>>]
        /\ Blank.at = [o \in Owners |-> NoAttr]
    BY DEF Blank
  <1>9. /\ DOMAIN q = {"pos", "vert", "poly", "simple", "at", "global"}
        /\ q.pos = s.nodes /\ q.vert = vert /\ q.poly = <<>>
        /\ q.simple = [Blank.simple EXCEPT !["Tri_"] = tris]
        /\ q.at = [Blank.at EXCEPT !["points"] = pts]
    BY <1>6, <1>7, <1>8
  <1>10. q.simple = [k \in Kinds |-> IF k # "Tri_" THEN <<>> ELSE tris]
    BY <1>8, <1>9, ZenonT(30) DEF Kinds
  <1>11. "points" \in Owners /\ "verts" \in Owners /\ "Poly_" \in Owners /\ DOMAIN NoAttr = {}
    BY DEF Owners, NoAttr
  <1>12. /\ DOMAIN q.at = Owners /\ q.at["points"] = pts
         /\ q.at["verts"] = NoAttr /\ q.at["Poly_"] = NoAttr
    BY <1>8, <1>9, <1>11
  <1>13. Len(vert) = n /\ Len([i \in 1 .. n |-> Default]) = n /\ Len(<<>>) \in Nat
    BY <1>3, <1>4
  <1>14. DOMAIN pts = {"clr", "nrm"} \cup (DOMAIN s.attr \cap {"uv"})
         /\ \A a \in DOMAIN pts : Len(pts[a]) = n
    BY <1>1, <1>2, <1>4, <1>13
  <1>15. Filled(q)
    BY <1>2, <1>3, <1>9, <1>11, <1>12, <1>13, <1>14 DEF Filled
  <1>16. ~ Has(q, "points", "skin")
    BY <1>12, <1>14 DEF Has
  <1> QED  BY <1>2, <1>4, <1>5, <1>9, <1>10, <1>15, <1>16

\* Simple prims take the properties of their polygons: nobody else's change.
LEMMA CopyAttribsIs ==
  ASSUME NEW p, Filled(p), NEW q, q = CopyAttribs(p)
  PROVE  Reformed(p, q) /\ q.simple = p.simple
  <1>1. PICK at : at = [o \in Owners |->
             IF o \notin Kinds THEN p.at[o]
             ELSE [a \in DOMAIN p.at["Poly_"] |->
                     [e \in 1 .. Len(p.simple[o]) |-> p.at["Poly_"][a][p.simple[o][e].of]]]]
    OBVIOUS
  <1>2. q = [p EXCEPT !.at = at]
    BY <1>1, Zenon DEF CopyAttribs
  <1>3. /\ "points" \in Owners /\ "verts" \in Owners /\ "Poly_" \in Owners
        /\ "points" \notin Kinds /\ "verts" \notin Kinds /\ "Poly_" \notin Kinds
    BY DEF Owners, Kinds
  <1>4. DOMAIN at = Owners /\ \A o \in {"points", "verts", "Poly_"} : at[o] = p.at[o]
    BY <1>1, <1>3
  <1>5. Fits(p, at)
    BY <1>4 DEF Filled, Fits
  <1>6. Refilled(p, q) /\ q.at = at
    BY <1>2, <1>5, FillAt
  <1> QED  BY <1>4, <1>6 DEF Reformed, Refilled

\* The simple mesh is that of the polygons.
LEMMA SetupIs ==
  ASSUME NEW p, Filled(p), NEW q, q = Setup(p)
  PROVE  /\ Reformed(p, q)
         /\ q.simple = IF p.poly = <<>> THEN p.simple ELSE SimpleOf(p.poly)
  <1>1. CASE p.poly = <<>>
    BY <1>1 DEF Setup, Reformed, Alike
  <1>2. CASE p.poly # <<>>
    <2>1. PICK r : r = [p EXCEPT !.simple = SimpleOf(p.poly)]
      OBVIOUS
    <2>2. q = CopyAttribs(r)
      BY <1>2, <2>1, Zenon DEF Setup, SimpleOf, PartsOf
    <2>3. DOMAIN p = {"pos", "vert", "poly", "simple", "at", "global"}
      BY DEF Filled
    <2>4. /\ DOMAIN r = DOMAIN p /\ r.pos = p.pos /\ r.vert = p.vert /\ r.poly = p.poly
          /\ r.at = p.at /\ r.simple = SimpleOf(p.poly)
      BY <2>1, <2>3
    <2>5. Filled(r)
      BY <2>4 DEF Filled
    <2>6. Reformed(p, r)
      BY <2>4, <2>5 DEF Reformed, Alike
    <2>7. Reformed(r, q) /\ q.simple = r.simple
      BY <2>2, <2>5, CopyAttribsIs
    <2>8. Reformed(p, q)
      BY <2>6, <2>7, ReformedAgain
    <2> QED  BY <1>2, <2>4, <2>7, <2>8
  <1> QED  BY <1>1, <1>2

\* The vertices get properties of their own.
LEMMA VertsAre ==
  ASSUME NEW p, Filled(p), NEW verts, NEW q, q = [p EXCEPT !.at["verts"] = verts],
         \A a \in DOMAIN verts :
           Len(verts[a]) = Len(p.vert)
             \/ (a \in DOMAIN p.at["verts"] /\ verts[a] = p.at["verts"][a])
  PROVE  Reformed(p, q) /\ q.simple = p.simple /\ q.at["verts"] = verts
  <1>1. PICK at : at = [p.at EXCEPT !["verts"] = verts]
    OBVIOUS
  <1>2. q = [p EXCEPT !.at = at]
    BY <1>1, Zenon
  <1>3. DOMAIN p.at = Owners /\ "points" \in Owners /\ "verts" \in Owners /\ "Poly_" \in Owners
    BY DEF Filled, Owners
  <1>4. /\ DOMAIN at = Owners /\ at["verts"] = verts
        /\ at["points"] = p.at["points"] /\ at["Poly_"] = p.at["Poly_"]
    BY <1>1, <1>3
  <1>5. Fits(p, at)
    BY <1>4 DEF Filled, Fits
  <1>6. Refilled(p, q) /\ q.at = at
    BY <1>2, <1>5, FillAt
  <1> QED  BY <1>4, <1>6 DEF Reformed, Refilled

\* Properties of prims go to the vertices.
LEMMA ToVertsIs ==
  ASSUME NEW p, Filled(p), NEW tags, NEW q, q = ToVerts(p, tags)
  PROVE  Reformed(p, q) /\ q.simple = p.simple
  <1> DEFINE names == tags \cap UNION {DOMAIN p.at[o] : o \in Kinds \cup {"Poly_"}}
             Given(a, v) == {p.at[ke[1]][a][ke[2]] :
                               ke \in {x \in UNION {{k} \X (1 .. Len(p.simple[k])) :
                                                    k \in {y \in Kinds : Has(p, y, a)}} :
                                         v \in ToSet(p.simple[x[1]][x[2]].v)}}
             Mine(a, v)  == {p.at["Poly_"][a][i] : i \in
                               {j \in 1 .. Len(p.poly) :
                                  /\ Has(p, "Poly_", a)
                                  /\ p.poly[j].off < v /\ v <= p.poly[j].off + p.poly[j].size}}
             Old(a, v)   == IF Has(p, "verts", a) THEN p.at["verts"][a][v] ELSE Zero
             Now(a, v)   == IF Mine(a, v) # {} THEN CHOOSE x \in Mine(a, v) : TRUE
                            ELSE IF Given(a, v) # {} THEN CHOOSE x \in Given(a, v) : TRUE
                            ELSE Old(a, v)
             verts == [a \in DOMAIN p.at["verts"] \cup names |->
                         IF a \in names THEN [v \in 1 .. Len(p.vert) |-> Now(a, v)]
                         ELSE p.at["verts"][a]]
  <1>1. q = [p EXCEPT !.at["verts"] = verts]
    BY Zenon DEF ToVerts
  <1> HIDE DEF Now, names
  <1>2. Len(p.vert) \in Nat
    BY DEF Filled
  <1>3. \A a : Len([v \in 1 .. Len(p.vert) |-> Now(a, v)]) = Len(p.vert)
    BY <1>2
  <1>4. \A a \in DOMAIN verts : Len(verts[a]) = Len(p.vert)
                                \/ (a \in DOMAIN p.at["verts"] /\ verts[a] = p.at["verts"][a])
    BY <1>3
  <1> HIDE DEF verts
  <1> QED  BY <1>1, <1>4, VertsAre

\* Nodes write their properties to the vertices that they stand for.
LEMMA WrittenIs ==
  ASSUME NEW p, Filled(p), NEW m, NEW q, q = ZsToVerts(p, m)
  PROVE  Reformed(p, q) /\ q.simple = p.simple
  <1>1. CASE m.nodes = <<>> \/ Len(m.vids) # Len(m.nodes)
    BY <1>1 DEF ZsToVerts, Reformed, Alike
  <1>2. CASE ~ (m.nodes = <<>> \/ Len(m.vids) # Len(m.nodes))
    <2> DEFINE Node(v)   == {n \in 1 .. Len(m.vids) : m.vids[n] = v}
               Old(a, v) == IF Has(p, "verts", a) THEN p.at["verts"][a][v] ELSE Zero
               Now(a, v) == IF Node(v) = {} THEN Old(a, v)
                            ELSE m.attr[a][CHOOSE n \in Node(v) : TRUE]
               verts == [a \in DOMAIN p.at["verts"] \cup DOMAIN m.attr |->
                           IF a \notin DOMAIN m.attr THEN p.at["verts"][a]
                           ELSE [v \in 1 .. Len(p.vert) |-> Now(a, v)]]
    <2>1. q = [p EXCEPT !.at["verts"] = verts]
      BY <1>2, Zenon DEF ZsToVerts
    <2> HIDE DEF Now
    <2>2. Len(p.vert) \in Nat
      BY DEF Filled
    <2>3. \A a : Len([v \in 1 .. Len(p.vert) |-> Now(a, v)]) = Len(p.vert)
      BY <2>2
    <2>4. \A a \in DOMAIN verts : Len(verts[a]) = Len(p.vert)
                                  \/ (a \in DOMAIN p.at["verts"] /\ verts[a] = p.at["verts"][a])
      BY <2>3
    <2> HIDE DEF verts
    <2> QED  BY <2>1, <2>4, VertsAre
  <1> QED  BY <1>1, <1>2

\* Painting keeps the shape of a primitive.
LEMMA PaintIs ==
  ASSUME NEW p, Filled(p), NEW ms, NEW nodes, NEW color, NEW q, q = Paint(p, ms, nodes, color).prim
  PROVE  Reformed(p, q) /\ q.simple = p.simple
  <1>1. q = p \/ \E ends : q = ZsToVerts(ZsToVerts(ZsToVerts(p, ends["Tri_"]),
                                         ends["Line_"]), ends["Point_"])
    BY DEF Paint
  <1>2. CASE q = p
    BY <1>2 DEF Reformed, Alike
  <1>3. CASE q # p
    <2>1. PICK ends : q = ZsToVerts(ZsToVerts(ZsToVerts(p, ends["Tri_"]),
                                         ends["Line_"]), ends["Point_"])
      BY <1>1, <1>3
    <2>2. PICK q1 : q1 = ZsToVerts(p, ends["Tri_"])
      OBVIOUS
    <2>3. PICK q2 : q2 = ZsToVerts(q1, ends["Line_"])
      OBVIOUS
    <2>4. q = ZsToVerts(q2, ends["Point_"])
      BY <2>1, <2>2, <2>3
    <2>5. Reformed(p, q1) /\ q1.simple = p.simple /\ Filled(q1)
      BY <2>2, WrittenIs DEF Reformed
    <2>6. Reformed(q1, q2) /\ q2.simple = q1.simple /\ Filled(q2)
      BY <2>3, <2>5, WrittenIs DEF Reformed
    <2>7. Reformed(q2, q) /\ q.simple = q2.simple
      BY <2>4, <2>6, WrittenIs
    <2> QED  BY <2>5, <2>6, <2>7, ReformedAgain
  <1> QED  BY <1>2, <1>3

-----------------------------------------------------------------------------
(* A primitive that was brought to a time code.                            *)

\* It has the shape of its source at a time code.
Shaped(p, s, t) == p.pos = PosAt(s, t) /\ p.vert = VertAt(s, t) /\ p.poly = PolyAt(s, t)

\* Its points have a second position if there is a skeleton, which is that of a time code with
\* a pose as long as the scene is open.
Hangs(p, s, t, o) ==
  /\ ~ HasSkel(s) => ~ Has(p, "points", "skin")
  /\ HasSkel(s) /\ o /\ t # NaN =>
       /\ Has(p, "points", "skin")
       /\ p.at["points"]["skin"] = [i \in 1 .. Len(p.pos) |-> p.pos[i] + Pose(s, t)]

\* All of that.
Brought(p, s, t, o) == Filled(p) /\ Shaped(p, s, t) /\ Hangs(p, s, t, o)

\* Primitives alike are brought alike.
LEMMA BroughtStays ==
  ASSUME NEW p, NEW s, NEW t, NEW o, Brought(p, s, t, o), NEW q, Reformed(p, q)
  PROVE  Brought(q, s, t, o)
  BY DEF Brought, Shaped, Hangs, Reformed, Alike, Has

\* A skeleton has a pose at each time code but the default one.
LEMMA PoseIs ==
  ASSUME NEW s \in Sources, HasSkel(s), NEW t \in MeshTimes(s), t # NaN
  PROVE  Pose(s, t) \in Int
  <1> DEFINE ts == TimeSamples(s.pose)
  <1>1. s.form = "usd" /\ ts # {}
    BY DEF HasSkel, Skel
  <1>2. IsFiniteSet(ts) /\ ts \subseteq Int /\ \A x \in ts : s.pose[x] \in Int
    BY <1>1, SamplesAreNumbers DEF SamplesAreNumbers
  <1>3. t \in Int
    BY StartIs
  <1> DEFINE lo == {x \in ts : x <= t}
             hi == {x \in ts : x > t}
             val(x) == s.pose[x]
  <1>4. IsFiniteSet(lo) /\ lo \subseteq Int /\ IsFiniteSet(hi) /\ hi \subseteq Int
        /\ lo \subseteq ts /\ hi \subseteq ts
    BY <1>2, FS_Subset
  <1>5. \/ (\A x \in ts : x <= t) /\ Pose(s, t) = val(Max(ts))
        \/ (\A x \in ts : x > t) /\ Pose(s, t) = val(Min(ts))
        \/ /\ ~ (\A x \in ts : x <= t) /\ ~ (\A x \in ts : x > t)
           /\ Pose(s, t) = val(Max(lo)) + ((val(Min(hi)) - val(Max(lo))) * (t - Max(lo)))
                                            \div (Min(hi) - Max(lo))
    <2>1. CASE \A x \in ts : x <= t
      BY <1>1, <2>1 DEF Pose
    <2>2. CASE ~ (\A x \in ts : x <= t) /\ \A x \in ts : x > t
      BY <1>1, <2>2 DEF Pose
    <2>3. CASE ~ (\A x \in ts : x <= t) /\ ~ \A x \in ts : x > t
      BY <1>1, <2>3 DEF Pose
    <2> QED  BY <2>1, <2>2, <2>3
  <1>6. \A x \in ts : val(x) \in Int
    BY <1>2
  <1>7. \A x \in ts : x \in Int
    BY <1>2
  <1> HIDE DEF ts, val
  <1>8. Max(ts) \in ts /\ Min(ts) \in ts
    BY <1>1, <1>2, MinExists, MaxExists DEF ts
  <1>9. ASSUME ~ (\A x \in ts : x <= t), ~ (\A x \in ts : x > t)
        PROVE  Max(lo) \in lo /\ Min(hi) \in hi
    <2>1. hi # {}
      BY <1>3, <1>7, <1>9
    <2>2. lo # {}
      BY <1>3, <1>7, <1>9
    <2> HIDE DEF lo, hi
    <2> QED  BY <1>4, <2>1, <2>2, MinExists, MaxExists
  <1>10. ASSUME Max(lo) \in lo, Min(hi) \in hi
         PROVE  val(Max(lo)) + ((val(Min(hi)) - val(Max(lo))) * (t - Max(lo)))
                                   \div (Min(hi) - Max(lo)) \in Int
    <2>1. PICK a : a = Max(lo)
      OBVIOUS
    <2>2. PICK b : b = Min(hi)
      OBVIOUS
    <2>3. a \in Int /\ b \in Int /\ a <= t /\ b > t /\ a \in ts /\ b \in ts
      BY <1>7, <1>10, <2>1, <2>2
    <2>4. PICK x : x = val(a)
      OBVIOUS
    <2>5. PICK y : y = val(b)
      OBVIOUS
    <2>6. x \in Int /\ y \in Int
      BY <1>6, <2>3, <2>4, <2>5
    <2>7. PICK d : d = b - a
      OBVIOUS
    <2>8. d \in Int /\ d > 0
      BY <1>3, <2>3, <2>7
    <2>9. PICK m : m = (y - x) * (t - a)
      OBVIOUS
    <2>10. m \in Int
      BY <1>3, <2>3, <2>6, <2>9
    <2>11. x + m \div d \in Int
      BY <2>6, <2>8, <2>10
    <2>12. x + ((y - x) * (t - a)) \div (b - a) = x + m \div d
      BY <2>7, <2>9
    <2> QED  BY <2>1, <2>2, <2>4, <2>5, <2>11, <2>12
  <1> QED  BY <1>5, <1>6, <1>8, <1>9, <1>10

\* Key frames bring a primitive to a time code, and its skeleton moves it.
LEMMA BringIs ==
  ASSUME NEW s \in Sources, s.form \in {"usd", "trimesh"}, NEW t \in MeshTimes(s),
         NEW p, Filled(p), ~ HasSkel(s) => ~ Has(p, "points", "skin"), NEW o \in BOOLEAN,
         NEW r, r = Update(p, FramesOf(s), t),
         NEW q, q = IF o /\ HasSkel(s) THEN Skinned(r, s, t) ELSE r
  PROVE  Brought(q, s, t, o) /\ q.simple = p.simple
  <1>1. PICK pos, topo : pos = PosAt(s, t) /\ topo = TopoAt(s, t)
    OBVIOUS
  <1>2. PICK kf : kf = FramesOf(s)
    OBVIOUS
  <1>3. Frame(kf.pos, t) = pos /\ Frame(kf.topo, t) = topo
    BY <1>1, <1>2, ShapeAtIs
  <1>4. VertAt(s, t) = topo.index /\ PolyAt(s, t) = topo.face
    BY <1>1 DEF VertAt, PolyAt
  <1>5. pos \in Seq(Int) /\ pos # <<>> /\ Len(pos) \in Nat
        /\ Len(topo.index) \in Nat /\ Len(topo.face) \in Nat
    BY <1>1, <1>4, SourceIs
  <1>6. r = Update(p, kf, t)
    BY <1>2
  <1>7. Filled(r) /\ r.simple = p.simple
    BY <1>3, <1>5, <1>6, UpdateIs
  <1>8. r.pos = pos /\ r.vert = topo.index /\ r.poly = topo.face
    BY <1>3, <1>5, <1>6, UpdateIs
  <1>9. Has(r, "points", "skin") <=> Has(p, "points", "skin")
    BY <1>3, <1>5, <1>6, UpdateIs
  <1>10. Shaped(r, s, t)
    BY <1>1, <1>4, <1>8 DEF Shaped
  <1>11. CASE ~ (o /\ HasSkel(s))
    <2>1. q = r
      BY <1>11
    <2> QED  BY <1>7, <1>9, <1>10, <1>11, <2>1 DEF Brought, Hangs
  <1>12. CASE o /\ HasSkel(s)
    <2>1. q = Skinned(r, s, t)
      BY <1>12
    <2>2. Refilled(r, q)
      BY <1>5, <1>7, <1>8, <2>1, SkinnedIs
    <2>3. ASSUME t # NaN
          PROVE  SkinAt(q, r.pos, Pose(s, t))
      <3>1. Skel(s) # None /\ Pose(s, t) # None
        BY <1>12, <2>3, PoseIs, TimesAreNumbers DEF HasSkel, TimesAreNumbers
      <3> QED  BY <1>5, <1>7, <1>8, <2>1, <3>1, SkinnedIs
    <2>4. Hangs(q, s, t, o)
      BY <1>12, <2>2, <2>3 DEF Hangs, SkinAt, Refilled, Alike
    <2>5. Shaped(q, s, t)
      BY <1>10, <2>2 DEF Shaped, Refilled, Alike
    <2> QED  BY <1>7, <2>2, <2>4, <2>5 DEF Brought, Refilled
  <1> QED  BY <1>11, <1>12

-----------------------------------------------------------------------------
(* The theorems: about a source before anything is made of it.             *)

\* The source is never another one.
LEMMA SourceStays == Spec => [](src \in Sources)
  <1>1. Init => src \in Sources
    BY DEF Init
  <1>2. src \in Sources /\ [Next]_vars => (src \in Sources)'
    <2> SUFFICES ASSUME src \in Sources, [Next]_vars  PROVE src' = src
      OBVIOUS
    <2>1. CASE Build
      BY <2>1 DEF Build
    <2>2. CASE \E t \in Times : ShowAt(t, "zsmesh") \/ ShowAt(t, "visual")
      BY <2>2 DEF ShowAt
    <2>3. CASE ShowAsIs
      BY <2>3 DEF ShowAsIs
    <2>4. CASE Split
      BY <2>4 DEF Split
    <2>5. CASE EndSplit
      BY <2>5 DEF EndSplit
    <2>6. CASE \E n \in {1, 2} : PaintNode(n)
      BY <2>6 DEF PaintNode
    <2>7. CASE CloseScene
      BY <2>7 DEF CloseScene
    <2>8. CASE UNCHANGED vars
      BY <2>8 DEF vars
    <2> QED  BY <2>1, <2>2, <2>3, <2>4, <2>5, <2>6, <2>7, <2>8 DEF Next
  <1> QED  BY <1>1, <1>2, PTL DEF Spec

\* For every USD mesh, whatever time codes its attributes are sampled at and wherever its
\* skeleton begins and ends: what meshRequireUpdate of zs/world/scene/Primitive.cpp does not
\* flag has the same key frame, or pose, at the other time code.
THEOREM UnflaggedIsSame == Spec => []FlagsAreEnough
  <1>1. src \in Sources => FlagsAreEnough
    <2> SUFFICES ASSUME src \in Sources, src.form = "usd", NEW old \in Times, NEW t \in Times
                 PROVE  LET kf == KeyFrames(src)
                            r == meshRequireUpdate(kf, Skel(src), old, t)
                        IN /\ \A a \in {"pos", "topo", "uv", "nrm", "clr"} \ r.dirty :
                                Frame(kf[a], old) = Frame(kf[a], t)
                           /\ ~r.needed => Pose(src, old) = Pose(src, t)
      BY DEF FlagsAreEnough
    <2> DEFINE kf == KeyFrames(src)
               r == meshRequireUpdate(kf, Skel(src), old, t)
    <2> HIDE DEF kf
    <2>1. \A a \in {"pos", "topo", "uv", "nrm", "clr"} \ r.dirty :
            Frame(kf[a], old) = Frame(kf[a], t)
      BY UnflaggedStays
    <2>2. ~r.needed => Pose(src, old) = Pose(src, t)
      <3>1. IsFiniteSet(TimeSamples(src.pose)) /\ TimeSamples(src.pose) \subseteq Int
        BY SamplesAreNumbers DEF SamplesAreNumbers
      <3>2. PICK u : u = src
        OBVIOUS
      <3>3. PICK k : k = kf
        OBVIOUS
      <3>4. ~ meshRequireUpdate(k, Skel(u), old, t).needed => Pose(u, old) = Pose(u, t)
        BY <3>1, <3>2, PoseStays
      <3> QED  BY <3>2, <3>3, <3>4
    <2> QED  BY <2>1, <2>2 DEF kf
  <1> QED  BY <1>1, SourceStays, PTL

\* For every USD mesh: the global time codes that zs/world/scene/PrimitiveFromOtherForms.cpp
\* merges are all that the key-framed shape and properties of a primitive change at.  Between two
\* of them, before the first and after the last, these are what they are at one of them; before
\* the first and after the last, so is the pose.
THEOREM GlobalsAreAll == Spec => []KeyFramesChangeAtGlobals
  <1>1. ASSUME NEW u \in Sources, u.form = "usd", NEW t \in Int
        PROVE  LET kf == KeyFrames(u)
                   G == ToSet(kf.global)
               IN /\ G # {} => Update(Blank, kf, t) = Update(Blank, kf, BaseOf(G, t))
                  /\ G = {} => Update(Blank, kf, t) = Update(Blank, kf, NaN)
    <2> DEFINE kf == KeyFrames(u)
               G == ToSet(kf.global)
               names == {"pos", "topo", "uv", "nrm", "clr"}
    <2>1. IsFiniteSet(G) /\ G \subseteq Int
      BY <1>1, GlobalsAre
    <2>2. \A a \in names : DOMAIN kf[a].at \subseteq G \/ DOMAIN kf[a].at \subseteq {NaN}
      BY <1>1, KeysAre
    <2>3. t \in Int
      OBVIOUS
    <2> HIDE DEF kf, G
    <2>4. ASSUME G # {}  PROVE Update(Blank, kf, t) = Update(Blank, kf, BaseOf(G, t))
      <3>1. ASSUME NEW a \in names  PROVE Frame(kf[a], t) = Frame(kf[a], BaseOf(G, t))
        <4>1. CASE DOMAIN kf[a].at \subseteq G
          BY <2>1, <2>3, <2>4, <4>1, FrameBetween, FrameByPlace
        <4>2. CASE DOMAIN kf[a].at \subseteq {NaN}
          BY <4>2, FrameAlways, FrameByPlace
        <4> QED  BY <2>2, <4>1, <4>2
      <3> QED  BY <3>1, UpdateOfFrames
    <2>5. ASSUME G = {}  PROVE Update(Blank, kf, t) = Update(Blank, kf, NaN)
      <3>1. ASSUME NEW a \in names  PROVE Frame(kf[a], t) = Frame(kf[a], NaN)
        <4>1. DOMAIN kf[a].at \subseteq {NaN}
          BY <2>2, <2>5
        <4> QED  BY <4>1, FrameAlways, FrameByPlace
      <3> QED  BY <3>1, UpdateOfFrames
    <2> QED  BY <2>4, <2>5 DEF kf, G
  <1>2. src \in Sources => KeyFramesChangeAtGlobals
    <2> SUFFICES ASSUME src \in Sources, src.form = "usd"  PROVE KeyFramesChangeAtGlobals
      BY DEF KeyFramesChangeAtGlobals
    <2>1. PICK u : u = src
      OBVIOUS
    <2> DEFINE kf == KeyFrames(u)
               G == ToSet(kf.global)
    <2>2. \A t \in Int :
            /\ G # {} => Update(Blank, kf, t) = Update(Blank, kf, BaseOf(G, t))
            /\ G = {} => Update(Blank, kf, t) = Update(Blank, kf, NaN)
      BY <1>1, <2>1
    <2>3. \A t \in Int : G # {} /\ ((\A s \in G : s < t) \/ (\A s \in G : t < s))
                           => Pose(u, t) = Pose(u, BaseOf(G, t))
      BY <2>1, PoseOutside
    <2>4. (Times \ {NaN}) \cup Around(G) \subseteq Int
      <3>1. G \subseteq Int
        BY <2>1, GlobalsAre
      <3> HIDE DEF G
      <3>2. ASSUME NEW x \in Around(G)  PROVE x \in Int
        <4>1. PICK y \in G : x \in y - 1 .. y + 1
          BY DEF Around
        <4> QED  BY <3>1, <4>1
      <3>3. \A x \in Times \ {NaN} : x \in Int
        BY TimesAreNumbers DEF TimesAreNumbers
      <3> QED  BY <3>2, <3>3
    <2> HIDE DEF kf, G
    <2>5. \A t \in (Times \ {NaN}) \cup Around(G) :
            /\ G # {} => Update(Blank, kf, t) = Update(Blank, kf, BaseOf(G, t))
            /\ G = {} => Update(Blank, kf, t) = Update(Blank, kf, NaN)
            /\ G # {} /\ ((\A s \in G : s < t) \/ (\A s \in G : t < s)) =>
                 Pose(u, t) = Pose(u, BaseOf(G, t))
      BY <2>2, <2>3, <2>4
    <2> QED  BY <2>1, <2>5 DEF KeyFramesChangeAtGlobals, kf, G
  <1> QED  BY <1>2, SourceStays, PTL

-----------------------------------------------------------------------------
(* Meshes of USD, in and out.                                             *)

\* The faces that vertices are cut into.
FacesOf(vert, sizes) ==
  [f \in 1 .. Len(sizes) |-> [i \in 1 .. sizes[f] |-> vert[Polys(sizes)[f].off + i]]]

\* Put together again, they are the vertices.
LEMMA FacesJoin ==
  ASSUME NEW S, NEW vert \in Seq(S), NEW sizes \in Seq(Nat),
         Len(vert) = SumTo(sizes, Len(sizes))
  PROVE  /\ Len(FacesOf(vert, sizes)) = Len(sizes)
         /\ \A f \in 1 .. Len(sizes) :
              /\ Len(FacesOf(vert, sizes)[f]) = sizes[f]
              /\ \A i \in 1 .. sizes[f] :
                   /\ Polys(sizes)[f].off + i \in 1 .. Len(vert)
                   /\ FacesOf(vert, sizes)[f][i] = vert[Polys(sizes)[f].off + i]
         /\ FlattenSeq(FacesOf(vert, sizes)) = vert
  <1>1. PICK n, m, poly : n = Len(sizes) /\ m = Len(vert) /\ poly = Polys(sizes)
    OBVIOUS
  <1>2. /\ n \in Nat /\ m \in Nat /\ DOMAIN vert = 1 .. m /\ \A f \in 1 .. n : sizes[f] \in Nat
        /\ \A x \in 1 .. m : vert[x] \in S
    BY <1>1
  <1>3. /\ m = SumTo(sizes, n)
        /\ \A f \in 1 .. n : poly[f].off = SumTo(sizes, f - 1) /\ poly[f].off + sizes[f] <= m
    <2>1. \A f \in 1 .. n : /\ poly[f].size = sizes[f] /\ poly[f].off = SumTo(sizes, f - 1)
                            /\ poly[f].off + poly[f].size <= SumTo(sizes, n)
      BY <1>1, PolysAre
    <2> QED  BY <1>1, <2>1
  <1>4. \A f \in 1 .. n : poly[f].off \in Nat
    <2>1. \A i \in 0 .. n : SumTo(sizes, i) \in Nat
      BY <1>2, SumToIs
    <2> QED  BY <1>2, <1>3, <2>1
  <1>5. \A f \in 1 .. n : \A i \in 1 .. sizes[f] : poly[f].off + i \in 1 .. m
    <2> SUFFICES ASSUME NEW f \in 1 .. n, NEW i \in 1 .. sizes[f]
                 PROVE  poly[f].off + i \in 1 .. m
      OBVIOUS
    <2>1. PICK o \in Nat, k \in Nat : o = poly[f].off /\ k = sizes[f]
      BY <1>2, <1>4
    <2>2. i \in 1 .. k /\ o + k <= m
      BY <1>3, <2>1
    <2>3. o + i \in 1 .. m
      BY <1>2, <2>2
    <2> QED  BY <2>1, <2>3
  <1>6. PICK ss : ss = FacesOf(vert, sizes)
    OBVIOUS
  <1>7. ss = [f \in 1 .. n |-> [i \in 1 .. sizes[f] |-> vert[poly[f].off + i]]]
    BY <1>1, <1>6 DEF FacesOf
  <1>8. ASSUME NEW f \in 1 .. n
        PROVE  /\ ss[f] \in Seq(S) /\ Len(ss[f]) = sizes[f]
               /\ \A i \in 1 .. sizes[f] : ss[f][i] = vert[poly[f].off + i]
    <2>1. PICK k \in Nat : k = sizes[f]
      BY <1>2
    <2>2. ss[f] = [i \in 1 .. k |-> vert[poly[f].off + i]]
      BY <1>7, <2>1
    <2>3. \A i \in 1 .. k : vert[poly[f].off + i] \in S
      BY <1>2, <1>5, <2>1
    <2>4. ss[f] \in [1 .. k -> S]
      BY <2>2, <2>3
    <2>5. ss[f] \in Seq(S) /\ Len(ss[f]) = k
      <3>1. PICK q : q = ss[f]
        OBVIOUS
      <3>2. q \in [1 .. k -> S]
        BY <2>4, <3>1
      <3>3. q \in Seq(S) /\ Len(q) = k
        BY <3>2
      <3> QED  BY <3>1, <3>3
    <2> QED  BY <2>1, <2>2, <2>5
  <1>9. ss \in Seq(Seq(S)) /\ Len(ss) = n
    <2>1. ss \in [1 .. n -> Seq(S)]
      BY <1>7, <1>8
    <2> QED  BY <1>2, <2>1
  <1>10. PICK c : c = FlattenSeq(ss)
    OBVIOUS
  <1>11. /\ c \in Seq(S) /\ Len(c) = m
         /\ \A f \in 1 .. n : \A i \in 1 .. sizes[f] : c[poly[f].off + i] = ss[f][i]
    BY <1>1, <1>3, <1>8, <1>9, <1>10, LaidOut, SMTT(20)
  <1>12. ASSUME NEW x \in 1 .. m  PROVE c[x] = vert[x]
    <2>0. \A y \in 1 .. SumTo(sizes, n) :
            \E f \in 1 .. n : \E i \in 1 .. sizes[f] : y = SumTo(sizes, f - 1) + i
      BY <1>2, SumToGrows, SMTT(20)
    <2>1. PICK f \in 1 .. n : \E i \in 1 .. sizes[f] : x = SumTo(sizes, f - 1) + i
      BY <1>3, <2>0
    <2>2. PICK i \in 1 .. sizes[f] : x = poly[f].off + i
      BY <1>3, <2>1
    <2> QED  BY <1>8, <1>11, <2>2
  <1>13. c = vert
    <2>1. DOMAIN c = 1 .. m /\ c = [x \in 1 .. m |-> c[x]] /\ vert = [x \in 1 .. m |-> vert[x]]
      BY <1>1, <1>11
    <2> QED  BY <1>12, <2>1
  <1> QED  BY <1>1, <1>5, <1>6, <1>8, <1>9, <1>10, <1>13

\* A value that is set at the default time code alone is seen at every time code.
LEMMA OnlyDefault ==
  ASSUME NEW v, NEW t  PROVE Held([x \in {NaN} |-> v], t) = v
  <1>1. PICK a : a = [x \in {NaN} |-> v]
    OBVIOUS
  <1>2. TimeSamples(a) = {} /\ NaN \in DOMAIN a /\ a[NaN] = v
    BY <1>1 DEF TimeSamples
  <1>3. Held(a, t) = v
    BY <1>2 DEF Held
  <1> QED  BY <1>1, <1>3

\* The points, sizes and indices of a USD mesh that has faces at a time code, ...
Holds(u, t, pos, sizes, ids) ==
  /\ Held(u.points, t) = pos /\ Held(u.counts, t) = sizes /\ Held(u.indices, t) = ids
  /\ pos # <<>> /\ sizes # <<>> /\ ids # <<>>

\* ... and the primitive that is made of them.
MadeOf(p, pos, sizes, ids, left) ==
  /\ p.pos = pos /\ p.poly = Polys(sizes) /\ p.vert = Oriented(Polys(sizes), ids, left)
  /\ p.global = [f \in 1 .. Len(sizes) |-> <<"Poly_", f>>]

\* It is what is read from USD, with the points where the skeleton moves them.
LEMMA ImportIs ==
  ASSUME NEW u, NEW t, NEW pos, NEW sizes, NEW ids, Holds(u, t, pos, sizes, ids)
  PROVE  MadeOf(ImportAt(u, t), Hanging(u, t), sizes, ids, u.left)
  <1>1. PICK p, q : q = PointsAt(u, t) /\ p = ImportAt(u, t)
    OBVIOUS
  <1>2. p = FacesAt(q, u, t)
    BY <1>1 DEF ImportAt, Positions, Holds
  <1>3. /\ q.pos = Hanging(u, t)
        /\ DOMAIN q = {"pos", "vert", "poly", "simple", "at", "global"}
    BY <1>1 DEF PointsAt, Blank
  <1>4. Held(u.counts, t) = sizes /\ Held(u.indices, t) = ids
    BY DEF Holds
  <1>5. /\ p.pos = q.pos /\ p.poly = Polys(sizes)
        /\ p.vert = Oriented(Polys(sizes), ids, u.left)
        /\ p.global = [f \in 1 .. Len(sizes) |-> <<"Poly_", f>>]
    BY <1>2, <1>3, <1>4, Zenon DEF FacesAt
  <1> QED  BY <1>1, <1>3, <1>5 DEF MadeOf

\* A skeleton moves the points to where they are drawn.
LEMMA HangingIs ==
  ASSUME NEW s \in Sources, s.form = "usd", NEW t \in MeshTimes(s),
         NEW pos, pos = PosAt(s, t), Held(s.points, t) = pos
  PROVE  /\ Hanging(s, t) = RefNodes(s, t)
         /\ Hanging(s, t) \in Seq(Int) /\ Len(Hanging(s, t)) = Len(pos)
         /\ HasSkel(s) /\ t # NaN => Hanging(s, t) = [i \in 1 .. Len(pos) |-> pos[i] + Pose(s, t)]
         /\ ~ (HasSkel(s) /\ t # NaN) => Hanging(s, t) = pos
  <1>1. pos \in Seq(Int) /\ DOMAIN pos = 1 .. Len(pos) /\ Len(pos) \in Nat
    <2>1. pos \in Seq(Int)
      BY SourceIs
    <2>2. \A q \in Seq(Int) : DOMAIN q = 1 .. Len(q) /\ Len(q) \in Nat
      OBVIOUS
    <2> QED  BY <2>1, <2>2
  <1>2. Positions(s, t) = pos /\ AsOf(s.points, t) = pos
    BY DEF Positions, PosAt
  <1>3. CASE HasSkel(s) /\ t # NaN
    <2>1. PICK x \in Int : x = Pose(s, t)
      BY <1>3, PoseIs
    <2>2. Skel(s) # None /\ Pose(s, t) # None
      BY <1>3, <2>1, TimesAreNumbers DEF HasSkel, TimesAreNumbers
    <2>3. Hanging(s, t) = [i \in DOMAIN pos |-> pos[i] + x]
      BY <1>2, <2>1, <2>2 DEF Hanging
    <2>4. RefNodes(s, t) = [i \in DOMAIN pos |-> pos[i] + x]
      BY <1>2, <1>3, <2>1 DEF RefNodes
    <2>5. PICK n \in Nat : n = Len(pos)
      BY <1>1
    <2>6. PICK h : h = Hanging(s, t)
      OBVIOUS
    <2>7. h = [i \in 1 .. n |-> pos[i] + x]
      BY <1>1, <2>3, <2>5, <2>6
    <2>8. h \in [1 .. n -> Int]
      BY <1>1, <2>5, <2>7
    <2>9. h \in Seq(Int) /\ Len(h) = n
      BY <2>8
    <2> QED  BY <1>3, <2>1, <2>3, <2>4, <2>5, <2>6, <2>7, <2>9
  <1>4. CASE ~ (HasSkel(s) /\ t # NaN)
    <2>1. Skel(s) = None \/ Pose(s, t) = None
      BY <1>4 DEF HasSkel, Pose
    <2>2. Hanging(s, t) = pos
      BY <1>2, <2>1 DEF Hanging
    <2>3. RefNodes(s, t) = pos
      BY <1>2, <1>4 DEF RefNodes
    <2> QED  BY <1>1, <1>4, <2>2, <2>3
  <1> QED  BY <1>3, <1>4

\* Read from USD at one time code (assign_usdmesh_to_primitive, which moves the points by the
\* skeleton), or made of the key frames of all of them (updatePrimFromKeyFrames) and moved after
\* that (apply_usd_skinning), a mesh has its points at the same places, and the same corners and
\* polygons.  The default time code shows the last key, so there the two differ if there are
\* samples.
THEOREM ImportsHaveOneShape ==
  ASSUME NEW s \in Sources, s.form = "usd", NEW t \in MeshTimes(s),
         \/ t # NaN
         \/ \A f \in {"points", "counts", "indices"} : TimeSamples(s[f]) = {}
  PROVE  LET once == ImportAt(s, t)
             keyed == Skinned(Update(Blank, KeyFrames(s), t), s, t)
         IN once.pos = Places(keyed) /\ once.vert = keyed.vert /\ once.poly = keyed.poly
  <1>1. PICK pos, sizes, ids : pos = AsOf(s.points, t) /\ sizes = AsOf(s.counts, t)
                               /\ ids = AsOf(s.indices, t)
    OBVIOUS
  <1>2. PICK topo : topo = TopoAt(s, t)
    OBVIOUS
  <1>3. Held(s.points, t) = pos /\ Held(s.counts, t) = sizes /\ Held(s.indices, t) = ids
    BY <1>1 DEF AsOf
  <1>4. sizes # <<>> /\ ids # <<>>
    BY <1>1, UsdIs
  <1>5. PosAt(s, t) = pos /\ VertAt(s, t) = topo.index /\ PolyAt(s, t) = topo.face
    BY <1>1, <1>2 DEF PosAt, VertAt, PolyAt
  <1>6. topo = [face |-> Polys(sizes), index |-> Oriented(Polys(sizes), ids, s.left)]
    BY <1>1, <1>2 DEF TopoAt
  <1>7. pos # <<>>
    BY <1>5, SourceIs
  <1>8. PICK r, keyed : r = Update(Blank, KeyFrames(s), t) /\ keyed = Skinned(r, s, t)
    OBVIOUS
  <1>9. KeyFrames(s) = FramesOf(s)
    BY DEF FramesOf
  <1>10. keyed = IF TRUE /\ HasSkel(s) THEN Skinned(r, s, t) ELSE r
    <2>1. CASE HasSkel(s)
      BY <1>8, <2>1
    <2>2. CASE ~ HasSkel(s)
      <3>1. Skel(s) = None
        BY <2>2 DEF HasSkel
      <3>2. Skinned(r, s, t) = r
        BY <3>1 DEF Skinned
      <3> QED  BY <1>8, <2>2, <3>2
    <2> QED  BY <2>1, <2>2
  <1>11. Brought(keyed, s, t, TRUE)
    BY <1>8, <1>9, <1>10, BringIs, BlankIs
  <1>12. keyed.pos = pos /\ keyed.vert = topo.index /\ keyed.poly = topo.face
    BY <1>5, <1>11 DEF Brought, Shaped
  <1>13. Places(keyed) = Hanging(s, t)
    <2>1. CASE HasSkel(s) /\ t # NaN
      <3>1. /\ Has(keyed, "points", "skin")
            /\ keyed.at["points"]["skin"] = [i \in 1 .. Len(pos) |-> pos[i] + Pose(s, t)]
        BY <1>11, <1>12, <2>1 DEF Brought, Hangs
      <3>2. Hanging(s, t) = [i \in 1 .. Len(pos) |-> pos[i] + Pose(s, t)]
        BY <1>3, <1>5, <2>1, HangingIs
      <3> QED  BY <3>1, <3>2 DEF Places
    <2>2. CASE ~ (HasSkel(s) /\ t # NaN)
      <3>1. Skel(s) = None \/ Pose(s, t) = None
        BY <2>2 DEF HasSkel, Pose
      <3>2. keyed = r
        BY <1>8, <3>1 DEF Skinned
      <3>3. ~ Has(r, "points", "skin")
        <4>1. PICK kf : kf = KeyFrames(s)
          OBVIOUS
        <4>2. Frame(kf.pos, t) = pos /\ Frame(kf.topo, t) = topo
          BY <1>2, <1>5, <1>9, <4>1, ShapeAtIs
        <4>3. Len(pos) \in Nat /\ Len(topo.index) \in Nat /\ Len(topo.face) \in Nat
          BY <1>5, SourceIs
        <4> QED  BY <1>8, <4>1, <4>2, <4>3, UpdateIs, BlankIs
      <3>4. Hanging(s, t) = pos
        BY <1>3, <1>5, <2>2, HangingIs
      <3> QED  BY <1>12, <3>2, <3>3, <3>4 DEF Places
    <2> QED  BY <2>1, <2>2
  <1>14. PICK once : once = ImportAt(s, t)
    OBVIOUS
  <1>15. MadeOf(once, Hanging(s, t), sizes, ids, s.left)
    <2>1. Holds(s, t, pos, sizes, ids)
      BY <1>3, <1>4, <1>7, Zenon DEF Holds
    <2> QED  BY <1>14, <2>1, ImportIs
  <1>16. /\ once.pos = Hanging(s, t) /\ once.poly = Polys(sizes)
         /\ once.vert = Oriented(Polys(sizes), ids, s.left)
    BY <1>15, Zenon DEF MadeOf
  <1> QED  BY <1>6, <1>8, <1>12, <1>13, <1>14, <1>16

\* Read from USD, with a skeleton or without, written to a right-handed prim that has no skeleton
\* of its own, and read again, a mesh is what it was: the same points, corners and polygons, at
\* whatever time code the prim is read (assign_primitive_to_usdprim and
\* assign_usdmesh_to_primitive).  A skeleton of that prim would move the points once more.
THEOREM ExportsComeBack ==
  ASSUME NEW s \in Sources, s.form = "usd", NEW t \in MeshTimes(s),
         \/ t # NaN
         \/ \A f \in {"points", "counts", "indices"} : TimeSamples(s[f]) = {},
         NEW u, UsdAttribs \cup {"left", "pose"} \subseteq DOMAIN u, ~ u.left,
         TimeSamples(u.pose) = {}, NEW x
  PROVE  LET p == ImportAt(s, t)
             back == ImportAt(ToUsd(p, u, t, NaN), x)
         IN back.pos = p.pos /\ back.vert = p.vert /\ back.poly = p.poly
  <1>1. PICK pos, sizes, ids : pos = AsOf(s.points, t) /\ sizes = AsOf(s.counts, t)
                               /\ ids = AsOf(s.indices, t)
    OBVIOUS
  <1>2. Held(s.points, t) = pos /\ Held(s.counts, t) = sizes /\ Held(s.indices, t) = ids
    BY <1>1 DEF AsOf
  <1>3. PICK vert : vert = Oriented(Polys(sizes), ids, s.left)
    OBVIOUS
  <1>4. PosAt(s, t) = pos /\ TopoAt(s, t).index = vert /\ TopoAt(s, t).face = Polys(sizes)
        /\ SizesAt(s, t) = sizes
    BY <1>1, <1>3 DEF PosAt, TopoAt, SizesAt
  <1>5. /\ pos \in Seq(Int) /\ vert \in Seq(1 .. Len(pos)) /\ vert # <<>>
        /\ sizes \in Seq(Nat) /\ sizes # <<>> /\ Len(vert) = SumTo(sizes, Len(sizes))
        /\ pos # <<>> /\ ids # <<>>
    <2>1. /\ pos \in Seq(Int) /\ vert \in Seq(1 .. Len(pos)) /\ vert # <<>>
          /\ sizes \in Seq(Nat) /\ sizes # <<>> /\ Len(vert) = SumTo(sizes, Len(sizes))
      BY <1>4, TopoIs
    <2>2. pos # <<>>
      BY <1>4, SourceIs
    <2>3. ids # <<>>
      BY <1>1, UsdIs
    <2> QED  BY <2>1, <2>2, <2>3
  <1>6. PICK n : n = Len(sizes)
    OBVIOUS
  <1>7. PICK p, at : p = ImportAt(s, t) /\ at = Hanging(s, t)
    OBVIOUS
  <1>8. at \in Seq(Int) /\ at # <<>>
    <2>1. at \in Seq(Int) /\ Len(at) = Len(pos)
      BY <1>2, <1>4, <1>7, HangingIs
    <2> QED  BY <1>5, <2>1
  <1>9. /\ p.pos = at /\ p.poly = Polys(sizes) /\ p.vert = vert
        /\ p.global = [f \in 1 .. n |-> <<"Poly_", f>>]
    <2>1. Holds(s, t, pos, sizes, ids)
      BY <1>2, <1>5, Zenon DEF Holds
    <2>2. MadeOf(p, at, sizes, ids, s.left)
      BY <1>7, <2>1, ImportIs
    <2> QED  BY <1>3, <1>6, <2>2, Zenon DEF MadeOf
  <1>10. PICK ss : ss = FacesOf(vert, sizes)
    OBVIOUS
  <1>11. /\ Len(ss) = n /\ FlattenSeq(ss) = vert
         /\ \A f \in 1 .. n : /\ Len(ss[f]) = sizes[f]
                              /\ \A i \in 1 .. sizes[f] :
                                   Polys(sizes)[f].off + i \in 1 .. Len(vert)
    BY <1>5, <1>6, <1>10, FacesJoin, SMTT(20)
  <1>12. n \in Nat /\ sizes = [i \in 1 .. n |-> sizes[i]]
         /\ \A f \in 1 .. n : Polys(sizes)[f].size = sizes[f]
    BY <1>5, <1>6, PolysAre
  <1>13. ASSUME NEW f \in 1 .. n
         PROVE  FaceOf(p, p.global[f]) = [i \in 1 .. sizes[f] |-> vert[Polys(sizes)[f].off + i]]
    <2>1. p.global[f] = <<"Poly_", f>>
      BY <1>9
    <2> QED  BY <1>9, <1>12, <2>1 DEF FaceOf
  <1>14. Len(p.global) = n
    BY <1>9, <1>12
  <1>15. [i \in 1 .. Len(p.global) |-> FaceOf(p, p.global[i])] = ss
    BY <1>6, <1>10, <1>13, <1>14 DEF FacesOf
  <1>16. [i \in 1 .. Len(ss) |-> Len(ss[i])] = sizes
    BY <1>11, <1>12
  <1>17. PICK w : w = ToUsd(p, u, t, NaN)
    OBVIOUS
  <1>18. /\ w.points = [y \in {NaN} |-> at] /\ w.counts = [y \in {NaN} |-> sizes]
         /\ w.indices = [y \in {NaN} |-> vert] /\ w.left = u.left
         /\ w.pose = u.pose
    <2>1. /\ "points" \in DOMAIN u /\ "counts" \in DOMAIN u /\ "indices" \in DOMAIN u
      BY DEF UsdAttribs
    <2> DEFINE faces == [i \in 1 .. Len(p.global) |-> FaceOf(p, p.global[i])]
    <2>2. /\ w.points = [y \in {NaN} |-> p.pos]
          /\ w.counts = [y \in {NaN} |-> [i \in 1 .. Len(faces) |-> Len(faces[i])]]
          /\ w.indices = [y \in {NaN} |-> FlattenSeq(faces)] /\ w.left = u.left
          /\ w.pose = u.pose
      BY <1>17, <2>1 DEF ToUsd
    <2>3. faces = ss
      BY <1>15
    <2> HIDE DEF faces
    <2>4. [i \in 1 .. Len(faces) |-> Len(faces[i])] = sizes
      BY <1>16, <2>3
    <2>5. FlattenSeq(faces) = vert /\ p.pos = at
      BY <1>9, <1>11, <2>3
    <2> QED  BY <2>2, <2>4, <2>5
  <1>19. Held(w.points, x) = at /\ Held(w.counts, x) = sizes /\ Held(w.indices, x) = vert
    BY <1>18, OnlyDefault
  <1>20. PICK back : back = ImportAt(w, x)
    OBVIOUS
  <1>21. Hanging(w, x) = at
    BY <1>18, <1>19 DEF Hanging, Positions, Skel
  <1>22. /\ back.pos = at /\ back.poly = Polys(sizes)
         /\ back.vert = Oriented(Polys(sizes), vert, w.left)
    <2>1. Holds(w, x, at, sizes, vert)
      BY <1>5, <1>19, <1>8, Zenon DEF Holds
    <2>2. MadeOf(back, at, sizes, vert, w.left)
      BY <1>20, <1>21, <2>1, ImportIs
    <2> QED  BY <2>2, Zenon DEF MadeOf
  <1>23. Oriented(Polys(sizes), vert, w.left) = vert
    <2>1. PICK poly : poly = Polys(sizes)
      OBVIOUS
    <2>2. DOMAIN poly = 1 .. n
      BY <1>5, <1>6, <2>1, PolysAre
    <2>3. [f \in DOMAIN poly |-> [i \in 1 .. poly[f].size |-> At(vert, poly[f].off + i)]] = ss
      <3>1. ASSUME NEW f \in 1 .. n, NEW i \in 1 .. sizes[f]
            PROVE  At(vert, poly[f].off + i) = vert[poly[f].off + i]
        BY <1>11, <2>1 DEF At
      <3>2. [f \in DOMAIN poly |-> [i \in 1 .. poly[f].size |-> At(vert, poly[f].off + i)]]
            = [f \in 1 .. n |-> [i \in 1 .. sizes[f] |-> vert[poly[f].off + i]]]
        BY <1>12, <2>1, <2>2, <3>1
      <3> QED  BY <1>6, <1>10, <2>1, <3>2 DEF FacesOf
    <2>4. w.left = u.left
      BY <1>18
    <2>5. Oriented(poly, vert, w.left)
          = FlattenSeq([f \in DOMAIN poly |->
                          [i \in 1 .. poly[f].size |-> At(vert, poly[f].off + i)]])
      BY <2>4 DEF Oriented
    <2> QED  BY <1>11, <2>1, <2>3, <2>5
  <1> QED  BY <1>7, <1>9, <1>17, <1>20, <1>22, <1>23
=============================================================================
