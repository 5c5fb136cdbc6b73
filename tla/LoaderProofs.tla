---------------------------- MODULE LoaderProofs ----------------------------
(***************************************************************************)
(* The loader does with the bytes of a frame what the pure wire layer says *)
(* of the whole frame, and sends of a run what the pure wire layer makes   *)
(* of its trace, for words, groups, stores and rings of any size.          *)
(***************************************************************************)
EXTENDS LoaderProperties, CobsLemmas

-----------------------------------------------------------------------------
(* The frame layer's helpers.                                              *)

\* The CRC is a fold over the bytes.
LEMMA CrcFold ==
    ASSUME NEW s \in Seq(WireByte)
    PROVE  \E f : IsFold(f, WireByte, 0, CrcUpdate, s) /\ Crc(s) = f[Len(s)]
<1> DEFINE Is(g) == g = [i \in 0..Len(s) |-> IF i = 0 THEN 0 ELSE CrcUpdate[<<g[i-1], s[i]>>]]
           c == CHOOSE g : Is(g)
<1>1. Len(s) \in Nat /\ 0 \in WireByte /\ IsStep(CrcUpdate, WireByte, WireByte)
  BY LenProperties, MaxGroupAssumption, WireAssumption DEF WireByte, FullCode, IsStep
<1>2. PICK f : IsFold(f, WireByte, 0, CrcUpdate, s)
  BY <1>1, FoldExists
<1>3. Is(f)
  <2>1. f = [i \in 0..Len(s) |-> f[i]]
    BY <1>2 DEF IsFold
  <2>2. \A i \in 0..Len(s) : f[i] = IF i = 0 THEN 0 ELSE CrcUpdate[<<f[i-1], s[i]>>]
    <3>1. \A i \in 0..Len(s) : i # 0 => i \in 1..Len(s)
      BY <1>1
    <3> QED
      BY <1>2, <3>1 DEF IsFold
  <2> QED
    BY <2>1, <2>2, Zenon
<1>4. Is(c)
  <2> HIDE DEF Is
  <2> QED
    BY <1>3
<1>5. c[0] = 0 /\ \A i \in 1..Len(s) : c[i] = CrcUpdate[<<c[i-1], s[i]>>]
  <2>1. 0 \in 0..Len(s) /\ \A i \in 1..Len(s) : i # 0 /\ i \in 0..Len(s)
    BY <1>1
  <2>2. c = [i \in 0..Len(s) |-> IF i = 0 THEN 0 ELSE CrcUpdate[<<c[i-1], s[i]>>]]
    BY <1>4
  <2> HIDE DEF c
  <2> QED
    BY <2>1, <2>2, Zenon
<1>6. Crc(s) = c[Len(s)]
  BY DEF Crc
<1>7. c[Len(s)] = f[Len(s)]
  <2> HIDE DEF c
  <2>1. SameSteps(Len(s), CrcUpdate, s, s, c, f)
    BY <1>2, <1>5 DEF SameSteps, IsFold
  <2>2. c[0] = f[0]
    BY <1>2, <1>5 DEF IsFold
  <2> QED
    BY <1>1, <2>1, <2>2, FoldsAgree
<1> QED
  BY <1>2, <1>6, <1>7

LEMMA CrcOf ==
    /\ Crc(<<>>) = 0
    /\ \A s \in Seq(WireByte) : Crc(s) \in WireByte
    /\ \A s \in Seq(WireByte), b \in WireByte : Crc(Append(s, b)) = CrcUpdate[<<Crc(s), b>>]
<1>1. Crc(<<>>) = 0
  <2>1. <<>> \in Seq(WireByte) /\ Len(<<>>) = 0
    OBVIOUS
  <2> QED
    BY <2>1, CrcFold DEF IsFold
<1>2. ASSUME NEW s \in Seq(WireByte) PROVE Crc(s) \in WireByte
  <2>1. PICK f : IsFold(f, WireByte, 0, CrcUpdate, s) /\ Crc(s) = f[Len(s)]
    BY CrcFold
  <2>2. Len(s) \in 0..Len(s)
    BY LenProperties
  <2> QED
    BY <2>1, <2>2 DEF IsFold
<1>3. ASSUME NEW s \in Seq(WireByte), NEW b \in WireByte
      PROVE  Crc(Append(s, b)) = CrcUpdate[<<Crc(s), b>>]
  <2> DEFINE t == Append(s, b)
             n == Len(s)
  <2>1. /\ t \in Seq(WireByte) /\ n \in Nat /\ Len(t) = n + 1 /\ t[n+1] = b
        /\ \A i \in 1..n : t[i] = s[i]
    BY AppendProperties, LenProperties
  <2> HIDE DEF t
  <2>2. PICK f : IsFold(f, WireByte, 0, CrcUpdate, s) /\ Crc(s) = f[n]
    BY CrcFold
  <2>3. PICK g : IsFold(g, WireByte, 0, CrcUpdate, t) /\ Crc(t) = g[Len(t)]
    BY <2>1, CrcFold
  <2>4. SameSteps(n, CrcUpdate, s, t, f, g) /\ f[0] = g[0]
    <3>1. \A i \in 1..n : i \in 1..Len(t)
      BY <2>1
    <3> QED
      BY <2>1, <2>2, <2>3, <3>1 DEF SameSteps, IsFold
  <2>5. f[n] = g[n]
    <3>1. n \in Nat /\ SameSteps(n, CrcUpdate, s, t, f, g) /\ f[0] = g[0]
      BY <2>1, <2>4
    <3> HIDE DEF n
    <3> QED
      BY <3>1, FoldsAgree
  <2>6. g[n+1] = CrcUpdate[<<g[n], b>>]
    <3>1. n + 1 \in 1..Len(t) /\ (n + 1) - 1 = n
      BY <2>1
    <3> HIDE DEF n
    <3> QED
      BY <2>1, <2>3, <3>1 DEF IsFold
  <2> QED
    BY <2>1, <2>2, <2>3, <2>5, <2>6 DEF t
<1> QED
  BY <1>1, <1>2, <1>3

\* A word is the sequence of its bytes.
LEMMA WordFacts ==
    /\ Words \subseteq Seq(WireByte) /\ WordBytes \in Nat /\ WordBytes >= 1
    /\ \A w \in Words : Len(w) = WordBytes
<1>1. WordBytes \in Nat /\ WordBytes >= 1
  BY WireAssumption
<1>2. ASSUME NEW w \in Words PROVE w \in Seq(WireByte) /\ Len(w) = WordBytes
  BY <1>1 DEF Words
<1> QED
  BY <1>1, <1>2

\* The bytes of words are a fold over the words.
Join == [x \in Seq(WireByte) \X Words |-> x[1] \o x[2]]

LEMMA JoinIs ==
    /\ IsStep(Join, Seq(WireByte), Words) /\ <<>> \in Seq(WireByte)
    /\ \A s \in Seq(WireByte), w \in Words : Join[<<s, w>>] = s \o w
<1>1. \A s \in Seq(WireByte), w \in Words : s \o w \in Seq(WireByte)
  BY WordFacts, Joined, Zenon
<1>2. \A x \in Seq(WireByte) \X Words : x[1] \in Seq(WireByte) /\ x[2] \in Words
  OBVIOUS
<1>3. \A x \in Seq(WireByte) \X Words : x[1] \o x[2] \in Seq(WireByte)
  BY <1>1, <1>2
<1>4. Join \in [Seq(WireByte) \X Words -> Seq(WireByte)]
  BY <1>3, Zenon DEF Join
<1>5. ASSUME NEW s \in Seq(WireByte), NEW w \in Words PROVE Join[<<s, w>>] = s \o w
  BY DEF Join
<1>6. IsStep(Join, Seq(WireByte), Words)
  BY <1>4 DEF IsStep
<1>7. <<>> \in Seq(WireByte)
  OBVIOUS
<1> QED
  BY <1>5, <1>6, <1>7, Zenon

LEMMA BytesFold ==
    ASSUME NEW ws \in Seq(Words)
    PROVE  \E f : IsFold(f, Seq(WireByte), <<>>, Join, ws) /\ BytesOf(ws) = f[Len(ws)]
<1> DEFINE n == Len(ws)
           Is(g) == g = [i \in 1..n |-> IF i = 1 THEN ws[i] ELSE g[i-1] \o ws[i]]
           c == CHOOSE g : Is(g)
<1>1. n \in Nat /\ \A i \in 1..n : ws[i] \in Words
  BY LenProperties, ElementOfSeq
<1>2. PICK f : IsFold(f, Seq(WireByte), <<>>, Join, ws)
  BY JoinIs, FoldExists
<1>3. /\ f[0] = <<>> /\ \A i \in 0..n : f[i] \in Seq(WireByte)
      /\ \A i \in 1..n : f[i] = f[i-1] \o ws[i]
  <2>1. f[0] = <<>> /\ \A i \in 0..n : f[i] \in Seq(WireByte)
    BY <1>2 DEF IsFold
  <2>2. ASSUME NEW i \in 1..n PROVE f[i] = f[i-1] \o ws[i]
    <3>1. i - 1 \in 0..n
      BY <1>1
    <3>2. f[i] = Join[<<f[i-1], ws[i]>>]
      BY <1>2 DEF IsFold
    <3> QED
      BY <3>1, <3>2, <2>1, <1>1, JoinIs
  <2> QED
    BY <2>1, <2>2
<1>4. n # 0 => f[1] = ws[1]
  <2> HAVE n # 0
  <2>1. 1 \in 1..n /\ 1 - 1 = 0
    BY <1>1
  <2> DEFINE w == ws[1]
  <2>2. w \in Seq(WireByte)
    BY <2>1, <1>1, WordFacts
  <2>3. f[1] = <<>> \o w
    BY <2>1, <1>3
  <2>4. <<>> \o w = w
    <3> HIDE DEF w
    <3> QED
      BY <2>2, ConcatEmptySeq
  <2> QED
    BY <2>3, <2>4
<1>5. n # 0 => Is([i \in 1..n |-> f[i]])
  <2> HAVE n # 0
  <2> DEFINE h == [i \in 1..n |-> f[i]]
  <2>1. \A i \in 1..n : i # 1 => i - 1 \in 1..n
    BY <1>1
  <2>2. \A i \in 1..n : f[i] = IF i = 1 THEN ws[i] ELSE h[i-1] \o ws[i]
    <3> HIDE DEF n
    <3> TAKE i \in 1..n
    <3>1. CASE i = 1
      BY <3>1, <1>4
    <3>2. CASE i # 1
      <4>1. h[i-1] = f[i-1]
        BY <3>2, <2>1
      <4> HIDE DEF h
      <4> QED
        BY <4>1, <3>2, <1>3
    <3> QED
      BY <3>1, <3>2
  <2>3. h = [i \in 1..n |-> IF i = 1 THEN ws[i] ELSE h[i-1] \o ws[i]]
    <3> HIDE DEF n
    <3> QED
      BY <2>2, Zenon
  <2> QED
    BY <2>3
<1>6. n # 0 => Is(c)
  <2> HIDE DEF Is
  <2> QED
    BY <1>5
<1>7. ASSUME n # 0 PROVE c[n] = f[n]
  <2> DEFINE Differ == {i \in Nat : i \in 1..n /\ c[i] # f[i]}
  <2>1. \A i \in 1..n : c[i] = IF i = 1 THEN ws[i] ELSE c[i-1] \o ws[i]
    <3>1. c = [i \in 1..n |-> IF i = 1 THEN ws[i] ELSE c[i-1] \o ws[i]]
      BY <1>6, <1>7
    <3> HIDE DEF c, n
    <3> QED
      BY <3>1, Zenon
  <2> HIDE DEF c
  <2> SUFFICES ASSUME c[n] # f[n] PROVE FALSE
    OBVIOUS
  <2>2. n \in Differ /\ Differ \in SUBSET Nat
    BY <1>1, <1>7
  <2>3. PICK m \in Differ : \A k \in Differ : m <= k
    <3> HIDE DEF Differ
    <3> QED
      BY <2>2, Least
  <2>4. m \in 1..n /\ m \in Nat /\ c[m] # f[m]
    BY <2>3
  <2>5. m # 1
    <3>1. c[1] = ws[1]
      <4>1. 1 \in 1..n
        BY <1>1, <1>7
      <4> QED
        BY <4>1, <2>1
    <3> QED
      BY <3>1, <1>4, <1>7, <2>4
  <2>6. m - 1 \in 1..n /\ m - 1 \in Nat /\ ~(m <= m - 1)
    BY <2>4, <2>5
  <2>7. c[m-1] = f[m-1]
    <3>1. m - 1 \notin Differ
      <4> HIDE DEF Differ
      <4> QED
        BY <2>3, <2>6
    <3> QED
      BY <3>1, <2>6
  <2> QED
    BY <2>1, <2>4, <2>5, <2>7, <1>3
<1>8. BytesOf(ws) = IF n = 0 THEN ws ELSE c[n]
  BY DEF BytesOf, FlattenSeq
<1>9. n = 0 => ws = <<>>
  BY EmptySeq
<1> QED
  BY <1>2, <1>3, <1>7, <1>8, <1>9

LEMMA BytesOfIs ==
    /\ BytesOf(<<>>) = <<>>
    /\ \A ws \in Seq(Words) : BytesOf(ws) \in Seq(WireByte)
    /\ \A ws \in Seq(Words), w \in Words : BytesOf(Append(ws, w)) = BytesOf(ws) \o w
<1>1. BytesOf(<<>>) = <<>>
  <2>1. <<>> \in Seq(Words) /\ Len(<<>>) = 0
    OBVIOUS
  <2> QED
    BY <2>1, BytesFold DEF IsFold
<1>2. ASSUME NEW ws \in Seq(Words) PROVE BytesOf(ws) \in Seq(WireByte)
  <2>1. PICK f : IsFold(f, Seq(WireByte), <<>>, Join, ws) /\ BytesOf(ws) = f[Len(ws)]
    BY BytesFold
  <2>2. Len(ws) \in 0..Len(ws)
    BY LenProperties
  <2> QED
    BY <2>1, <2>2 DEF IsFold
<1>3. ASSUME NEW ws \in Seq(Words), NEW w \in Words
      PROVE  BytesOf(Append(ws, w)) = BytesOf(ws) \o w
  <2> DEFINE t == Append(ws, w)
             n == Len(ws)
  <2>1. /\ t \in Seq(Words) /\ n \in Nat /\ Len(t) = n + 1 /\ t[n+1] = w
        /\ \A i \in 1..n : t[i] = ws[i]
    BY AppendProperties, LenProperties
  <2> HIDE DEF t
  <2>2. PICK f : IsFold(f, Seq(WireByte), <<>>, Join, ws) /\ BytesOf(ws) = f[n]
    BY BytesFold
  <2>3. PICK g : IsFold(g, Seq(WireByte), <<>>, Join, t) /\ BytesOf(t) = g[Len(t)]
    BY <2>1, BytesFold
  <2>4. SameSteps(n, Join, ws, t, f, g) /\ f[0] = g[0]
    <3>1. \A i \in 1..n : i \in 1..Len(t)
      BY <2>1
    <3> QED
      BY <2>1, <2>2, <2>3, <3>1 DEF SameSteps, IsFold
  <2>5. f[n] = g[n]
    <3>1. n \in Nat /\ SameSteps(n, Join, ws, t, f, g) /\ f[0] = g[0]
      BY <2>1, <2>4
    <3> HIDE DEF n
    <3> QED
      BY <3>1, FoldsAgree
  <2>6. g[n+1] = Join[<<g[n], w>>]
    <3>1. n + 1 \in 1..Len(t) /\ (n + 1) - 1 = n
      BY <2>1
    <3> HIDE DEF n
    <3> QED
      BY <2>1, <2>3, <3>1 DEF IsFold
  <2>7. g[n] \in Seq(WireByte)
    <3>1. BytesOf(ws) \in Seq(WireByte)
      BY <1>2
    <3> QED
      BY <3>1, <2>2, <2>5
  <2> QED
    BY <2>1, <2>2, <2>3, <2>5, <2>6, <2>7, JoinIs DEF t
<1> QED
  BY <1>1, <1>2, <1>3

\* The middle one of three strings.
LEMMA Middle ==
    ASSUME NEW a \in Seq(WireByte), NEW b \in Seq(WireByte), NEW c \in Seq(WireByte)
    PROVE  SubSeq(a \o (b \o c), Len(a) + 1, Len(a) + Len(b)) = b
<1> DEFINE t == b \o c
           s == a \o t
           m == Len(a)
           n == Len(b)
           e == SubSeq(s, m + 1, m + n)
<1>1. m \in Nat /\ n \in Nat /\ Len(c) \in Nat
  BY LenProperties
<1>2. t \in Seq(WireByte) /\ Len(t) = n + Len(c) /\ \A i \in 1..n : t[i] = b[i]
  <2>1. \A i \in 1..n : i \in 1..n + Len(c) /\ i <= n
    BY <1>1
  <2> QED
    BY <2>1, ConcatProperties
<1> HIDE DEF t
<1>3. /\ s \in Seq(WireByte) /\ Len(s) = m + Len(t)
      /\ \A i \in 1..n : s[m + i] = b[i]
  <2>1. /\ s \in Seq(WireByte) /\ Len(s) = m + Len(t)
        /\ \A i \in 1..m + Len(t) : s[i] = IF i <= m THEN a[i] ELSE t[i - m]
    <3>1. a \in Seq(WireByte) /\ t \in Seq(WireByte)
      BY <1>2
    <3> QED
      BY <3>1, ConcatProperties
  <2>2. \A i \in 1..n : m + i \in 1..m + Len(t) /\ ~(m + i <= m) /\ (m + i) - m = i
    BY <1>1, <1>2
  <2> HIDE DEF s, m, n
  <2> QED
    BY <2>1, <2>2, <1>2
<1> HIDE DEF s
<1>4. \A i \in m + 1..m + n : s[i] \in WireByte
  <2>1. \A i \in m + 1..m + n : i \in 1..Len(s)
    BY <1>1, <1>2, <1>3
  <2> QED
    BY <2>1, <1>3, ElementOfSeq
<1>5. /\ e \in Seq(WireByte) /\ Len(e) = n
      /\ \A i \in 1..n : e[i] = s[m + i]
  <2>1. /\ e \in Seq(WireByte)
        /\ Len(e) = IF m + 1 <= m + n THEN (m + n) - (m + 1) + 1 ELSE 0
        /\ \A i \in 1..(m + n) - (m + 1) + 1 : e[i] = s[(m + 1) + i - 1]
    <3>1. m + 1 \in Int /\ m + n \in Int
      BY <1>1
    <3> HIDE DEF m, n
    <3> QED
      BY <3>1, <1>4, SubSeqProperties
  <2>2. /\ (m + n) - (m + 1) + 1 = n /\ (m + 1 <= m + n => n = (m + n) - (m + 1) + 1)
        /\ (~(m + 1 <= m + n) => n = 0)
        /\ \A i \in 1..n : (m + 1) + i - 1 = m + i
    BY <1>1
  <2> HIDE DEF e, m, n
  <2> QED
    BY <2>1, <2>2
<1> HIDE DEF e
<1>6. e = b
  BY <1>3, <1>5, SeqEqual
<1> QED
  BY <1>6 DEF e, s, t

LEMMA DivMod ==
    ASSUME NEW n \in Nat, NEW r \in Nat, r < WordBytes
    PROVE  (n * WordBytes + r) \div WordBytes = n /\ (n * WordBytes + r) % WordBytes = r
<1> DEFINE W == WordBytes
           x == n * W + r
           q == x \div W
<1>1. W \in Nat /\ W >= 1
  BY WordFacts
<1>2. x \in Nat
  BY <1>1
<1>3. q \in Nat /\ x = (q * W) + (x % W) /\ x % W \in 0..W-1
  BY <1>1, <1>2
<1>4. ~(q < n)
  <2> SUFFICES ASSUME q < n PROVE FALSE
    OBVIOUS
  <2>1. \E d \in Nat : n = q + 1 + d
    <3>1. n - q - 1 \in Nat /\ n = q + 1 + (n - q - 1)
      BY <1>3
    <3> QED
      BY <3>1
  <2>2. PICK d \in Nat : n = q + 1 + d
    BY <2>1
  <2>3. n * W = q * W + W + d * W /\ d * W >= 0
    BY <2>2, <1>1, <1>3
  <2> QED
    BY <2>3, <1>1, <1>3
<1>5. ~(q > n)
  <2> SUFFICES ASSUME q > n PROVE FALSE
    OBVIOUS
  <2>1. \E d \in Nat : q = n + 1 + d
    <3>1. q - n - 1 \in Nat /\ q = n + 1 + (q - n - 1)
      BY <1>3
    <3> QED
      BY <3>1
  <2>2. PICK d \in Nat : q = n + 1 + d
    BY <2>1
  <2>3. q * W = n * W + W + d * W /\ d * W >= 0
    BY <2>2, <1>1, <1>3
  <2> QED
    BY <2>3, <1>1, <1>3
<1>6. q = n
  BY <1>3, <1>4, <1>5
<1> QED
  BY <1>1, <1>3, <1>6

\* A word sits where its number says, whatever follows.
Sliced(ws) ==
    /\ Len(BytesOf(ws)) = Len(ws) * WordBytes
    /\ \A rest \in Seq(WireByte), k \in 1..Len(ws) :
          SubSeq(BytesOf(ws) \o rest, (k-1) * WordBytes + 1, k * WordBytes) = ws[k]

LEMMA WordsInPlace == \A ws \in Seq(Words) : Sliced(ws)
<1> DEFINE P == {ws \in Seq(Words) : Sliced(ws)}
<1>1. <<>> \in P
  BY BytesOfIs, WordFacts DEF Sliced
<1>2. ASSUME NEW ws \in P, NEW w \in Words PROVE Append(ws, w) \in P
  <2> DEFINE t == Append(ws, w)
             n == Len(ws)
             bytes == BytesOf(ws)
  <2>1. /\ ws \in Seq(Words) /\ Sliced(ws) /\ bytes \in Seq(WireByte) /\ w \in Seq(WireByte)
        /\ Len(w) = WordBytes /\ WordBytes \in Nat /\ n \in Nat
    BY BytesOfIs, WordFacts, LenProperties
  <2>2. /\ t \in Seq(Words) /\ Len(t) = n + 1 /\ t[n+1] = w
        /\ \A k \in 1..n : t[k] = ws[k]
    BY <2>1, AppendProperties
  <2>3. BytesOf(t) = bytes \o w
    BY <2>1, BytesOfIs
  <2>4. Len(bytes) = n * WordBytes
    BY <2>1 DEF Sliced
  <2>5. Len(BytesOf(t)) = Len(t) * WordBytes
    <3>1. Len(bytes \o w) = Len(bytes) + WordBytes
      BY <2>1, ConcatProperties
    <3>2. (n + 1) * WordBytes = n * WordBytes + WordBytes
      BY <2>1
    <3> HIDE DEF bytes, n, t
    <3> QED
      BY <2>2, <2>3, <2>4, <3>1, <3>2
  <2>6. ASSUME NEW rest \in Seq(WireByte), NEW k \in 1..Len(t)
        PROVE  SubSeq(BytesOf(t) \o rest, (k-1) * WordBytes + 1, k * WordBytes) = t[k]
    <3> DEFINE more == w \o rest
    <3>1. more \in Seq(WireByte)
      BY <2>1, Joined, Zenon
    <3>2. BytesOf(t) \o rest = bytes \o more
      <4>1. (bytes \o w) \o rest = bytes \o (w \o rest)
        <5> HIDE DEF bytes
        <5> QED
          BY <2>1, Regroup, Zenon
      <4> QED
        BY <4>1, <2>3
    <3>3. CASE k \in 1..n
      <4>1. SubSeq(bytes \o more, (k-1) * WordBytes + 1, k * WordBytes) = ws[k]
        <5> HIDE DEF more
        <5> QED
          BY <2>1, <3>1, <3>3 DEF Sliced
      <4> QED
        BY <4>1, <3>2, <3>3, <2>2
    <3>4. CASE k = n + 1
      <4>1. (k-1) * WordBytes = Len(bytes) /\ k * WordBytes = Len(bytes) + Len(w)
        <5>1. (n + 1) * WordBytes = n * WordBytes + WordBytes /\ (n + 1) - 1 = n
          BY <2>1
        <5> HIDE DEF bytes, n
        <5> QED
          BY <5>1, <2>1, <2>4, <3>4
      <4>2. SubSeq(bytes \o more, Len(bytes) + 1, Len(bytes) + Len(w)) = w
        <5> HIDE DEF bytes
        <5> QED
          BY <2>1, Middle
      <4> HIDE DEF bytes, n, t, more
      <4> QED
        BY <4>1, <4>2, <3>2, <3>4, <2>2
    <3>5. k \in 1..n \/ k = n + 1
      BY <2>1, <2>2
    <3> QED
      BY <3>3, <3>4, <3>5
  <2>7. Sliced(t)
    <3> HIDE DEF t
    <3> QED
      BY <2>5, <2>6 DEF Sliced
  <2> QED
    BY <2>2, <2>7
<1>3. P \in SUBSET Seq(Words)
  OBVIOUS
<1>4. \A ws \in Seq(Words) : ws \in P
  <2> HIDE DEF P
  <2> QED
    BY <1>1, <1>2, <1>3, SeqInduction
<1> QED
  BY <1>4

\* Regrouping the bytes of words gives the words, an incomplete one left out.
LEMMA WordsAgain ==
    ASSUME NEW ws \in Seq(Words), NEW rest \in Seq(WireByte), Len(rest) < WordBytes
    PROVE  /\ BytesOf(ws) \o rest \in Seq(WireByte)
           /\ Len(BytesOf(ws) \o rest) % WordBytes = Len(rest)
           /\ WholeWords(BytesOf(ws) \o rest) = ws
<1> DEFINE all == BytesOf(ws) \o rest
           n == Len(ws)
<1>1. /\ BytesOf(ws) \in Seq(WireByte) /\ n \in Nat /\ Len(rest) \in Nat
      /\ Len(BytesOf(ws)) = n * WordBytes
  BY BytesOfIs, WordsInPlace, LenProperties DEF Sliced
<1>2. all \in Seq(WireByte) /\ Len(all) = n * WordBytes + Len(rest)
  BY <1>1, ConcatProperties
<1>3. Len(all) \div WordBytes = n /\ Len(all) % WordBytes = Len(rest)
  <2> HIDE DEF all, n
  <2> QED
    BY <1>1, <1>2, DivMod
<1>4. WholeWords(all) = [k \in 1..n |-> SubSeq(all, (k-1) * WordBytes + 1, k * WordBytes)]
  <2> HIDE DEF all, n
  <2> QED
    BY <1>3 DEF WholeWords
<1>5. \A k \in 1..n : SubSeq(all, (k-1) * WordBytes + 1, k * WordBytes) = ws[k]
  BY WordsInPlace DEF Sliced
<1>6. ws = [k \in 1..n |-> ws[k]]
  OBVIOUS
<1>7. WholeWords(all) = ws
  <2> HIDE DEF all, n
  <2> QED
    BY <1>4, <1>5, <1>6, Zenon
<1> QED
  BY <1>2, <1>3, <1>7

-----------------------------------------------------------------------------
(* The streaming encoder.                                                  *)

Inputs == [byte : WireByte, last : BOOLEAN]
Encs == [mode : {"Filling", "Emitting"}, buf : Groups, ix : 0..FullCode,
         pend : Optional(Inputs), final : BOOLEAN, last : BOOLEAN]

LEMMA OptionalIs ==
    ASSUME NEW S, NEW o \in Optional(S)
    PROVE  o = None \/ (o # None /\ o = Some(o[1]) /\ o[1] \in S)
BY DEF Optional, Some, None

LEMMA SomeOptional == ASSUME NEW S, NEW x \in S PROVE Some(x) \in Optional(S) /\ Some(x) # None
                                                     /\ Some(x)[1] = x
BY DEF Optional, Some, None

LEMMA NoneOptional == ASSUME NEW S PROVE None \in Optional(S)
BY DEF Optional

\* A group that is not full takes one more byte.
LEMMA GroupGrows ==
    ASSUME NEW g \in Groups, NEW b \in WireByte, b # 0
    PROVE  <<b>> \in Groups /\ (Len(g) < MaxGroup => Append(g, b) \in Groups)
<1>1. b \in NonZero /\ MaxGroup \in Nat /\ MaxGroup >= 1
  BY MaxGroupAssumption DEF NonZero, WireByte
<1>2. g \in Seq(NonZero) /\ Len(g) \in Nat
  BY LenProperties DEF Groups
<1>3. <<b>> \in Groups
  BY <1>1 DEF Groups
<1> QED
  BY <1>1, <1>2, <1>3, AppendProperties DEF Groups

LEMMA FillIs ==
    ASSUME NEW e \in Encs, NEW in \in Inputs
    PROVE  LET f == Fill(e, in)
           IN  /\ f \in Encs
               /\ Len(e.buf) = MaxGroup =>
                    /\ f.mode = "Emitting" /\ f.ix = 0 /\ f.buf = e.buf /\ f.pend = Some(in)
                    /\ f.final = e.final /\ f.last = e.last
               /\ Len(e.buf) # MaxGroup /\ in.byte = 0 =>
                    /\ f.mode = "Emitting" /\ f.ix = 0 /\ f.buf = e.buf /\ f.pend = e.pend
                    /\ f.final = in.last /\ f.last = in.last
               /\ Len(e.buf) # MaxGroup /\ in.byte # 0 /\ in.last =>
                    /\ f.mode = "Emitting" /\ f.ix = 0 /\ f.buf = Append(e.buf, in.byte)
                    /\ f.pend = e.pend /\ f.final = FALSE /\ f.last = TRUE
               /\ Len(e.buf) # MaxGroup /\ in.byte # 0 /\ ~in.last =>
                    /\ f.mode = e.mode /\ f.buf = Append(e.buf, in.byte) /\ f.pend = e.pend
                    /\ f.final = e.final /\ f.last = e.last
<1>1. /\ e.buf \in Groups /\ e.mode \in {"Filling", "Emitting"} /\ e.ix \in 0..FullCode
      /\ e.pend \in Optional(Inputs) /\ e.final \in BOOLEAN /\ e.last \in BOOLEAN
      /\ in.byte \in WireByte /\ in.last \in BOOLEAN
  BY DEF Encs, Inputs
<1>2. /\ Len(e.buf) \in Nat /\ Len(e.buf) <= MaxGroup /\ MaxGroup \in Nat
      /\ 0 \in 0..FullCode
  BY <1>1, LenProperties, MaxGroupAssumption DEF Groups, FullCode
<1>3. CASE Len(e.buf) = MaxGroup
  <2>1. Fill(e, in) = [Emit(e) EXCEPT !.pend = Some(in)]
    BY <1>3, <1>2 DEF Fill
  <2>2. Some(in) \in Optional(Inputs)
    BY SomeOptional
  <2> QED
    BY <2>1, <2>2, <1>1, <1>2, <1>3 DEF Emit, Encs
<1>4. CASE Len(e.buf) # MaxGroup /\ in.byte = 0
  <2>1. Fill(e, in) = [Emit(e) EXCEPT !.final = in.last, !.last = in.last]
    BY <1>4, <1>2 DEF Fill
  <2> QED
    BY <2>1, <1>1, <1>2, <1>4 DEF Emit, Encs
<1>5. CASE Len(e.buf) # MaxGroup /\ in.byte # 0
  <2>1. Append(e.buf, in.byte) \in Groups
    <3> DEFINE g == e.buf
               b == in.byte
    <3>1. g \in Groups /\ Len(g) < MaxGroup /\ b \in WireByte /\ b # 0
      BY <1>1, <1>2, <1>5
    <3> HIDE DEF g, b
    <3>2. Append(g, b) \in Groups
      BY <3>1, GroupGrows
    <3> QED
      BY <3>2 DEF g, b
  <2>2. CASE in.last
    <3>1. Fill(e, in) = [Emit(e) EXCEPT !.buf = Append(@, in.byte), !.last = TRUE, !.final = FALSE]
      BY <1>5, <1>2, <2>2 DEF Fill
    <3> QED
      BY <3>1, <2>1, <2>2, <1>1, <1>2, <1>5 DEF Emit, Encs
  <2>3. CASE ~in.last
    <3>1. Fill(e, in) = [e EXCEPT !.buf = Append(@, in.byte)]
      BY <1>5, <1>2, <2>3 DEF Fill
    <3> QED
      BY <3>1, <2>1, <2>3, <1>1, <1>2, <1>5 DEF Encs
  <2> QED
    BY <2>2, <2>3
<1> QED
  BY <1>3, <1>4, <1>5

\* What follows a group: the owed empty group, what met a full one, the end,
\* or more data.
LEMMA AfterGroupIs ==
    ASSUME NEW e \in Encs
    PROVE  LET f == AfterGroup(e)
               in == e.pend[1]
           IN  /\ f \in Encs
               /\ e.final =>
                    /\ f.mode = e.mode /\ f.ix = 0 /\ f.buf = <<>> /\ f.pend = e.pend
                    /\ f.final = FALSE /\ f.last = e.last
               /\ ~e.final /\ e.pend # None => in \in Inputs
               /\ ~e.final /\ e.pend # None /\ in.byte = 0 =>
                    /\ f.mode = "Emitting" /\ f.ix = 0 /\ f.buf = <<>> /\ f.pend = None
                    /\ f.final = in.last /\ f.last = in.last
               /\ ~e.final /\ e.pend # None /\ in.byte # 0 /\ in.last =>
                    /\ f.mode = "Emitting" /\ f.ix = 0 /\ f.buf = <<in.byte>> /\ f.pend = None
                    /\ f.final = e.final /\ f.last = TRUE
               /\ ~e.final /\ e.pend # None /\ in.byte # 0 /\ ~in.last =>
                    /\ f.mode = "Filling" /\ f.buf = <<in.byte>> /\ f.pend = None
                    /\ f.final = e.final /\ f.last = e.last
               /\ ~e.final /\ e.pend = None /\ e.last => f = InitEnc
               /\ ~e.final /\ e.pend = None /\ ~e.last =>
                    /\ f.mode = "Filling" /\ f.buf = <<>> /\ f.pend = None
                    /\ f.final = e.final /\ f.last = e.last
<1> DEFINE in == e.pend[1]
<1>1. /\ e.buf \in Groups /\ e.mode \in {"Filling", "Emitting"} /\ e.ix \in 0..FullCode
      /\ e.pend \in Optional(Inputs) /\ e.final \in BOOLEAN /\ e.last \in BOOLEAN
  BY DEF Encs
<1>2. /\ 0 \in 0..FullCode /\ <<>> \in Groups /\ None \in Optional(Inputs)
  BY EmptyGroup, NoneOptional, MaxGroupAssumption DEF FullCode
<1>3. e.pend # None => in \in Inputs /\ in.byte \in WireByte /\ in.last \in BOOLEAN
  <2> HAVE e.pend # None
  <2>1. in \in Inputs
    BY <1>1, OptionalIs
  <2> HIDE DEF in
  <2> QED
    BY <2>1 DEF Inputs
<1>4. CASE e.final
  <2>1. AfterGroup(e) = [e EXCEPT !.buf = <<>>, !.ix = 0, !.final = FALSE]
    BY <1>4 DEF AfterGroup
  <2> QED
    BY <2>1, <1>1, <1>2, <1>4 DEF Encs
<1>5. CASE ~e.final /\ e.pend # None
  <2>1. AfterGroup(e) = Resume(e)
    BY <1>5, Zenon DEF AfterGroup
  <2>2. CASE in.byte = 0
    <3> DEFINE f == AfterGroup(e)
               ends == in.last
    <3>1. f = [Emit(e) EXCEPT !.buf = <<>>, !.pend = None, !.final = ends, !.last = ends]
      BY <2>1, <2>2, Zenon DEF Resume, FreshGroup
    <3>2. /\ f \in Encs /\ f.mode = "Emitting" /\ f.ix = 0 /\ f.buf = <<>> /\ f.pend = None
          /\ f.final = ends /\ f.last = ends
      <4>1. ends \in BOOLEAN
        BY <1>3, <1>5
      <4> HIDE DEF f, ends
      <4> QED
        BY <3>1, <4>1, <1>1, <1>2 DEF Encs, Emit
    <3> HIDE DEF f
    <3> QED
      BY <3>2, <1>3, <1>5, <2>2 DEF f
  <2>3. CASE in.byte # 0
    <3> DEFINE g == <<in.byte>>
               f == AfterGroup(e)
    <3>1. g \in Groups
      <4> DEFINE b == in.byte
      <4>1. b \in WireByte /\ b # 0
        BY <1>3, <1>5, <2>3
      <4> HIDE DEF b
      <4>2. <<b>> \in Groups
        BY <4>1, <1>1, GroupGrows
      <4> QED
        BY <4>2 DEF b
    <3>2. CASE in.last
      <4>1. f = [Emit(e) EXCEPT !.buf = g, !.pend = None, !.last = TRUE]
        BY <2>1, <2>3, <3>2, Zenon DEF Resume
      <4>2. /\ f \in Encs /\ f.mode = "Emitting" /\ f.ix = 0 /\ f.buf = g /\ f.pend = None
            /\ f.final = e.final /\ f.last = TRUE
        <5> HIDE DEF g, f, in
        <5> QED
          BY <4>1, <3>1, <1>1, <1>2 DEF Encs, Emit
      <4> HIDE DEF f
      <4> QED
        BY <4>2, <1>3, <1>5, <2>3, <3>2 DEF f
    <3>3. CASE ~in.last
      <4>1. f = [e EXCEPT !.mode = "Filling", !.buf = g, !.pend = None]
        BY <2>1, <2>3, <3>3, Zenon DEF Resume
      <4>2. /\ f \in Encs /\ f.mode = "Filling" /\ f.buf = g /\ f.pend = None
            /\ f.final = e.final /\ f.last = e.last
        <5> HIDE DEF g, f, in
        <5> QED
          BY <4>1, <3>1, <1>1, <1>2 DEF Encs
      <4> HIDE DEF f
      <4> QED
        BY <4>2, <1>3, <1>5, <2>3, <3>3 DEF f
    <3> QED
      BY <3>2, <3>3
  <2> QED
    BY <2>2, <2>3
<1>6. CASE ~e.final /\ e.pend = None /\ e.last
  <2>1. AfterGroup(e) = InitEnc
    BY <1>6, Zenon DEF AfterGroup
  <2> QED
    BY <2>1, <1>2, <1>6 DEF InitEnc, Encs
<1>7. CASE ~e.final /\ e.pend = None /\ ~e.last
  <2>1. AfterGroup(e) = [e EXCEPT !.mode = "Filling", !.buf = <<>>]
    BY <1>7, Zenon DEF AfterGroup
  <2> QED
    BY <2>1, <1>1, <1>2, <1>7 DEF Encs
<1> QED
  BY <1>4, <1>5, <1>6, <1>7

\* What is left of a sequence after its first i elements.
Suffix(s, i) == SubSeq(s, i + 1, Len(s))

LEMMA SuffixIs ==
    ASSUME NEW s \in Seq(NonZero), NEW i \in Nat
    PROVE  /\ Suffix(s, i) \in Seq(NonZero)
           /\ i = 0 => Suffix(s, i) = s
           /\ i < Len(s) => s[i+1] \in NonZero /\ Suffix(s, i) = <<s[i+1]>> \o Suffix(s, i + 1)
           /\ i >= Len(s) => Suffix(s, i) = <<>>
<1> DEFINE n == Len(s)
           t == Suffix(s, i)
           u == Suffix(s, i + 1)
<1>1. n \in Nat /\ \A k \in 1..n : s[k] \in NonZero
  BY LenProperties, ElementOfSeq
<1>2. ASSUME NEW j \in Nat
      PROVE  /\ Suffix(s, j) \in Seq(NonZero)
             /\ Len(Suffix(s, j)) = IF j < n THEN n - j ELSE 0
             /\ \A k \in 1..n - j : Suffix(s, j)[k] = s[j + k]
  <2> DEFINE v == Suffix(s, j)
  <2>1. \A k \in j+1..n : s[k] \in NonZero
    BY <1>1
  <2>2. /\ v \in Seq(NonZero)
        /\ Len(v) = IF j + 1 <= n THEN n - (j + 1) + 1 ELSE 0
        /\ \A k \in 1..n - (j + 1) + 1 : v[k] = s[(j + 1) + k - 1]
    <3>1. j + 1 \in Int /\ n \in Int
      BY <1>1
    <3> HIDE DEF n
    <3>2. v = SubSeq(s, j + 1, n)
      BY DEF Suffix, n
    <3> HIDE DEF v
    <3> QED
      BY <3>1, <3>2, <2>1, SubSeqProperties
  <2>3. n - (j + 1) + 1 = n - j /\ \A k \in 1..n - j : (j + 1) + k - 1 = j + k
    BY <1>1
  <2> HIDE DEF v, n
  <2>4. Len(v) = IF j < n THEN n - j ELSE 0
    BY <2>2, <2>3, <1>1
  <2>5. \A k \in 1..n - j : v[k] = s[j + k]
    BY <2>2, <2>3
  <2> QED
    BY <2>2, <2>4, <2>5 DEF v
<1> HIDE DEF t, u, n
<1>3. t \in Seq(NonZero) /\ (i >= n => t = <<>>)
  <2>1. t \in Seq(NonZero) /\ (i >= n => Len(t) = 0)
    BY <1>1, <1>2 DEF t
  <2> QED
    BY <2>1, EmptySeq
<1>4. i = 0 => t = s
  <2> HAVE i = 0
  <2>1. Len(t) = n /\ \A k \in 1..n : t[k] = s[k]
    BY <1>1, <1>2 DEF t
  <2> QED
    BY <2>1, <1>3, SeqEqual DEF n
<1>5. ASSUME i < n PROVE s[i+1] \in NonZero /\ t = <<s[i+1]>> \o u
  <2> DEFINE x == s[i+1]
             w == <<x>> \o u
  <2>1. x \in NonZero
    BY <1>1, <1>5
  <2>2. /\ u \in Seq(NonZero) /\ Len(u) = n - i - 1 /\ Len(t) = n - i
        /\ \A k \in 1..n - i : t[k] = s[i + k]
        /\ \A k \in 1..n - i - 1 : u[k] = s[(i + 1) + k]
    <3>1. Len(t) = n - i /\ \A k \in 1..n - i : t[k] = s[i + k]
      BY <1>1, <1>2, <1>5 DEF t
    <3>2. i + 1 \in Nat /\ n - (i + 1) = n - i - 1 /\ (~(i + 1 < n) => n - i - 1 = 0)
      BY <1>1, <1>5
    <3> DEFINE j == i + 1
    <3>3. u = Suffix(s, j) /\ j \in Nat /\ n - j = n - i - 1 /\ (~(j < n) => n - i - 1 = 0)
      BY <3>2 DEF u
    <3> HIDE DEF j
    <3>4. u \in Seq(NonZero) /\ Len(u) = n - i - 1 /\ \A k \in 1..n - i - 1 : u[k] = s[j + k]
      BY <3>3, <1>2
    <3> QED
      BY <3>1, <3>4 DEF j
  <2>3. /\ w \in Seq(NonZero) /\ Len(w) = 1 + Len(u)
        /\ \A k \in 1..1 + Len(u) : w[k] = IF k <= 1 THEN <<x>>[k] ELSE u[k - 1]
    <3>1. <<x>> \in Seq(NonZero) /\ Len(<<x>>) = 1
      BY <2>1
    <3> HIDE DEF x
    <3> QED
      BY <3>1, <2>2, ConcatProperties
  <2>4. Len(t) = Len(w) /\ \A k \in 1..Len(t) : t[k] = w[k]
    <3>1. \A k \in 1..n - i : k \in 1..1 + Len(u) /\ (~(k <= 1) => k - 1 \in 1..n - i - 1
                                                        /\ (i + 1) + (k - 1) = i + k)
      BY <2>2, <1>1, <1>5
    <3>2. \A k \in 1..n - i : k <= 1 => k = 1
      BY <1>1
    <3>3. Len(t) = Len(w) /\ Len(t) = n - i
      BY <2>2, <2>3, <1>1
    <3>4. ASSUME NEW k \in 1..n - i PROVE t[k] = w[k]
      <4>1. CASE k <= 1
        <5>1. w[k] = <<x>>[1] /\ k = 1
          BY <4>1, <3>1, <3>2, <2>3
        <5>2. t[k] = x
          BY <5>1, <2>2
        <5> QED
          BY <5>1, <5>2
      <4>2. CASE ~(k <= 1)
        <5>1. w[k] = u[k-1]
          BY <4>2, <3>1, <2>3
        <5>2. u[k-1] = s[i + k]
          BY <4>2, <3>1, <2>2
        <5> QED
          BY <5>1, <5>2, <2>2
      <4> QED
        BY <4>1, <4>2
    <3> HIDE DEF w
    <3> QED
      BY <3>3, <3>4
  <2>5. t = w
    <3> HIDE DEF w
    <3> QED
      BY <1>3, <2>3, <2>4, SeqEqual
  <2> QED
    BY <2>1, <2>5
<1> QED
  BY <1>3, <1>4, <1>5 DEF t, u, n

\* What the encoder has still to send before it takes a byte or is done: the
\* rest of the group, and an empty group that it owes.
Rest(e) == Suffix(Group(e.buf), e.ix)
Extra(e) == IF e.final \/ (e.pend # None /\ e.pend[1].byte = 0) THEN <<1>> ELSE <<>>

\* The encoder, having taken the bytes of T and sent those of out, is where the
\* pure encoder is after T.
Encodes(T, o, e) ==
    LET acc == Encoded(T)
    IN  /\ e \in Encs /\ T \in Seq(WireByte) /\ o \in Seq(NonZero)
        /\ e.mode = "Filling" =>
              o = acc.out /\ e.buf = acc.grp /\ e.pend = None /\ ~e.final /\ ~e.last
        /\ e.mode = "Emitting" /\ e.last =>
              e.pend = None /\ CobsEncode(T) = (o \o Rest(e)) \o Extra(e)
        /\ e.mode = "Emitting" /\ ~e.last =>
              /\ ~e.final /\ acc.out = (o \o Rest(e)) \o Extra(e)
              /\ acc.grp = IF e.pend = None \/ e.pend[1].byte = 0 THEN <<>>
                           ELSE <<e.pend[1].byte>>

\* The last byte has been taken.
Ends(e) == e.last \/ (e.pend # None /\ e.pend[1].last)

LEMMA CobsEncodeIs == \A T : CobsEncode(T) = Encoded(T).out \o Group(Encoded(T).grp)
BY DEF CobsEncode, Encoded

LEMMA RestIs ==
    ASSUME NEW e \in Encs
    PROVE  /\ Rest(e) \in Seq(NonZero) /\ Group(e.buf) \in Seq(NonZero)
           /\ e.ix = 0 => Rest(e) = Group(e.buf)
           /\ e.ix <= Len(e.buf) =>
                 /\ Group(e.buf)[e.ix + 1] \in NonZero
                 /\ Rest(e) = <<Group(e.buf)[e.ix + 1]>> \o Rest([e EXCEPT !.ix = @ + 1])
                 /\ [e EXCEPT !.ix = @ + 1] \in Encs
           /\ e.ix > Len(e.buf) => Rest(e) = <<>>
<1> DEFINE g == Group(e.buf)
           i == e.ix
           f == [e EXCEPT !.ix = @ + 1]
<1>1. /\ g \in Seq(NonZero) /\ Len(g) = Len(e.buf) + 1 /\ i \in Nat /\ i <= FullCode
      /\ Len(e.buf) \in Nat /\ Len(e.buf) <= MaxGroup
  <2>1. e.buf \in Groups /\ i \in 0..FullCode
    BY DEF Encs
  <2>2. Len(e.buf) \in Nat /\ Len(e.buf) <= MaxGroup
    BY <2>1, LenProperties DEF Groups
  <2> QED
    BY <2>1, <2>2, GroupType, MaxGroupAssumption DEF FullCode
<1>2. f.buf = e.buf /\ f.ix = i + 1
  BY DEF Encs
<1>3. i <= Len(e.buf) => f \in Encs
  <2> HAVE i <= Len(e.buf)
  <2>1. i + 1 \in 0..FullCode
    BY <1>1, MaxGroupAssumption DEF FullCode
  <2> QED
    BY <2>1 DEF Encs
<1>4. Rest(e) = Suffix(g, i) /\ Rest(f) = Suffix(g, i + 1)
  BY <1>2 DEF Rest
<1>5. /\ i <= Len(e.buf) <=> i < Len(g)
      /\ i > Len(e.buf) => i >= Len(g)
  BY <1>1
<1> HIDE DEF f, g, i
<1>6. /\ Suffix(g, i) \in Seq(NonZero)
      /\ i = 0 => Suffix(g, i) = g
      /\ i < Len(g) => g[i+1] \in NonZero /\ Suffix(g, i) = <<g[i+1]>> \o Suffix(g, i + 1)
      /\ i >= Len(g) => Suffix(g, i) = <<>>
  BY <1>1, SuffixIs
<1>7. /\ Rest(e) \in Seq(NonZero) /\ g \in Seq(NonZero)
      /\ i = 0 => Rest(e) = g
      /\ i <= Len(e.buf) => g[i+1] \in NonZero /\ Rest(e) = <<g[i+1]>> \o Rest(f) /\ f \in Encs
      /\ i > Len(e.buf) => Rest(e) = <<>>
  BY <1>1, <1>3, <1>4, <1>5, <1>6
<1> QED
  BY <1>7 DEF g, i, f

\* Concatenation of nonzero bytes.
LEMMA NonZeroJoin ==
    /\ \A s, t \in Seq(NonZero) : s \o t \in Seq(NonZero)
    /\ \A s, t, u \in Seq(NonZero) : (s \o t) \o u = s \o (t \o u)
    /\ \A s \in Seq(NonZero) : s \o <<>> = s /\ <<>> \o s = s
    /\ <<>> \in Seq(NonZero) /\ <<1>> \in Seq(NonZero)
<1>1. 1 \in NonZero
  BY MaxGroupAssumption DEF NonZero, FullCode
<1>2. \A s, t \in Seq(NonZero) : s \o t \in Seq(NonZero)
  BY ConcatProperties
<1>3. \A s, t, u \in Seq(NonZero) : (s \o t) \o u = s \o (t \o u)
  BY ConcatAssociative
<1>4. \A s \in Seq(NonZero) : s \o <<>> = s /\ <<>> \o s = s
  BY ConcatEmptySeq
<1>5. <<>> \in Seq(NonZero) /\ <<1>> \in Seq(NonZero)
  BY <1>1
<1> QED
  BY <1>2, <1>3, <1>4, <1>5, Zenon

LEMMA EncodesStart == Encodes(<<>>, <<>>, InitEnc) /\ ~Ends(InitEnc)
<1>1. InitEnc \in Encs
  BY EmptyGroup, NoneOptional, MaxGroupAssumption DEF InitEnc, Encs, FullCode
<1>2. <<>> \in Seq(WireByte) /\ <<>> \in Seq(NonZero)
  OBVIOUS
<1>3. Encoded(<<>>).out = <<>> /\ Encoded(<<>>).grp = <<>>
  BY EncodedEmpty
<1>4. /\ InitEnc.mode = "Filling" /\ InitEnc.buf = <<>> /\ InitEnc.pend = None
      /\ ~InitEnc.final /\ ~InitEnc.last
  BY DEF InitEnc
<1> QED
  BY <1>1, <1>2, <1>3, <1>4 DEF Encodes, Ends

\* A byte taken moves the pure encoder by one byte.
LEMMA EncodesTaken ==
    ASSUME NEW T, NEW o, NEW e, Encodes(T, o, e), e.mode = "Filling", NEW in \in Inputs
    PROVE  /\ Encodes(Append(T, in.byte), o, Fill(e, in))
           /\ Ends(Fill(e, in)) <=> in.last
<1> DEFINE f == Fill(e, in)
           b == in.byte
           N == Append(T, b)
           acc == Encoded(T)
           new == Encoded(N)
           filled == Len(e.buf) = MaxGroup
<1>1. /\ e \in Encs /\ T \in Seq(WireByte) /\ o \in Seq(NonZero)
      /\ o = acc.out /\ e.buf = acc.grp /\ e.pend = None /\ ~e.final /\ ~e.last
      /\ b \in WireByte /\ in.last \in BOOLEAN /\ e.buf \in Groups
  BY DEF Encodes, Inputs, Encs
<1>2. N \in Seq(WireByte) /\ acc \in Accs /\ new = EncodeByte(acc, b)
  BY <1>1, EncodedType, EncodedAppend
<1>3. /\ b # 0 => /\ new.out = IF filled THEN o \o Group(e.buf) ELSE o
                  /\ new.grp = IF filled THEN <<b>> ELSE Append(e.buf, b)
      /\ b = 0 => /\ new.out = IF filled THEN (o \o Group(e.buf)) \o <<1>> ELSE o \o Group(e.buf)
                  /\ new.grp = <<>>
  BY <1>1, <1>2, EncodeByteIs
<1>4. f \in Encs /\ Rest(f) \in Seq(NonZero) /\ (f.ix = 0 => Rest(f) = Group(f.buf))
  BY <1>1, FillIs, RestIs
<1>5. o \o Group(e.buf) \in Seq(NonZero) /\ (o \o Group(e.buf)) \o <<>> = o \o Group(e.buf)
  <2>1. Group(e.buf) \in Seq(NonZero)
    BY <1>1, GroupType
  <2>2. o \o Group(e.buf) \in Seq(NonZero)
    BY <2>1, <1>1, NonZeroJoin, Zenon
  <2> QED
    BY <2>2, NonZeroJoin, Zenon
<1>6. CobsEncode(N) = new.out \o Group(new.grp)
  BY CobsEncodeIs, Zenon
<1> HIDE DEF new, N, acc
<1>7. CASE filled
  <2>1. /\ f.mode = "Emitting" /\ f.ix = 0 /\ f.buf = e.buf /\ f.pend = Some(in)
        /\ ~f.final /\ ~f.last
    BY <1>1, <1>7, FillIs
  <2>2. f.pend # None /\ f.pend[1] = in
    BY <2>1 DEF Some, None
  <2>3. Rest(f) = Group(e.buf)
    BY <2>1, <1>4
  <2> HIDE DEF f
  <2>4. Extra(f) = IF b = 0 THEN <<1>> ELSE <<>>
    BY <2>1, <2>2 DEF Extra
  <2>5. new.out = (o \o Rest(f)) \o Extra(f)
    BY <2>3, <2>4, <1>3, <1>5, <1>7
  <2>6. new.grp = IF f.pend = None \/ f.pend[1].byte = 0 THEN <<>> ELSE <<f.pend[1].byte>>
    BY <2>2, <1>3, <1>7
  <2>7. Encodes(N, o, f)
    BY <2>1, <2>5, <2>6, <1>1, <1>2, <1>4 DEF Encodes, new, f
  <2>8. Ends(f) <=> in.last
    BY <2>1, <2>2 DEF Ends
  <2> QED
    BY <2>7, <2>8 DEF N, f
<1>8. CASE ~filled /\ b = 0
  <2>1. /\ f.mode = "Emitting" /\ f.ix = 0 /\ f.buf = e.buf /\ f.pend = None
        /\ f.final = in.last /\ f.last = in.last
    BY <1>1, <1>8, FillIs
  <2>2. Rest(f) = Group(e.buf)
    BY <2>1, <1>4
  <2>3. new.out = o \o Rest(f) /\ new.grp = <<>>
    BY <2>2, <1>3, <1>8
  <2> HIDE DEF f
  <2>4. Extra(f) = IF in.last THEN <<1>> ELSE <<>>
    BY <2>1 DEF Extra
  <2>5. f.last => CobsEncode(N) = (o \o Rest(f)) \o Extra(f)
    <3>1. Group(<<>>) = <<1>>
      BY EmptyGroup
    <3> QED
      BY <3>1, <2>1, <2>3, <2>4, <1>6
  <2>6. ~f.last => new.out = (o \o Rest(f)) \o Extra(f)
    BY <2>1, <2>2, <2>3, <2>4, <1>5
  <2>7. Encodes(N, o, f)
    BY <2>1, <2>3, <2>5, <2>6, <1>1, <1>2, <1>4 DEF Encodes, new, f
  <2>8. Ends(f) <=> in.last
    BY <2>1 DEF Ends
  <2> QED
    BY <2>7, <2>8 DEF N, f
<1>9. CASE ~filled /\ b # 0 /\ in.last
  <2>1. /\ f.mode = "Emitting" /\ f.ix = 0 /\ f.buf = Append(e.buf, b) /\ f.pend = None
        /\ f.final = FALSE /\ f.last = TRUE
    BY <1>1, <1>9, FillIs
  <2>2. Rest(f) = Group(f.buf)
    BY <2>1, <1>4
  <2>3. new.out = o /\ new.grp = f.buf
    BY <2>1, <1>3, <1>9
  <2> HIDE DEF f
  <2>4. Extra(f) = <<>>
    BY <2>1 DEF Extra
  <2>5. CobsEncode(N) = (o \o Rest(f)) \o Extra(f)
    <3>1. o \o Rest(f) \in Seq(NonZero)
      BY <1>1, <1>4, NonZeroJoin, Zenon DEF f
    <3>2. (o \o Rest(f)) \o <<>> = o \o Rest(f)
      BY <3>1, NonZeroJoin, Zenon
    <3> QED
      BY <3>2, <2>2, <2>3, <2>4, <1>6
  <2>6. Encodes(N, o, f)
    BY <2>1, <2>5, <1>1, <1>2, <1>4 DEF Encodes, new, f
  <2>7. Ends(f) <=> in.last
    BY <2>1, <1>9 DEF Ends
  <2> QED
    BY <2>6, <2>7 DEF N, f
<1>10. CASE ~filled /\ b # 0 /\ ~in.last
  <2>1. /\ f.mode = "Filling" /\ f.buf = Append(e.buf, b) /\ f.pend = None
        /\ ~f.final /\ ~f.last
    BY <1>1, <1>10, FillIs
  <2>2. new.out = o /\ new.grp = f.buf
    BY <2>1, <1>3, <1>10
  <2> HIDE DEF f
  <2>3. Encodes(N, o, f)
    BY <2>1, <2>2, <1>1, <1>2, <1>4 DEF Encodes, new, f
  <2>4. Ends(f) <=> in.last
    BY <2>1, <1>10 DEF Ends
  <2> QED
    BY <2>3, <2>4 DEF N, f
<1> QED
  BY <1>7, <1>8, <1>9, <1>10

\* A byte sent is one of the bytes still to be sent.
LEMMA EncodesSent ==
    ASSUME NEW T, NEW o, NEW e, Encodes(T, o, e), e.mode = "Emitting", e.ix <= Len(e.buf)
    PROVE  LET f == [e EXCEPT !.ix = @ + 1]
           IN  /\ Encodes(T, o \o <<Group(e.buf)[e.ix + 1]>>, f)
               /\ Ends(f) <=> Ends(e)
<1> DEFINE f == [e EXCEPT !.ix = @ + 1]
           x == Group(e.buf)[e.ix + 1]
           one == <<x>>
           more == o \o one
<1>1. e \in Encs /\ T \in Seq(WireByte) /\ o \in Seq(NonZero)
  BY DEF Encodes
<1>2. /\ x \in NonZero /\ Rest(e) = one \o Rest(f) /\ f \in Encs /\ Rest(f) \in Seq(NonZero)
  BY <1>1, RestIs
<1>3. /\ f.mode = e.mode /\ f.buf = e.buf /\ f.pend = e.pend
      /\ f.final = e.final /\ f.last = e.last
  BY <1>1 DEF Encs
<1>4. one \in Seq(NonZero)
  BY <1>2
<1> HIDE DEF f, one
<1>5. more \in Seq(NonZero) /\ more \o Rest(f) = o \o Rest(e)
  <2> DEFINE r == Rest(f)
  <2>1. r \in Seq(NonZero) /\ Rest(e) = one \o r
    BY <1>2
  <2> HIDE DEF r
  <2>2. (o \o one) \o r = o \o (one \o r) /\ o \o one \in Seq(NonZero)
    BY <2>1, <1>1, <1>4, NonZeroJoin, Zenon
  <2> QED
    BY <2>1, <2>2 DEF r
<1>6. Extra(f) = Extra(e)
  BY <1>3 DEF Extra
<1> HIDE DEF more
<1>7. Encodes(T, more, f)
  BY <1>1, <1>2, <1>3, <1>5, <1>6 DEF Encodes
<1>8. Ends(f) <=> Ends(e)
  BY <1>3 DEF Ends
<1> QED
  BY <1>7, <1>8 DEF more, one, f

\* Behind a group the encoder goes on, or is done and has sent the encoding.
LEMMA EncodesOn ==
    ASSUME NEW T, NEW o, NEW e, Encodes(T, o, e), e.mode = "Emitting", e.ix > Len(e.buf)
    PROVE  LET f == AfterGroup(e)
               done == ~e.final /\ e.pend = None /\ e.last
           IN  /\ done => f = InitEnc /\ o = CobsEncode(T) /\ Ends(e)
               /\ ~done => Encodes(T, o, f) /\ (Ends(f) <=> Ends(e))
<1> DEFINE f == AfterGroup(e)
           in == e.pend[1]
           acc == Encoded(T)
<1>1. /\ e \in Encs /\ T \in Seq(WireByte) /\ o \in Seq(NonZero) /\ e.pend \in Optional(Inputs)
      /\ e.final \in BOOLEAN /\ e.last \in BOOLEAN
  BY DEF Encodes, Encs
<1>2. o \o Rest(e) = o
  <2>1. Rest(e) = <<>>
    BY <1>1, RestIs
  <2>2. o \o <<>> = o
    BY <1>1, NonZeroJoin, Zenon
  <2> QED
    BY <2>1, <2>2
<1>3. f \in Encs /\ Rest(f) \in Seq(NonZero) /\ (f.ix = 0 => Rest(f) = Group(f.buf))
  BY <1>1, AfterGroupIs, RestIs
<1>4. CobsEncode(T) = acc.out \o Group(acc.grp)
  BY CobsEncodeIs, Zenon
<1>5. /\ e.last => e.pend = None /\ CobsEncode(T) = o \o Extra(e)
      /\ ~e.last => /\ ~e.final /\ acc.out = o \o Extra(e)
                    /\ acc.grp = IF e.pend = None \/ in.byte = 0 THEN <<>> ELSE <<in.byte>>
  BY <1>2 DEF Encodes
<1>6. Group(<<>>) = <<1>>
  BY EmptyGroup
<1>7. /\ o \o <<>> = o /\ (o \o <<1>>) \o <<>> = o \o <<1>>
      /\ (o \o Rest(f)) \o <<>> = o \o Rest(f)
  <2>1. o \o <<1>> \in Seq(NonZero)
    BY <1>1, NonZeroJoin, Zenon
  <2>2. o \o Rest(f) \in Seq(NonZero)
    <3> HIDE DEF f
    <3> QED
      BY <1>1, <1>3, NonZeroJoin, Zenon
  <2> HIDE DEF f
  <2> QED
    BY <2>1, <2>2, <1>1, NonZeroJoin, Zenon
<1> HIDE DEF acc
<1>8. CASE e.final
  <2>1. /\ f.mode = "Emitting" /\ f.ix = 0 /\ f.buf = <<>> /\ f.pend = e.pend
        /\ ~f.final /\ f.last = e.last
    BY <1>1, <1>8, AfterGroupIs
  <2>2. e.last /\ e.pend = None
    BY <1>5, <1>8
  <2> HIDE DEF f
  <2>3. Rest(f) = <<1>> /\ Extra(f) = <<>> /\ Extra(e) = <<1>>
    BY <2>1, <2>2, <1>3, <1>6, <1>8 DEF Extra
  <2>4. CobsEncode(T) = (o \o Rest(f)) \o Extra(f)
    BY <2>2, <2>3, <1>5, <1>7
  <2>5. Encodes(T, o, f)
    BY <2>1, <2>2, <2>4, <1>1, <1>3 DEF Encodes, f
  <2>6. Ends(f) <=> Ends(e)
    BY <2>1, <2>2 DEF Ends
  <2> QED
    BY <2>5, <2>6, <1>8 DEF f
<1>9. CASE ~e.final /\ e.pend # None
  <2>1. in \in Inputs /\ in.byte \in WireByte /\ in.last \in BOOLEAN
    <3>1. in \in Inputs
      BY <1>1, <1>9, AfterGroupIs
    <3> HIDE DEF in
    <3> QED
      BY <3>1 DEF Inputs
  <2>2. ~e.last
    BY <1>5, <1>9
  <2>3. Ends(e) <=> in.last
    BY <2>2, <1>9 DEF Ends
  <2>4. CASE in.byte = 0
    <3>1. /\ f.mode = "Emitting" /\ f.ix = 0 /\ f.buf = <<>> /\ f.pend = None
          /\ f.final = in.last /\ f.last = in.last
      BY <1>1, <1>9, <2>4, AfterGroupIs
    <3> HIDE DEF f
    <3>2. /\ Rest(f) = <<1>> /\ Extra(f) = (IF in.last THEN <<1>> ELSE <<>>)
          /\ Extra(e) = <<1>>
      BY <3>1, <1>3, <1>6, <1>9, <2>4 DEF Extra
    <3>3. acc.out = o \o <<1>> /\ acc.grp = <<>>
      BY <3>2, <1>5, <2>2, <2>4
    <3>4. f.last => CobsEncode(T) = (o \o Rest(f)) \o Extra(f)
      BY <3>1, <3>2, <3>3, <1>4, <1>6
    <3>5. ~f.last => acc.out = (o \o Rest(f)) \o Extra(f)
      BY <3>1, <3>2, <3>3, <1>7
    <3>6. Encodes(T, o, f)
      BY <3>1, <3>3, <3>4, <3>5, <1>1, <1>3 DEF Encodes, acc, f
    <3>7. Ends(f) <=> in.last
      BY <3>1 DEF Ends
    <3> QED
      BY <3>6, <3>7, <2>3, <1>9 DEF f
  <2>5. CASE in.byte # 0
    <3>1. Extra(e) = <<>>
      BY <1>9, <2>5 DEF Extra
    <3>2. acc.out = o /\ acc.grp = <<in.byte>>
      BY <3>1, <1>5, <1>7, <1>9, <2>2, <2>5
    <3>3. CASE in.last
      <4>1. /\ f.mode = "Emitting" /\ f.ix = 0 /\ f.buf = <<in.byte>> /\ f.pend = None
            /\ ~f.final /\ f.last
        BY <1>1, <1>9, <2>5, <3>3, AfterGroupIs
      <4>2. f.buf = acc.grp
        BY <4>1, <3>2
      <4> HIDE DEF f
      <4>3. Rest(f) = Group(acc.grp) /\ Extra(f) = <<>>
        BY <4>1, <4>2, <1>3 DEF Extra
      <4>4. CobsEncode(T) = (o \o Rest(f)) \o Extra(f)
        BY <4>3, <3>2, <1>4, <1>7
      <4>5. Encodes(T, o, f)
        BY <4>1, <4>4, <1>1, <1>3 DEF Encodes, f
      <4>6. Ends(f) <=> in.last
        BY <4>1, <3>3 DEF Ends
      <4> QED
        BY <4>5, <4>6, <2>3, <1>9 DEF f
    <3>4. CASE ~in.last
      <4>1. /\ f.mode = "Filling" /\ f.buf = <<in.byte>> /\ f.pend = None
            /\ ~f.final /\ ~f.last
        BY <1>1, <1>9, <2>2, <2>5, <3>4, AfterGroupIs
      <4>2. f.buf = acc.grp
        BY <4>1, <3>2
      <4> HIDE DEF f
      <4>3. Encodes(T, o, f)
        BY <4>1, <4>2, <3>2, <1>1, <1>3 DEF Encodes, acc, f
      <4>4. Ends(f) <=> in.last
        BY <4>1, <3>4 DEF Ends
      <4> QED
        BY <4>3, <4>4, <2>3, <1>9 DEF f
    <3> QED
      BY <3>3, <3>4
  <2> QED
    BY <2>4, <2>5
<1>10. CASE ~e.final /\ e.pend = None /\ e.last
  <2>1. f = InitEnc
    BY <1>1, <1>10, AfterGroupIs, Zenon
  <2>2. Extra(e) = <<>>
    BY <1>10 DEF Extra
  <2>3. o = CobsEncode(T)
    BY <2>2, <1>5, <1>7, <1>10
  <2> QED
    BY <2>1, <2>3, <1>10 DEF Ends
<1>11. CASE ~e.final /\ e.pend = None /\ ~e.last
  <2>1. /\ f.mode = "Filling" /\ f.buf = <<>> /\ f.pend = None /\ ~f.final /\ ~f.last
    BY <1>1, <1>11, AfterGroupIs
  <2>2. Extra(e) = <<>>
    BY <1>11 DEF Extra
  <2>3. acc.out = o /\ acc.grp = <<>>
    BY <2>2, <1>5, <1>7, <1>11
  <2> HIDE DEF f
  <2>4. Encodes(T, o, f)
    BY <2>1, <2>3, <1>1, <1>3 DEF Encodes, acc, f
  <2>5. Ends(f) <=> Ends(e)
    BY <2>1, <1>11 DEF Ends
  <2> QED
    BY <2>4, <2>5, <1>11 DEF f
<1> QED
  BY <1>1, <1>8, <1>9, <1>10, <1>11

\* What a clock that ends with `r` does to an encoder that has taken T and sent o.
Clocked(T, o, e, in, r) ==
    /\ r.took <=> e.mode = "Filling"
    /\ r.took => ~Ends(e) /\ ~r.done
    /\ r.took /\ in # None =>
          /\ Encodes(Append(T, in[1].byte), o \o r.out, r.enc)
          /\ Ends(r.enc) <=> in[1].last
    /\ ~(r.took /\ in # None) /\ ~r.done =>
          Encodes(T, o \o r.out, r.enc) /\ (Ends(r.enc) <=> Ends(e))
    /\ r.done => r.enc = InitEnc /\ o \o r.out = CobsEncode(T) /\ Ends(e)

LEMMA EncodesClock ==
    ASSUME NEW T, NEW o, NEW e, Encodes(T, o, e), NEW in \in Optional(Inputs),
           NEW ready \in BOOLEAN
    PROVE  Clocked(T, o, e, in, EncodeStep(e, in, ready))
<1> DEFINE r == EncodeStep(e, in, ready)
           x == Group(e.buf)[e.ix + 1]
           f == [e EXCEPT !.ix = @ + 1]
<1>1. /\ e \in Encs /\ o \in Seq(NonZero) /\ e.mode \in {"Filling", "Emitting"}
      /\ e.ix \in Nat /\ Len(e.buf) \in Nat
  <2>1. e \in Encs /\ o \in Seq(NonZero)
    BY DEF Encodes
  <2>2. e.mode \in {"Filling", "Emitting"} /\ e.ix \in 0..FullCode /\ e.buf \in Groups
    BY <2>1 DEF Encs
  <2> QED
    BY <2>1, <2>2, LenProperties, MaxGroupAssumption DEF Groups, FullCode
<1>2. o \o None = o
  <2>1. o \o <<>> = o
    BY <1>1, NonZeroJoin, Zenon
  <2> QED
    BY <2>1 DEF None
<1>3. CASE e.mode = "Filling" /\ in # None
  <2>1. in[1] \in Inputs
    BY <1>3, OptionalIs
  <2>2. r.took /\ r.out = None /\ ~r.done /\ r.enc = Fill(e, in[1])
    BY <1>3 DEF EncodeStep
  <2>3. ~Ends(e)
    BY <1>3 DEF Encodes, Ends
  <2>4. /\ Encodes(Append(T, in[1].byte), o, Fill(e, in[1]))
        /\ Ends(Fill(e, in[1])) <=> in[1].last
    BY <2>1, <1>3, EncodesTaken
  <2> HIDE DEF r
  <2>9. Clocked(T, o, e, in, r)
    BY <2>2, <2>3, <2>4, <1>2, <1>3 DEF Clocked
  <2> QED
    BY <2>9 DEF r, x, f
<1>4. CASE e.mode = "Filling" /\ in = None
  <2>1. r.took /\ r.out = None /\ ~r.done /\ r.enc = e
    BY <1>4 DEF EncodeStep
  <2>2. ~Ends(e)
    BY <1>4 DEF Encodes, Ends
  <2> HIDE DEF r
  <2>9. Clocked(T, o, e, in, r)
    BY <2>1, <2>2, <1>2, <1>4 DEF Clocked
  <2> QED
    BY <2>9 DEF r, x, f
<1>5. CASE e.mode = "Emitting" /\ ~ready
  <2>1. ~r.took /\ r.out = None /\ ~r.done /\ r.enc = e
    BY <1>5 DEF EncodeStep
  <2> HIDE DEF r
  <2>9. Clocked(T, o, e, in, r)
    BY <2>1, <1>2, <1>5 DEF Clocked
  <2> QED
    BY <2>9 DEF r, x, f
<1>6. CASE e.mode = "Emitting" /\ ready /\ e.ix <= Len(e.buf)
  <2>1. ~(e.ix > Len(e.buf))
    BY <1>1, <1>6
  <2>2. ~r.took /\ r.out = <<x>> /\ ~r.done /\ r.enc = f
    BY <1>6, <2>1 DEF EncodeStep, Some
  <2>3. Encodes(T, o \o <<x>>, f) /\ (Ends(f) <=> Ends(e))
    BY <1>6, EncodesSent
  <2> HIDE DEF r, x, f
  <2>9. Clocked(T, o, e, in, r)
    BY <2>2, <2>3, <1>6 DEF Clocked
  <2> QED
    BY <2>9 DEF r, x, f
<1>7. CASE e.mode = "Emitting" /\ ready /\ e.ix > Len(e.buf)
  <2> DEFINE done == ~e.final /\ e.pend = None /\ e.last
  <2>1. ~(e.ix <= Len(e.buf))
    BY <1>1, <1>7
  <2>2. ~r.took /\ r.out = None /\ (r.done <=> done) /\ r.enc = AfterGroup(e)
    BY <1>7, <2>1 DEF EncodeStep
  <2>3. /\ done => AfterGroup(e) = InitEnc /\ o = CobsEncode(T) /\ Ends(e)
        /\ ~done => Encodes(T, o, AfterGroup(e)) /\ (Ends(AfterGroup(e)) <=> Ends(e))
    BY <1>7, EncodesOn
  <2> HIDE DEF r, done
  <2>9. Clocked(T, o, e, in, r)
    BY <2>2, <2>3, <1>2, <1>7 DEF Clocked
  <2> QED
    BY <2>9 DEF r, x, f
<1>8. ready \/ ~ready
  OBVIOUS
<1>9. e.ix <= Len(e.buf) \/ e.ix > Len(e.buf)
  BY <1>1
<1>10. in = None \/ in # None
  OBVIOUS
<1> QED
  BY <1>1, <1>3, <1>4, <1>5, <1>6, <1>7, <1>8, <1>9, <1>10, Zenon

-----------------------------------------------------------------------------
(* Types.                                                                  *)

Rxs == [dec : Decs, held : Optional(WireByte), crc : WireByte, haveOp : BOOLEAN,
        opcode : WireByte, acc : Partial, hadPay : BOOLEAN]
Drains == [at : DrainPhases, word : Words, wIx : 0..WordBytes - 1, crc : WireByte,
           cnt : 0..TermAddr, term : BOOLEAN]

TypedStore == addr \in Slots /\ full \in BOOLEAN /\ imem \in [Slots -> Words]
TypedRing == /\ ring \in [0..TermAddr -> Words] /\ ringPtr \in 0..TermAddr
             /\ ringData \in Words
TypedDrain == drain \in Drains /\ enc \in Encs

\* TypeOK with whole records, and where the engine stands in each phase.
Typed ==
    /\ phase \in Phases /\ engine \in {"idle", "running", "halted"}
    /\ engine = "running" => phase = "Run"
    /\ phase = "Drain" => engine = "halted"
    /\ rx \in Rxs /\ TypedStore /\ base \in [Slots -> Words]
    /\ TypedRing /\ TypedDrain

LEMMA TypedIsTypeOK == Typed => TypeOK
<1> SUFFICES ASSUME Typed PROVE TypeOK
  OBVIOUS
<1>1. rx \in [dec : [cnt : 0..MaxGroup, full : BOOLEAN, pend : BOOLEAN, got : BOOLEAN],
              held : Optional(WireByte), crc : WireByte, haveOp : BOOLEAN,
              opcode : WireByte, acc : Partial, hadPay : BOOLEAN]
  BY DEF Typed, Rxs, Decs
<1>2. /\ drain.at \in DrainPhases /\ drain.word \in Words /\ drain.wIx \in 0..WordBytes - 1
      /\ drain.crc \in WireByte /\ drain.cnt \in 0..TermAddr /\ drain.term \in BOOLEAN
  BY DEF Typed, TypedDrain, Drains
<1>3. /\ enc.mode \in {"Filling", "Emitting"} /\ enc.buf \in Groups
      /\ enc.ix \in 0..FullCode /\ enc.pend \in Optional(Inputs)
  BY DEF Typed, TypedDrain, Encs
<1>4. Len(enc.buf) <= MaxGroup
  BY <1>3 DEF Groups
<1> QED
  BY <1>1, <1>2, <1>3, <1>4 DEF Typed, TypedStore, TypedRing, TypeOK, Inputs, FullCode

\* The bytes of a word that is not whole.
LEMMA PartialIs ==
    /\ <<>> \in Partial
    /\ \A s \in Partial : s \in Seq(WireByte) /\ Len(s) \in Nat /\ Len(s) < WordBytes
    /\ \A s \in Seq(WireByte) : Len(s) < WordBytes => s \in Partial
    /\ \A s \in Seq(WireByte) : Len(s) = WordBytes => s \in Words
<1>1. WordBytes \in Nat /\ WordBytes >= 1
  BY WireAssumption
<1>2. ASSUME NEW s \in Seq(WireByte) PROVE Len(s) \in Nat /\ s \in [1..Len(s) -> WireByte]
  BY LenProperties
<1>3. ASSUME NEW s \in Partial
      PROVE  s \in Seq(WireByte) /\ Len(s) \in Nat /\ Len(s) < WordBytes
  <2>1. PICK n \in 0..WordBytes - 1 : s \in [1..n -> WireByte]
    BY DEF Partial
  <2>2. s \in Seq(WireByte) /\ Len(s) = n
    BY <1>1, <2>1
  <2> QED
    BY <1>1, <2>2
<1>4. ASSUME NEW s \in Seq(WireByte), Len(s) < WordBytes PROVE s \in Partial
  BY <1>1, <1>2, <1>4 DEF Partial
<1>5. <<>> \in Partial
  <2>1. <<>> \in Seq(WireByte) /\ Len(<<>>) < WordBytes
    BY <1>1
  <2> QED
    BY <2>1, <1>4, Zenon
<1>6. ASSUME NEW s \in Seq(WireByte), Len(s) = WordBytes PROVE s \in Words
  BY <1>2, <1>6 DEF Words
<1> QED
  BY <1>3, <1>4, <1>5, <1>6

LEMMA DecodeByteIs ==
    ASSUME NEW d \in Decs, NEW b \in NonZero
    PROVE  DecodeByte(d, b).dec \in Decs /\ DecodeByte(d, b).out \in Optional(WireByte)
<1>1. /\ d.cnt \in 0..MaxGroup /\ d.full \in BOOLEAN /\ d.pend \in BOOLEAN /\ d.got \in BOOLEAN
      /\ b \in WireByte /\ b - 1 \in 0..MaxGroup /\ 0 \in WireByte
      /\ d.cnt # 0 => d.cnt - 1 \in 0..MaxGroup
  BY MaxGroupAssumption DEF Decs, NonZero, FullCode, WireByte
<1>2. Some(b) \in Optional(WireByte) /\ Some(0) \in Optional(WireByte) /\ None \in Optional(WireByte)
  BY <1>1, SomeOptional, NoneOptional
<1>3. OwesZero(d) \in BOOLEAN
  BY DEF OwesZero
<1>4. CASE d.cnt = 0
  <2>1. DecodeByte(d, b) =
          [out |-> IF d.pend THEN Some(0) ELSE None,
           dec |-> [cnt |-> b - 1, full |-> b = FullCode, pend |-> b = 1, got |-> TRUE]]
    BY <1>4 DEF DecodeByte
  <2> QED
    BY <2>1, <1>1, <1>2 DEF Decs
<1>5. CASE d.cnt # 0
  <2>1. DecodeByte(d, b) =
          [out |-> Some(b), dec |-> [d EXCEPT !.cnt = @ - 1, !.got = TRUE, !.pend = OwesZero(d)]]
    BY <1>5 DEF DecodeByte
  <2> DEFINE owes == OwesZero(d)
             left == d.cnt - 1
             new == [d EXCEPT !.cnt = left, !.got = TRUE, !.pend = owes]
  <2>2. new \in Decs
    <3>1. owes \in BOOLEAN /\ left \in 0..MaxGroup
      BY <1>1, <1>3, <1>5
    <3> HIDE DEF owes, left
    <3> QED
      BY <3>1, <1>1 DEF Decs
  <2> HIDE DEF new
  <2> QED
    BY <2>1, <2>2, <1>2, <1>5 DEF new
<1> QED
  BY <1>4, <1>5

LEMMA EncodeStepIs ==
    ASSUME NEW e \in Encs, NEW in \in Optional(Inputs), NEW ready \in BOOLEAN
    PROVE  EncodeStep(e, in, ready).enc \in Encs
<1> DEFINE r == EncodeStep(e, in, ready)
           f == [e EXCEPT !.ix = @ + 1]
<1>1. /\ e.mode \in {"Filling", "Emitting"} /\ e.ix \in 0..FullCode /\ Len(e.buf) \in Nat
      /\ FullCode \in Nat
  BY LenProperties, MaxGroupAssumption DEF Encs, Groups, FullCode
<1>2. CASE e.mode = "Filling" /\ in # None
  <2>1. r.enc = Fill(e, in[1]) /\ in[1] \in Inputs
    BY <1>2, OptionalIs DEF EncodeStep
  <2> HIDE DEF r
  <2>2. r.enc \in Encs
    BY <2>1, FillIs
  <2> QED
    BY <2>2 DEF r
<1>3. CASE e.mode = "Emitting" /\ ready /\ e.ix <= Len(e.buf)
  <2>1. ~(e.ix > Len(e.buf))
    BY <1>1, <1>3
  <2>2. r.enc = f
    BY <1>3, <2>1 DEF EncodeStep
  <2>3. f \in Encs
    BY <1>3, RestIs
  <2> QED
    BY <2>2, <2>3
<1>4. CASE e.mode = "Emitting" /\ ready /\ e.ix > Len(e.buf)
  <2>1. ~(e.ix <= Len(e.buf))
    BY <1>1, <1>4
  <2>2. r.enc = AfterGroup(e)
    BY <1>4, <2>1 DEF EncodeStep
  <2> HIDE DEF r
  <2>3. r.enc \in Encs
    BY <2>2, AfterGroupIs
  <2> QED
    BY <2>3 DEF r
<1>5. CASE (e.mode = "Filling" /\ in = None) \/ (e.mode = "Emitting" /\ ~ready)
  <2>1. r.enc = e
    BY <1>5 DEF EncodeStep
  <2> QED
    BY <2>1
<1> QED
  <2>1. e.ix <= Len(e.buf) \/ e.ix > Len(e.buf)
    BY <1>1
  <2> QED
    BY <1>1, <1>2, <1>3, <1>4, <1>5, <2>1, Zenon

LEMMA RingFacts == /\ TermAddr \in Nat /\ TermAddr >= 1 /\ InstrSlots \in Nat /\ InstrSlots >= 1
                   /\ 0 \in 0..TermAddr /\ 1 \in 0..TermAddr /\ 0 \in Slots
BY LoaderAssumption DEF TermAddr, Slots

LEMMA ZeroIsAWord == ZeroWord \in Words
BY MaxGroupAssumption DEF ZeroWord, Words, WireByte, FullCode

LEMMA StartTyped == InitFrame \in Rxs /\ InitDrain \in Drains /\ InitEnc \in Encs
<1>1. /\ InitDec \in Decs /\ None \in Optional(WireByte) /\ None \in Optional(Inputs)
      /\ 0 \in WireByte /\ 0 \in 0..FullCode /\ 0 \in 0..WordBytes - 1
  BY NoneOptional, MaxGroupAssumption, WireAssumption
     DEF InitDec, Decs, WireByte, FullCode
<1>2. <<>> \in Partial /\ <<>> \in Groups
  BY PartialIs, EmptyGroup
<1>3. InitFrame \in Rxs
  <2> DEFINE d == InitDec
             n == None
  <2>1. d \in Decs /\ n \in Optional(WireByte)
    BY <1>1
  <2>2. InitFrame = [dec |-> d, held |-> n, crc |-> 0, haveOp |-> FALSE,
                     opcode |-> 0, acc |-> <<>>, hadPay |-> FALSE]
    BY DEF InitFrame
  <2> HIDE DEF d, n
  <2> QED
    BY <2>1, <2>2, <1>1, <1>2 DEF Rxs
<1>4. InitDrain \in Drains
  BY <1>1, ZeroIsAWord, RingFacts DEF InitDrain, Drains, DrainPhases
<1>5. InitEnc \in Encs
  BY <1>1, <1>2 DEF InitEnc, Encs
<1> QED
  BY <1>3, <1>4, <1>5

LEMMA TypedInit == Init => Typed
<1> SUFFICES ASSUME Init PROVE Typed
  OBVIOUS
<1>1. InitialStore \in [Slots -> Words] /\ addr \in Slots
  BY LoaderAssumption, RingFacts DEF Slots, Init
<1>2. TypedStore /\ base \in [Slots -> Words]
  BY <1>1 DEF Init, TypedStore
<1>3. TypedRing
  BY ZeroIsAWord, RingFacts DEF Init, TypedRing
<1>4. rx \in Rxs /\ TypedDrain
  BY StartTyped DEF Init, TypedDrain
<1> QED
  BY <1>2, <1>3, <1>4 DEF Init, Typed, Phases

\* What a decoded byte may be, and the one it confirms.
LEMMA ConfirmedIs ==
    ASSUME rx \in Rxs, NEW r, r.out \in Optional(WireByte), r.dec \in Decs
    PROVE  /\ Hold(r) \in Rxs
           /\ Confirmed(r) => rx.held[1] \in WireByte /\ rx.held = Some(rx.held[1])
<1>1. rx.held \in Optional(WireByte)
  BY DEF Rxs
<1>2. Hold(r) \in Rxs
  BY DEF Hold, Rxs
<1>3. Confirmed(r) => rx.held[1] \in WireByte /\ rx.held = Some(rx.held[1])
  BY <1>1, OptionalIs DEF Confirmed
<1> QED
  BY <1>2, <1>3

\* The slot after the one written.
LEMMA NextSlotIs ==
    ASSUME TypedStore
    PROVE  /\ NextSlot.addr \in Slots /\ NextSlot.full \in BOOLEAN
           /\ addr = InstrSlots - 1 => NextSlot.addr = addr /\ NextSlot.full
           /\ addr # InstrSlots - 1 => NextSlot.addr = addr + 1 /\ NextSlot.full = full
<1>1. addr \in Slots /\ (addr # InstrSlots - 1 => addr + 1 \in Slots)
  BY RingFacts DEF TypedStore, Slots
<1>2. full \in BOOLEAN
  BY DEF TypedStore
<1>3. CASE addr = InstrSlots - 1
  BY <1>1, <1>3 DEF NextSlot
<1>4. CASE addr # InstrSlots - 1
  <2>1. NextSlot = [addr |-> addr + 1, full |-> full]
    BY <1>4 DEF NextSlot
  <2> QED
    BY <2>1, <1>1, <1>2, <1>4
<1> QED
  BY <1>3, <1>4

LEMMA TypedReceive ==
    ASSUME Typed, NEW b \in WireByte, Receive(b) PROVE Typed'
<1> DEFINE r == DecodeByte(rx.dec, b)
           h == rx.held[1]
<1>1. rx \in Rxs /\ rx.dec \in Decs /\ TypedStore
  BY DEF Typed, Rxs
<1>2. b \in NonZero
  BY MaxGroupAssumption DEF Receive, WireByte, NonZero, FullCode
<1>3. r.dec \in Decs /\ r.out \in Optional(WireByte)
  BY <1>1, <1>2, DecodeByteIs
<1>4. r.dec \in Decs /\ Hold(r) \in Rxs /\ (Confirmed(r) => h \in WireByte)
  <2> HIDE DEF r
  <2> QED
    BY <1>1, <1>3, ConfirmedIs
<1>5. Confirmed(r) => CrcUpdate[<<rx.crc, h>>] \in WireByte
  <2>1. rx.crc \in WireByte
    BY <1>1 DEF Rxs
  <2> HIDE DEF h
  <2> QED
    BY <2>1, <1>4, WireAssumption
<1>6. rx' \in Rxs /\ TypedStore'
  <2>1. CASE ~Confirmed(r) /\ rx' = Hold(r) /\ UNCHANGED store
    BY <2>1, <1>1, <1>4 DEF store, TypedStore
  <2>2. CASE Confirmed(r) /\ ConfirmOpcode(r, h)
    <3> HIDE DEF r, h
    <3>1. rx' = [Hold(r) EXCEPT !.haveOp = TRUE, !.opcode = h, !.crc = CrcUpdate[<<rx.crc, h>>]]
      BY <2>2 DEF ConfirmOpcode, Hold, Rxs
    <3>2. rx' \in Rxs
      BY <3>1, <2>2, <1>4, <1>5 DEF Rxs
    <3>3. TypedStore'
      BY <2>2, <1>1, RingFacts DEF ConfirmOpcode, Rewind, TypedStore
    <3> QED
      BY <3>2, <3>3
  <2>3. CASE Confirmed(r) /\ ConfirmPayload(r, h)
    <3> DEFINE word == Append(rx.acc, h)
    <3>1. rx.acc \in Partial
      BY <1>1 DEF Rxs
    <3>2. /\ word \in Seq(WireByte) /\ Len(word) \in Nat /\ Len(word) <= WordBytes
          /\ WordBytes \in Nat
      <4> DEFINE a == rx.acc
      <4>1. a \in Seq(WireByte) /\ Len(a) \in Nat /\ Len(a) < WordBytes /\ WordBytes \in Nat
        BY <3>1, PartialIs, WireAssumption
      <4> HIDE DEF a, h
      <4>2. Append(a, h) \in Seq(WireByte) /\ Len(Append(a, h)) = Len(a) + 1
        BY <4>1, <2>3, <1>4, AppendProperties DEF a, h
      <4> QED
        BY <4>1, <4>2 DEF a
    <3> HIDE DEF word
    <3>3. /\ Len(word) = WordBytes => word \in Words
          /\ Len(word) # WordBytes => word \in Partial
      BY <3>2, PartialIs
    <3>4. rx' = [Hold(r) EXCEPT !.hadPay = TRUE, !.crc = CrcUpdate[<<rx.crc, h>>],
                    !.acc = IF Len(word) = WordBytes THEN <<>> ELSE word]
      <4> HIDE DEF r, h
      <4> QED
        BY <2>3 DEF ConfirmPayload, word, Hold, Rxs
    <3>5. rx' \in Rxs
      <4> HIDE DEF r, h
      <4> QED
        BY <3>3, <3>4, <2>3, <1>4, <1>5, PartialIs DEF Rxs
    <3>6. CASE Len(word) = WordBytes /\ rx.opcode = LOAD
      <4>1. /\ addr' = NextSlot.addr /\ full' = NextSlot.full
            /\ imem' = IF full THEN imem ELSE [imem EXCEPT ![addr] = word]
        BY <2>3, <3>6 DEF ConfirmPayload, word
      <4>2. NextSlot.addr \in Slots /\ NextSlot.full \in BOOLEAN
        BY <1>1, NextSlotIs
      <4>3. TypedStore'
        BY <4>1, <4>2, <3>3, <3>6, <1>1 DEF TypedStore
      <4> QED
        BY <4>3, <3>5
    <3>7. CASE ~(Len(word) = WordBytes /\ rx.opcode = LOAD)
      <4>1. UNCHANGED <<imem, addr, full>>
        BY <2>3, <3>7 DEF ConfirmPayload, word, store
      <4> QED
        BY <4>1, <3>5, <1>1 DEF TypedStore
    <3> QED
      BY <3>5, <3>6, <3>7
  <2> QED
    BY <2>1, <2>2, <2>3 DEF Receive
<1>7. UNCHANGED <<phase, base, engine, ring, ringPtr, drain, enc, ringData>>
  BY DEF Receive, outside, out
<1> HIDE DEF r, h
<1> QED
  BY <1>6, <1>7 DEF Typed, TypedStore, TypedRing, TypedDrain

LEMMA TypedDelimiter == ASSUME Typed, Delimiter PROVE Typed'
<1>1. /\ rx' \in Rxs /\ base' \in [Slots -> Words] /\ UNCHANGED <<addr, full, imem>>
      /\ UNCHANGED <<ring, ringPtr, drain, enc, ringData>>
  BY StartTyped DEF Delimiter, FreshFrame, store, out, Typed, TypedStore
<1>2. /\ phase' \in Phases /\ engine' \in {"idle", "running", "halted"}
      /\ engine' = "running" => phase' = "Run"
      /\ phase' = "Drain" => engine' = "halted"
  BY DEF Delimiter, Typed, Phases
<1> QED
  BY <1>1, <1>2 DEF Typed, TypedStore, TypedRing, TypedDrain

LEMMA TypedHalts == ASSUME Typed, EngineHalts PROVE Typed'
<1>1. ring' \in [0..TermAddr -> Words] /\ ringPtr' \in 0..TermAddr
  BY LoaderAssumption DEF EngineHalts
<1>2. UNCHANGED <<phase, rx, addr, full, imem, base, drain, enc, ringData>>
  BY DEF EngineHalts, store, out
<1>3. engine = "running" /\ engine' = "halted"
  BY DEF EngineHalts
<1> QED
  BY <1>1, <1>2, <1>3 DEF Typed, TypedStore, TypedRing, TypedDrain

LEMMA TypedBegin == ASSUME Typed, BeginDrain PROVE Typed'
<1>1. /\ phase' = "Drain" /\ engine' = "halted" /\ enc' = InitEnc
      /\ UNCHANGED <<rx, addr, full, imem, base, ring, ringPtr, ringData>>
  BY DEF BeginDrain, store, outside
<1>2. drain' \in Drains
  BY StartTyped DEF BeginDrain, Typed, TypedDrain, Drains
<1> QED
  BY <1>1, <1>2, StartTyped DEF Typed, TypedStore, TypedRing, TypedDrain, Phases

\* Every clock of a drain: the encoder steps, and the RAM shows a word.
LEMMA TypedClock ==
    ASSUME Typed, phase = "Drain", NEW in \in Optional(Inputs), NEW ready \in BOOLEAN,
           enc' = EncodeStep(enc, in, ready).enc, drain' \in Drains,
           ringData' = ring[Presented], UNCHANGED <<phase, rx, store, outside, base>>
    PROVE  Typed'
<1>1. enc' \in Encs
  BY EncodeStepIs DEF Typed, TypedDrain
<1>2. Presented \in 0..TermAddr
  BY RingFacts DEF Presented, FetchAddress, Typed, TypedDrain, Drains
<1>3. ringData' \in Words
  BY <1>2 DEF Typed, TypedRing
<1> QED
  BY <1>1, <1>3 DEF store, outside, Typed, TypedStore, TypedRing, TypedDrain

\* What a step of a drain that offers `in` and leaves the loader draining does
\* besides moving its own registers.
Ticks(in, ready) ==
    LET r == EncodeStep(enc, in, ready)
    IN  /\ phase = "Drain" /\ in \in Optional(Inputs) /\ ready \in BOOLEAN
        /\ enc' = r.enc /\ sent' = sent \o r.out /\ ringData' = ring[Presented]
        /\ UNCHANGED <<phase, rx, store, outside, seen, base>>

LEMMA OfferIs ==
    ASSUME NEW b \in WireByte, NEW l \in BOOLEAN
    PROVE  /\ Offer(b, l) \in Optional(Inputs) /\ Offer(b, l) # None
           /\ Offer(b, l)[1].byte = b /\ Offer(b, l)[1].last = l
<1> DEFINE in == [byte |-> b, last |-> l]
<1>1. in \in Inputs /\ in.byte = b /\ in.last = l
  BY DEF Inputs
<1> HIDE DEF in
<1>2. Some(in) \in Optional(Inputs) /\ Some(in) # None /\ Some(in)[1] = in
  BY <1>1, SomeOptional
<1>3. Offer(b, l) = Some(in)
  BY DEF Offer, in
<1> QED
  BY <1>1, <1>2, <1>3

LEMMA ClockTicks ==
    ASSUME NEW in \in Optional(Inputs), NEW ready \in BOOLEAN, NEW next,
           Clock(in, ready, next)
    PROVE  /\ Ticks(in, ready)
           /\ drain' = IF EncodeStep(enc, in, ready).took THEN next ELSE drain
BY DEF Clock, Ticks

\* One clock of a drain, by where it stands.
LEMMA SendOpcodeTicks ==
    ASSUME Typed, NEW ready \in BOOLEAN, SendOpcode(ready)
    PROVE  LET in == Offer(DRAIN, FALSE)
           IN  /\ Ticks(in, ready) /\ drain.at = "DrOpcode"
               /\ drain' = IF EncodeStep(enc, in, ready).took
                           THEN [drain EXCEPT !.at = "DrFetch", !.cnt = 0, !.term = FALSE,
                                              !.crc = CrcUpdate[<<@, DRAIN>>]]
                           ELSE drain
<1>1. DRAIN \in WireByte
  BY WireAssumption
<1>2. Offer(DRAIN, FALSE) \in Optional(Inputs)
  BY <1>1, OfferIs
<1> QED
  BY <1>2, ClockTicks DEF SendOpcode

LEMMA FetchWordTicks ==
    ASSUME Typed, NEW ready \in BOOLEAN, FetchWord(ready)
    PROVE  /\ Ticks(None, ready) /\ drain.at \in {"DrFetch", "DrLatch"}
           /\ drain' = IF drain.at = "DrFetch" THEN [drain EXCEPT !.at = "DrLatch"]
                       ELSE [drain EXCEPT !.at = "DrWordByte", !.word = ringData, !.wIx = 0]
BY NoneOptional DEF FetchWord, Ticks

LEMMA WordByteIs ==
    ASSUME drain \in Drains
    PROVE  /\ drain.word[drain.wIx + 1] \in WireByte /\ drain.wIx + 1 \in 1..WordBytes
           /\ drain.wIx \in Nat
<1>1. drain.word \in [1..WordBytes -> WireByte] /\ drain.wIx \in 0..WordBytes - 1
  BY DEF Drains, Words
<1>2. drain.wIx + 1 \in 1..WordBytes /\ drain.wIx \in Nat
  BY <1>1, WireAssumption
<1> QED
  BY <1>1, <1>2

LEMMA SendWordByteTicks ==
    ASSUME Typed, NEW ready \in BOOLEAN, SendWordByte(ready)
    PROVE  LET b == drain.word[drain.wIx + 1]
               in == Offer(b, FALSE)
           IN  /\ Ticks(in, ready) /\ drain.at = "DrWordByte" /\ b \in WireByte
               /\ drain' = IF EncodeStep(enc, in, ready).took
                           THEN AfterWordByte([drain EXCEPT !.crc = CrcUpdate[<<@, b>>]])
                           ELSE drain
<1> DEFINE b == drain.word[drain.wIx + 1]
<1>1. b \in WireByte
  BY WordByteIs DEF Typed, TypedDrain
<1>2. Offer(b, FALSE) \in Optional(Inputs)
  BY <1>1, OfferIs
<1> QED
  BY <1>1, <1>2, ClockTicks DEF SendWordByte

LEMMA SendCrcTicks ==
    ASSUME Typed, NEW ready \in BOOLEAN, SendCrc(ready)
    PROVE  LET in == Offer(drain.crc, TRUE)
           IN  /\ Ticks(in, ready) /\ drain.at = "DrCrcByte"
               /\ drain' = IF EncodeStep(enc, in, ready).took
                           THEN [drain EXCEPT !.at = "DrDrainOut"] ELSE drain
<1>1. drain.crc \in WireByte
  BY DEF Typed, TypedDrain, Drains
<1>2. Offer(drain.crc, TRUE) \in Optional(Inputs)
  BY <1>1, OfferIs
<1> QED
  BY <1>2, ClockTicks DEF SendCrc

LEMMA DrainOutTicks ==
    ASSUME Typed, NEW ready \in BOOLEAN, DrainOut(ready)
    PROVE  /\ Ticks(None, ready) /\ drain.at = "DrDrainOut"
           /\ drain' = IF EncodeStep(enc, None, ready).done
                       THEN [drain EXCEPT !.at = "DrDelim"] ELSE drain
BY NoneOptional DEF DrainOut, Ticks

\* After a byte of a word: four ways on, and the counter keeps its range.
LEMMA AfterWordByteIs ==
    ASSUME Typed, NEW d \in Drains
    PROVE  LET n == AfterWordByte(d)
           IN  /\ d.wIx # WordBytes - 1 => n = [d EXCEPT !.wIx = @ + 1]
               /\ d.wIx = WordBytes - 1 /\ d.term => n = [d EXCEPT !.at = "DrCrcByte"]
               /\ d.wIx = WordBytes - 1 /\ ~d.term /\ LastRecordWord =>
                     n = [d EXCEPT !.term = TRUE, !.at = "DrFetch"]
               /\ d.wIx = WordBytes - 1 /\ ~d.term /\ ~LastRecordWord =>
                     n = [d EXCEPT !.cnt = @ + 1, !.at = "DrFetch"]
<1> DEFINE ends == d.wIx = WordBytes - 1
           rest == LastRecordWord
<1> HIDE DEF ends, rest
<1> QED
  BY Zenon DEF AfterWordByte, ends, rest

LEMMA AfterWordByteTyped ==
    ASSUME Typed, NEW d \in Drains, d.cnt = drain.cnt PROVE AfterWordByte(d) \in Drains
<1>1. /\ d.wIx \in 0..WordBytes - 1 /\ d.cnt \in 0..TermAddr /\ d.term \in BOOLEAN
      /\ {"DrFetch", "DrCrcByte"} \subseteq DrainPhases /\ WordBytes \in Nat
  BY WireAssumption DEF Drains, DrainPhases
<1>2. CASE d.wIx # WordBytes - 1
  <2>1. d.wIx + 1 \in 0..WordBytes - 1
    BY <1>1, <1>2
  <2>2. AfterWordByte(d) = [d EXCEPT !.wIx = @ + 1]
    BY <1>2, AfterWordByteIs
  <2> QED
    BY <2>1, <2>2 DEF Drains
<1>3. CASE d.wIx = WordBytes - 1 /\ d.term
  <2>1. AfterWordByte(d) = [d EXCEPT !.at = "DrCrcByte"]
    BY <1>3, AfterWordByteIs
  <2> QED
    BY <2>1, <1>1 DEF Drains
<1>4. CASE d.wIx = WordBytes - 1 /\ ~d.term /\ LastRecordWord
  <2>1. AfterWordByte(d) = [d EXCEPT !.term = TRUE, !.at = "DrFetch"]
    BY <1>4, AfterWordByteIs
  <2> QED
    BY <2>1, <1>1 DEF Drains
<1>5. CASE d.wIx = WordBytes - 1 /\ ~d.term /\ ~LastRecordWord
  <2>1. AfterWordByte(d) = [d EXCEPT !.cnt = @ + 1, !.at = "DrFetch"]
    BY <1>5, AfterWordByteIs
  <2>2. ringPtr \in 0..TermAddr /\ TermAddr \in Nat
    BY RingFacts DEF Typed, TypedRing
  <2>3. d.cnt + 1 \in 0..TermAddr
    BY <2>2, <1>1, <1>5 DEF LastRecordWord
  <2> QED
    BY <2>1, <2>3, <1>1 DEF Drains
<1> QED
  BY <1>2, <1>3, <1>4, <1>5

LEMMA TypedTicks ==
    ASSUME Typed, NEW in, NEW ready, Ticks(in, ready), drain' \in Drains PROVE Typed'
BY TypedClock DEF Ticks

LEMMA TypedDraining ==
    ASSUME Typed, NEW ready \in BOOLEAN, Draining(ready) PROVE Typed'
<1>1. drain \in Drains /\ DrainPhases = {"DrOpcode", "DrFetch", "DrLatch", "DrWordByte",
                                        "DrCrcByte", "DrDrainOut", "DrDelim"}
  BY DEF Typed, TypedDrain, DrainPhases
<1>2. DRAIN \in WireByte /\ drain.crc \in WireByte
  BY <1>1, WireAssumption DEF Drains
<1>3. CASE SendOpcode(ready)
  <2>1. CrcUpdate[<<drain.crc, DRAIN>>] \in WireByte
    BY <1>2, WireAssumption
  <2>2. [drain EXCEPT !.at = "DrFetch", !.cnt = 0, !.term = FALSE,
                      !.crc = CrcUpdate[<<@, DRAIN>>]] \in Drains
    BY <1>1, <2>1, RingFacts DEF Drains
  <2> QED
    BY <2>2, <1>1, <1>3, SendOpcodeTicks, TypedTicks
<1>4. CASE FetchWord(ready)
  <2>1. ringData \in Words /\ 0 \in 0..WordBytes - 1
    BY WireAssumption DEF Typed, TypedRing
  <2>2. drain' \in Drains
    BY <2>1, <1>1, <1>4, FetchWordTicks DEF Drains
  <2> QED
    BY <2>2, <1>4, FetchWordTicks, TypedTicks
<1>5. CASE SendWordByte(ready)
  <2> DEFINE b == drain.word[drain.wIx + 1]
             d == [drain EXCEPT !.crc = CrcUpdate[<<@, b>>]]
  <2>1. b \in WireByte
    BY <1>1, WordByteIs
  <2>2. CrcUpdate[<<drain.crc, b>>] \in WireByte
    <3> HIDE DEF b
    <3> QED
      BY <2>1, <1>2, WireAssumption
  <2>3. d \in Drains /\ d.cnt = drain.cnt
    <3> HIDE DEF b
    <3> QED
      BY <2>2, <1>1 DEF Drains
  <2>4. AfterWordByte(d) \in Drains
    <3> HIDE DEF d
    <3> QED
      BY <2>3, AfterWordByteTyped
  <2> QED
    BY <2>4, <1>1, <1>5, SendWordByteTicks, TypedTicks
<1>6. CASE SendCrc(ready)
  <2>1. [drain EXCEPT !.at = "DrDrainOut"] \in Drains
    BY <1>1 DEF Drains
  <2> QED
    BY <2>1, <1>1, <1>6, SendCrcTicks, TypedTicks
<1>7. CASE DrainOut(ready)
  <2>1. [drain EXCEPT !.at = "DrDelim"] \in Drains
    BY <1>1 DEF Drains
  <2> QED
    BY <2>1, <1>1, <1>7, DrainOutTicks, TypedTicks
<1>8. CASE SendDelimiter
  <2>1. Presented = 0
    BY <1>8 DEF SendDelimiter, Presented
  <2>2. ringData' \in Words
    BY <2>1, <1>8, RingFacts DEF SendDelimiter, Typed, TypedRing
  <2>3. /\ phase' = "RxControl" /\ rx' = InitFrame /\ base' = imem
        /\ UNCHANGED <<imem, addr, full, engine, ring, ringPtr, drain, enc>>
    BY <1>8 DEF SendDelimiter, store, outside
  <2>4. engine # "running"
    BY <1>8 DEF SendDelimiter, Typed
  <2> QED
    BY <2>2, <2>3, <2>4, StartTyped DEF Typed, TypedStore, TypedRing, TypedDrain, Phases
<1> QED
  BY <1>3, <1>4, <1>5, <1>6, <1>7, <1>8 DEF Draining

LEMMA TypedStep == Typed /\ [Next]_vars => Typed'
<1> SUFFICES ASSUME Typed, [Next]_vars PROVE Typed'
  OBVIOUS
<1>1. CASE UNCHANGED vars
  BY <1>1 DEF vars, Typed, TypedStore, TypedRing, TypedDrain
<1>2. CASE Next
  BY <1>2, TypedReceive, TypedDelimiter, TypedHalts, TypedBegin, TypedDraining DEF Next, Cycle
<1> QED
  BY <1>1, <1>2

LEMMA TypedAlways == Spec => []Typed
BY TypedInit, TypedStep, PTL DEF Spec

\* Every reachable state of the loader is well typed.
THEOREM LoaderTypes == Spec => []TypeOK
BY TypedAlways, TypedIsTypeOK, PTL

-----------------------------------------------------------------------------
(* The frame being received.  The bytes confirmed so far are the opcode,   *)
(* the words ws and the bytes of a word that is not whole.                 *)

Payload(r, ws) == BytesOf(ws) \o r.acc
Got(r, ws) == IF r.haveOp THEN <<r.opcode>> \o Payload(r, ws) ELSE <<>>

\* The registers after the bytes `bytes` of a frame.
Received(bytes, r, ws) ==
    /\ r \in Rxs /\ ws \in Seq(Words)
    /\ Decoded(bytes, r.dec, Got(r, ws) \o r.held)
    /\ r.held = None => ~r.haveOp
    /\ r.crc = Crc(Got(r, ws))
    /\ r.hadPay <=> r.haveOp /\ Payload(r, ws) # <<>>
    /\ ~r.haveOp => ws = <<>> /\ r.acc = <<>>

\* The store at that time: im is the store, a the next slot, f whether it is
\* full, and b the store when the frame began.
Overlaid(words, b) == [a \in Slots |-> IF a < Len(words) THEN words[a+1] ELSE b[a]]
Stored(im, a, f, b, r, ws) ==
    IF r.haveOp /\ r.opcode = LOAD
    THEN /\ im = Overlaid(ws, b)
         /\ f <=> Len(ws) >= InstrSlots
         /\ a = IF Len(ws) < InstrSlots THEN Len(ws) ELSE InstrSlots - 1
    ELSE im = b

FrameInv == \E ws : Received(seen, rx, ws) /\ Stored(imem, addr, full, base, rx, ws)

\* Bytes put behind bytes.
LEMMA ByteSeqs ==
    /\ \A s \in Seq(WireByte) : s \o <<>> = s /\ <<>> \o s = s
    /\ \A s \in Seq(WireByte), h \in WireByte : /\ Append(s, h) = s \o <<h>>
                                                /\ <<h>> \in Seq(WireByte)
                                                /\ Append(s, h) \in Seq(WireByte)
    /\ <<>> \in Seq(WireByte)
<1>1. ASSUME NEW s \in Seq(WireByte) PROVE s \o <<>> = s /\ <<>> \o s = s
  BY ConcatEmptySeq
<1>2. ASSUME NEW s \in Seq(WireByte), NEW h \in WireByte
      PROVE  Append(s, h) = s \o <<h>> /\ <<h>> \in Seq(WireByte) /\ Append(s, h) \in Seq(WireByte)
  BY AppendIsConcat, AppendProperties
<1> QED
  BY <1>1, <1>2

LEMMA GotIs ==
    ASSUME NEW r \in Rxs, NEW ws \in Seq(Words)
    PROVE  Payload(r, ws) \in Seq(WireByte) /\ Got(r, ws) \in Seq(WireByte)
<1>1. BytesOf(ws) \in Seq(WireByte) /\ r.acc \in Seq(WireByte) /\ r.opcode \in WireByte
  BY BytesOfIs, PartialIs DEF Rxs
<1>2. Payload(r, ws) \in Seq(WireByte)
  BY <1>1, Joined, Zenon DEF Payload
<1>3. <<r.opcode>> \in Seq(WireByte) /\ <<>> \in Seq(WireByte)
  BY <1>1, ByteSeqs
<1>4. <<r.opcode>> \o Payload(r, ws) \in Seq(WireByte)
  BY <1>2, <1>3, Joined, Zenon
<1> QED
  BY <1>2, <1>3, <1>4 DEF Got

\* A new frame.
LEMMA NothingReceived == Received(<<>>, InitFrame, <<>>)
<1> DEFINE d == InitDec
           n == None
<1>1. /\ InitFrame \in Rxs /\ InitFrame.dec = d /\ InitFrame.held = n /\ InitFrame.crc = 0
      /\ ~InitFrame.haveOp /\ InitFrame.acc = <<>> /\ ~InitFrame.hadPay
  <2> HIDE DEF d, n
  <2>1. InitFrame = [dec |-> d, held |-> n, crc |-> 0, haveOp |-> FALSE,
                     opcode |-> 0, acc |-> <<>>, hadPay |-> FALSE]
    BY DEF InitFrame, d, n
  <2> QED
    BY <2>1, StartTyped
<1>2. Got(InitFrame, <<>>) = <<>> /\ <<>> \o n = <<>>
  <2>1. <<>> \o n = <<>>
    BY ByteSeqs DEF None
  <2> QED
    BY <1>1, <2>1 DEF Got
<1>3. Decoded(<<>>, d, <<>>)
  BY DecodedInit
<1>4. <<>> \in Seq(Words)
  OBVIOUS
<1> HIDE DEF d, n
<1> QED
  BY <1>1, <1>2, <1>3, <1>4, CrcOf DEF Received, n

LEMMA FrameBegins ==
    ASSUME NEW im, NEW a, NEW f
    PROVE  Received(<<>>, InitFrame, <<>>) /\ Stored(im, a, f, im, InitFrame, <<>>)
<1>1. ~InitFrame.haveOp
  BY DEF InitFrame
<1> QED
  BY <1>1, NothingReceived DEF Stored

\* A byte that confirms none.
LEMMA HeldBack ==
    ASSUME NEW ws, Received(seen, rx, ws), NEW b \in NonZero,
           ~Confirmed(DecodeByte(rx.dec, b))
    PROVE  /\ Received(Append(seen, b), Hold(DecodeByte(rx.dec, b)), ws)
           /\ Hold(DecodeByte(rx.dec, b)).haveOp = rx.haveOp
           /\ Hold(DecodeByte(rx.dec, b)).opcode = rx.opcode
<1> DEFINE r == DecodeByte(rx.dec, b)
           n == Hold(r)
<1>1. rx \in Rxs /\ ws \in Seq(Words) /\ rx.dec \in Decs /\ rx.held \in Optional(WireByte)
  BY DEF Received, Rxs
<1>2. r.dec \in Decs /\ r.out \in Optional(WireByte)
  BY <1>1, DecodeByteIs
<1>3. Decoded(Append(seen, b), r.dec, (Got(rx, ws) \o rx.held) \o r.out)
  BY DecodedByte DEF Received
<1> HIDE DEF r
<1>4. /\ n \in Rxs /\ n.dec = r.dec /\ n.held = (IF r.out = None THEN rx.held ELSE r.out)
      /\ n.crc = rx.crc /\ n.haveOp = rx.haveOp /\ n.opcode = rx.opcode
      /\ n.acc = rx.acc /\ n.hadPay = rx.hadPay
  BY <1>1, <1>2, ConfirmedIs DEF Hold, Rxs
<1> HIDE DEF n
<1>5. Payload(n, ws) = Payload(rx, ws) /\ Got(n, ws) = Got(rx, ws)
  BY <1>4 DEF Payload, Got
<1>6. (Got(rx, ws) \o rx.held) \o r.out = Got(rx, ws) \o n.held
  <2>0. Got(rx, ws) \in Seq(WireByte) /\ rx.held \in Seq(WireByte) /\ r.out \in Seq(WireByte)
    <3>1. \A o \in Optional(WireByte) : o \in Seq(WireByte)
      <4> SUFFICES ASSUME NEW o \in Optional(WireByte) PROVE o \in Seq(WireByte)
        OBVIOUS
      <4>1. o = <<>> \/ (o = <<o[1]>> /\ o[1] \in WireByte)
        BY OptionalIs DEF None, Some
      <4>2. CASE o = <<>>
        BY <4>2
      <4>3. CASE o = <<o[1]>> /\ o[1] \in WireByte
        <5> DEFINE h == o[1]
        <5>1. <<h>> \in Seq(WireByte)
          BY <4>3
        <5> QED
          BY <5>1, <4>3
      <4> QED
        BY <4>1, <4>2, <4>3
    <3> QED
      BY <1>1, <1>2, <3>1, GotIs
  <2>1. CASE r.out = None
    <3>1. Got(rx, ws) \o rx.held \in Seq(WireByte)
      BY <2>0, Joined, Zenon
    <3>2. (Got(rx, ws) \o rx.held) \o <<>> = Got(rx, ws) \o rx.held
      BY <3>1, ByteSeqs, Zenon
    <3> QED
      BY <2>1, <1>4, <3>2 DEF None
  <2>2. CASE r.out # None
    <3>1. rx.held = None
      BY <2>2 DEF Confirmed, r
    <3>2. Got(rx, ws) \o <<>> = Got(rx, ws)
      BY <2>0, ByteSeqs, Zenon
    <3> QED
      BY <2>2, <3>1, <3>2, <1>4 DEF None
  <2> QED
    BY <2>1, <2>2
<1>7. n.held = None => rx.held = None
  BY <1>4
<1>8. Received(Append(seen, b), n, ws)
  BY <1>1, <1>3, <1>4, <1>5, <1>6, <1>7 DEF Received
<1> QED
  BY <1>4, <1>8 DEF r, n

\* The first byte confirmed is the opcode.
WithOpcode(r, h) ==
    [Hold(r) EXCEPT !.haveOp = TRUE, !.opcode = h, !.crc = CrcUpdate[<<rx.crc, h>>]]

LEMMA OpcodeConfirmed ==
    ASSUME NEW ws, Received(seen, rx, ws), NEW b \in NonZero, NEW r,
           r = DecodeByte(rx.dec, b), Confirmed(r), ~rx.haveOp, NEW h, h = rx.held[1]
    PROVE  /\ Received(Append(seen, b), WithOpcode(r, h), <<>>)
           /\ WithOpcode(r, h).haveOp /\ WithOpcode(r, h).opcode = h
<1> DEFINE n == WithOpcode(r, h)
<1>1. rx \in Rxs /\ ws = <<>> /\ rx.acc = <<>> /\ ~rx.hadPay /\ rx.dec \in Decs
  BY DEF Received, Rxs
<1>2. r.dec \in Decs /\ r.out \in Optional(WireByte)
  BY <1>1, DecodeByteIs
<1>3. /\ h \in WireByte /\ rx.held = <<h>> /\ Hold(r) \in Rxs /\ r.out # None
  BY <1>1, <1>2, ConfirmedIs DEF Confirmed, Some
<1>4. rx.crc = 0 /\ Got(rx, ws) = <<>>
  BY CrcOf DEF Received, Got
<1>5. CrcUpdate[<<rx.crc, h>>] \in WireByte /\ CrcUpdate[<<rx.crc, h>>] = Crc(<<h>>)
  <2>1. /\ Append(<<>>, h) = <<h>> /\ Crc(<<h>>) \in WireByte
        /\ Crc(Append(<<>>, h)) = CrcUpdate[<<Crc(<<>>), h>>]
    <3>1. <<>> \in Seq(WireByte) /\ <<h>> \in Seq(WireByte)
      BY <1>3, ByteSeqs
    <3>2. Append(<<>>, h) = <<h>>
      OBVIOUS
    <3>3. Crc(<<h>>) \in WireByte
      BY <3>1, CrcOf, Zenon
    <3>4. Crc(Append(<<>>, h)) = CrcUpdate[<<Crc(<<>>), h>>]
      BY <3>1, <1>3, CrcOf, Zenon
    <3> QED
      BY <3>2, <3>3, <3>4
  <2> QED
    BY <2>1, <1>4, CrcOf
<1>6. /\ n \in Rxs /\ n.dec = r.dec /\ n.held = r.out /\ n.haveOp /\ n.opcode = h
      /\ n.crc = CrcUpdate[<<rx.crc, h>>] /\ n.acc = rx.acc /\ n.hadPay = rx.hadPay
  BY <1>1, <1>3, <1>5 DEF Hold, Rxs, WithOpcode
<1> HIDE DEF n
<1>7. Payload(n, <<>>) = <<>> /\ Got(n, <<>>) = <<h>>
  <2>1. <<>> \o <<>> = <<>> /\ <<h>> \o <<>> = <<h>>
    BY <1>3, ByteSeqs
  <2>2. Payload(n, <<>>) = <<>>
    BY <2>1, <1>1, <1>6, BytesOfIs DEF Payload
  <2> QED
    BY <2>1, <2>2, <1>6 DEF Got
<1>8. Decoded(Append(seen, b), n.dec, <<h>> \o n.held)
  <2>1. Decoded(Append(seen, b), r.dec, (Got(rx, ws) \o rx.held) \o r.out)
    BY DecodedByte DEF Received
  <2>2. <<>> \o <<h>> = <<h>>
    BY <1>3, ByteSeqs
  <2> QED
    BY <2>1, <2>2, <1>3, <1>4, <1>6
<1>9. n.held # None /\ <<>> \in Seq(Words)
  BY <1>3, <1>6
<1>10. n.crc = Crc(Got(n, <<>>)) /\ (n.hadPay <=> n.haveOp /\ Payload(n, <<>>) # <<>>)
  BY <1>1, <1>5, <1>6, <1>7
<1>11. Received(Append(seen, b), n, <<>>)
  BY <1>6, <1>7, <1>8, <1>9, <1>10 DEF Received
<1> QED
  BY <1>6, <1>11 DEF n

\* Every later byte goes to the word that is not whole; a whole one is added
\* to the words.
Grown(ws, acc, h, word) ==
    /\ BytesOf(ws) \o word = (BytesOf(ws) \o acc) \o <<h>>
    /\ Len(word) = WordBytes =>
          /\ word \in Words /\ Append(ws, word) \in Seq(Words)
          /\ BytesOf(Append(ws, word)) \o <<>> = BytesOf(ws) \o word
    /\ Len(word) # WordBytes => word \in Partial

LEMMA PayloadGrows ==
    ASSUME NEW ws \in Seq(Words), NEW acc \in Partial, NEW h \in WireByte
    PROVE  Grown(ws, acc, h, Append(acc, h))
<1> DEFINE word == Append(acc, h)
<1>1. /\ BytesOf(ws) \in Seq(WireByte) /\ acc \in Seq(WireByte) /\ Len(acc) \in Nat
      /\ Len(acc) < WordBytes /\ WordBytes \in Nat
  BY BytesOfIs, PartialIs, WireAssumption
<1>2. /\ word = acc \o <<h>> /\ word \in Seq(WireByte) /\ <<h>> \in Seq(WireByte)
  BY <1>1, ByteSeqs
<1>3. Len(word) = Len(acc) + 1
  BY <1>1, AppendProperties
<1> HIDE DEF word
<1>4. BytesOf(ws) \o word = (BytesOf(ws) \o acc) \o <<h>>
  <2> DEFINE bs == BytesOf(ws)
             one == <<h>>
  <2>1. bs \in Seq(WireByte) /\ one \in Seq(WireByte) /\ word = acc \o one
    BY <1>1, <1>2
  <2> HIDE DEF bs, one
  <2>2. (bs \o acc) \o one = bs \o (acc \o one)
    BY <2>1, <1>1, Regroup, Zenon
  <2> QED
    BY <2>1, <2>2 DEF bs, one
<1>5. ASSUME Len(word) = WordBytes
      PROVE  /\ word \in Words /\ Append(ws, word) \in Seq(Words)
             /\ BytesOf(Append(ws, word)) \o <<>> = BytesOf(ws) \o word
  <2>1. word \in Words
    BY <1>2, <1>5, PartialIs
  <2>2. Append(ws, word) \in Seq(Words)
    BY <2>1, AppendProperties
  <2>3. BytesOf(Append(ws, word)) = BytesOf(ws) \o word
    BY <2>1, BytesOfIs
  <2>4. BytesOf(Append(ws, word)) \o <<>> = BytesOf(Append(ws, word))
    BY <2>2, BytesOfIs, ByteSeqs
  <2> QED
    BY <2>1, <2>2, <2>3, <2>4
<1>6. ASSUME Len(word) # WordBytes PROVE word \in Partial
  <2>1. Len(word) < WordBytes
    BY <1>1, <1>3, <1>6
  <2> QED
    BY <2>1, <1>2, PartialIs
<1>7. Grown(ws, acc, h, word)
  BY <1>4, <1>5, <1>6 DEF Grown
<1> QED
  BY <1>7 DEF word

WithPayload(r, h, word) ==
    [Hold(r) EXCEPT !.hadPay = TRUE, !.crc = CrcUpdate[<<rx.crc, h>>],
                    !.acc = IF Len(word) = WordBytes THEN <<>> ELSE word]

LEMMA PayloadConfirmed ==
    ASSUME NEW ws, Received(seen, rx, ws), NEW b \in NonZero, NEW r,
           r = DecodeByte(rx.dec, b), Confirmed(r), rx.haveOp, NEW h, h = rx.held[1],
           NEW word, word = Append(rx.acc, h),
           NEW vs, vs = IF Len(word) = WordBytes THEN Append(ws, word) ELSE ws
    PROVE  LET n == WithPayload(r, h, word)
           IN  /\ Received(Append(seen, b), n, vs) /\ n.haveOp /\ n.opcode = rx.opcode
               /\ Len(word) = WordBytes => word \in Words
<1> DEFINE n == WithPayload(r, h, word)
           p == Payload(rx, ws)
           op == rx.opcode
<1>1. /\ rx \in Rxs /\ ws \in Seq(Words) /\ rx.acc \in Partial /\ rx.dec \in Decs
      /\ op \in WireByte /\ rx.crc \in WireByte
  BY DEF Received, Rxs
<1>2. r.dec \in Decs /\ r.out \in Optional(WireByte)
  BY <1>1, DecodeByteIs
<1>3. /\ h \in WireByte /\ rx.held = <<h>> /\ Hold(r) \in Rxs /\ r.out # None
  BY <1>1, <1>2, ConfirmedIs DEF Confirmed, Some
<1>4. /\ BytesOf(ws) \o word = p \o <<h>>
      /\ Len(word) = WordBytes =>
            /\ word \in Words /\ Append(ws, word) \in Seq(Words)
            /\ BytesOf(Append(ws, word)) \o <<>> = BytesOf(ws) \o word
      /\ Len(word) # WordBytes => word \in Partial
  <2> DEFINE a == rx.acc
  <2>1. a \in Partial /\ word = Append(a, h) /\ p = BytesOf(ws) \o a
    BY <1>1 DEF Payload
  <2> HIDE DEF a, p
  <2>2. Grown(ws, a, h, word)
    BY <2>1, <1>1, <1>3, PayloadGrows, Zenon
  <2> QED
    BY <2>1, <2>2 DEF Grown
<1>5. Got(rx, ws) = <<op>> \o p /\ rx.crc = Crc(Got(rx, ws))
  BY DEF Received, Got
<1>6. p \in Seq(WireByte) /\ <<op>> \in Seq(WireByte) /\ <<h>> \in Seq(WireByte)
      /\ Got(rx, ws) \in Seq(WireByte)
  BY <1>1, <1>3, GotIs, ByteSeqs
<1> HIDE DEF p, op
<1>7. Got(rx, ws) \o <<h>> = <<op>> \o (p \o <<h>>)
  <2> DEFINE o1 == <<op>>
             h1 == <<h>>
  <2>1. o1 \in Seq(WireByte) /\ h1 \in Seq(WireByte) /\ Got(rx, ws) = o1 \o p
    BY <1>5, <1>6
  <2> HIDE DEF o1, h1
  <2>2. (o1 \o p) \o h1 = o1 \o (p \o h1)
    BY <2>1, <1>6, Regroup, Zenon
  <2> QED
    BY <2>1, <2>2 DEF o1, h1
<1>8. /\ CrcUpdate[<<rx.crc, h>>] \in WireByte
      /\ CrcUpdate[<<rx.crc, h>>] = Crc(Got(rx, ws) \o <<h>>)
  <2>1. Append(Got(rx, ws), h) = Got(rx, ws) \o <<h>>
    BY <1>3, <1>6, ByteSeqs, Zenon
  <2>2. Crc(Append(Got(rx, ws), h)) = CrcUpdate[<<Crc(Got(rx, ws)), h>>]
    BY <1>3, <1>6, CrcOf, Zenon
  <2>3. Got(rx, ws) \o <<h>> \in Seq(WireByte)
    BY <1>6, Joined, Zenon
  <2>4. Crc(Got(rx, ws) \o <<h>>) \in WireByte
    BY <2>3, CrcOf, Zenon
  <2> QED
    BY <2>1, <2>2, <2>4, <1>5
<1>9. (IF Len(word) = WordBytes THEN <<>> ELSE word) \in Partial
  BY <1>4, PartialIs
<1>10. /\ n \in Rxs /\ n.dec = r.dec /\ n.held = r.out /\ n.haveOp /\ n.opcode = op
       /\ n.crc = CrcUpdate[<<rx.crc, h>>] /\ n.hadPay
       /\ n.acc = IF Len(word) = WordBytes THEN <<>> ELSE word
  BY <1>1, <1>3, <1>8, <1>9 DEF Hold, Rxs, op, WithPayload
<1> HIDE DEF n
<1>11. vs \in Seq(Words) /\ Payload(n, vs) = p \o <<h>>
  BY <1>1, <1>4, <1>10 DEF Payload
<1>12. Got(n, vs) = Got(rx, ws) \o <<h>>
  BY <1>7, <1>10, <1>11 DEF Got
<1>13. Decoded(Append(seen, b), n.dec, Got(n, vs) \o n.held)
  <2>1. Decoded(Append(seen, b), r.dec, (Got(rx, ws) \o rx.held) \o r.out)
    BY DecodedByte DEF Received
  <2> QED
    BY <2>1, <1>3, <1>10, <1>12
<1>14. n.held # None
  BY <1>3, <1>10
<1>15. n.crc = Crc(Got(n, vs))
  BY <1>8, <1>10, <1>12
<1>16. Payload(n, vs) # <<>>
  <2>1. Len(p \o <<h>>) = Len(p) + 1 /\ Len(p) \in Nat
    BY <1>6, ConcatProperties
  <2>2. Len(p \o <<h>>) # 0
    BY <2>1
  <2> QED
    BY <2>2, <1>11
<1>17. Received(Append(seen, b), n, vs)
  BY <1>10, <1>11, <1>13, <1>14, <1>15, <1>16 DEF Received
<1> QED
  BY <1>4, <1>10, <1>17 DEF op, n

\* What a whole word does to the store.
LEMMA WordStored ==
    ASSUME TypedStore, NEW ws \in Seq(Words), NEW word \in Words,
           rx.haveOp /\ rx.opcode = LOAD, Stored(imem, addr, full, base, rx, ws),
           NEW n, n.haveOp, n.opcode = rx.opcode
    PROVE  Stored(IF full THEN imem ELSE [imem EXCEPT ![addr] = word],
                  NextSlot.addr, NextSlot.full, base, n, Append(ws, word))
<1> DEFINE len == Len(ws)
           vs == Append(ws, word)
           im == IF full THEN imem ELSE [imem EXCEPT ![addr] = word]
<1>1. /\ imem = Overlaid(ws, base) /\ (full <=> len >= InstrSlots)
      /\ addr = (IF len < InstrSlots THEN len ELSE InstrSlots - 1)
  BY DEF Stored
<1>2. /\ len \in Nat /\ Len(vs) = len + 1 /\ vs[len+1] = word
      /\ \A i \in 1..len : vs[i] = ws[i]
  BY AppendProperties, LenProperties
<1>3. InstrSlots \in Nat /\ InstrSlots >= 1 /\ addr \in Slots
  BY RingFacts DEF TypedStore
<1> HIDE DEF len, vs
<1>4. im = Overlaid(vs, base)
  <2>1. \A a \in Slots : im[a] = IF a < Len(vs) THEN vs[a+1] ELSE base[a]
    <3> SUFFICES ASSUME NEW a \in Slots
                 PROVE  im[a] = IF a < Len(vs) THEN vs[a+1] ELSE base[a]
      OBVIOUS
    <3>1. imem[a] = IF a < len THEN ws[a+1] ELSE base[a]
      BY <1>1 DEF Overlaid, len
    <3>2. a \in Nat /\ a < InstrSlots
      BY <1>3 DEF Slots
    <3>3. CASE full
      <4>1. im[a] = imem[a] /\ a < len /\ a + 1 \in 1..len /\ a < Len(vs)
        BY <3>2, <3>3, <1>1, <1>2, <1>3
      <4> QED
        BY <4>1, <3>1, <1>2
    <3>4. CASE ~full
      <4>1. len < InstrSlots /\ addr = len
        BY <3>4, <1>1, <1>2, <1>3
      <4>2. CASE a = len
        <5>1. im[a] = word
          BY <4>1, <4>2, <3>4 DEF TypedStore
        <5>2. a < Len(vs) /\ a + 1 = len + 1
          BY <4>2, <1>2
        <5> QED
          BY <5>1, <5>2, <1>2
      <4>3. CASE a # len
        <5>1. im[a] = imem[a]
          BY <4>1, <4>3, <3>4 DEF TypedStore
        <5>2. a < Len(vs) <=> a < len
          BY <4>3, <3>2, <1>2
        <5>3. a < len => a + 1 \in 1..len
          BY <3>2, <1>2
        <5> QED
          BY <5>1, <5>2, <5>3, <3>1, <1>2
      <4> QED
        BY <4>2, <4>3
    <3> QED
      BY <3>3, <3>4
  <2>2. im \in [Slots -> Words]
    BY DEF TypedStore
  <2>3. im = [a \in Slots |-> im[a]]
    BY <2>2
  <2> HIDE DEF im
  <2> QED
    BY <2>1, <2>3, Zenon DEF Overlaid
<1>5. NextSlot.full <=> Len(vs) >= InstrSlots
  <2>1. CASE addr = InstrSlots - 1
    <3>1. NextSlot.full
      BY <2>1, NextSlotIs
    <3>2. Len(vs) >= InstrSlots
      BY <2>1, <1>1, <1>2, <1>3
    <3> QED
      BY <3>1, <3>2
  <2>2. CASE addr # InstrSlots - 1
    <3>1. NextSlot.full = full
      BY <2>2, NextSlotIs
    <3>2. len < InstrSlots - 1
      BY <2>2, <1>1, <1>2, <1>3
    <3>3. ~(len >= InstrSlots) /\ ~(Len(vs) >= InstrSlots)
      BY <3>2, <1>2, <1>3
    <3> QED
      BY <3>1, <3>3, <1>1
  <2> QED
    BY <2>1, <2>2
<1>6. NextSlot.addr = IF Len(vs) < InstrSlots THEN Len(vs) ELSE InstrSlots - 1
  <2>1. CASE addr = InstrSlots - 1
    <3>1. NextSlot.addr = addr
      BY <2>1, NextSlotIs
    <3>2. ~(Len(vs) < InstrSlots)
      BY <2>1, <1>1, <1>2, <1>3
    <3> QED
      BY <3>1, <3>2, <2>1
  <2>2. CASE addr # InstrSlots - 1
    <3>1. NextSlot.addr = addr + 1
      BY <2>2, NextSlotIs
    <3>2. addr = len /\ Len(vs) < InstrSlots
      BY <2>2, <1>1, <1>2, <1>3
    <3> QED
      BY <3>1, <3>2, <1>2
  <2> QED
    BY <2>1, <2>2
<1> HIDE DEF im
<1>7. Stored(im, NextSlot.addr, NextSlot.full, base, n, vs)
  BY <1>4, <1>5, <1>6 DEF Stored
<1> QED
  BY <1>7 DEF im, vs

\* The frame and the store at every byte that is received.
LEMMA FrameReceive ==
    ASSUME Typed, FrameInv, NEW b \in WireByte, Receive(b) PROVE FrameInv'
<1> DEFINE r == DecodeByte(rx.dec, b)
           h == rx.held[1]
<1>1. PICK ws : Received(seen, rx, ws) /\ Stored(imem, addr, full, base, rx, ws)
  BY DEF FrameInv
<1>2. b \in NonZero /\ seen' = Append(seen, b) /\ base' = base
  BY MaxGroupAssumption DEF Receive, WireByte, NonZero, FullCode
<1>3. CASE ~Confirmed(r) /\ rx' = Hold(r) /\ UNCHANGED store
  <2>1. Received(seen', rx', ws) /\ rx'.haveOp = rx.haveOp /\ rx'.opcode = rx.opcode
    BY <1>1, <1>2, <1>3, HeldBack
  <2>2. Stored(imem', addr', full', base', rx', ws)
    BY <2>1, <1>1, <1>2, <1>3 DEF Stored, store
  <2> QED
    BY <2>1, <2>2 DEF FrameInv
<1>4. CASE Confirmed(r) /\ ConfirmOpcode(r, h)
  <2>1. /\ ~rx.haveOp /\ UNCHANGED imem
        /\ rx' = WithOpcode(r, h)
        /\ IF h = LOAD THEN addr' = 0 /\ full' = FALSE ELSE UNCHANGED <<addr, full>>
    <3>1. Hold(r).crc = rx.crc
      BY DEF Hold, Typed, Rxs
    <3> HIDE DEF r, h
    <3> QED
      BY <3>1, <1>4 DEF ConfirmOpcode, Rewind, WithOpcode
  <2>2. Received(seen', rx', <<>>) /\ rx'.haveOp /\ rx'.opcode = h
    <3>1. r = DecodeByte(rx.dec, b) /\ h = rx.held[1]
      OBVIOUS
    <3> HIDE DEF r, h
    <3> QED
      BY <3>1, <2>1, <1>1, <1>2, <1>4, OpcodeConfirmed
  <2>3. Stored(imem', addr', full', base', rx', <<>>)
    <3>1. imem = base
      BY <2>1, <1>1 DEF Stored
    <3>2. ~(Len(<<>>) >= InstrSlots) /\ Len(<<>>) = 0 /\ Len(<<>>) < InstrSlots
      BY RingFacts
    <3>3. imem = Overlaid(<<>>, base)
      <4>1. base = [a \in Slots |-> base[a]] /\ \A a \in Slots : ~(a < Len(<<>>))
        BY <3>2 DEF Typed, Slots
      <4> QED
        BY <4>1, <3>1 DEF Overlaid
    <3> HIDE DEF h
    <3> QED
      BY <3>1, <3>2, <3>3, <2>1, <2>2, <1>2 DEF Stored
  <2> QED
    BY <2>2, <2>3 DEF FrameInv
<1>5. CASE Confirmed(r) /\ ConfirmPayload(r, h)
  <2> DEFINE word == Append(rx.acc, h)
             vs == IF Len(word) = WordBytes THEN Append(ws, word) ELSE ws
  <2>1. /\ rx.haveOp
        /\ rx' = WithPayload(r, h, word)
    <3>1. Hold(r).crc = rx.crc
      BY DEF Hold, Typed, Rxs
    <3> HIDE DEF r, h
    <3> QED
      BY <3>1, <1>5 DEF ConfirmPayload, WithPayload
  <2>2. /\ Received(seen', rx', vs) /\ rx'.haveOp /\ rx'.opcode = rx.opcode
        /\ Len(word) = WordBytes => word \in Words
    <3>1. /\ r = DecodeByte(rx.dec, b) /\ h = rx.held[1] /\ word = Append(rx.acc, h)
          /\ vs = IF Len(word) = WordBytes THEN Append(ws, word) ELSE ws
      OBVIOUS
    <3> HIDE DEF r, h, word, vs
    <3> QED
      BY <3>1, <2>1, <1>1, <1>2, <1>5, PayloadConfirmed
  <2>3. Stored(imem', addr', full', base', rx', vs)
    <3>1. CASE Len(word) = WordBytes /\ rx.opcode = LOAD
      <4>1. /\ addr' = NextSlot.addr /\ full' = NextSlot.full
            /\ imem' = IF full THEN imem ELSE [imem EXCEPT ![addr] = word]
        BY <1>5, <3>1 DEF ConfirmPayload
      <4>2. ws \in Seq(Words) /\ TypedStore
        BY <1>1 DEF Received, Typed
      <4>3. vs = Append(ws, word)
        BY <3>1
      <4> HIDE DEF word, vs
      <4> QED
        BY <4>1, <4>2, <4>3, <3>1, <2>1, <2>2, <1>1, <1>2, WordStored
    <3>2. CASE rx.opcode # LOAD
      <4>1. UNCHANGED <<imem, addr, full>>
        BY <1>5, <3>2 DEF ConfirmPayload, store
      <4> HIDE DEF vs
      <4> QED
        BY <4>1, <3>2, <2>2, <1>1, <1>2 DEF Stored
    <3>3. CASE Len(word) # WordBytes
      <4>1. UNCHANGED <<imem, addr, full>> /\ vs = ws
        BY <1>5, <3>3 DEF ConfirmPayload, store
      <4> HIDE DEF vs
      <4> QED
        BY <4>1, <2>1, <2>2, <1>1, <1>2 DEF Stored
    <3> QED
      BY <3>1, <3>2, <3>3
  <2> HIDE DEF vs
  <2> QED
    BY <2>2, <2>3 DEF FrameInv
<1> QED
  BY <1>3, <1>4, <1>5 DEF Receive

LEMMA FrameStep == Typed /\ FrameInv /\ [Next]_vars => FrameInv'
<1> SUFFICES ASSUME Typed, FrameInv, [Next]_vars PROVE FrameInv'
  OBVIOUS
<1>1. ASSUME UNCHANGED <<seen, rx, imem, addr, full, base>> PROVE FrameInv'
  BY <1>1 DEF FrameInv
<1>2. ASSUME rx' = InitFrame, seen' = <<>>, base' = imem, imem' = imem PROVE FrameInv'
  BY <1>2, FrameBegins DEF FrameInv
<1>3. CASE UNCHANGED vars
  BY <1>1, <1>3 DEF vars
<1>4. ASSUME NEW b \in WireByte, Receive(b) PROVE FrameInv'
  BY <1>4, FrameReceive
<1>5. CASE Delimiter
  BY <1>2, <1>5 DEF Delimiter, FreshFrame, store
<1>6. CASE EngineHalts
  BY <1>1, <1>6 DEF EngineHalts, store
<1>7. CASE BeginDrain
  BY <1>1, <1>7 DEF BeginDrain, store
<1>8. ASSUME NEW ready \in BOOLEAN, Draining(ready) PROVE FrameInv'
  <2>1. CASE SendDelimiter
    BY <2>1, <1>2 DEF SendDelimiter, store
  <2>2. CASE ~SendDelimiter
    <3>1. \E in : Ticks(in, ready)
      BY <1>8, <2>2, SendOpcodeTicks, FetchWordTicks, SendWordByteTicks, SendCrcTicks,
         DrainOutTicks DEF Draining
    <3> QED
      BY <3>1, <1>1 DEF Ticks, store
  <2> QED
    BY <2>1, <2>2
<1> QED
  BY <1>3, <1>4, <1>5, <1>6, <1>7, <1>8 DEF Next, Cycle

LEMMA FrameInit == Init => FrameInv
BY FrameBegins DEF Init, FrameInv

LEMMA FrameAlways == Spec => [](Typed /\ FrameInv)
<1>1. Init => Typed /\ FrameInv
  BY TypedInit, FrameInit
<1>2. (Typed /\ FrameInv) /\ [Next]_vars => (Typed /\ FrameInv)'
  BY TypedStep, FrameStep
<1> QED
  BY <1>1, <1>2, PTL DEF Spec

-----------------------------------------------------------------------------
(* The end of a frame: the bytes held back are apart from the last one.    *)

\* The parts of a decoded frame: the opcode, the payload and the CRC.
LEMMA Apart ==
    ASSUME NEW op \in WireByte, NEW p \in Seq(WireByte), NEW h \in WireByte
    PROVE  LET logical == <<op>> \o p
               content == logical \o <<h>>
           IN  /\ logical \in Seq(WireByte) /\ content \in Seq(WireByte)
               /\ logical # <<>> /\ content # <<>> /\ Len(content) > 1
               /\ Front(content) = logical /\ Last(content) = h
               /\ Head(content) = op /\ Head(logical) = op /\ Tail(logical) = p
               /\ SubSeq(content, 2, Len(content) - 1) = p
<1> DEFINE o == <<op>>
           e == <<h>>
           logical == o \o p
           content == logical \o e
           n == Len(p)
<1>1. o \in Seq(WireByte) /\ Len(o) = 1 /\ o[1] = op /\ n \in Nat
      /\ e \in Seq(WireByte) /\ Len(e) = 1 /\ e[1] = h /\ <<>> \in Seq(WireByte)
  BY LenProperties
<1> HIDE DEF o, e
<1>2. /\ logical \in Seq(WireByte) /\ Len(logical) = n + 1
      /\ \A i \in 1..n+1 : logical[i] = IF i <= 1 THEN o[i] ELSE p[i-1]
  <2>1. /\ logical \in Seq(WireByte) /\ Len(logical) = Len(o) + Len(p)
        /\ \A i \in 1..Len(o) + Len(p) : logical[i] = IF i <= Len(o) THEN o[i] ELSE p[i-Len(o)]
    BY <1>1, ConcatProperties
  <2> HIDE DEF logical
  <2> QED
    BY <2>1, <1>1
<1> HIDE DEF logical
<1>3. /\ content \in Seq(WireByte) /\ Len(content) = n + 2
      /\ \A i \in 1..n+2 : content[i] = IF i <= n + 1 THEN logical[i] ELSE e[i-(n+1)]
  <2>1. /\ content \in Seq(WireByte) /\ Len(content) = Len(logical) + Len(e)
        /\ \A i \in 1..Len(logical) + Len(e) :
              content[i] = IF i <= Len(logical) THEN logical[i] ELSE e[i-Len(logical)]
    BY <1>1, <1>2, ConcatProperties
  <2> HIDE DEF content
  <2> QED
    BY <2>1, <1>1, <1>2
<1> HIDE DEF content, n
<1>4. /\ logical # <<>> /\ content # <<>> /\ Len(content) > 1
      /\ Len(content) - 1 = n + 1 /\ Len(content) - 1 = Len(logical)
  BY <1>1, <1>2, <1>3
<1>5. Last(content) = h
  <2>1. n + 2 \in 1..n+2 /\ ~(n + 2 <= n + 1) /\ (n + 2) - (n + 1) = 1
    BY <1>1
  <2> QED
    BY <2>1, <1>1, <1>3 DEF Last
<1>6. Head(content) = op /\ Head(logical) = op
  <2>1. 1 \in 1..n+2 /\ 1 \in 1..n+1 /\ 1 <= 1 /\ 1 <= n + 1
    BY <1>1
  <2>2. content[1] = op /\ logical[1] = op
    BY <2>1, <1>1, <1>2, <1>3
  <2>3. Head(content) = content[1] /\ Head(logical) = logical[1]
    BY <1>2, <1>3, <1>4
  <2> QED
    BY <2>2, <2>3
<1>7. Front(content) = logical
  <2>1. SubSeq(<<>> \o (logical \o e), Len(<<>>) + 1, Len(<<>>) + Len(logical)) = logical
    BY <1>1, <1>2, Middle
  <2>2. <<>> \o (logical \o e) = logical \o e
    <3>1. logical \o e \in Seq(WireByte)
      BY <1>1, <1>2, Joined, Zenon
    <3> QED
      BY <3>1, ByteSeqs, Zenon
  <2>3. Len(<<>>) + 1 = 1 /\ Len(<<>>) + Len(logical) = Len(content) - 1
    BY <1>2, <1>4
  <2> QED
    BY <2>1, <2>2, <2>3 DEF Front, content
<1>8. Tail(logical) = p
  <2> DEFINE t == Tail(logical)
  <2>1. t \in Seq(WireByte) /\ Len(t) = Len(logical) - 1 /\ \A i \in 1..Len(t) : t[i] = logical[i+1]
    BY <1>2, <1>4, HeadTailProperties
  <2> HIDE DEF t
  <2>2. Len(t) = n
    BY <2>1, <1>1, <1>2
  <2>3. \A i \in 1..n : t[i] = p[i]
    <3> SUFFICES ASSUME NEW i \in 1..n PROVE t[i] = p[i]
      OBVIOUS
    <3>1. i + 1 \in 1..n+1 /\ ~(i + 1 <= 1) /\ (i + 1) - 1 = i
      BY <1>1
    <3> QED
      BY <3>1, <2>1, <2>2, <1>2
  <2>4. t = p
    BY <2>1, <2>2, <2>3, SeqEqual DEF n
  <2> QED
    BY <2>4 DEF t
<1>9. SubSeq(content, 2, Len(content) - 1) = p
  <2>1. SubSeq(o \o (p \o e), Len(o) + 1, Len(o) + Len(p)) = p
    BY <1>1, Middle
  <2>2. o \o (p \o e) = content
    BY <1>1, Regroup, Zenon DEF content, logical
  <2>3. Len(o) + 1 = 2 /\ Len(o) + Len(p) = Len(content) - 1
    BY <1>1, <1>3 DEF n
  <2> QED
    BY <2>1, <2>2, <2>3
<1> QED
  BY <1>2, <1>3, <1>4, <1>5, <1>6, <1>7, <1>8, <1>9 DEF content, logical, o, e

LEMMA FrameDecodeIs ==
    ASSUME NEW s, NEW op \in WireByte, NEW p \in Seq(WireByte), NEW h \in WireByte,
           CobsDecode(s) = Some((<<op>> \o p) \o <<h>>)
    PROVE  FrameDecode(s) = IF Crc(<<op>> \o p) = h THEN Some(<<op>> \o p) ELSE None
<1> DEFINE logical == <<op>> \o p
           content == logical \o <<h>>
           c == CobsDecode(s)
<1>1. content # <<>> /\ Front(content) = logical /\ Last(content) = h
  BY Apart
<1> HIDE DEF content, logical
<1>2. c = Some(content)
  BY DEF content, logical
<1> HIDE DEF c
<1>3. c # None /\ c # Some(<<>>) /\ c[1] = content
  BY <1>1, <1>2 DEF None, Some
<1>4. FrameDecode(s) = IF Crc(logical) = h THEN Some(logical) ELSE None
  BY <1>1, <1>3 DEF FrameDecode, c
<1> QED
  BY <1>4 DEF logical

LEMMA AtMostOne == ASSUME NEW o \in Optional(WireByte) PROVE Len(o) <= 1
<1>1. CASE o = None
  BY <1>1 DEF None
<1>2. CASE \E x \in WireByte : o = Some(x)
  <2>1. PICK x : o = <<x>>
    BY <1>2 DEF Some
  <2>2. Len(o) = 1
    BY <2>1
  <2> QED
    BY <2>2
<1> QED
  BY <1>1, <1>2 DEF Optional

LEMMA ShortFrame ==
    ASSUME NEW s, NEW held \in Optional(WireByte), CobsDecode(s) = None \/ CobsDecode(s) = Some(held)
    PROVE  FrameDecode(s) = None \/ FrameDecode(s) = Some(<<>>)
<1> DEFINE c == CobsDecode(s)
<1> HIDE DEF c
<1>1. CASE c = None
  BY <1>1 DEF FrameDecode, c
<1>2. CASE c = Some(held) /\ held = None
  BY <1>2 DEF FrameDecode, c, None
<1>3. CASE c = Some(held) /\ held # None
  <2>1. held = <<held[1]>>
    BY <1>3, OptionalIs DEF Some
  <2>2. Len(held) = 1 /\ c[1] = held /\ c # None /\ c # Some(<<>>)
    BY <2>1, <1>3 DEF None, Some
  <2>3. Front(held) = <<>>
    BY <2>2 DEF Front
  <2> QED
    BY <2>2, <2>3 DEF FrameDecode, c
<1> QED
  BY <1>1, <1>2, <1>3 DEF c

LEMMA MessagesDiffer ==
    TriggerMsg # BadMsg /\ \A ws : LoadMsg(ws) # TriggerMsg
<1>1. TriggerMsg.kind = "Trigger" /\ BadMsg.kind = "Bad"
  BY DEF TriggerMsg, BadMsg
<1>2. \A ws : LoadMsg(ws).kind = "LoadProgram"
  BY DEF LoadMsg
<1>3. "Trigger" # "Bad" /\ "Trigger" # "LoadProgram"
  OBVIOUS
<1> QED
  BY <1>1, <1>2, <1>3, Zenon

\* What the bytes of a frame decode to, in terms of the registers.
LEMMA FrameEnds ==
    ASSUME NEW ws, Received(seen, rx, ws)
    PROVE  /\ rx \in Rxs /\ ws \in Seq(Words) /\ Payload(rx, ws) \in Seq(WireByte)
           /\ Malformed(rx.dec) <=> CobsDecode(seen) = None
           /\ ~Malformed(rx.dec) /\ ~rx.haveOp =>
                 rx.held \in Optional(WireByte) /\ CobsDecode(seen) = Some(rx.held)
           /\ rx.haveOp => rx.held = <<rx.held[1]>> /\ rx.held[1] \in WireByte
           /\ ~Malformed(rx.dec) /\ rx.haveOp =>
                 CobsDecode(seen) = Some((<<rx.opcode>> \o Payload(rx, ws)) \o <<rx.held[1]>>)
<1>1. /\ rx \in Rxs /\ ws \in Seq(Words) /\ rx.held \in Optional(WireByte)
      /\ Payload(rx, ws) \in Seq(WireByte)
  BY GotIs DEF Received, Rxs
<1>2. /\ Malformed(rx.dec) <=> CobsDecode(seen) = None
      /\ ~Malformed(rx.dec) => CobsDecode(seen) = Some(Got(rx, ws) \o rx.held)
  BY DecodedEnd DEF Received
<1>3. rx.held = None \/ (rx.held = <<rx.held[1]>> /\ rx.held[1] \in WireByte)
  BY <1>1, OptionalIs DEF Some
<1>4. rx.haveOp => rx.held # None
  BY DEF Received
<1>5. ~rx.haveOp => Got(rx, ws) \o rx.held = rx.held
  <2> HAVE ~rx.haveOp
  <2>1. Got(rx, ws) = <<>>
    BY DEF Got
  <2>2. rx.held \in Seq(WireByte)
    <3>1. CASE rx.held = None
      BY <3>1 DEF None
    <3>2. CASE rx.held = <<rx.held[1]>> /\ rx.held[1] \in WireByte
      <4> DEFINE h == rx.held[1]
      <4>1. <<h>> \in Seq(WireByte)
        BY <3>2
      <4> QED
        BY <4>1, <3>2
    <3> QED
      BY <1>3, <3>1, <3>2
  <2> QED
    BY <2>1, <2>2, ByteSeqs
<1>6. rx.haveOp => Got(rx, ws) = <<rx.opcode>> \o Payload(rx, ws)
  BY DEF Got
<1> QED
  BY <1>1, <1>2, <1>3, <1>4, <1>5, <1>6

LEMMA TriggerDecoded ==
    ASSUME NEW ws, Received(seen, rx, ws)
    PROVE  DecodeControl(seen) = TriggerMsg <=> CrcGood /\ TriggerOk
<1> DEFINE op == rx.opcode
           p == Payload(rx, ws)
           h == rx.held[1]
           f == FrameDecode(seen)
<1>1. CASE Malformed(rx.dec) \/ ~rx.haveOp
  <2>1. f = None \/ f = Some(<<>>)
    <3>1. CASE CobsDecode(seen) = None
      BY <3>1, NoneOptional, ShortFrame
    <3>2. CASE CobsDecode(seen) # None
      BY <3>2, <1>1, FrameEnds, ShortFrame
    <3> QED
      BY <3>1, <3>2
  <2>2. DecodeControl(seen) = BadMsg
    BY <2>1 DEF DecodeControl
  <2>3. ~CrcGood
    BY <1>1 DEF CrcGood
  <2> QED
    BY <2>2, <2>3, MessagesDiffer
<1>2. CASE ~Malformed(rx.dec) /\ rx.haveOp
  <2>1. /\ op \in WireByte /\ p \in Seq(WireByte) /\ h \in WireByte /\ rx.held = <<h>>
        /\ CobsDecode(seen) = Some((<<op>> \o p) \o <<h>>)
    BY <1>2, FrameEnds DEF Rxs
  <2>2. rx.crc = Crc(<<op>> \o p) /\ (rx.hadPay <=> p # <<>>)
    BY <1>2 DEF Received, Got
  <2> HIDE DEF op, p, h
  <2> DEFINE logical == <<op>> \o p
  <2>3. f = IF Crc(logical) = h THEN Some(logical) ELSE None
    BY <2>1, FrameDecodeIs
  <2>4. logical # <<>> /\ Head(logical) = op /\ Tail(logical) = p
    BY <2>1, Apart
  <2> HIDE DEF logical, f
  <2>5. CrcGood <=> Crc(logical) = h
    BY <2>1, <2>2, <1>2 DEF CrcGood, Some, logical
  <2>6. CASE Crc(logical) # h
    <3>1. f = None
      BY <2>3, <2>6
    <3>2. DecodeControl(seen) = BadMsg
      BY <3>1 DEF DecodeControl, f
    <3> QED
      BY <3>2, <2>5, <2>6, MessagesDiffer
  <2>7. CASE Crc(logical) = h
    <3>1. f # None /\ f # Some(<<>>) /\ f[1] = logical
      BY <2>3, <2>4, <2>7 DEF None, Some
    <3>2. DecodeControl(seen) =
            CASE op = LOAD /\ Len(p) % WordBytes = 0 -> LoadMsg(WholeWords(p))
              [] op = TRIGGER /\ p = <<>> -> TriggerMsg
              [] OTHER -> BadMsg
      BY <3>1, <2>4, Zenon DEF DecodeControl, f
    <3>3. DecodeControl(seen) = TriggerMsg <=> op = TRIGGER /\ p = <<>>
      <4>1. CASE op = TRIGGER /\ p = <<>>
        <5>1. ~(op = LOAD /\ Len(p) % WordBytes = 0)
          BY <4>1, WireAssumption
        <5> QED
          BY <5>1, <4>1, <3>2
      <4>2. CASE ~(op = TRIGGER /\ p = <<>>)
        BY <4>2, <3>2, MessagesDiffer
      <4> QED
        BY <4>1, <4>2
    <3>4. TriggerOk <=> op = TRIGGER /\ p = <<>>
      BY <2>2 DEF TriggerOk, op
    <3> QED
      BY <3>3, <3>4, <2>5, <2>7
  <2> QED
    BY <2>6, <2>7
<1> QED
  BY <1>1, <1>2

\* The engine starts at a delimiter exactly when the pure decoder calls the bytes
\* since the last one a TRIGGER, for every sequence of frames (finalize).
THEOREM StartsOnGoodTriggers == Spec => TriggerIffGood
<1>1. (Typed /\ FrameInv) /\ [Next]_vars
        => [Delimiter => (phase' = "Run" <=> DecodeControl(seen) = TriggerMsg)]_vars
  <2> SUFFICES ASSUME FrameInv, Delimiter
               PROVE  phase' = "Run" <=> DecodeControl(seen) = TriggerMsg
    OBVIOUS
  <2>1. PICK ws : Received(seen, rx, ws)
    BY DEF FrameInv
  <2>2. phase' = "Run" <=> CrcGood /\ TriggerOk
    BY DEF Delimiter
  <2> QED
    BY <2>1, <2>2, TriggerDecoded
<1> QED
  BY <1>1, FrameAlways, PTL DEF Spec, TriggerIffGood

\* At a delimiter behind a well-formed frame the store holds the whole words of a
\* LOAD in front of what it held before, and is untouched by any other frame.
THEOREM LoadsWhatWasSent == Spec => StoreFollowsFrame
<1> DEFINE content == CobsDecode(seen)[1]
           payload == SubSeq(content, 2, Len(content) - 1)
           loaded == IF Len(content) > 1 /\ Head(content) = LOAD
                     THEN Overlay(WholeWords(payload)) ELSE base
<1>1. ASSUME FrameInv, CobsDecode(seen) # None PROVE imem = loaded
  <2>1. PICK ws : Received(seen, rx, ws) /\ Stored(imem, addr, full, base, rx, ws)
    BY <1>1 DEF FrameInv
  <2>2. ~Malformed(rx.dec) /\ rx \in Rxs /\ ws \in Seq(Words)
    BY <1>1, <2>1, FrameEnds
  <2>3. CASE ~rx.haveOp
    <3>1. content = rx.held /\ rx.held \in Optional(WireByte)
      BY <2>1, <2>2, <2>3, FrameEnds DEF Some
    <3>2. Len(rx.held) <= 1
      BY <3>1, AtMostOne
    <3> HIDE DEF content, payload
    <3>3. ~(Len(content) > 1)
      BY <3>1, <3>2
    <3> QED
      BY <3>3, <2>1, <2>3 DEF Stored
  <2>4. CASE rx.haveOp
    <3> DEFINE op == rx.opcode
               p == Payload(rx, ws)
               h == rx.held[1]
    <3>1. /\ op \in WireByte /\ p \in Seq(WireByte) /\ h \in WireByte
          /\ CobsDecode(seen) = Some((<<op>> \o p) \o <<h>>)
      BY <2>1, <2>2, <2>4, FrameEnds DEF Rxs
    <3>2. WholeWords(p) = ws
      <4> DEFINE a == rx.acc
      <4>1. a \in Seq(WireByte) /\ Len(a) < WordBytes /\ p = BytesOf(ws) \o a
        BY <2>2, PartialIs DEF Rxs, Payload
      <4> HIDE DEF a, p
      <4> QED
        BY <4>1, <2>2, WordsAgain
    <3> HIDE DEF op, p, h
    <3>3. content = (<<op>> \o p) \o <<h>>
      BY <3>1 DEF Some
    <3>4. Len(content) > 1 /\ Head(content) = op /\ payload = p
      <4> DEFINE c == (<<op>> \o p) \o <<h>>
      <4>1. Len(c) > 1 /\ Head(c) = op /\ SubSeq(c, 2, Len(c) - 1) = p
        BY <3>1, Apart
      <4>2. content = c
        BY <3>3
      <4> HIDE DEF c, content
      <4> QED
        BY <4>1, <4>2
    <3> HIDE DEF content, payload
    <3>5. Overlay(ws) = Overlaid(ws, base)
      BY DEF Overlay, Overlaid
    <3>6. loaded = IF op = LOAD THEN Overlaid(ws, base) ELSE base
      BY <3>2, <3>4, <3>5
    <3> QED
      BY <3>6, <2>1, <2>4 DEF Stored, op
  <2> QED
    BY <2>3, <2>4
<1>2. (Typed /\ FrameInv) /\ [Next]_vars
        => [Delimiter /\ Len(seen) > 0 /\ CobsDecode(seen) # None => imem = loaded]_vars
  BY <1>1
<1>3. StoreFollowsFrame <=>
        [][Delimiter /\ Len(seen) > 0 /\ CobsDecode(seen) # None => imem = loaded]_vars
  BY DEF StoreFollowsFrame
<1> QED
  BY <1>2, <1>3, FrameAlways, PTL DEF Spec

-----------------------------------------------------------------------------
(* The drain.  What the encoder has taken so far, of the trace tr, with    *)
(* the generator of the bytes at d.                                        *)

Logical(tr, n) == <<DRAIN>> \o BytesOf(SubSeq(tr, 1, n))

\* The words all of whose bytes have been taken.
Position(tr, d) == IF d.term THEN Len(tr) - 1 ELSE d.cnt

WordPhases == {"DrFetch", "DrLatch", "DrWordByte"}
EndPhases == {"DrDrainOut", "DrDelim"}

Taken(tr, d) ==
    CASE d.at = "DrOpcode" -> <<>>
      [] d.at \in {"DrFetch", "DrLatch"} -> Logical(tr, Position(tr, d))
      [] d.at = "DrWordByte" -> Logical(tr, Position(tr, d)) \o SubSeq(d.word, 1, d.wIx)
      [] d.at = "DrCrcByte" -> Logical(tr, Len(tr))
      [] d.at \in EndPhases -> Append(Logical(tr, Len(tr)), Crc(Logical(tr, Len(tr))))

\* The generator's registers: it is at a word of the trace, and has the CRC of
\* what has been taken.
Generates(tr, d) ==
    /\ d.at \in WordPhases /\ ~d.term => d.cnt + 1 < Len(tr)
    /\ d.at = "DrWordByte" => d.word = tr[Position(tr, d) + 1]
    /\ d.at \notin EndPhases => d.crc = Crc(Taken(tr, d))

\* The encoder's, and what has been sent.
Sends(tr, d, o, e) ==
    /\ d.at # "DrDelim" => Encodes(Taken(tr, d), o, e) /\ (Ends(e) <=> d.at = "DrDrainOut")
    /\ d.at = "DrDelim" => o = CobsEncode(Taken(tr, d))

DrainInv ==
    phase = "Drain" /\ ringPtr > 0 =>
        /\ Generates(Trace, drain) /\ Sends(Trace, drain, sent, enc)
        /\ drain.at = "DrLatch" => ringData = Trace[Position(Trace, drain) + 1]

LEMMA TakenIs ==
    ASSUME NEW tr, NEW d
    PROVE  /\ d.at = "DrOpcode" => Taken(tr, d) = <<>>
           /\ d.at \in {"DrFetch", "DrLatch"} => Taken(tr, d) = Logical(tr, Position(tr, d))
           /\ d.at = "DrWordByte" =>
                 Taken(tr, d) = Logical(tr, Position(tr, d)) \o SubSeq(d.word, 1, d.wIx)
           /\ d.at = "DrCrcByte" => Taken(tr, d) = Logical(tr, Len(tr))
           /\ d.at \in EndPhases =>
                 Taken(tr, d) = Append(Logical(tr, Len(tr)), Crc(Logical(tr, Len(tr))))
<1> DEFINE at == d.at
           whole == Logical(tr, Position(tr, d))
           partial == whole \o SubSeq(d.word, 1, d.wIx)
           all == Logical(tr, Len(tr))
           closed == Append(all, Crc(all))
<1>1. Taken(tr, d) =
        CASE at = "DrOpcode" -> <<>>
          [] at \in {"DrFetch", "DrLatch"} -> whole
          [] at = "DrWordByte" -> partial
          [] at = "DrCrcByte" -> all
          [] at \in {"DrDrainOut", "DrDelim"} -> closed
  BY DEF Taken, EndPhases
<1> HIDE DEF at, whole, partial, all, closed
<1>2. /\ at = "DrOpcode" => Taken(tr, d) = <<>>
      /\ at \in {"DrFetch", "DrLatch"} => Taken(tr, d) = whole
      /\ at = "DrWordByte" => Taken(tr, d) = partial
      /\ at = "DrCrcByte" => Taken(tr, d) = all
      /\ at \in {"DrDrainOut", "DrDelim"} => Taken(tr, d) = closed
  BY <1>1
<1> QED
  BY <1>2 DEF at, whole, partial, all, closed, EndPhases

\* The trace is the record words and the terminator.
LEMMA TraceIs ==
    ASSUME Typed, ringPtr > 0
    PROVE  /\ Trace \in Seq(Words) /\ Len(Trace) = ringPtr + 1 /\ ringPtr \in Nat
           /\ \A k \in 1..ringPtr : Trace[k] = ring[k-1]
           /\ Trace[ringPtr + 1] = ring[TermAddr]
<1> DEFINE recs == [k \in 1..ringPtr |-> ring[k-1]]
           last == <<ring[TermAddr]>>
<1>1. /\ ringPtr \in 0..TermAddr /\ TermAddr \in Nat /\ ringPtr \in Nat
      /\ ring \in [0..TermAddr -> Words]
  BY RingFacts DEF Typed, TypedRing
<1>2. ring[TermAddr] \in Words /\ \A k \in 1..ringPtr : ring[k-1] \in Words
  <2>1. TermAddr \in 0..TermAddr /\ \A k \in 1..ringPtr : k - 1 \in 0..TermAddr
    BY <1>1
  <2> QED
    BY <2>1, <1>1
<1>3. recs \in Seq(Words) /\ Len(recs) = ringPtr
  BY <1>1, <1>2
<1>4. last \in Seq(Words) /\ Len(last) = 1 /\ last[1] = ring[TermAddr]
  BY <1>2
<1>5. \A k \in 1..ringPtr : recs[k] = ring[k-1]
  OBVIOUS
<1>6. Trace = recs \o last
  BY DEF Trace
<1> HIDE DEF recs, last
<1>7. /\ Trace \in Seq(Words) /\ Len(Trace) = ringPtr + 1
      /\ \A i \in 1..ringPtr + 1 : Trace[i] = IF i <= ringPtr THEN recs[i] ELSE last[i - ringPtr]
  <2>1. /\ recs \o last \in Seq(Words) /\ Len(recs \o last) = Len(recs) + Len(last)
        /\ \A i \in 1..Len(recs) + Len(last) :
              (recs \o last)[i] = IF i <= Len(recs) THEN recs[i] ELSE last[i - Len(recs)]
    BY <1>3, <1>4, ConcatProperties
  <2> QED
    BY <2>1, <1>3, <1>4, <1>6
<1>8. /\ \A k \in 1..ringPtr : k \in 1..ringPtr + 1 /\ k <= ringPtr
      /\ ringPtr + 1 \in 1..ringPtr + 1 /\ ~(ringPtr + 1 <= ringPtr) /\ (ringPtr + 1) - ringPtr = 1
  BY <1>1
<1> QED
  BY <1>1, <1>4, <1>5, <1>7, <1>8

\* One more word.
LEMMA LogicalIs ==
    ASSUME NEW tr \in Seq(Words)
    PROVE  /\ Logical(tr, 0) = <<DRAIN>>
           /\ \A n \in 0..Len(tr) : Logical(tr, n) \in Seq(WireByte)
           /\ \A n \in 0..Len(tr) : n < Len(tr) =>
                 tr[n+1] \in Words /\ Logical(tr, n) \o tr[n+1] = Logical(tr, n + 1)
           /\ Logical(tr, Len(tr)) = <<DRAIN>> \o BytesOf(tr)
<1>0. /\ Len(tr) \in Nat /\ DRAIN \in WireByte /\ <<DRAIN>> \in Seq(WireByte)
      /\ \A i \in 1..Len(tr) : tr[i] \in Words
  BY LenProperties, WireAssumption, ElementOfSeq
<1>1. Logical(tr, 0) = <<DRAIN>>
  <2>1. SubSeq(tr, 1, 0) = <<>>
    BY SubSeqEmpty
  <2>2. <<DRAIN>> \o <<>> = <<DRAIN>>
    BY <1>0, ByteSeqs
  <2> QED
    BY <2>1, <2>2, BytesOfIs DEF Logical
<1>2. ASSUME NEW n \in 0..Len(tr) PROVE SubSeq(tr, 1, n) \in Seq(Words)
  <2>1. n \in Int /\ 1 \in Int /\ \A i \in 1..n : tr[i] \in Words
    BY <1>0
  <2> QED
    BY <2>1, SubSeqProperties
<1>3. ASSUME NEW n \in 0..Len(tr) PROVE Logical(tr, n) \in Seq(WireByte)
  <2> DEFINE bs == BytesOf(SubSeq(tr, 1, n))
             op == <<DRAIN>>
  <2>1. bs \in Seq(WireByte) /\ op \in Seq(WireByte)
    BY <1>0, <1>2, BytesOfIs
  <2> HIDE DEF bs, op
  <2>2. op \o bs \in Seq(WireByte)
    BY <2>1, Joined, Zenon
  <2> QED
    BY <2>2 DEF Logical, bs, op
<1>4. ASSUME NEW n \in 0..Len(tr), n < Len(tr)
      PROVE  tr[n+1] \in Words /\ Logical(tr, n) \o tr[n+1] = Logical(tr, n + 1)
  <2> DEFINE s == SubSeq(tr, 1, n)
             w == tr[n+1]
             op == <<DRAIN>>
             bs == BytesOf(s)
  <2>1. s \in Seq(Words) /\ w \in Words /\ w \in Seq(WireByte) /\ bs \in Seq(WireByte)
        /\ op \in Seq(WireByte)
    <3>1. n + 1 \in 1..Len(tr)
      BY <1>0, <1>4
    <3>2. s \in Seq(Words) /\ w \in Words /\ op \in Seq(WireByte)
      BY <3>1, <1>0, <1>2
    <3> HIDE DEF s, w, op
    <3> QED
      BY <3>2, BytesOfIs, WordFacts
  <2>2. SubSeq(tr, 1, n + 1) = Append(s, w)
    <3>1. n + 1 \in 1..Len(tr) /\ 1 \in 1..Len(tr) /\ (n + 1) - 1 = n
      BY <1>0, <1>4
    <3>2. SubSeq(tr, 1, n + 1) = SubSeq(tr, 1, (n + 1) - 1) \o <<tr[n+1]>>
      BY <3>1, SubSeqRecursiveSecond
    <3>3. s \o <<w>> = Append(s, w)
      BY <2>1, AppendIsConcat
    <3> QED
      BY <3>1, <3>2, <3>3
  <2> HIDE DEF s, w
  <2>3. BytesOf(Append(s, w)) = bs \o w
    BY <2>1, BytesOfIs
  <2> HIDE DEF op, bs
  <2>4. (op \o bs) \o w = op \o (bs \o w)
    BY <2>1, Regroup, Zenon
  <2> QED
    BY <2>1, <2>2, <2>3, <2>4 DEF Logical, op, bs, s, w
<1>5. Logical(tr, Len(tr)) = <<DRAIN>> \o BytesOf(tr)
  BY SubSeqFull DEF Logical
<1> QED
  BY <1>1, <1>3, <1>4, <1>5

\* One clock of the encoder, before the last byte has been taken.
LEMMA EncoderOn ==
    ASSUME NEW T, Encodes(T, sent, enc), ~Ends(enc), NEW in, NEW ready, Ticks(in, ready)
    PROVE  LET took == EncodeStep(enc, in, ready).took /\ in # None
           IN  /\ took => /\ Encodes(Append(T, in[1].byte), sent', enc')
                          /\ Ends(enc') <=> in[1].last
               /\ ~took => Encodes(T, sent', enc') /\ ~Ends(enc')
<1> DEFINE r == EncodeStep(enc, in, ready)
<1>1. /\ in \in Optional(Inputs) /\ ready \in BOOLEAN /\ enc' = r.enc /\ sent' = sent \o r.out
  BY DEF Ticks
<1>2. Clocked(T, sent, enc, in, r)
  BY <1>1, EncodesClock
<1> HIDE DEF r
<1>3. ~r.done
  BY <1>2 DEF Clocked
<1>4. /\ r.took /\ in # None => /\ Encodes(Append(T, in[1].byte), sent', enc')
                                /\ Ends(enc') <=> in[1].last
      /\ ~(r.took /\ in # None) => Encodes(T, sent', enc') /\ ~Ends(enc')
  BY <1>1, <1>2, <1>3 DEF Clocked
<1> QED
  BY <1>4 DEF r

\* And behind it: the encoder takes nothing more, and is done at the end.
LEMMA EncoderOut ==
    ASSUME NEW T, Encodes(T, sent, enc), Ends(enc), NEW ready, Ticks(None, ready)
    PROVE  LET done == EncodeStep(enc, None, ready).done
           IN  /\ done => sent' = CobsEncode(T)
               /\ ~done => Encodes(T, sent', enc') /\ Ends(enc')
<1> DEFINE r == EncodeStep(enc, None, ready)
<1>1. /\ None \in Optional(Inputs) /\ ready \in BOOLEAN /\ enc' = r.enc
      /\ sent' = sent \o r.out
  BY DEF Ticks
<1>2. Clocked(T, sent, enc, None, r)
  BY <1>1, EncodesClock
<1> HIDE DEF r
<1>3. /\ r.done => sent' = CobsEncode(T)
      /\ ~r.done => Encodes(T, sent', enc') /\ Ends(enc')
  BY <1>1, <1>2 DEF Clocked
<1> QED
  BY <1>3 DEF r

\* A byte of the word: what has been taken grows by it, and the generator
\* stands where it should.
LEMMA WordByteTaken ==
    ASSUME Typed, NEW tr \in Seq(Words), Len(tr) = ringPtr + 1, ringPtr > 0,
           Generates(tr, drain), drain.at = "DrWordByte",
           NEW b, b = drain.word[drain.wIx + 1],
           NEW d, d = [drain EXCEPT !.crc = CrcUpdate[<<@, b>>]],
           NEW n, n = AfterWordByte(d)
    PROVE  /\ n.at \in {"DrFetch", "DrWordByte", "DrCrcByte"}
           /\ Taken(tr, n) = Append(Taken(tr, drain), b) /\ Generates(tr, n)
<1> DEFINE pos == Position(tr, drain)
           w == drain.word
           i == drain.wIx
           L == Logical(tr, pos)
           front == SubSeq(w, 1, i)
           T == Taken(tr, drain)
<1>1. /\ drain \in Drains /\ ringPtr \in Nat /\ WordBytes \in Nat /\ WordBytes >= 1
  BY WireAssumption, RingFacts DEF Typed, TypedDrain, TypedRing
<1>2. /\ w \in Words /\ i \in 0..WordBytes - 1 /\ drain.crc \in WireByte
      /\ drain.cnt \in Nat /\ drain.term \in BOOLEAN
  BY <1>1, RingFacts DEF Drains
<1>3. b \in WireByte /\ CrcUpdate[<<drain.crc, b>>] \in WireByte
  <2>1. b \in WireByte
    BY <1>1, WordByteIs
  <2> QED
    BY <2>1, <1>2, WireAssumption
<1>4. pos \in 0..Len(tr) /\ pos < Len(tr) /\ w = tr[pos+1]
  <2>1. w = tr[pos+1] /\ (~drain.term => drain.cnt + 1 < Len(tr))
    BY DEF Generates, WordPhases
  <2> QED
    BY <2>1, <1>1, <1>2 DEF Position
<1>5. /\ d \in Drains /\ d.at = drain.at /\ d.word = w /\ d.wIx = i /\ d.cnt = drain.cnt
      /\ d.term = drain.term /\ d.crc = CrcUpdate[<<drain.crc, b>>]
  BY <1>1, <1>3 DEF Drains
<1>6. /\ L \in Seq(WireByte) /\ L \o w = Logical(tr, pos + 1) /\ w \in Seq(WireByte)
      /\ Len(w) = WordBytes
  BY <1>2, <1>4, LogicalIs, WordFacts
<1>7. front \in Seq(WireByte) /\ SubSeq(w, 1, i + 1) = front \o <<b>>
  <2>1. i + 1 \in 1..Len(w) /\ 1 \in 1..Len(w) /\ i \in Int /\ 1 \in Int /\ (i + 1) - 1 = i
        /\ \A k \in 1..i : k \in 1..Len(w)
    <3>1. i \in Nat /\ i < Len(w) /\ Len(w) \in Nat
      BY <1>1, <1>2, <1>6
    <3> HIDE DEF i, w
    <3> QED
      BY <3>1
  <2>2. \A k \in 1..i : w[k] \in WireByte
    BY <2>1, <1>6, ElementOfSeq
  <2>3. front \in Seq(WireByte)
    <3> HIDE DEF w, i
    <3> QED
      BY <2>1, <2>2, SubSeqProperties
  <2>4. SubSeq(w, 1, i + 1) = SubSeq(w, 1, (i + 1) - 1) \o <<w[i+1]>>
    <3> DEFINE j == i + 1
    <3>1. j \in 1..Len(w)
      BY <2>1
    <3> HIDE DEF j
    <3>2. SubSeq(w, 1, j) = SubSeq(w, 1, j - 1) \o <<w[j]>>
      <4> HIDE DEF w
      <4> QED
        BY <3>1, <2>1, <1>6, SubSeqRecursiveSecond
    <3> QED
      BY <3>2 DEF j
  <2> QED
    BY <2>1, <2>3, <2>4
<1>8. T = L \o front /\ T \in Seq(WireByte) /\ Append(T, b) = L \o SubSeq(w, 1, i + 1)
  <2>1. T = L \o front
    BY TakenIs
  <2> HIDE DEF T, L, front
  <2>2. T \in Seq(WireByte)
    BY <2>1, <1>6, <1>7, Joined, Zenon
  <2> DEFINE one == <<b>>
  <2>3. one \in Seq(WireByte) /\ Append(T, b) = T \o one
    BY <2>2, <1>3, ByteSeqs
  <2>4. SubSeq(w, 1, i + 1) = front \o one
    BY <1>7
  <2> HIDE DEF one
  <2>5. (L \o front) \o one = L \o (front \o one)
    BY <2>3, <1>6, <1>7, Regroup, Zenon
  <2> QED
    BY <2>1, <2>2, <2>3, <2>4, <2>5
<1>9. CrcUpdate[<<drain.crc, b>>] = Crc(Append(T, b))
  <2>1. drain.crc = Crc(T)
    BY DEF Generates, EndPhases
  <2> HIDE DEF T
  <2> QED
    BY <2>1, <1>3, <1>8, CrcOf
<1>10. i = WordBytes - 1 => Append(T, b) = Logical(tr, pos + 1)
  <2> HAVE i = WordBytes - 1
  <2>1. i + 1 = Len(w)
    BY <1>1, <1>2, <1>6
  <2>2. SubSeq(w, 1, Len(w)) = w
    BY <1>6, SubSeqFull
  <2> QED
    BY <2>1, <2>2, <1>6, <1>8
<1> DEFINE U == Append(T, b)
<1> HIDE DEF U, T, L, front
<1>11. CASE i # WordBytes - 1
  <2>1. n = [d EXCEPT !.wIx = @ + 1]
    BY <1>5, <1>11, AfterWordByteIs
  <2>2. /\ n.at = "DrWordByte" /\ n.word = w /\ n.wIx = i + 1 /\ n.cnt = drain.cnt
        /\ n.term = drain.term /\ n.crc = CrcUpdate[<<drain.crc, b>>]
    BY <2>1, <1>5 DEF Drains
  <2>3. Position(tr, n) = pos
    BY <2>2 DEF Position
  <2>4. Taken(tr, n) = U
    BY <2>2, <2>3, <1>8, TakenIs DEF U, L
  <2>5. Generates(tr, n)
    BY <2>2, <2>3, <2>4, <1>4, <1>9 DEF Generates, WordPhases, EndPhases, U
  <2> QED
    BY <2>2, <2>4, <2>5 DEF U, T
<1>12. CASE i = WordBytes - 1 /\ drain.term
  <2>1. n = [d EXCEPT !.at = "DrCrcByte"]
    BY <1>5, <1>12, AfterWordByteIs
  <2>2. n.at = "DrCrcByte" /\ n.crc = CrcUpdate[<<drain.crc, b>>]
    BY <2>1, <1>5 DEF Drains
  <2>3. pos + 1 = Len(tr)
    BY <1>1, <1>12 DEF Position
  <2>4. Taken(tr, n) = U
    BY <2>2, <2>3, <1>10, <1>12, TakenIs DEF U
  <2>5. Generates(tr, n)
    BY <2>2, <2>4, <1>9 DEF Generates, WordPhases, EndPhases, U
  <2> QED
    BY <2>2, <2>4, <2>5 DEF U, T
<1>13. CASE i = WordBytes - 1 /\ ~drain.term /\ LastRecordWord
  <2>1. n = [d EXCEPT !.term = TRUE, !.at = "DrFetch"]
    BY <1>5, <1>13, AfterWordByteIs
  <2>2. n.at = "DrFetch" /\ n.term = TRUE /\ n.crc = CrcUpdate[<<drain.crc, b>>]
    BY <2>1, <1>5 DEF Drains
  <2>3. pos + 1 = Len(tr) - 1
    <3>1. drain.cnt + 1 < Len(tr) /\ drain.cnt + 1 >= ringPtr /\ pos = drain.cnt
      BY <1>13 DEF Generates, WordPhases, LastRecordWord, Position
    <3> HIDE DEF pos
    <3> QED
      BY <3>1, <1>1, <1>2
  <2>4. Position(tr, n) = pos + 1
    BY <2>2, <2>3 DEF Position
  <2>5. Taken(tr, n) = U
    BY <2>2, <2>4, <1>10, <1>13, TakenIs DEF U
  <2>6. Generates(tr, n)
    BY <2>2, <2>5, <1>9 DEF Generates, WordPhases, EndPhases, U
  <2> QED
    BY <2>2, <2>5, <2>6 DEF U, T
<1>14. CASE i = WordBytes - 1 /\ ~drain.term /\ ~LastRecordWord
  <2>1. n = [d EXCEPT !.cnt = @ + 1, !.at = "DrFetch"]
    BY <1>5, <1>14, AfterWordByteIs
  <2>2. /\ n.at = "DrFetch" /\ n.term = drain.term /\ n.cnt = drain.cnt + 1
        /\ n.crc = CrcUpdate[<<drain.crc, b>>]
    BY <2>1, <1>5 DEF Drains
  <2>3. n.cnt + 1 < Len(tr)
    BY <2>2, <1>1, <1>2, <1>14 DEF LastRecordWord
  <2>4. Position(tr, n) = pos + 1
    BY <2>2, <1>14 DEF Position
  <2>5. Taken(tr, n) = U
    BY <2>2, <2>4, <1>10, <1>14, TakenIs DEF U
  <2>6. Generates(tr, n)
    BY <2>2, <2>3, <2>5, <1>9 DEF Generates, WordPhases, EndPhases, U
  <2> QED
    BY <2>2, <2>5, <2>6 DEF U, T
<1> QED
  BY <1>11, <1>12, <1>13, <1>14

\* What is taken is a string of bytes, unless the generator is within a word.
LEMMA TakenType ==
    ASSUME NEW tr \in Seq(Words), NEW d, d.at = "DrCrcByte"
    PROVE  /\ Taken(tr, d) = Logical(tr, Len(tr)) /\ Taken(tr, d) \in Seq(WireByte)
<1>1. Len(tr) \in 0..Len(tr)
  BY LenProperties
<1> QED
  BY <1>1, TakenIs, LogicalIs

\* One clock of a drain keeps the encoder and the generator in step.
LEMMA DrainTick ==
    ASSUME Typed, DrainInv, ringPtr > 0, NEW ready \in BOOLEAN, phase = "Drain",
           Draining(ready), ~SendDelimiter
    PROVE  DrainInv'
<1> DEFINE tr == Trace
           T == Taken(tr, drain)
<1>1. /\ tr \in Seq(Words) /\ Len(tr) = ringPtr + 1 /\ ringPtr \in Nat
      /\ \A k \in 1..ringPtr : tr[k] = ring[k-1]
      /\ tr[ringPtr + 1] = ring[TermAddr]
  BY TraceIs
<1>2. /\ drain \in Drains /\ drain.cnt \in Nat /\ drain.term \in BOOLEAN
  BY RingFacts DEF Typed, TypedDrain, Drains
<1>3. /\ Generates(tr, drain) /\ Sends(tr, drain, sent, enc)
      /\ drain.at = "DrLatch" => ringData = tr[Position(tr, drain) + 1]
  BY DEF DrainInv
<1>4. ASSUME NEW in, Ticks(in, ready)
      PROVE  Trace' = tr /\ ringPtr' = ringPtr /\ phase' = "Drain"
  BY <1>4 DEF Ticks, outside, Trace
<1> HIDE DEF tr, T
<1>5. ASSUME Trace' = tr, Generates(tr, drain'), Sends(tr, drain', sent', enc'),
             drain'.at = "DrLatch" => ringData' = tr[Position(tr, drain') + 1]
      PROVE  DrainInv'
  BY <1>5 DEF DrainInv
<1>6. ASSUME drain.at \notin EndPhases
      PROVE  Encodes(T, sent, enc) /\ ~Ends(enc)
  BY <1>3, <1>6 DEF Sends, EndPhases, T
<1>7. ASSUME NEW in, Ticks(in, ready), drain.at \notin EndPhases, drain.at # "DrLatch",
             drain' = drain, Encodes(T, sent', enc') /\ ~Ends(enc')
      PROVE  DrainInv'
  <2>1. Sends(tr, drain', sent', enc')
    BY <1>7 DEF Sends, EndPhases, T
  <2> QED
    BY <2>1, <1>3, <1>4, <1>5, <1>7
<1>8. CASE SendOpcode(ready)
  <2> DEFINE in == Offer(DRAIN, FALSE)
             took == EncodeStep(enc, in, ready).took
  <2>1. Ticks(in, ready) /\ drain.at = "DrOpcode"
    BY <1>8, SendOpcodeTicks
  <2>2. in # None /\ in[1].byte = DRAIN /\ in[1].last = FALSE
    <3>1. DRAIN \in WireByte
      BY WireAssumption
    <3> QED
      BY <3>1, OfferIs
  <2>3. drain' = IF took THEN [drain EXCEPT !.at = "DrFetch", !.cnt = 0, !.term = FALSE,
                                            !.crc = CrcUpdate[<<@, DRAIN>>]]
                 ELSE drain
    BY <1>8, SendOpcodeTicks
  <2>4. drain.at \notin EndPhases /\ drain.at # "DrLatch"
    BY <2>1 DEF EndPhases
  <2> HIDE DEF in
  <2>5. /\ took => Encodes(Append(T, DRAIN), sent', enc') /\ ~Ends(enc')
        /\ ~took => Encodes(T, sent', enc') /\ ~Ends(enc')
    BY <2>1, <2>2, <2>4, <1>6, EncoderOn
  <2> HIDE DEF took
  <2>6. CASE ~took
    BY <2>1, <2>3, <2>4, <2>5, <2>6, <1>7
  <2>7. CASE took
    <3>1. /\ drain'.at = "DrFetch" /\ drain'.cnt = 0 /\ drain'.term = FALSE
          /\ drain'.crc = CrcUpdate[<<drain.crc, DRAIN>>]
      BY <2>3, <2>7, <1>2 DEF Drains
    <3>2. T = <<>> /\ Append(T, DRAIN) = <<DRAIN>> /\ drain.crc = Crc(T)
      <4>1. T = <<>> /\ drain.crc = Crc(T)
        BY <2>1, <2>4, <1>3, TakenIs DEF T, Generates
      <4> QED
        BY <4>1
    <3>3. Taken(tr, drain') = Append(T, DRAIN)
      <4>1. Position(tr, drain') = 0
        BY <3>1 DEF Position
      <4> QED
        BY <4>1, <3>1, <3>2, <1>1, TakenIs, LogicalIs
    <3>4. drain'.crc = Crc(Append(T, DRAIN))
      <4>1. <<>> \in Seq(WireByte) /\ DRAIN \in WireByte
        BY WireAssumption
      <4> QED
        BY <4>1, <3>1, <3>2, CrcOf
    <3>5. Generates(tr, drain')
      <4>1. drain'.cnt + 1 < Len(tr)
        BY <3>1, <1>1
      <4> QED
        BY <4>1, <3>1, <3>3, <3>4 DEF Generates
    <3>6. Sends(tr, drain', sent', enc')
      BY <3>1, <3>3, <2>5, <2>7 DEF Sends
    <3> QED
      BY <3>1, <3>5, <3>6, <2>1, <1>4, <1>5
  <2> QED
    BY <2>6, <2>7
<1>9. CASE FetchWord(ready)
  <2>1. Ticks(None, ready) /\ drain.at \in {"DrFetch", "DrLatch"}
    BY <1>9, FetchWordTicks
  <2>2. Encodes(T, sent', enc') /\ ~Ends(enc')
    <3>1. drain.at \notin EndPhases
      BY <2>1 DEF EndPhases
    <3> QED
      BY <3>1, <2>1, <1>6, EncoderOn
  <2>3. T = Logical(tr, Position(tr, drain)) /\ drain.crc = Crc(T)
    BY <2>1, <1>3, TakenIs DEF Generates, EndPhases, T
  <2>4. tr[Position(tr, drain) + 1] = ring[FetchAddress]
    <3>1. CASE drain.term
      <4>1. Position(tr, drain) + 1 = ringPtr + 1
        BY <3>1, <1>1 DEF Position
      <4> QED
        BY <4>1, <3>1, <1>1 DEF FetchAddress
    <3>2. CASE ~drain.term
      <4>1. drain.cnt + 1 < Len(tr)
        BY <3>2, <2>1, <1>3 DEF Generates, WordPhases
      <4>2. drain.cnt + 1 \in 1..ringPtr /\ (drain.cnt + 1) - 1 = drain.cnt
        BY <4>1, <1>1, <1>2
      <4> QED
        BY <4>2, <3>2, <1>1 DEF FetchAddress, Position
    <3> QED
      BY <3>1, <3>2
  <2>5. CASE drain.at = "DrFetch"
    <3>1. drain' = [drain EXCEPT !.at = "DrLatch"]
      BY <1>9, <2>5, FetchWordTicks
    <3>2. /\ drain'.at = "DrLatch" /\ drain'.cnt = drain.cnt /\ drain'.term = drain.term
          /\ drain'.crc = drain.crc /\ Position(tr, drain') = Position(tr, drain)
      BY <3>1, <1>2 DEF Drains, Position
    <3>3. Taken(tr, drain') = T
      BY <3>2, <2>3, TakenIs
    <3>4. ringData' = tr[Position(tr, drain') + 1]
      BY <3>2, <2>1, <2>4, <2>5 DEF Ticks, Presented
    <3>5. Generates(tr, drain')
      BY <3>2, <3>3, <2>3, <2>5, <1>3 DEF Generates, WordPhases
    <3>6. Sends(tr, drain', sent', enc')
      BY <3>2, <3>3, <2>2 DEF Sends
    <3> QED
      BY <3>4, <3>5, <3>6, <2>1, <1>4, <1>5
  <2>6. CASE drain.at = "DrLatch"
    <3>1. drain' = [drain EXCEPT !.at = "DrWordByte", !.word = ringData, !.wIx = 0]
      BY <1>9, <2>6, FetchWordTicks
    <3>2. /\ drain'.at = "DrWordByte" /\ drain'.cnt = drain.cnt /\ drain'.term = drain.term
          /\ drain'.crc = drain.crc /\ Position(tr, drain') = Position(tr, drain)
          /\ drain'.word = ringData /\ drain'.wIx = 0
      BY <3>1, <1>2 DEF Drains, Position
    <3>3. Taken(tr, drain') = T
      <4>1. SubSeq(drain'.word, 1, 0) = <<>>
        BY SubSeqEmpty
      <4>2. T \in Seq(WireByte) /\ T \o <<>> = T
        <5>1. T \in Seq(WireByte)
          BY <2>2 DEF Encodes
        <5> QED
          BY <5>1, ByteSeqs
      <4> QED
        BY <4>1, <4>2, <3>2, <2>3, TakenIs
    <3>4. Generates(tr, drain')
      BY <3>2, <3>3, <2>3, <2>6, <1>3 DEF Generates, WordPhases
    <3>5. Sends(tr, drain', sent', enc')
      BY <3>2, <3>3, <2>2 DEF Sends
    <3> QED
      BY <3>2, <3>4, <3>5, <2>1, <1>4, <1>5
  <2> QED
    BY <2>1, <2>5, <2>6
<1>10. CASE SendWordByte(ready)
  <2> DEFINE b == drain.word[drain.wIx + 1]
             in == Offer(b, FALSE)
             took == EncodeStep(enc, in, ready).took
             d == [drain EXCEPT !.crc = CrcUpdate[<<@, b>>]]
             n == AfterWordByte(d)
  <2>1. Ticks(in, ready) /\ drain.at = "DrWordByte" /\ b \in WireByte
    BY <1>10, SendWordByteTicks
  <2>2. in # None /\ in[1].byte = b /\ in[1].last = FALSE
    <3> HIDE DEF b
    <3> QED
      BY <2>1, OfferIs
  <2>3. drain' = IF took THEN n ELSE drain
    BY <1>10, SendWordByteTicks
  <2>4. drain.at \notin EndPhases /\ drain.at # "DrLatch"
    BY <2>1 DEF EndPhases
  <2>5. /\ n.at \in {"DrFetch", "DrWordByte", "DrCrcByte"}
        /\ Taken(tr, n) = Append(T, b) /\ Generates(tr, n)
    <3>1. b = drain.word[drain.wIx + 1] /\ d = [drain EXCEPT !.crc = CrcUpdate[<<@, b>>]]
          /\ n = AfterWordByte(d)
      OBVIOUS
    <3> HIDE DEF b, d, n
    <3> QED
      BY <3>1, <2>1, <1>1, <1>3, WordByteTaken DEF T
  <2> HIDE DEF in, n, b
  <2>6. /\ took => Encodes(Append(T, b), sent', enc') /\ ~Ends(enc')
        /\ ~took => Encodes(T, sent', enc') /\ ~Ends(enc')
    BY <2>1, <2>2, <2>4, <1>6, EncoderOn
  <2> HIDE DEF took
  <2>7. CASE ~took
    BY <2>1, <2>3, <2>4, <2>6, <2>7, <1>7
  <2>8. CASE took
    <3>1. drain' = n
      BY <2>3, <2>8
    <3>2. Sends(tr, n, sent', enc')
      BY <2>5, <2>6, <2>8 DEF Sends
    <3> QED
      BY <3>1, <3>2, <2>1, <2>5, <1>4, <1>5
  <2> QED
    BY <2>7, <2>8
<1>11. CASE SendCrc(ready)
  <2> DEFINE c == drain.crc
             in == Offer(c, TRUE)
             took == EncodeStep(enc, in, ready).took
  <2>1. Ticks(in, ready) /\ drain.at = "DrCrcByte"
    BY <1>11, SendCrcTicks
  <2>2. in # None /\ in[1].byte = c /\ in[1].last = TRUE
    <3>1. c \in WireByte
      BY <1>2 DEF Drains
    <3> HIDE DEF c
    <3> QED
      BY <3>1, OfferIs
  <2>3. drain' = IF took THEN [drain EXCEPT !.at = "DrDrainOut"] ELSE drain
    BY <1>11, SendCrcTicks
  <2>4. drain.at \notin EndPhases /\ drain.at # "DrLatch"
    BY <2>1 DEF EndPhases
  <2>5. T = Logical(tr, Len(tr)) /\ c = Crc(T)
    BY <2>1, <2>4, <1>3, TakenIs DEF T, Generates
  <2> HIDE DEF in, c
  <2>6. /\ took => Encodes(Append(T, c), sent', enc') /\ Ends(enc')
        /\ ~took => Encodes(T, sent', enc') /\ ~Ends(enc')
    BY <2>1, <2>2, <2>4, <1>6, EncoderOn
  <2> HIDE DEF took
  <2>7. CASE ~took
    BY <2>1, <2>3, <2>4, <2>6, <2>7, <1>7
  <2>8. CASE took
    <3>1. drain'.at = "DrDrainOut"
      BY <2>3, <2>8, <1>2 DEF Drains
    <3>2. Taken(tr, drain') = Append(T, c)
      BY <3>1, <2>5, TakenIs DEF EndPhases
    <3>3. Generates(tr, drain')
      BY <3>1 DEF Generates, WordPhases, EndPhases
    <3>4. Sends(tr, drain', sent', enc')
      BY <3>1, <3>2, <2>6, <2>8 DEF Sends
    <3> QED
      BY <3>1, <3>3, <3>4, <2>1, <1>4, <1>5
  <2> QED
    BY <2>7, <2>8
<1>12. CASE DrainOut(ready)
  <2> DEFINE done == EncodeStep(enc, None, ready).done
  <2>1. Ticks(None, ready) /\ drain.at = "DrDrainOut"
    BY <1>12, DrainOutTicks
  <2>2. drain' = IF done THEN [drain EXCEPT !.at = "DrDelim"] ELSE drain
    BY <1>12, DrainOutTicks
  <2>3. Encodes(T, sent, enc) /\ Ends(enc)
    BY <2>1, <1>3 DEF Sends, T
  <2>4. /\ done => sent' = CobsEncode(T)
        /\ ~done => Encodes(T, sent', enc') /\ Ends(enc')
    BY <2>1, <2>3, EncoderOut
  <2> HIDE DEF done
  <2>5. drain'.at = IF done THEN "DrDelim" ELSE "DrDrainOut"
    BY <2>1, <2>2, <1>2 DEF Drains
  <2>6. Taken(tr, drain') = T
    BY <2>1, <2>5, TakenIs DEF EndPhases, T
  <2>7. Generates(tr, drain')
    BY <2>5 DEF Generates, WordPhases, EndPhases
  <2>8. Sends(tr, drain', sent', enc')
    BY <2>4, <2>5, <2>6 DEF Sends
  <2> QED
    BY <2>1, <2>5, <2>7, <2>8, <1>4, <1>5
<1> QED
  BY <1>8, <1>9, <1>10, <1>11, <1>12 DEF Draining

\* A drain begins with an empty encoder and nothing taken.
LEMMA DrainBegins == ASSUME Typed, BeginDrain PROVE DrainInv'
<1>1. drain \in Drains
  BY DEF Typed, TypedDrain
<1>2. drain'.at = "DrOpcode" /\ drain'.crc = 0 /\ enc' = InitEnc /\ sent' = <<>>
  BY <1>1 DEF BeginDrain, InitDrain, Drains
<1>3. Taken(Trace', drain') = <<>>
  BY <1>2, TakenIs
<1>4. Generates(Trace', drain')
  BY <1>2, <1>3, CrcOf DEF Generates, WordPhases
<1>5. Sends(Trace', drain', sent', enc')
  BY <1>2, <1>3, EncodesStart DEF Sends
<1> QED
  BY <1>2, <1>4, <1>5 DEF DrainInv

LEMMA DrainStep == Typed /\ DrainInv /\ [Next]_vars => DrainInv'
<1> SUFFICES ASSUME Typed, DrainInv, [Next]_vars PROVE DrainInv'
  OBVIOUS
<1>1. CASE UNCHANGED vars
  BY <1>1 DEF vars, DrainInv, Trace
<1>2. ASSUME phase' # "Drain" PROVE DrainInv'
  BY <1>2 DEF DrainInv
<1>3. ASSUME NEW b \in WireByte, Receive(b) PROVE DrainInv'
  BY <1>2, <1>3 DEF Receive
<1>4. CASE Delimiter
  BY <1>2, <1>4 DEF Delimiter
<1>5. CASE EngineHalts
  <2>1. phase' = "Run"
    BY <1>5 DEF EngineHalts, Typed
  <2> QED
    BY <2>1, <1>2
<1>6. CASE BeginDrain
  BY <1>6, DrainBegins
<1>7. ASSUME NEW ready \in BOOLEAN, Draining(ready) PROVE DrainInv'
  <2>1. CASE SendDelimiter
    BY <2>1, <1>2 DEF SendDelimiter
  <2>2. CASE ~SendDelimiter
    <3>1. PICK in : Ticks(in, ready)
      BY <1>7, <2>2, SendOpcodeTicks, FetchWordTicks, SendWordByteTicks, SendCrcTicks,
         DrainOutTicks DEF Draining
    <3>2. phase = "Drain" /\ ringPtr' = ringPtr /\ ringPtr \in Nat
      BY <3>1, RingFacts DEF Ticks, outside, Typed, TypedRing
    <3>3. CASE ringPtr > 0
      BY <3>2, <3>3, <1>7, <2>2, DrainTick
    <3>4. CASE ~(ringPtr > 0)
      BY <3>2, <3>4 DEF DrainInv
    <3> QED
      BY <3>3, <3>4
  <2> QED
    BY <2>1, <2>2
<1> QED
  BY <1>1, <1>3, <1>4, <1>5, <1>6, <1>7 DEF Next, Cycle

LEMMA DrainAlways == Spec => [](Typed /\ DrainInv)
<1>1. Init => Typed /\ DrainInv
  <2>1. Init => DrainInv
    BY DEF Init, DrainInv
  <2> QED
    BY <2>1, TypedInit
<1>2. (Typed /\ DrainInv) /\ [Next]_vars => (Typed /\ DrainInv)'
  BY TypedStep, DrainStep
<1> QED
  BY <1>1, <1>2, PTL DEF Spec

\* At the closing delimiter what was sent is the encoding of the whole trace.
LEMMA WholeTraceSent ==
    ASSUME Typed, DrainInv, SendDelimiter, ringPtr > 0
    PROVE  LET logical == <<DRAIN>> \o BytesOf(Trace)
           IN  /\ logical \in Seq(WireByte) /\ Crc(logical) \in WireByte
               /\ sent = CobsEncode(Append(logical, Crc(logical)))
<1> DEFINE tr == Trace
           logical == <<DRAIN>> \o BytesOf(tr)
<1>1. tr \in Seq(Words) /\ Len(tr) \in 0..Len(tr)
  BY TraceIs, LenProperties
<1>2. drain.at = "DrDelim" /\ sent = CobsEncode(Taken(tr, drain))
  BY DEF SendDelimiter, DrainInv, Sends
<1> HIDE DEF tr
<1>3. logical = Logical(tr, Len(tr)) /\ logical \in Seq(WireByte)
  BY <1>1, LogicalIs
<1>4. Taken(tr, drain) = Append(logical, Crc(logical))
  BY <1>2, <1>3, TakenIs DEF EndPhases
<1>5. Crc(logical) \in WireByte
  BY <1>3, CrcOf
<1> QED
  BY <1>2, <1>3, <1>4, <1>5 DEF tr

\* Whatever the transmitter's pace, a drain is the pure encoding of the trace the
\* engine left: every word once, in order, and none from a stale read (drainStep).
THEOREM SendsTheTrace == Spec => DrainIsTheTrace
<1> DEFINE Sent == phase = "Drain" /\ phase' = "RxControl" /\ ringPtr > 0
                     => Append(sent, 0) = EncodeResult(Trace)
<1>1. (Typed /\ DrainInv) /\ [Next]_vars => [Sent]_vars
  <2> SUFFICES ASSUME Typed, DrainInv, Next, phase = "Drain", phase' = "RxControl", ringPtr > 0
               PROVE  Append(sent, 0) = EncodeResult(Trace)
    OBVIOUS
  <2>1. SendDelimiter
    <3>1. ~Delimiter /\ ~EngineHalts /\ ~BeginDrain /\ \A b \in WireByte : ~Receive(b)
      BY DEF Delimiter, EngineHalts, BeginDrain, Receive
    <3>2. PICK ready \in BOOLEAN : Draining(ready)
      BY <3>1 DEF Next, Cycle
    <3>3. \A in : ~Ticks(in, ready)
      BY DEF Ticks
    <3> QED
      BY <3>2, <3>3, SendOpcodeTicks, FetchWordTicks, SendWordByteTicks, SendCrcTicks,
         DrainOutTicks DEF Draining
  <2> DEFINE logical == <<DRAIN>> \o BytesOf(Trace)
             code == CobsEncode(Append(logical, Crc(logical)))
  <2>2. /\ logical \in Seq(WireByte) /\ Crc(logical) \in WireByte /\ sent = code
    BY <2>1, WholeTraceSent
  <2>3. EncodeResult(Trace) = code \o <<0>>
    BY DEF EncodeResult, FrameEncode
  <2>4. code \in Seq(WireByte) /\ 0 \in WireByte
    <3>1. Append(logical, Crc(logical)) \in Seq(WireByte)
      <4> HIDE DEF logical
      <4> QED
        BY <2>2, AppendProperties
    <3>2. code \in Seq(NonZero)
      <4> HIDE DEF logical
      <4> QED
        BY <3>1, DecodesWhatItEncodes
    <3>3. 0 \in WireByte
      BY MaxGroupAssumption DEF WireByte, FullCode
    <3> HIDE DEF code
    <3> QED
      BY <3>2, <3>3, NonZeroBytes
  <2> HIDE DEF code
  <2>5. Append(code, 0) = code \o <<0>>
    BY <2>4, AppendIsConcat
  <2> QED
    BY <2>2, <2>3, <2>5
<1>2. DrainIsTheTrace <=> [][Sent]_vars
  BY DEF DrainIsTheTrace
<1> QED
  BY <1>1, <1>2, DrainAlways, PTL DEF Spec

\* And the trace can be had from it again: what the decoder of results makes of a
\* drain, its closing delimiter apart, is the trace (Wire.hs decodeResult).
THEOREM DrainsDecode ==
    Spec => [][SendDelimiter /\ ringPtr > 0 => DecodeResult(sent) = Some(Trace)]_vars
<1>1. ASSUME Typed, DrainInv, SendDelimiter, ringPtr > 0
      PROVE  DecodeResult(sent) = Some(Trace)
  <2> DEFINE p == BytesOf(Trace)
             logical == <<DRAIN>> \o p
             c == Crc(logical)
             code == CobsEncode(Append(logical, c))
  <2>1. logical \in Seq(WireByte) /\ c \in WireByte /\ sent = code
    BY <1>1, WholeTraceSent
  <2>2. /\ p \in Seq(WireByte) /\ DRAIN \in WireByte /\ Len(p) % WordBytes = 0
        /\ WholeWords(p) = Trace
    <3> DEFINE tr == Trace
               none == <<>>
    <3>1. tr \in Seq(Words) /\ none \in Seq(WireByte) /\ Len(none) = 0 /\ 0 < WordBytes
      BY <1>1, TraceIs, WireAssumption
    <3> HIDE DEF tr, none
    <3>2. /\ Len(BytesOf(tr) \o none) % WordBytes = 0
          /\ WholeWords(BytesOf(tr) \o none) = tr
      BY <3>1, WordsAgain
    <3>3. BytesOf(tr) \in Seq(WireByte)
      BY <3>1, BytesOfIs
    <3>4. BytesOf(tr) \o none = BytesOf(tr)
      BY <3>3, ByteSeqs DEF none
    <3> QED
      BY <3>2, <3>3, <3>4, WireAssumption DEF tr
  <2> HIDE DEF p
  <2>3. logical # <<>> /\ Head(logical) = DRAIN /\ Tail(logical) = p
    BY <2>1, <2>2, Apart
  <2>4. FrameDecode(sent) = Some(logical)
    <3>1. CobsDecode(code) = Some(Append(logical, c))
      <4>1. Append(logical, c) \in Seq(WireByte)
        <5> HIDE DEF logical, c
        <5> QED
          BY <2>1, AppendProperties
      <4> HIDE DEF logical, c
      <4> QED
        BY <4>1, DecodesWhatItEncodes
    <3>2. Append(logical, c) = logical \o <<c>>
      <4> HIDE DEF logical, c
      <4> QED
        BY <2>1, AppendIsConcat
    <3>3. CobsDecode(sent) = Some((<<DRAIN>> \o p) \o <<c>>)
      BY <3>1, <3>2, <2>1
    <3> HIDE DEF code
    <3>4. FrameDecode(sent) = IF Crc(<<DRAIN>> \o p) = c THEN Some(<<DRAIN>> \o p) ELSE None
      <4> HIDE DEF c
      <4> QED
        BY <3>3, <2>1, <2>2, FrameDecodeIs
    <3> QED
      BY <3>4
  <2> DEFINE f == FrameDecode(sent)
  <2> HIDE DEF logical
  <2>5. f # None /\ f # Some(<<>>) /\ f[1] = logical
    BY <2>3, <2>4 DEF None, Some
  <2> HIDE DEF f
  <2> QED
    BY <2>2, <2>3, <2>5 DEF DecodeResult, f
<1>2. (Typed /\ DrainInv) /\ [Next]_vars
        => [SendDelimiter /\ ringPtr > 0 => DecodeResult(sent) = Some(Trace)]_vars
  BY <1>1
<1> QED
  BY <1>2, DrainAlways, PTL DEF Spec

=============================================================================
