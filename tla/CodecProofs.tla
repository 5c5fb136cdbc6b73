----------------------------- MODULE CodecProofs -----------------------------
(***************************************************************************)
(* The codecs of Cobs.tla agree with each other and are inverse to each    *)
(* other, for sequences of any length and groups of any size.              *)
(***************************************************************************)
EXTENDS MCCodec, CobsLemmas

-----------------------------------------------------------------------------
(* The host's encoder, which closes a full group at once.                  *)

HostAccs == {a \in Accs : Len(a.grp) < MaxGroup}

\* The host's groups where the rig's are acc.
Eager(acc) == IF Len(acc.grp) = MaxGroup
              THEN [out |-> acc.out \o Group(acc.grp), grp |-> <<>>] ELSE acc

LEMMA SameAcc == \A x, y \in Accs : x.out = y.out /\ x.grp = y.grp => x = y
BY DEF Accs

LEMMA HostByteIs ==
    ASSUME NEW a \in HostAccs, NEW b \in WireByte, NEW isLast \in BOOLEAN
    PROVE  LET h == HostEncodeByte(a, b, isLast)
               g == Append(a.grp, b)
           IN  /\ h \in HostAccs
               /\ b = 0 => h.grp = <<>> /\ h.out = (a.out \o Group(a.grp))
                                                   \o (IF isLast THEN <<1>> ELSE <<>>)
               /\ b # 0 /\ (Len(g) = MaxGroup \/ isLast) =>
                     h.grp = <<>> /\ h.out = a.out \o Group(g)
               /\ b # 0 /\ ~(Len(g) = MaxGroup \/ isLast) => h.grp = g /\ h.out = a.out
<1> DEFINE h == HostEncodeByte(a, b, isLast)
           g == Append(a.grp, b)
           owed == IF isLast THEN <<1>> ELSE <<>>
           Said == /\ h \in HostAccs
                   /\ b = 0 => h.grp = <<>> /\ h.out = (a.out \o Group(a.grp)) \o owed
                   /\ b # 0 /\ (Len(g) = MaxGroup \/ isLast) =>
                         h.grp = <<>> /\ h.out = a.out \o Group(g)
                   /\ b # 0 /\ ~(Len(g) = MaxGroup \/ isLast) => h.grp = g /\ h.out = a.out
<1>1. /\ a \in Accs /\ a.out \in Seq(NonZero) /\ a.grp \in Groups /\ a.grp \in Seq(NonZero)
      /\ Len(a.grp) \in Nat /\ Len(a.grp) < MaxGroup /\ MaxGroup \in Nat \ {0}
  BY MaxGroupAssumption, LenProperties DEF HostAccs, Accs, Groups
<1>2. a.out \o Group(a.grp) \in Seq(NonZero)
  BY <1>1, GroupType, ConcatProperties
<1>3. owed \in Seq(NonZero) /\ <<>> \in Groups /\ Len(<<>>) < MaxGroup
  <2>1. 1 \in NonZero
    BY <1>1 DEF NonZero, FullCode
  <2> QED
    BY <2>1, <1>1, EmptyGroup
<1>4. CASE b = 0
  <2>1. h = [[out |-> a.out \o Group(a.grp), grp |-> <<>>] EXCEPT !.out = @ \o owed]
    BY <1>4 DEF HostEncodeByte
  <2>2. h = [out |-> (a.out \o Group(a.grp)) \o owed, grp |-> <<>>]
    BY <2>1
  <2>3. (a.out \o Group(a.grp)) \o owed \in Seq(NonZero)
    BY <1>2, <1>3, ConcatProperties
  <2>4. h \in HostAccs
    BY <2>2, <2>3, <1>3 DEF HostAccs, Accs
  <2>5. h.out = (a.out \o Group(a.grp)) \o owed /\ h.grp = <<>>
    <3> HIDE DEF h, owed
    <3> QED
      BY <2>2
  <2> HIDE DEF h, g
  <2>6. Said
    BY <1>4, <2>4, <2>5
  <2> QED
    BY <2>6 DEF h, g
<1>5. CASE b # 0
  <2>1. b \in NonZero
    BY <1>5 DEF WireByte, NonZero, FullCode
  <2>2. g \in Seq(NonZero) /\ Len(g) = Len(a.grp) + 1 /\ g \in Groups
    BY <2>1, <1>1, AppendProperties DEF Groups
  <2>3. a.out \o Group(g) \in Seq(NonZero)
    BY <2>2, <1>1, GroupType, ConcatProperties
  <2>4. CASE Len(g) = MaxGroup \/ isLast
    <3>1. h = [out |-> a.out \o Group(g), grp |-> <<>>]
      BY <1>1, <1>5, <2>4 DEF HostEncodeByte, Accs
    <3>2. h \in HostAccs
      BY <3>1, <2>3, <1>3 DEF HostAccs, Accs
    <3>3. h.out = a.out \o Group(g) /\ h.grp = <<>>
      <4> HIDE DEF h, g
      <4> QED
        BY <3>1
    <3> HIDE DEF h, g
    <3>4. Said
      BY <1>5, <2>4, <3>2, <3>3
    <3> QED
      BY <3>4 DEF h, g
  <2>5. CASE ~(Len(g) = MaxGroup \/ isLast)
    <3>1. h = [a EXCEPT !.grp = g]
      BY <1>1, <1>5, <2>5 DEF HostEncodeByte, Accs
    <3>2. h = [out |-> a.out, grp |-> g]
      BY <3>1, <1>1 DEF Accs
    <3>3. Len(g) < MaxGroup
      BY <2>2, <2>5, <1>1
    <3>4. h \in HostAccs
      BY <3>2, <3>3, <2>2, <1>1 DEF HostAccs, Accs
    <3>5. h.out = a.out /\ h.grp = g
      BY <3>2
    <3> HIDE DEF h, g
    <3>6. Said
      BY <1>5, <2>5, <3>4, <3>5
    <3> QED
      BY <3>6 DEF h, g
  <2> QED
    BY <2>4, <2>5
<1> QED
  BY <1>4, <1>5

\* A byte that is not the last leaves the host one eager flush ahead, and the
\* last byte closes everything.
LEMMA EagerStep ==
    ASSUME NEW acc \in Accs, NEW b \in WireByte
    PROVE  LET e == EncodeByte(acc, b)
           IN  /\ Eager(acc) \in HostAccs
               /\ HostEncodeByte(Eager(acc), b, FALSE) = Eager(e)
               /\ HostEncodeByte(Eager(acc), b, TRUE).out = e.out \o Group(e.grp)
<1> DEFINE e == EncodeByte(acc, b)
           a == Eager(acc)
           full == Len(acc.grp) = MaxGroup
           closed == acc.out \o Group(acc.grp)
<1>1. /\ acc.out \in Seq(NonZero) /\ acc.grp \in Groups /\ acc.grp \in Seq(NonZero)
      /\ Len(acc.grp) \in Nat /\ Len(acc.grp) <= MaxGroup /\ MaxGroup \in Nat \ {0}
  BY MaxGroupAssumption, LenProperties DEF Accs, Groups
<1>2. closed \in Seq(NonZero) /\ <<>> \in Groups /\ Group(<<>>) = <<1>> /\ Len(<<>>) = 0
  BY <1>1, GroupType, EmptyGroup, ConcatProperties
<1>3. a \in HostAccs
  <2>1. CASE full
    <3>1. a = [out |-> closed, grp |-> <<>>]
      BY <2>1 DEF Eager
    <3> QED
      BY <3>1, <1>1, <1>2 DEF HostAccs, Accs
  <2>2. CASE ~full
    <3>1. a = acc /\ Len(acc.grp) < MaxGroup
      BY <2>2, <1>1 DEF Eager
    <3> QED
      BY <3>1 DEF HostAccs
  <2> QED
    BY <2>1, <2>2
<1>4. e \in Accs
  BY EncodeByteIs
<1> DEFINE h == HostEncodeByte(a, b, FALSE)
           l == HostEncodeByte(a, b, TRUE)
<1>5. CASE b = 0
  <2>1. /\ h \in HostAccs /\ h.grp = <<>> /\ h.out = (a.out \o Group(a.grp)) \o <<>>
        /\ l.out = (a.out \o Group(a.grp)) \o <<1>>
    <3> HIDE DEF a
    <3> QED
      BY <1>3, <1>5, HostByteIs
  <2>2. e.grp = <<>> /\ e.out = a.out \o Group(a.grp)
    <3>1. CASE full
      <4>1. a.out = closed /\ a.grp = <<>>
        BY <3>1 DEF Eager
      <4>2. e.out = closed \o <<1>> /\ e.grp = <<>>
        BY <3>1, <1>5, EncodeByteIs
      <4> HIDE DEF a, e, closed
      <4> QED
        BY <4>1, <4>2, <1>2
    <3>2. CASE ~full
      <4>1. a = acc
        BY <3>2 DEF Eager
      <4>2. e.out = closed /\ e.grp = <<>>
        BY <3>2, <1>5, EncodeByteIs
      <4> HIDE DEF a, e
      <4> QED
        BY <4>1, <4>2
    <3> QED
      BY <3>1, <3>2
  <2> HIDE DEF e, a, h, l
  <2>3. h.out = e.out
    <3>1. e.out \in Seq(NonZero)
      BY <1>4 DEF Accs
    <3>2. e.out \o <<>> = e.out
      BY <3>1, ConcatEmptySeq
    <3> QED
      BY <3>2, <2>1, <2>2
  <2>4. Eager(e) = e
    BY <2>2, <1>1, <1>2 DEF Eager
  <2>5. h = e
    BY <2>1, <2>2, <2>3, <1>4, SameAcc DEF HostAccs
  <2>6. l.out = e.out \o Group(e.grp)
    BY <2>1, <2>2, <1>2
  <2> QED
    BY <2>4, <2>5, <2>6, <1>3 DEF e, a, h, l
<1>6. CASE b # 0
  <2> DEFINE g == Append(a.grp, b)
  <2>1. /\ h \in HostAccs
        /\ Len(g) = MaxGroup => h.grp = <<>> /\ h.out = a.out \o Group(g)
        /\ Len(g) # MaxGroup => h.grp = g /\ h.out = a.out
        /\ l.out = a.out \o Group(g)
    <3> HIDE DEF a
    <3> QED
      BY <1>3, <1>6, HostByteIs
  <2>2. e.grp = g /\ e.out = a.out
    <3>1. CASE full
      <4>1. a.out = closed /\ a.grp = <<>>
        BY <3>1 DEF Eager
      <4>2. e.out = closed /\ e.grp = <<b>>
        BY <3>1, <1>6, EncodeByteIs
      <4>3. Append(<<>>, b) = <<b>>
        OBVIOUS
      <4> HIDE DEF a, e, closed
      <4> QED
        BY <4>1, <4>2, <4>3
    <3>2. CASE ~full
      <4>1. a = acc
        BY <3>2 DEF Eager
      <4>2. e.out = acc.out /\ e.grp = Append(acc.grp, b)
        BY <3>2, <1>6, EncodeByteIs
      <4> HIDE DEF a, e
      <4> QED
        BY <4>1, <4>2
    <3> QED
      BY <3>1, <3>2
  <2> HIDE DEF e, a, h, l, g
  <2>3. l.out = e.out \o Group(e.grp)
    BY <2>1, <2>2
  <2>4. h = Eager(e)
    <3>1. CASE Len(g) = MaxGroup
      <4>1. Eager(e) = [out |-> e.out \o Group(e.grp), grp |-> <<>>]
        BY <3>1, <2>2 DEF Eager
      <4> QED
        BY <4>1, <3>1, <2>1, <2>2 DEF HostAccs, Accs
    <3>2. CASE Len(g) # MaxGroup
      <4>1. Eager(e) = e
        BY <3>2, <2>2 DEF Eager
      <4> QED
        BY <4>1, <3>2, <2>1, <2>2, <1>4 DEF HostAccs, Accs
    <3> QED
      BY <3>1, <3>2
  <2> QED
    BY <2>3, <2>4, <1>3 DEF e, a, h, l
<1> QED
  BY <1>5, <1>6

LEMMA HostEncodeUnfold ==
    ASSUME NEW x \in Seq(WireByte)
    PROVE  /\ HostEncodeBytes(x)[0] = [out |-> <<>>, grp |-> <<>>]
           /\ \A i \in 1..Len(x) : HostEncodeBytes(x)[i] =
                 HostEncodeByte(HostEncodeBytes(x)[i-1], x[i], i = Len(x))
<1> DEFINE n == Len(x)
           start == [out |-> <<>>, grp |-> <<>>]
           Bytes == WireByte \X BOOLEAN
           s == [i \in 1..n |-> <<x[i], i = n>>]
           step == [y \in HostAccs \X Bytes |-> HostEncodeByte(y[1], y[2][1], y[2][2])]
           Is(f) == f = [i \in 0..n |-> IF i = 0 THEN start
                                        ELSE HostEncodeByte(f[i-1], x[i], i = n)]
<1>1. n \in Nat /\ \A i \in 1..n : x[i] \in WireByte
  BY LenProperties, ElementOfSeq
<1>2. start \in HostAccs
  BY EmptyGroup, MaxGroupAssumption DEF HostAccs, Accs
<1>3. s \in Seq(Bytes) /\ Len(s) = n
  <2>1. \A i \in 1..n : <<x[i], i = n>> \in Bytes
    BY <1>1
  <2> QED
    BY <1>1, <2>1
<1>4. IsStep(step, HostAccs, Bytes)
  <2>1. \A y \in HostAccs \X Bytes : HostEncodeByte(y[1], y[2][1], y[2][2]) \in HostAccs
    BY HostByteIs
  <2> QED
    BY <2>1 DEF IsStep
<1>5. PICK f : IsFold(f, HostAccs, start, step, s)
  <2> HIDE DEF start, step, s, Bytes
  <2> QED
    BY <1>2, <1>3, <1>4, FoldExists
<1>6. /\ f \in [0..n -> HostAccs] /\ f[0] = start
      /\ \A i \in 1..n : f[i] = step[<<f[i-1], s[i]>>]
  <2> HIDE DEF start, step, s
  <2> QED
    BY <1>3, <1>5 DEF IsFold
<1>7. \A i \in 1..n : f[i] = HostEncodeByte(f[i-1], x[i], i = n)
  <2> TAKE i \in 1..n
  <2>1. i - 1 \in 0..n
    BY <1>1
  <2>2. f[i-1] \in HostAccs /\ s[i] = <<x[i], i = n>> /\ s[i] \in Bytes
    BY <2>1, <1>1, <1>6
  <2>3. s[i][1] = x[i] /\ s[i][2] = (i = n)
    BY <2>2
  <2>4. step[<<f[i-1], s[i]>>] = HostEncodeByte(f[i-1], s[i][1], s[i][2])
    <3> HIDE DEF s, Bytes
    <3> QED
      BY <2>2
  <2> QED
    BY <2>3, <2>4, <1>6
<1>8. Is(f)
  <2> HIDE DEF start
  <2>1. \A i \in 0..n : i # 0 => i \in 1..n
    BY <1>1
  <2>2. \A i \in 0..n : f[i] = IF i = 0 THEN start ELSE HostEncodeByte(f[i-1], x[i], i = n)
    BY <2>1, <1>6, <1>7
  <2>3. f = [i \in 0..n |-> f[i]]
    BY <1>6
  <2> QED
    BY <2>2, <2>3, Zenon
<1>9. HostEncodeBytes(x) = CHOOSE acc : Is(acc)
  BY DEF HostEncodeBytes
<1>10. Is(HostEncodeBytes(x))
  <2> HIDE DEF Is
  <2> QED
    BY <1>8, <1>9
<1> DEFINE h == HostEncodeBytes(x)
<1>11. h[0] = start /\ \A i \in 1..n : h[i] = HostEncodeByte(h[i-1], x[i], i = n)
  <2> HIDE DEF start, h, n
  <2>1. h = [i \in 0..n |-> IF i = 0 THEN start ELSE HostEncodeByte(h[i-1], x[i], i = n)]
    BY <1>10 DEF h, n
  <2>2. 0 \in 0..n /\ \A i \in 1..n : i # 0 /\ i \in 0..n
    BY <1>1
  <2> QED
    BY <2>1, <2>2, Zenon
<1> QED
  BY <1>11

\* Host and rig encode alike.
LEMMA EncodersAgree == \A x \in Seq(WireByte) : HostEncode(x) = CobsEncode(x)
<1> SUFFICES ASSUME NEW x \in Seq(WireByte) PROVE HostEncode(x) = CobsEncode(x)
  OBVIOUS
<1> DEFINE n == Len(x)
           h == HostEncodeBytes(x)
           e == EncodeBytes(x)
           start == [out |-> <<>>, grp |-> <<>>]
<1>1. n \in Nat /\ \A i \in 1..n : x[i] \in WireByte
  BY LenProperties, ElementOfSeq
<1>2. /\ h[0] = start /\ e[0] = start /\ \A i \in 0..n : e[i] \in Accs
      /\ \A i \in 1..n : /\ h[i] = HostEncodeByte(h[i-1], x[i], i = n)
                         /\ e[i] = EncodeByte(e[i-1], x[i])
  BY HostEncodeUnfold, EncodeBytesUnfold
<1>3. CobsEncode(x) = e[n].out \o Group(e[n].grp)
  BY DEF CobsEncode
<1>4. x # <<>> => HostEncode(x) = h[n].out
  BY DEF HostEncode
<1>5. Eager(start) = start
  BY MaxGroupAssumption DEF Eager
<1>6. CASE x = <<>>
  <2>1. n = 0 /\ HostEncode(x) = <<1>>
    BY <1>6 DEF HostEncode
  <2>2. e[n].out \o Group(e[n].grp) = <<>> \o <<1>>
    BY <2>1, <1>2, EmptyGroup
  <2>3. <<1>> \in Seq(Nat) /\ <<>> \o <<1>> = <<1>>
    BY ConcatEmptySeq
  <2> QED
    BY <2>1, <2>2, <2>3, <1>3
<1>7. CASE x # <<>>
  <2> DEFINE Differ == {i \in Nat : i < n /\ h[i] # Eager(e[i])}
  <2>1. n \in 1..n /\ n - 1 \in Nat /\ n - 1 < n /\ n - 1 \in 0..n
    BY <1>1, <1>7, EmptySeq
  <2>2. Differ = {}
    <3> SUFFICES ASSUME Differ # {} PROVE FALSE
      OBVIOUS
    <3>1. PICK m \in Differ : \A k \in Differ : m <= k
      <4>1. Differ \in SUBSET Nat
        OBVIOUS
      <4> HIDE DEF Differ
      <4> QED
        BY <4>1, Least
    <3>2. m \in Nat /\ m < n /\ h[m] # Eager(e[m]) /\ m # 0
      <4>1. m \in Nat /\ m < n /\ h[m] # Eager(e[m])
        OBVIOUS
      <4> HIDE DEF h, e, start
      <4> QED
        BY <4>1, <1>2, <1>5
    <3>3. m \in 1..n /\ m - 1 \in Nat /\ m - 1 < n /\ m - 1 \in 0..n /\ ~(m <= m - 1) /\ m # n
      BY <3>2, <1>1
    <3>4. m - 1 \notin Differ
      <4> HIDE DEF Differ
      <4> QED
        BY <3>1, <3>3
    <3>5. h[m-1] = Eager(e[m-1]) /\ e[m-1] \in Accs
      BY <3>3, <3>4, <1>2
    <3>6. (m = n) = FALSE
      BY <3>3
    <3>7. h[m] = HostEncodeByte(h[m-1], x[m], FALSE) /\ e[m] = EncodeByte(e[m-1], x[m])
      <4> HIDE DEF h, e
      <4> QED
        BY <3>3, <3>6, <1>2
    <3>8. HostEncodeByte(Eager(e[m-1]), x[m], FALSE) = Eager(EncodeByte(e[m-1], x[m]))
      BY <3>3, <3>5, <1>1, EagerStep
    <3> HIDE DEF h, e
    <3> QED
      BY <3>2, <3>5, <3>7, <3>8
  <2>3. h[n-1] = Eager(e[n-1]) /\ e[n-1] \in Accs
    BY <2>1, <2>2, <1>2
  <2>4. (n = n) = TRUE
    OBVIOUS
  <2>5. h[n] = HostEncodeByte(h[n-1], x[n], TRUE) /\ e[n] = EncodeByte(e[n-1], x[n])
    <3> HIDE DEF h, e, n
    <3> QED
      BY <2>1, <2>4, <1>2
  <2>6. HostEncodeByte(Eager(e[n-1]), x[n], TRUE).out
          = EncodeByte(e[n-1], x[n]).out \o Group(EncodeByte(e[n-1], x[n]).grp)
    BY <2>1, <2>3, <1>1, EagerStep
  <2> HIDE DEF h, e
  <2> QED
    BY <2>3, <2>5, <2>6, <1>3, <1>4, <1>7
<1> QED
  BY <1>6, <1>7

-----------------------------------------------------------------------------
(* The two decoders, on any bytes at all.                                  *)

LEMMA SameWithoutZeros ==
    ASSUME NEW s \in Seq(NonZero)
    PROVE  \A k \in 1..Len(s) : HostLoop(s)[k] = GroupsFrom(s)[k]
<1> DEFINE n == Len(s)
           loop == HostLoop(s)
           go == GroupsFrom(s)
           Differ == {j \in Nat : j < n /\ loop[n - j] # go[n - j]}
<1>1. n \in Nat /\ s \in Seq(WireByte) /\ \A k \in 1..n : s[k] \in NonZero /\ s[k] # 0
  <2>1. \A k \in 1..n : s[k] \in NonZero
    BY ElementOfSeq
  <2>2. 0 \notin NonZero
    BY MaxGroupAssumption DEF NonZero, FullCode
  <2> QED
    BY <2>1, <2>2, LenProperties, NonZeroBytes
<1>2. ASSUME NEW k \in 1..n, \A j \in 1..n : j > k => loop[j] = go[j] PROVE loop[k] = go[k]
  <2> DEFINE end == GroupEnd(s, k)
             data0 == GroupData(s, k)
             zero == IF s[k] # FullCode /\ end < n THEN <<0>> ELSE <<>>
  <2>1. end \in Nat /\ end >= k /\ (end <= n => data0 \in Seq(WireByte))
    BY <1>1, GroupFacts
  <2>2. end <= n => ~Contains(data0, 0)
    <3> HAVE end <= n
    <3>1. \A i \in k+1..end : i \in 1..n
      BY <2>1, <1>1
    <3>2. \A i \in k+1..end : s[i] \in NonZero
      BY <3>1, <1>1
    <3>3. data0 \in Seq(NonZero)
      BY <3>2, <2>1, SubSeqProperties DEF GroupData
    <3> QED
      BY <3>3, NonZeroBytes
  <2>3. /\ end > n => loop[k] = None
        /\ end <= n => loop[k] = Prefixed(data0 \o zero, loop[end + 1])
    <3>1. /\ s[k] = 0 \/ end > n \/ Contains(data0, 0) => loop[k] = None
          /\ ~(s[k] = 0 \/ end > n \/ Contains(data0, 0))
               => loop[k] = Prefixed(data0 \o zero, loop[end + 1])
      BY <1>1, HostUnfold
    <3> HIDE DEF end, data0, zero, loop
    <3> QED
      BY <3>1, <2>1, <2>2, <1>1
  <2>4. loop[n + 1] = Some(<<>>)
    BY <1>1, HostUnfold
  <2>5. CASE end > n
    BY <2>3, <2>5, GroupsUnfold
  <2>6. CASE end = n
    <3>1. go[k] = Some(data0)
      BY <2>6, GroupsUnfold
    <3>2. zero = <<>> /\ data0 \in Seq(WireByte) /\ end <= n
      BY <2>1, <2>6, <1>1
    <3>3. (data0 \o zero) \o <<>> = data0
      BY <3>2, ConcatEmptySeq
    <3>4. loop[k] = Prefixed(data0 \o zero, Some(<<>>))
      BY <2>3, <2>4, <2>6, <3>2
    <3>5. loop[k] = Some((data0 \o zero) \o <<>>)
      BY <3>4, SomeIs DEF Prefixed
    <3> QED
      BY <3>1, <3>3, <3>5
  <2>7. CASE end < n
    <3>1. end + 1 \in 1..n /\ go[k] = Prefixed(data0 \o ZeroOf(s[k]), go[end + 1])
      BY <2>7, GroupsUnfold
    <3>2. zero = ZeroOf(s[k]) /\ end <= n /\ end + 1 > k
      BY <2>1, <2>7, <1>1 DEF ZeroOf
    <3>3. loop[end + 1] = go[end + 1]
      BY <3>1, <3>2, <1>2
    <3> HIDE DEF end, data0, zero, loop, go
    <3> QED
      BY <3>1, <3>2, <3>3, <2>3
  <2> QED
    BY <2>1, <2>5, <2>6, <2>7, <1>1
<1>3. Differ = {}
  <2> SUFFICES ASSUME Differ # {} PROVE FALSE
    OBVIOUS
  <2>1. PICK m \in Differ : \A j \in Differ : m <= j
    <3>1. Differ \in SUBSET Nat
      OBVIOUS
    <3> HIDE DEF Differ
    <3> QED
      BY <3>1, Least
  <2> DEFINE k == n - m
  <2>2. m \in Nat /\ m < n /\ loop[k] # go[k]
    OBVIOUS
  <2>3. k \in 1..n /\ m = n - k
    BY <2>2, <1>1
  <2>4. ASSUME NEW j \in 1..n, j > k PROVE loop[j] = go[j]
    <3>1. n - j \in Nat /\ n - j < n /\ ~(m <= n - j) /\ n - (n - j) = j
      BY <2>3, <2>4, <1>1
    <3>2. n - j \notin Differ
      <4> HIDE DEF Differ
      <4> QED
        BY <3>1, <2>1
    <3> QED
      BY <3>1, <3>2
  <2> HIDE DEF k, loop, go
  <2> QED
    BY <2>2, <2>3, <2>4, <1>2
<1> SUFFICES ASSUME NEW k \in 1..n PROVE loop[k] = go[k]
  OBVIOUS
<1>4. n - k \in Nat /\ n - k < n /\ n - (n - k) = k
  BY <1>1
<1> QED
  BY <1>3, <1>4

\* Before a zero the host's loop always fails.
LEMMA ZeroFails ==
    ASSUME NEW s \in Seq(WireByte), NEW z \in 1..Len(s), s[z] = 0
    PROVE  \A k \in 1..z : HostLoop(s)[k] = None
<1> DEFINE n == Len(s)
           loop == HostLoop(s)
           Good == {j \in Nat : j < z /\ loop[z - j] # None}
<1>1. n \in Nat /\ z \in Nat /\ z <= n /\ z >= 1
  BY LenProperties
<1>2. ASSUME NEW k \in 1..z, \A j \in 1..z : j > k => loop[j] = None PROVE loop[k] = None
  <2> DEFINE end == GroupEnd(s, k)
             part == GroupData(s, k)
             out == part \o (IF s[k] # FullCode /\ end < n THEN <<0>> ELSE <<>>)
  <2>1. k \in 1..n
    BY <1>1
  <2>2. /\ s[k] = 0 \/ end > n \/ Contains(part, 0) => loop[k] = None
        /\ ~(s[k] = 0 \/ end > n \/ Contains(part, 0)) => loop[k] = Prefixed(out, loop[end + 1])
    BY <2>1, HostUnfold
  <2>3. CASE s[k] = 0 \/ end > n
    BY <2>2, <2>3
  <2>4. CASE s[k] # 0 /\ ~(end > n)
    <3>1. end \in Nat /\ end >= k /\ end <= n
      BY <2>1, <2>4, <1>1, GroupFacts
    <3>2. CASE z <= end
      <4>1. z >= k + 1
        BY <2>4, <1>1
      <4>2. \A i \in k+1..end : s[i] \in WireByte
        <5>1. \A i \in k+1..end : i \in 1..n
          BY <3>1, <1>1
        <5> QED
          BY <5>1, ElementOfSeq
      <4>3. /\ Len(part) = IF k + 1 <= end THEN end - (k + 1) + 1 ELSE 0
            /\ \A i \in 1..end - (k + 1) + 1 : part[i] = s[k + 1 + i - 1]
        BY <4>2, <3>1, SubSeqProperties DEF GroupData
      <4> DEFINE i == z - k
      <4>4. i \in 1..end - (k + 1) + 1 /\ i \in 1..Len(part) /\ k + 1 + i - 1 = z
        BY <4>1, <4>3, <3>1, <3>2, <1>1
      <4>5. part[i] = 0
        <5> HIDE DEF i, part, end
        <5> QED
          BY <4>3, <4>4
      <4>6. Contains(part, 0)
        BY <4>4, <4>5 DEF Contains
      <4> QED
        BY <2>2, <4>6
    <3>3. CASE ~(z <= end)
      <4>1. end + 1 \in 1..z /\ end + 1 > k
        BY <3>1, <3>3, <1>1
      <4>2. loop[end + 1] = None
        BY <4>1, <1>2
      <4> HIDE DEF end, part, out, loop
      <4> QED
        BY <4>2, <2>2 DEF Prefixed
    <3> QED
      BY <3>2, <3>3
  <2> QED
    BY <2>3, <2>4
<1>3. Good = {}
  <2> SUFFICES ASSUME Good # {} PROVE FALSE
    OBVIOUS
  <2>1. PICK m \in Good : \A j \in Good : m <= j
    <3>1. Good \in SUBSET Nat
      OBVIOUS
    <3> HIDE DEF Good
    <3> QED
      BY <3>1, Least
  <2> DEFINE k == z - m
  <2>2. m \in Nat /\ m < z /\ loop[k] # None
    OBVIOUS
  <2>3. k \in 1..z /\ m = z - k
    BY <2>2, <1>1
  <2>4. ASSUME NEW j \in 1..z, j > k PROVE loop[j] = None
    <3>1. z - j \in Nat /\ z - j < z /\ ~(m <= z - j) /\ z - (z - j) = j
      BY <2>3, <2>4, <1>1
    <3>2. z - j \notin Good
      <4> HIDE DEF Good
      <4> QED
        BY <3>1, <2>1
    <3> QED
      BY <3>1, <3>2
  <2> HIDE DEF k, loop
  <2> QED
    BY <2>2, <2>3, <2>4, <1>2
<1> SUFFICES ASSUME NEW k \in 1..z PROVE loop[k] = None
  OBVIOUS
<1>4. z - k \in Nat /\ z - k < z /\ z - (z - k) = k
  BY <1>1
<1> QED
  BY <1>3, <1>4

\* Host and rig decode alike, whatever the bytes.
LEMMA DecodersAlike == \A s \in Seq(WireByte) : HostDecode(s) = CobsDecode(s)
<1> SUFFICES ASSUME NEW s \in Seq(WireByte) PROVE HostDecode(s) = CobsDecode(s)
  OBVIOUS
<1>1. CASE s = <<>>
  BY <1>1 DEF HostDecode, CobsDecode
<1>2. CASE s # <<>> /\ Contains(s, 0)
  <2>1. PICK z \in 1..Len(s) : s[z] = 0
    BY <1>2 DEF Contains
  <2>2. 1 \in 1..z
    BY LenProperties
  <2>3. HostLoop(s)[1] = None
    BY <2>1, <2>2, ZeroFails
  <2> QED
    BY <2>3, <1>2 DEF HostDecode, CobsDecode
<1>3. CASE s # <<>> /\ ~Contains(s, 0)
  <2>1. s \in Seq(NonZero) /\ 1 \in 1..Len(s)
    BY <1>3, NonZeroBytes, EmptySeq
  <2>2. HostLoop(s)[1] = GroupsFrom(s)[1]
    BY <2>1, SameWithoutZeros
  <2> QED
    BY <2>2, <1>3 DEF HostDecode, CobsDecode
<1> QED
  BY <1>1, <1>2, <1>3

-----------------------------------------------------------------------------
(* The theorems.  The sequence of MCCodec is any sequence of bytes, and    *)
(* its decoder has followed it as long as it holds no zero.                *)

Grown == data \in Seq(WireByte) /\ (~Contains(data, 0) => Decoded(data, dec, decoded))

LEMMA GrownInvariant == Spec => []Grown
<1>1. Init => Grown
  <2>1. <<>> \in Seq(WireByte)
    OBVIOUS
  <2> QED
    BY <2>1, DecodedInit DEF Init, Grown
<1>2. Grown /\ [Next]_<<data, dec, decoded>> => Grown'
  <2> SUFFICES ASSUME Grown, [Next]_<<data, dec, decoded>> PROVE Grown'
    OBVIOUS
  <2>1. CASE UNCHANGED <<data, dec, decoded>>
    BY <2>1 DEF Grown
  <2>2. ASSUME NEW b \in WireByte, data' = Append(data, b),
               IF b = 0 THEN UNCHANGED <<dec, decoded>>
               ELSE LET r == DecodeByte(dec, b)
                    IN  dec' = r.dec /\ decoded' = decoded \o r.out
        PROVE  Grown'
    <3>1. /\ data \in Seq(WireByte) /\ data' \in Seq(WireByte) /\ Len(data) \in Nat
          /\ Len(data') = Len(data) + 1 /\ data'[Len(data) + 1] = b
          /\ \A i \in 1..Len(data) : data'[i] = data[i]
      BY <2>2, AppendProperties, LenProperties DEF Grown
    <3>2. \A i \in 1..Len(data) : i \in 1..Len(data')
      BY <3>1
    <3>3. Len(data) + 1 \in 1..Len(data')
      BY <3>1
    <3>4. ~Contains(data', 0) => ~Contains(data, 0) /\ b # 0
      BY <3>1, <3>2, <3>3 DEF Contains
    <3>5. ASSUME ~Contains(data', 0) PROVE Decoded(data', dec', decoded')
      <4>1. Decoded(data, dec, decoded) /\ b \in NonZero
        BY <3>4, <3>5, MaxGroupAssumption DEF Grown, NonZero, WireByte, FullCode
      <4>2. /\ data' = Append(data, b) /\ dec' = DecodeByte(dec, b).dec
            /\ decoded' = decoded \o DecodeByte(dec, b).out
        BY <2>2, <3>4, <3>5
      <4>3. Decoded(Append(data, b), DecodeByte(dec, b).dec, decoded \o DecodeByte(dec, b).out)
        BY <4>1, DecodedByte
      <4> QED
        BY <4>2, <4>3
    <3> QED
      BY <3>1, <3>5 DEF Grown
  <2> QED
    BY <2>1, <2>2 DEF Next
<1> QED
  BY <1>1, <1>2, PTL DEF Spec

\* What either side encodes, either side decodes, and the encoding holds no
\* delimiter (cobsEncode and cobsDecode; cobs.rs).
THEOREM EncodingsRoundTrip == Spec => []RoundTrip
<1>1. Grown => RoundTrip
  <2> SUFFICES ASSUME Grown PROVE RoundTrip
    OBVIOUS
  <2> DEFINE w == CobsEncode(data)
  <2>1. data \in Seq(WireByte)
    BY DEF Grown
  <2>2. w \in Seq(NonZero) /\ CobsDecode(w) = Some(data)
    BY <2>1, DecodesWhatItEncodes
  <2>3. w \in Seq(WireByte) /\ ~Contains(w, 0)
    BY <2>2, NonZeroBytes
  <2>4. HostDecode(w) = CobsDecode(w)
    BY <2>3, DecodersAlike
  <2> QED
    BY <2>2, <2>3, <2>4 DEF RoundTrip
<1> QED
  BY <1>1, GrownInvariant, PTL

\* The host's eager flush of a full group and the rig's lazy one give the same
\* bytes (cobs.rs and cobsEncode).
THEOREM SameBytesOnTheWire == Spec => []SameWireBytes
<1>1. Grown => SameWireBytes
  BY EncodersAgree DEF Grown, SameWireBytes
<1> QED
  BY <1>1, GrownInvariant, PTL

\* Host and rig accept the same frames and read the same in them (cobs_decode
\* and cobsDecode).
THEOREM SameVerdictAlways == Spec => []SameVerdict
<1>1. Grown => SameVerdict
  BY DecodersAlike DEF Grown, SameVerdict
<1> QED
  BY <1>1, GrownInvariant, PTL

\* The loader's decoder, a byte at a time, yields what the pure one does, and
\* notices what that one rejects (cobsDecodeStep).
THEOREM StreamDecodesAlways == Spec => []StreamDecodes
<1>1. Grown => StreamDecodes
  BY DecodedEnd DEF Grown, StreamDecodes
<1> QED
  BY <1>1, GrownInvariant, PTL

=============================================================================
