----------------------------- MODULE CobsLemmas -----------------------------
(***************************************************************************)
(* What the codecs of Cobs.tla compute, for byte sequences of any length   *)
(* and groups of any size.  A fold and a decoder's recursion over a        *)
(* sequence exist and are determined by their equations; that is shown by  *)
(* the least number of steps for which it could fail.                      *)
(***************************************************************************)
EXTENDS Cobs, TLAPS, SequenceTheorems, WellFoundedInduction

\* A nonempty set of naturals has a least element.
LEMMA Least ==
    ASSUME NEW S \in SUBSET Nat, S # {}
    PROVE  \E m \in S : \A k \in S : m <= k
<1>1. IsWellFoundedOn(OpToRel(<, Nat), Nat)
  BY NatLessThanWellFounded
<1>2. PICK m \in S : \A k \in S : ~(<<k, m>> \in OpToRel(<, Nat))
  BY <1>1, WFMin
<1>3. \A k \in S : ~(k < m)
  BY <1>2 DEF OpToRel
<1>4. m \in Nat /\ \A k \in S : k \in Nat
  OBVIOUS
<1> QED
  BY <1>3, <1>4

\* What holds of the empty sequence, and of a longer one if of its front, holds
\* of all; the property is given as a set.
LEMMA SeqInduction ==
    ASSUME NEW S, NEW P \in SUBSET Seq(S), <<>> \in P,
           \A s \in P, e \in S : Append(s, e) \in P
    PROVE  \A s \in Seq(S) : s \in P
<1> DEFINE Bad == {n \in Nat : \E s \in Seq(S) : Len(s) = n /\ s \notin P}
<1> SUFFICES ASSUME NEW s0 \in Seq(S), s0 \notin P PROVE FALSE
  OBVIOUS
<1>1. PICK m \in Bad : \A k \in Bad : m <= k
  <2>1. Bad # {} /\ Bad \in SUBSET Nat
    BY LenProperties
  <2> HIDE DEF Bad
  <2> QED
    BY <2>1, Least
<1>2. PICK t \in Seq(S) : Len(t) = m /\ t \notin P
  OBVIOUS
<1>3. PICK f \in Seq(S), e \in S : t = Append(f, e)
  BY <1>2, SequenceEmptyOrAppend
<1>4. Len(f) \in Nat /\ m = Len(f) + 1
  BY <1>2, <1>3, AppendProperties, LenProperties
<1>5. f \in P
  <2> SUFFICES ASSUME f \notin P PROVE FALSE
    OBVIOUS
  <2>1. Len(f) \in Bad
    BY <1>4
  <2> HIDE DEF Bad
  <2> QED
    BY <2>1, <1>1, <1>4
<1> QED
  BY <1>2, <1>3, <1>5

\* f holds the intermediate results of folding s with step, from base.
IsStep(step, T, S) == step \in [T \X S -> T]
IsFold(f, T, base, step, s) ==
    /\ f \in [0..Len(s) -> T] /\ f[0] = base
    /\ \A i \in 1..Len(s) : f[i] = step[<<f[i-1], s[i]>>]

LEMMA FoldExists ==
    ASSUME NEW S, NEW T, NEW base \in T, NEW step, IsStep(step, T, S), NEW s \in Seq(S)
    PROVE  \E f : IsFold(f, T, base, step, s)
<1> USE DEF IsStep
<1> DEFINE Upto(n, f) == /\ f[0] = base
                         /\ \A i \in 1..n : f[i] = step[<<f[i-1], s[i]>>]
           Missing == {n \in Nat : n <= Len(s) /\ ~ \E f \in [0..n -> T] : Upto(n, f)}
<1>1. Len(s) \in Nat /\ \A i \in 1..Len(s) : s[i] \in S
  BY LenProperties, ElementOfSeq
<1>2. Missing = {}
  <2> SUFFICES ASSUME Missing # {} PROVE FALSE
    OBVIOUS
  <2>1. PICK m \in Missing : \A k \in Missing : m <= k
    <3>1. Missing \in SUBSET Nat
      OBVIOUS
    <3> HIDE DEF Missing
    <3> QED
      BY <3>1, Least
  <2>2. m \in Nat /\ m <= Len(s) /\ ~ \E f \in [0..m -> T] : Upto(m, f)
    OBVIOUS
  <2>3. m # 0
    <3>1. [i \in 0..0 |-> base] \in [0..0 -> T] /\ Upto(0, [i \in 0..0 |-> base])
      OBVIOUS
    <3> QED
      BY <3>1, <2>2
  <2>4. m - 1 \in Nat /\ m - 1 <= Len(s) /\ m - 1 \notin Missing
    <3>1. m - 1 \in Nat /\ m - 1 <= Len(s) /\ ~(m <= m - 1)
      BY <2>2, <2>3, <1>1
    <3> HIDE DEF Missing
    <3> QED
      BY <3>1, <2>1
  <2>5. PICK g \in [0..m-1 -> T] : Upto(m - 1, g)
    BY <2>4
  <2> DEFINE f == [i \in 0..m |-> IF i = m THEN step[<<g[m-1], s[m]>>] ELSE g[i]]
  <2>6. step[<<g[m-1], s[m]>>] \in T
    <3>1. m - 1 \in 0..m-1 /\ m \in 1..Len(s)
      BY <2>2, <2>3, <1>1
    <3>2. g[m-1] \in T /\ s[m] \in S
      BY <3>1, <1>1
    <3> QED
      BY <3>2
  <2>7. f \in [0..m -> T]
    <3> SUFFICES ASSUME NEW i \in 0..m PROVE f[i] \in T
      OBVIOUS
    <3>1. i # m => i \in 0..m-1
      BY <2>2
    <3> QED
      BY <3>1, <2>6
  <2>8. Upto(m, f)
    <3>1. 0 \in 0..m /\ 0 # m /\ m \in 0..m
      BY <2>2, <2>3
    <3>2. \A i \in 1..m : i \in 0..m /\ i - 1 \in 0..m /\ i - 1 # m /\ (i # m => i \in 1..m-1)
      BY <2>2
    <3>3. f[0] = base
      BY <3>1, <2>5
    <3>4. \A i \in 1..m : f[i] = step[<<f[i-1], s[i]>>]
      BY <3>2, <2>5
    <3> QED
      BY <3>3, <3>4
  <2> QED
    BY <2>2, <2>7, <2>8
<1> QED
  BY <1>1, <1>2 DEF IsFold

\* Folds of the same step over sequences that agree so far agree so far.
SameSteps(n, step, s, t, f, g) ==
    \A i \in 1..n : /\ f[i] = step[<<f[i-1], s[i]>>] /\ g[i] = step[<<g[i-1], t[i]>>]
                    /\ s[i] = t[i]

LEMMA FoldsAgree ==
    ASSUME NEW n \in Nat, NEW step, NEW s, NEW t, NEW f, NEW g, f[0] = g[0],
           SameSteps(n, step, s, t, f, g)
    PROVE  f[n] = g[n]
<1> DEFINE Differ == {i \in Nat : i <= n /\ f[i] # g[i]}
<1> SUFFICES ASSUME f[n] # g[n] PROVE FALSE
  OBVIOUS
<1>1. Differ # {} /\ Differ \in SUBSET Nat
  OBVIOUS
<1>2. PICK m \in Differ : \A k \in Differ : m <= k
  <2> HIDE DEF Differ
  <2> QED
    BY <1>1, Least
<1>3. m \in Nat /\ m <= n /\ f[m] # g[m] /\ m # 0
  OBVIOUS
<1>4. m \in 1..n /\ m - 1 \in Nat /\ m - 1 <= n /\ ~(m <= m - 1)
  BY <1>3
<1>5. f[m-1] = g[m-1]
  <2>1. m - 1 \notin Differ
    <3> HIDE DEF Differ
    <3> QED
      BY <1>2, <1>4
  <2> QED
    BY <2>1, <1>4
<1> QED
  BY <1>3, <1>4, <1>5 DEF SameSteps

\* f is computed from the end: at k from its value at a later place, or, where
\* that place lies behind n, at once.
IsDescent(n, T, next, base, step) ==
    /\ next \in [1..n -> Nat] /\ \A k \in 1..n : next[k] > k
    /\ base \in [1..n -> T] /\ step \in [(1..n) \X T -> T]
Unrolls(f, k, n, next, base, step) ==
    f[k] = IF next[k] > n THEN base[k] ELSE step[<<k, f[next[k]]>>]
IsUnrolled(f, n, T, next, base, step) ==
    f \in [1..n -> T] /\ \A k \in 1..n : Unrolls(f, k, n, next, base, step)

LEMMA DescentExists ==
    ASSUME NEW n \in Nat, NEW T, NEW next, NEW base, NEW step,
           IsDescent(n, T, next, base, step)
    PROVE  \E f : IsUnrolled(f, n, T, next, base, step)
<1> DEFINE From(j, f) == \A k \in n+1-j..n : Unrolls(f, k, n, next, base, step)
           Missing == {j \in Nat : j <= n /\ ~ \E f \in [n+1-j..n -> T] : From(j, f)}
<1>1. Missing = {}
  <2> SUFFICES ASSUME Missing # {} PROVE FALSE
    OBVIOUS
  <2>1. PICK m \in Missing : \A k \in Missing : m <= k
    <3>1. Missing \in SUBSET Nat
      OBVIOUS
    <3> HIDE DEF Missing
    <3> QED
      BY <3>1, Least
  <2>2. m \in Nat /\ m <= n /\ ~ \E f \in [n+1-m..n -> T] : From(m, f)
    OBVIOUS
  <2>3. m # 0
    <3> SUFFICES ASSUME m = 0 PROVE FALSE
      OBVIOUS
    <3>1. \A k \in n+1-m..n : FALSE
      OBVIOUS
    <3>2. [k \in n+1-m..n |-> 0] \in [n+1-m..n -> T] /\ From(m, [k \in n+1-m..n |-> 0])
      BY <3>1
    <3> QED
      BY <3>2, <2>2
  <2>4. m - 1 \in Nat /\ m - 1 <= n /\ m - 1 \notin Missing
    <3>1. m - 1 \in Nat /\ m - 1 <= n /\ ~(m <= m - 1)
      BY <2>2, <2>3
    <3> HIDE DEF Missing
    <3> QED
      BY <3>1, <2>1
  <2>5. PICK g \in [n+1-(m-1)..n -> T] : From(m-1, g)
    BY <2>4
  <2> DEFINE first == n + 1 - m
             value == IF next[first] > n THEN base[first] ELSE step[<<first, g[next[first]]>>]
             f == [k \in first..n |-> IF k = first THEN value ELSE g[k]]
  <2>6. /\ first \in 1..n /\ n+1-(m-1) = first + 1
        /\ \A k \in first..n : k \in 1..n /\ (k # first => k \in first+1..n)
    BY <2>2, <2>3
  <2>7. \A k \in first..n : /\ next[k] \in Nat /\ next[k] > k
                            /\ ~(next[k] > n) => /\ next[k] \in first+1..n
                                                 /\ next[k] \in first..n /\ next[k] # first
    <3> HIDE DEF first
    <3> TAKE k \in first..n
    <3>1. next[k] \in Nat /\ next[k] > k /\ k \in 1..n
      BY <2>6 DEF IsDescent
    <3> QED
      BY <3>1, <2>6
  <2> HIDE DEF first
  <2>8. value \in T
    <3>1. first \in first..n /\ base[first] \in T
      BY <2>6 DEF IsDescent
    <3>2. ASSUME ~(next[first] > n) PROVE step[<<first, g[next[first]]>>] \in T
      <4>1. g[next[first]] \in T
        BY <3>1, <3>2, <2>6, <2>7
      <4> QED
        BY <4>1, <2>6 DEF IsDescent
    <3> QED
      BY <3>1, <3>2
  <2>9. f \in [first..n -> T]
    <3> SUFFICES ASSUME NEW k \in first..n PROVE f[k] \in T
      OBVIOUS
    <3> HIDE DEF value
    <3> QED
      BY <2>6, <2>8
  <2>10. ASSUME NEW k \in first..n PROVE Unrolls(f, k, n, next, base, step)
    <3>1. CASE k = first
      <4>1. f[k] = value
        BY <3>1
      <4>2. ~(next[k] > n) => f[next[k]] = g[next[k]]
        BY <2>7
      <4> HIDE DEF f
      <4> QED
        BY <3>1, <4>1, <4>2 DEF Unrolls
    <3>2. CASE k # first
      <4>1. f[k] = g[k] /\ k \in first+1..n
        BY <3>2, <2>6
      <4>2. ~(next[k] > n) => f[next[k]] = g[next[k]]
        BY <2>7
      <4>3. Unrolls(g, k, n, next, base, step)
        BY <4>1, <2>5, <2>6
      <4> HIDE DEF f
      <4> QED
        BY <4>1, <4>2, <4>3 DEF Unrolls
    <3> QED
      BY <3>1, <3>2
  <2>11. f \in [n+1-m..n -> T] /\ From(m, f)
    <3> HIDE DEF f
    <3> QED
      BY <2>9, <2>10 DEF first
  <2> QED
    BY <2>2, <2>11
<1>2. PICK f \in [n+1-n..n -> T] : From(n, f)
  BY <1>1
<1>3. n + 1 - n = 1
  OBVIOUS
<1> QED
  BY <1>2, <1>3 DEF IsUnrolled

-----------------------------------------------------------------------------
(* The pure encoder.                                                       *)

NonZero == 1..FullCode
Groups == {g \in Seq(NonZero) : Len(g) <= MaxGroup}
Accs == [out : Seq(NonZero), grp : Groups]

LEMMA GroupType ==
    ASSUME NEW g \in Groups
    PROVE  Group(g) \in Seq(NonZero) /\ Len(Group(g)) = Len(g) + 1
<1>1. g \in Seq(NonZero) /\ Len(g) \in Nat /\ Len(g) + 1 \in NonZero
  BY MaxGroupAssumption, LenProperties DEF Groups, NonZero, FullCode
<1>2. <<Len(g) + 1>> \in Seq(NonZero) /\ Len(<<Len(g) + 1>>) = 1
  BY <1>1
<1> QED
  BY <1>1, <1>2, ConcatProperties DEF Group

LEMMA EmptyGroup == <<>> \in Groups /\ Group(<<>>) = <<1>>
BY MaxGroupAssumption DEF Groups, Group

\* What a byte does to the groups, without the intermediate flush.
LEMMA EncodeByteIs ==
    ASSUME NEW acc \in Accs, NEW b \in WireByte
    PROVE  LET full == Len(acc.grp) = MaxGroup
           IN  /\ EncodeByte(acc, b) \in Accs
               /\ b # 0 => /\ EncodeByte(acc, b).out = IF full THEN acc.out \o Group(acc.grp)
                                                       ELSE acc.out
                           /\ EncodeByte(acc, b).grp = IF full THEN <<b>> ELSE Append(acc.grp, b)
               /\ b = 0 => /\ EncodeByte(acc, b).out =
                                IF full THEN (acc.out \o Group(acc.grp)) \o <<1>>
                                ELSE acc.out \o Group(acc.grp)
                           /\ EncodeByte(acc, b).grp = <<>>
<1> DEFINE full == Len(acc.grp) = MaxGroup
<1>1. /\ acc.out \in Seq(NonZero) /\ acc.grp \in Seq(NonZero) /\ Len(acc.grp) \in Nat
      /\ Len(acc.grp) <= MaxGroup /\ acc.grp \in Groups /\ MaxGroup \in Nat \ {0}
  BY MaxGroupAssumption, LenProperties DEF Accs, Groups
<1>2. acc.out \o Group(acc.grp) \in Seq(NonZero)
  BY <1>1, GroupType, ConcatProperties
<1>3. (acc.out \o Group(acc.grp)) \o <<1>> \in Seq(NonZero)
  <2>1. <<1>> \in Seq(NonZero)
    BY <1>1 DEF NonZero, FullCode
  <2> QED
    BY <1>2, <2>1, ConcatProperties
<1>4. CASE b # 0
  <2>1. b \in NonZero
    BY <1>4 DEF WireByte, NonZero, FullCode
  <2>2. CASE full
    <3>1. EncodeByte(acc, b) = [out |-> acc.out \o Group(acc.grp), grp |-> Append(<<>>, b)]
      BY <1>4, <2>2 DEF EncodeByte
    <3>2. Append(<<>>, b) = <<b>> /\ <<b>> \in Groups
      BY <2>1, <1>1 DEF Groups
    <3> QED
      BY <3>1, <3>2, <1>2, <1>4, <2>2 DEF Accs
  <2>3. CASE ~full
    <3>1. EncodeByte(acc, b) = [acc EXCEPT !.grp = Append(@, b)]
      BY <1>4, <2>3 DEF EncodeByte
    <3>2. Append(acc.grp, b) \in Groups
      BY <2>1, <1>1, <2>3, AppendProperties DEF Groups
    <3> QED
      BY <3>1, <3>2, <1>1, <1>4, <2>3 DEF Accs
  <2> QED
    BY <2>2, <2>3
<1>5. CASE b = 0
  <2>1. CASE full
    <3>1. EncodeByte(acc, b) = [out |-> (acc.out \o Group(acc.grp)) \o Group(<<>>), grp |-> <<>>]
      BY <1>5, <2>1 DEF EncodeByte
    <3>2. EncodeByte(acc, b) = [out |-> (acc.out \o Group(acc.grp)) \o <<1>>, grp |-> <<>>]
      BY <3>1, EmptyGroup, Zenon
    <3> QED
      BY <3>2, EmptyGroup, <1>3, <1>5, <2>1 DEF Accs
  <2>2. CASE ~full
    <3>1. EncodeByte(acc, b) = [out |-> acc.out \o Group(acc.grp), grp |-> <<>>]
      BY <1>5, <2>2 DEF EncodeByte
    <3> QED
      BY <3>1, EmptyGroup, <1>2, <1>5, <2>2 DEF Accs
  <2> QED
    BY <2>1, <2>2
<1> QED
  BY <1>4, <1>5

\* The groups after all bytes, and how one byte more extends them.
Encoded(bytes) == EncodeBytes(bytes)[Len(bytes)]

LEMMA EncodeBytesUnfold ==
    ASSUME NEW s \in Seq(WireByte)
    PROVE  /\ \A i \in 0..Len(s) : EncodeBytes(s)[i] \in Accs
           /\ EncodeBytes(s)[0] = [out |-> <<>>, grp |-> <<>>]
           /\ \A i \in 1..Len(s) : EncodeBytes(s)[i] = EncodeByte(EncodeBytes(s)[i-1], s[i])
<1> DEFINE start == [out |-> <<>>, grp |-> <<>>]
           step == [x \in Accs \X WireByte |-> EncodeByte(x[1], x[2])]
           Is(f) == f = [i \in 0..Len(s) |-> IF i = 0 THEN start ELSE EncodeByte(f[i-1], s[i])]
<1>1. start \in Accs
  BY EmptyGroup DEF Accs
<1>2. IsStep(step, Accs, WireByte)
  BY EncodeByteIs DEF IsStep
<1>3. Len(s) \in Nat /\ \A i \in 1..Len(s) : s[i] \in WireByte
  BY LenProperties, ElementOfSeq
<1>4. PICK f \in [0..Len(s) -> Accs] :
          f[0] = start /\ \A i \in 1..Len(s) : f[i] = step[<<f[i-1], s[i]>>]
  <2> HIDE DEF start, step
  <2> QED
    BY <1>1, <1>2, FoldExists DEF IsFold
<1>5. \A i \in 0..Len(s) : i # 0 => step[<<f[i-1], s[i]>>] = EncodeByte(f[i-1], s[i])
  <2> TAKE i \in 0..Len(s)
  <2> HAVE i # 0
  <2>1. i \in 1..Len(s) /\ i - 1 \in 0..Len(s)
    BY <1>3
  <2>2. <<f[i-1], s[i]>> \in Accs \X WireByte
    BY <2>1, <1>3
  <2> QED
    BY <2>2
<1>6. Is(f)
  <2> HIDE DEF start, step
  <2>1. \A i \in 0..Len(s) : i # 0 => i \in 1..Len(s)
    BY <1>3
  <2>2. \A i \in 0..Len(s) : f[i] = IF i = 0 THEN start ELSE EncodeByte(f[i-1], s[i])
    BY <2>1, <1>4, <1>5
  <2>3. f = [i \in 0..Len(s) |-> f[i]]
    OBVIOUS
  <2> QED
    BY <2>2, <2>3, Zenon
<1>7. EncodeBytes(s) = CHOOSE acc : Is(acc)
  BY DEF EncodeBytes
<1>8. Is(EncodeBytes(s))
  <2> HIDE DEF Is
  <2> QED
    BY <1>6, <1>7
<1> DEFINE e == EncodeBytes(s)
<1>9. e[0] = start /\ \A i \in 1..Len(s) : e[i] = EncodeByte(e[i-1], s[i])
  <2> HIDE DEF start, e
  <2>1. e = [i \in 0..Len(s) |-> IF i = 0 THEN start ELSE EncodeByte(e[i-1], s[i])]
    BY <1>8 DEF e
  <2>2. 0 \in 0..Len(s) /\ \A i \in 1..Len(s) : i # 0 /\ i \in 0..Len(s)
    BY <1>3
  <2> QED
    BY <2>1, <2>2, Zenon
<1>10. \A i \in 0..Len(s) : e[i] \in Accs
  <2> HIDE DEF e
  <2> SUFFICES ASSUME NEW n \in 0..Len(s), e[n] \notin Accs PROVE FALSE
    OBVIOUS
  <2> DEFINE Bad == {i \in Nat : i <= Len(s) /\ e[i] \notin Accs}
  <2>1. PICK m \in Bad : \A k \in Bad : m <= k
    <3>1. Bad # {} /\ Bad \in SUBSET Nat
      BY <1>3
    <3> HIDE DEF Bad
    <3> QED
      BY <3>1, Least
  <2>2. m \in Nat /\ m <= Len(s) /\ e[m] \notin Accs /\ m # 0
    BY <1>9, <1>1
  <2>3. m \in 1..Len(s) /\ m - 1 \in Nat /\ m - 1 <= Len(s) /\ ~(m <= m - 1)
    BY <2>2, <1>3
  <2>4. m - 1 \notin Bad
    <3> HIDE DEF Bad
    <3> QED
      BY <2>1, <2>3
  <2>5. e[m-1] \in Accs
    BY <2>3, <2>4
  <2> QED
    BY <2>2, <2>3, <2>5, <1>3, <1>9, EncodeByteIs
<1> QED
  BY <1>9, <1>10

LEMMA EncodedType == ASSUME NEW s \in Seq(WireByte) PROVE Encoded(s) \in Accs
<1>1. Len(s) \in 0..Len(s)
  BY LenProperties
<1> QED
  BY <1>1, EncodeBytesUnfold DEF Encoded

LEMMA EncodedEmpty == Encoded(<<>>) = [out |-> <<>>, grp |-> <<>>]
<1>1. <<>> \in Seq(WireByte) /\ Len(<<>>) = 0
  OBVIOUS
<1> QED
  BY <1>1, EncodeBytesUnfold DEF Encoded

LEMMA EncodedAppend ==
    ASSUME NEW s \in Seq(WireByte), NEW b \in WireByte
    PROVE  Encoded(Append(s, b)) = EncodeByte(Encoded(s), b)
<1> DEFINE t == Append(s, b)
           step == [x \in Accs \X WireByte |-> EncodeByte(x[1], x[2])]
           f == EncodeBytes(s)
           g == EncodeBytes(t)
<1>1. /\ t \in Seq(WireByte) /\ Len(s) \in Nat /\ Len(t) = Len(s) + 1
      /\ t[Len(t)] = b /\ \A i \in 1..Len(s) : t[i] = s[i] /\ s[i] \in WireByte
  BY AppendProperties, LenProperties, ElementOfSeq
<1>2. SameSteps(Len(s), step, s, t, f, g)
  <2> USE DEF SameSteps
  <2> HIDE DEF t, f, g
  <2> TAKE i \in 1..Len(s)
  <2>1. i \in 1..Len(t) /\ i - 1 \in 0..Len(s) /\ i - 1 \in 0..Len(t)
    BY <1>1
  <2>2. <<f[i-1], s[i]>> \in Accs \X WireByte /\ <<g[i-1], t[i]>> \in Accs \X WireByte
    BY <2>1, <1>1, EncodeBytesUnfold DEF f, g
  <2>3. f[i] = EncodeByte(f[i-1], s[i]) /\ g[i] = EncodeByte(g[i-1], t[i])
    BY <2>1, <1>1, EncodeBytesUnfold DEF f, g
  <2> QED
    BY <2>2, <2>3, <1>1
<1>3. f[0] = g[0]
  <2> HIDE DEF t
  <2> QED
    BY <1>1, EncodeBytesUnfold
<1>4. f[Len(s)] = g[Len(s)]
  <2> HIDE DEF t, f, g, step
  <2> QED
    BY <1>1, <1>2, <1>3, FoldsAgree
<1>5. g[Len(t)] = EncodeByte(g[Len(t) - 1], t[Len(t)])
  <2> HIDE DEF t
  <2>1. Len(t) \in 1..Len(t)
    BY <1>1
  <2> QED
    BY <2>1, <1>1, EncodeBytesUnfold
<1>6. Len(t) - 1 = Len(s)
  BY <1>1
<1> QED
  BY <1>1, <1>4, <1>5, <1>6 DEF Encoded

-----------------------------------------------------------------------------
(* The pure decoder.                                                       *)

Results == {None} \cup {Some(x) : x \in Seq(WireByte)}

\* Of the group at k: its last position, its data, and the zero that a code
\* other than that of a full group stands for.
GroupEnd(s, k) == k + s[k] - 1
GroupData(s, k) == SubSeq(s, k + 1, GroupEnd(s, k))
ZeroOf(code) == IF code = FullCode THEN <<>> ELSE <<0>>
Prefixed(front, r) == IF r = None THEN None ELSE Some(front \o r[1])

LEMMA ResultCases ==
    ASSUME NEW r \in Results
    PROVE  r # None => r[1] \in Seq(WireByte) /\ r = Some(r[1])
BY DEF Results, None, Some

LEMMA SomeIs ==
    /\ \A x : Some(x) # None /\ Some(x)[1] = x
    /\ \A x, y : Some(x) = Some(y) => x = y
    /\ None \in Results /\ \A x \in Seq(WireByte) : Some(x) \in Results
<1>1. \A x, y : <<x>> = <<y>> => x = y
  <2> TAKE x, y
  <2> HAVE <<x>> = <<y>>
  <2>1. <<x>>[1] = x /\ <<y>>[1] = y
    OBVIOUS
  <2> QED
    BY <2>1
<1> QED
  BY <1>1 DEF Some, None, Results

LEMMA PrefixedType ==
    ASSUME NEW r \in Results, NEW front \in Seq(WireByte)
    PROVE  Prefixed(front, r) \in Results
<1>1. CASE r = None
  BY <1>1, SomeIs DEF Prefixed
<1>2. CASE r # None
  <2>1. front \o r[1] \in Seq(WireByte)
    BY <1>2, ResultCases, ConcatProperties
  <2> QED
    BY <1>2, <2>1, SomeIs DEF Prefixed
<1> QED
  BY <1>1, <1>2

LEMMA PrefixedTwice ==
    ASSUME NEW r \in Results, NEW x \in Seq(WireByte), NEW y \in Seq(WireByte)
    PROVE  Prefixed(x, Prefixed(y, r)) = Prefixed(x \o y, r)
<1>1. CASE r = None
  BY <1>1 DEF Prefixed
<1>2. CASE r # None
  <2> DEFINE z == r[1]
  <2>0. z \in Seq(WireByte)
    BY <1>2, ResultCases
  <2>1. (x \o y) \o z = x \o (y \o z)
    <3> HIDE DEF z
    <3> QED
      BY <2>0, ConcatAssociative
  <2> QED
    BY <1>2, <2>1, SomeIs DEF Prefixed
<1> QED
  BY <1>1, <1>2

LEMMA GroupFacts ==
    ASSUME NEW s \in Seq(WireByte), NEW k \in 1..Len(s), s[k] # 0
    PROVE  /\ Len(s) \in Nat /\ s[k] \in NonZero
           /\ GroupEnd(s, k) \in Nat /\ GroupEnd(s, k) >= k
           /\ ZeroOf(s[k]) \in Seq(WireByte)
           /\ GroupEnd(s, k) <= Len(s) => /\ GroupData(s, k) \in Seq(WireByte)
                                          /\ GroupData(s, k) \o ZeroOf(s[k]) \in Seq(WireByte)
<1>1. Len(s) \in Nat /\ s[k] \in NonZero /\ 0 \in WireByte
  BY LenProperties, ElementOfSeq, MaxGroupAssumption DEF NonZero, WireByte, FullCode
<1>2. GroupEnd(s, k) \in Nat /\ GroupEnd(s, k) >= k
  BY <1>1, MaxGroupAssumption DEF GroupEnd, NonZero, FullCode
<1>3. ZeroOf(s[k]) \in Seq(WireByte)
  BY <1>1 DEF ZeroOf
<1>4. ASSUME GroupEnd(s, k) <= Len(s) PROVE GroupData(s, k) \in Seq(WireByte)
  <2>1. \A i \in k+1..GroupEnd(s, k) : i \in 1..Len(s)
    BY <1>1, <1>2, <1>4
  <2>2. \A i \in k+1..GroupEnd(s, k) : s[i] \in WireByte
    BY <2>1, ElementOfSeq
  <2> QED
    BY <2>2, <1>2, SubSeqProperties DEF GroupData
<1> QED
  BY <1>1, <1>2, <1>3, <1>4, ConcatProperties

\* Three strings of bytes in a row.
LEMMA Regroup == \A s, t, u \in Seq(WireByte) : (s \o t) \o u = s \o (t \o u)
  BY ConcatAssociative

LEMMA Joined == \A s, t \in Seq(WireByte) : s \o t \in Seq(WireByte)
  BY ConcatProperties

LEMMA NonZeroBytes ==
    /\ NonZero \subseteq WireByte
    /\ \A s \in Seq(NonZero) : s \in Seq(WireByte) /\ ~Contains(s, 0)
    /\ \A s \in Seq(WireByte) : ~Contains(s, 0) => s \in Seq(NonZero)
<1>1. NonZero \subseteq WireByte /\ 0 \notin NonZero /\ \A b \in WireByte : b # 0 => b \in NonZero
  BY MaxGroupAssumption DEF NonZero, WireByte, FullCode
<1>2. \A s \in Seq(NonZero) : s \in Seq(WireByte) /\ ~Contains(s, 0)
  BY <1>1, SeqMonotonic, ElementOfSeq DEF Contains
<1>3. ASSUME NEW s \in Seq(WireByte), ~Contains(s, 0) PROVE s \in Seq(NonZero)
  <2>1. \A i \in 1..Len(s) : s[i] \in NonZero
    BY <1>1, <1>3, ElementOfSeq DEF Contains
  <2> QED
    BY <2>1, LenProperties
<1> QED
  BY <1>1, <1>2, <1>3

\* What GroupsFrom has at each position of a sequence without zeros.
LEMMA GroupsUnfold ==
    ASSUME NEW s \in Seq(NonZero), NEW k \in 1..Len(s)
    PROVE  LET go == GroupsFrom(s)
           IN  /\ go[k] \in Results
               /\ GroupEnd(s, k) > Len(s) => go[k] = None
               /\ GroupEnd(s, k) = Len(s) => go[k] = Some(GroupData(s, k))
               /\ GroupEnd(s, k) < Len(s) =>
                    /\ GroupEnd(s, k) + 1 \in 1..Len(s) /\ go[GroupEnd(s, k) + 1] \in Results
                    /\ go[k] = Prefixed(GroupData(s, k) \o ZeroOf(s[k]), go[GroupEnd(s, k) + 1])
<1> DEFINE n == Len(s)
           next == [j \in 1..n |-> GroupEnd(s, j) + 1]
           base == [j \in 1..n |-> IF GroupEnd(s, j) > n THEN None ELSE Some(GroupData(s, j))]
           step == [x \in (1..n) \X Results |->
                      IF GroupEnd(s, x[1]) > n THEN None
                      ELSE Prefixed(GroupData(s, x[1]) \o ZeroOf(s[x[1]]), x[2])]
           Body(f, j) == IF GroupEnd(s, j) > n THEN None
                         ELSE IF GroupEnd(s, j) = n THEN Some(GroupData(s, j))
                         ELSE Prefixed(GroupData(s, j) \o ZeroOf(s[j]), f[GroupEnd(s, j) + 1])
           Is(f) == f = [j \in 1..n |-> Body(f, j)]
<1>1. n \in Nat /\ s \in Seq(WireByte) /\ \A j \in 1..n : s[j] # 0
  <2>1. \A j \in 1..n : s[j] \in NonZero
    BY ElementOfSeq
  <2>2. 0 \notin NonZero
    BY MaxGroupAssumption DEF NonZero, FullCode
  <2> QED
    BY <2>1, <2>2, LenProperties, NonZeroBytes
<1>2. \A j \in 1..n : /\ GroupEnd(s, j) \in Nat /\ GroupEnd(s, j) >= j
                      /\ GroupEnd(s, j) <= n => /\ GroupData(s, j) \in Seq(WireByte)
                                                /\ GroupData(s, j) \o ZeroOf(s[j]) \in Seq(WireByte)
  BY <1>1, GroupFacts
<1> HIDE DEF n
<1>3. IsDescent(n, Results, next, base, step)
  <2>1. next \in [1..n -> Nat] /\ \A j \in 1..n : next[j] > j
    BY <1>1, <1>2
  <2>2. base \in [1..n -> Results]
    <3> SUFFICES ASSUME NEW j \in 1..n PROVE base[j] \in Results
      OBVIOUS
    <3> QED
      BY <1>1, <1>2, SomeIs
  <2>3. step \in [(1..n) \X Results -> Results]
    <3> SUFFICES ASSUME NEW x \in (1..n) \X Results PROVE step[x] \in Results
      OBVIOUS
    <3>1. x[1] \in 1..n /\ x[2] \in Results
      OBVIOUS
    <3>2. ASSUME ~(GroupEnd(s, x[1]) > n)
          PROVE  Prefixed(GroupData(s, x[1]) \o ZeroOf(s[x[1]]), x[2]) \in Results
      <4>1. GroupEnd(s, x[1]) <= n
        BY <3>1, <3>2, <1>1, <1>2
      <4> QED
        BY <3>1, <4>1, <1>2, PrefixedType
    <3> QED
      BY <3>1, <3>2, SomeIs
  <2> QED
    BY <2>1, <2>2, <2>3 DEF IsDescent
<1>4. PICK f : IsUnrolled(f, n, Results, next, base, step)
  <2> HIDE DEF next, base, step
  <2> QED
    BY <1>1, <1>3, DescentExists
<1>5. f \in [1..n -> Results] /\ \A j \in 1..n : Unrolls(f, j, n, next, base, step)
  BY <1>4 DEF IsUnrolled
<1>6. \A j \in 1..n : f[j] = Body(f, j)
  <2> TAKE j \in 1..n
  <2>1. f[j] = IF next[j] > n THEN base[j] ELSE step[<<j, f[next[j]]>>]
    BY <1>5 DEF Unrolls
  <2>2. next[j] = GroupEnd(s, j) + 1 /\ GroupEnd(s, j) \in Nat /\ GroupEnd(s, j) >= j
    BY <1>2
  <2>3. base[j] = IF GroupEnd(s, j) > n THEN None ELSE Some(GroupData(s, j))
    OBVIOUS
  <2>4. ASSUME GroupEnd(s, j) < n
        PROVE  step[<<j, f[next[j]]>>]
                 = Prefixed(GroupData(s, j) \o ZeroOf(s[j]), f[GroupEnd(s, j) + 1])
    <3>1. GroupEnd(s, j) + 1 \in 1..n
      BY <2>2, <2>4, <1>1
    <3>2. f[next[j]] \in Results
      BY <2>2, <3>1, <1>5
    <3>3. <<j, f[next[j]]>> \in (1..n) \X Results /\ ~(GroupEnd(s, j) > n)
      BY <3>2, <2>2, <2>4, <1>1
    <3> HIDE DEF next
    <3> QED
      BY <3>3, <2>2
  <2> HIDE DEF next, base, step
  <2>5. CASE GroupEnd(s, j) > n
    BY <2>1, <2>2, <2>3, <2>5, <1>1
  <2>6. CASE GroupEnd(s, j) = n
    BY <2>1, <2>2, <2>3, <2>6, <1>1
  <2>7. CASE GroupEnd(s, j) < n
    BY <2>1, <2>2, <2>4, <2>7, <1>1
  <2> QED
    BY <2>2, <2>5, <2>6, <2>7, <1>1
<1>7. Is(f)
  <2>1. f = [j \in 1..n |-> f[j]]
    BY <1>5
  <2> HIDE DEF Body
  <2> QED
    BY <2>1, <1>6, Zenon
<1>8. GroupsFrom(s) = CHOOSE go : Is(go)
  BY DEF GroupsFrom, n, GroupEnd, GroupData, ZeroOf, Prefixed
<1>9. Is(GroupsFrom(s))
  <2> HIDE DEF Is
  <2> QED
    BY <1>7, <1>8
<1> DEFINE go == GroupsFrom(s)
<1>10. \A j \in 1..n : go[j] = Body(go, j)
  <2> HIDE DEF Body, go
  <2>1. go = [j \in 1..n |-> Body(go, j)]
    BY <1>9 DEF go
  <2> QED
    BY <2>1, Zenon
<1> HIDE DEF go
<1>11. \A j \in 1..n : go[j] \in Results
  <2> SUFFICES ASSUME NEW i \in 1..n, go[i] \notin Results PROVE FALSE
    OBVIOUS
  <2> DEFINE Bad == {j \in Nat : j < n /\ go[n - j] \notin Results}
  <2>1. PICK m \in Bad : \A j \in Bad : m <= j
    <3>1. n - i \in Nat /\ n - i < n /\ n - (n - i) = i
      BY <1>1
    <3>2. Bad # {} /\ Bad \in SUBSET Nat
      BY <3>1
    <3> HIDE DEF Bad
    <3> QED
      BY <3>2, Least
  <2> DEFINE k0 == n - m
  <2>2. m \in Nat /\ m < n /\ go[k0] \notin Results
    OBVIOUS
  <2>3. k0 \in 1..n /\ m = n - k0
    BY <2>2, <1>1
  <2>4. \A j \in 1..n : j > k0 => go[j] \in Results
    <3> TAKE j \in 1..n
    <3> HAVE j > k0
    <3>1. n - j \in Nat /\ n - j < n /\ ~(m <= n - j) /\ n - (n - j) = j
      BY <2>3, <1>1
    <3>2. n - j \notin Bad
      <4> HIDE DEF Bad
      <4> QED
        BY <3>1, <2>1
    <3> QED
      BY <3>1, <3>2
  <2> HIDE DEF k0
  <2>5. go[k0] = Body(go, k0)
    BY <2>3, <1>10
  <2>6. CASE GroupEnd(s, k0) >= n
    BY <2>2, <2>3, <2>5, <2>6, <1>1, <1>2, SomeIs
  <2>7. CASE GroupEnd(s, k0) < n
    <3>1. GroupEnd(s, k0) + 1 \in 1..n /\ GroupEnd(s, k0) + 1 > k0 /\ GroupEnd(s, k0) <= n
      BY <2>3, <2>7, <1>1, <1>2
    <3>2. go[GroupEnd(s, k0) + 1] \in Results
      BY <3>1, <2>4
    <3>3. Prefixed(GroupData(s, k0) \o ZeroOf(s[k0]), go[GroupEnd(s, k0) + 1]) \in Results
      BY <3>1, <3>2, <2>3, <1>2, PrefixedType
    <3>4. ~(GroupEnd(s, k0) > n) /\ GroupEnd(s, k0) # n
      BY <2>3, <2>7, <1>1, <1>2
    <3> QED
      BY <3>3, <3>4, <2>2, <2>5
  <2> QED
    BY <2>3, <2>6, <2>7, <1>1, <1>2
<1>12. k \in 1..n /\ GroupEnd(s, k) \in Nat /\ GroupEnd(s, k) >= k /\ go[k] = Body(go, k)
  BY <1>2, <1>10 DEF n
<1>13. GroupEnd(s, k) > n => go[k] = None
  BY <1>12
<1>14. GroupEnd(s, k) = n => go[k] = Some(GroupData(s, k))
  BY <1>1, <1>12
<1>15. GroupEnd(s, k) < n =>
         /\ GroupEnd(s, k) + 1 \in 1..n /\ go[GroupEnd(s, k) + 1] \in Results
         /\ go[k] = Prefixed(GroupData(s, k) \o ZeroOf(s[k]), go[GroupEnd(s, k) + 1])
  <2> HAVE GroupEnd(s, k) < n
  <2>1. ~(GroupEnd(s, k) > n) /\ GroupEnd(s, k) # n /\ GroupEnd(s, k) + 1 \in 1..n
    BY <1>1, <1>12
  <2> QED
    BY <2>1, <1>11, <1>12
<1> QED
  BY <1>11, <1>12, <1>13, <1>14, <1>15 DEF go, n

\* What the host's loop has at each index of a sequence.
LEMMA HostUnfold ==
    ASSUME NEW s \in Seq(WireByte)
    PROVE  LET n == Len(s)
               loop == HostLoop(s)
           IN  /\ loop[n+1] = Some(<<>>)
               /\ \A k \in 1..n :
                    /\ s[k] = 0 \/ GroupEnd(s, k) > n \/ Contains(GroupData(s, k), 0)
                         => loop[k] = None
                    /\ ~(s[k] = 0 \/ GroupEnd(s, k) > n \/ Contains(GroupData(s, k), 0))
                         => loop[k] = Prefixed(GroupData(s, k) \o
                                         (IF s[k] # FullCode /\ GroupEnd(s, k) < n THEN <<0>> ELSE <<>>),
                                         loop[GroupEnd(s, k) + 1])
<1> DEFINE n == Len(s)
           Bad(j) == s[j] = 0 \/ GroupEnd(s, j) > n \/ Contains(GroupData(s, j), 0)
           Out(j) == GroupData(s, j) \o
                         (IF s[j] # FullCode /\ GroupEnd(s, j) < n THEN <<0>> ELSE <<>>)
           next == [j \in 1..n+1 |-> IF j = n + 1 \/ Bad(j) THEN n + 2 ELSE GroupEnd(s, j) + 1]
           base == [j \in 1..n+1 |-> IF j = n + 1 THEN Some(<<>>) ELSE None]
           step == [x \in (1..n+1) \X Results |->
                      IF x[1] = n + 1 \/ Bad(x[1]) THEN None ELSE Prefixed(Out(x[1]), x[2])]
           Body(f, j) == IF j = n + 1 THEN Some(<<>>)
                         ELSE IF Bad(j) THEN None
                         ELSE Prefixed(Out(j), f[GroupEnd(s, j) + 1])
           Is(f) == f = [j \in 1..n+1 |-> Body(f, j)]
<1>1. n \in Nat /\ n + 1 \in Nat
  BY LenProperties
<1>2. \A j \in 1..n+1 : ~(j = n + 1) /\ ~Bad(j) =>
         /\ j \in 1..n /\ GroupEnd(s, j) \in Nat /\ GroupEnd(s, j) >= j /\ GroupEnd(s, j) <= n
         /\ Out(j) \in Seq(WireByte)
  <2> TAKE j \in 1..n+1
  <2> HAVE ~(j = n + 1) /\ ~Bad(j)
  <2>1. j \in 1..n /\ s[j] # 0
    BY <1>1
  <2>2. GroupEnd(s, j) \in Nat /\ GroupEnd(s, j) >= j /\ GroupEnd(s, j) <= n
    BY <2>1, <1>1, GroupFacts
  <2>3. GroupData(s, j) \in Seq(WireByte) /\ 0 \in WireByte
    BY <2>1, <2>2, GroupFacts, MaxGroupAssumption DEF WireByte, FullCode
  <2>4. (IF s[j] # FullCode /\ GroupEnd(s, j) < n THEN <<0>> ELSE <<>>) \in Seq(WireByte)
    BY <2>3
  <2> QED
    BY <2>1, <2>2, <2>3, <2>4, ConcatProperties
<1> HIDE DEF n, Bad, Out
<1>3. IsDescent(n + 1, Results, next, base, step)
  <2>1. next \in [1..n+1 -> Nat] /\ \A j \in 1..n+1 : next[j] > j
    BY <1>1, <1>2
  <2>2. base \in [1..n+1 -> Results]
    <3>1. <<>> \in Seq(WireByte)
      OBVIOUS
    <3> QED
      BY <3>1, <1>1, SomeIs
  <2>3. step \in [(1..n+1) \X Results -> Results]
    <3> SUFFICES ASSUME NEW x \in (1..n+1) \X Results PROVE step[x] \in Results
      OBVIOUS
    <3>1. x[1] \in 1..n+1 /\ x[2] \in Results
      OBVIOUS
    <3>2. ASSUME ~(x[1] = n + 1), ~Bad(x[1]) PROVE Prefixed(Out(x[1]), x[2]) \in Results
      BY <3>1, <3>2, <1>2, PrefixedType
    <3> QED
      BY <3>1, <3>2, SomeIs
  <2> QED
    BY <2>1, <2>2, <2>3 DEF IsDescent
<1>4. PICK f : IsUnrolled(f, n + 1, Results, next, base, step)
  <2> HIDE DEF next, base, step
  <2> QED
    BY <1>1, <1>3, DescentExists
<1>5. f \in [1..n+1 -> Results] /\ \A j \in 1..n+1 : Unrolls(f, j, n + 1, next, base, step)
  BY <1>4 DEF IsUnrolled
<1>6. \A j \in 1..n+1 : f[j] = Body(f, j)
  <2> TAKE j \in 1..n+1
  <2>1. f[j] = IF next[j] > n + 1 THEN base[j] ELSE step[<<j, f[next[j]]>>]
    BY <1>5 DEF Unrolls
  <2>2. CASE j = n + 1
    <3>1. next[j] = n + 2 /\ base[j] = Some(<<>>)
      BY <2>2
    <3> HIDE DEF next, base, step
    <3> QED
      BY <2>1, <2>2, <3>1, <1>1
  <2>3. CASE j # n + 1 /\ Bad(j)
    <3>1. next[j] = n + 2 /\ base[j] = None
      BY <2>3
    <3> HIDE DEF next, base, step
    <3> QED
      BY <2>1, <2>3, <3>1, <1>1
  <2>4. CASE j # n + 1 /\ ~Bad(j)
    <3>1. next[j] = GroupEnd(s, j) + 1 /\ GroupEnd(s, j) \in Nat /\ GroupEnd(s, j) <= n
      BY <2>4, <1>2
    <3>2. next[j] \in 1..n+1 /\ ~(next[j] > n + 1)
      BY <3>1, <1>1
    <3>3. <<j, f[next[j]]>> \in (1..n+1) \X Results
      BY <3>2, <1>5
    <3>4. step[<<j, f[next[j]]>>] = Prefixed(Out(j), f[next[j]])
      <4> HIDE DEF next
      <4> QED
        BY <3>3, <2>4
    <3> HIDE DEF next, base, step
    <3> QED
      BY <2>1, <2>4, <3>1, <3>2, <3>4
  <2> QED
    BY <2>2, <2>3, <2>4
<1>7. Is(f)
  <2>1. f = [j \in 1..n+1 |-> f[j]]
    BY <1>5
  <2> HIDE DEF Body
  <2> QED
    BY <2>1, <1>6, Zenon
<1>8. HostLoop(s) = CHOOSE loop : Is(loop)
  BY DEF HostLoop, n, Bad, Out, GroupEnd, GroupData, Prefixed
<1>9. Is(HostLoop(s))
  <2> HIDE DEF Is
  <2> QED
    BY <1>7, <1>8
<1> DEFINE loop == HostLoop(s)
<1>10. \A j \in 1..n+1 : loop[j] = Body(loop, j)
  <2> HIDE DEF Body, loop
  <2>1. loop = [j \in 1..n+1 |-> Body(loop, j)]
    BY <1>9 DEF loop
  <2> QED
    BY <2>1, Zenon
<1> HIDE DEF loop
<1>11. n + 1 \in 1..n+1 /\ \A j \in 1..n : j \in 1..n+1 /\ j # n + 1
  BY <1>1
<1>12. loop[n+1] = Some(<<>>)
  BY <1>10, <1>11
<1>13. ASSUME NEW j \in 1..n
       PROVE  /\ Bad(j) => loop[j] = None
              /\ ~Bad(j) => loop[j] = Prefixed(Out(j), loop[GroupEnd(s, j) + 1])
  BY <1>10, <1>11
<1> QED
  BY <1>12, <1>13 DEF loop, n, Bad, Out

-----------------------------------------------------------------------------
(* The streaming decoder.  Having read the first m bytes of s, it is in    *)
(* state d and has yielded plain; what the pure decoder makes of s is plain *)
(* followed by what it makes of the rest.                                  *)

Decs == [cnt : 0..MaxGroup, full : BOOLEAN, pend : BOOLEAN, got : BOOLEAN]
OwedZero(owed) == IF owed THEN <<0>> ELSE <<>>

Follows(s, m, d, plain) ==
    LET n == Len(s)
        end == m + d.cnt
        go == GroupsFrom(s)
    IN  /\ d.cnt = 0 /\ m = n /\ m > 0 => go[1] = Some(plain)
        /\ d.cnt = 0 /\ m < n => go[1] = Prefixed(plain \o OwedZero(d.pend), go[m+1])
        /\ d.cnt > 0 /\ end > n => go[1] = None
        /\ d.cnt > 0 /\ end = n => go[1] = Some(plain \o SubSeq(s, m+1, end))
        /\ d.cnt > 0 /\ end < n =>
              go[1] = Prefixed((plain \o SubSeq(s, m+1, end)) \o OwedZero(~d.full), go[end+1])

LEMMA OwedZeroType == \A x : OwedZero(x) \in Seq(WireByte)
<1>1. 0 \in WireByte
  BY MaxGroupAssumption DEF WireByte, FullCode
<1> QED
  BY <1>1 DEF OwedZero

LEMMA SliceType ==
    ASSUME NEW s \in Seq(NonZero), NEW i \in Nat, NEW j \in Nat, 1 <= i, j <= Len(s)
    PROVE  SubSeq(s, i, j) \in Seq(WireByte) /\ (j < i => SubSeq(s, i, j) = <<>>)
<1>1. s \in Seq(WireByte) /\ Len(s) \in Nat
  BY NonZeroBytes, LenProperties
<1>2. \A x \in i..j : s[x] \in WireByte
  <2>1. \A x \in i..j : x \in 1..Len(s)
    BY <1>1
  <2> QED
    BY <2>1, <1>1, ElementOfSeq
<1> QED
  BY <1>2, SubSeqProperties, SubSeqEmpty

LEMMA CodeFollows ==
    ASSUME NEW s \in Seq(NonZero), NEW m \in Nat, m < Len(s), NEW d \in Decs, d.cnt = 0,
           NEW plain \in Seq(WireByte), Follows(s, m, d, plain)
    PROVE  LET r == DecodeByte(d, s[m+1])
           IN  r.dec \in Decs /\ r.dec.got /\ plain \o r.out \in Seq(WireByte)
               /\ Follows(s, m + 1, r.dec, plain \o r.out)
<1> DEFINE k == m + 1
           n == Len(s)
           go == GroupsFrom(s)
           b == s[k]
           end == m + b
           data == SubSeq(s, k + 1, end)
           more == plain \o OwedZero(d.pend)
           dec == [cnt |-> b - 1, full |-> b = FullCode, pend |-> b = 1, got |-> TRUE]
<1>1. /\ n \in Nat /\ k \in 1..n /\ b \in NonZero /\ b \in Nat /\ b >= 1 /\ b <= FullCode
      /\ FullCode = MaxGroup + 1 /\ FullCode # 1 /\ s \in Seq(WireByte) /\ b # 0
  <2>1. n \in Nat /\ k \in 1..n /\ s \in Seq(WireByte)
    BY LenProperties, NonZeroBytes
  <2>2. b \in NonZero
    BY <2>1, ElementOfSeq
  <2> QED
    BY <2>1, <2>2, MaxGroupAssumption DEF NonZero, FullCode
<1>2. /\ DecodeByte(d, b).dec = dec
      /\ plain \o DecodeByte(d, b).out = more
  <2> DEFINE out == IF d.pend THEN Some(0) ELSE None
  <2>1. DecodeByte(d, b) = [out |-> out, dec |-> dec]
    BY Zenon DEF DecodeByte
  <2>2. out = OwedZero(d.pend)
    BY DEF OwedZero, Some, None
  <2> HIDE DEF out, dec
  <2> QED
    BY <2>1, <2>2
<1>3. dec \in Decs /\ dec.got /\ dec.cnt = b - 1 /\ dec.full = (b = FullCode) /\ dec.pend = (b = 1)
  BY <1>1, MaxGroupAssumption DEF Decs
<1>4. more \in Seq(WireByte)
  BY OwedZeroType, Joined, Zenon
<1>5. GroupEnd(s, k) = end /\ GroupData(s, k) = data
  BY <1>1 DEF GroupEnd, GroupData
<1>6. go[1] = Prefixed(more, go[k])
  BY <1>1 DEF Follows
<1>7. ZeroOf(b) = OwedZero(b # FullCode)
  BY DEF ZeroOf, OwedZero
<1>8. end <= n => data \in Seq(WireByte) /\ (b = 1 => data = <<>>)
  <2> HAVE end <= n
  <2>1. k + 1 \in Nat /\ end \in Nat /\ 1 <= k + 1 /\ (b = 1 => end < k + 1)
    BY <1>1
  <2> QED
    BY <2>1, SliceType
<1> HIDE DEF k, n, go, b, data, more, dec, end
<1>9. end > n => go[k] = None
  BY <1>1, <1>5, GroupsUnfold DEF go, n
<1>10. end = n => go[k] = Some(data)
  BY <1>1, <1>5, GroupsUnfold DEF go, n
<1>11. end < n => go[k] = Prefixed(data \o OwedZero(b # FullCode), go[end + 1]) /\ go[end+1] \in Results
  BY <1>1, <1>5, <1>7, GroupsUnfold DEF go, n, b
<1>12. end \in Nat /\ k \in Nat /\ end = k + (b - 1)
  BY <1>1 DEF end, k
<1>13. CASE b = 1
  <2>1. end = k /\ k > 0 /\ dec.cnt = 0
    <3>1. dec.cnt = b - 1 /\ k >= 1
      BY <1>1, <1>3
    <3> QED
      BY <3>1, <1>12, <1>13
  <2>2. k = n => go[1] = Some(more)
    <3> HAVE k = n
    <3>1. go[k] = Some(<<>>)
      BY <1>8, <1>10, <1>12, <1>13, <2>1
    <3>2. more \o <<>> = more
      BY <1>4, ConcatEmptySeq
    <3> QED
      BY <3>1, <3>2, <1>6, SomeIs DEF Prefixed
  <2>3. k < n => go[1] = Prefixed(more \o OwedZero(TRUE), go[k+1])
    <3> HAVE k < n
    <3>1. end < n /\ b # FullCode /\ end <= n
      BY <2>1, <1>1, <1>13, <1>12
    <3>2. data \o OwedZero(TRUE) = OwedZero(TRUE)
      <4>1. data = <<>> /\ <<>> \o OwedZero(TRUE) = OwedZero(TRUE)
        <5>1. OwedZero(TRUE) \in Seq(WireByte)
          BY OwedZeroType, Zenon
        <5> QED
          BY <5>1, <3>1, <1>8, <1>13, ConcatEmptySeq
      <4> QED
        BY <4>1, Zenon
    <3>3. go[k] = Prefixed(OwedZero(TRUE), go[k+1]) /\ go[k+1] \in Results
      BY <3>1, <3>2, <1>11, <2>1 DEF OwedZero
    <3> DEFINE r == go[k+1]
    <3>4. r \in Results
      BY <3>3
    <3> HIDE DEF r
    <3>5. Prefixed(more, Prefixed(OwedZero(TRUE), r)) = Prefixed(more \o OwedZero(TRUE), r)
      BY <3>4, <1>4, OwedZeroType, PrefixedTwice
    <3> QED
      BY <3>3, <3>5, <1>6 DEF r
  <2>4. OwedZero(dec.pend) = OwedZero(TRUE)
    <3>1. dec.pend
      BY <1>3, <1>13
    <3> QED
      BY <3>1 DEF OwedZero
  <2>5. k < n => go[1] = Prefixed(more \o OwedZero(dec.pend), go[k+1])
    BY <2>3, <2>4
  <2>6. ~(dec.cnt > 0)
    BY <2>1
  <2>7. Follows(s, k, dec, more)
    BY <2>1, <2>2, <2>5, <2>6 DEF Follows, n, go
  <2> QED
    BY <1>2, <1>3, <1>4, <2>7 DEF k, b
<1>14. CASE b # 1
  <2>1. dec.cnt > 0 /\ dec.cnt # 0 /\ k + dec.cnt = end
    BY <1>1, <1>3, <1>12, <1>14
  <2>2. end > n => go[1] = None
    BY <1>9, <1>6 DEF Prefixed
  <2>3. end = n => go[1] = Some(more \o data)
    BY <1>10, <1>6, SomeIs DEF Prefixed
  <2>4. end < n => go[1] = Prefixed((more \o data) \o OwedZero(b # FullCode), go[end + 1])
    <3> HAVE end < n
    <3>1. data \in Seq(WireByte) /\ OwedZero(b # FullCode) \in Seq(WireByte)
      BY <1>8, <1>12, <1>1, OwedZeroType
    <3>2. data \o OwedZero(b # FullCode) \in Seq(WireByte)
      BY <3>1, ConcatProperties
    <3>3. (more \o data) \o OwedZero(b # FullCode) = more \o (data \o OwedZero(b # FullCode))
      <4> DEFINE zero == OwedZero(b # FullCode)
      <4>1. data \in Seq(WireByte) /\ zero \in Seq(WireByte)
        BY <3>1
      <4> HIDE DEF zero
      <4>2. (more \o data) \o zero = more \o (data \o zero)
        BY <4>1, <1>4, Regroup, Zenon
      <4> QED
        BY <4>2 DEF zero
    <3> DEFINE y == data \o OwedZero(b # FullCode)
               r == go[end+1]
    <3>4. go[1] = Prefixed(more \o y, r)
      <4>1. y \in Seq(WireByte) /\ r \in Results /\ go[k] = Prefixed(y, r)
        BY <3>2, <1>11
      <4> HIDE DEF y, r
      <4>2. Prefixed(more, Prefixed(y, r)) = Prefixed(more \o y, r)
        BY <4>1, <1>4, PrefixedTwice
      <4> QED
        BY <4>1, <4>2, <1>6
    <3> QED
      BY <3>3, <3>4
  <2>5. OwedZero(~dec.full) = OwedZero(b # FullCode)
    BY <1>3
  <2>6. Follows(s, k, dec, more)
    BY <2>1, <2>2, <2>3, <2>4, <2>5 DEF Follows, n, go, data
  <2> QED
    BY <1>2, <1>3, <1>4, <2>6 DEF k, b
<1> QED
  BY <1>13, <1>14

LEMMA DataFollows ==
    ASSUME NEW s \in Seq(NonZero), NEW m \in Nat, m < Len(s), NEW d \in Decs, d.cnt > 0,
           NEW plain \in Seq(WireByte), Follows(s, m, d, plain)
    PROVE  LET r == DecodeByte(d, s[m+1])
           IN  r.dec \in Decs /\ r.dec.got /\ plain \o r.out \in Seq(WireByte)
               /\ Follows(s, m + 1, r.dec, plain \o r.out)
<1> DEFINE k == m + 1
           n == Len(s)
           go == GroupsFrom(s)
           b == s[k]
           end == m + d.cnt
           more == plain \o <<b>>
           dec == [d EXCEPT !.cnt = @ - 1, !.got = TRUE, !.pend = OwesZero(d)]
           rest == SubSeq(s, k + 1, end)
           zero == OwedZero(~d.full)
<1>1. /\ n \in Nat /\ k \in Nat /\ k \in 1..n /\ b \in WireByte /\ s \in Seq(WireByte)
      /\ d.cnt \in Nat /\ d.cnt # 0 /\ d.cnt <= MaxGroup
  BY LenProperties, NonZeroBytes, ElementOfSeq, MaxGroupAssumption DEF Decs
<1>2. DecodeByte(d, b).dec = dec /\ plain \o DecodeByte(d, b).out = more
  BY <1>1 DEF DecodeByte, Some
<1>3. /\ dec \in Decs /\ dec.got /\ dec.cnt = d.cnt - 1 /\ dec.full = d.full
      /\ dec.pend = OwesZero(d)
  <2>1. OwesZero(d) \in BOOLEAN /\ d.cnt - 1 \in 0..MaxGroup
    BY <1>1, MaxGroupAssumption DEF OwesZero
  <2> QED
    BY <2>1 DEF Decs
<1>4. more \in Seq(WireByte)
  <2>1. <<b>> \in Seq(WireByte)
    BY <1>1
  <2> QED
    BY <2>1, ConcatProperties
<1>5. end \in Nat /\ end >= k /\ end = k + (d.cnt - 1)
  BY <1>1
<1>6. end <= n => plain \o SubSeq(s, k, end) = more \o rest
  <2> HAVE end <= n
  <2>1. end \in k..n
    BY <1>1, <1>5
  <2>2. SubSeq(s, k, end) = <<b>> \o rest
    BY <2>1, <1>1, SubSeqRecursiveFirst
  <2>3. rest \in Seq(WireByte)
    <3>1. k + 1 \in Nat /\ 1 <= k + 1 /\ end <= n
      BY <2>1, <1>1
    <3> QED
      BY <3>1, <1>5, SliceType
  <2>4. <<b>> \in Seq(WireByte)
    BY <1>1
  <2> DEFINE one == <<b>>
  <2>5. (plain \o one) \o rest = plain \o (one \o rest)
    <3> HIDE DEF rest, b, one, more
    <3> QED
      BY <2>3, <2>4, ConcatAssociative DEF one
  <2> QED
    BY <2>2, <2>5, Zenon
<1>7. zero \in Seq(WireByte)
  BY OwedZeroType
<1>8. /\ end > n => go[1] = None
      /\ end = n => go[1] = Some(plain \o SubSeq(s, k, end))
      /\ end < n => go[1] = Prefixed((plain \o SubSeq(s, k, end)) \o zero, go[end+1])
  BY DEF Follows
<1> HIDE DEF k, n, go, b, more, dec, end, rest, zero
<1>9. /\ end > n => go[1] = None
      /\ end = n => go[1] = Some(more \o rest)
      /\ end < n => go[1] = Prefixed((more \o rest) \o zero, go[end+1])
  <2> DEFINE u == plain \o SubSeq(s, k, end)
             v == more \o rest
  <2>0. end <= n => u = v
    BY <1>6
  <2>1. (end = n \/ end < n) => u = v
    <3> HIDE DEF u, v
    <3> QED
      BY <2>0, <1>1, <1>5
  <2>2. /\ end > n => go[1] = None
        /\ end = n => go[1] = Some(u)
        /\ end < n => go[1] = Prefixed(u \o zero, go[end+1])
    BY <1>8
  <2> HIDE DEF u, v
  <2>3. /\ end > n => go[1] = None
        /\ end = n => go[1] = Some(v)
        /\ end < n => go[1] = Prefixed(v \o zero, go[end+1])
    BY <2>1, <2>2
  <2> QED
    BY <2>3 DEF v
<1>10. CASE d.cnt = 1
  <2>1. end = k /\ dec.cnt = 0 /\ k > 0
    BY <1>1, <1>3, <1>5, <1>10
  <2>2. rest = <<>>
    <3>1. end < k + 1 /\ end \in Int /\ k + 1 \in Int
      BY <2>1, <1>1
    <3> QED
      BY <3>1, SubSeqEmpty DEF rest
  <2>3. more \o rest = more
    BY <2>2, <1>4, ConcatEmptySeq
  <2>4. zero = OwedZero(dec.pend)
    <3>1. dec.pend <=> ~d.full
      BY <1>3, <1>10 DEF OwesZero, Decs
    <3> QED
      BY <3>1 DEF zero, OwedZero
  <2>5. k = n => go[1] = Some(more)
    BY <2>1, <2>3, <1>9
  <2>6. k < n => go[1] = Prefixed(more \o OwedZero(dec.pend), go[k+1])
    BY <2>1, <2>3, <2>4, <1>9
  <2>7. ~(dec.cnt > 0)
    BY <2>1
  <2>8. Follows(s, k, dec, more)
    BY <2>1, <2>5, <2>6, <2>7 DEF Follows, n, go
  <2> QED
    BY <2>8, <1>2, <1>3, <1>4 DEF k, b
<1>11. CASE d.cnt # 1
  <2>1. dec.cnt > 0 /\ dec.cnt # 0 /\ k + dec.cnt = end
    BY <1>1, <1>3, <1>5, <1>11
  <2>2. zero = OwedZero(~dec.full)
    BY <1>3 DEF zero
  <2>3. Follows(s, k, dec, more)
    BY <2>1, <2>2, <1>9 DEF Follows, n, go, rest
  <2> QED
    BY <2>3, <1>2, <1>3, <1>4 DEF k, b
<1> QED
  BY <1>10, <1>11

\* The decoder after the bytes of seen, whatever follows them.
Begins(s, seen) == Len(seen) <= Len(s) /\ \A i \in 1..Len(seen) : s[i] = seen[i]

Decoded(seen, d, plain) ==
    /\ seen \in Seq(NonZero) /\ d \in Decs /\ plain \in Seq(WireByte)
    /\ d.got <=> seen # <<>>
    /\ \A s \in Seq(NonZero) : Begins(s, seen) => Follows(s, Len(seen), d, plain)

LEMMA DecodedInit == Decoded(<<>>, InitDec, <<>>)
<1>1. InitDec \in Decs /\ InitDec.cnt = 0 /\ ~InitDec.pend /\ ~InitDec.got
  BY MaxGroupAssumption DEF InitDec, Decs
<1>2. ASSUME NEW s \in Seq(NonZero) PROVE Follows(s, 0, InitDec, <<>>)
  <2> DEFINE r == GroupsFrom(s)[1]
  <2>1. <<>> \o OwedZero(InitDec.pend) = <<>>
    BY <1>1 DEF OwedZero
  <2>2. 0 < Len(s) => r = Prefixed(<<>>, r)
    <3> HAVE 0 < Len(s)
    <3>1. 1 \in 1..Len(s)
      BY LenProperties
    <3>2. r \in Results
      BY <3>1, GroupsUnfold
    <3> HIDE DEF r
    <3>3. r # None => r = Some(<<>> \o r[1])
      BY <3>2, ResultCases, ConcatEmptySeq
    <3> QED
      BY <3>3 DEF Prefixed
  <2> QED
    BY <1>1, <2>1, <2>2 DEF Follows
<1> QED
  BY <1>1, <1>2 DEF Decoded

LEMMA DecodedByte ==
    ASSUME NEW seen, NEW d, NEW plain, Decoded(seen, d, plain), NEW b \in NonZero
    PROVE  Decoded(Append(seen, b), DecodeByte(d, b).dec, plain \o DecodeByte(d, b).out)
<1> DEFINE m == Len(seen)
           r == DecodeByte(d, b)
           next == Append(seen, b)
<1>1. /\ seen \in Seq(NonZero) /\ d \in Decs /\ plain \in Seq(WireByte)
      /\ m \in Nat /\ d.cnt \in Nat
  BY LenProperties, MaxGroupAssumption DEF Decoded, Decs
<1>2. /\ next \in Seq(NonZero) /\ next # <<>> /\ Len(next) = m + 1 /\ next[m+1] = b
      /\ \A i \in 1..m : next[i] = seen[i]
  BY <1>1, AppendProperties
<1>3. ASSUME NEW s \in Seq(NonZero), Begins(s, next)
      PROVE  /\ r.dec \in Decs /\ r.dec.got /\ plain \o r.out \in Seq(WireByte)
             /\ Follows(s, m + 1, r.dec, plain \o r.out)
  <2>1. Len(s) \in Nat /\ m + 1 <= Len(s) /\ \A i \in 1..m+1 : s[i] = next[i]
    BY <1>2, <1>3, LenProperties DEF Begins
  <2>2. m < Len(s) /\ s[m+1] = b /\ \A i \in 1..m : s[i] = seen[i]
    BY <2>1, <1>1, <1>2
  <2>3. Begins(s, seen)
    BY <2>2, <2>1, <1>1 DEF Begins
  <2>4. Follows(s, m, d, plain)
    BY <2>3 DEF Decoded
  <2>5. CASE d.cnt = 0
    BY <2>2, <2>4, <2>5, <1>1, CodeFollows
  <2>6. CASE d.cnt > 0
    BY <2>2, <2>4, <2>6, <1>1, DataFollows
  <2> QED
    BY <1>1, <2>5, <2>6
<1>4. Begins(next, next)
  BY <1>2, LenProperties DEF Begins
<1> HIDE DEF r, next, m
<1>5. r.dec \in Decs /\ r.dec.got /\ plain \o r.out \in Seq(WireByte)
  BY <1>2, <1>3, <1>4
<1>6. Decoded(next, r.dec, plain \o r.out)
  BY <1>2, <1>3, <1>5 DEF Decoded
<1> QED
  BY <1>6 DEF next, r

\* At the end the decoder has yielded what the pure one decodes, or calls the
\* bytes malformed.
LEMMA DecodedEnd ==
    ASSUME NEW seen, NEW d, NEW plain, Decoded(seen, d, plain)
    PROVE  /\ Malformed(d) <=> CobsDecode(seen) = None
           /\ ~Malformed(d) => CobsDecode(seen) = Some(plain)
<1> DEFINE m == Len(seen)
<1>1. /\ seen \in Seq(NonZero) /\ d \in Decs /\ m \in Nat /\ d.cnt \in Nat
      /\ (d.got <=> seen # <<>>) /\ ~Contains(seen, 0)
  BY LenProperties, MaxGroupAssumption, NonZeroBytes DEF Decoded, Decs
<1>2. Follows(seen, m, d, plain)
  <2>1. Begins(seen, seen)
    BY <1>1 DEF Begins
  <2> QED
    BY <2>1, <1>1 DEF Decoded
<1>3. CASE seen = <<>>
  BY <1>1, <1>3 DEF Malformed, CobsDecode
<1>4. CASE seen # <<>>
  <2>1. CobsDecode(seen) = GroupsFrom(seen)[1] /\ m > 0
    BY <1>1, <1>4, EmptySeq DEF CobsDecode
  <2>2. CASE d.cnt = 0
    BY <1>1, <1>2, <1>4, <2>1, <2>2, SomeIs DEF Follows, Malformed
  <2>3. CASE d.cnt > 0
    <3>1. m + d.cnt > m
      BY <2>3, <1>1
    <3> QED
      BY <1>1, <1>2, <1>4, <2>1, <2>3, <3>1 DEF Follows, Malformed
  <2> QED
    BY <1>1, <2>2, <2>3
<1> QED
  BY <1>3, <1>4

-----------------------------------------------------------------------------
(* The decoder undoes the encoder.                                         *)

\* Of a sequence that continues after o, the pure decoder makes front and what
\* it makes of the rest.
Leads(o, front) ==
    \A s \in Seq(NonZero) : Begins(s, o) /\ Len(o) < Len(s) =>
        GroupsFrom(s)[1] = Prefixed(front, GroupsFrom(s)[Len(o) + 1])

\* A group that stands behind o in s.
LEMMA GroupStands ==
    ASSUME NEW o \in Seq(NonZero), NEW g \in Groups, NEW s \in Seq(NonZero),
           Begins(s, o \o Group(g))
    PROVE  /\ Begins(s, o) /\ Len(o) + 1 \in 1..Len(s)
           /\ Len(o \o Group(g)) = Len(o) + 1 + Len(g)
           /\ s[Len(o) + 1] = Len(g) + 1
           /\ GroupEnd(s, Len(o) + 1) = Len(o) + 1 + Len(g)
           /\ GroupData(s, Len(o) + 1) = g
<1> DEFINE m == Len(o)
           G == Group(g)
<1>1. /\ G \in Seq(NonZero) /\ Len(G) = Len(g) + 1 /\ m \in Nat /\ Len(g) \in Nat
      /\ g \in Seq(NonZero) /\ Len(s) \in Nat /\ s \in Seq(WireByte)
  BY GroupType, LenProperties, NonZeroBytes DEF Groups
<1>2. G[1] = Len(g) + 1 /\ \A i \in 1..Len(g) : G[i + 1] = g[i]
  <2>1. <<Len(g) + 1>> \in Seq(Nat) /\ Len(<<Len(g) + 1>>) = 1 /\ <<Len(g) + 1>>[1] = Len(g) + 1
    BY <1>1
  <2>2. g \in Seq(Nat)
    BY <1>1, SeqMonotonic, MaxGroupAssumption DEF NonZero, FullCode
  <2>3. \A i \in 1..Len(g) : i + 1 \in 1..1 + Len(g) /\ ~(i + 1 <= 1) /\ i + 1 - 1 = i
    BY <1>1
  <2>4. 1 \in 1..1 + Len(g)
    BY <1>1
  <2>5. \A i \in 1..1 + Len(g) : G[i] = IF i <= 1 THEN <<Len(g) + 1>>[i] ELSE g[i - 1]
    BY <2>1, <2>2, ConcatProperties DEF Group
  <2> HIDE DEF G
  <2> QED
    BY <2>1, <2>3, <2>4, <2>5
<1> HIDE DEF G
<1>3. /\ Len(o \o G) = m + 1 + Len(g)
      /\ \A i \in 1..m : (o \o G)[i] = o[i]
      /\ \A i \in 1..Len(g) + 1 : (o \o G)[m + i] = G[i]
  <2>1. /\ Len(o \o G) = m + Len(G)
        /\ \A i \in 1..m + Len(G) : (o \o G)[i] = IF i <= m THEN o[i] ELSE G[i - m]
    BY <1>1, ConcatProperties
  <2>2. \A i \in 1..m : i \in 1..m + Len(G) /\ i <= m
    BY <1>1
  <2>3. \A i \in 1..Len(g) + 1 : m + i \in 1..m + Len(G) /\ ~(m + i <= m) /\ (m + i) - m = i
    BY <1>1
  <2> HIDE DEF m
  <2> QED
    BY <1>1, <2>1, <2>2, <2>3
<1>4. m + 1 + Len(g) <= Len(s) /\ \A i \in 1..m + 1 + Len(g) : s[i] = (o \o G)[i]
  BY <1>3 DEF Begins, G
<1>5. \A i \in 1..m : s[i] = o[i]
  BY <1>1, <1>3, <1>4
<1>6. Begins(s, o)
  BY <1>1, <1>4, <1>5 DEF Begins
<1>7. \A i \in 1..Len(g) + 1 : s[m + i] = G[i]
  <2>1. \A i \in 1..Len(g) + 1 : m + i \in 1..m + 1 + Len(g)
    BY <1>1
  <2> HIDE DEF m
  <2> QED
    BY <2>1, <1>3, <1>4
<1>8. s[m + 1] = Len(g) + 1
  <2>1. 1 \in 1..Len(g) + 1
    BY <1>1
  <2> QED
    BY <2>1, <1>2, <1>7
<1>9. GroupEnd(s, m + 1) = m + 1 + Len(g)
  BY <1>1, <1>8 DEF GroupEnd
<1>10. GroupData(s, m + 1) = g
  <2> DEFINE e == SubSeq(s, m + 2, m + 1 + Len(g))
  <2>1. \A i \in m+2..m+1+Len(g) : i \in 1..Len(s)
    BY <1>1, <1>4
  <2>2. \A i \in m+2..m+1+Len(g) : s[i] \in NonZero
    BY <2>1, ElementOfSeq
  <2>3. /\ e \in Seq(NonZero)
        /\ Len(e) = IF m + 2 <= m + 1 + Len(g) THEN m + 1 + Len(g) - (m + 2) + 1 ELSE 0
        /\ \A i \in 1..m + 1 + Len(g) - (m + 2) + 1 : e[i] = s[m + 2 + i - 1]
    BY <2>2, <1>1, SubSeqProperties
  <2>4. Len(e) = Len(g) /\ m + 1 + Len(g) - (m + 2) + 1 = Len(g)
    BY <2>3, <1>1
  <2>5. \A i \in 1..Len(g) : m + 2 + i - 1 = m + (i + 1) /\ i + 1 \in 1..Len(g) + 1
    BY <1>1
  <2>6. \A i \in 1..Len(g) : e[i] = g[i]
    <3> HIDE DEF e, m
    <3> QED
      BY <2>3, <2>4, <2>5, <1>2, <1>7
  <2>7. e = g
    <3> HIDE DEF e
    <3> QED
      BY <2>3, <2>4, <2>6, <1>1, SeqEqual
  <2>8. m + 1 + 1 = m + 2
    BY <1>1
  <2> QED
    BY <2>7, <2>8, <1>9 DEF GroupData
<1>11. m + 1 \in 1..Len(s)
  BY <1>1, <1>4
<1> QED
  BY <1>3, <1>6, <1>8, <1>9, <1>10, <1>11 DEF G

\* Closing a group adds its data and, unless it was full, a zero.
LEMMA CloseGroup ==
    ASSUME NEW o \in Seq(NonZero), NEW g \in Groups, NEW front \in Seq(WireByte),
           Leads(o, front)
    PROVE  /\ o \o Group(g) \in Seq(NonZero)
           /\ front \o g \in Seq(WireByte)
           /\ (front \o g) \o ZeroOf(Len(g) + 1) \in Seq(WireByte)
           /\ Leads(o \o Group(g), (front \o g) \o ZeroOf(Len(g) + 1))
<1> DEFINE m == Len(o)
           new == o \o Group(g)
           zero == ZeroOf(Len(g) + 1)
<1>1. /\ m \in Nat /\ Len(g) \in Nat /\ g \in Seq(WireByte) /\ new \in Seq(NonZero)
      /\ zero \in Seq(WireByte)
  <2>1. g \in Seq(NonZero) /\ Group(g) \in Seq(NonZero)
    BY GroupType DEF Groups
  <2>2. 0 \in WireByte
    BY MaxGroupAssumption DEF WireByte, FullCode
  <2> QED
    BY <2>1, <2>2, LenProperties, NonZeroBytes, ConcatProperties DEF ZeroOf
<1>2. front \o g \in Seq(WireByte) /\ (front \o g) \o zero \in Seq(WireByte)
  BY <1>1, ConcatProperties
<1>3. ASSUME NEW s \in Seq(NonZero), Begins(s, new), Len(new) < Len(s)
      PROVE  GroupsFrom(s)[1] = Prefixed((front \o g) \o zero, GroupsFrom(s)[Len(new) + 1])
  <2> DEFINE r == GroupsFrom(s)[Len(new) + 1]
             tail == g \o zero
  <2>1. /\ Begins(s, o) /\ m + 1 \in 1..Len(s) /\ Len(new) = m + 1 + Len(g)
        /\ s[m + 1] = Len(g) + 1 /\ GroupEnd(s, m + 1) = m + 1 + Len(g)
        /\ GroupData(s, m + 1) = g
    BY <1>3, GroupStands
  <2>2. m < Len(s)
    BY <1>1, <2>1, <1>3, LenProperties
  <2>3. GroupsFrom(s)[1] = Prefixed(front, GroupsFrom(s)[m + 1])
    BY <2>1, <2>2 DEF Leads
  <2>4. GroupsFrom(s)[m + 1] = Prefixed(tail, r) /\ r \in Results
    <3>1. GroupEnd(s, m + 1) < Len(s) /\ GroupEnd(s, m + 1) = Len(new)
      BY <2>1, <1>3
    <3> HIDE DEF m, new
    <3> QED
      BY <2>1, <3>1, GroupsUnfold
  <2>5. tail \in Seq(WireByte)
    BY <1>1, ConcatProperties
  <2>6. Prefixed(front, Prefixed(tail, r)) = Prefixed(front \o tail, r)
    <3> HIDE DEF tail, r
    <3> QED
      BY <2>4, <2>5, PrefixedTwice
  <2>7. (front \o g) \o zero = front \o tail
    <3>1. g \in Seq(WireByte) /\ zero \in Seq(WireByte) /\ front \in Seq(WireByte)
      BY <1>1
    <3> HIDE DEF zero, new, m
    <3> QED
      BY <3>1, Regroup, Zenon
  <2> QED
    BY <2>3, <2>4, <2>6, <2>7, Zenon
<1> QED
  BY <1>1, <1>2, <1>3 DEF Leads

\* The encoder's output so far decodes to the data up to the open group.
Opens(acc, x) == \E front \in Seq(WireByte) : x = front \o acc.grp /\ Leads(acc.out, front)

LEMMA OpensNext ==
    ASSUME NEW acc \in Accs, NEW x \in Seq(WireByte), Opens(acc, x), NEW b \in WireByte
    PROVE  Opens(EncodeByte(acc, b), Append(x, b))
<1> DEFINE e == EncodeByte(acc, b)
<1>1. /\ acc.out \in Seq(NonZero) /\ acc.grp \in Groups /\ acc.grp \in Seq(NonZero)
      /\ acc.grp \in Seq(WireByte) /\ Len(acc.grp) \in Nat /\ Len(acc.grp) <= MaxGroup
      /\ MaxGroup \in Nat \ {0} /\ FullCode = MaxGroup + 1
  BY MaxGroupAssumption, LenProperties, NonZeroBytes DEF Accs, Groups, FullCode
<1>2. PICK front \in Seq(WireByte) : x = front \o acc.grp /\ Leads(acc.out, front)
  BY DEF Opens
<1>3. x \in Seq(WireByte) /\ Append(x, b) = x \o <<b>> /\ <<b>> \in Seq(WireByte)
  BY AppendIsConcat
<1> DEFINE one == <<b>>
           closed == acc.out \o Group(acc.grp)
           more == (front \o acc.grp) \o ZeroOf(Len(acc.grp) + 1)
<1>4. /\ closed \in Seq(NonZero) /\ front \o acc.grp \in Seq(WireByte)
      /\ more \in Seq(WireByte) /\ Leads(closed, more)
  BY <1>1, <1>2, CloseGroup
<1>5. Len(acc.grp) = MaxGroup => more = x
  <2> HAVE Len(acc.grp) = MaxGroup
  <2>1. ZeroOf(Len(acc.grp) + 1) = <<>>
    BY <1>1 DEF ZeroOf
  <2> QED
    BY <2>1, <1>2, <1>3, ConcatEmptySeq
<1>6. Len(acc.grp) # MaxGroup => more = x \o <<0>>
  <2> HAVE Len(acc.grp) # MaxGroup
  <2>1. ZeroOf(Len(acc.grp) + 1) = <<0>>
    BY <1>1 DEF ZeroOf
  <2> QED
    BY <2>1, <1>2
<1>7. CASE b # 0 /\ Len(acc.grp) = MaxGroup
  <2>1. e.out = closed /\ e.grp = <<b>>
    BY <1>7, EncodeByteIs
  <2>2. Append(x, b) = more \o e.grp
    BY <2>1, <1>3, <1>5, <1>7
  <2>3. Opens(e, Append(x, b))
    <3> HIDE DEF e, more
    <3> QED
      BY <2>1, <2>2, <1>4 DEF Opens
  <2> QED
    BY <2>3
<1>8. CASE b # 0 /\ Len(acc.grp) # MaxGroup
  <2>1. e.out = acc.out /\ e.grp = Append(acc.grp, b)
    BY <1>8, EncodeByteIs
  <2>2. e.grp = acc.grp \o one
    BY <2>1, <1>1, AppendIsConcat
  <2>3. Append(x, b) = (front \o acc.grp) \o one
    BY <1>2, <1>3
  <2>4. (front \o acc.grp) \o one = front \o (acc.grp \o one)
    <3> DEFINE g == acc.grp
    <3>1. g \in Seq(WireByte) /\ one \in Seq(WireByte)
      BY <1>1, <1>3
    <3>2. (front \o g) \o one = front \o (g \o one)
      <4> HIDE DEF one, g
      <4> QED
        BY <3>1, Regroup, Zenon
    <3> QED
      BY <3>2, Zenon
  <2>5. Append(x, b) = front \o e.grp
    BY <2>2, <2>3, <2>4, Zenon
  <2>6. Opens(e, Append(x, b))
    <3> HIDE DEF e
    <3> QED
      BY <2>1, <2>5, <1>2 DEF Opens
  <2> QED
    BY <2>6
<1>9. CASE b = 0 /\ Len(acc.grp) # MaxGroup
  <2>1. e.out = closed /\ e.grp = <<>>
    BY <1>9, EncodeByteIs
  <2>2. Append(x, b) = more
    BY <1>3, <1>6, <1>9
  <2>3. more \o e.grp = more
    <3> HIDE DEF more, e
    <3> QED
      BY <2>1, <1>4, ConcatEmptySeq
  <2>4. Opens(e, Append(x, b))
    <3> HIDE DEF e, more
    <3> QED
      BY <2>1, <2>2, <2>3, <1>4 DEF Opens
  <2> QED
    BY <2>4
<1>10. CASE b = 0 /\ Len(acc.grp) = MaxGroup
  <2> DEFINE last == (x \o <<>>) \o ZeroOf(Len(<<>>) + 1)
  <2>1. e.out = closed \o <<1>> /\ e.grp = <<>>
    BY <1>10, EncodeByteIs
  <2>2. <<>> \in Groups /\ Group(<<>>) = <<1>> /\ Leads(closed, x)
    BY <1>4, <1>5, <1>10, EmptyGroup
  <2>3. Leads(closed \o Group(<<>>), last) /\ last \in Seq(WireByte)
    <3> HIDE DEF closed
    <3> QED
      BY <2>2, <1>4, CloseGroup
  <2>4. last = x \o <<0>>
    <3>1. ZeroOf(Len(<<>>) + 1) = <<0>>
      BY <1>1 DEF ZeroOf
    <3>2. x \o <<>> = x
      BY ConcatEmptySeq
    <3> QED
      BY <3>1, <3>2
  <2>5. Append(x, b) = last
    BY <2>4, <1>3, <1>10
  <2>6. last \o e.grp = last
    <3> HIDE DEF last, e
    <3> QED
      BY <2>1, <2>3, ConcatEmptySeq
  <2>7. Leads(e.out, last)
    <3> HIDE DEF e, last, closed
    <3> QED
      BY <2>1, <2>2, <2>3
  <2>8. Opens(e, Append(x, b))
    <3> HIDE DEF e, last
    <3> QED
      BY <2>3, <2>5, <2>6, <2>7 DEF Opens
  <2> QED
    BY <2>8
<1> QED
  BY <1>7, <1>8, <1>9, <1>10

LEMMA OpensAlways == \A x \in Seq(WireByte) : Opens(Encoded(x), x)
<1> DEFINE P == {x \in Seq(WireByte) : Opens(Encoded(x), x)}
<1>1. <<>> \in P
  <2>1. Encoded(<<>>).out = <<>> /\ Encoded(<<>>).grp = <<>>
    BY EncodedEmpty
  <2>2. Leads(<<>>, <<>>)
    <3> SUFFICES ASSUME NEW s \in Seq(NonZero), 0 < Len(s)
                 PROVE  GroupsFrom(s)[1] = Prefixed(<<>>, GroupsFrom(s)[1])
      BY DEF Leads
    <3> DEFINE r == GroupsFrom(s)[1]
    <3>1. 1 \in 1..Len(s)
      BY LenProperties
    <3>2. r \in Results
      BY <3>1, GroupsUnfold
    <3> HIDE DEF r
    <3>3. r # None => r = Some(<<>> \o r[1])
      BY <3>2, ResultCases, ConcatEmptySeq
    <3> QED
      BY <3>3 DEF Prefixed, r
  <2>3. <<>> \in Seq(WireByte) /\ <<>> = <<>> \o <<>>
    BY ConcatEmptySeq
  <2> QED
    BY <2>1, <2>2, <2>3 DEF Opens
<1>2. \A x \in P, b \in WireByte : Append(x, b) \in P
  <2> TAKE x \in P, b \in WireByte
  <2>1. x \in Seq(WireByte) /\ Opens(Encoded(x), x) /\ Encoded(x) \in Accs
    BY EncodedType
  <2>2. Append(x, b) \in Seq(WireByte) /\ Encoded(Append(x, b)) = EncodeByte(Encoded(x), b)
    BY <2>1, AppendProperties, EncodedAppend
  <2>3. Opens(EncodeByte(Encoded(x), b), Append(x, b))
    BY <2>1, OpensNext
  <2> QED
    BY <2>2, <2>3
<1>3. P \in SUBSET Seq(WireByte)
  OBVIOUS
<1>4. \A x \in Seq(WireByte) : x \in P
  <2> HIDE DEF P
  <2> QED
    BY <1>1, <1>2, <1>3, SeqInduction
<1> QED
  BY <1>4

\* The encoding of any bytes holds no zero and decodes to them.
LEMMA DecodesWhatItEncodes ==
    ASSUME NEW x \in Seq(WireByte)
    PROVE  /\ CobsEncode(x) \in Seq(NonZero) /\ CobsEncode(x) # <<>>
           /\ CobsDecode(CobsEncode(x)) = Some(x)
<1> DEFINE acc == Encoded(x)
           o == acc.out
           g == acc.grp
           s == o \o Group(g)
<1>1. CobsEncode(x) = s
  BY DEF CobsEncode, Encoded
<1>2. acc \in Accs /\ Opens(acc, x)
  BY EncodedType, OpensAlways
<1> HIDE DEF acc
<1>3. PICK front \in Seq(WireByte) : x = front \o g /\ Leads(o, front)
  BY <1>2 DEF Opens
<1>4. o \in Seq(NonZero) /\ g \in Groups
  BY <1>2 DEF Accs
<1> HIDE DEF o, g
<1>5. Group(g) \in Seq(NonZero) /\ Len(Group(g)) = Len(g) + 1 /\ Len(g) \in Nat /\ Len(o) \in Nat
  BY <1>4, GroupType, LenProperties DEF Groups
<1>6. s \in Seq(NonZero) /\ Len(s) = Len(o) + (Len(g) + 1)
  <2> DEFINE G == Group(g)
  <2>1. o \in Seq(NonZero) /\ G \in Seq(NonZero) /\ Len(G) = Len(g) + 1
    BY <1>4, <1>5
  <2> HIDE DEF G
  <2>2. o \o G \in Seq(NonZero) /\ Len(o \o G) = Len(o) + Len(G)
    BY <2>1, ConcatProperties
  <2> QED
    BY <2>1, <2>2 DEF G
<1>7. Begins(s, s)
  BY <1>6, LenProperties DEF Begins
<1>8. /\ Begins(s, o) /\ Len(o) + 1 \in 1..Len(s)
      /\ GroupEnd(s, Len(o) + 1) = Len(o) + 1 + Len(g) /\ GroupData(s, Len(o) + 1) = g
  <2>1. \A t \in Seq(NonZero) : Begins(t, o \o Group(g)) =>
          /\ Begins(t, o) /\ Len(o) + 1 \in 1..Len(t)
          /\ GroupEnd(t, Len(o) + 1) = Len(o) + 1 + Len(g) /\ GroupData(t, Len(o) + 1) = g
    BY <1>4, GroupStands
  <2> QED
    BY <2>1, <1>6, <1>7
<1>9. GroupEnd(s, Len(o) + 1) = Len(s) /\ Len(o) < Len(s)
  BY <1>5, <1>6, <1>8
<1> HIDE DEF s
<1>10. GroupsFrom(s)[Len(o) + 1] = Some(g)
  BY <1>6, <1>8, <1>9, GroupsUnfold
<1>11. GroupsFrom(s)[1] = Some(x)
  BY <1>3, <1>6, <1>8, <1>9, <1>10, SomeIs DEF Leads, Prefixed
<1>12. s # <<>> /\ ~Contains(s, 0)
  BY <1>5, <1>6, NonZeroBytes, EmptySeq
<1> QED
  BY <1>1, <1>6, <1>11, <1>12 DEF CobsDecode

=============================================================================
