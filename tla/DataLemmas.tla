------------------------------ MODULE DataLemmas ------------------------------
(***************************************************************************)
(* Facts about natural numbers and sequences that the proofs of several    *)
(* components use.  Induction is by the least counterexample of a set of   *)
(* natural numbers; a recursive function is unfolded along it.             *)
(***************************************************************************)
EXTENDS Integers, SequencesExt, SequenceTheorems, WellFoundedInduction, TLAPS

-----------------------------------------------------------------------------
(* Natural numbers.                                                        *)

\* A set of natural numbers with a member has a least one.
LEMMA LeastMember ==
  ASSUME NEW T \in SUBSET Nat, T # {}
  PROVE  \E x \in T : \A y \in T : x <= y
<1>. DEFINE R == {ss \in Nat \X Nat : ss[1] < ss[2]}
<1>1. OpToRel(<, Nat) = R
  BY DEF OpToRel
<1>2. IsWellFoundedOn(R, Nat)
  BY <1>1, NatLessThanWellFounded
<1>3. \A x, y \in Nat : <<y, x>> \in R <=> y < x
  OBVIOUS
<1>. HIDE DEF R
<1>4. PICK x \in T : \A y \in T : ~ (<<y, x>> \in R)
  BY <1>2, WFMin
<1>5. \A y \in T : ~ (y < x)
  BY <1>3, <1>4
<1>. QED
  BY <1>5

\* A bounded set of natural numbers with a member has a greatest one.
LEMMA GreatestMember ==
  ASSUME NEW S \in SUBSET Nat, S # {}, NEW m \in Nat, \A x \in S : x <= m
  PROVE  \E x \in S : \A y \in S : y <= x
<1>. DEFINE T == {n \in Nat : \A x \in S : x <= n}
<1>1. T \in SUBSET Nat /\ T # {}
  <2>1. m \in T
    OBVIOUS
  <2>. QED
    BY <2>1
<1>2. PICK z \in T : \A y \in T : z <= y
  <2>. HIDE DEF T
  <2>. QED BY <1>1, LeastMember
<1>3. z \in S
  <2>. SUFFICES ASSUME z \notin S PROVE FALSE
    OBVIOUS
  <2>1. \A x \in S : x < z
    BY <1>2
  <2>2. PICK x0 \in S : x0 \in Nat /\ x0 < z
    BY <2>1
  <2>2a. z # 0 /\ z - 1 \in Nat
    BY <1>2, <2>2
  <2>3. z - 1 \in T
    BY <2>1, <2>2a
  <2>. QED
    BY <1>2, <2>2a, <2>3
<1>. QED BY <1>2, <1>3

\* Induction on natural numbers, for a set.
LEMMA NatSetInduction ==
  ASSUME NEW S, 0 \in S, \A n \in Nat : n \in S => n + 1 \in S
  PROVE  Nat \subseteq S
<1>. SUFFICES ASSUME Nat \ S # {} PROVE FALSE
  OBVIOUS
<1>1. PICK x \in Nat \ S : \A y \in Nat \ S : x <= y
  BY LeastMember
<1>2. x # 0 /\ x - 1 \in Nat
  BY <1>1
<1>3. x - 1 \in S
  BY <1>1, <1>2
<1>. QED
  BY <1>1, <1>2, <1>3

-----------------------------------------------------------------------------
(* FlattenSeq.                                                             *)

\* f holds the concatenations of the first 1, 2, ... n members of seqs.
Flattens(f, seqs, n) ==
    f = [i \in 1 .. n |-> IF i = 1 THEN seqs[i] ELSE f[i - 1] \o seqs[i]]

\* Each is the one before it and one more member.
LEMMA FlattensAt ==
  ASSUME NEW f, NEW seqs, NEW n \in Nat, Flattens(f, seqs, n)
  PROVE  /\ DOMAIN f = 1 .. n
         /\ \A i \in 1 .. n : f[i] = IF i = 1 THEN seqs[i] ELSE f[i - 1] \o seqs[i]
<1>1. PICK h : h = [i \in 1 .. n |-> IF i = 1 THEN seqs[i] ELSE f[i - 1] \o seqs[i]]
  OBVIOUS
<1>2. f = h
  BY <1>1 DEF Flattens
<1>3. DOMAIN h = 1 .. n /\ \A i \in 1 .. n : h[i] = IF i = 1 THEN seqs[i] ELSE f[i - 1] \o seqs[i]
  BY <1>1
<1>. QED
  BY <1>2, <1>3

\* There is such a function for every length.
LEMMA FlattensExists ==
  ASSUME NEW seqs, NEW n \in Nat
  PROVE  \E f : Flattens(f, seqs, n)
<1>. DEFINE S == {k \in Nat : \E f : Flattens(f, seqs, k)}
<1>1. 0 \in S
  <2>1. PICK f : f = [i \in 1 .. 0 |-> 0]
    OBVIOUS
  <2>2. Flattens(f, seqs, 0)
    BY <2>1 DEF Flattens
  <2>. QED
    BY <2>2
<1>2. ASSUME NEW k \in Nat, k \in S PROVE k + 1 \in S
  <2>1. PICK f : Flattens(f, seqs, k)
    BY <1>2
  <2>2. PICK g : g = [i \in 1 .. k + 1 |-> IF i = 1 THEN seqs[i] ELSE f[i - 1] \o seqs[i]]
    OBVIOUS
  <2>3. \A i \in 1 .. k : g[i] = f[i]
    <3>1. \A i \in 1 .. k : f[i] = IF i = 1 THEN seqs[i] ELSE f[i - 1] \o seqs[i]
      BY <2>1, FlattensAt
    <3>2. \A i \in 1 .. k + 1 : g[i] = IF i = 1 THEN seqs[i] ELSE f[i - 1] \o seqs[i]
      BY <2>2
    <3>. QED
      BY <3>1, <3>2
  <2>4. g = [i \in 1 .. k + 1 |-> IF i = 1 THEN seqs[i] ELSE g[i - 1] \o seqs[i]]
    <3>1. \A i \in 1 .. k + 1 : i # 1 => i - 1 \in 1 .. k
      OBVIOUS
    <3>2. \A i \in 1 .. k + 1 : i # 1 => g[i - 1] = f[i - 1]
      BY <2>3, <3>1
    <3>3. \A i \in 1 .. k + 1 : (IF i = 1 THEN seqs[i] ELSE f[i - 1] \o seqs[i])
                                 = (IF i = 1 THEN seqs[i] ELSE g[i - 1] \o seqs[i])
      BY <3>2
    <3>. QED
      BY <2>2, <3>3
  <2>5. Flattens(g, seqs, k + 1)
    BY <2>4 DEF Flattens
  <2>6. k + 1 \in Nat
    OBVIOUS
  <2>. QED
    BY <2>5, <2>6
<1>. HIDE DEF S
<1>3. n \in S
  BY <1>1, <1>2, NatSetInduction
<1>. QED
  BY <1>3 DEF S

\* FlattenSeq of a nonempty sequence is the last of them.
LEMMA FlattenSeqIs ==
  ASSUME NEW seqs, Len(seqs) \in Nat \ {0}
  PROVE  \E f : Flattens(f, seqs, Len(seqs)) /\ FlattenSeq(seqs) = f[Len(seqs)]
<1>1. FlattenSeq(seqs) = (CHOOSE f : f = [i \in 1 .. Len(seqs) |->
                            IF i = 1 THEN seqs[i] ELSE f[i - 1] \o seqs[i]])[Len(seqs)]
  BY DEF FlattenSeq
<1>2. PICK f : f = CHOOSE g : Flattens(g, seqs, Len(seqs))
  OBVIOUS
<1>3. Flattens(f, seqs, Len(seqs))
  BY <1>2, FlattensExists
<1>4. FlattenSeq(seqs) = f[Len(seqs)]
  BY <1>1, <1>2 DEF Flattens
<1>. QED
  BY <1>3, <1>4

\* Two of them agree where both are defined.
LEMMA FlattensAgree ==
  ASSUME NEW a, NEW b, NEW f, NEW g, NEW m \in Nat, NEW n \in Nat, m <= n,
         Flattens(f, a, m), Flattens(g, b, n), \A i \in 1 .. m : a[i] = b[i]
  PROVE  \A i \in 1 .. m : f[i] = g[i]
<1>. DEFINE S == {k \in Nat : k \in 1 .. m => f[k] = g[k]}
<1>1. 0 \in S
  OBVIOUS
<1>f. \A i \in 1 .. m : f[i] = IF i = 1 THEN a[i] ELSE f[i - 1] \o a[i]
  BY FlattensAt
<1>g. \A i \in 1 .. n : g[i] = IF i = 1 THEN b[i] ELSE g[i - 1] \o b[i]
  BY FlattensAt
<1>2. ASSUME NEW k \in Nat, k \in S PROVE k + 1 \in S
  <2>1. CASE k + 1 \notin 1 .. m
    BY <2>1
  <2>2. CASE k = 0 /\ k + 1 \in 1 .. m
    <3>1. 1 \in 1 .. m /\ 1 \in 1 .. n
      BY <2>2
    <3>2. f[1] = g[1]
      BY <1>f, <1>g, <3>1
    <3>. QED
      BY <2>2, <3>2
  <2>3. CASE k # 0 /\ k + 1 \in 1 .. m
    <3>1. k \in 1 .. m /\ k + 1 \in 1 .. n /\ (k + 1) - 1 = k /\ k + 1 # 1
      BY <2>3
    <3>2. f[k + 1] = f[k] \o a[k + 1] /\ g[k + 1] = g[k] \o b[k + 1]
      BY <1>f, <1>g, <2>3, <3>1
    <3>3. f[k] = g[k] /\ a[k + 1] = b[k + 1]
      BY <1>2, <2>3, <3>1
    <3>4. f[k + 1] = g[k + 1] /\ k + 1 \in Nat
      BY <3>2, <3>3
    <3>. QED
      BY <3>4
  <2>. QED
    BY <2>1, <2>2, <2>3
<1>. HIDE DEF S
<1>3. Nat \subseteq S
  BY <1>1, <1>2, NatSetInduction
<1>. QED
  BY <1>3 DEF S

\* They are sequences if the members are.
LEMMA FlattensType ==
  ASSUME NEW X, NEW n \in Nat, NEW seqs, \A i \in 1 .. n : seqs[i] \in Seq(X),
         NEW f, Flattens(f, seqs, n)
  PROVE  \A i \in 1 .. n : f[i] \in Seq(X)
<1>. DEFINE S == {k \in Nat : k \in 1 .. n => f[k] \in Seq(X)}
<1>1. 0 \in S
  OBVIOUS
<1>f. \A i \in 1 .. n : f[i] = IF i = 1 THEN seqs[i] ELSE f[i - 1] \o seqs[i]
  BY FlattensAt
<1>2. ASSUME NEW k \in Nat, k \in S PROVE k + 1 \in S
  <2>1. CASE k + 1 \notin 1 .. n
    BY <2>1
  <2>2. CASE k = 0 /\ k + 1 \in 1 .. n
    BY <1>f, <2>2
  <2>3. CASE k # 0 /\ k + 1 \in 1 .. n
    <3>1. k \in 1 .. n /\ (k + 1) - 1 = k /\ k + 1 # 1
      BY <2>3
    <3>2. f[k + 1] = f[k] \o seqs[k + 1]
      BY <1>f, <2>3, <3>1
    <3>3. f[k] \in Seq(X) /\ seqs[k + 1] \in Seq(X)
      BY <1>2, <2>3, <3>1
    <3>4. f[k] \o seqs[k + 1] \in Seq(X)
      BY <3>3, ConcatProperties
    <3>5. k + 1 \in Nat
      OBVIOUS
    <3>. QED
      BY <3>2, <3>4, <3>5
  <2>. QED
    BY <2>1, <2>2, <2>3
<1>. HIDE DEF S
<1>3. Nat \subseteq S
  BY <1>1, <1>2, NatSetInduction
<1>. QED
  BY <1>3 DEF S

\* Flattening one more sequence appends it.
LEMMA FlattenStep ==
  ASSUME NEW X, NEW seqs \in Seq(Seq(X)), Len(seqs) # 0
  PROVE  LET rest == SubSeq(seqs, 1, Len(seqs) - 1)
         IN  /\ rest \in Seq(Seq(X)) /\ seqs[Len(seqs)] \in Seq(X)
             /\ FlattenSeq(rest) \in Seq(X)
             /\ FlattenSeq(seqs) = FlattenSeq(rest) \o seqs[Len(seqs)]
<1>. DEFINE n == Len(seqs)
            rest == SubSeq(seqs, 1, n - 1)
<1>1. /\ n \in Nat \ {0} /\ n - 1 \in Nat /\ rest \in Seq(Seq(X)) /\ Len(rest) = n - 1
      /\ \A i \in 1 .. n - 1 : rest[i] = seqs[i]
      /\ \A i \in 1 .. n : seqs[i] \in Seq(X)
  <2>1. n \in Nat \ {0} /\ n - 1 \in Nat /\ n - 1 \in 0 .. n /\ 1 \in 1 .. n
    BY LenProperties
  <2>2. \A i \in 1 .. n : seqs[i] \in Seq(X)
    BY <2>1, ElementOfSeq
  <2>3. rest \in Seq(Seq(X)) /\ Len(rest) = n - 1 /\ \A i \in 1 .. n - 1 : rest[i] = seqs[i]
    <3>. HIDE DEF n
    <3>1. n = Len(seqs)
      BY DEF n
    <3>. QED
      BY <2>1, <3>1, SubSeqProperties
  <2>. QED
    BY <2>1, <2>2, <2>3
<1>. HIDE DEF n, rest
<1>2. PICK f : Flattens(f, seqs, n) /\ FlattenSeq(seqs) = f[n]
  BY <1>1, FlattenSeqIs DEF n
<1>3. \A i \in 1 .. n : f[i] \in Seq(X)
  BY <1>1, <1>2, FlattensType
<1>4. CASE n = 1
  <2>1. FlattenSeq(seqs) = seqs[1]
    BY <1>1, <1>2, <1>4, FlattensAt
  <2>2. FlattenSeq(rest) = <<>>
    <3>1. rest = <<>>
      BY <1>1, <1>4
    <3>. QED
      BY <3>1 DEF FlattenSeq
  <2>3. seqs[1] \in Seq(X)
    BY <1>1, <1>4
  <2>4. seqs[1] = <<>> \o seqs[1] /\ <<>> \in Seq(X)
    BY <2>3, ConcatEmptySeq
  <2>. QED
    BY <1>1, <1>4, <2>1, <2>2, <2>3, <2>4 DEF n, rest
<1>5. CASE n # 1
  <2>0. n - 1 \in 1 .. n - 1 /\ n \in 1 .. n /\ n - 1 <= n /\ n - 1 \in 1 .. n /\ Len(rest) \in Nat \ {0}
    BY <1>1, <1>5
  <2>1. PICK g : Flattens(g, rest, n - 1) /\ FlattenSeq(rest) = g[n - 1]
    BY <1>1, <2>0, FlattenSeqIs
  <2>2. g[n - 1] = f[n - 1]
    <3>1. PICK m \in Nat : m = n - 1
      BY <1>1
    <3>2. n \in Nat /\ m <= n /\ \A i \in 1 .. m : rest[i] = seqs[i]
      BY <1>1, <2>0, <3>1
    <3>3. Flattens(g, rest, m) /\ Flattens(f, seqs, n)
      BY <1>2, <2>1, <3>1
    <3>4. \A i \in 1 .. m : g[i] = f[i]
      BY <3>2, <3>3, FlattensAgree
    <3>. QED
      BY <2>0, <3>1, <3>4
  <2>3. f[n] = f[n - 1] \o seqs[n]
    <3>1. \A i \in 1 .. n : f[i] = IF i = 1 THEN seqs[i] ELSE f[i - 1] \o seqs[i]
      BY <1>1, <1>2, FlattensAt
    <3>. QED
      BY <1>5, <2>0, <3>1
  <2>4. f[n - 1] \in Seq(X) /\ seqs[n] \in Seq(X) /\ f[n] \in Seq(X)
    BY <1>1, <1>3, <2>0
  <2>. QED
    BY <1>1, <1>2, <2>1, <2>2, <2>3, <2>4 DEF n, rest
<1>. QED
  BY <1>4, <1>5

\* Flattening is flattening the beginning, then the end.
LEMMA FlattenAppend ==
  ASSUME NEW X, NEW seqs \in Seq(Seq(X)), NEW e \in Seq(X)
  PROVE  FlattenSeq(Append(seqs, e)) = FlattenSeq(seqs) \o e
<1>. DEFINE t == Append(seqs, e)
            n == Len(seqs)
<1>1. t \in Seq(Seq(X)) /\ Len(t) = n + 1 /\ t[n + 1] = e /\ n \in Nat /\ \A i \in 1 .. n : t[i] = seqs[i]
  BY AppendProperties, LenProperties
<1>. HIDE DEF t
<1>2. SubSeq(t, 1, n) \in Seq(Seq(X)) /\ Len(SubSeq(t, 1, n)) = n
      /\ \A i \in 1 .. n : SubSeq(t, 1, n)[i] = seqs[i]
  <2>1. \A i \in 1 .. n : t[i] \in Seq(X)
    BY <1>1, ElementOfSeq
  <2>. HIDE DEF n
  <2>2. SubSeq(t, 1, n) \in Seq(Seq(X)) /\ Len(SubSeq(t, 1, n)) = n
    BY <1>1, <2>1, SubSeqProperties
  <2>3. \A i \in 1 .. n : SubSeq(t, 1, n)[i] = t[i]
    BY <1>1, <2>1, SubSeqProperties
  <2>. QED
    BY <1>1, <2>2, <2>3
<1>3. SubSeq(t, 1, n) = seqs
  BY <1>2, SeqEqual
<1>4. Len(t) # 0 /\ Len(t) - 1 = n
  BY <1>1
<1>5. FlattenSeq(t) = FlattenSeq(SubSeq(t, 1, Len(t) - 1)) \o t[Len(t)]
  BY <1>1, <1>4, FlattenStep
<1>. QED
  BY <1>1, <1>3, <1>4, <1>5 DEF t

\* Flattening one more sequence adds its length.
LEMMA FlattenLength ==
  ASSUME NEW X, NEW seqs \in Seq(Seq(X)), Len(seqs) # 0
  PROVE  LET rest == SubSeq(seqs, 1, Len(seqs) - 1)
         IN  /\ Len(FlattenSeq(rest)) \in Nat
             /\ Len(FlattenSeq(seqs)) = Len(FlattenSeq(rest)) + Len(seqs[Len(seqs)])
<1>. DEFINE rest == SubSeq(seqs, 1, Len(seqs) - 1)
            e == seqs[Len(seqs)]
<1>1. e \in Seq(X) /\ FlattenSeq(rest) \in Seq(X) /\ FlattenSeq(seqs) = FlattenSeq(rest) \o e
  BY FlattenStep
<1>. HIDE DEF rest, e
<1>2. Len(FlattenSeq(rest)) \in Nat /\ Len(FlattenSeq(rest) \o e) = Len(FlattenSeq(rest)) + Len(e)
  BY <1>1, ConcatProperties, LenProperties
<1>. QED
  BY <1>1, <1>2 DEF rest, e

\* Every element of a member is in the flattened sequence, and nothing else.
LEMMA FlattenElements ==
  ASSUME NEW X, NEW seqs \in Seq(Seq(X))
  PROVE  /\ FlattenSeq(seqs) \in Seq(X)
         /\ \A x : (\E j \in 1 .. Len(FlattenSeq(seqs)) : FlattenSeq(seqs)[j] = x)
                   <=> (\E i \in 1 .. Len(seqs) : \E k \in 1 .. Len(seqs[i]) : seqs[i][k] = x)
<1>. DEFINE n == Len(seqs)
            In(x, s) == \E k \in 1 .. Len(s) : s[k] = x
<1>1. n \in Nat /\ \A i \in 1 .. n : seqs[i] \in Seq(X)
  BY LenProperties, ElementOfSeq
<1>2. CASE n = 0
  <2>1. seqs = <<>>
    BY <1>2
  <2>2. FlattenSeq(seqs) = <<>>
    BY <2>1 DEF FlattenSeq
  <2>. QED
    BY <1>2, <2>2
<1>3. CASE n # 0
  <2>1. PICK f : Flattens(f, seqs, n) /\ FlattenSeq(seqs) = f[n]
    BY <1>1, <1>3, FlattenSeqIs
  <2>2. \A i \in 1 .. n : f[i] \in Seq(X)
    BY <1>1, <2>1, FlattensType
  <2>3. \A i \in 1 .. n : f[i] = IF i = 1 THEN seqs[i] ELSE f[i - 1] \o seqs[i]
    BY <1>1, <2>1, FlattensAt
  <2>. DEFINE S == {m \in Nat : m \in 1 .. n =>
                      \A x : In(x, f[m]) <=> \E i \in 1 .. m : In(x, seqs[i])}
  <2>4. 0 \in S
    OBVIOUS
  <2>5. ASSUME NEW m \in Nat, m \in S PROVE m + 1 \in S
    <3>. HIDE DEF n
    <3>1. CASE m + 1 \notin 1 .. n
      BY <3>1
    <3>2. CASE m = 0 /\ m + 1 \in 1 .. n
      <4>1. f[1] = seqs[1] /\ 1 .. m + 1 = {1}
        BY <2>3, <3>2
      <4>. HIDE DEF In
      <4>2. \A x : In(x, f[m + 1]) <=> \E i \in 1 .. m + 1 : In(x, seqs[i])
        BY <3>2, <4>1
      <4>. QED
        BY <4>2
    <3>3. CASE m # 0 /\ m + 1 \in 1 .. n
      <4>1. m \in 1 .. n /\ (m + 1) - 1 = m /\ m + 1 # 1 /\ 1 .. m + 1 = (1 .. m) \cup {m + 1}
        BY <1>1, <3>3
      <4>2. f[m + 1] = f[m] \o seqs[m + 1] /\ f[m] \in Seq(X) /\ seqs[m + 1] \in Seq(X)
        <5>1. f[m + 1] = IF m + 1 = 1 THEN seqs[m + 1] ELSE f[(m + 1) - 1] \o seqs[m + 1]
          BY <2>3, <3>3
        <5>. QED
          BY <1>1, <2>2, <3>3, <4>1, <5>1
      <4>3. ASSUME NEW a \in Seq(X), NEW b \in Seq(X), NEW x
            PROVE  In(x, a \o b) <=> In(x, a) \/ In(x, b)
        <5>. DEFINE c == a \o b
        <5>1. Len(c) = Len(a) + Len(b) /\ Len(a) \in Nat /\ Len(b) \in Nat
              /\ \A i \in 1 .. Len(a) + Len(b) : c[i] = IF i <= Len(a) THEN a[i] ELSE b[i - Len(a)]
          BY ConcatProperties, LenProperties
        <5>. HIDE DEF c
        <5>2. In(x, c) => In(x, a) \/ In(x, b)
          <6>. SUFFICES ASSUME NEW k \in 1 .. Len(c), c[k] = x PROVE In(x, a) \/ In(x, b)
            OBVIOUS
          <6>1. CASE k <= Len(a)
            BY <5>1, <6>1
          <6>2. CASE ~ (k <= Len(a))
            <7>1. k - Len(a) \in 1 .. Len(b) /\ b[k - Len(a)] = x
              BY <5>1, <6>2
            <7>. QED
              BY <7>1
          <6>. QED
            BY <6>1, <6>2
        <5>3. In(x, a) => In(x, c)
          BY <5>1
        <5>4. In(x, b) => In(x, c)
          <6>. SUFFICES ASSUME NEW k \in 1 .. Len(b), b[k] = x PROVE In(x, c)
            OBVIOUS
          <6>1. /\ Len(a) + k \in 1 .. Len(c) /\ ~ (Len(a) + k <= Len(a)) /\ (Len(a) + k) - Len(a) = k
            BY <5>1
          <6>2. c[Len(a) + k] = x
            BY <5>1, <6>1
          <6>. QED
            BY <6>1, <6>2
        <5>. QED
          BY <5>2, <5>3, <5>4 DEF c
      <4>. HIDE DEF In
      <4>4. \A x : In(x, f[m]) <=> \E i \in 1 .. m : In(x, seqs[i])
        BY <2>5, <4>1
      <4>5. \A x : In(x, f[m + 1]) <=> In(x, f[m]) \/ In(x, seqs[m + 1])
        BY <4>2, <4>3
      <4>6. \A x : In(x, f[m + 1]) <=> \E i \in 1 .. m + 1 : In(x, seqs[i])
        BY <4>1, <4>4, <4>5
      <4>. QED
        BY <4>6
    <3>. QED
      BY <3>1, <3>2, <3>3
  <2>. HIDE DEF S
  <2>6. Nat \subseteq S
    BY <2>4, <2>5, NatSetInduction
  <2>7. n \in 1 .. n
    BY <1>1, <1>3
  <2>8. \A x : In(x, f[n]) <=> \E i \in 1 .. n : In(x, seqs[i])
    BY <1>1, <2>6, <2>7 DEF S
  <2>. QED
    BY <2>1, <2>2, <2>7, <2>8
<1>. QED
  BY <1>2, <1>3

\* Nothing, and one sequence.
LEMMA FlattenFew ==
  ASSUME NEW X, NEW r \in Seq(X)
  PROVE  FlattenSeq(<<>>) = <<>> /\ FlattenSeq(<<r>>) = r
<1>1. FlattenSeq(<<>>) = <<>>
  BY DEF FlattenSeq
<1>2. PICK s : s = <<r>>
  OBVIOUS
<1>3. Len(s) = 1 /\ s[1] = r /\ Len(s) \in Nat \ {0}
  BY <1>2
<1>4. PICK f : Flattens(f, s, 1) /\ FlattenSeq(s) = f[1]
  <2>1. \E f : Flattens(f, s, Len(s)) /\ FlattenSeq(s) = f[Len(s)]
    BY <1>3, FlattenSeqIs
  <2>2. Len(s) = 1
    BY <1>3
  <2>. QED
    BY <2>1, <2>2
<1>5. f[1] = s[1]
  <2>1. \A i \in 1 .. 1 : f[i] = IF i = 1 THEN s[i] ELSE f[i - 1] \o s[i]
    BY <1>4, FlattensAt
  <2>. QED
    BY <2>1
<1>. QED
  BY <1>1, <1>2, <1>3, <1>4, <1>5
==============================================================================
