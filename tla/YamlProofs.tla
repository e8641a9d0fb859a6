----------------------------- MODULE YamlProofs -----------------------------
(***************************************************************************)
(* That the reader makes of every regular document what it means: by       *)
(* induction over its sites, their fields, and the fields below those.     *)
(* After each of them the tree is that of what has been read (IsTree), the *)
(* keys to come are free in it (Free), and the next line finds the reader  *)
(* in the place it belongs to, whatever is still on the stack (Level,      *)
(* Back).  For any document at all: the lengths of the lists in its tree   *)
(* are natural numbers (Counted).                                          *)
(***************************************************************************)
EXTENDS Yaml, SequenceTheorems, WellFoundedInduction, TLAPS

-----------------------------------------------------------------------------
(* Induction over the natural numbers, for sets of numbers.                *)

(* A set of natural numbers has a least one.                               *)
LEMMA Least ==
    ASSUME NEW T \in SUBSET Nat, T # {}
    PROVE  \E m \in T : \A k \in T : m <= k
<1>1. \E m \in T : \A k \in T : ~(<<k, m>> \in OpToRel(<, Nat))
  BY NatLessThanWellFounded, WFMin
<1>2. PICK m \in T : \A k \in T : ~(<<k, m>> \in OpToRel(<, Nat))
  BY <1>1
<1>3. ASSUME NEW k \in T PROVE m <= k
  <2>1. <<k, m>> \in Nat \X Nat
    OBVIOUS
  <2>2. ~(k < m)
    BY <1>2, <2>1 DEF OpToRel
  <2> QED
    BY <2>2
<1> QED
  BY <1>3

(* Numbers that a set has, from 0 on, each with the one before it, are all *)
(* the natural numbers.                                                    *)
LEMMA Induction ==
    ASSUME NEW T, 0 \in T, \A n \in Nat : n \in T => n + 1 \in T
    PROVE  Nat \subseteq T
<1> SUFFICES ASSUME Nat \ T # {} PROVE FALSE
  OBVIOUS
<1>1. PICK m \in Nat \ T : \A k \in Nat \ T : m <= k
  BY Least
<1>2. m # 0 /\ m - 1 \in Nat
  BY <1>1
<1>3. m - 1 \in T
  BY <1>1, <1>2
<1> QED
  BY <1>1, <1>2, <1>3

(* The states of the reader, from the first line to the last.              *)
Reads(lines, state) ==
    /\ state[0] = Start
    /\ \A k \in 1 .. Len(lines) : state[k] = Step(lines, state[k - 1], k)
    /\ parseFile(lines) = state[Len(lines)]

(* Every text has a run of the reader: parseFile is a recursive function.  *)
LEMMA Reading ==
    ASSUME NEW lines, Len(lines) \in Nat
    PROVE  \E state : Reads(lines, state)
<1> DEFINE Run(f, n) == f = [k \in 0 .. n |-> IF k = 0 THEN Start ELSE Step(lines, f[k - 1], k)]
           T == {n \in Nat : \E f : Run(f, n)}
<1>1. 0 \in T
  <2> DEFINE f == [k \in 0 .. 0 |-> Start]
  <2>1. Run(f, 0)
    OBVIOUS
  <2> QED
    BY <2>1
<1>2. ASSUME NEW n \in Nat, n \in T PROVE n + 1 \in T
  <2>1. PICK f : Run(f, n)
    BY <1>2
  <2> DEFINE g == [k \in 0 .. n + 1 |-> IF k <= n THEN f[k] ELSE Step(lines, f[n], n + 1)]
  <2>2. ASSUME NEW k \in 0 .. n + 1
        PROVE  g[k] = IF k = 0 THEN Start ELSE Step(lines, g[k - 1], k)
    <3>1. CASE k = 0
      BY <2>1, <3>1
    <3>2. CASE k \in 1 .. n
      <4>1. g[k] = f[k] /\ g[k - 1] = f[k - 1] /\ k # 0 /\ k \in 0 .. n
        BY <3>2
      <4>2. f[k] = Step(lines, f[k - 1], k)
        BY <2>1, <4>1
      <4> QED
        BY <4>1, <4>2
    <3>3. CASE k = n + 1
      <4>1. g[k] = Step(lines, f[n], n + 1) /\ g[k - 1] = f[n] /\ k # 0
        BY <3>3
      <4> QED
        BY <3>3, <4>1
    <3> QED
      BY <3>1, <3>2, <3>3
  <2>3. Run(g, n + 1)
    <3>1. g = [k \in 0 .. n + 1 |-> g[k]]
      OBVIOUS
    <3> HIDE DEF g
    <3> QED
      BY <2>2, <3>1
  <2> HIDE DEF g
  <2> QED
    BY <2>3
<1>3. Len(lines) \in T
  <2> HIDE DEF T
  <2> QED
    BY <1>1, <1>2, Induction
<1> DEFINE state == CHOOSE f : Run(f, Len(lines))
<1>4. Run(state, Len(lines))
  BY <1>3
<1>5. parseFile(lines) = state[Len(lines)]
  BY DEF parseFile
<1> HIDE DEF state
<1>6. Reads(lines, state)
  BY <1>4, <1>5 DEF Reads
<1> QED
  BY <1>6

(* A flattened sequence, part by part.                                     *)
Flat(ss, flat) ==
    /\ flat[0] = <<>>
    /\ \A n \in 1 .. Len(ss) : flat[n] = flat[n - 1] \o ss[n]
    /\ flat[Len(ss)] = FlattenSeq(ss)

(* A flattened sequence of sequences grows by one of them at a time, ...   *)
LEMMA Flattened ==
    ASSUME NEW S, NEW ss \in Seq(Seq(S)), ss # <<>>
    PROVE  \E f : /\ f[1] = ss[1]
                  /\ \A n \in 2 .. Len(ss) : f[n] = f[n - 1] \o ss[n]
                  /\ f[Len(ss)] = FlattenSeq(ss)
<1>0. Len(ss) \in Nat \ {0}
  OBVIOUS
<1> DEFINE Run(f, n) == f = [i \in 1 .. n |-> IF i = 1 THEN ss[i] ELSE f[i - 1] \o ss[i]]
           T == {n \in Nat : \E f : Run(f, n)}
<1>1. 0 \in T
  <2> DEFINE f == [k \in 1 .. 0 |-> ss[k]]
  <2>1. Run(f, 0)
    OBVIOUS
  <2> HIDE DEF f
  <2> QED
    BY <2>1
<1>2. ASSUME NEW n \in Nat, n \in T PROVE n + 1 \in T
  <2>1. PICK f : Run(f, n)
    BY <1>2
  <2> DEFINE last == IF n = 0 THEN ss[1] ELSE f[n] \o ss[n + 1]
             g == [k \in 1 .. n + 1 |-> IF k <= n THEN f[k] ELSE last]
  <2>2. ASSUME NEW k \in 1 .. n + 1
        PROVE  g[k] = IF k = 1 THEN ss[k] ELSE g[k - 1] \o ss[k]
    <3>1. CASE k \in 1 .. n
      <4>1. g[k] = f[k] /\ (k # 1 => g[k - 1] = f[k - 1])
        BY <3>1
      <4>2. f[k] = IF k = 1 THEN ss[k] ELSE f[k - 1] \o ss[k]
        BY <2>1, <3>1
      <4> HIDE DEF g
      <4> QED
        BY <4>1, <4>2
    <3>2. CASE k = n + 1
      <4>1. g[k] = last /\ (k # 1 => g[k - 1] = f[n] /\ n # 0)
        BY <3>2
      <4>2. k = 1 => n = 0
        BY <3>2
      <4> HIDE DEF g
      <4> QED
        BY <3>2, <4>1, <4>2
    <3> QED
      BY <3>1, <3>2
  <2>3. Run(g, n + 1)
    <3>1. g = [k \in 1 .. n + 1 |-> g[k]]
      OBVIOUS
    <3> HIDE DEF g
    <3> QED
      BY <2>2, <3>1
  <2> HIDE DEF g, Run
  <2> QED
    BY <2>3
<1>3. Len(ss) \in T
  <2> HIDE DEF T
  <2> QED
    BY <1>1, <1>2, <1>0, Induction
<1> DEFINE flat == CHOOSE f : Run(f, Len(ss))
<1>4. Run(flat, Len(ss))
  BY <1>3
<1>5. FlattenSeq(ss) = flat[Len(ss)]
  BY <1>0 DEF FlattenSeq
<1> HIDE DEF flat
<1>6. flat[1] = ss[1]
  <2>1. 1 \in 1 .. Len(ss)
    BY <1>0
  <2> QED
    BY <1>4, <2>1
<1>7. ASSUME NEW n \in 2 .. Len(ss) PROVE flat[n] = flat[n - 1] \o ss[n]
  <2>1. n \in 1 .. Len(ss) /\ n # 1
    BY <1>0
  <2> QED
    BY <1>4, <2>1
<1> QED
  BY <1>5, <1>6, <1>7

(* ... from the empty one on.                                              *)
LEMMA Flattening ==
    ASSUME NEW S, NEW ss \in Seq(Seq(S))
    PROVE  \E flat : Flat(ss, flat) /\ \A n \in 0 .. Len(ss) : flat[n] \in Seq(S)
<1>0. Len(ss) \in Nat /\ \A n \in 1 .. Len(ss) : ss[n] \in Seq(S)
  OBVIOUS
<1>1. \E flat : Flat(ss, flat)
  <2>1. CASE ss = <<>>
    <3> DEFINE flat == [k \in {0} |-> <<>>]
    <3>1. Flat(ss, flat)
      BY <2>1 DEF Flat, FlattenSeq
    <3> QED
      BY <3>1
  <2>2. CASE ss # <<>>
    <3>1. PICK f : /\ f[1] = ss[1]
                   /\ \A n \in 2 .. Len(ss) : f[n] = f[n - 1] \o ss[n]
                   /\ f[Len(ss)] = FlattenSeq(ss)
      BY <2>2, Flattened
    <3> DEFINE flat == [n \in 0 .. Len(ss) |-> IF n = 0 THEN <<>> ELSE f[n]]
    <3>2. Len(ss) \in Nat \ {0}
      BY <2>2
    <3>3. flat[0] = <<>> /\ \A n \in 1 .. Len(ss) : flat[n] = f[n]
      BY <3>2
    <3>4. ASSUME NEW n \in 1 .. Len(ss) PROVE flat[n] = flat[n - 1] \o ss[n]
      <4>1. CASE n = 1
        <5>1. flat[n] = ss[n] /\ flat[n - 1] = <<>>
          BY <3>1, <3>3, <4>1
        <5>2. <<>> \o ss[n] = ss[n]
          BY <1>0, ConcatEmptySeq
        <5> HIDE DEF flat
        <5> QED
          BY <5>1, <5>2
      <4>2. CASE n # 1
        <5>1. n \in 2 .. Len(ss) /\ n - 1 \in 1 .. Len(ss)
          BY <3>2, <4>2
        <5> HIDE DEF flat
        <5> QED
          BY <3>1, <3>3, <5>1
      <4> QED
        BY <4>1, <4>2
    <3>5. Flat(ss, flat)
      <4>1. Len(ss) \in 1 .. Len(ss)
        BY <3>2
      <4> HIDE DEF flat
      <4> QED
        BY <3>1, <3>3, <3>4, <4>1 DEF Flat
    <3> QED
      BY <3>5
  <2> QED
    BY <2>1, <2>2
<1>2. PICK flat : Flat(ss, flat)
  BY <1>1
<1> DEFINE T == {n \in Nat : n <= Len(ss) => flat[n] \in Seq(S)}
<1>3. 0 \in T
  <2>1. flat[0] \in Seq(S)
    BY <1>2, EmptySeq DEF Flat
  <2> QED
    BY <2>1
<1>4. ASSUME NEW n \in Nat, n \in T PROVE n + 1 \in T
  <2> SUFFICES ASSUME n + 1 <= Len(ss) PROVE flat[n + 1] \in Seq(S)
    OBVIOUS
  <2>1. n + 1 \in 1 .. Len(ss) /\ (n + 1) - 1 = n /\ flat[n] \in Seq(S)
    BY <1>0, <1>4
  <2>2. flat[n + 1] = flat[n] \o ss[n + 1] /\ ss[n + 1] \in Seq(S)
    BY <1>0, <1>2, <2>1 DEF Flat
  <2> QED
    BY <2>1, <2>2
<1>5. Nat \subseteq T
  <2> HIDE DEF T
  <2> QED
    BY <1>3, <1>4, Induction
<1> QED
  BY <1>0, <1>2, <1>5

(* The lines from i + 1 on are those of text.                              *)
Holds(lines, i, text) ==
    /\ i \in Nat /\ i + Len(text) <= Len(lines)
    /\ \A k \in 1 .. Len(text) : lines[i + k] = text[k]

(* A text that stands in the lines consists of two texts that stand there, *)
(* the second after the first.                                             *)
LEMMA Halves ==
    ASSUME NEW S, NEW lines \in Seq(S), NEW i, NEW s \in Seq(S), NEW t \in Seq(S),
           Holds(lines, i, s \o t)
    PROVE  /\ Holds(lines, i, s)
           /\ Holds(lines, i + Len(s), t)
           /\ i + Len(s) + Len(t) = i + Len(s \o t)
<1>1. /\ Len(s \o t) = Len(s) + Len(t) /\ Len(s) \in Nat /\ Len(t) \in Nat /\ Len(lines) \in Nat
      /\ \A k \in 1 .. Len(s) : (s \o t)[k] = s[k]
      /\ \A k \in 1 .. Len(t) : (s \o t)[Len(s) + k] = t[k]
  OBVIOUS
<1>2. i \in Nat /\ \A k \in 1 .. Len(s) + Len(t) : lines[i + k] = (s \o t)[k]
  BY <1>1 DEF Holds
<1>3. ASSUME NEW k \in 1 .. Len(t) PROVE lines[i + Len(s) + k] = t[k]
  <2>1. Len(s) + k \in 1 .. Len(s) + Len(t) /\ i + Len(s) + k = i + (Len(s) + k)
    BY <1>1, <1>2
  <2> QED
    BY <1>1, <1>2, <2>1
<1>4. i + Len(s) + Len(t) <= Len(lines) /\ i + Len(s) <= Len(lines) /\ i + Len(s) \in Nat
  BY <1>1, <1>2 DEF Holds
<1>5. Holds(lines, i, s)
  BY <1>1, <1>2, <1>4 DEF Holds
<1>6. Holds(lines, i + Len(s), t)
  BY <1>3, <1>4 DEF Holds
<1>7. i + Len(s) + Len(t) = i + Len(s \o t)
  BY <1>1, <1>2
<1> QED
  BY <1>5, <1>6, <1>7

(* Where the parts of a text begin.                                        *)
Parts(lines, i, ss, from) ==
    /\ from[0] = i
    /\ \A n \in 1 .. Len(ss) :
        from[n] = from[n - 1] + Len(ss[n]) /\ Holds(lines, from[n - 1], ss[n])
    /\ from[Len(ss)] = i + Len(FlattenSeq(ss))

(* So does a text of many parts, each after the one before.                *)
LEMMA HoldsParts ==
    ASSUME NEW S, NEW lines \in Seq(S), NEW i, NEW ss \in Seq(Seq(S)),
           Holds(lines, i, FlattenSeq(ss))
    PROVE  \E from : Parts(lines, i, ss, from)
<1>0. Len(ss) \in Nat /\ i \in Nat /\ \A n \in 1 .. Len(ss) : ss[n] \in Seq(S)
  BY DEF Holds
<1>1. PICK flat : Flat(ss, flat) /\ \A n \in 0 .. Len(ss) : flat[n] \in Seq(S)
  BY Flattening
<1>2. ASSUME NEW n \in 1 .. Len(ss)
      PROVE  /\ flat[n] = flat[n - 1] \o ss[n]
             /\ flat[n] \in Seq(S) /\ flat[n - 1] \in Seq(S) /\ ss[n] \in Seq(S)
  <2>1. n \in 0 .. Len(ss) /\ n - 1 \in 0 .. Len(ss)
    BY <1>0
  <2>2. flat[n] = flat[n - 1] \o ss[n]
    BY <1>1 DEF Flat
  <2> QED
    BY <1>0, <1>1, <2>1, <2>2
<1> DEFINE T == {m \in Nat : m <= Len(ss) => Holds(lines, i, flat[Len(ss) - m])}
<1>3. 0 \in T
  BY <1>0, <1>1 DEF Flat
<1>4. ASSUME NEW m \in Nat, m \in T PROVE m + 1 \in T
  <2> SUFFICES ASSUME m + 1 <= Len(ss) PROVE Holds(lines, i, flat[Len(ss) - (m + 1)])
    OBVIOUS
  <2>1. /\ Len(ss) - m \in 1 .. Len(ss) /\ (Len(ss) - m) - 1 = Len(ss) - (m + 1)
        /\ Holds(lines, i, flat[Len(ss) - m])
    BY <1>0, <1>4
  <2> DEFINE n == Len(ss) - m
  <2>2. /\ flat[n] = flat[n - 1] \o ss[n] /\ flat[n - 1] \in Seq(S) /\ ss[n] \in Seq(S)
        /\ Holds(lines, i, flat[n])
    BY <1>2, <2>1
  <2> HIDE DEF n
  <2>3. Holds(lines, i, flat[n - 1])
    BY <2>2, Halves
  <2> QED
    BY <2>1, <2>3 DEF n
<1>5. Nat \subseteq T
  <2> HIDE DEF T
  <2> QED
    BY <1>3, <1>4, Induction
<1> DEFINE from == [n \in 0 .. Len(ss) |-> i + Len(flat[n])]
<1>6. ASSUME NEW n \in 1 .. Len(ss)
      PROVE  from[n] = from[n - 1] + Len(ss[n]) /\ Holds(lines, from[n - 1], ss[n])
  <2>1. Len(ss) - n \in Nat /\ Len(ss) - n <= Len(ss) /\ Len(ss) - (Len(ss) - n) = n
    BY <1>0
  <2>2. Holds(lines, i, flat[n])
    BY <1>5, <2>1
  <2>3. from[n] = i + Len(flat[n]) /\ from[n - 1] = i + Len(flat[n - 1])
    BY <1>0
  <2>4. /\ flat[n] = flat[n - 1] \o ss[n] /\ flat[n - 1] \in Seq(S) /\ ss[n] \in Seq(S)
    BY <1>2
  <2>5. /\ Holds(lines, i + Len(flat[n - 1]), ss[n])
        /\ i + Len(flat[n - 1]) + Len(ss[n]) = i + Len(flat[n])
    <3> DEFINE s == flat[n - 1]
               t == ss[n]
    <3>1. s \in Seq(S) /\ t \in Seq(S) /\ flat[n] = s \o t /\ Holds(lines, i, s \o t)
      BY <2>2, <2>4
    <3> HIDE DEF s, t
    <3>2. Holds(lines, i + Len(s), t) /\ i + Len(s) + Len(t) = i + Len(s \o t)
      BY <3>1, Halves
    <3>3. i + Len(s) + Len(t) = i + Len(flat[n])
      BY <3>1, <3>2
    <3> QED
      BY <3>2, <3>3 DEF s, t
  <2> HIDE DEF from
  <2> QED
    BY <2>3, <2>5
<1>7. from[0] = i /\ from[Len(ss)] = i + Len(FlattenSeq(ss))
  <2>1. flat[0] = <<>> /\ flat[Len(ss)] = FlattenSeq(ss)
    BY <1>1 DEF Flat
  <2> HIDE DEF Flat
  <2>2. from[0] = i + Len(flat[0]) /\ from[Len(ss)] = i + Len(flat[Len(ss)])
    <3>1. 0 \in 0 .. Len(ss) /\ Len(ss) \in 0 .. Len(ss)
      BY <1>0
    <3> QED
      BY <3>1
  <2>3. i \in Nat
    BY DEF Holds
  <2> HIDE DEF from
  <2>4. i + Len(<<>>) = i
    BY <2>3
  <2> QED
    BY <2>1, <2>2, <2>4
<1>8. Parts(lines, i, ss, from)
  <2> HIDE DEF from
  <2> QED
    BY <1>6, <1>7 DEF Parts
<1> HIDE DEF from
<1> QED
  BY <1>8

-----------------------------------------------------------------------------
(* Paths and trees.                                                        *)

Keys  == STRING \cup {"servers"}     \* which is a string, of course
Paths == Seq(Keys \X Nat)

(* IsPrefix, element by element.                                           *)
LEMMA PrefixMeans ==
    ASSUME NEW p \in Paths, NEW q \in Paths
    PROVE  IsPrefix(p, q) <=> Len(p) <= Len(q) /\ \A i \in 1 .. Len(p) : p[i] = q[i]
<1> DEFINE S == Keys \X Nat
<1> HIDE DEF S
<1>1. p \in Seq(S) /\ q \in Seq(S)
  BY DEF Paths, S
<1>2. Len(p) \in Nat /\ Len(q) \in Nat
  BY <1>1
<1>3. SubSeq(p, 1, Len(p)) = p
  BY <1>1, SubSeqFull
<1>4. ASSUME Len(p) <= Len(q)
      PROVE  /\ SubSeq(q, 1, Len(p)) \in Seq(S) /\ Len(SubSeq(q, 1, Len(p))) = Len(p)
             /\ \A i \in 1 .. Len(p) : SubSeq(q, 1, Len(p))[i] = q[i]
  BY <1>1, <1>2, <1>4
<1>5. ASSUME Len(p) <= Len(q), \A i \in 1 .. Len(p) : p[i] = q[i]
      PROVE  p = SubSeq(q, 1, Len(p))
  BY <1>1, <1>4, <1>5, SeqEqual
<1>6. ASSUME Len(p) <= Len(q), p = SubSeq(q, 1, Len(p)), NEW i \in 1 .. Len(p)
      PROVE  p[i] = q[i]
  BY <1>4, <1>6
<1> QED
  BY <1>3, <1>5, <1>6 DEF IsPrefix

(* A child is one step longer than its parent, and begins like it.         *)
LEMMA ChildPath ==
    ASSUME NEW b \in Paths, NEW key \in Keys
    PROVE  /\ Child(b, key) \in Paths
           /\ Len(Child(b, key)) = Len(b) + 1
           /\ \A i \in 1 .. Len(b) : Child(b, key)[i] = b[i]
           /\ Child(b, key)[Len(b) + 1] = <<key, 0>>
<1> DEFINE S == Keys \X Nat
           e == <<key, 0>>
<1>1. e \in S /\ b \in Seq(S)
  BY DEF Paths
<1> HIDE DEF S, e
<1>2. /\ Append(b, e) \in Seq(S) /\ Len(Append(b, e)) = Len(b) + 1
      /\ \A i \in 1 .. Len(b) : Append(b, e)[i] = b[i]
      /\ Append(b, e)[Len(b) + 1] = e
  BY <1>1, AppendProperties
<1>3. Child(b, key) = Append(b, e)
  BY DEF Child, e
<1> QED
  BY <1>2, <1>3 DEF e, S, Paths

(* A child is not its parent's ..., nor is what is below another child.    *)
LEMMA Apart ==
    ASSUME NEW b \in Paths, NEW j \in Keys, NEW k \in Keys, NEW q \in Paths,
           IsPrefix(Child(b, j), q), IsPrefix(Child(b, k), q)
    PROVE  j = k
<1>1. /\ Len(b) + 1 \in 1 .. Len(Child(b, j)) /\ Len(b) + 1 \in 1 .. Len(Child(b, k))
      /\ Child(b, j)[Len(b) + 1] = <<j, 0>> /\ Child(b, k)[Len(b) + 1] = <<k, 0>>
      /\ Child(b, j) \in Paths /\ Child(b, k) \in Paths
  <2>1. Len(b) \in Nat
    BY DEF Paths
  <2>2. /\ Child(b, j) \in Paths /\ Len(Child(b, j)) = Len(b) + 1
        /\ Child(b, j)[Len(b) + 1] = <<j, 0>>
    BY ChildPath
  <2>3. /\ Child(b, k) \in Paths /\ Len(Child(b, k)) = Len(b) + 1
        /\ Child(b, k)[Len(b) + 1] = <<k, 0>>
    BY ChildPath
  <2> QED
    BY <2>1, <2>2, <2>3
<1>2. q[Len(b) + 1] = <<j, 0>> /\ q[Len(b) + 1] = <<k, 0>>
  BY <1>1, PrefixMeans
<1>3. <<j, 0>>[1] = j /\ <<k, 0>>[1] = k
  OBVIOUS
<1> QED
  BY <1>2, <1>3

(* What is below a child begins with the child's path, its parent does     *)
(* not.                                                                    *)
LEMMA BelowChild ==
    ASSUME NEW b \in Paths, NEW j \in Keys, NEW k \in Keys
    PROVE  /\ IsPrefix(Child(b, j), Child(b, j))
           /\ IsPrefix(Child(b, j), Child(Child(b, j), k))
           /\ ~IsPrefix(Child(b, j), b)
           /\ ~IsPrefix(Child(Child(b, j), k), Child(b, j))
<1>1. /\ Child(b, j) \in Paths /\ Child(Child(b, j), k) \in Paths
      /\ Len(b) \in Nat /\ Len(Child(b, j)) = Len(b) + 1
      /\ Len(Child(Child(b, j), k)) = Len(b) + 2
      /\ \A i \in 1 .. Len(b) + 1 : Child(Child(b, j), k)[i] = Child(b, j)[i]
  <2>1. Child(b, j) \in Paths /\ Len(Child(b, j)) = Len(b) + 1
    BY ChildPath
  <2>2. Len(b) \in Nat
    BY DEF Paths
  <2> DEFINE c == Child(b, j)
  <2>3. c \in Paths
    BY <2>1
  <2> HIDE DEF c
  <2>4. /\ Child(c, k) \in Paths /\ Len(Child(c, k)) = Len(c) + 1
        /\ \A i \in 1 .. Len(c) : Child(c, k)[i] = c[i]
    BY <2>3, ChildPath
  <2> QED
    BY <2>1, <2>2, <2>4 DEF c
<1> DEFINE c == Child(b, j)
           d == Child(c, k)
<1>2. /\ c \in Paths /\ d \in Paths /\ Len(c) = Len(b) + 1 /\ Len(d) = Len(b) + 2
      /\ Len(b) \in Nat /\ \A i \in 1 .. Len(b) + 1 : d[i] = c[i]
  BY <1>1
<1> HIDE DEF c, d
<1>3. IsPrefix(c, c) /\ ~IsPrefix(c, b)
  BY <1>2, PrefixMeans
<1>4. IsPrefix(c, d)
  BY <1>2, PrefixMeans
<1>5. ~IsPrefix(d, c)
  BY <1>2, PrefixMeans
<1> QED
  BY <1>3, <1>4, <1>5 DEF c, d

(* The tree data has the nodes N.                                          *)
IsTree(data, N) ==
    /\ DOMAIN data \subseteq Paths
    /\ data = [q \in DOMAIN data |-> data[q]]
    /\ N = {<<q, data[q]>> : q \in DOMAIN data}

(* Nothing lies at p or below it.                                          *)
Free(N, p) == \A x \in N : ~IsPrefix(p, x[1])

(* A node of a tree is there once, and the tree has no others.             *)
LEMMA NodePaths ==
    ASSUME NEW data, NEW N, IsTree(data, N)
    PROVE  /\ \A x \in N : x[1] \in Paths /\ x[1] \in DOMAIN data /\ x = <<x[1], data[x[1]]>>
           /\ \A q \in DOMAIN data : <<q, data[q]>> \in N
  BY DEF IsTree

(* An assignment where nothing is below destroys nothing.                  *)
LEMMA PutFree ==
    ASSUME NEW data, NEW N, IsTree(data, N), NEW p \in Paths, Free(N, p), NEW v
    PROVE  IsTree(Put(data, p, v), N \cup {<<p, v>>})
<1>1. \A q \in DOMAIN data : ~IsPrefix(p, q)
  <2> SUFFICES ASSUME NEW q \in DOMAIN data PROVE ~IsPrefix(p, q)
    OBVIOUS
  <2>1. <<q, data[q]>> \in N /\ <<q, data[q]>>[1] = q
    BY NodePaths
  <2> QED
    BY <2>1 DEF Free
<1>2. p \notin DOMAIN data
  <2>1. IsPrefix(p, p)
    BY PrefixMeans DEF Paths
  <2> QED
    BY <1>1, <2>1
<1> DEFINE D == DOMAIN data
           new == [q \in D \cup {p} |-> IF q = p THEN v ELSE data[q]]
<1>3. {x \in D : ~IsPrefix(p, x)} = D
  BY <1>1
<1>4. Put(data, p, v) = new
  BY <1>3 DEF Put
<1>5. DOMAIN new = D \cup {p} /\ new[p] = v /\ \A q \in D : new[q] = data[q]
  BY <1>2
<1>6. new = [q \in DOMAIN new |-> new[q]]
  OBVIOUS
<1> HIDE DEF new
<1>7. {<<q, new[q]>> : q \in DOMAIN new} = {<<q, data[q]>> : q \in D} \cup {<<p, v>>}
  <2>1. {<<q, new[q]>> : q \in DOMAIN new} = {<<q, new[q]>> : q \in D} \cup {<<p, new[p]>>}
    BY <1>5
  <2>2. {<<q, new[q]>> : q \in D} = {<<q, data[q]>> : q \in D}
    BY <1>5
  <2> QED
    BY <1>5, <2>1, <2>2
<1>8. DOMAIN new \subseteq Paths
  BY <1>5 DEF IsTree
<1> QED
  BY <1>4, <1>6, <1>7, <1>8 DEF IsTree

(* The node of a single path changes.                                      *)
LEMMA SetNode ==
    ASSUME NEW data, NEW N, NEW p, NEW v, NEW w,
           IsTree(data, N \cup {<<p, v>>}), \A x \in N : x[1] # p
    PROVE  /\ p \in DOMAIN data /\ data[p] = v
           /\ IsTree([data EXCEPT ![p] = w], N \cup {<<p, w>>})
<1>1. p \in DOMAIN data /\ data[p] = v
  <2>1. <<p, v>> \in N \cup {<<p, v>>} /\ <<p, v>>[1] = p /\ <<p, v>>[2] = v
    OBVIOUS
  <2> QED
    BY <2>1, NodePaths
<1> DEFINE new == [data EXCEPT ![p] = w]
           D == DOMAIN data
<1>2. DOMAIN new = D /\ new[p] = w /\ \A q \in D \ {p} : new[q] = data[q]
  BY <1>1
<1>3. new = [q \in DOMAIN new |-> new[q]]
  OBVIOUS
<1> HIDE DEF new
<1>4. N = {<<q, data[q]>> : q \in D \ {p}}
  <2>1. ASSUME NEW x \in N PROVE x \in {<<q, data[q]>> : q \in D \ {p}}
    <3>1. x[1] \in D /\ x = <<x[1], data[x[1]]>>
      BY NodePaths
    <3> QED
      BY <3>1
  <2>2. ASSUME NEW q \in D \ {p} PROVE <<q, data[q]>> \in N
    <3>1. <<q, data[q]>> \in N \cup {<<p, v>>} /\ <<q, data[q]>>[1] = q
      BY NodePaths
    <3> QED
      BY <3>1
  <2> QED
    BY <2>1, <2>2
<1>5. {<<q, new[q]>> : q \in D} = {<<q, new[q]>> : q \in D \ {p}} \cup {<<p, new[p]>>}
  BY <1>1
<1>6. {<<q, new[q]>> : q \in D \ {p}} = {<<q, data[q]>> : q \in D \ {p}}
  BY <1>2
<1>7. D \subseteq Paths
  BY DEF IsTree
<1>8. IsTree(new, N \cup {<<p, w>>})
  BY <1>2, <1>3, <1>4, <1>5, <1>6, <1>7 DEF IsTree
<1> QED
  BY <1>1, <1>8 DEF new

(* The function with these nodes, as Meaning has it.                       *)
Tree(N) == [p \in {x[1] : x \in N} |-> (CHOOSE x \in N : x[1] = p)[2]]

(* A tree is determined by its nodes.                                      *)
LEMMA TreeOf ==
    ASSUME NEW data, NEW N, IsTree(data, N)
    PROVE  data = Tree(N)
<1>1. {x[1] : x \in N} = DOMAIN data
  <2>1. ASSUME NEW q \in DOMAIN data PROVE q \in {x[1] : x \in N}
    <3>1. <<q, data[q]>> \in N /\ <<q, data[q]>>[1] = q
      BY NodePaths
    <3> QED
      BY <3>1
  <2> QED
    BY <2>1, NodePaths
<1>2. ASSUME NEW q \in DOMAIN data PROVE data[q] = (CHOOSE x \in N : x[1] = q)[2]
  <2>1. <<q, data[q]>> \in N /\ <<q, data[q]>>[1] = q
    BY NodePaths
  <2> DEFINE x == CHOOSE y \in N : y[1] = q
  <2>2. x \in N /\ x[1] = q
    BY <2>1
  <2> HIDE DEF x
  <2>3. x = <<q, data[q]>>
    BY <2>2, NodePaths
  <2>4. x[2] = data[q]
    BY <2>3
  <2> QED
    BY <2>4 DEF x
<1> QED
  BY <1>1, <1>2 DEF IsTree, Tree

-----------------------------------------------------------------------------
(* The steps of the reader.                                                *)

(* A state of the reader that has not failed.                              *)
Parsed(data, stack, indent, arrays) ==
    [data |-> data, stack |-> stack, previousIndent |-> indent, arrays |-> arrays,
     failed |-> "no"]

(* Pointers of stack, the one to the outermost map, the key of the list of *)
(* sites, arrays while it is open, and the path of a site.                 *)
Pointers == [at : Paths, ok : BOOLEAN]
To(p)    == [at |-> p, ok |-> TRUE]
Root     == To(<<>>)
Servers  == << <<"servers", 0>> >>
Opened     == <<[at |-> Servers, ind |-> 2, ok |-> TRUE]>>
SiteAt(k) == << <<"servers", k>> >>

(* With a line of indentation ind the reader comes back to stack and       *)
(* arrays.                                                                 *)
Level(s, ind, stack, arrays) ==
    /\ s = Parsed(s.data, s.stack, s.previousIndent, s.arrays)
    /\ Dedent(s, ind) = Parsed(s.data, stack, s.previousIndent, arrays)

(* A line that is no further to the left finds the reader where it is.     *)
LEMMA LevelHere ==
    ASSUME NEW data, NEW stack, NEW prev \in Nat, NEW arrays, NEW ind \in Nat, prev <= ind
    PROVE  Level(Parsed(data, stack, prev, arrays), ind, stack, arrays)
BY DEF Level, Parsed, Dedent

(* Max of two numbers, ...                                                 *)
LEMMA MaxOfTwo ==
    ASSUME NEW x \in Int
    PROVE  Max({1, x}) = IF x > 1 THEN x ELSE 1
<1> DEFINE m == IF x > 1 THEN x ELSE 1
<1>1. m \in {1, x} /\ \A y \in {1, x} : m >= y
  OBVIOUS
<1>2. \A z \in {1, x} : (\A y \in {1, x} : z >= y) => z = m
  OBVIOUS
<1> HIDE DEF m
<1>3. Max({1, x}) = m
  BY <1>1, <1>2 DEF Max
<1> QED
  BY <1>3 DEF m

(* ... and of one.                                                         *)
LEMMA MaxOfSingle ==
    ASSUME NEW x \in Int
    PROVE  Max({x}) = x
BY DEF Max

(* A line to the left finds the reader with the stack two columns shorter  *)
(* a turn, and with the lists it has not left.                             *)
LEMMA LevelBack ==
    ASSUME NEW data, NEW stack \in Seq(Pointers), stack # <<>>, NEW prev \in Nat, NEW arrays,
           NEW ind \in Nat, ind < prev,
           NEW m, m = (IF Len(stack) - ((prev - ind + 1) \div 2) > 1
                       THEN Len(stack) - ((prev - ind + 1) \div 2) ELSE 1),
           NEW left, left = SubSeq(arrays, 1, Max({0} \cup {k \in DOMAIN arrays : arrays[k].ind <= ind}))
    PROVE  Level(Parsed(data, stack, prev, arrays), ind, SubSeq(stack, 1, m), left)
<1> DEFINE s == Parsed(data, stack, prev, arrays)
           turns == (prev - ind + 1) \div 2
<1>1. /\ s.data = data /\ s.stack = stack /\ s.previousIndent = prev /\ s.arrays = arrays
      /\ s.failed = "no"
  BY DEF Parsed
<1>2. Len(stack) - turns \in Int
  OBVIOUS
<1>3. Max({1, Len(stack) - turns}) = m
  BY <1>2, MaxOfTwo
<1>4. ~(ind >= prev)
  OBVIOUS
<1>5. Dedent(s, ind) = [s EXCEPT !.stack = SubSeq(stack, 1, m), !.arrays = left]
  <2> HIDE DEF s
  <2> QED
    BY <1>1, <1>3, <1>4 DEF Dedent
<1>6. Dedent(s, ind) = Parsed(data, SubSeq(stack, 1, m), prev, left)
  BY <1>5 DEF Parsed
<1> QED
  BY <1>1, <1>6 DEF Level

(* The open list is left by a line to the left of its items, and no other. *)
LEMMA ListLeft ==
    ASSUME NEW ind \in Nat
    PROVE  /\ SubSeq(<<>>, 1, Max({0} \cup {k \in DOMAIN <<>> : <<>>[k].ind <= ind})) = <<>>
           /\ SubSeq(Opened, 1, Max({0} \cup {k \in DOMAIN Opened : Opened[k].ind <= ind}))
                = IF ind >= 2 THEN Opened ELSE <<>>
<1>1. SubSeq(<<>>, 1, Max({0} \cup {k \in DOMAIN <<>> : <<>>[k].ind <= ind})) = <<>>
  <2>1. {k \in DOMAIN <<>> : <<>>[k].ind <= ind} = {}
    OBVIOUS
  <2>2. {0} \cup {} = {0} /\ Max({0}) = 0
    BY MaxOfSingle
  <2>3. SubSeq(<<>>, 1, 0) = <<>>
    BY SubSeqEmpty
  <2> QED
    BY <2>1, <2>2, <2>3
<1>2. DOMAIN Opened = {1} /\ Opened[1].ind = 2 /\ Len(Opened) = 1
  BY DEF Opened
<1>3. CASE ind >= 2
  <2>1. {k \in DOMAIN Opened : Opened[k].ind <= ind} = {1}
    BY <1>2, <1>3
  <2>2. {0} \cup {1} = {1, 0} /\ Max({1, 0}) = 1
    BY MaxOfTwo
  <2>3. SubSeq(Opened, 1, 1) = Opened
    <3> DEFINE one == [at |-> Servers, ind |-> 2, ok |-> TRUE]
    <3>1. <<one>> \in Seq({one}) /\ Len(<<one>>) = 1
      OBVIOUS
    <3> HIDE DEF one
    <3>2. SubSeq(<<one>>, 1, 1) = <<one>>
      BY <3>1, SubSeqFull
    <3> QED
      BY <3>2 DEF Opened, one
  <2> QED
    BY <1>1, <1>3, <2>1, <2>2, <2>3
<1>4. CASE ind < 2
  <2>1. {k \in DOMAIN Opened : Opened[k].ind <= ind} = {}
    BY <1>2, <1>4
  <2>2. SubSeq(Opened, 1, 0) = <<>>
    BY SubSeqEmpty
  <2>3. {0} \cup {} = {0} /\ Max({0}) = 0
    BY MaxOfSingle
  <2>4. ~(ind >= 2)
    BY <1>4
  <2> QED
    BY <1>1, <2>1, <2>2, <2>3, <2>4
<1> QED
  BY <1>3, <1>4

(* A new value closes no list but one at or below its path.                *)
Clear(arrays, p) == arrays = <<>> \/ (arrays = Opened /\ ~IsPrefix(p, Servers))

(* An assignment that is not above the list of sites leaves it open.       *)
LEMMA Assigned ==
    ASSUME NEW data, NEW stack, NEW prev, NEW arrays, NEW p, NEW v, Clear(arrays, p)
    PROVE  Assign(Parsed(data, stack, prev, arrays), p, v) = Parsed(Put(data, p, v), stack, prev, arrays)
<1> DEFINE new == [k \in DOMAIN arrays |-> [arrays[k] EXCEPT !.ok = @ /\ ~IsPrefix(p, arrays[k].at)]]
<1>1. new = arrays
  <2>1. CASE arrays = <<>>
    BY <2>1
  <2>2. CASE arrays = Opened /\ ~IsPrefix(p, Servers)
    <3> DEFINE one == [at |-> Servers, ind |-> 2, ok |-> TRUE]
    <3>1. [one EXCEPT !.ok = @ /\ ~IsPrefix(p, one.at)] = one
      BY <2>2
    <3>2. arrays = <<one>> /\ DOMAIN arrays = {1} /\ arrays[1] = one
      BY <2>2 DEF Opened
    <3> HIDE DEF one
    <3> QED
      BY <3>1, <3>2
  <2> QED
    BY <2>1, <2>2 DEF Clear
<1> DEFINE s == Parsed(data, stack, prev, arrays)
<1>2. Assign(s, p, v) = [s EXCEPT !.data = Put(data, p, v), !.arrays = new]
  BY DEF Assign, Parsed
<1> HIDE DEF new
<1> QED
  BY <1>1, <1>2 DEF Parsed

(* A value that is read as it stands, and is no section.                   *)
Plain(v) == Literal(v) /\ v # Map

(* A string is no map, and not a line without a colon; a map is no number. *)
LEMMA Kinds ==
    /\ Map # Junk /\ Map.t = "map" /\ ~Refused(Map)
    /\ \A v : v.t = "str" => v # Junk /\ v # Map
<1>1. Map.t = "map" /\ Junk.t = "junk"
  BY DEF Map, Junk, Node
<1> QED
  BY <1>1 DEF Refused

(* The parts of a line.                                                    *)
LEMMA LineOf ==
    ASSUME NEW ind, NEW kind, NEW f
    PROVE  /\ Line(ind, kind, f).ind = ind /\ Line(ind, kind, f).kind = kind
           /\ Line(ind, kind, f).key = f.key /\ Line(ind, kind, f).val = f.val
BY DEF Line

(* The stack in an item, as a pair.                                        *)
LEMMA Pair ==
    ASSUME NEW x, NEW y
    PROVE  Append(<<x>>, y) = <<x, y>>
<1> DEFINE S == {x, y}
<1>1. <<x>> \in Seq(S) /\ <<x, y>> \in Seq(S)
  OBVIOUS
<1>2. /\ Append(<<x>>, y) \in Seq(S) /\ Len(Append(<<x>>, y)) = 2
      /\ Append(<<x>>, y)[1] = x /\ Append(<<x>>, y)[2] = y
  BY <1>1
<1>3. \A i \in 1 .. 2 : Append(<<x>>, y)[i] = <<x, y>>[i]
  BY <1>2
<1> QED
  BY <1>1, <1>2, <1>3, SeqEqual

(* What a step does with a line, where no value is there before: a field   *)
(* with a value, ...                                                       *)
LEMMA ValueStep ==
    ASSUME NEW lines, NEW k, NEW s, NEW stack, NEW arrays, NEW b, NEW ind, NEW f,
           lines[k] = Line(ind, "key", f), Plain(f.val),
           Level(s, ind, stack, arrays), Last(stack) = To(b),
           Child(b, f.key) \notin DOMAIN s.data, Clear(arrays, Child(b, f.key))
    PROVE  Step(lines, s, k) = Parsed(Put(s.data, Child(b, f.key), f.val), stack, ind, arrays)
<1> DEFINE left == Parsed(s.data, stack, s.previousIndent, arrays)
           key  == Child(b, f.key)
           new  == Parsed(Put(s.data, key, f.val), stack, s.previousIndent, arrays)
<1>1. /\ lines[k].ind = ind /\ lines[k].kind = "key" /\ lines[k].key = f.key
      /\ lines[k].val = f.val
  BY LineOf
<1>2. Dedent(s, ind) = left /\ s.failed = "no"
  BY DEF Level, Parsed
<1>3. left.data = s.data /\ left.stack = stack
  BY DEF Parsed
<1>4. Last(left.stack).at = b /\ Last(left.stack).ok
  BY <1>3 DEF To
<1>5. Assign(left, key, f.val) = new
  BY Assigned
<1> HIDE DEF left, new, key
<1>6. \A item \in BOOLEAN : Value(left, lines[k], item) = new
  BY <1>1, <1>3, <1>4, <1>5 DEF Value, key, Plain, Literal
<1>7. Step(lines, s, k) = [new EXCEPT !.previousIndent = ind]
  BY <1>1, <1>2, <1>6 DEF Step
<1> QED
  BY <1>7 DEF new, Parsed, key

(* ... the first line of a section, ...                                    *)
LEMMA HeaderStep ==
    ASSUME NEW lines, NEW k, NEW s, NEW stack, NEW arrays, NEW b, NEW ind, NEW f,
           lines[k] = Line(ind, "key", f), f.val = Map, lines[k + 1].kind = "key",
           Level(s, ind, stack, arrays), Last(stack) = To(b), Clear(arrays, Child(b, f.key))
    PROVE  Step(lines, s, k) = Parsed(Put(s.data, Child(b, f.key), Map),
                                      Append(stack, To(Child(b, f.key))), ind, arrays)
<1>0. PICK data, prev : data = s.data /\ prev = s.previousIndent
  OBVIOUS
<1> DEFINE left == Parsed(data, stack, prev, arrays)
           key  == Child(b, f.key)
           tree == Put(data, key, Map)
           deep == Append(stack, To(key))
           put  == Parsed(tree, stack, prev, arrays)
           new  == Parsed(tree, deep, prev, arrays)
<1>1. /\ lines[k].ind = ind /\ lines[k].kind = "key" /\ lines[k].key = f.key
      /\ lines[k].val = Map /\ Map # Junk /\ ~Refused(Map)
  BY LineOf, Kinds
<1>2. Dedent(s, ind) = left /\ s.failed = "no"
  BY <1>0 DEF Level, Parsed
<1>3. left.data = data /\ left.stack = stack
  BY DEF Parsed
<1>4. Last(left.stack).at = b /\ Last(left.stack).ok
  BY <1>3 DEF To
<1>5. Assign(left, key, Map) = put
  BY Assigned
<1>6. [put EXCEPT !.stack = deep] = new
  <2> HIDE DEF tree, deep, key
  <2> QED
    BY DEF Parsed
<1>7. Into(left, key) = deep
  BY <1>3 DEF Into, To
<1> HIDE DEF left, new, key, put, deep, tree
<1>8. Value(left, lines[k], FALSE) = new
  BY <1>1, <1>3, <1>4, <1>5, <1>6, <1>7 DEF Value, key
<1>9. Step(lines, s, k) = [new EXCEPT !.previousIndent = ind]
  BY <1>1, <1>2, <1>8 DEF Step
<1> QED
  BY <1>0, <1>9 DEF new, Parsed, key, deep, tree

(* ... the line before the sites, ...                                      *)
LEMMA ListStep ==
    ASSUME NEW lines, NEW k, NEW s, NEW f, k < Len(lines),
           lines[k] = Line(0, "key", f), f.key = "servers", f.val = Map,
           lines[k + 1].kind = "item", Level(s, 0, <<Root>>, <<>>)
    PROVE  Step(lines, s, k) = Parsed(Put(s.data, Servers, List(0)), <<Root>>, 0, Opened)
<1>0. PICK data, prev : data = s.data /\ prev = s.previousIndent
  OBVIOUS
<1> DEFINE left == Parsed(data, <<Root>>, prev, <<>>)
           put  == Parsed(Put(data, Servers, List(0)), <<Root>>, prev, <<>>)
           new  == Parsed(Put(data, Servers, List(0)), <<Root>>, prev, Opened)
<1>1. /\ lines[k].ind = 0 /\ lines[k].kind = "key" /\ lines[k].key = "servers"
      /\ lines[k].val = Map /\ Map # Junk /\ ~Refused(Map)
  BY LineOf, Kinds
<1>2. Dedent(s, 0) = left /\ s.failed = "no"
  BY <1>0 DEF Level, Parsed
<1>3. left.data = data /\ left.stack = <<Root>>
  BY DEF Parsed
<1>4. Last(left.stack) = Root /\ Last(left.stack).at = <<>> /\ Last(left.stack).ok
  <2>1. Last(<<Root>>) = Root
    BY DEF Last
  <2>2. Root.at = <<>> /\ Root.ok
    BY DEF Root, To
  <2> QED
    BY <1>3, <2>1, <2>2
<1>5. Child(<<>>, "servers") = Servers
  BY DEF Child, Servers
<1>6. Assign(left, Servers, List(0)) = put
  BY Assigned DEF Clear
<1>7. put.arrays = <<>> /\ Append(<<>>, [at |-> Servers, ind |-> 0 + 2, ok |-> TRUE]) = Opened
  BY DEF Parsed, Opened
<1>8. [put EXCEPT !.arrays = Opened] = new
  BY DEF Parsed
<1> HIDE DEF left, new, put
<1>9. Value(left, lines[k], TRUE) = new
  BY <1>1, <1>3, <1>4, <1>5, <1>6, <1>7, <1>8 DEF Value
<1>10. Step(lines, s, k) = [new EXCEPT !.previousIndent = 0]
  BY <1>1, <1>2, <1>9 DEF Step
<1> QED
  BY <1>0, <1>10 DEF new, Parsed

(* The reader comes to the first line of a site.                           *)
ItemReady(lines, k, s, n, ind, f) ==
    /\ lines[k] = Line(ind, "item", f) /\ f.val \in Values /\ f.val.t = "str" /\ f.key \in Keys
    /\ Level(s, ind, <<Root>>, Opened)
    /\ n \in Nat /\ Servers \in DOMAIN s.data /\ s.data[Servers] = List(n)

(* ... and the first line of a site, which begins with a string: the list  *)
(* is one longer, the site is a map with that field, and the stack has it  *)
(* on top.                                                                 *)
LEMMA ItemStep ==
    ASSUME NEW lines, NEW k, NEW s, NEW n, NEW ind, NEW f, ItemReady(lines, k, s, n, ind, f)
    PROVE  Step(lines, s, k) =
             Parsed(Put(Put([s.data EXCEPT ![Servers] = List(n + 1)], SiteAt(n + 1), Map),
                        Child(SiteAt(n + 1), f.key), f.val),
                    <<Root, To(SiteAt(n + 1))>>, ind, Opened)
<1>r. /\ lines[k] = Line(ind, "item", f) /\ f.val \in Values /\ f.val.t = "str" /\ f.key \in Keys
      /\ Level(s, ind, <<Root>>, Opened)
      /\ n \in Nat /\ Servers \in DOMAIN s.data /\ s.data[Servers] = List(n)
  BY DEF ItemReady
<1> USE <1>r
<1>0. PICK data, prev : data = s.data /\ prev = s.previousIndent
  OBVIOUS
<1> DEFINE left == Parsed(data, <<Root>>, prev, Opened)
           this == SiteAt(n + 1)
           key  == Child(this, f.key)
           set  == [data EXCEPT ![Servers] = List(n + 1)]
           deep == <<Root, To(this)>>
           counted == Parsed(set, deep, prev, Opened)
           grown == Parsed(Put(set, this, Map), <<Root, To(this)>>, prev, Opened)
           new  == Parsed(Put(Put(set, this, Map), key, f.val), <<Root, To(this)>>, prev, Opened)
<1>1. /\ lines[k].ind = ind /\ lines[k].kind = "item" /\ lines[k].key = f.key
      /\ lines[k].val = f.val /\ f.val # Junk /\ f.val # Map
  BY LineOf, Kinds
<1>c. \A p \in Paths : \A x \in Keys : Child(p, x) \in Paths /\ Len(Child(p, x)) = Len(p) + 1
  BY ChildPath
<1>2. Dedent(s, ind) = left /\ s.failed = "no"
  BY <1>0 DEF Level, Parsed
<1>3. left.data = data /\ left.stack = <<Root>> /\ left.arrays = Opened
  BY DEF Parsed
<1>4. Opened # <<>> /\ Last(Opened).at = Servers /\ Last(Opened).ok
  BY DEF Opened, Last
<1>5. List(n).n = n
  BY DEF List, Node
<1>6. \A j : Append(Front(Servers), <<Last(Servers)[1], j>>) = SiteAt(j)
  <2>1. Front(Servers) = <<>>
    BY SubSeqEmpty DEF Front, Servers
  <2>2. Last(Servers)[1] = "servers"
    BY DEF Last, Servers
  <2> QED
    BY <2>1, <2>2 DEF SiteAt
<1>7. ASSUME NEW moved, <<>> \notin moved
      PROVE  [j \in DOMAIN <<Root>> |-> [<<Root>>[j] EXCEPT !.ok = @ /\ <<Root>>[j].at \notin moved]]
               = <<Root>>
  <2>1. Root.at = <<>> /\ Root = [at |-> <<>>, ok |-> TRUE]
    BY DEF Root, To
  <2>2. [Root EXCEPT !.ok = @ /\ Root.at \notin moved] = Root
    BY <1>7, <2>1
  <2> HIDE DEF Root
  <2> QED
    BY <2>2
<1>9. Append(<<Root>>, To(this)) = <<Root, To(this)>>
  BY Pair
<1>10. data = s.data /\ this = SiteAt(n + 1)
  BY <1>0
<1>11. this \in Paths /\ Servers \in Paths /\ key \in Paths
       /\ Clear(Opened, this) /\ Clear(Opened, key)
  <2>1. "servers" \in Keys
    BY DEF Keys
  <2>2. /\ this \in Paths /\ Len(this) = 1 /\ this[1] = <<"servers", n + 1>>
        /\ Servers \in Paths /\ Len(Servers) = 1 /\ Servers[1] = <<"servers", 0>>
    BY <2>1 DEF SiteAt, Servers, Paths
  <2>3. key \in Paths /\ Len(key) = 2
    <3>1. PICK p, x : p = this /\ x = f.key
      OBVIOUS
    <3>2. Child(p, x) \in Paths /\ Len(Child(p, x)) = Len(p) + 1 /\ Len(p) = 1
      BY <1>c, <2>2, <3>1
    <3>3. key = Child(p, x)
      BY <3>1
    <3> QED
      BY <3>2, <3>3
  <2>4. this[1] # Servers[1]
    <3>1. <<"servers", n + 1>>[2] = n + 1 /\ <<"servers", 0>>[2] = 0
      OBVIOUS
    <3> QED
      BY <2>2, <3>1
  <2> HIDE DEF this, key
  <2>5. ~IsPrefix(this, Servers) /\ ~IsPrefix(key, Servers)
    <3>1. Len(key) > Len(Servers) /\ 1 \in 1 .. Len(this)
      BY <2>2, <2>3
    <3>2. ~IsPrefix(this, Servers)
      BY <2>2, <2>4, <3>1, PrefixMeans
    <3>3. ~IsPrefix(key, Servers)
      <4>1. PICK p \in Paths, q \in Paths : p = key /\ q = Servers
        BY <2>2, <2>3
      <4>2. ~(Len(p) <= Len(q))
        <5>1. Len(p) = 2
          BY <2>3, <4>1
        <5>2. Len(q) = 1
          BY <2>2, <4>1
        <5> QED
          BY <5>1, <5>2
      <4>3. ~IsPrefix(p, q)
        BY <4>2, PrefixMeans
      <4> QED
        BY <4>1, <4>3
    <3> QED
      BY <3>2, <3>3
  <2> QED
    BY <2>2, <2>3, <2>5 DEF Clear
<1>12. Assign(counted, this, Map) = grown
  BY <1>11, Assigned
<1>13. Assign(grown, key, f.val) = new
  BY <1>11, Assigned
<1>14. [f.val EXCEPT !.t = "str"] = f.val
  BY DEF Values
<1> HIDE DEF left, this, key, counted, grown, new
<1>15. Item(left, lines[k]) = new
  <2> DEFINE line == lines[k]
             list == Last(left.arrays).at
             size == left.data[list].n
             elem(j) == Append(Front(list), <<Last(list)[1], j>>)
             that == elem(size + 1)
             name == Child(that, line.key)
             moved == {elem(j) : j \in IF size \in {1, 2, 4, 8} THEN 1 .. size ELSE {}}
             kept == [j \in DOMAIN left.stack |->
                        [left.stack[j] EXCEPT !.ok = @ /\ left.stack[j].at \notin moved]]
             node == List(size + 1)
             high == Append(kept, [at |-> that, ok |-> TRUE])
             mid == [left EXCEPT !.data[list] = node, !.stack = high]
             full == Assign(mid, that, Map)
  <2>1. Item(left, line) =
          IF left.arrays = <<>> \/ line.val = Junk THEN [left EXCEPT !.failed = "throw"]
          ELSE IF ~Last(left.arrays).ok THEN [left EXCEPT !.failed = "undefined"]
          ELSE IF line.val = Map
          THEN [Assign(full, name, Map) EXCEPT !.stack = Into(full, name)]
          ELSE Assign(full, name, [line.val EXCEPT !.t = "str"])
    BY DEF Item
  <2>2. list = Servers
    BY <1>3, <1>4
  <2>3. size = n
    BY <1>3, <1>5, <1>10, <2>2
  <2>4. \A j : elem(j) = SiteAt(j)
    BY <1>6, <2>2
  <2>5. that = this
    BY <1>10, <2>3, <2>4
  <2>6. name = key
    BY <1>1, <2>5 DEF key
  <2>7. kept = <<Root>>
    <3>1. PICK m : m = moved
      OBVIOUS
    <3>2. <<>> \notin m
      <4>1. \A j : elem(j) # <<>>
        BY <2>4 DEF SiteAt
      <4> HIDE DEF elem
      <4> QED
        BY <3>1, <4>1
    <3>3. [j \in DOMAIN <<Root>> |-> [<<Root>>[j] EXCEPT !.ok = @ /\ <<Root>>[j].at \notin m]]
            = <<Root>>
      BY <1>7, <3>2
    <3> HIDE DEF moved
    <3> QED
      BY <1>3, <3>1, <3>3
  <2>8. high = deep
    <3> HIDE DEF kept, that
    <3> QED
      BY <1>9, <2>5, <2>7 DEF To
  <2>9. node = List(n + 1)
    BY <2>3
  <2>10. mid = counted
    <3> DEFINE root == <<Root>>
               half == [data EXCEPT ![list] = node]
               t == Parsed(half, root, prev, Opened)
    <3>1. left = Parsed(data, root, prev, Opened) /\ counted = Parsed(set, deep, prev, Opened)
      BY DEF left, counted
    <3> HIDE DEF list, node, high, root, deep
    <3>2. half = set
      BY <2>2, <2>9
    <3>3. [left EXCEPT !.data[list] = node] = t
      BY DEF left, Parsed, root
    <3>4. [t EXCEPT !.stack = high] = Parsed(half, high, prev, Opened)
      <4> HIDE DEF half
      <4> QED
        BY DEF Parsed
    <3> HIDE DEF t, half, set
    <3>5. mid = [[left EXCEPT !.data[list] = node] EXCEPT !.stack = high]
      OBVIOUS
    <3> QED
      BY <2>8, <3>1, <3>2, <3>3, <3>4, <3>5
  <2>11. full = grown
    <3> HIDE DEF mid, that
    <3> QED
      BY <1>12, <2>5, <2>10
  <2>12. line.val = f.val /\ [line.val EXCEPT !.t = "str"] = f.val
    BY <1>1, <1>14
  <2> HIDE DEF full, name, line
  <2>13. Assign(full, name, [line.val EXCEPT !.t = "str"]) = new
    BY <1>13, <2>6, <2>11, <2>12
  <2>14. left.arrays # <<>> /\ Last(left.arrays).ok
    BY <1>3, <1>4
  <2> QED
    BY <1>1, <2>1, <2>12, <2>13, <2>14 DEF line
<1>16. Step(lines, s, k) = [new EXCEPT !.previousIndent = ind]
  BY <1>1, <1>2, <1>15 DEF Step
<1> QED
  BY <1>0, <1>16 DEF new, Parsed, key, this

-----------------------------------------------------------------------------
(* The lines of a document.                                                *)

(* A line of a document.                                                   *)
AnyLine == [ind : Nat, kind : {"key", "item"}, key : Keys, val : Values \cup {Map}]
Subs  == [key : STRING, val : Values, sub : {<<>>}]

(* Lines, fields and what is written of them have the types they should.   *)
LEMMA LineTyped ==
    ASSUME NEW ind \in Nat, NEW kind \in {"key", "item"}, NEW f,
           f.key \in Keys, f.val \in Values \cup {Map}
    PROVE  Line(ind, kind, f) \in AnyLine
BY DEF Line, AnyLine

(* A field has a key and a value, and so have those below it.              *)
LEMMA FieldTyped ==
    ASSUME NEW f \in Fields
    PROVE  /\ f.key \in Keys /\ f.val \in Values /\ f.sub \in Seq(Subs)
           /\ \A k \in 1 .. Len(f.sub) : f.sub[k].key \in Keys /\ f.sub[k].val \in Values
<1>1. f.key \in Keys /\ f.val \in Values /\ f.sub \in Seq(Subs)
  BY DEF Fields, Subs, Keys
<1>2. ASSUME NEW k \in 1 .. Len(f.sub) PROVE f.sub[k].key \in Keys /\ f.sub[k].val \in Values
  <2>1. f.sub[k] \in Subs
    BY <1>1
  <2> QED
    BY <2>1 DEF Subs, Keys
<1> QED
  BY <1>1, <1>2

(* A field is written as its own line and one for each field below it.     *)
LEMMA EntryTyped ==
    ASSUME NEW f \in Fields, NEW ind \in Nat, NEW w \in Nat
    PROVE  /\ Entry(f, ind, w) \in Seq(AnyLine) /\ Len(Entry(f, ind, w)) = 1 + Len(f.sub)
           /\ Len(f.sub) \in Nat
           /\ Entry(f, ind, w)[1] = Line(ind, "key", f)
           /\ \A k \in 1 .. Len(f.sub) : Entry(f, ind, w)[1 + k] = Line(ind + w, "key", f.sub[k])
<1> DEFINE one  == Line(ind, "key", f)
           rest == [k \in DOMAIN f.sub |-> Line(ind + w, "key", f.sub[k])]
<1>0. DOMAIN f.sub = 1 .. Len(f.sub) /\ Len(f.sub) \in Nat
  BY FieldTyped
<1>1. one \in AnyLine
  BY FieldTyped, LineTyped
<1>2. \A k \in 1 .. Len(f.sub) : Line(ind + w, "key", f.sub[k]) \in AnyLine
  BY FieldTyped, LineTyped
<1>3. /\ rest \in Seq(AnyLine) /\ Len(rest) = Len(f.sub)
      /\ \A k \in 1 .. Len(f.sub) : rest[k] = Line(ind + w, "key", f.sub[k])
  BY <1>0, <1>2
<1>4. Entry(f, ind, w) = <<one>> \o rest
  BY DEF Entry
<1> HIDE DEF one, rest
<1>5. /\ <<one>> \in Seq(AnyLine) /\ Len(<<one>>) = 1 /\ <<one>>[1] = one
  BY <1>1
<1>6. /\ <<one>> \o rest \in Seq(AnyLine) /\ Len(<<one>> \o rest) = 1 + Len(f.sub)
      /\ (<<one>> \o rest)[1] = one
      /\ \A k \in 1 .. Len(f.sub) : (<<one>> \o rest)[1 + k] = rest[k]
  BY <1>0, <1>3, <1>5
<1> QED
  BY <1>0, <1>3, <1>4, <1>6 DEF one

(* Fields are written one after another.                                   *)
LEMMA EntriesTyped ==
    ASSUME NEW fs \in Seq(Fields), NEW ind \in Nat, NEW w \in Nat
    PROVE  /\ [k \in DOMAIN fs |-> Entry(fs[k], ind, w)] \in Seq(Seq(AnyLine))
           /\ Len([k \in DOMAIN fs |-> Entry(fs[k], ind, w)]) = Len(fs)
           /\ Entries(fs, ind, w) \in Seq(AnyLine)
<1> DEFINE ss == [k \in DOMAIN fs |-> Entry(fs[k], ind, w)]
<1>1. ASSUME NEW k \in 1 .. Len(fs) PROVE Entry(fs[k], ind, w) \in Seq(AnyLine)
  <2>1. fs[k] \in Fields
    OBVIOUS
  <2> QED
    BY <2>1, EntryTyped
<1>2. ss \in Seq(Seq(AnyLine)) /\ Len(ss) = Len(fs)
  BY <1>1
<1> HIDE DEF ss
<1>3. PICK flat : Flat(ss, flat) /\ \A n \in 0 .. Len(ss) : flat[n] \in Seq(AnyLine)
  BY <1>2, Flattening
<1>4. Len(ss) \in 0 .. Len(ss) /\ flat[Len(ss)] = FlattenSeq(ss)
  BY <1>2, <1>3 DEF Flat
<1>5. FlattenSeq(ss) \in Seq(AnyLine)
  BY <1>3, <1>4
<1> QED
  BY <1>2, <1>5 DEF ss, Entries

-----------------------------------------------------------------------------
(* Fields read, from line i + 1 on.                                        *)

(* The reader is among the fields of b, indented by ind: in the outermost  *)
(* map or in an item of the open list.                                     *)
Place(b, ind, stack, arrays) ==
    /\ b \in Paths /\ ind \in Nat
    /\ stack \in Seq(Pointers) /\ stack # <<>> /\ Last(stack) = To(b)
    /\ arrays = <<>> \/ (arrays = Opened /\ ind >= 2 /\ Len(b) >= 1)

(* It has read one of them, or a section in which it still is.             *)
Back(s, ind, w, stack, arrays) ==
    \/ s = Parsed(s.data, stack, ind, arrays)
    \/ /\ Len(stack) = 1 \/ w = 2
       /\ \E x \in Pointers : s = Parsed(s.data, Append(stack, x), ind + w, arrays)

(* A line that is not to the left of the items of the open list leaves it  *)
(* open.                                                                   *)
LEMMA LeftArrays ==
    ASSUME NEW arrays, NEW ind \in Nat, arrays = <<>> \/ (arrays = Opened /\ ind >= 2)
    PROVE  arrays = SubSeq(arrays, 1, Max({0} \cup {k \in DOMAIN arrays : arrays[k].ind <= ind}))
<1>1. CASE arrays = <<>>
  BY <1>1, ListLeft
<1>2. CASE arrays = Opened /\ ind >= 2
  BY <1>2, ListLeft
<1> QED
  BY <1>1, <1>2

(* After a field or a section, the next field of the same map finds the    *)
(* reader where the first did.                                             *)
LEMMA LevelAfter ==
    ASSUME NEW b, NEW ind, NEW w \in Nat, w >= 2, NEW stack, NEW arrays, NEW s,
           Place(b, ind, stack, arrays), Back(s, ind, w, stack, arrays)
    PROVE  Level(s, ind, stack, arrays)
<1>0. /\ ind \in Nat /\ stack \in Seq(Pointers) /\ stack # <<>> /\ Len(stack) \in Nat \ {0}
      /\ arrays = <<>> \/ (arrays = Opened /\ ind >= 2)
  BY DEF Place
<1>1. PICK data : data = s.data
  OBVIOUS
<1>2. CASE s = Parsed(s.data, stack, ind, arrays)
  BY <1>0, <1>1, <1>2, LevelHere
<1>3. CASE /\ Len(stack) = 1 \/ w = 2
           /\ \E x \in Pointers : s = Parsed(s.data, Append(stack, x), ind + w, arrays)
  <2>1. PICK x \in Pointers : s = Parsed(data, Append(stack, x), ind + w, arrays)
    BY <1>1, <1>3
  <2>2. PICK deep : deep = Append(stack, x)
    OBVIOUS
  <2>3. deep \in Seq(Pointers) /\ deep # <<>> /\ Len(deep) = Len(stack) + 1
    BY <1>0, <2>2
  <2>4. SubSeq(deep, 1, Len(stack)) = stack
    <3>1. /\ SubSeq(deep, 1, Len(stack)) \in Seq(Pointers)
          /\ Len(SubSeq(deep, 1, Len(stack))) = Len(stack)
          /\ \A j \in 1 .. Len(stack) : SubSeq(deep, 1, Len(stack))[j] = deep[j]
      BY <1>0, <2>3
    <3>2. \A j \in 1 .. Len(stack) : deep[j] = stack[j]
      BY <1>0, <2>2
    <3> QED
      BY <1>0, <3>1, <3>2, SeqEqual
  <2>5. PICK prev, turns : prev = ind + w /\ turns = (prev - ind + 1) \div 2
    OBVIOUS
  <2>6. /\ prev \in Nat /\ ind < prev /\ turns = (w + 1) \div 2
        /\ turns \in Nat /\ turns >= 1 /\ (w = 2 => turns = 1)
    <3>1. prev - ind + 1 = w + 1
      BY <1>0, <2>5
    <3> QED
      BY <1>0, <2>5, <3>1
  <2>9. Len(stack) = (IF Len(deep) - turns > 1 THEN Len(deep) - turns ELSE 1)
    <3>1. PICK m \in Nat \ {0} : m = Len(stack)
      BY <1>0
    <3>2. Len(deep) = m + 1 /\ (m = 1 \/ turns = 1)
      BY <1>3, <2>3, <2>6, <3>1
    <3>3. PICK t \in Nat \ {0} : t = turns
      BY <2>6
    <3>4. m = (IF m + 1 - t > 1 THEN m + 1 - t ELSE 1)
      BY <3>2, <3>3
    <3> QED
      BY <3>1, <3>2, <3>3, <3>4
  <2>7. arrays = SubSeq(arrays, 1, Max({0} \cup {k \in DOMAIN arrays : arrays[k].ind <= ind}))
    BY <1>0, LeftArrays
  <2>8. Level(Parsed(data, deep, prev, arrays), ind, SubSeq(deep, 1, Len(stack)), arrays)
    <3>1. Len(stack) = (IF Len(deep) - ((prev - ind + 1) \div 2) > 1
                        THEN Len(deep) - ((prev - ind + 1) \div 2) ELSE 1)
      BY <2>5, <2>9
    <3> QED
      BY <1>0, <2>3, <2>6, <2>7, <3>1, LevelBack
  <2> QED
    BY <2>1, <2>2, <2>4, <2>5, <2>8
<1> QED
  BY <1>2, <1>3 DEF Back

(* A field is never above the list of sites, unless it has its key.        *)
LEMMA PlaceClear ==
    ASSUME NEW b, NEW ind, NEW stack, NEW arrays, Place(b, ind, stack, arrays), NEW key \in Keys
    PROVE  Clear(arrays, Child(b, key))
<1>1. CASE arrays = <<>>
  BY <1>1 DEF Clear
<1>2. CASE arrays = Opened /\ Len(b) >= 1
  <2>1. b \in Paths /\ Len(b) \in Nat
    BY DEF Place, Paths
  <2>2. Child(b, key) \in Paths /\ Len(Child(b, key)) = Len(b) + 1
    BY <2>1, ChildPath
  <2>3. Servers \in Paths /\ Len(Servers) = 1
    <3>1. "servers" \in Keys
      BY DEF Keys
    <3> QED
      BY <3>1 DEF Servers, Paths
  <2>4. PICK p : p = Child(b, key)
    OBVIOUS
  <2>5. ~IsPrefix(p, Servers)
    BY <1>2, <2>1, <2>2, <2>3, <2>4, PrefixMeans
  <2> QED
    BY <1>2, <2>4, <2>5 DEF Clear
<1> QED
  BY <1>1, <1>2 DEF Place

(* Where a path is free there is no node.                                  *)
LEMMA NotThere ==
    ASSUME NEW data, NEW N, IsTree(data, N), NEW p \in Paths, Free(N, p)
    PROVE  p \notin DOMAIN data
<1> SUFFICES ASSUME p \in DOMAIN data PROVE FALSE
  OBVIOUS
<1>1. <<p, data[p]>> \in N /\ <<p, data[p]>>[1] = p
  BY NodePaths
<1>2. IsPrefix(p, p)
  BY PrefixMeans DEF Paths
<1> QED
  BY <1>1, <1>2 DEF Free

(* What two trees leave free they leave free together.                     *)
LEMMA FreeBoth ==
    ASSUME NEW M, NEW N, NEW p, Free(M, p), Free(N, p)
    PROVE  Free(M \cup N, p)
BY DEF Free

(* Nothing below a key is below another key.                               *)
LEMMA ChildApart ==
    ASSUME NEW b \in Paths, NEW j \in Keys, NEW k \in Keys, NEW l \in Keys, j # k
    PROVE  /\ ~IsPrefix(Child(b, j), Child(b, k))
           /\ ~IsPrefix(Child(b, j), Child(Child(b, k), l))
<1>1. Child(b, k) \in Paths
  BY ChildPath
<1>2. PICK c : c = Child(b, k)
  OBVIOUS
<1>3. Child(c, l) \in Paths
  BY <1>1, <1>2, ChildPath
<1>4. IsPrefix(Child(b, k), Child(b, k)) /\ IsPrefix(Child(b, k), Child(Child(b, k), l))
  BY BelowChild
<1> QED
  BY <1>1, <1>2, <1>3, <1>4, Apart

(* Where a key of a map is free, so are the keys below it.                 *)
LEMMA FreeBelow ==
    ASSUME NEW N, \A x \in N : x[1] \in Paths, NEW c \in Paths, Free(N, c), NEW k \in Keys
    PROVE  Free(N, Child(c, k))
<1> SUFFICES ASSUME NEW x \in N, IsPrefix(Child(c, k), x[1]) PROVE FALSE
  BY DEF Free
<1>1. PICK d : d = Child(c, k)
  OBVIOUS
<1>2. /\ d \in Paths /\ Len(d) = Len(c) + 1 /\ \A i \in 1 .. Len(c) : d[i] = c[i]
      /\ Len(c) \in Nat
  BY <1>1, ChildPath DEF Paths
<1>3. PICK q \in Paths : q = x[1]
  OBVIOUS
<1>4. Len(d) <= Len(q) /\ \A i \in 1 .. Len(d) : d[i] = q[i]
  BY <1>1, <1>2, <1>3, PrefixMeans
<1>5. Len(q) \in Nat /\ Len(c) <= Len(q) /\ \A i \in 1 .. Len(c) : c[i] = q[i]
  <2>1. PICK m \in Nat, n \in Nat : m = Len(c) /\ n = Len(q)
    BY <1>2 DEF Paths
  <2>2. m <= n /\ \A i \in 1 .. m : i \in 1 .. Len(d)
    BY <1>2, <1>4, <2>1
  <2> QED
    BY <1>2, <1>4, <2>1, <2>2
<1>6. IsPrefix(c, q)
  BY <1>5, PrefixMeans
<1> QED
  BY <1>3, <1>6 DEF Free

(* The first n fields of a section at b, the lines they are on, and that   *)
(* the keys are new there.                                                 *)
SubNodes(b, subs, n) == {<<Child(b, subs[j].key), subs[j].val>> : j \in 1 .. n}

SubsAt(lines, i, subs, ind) ==
    /\ i + Len(subs) <= Len(lines)
    /\ \A k \in 1 .. Len(subs) : lines[i + k] = Line(ind, "key", subs[k])

SubsNew(N, b, subs, arrays) ==
    /\ Distinct(subs)
    /\ \A k \in 1 .. Len(subs) : /\ subs[k].key \in Keys /\ Plain(subs[k].val)
                                  /\ Free(N, Child(b, subs[k].key))
                                  /\ Clear(arrays, Child(b, subs[k].key))

(* The reader comes to the fields of a section; it has read n of them.     *)
SubsReady(lines, state, i, subs, ind, data, N, stack, prev, arrays, b) ==
    /\ Len(lines) \in Nat /\ Reads(lines, state)
    /\ i \in Nat /\ subs \in Seq(Subs) /\ ind \in Nat /\ SubsAt(lines, i, subs, ind)
    /\ prev \in Nat /\ prev <= ind /\ state[i] = Parsed(data, stack, prev, arrays)
    /\ b \in Paths /\ Last(stack) = To(b)
    /\ IsTree(data, N) /\ SubsNew(N, b, subs, arrays)

SubsDone(state, i, subs, n, ind, N, stack, prev, arrays, b) ==
    \E new : /\ state[i + n] = Parsed(new, stack, IF n = 0 THEN prev ELSE ind, arrays)
             /\ IsTree(new, N \cup SubNodes(b, subs, n))

(* The fields of a section are read, one line each.                        *)
LEMMA SubsRead ==
    ASSUME NEW lines, NEW state, NEW i, NEW subs, NEW ind, NEW data, NEW N, NEW stack, NEW prev,
           NEW arrays, NEW b,
           SubsReady(lines, state, i, subs, ind, data, N, stack, prev, arrays, b)
    PROVE  SubsDone(state, i, subs, Len(subs), ind, N, stack, prev, arrays, b)
<1>r. SUFFICES ASSUME Len(lines) \in Nat, Reads(lines, state), i \in Nat, subs \in Seq(Subs),
                      ind \in Nat, SubsAt(lines, i, subs, ind), prev \in Nat, prev <= ind,
                      state[i] = Parsed(data, stack, prev, arrays), b \in Paths,
                      Last(stack) = To(b), IsTree(data, N), SubsNew(N, b, subs, arrays)
               PROVE  SubsDone(state, i, subs, Len(subs), ind, N, stack, prev, arrays, b)
  BY DEF SubsReady
<1> USE <1>r
<1> DEFINE Good(n) == SubsDone(state, i, subs, n, ind, N, stack, prev, arrays, b)
           T == {n \in Nat : n <= Len(subs) => Good(n)}
<1>0. Len(subs) \in Nat /\ DOMAIN subs = 1 .. Len(subs)
  OBVIOUS
<1>a. /\ Distinct(subs) /\ i + Len(subs) <= Len(lines)
      /\ \A k \in 1 .. Len(subs) : lines[i + k] = Line(ind, "key", subs[k])
      /\ \A k \in 1 .. Len(subs) : /\ subs[k].key \in Keys /\ Plain(subs[k].val)
                                    /\ Free(N, Child(b, subs[k].key))
                                    /\ Clear(arrays, Child(b, subs[k].key))
  BY DEF SubsAt, SubsNew
<1>1. 0 \in T
  <2>1. SubNodes(b, subs, 0) = {}
    BY DEF SubNodes
  <2>2. N \cup {} = N /\ i + 0 = i
    OBVIOUS
  <2>3. Good(0)
    BY <2>1, <2>2 DEF SubsDone
  <2> QED
    BY <2>3
<1>2. ASSUME NEW n \in Nat, n \in T PROVE n + 1 \in T
  <2> HIDE DEF Good
  <2> SUFFICES ASSUME n + 1 <= Len(subs) PROVE Good(n + 1)
    OBVIOUS
  <2>0. Good(n)
    BY <1>0, <1>2
  <2>1. PICK old : /\ state[i + n] = Parsed(old, stack, IF n = 0 THEN prev ELSE ind, arrays)
                   /\ IsTree(old, N \cup SubNodes(b, subs, n))
    BY <2>0 DEF Good, SubsDone
  <2>2. PICK p \in Nat : p = (IF n = 0 THEN prev ELSE ind) /\ p <= ind
    OBVIOUS
  <2>3. PICK k : k = i + (n + 1)
    OBVIOUS
  <2>4. k \in 1 .. Len(lines) /\ k - 1 = i + n /\ n + 1 \in 1 .. Len(subs)
    BY <1>0, <1>a, <2>3
  <2>5. state[k] = Step(lines, state[i + n], k)
    BY <2>4 DEF Reads
  <2>6. PICK g : g = subs[n + 1]
    OBVIOUS
  <2>7. /\ lines[k] = Line(ind, "key", g) /\ g.key \in Keys /\ Plain(g.val)
        /\ Free(N, Child(b, g.key)) /\ Clear(arrays, Child(b, g.key))
    BY <1>a, <2>3, <2>4, <2>6
  <2>8. Level(state[i + n], ind, stack, arrays) /\ state[i + n].data = old
    <3>1. Level(Parsed(old, stack, p, arrays), ind, stack, arrays)
      BY <2>2, LevelHere
    <3>2. Parsed(old, stack, p, arrays).data = old
      BY DEF Parsed
    <3> QED
      BY <2>1, <2>2, <3>1, <3>2
  <2>9. Child(b, g.key) \in Paths
    <3>1. PICK key \in Keys : key = g.key
      BY <2>7
    <3> QED
      BY <3>1, ChildPath
  <2>10. Free(SubNodes(b, subs, n), Child(b, g.key))
    <3> SUFFICES ASSUME NEW j \in 1 .. n PROVE ~IsPrefix(Child(b, g.key), Child(b, subs[j].key))
      BY DEF Free, SubNodes
    <3>1. j \in DOMAIN subs /\ n + 1 \in DOMAIN subs /\ j # n + 1
      BY <1>0, <2>4
    <3>2. subs[j].key # g.key /\ subs[j].key \in Keys
      BY <1>0, <1>a, <2>6, <3>1 DEF Distinct
    <3>3. PICK key, other : key = g.key /\ other = subs[j].key
      OBVIOUS
    <3> QED
      BY <2>7, <3>2, <3>3, ChildApart
  <2>11. Free(N \cup SubNodes(b, subs, n), Child(b, g.key))
    BY <2>7, <2>10, FreeBoth
  <2>12. PICK path : path = Child(b, g.key)
    OBVIOUS
  <2>13. state[k] = Parsed(Put(old, path, g.val), stack, ind, arrays)
    <3>1. path \notin DOMAIN old
      BY <2>1, <2>9, <2>11, <2>12, NotThere
    <3>2. state[k] = Parsed(Put(old, path, g.val), stack, ind, arrays)
      <4>1. PICK s : s = state[i + n]
        OBVIOUS
      <4>2. s.data = old /\ Level(s, ind, stack, arrays) /\ Child(b, g.key) \notin DOMAIN s.data
        BY <2>8, <2>12, <3>1, <4>1
      <4>3. Step(lines, s, k) = Parsed(Put(s.data, Child(b, g.key), g.val), stack, ind, arrays)
        BY <2>7, <4>2, ValueStep, SMTT(60)
      <4> QED
        BY <2>5, <2>12, <4>1, <4>2, <4>3
    <3> QED
      BY <3>2
  <2>14. IsTree(Put(old, path, g.val), N \cup SubNodes(b, subs, n) \cup {<<path, g.val>>})
    BY <2>1, <2>9, <2>11, <2>12, PutFree
  <2>15. SubNodes(b, subs, n + 1) = SubNodes(b, subs, n) \cup {<<path, g.val>>}
    <3>1. 1 .. n + 1 = (1 .. n) \cup {n + 1}
      OBVIOUS
    <3> QED
      BY <2>6, <2>12, <3>1 DEF SubNodes
  <2>16. N \cup SubNodes(b, subs, n) \cup {<<path, g.val>>} = N \cup SubNodes(b, subs, n + 1)
    BY <2>15
  <2>17. /\ state[i + (n + 1)] = Parsed(Put(old, path, g.val), stack, IF n + 1 = 0 THEN prev ELSE ind, arrays)
         /\ IsTree(Put(old, path, g.val), N \cup SubNodes(b, subs, n + 1))
    <3>1. n + 1 # 0
      OBVIOUS
    <3> QED
      BY <2>3, <2>13, <2>14, <2>16, <3>1
  <2> QED
    BY <2>17 DEF Good, SubsDone
<1>3. Nat \subseteq T
  <2> HIDE DEF T
  <2> QED
    BY <1>1, <1>2, Induction
<1>4. Good(Len(subs))
  <2> HIDE DEF Good
  <2> QED
    BY <1>0, <1>3
<1> QED
  BY <1>4

(* Paths of two steps are not above the list of sites.                     *)
LEMMA DeepClear ==
    ASSUME NEW arrays, arrays = <<>> \/ arrays = Opened, NEW p \in Paths, Len(p) >= 2
    PROVE  Clear(arrays, p)
<1>1. Servers \in Paths /\ Len(Servers) = 1
  <2>1. "servers" \in Keys
    BY DEF Keys
  <2> QED
    BY <2>1 DEF Servers, Paths
<1>2. ~(Len(p) <= Len(Servers))
  BY <1>1 DEF Paths
<1>3. ~IsPrefix(p, Servers)
  BY <1>1, <1>2, PrefixMeans
<1> QED
  BY <1>3 DEF Clear

(* The top of the stack is what was pushed.                                *)
LEMMA Pushed ==
    ASSUME NEW stack \in Seq(Pointers), NEW x \in Pointers
    PROVE  Last(Append(stack, x)) = x
BY DEF Last

(* What Proper says of a single field.                                     *)
Sound(f) ==
    /\ f \in Fields /\ Literal(f.val) /\ (f.val = Map <=> f.sub # <<>>) /\ Distinct(f.sub)
    /\ \A k \in 1 .. Len(f.sub) : Plain(f.sub[k].val)

(* What a field adds to the tree.                                          *)
EntryNodes(b, f) ==
    {<<Child(b, f.key), f.val>>} \cup SubNodes(Child(b, f.key), f.sub, Len(f.sub))

(* A field with a value is read: the tree has it, and the next field will  *)
(* find the reader in its place.                                           *)
LEMMA PlainRead ==
    ASSUME NEW lines \in Seq(AnyLine), NEW state, Reads(lines, state), NEW f, Sound(f), f.sub = <<>>,
           NEW i, NEW b, NEW ind, NEW w \in Nat, NEW stack, NEW arrays,
           Place(b, ind, stack, arrays), Holds(lines, i, Entry(f, ind, w)),
           Level(state[i], ind, stack, arrays),
           NEW N, IsTree(state[i].data, N), Free(N, Child(b, f.key))
    PROVE  LET s == state[i + Len(Entry(f, ind, w))]
           IN  Back(s, ind, w, stack, arrays) /\ IsTree(s.data, N \cup EntryNodes(b, f))
<1>1. /\ f \in Fields /\ Plain(f.val) /\ f.key \in Keys
      /\ ind \in Nat /\ b \in Paths /\ Last(stack) = To(b)
  BY FieldTyped DEF Sound, Place, Plain
<1>2. Len(Entry(f, ind, w)) = 1 /\ Entry(f, ind, w)[1] = Line(ind, "key", f)
  <2>1. Len(Entry(f, ind, w)) = 1 + Len(f.sub) /\ Entry(f, ind, w)[1] = Line(ind, "key", f)
    BY <1>1, EntryTyped
  <2>2. Len(f.sub) = 0
    OBVIOUS
  <2> QED
    BY <2>1, <2>2
<1>3. PICK k : k = i + 1
  OBVIOUS
<1>4. i \in Nat /\ k \in 1 .. Len(lines) /\ k - 1 = i /\ lines[k] = Line(ind, "key", f)
  BY <1>2, <1>3 DEF Holds
<1>5. PICK s, path : s = state[i] /\ path = Child(b, f.key)
  OBVIOUS
<1>6. state[k] = Step(lines, s, k)
  BY <1>4, <1>5 DEF Reads
<1>7. path \in Paths /\ path \notin DOMAIN s.data /\ Clear(arrays, path)
  <2>1. path \in Paths
    BY <1>1, <1>5, ChildPath
  <2>2. path \notin DOMAIN s.data
    BY <1>5, <2>1, NotThere
  <2>3. PICK key \in Keys : key = f.key
    BY <1>1
  <2>4. Clear(arrays, Child(b, key))
    BY PlaceClear
  <2> QED
    BY <1>5, <2>1, <2>2, <2>3, <2>4
<1>8. Step(lines, s, k) = Parsed(Put(s.data, path, f.val), stack, ind, arrays)
  <2>1. Level(s, ind, stack, arrays) /\ Last(stack) = To(b)
    BY <1>1, <1>5
  <2> QED
    BY <1>1, <1>4, <1>5, <1>7, <2>1, ValueStep, SMTT(60)
<1>9. IsTree(Put(s.data, path, f.val), N \cup {<<path, f.val>>})
  BY <1>5, <1>7, PutFree
<1>10. EntryNodes(b, f) = {<<path, f.val>>}
  BY <1>5 DEF EntryNodes, SubNodes
<1>11. PICK t : t = state[i + Len(Entry(f, ind, w))]
  OBVIOUS
<1>12. t = Parsed(Put(s.data, path, f.val), stack, ind, arrays) /\ t.data = Put(s.data, path, f.val)
  <2>1. t = Parsed(Put(s.data, path, f.val), stack, ind, arrays)
    BY <1>2, <1>3, <1>6, <1>8, <1>11
  <2> QED
    BY <2>1 DEF Parsed
<1>13. Back(t, ind, w, stack, arrays)
  BY <1>12 DEF Back
<1> QED
  BY <1>9, <1>10, <1>11, <1>12, <1>13

(* A section is read.  Within an item this takes steps of two columns: the *)
(* way back is counted in them, and only the outermost map cannot be       *)
(* missed.                                                                 *)
LEMMA SectionRead ==
    ASSUME NEW lines \in Seq(AnyLine), NEW state, Reads(lines, state), NEW f, Sound(f), f.sub # <<>>,
           NEW i, NEW b, NEW ind, NEW w \in Nat, NEW stack, NEW arrays,
           Place(b, ind, stack, arrays), Holds(lines, i, Entry(f, ind, w)),
           Level(state[i], ind, stack, arrays), Len(stack) = 1 \/ w = 2,
           NEW N, IsTree(state[i].data, N), Free(N, Child(b, f.key))
    PROVE  LET s == state[i + Len(Entry(f, ind, w))]
           IN  Back(s, ind, w, stack, arrays) /\ IsTree(s.data, N \cup EntryNodes(b, f))
<1>1. /\ f \in Fields /\ f.val = Map /\ f.key \in Keys
      /\ ind \in Nat /\ b \in Paths /\ Last(stack) = To(b) /\ stack \in Seq(Pointers)
      /\ arrays = <<>> \/ arrays = Opened
  BY FieldTyped DEF Sound, Place, Plain
<1>2. PICK subs : subs = f.sub
  OBVIOUS
<1>3. /\ subs \in Seq(Subs) /\ Len(subs) \in Nat \ {0}
      /\ \A j \in 1 .. Len(subs) : subs[j].key \in Keys /\ Plain(subs[j].val)
      /\ Distinct(subs)
  <2>1. subs \in Seq(Subs) /\ \A j \in 1 .. Len(subs) : subs[j].key \in Keys
    BY <1>1, <1>2, FieldTyped
  <2> QED
    BY <1>2, <2>1 DEF Sound
<1>4. /\ Len(Entry(f, ind, w)) = 1 + Len(subs) /\ Entry(f, ind, w)[1] = Line(ind, "key", f)
      /\ \A j \in 1 .. Len(subs) : Entry(f, ind, w)[1 + j] = Line(ind + w, "key", subs[j])
  BY <1>1, <1>2, EntryTyped
<1>5. PICK k : k = i + 1
  OBVIOUS
<1>6. /\ i \in Nat /\ k \in 1 .. Len(lines) /\ k - 1 = i /\ k \in Nat
      /\ k + Len(subs) <= Len(lines) /\ i + (1 + Len(subs)) = k + Len(subs)
  <2>1. PICK n \in Nat \ {0} : n = Len(subs)
    BY <1>3
  <2>2. i \in Nat /\ i + (1 + n) <= Len(lines) /\ Len(lines) \in Nat
    BY <1>4, <2>1 DEF Holds
  <2> QED
    BY <1>5, <2>1, <2>2
<1>7. \A j \in 1 .. 1 + Len(subs) : lines[i + j] = Entry(f, ind, w)[j]
  BY <1>4 DEF Holds
<1>8. lines[k] = Line(ind, "key", f)
  BY <1>3, <1>4, <1>5, <1>7
<1>9. ASSUME NEW j \in 1 .. Len(subs) PROVE lines[k + j] = Line(ind + w, "key", subs[j])
  <2>1. 1 + j \in 1 .. 1 + Len(subs) /\ k + j = i + (1 + j)
    <3>1. PICK n \in Nat \ {0} : n = Len(subs)
      BY <1>3
    <3>2. j \in 1 .. n /\ 1 + j \in 1 .. 1 + n
      BY <3>1
    <3> QED
      BY <1>5, <1>6, <3>1, <3>2
  <2> QED
    BY <1>4, <1>7, <2>1
<1>10. lines[k + 1].kind = "key"
  <2>1. 1 \in 1 .. Len(subs)
    BY <1>3
  <2> QED
    BY <1>9, <2>1, LineOf
<1>11. PICK s, path : s = state[i] /\ path = Child(b, f.key)
  OBVIOUS
<1>12. state[k] = Step(lines, s, k)
  BY <1>6, <1>11 DEF Reads
<1>13. path \in Paths /\ Clear(arrays, path) /\ Len(path) = Len(b) + 1 /\ Len(b) \in Nat
  <2>1. PICK key \in Keys : key = f.key
    BY <1>1
  <2>2. Clear(arrays, Child(b, key)) /\ Child(b, key) \in Paths /\ Len(Child(b, key)) = Len(b) + 1
    BY <1>1, PlaceClear, ChildPath
  <2> QED
    BY <1>1, <1>11, <2>1, <2>2 DEF Paths
<1>14. PICK deep, data : deep = Append(stack, To(path)) /\ data = Put(s.data, path, Map)
  OBVIOUS
<1>15. state[k] = Parsed(data, deep, ind, arrays)
  <2>1. Level(s, ind, stack, arrays) /\ Last(stack) = To(b) /\ f.val = Map
    BY <1>1, <1>11
  <2>2. Step(lines, s, k) = Parsed(Put(s.data, path, Map), Append(stack, To(path)), ind, arrays)
    BY <1>8, <1>10, <1>11, <1>13, <2>1, HeaderStep, SMTT(60)
  <2> QED
    BY <1>12, <1>14, <2>2
<1>16. PICK M : M = N \cup {<<path, Map>>}
  OBVIOUS
<1>17. IsTree(data, M)
  BY <1>11, <1>13, <1>14, <1>16, PutFree
<1>18. ASSUME NEW j \in 1 .. Len(subs)
       PROVE  Free(M, Child(path, subs[j].key)) /\ Clear(arrays, Child(path, subs[j].key))
  <2>1. PICK key \in Keys : key = subs[j].key
    BY <1>3
  <2>2. Child(path, key) \in Paths /\ Len(Child(path, key)) >= 2
    <3>1. Child(path, key) \in Paths /\ Len(Child(path, key)) = Len(path) + 1
      BY <1>13, ChildPath
    <3> QED
      BY <1>13, <3>1
  <2>3. Clear(arrays, Child(path, key))
    BY <1>1, <2>2, DeepClear
  <2>4. Free(N, Child(path, key))
    <3>1. \A x \in N : x[1] \in Paths
      BY NodePaths
    <3>2. Free(N, path)
      BY <1>11
    <3> QED
      BY <1>13, <3>1, <3>2, FreeBelow
  <2>5. ~IsPrefix(Child(path, key), path)
    BY <1>13, BelowChild
  <2>6. Free({<<path, Map>>}, Child(path, key))
    BY <2>5 DEF Free
  <2> QED
    BY <1>16, <2>1, <2>3, <2>4, <2>6, FreeBoth
<1>19. Last(deep) = To(path) /\ To(path) \in Pointers
  <2>1. To(path) \in Pointers
    BY <1>13 DEF To, Pointers
  <2> QED
    BY <1>1, <1>14, <2>1, Pushed
<1>20. PICK in : in = ind + w /\ in \in Nat /\ ind <= in
  BY <1>1
<1>21. SubsReady(lines, state, k, subs, in, data, M, deep, ind, arrays, path)
  <2>1. Len(lines) \in Nat
    OBVIOUS
  <2>2. SubsNew(M, path, subs, arrays)
    BY <1>3, <1>18 DEF SubsNew
  <2>3. SubsAt(lines, k, subs, in)
    BY <1>6, <1>9, <1>20 DEF SubsAt
  <2> QED
    BY <1>1, <1>3, <1>6, <1>13, <1>15, <1>17, <1>19, <1>20, <2>1, <2>2, <2>3 DEF SubsReady
<1>22. PICK new : /\ state[k + Len(subs)] = Parsed(new, deep, in, arrays)
                  /\ IsTree(new, M \cup SubNodes(path, subs, Len(subs)))
  <2>1. Len(subs) # 0
    BY <1>3
  <2>2. SubsDone(state, k, subs, Len(subs), in, M, deep, ind, arrays, path)
    BY <1>21, SubsRead
  <2> QED
    BY <2>1, <2>2 DEF SubsDone
<1>23. PICK t : t = state[i + Len(Entry(f, ind, w))]
  OBVIOUS
<1>24. t = Parsed(new, Append(stack, To(path)), ind + w, arrays) /\ t.data = new
  <2>1. t = Parsed(new, deep, in, arrays)
    BY <1>4, <1>6, <1>22, <1>23
  <2>2. t.data = new
    BY <2>1 DEF Parsed
  <2> QED
    BY <1>14, <1>20, <2>1, <2>2
<1>25. Back(t, ind, w, stack, arrays)
  BY <1>19, <1>24 DEF Back
<1>26. M \cup SubNodes(path, subs, Len(subs)) = N \cup EntryNodes(b, f)
  BY <1>1, <1>2, <1>11, <1>16 DEF EntryNodes
<1> QED
  BY <1>22, <1>23, <1>24, <1>25, <1>26

(* The reader comes to a field; it has read it.                            *)
EntryReady(lines, state, f, i, b, ind, w, stack, arrays, N) ==
    /\ lines \in Seq(AnyLine) /\ Reads(lines, state) /\ Sound(f) /\ w \in Nat /\ w >= 2
    /\ Place(b, ind, stack, arrays) /\ Holds(lines, i, Entry(f, ind, w))
    /\ Level(state[i], ind, stack, arrays) /\ (f.sub = <<>> \/ Len(stack) = 1 \/ w = 2)
    /\ IsTree(state[i].data, N) /\ Free(N, Child(b, f.key))

EntryDone(s, f, b, ind, w, stack, arrays, N) ==
    Back(s, ind, w, stack, arrays) /\ IsTree(s.data, N \cup EntryNodes(b, f))

(* A field is read, of either kind.                                        *)
LEMMA EntryRead ==
    ASSUME NEW lines, NEW state, NEW f, NEW i, NEW b, NEW ind, NEW w, NEW stack, NEW arrays, NEW N,
           EntryReady(lines, state, f, i, b, ind, w, stack, arrays, N)
    PROVE  EntryDone(state[i + Len(Entry(f, ind, w))], f, b, ind, w, stack, arrays, N)
<1>1. /\ lines \in Seq(AnyLine) /\ Reads(lines, state) /\ Sound(f) /\ w \in Nat
      /\ Place(b, ind, stack, arrays) /\ Holds(lines, i, Entry(f, ind, w))
      /\ Level(state[i], ind, stack, arrays) /\ IsTree(state[i].data, N) /\ Free(N, Child(b, f.key))
  BY DEF EntryReady
<1>2. CASE f.sub = <<>>
  BY <1>1, <1>2, PlainRead DEF EntryDone
<1>3. CASE f.sub # <<>>
  <2>1. Len(stack) = 1 \/ w = 2
    BY <1>3 DEF EntryReady
  <2> QED
    BY <1>1, <1>3, <2>1, SectionRead DEF EntryDone
<1> QED
  BY <1>2, <1>3

(* A field leaves the other keys of its map free.                          *)
LEMMA EntryFree ==
    ASSUME NEW b \in Paths, NEW f, Sound(f), NEW key \in Keys, key # f.key
    PROVE  Free(EntryNodes(b, f), Child(b, key))
<1>1. f \in Fields
  BY DEF Sound
<1>2. PICK own \in Keys : own = f.key
  BY <1>1, FieldTyped
<1>3. ~IsPrefix(Child(b, key), Child(b, f.key))
  BY <1>2, ChildApart
<1>4. ASSUME NEW j \in 1 .. Len(f.sub)
      PROVE  ~IsPrefix(Child(b, key), Child(Child(b, f.key), f.sub[j].key))
  <2>1. PICK sub \in Keys : sub = f.sub[j].key
    BY <1>1, FieldTyped
  <2> QED
    BY <1>2, <2>1, ChildApart
<1> QED
  BY <1>3, <1>4 DEF Free, EntryNodes, SubNodes

(* What the first n of fields add to the tree.                             *)
Nodes(b, fs, n) == UNION {EntryNodes(b, fs[k]) : k \in 1 .. n}

(* The nodes that the reference has for fields.                            *)
LEMMA FieldNodesAre ==
    ASSUME NEW b, NEW fs \in Seq(Fields)
    PROVE  FieldNodes(b, fs) = Nodes(b, fs, Len(fs))
<1>1. ASSUME NEW k \in 1 .. Len(fs)
      PROVE  EntryNodes(b, fs[k]) =
               {<<Child(b, fs[k].key), fs[k].val>>}
               \cup {<<Child(Child(b, fs[k].key), g.key), g.val>> : g \in Range(fs[k].sub)}
  <2>1. PICK f \in Fields : f = fs[k]
    OBVIOUS
  <2>2. DOMAIN f.sub = 1 .. Len(f.sub)
    BY FieldTyped
  <2>3. Range(f.sub) = {f.sub[j] : j \in 1 .. Len(f.sub)}
    BY <2>2 DEF Range
  <2>4. SubNodes(Child(b, f.key), f.sub, Len(f.sub)) =
          {<<Child(Child(b, f.key), g.key), g.val>> : g \in Range(f.sub)}
    BY <2>3 DEF SubNodes
  <2> QED
    BY <2>1, <2>4 DEF EntryNodes
<1>2. Range(fs) = {fs[k] : k \in 1 .. Len(fs)}
  BY DEF Range
<1>3. FieldNodes(b, fs) =
        UNION { {<<Child(b, fs[k].key), fs[k].val>>}
                \cup {<<Child(Child(b, fs[k].key), g.key), g.val>> : g \in Range(fs[k].sub)}
                : k \in 1 .. Len(fs)}
  BY <1>2 DEF FieldNodes
<1> QED
  BY <1>1, <1>3 DEF Nodes

(* The reader comes to the fields of a map; it has read n of them.         *)
EntriesReady(lines, state, i, fs, ind, w, stack, arrays, b, N) ==
    /\ lines \in Seq(AnyLine) /\ Reads(lines, state) /\ fs \in Seq(Fields) /\ w \in Nat /\ w >= 2
    /\ Place(b, ind, stack, arrays) /\ Holds(lines, i, Entries(fs, ind, w))
    /\ Level(state[i], ind, stack, arrays) /\ IsTree(state[i].data, N)
    /\ Distinct(fs)
    /\ \A k \in 1 .. Len(fs) : /\ Sound(fs[k]) /\ (fs[k].sub = <<>> \/ Len(stack) = 1 \/ w = 2)
                               /\ Free(N, Child(b, fs[k].key))

EntriesDone(s, fs, n, ind, w, stack, arrays, b, N) ==
    /\ Level(s, ind, stack, arrays)
    /\ n # 0 => Back(s, ind, w, stack, arrays)
    /\ IsTree(s.data, N \cup Nodes(b, fs, n))

(* The fields of a map are read.                                           *)
LEMMA EntriesRead ==
    ASSUME NEW lines, NEW state, NEW i, NEW fs, NEW ind, NEW w, NEW stack, NEW arrays, NEW b, NEW N,
           EntriesReady(lines, state, i, fs, ind, w, stack, arrays, b, N)
    PROVE  EntriesDone(state[i + Len(Entries(fs, ind, w))], fs, Len(fs), ind, w, stack, arrays, b, N)
<1>1. /\ lines \in Seq(AnyLine) /\ Reads(lines, state) /\ fs \in Seq(Fields) /\ w \in Nat /\ w >= 2
      /\ Place(b, ind, stack, arrays) /\ Holds(lines, i, Entries(fs, ind, w))
      /\ Level(state[i], ind, stack, arrays) /\ IsTree(state[i].data, N)
      /\ Distinct(fs) /\ DOMAIN fs = 1 .. Len(fs) /\ Len(fs) \in Nat
      /\ ind \in Nat /\ b \in Paths
  BY DEF EntriesReady, Place
<1>2. ASSUME NEW k \in 1 .. Len(fs)
      PROVE  /\ Sound(fs[k]) /\ (fs[k].sub = <<>> \/ Len(stack) = 1 \/ w = 2)
             /\ Free(N, Child(b, fs[k].key)) /\ fs[k].key \in Keys
  <2>1. /\ Sound(fs[k]) /\ (fs[k].sub = <<>> \/ Len(stack) = 1 \/ w = 2)
        /\ Free(N, Child(b, fs[k].key))
    BY DEF EntriesReady
  <2>2. PICK f \in Fields : f = fs[k]
    BY <1>1
  <2> QED
    BY <2>1, <2>2, FieldTyped
<1>3. PICK ss : ss = [k \in DOMAIN fs |-> Entry(fs[k], ind, w)]
  OBVIOUS
<1>4. /\ ss \in Seq(Seq(AnyLine)) /\ Len(ss) = Len(fs) /\ FlattenSeq(ss) = Entries(fs, ind, w)
      /\ \A k \in 1 .. Len(fs) : ss[k] = Entry(fs[k], ind, w)
  BY <1>1, <1>3, EntriesTyped DEF Entries
<1>5. PICK from : Parts(lines, i, ss, from)
  <2>1. Holds(lines, i, FlattenSeq(ss))
    BY <1>1, <1>4
  <2> QED
    BY <1>1, <1>4, <2>1, HoldsParts
<1>6. /\ from[0] = i /\ from[Len(fs)] = i + Len(Entries(fs, ind, w))
      /\ \A n \in 1 .. Len(fs) : /\ from[n] = from[n - 1] + Len(Entry(fs[n], ind, w))
                                 /\ Holds(lines, from[n - 1], Entry(fs[n], ind, w))
  BY <1>4, <1>5 DEF Parts
<1> DEFINE Good(n) == EntriesDone(state[from[n]], fs, n, ind, w, stack, arrays, b, N)
           T == {n \in Nat : n <= Len(fs) => Good(n)}
<1>7. 0 \in T
  <2>1. Nodes(b, fs, 0) = {}
    BY DEF Nodes
  <2>2. N \cup {} = N
    OBVIOUS
  <2>3. Good(0)
    BY <1>1, <1>6, <2>1, <2>2 DEF EntriesDone
  <2> HIDE DEF Good
  <2> QED
    BY <2>3
<1>8. ASSUME NEW n \in Nat, n \in T PROVE n + 1 \in T
  <2> HIDE DEF Good
  <2> SUFFICES ASSUME n + 1 <= Len(fs) PROVE Good(n + 1)
    OBVIOUS
  <2>1. Good(n)
    BY <1>1, <1>8
  <2>2. PICK k, f, s, M : k = n + 1 /\ f = fs[n + 1] /\ s = state[from[n]] /\ M = N \cup Nodes(b, fs, n)
    OBVIOUS
  <2>3. Level(s, ind, stack, arrays) /\ IsTree(s.data, M)
    BY <2>1, <2>2 DEF Good, EntriesDone
  <2>4. k \in 1 .. Len(fs) /\ k - 1 = n /\ k # 0
    BY <1>1, <2>2
  <2>5. /\ from[k] = from[n] + Len(Entry(f, ind, w)) /\ Holds(lines, from[n], Entry(f, ind, w))
        /\ Sound(f) /\ (f.sub = <<>> \/ Len(stack) = 1 \/ w = 2)
        /\ Free(N, Child(b, f.key)) /\ f.key \in Keys
    BY <1>2, <1>6, <2>2, <2>4
  <2>6. Free(Nodes(b, fs, n), Child(b, f.key))
    <3>1. ASSUME NEW j \in 1 .. n PROVE Free(EntryNodes(b, fs[j]), Child(b, f.key))
      <4>1. j \in 1 .. Len(fs) /\ j # k /\ fs[k] = f
        BY <1>1, <2>2, <2>4
      <4>2. fs[j].key # f.key
        BY <1>1, <2>4, <4>1 DEF Distinct
      <4>3. PICK key, g : key \in Keys /\ key = f.key /\ g = fs[j]
        BY <2>5
      <4>4. Sound(g) /\ key # g.key
        BY <1>2, <4>1, <4>2, <4>3
      <4> QED
        BY <1>1, <4>3, <4>4, EntryFree
    <3> QED
      BY <3>1 DEF Free, Nodes
  <2>7. Free(M, Child(b, f.key))
    BY <2>2, <2>5, <2>6, FreeBoth
  <2>8. EntryReady(lines, state, f, from[n], b, ind, w, stack, arrays, M)
    BY <1>1, <2>2, <2>3, <2>5, <2>7 DEF EntryReady
  <2>9. PICK t : t = state[from[k]]
    OBVIOUS
  <2>10. EntryDone(t, f, b, ind, w, stack, arrays, M)
    BY <2>5, <2>8, <2>9, EntryRead
  <2>11. Back(t, ind, w, stack, arrays) /\ IsTree(t.data, M \cup EntryNodes(b, f))
    BY <2>10 DEF EntryDone
  <2>12. Level(t, ind, stack, arrays)
    BY <1>1, <2>11, LevelAfter
  <2>13. Nodes(b, fs, k) = Nodes(b, fs, n) \cup EntryNodes(b, f)
    <3>1. 1 .. k = (1 .. n) \cup {k} /\ fs[k] = f
      BY <2>2
    <3> QED
      BY <3>1 DEF Nodes
  <2>14. M \cup EntryNodes(b, f) = N \cup Nodes(b, fs, k)
    BY <2>2, <2>13
  <2>15. EntriesDone(t, fs, k, ind, w, stack, arrays, b, N)
    BY <2>11, <2>12, <2>14 DEF EntriesDone
  <2> QED
    BY <2>2, <2>9, <2>15 DEF Good
<1>9. Nat \subseteq T
  <2> HIDE DEF T
  <2> QED
    BY <1>7, <1>8, Induction
<1>10. Good(Len(fs))
  <2> HIDE DEF Good
  <2> QED
    BY <1>1, <1>9
<1> QED
  BY <1>6, <1>10

-----------------------------------------------------------------------------
(* The sites.                                                              *)

(* The first steps of the paths of N.                                      *)
Heads(N) == {x[1][1] : x \in {y \in N : y[1] # <<>>}}

(* A path of one step is free where no path begins with that step.         *)
LEMMA FreeHead ==
    ASSUME NEW N, \A x \in N : x[1] \in Paths, NEW p \in Paths, Len(p) = 1, p[1] \notin Heads(N)
    PROVE  Free(N, p)
<1> SUFFICES ASSUME NEW x \in N, IsPrefix(p, x[1]) PROVE FALSE
  BY DEF Free
<1>1. PICK q \in Paths : q = x[1]
  OBVIOUS
<1>2. Len(p) <= Len(q) /\ q[1] = p[1]
  <2>1. 1 \in 1 .. Len(p) /\ \A i \in 1 .. Len(p) : p[i] = q[i]
    BY <1>1, PrefixMeans
  <2> QED
    BY <1>1, <2>1, PrefixMeans
<1>3. q # <<>>
  BY <1>2
<1> QED
  BY <1>1, <1>2, <1>3 DEF Heads

(* The first steps of two trees are those of either.                       *)
LEMMA HeadsBoth ==
    ASSUME NEW M, NEW N
    PROVE  Heads(M \cup N) = Heads(M) \cup Heads(N)
BY DEF Heads

(* A child begins like its parent, or with its key.                        *)
LEMMA ChildHead ==
    ASSUME NEW b \in Paths, NEW key \in Keys
    PROVE  /\ Child(b, key) \in Paths /\ Len(Child(b, key)) = Len(b) + 1 /\ Len(b) \in Nat
           /\ Len(b) = 0 => Child(b, key)[1] = <<key, 0>>
           /\ Len(b) >= 1 => Child(b, key)[1] = b[1]
<1>1. Len(b) \in Nat
  BY DEF Paths
<1>2. PICK c : c = Child(b, key)
  OBVIOUS
<1>3. /\ c \in Paths /\ Len(c) = Len(b) + 1 /\ \A i \in 1 .. Len(b) : c[i] = b[i]
      /\ c[Len(b) + 1] = <<key, 0>>
  BY <1>2, ChildPath
<1>4. Len(b) >= 1 => 1 \in 1 .. Len(b)
  BY <1>1
<1> QED
  BY <1>1, <1>2, <1>3, <1>4

(* The fields of the outermost map begin with their keys, ...              *)
LEMMA HeadsTop ==
    ASSUME NEW fs \in Seq(Fields), \A k \in 1 .. Len(fs) : Sound(fs[k]), NEW n \in Nat, n <= Len(fs)
    PROVE  Heads(Nodes(<<>>, fs, n)) \subseteq {<<fs[k].key, 0>> : k \in 1 .. n}
<1>1. ASSUME NEW k \in 1 .. n, NEW x \in EntryNodes(<<>>, fs[k]) PROVE x[1][1] = <<fs[k].key, 0>>
  <2>1. PICK f \in Fields : f = fs[k] /\ Len(f.sub) \in Nat
    BY FieldTyped
  <2>2. PICK c : c = Child(<<>>, f.key)
    OBVIOUS
  <2>3. <<>> \in Paths /\ Len(<<>>) = 0 /\ f.key \in Keys
    BY FieldTyped DEF Paths
  <2>4. c \in Paths /\ Len(c) = 1 /\ c[1] = <<f.key, 0>>
    <3>1. PICK key \in Keys : key = f.key
      BY <2>3
    <3> QED
      <4>1. PICK e \in Paths : e = <<>>
        BY <2>3
      <4>2. Child(e, key) \in Paths /\ Len(Child(e, key)) = Len(e) + 1
            /\ (Len(e) = 0 => Child(e, key)[1] = <<key, 0>>)
        BY ChildHead
      <4> QED
        BY <2>2, <2>3, <3>1, <4>1, <4>2
  <2>5. CASE x = <<c, f.val>>
    BY <2>1, <2>4, <2>5
  <2>6. CASE x \in SubNodes(c, f.sub, Len(f.sub))
    <3>1. PICK j \in 1 .. Len(f.sub) : x = <<Child(c, f.sub[j].key), f.sub[j].val>>
      BY <2>6 DEF SubNodes
    <3>2. PICK key \in Keys : key = f.sub[j].key
      BY FieldTyped
    <3>3. Child(c, key)[1] = c[1]
      <4>1. Len(c) >= 1 => Child(c, key)[1] = c[1]
        BY <2>4, ChildHead
      <4> QED
        BY <2>4, <4>1
    <3> QED
      BY <2>1, <2>4, <3>1, <3>2, <3>3
  <2> QED
    BY <2>1, <2>2, <2>5, <2>6 DEF EntryNodes
<1> SUFFICES ASSUME NEW y \in Nodes(<<>>, fs, n)
             PROVE  y[1][1] \in {<<fs[k].key, 0>> : k \in 1 .. n}
  BY DEF Heads
<1>2. PICK k \in 1 .. n : y \in EntryNodes(<<>>, fs[k])
  BY DEF Nodes
<1> QED
  BY <1>1, <1>2

(* ... those of another map with its path.                                 *)
LEMMA HeadsBelow ==
    ASSUME NEW fs \in Seq(Fields), \A k \in 1 .. Len(fs) : Sound(fs[k]), NEW b \in Paths, Len(b) = 1
    PROVE  Heads(Nodes(b, fs, Len(fs))) \subseteq {b[1]}
<1>1. ASSUME NEW k \in 1 .. Len(fs), NEW x \in EntryNodes(b, fs[k]) PROVE x[1][1] = b[1]
  <2>1. PICK f \in Fields : f = fs[k] /\ Len(f.sub) \in Nat
    BY FieldTyped
  <2>2. PICK c : c = Child(b, f.key)
    OBVIOUS
  <2>3. f.key \in Keys
    BY FieldTyped
  <2>4. c \in Paths /\ Len(c) = 2 /\ c[1] = b[1]
    <3>1. PICK key \in Keys : key = f.key
      BY <2>3
    <3> QED
      <4>1. Child(b, key) \in Paths /\ Len(Child(b, key)) = Len(b) + 1
            /\ (Len(b) >= 1 => Child(b, key)[1] = b[1])
        BY ChildHead
      <4> QED
        BY <2>2, <3>1, <4>1
  <2>5. CASE x = <<c, f.val>>
    BY <2>4, <2>5
  <2>6. CASE x \in SubNodes(c, f.sub, Len(f.sub))
    <3>1. PICK j \in 1 .. Len(f.sub) : x = <<Child(c, f.sub[j].key), f.sub[j].val>>
      BY <2>6 DEF SubNodes
    <3>2. PICK key \in Keys : key = f.sub[j].key
      BY FieldTyped
    <3>3. Child(c, key)[1] = c[1]
      <4>1. Len(c) >= 1 => Child(c, key)[1] = c[1]
        BY <2>4, ChildHead
      <4> QED
        BY <2>4, <4>1
    <3> QED
      BY <2>4, <3>1, <3>2, <3>3
  <2> QED
    BY <2>1, <2>2, <2>5, <2>6 DEF EntryNodes
<1> QED
  BY <1>1 DEF Heads, Nodes

(* The path of a site, ...                                                 *)
LEMMA SitePath ==
    ASSUME NEW k \in Nat
    PROVE  /\ SiteAt(k) \in Paths /\ Len(SiteAt(k)) = 1 /\ SiteAt(k)[1] = <<"servers", k>>
           /\ SiteAt(k) # <<>>
<1>1. "servers" \in Keys
  BY DEF Keys
<1> QED
  BY <1>1 DEF SiteAt, Paths

(* ... and of the list of sites.                                           *)
LEMMA ServersPath == Servers = SiteAt(0) /\ Servers = Child(<<>>, "servers")
BY DEF Servers, SiteAt, Child

(* Sites of different numbers differ.                                      *)
LEMMA SiteApart ==
    ASSUME NEW j, NEW k, <<"servers", j>> = <<"servers", k>>
    PROVE  j = k
OBVIOUS

(* From anywhere in an item the reader comes back to the outermost map.    *)
LEMMA LevelRoot ==
    ASSUME NEW data, NEW stack \in Seq(Pointers), stack # <<>>, stack[1] = Root,
           NEW prev \in Nat, NEW ind \in Nat, ind < prev,
           NEW turns \in Nat, turns = (prev - ind + 1) \div 2, Len(stack) <= 1 + turns
    PROVE  Level(Parsed(data, stack, prev, Opened), ind, <<Root>>, IF ind >= 2 THEN Opened ELSE <<>>)
<1>1. 1 = (IF Len(stack) - ((prev - ind + 1) \div 2) > 1
           THEN Len(stack) - ((prev - ind + 1) \div 2) ELSE 1)
  <2>1. PICK n \in Nat : n = Len(stack) /\ n <= 1 + turns
    OBVIOUS
  <2>2. ~(n - turns > 1)
    BY <2>1
  <2> QED
    BY <2>1, <2>2
<1>2. (IF ind >= 2 THEN Opened ELSE <<>>) =
        SubSeq(Opened, 1, Max({0} \cup {k \in DOMAIN Opened : Opened[k].ind <= ind}))
  BY ListLeft
<1>3. SubSeq(stack, 1, 1) = <<Root>>
  <2>1. SubSeq(stack, 1, 1) \in Seq(Pointers) /\ Len(SubSeq(stack, 1, 1)) = 1
        /\ SubSeq(stack, 1, 1)[1] = stack[1]
    OBVIOUS
  <2>2. Root \in Pointers
    BY DEF Root, To, Pointers, Paths
  <2>3. <<Root>> \in Seq(Pointers) /\ Len(<<Root>>) = 1 /\ <<Root>>[1] = Root
    BY <2>2
  <2>4. \A i \in 1 .. 1 : SubSeq(stack, 1, 1)[i] = <<Root>>[i]
    BY <2>1, <2>3
  <2> QED
    BY <2>1, <2>3, <2>4, SeqEqual
<1>4. PICK left : left = IF ind >= 2 THEN Opened ELSE <<>>
  OBVIOUS
<1>5. Level(Parsed(data, stack, prev, Opened), ind, SubSeq(stack, 1, 1), left)
  BY <1>1, <1>2, <1>4, LevelBack
<1> QED
  BY <1>3, <1>4, <1>5

(* After a site the next one finds the reader at the list, and a field of  *)
(* the document in the outermost map.                                      *)
LEMMA SiteLeft ==
    ASSUME NEW w \in Nat, w >= 2, NEW site \in Paths, NEW s,
           Back(s, w + 2, w, <<Root, To(site)>>, Opened)
    PROVE  Level(s, w, <<Root>>, Opened) /\ Level(s, 0, <<Root>>, <<>>)
<1>1. PICK data, stack : data = s.data /\ stack = <<Root, To(site)>>
  OBVIOUS
<1>2. stack \in Seq(Pointers) /\ Len(stack) = 2 /\ stack # <<>> /\ stack[1] = Root
  <2>1. Root \in Pointers /\ To(site) \in Pointers
    BY DEF Root, To, Pointers, Paths
  <2> QED
    BY <1>1, <2>1
<1>3. CASE s = Parsed(data, stack, w + 2, Opened)
  <2>1. PICK prev \in Nat : prev = w + 2
    OBVIOUS
  <2>2. Level(Parsed(data, stack, prev, Opened), w, <<Root>>, IF w >= 2 THEN Opened ELSE <<>>)
    <3>1. PICK turns : turns = (prev - w + 1) \div 2
      OBVIOUS
    <3>2. turns \in Nat /\ Len(stack) <= 1 + turns /\ w < prev
      <4>1. prev - w + 1 = 3
        BY <2>1
      <4> QED
        BY <1>2, <2>1, <3>1, <4>1
    <3> QED
      BY <1>2, <3>1, <3>2, LevelRoot
  <2>3. Level(Parsed(data, stack, prev, Opened), 0, <<Root>>, IF 0 >= 2 THEN Opened ELSE <<>>)
    <3>1. PICK turns : turns = (prev - 0 + 1) \div 2
      OBVIOUS
    <3>2. turns \in Nat /\ Len(stack) <= 1 + turns /\ 0 < prev
      BY <1>2, <2>1, <3>1
    <3> QED
      BY <1>2, <3>1, <3>2, LevelRoot
  <2> QED
    BY <1>3, <2>1, <2>2, <2>3
<1>4. ASSUME w = 2, NEW x \in Pointers, s = Parsed(data, Append(stack, x), w + 2 + w, Opened)
      PROVE  Level(s, w, <<Root>>, Opened) /\ Level(s, 0, <<Root>>, <<>>)
  <2>1. PICK deep : deep = Append(stack, x)
    OBVIOUS
  <2>2. deep \in Seq(Pointers) /\ Len(deep) = 3 /\ deep # <<>> /\ deep[1] = Root
    <3>1. /\ Append(stack, x) \in Seq(Pointers) /\ Len(Append(stack, x)) = Len(stack) + 1
          /\ \A i \in 1 .. Len(stack) : Append(stack, x)[i] = stack[i]
      <4>1. stack \in Seq(Pointers) /\ Len(stack) \in Nat
        BY <1>2, <1>4
      <4> QED
        BY <4>1
    <3>2. 1 \in 1 .. Len(stack)
      BY <1>2
    <3> QED
      BY <1>2, <2>1, <3>1, <3>2
  <2>3. w + 2 + w = 6
    BY <1>4
  <2>4. Level(Parsed(data, deep, 6, Opened), 2, <<Root>>, IF 2 >= 2 THEN Opened ELSE <<>>)
    <3>1. PICK prev \in Nat, ind \in Nat : prev = 6 /\ ind = 2
      OBVIOUS
    <3>2. PICK turns : turns = (prev - ind + 1) \div 2
      OBVIOUS
    <3>3. turns \in Nat /\ Len(deep) <= 1 + turns /\ ind < prev
      BY <2>2, <3>1, <3>2
    <3>4. Level(Parsed(data, deep, prev, Opened), ind, <<Root>>, IF ind >= 2 THEN Opened ELSE <<>>)
      BY <2>2, <3>2, <3>3, LevelRoot
    <3> QED
      BY <3>1, <3>4
  <2>5. Level(Parsed(data, deep, 6, Opened), 0, <<Root>>, IF 0 >= 2 THEN Opened ELSE <<>>)
    <3>1. PICK prev \in Nat, ind \in Nat : prev = 6 /\ ind = 0
      OBVIOUS
    <3>2. PICK turns : turns = (prev - ind + 1) \div 2
      OBVIOUS
    <3>3. turns \in Nat /\ Len(deep) <= 1 + turns /\ ind < prev
      BY <2>2, <3>1, <3>2
    <3>4. Level(Parsed(data, deep, prev, Opened), ind, <<Root>>, IF ind >= 2 THEN Opened ELSE <<>>)
      BY <2>2, <3>2, <3>3, LevelRoot
    <3> QED
      BY <3>1, <3>4
  <2> QED
    BY <1>4, <2>1, <2>3, <2>4, <2>5
<1>5. CASE /\ Len(stack) = 1 \/ w = 2
           /\ \E x \in Pointers : s = Parsed(data, Append(stack, x), w + 2 + w, Opened)
  BY <1>2, <1>4, <1>5
<1> QED
  BY <1>1, <1>3, <1>5 DEF Back

(* The fields of a site but the first.                                     *)
LEMMA TailTyped ==
    ASSUME NEW fs \in Seq(Fields), fs # <<>>
    PROVE  /\ Tail(fs) \in Seq(Fields) /\ Len(Tail(fs)) = Len(fs) - 1 /\ Len(fs) \in Nat \ {0}
           /\ \A k \in 1 .. Len(Tail(fs)) : Tail(fs)[k] = fs[k + 1] /\ k + 1 \in 2 .. Len(fs)
  OBVIOUS

(* A site is written as its first field, after a dash, and the others      *)
(* further in.                                                             *)
LEMMA SiteTyped ==
    ASSUME NEW fs \in Seq(Fields), fs # <<>>, NEW w \in Nat
    PROVE  /\ <<Line(w, "item", fs[1])>> \in Seq(AnyLine)
           /\ Entries(Tail(fs), w + 2, w) \in Seq(AnyLine)
           /\ Site(fs, w) = <<Line(w, "item", fs[1])>> \o Entries(Tail(fs), w + 2, w)
           /\ Site(fs, w) \in Seq(AnyLine)
<1>1. PICK f \in Fields : f = fs[1]
  BY TailTyped
<1>2. Line(w, "item", f) \in AnyLine
  BY FieldTyped, LineTyped
<1>3. Entries(Tail(fs), w + 2, w) \in Seq(AnyLine)
  <2>1. PICK rest, in : rest = Tail(fs) /\ in = w + 2
    OBVIOUS
  <2>2. rest \in Seq(Fields) /\ in \in Nat
    BY <2>1, TailTyped
  <2> QED
    BY <2>1, <2>2, EntriesTyped
<1>4. <<Line(w, "item", f)>> \in Seq(AnyLine)
  BY <1>2
<1>5. Site(fs, w) = <<Line(w, "item", fs[1])>> \o Entries(Tail(fs), w + 2, w)
  BY DEF Site
<1> QED
  BY <1>1, <1>3, <1>4, <1>5

(* What a site adds to the tree.                                           *)
SiteNodes(k, fs) == {<<SiteAt(k), Map>>} \cup Nodes(SiteAt(k), fs, Len(fs))

(* What Regular says of a site.                                            *)
SoundSite(fs, w) ==
    /\ fs \in Seq(Fields) /\ Len(fs) >= 2 /\ Distinct(fs) /\ fs[1].val.t = "str"
    /\ \A k \in 1 .. Len(fs) : Sound(fs[k]) /\ (fs[k].sub = <<>> \/ w = 2)

(* The reader comes to a site; it has read it.                             *)
SiteReady(lines, state, fs, i, w, n, N) ==
    /\ lines \in Seq(AnyLine) /\ Reads(lines, state) /\ w \in Nat /\ w >= 2 /\ n \in Nat
    /\ SoundSite(fs, w) /\ Holds(lines, i, Site(fs, w)) /\ Level(state[i], w, <<Root>>, Opened)
    /\ IsTree(state[i].data, N \cup {<<Servers, List(n)>>})
    /\ <<"servers", 0>> \notin Heads(N) /\ <<"servers", n + 1>> \notin Heads(N)

SiteDone(s, fs, w, n, N) ==
    /\ Level(s, w, <<Root>>, Opened) /\ Level(s, 0, <<Root>>, <<>>)
    /\ IsTree(s.data, N \cup SiteNodes(n, fs) \cup {<<Servers, List(n)>>})

(* The tree after the first line of a site.                                *)
LEMMA ItemTree ==
    ASSUME NEW data, NEW N, NEW n \in Nat, IsTree(data, N \cup {<<Servers, List(n)>>}),
           <<"servers", 0>> \notin Heads(N), <<"servers", n + 1>> \notin Heads(N),
           NEW key \in Keys, NEW v, NEW site, site = SiteAt(n + 1)
    PROVE  /\ Servers \in DOMAIN data /\ data[Servers] = List(n)
           /\ Free(N \cup {<<Servers, List(n + 1)>>}, site)
           /\ \A x \in N \cup {<<Servers, List(n + 1)>>} : x[1] \in Paths
           /\ IsTree(Put(Put([data EXCEPT ![Servers] = List(n + 1)], site, Map), Child(site, key), v),
                     N \cup {<<Servers, List(n + 1)>>} \cup {<<site, Map>>} \cup {<<Child(site, key), v>>})
<1>1. \A x \in N : x[1] \in Paths
  BY NodePaths
<1>2. Servers \in Paths /\ Servers # <<>> /\ Servers[1] = <<"servers", 0>> /\ Len(Servers) = 1
  BY SitePath, ServersPath
<1>3. site \in Paths /\ site[1] = <<"servers", n + 1>> /\ Len(site) = 1
  BY SitePath
<1>4. \A x \in N : x[1] # Servers
  BY <1>2 DEF Heads
<1>5. PICK set : set = [data EXCEPT ![Servers] = List(n + 1)]
  OBVIOUS
<1>6. PICK M : M = N \cup {<<Servers, List(n + 1)>>}
  OBVIOUS
<1>7. Servers \in DOMAIN data /\ data[Servers] = List(n) /\ IsTree(set, M)
  BY <1>4, <1>5, <1>6, SetNode
<1>8. <<"servers", n + 1>> \notin Heads(M)
  <2>1. Heads({<<Servers, List(n + 1)>>}) \subseteq {<<"servers", 0>>}
    BY <1>2 DEF Heads
  <2>2. <<"servers", n + 1>> # <<"servers", 0>>
    BY SiteApart
  <2> QED
    BY <1>6, <2>1, <2>2, HeadsBoth
<1>9. \A x \in M : x[1] \in Paths
  BY <1>1, <1>2, <1>6
<1>10. Free(M, site)
  BY <1>3, <1>8, <1>9, FreeHead
<1>11. PICK more : more = Put(set, site, Map)
  OBVIOUS
<1>12. PICK L : L = M \cup {<<site, Map>>}
  OBVIOUS
<1>13. IsTree(more, L)
  BY <1>3, <1>7, <1>10, <1>11, <1>12, PutFree
<1>14. Free(L, Child(site, key)) /\ Child(site, key) \in Paths
  <2>1. Free(M, Child(site, key))
    BY <1>3, <1>9, <1>10, FreeBelow
  <2>2. ~IsPrefix(Child(site, key), site)
    BY <1>3, BelowChild
  <2>3. Free({<<site, Map>>}, Child(site, key))
    BY <2>2 DEF Free
  <2>4. Child(site, key) \in Paths
    BY <1>3, ChildPath
  <2> QED
    BY <1>12, <2>1, <2>3, <2>4, FreeBoth
<1>15. IsTree(Put(more, Child(site, key), v), L \cup {<<Child(site, key), v>>})
  BY <1>13, <1>14, PutFree
<1> QED
  BY <1>5, <1>6, <1>7, <1>9, <1>10, <1>11, <1>12, <1>15

(* A site is read.                                                         *)
LEMMA SiteRead ==
    ASSUME NEW lines, NEW state, NEW fs, NEW i, NEW w, NEW n, NEW N,
           SiteReady(lines, state, fs, i, w, n, N)
    PROVE  SiteDone(state[i + Len(Site(fs, w))], fs, w, n + 1, N)
<1>1. /\ lines \in Seq(AnyLine) /\ Reads(lines, state) /\ w \in Nat /\ w >= 2 /\ n \in Nat
      /\ Holds(lines, i, Site(fs, w)) /\ Level(state[i], w, <<Root>>, Opened)
      /\ IsTree(state[i].data, N \cup {<<Servers, List(n)>>})
      /\ <<"servers", 0>> \notin Heads(N) /\ <<"servers", n + 1>> \notin Heads(N)
  BY DEF SiteReady
<1>2. /\ fs \in Seq(Fields) /\ Len(fs) >= 2 /\ fs # <<>> /\ Distinct(fs)
      /\ DOMAIN fs = 1 .. Len(fs) /\ Len(fs) \in Nat /\ fs[1].val.t = "str"
      /\ \A k \in 1 .. Len(fs) : Sound(fs[k]) /\ (fs[k].sub = <<>> \/ w = 2)
  BY DEF SiteReady, SoundSite
<1>3. PICK f \in Fields : f = fs[1]
  BY <1>2
<1>4. f.key \in Keys /\ f.val \in Values /\ f.val.t = "str" /\ Sound(f) /\ f.sub = <<>>
  <2>1. 1 \in 1 .. Len(fs)
    BY <1>2
  <2>2. Sound(f) /\ f.val.t = "str"
    BY <1>2, <1>3, <2>1
  <2>3. f.val # Map
    BY <2>2, Kinds
  <2> QED
    BY <2>2, <2>3, FieldTyped DEF Sound
<1>5. PICK rest : rest = Tail(fs)
  OBVIOUS
<1>6. /\ rest \in Seq(Fields) /\ Len(rest) = Len(fs) - 1 /\ Len(rest) \in Nat \ {0}
      /\ \A k \in 1 .. Len(rest) : rest[k] = fs[k + 1] /\ k + 1 \in 2 .. Len(fs)
  BY <1>2, <1>5, TailTyped
<1>7. PICK one, text : one = <<Line(w, "item", f)>> /\ text = Entries(rest, w + 2, w)
  OBVIOUS
<1>8. /\ one \in Seq(AnyLine) /\ text \in Seq(AnyLine) /\ Site(fs, w) = one \o text
      /\ Len(one) = 1 /\ one[1] = Line(w, "item", f)
  BY <1>1, <1>2, <1>3, <1>5, <1>7, SiteTyped
<1>9. Holds(lines, i, one) /\ Holds(lines, i + 1, text) /\ i + Len(Site(fs, w)) = i + 1 + Len(text)
  <2>1. Holds(lines, i, one \o text)
    BY <1>1, <1>8
  <2>2. /\ Holds(lines, i, one) /\ Holds(lines, i + Len(one), text)
        /\ i + Len(one) + Len(text) = i + Len(one \o text)
    <3>1. lines \in Seq(AnyLine) /\ one \in Seq(AnyLine) /\ text \in Seq(AnyLine)
      BY <1>1, <1>8
    <3> QED
      BY <2>1, <3>1, Halves
  <2> QED
    BY <1>8, <2>2
<1>10. PICK k, s, data, site : k = i + 1 /\ s = state[i] /\ data = s.data /\ site = SiteAt(n + 1)
  OBVIOUS
<1>11. /\ i \in Nat /\ k \in 1 .. Len(lines) /\ k - 1 = i /\ lines[k] = Line(w, "item", f)
       /\ state[k] = Step(lines, s, k)
  <2>1. i \in Nat /\ i + 1 <= Len(lines) /\ Len(lines) \in Nat /\ lines[i + 1] = one[1]
    BY <1>1, <1>8, <1>9 DEF Holds
  <2>2. k \in 1 .. Len(lines) /\ k - 1 = i
    BY <1>10, <2>1
  <2> QED
    BY <1>1, <1>8, <1>10, <2>1, <2>2 DEF Reads
<1>12. PICK path, new, M :
         /\ path = Child(site, f.key)
         /\ new = Put(Put([data EXCEPT ![Servers] = List(n + 1)], site, Map), path, f.val)
         /\ M = N \cup {<<Servers, List(n + 1)>>} \cup {<<site, Map>>} \cup {<<path, f.val>>}
  OBVIOUS
<1>13. /\ Servers \in DOMAIN data /\ data[Servers] = List(n)
       /\ Free(N \cup {<<Servers, List(n + 1)>>}, site)
       /\ \A x \in N \cup {<<Servers, List(n + 1)>>} : x[1] \in Paths
       /\ IsTree(new, M)
  <2>1. PICK key, v : key \in Keys /\ key = f.key /\ v = f.val
    BY <1>4
  <2>2. IsTree(data, N \cup {<<Servers, List(n)>>}) /\ n \in Nat
    BY <1>1, <1>10
  <2>4. /\ <<"servers", 0>> \notin Heads(N) /\ <<"servers", n + 1>> \notin Heads(N)
        /\ site = SiteAt(n + 1) /\ key \in Keys
    BY <1>1, <1>10, <2>1
  <2>3. /\ Servers \in DOMAIN data /\ data[Servers] = List(n)
        /\ Free(N \cup {<<Servers, List(n + 1)>>}, site)
        /\ \A x \in N \cup {<<Servers, List(n + 1)>>} : x[1] \in Paths
        /\ IsTree(Put(Put([data EXCEPT ![Servers] = List(n + 1)], site, Map), Child(site, key), v),
                  N \cup {<<Servers, List(n + 1)>>} \cup {<<site, Map>>} \cup {<<Child(site, key), v>>})
    BY <2>2, <2>4, ItemTree
  <2> QED
    BY <1>12, <2>1, <2>3
<1>14. PICK stack : stack = <<Root, To(site)>>
  OBVIOUS
<1>15. state[k] = Parsed(new, stack, w, Opened)
  <2>1. Level(s, w, <<Root>>, Opened) /\ Servers \in DOMAIN s.data /\ s.data[Servers] = List(n)
    BY <1>1, <1>10, <1>13
  <2>2. Step(lines, s, k) =
          Parsed(Put(Put([s.data EXCEPT ![Servers] = List(n + 1)], SiteAt(n + 1), Map),
                     Child(SiteAt(n + 1), f.key), f.val),
                 <<Root, To(SiteAt(n + 1))>>, w, Opened)
    <3>1. ItemReady(lines, k, s, n, w, f)
      BY <1>1, <1>4, <1>11, <2>1 DEF ItemReady
    <3> QED
      BY <3>1, ItemStep
  <2> QED
    BY <1>10, <1>11, <1>12, <1>14, <2>2
<1>16. site \in Paths /\ Len(site) = 1 /\ site[1] = <<"servers", n + 1>>
  <2>1. n + 1 \in Nat
    BY <1>1
  <2> QED
    BY <1>10, <2>1, SitePath
<1>17. PICK in : in = w + 2
  OBVIOUS
<1>18. Place(site, in, stack, Opened)
  <2>1. Root \in Pointers /\ To(site) \in Pointers
    BY <1>16 DEF Root, To, Pointers, Paths
  <2>2. stack \in Seq(Pointers) /\ Len(stack) = 2 /\ stack[2] = To(site) /\ stack # <<>>
    BY <1>14, <2>1
  <2>3. Last(stack) = To(site)
    BY <2>2 DEF Last
  <2> QED
    BY <1>1, <1>16, <1>17, <2>2, <2>3 DEF Place
<1>19. Level(state[k], in, stack, Opened) /\ state[k].data = new
  <2>1. in \in Nat /\ w <= in
    BY <1>1, <1>17
  <2>2. Level(Parsed(new, stack, w, Opened), in, stack, Opened)
    BY <1>1, <2>1, LevelHere
  <2>3. Parsed(new, stack, w, Opened).data = new
    BY DEF Parsed
  <2> QED
    BY <1>15, <2>2, <2>3
<1>20. ASSUME NEW j \in 1 .. Len(rest)
       PROVE  /\ Sound(rest[j]) /\ (rest[j].sub = <<>> \/ w = 2)
              /\ Free(M, Child(site, rest[j].key))
  <2>1. PICK g \in Fields : g = rest[j]
    BY <1>6
  <2>2. j + 1 \in 1 .. Len(fs) /\ 1 \in 1 .. Len(fs) /\ j + 1 # 1 /\ g = fs[j + 1]
    BY <1>2, <1>6, <2>1
  <2>3. Sound(g) /\ (g.sub = <<>> \/ w = 2) /\ g.key # f.key
    BY <1>2, <1>3, <2>2 DEF Distinct
  <2>4. PICK key \in Keys, own \in Keys : key = g.key /\ own = f.key
    BY <1>4, FieldTyped
  <2>5. Free(N \cup {<<Servers, List(n + 1)>>}, Child(site, key))
    BY <1>13, <1>16, FreeBelow
  <2>6. ~IsPrefix(Child(site, key), site) /\ ~IsPrefix(Child(site, key), Child(site, own))
    <3>1. key # own
      BY <2>3, <2>4
    <3> QED
      BY <1>16, <3>1, BelowChild, ChildApart
  <2>7. Free({<<site, Map>>}, Child(site, key)) /\ Free({<<path, f.val>>}, Child(site, key))
    BY <1>12, <2>4, <2>6 DEF Free
  <2>8. Free(M, Child(site, key))
    BY <1>12, <2>5, <2>7, FreeBoth
  <2> QED
    BY <2>1, <2>3, <2>4, <2>8
<1>21. Distinct(rest)
  <2> SUFFICES ASSUME NEW j \in DOMAIN rest, NEW l \in DOMAIN rest, rest[j].key = rest[l].key
               PROVE  j = l
    BY DEF Distinct
  <2>1. j \in 1 .. Len(rest) /\ l \in 1 .. Len(rest)
    BY <1>6
  <2>2. /\ rest[j] = fs[j + 1] /\ rest[l] = fs[l + 1]
        /\ j + 1 \in DOMAIN fs /\ l + 1 \in DOMAIN fs
    BY <1>2, <1>6, <2>1
  <2>3. j + 1 = l + 1
    BY <1>2, <2>2 DEF Distinct
  <2> QED
    BY <2>1, <2>3
<1>22. EntriesReady(lines, state, k, rest, in, w, stack, Opened, site, M)
  <2>1. Holds(lines, k, Entries(rest, in, w)) /\ IsTree(state[k].data, M)
    BY <1>7, <1>9, <1>10, <1>13, <1>17, <1>19
  <2> QED
    BY <1>1, <1>6, <1>18, <1>19, <1>20, <1>21, <2>1 DEF EntriesReady
<1>23. PICK t : t = state[i + Len(Site(fs, w))]
  OBVIOUS
<1>24. EntriesDone(t, rest, Len(rest), in, w, stack, Opened, site, M)
  <2>1. i + Len(Site(fs, w)) = k + Len(Entries(rest, in, w))
    BY <1>7, <1>9, <1>10, <1>17
  <2> QED
    BY <1>22, <1>23, <2>1, EntriesRead
<1>25. Back(t, w + 2, w, <<Root, To(site)>>, Opened) /\ IsTree(t.data, M \cup Nodes(site, rest, Len(rest)))
  BY <1>6, <1>14, <1>17, <1>24 DEF EntriesDone
<1>26. Level(t, w, <<Root>>, Opened) /\ Level(t, 0, <<Root>>, <<>>)
  BY <1>1, <1>16, <1>25, SiteLeft
<1>27. Nodes(site, fs, Len(fs)) = {<<path, f.val>>} \cup Nodes(site, rest, Len(rest))
  <2>1. EntryNodes(site, f) = {<<path, f.val>>}
    <3>1. Len(f.sub) = 0
      BY <1>4
    <3> QED
      BY <1>12, <3>1 DEF EntryNodes, SubNodes
  <2>2. Nodes(site, fs, Len(fs)) =
          EntryNodes(site, fs[1]) \cup UNION {EntryNodes(site, fs[j]) : j \in 2 .. Len(fs)}
    <3>1. 1 .. Len(fs) = {1} \cup (2 .. Len(fs))
      BY <1>2
    <3> QED
      BY <3>1 DEF Nodes
  <2>3. {EntryNodes(site, fs[j]) : j \in 2 .. Len(fs)} = {EntryNodes(site, rest[j]) : j \in 1 .. Len(rest)}
    <3>1. ASSUME NEW j \in 2 .. Len(fs)
          PROVE  \E l \in 1 .. Len(rest) : EntryNodes(site, fs[j]) = EntryNodes(site, rest[l])
      <4>1. j - 1 \in 1 .. Len(rest) /\ (j - 1) + 1 = j
        BY <1>2, <1>6
      <4>2. rest[j - 1] = fs[j]
        BY <1>6, <4>1
      <4> QED
        BY <4>1, <4>2
    <3>2. ASSUME NEW j \in 1 .. Len(rest)
          PROVE  \E l \in 2 .. Len(fs) : EntryNodes(site, rest[j]) = EntryNodes(site, fs[l])
      BY <1>6
    <3>3. \A x \in {EntryNodes(site, fs[j]) : j \in 2 .. Len(fs)} :
             x \in {EntryNodes(site, rest[j]) : j \in 1 .. Len(rest)}
      BY ONLY <3>1, Zenon
    <3>4. \A x \in {EntryNodes(site, rest[j]) : j \in 1 .. Len(rest)} :
             x \in {EntryNodes(site, fs[j]) : j \in 2 .. Len(fs)}
      BY ONLY <3>2, Zenon
    <3> QED
      BY ONLY <3>3, <3>4, Zenon
  <2> QED
    BY <1>3, <2>1, <2>2, <2>3 DEF Nodes
<1>28. M \cup Nodes(site, rest, Len(rest)) = N \cup SiteNodes(n + 1, fs) \cup {<<Servers, List(n + 1)>>}
  BY <1>10, <1>12, <1>27 DEF SiteNodes
<1> QED
  BY <1>23, <1>25, <1>26, <1>28 DEF SiteDone

(* What the first n sites add to the tree.                                 *)
AllSites(sites, n) == UNION {SiteNodes(k, sites[k]) : k \in 1 .. n}

(* The sites begin with themselves.                                        *)
LEMMA HeadsSites ==
    ASSUME NEW sites, NEW n \in Nat, NEW w, \A k \in 1 .. n : SoundSite(sites[k], w)
    PROVE  Heads(AllSites(sites, n)) \subseteq {<<"servers", k>> : k \in 1 .. n}
<1>1. ASSUME NEW k \in 1 .. n PROVE Heads(SiteNodes(k, sites[k])) \subseteq {<<"servers", k>>}
  <2>1. PICK site, fs : site = SiteAt(k) /\ fs = sites[k]
    OBVIOUS
  <2>2. k \in Nat
    OBVIOUS
  <2>3. site \in Paths /\ Len(site) = 1 /\ site[1] = <<"servers", k>>
    BY <2>1, <2>2, SitePath
  <2>4. fs \in Seq(Fields) /\ \A j \in 1 .. Len(fs) : Sound(fs[j])
    BY <2>1 DEF SoundSite
  <2>5. Heads(Nodes(site, fs, Len(fs))) \subseteq {<<"servers", k>>}
    BY <2>3, <2>4, HeadsBelow
  <2>6. Heads({<<site, Map>>}) \subseteq {<<"servers", k>>}
    BY <2>3 DEF Heads
  <2>7. SiteNodes(k, sites[k]) = {<<site, Map>>} \cup Nodes(site, fs, Len(fs))
    BY <2>1 DEF SiteNodes
  <2> QED
    BY <2>5, <2>6, <2>7, HeadsBoth
<1> SUFFICES ASSUME NEW x \in AllSites(sites, n), x[1] # <<>>
             PROVE  x[1][1] \in {<<"servers", k>> : k \in 1 .. n}
  BY DEF Heads
<1>2. PICK k \in 1 .. n : x \in SiteNodes(k, sites[k])
  BY DEF AllSites
<1>3. x[1][1] \in Heads(SiteNodes(k, sites[k]))
  BY <1>2 DEF Heads
<1> QED
  BY <1>1, <1>3

(* The sites of a document.                                                *)
Sites == Seq(Seq(Fields) \ {<<>>})

(* Sites are written one after another.                                    *)
LEMMA SitesTyped ==
    ASSUME NEW sites \in Sites, NEW w \in Nat
    PROVE  LET ss == [k \in DOMAIN sites |-> Site(sites[k], w)]
           IN  /\ ss \in Seq(Seq(AnyLine)) /\ Len(ss) = Len(sites) /\ Len(sites) \in Nat
               /\ \A k \in 1 .. Len(sites) : ss[k] = Site(sites[k], w)
               /\ FlattenSeq(ss) \in Seq(AnyLine)
<1> DEFINE ss == [k \in DOMAIN sites |-> Site(sites[k], w)]
<1>1. ASSUME NEW k \in 1 .. Len(sites) PROVE Site(sites[k], w) \in Seq(AnyLine)
  <2>1. PICK fs : fs = sites[k]
    OBVIOUS
  <2>2. fs \in Seq(Fields) /\ fs # <<>>
    BY <2>1 DEF Sites
  <2> QED
    BY <2>1, <2>2, SiteTyped
<1>2. DOMAIN sites = 1 .. Len(sites) /\ Len(sites) \in Nat
  BY DEF Sites
<1>3. /\ ss \in Seq(Seq(AnyLine)) /\ Len(ss) = Len(sites)
      /\ \A k \in 1 .. Len(sites) : ss[k] = Site(sites[k], w)
  BY <1>1, <1>2
<1> HIDE DEF ss
<1>4. PICK flat : Flat(ss, flat) /\ \A n \in 0 .. Len(ss) : flat[n] \in Seq(AnyLine)
  BY <1>3, Flattening
<1>5. Len(ss) \in 0 .. Len(ss) /\ flat[Len(ss)] = FlattenSeq(ss)
  BY <1>2, <1>3, <1>4 DEF Flat
<1>6. FlattenSeq(ss) \in Seq(AnyLine)
  BY <1>4, <1>5
<1> QED
  BY <1>2, <1>3, <1>6 DEF ss

(* The reader comes to the sites; it has read n of them.                   *)
SitesReady(lines, state, i, sites, w, N) ==
    /\ lines \in Seq(AnyLine) /\ Reads(lines, state) /\ w \in Nat /\ w >= 2 /\ sites \in Sites
    /\ Holds(lines, i, FlattenSeq([k \in DOMAIN sites |-> Site(sites[k], w)]))
    /\ \A k \in 1 .. Len(sites) : SoundSite(sites[k], w)
    /\ Level(state[i], w, <<Root>>, Opened)
    /\ IsTree(state[i].data, N \cup {<<Servers, List(0)>>})
    /\ \A k \in Nat : <<"servers", k>> \notin Heads(N)

SitesDone(s, sites, n, w, N) ==
    /\ Level(s, w, <<Root>>, Opened) /\ (n # 0 => Level(s, 0, <<Root>>, <<>>))
    /\ IsTree(s.data, N \cup AllSites(sites, n) \cup {<<Servers, List(n)>>})

(* Sites are read, and the list is as long as they are many.               *)
LEMMA SitesRead ==
    ASSUME NEW lines, NEW state, NEW i, NEW sites, NEW w, NEW N,
           SitesReady(lines, state, i, sites, w, N)
    PROVE  SitesDone(state[i + Len(FlattenSeq([k \in DOMAIN sites |-> Site(sites[k], w)]))],
                     sites, Len(sites), w, N)
<1>1. /\ lines \in Seq(AnyLine) /\ Reads(lines, state) /\ w \in Nat /\ w >= 2 /\ sites \in Sites
      /\ \A k \in 1 .. Len(sites) : SoundSite(sites[k], w)
      /\ Level(state[i], w, <<Root>>, Opened)
      /\ IsTree(state[i].data, N \cup {<<Servers, List(0)>>})
      /\ \A k \in Nat : <<"servers", k>> \notin Heads(N)
  BY DEF SitesReady
<1>2. PICK ss : ss = [k \in DOMAIN sites |-> Site(sites[k], w)]
  OBVIOUS
<1>3. /\ ss \in Seq(Seq(AnyLine)) /\ Len(ss) = Len(sites) /\ Len(sites) \in Nat
      /\ \A k \in 1 .. Len(sites) : ss[k] = Site(sites[k], w)
  BY <1>1, <1>2, SitesTyped
<1>4. PICK from : Parts(lines, i, ss, from)
  <2>1. Holds(lines, i, FlattenSeq(ss))
    BY <1>2 DEF SitesReady
  <2> QED
    BY <1>1, <1>3, <2>1, HoldsParts
<1>5. /\ from[0] = i /\ from[Len(sites)] = i + Len(FlattenSeq(ss))
      /\ \A n \in 1 .. Len(sites) : /\ from[n] = from[n - 1] + Len(Site(sites[n], w))
                                    /\ Holds(lines, from[n - 1], Site(sites[n], w))
  BY <1>3, <1>4 DEF Parts
<1> DEFINE Good(n) == SitesDone(state[from[n]], sites, n, w, N)
           T == {n \in Nat : n <= Len(sites) => Good(n)}
<1>6. 0 \in T
  <2>1. AllSites(sites, 0) = {}
    BY DEF AllSites
  <2>2. N \cup {} = N
    OBVIOUS
  <2>3. Good(0)
    BY <1>1, <1>5, <2>1, <2>2 DEF SitesDone
  <2> HIDE DEF Good
  <2> QED
    BY <2>3
<1>7. ASSUME NEW n \in Nat, n \in T PROVE n + 1 \in T
  <2> HIDE DEF Good
  <2> SUFFICES ASSUME n + 1 <= Len(sites) PROVE Good(n + 1)
    OBVIOUS
  <2>1. Good(n)
    BY <1>3, <1>7
  <2>2. PICK k, fs, s, M : /\ k = n + 1 /\ fs = sites[n + 1] /\ s = state[from[n]]
                           /\ M = N \cup AllSites(sites, n)
    OBVIOUS
  <2>3. Level(s, w, <<Root>>, Opened) /\ IsTree(s.data, M \cup {<<Servers, List(n)>>})
    BY <2>1, <2>2 DEF Good, SitesDone
  <2>4. k \in 1 .. Len(sites) /\ k - 1 = n /\ k # 0 /\ k \in Nat
    BY <1>3, <2>2
  <2>5. /\ from[k] = from[n] + Len(Site(fs, w)) /\ Holds(lines, from[n], Site(fs, w))
        /\ SoundSite(fs, w)
    BY <1>1, <1>5, <2>2, <2>4
  <2>6. ASSUME NEW j \in Nat, j = 0 \/ j = n + 1 PROVE <<"servers", j>> \notin Heads(M)
    <3>1. \A l \in 1 .. n : SoundSite(sites[l], w)
      BY <1>1, <1>3
    <3>2. Heads(AllSites(sites, n)) \subseteq {<<"servers", l>> : l \in 1 .. n}
      BY <3>1, HeadsSites
    <3>3. ASSUME NEW l \in 1 .. n PROVE <<"servers", j>> # <<"servers", l>>
      <4>1. j # l
        BY <2>6
      <4> QED
        BY <4>1, SiteApart
    <3>4. <<"servers", j>> \notin Heads(N)
      BY <1>1
    <3> QED
      BY <2>2, <3>2, <3>3, <3>4, HeadsBoth
  <2>7. SiteReady(lines, state, fs, from[n], w, n, M)
    <3>1. <<"servers", 0>> \notin Heads(M) /\ <<"servers", n + 1>> \notin Heads(M)
      BY <2>6
    <3> QED
      BY <1>1, <2>2, <2>3, <2>5, <3>1 DEF SiteReady
  <2>8. PICK t : t = state[from[k]]
    OBVIOUS
  <2>9. SiteDone(t, fs, w, k, M)
    BY <2>2, <2>5, <2>7, <2>8, SiteRead
  <2>10. AllSites(sites, k) = AllSites(sites, n) \cup SiteNodes(k, fs)
    <3>1. 1 .. k = (1 .. n) \cup {k} /\ sites[k] = fs
      BY <2>2
    <3> QED
      BY <3>1 DEF AllSites
  <2>11. M \cup SiteNodes(k, fs) = N \cup AllSites(sites, k)
    BY <2>2, <2>10
  <2>12. SitesDone(t, sites, k, w, N)
    BY <2>9, <2>11 DEF SiteDone, SitesDone
  <2> QED
    BY <2>2, <2>8, <2>12 DEF Good
<1>8. Nat \subseteq T
  <2> HIDE DEF T
  <2> QED
    BY <1>6, <1>7, Induction
<1>9. Good(Len(sites))
  <2> HIDE DEF Good
  <2> QED
    BY <1>3, <1>8
<1> QED
  BY <1>2, <1>5, <1>9

-----------------------------------------------------------------------------
(* Documents.                                                              *)

(* What Proper says of fields, one by one.                                 *)
LEMMA ProperSound ==
    ASSUME NEW fs \in Seq(Fields), Proper(fs)
    PROVE  Distinct(fs) /\ \A k \in 1 .. Len(fs) : Sound(fs[k])
<1>1. ASSUME NEW k \in 1 .. Len(fs) PROVE Sound(fs[k])
  <2>1. PICK f \in Fields : f = fs[k]
    OBVIOUS
  <2>2. f \in Range(fs)
    BY <2>1 DEF Range
  <2>3. /\ Literal(f.val) /\ (f.val = Map <=> f.sub # <<>>) /\ Distinct(f.sub)
        /\ \A g \in Range(f.sub) : Plain(g.val)
    BY <2>2 DEF Proper, Plain
  <2>4. DOMAIN f.sub = 1 .. Len(f.sub)
    BY FieldTyped
  <2>5. \A j \in 1 .. Len(f.sub) : Plain(f.sub[j].val)
    BY <2>3, <2>4 DEF Range
  <2> QED
    BY <2>1, <2>3, <2>5 DEF Sound
<1> QED
  BY <1>1 DEF Proper

(* Keys that differ throughout differ within either half, and between      *)
(* them.                                                                   *)
LEMMA DistinctHalves ==
    ASSUME NEW s \in Seq(Fields), NEW t \in Seq(Fields), Distinct(s \o t)
    PROVE  /\ Distinct(s) /\ Distinct(t)
           /\ \A j \in 1 .. Len(s), k \in 1 .. Len(t) : s[j].key # t[k].key
<1>1. /\ DOMAIN (s \o t) = 1 .. Len(s) + Len(t) /\ Len(s) \in Nat /\ Len(t) \in Nat
      /\ DOMAIN s = 1 .. Len(s) /\ DOMAIN t = 1 .. Len(t)
      /\ \A k \in 1 .. Len(s) : (s \o t)[k] = s[k]
      /\ \A k \in 1 .. Len(t) : (s \o t)[Len(s) + k] = t[k]
  OBVIOUS
<1>2. ASSUME NEW j \in 1 .. Len(s), NEW k \in 1 .. Len(s), s[j].key = s[k].key PROVE j = k
  <2>1. j \in DOMAIN (s \o t) /\ k \in DOMAIN (s \o t)
    BY <1>1
  <2> QED
    BY <1>1, <1>2, <2>1 DEF Distinct
<1>3. ASSUME NEW j \in 1 .. Len(t), NEW k \in 1 .. Len(t), t[j].key = t[k].key PROVE j = k
  <2>1. Len(s) + j \in DOMAIN (s \o t) /\ Len(s) + k \in DOMAIN (s \o t)
    BY <1>1
  <2>2. Len(s) + j = Len(s) + k
    BY <1>1, <1>3, <2>1 DEF Distinct
  <2> QED
    BY <1>1, <2>2
<1>4. ASSUME NEW j \in 1 .. Len(s), NEW k \in 1 .. Len(t) PROVE s[j].key # t[k].key
  <2>1. j \in DOMAIN (s \o t) /\ Len(s) + k \in DOMAIN (s \o t) /\ j # Len(s) + k
    BY <1>1
  <2> QED
    BY <1>1, <2>1 DEF Distinct
<1> QED
  BY <1>1, <1>2, <1>3, <1>4 DEF Distinct

(* What Regular says of the parts of a document.                           *)
SoundDoc(d) ==
    /\ d.before \in Seq(Fields) /\ d.after \in Seq(Fields) /\ d.sites \in Sites
    /\ d.width \in Nat /\ d.width >= 2
    /\ Distinct(d.before) /\ Distinct(d.after)
    /\ \A k \in 1 .. Len(d.before) : Sound(d.before[k])
    /\ \A k \in 1 .. Len(d.after) : Sound(d.after[k])
    /\ \A j \in 1 .. Len(d.before), k \in 1 .. Len(d.after) : d.before[j].key # d.after[k].key
    /\ d.sites # <<>> => /\ \A k \in 1 .. Len(d.before) : d.before[k].key # "servers"
                         /\ \A k \in 1 .. Len(d.after) : d.after[k].key # "servers"
    /\ \A k \in 1 .. Len(d.sites) : SoundSite(d.sites[k], d.width)

(* What Regular says of a document, part by part.                          *)
LEMMA RegularSound ==
    ASSUME NEW d \in Documents, Regular(d)
    PROVE  SoundDoc(d)
<1>1. PICK s, t, sites, w : s = d.before /\ t = d.after /\ sites = d.sites /\ w = d.width
  OBVIOUS
<1>2. s \in Seq(Fields) /\ t \in Seq(Fields) /\ sites \in Sites /\ w \in Nat /\ w >= 2
  BY <1>1 DEF Documents, Sites, Regular
<1>3. s \o t \in Seq(Fields) /\ Proper(s \o t)
  BY <1>1, <1>2 DEF Regular
<1>4. Distinct(s \o t) /\ \A k \in 1 .. Len(s \o t) : Sound((s \o t)[k])
  BY <1>3, ProperSound
<1>5. /\ Distinct(s) /\ Distinct(t)
      /\ \A j \in 1 .. Len(s), k \in 1 .. Len(t) : s[j].key # t[k].key
  BY <1>2, <1>4, DistinctHalves
<1>6. /\ \A k \in 1 .. Len(s) : (s \o t)[k] = s[k] /\ k \in 1 .. Len(s \o t)
      /\ \A k \in 1 .. Len(t) : (s \o t)[Len(s) + k] = t[k] /\ Len(s) + k \in 1 .. Len(s \o t)
      /\ DOMAIN (s \o t) = 1 .. Len(s \o t)
  BY <1>2
<1>7. /\ \A k \in 1 .. Len(s) : Sound(s[k]) /\ s[k] \in Range(s \o t)
      /\ \A k \in 1 .. Len(t) : Sound(t[k]) /\ t[k] \in Range(s \o t)
  BY <1>4, <1>6 DEF Range
<1>8. sites # <<>> => \A f \in Range(s \o t) : f.key # "servers"
  BY <1>1 DEF Regular
<1>9. ASSUME NEW k \in 1 .. Len(sites) PROVE SoundSite(sites[k], w)
  <2>1. PICK fs : fs = sites[k]
    OBVIOUS
  <2>2. fs \in Seq(Fields) /\ DOMAIN sites = 1 .. Len(sites)
    BY <1>2, <2>1 DEF Sites
  <2>3. fs \in Range(d.sites)
    BY <1>1, <2>1, <2>2 DEF Range
  <2>4. /\ Proper(fs) /\ Len(fs) >= 2 /\ fs[1].val.t = "str"
        /\ w = 2 \/ \A f \in Range(fs) : f.sub = <<>>
    BY <1>1, <2>3 DEF Regular
  <2>5. Distinct(fs) /\ \A j \in 1 .. Len(fs) : Sound(fs[j])
    BY <2>2, <2>4, ProperSound
  <2>6. \A j \in 1 .. Len(fs) : fs[j] \in Range(fs)
    BY <2>2 DEF Range
  <2> QED
    BY <2>1, <2>2, <2>4, <2>5, <2>6 DEF SoundSite
<1> QED
  BY <1>1, <1>2, <1>5, <1>7, <1>8, <1>9 DEF SoundDoc

(* The fields of a document, from one line on.                             *)
TopReady(lines, state, i, fs, w, N) ==
    /\ lines \in Seq(AnyLine) /\ Reads(lines, state) /\ fs \in Seq(Fields) /\ w \in Nat /\ w >= 2
    /\ Holds(lines, i, Entries(fs, 0, w)) /\ Level(state[i], 0, <<Root>>, <<>>)
    /\ IsTree(state[i].data, N) /\ Distinct(fs)
    /\ \A k \in 1 .. Len(fs) : Sound(fs[k]) /\ <<fs[k].key, 0>> \notin Heads(N)

(* They are read, and the reader is in the outermost map again.            *)
LEMMA TopRead ==
    ASSUME NEW lines, NEW state, NEW i, NEW fs, NEW w, NEW N, TopReady(lines, state, i, fs, w, N)
    PROVE  LET s == state[i + Len(Entries(fs, 0, w))]
           IN  Level(s, 0, <<Root>>, <<>>) /\ IsTree(s.data, N \cup Nodes(<<>>, fs, Len(fs)))
<1>0. /\ lines \in Seq(AnyLine) /\ Reads(lines, state) /\ fs \in Seq(Fields) /\ w \in Nat /\ w >= 2
      /\ Holds(lines, i, Entries(fs, 0, w)) /\ Level(state[i], 0, <<Root>>, <<>>)
      /\ IsTree(state[i].data, N) /\ Distinct(fs)
      /\ \A k \in 1 .. Len(fs) : Sound(fs[k]) /\ <<fs[k].key, 0>> \notin Heads(N)
  BY DEF TopReady
<1>1. PICK e, stack : e = <<>> /\ stack = <<Root>>
  OBVIOUS
<1>2. e \in Paths /\ Len(e) = 0
  BY <1>1 DEF Paths
<1>3. Place(e, 0, stack, <<>>) /\ Len(stack) = 1
  <2>1. Root \in Pointers /\ Root = To(e)
    BY <1>1 DEF Root, To, Pointers, Paths
  <2>2. stack \in Seq(Pointers) /\ Len(stack) = 1 /\ stack[1] = To(e) /\ stack # <<>>
    BY <1>1, <2>1
  <2>3. Last(stack) = To(e)
    BY <2>2 DEF Last
  <2> QED
    BY <1>2, <2>2, <2>3 DEF Place
<1>4. ASSUME NEW k \in 1 .. Len(fs) PROVE Free(N, Child(e, fs[k].key))
  <2>1. PICK f \in Fields : f = fs[k]
    BY <1>0
  <2>2. PICK key \in Keys : key = f.key
    BY FieldTyped
  <2>3. PICK p : p = Child(e, key)
    OBVIOUS
  <2>4. p \in Paths /\ Len(p) = 1 /\ p[1] = <<key, 0>>
    <3>1. /\ Child(e, key) \in Paths /\ Len(Child(e, key)) = Len(e) + 1
          /\ (Len(e) = 0 => Child(e, key)[1] = <<key, 0>>)
      BY <1>2, ChildHead
    <3> QED
      BY <1>2, <2>3, <3>1
  <2>5. \A x \in N : x[1] \in Paths
    BY <1>0, NodePaths
  <2>6. Free(N, p)
    BY <1>0, <2>1, <2>2, <2>4, <2>5, FreeHead
  <2> QED
    BY <2>1, <2>2, <2>3, <2>6
<1>5. EntriesReady(lines, state, i, fs, 0, w, stack, <<>>, e, N)
  <2>1. Level(state[i], 0, stack, <<>>)
    BY <1>0, <1>1
  <2> QED
    BY <1>0, <1>3, <1>4, <2>1 DEF EntriesReady
<1>6. PICK t : t = state[i + Len(Entries(fs, 0, w))]
  OBVIOUS
<1>7. EntriesDone(t, fs, Len(fs), 0, w, stack, <<>>, e, N)
  BY <1>5, <1>6, EntriesRead
<1> QED
  BY <1>1, <1>6, <1>7 DEF EntriesDone

(* In the beginning the reader is in the outermost map, and the tree is    *)
(* nothing else.                                                           *)
LEMMA StartTree ==
    /\ Start = Parsed([p \in {<<>>} |-> Map], <<Root>>, 0, <<>>)
    /\ Level(Start, 0, <<Root>>, <<>>)
    /\ IsTree(Start.data, {<< <<>>, Map >>})
    /\ Heads({<< <<>>, Map >>}) = {}
<1>1. Start = Parsed([p \in {<<>>} |-> Map], <<Root>>, 0, <<>>)
  BY DEF Start, Parsed, Root, To
<1>2. PICK data : data = [p \in {<<>>} |-> Map]
  OBVIOUS
<1>3. Level(Parsed(data, <<Root>>, 0, <<>>), 0, <<Root>>, <<>>)
  BY LevelHere
<1>4. Parsed(data, <<Root>>, 0, <<>>).data = data
  BY DEF Parsed
<1>5. <<>> \in Paths
  BY DEF Paths
<1>6. IsTree(data, {<< <<>>, Map >>})
  BY <1>2, <1>5 DEF IsTree
<1>7. Heads({<< <<>>, Map >>}) = {}
  BY DEF Heads
<1> QED
  BY <1>1, <1>2, <1>3, <1>4, <1>6, <1>7

(* The sites of a document, with the line before them.                     *)
ListReady(lines, state, i, sites, w, head, text, N) ==
    /\ lines \in Seq(AnyLine) /\ Reads(lines, state) /\ sites \in Sites /\ sites # <<>>
    /\ w \in Nat /\ w >= 2 /\ \A k \in 1 .. Len(sites) : SoundSite(sites[k], w)
    /\ head = Entry(Field("servers", Map), 0, w) /\ Holds(lines, i, head)
    /\ text = FlattenSeq([k \in DOMAIN sites |-> Site(sites[k], w)])
    /\ Holds(lines, i + Len(head), text) /\ Level(state[i], 0, <<Root>>, <<>>)
    /\ IsTree(state[i].data, N) /\ \A k \in Nat : <<"servers", k>> \notin Heads(N)

(* They are read, and the reader is in the outermost map again.            *)
LEMMA ListRead ==
    ASSUME NEW lines, NEW state, NEW i, NEW sites, NEW w, NEW head, NEW text, NEW N,
           ListReady(lines, state, i, sites, w, head, text, N)
    PROVE  LET s == state[i + Len(head) + Len(text)]
           IN  /\ Level(s, 0, <<Root>>, <<>>)
               /\ IsTree(s.data, N \cup AllSites(sites, Len(sites)) \cup {<<Servers, List(Len(sites))>>})
<1>0. /\ lines \in Seq(AnyLine) /\ Reads(lines, state) /\ sites \in Sites /\ sites # <<>>
      /\ w \in Nat /\ w >= 2 /\ \A k \in 1 .. Len(sites) : SoundSite(sites[k], w)
      /\ head = Entry(Field("servers", Map), 0, w) /\ Holds(lines, i, head)
      /\ text = FlattenSeq([k \in DOMAIN sites |-> Site(sites[k], w)])
      /\ Holds(lines, i + Len(head), text) /\ Level(state[i], 0, <<Root>>, <<>>)
      /\ IsTree(state[i].data, N) /\ \A k \in Nat : <<"servers", k>> \notin Heads(N)
  BY DEF ListReady
<1>1. PICK f : f = Field("servers", Map)
  OBVIOUS
<1>2. f.key = "servers" /\ f.val = Map /\ f.sub = <<>>
  BY <1>1 DEF Field
<1>3. head = <<Line(0, "key", f)>>
  <2>1. PICK line : line = Line(0, "key", f)
    OBVIOUS
  <2>2. [k \in DOMAIN f.sub |-> Line(0 + w, "key", f.sub[k])] = <<>>
    BY <1>2
  <2>3. <<line>> \o <<>> = <<line>>
    OBVIOUS
  <2>4. head = <<Line(0, "key", f)>> \o [k \in DOMAIN f.sub |-> Line(0 + w, "key", f.sub[k])]
    BY <1>0, <1>1 DEF Entry
  <2> QED
    BY <2>1, <2>2, <2>3, <2>4
<1>4. Len(head) = 1 /\ head[1] = Line(0, "key", f)
  BY <1>3
<1>5. PICK k, s : k = i + 1 /\ s = state[i]
  OBVIOUS
<1>6. /\ i \in Nat /\ Len(lines) \in Nat /\ k \in 1 .. Len(lines) /\ k - 1 = i
      /\ lines[k] = Line(0, "key", f) /\ Holds(lines, k, text)
  <2>1. i \in Nat /\ i + 1 <= Len(lines) /\ Len(lines) \in Nat /\ lines[i + 1] = head[1]
    <3>1. /\ i \in Nat /\ i + Len(head) <= Len(lines)
          /\ \A j \in 1 .. Len(head) : lines[i + j] = head[j]
      BY <1>0 DEF Holds
    <3>2. Len(lines) \in Nat
      OBVIOUS
    <3>3. 1 \in 1 .. Len(head)
      BY <1>4
    <3> QED
      BY <1>4, <3>1, <3>2, <3>3
  <2>2. Holds(lines, k, text)
    BY <1>0, <1>4, <1>5
  <2>3. k \in 1 .. Len(lines) /\ k - 1 = i
    BY <1>5, <2>1
  <2> QED
    BY <1>4, <1>5, <2>1, <2>2, <2>3
<1>7. PICK ss : ss = [j \in DOMAIN sites |-> Site(sites[j], w)]
  OBVIOUS
<1>8. /\ ss \in Seq(Seq(AnyLine)) /\ Len(ss) = Len(sites) /\ Len(sites) \in Nat \ {0}
      /\ \A j \in 1 .. Len(sites) : ss[j] = Site(sites[j], w)
      /\ text = FlattenSeq(ss)
  <2>1. Len(sites) # 0
    BY <1>0 DEF Sites
  <2> QED
    BY <1>0, <1>7, <2>1, SitesTyped
<1>9. k < Len(lines) /\ lines[k + 1].kind = "item"
  <2>1. PICK from : Parts(lines, k, ss, from)
    BY <1>0, <1>6, <1>8, HoldsParts
  <2>2. Holds(lines, k, Site(sites[1], w))
    <3>1. 1 \in 1 .. Len(ss) /\ ss[1] = Site(sites[1], w) /\ 1 - 1 = 0
      BY <1>8
    <3> QED
      BY <2>1, <3>1 DEF Parts
  <2>3. PICK fs : fs = sites[1]
    OBVIOUS
  <2>4. fs \in Seq(Fields) /\ fs # <<>>
    BY <1>0, <1>8, <2>3 DEF Sites
  <2>5. PICK one, rest : one = <<Line(w, "item", fs[1])>> /\ rest = Entries(Tail(fs), w + 2, w)
    OBVIOUS
  <2>6. one \in Seq(AnyLine) /\ rest \in Seq(AnyLine) /\ Site(fs, w) = one \o rest
    BY <1>0, <2>4, <2>5, SiteTyped
  <2>7. Holds(lines, k, one)
    <3>1. Holds(lines, k, one \o rest)
      BY <2>2, <2>3, <2>6
    <3> QED
      BY <1>0, <2>6, <3>1, Halves
  <2>8. Len(one) = 1 /\ one[1] = Line(w, "item", fs[1])
    BY <2>5
  <2>9. k + 1 <= Len(lines) /\ lines[k + 1] = one[1]
    BY <2>7, <2>8 DEF Holds
  <2> QED
    BY <1>6, <2>8, <2>9, LineOf
<1>10. PICK data : data = Put(s.data, Servers, List(0))
  OBVIOUS
<1>11. state[k] = Parsed(data, <<Root>>, 0, Opened)
  <2>1. state[k] = Step(lines, s, k)
    BY <1>0, <1>5, <1>6 DEF Reads
  <2>2. Level(s, 0, <<Root>>, <<>>)
    BY <1>0, <1>5
  <2>3. Step(lines, s, k) = Parsed(Put(s.data, Servers, List(0)), <<Root>>, 0, Opened)
    BY <1>2, <1>6, <1>9, <2>2, ListStep, SMTT(60)
  <2> QED
    BY <1>10, <2>1, <2>3
<1>12. IsTree(data, N \cup {<<Servers, List(0)>>})
  <2>1. Servers \in Paths /\ Len(Servers) = 1 /\ Servers[1] = <<"servers", 0>>
    BY SitePath, ServersPath
  <2>2. \A x \in N : x[1] \in Paths
    BY <1>0, NodePaths
  <2>3. Servers[1] \notin Heads(N)
    BY <1>0, <2>1
  <2>4. Free(N, Servers)
    BY <2>1, <2>2, <2>3, FreeHead
  <2> QED
    BY <1>0, <1>5, <1>10, <2>1, <2>4, PutFree
<1>13. Level(state[k], w, <<Root>>, Opened) /\ state[k].data = data
  <2>1. Level(Parsed(data, <<Root>>, 0, Opened), w, <<Root>>, Opened)
    BY <1>0, LevelHere
  <2>2. Parsed(data, <<Root>>, 0, Opened).data = data
    BY DEF Parsed
  <2> QED
    BY <1>11, <2>1, <2>2
<1>14. SitesReady(lines, state, k, sites, w, N)
  BY <1>0, <1>6, <1>12, <1>13 DEF SitesReady
<1>15. PICK t : t = state[k + Len(text)]
  OBVIOUS
<1>16. SitesDone(t, sites, Len(sites), w, N)
  BY <1>0, <1>14, <1>15, SitesRead
<1>17. Level(t, 0, <<Root>>, <<>>)
  <2>1. Len(sites) # 0
    BY <1>8
  <2> QED
    BY <1>16, <2>1 DEF SitesDone
<1> QED
  BY <1>4, <1>5, <1>15, <1>16, <1>17 DEF SitesDone

(* The nodes of fields before and after the sites.                         *)
LEMMA NodesBoth ==
    ASSUME NEW b, NEW s \in Seq(Fields), NEW t \in Seq(Fields)
    PROVE  FieldNodes(b, s \o t) = Nodes(b, s, Len(s)) \cup Nodes(b, t, Len(t))
<1>1. s \o t \in Seq(Fields)
  OBVIOUS
<1>2. Range(s \o t) = Range(s) \cup Range(t)
  <2>1. /\ DOMAIN (s \o t) = 1 .. Len(s) + Len(t) /\ Len(s) \in Nat /\ Len(t) \in Nat
        /\ DOMAIN s = 1 .. Len(s) /\ DOMAIN t = 1 .. Len(t)
        /\ \A k \in 1 .. Len(s) : (s \o t)[k] = s[k]
        /\ \A k \in 1 .. Len(t) : (s \o t)[Len(s) + k] = t[k]
        /\ \A k \in 1 .. Len(s) + Len(t) : k \notin 1 .. Len(s) =>
             k - Len(s) \in 1 .. Len(t) /\ (s \o t)[k] = t[k - Len(s)]
    OBVIOUS
  <2>2. ASSUME NEW x \in Range(s \o t) PROVE x \in Range(s) \cup Range(t)
    <3>1. PICK k \in 1 .. Len(s) + Len(t) : x = (s \o t)[k]
      BY <2>1 DEF Range
    <3> QED
      BY <2>1, <3>1 DEF Range
  <2>3. ASSUME NEW x \in Range(s) PROVE x \in Range(s \o t)
    <3>1. PICK k \in 1 .. Len(s) : x = s[k]
      BY <2>1 DEF Range
    <3>2. k \in 1 .. Len(s) + Len(t)
      BY <2>1
    <3> QED
      BY <2>1, <3>1, <3>2 DEF Range
  <2>4. ASSUME NEW x \in Range(t) PROVE x \in Range(s \o t)
    <3>1. PICK k \in 1 .. Len(t) : x = t[k]
      BY <2>1 DEF Range
    <3>2. Len(s) + k \in 1 .. Len(s) + Len(t)
      BY <2>1
    <3> QED
      BY <2>1, <3>1, <3>2 DEF Range
  <2> QED
    BY <2>2, <2>3, <2>4
<1>3. FieldNodes(b, s \o t) = FieldNodes(b, s) \cup FieldNodes(b, t)
  BY <1>2 DEF FieldNodes
<1> QED
  BY <1>3, FieldNodesAre

(* The nodes of what a document means, in the order of its parts.          *)
DocNodes(d) ==
    {<< <<>>, Map >>} \cup Nodes(<<>>, d.before, Len(d.before)) \cup Nodes(<<>>, d.after, Len(d.after))
    \cup (IF d.sites = <<>> THEN {} ELSE {<<Servers, List(Len(d.sites))>>})
    \cup AllSites(d.sites, Len(d.sites))

(* The tree with the nodes of a document is what the document means.       *)
LEMMA MeaningIs ==
    ASSUME NEW d, SoundDoc(d), NEW data, IsTree(data, DocNodes(d))
    PROVE  Meaning(d) = data
<1>1. PICK sites : sites = d.sites
  OBVIOUS
<1>2. sites \in Sites /\ DOMAIN sites = 1 .. Len(sites) /\ Len(sites) \in Nat
      /\ d.before \in Seq(Fields) /\ d.after \in Seq(Fields)
  BY <1>1 DEF SoundDoc, Sites
<1> DEFINE site(k) == << <<"servers", k>> >>
           nodes == {<< <<>>, Map >>}
                    \cup FieldNodes(<<>>, d.before \o d.after)
                    \cup (IF d.sites = <<>> THEN {}
                          ELSE {<<Child(<<>>, "servers"), List(Len(d.sites))>>})
                    \cup UNION { {<<site(k), Map>>} \cup FieldNodes(site(k), d.sites[k])
                                 : k \in DOMAIN d.sites }
<1>3. Meaning(d) = Tree(nodes)
  BY DEF Meaning, Tree
<1>4. ASSUME NEW k \in 1 .. Len(sites)
      PROVE  {<<site(k), Map>>} \cup FieldNodes(site(k), sites[k]) = SiteNodes(k, sites[k])
  <2>1. PICK fs \in Seq(Fields) : fs = sites[k]
    BY <1>2 DEF Sites
  <2>2. PICK b : b = site(k)
    OBVIOUS
  <2>3. FieldNodes(b, fs) = Nodes(b, fs, Len(fs))
    BY FieldNodesAre
  <2>4. SiteAt(k) = b
    BY <2>2 DEF SiteAt
  <2> QED
    BY <2>1, <2>2, <2>3, <2>4 DEF SiteNodes
<1>5. UNION { {<<site(k), Map>>} \cup FieldNodes(site(k), sites[k]) : k \in DOMAIN sites }
        = AllSites(sites, Len(sites))
  BY <1>2, <1>4 DEF AllSites
<1>6. FieldNodes(<<>>, d.before \o d.after) =
        Nodes(<<>>, d.before, Len(d.before)) \cup Nodes(<<>>, d.after, Len(d.after))
  BY <1>2, NodesBoth
<1>7. Child(<<>>, "servers") = Servers
  BY ServersPath
<1>8. nodes = DocNodes(d)
  BY <1>1, <1>5, <1>6, <1>7 DEF DocNodes
<1>9. data = Tree(DocNodes(d))
  BY TreeOf
<1> HIDE DEF nodes
<1> QED
  BY <1>3, <1>8, <1>9

(* What a document is written from.                                        *)
Written(d) ==
    d.before \in Seq(Fields) /\ d.sites \in Sites /\ d.after \in Seq(Fields) /\ d.width \in Nat

(* They make a text of lines, in four parts.                               *)
LEMMA Rendered ==
    ASSUME NEW d, Written(d), NEW head, head = Entry(Field("servers", Map), 0, d.width),
           NEW r1, r1 = Entries(d.before, 0, d.width),
           NEW r2, r2 = (IF d.sites = <<>> THEN <<>> ELSE head),
           NEW r3, r3 = FlattenSeq([k \in DOMAIN d.sites |-> Site(d.sites[k], d.width)]),
           NEW r4, r4 = Entries(d.after, 0, d.width)
    PROVE  /\ r1 \in Seq(AnyLine) /\ r2 \in Seq(AnyLine) /\ r3 \in Seq(AnyLine) /\ r4 \in Seq(AnyLine)
           /\ Render(d) \in Seq(AnyLine)
<1>1. PICK before, after, sites, w :
        before = d.before /\ after = d.after /\ sites = d.sites /\ w = d.width
  OBVIOUS
<1>2. before \in Seq(Fields) /\ after \in Seq(Fields) /\ sites \in Sites /\ w \in Nat
  BY <1>1 DEF Written
<1>3. /\ head = Entry(Field("servers", Map), 0, w)
      /\ r1 = Entries(before, 0, w)
      /\ r2 = (IF sites = <<>> THEN <<>> ELSE head)
      /\ r3 = FlattenSeq([k \in DOMAIN sites |-> Site(sites[k], w)])
      /\ r4 = Entries(after, 0, w)
  BY <1>1
<1>4. r1 \in Seq(AnyLine) /\ r3 \in Seq(AnyLine) /\ r4 \in Seq(AnyLine)
  <2>1. PICK zero \in Nat : zero = 0
    OBVIOUS
  <2>2. Entries(before, zero, w) \in Seq(AnyLine) /\ Entries(after, zero, w) \in Seq(AnyLine)
    BY <1>2, EntriesTyped
  <2>3. FlattenSeq([k \in DOMAIN sites |-> Site(sites[k], w)]) \in Seq(AnyLine)
    BY <1>2, SitesTyped
  <2> QED
    BY <1>3, <2>1, <2>2, <2>3
<1>5. head \in Seq(AnyLine) /\ r2 \in Seq(AnyLine)
  <2>1. PICK f : f = Field("servers", Map)
    OBVIOUS
  <2>2. f.key = "servers" /\ f.val = Map /\ f.sub = <<>>
    BY <2>1 DEF Field
  <2>3. PICK line : line = Line(0, "key", f)
    OBVIOUS
  <2>4. f.key \in Keys /\ f.val \in Values \cup {Map}
    BY <2>2 DEF Keys
  <2>5. line \in AnyLine
    BY <2>3, <2>4, LineTyped
  <2>6. head = <<line>>
    <3>1. [k \in DOMAIN f.sub |-> Line(0 + w, "key", f.sub[k])] = <<>>
      BY <2>2
    <3>2. <<line>> \o <<>> = <<line>>
      OBVIOUS
    <3>3. head = <<line>> \o [k \in DOMAIN f.sub |-> Line(0 + w, "key", f.sub[k])]
      BY <1>3, <2>1, <2>3 DEF Entry
    <3> QED
      BY <3>1, <3>2, <3>3
  <2>7. <<>> \in Seq(AnyLine) /\ <<line>> \in Seq(AnyLine)
    BY <2>5
  <2>8. head \in Seq(AnyLine)
    BY <2>6, <2>7
  <2> QED
    BY <1>3, <2>7, <2>8
<1>6. Render(d) = r1 \o r2 \o r3 \o r4
  BY <1>1, <1>3 DEF Render
<1> QED
  BY <1>4, <1>5, <1>6

(* A text of two parts, from one line on.                                  *)
Parted(lines, z, s, t, u) ==
    /\ lines \in Seq(AnyLine) /\ s \in Seq(AnyLine) /\ t \in Seq(AnyLine)
    /\ u = s \o t /\ Holds(lines, z, u)

(* Its parts stand there one after the other.                              *)
LEMMA HalvesAt ==
    ASSUME NEW lines, NEW z, NEW s, NEW t, NEW u, Parted(lines, z, s, t, u)
    PROVE  /\ Holds(lines, z, s) /\ Holds(lines, z + Len(s), t)
           /\ z \in Nat /\ Len(s) \in Nat /\ Len(t) \in Nat /\ Len(u) = Len(s) + Len(t)
<1>1. lines \in Seq(AnyLine) /\ s \in Seq(AnyLine) /\ t \in Seq(AnyLine) /\ Holds(lines, z, s \o t)
  BY DEF Parted
<1>2. Holds(lines, z, s) /\ Holds(lines, z + Len(s), t)
  BY <1>1, Halves
<1>3. Len(s) \in Nat /\ Len(t) \in Nat /\ Len(u) = Len(s) + Len(t)
  BY <1>1 DEF Parted
<1> QED
  BY <1>2, <1>3 DEF Holds

(* Where the four parts of a text begin.                                   *)
Quartered(lines, z, r1, r2, r3, r4, text) ==
    /\ lines \in Seq(AnyLine) /\ r1 \in Seq(AnyLine) /\ r2 \in Seq(AnyLine) /\ r3 \in Seq(AnyLine)
    /\ r4 \in Seq(AnyLine) /\ text = r1 \o r2 \o r3 \o r4 /\ Holds(lines, z, text)

(* They stand there one after another.                                     *)
LEMMA Quarters ==
    ASSUME NEW lines, NEW z, NEW r1, NEW r2, NEW r3, NEW r4, NEW text,
           Quartered(lines, z, r1, r2, r3, r4, text),
           NEW a, a = z + Len(r1), NEW b, b = a + Len(r2), NEW c, c = b + Len(r3)
    PROVE  /\ Holds(lines, z, r1) /\ Holds(lines, a, r2) /\ Holds(lines, b, r3)
           /\ Holds(lines, c, r4) /\ c + Len(r4) = z + Len(text)
<1>1. PICK r12, r13 : r12 = r1 \o r2 /\ r13 = r12 \o r3
  OBVIOUS
<1>2. /\ lines \in Seq(AnyLine) /\ r1 \in Seq(AnyLine) /\ r2 \in Seq(AnyLine) /\ r3 \in Seq(AnyLine)
      /\ r4 \in Seq(AnyLine) /\ Holds(lines, z, text) /\ text = r13 \o r4
      /\ r12 \in Seq(AnyLine) /\ r13 \in Seq(AnyLine)
  BY <1>1 DEF Quartered
<1>3. Parted(lines, z, r13, r4, text)
  BY <1>2 DEF Parted
<1>4. /\ Holds(lines, z, r13) /\ Holds(lines, z + Len(r13), r4) /\ z \in Nat
      /\ Len(r13) \in Nat /\ Len(r4) \in Nat /\ Len(text) = Len(r13) + Len(r4)
  BY <1>3, HalvesAt
<1>5. Parted(lines, z, r12, r3, r13)
  BY <1>1, <1>2, <1>4 DEF Parted
<1>6. /\ Holds(lines, z, r12) /\ Holds(lines, z + Len(r12), r3)
      /\ Len(r12) \in Nat /\ Len(r3) \in Nat /\ Len(r13) = Len(r12) + Len(r3)
  BY <1>5, HalvesAt
<1>7. Parted(lines, z, r1, r2, r12)
  BY <1>1, <1>2, <1>6 DEF Parted
<1>8. /\ Holds(lines, z, r1) /\ Holds(lines, z + Len(r1), r2)
      /\ Len(r1) \in Nat /\ Len(r2) \in Nat /\ Len(r12) = Len(r1) + Len(r2)
  BY <1>7, HalvesAt
<1>9. b = z + Len(r12) /\ c = z + Len(r13) /\ c + Len(r4) = z + Len(text)
  BY <1>4, <1>6, <1>8
<1> QED
  BY <1>4, <1>6, <1>8, <1>9

(* The four parts of a document are read one after another, and make up    *)
(* what it means.                                                          *)
LEMMA DocRead ==
    ASSUME NEW d, SoundDoc(d), NEW lines, lines = Render(d), NEW state, Reads(lines, state)
    PROVE  parseFile(lines).data = Meaning(d) /\ parseFile(lines).failed = "no"
<1>1. PICK before, after, sites, w :
        before = d.before /\ after = d.after /\ sites = d.sites /\ w = d.width
  OBVIOUS
<1>2. /\ before \in Seq(Fields) /\ after \in Seq(Fields) /\ sites \in Sites /\ w \in Nat /\ w >= 2
      /\ Distinct(before) /\ Distinct(after)
      /\ \A k \in 1 .. Len(before) : Sound(before[k])
      /\ \A k \in 1 .. Len(after) : Sound(after[k])
      /\ \A j \in 1 .. Len(before), k \in 1 .. Len(after) : before[j].key # after[k].key
      /\ sites # <<>> => /\ \A k \in 1 .. Len(before) : before[k].key # "servers"
                         /\ \A k \in 1 .. Len(after) : after[k].key # "servers"
      /\ \A k \in 1 .. Len(sites) : SoundSite(sites[k], w)
      /\ Len(before) \in Nat /\ Len(after) \in Nat /\ Len(sites) \in Nat
  <2>1. before \in Seq(Fields) /\ after \in Seq(Fields) /\ sites \in Sites
    BY <1>1 DEF SoundDoc
  <2>2. Len(before) \in Nat /\ Len(after) \in Nat /\ Len(sites) \in Nat
    BY <2>1 DEF Sites
  <2> QED
    BY <1>1, <2>1, <2>2 DEF SoundDoc
<1>3. PICK head, r1, r2, r3, r4 :
        /\ head = Entry(Field("servers", Map), 0, w)
        /\ r1 = Entries(before, 0, w)
        /\ r2 = (IF sites = <<>> THEN <<>> ELSE head)
        /\ r3 = FlattenSeq([k \in DOMAIN sites |-> Site(sites[k], w)])
        /\ r4 = Entries(after, 0, w)
  OBVIOUS
<1>4. r1 \in Seq(AnyLine) /\ r2 \in Seq(AnyLine) /\ r3 \in Seq(AnyLine) /\ r4 \in Seq(AnyLine)
  <2>1. Written(d)
    BY DEF SoundDoc, Written
  <2> QED
    BY <1>1, <1>3, <2>1, Rendered
<1>6. lines = r1 \o r2 \o r3 \o r4
  BY <1>1, <1>3 DEF Render
<1>7. PICK r12, r13 : r12 = r1 \o r2 /\ r13 = r12 \o r3
  OBVIOUS
<1>8. r12 \in Seq(AnyLine) /\ r13 \in Seq(AnyLine) /\ lines = r13 \o r4 /\ lines \in Seq(AnyLine)
  BY <1>4, <1>6, <1>7
<1>9. PICK z \in Nat : z = 0
  OBVIOUS
<1>10. PICK a, b, c : a = z + Len(r1) /\ b = a + Len(r2) /\ c = b + Len(r3)
  OBVIOUS
<1>11. /\ Holds(lines, z, r1) /\ Holds(lines, a, r2) /\ Holds(lines, b, r3) /\ Holds(lines, c, r4)
       /\ c + Len(r4) = Len(lines)
  <2>1. Len(lines) \in Nat
    BY <1>8
  <2>2. Holds(lines, z, lines) /\ z + Len(lines) = Len(lines)
    BY <1>9, <2>1 DEF Holds
  <2>3. /\ Holds(lines, z, r1) /\ Holds(lines, a, r2) /\ Holds(lines, b, r3) /\ Holds(lines, c, r4)
        /\ c + Len(r4) = z + Len(lines)
    <3>1. Quartered(lines, z, r1, r2, r3, r4, lines)
      BY <1>4, <1>6, <1>8, <2>2 DEF Quartered
    <3> QED
      BY <1>10, <3>1, Quarters
  <2> QED
    BY <2>2, <2>3
<1>12. PICK N0, N1 : N0 = {<< <<>>, Map >>} /\ N1 = N0 \cup Nodes(<<>>, before, Len(before))
  OBVIOUS
<1>13. Level(state[a], 0, <<Root>>, <<>>) /\ IsTree(state[a].data, N1)
  <2>1. PICK s : s = state[z + Len(Entries(before, 0, w))]
    OBVIOUS
  <2>2. state[z] = Start
    BY <1>9 DEF Reads
  <2>3. \A k \in 1 .. Len(before) : Sound(before[k]) /\ <<before[k].key, 0>> \notin Heads(N0)
    BY <1>2, <1>12, StartTree
  <2>4. Level(state[z], 0, <<Root>>, <<>>) /\ IsTree(state[z].data, N0)
    BY <1>12, <2>2, StartTree
  <2>5. Holds(lines, z, Entries(before, 0, w))
    BY <1>3, <1>11
  <2>6. Level(s, 0, <<Root>>, <<>>) /\ IsTree(s.data, N0 \cup Nodes(<<>>, before, Len(before)))
    <3>1. TopReady(lines, state, z, before, w, N0)
      BY <1>2, <1>8, <2>3, <2>4, <2>5 DEF TopReady
    <3> QED
      BY <2>1, <3>1, TopRead
  <2> QED
    BY <1>3, <1>10, <1>12, <2>1, <2>6
<1>14. Heads(N1) \subseteq {<<before[k].key, 0>> : k \in 1 .. Len(before)}
  <2>1. Heads(Nodes(<<>>, before, Len(before))) \subseteq {<<before[k].key, 0>> : k \in 1 .. Len(before)}
    BY <1>2, HeadsTop
  <2> QED
    BY <1>12, <2>1, HeadsBoth, StartTree
<1>15. PICK N2 : N2 = N1 \cup AllSites(sites, Len(sites))
                        \cup (IF sites = <<>> THEN {} ELSE {<<Servers, List(Len(sites))>>})
  OBVIOUS
<1>16. ASSUME sites = <<>>
       PROVE  Level(state[c], 0, <<Root>>, <<>>) /\ IsTree(state[c].data, N2)
  <2>1. r2 = <<>> /\ Len(r2) = 0 /\ Len(sites) = 0
    BY <1>3, <1>16
  <2>2. r3 = <<>> /\ Len(r3) = 0
    <3>1. [k \in DOMAIN sites |-> Site(sites[k], w)] = <<>>
      BY <1>16
    <3>2. FlattenSeq(<<>>) = <<>>
      BY DEF FlattenSeq
    <3> QED
      BY <1>3, <3>1, <3>2
  <2>3. c = a
    BY <1>4, <1>10, <2>1, <2>2
  <2>4. AllSites(sites, Len(sites)) = {}
    BY <2>1 DEF AllSites
  <2>5. N2 = N1
    BY <1>15, <1>16, <2>4
  <2> QED
    BY <1>13, <2>3, <2>5
<1>17. ASSUME sites # <<>>
       PROVE  Level(state[c], 0, <<Root>>, <<>>) /\ IsTree(state[c].data, N2)
  <2>1. r2 = head
    BY <1>3, <1>17
  <2>2. ASSUME NEW k \in Nat PROVE <<"servers", k>> \notin Heads(N1)
    <3>1. ASSUME NEW j \in 1 .. Len(before) PROVE <<"servers", k>> # <<before[j].key, 0>>
      <4>1. before[j].key # "servers"
        BY <1>2, <1>17
      <4> QED
        BY <4>1
    <3> QED
      BY <1>14, <3>1
  <2>3. Holds(lines, a, head) /\ Holds(lines, a + Len(head), r3) /\ c = a + Len(head) + Len(r3)
    BY <1>10, <1>11, <2>1
  <2>4. PICK s : s = state[a + Len(head) + Len(r3)]
    OBVIOUS
  <2>5. /\ Level(s, 0, <<Root>>, <<>>)
        /\ IsTree(s.data, N1 \cup AllSites(sites, Len(sites)) \cup {<<Servers, List(Len(sites))>>})
    <3>1. ListReady(lines, state, a, sites, w, head, r3, N1)
      BY <1>2, <1>3, <1>8, <1>13, <1>17, <2>2, <2>3 DEF ListReady
    <3> QED
      BY <2>4, <3>1, ListRead
  <2> QED
    BY <1>15, <1>17, <2>3, <2>4, <2>5
<1>18. Level(state[c], 0, <<Root>>, <<>>) /\ IsTree(state[c].data, N2)
  BY <1>16, <1>17
<1>19. ASSUME NEW k \in 1 .. Len(after) PROVE <<after[k].key, 0>> \notin Heads(N2)
  <2>1. <<after[k].key, 0>> \notin Heads(N1)
    <3>1. ASSUME NEW j \in 1 .. Len(before) PROVE <<after[k].key, 0>> # <<before[j].key, 0>>
      <4>1. before[j].key # after[k].key
        BY <1>2
      <4> QED
        BY <4>1
    <3> QED
      BY <1>14, <3>1
  <2>2. <<after[k].key, 0>> \notin Heads(AllSites(sites, Len(sites)))
    <3>1. Heads(AllSites(sites, Len(sites))) \subseteq {<<"servers", j>> : j \in 1 .. Len(sites)}
      BY <1>2, HeadsSites
    <3>2. ASSUME NEW j \in 1 .. Len(sites) PROVE <<after[k].key, 0>> # <<"servers", j>>
      <4>1. j # 0
        OBVIOUS
      <4> QED
        BY <4>1
    <3> QED
      BY <3>1, <3>2
  <2>3. sites # <<>> => <<after[k].key, 0>> \notin Heads({<<Servers, List(Len(sites))>>})
    <3>1. Servers[1] = <<"servers", 0>>
      BY SitePath, ServersPath
    <3>2. Heads({<<Servers, List(Len(sites))>>}) \subseteq {<<"servers", 0>>}
      BY <3>1 DEF Heads
    <3>3. sites # <<>> => <<after[k].key, 0>> # <<"servers", 0>>
      BY <1>2
    <3> QED
      BY <3>2, <3>3
  <2>4. Heads({}) = {}
    BY DEF Heads
  <2>5. PICK M, L : /\ M = AllSites(sites, Len(sites))
                    /\ L = (IF sites = <<>> THEN {} ELSE {<<Servers, List(Len(sites))>>})
    OBVIOUS
  <2>6. N2 = (N1 \cup M) \cup L /\ <<after[k].key, 0>> \notin Heads(L)
    BY <1>15, <2>3, <2>4, <2>5
  <2>7. Heads(N2) = Heads(N1 \cup M) \cup Heads(L) /\ Heads(N1 \cup M) = Heads(N1) \cup Heads(M)
    BY <2>6, HeadsBoth
  <2> QED
    BY <2>1, <2>2, <2>5, <2>6, <2>7
<1>20. PICK t : t = state[c + Len(Entries(after, 0, w))]
  OBVIOUS
<1>21. Level(t, 0, <<Root>>, <<>>) /\ IsTree(t.data, N2 \cup Nodes(<<>>, after, Len(after)))
  <2>1. \A k \in 1 .. Len(after) : Sound(after[k]) /\ <<after[k].key, 0>> \notin Heads(N2)
    BY <1>2, <1>19
  <2>2. Holds(lines, c, Entries(after, 0, w))
    BY <1>3, <1>11
  <2>3. TopReady(lines, state, c, after, w, N2)
    BY <1>2, <1>8, <1>18, <2>1, <2>2 DEF TopReady
  <2> QED
    BY <1>20, <2>3, TopRead
<1>22. t = parseFile(lines)
  <2>1. c + Len(Entries(after, 0, w)) = Len(lines)
    BY <1>3, <1>11
  <2> QED
    BY <1>20, <2>1 DEF Reads
<1>23. t.failed = "no"
  <2>1. t = Parsed(t.data, t.stack, t.previousIndent, t.arrays)
    BY <1>21 DEF Level
  <2>2. Parsed(t.data, t.stack, t.previousIndent, t.arrays).failed = "no"
    BY DEF Parsed
  <2> QED
    BY <2>1, <2>2
<1>24. N2 \cup Nodes(<<>>, after, Len(after)) = DocNodes(d)
  BY <1>1, <1>12, <1>15 DEF DocNodes
<1>25. Meaning(d) = t.data
  BY <1>21, <1>24, MeaningIs
<1> QED
  BY <1>22, <1>23, <1>25

(* The reader makes of every regular document what it means, and fails on  *)
(* none.  No value of a regular document is one that it converts or refuses*)
(* (Literal); on others it may well fail, or read something else.          *)
THEOREM ReadRight ==
    ASSUME NEW d \in Documents, Regular(d)
    PROVE  parseFile(Render(d)).data = Meaning(d) /\ parseFile(Render(d)).failed = "no"
<1>1. SoundDoc(d)
  BY RegularSound
<1>2. PICK lines : lines = Render(d)
  OBVIOUS
<1>3. Len(lines) \in Nat
  <2>1. Render(d) \in Seq(AnyLine)
    BY <1>1, Rendered DEF SoundDoc, Written
  <2> QED
    BY <1>2, <2>1
<1>4. PICK state : Reads(lines, state)
  BY <1>3, Reading
<1> QED
  BY <1>1, <1>2, <1>4, DocRead

-----------------------------------------------------------------------------
(* Whatever the document, a list that is read has a length.                *)

(* A list that is open and has not been destroyed is in the tree.          *)
Kept(a, data) ==
    /\ a = [at |-> a.at, ind |-> a.ind, ok |-> a.ok]
    /\ a.ok => a.at \in DOMAIN data

(* The numbers of a tree and the lists that are open, whatever was read.   *)
Counted(s) ==
    /\ s = [data |-> s.data, stack |-> s.stack, previousIndent |-> s.previousIndent,
            arrays |-> s.arrays, failed |-> s.failed]
    /\ \A q \in DOMAIN s.data : s.data[q].n \in Nat
    /\ Len(s.arrays) \in Nat /\ s.arrays \in Seq(Range(s.arrays))
    /\ \A k \in 1 .. Len(s.arrays) : Kept(s.arrays[k], s.data)

(* The greatest number of a set that has a bound.                          *)
LEMMA Greatest ==
    ASSUME NEW T \in SUBSET Nat, T # {}, NEW n \in Nat, \A k \in T : k <= n
    PROVE  Max(T) \in T
<1> DEFINE U == {n - k : k \in T}
<1>1. U \in SUBSET Nat /\ U # {}
  <2>1. \A k \in T : n - k \in Nat
    OBVIOUS
  <2>2. PICK k \in T : TRUE
    OBVIOUS
  <2>3. n - k \in U
    OBVIOUS
  <2> QED
    BY <2>1, <2>3
<1>2. PICK m \in U : \A k \in U : m <= k
  <2> HIDE DEF U
  <2> QED
    BY <1>1, Least
<1>3. PICK x \in T : m = n - x
  BY <1>2
<1>4. \A y \in T : x >= y
  <2> SUFFICES ASSUME NEW y \in T PROVE x >= y
    OBVIOUS
  <2>1. m <= n - y
    BY <1>2
  <2> QED
    BY <1>3, <2>1
<1> QED
  BY <1>4 DEF Max

(* Whoever comes back has the lists that were open first.                  *)
LEMMA DedentCounted ==
    ASSUME NEW s, Counted(s), NEW ind
    PROVE  Counted(Dedent(s, ind)) /\ Dedent(s, ind).data = s.data
<1>1. CASE ind >= s.previousIndent
  BY <1>1 DEF Dedent
<1>2. CASE ~(ind >= s.previousIndent)
  <2> DEFINE inside == {k \in DOMAIN s.arrays : s.arrays[k].ind <= ind}
             turns == (s.previousIndent - ind + 1) \div 2
  <2>1. PICK arrays, stack, m : /\ arrays = s.arrays /\ m = Max({0} \cup inside)
                                /\ stack = SubSeq(s.stack, 1, Max({1, Len(s.stack) - turns}))
    OBVIOUS
  <2>2. Len(arrays) \in Nat /\ arrays \in Seq(Range(arrays)) /\ DOMAIN arrays = 1 .. Len(arrays)
    BY <2>1 DEF Counted
  <2>3. m \in 0 .. Len(arrays)
    <3>1. inside \subseteq 1 .. Len(arrays)
      BY <2>1, <2>2
    <3>2. PICK T : T = {0} \cup inside
      OBVIOUS
    <3>3. T \in SUBSET Nat /\ T # {} /\ \A k \in T : k <= Len(arrays)
      BY <2>2, <3>1, <3>2
    <3>4. Max(T) \in T
      BY <2>2, <3>3, Greatest
    <3>5. T \subseteq 0 .. Len(arrays)
      BY <2>2, <3>1, <3>2
    <3> QED
      BY <2>1, <3>2, <3>4, <3>5
  <2>4. PICK left : left = SubSeq(arrays, 1, m)
    OBVIOUS
  <2>5. Len(left) = m /\ left \in Seq(Range(left)) /\ \A k \in 1 .. m : left[k] = arrays[k]
    <3>1. left \in Seq(Range(arrays)) /\ Len(left) = m /\ \A k \in 1 .. m : left[k] = arrays[k]
      BY <2>2, <2>3, <2>4
    <3>2. \A k \in 1 .. Len(left) : left[k] \in Range(left)
      BY <3>1 DEF Range
    <3> QED
      BY <3>1, <3>2
  <2>6. Dedent(s, ind) = [s EXCEPT !.stack = stack, !.arrays = left]
    BY <1>2, <2>1, <2>4 DEF Dedent
  <2>7. Dedent(s, ind) = [data |-> s.data, stack |-> stack, previousIndent |-> s.previousIndent,
                          arrays |-> left, failed |-> s.failed]
    BY <2>6 DEF Counted
  <2> HIDE DEF inside, turns
  <2>8. ASSUME NEW k \in 1 .. Len(left) PROVE Kept(left[k], s.data)
    <3>1. left[k] = arrays[k] /\ k \in 1 .. Len(arrays)
      BY <2>2, <2>3, <2>5
    <3> QED
      BY <2>1, <3>1 DEF Counted
  <2> QED
    BY <2>3, <2>5, <2>7, <2>8 DEF Counted
<1> QED
  BY <1>1, <1>2

(* An assignment destroys the lists below it, and no others.               *)
LEMMA AssignCounted ==
    ASSUME NEW s, Counted(s), NEW p, NEW node, node.n \in Nat
    PROVE  Counted(Assign(s, p, node)) /\ p \in DOMAIN Assign(s, p, node).data
<1>1. PICK data : data = Put(s.data, p, node)
  OBVIOUS
<1>2. /\ p \in DOMAIN data /\ \A q \in DOMAIN data : data[q].n \in Nat
      /\ \A q \in DOMAIN s.data : ~IsPrefix(p, q) => q \in DOMAIN data
  BY <1>1 DEF Put, Counted
<1>3. PICK arrays : arrays = s.arrays
  OBVIOUS
<1>4. Len(arrays) \in Nat /\ arrays \in Seq(Range(arrays)) /\ DOMAIN arrays = 1 .. Len(arrays)
  BY <1>3 DEF Counted
<1>5. PICK new : new = [k \in DOMAIN arrays |->
                          [arrays[k] EXCEPT !.ok = @ /\ ~IsPrefix(p, arrays[k].at)]]
  OBVIOUS
<1>6. Len(new) = Len(arrays) /\ new \in Seq(Range(new))
  <2>1. \A k \in 1 .. Len(arrays) : new[k] \in Range(new)
    BY <1>4, <1>5 DEF Range
  <2>2. DOMAIN new = 1 .. Len(arrays) /\ new = [k \in 1 .. Len(arrays) |-> new[k]]
    BY <1>4, <1>5
  <2> QED
    BY <1>4, <2>1, <2>2
<1>7. ASSUME NEW k \in 1 .. Len(arrays) PROVE Kept(new[k], data)
  <2>1. PICK a, away : a = arrays[k] /\ away = ~IsPrefix(p, a.at)
    OBVIOUS
  <2>2. Kept(a, s.data)
    BY <1>3, <2>1 DEF Counted
  <2>3. new[k] = [a EXCEPT !.ok = @ /\ away]
    BY <1>4, <1>5, <2>1
  <2>4. new[k] = [at |-> a.at, ind |-> a.ind, ok |-> a.ok /\ away]
    BY <2>2, <2>3 DEF Kept
  <2>5. ASSUME a.ok /\ away PROVE a.at \in DOMAIN data
    BY <1>2, <2>1, <2>2, <2>5 DEF Kept
  <2>6. PICK b, both : b = new[k] /\ both = (a.ok /\ away)
    OBVIOUS
  <2>7. b.at = a.at /\ b.ind = a.ind /\ b.ok = both /\ b = [at |-> a.at, ind |-> a.ind, ok |-> both]
    BY <2>4, <2>6
  <2>8. both => b.at \in DOMAIN data
    BY <2>5, <2>6, <2>7
  <2>9. Kept(b, data)
    BY <2>7, <2>8 DEF Kept
  <2> QED
    BY <2>6, <2>9
<1>8. Assign(s, p, node) = [data |-> data, stack |-> s.stack, previousIndent |-> s.previousIndent,
                            arrays |-> new, failed |-> s.failed]
  <2>1. Assign(s, p, node) = [s EXCEPT !.data = data, !.arrays = new]
    BY <1>1, <1>3, <1>5 DEF Assign
  <2> QED
    BY <2>1 DEF Counted
<1> QED
  BY <1>2, <1>4, <1>6, <1>7, <1>8 DEF Counted

(* A field keeps or adds values, ...                                       *)
LEMMA ValueCounted ==
    ASSUME NEW s, Counted(s), NEW line, line.val.n \in Nat, NEW next
    PROVE  Counted(Value(s, line, next))
<1>1. PICK key : key = Child(Last(s.stack).at, line.key)
  OBVIOUS
<1>2. Map.n \in Nat /\ List(0).n \in Nat /\ Converted(line.val).n \in Nat
  BY DEF Map, List, Node, Converted, Double, Str
<1>3. Counted([s EXCEPT !.failed = "throw"]) /\ Counted([s EXCEPT !.failed = "undefined"])
  BY DEF Counted
<1>4. PICK list, map, one : /\ list = Assign(s, key, List(0)) /\ map = Assign(s, key, Map)
                            /\ one = Assign(s, key, Converted(line.val))
  OBVIOUS
<1>5. Counted(list) /\ key \in DOMAIN list.data /\ Counted(map) /\ Counted(one)
  BY <1>2, <1>4, AssignCounted
<1>6. ASSUME NEW stack PROVE Counted([map EXCEPT !.stack = stack])
  BY <1>5 DEF Counted
<1>7. ASSUME NEW a, a = [at |-> key, ind |-> line.ind + 2, ok |-> TRUE]
      PROVE  Counted([list EXCEPT !.arrays = Append(@, a)])
  <2>1. PICK arrays : arrays = list.arrays
    OBVIOUS
  <2>2. Len(arrays) \in Nat /\ arrays \in Seq(Range(arrays))
    BY <1>5, <2>1 DEF Counted
  <2>3. PICK new : new = Append(arrays, a)
    OBVIOUS
  <2>4. /\ Len(new) = Len(arrays) + 1 /\ new[Len(arrays) + 1] = a
        /\ \A k \in 1 .. Len(arrays) : new[k] = arrays[k]
        /\ new \in Seq(Range(arrays) \cup {a})
    <3>1. arrays \in Seq(Range(arrays) \cup {a})
      BY <2>2
    <3> QED
      BY <2>2, <2>3, <3>1
  <2>5. new \in Seq(Range(new))
    <3>1. \A k \in 1 .. Len(new) : new[k] \in Range(new)
      BY <2>4 DEF Range
    <3> QED
      BY <2>4, <3>1
  <2>6. Kept(a, list.data)
    BY <1>5, <1>7 DEF Kept
  <2>7. ASSUME NEW k \in 1 .. Len(new) PROVE Kept(new[k], list.data)
    <3>1. CASE k = Len(arrays) + 1
      BY <2>4, <2>6, <3>1
    <3>2. CASE k \in 1 .. Len(arrays)
      BY <1>5, <2>1, <2>4, <3>2 DEF Counted
    <3> QED
      BY <2>2, <2>4, <3>1, <3>2
  <2>8. [list EXCEPT !.arrays = Append(@, a)] =
          [data |-> list.data, stack |-> list.stack, previousIndent |-> list.previousIndent,
           arrays |-> new, failed |-> list.failed]
    <3>1. PICK data, stack, indent, failed :
            data = list.data /\ stack = list.stack /\ indent = list.previousIndent /\ failed = list.failed
      OBVIOUS
    <3>2. list = [data |-> data, stack |-> stack, previousIndent |-> indent,
                  arrays |-> arrays, failed |-> failed]
      BY <1>5, <2>1, <3>1 DEF Counted
    <3>3. list.arrays = arrays
      BY <2>1
    <3>4. [list EXCEPT !.arrays = Append(@, a)] = [list EXCEPT !.arrays = new]
      BY <2>3, <3>3
    <3>5. [list EXCEPT !.arrays = new] =
            [data |-> data, stack |-> stack, previousIndent |-> indent,
             arrays |-> new, failed |-> failed]
      BY <3>2
    <3> QED
      BY <3>1, <3>4, <3>5
  <2>9. Len(new) \in Nat /\ \A q \in DOMAIN list.data : list.data[q].n \in Nat
    BY <1>5, <2>2, <2>4 DEF Counted
  <2> QED
    BY <2>5, <2>7, <2>8, <2>9 DEF Counted
<1>8. PICK a : a = [at |-> key, ind |-> line.ind + 2, ok |-> TRUE]
  OBVIOUS
<1>9. \/ Value(s, line, next) \in {[s EXCEPT !.failed = "throw"], [s EXCEPT !.failed = "undefined"],
                                  [list EXCEPT !.arrays = Append(@, a)], s, one}
      \/ Value(s, line, next) = [map EXCEPT !.stack = Into(s, key)]
  BY <1>1, <1>4, <1>8 DEF Value
<1> QED
  BY <1>3, <1>5, <1>6, <1>7, <1>8, <1>9

(* ... an item makes the list one longer, and adds values.                 *)
LEMMA ItemCounted ==
    ASSUME NEW s, Counted(s), NEW line, line.val.n \in Nat
    PROVE  Counted(Item(s, line))
<1> DEFINE list == Last(s.arrays).at
           size == s.data[list].n
           elem(k) == Append(Front(list), <<Last(list)[1], k>>)
           this == elem(size + 1)
           key  == Child(this, line.key)
           moved == {elem(k) : k \in IF size \in {1, 2, 4, 8} THEN 1 .. size ELSE {}}
           kept == [k \in DOMAIN s.stack |->
                       [s.stack[k] EXCEPT !.ok = @ /\ s.stack[k].at \notin moved]]
           high == Append(kept, [at |-> this, ok |-> TRUE])
           counted == [s EXCEPT !.data[list] = List(size + 1), !.stack = high]
           grown == Assign(counted, this, Map)
           str  == [line.val EXCEPT !.t = "str"]
<1>1. Item(s, line) =
        IF s.arrays = <<>> \/ line.val = Junk THEN [s EXCEPT !.failed = "throw"]
        ELSE IF ~Last(s.arrays).ok THEN [s EXCEPT !.failed = "undefined"]
        ELSE IF line.val = Map
        THEN [Assign(grown, key, Map) EXCEPT !.stack = Into(grown, key)]
        ELSE Assign(grown, key, str)
  BY DEF Item
<1>2. str.n \in Nat /\ Map.n \in Nat
  BY DEF Map, Node
<1>3. Counted([s EXCEPT !.failed = "throw"]) /\ Counted([s EXCEPT !.failed = "undefined"])
  BY DEF Counted
<1> HIDE DEF elem, this, key, moved, kept, high, str
<1>4. ASSUME s.arrays # <<>>, Last(s.arrays).ok PROVE Counted(counted)
  <2>1. PICK arrays : arrays = s.arrays
    OBVIOUS
  <2>2. Len(arrays) \in 1 .. Len(arrays)
    BY <1>4, <2>1 DEF Counted
  <2>3. Kept(Last(arrays), s.data)
    BY <2>1, <2>2 DEF Counted, Last
  <2>4. list \in DOMAIN s.data
    BY <1>4, <2>1, <2>3 DEF Kept
  <2>5. size + 1 \in Nat
    BY <2>4 DEF Counted
  <2>6. List(size + 1).n = size + 1
    BY DEF List, Node
  <2> HIDE DEF list, size
  <2>7. PICK data, node : node = List(size + 1) /\ data = [s.data EXCEPT ![list] = node]
    OBVIOUS
  <2>8. DOMAIN data = DOMAIN s.data /\ \A q \in DOMAIN data : data[q].n \in Nat
    <3>1. DOMAIN data = DOMAIN s.data
      BY <2>7
    <3>2. \A q \in DOMAIN s.data : data[q] = IF q = list THEN node ELSE s.data[q]
      BY <2>7
    <3> QED
      BY <2>5, <2>6, <2>7, <3>1, <3>2 DEF Counted
  <2>9. counted = [data |-> data, stack |-> high, previousIndent |-> s.previousIndent,
                   arrays |-> s.arrays, failed |-> s.failed]
    <3>1. PICK old, stack, indent, open, failed :
            /\ old = s.data /\ stack = s.stack /\ indent = s.previousIndent
            /\ open = s.arrays /\ failed = s.failed
      OBVIOUS
    <3>2. s = [data |-> old, stack |-> stack, previousIndent |-> indent,
               arrays |-> open, failed |-> failed]
      BY <3>1 DEF Counted
    <3>3. [s EXCEPT !.data = data, !.stack = high] =
            [data |-> data, stack |-> high, previousIndent |-> indent,
             arrays |-> open, failed |-> failed]
      <4>1. PICK u, top : /\ top = high
                          /\ u = [data |-> data, stack |-> stack, previousIndent |-> indent,
                                  arrays |-> open, failed |-> failed]
        OBVIOUS
      <4>2. [s EXCEPT !.data = data] = u
        BY <3>2, <4>1
      <4>3. [u EXCEPT !.stack = top] =
              [data |-> data, stack |-> top, previousIndent |-> indent,
               arrays |-> open, failed |-> failed]
        BY <4>1
      <4>4. [s EXCEPT !.data = data, !.stack = top] = [[s EXCEPT !.data = data] EXCEPT !.stack = top]
        OBVIOUS
      <4>5. [s EXCEPT !.data = data, !.stack = top] = [u EXCEPT !.stack = top]
        BY <4>2, <4>4
      <4>6. top = high
        BY <4>1
      <4> QED
        BY <4>3, <4>5, <4>6
    <3>4. counted = [s EXCEPT !.data = data, !.stack = high]
      BY <2>7
    <3> QED
      BY <3>1, <3>3, <3>4
  <2>10. ASSUME NEW k \in 1 .. Len(s.arrays) PROVE Kept(s.arrays[k], data)
    BY <2>8 DEF Counted, Kept
  <2> QED
    BY <2>8, <2>9, <2>10 DEF Counted
<1>5. ASSUME s.arrays # <<>>, Last(s.arrays).ok PROVE Counted(grown)
  <2>1. PICK c : c = counted
    OBVIOUS
  <2>2. Counted(c)
    BY <1>4, <1>5, <2>1
  <2> HIDE DEF counted
  <2> QED
    BY <1>2, <2>1, <2>2, AssignCounted
<1> HIDE DEF grown
<1>6. ASSUME Counted(grown) PROVE Counted(Assign(grown, key, Map)) /\ Counted(Assign(grown, key, str))
  BY <1>2, <1>6, AssignCounted
<1>7. ASSUME NEW t, Counted(t), NEW stack PROVE Counted([t EXCEPT !.stack = stack])
  BY <1>7 DEF Counted
<1> HIDE DEF list, size
<1>8. PICK t, stack : t = Assign(grown, key, Map) /\ stack = Into(grown, key)
  OBVIOUS
<1> QED
  <2>1. CASE s.arrays = <<>> \/ line.val = Junk \/ ~Last(s.arrays).ok
    BY <1>1, <1>3, <2>1
  <2>2. CASE s.arrays # <<>> /\ line.val # Junk /\ Last(s.arrays).ok
    <3>1. Counted(t) /\ Counted(Assign(grown, key, str))
      BY <1>5, <1>6, <1>8, <2>2
    <3>2. Counted([t EXCEPT !.stack = stack])
      BY <1>7, <3>1
    <3>3. Item(s, line) \in {[t EXCEPT !.stack = stack], Assign(grown, key, str)}
      BY <1>1, <1>8, <2>2
    <3> QED
      BY <3>1, <3>2, <3>3
  <2> QED
    BY <2>1, <2>2

(* A step keeps the numbers and the lists as they should be, whatever the  *)
(* line.                                                                   *)
LEMMA StepCounted ==
    ASSUME NEW lines \in Seq(AnyLine), NEW s, Counted(s), NEW k \in 1 .. Len(lines)
    PROVE  Counted(Step(lines, s, k))
<1>1. PICK line, left : line = lines[k] /\ left = Dedent(s, line.ind)
  OBVIOUS
<1>2. line \in AnyLine
  BY <1>1
<1>3. line.val.n \in Nat
  <2>1. line.val \in Values \cup {Map}
    BY <1>2 DEF AnyLine
  <2>2. Map.n = 0 /\ \A v \in Values : v.n \in Nat
    BY DEF Map, Node, Values
  <2> QED
    BY <2>1, <2>2
<1>4. Counted(left)
  BY <1>1, DedentCounted
<1>5. PICK item : item = (k < Len(lines) /\ lines[k + 1].kind = "item")
  OBVIOUS
<1>6. PICK new : new = IF line.kind = "item" THEN Item(left, line) ELSE Value(left, line, item)
  OBVIOUS
<1>7. Counted(new)
  BY <1>3, <1>4, <1>6, ItemCounted, ValueCounted
<1>8. Counted([new EXCEPT !.previousIndent = line.ind])
  BY <1>7 DEF Counted
<1>9. Step(lines, s, k) = IF s.failed # "no" THEN s ELSE [new EXCEPT !.previousIndent = line.ind]
  BY <1>1, <1>5, <1>6 DEF Step
<1> QED
  BY <1>8, <1>9

(* In the beginning there are no lists, and no numbers but 0.              *)
LEMMA StartCounted == Counted(Start)
<1>1. /\ Start.data = [q \in {<<>>} |-> Map] /\ Start.arrays = <<>>
      /\ Start = [data |-> Start.data, stack |-> Start.stack, previousIndent |-> Start.previousIndent,
                  arrays |-> Start.arrays, failed |-> Start.failed]
  BY DEF Start
<1>2. \A q \in DOMAIN Start.data : Start.data[q].n \in Nat
  <2>1. Map.n \in Nat
    BY DEF Map, Node
  <2>2. DOMAIN [q \in {<<>>} |-> Map] = {<<>>} /\ [q \in {<<>>} |-> Map][<<>>] = Map
    OBVIOUS
  <2> QED
    BY <1>1, <2>1, <2>2
<1>3. Len(<<>>) = 0 /\ <<>> \in Seq(Range(<<>>))
  OBVIOUS
<1> QED
  BY <1>1, <1>2, <1>3 DEF Counted

(* The numbers of a configuration that is read are natural numbers, the    *)
(* lengths of its lists among them, whatever the document.                 *)
LEMMA ReadCounted ==
    ASSUME NEW d \in Documents
    PROVE  \A q \in DOMAIN parseFile(Render(d)).data : parseFile(Render(d)).data[q].n \in Nat
<1>1. PICK lines : lines = Render(d)
  OBVIOUS
<1>2. lines \in Seq(AnyLine) /\ Len(lines) \in Nat
  <2>1. Written(d)
    BY DEF Written, Documents, Sites
  <2>2. lines \in Seq(AnyLine)
    BY <1>1, <2>1, Rendered
  <2> QED
    BY <2>2
<1>3. PICK state : Reads(lines, state)
  BY <1>2, Reading
<1>4. Counted(Start)
  BY StartCounted
<1> DEFINE T == {n \in Nat : n <= Len(lines) => Counted(state[n])}
<1>5. 0 \in T
  BY <1>3, <1>4 DEF Reads
<1>6. ASSUME NEW n \in Nat, n \in T PROVE n + 1 \in T
  <2> SUFFICES ASSUME n + 1 <= Len(lines) PROVE Counted(state[n + 1])
    OBVIOUS
  <2>1. n + 1 \in 1 .. Len(lines) /\ (n + 1) - 1 = n
    BY <1>2
  <2>2. PICK k, s : k \in 1 .. Len(lines) /\ k = n + 1 /\ s = state[n]
    BY <2>1
  <2>3. Counted(s)
    BY <1>2, <1>6, <2>2
  <2>4. state[k] = Step(lines, s, k)
    BY <1>3, <2>1, <2>2 DEF Reads
  <2>5. Counted(Step(lines, s, k))
    BY <1>2, <2>2, <2>3, StepCounted
  <2> QED
    BY <2>2, <2>4, <2>5
<1>7. Len(lines) \in T
  <2> HIDE DEF T
  <2> QED
    BY <1>2, <1>5, <1>6, Induction
<1>8. Counted(parseFile(lines))
  BY <1>2, <1>3, <1>7 DEF Reads
<1> QED
  BY <1>1, <1>8 DEF Counted
=============================================================================
