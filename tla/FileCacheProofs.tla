-------------------------- MODULE FileCacheProofs --------------------------
(***************************************************************************)
(* Proofs about FileCache, for any set of threads, files, sizes and        *)
(* limits.                                                                 *)
(***************************************************************************)
EXTENDS FileCache, FiniteSetTheorems, SequenceTheorems, TLAPS

-----------------------------------------------------------------------------
(* Sequences without repetitions: what taking out, putting in front and    *)
(* dropping the last do to their elements and to the order of these.       *)

(* Taking an element out.                                                  *)
LEMMA RemoveFacts ==
    ASSUME NEW S, NEW s \in Seq(S), IsInjective(s), NEW x
    PROVE  /\ RemoveFirst(s, x) \in Seq(S)
           /\ IsInjective(RemoveFirst(s, x))
           /\ ToSet(RemoveFirst(s, x)) = ToSet(s) \ {x}
           /\ \A y, z : Before(RemoveFirst(s, x), y, z) <=>
                            Before(s, y, z) /\ y # x /\ z # x
<1> DEFINE r == RemoveFirst(s, x)
<1>1. CASE \A i \in DOMAIN s : s[i] # x
    <2>1. r = s
        BY <1>1 DEF RemoveFirst
    <2>2. ToSet(s) = ToSet(s) \ {x}
        BY <1>1 DEF ToSet
    <2>3. \A y, z : Before(s, y, z) => y # x /\ z # x
        BY <1>1 DEF Before
    <2> QED
        BY <2>1, <2>2, <2>3
<1>2. ASSUME NEW p \in DOMAIN s, s[p] = x
      PROVE  /\ r \in Seq(S) /\ IsInjective(r) /\ ToSet(r) = ToSet(s) \ {x}
             /\ \A y, z : Before(r, y, z) <=> Before(s, y, z) /\ y # x /\ z # x
    <2>1. {i \in 1 .. Len(s) : s[i] = x} = {p}
        BY <1>2 DEF IsInjective
    <2>2. Min({p}) = p
        BY <1>2 DEF Min
    <2>3. r = RemoveAt(s, p)
        BY <1>2, <2>1, <2>2 DEF RemoveFirst, SelectInSeq
    <2>4. /\ r \in Seq(S) /\ Len(r) = Len(s) - 1
          /\ \A k \in 1 .. Len(s) - 1 : r[k] = IF k < p THEN s[k] ELSE s[k + 1]
        <3> DEFINE a == SubSeq(s, 1, p - 1)
                   b == SubSeq(s, p + 1, Len(s))
        <3>1. Len(s) \in Nat /\ p \in 1 .. Len(s) /\ \A k \in 1 .. Len(s) : s[k] \in S
            BY <1>2
        <3>2. /\ a \in Seq(S) /\ Len(a) = p - 1
              /\ \A k \in 1 .. p - 1 : a[k] = s[k]
            <4>1. \A k \in 1 .. p - 1 : s[k] \in S
                BY <3>1
            <4> QED
                BY <3>1, <4>1, SubSeqProperties
        <3>3. /\ b \in Seq(S) /\ Len(b) = Len(s) - p
              /\ \A k \in 1 .. Len(s) - p : b[k] = s[p + k]
            <4>1. \A k \in p + 1 .. Len(s) : s[k] \in S
                BY <3>1
            <4> QED
                BY <3>1, <4>1, SubSeqProperties
        <3> HIDE DEF a, b
        <3>4. r = a \o b
            BY <2>3 DEF RemoveAt, a, b
        <3> HIDE DEF r
        <3>5. /\ a \o b \in Seq(S) /\ Len(a \o b) = Len(a) + Len(b)
              /\ \A k \in 1 .. Len(a) + Len(b) :
                    (a \o b)[k] = IF k <= Len(a) THEN a[k] ELSE b[k - Len(a)]
            BY <3>2, <3>3, ConcatProperties
        <3>6. r \in Seq(S) /\ Len(r) = Len(s) - 1
            BY <3>1, <3>2, <3>3, <3>4, <3>5
        <3>7. ASSUME NEW k \in 1 .. Len(s) - 1
              PROVE  r[k] = IF k < p THEN s[k] ELSE s[k + 1]
            <4>1. r[k] = IF k <= p - 1 THEN a[k] ELSE b[k - (p - 1)]
                <5>1. Len(a) = p - 1 /\ k \in 1 .. Len(a) + Len(b)
                    BY <3>1, <3>2, <3>3
                <5>2. (a \o b)[k] = IF k <= Len(a) THEN a[k] ELSE b[k - Len(a)]
                    BY <3>5, <5>1
                <5> QED
                    BY <3>4, <5>1, <5>2
            <4>2. CASE k < p
                BY <3>1, <3>2, <4>1, <4>2
            <4>3. CASE ~(k < p)
                <5>1. k - (p - 1) \in 1 .. Len(s) - p /\ p + (k - (p - 1)) = k + 1
                    BY <3>1, <4>3
                <5> QED
                    BY <3>1, <3>3, <4>1, <4>3, <5>1
            <4> QED
                BY <4>2, <4>3
        <3> QED
            BY <3>6, <3>7
    <2> HIDE DEF r
    <2>5. p \in 1 .. Len(s) /\ DOMAIN r = 1 .. Len(s) - 1 /\ DOMAIN s = 1 .. Len(s)
        BY <1>2, <2>4
    <2> DEFINE at(k) == IF k < p THEN k ELSE k + 1
               to(k) == IF k < p THEN k ELSE k - 1
    <2>6. \A k \in DOMAIN r : at(k) \in DOMAIN s \ {p} /\ s[at(k)] = r[k]
        BY <2>4, <2>5
    <2>7. \A k \in DOMAIN s \ {p} : to(k) \in DOMAIN r /\ r[to(k)] = s[k]
        BY <2>4, <2>5
    <2>8. \A k \in DOMAIN s : s[k] = x <=> k = p
        BY <1>2 DEF IsInjective
    <2>9. IsInjective(r)
        <3>1. SUFFICES ASSUME NEW j \in DOMAIN r, NEW k \in DOMAIN r, r[j] = r[k]
                       PROVE  j = k
            BY DEF IsInjective
        <3>2. at(j) = at(k)
            BY <2>6, <3>1 DEF IsInjective
        <3> QED
            BY <2>5, <3>2
    <2>10. ToSet(r) = ToSet(s) \ {x}
        BY <2>6, <2>7, <2>8 DEF ToSet
    <2>11. ASSUME NEW y, NEW z, Before(r, y, z)
           PROVE  Before(s, y, z) /\ y # x /\ z # x
        <3>1. PICK j \in DOMAIN r, k \in DOMAIN r : j < k /\ r[j] = y /\ r[k] = z
            BY <2>11 DEF Before
        <3>2. at(j) < at(k)
            BY <2>5, <3>1
        <3> QED
            BY <2>6, <2>8, <3>1, <3>2 DEF Before
    <2>12. ASSUME NEW y, NEW z, Before(s, y, z), y # x, z # x
           PROVE  Before(r, y, z)
        <3>1. PICK j \in DOMAIN s \ {p}, k \in DOMAIN s \ {p} : j < k /\ s[j] = y /\ s[k] = z
            BY <1>2, <2>12 DEF Before
        <3>2. to(j) < to(k)
            BY <2>5, <3>1
        <3> QED
            BY <2>7, <3>1, <3>2 DEF Before
    <2> QED
        BY <2>4, <2>9, <2>10, <2>11, <2>12
<1> QED
    BY <1>1, <1>2

(* Putting a new element in front.                                         *)
LEMMA PushFacts ==
    ASSUME NEW S, NEW s \in Seq(S), IsInjective(s), NEW x \in S, x \notin ToSet(s)
    PROVE  /\ <<x>> \o s \in Seq(S)
           /\ IsInjective(<<x>> \o s)
           /\ ToSet(<<x>> \o s) = ToSet(s) \cup {x}
           /\ \A y, z : Before(<<x>> \o s, y, z) <=>
                            Before(s, y, z) \/ (y = x /\ z \in ToSet(s))
<1> DEFINE r == <<x>> \o s
<1>1. /\ r \in Seq(S) /\ Len(r) = Len(s) + 1 /\ r[1] = x
      /\ \A k \in 1 .. Len(s) : r[k + 1] = s[k]
    OBVIOUS
<1> HIDE DEF r
<1>2. DOMAIN r = 1 .. Len(s) + 1 /\ DOMAIN s = 1 .. Len(s)
    BY <1>1
<1>3. \A k \in DOMAIN r : k = 1 \/ (k - 1 \in DOMAIN s /\ r[k] = s[k - 1])
    BY <1>1, <1>2
<1>4. \A k \in DOMAIN s : k + 1 \in DOMAIN r /\ r[k + 1] = s[k] /\ s[k] # x
    BY <1>1, <1>2 DEF ToSet
<1>5. IsInjective(r)
    <2>1. SUFFICES ASSUME NEW j \in DOMAIN r, NEW k \in DOMAIN r, r[j] = r[k]
                   PROVE  j = k
        BY DEF IsInjective
    <2>2. CASE j = 1 \/ k = 1
        BY <1>1, <1>3, <1>4, <2>1, <2>2
    <2>3. CASE j # 1 /\ k # 1
        <3>1. j - 1 = k - 1
            BY <1>3, <2>1, <2>3 DEF IsInjective
        <3> QED
            BY <1>2, <3>1
    <2> QED
        BY <2>2, <2>3
<1>6. ToSet(r) = ToSet(s) \cup {x}
    <2>1. ToSet(r) \subseteq ToSet(s) \cup {x}
        BY <1>1, <1>3 DEF ToSet
    <2>2. x \in ToSet(r)
        BY <1>1, <1>2 DEF ToSet
    <2>3. ToSet(s) \subseteq ToSet(r)
        BY <1>4 DEF ToSet
    <2> QED
        BY <2>1, <2>2, <2>3
<1>7. ASSUME NEW y, NEW z, Before(r, y, z)
      PROVE  Before(s, y, z) \/ (y = x /\ z \in ToSet(s))
    <2>1. PICK j \in DOMAIN r, k \in DOMAIN r : j < k /\ r[j] = y /\ r[k] = z
        BY <1>7 DEF Before
    <2>2. k # 1
        BY <1>2, <2>1
    <2>3. k - 1 \in DOMAIN s /\ s[k - 1] = z
        BY <1>3, <2>1, <2>2
    <2>4. CASE j = 1
        BY <1>1, <2>1, <2>3, <2>4 DEF ToSet
    <2>5. CASE j # 1
        <3>1. j - 1 \in DOMAIN s /\ s[j - 1] = y /\ j - 1 < k - 1
            BY <1>2, <1>3, <2>1, <2>5
        <3> QED
            BY <2>3, <3>1 DEF Before
    <2> QED
        BY <2>4, <2>5
<1>8. ASSUME NEW y, NEW z, Before(s, y, z)  PROVE Before(r, y, z)
    <2>1. PICK j \in DOMAIN s, k \in DOMAIN s : j < k /\ s[j] = y /\ s[k] = z
        BY <1>8 DEF Before
    <2>2. j + 1 < k + 1
        BY <1>2, <2>1
    <2> QED
        BY <1>4, <2>1, <2>2 DEF Before
<1>9. ASSUME NEW z \in ToSet(s)  PROVE Before(r, x, z)
    <2>1. PICK k \in DOMAIN s : s[k] = z
        BY <1>9 DEF ToSet
    <2>2. 1 \in DOMAIN r /\ 1 < k + 1
        BY <1>2, <2>1
    <2> QED
        BY <1>1, <1>4, <2>1, <2>2 DEF Before
<1>10. r \in Seq(S)
    BY <1>1
<1> QED
    BY <1>5, <1>6, <1>7, <1>8, <1>9, <1>10 DEF r

(* Moving an element to the front, or adding it there.                     *)
LEMMA ToFrontFacts ==
    ASSUME NEW S, NEW s \in Seq(S), IsInjective(s), NEW x \in S
    PROVE  /\ ToFront(s, x) \in Seq(S)
           /\ IsInjective(ToFront(s, x))
           /\ ToSet(ToFront(s, x)) = ToSet(s) \cup {x}
           /\ \A y, z : Before(ToFront(s, x), y, z) <=>
                            /\ z # x
                            /\ Before(s, y, z) \/ (y = x /\ z \in ToSet(s))
<1> DEFINE r == RemoveFirst(s, x)
<1>1. /\ r \in Seq(S) /\ IsInjective(r) /\ ToSet(r) = ToSet(s) \ {x}
      /\ \A y, z : Before(r, y, z) <=> Before(s, y, z) /\ y # x /\ z # x
    BY RemoveFacts
<1> HIDE DEF r
<1>2. /\ <<x>> \o r \in Seq(S) /\ IsInjective(<<x>> \o r) /\ ToSet(<<x>> \o r) = ToSet(r) \cup {x}
      /\ \A y, z : Before(<<x>> \o r, y, z) <=> Before(r, y, z) \/ (y = x /\ z \in ToSet(r))
    BY <1>1, PushFacts
<1>3. ToFront(s, x) = <<x>> \o r
    BY DEF ToFront, r
<1>4. \A y, z : Before(s, y, z) => y \in ToSet(s) /\ z \in ToSet(s)
    BY DEF Before, ToSet
<1>5. ToSet(r) \cup {x} = ToSet(s) \cup {x} /\ \A z : z \in ToSet(r) <=> z \in ToSet(s) /\ z # x
    BY <1>1
<1>6. \A y, z : Before(r, y, z) \/ (y = x /\ z \in ToSet(r)) <=>
                    /\ z # x
                    /\ Before(s, y, z) \/ (y = x /\ z \in ToSet(s))
    BY <1>1, <1>4, <1>5
<1> QED
    BY <1>2, <1>3, <1>5, <1>6

(* Dropping the last element.                                              *)
LEMMA FrontFacts ==
    ASSUME NEW S, NEW s \in Seq(S), IsInjective(s), s # <<>>
    PROVE  /\ Last(s) \in ToSet(s)
           /\ Front(s) \in Seq(S)
           /\ IsInjective(Front(s))
           /\ ToSet(Front(s)) = ToSet(s) \ {Last(s)}
           /\ \A y, z : Before(Front(s), y, z) <=>
                            Before(s, y, z) /\ y # Last(s) /\ z # Last(s)
<1> DEFINE r == Front(s)
           n == Len(s)
<1>1. /\ n \in Nat \ {0} /\ r \in Seq(S) /\ Len(r) = n - 1
      /\ \A k \in 1 .. n - 1 : r[k] = s[k]
    <2>1. n \in Nat \ {0} /\ \A k \in 1 .. n - 1 : s[k] \in S
        OBVIOUS
    <2>2. /\ r \in Seq(S) /\ Len(r) = IF 1 <= n - 1 THEN n - 1 - 1 + 1 ELSE 0
          /\ \A k \in 1 .. n - 1 - 1 + 1 : r[k] = s[1 + k - 1]
        BY <2>1, SubSeqProperties DEF Front
    <2> HIDE DEF r, n
    <2>3. Len(r) = n - 1
        BY <2>1, <2>2
    <2>4. \A k \in 1 .. n - 1 : r[k] = s[k]
        BY <2>1, <2>2
    <2> QED
        BY <2>1, <2>2, <2>3, <2>4
<1> HIDE DEF r
<1>2. DOMAIN r = 1 .. n - 1 /\ DOMAIN s = 1 .. n /\ n \in DOMAIN s
    BY <1>1
<1>3. \A k \in DOMAIN s : s[k] = Last(s) <=> k = n
    BY <1>2 DEF Last, IsInjective
<1>4. \A k : k \in DOMAIN r <=> k \in DOMAIN s /\ k # n
    BY <1>1, <1>2
<1>5. \A k \in DOMAIN r : r[k] = s[k]
    BY <1>1, <1>2
<1>6. IsInjective(r)
    BY <1>4, <1>5 DEF IsInjective
<1>7. ToSet(r) = ToSet(s) \ {Last(s)}
    BY <1>3, <1>4, <1>5 DEF ToSet
<1>8. \A y, z : Before(r, y, z) <=> Before(s, y, z) /\ y # Last(s) /\ z # Last(s)
    BY <1>3, <1>4, <1>5 DEF Before
<1>9. Last(s) \in ToSet(s)
    BY <1>2 DEF Last, ToSet
<1> QED
    BY <1>1, <1>6, <1>7, <1>8, <1>9 DEF r

(* Such a sequence is as long as the set of its elements is large.         *)
LEMMA CountElements ==
    ASSUME NEW S, NEW s \in Seq(S), IsInjective(s)
    PROVE  IsFiniteSet(ToSet(s)) /\ Cardinality(ToSet(s)) = Len(s)
<1>1. Len(s) \in Nat /\ DOMAIN s = 1 .. Len(s)
    OBVIOUS
<1>2. s \in Bijection(1 .. Len(s), ToSet(s))
    BY <1>1 DEF Bijection, Injection, Surjection, ToSet, IsInjective
<1>3. ExistsBijection(1 .. Len(s), ToSet(s))
    BY <1>2 DEF ExistsBijection
<1>4. IsFiniteSet(ToSet(s))
    BY <1>1, <1>3, FS_NatBijection
<1> QED
    BY <1>1, <1>3, <1>4, FS_CountingElements

-----------------------------------------------------------------------------
(* The bytes the cache holds.                                              *)

(* The bytes of one entry.                                                 *)
LEMMA BlockSize ==
    ASSUME NEW f, NEW n \in Nat
    PROVE  IsFiniteSet({f} \X (1 .. n)) /\ Cardinality({f} \X (1 .. n)) = n
<1>1. IsFiniteSet({f}) /\ Cardinality({f}) = 1
    BY FS_Singleton
<1>2. IsFiniteSet(1 .. n) /\ Cardinality(1 .. n) = n
    BY FS_Interval
<1>3. /\ IsFiniteSet({f} \X (1 .. n))
      /\ Cardinality({f} \X (1 .. n)) = Cardinality({f}) * Cardinality(1 .. n)
    BY <1>1, <1>2, FS_Product
<1> QED
    BY <1>1, <1>2, <1>3

(* Two sets that have nothing in common.                                   *)
LEMMA DisjointUnion ==
    ASSUME NEW S, NEW T, IsFiniteSet(S), IsFiniteSet(T), S \cap T = {}
    PROVE  /\ IsFiniteSet(S \cup T)
           /\ Cardinality(S \cup T) = Cardinality(S) + Cardinality(T)
           /\ Cardinality(S) \in Nat /\ Cardinality(T) \in Nat
<1>1. Cardinality(S) \in Nat /\ Cardinality(T) \in Nat
    BY FS_CardinalityType
<1>2. Cardinality(S \cap T) = 0
    BY FS_EmptySet
<1>3. /\ IsFiniteSet(S \cup T)
      /\ Cardinality(S \cup T) = Cardinality(S) + Cardinality(T) - Cardinality(S \cap T)
    BY FS_Union
<1> QED
    BY <1>1, <1>2, <1>3

(* An entry that is added brings its bytes,                                *)
LEMMA AddEntry ==
    ASSUME TypeOK, IsFiniteSet(Bytes), NEW f \in Files, cache_[f] = None,
           NEW e \in Entry, cache_' = [cache_ EXCEPT ![f] = e]
    PROVE  /\ Cached' = Cached \cup {f}
           /\ IsFiniteSet(Bytes')
           /\ Cardinality(Bytes') = Cardinality(Bytes) + e.file_size
           /\ Cardinality(Bytes) \in Nat
<1>1. /\ cache_'[f] = e /\ e # None /\ e.file_size \in Nat
      /\ \A g \in Files \ {f} : cache_'[g] = cache_[g]
    BY FileCacheAssumption DEF TypeOK, Entry
<1>2. Cached' = Cached \cup {f} /\ f \notin Cached
    BY <1>1 DEF Cached
<1> DEFINE new == {f} \X (1 .. e.file_size)
<1>3. Bytes' = Bytes \cup new
    BY <1>1, <1>2 DEF Bytes, Cached
<1>4. Bytes \cap new = {}
    BY <1>2 DEF Bytes
<1>5. IsFiniteSet(new) /\ Cardinality(new) = e.file_size
    BY <1>1, BlockSize
<1> HIDE DEF new
<1> QED
    BY <1>2, <1>3, <1>4, <1>5, DisjointUnion

(* and one that is removed takes them away.                                *)
LEMMA RemoveEntry ==
    ASSUME TypeOK, IsFiniteSet(Bytes), NEW f \in Cached,
           cache_' = [cache_ EXCEPT ![f] = None]
    PROVE  /\ Cached' = Cached \ {f}
           /\ IsFiniteSet(Bytes')
           /\ Cardinality(Bytes') = Cardinality(Bytes) - cache_[f].file_size
           /\ cache_[f] \in Entry
           /\ Cardinality(Bytes) \in Nat /\ Cardinality(Bytes') \in Nat
<1>1. /\ f \in Files /\ cache_[f] \in Entry /\ cache_'[f] = None
      /\ \A g \in Files \ {f} : cache_'[g] = cache_[g]
    BY DEF TypeOK, Cached
<1>2. Cached' = Cached \ {f}
    BY <1>1 DEF Cached
<1> DEFINE old == {f} \X (1 .. cache_[f].file_size)
<1>3. Bytes = Bytes' \cup old
    BY <1>1, <1>2 DEF Bytes, Cached
<1>4. Bytes' \cap old = {}
    BY <1>2 DEF Bytes
<1>5. cache_[f].file_size \in Nat
    BY <1>1 DEF Entry
<1>6. IsFiniteSet(old) /\ Cardinality(old) = cache_[f].file_size
    BY <1>5, BlockSize
<1> HIDE DEF old
<1>7. IsFiniteSet(Bytes')
    BY <1>3, FS_Subset
<1>8. /\ Cardinality(Bytes) = Cardinality(Bytes') + Cardinality(old)
      /\ Cardinality(Bytes') \in Nat
    BY <1>3, <1>4, <1>6, <1>7, DisjointUnion
<1> QED
    BY <1>1, <1>2, <1>5, <1>6, <1>7, <1>8

-----------------------------------------------------------------------------
(* The invariant.                                                          *)

Loading == {"open", "size", "read", "mtime"}
Loaded  == {"size", "read", "mtime"}

(* One call at a time; what a call knows at its locations.                 *)
CallInv ==
    /\ \A t \in Threads :
          /\ pc[t] # "idle" <=> mutex_ = t
          /\ pc[t] \in Loading \cup {"lookup"} =>
                path[t] \in Files /\ current_size_ <= max_size_
          /\ pc[t] \in Loading => cache_[path[t]] = None
          /\ pc[t] \in {"size", "read"} => file[t] \in Stream
          /\ pc[t] \in {"read", "mtime"} => new_file[t] \in Entry
    /\ mutex_ = None => current_size_ <= max_size_

(* The list holds each cached path once.                                   *)
ListInv == IsInjective(lru_list_) /\ ToSet(lru_list_) = Cached

(* The accounting is that of finitely many bytes.                          *)
SizeInv == IsFiniteSet(Bytes) /\ current_size_ = Cardinality(Bytes)

(* The order of the list is that of the last uses.                         *)
OrderInv == IsInjective(recent) /\ Cached \subseteq ToSet(recent) /\ LeastRecentlyUsed

(* What load_file has opened, and then what it has read, is on disk still, *)
(* and of the size it was told, ...                                        *)
LoadInv(t) ==
    /\ pc[t] \in {"size", "read"} /\ disk[path[t]] # None =>
          disk[path[t]].ver = file[t].ver /\ disk[path[t]].size = file[t].size
    /\ pc[t] = "read" => new_file[t].file_size = file[t].size
    /\ pc[t] = "mtime" /\ disk[path[t]] # None => disk[path[t]].ver = new_file[t].ver

(* ... or the path counts as raced.                                        *)
FreshInv ==
    /\ \A t \in Threads : path[t] \notin raced => LoadInv(t)
    /\ ChangesNoticed

CacheInv == TypeOK /\ CallInv /\ ListInv /\ SizeInv /\ OrderInv /\ FreshInv

(* The initial state satisfies it.                                         *)
LEMMA InitInv == Init => CacheInv
<1> SUFFICES ASSUME Init
             PROVE  CacheInv
    OBVIOUS
<1> USE FileCacheAssumption DEF Init
<1>1. TypeOK
    BY DEF TypeOK, Locs
<1>2. Cached = {} /\ Bytes = {}
    BY DEF Cached, Bytes
<1>3. CallInv
    BY DEF CallInv, Loading
<1>4. ListInv
    BY <1>2 DEF ListInv, IsInjective, ToSet
<1>5. SizeInv
    BY <1>2, FS_EmptySet DEF SizeInv
<1>6. OrderInv
    BY <1>2 DEF OrderInv, LeastRecentlyUsed, IsInjective
<1>7. FreshInv
    BY <1>2 DEF FreshInv, LoadInv, ChangesNoticed
<1> QED
    BY <1>1, <1>3, <1>4, <1>5, <1>6, <1>7 DEF CacheInv

-----------------------------------------------------------------------------
(* Steps.                                                                  *)

(* A call under way is the only one.                                       *)
LEMMA Alone ==
    ASSUME CacheInv, NEW t \in Threads, pc[t] # "idle"
    PROVE  mutex_ = t /\ t # None /\ \A u \in Threads \ {t} : pc[u] = "idle"
BY FileCacheAssumption DEF CacheInv, CallInv

(* What a file's mtime and size can be.                                    *)
LEMMA StatFacts ==
    ASSUME TypeOK, NEW f \in Files
    PROVE  mtime(f) \in Nat /\ size(f) \in Nat
BY FileCacheAssumption DEF TypeOK, mtime, size, File

(* What the steps that change the cache do to the list, the map and the    *)
(* bytes: a stale entry goes,                                              *)
LEMMA InvalidateFacts ==
    ASSUME CacheInv, NEW t \in Threads, Invalidate(t)
    PROVE  /\ path[t] \in Cached /\ cache_[path[t]] \in Entry
           /\ lru_list_' \in Seq(Files) /\ IsInjective(lru_list_')
           /\ ToSet(lru_list_') = Cached \ {path[t]} /\ Cached' = Cached \ {path[t]}
           /\ IsFiniteSet(Bytes') /\ current_size_' = Cardinality(Bytes')
           /\ current_size_' \in Nat /\ current_size_' <= current_size_
           /\ cache_' \in [Files -> Entry \cup {None}]
           /\ cache_'[path[t]] = None
           /\ \A g \in Files \ {path[t]} : cache_'[g] = cache_[g]
<1> DEFINE f == path[t]
<1>1. f \in Files /\ f \in Cached /\ cache_' = [cache_ EXCEPT ![f] = None]
    BY DEF CacheInv, CallInv, Invalidate, Cached
<1>2. TypeOK /\ ListInv /\ SizeInv
    BY DEF CacheInv
<1> HIDE DEF f
<1>3. /\ Cached' = Cached \ {f} /\ IsFiniteSet(Bytes') /\ cache_[f] \in Entry
      /\ Cardinality(Bytes') = Cardinality(Bytes) - cache_[f].file_size
      /\ Cardinality(Bytes) \in Nat /\ Cardinality(Bytes') \in Nat
    BY <1>1, <1>2, RemoveEntry DEF SizeInv
<1>4. /\ lru_list_' \in Seq(Files) /\ IsInjective(lru_list_')
      /\ ToSet(lru_list_') = Cached \ {f}
    <2>1. lru_list_' = RemoveFirst(lru_list_, f) /\ lru_list_ \in Seq(Files)
        BY <1>2 DEF Invalidate, TypeOK, f
    <2> QED
        BY <2>1, <1>2, RemoveFacts DEF ListInv
<1>5. /\ current_size_' = current_size_ - cache_[f].file_size
      /\ current_size_ = Cardinality(Bytes) /\ cache_[f].file_size \in Nat
    BY <1>2, <1>3 DEF Invalidate, SizeInv, Entry, f
<1>6. /\ cache_' \in [Files -> Entry \cup {None}] /\ cache_'[f] = None
      /\ \A g \in Files \ {f} : cache_'[g] = cache_[g]
    BY <1>1, <1>2 DEF TypeOK
<1> QED
    BY <1>1, <1>3, <1>4, <1>5, <1>6 DEF f

(* a new one comes first,                                                  *)
LEMMA InsertFacts ==
    ASSUME CacheInv, NEW t \in Threads, Insert(t)
    PROVE  /\ path[t] \in Files /\ path[t] \notin Cached
           /\ new_file' \in [Threads -> Entry \cup {None}] /\ cache_'[path[t]] = new_file'[t]
           /\ new_file'[t] \in Entry
           /\ new_file'[t].ver = new_file[t].ver
           /\ new_file'[t].last_modified = mtime(path[t])
           /\ lru_list_' = <<path[t]>> \o lru_list_
           /\ lru_list_' \in Seq(Files) /\ IsInjective(lru_list_')
           /\ ToSet(lru_list_') = Cached \cup {path[t]} /\ Cached' = Cached \cup {path[t]}
           /\ IsFiniteSet(Bytes') /\ current_size_' = Cardinality(Bytes')
           /\ current_size_' \in Nat
           /\ cache_' \in [Files -> Entry \cup {None}]
           /\ \A g \in Files \ {path[t]} : cache_'[g] = cache_[g]
<1> DEFINE f == path[t]
           e == [new_file[t] EXCEPT !.last_modified = mtime(f)]
<1>1. /\ f \in Files /\ cache_[f] = None /\ f \notin Cached /\ new_file[t] \in Entry
      /\ TypeOK /\ ListInv /\ SizeInv
    BY DEF CacheInv, CallInv, Insert, Cached, Loading
<1>2. mtime(f) \in Nat
    BY <1>1, StatFacts
<1>3. e \in Entry /\ e.ver = new_file[t].ver /\ e.last_modified = mtime(f)
    BY <1>1, <1>2 DEF Entry
<1>4. /\ cache_' = [cache_ EXCEPT ![f] = e] /\ lru_list_' = <<f>> \o lru_list_
      /\ current_size_' = current_size_ + e.file_size
      /\ new_file' = [new_file EXCEPT ![t] = e]
    BY DEF Insert
<1> HIDE DEF f, e
<1>5. /\ Cached' = Cached \cup {f} /\ IsFiniteSet(Bytes')
      /\ Cardinality(Bytes') = Cardinality(Bytes) + e.file_size
      /\ Cardinality(Bytes) \in Nat /\ e.file_size \in Nat
    <2>1. e.file_size \in Nat
        BY <1>3 DEF Entry
    <2> QED
        BY <2>1, <1>1, <1>3, <1>4, AddEntry DEF SizeInv
<1>6. /\ lru_list_' \in Seq(Files) /\ IsInjective(lru_list_')
      /\ ToSet(lru_list_') = Cached \cup {f}
    BY <1>1, <1>4, PushFacts DEF ListInv, TypeOK
<1>7. current_size_' = Cardinality(Bytes') /\ current_size_' \in Nat
    BY <1>1, <1>4, <1>5 DEF SizeInv
<1>8. /\ new_file' \in [Threads -> Entry \cup {None}] /\ new_file'[t] = e
      /\ cache_' \in [Files -> Entry \cup {None}] /\ cache_'[f] = e
      /\ \A g \in Files \ {f} : cache_'[g] = cache_[g]
    BY <1>1, <1>3, <1>4 DEF TypeOK
<1>9. f = path[t]
    BY DEF f
<1> QED
    BY <1>1, <1>3, <1>4, <1>5, <1>6, <1>7, <1>8, <1>9

(* the last one goes,                                                      *)
LEMMA EvictFacts ==
    ASSUME CacheInv, NEW t \in Threads, Evict(t)
    PROVE  \E f \in Cached :
              /\ f = Last(lru_list_) /\ lru_list_' = Front(lru_list_)
              /\ lru_list_' \in Seq(Files) /\ IsInjective(lru_list_')
              /\ ToSet(lru_list_') = Cached \ {f} /\ Cached' = Cached \ {f}
              /\ IsFiniteSet(Bytes') /\ current_size_' = Cardinality(Bytes')
              /\ current_size_' \in Nat
              /\ cache_' \in [Files -> Entry \cup {None}]
              /\ \A g \in Files \ {f} : cache_'[g] = cache_[g]
<1> DEFINE f == Last(lru_list_)
<1>1. /\ TypeOK /\ ListInv /\ SizeInv /\ lru_list_ \in Seq(Files) /\ lru_list_ # <<>>
    BY DEF CacheInv, TypeOK, Evict
<1>2. /\ f \in Cached /\ Front(lru_list_) \in Seq(Files) /\ IsInjective(Front(lru_list_))
      /\ ToSet(Front(lru_list_)) = Cached \ {f}
    BY <1>1, FrontFacts DEF ListInv
<1>3. /\ current_size_' = current_size_ - cache_[f].file_size
      /\ cache_' = [cache_ EXCEPT ![f] = None] /\ lru_list_' = Front(lru_list_)
    BY <1>2 DEF Evict, Cached
<1>4. f = Last(lru_list_)
    OBVIOUS
<1> HIDE DEF f
<1>5. /\ Cached' = Cached \ {f} /\ IsFiniteSet(Bytes') /\ cache_[f] \in Entry
      /\ Cardinality(Bytes') = Cardinality(Bytes) - cache_[f].file_size
      /\ Cardinality(Bytes) \in Nat /\ Cardinality(Bytes') \in Nat
    BY <1>1, <1>2, <1>3, RemoveEntry DEF SizeInv
<1>6. current_size_' = Cardinality(Bytes') /\ current_size_' \in Nat
    BY <1>1, <1>3, <1>5 DEF SizeInv
<1>7. /\ cache_' \in [Files -> Entry \cup {None}]
      /\ \A g \in Files \ {f} : cache_'[g] = cache_[g]
    BY <1>1, <1>2, <1>3 DEF TypeOK, Cached
<1> QED
    BY <1>2, <1>3, <1>4, <1>5, <1>6, <1>7

(* and a hit comes to the front.                                           *)
LEMMA HitFacts ==
    ASSUME CacheInv, NEW t \in Threads, Hit(t)
    PROVE  /\ path[t] \in Cached
           /\ lru_list_' \in Seq(Files) /\ IsInjective(lru_list_')
           /\ ToSet(lru_list_') = Cached
<1>1. /\ path[t] \in Cached /\ path[t] \in Files /\ lru_list_ \in Seq(Files)
      /\ lru_list_' = ToFront(lru_list_, path[t])
    BY DEF CacheInv, CallInv, TypeOK, Hit, Cached
<1>2. IsInjective(lru_list_) /\ ToSet(lru_list_) = Cached
    BY DEF CacheInv, ListInv
<1>3. /\ lru_list_' \in Seq(Files) /\ IsInjective(lru_list_')
      /\ ToSet(lru_list_') = ToSet(lru_list_) \cup {path[t]}
    BY <1>1, <1>2, ToFrontFacts
<1> QED
    BY <1>1, <1>2, <1>3

(* load_file's stream and entry are well formed, until it fails.            *)
LEMMA LoadFacts ==
    ASSUME CacheInv, NEW t \in Threads, Open(t) \/ StatSize(t) \/ Read(t), ~Return(t)
    PROVE  /\ new_file' \in [Threads -> Entry \cup {None}]
           /\ file' \in [Threads -> Stream \cup {None}]
           /\ raced' \subseteq Files
           /\ pc[t] \in {"open", "size"} => file'[t] \in Stream
           /\ pc[t] \in {"size", "read"} => new_file'[t] \in Entry
<1>1. /\ TypeOK /\ path[t] \in Files /\ new_file \in [Threads -> Entry \cup {None}]
      /\ file \in [Threads -> Stream \cup {None}] /\ raced \subseteq Files
      /\ pc[t] \in {"size", "read"} => file[t] \in Stream
      /\ pc[t] = "read" => new_file[t] \in Entry
    BY DEF CacheInv, CallInv, TypeOK, Open, StatSize, Read, Loading
<1>2. ASSUME NEW e \in Entry, new_file' = [new_file EXCEPT ![t] = e]
      PROVE  new_file' \in [Threads -> Entry \cup {None}] /\ new_file'[t] \in Entry
    BY <1>1, <1>2
<1>3. ASSUME NEW e \in Stream \cup {None}, file' = [file EXCEPT ![t] = e]
      PROVE  file' \in [Threads -> Stream \cup {None}] /\ file'[t] = e
    BY <1>1, <1>3
<1>4. CASE Open(t)
    <2>1. disk[path[t]] # None => disk[path[t]].ver \in Nat /\ disk[path[t]].size \in Nat
        BY <1>1, FileCacheAssumption DEF TypeOK, File
    <2>2. [ver |-> disk[path[t]].ver, size |-> disk[path[t]].size, linked |-> TRUE] \in Stream
        BY <2>1, <1>4 DEF Open, Stream
    <2>3. /\ pc[t] = "open" /\ UNCHANGED new_file /\ raced' = raced \ {path[t]}
          /\ file' = [file EXCEPT ![t] =
                [ver |-> disk[path[t]].ver, size |-> disk[path[t]].size, linked |-> TRUE]]
        BY <1>4 DEF Open
    <2> QED
        BY <2>2, <2>3, <1>1, <1>3
<1>5. CASE StatSize(t)
    <2>1. [ver |-> Torn, file_size |-> size(path[t]), last_modified |-> 0] \in Entry
        BY <1>1, StatFacts DEF Entry, Torn
    <2> QED
        BY <2>1, <1>1, <1>2, <1>5 DEF StatSize
<1>6. CASE Read(t)
    <2> DEFINE v == IF file[t].size = new_file[t].file_size THEN file[t].ver ELSE Torn
    <2>1. /\ pc[t] = "read" /\ file[t] \in Stream /\ new_file[t] \in Entry
          /\ UNCHANGED raced /\ file' = [file EXCEPT ![t] = None]
          /\ new_file' = [new_file EXCEPT ![t].ver = v]
        BY <1>1, <1>6 DEF Read
    <2>2. v \in Nat
        BY <2>1 DEF Stream, Torn
    <2> HIDE DEF v
    <2>3. [new_file[t] EXCEPT !.ver = v] \in Entry
        BY <2>1, <2>2 DEF Entry
    <2> QED
        BY <2>1, <2>3, <1>1, <1>2, <1>3
<1> QED
    BY <1>4, <1>5, <1>6

(* The steps of the file system,                                           *)
FsStep == Tick \/ \E f \in Files : Delete(f) \/ \E s \in Sizes, m \in 1..now : Write(f, s, m)

(* which leave calls and the cache alone.                                  *)
LEMMA FsFrame ==
    ASSUME FsStep \/ UNCHANGED vars
    PROVE  UNCHANGED <<lookup, mutex_, max_size_, pc, path, new_file, recent>>
BY DEF FsStep, Tick, Delete, Write, vars, locals

(* A change of a file changes the streams of those who read that file.     *)
LEMMA StreamsKept ==
    ASSUME TypeOK, NEW f \in Files, NEW v \in Nat, NEW s \in Nat,
           file' = Rewritten(f, v, s) \/ file' = Unlinked(f)
    PROVE  /\ file' \in [Threads -> Stream \cup {None}]
           /\ \A t \in Threads : file[t] \in Stream => file'[t] \in Stream
           /\ \A t \in Threads : path[t] # f => file'[t] = file[t]
           /\ file' = Unlinked(f) => \A t \in Threads :
                 file[t] \in Stream => file'[t].ver = file[t].ver /\ file'[t].size = file[t].size
<1>0. file \in [Threads -> Stream \cup {None}] /\ None \notin Stream
    BY FileCacheAssumption DEF TypeOK
<1>1. [ver |-> v, size |-> s, linked |-> TRUE] \in Stream
    BY DEF Stream
<1>2. ASSUME NEW e \in Stream
      PROVE  LET u == [e EXCEPT !.linked = FALSE]
             IN  u \in Stream /\ u.ver = e.ver /\ u.size = e.size
    BY DEF Stream
<1>3. CASE file' = Rewritten(f, v, s)
    BY <1>0, <1>1, <1>3 DEF Rewritten, Linked, Unlinked
<1>4. CASE file' = Unlinked(f)
    <2>1. ASSUME NEW t \in Threads
          PROVE  /\ file'[t] \in Stream \cup {None}
                 /\ file[t] \in Stream => /\ file'[t] \in Stream
                                          /\ file'[t].ver = file[t].ver
                                          /\ file'[t].size = file[t].size
                 /\ path[t] # f => file'[t] = file[t]
        BY <1>0, <1>2, <1>4 DEF Unlinked, Linked
    <2>2. file' = [t \in Threads |-> file'[t]]
        BY <1>4 DEF Unlinked
    <2> QED
        BY <2>1, <2>2
<1> QED
    BY <1>3, <1>4

(* So no step of the file system spoils a stream.                          *)
LEMMA FsStreams ==
    ASSUME TypeOK, FsStep \/ UNCHANGED vars
    PROVE  /\ file' \in [Threads -> Stream \cup {None}]
           /\ \A t \in Threads : file[t] \in Stream => file'[t] \in Stream
<1>1. CASE Tick \/ UNCHANGED vars
    BY <1>1 DEF Tick, vars, locals, TypeOK
<1>2. ASSUME NEW f \in Files, Delete(f)
      PROVE  /\ file' \in [Threads -> Stream \cup {None}]
             /\ \A t \in Threads : file[t] \in Stream => file'[t] \in Stream
    <2>1. 0 \in Nat /\ file' = Unlinked(f)
        BY <1>2 DEF Delete
    <2> QED
        BY <2>1, StreamsKept
<1>3. ASSUME NEW f \in Files, NEW s \in Sizes, NEW m \in 1..now, Write(f, s, m)
      PROVE  /\ file' \in [Threads -> Stream \cup {None}]
             /\ \A t \in Threads : file[t] \in Stream => file'[t] \in Stream
    <2>1. /\ version + 1 \in Nat /\ s \in Nat
          /\ file' = Rewritten(f, version + 1, s) \/ file' = Unlinked(f)
        BY <1>3, FileCacheAssumption DEF Write, TypeOK
    <2> QED
        BY <2>1, StreamsKept
<1> QED
    BY <1>1, <1>2, <1>3 DEF FsStep

(* Every step keeps the types.                                             *)
LEMMA StepType == CacheInv /\ [Next]_vars => TypeOK'
<1> SUFFICES ASSUME CacheInv, [Next]_vars
             PROVE  TypeOK'
    OBVIOUS
<1>0. TypeOK
    BY DEF CacheInv
<1>1. CASE FsStep
    <2>1. now' \in 1 .. MaxTime /\ version' \in 0 .. MaxVersion
        BY <1>0, <1>1, FileCacheAssumption DEF FsStep, Tick, Delete, Write, TypeOK
    <2>2. disk' \in [Files -> File \cup {None}]
        <3>1. ASSUME NEW f \in Files, NEW s \in Sizes, NEW m \in 1..now, Write(f, s, m)
              PROVE  disk' \in [Files -> File \cup {None}]
            <4>1. [ver |-> version + 1, size |-> s, mtime |-> m] \in File
                BY <1>0 DEF TypeOK, File
            <4> QED
                BY <1>0, <3>1, <4>1 DEF Write, TypeOK
        <3> QED
            BY <1>0, <1>1, <3>1 DEF FsStep, Tick, Delete, TypeOK
    <2>3. raced' \subseteq Files
        BY <1>0, <1>1 DEF FsStep, Tick, Delete, Write, TypeOK
    <2> QED
        BY <1>0, <1>1, <2>1, <2>2, <2>3, FsFrame, FsStreams DEF TypeOK, lookup
<1>2. ASSUME NEW t \in Threads, NEW f \in Files, Get(t, f)
      PROVE  TypeOK'
    BY <1>0, <1>2 DEF Get, Goto, TypeOK, fs, lookup, Locs
<1>3. ASSUME NEW t \in Threads, NEW limit \in Limits, set_max_size(t, limit)
      PROVE  TypeOK'
    BY <1>0, <1>3 DEF set_max_size, Goto, TypeOK, fs, lookup, locals, Locs
<1>4. ASSUME NEW t \in Threads, Miss(t)
      PROVE  TypeOK'
    BY <1>0, <1>4 DEF Miss, Goto, TypeOK, fs, lookup, locals, Locs
<1>5. ASSUME NEW t \in Threads, Invalidate(t)
      PROVE  TypeOK'
    <2>1. /\ lru_list_' \in Seq(Files) /\ current_size_' \in Nat
          /\ cache_' \in [Files -> Entry \cup {None}]
        BY <1>5, InvalidateFacts
    <2> QED
        BY <1>0, <1>5, <2>1 DEF Invalidate, Goto, TypeOK, fs, locals, Locs
<1>6. ASSUME NEW t \in Threads, Hit(t)
      PROVE  TypeOK'
    <2>1. lru_list_' \in Seq(Files)
        BY <1>6, HitFacts
    <2>2. recent' \in Seq(Files)
        <3>1. /\ IsInjective(recent) /\ recent \in Seq(Files)
              /\ path[t] \in Files /\ recent' = ToFront(recent, path[t])
            BY <1>6 DEF CacheInv, CallInv, OrderInv, TypeOK, Hit
        <3> QED
            BY <3>1, ToFrontFacts
    <2> QED
        BY <1>0, <1>6, <2>1, <2>2 DEF Hit, Return, Goto, TypeOK, fs, Locs
<1>7. ASSUME NEW t \in Threads, Open(t) \/ StatSize(t) \/ Evicted(t)
      PROVE  TypeOK'
    <2>1. /\ UNCHANGED <<fs, lookup, max_size_, recent>>
          /\ pc' \in [Threads -> Locs] /\ mutex_' \in Threads \cup {None}
          /\ path' \in [Threads -> Files \cup {None}]
        BY <1>0, <1>7 DEF Open, StatSize, Evicted, Return, Goto, TypeOK, Locs
    <2>2. /\ new_file' \in [Threads -> Entry \cup {None}]
          /\ file' \in [Threads -> Stream \cup {None}]
        <3>1. CASE Return(t)
            BY <1>0, <3>1 DEF Return, TypeOK
        <3>2. CASE ~Return(t)
            BY <1>7, <3>2, LoadFacts DEF Evicted
        <3> QED
            BY <3>1, <3>2
    <2>3. raced' \subseteq Files
        BY <1>0, <1>7 DEF Open, StatSize, Evicted, TypeOK
    <2> QED
        BY <1>0, <2>1, <2>2, <2>3 DEF TypeOK, fs, lookup
<1>8. ASSUME NEW t \in Threads, Read(t)
      PROVE  TypeOK'
    <2>2. /\ new_file' \in [Threads -> Entry \cup {None}]
          /\ file' \in [Threads -> Stream \cup {None}]
        <3>1. ~Return(t)
            BY <1>0, <1>8 DEF Read, Return, Goto, TypeOK
        <3> QED
            BY <1>8, <3>1, LoadFacts
    <2>3. raced' \subseteq Files /\ pc' \in [Threads -> Locs]
        BY <1>0, <1>8 DEF Read, Goto, TypeOK, Locs
    <2> QED
        BY <1>0, <1>8, <2>2, <2>3 DEF Read, TypeOK, fs, lookup
<1>9. ASSUME NEW t \in Threads, Insert(t)
      PROVE  TypeOK'
    <2>1. /\ lru_list_' \in Seq(Files) /\ current_size_' \in Nat
          /\ cache_' \in [Files -> Entry \cup {None}] /\ path[t] \in Files
          /\ new_file' \in [Threads -> Entry \cup {None}]
        BY <1>9, InsertFacts
    <2>2. recent' \in Seq(Files)
        <3>1. /\ IsInjective(recent) /\ recent \in Seq(Files)
              /\ recent' = ToFront(recent, path[t])
            BY <1>9 DEF CacheInv, OrderInv, TypeOK, Insert
        <3> QED
            BY <2>1, <3>1, ToFrontFacts
    <2> QED
        BY <1>0, <1>9, <2>1, <2>2 DEF Insert, Goto, TypeOK, fs, Locs
<1>10. ASSUME NEW t \in Threads, Evict(t)
       PROVE  TypeOK'
    <2>1. /\ lru_list_' \in Seq(Files) /\ current_size_' \in Nat
          /\ cache_' \in [Files -> Entry \cup {None}]
        BY <1>10, EvictFacts
    <2> QED
        BY <1>0, <1>10, <2>1 DEF Evict, TypeOK, fs, locals
<1>11. CASE UNCHANGED vars
    BY <1>0, <1>11 DEF TypeOK, vars, fs, lookup, locals
<1> QED
    BY <1>1, <1>2, <1>3, <1>4, <1>5, <1>6, <1>7, <1>8, <1>9, <1>10, <1>11
       DEF Next, Step, FsStep

(* Every step keeps the calls apart, and what a call knows true.           *)
LEMMA StepCalls == CacheInv /\ [Next]_vars => CallInv'
<1> SUFFICES ASSUME CacheInv, [Next]_vars
             PROVE  CallInv'
    OBVIOUS
<1>0. /\ TypeOK /\ CallInv /\ current_size_ \in Nat /\ max_size_ \in Nat
      /\ pc \in [Threads -> Locs] /\ None \notin Threads
    BY FileCacheAssumption DEF CacheInv, TypeOK
<1>1. CASE FsStep \/ UNCHANGED vars
    BY <1>0, <1>1, FsFrame, FsStreams DEF CallInv, lookup
<1>2. ASSUME NEW t \in Threads, NEW f \in Files, Get(t, f)
      PROVE  CallInv'
    <2>1. /\ \A u \in Threads : pc[u] = "idle"
          /\ current_size_ <= max_size_ /\ UNCHANGED <<lookup, max_size_, new_file>>
          /\ mutex_' = t /\ pc'[t] = "lookup" /\ path'[t] = f
          /\ \A u \in Threads \ {t} : pc'[u] = pc[u]
        BY <1>0, <1>2 DEF Get, CallInv, Goto, TypeOK
    <2> QED
        BY <2>1, <1>0 DEF CallInv, Loading, lookup
<1>3. ASSUME NEW t \in Threads, NEW limit \in Limits, set_max_size(t, limit)
      PROVE  CallInv'
    <2>1. /\ \A u \in Threads : pc[u] = "idle"
          /\ mutex_' = t /\ pc'[t] = "evict"
          /\ \A u \in Threads \ {t} : pc'[u] = pc[u]
        BY <1>0, <1>3 DEF set_max_size, CallInv, Goto, TypeOK
    <2> QED
        BY <2>1, <1>0 DEF CallInv, Loading
<1>4. ASSUME NEW t \in Threads, Return(t), pc[t] # "idle",
             UNCHANGED <<cache_, current_size_, max_size_>>, current_size_ <= max_size_
      PROVE  CallInv'
    <2>1. /\ mutex_' = None /\ \A u \in Threads : pc'[u] = "idle"
        BY <1>0, <1>4, Alone DEF Return, Goto
    <2> QED
        BY <2>1, <1>0, <1>4 DEF CallInv, Loading
<1>5. ASSUME NEW t \in Threads, pc[t] # "idle", UNCHANGED <<mutex_, path, max_size_>>,
             NEW l \in Locs \ {"idle"}, Goto(t, l),
             l \in Loading => /\ path[t] \in Files /\ current_size_' <= max_size_
                              /\ cache_'[path[t]] = None,
             l \in {"size", "read"} => file'[t] \in Stream,
             l \in {"read", "mtime"} => new_file'[t] \in Entry,
             l # "lookup"
      PROVE  CallInv'
    <2>1. /\ mutex_ = t /\ t # None /\ pc'[t] = l
          /\ \A u \in Threads \ {t} : pc'[u] = "idle"
        BY <1>0, <1>5, Alone DEF Goto
    <2> QED
        BY <2>1, <1>0, <1>5 DEF CallInv, Loading
<1>6. ASSUME NEW t \in Threads, Miss(t)
      PROVE  CallInv'
    <2>1. /\ pc[t] = "lookup" /\ path[t] \in Files /\ current_size_ <= max_size_
          /\ cache_[path[t]] = None /\ UNCHANGED <<mutex_, path, max_size_, lookup>>
          /\ Goto(t, "open")
        BY <1>0, <1>6 DEF Miss, CallInv, locals
    <2> QED
        BY <2>1, <1>5 DEF Loading, Locs, lookup
<1>7. ASSUME NEW t \in Threads, Invalidate(t)
      PROVE  CallInv'
    <2>1. /\ pc[t] = "lookup" /\ path[t] \in Files /\ current_size_ <= max_size_
          /\ UNCHANGED <<mutex_, path, max_size_>> /\ Goto(t, "open")
        BY <1>0, <1>7 DEF Invalidate, CallInv, locals
    <2>2. cache_'[path[t]] = None /\ current_size_' \in Nat /\ current_size_' <= current_size_
        BY <1>7, InvalidateFacts
    <2>3. current_size_' <= max_size_
        BY <2>1, <2>2, <1>0
    <2> QED
        BY <2>1, <2>2, <2>3, <1>5 DEF Loading, Locs
<1>8. ASSUME NEW t \in Threads, Hit(t)
      PROVE  CallInv'
    <2>1. /\ pc[t] = "lookup" /\ current_size_ <= max_size_ /\ Return(t)
          /\ UNCHANGED <<cache_, current_size_, max_size_>>
        BY <1>0, <1>8 DEF Hit, CallInv
    <2> QED
        BY <2>1, <1>4
<1>9. ASSUME NEW t \in Threads, Open(t) \/ StatSize(t) \/ Read(t)
      PROVE  CallInv'
    <2>1. /\ pc[t] \in Loading /\ path[t] \in Files /\ current_size_ <= max_size_
          /\ cache_[path[t]] = None /\ UNCHANGED <<max_size_, lookup>>
        BY <1>0, <1>9 DEF Open, StatSize, Read, CallInv, Loading
    <2>2. CASE Return(t)
        BY <2>1, <2>2, <1>4 DEF Loading, lookup
    <2>3. CASE ~Return(t)
        <3>1. PICK l \in Loaded :
                  /\ UNCHANGED <<mutex_, path>> /\ Goto(t, l)
                  /\ l \in {"size", "read"} => pc[t] \in {"open", "size"}
                  /\ l \in {"read", "mtime"} => pc[t] \in {"size", "read"}
            BY <1>9, <2>3 DEF Open, StatSize, Read, Loaded
        <3>2. /\ l \in {"size", "read"} => file'[t] \in Stream
              /\ l \in {"read", "mtime"} => new_file'[t] \in Entry
            BY <1>9, <2>3, <3>1, LoadFacts
        <3> QED
            BY <2>1, <3>1, <3>2, <1>5 DEF Loading, Loaded, Locs, lookup
    <2> QED
        BY <2>2, <2>3
<1>10. ASSUME NEW t \in Threads, Insert(t)
       PROVE  CallInv'
    <2>1. pc[t] = "mtime" /\ UNCHANGED <<mutex_, path, max_size_>> /\ Goto(t, "evict")
        BY <1>10 DEF Insert
    <2> QED
        BY <2>1, <1>5 DEF Loading, Locs
<1>11. ASSUME NEW t \in Threads, Evict(t)
       PROVE  CallInv'
    <2>1. pc[t] = "evict" /\ UNCHANGED <<mutex_, path, max_size_, pc>>
        BY <1>11 DEF Evict, locals
    <2>2. Goto(t, "evict")
        BY <2>1, <1>0 DEF Goto
    <2> QED
        BY <2>1, <2>2, <1>5 DEF Loading, Locs
<1>12. ASSUME NEW t \in Threads, Evicted(t)
       PROVE  CallInv'
    <2>1. /\ pc[t] = "evict" /\ current_size_ <= max_size_ /\ Return(t)
          /\ UNCHANGED <<cache_, current_size_, max_size_>>
        BY <1>12 DEF Evicted, lookup
    <2> QED
        BY <2>1, <1>4
<1> QED
    BY <1>1, <1>2, <1>3, <1>6, <1>7, <1>8, <1>9, <1>10, <1>11, <1>12
       DEF Next, Step, FsStep

(* The steps that leave the cache alone.                                   *)
LEMMA CacheFrame ==
    ASSUME CacheInv, UNCHANGED lookup
    PROVE  ListInv' /\ SizeInv' /\ Cached' = Cached /\ (UNCHANGED recent => OrderInv')
<1>1. Cached' = Cached /\ Bytes' = Bytes
    BY DEF lookup, Cached, Bytes
<1> QED
    BY <1>1 DEF CacheInv, ListInv, SizeInv, OrderInv, LeastRecentlyUsed, lookup

(* The steps that do not.                                                  *)
LEMMA OtherSteps ==
    ASSUME [Next]_vars
    PROVE  \/ UNCHANGED <<lookup, recent>>
           \/ \E t \in Threads : Invalidate(t) \/ Hit(t) \/ Insert(t) \/ Evict(t)
BY DEF Next, Step, Tick, Delete, Write, Get, set_max_size, Miss, Open, StatSize, Read,
       Evicted, vars

(* Every step keeps the list and the map together, and the accounting.     *)
LEMMA StepList == CacheInv /\ [Next]_vars => ListInv' /\ SizeInv'
<1> SUFFICES ASSUME CacheInv, [Next]_vars
             PROVE  ListInv' /\ SizeInv'
    OBVIOUS
<1>1. ASSUME NEW t \in Threads, Invalidate(t)
      PROVE  ListInv' /\ SizeInv'
    BY <1>1, InvalidateFacts DEF ListInv, SizeInv
<1>2. ASSUME NEW t \in Threads, Insert(t)
      PROVE  ListInv' /\ SizeInv'
    BY <1>2, InsertFacts DEF ListInv, SizeInv
<1>3. ASSUME NEW t \in Threads, Evict(t)
      PROVE  ListInv' /\ SizeInv'
    BY <1>3, EvictFacts DEF ListInv, SizeInv
<1>4. ASSUME NEW t \in Threads, Hit(t)
      PROVE  ListInv' /\ SizeInv'
    <2>1. Cached' = Cached /\ Bytes' = Bytes /\ UNCHANGED current_size_
        BY <1>4 DEF Hit, Cached, Bytes
    <2> QED
        BY <2>1, <1>4, HitFacts DEF CacheInv, ListInv, SizeInv
<1> QED
    BY <1>1, <1>2, <1>3, <1>4, OtherSteps, CacheFrame

(* Every step keeps the order of the list that of the last uses.           *)
LEMMA StepOrder == CacheInv /\ [Next]_vars => OrderInv'
<1> SUFFICES ASSUME CacheInv, [Next]_vars
             PROVE  OrderInv'
    OBVIOUS
<1>0. /\ recent \in Seq(Files) /\ IsInjective(recent) /\ Cached \subseteq ToSet(recent)
      /\ lru_list_ \in Seq(Files) /\ IsInjective(lru_list_) /\ ToSet(lru_list_) = Cached
      /\ \A f, g \in Cached : Before(lru_list_, f, g) <=> Before(recent, f, g)
    BY DEF CacheInv, OrderInv, TypeOK, ListInv, LeastRecentlyUsed
<1>1. ASSUME NEW f, Cached' = Cached \ {f}, UNCHANGED recent,
             \A y, z : Before(lru_list_', y, z) <=>
                           Before(lru_list_, y, z) /\ y # f /\ z # f
      PROVE  OrderInv'
    BY <1>0, <1>1 DEF OrderInv, LeastRecentlyUsed
<1>2. ASSUME NEW t \in Threads, Invalidate(t)
      PROVE  OrderInv'
    <2>1. lru_list_' = RemoveFirst(lru_list_, path[t]) /\ UNCHANGED recent
        BY <1>2 DEF Invalidate
    <2>2. Cached' = Cached \ {path[t]}
        BY <1>2, InvalidateFacts
    <2>3. \A y, z : Before(lru_list_', y, z) <=>
                        Before(lru_list_, y, z) /\ y # path[t] /\ z # path[t]
        BY <2>1, <1>0, RemoveFacts
    <2> QED
        BY <1>1, <2>1, <2>2, <2>3
<1>3. ASSUME NEW t \in Threads, Evict(t)
      PROVE  OrderInv'
    <2>1. Cached' = Cached \ {Last(lru_list_)} /\ lru_list_' = Front(lru_list_)
        BY <1>3, EvictFacts
    <2>2. lru_list_ # <<>> /\ UNCHANGED recent
        BY <1>3 DEF Evict
    <2>3. \A y, z : Before(lru_list_', y, z) <=>
                        Before(lru_list_, y, z) /\ y # Last(lru_list_) /\ z # Last(lru_list_)
        BY <2>1, <2>2, <1>0, FrontFacts
    <2> QED
        BY <1>1, <2>1, <2>2, <2>3
<1>4. ASSUME NEW f \in Files, recent' = ToFront(recent, f), Cached' = Cached \cup {f},
             \A y, z : Before(lru_list_', y, z) <=>
                           z # f /\ (Before(lru_list_, y, z) \/ (y = f /\ z \in Cached))
      PROVE  OrderInv'
    <2>1. /\ IsInjective(recent') /\ ToSet(recent') = ToSet(recent) \cup {f}
          /\ \A y, z : Before(recent', y, z) <=>
                           z # f /\ (Before(recent, y, z) \/ (y = f /\ z \in ToSet(recent)))
        BY <1>0, <1>4, ToFrontFacts
    <2> QED
        BY <1>0, <1>4, <2>1 DEF OrderInv, LeastRecentlyUsed
<1>5. ASSUME NEW t \in Threads, Hit(t)
      PROVE  OrderInv'
    <2>1. /\ path[t] \in Cached /\ path[t] \in Files /\ Cached' = Cached
          /\ lru_list_' = ToFront(lru_list_, path[t])
          /\ recent' = ToFront(recent, path[t])
        BY <1>5, HitFacts DEF Hit, Cached
    <2>2. \A y, z : Before(lru_list_', y, z) <=>
              /\ z # path[t]
              /\ Before(lru_list_, y, z) \/ (y = path[t] /\ z \in Cached)
        BY <2>1, <1>0, ToFrontFacts
    <2> QED
        BY <1>4, <2>1, <2>2
<1>6. ASSUME NEW t \in Threads, Insert(t)
      PROVE  OrderInv'
    <2> DEFINE f == path[t]
    <2>1. /\ f \in Files /\ f \notin Cached /\ lru_list_' = <<f>> \o lru_list_
          /\ Cached' = Cached \cup {f} /\ recent' = ToFront(recent, f)
        BY <1>6, InsertFacts DEF Insert
    <2> HIDE DEF f
    <2>2. \A y, z : Before(lru_list_', y, z) <=>
                        Before(lru_list_, y, z) \/ (y = f /\ z \in Cached)
        BY <2>1, <1>0, PushFacts
    <2>3. \A y, z : Before(lru_list_, y, z) => z \in Cached
        BY <1>0 DEF Before, ToSet
    <2>4. \A y, z : Before(lru_list_', y, z) <=>
              z # f /\ (Before(lru_list_, y, z) \/ (y = f /\ z \in Cached))
        BY <2>1, <2>2, <2>3
    <2> QED
        BY <1>4, <2>1, <2>4
<1> QED
    BY <1>2, <1>3, <1>5, <1>6, OtherSteps, CacheFrame

(* A step of a call leaves no call, its own included, between the opening  *)
(* of a file and the reading of its mtime, unless it is load_file's.       *)
LEMMA NobodyLoads ==
    ASSUME CacheInv, NEW t \in Threads,
           Step(t) \/ (\E f \in Files : Get(t, f)) \/ \E limit \in Limits : set_max_size(t, limit),
           (Open(t) \/ StatSize(t) \/ Read(t)) => Return(t)
    PROVE  UNCHANGED fs /\ \A u \in Threads : pc'[u] \notin Loaded
<1>1. /\ pc \in [Threads -> Locs] /\ pc' \in [Threads -> Locs]
      /\ \A u \in Threads \ {t} : pc'[u] = pc[u]
      /\ pc'[t] \notin Loaded /\ UNCHANGED fs
    <2> USE DEF CacheInv, TypeOK, Goto, Locs, Loaded
    <2>1. CASE Miss(t) \/ Invalidate(t) \/ Insert(t) \/ Evict(t)
        BY <2>1 DEF Miss, Invalidate, Insert, Evict
    <2>2. CASE Hit(t) \/ Open(t) \/ StatSize(t) \/ Read(t) \/ Evicted(t)
        <3>1. UNCHANGED fs /\ Return(t)
            BY <2>2 DEF Hit, Open, StatSize, Read, Evicted
        <3> QED
            BY <3>1 DEF Return
    <2>3. CASE (\E f \in Files : Get(t, f)) \/ \E limit \in Limits : set_max_size(t, limit)
        BY <2>3 DEF Get, set_max_size
    <2> QED
        BY <2>1, <2>2, <2>3 DEF Step
<1>2. \A u \in Threads \ {t} : pc[u] = "idle"
    <2>1. CASE pc[t] # "idle"
        BY <2>1, Alone
    <2>2. CASE mutex_ = None
        BY <2>2, FileCacheAssumption DEF CacheInv, CallInv
    <2>3. pc[t] # "idle" \/ mutex_ = None
        BY DEF Step, Miss, Invalidate, Insert, Evict, Hit, Open, StatSize, Read, Evicted,
               Get, set_max_size
    <2> QED
        BY <2>1, <2>2, <2>3
<1> QED
    BY <1>1, <1>2 DEF Loaded

(* Every step keeps changes noticeable.                                    *)
LEMMA StepFresh == CacheInv /\ [Next]_vars => FreshInv'
<1> SUFFICES ASSUME CacheInv, [Next]_vars
             PROVE  FreshInv'
    OBVIOUS
<1>0. /\ FreshInv /\ CallInv /\ TypeOK /\ now \in Nat /\ disk \in [Files -> File \cup {None}]
      /\ cache_ \in [Files -> Entry \cup {None}] /\ None \notin File
    BY FileCacheAssumption DEF CacheInv, TypeOK
<1>1. CASE Tick \/ UNCHANGED vars
    <2>1. UNCHANGED <<disk, cache_, pc, locals, raced>>
        BY <1>0, <1>1 DEF Tick, vars, fs, lookup
    <2>2. ChangesNoticed'
        BY <2>1, <1>0 DEF FreshInv, ChangesNoticed, Cached, is_file_modified, mtime
    <2> QED
        BY <2>1, <2>2, <1>0 DEF FreshInv, LoadInv, locals
<1>2. ASSUME NEW f \in Files, Delete(f)
      PROVE  FreshInv'
    <2>1. /\ UNCHANGED <<cache_, pc, path, new_file, raced>> /\ disk'[f] = None
          /\ \A g \in Files \ {f} : disk'[g] = disk[g]
          /\ file' = Unlinked(f)
        BY <1>0, <1>2 DEF Delete, lookup
    <2>2. ChangesNoticed'
        BY <2>1, <1>0 DEF FreshInv, ChangesNoticed, Cached, is_file_modified, mtime
    <2>3. 0 \in Nat
        OBVIOUS
    <2>4. ASSUME NEW t \in Threads, path'[t] \notin raced'
          PROVE  LoadInv(t)'
        <3>1. LoadInv(t) /\ UNCHANGED <<pc, path, new_file>>
            BY <2>1, <2>4, <1>0 DEF FreshInv
        <3>2. /\ pc[t] \in Loading => path[t] \in Files
              /\ pc[t] \in {"size", "read"} => file[t] \in Stream
            BY <1>0 DEF CallInv
        <3>3. pc[t] \in {"size", "read"} =>
                  file'[t].ver = file[t].ver /\ file'[t].size = file[t].size
            BY <2>1, <2>3, <3>2, <1>0, StreamsKept
        <3> QED
            BY <2>1, <3>1, <3>2, <3>3 DEF LoadInv, Loading
    <2> QED
        BY <2>2, <2>4 DEF FreshInv
<1>3. ASSUME NEW f \in Files, NEW s \in Sizes, NEW m \in 1..now, Write(f, s, m)
      PROVE  FreshInv'
    <2>1. /\ UNCHANGED <<cache_, pc, path, new_file>> /\ disk'[f] # None
          /\ disk'[f].mtime = m /\ m \in Nat
          /\ \A g \in Files \ {f} : disk'[g] = disk[g]
          /\ raced' = IF Unnoticed(f, m) THEN raced \cup {f} ELSE raced
        <3>1. [ver |-> version + 1, size |-> s, mtime |-> m] \in File
            BY <1>0 DEF TypeOK, File
        <3> QED
            BY <1>0, <1>3, <3>1 DEF Write, lookup
    <2>2. /\ version + 1 \in Nat /\ s \in Nat
          /\ file' = Rewritten(f, version + 1, s) \/ file' = Unlinked(f)
        BY <1>0, <1>3, FileCacheAssumption DEF Write, TypeOK
    <2>3. \A t \in Threads : path[t] # f => file'[t] = file[t]
        BY <2>2, <1>0, StreamsKept
    <2>4. ASSUME NEW t \in Threads, path'[t] \notin raced'
          PROVE  LoadInv(t)'
        <3>1. CASE pc[t] \notin Loaded
            BY <2>1, <3>1 DEF LoadInv, Loaded
        <3>2. CASE pc[t] \in Loaded
            <4>1. path[t] \in Files /\ path[t] # f
                BY <2>1, <2>4, <3>2, <1>0 DEF CallInv, Loading, Loaded, Unnoticed
            <4>2. LoadInv(t)
                BY <2>1, <2>4, <1>0 DEF FreshInv
            <4> QED
                BY <2>1, <2>3, <4>1, <4>2 DEF LoadInv
        <3> QED
            BY <3>1, <3>2
    <2>5. ASSUME NEW g \in Cached', disk'[g] # None, disk'[g].ver # cache_'[g].ver,
                 g \notin raced'
          PROVE  is_file_modified(g, cache_[g].last_modified)'
        <3>1. g \in Files /\ g \in Cached /\ cache_[g] \in Entry
            BY <2>1, <1>0 DEF Cached
        <3>2. CASE g # f
            BY <2>1, <2>5, <3>1, <3>2, <1>0
               DEF FreshInv, ChangesNoticed, is_file_modified, mtime
        <3>3. CASE g = f
            <4>1. ~(cache_[f].last_modified >= m) /\ cache_[f].last_modified \in Nat
                BY <2>1, <2>5, <3>1, <3>3 DEF Unnoticed, Cached, Entry
            <4> QED
                BY <2>1, <4>1, <3>3, <1>0 DEF is_file_modified, mtime
        <3> QED
            BY <3>2, <3>3
    <2> QED
        BY <2>4, <2>5 DEF FreshInv, ChangesNoticed
<1>4. ASSUME NEW t \in Threads, Open(t) \/ StatSize(t) \/ Read(t), ~Return(t)
      PROVE  FreshInv'
    <2> DEFINE f == path[t]
    <2>1. /\ f \in Files /\ f \notin Cached
          /\ UNCHANGED <<fs, cache_, path>> /\ \A u \in Threads \ {t} : pc'[u] = "idle"
          /\ \A g \in Cached : g \in raced' <=> g \in raced
          /\ f \notin raced' => LoadInv(t) \/ pc[t] = "open"
        <3>1. \A u \in Threads \ {t} : pc[u] = "idle"
            BY <1>4, Alone DEF Open, StatSize, Read
        <3>2. f \in Files /\ f \notin Cached
            BY <1>0, <1>4 DEF Open, StatSize, Read, CallInv, Cached, Loading
        <3>3. /\ UNCHANGED <<fs, cache_, path>> /\ \A u \in Threads \ {t} : pc'[u] = pc[u]
              /\ raced' \in {raced, raced \ {f}}
              /\ pc[t] # "open" => UNCHANGED raced
            BY <1>0, <1>4 DEF Open, StatSize, Read, Goto, lookup, TypeOK
        <3> QED
            BY <3>1, <3>2, <3>3, <1>0 DEF FreshInv
    <2>2. /\ file \in [Threads -> Stream \cup {None}] /\ pc \in [Threads -> Locs]
          /\ new_file \in [Threads -> Entry \cup {None}]
        BY <1>0 DEF TypeOK
    <2>3. f \notin raced' => LoadInv(t)'
        <3>1. CASE Open(t)
            <4>1. /\ disk[f] # None /\ pc'[t] = "size"
                  /\ file'[t] = [ver |-> disk[f].ver, size |-> disk[f].size, linked |-> TRUE]
                BY <3>1, <1>4, <2>2 DEF Open, Goto
            <4> QED
                BY <4>1, <2>1 DEF LoadInv, fs
        <3>2. CASE StatSize(t)
            <4>1. /\ size(f) # 0 /\ pc[t] = "size" /\ pc'[t] = "read" /\ UNCHANGED file
                  /\ new_file'[t] = [ver |-> Torn, file_size |-> size(f), last_modified |-> 0]
                BY <3>2, <1>4, <2>2 DEF StatSize, Goto
            <4>2. disk[f] # None /\ size(f) = disk[f].size
                BY <4>1 DEF size
            <4> QED
                BY <4>1, <4>2, <2>1 DEF LoadInv, fs
        <3>3. CASE Read(t)
            <4>1. /\ pc[t] = "read" /\ pc'[t] = "mtime" /\ new_file[t] \in Entry
                BY <3>3, <2>2, <1>0 DEF Read, Goto, CallInv
            <4>2. new_file'[t].ver = IF file[t].size = new_file[t].file_size
                                     THEN file[t].ver ELSE Torn
                BY <3>3, <4>1, <2>2 DEF Read, Entry
            <4> QED
                BY <4>1, <4>2, <2>1 DEF LoadInv, fs
        <3> QED
            BY <1>4, <3>1, <3>2, <3>3
    <2>4. \A u \in Threads : path'[u] \notin raced' => LoadInv(u)'
        BY <2>1, <2>3 DEF LoadInv
    <2>5. ChangesNoticed'
        <3>1. Cached' = Cached
            BY <2>1 DEF Cached
        <3> QED
            BY <2>1, <3>1, <1>0 DEF FreshInv, ChangesNoticed, is_file_modified, mtime, fs
    <2> QED
        BY <2>4, <2>5 DEF FreshInv
<1>5. ASSUME NEW t \in Threads,
             \/ Step(t)
             \/ \E f \in Files : Get(t, f)
             \/ \E limit \in Limits : set_max_size(t, limit),
             (Open(t) \/ StatSize(t) \/ Read(t)) => Return(t)
      PROVE  FreshInv'
    <2>1. UNCHANGED fs /\ \A u \in Threads : pc'[u] \notin Loaded
        BY <1>5, NobodyLoads
    <2> SUFFICES ChangesNoticed'
        BY <2>1, <1>0 DEF FreshInv, LoadInv, Loaded, fs
    <2>2. ASSUME \A g \in Cached' : g \in Cached /\ cache_'[g] = cache_[g],
                 \A g \in Cached' : g \in raced' <=> g \in raced
          PROVE  ChangesNoticed'
        BY <2>1, <2>2, <1>0 DEF FreshInv, ChangesNoticed, is_file_modified, mtime, fs
    <2>3. CASE Invalidate(t)
        <3>1. /\ Cached' = Cached \ {path[t]} /\ raced' = raced \ {path[t]}
              /\ \A g \in Files \ {path[t]} : cache_'[g] = cache_[g]
            BY <2>3, InvalidateFacts DEF Invalidate
        <3> QED
            BY <3>1, <2>2 DEF Cached
    <2>4. CASE Evict(t)
        <3>1. /\ UNCHANGED raced
              /\ \E f \in Cached : /\ Cached' = Cached \ {f}
                                   /\ \A g \in Files \ {f} : cache_'[g] = cache_[g]
            BY <2>4, EvictFacts DEF Evict
        <3> QED
            BY <3>1, <2>2 DEF Cached
    <2>5. CASE Insert(t)
        <3> DEFINE f == path[t]
        <3>1. /\ f \in Files /\ Cached' = Cached \cup {f} /\ UNCHANGED raced
              /\ cache_'[f] = new_file'[t] /\ new_file'[t].ver = new_file[t].ver
              /\ \A g \in Files \ {f} : cache_'[g] = cache_[g]
              /\ pc[t] = "mtime"
            BY <2>5, InsertFacts DEF Insert
        <3>2. disk[f] # None /\ f \notin raced => disk[f].ver = new_file[t].ver
            BY <3>1, <1>0 DEF FreshInv, LoadInv
        <3> HIDE DEF f
        <3>3. ASSUME NEW g \in Cached', disk'[g] # None, disk'[g].ver # cache_'[g].ver,
                     g \notin raced'
              PROVE  is_file_modified(g, cache_[g].last_modified)'
            <4>1. g # f
                BY <2>1, <3>1, <3>2, <3>3 DEF fs
            <4>2. g \in Cached /\ g \in Files /\ cache_'[g] = cache_[g]
                BY <3>1, <4>1 DEF Cached
            <4> QED
                BY <2>1, <3>1, <3>3, <4>2, <1>0
                   DEF FreshInv, ChangesNoticed, is_file_modified, mtime, fs
        <3> QED
            BY <3>3 DEF ChangesNoticed
    <2>6. CASE ~Invalidate(t) /\ ~Evict(t) /\ ~Insert(t)
        <3>1. UNCHANGED <<cache_, raced>>
            <4>1. CASE Open(t) \/ StatSize(t) \/ Read(t)
                <5>1. pc'[t] = "idle"
                    BY <1>5, <4>1, <1>0 DEF Return, Goto, TypeOK
                <5> QED
                    BY <4>1, <5>1, <1>0 DEF Open, StatSize, Read, Goto, TypeOK, lookup
            <4>2. CASE ~(Open(t) \/ StatSize(t) \/ Read(t))
                BY <1>5, <2>6, <4>2 DEF Step, Get, set_max_size, Miss, Hit, Evicted, lookup
            <4> QED
                BY <4>1, <4>2
        <3>2. Cached' = Cached
            BY <3>1 DEF Cached
        <3> QED
            BY <3>1, <3>2, <2>2
    <2> QED
        BY <2>3, <2>4, <2>5, <2>6
<1> QED
    BY <1>1, <1>2, <1>3, <1>4, <1>5 DEF Next, Step

-----------------------------------------------------------------------------
(* Results.                                                                *)

(* The invariant holds always.                                             *)
LEMMA Invariant == Spec => []CacheInv
<1>1. CacheInv /\ [Next]_vars => CacheInv'
    BY StepType, StepCalls, StepList, StepOrder, StepFresh DEF CacheInv
<1> QED
    BY <1>1, InitInv, PTL DEF Spec

(* The variables of the cache hold what they are declared to hold; the     *)
(* unsigned current_size_, of which sizes are subtracted in two places,    *)
(* never wraps below zero.                                                 *)
THEOREM TypeCorrect == Spec => []TypeOK
<1>1. CacheInv => TypeOK
    BY DEF CacheInv
<1> QED
    BY <1>1, Invariant, PTL

(* The list and the map hold the same paths, each once, whoever called     *)
(* what and whatever happened to the files: every iterator that get erases *)
(* through is valid.                                                       *)
THEOREM ListAndMapAgree == Spec => []ListMatchesMap
<1>1. CacheInv => ListMatchesMap
    <2>1. SUFFICES ASSUME CacheInv
                   PROVE  ListMatchesMap
        OBVIOUS
    <2>2. /\ lru_list_ \in Seq(Files) /\ IsInjective(lru_list_)
          /\ ToSet(lru_list_) = Cached
        BY <2>1 DEF CacheInv, TypeOK, ListInv
    <2> QED
        BY <2>2, CountElements DEF ListMatchesMap
<1> QED
    BY <1>1, Invariant, PTL

(* The size the cache accounts for is the number of bytes its entries      *)
(* hold, although the files may have grown or shrunk since, and is within  *)
(* the limit between calls.                                                *)
THEOREM SizeAccounted == Spec => []Accounting
<1>1. CacheInv => Accounting
    BY DEF CacheInv, SizeInv, CallInv, Accounting
<1> QED
    BY <1>1, Invariant, PTL

(* Entries are kept, and so evicted, in the order of their last use.       *)
THEOREM EvictionOrder == Spec => []LeastRecentlyUsed
<1>1. CacheInv => LeastRecentlyUsed
    BY DEF CacheInv, OrderInv
<1> QED
    BY <1>1, Invariant, PTL

(* What is cached of a file is what the file holds, or the next get loads   *)
(* it anew, unless a change fell between load_file's opening of the file   *)
(* and its look at the mtime, or brought an mtime that is no newer.        *)
THEOREM ChangesSeen == Spec => []ChangesNoticed
<1>1. CacheInv => ChangesNoticed
    BY DEF CacheInv, FreshInv
<1> QED
    BY <1>1, Invariant, PTL

-----------------------------------------------------------------------------
(* Refinement.                                                             *)

Entries == [f \in Cached |-> cache_[f]]
Newer   == {p \in Cached \X Cached : Before(recent, p[1], p[2])}

(* The Cardinality that LruCache extends is the same.                      *)
LEMMA SameCount ==
    ASSUME NEW S
    PROVE  Lru!Cardinality(S) = Cardinality(S)
BY DEF Lru!Cardinality, Cardinality

(* What LruCache sees of the state.                                        *)
LEMMA LruView ==
    ASSUME CacheInv
    PROVE  /\ Lru!Cached = Cached
           /\ Lru!Fits <=> current_size_ <= max_size_
<1>1. Lru!Cached = Cached
    BY DEF Lru!Cached
<1>2. Lru!Bytes = Bytes
    BY <1>1 DEF Lru!Bytes, Bytes
<1> QED
    BY <1>1, <1>2, SameCount DEF Lru!Fits, CacheInv, SizeInv

(* Where nothing of that changes LruCache sees no step.                    *)
LEMMA LruBlind ==
    ASSUME UNCHANGED <<cache_, recent, max_size_>>, Asked' = Asked
    PROVE  UNCHANGED Lru!vars
BY DEF Lru!vars, Cached

(* A path that is used becomes the latest, ...                             *)
LEMMA NewerUsed ==
    ASSUME CacheInv, NEW f \in Files, recent' = ToFront(recent, f), Cached' = Cached \cup {f}
    PROVE  Newer' = {p \in Newer : p[1] # f /\ p[2] # f} \cup {f} \X (Cached \ {f})
<1>1. /\ recent \in Seq(Files) /\ IsInjective(recent) /\ Cached \subseteq ToSet(recent)
    BY DEF CacheInv, TypeOK, OrderInv
<1>2. \A y, z : Before(recent', y, z) <=>
                    z # f /\ (Before(recent, y, z) \/ (y = f /\ z \in ToSet(recent)))
    BY <1>1, ToFrontFacts
<1> DEFINE new == {p \in Newer : p[1] # f /\ p[2] # f} \cup {f} \X (Cached \ {f})
<1>3. ASSUME NEW y, NEW z
      PROVE  <<y, z>> \in Newer' <=> <<y, z>> \in new
    <2>1. <<y, z>> \in Newer' <=>
              y \in Cached \cup {f} /\ z \in Cached \cup {f} /\ Before(recent', y, z)
        BY DEF Newer
    <2>2. <<y, z>> \in Newer <=> y \in Cached /\ z \in Cached /\ Before(recent, y, z)
        BY DEF Newer
    <2>3. <<y, z>> \in new <=>
              \/ <<y, z>> \in Newer /\ y # f /\ z # f
              \/ y = f /\ z \in Cached /\ z # f
        OBVIOUS
    <2> HIDE DEF new
    <2> QED
        BY <1>1, <1>2, <2>1, <2>2, <2>3
<1>4. \A p \in Newer' : p = <<p[1], p[2]>>
    BY DEF Newer
<1>5. \A p \in new : p = <<p[1], p[2]>>
    BY DEF Newer
<1> HIDE DEF new
<1>6. Newer' = new
    BY <1>3, <1>4, <1>5
<1> QED
    BY <1>6 DEF new

(* ... and one that goes leaves the order of the others.                   *)
LEMMA NewerGone ==
    ASSUME NEW f, UNCHANGED recent, Cached' = Cached \ {f}
    PROVE  Newer' = {p \in Newer : p[1] # f /\ p[2] # f}
BY DEF Newer

(* The path asked for is that of the thread in the call.                   *)
LEMMA AskedBy ==
    ASSUME CacheInv, NEW t \in Threads, pc[t] # "idle", pc[t] # "evict"
    PROVE  Asked = path[t] /\ path[t] \in Files
<1>1. mutex_ = t /\ t # None
    BY Alone
<1> QED
    BY <1>1 DEF Asked, CacheInv, CallInv, TypeOK, Locs, Loading

(* Every step of a call is a step of LruCache or invisible to it.          *)
LEMMA GetRefines ==
    ASSUME CacheInv, NEW t \in Threads, NEW f \in Files, Get(t, f)
    PROVE  Lru!Ask(f)
<1>1. t # None /\ mutex_ = None /\ mutex_' = t /\ pc'[t] = "lookup" /\ path'[t] = f
    BY FileCacheAssumption DEF Get, Goto, CacheInv, TypeOK
<1>2. Asked = None /\ Asked' = f
    BY <1>1 DEF Asked
<1>3. Lru!Fits
    BY <1>1, LruView DEF CacheInv, CallInv
<1>4. UNCHANGED <<cache_, recent, max_size_>>
    BY DEF Get, lookup
<1> QED
    BY <1>2, <1>3, <1>4 DEF Lru!Ask, Cached

(* A hit uses the entry, ...                                               *)
LEMMA HitRefines ==
    ASSUME CacheInv, NEW t \in Threads, Hit(t)
    PROVE  Lru!Use(path[t])
<1>1. Asked = path[t] /\ path[t] \in Files /\ path[t] \in Cached
    BY AskedBy, HitFacts DEF Hit
<1>2. UNCHANGED <<cache_, max_size_>> /\ mutex_' = None /\ recent' = ToFront(recent, path[t])
    BY DEF Hit, Return
<1>3. Asked' = None
    BY <1>2 DEF Asked
<1>4. Cached' = Cached \cup {path[t]} /\ Entries' = Entries
    BY <1>1, <1>2 DEF Cached, Entries
<1>5. Newer' = {p \in Newer : p[1] # path[t] /\ p[2] # path[t]}
                   \cup {path[t]} \X (Cached \ {path[t]})
    BY <1>1, <1>2, <1>4, NewerUsed
<1> QED
    BY <1>1, <1>2, <1>3, <1>4, <1>5, LruView
       DEF Lru!Use, Lru!Latest, Lru!Others, Entries, Newer

(* ... a file that was modified discards it, ...                           *)
LEMMA InvalidateRefines ==
    ASSUME CacheInv, NEW t \in Threads, Invalidate(t)
    PROVE  \E f \in Files : Lru!Discard(f)
<1>1. Asked = path[t] /\ path[t] \in Files
    BY AskedBy DEF Invalidate
<1>2. /\ path[t] \in Cached /\ Cached' = Cached \ {path[t]}
      /\ \A g \in Files \ {path[t]} : cache_'[g] = cache_[g]
    BY InvalidateFacts
<1>3. UNCHANGED <<max_size_, recent, path, mutex_>> /\ pc'[t] = "open"
    BY DEF Invalidate, locals, Goto, CacheInv, TypeOK
<1>4. Asked' = Asked
    BY <1>1, <1>3, Alone DEF Asked, Invalidate
<1>5. Entries' = [j \in Cached \ {path[t]} |-> Entries[j]]
    BY <1>2 DEF Entries, Cached
<1>6. Newer' = {p \in Newer : p[1] # path[t] /\ p[2] # path[t]}
    BY <1>2, <1>3, NewerGone
<1>7. PICK f \in Files : f = path[t]
    BY <1>1
<1>8. Lru!Discard(f)
    BY <1>1, <1>2, <1>3, <1>4, <1>5, <1>6, <1>7, LruView
       DEF Lru!Discard, Lru!Remove, Lru!Others, Entries, Newer
<1> QED
    BY <1>8

(* ... one that was loaded is added, ...                                   *)
LEMMA InsertRefines ==
    ASSUME CacheInv, NEW t \in Threads, Insert(t)
    PROVE  \E f \in Files : Lru!Add(f)
<1>1. Asked = path[t] /\ path[t] \in Files
    BY AskedBy DEF Insert
<1>2. /\ path[t] \notin Cached /\ Cached' = Cached \cup {path[t]}
      /\ \A g \in Files \ {path[t]} : cache_'[g] = cache_[g]
    BY InsertFacts
<1>3. /\ UNCHANGED <<max_size_, mutex_>> /\ recent' = ToFront(recent, path[t])
      /\ pc'[t] = "evict"
    BY DEF Insert, Goto, CacheInv, TypeOK
<1>4. Asked' = None
    BY <1>3, Alone DEF Asked, Insert
<1>5. DOMAIN Entries' = Cached \cup {path[t]} /\ \A j \in Cached : Entries'[j] = Entries[j]
    BY <1>2 DEF Entries, Cached
<1>6. Newer' = {p \in Newer : p[1] # path[t] /\ p[2] # path[t]}
                   \cup {path[t]} \X (Cached \ {path[t]})
    BY <1>1, <1>2, <1>3, NewerUsed
<1>7. PICK f \in Files : f = path[t]
    BY <1>1
<1>8. Lru!Add(f)
    BY <1>1, <1>2, <1>3, <1>4, <1>5, <1>6, <1>7, LruView
       DEF Lru!Add, Lru!Latest, Lru!Others, Entries, Newer
<1> QED
    BY <1>8

(* ... and the last of the list is the one unused for longest.             *)
LEMMA EvictRefines ==
    ASSUME CacheInv, NEW t \in Threads, Evict(t)
    PROVE  \E f \in Files : Lru!Evict(f)
<1>1. PICK f \in Cached :
         /\ f = Last(lru_list_) /\ Cached' = Cached \ {f}
         /\ \A g \in Files \ {f} : cache_'[g] = cache_[g]
    BY EvictFacts
<1>2. /\ UNCHANGED <<max_size_, mutex_, pc, recent, path>> /\ pc[t] = "evict"
      /\ current_size_ > max_size_ /\ lru_list_ # <<>>
    BY DEF Evict, locals
<1>3. Asked = None /\ Asked' = None
    BY <1>2, Alone DEF Asked
<1>4. ~Lru!Fits
    <2>1. current_size_ \in Nat /\ max_size_ \in Nat
        BY FileCacheAssumption DEF CacheInv, TypeOK
    <2>2. ~(current_size_ <= max_size_)
        BY <1>2, <2>1
    <2> QED
        BY <2>2, LruView
<1>5. ASSUME NEW j \in Cached \ {f} PROVE <<j, f>> \in Newer
    <2>1. /\ lru_list_ \in Seq(Files) /\ ToSet(lru_list_) = Cached
          /\ \A x, y \in Cached : Before(lru_list_, x, y) <=> Before(recent, x, y)
        BY DEF CacheInv, TypeOK, ListInv, OrderInv, LeastRecentlyUsed
    <2>2. PICK i \in DOMAIN lru_list_ : lru_list_[i] = j
        BY <2>1 DEF ToSet
    <2>3. /\ Len(lru_list_) \in DOMAIN lru_list_ /\ lru_list_[Len(lru_list_)] = f
          /\ i < Len(lru_list_)
        BY <1>1, <1>2, <1>5, <2>1, <2>2 DEF Last
    <2>4. Before(lru_list_, j, f)
        BY <2>2, <2>3 DEF Before
    <2> QED
        BY <2>1, <2>4 DEF Newer
<1>6. Entries' = [j \in Cached \ {f} |-> Entries[j]]
    BY <1>1 DEF Entries, Cached
<1>7. Newer' = {p \in Newer : p[1] # f /\ p[2] # f}
    BY <1>1, <1>2, NewerGone
<1>8. Lru!Evict(f)
    BY <1>1, <1>2, <1>3, <1>4, <1>5, <1>6, <1>7, LruView
       DEF Lru!Evict, Lru!Remove, Lru!Others, Entries, Newer
<1> QED
    BY <1>8 DEF Cached

(* A return without an entry is a failure to find one; the loading before  *)
(* it cannot be seen.                                                      *)
LEMMA LoadRefines ==
    ASSUME CacheInv, NEW t \in Threads, Miss(t) \/ Open(t) \/ StatSize(t) \/ Read(t)
    PROVE  Lru!Fail(path[t]) \/ UNCHANGED Lru!vars
<1>1. /\ Asked = path[t] /\ path[t] \in Files /\ pc[t] \notin {"idle", "evict"}
    <2>1. pc[t] \notin {"idle", "evict"}
        BY DEF Miss, Open, StatSize, Read
    <2> QED
        BY <2>1, AskedBy
<1>2. UNCHANGED <<cache_, recent, max_size_>>
    BY DEF Miss, Open, StatSize, Read, lookup
<1>3. mutex_ = t /\ t # None
    BY <1>1, Alone
<1>4. CASE Return(t)
    <2>1. Asked' = None
        BY <1>4 DEF Return, Asked
    <2>2. pc[t] \in {"open", "size"}
        <3>1. Return(t) => pc'[t] = "idle"
            BY DEF Return, Goto, CacheInv, TypeOK
        <3> QED
            BY <1>4, <3>1 DEF Miss, Open, StatSize, Read, Goto, CacheInv, TypeOK
    <2>3. path[t] \notin Cached
        BY <2>2 DEF CacheInv, CallInv, Loading, Cached
    <2> QED
        BY <1>1, <1>2, <2>1, <2>3, LruView DEF Lru!Fail, Cached
<1>5. CASE ~Return(t)
    <2>1. UNCHANGED <<mutex_, path>> /\ pc'[t] \in {"open", "size", "read", "mtime"}
        BY <1>5 DEF Miss, Open, StatSize, Read, Goto, locals, CacheInv, TypeOK
    <2>2. Asked' = Asked
        BY <1>1, <1>3, <2>1 DEF Asked
    <2> QED
        BY <1>2, <2>2, LruBlind
<1> QED
    BY <1>4, <1>5

(* A new limit waits for the end of a call.                                *)
LEMMA ResizeRefines ==
    ASSUME CacheInv, NEW t \in Threads, NEW limit \in Limits, set_max_size(t, limit)
    PROVE  Lru!Resize(limit)
<1>1. t # None /\ mutex_ = None /\ mutex_' = t /\ pc'[t] = "evict" /\ max_size_' = limit
    BY FileCacheAssumption DEF set_max_size, Goto, CacheInv, TypeOK
<1>2. Asked = None /\ Asked' = None
    BY <1>1 DEF Asked
<1>3. Lru!Fits
    BY <1>1, LruView DEF CacheInv, CallInv
<1>4. UNCHANGED <<cache_, recent>>
    BY DEF set_max_size, lookup
<1> QED
    BY <1>1, <1>2, <1>3, <1>4 DEF Lru!Resize, Cached

(* Every step of the cache is one of LruCache, or nothing to it.           *)
LEMMA StepRefines == CacheInv /\ [Next]_vars => [Lru!Next]_(Lru!vars)
<1> SUFFICES ASSUME CacheInv, [Next]_vars
             PROVE  [Lru!Next]_(Lru!vars)
    OBVIOUS
<1>1. CASE FsStep \/ UNCHANGED vars
    <2>1. UNCHANGED <<lookup, mutex_, max_size_, pc, path, new_file, recent>>
        BY <1>1, FsFrame
    <2>2. UNCHANGED <<cache_, recent, max_size_>> /\ Asked' = Asked
        BY <2>1 DEF lookup, Asked
    <2> QED
        BY <2>2, LruBlind
<1>2. ASSUME NEW t \in Threads, NEW f \in Files, Get(t, f) PROVE Lru!Next
    BY <1>2, GetRefines DEF Lru!Next
<1>3. ASSUME NEW t \in Threads, Hit(t) PROVE Lru!Next
    <2>1. path[t] \in Files
        BY <1>3, AskedBy DEF Hit
    <2>2. Lru!Use(path[t])
        BY <1>3, HitRefines
    <2> QED
        BY <2>1, <2>2 DEF Lru!Next
<1>4. ASSUME NEW t \in Threads, Invalidate(t) PROVE Lru!Next
    BY <1>4, InvalidateRefines DEF Lru!Next
<1>5. ASSUME NEW t \in Threads, Insert(t) PROVE Lru!Next
    BY <1>5, InsertRefines DEF Lru!Next
<1>6. ASSUME NEW t \in Threads, Evict(t) PROVE Lru!Next
    BY <1>6, EvictRefines DEF Lru!Next
<1>7. ASSUME NEW t \in Threads, Miss(t) \/ Open(t) \/ StatSize(t) \/ Read(t)
      PROVE  [Lru!Next]_(Lru!vars)
    <2>1. path[t] \in Files
        BY <1>7, AskedBy DEF Miss, Open, StatSize, Read
    <2> QED
        BY <1>7, <2>1, LoadRefines DEF Lru!Next
<1>8. ASSUME NEW t \in Threads, Evicted(t) PROVE UNCHANGED Lru!vars
    <2>1. UNCHANGED <<cache_, recent, max_size_>> /\ mutex_' = None /\ pc[t] = "evict"
        BY <1>8 DEF Evicted, Return, lookup
    <2>2. Asked = None /\ Asked' = None
        BY <2>1, Alone DEF Asked
    <2> QED
        BY <2>1, <2>2, LruBlind
<1>9. ASSUME NEW t \in Threads, NEW limit \in Limits, set_max_size(t, limit) PROVE Lru!Next
    BY <1>9, ResizeRefines DEF Lru!Next
<1> QED
    BY <1>1, <1>2, <1>3, <1>4, <1>5, <1>6, <1>7, <1>8, <1>9 DEF Next, Step, FsStep

(* FileCache, whose list, map and counter are changed one after the other  *)
(* and whose files change underneath it, implements LruCache, in which an  *)
(* eviction takes what really was used least recently, and as long as the  *)
(* bytes really exceed the limit.                                          *)
THEOREM Refinement == Spec => RefinesLru
<1>1. Init => Lru!Init
    <2>1. Init => Cached = {} /\ Asked = None
        BY DEF Init, Cached, Asked
    <2> QED
        BY <2>1 DEF Init, Lru!Init
<1> QED
    BY <1>1, Invariant, StepRefines, PTL DEF Spec, Lru!Spec, RefinesLru
=============================================================================
