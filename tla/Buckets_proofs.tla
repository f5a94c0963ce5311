---------------------------- MODULE Buckets_proofs ----------------------------
(***************************************************************************)
(* Proofs about the bucket metadata cache, for any number of requests,     *)
(* buckets and items and any failures, and about DeleteBucket, which       *)
(* removes empty buckets only and leaves nothing behind, for every bucket, *)
(* page size and failure.                                                  *)
(***************************************************************************)
EXTENDS BucketCacheProperties, BucketRemoval, SequenceTheorems, FiniteSetTheorems,
        WellFoundedInduction, TLAPS

-----------------------------------------------------------------------------
(* Sequences in which every element occurs once.                           *)

LEMMA ToSetFacts ==
    ASSUME NEW S, NEW s \in Seq(S)
    PROVE  /\ \A i \in 1..Len(s) : s[i] \in ToSet(s)
           /\ \A e \in ToSet(s) : \E i \in 1..Len(s) : s[i] = e
           /\ ToSet(s) \subseteq S
           /\ DOMAIN s = 1..Len(s) /\ Len(s) \in Nat
BY LenProperties DEF ToSet

\* A list without one of its elements.
LEMMA RemoveAtFacts ==
    ASSUME NEW S, NEW s \in Seq(S), NEW i \in 1..Len(s)
    PROVE  /\ RemoveAt(s, i) \in Seq(S)
           /\ Len(RemoveAt(s, i)) = Len(s) - 1
           /\ \A j \in 1..(Len(s) - 1) :
                 RemoveAt(s, i)[j] = IF j < i THEN s[j] ELSE s[j + 1]
<1> DEFINE low == SubSeq(s, 1, i - 1)
           high == SubSeq(s, i + 1, Len(s))
<1>1. Len(s) \in Nat /\ i \in Nat /\ i >= 1 /\ i <= Len(s)
  BY LenProperties
<1>2. low \in Seq(S) /\ Len(low) = i - 1 /\ \A j \in 1..(i - 1) : low[j] = s[j]
  BY <1>1
<1>3. high \in Seq(S) /\ Len(high) = Len(s) - i /\ \A j \in 1..(Len(s) - i) : high[j] = s[i + j]
  BY <1>1
<1> HIDE DEF low, high
<1>4. /\ low \o high \in Seq(S)
      /\ Len(low \o high) = Len(low) + Len(high)
      /\ \A j \in 1..(Len(low) + Len(high)) :
            (low \o high)[j] = IF j <= Len(low) THEN low[j] ELSE high[j - Len(low)]
  BY <1>2, <1>3, ConcatProperties
<1>5. Len(low) + Len(high) = Len(s) - 1
  BY <1>1, <1>2, <1>3
<1>6. RemoveAt(s, i) = low \o high
  BY DEF RemoveAt, low, high
<1>7. ASSUME NEW j \in 1..(Len(s) - 1)
      PROVE  (low \o high)[j] = IF j < i THEN s[j] ELSE s[j + 1]
  <2>1. CASE j < i
    BY <1>1, <1>2, <1>4, <1>5, <2>1
  <2>2. CASE ~(j < i)
    <3>1. PICK k \in Nat : k = j - (i - 1)
      BY <1>1, <2>2
    <3>2. k \in 1..(Len(s) - i) /\ i + k = j + 1
      BY <1>1, <2>2, <3>1
    <3>3. high[k] = s[j + 1]
      BY <1>3, <3>2
    <3> QED
      BY <1>1, <1>2, <1>4, <1>5, <2>2, <3>1, <3>3
  <2> QED
    BY <2>1, <2>2
<1> QED
  BY <1>4, <1>5, <1>6, <1>7

LEMMA RemoveFirstFacts ==
    ASSUME NEW S, NEW s \in Seq(S), IsOnce(s), NEW e
    PROVE  /\ RemoveFirst(s, e) \in Seq(S)
           /\ IsOnce(RemoveFirst(s, e))
           /\ ToSet(RemoveFirst(s, e)) = ToSet(s) \ {e}
<1>0. DOMAIN s = 1..Len(s) /\ Len(s) \in Nat
  BY ToSetFacts
<1>1. CASE ~\E i \in 1..Len(s) : s[i] = e
  <2>1. RemoveFirst(s, e) = s
    BY <1>1 DEF RemoveFirst
  <2>2. e \notin ToSet(s)
    BY <1>1, ToSetFacts
  <2> QED
    BY <2>1, <2>2
<1>2. ASSUME NEW i \in 1..Len(s), s[i] = e
      PROVE  /\ RemoveFirst(s, e) \in Seq(S)
             /\ IsOnce(RemoveFirst(s, e))
             /\ ToSet(RemoveFirst(s, e)) = ToSet(s) \ {e}
  <2>1. \A j \in 1..Len(s) : s[j] = e => j = i
    BY <1>0, <1>2 DEF IsOnce
  <2>2. SelectInSeq(s, LAMBDA v : v = e) = i
    BY <1>0, <1>2, <2>1 DEF SelectInSeq, Min
  <2>3. PICK t : t = RemoveAt(s, i)
    OBVIOUS
  <2>4. RemoveFirst(s, e) = t
    BY <1>2, <2>2, <2>3 DEF RemoveFirst
  <2>5. /\ t \in Seq(S) /\ Len(t) = Len(s) - 1
        /\ \A j \in 1..(Len(s) - 1) : t[j] = IF j < i THEN s[j] ELSE s[j + 1]
    BY <2>3, RemoveAtFacts
  <2>6. DOMAIN t = 1..(Len(s) - 1)
    BY <2>5, ToSetFacts
  <2>7. IsOnce(t)
    <3>1. ASSUME NEW j \in 1..(Len(s) - 1), NEW k \in 1..(Len(s) - 1), t[j] = t[k]
          PROVE  j = k
      <4>1. PICK u \in 1..Len(s) : u = IF j < i THEN j ELSE j + 1
        BY <1>0
      <4>2. PICK v \in 1..Len(s) : v = IF k < i THEN k ELSE k + 1
        BY <1>0
      <4>3. s[u] = s[v]
        BY <2>5, <3>1, <4>1, <4>2
      <4>4. u = v
        BY <1>0, <4>3 DEF IsOnce
      <4> QED
        BY <1>0, <4>1, <4>2, <4>4
    <3> QED
      BY <2>6, <3>1 DEF IsOnce
  <2>8. ASSUME NEW x \in ToSet(t) PROVE x \in ToSet(s) /\ x # e
    <3>1. PICK j \in 1..(Len(s) - 1) : t[j] = x
      BY <2>5, ToSetFacts
    <3>2. PICK u \in 1..Len(s) : u = IF j < i THEN j ELSE j + 1
      BY <1>0
    <3>3. s[u] = x /\ u # i
      BY <1>0, <2>5, <3>1, <3>2
    <3> QED
      BY <2>1, <3>3, ToSetFacts
  <2>9. ASSUME NEW x \in ToSet(s), x # e PROVE x \in ToSet(t)
    <3>1. PICK u \in 1..Len(s) : s[u] = x
      BY ToSetFacts
    <3>2. u # i
      BY <1>2, <2>9, <3>1
    <3>3. PICK j \in 1..(Len(s) - 1) : j = IF u < i THEN u ELSE u - 1
      BY <1>0, <3>2
    <3>4. t[j] = x
      BY <1>0, <2>5, <3>1, <3>2, <3>3
    <3> QED
      BY <2>5, <3>4, ToSetFacts
  <2> QED
    BY <2>4, <2>5, <2>7, <2>8, <2>9
<1> QED
  BY <1>1, <1>2

LEMMA PushFacts ==
    ASSUME NEW S, NEW s \in Seq(S), IsOnce(s), NEW e \in S, e \notin ToSet(s)
    PROVE  /\ <<e>> \o s \in Seq(S) /\ IsOnce(<<e>> \o s)
           /\ ToSet(<<e>> \o s) = ToSet(s) \cup {e}
<1>0. /\ DOMAIN s = 1..Len(s) /\ Len(s) \in Nat
      /\ \A i \in 1..Len(s) : s[i] # e
  BY ToSetFacts
<1>1. PICK t : t = <<e>> \o s
  OBVIOUS
<1>2. /\ t \in Seq(S) /\ Len(t) = Len(s) + 1
      /\ \A j \in 1..(Len(s) + 1) : t[j] = IF j = 1 THEN e ELSE s[j - 1]
  <2>1. <<e>> \in Seq(S) /\ Len(<<e>>) = 1 /\ <<e>>[1] = e
    OBVIOUS
  <2>2. /\ t \in Seq(S) /\ Len(t) = 1 + Len(s)
        /\ \A j \in 1..(1 + Len(s)) : t[j] = IF j <= 1 THEN <<e>>[j] ELSE s[j - 1]
    BY <1>0, <1>1, <2>1, ConcatProperties
  <2> QED
    BY <1>0, <2>1, <2>2
<1>3. /\ DOMAIN t = 1..(Len(s) + 1)
      /\ t[1] = e
      /\ \A j \in 1..Len(s) : j + 1 \in 1..(Len(s) + 1) /\ t[j + 1] = s[j]
      /\ \A j \in 1..(Len(s) + 1) : j # 1 => j - 1 \in 1..Len(s) /\ t[j] = s[j - 1]
  BY <1>0, <1>2
<1>4. IsOnce(t)
  <2>1. ASSUME NEW j \in 1..(Len(s) + 1), NEW k \in 1..(Len(s) + 1), t[j] = t[k]
        PROVE  j = k
    <3>1. CASE j = 1 \/ k = 1
      BY <1>0, <1>3, <2>1, <3>1
    <3>2. CASE j # 1 /\ k # 1
      <4>1. j - 1 \in 1..Len(s) /\ k - 1 \in 1..Len(s) /\ s[j - 1] = s[k - 1]
        BY <1>3, <2>1, <3>2
      <4>2. j - 1 = k - 1
        BY <1>0, <4>1 DEF IsOnce
      <4> QED
        BY <1>0, <4>2
    <3> QED
      BY <3>1, <3>2
  <2> QED
    BY <1>3, <2>1 DEF IsOnce
<1>5. ToSet(t) = ToSet(s) \cup {e}
  <2>1. ASSUME NEW x \in ToSet(t) PROVE x \in ToSet(s) \cup {e}
    <3>1. PICK j \in 1..(Len(s) + 1) : t[j] = x
      BY <1>2, ToSetFacts
    <3> QED
      BY <1>3, <3>1, ToSetFacts
  <2>2. ASSUME NEW x \in ToSet(s) PROVE x \in ToSet(t)
    <3>1. PICK j \in 1..Len(s) : s[j] = x
      BY ToSetFacts
    <3> QED
      BY <1>2, <1>3, <3>1, ToSetFacts
  <2>3. e \in ToSet(t)
    BY <1>0, <1>2, <1>3, ToSetFacts
  <2> QED
    BY <2>1, <2>2, <2>3
<1> QED
  BY <1>1, <1>2, <1>4, <1>5

LEMMA AppendFacts ==
    ASSUME NEW S, NEW s \in Seq(S), IsOnce(s), NEW e \in S, e \notin ToSet(s)
    PROVE  /\ Append(s, e) \in Seq(S) /\ IsOnce(Append(s, e))
           /\ ToSet(Append(s, e)) = ToSet(s) \cup {e}
<1>6. PICK u : u = Append(s, e)
  OBVIOUS
<1>0. /\ DOMAIN s = 1..Len(s) /\ Len(s) \in Nat
      /\ \A i \in 1..Len(s) : s[i] # e
  BY ToSetFacts
<1>7. /\ u \in Seq(S) /\ Len(u) = Len(s) + 1
      /\ \A j \in 1..Len(s) : u[j] = s[j]
      /\ u[Len(s) + 1] = e
  BY <1>0, <1>6, AppendProperties
<1>8. DOMAIN u = 1..(Len(s) + 1)
  BY ONLY <1>7, ToSetFacts
<1>9. IsOnce(u)
  BY <1>0, <1>7, <1>8 DEF IsOnce
<1>10. ToSet(u) = ToSet(s) \cup {e}
  <2>1. ASSUME NEW x \in ToSet(u) PROVE x \in ToSet(s) \cup {e}
    <3>1. PICK j \in 1..(Len(s) + 1) : u[j] = x
      BY ONLY x \in ToSet(u), <1>7, ToSetFacts
    <3>2. j = Len(s) + 1 \/ j \in 1..Len(s)
      BY <1>0
    <3> QED
      BY ONLY s \in Seq(S), <1>7, <3>1, <3>2, ToSetFacts
  <2>2. ASSUME NEW x \in ToSet(s) PROVE x \in ToSet(u)
    <3>1. PICK j \in 1..Len(s) : s[j] = x
      BY ToSetFacts
    <3>2. j \in 1..Len(u)
      BY <1>0, <1>7
    <3> QED
      BY ONLY s \in Seq(S), <1>7, <3>1, <3>2, ToSetFacts
  <2>3. e \in ToSet(u)
    <3>1. Len(s) + 1 \in 1..Len(u)
      BY <1>0, <1>7
    <3> QED
      BY ONLY <1>7, <3>1, ToSetFacts
  <2> QED
    BY <2>1, <2>2, <2>3
<1> QED
  BY <1>6, <1>7, <1>9, <1>10

\* A queue that gets one more at its end and loses the one at its head.
IsQueue(S, w, r, q, t, h) ==
    /\ q = Append(w, r) /\ t = Tail(q) /\ h = Head(q)
    /\ q \in Seq(S) /\ IsOnce(q) /\ ToSet(q) = ToSet(w) \cup {r} /\ q # <<>>
    /\ h \in ToSet(q)
    /\ t \in Seq(S) /\ IsOnce(t) /\ ToSet(t) = ToSet(q) \ {h}
    /\ t # <<>> => w # <<>>
    /\ w = <<>> => h = r
    /\ Len(q) > 1 => w # <<>>

LEMMA QueueFacts ==
    ASSUME NEW S, NEW w \in Seq(S), IsOnce(w), NEW r \in S, r \notin ToSet(w)
    PROVE  \E q, t, h : IsQueue(S, w, r, q, t, h)
<1>0. PICK q : q = Append(w, r)
  OBVIOUS
<1>1. q \in Seq(S) /\ IsOnce(q) /\ ToSet(q) = ToSet(w) \cup {r}
  BY <1>0, AppendFacts
<1>2. Len(w) \in Nat /\ Len(q) = Len(w) + 1 /\ q # <<>> /\ DOMAIN q = 1..Len(q)
  BY <1>0, <1>1, AppendProperties, ToSetFacts
<1>3. PICK t : t = Tail(q)
  OBVIOUS
<1>4. /\ t \in Seq(S) /\ Len(t) = Len(w) /\ DOMAIN t = 1..Len(w)
      /\ \A j \in 1..Len(w) : t[j] = q[j + 1] /\ j + 1 \in 1..Len(q)
      /\ Head(q) = q[1] /\ 1 \in 1..Len(q)
  <2>1. /\ Head(q) \in S
        /\ t \in Seq(S)
        /\ Len(t) = Len(q) - 1
        /\ \A i \in 1..Len(t) : t[i] = q[i + 1]
    BY <1>1, <1>2, <1>3, HeadTailProperties
  <2>2. Head(q) = q[1]
    BY <1>1, <1>2
  <2> QED
    BY <1>2, <2>1, <2>2, ToSetFacts
<1>5. Head(q) \in ToSet(q)
  BY <1>1, <1>4, ToSetFacts
<1>6. IsOnce(t)
  <2>1. ASSUME NEW j \in 1..Len(w), NEW k \in 1..Len(w), t[j] = t[k]
        PROVE  j = k
    <3>1. /\ j + 1 \in 1..Len(q) /\ k + 1 \in 1..Len(q)
          /\ q[j + 1] = q[k + 1]
      BY <1>4, <2>1
    <3>2. j + 1 = k + 1
      BY ONLY <1>1, <1>2, <3>1 DEF IsOnce
    <3> QED
      BY <1>2, <3>2
  <2> QED
    BY <1>4, <2>1 DEF IsOnce
<1>7. ASSUME NEW x \in ToSet(t) PROVE x \in ToSet(q) /\ x # Head(q)
  <2>1. PICK j \in 1..Len(w) : t[j] = x
    BY <1>4, ToSetFacts
  <2>2. j + 1 # 1 /\ q[j + 1] = x /\ j + 1 \in 1..Len(q)
    BY <1>2, <1>4, <2>1
  <2> QED
    <3>1. q[j + 1] # q[1]
      BY ONLY <1>1, <1>2, <1>4, <2>2 DEF IsOnce
    <3> QED
      BY <1>1, <1>4, <2>2, <3>1, ToSetFacts
<1>8. ASSUME NEW x \in ToSet(q), x # Head(q) PROVE x \in ToSet(t)
  <2>1. PICK j \in 1..Len(q) : q[j] = x
    BY <1>1, ToSetFacts
  <2>2. j # 1
    BY <1>4, <1>8, <2>1
  <2>3. PICK k \in 1..Len(w) : k + 1 = j
    BY <1>2, <2>2
  <2> QED
    BY <1>4, <2>1, <2>3, ToSetFacts
<1>9. w = <<>> => Len(w) = 0
  OBVIOUS
<1>10. t # <<>> => Len(w) # 0
  BY <1>4, EmptySeq
<1>11. w = <<>> => q[1] = r
  BY <1>0, <1>9, AppendProperties
<1> QED
  <2>1. ToSet(t) = ToSet(q) \ {Head(q)}
    BY <1>7, <1>8
  <2>2. PICK h : h = Head(q)
    OBVIOUS
  <2>3. /\ t # <<>> => w # <<>>
        /\ w = <<>> => h = r
        /\ Len(q) > 1 => w # <<>>
    BY <1>2, <1>4, <1>9, <1>10, <1>11, <2>2
  <2>4. h \in ToSet(q) /\ ToSet(t) = ToSet(q) \ {h}
    BY <1>5, <2>1, <2>2, Zenon
  <2> QED
    BY <1>0, <1>1, <1>2, <1>3, <1>4, <1>6, <2>2, <2>3, <2>4, Zenon DEF IsQueue

\* The first of a set that occurs in a queue is one of the set.
LEMMA FirstFacts ==
    ASSUME NEW T, NEW w \in Seq(T), NEW S, S \subseteq ToSet(w), S # {}
    PROVE  FirstOf(w, S) \in S
<1> DEFINE I == {i \in 1..Len(w) : w[i] \in S}
<1>1. I # {} /\ I \subseteq Nat
  BY ToSetFacts
<1>2. PICK m \in I : \A j \in I : ~(<<j, m>> \in OpToRel(<, Nat))
  BY <1>1, NatLessThanWellFounded, WFMin, Zenon
<1>3. \A j \in I : m <= j
  <2>1. \A j \in I : ~(j < m)
    BY <1>1, <1>2, Zenon DEF OpToRel
  <2> QED
    BY <1>1, <2>1
<1>4. SelectInSeq(w, LAMBDA r : r \in S) \in I
  BY <1>1, <1>2, <1>3 DEF SelectInSeq, Min
<1> QED
  BY <1>4 DEF FirstOf
-----------------------------------------------------------------------------
(* Items and the lists of them.                                            *)

LEMMA EmptyFacts == ToSet(<<>>) = {} /\ IsOnce(<<>>)
BY DEF ToSet, IsOnce

LEMMA ConstantFacts ==
    /\ NoEngine \notin LoadEngine /\ NoEngine \notin ModifyEngine
    /\ NoItem \notin Item /\ NoBucket \notin Bucket /\ NoRequest \notin Request
    /\ NoBucket \notin SUBSET Request
    /\ Kind \in [Request -> Kinds] /\ BucketOf \in [Request -> Bucket]
    /\ MaxCacheSize \in Nat
BY CacheAssumption

LEMMA NewItemFacts ==
    ASSUME NEW src \in Metadata
    PROVE  NewItem(src) \in Item
BY EmptyFacts DEF NewItem, Item

\* What get_item finds or makes is an item as good as those of the cache.
LEMMA EntryFacts ==
    ASSUME CacheTypeOK, ItemsInv, NEW b \in Bucket, NEW src \in Metadata
    PROVE  \E it \in Item :
              /\ it = Entry(b, src)
              /\ EngineInv(it) /\ RequestInv(b, it) /\ ValueInv(b, it)
              /\ b \in Cached => it = item[b]
              /\ b \notin Cached => it.modify = NoEngine /\ it.waiters = <<>>
<1>1. CASE b \in Cached
  <2>1. item[b] \in Item /\ Entry(b, src) = item[b]
    BY <1>1 DEF Entry, Cached, CacheTypeOK
  <2> QED
    BY <1>1, <2>1 DEF ItemsInv
<1>2. CASE b \notin Cached
  <2>1. PICK it : it = NewItem(src)
    OBVIOUS
  <2>2. it \in Item /\ it = Entry(b, src)
    BY <1>2, <2>1, NewItemFacts DEF Entry
  <2>3. /\ it.modify = NoEngine /\ it.load = NoEngine /\ it.op = "none"
        /\ it.waiters = <<>> /\ it.age = 2
    BY <2>1 DEF NewItem
  <2>4. EngineInv(it) /\ RequestInv(b, it) /\ ValueInv(b, it)
    BY <2>3, EmptyFacts DEF EngineInv, RequestInv, ValueInv
  <2> QED
    BY <1>2, <2>2, <2>3, <2>4
<1> QED
  BY <1>1, <1>2

LEMMA GetItemFacts ==
    ASSUME CacheTypeOK, ListsInv, NEW b \in Bucket, NEW evicted \in Evictions(b),
           NEW it \in Item, GetItem(b, evicted, it)
    PROVE  /\ item' \in [Bucket -> Item \cup {NoItem}]
           /\ byAccess' \in Seq(Bucket) /\ byUpdate' \in Seq(Bucket)
           /\ ListsInv' /\ item'[b] = it
           /\ \A c \in Bucket \ {b} :
                 item'[c] # item[c] => item'[c] = NoItem /\ c \in Removable
<1>1. /\ byAccess \in Seq(Bucket) /\ byUpdate \in Seq(Bucket)
      /\ item \in [Bucket -> Item \cup {NoItem}]
  BY DEF CacheTypeOK
<1>2. /\ IsFiniteSet(Cached) /\ Cardinality(Cached) <= MaxCacheSize
      /\ IsOnce(byAccess) /\ ToSet(byAccess) = Cached
      /\ IsOnce(byUpdate) /\ ToSet(byUpdate) = Cached
  BY DEF ListsInv
<1>3. PICK left : left = Cached \ {evicted}
  OBVIOUS
<1>4. /\ evicted # b
      /\ evicted = NoBucket \/ evicted \in Removable
      /\ IsFiniteSet(left \cup {b}) /\ Cardinality(left \cup {b}) <= MaxCacheSize
  <2>1. CASE IsFull(b)
    <3>1. b \notin Cached
      <4>1. Cardinality(Cached \cup {b}) > MaxCacheSize
        BY <2>1 DEF IsFull
      <4>2. SUFFICES ASSUME b \in Cached PROVE FALSE
        OBVIOUS
      <4>3. Cached \cup {b} = Cached
        BY <4>2
      <4>4. Cardinality(Cached) > MaxCacheSize
        BY <4>1, <4>3, Zenon
      <4>5. Cardinality(Cached) \in Nat
        BY <1>2, FS_CardinalityType
      <4> QED
        BY <1>2, <4>4, <4>5, ConstantFacts
    <3>2. evicted \in Removable /\ evicted \in Cached
      BY <2>1 DEF Evictions, Shrink, LastOf, Expired, Removable
    <3>3. IsFiniteSet(left) /\ Cardinality(left) = Cardinality(Cached) - 1
      BY <1>2, <1>3, <3>2, FS_RemoveElement
    <3>4. IsFiniteSet(left \cup {b}) /\ Cardinality(left \cup {b}) = Cardinality(left) + 1
      BY <1>3, <3>1, <3>3, FS_AddElement
    <3> QED
      BY <1>2, <3>1, <3>2, <3>3, <3>4, FS_CardinalityType, ConstantFacts
  <2>2. CASE ~IsFull(b)
    <3>1. evicted = NoBucket
      BY <2>2 DEF Evictions
    <3>2. left = Cached
      BY <1>3, <3>1, ConstantFacts DEF Cached
    <3>3. IsFiniteSet(Cached \cup {b})
      BY <1>2, FS_AddElement
    <3> QED
      BY <2>2, <3>1, <3>2, <3>3, FS_CardinalityType, ConstantFacts DEF IsFull
  <2> QED
    BY <2>1, <2>2
<1>5. /\ item' \in [Bucket -> Item \cup {NoItem}] /\ item'[b] = it
      /\ \A c \in Bucket \ {b} : item'[c] = IF c = evicted THEN NoItem ELSE item[c]
  BY <1>1 DEF GetItem
<1>6. Cached' = left \cup {b}
  BY <1>3, <1>4, <1>5, ConstantFacts DEF Cached
<1>7. PICK accessed : accessed = RemoveFirst(byAccess, evicted)
  OBVIOUS
<1>8. accessed \in Seq(Bucket) /\ IsOnce(accessed) /\ ToSet(accessed) = left
  BY <1>1, <1>2, <1>3, <1>7, RemoveFirstFacts
<1>9. PICK others : others = RemoveFirst(accessed, b)
  OBVIOUS
<1>10. others \in Seq(Bucket) /\ IsOnce(others) /\ ToSet(others) = left \ {b}
  BY <1>8, <1>9, RemoveFirstFacts
<1>11. byAccess' = <<b>> \o others
  BY <1>7, <1>9 DEF GetItem
<1>12. byAccess' \in Seq(Bucket) /\ IsOnce(byAccess') /\ ToSet(byAccess') = left \cup {b}
  <2>1. b \notin ToSet(others)
    BY <1>10
  <2>2. ToSet(<<b>> \o others) = ToSet(others) \cup {b}
    BY <1>10, <2>1, PushFacts
  <2>3. <<b>> \o others \in Seq(Bucket) /\ IsOnce(<<b>> \o others)
    BY <1>10, <2>1, PushFacts
  <2> QED
    BY <1>10, <1>11, <2>2, <2>3
<1>13. PICK updated : updated = RemoveFirst(byUpdate, evicted)
  OBVIOUS
<1>14. updated \in Seq(Bucket) /\ IsOnce(updated) /\ ToSet(updated) = left
  BY <1>1, <1>2, <1>3, <1>13, RemoveFirstFacts
<1>15. byUpdate' \in Seq(Bucket) /\ IsOnce(byUpdate') /\ ToSet(byUpdate') = left \cup {b}
  <2>1. CASE b \in Cached
    <3>1. byUpdate' = updated /\ left = left \cup {b}
      BY <1>3, <1>4, <1>13, <2>1 DEF GetItem
    <3> QED
      BY <1>14, <3>1
  <2>2. CASE b \notin Cached
    <3>1. byUpdate' = Append(updated, b) /\ b \notin ToSet(updated)
      BY <1>3, <1>13, <1>14, <2>2 DEF GetItem
    <3> QED
      BY <1>14, <3>1, AppendFacts
  <2> QED
    BY <2>1, <2>2
<1>16. ListsInv'
  BY <1>4, <1>6, <1>12, <1>15 DEF ListsInv
<1>17. \A c \in Bucket \ {b} :
          item'[c] # item[c] => item'[c] = NoItem /\ c \in Removable
  BY <1>4, <1>5, ConstantFacts
<1> QED
  BY <1>5, <1>12, <1>15, <1>16, <1>17
\* What is said of the other buckets stays true: of those, only idle items go.
LEMMA OthersKept ==
    ASSUME CacheTypeOK, ItemsInv, PlaceInv, CreatesNewBucket,
           item' \in [Bucket -> Item \cup {NoItem}],
           NEW b \in Bucket,
           \A c \in Bucket \ {b} :
              item'[c] # item[c] => item'[c] = NoItem /\ c \in Removable,
           \A c \in Bucket \ {b} : global'[c] = global[c] /\ info'[c] = info[c],
           \A r \in Request : BucketOf[r] # b => pc'[r] = pc[r],
           \A r \in Request : BucketOf[r] = b => Placed(r)',
           b \in Cached' =>
              /\ EngineInv(item[b])' /\ RequestInv(b, item[b])'
              /\ ValueInv(b, item[b])'
              /\ item'[b].modify # NoEngine /\ item'[b].modify.outcome = "sent"
                    /\ item'[b].modify.step = "save_global" => MayCreate(b)'
    PROVE  ItemsInv' /\ PlaceInv' /\ CreatesNewBucket'
<1>1. ASSUME NEW c \in Bucket, c # b, c \in Cached'
      PROVE  /\ c \in Cached /\ item'[c] = item[c]
             /\ global'[c] = global[c] /\ info'[c] = info[c]
             /\ MayCreate(c)' <=> MayCreate(c)
  BY <1>1 DEF Cached, MayCreate
<1>2. ASSUME NEW c \in Cached' PROVE (EngineInv(item[c]) /\ RequestInv(c, item[c]) /\ ValueInv(c, item[c]))'
  <2>1. CASE c = b
    BY <2>1
  <2>2. CASE c # b
    <3>1. c \in Bucket
      BY DEF Cached
    <3>2. EngineInv(item[c]) /\ RequestInv(c, item[c]) /\ ValueInv(c, item[c])
      BY <1>1, <2>2, <3>1 DEF ItemsInv
    <3>3. PICK it : it = item[c]
      OBVIOUS
    <3>4. it = item'[c] /\ it \in Item
      BY <1>1, <2>2, <3>1, <3>3 DEF CacheTypeOK, Cached
    <3>5. EngineInv(it)
      BY <3>2, <3>3
    <3>6. RequestInv(c, it) /\ RequestInv(c, it)'
      <4>1. RequestInv(c, it)
        BY <3>2, <3>3
      <4>2. ToSet(it.waiters) \subseteq Request
        BY <3>4, ToSetFacts DEF Item
      <4> QED
        BY <2>2, <4>1, <4>2 DEF RequestInv, Idle
    <3>7. ValueInv(c, it) /\ ValueInv(c, it)'
      BY <1>1, <2>2, <3>1, <3>2, <3>3 DEF ValueInv, IsRemoving
    <3> QED
      BY <3>4, <3>5, <3>6, <3>7 DEF EngineInv
  <2> QED
    BY <2>1, <2>2
<1>3. ASSUME NEW r \in Request PROVE Placed(r)'
  <2>1. CASE BucketOf[r] = b
    BY <2>1
  <2>2. CASE BucketOf[r] # b
    <3>1. BucketOf[r] \in Bucket /\ Placed(r) /\ pc'[r] = pc[r]
      BY <2>2, ConstantFacts DEF PlaceInv
    <3>2. PICK c \in Bucket : c = BucketOf[r]
      BY <3>1
    <3>3. CASE item'[c] = item[c]
      BY <3>1, <3>2, <3>3 DEF Placed, Cached
    <3>4. CASE item'[c] # item[c]
      <4>1. c \in Cached /\ Idle(item[c]) /\ RequestInv(c, item[c])
        BY <2>2, <3>2, <3>4 DEF Removable, ItemsInv
      <4>2. item[c].waiters = <<>> /\ item[c].modify = NoEngine
        BY <4>1 DEF RequestInv, Idle
      <4>3. pc[r] # "loading" /\ pc[r] # "changing"
        BY <3>1, <3>2, <4>2, EmptyFacts DEF Placed
      <4> QED
        BY <3>1, <4>3 DEF Placed
    <3> QED
      BY <3>3, <3>4
  <2> QED
    BY <2>1, <2>2
<1>4. CreatesNewBucket'
  <2> SUFFICES ASSUME NEW c \in Cached',
                      item'[c].modify # NoEngine, item'[c].modify.outcome = "sent",
                      item'[c].modify.step = "save_global"
               PROVE  MayCreate(c)'
    BY DEF CreatesNewBucket, MayCreate
  <2>1. CASE c = b
    BY <2>1
  <2>2. CASE c # b
    <3>1. c \in Bucket
      BY DEF Cached
    <3> QED
      BY <1>1, <2>2, <3>1 DEF CreatesNewBucket, MayCreate
  <2> QED
    BY <2>1, <2>2
<1> QED
  BY <1>2, <1>3, <1>4 DEF ItemsInv, PlaceInv
-----------------------------------------------------------------------------
(* The steps of the requests.                                              *)

\* What every step starts from.
LEMMA StepFacts ==
    ASSUME CacheIInv, ~crashed
    PROVE  CacheTypeOK /\ ListsInv /\ CreatesNewBucket /\ ItemsInv /\ PlaceInv
BY DEF CacheIInv

LEMMA LoadedFacts ==
    ASSUME NEW r \in Request, NEW value \in Metadata
    PROVE  /\ AfterLoad(r, value.state) \in {"ready", "changing", "done"}
           /\ AfterLoad(r, value.state) = "ready" => Kind[r] \in {"update", "delete"}
           /\ AfterLoad(r, value.state) = "changing"
                 => Kind[r] = "create" /\ value.state = "missing"
           /\ Loaded(r, value) \in Metadata
BY DEF AfterLoad, Loaded, Metadata, Meta, Empty

LEMMA StartLoadFacts ==
    ASSUME NEW it \in Item, NEW q \in Seq(Request), NEW new,
           new = StartLoad([it EXCEPT !.waiters = q])
    PROVE  /\ new \in Item /\ new.waiters = q /\ ~Idle(new)
           /\ new.modify = it.modify /\ new.on_changed = it.on_changed
           /\ new.value = it.value /\ new.age = it.age
           /\ \/ new.load = it.load /\ new.op = it.op
              \/ /\ Idle(it) /\ new.op = "fetching"
                 /\ new.load \in LoadEngine /\ new.load.outcome = "sent"
                 /\ new.load.step = "load_global"
<1>1. PICK base : base = [it EXCEPT !.waiters = q]
  OBVIOUS
<1>2. /\ base \in Item /\ base.waiters = q
      /\ base.modify = it.modify /\ base.on_changed = it.on_changed
      /\ base.value = it.value /\ base.age = it.age
      /\ base.load = it.load /\ base.op = it.op
  BY <1>1 DEF Item
<1>3. Idle(base) <=> Idle(it)
  BY <1>2 DEF Idle
<1>4. new = StartLoad(base)
  BY <1>1
<1>5. CASE ~Idle(it)
  BY <1>2, <1>3, <1>4, <1>5 DEF StartLoad
<1>6. CASE Idle(it)
  <2>1. PICK e : e = NewEngine("load_global", base.value)
    OBVIOUS
  <2>2. /\ e \in LoadEngine /\ e # NoEngine
        /\ e.outcome = "sent" /\ e.step = "load_global"
    BY <1>2, <2>1, ConstantFacts DEF NewEngine, LoadEngine, LoadSteps, Item
  <2>3. new = [base EXCEPT !.load = e, !.op = "fetching"]
    BY <1>3, <1>4, <1>6, <2>1 DEF StartLoad
  <2>4. /\ new \in Item /\ new.waiters = q /\ new.load = e /\ new.op = "fetching"
        /\ new.modify = it.modify /\ new.on_changed = it.on_changed
        /\ new.value = it.value /\ new.age = it.age
    BY <1>2, <2>2, <2>3 DEF Item
  <2> QED
    BY <1>6, <2>2, <2>4 DEF Idle
<1> QED
  BY <1>5, <1>6

\* A step that gets the item of b from get_item, changed to new.
LEMMA GetItemKeeps ==
    ASSUME CacheIInv, ~crashed, UNCHANGED <<global, info, crashed>>,
           NEW b \in Bucket, NEW evicted \in Evictions(b), NEW new \in Item,
           GetItem(b, evicted, new),
           pc' \in [Request -> {"idle", "loading", "ready", "changing", "done"}],
           proxy' \in [Request -> Metadata],
           EngineInv(new), ValueInv(b, new), RequestInv(b, new)',
           ~(new.modify # NoEngine /\ new.modify.step = "save_global")
              \/ (b \in Cached /\ new.modify = item[b].modify),
           \A x \in Request : BucketOf[x] # b => pc'[x] = pc[x],
           \A x \in Request : BucketOf[x] = b =>
              /\ pc'[x] = "loading" => x \in ToSet(new.waiters)
              /\ pc'[x] = "ready" => Kind[x] \in {"update", "delete"}
              /\ pc'[x] = "changing" => new.on_changed = x /\ new.modify # NoEngine
    PROVE  CacheIInv'
<1>1. CacheTypeOK /\ ListsInv /\ CreatesNewBucket /\ ItemsInv /\ PlaceInv
  BY StepFacts
<1>2. /\ item' \in [Bucket -> Item \cup {NoItem}]
      /\ byAccess' \in Seq(Bucket) /\ byUpdate' \in Seq(Bucket)
      /\ ListsInv' /\ item'[b] = new
      /\ \A c \in Bucket \ {b} :
            item'[c] # item[c] => item'[c] = NoItem /\ c \in Removable
  BY <1>1, GetItemFacts
<1>3. CacheTypeOK'
  BY <1>1, <1>2 DEF CacheTypeOK
<1>4. ValueInv(b, new)'
  BY DEF ValueInv, IsRemoving, MayCreate
<1>5. EngineInv(item[b])' /\ RequestInv(b, item[b])' /\ ValueInv(b, item[b])'
  BY <1>2, <1>4 DEF EngineInv, RequestInv, ValueInv, IsRemoving
<1>6. item'[b].modify # NoEngine /\ item'[b].modify.outcome = "sent"
          /\ item'[b].modify.step = "save_global" => MayCreate(b)'
  BY <1>1, <1>2 DEF CreatesNewBucket, MayCreate
<1>7. b \in Cached'
  BY <1>2, ConstantFacts DEF Cached
<1>8. ASSUME NEW x \in Request, BucketOf[x] = b PROVE Placed(x)'
  BY <1>2, <1>7, <1>8 DEF Placed
<1>9. ItemsInv' /\ PlaceInv' /\ CreatesNewBucket'
  BY <1>1, <1>2, <1>5, <1>6, <1>8, OthersKept
<1> QED
  BY <1>2, <1>3, <1>9 DEF CacheIInv

\* A request that ends while no item has it.
LEMMA EndKeeps ==
    ASSUME CacheIInv, ~crashed, UNCHANGED <<global, info, item, byAccess, byUpdate, crashed>>,
           NEW r \in Request, pc[r] \in {"idle", "ready"},
           pc' = [pc EXCEPT ![r] = "done"], proxy' = [proxy EXCEPT ![r] = Empty]
    PROVE  CacheIInv'
<1>1. CacheTypeOK /\ ListsInv /\ CreatesNewBucket /\ ItemsInv /\ PlaceInv
  BY StepFacts
<1>2. Empty \in Metadata
  BY DEF Empty, Meta, Metadata
<1>3. CacheTypeOK'
  BY <1>1, <1>2 DEF CacheTypeOK
<1>4. ListsInv' /\ CreatesNewBucket'
  BY <1>1 DEF ListsInv, CreatesNewBucket, Cached
<1>5. /\ pc'[r] = "done"
      /\ \A x \in Request : x # r => pc'[x] = pc[x]
  BY <1>1 DEF CacheTypeOK
<1>6. PlaceInv'
  BY <1>1, <1>5 DEF PlaceInv, Placed, Cached
<1>7. ASSUME NEW c \in Cached' PROVE (EngineInv(item[c]) /\ RequestInv(c, item[c]) /\ ValueInv(c, item[c]))'
  <2>1. c \in Cached /\ item[c] \in Item
    BY <1>1 DEF Cached, CacheTypeOK
  <2>2. EngineInv(item[c]) /\ RequestInv(c, item[c]) /\ ValueInv(c, item[c])
    BY <1>1, <2>1 DEF ItemsInv
  <2>3. ToSet(item[c].waiters) \subseteq Request
    BY <2>1, ToSetFacts DEF Item
  <2>4. RequestInv(c, item[c])'
    BY <1>5, <2>2, <2>3 DEF RequestInv, Idle
  <2>5. ValueInv(c, item[c])'
    BY <2>2 DEF ValueInv, IsRemoving, MayCreate
  <2> QED
    BY <2>2, <2>4, <2>5 DEF EngineInv
<1> QED
  BY <1>3, <1>4, <1>6, <1>7 DEF CacheIInv, ItemsInv

LEMMA FetchKeeps ==
    ASSUME CacheIInv, NEW r \in Request, Fetch(r)
    PROVE  CacheIInv'
<1>0. pc[r] = "idle" /\ ~crashed /\ UNCHANGED <<kvs, crashed>>
  BY DEF Fetch
<1>1. CacheTypeOK /\ ListsInv /\ CreatesNewBucket /\ ItemsInv /\ PlaceInv
  BY <1>0, StepFacts
<1>2. PICK b \in Bucket : b = BucketOf[r]
  BY ConstantFacts
<1>3. /\ pc \in [Request -> {"idle", "loading", "ready", "changing", "done"}]
      /\ proxy \in [Request -> Metadata] /\ proxy[r] \in Metadata
  BY <1>1 DEF CacheTypeOK
<1>4. PICK it \in Item :
         /\ it = Entry(b, proxy[r])
         /\ EngineInv(it) /\ RequestInv(b, it) /\ ValueInv(b, it)
         /\ b \in Cached => it = item[b]
         /\ b \notin Cached => it.modify = NoEngine /\ it.waiters = <<>>
  BY <1>1, <1>3, EntryFacts
<1>5. PICK w \in Seq(Request) : w = it.waiters
  BY <1>4 DEF Item
<1>6. IsOnce(w) /\ r \notin ToSet(w) /\ \A x \in ToSet(w) : BucketOf[x] = b /\ pc[x] = "loading"
  BY <1>0, <1>4, <1>5 DEF RequestInv
<1>60. PICK q, t, h : IsQueue(Request, w, r, q, t, h)
  BY <1>6, QueueFacts, Zenon
<1>7. /\ q = Append(w, r) /\ t = Tail(q) /\ h = Head(q)
      /\ q \in Seq(Request) /\ IsOnce(q) /\ ToSet(q) = ToSet(w) \cup {r}
      /\ h \in ToSet(q)
      /\ t \in Seq(Request) /\ IsOnce(t) /\ ToSet(t) = ToSet(q) \ {h}
      /\ t # <<>> => w # <<>>
  BY <1>60, Zenon DEF IsQueue
<1>8. ToSet(q) \subseteq Request /\ h \in Request
  BY <1>7, ToSetFacts
<1>9. \A x \in ToSet(q) : BucketOf[x] = b /\ (x = r \/ pc[x] = "loading")
  BY <1>2, <1>6, <1>7
<1>10. \A x \in Request : BucketOf[x] = b =>
          /\ pc[x] = "loading" => x \in ToSet(w)
          /\ pc[x] = "ready" => Kind[x] \in {"update", "delete"}
          /\ pc[x] = "changing" => it.on_changed = x /\ it.modify # NoEngine
  BY <1>1, <1>4, <1>5 DEF PlaceInv, Placed
<1>11. /\ global' = global /\ info' = info /\ crashed' = crashed
  BY <1>0 DEF kvs
<1>12. ASSUME NEW evicted \in Evictions(b), IsServed(it, q),
              GetItem(b, evicted, [it EXCEPT !.waiters = t]),
              pc' = [pc EXCEPT ![r] = "loading", ![h] = AfterLoad(h, "present")],
              proxy' = [proxy EXCEPT ![h] = Loaded(h, it.value)]
       PROVE  CacheIInv'
  <2>1. PICK new : new = [it EXCEPT !.waiters = t]
    OBVIOUS
  <2>2. /\ new \in Item /\ new.waiters = t /\ new.load = it.load
        /\ new.modify = it.modify /\ new.on_changed = it.on_changed
        /\ new.op = it.op /\ new.value = it.value /\ new.age = it.age
    BY <1>4, <1>7, <2>1 DEF Item
  <2>3. GetItem(b, evicted, new)
    BY <1>12, <2>1
  <2>4. it.value \in Metadata /\ it.value.state = "present"
    BY <1>4, <1>12 DEF Item, IsServed
  <2>5. /\ AfterLoad(h, "present") \in {"ready", "done"}
        /\ AfterLoad(h, "present") = "ready" => Kind[h] \in {"update", "delete"}
        /\ Loaded(h, it.value) \in Metadata
    BY <1>8, <2>4, LoadedFacts
  <2>6. /\ pc' \in [Request -> {"idle", "loading", "ready", "changing", "done"}]
        /\ pc'[h] = AfterLoad(h, "present")
        /\ r # h => pc'[r] = "loading"
        /\ \A x \in Request : x # r /\ x # h => pc'[x] = pc[x]
    BY <1>3, <1>8, <1>12, <2>5
  <2>7. proxy' \in [Request -> Metadata]
    BY <1>3, <1>8, <1>12, <2>5
  <2>8. EngineInv(new) /\ ValueInv(b, new)
    BY <1>4, <2>2 DEF EngineInv, ValueInv, IsRemoving
  <2>9. RequestInv(b, new)'
    <3>1. new.modify # NoEngine =>
              /\ new.on_changed \in Request
              /\ BucketOf[new.on_changed] = b
              /\ pc'[new.on_changed] = "changing"
              /\ (Kind[new.on_changed] = "delete") <=> (new.op = "deleting")
      BY <1>0, <1>4, <1>7, <1>9, <2>2, <2>6 DEF RequestInv
    <3>2. \A x \in ToSet(t) : BucketOf[x] = b /\ pc'[x] = "loading"
      BY <1>7, <1>8, <1>9, <2>6
    <3>3. t # <<>> => ~Idle(new)
      BY <1>4, <1>5, <1>7, <2>2 DEF RequestInv, Idle
    <3> QED
      BY <1>7, <2>2, <3>1, <3>2, <3>3 DEF RequestInv
  <2>10. ASSUME NEW x \in Request, BucketOf[x] = b
         PROVE  /\ pc'[x] = "loading" => x \in ToSet(new.waiters)
                /\ pc'[x] = "ready" => Kind[x] \in {"update", "delete"}
                /\ pc'[x] = "changing" => new.on_changed = x /\ new.modify # NoEngine
    BY <1>7, <1>10, <2>2, <2>5, <2>6, <2>10
  <2>11. \A x \in Request : BucketOf[x] # b => pc'[x] = pc[x]
    BY <1>9, <2>6, <1>2, <1>7
  <2>12. ~(new.modify # NoEngine) \/ (b \in Cached /\ new.modify = item[b].modify)
    BY <1>4, <2>2
  <2> QED
    BY <1>0, <1>11, <2>2, <2>3, <2>6, <2>7, <2>8, <2>9, <2>10, <2>11, <2>12, GetItemKeeps
<1>13. ASSUME NEW evicted \in Evictions(b),
              GetItem(b, evicted, StartLoad([it EXCEPT !.waiters = q])),
              pc' = [pc EXCEPT ![r] = "loading"], UNCHANGED proxy
       PROVE  CacheIInv'
  <2>0. q \in Seq(Request)
    BY <1>7
  <2>1. PICK new : new = StartLoad([it EXCEPT !.waiters = q])
    OBVIOUS
  <2>2. /\ new \in Item /\ new.waiters = q /\ ~Idle(new)
        /\ new.modify = it.modify /\ new.on_changed = it.on_changed
        /\ new.value = it.value /\ new.age = it.age
        /\ \/ new.load = it.load /\ new.op = it.op
           \/ /\ Idle(it) /\ new.op = "fetching"
              /\ new.load \in LoadEngine /\ new.load.outcome = "sent"
              /\ new.load.step = "load_global"
    BY ONLY it \in Item, <2>0, <2>1, StartLoadFacts
  <2>3. GetItem(b, evicted, new)
    BY <1>13, <2>1
  <2>4. /\ pc' \in [Request -> {"idle", "loading", "ready", "changing", "done"}]
        /\ pc'[r] = "loading"
        /\ \A x \in Request : x # r => pc'[x] = pc[x]
        /\ proxy' \in [Request -> Metadata]
    BY <1>3, <1>13
  <2>5. EngineInv(new) /\ ValueInv(b, new)
    BY <1>4, <2>2 DEF EngineInv, ValueInv, IsRemoving, Idle
  <2>6. RequestInv(b, new)'
    <3>1. new.modify # NoEngine =>
              /\ new.on_changed \in Request
              /\ BucketOf[new.on_changed] = b
              /\ pc'[new.on_changed] = "changing"
              /\ (Kind[new.on_changed] = "delete") <=> (new.op = "deleting")
      BY <1>0, <1>4, <2>2, <2>4 DEF RequestInv, Idle
    <3>2. \A x \in ToSet(q) : BucketOf[x] = b /\ pc'[x] = "loading"
      BY <1>8, <1>9, <2>4
    <3> QED
      BY <1>7, <2>2, <3>1, <3>2 DEF RequestInv
  <2>7. ASSUME NEW x \in Request, BucketOf[x] = b
        PROVE  /\ pc'[x] = "loading" => x \in ToSet(new.waiters)
               /\ pc'[x] = "ready" => Kind[x] \in {"update", "delete"}
               /\ pc'[x] = "changing" => new.on_changed = x /\ new.modify # NoEngine
    BY <1>7, <1>10, <2>2, <2>4, <2>7
  <2>8. \A x \in Request : BucketOf[x] # b => pc'[x] = pc[x]
    BY <2>4, <1>2
  <2>9. ~(new.modify # NoEngine) \/ (b \in Cached /\ new.modify = item[b].modify)
    BY <1>4, <2>2
  <2> QED
    BY <1>0, <1>11, <2>2, <2>3, <2>4, <2>5, <2>6, <2>7, <2>8, <2>9, GetItemKeeps
<1>14. CASE Refuse(r) /\ UNCHANGED <<item, lists>>
  BY <1>0, <1>11, <1>14, EndKeeps DEF Refuse, lists
<1>15. it = Entry(BucketOf[r], proxy[r]) /\ q = Append(it.waiters, r)
  BY <1>2, <1>4, <1>5, <1>7
<1> QED
  <2>1. \/ \E evicted \in Evictions(b) :
              \/ /\ IsServed(it, q)
                 /\ GetItem(b, evicted, [it EXCEPT !.waiters = Tail(q)])
                 /\ pc' = [pc EXCEPT ![r] = "loading",
                              ![Head(q)] = AfterLoad(Head(q), "present")]
                 /\ proxy' = [proxy EXCEPT ![Head(q)] = Loaded(Head(q), it.value)]
              \/ /\ GetItem(b, evicted, StartLoad([it EXCEPT !.waiters = q]))
                 /\ pc' = [pc EXCEPT ![r] = "loading"]
                 /\ UNCHANGED proxy
        \/ Refuse(r) /\ UNCHANGED <<item, lists>>
    BY <1>2, <1>15, Zenon DEF Fetch
  <2> QED
    BY <1>7, <1>12, <1>13, <1>14, <2>1, Zenon
LEMMA ChangeKeeps ==
    ASSUME CacheIInv, NEW r \in Request, Change(r)
    PROVE  CacheIInv'
<1>0. pc[r] = "ready" /\ ~crashed /\ UNCHANGED <<kvs, crashed>>
  BY DEF Change
<1>1. CacheTypeOK /\ ListsInv /\ CreatesNewBucket /\ ItemsInv /\ PlaceInv
  BY <1>0, StepFacts
<1>2. PICK b \in Bucket : b = BucketOf[r]
  BY ConstantFacts
<1>3. /\ pc \in [Request -> {"idle", "loading", "ready", "changing", "done"}]
      /\ proxy \in [Request -> Metadata] /\ proxy[r] \in Metadata
      /\ Kind[r] \in {"update", "delete"} /\ Empty \in Metadata
  BY <1>0, <1>1 DEF CacheTypeOK, PlaceInv, Placed, Empty, Meta, Metadata
<1>4. PICK it \in Item :
         /\ it = Entry(b, proxy[r])
         /\ EngineInv(it) /\ RequestInv(b, it) /\ ValueInv(b, it)
         /\ b \in Cached => it = item[b]
         /\ b \notin Cached => it.modify = NoEngine /\ it.waiters = <<>>
  BY <1>1, <1>3, EntryFacts
<1>5. ToSet(it.waiters) \subseteq Request
  BY <1>4, ToSetFacts DEF Item
<1>6. \A x \in Request : BucketOf[x] = b =>
          /\ pc[x] = "loading" => x \in ToSet(it.waiters)
          /\ pc[x] = "ready" => Kind[x] \in {"update", "delete"}
          /\ pc[x] = "changing" => it.on_changed = x /\ it.modify # NoEngine
  BY <1>1, <1>4 DEF PlaceInv, Placed
<1>7. global' = global /\ info' = info /\ crashed' = crashed
  BY <1>0 DEF kvs
<1>8. ASSUME NEW evicted \in Evictions(b), GetItem(b, evicted, it), IsModified(it), Refuse(r)
      PROVE  CacheIInv'
  <2>1. /\ pc' \in [Request -> {"idle", "loading", "ready", "changing", "done"}]
        /\ pc'[r] = "done" /\ \A x \in Request : x # r => pc'[x] = pc[x]
        /\ proxy' \in [Request -> Metadata]
    BY <1>3, <1>8 DEF Refuse
  <2>2. RequestInv(b, it)'
    BY <1>0, <1>4, <1>5, <2>1 DEF RequestInv, Idle
  <2>3. it.modify # NoEngine /\ b \in Cached /\ it.modify = item[b].modify
    BY <1>4, <1>8 DEF IsModified
  <2>4. \A x \in Request : BucketOf[x] # b => pc'[x] = pc[x]
    BY <1>2, <2>1
  <2>5. \A x \in Request : BucketOf[x] = b =>
          /\ pc'[x] = "loading" => x \in ToSet(it.waiters)
          /\ pc'[x] = "ready" => Kind[x] \in {"update", "delete"}
          /\ pc'[x] = "changing" => it.on_changed = x /\ it.modify # NoEngine
    BY <1>6, <2>1
  <2> QED
    BY <1>0, <1>4, <1>7, <1>8, <2>1, <2>2, <2>3, <2>4, <2>5, GetItemKeeps
<1>9. ASSUME NEW evicted \in Evictions(b), NEW op \in {"saving", "deleting"},
             NEW e \in ModifyEngine, e.outcome = "sent",
             op = "saving" => e.step = "update_info" /\ Kind[r] = "update" /\ r \in e.meta.has,
             op = "deleting" => e.step = "remove_info" /\ Kind[r] = "delete",
             ~IsModified(it),
             GetItem(b, evicted, Modify(it, r, op, e)),
             pc' = [pc EXCEPT ![r] = "changing"], UNCHANGED proxy
      PROVE  CacheIInv'
  <2>1. PICK new : new = Modify(it, r, op, e)
    OBVIOUS
  <2>2. /\ new \in Item /\ new.waiters = it.waiters /\ new.load = it.load
        /\ new.modify = e /\ new.op = op /\ new.on_changed = r
        /\ new.value = it.value /\ new.age = it.age
    BY <1>4, <2>1 DEF Modify, Item
  <2>3. e # NoEngine /\ it.modify = NoEngine
    BY <1>9, ConstantFacts DEF IsModified
  <2>4. EngineInv(new)
    BY <1>9, <2>2, <2>3 DEF EngineInv, RemoveSteps, SaveSteps
  <2>5. ValueInv(b, new)
    BY <1>4, <1>9, <2>2, <2>3 DEF ValueInv, IsRemoving
  <2>6. /\ pc' \in [Request -> {"idle", "loading", "ready", "changing", "done"}]
        /\ pc'[r] = "changing" /\ \A x \in Request : x # r => pc'[x] = pc[x]
        /\ proxy' \in [Request -> Metadata]
    BY <1>3, <1>9
  <2>7. RequestInv(b, new)'
    BY <1>0, <1>2, <1>4, <1>5, <1>9, <2>2, <2>3, <2>6 DEF RequestInv, Idle
  <2>8. GetItem(b, evicted, new)
    BY <1>9, <2>1
  <2>9. \A x \in Request : BucketOf[x] # b => pc'[x] = pc[x]
    BY <1>2, <2>6
  <2>10. \A x \in Request : BucketOf[x] = b =>
          /\ pc'[x] = "loading" => x \in ToSet(new.waiters)
          /\ pc'[x] = "ready" => Kind[x] \in {"update", "delete"}
          /\ pc'[x] = "changing" => new.on_changed = x /\ new.modify # NoEngine
    BY <1>6, <2>2, <2>3, <2>6
  <2>11. ~(new.modify # NoEngine /\ new.modify.step = "save_global")
    BY <1>9, <2>2
  <2> QED
    BY <1>0, <1>7, <2>2, <2>4, <2>5, <2>6, <2>7, <2>8, <2>9, <2>10, <2>11, GetItemKeeps
<1>10. CASE Refuse(r) /\ UNCHANGED <<item, lists>>
  BY <1>0, <1>7, <1>10, EndKeeps DEF Refuse, lists
<1>11. PICK changed : changed = Meta("present", proxy[r].has \cup {r})
  OBVIOUS
<1>12. PICK e1 : e1 = NewEngine("update_info", changed)
  OBVIOUS
<1>13. PICK e2 : e2 = NewEngine("remove_info", it.value)
  OBVIOUS
<1>14. /\ e1 \in ModifyEngine /\ e1.outcome = "sent" /\ e1.step = "update_info" /\ r \in e1.meta.has
       /\ e2 \in ModifyEngine /\ e2.outcome = "sent" /\ e2.step = "remove_info"
  <2>1. changed \in Metadata /\ r \in changed.has
    BY <1>3, <1>11 DEF Meta, Metadata
  <2>2. it.value \in Metadata
    BY <1>4 DEF Item
  <2> QED
    BY <1>12, <1>13, <2>1, <2>2 DEF NewEngine, ModifyEngine, SaveSteps, RemoveSteps
<1>15. \/ \E evicted \in Evictions(b) :
              \/ IsModified(it) /\ GetItem(b, evicted, it) /\ Refuse(r)
              \/ /\ ~IsModified(it)
                 /\ GetItem(b, evicted, IF Kind[r] = "update" THEN Modify(it, r, "saving", e1)
                                        ELSE Modify(it, r, "deleting", e2))
                 /\ pc' = [pc EXCEPT ![r] = "changing"]
                 /\ UNCHANGED proxy
       \/ Refuse(r) /\ UNCHANGED <<item, lists>>
  BY <1>2, <1>4, <1>11, <1>12, <1>13, Zenon DEF Change
<1>16. ASSUME NEW evicted \in Evictions(b), ~IsModified(it),
              GetItem(b, evicted, IF Kind[r] = "update" THEN Modify(it, r, "saving", e1)
                                  ELSE Modify(it, r, "deleting", e2)),
              pc' = [pc EXCEPT ![r] = "changing"], UNCHANGED proxy
       PROVE  CacheIInv'
  <2>1. CASE Kind[r] = "update"
    <3>1. GetItem(b, evicted, Modify(it, r, "saving", e1))
      BY <1>16, <2>1, Zenon
    <3> QED
      BY <1>9, <1>14, <1>16, <2>1, <3>1
  <2>2. CASE Kind[r] = "delete"
    <3>1. GetItem(b, evicted, Modify(it, r, "deleting", e2))
      BY <1>16, <2>2
    <3> QED
      BY <1>9, <1>14, <1>16, <2>2, <3>1
  <2> QED
    BY <1>3, <2>1, <2>2
<1> QED
  BY <1>8, <1>10, <1>15, <1>16, Zenon

LEMMA GiveUpKeeps ==
    ASSUME CacheIInv, NEW r \in Request, GiveUp(r)
    PROVE  CacheIInv'
BY EndKeeps DEF GiveUp, kvs, lists

-----------------------------------------------------------------------------
(* The steps of the engines, apart from the last of each.                  *)

\* A step that changes nothing but the item of b and its keys.
LEMMA ItemKeeps ==
    ASSUME CacheIInv, ~crashed, UNCHANGED <<byAccess, byUpdate, pc, proxy, crashed>>,
           NEW b \in Cached, NEW new \in Item, item' = [item EXCEPT ![b] = new],
           global' \in [Bucket -> BOOLEAN],
           info' \in [Bucket -> (SUBSET Request) \cup {NoBucket}],
           \A c \in Bucket \ {b} : global'[c] = global[c] /\ info'[c] = info[c],
           EngineInv(new), ValueInv(b, new)',
           new.waiters = item[b].waiters, new.on_changed = item[b].on_changed,
           new.op = item[b].op,
           (new.modify = NoEngine) <=> (item[b].modify = NoEngine),
           Idle(new) => new.waiters = <<>>,
           new.modify # NoEngine /\ new.modify.outcome = "sent"
              /\ new.modify.step = "save_global" => MayCreate(b)'
    PROVE  CacheIInv'
<1>1. CacheTypeOK /\ ListsInv /\ CreatesNewBucket /\ ItemsInv /\ PlaceInv
  BY StepFacts
<1>2. b \in Bucket /\ RequestInv(b, item[b])
  BY <1>1 DEF Cached, ItemsInv
<1>3. /\ item' \in [Bucket -> Item \cup {NoItem}] /\ item'[b] = new
      /\ \A c \in Bucket \ {b} : item'[c] = item[c]
  BY <1>1, <1>2 DEF CacheTypeOK
<1>4. CacheTypeOK'
  BY <1>1, <1>3 DEF CacheTypeOK
<1>5. Cached' = Cached
  BY <1>2, <1>3, ConstantFacts DEF Cached
<1>6. ListsInv'
  BY <1>1, <1>5 DEF ListsInv
<1>7. RequestInv(b, new)'
  BY <1>2 DEF RequestInv
<1>8. EngineInv(item[b])' /\ RequestInv(b, item[b])' /\ ValueInv(b, item[b])'
  BY <1>3, <1>7 DEF EngineInv, RequestInv, ValueInv, IsRemoving
<1>9. ASSUME NEW x \in Request, BucketOf[x] = b PROVE Placed(x)'
  BY <1>1, <1>3, <1>5, <1>9 DEF PlaceInv, Placed
<1>10. ItemsInv' /\ PlaceInv' /\ CreatesNewBucket'
  BY <1>1, <1>2, <1>3, <1>8, <1>9, OthersKept
<1> QED
  BY <1>4, <1>6, <1>10 DEF CacheIInv
\* What an item of the cache is known to be.
LEMMA CachedFacts ==
    ASSUME CacheIInv, ~crashed, NEW b \in Cached
    PROVE  /\ b \in Bucket /\ item[b] \in Item
           /\ EngineInv(item[b]) /\ RequestInv(b, item[b]) /\ ValueInv(b, item[b])
           /\ global \in [Bucket -> BOOLEAN]
           /\ info \in [Bucket -> (SUBSET Request) \cup {NoBucket}]
BY StepFacts DEF Cached, CacheTypeOK, ItemsInv

LEMMA MotrLoadsKeeps ==
    ASSUME CacheIInv, NEW b \in Bucket, MotrLoads(b)
    PROVE  CacheIInv'
<1>1. b \in Cached /\ ~crashed /\ UNCHANGED <<kvs, lists, reqs, crashed>>
  BY DEF MotrLoads
<1>2. PICK it \in Item :
         /\ it = item[b] /\ EngineInv(it) /\ RequestInv(b, it) /\ ValueInv(b, it)
  BY <1>1, CachedFacts
<1>3. PICK e \in LoadEngine : e = it.load /\ e # NoEngine /\ e.outcome = "sent"
  BY <1>2 DEF MotrLoads, Item
<1>4. /\ global \in [Bucket -> BOOLEAN]
      /\ info \in [Bucket -> (SUBSET Request) \cup {NoBucket}]
  BY <1>1, CachedFacts
<1>5. ASSUME NEW engine \in LoadEngine, engine.step = e.step,
             engine.outcome = "missing" => MayCreate(b),
             engine.step = "load_info" /\ engine.outcome = "success" => info[b] # NoBucket,
             item' = [item EXCEPT ![b].load = engine]
      PROVE  CacheIInv'
  <2>1. PICK new : new = [it EXCEPT !.load = engine]
    OBVIOUS
  <2>2. /\ new \in Item /\ new.waiters = it.waiters /\ new.load = engine
        /\ new.modify = it.modify /\ new.op = it.op /\ new.on_changed = it.on_changed
        /\ new.value = it.value /\ new.age = it.age
    BY <1>2, <2>1 DEF Item
  <2>3. item' = [item EXCEPT ![b] = new]
    BY <1>2, <1>5, <2>1
  <2>4. engine # NoEngine
    BY ConstantFacts
  <2>5. EngineInv(new)
    BY <1>2, <1>3, <2>2 DEF EngineInv
  <2>6. ValueInv(b, new)'
    BY <1>1, <1>2, <1>5, <2>2 DEF ValueInv, IsRemoving, MayCreate, kvs
  <2>7. new.modify # NoEngine /\ new.modify.outcome = "sent"
              /\ new.modify.step = "save_global" => MayCreate(b)'
    BY <1>1, <1>2, <2>2, StepFacts DEF CreatesNewBucket, MayCreate, kvs
  <2>8. UNCHANGED <<byAccess, byUpdate, pc, proxy, crashed, global, info>>
    BY <1>1 DEF kvs, lists, reqs
  <2> QED
    BY <1>1, <1>2, <1>4, <2>2, <2>3, <2>4, <2>5, <2>6, <2>7, <2>8, ItemKeeps DEF Idle
<1>6. PICK found \in BOOLEAN :
         found <=> IF e.step = "load_global" THEN global[b] ELSE info[b] # NoBucket
  OBVIOUS
<1>7. PICK read : read = IF e.step = "load_info" /\ found THEN info[b] ELSE e.meta.has
  OBVIOUS
<1>8. PICK ended : ended = [e EXCEPT !.outcome = IF found THEN "success" ELSE "missing",
                                     !.meta.has = read]
  OBVIOUS
<1>9. /\ ended \in LoadEngine /\ ended.step = e.step
      /\ ended.outcome = IF found THEN "success" ELSE "missing"
  <2>1. read \in SUBSET Request
    BY <1>4, <1>6, <1>7 DEF LoadEngine, Metadata
  <2>2. PICK meta : meta = [e.meta EXCEPT !.has = read]
    OBVIOUS
  <2>3. meta \in Metadata
    BY <2>1, <2>2 DEF LoadEngine, Metadata
  <2>4. ended = [e EXCEPT !.outcome = IF found THEN "success" ELSE "missing", !.meta = meta]
    BY <1>8, <2>2
  <2> QED
    BY <2>3, <2>4 DEF LoadEngine
<1>10. /\ ended.outcome = "missing" => MayCreate(b)
       /\ ended.step = "load_info" /\ ended.outcome = "success" => info[b] # NoBucket
  BY <1>4, <1>6, <1>9 DEF MayCreate
<1>11. Executed(e, "failed") \in LoadEngine /\ Executed(e, "failed").step = e.step
          /\ Executed(e, "failed").outcome = "failed"
  BY <1>3 DEF Executed, LoadEngine
<1>12. \/ item' = [item EXCEPT ![b].load = ended]
       \/ item' = [item EXCEPT ![b].load = Executed(e, "failed")]
  BY <1>2, <1>3, <1>6, <1>7, <1>8 DEF MotrLoads
<1> QED
  BY <1>5, <1>9, <1>10, <1>11, <1>12

\* A step that changes the modification of the item of b.
LEMMA ModifyKeeps ==
    ASSUME CacheIInv, ~crashed, UNCHANGED <<lists, reqs, crashed>>,
           NEW b \in Cached, NEW it, it = item[b], it.modify # NoEngine,
           NEW engine \in ModifyEngine, NEW new, new = [it EXCEPT !.modify = engine],
           item' = [item EXCEPT ![b].modify = engine],
           global' \in [Bucket -> BOOLEAN],
           info' \in [Bucket -> (SUBSET Request) \cup {NoBucket}],
           \A c \in Bucket \ {b} : global'[c] = global[c] /\ info'[c] = info[c],
           engine.outcome = "sent" => engine.step # "save_global",
           (engine.step \in RemoveSteps) <=> (it.modify.step \in RemoveSteps),
           (engine.step \in SaveSteps) <=> (it.modify.step \in SaveSteps),
           engine.meta = it.modify.meta,
           ValueInv(b, new)'
    PROVE  CacheIInv'
<1>1. it \in Item /\ EngineInv(it) /\ RequestInv(b, it) /\ ValueInv(b, it)
  BY CachedFacts
<1>2. it.modify \in ModifyEngine
  BY <1>1 DEF Item
<1>4. /\ new \in Item /\ new.waiters = it.waiters /\ new.load = it.load
      /\ new.modify = engine /\ new.op = it.op /\ new.on_changed = it.on_changed
      /\ new.value = it.value /\ new.age = it.age
  BY <1>1 DEF Item
<1>5. item' = [item EXCEPT ![b] = new]
  BY <1>1
<1>6. engine # NoEngine
  BY ConstantFacts
<1>7. EngineInv(new)
  <2>1. engine.step = "update_info" <=> it.modify.step = "update_info"
    BY <1>1, <1>2 DEF ModifyEngine, SaveSteps, RemoveSteps
  <2> QED
    BY <1>1, <1>4, <1>6, <2>1 DEF EngineInv
<1>8. Idle(new) => new.waiters = <<>>
  BY <1>4, <1>6 DEF Idle
<1> QED
  BY <1>1, <1>4, <1>5, <1>6, <1>7, <1>8, ItemKeeps DEF lists, reqs
\* The item of b with another modification.
LEMMA NewModifyFacts ==
    ASSUME NEW it \in Item, NEW engine \in ModifyEngine, NEW new,
           new = [it EXCEPT !.modify = engine]
    PROVE  /\ new.load = it.load /\ new.modify = engine /\ engine # NoEngine
           /\ new.value = it.value /\ new.age = it.age
BY ConstantFacts DEF Item

LEMMA MotrModifiesKeeps ==
    ASSUME CacheIInv, NEW b \in Bucket, MotrModifies(b)
    PROVE  CacheIInv'
<1>1. b \in Cached /\ ~crashed /\ UNCHANGED <<lists, reqs, crashed>>
  BY DEF MotrModifies
<1>2. PICK it \in Item :
         /\ it = item[b] /\ EngineInv(it) /\ RequestInv(b, it) /\ ValueInv(b, it)
  BY <1>1, CachedFacts
<1>3. PICK e \in ModifyEngine : e = it.modify /\ e # NoEngine /\ e.outcome = "sent"
  BY <1>2 DEF MotrModifies, Item
<1>4. /\ global \in [Bucket -> BOOLEAN]
      /\ info \in [Bucket -> (SUBSET Request) \cup {NoBucket}]
  BY <1>1, CachedFacts
<1>5. CASE /\ MotrWrites(b, e.step)
           /\ item' = [item EXCEPT ![b].modify = Executed(e, "success")]
  <2>1. PICK engine : engine = Executed(e, "success")
    OBVIOUS
  <2>2. /\ engine \in ModifyEngine /\ engine.step = e.step
        /\ engine.outcome = "success" /\ engine.meta = e.meta
    BY <1>3, <2>1 DEF Executed, ModifyEngine
  <2>3. PICK new : new = [it EXCEPT !.modify = engine]
    OBVIOUS
  <2>4. /\ new.load = it.load /\ new.modify = engine /\ engine # NoEngine
        /\ new.value = it.value /\ new.age = it.age
    BY <1>2, <2>2, <2>3, NewModifyFacts
  <2>5. e.meta.has \in SUBSET Request /\ e.meta.has # NoBucket
    BY ConstantFacts DEF ModifyEngine, Metadata
  <2>6. /\ global' \in [Bucket -> BOOLEAN]
        /\ info' \in [Bucket -> (SUBSET Request) \cup {NoBucket}]
        /\ \A c \in Bucket \ {b} : global'[c] = global[c] /\ info'[c] = info[c]
        /\ e.step \in {"remove_global", "cleanup_global"} => ~global'[b]
        /\ e.step = "remove_info" => info'[b] = NoBucket
        /\ e.step \in {"save_info", "update_info"} => info'[b] = e.meta.has
        /\ e.step \notin {"save_info", "update_info", "remove_info"} => info'[b] = info[b]
    BY <1>2, <1>3, <1>4, <1>5, <2>5 DEF MotrWrites
  <2>7. e.step \in {"save_global", "create_indexes", "save_info", "cleanup_global",
                    "remove_info", "remove_global", "update_info"}
    BY DEF ModifyEngine, SaveSteps, RemoveSteps
  <2>8. it.load # NoEngine =>
           \/ e.step = "update_info" /\ \E r \in e.meta.has : Kind[r] = "update"
           \/ e.step \in RemoveSteps
    BY <1>2, <1>3, <2>7 DEF EngineInv, SaveSteps, RemoveSteps
  <2>9. it.load # NoEngine => MayCreate(b)'
    BY <2>6, <2>8 DEF MayCreate, RemoveSteps
  <2>10. info'[b] # NoBucket \/ IsRemoving(new) \/ info'[b] = info[b]
    BY <2>2, <2>4, <2>5, <2>6, <2>7 DEF IsRemoving, RemoveSteps
  <2>11. IsRemoving(it) => IsRemoving(new)
    BY <1>3, <2>2, <2>4 DEF IsRemoving
  <2>12. ValueInv(b, new)'
    <3>1. engine.step \in {"save_info", "update_info"} => info'[b] # NoBucket
      BY <2>2, <2>5, <2>6
    <3> QED
      BY <1>2, <2>4, <2>9, <2>10, <2>11, <3>1 DEF ValueInv, IsRemoving
  <2> QED
    BY <1>1, <1>2, <1>3, <1>5, <2>1, <2>2, <2>3, <2>6, <2>12, ModifyKeeps
<1>6. ASSUME NEW outcome \in {"failed", "exists"},
             item' = [item EXCEPT ![b].modify = Executed(e, outcome)],
             UNCHANGED kvs
      PROVE  CacheIInv'
  <2>1. PICK engine : engine = Executed(e, outcome)
    OBVIOUS
  <2>2. /\ engine \in ModifyEngine /\ engine.step = e.step
        /\ engine.outcome = outcome /\ engine.meta = e.meta
    BY <1>3, <2>1 DEF Executed, ModifyEngine
  <2>3. PICK new : new = [it EXCEPT !.modify = engine]
    OBVIOUS
  <2>4. /\ new.load = it.load /\ new.modify = engine /\ engine # NoEngine
        /\ new.value = it.value /\ new.age = it.age
    BY <1>2, <2>2, <2>3, NewModifyFacts
  <2>5. global' = global /\ info' = info
    BY <1>6 DEF kvs
  <2>6. ValueInv(b, new)'
    BY <1>2, <1>3, <2>2, <2>4, <2>5 DEF ValueInv, IsRemoving, MayCreate
  <2> QED
    BY <1>1, <1>2, <1>3, <1>4, <1>6, <2>1, <2>2, <2>3, <2>5, <2>6, ModifyKeeps
<1> QED
  <2>1. \/ /\ MotrWrites(b, e.step)
           /\ item' = [item EXCEPT ![b].modify = Executed(e, "success")]
        \/ /\ \E outcome \in {"failed"} \cup
                      (IF e.step = "create_indexes" THEN {"exists"} ELSE {}) :
                  item' = [item EXCEPT ![b].modify = Executed(e, outcome)]
           /\ UNCHANGED kvs
    BY <1>2, <1>3, Zenon DEF MotrModifies
  <2> QED
    BY <1>5, <1>6, <2>1

\* The steps of an engine that goes on.
LEMMA NextStepFacts ==
    /\ \A e \in LoadEngine : NextStep(e) # "end" => NextStep(e) = "load_info"
    /\ \A e \in ModifyEngine : NextStep(e) # "end" =>
          /\ NextStep(e) \in SaveSteps \cup RemoveSteps
          /\ NextStep(e) # "save_global"
          /\ (NextStep(e) \in RemoveSteps) <=> (e.step \in RemoveSteps)
          /\ (NextStep(e) \in SaveSteps) <=> (e.step \in SaveSteps)
BY DEF NextStep, LoadEngine, ModifyEngine, LoadSteps, SaveSteps, RemoveSteps

\* A load that goes on or is dropped.
LEMMA LoadGoesOn ==
    ASSUME CacheIInv, NEW b \in Bucket, b \in Cached, ~crashed,
           UNCHANGED <<kvs, lists, reqs, crashed>>,
           NEW load \in LoadEngine \cup {NoEngine}, item[b].load # NoEngine,
           item' = [item EXCEPT ![b].load = load],
           load = NoEngine => item[b].modify # NoEngine,
           load # NoEngine => load.outcome = "sent"
    PROVE  CacheIInv'
<1>1. PICK it \in Item :
         /\ it = item[b] /\ EngineInv(it) /\ RequestInv(b, it) /\ ValueInv(b, it)
  BY CachedFacts
<1>2. PICK new : new = [it EXCEPT !.load = load]
  OBVIOUS
<1>3. /\ new \in Item /\ new.waiters = it.waiters /\ new.load = load
      /\ new.modify = it.modify /\ new.op = it.op /\ new.on_changed = it.on_changed
      /\ new.value = it.value /\ new.age = it.age
  BY <1>1, <1>2 DEF Item
<1>4. EngineInv(new)
  BY <1>1, <1>3 DEF EngineInv
<1>5. ValueInv(b, new)'
  BY <1>1, <1>3 DEF ValueInv, IsRemoving, MayCreate, kvs
<1>6. new.modify # NoEngine /\ new.modify.outcome = "sent"
            /\ new.modify.step = "save_global" => MayCreate(b)'
  BY <1>1, <1>3, StepFacts DEF CreatesNewBucket, MayCreate, kvs
<1>7. item' = [item EXCEPT ![b] = new] /\ ~Idle(new)
  BY <1>1, <1>2, <1>3 DEF Idle
<1>8. /\ UNCHANGED <<byAccess, byUpdate, pc, proxy, crashed, global, info>>
      /\ global \in [Bucket -> BOOLEAN]
      /\ info \in [Bucket -> (SUBSET Request) \cup {NoBucket}]
  BY CachedFacts DEF kvs, lists, reqs
<1> QED
  BY <1>1, <1>3, <1>4, <1>5, <1>6, <1>7, <1>8, ItemKeeps

LEMMA ModifyGoesOn ==
    ASSUME CacheIInv, NEW b \in Bucket, b \in Cached, ~crashed,
           UNCHANGED <<kvs, lists, reqs, crashed>>,
           item[b].modify # NoEngine, NextStep(item[b].modify) # "end",
           item' = [item EXCEPT ![b].modify = Continue(@)]
    PROVE  CacheIInv'
<1>1. PICK it \in Item :
         /\ it = item[b] /\ EngineInv(it) /\ RequestInv(b, it) /\ ValueInv(b, it)
  BY CachedFacts
<1>2. PICK e \in ModifyEngine : e = it.modify
  BY <1>1 DEF Item
<1>3. PICK engine : engine = Continue(e)
  OBVIOUS
<1>4. /\ engine \in ModifyEngine /\ engine.step = NextStep(e)
      /\ engine.outcome = "sent" /\ engine.meta = e.meta
  BY <1>1, <1>2, <1>3, NextStepFacts DEF Continue, ModifyEngine
<1>5. /\ engine.step # "save_global"
      /\ (engine.step \in RemoveSteps) <=> (e.step \in RemoveSteps)
      /\ (engine.step \in SaveSteps) <=> (e.step \in SaveSteps)
  BY <1>1, <1>2, <1>4, NextStepFacts
<1>6. PICK new : new = [it EXCEPT !.modify = engine]
  OBVIOUS
<1>7. /\ new.load = it.load /\ new.modify = engine /\ engine # NoEngine
      /\ new.value = it.value /\ new.age = it.age
  BY <1>1, <1>4, <1>6, NewModifyFacts
<1>8. ValueInv(b, new)'
  BY <1>1, <1>2, <1>4, <1>5, <1>7 DEF ValueInv, IsRemoving, MayCreate, kvs
<1>9. /\ global' = global /\ info' = info
      /\ global \in [Bucket -> BOOLEAN]
      /\ info \in [Bucket -> (SUBSET Request) \cup {NoBucket}]
  BY CachedFacts DEF kvs
<1>10. item' = [item EXCEPT ![b].modify = engine]
  BY <1>1, <1>2, <1>3
<1> QED
  BY <1>1, <1>2, <1>4, <1>5, <1>6, <1>8, <1>9, <1>10, ModifyKeeps

LEMMA AgeKeeps ==
    ASSUME CacheIInv, NEW b \in Bucket, Age(b)
    PROVE  CacheIInv'
<1>1. b \in Cached /\ ~crashed /\ UNCHANGED <<kvs, lists, reqs, crashed>> /\ item[b].age < 2
  BY DEF Age
<1>2. PICK it \in Item :
         /\ it = item[b] /\ EngineInv(it) /\ RequestInv(b, it) /\ ValueInv(b, it)
  BY <1>1, CachedFacts
<1>3. PICK new : new = [it EXCEPT !.age = it.age + 1]
  OBVIOUS
<1>4. it.age \in 0..2 /\ it.age + 1 \in 0..2
  BY <1>1, <1>2 DEF Item
<1>5. /\ new \in Item /\ new.waiters = it.waiters /\ new.load = it.load
      /\ new.modify = it.modify /\ new.op = it.op /\ new.on_changed = it.on_changed
      /\ new.value = it.value
      /\ new.age < 2 => it.age < 2
  BY <1>1, <1>2, <1>3, <1>4 DEF Item
<1>6. EngineInv(new) /\ (Idle(new) => new.waiters = <<>>)
  BY <1>2, <1>5 DEF EngineInv, Idle, RequestInv
<1>7. ValueInv(b, new)'
  BY <1>1, <1>2, <1>5 DEF ValueInv, IsRemoving, MayCreate, kvs
<1>8. new.modify # NoEngine /\ new.modify.outcome = "sent"
            /\ new.modify.step = "save_global" => MayCreate(b)'
  BY <1>1, <1>2, <1>5, StepFacts DEF CreatesNewBucket, MayCreate, kvs
<1>9. item' = [item EXCEPT ![b] = new]
  BY <1>2, <1>3 DEF Age
<1>10. /\ UNCHANGED <<byAccess, byUpdate, pc, proxy, crashed, global, info>>
       /\ global \in [Bucket -> BOOLEAN]
       /\ info \in [Bucket -> (SUBSET Request) \cup {NoBucket}]
  BY <1>1, CachedFacts DEF kvs, lists, reqs
<1> QED
  BY <1>1, <1>2, <1>5, <1>6, <1>7, <1>8, <1>9, <1>10, ItemKeeps
-----------------------------------------------------------------------------
(* The end of an engine: Item::on_done.                                    *)

\* The lists when the item of b goes, or has been updated and accessed.
LEMMA RelistFacts ==
    ASSUME NEW seq \in Seq(Bucket), IsOnce(seq), ToSet(seq) = Cached, NEW b \in Cached
    PROVE  /\ RemoveFirst(seq, b) \in Seq(Bucket) /\ IsOnce(RemoveFirst(seq, b))
           /\ ToSet(RemoveFirst(seq, b)) = Cached \ {b}
           /\ <<b>> \o RemoveFirst(seq, b) \in Seq(Bucket)
           /\ IsOnce(<<b>> \o RemoveFirst(seq, b))
           /\ ToSet(<<b>> \o RemoveFirst(seq, b)) = Cached
<1>1. b \in Bucket
  BY DEF Cached
<1>2. PICK rest : rest = RemoveFirst(seq, b)
  OBVIOUS
<1>3. rest \in Seq(Bucket) /\ IsOnce(rest) /\ ToSet(rest) = Cached \ {b}
  BY <1>2, RemoveFirstFacts
<1>4. b \notin ToSet(rest)
  BY <1>3
<1>5. PICK pushed : pushed = <<b>> \o rest
  OBVIOUS
<1>6. pushed \in Seq(Bucket) /\ IsOnce(pushed)
  BY <1>1, <1>3, <1>4, <1>5, PushFacts
<1>7. ToSet(pushed) = ToSet(rest) \cup {b}
  BY <1>1, <1>3, <1>4, <1>5, PushFacts
<1>8. ToSet(pushed) = Cached
  BY <1>3, <1>7
<1> QED
  BY <1>2, <1>3, <1>5, <1>6, <1>8

\* The item of b goes, or stays with both lists reordered.
LEMMA AnswerLists ==
    ASSUME CacheTypeOK, ListsInv, NEW b \in Cached, NEW removed \in BOOLEAN,
           NEW touched \in BOOLEAN, NEW after \in Item,
           item' = [item EXCEPT ![b] = IF removed THEN NoItem ELSE after],
           byUpdate' = IF removed THEN RemoveFirst(byUpdate, b)
                       ELSE <<b>> \o RemoveFirst(byUpdate, b),
           byAccess' = IF removed THEN RemoveFirst(byAccess, b)
                       ELSE IF touched THEN <<b>> \o RemoveFirst(byAccess, b)
                       ELSE byAccess
    PROVE  /\ item' \in [Bucket -> Item \cup {NoItem}]
           /\ item'[b] = IF removed THEN NoItem ELSE after
           /\ \A c \in Bucket \ {b} : item'[c] = item[c]
           /\ byAccess' \in Seq(Bucket) /\ byUpdate' \in Seq(Bucket)
           /\ ListsInv'
<1>1. b \in Bucket
  BY DEF Cached
<1>2. /\ item' \in [Bucket -> Item \cup {NoItem}]
      /\ item'[b] = IF removed THEN NoItem ELSE after
      /\ \A c \in Bucket \ {b} : item'[c] = item[c]
  BY <1>1 DEF CacheTypeOK
<1>3. Cached' = IF removed THEN Cached \ {b} ELSE Cached
  BY <1>1, <1>2, ConstantFacts DEF Cached
<1>4. /\ byAccess \in Seq(Bucket) /\ byUpdate \in Seq(Bucket)
      /\ IsFiniteSet(Cached) /\ Cardinality(Cached) <= MaxCacheSize
      /\ IsOnce(byAccess) /\ ToSet(byAccess) = Cached
      /\ IsOnce(byUpdate) /\ ToSet(byUpdate) = Cached
  BY DEF CacheTypeOK, ListsInv
<1>5. byAccess' \in Seq(Bucket) /\ IsOnce(byAccess') /\ ToSet(byAccess') = Cached'
  <2>1. CASE removed
    BY <1>3, <1>4, <2>1, RelistFacts
  <2>2. CASE ~removed /\ touched
    BY <1>3, <1>4, <2>2, RelistFacts
  <2>3. CASE ~removed /\ ~touched
    BY <1>3, <1>4, <2>3
  <2> QED
    BY <2>1, <2>2, <2>3
<1>6. byUpdate' \in Seq(Bucket) /\ IsOnce(byUpdate') /\ ToSet(byUpdate') = Cached'
  <2>1. CASE removed
    BY <1>3, <1>4, <2>1, RelistFacts
  <2>2. CASE ~removed
    BY <1>3, <1>4, <2>2, RelistFacts
  <2> QED
    BY <2>1, <2>2
<1>7. IsFiniteSet(Cached') /\ Cardinality(Cached') <= MaxCacheSize
  <2>1. /\ IsFiniteSet(Cached \ {b})
        /\ Cardinality(Cached \ {b}) = Cardinality(Cached) - 1
        /\ Cardinality(Cached) \in Nat
    BY <1>4, FS_RemoveElement, FS_CardinalityType
  <2> QED
    BY <1>3, <1>4, <2>1, ConstantFacts
<1> QED
  BY <1>2, <1>5, <1>6, <1>7 DEF ListsInv

\* What is told to the requests of the item.
LEMMA FirstCreator ==
    ASSUME NEW it \in Item, NEW state, NEW gone,
           NEW first, first = IF Creators(it, state) \subseteq gone THEN NoRequest
                              ELSE FirstOf(it.waiters, Creators(it, state) \ gone)
    PROVE  first = NoRequest \/ first \in Creators(it, state)
<1>1. CASE Creators(it, state) \subseteq gone
  BY <1>1
<1>2. CASE ~(Creators(it, state) \subseteq gone)
  <2>1. PICK S : S = Creators(it, state) \ gone
    OBVIOUS
  <2>2. S \subseteq ToSet(it.waiters) /\ S # {}
    BY <1>2, <2>1 DEF Creators
  <2>3. it.waiters \in Seq(Request)
    BY DEF Item
  <2>4. FirstOf(it.waiters, S) \in S
    BY <2>2, <2>3, FirstFacts
  <2>5. first = FirstOf(it.waiters, S)
    BY <1>2, <2>1
  <2> QED
    BY <2>1, <2>4, <2>5
<1> QED
  BY <1>1, <1>2
\* What Item::on_done leaves: first has started a save, told was called as
\* the owner of the modification, after is the item unless it is destroyed.
Answered(b, e, load, it, state, first, told, after) ==
    /\ it = item[b] /\ state = EndState(e)
    /\ first = NoRequest \/ first \in Creators(it, state)
    /\ after \in Item /\ after.waiters = <<>> /\ after.load = load
    /\ after.value = Meta(state, e.meta.has)
    /\ first = NoRequest => after.modify = NoEngine /\ after.op = "none"
    /\ first # NoRequest => /\ after.modify = NewEngine("save_global", Meta("missing", {first}))
                            /\ after.modify # NoEngine /\ after.op = "saving"
    /\ it.op \notin {"saving", "deleting"} => told = NoRequest
    /\ it.op \notin {"saving", "deleting"} /\ first # NoRequest => after.on_changed = first
    /\ it.op \in {"saving", "deleting"} /\ first = NoRequest => told = it.on_changed
    /\ item'[b] = IF IsRemoved(it.op, state) THEN NoItem ELSE after
    /\ \A c \in Bucket \ {b} : item'[c] = item[c]
    /\ \A r \in Request :
          pc'[r] = IF r = told \/ (r \in Creators(it, state) /\ r # first) THEN "done"
                   ELSE IF r \in ToSet(it.waiters) THEN AfterLoad(r, state)
                   ELSE pc[r]
    /\ crashed' = (IsRemoved(it.op, state) /\ IsFatal(after))
    /\ global' = global /\ info' = info

LEMMA AnswerFacts ==
    ASSUME CacheTypeOK, ListsInv, NEW b \in Cached,
           NEW e \in LoadEngine \cup ModifyEngine,
           NEW load \in LoadEngine \cup {NoEngine}, NEW gone, Answer(b, e, load, gone)
    PROVE  /\ CacheTypeOK' /\ ListsInv'
           /\ \E it \in Item : \E state, first, told, after :
                 Answered(b, e, load, it, state, first, told, after)
<1>1. PICK it \in Item : it = item[b]
  BY DEF Cached, CacheTypeOK
<1>2. PICK state : state = EndState(e)
  OBVIOUS
<1>3. PICK creators : creators = Creators(it, state)
  OBVIOUS
<1>4. PICK first : first = IF creators \subseteq gone THEN NoRequest
                           ELSE FirstOf(it.waiters, creators \ gone)
  OBVIOUS
<1>5. PICK value : value = Meta(state, e.meta.has)
  OBVIOUS
<1>6. PICK rest : rest = [it EXCEPT !.value = value, !.age = 0, !.op = "none",
                            !.waiters = <<>>, !.modify = NoEngine, !.load = load]
  OBVIOUS
<1>7. PICK served : served = IF first = NoRequest THEN rest ELSE Save(rest, first)
  OBVIOUS
<1>8. PICK told : told = IF it.op \in {"saving", "deleting"} THEN served.on_changed
                                                             ELSE NoRequest
  OBVIOUS
<1>9. PICK after : after = IF told = NoRequest THEN served
                           ELSE [served EXCEPT !.on_changed = NoRequest]
  OBVIOUS
<1>10. PICK removed \in BOOLEAN : removed = IsRemoved(it.op, state)
  BY DEF IsRemoved
<1>11. /\ item' = [item EXCEPT ![b] = IF removed THEN NoItem ELSE after]
       /\ byUpdate' = IF removed THEN RemoveFirst(byUpdate, b)
                      ELSE <<b>> \o RemoveFirst(byUpdate, b)
       /\ byAccess' = IF removed THEN RemoveFirst(byAccess, b)
                      ELSE IF first = NoRequest THEN byAccess
                      ELSE <<b>> \o RemoveFirst(byAccess, b)
       /\ pc' = [r \in Request |->
                    IF r = told \/ (r \in creators /\ r # first) THEN "done"
                    ELSE IF r \in ToSet(it.waiters) THEN AfterLoad(r, state)
                    ELSE pc[r]]
       /\ proxy' = [r \in Request |->
                    IF r = told \/ (r \in creators /\ r # first) THEN Empty
                    ELSE IF r \in ToSet(it.waiters) THEN Loaded(r, value)
                    ELSE proxy[r]]
       /\ crashed' = (removed /\ IsFatal(after))
       /\ UNCHANGED kvs
  BY <1>1, <1>2, <1>3, <1>4, <1>5, <1>6, <1>7, <1>8, <1>9, <1>10, Zenon DEF Answer
<1>12. first = NoRequest \/ first \in creators
  BY <1>3, <1>4, FirstCreator
<1>13. creators \subseteq ToSet(it.waiters) /\ ToSet(it.waiters) \subseteq Request
  BY <1>1, <1>3, ToSetFacts DEF Creators, Item
<1>14. value \in Metadata /\ value.state = state
  BY <1>2, <1>5 DEF EndState, Meta, Metadata, LoadEngine, ModifyEngine
<1>15. /\ rest \in Item /\ rest.value = value /\ rest.load = load /\ rest.waiters = <<>>
       /\ rest.modify = NoEngine /\ rest.op = "none" /\ rest.on_changed = it.on_changed
  <2>1. PICK none \in Seq(Request) : none = <<>>
    BY EmptySeq
  <2>2. PICK base : base = [it EXCEPT !.value = value, !.age = 0, !.op = "none"]
    OBVIOUS
  <2>3. base \in Item /\ base.value = value /\ base.op = "none" /\ base.on_changed = it.on_changed
    <3>1. PICK new \in 0..2 : new = 0
      OBVIOUS
    <3>2. base = [it EXCEPT !.value = value, !.age = new, !.op = "none"]
      BY <2>2, <3>1, Zenon
    <3> QED
      BY <1>14, <3>2 DEF Item
  <2>4. rest = [base EXCEPT !.waiters = none, !.modify = NoEngine, !.load = load]
    BY <1>6, <2>1, <2>2, Zenon
  <2>5. /\ rest \in Item /\ rest.value = value /\ rest.load = load /\ rest.waiters = none
        /\ rest.modify = NoEngine /\ rest.op = "none" /\ rest.on_changed = it.on_changed
    BY <2>3, <2>4 DEF Item
  <2> QED
    BY <2>1, <2>5
<1>16. /\ served \in Item /\ served.value = value /\ served.load = load
       /\ served.waiters = <<>>
       /\ first = NoRequest => /\ served.modify = NoEngine /\ served.op = "none"
                               /\ served.on_changed = it.on_changed
       /\ first # NoRequest =>
             /\ served.modify = NewEngine("save_global", Meta("missing", {first}))
             /\ served.modify # NoEngine /\ served.op = "saving" /\ served.on_changed = first
  <2>1. CASE first = NoRequest
    BY <1>7, <1>15, <2>1
  <2>2. CASE first # NoRequest
    <3>1. PICK engine : engine = NewEngine("save_global", Meta("missing", {first}))
      OBVIOUS
    <3>2. engine \in ModifyEngine /\ first \in Request
      BY <1>12, <1>13, <2>2, <3>1 DEF NewEngine, Meta, Metadata, ModifyEngine, SaveSteps
    <3>3. served = [rest EXCEPT !.op = "saving", !.on_changed = first, !.modify = engine]
      BY <1>7, <2>2, <3>1 DEF Save, Modify
    <3>4. /\ served \in Item /\ served.value = value /\ served.load = load
          /\ served.waiters = <<>> /\ served.modify = engine /\ served.op = "saving"
          /\ served.on_changed = first
      BY <1>15, <3>2, <3>3 DEF Item
    <3> QED
      BY <2>2, <3>1, <3>2, <3>4, ConstantFacts
  <2> QED
    BY <2>1, <2>2
<1>17. /\ after \in Item /\ after.value = value /\ after.load = load
       /\ after.waiters = <<>> /\ after.modify = served.modify /\ after.op = served.op
       /\ told = NoRequest => after.on_changed = served.on_changed
  BY <1>9, <1>16 DEF Item
<1>18. /\ item' \in [Bucket -> Item \cup {NoItem}]
       /\ item'[b] = IF removed THEN NoItem ELSE after
       /\ \A c \in Bucket \ {b} : item'[c] = item[c]
       /\ byAccess' \in Seq(Bucket) /\ byUpdate' \in Seq(Bucket)
       /\ ListsInv'
  <2>1. PICK touched \in BOOLEAN : touched <=> first # NoRequest
    OBVIOUS
  <2>2. byAccess' = IF removed THEN RemoveFirst(byAccess, b)
                    ELSE IF touched THEN <<b>> \o RemoveFirst(byAccess, b)
                    ELSE byAccess
    BY <1>11, <2>1
  <2> QED
    BY <1>11, <1>17, <2>2, AnswerLists
<1>19. CacheTypeOK'
  <2>1. \A r \in Request : /\ AfterLoad(r, state) \in {"ready", "changing", "done"}
                           /\ Loaded(r, value) \in Metadata
    BY <1>14, LoadedFacts
  <2>2. Empty \in Metadata
    BY DEF Empty, Meta, Metadata
  <2>3. pc' \in [Request -> {"idle", "loading", "ready", "changing", "done"}]
    BY <1>11, <2>1 DEF CacheTypeOK
  <2>4. proxy' \in [Request -> Metadata]
    BY <1>11, <2>1, <2>2 DEF CacheTypeOK
  <2>5. crashed' \in BOOLEAN
    BY <1>11
  <2>6. global' = global /\ info' = info
    BY <1>11 DEF kvs
  <2> QED
    BY <1>18, <2>3, <2>4, <2>5, <2>6 DEF CacheTypeOK
<1>20. \A r \in Request :
          pc'[r] = IF r = told \/ (r \in Creators(it, state) /\ r # first) THEN "done"
                   ELSE IF r \in ToSet(it.waiters) THEN AfterLoad(r, state)
                   ELSE pc[r]
  BY <1>3, <1>11
<1>21. Answered(b, e, load, it, state, first, told, after)
  <2>1. global' = global /\ info' = info
    BY <1>11 DEF kvs
  <2>2. /\ it.op \notin {"saving", "deleting"} => told = NoRequest
        /\ it.op \notin {"saving", "deleting"} /\ first # NoRequest => after.on_changed = first
        /\ it.op \in {"saving", "deleting"} /\ first = NoRequest => told = it.on_changed
    BY <1>8, <1>16, <1>17
  <2>3. /\ first = NoRequest => after.modify = NoEngine /\ after.op = "none"
        /\ first # NoRequest => /\ after.modify = NewEngine("save_global", Meta("missing", {first}))
                                /\ after.modify # NoEngine /\ after.op = "saving"
    BY <1>16, <1>17
  <2>4. crashed' = (IsRemoved(it.op, state) /\ IsFatal(after))
    BY <1>10, <1>11
  <2>5. item'[b] = IF IsRemoved(it.op, state) THEN NoItem ELSE after
    BY <1>10, <1>18
  <2> QED
    BY <1>1, <1>2, <1>3, <1>5, <1>12, <1>17, <1>18, <1>20, <2>1, <2>2, <2>3, <2>4, <2>5
       DEF Answered
<1> QED
  BY <1>18, <1>19, <1>21
\* After a fatal end only what needs no items is left to show.
LEMMA CrashKeeps ==
    ASSUME CacheTypeOK', ListsInv', CreatesNewBucket, crashed', NEW b \in Bucket,
           b \notin Cached', global' = global, info' = info,
           \A c \in Bucket \ {b} : item'[c] = item[c]
    PROVE  CacheIInv'
<1>1. \A c \in Cached' : c \in Cached /\ item'[c] = item[c]
  BY DEF Cached
<1>2. CreatesNewBucket'
  BY <1>1 DEF CreatesNewBucket
<1> QED
  BY <1>2 DEF CacheIInv

LEMMA EndStateFacts ==
    /\ \A e \in LoadEngine : e.outcome # "sent" /\ NextStep(e) = "end" =>
          /\ EndState(e) \in {"failed", "missing", "present"}
          /\ EndState(e) = "missing" => e.outcome = "missing"
          /\ EndState(e) = "present" => e.step = "load_info" /\ e.outcome = "success"
    /\ \A e \in ModifyEngine : e.outcome # "sent" /\ NextStep(e) = "end"
                                  /\ e.step \notin RemoveSteps /\ EndState(e) # "failed" =>
          /\ EndState(e) = "present" /\ e.outcome = "success"
          /\ e.step \in {"save_info", "update_info"}
BY DEF EndState, NextStep, LoadEngine, ModifyEngine, LoadSteps, SaveSteps, RemoveSteps

LEMMA CreatorFacts ==
    ASSUME NEW it \in Item, NEW state, NEW r \in Creators(it, state)
    PROVE  /\ r \in ToSet(it.waiters) /\ r \in Request
           /\ state = "missing" /\ Kind[r] = "create" /\ AfterLoad(r, state) = "changing"
<1>1. ToSet(it.waiters) \subseteq Request
  BY ToSetFacts DEF Item
<1> QED
  BY <1>1 DEF Creators, AfterLoad

LEMMA AfterLoadFacts ==
    ASSUME NEW r \in Request, NEW state
    PROVE  /\ AfterLoad(r, state) \in {"ready", "changing", "done"}
           /\ AfterLoad(r, state) = "ready" => Kind[r] \in {"update", "delete"}
BY DEF AfterLoad

\* The end of a load.
LEMMA LoadAnswered ==
    ASSUME CacheIInv, NEW b \in Bucket, b \in Cached, ~crashed,
           item[b].load # NoEngine, item[b].load.outcome # "sent",
           NextStep(item[b].load) = "end", item[b].modify = NoEngine,
           NEW gone, Answer(b, item[b].load, NoEngine, gone)
    PROVE  CacheIInv'
<1>1. CacheTypeOK /\ ListsInv /\ CreatesNewBucket /\ ItemsInv /\ PlaceInv
  BY StepFacts
<1>2. /\ item[b] \in Item /\ EngineInv(item[b]) /\ RequestInv(b, item[b])
      /\ ValueInv(b, item[b])
  BY CachedFacts
<1>3. PICK e \in LoadEngine : e = item[b].load
  BY <1>2 DEF Item
<1>4. Answer(b, e, NoEngine, gone)
  BY <1>3
<1>5. CacheTypeOK' /\ ListsInv'
  BY <1>1, <1>4, AnswerFacts
<1>6a. PICK it \in Item : \E state, first, told, after :
         Answered(b, e, NoEngine, it, state, first, told, after)
  BY <1>1, <1>4, AnswerFacts
<1>6. PICK state, first, told, after : Answered(b, e, NoEngine, it, state, first, told, after)
  BY <1>6a
<1>7. /\ it = item[b] /\ state = EndState(e)
      /\ first = NoRequest \/ first \in Creators(it, state)
      /\ after \in Item /\ after.waiters = <<>> /\ after.load = NoEngine
      /\ after.value = Meta(state, e.meta.has)
      /\ first = NoRequest => after.modify = NoEngine /\ after.op = "none"
      /\ first # NoRequest => /\ after.modify = NewEngine("save_global", Meta("missing", {first}))
                              /\ after.modify # NoEngine /\ after.op = "saving"
      /\ it.op \notin {"saving", "deleting"} => told = NoRequest
      /\ it.op \notin {"saving", "deleting"} /\ first # NoRequest => after.on_changed = first
  BY <1>6 DEF Answered
<1>8. /\ item'[b] = IF IsRemoved(it.op, state) THEN NoItem ELSE after
      /\ \A c \in Bucket \ {b} : item'[c] = item[c]
      /\ \A r \in Request :
            pc'[r] = IF r = told \/ (r \in Creators(it, state) /\ r # first) THEN "done"
                     ELSE IF r \in ToSet(it.waiters) THEN AfterLoad(r, state)
                     ELSE pc[r]
      /\ crashed' = (IsRemoved(it.op, state) /\ IsFatal(after))
      /\ global' = global /\ info' = info
  BY <1>6 DEF Answered
<1>9. it.op \notin {"saving", "deleting"} /\ told = NoRequest
  BY <1>2, <1>7 DEF EngineInv
<1>10. /\ state \in {"failed", "missing", "present"}
       /\ state = "missing" => e.outcome = "missing"
       /\ state = "present" => e.step = "load_info" /\ e.outcome = "success"
  BY <1>3, <1>7, EndStateFacts
<1>11. first # NoRequest =>
          /\ first \in ToSet(it.waiters) /\ first \in Request
          /\ state = "missing" /\ Kind[first] = "create" /\ AfterLoad(first, state) = "changing"
  BY <1>7, CreatorFacts
<1>12. IsRemoved(it.op, state) => state = "failed" /\ first = NoRequest
  BY <1>9, <1>11 DEF IsRemoved
<1>13. ~crashed'
  BY <1>7, <1>8, <1>12 DEF IsFatal, Idle
<1>14. \A r \in ToSet(it.waiters) : r \in Request /\ BucketOf[r] = b
  BY <1>2, <1>7, ToSetFacts DEF RequestInv, Item
<1>15. ASSUME NEW r \in Request, BucketOf[r] # b PROVE pc'[r] = pc[r]
  <2>1. r \notin ToSet(it.waiters) /\ r # told
    BY <1>9, <1>14, <1>15, ConstantFacts
  <2>2. r \notin Creators(it, state)
    BY <2>1 DEF Creators
  <2> QED
    BY <1>8, <2>1, <2>2
<1>16. ASSUME NEW r \in Request, BucketOf[r] = b
       PROVE  /\ pc'[r] # "loading"
              /\ pc'[r] = "ready" => Kind[r] \in {"update", "delete"}
              /\ pc'[r] = "changing" => r = first
  <2>1. CASE r \in ToSet(it.waiters)
    <3>1. AfterLoad(r, state) = "changing" => r \in Creators(it, state)
      BY <2>1 DEF Creators
    <3> QED
      BY <1>8, <2>1, <3>1, AfterLoadFacts
  <2>2. CASE r \notin ToSet(it.waiters)
    <3>1. Placed(r)
      BY <1>1 DEF PlaceInv
    <3>2. pc[r] # "loading" /\ pc[r] # "changing"
      BY <1>7, <1>16, <2>2, <3>1 DEF Placed
    <3>3. pc'[r] \in {"done", pc[r]}
      BY <1>8, <2>2
    <3> QED
      BY <3>1, <3>2, <3>3 DEF Placed
  <2> QED
    BY <2>1, <2>2
<1>17. CASE IsRemoved(it.op, state)
  <2>1. b \notin Cached'
    BY <1>8, <1>17 DEF Cached
  <2>2. \A r \in Request : BucketOf[r] = b => Placed(r)'
    BY <1>12, <1>16, <1>17, ConstantFacts DEF Placed
  <2>3. item' \in [Bucket -> Item \cup {NoItem}]
    BY <1>5 DEF CacheTypeOK
  <2>4. ItemsInv' /\ PlaceInv' /\ CreatesNewBucket'
    BY <1>1, <1>8, <1>15, <2>1, <2>2, <2>3, OthersKept
  <2> QED
    BY <1>5, <2>4 DEF CacheIInv
<1>18. CASE ~IsRemoved(it.op, state)
  <2>1. item'[b] = after /\ b \in Cached'
    BY <1>7, <1>8, <1>18, ConstantFacts DEF Cached
  <2>2. first # NoRequest => MayCreate(b)
    BY <1>2, <1>3, <1>10, <1>11 DEF ValueInv
  <2>3. EngineInv(after)
    <3>1. first # NoRequest => after.modify.step = "save_global"
      BY <1>7 DEF NewEngine
    <3> QED
      BY <1>7, <1>11, <3>1 DEF EngineInv, SaveSteps, RemoveSteps
  <2>4. ValueInv(b, after)'
    <3>1. state = "present" => info[b] # NoBucket
      BY <1>2, <1>3, <1>10 DEF ValueInv, IsRemoving
    <3>2. after.value.state = state
      BY <1>7 DEF Meta
    <3>3. first # NoRequest => after.modify.outcome = "sent"
      BY <1>7 DEF NewEngine
    <3> QED
      BY <1>7, <1>8, <3>1, <3>2, <3>3 DEF ValueInv
  <2>5. RequestInv(b, after)'
    <3>1. first # NoRequest => /\ after.on_changed = first /\ pc'[first] = "changing"
                               /\ BucketOf[first] = b
      BY <1>7, <1>8, <1>9, <1>11, <1>14
    <3> QED
      BY <1>7, <1>11, <3>1, EmptyFacts DEF RequestInv
  <2>6. ASSUME NEW r \in Request, BucketOf[r] = b PROVE Placed(r)'
    BY <1>7, <1>9, <1>16, <2>1, <2>6, ConstantFacts DEF Placed
  <2>7. EngineInv(item[b])' /\ RequestInv(b, item[b])' /\ ValueInv(b, item[b])'
    BY <2>1, <2>3, <2>4, <2>5 DEF EngineInv, RequestInv, ValueInv, IsRemoving
  <2>8. item'[b].modify # NoEngine /\ item'[b].modify.outcome = "sent"
            /\ item'[b].modify.step = "save_global" => MayCreate(b)'
    BY <1>7, <1>8, <2>1, <2>2 DEF MayCreate
  <2>9. item' \in [Bucket -> Item \cup {NoItem}]
    BY <1>5 DEF CacheTypeOK
  <2>10. ItemsInv' /\ PlaceInv' /\ CreatesNewBucket'
    BY <1>1, <1>8, <1>15, <2>6, <2>7, <2>8, <2>9, OthersKept
  <2> QED
    BY <1>5, <2>10 DEF CacheIInv
<1> QED
  BY <1>17, <1>18
\* The end of a modification.
LEMMA ModifyAnswered ==
    ASSUME CacheIInv, NEW b \in Bucket, b \in Cached, ~crashed,
           item[b].modify # NoEngine, item[b].modify.outcome # "sent",
           NextStep(item[b].modify) = "end",
           NEW gone, Answer(b, item[b].modify, item[b].load, gone)
    PROVE  CacheIInv'
<1>1. CacheTypeOK /\ ListsInv /\ CreatesNewBucket /\ ItemsInv /\ PlaceInv
  BY StepFacts
<1>2. /\ item[b] \in Item /\ EngineInv(item[b]) /\ RequestInv(b, item[b])
      /\ ValueInv(b, item[b])
  BY CachedFacts
<1>3. PICK e \in ModifyEngine : e = item[b].modify
  BY <1>2 DEF Item
<1>4. PICK load \in LoadEngine \cup {NoEngine} : load = item[b].load
  BY <1>2 DEF Item
<1>5. Answer(b, e, load, gone)
  BY <1>3, <1>4
<1>6. CacheTypeOK' /\ ListsInv'
  BY <1>1, <1>5, AnswerFacts
<1>7a. PICK it \in Item : \E state, first, told, after :
         Answered(b, e, load, it, state, first, told, after)
  BY <1>1, <1>5, AnswerFacts
<1>7. PICK state, first, told, after : Answered(b, e, load, it, state, first, told, after)
  BY <1>7a
<1>8. /\ it = item[b] /\ state = EndState(e)
      /\ first = NoRequest \/ first \in Creators(it, state)
      /\ after \in Item /\ after.waiters = <<>> /\ after.load = load
      /\ after.value = Meta(state, e.meta.has)
      /\ first = NoRequest => after.modify = NoEngine /\ after.op = "none"
      /\ first # NoRequest => after.modify # NoEngine
      /\ it.op \in {"saving", "deleting"} /\ first = NoRequest => told = it.on_changed
  BY <1>7 DEF Answered
<1>9. /\ item'[b] = IF IsRemoved(it.op, state) THEN NoItem ELSE after
      /\ \A c \in Bucket \ {b} : item'[c] = item[c]
      /\ \A r \in Request :
            pc'[r] = IF r = told \/ (r \in Creators(it, state) /\ r # first) THEN "done"
                     ELSE IF r \in ToSet(it.waiters) THEN AfterLoad(r, state)
                     ELSE pc[r]
      /\ crashed' = (IsRemoved(it.op, state) /\ IsFatal(after))
      /\ global' = global /\ info' = info
  BY <1>7 DEF Answered
<1>10. it.op \in {"saving", "deleting"} /\ (e.step \in RemoveSteps <=> it.op = "deleting")
  BY <1>2, <1>3, <1>8 DEF EngineInv
<1>11. item' \in [Bucket -> Item \cup {NoItem}]
  BY <1>6 DEF CacheTypeOK
<1>12. ~IsRemoved(it.op, state) =>
          /\ state = "present" /\ e.outcome = "success"
          /\ e.step \in {"save_info", "update_info"}
          /\ first = NoRequest
  BY <1>3, <1>8, <1>10, EndStateFacts, CreatorFacts DEF IsRemoved
<1>13. CASE crashed'
  <2>1. b \notin Cached'
    BY <1>9, <1>13 DEF Cached
  <2> QED
    BY <1>1, <1>6, <1>9, <1>13, <2>1, CrashKeeps
<1>14. CASE ~crashed'
  <2>1. first = NoRequest /\ told = it.on_changed
    BY <1>8, <1>9, <1>10, <1>12, <1>14 DEF IsFatal, Idle
  <2>2. /\ told \in Request /\ BucketOf[told] = b
        /\ \A r \in ToSet(it.waiters) : r \in Request /\ BucketOf[r] = b
    BY <1>2, <1>8, <2>1, ToSetFacts DEF RequestInv, Item
  <2>3. ASSUME NEW r \in Request, BucketOf[r] # b PROVE pc'[r] = pc[r]
    <3>1. r \notin ToSet(it.waiters) /\ r # told
      BY <2>2, <2>3
    <3>2. r \notin Creators(it, state)
      BY <3>1 DEF Creators
    <3> QED
      BY <1>9, <3>1, <3>2
  <2>4. ASSUME NEW r \in Request, BucketOf[r] = b PROVE Placed(r)'
    <3>1. /\ pc'[r] # "loading" /\ pc'[r] # "changing"
          /\ pc'[r] = "ready" => Kind[r] \in {"update", "delete"}
      <4>1. CASE r \in ToSet(it.waiters)
        <5>1. AfterLoad(r, state) = "changing" => r \in Creators(it, state) /\ r # first
          BY <2>1, <4>1, ConstantFacts DEF Creators
        <5> QED
          BY <1>9, <4>1, <5>1, AfterLoadFacts
      <4>2. CASE r \notin ToSet(it.waiters)
        <5>1. Placed(r)
          BY <1>1 DEF PlaceInv
        <5>2. pc[r] # "loading" /\ (pc[r] = "changing" => r = told)
          BY <1>8, <2>1, <2>4, <4>2, <5>1 DEF Placed
        <5>3. pc'[r] = "done" \/ (pc'[r] = pc[r] /\ r # told)
          BY <1>9, <4>2
        <5> QED
          BY <5>1, <5>2, <5>3 DEF Placed
      <4> QED
        BY <4>1, <4>2
    <3> QED
      BY <3>1 DEF Placed
  <2>5. CASE IsRemoved(it.op, state)
    <3>1. b \notin Cached'
      BY <1>9, <2>5 DEF Cached
    <3>2. ItemsInv' /\ PlaceInv' /\ CreatesNewBucket'
      BY <1>1, <1>9, <1>11, <2>3, <2>4, <3>1, OthersKept
    <3> QED
      BY <1>6, <3>2 DEF CacheIInv
  <2>6. CASE ~IsRemoved(it.op, state)
    <3>1. item'[b] = after
      BY <1>9, <2>6
    <3>2. /\ after.modify = NoEngine /\ after.op = "none" /\ after.waiters = <<>>
          /\ after.value.state = "present" /\ after.load = it.load
      BY <1>4, <1>8, <1>12, <2>6 DEF Meta
    <3>3. EngineInv(after)
      BY <3>2 DEF EngineInv
    <3>4. info[b] # NoBucket /\ ~IsRemoving(it)
      BY <1>2, <1>3, <1>8, <1>12, <2>6 DEF ValueInv, IsRemoving, RemoveSteps
    <3>5. ValueInv(b, after)'
      BY <1>2, <1>8, <1>9, <3>2, <3>4 DEF ValueInv, MayCreate
    <3>6. RequestInv(b, after)'
      BY <3>2, EmptyFacts DEF RequestInv
    <3>7. EngineInv(item[b])' /\ RequestInv(b, item[b])' /\ ValueInv(b, item[b])'
      BY <3>1, <3>3, <3>5, <3>6 DEF EngineInv, RequestInv, ValueInv, IsRemoving
    <3>8. ItemsInv' /\ PlaceInv' /\ CreatesNewBucket'
      BY <1>1, <1>9, <1>11, <2>3, <2>4, <3>1, <3>2, <3>7, OthersKept
    <3> QED
      BY <1>6, <3>8 DEF CacheIInv
  <2> QED
    BY <2>5, <2>6
<1> QED
  BY <1>13, <1>14

LEMMA OnLoadKeeps ==
    ASSUME CacheIInv, NEW b \in Bucket, OnLoad(b)
    PROVE  CacheIInv'
<1>1. /\ b \in Cached /\ ~crashed
      /\ item[b].load # NoEngine /\ item[b].load.outcome # "sent"
  BY DEF OnLoad
<1>2. PICK e \in LoadEngine : e = item[b].load
  BY <1>1, CachedFacts DEF Item
<1>3. CASE /\ NextStep(item[b].load) # "end"
           /\ item' = [item EXCEPT ![b].load = Continue(@)]
           /\ UNCHANGED <<kvs, lists, reqs, crashed>>
  <2>1. PICK load : load = Continue(e)
    OBVIOUS
  <2>2. load \in LoadEngine /\ load.outcome = "sent"
    BY <1>2, <1>3, <2>1, NextStepFacts DEF Continue, LoadEngine, LoadSteps
  <2>3. item' = [item EXCEPT ![b].load = load]
    BY <1>2, <1>3, <2>1
  <2> QED
    BY <1>1, <1>3, <2>2, <2>3, ConstantFacts, LoadGoesOn
<1>4. CASE /\ item[b].modify # NoEngine
           /\ item' = [item EXCEPT ![b].load = NoEngine]
           /\ UNCHANGED <<kvs, lists, reqs, crashed>>
  BY <1>1, <1>4, LoadGoesOn
<1>5. CASE /\ NextStep(item[b].load) = "end" /\ item[b].modify = NoEngine
           /\ OnDone(b, item[b].load, NoEngine)
  <2>1. PICK gone : Answer(b, item[b].load, NoEngine, gone)
    BY <1>5, Zenon DEF OnDone
  <2> QED
    BY <1>1, <1>5, <2>1, LoadAnswered
<1> QED
  BY <1>3, <1>4, <1>5 DEF OnLoad

LEMMA OnModifyKeeps ==
    ASSUME CacheIInv, NEW b \in Bucket, OnModify(b)
    PROVE  CacheIInv'
<1>1. /\ b \in Cached /\ ~crashed
      /\ item[b].modify # NoEngine /\ item[b].modify.outcome # "sent"
  BY DEF OnModify
<1>2. CASE /\ NextStep(item[b].modify) # "end"
           /\ item' = [item EXCEPT ![b].modify = Continue(@)]
           /\ UNCHANGED <<kvs, lists, reqs, crashed>>
  BY <1>1, <1>2, ModifyGoesOn
<1>3. CASE /\ NextStep(item[b].modify) = "end"
           /\ OnDone(b, item[b].modify, item[b].load)
  <2>1. PICK gone : Answer(b, item[b].modify, item[b].load, gone)
    BY <1>3, Zenon DEF OnDone
  <2> QED
    BY <1>1, <1>3, <2>1, ModifyAnswered
<1> QED
  BY <1>2, <1>3 DEF OnModify

-----------------------------------------------------------------------------
(* The invariant and what follows from it.                                 *)

LEMMA CacheInit == Init => CacheIInv
<1> SUFFICES ASSUME Init PROVE CacheIInv
  OBVIOUS
<1>1. CacheTypeOK
  <2>1. /\ global \in [Bucket -> BOOLEAN]
        /\ info \in [Bucket -> (SUBSET Request) \cup {NoBucket}]
    BY DEF Init
  <2>2. byAccess \in Seq(Bucket) /\ byUpdate \in Seq(Bucket)
    BY EmptySeq DEF Init
  <2>3. proxy \in [Request -> Metadata]
    BY DEF Init, Empty, Meta, Metadata
  <2> QED
    BY <2>1, <2>2, <2>3 DEF Init, CacheTypeOK
<1>2. Cached = {}
  BY DEF Init, Cached
<1>3. ListsInv
  BY <1>2, FS_EmptySet, EmptyFacts, ConstantFacts DEF Init, ListsInv
<1>4. CreatesNewBucket /\ ItemsInv /\ PlaceInv
  BY <1>2 DEF Init, CreatesNewBucket, ItemsInv, PlaceInv, Placed
<1> QED
  BY <1>1, <1>3, <1>4 DEF CacheIInv

LEMMA CacheStep == CacheIInv /\ [Next]_vars => CacheIInv'
<1> SUFFICES ASSUME CacheIInv, [Next]_vars PROVE CacheIInv'
  OBVIOUS
<1>1. ASSUME NEW r \in Request, Fetch(r) \/ Change(r) \/ GiveUp(r) PROVE CacheIInv'
  BY <1>1, FetchKeeps, ChangeKeeps, GiveUpKeeps
<1>2. ASSUME NEW b \in Bucket,
             MotrLoads(b) \/ MotrModifies(b) \/ OnLoad(b) \/ OnModify(b) \/ Age(b)
      PROVE  CacheIInv'
  BY <1>2, MotrLoadsKeeps, MotrModifiesKeeps, OnLoadKeeps, OnModifyKeeps, AgeKeeps
<1>3. CASE UNCHANGED vars
  <2>1. UNCHANGED <<global, info, item, byAccess, byUpdate, pc, proxy, crashed>>
    BY <1>3 DEF vars, kvs, lists, reqs
  <2>2. Cached' = Cached
    BY <2>1 DEF Cached
  <2>3. CacheTypeOK' /\ ListsInv' /\ CreatesNewBucket'
    BY <2>1, <2>2 DEF CacheIInv, CacheTypeOK, ListsInv, CreatesNewBucket
  <2>4. ItemsInv => ItemsInv'
    BY <2>1, <2>2 DEF ItemsInv, EngineInv, RequestInv, ValueInv, IsRemoving, MayCreate, Idle
  <2>5. PlaceInv => PlaceInv'
    BY <2>1, <2>2 DEF PlaceInv, Placed
  <2> QED
    BY <2>1, <2>3, <2>4, <2>5 DEF CacheIInv
<1> QED
  BY <1>1, <1>2, <1>3 DEF Next

\* The inductive invariant of the cache: the two lists and the items agree,
\* a request waits in the queue of its bucket's item or owns the modification
\* of it, and an item knows of nothing that Motr no longer has.
THEOREM CacheInvariantHolds == Spec => []CacheIInv
BY CacheInit, CacheStep, PTL DEF Spec

LEMMA ListedOnce ==
    ASSUME NEW seq \in Seq(Bucket), IsOnce(seq), ToSet(seq) = Cached
    PROVE  ListsItems(seq)
<1>1. Len(seq) \in Nat /\ DOMAIN seq = 1..Len(seq)
  BY ToSetFacts
<1>2. seq \in Bijection(1..Len(seq), Cached)
  <2>1. seq \in [1..Len(seq) -> Cached]
    BY <1>1, ToSetFacts
  <2>2. seq \in Injection(1..Len(seq), Cached)
    BY <1>1, <2>1 DEF Injection, IsInjective, IsOnce
  <2>3. seq \in Surjection(1..Len(seq), Cached)
    BY <1>1, <2>1, ToSetFacts DEF Surjection
  <2> QED
    BY <2>2, <2>3 DEF Bijection
<1>3. IsFiniteSet(1..Len(seq)) /\ Cardinality(1..Len(seq)) = Len(seq)
  BY <1>1, FS_Interval
<1>4. Cardinality(Cached) = Len(seq)
  BY <1>2, <1>3, FS_Bijection DEF ExistsBijection
<1> QED
  BY <1>4 DEF ListsItems

\* shrink() keeps to max_cache_size, and neither of the lists it walks misses
\* an item or holds one twice, however many requests, buckets and failures
\* there are.
THEOREM CacheIsAlwaysBounded == Spec => []CacheIsBounded
<1>1. CacheIInv => CacheIsBounded
  <2> SUFFICES ASSUME CacheIInv PROVE CacheIsBounded
    OBVIOUS
  <2>1. CacheTypeOK /\ ListsInv
    BY DEF CacheIInv
  <2>2. ListsItems(byAccess) /\ ListsItems(byUpdate)
    BY <2>1, ListedOnce DEF CacheTypeOK, ListsInv
  <2> QED
    BY <2>1, <2>2 DEF CacheIsBounded, ListsInv
<1> QED
  BY <1>1, CacheInvariantHolds, PTL

\* Item::fetch loses no request: who waits is in the queue of its bucket's
\* item only, and on_load or on_done of an engine at work will answer it.
THEOREM WaitersAreAlwaysServed == Spec => []WaitersAreServed
<1>1. CacheIInv => WaitersAreServed
  <2> SUFFICES ASSUME CacheIInv, ~crashed, NEW r \in Request, NEW b \in Bucket
               PROVE  /\ (pc[r] = "loading" /\ b = BucketOf[r])
                          <=> (b \in Cached /\ \E i \in DOMAIN item[b].waiters :
                                                  item[b].waiters[i] = r)
                      /\ b \in Cached /\ item[b].waiters # <<>> => ~Idle(item[b])
    BY DEF WaitersAreServed
  <2>1. ItemsInv /\ PlaceInv
    BY StepFacts
  <2>2. b \in Cached => /\ RequestInv(b, item[b])
                        /\ ToSet(item[b].waiters) = {item[b].waiters[i] : i \in DOMAIN item[b].waiters}
    BY <2>1 DEF ItemsInv, ToSet
  <2> QED
    BY <2>1, <2>2 DEF PlaceInv, Placed, RequestInv
<1> QED
  BY <1>1, CacheInvariantHolds, PTL

\* Item::on_done calls the handler of the request that started the
\* modification, and of nobody else.
THEOREM ChangeIsAlwaysOwned == Spec => []ChangeIsOwned
<1>1. CacheIInv => ChangeIsOwned
  <2> SUFFICES ASSUME CacheIInv, ~crashed, NEW r \in Request, NEW b \in Bucket
               PROVE  (pc[r] = "changing" /\ b = BucketOf[r])
                          <=> (b \in Cached /\ item[b].on_changed = r
                               /\ item[b].modify # NoEngine
                               /\ item[b].op = IF Kind[r] = "delete" THEN "deleting"
                                                                     ELSE "saving")
    BY DEF ChangeIsOwned
  <2>1. ItemsInv /\ PlaceInv
    BY StepFacts
  <2> QED
    BY <2>1 DEF ItemsInv, PlaceInv, Placed, RequestInv, EngineInv
<1> QED
  BY <1>1, CacheInvariantHolds, PTL

\* The save of PutBucket writes over no bucket that a client has created, also
\* after the process has been ended by an item destroyed too early.
THEOREM AlwaysCreatesNewBucket == Spec => []CreatesNewBucket
<1>1. CacheIInv => CreatesNewBucket
  BY DEF CacheIInv
<1> QED
  BY <1>1, CacheInvariantHolds, PTL

\* The cache serves no bucket whose metadata is gone from Motr.
THEOREM CachedBucketAlwaysExists == Spec => []CachedBucketExists
<1>1. CacheIInv => CachedBucketExists
  <2> SUFFICES ASSUME CacheIInv, ~crashed, NEW b \in Cached,
                      item[b].modify = NoEngine, item[b].value.state = "present",
                      item[b].age < 2
               PROVE  info[b] # NoBucket
    BY DEF CachedBucketExists
  <2>1. ValueInv(b, item[b])
    BY CachedFacts
  <2> QED
    BY <2>1 DEF ValueInv, IsRemoving
<1> QED
  BY <1>1, CacheInvariantHolds, PTL

-----------------------------------------------------------------------------
(* DeleteBucket.                                                           *)

BrSpec == BrInit /\ [][BrNext]_brVars

BrReplies ==
    {"none", "deleted", "NoSuchBucket", "BucketNotEmpty", "InternalError", "ServiceUnavailable"}
BrRecord ==
    [pc : {"load", "first", "uploads", "parts", "index", "remove", "done"},
     lastKey : Nat, found : SUBSET Nat, at : 1 .. 5, reply : BrReplies, failures : Nat,
     connected : BOOLEAN]
BucketRecord ==
    [present : BOOLEAN, objects : BOOLEAN, uploads : SUBSET (Nat \ {0}), partIndexes : SUBSET Nat,
     indexes : SUBSET AllIndexes, put : BOOLEAN, corrupt : SUBSET Nat, lost : SUBSET Nat]

\* The bucket has been found empty, and is being emptied.
Emptying(q) == q.pc \in {"uploads", "parts", "index", "remove"}

\* What the request knows at each step of it.
UploadsAreFound(q, b) ==
    q.pc = "uploads" => \A u \in b.uploads : u <= q.lastKey => u \in q.found \cup b.lost
AllAreFound(q, b) == q.pc = "parts" => b.uploads \subseteq q.found \cup b.lost
PartsAreGone(q, b) == q.pc \in {"index", "remove"} => b.partIndexes \subseteq b.lost
IndexesAreGone(q, b) ==
    /\ q.pc = "index" => q.at \in 1 .. 4 /\ \A j \in 1 .. 4 : j < q.at => Indexes[j] \notin b.indexes
    /\ q.pc = "remove" => b.indexes = {}

\* The inductive invariant.  Every part index belongs to an upload that is
\* still listed, or is lost, so that a retry finds it again.
BrIInv ==
    /\ br \in BrRecord
    /\ bucket \in BucketRecord /\ IsFiniteSet(bucket.uploads)
    /\ bucket.partIndexes \subseteq bucket.uploads \cup bucket.lost
    /\ bucket.put => bucket.objects
    /\ Emptying(br) => bucket.present /\ ~bucket.put
    /\ br.pc = "first" => bucket.present
    /\ br.pc \in {"load", "first"} => br.lastKey = 0
    /\ UploadsAreFound(br, bucket)
    /\ AllAreFound(br, bucket)
    /\ PartsAreGone(br, bucket)
    /\ IndexesAreGone(br, bucket)
    /\ NothingIsLeft

-----------------------------------------------------------------------------
(* What one read of the uploads returns.                                   *)

\* Keys are ordered: every set of them has a first one.
LEMMA FirstKey ==
    ASSUME NEW T \in SUBSET Nat, T # {}
    PROVE  \E x \in T : \A y \in T : x <= y
<1>1. PICK x \in T : \A y \in T : ~(<<y, x>> \in OpToRel(<, Nat))
  BY NatLessThanWellFounded, WFMin, Zenon
<1>2. \A y \in T : ~(y < x)
  BY <1>1, Zenon DEF OpToRel
<1> QED
  BY <1>2

\* A page has no gaps: a key before one of the page is in it, too.
LEMMA PageIsLow ==
    ASSUME NEW uploads \in SUBSET Nat, IsFiniteSet(uploads), NEW lastKey \in Nat,
           NEW last \in NextUploads(uploads, lastKey),
           NEW u \in uploads, u > lastKey, u <= last
    PROVE  u \in NextUploads(uploads, lastKey)
<1> DEFINE rest == {v \in uploads : v > lastKey}
           upTo(k) == {v \in rest : v <= k}
<1>1. last \in rest /\ Cardinality(upTo(last)) <= BrFetch
  BY Zenon DEF NextUploads
<1>2. upTo(u) \in SUBSET upTo(last)
  <2> SUFFICES ASSUME NEW v \in rest, v <= u PROVE v <= last
    BY Zenon
  <2>1. last \in Nat /\ u \in Nat /\ v \in Nat
    BY <1>1
  <2> QED
    BY <2>1
<1>3. upTo(last) \in SUBSET uploads /\ upTo(u) \in SUBSET uploads
  OBVIOUS
<1>4. IsFiniteSet(upTo(last)) /\ IsFiniteSet(upTo(u))
  BY <1>3, FS_Subset, Zenon
<1>5. Cardinality(upTo(u)) <= Cardinality(upTo(last))
  BY <1>2, <1>4, FS_Subset, Zenon
<1>6. Cardinality(upTo(u)) \in Nat /\ Cardinality(upTo(last)) \in Nat
  BY <1>4, FS_CardinalityType, Zenon
<1>7. Cardinality(upTo(u)) <= BrFetch
  <2> HIDE DEF upTo
  <2> QED
    BY <1>1, <1>5, <1>6, BrAssumption
<1> QED
  BY <1>7, Zenon DEF NextUploads

\* A page that is not full is the last one.
LEMMA ShortPage ==
    ASSUME NEW uploads \in SUBSET Nat, IsFiniteSet(uploads), NEW lastKey \in Nat,
           Cardinality(NextUploads(uploads, lastKey)) < BrFetch
    PROVE  \A u \in uploads : u > lastKey => u \in NextUploads(uploads, lastKey)
<1> DEFINE rest == {v \in uploads : v > lastKey}
           upTo(k) == {v \in rest : v <= k}
           page == NextUploads(uploads, lastKey)
           over == rest \ page
<1>1. page = {u \in rest : Cardinality(upTo(u)) <= BrFetch}
  BY Zenon DEF NextUploads
<1>2. SUFFICES ASSUME over # {} PROVE FALSE
  OBVIOUS
<1>3. PICK u \in over : \A y \in over : u <= y
  <2> over \in SUBSET Nat
    OBVIOUS
  <2> HIDE DEF over
  <2> QED
    BY <1>2, FirstKey
<1>4. upTo(u) \in SUBSET (page \cup {u})
  <2> SUFFICES ASSUME NEW v \in rest, v <= u, v \notin page PROVE v = u
    OBVIOUS
  <2>1. v \in over /\ v \in Nat /\ u \in Nat
    OBVIOUS
  <2> QED
    BY <2>1, <1>3
<1>5. page \in SUBSET uploads
  BY <1>1, Zenon
<1>6. IsFiniteSet(page)
  BY <1>5, FS_Subset, Zenon
<1>7. IsFiniteSet(page \cup {u}) /\ Cardinality(page \cup {u}) = Cardinality(page) + 1
  <2>1. u \notin page
    BY <1>3, Zenon
  <2> QED
    BY <2>1, <1>6, FS_AddElement, Zenon
<1>8. IsFiniteSet(upTo(u)) /\ Cardinality(upTo(u)) <= Cardinality(page \cup {u})
  BY <1>4, <1>7, FS_Subset, Zenon
<1>9. Cardinality(upTo(u)) \in Nat /\ Cardinality(page) \in Nat
  BY <1>6, <1>8, FS_CardinalityType, Zenon
<1>10. u \in rest /\ u \notin page
  BY <1>3, Zenon
<1>11. ~(Cardinality(upTo(u)) <= BrFetch)
  BY <1>1, <1>10, Zenon
<1> HIDE DEF upTo, page
<1> QED
  BY <1>7, <1>8, <1>9, <1>11, BrAssumption DEF page

-----------------------------------------------------------------------------
(* What the steps do to the request.                                       *)

\* S3DeleteBucketAction::send_response_to_s3_client ends the request.
LEMMA ReplyEnds ==
    ASSUME NEW q \in BrRecord, NEW e \in BrReplies
    PROVE  /\ BrReply(q, e) \in BrRecord /\ BrReply(q, e).pc = "done"
           /\ BrReply(q, e).lastKey = q.lastKey
           /\ BrReply(q, e).found = q.found
           /\ BrReply(q, e).at = q.at
<1>1. PICK r \in BrReplies : r = IF q.connected THEN e ELSE "none"
  BY DEF BrReplies
<1>2. BrReply(q, e) = [q EXCEPT !.pc = "done", !.reply = r]
  BY <1>1 DEF BrReply
<1> QED
  BY <1>2 DEF BrRecord

\* Action::next goes to the given step or ends the request, and keeps what the
\* request has found.
LEMMA NextStepKeeps ==
    ASSUME NEW q \in BrRecord,
           NEW to \in {"first", "uploads", "parts", "index", "remove"}
    PROVE  /\ BrNextStep(q, to) \in BrRecord
           /\ BrNextStep(q, to).pc \in {to, "done"}
           /\ BrNextStep(q, to).lastKey = q.lastKey
           /\ BrNextStep(q, to).found = q.found
           /\ BrNextStep(q, to).at = q.at
<1>1. CASE ~q.connected
  BY <1>1, ReplyEnds DEF BrNextStep, BrReplies
<1>2. CASE q.connected
  BY <1>2 DEF BrNextStep, BrRecord
<1> QED
  BY <1>1, <1>2

\* A request that has ended knows nothing, and a bucket that has not changed is
\* as it was.
LEMMA RemovalEndKeeps ==
    ASSUME BrIInv, br' \in BrRecord, UNCHANGED bucket,
           br'.pc = "done" \/ (br'.pc = "load" /\ br'.lastKey = 0)
    PROVE  BrIInv'
BY DEF BrIInv, Emptying, UploadsAreFound, AllAreFound, PartsAreGone, IndexesAreGone, NothingIsLeft

\* A failed step is answered, and nothing of the bucket changes.
LEMMA FailKeeps ==
    ASSUME BrIInv, NEW f, NEW e \in BrReplies, BrFails(f, e)
    PROVE  BrIInv'
<1>1. [br EXCEPT !.failures = @ + 1] \in BrRecord
  BY DEF BrIInv, BrRecord
<1>2. br' \in BrRecord /\ br'.pc = "done" /\ UNCHANGED bucket
  BY <1>1, ReplyEnds DEF BrFails
<1> QED
  BY <1>2, RemovalEndKeeps

-----------------------------------------------------------------------------
(* The invariant is inductive.                                             *)

\* Init: a bucket with all its indexes, and a request that knows nothing.
LEMMA BrInitInv == BrInit => BrIInv
<1> SUFFICES ASSUME BrInit PROVE BrIInv
  OBVIOUS
<1>1. br \in BrRecord /\ br.pc = "load" /\ br.lastKey = 0
  BY DEF BrInit, NewRemoval, BrRecord, BrReplies
<1>2. PICK b \in BrBuckets :
        bucket = [present |-> TRUE, objects |-> b.objects, uploads |-> b.uploads,
                  partIndexes |-> b.uploads, indexes |-> AllIndexes, put |-> b.objects,
                  corrupt |-> b.corrupt, lost |-> {}]
  BY DEF BrInit
<1>3. /\ b.objects \in BOOLEAN /\ b.uploads \in SUBSET (Nat \ {0}) /\ b.corrupt \in SUBSET Nat
      /\ IsFiniteSet(b.uploads)
  BY BrAssumption
<1>4. bucket \in BucketRecord /\ IsFiniteSet(bucket.uploads)
  BY <1>2, <1>3 DEF BucketRecord
<1> QED
  BY <1>1, <1>2, <1>4
  DEF BrIInv, Emptying, UploadsAreFound, AllAreFound, PartsAreGone, IndexesAreGone, NothingIsLeft

LEMMA LoadBucketInv == BrIInv /\ LoadBucket => BrIInv'
<1> SUFFICES ASSUME BrIInv, LoadBucket PROVE BrIInv'
  OBVIOUS
<1>1. CASE BrFails("load", "InternalError")
  BY <1>1, FailKeeps DEF BrReplies
<1>2. CASE ~bucket.present /\ br' = BrReply(br, "NoSuchBucket") /\ UNCHANGED bucket
  BY <1>2, ReplyEnds, RemovalEndKeeps DEF BrIInv, BrReplies
<1>3. CASE bucket.present /\ br' = BrNextStep(br, "first") /\ UNCHANGED bucket
  <2>1. br' \in BrRecord /\ br'.pc \in {"first", "done"} /\ br'.lastKey = 0
    BY <1>3, NextStepKeeps DEF BrIInv, LoadBucket
  <2> QED
    BY <1>3, <2>1
    DEF BrIInv, Emptying, UploadsAreFound, AllAreFound, PartsAreGone, IndexesAreGone, NothingIsLeft
<1> QED
  BY <1>1, <1>2, <1>3 DEF LoadBucket

\* fetch_first_object_metadata: a bucket that is emptied was empty, and uploads
\* have keys after the first page's start.
LEMMA FirstObjectInv == BrIInv /\ FirstObject => BrIInv'
<1> SUFFICES ASSUME BrIInv, FirstObject PROVE BrIInv'
  OBVIOUS
<1>1. CASE \/ BrFails("read", "BucketNotEmpty")
           \/ BrFails("launch", "ServiceUnavailable")
  BY <1>1, FailKeeps DEF BrReplies
<1>2. CASE bucket.objects /\ br' = BrReply(br, "BucketNotEmpty") /\ UNCHANGED bucket
  BY <1>2, ReplyEnds, RemovalEndKeeps DEF BrIInv, BrReplies
<1>3. CASE ~bucket.objects /\ br' = BrNextStep(br, "uploads") /\ UNCHANGED bucket
  <2>1. /\ br' \in BrRecord /\ br'.pc \in {"uploads", "done"}
        /\ br'.lastKey = br.lastKey /\ br'.found = br.found
    BY <1>3, NextStepKeeps DEF BrIInv
  <2>2. \A u \in bucket.uploads : ~(u <= br'.lastKey)
    BY <2>1 DEF BrIInv, BrRecord, BucketRecord, FirstObject
  <2> QED
    BY <1>3, <2>1, <2>2
    DEF BrIInv, Emptying, UploadsAreFound, AllAreFound, PartsAreGone, IndexesAreGone, NothingIsLeft, FirstObject
<1> QED
  BY <1>1, <1>2, <1>3 DEF FirstObject

\* fetch_multipart_objects: the uploads up to the last key are found, and the
\* page that is not full is the last.
LEMMA FetchUploadsInv == BrIInv /\ FetchUploads => BrIInv'
<1> SUFFICES ASSUME BrIInv, FetchUploads PROVE BrIInv'
  OBVIOUS
<1> DEFINE page == NextUploads(bucket.uploads, br.lastKey)
<1>1. /\ br \in BrRecord /\ bucket \in BucketRecord /\ bucket.uploads \in SUBSET Nat
      /\ br.lastKey \in Nat /\ br.found \in SUBSET Nat /\ IsFiniteSet(bucket.uploads)
      /\ bucket.present /\ ~bucket.put /\ br.pc = "uploads"
  BY DEF BrIInv, BrRecord, BucketRecord, FetchUploads, Emptying
<1>2. page \in SUBSET bucket.uploads
  BY Zenon DEF NextUploads
<1>3. CASE page = {} /\ br' = BrNextStep(br, "parts") /\ UNCHANGED bucket
  <2>1. Cardinality(page) < BrFetch
    BY <1>3, FS_EmptySet, BrAssumption
  <2>2. \A u \in bucket.uploads : u > br.lastKey => u \in page
    BY <1>1, <2>1, ShortPage
  <2>3. bucket.uploads \subseteq br.found \cup bucket.lost
    BY <1>1, <1>3, <2>2 DEF BrIInv, UploadsAreFound
  <2>4. br' \in BrRecord /\ br'.pc \in {"parts", "done"} /\ br'.found = br.found
    BY <1>1, <1>3, NextStepKeeps
  <2> QED
    BY <1>1, <1>3, <2>3, <2>4
    DEF BrIInv, Emptying, UploadsAreFound, AllAreFound, PartsAreGone, IndexesAreGone, NothingIsLeft
<1>4. CASE \E last \in page :
             /\ \A u \in page : u <= last
             /\ br' = UploadsRead(br, page, last)
             /\ bucket' = [bucket EXCEPT !.lost = @ \cup (page \cap bucket.corrupt)]
  <2>1. PICK last \in page :
             /\ \A u \in page : u <= last
             /\ br' = UploadsRead(br, page, last)
             /\ bucket' = [bucket EXCEPT !.lost = @ \cup (page \cap bucket.corrupt)]
    BY <1>4, Zenon
  <2> DEFINE t == [br EXCEPT !.found = @ \cup (page \ bucket.corrupt), !.lastKey = last]
  <2>2. /\ t \in BrRecord /\ t.lastKey = last
        /\ t.found = br.found \cup (page \ bucket.corrupt)
    <3> HIDE DEF page
    <3> QED
      BY <1>1, <1>2, <2>1 DEF BrRecord
  <2>3. /\ bucket' \in BucketRecord /\ bucket'.uploads = bucket.uploads
        /\ bucket'.lost = bucket.lost \cup (page \cap bucket.corrupt)
        /\ bucket'.partIndexes = bucket.partIndexes /\ bucket'.put = bucket.put
        /\ bucket'.objects = bucket.objects /\ bucket'.present = bucket.present
    <3> HIDE DEF page
    <3> QED
      BY <1>1, <1>2, <2>1 DEF BucketRecord
  <2>4. /\ br' \in BrRecord
        /\ br'.found = t.found
        /\ \/ br'.pc = "uploads" /\ br'.lastKey = last
           \/ br'.pc \in {"parts", "done"} /\ Cardinality(page) < BrFetch
    <3>1. CASE Cardinality(page) < BrFetch
      <4>1. br' = BrNextStep(t, "parts")
        BY <2>1, <3>1, Zenon DEF UploadsRead
      <4> HIDE DEF t
      <4> QED
        BY <2>2, <3>1, <4>1, NextStepKeeps
    <3>2. CASE ~(Cardinality(page) < BrFetch)
      <4>1. br' = [t EXCEPT !.pc = "uploads"]
        BY <2>1, <3>2, Zenon DEF UploadsRead
      <4> HIDE DEF t
      <4> QED
        BY <2>2, <4>1 DEF BrRecord
    <3> QED
      BY <3>1, <3>2
  <2>5. \A u \in bucket.uploads : u <= last => u \in t.found \cup bucket'.lost
    <3> SUFFICES ASSUME NEW u \in bucket.uploads, u <= last
                 PROVE  u \in t.found \cup bucket'.lost
      BY Zenon
    <3>1. CASE u > br.lastKey
      <4>1. u \in page
        BY <1>1, <2>1, <3>1, PageIsLow
      <4> QED
        BY <2>2, <2>3, <4>1, Zenon
    <3>2. CASE u <= br.lastKey
      <4>1. u \in br.found \cup bucket.lost
        BY <1>1, <3>2 DEF BrIInv, UploadsAreFound
      <4> QED
        BY <2>2, <2>3, <4>1, Zenon
    <3>3. u \in Nat /\ br.lastKey \in Nat
      BY <1>1
    <3> QED
      BY <3>1, <3>2, <3>3
  <2>6. ASSUME Cardinality(page) < BrFetch
        PROVE  \A u \in bucket.uploads : u <= last
    <3>1. \A u \in bucket.uploads : u > br.lastKey => u \in page
      BY <1>1, <2>6, ShortPage
    <3>2. last > br.lastKey
      BY <2>1, Zenon DEF NextUploads
    <3>3. last \in Nat
      BY <1>1, <1>2
    <3> HIDE DEF page
    <3> QED
      BY <1>1, <2>1, <3>1, <3>2, <3>3
  <2> HIDE DEF page, t
  <2>7. UploadsAreFound(br', bucket') /\ AllAreFound(br', bucket')
    BY <2>3, <2>4, <2>5, <2>6 DEF UploadsAreFound, AllAreFound
  <2> QED
    BY <1>1, <2>3, <2>4, <2>7 DEF BrIInv, Emptying, PartsAreGone, IndexesAreGone, NothingIsLeft
<1>5. CASE /\ br' = BrNextStep([br EXCEPT !.failures = @ + 1], "parts")
           /\ bucket' = [bucket EXCEPT !.lost = @ \cup (bucket.uploads \ br.found)]
  <2> DEFINE t == [br EXCEPT !.failures = @ + 1]
  <2>1. t \in BrRecord /\ t.found = br.found
    BY <1>1 DEF BrRecord
  <2>2. br' \in BrRecord /\ br'.pc \in {"parts", "done"} /\ br'.found = br.found
    <3> HIDE DEF t
    <3> QED
      BY <1>5, <2>1, NextStepKeeps DEF t
  <2>3. /\ bucket' \in BucketRecord /\ bucket'.uploads = bucket.uploads
        /\ bucket'.lost = bucket.lost \cup (bucket.uploads \ br.found)
        /\ bucket'.partIndexes = bucket.partIndexes /\ bucket'.put = bucket.put
        /\ bucket'.objects = bucket.objects /\ bucket'.present = bucket.present
    BY <1>1, <1>5 DEF BucketRecord
  <2> QED
    BY <1>1, <2>2, <2>3
    DEF BrIInv, Emptying, UploadsAreFound, AllAreFound, PartsAreGone, IndexesAreGone, NothingIsLeft
<1> QED
  BY <1>3, <1>4, <1>5, Zenon DEF FetchUploads

\* remove_part_indexes: every upload was found, so no part index is left that is
\* not lost.
LEMMA RemovePartIndexesInv == BrIInv /\ RemovePartIndexes => BrIInv'
<1> SUFFICES ASSUME BrIInv, RemovePartIndexes PROVE BrIInv'
  OBVIOUS
<1>1. /\ br \in BrRecord /\ bucket \in BucketRecord /\ IsFiniteSet(bucket.uploads)
      /\ br.found \in SUBSET Nat /\ bucket.present /\ ~bucket.put /\ br.pc = "parts"
      /\ bucket.partIndexes \subseteq bucket.uploads \cup bucket.lost
      /\ bucket.uploads \subseteq br.found \cup bucket.lost
  BY DEF BrIInv, BrRecord, RemovePartIndexes, Emptying, AllAreFound
<1>2. CASE BrFails("launch", "ServiceUnavailable")
  BY <1>2, FailKeeps DEF BrReplies
<1>3. CASE /\ br' = BrNextStep([br EXCEPT !.at = 1], "index")
           /\ bucket' = [bucket EXCEPT !.partIndexes = @ \ br.found]
  <2> DEFINE t == [br EXCEPT !.at = 1]
  <2>1. t \in BrRecord /\ t.at = 1
    BY <1>1 DEF BrRecord
  <2>2. br' \in BrRecord /\ br'.pc \in {"index", "done"} /\ br'.at = 1
    <3> HIDE DEF t
    <3> QED
      BY <1>3, <2>1, NextStepKeeps DEF t
  <2>3. /\ bucket' \in BucketRecord /\ bucket'.uploads = bucket.uploads
        /\ bucket'.lost = bucket.lost /\ bucket'.partIndexes = bucket.partIndexes \ br.found
        /\ bucket'.put = bucket.put
        /\ bucket'.objects = bucket.objects /\ bucket'.present = bucket.present
    BY <1>1, <1>3 DEF BucketRecord
  <2>4. bucket'.partIndexes \subseteq bucket'.lost
    BY <1>1, <2>3, Zenon
  <2> QED
    BY <1>1, <2>2, <2>3, <2>4
    DEF BrIInv, Emptying, UploadsAreFound, AllAreFound, PartsAreGone, IndexesAreGone, NothingIsLeft
<1>4. CASE /\ bucket' = [bucket EXCEPT !.lost = @ \cup br.found]
           /\ br' = BrNextStep([br EXCEPT !.at = 1, !.failures = @ + 1], "index")
  <2> DEFINE t == [br EXCEPT !.at = 1, !.failures = @ + 1]
  <2>1. t \in BrRecord /\ t.at = 1
    <3>1. PICK n \in Nat : n = br.failures + 1
      BY <1>1 DEF BrRecord
    <3>2. PICK one \in 1 .. 5 : one = 1
      OBVIOUS
    <3>3. t = [br EXCEPT !.at = one, !.failures = n]
      BY <3>1, <3>2
    <3> HIDE DEF t
    <3> QED
      BY <1>1, <3>2, <3>3 DEF BrRecord
  <2>2. br' \in BrRecord /\ br'.pc \in {"index", "done"} /\ br'.at = 1
    <3> HIDE DEF t
    <3> QED
      BY <1>4, <2>1, NextStepKeeps DEF t
  <2>3. /\ bucket' \in BucketRecord /\ bucket'.uploads = bucket.uploads
        /\ bucket'.lost = bucket.lost \cup br.found /\ bucket'.partIndexes = bucket.partIndexes
        /\ bucket'.put = bucket.put
        /\ bucket'.objects = bucket.objects /\ bucket'.present = bucket.present
    BY <1>1, <1>4 DEF BucketRecord
  <2>4. bucket'.partIndexes \subseteq bucket'.lost
    BY <1>1, <2>3, Zenon
  <2> QED
    BY <1>1, <2>2, <2>3, <2>4
    DEF BrIInv, Emptying, UploadsAreFound, AllAreFound, PartsAreGone, IndexesAreGone, NothingIsLeft
<1> QED
  BY <1>2, <1>3, <1>4 DEF RemovePartIndexes

\* remove_multipart_index .. remove_extended_metadata_index: the indexes before
\* the current one are gone, and after the last one, all.
LEMMA RemoveIndexInv == BrIInv /\ RemoveIndex => BrIInv'
<1> SUFFICES ASSUME BrIInv, RemoveIndex PROVE BrIInv'
  OBVIOUS
<1> DEFINE i == Indexes[br.at]
           to == IF br.at = Len(Indexes) THEN "remove" ELSE "index"
           t == [br EXCEPT !.at = @ + 1]
<1>1. /\ br \in BrRecord /\ bucket \in BucketRecord /\ IsFiniteSet(bucket.uploads)
      /\ bucket.present /\ ~bucket.put /\ br.pc = "index" /\ br.at \in 1 .. 4
      /\ bucket.partIndexes \subseteq bucket.lost
      /\ \A j \in 1 .. 4 : j < br.at => Indexes[j] \notin bucket.indexes
  BY DEF BrIInv, RemoveIndex, Emptying, PartsAreGone, IndexesAreGone
<1>2. CASE \/ BrFails("launch", "ServiceUnavailable")
           \/ BrFails("write", "InternalError")
  BY <1>2, FailKeeps DEF BrReplies
<1>3. CASE /\ bucket' = [bucket EXCEPT !.indexes = @ \ {i},
                                       !.uploads = IF i = "multipart" THEN {} ELSE @,
                                       !.objects = IF i = "objects" THEN FALSE ELSE @]
           /\ br' = BrNextStep(t, to)
  <2>1. t \in BrRecord /\ t.at = br.at + 1
    BY <1>1 DEF BrRecord
  <2>2. to \in {"index", "remove"} /\ (to = "remove" <=> br.at = 4)
    BY <1>1 DEF Indexes
  <2>3. br' \in BrRecord /\ br'.pc \in {to, "done"} /\ br'.at = br.at + 1
    <3> HIDE DEF t, to
    <3> QED
      BY <1>3, <2>1, <2>2, NextStepKeeps
  <2>4. PICK up \in SUBSET (Nat \ {0}) :
          up = (IF i = "multipart" THEN {} ELSE bucket.uploads) /\ IsFiniteSet(up)
    BY <1>1, FS_EmptySet DEF BucketRecord
  <2>5. PICK ob \in BOOLEAN : ob = (IF i = "objects" THEN FALSE ELSE bucket.objects)
    BY <1>1 DEF BucketRecord
  <2>6. bucket' = [bucket EXCEPT !.indexes = @ \ {i}, !.uploads = up, !.objects = ob]
    BY <1>3, <2>4, <2>5
  <2>7. /\ bucket' \in BucketRecord /\ bucket'.uploads = up /\ bucket'.indexes = bucket.indexes \ {i}
        /\ bucket'.lost = bucket.lost /\ bucket'.partIndexes = bucket.partIndexes
        /\ bucket'.put = bucket.put /\ bucket'.present = bucket.present
    <3> HIDE DEF i
    <3> QED
      BY <1>1, <2>6 DEF BucketRecord
  <2>8. \A j \in 1 .. 4 : j < br.at + 1 => Indexes[j] \notin bucket'.indexes
    BY <1>1, <2>7
  <2>9. IndexesAreGone(br', bucket')
    <3>1. br'.pc = "index" => br'.at \in 1 .. 4
      <4> HIDE DEF to
      <4> QED
        BY <1>1, <2>2, <2>3
    <3>2. ASSUME br'.pc = "remove" PROVE bucket'.indexes = {}
      <4>1. br.at = 4
        <5> HIDE DEF to
        <5> QED
          BY <2>2, <2>3, <3>2
      <4>2. \A j \in 1 .. 4 : Indexes[j] \notin bucket'.indexes
        BY <4>1, <2>8
      <4>3. /\ "multipart" \notin bucket'.indexes /\ "objects" \notin bucket'.indexes
            /\ "versions" \notin bucket'.indexes /\ "extended" \notin bucket'.indexes
        BY <4>2 DEF Indexes
      <4>4. bucket'.indexes \in SUBSET AllIndexes
        BY <2>7 DEF BucketRecord
      <4> QED
        BY <4>3, <4>4 DEF AllIndexes
    <3> QED
      BY <2>3, <2>8, <3>1, <3>2 DEF IndexesAreGone
  <2> HIDE DEF i, t, to
  <2> QED
    BY <1>1, <2>2, <2>3, <2>4, <2>7, <2>9
    DEF BrIInv, Emptying, UploadsAreFound, AllAreFound, PartsAreGone, NothingIsLeft
<1> QED
  BY <1>2, <1>3 DEF RemoveIndex

\* delete_bucket: the last step, of a bucket without an index.
LEMMA RemoveBucketInv == BrIInv /\ RemoveBucket => BrIInv'
<1> SUFFICES ASSUME BrIInv, RemoveBucket PROVE BrIInv'
  OBVIOUS
<1>1. CASE BrFails("remove", "InternalError")
  BY <1>1, FailKeeps DEF BrReplies
<1>2. CASE bucket' = [bucket EXCEPT !.present = FALSE] /\ br' = BrReply(br, "deleted")
  <2>1. br' \in BrRecord /\ br'.pc = "done"
    BY <1>2, ReplyEnds DEF BrIInv, BrReplies
  <2>2. /\ bucket' \in BucketRecord /\ bucket'.uploads = bucket.uploads
        /\ bucket'.lost = bucket.lost /\ bucket'.partIndexes = bucket.partIndexes
        /\ bucket'.indexes = bucket.indexes /\ bucket'.put = bucket.put
        /\ bucket'.objects = bucket.objects
    BY <1>2 DEF BucketRecord, BrIInv
  <2> QED
    BY <2>1, <2>2
    DEF BrIInv, Emptying, UploadsAreFound, AllAreFound, PartsAreGone, IndexesAreGone, NothingIsLeft, RemoveBucket
<1> QED
  BY <1>1, <1>2 DEF RemoveBucket

\* The client sends the request again, or leaves.
LEMMA ClientInv == BrIInv /\ (Retry \/ BrClientLeaves) => BrIInv'
<1> SUFFICES ASSUME BrIInv, Retry \/ BrClientLeaves PROVE BrIInv'
  OBVIOUS
<1>1. CASE Retry
  <2>1. br' \in BrRecord /\ br'.pc = "load" /\ br'.lastKey = 0 /\ UNCHANGED bucket
    BY <1>1 DEF Retry, NewRemoval, BrRecord, BrReplies, BrIInv
  <2> QED
    BY <2>1, RemovalEndKeeps
<1>2. CASE BrClientLeaves
  <2>1. /\ br' \in BrRecord /\ br'.pc = br.pc /\ br'.lastKey = br.lastKey
        /\ br'.found = br.found /\ br'.at = br.at /\ UNCHANGED bucket
    <3>1. PICK n \in Nat : n = br.failures + 1
      BY DEF BrRecord, BrIInv
    <3>2. br' = [br EXCEPT !.connected = FALSE, !.failures = n] /\ UNCHANGED bucket
      BY <1>2, <3>1 DEF BrClientLeaves
    <3> QED
      BY <3>2 DEF BrRecord, BrIInv
  <2> QED
    BY <2>1
    DEF BrIInv, Emptying, UploadsAreFound, AllAreFound, PartsAreGone, IndexesAreGone, NothingIsLeft
<1> QED
  BY <1>1, <1>2

\* Another client stores an object while the bucket is not being emptied.
LEMMA PutMeanwhileInv ==
    ASSUME "race" \notin BrFault, BrIInv, PutMeanwhile PROVE BrIInv'
<1>1. /\ br.pc \in {"load", "first", "done"} /\ bucket.present
      /\ br' = [br EXCEPT !.failures = @ + 1]
      /\ bucket' = [bucket EXCEPT !.objects = TRUE, !.put = TRUE]
  BY DEF PutMeanwhile, BrMay
<1>2. br' \in BrRecord /\ br'.pc = br.pc /\ br'.lastKey = br.lastKey
  BY <1>1 DEF BrRecord, BrIInv
<1>3. /\ bucket' \in BucketRecord /\ bucket'.uploads = bucket.uploads
      /\ bucket'.lost = bucket.lost /\ bucket'.partIndexes = bucket.partIndexes
      /\ bucket'.indexes = bucket.indexes /\ bucket'.objects
      /\ bucket'.present = bucket.present
  BY <1>1 DEF BucketRecord, BrIInv
<1> QED
  BY <1>1, <1>2, <1>3
  DEF BrIInv, Emptying, UploadsAreFound, AllAreFound, PartsAreGone, IndexesAreGone, NothingIsLeft

-----------------------------------------------------------------------------
(* Attempts to remove a bucket keep its objects and leave nothing behind,  *)
(* for every bucket, page size, and any failures and retries; nothing is   *)
(* said of an object that is stored after the bucket was found empty.      *)
THEOREM RemovalIsSafeAlways ==
    ASSUME "race" \notin BrFault
    PROVE  BrSpec => []RemovalIsSafe
<1>1. BrIInv /\ [BrNext]_brVars => BrIInv'
  <2> SUFFICES ASSUME BrIInv, [BrNext]_brVars PROVE BrIInv'
    OBVIOUS
  <2>1. CASE BrStep
    BY <2>1, LoadBucketInv, FirstObjectInv, FetchUploadsInv, RemovePartIndexesInv,
       RemoveIndexInv, RemoveBucketInv DEF BrStep
  <2>2. CASE Retry \/ BrClientLeaves
    BY <2>2, ClientInv
  <2>3. CASE PutMeanwhile
    BY <2>3, PutMeanwhileInv
  <2>4. CASE UNCHANGED brVars
    BY <2>4
    DEF BrIInv, Emptying, UploadsAreFound, AllAreFound, PartsAreGone, IndexesAreGone, NothingIsLeft, brVars
  <2> QED
    BY <2>1, <2>2, <2>3, <2>4 DEF BrNext
<1>2. BrIInv => RemovalIsSafe
  BY DEF BrIInv, RemovalIsSafe, ObjectsAreKept
<1> QED
  BY BrInitInv, <1>1, <1>2, PTL DEF BrSpec
===============================================================================
