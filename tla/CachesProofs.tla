------------------------------ MODULE CachesProofs ------------------------------
(***************************************************************************)
(* What the in-process caches promise, proved for any keys, values and      *)
(* capacity: the LFU cache's lists and its victims, what a Get of the       *)
(* MemoryCache may answer, that LRUCache is a bounded cache, and that the   *)
(* ring of pointers of ThreadSafeLRUCache implements it.                   *)
(***************************************************************************)
EXTENDS MCCaches, SequenceTheorems, FiniteSetTheorems, WellFoundedInduction, TLAPS

-------------------------------------------------------------------------------
(***************************************************************************)
(* Lists of keys without repetition.                                       *)
(***************************************************************************)
Distinct(s) == \A i, j \in 1..Len(s) : s[i] = s[j] => i = j
Held(s) == {s[i] : i \in 1..Len(s)}

\* a stands before b in s.
Before(s, a, b) == \E i, j \in 1..Len(s) : i < j /\ s[i] = a /\ s[j] = b

\* The list without the element at p.
LEMMA Removed ==
    ASSUME NEW S, NEW s \in Seq(S), Distinct(s), NEW p \in 1..Len(s)
    PROVE  LET t == SubSeq(s, 1, p - 1) \o SubSeq(s, p + 1, Len(s))
           IN  /\ t \in Seq(S) /\ Distinct(t) /\ Held(t) = Held(s) \ {s[p]}
               /\ \A a, b \in S : Before(t, a, b) <=> Before(s, a, b) /\ a # s[p] /\ b # s[p]
<1> DEFINE u == SubSeq(s, 1, p - 1)
           v == SubSeq(s, p + 1, Len(s))
           t == u \o v
<1>1. Len(s) \in Nat /\ \A i \in 1..Len(s) : s[i] \in S
  BY LenProperties, ElementOfSeq
<1>2. u \in Seq(S) /\ Len(u) = p - 1 /\ \A i \in 1..(p - 1) : u[i] = s[i]
  BY <1>1, SubSeqProperties
<1>3. v \in Seq(S) /\ Len(v) = Len(s) - p /\ \A i \in 1..(Len(s) - p) : v[i] = s[p + i]
  BY <1>1, SubSeqProperties
<1> HIDE DEF u, v
<1>4. /\ t \in Seq(S) /\ Len(t) = Len(u) + Len(v)
      /\ \A i \in 1..Len(u) + Len(v) : t[i] = IF i <= Len(u) THEN u[i] ELSE v[i - Len(u)]
  BY <1>2, <1>3, ConcatProperties
<1> HIDE DEF t
<1>5. /\ Len(t) = Len(s) - 1
      /\ \A i \in 1..Len(t) : i < p => t[i] = s[i]
      /\ \A i \in 1..Len(t) : i >= p => t[i] = s[i + 1]
  BY <1>1, <1>2, <1>3, <1>4
\* The place in s of the i-th element of t, and back.
<1> DEFINE from(i) == IF i < p THEN i ELSE i + 1
           to(i) == IF i < p THEN i ELSE i - 1
<1>6. \A i \in 1..Len(t) : from(i) \in 1..Len(s) /\ from(i) # p /\ t[i] = s[from(i)]
  BY <1>1, <1>5
<1>7. \A i \in 1..Len(s) : i # p => to(i) \in 1..Len(t) /\ s[i] = t[to(i)]
  BY <1>1, <1>5
<1>8. \A i, j \in 1..Len(t) : (i < j <=> from(i) < from(j)) /\ (i = j <=> from(i) = from(j))
  BY <1>1, <1>5
<1>9. \A i, j \in 1..Len(s) : i # p /\ j # p /\ i < j => to(i) < to(j)
  BY <1>1
<1> HIDE DEF from, to
<1>10. Distinct(t)
  BY <1>6, <1>8 DEF Distinct
<1>11. Held(t) = Held(s) \ {s[p]}
  <2>1. ASSUME NEW i \in 1..Len(t) PROVE t[i] \in Held(s) \ {s[p]}
    BY <1>6 DEF Held, Distinct
  <2>2. ASSUME NEW i \in 1..Len(s), s[i] # s[p] PROVE s[i] \in Held(t)
    BY <1>7, <2>2 DEF Held
  <2> QED
    BY <2>1, <2>2 DEF Held
<1>12. ASSUME NEW a \in S, NEW b \in S, Before(t, a, b)
       PROVE  Before(s, a, b) /\ a # s[p] /\ b # s[p]
  <2>1. PICK i \in 1..Len(t), j \in 1..Len(t) : i < j /\ t[i] = a /\ t[j] = b
    BY <1>12 DEF Before
  <2>2. /\ from(i) \in 1..Len(s) /\ from(j) \in 1..Len(s) /\ from(i) # p /\ from(j) # p
        /\ a = s[from(i)] /\ b = s[from(j)] /\ from(i) < from(j)
    BY <1>6, <1>8, <2>1
  <2> QED
    BY <2>2 DEF Before, Distinct
<1>13. ASSUME NEW a \in S, NEW b \in S, Before(s, a, b), a # s[p], b # s[p]
       PROVE  Before(t, a, b)
  <2>1. PICK i \in 1..Len(s), j \in 1..Len(s) : i < j /\ s[i] = a /\ s[j] = b
    BY <1>13 DEF Before
  <2> QED
    BY <1>7, <1>9, <1>13, <2>1 DEF Before
<1> QED
  BY <1>4, <1>10, <1>11, <1>12, <1>13 DEF t, u, v

\* Unlink removes one key, wherever it stands.
LEMMA Unlinked ==
    ASSUME NEW S, NEW s \in Seq(S), Distinct(s), NEW k \in Held(s)
    PROVE  LET t == LFU!Unlink(s, k)
           IN  /\ t \in Seq(S) /\ Distinct(t) /\ Held(t) = Held(s) \ {k}
               /\ \A a, b \in S : Before(t, a, b) <=> Before(s, a, b) /\ a # k /\ b # k
<1> DEFINE p == CHOOSE i \in DOMAIN s : s[i] = k
<1>1. p \in 1..Len(s) /\ s[p] = k
  BY LenProperties DEF Held
<1>2. LFU!Unlink(s, k) = SubSeq(s, 1, p - 1) \o SubSeq(s, p + 1, Len(s))
  BY DEF LFU!Unlink
<1> HIDE DEF p
<1> QED
  BY <1>1, <1>2, Removed

\* The back of a list goes.
LEMMA BackRemoved ==
    ASSUME NEW S, NEW s \in Seq(S), Distinct(s), s # <<>>
    PROVE  LET t == SubSeq(s, 1, Len(s) - 1)
               k == s[Len(s)]
           IN  /\ k \in Held(s) /\ \A a \in Held(s) : a = k \/ Before(s, a, k)
               /\ t \in Seq(S) /\ Distinct(t) /\ Held(t) = Held(s) \ {k}
               /\ \A a, b \in S : Before(t, a, b) <=> Before(s, a, b) /\ a # k /\ b # k
<1>1. Len(s) \in Nat /\ Len(s) > 0
  BY LenProperties, EmptySeq
<1>2. Len(s) \in 1..Len(s)
  BY <1>1
<1>3. SubSeq(s, 1, Len(s) - 1) = SubSeq(s, 1, Len(s) - 1) \o SubSeq(s, Len(s) + 1, Len(s))
  <2>1. SubSeq(s, Len(s) + 1, Len(s)) = <<>>
    BY <1>1, SubSeqEmpty
  <2>2. \A i \in 1..(Len(s) - 1) : s[i] \in S
    BY <1>1, ElementOfSeq
  <2>3. SubSeq(s, 1, Len(s) - 1) \in Seq(S)
    BY <1>1, <2>2, SubSeqProperties
  <2> QED
    BY <2>1, <2>3, ConcatEmptySeq
<1>4. s[Len(s)] \in Held(s) /\ \A a \in Held(s) : a = s[Len(s)] \/ Before(s, a, s[Len(s)])
  BY <1>1, <1>2 DEF Held, Before
<1> DEFINE t == SubSeq(s, 1, Len(s) - 1)
<1>5. t = SubSeq(s, 1, Len(s) - 1) \o SubSeq(s, Len(s) + 1, Len(s))
  BY <1>3
<1> HIDE DEF t
<1>6. /\ t \in Seq(S) /\ Distinct(t) /\ Held(t) = Held(s) \ {s[Len(s)]}
      /\ \A a, b \in S : Before(t, a, b) <=> Before(s, a, b) /\ a # s[Len(s)] /\ b # s[Len(s)]
  BY <1>2, <1>5, Removed
<1> QED
  BY <1>4, <1>6 DEF t

\* A key that is not in the list goes to its front.
LEMMA Pushed ==
    ASSUME NEW S, NEW s \in Seq(S), Distinct(s), NEW k \in S, k \notin Held(s)
    PROVE  LET t == LFU!PushFront(s, k)
           IN  /\ t \in Seq(S) /\ t # <<>> /\ Distinct(t) /\ Held(t) = Held(s) \cup {k}
               /\ \A a, b \in S : Before(t, a, b) <=> Before(s, a, b) \/ (a = k /\ b \in Held(s))
<1> DEFINE t == <<k>> \o s
<1>1. Len(s) \in Nat /\ \A i \in 1..Len(s) : s[i] \in S
  BY LenProperties, ElementOfSeq
<1>2. <<k>> \in Seq(S) /\ Len(<<k>>) = 1 /\ <<k>>[1] = k
  OBVIOUS
<1>3. t \in Seq(S) /\ Len(t) = Len(<<k>>) + Len(s)
      /\ \A i \in 1..Len(<<k>>) + Len(s) :
            t[i] = IF i <= Len(<<k>>) THEN <<k>>[i] ELSE s[i - Len(<<k>>)]
  BY <1>2, ConcatProperties
<1>4. t = LFU!PushFront(s, k)
  BY DEF LFU!PushFront
<1> HIDE DEF t
<1>5. /\ Len(t) = Len(s) + 1 /\ t[1] = k
      /\ \A i \in 1..Len(t) : i # 1 => i - 1 \in 1..Len(s) /\ t[i] = s[i - 1]
      /\ \A i \in 1..Len(s) : i + 1 \in 1..Len(t) /\ t[i + 1] = s[i]
  BY <1>1, <1>2, <1>3
<1>6. t # <<>> /\ 1 \in 1..Len(t)
  BY <1>1, <1>5
<1>7. Distinct(t)
  <2>1. \A i \in 1..Len(t) : i # 1 => t[i] \in Held(s) /\ t[i] # k
    BY <1>5 DEF Held
  <2>2. ASSUME NEW i \in 1..Len(t), NEW j \in 1..Len(t), t[i] = t[j], i # 1, j # 1 PROVE i = j
    <3>1. i - 1 = j - 1
      BY <1>5, <2>2 DEF Distinct
    <3> QED
      BY <1>1, <1>5, <3>1
  <2> QED
    BY <1>5, <2>1, <2>2 DEF Distinct
<1>8. Held(t) = Held(s) \cup {k}
  <2>1. \A i \in 1..Len(t) : t[i] \in Held(s) \cup {k}
    BY <1>5 DEF Held
  <2>2. \A i \in 1..Len(s) : s[i] \in Held(t)
    BY <1>5 DEF Held
  <2>3. k \in Held(t)
    BY <1>5, <1>6 DEF Held
  <2> QED
    BY <2>1, <2>2, <2>3 DEF Held
<1>9. ASSUME NEW a \in S, NEW b \in S, Before(t, a, b)
      PROVE  Before(s, a, b) \/ (a = k /\ b \in Held(s))
  <2>1. PICK i \in 1..Len(t), j \in 1..Len(t) : i < j /\ t[i] = a /\ t[j] = b
    BY <1>9 DEF Before
  <2>2. j # 1 /\ j - 1 \in 1..Len(s) /\ b = s[j - 1]
    BY <1>5, <2>1
  <2>3. CASE i = 1
    BY <1>5, <2>1, <2>2, <2>3 DEF Held
  <2>4. CASE i # 1
    <3>1. i - 1 \in 1..Len(s) /\ a = s[i - 1] /\ i - 1 < j - 1
      BY <1>5, <2>1, <2>4
    <3> QED
      BY <2>2, <3>1 DEF Before
  <2> QED
    BY <2>3, <2>4
<1>10. ASSUME NEW a \in S, NEW b \in S, Before(s, a, b) PROVE Before(t, a, b)
  <2>1. PICK i \in 1..Len(s), j \in 1..Len(s) : i < j /\ s[i] = a /\ s[j] = b
    BY <1>10 DEF Before
  <2>2. i + 1 < j + 1
    BY <2>1
  <2> QED
    BY <1>5, <2>1, <2>2 DEF Before
<1>11. ASSUME NEW b \in Held(s) PROVE Before(t, k, b)
  <2>1. PICK j \in 1..Len(s) : s[j] = b
    BY DEF Held
  <2>2. 1 < j + 1
    BY <2>1
  <2> QED
    BY <1>5, <1>6, <2>1, <2>2 DEF Before
<1> QED
  BY <1>3, <1>4, <1>6, <1>7, <1>8, <1>9, <1>10, <1>11

\* Only the empty list holds nothing.
LEMMA Emptiness ==
    ASSUME NEW S, NEW s \in Seq(S)
    PROVE  /\ (s = <<>>) <=> (Held(s) = {})
           /\ LFU!Range(s) = Held(s) /\ (LFU!IsInjective(s) <=> Distinct(s))
<1>1. Len(s) \in Nat /\ DOMAIN s = 1..Len(s) /\ (s # <<>> => Len(s) \in Nat \ {0})
  BY LenProperties, EmptySeq
<1>2. s = <<>> => Held(s) = {}
  BY DEF Held
<1>3. s # <<>> => s[1] \in Held(s)
  BY <1>1 DEF Held
<1> QED
  BY <1>1, <1>2, <1>3 DEF LFU!Range, LFU!IsInjective, Held, Distinct

-------------------------------------------------------------------------------
(***************************************************************************)
(* LFUCache.  The frequency lists hold the keys of the map, each in the     *)
(* list of its frequency, in the order in which the keys were last used;    *)
(* minFreq is the least frequency of a key.                                 *)
(***************************************************************************)
OfFreq(f) == {k \in DOMAIN lfu : lfu[k].freq = f}

LFULists ==
    /\ \A f \in LFU!Freqs : Distinct(freqToList[f]) /\ Held(freqToList[f]) = OfFreq(f)
    /\ Distinct(recency) /\ Held(recency) = DOMAIN lfu

LFUOrder == \A f \in LFU!Freqs : \A a, b \in Keys :
               Before(freqToList[f], a, b) => Before(recency, a, b)

LFUMin == DOMAIN lfu # {} => /\ OfFreq(minFreq) # {}
                             /\ \A k \in DOMAIN lfu : minFreq <= lfu[k].freq

LFUInv == LFU!TypeOK /\ LFULists /\ LFUOrder /\ LFUMin /\ LFU!WithinCapacity

\* In such a state the lists agree with the map and minFreq with the lists.
LEMMA ListsOfInv == LFUInv => ListsAgree
<1> SUFFICES ASSUME LFUInv PROVE ListsAgree
  OBVIOUS
<1>1. /\ \A k \in DOMAIN lfu : lfu[k].freq \in LFU!Freqs
      /\ \A f \in LFU!Freqs : freqToList[f] \in Seq(Keys)
  BY DEF LFUInv, LFU!TypeOK
<1>2. ASSUME NEW f \in LFU!Freqs
      PROVE  /\ LFU!Range(freqToList[f]) = OfFreq(f) /\ LFU!IsInjective(freqToList[f])
             /\ (freqToList[f] = <<>>) <=> (OfFreq(f) = {})
  <2>1. freqToList[f] \in Seq(Keys) /\ Distinct(freqToList[f]) /\ Held(freqToList[f]) = OfFreq(f)
    BY <1>1 DEF LFUInv, LFULists
  <2> QED
    BY <2>1, Emptiness
<1>3. LFU!IndexAgrees
  BY <1>1, <1>2 DEF LFU!IndexAgrees, OfFreq
<1>4. LFU!MinFreqIsMin
  <2> SUFFICES ASSUME DOMAIN lfu # {}
               PROVE  /\ minFreq \in LFU!Freqs /\ freqToList[minFreq] # <<>>
                      /\ \A f \in LFU!Freqs : f < minFreq => freqToList[f] = <<>>
    BY DEF LFU!MinFreqIsMin
  <2>1. OfFreq(minFreq) # {} /\ \A k \in DOMAIN lfu : minFreq <= lfu[k].freq
    BY DEF LFUInv, LFUMin
  <2>2. minFreq \in LFU!Freqs
    BY <1>1, <2>1 DEF OfFreq
  <2>3. \A f \in LFU!Freqs : f < minFreq => OfFreq(f) = {}
    BY <2>1, <2>2 DEF OfFreq, LFU!Freqs
  <2> QED
    BY <1>2, <2>1, <2>2, <2>3
<1> QED
  BY <1>3, <1>4 DEF ListsAgree

\* The key of the next victim, and why no key is a better one.
LEMMA VictimIsLeast ==
    ASSUME LFUInv, NEW e \in LFU!evict
    PROVE  /\ LFU!evict = {e} /\ minFreq \in LFU!Freqs /\ e \in OfFreq(minFreq)
           /\ freqToList[minFreq] # <<>> /\ e = freqToList[minFreq][Len(freqToList[minFreq])]
           /\ \A j \in DOMAIN lfu :
                 ~(lfu[e].freq < lfu[j].freq) =>
                    lfu[e].freq = lfu[j].freq /\ LFU!NoLaterThan(e, j)
<1>1. /\ minFreq \in LFU!Freqs /\ freqToList[minFreq] # <<>> /\ LFU!evict = {e}
      /\ e = freqToList[minFreq][Len(freqToList[minFreq])]
  BY DEF LFU!evict, LFU!Back
<1>2. /\ freqToList[minFreq] \in Seq(Keys) /\ Distinct(freqToList[minFreq])
      /\ Held(freqToList[minFreq]) = OfFreq(minFreq)
  BY <1>1 DEF LFUInv, LFULists, LFU!TypeOK
<1>3. e \in OfFreq(minFreq) /\ \A a \in OfFreq(minFreq) : (a = e \/ Before(freqToList[minFreq], a, e))
  BY <1>1, <1>2, BackRemoved
<1>4. /\ \A k \in DOMAIN lfu : k \in Keys /\ lfu[k].freq \in LFU!Freqs
      /\ recency \in Seq(Keys) /\ Held(recency) = DOMAIN lfu /\ DOMAIN recency = 1..Len(recency)
      /\ Len(recency) \in Nat
  BY LenProperties DEF LFUInv, LFULists, LFU!TypeOK
<1>5. ASSUME NEW j \in DOMAIN lfu, ~(lfu[e].freq < lfu[j].freq)
      PROVE  lfu[e].freq = lfu[j].freq /\ LFU!NoLaterThan(e, j)
  <2>1. e \in DOMAIN lfu /\ lfu[e].freq = minFreq
    BY <1>3 DEF OfFreq
  <2>2. minFreq <= lfu[j].freq
    BY DEF LFUInv, LFUMin
  <2>3. lfu[j].freq = minFreq
    BY <1>1, <1>4, <1>5, <2>1, <2>2 DEF LFU!Freqs
  <2>4. CASE j = e
    <3>1. PICK i \in 1..Len(recency) : recency[i] = e
      BY <1>4, <2>1 DEF Held
    <3> QED
      BY <1>4, <2>1, <2>4, <3>1 DEF LFU!NoLaterThan
  <2>5. CASE j # e
    <3>1. Before(freqToList[minFreq], j, e)
      BY <1>3, <2>3, <2>5 DEF OfFreq
    <3>2. Before(recency, j, e)
      BY <1>1, <1>4, <2>1, <3>1 DEF LFUInv, LFUOrder
    <3>3. PICK i \in 1..Len(recency), l \in 1..Len(recency) :
             i < l /\ recency[i] = j /\ recency[l] = e
      BY <3>2 DEF Before
    <3> QED
      BY <1>4, <2>1, <2>3, <3>3 DEF LFU!NoLaterThan
  <2> QED
    BY <2>4, <2>5
<1> QED
  BY <1>1, <1>3, <1>4, <1>5 DEF OfFreq

\* What stands in a list is held by it.
LEMMA BeforeHeld ==
    ASSUME NEW s, NEW a, NEW b, Before(s, a, b)
    PROVE  a \in Held(s) /\ b \in Held(s)
BY DEF Before, Held

\* A use of k, by Get or by Set of a key that is present.
LEMMA Used ==
    ASSUME LFUInv, NEW k \in DOMAIN lfu, LFU!incrementFrequency(k),
           recency' = LFU!PushFront(LFU!Unlink(recency, k), k),
           DOMAIN lfu' = DOMAIN lfu, \A j \in DOMAIN lfu : j # k => lfu'[j] = lfu[j],
           lfu'[k] \in [value : Values, freq : LFU!Freqs], lfu'[k].freq = lfu[k].freq + 1
    PROVE  LFUInv'
<1>0. /\ LFU!TypeOK /\ LFULists /\ LFUOrder /\ LFUMin /\ MaxFreq \in Nat
      /\ k \in Keys /\ DOMAIN lfu \subseteq Keys
  BY CachesConstants DEF LFUInv, LFU!TypeOK, LFU!LFUConstants
<1>1. PICK f : f = lfu[k].freq
  OBVIOUS
<1>2. f \in LFU!Freqs /\ f + 1 \in LFU!Freqs /\ f # f + 1
  <2>1. f \in LFU!Freqs
    BY <1>0, <1>1 DEF LFU!TypeOK
  <2>2. f + 1 \in LFU!Freqs
    BY <1>1 DEF LFU!incrementFrequency
  <2> QED
    BY <2>1, <2>2 DEF LFU!Freqs
<1>3. PICK cur : cur = LFU!Unlink(freqToList[f], k)
  OBVIOUS
<1>4. PICK top : top = LFU!PushFront(freqToList[f + 1], k)
  OBVIOUS
<1>5. /\ freqToList' = [freqToList EXCEPT ![f] = cur, ![f + 1] = LFU!PushFront(@, k)]
      /\ minFreq' = IF cur = <<>> /\ f = minFreq THEN minFreq + 1 ELSE minFreq
  BY <1>1, <1>3 DEF LFU!incrementFrequency
<1>6. /\ freqToList \in [LFU!Freqs -> Seq(Keys)] /\ freqToList[f] \in Seq(Keys)
      /\ freqToList[f + 1] \in Seq(Keys) /\ recency \in Seq(Keys)
  BY <1>0, <1>2 DEF LFU!TypeOK
<1>7. /\ Held(freqToList[f]) = OfFreq(f) /\ Distinct(freqToList[f])
      /\ Held(freqToList[f + 1]) = OfFreq(f + 1) /\ Distinct(freqToList[f + 1])
      /\ Held(recency) = DOMAIN lfu /\ Distinct(recency)
      /\ k \in OfFreq(f) /\ k \notin OfFreq(f + 1)
  BY <1>0, <1>1, <1>2 DEF LFULists, OfFreq
<1>8. /\ cur \in Seq(Keys) /\ Distinct(cur) /\ Held(cur) = OfFreq(f) \ {k}
      /\ \A a, b \in Keys : Before(cur, a, b) <=> Before(freqToList[f], a, b) /\ a # k /\ b # k
  BY <1>3, <1>6, <1>7, Unlinked
<1>9. /\ top \in Seq(Keys) /\ Distinct(top) /\ Held(top) = OfFreq(f + 1) \cup {k}
      /\ \A a, b \in Keys :
            Before(top, a, b) <=> Before(freqToList[f + 1], a, b) \/ (a = k /\ b \in OfFreq(f + 1))
  BY <1>0, <1>4, <1>6, <1>7, Pushed
<1>10. /\ recency' \in Seq(Keys) /\ Distinct(recency') /\ Held(recency') = DOMAIN lfu
       /\ \A a, b \in Keys :
             Before(recency', a, b) <=>
                   (Before(recency, a, b) /\ a # k /\ b # k) \/ (a = k /\ b \in DOMAIN lfu \ {k})
  <2>1. PICK rest : rest = LFU!Unlink(recency, k)
    OBVIOUS
  <2>2. /\ rest \in Seq(Keys) /\ Distinct(rest) /\ Held(rest) = DOMAIN lfu \ {k}
        /\ \A a, b \in Keys : Before(rest, a, b) <=> Before(recency, a, b) /\ a # k /\ b # k
    BY <1>6, <1>7, <2>1, Unlinked
  <2>3. recency' = LFU!PushFront(rest, k)
    BY <2>1
  <2>4. /\ recency' \in Seq(Keys) /\ Distinct(recency') /\ Held(recency') = Held(rest) \cup {k}
        /\ \A a, b \in Keys :
              Before(recency', a, b) <=> Before(rest, a, b) \/ (a = k /\ b \in Held(rest))
    BY <1>0, <2>2, <2>3, Pushed
  <2>5. ASSUME NEW a \in Keys, NEW b \in Keys
        PROVE  Before(recency', a, b) <=>
              (Before(recency, a, b) /\ a # k /\ b # k) \/ (a = k /\ b \in DOMAIN lfu \ {k})
    <3>1. Before(rest, a, b) <=> Before(recency, a, b) /\ a # k /\ b # k
      BY <2>2
    <3>2. Before(recency', a, b) <=> Before(rest, a, b) \/ (a = k /\ b \in Held(rest))
      BY <2>4
    <3> QED
      BY <2>2, <3>1, <3>2
  <2>6. Held(recency') = DOMAIN lfu
    BY <2>2, <2>4
  <2> QED
    BY <2>4, <2>5, <2>6
<1>11. /\ freqToList' \in [LFU!Freqs -> Seq(Keys)]
       /\ freqToList'[f] = cur /\ freqToList'[f + 1] = top
       /\ \A g \in LFU!Freqs : g # f /\ g # f + 1 => freqToList'[g] = freqToList[g]
  BY <1>2, <1>4, <1>5, <1>6, <1>8, <1>9
<1>12. \A g : OfFreq(g)' = IF g = f THEN OfFreq(f) \ {k}
                           ELSE IF g = f + 1 THEN OfFreq(f + 1) \cup {k} ELSE OfFreq(g)
  BY <1>1, <1>2 DEF OfFreq, LFU!Freqs
<1>13. LFULists'
  <2>1. ASSUME NEW g \in LFU!Freqs
        PROVE  Distinct(freqToList'[g]) /\ Held(freqToList'[g]) = OfFreq(g)'
    <3>1. CASE g = f
      BY <1>8, <1>11, <1>12, <3>1
    <3>2. CASE g = f + 1
      BY <1>2, <1>9, <1>11, <1>12, <3>2
    <3>3. CASE g # f /\ g # f + 1
      BY <1>0, <1>11, <1>12, <3>3 DEF LFULists
    <3> QED
      BY <3>1, <3>2, <3>3
  <2> QED
    BY <1>10, <2>1 DEF LFULists
<1>14. LFUOrder'
  <2> SUFFICES ASSUME NEW g \in LFU!Freqs, NEW a \in Keys, NEW b \in Keys,
                      Before(freqToList'[g], a, b)
               PROVE  Before(recency', a, b)
    BY DEF LFUOrder
  <2>1. Before(freqToList[g], a, b) => Before(recency, a, b) /\ a \in OfFreq(g) /\ b \in OfFreq(g)
    BY <1>0, BeforeHeld DEF LFUOrder, LFULists
  <2>0. Before(recency', a, b) <=>
        (Before(recency, a, b) /\ a # k /\ b # k) \/ (a = k /\ b \in DOMAIN lfu \ {k})
    BY <1>10
  <2>2. CASE g = f
    <3>1. Before(cur, a, b)
      BY <1>11, <2>2
    <3>2. Before(freqToList[f], a, b) /\ a # k /\ b # k
      BY <1>8, <3>1
    <3> QED
      BY <2>0, <2>1, <2>2, <3>2
  <2>3. CASE g = f + 1
    <3>1. Before(freqToList[f + 1], a, b) \/ (a = k /\ b \in OfFreq(f + 1))
      BY <1>9, <1>11, <2>3
    <3>2. b \in OfFreq(f + 1) => b \in DOMAIN lfu \ {k}
      BY <1>7 DEF OfFreq
    <3> QED
      BY <1>7, <2>0, <2>1, <2>3, <3>1, <3>2
  <2>4. CASE g # f /\ g # f + 1
    <3>1. k \notin OfFreq(g)
      BY <1>1, <2>4 DEF OfFreq
    <3>2. Before(freqToList[g], a, b)
      BY <1>11, <2>4
    <3> QED
      BY <2>0, <2>1, <3>1, <3>2
  <2> QED
    BY <2>2, <2>3, <2>4
<1>15. LFUMin' /\ minFreq' \in 0..MaxFreq
  <2>1. /\ OfFreq(minFreq) # {} /\ minFreq \in LFU!Freqs
        /\ \A j \in DOMAIN lfu : minFreq <= lfu[j].freq /\ lfu[j].freq \in LFU!Freqs
    BY <1>0 DEF LFUMin, LFU!TypeOK, OfFreq
  <2>2. (cur = <<>>) <=> (OfFreq(f) \ {k} = {})
    BY <1>8, Emptiness
  <2>3. CASE cur = <<>> /\ f = minFreq
    <3>1. minFreq' = f + 1 /\ k \in OfFreq(f + 1)'
      BY <1>2, <1>5, <1>12, <2>3
    <3>2. ASSUME NEW j \in DOMAIN lfu PROVE f + 1 <= lfu'[j].freq
      <4>1. CASE j = k
        BY <1>1, <1>2, <4>1 DEF LFU!Freqs
      <4>2. CASE j # k
        <5>1. lfu[j].freq # f
          BY <2>2, <2>3, <4>2 DEF OfFreq
        <5> QED
          BY <2>1, <2>3, <4>2, <5>1 DEF LFU!Freqs
      <4> QED
        BY <4>1, <4>2
    <3>3. minFreq' \in 0..MaxFreq
      BY <1>0, <1>2, <3>1 DEF LFU!Freqs
    <3>4. OfFreq(minFreq)' # {}
      BY <3>1 DEF OfFreq
    <3> QED
      BY <3>1, <3>2, <3>3, <3>4 DEF LFUMin
  <2>4. CASE ~(cur = <<>> /\ f = minFreq)
    <3>1. minFreq' = minFreq
      BY <1>5, <2>4
    <3>2. OfFreq(minFreq)' # {}
      <4>1. minFreq # f + 1
        BY <1>1, <1>2, <2>1 DEF LFU!Freqs
      <4>2. \A j \in DOMAIN lfu : lfu[j].freq = minFreq /\ j # k => j \in OfFreq(minFreq)'
        BY <3>1 DEF OfFreq
      <4>3. \E j \in DOMAIN lfu : lfu[j].freq = minFreq /\ j # k
        BY <1>1, <2>1, <2>2, <2>4 DEF OfFreq
      <4> QED
        BY <4>2, <4>3
    <3>3. \A j \in DOMAIN lfu : minFreq <= lfu'[j].freq
      BY <1>1, <1>2, <2>1 DEF LFU!Freqs
    <3> QED
      BY <1>0, <2>1, <3>1, <3>2, <3>3 DEF LFUMin, LFU!Freqs
  <2> QED
    BY <2>3, <2>4
<1>16. LFU!TypeOK' /\ LFU!WithinCapacity'
  BY <1>0, <1>10, <1>11, <1>15 DEF LFUInv, LFU!TypeOK, LFU!WithinCapacity
<1> QED
  BY <1>13, <1>14, <1>15, <1>16 DEF LFUInv

\* The cardinality of the instance is that of the library, which its theorems are about.
LEMMA SameCardinality ==
    /\ \A S : LFU!Cardinality(S) = Cardinality(S)
    /\ \A S : LFU!IsFiniteSet(S) <=> IsFiniteSet(S)
<1>1. \A S : LFU!Cardinality(S) = Cardinality(S)
  BY DEF LFU!Cardinality, Cardinality
<1>2. \A S : LFU!IsFiniteSet(S) <=> IsFiniteSet(S)
  BY DEF LFU!IsFiniteSet, IsFiniteSet
<1> QED
  BY <1>1, <1>2

\* evict finds a victim, one, exactly when the cache is full.
LEMMA EvictsWhenFull ==
    ASSUME LFUInv
    PROVE  /\ IsFiniteSet(DOMAIN lfu) /\ Cardinality(DOMAIN lfu) \in Nat
           /\ LFU!capacity \in Nat /\ Cardinality(DOMAIN lfu) <= LFU!capacity
           /\ \/ LFU!evict = {} /\ Cardinality(DOMAIN lfu) < LFU!capacity
              \/ /\ Cardinality(DOMAIN lfu) = LFU!capacity
                 /\ \E e \in DOMAIN lfu : LFU!evict = {e}
<1>1. IsFiniteSet(DOMAIN lfu) /\ Cardinality(DOMAIN lfu) \in Nat
  <2>1. IsFiniteSet(Keys) /\ DOMAIN lfu \in SUBSET Keys
    BY CachesConstants, SameCardinality DEF LFUInv, LFU!TypeOK, LFU!LFUConstants
  <2> QED
    BY <2>1, FS_Subset, FS_CardinalityType
<1>2. LFU!capacity \in Nat \ {0}
  BY CachesConstants DEF LFU!capacity, LFU!LFUConstants
<1>3. Cardinality(DOMAIN lfu) <= LFU!capacity
  BY SameCardinality DEF LFUInv, LFU!WithinCapacity
<1>4. CASE Cardinality(DOMAIN lfu) < LFU!capacity
  BY <1>1, <1>2, <1>3, <1>4, SameCardinality DEF LFU!evict
<1>5. CASE Cardinality(DOMAIN lfu) = LFU!capacity
  <2>1. DOMAIN lfu # {}
    BY <1>2, <1>5, FS_EmptySet
  <2>2. minFreq \in LFU!Freqs /\ freqToList[minFreq] # <<>>
    BY <2>1, ListsOfInv DEF ListsAgree, LFU!MinFreqIsMin
  <2>3. LFU!evict = {LFU!Back(freqToList[minFreq])}
    BY <1>1, <1>2, <1>5, <2>2, SameCardinality DEF LFU!evict
  <2>4. PICK e : e = LFU!Back(freqToList[minFreq])
    OBVIOUS
  <2>5. e \in OfFreq(minFreq)
    BY <2>3, <2>4, VictimIsLeast
  <2> QED
    BY <1>1, <1>2, <1>3, <1>5, <2>3, <2>4, <2>5 DEF OfFreq
<1> QED
  BY <1>1, <1>2, <1>3, <1>4, <1>5

\* What evict leaves of a frequency list.
LEMMA RoomInList ==
    ASSUME LFUInv, NEW g \in LFU!Freqs
    PROVE  LET t == LFU!listsAfterEvict[g]
           IN  /\ t \in Seq(Keys) /\ Distinct(t) /\ Held(t) = OfFreq(g) \ LFU!evict
               /\ \A a, b \in Keys : Before(t, a, b) =>
                     Before(freqToList[g], a, b) /\ a \notin LFU!evict /\ b \notin LFU!evict
<1>1. /\ freqToList \in [LFU!Freqs -> Seq(Keys)] /\ freqToList[g] \in Seq(Keys)
      /\ Distinct(freqToList[g]) /\ Held(freqToList[g]) = OfFreq(g)
  BY DEF LFUInv, LFULists, LFU!TypeOK
<1>2. CASE LFU!evict = {}
  BY <1>1, <1>2 DEF LFU!listsAfterEvict
<1>3. CASE LFU!evict # {}
  <2>1. PICK e : e \in LFU!evict
    BY <1>3
  <2>2. /\ LFU!evict = {e} /\ minFreq \in LFU!Freqs /\ e \in OfFreq(minFreq)
        /\ freqToList[minFreq] # <<>> /\ e = freqToList[minFreq][Len(freqToList[minFreq])]
    BY <2>1, VictimIsLeast
  <2>3. CASE g # minFreq
    <3>1. LFU!listsAfterEvict[g] = freqToList[g]
      BY <1>1, <1>3, <2>3 DEF LFU!listsAfterEvict
    <3>2. e \notin OfFreq(g)
      BY <2>2, <2>3 DEF OfFreq
    <3>3. \A a, b \in Keys : Before(freqToList[g], a, b) => a # e /\ b # e
      BY <1>1, <3>2, BeforeHeld
    <3> QED
      BY <1>1, <2>2, <3>1, <3>2, <3>3
  <2>4. CASE g = minFreq
    <3>1. LFU!listsAfterEvict[g] = SubSeq(freqToList[g], 1, Len(freqToList[g]) - 1)
      BY <1>1, <1>3, <2>2, <2>4 DEF LFU!listsAfterEvict
    <3>2. PICK t : t = LFU!listsAfterEvict[g]
      OBVIOUS
    <3>3. /\ t \in Seq(Keys) /\ Distinct(t) /\ Held(t) = OfFreq(g) \ {e}
          /\ \A a, b \in Keys : Before(t, a, b) <=> Before(freqToList[g], a, b) /\ a # e /\ b # e
      BY <1>1, <2>2, <2>4, <3>1, <3>2, BackRemoved
    <3> QED
      BY <2>2, <3>2, <3>3
  <2> QED
    BY <2>3, <2>4
<1> QED
  BY <1>2, <1>3

\* And of the history of uses.
LEMMA RoomInRecency ==
    ASSUME LFUInv
    PROVE  LET t == IF LFU!evict = {} THEN recency
                    ELSE LFU!Unlink(recency, CHOOSE e \in LFU!evict : TRUE)
           IN  /\ t \in Seq(Keys) /\ Distinct(t) /\ Held(t) = DOMAIN lfu \ LFU!evict
               /\ \A a, b \in Keys :
                     Before(recency, a, b) /\ a \notin LFU!evict /\ b \notin LFU!evict => Before(t, a, b)
<1>1. recency \in Seq(Keys) /\ Distinct(recency) /\ Held(recency) = DOMAIN lfu
  BY DEF LFUInv, LFULists, LFU!TypeOK
<1>2. CASE LFU!evict = {}
  BY <1>1, <1>2
<1>3. CASE LFU!evict # {}
  <2>1. PICK e \in DOMAIN lfu : LFU!evict = {e}
    BY <1>3, EvictsWhenFull
  <2>2. PICK t : t = LFU!Unlink(recency, CHOOSE x \in LFU!evict : TRUE)
    OBVIOUS
  <2>3. t = LFU!Unlink(recency, e)
    BY <2>1, <2>2
  <2>4. /\ t \in Seq(Keys) /\ Distinct(t) /\ Held(t) = DOMAIN lfu \ {e}
        /\ \A a, b \in Keys : Before(t, a, b) <=> Before(recency, a, b) /\ a # e /\ b # e
    BY <1>1, <2>1, <2>3, Unlinked
  <2> QED
    BY <1>3, <2>1, <2>2, <2>4
<1> QED
  BY <1>2, <1>3

\* Set of a key that is not present.
LEMMA Entered ==
    ASSUME LFUInv, NEW k \in Keys, NEW v \in Values, LFU!SetAbsent(k, v)
    PROVE  LFUInv'
<1>0. /\ LFU!TypeOK /\ LFULists /\ LFUOrder /\ LFUMin /\ MaxFreq \in Nat \ {0}
      /\ DOMAIN lfu \subseteq Keys
      /\ \A j \in DOMAIN lfu : lfu[j] \in [value : Values, freq : LFU!Freqs]
  BY CachesConstants DEF LFUInv, LFU!TypeOK, LFU!LFUConstants
<1>1. PICK gone : gone = LFU!evict
  OBVIOUS
<1>2. PICK lists : lists = LFU!listsAfterEvict
  OBVIOUS
<1>3. PICK r : r = IF LFU!evict = {} THEN recency
                   ELSE LFU!Unlink(recency, CHOOSE e \in LFU!evict : TRUE)
  OBVIOUS
<1>4. /\ k \notin DOMAIN lfu /\ minFreq' = 1
      /\ lfu' = [j \in (DOMAIN lfu \ gone) \cup {k} |->
                    IF j = k THEN [value |-> v, freq |-> 1] ELSE lfu[j]]
      /\ freqToList' = [lists EXCEPT ![1] = LFU!PushFront(@, k)]
      /\ recency' = LFU!PushFront(r, k)
  BY <1>1, <1>2, <1>3 DEF LFU!SetAbsent
<1>5. 1 \in LFU!Freqs
  BY <1>0 DEF LFU!Freqs
<1>6. ASSUME NEW g \in LFU!Freqs
      PROVE  /\ lists[g] \in Seq(Keys) /\ Distinct(lists[g]) /\ Held(lists[g]) = OfFreq(g) \ gone
             /\ \A a, b \in Keys : Before(lists[g], a, b) =>
                   Before(freqToList[g], a, b) /\ a \notin gone /\ b \notin gone
  BY <1>1, <1>2, RoomInList
<1>7. /\ r \in Seq(Keys) /\ Distinct(r) /\ Held(r) = DOMAIN lfu \ gone
      /\ \A a, b \in Keys :
            Before(recency, a, b) /\ a \notin gone /\ b \notin gone => Before(r, a, b)
  BY <1>1, <1>3, RoomInRecency
<1>8. /\ recency' \in Seq(Keys) /\ Distinct(recency')
      /\ Held(recency') = (DOMAIN lfu \ gone) \cup {k}
      /\ \A a, b \in Keys : Before(recency', a, b) <=> Before(r, a, b) \/ (a = k /\ b \in Held(r))
  BY <1>4, <1>7, Pushed
<1>9. PICK top : top = LFU!PushFront(lists[1], k)
  OBVIOUS
<1>10. /\ top \in Seq(Keys) /\ Distinct(top) /\ Held(top) = (OfFreq(1) \ gone) \cup {k}
       /\ \A a, b \in Keys :
             Before(top, a, b) <=> Before(lists[1], a, b) \/ (a = k /\ b \in OfFreq(1) \ gone)
  <2>1. k \notin Held(lists[1]) /\ Held(lists[1]) = OfFreq(1) \ gone
    BY <1>4, <1>5, <1>6 DEF OfFreq
  <2> QED
    BY <1>5, <1>6, <1>9, <2>1, Pushed
<1>11. DOMAIN lists = LFU!Freqs
  BY <1>0, <1>2 DEF LFU!listsAfterEvict, LFU!TypeOK
<1>12. /\ freqToList' \in [LFU!Freqs -> Seq(Keys)] /\ freqToList'[1] = top
       /\ \A g \in LFU!Freqs : g # 1 => freqToList'[g] = lists[g]
  <2>1. freqToList' = [g \in LFU!Freqs |-> IF g = 1 THEN top ELSE lists[g]]
    BY <1>4, <1>5, <1>9, <1>11
  <2> QED
    BY <1>5, <1>6, <1>10, <2>1
<1>13. /\ DOMAIN lfu' = (DOMAIN lfu \ gone) \cup {k} /\ lfu'[k] = [value |-> v, freq |-> 1]
       /\ \A j \in DOMAIN lfu \ gone : lfu'[j] = lfu[j]
  BY <1>4
<1>14. \A g : OfFreq(g)' = IF g = 1 THEN (OfFreq(1) \ gone) \cup {k} ELSE OfFreq(g) \ gone
  BY <1>4, <1>13 DEF OfFreq
<1>15. LFULists'
  <2>1. ASSUME NEW g \in LFU!Freqs
        PROVE  Distinct(freqToList'[g]) /\ Held(freqToList'[g]) = OfFreq(g)'
    <3>1. CASE g = 1
      BY <1>10, <1>12, <1>14, <3>1
    <3>2. CASE g # 1
      BY <1>6, <1>12, <1>14, <3>2
    <3> QED
      BY <3>1, <3>2
  <2> QED
    BY <1>8, <1>13, <2>1 DEF LFULists
<1>16. LFUOrder'
  <2> SUFFICES ASSUME NEW g \in LFU!Freqs, NEW a \in Keys, NEW b \in Keys,
                      Before(freqToList'[g], a, b)
               PROVE  Before(recency', a, b)
    BY DEF LFUOrder
  <2>1. Before(recency', a, b) <=> Before(r, a, b) \/ (a = k /\ b \in Held(r))
    BY <1>8
  <2>2. Before(lists[g], a, b) => Before(r, a, b)
    <3>1. Before(lists[g], a, b) =>
             Before(freqToList[g], a, b) /\ a \notin gone /\ b \notin gone
      BY <1>6
    <3>2. Before(freqToList[g], a, b) => Before(recency, a, b)
      BY <1>0 DEF LFUOrder
    <3>3. Before(recency, a, b) /\ a \notin gone /\ b \notin gone => Before(r, a, b)
      BY <1>7
    <3> QED
      BY <3>1, <3>2, <3>3
  <2>3. CASE g = 1
    <3>1. Before(lists[1], a, b) \/ (a = k /\ b \in OfFreq(1) \ gone)
      <4>1. Before(top, a, b)
        BY <1>12, <2>3
      <4> QED
        BY <1>10, <4>1
    <3>2. b \in OfFreq(1) \ gone => b \in Held(r)
      BY <1>7 DEF OfFreq
    <3> QED
      BY <2>1, <2>2, <2>3, <3>1, <3>2
  <2>4. CASE g # 1
    <3>1. Before(lists[g], a, b)
      BY <1>12, <2>4
    <3> QED
      BY <2>1, <2>2, <3>1
  <2> QED
    BY <2>3, <2>4
<1>17. LFUMin'
  <2>1. k \in OfFreq(1)'
    BY <1>14
  <2>2. \A j \in DOMAIN lfu' : 1 <= lfu'[j].freq
    BY <1>0, <1>13 DEF LFU!Freqs
  <2> QED
    BY <1>4, <2>1, <2>2 DEF LFUMin, OfFreq
<1>18. LFU!TypeOK'
  <2>1. \A j \in DOMAIN lfu' : lfu'[j] \in [value : Values, freq : LFU!Freqs]
    <3>1. [value |-> v, freq |-> 1] \in [value : Values, freq : LFU!Freqs]
      BY <1>5
    <3> QED
      BY <1>0, <1>13, <3>1
  <2>2. minFreq' \in 0..MaxFreq
    BY <1>0, <1>4
  <2> QED
    BY <1>0, <1>8, <1>12, <1>13, <2>1, <2>2 DEF LFU!TypeOK
<1>19. LFU!WithinCapacity'
  <2>1. /\ IsFiniteSet(DOMAIN lfu) /\ Cardinality(DOMAIN lfu) \in Nat /\ LFU!capacity \in Nat
        /\ \/ gone = {} /\ Cardinality(DOMAIN lfu) < LFU!capacity
           \/ /\ Cardinality(DOMAIN lfu) = LFU!capacity
              /\ \E e \in DOMAIN lfu : gone = {e}
    BY <1>1, EvictsWhenFull
  <2>2. IsFiniteSet(DOMAIN lfu \ gone) /\ Cardinality(DOMAIN lfu \ gone) \in Nat
        /\ Cardinality(DOMAIN lfu \ gone) + 1 <= LFU!capacity
    <3>1. CASE gone = {}
      <4>1. DOMAIN lfu \ gone = DOMAIN lfu
        BY <3>1
      <4> QED
        BY <2>1, <3>1, <4>1
    <3>2. CASE gone # {}
      <4>1. PICK e \in DOMAIN lfu : gone = {e}
        BY <2>1, <3>2
      <4>2. /\ IsFiniteSet(DOMAIN lfu \ gone)
            /\ Cardinality(DOMAIN lfu \ gone) = Cardinality(DOMAIN lfu) - 1
        BY <2>1, <4>1, FS_RemoveElement
      <4>3. Cardinality(DOMAIN lfu \ gone) \in Nat
        BY <4>2, FS_CardinalityType
      <4> QED
        BY <2>1, <3>2, <4>2, <4>3
    <3> QED
      BY <3>1, <3>2
  <2>3. k \notin DOMAIN lfu \ gone
    BY <1>4
  <2>4. Cardinality((DOMAIN lfu \ gone) \cup {k}) = Cardinality(DOMAIN lfu \ gone) + 1
    BY <2>2, <2>3, FS_AddElement
  <2>5. Cardinality(DOMAIN lfu') <= LFU!capacity
    BY <1>13, <2>2, <2>4
  <2> QED
    BY <2>5, SameCardinality DEF LFU!WithinCapacity, LFU!capacity
<1> QED
  BY <1>15, <1>16, <1>17, <1>18, <1>19 DEF LFUInv

\* A Get, a Set or a step of another cache keeps the invariant.
LEMMA LFUStep == LFUInv /\ [LFU!Next]_lfuVars => LFUInv'
<1> SUFFICES ASSUME LFUInv, [LFU!Next]_lfuVars PROVE LFUInv'
  OBVIOUS
<1>0. \A j \in DOMAIN lfu : lfu[j] \in [value : Values, freq : LFU!Freqs]
  BY DEF LFUInv, LFU!TypeOK
<1>1. ASSUME NEW k \in Keys, LFU!Get(k) PROVE LFUInv'
  <2>1. /\ k \in DOMAIN lfu /\ LFU!incrementFrequency(k)
        /\ recency' = LFU!PushFront(LFU!Unlink(recency, k), k)
        /\ lfu' = [lfu EXCEPT ![k].freq = @ + 1]
    BY <1>1 DEF LFU!Get
  <2>2. /\ DOMAIN lfu' = DOMAIN lfu /\ \A j \in DOMAIN lfu : j # k => lfu'[j] = lfu[j]
        /\ lfu'[k] = [lfu[k] EXCEPT !.freq = @ + 1]
    BY <2>1
  <2>3. lfu[k].freq + 1 \in LFU!Freqs /\ lfu[k] \in [value : Values, freq : LFU!Freqs]
    BY <1>0, <2>1 DEF LFU!incrementFrequency
  <2>4. lfu'[k] \in [value : Values, freq : LFU!Freqs] /\ lfu'[k].freq = lfu[k].freq + 1
    BY <2>2, <2>3
  <2> QED
    BY <2>1, <2>2, <2>4, Used
<1>2. ASSUME NEW k \in Keys, NEW v \in Values, LFU!SetPresent(k, v) PROVE LFUInv'
  <2>1. /\ k \in DOMAIN lfu /\ LFU!incrementFrequency(k)
        /\ recency' = LFU!PushFront(LFU!Unlink(recency, k), k)
        /\ lfu' = [lfu EXCEPT ![k] = [value |-> v, freq |-> @.freq + 1]]
    BY <1>2 DEF LFU!SetPresent
  <2>2. /\ DOMAIN lfu' = DOMAIN lfu /\ \A j \in DOMAIN lfu : j # k => lfu'[j] = lfu[j]
        /\ lfu'[k] = [value |-> v, freq |-> lfu[k].freq + 1]
    BY <2>1
  <2>3. lfu[k].freq + 1 \in LFU!Freqs
    BY <2>1 DEF LFU!incrementFrequency
  <2>4. lfu'[k] \in [value : Values, freq : LFU!Freqs] /\ lfu'[k].freq = lfu[k].freq + 1
    BY <2>2, <2>3
  <2> QED
    BY <2>1, <2>2, <2>4, Used
<1>3. CASE UNCHANGED lfuVars
  BY <1>3 DEF lfuVars, LFUInv, LFU!TypeOK, LFULists, LFUOrder, LFUMin, OfFreq, LFU!WithinCapacity
<1> QED
  BY <1>1, <1>2, <1>3, Entered DEF LFU!Next

\* The invariant of every behaviour.
LEMMA LFUAlways == Spec => []LFUInv
<1>1. Init => LFUInv
  <2> SUFFICES ASSUME Init PROVE LFUInv
    OBVIOUS
  <2>1. /\ lfu = [k \in {} |-> 0] /\ freqToList = [f \in LFU!Freqs |-> <<>>]
        /\ minFreq = 0 /\ recency = <<>> /\ DOMAIN lfu = {}
    BY DEF Init, LFU!Init
  <2>2. <<>> \in Seq(Keys) /\ Distinct(<<>>) /\ Held(<<>>) = {} /\ \A a, b : ~Before(<<>>, a, b)
    BY DEF Distinct, Held, Before
  <2>3. LFU!TypeOK
    BY CachesConstants, <2>1, <2>2 DEF LFU!TypeOK, LFU!LFUConstants
  <2>4. LFULists /\ LFUOrder /\ LFUMin
    BY <2>1, <2>2 DEF LFULists, LFUOrder, LFUMin, OfFreq
  <2>5. LFU!WithinCapacity
    <3>1. LFU!capacity \in Nat
      BY CachesConstants DEF LFU!capacity, LFU!LFUConstants
    <3> QED
      BY <2>1, <3>1, SameCardinality, FS_EmptySet DEF LFU!WithinCapacity
  <2> QED
    BY <2>3, <2>4, <2>5 DEF LFUInv
<1>2. LFUInv /\ [Next]_vars => LFUInv'
  <2>1. [Next]_vars => [LFU!Next]_lfuVars
    BY DEF Next, vars, lfuVars
  <2> QED
    BY <2>1, LFUStep
<1> QED
  BY <1>1, <1>2, PTL DEF Spec

\* LFUCache: after any Gets, Sets and evictions an entry is in the list of its own
\* frequency, once and in no other, and minFreq names the lowest list that is not
\* empty, for any capacity and any keys.
THEOREM LFUSafe == Spec => []ListsAgree
BY LFUAlways, ListsOfInv, PTL

\* LFUCache.evict: whatever was used before, the key a Set removes has the lowest
\* frequency and, among those of that frequency, was used longest ago.
THEOREM LFUEvicts == Spec => EvictsLeastFrequent
<1> DEFINE Least == \A k \in DOMAIN lfu \ DOMAIN lfu' : \A j \in DOMAIN lfu :
               \/ lfu[k].freq < lfu[j].freq
               \/ lfu[k].freq = lfu[j].freq /\ LFU!NoLaterThan(k, j)
<1>1. LFUInv /\ [Next]_vars => [Least]_LFU!vars
  <2> SUFFICES ASSUME LFUInv, [Next]_vars, ~(UNCHANGED LFU!vars),
                      NEW k \in DOMAIN lfu \ DOMAIN lfu', NEW j \in DOMAIN lfu
               PROVE  \/ lfu[k].freq < lfu[j].freq
                      \/ lfu[k].freq = lfu[j].freq /\ LFU!NoLaterThan(k, j)
    OBVIOUS
  <2>1. [LFU!Next]_lfuVars
    BY DEF Next, vars, lfuVars
  <2>2. PICK x \in Keys, v \in Values : LFU!SetAbsent(x, v)
    BY <2>1 DEF LFU!Next, LFU!Get, LFU!SetPresent, lfuVars
  <2>3. k \in LFU!evict
    BY <2>2 DEF LFU!SetAbsent
  <2> QED
    BY <2>3, VictimIsLeast
<1>2. Spec => [][Least]_LFU!vars
  BY <1>1, LFUAlways, PTL DEF Spec
<1> QED
  BY <1>2 DEF EvictsLeastFrequent, LFU!EvictsLeastFrequent

\* What the abstract cache holds for an LFU cache.
lfuStore == [k \in DOMAIN lfu |-> lfu[k].value]

\* A call of an LFU cache is a call of a bounded cache, or a Get, which is no step of it.
LEMMA LFURefines == LFUInv /\ [LFU!Next]_lfuVars => [LFU!Abstract!Next]_lfuStore
<1> SUFFICES ASSUME LFUInv, [LFU!Next]_lfuVars PROVE [LFU!Abstract!Next]_lfuStore
  OBVIOUS
<1>s. \A S : LFU!Abstract!Cardinality(S) = Cardinality(S)
  BY DEF LFU!Abstract!Cardinality, Cardinality
<1>0. \A j \in DOMAIN lfu : lfu[j] \in [value : Values, freq : LFU!Freqs]
  BY DEF LFUInv, LFU!TypeOK
<1>1. ASSUME NEW k \in Keys, LFU!Get(k) PROVE UNCHANGED lfuStore
  <2>1. lfu' = [lfu EXCEPT ![k].freq = @ + 1] /\ k \in DOMAIN lfu
    BY <1>1 DEF LFU!Get
  <2>2. DOMAIN lfu' = DOMAIN lfu /\ \A j \in DOMAIN lfu : lfu'[j].value = lfu[j].value
    <3>1. DOMAIN lfu' = DOMAIN lfu /\ \A j \in DOMAIN lfu : j # k => lfu'[j] = lfu[j]
      BY <2>1
    <3>2. lfu'[k] = [lfu[k] EXCEPT !.freq = @ + 1] /\ lfu[k] \in [value : Values, freq : LFU!Freqs]
      BY <1>0, <2>1
    <3>3. lfu'[k].value = lfu[k].value
      BY <3>2
    <3> QED
      BY <3>1, <3>3
  <2> QED
    BY <2>2 DEF lfuStore
<1>2. ASSUME NEW k \in Keys, NEW v \in Values, LFU!SetPresent(k, v)
      PROVE  LFU!Abstract!Overwrite(k, v)
  <2>1. /\ k \in DOMAIN lfu
        /\ lfu' = [lfu EXCEPT ![k] = [value |-> v, freq |-> @.freq + 1]]
    BY <1>2 DEF LFU!SetPresent
  <2>2. /\ DOMAIN lfu' = DOMAIN lfu /\ lfu'[k].value = v
        /\ \A j \in DOMAIN lfu : j # k => lfu'[j] = lfu[j]
    BY <2>1
  <2> QED
    BY <2>1, <2>2 DEF LFU!Abstract!Overwrite
<1>3. ASSUME NEW k \in Keys, NEW v \in Values, LFU!SetAbsent(k, v)
      PROVE  LFU!Abstract!Insert(k, v) \/ \E e \in Keys : LFU!Abstract!Replace(k, v, e)
  <2>1. PICK gone : gone = LFU!evict
    OBVIOUS
  <2>2. /\ k \notin DOMAIN lfu
        /\ lfu' = [j \in (DOMAIN lfu \ gone) \cup {k} |->
                      IF j = k THEN [value |-> v, freq |-> 1] ELSE lfu[j]]
    BY <1>3, <2>1 DEF LFU!SetAbsent
  <2>3. lfuStore' = [j \in (DOMAIN lfu \ gone) \cup {k} |-> IF j = k THEN v ELSE lfuStore[j]]
    BY <2>2 DEF lfuStore
  <2>4. DOMAIN lfuStore = DOMAIN lfu /\ DOMAIN lfu \subseteq Keys
    BY DEF lfuStore, LFUInv, LFU!TypeOK
  <2>5. CASE gone = {} /\ Cardinality(DOMAIN lfu) < LFU!capacity
    BY <2>2, <2>3, <2>4, <2>5, <1>s DEF LFU!Abstract!Insert, lfuStore
  <2>6. ASSUME NEW e \in DOMAIN lfu, gone = {e}, Cardinality(DOMAIN lfu) = LFU!capacity
        PROVE  LFU!Abstract!Replace(k, v, e)
    BY <2>2, <2>3, <2>4, <2>6, <1>s DEF LFU!Abstract!Replace, lfuStore
  <2> QED
    BY <2>1, <2>4, <2>5, <2>6, EvictsWhenFull
<1>4. CASE UNCHANGED lfuVars
  BY <1>4 DEF lfuVars, lfuStore
<1> QED
  BY <1>1, <1>2, <1>3, <1>4 DEF LFU!Next, LFU!Abstract!Next

\* LFUCache implements a bounded cache, whatever its capacity: what Get answers is the
\* value of the last Set, Get changes no value, and a key is lost to the insert of
\* another one into a full cache only, one key for one.
THEOREM LFUImplements == Spec => LFU!ImplementsBoundedCache
<1>1. Init => LFU!Abstract!Init
  BY DEF Init, LFU!Init, LFU!Abstract!Init
<1>2. LFUInv /\ [Next]_vars => [LFU!Abstract!Next]_[k \in DOMAIN lfu |-> lfu[k].value]
  <2>1. [Next]_vars => [LFU!Next]_lfuVars
    BY DEF Next, vars, lfuVars
  <2> QED
    BY <2>1, LFURefines DEF lfuStore
<1> QED
  BY <1>1, <1>2, LFUAlways, PTL DEF Spec, LFU!ImplementsBoundedCache, LFU!Abstract!Spec

-------------------------------------------------------------------------------
(***************************************************************************)
(* MemoryCache.  What a Get may still answer depends on the item it holds   *)
(* and on the Expire that may be writing it.                               *)
(***************************************************************************)
Items == [number : BOOLEAN, expiresAt : Nat]
Calls == [at : {"idle", "check", "delete", "hit"}, key : TimedKeys \cup {none},
          item : Ids \cup {none}]

MemTypes ==
    /\ DOMAIN items \subseteq TimedKeys /\ \A k \in DOMAIN items : items[k] \in Ids
    /\ heap \in [Ids -> Items]
    /\ now \in Nat
    /\ expiring # none => expiring.item \in Ids /\ expiring.expiresAt \in Nat \ {0}
    /\ get \in [Getters -> Calls]
    /\ wasLive \in [Getters -> BOOLEAN]

\* An Expire holds the lock and writes the item i.
Writing(i) == expiring # none /\ expiring.item = i

\* A Get that found an expired item sees it expired, nobody giving it a new life; a Get
\* about to delete holds no item that never expires, but for the one being written.
MemHeld == \A g \in Getters :
    /\ get[g].at = "check" /\ get[g].item # none /\ ~wasLive[g] =>
          Memory!isExpired(get[g].item) /\ ~Writing(get[g].item)
    /\ get[g].at = "delete" /\ get[g].item # none =>
          heap[get[g].item].expiresAt # 0 \/ Writing(get[g].item)
    /\ get[g].at = "hit" => wasLive[g]

MemInv == MemTypes /\ MemHeld

\* There is memory for a new item that nobody refers to.
LEMMA FreshIsNew ==
    ASSUME MemTypes
    PROVE  Memory!Fresh \in Ids /\ Memory!Fresh \notin Memory!Referenced
<1>1. \A S : Memory!Cardinality(S) = Cardinality(S) /\ (Memory!IsFiniteSet(S) <=> IsFiniteSet(S))
  <2>1. \A S : Memory!Cardinality(S) = Cardinality(S)
    BY DEF Memory!Cardinality, Cardinality
  <2>2. \A S : Memory!IsFiniteSet(S) <=> IsFiniteSet(S)
    BY DEF Memory!IsFiniteSet, IsFiniteSet
  <2> QED
    BY <2>1, <2>2
<1>2. /\ IsFiniteSet(TimedKeys) /\ IsFiniteSet(Getters)
      /\ Cardinality(Ids) > Cardinality(TimedKeys) + Cardinality(Getters)
  BY <1>1, CachesConstants DEF Memory!MemoryConstants
<1> DEFINE mapped == {items[k] : k \in DOMAIN items}
           held == {get[g].item : g \in Getters}
<1>3. /\ IsFiniteSet(DOMAIN items) /\ Cardinality(DOMAIN items) <= Cardinality(TimedKeys)
      /\ Cardinality(DOMAIN items) \in Nat /\ Cardinality(TimedKeys) \in Nat
      /\ Cardinality(Getters) \in Nat
  <2>1. DOMAIN items \in SUBSET TimedKeys
    BY DEF MemTypes
  <2> QED
    BY <1>2, <2>1, FS_Subset, FS_CardinalityType
<1>4. IsFiniteSet(mapped) /\ Cardinality(mapped) <= Cardinality(DOMAIN items)
  <2>1. PICK f : f = [k \in DOMAIN items |-> items[k]]
    OBVIOUS
  <2>2. f \in Surjection(DOMAIN items, mapped)
    BY <2>1 DEF Surjection
  <2> QED
    BY <1>3, <2>2, FS_Surjection
<1>5. IsFiniteSet(held) /\ Cardinality(held) <= Cardinality(Getters)
  <2>1. PICK f : f = [g \in Getters |-> get[g].item]
    OBVIOUS
  <2>2. f \in Surjection(Getters, held)
    BY <2>1 DEF Surjection
  <2> QED
    BY <1>2, <2>2, FS_Surjection
<1>6. Memory!Referenced = mapped \cup held
  BY DEF Memory!Referenced
<1> HIDE DEF mapped, held
<1>7. /\ IsFiniteSet(mapped \cup held) /\ Cardinality(mapped \cup held) \in Nat
      /\ Cardinality(mapped \cup held) <= Cardinality(mapped) + Cardinality(held)
  <2>1. /\ IsFiniteSet(mapped \cup held) /\ IsFiniteSet(mapped \cap held)
        /\ Cardinality(mapped \cup held)
              = Cardinality(mapped) + Cardinality(held) - Cardinality(mapped \cap held)
    BY <1>4, <1>5, FS_Union, FS_Intersection
  <2> QED
    BY <1>4, <1>5, <2>1, FS_CardinalityType
<1>8. \E i \in Ids : i \notin mapped \cup held
  <2> SUFFICES ASSUME Ids \in SUBSET (mapped \cup held) PROVE FALSE
    OBVIOUS
  <2>1. IsFiniteSet(Ids) /\ Cardinality(Ids) <= Cardinality(mapped \cup held)
    BY <1>7, FS_Subset
  <2> QED
    BY <1>2, <1>3, <1>4, <1>5, <1>7, <2>1, FS_CardinalityType
<1> QED
  BY <1>6, <1>8 DEF Memory!Fresh

\* What the Gets rely on, when the calls that go on hold what they held, in memory that
\* keeps its content, and the others are over.
LEMMA HeldKept ==
    ASSUME MemInv, heap' \in [Ids -> Items],
           \A g \in Getters : \/ get'[g] = Memory!NoCall
                              \/ /\ get'[g] = get[g] /\ wasLive'[g] = wasLive[g]
                                 /\ get[g].item # none => heap'[get[g].item] = heap[get[g].item],
           UNCHANGED <<now, expiring>>
    PROVE  MemHeld'
<1> SUFFICES ASSUME NEW g \in Getters
             PROVE  /\ get'[g].at = "check" /\ get'[g].item # none /\ ~wasLive'[g] =>
                          Memory!isExpired(get[g].item)' /\ ~Writing(get[g].item)'
                    /\ get'[g].at = "delete" /\ get'[g].item # none =>
                          heap'[get'[g].item].expiresAt # 0 \/ Writing(get[g].item)'
                    /\ get'[g].at = "hit" => wasLive'[g]
  BY DEF MemHeld
<1>1. CASE get'[g] = Memory!NoCall
  BY <1>1 DEF Memory!NoCall
<1>2. CASE get'[g] # Memory!NoCall
  <2>1. PICK i : i = get[g].item
    OBVIOUS
  <2>2. /\ get'[g] = get[g] /\ wasLive'[g] = wasLive[g] /\ get'[g].item = i
        /\ i # none => heap'[i] = heap[i]
    BY <1>2, <2>1
  <2>3. /\ get[g].at = "check" /\ i # none /\ ~wasLive[g] => Memory!isExpired(i) /\ ~Writing(i)
        /\ get[g].at = "delete" /\ i # none => heap[i].expiresAt # 0 \/ Writing(i)
        /\ get[g].at = "hit" => wasLive[g]
    BY <2>1 DEF MemInv, MemHeld
  <2>4. i # none => (Memory!isExpired(i) => Memory!isExpired(i)') /\ (Writing(i)' <=> Writing(i))
    BY <2>2 DEF Memory!isExpired, Writing
  <2> QED
    BY <2>2, <2>3, <2>4
<1> QED
  BY <1>1, <1>2

\* A new item takes the place of k.
LEMMA Stored ==
    ASSUME MemInv, NEW k \in TimedKeys, NEW n \in BOOLEAN, NEW t \in Nat, Memory!Store(k, n, t),
           UNCHANGED <<now, expiring, wasLive>>
    PROVE  MemInv' /\ DOMAIN items \subseteq DOMAIN items'
<1>0. MemTypes
  BY DEF MemInv
<1>1. PICK new : new = Memory!Fresh
  OBVIOUS
<1>2. new \in Ids /\ new \notin Memory!Referenced
  BY <1>0, <1>1, FreshIsNew
<1>3. PICK h : h = [heap EXCEPT ![new] = [number |-> n, expiresAt |-> t]]
  OBVIOUS
<1>4. /\ items' = [j \in DOMAIN items \cup {k} |-> IF j = k THEN new ELSE items[j]]
      /\ get' = get
      /\ heap' = [i \in Ids |-> IF i \in Memory!Referenced' THEN h[i] ELSE Memory!Blank]
  BY <1>1, <1>3 DEF Memory!Store, Memory!Collected
<1>5. h \in [Ids -> Items] /\ \A i \in Ids : i # new => h[i] = heap[i]
  BY <1>0, <1>2, <1>3 DEF MemTypes, Items
<1>6. heap' \in [Ids -> Items]
  BY <1>4, <1>5 DEF Items, Memory!Blank, Memory!Never
<1>7. ASSUME NEW g \in Getters, get[g].item # none
      PROVE  heap'[get[g].item] = heap[get[g].item]
  <2>1. get[g].item \in Ids
    BY <1>0, <1>7 DEF MemTypes, Calls
  <2>2. get[g].item \in Memory!Referenced' /\ get[g].item # new
    BY <1>2, <1>4 DEF Memory!Referenced
  <2> QED
    BY <1>4, <1>5, <2>1, <2>2
<1>8. MemTypes'
  BY <1>0, <1>2, <1>4, <1>6 DEF MemTypes
<1>9. MemHeld'
  BY <1>4, <1>6, <1>7, HeldKept
<1> QED
  BY <1>4, <1>8, <1>9 DEF MemInv

\* Keys leave the map, and calls may be over.
LEMMA Dropped ==
    ASSUME MemInv, NEW ks, NEW calls \in [Getters -> Calls], Memory!Drop(ks, calls),
           \A g \in Getters : calls[g] = Memory!NoCall \/ (calls[g] = get[g] /\ wasLive'[g] = wasLive[g]),
           wasLive' \in [Getters -> BOOLEAN], UNCHANGED <<now, expiring>>
    PROVE  MemInv' /\ DOMAIN items \ DOMAIN items' \subseteq ks
<1>0. MemTypes
  BY DEF MemInv
<1>1. /\ items' = [j \in DOMAIN items \ ks |-> items[j]] /\ get' = calls
      /\ heap' = [i \in Ids |-> IF i \in Memory!Referenced' THEN heap[i] ELSE Memory!Blank]
  BY DEF Memory!Drop, Memory!Collected
<1>2. heap' \in [Ids -> Items]
  BY <1>0, <1>1 DEF MemTypes, Items, Memory!Blank, Memory!Never
<1>3. ASSUME NEW g \in Getters, calls[g] = get[g], get[g].item # none
      PROVE  heap'[get[g].item] = heap[get[g].item]
  <2>1. get[g].item \in Ids
    BY <1>0, <1>3 DEF MemTypes, Calls
  <2>2. get[g].item \in Memory!Referenced'
    BY <1>1, <1>3 DEF Memory!Referenced
  <2> QED
    BY <1>1, <2>1, <2>2
<1>4. MemTypes'
  BY <1>0, <1>1, <1>2 DEF MemTypes
<1>5. MemHeld'
  BY <1>1, <1>2, <1>3, HeldKept
<1> QED
  BY <1>1, <1>4, <1>5 DEF MemInv

\* The keys a step takes out of the map.
Leaving == DOMAIN items \ DOMAIN items'

\* An item that never expires leaves by a Delete, or to a Get that did not hold it.
KeptForEver ==
    \A k \in Leaving : heap[items[k]].expiresAt = 0 =>
       \/ Memory!Delete(k)
       \/ \E g \in Getters : Memory!GetDelete(g) /\ get[g].key = k /\ get[g].item # items[k]

\* The writers: Set, Delete, Increment, Expire.
LEMMA WriterStep ==
    ASSUME MemInv, NEW k \in TimedKeys,
           \/ \E number \in BOOLEAN, ttl \in TTLs : Memory!Set_(k, number, ttl)
           \/ Memory!Delete(k) \/ Memory!add(k) \/ Memory!ExpireMiss(k)
           \/ \E ttl \in TTLs : Memory!Expire(k, ttl)
    PROVE  MemInv' /\ KeptForEver
<1>0. /\ MemTypes /\ TTLs \subseteq Nat /\ get \in [Getters -> Calls]
      /\ wasLive \in [Getters -> BOOLEAN]
  BY CachesConstants DEF MemInv, MemTypes, Memory!MemoryConstants
<1>1. ASSUME NEW number \in BOOLEAN, NEW ttl \in TTLs, Memory!Set_(k, number, ttl)
      PROVE  MemInv' /\ KeptForEver
  <2>1. PICK t : t = IF ttl > 0 THEN now + ttl ELSE 0
    OBVIOUS
  <2>2. t \in Nat /\ Memory!Store(k, number, t) /\ UNCHANGED <<now, expiring, wasLive>>
    BY <1>0, <1>1, <2>1 DEF Memory!Set_, Memory!Never, MemTypes
  <2> QED
    BY <2>2, Stored DEF KeptForEver, Leaving
<1>2. CASE Memory!Delete(k)
  <2>1. Memory!Drop({k}, get) /\ UNCHANGED <<now, expiring, wasLive>>
    BY <1>2 DEF Memory!Delete
  <2>2. MemInv' /\ Leaving \subseteq {k}
    BY <1>0, <2>1, Dropped DEF Leaving
  <2> QED
    BY <1>2, <2>2 DEF KeptForEver
<1>3. CASE Memory!add(k)
  <2>1. UNCHANGED <<now, expiring, wasLive>>
    BY <1>3 DEF Memory!add
  <2>2. CASE k \in DOMAIN items /\ ~Memory!isExpired(items[k])
    <3>1. PICK t : t = heap[items[k]].expiresAt
      OBVIOUS
    <3>2. t \in Nat
      <4>1. heap[items[k]] \in Items
        BY <1>0, <2>2 DEF MemTypes
      <4> QED
        BY <3>1, <4>1 DEF Items
    <3>3. Memory!Store(k, TRUE, t)
      BY <1>3, <2>2, <3>1 DEF Memory!add
    <3> QED
      BY <2>1, <3>2, <3>3, Stored DEF KeptForEver, Leaving
  <2>3. CASE ~(k \in DOMAIN items /\ ~Memory!isExpired(items[k]))
    <3>1. Memory!Store(k, TRUE, 0)
      BY <1>3, <2>3 DEF Memory!add, Memory!Never
    <3> QED
      BY <2>1, <3>1, Stored DEF KeptForEver, Leaving
  <2> QED
    BY <2>2, <2>3
<1>4. CASE Memory!ExpireMiss(k)
  <2>1. /\ Memory!Drop({k}, get) /\ UNCHANGED <<now, expiring, wasLive>>
        /\ heap[items[k]].expiresAt # 0
    BY <1>4 DEF Memory!ExpireMiss, Memory!isExpired, Memory!Never
  <2>2. MemInv' /\ Leaving \subseteq {k}
    BY <1>0, <2>1, Dropped DEF Leaving
  <2> QED
    BY <2>1, <2>2 DEF KeptForEver
<1>5. ASSUME NEW ttl \in TTLs, Memory!Expire(k, ttl) PROVE MemInv' /\ KeptForEver
  <2>1. PICK i : i = items[k]
    OBVIOUS
  <2>2. /\ expiring = none /\ expiring' = [item |-> i, expiresAt |-> now + ttl] /\ ttl > 0
        /\ UNCHANGED <<items, heap, now, get, wasLive>> /\ ~Memory!isExpired(i)
        /\ k \in DOMAIN items
    BY <1>5, <2>1 DEF Memory!Expire, Memory!unlocked
  <2>3. i \in Ids /\ now + ttl \in Nat \ {0}
    BY <1>0, <2>1, <2>2 DEF MemTypes
  <2>4. MemTypes'
    BY <1>0, <2>2, <2>3 DEF MemTypes
  <2>5. MemHeld'
    <3> SUFFICES ASSUME NEW g \in Getters
                 PROVE  /\ get[g].at = "check" /\ get[g].item # none /\ ~wasLive[g] =>
                              Memory!isExpired(get[g].item) /\ get[g].item # i
                        /\ get[g].at = "delete" /\ get[g].item # none =>
                              heap[get[g].item].expiresAt # 0
                        /\ get[g].at = "hit" => wasLive[g]
      BY <2>2 DEF MemHeld, Writing, Memory!isExpired
    <3> QED
      BY <2>2 DEF MemInv, MemHeld, Writing
  <2> QED
    BY <2>2, <2>4, <2>5 DEF MemInv, KeptForEver, Leaving
<1> QED
  BY <1>1, <1>2, <1>3, <1>4, <1>5

\* The steps of a Get.
LEMMA GetStep ==
    ASSUME MemInv, NEW g \in Getters,
           \/ \E k \in TimedKeys : Memory!GetRead(g, k)
           \/ Memory!GetCheck(g) \/ Memory!GetHit(g) \/ Memory!GetDelete(g)
    PROVE  MemInv' /\ KeptForEver
<1>0. /\ MemTypes /\ MemHeld /\ none \notin Ids /\ get \in [Getters -> Calls]
      /\ wasLive \in [Getters -> BOOLEAN] /\ get[g] \in Calls
  BY CachesConstants DEF MemInv, MemTypes, Memory!MemoryConstants
\* A step that changes no more than this Get, which goes on as c.
<1>a. ASSUME NEW c \in Calls, get' = [get EXCEPT ![g] = c], wasLive' \in [Getters -> BOOLEAN],
             \A h \in Getters : h # g => wasLive'[h] = wasLive[h],
             UNCHANGED <<items, heap, now, expiring>>,
             /\ c.at = "check" /\ c.item # none /\ ~wasLive'[g] =>
                   Memory!isExpired(c.item) /\ ~Writing(c.item)
             /\ c.at = "delete" /\ c.item # none => heap[c.item].expiresAt # 0 \/ Writing(c.item)
             /\ c.at = "hit" => wasLive'[g]
      PROVE  MemInv' /\ KeptForEver
  <2>1. get' \in [Getters -> Calls] /\ get'[g] = c /\ \A h \in Getters : h # g => get'[h] = get[h]
    BY <1>0, <1>a
  <2>2. MemTypes'
    BY <1>0, <1>a, <2>1 DEF MemTypes
  <2>3. MemHeld'
    <3> SUFFICES ASSUME NEW h \in Getters
                 PROVE  /\ get'[h].at = "check" /\ get'[h].item # none /\ ~wasLive'[h] =>
                              Memory!isExpired(get[h].item)' /\ ~Writing(get[h].item)'
                        /\ get'[h].at = "delete" /\ get'[h].item # none =>
                              heap[get'[h].item].expiresAt # 0 \/ Writing(get[h].item)'
                        /\ get'[h].at = "hit" => wasLive'[h]
      BY <1>a DEF MemHeld
    <3>1. \A i : (Memory!isExpired(i)' <=> Memory!isExpired(i)) /\ (Writing(i)' <=> Writing(i))
      BY <1>a DEF Memory!isExpired, Writing
    <3>2. PICK i : i = get'[h].item
      OBVIOUS
    <3>3. CASE h = g
      BY <1>a, <2>1, <3>1, <3>3 DEF Memory!isExpired, Writing
    <3>4. CASE h # g
      BY <1>0, <1>a, <2>1, <3>1, <3>4 DEF MemHeld, Memory!isExpired, Writing
    <3> QED
      BY <3>3, <3>4
  <2> QED
    BY <1>a, <2>2, <2>3 DEF MemInv, KeptForEver, Leaving
<1>1. ASSUME NEW k \in TimedKeys, Memory!GetRead(g, k) PROVE MemInv' /\ KeptForEver
  <2>1. PICK i : i = IF k \in DOMAIN items THEN items[k] ELSE none
    OBVIOUS
  <2>2. /\ expiring = none /\ UNCHANGED <<items, heap, now, expiring>>
        /\ get' = [get EXCEPT ![g] = [at |-> "check", key |-> k, item |-> i]]
        /\ wasLive' = [wasLive EXCEPT ![g] = i # none /\ ~Memory!isExpired(i)]
    BY <1>1, <2>1 DEF Memory!GetRead, Memory!unlocked
  <2>3. [at |-> "check", key |-> k, item |-> i] \in Calls
    BY <1>0, <2>1 DEF MemTypes, Calls
  <2>4. wasLive' \in [Getters -> BOOLEAN] /\ \A h \in Getters : h # g => wasLive'[h] = wasLive[h]
    BY <1>0, <2>2
  <2>5. i # none /\ ~wasLive'[g] => Memory!isExpired(i) /\ ~Writing(i)
    BY <1>0, <2>2 DEF Writing
  <2> QED
    BY <1>a, <2>2, <2>3, <2>4, <2>5
<1>2. CASE Memory!GetCheck(g)
  <2>1. PICK gone \in Memory!Judged(get[g].item) :
           get' = [get EXCEPT ![g].at = IF gone THEN "delete" ELSE "hit"]
    BY <1>2 DEF Memory!GetCheck
  <2>2. PICK c : c = [get[g] EXCEPT !.at = IF gone THEN "delete" ELSE "hit"]
    OBVIOUS
  <2>3. /\ get[g].at = "check" /\ UNCHANGED <<items, heap, now, expiring, wasLive>>
        /\ get' = [get EXCEPT ![g] = c]
    BY <1>2, <2>1, <2>2 DEF Memory!GetCheck
  <2>4. /\ c \in Calls /\ c.item = get[g].item /\ c.at \in {"delete", "hit"}
        /\ c.at = "delete" => gone
        /\ c.at = "hit" => ~gone
    BY <1>0, <2>2 DEF Calls
  <2>5. c.item = none => c.at # "hit"
    BY <2>1, <2>4 DEF Memory!Judged
  <2>6. c.item # none /\ gone => heap[c.item].expiresAt # 0 \/ Writing(c.item)
    BY <2>1, <2>4 DEF Memory!Judged, Memory!isExpired, Memory!Never, Memory!unlocked, Writing
  <2>7. c.item # none /\ ~gone => ~Memory!isExpired(c.item) \/ Writing(c.item)
    BY <2>1, <2>4 DEF Memory!Judged, Memory!unlocked, Writing
  <2>8. c.item # none /\ ~wasLive[g] => Memory!isExpired(c.item) /\ ~Writing(c.item)
    BY <1>0, <2>3, <2>4 DEF MemHeld
  <2> QED
    BY <1>0, <1>a, <2>3, <2>4, <2>5, <2>6, <2>7, <2>8
<1> DEFINE over == [get EXCEPT ![g] = Memory!NoCall]
<1>b. over \in [Getters -> Calls] /\ \A h \in Getters : over[h] = IF h = g THEN Memory!NoCall ELSE get[h]
  BY <1>0 DEF Memory!NoCall, Calls
<1>3. CASE Memory!GetHit(g)
  <2>1. /\ Memory!Drop({}, over) /\ UNCHANGED <<now, expiring>>
        /\ wasLive' = [wasLive EXCEPT ![g] = FALSE]
    BY <1>3 DEF Memory!GetHit
  <2>2. wasLive' \in [Getters -> BOOLEAN] /\ \A h \in Getters : h # g => wasLive'[h] = wasLive[h]
    BY <1>0, <2>1
  <2> HIDE DEF over
  <2>3. PICK ks : ks = {}
    OBVIOUS
  <2>4. Memory!Drop(ks, over)
    BY <2>1, <2>3
  <2>5. MemInv' /\ Leaving \subseteq ks
    BY <1>b, <2>1, <2>2, <2>4, Dropped DEF Leaving
  <2> QED
    BY <2>3, <2>5 DEF KeptForEver
<1>4. CASE Memory!GetDelete(g)
  <2>1. /\ Memory!Drop({get[g].key}, over) /\ UNCHANGED <<now, expiring>> /\ expiring = none
        /\ wasLive' = [wasLive EXCEPT ![g] = FALSE] /\ get[g].at = "delete"
    BY <1>4 DEF Memory!GetDelete, Memory!unlocked
  <2>2. wasLive' \in [Getters -> BOOLEAN] /\ \A h \in Getters : h # g => wasLive'[h] = wasLive[h]
    BY <1>0, <2>1
  <2> HIDE DEF over
  <2>3. MemInv' /\ Leaving \subseteq {get[g].key}
    BY <1>b, <2>1, <2>2, Dropped DEF Leaving
  <2>4. get[g].item = none \/ heap[get[g].item].expiresAt # 0
    BY <1>0, <2>1 DEF MemHeld, Writing
  <2>5. \A k \in Leaving : items[k] # none
    BY <1>0 DEF Leaving, MemTypes
  <2> QED
    BY <1>4, <2>3, <2>4, <2>5 DEF KeptForEver
<1> QED
  BY <1>1, <1>2, <1>3, <1>4

\* Every step of a MemoryCache, and of the others.
LEMMA MemStep == MemInv /\ [Memory!Next]_memoryVars => MemInv' /\ KeptForEver
<1> SUFFICES ASSUME MemInv, [Memory!Next]_memoryVars PROVE MemInv' /\ KeptForEver
  OBVIOUS
<1>0. /\ MemTypes /\ MemHeld /\ get \in [Getters -> Calls] /\ wasLive \in [Getters -> BOOLEAN]
  BY DEF MemInv, MemTypes
<1>1. CASE Memory!ExpireWritten
  <2>1. PICK i, t : i = expiring.item /\ t = expiring.expiresAt
    OBVIOUS
  <2>2. /\ heap' = [heap EXCEPT ![i].expiresAt = t] /\ expiring # none /\ expiring' = none
        /\ UNCHANGED <<items, now, get, wasLive>>
    BY <1>1, <2>1 DEF Memory!ExpireWritten, Memory!unlocked
  <2>3. i \in Ids /\ t \in Nat \ {0}
    BY <1>0, <2>1, <2>2 DEF MemTypes
  <2>4. /\ heap' \in [Ids -> Items] /\ heap'[i].expiresAt = t
        /\ \A j \in Ids : j # i => heap'[j] = heap[j]
    <3>1. heap[i] \in Items /\ heap \in [Ids -> Items]
      BY <1>0, <2>3 DEF MemTypes
    <3>2. [heap[i] EXCEPT !.expiresAt = t] \in Items /\ [heap[i] EXCEPT !.expiresAt = t].expiresAt = t
      BY <2>3, <3>1 DEF Items
    <3>3. heap' = [heap EXCEPT ![i] = [heap[i] EXCEPT !.expiresAt = t]]
      BY <2>2
    <3> QED
      BY <2>3, <3>1, <3>2, <3>3
  <2>5. MemTypes'
    BY <1>0, <2>2, <2>4 DEF MemTypes
  <2>6. MemHeld'
    <3> SUFFICES ASSUME NEW g \in Getters
                 PROVE  /\ get[g].at = "check" /\ get[g].item # none /\ ~wasLive[g] =>
                              Memory!isExpired(get[g].item)'
                        /\ get[g].at = "delete" /\ get[g].item # none =>
                              heap'[get[g].item].expiresAt # 0
                        /\ get[g].at = "hit" => wasLive[g]
      BY <2>2 DEF MemHeld, Writing, Memory!isExpired
    <3>1. PICK j : j = get[g].item
      OBVIOUS
    <3>2. j # none => j \in Ids
      BY <1>0, <3>1 DEF Calls
    <3>3. /\ get[g].at = "check" /\ j # none /\ ~wasLive[g] => Memory!isExpired(j) /\ j # i
          /\ get[g].at = "delete" /\ j # none => heap[j].expiresAt # 0 \/ j = i
          /\ get[g].at = "hit" => wasLive[g]
      BY <1>0, <2>1, <2>2, <3>1 DEF MemHeld, Writing
    <3>4. j # none /\ j # i => heap'[j] = heap[j] /\ (Memory!isExpired(j) => Memory!isExpired(j)')
      BY <2>2, <2>4, <3>2 DEF Memory!isExpired
    <3>5. Memory!isExpired(get[g].item)' <=> Memory!isExpired(j)'
      BY <2>2, <3>1 DEF Memory!isExpired
    <3> QED
      BY <2>3, <2>4, <3>1, <3>3, <3>4, <3>5
  <2> QED
    BY <2>2, <2>5, <2>6 DEF MemInv, KeptForEver, Leaving
<1>2. CASE Memory!cleanupExpired
  <2>1. PICK swept : swept = {k \in DOMAIN items : /\ heap[items[k]].expiresAt # 0
                                                  /\ cleanup.now > heap[items[k]].expiresAt}
    OBVIOUS
  <2>2. Memory!Drop(swept, get) /\ UNCHANGED <<now, expiring, wasLive>>
    BY <1>2, <2>1 DEF Memory!cleanupExpired, Memory!Never
  <2>3. MemInv' /\ Leaving \subseteq swept
    BY <1>0, <2>2, Dropped DEF Leaving
  <2> QED
    BY <2>1, <2>3 DEF KeptForEver
<1>3. CASE Memory!Advance
  <2>1. now' = now + 1 /\ UNCHANGED <<items, heap, expiring, get, wasLive>>
    BY <1>3 DEF Memory!Advance
  <2>2. MemTypes'
    BY <1>0, <2>1 DEF MemTypes
  <2>3. ASSUME NEW g \in Getters, get[g].item # none, Memory!isExpired(get[g].item)
        PROVE  Memory!isExpired(get[g].item)'
    <3>1. get[g].item \in Ids
      BY <1>0, <2>3 DEF Calls
    <3>2. heap[get[g].item].expiresAt \in Nat /\ now \in Nat
      BY <1>0, <3>1 DEF MemTypes, Items
    <3> QED
      BY <2>1, <2>3, <3>2 DEF Memory!isExpired
  <2>4. MemHeld'
    BY <1>0, <2>1, <2>3 DEF MemHeld, Writing
  <2> QED
    BY <2>1, <2>2, <2>4 DEF MemInv, KeptForEver, Leaving
<1>4. CASE \/ Memory!CleanupTick \/ Memory!CleanupStop \/ Memory!Close \/ Memory!Tick
           \/ UNCHANGED memoryVars
  <2>1. UNCHANGED <<items, heap, now, expiring, get, wasLive>>
    BY <1>4 DEF Memory!CleanupTick, Memory!CleanupStop, Memory!Close, Memory!Tick, memoryVars
  <2> QED
    BY <2>1 DEF MemInv, MemTypes, MemHeld, Writing, Memory!isExpired, KeptForEver, Leaving
<1>5. CASE \E k \in TimedKeys :
              \/ \E number \in BOOLEAN, ttl \in TTLs : Memory!Set_(k, number, ttl)
              \/ Memory!Delete(k) \/ Memory!add(k) \/ Memory!ExpireMiss(k)
              \/ \E ttl \in TTLs : Memory!Expire(k, ttl)
  BY <1>5, WriterStep
<1>6. CASE \E g \in Getters : \/ \E k \in TimedKeys : Memory!GetRead(g, k)
                             \/ Memory!GetCheck(g) \/ Memory!GetHit(g) \/ Memory!GetDelete(g)
  BY <1>6, GetStep
<1> QED
  BY <1>1, <1>2, <1>3, <1>4, <1>5, <1>6 DEF Memory!Next

\* MemoryCache: however Sets, Deletes, Expires, the sweep and the clock interleave with
\* it, a Get answers only with a value that was alive when it looked the key up, though
\* it judges the expiry later and without the lock; and an item that never expires
\* leaves only by a Delete of its key, by giving way to another, or to a Get that had
\* looked the key up before the item was there.
THEOREM MemorySafe == Spec => MemoryKeeps
<1>1. Init => MemInv
  <2> SUFFICES ASSUME Init PROVE MemInv
    OBVIOUS
  <2>1. /\ items = [k \in {} |-> none] /\ heap = [i \in Ids |-> Memory!Blank] /\ now = 1
        /\ expiring = none /\ get = [g \in Getters |-> Memory!NoCall]
        /\ wasLive = [g \in Getters |-> FALSE]
    BY DEF Init, Memory!Init
  <2>2. Memory!Blank \in Items /\ Memory!NoCall \in Calls /\ Memory!NoCall.at = "idle"
    BY DEF Items, Calls, Memory!Blank, Memory!NoCall, Memory!Never
  <2>3. MemTypes
    BY <2>1, <2>2 DEF MemTypes
  <2>4. MemHeld
    BY <2>1, <2>2 DEF MemHeld
  <2> QED
    BY <2>3, <2>4 DEF MemInv
<1>2. [Next]_vars => [Memory!Next]_memoryVars
  BY DEF Next, vars, memoryVars
<1>3. MemInv /\ [Next]_vars => MemInv'
  BY <1>2, MemStep
<1>4. MemInv => Memory!HitWasLive
  BY DEF MemInv, MemHeld, Memory!HitWasLive
<1> DEFINE Kept == \A k \in DOMAIN items \ DOMAIN items' :
          heap[items[k]].expiresAt = Memory!Never =>
             \/ Memory!Delete(k)
             \/ \E g \in Getters : /\ Memory!GetDelete(g)
                                 /\ get[g].key = k /\ get[g].item # items[k]
<1>5. MemInv /\ [Next]_vars => [Kept]_Memory!vars
  BY <1>2, MemStep DEF KeptForEver, Leaving, Memory!Never
<1>6. Spec => []Memory!HitWasLive
  BY <1>1, <1>3, <1>4, PTL DEF Spec
<1>7. Spec => [][Kept]_Memory!vars
  BY <1>1, <1>3, <1>5, PTL DEF Spec
<1> QED
  BY <1>6, <1>7 DEF MemoryKeeps, Memory!NeverExpiringStays

-------------------------------------------------------------------------------
(***************************************************************************)
(* LRUCache, which ThreadSafeLRUCache with one Get at a time implements:    *)
(* entries is its list and inMap its map.                                  *)
(***************************************************************************)
entries == LRU!Listed
inMap == DOMAIN value

Entries == [key : Keys, value : Values]

\* The list q holds an entry for each key of M and no other.
Sound(q, M) ==
    /\ q \in Seq(Entries)
    /\ \A i, j \in 1..Len(q) : q[i].key = q[j].key => i = j
    /\ M = {q[i].key : i \in 1..Len(q)}

At(q, k) == CHOOSE i \in DOMAIN q : q[i].key = k
Reads(q, k) == q[At(q, k)].value

LEMMA PlaceOf ==
    ASSUME NEW q, NEW M, Sound(q, M), NEW k \in M
    PROVE  /\ At(q, k) \in 1..Len(q) /\ q[At(q, k)].key = k
           /\ \A i \in 1..Len(q) : q[i].key = k => At(q, k) = i
<1>1. PICK p \in 1..Len(q) : q[p].key = k
  BY DEF Sound
<1>2. DOMAIN q = 1..Len(q)
  BY LenProperties DEF Sound
<1>3. At(q, k) \in DOMAIN q /\ q[At(q, k)].key = k
  BY <1>1, <1>2 DEF At
<1> QED
  BY <1>2, <1>3 DEF Sound

LEMMA PlaceIs ==
    ASSUME NEW q, NEW M, Sound(q, M), NEW i \in 1..Len(q), NEW k, q[i].key = k
    PROVE  k \in M /\ At(q, k) = i
<1>1. k \in M
  BY DEF Sound
<1> QED
  BY <1>1, PlaceOf

\* The list r, entry for entry: the one of q at p in front with the value v.
MovedUp(q, p, v, r) ==
    /\ r \in Seq(Entries) /\ Len(r) = Len(q)
    /\ r[1].key = q[p].key /\ r[1].value = v
    /\ \A i \in 1..Len(q) : i < p => r[i + 1] = q[i]
    /\ \A i \in 1..Len(q) : i > p => r[i] = q[i]

\* The list r, entry for entry: e and then q.
PutFirst(q, e, r) ==
    /\ r \in Seq(Entries) /\ Len(r) = Len(q) + 1
    /\ r[1] = e /\ \A i \in 1..Len(q) : r[i + 1] = q[i]

LEMMA MovedUpSound ==
    ASSUME NEW q, NEW M, Sound(q, M), NEW p \in 1..Len(q), NEW v, NEW r, MovedUp(q, p, v, r)
    PROVE  /\ Sound(r, M)
           /\ \A k \in M : Reads(r, k) = IF k = q[p].key THEN v ELSE Reads(q, k)
<1> DEFINE Old(i) == IF i = 1 THEN p ELSE IF i <= p THEN i - 1 ELSE i
           New(i) == IF i = p THEN 1 ELSE IF i < p THEN i + 1 ELSE i
<1>1. Len(q) \in Nat
  BY LenProperties DEF Sound
<1>2. \A i \in 1..Len(q) : Old(i) \in 1..Len(q) /\ New(i) \in 1..Len(q)
  BY <1>1
<1>3. \A i \in 1..Len(q) : Old(New(i)) = i /\ New(Old(i)) = i
  BY <1>1
<1>4. \A i \in 1..Len(q) : r[New(i)].key = q[i].key
  BY <1>1 DEF MovedUp
<1>5. \A i \in 1..Len(q) : r[New(i)].value = IF i = p THEN v ELSE q[i].value
  BY <1>1 DEF MovedUp
<1> HIDE DEF Old, New
<1>6. \A i \in 1..Len(q) : r[i].key = q[Old(i)].key
  <2>1. ASSUME NEW i \in 1..Len(q) PROVE r[i].key = q[Old(i)].key
    <3>1. PICK j \in 1..Len(q) : j = Old(i)
      BY <1>2
    <3>2. r[New(j)].key = q[j].key /\ New(j) = i
      BY <1>3, <1>4, <3>1
    <3> QED
      BY <3>1, <3>2
  <2> QED
    BY <2>1
<1>7. \A i, j \in 1..Len(q) : q[i].key = q[j].key => i = j
  BY DEF Sound
<1>8. M = {q[i].key : i \in 1..Len(q)}
  BY DEF Sound
<1>9. \A i, j \in 1..Len(q) : r[i].key = r[j].key => i = j
  <2>1. ASSUME NEW i \in 1..Len(q), NEW j \in 1..Len(q), r[i].key = r[j].key PROVE i = j
    <3>1. PICK a \in 1..Len(q), b \in 1..Len(q) : a = Old(i) /\ b = Old(j)
      BY <1>2
    <3>2. q[a].key = q[b].key
      BY <1>6, <2>1, <3>1
    <3>3. a = b
      BY <1>7, <3>2
    <3> QED
      BY <1>3, <3>1, <3>3
  <2> QED
    BY <2>1
<1>10. M = {r[i].key : i \in 1..Len(q)}
  <2>1. ASSUME NEW i \in 1..Len(q) PROVE r[i].key \in M
    BY <1>2, <1>6, <1>8
  <2>2. ASSUME NEW k \in M PROVE \E i \in 1..Len(q) : r[i].key = k
    BY <1>2, <1>4, <1>8
  <2> QED
    BY <2>1, <2>2
<1>11. Sound(r, M)
  BY <1>9, <1>10 DEF Sound, MovedUp
<1>12. ASSUME NEW k \in M PROVE Reads(r, k) = IF k = q[p].key THEN v ELSE Reads(q, k)
  <2>1. PICK i \in 1..Len(q) : q[i].key = k
    BY <1>8
  <2>2. At(q, k) = i
    BY <2>1, PlaceIs
  <2>3. PICK j \in 1..Len(r) : j = New(i)
    BY <1>2 DEF MovedUp
  <2>4. r[j].key = k /\ r[j].value = IF i = p THEN v ELSE q[i].value
    BY <1>4, <1>5, <2>1, <2>3
  <2>5. At(r, k) = j
    BY <1>11, <2>4, PlaceIs
  <2>6. k = q[p].key <=> i = p
    BY <1>7, <2>1
  <2> QED
    BY <2>2, <2>4, <2>5, <2>6 DEF Reads
<1> QED
  BY <1>11, <1>12

LEMMA PutFirstSound ==
    ASSUME NEW q, NEW M, Sound(q, M), NEW e, e.key \notin M, NEW r, PutFirst(q, e, r),
           NEW N, N = M \cup {e.key}
    PROVE  /\ Sound(r, N) /\ Reads(r, e.key) = e.value
           /\ \A k \in M : Reads(r, k) = Reads(q, k)
<1>1. Len(q) \in Nat
  BY LenProperties DEF Sound
<1>2. \A i \in 1..Len(r) : i = 1 \/ (i - 1 \in 1..Len(q) /\ r[i] = q[i - 1])
  BY <1>1 DEF PutFirst
<1>3. \A i \in 1..Len(q) : i + 1 \in 1..Len(r) /\ r[i + 1] = q[i]
  BY <1>1 DEF PutFirst
<1>4. 1 \in 1..Len(r) /\ r[1] = e
  BY <1>1 DEF PutFirst
<1>5. M = {q[i].key : i \in 1..Len(q)}
  BY DEF Sound
<1>6. \A i, j \in 1..Len(r) : r[i].key = r[j].key => i = j
  <2>1. ASSUME NEW i \in 1..Len(r), NEW j \in 1..Len(r), r[i].key = r[j].key PROVE i = j
    <3>1. CASE i = 1 /\ j # 1
      BY <1>2, <1>4, <1>5, <2>1, <3>1
    <3>2. CASE i # 1 /\ j = 1
      BY <1>2, <1>4, <1>5, <2>1, <3>2
    <3>3. CASE i # 1 /\ j # 1
      <4>1. PICK a \in 1..Len(q), b \in 1..Len(q) : a = i - 1 /\ b = j - 1 /\ q[a].key = q[b].key
        BY <1>2, <2>1, <3>3
      <4>2. a = b
        BY <4>1 DEF Sound
      <4> QED
        BY <1>1, <4>1, <4>2
    <3> QED
      BY <3>1, <3>2, <3>3
  <2> QED
    BY <2>1
<1>7. N = {r[i].key : i \in 1..Len(r)}
  <2>1. ASSUME NEW i \in 1..Len(r) PROVE r[i].key \in N
    BY <1>2, <1>4, <1>5
  <2>2. ASSUME NEW k \in N PROVE \E i \in 1..Len(r) : r[i].key = k
    BY <1>3, <1>4, <1>5
  <2> QED
    BY <2>1, <2>2
<1>8. Sound(r, N)
  BY <1>6, <1>7 DEF Sound, PutFirst
<1>9. Reads(r, e.key) = e.value
  BY <1>4, <1>8, PlaceIs DEF Reads
<1>10. ASSUME NEW k \in M PROVE Reads(r, k) = Reads(q, k)
  <2>1. PICK i \in 1..Len(q) : q[i].key = k
    BY <1>5
  <2>2. PICK j \in 1..Len(r) : j = i + 1 /\ r[j] = q[i]
    BY <1>3
  <2>3. At(q, k) = i
    BY <2>1, PlaceIs
  <2>4. At(r, k) = j
    BY <1>8, <2>1, <2>2, PlaceIs
  <2> QED
    BY <2>2, <2>3, <2>4 DEF Reads
<1> QED
  BY <1>8, <1>9, <1>10

FrontOf(q, p, v) == <<[key |-> q[p].key, value |-> v]>> \o SubSeq(q, 1, p - 1)
                                                        \o SubSeq(q, p + 1, Len(q))
Prepended(e, q) == <<e>> \o q
ButLast(q) == SubSeq(q, 1, Len(q) - 1)

\* The entry at p goes to the front and gets the value v.
LEMMA Fronted ==
    ASSUME NEW q, NEW M, Sound(q, M), NEW p \in 1..Len(q), NEW v \in Values,
           NEW r, r = FrontOf(q, p, v)
    PROVE  /\ Sound(r, M) /\ Len(r) = Len(q) /\ MovedUp(q, p, v, r)
           /\ \A k \in M : Reads(r, k) = IF k = q[p].key THEN v ELSE Reads(q, k)
<1>1. q \in Seq(Entries) /\ Len(q) \in Nat /\ p \in Int /\ \A i \in 1..Len(q) : q[i] \in Entries
  BY ElementOfSeq, LenProperties DEF Sound
<1>2. PICK e, a, b : e = [key |-> q[p].key, value |-> v] /\ a = SubSeq(q, 1, p - 1) /\ b = SubSeq(q, p + 1, Len(q))
  OBVIOUS
<1>3. e \in Entries /\ e.key = q[p].key /\ e.value = v
  BY <1>1, <1>2 DEF Entries
<1>4. a \in Seq(Entries) /\ Len(a) = p - 1 /\ \A i \in 1..p - 1 : a[i] = q[i]
  <2>1. \A i \in 1..p - 1 : q[i] \in Entries
    BY <1>1
  <2> QED
    BY <1>1, <1>2, <2>1, SubSeqProperties
<1>5. b \in Seq(Entries) /\ Len(b) = Len(q) - p /\ \A i \in 1..Len(q) - p : b[i] = q[p + i]
  <2>1. \A i \in p + 1..Len(q) : q[i] \in Entries
    BY <1>1
  <2> QED
    BY <1>1, <1>2, <2>1, SubSeqProperties
<1>6. PICK f : f = <<e>>
  OBVIOUS
<1>7. f \in Seq(Entries) /\ Len(f) = 1 /\ f[1] = e
  <2>1. Len(f) = 1 /\ f[1] = e
    BY <1>6
  <2>2. f \in Seq(Entries)
    BY <1>3, <1>6
  <2> QED
    BY <2>1, <2>2
<1>8. PICK c : c = f \o a
  OBVIOUS
<1>9. c \in Seq(Entries) /\ Len(c) = Len(f) + Len(a)
      /\ \A i \in 1..Len(f) + Len(a) : c[i] = IF i <= Len(f) THEN f[i] ELSE a[i - Len(f)]
  BY <1>4, <1>7, <1>8, ConcatProperties
<1>10. Len(c) = p /\ c[1] = e /\ \A i \in 1..p - 1 : c[i + 1] = q[i]
  BY ONLY <1>1, <1>4, <1>7, <1>9, p \in 1..Len(q)
<1>11. r = c \o b
  BY <1>2, <1>6, <1>8 DEF FrontOf
<1>12. r \in Seq(Entries) /\ Len(r) = Len(c) + Len(b)
       /\ \A i \in 1..Len(c) + Len(b) : r[i] = IF i <= Len(c) THEN c[i] ELSE b[i - Len(c)]
  <2>1. c \in Seq(Entries) /\ b \in Seq(Entries)
    BY <1>5, <1>9
  <2>2. r \in Seq(Entries) /\ Len(r) = Len(c) + Len(b)
    BY ONLY <1>11, <2>1, ConcatProperties
  <2>3. \A i \in 1..Len(c) + Len(b) : r[i] = IF i <= Len(c) THEN c[i] ELSE b[i - Len(c)]
    BY ONLY <1>11, <2>1, ConcatProperties
  <2> QED
    BY <2>2, <2>3
<1>13. Len(r) = Len(q) /\ r[1] = e
  BY ONLY <1>1, <1>5, <1>10, <1>12, p \in 1..Len(q)
<1>14. /\ \A i \in 1..Len(q) : i < p => r[i + 1] = q[i]
       /\ \A i \in 1..Len(q) : i > p => r[i] = q[i]
  <2>1. \A i \in 1..Len(r) : r[i] = IF i <= p THEN c[i] ELSE b[i - p]
    BY ONLY <1>1, <1>5, <1>10, <1>12, <1>13, p \in 1..Len(q)
  <2>2. ASSUME NEW i \in 1..Len(q), i < p PROVE r[i + 1] = q[i]
    BY ONLY <1>1, <1>10, <1>13, <2>1, <2>2, p \in 1..Len(q), i \in 1..Len(q)
  <2>3. ASSUME NEW i \in 1..Len(q), i > p PROVE r[i] = q[i]
    <3>1. r[i] = b[i - p] /\ i - p \in 1..Len(q) - p
      BY ONLY <1>1, <1>13, <2>1, <2>3, p \in 1..Len(q), i \in 1..Len(q)
    <3>2. b[i - p] = q[p + (i - p)] /\ p + (i - p) = i
      BY ONLY <1>1, <1>5, <3>1, p \in 1..Len(q), i \in 1..Len(q)
    <3> QED
      BY <3>1, <3>2
  <2> QED
    BY <2>2, <2>3
<1>15. r[1].key = q[p].key /\ r[1].value = v
  BY <1>3, <1>13
<1>16. MovedUp(q, p, v, r)
  BY ONLY <1>12, <1>13, <1>14, <1>15 DEF MovedUp
<1> QED
  BY ONLY Sound(q, M), p \in 1..Len(q), <1>13, <1>16, MovedUpSound

\* A new entry comes to the front.
LEMMA Added ==
    ASSUME NEW q, NEW M, Sound(q, M), NEW e \in Entries, e.key \notin M,
           NEW r, r = Prepended(e, q), NEW N, N = M \cup {e.key}
    PROVE  /\ Sound(r, N) /\ Len(r) = Len(q) + 1 /\ PutFirst(q, e, r)
           /\ Reads(r, e.key) = e.value /\ \A k \in M : Reads(r, k) = Reads(q, k)
<1>1. q \in Seq(Entries) /\ Len(q) \in Nat
  BY LenProperties DEF Sound
<1>2. PICK f : f = <<e>>
  OBVIOUS
<1>3. f \in Seq(Entries) /\ Len(f) = 1 /\ f[1] = e
  <2>1. Len(f) = 1 /\ f[1] = e
    BY <1>2
  <2>2. f \in Seq(Entries)
    BY <1>2
  <2> QED
    BY <2>1, <2>2
<1>4. r = f \o q
  BY <1>2 DEF Prepended
<1>5. r \in Seq(Entries) /\ Len(r) = Len(f) + Len(q)
      /\ \A i \in 1..Len(f) + Len(q) : r[i] = IF i <= Len(f) THEN f[i] ELSE q[i - Len(f)]
  BY ONLY <1>1, <1>3, <1>4, ConcatProperties
<1>6. Len(r) = Len(q) + 1 /\ r[1] = e /\ \A i \in 1..Len(q) : r[i + 1] = q[i]
  BY ONLY <1>1, <1>3, <1>5
<1>7. PutFirst(q, e, r)
  BY ONLY <1>5, <1>6 DEF PutFirst
<1>8. Sound(r, N) /\ Reads(r, e.key) = e.value /\ \A k \in M : Reads(r, k) = Reads(q, k)
  BY ONLY Sound(q, M), e.key \notin M, N = M \cup {e.key}, <1>7, PutFirstSound
<1> QED
  BY <1>6, <1>7, <1>8

\* The entry at the back goes.
LEMMA Shortened ==
    ASSUME NEW q, NEW M, Sound(q, M), Len(q) > 0, NEW r, r = ButLast(q),
           NEW o, o = q[Len(q)].key, NEW N, N = M \ {o}
    PROVE  /\ o \in M /\ Sound(r, N) /\ Len(r) = Len(q) - 1
           /\ \A k \in N : Reads(r, k) = Reads(q, k)
<1>1. q \in Seq(Entries) /\ Len(q) \in Nat /\ Len(q) \in 1..Len(q) /\ \A i \in 1..Len(q) : q[i] \in Entries
  BY ElementOfSeq, LenProperties DEF Sound
<1>2. PICK n \in Int : n = Len(q) - 1 /\ n >= 0
  BY <1>1
<1>3. r \in Seq(Entries) /\ Len(r) = n /\ \A i \in 1..n : r[i] = q[i]
  <2>1. 1 \in Int /\ \A i \in 1..n : q[i] \in Entries
    BY <1>1, <1>2
  <2>2. r = SubSeq(q, 1, n)
    BY <1>2 DEF ButLast
  <2>3. r \in Seq(Entries)
    BY ONLY <1>1, <1>2, <2>1, <2>2, SubSeqProperties
  <2>4. Len(r) = n
    BY ONLY <1>1, <1>2, <2>1, <2>2, SubSeqProperties
  <2>5. \A i \in 1..n : r[i] = q[i]
    BY ONLY <1>1, <1>2, <2>1, <2>2, SubSeqProperties
  <2> QED
    BY <2>3, <2>4, <2>5
<1>4. M = {q[i].key : i \in 1..Len(q)} /\ \A i, j \in 1..Len(q) : q[i].key = q[j].key => i = j
  BY DEF Sound
<1>5. o \in M
  BY <1>1, <1>4
<1>6. \A i \in 1..Len(r) : i \in 1..Len(q) /\ i # Len(q) /\ r[i] = q[i]
  BY <1>1, <1>2, <1>3
<1>7. Sound(r, N)
  <2>1. \A i, j \in 1..Len(r) : r[i].key = r[j].key => i = j
    BY <1>4, <1>6
  <2>2. ASSUME NEW i \in 1..Len(r) PROVE r[i].key \in N
    BY <1>1, <1>4, <1>6
  <2>3. ASSUME NEW k \in N PROVE \E i \in 1..Len(r) : r[i].key = k
    <3>1. PICK i \in 1..Len(q) : q[i].key = k
      BY <1>4
    <3>2. i \in 1..Len(r)
      BY <1>1, <1>2, <1>3, <2>3, <3>1
    <3> QED
      BY <1>6, <3>1, <3>2
  <2>4. N = {r[i].key : i \in 1..Len(r)}
    BY <2>2, <2>3
  <2> QED
    BY <1>3, <2>1, <2>4 DEF Sound
<1>8. ASSUME NEW k \in N PROVE Reads(r, k) = Reads(q, k)
  <2>1. PICK i \in 1..Len(r) : r[i].key = k
    BY <1>7 DEF Sound
  <2>2. i \in 1..Len(q) /\ r[i] = q[i]
    BY <1>6
  <2>3. At(r, k) = i
    BY ONLY <1>7, <2>1, PlaceIs
  <2>4. At(q, k) = i
    BY ONLY Sound(q, M), <2>1, <2>2, PlaceIs
  <2> QED
    BY <2>2, <2>3, <2>4 DEF Reads
<1> QED
  BY <1>2, <1>3, <1>5, <1>7, <1>8

\* The list has an entry for each key of the map, and is not longer than it may be.
LRUInv ==
    /\ Sound(entries, inMap)
    /\ IsFiniteSet(inMap) /\ Cardinality(inMap) = Len(entries)
    /\ Len(entries) <= LRU!LRU!capacity

\* What the abstract cache holds for it.
lruStore == [k \in inMap |-> entries[LRU!LRU!Position(k)].value]

\* A Get or a Set of a key that is there.
LEMMA MovesToFront ==
    ASSUME LRUInv, NEW k \in inMap, NEW v \in Values,
           entries' = LRU!LRU!MoveToFront(k, v), inMap' = inMap
    PROVE  LRUInv' /\ \A j \in inMap : Reads(entries', j) = IF j = k THEN v ELSE Reads(entries, j)
<1> USE DEF entries, inMap
<1>1. PICK p \in 1..Len(entries) : p = At(entries, k) /\ entries[p].key = k
  BY PlaceOf DEF LRUInv
<1>2. LRU!LRU!Position(k) = p
  BY <1>1 DEF LRU!LRU!Position, At
<1>3. entries' = <<[key |-> k, value |-> v]>> \o SubSeq(entries, 1, p - 1)
                                              \o SubSeq(entries, p + 1, Len(entries))
  BY <1>2 DEF LRU!LRU!MoveToFront
<1>4. PICK r : r = entries'
  OBVIOUS
<1>5. /\ Sound(r, inMap) /\ Len(r) = Len(entries)
      /\ \A j \in inMap : Reads(r, j) = IF j = k THEN v ELSE Reads(entries, j)
  <2>1. r = FrontOf(entries, p, v)
    BY <1>1, <1>3, <1>4 DEF FrontOf
  <2>2. Sound(entries, inMap)
    BY DEF LRUInv
  <2>3. /\ Sound(r, inMap) /\ Len(r) = Len(entries)
        /\ \A j \in inMap : Reads(r, j) = IF j = entries[p].key THEN v ELSE Reads(entries, j)
    BY ONLY <2>1, <2>2, p \in 1..Len(entries), v \in Values, Fronted
  <2> QED
    BY <1>1, <2>3
<1> QED
  BY <1>4, <1>5 DEF LRUInv, LRU!LRU!capacity

\* A Set of a key that is not there: the one at the back goes if the list is full.
LEMMA ComesToFront ==
    ASSUME LRUInv, NEW k \in Keys, NEW v \in Values, LRU!LRU!SetAbsent(k, v)
    PROVE  /\ LRUInv' /\ k \notin inMap
           /\ \E gone :
                 /\ \/ gone = {} /\ Cardinality(inMap) < LRU!LRU!capacity
                    \/ Cardinality(inMap) = LRU!LRU!capacity /\ \E e \in inMap : gone = {e}
                 /\ inMap' = (inMap \ gone) \cup {k}
                 /\ \A j \in inMap' : Reads(entries', j) = IF j = k THEN v ELSE Reads(entries, j)
<1> USE DEF entries, inMap
<1>1. LRU!LRU!capacity \in Nat \ {0}
  BY CachesConstants DEF LRU!LRU!capacity, LFU!LFUConstants
<1>2. Len(entries) \in Nat
  BY LenProperties DEF LRUInv, Sound
<1>3. PICK q, M, gone :
         /\ q = (IF Len(entries) >= LRU!LRU!capacity THEN SubSeq(entries, 1, Len(entries) - 1) ELSE entries)
         /\ gone = (IF Len(entries) >= LRU!LRU!capacity THEN {entries[Len(entries)].key} ELSE {})
         /\ M = inMap \ gone
  OBVIOUS
<1>4. PICK e : e = [key |-> k, value |-> v]
  OBVIOUS
<1>5. k \notin inMap /\ entries' = <<e>> \o q /\ inMap' = M \cup {k}
  BY <1>3, <1>4 DEF LRU!LRU!SetAbsent
<1>6. /\ Sound(q, M) /\ IsFiniteSet(M) /\ Cardinality(M) = Len(q) /\ Len(q) < LRU!LRU!capacity
      /\ \A j \in M : Reads(q, j) = Reads(entries, j)
      /\ \/ gone = {} /\ Cardinality(inMap) < LRU!LRU!capacity
         \/ Cardinality(inMap) = LRU!LRU!capacity /\ \E o \in inMap : gone = {o}
  <2>1. CASE Len(entries) < LRU!LRU!capacity
    <3>1. ~ (Len(entries) >= LRU!LRU!capacity)
      BY ONLY <1>1, <1>2, <2>1
    <3>2. q = entries /\ gone = {} /\ M = inMap
      BY <1>3, <3>1, Zenon
    <3> QED
      BY <2>1, <3>2 DEF LRUInv
  <2>2. CASE Len(entries) = LRU!LRU!capacity
    <3>1. PICK o : o = entries[Len(entries)].key
      OBVIOUS
    <3>2. q = ButLast(entries) /\ gone = {o} /\ M = inMap \ {o}
      BY <1>1, <1>2, <1>3, <2>2, <3>1 DEF ButLast
    <3>3. Sound(entries, inMap) /\ Len(entries) > 0
      BY <1>1, <2>2 DEF LRUInv
    <3>4. /\ o \in inMap /\ Sound(q, M) /\ Len(q) = Len(entries) - 1
          /\ \A j \in M : Reads(q, j) = Reads(entries, j)
      <4>1. PICK l, D, N : l = entries /\ D = inMap /\ N = inMap \ {o}
        OBVIOUS
      <4>2. Sound(l, D) /\ Len(l) > 0 /\ q = ButLast(l) /\ o = l[Len(l)].key /\ N = D \ {o}
        BY <3>1, <3>2, <3>3, <4>1
      <4>3. o \in D /\ Sound(q, N) /\ Len(q) = Len(l) - 1 /\ \A j \in N : Reads(q, j) = Reads(l, j)
        <5>1. o \in D /\ Sound(q, N)
          BY ONLY <4>2, Shortened
        <5>2. Len(q) = Len(l) - 1
          BY ONLY <4>2, Shortened, SMTT(60)
        <5>3. \A j \in N : Reads(q, j) = Reads(l, j)
          BY ONLY <4>2, Shortened
        <5> QED
          BY <5>1, <5>2, <5>3
      <4> QED
        BY ONLY <3>2, <4>1, <4>3
    <3>5. IsFiniteSet(M) /\ Cardinality(M) = Cardinality(inMap) - 1
      BY <3>2, <3>4, FS_RemoveElement DEF LRUInv
    <3>6. Cardinality(inMap) = LRU!LRU!capacity
      BY <2>2 DEF LRUInv
    <3> QED
      BY <1>1, <2>2, <3>2, <3>4, <3>5, <3>6
  <2> QED
    BY <1>1, <1>2, <2>1, <2>2 DEF LRUInv
<1>7. e \in Entries /\ e.key = k /\ e.value = v /\ k \notin M
  BY <1>3, <1>4, <1>5 DEF Entries
<1>8. PICK r : r = entries'
  OBVIOUS
<1>9. /\ Sound(r, inMap') /\ Len(r) = Len(q) + 1
      /\ Reads(r, k) = v /\ \A j \in M : Reads(r, j) = Reads(q, j)
  <2>1. Sound(q, M) /\ e \in Entries /\ e.key \notin M /\ r = Prepended(e, q)
    BY <1>5, <1>6, <1>7, <1>8 DEF Prepended
  <2>2. PICK N : N = M \cup {e.key}
    OBVIOUS
  <2>3. /\ Sound(r, N) /\ Len(r) = Len(q) + 1
        /\ Reads(r, e.key) = e.value /\ \A j \in M : Reads(r, j) = Reads(q, j)
    BY ONLY <2>1, <2>2, Added
  <2> QED
    BY <1>5, <1>7, <2>2, <2>3
<1>10. LRUInv'
  <2>1. IsFiniteSet(M \cup {k}) /\ Cardinality(M \cup {k}) = Cardinality(M) + 1
    BY <1>6, <1>7, FS_AddElement
  <2>2. Len(q) \in Nat
    BY <1>6, LenProperties DEF Sound
  <2>3. Len(r) <= LRU!LRU!capacity
    BY <1>1, <1>6, <1>9, <2>2
  <2> QED
    BY <1>5, <1>6, <1>8, <1>9, <2>1, <2>3 DEF LRUInv, LRU!LRU!capacity
<1> QED
  BY <1>3, <1>5, <1>6, <1>8, <1>9, <1>10

LEMMA LRUInductive == LRUInv /\ [LRU!LRU!Next]_(LRU!LRU!vars) => LRUInv'
<1> USE DEF entries, inMap
<1> SUFFICES ASSUME LRUInv, [LRU!LRU!Next]_(LRU!LRU!vars) PROVE LRUInv'
  OBVIOUS
<1>1. ASSUME NEW k \in Keys, LRU!LRU!Get(k) PROVE LRUInv'
  <2>1. k \in inMap /\ inMap' = inMap
    BY <1>1 DEF LRU!LRU!Get
  <2>2. PICK v \in Values : v = entries[LRU!LRU!Position(k)].value
    <3>1. At(entries, k) \in 1..Len(entries)
      BY <2>1, PlaceOf DEF LRUInv
    <3>2. entries[At(entries, k)] \in Entries
      BY <3>1, ElementOfSeq DEF LRUInv, Sound
    <3> QED
      BY <3>2 DEF Entries, At, LRU!LRU!Position
  <2> QED
    BY <1>1, <2>1, <2>2, MovesToFront DEF LRU!LRU!Get
<1>2. ASSUME NEW k \in Keys, NEW v \in Values, LRU!LRU!SetPresent(k, v) PROVE LRUInv'
  BY <1>2, MovesToFront DEF LRU!LRU!SetPresent
<1>3. ASSUME NEW k \in Keys, NEW v \in Values, LRU!LRU!SetAbsent(k, v) PROVE LRUInv'
  BY <1>3, ComesToFront
<1>4. CASE UNCHANGED LRU!LRU!vars
  BY <1>4 DEF LRU!LRU!vars, LRUInv, LRU!LRU!capacity
<1> QED
  BY <1>1, <1>2, <1>3, <1>4 DEF LRU!LRU!Next

LEMMA LRUAlways == LRU!LRU!Spec => []LRUInv
<1> USE DEF entries, inMap
<1>1. LRU!LRU!Init => LRUInv
  <2> SUFFICES ASSUME LRU!LRU!Init PROVE LRUInv
    OBVIOUS
  <2>1. entries = <<>> /\ inMap = {}
    BY DEF LRU!LRU!Init
  <2>2. entries \in Seq(Entries) /\ Len(entries) = 0
    BY <2>1
  <2>3. Sound(entries, inMap)
    BY <2>1, <2>2 DEF Sound
  <2>4. LRU!LRU!capacity \in Nat
    BY CachesConstants DEF LRU!LRU!capacity, LFU!LFUConstants
  <2> QED
    BY <2>1, <2>2, <2>3, <2>4, FS_EmptySet DEF LRUInv
<1> QED
  BY <1>1, LRUInductive, PTL DEF LRU!LRU!Spec

\* A Set is a step of a bounded cache; a Get is none.
LEMMA LRURefines == LRUInv /\ [LRU!LRU!Next]_(LRU!LRU!vars) => [LRU!LRU!Abstract!Next]_lruStore
<1> USE DEF entries, inMap
<1> SUFFICES ASSUME LRUInv, [LRU!LRU!Next]_(LRU!LRU!vars) PROVE [LRU!LRU!Abstract!Next]_lruStore
  OBVIOUS
<1>s. \A S : LRU!LRU!Abstract!Cardinality(S) = Cardinality(S)
  BY DEF LRU!LRU!Abstract!Cardinality, Cardinality
<1>b. lruStore = [j \in inMap |-> Reads(entries, j)]
  BY DEF lruStore, Reads, At, LRU!LRU!Position
<1>c. lruStore' = [j \in inMap' |-> Reads(entries', j)]
  BY DEF lruStore, Reads, At, LRU!LRU!Position
<1>1. ASSUME NEW k \in Keys, LRU!LRU!Get(k) PROVE UNCHANGED lruStore
  <2>1. k \in inMap /\ inMap' = inMap
    BY <1>1 DEF LRU!LRU!Get
  <2>2. PICK v \in Values : v = Reads(entries, k)
    <3>1. At(entries, k) \in 1..Len(entries)
      BY <2>1, PlaceOf DEF LRUInv
    <3>2. entries[At(entries, k)] \in Entries
      BY <3>1, ElementOfSeq DEF LRUInv, Sound
    <3> QED
      BY <3>2 DEF Entries, Reads
  <2>3. entries' = LRU!LRU!MoveToFront(k, v)
    BY <1>1, <2>2 DEF LRU!LRU!Get, Reads, At, LRU!LRU!Position
  <2>4. \A j \in inMap : Reads(entries', j) = Reads(entries, j)
    BY <2>1, <2>2, <2>3, MovesToFront
  <2> QED
    BY <1>b, <1>c, <2>1, <2>4
<1>2. ASSUME NEW k \in Keys, NEW v \in Values, LRU!LRU!SetPresent(k, v)
      PROVE  LRU!LRU!Abstract!Overwrite(k, v)
  <2>1. k \in inMap /\ inMap' = inMap /\ entries' = LRU!LRU!MoveToFront(k, v)
    BY <1>2 DEF LRU!LRU!SetPresent
  <2>2. \A j \in inMap : Reads(entries', j) = IF j = k THEN v ELSE Reads(entries, j)
    BY <2>1, MovesToFront
  <2>3. lruStore' = [lruStore EXCEPT ![k] = v]
    BY <1>b, <1>c, <2>1, <2>2
  <2> QED
    BY <1>b, <2>1, <2>3 DEF LRU!LRU!Abstract!Overwrite, lruStore
<1>3. ASSUME NEW k \in Keys, NEW v \in Values, LRU!LRU!SetAbsent(k, v)
      PROVE  LRU!LRU!Abstract!Insert(k, v) \/ \E e \in Keys : LRU!LRU!Abstract!Replace(k, v, e)
  <2>1. PICK gone :
           /\ k \notin inMap
           /\ \/ gone = {} /\ Cardinality(inMap) < LRU!LRU!capacity
              \/ Cardinality(inMap) = LRU!LRU!capacity /\ \E e \in inMap : gone = {e}
           /\ inMap' = (inMap \ gone) \cup {k}
           /\ \A j \in inMap' : Reads(entries', j) = IF j = k THEN v ELSE Reads(entries, j)
    BY <1>3, ComesToFront
  <2>2. lruStore' = [j \in (inMap \ gone) \cup {k} |-> IF j = k THEN v ELSE lruStore[j]]
    BY <1>b, <1>c, <2>1
  <2>3. inMap \subseteq Keys
    <3>1. ASSUME NEW j \in inMap PROVE j \in Keys
      <4>1. PICK i \in 1..Len(entries) : entries[i].key = j
        BY DEF LRUInv, Sound
      <4>2. entries[i] \in Entries
        BY <4>1, ElementOfSeq DEF LRUInv, Sound
      <4> QED
        BY <4>1, <4>2 DEF Entries
    <3> QED
      BY <3>1
  <2>4. DOMAIN lruStore = inMap
    BY <1>b
  <2>5. CASE gone = {} /\ Cardinality(inMap) < LRU!LRU!capacity
    BY <1>s, <2>1, <2>2, <2>4, <2>5 DEF LRU!LRU!Abstract!Insert, lruStore
  <2>6. ASSUME NEW e \in inMap, gone = {e}, Cardinality(inMap) = LRU!LRU!capacity
        PROVE  LRU!LRU!Abstract!Replace(k, v, e)
    BY <1>s, <2>1, <2>2, <2>4, <2>6 DEF LRU!LRU!Abstract!Replace, lruStore
  <2> QED
    BY <2>1, <2>3, <2>5, <2>6
<1>4. CASE UNCHANGED LRU!LRU!vars
  <2>1. entries' = entries /\ inMap' = inMap
    BY <1>4 DEF LRU!LRU!vars
  <2> QED
    BY <1>b, <1>c, <2>1
<1> QED
  BY <1>1, <1>2, <1>3, <1>4 DEF LRU!LRU!Next, LRU!LRU!Abstract!Next

\* LRUCache implements a bounded cache, whatever its capacity: what Get answers is the
\* value of the last Set, Get changes no value, and a key is lost to the insert of
\* another one into a full cache only, one key for one.
THEOREM LRUImplements == LRU!LRU!Spec => LRU!LRU!ImplementsBoundedCache
<1> USE DEF entries, inMap
<1>1. LRU!LRU!Init => LRU!LRU!Abstract!Init
  BY DEF LRU!LRU!Init, LRU!LRU!Abstract!Init
<1>2. LRUInv /\ [LRU!LRU!Next]_(LRU!LRU!vars) =>
        [LRU!LRU!Abstract!Next]_[k \in inMap |-> entries[LRU!LRU!Position(k)].value]
  BY LRURefines DEF lruStore
<1> QED
  BY <1>1, <1>2, LRUAlways, PTL DEF LRU!LRU!Spec, LRU!LRU!ImplementsBoundedCache, LRU!LRU!Abstract!Spec

-------------------------------------------------------------------------------
(***************************************************************************)
(* ThreadSafeLRUCache: the ring of pointers and the list it stands for.    *)
(***************************************************************************)
LEMMA Least ==
    ASSUME NEW T, T \subseteq Nat, T # {}
    PROVE  \E m \in T : \A k \in T : m <= k
<1>1. PICK R : R = {ss \in Nat \X Nat : ss[1] < ss[2]}
  OBVIOUS
<1>2. IsWellFoundedOn(R, Nat)
  BY <1>1, NatLessThanWellFounded DEF OpToRel
<1>3. PICK m \in T : \A k \in T : <<k, m>> \notin R
  BY <1>2, WFMin
<1>4. \A k \in T : ~ (k < m)
  BY <1>1, <1>3
<1> QED
  BY <1>4

\* The ring after the assignments up to each.
Runs(f, i, j, r, e) ==
    f = [n \in (i - 1)..j |-> IF n < i THEN r ELSE LRU!Assignment(n, f[n - 1], e)]

LEMMA RunsExists ==
    ASSUME NEW i \in Nat \ {0}, NEW r, NEW e
    PROVE  \A j \in Nat : \E f : Runs(f, i, j, r, e)
<1> DEFINE T == {j \in Nat : ~ \E f : Runs(f, i, j, r, e)}
<1> SUFFICES ASSUME T # {} PROVE FALSE
  OBVIOUS
<1>1. PICK m \in T : \A k \in T : m <= k
  BY Least
<1>2. CASE m < i
  <2>1. PICK f : f = [n \in (i - 1)..m |-> r]
    OBVIOUS
  <2>2. Runs(f, i, m, r, e)
    BY <1>2, <2>1 DEF Runs
  <2> QED
    BY <2>2
<1>3. CASE m >= i
  <2>1. m - 1 \in Nat /\ m - 1 \notin T
    BY <1>1, <1>3
  <2>2. PICK f : Runs(f, i, m - 1, r, e)
    BY <2>1
  <2>3. PICK g : g = [n \in (i - 1)..m |-> IF n = m THEN LRU!Assignment(m, f[m - 1], e) ELSE f[n]]
    OBVIOUS
  <2>4. ASSUME NEW n \in (i - 1)..m
        PROVE  g[n] = IF n < i THEN r ELSE LRU!Assignment(n, g[n - 1], e)
    <3>1. CASE n = m
      <4>1. g[n] = LRU!Assignment(n, f[n - 1], e) /\ g[n - 1] = f[n - 1]
        BY <1>3, <2>3, <3>1
      <4> QED
        BY <1>3, <3>1, <4>1
    <3>2. CASE n # m
      <4>1. n \in (i - 1)..(m - 1) /\ g[n] = f[n]
        BY <2>3, <3>2
      <4>2. f[n] = IF n < i THEN r ELSE LRU!Assignment(n, f[n - 1], e)
        BY <2>2, <4>1 DEF Runs
      <4>3. n >= i => n - 1 \in (i - 1)..m /\ g[n - 1] = f[n - 1]
        BY <2>3, <3>2
      <4> QED
        BY <4>1, <4>2, <4>3
    <3> QED
      BY <3>1, <3>2
  <2>5. Runs(g, i, m, r, e)
    BY <2>3, <2>4 DEF Runs
  <2> QED
    BY <2>5
<1> QED
  BY <1>2, <1>3

LEMMA RunsUnique ==
    ASSUME NEW i \in Nat \ {0}, NEW j \in Nat, NEW r, NEW e, j >= i - 1,
           NEW f, Runs(f, i, j, r, e), NEW g, Runs(g, i, j, r, e)
    PROVE  f[j] = g[j]
<1> DEFINE T == {n \in (i - 1)..j : f[n] # g[n]}
<1>1. SUFFICES ASSUME T # {} PROVE FALSE
  OBVIOUS
<1>2. PICK m \in T : \A k \in T : m <= k
  <2>1. T \subseteq Nat
    OBVIOUS
  <2> QED
    BY ONLY <1>1, <2>1, Least
<1>3. f[m] = IF m < i THEN r ELSE LRU!Assignment(m, f[m - 1], e)
  BY DEF Runs
<1>4. g[m] = IF m < i THEN r ELSE LRU!Assignment(m, g[m - 1], e)
  BY DEF Runs
<1>5. CASE m < i
  BY <1>3, <1>4, <1>5
<1>6. CASE m >= i
  <2>1. m - 1 \in (i - 1)..j /\ m - 1 \notin T
    BY <1>2, <1>6
  <2> QED
    BY <1>3, <1>4, <1>6, <2>1
<1> QED
  BY <1>5, <1>6

LEMMA Assigned ==
    ASSUME NEW i \in Nat \ {0}, NEW j \in Nat, NEW r, NEW e, j >= i - 1
    PROVE  \E f : Runs(f, i, j, r, e) /\ LRU!Assignments(i, j, r, e) = f[j]
<1>1. PICK d : Runs(d, i, j, r, e)
  BY RunsExists
<1>2. d = [n \in (i - 1)..j |-> IF n < i THEN r ELSE LRU!Assignment(n, d[n - 1], e)]
  BY <1>1 DEF Runs
<1> DEFINE h == CHOOSE x : x = [n \in (i - 1)..j |-> IF n < i THEN r ELSE LRU!Assignment(n, x[n - 1], e)]
<1>3. h = [n \in (i - 1)..j |-> IF n < i THEN r ELSE LRU!Assignment(n, h[n - 1], e)]
  BY <1>2
<1>4. LRU!Assignments(i, j, r, e) = h[j]
  BY DEF LRU!Assignments
<1> HIDE DEF h
<1>5. Runs(h, i, j, r, e)
  BY <1>3 DEF Runs
<1> QED
  BY <1>4, <1>5

\* The first assignment can be made before the others.
LEMMA FirstAssignment ==
    ASSUME NEW i \in Nat \ {0}, NEW j \in Nat, NEW r, NEW e, NEW s, s = LRU!Assignment(i, r, e), j >= i
    PROVE  LRU!Assignments(i, j, r, e) = LRU!Assignments(i + 1, j, s, e)
<1>1. PICK f : Runs(f, i, j, r, e) /\ LRU!Assignments(i, j, r, e) = f[j]
  BY Assigned
<1>2. PICK g : Runs(g, i + 1, j, s, e) /\ LRU!Assignments(i + 1, j, s, e) = g[j]
  BY Assigned
<1>3. PICK h : h = [n \in i..j |-> f[n]]
  OBVIOUS
<1>4. f[i] = s
  <2>1. f[i - 1] = r /\ f[i] = LRU!Assignment(i, f[i - 1], e)
    BY <1>1 DEF Runs
  <2> QED
    BY <2>1
<1>5. ASSUME NEW n \in i..j PROVE h[n] = IF n < i + 1 THEN s ELSE LRU!Assignment(n, h[n - 1], e)
  <2>1. CASE n = i
    BY <1>3, <1>4, <2>1
  <2>2. CASE n > i
    <3>1. f[n] = LRU!Assignment(n, f[n - 1], e)
      BY <1>1, <2>2 DEF Runs
    <3> QED
      BY <1>3, <2>2, <3>1
  <2> QED
    BY <2>1, <2>2
<1>6. Runs(h, i + 1, j, s, e)
  BY <1>3, <1>5 DEF Runs
<1>7. h[j] = g[j]
  BY <1>2, <1>6, RunsUnique
<1> QED
  BY <1>1, <1>2, <1>3, <1>7

LEMMA NoAssignment ==
    ASSUME NEW i \in Nat \ {0}, NEW j \in Nat, NEW r, NEW e, j = i - 1
    PROVE  LRU!Assignments(i, j, r, e) = r
<1>1. PICK f : Runs(f, i, j, r, e) /\ LRU!Assignments(i, j, r, e) = f[j]
  BY Assigned
<1> QED
  BY <1>1 DEF Runs

Rings == [next : [LRU!Nodes -> LRU!Nodes \cup {nil}], prev : [LRU!Nodes -> LRU!Nodes \cup {nil}]]

\* s is the ring r with next, or prev, of a set to b.
NextSet(r, a, b, s) ==
    /\ s \in Rings /\ s.prev = r.prev
    /\ \A n \in LRU!Nodes : s.next[n] = IF n = a THEN b ELSE r.next[n]
PrevSet(r, a, b, s) ==
    /\ s \in Rings /\ s.next = r.next
    /\ \A n \in LRU!Nodes : s.prev[n] = IF n = a THEN b ELSE r.prev[n]

LEMMA SetNext ==
    ASSUME NEW r \in Rings, NEW a \in LRU!Nodes, NEW b \in LRU!Nodes
    PROVE  NextSet(r, a, b, [r EXCEPT !.next[a] = b])
BY DEF Rings, NextSet

LEMMA SetPrev ==
    ASSUME NEW r \in Rings, NEW a \in LRU!Nodes, NEW b \in LRU!Nodes
    PROVE  PrevSet(r, a, b, [r EXCEPT !.prev[a] = b])
BY DEF Rings, PrevSet

\* Assignments 1 and 2 take an element out, 3 to 6 put it in front.
LEMMA TakenOut ==
    ASSUME NEW r \in Rings, NEW e \in LRU!Nodes, NEW x \in LRU!Nodes, NEW y \in LRU!Nodes,
           x = r.prev[e], y = r.next[e], x # e,
           NEW t, t = LRU!Assignment(1, r, e), NEW s, s = LRU!Assignment(2, t, e)
    PROVE  /\ s \in Rings
           /\ \A n \in LRU!Nodes : s.next[n] = IF n = x THEN y ELSE r.next[n]
           /\ \A n \in LRU!Nodes : s.prev[n] = IF n = y THEN x ELSE r.prev[n]
<1>1. t = [r EXCEPT !.next[x] = y]
  BY DEF LRU!Assignment
<1>2. NextSet(r, x, y, t)
  BY <1>1, SetNext
<1>3. t \in Rings /\ t.next[e] = y /\ t.prev[e] = x
  BY <1>2 DEF NextSet
<1>4. s = [t EXCEPT !.prev[y] = x]
  <2>1. s = [t EXCEPT !.prev[t.next[e]] = t.prev[e]]
    BY DEF LRU!Assignment
  <2> QED
    BY ONLY <1>3, <2>1
<1>5. PrevSet(t, y, x, s)
  BY <1>3, <1>4, SetPrev
<1> QED
  BY <1>2, <1>5 DEF NextSet, PrevSet

LEMMA PutInFront ==
    ASSUME NEW r \in Rings, NEW e \in LRU!Nodes, e # root, NEW h \in LRU!Nodes, h = r.next[root],
           NEW s, s = LRU!Assignments(3, 6, r, e)
    PROVE  /\ s \in Rings
           /\ \A n \in LRU!Nodes : s.next[n] = IF n = root THEN e ELSE IF n = e THEN h ELSE r.next[n]
           /\ \A n \in LRU!Nodes : s.prev[n] = IF n = h THEN e ELSE IF n = e THEN root ELSE r.prev[n]
<1>1. root \in LRU!Nodes
  BY DEF LRU!Nodes
<1>2. PICK r3 : r3 = LRU!Assignment(3, r, e)
  OBVIOUS
<1>3. PICK r4 : r4 = LRU!Assignment(4, r3, e)
  OBVIOUS
<1>4. PICK r5 : r5 = LRU!Assignment(5, r4, e)
  OBVIOUS
<1>5. s = LRU!Assignment(6, r5, e)
  <2>1. s = LRU!Assignments(4, 6, r3, e)
    BY <1>2, FirstAssignment
  <2>2. LRU!Assignments(4, 6, r3, e) = LRU!Assignments(5, 6, r4, e)
    BY <1>3, FirstAssignment
  <2>3. LRU!Assignments(5, 6, r4, e) = LRU!Assignments(6, 6, r5, e)
    BY <1>4, FirstAssignment
  <2>4. PICK t : t = LRU!Assignment(6, r5, e)
    OBVIOUS
  <2>5. LRU!Assignments(6, 6, r5, e) = LRU!Assignments(7, 6, t, e)
    BY <2>4, FirstAssignment
  <2>6. LRU!Assignments(7, 6, t, e) = t
    BY NoAssignment
  <2> QED
    BY <2>1, <2>2, <2>3, <2>4, <2>5, <2>6
<1>6. PrevSet(r, e, root, r3)
  <2>1. r3 = [r EXCEPT !.prev[e] = root]
    BY <1>2 DEF LRU!Assignment
  <2> QED
    BY <1>1, <2>1, SetPrev
<1>7. NextSet(r3, e, h, r4)
  <2>1. r3 \in Rings /\ r3.next[root] = h
    BY <1>1, <1>6 DEF PrevSet
  <2>2. r4 = [r3 EXCEPT !.next[e] = h]
    BY <1>3, <2>1 DEF LRU!Assignment
  <2> QED
    BY <2>1, <2>2, SetNext
<1>8. NextSet(r4, root, e, r5)
  <2>1. r4 \in Rings /\ r4.prev[e] = root
    BY <1>6, <1>7 DEF PrevSet, NextSet
  <2>2. r5 = [r4 EXCEPT !.next[root] = e]
    BY <1>4, <2>1 DEF LRU!Assignment
  <2> QED
    BY <1>1, <2>1, <2>2, SetNext
<1>9. PrevSet(r5, h, e, s)
  <2>1. r5 \in Rings /\ r5.next[e] = h
    BY <1>7, <1>8 DEF NextSet
  <2>2. s = [r5 EXCEPT !.prev[h] = e]
    BY <1>5, <2>1 DEF LRU!Assignment
  <2> QED
    BY <2>1, <2>2, SetPrev
<1> QED
  BY <1>6, <1>7, <1>8, <1>9 DEF NextSet, PrevSet

\* The i-th node from the root, which closes the ring, and the ring of the list q.
NodeAt(q, i) == IF i \in 1..Len(q) THEN q[i] ELSE root
Ring(r, q) ==
    /\ r \in Rings
    /\ \A i \in 0..Len(q) : /\ r.next[NodeAt(q, i)] = NodeAt(q, i + 1)
                            /\ r.prev[NodeAt(q, i + 1)] = NodeAt(q, i)

RingList(q) == q \in Seq(Keys) /\ Distinct(q)

LEMMA RingNodes ==
    ASSUME NEW q, RingList(q)
    PROVE  /\ Len(q) \in Nat
           /\ \A i \in Int : NodeAt(q, i) \in LRU!Nodes
           /\ \A i \in 1..Len(q) : q[i] \in Keys /\ NodeAt(q, i) = q[i]
           /\ \A i \in Int : i \notin 1..Len(q) => NodeAt(q, i) = root
           /\ \A i, j \in 0..Len(q) : NodeAt(q, i) = NodeAt(q, j) => i = j
           /\ \A i, j \in 1..Len(q) + 1 : NodeAt(q, i) = NodeAt(q, j) => i = j
<1>1. Len(q) \in Nat /\ \A i \in 1..Len(q) : q[i] \in Keys
  BY ElementOfSeq, LenProperties DEF RingList
<1>2. root \notin Keys
  BY CachesConstants DEF LRU!TSLRUConstants
<1> QED
  BY <1>1, <1>2 DEF NodeAt, LRU!Nodes, RingList, Distinct

\* q with the key at p in front, with another key in front, and without its last.
Moved(q, p) == [i \in 1..Len(q) |-> IF i = 1 THEN q[p] ELSE IF i <= p THEN q[i - 1] ELSE q[i]]
Longer(q, k) == [i \in 1..Len(q) + 1 |-> IF i = 1 THEN k ELSE q[i - 1]]
Shorter(q) == [i \in 1..Len(q) - 1 |-> q[i]]

LEMMA MovedList ==
    ASSUME NEW q, RingList(q), NEW p \in 1..Len(q), NEW m, m = Moved(q, p)
    PROVE  /\ RingList(m) /\ Len(m) = Len(q) /\ Held(m) = Held(q)
           /\ \A i \in 1..Len(q) : m[i] = IF i = 1 THEN q[p] ELSE IF i <= p THEN q[i - 1] ELSE q[i]
<1>1. Len(q) \in Nat /\ \A i \in 1..Len(q) : q[i] \in Keys
  BY RingNodes
<1>2. \A i \in 1..Len(q) : m[i] = IF i = 1 THEN q[p] ELSE IF i <= p THEN q[i - 1] ELSE q[i]
  BY DEF Moved
<1>3. m \in Seq(Keys) /\ Len(m) = Len(q)
  <2>1. m \in [1..Len(q) -> Keys]
    BY <1>1 DEF Moved
  <2>2. m \in Seq(Keys)
    BY <1>1, <2>1
  <2>3. DOMAIN m = 1..Len(q) /\ DOMAIN m = 1..Len(m) /\ Len(m) \in Nat
    BY <2>1, <2>2, LenProperties
  <2> QED
    BY <1>1, <2>2, <2>3
<1> DEFINE Old(i) == IF i = 1 THEN p ELSE IF i <= p THEN i - 1 ELSE i
           New(i) == IF i = p THEN 1 ELSE IF i < p THEN i + 1 ELSE i
<1>4. \A i \in 1..Len(q) : Old(i) \in 1..Len(q) /\ New(i) \in 1..Len(q)
  BY <1>1
<1>5. \A i \in 1..Len(q) : Old(New(i)) = i /\ New(Old(i)) = i
  BY <1>1
<1>6. \A i \in 1..Len(q) : m[i] = q[Old(i)]
  BY <1>2
<1> HIDE DEF Old, New
<1>7. \A i \in 1..Len(q) : m[New(i)] = q[i]
  BY <1>4, <1>5, <1>6
<1>8. \A i, j \in 1..Len(q) : q[i] = q[j] => i = j
  BY DEF RingList, Distinct
<1>9. \A i, j \in 1..Len(q) : m[i] = m[j] => i = j
  <2>1. ASSUME NEW i \in 1..Len(q), NEW j \in 1..Len(q), m[i] = m[j] PROVE i = j
    <3>1. PICK a \in 1..Len(q), b \in 1..Len(q) : a = Old(i) /\ b = Old(j)
      BY <1>4
    <3>2. q[a] = q[b]
      BY <1>6, <2>1, <3>1
    <3>3. a = b
      BY <1>8, <3>2
    <3> QED
      BY <1>5, <3>1, <3>3
  <2> QED
    BY <2>1
<1>10. Held(m) = Held(q)
  <2>1. ASSUME NEW i \in 1..Len(q) PROVE m[i] \in Held(q)
    BY <1>4, <1>6 DEF Held
  <2>2. ASSUME NEW i \in 1..Len(q) PROVE q[i] \in Held(m)
    BY <1>3, <1>4, <1>7 DEF Held
  <2>3. Held(m) = {m[i] : i \in 1..Len(q)}
    BY <1>3 DEF Held
  <2>4. Held(q) = {q[i] : i \in 1..Len(q)}
    BY DEF Held
  <2> QED
    BY <2>1, <2>2, <2>3, <2>4
<1> QED
  BY <1>2, <1>3, <1>9, <1>10 DEF RingList, Distinct

\* The six assignments of a move leave the ring of the list that is moved up.
LEMMA MovedRing ==
    ASSUME NEW q, RingList(q), NEW r, Ring(r, q), NEW p \in 2..Len(q),
           NEW s, s = LRU!Assignments(1, 6, r, q[p]), NEW m, m = Moved(q, p)
    PROVE  Ring(s, m)
<1> DEFINE n == Len(q)
<1>1. /\ n \in Nat
      /\ \A i \in Int : NodeAt(q, i) \in LRU!Nodes
      /\ \A i \in 1..n : q[i] \in Keys /\ NodeAt(q, i) = q[i]
      /\ \A i \in Int : i \notin 1..n => NodeAt(q, i) = root
      /\ \A i, j \in 0..n : NodeAt(q, i) = NodeAt(q, j) => i = j
      /\ \A i, j \in 1..n + 1 : NodeAt(q, i) = NodeAt(q, j) => i = j
  BY RingNodes
<1>2. PICK e, x, y, h : e = NodeAt(q, p) /\ x = NodeAt(q, p - 1) /\ y = NodeAt(q, p + 1) /\ h = NodeAt(q, 1)
  OBVIOUS
<1>3. /\ e = q[p] /\ e \in LRU!Nodes /\ x \in LRU!Nodes /\ y \in LRU!Nodes /\ h \in LRU!Nodes
      /\ root \in LRU!Nodes
      /\ e # root /\ x # root /\ h # root /\ x # e /\ y # e /\ h # e /\ h # y
  <2>1. p \in 1..n /\ p - 1 \in 1..n /\ 1 \in 1..n /\ p + 1 \in 1..n + 1 /\ p # 1 /\ p + 1 # 1
    BY <1>1
  <2>2. root = NodeAt(q, 0) /\ 0 \in 0..n /\ p \in 0..n /\ p - 1 \in 0..n /\ 1 \in 0..n
    BY <1>1, <2>1
  <2>3. p \in 1..n + 1 /\ 1 \in 1..n + 1
    BY <1>1
  <2>4. e # root /\ x # root /\ h # root /\ x # e /\ h # e
    BY <1>1, <1>2, <2>1, <2>2
  <2>5. y # e /\ h # y
    BY <1>1, <1>2, <2>1, <2>3
  <2>6. \A i \in {0, 1, p - 1, p, p + 1} : i \in Int
    BY <1>1
  <2> QED
    BY <1>1, <1>2, <2>1, <2>2, <2>4, <2>5, <2>6
<1>4. /\ r \in Rings /\ \A i \in 0..n : /\ r.next[NodeAt(q, i)] = NodeAt(q, i + 1)
                                        /\ r.prev[NodeAt(q, i + 1)] = NodeAt(q, i)
  BY DEF Ring
<1>5. r.prev[e] = x /\ r.next[e] = y /\ r.next[root] = h
  <2>1. p \in 0..n /\ p - 1 \in 0..n /\ 0 \in 0..n /\ (p - 1) + 1 = p /\ NodeAt(q, 0) = root /\ 0 + 1 = 1
    BY <1>1
  <2> QED
    BY <1>2, <1>4, <2>1
<1>6. PICK t, u : t = LRU!Assignment(1, r, e) /\ u = LRU!Assignment(2, t, e)
  OBVIOUS
<1>7. s = LRU!Assignments(3, 6, u, e)
  <2>1. s = LRU!Assignments(2, 6, t, e)
    BY <1>3, <1>6, FirstAssignment
  <2> QED
    BY <1>6, <2>1, FirstAssignment
<1>8. /\ u \in Rings
      /\ \A a \in LRU!Nodes : u.next[a] = IF a = x THEN y ELSE r.next[a]
      /\ \A a \in LRU!Nodes : u.prev[a] = IF a = y THEN x ELSE r.prev[a]
  BY <1>3, <1>4, <1>5, <1>6, TakenOut
<1>9. u.next[root] = h
  BY <1>3, <1>5, <1>8
<1>10. /\ s \in Rings
       /\ \A a \in LRU!Nodes : s.next[a] = IF a = root THEN e ELSE IF a = e THEN h ELSE u.next[a]
       /\ \A a \in LRU!Nodes : s.prev[a] = IF a = h THEN e ELSE IF a = e THEN root ELSE u.prev[a]
  BY <1>3, <1>7, <1>8, <1>9, PutInFront
<1>11. /\ Len(m) = n
       /\ \A i \in 1..n : m[i] = IF i = 1 THEN q[p] ELSE IF i <= p THEN q[i - 1] ELSE q[i]
  BY MovedList, <1>1
<1>12. /\ NodeAt(m, 0) = root /\ NodeAt(m, 1) = e
       /\ \A i \in 2..p : NodeAt(m, i) = NodeAt(q, i - 1)
       /\ \A i \in p + 1..n + 1 : NodeAt(m, i) = NodeAt(q, i)
  BY <1>1, <1>2, <1>11 DEF NodeAt
<1>13. ASSUME NEW i \in 0..n
       PROVE  s.next[NodeAt(m, i)] = NodeAt(m, i + 1) /\ s.prev[NodeAt(m, i + 1)] = NodeAt(m, i)
  <2>1. CASE i = 0
    <3>1. s.next[root] = e /\ s.prev[e] = root
      BY <1>3, <1>10
    <3> QED
      BY <1>12, <2>1, <3>1
  <2>2. CASE i = 1
    <3>1. s.next[e] = h /\ s.prev[h] = e
      BY <1>3, <1>10
    <3>2. NodeAt(m, 2) = h
      BY <1>2, <1>12
    <3> QED
      BY <1>12, <2>2, <3>1, <3>2
  <2>3. CASE i \in 2..p - 1
    <3>1. PICK a, b : a = NodeAt(q, i - 1) /\ b = NodeAt(q, i)
      OBVIOUS
    <3>2. NodeAt(m, i) = a /\ NodeAt(m, i + 1) = b
      BY <1>12, <2>3, <3>1
    <3>3. r.next[a] = b /\ r.prev[b] = a
      <4>1. i - 1 \in 0..n /\ (i - 1) + 1 = i
        BY <1>1, <2>3
      <4> QED
        BY <1>4, <3>1, <4>1
    <3>4. /\ a # root /\ a # e /\ a # x /\ b # h /\ b # e /\ b # y
          /\ a \in LRU!Nodes /\ b \in LRU!Nodes
      <4>1. i - 1 \in 1..n /\ i - 1 # p /\ i - 1 # p - 1 /\ i \in 1..n + 1 /\ i # 1 /\ i # p /\ i # p + 1
        BY <1>1, <2>3
      <4>2. {0, i - 1, p, p - 1} \subseteq 0..n /\ {i, 1, p, p + 1} \subseteq 1..n + 1
        BY <1>1, <2>3
      <4>3. NodeAt(q, 0) = root
        BY <1>1
      <4> QED
        BY <1>1, <1>2, <3>1, <4>1, <4>2, <4>3
    <3> QED
      BY <1>8, <1>10, <3>2, <3>3, <3>4
  <2>4. CASE i = p
    <3>1. NodeAt(m, i) = x /\ NodeAt(m, i + 1) = y
      BY <1>1, <1>2, <1>12, <2>4
    <3>2. s.next[x] = y /\ s.prev[y] = x
      BY <1>3, <1>8, <1>10
    <3> QED
      BY <3>1, <3>2
  <2>5. CASE i \in p + 1..n
    <3>1. PICK a, b : a = NodeAt(q, i) /\ b = NodeAt(q, i + 1)
      OBVIOUS
    <3>2. NodeAt(m, i) = a /\ NodeAt(m, i + 1) = b
      BY <1>12, <2>5, <3>1
    <3>3. r.next[a] = b /\ r.prev[b] = a
      BY <1>4, <3>1
    <3>4. /\ a # root /\ a # e /\ a # x /\ b # h /\ b # e /\ b # y
          /\ a \in LRU!Nodes /\ b \in LRU!Nodes
      <4>1. {0, i, p, p - 1} \subseteq 0..n /\ {i + 1, 1, p, p + 1} \subseteq 1..n + 1
        BY <1>1, <2>5
      <4>2. i # 0 /\ i # p /\ i # p - 1 /\ i + 1 # 1 /\ i + 1 # p /\ i + 1 # p + 1
        BY <1>1, <2>5
      <4>3. NodeAt(q, 0) = root
        BY <1>1
      <4> QED
        BY <1>1, <1>2, <3>1, <4>1, <4>2, <4>3
    <3> QED
      BY <1>8, <1>10, <3>2, <3>3, <3>4
  <2> QED
    BY <1>1, <2>1, <2>2, <2>3, <2>4, <2>5
<1> QED
  BY <1>10, <1>11, <1>13 DEF Ring

LEMMA LongerList ==
    ASSUME NEW q, RingList(q), NEW k \in Keys, k \notin Held(q), NEW m, m = Longer(q, k)
    PROVE  /\ RingList(m) /\ Len(m) = Len(q) + 1 /\ Held(m) = Held(q) \cup {k}
           /\ m[1] = k /\ \A i \in 1..Len(q) : m[i + 1] = q[i]
<1>1. Len(q) \in Nat /\ \A i \in 1..Len(q) : q[i] \in Keys
  BY RingNodes
<1>2. \A i \in 1..Len(q) + 1 : m[i] = IF i = 1 THEN k ELSE q[i - 1]
  BY DEF Longer
<1>3. m \in Seq(Keys) /\ Len(m) = Len(q) + 1
  <2>1. m \in [1..Len(q) + 1 -> Keys] /\ Len(q) + 1 \in Nat
    BY <1>1 DEF Longer
  <2>2. m \in Seq(Keys)
    BY <2>1
  <2>3. DOMAIN m = 1..Len(q) + 1 /\ DOMAIN m = 1..Len(m) /\ Len(m) \in Nat
    BY <2>1, <2>2, LenProperties
  <2> QED
    BY <1>1, <2>2, <2>3
<1>4. m[1] = k /\ \A i \in 1..Len(q) : m[i + 1] = q[i]
  BY <1>1, <1>2
<1>5. \A i \in 1..Len(q) : q[i] # k
  BY DEF Held
<1>6. \A i, j \in 1..Len(m) : m[i] = m[j] => i = j
  BY <1>1, <1>2, <1>3, <1>5 DEF RingList, Distinct
<1>7. Held(m) = Held(q) \cup {k}
  <2>1. Held(m) = {m[i] : i \in 1..Len(q) + 1} /\ Held(q) = {q[i] : i \in 1..Len(q)}
    BY <1>3 DEF Held
  <2>2. ASSUME NEW i \in 1..Len(q) + 1 PROVE m[i] \in Held(q) \cup {k}
    BY <1>1, <1>2, <2>1
  <2>3. ASSUME NEW i \in 1..Len(q) PROVE q[i] \in Held(m)
    <3>1. i + 1 \in 1..Len(q) + 1 /\ m[i + 1] = q[i]
      BY <1>1, <1>4
    <3> QED
      BY <2>1, <3>1
  <2>4. k \in Held(m)
    BY <1>1, <1>4, <2>1
  <2> QED
    BY <2>1, <2>2, <2>3, <2>4
<1> QED
  BY <1>3, <1>4, <1>6, <1>7 DEF RingList, Distinct

\* PushFront.
LEMMA LongerRing ==
    ASSUME NEW q, RingList(q), NEW r, Ring(r, q), NEW k \in Keys, k \notin Held(q),
           NEW s, s = LRU!PushedFront(r, k), NEW m, m = Longer(q, k)
    PROVE  Ring(s, m)
<1> DEFINE n == Len(q)
<1>1. /\ n \in Nat
      /\ \A i \in Int : NodeAt(q, i) \in LRU!Nodes
      /\ \A i \in 1..n : q[i] \in Keys /\ NodeAt(q, i) = q[i]
      /\ \A i \in Int : i \notin 1..n => NodeAt(q, i) = root
      /\ \A i, j \in 0..n : NodeAt(q, i) = NodeAt(q, j) => i = j
      /\ \A i, j \in 1..n + 1 : NodeAt(q, i) = NodeAt(q, j) => i = j
  BY RingNodes
<1>2. k # root /\ k \in LRU!Nodes /\ root \in LRU!Nodes
  BY CachesConstants DEF LRU!TSLRUConstants, LRU!Nodes
<1>3. \A i \in Int : NodeAt(q, i) # k
  BY <1>2 DEF NodeAt, Held
<1>4. /\ r \in Rings /\ \A i \in 0..n : /\ r.next[NodeAt(q, i)] = NodeAt(q, i + 1)
                                        /\ r.prev[NodeAt(q, i + 1)] = NodeAt(q, i)
  BY DEF Ring
<1>5. PICK h : h = NodeAt(q, 1)
  OBVIOUS
<1>6. h \in LRU!Nodes /\ h = r.next[root] /\ h # k
  <2>1. 0 \in 0..n /\ 0 + 1 = 1 /\ NodeAt(q, 0) = root /\ 1 \in Int
    BY <1>1
  <2> QED
    BY <1>1, <1>3, <1>4, <1>5, <2>1
<1>7. /\ s \in Rings
      /\ \A a \in LRU!Nodes : s.next[a] = IF a = root THEN k ELSE IF a = k THEN h ELSE r.next[a]
      /\ \A a \in LRU!Nodes : s.prev[a] = IF a = h THEN k ELSE IF a = k THEN root ELSE r.prev[a]
  BY <1>2, <1>4, <1>6, PutInFront DEF LRU!PushedFront
<1>8. Len(m) = n + 1 /\ m[1] = k /\ \A i \in 1..n : m[i + 1] = q[i]
  BY LongerList
<1>9. /\ NodeAt(m, 0) = root /\ NodeAt(m, 1) = k
      /\ \A i \in 2..n + 2 : NodeAt(m, i) = NodeAt(q, i - 1)
  <2>1. ASSUME NEW i \in 2..n + 1 PROVE NodeAt(m, i) = NodeAt(q, i - 1)
    <3>1. i - 1 \in 1..n /\ (i - 1) + 1 = i /\ i \in 1..n + 1
      BY <1>1, <2>1
    <3>2. m[i] = q[i - 1]
      BY <1>8, <3>1
    <3> QED
      BY <1>8, <3>1, <3>2 DEF NodeAt
  <2>2. NodeAt(m, n + 2) = NodeAt(q, n + 1)
    BY <1>1, <1>8 DEF NodeAt
  <2>3. NodeAt(m, 0) = root /\ NodeAt(m, 1) = k
    BY <1>1, <1>8 DEF NodeAt
  <2>4. \A i \in 2..n + 2 : i \in 2..n + 1 \/ i = n + 2
    BY <1>1
  <2>5. (n + 2) - 1 = n + 1
    BY <1>1
  <2> QED
    BY <2>1, <2>2, <2>3, <2>4, <2>5
<1>10. ASSUME NEW i \in 0..n + 1
       PROVE  s.next[NodeAt(m, i)] = NodeAt(m, i + 1) /\ s.prev[NodeAt(m, i + 1)] = NodeAt(m, i)
  <2>1. CASE i = 0
    <3>1. s.next[root] = k /\ s.prev[k] = root
      BY <1>2, <1>6, <1>7
    <3> QED
      BY <1>9, <2>1, <3>1
  <2>2. CASE i = 1
    <3>1. s.next[k] = h /\ s.prev[h] = k
      BY <1>2, <1>6, <1>7
    <3>2. NodeAt(m, 2) = h
      BY <1>1, <1>5, <1>9
    <3> QED
      BY <1>9, <2>2, <3>1, <3>2
  <2>3. CASE i \in 2..n + 1
    <3>1. PICK a, b : a = NodeAt(q, i - 1) /\ b = NodeAt(q, i)
      OBVIOUS
    <3>2. NodeAt(m, i) = a /\ NodeAt(m, i + 1) = b
      <4>1. i \in 2..n + 2 /\ i + 1 \in 2..n + 2 /\ (i + 1) - 1 = i
        BY <1>1, <2>3
      <4> QED
        BY <1>9, <3>1, <4>1
    <3>3. r.next[a] = b /\ r.prev[b] = a
      <4>1. i - 1 \in 0..n /\ (i - 1) + 1 = i
        BY <1>1, <2>3
      <4> QED
        BY <1>4, <3>1, <4>1
    <3>4. a # root /\ a # k /\ b # h /\ b # k /\ a \in LRU!Nodes /\ b \in LRU!Nodes
      <4>1. {0, i - 1} \subseteq 0..n /\ {i, 1} \subseteq 1..n + 1 /\ i - 1 # 0 /\ i # 1
        BY <1>1, <2>3
      <4>2. NodeAt(q, 0) = root /\ i \in Int /\ i - 1 \in Int
        BY <1>1
      <4> QED
        BY <1>1, <1>3, <1>5, <3>1, <4>1, <4>2
    <3> QED
      BY <1>7, <3>2, <3>3, <3>4
  <2> QED
    BY <1>1, <2>1, <2>2, <2>3
<1> QED
  BY <1>7, <1>8, <1>10 DEF Ring

LEMMA ShorterList ==
    ASSUME NEW q, RingList(q), Len(q) > 0, NEW m, m = Shorter(q)
    PROVE  /\ RingList(m) /\ Len(m) = Len(q) - 1 /\ Held(m) = Held(q) \ {q[Len(q)]}
           /\ q[Len(q)] \in Held(q) /\ \A i \in 1..Len(q) - 1 : m[i] = q[i]
<1>1. Len(q) \in Nat /\ \A i \in 1..Len(q) : q[i] \in Keys
  BY RingNodes
<1>2. \A i \in 1..Len(q) - 1 : m[i] = q[i]
  BY DEF Shorter
<1>3. m \in Seq(Keys) /\ Len(m) = Len(q) - 1
  <2>1. m \in [1..Len(q) - 1 -> Keys] /\ Len(q) - 1 \in Nat
    BY <1>1 DEF Shorter
  <2>2. m \in Seq(Keys)
    BY <2>1
  <2>3. DOMAIN m = 1..Len(q) - 1 /\ DOMAIN m = 1..Len(m) /\ Len(m) \in Nat
    BY <2>1, <2>2, LenProperties
  <2> QED
    BY <1>1, <2>2, <2>3
<1>4. \A i, j \in 1..Len(q) : q[i] = q[j] => i = j
  BY DEF RingList, Distinct
<1>5. \A i, j \in 1..Len(m) : m[i] = m[j] => i = j
  BY <1>1, <1>2, <1>3, <1>4
<1>6. Held(m) = Held(q) \ {q[Len(q)]} /\ q[Len(q)] \in Held(q)
  <2>1. Held(m) = {m[i] : i \in 1..Len(q) - 1} /\ Held(q) = {q[i] : i \in 1..Len(q)}
    BY <1>3 DEF Held
  <2>2. Len(q) \in 1..Len(q)
    BY <1>1
  <2>3. ASSUME NEW i \in 1..Len(q) - 1 PROVE m[i] \in Held(q) \ {q[Len(q)]}
    <3>1. i \in 1..Len(q) /\ i # Len(q)
      BY <1>1, <2>3
    <3> QED
      BY <1>2, <1>4, <2>1, <2>2, <3>1
  <2>4. ASSUME NEW i \in 1..Len(q), q[i] # q[Len(q)] PROVE q[i] \in Held(m)
    <3>1. i \in 1..Len(q) - 1
      BY <1>1, <2>4
    <3> QED
      BY <1>2, <2>1, <3>1
  <2> QED
    BY <2>1, <2>2, <2>3, <2>4
<1> QED
  BY <1>2, <1>3, <1>5, <1>6 DEF RingList, Distinct

\* Remove of the element at the back.
LEMMA ShorterRing ==
    ASSUME NEW q, RingList(q), NEW r, Ring(r, q), Len(q) > 0,
           NEW s, s = LRU!RemovedBack(r), NEW m, m = Shorter(q)
    PROVE  Ring(s, m) /\ r.prev[root] = q[Len(q)]
<1> DEFINE n == Len(q)
<1>1. /\ n \in Nat
      /\ \A i \in Int : NodeAt(q, i) \in LRU!Nodes
      /\ \A i \in 1..n : q[i] \in Keys /\ NodeAt(q, i) = q[i]
      /\ \A i \in Int : i \notin 1..n => NodeAt(q, i) = root
      /\ \A i, j \in 0..n : NodeAt(q, i) = NodeAt(q, j) => i = j
      /\ \A i, j \in 1..n + 1 : NodeAt(q, i) = NodeAt(q, j) => i = j
  BY RingNodes
<1>2. PICK e, x : e = NodeAt(q, n) /\ x = NodeAt(q, n - 1)
  OBVIOUS
<1>3. /\ e = q[n] /\ e \in LRU!Nodes /\ x \in LRU!Nodes /\ root \in LRU!Nodes
      /\ e # root /\ x # e
  <2>1. n \in 1..n /\ {0, n - 1, n} \subseteq 0..n /\ NodeAt(q, 0) = root /\ n - 1 # n /\ n # 0
    BY <1>1
  <2>2. \A i \in {0, n - 1, n} : i \in Int
    BY <1>1
  <2> QED
    BY <1>1, <1>2, <2>1, <2>2
<1>4. /\ r \in Rings /\ \A i \in 0..n : /\ r.next[NodeAt(q, i)] = NodeAt(q, i + 1)
                                        /\ r.prev[NodeAt(q, i + 1)] = NodeAt(q, i)
  BY DEF Ring
<1>5. r.prev[e] = x /\ r.next[e] = root /\ r.prev[root] = e
  <2>1. n \in 0..n /\ n - 1 \in 0..n /\ (n - 1) + 1 = n /\ NodeAt(q, n + 1) = root
    BY <1>1
  <2> QED
    BY <1>2, <1>4, <2>1
<1>6. PICK t, u : t = LRU!Assignment(1, r, e) /\ u = LRU!Assignment(2, t, e)
  OBVIOUS
<1>7. LRU!Assignments(1, 2, r, e) = u
  <2>1. LRU!Assignments(1, 2, r, e) = LRU!Assignments(2, 2, t, e)
    BY <1>6, FirstAssignment
  <2>2. LRU!Assignments(2, 2, t, e) = LRU!Assignments(3, 2, u, e)
    BY <1>6, FirstAssignment
  <2> QED
    BY <2>1, <2>2, NoAssignment
<1>8. /\ u \in Rings
      /\ \A a \in LRU!Nodes : u.next[a] = IF a = x THEN root ELSE r.next[a]
      /\ \A a \in LRU!Nodes : u.prev[a] = IF a = root THEN x ELSE r.prev[a]
  BY <1>3, <1>4, <1>5, <1>6, TakenOut
<1>9. s = [next |-> [u.next EXCEPT ![e] = nil], prev |-> [u.prev EXCEPT ![e] = nil]]
  BY <1>5, <1>7 DEF LRU!RemovedBack
<1>10. /\ s \in Rings
       /\ \A a \in LRU!Nodes : s.next[a] = IF a = e THEN nil ELSE u.next[a]
       /\ \A a \in LRU!Nodes : s.prev[a] = IF a = e THEN nil ELSE u.prev[a]
  <2>1. PICK f, g : f = [u.next EXCEPT ![e] = nil] /\ g = [u.prev EXCEPT ![e] = nil]
    OBVIOUS
  <2>2. u.next \in [LRU!Nodes -> LRU!Nodes \cup {nil}] /\ u.prev \in [LRU!Nodes -> LRU!Nodes \cup {nil}]
    BY <1>8 DEF Rings
  <2>3. f \in [LRU!Nodes -> LRU!Nodes \cup {nil}] /\ \A a \in LRU!Nodes : f[a] = IF a = e THEN nil ELSE u.next[a]
    BY ONLY <2>1, <2>2
  <2>4. g \in [LRU!Nodes -> LRU!Nodes \cup {nil}] /\ \A a \in LRU!Nodes : g[a] = IF a = e THEN nil ELSE u.prev[a]
    BY ONLY <2>1, <2>2
  <2>5. s = [next |-> f, prev |-> g]
    BY <1>9, <2>1
  <2> QED
    BY <2>3, <2>4, <2>5 DEF Rings
<1>11. Len(m) = n - 1 /\ \A i \in 1..n - 1 : m[i] = q[i]
  BY ShorterList
<1>12. /\ \A i \in 0..n - 1 : NodeAt(m, i) = NodeAt(q, i)
       /\ NodeAt(m, n) = root
  BY <1>1, <1>11 DEF NodeAt
<1>13. ASSUME NEW i \in 0..n - 1
       PROVE  s.next[NodeAt(m, i)] = NodeAt(m, i + 1) /\ s.prev[NodeAt(m, i + 1)] = NodeAt(m, i)
  <2>1. CASE i = n - 1
    <3>1. s.next[x] = root /\ s.prev[root] = x
      BY <1>3, <1>8, <1>10
    <3>2. NodeAt(m, i) = x /\ NodeAt(m, i + 1) = root
      BY <1>1, <1>2, <1>12, <2>1
    <3> QED
      BY <3>1, <3>2
  <2>2. CASE i # n - 1
    <3>1. PICK a, b : a = NodeAt(q, i) /\ b = NodeAt(q, i + 1)
      OBVIOUS
    <3>2. NodeAt(m, i) = a /\ NodeAt(m, i + 1) = b
      <4>1. i + 1 \in 0..n - 1
        BY <1>1, <2>2
      <4> QED
        BY <1>12, <3>1, <4>1
    <3>3. r.next[a] = b /\ r.prev[b] = a
      <4>1. i \in 0..n
        BY <1>1
      <4> QED
        BY <1>4, <3>1, <4>1
    <3>4. a # x /\ a # e /\ b # root /\ b # e /\ a \in LRU!Nodes /\ b \in LRU!Nodes
      <4>1. {0, i, i + 1, n - 1, n} \subseteq 0..n /\ i # n - 1 /\ i # n /\ i + 1 # 0 /\ i + 1 # n
        BY <1>1, <2>2
      <4>2. NodeAt(q, 0) = root /\ i \in Int /\ i + 1 \in Int
        BY <1>1
      <4> QED
        BY <1>1, <1>2, <3>1, <4>1, <4>2
    <3> QED
      BY <1>8, <1>10, <3>2, <3>3, <3>4
  <2> QED
    BY <2>1, <2>2
<1>14. Ring(s, m)
  BY <1>10, <1>11, <1>13 DEF Ring
<1> QED
  BY <1>3, <1>5, <1>14

\* A walk along next meets the keys of the list in order.
LEMMA WalkIs ==
    ASSUME NEW q, RingList(q), NEW r, Ring(r, q)
    PROVE  \A i \in 1..Len(q) : LRU!Walk(r.next, Len(q))[i] = q[i]
<1> DEFINE n == Len(q)
           p == r.next
           W(f) == f = [i \in 1..n |-> IF i = 1 THEN p[root]
                                       ELSE IF f[i - 1] = nil THEN nil ELSE p[f[i - 1]]]
           w == CHOOSE x : x = [i \in 1..n |-> IF i = 1 THEN p[root]
                                               ELSE IF x[i - 1] = nil THEN nil ELSE p[x[i - 1]]]
<1>1. n \in Nat /\ nil \notin Keys /\ \A i \in 1..n : q[i] \in Keys /\ NodeAt(q, i) = q[i]
  BY RingNodes, CachesConstants DEF LRU!TSLRUConstants
<1>2. NodeAt(q, 0) = root
  BY RingNodes
<1>3. \A i \in 1..n : q[i] = IF i = 1 THEN p[root] ELSE p[q[i - 1]]
  <2>1. ASSUME NEW i \in 1..n PROVE q[i] = IF i = 1 THEN p[root] ELSE p[q[i - 1]]
    <3>1. i - 1 \in 0..n /\ (i - 1) + 1 = i
      BY <1>1
    <3>2. p[NodeAt(q, i - 1)] = q[i]
      BY <1>1, <3>1 DEF Ring
    <3>3. i # 1 => i - 1 \in 1..n
      BY <1>1
    <3> QED
      BY <1>1, <1>2, <3>2, <3>3
  <2> QED
    BY <2>1
<1>4. PICK d : d = [i \in 1..n |-> q[i]]
  OBVIOUS
<1>5. W(d)
  <2>1. \A i \in 1..n : d[i] = IF i = 1 THEN p[root] ELSE IF d[i - 1] = nil THEN nil ELSE p[d[i - 1]]
    BY <1>1, <1>3, <1>4
  <2> QED
    BY <1>4, <2>1
<1>6. W(w)
  BY <1>5
<1>7. LRU!Walk(p, n) = w
  BY DEF LRU!Walk
<1> HIDE DEF w
<1> DEFINE T == {i \in 1..n : w[i] # q[i]}
<1>8. SUFFICES ASSUME T # {} PROVE FALSE
  BY <1>7
<1>9. PICK m \in T : \A k \in T : m <= k
  <2>1. T \subseteq Nat
    BY <1>1
  <2> QED
    BY ONLY <1>8, <2>1, Least
<1>10. w[m] = IF m = 1 THEN p[root] ELSE IF w[m - 1] = nil THEN nil ELSE p[w[m - 1]]
  BY <1>6
<1>11. m # 1 => m - 1 \in 1..n /\ w[m - 1] = q[m - 1]
  BY <1>1, <1>9
<1>12. w[m] = q[m]
  BY <1>1, <1>3, <1>10, <1>11
<1> QED
  BY <1>12

-------------------------------------------------------------------------------
\* The entries of the keys of q, with the values of val.
Pairs(q, val) == [i \in 1..Len(q) |-> [key |-> q[i], value |-> val[q[i]]]]
ValuesOf(q, val) == RingList(q) /\ \A k \in Held(q) : val[k] \in Values

LEMMA PairsSound ==
    ASSUME NEW q, NEW val, ValuesOf(q, val), NEW l, l = Pairs(q, val)
    PROVE  /\ Sound(l, Held(q)) /\ Len(l) = Len(q) /\ Len(q) \in Nat
           /\ \A i \in 1..Len(q) : l[i] \in Entries /\ l[i].key = q[i] /\ l[i].value = val[q[i]]
<1>1. Len(q) \in Nat /\ \A i \in 1..Len(q) : q[i] \in Keys
  BY RingNodes DEF ValuesOf
<1>2. \A i \in 1..Len(q) : l[i] \in Entries /\ l[i].key = q[i] /\ l[i].value = val[q[i]]
  BY <1>1 DEF Pairs, ValuesOf, Held, Entries
<1>3. l \in Seq(Entries) /\ Len(l) = Len(q)
  <2>1. l \in [1..Len(q) -> Entries]
    <3>1. \A i \in 1..Len(q) : [key |-> q[i], value |-> val[q[i]]] \in Entries
      BY <1>1 DEF ValuesOf, Held, Entries
    <3> QED
      BY <3>1 DEF Pairs
  <2>2. l \in Seq(Entries)
    BY <1>1, <2>1
  <2>3. DOMAIN l = 1..Len(q) /\ DOMAIN l = 1..Len(l) /\ Len(l) \in Nat
    BY <2>1, <2>2, LenProperties
  <2> QED
    BY <1>1, <2>2, <2>3
<1>4. \A i, j \in 1..Len(l) : l[i].key = l[j].key => i = j
  BY <1>2, <1>3 DEF ValuesOf, RingList, Distinct
<1>5. Held(q) = {l[i].key : i \in 1..Len(l)}
  <2>1. Held(q) = {q[i] : i \in 1..Len(q)}
    BY DEF Held
  <2> QED
    BY <1>2, <1>3, <2>1
<1> QED
  BY <1>1, <1>2, <1>3, <1>4, <1>5 DEF Sound

\* There is one list with the entry at p in front, and one with a new one.
LEMMA MovedUpIs ==
    ASSUME NEW q, q \in Seq(Entries), NEW p \in 1..Len(q), NEW v,
           NEW r, MovedUp(q, p, v, r), NEW s, MovedUp(q, p, v, s)
    PROVE  r = s
<1>1. Len(q) \in Nat
  BY LenProperties
<1>2. r \in Seq(Entries) /\ s \in Seq(Entries) /\ Len(r) = Len(q) /\ Len(s) = Len(q)
  BY DEF MovedUp
<1>3. r[1] = s[1]
  <2>1. r[1] \in Entries /\ s[1] \in Entries
    BY <1>1, <1>2, ElementOfSeq
  <2>2. r[1].key = s[1].key /\ r[1].value = s[1].value
    BY DEF MovedUp
  <2> QED
    BY <2>1, <2>2 DEF Entries
<1>4. ASSUME NEW i \in 1..Len(q) PROVE r[i] = s[i]
  <2>1. CASE i = 1
    BY <1>3, <2>1
  <2>2. CASE i # 1 /\ i <= p
    <3>1. i - 1 \in 1..Len(q) /\ i - 1 < p /\ (i - 1) + 1 = i
      BY <1>1, <2>2
    <3>2. r[(i - 1) + 1] = q[i - 1] /\ s[(i - 1) + 1] = q[i - 1]
      BY <3>1 DEF MovedUp
    <3> QED
      BY <3>1, <3>2
  <2>3. CASE i > p
    BY <2>3 DEF MovedUp
  <2> QED
    BY <1>1, <2>1, <2>2, <2>3
<1> QED
  BY <1>2, <1>4, SeqEqual

LEMMA PutFirstIs ==
    ASSUME NEW q, q \in Seq(Entries), NEW e, NEW r, PutFirst(q, e, r), NEW s, PutFirst(q, e, s)
    PROVE  r = s
<1>1. Len(q) \in Nat
  BY LenProperties
<1>2. r \in Seq(Entries) /\ s \in Seq(Entries) /\ Len(r) = Len(q) + 1 /\ Len(s) = Len(q) + 1
  BY DEF PutFirst
<1>3. ASSUME NEW i \in 1..Len(q) + 1 PROVE r[i] = s[i]
  <2>1. CASE i = 1
    BY <2>1 DEF PutFirst
  <2>2. CASE i # 1
    <3>1. i - 1 \in 1..Len(q) /\ (i - 1) + 1 = i
      BY <1>1, <2>2
    <3>2. r[(i - 1) + 1] = q[i - 1] /\ s[(i - 1) + 1] = q[i - 1]
      BY <3>1 DEF PutFirst
    <3> QED
      BY <3>1, <3>2
  <2> QED
    BY <2>1, <2>2
<1> QED
  BY <1>2, <1>3, SeqEqual

LEMMA PairsMoved ==
    ASSUME NEW q, NEW val, ValuesOf(q, val), NEW p \in 1..Len(q), NEW v \in Values, NEW new,
           new[q[p]] = v, \A k \in Held(q) : k # q[p] => new[k] = val[k],
           NEW l, l = Pairs(q, val), NEW m, m = Pairs(Moved(q, p), new)
    PROVE  m = FrontOf(l, p, v)
<1>1. PICK t : t = Moved(q, p)
  OBVIOUS
<1>2. /\ RingList(t) /\ Len(t) = Len(q) /\ Held(t) = Held(q)
      /\ \A i \in 1..Len(q) : t[i] = IF i = 1 THEN q[p] ELSE IF i <= p THEN q[i - 1] ELSE q[i]
  BY <1>1, MovedList DEF ValuesOf
<1>3. ValuesOf(t, new)
  BY <1>2 DEF ValuesOf
<1>4. /\ Sound(l, Held(q)) /\ Len(l) = Len(q) /\ Len(q) \in Nat
      /\ \A i \in 1..Len(q) : l[i] \in Entries /\ l[i].key = q[i] /\ l[i].value = val[q[i]]
  BY PairsSound
<1>5. m = Pairs(t, new)
  BY <1>1
<1>6. /\ Sound(m, Held(t)) /\ Len(m) = Len(t)
      /\ \A i \in 1..Len(t) : m[i] \in Entries /\ m[i].key = t[i] /\ m[i].value = new[t[i]]
  BY <1>3, <1>5, PairsSound
<1>7. \A i, j \in 1..Len(q) : q[i] = q[j] => i = j
  BY DEF ValuesOf, RingList, Distinct
<1>8. \A i \in 1..Len(q) : q[i] \in Held(q)
  BY DEF Held
<1>9. MovedUp(l, p, v, m)
  <2>1. m[1].key = l[p].key /\ m[1].value = v
    BY <1>2, <1>4, <1>6
  <2>2. ASSUME NEW i \in 1..Len(q), i < p PROVE m[i + 1] = l[i]
    <3>1. i + 1 \in 1..Len(q) /\ t[i + 1] = q[i] /\ q[i] # q[p]
      BY <1>2, <1>4, <1>7, <2>2
    <3>2. m[i + 1] \in Entries /\ m[i + 1].key = q[i] /\ m[i + 1].value = val[q[i]]
      BY <1>2, <1>6, <1>8, <3>1
    <3> QED
      BY <1>4, <3>2 DEF Entries
  <2>3. ASSUME NEW i \in 1..Len(q), i > p PROVE m[i] = l[i]
    <3>1. t[i] = q[i] /\ q[i] # q[p]
      BY <1>2, <1>4, <1>7, <2>3
    <3>2. m[i] \in Entries /\ m[i].key = q[i] /\ m[i].value = val[q[i]]
      BY <1>2, <1>6, <1>8, <3>1
    <3> QED
      BY <1>4, <3>2 DEF Entries
  <2> QED
    BY <1>2, <1>4, <1>6, <2>1, <2>2, <2>3 DEF MovedUp, Sound
<1>10. PICK f : f = FrontOf(l, p, v)
  OBVIOUS
<1>11. MovedUp(l, p, v, f)
  BY <1>4, <1>10, Fronted
<1> QED
  BY <1>4, <1>9, <1>10, <1>11, MovedUpIs DEF Sound

LEMMA PairsLonger ==
    ASSUME NEW q, NEW val, ValuesOf(q, val), NEW k \in Keys, k \notin Held(q), NEW v \in Values,
           NEW new, new[k] = v, \A j \in Held(q) : new[j] = val[j],
           NEW l, l = Pairs(q, val), NEW m, m = Pairs(Longer(q, k), new),
           NEW e, e = [key |-> k, value |-> v]
    PROVE  m = Prepended(e, l)
<1>1. PICK t : t = Longer(q, k)
  OBVIOUS
<1>2. /\ RingList(t) /\ Len(t) = Len(q) + 1 /\ Held(t) = Held(q) \cup {k}
      /\ t[1] = k /\ \A i \in 1..Len(q) : t[i + 1] = q[i]
  BY <1>1, LongerList DEF ValuesOf
<1>3. ValuesOf(t, new)
  BY <1>2 DEF ValuesOf
<1>4. /\ Sound(l, Held(q)) /\ Len(l) = Len(q) /\ Len(q) \in Nat
      /\ \A i \in 1..Len(q) : l[i] \in Entries /\ l[i].key = q[i] /\ l[i].value = val[q[i]]
  BY PairsSound
<1>5. m = Pairs(t, new)
  BY <1>1
<1>6. /\ Sound(m, Held(t)) /\ Len(m) = Len(t)
      /\ \A i \in 1..Len(t) : m[i] \in Entries /\ m[i].key = t[i] /\ m[i].value = new[t[i]]
  BY <1>3, <1>5, PairsSound
<1>7. \A i \in 1..Len(q) : q[i] \in Held(q)
  BY DEF Held
<1>8. e \in Entries /\ e.key = k /\ e.value = v
  BY DEF Entries
<1>9. PutFirst(l, e, m)
  <2>1. m[1] = e
    <3>1. m[1] \in Entries /\ m[1].key = k /\ m[1].value = v
      BY <1>2, <1>4, <1>6
    <3> QED
      BY <1>8, <3>1 DEF Entries
  <2>2. ASSUME NEW i \in 1..Len(q) PROVE m[i + 1] = l[i]
    <3>1. i + 1 \in 1..Len(t)
      BY <1>2, <1>4
    <3>2. m[i + 1] \in Entries /\ m[i + 1].key = q[i] /\ m[i + 1].value = val[q[i]]
      BY <1>2, <1>6, <1>7, <3>1
    <3> QED
      BY <1>4, <3>2 DEF Entries
  <2> QED
    BY <1>2, <1>4, <1>6, <2>1, <2>2 DEF PutFirst, Sound
<1>10. PICK f : f = Prepended(e, l)
  OBVIOUS
<1>11. PutFirst(l, e, f)
  <2>1. e.key \notin Held(q)
    BY <1>8
  <2>2. PICK N : N = Held(q) \cup {e.key}
    OBVIOUS
  <2> QED
    BY <1>4, <1>8, <1>10, <2>1, <2>2, Added
<1> QED
  BY <1>4, <1>9, <1>10, <1>11, PutFirstIs DEF Sound

LEMMA PairsShorter ==
    ASSUME NEW q, NEW val, ValuesOf(q, val), Len(q) > 0,
           NEW l, l = Pairs(q, val), NEW m, m = Pairs(Shorter(q), val)
    PROVE  m = ButLast(l)
<1>1. PICK t : t = Shorter(q)
  OBVIOUS
<1>2. RingList(t) /\ Len(t) = Len(q) - 1 /\ \A i \in 1..Len(q) - 1 : t[i] = q[i]
  BY <1>1, ShorterList DEF ValuesOf
<1>3. Held(t) \subseteq Held(q)
  BY <1>1, ShorterList DEF ValuesOf
<1>4. ValuesOf(t, val)
  BY <1>2, <1>3 DEF ValuesOf
<1>5. /\ Sound(l, Held(q)) /\ Len(l) = Len(q) /\ Len(q) \in Nat
      /\ \A i \in 1..Len(q) : l[i] \in Entries /\ l[i].key = q[i] /\ l[i].value = val[q[i]]
  BY PairsSound
<1>6. m = Pairs(t, val)
  BY <1>1
<1>7. /\ Sound(m, Held(t)) /\ Len(m) = Len(t)
      /\ \A i \in 1..Len(t) : m[i] \in Entries /\ m[i].key = t[i] /\ m[i].value = val[t[i]]
  BY <1>4, <1>6, PairsSound
<1>8. PICK n \in Int : n = Len(q) - 1 /\ n >= 0
  BY <1>5
<1>0. PICK b : b = ButLast(l)
  OBVIOUS
<1>9. b \in Seq(Entries) /\ Len(b) = n /\ \A i \in 1..n : b[i] = l[i]
  <2>1. l \in Seq(Entries) /\ \A i \in 1..n : l[i] \in Entries
    BY <1>5, <1>8 DEF Sound
  <2>2. b = SubSeq(l, 1, n)
    BY <1>0, <1>5, <1>8 DEF ButLast
  <2>3. 1 \in Int /\ n \in Int /\ n <= Len(l)
    BY <1>5, <1>8
  <2>4. b \in Seq(Entries)
    BY ONLY <2>1, <2>2, <2>3, SubSeqProperties
  <2>5. Len(b) = n
    BY ONLY <1>8, <2>1, <2>2, <2>3, SubSeqProperties
  <2>6. \A i \in 1..n : b[i] = l[i]
    BY ONLY <1>8, <2>1, <2>2, <2>3, SubSeqProperties
  <2> QED
    BY <2>4, <2>5, <2>6
<1>10. ASSUME NEW i \in 1..n PROVE m[i] = b[i]
  <2>1. m[i] \in Entries /\ m[i].key = q[i] /\ m[i].value = val[q[i]]
    BY <1>2, <1>7, <1>8
  <2>2. i \in 1..Len(q)
    BY <1>5, <1>8
  <2>3. l[i] \in Entries /\ l[i].key = q[i] /\ l[i].value = val[q[i]]
    BY <1>5, <2>2
  <2>4. m[i] = l[i]
    BY ONLY <2>1, <2>3 DEF Entries
  <2> QED
    BY <1>9, <2>4
<1>11. m \in Seq(Entries) /\ Len(m) = n
  BY <1>2, <1>7, <1>8 DEF Sound
<1> QED
  BY <1>0, <1>8, <1>9, <1>10, <1>11, SeqEqual

-------------------------------------------------------------------------------
(***************************************************************************)
(* ThreadSafeLRUCache implements LRUCache when Gets do not overlap.        *)
(***************************************************************************)
OneAtATime == \A r, s \in Readers : r = s

Movers == [key : Keys, at : 1..6] \cup {LRU!Idle}

\* q is the list as it is once the running Get is done.
RingOf(q) ==
    /\ RingList(q) /\ Held(q) = DOMAIN value
    /\ Ring(LRU!Settled, q)
    /\ Cardinality(DOMAIN value) = Len(q) /\ Len(q) <= Capacity

RingInv ==
    /\ move \in [Readers -> Movers]
    /\ \A k \in DOMAIN value : value[k] \in Values
    /\ IsFiniteSet(DOMAIN value)
    /\ \E q : RingOf(q)

LEMMA LRUCardinality == \A S : LRU!Cardinality(S) = Cardinality(S)
BY DEF LRU!Cardinality, Cardinality

LEMMA WalkPairs ==
    ASSUME NEW q, RingList(q), NEW r, Ring(r, q), NEW val, NEW w, w = LRU!Walk(r.next, Len(q))
    PROVE  [i \in 1..Len(q) |-> [key |-> w[i], value |-> val[w[i]]]] = Pairs(q, val)
<1>1. \A i \in 1..Len(q) : w[i] = q[i]
  BY WalkIs
<1> QED
  BY <1>1 DEF Pairs

LEMMA ListedIs ==
    ASSUME NEW q, RingOf(q)
    PROVE  LRU!Listed = Pairs(q, value)
<1>1. LRU!Cardinality(DOMAIN value) = Len(q)
  BY LRUCardinality DEF RingOf
<1> QED
  BY <1>1, WalkPairs DEF LRU!Listed, RingOf

LEMMA ListedNext ==
    ASSUME NEW q, RingOf(q)'
    PROVE  LRU!Listed' = Pairs(q, value')
<1>1. LRU!Cardinality(DOMAIN value') = Len(q)
  BY LRUCardinality DEF RingOf
<1> QED
  BY <1>1, WalkPairs DEF LRU!Listed, RingOf

LEMMA SettledMoving ==
    ASSUME OneAtATime, NEW r \in Readers, move[r] # LRU!Idle
    PROVE  LRU!Settled = LRU!Assignments(move[r].at, 6, ring, move[r].key)
<1>1. (CHOOSE s \in Readers : move[s] # LRU!Idle) = r
  BY DEF OneAtATime
<1>2. LRU!Locked
  BY DEF LRU!Locked
<1> QED
  BY <1>1, <1>2 DEF LRU!Settled

LEMMA SettledNext ==
    ASSUME OneAtATime, NEW r \in Readers, move'[r] # LRU!Idle
    PROVE  LRU!Settled' = LRU!Assignments(move'[r].at, 6, ring', move'[r].key)
<1>1. (CHOOSE s \in Readers : move'[s] # LRU!Idle) = r
  BY DEF OneAtATime
<1>2. LRU!Locked'
  BY DEF LRU!Locked
<1> QED
  BY <1>1, <1>2 DEF LRU!Settled

LEMMA SettledStill ==
    ASSUME ~ LRU!Locked
    PROVE  LRU!Settled = ring
BY DEF LRU!Settled

\* A Get that starts to move its element: the step LRUCache makes.
LEMMA StartStep ==
    ASSUME OneAtATime, RingInv, NEW r \in Readers, NEW k \in Keys, LRU!GetStart(r, k)
    PROVE  RingInv' /\ LRU!LRU!Get(k)
<1>1. PICK q : RingOf(q)
  BY DEF RingInv
<1>2. /\ move[r] = LRU!Idle /\ k \in DOMAIN value /\ ring.next[root] # k
      /\ move' = [move EXCEPT ![r] = [key |-> k, at |-> 1]]
      /\ ring' = ring /\ value' = value
  BY DEF LRU!GetStart
<1>3. LRU!Settled = ring
  <2>1. ~ LRU!Locked
    BY <1>2 DEF OneAtATime, LRU!Locked
  <2> QED
    BY <2>1, SettledStill
<1>4. RingList(q) /\ Held(q) = DOMAIN value /\ Ring(ring, q)
      /\ Cardinality(DOMAIN value) = Len(q) /\ Len(q) <= Capacity /\ Len(q) \in Nat
  BY <1>1, <1>3, RingNodes DEF RingOf
<1>5. PICK p \in 2..Len(q) : q[p] = k
  <2>1. PICK p \in 1..Len(q) : q[p] = k
    BY <1>2, <1>4 DEF Held
  <2>2. p # 1
    <3>1. 0 \in 0..Len(q) /\ 0 + 1 = 1 /\ 1 \in 1..Len(q)
      BY <1>4, <2>1
    <3>2. NodeAt(q, 0) = root /\ NodeAt(q, 1) = q[1]
      BY <1>4, <3>1 DEF NodeAt
    <3>3. ring.next[root] = q[1]
      BY <1>4, <3>1, <3>2 DEF Ring
    <3> QED
      BY <1>2, <2>1, <3>3
  <2> QED
    BY <1>4, <2>1, <2>2
<1>6. PICK m : m = Moved(q, p)
  OBVIOUS
<1>7. LRU!Settled' = LRU!Assignments(1, 6, ring, q[p])
  <2>1. move'[r] = [key |-> k, at |-> 1]
    BY <1>2 DEF RingInv
  <2>2. move'[r] # LRU!Idle
    BY <2>1 DEF LRU!Idle
  <2>3. LRU!Settled' = LRU!Assignments(move'[r].at, 6, ring', move'[r].key)
    BY <2>2, SettledNext
  <2> QED
    BY <1>2, <1>5, <2>1, <2>3
<1>8. p \in 1..Len(q)
  BY <1>4
<1>9. RingList(m) /\ Len(m) = Len(q) /\ Held(m) = Held(q)
  BY <1>4, <1>6, <1>8, MovedList
<1>10. RingOf(m)'
  <2>1. Ring(LRU!Settled', m)
    BY <1>4, <1>6, <1>7, MovedRing
  <2> QED
    BY <1>2, <1>4, <1>9, <2>1 DEF RingOf
<1>11. RingInv'
  <2>1. move' \in [Readers -> Movers]
    BY <1>2 DEF RingInv, Movers
  <2>2. \E s : RingOf(s)'
    BY <1>10
  <2> QED
    BY <1>2, <2>1, <2>2 DEF RingInv
<1>12. LRU!LRU!Get(k)
  <2>1. PICK l : l = Pairs(q, value)
    OBVIOUS
  <2>2. LRU!Listed = l
    BY <1>1, <2>1, ListedIs
  <2>3. LRU!Listed' = Pairs(m, value)
    <3>1. LRU!Listed' = Pairs(m, value')
      BY <1>10, ListedNext
    <3> QED
      BY <1>2, <3>1
  <2>4. ValuesOf(q, value)
    BY <1>4 DEF ValuesOf, RingInv
  <2>5. /\ Sound(l, Held(q)) /\ l[p].key = q[p] /\ l[p].value = value[k] /\ Len(l) = Len(q)
    BY <1>5, <1>8, <2>1, <2>4, PairsSound
  <2>6. At(l, k) = p
    BY <1>5, <1>8, <2>5, PlaceIs
  <2>7. LRU!LRU!Position(k) = p
    BY <2>2, <2>6 DEF LRU!LRU!Position, At
  <2>8. PICK v \in Values : v = value[k]
    BY <1>2 DEF RingInv
  <2>9. LRU!Listed' = FrontOf(l, p, v)
    BY <1>5, <1>6, <1>8, <2>1, <2>3, <2>4, <2>8, PairsMoved
  <2>10. LRU!Listed' = LRU!LRU!MoveToFront(k, LRU!Listed[LRU!LRU!Position(k)].value)
    BY <1>5, <2>2, <2>5, <2>7, <2>8, <2>9 DEF LRU!LRU!MoveToFront, FrontOf
  <2> QED
    BY <1>2, <2>10 DEF LRU!LRU!Get
<1> QED
  BY <1>11, <1>12

\* The assignments after it: a stuttering step of LRUCache.
LEMMA MoveStep ==
    ASSUME OneAtATime, RingInv, NEW r \in Readers, LRU!GetMove(r)
    PROVE  RingInv' /\ UNCHANGED <<LRU!Listed, value>>
<1>1. PICK e, a : e = move[r].key /\ a = move[r].at
  OBVIOUS
<1>2. /\ move[r] # LRU!Idle /\ ring' = LRU!Assignment(a, ring, e)
      /\ move' = [move EXCEPT ![r] = IF @.at = 6 THEN LRU!Idle
                                     ELSE [key |-> @.key, at |-> @.at + 1]]
      /\ value' = value
  BY <1>1 DEF LRU!GetMove
<1>3. move \in [Readers -> Movers] /\ move[r] = [key |-> e, at |-> a] /\ e \in Keys /\ a \in 1..6
  BY <1>1, <1>2 DEF RingInv, Movers
<1>4. LRU!Settled = LRU!Assignments(a, 6, ring, e)
  BY <1>1, <1>2, SettledMoving
<1>5. LRU!Settled = LRU!Assignments(a + 1, 6, ring', e)
  BY <1>2, <1>3, <1>4, FirstAssignment
<1>6. move' \in [Readers -> Movers] /\ LRU!Settled' = LRU!Settled
  <2>1. CASE a = 6
    <3>1. move' = [move EXCEPT ![r] = LRU!Idle]
      BY <1>1, <1>2, <2>1
    <3>2. ~ LRU!Locked'
      BY <1>3, <3>1 DEF OneAtATime, LRU!Locked
    <3>3. LRU!Settled' = ring'
      BY <3>2 DEF LRU!Settled
    <3>4. LRU!Assignments(7, 6, ring', e) = ring'
      BY NoAssignment
    <3> QED
      BY <1>3, <1>5, <2>1, <3>1, <3>3, <3>4 DEF Movers
  <2>2. CASE a # 6
    <3>1. PICK b \in 1..6 : b = a + 1
      BY <1>3, <2>2
    <3>2. move' = [move EXCEPT ![r] = [key |-> e, at |-> b]]
      BY <1>1, <1>2, <1>3, <2>2, <3>1
    <3>3. move'[r] = [key |-> e, at |-> b] /\ move' \in [Readers -> Movers]
      BY <1>3, <3>2 DEF Movers
    <3>4. move'[r] # LRU!Idle
      BY <3>3 DEF LRU!Idle
    <3>5. LRU!Settled' = LRU!Assignments(move'[r].at, 6, ring', move'[r].key)
      BY <3>4, SettledNext
    <3> QED
      BY <1>5, <3>1, <3>3, <3>5
  <2> QED
    BY <2>1, <2>2
<1>7. PICK q : RingOf(q)
  BY DEF RingInv
<1>8. RingOf(q)'
  BY <1>2, <1>6, <1>7 DEF RingOf
<1>9. RingInv'
  <2>1. \E s : RingOf(s)'
    BY <1>8
  <2> QED
    BY <1>2, <1>6, <2>1 DEF RingInv
<1>10. LRU!Listed' = LRU!Listed
  <2>1. LRU!Listed = Pairs(q, value)
    BY <1>7, ListedIs
  <2>2. LRU!Listed' = Pairs(q, value')
    BY <1>8, ListedNext
  <2> QED
    BY <1>2, <2>1, <2>2
<1> QED
  BY <1>2, <1>9, <1>10

\* A Set of a key that is there.
LEMMA OverwriteStep ==
    ASSUME RingInv, NEW k \in DOMAIN value, k \in Keys, NEW v \in Values, LRU!Set_(k, v)
    PROVE  RingInv' /\ LRU!LRU!SetPresent(k, v)
<1>1. PICK q : RingOf(q)
  BY DEF RingInv
<1>2. /\ ~ LRU!Locked /\ move' = move
      /\ ring' = LRU!MovedToFront(ring, k) /\ value' = [value EXCEPT ![k] = v]
  BY DEF LRU!Set_
<1>3. LRU!Settled = ring /\ LRU!Settled' = ring'
  <2>1. ~ LRU!Locked'
    BY <1>2 DEF LRU!Locked
  <2> QED
    BY <1>2, <2>1 DEF LRU!Settled
<1>4. RingList(q) /\ Held(q) = DOMAIN value /\ Ring(ring, q)
      /\ Cardinality(DOMAIN value) = Len(q) /\ Len(q) <= Capacity /\ Len(q) \in Nat
  BY <1>1, <1>3, RingNodes DEF RingOf
<1>5. PICK p \in 1..Len(q) : q[p] = k
  BY <1>4 DEF Held
<1>6. PICK m : m = Moved(q, p)
  OBVIOUS
<1>7. /\ RingList(m) /\ Len(m) = Len(q) /\ Held(m) = Held(q)
      /\ \A i \in 1..Len(q) : m[i] = IF i = 1 THEN q[p] ELSE IF i <= p THEN q[i - 1] ELSE q[i]
  BY <1>4, <1>6, MovedList
<1>8. Ring(ring', m)
  <2>1. /\ ring.next[root] = q[1] /\ 1 \in 1..Len(q)
    <3>1. 0 \in 0..Len(q) /\ 0 + 1 = 1 /\ 1 \in 1..Len(q)
      BY <1>4
    <3>2. NodeAt(q, 0) = root /\ NodeAt(q, 1) = q[1]
      BY <1>4, <3>1 DEF NodeAt
    <3> QED
      BY <1>4, <3>1, <3>2 DEF Ring
  <2>2. CASE p = 1
    <3>1. \A i \in 1..Len(q) : m[i] = q[i]
      BY <1>4, <1>7, <2>2
    <3>2. m = q
      BY <1>4, <1>7, <3>1, SeqEqual DEF RingList
    <3>3. ring' = ring
      BY <1>2, <1>5, <2>1, <2>2 DEF LRU!MovedToFront
    <3> QED
      BY <1>4, <3>2, <3>3
  <2>3. CASE p # 1
    <3>1. ring.next[root] # k
      BY <1>4, <1>5, <2>1, <2>3 DEF RingList, Distinct
    <3>2. ring' = LRU!Assignments(1, 6, ring, q[p])
      BY <1>2, <1>5, <3>1 DEF LRU!MovedToFront
    <3>3. p \in 2..Len(q)
      BY <1>4, <2>3
    <3> QED
      BY <1>4, <1>6, <3>2, <3>3, MovedRing
  <2> QED
    BY <2>2, <2>3
<1>9. DOMAIN value' = DOMAIN value /\ value'[k] = v /\ \A j \in DOMAIN value : j # k => value'[j] = value[j]
  BY <1>2
<1>10. RingOf(m)'
  BY <1>3, <1>4, <1>7, <1>8, <1>9 DEF RingOf
<1>11. RingInv'
  <2>1. \A j \in DOMAIN value' : value'[j] \in Values
    BY <1>9 DEF RingInv
  <2>2. \E s : RingOf(s)'
    BY <1>10
  <2> QED
    BY <1>2, <1>9, <2>1, <2>2 DEF RingInv
<1>12. LRU!LRU!SetPresent(k, v)
  <2>1. PICK l, u : l = Pairs(q, value) /\ u = value'
    OBVIOUS
  <2>2. LRU!Listed = l
    BY <1>1, <2>1, ListedIs
  <2>3. LRU!Listed' = Pairs(m, u)
    BY <1>10, <2>1, ListedNext
  <2>4. ValuesOf(q, value)
    BY <1>4 DEF ValuesOf, RingInv
  <2>5. Sound(l, Held(q)) /\ l[p].key = q[p] /\ Len(l) = Len(q)
    BY <2>1, <2>4, PairsSound
  <2>6. At(l, k) = p
    BY <1>5, <2>5, PlaceIs
  <2>7. LRU!LRU!Position(k) = p
    BY <2>2, <2>6 DEF LRU!LRU!Position, At
  <2>8. LRU!Listed' = FrontOf(l, p, v)
    <3>1. u[q[p]] = v /\ \A j \in Held(q) : j # q[p] => u[j] = value[j]
      BY <1>4, <1>5, <1>9, <2>1
    <3> QED
      BY <1>6, <2>1, <2>3, <2>4, <3>1, PairsMoved
  <2>9. LRU!Listed' = LRU!LRU!MoveToFront(k, v)
    BY <1>5, <2>2, <2>5, <2>7, <2>8 DEF LRU!LRU!MoveToFront, FrontOf
  <2> QED
    BY <1>9, <2>9 DEF LRU!LRU!SetPresent
<1> QED
  BY <1>11, <1>12

\* A Set of a key that is not there.
LEMMA InsertStep ==
    ASSUME RingInv, NEW k \in Keys, k \notin DOMAIN value, NEW v \in Values, LRU!Set_(k, v)
    PROVE  RingInv' /\ LRU!LRU!SetAbsent(k, v)
<1>1. PICK q : RingOf(q)
  BY DEF RingInv
<1>2. PICK o : o = ring.prev[root]
  OBVIOUS
<1>f. PICK full \in BOOLEAN : full <=> Cardinality(DOMAIN value) >= Capacity
  OBVIOUS
<1>3. PICK gone : /\ full <=> Cardinality(DOMAIN value) >= Capacity
                  /\ gone = IF full THEN {o} ELSE {}
  BY <1>f
<1>4. /\ ~ LRU!Locked /\ move' = move
      /\ ring' = LRU!PushedFront(IF full THEN LRU!RemovedBack(ring) ELSE ring, k)
      /\ value' = [j \in (DOMAIN value \ gone) \cup {k} |-> IF j = k THEN v ELSE value[j]]
  BY <1>2, <1>3, LRUCardinality DEF LRU!Set_
<1>5. LRU!Settled = ring /\ LRU!Settled' = ring'
  <2>1. ~ LRU!Locked'
    BY <1>4 DEF LRU!Locked
  <2> QED
    BY <1>4, <2>1 DEF LRU!Settled
<1>6. RingList(q) /\ Held(q) = DOMAIN value /\ Ring(ring, q)
      /\ Cardinality(DOMAIN value) = Len(q) /\ Len(q) <= Capacity /\ Len(q) \in Nat
  BY <1>1, <1>5, RingNodes DEF RingOf
<1>7. Capacity \in Nat \ {0} /\ LRU!LRU!capacity = Capacity
  BY CachesConstants DEF LRU!TSLRUConstants, LRU!LRU!capacity
<1>8. PICK l, u, e : l = Pairs(q, value) /\ u = value' /\ e = [key |-> k, value |-> v]
  OBVIOUS
<1>9. ValuesOf(q, value)
  BY <1>6 DEF ValuesOf, RingInv
<1>10. Len(l) = Len(q) /\ \A i \in 1..Len(q) : l[i].key = q[i]
  BY <1>8, <1>9, PairsSound
<1>11. PICK s, q1, l1 : /\ s = (IF full THEN LRU!RemovedBack(ring) ELSE ring)
                        /\ q1 = (IF full THEN Shorter(q) ELSE q)
                        /\ l1 = (IF full THEN ButLast(l) ELSE l)
  OBVIOUS
<1>12. /\ Ring(s, q1) /\ RingList(q1) /\ Held(q1) = DOMAIN value \ gone
       /\ l1 = Pairs(q1, value) /\ Len(q1) < Capacity /\ Len(q1) \in Nat
       /\ Cardinality(DOMAIN value \ gone) = Len(q1) /\ IsFiniteSet(DOMAIN value \ gone)
       /\ full => o = q[Len(q)]
  <2>1. CASE full
    <3>1. Len(q) > 0 /\ Len(q) = Capacity
      BY <1>3, <1>6, <1>7, <2>1
    <3>2. s = LRU!RemovedBack(ring) /\ q1 = Shorter(q) /\ l1 = ButLast(l) /\ gone = {o}
      BY <1>3, <1>11, <2>1
    <3>3. Ring(s, q1) /\ o = q[Len(q)]
      BY <1>2, <1>6, <3>1, <3>2, ShorterRing
    <3>4. RingList(q1) /\ Len(q1) = Len(q) - 1 /\ Held(q1) = Held(q) \ {o} /\ o \in Held(q)
      BY <1>6, <3>1, <3>2, <3>3, ShorterList
    <3>5. l1 = Pairs(q1, value)
      BY <1>8, <1>9, <3>1, <3>2, PairsShorter
    <3>6. IsFiniteSet(DOMAIN value \ {o}) /\ Cardinality(DOMAIN value \ {o}) = Len(q) - 1
      BY <1>6, <3>4, FS_RemoveElement DEF RingInv
    <3> QED
      BY <1>6, <1>7, <3>1, <3>2, <3>3, <3>4, <3>5, <3>6
  <2>2. CASE ~ full
    <3>1. Len(q) < Capacity
      BY <1>3, <1>6, <1>7, <2>2
    <3>2. s = ring /\ q1 = q /\ l1 = l /\ gone = {} /\ DOMAIN value \ gone = DOMAIN value
      BY <1>3, <1>11, <2>2
    <3> QED
      BY <1>6, <1>8, <2>2, <3>1, <3>2 DEF RingInv
  <2> QED
    BY <2>1, <2>2
<1>13. PICK m : m = Longer(q1, k)
  OBVIOUS
<1>14. k \notin Held(q1)
  BY <1>12
<1>15. RingList(m) /\ Len(m) = Len(q1) + 1 /\ Held(m) = Held(q1) \cup {k}
  BY <1>12, <1>13, <1>14, LongerList
<1>16. Ring(ring', m)
  <2>1. ring' = LRU!PushedFront(s, k)
    BY <1>4, <1>11
  <2> QED
    BY <1>12, <1>13, <1>14, <2>1, LongerRing
<1>17. /\ DOMAIN u = (DOMAIN value \ gone) \cup {k} /\ u[k] = v
       /\ \A j \in DOMAIN value \ gone : u[j] = value[j]
  BY <1>4, <1>8
<1>18. RingOf(m)'
  <2>1. Cardinality(DOMAIN u) = Len(q1) + 1
    BY <1>12, <1>17, FS_AddElement
  <2>2. Len(q1) + 1 <= Capacity
    BY <1>7, <1>12
  <2>3. Held(m) = DOMAIN u
    BY <1>12, <1>15, <1>17
  <2> QED
    BY <1>5, <1>8, <1>15, <1>16, <2>1, <2>2, <2>3 DEF RingOf
<1>19. RingInv'
  <2>1. \A j \in DOMAIN value' : value'[j] \in Values
    BY <1>8, <1>17 DEF RingInv
  <2>2. \E r : RingOf(r)'
    BY <1>18
  <2>3. IsFiniteSet(DOMAIN value')
    BY <1>8, <1>12, <1>17, FS_AddElement
  <2> QED
    BY <1>4, <2>1, <2>2, <2>3 DEF RingInv
<1>20. LRU!LRU!SetAbsent(k, v)
  <2>1. LRU!Listed = l
    BY <1>1, <1>8, ListedIs
  <2>2. LRU!Listed' = Pairs(m, u)
    BY <1>8, <1>18, ListedNext
  <2>3. ValuesOf(q1, value)
    BY <1>12 DEF ValuesOf, RingInv
  <2>4. LRU!Listed' = Prepended(e, l1)
    <3>1. \A j \in Held(q1) : u[j] = value[j]
      BY <1>12, <1>17
    <3> QED
      BY <1>8, <1>12, <1>13, <1>14, <1>17, <2>2, <2>3, <3>1, PairsLonger
  <2>5. full <=> Len(l) >= LRU!LRU!capacity
    BY <1>3, <1>6, <1>7, <1>10
  <2>6. LRU!Listed' = <<[key |-> k, value |-> v]>> \o
            (IF Len(l) >= LRU!LRU!capacity THEN SubSeq(l, 1, Len(l) - 1) ELSE l)
    <3>1. l1 = IF Len(l) >= LRU!LRU!capacity THEN SubSeq(l, 1, Len(l) - 1) ELSE l
      BY <1>11, <2>5 DEF ButLast
    <3> QED
      BY <1>8, <2>4, <3>1 DEF Prepended
  <2>7. DOMAIN value' = (IF Len(l) >= LRU!LRU!capacity THEN DOMAIN value \ {l[Len(l)].key}
                         ELSE DOMAIN value) \cup {k}
    <3>1. CASE full
      <4>1. o = l[Len(l)].key
        <5>1. Len(q) \in 1..Len(q)
          BY <1>3, <1>6, <1>7, <3>1
        <5> QED
          BY <1>10, <1>12, <3>1, <5>1
      <4> QED
        BY <1>3, <1>8, <1>17, <2>5, <3>1, <4>1
    <3>2. CASE ~ full
      BY <1>3, <1>8, <1>17, <2>5, <3>2
    <3> QED
      BY <3>1, <3>2
  <2> QED
    BY <2>1, <2>6, <2>7 DEF LRU!LRU!SetAbsent
<1> QED
  BY <1>19, <1>20

LEMMA RingKeys == RingInv => DOMAIN value \subseteq Keys
<1> SUFFICES ASSUME RingInv PROVE DOMAIN value \subseteq Keys
  OBVIOUS
<1>1. PICK q : RingOf(q)
  BY DEF RingInv
<1>2. RingList(q) /\ Held(q) = DOMAIN value
  BY <1>1 DEF RingOf
<1> QED
  BY <1>2, RingNodes DEF Held

\* Every step of ThreadSafeLRUCache is one of LRUCache or changes nothing of it.
LEMMA RingStep ==
    ASSUME OneAtATime, RingInv, [Next]_vars
    PROVE  RingInv' /\ [LRU!LRU!Next]_(LRU!LRU!vars)
<1>1. ASSUME NEW r \in Readers, LRU!GetMove(r)
      PROVE  RingInv' /\ UNCHANGED LRU!LRU!vars
  <2>1. RingInv' /\ UNCHANGED <<LRU!Listed, value>>
    BY <1>1, MoveStep
  <2> QED
    BY <2>1 DEF LRU!LRU!vars
<1>2. ASSUME NEW r \in Readers, NEW k \in Keys, LRU!GetStart(r, k)
      PROVE  RingInv' /\ LRU!LRU!Next
  BY <1>2, StartStep DEF LRU!LRU!Next
<1>3. ASSUME NEW k \in Keys, NEW v \in Values, LRU!Set_(k, v)
      PROVE  RingInv' /\ LRU!LRU!Next
  <2>1. CASE k \in DOMAIN value
    BY <1>3, <2>1, OverwriteStep DEF LRU!LRU!Next
  <2>2. CASE k \notin DOMAIN value
    BY <1>3, <2>2, InsertStep DEF LRU!LRU!Next
  <2> QED
    BY <2>1, <2>2
<1>4. CASE UNCHANGED lruVars
  <2>1. ring' = ring /\ value' = value /\ move' = move
    BY <1>4 DEF lruVars
  <2>2. LRU!Settled' = LRU!Settled
    BY <2>1 DEF LRU!Settled, LRU!Locked
  <2>3. LRU!Listed' = LRU!Listed
    BY <2>1, <2>2 DEF LRU!Listed
  <2>4. RingInv'
    <3>1. PICK q : RingOf(q)
      BY DEF RingInv
    <3>2. RingOf(q)'
      BY <2>1, <2>2, <3>1 DEF RingOf
    <3>3. \E s : RingOf(s)'
      BY <3>2
    <3> QED
      BY <2>1, <3>3 DEF RingInv
  <2> QED
    BY <2>1, <2>3, <2>4 DEF LRU!LRU!vars
<1>5. LRU!Next \/ UNCHANGED lruVars
  BY DEF Next, vars, lruVars
<1> QED
  BY <1>1, <1>2, <1>3, <1>4, <1>5 DEF LRU!Next

LEMMA RingStart == Init => RingInv /\ LRU!LRU!Init
<1> SUFFICES ASSUME Init PROVE RingInv /\ LRU!LRU!Init
  OBVIOUS
<1>1. /\ ring = [next |-> [n \in LRU!Nodes |-> IF n = root THEN root ELSE nil],
                 prev |-> [n \in LRU!Nodes |-> IF n = root THEN root ELSE nil]]
      /\ value = [k \in {} |-> 0] /\ move = [r \in Readers |-> LRU!Idle]
  BY DEF Init, LRU!Init
<1>2. PICK q : q = << >>
  OBVIOUS
<1>3. RingList(q) /\ Len(q) = 0 /\ Held(q) = {} /\ \A i \in Int : NodeAt(q, i) = root
  <2>1. q \in Seq(Keys) /\ Len(q) = 0
    BY <1>2
  <2> QED
    BY <2>1 DEF RingList, Distinct, Held, NodeAt
<1>4. LRU!Settled = ring
  <2>1. ~ LRU!Locked
    BY <1>1 DEF LRU!Locked
  <2> QED
    BY <2>1, SettledStill
<1>5. Ring(ring, q)
  <2>1. ring \in Rings /\ ring.next[root] = root /\ ring.prev[root] = root
    BY <1>1 DEF Rings, LRU!Nodes
  <2> QED
    BY <1>3, <2>1 DEF Ring
<1>6. DOMAIN value = {} /\ Cardinality(DOMAIN value) = 0 /\ IsFiniteSet(DOMAIN value)
  BY <1>1, FS_EmptySet
<1>7. RingOf(q)
  <2>1. 0 <= Capacity
    BY CachesConstants DEF LRU!TSLRUConstants
  <2> QED
    BY <1>3, <1>4, <1>5, <1>6, <2>1 DEF RingOf
<1>8. RingInv
  <2>1. move \in [Readers -> Movers]
    BY <1>1 DEF Movers
  <2> QED
    BY <1>6, <1>7, <2>1 DEF RingInv
<1>9. LRU!Listed = << >>
  <2>1. LRU!Listed = Pairs(q, value)
    BY <1>7, ListedIs
  <2> QED
    BY <1>3, <2>1 DEF Pairs
<1> QED
  BY <1>6, <1>8, <1>9 DEF LRU!LRU!Init

\* LFUCache is a bounded cache; and ThreadSafeLRUCache, when no two Gets overlap, is
\* LRUCache assignment of pointer by assignment of pointer, whatever the keys and the
\* capacity, and so a bounded cache too.
THEOREM CachesRefine == ASSUME OneAtATime PROVE Spec => CachesImplement
<1>1. RingInv /\ [Next]_vars => RingInv' /\ [LRU!LRU!Next]_(LRU!LRU!vars)
  BY RingStep
<1>2. Spec => LRU!ImplementsLRU
  BY <1>1, RingStart, PTL DEF Spec, LRU!ImplementsLRU, LRU!LRU!Spec
<1>3. LRU!ImplementsLRU => LRU!ImplementsBoundedCache
  BY LRUImplements DEF LRU!ImplementsLRU, LRU!ImplementsBoundedCache
<1> QED
  BY <1>2, <1>3, LFUImplements, PTL DEF CachesImplement

===============================================================================
