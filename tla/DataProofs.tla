------------------------------ MODULE DataProofs ------------------------------
(***************************************************************************)
(* What is handed to a store or a file comes back as it was, what was done  *)
(* there was done once, and a value of a statement is bound where it was    *)
(* meant: proved for any number of calls, nested functions, processes,      *)
(* attempts, packets, interfaces and sections.                             *)
(***************************************************************************)
EXTENDS MCData, FiniteSetTheorems, SequenceTheorems, WellFoundedInduction, TLAPS

-------------------------------------------------------------------------------
(***************************************************************************)
(* TxContext and NestedTxContext.  The transaction holds what its running   *)
(* functions are expected to have written, and the newest savepoint of each *)
(* level holds what the functions below that level had; the levels never   *)
(* decrease along the savepoints, so that the newest of a level comes       *)
(* before all those of the levels above it.                                *)
(***************************************************************************)
Expected(f, l) == UNION {f[i] : i \in 1..l}
Savepoints == [level : Nat, work : SUBSET Nat]

LevelsAscend ==
    /\ \A i, j \in DOMAIN saves : i <= j => saves[i].level <= saves[j].level
    /\ \A i \in DOMAIN saves : saves[i].level \in 1..Len(frames)

NewestOfLevel(l, p) ==
    /\ saves[p].level = l /\ saves[p].work = Expected(frames, l)
    /\ \A q \in DOMAIN saves : q > p => saves[q].level # l

SavedLevels == LevelsAscend /\ \A l \in 1..Len(frames) - 1 : \E p \in DOMAIN saves : NewestOfLevel(l, p)

WorkExpected ==
    /\ saves \in Seq(Savepoints) /\ work = Expected(frames, Len(frames))
    /\ Tx!effectiveStrategy # "reuse" => SavedLevels

TxTypes == frames \in Seq(SUBSET Nat) /\ writes \in Nat /\ phase \in {"idle", "open", "done"}

TxInv ==
    /\ TxTypes
    /\ phase = "idle" => committed = {} /\ saves = <<>>
    /\ phase = "open" => committed = {} /\ frames # <<>> /\ (~faulty => WorkExpected)
    /\ Tx!CommitsWhatReturned

\* A function ends: its caller comes to expect what is kept of it.
LEMMA LeaveFrames ==
    ASSUME frames \in Seq(SUBSET Nat), Len(frames) > 1, NEW kept \in SUBSET Nat, Tx!Leave(kept)
    PROVE  /\ frames' \in Seq(SUBSET Nat) /\ Len(frames') = Len(frames) - 1 /\ frames' # <<>>
           /\ \A i \in 1..Len(frames) - 2 : frames'[i] = frames[i]
           /\ frames'[Len(frames) - 1] = frames[Len(frames) - 1] \cup kept
<1>1. PICK n \in Nat : n = Len(frames) - 1 /\ n >= 1
  OBVIOUS
<1>2. PICK f : f = SubSeq(frames, 1, n)
  OBVIOUS
<1>3. f \in Seq(SUBSET Nat) /\ Len(f) = n /\ \A i \in 1..n : f[i] = frames[i]
  BY <1>1, <1>2
<1>4. frames' = [f EXCEPT ![n] = f[n] \cup kept]
  BY <1>1, <1>2 DEF Tx!Leave
<1>5. f \in [1..n -> SUBSET Nat]
  <2>1. f \in [1..Len(f) -> SUBSET Nat]
    BY <1>3, LenProperties
  <2> QED
    BY <1>3, <2>1
<1>6. f[n] \cup kept \in SUBSET Nat
  <2>1. f[n] \in SUBSET Nat
    BY <1>1, <1>5
  <2> QED
    BY <2>1
<1>7. frames' \in [1..n -> SUBSET Nat]
  BY <1>4, <1>5, <1>6
<1>8. frames' \in Seq(SUBSET Nat) /\ Len(frames') = n
  BY <1>1, <1>7
<1>9. frames'[n] = f[n] \cup kept /\ \A i \in 1..n : i # n => frames'[i] = f[i]
  BY <1>1, <1>4, <1>5
<1> QED
  BY <1>1, <1>3, <1>8, <1>9, SMTT(30)

\* What is expected up to a level depends on the functions up to it.
LEMMA ExpectedSame ==
    ASSUME NEW f, NEW g, NEW l \in Nat, \A i \in 1..l : f[i] = g[i]
    PROVE  Expected(f, l) = Expected(g, l)
BY DEF Expected

LEMMA ExpectedNext ==
    ASSUME NEW f, NEW l \in Nat
    PROVE  Expected(f, l + 1) = Expected(f, l) \cup f[l + 1]
<1>1. 1..(l + 1) = (1..l) \cup {l + 1}
  OBVIOUS
<1> QED
  BY <1>1 DEF Expected

\* The newest savepoint of the innermost function's name.
LEMMA NamedIsNewest ==
    ASSUME saves \in Seq(Savepoints), NEW p \in DOMAIN saves,
           NewestOfLevel(Len(frames) - 1, p)
    PROVE  Tx!Named = p
<1> DEFINE S == {i \in DOMAIN saves : saves[i].level = Len(frames) - 1}
<1>1. p \in S /\ \A q \in S : p >= q
  BY DEF NewestOfLevel
<1>2. S \subseteq Int
  OBVIOUS
<1>3. \A r \in S : (\A q \in S : r >= q) => r = p
  BY <1>1, <1>2
<1>4. Tx!Named = CHOOSE x \in S : \A y \in S : x >= y
  BY DEF Tx!Named, Tx!Max
<1> HIDE DEF S
<1> QED
  BY <1>1, <1>3, <1>4

\* Going back to a savepoint of the innermost level, or to before it, leaves the lower
\* levels as they were.
LEMMA BackToLevel ==
    ASSUME saves \in Seq(Savepoints), SavedLevels, frames \in Seq(SUBSET Nat), Len(frames) > 1,
           frames' \in Seq(SUBSET Nat), Len(frames') = Len(frames) - 1,
           \A i \in 1..Len(frames) - 2 : frames'[i] = frames[i],
           NEW p \in DOMAIN saves, NewestOfLevel(Len(frames) - 1, p),
           NEW m \in {p - 1, p}, saves' = SubSeq(saves, 1, m)
    PROVE  saves' \in Seq(Savepoints) /\ SavedLevels'
<1>1. PICK n \in Nat : n = Len(frames) - 1 /\ n >= 1
  OBVIOUS
<1>0. Len(saves) \in Nat /\ DOMAIN saves = 1..Len(saves) /\ Len(frames) \in Nat
  BY LenProperties
<1>a. p \in 1..Len(saves) /\ m \in 0..Len(saves)
  BY <1>0
<1>2. /\ saves' \in Seq(Savepoints) /\ Len(saves') = m
      /\ \A i \in 1..m : saves'[i] = saves[i]
  BY <1>a
<1>3. /\ DOMAIN saves = 1..Len(saves) /\ DOMAIN saves' = 1..m
      /\ Len(saves) \in Nat /\ m \in 0..Len(saves) /\ p \in 1..Len(saves) /\ m <= p /\ p - 1 <= m
  BY <1>0, <1>a, <1>2
<1>4. \A i \in DOMAIN saves : saves[i].level \in Nat
  <2>1. \A i \in DOMAIN saves : saves[i] \in Savepoints
    BY <1>0, ElementOfSeq
  <2> QED
    BY <2>1 DEF Savepoints
<1>5. saves[p].level = n
  BY <1>1 DEF NewestOfLevel
<1>6. LevelsAscend
  BY DEF SavedLevels
<1>7. LevelsAscend'
  <2>1. \A i, j \in 1..m : i <= j => saves'[i].level <= saves'[j].level
    BY <1>2, <1>3, <1>6 DEF LevelsAscend
  <2>2. \A i \in 1..m : saves'[i].level \in 1..n
    <3> SUFFICES ASSUME NEW i \in 1..m PROVE saves'[i].level \in 1..n
      OBVIOUS
    <3>1. i \in DOMAIN saves /\ i <= p
      BY <1>3
    <3>2. saves[i].level <= saves[p].level /\ saves[i].level >= 1
      BY <1>6, <3>1 DEF LevelsAscend
    <3> QED
      BY <1>2, <1>4, <1>5, <3>1, <3>2
  <2> QED
    BY <1>1, <1>3, <2>1, <2>2 DEF LevelsAscend
<1>8. ASSUME NEW l \in 1..n - 1 PROVE \E q \in DOMAIN saves' : NewestOfLevel(l, q)'
  <2>0. l \in 1..Len(frames) - 1 /\ l \in Nat
    BY <1>1, <1>8
  <2>1. PICK q \in DOMAIN saves : NewestOfLevel(l, q)
    BY <2>0 DEF SavedLevels
  <2>2. saves[q].level = l
    BY <2>1 DEF NewestOfLevel
  <2>3. q < p
    <3>1. ~(p <= q)
      BY <1>1, <1>5, <1>6, <2>2, <1>8 DEF LevelsAscend
    <3> QED
      BY <1>3, <3>1
  <2>4. q \in 1..m
    BY <1>3, <2>3
  <2>5. Expected(frames', l) = Expected(frames, l)
    <3>1. \A i \in 1..l : i \in 1..Len(frames) - 2
      BY <1>0, <1>1, <1>8
    <3>2. \A i \in 1..l : frames'[i] = frames[i]
      BY <3>1
    <3> QED
      BY <2>0, <3>2, ExpectedSame
  <2>6. \A i \in 1..m : i > q => saves'[i].level # l
    BY <1>2, <1>3, <2>1, SMTT(30) DEF NewestOfLevel
  <2>7. saves'[q].level = l /\ saves'[q].work = Expected(frames', l)
    BY <1>2, <2>1, <2>4, <2>5 DEF NewestOfLevel
  <2> QED
    BY <1>3, <2>4, <2>6, <2>7 DEF NewestOfLevel
<1> QED
  BY <1>1, <1>2, <1>7, <1>8 DEF SavedLevels

LEMMA ExecKeeps == ASSUME TxInv, Tx!Exec PROVE TxInv'
<1>1. PICK w \in Nat : w = writes'
  BY DEF TxInv, TxTypes, Tx!Exec
<1>2. PICK n \in Nat : n = Len(frames)
  BY DEF TxInv, TxTypes
<1>3. /\ frames \in Seq(SUBSET Nat) /\ n >= 1 /\ phase = "open" /\ committed = {}
      /\ ~faulty => WorkExpected
  BY <1>2 DEF TxInv, TxTypes, Tx!Exec
<1>4. /\ work' = work \cup {w} /\ frames' = [frames EXCEPT ![n] = frames[n] \cup {w}]
      /\ UNCHANGED <<committed, phase, strategy, savepoint, saves, faulty>>
  BY <1>1, <1>2 DEF Tx!Exec, Tx!setup
<1>5. /\ frames' \in Seq(SUBSET Nat) /\ Len(frames') = n /\ frames'[n] = frames[n] \cup {w}
      /\ \A i \in 1..n - 1 : frames'[i] = frames[i]
  BY <1>2, <1>3, <1>4
<1>6. ASSUME ~faulty' PROVE WorkExpected'
  <2>1. WorkExpected
    BY <1>3, <1>4, <1>6
  <2>2. \A l \in 0..n - 1 : Expected(frames', l) = Expected(frames, l)
    BY <1>5, ExpectedSame
  <2>3. Expected(frames', n) = Expected(frames', n - 1) \cup frames'[n]
        /\ Expected(frames, n) = Expected(frames, n - 1) \cup frames[n]
    <3>1. PICK l \in Nat : n = l + 1 /\ n - 1 = l
      BY <1>3
    <3>2. \A f : Expected(f, l + 1) = Expected(f, l) \cup f[l + 1]
      BY ExpectedNext
    <3> QED
      BY <3>1, <3>2
  <2>4. work' = Expected(frames', n)
    <3>1. work = Expected(frames, n - 1) \cup frames[n]
      BY <1>2, <2>1, <2>3 DEF WorkExpected
    <3>2. Expected(frames', n) = Expected(frames, n - 1) \cup (frames[n] \cup {w})
      BY <1>3, <1>5, <2>2, <2>3
    <3> QED
      BY <1>4, <3>1, <3>2
  <2>5. SavedLevels => SavedLevels'
    <3> SUFFICES ASSUME SavedLevels PROVE SavedLevels'
      OBVIOUS
    <3>1. LevelsAscend'
      BY <1>2, <1>4, <1>5 DEF SavedLevels, LevelsAscend
    <3>2. ASSUME NEW l \in 1..n - 1 PROVE \E q \in DOMAIN saves' : NewestOfLevel(l, q)'
      <4>1. l \in 1..Len(frames) - 1 /\ l \in 0..n - 1
        BY <1>2, <1>3, <3>2
      <4>2. PICK q \in DOMAIN saves : NewestOfLevel(l, q)
        BY <4>1 DEF SavedLevels
      <4>3. Expected(frames', l) = Expected(frames, l)
        BY <2>2, <4>1
      <4> QED
        BY <1>4, <4>2, <4>3 DEF NewestOfLevel
    <3> QED
      BY <1>5, <3>1, <3>2 DEF SavedLevels
  <2>6. Tx!effectiveStrategy' = Tx!effectiveStrategy
    BY <1>4 DEF Tx!effectiveStrategy
  <2> QED
    BY <1>4, <1>5, <2>1, <2>4, <2>5, <2>6 DEF WorkExpected
<1> QED
  BY <1>1, <1>3, <1>4, <1>5, <1>6 DEF TxInv, TxTypes, Tx!CommitsWhatReturned

LEMMA NestedKeeps == ASSUME TxInv, Tx!NestedTxContext PROVE TxInv'
<1>1. PICK n \in Nat : n = Len(frames)
  BY DEF TxInv, TxTypes
<1>2. /\ frames \in Seq(SUBSET Nat) /\ n >= 1 /\ phase = "open" /\ committed = {}
      /\ ~faulty => WorkExpected
  BY <1>1 DEF TxInv, TxTypes, Tx!NestedTxContext
<1>3. /\ frames' = Append(frames, {})
      /\ saves' = IF Tx!effectiveStrategy = "reuse" THEN saves
                  ELSE Append(saves, [level |-> n, work |-> work])
      /\ UNCHANGED <<committed, phase, strategy, savepoint, work, faulty, writes>>
  BY <1>1 DEF Tx!NestedTxContext, Tx!setup
<1>4. /\ frames' \in Seq(SUBSET Nat) /\ Len(frames') = n + 1 /\ frames' # <<>>
      /\ frames'[n + 1] = {} /\ \A i \in 1..n : frames'[i] = frames[i]
  BY <1>1, <1>2, <1>3
<1>5. ASSUME ~faulty' PROVE WorkExpected'
  <2>1. WorkExpected
    BY <1>2, <1>3, <1>5
  <2>2. \A l \in 0..n : Expected(frames', l) = Expected(frames, l)
    <3> TAKE l \in 0..n
    <3>1. l \in Nat /\ \A i \in 1..l : frames'[i] = frames[i]
      BY <1>4
    <3> QED
      BY <3>1, ExpectedSame
  <2>3. work' = Expected(frames', n + 1)
    <3>1. Expected(frames', n + 1) = Expected(frames', n) \cup {}
      BY <1>4, ExpectedNext
    <3> QED
      BY <1>1, <1>3, <2>1, <2>2, <3>1 DEF WorkExpected
  <2>4. Tx!effectiveStrategy' = Tx!effectiveStrategy
    BY <1>3 DEF Tx!effectiveStrategy
  <2>5. CASE Tx!effectiveStrategy = "reuse"
    BY <1>3, <1>4, <2>1, <2>3, <2>4, <2>5 DEF WorkExpected
  <2>6. CASE Tx!effectiveStrategy # "reuse"
    <3>1. saves \in Seq(Savepoints) /\ SavedLevels /\ work = Expected(frames, n)
      BY <1>1, <2>1, <2>6 DEF WorkExpected
    <3>2. PICK m \in Nat : m = Len(saves) /\ DOMAIN saves = 1..m
      BY <3>1, LenProperties
    <3>3. work \in SUBSET Nat
      <4>1. \A i \in 1..n : frames[i] \in SUBSET Nat
        BY <1>1, <1>2, ElementOfSeq
      <4> QED
        BY <3>1, <4>1 DEF Expected
    <3>4. PICK e : e = [level |-> n, work |-> work]
      OBVIOUS
    <3>5. e \in Savepoints
      BY <3>3, <3>4 DEF Savepoints
    <3>6. /\ saves' \in Seq(Savepoints) /\ Len(saves') = m + 1 /\ saves'[m + 1] = e
          /\ \A i \in 1..m : saves'[i] = saves[i]
      BY <1>3, <2>6, <3>1, <3>2, <3>4, <3>5
    <3>7. DOMAIN saves' = 1..m + 1
      BY <3>2, <3>6, LenProperties
    <3>8. \A i \in 1..m : saves[i].level \in 1..n
      BY <1>1, <3>1, <3>2 DEF SavedLevels, LevelsAscend
    <3>9. LevelsAscend'
      <4>1. \A i \in 1..m + 1 : saves'[i].level \in 1..n + 1
        BY <1>2, <3>2, <3>4, <3>6, <3>8
      <4>2. ASSUME NEW i \in 1..m + 1, NEW j \in 1..m + 1, i <= j
            PROVE  saves'[i].level <= saves'[j].level
        <5>1. CASE j \in 1..m
          <6>1. i \in 1..m
            BY <3>2, <4>2, <5>1
          <6> QED
            BY <3>1, <3>2, <3>6, <4>2, <5>1, <6>1 DEF SavedLevels, LevelsAscend
        <5>2. CASE j = m + 1
          <6>1. saves'[j].level = n
            BY <3>4, <3>6, <5>2
          <6>2. i \in 1..m \/ i = m + 1
            BY <3>2
          <6> QED
            BY <1>1, <3>6, <3>8, <5>2, <6>1, <6>2
        <5> QED
          BY <3>2, <5>1, <5>2
      <4> QED
        BY <1>4, <3>7, <4>1, <4>2 DEF LevelsAscend
    <3>10. ASSUME NEW l \in 1..n PROVE \E q \in DOMAIN saves' : NewestOfLevel(l, q)'
      <4>1. Expected(frames', l) = Expected(frames, l)
        BY <2>2
      <4>2. CASE l = n
        <5>1. saves'[m + 1].level = l /\ saves'[m + 1].work = Expected(frames', l)
          BY <3>1, <3>4, <3>6, <4>1, <4>2
        <5>2. \A q \in 1..m + 1 : ~(q > m + 1)
          BY <3>2
        <5> QED
          BY <3>2, <3>7, <5>1, <5>2 DEF NewestOfLevel
      <4>3. CASE l # n
        <5>1. l \in 1..Len(frames) - 1
          BY <1>1, <4>3
        <5>2. PICK q \in 1..m : NewestOfLevel(l, q)
          BY <3>1, <3>2, <5>1 DEF SavedLevels
        <5>3. saves'[q].level = l /\ saves'[q].work = Expected(frames', l)
          BY <3>6, <4>1, <5>2 DEF NewestOfLevel
        <5>4. \A i \in 1..m : i > q => saves'[i].level # l
          BY <3>2, <3>6, <5>2 DEF NewestOfLevel
        <5>5. saves'[m + 1].level # l
          BY <3>4, <3>6, <4>3
        <5>6. \A i \in 1..m + 1 : i > q => saves'[i].level # l
          BY <3>2, <5>4, <5>5
        <5>7. q \in 1..m + 1
          BY <3>2
        <5> QED
          BY <3>7, <5>3, <5>6, <5>7 DEF NewestOfLevel
      <4> QED
        BY <4>2, <4>3
    <3>11. SavedLevels'
      BY <1>1, <1>4, <3>9, <3>10 DEF SavedLevels
    <3> QED
      BY <1>4, <2>3, <3>6, <3>11 DEF WorkExpected
  <2> QED
    BY <2>5, <2>6
<1> QED
  BY <1>2, <1>3, <1>4, <1>5 DEF TxInv, TxTypes, Tx!CommitsWhatReturned

\* A nested function ends: with what it wrote kept, or not, in the transaction and in
\* what its caller expects.
LEMMA NestedEnds ==
    ASSUME TxInv, phase = "open", Len(frames) > 1, NEW kept \in SUBSET Nat, Tx!Leave(kept),
           UNCHANGED <<committed, phase, strategy, savepoint, writes>>,
           ~faulty' =>
              /\ ~faulty
              /\ \/ Tx!effectiveStrategy = "reuse" /\ kept = Tx!Own /\ UNCHANGED <<work, saves>>
                 \/ Tx!effectiveStrategy # "reuse" /\ kept = {} /\ Tx!execRollbackTo
                 \/ Tx!effectiveStrategy # "reuse" /\ kept = Tx!Own /\ Tx!execRelease
    PROVE  TxInv'
<1>1. PICK n \in Nat : n = Len(frames) - 1 /\ n + 1 = Len(frames) /\ n >= 1
  BY DEF TxInv, TxTypes
<1>2. /\ frames \in Seq(SUBSET Nat) /\ committed = {}
      /\ ~faulty => WorkExpected
  BY DEF TxInv, TxTypes
<1>3. /\ frames' \in Seq(SUBSET Nat) /\ Len(frames') = n /\ frames' # <<>>
      /\ \A i \in 1..n - 1 : frames'[i] = frames[i]
      /\ frames'[n] = frames[n] \cup kept
  <2>1. /\ Len(frames') = Len(frames) - 1
        /\ \A i \in 1..Len(frames) - 2 : frames'[i] = frames[i]
        /\ frames'[Len(frames) - 1] = frames[Len(frames) - 1] \cup kept
        /\ frames' \in Seq(SUBSET Nat) /\ frames' # <<>>
    BY <1>2, LeaveFrames
  <2>2. n - 1 = Len(frames) - 2
    BY <1>1
  <2> QED
    BY <1>1, <2>1, <2>2
<1>4. \A l \in 0..n - 1 : Expected(frames', l) = Expected(frames, l)
  <2> TAKE l \in 0..n - 1
  <2>1. l \in Nat /\ \A i \in 1..l : frames'[i] = frames[i]
    BY <1>1, <1>3
  <2> QED
    BY <2>1, ExpectedSame
<1>5. /\ Expected(frames', n) = Expected(frames, n - 1) \cup (frames[n] \cup kept)
      /\ Expected(frames, n) = Expected(frames, n - 1) \cup frames[n]
      /\ Expected(frames, n + 1) = Expected(frames, n) \cup frames[n + 1]
  <2>1. PICK l \in Nat : n = l + 1 /\ n - 1 = l
    BY <1>1
  <2>2. \A f, k : k \in Nat => Expected(f, k + 1) = Expected(f, k) \cup f[k + 1]
    BY ExpectedNext
  <2>3. Expected(frames', l) = Expected(frames, l)
    BY <1>4, <2>1
  <2>4. Expected(frames', l + 1) = Expected(frames', l) \cup frames'[l + 1]
        /\ Expected(frames, l + 1) = Expected(frames, l) \cup frames[l + 1]
        /\ Expected(frames, n + 1) = Expected(frames, n) \cup frames[n + 1]
    BY <2>2
  <2> QED
    BY <1>3, <2>1, <2>3, <2>4
<1>6. ASSUME ~faulty' PROVE WorkExpected'
  <2>1. WorkExpected /\ work = Expected(frames, n + 1) /\ saves \in Seq(Savepoints)
    BY <1>1, <1>2, <1>6 DEF WorkExpected
  <2>2. Tx!effectiveStrategy' = Tx!effectiveStrategy
    BY DEF Tx!effectiveStrategy
  <2>3. Tx!Own = frames[n + 1]
    BY <1>1 DEF Tx!Own
  <2>4. kept = Tx!Own => Expected(frames', n) = work
    BY <1>5, <2>1, <2>3
  <2>5. kept = {} => Expected(frames', n) = Expected(frames, n)
    BY <1>5
  <2>6. CASE Tx!effectiveStrategy = "reuse"
    BY <1>3, <1>6, <2>1, <2>2, <2>4, <2>6 DEF WorkExpected
  <2>7. CASE Tx!effectiveStrategy # "reuse"
    <3>1. SavedLevels
      BY <2>1, <2>7 DEF WorkExpected
    <3>2. PICK p \in DOMAIN saves : NewestOfLevel(n, p)
      BY <1>1, <3>1 DEF SavedLevels
    <3>3. Tx!Named = p
      BY <1>1, <2>1, <3>2, NamedIsNewest
    <3>4. /\ \A i \in 1..Len(frames) - 2 : frames'[i] = frames[i]
          /\ Len(frames') = Len(frames) - 1 /\ NewestOfLevel(Len(frames) - 1, p)
      <4>1. Len(frames) - 2 = n - 1
        BY <1>1
      <4> QED
        BY <1>1, <1>3, <3>2, <4>1
    <3>5. CASE kept = {} /\ Tx!execRollbackTo
      <4>1. work' = Expected(frames', n) /\ saves' = SubSeq(saves, 1, p)
        BY <2>5, <3>2, <3>3, <3>5 DEF Tx!execRollbackTo, NewestOfLevel
      <4>2. saves' \in Seq(Savepoints) /\ SavedLevels'
        BY <1>2, <1>3, <2>1, <3>1, <3>4, <4>1, BackToLevel
      <4> QED
        BY <1>3, <4>1, <4>2 DEF WorkExpected
    <3>6. CASE kept = Tx!Own /\ Tx!execRelease
      <4>1. work' = Expected(frames', n) /\ saves' = SubSeq(saves, 1, p - 1)
        BY <2>4, <3>3, <3>6 DEF Tx!execRelease
      <4>2. saves' \in Seq(Savepoints) /\ SavedLevels'
        BY <1>2, <1>3, <2>1, <3>1, <3>4, <4>1, BackToLevel
      <4> QED
        BY <1>3, <4>1, <4>2 DEF WorkExpected
    <3> QED
      BY <1>6, <2>7, <3>5, <3>6
  <2> QED
    BY <2>6, <2>7
<1> QED
  BY <1>2, <1>3, <1>6 DEF TxInv, TxTypes, Tx!CommitsWhatReturned

LEMMA TxStep == TxInv /\ [Tx!TxNext]_txVars => TxInv'
<1> SUFFICES ASSUME TxInv, [Tx!TxNext]_txVars PROVE TxInv'
  OBVIOUS
<1> USE DEF Tx!setup, Tx!count
<1>1. CASE Tx!BeginTx
  <2>1. /\ phase = "idle" /\ committed = {} /\ saves = <<>> /\ writes \in Nat
        /\ phase' = "open" /\ work' = {} /\ frames' = <<{}>>
        /\ UNCHANGED <<committed, strategy, savepoint, saves, faulty, writes>>
    BY <1>1 DEF TxInv, TxTypes, Tx!BeginTx
  <2>2. frames' \in Seq(SUBSET Nat) /\ Len(frames') = 1 /\ frames' # <<>> /\ frames'[1] = {}
    BY <2>1
  <2>3. saves' \in Seq(Savepoints) /\ DOMAIN saves' = {}
    BY <2>1
  <2>4. SavedLevels'
    BY <2>2, <2>3 DEF SavedLevels, LevelsAscend
  <2>5. work' = Expected(frames', Len(frames'))
    BY <2>1, <2>2 DEF Expected
  <2> QED
    BY <2>1, <2>2, <2>3, <2>4, <2>5 DEF TxInv, TxTypes, WorkExpected, Tx!CommitsWhatReturned
<1>2. CASE Tx!Exec
  BY <1>2, ExecKeeps
<1>3. CASE Tx!NestedTxContext
  BY <1>3, NestedKeeps
<1>4. CASE Tx!NestedFails \/ Tx!NestedReturns
  <2>1. /\ phase = "open" /\ Len(frames) > 1
        /\ UNCHANGED <<committed, phase, strategy, savepoint, writes>>
    BY <1>4 DEF Tx!NestedFails, Tx!NestedReturns
  <2>2. Tx!Own \in SUBSET Nat /\ {} \in SUBSET Nat
    <3>1. frames \in Seq(SUBSET Nat) /\ Len(frames) \in 1..Len(frames)
      BY <2>1 DEF TxInv, TxTypes
    <3> QED
      BY <3>1, ElementOfSeq DEF Tx!Own
  <2>3. \E kept \in {{}, Tx!Own} :
           /\ Tx!Leave(kept)
           /\ ~faulty' =>
                 /\ ~faulty
                 /\ \/ Tx!effectiveStrategy = "reuse" /\ kept = Tx!Own /\ UNCHANGED <<work, saves>>
                    \/ Tx!effectiveStrategy # "reuse" /\ kept = {} /\ Tx!execRollbackTo
                    \/ Tx!effectiveStrategy # "reuse" /\ kept = Tx!Own /\ Tx!execRelease
    BY <1>4 DEF Tx!NestedFails, Tx!NestedReturns
  <2> QED
    BY <2>1, <2>2, <2>3, NestedEnds
<1>5. CASE Tx!Commit
  <2>1. PICK commits \in BOOLEAN :
           /\ committed' = IF commits THEN work ELSE committed
           /\ frames' = IF commits THEN frames ELSE <<{}>>
    BY <1>5 DEF Tx!Commit
  <2>2. /\ phase = "open" /\ Len(frames) = 1 /\ committed = {} /\ phase' = "done"
        /\ writes' = writes /\ faulty' = faulty /\ TxTypes /\ (~faulty => WorkExpected)
    BY <1>5 DEF Tx!Commit, TxInv
  <2>3. ~faulty => work = frames[1]
    <3>1. 1..1 = {1}
      OBVIOUS
    <3> QED
      BY <2>2, <3>1 DEF WorkExpected, Expected
  <2>4. <<{}>> \in Seq(SUBSET Nat) /\ <<{}>>[1] = {}
    OBVIOUS
  <2>5. frames' \in Seq(SUBSET Nat)
    BY <2>1, <2>2, <2>4 DEF TxTypes
  <2>6. ~faulty => committed' = frames'[1]
    BY <2>1, <2>2, <2>3, <2>4
  <2> QED
    BY <2>2, <2>5, <2>6 DEF TxInv, TxTypes, Tx!CommitsWhatReturned
<1>6. CASE UNCHANGED txVars
  <2>1. UNCHANGED <<committed, phase, strategy, savepoint, work, saves, frames, faulty, writes>>
    BY <1>6 DEF txVars
  <2>2. WorkExpected => WorkExpected'
    <3>1. LevelsAscend' = LevelsAscend
      BY <2>1 DEF LevelsAscend
    <3>2. ASSUME NEW l, NEW p PROVE NewestOfLevel(l, p)' = NewestOfLevel(l, p)
      BY <2>1 DEF NewestOfLevel
    <3>3. SavedLevels => SavedLevels'
      BY <2>1, <3>1, <3>2 DEF SavedLevels
    <3> QED
      BY <2>1, <3>3 DEF WorkExpected, Tx!effectiveStrategy
  <2> QED
    BY <2>1, <2>2 DEF TxInv, TxTypes, Tx!CommitsWhatReturned
<1> QED
  BY <1>1, <1>2, <1>3, <1>4, <1>5, <1>6 DEF Tx!TxNext

\* gsql/tx.go: the database ends up with exactly the writes of the functions that
\* returned nil all the way up, however deep they nest and however often the names of
\* savepoints are used again, unless the database refused a ROLLBACK TO or a RELEASE.
THEOREM TxSafe == Spec => []CommitsWhatReturned
<1>1. Init => TxInv
  BY DEF Init, Tx!TxInit, TxInv, TxTypes, Tx!CommitsWhatReturned
<1>2. TxInv /\ [Next]_vars => TxInv'
  <2>1. [Next]_vars => [Tx!TxNext]_txVars
    BY DEF Next, vars, Still, txVars
  <2> QED
    BY <2>1, TxStep
<1>3. TxInv => CommitsWhatReturned
  BY DEF TxInv, CommitsWhatReturned
<1> QED
  BY <1>1, <1>2, <1>3, PTL DEF Spec

-------------------------------------------------------------------------------
(***************************************************************************)
(* Migrator.Run.  First what a directory gives: a finite set of migrations, *)
(* each of which has a place in the order Run brings them into, and one for *)
(* every name that has an up file.                                         *)
(***************************************************************************)
LEMMA MigrateCardinality ==
    /\ \A S : Mig!Cardinality(S) = Cardinality(S)
    /\ \A S : Mig!IsFiniteSet(S) <=> IsFiniteSet(S)
<1>1. \A S : Mig!Cardinality(S) = Cardinality(S)
  BY DEF Mig!Cardinality, Cardinality
<1>2. \A S : Mig!IsFiniteSet(S) <=> IsFiniteSet(S)
  BY DEF Mig!IsFiniteSet, IsFiniteSet
<1> QED
  BY <1>1, <1>2

Files(d) == IsFiniteSet(d) /\ d \subseteq Mig!FileKinds

LEMMA DirectoriesHaveFiles == \A d \in Directories : Files(d)
<1>1. \A a, b, c, d : IsFiniteSet({a, b}) /\ IsFiniteSet({a, b, c, d})
  <2> TAKE a, b, c, d
  <2>1. {a, b} = ({a} \cup {b}) /\ {a, b, c, d} = ((({a} \cup {b}) \cup {c}) \cup {d})
    OBVIOUS
  <2>2. IsFiniteSet({a} \cup {b})
    BY FS_Singleton, FS_AddElement
  <2>3. IsFiniteSet((({a} \cup {b}) \cup {c}) \cup {d})
    BY <2>2, FS_AddElement
  <2> QED
    BY <2>1, <2>2, <2>3
<1>2. /\ F(1, 4, 2, "up", TRUE) \in Mig!FileKinds /\ F(2, 5, 2, "down", FALSE) \in Mig!FileKinds
      /\ F(3, 3, 1, "up", TRUE) \in Mig!FileKinds
      /\ [F(4, 6, 6, "none", FALSE) EXCEPT !.text = FALSE] \in Mig!FileKinds
      /\ F(1, 3, 1, "up", TRUE) \in Mig!FileKinds /\ F(2, 3, 1, "up", TRUE) \in Mig!FileKinds
  BY DEF F, Mig!FileKinds
<1>3. ASSUME NEW d \in Directories PROVE IsFiniteSet(d)
  <2>1. PICK a, b, c, e : d = {a, b, c, e} \/ d = {a, b}
    BY DEF Directories
  <2>2. IsFiniteSet({a, b, c, e}) /\ IsFiniteSet({a, b})
    BY <1>1
  <2> QED
    BY <2>1, <2>2
<1>4. ASSUME NEW d \in Directories PROVE d \subseteq Mig!FileKinds
  BY <1>2 DEF Directories
<1> QED
  BY <1>3, <1>4 DEF Files

\* In a finite set of files one comes last in the walk.
LEMMA LastWalked ==
    ASSUME NEW U, IsFiniteSet(U), U \subseteq Mig!FileKinds, U # {}
    PROVE  \E f \in U : \A g \in U : g.order <= f.order
<1> DEFINE After(f) == {g \in U : g.order > f.order}
           T == {After(f) : f \in U}
<1>1. IsWellFoundedOn(StrictSubsetOrdering(U), FiniteSubsetsOf(U))
  BY FS_StrictSubsetOrderingWellFounded
<1>2. T \subseteq FiniteSubsetsOf(U) /\ T # {}
  <2>1. \A f \in U : After(f) \in SUBSET U
    OBVIOUS
  <2>2. \A f \in U : IsFiniteSet(After(f))
    BY <2>1, FS_Subset
  <2> QED
    BY <2>1, <2>2 DEF FiniteSubsetsOf
<1>3. PICK A \in T : \A B \in T : <<B, A>> \notin StrictSubsetOrdering(U)
  <2> HIDE DEF T
  <2> QED
    BY <1>1, <1>2, WFMin
<1>4. PICK f \in U : A = After(f)
  BY <1>3
<1>5. ASSUME NEW g \in U, g.order > f.order PROVE FALSE
  <2>1. g.order \in Nat /\ f.order \in Nat
    BY DEF Mig!FileKinds
  <2>2. After(g) \subseteq A /\ After(g) # A
    <3>1. g \in A /\ g \notin After(g)
      BY <1>4, <1>5, <2>1
    <3>2. \A h \in After(g) : h.order \in Nat /\ h.order > f.order
      BY <1>5, <2>1 DEF Mig!FileKinds
    <3> QED
      BY <1>4, <3>1, <3>2
  <2>3. After(g) \in T /\ A \in SUBSET U /\ After(g) \in SUBSET U
    BY <1>3
  <2> QED
    BY <1>3, <2>2, <2>3 DEF StrictSubsetOrdering
<1>6. \A g \in U : g.order \in Nat
  BY DEF Mig!FileKinds
<1> QED
  BY <1>5, <1>6

IdsOf(ms) == {m.id : m \in ms}
Migrations == [id : Nat, file : Nat]
Chosen == dir \in Directories /\ collector \in {"comment", "whole", "filename"}

LEMMA ImageFinite ==
    ASSUME NEW D, IsFiniteSet(D), NEW g PROVE IsFiniteSet({g[x] : x \in D})
<1>1. [x \in D |-> g[x]] \in Surjection(D, {g[x] : x \in D})
  BY DEF Surjection
<1> QED
  BY <1>1, FS_Surjection

\* The migrations of some files, with the name or with the base as the id.
LEMMA MigrationsOf ==
    ASSUME NEW D, IsFiniteSet(D), D \subseteq Mig!FileKinds
    PROVE  /\ IsFiniteSet({[id |-> f.name, file |-> f.order] : f \in D})
           /\ {[id |-> f.name, file |-> f.order] : f \in D} \subseteq Migrations
           /\ IdsOf({[id |-> f.name, file |-> f.order] : f \in D}) = {f.name : f \in D}
           /\ IsFiniteSet({[id |-> f.base, file |-> f.order] : f \in D})
           /\ {[id |-> f.base, file |-> f.order] : f \in D} \subseteq Migrations
           /\ IdsOf({[id |-> f.base, file |-> f.order] : f \in D}) = {f.base : f \in D}
<1>1. PICK g : g = [f \in D |-> [id |-> f.name, file |-> f.order]]
  OBVIOUS
<1>2. PICK h : h = [f \in D |-> [id |-> f.base, file |-> f.order]]
  OBVIOUS
<1>3. /\ {[id |-> f.name, file |-> f.order] : f \in D} = {g[f] : f \in D}
      /\ {[id |-> f.base, file |-> f.order] : f \in D} = {h[f] : f \in D}
  BY <1>1, <1>2
<1>4. \A f \in D : f.name \in Nat /\ f.base \in Nat /\ f.order \in Nat
  BY DEF Mig!FileKinds
<1>5. /\ {[id |-> f.name, file |-> f.order] : f \in D} \subseteq Migrations
      /\ {[id |-> f.base, file |-> f.order] : f \in D} \subseteq Migrations
  BY <1>4 DEF Migrations
<1>6. /\ IdsOf({[id |-> f.name, file |-> f.order] : f \in D}) = {f.name : f \in D}
      /\ IdsOf({[id |-> f.base, file |-> f.order] : f \in D}) = {f.base : f \in D}
  <2>1. IdsOf({g[f] : f \in D}) = {g[f].id : f \in D} /\ IdsOf({h[f] : f \in D}) = {h[f].id : f \in D}
    BY DEF IdsOf
  <2>2. \A f \in D : g[f].id = f.name /\ h[f].id = f.base
    BY <1>1, <1>2
  <2>3. {g[f].id : f \in D} = {f.name : f \in D} /\ {h[f].id : f \in D} = {f.base : f \in D}
    BY <2>2
  <2> QED
    BY <1>3, <2>1, <2>3
<1> QED
  BY <1>3, <1>5, <1>6, ImageFinite

LEMMA Collected ==
    ASSUME Chosen
    PROVE  /\ IsFiniteSet(Mig!collectMigrations) /\ Mig!collectMigrations \subseteq Migrations
           /\ Mig!UpIds \subseteq IdsOf(Mig!collectMigrations)
           /\ Mig!UpIds \subseteq Mig!Ids
<1>1. Files(dir) /\ \A d : d \subseteq dir => IsFiniteSet(d) /\ d \subseteq Mig!FileKinds
  <2>1. Files(dir)
    BY DirectoriesHaveFiles DEF Chosen
  <2> QED
    BY <2>1, FS_Subset DEF Files
<1>2. Mig!UpIds \subseteq Mig!Ids
  BY DEF Chosen, Mig!UpIds, Mig!Ids
<1>3. CASE collector = "comment"
  <2> DEFINE D == {g \in dir : g.up}
  <2>1. IsFiniteSet(D) /\ D \subseteq Mig!FileKinds
    BY <1>1
  <2>2. Mig!collectMigrations = {[id |-> f.name, file |-> f.order] : f \in D}
    BY <1>3 DEF Mig!collectMigrations, Mig!CommentCollector
  <2> HIDE DEF D
  <2>3. /\ IsFiniteSet(Mig!collectMigrations) /\ Mig!collectMigrations \subseteq Migrations
        /\ IdsOf(Mig!collectMigrations) = {f.name : f \in D}
    BY <2>1, <2>2, MigrationsOf
  <2>4. Mig!UpIds = {f.name : f \in D}
    BY <1>3 DEF Mig!UpIds, D
  <2> QED
    BY <1>2, <2>3, <2>4
<1>4. CASE collector = "whole"
  <2> DEFINE D == {g \in dir : g.text}
  <2>1. IsFiniteSet(D) /\ D \subseteq Mig!FileKinds
    BY <1>1
  <2>2. Mig!collectMigrations = {[id |-> f.name, file |-> f.order] : f \in D}
    BY <1>4 DEF Mig!collectMigrations, Mig!WholeFileCollector
  <2> HIDE DEF D
  <2>3. /\ IsFiniteSet(Mig!collectMigrations) /\ Mig!collectMigrations \subseteq Migrations
        /\ IdsOf(Mig!collectMigrations) = {f.name : f \in D}
    BY <2>1, <2>2, MigrationsOf
  <2>4. Mig!UpIds = {f.name : f \in D}
    BY <1>4 DEF Mig!UpIds, D
  <2> QED
    BY <1>2, <2>3, <2>4
<1>5. CASE collector = "filename"
  <2> DEFINE D == {g \in dir : g.suffix = "up"
                     /\ \A h \in dir : h.suffix = "up" /\ h.base = g.base => h.order <= g.order}
  <2>1. IsFiniteSet(D) /\ D \subseteq Mig!FileKinds
    BY <1>1
  <2>2. Mig!collectMigrations = {[id |-> f.base, file |-> f.order] : f \in D}
    BY <1>5 DEF Mig!collectMigrations, Mig!FilenameCollector
  <2> HIDE DEF D
  <2>3. /\ IsFiniteSet(Mig!collectMigrations) /\ Mig!collectMigrations \subseteq Migrations
        /\ IdsOf(Mig!collectMigrations) = {f.base : f \in D}
    BY <2>1, <2>2, MigrationsOf
  <2>4. Mig!UpIds = {f.base : f \in {g \in dir : g.suffix = "up"}}
    BY <1>5 DEF Mig!UpIds
  <2>5. ASSUME NEW g \in dir, g.suffix = "up" PROVE \E f \in D : f.base = g.base
    <3> DEFINE U == {h \in dir : h.suffix = "up" /\ h.base = g.base}
    <3>1. IsFiniteSet(U) /\ U \subseteq Mig!FileKinds /\ U # {}
      BY <1>1, <2>5
    <3>2. PICK f \in U : \A h \in U : h.order <= f.order
      <4> HIDE DEF U
      <4> QED
        BY <3>1, LastWalked
    <3>3. \A h \in dir : h.suffix = "up" /\ h.base = f.base => h.order <= f.order
      BY <3>2
    <3> QED
      BY <3>2, <3>3 DEF D
  <2> QED
    BY <1>2, <2>3, <2>4, <2>5
<1> QED
  BY <1>3, <1>4, <1>5 DEF Chosen

\* Run comes to every migration: the one before which there are i others is the next.
LEMMA EveryOneSorted ==
    ASSUME Chosen
    PROVE  /\ Len(Mig!Sorted) \in Nat
           /\ \A m \in Mig!collectMigrations :
                 \E i \in 1..Len(Mig!Sorted) : Mig!Sorted[i] = m
           /\ \A i \in 1..Len(Mig!Sorted) : Mig!Sorted[i] \in Mig!collectMigrations
<1> DEFINE C == Mig!collectMigrations
           Before(m) == {a \in C : Mig!Precedes(a, m)}
           n == Cardinality(C)
<1>1. IsFiniteSet(C) /\ C \subseteq Migrations /\ n \in Nat
  BY Collected, FS_CardinalityType
<1>2. \A m \in C : Mig!Place(m) = Cardinality(Before(m))
  BY MigrateCardinality DEF Mig!Place
<1>3. Mig!Sorted = [i \in 1..n |-> CHOOSE m \in C : Mig!Place(m) = i - 1]
  BY MigrateCardinality DEF Mig!Sorted
<1> HIDE DEF C
<1>4. Len(Mig!Sorted) = n
  BY <1>1, <1>3
<1>5. \A m \in C : Before(m) \in SUBSET C /\ m \notin Before(m)
  BY <1>1 DEF Migrations, Mig!Precedes
<1>6. ASSUME NEW a \in C, NEW b \in C, Mig!Precedes(a, b)
      PROVE  Cardinality(Before(a)) < Cardinality(Before(b))
  <2>1. Before(a) \in SUBSET Before(b)
    BY <1>1, <1>6 DEF Migrations, Mig!Precedes
  <2>2. a \in Before(b) /\ a \notin Before(a)
    BY <1>5, <1>6
  <2>3. IsFiniteSet(Before(b)) /\ IsFiniteSet(Before(a))
    BY <1>1, <1>5, FS_Subset
  <2>4. Cardinality(Before(a)) \in Nat /\ Cardinality(Before(b)) \in Nat
    BY <2>3, FS_CardinalityType
  <2>5. Cardinality(Before(a)) <= Cardinality(Before(b))
        /\ Cardinality(Before(b)) # Cardinality(Before(a))
    BY <2>1, <2>2, <2>3, FS_Subset
  <2> QED
    BY <2>4, <2>5
<1>7. ASSUME NEW a \in C, NEW b \in C, a # b PROVE Mig!Precedes(a, b) \/ Mig!Precedes(b, a)
  BY <1>1, <1>7 DEF Migrations, Mig!Precedes
<1>8. ASSUME NEW a \in C, NEW b \in C, Mig!Place(a) = Mig!Place(b) PROVE a = b
  <2>1. IsFiniteSet(Before(a)) /\ IsFiniteSet(Before(b))
    BY <1>1, <1>5, FS_Subset
  <2>2. Cardinality(Before(a)) \in Nat /\ Cardinality(Before(b)) \in Nat
    BY <2>1, FS_CardinalityType
  <2>3. Cardinality(Before(a)) = Cardinality(Before(b))
    BY <1>2, <1>8
  <2> QED
    BY <1>6, <1>7, <2>2, <2>3
<1>p. ASSUME NEW m \in C PROVE Mig!Place(m) \in Nat /\ Mig!Place(m) < n
  <2>1. IsFiniteSet(Before(m)) /\ Cardinality(Before(m)) <= n /\ n # Cardinality(Before(m))
    BY <1>1, <1>5, FS_Subset
  <2>2. Cardinality(Before(m)) \in Nat
    BY <2>1, FS_CardinalityType
  <2> QED
    BY <1>1, <1>2, <2>1, <2>2
<1>9. ASSUME NEW m \in C PROVE \E i \in 1..n : Mig!Sorted[i] = m
  <2>1. Mig!Place(m) \in Nat /\ Mig!Place(m) < n
    BY <1>p
  <2>2. PICK i \in 1..n : i - 1 = Mig!Place(m)
    BY <1>1, <2>1
  <2>3. Mig!Sorted[i] = CHOOSE a \in C : Mig!Place(a) = Mig!Place(m)
    BY <1>3, <2>2
  <2>4. (CHOOSE a \in C : Mig!Place(a) = Mig!Place(m)) = m
    BY <1>8
  <2> QED
    BY <2>3, <2>4
<1>10. ASSUME NEW i \in 1..n PROVE Mig!Sorted[i] \in C
  <2>1. PICK f : f = [m \in C |-> Mig!Place(m)]
    OBVIOUS
  <2>2. f \in Injection(C, 0..(n - 1))
    <3>1. f \in [C -> 0..(n - 1)]
      BY <1>1, <1>p, <2>1
    <3>2. \A a, b \in C : f[a] = f[b] => a = b
      BY <1>8, <2>1
    <3>3. IsInjective(f)
      BY <3>1, <3>2 DEF IsInjective
    <3> QED
      BY <3>1, <3>3 DEF Injection
  <2>3. IsFiniteSet(0..(n - 1)) /\ Cardinality(0..(n - 1)) = n
    <3>1. PICK k \in Int : k = n - 1
      BY <1>1
    <3>2. IsFiniteSet(0..k) /\ Cardinality(0..k) = IF 0 > k THEN 0 ELSE k - 0 + 1
      BY FS_Interval
    <3> QED
      BY <1>1, <3>1, <3>2
  <2>4. f \in Surjection(C, 0..(n - 1))
    BY <2>2, <2>3, FS_Injection
  <2>5. i - 1 \in 0..(n - 1)
    BY <1>1
  <2>6. \E m \in C : f[m] = i - 1
    BY <2>4, <2>5 DEF Surjection
  <2>7. \E m \in C : Mig!Place(m) = i - 1
    BY <2>1, <2>6
  <2> QED
    BY <1>3, <2>7
<1> QED
  BY <1>1, <1>4, <1>9, <1>10 DEF C

(***************************************************************************)
(* Then what holds while processes run them.  A process that has come to a  *)
(* place has seen or applied everything before it; and with a DBRecorder    *)
(* what it has applied is what it has recorded, but for the migration it is *)
(* about to record, and no two processes and no committed one have recorded *)
(* the same id: the INSERT waits, or fails.                                *)
(***************************************************************************)
RunnerStates == [at : {"idle", "read", "apply", "record", "ok", "failed"}, seen : SUBSET Nat,
                 next : Nat \ {0}, ups : SUBSET Migrations, ids : SUBSET Nat]

MigrateTypes ==
    /\ Chosen /\ recorded \subseteq Nat
    /\ applied \in [Mig!Ids -> Nat] /\ runner \in [Runners -> RunnerStates]

ComeTo(w) ==
    /\ IsFiniteSet(w.ups)
    /\ \A id \in w.seen \cap Mig!Ids : applied[id] >= 1
    /\ w.at \in {"apply", "record"} =>
          \A i \in 1..w.next - 1 : i <= Len(Mig!Sorted) => Mig!Sorted[i].id \in w.seen \cup IdsOf(w.ups)
    /\ w.at = "read" => w.next = 1
    /\ w.at = "record" => w.next <= Len(Mig!Sorted) /\ Mig!Sorted[w.next] \in w.ups

Different(ms) == \A m, o \in ms : m.id = o.id => m = o

RecordedAs(w, ms) == IdsOf(ms) = w.ids /\ Different(ms)

HasRecorded(w) ==
    IF w.at = "record"
    THEN \E ms \in SUBSET w.ups : w.ups = ms \cup {Mig!Sorted[w.next]} /\ RecordedAs(w, ms)
    ELSE RecordedAs(w, w.ups)

RecordedOnce ==
    /\ \A id \in Mig!Ids : applied[id] <= 1 /\ (applied[id] = 1 <=> id \in recorded)
    /\ \A r \in Runners : HasRecorded(runner[r]) /\ runner[r].ids \cap recorded = {}
    /\ \A r, o \in Runners : r # o => runner[r].ids \cap runner[o].ids = {}

MigrateInv ==
    /\ MigrateTypes /\ \A r \in Runners : ComeTo(runner[r])
    /\ recorder = "db" => RecordedOnce
    /\ Mig!EveryUpApplied

LEMMA SortedSame == UNCHANGED <<dir, collector>> => UNCHANGED <<Mig!Sorted, Mig!UpIds, Chosen>>
BY DEF Mig!Sorted, Mig!UpIds, Chosen, Mig!Place, Mig!Precedes, Mig!collectMigrations,
       Mig!CommentCollector, Mig!WholeFileCollector, Mig!FilenameCollector

\* A step of one process, that commits nothing.
LEMMA OneRunner ==
    ASSUME MigrateInv, NEW r \in Runners, NEW w \in RunnerStates, runner' = [runner EXCEPT ![r] = w],
           UNCHANGED <<dir, collector, recorder, recorded, applied>>,
           ComeTo(w), w.at # "ok",
           recorder = "db" => /\ HasRecorded(w) /\ w.ids \cap recorded = {}
                              /\ \A o \in Runners \ {r} : w.ids \cap runner[o].ids = {}
    PROVE  MigrateInv'
<1>1. UNCHANGED <<Mig!Sorted, Mig!UpIds, Chosen>>
  BY SortedSame
<1>2. /\ runner' \in [Runners -> RunnerStates] /\ runner'[r] = w
      /\ \A o \in Runners : o # r => runner'[o] = runner[o]
  BY DEF MigrateInv, MigrateTypes
<1>3. \A o \in Runners : ComeTo(runner'[o])
  BY <1>2 DEF MigrateInv
<1>4. ASSUME NEW x, ComeTo(x) PROVE ComeTo(x)'
  BY <1>1, <1>4 DEF ComeTo
<1>5. ASSUME NEW x, HasRecorded(x) PROVE HasRecorded(x)'
  BY <1>1, <1>5 DEF HasRecorded, RecordedAs
<1>6. (\A o \in Runners : ComeTo(runner[o]))'
  <2> SUFFICES ASSUME NEW o \in Runners PROVE ComeTo(runner[o])'
    OBVIOUS
  <2>1. PICK x : x = runner'[o]
    OBVIOUS
  <2>2. ComeTo(x)'
    BY <1>3, <1>4, <2>1
  <2> QED
    BY <2>1, <2>2 DEF ComeTo
<1>7. ASSUME recorder' = "db" PROVE RecordedOnce'
  <2>1. RecordedOnce
    BY <1>7 DEF MigrateInv
  <2>2. ASSUME NEW o \in Runners PROVE HasRecorded(runner[o])' /\ runner'[o].ids \cap recorded' = {}
    <3>1. PICK x : x = runner'[o]
      OBVIOUS
    <3>2. HasRecorded(x) /\ x.ids \cap recorded = {}
      BY <1>2, <1>7, <2>1, <3>1 DEF RecordedOnce
    <3>3. HasRecorded(x)'
      BY <1>5, <3>2
    <3> QED
      BY <3>1, <3>2, <3>3 DEF HasRecorded, RecordedAs
  <2>3. ASSUME NEW o \in Runners, NEW p \in Runners, o # p
        PROVE  runner'[o].ids \cap runner'[p].ids = {}
    BY <1>2, <1>7, <2>1, <2>3 DEF RecordedOnce
  <2>4. \A id \in Mig!Ids : applied'[id] <= 1 /\ (applied'[id] = 1 <=> id \in recorded')
    BY <2>1 DEF RecordedOnce
  <2> QED
    BY <2>2, <2>3, <2>4 DEF RecordedOnce
<1>8. Mig!EveryUpApplied'
  BY <1>1, <1>2 DEF MigrateInv, Mig!EveryUpApplied
<1>9. MigrateTypes'
  BY <1>1, <1>2 DEF MigrateInv, MigrateTypes
<1> QED
  BY <1>6, <1>7, <1>8, <1>9 DEF MigrateInv

LEMMA FreshTyped ==
    ASSUME NEW at \in {"idle", "read", "failed", "ok"}
    PROVE  [at |-> at, seen |-> {}, next |-> 1, ups |-> {}, ids |-> {}] \in RunnerStates
<1>1. PICK e : e = {}
  OBVIOUS
<1>2. e \in SUBSET Nat /\ e \in SUBSET Migrations
  BY <1>1
<1>3. [at |-> at, seen |-> e, next |-> 1, ups |-> e, ids |-> e] \in RunnerStates
  BY <1>2 DEF RunnerStates
<1> QED
  BY <1>1, <1>3

\* A process that begins, fails or is over has done nothing that is not committed.
LEMMA Fresh ==
    ASSUME NEW at \in {"idle", "read", "failed", "ok"}, NEW w, w = [Mig!NotRunning EXCEPT !.at = at]
    PROVE  /\ w \in RunnerStates /\ w.at = at /\ w.ids = {} /\ w.ups = {} /\ w.seen = {}
           /\ ComeTo(w) /\ HasRecorded(w)
<1>1. w = [at |-> at, seen |-> {}, next |-> 1, ups |-> {}, ids |-> {}]
  BY DEF Mig!NotRunning
<1>a. w.at = at /\ w.seen = {} /\ w.next = 1 /\ w.ups = {} /\ w.ids = {} /\ w.at \notin {"apply", "record"}
  BY <1>1
<1>2. w \in RunnerStates
  BY <1>1, FreshTyped
<1>3. ComeTo(w)
  BY <1>a, FS_EmptySet DEF ComeTo
<1>4. HasRecorded(w)
  <2>1. w.at # "record" /\ w.ups = {} /\ w.ids = {}
    BY <1>1
  <2>2. RecordedAs(w, {})
    BY <2>1 DEF RecordedAs, Different, IdsOf
  <2> QED
    BY <2>1, <2>2 DEF HasRecorded
<1> QED
  BY <1>1, <1>2, <1>3, <1>4

\* Begin and end of a Run that commits nothing.
LEMMA BeginsOrFails ==
    ASSUME MigrateInv, NEW r \in Runners, Mig!RunBegins(r) \/ Mig!Fail(r)
    PROVE  MigrateInv'
<1>1. PICK at \in {"read", "failed"} : runner' = [runner EXCEPT ![r] = [Mig!NotRunning EXCEPT !.at = at]]
  BY DEF Mig!RunBegins, Mig!Fail
<1>2. PICK w : w = [Mig!NotRunning EXCEPT !.at = at]
  OBVIOUS
<1>3. UNCHANGED <<dir, collector, recorder, recorded, applied>>
  BY DEF Mig!RunBegins, Mig!Fail, Mig!choice
<1>4. /\ w \in RunnerStates /\ ComeTo(w) /\ HasRecorded(w) /\ w.ids = {} /\ w.at # "ok"
  BY <1>2, Fresh
<1>5. w.ids \cap recorded = {} /\ \A o \in Runners \ {r} : w.ids \cap runner[o].ids = {}
  BY <1>4
<1>6. runner' = [runner EXCEPT ![r] = w]
  BY <1>1, <1>2
<1> QED
  BY <1>3, <1>4, <1>5, <1>6, OneRunner

\* A step of a Run, that records nothing.
LEMMA RunGoesOn ==
    ASSUME MigrateInv, NEW r \in Runners, NEW w \in RunnerStates, runner' = [runner EXCEPT ![r] = w],
           UNCHANGED <<dir, collector, recorder, recorded, applied>>,
           ComeTo(w), w.at # "ok", w.ids = runner[r].ids, recorder = "db" => HasRecorded(w)
    PROVE  MigrateInv'
<1>1. ASSUME recorder = "db"
      PROVE  w.ids \cap recorded = {} /\ \A o \in Runners \ {r} : w.ids \cap runner[o].ids = {}
  BY <1>1 DEF MigrateInv, RecordedOnce
<1> QED
  BY <1>1, OneRunner

LEMMA ReadsApplied ==
    ASSUME MigrateInv, NEW r \in Runners, Mig!GetAppliedMigrations(r)
    PROVE  MigrateInv'
<1>1. PICK v : v = runner[r]
  OBVIOUS
<1>2. PICK seen : seen = IF recorder = "db" THEN recorded ELSE {}
  OBVIOUS
<1>3. PICK w : w = [at |-> "apply", seen |-> seen, next |-> v.next, ups |-> v.ups, ids |-> v.ids]
  OBVIOUS
<1>4. /\ v \in RunnerStates /\ v.at = "read" /\ ComeTo(v)
      /\ recorder = "db" => HasRecorded(v)
      /\ UNCHANGED <<dir, collector, recorder, recorded, applied>>
  BY <1>1 DEF Mig!GetAppliedMigrations, Mig!choice, MigrateInv, MigrateTypes, RecordedOnce
<1>5. w \in RunnerStates /\ w.at = "apply" /\ w.seen = seen /\ w.next = 1 /\ w.ups = v.ups /\ w.ids = v.ids
  <2>1. seen \in SUBSET Nat
    BY <1>2 DEF MigrateInv, MigrateTypes
  <2>2. v.next = 1
    BY <1>4 DEF ComeTo
  <2> QED
    BY <1>3, <1>4, <2>1, <2>2 DEF RunnerStates
<1>6. runner' = [runner EXCEPT ![r] = w]
  <2>1. PICK y : y = [v EXCEPT !.at = "apply"]
    OBVIOUS
  <2>2. y = [at |-> "apply", seen |-> v.seen, next |-> v.next, ups |-> v.ups, ids |-> v.ids]
    BY <1>4, <2>1 DEF RunnerStates
  <2>3. [y EXCEPT !.seen = seen] = w
    BY <1>3, <2>2
  <2>4. runner' = [runner EXCEPT ![r] = [v EXCEPT !.at = "apply", !.seen = seen]]
    BY <1>1, <1>2 DEF Mig!GetAppliedMigrations
  <2> QED
    BY <2>1, <2>3, <2>4
<1>7. \A id \in seen \cap Mig!Ids : applied[id] >= 1
  BY <1>2 DEF MigrateInv, MigrateTypes, RecordedOnce
<1>8. ComeTo(w)
  BY <1>4, <1>5, <1>7 DEF ComeTo
<1>9. recorder = "db" => HasRecorded(w)
  BY <1>4, <1>5 DEF HasRecorded, RecordedAs
<1> QED
  BY <1>1, <1>4, <1>5, <1>6, <1>8, <1>9, RunGoesOn

LEMMA Skips ==
    ASSUME MigrateInv, NEW r \in Runners, Mig!Skip(r)
    PROVE  MigrateInv'
<1>1. PICK v : v = runner[r]
  OBVIOUS
<1>2. PICK w : w = [at |-> v.at, seen |-> v.seen, next |-> v.next + 1, ups |-> v.ups, ids |-> v.ids]
  OBVIOUS
<1>3. /\ v \in RunnerStates /\ v.at = "apply" /\ ComeTo(v)
      /\ recorder = "db" => HasRecorded(v)
      /\ UNCHANGED <<dir, collector, recorder, recorded, applied>>
      /\ Mig!Sorted[v.next].id \in v.seen
  BY <1>1 DEF Mig!Skip, Mig!Current, Mig!choice, MigrateInv, MigrateTypes, RecordedOnce
<1>4. /\ w \in RunnerStates /\ w.at = "apply" /\ w.seen = v.seen /\ w.next = v.next + 1
      /\ w.ups = v.ups /\ w.ids = v.ids /\ v.next \in Nat \ {0}
  BY <1>2, <1>3 DEF RunnerStates
<1>5. runner' = [runner EXCEPT ![r] = w]
  <2>1. [v EXCEPT !.next = v.next + 1] = w
    BY <1>2, <1>3 DEF RunnerStates
  <2> QED
    BY <1>1, <2>1 DEF Mig!Skip
<1>6. ComeTo(w)
  <2>1. \A i \in 1..w.next - 1 : i \in 1..v.next - 1 \/ i = v.next
    BY <1>4
  <2> QED
    BY <1>3, <1>4, <2>1 DEF ComeTo
<1>7. recorder = "db" => HasRecorded(w)
  BY <1>3, <1>4 DEF HasRecorded, RecordedAs
<1> QED
  BY <1>1, <1>3, <1>4, <1>5, <1>6, <1>7, RunGoesOn

LEMMA Applies ==
    ASSUME MigrateInv, NEW r \in Runners, Mig!Up(r)
    PROVE  MigrateInv'
<1>1. PICK v : v = runner[r]
  OBVIOUS
<1>2. PICK m : m = Mig!Sorted[v.next]
  OBVIOUS
<1>3. PICK w : w = [at |-> "record", seen |-> v.seen, next |-> v.next, ups |-> v.ups \cup {m}, ids |-> v.ids]
  OBVIOUS
<1>4. /\ v \in RunnerStates /\ v.at = "apply" /\ ComeTo(v) /\ v.next <= Len(Mig!Sorted)
      /\ recorder = "db" => HasRecorded(v)
      /\ UNCHANGED <<dir, collector, recorder, recorded, applied>>
  BY <1>1 DEF Mig!Up, Mig!choice, MigrateInv, MigrateTypes, RecordedOnce
<1>5. v.next \in Nat \ {0} /\ v.ups \in SUBSET Migrations
  BY <1>4 DEF RunnerStates
<1>6. m \in Migrations
  <2>1. Chosen
    BY DEF MigrateInv, MigrateTypes
  <2>2. v.next \in 1..Len(Mig!Sorted)
    BY <1>4, <1>5, <2>1, EveryOneSorted
  <2> QED
    BY <1>2, <2>1, <2>2, EveryOneSorted, Collected
<1>7. /\ w \in RunnerStates /\ w.at = "record" /\ w.seen = v.seen /\ w.next = v.next
      /\ w.ups = v.ups \cup {m} /\ w.ids = v.ids
  <2>1. v.ups \cup {m} \in SUBSET Migrations
    BY <1>5, <1>6
  <2> QED
    BY <1>3, <1>4, <2>1 DEF RunnerStates
<1>8. runner' = [runner EXCEPT ![r] = w]
  <2>1. PICK y : y = [v EXCEPT !.at = "record"]
    OBVIOUS
  <2>2. y = [at |-> "record", seen |-> v.seen, next |-> v.next, ups |-> v.ups, ids |-> v.ids]
    BY <1>4, <2>1 DEF RunnerStates
  <2>3. [y EXCEPT !.ups = v.ups \cup {m}] = w
    BY <1>3, <2>2
  <2>4. runner' = [runner EXCEPT ![r] = [v EXCEPT !.at = "record", !.ups = v.ups \cup {m}]]
    BY <1>1, <1>2 DEF Mig!Up, Mig!Current
  <2> QED
    BY <2>1, <2>3, <2>4
<1>9. ComeTo(w)
  <2>1. IsFiniteSet(v.ups \cup {m})
    BY <1>4, FS_AddElement DEF ComeTo
  <2>2. IdsOf(v.ups) \subseteq IdsOf(v.ups \cup {m})
    BY DEF IdsOf
  <2> QED
    BY <1>2, <1>4, <1>7, <2>1, <2>2 DEF ComeTo
<1>10. recorder = "db" => HasRecorded(w)
  BY <1>2, <1>4, <1>7 DEF HasRecorded, RecordedAs
<1> QED
  BY <1>1, <1>4, <1>7, <1>8, <1>9, <1>10, RunGoesOn

LEMMA Records ==
    ASSUME MigrateInv, NEW r \in Runners, Mig!Record(r)
    PROVE  MigrateInv'
<1>1. PICK v : v = runner[r]
  OBVIOUS
<1>2. PICK c : c = Mig!Sorted[v.next]
  OBVIOUS
<1>3. /\ v \in RunnerStates /\ v.at = "record" /\ ComeTo(v)
      /\ recorder = "db" => HasRecorded(v) /\ v.ids \cap recorded = {}
      /\ UNCHANGED <<dir, collector, recorder, recorded, applied>>
  BY <1>1 DEF Mig!Record, Mig!choice, MigrateInv, MigrateTypes, RecordedOnce
<1>4. recorder = "db" => \A o \in Runners \ {r} : c.id \notin runner[o].ids
  BY <1>1, <1>2 DEF Mig!Record, Mig!Current
<1>5. CASE recorder = "db" /\ c.id \in recorded \cup v.ids
  <2>1. PICK w : w = [Mig!NotRunning EXCEPT !.at = "failed"]
    OBVIOUS
  <2>2. runner' = [runner EXCEPT ![r] = w]
    BY <1>1, <1>2, <1>5, <2>1 DEF Mig!Record, Mig!Current
  <2>3. w \in RunnerStates /\ ComeTo(w) /\ HasRecorded(w) /\ w.ids = {} /\ w.at # "ok"
    BY <2>1, Fresh
  <2> QED
    BY <1>3, <2>2, <2>3, OneRunner
<1>6. CASE ~(recorder = "db" /\ c.id \in recorded \cup v.ids)
  <2>1. PICK w : w = [at |-> "apply", seen |-> v.seen, next |-> v.next + 1, ups |-> v.ups,
                      ids |-> v.ids \cup {c.id}]
    OBVIOUS
  <2>2. c \in v.ups /\ c.id \in Nat /\ v.next \in Nat \ {0}
    BY <1>2, <1>3 DEF ComeTo, RunnerStates, Migrations
  <2>3. /\ w \in RunnerStates /\ w.at = "apply" /\ w.seen = v.seen /\ w.next = v.next + 1
        /\ w.ups = v.ups /\ w.ids = v.ids \cup {c.id}
    <3>1. v.ids \cup {c.id} \in SUBSET Nat
      BY <1>3, <2>2 DEF RunnerStates
    <3> QED
      BY <1>3, <2>1, <2>2, <3>1 DEF RunnerStates
  <2>4. runner' = [runner EXCEPT ![r] = w]
    <3>1. PICK y : y = [v EXCEPT !.at = "apply"]
      OBVIOUS
    <3>2. PICK z : z = [y EXCEPT !.next = v.next + 1]
      OBVIOUS
    <3>3. y = [at |-> "apply", seen |-> v.seen, next |-> v.next, ups |-> v.ups, ids |-> v.ids]
      BY <1>3, <3>1 DEF RunnerStates
    <3>4. z = [at |-> "apply", seen |-> v.seen, next |-> v.next + 1, ups |-> v.ups, ids |-> v.ids]
      BY <3>2, <3>3
    <3>5. [z EXCEPT !.ids = v.ids \cup {c.id}] = w
      BY <2>1, <3>4
    <3>6. runner' = [runner EXCEPT ![r] = [v EXCEPT !.at = "apply", !.next = v.next + 1,
                                                    !.ids = v.ids \cup {c.id}]]
      <4>1. runner' = [runner EXCEPT ![r] =
               IF recorder = "db" /\ Mig!Sorted[runner[r].next].id \in recorded \cup runner[r].ids
               THEN [Mig!NotRunning EXCEPT !.at = "failed"]
               ELSE [runner[r] EXCEPT !.at = "apply", !.next = @ + 1,
                                      !.ids = @ \cup {Mig!Sorted[runner[r].next].id}]]
        BY DEF Mig!Record, Mig!Current
      <4> QED
        BY <1>1, <1>2, <1>6, <4>1
    <3> QED
      BY <3>1, <3>2, <3>5, <3>6
  <2>5. ComeTo(w)
    <3>1. \A i \in 1..w.next - 1 : i \in 1..v.next - 1 \/ i = v.next
      BY <2>2, <2>3
    <3>2. c.id \in IdsOf(v.ups)
      BY <2>2 DEF IdsOf
    <3> QED
      BY <1>2, <1>3, <2>3, <3>1, <3>2 DEF ComeTo
  <2>6. ASSUME recorder = "db"
        PROVE  /\ HasRecorded(w) /\ w.ids \cap recorded = {}
               /\ \A o \in Runners \ {r} : w.ids \cap runner[o].ids = {}
    <3>1. PICK ms : v.ups = ms \cup {c} /\ RecordedAs(v, ms)
      BY <1>2, <1>3, <2>6 DEF HasRecorded
    <3>2. IdsOf(v.ups) = v.ids \cup {c.id}
      BY <3>1 DEF RecordedAs, IdsOf
    <3>3. \A m \in ms : m.id # c.id
      BY <1>6, <2>6, <3>1 DEF RecordedAs, IdsOf
    <3>4. Different(v.ups)
      BY <3>1, <3>3 DEF RecordedAs, Different
    <3>5. HasRecorded(w)
      BY <2>3, <3>2, <3>4 DEF HasRecorded, RecordedAs
    <3>6. \A o \in Runners \ {r} : v.ids \cap runner[o].ids = {}
      BY <1>1, <2>6 DEF MigrateInv, RecordedOnce
    <3> QED
      BY <1>3, <1>4, <1>6, <2>3, <2>6, <3>5, <3>6
  <2> QED
    BY <1>3, <2>3, <2>4, <2>5, <2>6, OneRunner
<1> QED
  BY <1>5, <1>6

\* How often the migrations of a transaction bring a name's up into the database.
LEMMA UpsCounted ==
    ASSUME NEW ms \in SUBSET Migrations, IsFiniteSet(ms), NEW id
    PROVE  /\ Mig!Cardinality({u \in ms : u.id = id}) \in Nat
           /\ id \in IdsOf(ms) => Mig!Cardinality({u \in ms : u.id = id}) >= 1
           /\ id \notin IdsOf(ms) => Mig!Cardinality({u \in ms : u.id = id}) = 0
           /\ Different(ms) => Mig!Cardinality({u \in ms : u.id = id}) <= 1
<1> DEFINE U == {u \in ms : u.id = id}
<1>1. IsFiniteSet(U) /\ Cardinality(U) \in Nat /\ Mig!Cardinality(U) = Cardinality(U)
  <2>1. U \in SUBSET ms
    OBVIOUS
  <2> QED
    BY <2>1, FS_Subset, FS_CardinalityType, MigrateCardinality
<1>2. ASSUME id \in IdsOf(ms) PROVE Cardinality(U) >= 1
  <2>1. U # {}
    BY <1>2 DEF IdsOf
  <2>2. Cardinality(U) # 0
    BY <1>1, <2>1, FS_EmptySet
  <2> QED
    BY <1>1, <2>2
<1>3. ASSUME id \notin IdsOf(ms) PROVE Cardinality(U) = 0
  <2>1. U = {}
    BY <1>3 DEF IdsOf
  <2> QED
    BY <2>1, FS_EmptySet
<1>4. ASSUME Different(ms) PROVE Cardinality(U) <= 1
  <2>1. CASE U = {}
    BY <2>1, FS_EmptySet
  <2>2. CASE U # {}
    <3>1. PICK u \in U : TRUE
      BY <2>2
    <3>2. U = {u}
      BY <1>4, <3>1 DEF Different
    <3>3. Cardinality({u}) = 1
      BY FS_Singleton
    <3> QED
      BY <3>2, <3>3
  <2> QED
    BY <2>1, <2>2
<1> HIDE DEF U
<1>5. /\ Mig!Cardinality(U) \in Nat
      /\ id \in IdsOf(ms) => Mig!Cardinality(U) >= 1
      /\ id \notin IdsOf(ms) => Mig!Cardinality(U) = 0
      /\ Different(ms) => Mig!Cardinality(U) <= 1
  BY <1>1, <1>2, <1>3, <1>4
<1> QED
  BY <1>5 DEF U

LEMMA Commits ==
    ASSUME MigrateInv, NEW r \in Runners, Mig!CommitRun(r)
    PROVE  MigrateInv'
<1> DEFINE Count(id) == Mig!Cardinality({u \in runner[r].ups : u.id = id})
<1>1. PICK v : v = runner[r]
  OBVIOUS
<1>2. PICK w : w = [Mig!NotRunning EXCEPT !.at = "ok"]
  OBVIOUS
<1>3. /\ w \in RunnerStates /\ ComeTo(w) /\ HasRecorded(w) /\ w.ids = {} /\ w.at = "ok" /\ w.seen = {}
      /\ w.ups = {}
  BY <1>2, Fresh
<1>4. /\ v \in RunnerStates /\ v.at = "apply" /\ ComeTo(v) /\ v.next > Len(Mig!Sorted)
      /\ v.ups \in SUBSET Migrations /\ IsFiniteSet(v.ups) /\ v.ids \in SUBSET Nat
      /\ UNCHANGED <<dir, collector, recorder>>
  BY <1>1 DEF Mig!CommitRun, Mig!choice, MigrateInv, MigrateTypes, ComeTo, RunnerStates
<1>5. \A id : /\ Count(id) \in Nat
              /\ id \in IdsOf(v.ups) => Count(id) >= 1
              /\ id \notin IdsOf(v.ups) => Count(id) = 0
              /\ Different(v.ups) => Count(id) <= 1
  BY <1>1, <1>4, UpsCounted
<1>6. /\ applied' = [id \in Mig!Ids |-> applied[id] + Count(id)]
      /\ runner' = [runner EXCEPT ![r] = w]
      /\ recorded' = IF recorder = "db" THEN recorded \cup v.ids ELSE recorded
  BY <1>1, <1>2 DEF Mig!CommitRun
<1> HIDE DEF Count
<1>7. applied \in [Mig!Ids -> Nat] /\ runner \in [Runners -> RunnerStates] /\ recorded \subseteq Nat /\ Chosen
  BY DEF MigrateInv, MigrateTypes
<1>8. /\ runner' \in [Runners -> RunnerStates] /\ runner'[r] = w
      /\ \A o \in Runners : o # r => runner'[o] = runner[o]
  BY <1>3, <1>6, <1>7
<1>9. \A id \in Mig!Ids : applied'[id] = applied[id] + Count(id) /\ applied'[id] \in Nat
                          /\ applied'[id] >= applied[id]
  BY <1>5, <1>6, <1>7
<1>10. UNCHANGED <<Mig!Sorted, Mig!UpIds, Chosen>>
  BY <1>4, SortedSame
<1>11. MigrateTypes'
  <2>1. applied' \in [Mig!Ids -> Nat]
    BY <1>6, <1>9
  <2> QED
    BY <1>4, <1>6, <1>7, <1>8, <1>10, <2>1 DEF MigrateTypes
<1>12. ASSUME NEW x, ComeTo(x) PROVE ComeTo(x)'
  <2>1. \A id \in x.seen \cap Mig!Ids : applied'[id] >= 1
    BY <1>7, <1>9, <1>12 DEF ComeTo
  <2> QED
    BY <1>10, <1>12, <2>1 DEF ComeTo
<1>13. (\A o \in Runners : ComeTo(runner[o]))'
  <2> SUFFICES ASSUME NEW o \in Runners PROVE ComeTo(runner[o])'
    OBVIOUS
  <2>1. PICK x : x = runner'[o]
    OBVIOUS
  <2>2. ComeTo(x)
    BY <1>3, <1>8, <2>1 DEF MigrateInv
  <2>3. ComeTo(x)'
    BY <1>12, <2>2
  <2> QED
    BY <2>1, <2>3 DEF ComeTo
<1>14. Mig!EveryUpApplied'
  <2>1. ASSUME NEW id \in Mig!UpIds PROVE applied'[id] >= 1
    <3>1. id \in Mig!Ids /\ id \in IdsOf(Mig!collectMigrations)
      BY <1>7, Collected
    <3>2. PICK m \in Mig!collectMigrations : m.id = id
      BY <3>1 DEF IdsOf
    <3>3. PICK i \in 1..Len(Mig!Sorted) : Mig!Sorted[i] = m
      BY <1>7, EveryOneSorted
    <3>4. i \in 1..v.next - 1 /\ i <= Len(Mig!Sorted)
      <4>1. v.next \in Nat /\ Len(Mig!Sorted) \in Nat
        BY <1>4, <1>7, EveryOneSorted DEF RunnerStates
      <4> QED
        BY <1>4, <4>1
    <3>5. id \in v.seen \cup IdsOf(v.ups)
      BY <1>4, <3>2, <3>3, <3>4 DEF ComeTo
    <3>6. applied[id] \in Nat
      BY <1>7, <3>1
    <3>7. CASE id \in v.seen
      BY <1>4, <1>9, <3>1, <3>6, <3>7 DEF ComeTo
    <3>8. CASE id \in IdsOf(v.ups)
      BY <1>5, <1>9, <3>1, <3>6, <3>8
    <3> QED
      BY <3>5, <3>7, <3>8
  <2> QED
    BY <1>10, <2>1 DEF Mig!EveryUpApplied
<1>15. ASSUME recorder' = "db" PROVE RecordedOnce'
  <2>1. /\ RecordedOnce /\ HasRecorded(v) /\ v.ids \cap recorded = {} /\ recorded' = recorded \cup v.ids
    BY <1>1, <1>4, <1>6, <1>15 DEF MigrateInv, RecordedOnce
  <2>2. IdsOf(v.ups) = v.ids /\ Different(v.ups)
    BY <1>4, <2>1 DEF HasRecorded, RecordedAs
  <2>3. ASSUME NEW id \in Mig!Ids PROVE applied'[id] <= 1 /\ (applied'[id] = 1 <=> id \in recorded')
    <3>1. applied[id] \in Nat /\ applied[id] <= 1 /\ (applied[id] = 1 <=> id \in recorded)
      BY <1>7, <2>1 DEF RecordedOnce
    <3>2. CASE id \in v.ids
      <4>1. Count(id) = 1 /\ applied[id] = 0
        BY <1>5, <2>1, <2>2, <3>1, <3>2
      <4> QED
        BY <1>9, <2>1, <3>2, <4>1
    <3>3. CASE id \notin v.ids
      <4>1. Count(id) = 0
        BY <1>5, <2>2, <3>3
      <4> QED
        BY <1>9, <2>1, <3>1, <3>3, <4>1
    <3> QED
      BY <3>2, <3>3
  <2>4. ASSUME NEW x, HasRecorded(x) PROVE HasRecorded(x)'
    BY <1>10, <2>4 DEF HasRecorded, RecordedAs
  <2>5. ASSUME NEW o \in Runners PROVE HasRecorded(runner[o])' /\ runner'[o].ids \cap recorded' = {}
    <3>1. PICK x : x = runner'[o]
      OBVIOUS
    <3>2. HasRecorded(x)
      BY <1>3, <1>8, <2>1, <3>1 DEF RecordedOnce
    <3>3. HasRecorded(x)'
      BY <2>4, <3>2
    <3>4. x.ids \cap (recorded \cup v.ids) = {}
      BY <1>1, <1>3, <1>8, <2>1, <3>1 DEF RecordedOnce
    <3> QED
      BY <2>1, <3>1, <3>3, <3>4 DEF HasRecorded, RecordedAs
  <2>6. ASSUME NEW o \in Runners, NEW p \in Runners, o # p
        PROVE  runner'[o].ids \cap runner'[p].ids = {}
    BY <1>3, <1>8, <2>1, <2>6 DEF RecordedOnce
  <2> QED
    BY <2>3, <2>5, <2>6 DEF RecordedOnce
<1> QED
  BY <1>11, <1>13, <1>14, <1>15 DEF MigrateInv

LEMMA MigrateStep == MigrateInv /\ [Mig!MigrateNext]_migrateVars => MigrateInv'
<1> SUFFICES ASSUME MigrateInv, [Mig!MigrateNext]_migrateVars PROVE MigrateInv'
  OBVIOUS
<1>1. CASE UNCHANGED migrateVars
  <2>1. UNCHANGED <<dir, collector, recorder, recorded, applied, runner>>
    BY <1>1 DEF migrateVars
  <2>2. UNCHANGED <<Mig!Sorted, Mig!UpIds, Chosen>>
    BY <2>1, SortedSame
  <2>3. MigrateTypes' /\ Mig!EveryUpApplied'
    BY <2>1, <2>2 DEF MigrateInv, MigrateTypes, Mig!EveryUpApplied
  <2>4. ASSUME NEW x PROVE ComeTo(x)' = ComeTo(x) /\ HasRecorded(x)' = HasRecorded(x)
    BY <2>1, <2>2 DEF ComeTo, HasRecorded, RecordedAs
  <2>5. (\A r \in Runners : ComeTo(runner[r]))'
    BY <2>1, <2>2 DEF MigrateInv, ComeTo
  <2>6. recorder' = "db" => RecordedOnce'
    BY <2>1, <2>2 DEF MigrateInv, RecordedOnce, HasRecorded, RecordedAs
  <2> QED
    BY <2>3, <2>5, <2>6 DEF MigrateInv
<1>2. CASE Mig!MigrateNext
  BY <1>2, BeginsOrFails, ReadsApplied, Skips, Applies, Records, Commits DEF Mig!MigrateNext
<1> QED
  BY <1>1, <1>2

\* gsql's Migrator.Run: with a DBRecorder no migration is ever in the database twice,
\* however many processes run them, fail and run them again; and after a Run that
\* succeeded every migration has been applied, by whomever.
THEOREM MigrateSafe == Spec => []MigratesOnce
<1>1. Init => MigrateInv
  <2> SUFFICES ASSUME Init PROVE MigrateInv
    OBVIOUS
  <2>1. /\ dir \in Directories /\ collector \in {"comment", "whole", "filename"}
        /\ recorded = {} /\ applied = [id \in Mig!Ids |-> 0]
        /\ runner = [r \in Runners |-> Mig!NotRunning]
    BY DEF Init, Mig!MigrateInit
  <2>2. PICK w : w = [Mig!NotRunning EXCEPT !.at = "idle"]
    OBVIOUS
  <2>3. Mig!NotRunning = w
    BY <2>2 DEF Mig!NotRunning
  <2>4. w \in RunnerStates /\ w.at = "idle" /\ w.ids = {} /\ ComeTo(w) /\ HasRecorded(w)
    BY <2>2, Fresh
  <2>5. \A r \in Runners : runner[r] = w
    BY <2>1, <2>3
  <2>6. MigrateTypes
    BY <2>1, <2>3, <2>4 DEF MigrateTypes, Chosen
  <2>7. RecordedOnce
    BY <2>1, <2>4, <2>5 DEF RecordedOnce
  <2> QED
    BY <2>4, <2>5, <2>6, <2>7 DEF MigrateInv, Mig!EveryUpApplied
<1>2. MigrateInv /\ [Next]_vars => MigrateInv'
  <2>1. [Next]_vars => [Mig!MigrateNext]_migrateVars
    BY DEF Next, vars, Still, migrateVars
  <2> QED
    BY <2>1, MigrateStep
<1>3. MigrateInv => MigratesOnce
  BY DEF MigrateInv, RecordedOnce, MigratesOnce, Mig!AppliedOnce
<1> QED
  BY <1>1, <1>2, <1>3, PTL DEF Spec

-------------------------------------------------------------------------------
(***************************************************************************)
(* DefaultResolver.  The number of servers tried is what the round and the  *)
(* server say, so that the next is the one whose turn it is; and a lookup   *)
(* that goes on has only failed so far.                                    *)
(***************************************************************************)
\* The servers a configuration may name.
Servers == {"n1", "n2", DNS!DefaultNS[1], DNS!DefaultNS[2]}
Failures == {"not sent", "timeout", "damaged", "another's"}
Outcomes == Failures \cup {"answer", "no record"}
Tries == Servers \X Outcomes
Count == Len(config.nameservers)

ResolverTypes ==
    /\ config.nameservers \in Seq(Servers) /\ Count >= 1 /\ config.attempts \in Nat \ {0}
    /\ lookup \in [at : {"idle", "ask", "read"}, type : {"A", "CNAME"}, round : Nat, server : Nat]
    /\ tries \in Seq(Tries)

TriesCounted ==
    lookup.at # "idle" =>
        /\ lookup.round \in 1..config.attempts /\ lookup.server \in 1..Count
        /\ Len(tries) = Count * (lookup.round - 1) + (lookup.server - 1)
        /\ \A i \in 1..Len(tries) : tries[i][2] \in Failures
        /\ result.kind = "none"

ResolverInv == ResolverTypes /\ TriesCounted /\ LookupTruthful

\* A number is its remainder and a multiple.
LEMMA Remainder ==
    ASSUME NEW n \in Nat \ {0}, NEW q \in Nat, NEW s \in 0..n - 1
    PROVE  (n * q + s) % n = s
<1>1. PICK a \in Nat : a = n * q + s
  OBVIOUS
<1>2. PICK d \in Int : d = a \div n
  OBVIOUS
<1>3. PICK r \in 0..n - 1 : r = a % n
  OBVIOUS
<1>4. a = n * d + r
  BY <1>1, <1>2, <1>3
<1>5. d = q
  <2>1. CASE d < q
    <3>1. PICK e \in Nat : q = d + 1 + e
      BY <2>1
    <3>2. n * q = n * d + n + n * e
      BY <3>1
    <3>3. n * e >= 0
      OBVIOUS
    <3> QED
      BY <1>1, <1>4, <3>2, <3>3
  <2>2. CASE q < d
    <3>1. PICK e \in Nat : d = q + 1 + e
      BY <2>2
    <3>2. n * d = n * q + n + n * e
      BY <3>1
    <3>3. n * e >= 0
      OBVIOUS
    <3> QED
      BY <1>1, <1>4, <3>2, <3>3
  <2> QED
    BY <2>1, <2>2
<1> QED
  BY <1>1, <1>3, <1>4, <1>5

InTurn(t) == \A i \in 1..Len(t) : t[i][1] = config.nameservers[((i - 1) % Count) + 1]

\* The next try is of the server whose turn it is.
LEMMA TriedInTurn ==
    ASSUME ResolverInv, lookup.at # "idle", NEW outcome \in Outcomes, DNS!Tried(outcome)
    PROVE  /\ tries' \in Seq(Tries) /\ Len(tries') = Len(tries) + 1 /\ InTurn(tries')
           /\ tries'[Len(tries')] = <<DNS!asked, outcome>>
           /\ \A i \in 1..Len(tries) : tries'[i] = tries[i] /\ tries'[i][2] \in Failures
           /\ DNS!asked \in Servers
<1>1. /\ Count \in Nat \ {0} /\ lookup.round \in Nat \ {0} /\ lookup.server \in 1..Count
      /\ config.nameservers \in Seq(Servers) /\ tries \in Seq(Tries) /\ Len(tries) \in Nat
      /\ Len(tries) = Count * (lookup.round - 1) + (lookup.server - 1)
      /\ \A i \in 1..Len(tries) : tries[i][2] \in Failures
  <2>1. Count \in Nat /\ Count >= 1 /\ Len(tries) \in Nat
    BY LenProperties DEF ResolverInv, ResolverTypes, Count
  <2> QED
    BY <2>1 DEF ResolverInv, ResolverTypes, TriesCounted
<1>2. DNS!asked = config.nameservers[lookup.server] /\ DNS!asked \in Servers
  <2>1. lookup.server \in 1..Len(config.nameservers)
    BY <1>1 DEF Count
  <2> QED
    BY <1>1, <2>1, ElementOfSeq DEF DNS!asked
<1>3. PICK e : e = <<DNS!asked, outcome>>
  OBVIOUS
<1>4. e \in Tries /\ e[1] = DNS!asked
  BY <1>2, <1>3 DEF Tries
<1>5. tries' = Append(tries, e)
  BY <1>3 DEF DNS!Tried
<1>6. /\ tries' \in Seq(Tries) /\ Len(tries') = Len(tries) + 1 /\ tries'[Len(tries) + 1] = e
      /\ \A i \in 1..Len(tries) : tries'[i] = tries[i]
  BY <1>1, <1>4, <1>5, SMTT(30)
<1>7. Len(tries) % Count = lookup.server - 1
  <2>1. PICK q \in Nat : q = lookup.round - 1
    BY <1>1
  <2>2. PICK s \in 0..Count - 1 : s = lookup.server - 1
    BY <1>1
  <2>3. Len(tries) = Count * q + s
    BY <1>1, <2>1, <2>2
  <2> QED
    BY <1>1, <2>2, <2>3, Remainder
<1>8. InTurn(tries')
  <2>1. ASSUME NEW i \in 1..Len(tries)
        PROVE  tries'[i][1] = config.nameservers[((i - 1) % Count) + 1]
    <3>1. tries[i][1] = config.nameservers[((i - 1) % Count) + 1]
      <4>1. i \in DOMAIN tries
        BY <1>1
      <4> QED
        BY <4>1, Zenon DEF ResolverInv, LookupTruthful, DNS!LookupTruthful, Count
    <3> QED
      BY <1>6, <3>1
  <2>2. tries'[Len(tries) + 1][1] = config.nameservers[((Len(tries) + 1 - 1) % Count) + 1]
    <3>1. Len(tries) + 1 - 1 = Len(tries) /\ (lookup.server - 1) + 1 = lookup.server
      BY <1>1
    <3> QED
      BY <1>2, <1>4, <1>6, <1>7, <3>1
  <2>3. \A i \in 1..Len(tries') : i \in 1..Len(tries) \/ i = Len(tries) + 1
    BY <1>1, <1>6
  <2> QED
    BY <2>1, <2>2, <2>3 DEF InTurn
<1> QED
  BY <1>1, <1>2, <1>3, <1>6, <1>8

LEMMA FailureIsNoAnswer == \A o \in Failures : o \notin {"answer", "no record"}
BY Zenon DEF Failures

\* A server failed: the lookup goes on with the next, or every one has failed in every
\* round.
LEMMA FailureKeeps ==
    ASSUME ResolverInv, lookup.at # "idle", NEW outcome \in Failures,
           DNS!Tried(outcome), DNS!AfterError, UNCHANGED config
    PROVE  ResolverInv'
<1>1. /\ tries' \in Seq(Tries) /\ Len(tries') = Len(tries) + 1 /\ InTurn(tries')
      /\ tries'[Len(tries')] = <<DNS!asked, outcome>>
      /\ \A i \in 1..Len(tries) : tries'[i] = tries[i] /\ tries'[i][2] \in Failures
  BY TriedInTurn, Zenon DEF Outcomes
<1>2. /\ Count \in Nat \ {0} /\ lookup.round \in 1..config.attempts /\ lookup.server \in 1..Count
      /\ config.attempts \in Nat \ {0} /\ Len(tries) \in Nat
      /\ Len(tries) = Count * (lookup.round - 1) + (lookup.server - 1)
      /\ result.kind = "none" /\ lookup.type \in {"A", "CNAME"}
      /\ config.nameservers \in Seq(Servers)
  <2>1. Count \in Nat /\ Count >= 1 /\ Len(tries) \in Nat
    BY LenProperties DEF ResolverInv, ResolverTypes, Count
  <2> QED
    BY <2>1 DEF ResolverInv, ResolverTypes, TriesCounted
<1>r. lookup = [at |-> lookup.at, type |-> lookup.type, round |-> lookup.round,
                server |-> lookup.server]
  BY DEF ResolverInv, ResolverTypes
<1>3. Count' = Count
  BY DEF Count
<1>4. \A i \in 1..Len(tries') : tries'[i][2] \in Failures
  <2>1. \A i \in 1..Len(tries') : i \in 1..Len(tries) \/ i = Len(tries')
    BY <1>1, <1>2
  <2>2. tries'[Len(tries')][2] \in Failures
    BY <1>1
  <2> QED
    BY <1>1, <2>1, <2>2
<1>5. \A i \in DOMAIN tries' : tries'[i][1] = config'.nameservers[((i - 1) % Len(config'.nameservers)) + 1]
  <2>1. DOMAIN tries' = 1..Len(tries')
    BY <1>1, LenProperties
  <2> QED
    BY <1>1, <2>1 DEF InTurn, Count
<1>6. \A i \in 1..Len(tries') - 1 : tries'[i][2] \notin {"answer", "no record"}
  <2>1. \A i \in 1..Len(tries') - 1 : i \in 1..Len(tries')
    BY <1>1, <1>2
  <2> QED
    BY <1>4, <2>1, FailureIsNoAnswer, Zenon
<1>7. CASE lookup.server < Count
  <2>1. lookup' = [lookup EXCEPT !.at = "ask", !.server = lookup.server + 1] /\ result' = result
    BY <1>7 DEF DNS!AfterError, Count
  <2>2. lookup' = [at |-> "ask", type |-> lookup.type, round |-> lookup.round,
                   server |-> lookup.server + 1]
    <3>1. PICK y : y = [lookup EXCEPT !.at = "ask"]
      OBVIOUS
    <3>2. y = [at |-> "ask", type |-> lookup.type, round |-> lookup.round, server |-> lookup.server]
      BY <1>r, <3>1
    <3>3. [y EXCEPT !.server = lookup.server + 1]
             = [at |-> "ask", type |-> lookup.type, round |-> lookup.round, server |-> lookup.server + 1]
      BY <3>2
    <3> QED
      BY <2>1, <3>1, <3>3
  <2>3. ResolverTypes'
    <3>1. lookup' \in [at : {"idle", "ask", "read"}, type : {"A", "CNAME"}, round : Nat, server : Nat]
      BY <1>2, <2>2
    <3>2. Count' >= 1
      BY <1>2, <1>3
    <3> QED
      BY <1>1, <1>2, <3>1, <3>2 DEF ResolverTypes
  <2>4. Len(tries') = Count * (lookup'.round - 1) + (lookup'.server - 1)
    BY <1>1, <1>2, <2>2, SMTT(30)
  <2>5. TriesCounted'
    BY <1>2, <1>3, <1>4, <1>7, <2>1, <2>2, <2>4 DEF TriesCounted
  <2>6. LookupTruthful'
    BY <1>2, <1>5, <1>6, <2>1, Zenon DEF LookupTruthful, DNS!LookupTruthful
  <2> QED
    BY <2>3, <2>5, <2>6 DEF ResolverInv
<1>8. CASE ~(lookup.server < Count) /\ lookup.round < config.attempts
  <2>1. lookup' = [lookup EXCEPT !.at = "ask", !.server = 1, !.round = lookup.round + 1]
        /\ result' = result
    BY <1>8 DEF DNS!AfterError, Count
  <2>2. lookup' = [at |-> "ask", type |-> lookup.type, round |-> lookup.round + 1, server |-> 1]
    <3>1. PICK y : y = [lookup EXCEPT !.at = "ask"]
      OBVIOUS
    <3>2. PICK z : z = [y EXCEPT !.server = 1]
      OBVIOUS
    <3>3. y = [at |-> "ask", type |-> lookup.type, round |-> lookup.round, server |-> lookup.server]
      BY <1>r, <3>1
    <3>4. z = [at |-> "ask", type |-> lookup.type, round |-> lookup.round, server |-> 1]
      BY <3>2, <3>3
    <3>5. [z EXCEPT !.round = lookup.round + 1]
             = [at |-> "ask", type |-> lookup.type, round |-> lookup.round + 1, server |-> 1]
      BY <3>4
    <3> QED
      BY <2>1, <3>1, <3>2, <3>5
  <2>3. ResolverTypes'
    <3>1. lookup' \in [at : {"idle", "ask", "read"}, type : {"A", "CNAME"}, round : Nat, server : Nat]
      BY <1>2, <2>2
    <3>2. Count' >= 1
      BY <1>2, <1>3
    <3> QED
      BY <1>1, <1>2, <3>1, <3>2 DEF ResolverTypes
  <2>4. Len(tries') = Count * (lookup'.round - 1) + (lookup'.server - 1)
    <3>1. lookup.server = Count
      BY <1>2, <1>8
    <3>2. PICK q \in Nat : lookup.round = q + 1 /\ lookup.round - 1 = q
      <4>1. lookup.round \in Nat /\ lookup.round >= 1
        BY <1>2
      <4>2. lookup.round - 1 \in Nat /\ lookup.round = (lookup.round - 1) + 1
        BY <4>1
      <4> QED
        BY <4>2
    <3>3. Count * (q + 1) = Count * q + Count
      BY <1>2
    <3> QED
      BY <1>1, <1>2, <2>2, <3>1, <3>2, <3>3
  <2>5. TriesCounted'
    BY <1>2, <1>3, <1>4, <1>8, <2>1, <2>2, <2>4 DEF TriesCounted
  <2>6. LookupTruthful'
    BY <1>2, <1>5, <1>6, <2>1, Zenon DEF LookupTruthful, DNS!LookupTruthful
  <2> QED
    BY <2>3, <2>5, <2>6 DEF ResolverInv
<1>9. CASE ~(lookup.server < Count) /\ ~(lookup.round < config.attempts)
  <2>1. lookup' = DNS!idle /\ result' = [kind |-> "all failed", from |-> "none"]
    BY <1>9, Zenon DEF DNS!AfterError, DNS!Return, Count
  <2>2. ResolverTypes'
    <3>1. lookup' \in [at : {"idle", "ask", "read"}, type : {"A", "CNAME"}, round : Nat, server : Nat]
      BY <2>1, Zenon DEF DNS!idle
    <3>2. Count' >= 1
      BY <1>2, <1>3
    <3> QED
      BY <1>1, <1>2, <3>1, <3>2 DEF ResolverTypes
  <2>3. Len(tries') = Count * config.attempts
    <3>1. lookup.server = Count /\ lookup.round = config.attempts
      BY <1>2, <1>9
    <3>2. PICK q \in Nat : lookup.round = q + 1 /\ lookup.round - 1 = q
      <4>1. lookup.round \in Nat /\ lookup.round >= 1
        BY <1>2
      <4>2. lookup.round - 1 \in Nat /\ lookup.round = (lookup.round - 1) + 1
        BY <4>1
      <4> QED
        BY <4>2
    <3>3. Count * (q + 1) = Count * q + Count
      BY <1>2
    <3> QED
      BY <1>1, <1>2, <3>1, <3>2, <3>3
  <2>4. tries'[Len(tries')][2] \notin {"answer", "no record"}
    <3>1. tries'[Len(tries')][2] = outcome
      BY <1>1
    <3> QED
      BY <3>1, FailureIsNoAnswer, Zenon
  <2>5. LookupTruthful'
    BY <1>3, <1>5, <1>6, <2>1, <2>3, <2>4, Zenon DEF LookupTruthful, DNS!LookupTruthful, Count
  <2> QED
    BY <2>1, <2>2, <2>5, Zenon DEF ResolverInv, TriesCounted, DNS!idle
<1> QED
  BY <1>7, <1>8, <1>9

LEMMA ResolverStep == ResolverInv /\ [DNS!ResolverNext]_resolverVars => ResolverInv'
<1> SUFFICES ASSUME ResolverInv, [DNS!ResolverNext]_resolverVars PROVE ResolverInv'
  OBVIOUS
<1>1. ASSUME NEW t \in {"A", "CNAME"}, DNS!Lookup(t) PROVE ResolverInv'
  <2>1. /\ lookup' = [at |-> "ask", type |-> t, round |-> 1, server |-> 1]
        /\ tries' = <<>> /\ result' = [kind |-> "none", from |-> "none"] /\ config' = config
    BY <1>1 DEF DNS!Lookup
  <2>2. /\ config.nameservers \in Seq(Servers) /\ Count \in Nat \ {0} /\ config.attempts \in Nat \ {0}
        /\ Count' = Count
    <3>1. config.nameservers \in Seq(Servers) /\ Count >= 1 /\ config.attempts \in Nat \ {0}
      BY DEF ResolverInv, ResolverTypes
    <3> QED
      BY <2>1, <3>1 DEF Count
  <2>3. tries' \in Seq(Tries) /\ Len(tries') = 0 /\ DOMAIN tries' = {}
    BY <2>1
  <2>4. Len(tries') = Count * (1 - 1) + (1 - 1)
    BY <2>2, <2>3
  <2>5. ResolverTypes'
    BY <2>1, <2>2, <2>3 DEF ResolverTypes
  <2>6. TriesCounted'
    BY <2>1, <2>2, <2>3, <2>4 DEF TriesCounted
  <2>7. LookupTruthful'
    BY <2>1, <2>3 DEF LookupTruthful, DNS!LookupTruthful
  <2> QED
    BY <2>5, <2>6, <2>7 DEF ResolverInv
<1>2. CASE DNS!Passes \/ UNCHANGED resolverVars
  <2>1. UNCHANGED <<config, lookup, tries, result>>
    BY <1>2 DEF DNS!Passes, resolverVars
  <2> QED
    BY <2>1, Zenon DEF ResolverInv, ResolverTypes, TriesCounted, Count, LookupTruthful, DNS!LookupTruthful
<1>3. CASE DNS!Query
  <2>1. lookup.at = "ask" /\ config' = config
    BY <1>3, Zenon DEF DNS!Query
  <2>2. CASE DNS!AfterError /\ DNS!Tried("not sent")
    BY <2>1, <2>2, FailureKeeps, Zenon DEF Failures
  <2>3. CASE lookup' = [lookup EXCEPT !.at = "read"] /\ UNCHANGED <<tries, result>>
    <3>1. lookup \in [at : {"idle", "ask", "read"}, type : {"A", "CNAME"}, round : Nat, server : Nat]
      BY DEF ResolverInv, ResolverTypes
    <3>2. /\ lookup' \in [at : {"idle", "ask", "read"}, type : {"A", "CNAME"}, round : Nat, server : Nat]
          /\ lookup'.round = lookup.round /\ lookup'.server = lookup.server
      BY <2>3, <3>1
    <3>3. TriesCounted
      BY DEF ResolverInv
    <3>4. TriesCounted'
      BY <2>1, <2>3, <3>2, <3>3 DEF TriesCounted, Count
    <3>5. ResolverTypes'
      BY <2>1, <2>3, <3>2 DEF ResolverInv, ResolverTypes, Count
    <3>6. LookupTruthful'
      BY <2>1, <2>3, Zenon DEF ResolverInv, LookupTruthful, DNS!LookupTruthful
    <3> QED
      BY <3>4, <3>5, <3>6 DEF ResolverInv
  <2> QED
    BY <1>3, <2>2, <2>3, Zenon DEF DNS!Query
<1>4. CASE DNS!ReadTimeout
  BY <1>4, FailureKeeps DEF DNS!ReadTimeout, Failures
<1>5. ASSUME NEW m \in DNS!Responses, DNS!Read(m) PROVE ResolverInv'
  <2>1. lookup.at = "read" /\ config' = config
    BY <1>5, Zenon DEF DNS!Read
  <2>2. PICK outcome : outcome = IF ~m.unpacks THEN "damaged" ELSE IF ~m.sameID THEN "another's"
                                 ELSE IF lookup.type \in m.records THEN "answer" ELSE "no record"
    BY Zenon
  <2>3. DNS!Tried(outcome)
    BY <1>5, <2>2, Zenon DEF DNS!Read
  <2>4. CASE ~DNS!accepted(m)
    <3>1. outcome \in Failures
      BY <2>2, <2>4, Zenon DEF DNS!accepted, Failures
    <3>2. DNS!AfterError
      BY <1>5, <2>4, Zenon DEF DNS!Read
    <3> QED
      BY <2>1, <2>3, <3>1, <3>2, FailureKeeps
  <2>5. CASE DNS!accepted(m)
    <3>1. outcome = IF lookup.type \in m.records THEN "answer" ELSE "no record"
      BY <2>2, <2>5, Zenon DEF DNS!accepted
    <3>2. outcome \in Outcomes
      BY <3>1, Zenon DEF Outcomes
    <3>3. /\ tries' \in Seq(Tries) /\ Len(tries') = Len(tries) + 1 /\ InTurn(tries')
          /\ tries'[Len(tries')] = <<DNS!asked, outcome>>
          /\ \A i \in 1..Len(tries) : tries'[i] = tries[i] /\ tries'[i][2] \in Failures
      BY <2>1, <2>3, <3>2, TriedInTurn
    <3>4. /\ lookup.type \in {"A", "CNAME"} /\ Len(tries) \in Nat
          /\ config.nameservers \in Seq(Servers) /\ Count >= 1 /\ config.attempts \in Nat \ {0}
      BY LenProperties DEF ResolverInv, ResolverTypes
    <3>5. DNS!Concluded(m)
      BY <1>5, <2>5, Zenon DEF DNS!Read
    <3>6. /\ lookup' = DNS!idle
          /\ result'.from = DNS!asked /\ result'.kind \in {"ok", "no ip", "itself"}
          /\ (result'.kind = "ok" <=> lookup.type \in m.records)
      <4>1. PICK kind \in {"ok", "no ip", "itself"} :
               /\ DNS!Return(kind, DNS!asked)
               /\ kind = "ok" <=> lookup.type \in m.records
        <5>1. CASE lookup.type = "CNAME"
          BY <3>5, <5>1, Zenon DEF DNS!Concluded
        <5>2. CASE lookup.type = "A"
          BY <3>5, <5>2, Zenon DEF DNS!Concluded
        <5> QED
          BY <3>4, <5>1, <5>2, Zenon
      <4>2. lookup' = DNS!idle /\ result' = [kind |-> kind, from |-> DNS!asked]
        BY <4>1, Zenon DEF DNS!Return
      <4> QED
        BY <4>1, <4>2, Zenon
    <3>7. ResolverTypes'
      BY <2>1, <3>3, <3>4, <3>6, Zenon DEF ResolverTypes, DNS!idle, Count
    <3>8. \A i \in DOMAIN tries' : tries'[i][1] = config'.nameservers[((i - 1) % Len(config'.nameservers)) + 1]
      <4>1. DOMAIN tries' = 1..Len(tries')
        BY <3>3, LenProperties
      <4> QED
        BY <2>1, <3>3, <4>1 DEF InTurn, Count
    <3>9. \A i \in 1..Len(tries') - 1 : tries'[i][2] \notin {"answer", "no record"}
      <4>1. \A i \in 1..Len(tries') - 1 : i \in 1..Len(tries)
        BY <3>3, <3>4
      <4> QED
        BY <3>3, <4>1, FailureIsNoAnswer, Zenon
    <3>10. LookupTruthful'
      BY <3>1, <3>3, <3>6, <3>8, <3>9, Zenon DEF LookupTruthful, DNS!LookupTruthful
    <3> QED
      BY <3>6, <3>7, <3>10, Zenon DEF ResolverInv, TriesCounted, DNS!idle
  <2> QED
    BY <2>4, <2>5
<1> QED
  BY <1>1, <1>2, <1>3, <1>4, <1>5 DEF DNS!ResolverNext

\* gresolver (exchange, LookupIPAddr, LookupCNAME): a lookup fails only when every
\* server failed in every round, asked in the configured order; it succeeds only with a
\* record that the last server asked sent for this query, and says that there is none
\* only when that server did.
THEOREM ResolverSafe == Spec => []LookupTruthful
<1>1. Init => ResolverInv
  <2> SUFFICES ASSUME Init PROVE ResolverInv
    OBVIOUS
  <2>1. PICK ns \in Nameservers \cup {DNS!DefaultNS}, t \in {"5ns", "0", "5s"}, a \in Attempts \cup {2} :
           config \in {DNS!Validate([nameservers |-> ns, timeout |-> t, attempts |-> a]),
                       DNS!Validate(DNS!ParseResolveFile([nameservers |-> ns, timeout |-> t,
                                                          attempts |-> a]))}
    BY DEF Init, DNS!ResolverInit
  <2>2. PICK c : c = [nameservers |-> ns, timeout |-> t, attempts |-> a]
    OBVIOUS
  <2>d. PICK y, z : DNS!DefaultNS = <<y, z>>
    BY Zenon DEF DNS!DefaultNS
  <2>e. DNS!DefaultNS \in Seq(Servers) /\ Len(DNS!DefaultNS) = 2
    <3>1. y \in Servers /\ z \in Servers
      BY <2>d DEF Servers
    <3> QED
      BY <2>d, <3>1
  <2>3. ns \in Seq(Servers) /\ a \in Int
    <3>1. a \in Int
      BY DataConstants
    <3>2. ns \in {<<>>, <<"n1">>, <<"n1", "n2">>} \/ ns = DNS!DefaultNS
      BY DEF Nameservers
    <3>3. <<>> \in Seq(Servers) /\ <<"n1">> \in Seq(Servers) /\ <<"n1", "n2">> \in Seq(Servers)
      <4>1. "n1" \in Servers /\ "n2" \in Servers
        BY DEF Servers
      <4> QED
        BY <4>1
    <3> QED
      BY <2>e, <3>1, <3>2, <3>3
  <2>4. \A x : x.nameservers \in Seq(Servers) /\ x.attempts \in Int =>
           /\ DNS!Validate(x).nameservers \in Seq(Servers) /\ Len(DNS!Validate(x).nameservers) >= 1
           /\ DNS!Validate(x).attempts \in Nat \ {0}
    <3> TAKE x
    <3> HAVE x.nameservers \in Seq(Servers) /\ x.attempts \in Int
    <3>1. x.nameservers # <<>> => Len(x.nameservers) >= 1
      <4>1. PICK n : n = x.nameservers
        OBVIOUS
      <4>2. n \in Seq(Servers) /\ Len(n) \in Nat
        BY <4>1, LenProperties
      <4>3. n # <<>> => Len(n) \in Nat \ {0}
        BY <4>2, EmptySeq
      <4> QED
        BY <4>1, <4>2, <4>3
    <3>2. PICK c2 : c2 = DNS!DefaultNS
      OBVIOUS
    <3>3. PICK v : v = DNS!Validate(x)
      OBVIOUS
    <3>4. /\ v.nameservers = IF x.nameservers = <<>> THEN c2 ELSE x.nameservers
          /\ v.attempts = IF x.attempts <= 0 THEN 2 ELSE x.attempts
      BY <3>2, <3>3, Zenon DEF DNS!Validate
    <3>5. v.nameservers \in Seq(Servers) /\ Len(v.nameservers) >= 1
      <4>1. CASE x.nameservers = <<>>
        BY <4>1, <2>e, <3>2, <3>4, SMTT(30)
      <4>2. CASE x.nameservers # <<>>
        BY <4>2, <3>1, <3>4
      <4> QED
        BY <4>1, <4>2
    <3>6. v.attempts \in Nat \ {0}
      BY <3>4
    <3> QED
      BY <3>3, <3>5, <3>6
  <2>5. PICK d : d = DNS!ParseResolveFile(c)
    OBVIOUS
  <2>6. d.nameservers \in Seq(Servers) /\ d.attempts \in Int
    BY <2>2, <2>3, <2>5 DEF DNS!ParseResolveFile
  <2>7. config.nameservers \in Seq(Servers) /\ Len(config.nameservers) >= 1 /\ config.attempts \in Nat \ {0}
    BY <2>1, <2>2, <2>3, <2>4, <2>5, <2>6
  <2>8. lookup = DNS!idle /\ tries = <<>> /\ result = [kind |-> "none", from |-> "none"]
    BY DEF Init, DNS!ResolverInit
  <2>9. ResolverTypes
    BY <2>7, <2>8 DEF ResolverTypes, DNS!idle, Count
  <2>10. LookupTruthful
    BY <2>8 DEF LookupTruthful, DNS!LookupTruthful
  <2> QED
    BY <2>8, <2>9, <2>10 DEF ResolverInv, TriesCounted, DNS!idle
<1>2. ResolverInv /\ [Next]_vars => ResolverInv'
  <2>1. [Next]_vars => [DNS!ResolverNext]_resolverVars
    BY DEF Next, vars, Still, resolverVars
  <2> QED
    BY <2>1, ResolverStep
<1>3. ResolverInv => LookupTruthful
  BY DEF ResolverInv
<1> QED
  BY <1>1, <1>2, <1>3, PTL DEF Spec

-------------------------------------------------------------------------------
(***************************************************************************)
(* RedisCache and ValkeyCache.  While a value is promised, the server's     *)
(* entry is that value, and its expiry is the end of the promise, or none   *)
(* for a promise that the clock does not reach.                            *)
(***************************************************************************)
ServerTypes == {"none", "string", "hash", "list", "set"}

RemoteTypes ==
    /\ now \in Nat /\ now <= MaxNow /\ now >= 1
    /\ store \in [type : ServerTypes, val : {store.val}, exp : Nat]
    /\ store.type \in {"none", "string"} => store.val \in Int
    /\ promise \in [val : Int, until : Int]

RemotePromise ==
    promise # Remote!noPromise =>
        /\ store.type = "string" /\ store.val = promise.val
        /\ store.exp = promise.until \/ (store.exp = 0 /\ promise.until > MaxNow)
        /\ promise.until > 0

RemoteInv == RemoteTypes /\ RemotePromise

LEMMA RemoteKeeps == ASSUME RemoteInv PROVE KeepsWhatWasSet
<1>1. ASSUME promise # Remote!noPromise, now < promise.until
      PROVE  Remote!live.type = "string" /\ Remote!live.val = promise.val
  BY <1>1, DataConstants DEF RemoteInv, RemoteTypes, RemotePromise, Remote!live
<1>2. ASSUME promise # Remote!noPromise, ~(now < promise.until)
      PROVE  Remote!live.type = "none"
  BY <1>2, DataConstants DEF RemoteInv, RemoteTypes, RemotePromise, Remote!live, Remote!nothing
<1> QED
  BY <1>1, <1>2 DEF KeepsWhatWasSet, Remote!KeepsWhatWasSet

\* What a step writes, when it promises nothing.
LEMMA Unpromised ==
    ASSUME RemoteInv, NEW t \in ServerTypes, NEW v, NEW e \in Nat, t \in {"none", "string"} => v \in Int,
           store' = [type |-> t, val |-> v, exp |-> e], promise' = Remote!noPromise, now' = now
    PROVE  RemoteInv'
BY DataConstants DEF RemoteInv, RemoteTypes, RemotePromise, Remote!noPromise

\* A step that changes neither the entry nor the promise.
LEMMA Left ==
    ASSUME RemoteInv, store' = store, promise' = promise, now' \in {now, now + 1}, now' <= MaxNow
    PROVE  RemoteInv'
BY DataConstants DEF RemoteInv, RemoteTypes, RemotePromise, Remote!noPromise

LEMMA RemoteStep == RemoteInv /\ [Remote!RemoteNext]_remoteVars => RemoteInv'
<1> SUFFICES ASSUME RemoteInv, [Remote!RemoteNext]_remoteVars PROVE RemoteInv'
  OBVIOUS
<1> DEFINE live == Remote!live
<1>0. /\ now \in Nat /\ now <= MaxNow /\ now >= 1 /\ MaxNow \in Nat
      /\ store \in [type : ServerTypes, val : {store.val}, exp : Nat]
      /\ promise \in [val : Int, until : Int]
  BY DataConstants DEF RemoteInv, RemoteTypes
<1>1. /\ live = [type |-> live.type, val |-> live.val, exp |-> live.exp]
      /\ live.type \in ServerTypes /\ live.exp \in Nat
      /\ (live.type \in {"none", "string"} => live.val \in Int)
  BY <1>0 DEF Remote!live, Remote!nothing, ServerTypes, RemoteInv, RemoteTypes
<1>2. promise # Remote!noPromise =>
         (live = Remote!nothing \/ (live = store /\ live.type = "string" /\ live.val = promise.val))
  BY DEF RemoteInv, RemotePromise, Remote!live
<1> HIDE DEF live
<1>3. CASE Remote!Tick \/ UNCHANGED remoteVars
  BY <1>0, <1>3, Left DEF Remote!Tick, remoteVars
<1>4. CASE Remote!Get \/ Remote!Exists \/ Remote!TTL \/ Remote!HashGet \/ Remote!HashGetAll
           \/ Remote!ListRange \/ Remote!SetMembers \/ \E v \in Numbers : Remote!SetIsMember(v)
  <2>1. UNCHANGED <<store, promise, now>>
    BY <1>4, Zenon DEF Remote!Get, Remote!Exists, Remote!TTL, Remote!HashGet, Remote!HashGetAll,
                Remote!ListRange, Remote!SetMembers, Remote!SetIsMember, Remote!Keep,
                Remote!Called, Remote!Typed
  <2> QED
    BY <1>0, <2>1, Left
<1>5. CASE Remote!Delete
  BY <1>5, Unpromised DEF Remote!Delete, Remote!Called, Remote!Break, Remote!nothing, ServerTypes
<1>6. CASE Remote!HashDelete
  <2>1. now' = now /\ \/ UNCHANGED <<store, promise>>
                      \/ store' = Remote!nothing /\ promise' = Remote!noPromise
    BY <1>6, Zenon DEF Remote!HashDelete, Remote!Called, Remote!Break, Remote!Typed
  <2> QED
    BY <1>0, <2>1, Left, Unpromised DEF Remote!nothing, ServerTypes
<1>7. CASE Remote!ListPop
  <2>1. now' = now /\ promise' = promise
    BY <1>7, Zenon DEF Remote!ListPop, Remote!Called, Remote!Typed, Remote!Keep
  <2>2. CASE store' = store
    BY <1>0, <2>1, <2>2, Left
  <2>3. CASE store' # store
    <3>1. live.type = "list"
      BY <1>1, <1>7, <2>3, Zenon DEF Remote!ListPop, Remote!Typed, Remote!Keep, live
    <3>2. promise = Remote!noPromise
      BY <1>2, <3>1 DEF Remote!nothing
    <3>3. PICK w : store' = Remote!nothing \/ store' = [live EXCEPT !.val = w]
      BY <1>7, <2>3, Zenon DEF Remote!ListPop, Remote!Typed, Remote!Keep, live
    <3>4. [live EXCEPT !.val = w] = [type |-> live.type, val |-> w, exp |-> live.exp]
      BY <1>1, SMTT(30)
    <3> QED
      BY <1>1, <2>1, <3>1, <3>2, <3>3, <3>4, Unpromised DEF Remote!nothing, ServerTypes
  <2> QED
    BY <2>2, <2>3
<1>8. ASSUME NEW v \in Numbers, Remote!HashSet(v) \/ Remote!ListPush(v) \/ Remote!SetAdd(v)
      PROVE  RemoteInv'
  <2>1. now' = now /\ \/ UNCHANGED <<store, promise>>
                      \/ \E w : \E t \in {"hash", "list", "set"} :
                            /\ store' = [live EXCEPT !.type = t, !.val = w]
                            /\ promise' = Remote!noPromise
    BY <1>8, ZenonT(60) DEF Remote!HashSet, Remote!ListPush, Remote!SetAdd, Remote!Called, Remote!Break,
                Remote!Typed, live
  <2>2. CASE UNCHANGED <<store, promise>>
    BY <1>0, <2>1, <2>2, Left
  <2>3. ASSUME NEW t \in {"hash", "list", "set"}, NEW w, store' = [live EXCEPT !.type = t, !.val = w],
               promise' = Remote!noPromise
        PROVE  RemoteInv'
    <3>1. PICK y : y = [live EXCEPT !.type = t]
      OBVIOUS
    <3>2. y = [type |-> t, val |-> live.val, exp |-> live.exp]
      BY <1>1, <3>1
    <3>3. store' = [type |-> t, val |-> w, exp |-> live.exp]
      BY <2>3, <3>1, <3>2
    <3> QED
      BY <1>1, <2>1, <2>3, <3>3, Unpromised, Zenon DEF ServerTypes
  <2> QED
    BY <2>1, <2>2, <2>3, ZenonT(60)
<1>9. ASSUME NEW v \in Numbers, NEW d \in Durations, Remote!Set(v, d) PROVE RemoteInv'
  <2>0. v \in Int /\ d \in Nat
    BY DataConstants
  <2>1. CASE Remote!SetExpiry(d) = -1
    <3>1. UNCHANGED <<store, promise, now>>
      BY <1>9, <2>1 DEF Remote!Set, Remote!Called, Remote!Keep
    <3> QED
      BY <1>0, <3>1, Left
  <2>2. CASE Remote!SetExpiry(d) # -1
    <3>1. now' = now /\ store' = [type |-> "string", val |-> v, exp |-> Remote!SetExpiry(d)]
      BY <1>9, <2>2 DEF Remote!Set, Remote!Called
    <3>2. Remote!SetExpiry(d) \in Nat
      BY <1>0, <2>0, <2>2 DEF Remote!SetExpiry, Remote!TicksPerSecond
    <3>3. CASE promise' = Remote!noPromise
      BY <2>0, <3>1, <3>2, <3>3, Unpromised DEF ServerTypes
    <3>4. CASE promise' # Remote!noPromise
      <4>1. promise' = [val |-> v, until |-> IF d = 0 THEN MaxNow + 1 ELSE now + d]
            /\ (client = "redis" \/ Remote!whole(d))
        BY <1>9, <2>2, <3>4 DEF Remote!Set
      <4>2. d # 0 => Remote!SetExpiry(d) = now + d
        BY <1>0, <2>0, <2>2, <4>1 DEF Remote!SetExpiry, Remote!whole, Remote!TicksPerSecond
      <4>3. d = 0 => Remote!SetExpiry(d) = 0
        BY <2>2 DEF Remote!SetExpiry, Remote!TicksPerSecond
      <4> QED
        BY <1>0, <2>0, <3>1, <3>2, <4>1, <4>2, <4>3 DEF RemoteInv, RemoteTypes, RemotePromise, ServerTypes
    <3> QED
      BY <3>3, <3>4
  <2> QED
    BY <2>1, <2>2
<1>10. ASSUME NEW n \in Int, NEW op, Remote!Add(op, n) PROVE RemoteInv'
  <2>1. now' = now
    BY <1>10 DEF Remote!Add, Remote!Called
  <2>2. CASE live.type \notin {"none", "string"}
    <3>1. UNCHANGED <<store, promise>>
      BY <1>10, <2>2, Zenon DEF Remote!Add, Remote!Typed, live
    <3> QED
      BY <1>0, <2>1, <3>1, Left
  <2>3. CASE live.type \in {"none", "string"}
    <3>1. /\ store' = [live EXCEPT !.type = "string", !.val = @ + n]
          /\ promise' = IF now < promise.until THEN [promise EXCEPT !.val = live.val + n]
                        ELSE Remote!noPromise
      BY <1>10, <2>3, Zenon DEF Remote!Add, Remote!Typed, live
    <3>2. live.val \in Int
      BY <1>1, <2>3
    <3>3. store' = [type |-> "string", val |-> live.val + n, exp |-> live.exp]
      <4>1. PICK y : y = [live EXCEPT !.type = "string"]
        OBVIOUS
      <4>2. y = [type |-> "string", val |-> live.val, exp |-> live.exp]
        BY <1>1, <4>1
      <4>3. [y EXCEPT !.val = @ + n] = [type |-> "string", val |-> live.val + n, exp |-> live.exp]
        BY <4>2
      <4> QED
        BY <3>1, <4>1, <4>3
    <3>4. CASE promise' = Remote!noPromise
      BY <1>1, <2>1, <3>2, <3>3, <3>4, Unpromised DEF ServerTypes
    <3>5. CASE promise' # Remote!noPromise
      <4>1. now < promise.until /\ promise' = [val |-> live.val + n, until |-> promise.until]
        BY <1>0, <3>1, <3>5
      <4>2. promise # Remote!noPromise
        BY <1>0, <4>1 DEF Remote!noPromise
      <4>3. live = store
        BY <1>0, <4>1, <4>2 DEF live, Remote!live, RemoteInv, RemotePromise
      <4> QED
        BY <1>0, <2>1, <3>2, <3>3, <4>1, <4>2, <4>3 DEF RemoteInv, RemoteTypes, RemotePromise, ServerTypes
    <3> QED
      BY <3>4, <3>5
  <2> QED
    BY <2>2, <2>3
<1>11. ASSUME NEW d \in Durations, Remote!Expire(d) PROVE RemoteInv'
  <2>0. d \in Nat /\ Remote!ExpireSeconds(d) \in Nat
    BY DataConstants DEF Remote!ExpireSeconds, Remote!TicksPerSecond
  <2>1. now' = now
    BY <1>11 DEF Remote!Expire, Remote!Called
  <2>2. /\ store' = IF live.type = "none" \/ Remote!ExpireSeconds(d) <= 0 THEN Remote!nothing
                    ELSE [live EXCEPT !.exp = now + Remote!ExpireSeconds(d) * Remote!TicksPerSecond]
        /\ promise' = IF live.type = "string" /\ d > 0 /\ Remote!whole(d)
                      THEN [val |-> live.val, until |-> now + d] ELSE Remote!noPromise
    BY <1>11 DEF Remote!Expire, live
  <2>3. PICK e : e = now + Remote!ExpireSeconds(d) * Remote!TicksPerSecond
    OBVIOUS
  <2>4. e \in Nat
    BY <1>0, <2>0, <2>3 DEF Remote!TicksPerSecond
  <2>5. [live EXCEPT !.exp = e] = [type |-> live.type, val |-> live.val, exp |-> e]
    BY <1>1
  <2>6. CASE promise' = Remote!noPromise
    <3>1. CASE store' = Remote!nothing
      BY <2>1, <2>6, <3>1, Unpromised DEF Remote!nothing, ServerTypes
    <3>2. CASE store' # Remote!nothing
      <4>1. store' = [type |-> live.type, val |-> live.val, exp |-> e]
        BY <2>2, <2>3, <2>5, <3>2
      <4> QED
        BY <1>1, <2>1, <2>4, <2>6, <4>1, Unpromised
    <3> QED
      BY <3>1, <3>2
  <2>7. CASE promise' # Remote!noPromise
    <3>1. /\ live.type = "string" /\ d > 0 /\ Remote!whole(d)
          /\ promise' = [val |-> live.val, until |-> now + d]
      BY <2>2, <2>7
    <3>2. Remote!ExpireSeconds(d) > 0 /\ e = now + d
      BY <1>0, <2>0, <2>3, <3>1 DEF Remote!ExpireSeconds, Remote!whole, Remote!TicksPerSecond
    <3>3. store' = [type |-> "string", val |-> live.val, exp |-> e]
      BY <2>0, <2>2, <2>3, <2>5, <3>1, <3>2
    <3> QED
      BY <1>0, <1>1, <2>0, <2>1, <2>4, <3>1, <3>2, <3>3
      DEF RemoteInv, RemoteTypes, RemotePromise, ServerTypes
  <2> QED
    BY <2>6, <2>7
<1>12. ASSUME NEW v \in Numbers PROVE v \in Int /\ -v \in Int
  BY DataConstants
<1> QED
  BY <1>3, <1>4, <1>5, <1>6, <1>7, <1>8, <1>9, <1>10, <1>11, <1>12 DEF Remote!RemoteNext

\* RedisCache and ValkeyCache: a value is there until its expiration has passed and not
\* longer, whatever is added to it and however its expiration is changed meanwhile.
THEOREM RemoteSafe == Spec => []KeepsWhatWasSet
<1>1. Init => RemoteInv
  <2> SUFFICES ASSUME Init PROVE RemoteInv
    OBVIOUS
  <2>1. store = Remote!nothing /\ now = 1 /\ promise = Remote!noPromise
    BY DEF Init, Remote!RemoteInit
  <2> QED
    BY <2>1, DataConstants DEF RemoteInv, RemoteTypes, RemotePromise, Remote!nothing, Remote!noPromise, ServerTypes
<1>2. RemoteInv /\ [Next]_vars => RemoteInv'
  <2>1. [Next]_vars => [Remote!RemoteNext]_remoteVars
    BY DEF Next, vars, Still, remoteVars
  <2> QED
    BY <2>1, RemoteStep
<1> QED
  BY <1>1, <1>2, RemoteKeeps, PTL DEF Spec


-------------------------------------------------------------------------------
(***************************************************************************)
(* gnet/pcap.  Unit 1 of the file is its header, unit 2 * i the header and  *)
(* unit 2 * i + 1 the data of packet i, whoever wrote it and wherever the   *)
(* file was cut; the Reader is in front of the header of the next packet it *)
(* has not returned.                                                        *)
(***************************************************************************)
IsSeq(s) == \E S : s \in Seq(S)

\* h is the header of the packet that s says was written, in a file of unit u.
Describes(h, s, u) ==
    /\ h.part = "header" /\ h.inclLen = s.inclLen /\ h.origLen = s.origLen
    /\ h.inclLen \in Nat /\ h.origLen \in Nat /\ (h.origLen = 0 => h.inclLen = 0)
    /\ h.tsSec \in Nat /\ h.tsUsec \in Nat
    /\ h.tsSec = Classic!TimeOf(s).sec /\ h.tsUsec * u = Classic!TimeOf(s).nsec

FileIs(f, s, u) ==
    /\ IsSeq(f) /\ IsSeq(s) /\ Len(f) <= 2 * Len(s) + 1
    /\ f # <<>> => f[1].part = "fileHeader" /\ f[1].snapLen \in Nat
    /\ f # <<>> => Classic!TimestampResolution(f[1].magic) = u /\ Classic!ByteOrder(f[1].magic) \in {"little", "big"}
    /\ \A i \in 1..Len(s) :
          /\ s[i].unit = u
          /\ 2 * i <= Len(f) => Describes(f[2 * i], s[i], u)
          /\ 2 * i + 1 <= Len(f) => f[2 * i + 1].part = "data"

Unit == IF copied THEN 1000 ELSE writer.resolution

GotIs(g, s) ==
    /\ IsSeq(g) /\ Len(g) <= Len(s)
    /\ \A i \in 1..Len(g) :
          /\ g[i].time = Classic!TimeOf(s[i]) /\ g[i].inclLen = s[i].inclLen /\ g[i].origLen = s[i].origLen
          /\ g[i].time.sec \in Nat /\ g[i].time.nsec \in Nat
          /\ g[i].inclLen \in Nat /\ g[i].origLen \in Nat /\ (g[i].origLen = 0 => g[i].inclLen = 0)

PcapWriting ==
    /\ ended \in {"new", "writing", "half", "whole", "cut"} /\ copied \in BOOLEAN
    /\ ended # "new" => Unit \in {1, 1000}
    /\ ended = "new" => file = <<>> /\ sent = <<>>
    /\ ended = "writing" => Len(file) = 2 * Len(sent) + 1
    /\ ended = "half" => Len(file) = 2 * Len(sent) /\ file # <<>>
    /\ ended \in {"new", "writing", "half"} => reader = Classic!newReader /\ ~copied /\ got = <<>>

ReaderTypes ==
    [at : Nat, order : {"none", "little", "big"}, tsUnit : Nat, snapLen : Nat,
     result : {"none", "noHeader", "EOF", "invalidHeader", "tooLong"}]

PcapReading ==
    /\ reader \in ReaderTypes
    /\ reader.order = "none" => got = <<>> /\ reader.result \in {"none", "noHeader"}
    /\ reader.order # "none" => /\ file # <<>> /\ reader.tsUnit = Unit
                                /\ reader.at = 2 * Len(got) + 2 /\ 2 * Len(got) <= Len(file)
    /\ got # <<>> /\ Len(file) = 2 * Len(got) => file[Len(file)].inclLen = 0
    /\ reader.result = "EOF" => ended = "whole" /\ reader.at > Len(file)

PcapInv == PcapWriting /\ PcapReading /\ FileIs(file, sent, Unit) /\ GotIs(got, sent)

LEMMA PcapKeeps == ASSUME PcapInv PROVE Classic!PcapReadBack
<1>1. GotIs(got, sent)
  BY DEF PcapInv
<1>2. Len(got) <= Len(sent) /\ DOMAIN got = 1..Len(got)
  BY <1>1 DEF GotIs, IsSeq
<1>3. ASSUME reader.result = "EOF" PROVE ended = "whole" /\ (file[Len(file)].part = "header" => file[Len(file)].inclLen = 0)
  <2>1. /\ reader.order # "none" /\ ended = "whole" /\ file # <<>> /\ reader.at > Len(file)
        /\ reader.at = 2 * Len(got) + 2 /\ 2 * Len(got) <= Len(file)
    BY <1>3 DEF PcapInv, PcapReading
  <2>2. IsSeq(file) /\ IsSeq(sent) /\ Len(file) <= 2 * Len(sent) + 1 /\ Len(got) \in Nat /\ Len(file) \in Nat
    BY <1>1 DEF PcapInv, FileIs, GotIs, IsSeq
  <2>n. PICK m \in Nat, n \in Nat : m = Len(file) /\ n = Len(got)
    BY <2>2
  <2>m. m > 0 /\ 2 * n + 2 > m /\ 2 * n <= m
    BY <2>1, <2>2, <2>n
  <2>3. \/ Len(file) = 2 * Len(got)
        \/ Len(file) = 2 * Len(got) + 1 /\ Len(got) >= 1
        \/ Len(file) = 1
    BY <2>n, <2>m
  <2>4. CASE Len(file) = 2 * Len(got)
    <3>1. got # <<>>
      BY <2>1, <2>2, <2>4 DEF IsSeq
    <3> QED
      BY <2>1, <2>4, <3>1 DEF PcapInv, PcapReading
  <2>5. CASE Len(file) = 2 * Len(got) + 1 /\ Len(got) >= 1
    <3>1. Len(got) \in 1..Len(sent)
      BY <1>2, <2>2, <2>5 DEF IsSeq
    <3>2. file[2 * Len(got) + 1].part = "data"
      BY <2>2, <2>5, <3>1 DEF PcapInv, FileIs
    <3> QED
      BY <2>1, <2>5, <3>2
  <2>6. CASE Len(file) = 1
    BY <2>1, <2>6 DEF PcapInv, FileIs
  <2> QED
    BY <2>1, <2>3, <2>4, <2>5, <2>6
<1> QED
  BY <1>1, <1>2, <1>3 DEF GotIs, Classic!PcapReadBack, Classic!LastUnit

\* The time a packet is given, or its header has.
TimeGiven(p) ==
    \/ p.time.sec \in Nat /\ p.time.nsec \in Nat
    \/ p.time = Classic!NoTime /\ p.tsSec \in Nat /\ p.tsUsec \in Nat

LEMMA HeaderIs ==
    ASSUME NEW w, w.resolution \in {1, 1000}, NEW p, p.len \in Nat, p.inclLen \in Nat, p.origLen \in Nat,
           TimeGiven(p), p.len >= p.inclLen, NEW h, h = Classic!PacketHeader(w, p),
           NEW s, s.time = p.time, s.unit = w.resolution, s.tsSec = p.tsSec, s.tsUsec = p.tsUsec,
           s.inclLen = h.inclLen, s.origLen = h.origLen
    PROVE  Describes(h, s, w.resolution)
<1>d. PICK ps, pu : ps = p.tsSec /\ pu = p.tsUsec
  OBVIOUS
<1>a. PICK own : own = [tsSec |-> ps, tsUsec |-> pu]
  BY ZenonT(60)
<1>b. PICK set : set = Classic!SetTimestamp(p.time, w.resolution)
  OBVIOUS
<1>c. PICK raw : raw = [sec |-> s.tsSec, nsec |-> s.tsUsec * s.unit]
  BY ZenonT(60)
<1>1. PICK ts : ts = IF p.time # Classic!NoTime THEN set ELSE own
  OBVIOUS
<1>2. /\ h.part = "header" /\ h.tsSec = ts.tsSec /\ h.tsUsec = ts.tsUsec
      /\ h.inclLen = (IF p.inclLen = 0 THEN p.len ELSE p.inclLen)
      /\ h.origLen = (IF p.origLen = 0 THEN p.len ELSE p.origLen)
  BY <1>a, <1>b, <1>d, <1>1 DEF Classic!PacketHeader
<1>3. h.inclLen \in Nat /\ h.origLen \in Nat /\ (h.origLen = 0 => h.inclLen = 0)
  BY <1>2
<1>4. PICK t : t = IF s.time = Classic!NoTime THEN raw ELSE s.time
  OBVIOUS
<1>5. Classic!TimeOf(s).sec = t.sec /\ Classic!TimeOf(s).nsec = (t.nsec \div s.unit) * s.unit
  BY <1>c, <1>4 DEF Classic!TimeOf
<1>6. /\ h.tsSec \in Nat /\ h.tsUsec \in Nat
      /\ h.tsSec = Classic!TimeOf(s).sec /\ h.tsUsec * w.resolution = Classic!TimeOf(s).nsec
  <2>1. CASE p.time = Classic!NoTime
    <3>1. ts.tsSec = p.tsSec /\ ts.tsUsec = p.tsUsec /\ t.sec = p.tsSec /\ t.nsec = p.tsUsec * w.resolution
      BY <1>a, <1>c, <1>d, <1>1, <1>4, <2>1
    <3>2. p.tsSec \in Nat /\ p.tsUsec \in Nat
      BY <2>1 DEF TimeGiven, Classic!NoTime
    <3>3. CASE w.resolution = 1
      BY <1>2, <1>5, <3>1, <3>2, <3>3
    <3>4. CASE w.resolution = 1000
      BY <1>2, <1>5, <3>1, <3>2, <3>4
    <3> QED
      BY <3>3, <3>4
  <2>2. CASE p.time # Classic!NoTime
    <3>1. t = p.time /\ ts.tsSec = p.time.sec
          /\ ts.tsUsec = (IF w.resolution = 1 THEN p.time.nsec ELSE p.time.nsec \div 1000)
      BY <1>b, <1>1, <1>4, <2>2 DEF Classic!SetTimestamp, Classic!Nanosecond
    <3>2. p.time.sec \in Nat /\ p.time.nsec \in Nat
      BY <2>2 DEF TimeGiven
    <3>3. CASE w.resolution = 1
      BY <1>2, <1>5, <3>1, <3>2, <3>3
    <3>4. CASE w.resolution = 1000
      BY <1>2, <1>5, <3>1, <3>2, <3>4
    <3> QED
      BY <3>3, <3>4
  <2> QED
    BY <2>1, <2>2
<1> QED
  BY <1>2, <1>3, <1>6 DEF Describes

LEMMA HeaderAdded ==
    ASSUME NEW f, NEW s, NEW u, FileIs(f, s, u), Len(f) = 2 * Len(s) + 1,
           NEW h, NEW r, Describes(h, r, u), r.unit = u
    PROVE  FileIs(Append(f, h), Append(s, r), u) /\ Len(Append(f, h)) = 2 * Len(Append(s, r)) /\ Append(f, h) # <<>>
<1>1. PICK S : f \in Seq(S)
  BY DEF FileIs, IsSeq
<1>2. PICK T : s \in Seq(T)
  BY DEF FileIs, IsSeq
<1>3. PICK g : g = Append(f, h)
  OBVIOUS
<1>4. PICK t : t = Append(s, r)
  OBVIOUS
<1>5. /\ g \in Seq(S \cup {h}) /\ Len(g) = Len(f) + 1 /\ g[Len(f) + 1] = h
      /\ \A i \in 1..Len(f) : g[i] = f[i]
  BY <1>1, <1>3, AppendProperties
<1>6. /\ t \in Seq(T \cup {r}) /\ Len(t) = Len(s) + 1 /\ t[Len(s) + 1] = r
      /\ \A i \in 1..Len(s) : t[i] = s[i]
  BY <1>2, <1>4, AppendProperties
<1>7. IsSeq(g) /\ IsSeq(t) /\ Len(g) = 2 * Len(t) /\ g # <<>>
  BY <1>1, <1>2, <1>5, <1>6 DEF IsSeq
<1>8. Len(f) \in Nat /\ Len(s) \in Nat /\ f # <<>>
  BY <1>1, <1>2
<1>9. /\ g[1].part = "fileHeader" /\ g[1].snapLen \in Nat
      /\ Classic!TimestampResolution(g[1].magic) = u
      /\ Classic!ByteOrder(g[1].magic) \in {"little", "big"}
  <2>1. g[1] = f[1]
    BY <1>5, <1>8
  <2> QED
    BY <1>8, <2>1 DEF FileIs
<1>10. ASSUME NEW i \in 1..Len(t)
       PROVE  t[i].unit = u /\ (2 * i <= Len(g) => Describes(g[2 * i], t[i], u))
              /\ (2 * i + 1 <= Len(g) => g[2 * i + 1].part = "data")
  <2>1. CASE i = Len(s) + 1
    <3>1. 2 * i = Len(f) + 1 /\ 2 * i = Len(g)
      BY <1>5, <1>8, <2>1
    <3> QED
      BY <1>5, <1>6, <1>8, <2>1, <3>1
  <2>2. CASE i \in 1..Len(s)
    <3>1. 2 * i \in 1..Len(f) /\ 2 * i + 1 \in 1..Len(f)
      BY <1>8, <2>2
    <3>2. s[i].unit = u /\ Describes(f[2 * i], s[i], u) /\ f[2 * i + 1].part = "data"
      BY <2>2, <3>1 DEF FileIs
    <3> QED
      BY <1>5, <1>6, <2>2, <3>1, <3>2
  <2> QED
    BY <1>6, <1>8, <2>1, <2>2
<1>11. Len(g) <= 2 * Len(t) + 1
  BY <1>6, <1>7, <1>8
<1> QED
  BY <1>3, <1>4, <1>7, <1>9, <1>10, <1>11 DEF FileIs

LEMMA DataAdded ==
    ASSUME NEW f, NEW s, NEW u, FileIs(f, s, u), Len(f) = 2 * Len(s), f # <<>>, NEW d, d.part = "data"
    PROVE  FileIs(Append(f, d), s, u) /\ Len(Append(f, d)) = 2 * Len(s) + 1
<1>1. PICK S : f \in Seq(S)
  BY DEF FileIs, IsSeq
<1>2. PICK g : g = Append(f, d)
  OBVIOUS
<1>3. /\ g \in Seq(S \cup {d}) /\ Len(g) = Len(f) + 1 /\ g[Len(f) + 1] = d
      /\ \A i \in 1..Len(f) : g[i] = f[i]
  BY <1>1, <1>2, AppendProperties
<1>4. IsSeq(g) /\ IsSeq(s) /\ Len(f) \in Nat /\ Len(s) \in Nat /\ Len(f) >= 1
  BY <1>1, <1>3 DEF FileIs, IsSeq
<1>5. ASSUME NEW i \in 1..Len(s)
      PROVE  s[i].unit = u /\ (2 * i <= Len(g) => Describes(g[2 * i], s[i], u))
             /\ (2 * i + 1 <= Len(g) => g[2 * i + 1].part = "data")
  <2>0. 2 * i \in 1..Len(f) /\ 2 * i + 1 \in 1..Len(f) + 1
    BY <1>4
  <2>1. s[i].unit = u /\ Describes(f[2 * i], s[i], u)
    BY <2>0 DEF FileIs
  <2>3. 2 * i + 1 <= Len(f) => f[2 * i + 1].part = "data"
    BY DEF FileIs
  <2>2. 2 * i + 1 = Len(f) + 1 \/ (2 * i + 1 \in 1..Len(f) /\ f[2 * i + 1].part = "data")
    BY <1>4, <2>0, <2>3
  <2> QED
    BY <1>3, <2>0, <2>1, <2>2
<1>6. g[1] = f[1]
  BY <1>3, <1>4
<1>7. g[1].part = "fileHeader" /\ g[1].snapLen \in Nat /\ Classic!TimestampResolution(g[1].magic) = u
      /\ Classic!ByteOrder(g[1].magic) \in {"little", "big"}
  BY <1>6 DEF FileIs
<1>8. Len(g) = 2 * Len(s) + 1
  BY <1>3, <1>4
<1>9. Len(g) <= 2 * Len(s) + 1
  BY <1>4, <1>8
<1> QED
  BY <1>2, <1>4, <1>5, <1>7, <1>8, <1>9 DEF FileIs

LEMMA FileCut ==
    ASSUME NEW f, NEW s, NEW u, FileIs(f, s, u), NEW n \in 0..Len(f)
    PROVE  FileIs(SubSeq(f, 1, n), s, u) /\ Len(SubSeq(f, 1, n)) = n
<1>1. PICK S : f \in Seq(S)
  BY DEF FileIs, IsSeq
<1>2. PICK g : g = SubSeq(f, 1, n)
  OBVIOUS
<1>3. Len(f) \in Nat /\ 1 \in 1..Len(f) + 1 /\ n \in 1 - 1..Len(f)
  BY <1>1
<1>4. g \in Seq(S) /\ Len(g) = n /\ \A i \in 1..n : g[i] = f[i]
  BY <1>1, <1>2, <1>3, SubSeqProperties
<1>5. IsSeq(g) /\ IsSeq(s) /\ Len(g) <= 2 * Len(s) + 1 /\ Len(s) \in Nat
  BY <1>3, <1>4 DEF FileIs, IsSeq
<1>6. ASSUME g # <<>> PROVE f # <<>> /\ g[1] = f[1]
  BY <1>1, <1>3, <1>4, <1>6
<1>7. ASSUME NEW i \in 1..Len(s)
      PROVE  s[i].unit = u /\ (2 * i <= Len(g) => Describes(g[2 * i], s[i], u))
             /\ (2 * i + 1 <= Len(g) => g[2 * i + 1].part = "data")
  <2>1. 2 * i <= n => 2 * i \in 1..n /\ 2 * i <= Len(f)
    BY <1>3, <1>5
  <2>2. 2 * i + 1 <= n => 2 * i + 1 \in 1..n /\ 2 * i + 1 <= Len(f)
    BY <1>3, <1>5
  <2> QED
    BY <1>4, <2>1, <2>2 DEF FileIs
<1>8. g # <<>> => /\ g[1].part = "fileHeader" /\ g[1].snapLen \in Nat
                  /\ Classic!TimestampResolution(g[1].magic) = u
                  /\ Classic!ByteOrder(g[1].magic) \in {"little", "big"}
  BY <1>6 DEF FileIs
<1> QED
  BY <1>2, <1>4, <1>5, <1>7, <1>8 DEF FileIs

LEMMA NothingRead ==
    ASSUME reader' = Classic!newReader, got' = <<>>, IsSeq(sent)'
    PROVE  PcapReading' /\ GotIs(got, sent)'
<1>1. /\ reader'.at = 1 /\ reader'.order = "none" /\ reader'.tsUnit = 0 /\ reader'.result = "none"
      /\ reader' = [at |-> 1, order |-> "none", tsUnit |-> 0, snapLen |-> 0, result |-> "none"]
  BY DEF Classic!newReader
<1>2. PcapReading'
  BY <1>1 DEF PcapReading, ReaderTypes
<1>3. GotIs(got, sent)'
  BY DEF GotIs, IsSeq
<1> QED
  BY <1>2, <1>3

LEMMA PcapPacketIs ==
    ASSUME NEW p \in PcapPackets PROVE p.len \in Nat /\ p.inclLen \in Nat /\ p.origLen \in Nat /\ TimeGiven(p)
<1>1. \A n, k : k \in Below(n) => k \in Nat
  BY DEF Below
<1>2. ASSUME p.time \in Times PROVE p.time.sec \in Nat /\ p.time.nsec \in Nat
  <2>1. p.time.sec \in Below(2147483647) /\ p.time.nsec \in Below(1000000000)
    BY <1>2, SMT DEF Times
  <2> QED
    BY <1>1, <2>1, SMT
<1>3. p.len \in Nat /\ p.inclLen \in Nat /\ p.origLen \in Nat /\ p.tsSec \in Nat /\ p.tsUsec \in Nat
  BY <1>1, PcapConstants, SMT
<1>4. p.time \in Times \/ p.time = [sec |-> -1, nsec |-> 0]
  BY PcapConstants, SMT
<1> QED
  BY <1>2, <1>3, <1>4 DEF TimeGiven, Classic!NoTime

LEMMA PcapNewWriter == ASSUME PcapInv, Classic!NewWriter PROVE PcapInv'
<1>0. copied \in BOOLEAN
  BY DEF PcapInv, PcapWriting
<1>1. PICK w \in PcapWriters : Classic!accepted(w) /\ writer' = w /\ file' = <<Classic!FileHeader(w)>>
  BY DEF Classic!NewWriter
<1>2. ended = "new" /\ ended' = "writing" /\ UNCHANGED <<reader, copied, sent, got>>
  BY DEF Classic!NewWriter
<1>3. w.order \in {"little", "big"} /\ w.snapLen \in Nat /\ w.resolution \in {1, 1000}
  BY <1>1, PcapConstants, SMT DEF Classic!accepted, Classic!Microsecond, Classic!Nanosecond
<1>4. sent = <<>> /\ got = <<>> /\ reader = Classic!newReader /\ ~copied
  BY <1>2 DEF PcapInv, PcapWriting
<1>5. PICK h : h = Classic!FileHeader(w)
  OBVIOUS
<1>6. h.part = "fileHeader" /\ h.snapLen \in Nat /\ h.magic = <<w.order, IF w.resolution = 1 THEN "nano" ELSE "micro">>
  BY <1>3, <1>5 DEF Classic!FileHeader, Classic!selectMagic, Classic!Nanosecond
<1>7. Classic!TimestampResolution(h.magic) = w.resolution /\ Classic!ByteOrder(h.magic) \in {"little", "big"}
  BY <1>3, <1>6 DEF Classic!TimestampResolution, Classic!ByteOrder, Classic!Nanosecond, Classic!Microsecond
<1>8. Unit' = w.resolution
  BY <1>1, <1>2, <1>4 DEF Unit
<1>9. file' = <<h>> /\ Len(file') = 1 /\ file'[1] = h /\ file' \in Seq({h}) /\ sent' = <<>> /\ sent' \in Seq({})
  BY <1>1, <1>2, <1>4, <1>5
<1>10. IsSeq(sent)' /\ IsSeq(file)'
  BY <1>9 DEF IsSeq
<1>11. FileIs(file, sent, Unit)'
  BY <1>6, <1>7, <1>8, <1>9, <1>10 DEF FileIs
<1>12. PcapReading' /\ GotIs(got, sent)'
  BY <1>2, <1>4, <1>10, NothingRead
<1>13. PcapWriting'
  BY <1>0, <1>2, <1>3, <1>4, <1>8, <1>9 DEF PcapWriting
<1> QED
  BY <1>11, <1>12, <1>13 DEF PcapInv

LEMMA PcapWriteHeader == ASSUME PcapInv, Classic!WriteHeader PROVE PcapInv'
<1>0. copied \in BOOLEAN
  BY DEF PcapInv, PcapWriting
<1>1. PICK p \in PcapPackets :
         /\ p.len >= p.inclLen
         /\ file' = Append(file, Classic!PacketHeader(writer, p))
         /\ sent' = Append(sent, [time |-> p.time, unit |-> writer.resolution, tsSec |-> p.tsSec, tsUsec |-> p.tsUsec,
                                  inclLen |-> Classic!PacketHeader(writer, p).inclLen,
                                  origLen |-> Classic!PacketHeader(writer, p).origLen])
  BY DEF Classic!WriteHeader
<1>2. ended = "writing" /\ ended' = "half" /\ UNCHANGED <<writer, reader, copied, got>>
  BY DEF Classic!WriteHeader
<1>3. /\ Len(file) = 2 * Len(sent) + 1 /\ reader = Classic!newReader /\ ~copied /\ got = <<>>
      /\ Unit = writer.resolution /\ Unit \in {1, 1000} /\ FileIs(file, sent, Unit)
  BY <1>2 DEF PcapInv, PcapWriting, Unit
<1>4. PICK h : h = Classic!PacketHeader(writer, p)
  OBVIOUS
<1>5. PICK pt, ps, pu, u, il, ol : /\ pt = p.time /\ ps = p.tsSec /\ pu = p.tsUsec /\ u = writer.resolution
                                   /\ il = h.inclLen /\ ol = h.origLen
  OBVIOUS
<1>6. PICK r : r = [time |-> pt, unit |-> u, tsSec |-> ps, tsUsec |-> pu, inclLen |-> il, origLen |-> ol]
  OBVIOUS
<1>7. /\ r.time = p.time /\ r.unit = writer.resolution /\ r.tsSec = p.tsSec /\ r.tsUsec = p.tsUsec
      /\ r.inclLen = h.inclLen /\ r.origLen = h.origLen
  BY <1>5, <1>6
<1>8. file' = Append(file, h) /\ sent' = Append(sent, r)
  BY <1>1, <1>4, <1>5, <1>6
<1>9. Describes(h, r, Unit)
  BY <1>1, <1>3, <1>4, <1>7, PcapPacketIs, HeaderIs
<1>10. Unit' = Unit
  BY <1>2 DEF Unit
<1>11. FileIs(file', sent', Unit) /\ Len(file') = 2 * Len(sent') /\ file' # <<>>
  BY <1>3, <1>7, <1>8, <1>9, HeaderAdded
<1>12. IsSeq(sent)'
  BY <1>11 DEF FileIs
<1>13. PcapReading' /\ GotIs(got, sent)'
  BY <1>2, <1>3, <1>12, NothingRead
<1>14. PcapWriting'
  BY <1>0, <1>2, <1>3, <1>10, <1>11 DEF PcapWriting
<1> QED
  BY <1>10, <1>11, <1>13, <1>14 DEF PcapInv

LEMMA PcapWriteData == ASSUME PcapInv, Classic!WriteData PROVE PcapInv'
<1>0. copied \in BOOLEAN
  BY DEF PcapInv, PcapWriting
<1>1. PICK d : d = [part |-> "data", len |-> file[Len(file)].inclLen]
  OBVIOUS
<1>2. ended = "half" /\ ended' = "writing" /\ UNCHANGED <<writer, reader, copied, sent, got>> /\ file' = Append(file, d)
  BY <1>1 DEF Classic!WriteData
<1>3. /\ Len(file) = 2 * Len(sent) /\ reader = Classic!newReader /\ ~copied /\ got = <<>> /\ file # <<>>
      /\ Unit \in {1, 1000} /\ FileIs(file, sent, Unit) /\ IsSeq(sent) /\ d.part = "data"
  BY <1>1, <1>2 DEF PcapInv, PcapWriting, FileIs
<1>4. FileIs(file', sent', Unit) /\ Len(file') = 2 * Len(sent') + 1
  BY <1>2, <1>3, DataAdded
<1>5. Unit' = Unit /\ IsSeq(sent)'
  BY <1>2, <1>3 DEF Unit, IsSeq
<1>6. PcapReading' /\ GotIs(got, sent)'
  BY <1>2, <1>3, <1>5, NothingRead
<1>7. PcapWriting'
  BY <1>0, <1>2, <1>3, <1>4, <1>5 DEF PcapWriting
<1> QED
  BY <1>4, <1>5, <1>6, <1>7 DEF PcapInv

LEMMA PcapClose == ASSUME PcapInv, Classic!Close PROVE PcapInv'
<1>0. copied \in BOOLEAN
  BY DEF PcapInv, PcapWriting
<1>1. ended = "writing" /\ ended' = "whole" /\ UNCHANGED <<writer, file, reader, copied, sent, got>>
  BY DEF Classic!Close
<1>2. reader = Classic!newReader /\ ~copied /\ got = <<>> /\ Unit \in {1, 1000} /\ FileIs(file, sent, Unit) /\ IsSeq(sent)
  BY <1>1 DEF PcapInv, PcapWriting, FileIs
<1>3. Unit' = Unit /\ IsSeq(sent)'
  BY <1>1, <1>2 DEF Unit, IsSeq
<1>4. PcapReading' /\ GotIs(got, sent)'
  BY <1>1, <1>2, <1>3, NothingRead
<1>5. PcapWriting'
  BY <1>0, <1>1, <1>2, <1>3 DEF PcapWriting
<1> QED
  BY <1>1, <1>2, <1>3, <1>4, <1>5 DEF PcapInv

LEMMA PcapDie == ASSUME PcapInv, Classic!Die PROVE PcapInv'
<1>0. copied \in BOOLEAN
  BY DEF PcapInv, PcapWriting
<1>1. PICK n \in 0..Len(file) : file' = SubSeq(file, 1, n) /\ ended' \in {"whole", "cut"}
  BY DEF Classic!Die
<1>2. ended \in {"writing", "half"} /\ UNCHANGED <<writer, reader, copied, sent, got>>
  BY DEF Classic!Die
<1>3. reader = Classic!newReader /\ ~copied /\ got = <<>> /\ Unit \in {1, 1000} /\ FileIs(file, sent, Unit) /\ IsSeq(sent)
  BY <1>2 DEF PcapInv, PcapWriting, FileIs
<1>4. Unit' = Unit /\ IsSeq(sent)'
  BY <1>2, <1>3 DEF Unit, IsSeq
<1>5. FileIs(file', sent', Unit)
  BY <1>1, <1>2, <1>3, FileCut
<1>6. PcapReading' /\ GotIs(got, sent)'
  BY <1>2, <1>3, <1>4, NothingRead
<1>7. PcapWriting'
  BY <1>0, <1>1, <1>2, <1>3, <1>4 DEF PcapWriting
<1> QED
  BY <1>4, <1>5, <1>6, <1>7 DEF PcapInv

LEMMA PcapNewReader == ASSUME PcapInv, Classic!NewReader PROVE PcapInv'
<1>0. UNCHANGED <<writer, file, ended, copied, sent, got>> /\ ended \in {"whole", "cut"}
  BY DEF Classic!NewReader, Classic!reading
<1>1. reader.order = "none" /\ reader.result = "none" /\ got = <<>> /\ FileIs(file, sent, Unit)
  BY DEF Classic!NewReader, Classic!reading, PcapInv, PcapReading
<1>2. Unit' = Unit
  BY <1>0 DEF Unit
<1>4. reader \in ReaderTypes
  BY DEF PcapInv, PcapReading
<1>5. ASSUME file = <<>> PROVE PcapReading'
  <2>1. reader' = [reader EXCEPT !.result = "noHeader"]
    BY <1>5 DEF Classic!NewReader
  <2>2. reader' \in ReaderTypes
        /\ reader'.order = "none" /\ reader'.result = "noHeader"
    BY <1>1, <1>4, <2>1 DEF ReaderTypes
  <2> QED
    BY <1>0, <1>1, <2>2 DEF PcapReading
<1>6. ASSUME file # <<>> PROVE PcapReading'
  <2>1. PICK o, l, u : o = Classic!ByteOrder(file[1].magic) /\ l = file[1].snapLen /\ u = Classic!TimestampResolution(file[1].magic)
    OBVIOUS
  <2>2. reader' = [reader EXCEPT !.at = 2, !.order = o, !.snapLen = l, !.tsUnit = u]
    BY <1>6, <2>1 DEF Classic!NewReader
  <2>3. o \in {"little", "big"} /\ u = Unit /\ l \in Nat
    BY <1>1, <1>6, <2>1 DEF FileIs
  <2>4. Unit \in Nat
    BY <1>0 DEF PcapInv, PcapWriting
  <2>5. /\ reader'.at = 2 /\ reader'.order = o /\ reader'.result = "none" /\ reader'.tsUnit = Unit
        /\ reader' \in ReaderTypes
    BY <1>1, <1>4, <2>2, <2>3, <2>4 DEF ReaderTypes
  <2>6. Len(got) = 0 /\ Len(file) \in Nat
    BY <1>1 DEF FileIs, IsSeq
  <2> QED
    BY <1>0, <1>1, <1>2, <1>6, <2>3, <2>5, <2>6 DEF PcapReading
<1>7. PcapReading'
  BY <1>5, <1>6
<1>8. PcapWriting'
  BY <1>0, <1>2 DEF PcapInv, PcapWriting
<1>9. FileIs(file, sent, Unit)' /\ GotIs(got, sent)'
  BY <1>0, <1>1, <1>2 DEF PcapInv
<1> QED
  BY <1>7, <1>8, <1>9 DEF PcapInv

\* What the Reader returns for the header it is in front of.
LEMMA PcapReturns ==
    ASSUME PcapInv, reader.order # "none", Classic!Outcome = "packet",
           NEW g, g = Classic!Packet(file[reader.at]), NEW i, i = Len(got) + 1
    PROVE  /\ i \in 1..Len(sent) /\ 2 * i <= Len(file) /\ (2 * i = Len(file) => file[2 * i].inclLen = 0)
           /\ g.time = Classic!TimeOf(sent[i]) /\ g.inclLen = sent[i].inclLen /\ g.origLen = sent[i].origLen
           /\ g.time.sec \in Nat /\ g.time.nsec \in Nat
           /\ g.inclLen \in Nat /\ g.origLen \in Nat /\ (g.origLen = 0 => g.inclLen = 0)
<1>1. /\ reader.tsUnit = Unit /\ reader.at = 2 * Len(got) + 2
      /\ FileIs(file, sent, Unit) /\ Len(file) <= 2 * Len(sent) + 1
      /\ IsSeq(got) /\ IsSeq(file) /\ IsSeq(sent)
  BY DEF PcapInv, PcapReading, GotIs, FileIs
<1>2. Len(got) \in Nat /\ Len(file) \in Nat /\ Len(sent) \in Nat
  BY <1>1 DEF IsSeq
<1>3. /\ ~(reader.at > Len(file))
      /\ ~(reader.at + 1 > Len(file) /\ file[reader.at].inclLen > 0)
  BY DEF Classic!Outcome
<1>4. i \in Nat /\ reader.at = 2 * i /\ 2 * i <= Len(file) /\ i \in 1..Len(sent)
  BY <1>1, <1>2, <1>3
<1>5. PICK h : h = file[2 * i]
  OBVIOUS
<1>6. Describes(h, sent[i], Unit)
  BY <1>1, <1>4, <1>5 DEF FileIs
<1>7. PICK t : t = [sec |-> h.tsSec, nsec |-> h.tsUsec * Unit]
  OBVIOUS
<1>8. g.time = t /\ g.inclLen = h.inclLen /\ g.origLen = h.origLen
  BY <1>1, <1>4, <1>5, <1>7 DEF Classic!Packet
<1>9. t = Classic!TimeOf(sent[i])
  <2>1. PICK a, b : a = Classic!TimeOf(sent[i]).sec /\ b = Classic!TimeOf(sent[i]).nsec
    OBVIOUS
  <2>2. Classic!TimeOf(sent[i]) = [sec |-> a, nsec |-> b]
    BY <2>1 DEF Classic!TimeOf
  <2>3. h.tsSec = a /\ h.tsUsec * Unit = b
    BY <1>6, <2>1 DEF Describes
  <2> QED
    BY <1>7, <2>2, <2>3
<1>10. /\ h.inclLen \in Nat /\ h.origLen \in Nat /\ (h.origLen = 0 => h.inclLen = 0)
       /\ h.inclLen = sent[i].inclLen /\ h.origLen = sent[i].origLen
       /\ h.tsSec \in Nat /\ h.tsUsec \in Nat
  BY <1>6 DEF Describes
<1>11. Unit \in Nat
  BY <1>1 DEF PcapInv, PcapReading, ReaderTypes
<1>12. h.tsUsec * Unit \in Nat
  BY <1>10, <1>11
<1>13. t.sec \in Nat /\ t.nsec \in Nat
  BY <1>7, <1>10, <1>12
<1>14. 2 * i = Len(file) => h.inclLen = 0
  BY <1>2, <1>3, <1>4, <1>5, <1>10
<1> QED
  BY <1>4, <1>5, <1>8, <1>9, <1>10, <1>13, <1>14

LEMMA PcapReadPacket == ASSUME PcapInv, Classic!ReadPacket PROVE PcapInv'
<1>0. /\ UNCHANGED <<writer, file, ended, copied, sent>> /\ ended \in {"whole", "cut"}
      /\ reader.order # "none" /\ reader.result = "none"
  BY DEF Classic!ReadPacket, Classic!reading
<1>1. /\ FileIs(file, sent, Unit) /\ GotIs(got, sent) /\ IsSeq(got) /\ IsSeq(file) /\ IsSeq(sent)
      /\ file # <<>> /\ reader.tsUnit = Unit /\ reader.at = 2 * Len(got) + 2 /\ 2 * Len(got) <= Len(file)
  BY <1>0 DEF PcapInv, PcapReading, FileIs, GotIs
<1>2. Unit' = Unit
  BY <1>0 DEF Unit
<1>4. reader \in ReaderTypes
  BY DEF PcapInv, PcapReading
<1>5. Len(got) \in Nat /\ Len(file) \in Nat /\ Len(sent) \in Nat
  BY <1>1 DEF IsSeq
<1>6. ASSUME Classic!Outcome = "packet" PROVE PcapReading' /\ GotIs(got, sent)'
  <2>1. PICK g : g = Classic!Packet(file[reader.at])
    OBVIOUS
  <2>2. PICK i : i = Len(got) + 1
    OBVIOUS
  <2>3. got' = Append(got, g) /\ reader' = [reader EXCEPT !.at = @ + 2]
    BY <1>6, <2>1 DEF Classic!ReadPacket
  <2>4. /\ i \in 1..Len(sent) /\ 2 * i <= Len(file) /\ (2 * i = Len(file) => file[2 * i].inclLen = 0)
        /\ g.time = Classic!TimeOf(sent[i]) /\ g.inclLen = sent[i].inclLen /\ g.origLen = sent[i].origLen
        /\ g.time.sec \in Nat /\ g.time.nsec \in Nat
        /\ g.inclLen \in Nat /\ g.origLen \in Nat /\ (g.origLen = 0 => g.inclLen = 0)
    BY <1>0, <1>6, <2>1, <2>2, PcapReturns
  <2>5. PICK S : got \in Seq(S)
    BY <1>1 DEF IsSeq
  <2>6. PICK q : q = got'
    OBVIOUS
  <2>7. q \in Seq(S \cup {g}) /\ Len(q) = Len(got) + 1 /\ q[Len(got) + 1] = g /\ \A k \in 1..Len(got) : q[k] = got[k]
    BY <2>3, <2>5, <2>6, AppendProperties
  <2>8. IsSeq(q) /\ Len(q) = i /\ q # <<>> /\ i \in Nat
    BY <1>5, <2>2, <2>7 DEF IsSeq
  <2>9. ASSUME NEW k \in 1..Len(q)
        PROVE  /\ q[k].time = Classic!TimeOf(sent[k]) /\ q[k].inclLen = sent[k].inclLen /\ q[k].origLen = sent[k].origLen
               /\ q[k].time.sec \in Nat /\ q[k].time.nsec \in Nat
               /\ q[k].inclLen \in Nat /\ q[k].origLen \in Nat /\ (q[k].origLen = 0 => q[k].inclLen = 0)
    <3>1. CASE k = i
      BY <2>2, <2>4, <2>7, <3>1
    <3>2. CASE k \in 1..Len(got)
      BY <1>1, <2>7, <3>2 DEF GotIs
    <3> QED
      BY <1>5, <2>2, <2>8, <3>1, <3>2
  <2>10. GotIs(q, sent)
    BY <1>5, <2>4, <2>8, <2>9 DEF GotIs
  <2>11. /\ reader'.at = 2 * Len(q) + 2 /\ reader'.order = reader.order /\ reader'.tsUnit = Unit
         /\ reader'.result = "none"
         /\ reader' \in ReaderTypes
    BY <1>0, <1>1, <1>4, <1>5, <2>2, <2>3, <2>8 DEF ReaderTypes
  <2>12. 2 * Len(q) <= Len(file) /\ (Len(file) = 2 * Len(q) => file[Len(file)].inclLen = 0)
    BY <2>4, <2>8
  <2>13. PcapReading'
    BY <1>0, <1>1, <1>2, <2>6, <2>11, <2>12 DEF PcapReading
  <2> QED
    BY <1>0, <2>6, <2>10, <2>13
<1>7. ASSUME Classic!Outcome # "packet" PROVE PcapReading' /\ GotIs(got, sent)'
  <2>1. PICK r : r = Classic!Outcome
    OBVIOUS
  <2>2. got' = got /\ reader' = [reader EXCEPT !.result = r]
    BY <1>7, <2>1 DEF Classic!ReadPacket
  <2>3. r \in {"EOF", "invalidHeader", "tooLong"}
    BY <1>7, <2>1 DEF Classic!Outcome
  <2>4. r = "EOF" => reader.at > Len(file) /\ ended = "whole"
    BY <1>0, <2>1 DEF Classic!Outcome
  <2>5. /\ reader'.at = reader.at /\ reader'.order = reader.order /\ reader'.tsUnit = Unit
        /\ reader'.result = r
        /\ reader' \in ReaderTypes
    BY <1>1, <1>4, <2>2, <2>3 DEF ReaderTypes
  <2>6. got # <<>> /\ Len(file) = 2 * Len(got) => file[Len(file)].inclLen = 0
    BY DEF PcapInv, PcapReading
  <2>7. PcapReading'
    BY <1>0, <1>1, <1>2, <2>2, <2>4, <2>5, <2>6 DEF PcapReading
  <2> QED
    BY <1>0, <1>1, <2>2, <2>7
<1>8. PcapReading' /\ GotIs(got, sent)'
  BY <1>6, <1>7
<1>9. PcapWriting'
  BY <1>0, <1>2 DEF PcapInv, PcapWriting
<1>10. FileIs(file, sent, Unit)'
  BY <1>0, <1>1, <1>2
<1> QED
  BY <1>8, <1>9, <1>10 DEF PcapInv

LEMMA PcapFilterCopy == ASSUME PcapInv, Classic!FilterCopy PROVE PcapInv'
<1>0. /\ copied' = TRUE /\ ended' = "whole" /\ reader' = Classic!newReader /\ got' = <<>> /\ writer' = writer
      /\ reader.result \notin {"none", "noHeader"}
  BY DEF Classic!FilterCopy
<1>1. /\ reader.order # "none" /\ reader.snapLen \in Nat /\ GotIs(got, sent) /\ IsSeq(got)
  BY <1>0 DEF PcapInv, PcapReading, ReaderTypes, GotIs
<1>2. Unit' = 1000
  BY <1>0 DEF Unit
<1>3. PICK w : w = Classic!copyWriter
  OBVIOUS
<1>4. w.order = "little" /\ w.resolution = 1000 /\ w.snapLen = reader.snapLen
  BY <1>3 DEF Classic!copyWriter, Classic!Microsecond
<1>5. PICK keep \in Classic!Choices :
         /\ file' = Classic!Copied(keep)
         /\ sent' = [i \in DOMAIN keep |->
                       [time |-> got[keep[i]].time, unit |-> 1000, tsSec |-> 0, tsUsec |-> 0,
                        inclLen |-> got[keep[i]].inclLen, origLen |-> got[keep[i]].origLen]]
  BY DEF Classic!FilterCopy, Classic!Microsecond
<1>6. PICK n \in 0..Len(got) : keep \in [1..n -> DOMAIN got]
  BY DEF Classic!Choices
<1>7. Len(got) \in Nat /\ n \in Nat /\ DOMAIN got = 1..Len(got)
  BY <1>1 DEF IsSeq
<1>8. DOMAIN keep = 1..n /\ Len(keep) = n /\ \A i \in 1..n : keep[i] \in 1..Len(got)
  BY <1>6, <1>7
<1>9. PICK s : s = sent'
  OBVIOUS
<1>10. DOMAIN s = 1..n /\ s \in Seq({s[i] : i \in 1..n}) /\ Len(s) = n
  <2>1. s = [i \in 1..n |-> s[i]] /\ DOMAIN s = 1..n
    BY <1>5, <1>8, <1>9
  <2>2. PICK T : T = {s[i] : i \in 1..n}
    OBVIOUS
  <2>3. s \in [1..n -> T]
    BY <2>1, <2>2
  <2> QED
    BY <1>7, <2>1, <2>2, <2>3, SMTT(30)
<1>11. ASSUME NEW i \in 1..n
       PROVE  /\ s[i].time = got[keep[i]].time /\ s[i].unit = 1000 /\ s[i].tsSec = 0 /\ s[i].tsUsec = 0
              /\ s[i].inclLen = got[keep[i]].inclLen /\ s[i].origLen = got[keep[i]].origLen
  BY <1>5, <1>8, <1>9
<1>12. PICK f : f = file'
  OBVIOUS
<1>13. f = [u \in 1..2 * n + 1 |->
              IF u = 1 THEN Classic!FileHeader(w)
              ELSE IF u % 2 = 0 THEN Classic!copyHeader(got[keep[u \div 2]])
              ELSE [part |-> "data", len |-> got[keep[u \div 2]].inclLen]]
  BY <1>3, <1>5, <1>8, <1>12, ZenonT(60) DEF Classic!Copied
<1>14. DOMAIN f = 1..2 * n + 1 /\ f \in Seq({f[u] : u \in 1..2 * n + 1}) /\ Len(f) = 2 * n + 1
  <2>1. f = [u \in 1..2 * n + 1 |-> f[u]] /\ DOMAIN f = 1..2 * n + 1
    BY <1>13
  <2>2. PICK T : T = {f[u] : u \in 1..2 * n + 1}
    OBVIOUS
  <2>4. PICK m \in Nat : m = 2 * n + 1
    BY <1>7
  <2>3. f \in [1..m -> T]
    BY <2>1, <2>2, <2>4
  <2>5. f \in Seq(T) /\ Len(f) = m
    BY <2>1, <2>3, <2>4
  <2> QED
    BY <2>1, <2>2, <2>4, <2>5
<1>15. f[1] = Classic!FileHeader(w)
  BY <1>7, <1>13
<1>16. f[1].part = "fileHeader" /\ f[1].snapLen \in Nat /\ f[1].magic = <<"little", "micro">>
  BY <1>1, <1>4, <1>15 DEF Classic!FileHeader, Classic!selectMagic, Classic!Nanosecond
<1>17. Classic!TimestampResolution(f[1].magic) = 1000 /\ Classic!ByteOrder(f[1].magic) \in {"little", "big"}
  BY <1>16 DEF Classic!TimestampResolution, Classic!ByteOrder, Classic!Microsecond
<1>18. ASSUME NEW i \in 1..n PROVE Describes(f[2 * i], s[i], 1000)
  <2>1. 2 * i \in 1..2 * n + 1 /\ 2 * i # 1 /\ (2 * i) % 2 = 0 /\ (2 * i) \div 2 = i
    BY <1>7
  <2>2. PICK g : g = got[keep[i]]
    OBVIOUS
  <2>3. /\ g.time.sec \in Nat /\ g.time.nsec \in Nat
        /\ g.inclLen \in Nat /\ g.origLen \in Nat /\ (g.origLen = 0 => g.inclLen = 0)
    BY <1>1, <1>8, <2>2 DEF GotIs
  <2>4. f[2 * i] = Classic!copyHeader(g)
    BY <1>13, <2>1, <2>2
  <2>5. PICK gi, go, gt : gi = g.inclLen /\ go = g.origLen /\ gt = g.time
    OBVIOUS
  <2>6. PICK p : p = [len |-> gi, inclLen |-> gi, origLen |-> go, time |-> gt, tsSec |-> 0, tsUsec |-> 0]
    OBVIOUS
  <2>7. /\ p.len = gi /\ p.inclLen = gi /\ p.origLen = go /\ p.time = gt /\ p.tsSec = 0 /\ p.tsUsec = 0
    BY <2>6
  <2>8. f[2 * i] = Classic!PacketHeader(w, p)
    BY <1>3, <2>4, <2>5, <2>6 DEF Classic!copyHeader
  <2>9. TimeGiven(p)
    BY <2>3, <2>5, <2>7 DEF TimeGiven
  <2>10. PICK h : h = f[2 * i]
    OBVIOUS
  <2>11. h.inclLen = gi /\ h.origLen = go
    BY <2>3, <2>5, <2>7, <2>8, <2>10 DEF Classic!PacketHeader
  <2>12. s[i].inclLen = h.inclLen /\ s[i].origLen = h.origLen /\ s[i].time = p.time /\ s[i].unit = w.resolution
         /\ s[i].tsSec = p.tsSec /\ s[i].tsUsec = p.tsUsec
    BY <1>4, <1>11, <2>2, <2>5, <2>7, <2>11
  <2>13. p.len \in Nat /\ p.inclLen \in Nat /\ p.origLen \in Nat /\ p.len >= p.inclLen /\ w.resolution \in {1, 1000}
    BY <1>4, <2>3, <2>5, <2>7
  <2>14. h = Classic!PacketHeader(w, p)
    BY <2>8, <2>10
  <2>15. Describes(h, s[i], w.resolution)
    BY <2>9, <2>12, <2>13, <2>14, HeaderIs
  <2> QED
    BY <1>4, <2>10, <2>15
<1>19. ASSUME NEW i \in 1..n PROVE f[2 * i + 1].part = "data"
  <2>1. 2 * i + 1 \in 1..2 * n + 1 /\ 2 * i + 1 # 1 /\ (2 * i + 1) % 2 # 0
    BY <1>7
  <2> QED
    BY <1>13, <2>1
<1>20. IsSeq(f) /\ IsSeq(s)
  BY <1>10, <1>14 DEF IsSeq
<1>25. Len(f) <= 2 * Len(s) + 1 /\ 1..Len(s) = 1..n
  BY <1>7, <1>10, <1>14
<1>26. \A i \in 1..Len(s) : s[i].unit = 1000 /\ Describes(f[2 * i], s[i], 1000) /\ f[2 * i + 1].part = "data"
  BY <1>11, <1>18, <1>19, <1>25
<1>21. FileIs(f, s, 1000)
  BY <1>16, <1>17, <1>20, <1>25, <1>26 DEF FileIs
<1>22. FileIs(file, sent, Unit)' /\ IsSeq(sent)'
  BY <1>2, <1>9, <1>12, <1>20, <1>21
<1>23. PcapReading' /\ GotIs(got, sent)'
  BY <1>0, <1>22, NothingRead
<1>24. PcapWriting'
  BY <1>0, <1>2 DEF PcapWriting
<1> QED
  BY <1>22, <1>23, <1>24 DEF PcapInv

LEMMA PcapStep == PcapInv /\ [Classic!PcapNext]_pcapVars => PcapInv'
<1> SUFFICES ASSUME PcapInv, [Classic!PcapNext]_pcapVars PROVE PcapInv'
  OBVIOUS
<1>1. CASE UNCHANGED pcapVars
  <2>1. UNCHANGED <<writer, file, ended, reader, copied, sent, got>>
    BY <1>1 DEF pcapVars
  <2>2. Unit' = Unit
    BY <2>1 DEF Unit
  <2>3. PcapWriting' /\ PcapReading'
    BY <2>1, <2>2 DEF PcapInv, PcapWriting, PcapReading
  <2> QED
    BY <2>1, <2>2, <2>3 DEF PcapInv
<1> QED
  BY <1>1, PcapNewWriter, PcapWriteHeader, PcapWriteData, PcapClose, PcapDie, PcapNewReader, PcapReadPacket,
     PcapFilterCopy DEF Classic!PcapNext

LEMMA PcapStart == Init => PcapInv
<1> SUFFICES ASSUME Init PROVE PcapInv
  OBVIOUS
<1>1. Classic!PcapInit
  BY DEF Init
<1>2. /\ file = <<>> /\ ended = "new" /\ reader = Classic!newReader /\ copied = FALSE /\ sent = <<>> /\ got = <<>>
  BY <1>1 DEF Classic!PcapInit
<1>3. IsSeq(file) /\ IsSeq(sent) /\ IsSeq(got) /\ Len(file) = 0 /\ Len(sent) = 0 /\ Len(got) = 0
  <2>1. <<>> \in Seq({}) /\ Len(<<>>) = 0
    OBVIOUS
  <2> QED
    BY <1>2, <2>1 DEF IsSeq
<1>4. FileIs(file, sent, Unit) /\ GotIs(got, sent)
  BY <1>2, <1>3 DEF FileIs, GotIs
<1>5. reader = [at |-> 1, order |-> "none", tsUnit |-> 0, snapLen |-> 0, result |-> "none"]
  BY <1>2 DEF Classic!newReader
<1>6. PcapReading
  BY <1>2, <1>5 DEF PcapReading, ReaderTypes
<1>7. PcapWriting
  BY <1>2, ZenonT(60) DEF PcapWriting
<1> QED
  BY <1>4, <1>6, <1>7 DEF PcapInv

-------------------------------------------------------------------------------
(***************************************************************************)
(* gnet/pcapng.  First what AddInterface makes of its options, and what a   *)
(* time becomes in a file.                                                 *)
(***************************************************************************)

\* A set of naturals that is not empty has a least member.
LEMMA Least ==
    ASSUME NEW T, T \subseteq Nat, T # {}
    PROVE  \E m \in T : \A k \in T : m <= k
<1>1. PICK R : R = {ss \in Nat \X Nat : ss[1] < ss[2]}
  OBVIOUS
<1>2. IsWellFoundedOn(R, Nat)
  BY <1>1, NatLessThanWellFounded DEF OpToRel
<1>3. PICK m \in T : \A k \in T : <<k, m>> \notin R
  BY <1>2, WFMin
<1>4. \A k \in T : ~ (k < m)
  BY <1>1, <1>3
<1> QED
  BY <1>4

\* interfaceConfig applies the options one after the other.
LEMMA OptionsApplied ==
    ASSUME NEW opts, NEW N \in Nat
    PROVE  \E f : f = [n \in 0..N |-> IF n = 0 THEN NG!noConfig ELSE NG!applied(f[n - 1], opts[n])]
<1> DEFINE Cfg(f, j) == f = [n \in 0..j |-> IF n = 0 THEN NG!noConfig ELSE NG!applied(f[n - 1], opts[n])]
<1> DEFINE T == {j \in 0..N : ~ \E f : Cfg(f, j)}
<1> SUFFICES ASSUME T # {} PROVE FALSE
  OBVIOUS
<1>1. PICK m \in T : \A k \in T : m <= k
  <2>1. T \subseteq Nat
    OBVIOUS
  <2> HIDE DEF T
  <2> QED
    BY <2>1, Least
<1>2. CASE m = 0
  <2>1. PICK f : f = [n \in 0..0 |-> NG!noConfig]
    OBVIOUS
  <2>2. Cfg(f, 0)
    BY <2>1
  <2> QED
    BY <1>2, <2>2
<1>3. CASE m # 0
  <2>1. m \in 1..N /\ m - 1 \in 0..N /\ m - 1 \notin T
    BY <1>1, <1>3
  <2>2. PICK f : Cfg(f, m - 1)
    BY <2>1
  <2>3. PICK z : z = NG!applied(f[m - 1], opts[m])
    OBVIOUS
  <2>4. PICK h : h = [n \in 0..m |-> IF n = m THEN z ELSE f[n]]
    OBVIOUS
  <2>5. ASSUME NEW n \in 0..m
        PROVE  h[n] = IF n = 0 THEN NG!noConfig ELSE NG!applied(h[n - 1], opts[n])
    <3>1. CASE n = 0
      <4>1. 0 \in 0..(m - 1) /\ h[n] = f[n]
        BY <2>1, <2>4, <3>1
      <4> QED
        BY <2>2, <3>1, <4>1
    <3>2. CASE n # 0
      <4>1. n - 1 \in 0..m /\ n - 1 # m /\ h[n - 1] = f[n - 1]
        BY <2>1, <2>4, <3>2
      <4>2. CASE n = m
        BY <2>3, <2>4, <3>2, <4>1, <4>2
      <4>3. CASE n # m
        <5>1. n \in 0..(m - 1) /\ h[n] = f[n]
          BY <2>1, <2>4, <4>3
        <5> QED
          BY <2>2, <3>2, <4>1, <5>1
      <4> QED
        BY <4>2, <4>3
    <3> QED
      BY <3>1, <3>2
  <2>6. Cfg(h, m)
    BY <2>4, <2>5
  <2> QED
    BY <2>6
<1> QED
  BY <1>2, <1>3

ConfigOk(c) ==
    /\ IsSeq(c.options) /\ c.hasTSOption \in BOOLEAN
    /\ ~c.hasTSOption => \A i \in DOMAIN c.options : c.options[i].code # 9

LEMMA AppliedOk == ASSUME NEW c, ConfigOk(c), NEW o PROVE ConfigOk(NG!applied(c, o))
<1>1. PICK S : c.options \in Seq(S)
  BY DEF ConfigOk, IsSeq
<1>2. PICK d : d = NG!applied(c, o)
  OBVIOUS
<1>3. CASE o.with = "option"
  <2>1. PICK oc, ov : oc = o.code /\ ov = o.value
    OBVIOUS
  <2>2. PICK e : e = [code |-> oc, value |-> ov]
    OBVIOUS
  <2>3. e.code = oc /\ d.options = Append(c.options, e) /\ d.hasTSOption = (c.hasTSOption \/ oc = 9)
    BY <1>2, <1>3, <2>1, <2>2 DEF NG!applied, NG!WithInterfaceOption
  <2>4. PICK q : q = d.options
    OBVIOUS
  <2>5. /\ q \in Seq(S \cup {e}) /\ Len(q) = Len(c.options) + 1 /\ q[Len(c.options) + 1] = e
        /\ \A i \in 1..Len(c.options) : q[i] = c.options[i]
    BY <1>1, <2>3, <2>4, AppendProperties
  <2>6. IsSeq(q) /\ DOMAIN q = 1..Len(c.options) + 1 /\ Len(c.options) \in Nat /\ DOMAIN c.options = 1..Len(c.options)
    BY <1>1, <2>5 DEF IsSeq
  <2>7. d.hasTSOption \in BOOLEAN
    BY <2>3
  <2>8. ASSUME ~d.hasTSOption, NEW i \in DOMAIN q PROVE q[i].code # 9
    <3>1. ~c.hasTSOption /\ oc # 9
      BY <2>3, <2>8
    <3>2. CASE i = Len(c.options) + 1
      BY <2>3, <2>5, <3>1, <3>2
    <3>3. CASE i \in 1..Len(c.options)
      BY <2>5, <2>6, <3>1, <3>3 DEF ConfigOk
    <3> QED
      BY <2>6, <3>2, <3>3
  <2> QED
    BY <1>2, <2>4, <2>6, <2>7, <2>8 DEF ConfigOk
<1>4. CASE o.with # "option"
  <2>1. d.options = c.options /\ d.hasTSOption = c.hasTSOption
    BY <1>2, <1>4 DEF NG!applied, NG!WithInterfaceTimestampResolution
  <2> QED
    BY <1>2, <2>1 DEF ConfigOk
<1> QED
  BY <1>3, <1>4

LEMMA ConfigIs ==
    ASSUME NEW opts, Len(opts) \in Nat
    PROVE  /\ ConfigOk(NG!interfaceConfig(opts))
           /\ Len(opts) = 1 => NG!interfaceConfig(opts) = NG!applied(NG!noConfig, opts[1])
<1>1. PICK N \in Nat : N = Len(opts)
  OBVIOUS
<1> DEFINE cfg == CHOOSE f : f = [n \in 0..N |-> IF n = 0 THEN NG!noConfig ELSE NG!applied(f[n - 1], opts[n])]
<1>2. cfg = [n \in 0..N |-> IF n = 0 THEN NG!noConfig ELSE NG!applied(cfg[n - 1], opts[n])]
  BY OptionsApplied
<1>3. NG!interfaceConfig(opts) = cfg[N]
  BY <1>1 DEF NG!interfaceConfig
<1> HIDE DEF cfg
<1>4. \A n \in 0..N : cfg[n] = IF n = 0 THEN NG!noConfig ELSE NG!applied(cfg[n - 1], opts[n])
  BY ONLY <1>2
<1>5. ConfigOk(NG!noConfig)
  <2>1. PICK c : c = NG!noConfig
    OBVIOUS
  <2>2. c.options = <<>> /\ c.hasTSOption = FALSE
    BY <2>1 DEF NG!noConfig
  <2>3. <<>> \in Seq({}) /\ DOMAIN <<>> = {}
    OBVIOUS
  <2>4. IsSeq(c.options) /\ DOMAIN c.options = {}
    BY <2>2, <2>3 DEF IsSeq
  <2> QED
    BY <2>1, <2>2, <2>4 DEF ConfigOk
<1> DEFINE T == {n \in 0..N : ~ConfigOk(cfg[n])}
<1>6. T = {}
  <2> SUFFICES ASSUME T # {} PROVE FALSE
    OBVIOUS
  <2>1. PICK m \in T : \A k \in T : m <= k
    <3>1. T \subseteq Nat
      BY <1>1
    <3> HIDE DEF T
    <3> QED
      BY <3>1, Least
  <2>2. m # 0
    BY <1>4, <1>5, <2>1
  <2>3. m - 1 \in 0..N /\ m \in 0..N /\ ~(m <= m - 1)
    BY <1>1, <2>1, <2>2
  <2>4. ConfigOk(cfg[m - 1])
    BY <2>1, <2>3
  <2>5. ConfigOk(NG!applied(cfg[m - 1], opts[m]))
    BY <2>4, AppliedOk
  <2> QED
    BY <1>4, <2>1, <2>2, <2>3, <2>5
<1>7. ConfigOk(cfg[N])
  <2>1. N \in 0..N
    BY <1>1
  <2> QED
    BY <1>6, <2>1
<1>8. N = 1 => cfg[N] = NG!applied(NG!noConfig, opts[1])
  <2> SUFFICES ASSUME N = 1 PROVE cfg[1] = NG!applied(NG!noConfig, opts[1])
    OBVIOUS
  <2>1. 0 \in 0..N /\ 1 \in 0..N /\ 1 - 1 = 0 /\ 1 # 0
    OBVIOUS
  <2>2. cfg[0] = NG!noConfig
    BY <1>4, <2>1
  <2>3. cfg[1] = NG!applied(cfg[1 - 1], opts[1])
    BY <1>4, <2>1
  <2> QED
    BY <2>1, <2>2, <2>3
<1> QED
  BY <1>1, <1>3, <1>7, <1>8

LEMMA TimeRounded ==
    ASSUME NEW p, p.sec \in Nat, p.nsec \in Nat, p.nsec < 1000000000, NEW r \in {1, 1000},
           NEW v, v = NG!encodeTimestamp(p, r)
    PROVE  v \in Nat /\ NG!Timestamp(v, r) = [sec |-> p.sec, nsec |-> (p.nsec \div r) * r]
<1>1. PICK s \in Nat, n \in Nat : s = p.sec /\ n = p.nsec /\ n < 1000000000
  BY SMT
<1>2. CASE r = 1
  <2>4. NG!encodeTimestamp(p, 1) = p.sec * NG!Second + p.nsec
    BY SMT DEF NG!encodeTimestamp, NG!Nanosecond, NG!Microsecond
  <2>5. NG!Second = 1000000000
    BY SMT DEF NG!Second
  <2>1. v = s * 1000000000 + n
    BY <1>1, <1>2, <2>4, <2>5, SMT
  <2>2. v \in Nat /\ v \div 1000000000 = s /\ v % 1000000000 = n /\ (n \div 1) * 1 = n
    BY <1>1, <2>1, SMT
  <2>3. NG!Timestamp(v, 1) = [sec |-> v \div 1000000000, nsec |-> v % 1000000000]
    BY SMT DEF NG!Timestamp, NG!Nanosecond, NG!Second
  <2> QED
    BY <1>1, <1>2, <2>2, <2>3, SMT
<1>3. CASE r = 1000
  <2>1. v = s * 1000000 + n \div 1000
    BY <1>1, <1>3, SMT DEF NG!encodeTimestamp, NG!Nanosecond, NG!Microsecond
  <2>2. v \in Nat /\ v \div 1000000 = s /\ v % 1000000 = n \div 1000
    BY <1>1, <2>1, SMT
  <2>3. NG!Timestamp(v, 1000) = [sec |-> v \div 1000000, nsec |-> (v % 1000000) * 1000]
    BY SMT DEF NG!Timestamp, NG!Nanosecond
  <2> QED
    BY <1>1, <1>3, <2>2, <2>3, SMT
<1> QED
  BY <1>2, <1>3

\* A time that was in a file is written as it was.
LEMMA TimeKept ==
    ASSUME NEW v \in Nat, NEW r \in {1, 1000}, NEW p, p.sec = NG!Timestamp(v, r).sec, p.nsec = NG!Timestamp(v, r).nsec
    PROVE  NG!encodeTimestamp(p, r) = v
<1>2. CASE r = 1
  <2>1. p.sec = v \div 1000000000 /\ p.nsec = v % 1000000000
    BY <1>2, SMT DEF NG!Timestamp, NG!Nanosecond, NG!Second
  <2>4. NG!encodeTimestamp(p, 1) = p.sec * NG!Second + p.nsec
    BY SMT DEF NG!encodeTimestamp, NG!Nanosecond, NG!Microsecond
  <2>5. NG!Second = 1000000000
    BY SMT DEF NG!Second
  <2>2. NG!encodeTimestamp(p, 1) = p.sec * 1000000000 + p.nsec
    BY <2>4, <2>5, SMT
  <2> QED
    BY <1>2, <2>1, <2>2, SMT
<1>3. CASE r = 1000
  <2>1. p.sec = v \div 1000000 /\ p.nsec = (v % 1000000) * 1000
    BY <1>3, SMT DEF NG!Timestamp, NG!Nanosecond
  <2>2. NG!encodeTimestamp(p, 1000) = p.sec * 1000000 + p.nsec \div 1000
    BY SMT DEF NG!encodeTimestamp, NG!Nanosecond, NG!Microsecond
  <2> QED
    BY <1>3, <2>1, <2>2, SMT
<1> QED
  BY <1>2, <1>3

\* No other resolution is written.
LEMMA NoOtherResolution ==
    ASSUME NEW p, NEW r, NG!encodeTimestamp(p, r) # -1 PROVE r \in {1, 1000}
BY SMT DEF NG!encodeTimestamp, NG!Nanosecond, NG!Microsecond

LEMMA Resolutions == NG!parseTimestampResolution(9) = 1 /\ NG!parseTimestampResolution(6) = 1000
<1>1. NG!decimal(9) = 1 /\ NG!decimal(6) = 1000
  BY SMT DEF NG!decimal, NG!Nanosecond, NG!Microsecond
<1> QED
  BY <1>1, SMT DEF NG!parseTimestampResolution

\* What the Reader takes from the options of an interface.
LEMMA NothingExtracted ==
    ASSUME NEW q, \A i \in DOMAIN q : q[i].code # 9 PROVE NG!extractTimestampResolution(q) = NG!None
BY DEF NG!extractTimestampResolution

LEMMA AddedExtracted ==
    ASSUME NEW q, IsSeq(q), \A i \in DOMAIN q : q[i].code # 9, NEW v, NEW e, e = [code |-> 9, value |-> <<v>>]
    PROVE  NG!extractTimestampResolution(Append(q, e)) = NG!parseTimestampResolution(v)
<1>1. PICK S : q \in Seq(S)
  BY DEF IsSeq
<1>2. PICK p : p = Append(q, e)
  OBVIOUS
<1>3. PICK n \in Nat : n = Len(q) + 1
  BY <1>1
<1>4. /\ p \in Seq(S \cup {e}) /\ Len(p) = n /\ p[n] = e /\ \A i \in 1..Len(q) : p[i] = q[i]
  BY <1>1, <1>2, <1>3, AppendProperties
<1>5. DOMAIN p = 1..n /\ DOMAIN q = 1..Len(q) /\ Len(q) \in Nat
  BY <1>1, <1>4
<1>6. e.code = 9 /\ e.value = <<v>> /\ e.value # <<>> /\ e.value[1] = v
  OBVIOUS
<1>7. {i \in DOMAIN p : p[i].code = 9 /\ p[i].value # <<>>} = {n}
  <2>1. n \in DOMAIN p /\ p[n].code = 9 /\ p[n].value # <<>>
    BY <1>3, <1>4, <1>5, <1>6
  <2>2. ASSUME NEW i \in DOMAIN p, i # n PROVE p[i].code # 9
    <3>1. i \in 1..Len(q)
      BY <1>3, <1>5, <2>2
    <3> QED
      BY <1>4, <1>5, <3>1
  <2> QED
    BY <2>1, <2>2
<1>8. (CHOOSE i \in {n} : \A j \in {n} : i <= j) = n
  OBVIOUS
<1> DEFINE with == {i \in DOMAIN p : p[i].code = 9 /\ p[i].value # <<>>}
<1>9. with = {n}
  BY <1>7
<1>10. NG!extractTimestampResolution(p)
          = IF with = {} THEN NG!None
            ELSE NG!parseTimestampResolution(p[CHOOSE i \in with : \A j \in with : i <= j].value[1])
  BY DEF NG!extractTimestampResolution
<1> HIDE DEF with
<1>11. NG!extractTimestampResolution(p) = NG!parseTimestampResolution(p[n].value[1])
  BY <1>8, <1>9, <1>10
<1> QED
  BY <1>2, <1>4, <1>6, <1>11

\* An interface of the Reader is the one the Writer added.
Matches(r, info) ==
    /\ r.linkType = info.linkType /\ r.tsRes # NG!None
    /\ ~NG!Contradicted(info) => r.tsRes = info.tsRes

LEMMA InterfaceRead ==
    ASSUME NEW w, w.defaultRes \in {1, 1000}, NEW i, Len(i.opts) \in Nat, NEW a, a = NG!AddInterface(w, i), a.ok
    PROVE  a.block.type = "interface" /\ Matches(NG!parseInterface(a.block), a.info)
<1>1. PICK cfg : cfg = NG!interfaceConfig(i.opts)
  OBVIOUS
<1>2. PICK t : t = IF cfg.tsResolution = NG!None THEN w.defaultRes ELSE cfg.tsResolution
  OBVIOUS
<1>3. PICK code : code = NG!encodeTimestampResolution(t)
  OBVIOUS
<1> DEFINE adds == NG!addTSOption(cfg, t)
<1>v. PICK cs : cs = <<code>>
  BY ZenonT(60)
<1>4. PICK e : e = [code |-> 9, value |-> cs]
  BY ONLY <1>v
<1>5. e = [code |-> 9, value |-> <<code>>]
  BY <1>v, <1>4
<1>6. /\ adds => code # -1
      /\ a.info.linkType = i.linkType /\ a.info.tsRes = t /\ a.info.opts = i.opts
      /\ a.block.type = "interface" /\ a.block.linkType = i.linkType
      /\ a.block.options = IF adds THEN Append(cfg.options, e) ELSE cfg.options
  BY <1>1, <1>2, <1>3, <1>5, ZenonT(60) DEF NG!AddInterface
<1>7. PICK res : res = NG!extractTimestampResolution(a.block.options)
  OBVIOUS
<1>8. PICK r : r = NG!parseInterface(a.block)
  OBVIOUS
<1>9. r.linkType = i.linkType /\ r.tsRes = IF res = NG!None THEN 1000 ELSE res
  BY <1>6, <1>7, <1>8 DEF NG!parseInterface, NG!Microsecond
<1>10. ConfigOk(cfg)
  BY <1>1, ConfigIs
<1>11. r.tsRes # NG!None
  BY <1>9, SMT DEF NG!None
<1>12. CASE cfg.hasTSOption
  <2>1. ~adds /\ a.block.options = cfg.options
    BY <1>6, <1>12 DEF NG!addTSOption
  <2>2. ~NG!Contradicted(a.info) => (IF res = NG!None THEN 1000 ELSE res) = t
    BY <1>1, <1>6, <1>7, <1>12, <2>1 DEF NG!Contradicted, NG!Microsecond
  <2> QED
    BY <1>6, <1>8, <1>9, <1>11, <2>2 DEF Matches
<1>13. CASE ~cfg.hasTSOption
  <2>1. IsSeq(cfg.options) /\ \A k \in DOMAIN cfg.options : cfg.options[k].code # 9
    BY <1>10, <1>13 DEF ConfigOk
  <2>2. r.tsRes = t
    <3>1. CASE adds
      <4>1. code # -1
        BY <1>6, <3>1
      <4>2. (t = 1 /\ code = 9) \/ (t = 1000 /\ code = 6)
        BY <1>3, <4>1, SMT DEF NG!encodeTimestampResolution, NG!Nanosecond, NG!Microsecond
      <4>3. res = NG!parseTimestampResolution(code)
        BY <1>5, <1>6, <1>7, <2>1, <3>1, AddedExtracted
      <4>4. res = t /\ t # NG!None
        BY <4>2, <4>3, Resolutions, SMT DEF NG!None
      <4> QED
        BY <1>9, <4>4
    <3>2. CASE ~adds
      <4>1. t = 1000
        BY <1>13, <3>2 DEF NG!addTSOption, NG!Microsecond
      <4>2. res = NG!None
        BY <1>6, <1>7, <2>1, <3>2, NothingExtracted
      <4> QED
        BY <1>9, <4>1, <4>2
    <3> QED
      BY <3>1, <3>2
  <2> QED
    BY <1>6, <1>8, <1>9, <1>11, <2>2 DEF Matches
<1> QED
  BY <1>12, <1>13, <1>6

\* AddInterface as FilterCopy calls it.
LEMMA InterfaceCopied ==
    ASSUME NEW w, NEW i, NEW o, o = [with |-> "resolution", res |-> i.res], i.res # NG!None,
           NEW a, a = NG!AddInterface(w, [linkType |-> i.linkType, snapLen |-> i.snapLen, opts |-> <<o>>])
    PROVE  a.info.linkType = i.linkType /\ a.info.tsRes = i.res /\ (a.ok => i.res \in {1, 1000})
<1>1. PICK l, s, q : l = i.linkType /\ s = i.snapLen /\ q = <<o>>
  OBVIOUS
<1>2. PICK j : j = [linkType |-> l, snapLen |-> s, opts |-> q]
  OBVIOUS
<1>3. a = NG!AddInterface(w, j) /\ j.linkType = i.linkType /\ j.opts = q
  BY <1>1, <1>2
<1>4. Len(q) = 1 /\ q[1] = o /\ o.with = "resolution" /\ o.res = i.res
  BY <1>1
<1>5. PICK cfg : cfg = NG!interfaceConfig(q)
  OBVIOUS
<1>6. Len(q) \in Nat
  BY <1>4
<1>7. cfg = NG!applied(NG!noConfig, o)
  BY <1>4, <1>5, <1>6, ConfigIs
<1>8. cfg.tsResolution = i.res /\ cfg.hasTSOption = FALSE
  BY <1>4, <1>7 DEF NG!applied, NG!noConfig, NG!WithInterfaceTimestampResolution
<1>10. PICK code : code = NG!encodeTimestampResolution(i.res)
  OBVIOUS
<1>11. NG!addTSOption(cfg, i.res)
  BY <1>8 DEF NG!addTSOption
<1>12. a.info.linkType = i.linkType /\ a.info.tsRes = i.res
  BY <1>3, <1>5, <1>8 DEF NG!AddInterface
<1>13. a.ok = (NG!addTSOption(cfg, i.res) => code # -1)
  BY <1>3, <1>5, <1>8, <1>10 DEF NG!AddInterface
<1>9. a.info.linkType = i.linkType /\ a.info.tsRes = i.res /\ (a.ok => code # -1)
  BY <1>11, <1>12, <1>13
<1> QED
  BY <1>9, <1>10, SMT DEF NG!encodeTimestampResolution, NG!Nanosecond, NG!Microsecond

(***************************************************************************)
(* The file.  kn[j] is what is known of the interfaces in front of block j: *)
(* what the Writer, whose file it is, had added by then.  Before(f, n) of   *)
(* the first n blocks are packets, which are the first ones that were sent. *)
(***************************************************************************)
Before(f, n) == Cardinality({i \in 1..n : f[i].type = "packet"})

\* Block b takes what is known from k to l.
Continues(k, b, l) ==
    /\ b.type \in {"section", "interface", "packet", "other"}
    /\ b.type = "section" => l = <<>>
    /\ b.type = "interface" => \E info : l = Append(k, info) /\ Matches(NG!parseInterface(b), info)
    /\ b.type \in {"packet", "other"} => l = k

\* b is the packet that s says was written.
Written(b, s) ==
    /\ b.interfaceID \in Nat /\ b.interfaceID = s.id
    /\ b.capturedLen = NG!capturedLen(s.info, s.packet.len) /\ b.originalLen = s.packet.len
    /\ s.info.tsRes \in {1, 1000} /\ b.ts \in Nat
    /\ NG!Timestamp(b.ts, s.info.tsRes)
          = [sec |-> s.packet.sec, nsec |-> (s.packet.nsec \div s.info.tsRes) * s.info.tsRes]

\* b is the packet that s says was written, for an interface of k.
WrittenFor(k, b, s) ==
    Written(b, s) /\ b.interfaceID + 1 \in 1..Len(k) /\ s.info = k[b.interfaceID + 1]

Known(kn, f) ==
    /\ kn[1] = <<>> /\ \A j \in 1..Len(f) + 1 : IsSeq(kn[j])
    /\ \A j \in 1..Len(f) : Continues(kn[j], f[j], kn[j + 1])
    /\ f # <<>> => f[1].type = "section"

PacketsAre(kn, f, s) == \A j \in 1..Len(f) : f[j].type = "packet" => WrittenFor(kn[j], f[j], s[Before(f, j)])

NGFile(kn, f, s) ==
    IsSeq(f) /\ IsSeq(s) /\ Len(s) = Before(f, Len(f)) /\ Known(kn, f) /\ PacketsAre(kn, f, s)

LEMMA BeforeNext ==
    ASSUME NEW f, NEW n \in Nat
    PROVE  /\ Before(f, 0) = 0 /\ Before(f, n) \in Nat
           /\ f[n + 1].type = "packet" => Before(f, n + 1) = Before(f, n) + 1
           /\ f[n + 1].type # "packet" => Before(f, n + 1) = Before(f, n)
<1>1. PICK T : T = {i \in 1..n : f[i].type = "packet"}
  OBVIOUS
<1>2. IsFiniteSet(1..n)
  BY FS_Interval
<1>3. IsFiniteSet(T) /\ Cardinality(T) \in Nat /\ n + 1 \notin T
  BY <1>1, <1>2, FS_Subset, FS_CardinalityType
<1>4. Before(f, n) = Cardinality(T)
  BY <1>1 DEF Before
<1>5. Before(f, 0) = 0
  <2>1. {i \in 1..0 : f[i].type = "packet"} = {}
    OBVIOUS
  <2> QED
    BY <2>1, FS_EmptySet DEF Before
<1>6. ASSUME f[n + 1].type = "packet" PROVE Before(f, n + 1) = Before(f, n) + 1
  <2>1. {i \in 1..n + 1 : f[i].type = "packet"} = T \cup {n + 1}
    BY <1>1, <1>6
  <2> QED
    BY <1>3, <1>4, <2>1, FS_AddElement DEF Before
<1>7. ASSUME f[n + 1].type # "packet" PROVE Before(f, n + 1) = Before(f, n)
  <2>1. {i \in 1..n + 1 : f[i].type = "packet"} = T
    BY <1>1, <1>7
  <2> QED
    BY <1>4, <2>1 DEF Before
<1> QED
  BY <1>3, <1>4, <1>5, <1>6, <1>7

LEMMA BeforeSame ==
    ASSUME NEW f, NEW g, NEW n, \A i \in 1..n : g[i] = f[i] PROVE Before(g, n) = Before(f, n)
<1>1. {i \in 1..n : g[i].type = "packet"} = {i \in 1..n : f[i].type = "packet"}
  OBVIOUS
<1> QED
  BY <1>1 DEF Before

LEMMA BeforeBelow ==
    ASSUME NEW f, NEW n \in Nat, NEW j \in 1..n PROVE Before(f, j) <= Before(f, n)
<1>1. PICK T : T = {i \in 1..n : f[i].type = "packet"}
  OBVIOUS
<1>2. PICK U : U = {i \in 1..j : f[i].type = "packet"}
  OBVIOUS
<1>5. IsFiniteSet(1..n)
  BY FS_Interval
<1>6. T \in SUBSET (1..n)
  BY <1>1
<1>3. IsFiniteSet(T)
  BY <1>5, <1>6, FS_Subset
<1>4. U \subseteq T
  BY <1>1, <1>2
<1> QED
  BY <1>1, <1>2, <1>3, <1>4, FS_Subset DEF Before

LEMMA PacketCounted ==
    ASSUME NEW f, NEW n \in Nat, NEW j \in 1..n, f[j].type = "packet" PROVE Before(f, j) \in 1..Before(f, n)
<1>1. j - 1 \in Nat /\ (j - 1) + 1 = j
  OBVIOUS
<1>2. Before(f, j) = Before(f, j - 1) + 1 /\ Before(f, j - 1) \in Nat
  BY <1>1, BeforeNext
<1>3. Before(f, j) <= Before(f, n) /\ Before(f, n) \in Nat
  BY BeforeBelow, BeforeNext
<1> QED
  BY <1>2, <1>3

LEMMA PacketsCounted == ASSUME NEW f, IsSeq(f) PROVE NG!PacketsIn(f) = Before(f, Len(f))
<1>1. \A T : NG!Cardinality(T) = Cardinality(T)
  BY DEF NG!Cardinality, Cardinality, NG!IsFiniteSet, IsFiniteSet
<1>2. DOMAIN f = 1..Len(f)
  BY DEF IsSeq
<1> QED
  BY <1>1, <1>2 DEF NG!PacketsIn, Before

\* Block b is put behind file f of the packets s, which gives file g of the packets t;
\* l is then known.
Adds(kn, f, s, b, l, r, g, t) ==
    /\ NGFile(kn, f, s) /\ (f # <<>> \/ b.type = "section")
    /\ IsSeq(l) /\ Continues(kn[Len(f) + 1], b, l)
    /\ b.type = "packet" => WrittenFor(kn[Len(f) + 1], b, r)
    /\ g = Append(f, b) /\ (b.type = "packet" => t = Append(s, r)) /\ (b.type # "packet" => t = s)

Grown(kt, l, g, t) == NGFile(kt, g, t) /\ kt[Len(g) + 1] = l /\ kt[1] = <<>> /\ g # <<>>

LEMMA BlockAdded ==
    ASSUME NEW kn, NEW f, NEW s, NEW b, NEW l, NEW r, NEW g, NEW t, Adds(kn, f, s, b, l, r, g, t)
    PROVE  \E kt : Grown(kt, l, g, t)
<1>0. /\ NGFile(kn, f, s) /\ (f # <<>> \/ b.type = "section")
      /\ IsSeq(l) /\ Continues(kn[Len(f) + 1], b, l)
      /\ b.type = "packet" => WrittenFor(kn[Len(f) + 1], b, r)
      /\ g = Append(f, b) /\ (b.type = "packet" => t = Append(s, r)) /\ (b.type # "packet" => t = s)
  BY DEF Adds
<1>1. PICK S : f \in Seq(S)
  BY <1>0 DEF NGFile, IsSeq
<1>2. PICK T : s \in Seq(T)
  BY <1>0 DEF NGFile, IsSeq
<1>3. PICK n \in Nat : n = Len(f)
  BY <1>0, <1>1
<1>4. /\ g \in Seq(S \cup {b}) /\ Len(g) = n + 1 /\ g[n + 1] = b
      /\ \A i \in 1..n : g[i] = f[i]
  BY <1>0, <1>1, <1>3, AppendProperties
<1>5. PICK kt : kt = [j \in 1..n + 2 |-> IF j = n + 2 THEN l ELSE kn[j]]
  OBVIOUS
<1>6. kt[n + 2] = l /\ \A j \in 1..n + 1 : kt[j] = kn[j]
  BY <1>0, <1>5
<1>7. g # <<>> /\ IsSeq(g)
  BY <1>0, <1>3, <1>4 DEF IsSeq
<1>8. /\ kn[1] = <<>> /\ \A j \in 1..n + 1 : IsSeq(kn[j])
      /\ \A j \in 1..n : Continues(kn[j], f[j], kn[j + 1])
      /\ f # <<>> => f[1].type = "section"
      /\ \A j \in 1..n : f[j].type = "packet" => WrittenFor(kn[j], f[j], s[Before(f, j)])
      /\ Len(s) = Before(f, n) /\ IsSeq(s)
  BY <1>0, <1>3 DEF NGFile, Known, PacketsAre
<1>9. kt[1] = <<>>
  BY <1>0, <1>6, <1>8
<1>10. g[1].type = "section"
  <2>1. CASE f = <<>>
    BY <1>0, <1>3, <1>4, <2>1
  <2>2. CASE f # <<>>
    BY <1>0, <1>1, <1>3, <1>4, <1>8, <2>2
  <2> QED
    BY <1>0, <2>1, <2>2
<1>11. \A j \in 1..n + 2 : IsSeq(kt[j])
  BY <1>0, <1>5, <1>8
<1>12. ASSUME NEW j \in 1..n + 1 PROVE Continues(kt[j], g[j], kt[j + 1])
  <2>1. CASE j = n + 1
    BY <1>0, <1>3, <1>4, <1>6, <2>1
  <2>2. CASE j \in 1..n
    <3>1. j \in 1..n + 1 /\ j + 1 \in 1..n + 1
      BY <1>0, <2>2
    <3>2. g[j] = f[j] /\ kt[j] = kn[j] /\ kt[j + 1] = kn[j + 1]
      BY <1>0, <1>4, <1>6, <2>2, <3>1
    <3> QED
      BY <1>0, <1>8, <2>2, <3>2
  <2>3. j = n + 1 \/ j \in 1..n
    OBVIOUS
  <2> QED
    BY <1>0, <2>1, <2>2, <2>3
<1>13. Known(kt, g)
  BY <1>0, <1>4, <1>7, <1>9, <1>10, <1>11, <1>12 DEF Known
<1>14. Before(g, n) = Before(f, n) /\ \A j \in 1..n : Before(g, j) = Before(f, j)
  <2>1. \A j \in 1..n : \A i \in 1..j : g[i] = f[i]
    BY <1>0, <1>3, <1>4
  <2> QED
    BY <1>0, <1>4, <2>1, BeforeSame
<1>15. /\ b.type = "packet" => Before(g, n + 1) = Len(s) + 1
       /\ b.type # "packet" => Before(g, n + 1) = Len(s)
       /\ Len(s) \in Nat
  <2>1. /\ g[n + 1].type = "packet" => Before(g, n + 1) = Before(g, n) + 1
        /\ g[n + 1].type # "packet" => Before(g, n + 1) = Before(g, n)
    BY <1>0, BeforeNext
  <2> QED
    BY <1>0, <1>2, <1>4, <1>8, <1>14, <2>1
<1>16. /\ IsSeq(t) /\ Len(t) = Before(g, n + 1)
       /\ \A k \in 1..Len(s) : t[k] = s[k]
       /\ b.type = "packet" => t[Before(g, n + 1)] = r
  <2>1. CASE b.type = "packet"
    <3>0. t = Append(s, r)
      BY <1>0, <2>1
    <3>1. t \in Seq(T \cup {r}) /\ Len(t) = Len(s) + 1 /\ t[Len(s) + 1] = r /\ \A k \in 1..Len(s) : t[k] = s[k]
      BY ONLY <1>2, <3>0, AppendProperties
    <3> QED
      BY <1>0, <1>15, <2>1, <3>1 DEF IsSeq
  <2>2. CASE b.type # "packet"
    BY <1>0, <1>8, <1>15, <2>2
  <2> QED
    BY <1>0, <2>1, <2>2
<1>17. ASSUME NEW j \in 1..n + 1, g[j].type = "packet" PROVE WrittenFor(kt[j], g[j], t[Before(g, j)])
  <2>1. CASE j = n + 1
    BY <1>0, <1>3, <1>4, <1>6, <1>16, <1>17, <2>1
  <2>2. CASE j \in 1..n
    <3>1. g[j] = f[j] /\ kt[j] = kn[j] /\ Before(g, j) = Before(f, j)
      BY <1>0, <1>3, <1>4, <1>6, <1>14, <2>2
    <3>2. Before(f, j) \in 1..Len(s)
      BY <1>0, <1>3, <1>8, <1>17, <2>2, <3>1, PacketCounted
    <3> QED
      BY <1>0, <1>8, <1>16, <1>17, <2>2, <3>1, <3>2
  <2>3. j = n + 1 \/ j \in 1..n
    OBVIOUS
  <2> QED
    BY <1>0, <2>1, <2>2, <2>3
<1>18. PacketsAre(kt, g, t)
  BY <1>0, <1>4, <1>17 DEF PacketsAre
<1>19. NGFile(kt, g, t)
  BY <1>0, <1>4, <1>7, <1>13, <1>16, <1>18 DEF NGFile
<1>20. kt[Len(g) + 1] = l
  BY <1>0, <1>3, <1>4, <1>6
<1> QED
  BY <1>7, <1>9, <1>19, <1>20 DEF Grown

LEMMA BlocksCut ==
    ASSUME NEW kn, NEW f, NEW s, NGFile(kn, f, s), NEW n \in 0..Len(f), NEW g, g = SubSeq(f, 1, n),
           NEW t, t = SubSeq(s, 1, NG!PacketsIn(g))
    PROVE  NGFile(kn, g, t) /\ Len(g) = n
<1>1. PICK S : f \in Seq(S)
  BY DEF NGFile, IsSeq
<1>2. PICK T : s \in Seq(T)
  BY DEF NGFile, IsSeq
<1>3. Len(f) \in Nat /\ n \in Nat /\ n <= Len(f) /\ 1 \in 1..Len(f) + 1 /\ n \in 1 - 1..Len(f)
  BY <1>1
<1>4. g \in Seq(S) /\ Len(g) = n /\ \A i \in 1..n : g[i] = f[i]
  BY <1>1, <1>3, SubSeqProperties
<1>5. IsSeq(g)
  BY <1>4 DEF IsSeq
<1>6. /\ kn[1] = <<>> /\ \A j \in 1..Len(f) + 1 : IsSeq(kn[j])
      /\ \A j \in 1..Len(f) : Continues(kn[j], f[j], kn[j + 1])
      /\ f # <<>> => f[1].type = "section"
      /\ \A j \in 1..Len(f) : f[j].type = "packet" => WrittenFor(kn[j], f[j], s[Before(f, j)])
      /\ Len(s) = Before(f, Len(f)) /\ IsSeq(s)
  BY DEF NGFile, Known, PacketsAre
<1>7. Before(g, n) = Before(f, n) /\ \A j \in 1..n : Before(g, j) = Before(f, j)
  <2>1. \A j \in 1..n : \A i \in 1..j : g[i] = f[i]
    BY <1>3, <1>4
  <2> QED
    BY <1>4, <2>1, BeforeSame
<1>8. PICK m \in Nat : m = Before(f, n) /\ NG!PacketsIn(g) = m
  <2>1. NG!PacketsIn(g) = Before(g, n)
    BY <1>4, <1>5, PacketsCounted
  <2> QED
    BY <1>3, <1>7, <2>1, BeforeNext
<1>9. m <= Len(s) /\ Len(s) \in Nat
  <2>3. Len(s) \in Nat
    BY <1>2
  <2>1. CASE n = 0
    <3>1. Before(f, 0) = 0
      BY <1>3, BeforeNext
    <3> QED
      BY <1>8, <2>1, <2>3, <3>1
  <2>2. CASE n # 0
    <3>1. n \in 1..Len(f)
      BY <1>3, <2>2
    <3> QED
      BY <1>3, <1>6, <1>8, <2>3, <3>1, BeforeBelow
  <2> QED
    BY <2>1, <2>2
<1>10. 1 \in 1..Len(s) + 1 /\ m \in 1 - 1..Len(s)
  BY <1>9
<1>11. t \in Seq(T) /\ Len(t) = m /\ \A i \in 1..m : t[i] = s[i]
  BY <1>2, <1>8, <1>10, SubSeqProperties
<1>12. IsSeq(t) /\ Len(t) = Before(g, Len(g))
  BY <1>4, <1>7, <1>8, <1>11 DEF IsSeq
<1>13. ASSUME NEW j \in 1..n PROVE j \in 1..Len(f) /\ g[j] = f[j]
  BY <1>3, <1>4
<1>14. g # <<>> => g[1].type = "section"
  <2> SUFFICES ASSUME g # <<>> PROVE g[1].type = "section"
    OBVIOUS
  <2>1. 1 \in 1..n
    BY <1>3, <1>4
  <2>2. f # <<>>
    BY <1>1, <1>3, <2>1
  <2> QED
    BY <1>6, <1>13, <2>1, <2>2
<1>15. \A j \in 1..n + 1 : IsSeq(kn[j])
  <2>1. \A j \in 1..n + 1 : j \in 1..Len(f) + 1
    BY <1>3
  <2> QED
    BY <1>6, <2>1
<1>16. Known(kn, g)
  BY <1>4, <1>6, <1>13, <1>14, <1>15 DEF Known
<1>17. ASSUME NEW j \in 1..n, g[j].type = "packet" PROVE WrittenFor(kn[j], g[j], t[Before(g, j)])
  <2>1. Before(f, j) \in 1..m
    BY <1>3, <1>8, <1>13, <1>17, PacketCounted
  <2> QED
    BY <1>6, <1>7, <1>11, <1>13, <1>17, <2>1
<1>18. PacketsAre(kn, g, t)
  BY <1>4, <1>17 DEF PacketsAre
<1> QED
  BY <1>4, <1>5, <1>12, <1>16, <1>18 DEF NGFile

(***************************************************************************)
(* What the Reader knows of the interfaces in front of block ngReader.at is *)
(* what the Writer had added; it has returned the packets in front of that *)
(* block.  What FilterCopy made of the interfaces of the first section has *)
(* their link types and resolutions.                                       *)
(***************************************************************************)
Results == {"none", "EOF", "unexpectedEOF", "invalid", "unsupported", "refused"}
IsReader(r) == \E I, o : r \in [at : Nat, order : {o}, interfaces : {I}, sections : Nat, result : Results]
IsWriter(w) ==
    \E I, o, d, u : w \in [order : {o}, defaultRes : {d}, buffered : {u}, interfaces : {I}, first : Nat \ {0}]
IsCopy(c) == \E m, w, k : c \in [on : BOOLEAN, idMap : {m}, writer : {w}, kept : {k}] /\ IsWriter(w)

NGTypes ==
    /\ ngEnded \in {"writing", "whole", "inHeader", "afterHeader", "inBody"}
    /\ IsWriter(ngWriter) /\ ngWriter.defaultRes \in {1, 1000} /\ IsSeq(ngWriter.interfaces)
    /\ IsReader(ngReader) /\ (ngReader.sections = 0 => ngReader.at = 1)
    /\ ngEnded = "writing" => ngReader = NG!newReader /\ ngGot = <<>> /\ ~copy.on /\ ngFile # <<>>
    /\ ngReader.result \in {"EOF", "unexpectedEOF"} => ngReader.at > Len(ngFile)

GotMatches(g, s) ==
    /\ g.id = s.id /\ Matches(g.info, s.info)
    /\ g.capturedLen = NG!capturedLen(s.info, s.packet.len) /\ g.originalLen = s.packet.len
    /\ ~NG!Contradicted(s.info) =>
          g.time = [sec |-> s.packet.sec, nsec |-> (s.packet.nsec \div s.info.tsRes) * s.info.tsRes]

\* The interfaces ks of the Reader, and what it has returned, when kn is known.
ReaderIs(kn, f, s, r, g) ==
    /\ r.at \in 1..Len(f) + 1
    /\ IsSeq(r.interfaces) /\ Len(r.interfaces) = Len(kn[r.at])
    /\ \A i \in 1..Len(r.interfaces) : Matches(r.interfaces[i], kn[r.at][i])
    /\ IsSeq(g) /\ Len(g) = Before(f, r.at - 1) /\ \A i \in 1..Len(g) : GotMatches(g[i], s[i])

NGKnown(kn) ==
    /\ NGFile(kn, ngFile, ngSent) /\ ReaderIs(kn, ngFile, ngSent, ngReader, ngGot)
    /\ ngEnded = "writing" => ngWriter.interfaces = kn[Len(ngFile) + 1]

\* Interface from of the Reader was added as interface to of the copy.
AddedAs(ri, ci, from, to) ==
    /\ from \in 0..Len(ri) - 1 /\ to \in 0..Len(ci) - 1
    /\ ci[to + 1].linkType = ri[from + 1].linkType
    /\ ci[to + 1].tsRes = ri[from + 1].tsRes /\ ci[to + 1].tsRes \in {1, 1000}

\* Packet pkt was kept for interface to of the copy, with the time ts.
KeptTo(ci, pkt, to, ts) ==
    /\ to \in 0..Len(ci) - 1
    /\ ci[to + 1].linkType = pkt.info.linkType /\ NG!Timestamp(ts, ci[to + 1].tsRes) = pkt.time

KeptAs(ci, g, k) == k.of \in 1..Len(g) /\ KeptTo(ci, g[k.of], k.block.interfaceID, k.block.ts)

CopyHolds(ri, g, c) ==
    /\ \A m \in c.idMap : AddedAs(ri, c.writer.interfaces, m[1], m[2])
    /\ \A i \in 1..Len(c.kept) : KeptAs(c.writer.interfaces, g, c.kept[i])

CopyIs(r, g, c) ==
    /\ IsCopy(c) /\ IsSeq(c.writer.interfaces) /\ IsSeq(c.kept)
    /\ r.sections = 0 => c.idMap = {} /\ c.kept = <<>>
    /\ r.sections <= 1 => CopyHolds(r.interfaces, g, c)

NGInv == NGTypes /\ CopyIs(ngReader, ngGot, copy) /\ \E kn : NGKnown(kn)

LEMMA NGKeeps == ASSUME NGInv PROVE NG!ReadBack /\ NG!FilterKeeps
<1>1. PICK kn : NGKnown(kn)
  BY DEF NGInv
<1>2. /\ IsSeq(ngFile) /\ Len(ngSent) = Before(ngFile, Len(ngFile))
      /\ ngReader.at \in 1..Len(ngFile) + 1 /\ IsSeq(ngGot) /\ Len(ngGot) = Before(ngFile, ngReader.at - 1)
      /\ \A i \in 1..Len(ngGot) : GotMatches(ngGot[i], ngSent[i])
  BY <1>1 DEF NGKnown, NGFile, ReaderIs
<1>3. Len(ngFile) \in Nat /\ DOMAIN ngGot = 1..Len(ngGot)
  BY <1>2 DEF IsSeq
<1>4. Len(ngGot) <= Len(ngSent)
  <2>1. CASE ngReader.at = 1
    <3>1. Before(ngFile, 0) = 0 /\ Before(ngFile, Len(ngFile)) \in Nat
      BY <1>3, BeforeNext
    <3> QED
      BY <1>2, <2>1, <3>1
  <2>2. CASE ngReader.at # 1
    <3>1. ngReader.at - 1 \in 1..Len(ngFile)
      BY <1>2, <1>3, <2>2
    <3> QED
      BY <1>2, <1>3, <3>1, BeforeBelow
  <2> QED
    BY <2>1, <2>2
<1>5. ASSUME ngReader.result \in {"EOF", "unexpectedEOF"} PROVE Len(ngGot) = NG!PacketsIn(ngFile)
  <2>1. ngReader.at > Len(ngFile)
    BY <1>5 DEF NGInv, NGTypes
  <2>2. ngReader.at - 1 = Len(ngFile)
    BY <1>2, <1>3, <2>1
  <2> QED
    BY <1>2, <2>2, PacketsCounted
<1>6. NG!ReadBack
  BY <1>2, <1>3, <1>4, <1>5 DEF NG!ReadBack, GotMatches, Matches
<1>7. NG!FilterKeeps
  <2> SUFFICES ASSUME ngReader.sections = 1, NEW i \in DOMAIN copy.kept, NEW k, k = copy.kept[i]
               PROVE  /\ NG!Kept(k).linkType = ngGot[k.of].info.linkType
                      /\ NG!Timestamp(k.block.ts, NG!Kept(k).tsRes) = ngGot[k.of].time
    BY DEF NG!FilterKeeps
  <2>1. IsSeq(copy.kept)
    BY DEF NGInv, CopyIs
  <2>2. i \in 1..Len(copy.kept)
    BY <2>1 DEF IsSeq
  <2>3. KeptAs(copy.writer.interfaces, ngGot, k)
    BY <2>2 DEF NGInv, CopyIs, CopyHolds
  <2> QED
    BY <2>3 DEF KeptAs, KeptTo, NG!Kept
<1> QED
  BY <1>6, <1>7

LEMMA NGStart == Init => NGInv
<1> SUFFICES ASSUME Init PROVE NGInv
  OBVIOUS
<1>1. NG!PcapNGInit
  BY DEF Init
<1>2. PICK w : w = NG!closedWriter
  OBVIOUS
<1>3. /\ ngWriter = w /\ ngFile = <<>> /\ ngEnded = "whole" /\ ngReader = NG!newReader
      /\ copy = [on |-> FALSE, idMap |-> {}, writer |-> w, kept |-> <<>>]
      /\ ngSent = <<>> /\ ngGot = <<>>
  BY <1>1, <1>2 DEF NG!PcapNGInit
<1>4. w = [order |-> "none", defaultRes |-> 1000, buffered |-> FALSE, interfaces |-> <<>>, first |-> 1]
  BY <1>2 DEF NG!closedWriter, NG!Microsecond
<1>5. IsWriter(w) /\ w.defaultRes = 1000 /\ w.interfaces = <<>>
  <2>0. PICK x : x = <<>>
    OBVIOUS
  <2>1. PICK u \in BOOLEAN : u = FALSE
    OBVIOUS
  <2>2. w = [order |-> "none", defaultRes |-> 1000, buffered |-> u, interfaces |-> x, first |-> 1]
    BY <1>4, <2>0, <2>1, ZenonT(60)
  <2>3. w \in [order : {"none"}, defaultRes : {1000}, buffered : {u}, interfaces : {x}, first : Nat \ {0}]
    BY <2>2
  <2>4. IsWriter(w)
    BY <2>3 DEF IsWriter
  <2> QED
    BY <2>0, <2>2, <2>4
<1>6. PICK e : e = <<>>
  OBVIOUS
<1>7. IsSeq(e) /\ Len(e) = 0 /\ DOMAIN e = {}
  <2>1. <<>> \in Seq({}) /\ Len(<<>>) = 0 /\ DOMAIN <<>> = {}
    OBVIOUS
  <2> QED
    BY <1>6, <2>1 DEF IsSeq
<1>8. ngReader = [at |-> 1, order |-> "none", interfaces |-> e, sections |-> 0, result |-> "none"]
  BY <1>3, <1>6 DEF NG!newReader
<1>9. ngReader.at = 1 /\ ngReader.interfaces = e /\ ngReader.sections = 0 /\ ngReader.result = "none" /\ IsReader(ngReader)
  BY <1>8 DEF IsReader, Results
<1>10. copy = [on |-> FALSE, idMap |-> {}, writer |-> w, kept |-> e]
  BY <1>3, <1>6
<1>11. copy.idMap = {} /\ copy.kept = e /\ copy.writer = w /\ IsCopy(copy)
  BY <1>5, <1>10 DEF IsCopy
<1>12. CopyIs(ngReader, ngGot, copy)
  BY <1>5, <1>6, <1>7, <1>9, <1>11 DEF CopyIs, CopyHolds
<1>13. NGTypes
  BY <1>3, <1>5, <1>6, <1>7, <1>9 DEF NGTypes
<1>14. PICK kn : kn = [j \in {1} |-> e]
  OBVIOUS
<1>15. kn[1] = <<>> /\ IsSeq(kn[1]) /\ Len(kn[1]) = 0
  BY <1>6, <1>7, <1>14
<1>16. Before(ngFile, 0) = 0 /\ Len(ngFile) = 0 /\ Len(ngGot) = 0 /\ Len(ngSent) = 0
  BY <1>3, <1>6, <1>7, BeforeNext
<1>17. NGFile(kn, ngFile, ngSent)
  BY <1>3, <1>6, <1>7, <1>15, <1>16 DEF NGFile, Known, PacketsAre
<1>18. ReaderIs(kn, ngFile, ngSent, ngReader, ngGot)
  BY <1>3, <1>6, <1>7, <1>9, <1>15, <1>16 DEF ReaderIs
<1>19. NGKnown(kn)
  BY <1>3, <1>17, <1>18 DEF NGKnown
<1> QED
  BY <1>12, <1>13, <1>19 DEF NGInv

\* A step of the Writer: nothing has been read and nothing is copied.
LEMMA NothingReadYet ==
    ASSUME NGInv, ngReader = NG!newReader, ngGot = <<>>, ngReader' = ngReader, ngGot' = ngGot, copy' = copy
    PROVE  /\ IsReader(ngReader') /\ ngReader'.sections = 0 /\ ngReader'.at = 1 /\ ngReader'.result = "none"
           /\ CopyIs(ngReader, ngGot, copy)'
           /\ \A kn, f, s : kn[1] = <<>> /\ Len(f) \in Nat => ReaderIs(kn, f, s, ngReader', ngGot')
<1>1. PICK e : e = <<>>
  OBVIOUS
<1>2. ngReader' = [at |-> 1, order |-> "none", interfaces |-> e, sections |-> 0, result |-> "none"]
  BY <1>1 DEF NG!newReader
<1>3. ngReader'.sections = 0 /\ ngReader'.at = 1 /\ ngReader'.result = "none" /\ ngReader'.interfaces = e
  BY <1>2
<1>4. IsReader(ngReader') /\ CopyIs(ngReader, ngGot, copy)'
  BY DEF NGInv, NGTypes
<1>5. ASSUME NEW kn, NEW f, NEW s, kn[1] = <<>>, Len(f) \in Nat
      PROVE  ReaderIs(kn, f, s, ngReader', ngGot')
  <2>1. ngGot' = e /\ Len(e) = 0 /\ IsSeq(e)
    <3>1. <<>> \in Seq({}) /\ Len(<<>>) = 0
      OBVIOUS
    <3> QED
      BY <1>1, <3>1 DEF IsSeq
  <2>2. Before(f, 1 - 1) = 0
    BY BeforeNext
  <2>3. 1 \in 1..Len(f) + 1
    BY <1>5
  <2> QED
    BY <1>1, <1>3, <1>5, <2>1, <2>2, <2>3 DEF ReaderIs
<1> QED
  BY <1>3, <1>4, <1>5

LEMMA NGNewWriter == ASSUME NGInv, NG!NewWriter PROVE NGInv'
<1>1. PICK kn : NGKnown(kn)
  BY DEF NGInv
<1>2. PICK w \in NGWriters : /\ NG!accepted(w) /\ ngFile' = Append(ngFile, [type |-> "section", order |-> w.order])
                             /\ ngWriter' = [order |-> w.order, defaultRes |-> w.defaultRes, buffered |-> w.buffered,
                                             interfaces |-> <<>>, first |-> Len(ngFile) + 1]
  BY DEF NG!NewWriter
<1>3. /\ ngEnded = "whole" /\ ngEnded' = "writing" /\ ngReader = NG!newReader /\ ~copy.on
      /\ ngReader' = ngReader /\ copy' = copy /\ ngSent' = ngSent /\ ngGot' = ngGot
  BY DEF NG!NewWriter
<1>4. ngGot = <<>>
  <2>1. ngReader.at = 1
    BY <1>3 DEF NG!newReader
  <2>2. Len(ngGot) = 0 /\ IsSeq(ngGot)
    BY <1>1, <2>1, BeforeNext DEF NGKnown, ReaderIs
  <2> QED
    BY <2>2 DEF IsSeq
<1>5. PICK o, d, u, e, k : o = w.order /\ d = w.defaultRes /\ u = w.buffered /\ e = <<>> /\ k = Len(ngFile) + 1
  OBVIOUS
<1>6. ngWriter' = [order |-> o, defaultRes |-> d, buffered |-> u, interfaces |-> e, first |-> k]
  BY <1>2, <1>5
<1>7. ngWriter' \in [order : {o}, defaultRes : {d}, buffered : {u}, interfaces : {e}, first : Nat \ {0}]
      /\ ngWriter'.defaultRes = d /\ ngWriter'.interfaces = e
  <2>1. k \in Nat \ {0}
    BY <1>1, <1>5 DEF NGKnown, NGFile, IsSeq
  <2> QED
    BY <1>6, <2>1
<1>8. d \in {1, 1000}
  BY <1>2, <1>5 DEF NG!accepted, NG!Microsecond, NG!Nanosecond
<1>9. IsSeq(e)
  <2>1. <<>> \in Seq({})
    OBVIOUS
  <2> QED
    BY <1>5, <2>1 DEF IsSeq
<1>10. PICK b : b = [type |-> "section", order |-> o]
  OBVIOUS
<1>11. ngFile' = Append(ngFile, b) /\ b.type = "section"
  BY <1>2, <1>5, <1>10
<1>12. Continues(kn[Len(ngFile) + 1], b, e)
  BY <1>5, <1>11 DEF Continues
<1>13. NGFile(kn, ngFile, ngSent)
  BY <1>1 DEF NGKnown
<1>a. Adds(kn, ngFile, ngSent, b, e, b, ngFile', ngSent')
  BY <1>3, <1>9, <1>11, <1>12, <1>13 DEF Adds
<1>b. PICK kt : Grown(kt, e, ngFile', ngSent')
  BY <1>a, BlockAdded
<1>14. NGFile(kt, ngFile', ngSent') /\ kt[Len(ngFile') + 1] = e /\ kt[1] = <<>>
  BY <1>b DEF Grown
<1>15. ngFile' # <<>> /\ Len(ngFile') \in Nat
  BY <1>14, <1>b DEF NGFile, IsSeq, Grown
<1>16. /\ IsReader(ngReader') /\ ngReader'.sections = 0 /\ ngReader'.at = 1 /\ ngReader'.result = "none"
       /\ CopyIs(ngReader, ngGot, copy)' /\ ReaderIs(kt, ngFile', ngSent', ngReader', ngGot')
  BY <1>3, <1>4, <1>14, <1>15, NothingReadYet
<1>17. NGTypes'
  BY <1>3, <1>4, <1>7, <1>8, <1>9, <1>15, <1>16 DEF NGTypes, IsWriter
<1>18. NGKnown(kt)'
  BY <1>7, <1>14, <1>16 DEF NGKnown
<1> QED
  BY <1>16, <1>17, <1>18 DEF NGInv

\* The Writer adds block b; l is then known of its interfaces.
WriterAdding(kn, b, l, r) ==
    /\ NGKnown(kn)
    /\ ngEnded = "writing" /\ ngEnded' = "writing" /\ ngReader' = ngReader /\ copy' = copy /\ ngGot' = ngGot
    /\ ngFile' = Append(ngFile, b) /\ IsSeq(l) /\ Continues(ngWriter.interfaces, b, l)
    /\ b.type = "packet" => WrittenFor(ngWriter.interfaces, b, r) /\ ngSent' = Append(ngSent, r)
    /\ b.type # "packet" => ngSent' = ngSent
    /\ IsWriter(ngWriter') /\ ngWriter'.defaultRes = ngWriter.defaultRes /\ ngWriter'.interfaces = l

LEMMA WriterAdds ==
    ASSUME NGInv, NEW kn, NEW b, NEW l, NEW r, WriterAdding(kn, b, l, r)
    PROVE  NGInv'
<1>0. /\ NGKnown(kn)
      /\ ngEnded = "writing" /\ ngEnded' = "writing" /\ ngReader' = ngReader /\ copy' = copy /\ ngGot' = ngGot
      /\ ngFile' = Append(ngFile, b) /\ IsSeq(l) /\ Continues(ngWriter.interfaces, b, l)
      /\ b.type = "packet" => WrittenFor(ngWriter.interfaces, b, r) /\ ngSent' = Append(ngSent, r)
      /\ b.type # "packet" => ngSent' = ngSent
      /\ IsWriter(ngWriter') /\ ngWriter'.defaultRes = ngWriter.defaultRes /\ ngWriter'.interfaces = l
  BY DEF WriterAdding
<1>1. NGFile(kn, ngFile, ngSent) /\ ngWriter.interfaces = kn[Len(ngFile) + 1]
  BY <1>0 DEF NGKnown
<1>2. /\ ngReader = NG!newReader /\ ngGot = <<>> /\ ~copy.on /\ ngFile # <<>> /\ ngWriter.defaultRes \in {1, 1000}
  BY <1>0 DEF NGInv, NGTypes
<1>a. Adds(kn, ngFile, ngSent, b, l, r, ngFile', ngSent')
  BY <1>0, <1>1, <1>2 DEF Adds
<1>3. PICK kt : Grown(kt, l, ngFile', ngSent')
  BY <1>a, BlockAdded
<1>4. NGFile(kt, ngFile', ngSent') /\ kt[Len(ngFile') + 1] = l /\ kt[1] = <<>> /\ ngFile' # <<>>
  BY <1>3 DEF Grown
<1>5. Len(ngFile') \in Nat
  BY <1>4 DEF NGFile, IsSeq
<1>6. /\ IsReader(ngReader') /\ ngReader'.sections = 0 /\ ngReader'.at = 1 /\ ngReader'.result = "none"
      /\ CopyIs(ngReader, ngGot, copy)' /\ ReaderIs(kt, ngFile', ngSent', ngReader', ngGot')
  BY <1>0, <1>2, <1>4, <1>5, NothingReadYet
<1>7. NGTypes'
  BY <1>0, <1>2, <1>4, <1>6 DEF NGTypes
<1>8. NGKnown(kt)'
  BY <1>0, <1>4, <1>6 DEF NGKnown
<1> QED
  BY <1>6, <1>7, <1>8 DEF NGInv

LEMMA NGWriteInterface == ASSUME NGInv, NG!WriteInterface PROVE NGInv'
<1>1. PICK kn : NGKnown(kn)
  BY DEF NGInv
<1>2. PICK i \in NGInterfaces :
         /\ NG!AddInterface(ngWriter, i).ok
         /\ ngWriter' = [ngWriter EXCEPT !.interfaces = Append(@, NG!AddInterface(ngWriter, i).info)]
         /\ ngFile' = Append(ngFile, NG!AddInterface(ngWriter, i).block)
  BY DEF NG!WriteInterface
<1>3. PICK a : a = NG!AddInterface(ngWriter, i)
  OBVIOUS
<1>4. /\ a.ok /\ ngWriter' = [ngWriter EXCEPT !.interfaces = Append(@, a.info)] /\ ngFile' = Append(ngFile, a.block)
  BY <1>2, <1>3
<1>5. /\ ngEnded = "writing" /\ ngEnded' = ngEnded /\ ngReader' = ngReader /\ copy' = copy /\ ngSent' = ngSent
      /\ ngGot' = ngGot
  BY DEF NG!WriteInterface, NG!writing
<1>6. IsWriter(ngWriter) /\ ngWriter.defaultRes \in {1, 1000} /\ IsSeq(ngWriter.interfaces)
  BY DEF NGInv, NGTypes
<1>7. PICK J, o, d, u : ngWriter \in [order : {o}, defaultRes : {d}, buffered : {u}, interfaces : {J}, first : Nat \ {0}]
  BY <1>6 DEF IsWriter
<1>8. PICK l : l = Append(ngWriter.interfaces, a.info)
  OBVIOUS
<1>9. ngWriter' = [ngWriter EXCEPT !.interfaces = l]
  BY <1>4, <1>8
<1>10. /\ ngWriter' \in [order : {o}, defaultRes : {d}, buffered : {u}, interfaces : {l}, first : Nat \ {0}]
       /\ ngWriter'.defaultRes = ngWriter.defaultRes /\ ngWriter'.interfaces = l
  BY <1>7, <1>9
<1>11. IsWriter(ngWriter')
  BY <1>10 DEF IsWriter
<1>12. IsSeq(l)
  <2>1. PICK S : ngWriter.interfaces \in Seq(S)
    BY <1>6 DEF IsSeq
  <2>2. l \in Seq(S \cup {a.info})
    BY <1>8, <2>1, AppendProperties
  <2> QED
    BY <2>2 DEF IsSeq
<1>13. Len(i.opts) \in Nat
  <2>1. i.opts \in Seq(NGOptions)
    BY <1>2, PcapNGConstants
  <2> QED
    BY <2>1
<1>14. a.block.type = "interface" /\ Matches(NG!parseInterface(a.block), a.info)
  BY <1>3, <1>4, <1>6, <1>13, InterfaceRead
<1>15. Continues(ngWriter.interfaces, a.block, l)
  BY <1>8, <1>14 DEF Continues
<1>16. WriterAdding(kn, a.block, l, a)
  BY <1>1, <1>4, <1>5, <1>10, <1>11, <1>12, <1>14, <1>15 DEF WriterAdding
<1> QED
  BY <1>16, WriterAdds

LEMMA NGWriteForeign == ASSUME NGInv, NG!WriteForeign PROVE NGInv'
<1>1. PICK kn : NGKnown(kn)
  BY DEF NGInv
<1>2. PICK o : o = ngWriter.order
  OBVIOUS
<1>3. PICK b : b = [type |-> "other", order |-> o]
  OBVIOUS
<1>4. b.type = "other" /\ ngFile' = Append(ngFile, b)
  BY <1>2, <1>3 DEF NG!WriteForeign
<1>5. /\ ngEnded = "writing" /\ ngEnded' = ngEnded /\ ngReader' = ngReader /\ copy' = copy /\ ngSent' = ngSent
      /\ ngGot' = ngGot /\ ngWriter' = ngWriter
  BY DEF NG!WriteForeign, NG!writing
<1>6. IsWriter(ngWriter) /\ IsSeq(ngWriter.interfaces)
  BY DEF NGInv, NGTypes
<1>7. Continues(ngWriter.interfaces, b, ngWriter.interfaces)
  BY <1>4 DEF Continues
<1>8. WriterAdding(kn, b, ngWriter.interfaces, b)
  BY <1>1, <1>4, <1>5, <1>6, <1>7 DEF WriterAdding
<1> QED
  BY <1>8, WriterAdds

LEMMA NGWritePacket == ASSUME NGInv, NG!WritePacket PROVE NGInv'
<1>1. PICK kn : NGKnown(kn)
  BY DEF NGInv
<1>2. PICK id \in 0..Len(ngWriter.interfaces) - 1, p \in NGPackets :
         /\ NG!EnhancedPacket(ngWriter, id, p).ts # -1
         /\ ngFile' = Append(ngFile, NG!EnhancedPacket(ngWriter, id, p))
         /\ ngSent' = Append(ngSent, [id |-> id, info |-> ngWriter.interfaces[id + 1], packet |-> p])
  BY DEF NG!WritePacket
<1>3. /\ ngEnded = "writing" /\ ngEnded' = ngEnded /\ ngReader' = ngReader /\ copy' = copy
      /\ ngGot' = ngGot /\ ngWriter' = ngWriter
  BY DEF NG!WritePacket, NG!writing
<1>4. IsWriter(ngWriter) /\ IsSeq(ngWriter.interfaces) /\ Len(ngWriter.interfaces) \in Nat
  BY DEF NGInv, NGTypes, IsSeq
<1>5. PICK info : info = ngWriter.interfaces[id + 1]
  OBVIOUS
<1>6. PICK c, v, n : c = NG!capturedLen(info, p.len) /\ v = NG!encodeTimestamp(p, info.tsRes) /\ n = p.len
  OBVIOUS
<1>o. PICK o : o = ngWriter.order
  OBVIOUS
<1>7. PICK b : b = [type |-> "packet", order |-> o, interfaceID |-> id, ts |-> v,
                    capturedLen |-> c, originalLen |-> n]
  OBVIOUS
<1>8. PICK r : r = [id |-> id, info |-> info, packet |-> p]
  OBVIOUS
<1>9. NG!EnhancedPacket(ngWriter, id, p) = b
  BY <1>5, <1>6, <1>o, <1>7 DEF NG!EnhancedPacket
<1>10. ngFile' = Append(ngFile, b) /\ ngSent' = Append(ngSent, r) /\ b.ts # -1
  BY <1>2, <1>5, <1>8, <1>9
<1>11. b.type = "packet" /\ b.interfaceID = id /\ b.ts = v /\ b.capturedLen = c /\ b.originalLen = n
  BY <1>7
<1>12. r.id = id /\ r.info = info /\ r.packet = p
  BY <1>8
<1>13. info.tsRes \in {1, 1000}
  BY <1>6, <1>10, <1>11, NoOtherResolution
<1>14. p.sec \in Nat /\ p.nsec \in Nat /\ p.nsec < 1000000000
  BY <1>2, PcapNGConstants, SMT DEF Below
<1>15. v \in Nat /\ NG!Timestamp(v, info.tsRes) = [sec |-> p.sec, nsec |-> (p.nsec \div info.tsRes) * info.tsRes]
  BY <1>6, <1>13, <1>14, TimeRounded
<1>16. id \in Nat /\ id + 1 \in 1..Len(ngWriter.interfaces)
  BY <1>2, <1>4
<1>17. Written(b, r)
  BY <1>6, <1>11, <1>12, <1>13, <1>15, <1>16 DEF Written
<1>18. WrittenFor(ngWriter.interfaces, b, r)
  BY <1>5, <1>11, <1>12, <1>16, <1>17 DEF WrittenFor
<1>19. Continues(ngWriter.interfaces, b, ngWriter.interfaces)
  BY <1>11 DEF Continues
<1>20. WriterAdding(kn, b, ngWriter.interfaces, r)
  BY <1>1, <1>3, <1>4, <1>10, <1>11, <1>18, <1>19 DEF WriterAdding
<1> QED
  BY <1>20, WriterAdds

LEMMA NGClose == ASSUME NGInv, NG!Close PROVE NGInv'
<1>1. PICK kn : NGKnown(kn)
  BY DEF NGInv
<1>2. /\ ngEnded = "writing" /\ ngEnded' = "whole" /\ ngReader' = ngReader /\ copy' = copy /\ ngSent' = ngSent
      /\ ngGot' = ngGot /\ ngWriter' = ngWriter /\ ngFile' = ngFile
  BY DEF NG!Close, NG!writing
<1>3. NGTypes'
  BY <1>2 DEF NGInv, NGTypes
<1>4. NGKnown(kn)'
  BY <1>1, <1>2 DEF NGKnown
<1>5. CopyIs(ngReader, ngGot, copy)'
  BY <1>2 DEF NGInv
<1> QED
  BY <1>3, <1>4, <1>5 DEF NGInv

LEMMA NGDie == ASSUME NGInv, NG!Die PROVE NGInv'
<1>1. PICK kn : NGKnown(kn)
  BY DEF NGInv
<1>2. /\ ngEnded = "writing" /\ ngReader' = ngReader /\ copy' = copy
      /\ ngGot' = ngGot /\ ngWriter' = ngWriter /\ ngSent' = SubSeq(ngSent, 1, NG!PacketsIn(ngFile'))
  BY DEF NG!Die, NG!writing
<1>3. PICK n \in ngWriter.first - 1..Len(ngFile) :
         /\ ngFile' = SubSeq(ngFile, 1, n)
         /\ ngEnded' \in IF n = Len(ngFile) THEN {"whole"}
                         ELSE {"inHeader", "afterHeader", "inBody"} \cup IF ngWriter.buffered THEN {"whole"} ELSE {}
  BY DEF NG!Die
<1>4. ngEnded' \in {"whole", "inHeader", "afterHeader", "inBody"}
  BY <1>3
<1>5. ngWriter.first \in Nat \ {0}
  BY DEF NGInv, NGTypes, IsWriter
<1>6. NGFile(kn, ngFile, ngSent)
  BY <1>1 DEF NGKnown
<1>7. n \in 0..Len(ngFile)
  BY <1>5, <1>6 DEF NGFile, IsSeq
<1>8. NGFile(kn, ngFile', ngSent')
  BY <1>2, <1>3, <1>6, <1>7, BlocksCut
<1>9. kn[1] = <<>> /\ Len(ngFile') \in Nat
  BY <1>8 DEF NGFile, IsSeq, Known
<1>10. ngReader = NG!newReader /\ ngGot = <<>>
  BY <1>2 DEF NGInv, NGTypes
<1>11. /\ IsReader(ngReader') /\ ngReader'.sections = 0 /\ ngReader'.at = 1 /\ ngReader'.result = "none"
       /\ CopyIs(ngReader, ngGot, copy)' /\ ReaderIs(kn, ngFile', ngSent', ngReader', ngGot')
  BY <1>2, <1>9, <1>10, NothingReadYet
<1>12. IsWriter(ngWriter) /\ ngWriter.defaultRes \in {1, 1000} /\ IsSeq(ngWriter.interfaces)
  BY DEF NGInv, NGTypes
<1>13. NGTypes'
  BY <1>2, <1>4, <1>11, <1>12 DEF NGTypes
<1>14. NGKnown(kn)'
  BY <1>4, <1>8, <1>11 DEF NGKnown
<1> QED
  BY <1>11, <1>13, <1>14 DEF NGInv

LEMMA NGStartFilterCopy == ASSUME NGInv, NG!StartFilterCopy PROVE NGInv'
<1>1. PICK kn : NGKnown(kn)
  BY DEF NGInv
<1>2. /\ ngEnded # "writing" /\ ngEnded' = ngEnded /\ ngReader' = ngReader /\ ngSent' = ngSent
      /\ ngGot' = ngGot /\ ngWriter' = ngWriter /\ ngFile' = ngFile
      /\ copy' = [copy EXCEPT !.on = TRUE, !.writer.order = "little"]
  BY DEF NG!StartFilterCopy
<1>3. CopyIs(ngReader, ngGot, copy)
  BY DEF NGInv
<1>4. PICK m, w, k : copy \in [on : BOOLEAN, idMap : {m}, writer : {w}, kept : {k}] /\ IsWriter(w)
  BY <1>3 DEF CopyIs, IsCopy
<1>5. PICK J, o, d, u : w \in [order : {o}, defaultRes : {d}, buffered : {u}, interfaces : {J}, first : Nat \ {0}]
  BY <1>4 DEF IsWriter
<1>6. PICK z : z = [w EXCEPT !.order = "little"]
  OBVIOUS
<1>7. /\ z \in [order : {"little"}, defaultRes : {d}, buffered : {u}, interfaces : {J}, first : Nat \ {0}]
      /\ z.interfaces = w.interfaces
  BY <1>5, <1>6
<1>8. IsWriter(z)
  BY <1>7 DEF IsWriter
<1>9. copy.writer = w /\ copy.idMap = m /\ copy.kept = k
  BY <1>4
<1>10. copy' = [copy EXCEPT !.on = TRUE, !.writer = z]
  BY <1>2, <1>4, <1>6, <1>9
<1>11. /\ copy' \in [on : BOOLEAN, idMap : {m}, writer : {z}, kept : {k}]
       /\ copy'.idMap = copy.idMap /\ copy'.kept = copy.kept /\ copy'.writer = z
  BY <1>4, <1>9, <1>10
<1>12. IsCopy(copy')
  BY <1>8, <1>11 DEF IsCopy
<1>13. copy'.writer.interfaces = copy.writer.interfaces
  BY <1>7, <1>9, <1>11
<1>14. CopyIs(ngReader, ngGot, copy)'
  BY <1>2, <1>3, <1>11, <1>12, <1>13 DEF CopyIs, CopyHolds
<1>15. NGTypes'
  BY <1>2 DEF NGInv, NGTypes
<1>16. NGKnown(kn)'
  BY <1>1, <1>2 DEF NGKnown
<1> QED
  BY <1>14, <1>15, <1>16 DEF NGInv

LEMMA NGReadEnd == ASSUME NGInv, NG!ReadEnd PROVE NGInv'
<1>1. PICK kn : NGKnown(kn)
  BY DEF NGInv
<1>2. /\ ngEnded # "writing" /\ ngEnded' = ngEnded /\ ngSent' = ngSent /\ copy' = copy
      /\ ngGot' = ngGot /\ ngWriter' = ngWriter /\ ngFile' = ngFile /\ ngReader.at > Len(ngFile)
      /\ ngReader' = [ngReader EXCEPT !.result = NG!endOfFile]
  BY DEF NG!ReadEnd, NG!reading
<1>3. PICK e \in {"EOF", "unexpectedEOF"} : e = NG!endOfFile
  BY DEF NG!endOfFile
<1>4. IsReader(ngReader) /\ (ngReader.sections = 0 => ngReader.at = 1)
  BY DEF NGInv, NGTypes
<1>5. PICK J, o : ngReader \in [at : Nat, order : {o}, interfaces : {J}, sections : Nat, result : Results]
  BY <1>4 DEF IsReader
<1>6. e \in Results
  BY DEF Results
<1>7. /\ ngReader' \in [at : Nat, order : {o}, interfaces : {J}, sections : Nat, result : Results]
      /\ ngReader'.at = ngReader.at /\ ngReader'.interfaces = ngReader.interfaces
      /\ ngReader'.sections = ngReader.sections
  BY <1>2, <1>3, <1>5, <1>6
<1>8. IsReader(ngReader')
  BY <1>7 DEF IsReader
<1>9. NGTypes'
  BY <1>2, <1>4, <1>7, <1>8 DEF NGInv, NGTypes
<1>10. ReaderIs(kn, ngFile', ngSent', ngReader', ngGot')
  BY <1>1, <1>2, <1>7 DEF NGKnown, ReaderIs
<1>11. NGKnown(kn)'
  BY <1>1, <1>2, <1>10 DEF NGKnown
<1>12. CopyIs(ngReader, ngGot, copy)'
  BY <1>2, <1>7 DEF NGInv, CopyIs
<1> QED
  BY <1>9, <1>11, <1>12 DEF NGInv

\* p is q with e behind it.
Extended(q, e, p) ==
    /\ IsSeq(p) /\ Len(q) \in Nat /\ Len(p) = Len(q) + 1 /\ p[Len(q) + 1] = e
    /\ \A i \in 1..Len(q) : p[i] = q[i]

LEMMA Appended == ASSUME NEW q, IsSeq(q), NEW e PROVE Extended(q, e, Append(q, e))
<1>1. PICK S : q \in Seq(S)
  BY DEF IsSeq
<1>2. PICK p : p = Append(q, e)
  OBVIOUS
<1>3. /\ p \in Seq(S \cup {e}) /\ Len(p) = Len(q) + 1 /\ p[Len(q) + 1] = e
      /\ \A i \in 1..Len(q) : p[i] = q[i]
  BY <1>1, <1>2, AppendProperties
<1>4. Extended(q, e, p)
  BY <1>1, <1>3 DEF IsSeq, Extended
<1> QED
  BY <1>2, <1>4

\* FilterCopy has made d of copy c, in which there is an interface for the Reader's interface
\* id, which is i.
InterfaceFor(c, d, id, i) ==
    \/ d = c /\ \E m \in c.idMap : m[1] = id
    \/ \E info : /\ d.writer.interfaces = Append(c.writer.interfaces, info)
                 /\ d.idMap = c.idMap \cup {<<id, Len(c.writer.interfaces)>>}
                 /\ info.linkType = i.linkType /\ info.tsRes = i.tsRes /\ info.tsRes \in {1, 1000}

Interfaced(c, d, pkt) ==
    /\ IsCopy(d) /\ d.kept = c.kept /\ IsSeq(d.writer.interfaces) /\ InterfaceFor(c, d, pkt.id, pkt.info)

LEMMA InterfaceAdded ==
    ASSUME NEW c, IsCopy(c), IsSeq(c.writer.interfaces), NEW pkt, pkt.info.tsRes # NG!None,
           NG!WithInterface(c, pkt).ok
    PROVE  Interfaced(c, NG!WithInterface(c, pkt).c, pkt)
<1>0. PICK x : x = NG!WithInterface(c, pkt)
  OBVIOUS
<1>1. CASE \E m \in c.idMap : m[1] = pkt.id
  <2>1. x.c = c
    BY <1>0, <1>1 DEF NG!WithInterface
  <2>2. InterfaceFor(c, x.c, pkt.id, pkt.info)
    BY <1>1, <2>1 DEF InterfaceFor
  <2> QED
    BY <1>0, <2>1, <2>2 DEF Interfaced
<1>2. CASE ~ \E m \in c.idMap : m[1] = pkt.id
  <2>1. PICK l, s, t : l = pkt.info.linkType /\ s = pkt.info.snapLen /\ t = pkt.info.tsRes
    OBVIOUS
  <2>2. PICK o : o = [with |-> "resolution", res |-> t]
    OBVIOUS
  <2>3. PICK j : j = [linkType |-> l, snapLen |-> s, res |-> t]
    OBVIOUS
  <2>4. j.linkType = l /\ j.snapLen = s /\ j.res = t
    BY <2>3
  <2>5. PICK a : a = NG!AddInterface(c.writer, [linkType |-> j.linkType, snapLen |-> j.snapLen, opts |-> <<o>>])
    OBVIOUS
  <2>6. /\ x.ok = a.ok
        /\ x.c = [c EXCEPT !.idMap = @ \cup {<<pkt.id, Len(c.writer.interfaces)>>},
                           !.writer.interfaces = Append(@, a.info)]
    BY <1>0, <1>2, <2>1, <2>2, <2>4, <2>5 DEF NG!WithInterface
  <2>7. a.info.linkType = l /\ a.info.tsRes = t /\ t \in {1, 1000}
    BY <1>0, <2>1, <2>2, <2>4, <2>5, <2>6, InterfaceCopied
  <2>8. PICK m, w, k : c \in [on : BOOLEAN, idMap : {m}, writer : {w}, kept : {k}] /\ IsWriter(w)
    BY DEF IsCopy
  <2>9. PICK J, oo, d, u : w \in [order : {oo}, defaultRes : {d}, buffered : {u}, interfaces : {J}, first : Nat \ {0}]
    BY <2>8 DEF IsWriter
  <2>10. c.writer = w /\ c.kept = k /\ c.idMap = m
    BY <2>8
  <2>11. PICK q : q = Append(w.interfaces, a.info)
    OBVIOUS
  <2>12. PICK z : z = [w EXCEPT !.interfaces = q]
    OBVIOUS
  <2>13. /\ z \in [order : {oo}, defaultRes : {d}, buffered : {u}, interfaces : {q}, first : Nat \ {0}]
         /\ z.interfaces = q
    BY <2>9, <2>12
  <2>14. IsWriter(z)
    BY <2>13 DEF IsWriter
  <2>15. PICK n : n = m \cup {<<pkt.id, Len(w.interfaces)>>}
    OBVIOUS
  <2>16. x.c = [c EXCEPT !.idMap = n, !.writer = z]
    BY <2>6, <2>8, <2>10, <2>11, <2>12, <2>15
  <2>17. /\ x.c \in [on : BOOLEAN, idMap : {n}, writer : {z}, kept : {k}]
         /\ x.c.kept = k /\ x.c.writer = z /\ x.c.idMap = n
    BY <2>8, <2>16
  <2>18. IsCopy(x.c)
    BY <2>14, <2>17 DEF IsCopy
  <2>19. IsSeq(q)
    BY <2>10, <2>11, Appended DEF Extended
  <2>20. x.c.kept = c.kept /\ x.c.writer.interfaces = q
    BY <2>10, <2>13, <2>17
  <2>21. PICK info : info = a.info
    OBVIOUS
  <2>22. /\ x.c.writer.interfaces = Append(c.writer.interfaces, info)
         /\ x.c.idMap = c.idMap \cup {<<pkt.id, Len(c.writer.interfaces)>>}
         /\ info.linkType = pkt.info.linkType /\ info.tsRes = pkt.info.tsRes /\ info.tsRes \in {1, 1000}
    BY <2>1, <2>7, <2>10, <2>11, <2>15, <2>17, <2>20, <2>21
  <2>23. InterfaceFor(c, x.c, pkt.id, pkt.info)
    BY <2>22 DEF InterfaceFor
  <2> QED
    BY <1>0, <2>18, <2>19, <2>20, <2>23 DEF Interfaced
<1> QED
  BY <1>1, <1>2

LEMMA InterfaceIsAdded ==
    ASSUME NEW ri, IsSeq(ri), NEW c, IsSeq(c.writer.interfaces), NEW g, CopyHolds(ri, g, c),
           NEW id \in 0..Len(ri) - 1, NEW d, InterfaceFor(c, d, id, ri[id + 1]), d.kept = c.kept
    PROVE  CopyHolds(ri, g, d) /\ \E m \in d.idMap : m[1] = id
<1>0. /\ \A m \in c.idMap : AddedAs(ri, c.writer.interfaces, m[1], m[2])
      /\ \A i \in 1..Len(c.kept) : KeptAs(c.writer.interfaces, g, c.kept[i])
  BY DEF CopyHolds
<1>1. CASE d = c /\ \E m \in c.idMap : m[1] = id
  BY <1>1
<1>2. CASE \E info : /\ d.writer.interfaces = Append(c.writer.interfaces, info)
                     /\ d.idMap = c.idMap \cup {<<id, Len(c.writer.interfaces)>>}
                     /\ info.linkType = ri[id + 1].linkType /\ info.tsRes = ri[id + 1].tsRes
                     /\ info.tsRes \in {1, 1000}
  <2>1. PICK info : /\ d.writer.interfaces = Append(c.writer.interfaces, info)
                    /\ d.idMap = c.idMap \cup {<<id, Len(c.writer.interfaces)>>}
                    /\ info.linkType = ri[id + 1].linkType /\ info.tsRes = ri[id + 1].tsRes
                    /\ info.tsRes \in {1, 1000}
    BY <1>2
  <2>2. PICK ci, di : ci = c.writer.interfaces /\ di = d.writer.interfaces
    OBVIOUS
  <2>3. /\ Len(ci) \in Nat /\ Len(di) = Len(ci) + 1 /\ di[Len(ci) + 1] = info
        /\ \A i \in 1..Len(ci) : di[i] = ci[i]
    BY <2>1, <2>2, Appended DEF Extended
  <2>4. ASSUME NEW i \in 0..Len(ci) - 1 PROVE i \in 0..Len(di) - 1 /\ di[i + 1] = ci[i + 1]
    <3>1. i + 1 \in 1..Len(ci)
      BY <2>3
    <3> QED
      BY <2>3, <3>1
  <2>5. PICK e : e = <<id, Len(ci)>>
    OBVIOUS
  <2>6. e[1] = id /\ e[2] = Len(ci)
    BY <2>5
  <2>7. AddedAs(ri, di, e[1], e[2])
    BY <2>1, <2>3, <2>6 DEF AddedAs
  <2>8. \A m \in c.idMap : AddedAs(ri, di, m[1], m[2])
    <3> SUFFICES ASSUME NEW m \in c.idMap PROVE AddedAs(ri, di, m[1], m[2])
      OBVIOUS
    <3>1. AddedAs(ri, ci, m[1], m[2])
      BY <1>0, <2>2
    <3>2. PICK from, to : from = m[1] /\ to = m[2]
      OBVIOUS
    <3>3. AddedAs(ri, ci, from, to)
      BY <3>1, <3>2
    <3>4. to \in 0..Len(ci) - 1
      BY <3>3 DEF AddedAs
    <3>5. to \in 0..Len(di) - 1 /\ di[to + 1] = ci[to + 1]
      BY <2>4, <3>4
    <3>6. AddedAs(ri, di, from, to)
      BY <3>3, <3>5 DEF AddedAs
    <3> QED
      BY <3>2, <3>6
  <2>9. d.idMap = c.idMap \cup {e}
    BY <2>1, <2>2, <2>5
  <2>10. ASSUME NEW i \in 1..Len(d.kept) PROVE KeptAs(di, g, d.kept[i])
    <3>1. KeptAs(ci, g, d.kept[i])
      BY <1>0, <2>2
    <3>2. PICK k, pkt, to, ts : k = d.kept[i] /\ pkt = g[k.of] /\ to = k.block.interfaceID /\ ts = k.block.ts
      OBVIOUS
    <3>3. KeptAs(ci, g, k)
      BY <3>1, <3>2
    <3>4. k.of \in 1..Len(g) /\ KeptTo(ci, pkt, to, ts)
      BY <3>2, <3>3 DEF KeptAs
    <3>5. to \in 0..Len(ci) - 1
      BY <3>4 DEF KeptTo
    <3>6. to \in 0..Len(di) - 1 /\ di[to + 1] = ci[to + 1]
      BY <2>4, <3>5
    <3>7. KeptTo(di, pkt, to, ts)
      BY <3>4, <3>6 DEF KeptTo
    <3>8. KeptAs(di, g, k)
      BY <3>2, <3>4, <3>7 DEF KeptAs
    <3> QED
      BY <3>2, <3>8
  <2> QED
    BY <2>2, <2>6, <2>7, <2>8, <2>9, <2>10 DEF CopyHolds
<1> QED
  BY <1>1, <1>2 DEF InterfaceFor

\* What NextBlock makes of Reader r, whose block is b.
Invalid(r, n)     == n.result = "invalid" /\ n.at = r.at /\ n.interfaces = r.interfaces /\ n.sections = r.sections
NewSection(r, n)  == n.result = "none" /\ n.at = r.at + 1 /\ n.interfaces = <<>> /\ n.sections = r.sections + 1
APacket(r, n)     == n.result = "none" /\ n.at = r.at + 1 /\ n.interfaces = r.interfaces /\ n.sections = r.sections
Unsupported(r, n) ==
    n.result = "unsupported" /\ n.at = r.at + 1 /\ n.interfaces = r.interfaces /\ n.sections = r.sections
AnInterface(r, b, n) ==
    /\ n.result = "none" /\ n.at = r.at + 1 /\ n.sections = r.sections
    /\ n.interfaces = Append(r.interfaces, NG!parseInterface(b))

Becomes(r, b, n) ==
    \/ Invalid(r, n) \/ (b.type = "section" /\ NewSection(r, n)) \/ (b.type = "packet" /\ APacket(r, n))
    \/ (b.type = "other" /\ Unsupported(r, n)) \/ (b.type = "interface" /\ AnInterface(r, b, n))

LEMMA BlockRead ==
    ASSUME IsReader(ngReader), NEW b, b = ngFile[ngReader.at], b.type \in {"section", "interface", "packet", "other"},
           NEW n, n = NG!NextBlock([ngReader EXCEPT !.result = "none"])
    PROVE  IsReader(n) /\ Becomes(ngReader, b, n)
<1>1. PICK J, o : ngReader \in [at : Nat, order : {o}, interfaces : {J}, sections : Nat, result : Results]
  BY DEF IsReader
<1>2. PICK q : q = [ngReader EXCEPT !.result = "none"]
  OBVIOUS
<1>3. /\ q \in [at : Nat, order : {o}, interfaces : {J}, sections : Nat, result : {"none"}]
      /\ q.at = ngReader.at /\ q.interfaces = ngReader.interfaces /\ q.sections = ngReader.sections
      /\ q.interfaces = J
  BY <1>1, <1>2
<1>4. PICK z : z = [q EXCEPT !.at = @ + 1]
  OBVIOUS
<1>5. /\ z \in [at : Nat, order : {o}, interfaces : {J}, sections : Nat, result : {"none"}]
      /\ z.at = ngReader.at + 1 /\ z.interfaces = ngReader.interfaces /\ z.sections = ngReader.sections
      /\ z.interfaces = J
  BY <1>3, <1>4
<1>6. "none" \in Results /\ "invalid" \in Results /\ "unsupported" \in Results
  BY DEF Results
<1>7. CASE b.type # "section" /\ q.order # b.order
  <2>1. n = [q EXCEPT !.result = "invalid"]
    BY <1>2, <1>3, <1>7 DEF NG!NextBlock
  <2>2. n \in [at : Nat, order : {o}, interfaces : {J}, sections : Nat, result : {"invalid"}]
    BY <1>3, <2>1
  <2>3. Invalid(ngReader, n)
    BY <1>3, <2>1 DEF Invalid
  <2>4. n \in [at : Nat, order : {o}, interfaces : {J}, sections : Nat, result : Results]
    BY <1>6, <2>2
  <2> QED
    BY <2>3, <2>4 DEF Becomes, IsReader
<1>8. CASE ~(b.type # "section" /\ q.order # b.order) /\ b.type = "section"
  <2>1. PICK bo : bo = b.order
    OBVIOUS
  <2>2. PICK e : e = <<>>
    OBVIOUS
  <2>3. n = [z EXCEPT !.order = bo, !.interfaces = e, !.sections = @ + 1]
    BY <1>2, <1>3, <1>4, <1>8, <2>1, <2>2 DEF NG!NextBlock
  <2>a. PICK c \in Nat : c = z.sections + 1
    BY <1>5
  <2>b. n = [z EXCEPT !.order = bo, !.interfaces = e, !.sections = c]
    BY <1>5, <2>3, <2>a
  <2>4. /\ n \in [at : Nat, order : {bo}, interfaces : {e}, sections : Nat, result : {"none"}]
        /\ n.at = z.at /\ n.interfaces = e /\ n.sections = c
    BY <1>5, <2>a, <2>b
  <2>5. NewSection(ngReader, n)
    BY <1>5, <2>2, <2>4, <2>a DEF NewSection
  <2>6. n \in [at : Nat, order : {bo}, interfaces : {e}, sections : Nat, result : Results]
    BY <1>6, <2>4
  <2> QED
    BY <1>8, <2>5, <2>6 DEF Becomes, IsReader
<1>9. CASE ~(b.type # "section" /\ q.order # b.order) /\ b.type = "packet"
  <2>1. n = z
    BY <1>2, <1>3, <1>4, <1>9 DEF NG!NextBlock
  <2>2. APacket(ngReader, n)
    BY <1>5, <2>1 DEF APacket
  <2>3. n \in [at : Nat, order : {o}, interfaces : {J}, sections : Nat, result : Results]
    BY <1>5, <1>6, <2>1
  <2> QED
    BY <1>9, <2>2, <2>3 DEF Becomes, IsReader
<1>10. CASE ~(b.type # "section" /\ q.order # b.order) /\ b.type = "other"
  <2>1. n = [z EXCEPT !.result = "unsupported"]
    BY <1>2, <1>3, <1>4, <1>10 DEF NG!NextBlock
  <2>2. Unsupported(ngReader, n)
    BY <1>5, <2>1 DEF Unsupported
  <2>3. n \in [at : Nat, order : {o}, interfaces : {J}, sections : Nat, result : Results]
    BY <1>5, <1>6, <2>1
  <2> QED
    BY <1>10, <2>2, <2>3 DEF Becomes, IsReader
<1>11. CASE ~(b.type # "section" /\ q.order # b.order) /\ b.type = "interface"
  <2>1. PICK v : v = Append(ngReader.interfaces, NG!parseInterface(b))
    OBVIOUS
  <2>2. n = [z EXCEPT !.interfaces = v]
    BY <1>2, <1>3, <1>4, <1>5, <1>11, <2>1 DEF NG!NextBlock
  <2>3. AnInterface(ngReader, b, n)
    BY <1>5, <2>1, <2>2 DEF AnInterface
  <2>4. n \in [at : Nat, order : {o}, interfaces : {v}, sections : Nat, result : {"none"}]
    BY <1>5, <2>2
  <2>5. n \in [at : Nat, order : {o}, interfaces : {v}, sections : Nat, result : Results]
    BY <1>6, <2>4
  <2> QED
    BY <1>11, <2>3, <2>5 DEF Becomes, IsReader
<1> QED
  BY <1>7, <1>8, <1>9, <1>10, <1>11

LEMMA ReaderGoesOn ==
    ASSUME NEW kn, NEW f, NEW s, NGFile(kn, f, s), NEW r, NEW g, ReaderIs(kn, f, s, r, g), r.at <= Len(f),
           NEW b, b = f[r.at], NEW n, Becomes(r, b, n), ~(b.type = "packet" /\ APacket(r, n))
    PROVE  ReaderIs(kn, f, s, n, g)
<1>1. PICK at : at = r.at
  OBVIOUS
<1>2. /\ at \in 1..Len(f) + 1 /\ IsSeq(r.interfaces) /\ Len(r.interfaces) = Len(kn[at])
      /\ \A i \in 1..Len(r.interfaces) : Matches(r.interfaces[i], kn[at][i])
      /\ IsSeq(g) /\ Len(g) = Before(f, at - 1) /\ \A i \in 1..Len(g) : GotMatches(g[i], s[i])
  BY <1>1 DEF ReaderIs
<1>3. Len(f) \in Nat /\ at \in 1..Len(f) /\ at - 1 \in Nat /\ (at - 1) + 1 = at /\ at + 1 \in 1..Len(f) + 1
      /\ (at + 1) - 1 = at
  BY <1>1, <1>2, SMTT(30) DEF NGFile, IsSeq
<1>4. Continues(kn[at], b, kn[at + 1]) /\ IsSeq(kn[at])
  BY <1>1, <1>2, <1>3 DEF NGFile, Known
<1>5. b.type # "packet" => Before(f, (at + 1) - 1) = Before(f, at - 1)
  BY <1>1, <1>3, BeforeNext, SMTT(30)
<1>6. ASSUME b.type # "packet", n.at = at + 1, IsSeq(n.interfaces), Len(n.interfaces) = Len(kn[at + 1]),
             \A i \in 1..Len(n.interfaces) : Matches(n.interfaces[i], kn[at + 1][i])
      PROVE  ReaderIs(kn, f, s, n, g)
  BY <1>2, <1>3, <1>5, <1>6 DEF ReaderIs
<1>7. CASE Invalid(r, n)
  BY <1>1, <1>2, <1>7 DEF Invalid, ReaderIs
<1>8. CASE b.type = "section" /\ NewSection(r, n)
  <2>1. PICK e : e = <<>>
    OBVIOUS
  <2>2. n.interfaces = e /\ n.at = at + 1 /\ kn[at + 1] = e
    BY <1>1, <1>4, <1>8, <2>1 DEF NewSection, Continues
  <2>3. Len(e) = 0 /\ IsSeq(e)
    <3>1. <<>> \in Seq({}) /\ Len(<<>>) = 0
      OBVIOUS
    <3> QED
      BY <2>1, <3>1 DEF IsSeq
  <2> QED
    BY <1>6, <1>8, <2>2, <2>3
<1>9. CASE b.type = "other" /\ Unsupported(r, n)
  <2>1. n.interfaces = r.interfaces /\ n.at = at + 1 /\ kn[at + 1] = kn[at]
    BY <1>1, <1>4, <1>9 DEF Unsupported, Continues
  <2> QED
    BY <1>2, <1>6, <1>9, <2>1
<1>10. CASE b.type = "interface" /\ AnInterface(r, b, n)
  <2>1. PICK e : e = NG!parseInterface(b)
    OBVIOUS
  <2>2. n.interfaces = Append(r.interfaces, e) /\ n.at = at + 1
    BY <1>1, <1>10, <2>1 DEF AnInterface
  <2>3. PICK info : kn[at + 1] = Append(kn[at], info) /\ Matches(e, info)
    BY <1>4, <1>10, <2>1 DEF Continues
  <2>4. PICK m \in Nat : m = Len(r.interfaces)
    BY <1>2 DEF IsSeq
  <2>5. /\ IsSeq(n.interfaces) /\ Len(n.interfaces) = m + 1 /\ n.interfaces[m + 1] = e
        /\ \A i \in 1..m : n.interfaces[i] = r.interfaces[i]
    <3>1. IsSeq(r.interfaces) /\ n.interfaces = Append(r.interfaces, e)
      BY <1>2, <2>2
    <3>2. Extended(r.interfaces, e, n.interfaces)
      BY <3>1, Appended
    <3> QED
      BY <2>4, <3>2 DEF Extended
  <2>6. /\ Len(kn[at + 1]) = m + 1 /\ kn[at + 1][m + 1] = info
        /\ \A i \in 1..m : kn[at + 1][i] = kn[at][i]
    <3>1. Extended(kn[at], info, kn[at + 1])
      BY <1>4, <2>3, Appended
    <3> QED
      BY <1>2, <2>4, <3>1 DEF Extended
  <2>7. ASSUME NEW i \in 1..Len(n.interfaces) PROVE Matches(n.interfaces[i], kn[at + 1][i])
    <3>1. CASE i = m + 1
      BY <2>3, <2>5, <2>6, <3>1
    <3>2. CASE i \in 1..m
      BY <1>2, <2>4, <2>5, <2>6, <3>2
    <3>3. i = m + 1 \/ i \in 1..m
      BY <2>4, <2>5
    <3> QED
      BY <3>1, <3>2, <3>3
  <2> QED
    BY <1>6, <1>10, <2>2, <2>5, <2>6, <2>7
<1> QED
  BY <1>7, <1>8, <1>9, <1>10 DEF Becomes

\* Packet pkt is what ReadPacket makes of block b, with interface pkt.id of Reader n.
Returned(n, b, pkt) ==
    /\ IsSeq(n.interfaces) /\ pkt.id \in 0..Len(n.interfaces) - 1 /\ pkt.info = n.interfaces[pkt.id + 1]
    /\ pkt.info.tsRes # NG!None /\ b.ts \in Nat /\ pkt.time = NG!Timestamp(b.ts, pkt.info.tsRes)

LEMMA PacketRead ==
    ASSUME NEW kn, NEW f, NEW s, NGFile(kn, f, s), NEW r, NEW g, ReaderIs(kn, f, s, r, g), r.at <= Len(f),
           f[r.at].type = "packet", NEW n, APacket(r, n), NEW h, Extended(g, NG!Packet(n, f[r.at]), h)
    PROVE  ReaderIs(kn, f, s, n, h) /\ Returned(n, f[r.at], NG!Packet(n, f[r.at]))
<1>b. PICK b : b = f[r.at]
  OBVIOUS
<1>p. PICK pkt : pkt = NG!Packet(n, b)
  OBVIOUS
<1>1. PICK at : at = r.at
  OBVIOUS
<1>2. /\ at \in 1..Len(f) + 1 /\ IsSeq(r.interfaces) /\ Len(r.interfaces) = Len(kn[at])
      /\ \A i \in 1..Len(r.interfaces) : Matches(r.interfaces[i], kn[at][i])
      /\ IsSeq(g) /\ Len(g) = Before(f, at - 1) /\ \A i \in 1..Len(g) : GotMatches(g[i], s[i])
  BY <1>1 DEF ReaderIs
<1>3. Len(f) \in Nat /\ at \in 1..Len(f) /\ at - 1 \in Nat /\ (at - 1) + 1 = at /\ at + 1 \in 1..Len(f) + 1
      /\ (at + 1) - 1 = at
  <2>1. Len(f) \in Nat
    BY DEF NGFile, IsSeq
  <2>2. at <= Len(f)
    BY <1>1
  <2> QED
    BY <1>2, <2>1, <2>2
<1>4. Continues(kn[at], b, kn[at + 1]) /\ IsSeq(kn[at])
  BY <1>1, <1>2, <1>3, <1>b DEF NGFile, Known
<1>5. n.at = at + 1 /\ n.interfaces = r.interfaces /\ kn[at + 1] = kn[at]
  BY <1>1, <1>4, <1>b DEF APacket, Continues
<1>6. PICK j : j = Before(f, at)
  OBVIOUS
<1>7. j = Len(g) + 1 /\ Len(g) \in Nat
  BY <1>1, <1>2, <1>3, <1>6, <1>b, BeforeNext, SMTT(30)
<1>8. PICK t : t = s[j]
  OBVIOUS
<1>9. WrittenFor(kn[at], b, t)
  BY <1>1, <1>3, <1>6, <1>8, <1>b DEF NGFile, PacketsAre
<1>10. PICK id \in Nat : id = b.interfaceID
  BY <1>9 DEF WrittenFor, Written
<1>11. id + 1 \in 1..Len(n.interfaces) /\ t.info = kn[at][id + 1] /\ Len(n.interfaces) \in Nat
  BY <1>2, <1>5, <1>9, <1>10, SMTT(30) DEF WrittenFor, IsSeq
<1>12. PICK info : info = n.interfaces[id + 1]
  OBVIOUS
<1>13. Matches(info, t.info)
  BY <1>2, <1>5, <1>11, <1>12
<1>14. b.interfaceID < Len(n.interfaces)
  BY <1>10, <1>11
<1>15. PICK c, o, v : c = b.capturedLen /\ o = b.originalLen /\ v = NG!Timestamp(b.ts, info.tsRes)
  OBVIOUS
<1>16. pkt = [id |-> id, info |-> info, capturedLen |-> c, originalLen |-> o, time |-> v]
  BY <1>10, <1>12, <1>14, <1>15, <1>p DEF NG!Packet
<1>17. pkt.id = id /\ pkt.info = info /\ pkt.capturedLen = c /\ pkt.originalLen = o /\ pkt.time = v
  BY <1>16
<1>18. b.ts \in Nat /\ id \in 0..Len(n.interfaces) - 1 /\ info.tsRes # NG!None
  BY <1>9, <1>10, <1>11, <1>13 DEF WrittenFor, Written, Matches
<1>19. GotMatches(pkt, t)
  <2>1. Written(b, t)
    BY <1>9 DEF WrittenFor
  <2>2. pkt.id = t.id /\ pkt.capturedLen = NG!capturedLen(t.info, t.packet.len) /\ pkt.originalLen = t.packet.len
    BY <1>10, <1>15, <1>17, <2>1 DEF Written
  <2>3. ASSUME ~NG!Contradicted(t.info)
        PROVE  pkt.time = [sec |-> t.packet.sec, nsec |-> (t.packet.nsec \div t.info.tsRes) * t.info.tsRes]
    <3>1. info.tsRes = t.info.tsRes
      BY <1>13, <2>3 DEF Matches
    <3> QED
      BY <1>15, <1>17, <2>1, <3>1 DEF Written
  <2> QED
    BY <1>13, <1>17, <2>2, <2>3 DEF GotMatches
<1>20. /\ IsSeq(h) /\ Len(h) = j /\ h[j] = pkt /\ \A i \in 1..Len(g) : h[i] = g[i]
  BY <1>7, <1>b, <1>p DEF Extended
<1>21. ASSUME NEW i \in 1..Len(h) PROVE GotMatches(h[i], s[i])
  <2>1. CASE i = j
    BY <1>8, <1>19, <1>20, <2>1
  <2>2. CASE i \in 1..Len(g)
    BY <1>2, <1>20, <2>2
  <2>3. i = j \/ i \in 1..Len(g)
    BY <1>7, <1>20
  <2> QED
    BY <2>1, <2>2, <2>3
<1>22. ReaderIs(kn, f, s, n, h)
  BY <1>2, <1>3, <1>5, <1>6, <1>20, <1>21 DEF ReaderIs
<1> QED
  BY <1>2, <1>5, <1>12, <1>15, <1>17, <1>18, <1>22, <1>b, <1>p DEF Returned

\* The copy after a block that is not a packet, and after one that is not kept.
LEMMA CopyGoesOn ==
    ASSUME NEW r, NEW g, NEW c, CopyIs(r, g, c), IsSeq(r.interfaces), r.sections \in Nat,
           NEW b, r.sections = 0 => b.type = "section",
           NEW n, Becomes(r, b, n), ~(b.type = "packet" /\ APacket(r, n))
    PROVE  CopyIs(n, g, c)
<1>1. /\ IsCopy(c) /\ IsSeq(c.writer.interfaces) /\ IsSeq(c.kept)
      /\ r.sections = 0 => c.idMap = {} /\ c.kept = <<>>
      /\ r.sections <= 1 => /\ \A m \in c.idMap : AddedAs(r.interfaces, c.writer.interfaces, m[1], m[2])
                            /\ \A i \in 1..Len(c.kept) : KeptAs(c.writer.interfaces, g, c.kept[i])
  BY DEF CopyIs, CopyHolds
<1>2. ASSUME n.sections = r.sections, n.interfaces = r.interfaces PROVE CopyIs(n, g, c)
  BY <1>1, <1>2 DEF CopyIs, CopyHolds
<1>3. CASE Invalid(r, n)
  BY <1>2, <1>3 DEF Invalid
<1>4. CASE b.type = "other" /\ Unsupported(r, n)
  BY <1>2, <1>4 DEF Unsupported
<1>5. CASE b.type = "section" /\ NewSection(r, n)
  <2>1. n.sections = r.sections + 1 /\ n.sections # 0
    BY <1>5 DEF NewSection
  <2>2. CASE r.sections = 0
    <3>1. \A m \in c.idMap : AddedAs(n.interfaces, c.writer.interfaces, m[1], m[2])
      BY <1>1, <2>2
    <3>2. 1..Len(c.kept) = {}
      <4>1. Len(<<>>) = 0 /\ 1..0 = {}
        OBVIOUS
      <4> QED
        BY <1>1, <2>2, <4>1
    <3> QED
      BY <1>1, <2>1, <3>1, <3>2 DEF CopyIs, CopyHolds
  <2>3. CASE r.sections # 0
    <3>1. ~ (n.sections <= 1)
      BY <2>1, <2>3
    <3> QED
      BY <1>1, <2>1, <3>1 DEF CopyIs
  <2> QED
    BY <2>2, <2>3
<1>6. CASE b.type = "interface" /\ AnInterface(r, b, n)
  <2>1. n.sections = r.sections /\ n.sections # 0
    BY <1>6 DEF AnInterface
  <2>2. Extended(r.interfaces, NG!parseInterface(b), n.interfaces)
    BY <1>6, Appended DEF AnInterface
  <2>3. ASSUME NEW ci, NEW from, NEW to, AddedAs(r.interfaces, ci, from, to) PROVE AddedAs(n.interfaces, ci, from, to)
    <3>1. from \in 0..Len(r.interfaces) - 1
      BY <2>3 DEF AddedAs
    <3>2. from + 1 \in 1..Len(r.interfaces) /\ from \in 0..Len(n.interfaces) - 1
      BY <2>2, <3>1 DEF Extended
    <3>3. n.interfaces[from + 1] = r.interfaces[from + 1]
      BY <2>2, <3>2 DEF Extended
    <3> QED
      BY <2>3, <3>2, <3>3 DEF AddedAs
  <2> QED
    BY <1>1, <2>1, <2>3 DEF CopyIs, CopyHolds
<1> QED
  BY <1>3, <1>4, <1>5, <1>6 DEF Becomes

LEMMA CopySkips ==
    ASSUME NEW r, NEW g, NEW c, CopyIs(r, g, c), r.sections # 0, NEW n, APacket(r, n), NEW pkt, NEW h, Extended(g, pkt, h)
    PROVE  CopyIs(n, h, c)
<1>1. /\ IsCopy(c) /\ IsSeq(c.writer.interfaces) /\ IsSeq(c.kept)
      /\ r.sections <= 1 => /\ \A m \in c.idMap : AddedAs(r.interfaces, c.writer.interfaces, m[1], m[2])
                            /\ \A i \in 1..Len(c.kept) : KeptAs(c.writer.interfaces, g, c.kept[i])
  BY DEF CopyIs, CopyHolds
<1>2. n.sections = r.sections /\ n.interfaces = r.interfaces
  BY DEF APacket
<1>3. ASSUME NEW ci, NEW k, KeptAs(ci, g, k) PROVE KeptAs(ci, h, k)
  <2>1. k.of \in 1..Len(g) /\ KeptTo(ci, g[k.of], k.block.interfaceID, k.block.ts)
    BY <1>3 DEF KeptAs
  <2>2. k.of \in 1..Len(h) /\ h[k.of] = g[k.of]
    BY <2>1 DEF Extended
  <2> QED
    BY <2>1, <2>2 DEF KeptAs
<1> QED
  BY <1>1, <1>2, <1>3 DEF CopyIs, CopyHolds

\* The copy after a packet for which there is an interface.
LEMMA CopyKeeps ==
    ASSUME NEW n, NEW h, NEW c, CopyIs(n, h, c), n.sections # 0, IsSeq(n.interfaces),
           Len(h) \in Nat, Len(h) = Len(ngGot) + 1, Len(h) >= 1,
           NEW pkt, h[Len(h)] = pkt, pkt.id \in 0..Len(n.interfaces) - 1, pkt.info = n.interfaces[pkt.id + 1],
           pkt.info.tsRes # NG!None, NEW v \in Nat, pkt.time = NG!Timestamp(v, pkt.info.tsRes),
           NEW x, x = NG!WithInterface(c, pkt), x.ok, NEW keep \in BOOLEAN, NEW d, d = NG!FilterCopy(x.c, pkt, keep)
    PROVE  CopyIs(n, h, d)
<1>1. /\ IsCopy(c) /\ IsSeq(c.writer.interfaces) /\ IsSeq(c.kept)
      /\ n.sections <= 1 => CopyHolds(n.interfaces, h, c)
  BY DEF CopyIs
<1>2. PICK y : y = x.c
  OBVIOUS
<1>3. PICK ri, id : ri = n.interfaces /\ id = pkt.id
  BY ONLY TRUE
<1>a. Interfaced(c, y, pkt)
  BY <1>1, <1>2, InterfaceAdded
<1>4. /\ IsCopy(y) /\ y.kept = c.kept /\ IsSeq(y.writer.interfaces) /\ IsSeq(y.kept)
      /\ InterfaceFor(c, y, id, ri[id + 1]) /\ id \in 0..Len(ri) - 1 /\ IsSeq(ri)
  BY <1>1, <1>3, <1>a DEF Interfaced
<1>5. n.sections <= 1 => CopyHolds(ri, h, y) /\ \E m \in y.idMap : m[1] = id
  BY <1>1, <1>3, <1>4, InterfaceIsAdded
<1>6. CASE ~keep
  <2>1. d = y
    BY <1>2, <1>6 DEF NG!FilterCopy
  <2> QED
    BY <1>3, <1>4, <1>5, <2>1 DEF CopyIs, CopyHolds
<1>7. CASE keep
  <2>1. PICK newID : newID = (CHOOSE m \in y.idMap : m[1] = id)[2]
    OBVIOUS
  <2>2. PICK p : p = [len |-> pkt.capturedLen, sec |-> pkt.time.sec, nsec |-> pkt.time.nsec]
    OBVIOUS
  <2>3. PICK block : block = NG!EnhancedPacket(y.writer, newID, p)
    OBVIOUS
  <2>4. PICK k : k = [of |-> Len(ngGot) + 1, block |-> block]
    OBVIOUS
  <2>5. PICK q : q = Append(y.kept, k)
    OBVIOUS
  <2>6. d = [y EXCEPT !.kept = q]
    BY <1>2, <1>3, <1>7, <2>1, <2>2, <2>3, <2>4, <2>5 DEF NG!FilterCopy
  <2>7. PICK m, w, l : y \in [on : BOOLEAN, idMap : {m}, writer : {w}, kept : {l}] /\ IsWriter(w)
    BY <1>4 DEF IsCopy
  <2>8. /\ d \in [on : BOOLEAN, idMap : {m}, writer : {w}, kept : {q}]
        /\ d.idMap = y.idMap /\ d.writer = y.writer /\ d.kept = q
    BY <2>6, <2>7
  <2>9. IsCopy(d)
    BY <2>7, <2>8 DEF IsCopy
  <2>10. Extended(y.kept, k, q)
    BY <1>4, <2>5, Appended
  <2>11. p.sec = pkt.time.sec /\ p.nsec = pkt.time.nsec /\ k.of = Len(h) /\ k.block = block
    BY <2>2, <2>4
  <2>12. /\ block.interfaceID = newID
         /\ block.ts = NG!encodeTimestamp(p, y.writer.interfaces[newID + 1].tsRes)
    BY <2>3 DEF NG!EnhancedPacket
  <2>13. ASSUME n.sections <= 1 PROVE KeptAs(y.writer.interfaces, h, k)
    <3>1. PICK ci : ci = y.writer.interfaces
      OBVIOUS
    <3>2. PICK as \in y.idMap : as[1] = id /\ as[2] = newID
      BY <1>5, <2>1, <2>13
    <3>3. AddedAs(ri, ci, id, newID)
      BY <1>5, <2>13, <3>1, <3>2 DEF CopyHolds
    <3>4. /\ newID \in 0..Len(ci) - 1 /\ ci[newID + 1].linkType = pkt.info.linkType
          /\ ci[newID + 1].tsRes = pkt.info.tsRes /\ ci[newID + 1].tsRes \in {1, 1000}
      BY <1>3, <3>3 DEF AddedAs
    <3>5. PICK r \in {1, 1000} : r = ci[newID + 1].tsRes /\ r = pkt.info.tsRes
      BY <3>4
    <3>6. p.sec = NG!Timestamp(v, r).sec /\ p.nsec = NG!Timestamp(v, r).nsec
      BY <2>11, <3>5
    <3>7. block.ts = v
      BY <2>12, <3>1, <3>5, <3>6, TimeKept, SMTT(30)
    <3>8. k.of \in 1..Len(h) /\ h[k.of] = pkt
      BY <2>11
    <3>9. KeptTo(ci, pkt, newID, v)
      BY <3>4, <3>5 DEF KeptTo
    <3> QED
      BY <2>11, <2>12, <3>1, <3>7, <3>8, <3>9 DEF KeptAs
  <2>14. ASSUME n.sections <= 1, NEW i \in 1..Len(q) PROVE KeptAs(y.writer.interfaces, h, q[i])
    <3>1. CASE i = Len(y.kept) + 1
      BY <2>10, <2>13, <2>14, <3>1 DEF Extended
    <3>2. CASE i \in 1..Len(y.kept)
      BY <1>5, <2>10, <2>14, <3>2 DEF Extended, CopyHolds
    <3>3. i = Len(y.kept) + 1 \/ i \in 1..Len(y.kept)
      BY <2>10 DEF Extended
    <3> QED
      BY <3>1, <3>2, <3>3
  <2>15. IsSeq(q)
    BY <2>10 DEF Extended
  <2> QED
    BY <1>3, <1>4, <1>5, <2>8, <2>9, <2>14, <2>15 DEF CopyIs, CopyHolds
<1> QED
  BY <1>6, <1>7

LEMMA NGReadBlock == ASSUME NGInv, NG!ReadBlock PROVE NGInv'
<1>1. PICK kn : NGKnown(kn)
  BY DEF NGInv
<1>2. /\ ngEnded # "writing" /\ ngEnded' = ngEnded /\ ngSent' = ngSent /\ ngWriter' = ngWriter /\ ngFile' = ngFile
      /\ ngReader.at <= Len(ngFile)
  BY DEF NG!ReadBlock, NG!reading
<1>3. PICK n : n = NG!NextBlock([ngReader EXCEPT !.result = "none"])
  OBVIOUS
<1>4. PICK b : b = ngFile[ngReader.at]
  OBVIOUS
<1>5. PICK pkt : pkt = NG!Packet(n, b)
  OBVIOUS
<1>6. PICK x : x = NG!WithInterface(copy, pkt)
  OBVIOUS
<1>7. IF b.type # "packet" \/ n.result # "none" THEN ngReader' = n /\ copy' = copy /\ ngGot' = ngGot
      ELSE /\ ngGot' = Append(ngGot, pkt)
           /\ IF ~copy.on THEN ngReader' = n /\ copy' = copy
              ELSE IF ~x.ok THEN ngReader' = [n EXCEPT !.result = "refused"] /\ copy' = copy
              ELSE ngReader' = n /\ \E keep \in BOOLEAN : copy' = NG!FilterCopy(x.c, pkt, keep)
  BY <1>3, <1>4, <1>5, <1>6 DEF NG!ReadBlock
<1>8. NGFile(kn, ngFile, ngSent) /\ ReaderIs(kn, ngFile, ngSent, ngReader, ngGot)
  BY <1>1 DEF NGKnown
<1>9. IsReader(ngReader) /\ (ngReader.sections = 0 => ngReader.at = 1)
  BY DEF NGInv, NGTypes
<1>10. ngReader.at \in 1..Len(ngFile) /\ Len(ngFile) \in Nat /\ IsSeq(ngReader.interfaces)
  <2>1. ngReader.at \in 1..Len(ngFile) + 1 /\ IsSeq(ngReader.interfaces)
    BY <1>8 DEF ReaderIs
  <2>2. Len(ngFile) \in Nat
    BY <1>8 DEF NGFile, IsSeq
  <2> QED
    BY <1>2, <2>1, <2>2
<1>11. b.type \in {"section", "interface", "packet", "other"}
  BY <1>4, <1>8, <1>10 DEF NGFile, Known, Continues
<1>12. ngReader.sections = 0 => b.type = "section"
  <2> SUFFICES ASSUME ngReader.sections = 0 PROVE b.type = "section"
    OBVIOUS
  <2>1. ngReader.at = 1
    BY <1>9
  <2>2. ngFile # <<>>
    BY <1>10 DEF IsSeq
  <2> QED
    BY <1>4, <1>8, <2>1, <2>2 DEF NGFile, Known
<1>13. IsReader(n) /\ Becomes(ngReader, b, n)
  BY <1>3, <1>4, <1>9, <1>11, BlockRead
<1>14. ngReader.sections \in Nat
  BY <1>9 DEF IsReader
<1>15. n.result \in {"none", "invalid", "unsupported"} /\ (n.sections = 0 => n.at = 1)
  <2>1. n.result \in {"none", "invalid", "unsupported"}
    BY <1>13 DEF Becomes, Invalid, NewSection, APacket, Unsupported, AnInterface
  <2>2. ngReader.sections = 0 => n.at = ngReader.at \/ n.sections = ngReader.sections + 1
    BY <1>12, <1>13 DEF Becomes, Invalid, NewSection
  <2>3. n.sections = ngReader.sections \/ n.sections = ngReader.sections + 1
    BY <1>13 DEF Becomes, Invalid, NewSection, APacket, Unsupported, AnInterface
  <2> QED
    BY <1>9, <1>14, <2>1, <2>2, <2>3
<1>16. CopyIs(ngReader, ngGot, copy)
  BY DEF NGInv
<1>17. ASSUME IsReader(ngReader'), ngReader'.sections = n.sections, ngReader'.at = n.at,
              ngReader'.result \in {"none", "invalid", "unsupported", "refused"},
              ReaderIs(kn, ngFile, ngSent, ngReader', ngGot'), CopyIs(ngReader', ngGot', copy')
       PROVE  NGInv'
  <2>1. NGTypes'
    BY <1>2, <1>15, <1>17 DEF NGInv, NGTypes
  <2>2. NGKnown(kn)'
    BY <1>2, <1>8, <1>17 DEF NGKnown
  <2> QED
    BY <1>17, <2>1, <2>2 DEF NGInv
<1>18. CASE b.type # "packet" \/ n.result # "none"
  <2>1. ngReader' = n /\ copy' = copy /\ ngGot' = ngGot
    BY <1>7, <1>18
  <2>2. ~(b.type = "packet" /\ APacket(ngReader, n))
    BY <1>18 DEF APacket
  <2>3. ReaderIs(kn, ngFile, ngSent, n, ngGot)
    BY <1>2, <1>4, <1>8, <1>13, <2>2, ReaderGoesOn
  <2>4. CopyIs(n, ngGot, copy)
    BY <1>10, <1>12, <1>13, <1>14, <1>16, <2>2, CopyGoesOn
  <2> QED
    BY <1>13, <1>15, <1>17, <2>1, <2>3, <2>4
<1>19. CASE b.type = "packet" /\ n.result = "none"
  <2>1. PICK h : h = Append(ngGot, pkt)
    OBVIOUS
  <2>2. APacket(ngReader, n)
    BY <1>13, <1>19 DEF Becomes, Invalid
  <2>a. IsSeq(ngGot)
    BY <1>8 DEF ReaderIs
  <2>4. Extended(ngGot, pkt, h)
    BY <2>1, <2>a, Appended
  <2>b. ReaderIs(kn, ngFile, ngSent, n, h) /\ Returned(n, b, pkt)
    BY <1>2, <1>4, <1>5, <1>8, <1>19, <2>2, <2>4, PacketRead
  <2>3. /\ ReaderIs(kn, ngFile, ngSent, n, h) /\ IsSeq(n.interfaces)
        /\ pkt.id \in 0..Len(n.interfaces) - 1 /\ pkt.info = n.interfaces[pkt.id + 1]
        /\ pkt.info.tsRes # NG!None /\ b.ts \in Nat /\ pkt.time = NG!Timestamp(b.ts, pkt.info.tsRes)
    BY <2>b DEF Returned
  <2>5. ngReader.sections # 0
    BY <1>12, <1>19
  <2>6. CopyIs(n, h, copy)
    BY <1>16, <2>2, <2>4, <2>5, CopySkips
  <2>7. ngGot' = h
    BY <1>7, <1>19, <2>1
  <2>8. CASE ~copy.on
    <3>1. ngReader' = n /\ copy' = copy
      BY <1>7, <1>19, <2>8
    <3> QED
      BY <1>13, <1>15, <1>17, <2>3, <2>6, <2>7, <3>1
  <2>9. CASE copy.on /\ ~x.ok
    <3>1. ngReader' = [n EXCEPT !.result = "refused"] /\ copy' = copy
      BY <1>7, <1>19, <2>9
    <3>2. PICK J, o : n \in [at : Nat, order : {o}, interfaces : {J}, sections : Nat, result : Results]
      BY <1>13 DEF IsReader
    <3>3. /\ ngReader' \in [at : Nat, order : {o}, interfaces : {J}, sections : Nat, result : {"refused"}]
          /\ ngReader'.at = n.at /\ ngReader'.interfaces = n.interfaces /\ ngReader'.sections = n.sections
          /\ ngReader'.result = "refused"
      BY <3>1, <3>2
    <3>4. IsReader(ngReader')
      <4>1. ngReader' \in [at : Nat, order : {o}, interfaces : {J}, sections : Nat, result : Results]
        BY <3>3 DEF Results
      <4> QED
        BY <4>1 DEF IsReader
    <3>5. ReaderIs(kn, ngFile, ngSent, ngReader', h)
      BY <2>3, <3>3 DEF ReaderIs
    <3>6. CopyIs(ngReader', h, copy)
      BY <2>6, <3>3 DEF CopyIs
    <3> QED
      BY <1>17, <2>7, <3>1, <3>3, <3>4, <3>5, <3>6
  <2>10. CASE copy.on /\ x.ok
    <3>1. ngReader' = n
      BY <1>7, <1>19, <2>10
    <3>2. PICK keep \in BOOLEAN : copy' = NG!FilterCopy(x.c, pkt, keep)
      BY <1>7, <1>19, <2>10
    <3>3. n.sections # 0
      BY <2>2, <2>5 DEF APacket
    <3>4. Len(h) \in Nat /\ Len(h) = Len(ngGot) + 1 /\ Len(h) >= 1 /\ h[Len(h)] = pkt
      BY <2>4 DEF Extended
    <3>5. PICK d : d = NG!FilterCopy(x.c, pkt, keep)
      OBVIOUS
    <3>6. CopyIs(n, h, d)
      BY <1>6, <2>3, <2>6, <2>10, <3>3, <3>4, <3>5, CopyKeeps
    <3> QED
      BY <1>13, <1>15, <1>17, <2>3, <2>7, <3>1, <3>2, <3>5, <3>6
  <2> QED
    BY <2>8, <2>9, <2>10
<1> QED
  BY <1>15, <1>18, <1>19

LEMMA NGStep == NGInv /\ [NG!PcapNGNext]_ngVars => NGInv'
<1> SUFFICES ASSUME NGInv, [NG!PcapNGNext]_ngVars PROVE NGInv'
  OBVIOUS
<1>1. CASE UNCHANGED ngVars
  <2>1. UNCHANGED <<ngWriter, ngFile, ngEnded, ngReader, copy, ngSent, ngGot>>
    BY <1>1 DEF ngVars
  <2>2. PICK kn : NGKnown(kn)
    BY DEF NGInv
  <2>3. NGKnown(kn)'
    BY <2>1, <2>2 DEF NGKnown
  <2>4. NGTypes' /\ CopyIs(ngReader, ngGot, copy)'
    BY <2>1 DEF NGInv, NGTypes
  <2> QED
    BY <2>3, <2>4 DEF NGInv
<1> QED
  BY <1>1, NGNewWriter, NGWriteInterface, NGWritePacket, NGWriteForeign, NGClose, NGDie, NGStartFilterCopy,
     NGReadBlock, NGReadEnd DEF NG!PcapNGNext

\* gnet/pcap, gnet/pcapng: a Reader returns the packets that were written, in their
\* order, of the right interface, with the time rounded to its resolution, over all
\* sections, byte orders and places where the file was cut; and a packet FilterCopy
\* keeps has the time and the link type it had, in a file of a single section.
THEOREM FilesReadBack == Spec => []ReadsBack
<1>1. Init => PcapInv /\ NGInv
  BY PcapStart, NGStart
<1>2. PcapInv /\ NGInv /\ [Next]_vars => PcapInv' /\ NGInv'
  <2>1. [Next]_vars => [Classic!PcapNext]_pcapVars
    BY DEF Next, vars, Still, pcapVars
  <2>2. [Next]_vars => [NG!PcapNGNext]_ngVars
    BY DEF Next, vars, Still, ngVars
  <2> QED
    BY <2>1, <2>2, PcapStep, NGStep
<1>3. PcapInv /\ NGInv => ReadsBack
  BY PcapKeeps, NGKeeps DEF ReadsBack
<1> QED
  BY <1>1, <1>2, <1>3, PTL DEF Spec

-------------------------------------------------------------------------------
(***************************************************************************)
(* gsql: the statement ToSQL puts together.  With "?" placeholders no text  *)
(* is ever marked with a number, so strings.Replace always acts on the      *)
(* first token; a value put there leaves the text as it was, and what the   *)
(* first argument of a part wrote is never touched again in a way that      *)
(* matters.  Text and list then agree position by position.                 *)
(***************************************************************************)
Tokens == [hole : Int, mark : {0}]
Bindings == Int \X Nat
Given == [hole : Nat, arg : SQL!Arguments]

Paired(text, list) ==
    /\ text \in Seq(Tokens) /\ list \in Seq(Bindings) /\ Len(text) = Len(list)
    /\ \A t \in 1..Len(text) : list[t][1] = text[t].hole

\* After k arguments of a part: the list agrees with the text as far as it goes, and
\* the rest of the text is the rest of the part.
Ahead(text, list, words, k) ==
    /\ text \in Seq(Tokens) /\ list \in Seq(Bindings)
    /\ Len(text) = Len(list) + Len(words) - k /\ (k = 0 => Len(list) = 0)
    /\ \A t \in 1..Len(list) : list[t][1] = text[t].hole
    /\ \A j \in 1..Len(words) - k : text[Len(list) + j].hole = words[k + j].hole

LEMMA PairedJoin ==
    ASSUME NEW s, NEW x, Paired(s, x), NEW t, NEW y, Paired(t, y)
    PROVE  Paired(s \o t, x \o y)
<1>1. /\ s \in Seq(Tokens) /\ t \in Seq(Tokens) /\ x \in Seq(Bindings) /\ y \in Seq(Bindings)
      /\ Len(s) = Len(x) /\ Len(t) = Len(y) /\ Len(s) \in Nat /\ Len(t) \in Nat
  BY DEF Paired
<1>2. s \o t \in Seq(Tokens) /\ x \o y \in Seq(Bindings)
  BY <1>1, ConcatProperties
<1>3. /\ Len(s \o t) = Len(s) + Len(t) /\ Len(x \o y) = Len(x) + Len(y)
      /\ \A i \in 1..Len(s) + Len(t) : (s \o t)[i] = IF i <= Len(s) THEN s[i] ELSE t[i - Len(s)]
      /\ \A i \in 1..Len(x) + Len(y) : (x \o y)[i] = IF i <= Len(x) THEN x[i] ELSE y[i - Len(x)]
  BY <1>1, ConcatProperties
<1>4. ASSUME NEW i \in 1..Len(s) + Len(t) PROVE (x \o y)[i][1] = (s \o t)[i].hole
  <2>1. CASE i <= Len(s)
    <3>1. i \in 1..Len(s)
      BY <1>1, <2>1
    <3>2. (s \o t)[i] = s[i] /\ (x \o y)[i] = x[i]
      BY <1>1, <1>3, <1>4, <2>1
    <3> QED
      BY <3>1, <3>2 DEF Paired
  <2>2. CASE ~ (i <= Len(s))
    <3>1. i - Len(s) \in 1..Len(t)
      BY <1>1, <2>2
    <3>2. (s \o t)[i] = t[i - Len(s)] /\ (x \o y)[i] = y[i - Len(s)]
      BY <1>1, <1>3, <1>4, <2>2
    <3> QED
      BY <3>1, <3>2 DEF Paired
  <2> QED
    BY <2>1, <2>2
<1>5. PICK a, b : a = s \o t /\ b = x \o y
  OBVIOUS
<1>6. /\ a \in Seq(Tokens) /\ b \in Seq(Bindings) /\ Len(a) = Len(b) /\ Len(a) = Len(s) + Len(t)
      /\ \A i \in 1..Len(s) + Len(t) : b[i][1] = a[i].hole
  BY <1>1, <1>2, <1>3, <1>4, <1>5
<1>7. Paired(a, b)
  BY <1>6 DEF Paired
<1> QED
  BY <1>5, <1>7

LEMMA PairedBinds ==
    ASSUME NEW sql, Paired(sql.text, sql.list)
    PROVE  SQL!BindsRight(sql)
<1>1. PICK text, list : text = sql.text /\ list = sql.list
  OBVIOUS
<1>2. /\ text \in Seq(Tokens) /\ list \in Seq(Bindings) /\ Len(text) = Len(list)
      /\ \A t \in 1..Len(text) : list[t][1] = text[t].hole
  BY <1>1 DEF Paired
<1>3. \A t \in DOMAIN text : /\ text[t].mark = 0 /\ t \in DOMAIN list
                             /\ list[t][1] = text[t].hole
  <2>1. DOMAIN text = 1..Len(text) /\ DOMAIN list = 1..Len(text)
    BY <1>2
  <2>2. \A t \in 1..Len(text) : text[t] \in Tokens
    BY <1>2, ElementOfSeq
  <2> QED
    BY <1>2, <2>1, <2>2 DEF Tokens
<1> QED
  BY <1>1, <1>2, <1>3 DEF SQL!BindsRight

\* The first token of a text gives way to the s tokens of an argument.
Replaced(text, s, r) ==
    /\ r \in Seq(Tokens) /\ Len(r) = s + Len(text) - 1
    /\ \A j \in 1..s : r[j].hole = text[1].hole
    /\ \A j \in 1..Len(text) - 1 : r[s + j] = text[1 + j]

LEMMA ReplacesFirst ==
    ASSUME NEW text \in Seq(Tokens), text # <<>>, NEW s \in Nat
    PROVE  Replaced(text, s, SQL!ReplaceFirst(text, [j \in 1..s |-> 0]))
<1> DEFINE marks == [j \in 1..s |-> 0]
<1>1. PICK n \in Nat : n = Len(text) /\ n >= 1
  BY EmptySeq
<1>2. DOMAIN text = 1..n /\ \A i \in 1..n : text[i] \in Tokens
  BY <1>1, ElementOfSeq
<1>3. {i \in DOMAIN text : text[i].mark = 0} = 1..n
  BY <1>2 DEF Tokens
<1>4. SQL!Min(1..n) = 1
  <2>1. 1 \in 1..n /\ \A y \in 1..n : 1 <= y
    BY <1>1
  <2>2. \A x \in 1..n : (\A y \in 1..n : x <= y) => x = 1
    BY <2>1
  <2> QED
    BY <2>1, <2>2 DEF SQL!Min
<1>5. 1..n # {}
  BY <1>1
<1>6. PICK pre, mid, post : /\ pre = SubSeq(text, 1, 1 - 1) /\ post = SubSeq(text, 1 + 1, Len(text))
                            /\ mid = [j \in DOMAIN marks |-> [hole |-> text[1].hole, mark |-> marks[j]]]
  OBVIOUS
<1>7. SQL!ReplaceFirst(text, marks) = pre \o mid \o post
  BY <1>3, <1>4, <1>5, <1>6 DEF SQL!ReplaceFirst
<1>8. pre = <<>>
  BY <1>1, <1>6
<1>9. mid \in Seq(Tokens) /\ Len(mid) = s /\ \A j \in 1..s : mid[j].hole = text[1].hole
  <2>1. mid = [j \in 1..s |-> [hole |-> text[1].hole, mark |-> 0]]
    BY <1>6
  <2>2. [hole |-> text[1].hole, mark |-> 0] \in Tokens
    BY <1>1, <1>2 DEF Tokens
  <2>3. mid \in [1..s -> Tokens]
    BY <2>1, <2>2
  <2>4. mid \in Seq(Tokens)
    BY <2>3, SeqDef
  <2>5. Len(mid) = s
    BY <2>1, LenProperties, <2>4
  <2> QED
    BY <2>1, <2>4, <2>5
<1>10. post \in Seq(Tokens) /\ Len(post) = n - 1 /\ \A j \in 1..n - 1 : post[j] = text[1 + j]
  BY <1>1, <1>2, <1>6, SubSeqProperties
<1>11. pre \o mid = mid
  BY <1>8, <1>9, ConcatEmptySeq
<1>12. PICK r : r = mid \o post
  OBVIOUS
<1>13. /\ r \in Seq(Tokens) /\ Len(r) = s + (n - 1)
       /\ \A i \in 1..s + (n - 1) : r[i] = IF i <= s THEN mid[i] ELSE post[i - s]
  <2>1. /\ mid \o post \in Seq(Tokens) /\ Len(mid \o post) = Len(mid) + Len(post)
        /\ \A i \in 1..Len(mid) + Len(post) :
              (mid \o post)[i] = IF i <= Len(mid) THEN mid[i] ELSE post[i - Len(mid)]
    BY <1>9, <1>10, ConcatProperties
  <2>2. Len(mid) = s /\ Len(post) = n - 1
    BY <1>9, <1>10
  <2> QED
    BY ONLY <1>12, <2>1, <2>2
<1>14. \A j \in 1..s : r[j].hole = text[1].hole
  BY <1>1, <1>9, <1>13
<1>15. \A j \in 1..n - 1 : r[s + j] = text[1 + j]
  <2> SUFFICES ASSUME NEW j \in 1..n - 1 PROVE r[s + j] = text[1 + j]
    OBVIOUS
  <2>1. s + j \in 1..s + (n - 1) /\ ~ (s + j <= s) /\ (s + j) - s = j
    BY <1>1
  <2> QED
    BY <1>10, <1>13, <2>1
<1>16. SQL!ReplaceFirst(text, marks) = r
  BY <1>7, <1>11, <1>12
<1>17. Replaced(text, s, r)
  BY <1>1, <1>13, <1>14, <1>15 DEF Replaced
<1> QED
  BY <1>16, <1>17

\* One argument of a part.
Follows(x, before, words, k) ==
    \E list : x = [text |-> x.text, list |-> before \o list] /\ Ahead(x.text, list, words, k)

LEMMA Substituted ==
    ASSUME NEW text, NEW list, NEW before, NEW words \in Seq(Tokens), NEW k \in Nat, k < Len(words),
           Ahead(text, list, words, k), before \in Seq(Bindings), ~builder.numbered,
           NEW a \in Given, a.hole = words[k + 1].hole, k # 0 => a.arg.kind = "value"
    PROVE  Follows(SQL!Substitute([text |-> text, list |-> before \o list], a), before, words, k + 1)
<1>1. PICK n \in Nat : n = Len(words) /\ k < n
  OBVIOUS
<1>2. PICK s \in Nat : s = a.arg.size
  BY DEF Given, SQL!Arguments
<1>3. /\ text \in Seq(Tokens) /\ list \in Seq(Bindings) /\ Len(list) \in Nat /\ Len(text) \in Nat
      /\ Len(text) = Len(list) + n - k /\ (k = 0 => Len(list) = 0)
      /\ \A t \in 1..Len(list) : list[t][1] = text[t].hole
      /\ \A j \in 1..n - k : text[Len(list) + j].hole = words[k + j].hole
  <2>1. Ahead(text, list, words, k)
    OBVIOUS
  <2>2. text \in Seq(Tokens) /\ list \in Seq(Bindings)
    BY <2>1 DEF Ahead
  <2>3. Len(list) \in Nat /\ Len(text) \in Nat
    BY <2>2
  <2>4. Len(text) = Len(list) + n - k /\ (k = 0 => Len(list) = 0)
    BY ONLY <1>1, <2>1 DEF Ahead
  <2>5. \A t \in 1..Len(list) : list[t][1] = text[t].hole
    BY ONLY <2>1 DEF Ahead
  <2>6. \A j \in 1..n - k : text[Len(list) + j].hole = words[k + j].hole
    BY ONLY <1>1, <2>1 DEF Ahead
  <2> QED
    BY <2>2, <2>3, <2>4, <2>5, <2>6
<1>4. text # <<>>
  BY <1>1, <1>3, EmptySeq
<1>5. PICK marks : marks = SQL!Marks(Len(before \o list), a.arg)
  OBVIOUS
<1>6. marks = [j \in 1..s |-> 0]
  <2>1. \A i : SQL!Placeholder(i) = 0
    BY DEF SQL!Placeholder
  <2>2. a.arg.kind \in {"value", "slice", "sub"}
    BY DEF Given, SQL!Arguments
  <2> QED
    BY <1>2, <1>5, <2>1, <2>2 DEF SQL!Marks
<1>7. PICK vals : vals = SQL!Values(a)
  OBVIOUS
<1>8. vals \in Seq(Bindings) /\ Len(vals) = s /\ \A j \in 1..s : vals[j][1] = a.hole
  <2>1. vals = [j \in 1..s |-> <<a.hole, j>>]
    BY <1>2, <1>7 DEF SQL!Values
  <2>2. \A j \in 1..s : <<a.hole, j>> \in Bindings
    BY DEF Given, Bindings
  <2>3. vals \in [1..s -> Bindings]
    BY <2>1, <2>2
  <2>4. vals \in Seq(Bindings)
    BY <2>3, SeqDef
  <2>5. Len(vals) = s
    BY <2>1, <2>4, LenProperties
  <2> QED
    BY <2>1, <2>4, <2>5
<1>9. PICK r : r = SQL!ReplaceFirst(text, marks)
  OBVIOUS
<1>10. /\ r \in Seq(Tokens) /\ Len(r) = s + Len(text) - 1
       /\ \A j \in 1..s : r[j].hole = text[1].hole
       /\ \A j \in 1..Len(text) - 1 : r[s + j] = text[1 + j]
  <2>1. Replaced(text, s, SQL!ReplaceFirst(text, [j \in 1..s |-> 0]))
    BY <1>3, <1>4, ReplacesFirst
  <2> QED
    BY <1>6, <1>9, <2>1 DEF Replaced
<1>11. PICK y : y = list \o vals
  OBVIOUS
<1>12. /\ y \in Seq(Bindings) /\ Len(y) = Len(list) + s
       /\ \A i \in 1..Len(list) + s : y[i] = IF i <= Len(list) THEN list[i] ELSE vals[i - Len(list)]
  <2>1. /\ list \o vals \in Seq(Bindings) /\ Len(list \o vals) = Len(list) + Len(vals)
        /\ \A i \in 1..Len(list) + Len(vals) :
              (list \o vals)[i] = IF i <= Len(list) THEN list[i] ELSE vals[i - Len(list)]
    BY <1>3, <1>8, ConcatProperties
  <2>2. Len(vals) = s
    BY <1>8
  <2> QED
    BY ONLY <1>11, <2>1, <2>2
<1>13. SQL!Substitute([text |-> text, list |-> before \o list], a)
       = [text |-> r, list |-> before \o y]
  <2>1. (before \o list) \o vals = before \o y
    <3>1. (before \o list) \o vals = before \o (list \o vals)
      <4>1. before \in Seq(Bindings) /\ list \in Seq(Bindings) /\ vals \in Seq(Bindings)
        BY <1>3, <1>8
      <4> QED
        BY ONLY <4>1, ConcatAssociative
    <3> QED
      BY ONLY <1>11, <3>1
  <2> QED
    BY <1>5, <1>7, <1>9, <2>1 DEF SQL!Substitute
<1>14. Ahead(r, y, words, k + 1)
  <2>1. Len(r) = Len(y) + n - (k + 1)
    <3>1. Len(r) = s + Len(text) - 1 /\ Len(y) = Len(list) + s
      BY <1>10, <1>12
    <3>2. Len(text) = Len(list) + n - k /\ Len(list) \in Nat
      BY <1>3
    <3> QED
      BY ONLY <3>1, <3>2, s \in Nat, n \in Nat, k \in Nat
  <2>2. /\ \A t \in 1..Len(y) : y[t][1] = r[t].hole
        /\ \A j \in 1..n - (k + 1) : r[Len(y) + j].hole = words[k + 1 + j].hole
    <3>1. CASE k = 0
      <4>1. Len(list) = 0 /\ Len(text) = n /\ \A j \in 1..n : text[j].hole = words[j].hole
        BY <1>1, <1>3, <3>1
      <4>2. Len(y) = s /\ \A i \in 1..s : y[i] = vals[i]
        BY <1>12, <4>1
      <4>3. text[1].hole = a.hole
        BY <1>1, <3>1, <4>1
      <4>4. \A t \in 1..s : y[t][1] = r[t].hole
        BY <1>8, <1>10, <4>2, <4>3
      <4>5. \A j \in 1..n - 1 : r[s + j].hole = words[1 + j].hole
        <5> SUFFICES ASSUME NEW j \in 1..n - 1 PROVE r[s + j].hole = words[1 + j].hole
          OBVIOUS
        <5>1. 1 + j \in 1..n /\ j \in 1..Len(text) - 1
          BY <1>1, <4>1
        <5> QED
          BY <1>10, <4>1, <5>1
      <4> QED
        BY <3>1, <4>2, <4>4, <4>5
    <3>2. CASE k # 0
      <4>1. s = 1 /\ n - k >= 1
        BY <1>1, <1>2, <3>2 DEF Given, SQL!Arguments
      <4>2. \A i \in 1..Len(text) : r[i].hole = text[i].hole
        <5> SUFFICES ASSUME NEW i \in 1..Len(text) PROVE r[i].hole = text[i].hole
          OBVIOUS
        <5>1. CASE i = 1
          BY <1>10, <4>1, <5>1
        <5>2. CASE i # 1
          <6>1. i - 1 \in 1..Len(text) - 1 /\ s + (i - 1) = i /\ 1 + (i - 1) = i
            BY <1>3, <4>1, <5>2
          <6> QED
            BY <1>10, <6>1
        <5> QED
          BY <5>1, <5>2
      <4>3. \A t \in 1..Len(list) : y[t] = list[t] /\ t \in 1..Len(text)
        BY <1>1, <1>3, <1>12, <4>1
      <4>4. /\ y[Len(list) + 1] = vals[1] /\ vals[1][1] = words[k + 1].hole
            /\ Len(y) = Len(list) + 1 /\ Len(list) + 1 \in 1..Len(text) /\ 1 \in 1..n - k
        BY <1>1, <1>3, <1>8, <1>12, <4>1
      <4>5. ASSUME NEW t \in 1..Len(y) PROVE y[t][1] = r[t].hole
        <5>1. CASE t \in 1..Len(list)
          BY <1>3, <4>2, <4>3, <5>1
        <5>2. CASE t = Len(list) + 1
          BY <1>3, <4>2, <4>4, <5>2
        <5> QED
          BY <1>3, <4>4, <5>1, <5>2
      <4>6. ASSUME NEW j \in 1..n - (k + 1) PROVE r[Len(y) + j].hole = words[k + 1 + j].hole
        <5>1. /\ 1 + j \in 1..n - k /\ Len(y) + j = Len(list) + (1 + j) /\ k + 1 + j = k + (1 + j)
              /\ Len(list) + (1 + j) \in 1..Len(text)
          BY <1>1, <1>3, <4>4
        <5> QED
          BY <1>3, <4>2, <5>1
      <4> QED
        BY <4>5, <4>6
    <3> QED
      BY <3>1, <3>2
  <2> QED
    BY <1>1, <1>10, <1>12, <2>1, <2>2 DEF Ahead
<1>15. PICK x : x = SQL!Substitute([text |-> text, list |-> before \o list], a)
  OBVIOUS
<1>16. x = [text |-> r, list |-> before \o y]
  BY <1>13, <1>15
<1>17. x.text = r
  BY ONLY <1>16
<1>18. x = [text |-> x.text, list |-> before \o y] /\ Ahead(x.text, y, words, k + 1)
  BY <1>14, <1>16, <1>17
<1> QED
  BY <1>15, <1>18 DEF Follows

\* The loop over the arguments of a part is defined for each of them.
LEMMA SubstitutedInTurn ==
    ASSUME NEW words, NEW before, NEW from, NEW N \in Nat
    PROVE  \E f : f = [k \in 0..N |-> IF k = 0 THEN [text |-> words, list |-> before]
                                    ELSE SQL!Substitute(f[k - 1], builder.args[from + k])]
<1> DEFINE Loop(f, j) == f = [k \in 0..j |-> IF k = 0 THEN [text |-> words, list |-> before]
                                    ELSE SQL!Substitute(f[k - 1], builder.args[from + k])]
<1> DEFINE T == {j \in 0..N : ~ \E f : Loop(f, j)}
<1> SUFFICES ASSUME T # {} PROVE FALSE
  <2>1. N \in 0..N
    OBVIOUS
  <2> QED
    BY <2>1
<1>1. PICK m \in T : \A k \in T : m <= k
  <2>1. T \subseteq Nat
    OBVIOUS
  <2> HIDE DEF T
  <2> QED
    BY <2>1, Least
<1>2. CASE m = 0
  <2>1. PICK f : f = [k \in 0..0 |-> [text |-> words, list |-> before]]
    OBVIOUS
  <2>2. Loop(f, 0)
    BY <2>1
  <2> QED
    BY <1>2, <2>2
<1>3. CASE m # 0
  <2>1. m \in 1..N /\ m - 1 \in 0..N /\ m - 1 \notin T
    <3>1. T \subseteq 0..N
      OBVIOUS
    <3> HIDE DEF T
    <3> QED
      BY <1>1, <1>3, <3>1
  <2>2. PICK f : Loop(f, m - 1)
    BY <2>1
  <2>3. PICK z : z = SQL!Substitute(f[m - 1], builder.args[from + m])
    OBVIOUS
  <2>4. PICK h : h = [k \in 0..m |-> IF k = m THEN z ELSE f[k]]
    OBVIOUS
  <2>5. \A k \in 0..m - 1 : h[k] = f[k] /\ k \in 0..m
    BY <2>1, <2>4
  <2>6. \A k \in 0..m : k = m \/ k \in 0..m - 1
    BY <2>1
  <2>7. \A k \in 0..m : k # 0 => k - 1 \in 0..m - 1
    BY <2>1
  <2>8. \A k \in 0..m - 1 : f[k] = IF k = 0 THEN [text |-> words, list |-> before]
                                    ELSE SQL!Substitute(f[k - 1], builder.args[from + k])
    BY ONLY <2>2
  <2>9. \A k \in 0..m : h[k] = IF k = 0 THEN [text |-> words, list |-> before]
                                    ELSE SQL!Substitute(h[k - 1], builder.args[from + k])
    <3> SUFFICES ASSUME NEW k \in 0..m
                 PROVE  h[k] = IF k = 0 THEN [text |-> words, list |-> before]
                                    ELSE SQL!Substitute(h[k - 1], builder.args[from + k])
      OBVIOUS
    <3>1. CASE k = m
      <4>1. h[k] = z /\ k # 0 /\ h[k - 1] = f[k - 1]
        BY <1>3, <2>4, <2>5, <2>7, <3>1
      <4> QED
        BY <2>3, <3>1, <4>1
    <3>2. CASE k # m
      <4>1. k \in 0..m - 1
        BY <2>6, <3>2
      <4>2. CASE k = 0
        BY <2>5, <2>8, <4>1, <4>2
      <4>3. CASE k # 0
        <5>1. k - 1 \in 0..m - 1
          BY <2>7, <4>3
        <5>2. h[k - 1] = f[k - 1] /\ h[k] = f[k]
          BY <2>5, <4>1, <5>1
        <5> QED
          BY <2>8, <4>1, <4>3, <5>2
      <4> QED
        BY <4>2, <4>3
    <3> QED
      BY <3>1, <3>2
  <2>10. Loop(h, m)
    <3>1. h = [k \in 0..m |-> h[k]]
      BY <2>4
    <3> QED
      BY ONLY <2>9, <3>1
  <2> QED
    BY <1>1, <2>10
<1> QED
  BY <1>2, <1>3

\* The k-th argument in the list is for the k-th question mark of a part, and only
\* the first may be a slice or a subquery.
TakesOwn(words, from) ==
    \A k \in 1..Len(words) :
        /\ builder.args[from + k] \in Given
        /\ builder.args[from + k].hole = words[k].hole
        /\ k # 1 => builder.args[from + k].arg.kind = "value"

Joined(x, n) == Paired(x.text, x.list) /\ x.offset = n

LEMMA PartBuilt ==
    ASSUME NEW acc, NEW from, Joined(acc, from), NEW words \in Seq(Tokens), TakesOwn(words, from),
           ~builder.numbered
    PROVE  Joined(SQL!BuildPart(acc, words), from + Len(words))
<1>1. PICK n \in Nat : n = Len(words)
  OBVIOUS
<1>2. PICK before : before = acc.list
  OBVIOUS
<1>3. before \in Seq(Bindings) /\ acc.offset = from
  BY <1>2 DEF Joined, Paired
<1> DEFINE f == CHOOSE x : x = [k \in 0..n |-> IF k = 0 THEN [text |-> words, list |-> before]
                                    ELSE SQL!Substitute(x[k - 1], builder.args[from + k])]
<1>4. f = [k \in 0..n |-> IF k = 0 THEN [text |-> words, list |-> before]
                                    ELSE SQL!Substitute(f[k - 1], builder.args[from + k])]
  BY SubstitutedInTurn
<1>5. SQL!BuildPart(acc, words) = [text |-> acc.text \o f[n].text, list |-> f[n].list, offset |-> from + n]
  BY <1>1, <1>2, <1>3 DEF SQL!BuildPart
<1> HIDE DEF f
<1>6. \A k \in 0..n : f[k] = IF k = 0 THEN [text |-> words, list |-> before]
                                    ELSE SQL!Substitute(f[k - 1], builder.args[from + k])
  BY ONLY <1>4
<1> DEFINE Done(k) == Follows(f[k], before, words, k)
<1>7. Done(0)
  <2>1. f[0] = [text |-> words, list |-> before]
    <3>1. 0 \in 0..n
      BY <1>1
    <3> QED
      BY <1>6, <3>1
  <2>2. before = before \o <<>> /\ <<>> \in Seq(Bindings) /\ Len(<<>>) = 0
    BY <1>3, ConcatEmptySeq
  <2>3. Ahead(words, <<>>, words, 0)
    <3>1. \A t \in 1..Len(<<>>) : FALSE
      BY <2>2
    <3>2. Len(words) = Len(<<>>) + Len(words) - 0
      BY <1>1, <2>2
    <3>3. \A j \in 1..Len(words) - 0 : Len(<<>>) + j = j /\ 0 + j = j
      BY <1>1, <2>2
    <3> QED
      BY <2>2, <3>1, <3>2, <3>3 DEF Ahead
  <2>4. f[0] = [text |-> words, list |-> before \o <<>>] /\ f[0].text = words
    BY <2>1, <2>2
  <2> QED
    BY <2>3, <2>4 DEF Follows
<1>8. ASSUME NEW k \in 1..n, Done(k - 1) PROVE Done(k)
  <2>1. PICK list : /\ f[k - 1] = [text |-> f[k - 1].text, list |-> before \o list]
                    /\ Ahead(f[k - 1].text, list, words, k - 1)
    BY <1>8 DEF Follows
  <2>2. PICK text : text = f[k - 1].text
    OBVIOUS
  <2>3. PICK a : a = builder.args[from + k]
    OBVIOUS
  <2>4. a \in Given /\ a.hole = words[(k - 1) + 1].hole /\ (k - 1 # 0 => a.arg.kind = "value")
    <3>1. k \in 1..Len(words) /\ (k - 1) + 1 = k /\ (k - 1 # 0 => k # 1)
      BY <1>1
    <3>2. /\ builder.args[from + k] \in Given /\ builder.args[from + k].hole = words[k].hole
          /\ k # 1 => builder.args[from + k].arg.kind = "value"
      BY <3>1 DEF TakesOwn
    <3> QED
      BY ONLY <2>3, <3>1, <3>2
  <2>5. k - 1 \in Nat /\ k - 1 < Len(words) /\ (k - 1) + 1 = k /\ k \in 0..n /\ k # 0
    BY <1>1
  <2>6. PICK x : x = SQL!Substitute([text |-> text, list |-> before \o list], a)
    OBVIOUS
  <2>7. Follows(x, before, words, k)
    <3>1. Ahead(text, list, words, k - 1)
      BY <2>1, <2>2
    <3>2. Follows(SQL!Substitute([text |-> text, list |-> before \o list], a), before, words, (k - 1) + 1)
      BY <1>3, <2>4, <2>5, <3>1, Substituted
    <3> QED
      BY <2>5, <2>6, <3>2
  <2>8. f[k] = x
    BY <1>6, <2>1, <2>2, <2>3, <2>5, <2>6
  <2> QED
    BY <2>7, <2>8
<1>9. Done(n)
  <2> DEFINE T == {k \in 0..n : ~Done(k)}
  <2> HIDE DEF Done
  <2> SUFFICES ASSUME T # {} PROVE FALSE
    <3>1. n \in 0..n
      BY <1>1
    <3> QED
      BY <3>1
  <2>1. PICK m \in T : \A k \in T : m <= k
    <3>1. T \subseteq Nat
      BY <1>1
    <3> HIDE DEF T
    <3> QED
      BY <3>1, Least
  <2>2. m # 0
    BY <1>7, <2>1
  <2>3. m \in 1..n /\ m - 1 \in 0..n /\ ~ (m <= m - 1)
    BY <1>1, <2>1, <2>2
  <2>4. Done(m - 1)
    BY <2>1, <2>3
  <2> QED
    BY <1>8, <2>1, <2>3, <2>4
<1>10. PICK list : /\ f[n] = [text |-> f[n].text, list |-> before \o list]
                   /\ Ahead(f[n].text, list, words, n)
  BY <1>9 DEF Follows
<1>11. PICK text : text = f[n].text
  OBVIOUS
<1>12. Paired(text, list)
  <2>1. Len(words) - n = 0 /\ Len(list) + n - n = Len(list)
    BY <1>1, <1>10 DEF Ahead
  <2> QED
    BY <1>1, <1>10, <1>11, <2>1 DEF Ahead, Paired
<1>13. Paired(acc.text \o text, before \o list)
  <2>1. Paired(acc.text, before)
    BY <1>2 DEF Joined
  <2> QED
    BY ONLY <1>12, <2>1, PairedJoin
<1>14. f[n].list = before \o list
  <2>1. f[n] = [text |-> f[n].text, list |-> before \o list]
    BY <1>10
  <2> QED
    BY ONLY <2>1
<1>15. SQL!BuildPart(acc, words) = [text |-> acc.text \o text, list |-> before \o list, offset |-> from + n]
  BY ONLY <1>5, <1>11, <1>14
<1>16. PICK x : x = SQL!BuildPart(acc, words)
  OBVIOUS
<1>17. x.text = acc.text \o text /\ x.list = before \o list /\ x.offset = from + n
  BY ONLY <1>15, <1>16
<1>18. Joined(x, from + n)
  BY <1>13, <1>17 DEF Joined
<1> QED
  BY <1>1, <1>16, <1>18

\* The loop over the parts is defined for each of them.
LEMMA JoinedInTurn ==
    ASSUME NEW empty, NEW N \in Nat
    PROVE  \E f : f = [p \in 0..N |-> IF p = 0 THEN empty
                                    ELSE SQL!BuildPart(f[p - 1], builder.where[p])]
<1> DEFINE Loop(f, j) == f = [p \in 0..j |-> IF p = 0 THEN empty
                                    ELSE SQL!BuildPart(f[p - 1], builder.where[p])]
<1> DEFINE T == {j \in 0..N : ~ \E f : Loop(f, j)}
<1> SUFFICES ASSUME T # {} PROVE FALSE
  <2>1. N \in 0..N
    OBVIOUS
  <2> QED
    BY <2>1
<1>1. PICK m \in T : \A k \in T : m <= k
  <2>1. T \subseteq Nat
    OBVIOUS
  <2> HIDE DEF T
  <2> QED
    BY <2>1, Least
<1>2. CASE m = 0
  <2>1. PICK f : f = [p \in 0..0 |-> empty]
    OBVIOUS
  <2>2. Loop(f, 0)
    BY <2>1
  <2> QED
    BY <1>2, <2>2
<1>3. CASE m # 0
  <2>1. m \in 1..N /\ m - 1 \in 0..N /\ m - 1 \notin T
    <3>1. T \subseteq 0..N
      OBVIOUS
    <3> HIDE DEF T
    <3> QED
      BY <1>1, <1>3, <3>1
  <2>2. PICK f : Loop(f, m - 1)
    BY <2>1
  <2>3. PICK z : z = SQL!BuildPart(f[m - 1], builder.where[m])
    OBVIOUS
  <2>4. PICK h : h = [p \in 0..m |-> IF p = m THEN z ELSE f[p]]
    OBVIOUS
  <2>5. \A p \in 0..m - 1 : h[p] = f[p] /\ p \in 0..m
    BY <2>1, <2>4
  <2>6. \A p \in 0..m : (p = m \/ p \in 0..m - 1) /\ (p # 0 => p - 1 \in 0..m - 1)
    BY <2>1
  <2>7. \A p \in 0..m - 1 : f[p] = IF p = 0 THEN empty
                                    ELSE SQL!BuildPart(f[p - 1], builder.where[p])
    BY ONLY <2>2
  <2>8. \A p \in 0..m : h[p] = IF p = 0 THEN empty
                                    ELSE SQL!BuildPart(h[p - 1], builder.where[p])
    <3> SUFFICES ASSUME NEW p \in 0..m
                 PROVE  h[p] = IF p = 0 THEN empty
                                    ELSE SQL!BuildPart(h[p - 1], builder.where[p])
      OBVIOUS
    <3>1. CASE p = m
      <4>1. h[p] = z /\ p # 0 /\ h[p - 1] = f[p - 1]
        BY <1>3, <2>4, <2>5, <2>6, <3>1
      <4> QED
        BY <2>3, <3>1, <4>1
    <3>2. CASE p # m
      <4>1. p \in 0..m - 1
        BY <2>6, <3>2
      <4>2. CASE p = 0
        BY <2>5, <2>7, <4>1, <4>2
      <4>3. CASE p # 0
        <5>1. p - 1 \in 0..m - 1
          BY <2>6, <4>3
        <5>2. h[p - 1] = f[p - 1] /\ h[p] = f[p]
          BY <2>5, <4>1, <5>1
        <5> QED
          BY <2>7, <4>1, <4>3, <5>2
      <4> QED
        BY <4>2, <4>3
    <3> QED
      BY <3>1, <3>2
  <2>9. Loop(h, m)
    <3>1. h = [p \in 0..m |-> h[p]]
      BY <2>4
    <3> QED
      BY ONLY <2>8, <3>1
  <2> QED
    BY <1>1, <2>9
<1> QED
  BY <1>2, <1>3

Builders ==
    [op : {"select", "insert", "update", "delete"}, numbered : BOOLEAN, set : Nat,
     where : Seq(Seq(Tokens)), having : Seq(Tokens), args : Seq(Given), holes : Nat]

\* The parts take the arguments one after the other: part p those from o[p - 1] + 1 to o[p].
RunsOn(o) ==
    /\ o \in [0..Len(builder.where) -> Nat]
    /\ o[0] = 0 /\ o[Len(builder.where)] = Len(builder.args)
    /\ \A p \in 1..Len(builder.where) : o[p] = o[p - 1] + Len(builder.where[p])
    /\ \A p, q \in 0..Len(builder.where) : p <= q => o[p] <= o[q]
    /\ \A p \in 1..Len(builder.where) : \A k \in 1..Len(builder.where[p]) :
          builder.where[p][k].hole = o[p - 1] + k

\* Arguments are numbered like their question marks; no question mark is in a Where and in
\* Having; and as long as every argument is for a Where, the parts take them in turn.
SQLInv ==
    /\ builder \in Builders /\ builder.holes = Len(builder.args)
    /\ \A i \in 1..Len(builder.args) : builder.args[i].hole = i
    /\ \A p \in 1..Len(builder.where) : \A k \in 1..Len(builder.where[p]) :
          builder.where[p][k].hole \in 1..builder.holes
    /\ \A h \in 1..Len(builder.having) :
          /\ builder.having[h].hole \in 1..builder.holes
          /\ \A p \in 1..Len(builder.where) : \A k \in 1..Len(builder.where[p]) :
                builder.where[p][k].hole # builder.having[h].hole
    /\ SQL!AllForWhere => \E o : RunsOn(o)

LEMMA PartTakesOwn ==
    ASSUME SQLInv, SQL!ListsComeFirst, NEW o, RunsOn(o), NEW p \in 1..Len(builder.where)
    PROVE  /\ TakesOwn(builder.where[p], o[p - 1]) /\ builder.where[p] \in Seq(Tokens)
           /\ o[p - 1] + Len(builder.where[p]) = o[p]
<1>1. PICK where, args : where = builder.where /\ args = builder.args
  OBVIOUS
<1>2. where \in Seq(Seq(Tokens)) /\ args \in Seq(Given) /\ Len(where) \in Nat /\ Len(args) \in Nat
  BY <1>1 DEF SQLInv, Builders
<1>3. /\ o \in [0..Len(where) -> Nat] /\ o[Len(where)] = Len(args)
      /\ \A r \in 1..Len(where) : o[r] = o[r - 1] + Len(where[r])
      /\ \A r, q \in 0..Len(where) : r <= q => o[r] <= o[q]
      /\ \A r \in 1..Len(where) : \A k \in 1..Len(where[r]) : where[r][k].hole = o[r - 1] + k
  BY <1>1 DEF RunsOn
<1>4. \A i \in 1..Len(args) : args[i].hole = i
  BY <1>1 DEF SQLInv
<1>5. p \in 1..Len(where) /\ p \in 0..Len(where) /\ p - 1 \in 0..Len(where) /\ Len(where) \in 0..Len(where)
  BY <1>1, <1>2
<1>6. o[p - 1] \in Nat /\ o[p] \in Nat /\ o[p] = o[p - 1] + Len(where[p]) /\ o[p] <= Len(args)
  <2>1. o[p - 1] \in Nat /\ o[p] \in Nat /\ o[p] = o[p - 1] + Len(where[p])
    BY <1>3, <1>5
  <2>2. o[p] <= o[Len(where)]
    <3>1. p <= Len(where)
      BY <1>2, <1>5
    <3> QED
      BY <1>3, <1>5, <3>1
  <2> QED
    BY <1>3, <2>1, <2>2
<1>7. where[p] \in Seq(Tokens) /\ Len(where[p]) \in Nat
  <2>1. where[p] \in Seq(Tokens)
    BY <1>2, <1>5, ElementOfSeq
  <2> QED
    BY <2>1
<1>8. ASSUME NEW k \in 1..Len(where[p])
      PROVE  /\ args[o[p - 1] + k] \in Given
             /\ args[o[p - 1] + k].hole = where[p][k].hole
             /\ k # 1 => args[o[p - 1] + k].arg.kind = "value"
  <2>1. PICK i : i = o[p - 1] + k
    OBVIOUS
  <2>2. i \in 1..Len(args) /\ i <= o[p] /\ where[p][k].hole = i
    <3>1. i \in 1..Len(args) /\ i <= o[p]
      <4>1. PICK a \in Nat, l \in Nat, m \in Nat : a = o[p - 1] /\ l = Len(where[p]) /\ m = Len(args)
        BY <1>2, <1>6, <1>7
      <4>2. i = a + k /\ k \in 1..l /\ o[p] = a + l /\ a + l <= m
        BY <1>6, <1>8, <2>1, <4>1
      <4>3. a \in Nat /\ l \in Nat /\ m \in Nat
        BY <4>1
      <4>4. a + k \in 1..m /\ a + k <= a + l
        BY ONLY <4>2, <4>3
      <4> QED
        BY <4>1, <4>2, <4>4
    <3>2. where[p][k].hole = o[p - 1] + k
      BY <1>3, <1>5, <1>8
    <3> QED
      BY <2>1, <3>1, <3>2
  <2>3. args[i] \in Given /\ args[i].hole = i
    BY <1>2, <1>4, <2>2, ElementOfSeq
  <2>4. ASSUME k # 1, args[i].arg.kind # "value" PROVE FALSE
    <3>1. PICK q \in DOMAIN where : where[q] # <<>> /\ where[q][1].hole = args[i].hole
      <4>1. i \in DOMAIN args
        BY <1>2, <2>2
      <4> QED
        BY <1>1, <2>4, <4>1 DEF SQL!ListsComeFirst
    <3>2. q \in 1..Len(where) /\ q \in 0..Len(where) /\ q - 1 \in 0..Len(where)
      <4>1. q \in 1..Len(where) /\ Len(where) \in Nat
        BY <1>2, <3>1
      <4> QED
        BY ONLY <4>1
    <3>3. 1 \in 1..Len(where[q])
      <4>1. where[q] \in Seq(Tokens)
        BY <1>2, <3>2, ElementOfSeq
      <4> QED
        BY <3>1, <4>1, EmptySeq
    <3>4. o[q - 1] + 1 = i /\ o[q - 1] \in Nat
      BY <1>3, <2>3, <3>1, <3>2, <3>3
    <3>5. CASE q <= p
      <4>1. o[q - 1] <= o[p - 1]
        BY <1>3, <1>5, <3>2, <3>5
      <4>2. k \in Nat /\ k > 1
        BY <1>7, <1>8, <2>4
      <4>3. o[p - 1] \in Nat /\ i = o[p - 1] + k
        BY <1>6, <2>1
      <4> QED
        BY ONLY <3>4, <4>1, <4>2, <4>3
    <3>6. CASE q > p
      <4>1. o[p] <= o[q - 1]
        BY <1>3, <1>5, <3>2, <3>6
      <4> QED
        BY <1>6, <2>2, <3>4, <4>1
    <3> QED
      BY <1>5, <3>2, <3>5, <3>6
  <2> QED
    BY <2>1, <2>2, <2>3, <2>4
<1>9. TakesOwn(where[p], o[p - 1])
  BY <1>1, <1>8 DEF TakesOwn
<1> QED
  BY <1>1, <1>6, <1>7, <1>9

LEMMA WhereBuilt ==
    ASSUME SQLInv, SQL!AllForWhere, SQL!ListsComeFirst, ~builder.numbered
    PROVE  Paired(SQL!buildWhereClause.text, SQL!buildWhereClause.list)
<1>1. PICK o : RunsOn(o)
  BY DEF SQLInv
<1>2. PICK N \in Nat : N = Len(builder.where)
  <2>1. builder.where \in Seq(Seq(Tokens))
    BY DEF SQLInv, Builders
  <2> QED
    BY <2>1
<1>3. PICK empty : empty = [text |-> <<>>, list |-> <<>>, offset |-> 0]
  OBVIOUS
<1> DEFINE f == CHOOSE x : x = [p \in 0..N |-> IF p = 0 THEN empty
                                    ELSE SQL!BuildPart(x[p - 1], builder.where[p])]
<1>4. f = [p \in 0..N |-> IF p = 0 THEN empty
                                    ELSE SQL!BuildPart(f[p - 1], builder.where[p])]
  <2>1. \E x : x = [p \in 0..N |-> IF p = 0 THEN empty ELSE SQL!BuildPart(x[p - 1], builder.where[p])]
    BY JoinedInTurn
  <2> QED
    BY <2>1
<1>5. SQL!buildWhereClause = f[N]
  BY <1>2, <1>3 DEF SQL!buildWhereClause
<1> HIDE DEF f
<1>6. \A p \in 0..N : f[p] = IF p = 0 THEN empty ELSE SQL!BuildPart(f[p - 1], builder.where[p])
  BY ONLY <1>4
<1>7. Joined(f[0], o[0])
  <2>1. f[0] = empty
    BY <1>2, <1>6
  <2>2. empty.text = <<>> /\ empty.list = <<>> /\ empty.offset = 0
    BY <1>3
  <2>3. Paired(<<>>, <<>>)
    <3>1. <<>> \in Seq(Tokens) /\ <<>> \in Seq(Bindings) /\ \A t \in 1..Len(<<>>) : FALSE
      OBVIOUS
    <3> QED
      BY <3>1 DEF Paired
  <2>4. o[0] = 0
    BY <1>1 DEF RunsOn
  <2> QED
    BY <2>1, <2>2, <2>3, <2>4 DEF Joined
<1>8. ASSUME NEW p \in 1..N, Joined(f[p - 1], o[p - 1]) PROVE Joined(f[p], o[p])
  <2>1. /\ TakesOwn(builder.where[p], o[p - 1]) /\ builder.where[p] \in Seq(Tokens)
        /\ o[p - 1] + Len(builder.where[p]) = o[p]
    BY <1>1, <1>2, PartTakesOwn
  <2>2. Joined(SQL!BuildPart(f[p - 1], builder.where[p]), o[p - 1] + Len(builder.where[p]))
    BY <1>8, <2>1, PartBuilt
  <2>3. f[p] = SQL!BuildPart(f[p - 1], builder.where[p])
    <3>1. p \in 0..N /\ p # 0
      BY <1>2
    <3> QED
      BY <1>6, <3>1
  <2> QED
    BY <2>1, <2>2, <2>3
<1>9. Joined(f[N], o[N])
  <2> DEFINE T == {p \in 0..N : ~Joined(f[p], o[p])}
  <2> SUFFICES ASSUME T # {} PROVE FALSE
    <3>1. N \in 0..N
      BY <1>2
    <3> QED
      BY <3>1
  <2>1. PICK m \in T : \A k \in T : m <= k
    <3>1. T \subseteq Nat
      BY <1>2
    <3> HIDE DEF T
    <3> QED
      BY <3>1, Least
  <2>2. m # 0
    BY <1>7, <2>1
  <2>3. m \in 1..N /\ m - 1 \in 0..N /\ ~ (m <= m - 1)
    BY <1>2, <2>1, <2>2
  <2>4. Joined(f[m - 1], o[m - 1])
    BY <2>1, <2>3
  <2> QED
    BY <1>8, <2>1, <2>3, <2>4
<1> QED
  BY <1>5, <1>9 DEF Joined

LEMMA SQLBinds == SQLInv => SQL!QuestionMarksBind
<1> SUFFICES ASSUME SQLInv, ~builder.numbered, SQL!ListsComeFirst, SQL!AllForWhere
             PROVE  SQL!BindsRight(SQL!ToSQL)
  BY DEF SQL!QuestionMarksBind
<1>1. PICK text, list : text = SQL!buildWhereClause.text /\ list = SQL!buildWhereClause.list
  OBVIOUS
<1>2. Paired(text, list)
  BY <1>1, WhereBuilt
<1>3. builder.having = <<>>
  <2>1. /\ builder.having \in Seq(Tokens) /\ builder.args \in Seq(Given) /\ builder.where \in Seq(Seq(Tokens))
        /\ builder.holes = Len(builder.args)
    BY DEF SQLInv, Builders
  <2> SUFFICES ASSUME builder.having # <<>> PROVE FALSE
    OBVIOUS
  <2>2. 1 \in 1..Len(builder.having)
    BY <2>1, EmptySeq
  <2>3. PICK i \in 1..Len(builder.args) : i = builder.having[1].hole /\ builder.args[i].hole = i
    BY <2>1, <2>2 DEF SQLInv
  <2>4. i \in DOMAIN builder.args
    BY <2>1
  <2>5. PICK p \in DOMAIN builder.where : \E k \in DOMAIN builder.where[p] : builder.where[p][k].hole = i
    BY <2>3, <2>4 DEF SQL!AllForWhere
  <2>6. p \in 1..Len(builder.where)
    BY <2>1
  <2>7. builder.where[p] \in Seq(Tokens)
    BY <2>1, <2>6, ElementOfSeq
  <2>8. DOMAIN builder.where[p] = 1..Len(builder.where[p])
    BY <2>7
  <2>9. \A k \in 1..Len(builder.where[p]) : builder.where[p][k].hole # builder.having[1].hole
    BY <2>2, <2>6 DEF SQLInv
  <2> QED
    BY <2>3, <2>5, <2>8, <2>9
<1>4. Paired(SQL!SetText, SQL!SetList)
  <2>1. PICK n \in Nat : n = builder.set
    BY DEF SQLInv, Builders
  <2>2. PICK a, b : a = SQL!SetText /\ b = SQL!SetList
    OBVIOUS
  <2>3. a = [k \in 1..n |-> [hole |-> -k, mark |-> 0]] /\ b = [k \in 1..n |-> <<-k, 1>>]
    BY <2>1, <2>2 DEF SQL!SetText, SQL!SetList, SQL!Placeholder
  <2>4. a \in [1..n -> Tokens] /\ b \in [1..n -> Bindings]
    <3>1. \A k \in 1..n : -k \in Int
      BY <2>1
    <3>2. \A k \in 1..n : [hole |-> -k, mark |-> 0] \in Tokens /\ <<-k, 1>> \in Bindings
      BY <3>1 DEF Tokens, Bindings
    <3> QED
      BY <2>3, <3>2
  <2>5. a \in Seq(Tokens) /\ b \in Seq(Bindings)
    BY <2>1, <2>4, SeqDef
  <2>6. Len(a) = n /\ Len(b) = n
    BY <2>1, <2>3, <2>5, LenProperties
  <2>7. \A t \in 1..n : b[t][1] = a[t].hole
    BY <2>3
  <2>8. Paired(a, b)
    BY <2>5, <2>6, <2>7 DEF Paired
  <2> QED
    BY <2>2, <2>8
<1>5. Paired(<<>>, <<>>)
  <2>1. <<>> \in Seq(Tokens) /\ <<>> \in Seq(Bindings) /\ \A t \in 1..Len(<<>>) : FALSE
    OBVIOUS
  <2> QED
    BY <2>1 DEF Paired
<1>6. PICK sql : sql = SQL!ToSQL
  OBVIOUS
<1>7. \/ sql.text = text \o <<>> /\ sql.list = list
      \/ sql.text = text /\ sql.list = list
      \/ sql.text = SQL!SetText /\ sql.list = SQL!SetList
      \/ sql.text = SQL!SetText \o text /\ sql.list = SQL!SetList \o list
      \/ sql.text = <<>> /\ sql.list = <<>>
  <2>1. builder.op \in {"select", "insert", "update", "delete"}
    BY DEF SQLInv, Builders
  <2>2. CASE builder.op = "select"
    <3>1. sql = [ok |-> TRUE, text |-> text \o <<>>, list |-> list]
      BY <1>1, <1>3, <1>6, <2>2 DEF SQL!ToSQL, SQL!buildSelectSQL
    <3> QED
      BY ONLY <3>1
  <2>3. CASE builder.op = "insert"
    <3>1. \/ sql = [ok |-> TRUE, text |-> SQL!SetText, list |-> SQL!SetList]
          \/ sql = [ok |-> FALSE, text |-> <<>>, list |-> <<>>]
      BY <1>6, <2>3 DEF SQL!ToSQL, SQL!buildInsertSQL, SQL!Failed
    <3> QED
      BY ONLY <3>1
  <2>4. CASE builder.op = "update"
    <3>1. \/ sql = [ok |-> TRUE, text |-> SQL!SetText \o text, list |-> SQL!SetList \o list]
          \/ sql = [ok |-> FALSE, text |-> <<>>, list |-> <<>>]
      BY <1>1, <1>6, <2>4 DEF SQL!ToSQL, SQL!buildUpdateSQL, SQL!Failed
    <3> QED
      BY ONLY <3>1
  <2>5. CASE builder.op = "delete"
    <3>1. \/ sql = [ok |-> TRUE, text |-> text, list |-> list]
          \/ sql = [ok |-> FALSE, text |-> <<>>, list |-> <<>>]
      BY <1>1, <1>6, <2>5 DEF SQL!ToSQL, SQL!buildDeleteSQL, SQL!Failed
    <3> QED
      BY ONLY <3>1
  <2> QED
    BY <2>1, <2>2, <2>3, <2>4, <2>5
<1>8. Paired(sql.text, sql.list)
  <2>1. text \o <<>> = text
    <3>1. text \in Seq(Tokens)
      BY <1>2 DEF Paired
    <3> QED
      BY <3>1, ConcatEmptySeq
  <2>2. Paired(SQL!SetText \o text, SQL!SetList \o list)
    BY <1>2, <1>4, PairedJoin
  <2> QED
    BY <1>2, <1>4, <1>5, <1>7, <2>1, <2>2
<1> QED
  BY <1>6, <1>8, PairedBinds

\* What Where and Having do to the list of arguments.
Added(c, n) ==
    /\ c \in Builders /\ c.where = builder.where /\ c.having = builder.having
    /\ c.holes = builder.holes + n /\ Len(c.args) = c.holes
    /\ \A i \in 1..c.holes : c.args[i].hole = i

LEMMA AddAdds ==
    ASSUME SQLInv, NEW n \in Nat, NEW arguments \in [1..n -> SQL!Arguments]
    PROVE  Added(SQL!Add(arguments), n)
<1>1. PICK h \in Nat, args \in Seq(Given) :
         h = builder.holes /\ args = builder.args /\ Len(args) = h /\ \A i \in 1..h : args[i].hole = i
  BY DEF SQLInv, Builders
<1>2. PICK new : new = [k \in DOMAIN arguments |-> [hole |-> h + k, arg |-> arguments[k]]]
  OBVIOUS
<1>3. new \in Seq(Given) /\ Len(new) = n /\ \A k \in 1..n : new[k].hole = h + k
  <2>1. DOMAIN arguments = 1..n /\ \A k \in 1..n : h + k \in Nat
    BY <1>1
  <2>2. \A k \in 1..n : [hole |-> h + k, arg |-> arguments[k]] \in Given
    BY <2>1 DEF Given
  <2>3. new \in [1..n -> Given]
    BY <1>2, <2>1, <2>2
  <2>4. new \in Seq(Given)
    BY <2>3, SeqDef
  <2>5. Len(new) = n
    BY <2>3, <2>4, LenProperties
  <2> QED
    BY <1>2, <2>1, <2>4, <2>5
<1>4. Len(arguments) = n
  <2>1. arguments \in Seq(SQL!Arguments)
    BY SeqDef
  <2> QED
    BY <2>1, LenProperties
<1>5. PICK all : all = args \o new
  OBVIOUS
<1>6. /\ all \in Seq(Given) /\ Len(all) = h + n /\ \A i \in 1..h + n : all[i].hole = i
  <2>1. /\ args \o new \in Seq(Given) /\ Len(args \o new) = Len(args) + Len(new)
        /\ \A i \in 1..Len(args) + Len(new) :
              (args \o new)[i] = IF i <= Len(args) THEN args[i] ELSE new[i - Len(args)]
    <3>1. args \in Seq(Given) /\ new \in Seq(Given)
      BY <1>3
    <3> QED
      BY ONLY <3>1, ConcatProperties
  <2>2. Len(args) = h /\ Len(new) = n
    BY <1>1, <1>3
  <2>3. /\ all \in Seq(Given) /\ Len(all) = h + n
        /\ \A i \in 1..h + n : all[i] = IF i <= h THEN args[i] ELSE new[i - h]
    BY ONLY <1>5, <2>1, <2>2
  <2>4. ASSUME NEW i \in 1..h + n PROVE all[i].hole = i
    <3>1. CASE i <= h
      <4>1. i \in 1..h
        BY <1>1, <3>1
      <4> QED
        BY <1>1, <2>3, <3>1, <4>1
    <3>2. CASE ~ (i <= h)
      <4>1. i - h \in 1..n /\ h + (i - h) = i
        BY <1>1, <3>2
      <4> QED
        BY <1>3, <2>3, <3>2, <4>1
    <3> QED
      BY <3>1, <3>2
  <2> QED
    BY <2>3, <2>4
<1>7. PICK c : c = SQL!Add(arguments)
  OBVIOUS
<1>8. c = [builder EXCEPT !.args = all, !.holes = h + n]
  BY <1>1, <1>2, <1>4, <1>5, <1>7 DEF SQL!Add
<1>9. builder \in Builders
  BY DEF SQLInv
<1>10. /\ c \in Builders /\ c.where = builder.where /\ c.having = builder.having
       /\ c.holes = h + n /\ c.args = all
  <2>1. h + n \in Nat
    BY <1>1
  <2> QED
    BY <1>6, <1>8, <1>9, <2>1 DEF Builders
<1>11. Added(c, n)
  BY <1>1, <1>6, <1>10 DEF Added
<1> QED
  BY <1>7, <1>11

\* The question marks of a new part come after all that were written before.
LEMMA HolesAreNew ==
    ASSUME SQLInv, NEW n \in Nat
    PROVE  /\ SQL!Holes(n) \in Seq(Tokens) /\ Len(SQL!Holes(n)) = n
           /\ \A k \in 1..n : SQL!Holes(n)[k].hole = builder.holes + k
<1>1. PICK h \in Nat : h = builder.holes
  BY DEF SQLInv, Builders
<1>2. PICK s : s = SQL!Holes(n)
  OBVIOUS
<1>3. s = [k \in 1..n |-> [hole |-> h + k, mark |-> 0]]
  BY <1>1, <1>2 DEF SQL!Holes
<1>4. \A k \in 1..n : h + k \in Int
  BY <1>1
<1>5. s \in [1..n -> Tokens]
  BY <1>3, <1>4 DEF Tokens
<1>6. s \in Seq(Tokens)
  BY <1>5, SeqDef
<1>7. Len(s) = n
  BY <1>5, <1>6, LenProperties
<1> QED
  BY <1>1, <1>2, <1>3, <1>6, <1>7

LEMMA SQLStart ==
    ASSUME SQL!SQLInit PROVE SQLInv
<1>1. PICK op \in {"select", "insert", "update", "delete"}, numbered \in BOOLEAN, set \in 0..2 :
         builder = [op |-> op, numbered |-> numbered, set |-> set,
                    where |-> <<>>, having |-> <<>>, args |-> <<>>, holes |-> 0]
  BY DEF SQL!SQLInit
<1>2. /\ builder.op = op /\ builder.numbered = numbered /\ builder.set = set /\ builder.where = <<>>
      /\ builder.having = <<>> /\ builder.args = <<>> /\ builder.holes = 0
  BY ONLY <1>1
<1>3. /\ <<>> \in Seq(Seq(Tokens)) /\ <<>> \in Seq(Tokens) /\ <<>> \in Seq(Given)
      /\ Len(<<>>) = 0 /\ 0 \in Nat /\ 0..2 \subseteq Nat /\ \A i \in 1..0 : FALSE
  OBVIOUS
<1>4. builder \in Builders
  <2>1. set \in Nat
    BY <1>3
  <2> QED
    BY <1>1, <1>3, <2>1 DEF Builders
<1>5. RunsOn([p \in 0..0 |-> 0])
  <2>1. PICK o : o = [p \in 0..0 |-> 0]
    OBVIOUS
  <2>2. o \in [0..0 -> Nat] /\ o[0] = 0 /\ \A p \in 0..0 : o[p] = 0
    BY <2>1
  <2>3. RunsOn(o)
    BY <1>2, <1>3, <2>2 DEF RunsOn
  <2> QED
    BY <2>1, <2>3
<1> QED
  BY <1>2, <1>3, <1>4, <1>5 DEF SQLInv

\* After a call, every argument being for a Where means that it was so before, and that
\* the call gave none if it was Having.
LEMMA WhereKeeps ==
    ASSUME SQLInv, NEW n \in Nat, NEW c, Added(c, n),
           builder' = [c EXCEPT !.where = Append(@, SQL!Holes(n))]
    PROVE  SQLInv'
<1>1. PICK h \in Nat, w \in Seq(Seq(Tokens)), s \in Seq(Tokens) :
         h = builder.holes /\ w = builder.where /\ s = SQL!Holes(n)
  BY HolesAreNew DEF SQLInv, Builders
<1>2. Len(s) = n /\ \A k \in 1..n : s[k].hole = h + k
  BY <1>1, HolesAreNew
<1>0. /\ 1..h \subseteq 1..h + n
      /\ \A k \in 1..n : h + k \in 1..h + n /\ h + k \notin 1..h
  BY ONLY h \in Nat, n \in Nat
<1>3. PICK q : q = Append(w, s)
  OBVIOUS
<1>4. PICK N \in Nat : N = Len(w)
  BY ONLY w \in Seq(Seq(Tokens))
<1>5. /\ q \in Seq(Seq(Tokens)) /\ Len(q) = N + 1 /\ q[N + 1] = s /\ \A p \in 1..N : q[p] = w[p]
  <2>1. /\ Append(w, s) \in Seq(Seq(Tokens)) /\ Len(Append(w, s)) = Len(w) + 1
        /\ \A p \in 1..Len(w) : Append(w, s)[p] = w[p]
        /\ Append(w, s)[Len(w) + 1] = s
    BY AppendProperties
  <2> QED
    BY ONLY <1>3, <1>4, <2>1
<1>6. /\ c \in Builders /\ c.where = w /\ c.having = builder.having /\ c.holes = h + n
      /\ Len(c.args) = h + n /\ \A i \in 1..h + n : c.args[i].hole = i
  BY <1>1 DEF Added
<1>7. builder' = [c EXCEPT !.where = q]
  BY <1>1, <1>3, <1>6
<1>8. /\ builder' \in Builders /\ builder'.where = q /\ builder'.having = builder.having
      /\ builder'.holes = h + n /\ builder'.args = c.args
  BY <1>5, <1>6, <1>7 DEF Builders
<1>9. /\ builder.having \in Seq(Tokens) /\ builder.args \in Seq(Given) /\ c.args \in Seq(Given)
      /\ Len(builder.args) = h /\ \A i \in 1..h : builder.args[i].hole = i
  BY <1>1, <1>6 DEF SQLInv, Builders
<1>10. \A p \in 1..N : \A k \in 1..Len(w[p]) : w[p][k].hole \in 1..h
  BY <1>1, <1>4 DEF SQLInv
<1>11. \A p \in 1..N + 1 : p = N + 1 \/ p \in 1..N
  BY <1>4
<1>12. \A p \in 1..N + 1 : \A k \in 1..Len(q[p]) : q[p][k].hole \in 1..h + n
  <2> SUFFICES ASSUME NEW p \in 1..N + 1, NEW k \in 1..Len(q[p]) PROVE q[p][k].hole \in 1..h + n
    OBVIOUS
  <2>1. CASE p = N + 1
    <3>1. q[p] = s /\ k \in 1..n
      BY <1>2, <1>5, <2>1
    <3>2. q[p][k].hole = h + k
      BY <1>2, <3>1
    <3> QED
      BY <1>0, <3>1, <3>2
  <2>2. CASE p \in 1..N
    <3>1. q[p][k].hole \in 1..h
      BY <1>5, <1>10, <2>2
    <3> QED
      BY <1>0, <3>1
  <2> QED
    BY <1>11, <2>1, <2>2
<1>13. ASSUME NEW j \in 1..Len(builder.having)
       PROVE  /\ builder.having[j].hole \in 1..h + n
              /\ \A p \in 1..N + 1 : \A k \in 1..Len(q[p]) : q[p][k].hole # builder.having[j].hole
  <2>1. /\ builder.having[j].hole \in 1..h
        /\ \A p \in 1..N : \A k \in 1..Len(w[p]) : w[p][k].hole # builder.having[j].hole
    <3>1. /\ builder.having[j].hole \in 1..builder.holes
          /\ \A p \in 1..Len(builder.where) : \A k \in 1..Len(builder.where[p]) :
                builder.where[p][k].hole # builder.having[j].hole
      BY <1>13 DEF SQLInv
    <3> QED
      BY <1>1, <1>4, <3>1
  <2>2. ASSUME NEW p \in 1..N + 1, NEW k \in 1..Len(q[p]) PROVE q[p][k].hole # builder.having[j].hole
    <3>1. CASE p = N + 1
      <4>1. q[p] = s /\ k \in 1..n
        BY <1>2, <1>5, <3>1
      <4>2. q[p][k].hole = h + k
        BY <1>2, <4>1
      <4> QED
        BY <1>0, <2>1, <4>1, <4>2
    <3>2. CASE p \in 1..N
      BY <1>5, <2>1, <3>2
    <3> QED
      BY <1>11, <3>1, <3>2
  <2> QED
    BY <1>0, <2>1, <2>2
<1>14. ASSUME SQL!AllForWhere' PROVE \E o : RunsOn(o)'
  <2>1. SQL!AllForWhere
    <3> SUFFICES ASSUME NEW i \in DOMAIN builder.args
                 PROVE  \E p \in DOMAIN builder.where : \E k \in DOMAIN builder.where[p] :
                           builder.where[p][k].hole = builder.args[i].hole
      BY DEF SQL!AllForWhere
    <3>1. i \in 1..h /\ builder.args[i].hole = i
      BY <1>9
    <3>2. i \in DOMAIN builder'.args /\ builder'.args[i].hole = i
      <4>1. DOMAIN c.args = 1..h + n /\ i \in 1..h + n
        BY <1>1, <1>6, <1>9, <3>1
      <4> QED
        BY <1>6, <1>8, <4>1
    <3>3. PICK p \in DOMAIN builder'.where :
             \E k \in DOMAIN builder'.where[p] : builder'.where[p][k].hole = builder'.args[i].hole
      BY <1>14, <3>2 DEF SQL!AllForWhere
    <3>4. PICK k \in DOMAIN q[p] : q[p][k].hole = i
      BY <1>8, <3>2, <3>3
    <3>5. p \in 1..N + 1
      BY <1>4, <1>5, <1>8, <3>3
    <3>6. p # N + 1
      <4> SUFFICES ASSUME p = N + 1 PROVE FALSE
        OBVIOUS
      <4>1. q[p] = s /\ DOMAIN s = 1..n
        BY <1>1, <1>2, <1>5
      <4>2. k \in 1..n /\ s[k].hole = h + k
        BY <1>2, <3>4, <4>1
      <4> QED
        BY <1>0, <3>1, <3>4, <4>1, <4>2
    <3>7. p \in 1..N /\ q[p] = w[p]
      BY <1>5, <1>11, <3>5, <3>6
    <3>8. p \in DOMAIN builder.where /\ k \in DOMAIN builder.where[p] /\ builder.where[p][k].hole = i
      BY <1>1, <1>4, <3>4, <3>7
    <3> QED
      BY <3>1, <3>8
  <2>2. PICK o : RunsOn(o)
    BY <2>1 DEF SQLInv
  <2>3. /\ o \in [0..N -> Nat] /\ o[0] = 0 /\ o[N] = h
        /\ \A p \in 1..N : o[p] = o[p - 1] + Len(w[p])
        /\ \A p, r \in 0..N : p <= r => o[p] <= o[r]
        /\ \A p \in 1..N : \A k \in 1..Len(w[p]) : w[p][k].hole = o[p - 1] + k
    BY <1>1, <1>4, <1>9, <2>2 DEF RunsOn
  <2>4. PICK e : e = [p \in 0..N + 1 |-> IF p = N + 1 THEN h + n ELSE o[p]]
    OBVIOUS
  <2>5. /\ e[N + 1] = h + n /\ \A p \in 0..N : e[p] = o[p] /\ p \in 0..N + 1
    BY <1>4, <2>4
  <2>6. \A p \in 0..N + 1 : p = N + 1 \/ p \in 0..N
    BY <1>4
  <2>7. e \in [0..N + 1 -> Nat]
    <3>1. \A p \in 0..N + 1 : e[p] \in Nat
      <4> SUFFICES ASSUME NEW p \in 0..N + 1 PROVE e[p] \in Nat
        OBVIOUS
      <4>1. CASE p = N + 1
        BY <1>1, <2>5, <4>1
      <4>2. CASE p \in 0..N
        BY <2>3, <2>5, <4>2
      <4> QED
        BY <2>6, <4>1, <4>2
    <3> QED
      BY <2>4, <3>1
  <2>8. e[0] = 0 /\ 0 \in 0..N /\ N \in 0..N /\ e[N] = h
    BY <1>4, <2>3, <2>5
  <2>9. ASSUME NEW p \in 1..N + 1 PROVE e[p] = e[p - 1] + Len(q[p])
    <3>1. CASE p = N + 1
      <4>1. p - 1 = N /\ Len(q[p]) = n
        BY <1>2, <1>4, <1>5, <3>1
      <4> QED
        BY <2>5, <2>8, <3>1, <4>1
    <3>2. CASE p \in 1..N
      <4>1. p - 1 \in 0..N /\ p \in 0..N
        BY <1>4, <3>2
      <4> QED
        BY <1>5, <2>3, <2>5, <3>2, <4>1
    <3> QED
      BY <1>11, <3>1, <3>2
  <2>10. ASSUME NEW p \in 0..N + 1, NEW r \in 0..N + 1, p <= r PROVE e[p] <= e[r]
    <3>1. CASE r = N + 1
      <4>1. p = N + 1 \/ (p \in 0..N /\ p <= N /\ o[p] <= h /\ o[p] \in Nat)
        <5>1. p \in 0..N => p <= N
          BY <1>4
        <5> QED
          BY <2>3, <2>6, <2>8, <5>1
      <4> QED
        BY <1>1, <2>5, <3>1, <4>1
    <3>2. CASE r \in 0..N
      <4>1. p \in 0..N
        BY <1>4, <2>6, <2>10, <3>2
      <4> QED
        BY <2>3, <2>5, <2>10, <3>2, <4>1
    <3> QED
      BY <2>6, <3>1, <3>2
  <2>11. ASSUME NEW p \in 1..N + 1, NEW k \in 1..Len(q[p]) PROVE q[p][k].hole = e[p - 1] + k
    <3>1. CASE p = N + 1
      <4>1. p - 1 = N /\ q[p] = s /\ k \in 1..n
        BY <1>2, <1>4, <1>5, <3>1
      <4>2. q[p][k].hole = h + k
        BY <1>2, <4>1
      <4> QED
        BY <2>8, <4>1, <4>2
    <3>2. CASE p \in 1..N
      <4>1. p - 1 \in 0..N
        BY <1>4, <3>2
      <4>2. q[p] = w[p] /\ k \in 1..Len(w[p])
        BY <1>5, <2>11, <3>2
      <4>3. w[p][k].hole = o[p - 1] + k
        BY <2>3, <3>2, <4>2
      <4> QED
        BY <2>5, <4>1, <4>2, <4>3
    <3> QED
      BY <1>11, <3>1, <3>2
  <2>12. Len(builder'.args) = h + n /\ Len(builder'.where) = N + 1
    BY <1>5, <1>6, <1>8
  <2>13. RunsOn(e)'
    BY <1>8, <2>5, <2>7, <2>8, <2>9, <2>10, <2>11, <2>12 DEF RunsOn
  <2> QED
    BY <2>13
<1>15. /\ builder'.holes = Len(builder'.args)
       /\ \A i \in 1..Len(builder'.args) : builder'.args[i].hole = i
  BY <1>6, <1>8
<1>16. Len(builder'.where) = N + 1
  BY <1>5, <1>8
<1>17. /\ \A p \in 1..Len(builder'.where) : \A k \in 1..Len(builder'.where[p]) :
             builder'.where[p][k].hole \in 1..builder'.holes
       /\ \A j \in 1..Len(builder'.having) :
             /\ builder'.having[j].hole \in 1..builder'.holes
             /\ \A p \in 1..Len(builder'.where) : \A k \in 1..Len(builder'.where[p]) :
                   builder'.where[p][k].hole # builder'.having[j].hole
  <2>1. builder'.where = q /\ builder'.having = builder.having /\ builder'.holes = h + n
    BY <1>8
  <2> QED
    BY ONLY <1>12, <1>13, <1>16, <2>1
<1> QED
  BY <1>8, <1>14, <1>15, <1>17 DEF SQLInv

LEMMA HavingKeeps ==
    ASSUME SQLInv, NEW n \in Nat, NEW c, Added(c, n),
           builder' = [c EXCEPT !.having = SQL!Holes(n)]
    PROVE  SQLInv'
<1>1. PICK h \in Nat, w \in Seq(Seq(Tokens)), s \in Seq(Tokens) :
         h = builder.holes /\ w = builder.where /\ s = SQL!Holes(n)
  BY HolesAreNew DEF SQLInv, Builders
<1>2. Len(s) = n /\ \A k \in 1..n : s[k].hole = h + k
  BY <1>1, HolesAreNew
<1>3. /\ c \in Builders /\ c.where = w /\ c.holes = h + n
      /\ Len(c.args) = h + n /\ \A i \in 1..h + n : c.args[i].hole = i
  BY <1>1 DEF Added
<1>4. builder' = [c EXCEPT !.having = s]
  BY <1>1
<1>5. /\ builder' \in Builders /\ builder'.where = w /\ builder'.having = s
      /\ builder'.holes = h + n /\ builder'.args = c.args
  BY <1>3, <1>4 DEF Builders
<1>6. /\ builder.args \in Seq(Given) /\ c.args \in Seq(Given)
      /\ Len(builder.args) = h /\ \A i \in 1..h : builder.args[i].hole = i
  BY <1>1, <1>3 DEF SQLInv, Builders
<1>7. \A p \in 1..Len(w) : \A k \in 1..Len(w[p]) : w[p][k].hole \in 1..h
  BY <1>1 DEF SQLInv
<1>8. 1..h \subseteq 1..h + n
  BY <1>1
<1>9. \A j \in 1..n : s[j].hole \in 1..h + n /\ \A i \in 1..h : i # s[j].hole
  BY <1>1, <1>2
<1>10. ASSUME SQL!AllForWhere' PROVE \E o : RunsOn(o)'
  <2>1. ASSUME NEW i \in 1..h + n
        PROVE  i \in 1..h /\ \E p \in DOMAIN w : \E k \in DOMAIN w[p] : w[p][k].hole = i
    <3>1. i \in DOMAIN builder'.args /\ builder'.args[i].hole = i
      <4>1. DOMAIN c.args = 1..h + n
        BY <1>1, <1>3, <1>6
      <4> QED
        BY <1>3, <1>5, <4>1
    <3>2. PICK p \in DOMAIN w : \E k \in DOMAIN w[p] : w[p][k].hole = i
      <4>1. \E p \in DOMAIN builder'.where : \E k \in DOMAIN builder'.where[p] :
               builder'.where[p][k].hole = builder'.args[i].hole
        BY <1>10, <3>1 DEF SQL!AllForWhere
      <4>2. builder'.where = w
        BY <1>5
      <4> QED
        BY ONLY <3>1, <4>1, <4>2
    <3>3. p \in 1..Len(w)
      BY ONLY <3>2, w \in Seq(Seq(Tokens))
    <3>4. w[p] \in Seq(Tokens)
      BY <1>1, <3>3, ElementOfSeq
    <3>5. DOMAIN w[p] = 1..Len(w[p])
      BY <3>4
    <3> QED
      BY <1>7, <3>2, <3>3, <3>5
  <2>2. n = 0
    <3> SUFFICES ASSUME n # 0 PROVE FALSE
      OBVIOUS
    <3>1. h + n \in 1..h + n /\ h + n \notin 1..h
      BY <1>1
    <3> QED
      BY <2>1, <3>1
  <2>3. SQL!AllForWhere
    <3> SUFFICES ASSUME NEW i \in DOMAIN builder.args
                 PROVE  \E p \in DOMAIN builder.where : \E k \in DOMAIN builder.where[p] :
                           builder.where[p][k].hole = builder.args[i].hole
      BY DEF SQL!AllForWhere
    <3>1. i \in 1..h + n /\ builder.args[i].hole = i
      BY <1>1, <1>6, <1>8
    <3>2. \E p \in DOMAIN w : \E k \in DOMAIN w[p] : w[p][k].hole = i
      BY <2>1, <3>1
    <3>3. w = builder.where
      BY <1>1
    <3> QED
      BY ONLY <3>1, <3>2, <3>3
  <2>4. PICK o : RunsOn(o)
    BY <2>3 DEF SQLInv
  <2>5. Len(builder'.args) = Len(builder.args) /\ builder'.where = builder.where
    BY <1>1, <1>3, <1>5, <1>6, <2>2
  <2>6. RunsOn(o)'
    BY <2>4, <2>5, Zenon DEF RunsOn
  <2> QED
    BY <2>6
<1>11. /\ builder'.holes = Len(builder'.args)
       /\ \A i \in 1..Len(builder'.args) : builder'.args[i].hole = i
  BY <1>3, <1>5
<1>12. /\ \A p \in 1..Len(w) : \A k \in 1..Len(w[p]) : w[p][k].hole \in 1..h + n
       /\ \A j \in 1..n :
             /\ s[j].hole \in 1..h + n
             /\ \A p \in 1..Len(w) : \A k \in 1..Len(w[p]) : w[p][k].hole # s[j].hole
  BY <1>7, <1>8, <1>9
<1>13. /\ \A p \in 1..Len(builder'.where) : \A k \in 1..Len(builder'.where[p]) :
             builder'.where[p][k].hole \in 1..builder'.holes
       /\ \A j \in 1..Len(builder'.having) :
             /\ builder'.having[j].hole \in 1..builder'.holes
             /\ \A p \in 1..Len(builder'.where) : \A k \in 1..Len(builder'.where[p]) :
                   builder'.where[p][k].hole # builder'.having[j].hole
  <2>1. builder'.where = w /\ builder'.having = s /\ builder'.holes = h + n /\ Len(s) = n
    BY <1>2, <1>5
  <2> QED
    BY ONLY <1>12, <2>1
<1> QED
  BY <1>5, <1>10, <1>11, <1>13 DEF SQLInv

LEMMA SQLStep == SQLInv /\ [SQL!SQLNext]_sqlVars => SQLInv'
<1> SUFFICES ASSUME SQLInv, [SQL!SQLNext]_sqlVars PROVE SQLInv'
  OBVIOUS
<1>1. CASE UNCHANGED sqlVars
  <2>1. builder' = builder
    BY <1>1 DEF sqlVars
  <2>2. SQL!AllForWhere' => SQL!AllForWhere
    BY <2>1 DEF SQL!AllForWhere
  <2>3. \A o : RunsOn(o) => RunsOn(o)'
    BY <2>1 DEF RunsOn
  <2>4. SQL!AllForWhere' => \E o : RunsOn(o)'
    BY <2>2, <2>3 DEF SQLInv
  <2> QED
    BY <2>1, <2>4 DEF SQLInv
<1>2. CASE SQL!Where
  <2>1. PICK n \in 0..MaxArgs : \E arguments \in [1..n -> SQL!Arguments] :
           builder' = [SQL!Add(arguments) EXCEPT !.where = Append(@, SQL!Holes(n))]
    BY <1>2 DEF SQL!Where
  <2>2. n \in Nat
    BY <2>1
  <2> QED
    BY <2>1, <2>2, AddAdds, WhereKeeps
<1>3. CASE SQL!Having
  <2>1. PICK n \in 0..1 : \E arguments \in [1..n -> [kind : {"value"}, size : {1}]] :
           builder' = [SQL!Add(arguments) EXCEPT !.having = SQL!Holes(n)]
    BY <1>3 DEF SQL!Having
  <2>2. PICK arguments \in [1..n -> [kind : {"value"}, size : {1}]] :
           builder' = [SQL!Add(arguments) EXCEPT !.having = SQL!Holes(n)]
    BY <2>1
  <2>3. n \in Nat /\ arguments \in [1..n -> SQL!Arguments]
    BY <2>2 DEF SQL!Arguments
  <2> QED
    BY <2>2, <2>3, AddAdds, HavingKeeps
<1> QED
  BY <1>1, <1>2, <1>3 DEF SQL!SQLNext

\* gsql/builder.go: with "?" placeholders every value ToSQL returns is bound where the
\* caller meant it, however many Where and Having calls with however many arguments made
\* the statement, as long as a slice or a subquery is the first argument of its Where and
\* no Having took an argument.
THEOREM ValuesBound == Spec => []QuestionMarksBind
<1>1. Init => SQLInv
  BY SQLStart DEF Init
<1>2. SQLInv /\ [Next]_vars => SQLInv'
  <2>1. [Next]_vars => [SQL!SQLNext]_sqlVars
    BY DEF Next, vars, Still, sqlVars
  <2> QED
    BY <2>1, SQLStep
<1>3. SQLInv => QuestionMarksBind
  BY SQLBinds DEF QuestionMarksBind
<1> QED
  BY <1>1, <1>2, <1>3, PTL DEF Spec

===============================================================================
