-------------------- MODULE TimeVisitStatCollector_proofs --------------------
(* Theorems about TimeVisitStatCollector, for every size of the history,    *)
(* every time frame and every set of timestamps.                            *)
EXTENDS ActivityChart, TimeVisitStat_proofs

VisitRecord == [mark : Marks, count : Nat \ {0}]

(* The strengthening that is inductive: HistoryIsExact for a new frame needs *)
(* that the frame was never noted before, which is HistoryIsNewest.          *)
IInv == TypeOK /\ HistoryIsOrdered /\ HistoryIsExact /\ HistoryIsNewest

-----------------------------------------------------------------------------

(* Marks are integers: truncated division by a positive time frame.          *)
LEMMA MarksAreIntegers == Marks \subseteq Int
<1> SUFFICES ASSUME NEW t \in Timestamps PROVE MarkOf(t, Timeframe) \in Int
  BY DEF Marks
<1>1. t \in Int /\ Timeframe \in Nat \ {0}
  BY ConstantsAssumption
<1> QED BY <1>1 DEF MarkOf, GoDiv

-----------------------------------------------------------------------------

LEMMA InitIInv == Init => IInv
<1> SUFFICES ASSUME Init PROVE IInv
  OBVIOUS
<1>1. Visits = <<>> /\ noted = [m \in Marks |-> 0]
  BY DEF Init
<1>2. TypeOK
  BY <1>1 DEF TypeOK
<1>3. HistoryIsOrdered
  BY <1>1, ConstantsAssumption DEF HistoryIsOrdered
<1>4. HistoryIsExact
  BY <1>1 DEF HistoryIsExact
<1>5. HistoryIsNewest
  BY <1>1 DEF HistoryIsNewest
<1> QED BY <1>2, <1>3, <1>4, <1>5 DEF IInv

LEMMA NextIInv ==
  ASSUME IInv, NEW timestamp \in Timestamps, NoteVisit(timestamp)
  PROVE  IInv'
<1>d. PICK m \in Marks : m = MarkOf(timestamp, Timeframe)
  BY DEF Marks
<1>m. m \in Marks /\ m \in Int
  BY MarksAreIntegers
<1>n. MaxMarks \in Nat
  BY ConstantsAssumption
<1>t. /\ Visits \in Seq(VisitRecord) /\ noted \in [Marks -> Nat]
      /\ Len(Visits) \in Nat /\ DOMAIN Visits = 1 .. Len(Visits)
      /\ Visits \in [1 .. Len(Visits) -> VisitRecord]
  BY LenProperties DEF IInv, TypeOK, VisitRecord
<1>o. /\ Len(Visits) <= MaxMarks
      /\ \A i, j \in 1 .. Len(Visits) :
           i < j => Visits[i].mark - Visits[j].mark >= j - i
  BY <1>t DEF IInv, HistoryIsOrdered
<1>e. \A i \in 1 .. Len(Visits) : Visits[i].count = noted[Visits[i].mark]
  BY <1>t DEF IInv, HistoryIsExact
<1>w. \A x \in Marks :
        noted[x] > 0 /\ (\A i \in 1 .. Len(Visits) : Visits[i].mark # x)
          => /\ Len(Visits) = MaxMarks
             /\ \A i \in 1 .. Len(Visits) : x < Visits[i].mark
  BY <1>t DEF IInv, HistoryIsNewest, MarksIn
<1>i. \A i \in 1 .. Len(Visits) : Visits[i].mark \in Marks /\ Visits[i].mark \in Int
  BY <1>t, MarksAreIntegers DEF VisitRecord
<1>c. \A x \in Marks : noted[x] \in Nat
  BY <1>t
<1>f. FirstVisit(m) \in VisitRecord
  BY <1>m DEF FirstVisit, VisitRecord
<1>s. /\ Visits' = NoteVisitByTimemark(Visits, m, MaxMarks)
      /\ noted' = [noted EXCEPT ![m] = @ + 1]
  BY <1>d DEF NoteVisit
<1>g. noted' \in [Marks -> Nat] /\ noted'[m] = noted[m] + 1
      /\ \A x \in Marks : x # m => noted'[x] = noted[x]
  BY <1>s, <1>t, <1>m
<1>q. Visits \in Seq(VisitRecord)
  BY <1>t
<1>l. Len(Visits) \in Nat
  BY <1>t
<1>p. ASSUME NEW a \in 1 .. Len(Visits), NEW b \in 1 .. Len(Visits), a <= b
      PROVE  Visits[a].mark - Visits[b].mark >= b - a
  <2>1. CASE a = b
    <3>1. Visits[a].mark \in Int
      BY <1>i
    <3> QED BY <3>1, <2>1
  <2>2. CASE a < b
    BY <2>2, <1>o
  <2>3. a = b \/ a < b
    BY <1>p
  <2> QED BY <2>1, <2>2, <2>3
\* What has to be shown of the next history, place by place.
<1> DEFINE Good ==
      /\ Visits' \in Seq(VisitRecord)
      /\ Len(Visits') <= MaxMarks
      /\ \A i, j \in 1 .. Len(Visits') :
           i < j => Visits'[i].mark - Visits'[j].mark >= j - i
      /\ \A i \in 1 .. Len(Visits') : Visits'[i].count = noted'[Visits'[i].mark]
      /\ \A x \in Marks :
           noted'[x] > 0 /\ (\A i \in 1 .. Len(Visits') : Visits'[i].mark # x)
             => /\ Len(Visits') = MaxMarks
                /\ \A i \in 1 .. Len(Visits') : x < Visits'[i].mark
<1>1. ASSUME Held(Visits, m) # {} PROVE Good
  <2>1. PICK k \in 1 .. Len(Visits) :
           /\ Visits' \in Seq(VisitRecord)
           /\ Visits[k].mark = m
           /\ Len(Visits') = Len(Visits)
           /\ \A i \in 1 .. Len(Visits) :
                Visits'[i] = IF i = k THEN OneMore(Visits[k]) ELSE Visits[i]
    <3>1. \A r \in VisitRecord : OneMore(r) \in VisitRecord
      BY DEF VisitRecord, OneMore
    <3> QED BY <1>1, <1>q, <1>s, <3>1, NoteHeldMark
  <2>4. \A i \in 1 .. Len(Visits) :
          /\ Visits'[i].mark = Visits[i].mark
          /\ Visits'[i].count = IF i = k THEN Visits[i].count + 1 ELSE Visits[i].count
    BY <2>1 DEF OneMore
  <2>5. \A i \in 1 .. Len(Visits) : i # k => Visits[i].mark # m
    <3> SUFFICES ASSUME NEW i \in 1 .. Len(Visits), i # k PROVE Visits[i].mark # m
      OBVIOUS
    <3>1. CASE i < k
      <4>1. Visits[i].mark - Visits[k].mark >= k - i
        BY <3>1, <1>o
      <4> QED BY <4>1, <3>1, <2>1, <1>m
    <3>2. CASE k < i
      <4>1. Visits[k].mark - Visits[i].mark >= i - k
        BY <3>2, <1>o
      <4> QED BY <4>1, <3>2, <2>1, <1>m
    <3>3. i < k \/ k < i
      OBVIOUS
    <3> QED BY <3>1, <3>2, <3>3
  <2>6. \A i \in 1 .. Len(Visits) : Visits'[i].count = noted'[Visits'[i].mark]
    BY <2>1, <2>4, <2>5, <1>e, <1>g, <1>i, <1>l
  <2>7. \A x \in Marks :
           noted'[x] > 0 /\ (\A i \in 1 .. Len(Visits') : Visits'[i].mark # x)
             => /\ Len(Visits') = MaxMarks
                /\ \A i \in 1 .. Len(Visits') : x < Visits'[i].mark
    BY <2>1, <2>4, <1>w, <1>g
  <2> QED BY <2>1, <2>4, <2>6, <2>7, <1>o
<1>2. ASSUME Held(Visits, m) = {}, Older(Visits, m) # {} PROVE Good
  <2>2. PICK k \in 1 .. Len(Visits) :
        /\ Visits' \in Seq(VisitRecord)
        /\ m > Visits[k].mark
        /\ \A i \in 1 .. k - 1 : Visits[i].mark > m
        /\ Len(Visits') = IF Len(Visits) + 1 > MaxMarks THEN MaxMarks ELSE Len(Visits) + 1
        /\ \A i \in 1 .. Len(Visits') :
             Visits'[i] = IF i < k THEN Visits[i] ELSE IF i = k THEN FirstVisit(m) ELSE Visits[i - 1]
    <3>1. \A r \in VisitRecord : r.mark \in Int
      BY MarksAreIntegers DEF VisitRecord
    <3>2. /\ NoteVisitByTimemark(Visits, m, MaxMarks) \in Seq(VisitRecord)
          /\ \E k \in 1 .. Len(Visits) :
               IsInserted(Visits, NoteVisitByTimemark(Visits, m, MaxMarks), k, m, MaxMarks)
      BY <1>2, <1>q, <1>m, <1>n, <1>f, <3>1, NoteNewerMark
    <3> QED BY <3>2, <1>s DEF IsInserted
  <2>3. FirstVisit(m).mark = m /\ FirstVisit(m).count = 1
    BY DEF FirstVisit
  <2>4. \A i \in 1 .. Len(Visits) : i >= k => Visits[i].mark < m
    <3> SUFFICES ASSUME NEW i \in 1 .. Len(Visits), i >= k PROVE Visits[i].mark < m
      OBVIOUS
    <3>1. CASE i = k
      BY <3>1, <2>2
    <3>2. CASE i > k
      <4>1. Visits[k].mark - Visits[i].mark >= i - k
        BY <3>2, <1>o
      <4>2. Visits[k].mark \in Int /\ Visits[i].mark \in Int
        BY <1>i
      <4> QED BY <4>1, <4>2, <3>2, <2>2, <1>m
    <3>3. i = k \/ i > k
      OBVIOUS
    <3> QED BY <3>1, <3>2, <3>3
  <2>5. \A i \in 1 .. Len(Visits) : Visits[i].mark # m
    BY <2>2, <2>4, <1>l, <1>i, <1>m
  <2>6. noted[m] = 0
    <3>1. ~(m < Visits[k].mark)
      BY <2>2, <1>i, <1>m
    <3>2. ~(noted[m] > 0)
      BY <3>1, <2>5, <1>w, <1>m
    <3> QED BY <3>2, <1>c, <1>m
  <2>7. \A i, j \in 1 .. Len(Visits') :
           i < j => Visits'[i].mark - Visits'[j].mark >= j - i
    <3> SUFFICES ASSUME NEW i \in 1 .. Len(Visits'), NEW j \in 1 .. Len(Visits'), i < j
                 PROVE  Visits'[i].mark - Visits'[j].mark >= j - i
      OBVIOUS
    <3>0. i \in 1 .. Len(Visits) + 1 /\ j \in 1 .. Len(Visits) + 1 /\ Len(Visits') \in Nat
      BY <2>2, <1>l, <1>n
    <3>1. CASE j < k
      <4>1. i \in 1 .. Len(Visits) /\ j \in 1 .. Len(Visits) /\ i < k
        BY <3>1, <1>l
      <4>2. Visits'[i] = Visits[i] /\ Visits'[j] = Visits[j]
        BY <3>1, <4>1, <2>2
      <4>3. Visits[i].mark - Visits[j].mark >= j - i
        BY <4>1, <1>o
      <4> QED BY <4>2, <4>3
    <3>2. CASE j = k
      <4>1. Visits'[i] = Visits[i] /\ Visits'[j].mark = m
        BY <3>2, <3>0, <2>2, <2>3
      <4>2. Visits[k - 1].mark > m /\ i <= k - 1
        BY <3>2, <3>0, <2>2, <1>l
      <4>3. Visits[i].mark - Visits[k - 1].mark >= (k - 1) - i
        <5>1. i \in 1 .. Len(Visits) /\ k - 1 \in 1 .. Len(Visits)
          BY <3>2, <3>0, <1>l
        <5> QED BY <5>1, <4>2, <1>p
      <4>4. Visits[i].mark \in Int /\ Visits[k - 1].mark \in Int
        BY <4>2, <3>0, <1>i, <1>l
      <4> QED BY <4>1, <4>2, <4>3, <4>4, <3>2, <1>m
    <3>3. CASE i < k /\ j > k
      <4>1. Visits'[i] = Visits[i] /\ Visits'[j] = Visits[j - 1]
        BY <3>3, <3>0, <2>2, <1>l
      <4>2. Visits[k - 1].mark > m /\ i <= k - 1
        BY <3>3, <3>0, <2>2, <1>l
      <4>3. Visits[i].mark - Visits[k - 1].mark >= (k - 1) - i
        <5>1. i \in 1 .. Len(Visits) /\ k - 1 \in 1 .. Len(Visits)
          BY <3>3, <3>0, <1>l
        <5> QED BY <5>1, <4>2, <1>p
      <4>4. Visits[k].mark - Visits[j - 1].mark >= (j - 1) - k
        <5>1. j - 1 \in 1 .. Len(Visits) /\ k <= j - 1
          BY <3>3, <3>0, <1>l
        <5> QED BY <5>1, <1>p
      <4>5. /\ Visits[i].mark \in Int /\ Visits[k - 1].mark \in Int
            /\ Visits[k].mark \in Int /\ Visits[j - 1].mark \in Int
        BY <4>2, <3>0, <3>3, <1>i, <1>l
      <4>6. m > Visits[k].mark
        BY <2>2
      <4>7. i \in Int /\ j \in Int /\ k \in Int
        OBVIOUS
      <4>8. Visits[i].mark - Visits[j - 1].mark >= j - i
        BY <4>2, <4>3, <4>4, <4>5, <4>6, <4>7, <1>m, Apart
      <4> QED BY <4>1, <4>8
    <3>4. CASE i = k
      <4>1. Visits'[i].mark = m /\ Visits'[j] = Visits[j - 1]
        BY <3>4, <3>0, <2>2, <2>3, <1>l
      <4>2. Visits[k].mark - Visits[j - 1].mark >= (j - 1) - k
        <5>1. j - 1 \in 1 .. Len(Visits) /\ k <= j - 1
          BY <3>4, <3>0, <1>l
        <5> QED BY <5>1, <1>p
      <4>3. Visits[k].mark \in Int /\ Visits[j - 1].mark \in Int
        BY <3>0, <3>4, <1>i, <1>l
      <4>4. m > Visits[k].mark
        BY <2>2
      <4>5. i \in Int /\ j \in Int
        OBVIOUS
      <4>6. m - Visits[j - 1].mark >= j - i
        BY <4>2, <4>3, <4>4, <4>5, <3>4, <1>m
      <4> QED BY <4>1, <4>6
    <3>5. CASE i > k
      <4>1. Visits'[i] = Visits[i - 1] /\ Visits'[j] = Visits[j - 1]
        BY <3>5, <3>0, <2>2, <1>l
      <4>2. Visits[i - 1].mark - Visits[j - 1].mark >= (j - 1) - (i - 1)
        <5>1. i - 1 \in 1 .. Len(Visits) /\ j - 1 \in 1 .. Len(Visits) /\ i - 1 < j - 1
          BY <3>5, <3>0, <1>l
        <5> QED BY <5>1, <1>o
      <4>3. (j - 1) - (i - 1) = j - i
        OBVIOUS
      <4> QED BY <4>1, <4>2, <4>3
    <3>6. k \in Int
      BY <1>l
    <3> QED BY <3>0, <3>1, <3>2, <3>3, <3>4, <3>5, <3>6
  <2>8. \A i \in 1 .. Len(Visits') : Visits'[i].count = noted'[Visits'[i].mark]
    <3> SUFFICES ASSUME NEW i \in 1 .. Len(Visits')
                 PROVE  Visits'[i].count = noted'[Visits'[i].mark]
      OBVIOUS
    <3>1. CASE i = k
      BY <3>1, <2>2, <2>3, <2>6, <1>g
    <3>2. CASE i # k
      <4>1. \E j \in 1 .. Len(Visits) : Visits'[i] = Visits[j]
        BY <3>2, <2>2, <1>l, <1>n
      <4> QED BY <4>1, <2>5, <1>e, <1>g, <1>i
    <3> QED BY <3>1, <3>2
  <2>9. ASSUME NEW x \in Marks, noted'[x] > 0,
               \A i \in 1 .. Len(Visits') : Visits'[i].mark # x
        PROVE  /\ Len(Visits') = MaxMarks
               /\ \A i \in 1 .. Len(Visits') : x < Visits'[i].mark
    <3>1. k \in 1 .. Len(Visits') /\ x # m
      BY <2>2, <2>3, <2>9, <1>l, <1>n, <1>o
    <3>2. noted[x] > 0 /\ x \in Int
      BY <3>1, <2>9, <1>g, MarksAreIntegers
    <3>3. CASE \A i \in 1 .. Len(Visits) : Visits[i].mark # x
      <4>1. Len(Visits) = MaxMarks /\ \A i \in 1 .. Len(Visits) : x < Visits[i].mark
        BY <3>2, <3>3, <1>w
      <4>2. x < m
        BY <4>1, <2>2, <3>2, <1>i, <1>m
      <4>3. \A i \in 1 .. Len(Visits') :
              Visits'[i].mark = m \/ \E j \in 1 .. Len(Visits) : Visits'[i] = Visits[j]
        BY <2>2, <2>3, <1>l, <1>n
      <4> QED BY <4>1, <4>2, <4>3, <2>2, <1>l, <1>n
    <3>4. CASE \E i \in 1 .. Len(Visits) : Visits[i].mark = x
      <4>1. PICK d \in 1 .. Len(Visits) : Visits[d].mark = x
        BY <3>4
      <4>2. d >= k
        BY <4>1, <2>2, <2>9, <1>l, <1>n, <1>o
      <4>3. d + 1 \notin 1 .. Len(Visits')
        <5> SUFFICES ASSUME d + 1 \in 1 .. Len(Visits') PROVE FALSE
          OBVIOUS
        <5>1. Visits'[d + 1] = Visits[(d + 1) - 1] /\ (d + 1) - 1 = d
          BY <4>2, <2>2, <1>l
        <5> QED BY <5>1, <4>1, <2>9
      <4>4. Len(Visits') = MaxMarks /\ d = MaxMarks /\ Len(Visits) = MaxMarks
        BY <4>2, <4>3, <2>2, <1>l, <1>n, <1>o
      <4>5. \A j \in 1 .. Len(Visits) : j < d => x < Visits[j].mark
        <5> SUFFICES ASSUME NEW j \in 1 .. Len(Visits), j < d PROVE x < Visits[j].mark
          OBVIOUS
        <5>1. Visits[j].mark - Visits[d].mark >= d - j
          BY <1>o
        <5>2. Visits[j].mark \in Int
          BY <1>i
        <5> QED BY <5>1, <5>2, <4>1, <3>2
      <4>6. x < m
        BY <4>1, <4>2, <2>4
      <4> QED
        <5> SUFFICES ASSUME NEW i \in 1 .. Len(Visits') PROVE x < Visits'[i].mark
          BY <4>4
        <5>1. CASE i < k
          BY <5>1, <4>2, <4>4, <4>5, <2>2, <1>l
        <5>2. CASE i = k
          BY <5>2, <4>6, <2>2, <2>3
        <5>3. CASE i > k
          <6>1. Visits'[i] = Visits[i - 1] /\ i - 1 \in 1 .. Len(Visits) /\ i - 1 < d
            BY <5>3, <4>4, <2>2, <1>l, <1>n
          <6> QED BY <6>1, <4>5
        <5>4. i < k \/ i = k \/ i > k
          BY <1>l, <4>4, <1>n
        <5> QED BY <5>1, <5>2, <5>3, <5>4
    <3> QED BY <3>3, <3>4
  <2>10. Len(Visits') <= MaxMarks
    BY <2>2, <1>l, <1>n
  <2> QED BY <2>2, <2>7, <2>8, <2>9, <2>10
<1>3. ASSUME Held(Visits, m) = {}, Older(Visits, m) = {} PROVE Good
  <2>1. /\ \A i \in 1 .. Len(Visits) : Visits[i].mark > m
        /\ Visits' = IF Len(Visits) < MaxMarks THEN Append(Visits, FirstVisit(m)) ELSE Visits
    BY <1>3, <1>q, <1>n, <1>i, <1>m, <1>s, NoteOldestMark
  <2>2. \A i \in 1 .. Len(Visits) : Visits[i].mark # m
    BY <2>1, <1>i, <1>m
  <2>3. CASE Len(Visits) < MaxMarks
    <3>1. /\ Visits' \in Seq(VisitRecord) /\ Len(Visits') = Len(Visits) + 1
          /\ \A i \in 1 .. Len(Visits) : Visits'[i] = Visits[i]
          /\ Visits'[Len(Visits) + 1] = FirstVisit(m)
      BY <2>1, <2>3, <1>q, <1>l, <1>f, AppendProperties
    <3>2. FirstVisit(m).mark = m /\ FirstVisit(m).count = 1
      BY DEF FirstVisit
    <3>3. noted[m] = 0
      <4>1. ~(noted[m] > 0)
        BY <2>2, <2>3, <1>w, <1>m, <1>l, <1>n
      <4> QED BY <4>1, <1>c, <1>m
    <3>4. \A i, j \in 1 .. Len(Visits') :
           i < j => Visits'[i].mark - Visits'[j].mark >= j - i
      <4> SUFFICES ASSUME NEW i \in 1 .. Len(Visits'), NEW j \in 1 .. Len(Visits'), i < j
                   PROVE  Visits'[i].mark - Visits'[j].mark >= j - i
        OBVIOUS
      <4>1. CASE j <= Len(Visits)
        <5>1. i \in 1 .. Len(Visits) /\ j \in 1 .. Len(Visits)
          BY <4>1, <3>1, <1>l
        <5> QED BY <5>1, <3>1, <1>o
      <4>2. CASE j = Len(Visits) + 1
        <5>1. i \in 1 .. Len(Visits) /\ Visits'[i] = Visits[i] /\ Visits'[j].mark = m
          BY <4>2, <3>1, <3>2, <1>l
        <5>2. Visits[i].mark - Visits[Len(Visits)].mark >= Len(Visits) - i
          <6>1. Len(Visits) \in 1 .. Len(Visits) /\ i <= Len(Visits)
            BY <5>1, <1>l
          <6> QED BY <6>1, <5>1, <1>p
        <5>3. Visits[Len(Visits)].mark > m
          BY <5>1, <2>1, <1>l
        <5>4. Visits[i].mark \in Int /\ Visits[Len(Visits)].mark \in Int
          BY <5>1, <1>i, <1>l
        <5> QED BY <5>1, <5>2, <5>3, <5>4, <4>2, <1>l, <1>m
      <4> QED BY <4>1, <4>2, <3>1, <1>l
    <3>5. \A i \in 1 .. Len(Visits') : Visits'[i].count = noted'[Visits'[i].mark]
      BY <3>1, <3>2, <3>3, <2>2, <1>e, <1>g, <1>i, <1>l
    <3>6. \A x \in Marks :
           noted'[x] > 0 => \E i \in 1 .. Len(Visits') : Visits'[i].mark = x
      <4> SUFFICES ASSUME NEW x \in Marks, noted'[x] > 0
                   PROVE  \E i \in 1 .. Len(Visits') : Visits'[i].mark = x
        OBVIOUS
      <4>1. CASE x = m
        BY <4>1, <3>1, <3>2, <1>l
      <4>2. CASE x # m
        <5>1. \E i \in 1 .. Len(Visits) : Visits[i].mark = x
          BY <4>2, <2>3, <1>w, <1>g, <1>l, <1>n
        <5> QED BY <5>1, <3>1, <1>l
      <4> QED BY <4>1, <4>2
    <3> QED BY <3>1, <3>4, <3>5, <3>6, <2>3, <1>l, <1>n
  <2>4. CASE ~(Len(Visits) < MaxMarks)
    <3>1. Visits' = Visits /\ Len(Visits) = MaxMarks
      BY <2>1, <2>4, <1>o, <1>l, <1>n
    <3>2. \A i \in 1 .. Len(Visits) : Visits[i].count = noted'[Visits[i].mark]
      BY <2>2, <1>e, <1>g, <1>i
    <3>3. \A x \in Marks :
           noted'[x] > 0 /\ (\A i \in 1 .. Len(Visits) : Visits[i].mark # x)
             => \A i \in 1 .. Len(Visits) : x < Visits[i].mark
      BY <2>1, <1>w, <1>g, <1>i, <1>m
    <3> QED BY <3>1, <3>2, <3>3, <1>q, <1>o
  <2> QED BY <2>3, <2>4
<1>4. Good
  BY <1>1, <1>2, <1>3
<1>5. DOMAIN Visits' = 1 .. Len(Visits')
  BY <1>4, LenProperties
<1>6. TypeOK'
  BY <1>4, <1>g DEF TypeOK, VisitRecord
<1>7. HistoryIsOrdered'
  BY <1>4, <1>5 DEF HistoryIsOrdered
<1>8. HistoryIsExact'
  BY <1>4, <1>5 DEF HistoryIsExact
<1>9. HistoryIsNewest'
  BY <1>4, <1>5 DEF HistoryIsNewest, MarksIn
<1> QED BY <1>6, <1>7, <1>8, <1>9 DEF IInv

-----------------------------------------------------------------------------

(* The inductive invariant holds in every reachable state.                   *)
THEOREM Invariance == Spec => []IInv
<1>1. IInv /\ [Next]_vars => IInv'
  <2> SUFFICES ASSUME IInv, [Next]_vars PROVE IInv'
    OBVIOUS
  <2>1. CASE Next
    BY <2>1, NextIInv DEF Next
  <2>2. CASE UNCHANGED vars
    BY <2>2 DEF vars, IInv, TypeOK, HistoryIsOrdered, HistoryIsExact,
                HistoryIsNewest, MarksIn
  <2> QED BY <2>1, <2>2
<1> QED BY InitIInv, <1>1, PTL DEF Spec

(* A time frame in the history has at least one visit (timestat.go:45-73).   *)
THEOREM HistoryTypes == Spec => []TypeOK
<1>1. IInv => TypeOK
  BY DEF IInv
<1> QED BY <1>1, Invariance, PTL

(* The history is newest first and without doubles and never outgrows its    *)
(* bound, whatever order the timestamps come in (timestat.go:53-73).         *)
THEOREM HistoryStaysOrdered == Spec => []HistoryIsOrdered
<1>1. IInv => HistoryIsOrdered
  BY DEF IInv
<1> QED BY <1>1, Invariance, PTL

(* No frame that was pushed out comes back with a count that starts again at *)
(* one (timestat.go:46-51 and 64-66).                                        *)
THEOREM HistoryStaysExact == Spec => []HistoryIsExact
<1>1. IInv => HistoryIsExact
  BY DEF IInv
<1> QED BY <1>1, Invariance, PTL

(* What the history lacks is older than all it holds, and it is full         *)
(* (timestat.go:60-73).                                                      *)
THEOREM HistoryStaysNewest == Spec => []HistoryIsNewest
<1>1. IInv => HistoryIsNewest
  BY DEF IInv
<1> QED BY <1>1, Invariance, PTL

(* While no visit lies in the future of now, any time, each of the last      *)
(* MaxMarks frames is reported with all its visits.                          *)
LEMMA ReportedIsNoted ==
  ASSUME IInv, NEW now \in Int, NEW m \in Marks,
         \A x \in Marks : noted[x] > 0 => x <= now,
         now - m \in 0 .. (MaxMarks - 1)
  PROVE  CountAt(Visits, m) = noted[m]
<1>1. /\ Visits \in [1 .. Len(Visits) -> VisitRecord]
      /\ DOMAIN Visits = 1 .. Len(Visits) /\ Len(Visits) \in Nat
      /\ noted \in [Marks -> Nat]
  BY LenProperties DEF IInv, TypeOK, VisitRecord
<1>2. m \in Int /\ MaxMarks \in Nat /\ noted[m] \in Nat
  BY <1>1, MarksAreIntegers, ConstantsAssumption
<1>3. \A i \in 1 .. Len(Visits) :
        /\ Visits[i].mark \in Marks /\ Visits[i].mark \in Int
        /\ Visits[i].count \in Nat \ {0}
        /\ Visits[i].count = noted[Visits[i].mark]
  BY <1>1, MarksAreIntegers DEF IInv, HistoryIsExact, VisitRecord
<1>4. CASE m \in MarksIn(Visits)
  <2>1. Held(Visits, m) # {} /\ Held(Visits, m) \in SUBSET Nat
    BY <1>4, <1>1 DEF MarksIn, Held
  <2>2. First(Held(Visits, m)) \in Held(Visits, m)
    BY <2>1, FirstIsLeast
  <2>3. First(Held(Visits, m)) \in 1 .. Len(Visits)
        /\ Visits[First(Held(Visits, m))].mark = m
    BY <2>2, <1>1 DEF Held
  <2> QED BY <2>3, <1>3, <1>4 DEF CountAt
<1>5. CASE m \notin MarksIn(Visits)
  <2>1. SUFFICES ASSUME noted[m] > 0 PROVE FALSE
    BY <1>5, <1>2 DEF CountAt
  <2>2. Len(Visits) = MaxMarks /\ \A i \in 1 .. Len(Visits) : m < Visits[i].mark
    BY <2>1, <1>5, <1>1 DEF IInv, HistoryIsNewest, MarksIn
  <2>3. 1 \in 1 .. MaxMarks /\ MaxMarks \in 1 .. MaxMarks
    BY <1>2
  <2>4. Visits[1].mark <= now /\ Visits[1].mark \in Int /\ Visits[MaxMarks].mark \in Int
    BY <2>2, <2>3, <1>3
  <2>5. Visits[1].mark - Visits[MaxMarks].mark >= MaxMarks - 1
    <3>1. CASE MaxMarks = 1
      BY <3>1, <2>4
    <3>2. CASE 1 < MaxMarks
      BY <3>2, <2>2, <2>3, <1>1 DEF IInv, HistoryIsOrdered
    <3> QED BY <3>1, <3>2, <2>3, <1>2
  <2>6. m < Visits[MaxMarks].mark
    BY <2>2, <2>3
  <2> QED BY <2>4, <2>5, <2>6, <1>2
<1> QED BY <1>4, <1>5

(* A report over the last MaxMarks frames, made while no visit lies in the   *)
(* future, misses nothing (ross.go:234-267 on top of timestat.go:45-73).     *)
THEOREM ReportIsComplete == Spec => []RecentFramesAreComplete
<1>1. IInv => RecentFramesAreComplete
  BY ReportedIsNoted, MarksAreIntegers DEF RecentFramesAreComplete
<1> QED BY <1>1, Invariance, PTL

-----------------------------------------------------------------------------
(* The chart.                                                                *)

LEMMA QuotientBounds ==
  ASSUME NEW a \in Int, NEW b \in Nat \ {0}
  PROVE  a \div b \in Int /\ b * (a \div b) <= a /\ a < b * (a \div b) + b
OBVIOUS

LEMMA LaterDay ==
  ASSUME NEW D \in Nat \ {0}, NEW d \in Int, NEW e \in Int, d < e
  PROVE  d * D \in Int /\ e * D \in Int /\ d * D + D <= e * D /\ d * D < e * D
OBVIOUS

LEMMA Midnight ==
  ASSUME NEW D \in Nat \ {0}, NEW t \in Int
  PROVE  t % D = 0 <=> \E d \in Int : t = d * D
<1>1. t % D \in 0 .. D - 1 /\ t = D * (t \div D) + (t % D) /\ t \div D \in Int
  OBVIOUS
<1>2. t % D = 0 => \E d \in Int : t = d * D
  <2> DEFINE q == t \div D
  <2>1. q \in Int /\ (t % D = 0 => t = q * D)
    BY <1>1
  <2> QED BY <2>1
<1>3. ASSUME NEW d \in Int, t = d * D PROVE t % D = 0
  <2> DEFINE q == t \div D
             r == t % D
  <2>1. q \in Int /\ r \in 0 .. D - 1 /\ d * D = D * q + r
    BY <1>1, <1>3
  <2> HIDE DEF q, r
  <2>2. CASE d < q
    <3>1. d * D + D <= q * D
      BY <2>1, <2>2, LaterDay
    <3> QED BY <2>1, <3>1
  <2>3. CASE q < d
    <3>1. q * D + D <= d * D
      BY <2>1, <2>3, LaterDay
    <3> QED BY <2>1, <3>1
  <2>4. CASE d = q
    BY <2>1, <2>4 DEF r
  <2> QED BY <2>1, <2>2, <2>3, <2>4
<1> QED BY <1>2, <1>3

(* From the first day on, n days begin at least at mn and before mx.         *)
AreDays(D, mn, mx, first, n) ==
  /\ first \in Int /\ n \in Nat
  /\ \A d \in Int : first <= d <=> mn <= d * D
  /\ \A d \in Int : d < first + n <=> d * D < mx

(* The midnights from the first at least mn on, before mx, are consecutive.  *)
LEMMA DaysBetween ==
  ASSUME NEW D \in Nat \ {0}, NEW mn \in Nat, NEW mx \in Nat, mn <= mx,
         NEW first, first = (mn + D - 1) \div D,
         NEW days, days = {d \in first .. mx : d * D < mx}
  PROVE  AreDays(D, mn, mx, first, Cardinality(days))
<1> DEFINE q == (mx - 1) \div D
           n == q + 1 - first
<1>1. first \in Int /\ D * first <= mn + D - 1 /\ mn + D - 1 < D * first + D
  BY QuotientBounds
<1>2. q \in Int /\ D * q <= mx - 1 /\ mx - 1 < D * q + D
  BY QuotientBounds
<1> HIDE DEF q
<1>3. ASSUME NEW d \in Int PROVE first <= d <=> mn <= d * D
  <2>1. CASE first = d
    BY <2>1, <1>1
  <2>2. CASE first < d
    <3>1. first * D + D <= d * D
      BY <1>1, <2>2, LaterDay
    <3> QED BY <1>1, <2>2, <3>1
  <2>3. CASE d < first
    <3>1. d * D + D <= first * D /\ d * D \in Int
      BY <1>1, <2>3, LaterDay
    <3> QED BY <1>1, <2>3, <3>1
  <2> QED BY <1>1, <2>1, <2>2, <2>3
<1>4. ASSUME NEW d \in Int PROVE d < q + 1 <=> d * D < mx
  <2>1. CASE d = q
    BY <2>1, <1>2
  <2>2. CASE d < q
    <3>1. d * D + D <= q * D /\ d * D \in Int
      BY <1>2, <2>2, LaterDay
    <3> QED BY <1>2, <2>2, <3>1
  <2>3. CASE q < d
    <3>1. q * D + D <= d * D
      BY <1>2, <2>3, LaterDay
    <3> QED BY <1>2, <2>3, <3>1
  <2> QED BY <1>2, <2>1, <2>2, <2>3
<1>5. n \in Nat
  <2> SUFFICES ASSUME q + 1 < first PROVE FALSE
    BY <1>1, <1>2
  <2>1. ~(mn <= (q + 1) * D) /\ ~((q + 1) * D < mx) /\ (q + 1) * D \in Int
    BY <1>1, <1>2, <1>3, <1>4
  <2> QED BY <2>1
<1>6. days = first .. q
  <2>1. ASSUME NEW d \in first .. q PROVE d \in first .. mx
    <3>1. d \in Int /\ mn <= d * D /\ d * D < mx
      BY <1>1, <1>2, <1>3, <1>4
    <3>2. CASE d <= 0
      BY <3>1, <3>2, <2>1, <1>1
    <3>3. CASE d > 0
      <4>1. d <= d * D
        BY <3>1, <3>3
      <4> QED BY <3>1, <4>1, <2>1, <1>1
    <3> QED BY <3>1, <3>2, <3>3
  <2>2. \A d \in first .. mx : d * D < mx <=> d \in first .. q
    BY <1>1, <1>2, <1>4
  <2> QED BY <2>1, <2>2
<1>7. Cardinality(days) = n
  <2>1. Cardinality(first .. q) = IF first > q THEN 0 ELSE q - first + 1
    BY <1>1, <1>2, FS_Interval
  <2>2. (IF first > q THEN 0 ELSE q - first + 1) = n
    BY <1>1, <1>2, <1>5
  <2> QED BY Zenon, <1>6, <2>1, <2>2
<1>8. first + n = q + 1
  BY <1>1, <1>2
<1>9. AreDays(D, mn, mx, first, n)
  BY <1>1, <1>3, <1>4, <1>5, <1>8 DEF AreDays
<1> QED BY Zenon, <1>7, <1>9

(* The lines of the grid are the ticks but those at the ends.                *)
LEMMA LinesOfTicks ==
  ASSUME NEW ticks \in Seq(Int), NEW b \in Nat, Len(ticks) = b + 1
  PROVE  {makeGridLines(ticks)[i] : i \in DOMAIN makeGridLines(ticks)} = {ticks[j] : j \in 2 .. b}
<1> DEFINE lines == makeGridLines(ticks)
<1>1. CASE b < 2
  <2>1. lines = <<>> /\ 2 .. b = {}
    BY <1>1 DEF makeGridLines
  <2> QED BY <2>1
<1>2. CASE b >= 2
  <2>1. b - 2 + 1 = b - 1 /\ Len(ticks) - 1 = b /\ ~(Len(ticks) < 3)
    BY <1>2
  <2>2. lines = SubSeq(ticks, 2, b)
    BY <2>1 DEF makeGridLines
  <2>3. \A j \in 2 .. b : ticks[j] \in Int
    <3> TAKE j \in 2 .. b
    <3>1. j \in 1 .. Len(ticks)
      OBVIOUS
    <3> QED BY <3>1, ElementOfSeq
  <2>4. /\ SubSeq(ticks, 2, b) \in Seq(Int)
        /\ Len(SubSeq(ticks, 2, b)) = IF 2 <= b THEN b - 2 + 1 ELSE 0
        /\ \A i \in 1 .. b - 2 + 1 : SubSeq(ticks, 2, b)[i] = ticks[2 + i - 1]
    BY <2>3, SubSeqProperties
  <2> HIDE DEF lines
  <2>5. lines \in Seq(Int) /\ Len(lines) = b - 1
    BY <1>2, <2>1, <2>2, <2>4
  <2>6. DOMAIN lines = 1 .. b - 1
    BY <2>5, LenProperties
  <2>7. ASSUME NEW i \in 1 .. b - 1 PROVE lines[i] = ticks[i + 1]
    <3>1. i \in 1 .. b - 2 + 1 /\ 2 + i - 1 = i + 1
      BY <2>1
    <3>2. lines[i] = ticks[2 + i - 1]
      BY <2>2, <2>4, <3>1
    <3> QED BY <3>1, <3>2
  <2>8. ASSUME NEW j \in 2 .. b PROVE \E i \in DOMAIN lines : lines[i] = ticks[j]
    <3>1. j - 1 \in 1 .. b - 1 /\ (j - 1) + 1 = j
      OBVIOUS
    <3>2. lines[j - 1] = ticks[(j - 1) + 1]
      BY <2>7, <3>1
    <3> QED BY <3>1, <3>2, <2>6
  <2>9. ASSUME NEW i \in DOMAIN lines PROVE \E j \in 2 .. b : lines[i] = ticks[j]
    <3>1. i + 1 \in 2 .. b
      BY <2>6
    <3> QED BY <3>1, <2>6, <2>7
  <2>10. {lines[i] : i \in DOMAIN lines} = {ticks[j] : j \in 2 .. b}
    BY <2>8, <2>9
  <2> QED BY <2>10 DEF lines
<1>3. b < 2 \/ b >= 2
  OBVIOUS
<1> QED BY <1>1, <1>2, <1>3

(* An axis, in order, an hour longer than up to mx, and a line per midnight. *)
IsAxis(ticks, lines, mx) ==
  /\ \A i \in 1 .. Len(ticks) - 1 : ticks[i] < ticks[i + 1]
  /\ ticks[1] \in Int /\ ticks[Len(ticks)] = mx + Hour
  /\ {lines[i] : i \in DOMAIN lines}
       = {t \in ticks[1] + 1 .. mx - 1 : t % SecondsPerDay = 0}

(* The axis: its left end unless that is a midnight, the midnights, and its  *)
(* right end; the lines are the midnights but those at the ends.             *)
LEMMA AxisOfDays ==
  ASSUME NEW stat, stat # <<>>, NEW mn \in Nat, NEW mx \in Nat, mn <= mx,
         Min({stat[i].time : i \in DOMAIN stat}) = mn,
         Max({stat[i].time : i \in DOMAIN stat}) = mx
  PROVE  IsAxis(makeDayTicks(stat), makeGridLines(makeDayTicks(stat)), mx)
<1> DEFINE D == SecondsPerDay
           first == (mn + D - 1) \div D
           days == {d \in first .. mx : d * D < mx}
           n == Cardinality(days)
           start == IF mn < first * D THEN <<mn>> ELSE <<>>
           middle == [i \in 1 .. n |-> (first + i - 1) * D]
           end == <<mx + Hour>>
           ticks == start \o middle \o end
           p == Len(start)
           lines == makeGridLines(ticks)
<1>1. makeDayTicks(stat) = ticks
  BY DEF makeDayTicks
<1>2. D \in Nat \ {0} /\ Hour \in Nat \ {0}
  BY ChartAssumption
<1>3. /\ first \in Int /\ n \in Nat
      /\ \A d \in Int : first <= d <=> mn <= d * D
      /\ \A d \in Int : d < first + n <=> d * D < mx
  <2> HIDE DEF D
  <2>1. AreDays(D, mn, mx, first, n)
    BY <1>2, DaysBetween
  <2> HIDE DEF first, n
  <2> QED BY <2>1 DEF AreDays
<1> HIDE DEF D, first, n
<1>4. /\ start \in Seq(Int) /\ p \in {0, 1}
      /\ p = 1 => mn < first * D /\ start[1] = mn
      /\ p = 0 => first * D = mn
  <2>1. first * D \in Int /\ mn <= first * D
    BY <1>2, <1>3
  <2>2. CASE mn < first * D
    <3>1. start = <<mn>>
      BY <2>2
    <3> HIDE DEF start
    <3> QED BY <2>2, <3>1
  <2>3. CASE ~(mn < first * D)
    <3>1. start = <<>>
      BY <2>3
    <3> HIDE DEF start
    <3> QED BY <2>1, <2>3, <3>1
  <2> QED BY <2>2, <2>3
<1> HIDE DEF start
<1>5. middle \in Seq(Int) /\ Len(middle) = n /\ \A i \in 1 .. n : middle[i] = (first + i - 1) * D
  <2>1. \A i \in 1 .. n : (first + i - 1) * D \in Int
    BY <1>2, <1>3
  <2>2. middle \in [1 .. n -> Int]
    BY <2>1
  <2>3. middle \in Seq(Int)
    BY <1>3, <2>2, SeqDef
  <2>4. DOMAIN middle = 1 .. Len(middle) /\ Len(middle) \in Nat /\ DOMAIN middle = 1 .. n
    BY <2>3, LenProperties
  <2>5. Len(middle) = n
    <3> DEFINE l == Len(middle)
    <3>1. l \in Nat /\ n \in Nat /\ 1 .. l = 1 .. n
      BY <1>3, <2>4
    <3> HIDE DEF l, middle
    <3>2. \A i \in Int : 1 <= i /\ i <= l <=> 1 <= i /\ i <= n
      <4> TAKE i \in Int
      <4> QED BY <3>1
    <3>3. l = n
      BY <3>1, <3>2
    <3> QED BY <3>3 DEF l
  <2> QED BY <2>3, <2>5
<1> HIDE DEF middle
<1>6. end \in Seq(Int) /\ Len(end) = 1 /\ end[1] = mx + Hour
  BY <1>2
<1> HIDE DEF end
<1>7. /\ Len(ticks) = p + n + 1
      /\ p = 1 => ticks[1] = mn
      /\ \A k \in 1 .. n : ticks[p + k] = (first + k - 1) * D
      /\ ticks[p + n + 1] = mx + Hour
      /\ ticks \in Seq(Int)
  <2> DEFINE front == start \o middle
  <2>1. /\ front \in Seq(Int) /\ Len(front) = p + n
        /\ \A i \in 1 .. p + n : front[i] = IF i <= p THEN start[i] ELSE middle[i - p]
    BY <1>4, <1>5, ConcatProperties
  <2> HIDE DEF front
  <2>2. /\ front \o end \in Seq(Int) /\ Len(front \o end) = p + n + 1
        /\ \A i \in 1 .. p + n + 1 :
             (front \o end)[i] = IF i <= p + n THEN front[i] ELSE end[i - (p + n)]
    <3>1. /\ front \o end \in Seq(Int) /\ Len(front \o end) = Len(front) + Len(end)
          /\ \A i \in 1 .. Len(front) + Len(end) :
               (front \o end)[i] = IF i <= Len(front) THEN front[i] ELSE end[i - Len(front)]
      BY <2>1, <1>6, ConcatProperties
    <3> QED BY <3>1, <2>1, <1>6
  <2> DEFINE t == front \o end
  <2>3. ticks = t
    BY DEF front
  <2> HIDE DEF t, ticks
  <2>4. /\ t \in Seq(Int) /\ Len(t) = p + n + 1
        /\ \A i \in 1 .. p + n + 1 : t[i] = IF i <= p + n THEN front[i] ELSE end[i - (p + n)]
    BY <2>2 DEF t
  <2> HIDE DEF p
  <2>5. t[p + n + 1] = mx + Hour
    BY <2>4, <1>3, <1>4, <1>6
  <2>6. p = 1 => t[1] = mn
    BY <2>1, <2>4, <1>3, <1>4
  <2>7. ASSUME NEW k \in 1 .. n PROVE t[p + k] = (first + k - 1) * D
    <3>1. p + k \in 1 .. p + n /\ ~(p + k <= p) /\ (p + k) - p = k
      BY <1>3, <1>4
    <3>2. t[p + k] = front[p + k] /\ front[p + k] = middle[k]
      BY <2>1, <2>4, <3>1, <1>3, <1>4
    <3> QED BY <3>2, <1>5
  <2> QED BY <2>3, <2>4, <2>5, <2>6, <2>7
<1> HIDE DEF ticks, p
<1>8. \A k \in 1 .. n : first + k - 1 \in Int /\ (first + k - 1) * D \in Int /\ (first + k - 1) * D < mx
  <2> TAKE k \in 1 .. n
  <2> DEFINE d == first + k - 1
  <2>1. d \in Int /\ d < first + n
    BY <1>3
  <2> HIDE DEF d
  <2>2. d * D < mx /\ d * D \in Int
    BY <1>2, <1>3, <2>1
  <2> QED BY <2>1, <2>2 DEF d
<1>9. ASSUME NEW i \in 1 .. Len(ticks) - 1 PROVE ticks[i] < ticks[i + 1]
  <2>0. i \in 1 .. p + n
    BY <1>3, <1>4, <1>7
  <2>1. CASE i <= p
    <3>1. i = 1 /\ p = 1 /\ ticks[i] = mn /\ mn < first * D
      BY <2>0, <2>1, <1>4, <1>7
    <3>2. CASE n = 0
      <4>1. ticks[i + 1] = mx + Hour
        BY <3>1, <3>2, <1>7
      <4> QED BY <3>1, <4>1, <1>2
    <3>3. CASE n > 0
      <4>1. ticks[p + 1] = (first + 1 - 1) * D
        BY <3>3, <1>3, <1>7
      <4>2. (first + 1 - 1) * D = first * D
        BY <1>3
      <4> QED BY <3>1, <4>1, <4>2
    <3> QED BY <3>2, <3>3, <1>3
  <2>2. CASE p < i
    <3> DEFINE k == i - p
    <3>1. k \in 1 .. n /\ i = p + k /\ i + 1 = p + (k + 1)
      BY <2>0, <2>2, <1>3, <1>4
    <3> HIDE DEF k
    <3>2. ticks[i] = (first + k - 1) * D
      BY <3>1, <1>7
    <3>3. CASE k = n
      <4>1. ticks[i + 1] = mx + Hour
        BY <3>1, <3>3, <1>7, <1>3, <1>4
      <4> QED BY <3>1, <3>2, <4>1, <1>2, <1>8
    <3>4. CASE k < n
      <4>1. k + 1 \in 1 .. n
        BY <3>1, <3>4, <1>3
      <4>2. ticks[i + 1] = (first + (k + 1) - 1) * D
        BY <3>1, <4>1, <1>7
      <4>3. first + k - 1 \in Int /\ first + (k + 1) - 1 \in Int
            /\ first + k - 1 < first + (k + 1) - 1
        BY <3>1, <1>3
      <4>4. (first + k - 1) * D < (first + (k + 1) - 1) * D
        BY <4>3, <1>2, LaterDay
      <4> QED BY <3>2, <4>2, <4>4
    <3> QED BY <3>1, <3>3, <3>4, <1>3
  <2> QED BY <2>0, <2>1, <2>2, <1>3, <1>4
<1>10. ticks[1] \in Int /\ ticks[Len(ticks)] = mx + Hour /\ Len(ticks) \in Nat \ {0}
  <2>1. 1 \in 1 .. Len(ticks) /\ Len(ticks) \in Nat \ {0}
    BY <1>3, <1>4, <1>7
  <2> QED BY <2>1, <1>7, ElementOfSeq
<1>11. {lines[i] : i \in DOMAIN lines} = {ticks[j] : j \in 2 .. p + n}
  <2> DEFINE b == p + n
  <2>1. b \in Nat /\ Len(ticks) = b + 1 /\ ticks \in Seq(Int)
    BY <1>3, <1>4, <1>7
  <2> HIDE DEF b
  <2>2. {makeGridLines(ticks)[i] : i \in DOMAIN makeGridLines(ticks)} = {ticks[j] : j \in 2 .. b}
    BY <2>1, LinesOfTicks
  <2> QED BY <2>2 DEF b, lines
<1> HIDE DEF lines
<1>12. ASSUME NEW j \in 2 .. p + n
       PROVE  /\ ticks[j] \in ticks[1] + 1 .. mx - 1
              /\ ticks[j] % D = 0
  <2> DEFINE k == j - p
  <2>1. k \in 1 .. n /\ j = p + k /\ (p = 0 => k >= 2 /\ n >= 1)
    BY <1>3, <1>4
  <2> HIDE DEF k
  <2>2. ticks[j] = (first + k - 1) * D /\ ticks[j] \in Int /\ ticks[j] < mx
    BY <2>1, <1>7, <1>8
  <2>3. ticks[1] < ticks[j]
    <3>1. CASE p = 1
      <4>1. mn < first * D /\ first * D \in Int /\ ticks[1] = mn
        BY <3>1, <1>2, <1>3, <1>4, <1>7
      <4>2. CASE k = 1
        <5>1. (first + k - 1) * D = first * D
          BY <4>2, <1>3
        <5> QED BY <4>1, <5>1, <2>2
      <4>3. CASE k > 1
        <5>1. first < first + k - 1 /\ first + k - 1 \in Int
          BY <4>3, <2>1, <1>3
        <5>2. first * D < (first + k - 1) * D
          BY <5>1, <1>2, <1>3, LaterDay
        <5> QED BY <4>1, <5>2, <2>2
      <4> QED BY <4>2, <4>3, <2>1
    <3>2. CASE p = 0
      <4>1. ticks[p + 1] = (first + 1 - 1) * D
        BY <3>2, <2>1, <1>3, <1>7
      <4>2. first + 1 - 1 \in Int /\ first + k - 1 \in Int /\ first + 1 - 1 < first + k - 1
        BY <3>2, <2>1, <1>3
      <4>3. (first + 1 - 1) * D < (first + k - 1) * D
        BY <4>2, <1>2, LaterDay
      <4> QED BY <3>2, <4>1, <4>3, <2>2
    <3> QED BY <3>1, <3>2, <1>4
  <2>4. ticks[j] % D = 0
    <3>1. \E d \in Int : ticks[j] = d * D
      BY <2>1, <2>2, <1>3
    <3> QED BY <3>1, <2>2, <1>2, Midnight
  <2> QED BY <2>2, <2>3, <2>4, <1>10
<1>13. ASSUME NEW t \in ticks[1] + 1 .. mx - 1, t % D = 0
       PROVE  \E j \in 2 .. p + n : t = ticks[j]
  <2>0. t \in Int /\ ticks[1] < t /\ t < mx
    BY <1>10
  <2>1. PICK d \in Int : t = d * D
    BY <2>0, <1>2, <1>13, Midnight
  <2>2. d < first + n
    BY <2>0, <2>1, <1>3
  <2> DEFINE k == d - first + 1
  <2>3. k \in Int /\ k <= n /\ first + k - 1 = d /\ d = first + (k - 1)
    BY <2>1, <2>2, <1>3
  <2>4. CASE p = 1
    <3>1. ticks[1] = mn
      BY <2>4, <1>7
    <3>2. first <= d
      BY <2>0, <2>1, <3>1, <1>3
    <3>3. k \in 1 .. n /\ p + k \in 2 .. p + n
      BY <2>1, <2>3, <2>4, <3>2, <1>3
    <3> HIDE DEF k
    <3>4. ticks[p + k] = (first + k - 1) * D
      BY <3>3, <1>7
    <3>5. ticks[p + k] = t
      BY <3>4, <2>1, <2>3
    <3> QED BY <3>3, <3>5
  <2>5. CASE p = 0
    <3>1. n > 0
      <4> SUFFICES ASSUME n = 0 PROVE FALSE
        BY <1>3
      <4>1. ticks[1] = mx + Hour
        BY <2>5, <1>7
      <4> QED BY <4>1, <2>0, <1>2
    <3>2. ticks[p + 1] = (first + 1 - 1) * D /\ (first + 1 - 1) * D = first * D
      BY <3>1, <1>3, <1>7
    <3>3. first * D < d * D
      BY <2>5, <3>2, <2>0, <2>1
    <3>4. first < d
      <4>1. CASE d = first
        BY <4>1, <3>3, <1>2, <1>3
      <4>2. CASE d < first
        <5>1. d * D < first * D /\ d * D \in Int /\ first * D \in Int
          BY <4>2, <2>1, <1>2, <1>3, LaterDay
        <5> QED BY <5>1, <3>3
      <4> QED BY <4>1, <4>2, <2>1, <1>3
    <3>5. k \in 2 .. n /\ p + k \in 2 .. p + n /\ k \in 1 .. n
      BY <2>1, <2>3, <2>5, <3>4, <1>3
    <3> HIDE DEF k
    <3>6. ticks[p + k] = (first + k - 1) * D
      BY <3>5, <1>7
    <3>7. ticks[p + k] = t
      BY <3>6, <2>1, <2>3
    <3> QED BY <3>5, <3>7
  <2> QED BY <2>4, <2>5, <1>4
<1>14. {lines[i] : i \in DOMAIN lines} = {t \in ticks[1] + 1 .. mx - 1 : t % D = 0}
  BY <1>11, <1>12, <1>13
<1>15. lines = makeGridLines(makeDayTicks(stat))
  BY <1>1 DEF lines
<1>16. IsAxis(ticks, lines, mx)
  BY <1>9, <1>10, <1>14 DEF IsAxis, D
<1> QED BY Zenon, <1>1, <1>15, <1>16

LEMMA LeastIsMin ==
  ASSUME NEW S, S \subseteq Int, NEW x \in S, \A y \in S : x <= y
  PROVE  Min(S) = x
<1> DEFINE Least(z) == z \in S /\ \A y \in S : z <= y
<1>1. \A z : Least(z) => z = x
  OBVIOUS
<1>2. Least(x)
  OBVIOUS
<1>3. Min(S) = CHOOSE z : Least(z)
  BY DEF Min
<1> HIDE DEF Least
<1> QED BY <1>1, <1>2, <1>3

LEMMA GreatestIsMax ==
  ASSUME NEW S, S \subseteq Int, NEW x \in S, \A y \in S : y <= x
  PROVE  Max(S) = x
<1> DEFINE Greatest(z) == z \in S /\ \A y \in S : z >= y
<1>1. \A z : Greatest(z) => z = x
  OBVIOUS
<1>2. Greatest(x)
  OBVIOUS
<1>3. Max(S) = CHOOSE z : Greatest(z)
  BY DEF Max
<1> HIDE DEF Greatest
<1> QED BY <1>1, <1>2, <1>3

(* A report of size frames, the first one being the given frame.             *)
IsReportFrom(stat, visits, frame, size) ==
  /\ DOMAIN stat = 1 .. size
  /\ stat # <<>>
  /\ \A i \in 1 .. size :
       /\ stat[i].time = (frame - i + 1) * Timeframe
       /\ stat[i].count = CountAt(visits, frame - i + 1)

(* A report without its first n lines.                                       *)
LEMMA RestOfReport ==
  ASSUME NEW visits, NEW now \in Int, NEW size \in Nat, NEW n \in Nat, n < size
  PROVE  IsReportFrom(From(getActivityStat(visits, now, size), n), visits, now - n, size - n)
<1> DEFINE report == getActivityStat(visits, now, size)
           rest == From(report, n)
           T == {report[i] : i \in 1 .. size}
<1>1. report \in [1 .. size -> T]
  BY DEF getActivityStat
<1>2. report \in Seq(T) /\ Len(report) = size
  <2>1. report \in Seq(T)
    BY <1>1, SeqDef
  <2>2. DOMAIN report = 1 .. Len(report) /\ Len(report) \in Nat /\ DOMAIN report = 1 .. size
    BY <2>1, <1>1, LenProperties
  <2> DEFINE l == Len(report)
  <2>3. l \in Nat /\ 1 .. l = 1 .. size
    BY <2>2
  <2> HIDE DEF l, report
  <2>4. \A i \in Int : 1 <= i /\ i <= l <=> 1 <= i /\ i <= size
    <3> TAKE i \in Int
    <3> QED BY <2>3
  <2>5. l = size
    BY <2>3, <2>4
  <2> QED BY <2>1, <2>5 DEF l
<1>3. \A i \in 1 .. size :
        /\ report[i].time = (now - i + 1) * Timeframe
        /\ report[i].count = CountAt(visits, now - i + 1)
  BY DEF getActivityStat
<1>4. rest = SubSeq(report, n + 1, size)
  BY <1>2 DEF From
<1>5. \A i \in n + 1 .. size : report[i] \in T
  BY <1>1
<1> HIDE DEF report, rest, T
<1>6. /\ SubSeq(report, n + 1, size) \in Seq(T)
      /\ Len(SubSeq(report, n + 1, size)) = IF n + 1 <= size THEN size - (n + 1) + 1 ELSE 0
      /\ \A i \in 1 .. size - (n + 1) + 1 :
           SubSeq(report, n + 1, size)[i] = report[(n + 1) + i - 1]
  BY <1>5, SubSeqProperties
<1>7. size - (n + 1) + 1 = size - n /\ n + 1 <= size
  OBVIOUS
<1>8. rest \in Seq(T) /\ Len(rest) = size - n
  BY <1>4, <1>6, <1>7
<1>9. DOMAIN rest = 1 .. size - n
  BY <1>8, LenProperties
<1>10. rest # <<>>
  <2>1. Len(<<>>) = 0 /\ size - n # 0
    OBVIOUS
  <2> QED BY Zenon, <2>1, <1>8
<1>11. ASSUME NEW i \in 1 .. size - n
       PROVE  /\ rest[i].time = (now - n - i + 1) * Timeframe
              /\ rest[i].count = CountAt(visits, now - n - i + 1)
  <2>1. i + n \in 1 .. size /\ (n + 1) + i - 1 = i + n /\ now - (i + n) + 1 = now - n - i + 1
    OBVIOUS
  <2>2. rest[i] = report[i + n]
    BY <1>4, <1>6, <1>7, <2>1
  <2> QED BY <1>3, <2>1, <2>2
<1>12. IsReportFrom(rest, visits, now - n, size - n)
  BY <1>9, <1>10, <1>11 DEF IsReportFrom
<1> QED BY <1>12 DEF rest, report

(* The ends of the axis are found among the lines of the report.             *)
LEMMA EndsOfReport ==
  ASSUME NEW stat, NEW visits, NEW frame \in Int, NEW size \in Nat \ {0},
         IsReportFrom(stat, visits, frame, size)
  PROVE  /\ Min({stat[i].time : i \in DOMAIN stat}) = (frame - size + 1) * Timeframe
         /\ Max({stat[i].time : i \in DOMAIN stat}) = frame * Timeframe
<1> DEFINE S == {stat[i].time : i \in DOMAIN stat}
           mn == (frame - size + 1) * Timeframe
           mx == frame * Timeframe
<1>1. Timeframe \in Nat \ {0}
  BY ConstantsAssumption
<1>2. /\ DOMAIN stat = 1 .. size
      /\ \A i \in 1 .. size : stat[i].time = (frame - i + 1) * Timeframe
  BY DEF IsReportFrom
<1>3. \A i \in 1 .. size : stat[i].time \in Int /\ mn <= stat[i].time /\ stat[i].time <= mx
  <2> TAKE i \in 1 .. size
  <2> DEFINE m == frame - i + 1
             l == frame - size + 1
  <2>1. m \in Int /\ l \in Int /\ l <= m /\ m <= frame /\ stat[i].time = m * Timeframe
        /\ mn = l * Timeframe
    BY <1>2
  <2> HIDE DEF m, l, mn
  <2>2. l * Timeframe <= m * Timeframe /\ m * Timeframe \in Int
    <3>1. CASE l = m
      BY <3>1, <2>1, <1>1
    <3>2. CASE l < m
      BY <3>2, <2>1, <1>1, LaterDay
    <3> QED BY <3>1, <3>2, <2>1
  <2>3. m * Timeframe <= frame * Timeframe
    <3>1. CASE m = frame
      BY <3>1, <2>1, <1>1
    <3>2. CASE m < frame
      BY <3>2, <2>1, <1>1, LaterDay
    <3> QED BY <3>1, <3>2, <2>1
  <2> QED BY <2>1, <2>2, <2>3
<1>4. mn \in S
  <2>1. size \in 1 .. size /\ stat[size].time = mn
    BY <1>2
  <2> QED BY <2>1, <1>2
<1>5. mx \in S
  <2>1. 1 \in 1 .. size /\ stat[1].time = (frame - 1 + 1) * Timeframe /\ frame - 1 + 1 = frame
    BY <1>2
  <2> QED BY <2>1, <1>2
<1>6. S \subseteq Int /\ (\A y \in S : mn <= y) /\ \A y \in S : y <= mx
  BY <1>2, <1>3
<1> HIDE DEF S, mn, mx
<1>7. Min(S) = mn /\ Max(S) = mx
  BY <1>4, <1>5, <1>6, LeastIsMin, GreatestIsMax
<1> QED BY <1>7 DEF S, mn, mx

(* Within an hour that begins on the hour there is no midnight.              *)
HasNoMidnight(mx) ==
  \A t \in Int : mx < t /\ t < mx + Hour => t % SecondsPerDay # 0

LEMMA NoMidnightWithin ==
  ASSUME SecondsPerDay % Hour = 0, NEW h \in Int, NEW mx, mx = h * Hour
  PROVE  HasNoMidnight(mx)
<1> DEFINE D == SecondsPerDay
           H == Hour
<1>1. D \in Nat \ {0} /\ H \in Nat \ {0} /\ mx = h * H
  BY ChartAssumption
<1>2. D % H = 0
  OBVIOUS
<1> HIDE DEF D, H
<1>3. PICK c \in Int : D = c * H
  BY <1>1, <1>2, Midnight
<1>4. ASSUME NEW t \in Int, mx < t, t < mx + H, t % D = 0 PROVE FALSE
  <2>1. PICK d \in Int : t = d * D
    BY <1>1, <1>4, Midnight
  <2> DEFINE k == d * c
  <2>2. k \in Int /\ t = k * H
    BY <1>1, <1>3, <2>1
  <2> HIDE DEF k
  <2>3. CASE k <= h
    <3>1. k = h \/ k < h
      BY <2>2, <2>3
    <3>2. k < h => k * H < h * H
      BY <2>2, <1>1, LaterDay
    <3> QED BY <1>1, <1>4, <2>2, <3>1, <3>2
  <2>4. CASE h < k
    <3>1. h * H + H <= k * H
      BY <2>2, <2>4, <1>1, LaterDay
    <3> QED BY <1>1, <1>4, <2>2, <3>1
  <2> QED BY <2>2, <2>3, <2>4
<1> QED BY <1>4 DEF HasNoMidnight, D, H

(* One chart, of size frames up to now.                                      *)
LEMMA ChartOfReport ==
  ASSUME IInv, Hour = Timeframe, SecondsPerDay % Hour = 0,
         NEW now \in Nat, NEW size \in Nat, 3 <= size, size <= now
  PROVE  LET chart == DrawChart(getActivityStat(Visits, now, size))
             ticks == chart.ticks
             lines == {chart.gridLines[i] : i \in DOMAIN chart.gridLines}
         IN  /\ \A i \in 1 .. Len(ticks) - 1 : ticks[i] < ticks[i + 1]
             /\ ticks[Len(ticks)] = (now - 1) * Timeframe
             /\ lines = {t \in ticks[1] + 1 .. ticks[Len(ticks)] - 1 : t % SecondsPerDay = 0}
                          \ {ticks[Len(ticks)] - Hour}
             /\ (size <= MaxMarks /\ \A m \in Marks : noted[m] > 0 => m <= now) =>
                  \A m \in now - size + 1 .. now - 1 :
                    \E i \in DOMAIN chart.series.times :
                      /\ chart.series.times[i] = m * Timeframe
                      /\ m \in Marks => chart.series.jumps[i] = noted[m]
<1> DEFINE report == getActivityStat(Visits, now, size)
           old == From(report, 2)
           past == From(report, 1)
           ticks == makeDayTicks(old)
           gridLines == makeGridLines(ticks)
           series == makeJumpsDocksSeries(past)
           mn == (now - size + 1) * Timeframe
           mx == (now - 2) * Timeframe
<1>1. Timeframe \in Nat \ {0} /\ MaxMarks \in Nat
  BY ConstantsAssumption
<1>2. IsReportFrom(old, Visits, now - 2, size - 2)
  BY RestOfReport
<1>3. IsReportFrom(past, Visits, now - 1, size - 1)
  BY RestOfReport
<1> HIDE DEF report, old, past
<1>4. Min({old[i].time : i \in DOMAIN old}) = mn /\ Max({old[i].time : i \in DOMAIN old}) = mx
  <2> DEFINE f == now - 2
             s == size - 2
  <2>1. f \in Int /\ s \in Nat \ {0} /\ f - s + 1 = now - size + 1 /\ IsReportFrom(old, Visits, f, s)
    BY <1>2
  <2> HIDE DEF f, s
  <2>2. /\ Min({old[i].time : i \in DOMAIN old}) = (f - s + 1) * Timeframe
        /\ Max({old[i].time : i \in DOMAIN old}) = f * Timeframe
    BY <2>1, EndsOfReport
  <2> QED BY <2>1, <2>2 DEF f
<1>5. mn \in Nat /\ mx \in Nat /\ mn <= mx /\ mx + Hour = (now - 1) * Timeframe
  <2> DEFINE a == now - size + 1
             b == now - 2
  <2>1. a \in Nat /\ b \in Nat /\ a <= b /\ now - 1 = b + 1
    OBVIOUS
  <2> HIDE DEF a, b
  <2>2. a * Timeframe \in Nat /\ b * Timeframe \in Nat
        /\ (b + 1) * Timeframe = b * Timeframe + Timeframe
    BY <2>1, <1>1
  <2>3. a * Timeframe <= b * Timeframe
    <3>1. CASE a = b
      BY <3>1, <2>2
    <3>2. CASE a < b
      BY <3>2, <2>1, <2>2, <1>1, LaterDay
    <3> QED BY <3>1, <3>2, <2>1
  <2>4. (now - 1) * Timeframe = b * Timeframe + Timeframe
    BY <2>1, <2>2
  <2> QED BY <2>2, <2>3, <2>4 DEF a, b
<1>6. IsAxis(ticks, gridLines, mx)
  <2>1. old # <<>>
    BY <1>2 DEF IsReportFrom
  <2> HIDE DEF mn, mx
  <2> QED BY <1>4, <1>5, <2>1, AxisOfDays
<1>6b. HasNoMidnight(mx)
  BY NoMidnightWithin
<1> HIDE DEF ticks, gridLines
<1>7. /\ \A i \in 1 .. Len(ticks) - 1 : ticks[i] < ticks[i + 1]
      /\ ticks[Len(ticks)] = (now - 1) * Timeframe
      /\ {gridLines[i] : i \in DOMAIN gridLines}
           = {t \in ticks[1] + 1 .. ticks[Len(ticks)] - 1 : t % SecondsPerDay = 0}
               \ {ticks[Len(ticks)] - Hour}
  <2> HIDE DEF mx
  <2>1. /\ \A i \in 1 .. Len(ticks) - 1 : ticks[i] < ticks[i + 1]
        /\ ticks[Len(ticks)] = mx + Hour
        /\ {gridLines[i] : i \in DOMAIN gridLines}
             = {t \in ticks[1] + 1 .. mx - 1 : t % SecondsPerDay = 0}
    BY <1>6 DEF IsAxis
  <2>2. ticks[Len(ticks)] = (now - 1) * Timeframe
    BY <2>1, <1>5
  <2>3. ticks[1] \in Int
    BY <1>6 DEF IsAxis
  <2> DEFINE e == ticks[Len(ticks)]
             a == ticks[1]
             D == SecondsPerDay
  <2>4. e = mx + Hour /\ mx \in Nat /\ Hour \in Nat \ {0} /\ a \in Int
    BY <2>1, <2>3, <1>5, <1>1
  <2>5. \A t \in Int : mx < t /\ t < mx + Hour => t % D # 0
    BY <1>6b DEF HasNoMidnight
  <2>6. {gridLines[i] : i \in DOMAIN gridLines} = {t \in a + 1 .. mx - 1 : t % D = 0}
    BY <2>1
  <2> HIDE DEF e, a, D
  <2>7. {t \in a + 1 .. mx - 1 : t % D = 0} = {t \in a + 1 .. e - 1 : t % D = 0} \ {e - Hour}
    BY <2>4, <2>5
  <2>8. {gridLines[i] : i \in DOMAIN gridLines}
          = {t \in a + 1 .. e - 1 : t % D = 0} \ {e - Hour}
    BY <2>6, <2>7
  <2> QED BY <2>1, <2>2, <2>8 DEF e, a, D
<1>8. /\ DOMAIN series.times = 1 .. size - 1
      /\ \A i \in 1 .. size - 1 :
           /\ series.times[i] = (now - i) * Timeframe
           /\ series.jumps[i] = CountAt(Visits, now - i)
  <2>1. /\ DOMAIN past = 1 .. size - 1
        /\ \A i \in 1 .. size - 1 :
             /\ past[i].time = (now - 1 - i + 1) * Timeframe
             /\ past[i].count = CountAt(Visits, now - 1 - i + 1)
    BY <1>3 DEF IsReportFrom
  <2>2. \A i \in 1 .. size - 1 : now - 1 - i + 1 = now - i
    OBVIOUS
  <2>3. \A i \in 1 .. size - 1 :
          past[i].time = (now - i) * Timeframe /\ past[i].count = CountAt(Visits, now - i)
    BY <2>1, <2>2
  <2>4. /\ series.times = [i \in 1 .. size - 1 |-> past[i].time]
        /\ series.jumps = [i \in 1 .. size - 1 |-> past[i].count]
    BY <2>1 DEF makeJumpsDocksSeries
  <2> HIDE DEF series
  <2> QED BY <2>3, <2>4
<1> HIDE DEF series
<1>9. ASSUME size <= MaxMarks, \A x \in Marks : noted[x] > 0 => x <= now,
             NEW m \in now - size + 1 .. now - 1
      PROVE  \E i \in DOMAIN series.times :
               /\ series.times[i] = m * Timeframe
               /\ m \in Marks => series.jumps[i] = noted[m]
  <2>1. now - m \in 1 .. size - 1 /\ now - (now - m) = m /\ now - m \in 0 .. (MaxMarks - 1)
    BY <1>1, <1>9
  <2>2. series.times[now - m] = m * Timeframe /\ series.jumps[now - m] = CountAt(Visits, m)
    BY <1>8, <2>1
  <2>3. m \in Marks => CountAt(Visits, m) = noted[m]
    BY <1>9, <2>1, ReportedIsNoted
  <2> QED BY <1>8, <2>1, <2>2, <2>3
<1> DEFINE chart == DrawChart(report)
<1>10. chart.ticks = ticks /\ chart.gridLines = gridLines /\ chart.series = series
  BY DEF DrawChart, ticks, gridLines, series, old, past
<1> HIDE DEF chart
<1>11. /\ \A i \in 1 .. Len(chart.ticks) - 1 : chart.ticks[i] < chart.ticks[i + 1]
       /\ chart.ticks[Len(chart.ticks)] = (now - 1) * Timeframe
       /\ {chart.gridLines[i] : i \in DOMAIN chart.gridLines}
            = {t \in chart.ticks[1] + 1 .. chart.ticks[Len(chart.ticks)] - 1 :
                 t % SecondsPerDay = 0} \ {chart.ticks[Len(chart.ticks)] - Hour}
  BY <1>7, <1>10
<1>12. (size <= MaxMarks /\ \A m \in Marks : noted[m] > 0 => m <= now) =>
         \A m \in now - size + 1 .. now - 1 :
           \E i \in DOMAIN chart.series.times :
             /\ chart.series.times[i] = m * Timeframe
             /\ m \in Marks => chart.series.jumps[i] = noted[m]
  BY <1>9, <1>10
<1> QED BY <1>11, <1>12 DEF chart, report

(* The chart shows what was noted, at whatever time it is drawn and however  *)
(* far back: each finished frame with all its visits, the axis to the newest *)
(* of them and a line for each midnight inside it but the one its last hour  *)
(* begins with, when frames are hours and a day is a number of them, as      *)
(* ross.go:149 and drawActivityChart.go:68, 89 have them                     *)
(* (drawActivityChart.go:55-124, 184-193).                                   *)
THEOREM ChartIsRight ==
  ASSUME Hour = Timeframe, SecondsPerDay % Hour = 0
  PROVE  Spec => []ChartShowsVisits
<1>1. IInv => ChartShowsVisits
  <2> SUFFICES ASSUME IInv, NEW now \in Nows, NEW size \in 3 .. Min({now, ReportBound})
               PROVE  LET chart == DrawChart(getActivityStat(Visits, now, size))
                          ticks == chart.ticks
                          lines == {chart.gridLines[i] : i \in DOMAIN chart.gridLines}
                      IN  /\ \A i \in 1 .. Len(ticks) - 1 : ticks[i] < ticks[i + 1]
                          /\ ticks[Len(ticks)] = (now - 1) * Timeframe
                          /\ lines = {t \in ticks[1] + 1 .. ticks[Len(ticks)] - 1 :
                                        t % SecondsPerDay = 0} \ {ticks[Len(ticks)] - Hour}
                          /\ (size <= MaxMarks /\ \A m \in Marks : noted[m] > 0 => m <= now) =>
                               \A m \in now - size + 1 .. now - 1 :
                                 \E i \in DOMAIN chart.series.times :
                                   /\ chart.series.times[i] = m * Timeframe
                                   /\ m \in Marks => chart.series.jumps[i] = noted[m]
    BY DEF ChartShowsVisits
  <2>1. now \in Nat /\ ReportBound \in Nat
    BY ChartAssumption
  <2>2. Min({now, ReportBound}) = IF now <= ReportBound THEN now ELSE ReportBound
    <3> DEFINE S == {now, ReportBound}
    <3>1. S \subseteq Int /\ now \in S /\ ReportBound \in S
      BY <2>1
    <3>2. CASE now <= ReportBound
      <4>1. \A y \in S : now <= y
        BY <2>1, <3>2
      <4> HIDE DEF S
      <4>2. Min(S) = now
        BY <3>1, <4>1, LeastIsMin
      <4> QED BY <3>2, <4>2 DEF S
    <3>3. CASE ~(now <= ReportBound)
      <4>1. \A y \in S : ReportBound <= y
        BY <2>1, <3>3
      <4> HIDE DEF S
      <4>2. Min(S) = ReportBound
        BY <3>1, <4>1, LeastIsMin
      <4> QED BY <3>3, <4>2 DEF S
    <3> QED BY <3>2, <3>3
  <2>3. size \in Nat /\ 3 <= size /\ size <= now
    BY <2>1, <2>2
  <2> QED BY <2>1, <2>3, ChartOfReport
<1> QED BY <1>1, Invariance, PTL
=============================================================================
