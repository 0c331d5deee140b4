------------------------ MODULE TemporalFilterProofs ------------------------
(***************************************************************************)
(* What is proved of TemporalFilter, for every set of distances, every     *)
(* configuration that validateConfig accepts, and every set of faults.     *)
(***************************************************************************)
EXTENDS TemporalFilter, FiniteSetTheorems, SequenceTheorems, WellFoundedInduction, TLAPS

-----------------------------------------------------------------------------
(* Numbers *)

LEMMA Least ==
  ASSUME NEW T \in SUBSET Nat, T # {}
  PROVE  \E x \in T : \A y \in T : x <= y
  <1>1. PICK x \in T : \A y \in T : ~(<<y, x>> \in OpToRel(<, Nat))
    BY NatLessThanWellFounded, WFMin
  <1>2. \A y \in T : ~(y < x)
    BY <1>1 DEF OpToRel
  <1>. QED  BY <1>2

\* There is a longest distance.
LEMMA SpanFacts ==
  /\ Span \in Nat \ {0}
  /\ Readings \subseteq Distances
  <1>. DEFINE n == Cardinality(Readings)
              Below(k, f) == \E b \in Nat : \A i \in 1..k : f[i] <= b
  <1>1. n \in Nat /\ ExistsBijection(1..n, Readings)
    BY ReadingsAssumption, FS_CardinalityType
  <1>2. PICK f \in Bijection(1..n, Readings) : TRUE
    BY <1>1 DEF ExistsBijection
  <1>3. /\ \A i \in 1..n : f[i] \in Readings
        /\ \A r \in Readings : \E i \in 1..n : f[i] = r
    BY <1>2 DEF Bijection, Injection, Surjection, IsInjective
  <1>. HIDE DEF n
  <1>4. Below(n, f)
    <2>. DEFINE T == {k \in 0..n : ~Below(k, f)}
    <2>. HIDE DEF Below
    <2>1. T \in SUBSET Nat /\ n \in 0..n
      BY <1>1
    <2>2. CASE T = {}
      BY <2>1, <2>2
    <2>3. CASE T # {}
      <3>. HIDE DEF T
      <3>1. PICK k \in T : \A j \in T : k <= j
        BY <2>1, <2>3, Least
      <3>2. k \in 0..n /\ ~Below(k, f)
        BY DEF T
      <3>3. k # 0
        <4>1. Below(0, f)
          BY DEF Below
        <4>. QED  BY <3>2, <4>1
      <3>4. k \in 1..n /\ k - 1 \in 0..n /\ ~(k <= k - 1) /\ k \in Nat
        BY <1>1, <3>2, <3>3
      <3>5. Below(k - 1, f)
        BY <3>1, <3>4 DEF T
      <3>6. PICK b \in Nat : \A i \in 1..(k - 1) : f[i] <= b
        BY <3>5 DEF Below
      <3>7. f[k] \in Nat
        BY <1>3, <3>4, ReadingsAssumption
      <3>8. PICK c \in Nat : b <= c /\ f[k] <= c
        <4>1. b <= b /\ f[k] <= f[k] /\ (b <= f[k] \/ f[k] <= b)
          BY <3>7
        <4>. QED  BY <3>7, <4>1
      <3>9. ASSUME NEW i \in 1..k
            PROVE  f[i] <= c
        <4>1. CASE i = k
          BY <3>8, <4>1
        <4>2. CASE i # k
          <5>1. i \in 1..(k - 1) /\ i \in 1..n
            BY <1>1, <3>4, <4>2
          <5>2. f[i] <= b /\ f[i] \in Readings
            BY <1>3, <3>6, <5>1
          <5>3. f[i] \in Nat
            BY <5>2, ReadingsAssumption
          <5>. QED  BY <3>8, <5>2, <5>3
        <4>. QED  BY <4>1, <4>2
      <3>. QED  BY <3>2, <3>9 DEF Below
    <2>. QED  BY <2>2, <2>3
  <1>5. PICK b \in Nat : \A r \in Readings : r <= b
    BY <1>3, <1>4
  <1>. DEFINE U == {c \in Nat : \A r \in Readings : r <= c}
  <1>6. PICK m \in U : \A c \in U : m <= c
    <2>1. b \in U
      BY <1>5
    <2>. HIDE DEF U
    <2>2. U # {}
      BY <2>1
    <2>3. U \in SUBSET Nat
      BY DEF U
    <2>. QED  BY <2>2, <2>3, Least
  <1>7. m \in Nat /\ \A r \in Readings : r <= m
    OBVIOUS
  <1>8. m \in Readings
    <2>1. SUFFICES ASSUME m \notin Readings PROVE FALSE
      OBVIOUS
    <2>2. PICK r \in Readings : TRUE
      BY ReadingsAssumption
    <2>3. m # 0
      BY <1>7, <2>1, <2>2, ReadingsAssumption
    <2>4. \A q \in Readings : q <= m - 1
      BY <1>7, <2>1, ReadingsAssumption
    <2>5. m - 1 \in U
      BY <1>7, <2>3, <2>4
    <2>6. m <= m - 1
      BY <1>6, <2>5
    <2>. QED  BY <1>7, <2>6
  <1>9. Span \in Readings /\ \A r \in Readings : r <= Span
    BY <1>7, <1>8 DEF Span
  <1>. QED  BY <1>9, ReadingsAssumption DEF Distances

-----------------------------------------------------------------------------
(* Robust statistics *)

\* The elements up to a value, as positions.
LEMMA Positions ==
  ASSUME NEW s \in Seq(Distances), NEW v
  PROVE  /\ IsFiniteSet({i \in DOMAIN s : s[i] <= v})
         /\ Cardinality({i \in DOMAIN s : s[i] <= v}) \in Nat
  <1>1. DOMAIN s = 1..Len(s) /\ Len(s) \in Nat
    BY LenProperties
  <1>2. IsFiniteSet(DOMAIN s)
    BY <1>1, FS_Interval
  <1>3. {i \in DOMAIN s : s[i] <= v} \in SUBSET DOMAIN s
    OBVIOUS
  <1>. QED  BY <1>2, <1>3, FS_Subset, FS_CardinalityType

\* The k-th smallest element exists.
LEMMA RankedFacts ==
  ASSUME NEW s \in Seq(Distances), NEW k \in 1..Len(s)
  PROVE  Ranked(s, k) \in {s[i] : i \in DOMAIN s}
  <1>. DEFINE upTo(v) == {i \in DOMAIN s : s[i] <= v}
              T == {v \in Nat : Cardinality(upTo(v)) >= k}
  <1>1. /\ DOMAIN s = 1..Len(s) /\ Len(s) \in Nat /\ k \in Nat \ {0} /\ k <= Len(s)
        /\ \A i \in DOMAIN s : s[i] \in 1..Span
    <2>1. DOMAIN s = 1..Len(s) /\ Len(s) \in Nat
      BY LenProperties
    <2>2. \A i \in 1..Len(s) : s[i] \in 1..Span
      BY ElementOfSeq DEF Distances
    <2>. QED  BY <2>1, <2>2
  <1>2. \A v : Cardinality(upTo(v)) \in Nat
    BY Positions
  <1>3. Span \in T
    <2>1. upTo(Span) = 1..Len(s)
      BY <1>1, SpanFacts
    <2>2. Cardinality(1..Len(s)) = Len(s)
      BY <1>1, FS_Interval
    <2>. HIDE DEF upTo
    <2>. QED  BY <1>1, <2>1, <2>2, SpanFacts
  <1>4. PICK v \in T : \A u \in T : v <= u
    <2>. HIDE DEF upTo
    <2>1. T \in SUBSET Nat
      OBVIOUS
    <2>. HIDE DEF T
    <2>. QED  BY <1>3, <2>1, Least
  <1>5. v \in Nat /\ Cardinality(upTo(v)) >= k
    OBVIOUS
  <1>6. v # 0
    <2>1. CASE v = 0
      <3>1. upTo(0) = {}
        BY <1>1, SpanFacts
      <3>2. Cardinality(upTo(0)) = 0
        BY <3>1, FS_EmptySet
      <3>. QED  BY <1>1, <1>5, <2>1, <3>2
    <2>. QED  BY <2>1
  <1>7. v - 1 \notin T /\ v - 1 \in Nat
    <2>. HIDE DEF T
    <2>. QED  BY <1>4, <1>5, <1>6
  <1>8. ~(Cardinality(upTo(v - 1)) >= k)
    BY <1>7
  <1>9. v \in {s[i] : i \in DOMAIN s}
    <2>1. SUFFICES ASSUME \A i \in DOMAIN s : s[i] # v PROVE FALSE
      OBVIOUS
    <2>2. \A i \in DOMAIN s : s[i] <= v <=> s[i] <= v - 1
      BY <1>1, <1>5, <2>1, SpanFacts
    <2>3. upTo(v) = upTo(v - 1)
      BY <2>2
    <2>. HIDE DEF upTo
    <2>. QED  BY <1>5, <1>8, <2>3
  <1>10. {i \in DOMAIN s : s[i] < v} = upTo(v - 1)
    <2>1. \A i \in DOMAIN s : s[i] < v <=> s[i] <= v - 1
      BY <1>1, <1>5, SpanFacts
    <2>. QED  BY <2>1
  <1>11. Cardinality({i \in DOMAIN s : s[i] < v}) < k
    <2>1. Cardinality(upTo(v - 1)) < k
      <3>. HIDE DEF upTo
      <3>. QED  BY <1>1, <1>2, <1>8
    <2>. QED  BY <1>10, <2>1
  <1>12. \E w \in {s[i] : i \in DOMAIN s} :
           /\ Cardinality({i \in DOMAIN s : s[i] < w}) < k
           /\ Cardinality({i \in DOMAIN s : s[i] <= w}) >= k
    BY <1>5, <1>9, <1>11
  <1>. QED  BY <1>12, Zenon DEF Ranked

\* The median lies between any bounds of the elements.
LEMMA MedianBounded ==
  ASSUME NEW s \in Seq(Distances), s # <<>>, NEW low \in Nat, NEW high \in Nat,
         \A i \in DOMAIN s : low <= s[i] /\ s[i] <= high
  PROVE  Median(s) \in low..high
  <1>1. DOMAIN s = 1..Len(s) /\ Len(s) \in Nat \ {0} /\ \A i \in DOMAIN s : s[i] \in Nat
    BY LenProperties, ElementOfSeq, EmptySeq, SpanFacts DEF Distances
  <1>2. \A k \in 1..Len(s) : Ranked(s, k) \in low..high
    <2>1. \A i \in DOMAIN s : s[i] \in low..high
      BY <1>1
    <2>. QED  BY <2>1, RankedFacts
  <1>3. Len(s) \div 2 + 1 \in 1..Len(s) /\ (Len(s) % 2 # 1 => Len(s) \div 2 \in 1..Len(s))
    BY <1>1
  <1>. DEFINE upper == Ranked(s, Len(s) \div 2 + 1)
              lower == Ranked(s, Len(s) \div 2)
  <1>4. upper \in low..high /\ (Len(s) % 2 # 1 => lower \in low..high)
    BY <1>2, <1>3
  <1>5. Median(s) = IF Len(s) % 2 = 1 THEN upper ELSE lower + (upper - lower) \div 2
    BY DEF Median
  <1>. HIDE DEF upper, lower
  <1>6. CASE Len(s) % 2 = 1
    BY <1>4, <1>5, <1>6
  <1>7. CASE Len(s) % 2 # 1
    <2>1. lower + (upper - lower) \div 2 \in low..high
      BY <1>4, <1>7
    <2>. QED  BY <1>5, <1>7, <2>1
  <1>. QED  BY <1>6, <1>7

-----------------------------------------------------------------------------
(* The window *)

Windows == {w \in Seq(Distances) : Len(w) <= Capacity}

LEMMA Numbers ==
  /\ Capacity \in Nat \ {0, 1, 2} /\ Sudden \in Nat \ {0} /\ 0 \in Nat
  /\ \A rise \in BOOLEAN :
       /\ Count(rise) \in Nat \ {0, 1} /\ Required(rise) \in Nat \ {0} /\ Tolerance(rise) \in Nat \ {0}
  BY WindowAssumption, HampelAssumption, RiseAssumption, FallAssumption DEF Count, Required, Tolerance

LEMMA Apart ==
  ASSUME NEW a \in Int, NEW b \in Int
  PROVE  /\ Distance(a, b) \in Nat
         /\ \A t \in Nat : Distance(a, b) <= t <=> (b - t <= a /\ a <= b + t)
         /\ a = b => Distance(a, b) = 0
  BY DEF Distance

LEMMA EmptyFacts ==
  /\ Empty \in Memory /\ MemoryOK(Empty) /\ Empty.window = <<>> /\ Empty.candidate = NoCandidate
  /\ NoCandidate.distance = 0
  /\ NoCandidate \in [distance : Distances \union {0}, samples : Seq(Distances),
                      observations : Nat, baseline : Nat]
  <1>1. <<>> \in Seq(Distances) /\ Len(<<>>) = 0
    BY EmptySeq
  <1>. QED  BY <1>1, Numbers DEF Empty, Memory, MemoryOK, NoCandidate, States

LEMMA RestartedFacts ==
  ASSUME NEW d \in Distances
  PROVE  /\ WindowRestarted(d) \in Windows /\ WindowRestarted(d) # <<>>
         /\ Len(WindowRestarted(d)) = 1 /\ WindowRestarted(d)[1] = d
  BY Numbers DEF WindowRestarted, Windows

\* The window keeps the newest distances.
LEMMA ContinuedFacts ==
  ASSUME NEW m \in Memory, MemoryOK(m), m.window # <<>>, NEW value \in Distances,
         NEW w \in WindowContinued(m, value)
  PROVE  /\ w \in Windows /\ w # <<>>
         /\ w[Len(w)] \in Distances
         /\ Distance(w[Len(w)], Accepted(m)) <= Distance(value, Accepted(m))
  <1>1. PICK d \in Smoothed(m, value) : w = LastOf(Append(m.window, d), Capacity)
    BY DEF WindowContinued
  <1>. DEFINE s == Append(m.window, d)
  <1>2. /\ m.window \in Seq(Distances) /\ Len(m.window) \in Nat \ {0} /\ Len(m.window) <= Capacity
        /\ Accepted(m) \in Distances /\ d \in Distances
    <2>1. m.window \in Seq(Distances) /\ Len(m.window) <= Capacity
      BY DEF Memory, MemoryOK
    <2>2. Len(m.window) \in Nat \ {0}
      BY <2>1, EmptySeq
    <2>3. Len(m.window) \in 1..Len(m.window)
      BY <2>2
    <2>. QED  BY <2>1, <2>2, <2>3, ElementOfSeq DEF Accepted, Smoothed
  <1>3. /\ s \in Seq(Distances) /\ Len(s) = Len(m.window) + 1 /\ s[Len(s)] = d
        /\ \A i \in 1..Len(s) : s[i] \in Distances
    <2>1. /\ s \in Seq(Distances) /\ Len(s) = Len(m.window) + 1 /\ s[Len(m.window) + 1] = d
      BY <1>2, AppendProperties
    <2>. HIDE DEF s
    <2>. QED  BY <2>1, ElementOfSeq
  <1>. HIDE DEF s
  <1>4. w \in Seq(Distances) /\ Len(w) \in 1..Capacity /\ w[Len(w)] = d
    <2>1. CASE Len(s) <= Capacity
      <3>1. w = s
        BY <1>1, <2>1 DEF LastOf, s
      <3>. QED  BY <1>2, <1>3, <2>1, <3>1
    <2>2. CASE ~(Len(s) <= Capacity)
      <3>. DEFINE a == Len(s) - Capacity + 1
                  b == Len(s)
      <3>1. w = SubSeq(s, a, b)
        BY <1>1, <2>2 DEF LastOf, s
      <3>2. a \in Int /\ b \in Int /\ a <= b /\ b - a + 1 = Capacity /\ a + Capacity - 1 = b
            /\ \A i \in a..b : i \in 1..Len(s)
        BY <1>2, <1>3, <2>2, Numbers
      <3>. HIDE DEF a, b
      <3>3. \A i \in a..b : s[i] \in Distances
        BY <1>3, <3>2
      <3>4. /\ w \in Seq(Distances) /\ Len(w) = Capacity
            /\ \A i \in 1..Capacity : w[i] = s[a + i - 1]
        BY <3>1, <3>2, <3>3, SubSeqProperties
      <3>5. w[Capacity] = s[Len(s)]
        <4>1. Capacity \in 1..Capacity
          BY Numbers
        <4>. QED  BY <3>2, <3>4, <4>1 DEF b
      <3>. QED  BY <1>3, <3>4, <3>5, Numbers
    <2>. QED  BY <2>1, <2>2
  <1>5. Distance(d, Accepted(m)) <= Distance(value, Accepted(m))
    <2>1. /\ value \in Int /\ d \in Int /\ Accepted(m) \in Int
          /\ \/ Accepted(m) <= d /\ d <= value
             \/ value <= d /\ d <= Accepted(m)
      BY <1>2, SpanFacts DEF Smoothed, Distances
    <2>. QED  BY <2>1 DEF Distance
  <1>6. w # <<>>
    BY <1>4, EmptySeq
  <1>. QED  BY <1>2, <1>4, <1>5, <1>6 DEF Windows

-----------------------------------------------------------------------------
(* A reading of the filter stage *)

CandidateTypes ==
  [distance : Distances \union {0}, samples : Seq(Distances), observations : Nat, baseline : Nat]

LEMMA MemoryParts ==
  ASSUME NEW m
  PROVE  MemoryOK(m) <=> /\ m \in [window : Seq(Distances), candidate : CandidateTypes, state : States]
                         /\ m.window \in Windows
  BY DEF MemoryOK, Memory, CandidateTypes, Windows

LEMMA CandidateFacts ==
  ASSUME NEW value \in Distances
  PROVE  /\ FirstCandidate(value) \in CandidateTypes /\ FirstCandidate(value) # NoCandidate
         /\ FirstCandidate(value).distance = value /\ value # 0
         /\ FirstCandidate(value).observations = 1
         /\ FirstCandidate(value).samples = <<value>>
  BY SpanFacts DEF FirstCandidate, Candidate, CandidateTypes, NoCandidate, Distances

\* What one reading may make of a memory without a candidate.
LEMMA EvaluatedFacts ==
  ASSUME NEW m, MemoryOK(m), m.candidate = NoCandidate,
         NEW value \in Readings \union {Invalid}, NEW n \in Evaluated(m, value)
  PROVE  /\ MemoryOK(n)
         /\ n.candidate # NoCandidate =>
              /\ value \in Distances /\ n.candidate = FirstCandidate(value)
              /\ n.window # <<>>
         /\ m.window # <<>> => n.window # <<>> /\ Distance(Accepted(n), Accepted(m)) < Sudden
  <1>1. /\ m \in [window : Seq(Distances), candidate : CandidateTypes, state : States]
        /\ m.window \in Windows /\ m \in Memory
    BY MemoryParts DEF MemoryOK
  <1>2. m.window # <<>> => Accepted(m) \in Distances /\ Accepted(m) \in Int
    <2>1. ASSUME m.window # <<>>
          PROVE  Len(m.window) \in 1..Len(m.window)
      BY <1>1, <2>1, EmptySeq
    <2>. QED  BY <1>1, <2>1, ElementOfSeq, SpanFacts DEF Accepted, Distances
  \* A memory that keeps its window keeps the accepted distance.
  <1>3. ASSUME NEW k, k.window = m.window, m.window # <<>>
        PROVE  k.window # <<>> /\ Distance(Accepted(k), Accepted(m)) < Sudden
    <2>1. Accepted(k) = Accepted(m) /\ Accepted(m) \in Int
      BY <1>2, <1>3 DEF Accepted
    <2>2. Distance(Accepted(k), Accepted(m)) = 0
      BY <2>1, Apart
    <2>. QED  BY <1>3, <2>2, Numbers
  <1>4. CASE value = Invalid
    <2>1. n = [m EXCEPT !.state = "invalid"]
      BY <1>4 DEF Evaluated
    <2>2. n.window = m.window /\ n.candidate = NoCandidate /\ n \in Memory
      BY <1>1, <2>1 DEF Memory, States, CandidateTypes
    <2>. QED  BY <1>1, <1>3, <2>2 DEF MemoryOK
  <1>5. CASE value # Invalid
    <2>1. value \in Distances
      BY <1>5, SpanFacts
    <2>2. CASE m.window = <<>>
      <3>1. n = [m EXCEPT !.window = WindowRestarted(value), !.state = "accepted"]
        BY <1>5, <2>2 DEF Evaluated
      <3>2. WindowRestarted(value) \in Windows
        BY <2>1, RestartedFacts
      <3>3. /\ n.window = WindowRestarted(value) /\ n.candidate = NoCandidate
            /\ n \in [window : Seq(Distances), candidate : CandidateTypes, state : States]
        BY <1>1, <3>1, <3>2 DEF States, Windows
      <3>. QED  BY <2>2, <3>2, <3>3, MemoryParts
    <2>3. CASE m.window # <<>> /\ Suspicious(m, value)
      <3>1. n = [m EXCEPT !.candidate = FirstCandidate(value),
                          !.state = IF IsRise(m, value) THEN "rise" ELSE "fall"]
        BY <1>5, <2>3 DEF Evaluated
      <3>2. /\ n.window = m.window /\ n.candidate = FirstCandidate(value)
            /\ n \in [window : Seq(Distances), candidate : CandidateTypes, state : States]
        <4>1. (IF IsRise(m, value) THEN "rise" ELSE "fall") \in States
          BY DEF States
        <4>2. FirstCandidate(value) \in CandidateTypes
          BY <2>1, CandidateFacts
        <4>. QED  BY <1>1, <3>1, <4>1, <4>2
      <3>. QED  BY <1>1, <1>3, <2>1, <2>3, <3>2, MemoryParts
    <2>4. CASE m.window # <<>> /\ ~Suspicious(m, value)
      <3>1. PICK w \in WindowContinued(m, value) : n = [m EXCEPT !.window = w, !.state = "stable"]
        BY <1>5, <2>4 DEF Evaluated
      <3>2. /\ w \in Windows /\ w # <<>> /\ w[Len(w)] \in Distances
            /\ Distance(w[Len(w)], Accepted(m)) <= Distance(value, Accepted(m))
        BY <1>1, <2>1, <2>4, ContinuedFacts
      <3>3. /\ n.window = w /\ n.candidate = NoCandidate
            /\ n \in [window : Seq(Distances), candidate : CandidateTypes, state : States]
        BY <1>1, <3>1, <3>2 DEF States, Windows
      <3>4. Accepted(n) = w[Len(w)]
        BY <3>3 DEF Accepted
      <3>5. Distance(value, Accepted(m)) < Sudden
        <4>1. ~(Distance(value, Accepted(m)) >= Sudden) /\ value \in Int
          BY <2>1, <2>4, SpanFacts DEF Suspicious, Distances
        <4>2. Distance(value, Accepted(m)) \in Nat
          BY <1>2, <2>4, <4>1, Apart
        <4>. QED  BY <4>1, <4>2, Numbers
      <3>6. w[Len(w)] \in Int /\ value \in Int
        BY <2>1, <3>2, SpanFacts DEF Distances
      <3>7. Distance(Accepted(n), Accepted(m)) < Sudden
        <4>1. Distance(w[Len(w)], Accepted(m)) \in Nat /\ Distance(value, Accepted(m)) \in Nat
          BY <1>2, <2>4, <3>6, Apart
        <4>. QED  BY <3>2, <3>4, <3>5, <4>1, Numbers
      <3>. QED  BY <3>2, <3>3, <3>7, MemoryParts
    <2>. QED  BY <2>2, <2>3, <2>4
  <1>. QED  BY <1>4, <1>5

-----------------------------------------------------------------------------
(* The verification *)

\* The votes for a candidate are all close to it.
Near(c, tolerance) == \A i \in DOMAIN c.samples : Distance(c.samples[i], c.distance) <= tolerance

LEMMA ObservedFacts ==
  ASSUME NEW m, MemoryOK(m), NEW value \in Readings \union {Invalid},
         Near(m.candidate, Tolerance(Rising(m)))
  PROVE  /\ Observed(m, value) \in CandidateTypes
         /\ Observed(m, value).distance = m.candidate.distance
         /\ Observed(m, value).observations = m.candidate.observations + 1
         /\ Near(Observed(m, value), Tolerance(Rising(m)))
  <1>. DEFINE t == Tolerance(Rising(m))
              d == m.candidate.distance
              near(x) == value # Invalid /\ Distance(value, x) <= t
              samples == IF near(d) THEN Append(m.candidate.samples, value) ELSE m.candidate.samples
              baseline == IF near(Accepted(m)) THEN m.candidate.baseline + 1 ELSE m.candidate.baseline
  <1>1. m.candidate \in CandidateTypes
    BY MemoryParts
  <1>2. Observed(m, value) = [m.candidate EXCEPT !.observations = @ + 1, !.samples = samples,
                                                 !.baseline = baseline]
    BY DEF Observed
  <1>3. samples \in Seq(Distances) /\ \A i \in DOMAIN samples : Distance(samples[i], d) <= t
    <2>1. /\ m.candidate.samples \in Seq(Distances)
          /\ DOMAIN m.candidate.samples = 1..Len(m.candidate.samples) /\ Len(m.candidate.samples) \in Nat
      BY <1>1, LenProperties DEF CandidateTypes
    <2>2. CASE near(d)
      <3>1. value \in Distances
        BY <2>2, SpanFacts
      <3>. DEFINE old == m.candidate.samples
                  new == Append(old, value)
      <3>2. /\ new \in Seq(Distances) /\ Len(new) = Len(old) + 1
            /\ \A i \in 1..Len(old) : new[i] = old[i]
            /\ new[Len(old) + 1] = value
        BY <2>1, <3>1, AppendProperties
      <3>. HIDE DEF new
      <3>3. DOMAIN new = 1..(Len(old) + 1)
        BY <3>2, LenProperties
      <3>4. ASSUME NEW i \in 1..(Len(old) + 1)
            PROVE  Distance(new[i], d) <= t
        <4>1. CASE i = Len(old) + 1
          BY <2>2, <3>2, <4>1
        <4>2. CASE i # Len(old) + 1
          <5>1. i \in 1..Len(old)
            BY <2>1, <4>2
          <5>. QED  BY <2>1, <3>2, <5>1 DEF Near
        <4>. QED  BY <4>1, <4>2
      <3>5. samples = new
        BY <2>2 DEF new
      <3>. HIDE DEF samples
      <3>. QED  BY <3>2, <3>3, <3>4, <3>5
    <2>3. CASE ~near(d)
      <3>1. samples = m.candidate.samples
        BY <2>3
      <3>. HIDE DEF samples
      <3>. QED  BY <2>1, <3>1 DEF Near
    <2>. QED  BY <2>2, <2>3
  <1>4. baseline \in Nat
    BY <1>1 DEF CandidateTypes
  <1>. HIDE DEF samples, baseline
  <1>5. /\ Observed(m, value) \in CandidateTypes
        /\ Observed(m, value).distance = d
        /\ Observed(m, value).observations = m.candidate.observations + 1
        /\ Observed(m, value).samples = samples
    <2>. DEFINE c == m.candidate
                count == c.observations + 1
                new == [c EXCEPT !.observations = count, !.samples = samples, !.baseline = baseline]
    <2>1. c \in CandidateTypes /\ c.observations \in Nat
      BY <1>1 DEF CandidateTypes
    <2>2. count \in Nat
      BY <2>1
    <2>3. Observed(m, value) = new
      BY <1>2
    <2>. HIDE DEF c, count
    <2>4. /\ new \in CandidateTypes
          /\ new.distance = c.distance /\ new.observations = count /\ new.samples = samples
      BY <1>3, <1>4, <2>1, <2>2 DEF CandidateTypes
    <2>. HIDE DEF new
    <2>5. new.distance = d /\ new.observations = m.candidate.observations + 1
      BY <2>4 DEF c, count
    <2>. QED  BY <2>3, <2>4, <2>5
  <1>. QED  BY <1>3, <1>5 DEF Near

\* The end of a verification: the accepted distance stays, or enough readings have
\* agreed and it moves to one that agrees with them.
LEMMA FinishedFacts ==
  ASSUME NEW m, MemoryOK(m), m.window # <<>>, NEW c \in CandidateTypes, c.distance # 0,
         Near(c, Tolerance(Rising(m))), NEW n \in Finished(m, c)
  PROVE  /\ MemoryOK(n) /\ n.candidate = NoCandidate /\ n.window # <<>>
         /\ \/ n.window = m.window
            \/ /\ n.state = "confirmed" /\ Len(c.samples) >= Required(Rising(m))
               /\ Distance(Accepted(n), c.distance) <= Tolerance(Rising(m))
  <1>1. /\ m \in [window : Seq(Distances), candidate : CandidateTypes, state : States]
        /\ m.window \in Windows /\ NoCandidate \in CandidateTypes
    BY MemoryParts, EmptyFacts DEF CandidateTypes
  <1>2. ASSUME NEW s \in States
        PROVE  /\ Settled(m, s) \in [window : Seq(Distances), candidate : CandidateTypes, state : States]
               /\ Settled(m, s).window = m.window /\ Settled(m, s).candidate = NoCandidate
               /\ Settled(m, s).state = s
    BY <1>1 DEF Settled
  <1>3. {"confirmed", "transient", "uncertain"} \subseteq States
    BY DEF States
  <1>4. CASE Confirmed(c, Rising(m))
    <2>. DEFINE t == Tolerance(Rising(m))
                median == Median(c.samples)
    <2>1. n = [Settled(m, "confirmed") EXCEPT !.window = WindowRestarted(median)]
      BY <1>4 DEF Finished
    <2>2. /\ c.samples \in Seq(Distances) /\ c.samples # <<>> /\ DOMAIN c.samples = 1..Len(c.samples)
          /\ Len(c.samples) >= Required(Rising(m))
      BY <1>4, LenProperties DEF Confirmed, CandidateTypes
    <2>3. \A i \in DOMAIN c.samples : c.samples[i] \in 1..Span
      BY <2>2, ElementOfSeq DEF Distances
    <2>4. t \in Nat /\ c.distance \in Nat /\ c.distance \in Int /\ Span \in Nat
      <3>1. Rising(m) \in BOOLEAN
        BY DEF Rising, IsRise
      <3>. QED  BY <3>1, Numbers, SpanFacts DEF CandidateTypes, Distances
    <2>. HIDE DEF t
    <2>5. median \in 1..Span
      <3>1. 1 \in Nat /\ \A i \in DOMAIN c.samples : 1 <= c.samples[i] /\ c.samples[i] <= Span
        BY <2>3, <2>4
      <3>. QED  BY <2>2, <2>4, <3>1, MedianBounded
    \* The samples, and so their median, are within the tolerance of the candidate.
    <2>6. \A i \in DOMAIN c.samples : c.distance - t <= c.samples[i] /\ c.samples[i] <= c.distance + t
      <3>1. ASSUME NEW i \in DOMAIN c.samples
            PROVE  c.distance - t <= c.samples[i] /\ c.samples[i] <= c.distance + t
        <4>1. Distance(c.samples[i], c.distance) <= t
          BY DEF Near, t
        <4>2. c.samples[i] \in Int
          BY <2>3
        <4>. QED  BY <2>4, <4>1, <4>2, Apart
      <3>. QED  BY <3>1
    <2>7. Distance(median, c.distance) <= t
      <3>. DEFINE low == IF c.distance - t >= 0 THEN c.distance - t ELSE 0
                  high == c.distance + t
      <3>1. /\ low \in Nat /\ high \in Nat
            /\ \A i \in DOMAIN c.samples : low <= c.samples[i] /\ c.samples[i] <= high
        BY <2>3, <2>4, <2>6
      <3>2. c.distance - t <= low
        BY <2>4
      <3>. HIDE DEF low
      <3>3. median \in low..high
        BY <2>2, <3>1, MedianBounded
      <3>. HIDE DEF median
      <3>4. median \in Int /\ c.distance - t <= median /\ median <= c.distance + t
        BY <2>4, <3>1, <3>2, <3>3
      <3>. QED  BY <2>4, <3>4, Apart
    <2>. HIDE DEF median
    <2>8. /\ WindowRestarted(median) \in Windows /\ WindowRestarted(median) # <<>>
          /\ Len(WindowRestarted(median)) = 1 /\ WindowRestarted(median)[1] = median
      BY <2>5, RestartedFacts DEF Distances
    <2>9. /\ n.window = WindowRestarted(median) /\ n.candidate = NoCandidate /\ n.state = "confirmed"
          /\ n \in [window : Seq(Distances), candidate : CandidateTypes, state : States]
      BY <1>2, <1>3, <2>1, <2>8 DEF Windows
    <2>10. Accepted(n) = median
      BY <2>8, <2>9 DEF Accepted
    <2>. QED  BY <2>2, <2>7, <2>8, <2>9, <2>10, MemoryParts DEF t
  <1>5. CASE ~Confirmed(c, Rising(m))
    <2>1. n = Settled(m, "transient") \/ n = Settled(m, "uncertain")
      BY <1>5 DEF Finished
    <2>. QED  BY <1>1, <1>2, <1>3, <2>1, MemoryParts
  <1>. QED  BY <1>4, <1>5

-----------------------------------------------------------------------------
(* The stages *)

LEMMA FilterInvAgain ==
  FilterInv <=>
    /\ TypeOK /\ stored.candidate = NoCandidate
    /\ pc = "verify" =>
         /\ memory.candidate.distance # 0
         /\ memory.candidate.observations \in 1..(Count(Rising(memory)) - 1)
         /\ Near(memory.candidate, Tolerance(Rising(memory)))
  BY DEF FilterInv, Near

LEMMA FilterInitInv == Init => FilterInv
  BY EmptyFacts DEF Init, FilterInv, TypeOK

\* Every reading of a verification but the last leaves it open; the last settles it.
LEMMA VerifyStep ==
  ASSUME FilterInv, Verify
  PROVE  LET c == Observed(memory, reading')
         IN  /\ FilterInv'
             /\ \/ memory'.window = memory.window
                \/ /\ memory'.state = "confirmed" /\ c.observations = Count(Rising(memory))
                   /\ Len(c.samples) >= Required(Rising(memory))
                   /\ Distance(Accepted(memory'), c.distance) <= Tolerance(Rising(memory))
  <1>. DEFINE m == memory
              c == Observed(m, reading')
  <1>1. /\ pc = "verify" /\ reading' \in Readings \union {Invalid} /\ stored' = stored
        /\ \/ c.observations < Count(Rising(m)) /\ memory' = [memory EXCEPT !.candidate = c] /\ pc' = pc
           \/ ~(c.observations < Count(Rising(m))) /\ memory' \in Finished(m, c) /\ pc' = "idle"
    BY DEF Verify
  <1>2. /\ MemoryOK(m) /\ MemoryOK(stored) /\ m.window # <<>> /\ stored.candidate = NoCandidate
        /\ m.candidate.distance # 0 /\ m.candidate.observations \in 1..(Count(Rising(m)) - 1)
        /\ Near(m.candidate, Tolerance(Rising(m)))
    BY <1>1 DEF FilterInv, TypeOK, Near
  <1>3. /\ c \in CandidateTypes /\ c.distance = m.candidate.distance
        /\ c.observations = m.candidate.observations + 1 /\ Near(c, Tolerance(Rising(m)))
    BY <1>1, <1>2, ObservedFacts
  <1>. HIDE DEF c
  <1>4. Count(Rising(m)) \in Nat
    <2>1. Rising(m) \in BOOLEAN
      BY DEF Rising, IsRise
    <2>. QED  BY <2>1, Numbers
  <1>5. CASE c.observations < Count(Rising(m)) /\ memory' = [memory EXCEPT !.candidate = c] /\ pc' = pc
    <2>1. /\ memory'.candidate = c /\ memory'.window = m.window
          /\ MemoryOK(memory')
      <3>1. m \in [window : Seq(Distances), candidate : CandidateTypes, state : States]
            /\ m.window \in Windows
        BY <1>2, MemoryParts
      <3>2. /\ memory'.candidate = c /\ memory'.window = m.window
            /\ memory' \in [window : Seq(Distances), candidate : CandidateTypes, state : States]
        BY <1>3, <1>5, <3>1
      <3>. QED  BY <3>1, <3>2, MemoryParts
    <2>2. Rising(memory') = Rising(m)
      BY <1>3, <2>1 DEF Rising, IsRise, Accepted
    <2>3. c # NoCandidate
      BY <1>2, <1>3 DEF NoCandidate
    <2>4. c.observations \in 1..(Count(Rising(m)) - 1)
      BY <1>2, <1>3, <1>4, <1>5
    <2>5. TypeOK'
      BY <1>1, <1>2, <1>5, <2>1, <2>3 DEF TypeOK
    <2>. QED  BY <1>1, <1>2, <1>3, <2>1, <2>2, <2>4, <2>5 DEF FilterInv, Near, c
  <1>6. CASE ~(c.observations < Count(Rising(m))) /\ memory' \in Finished(m, c) /\ pc' = "idle"
    <2>1. /\ MemoryOK(memory') /\ memory'.candidate = NoCandidate /\ memory'.window # <<>>
          /\ \/ memory'.window = m.window
             \/ /\ memory'.state = "confirmed" /\ Len(c.samples) >= Required(Rising(m))
                /\ Distance(Accepted(memory'), c.distance) <= Tolerance(Rising(m))
      BY <1>2, <1>3, <1>6, FinishedFacts
    <2>2. c.observations = Count(Rising(m))
      BY <1>2, <1>3, <1>4, <1>6
    <2>3. TypeOK' /\ stored'.candidate = NoCandidate
      BY <1>1, <1>2, <1>6, <2>1 DEF TypeOK
    <2>. QED  BY <1>6, <2>1, <2>2, <2>3 DEF FilterInv, c
  <1>. QED  BY <1>1, <1>5, <1>6

\* The filter stage moves the accepted distance by less than a sudden change.
LEMMA FilterStep ==
  ASSUME FilterInv, Filter
  PROVE  /\ FilterInv'
         /\ memory.window # <<>> => Distance(Accepted(memory'), Accepted(memory)) < Sudden
  <1>1. /\ pc = "filter" /\ memory' \in Evaluated(memory, reading) /\ stored' = stored /\ reading' = reading
        /\ pc' = IF memory'.candidate # NoCandidate THEN "verify" ELSE "idle"
    BY DEF Filter
  <1>2. /\ MemoryOK(memory) /\ MemoryOK(stored) /\ memory.candidate = NoCandidate
        /\ stored.candidate = NoCandidate /\ reading \in Readings \union {Invalid}
    BY <1>1 DEF FilterInv, TypeOK
  <1>3. /\ MemoryOK(memory')
        /\ memory'.candidate # NoCandidate =>
             /\ reading \in Distances /\ memory'.candidate = FirstCandidate(reading)
             /\ memory'.window # <<>>
        /\ memory.window # <<>> =>
             memory'.window # <<>> /\ Distance(Accepted(memory'), Accepted(memory)) < Sudden
    BY <1>1, <1>2, EvaluatedFacts
  <1>4. TypeOK'
    BY <1>1, <1>2, <1>3 DEF TypeOK
  <1>5. ASSUME memory'.candidate # NoCandidate
        PROVE  /\ memory'.candidate.distance # 0
               /\ memory'.candidate.observations \in 1..(Count(Rising(memory')) - 1)
               /\ Near(memory'.candidate, Tolerance(Rising(memory')))
    <2>1. /\ memory'.candidate.distance = reading /\ reading # 0 /\ reading \in Int
          /\ memory'.candidate.observations = 1 /\ memory'.candidate.samples = <<reading>>
      BY <1>3, <1>5, CandidateFacts, SpanFacts DEF Distances
    <2>2. Rising(memory') \in BOOLEAN
      BY DEF Rising, IsRise
    <2>3. Count(Rising(memory')) \in Nat \ {0, 1} /\ Tolerance(Rising(memory')) \in Nat
      BY <2>2, Numbers
    <2>4. Distance(reading, reading) = 0
      BY <2>1, Apart
    <2>5. Near(memory'.candidate, Tolerance(Rising(memory')))
      BY <2>1, <2>3, <2>4 DEF Near
    <2>. QED  BY <2>1, <2>3, <2>5
  <1>6. FilterInv'
    BY <1>1, <1>2, <1>4, <1>5 DEF FilterInv, Near
  <1>. QED  BY <1>3, <1>6

\* The other steps keep the memory, lose it, or take back what was stored.
LEMMA OtherSteps ==
  ASSUME FilterInv, Boot \/ Acquire \/ Store \/ Restart \/ UNCHANGED vars
  PROVE  /\ FilterInv'
         /\ pc = "boot" \/ memory' = memory \/ memory'.window = <<>>
  <1>. USE DEF FilterInv, TypeOK
  <1>1. CASE Boot
    BY <1>1 DEF Boot
  <1>2. CASE Acquire
    BY <1>2, Zenon DEF Acquire, Saves
  <1>3. CASE Store
    BY <1>3, Zenon DEF Store, Saves
  <1>4. CASE Restart
    BY <1>4, EmptyFacts DEF Restart
  <1>5. CASE UNCHANGED vars
    BY <1>5 DEF vars
  <1>. QED  BY <1>1, <1>2, <1>3, <1>4, <1>5

LEMMA FilterInvariant == Spec => []FilterInv
  <1>1. FilterInv /\ [Next]_vars => FilterInv'
    BY VerifyStep, FilterStep, OtherSteps DEF Next, Measuring
  <1>. QED  BY <1>1, FilterInitInv, PTL DEF Spec

\* The filter memory keeps its type, in RAM and in flash, with a candidate during a
\* verification only: no median, window or vote leaves its range (filter.cpp).
THEOREM TypeCorrect == Spec => []TypeOK
  <1>1. FilterInv => TypeOK
    BY DEF FilterInv
  <1>. QED  BY <1>1, FilterInvariant, PTL

\* A sudden change of the accepted distance is always the end of a full verification
\* in which enough readings agreed, and lands within their tolerance: for every
\* set of readings, window, threshold, vote and smoothing (filter.cpp).
THEOREM SuddenChangesConfirmed == Spec => JumpIsConfirmed
  <1>. DEFINE Jump ==
         memory.window # <<>> /\ memory'.window # <<>> /\ pc # "boot"
         /\ Distance(Accepted(memory'), Accepted(memory)) >= Sudden =>
           LET c == Observed(memory, reading')
           IN  /\ pc = "verify" /\ memory'.state = "confirmed"
               /\ c.observations = Count(Rising(memory))
               /\ Len(c.samples) >= Required(Rising(memory))
               /\ Distance(Accepted(memory'), c.distance) <= Tolerance(Rising(memory))
  <1>1. FilterInv /\ [Next]_vars => [Jump]_vars
    <2>. SUFFICES ASSUME FilterInv, Next, memory.window # <<>>, memory'.window # <<>>, pc # "boot",
                         Distance(Accepted(memory'), Accepted(memory)) >= Sudden
                  PROVE  LET c == Observed(memory, reading')
                         IN  /\ pc = "verify" /\ memory'.state = "confirmed"
                             /\ c.observations = Count(Rising(memory))
                             /\ Len(c.samples) >= Required(Rising(memory))
                             /\ Distance(Accepted(memory'), c.distance) <= Tolerance(Rising(memory))
      OBVIOUS
    <2>1. Accepted(memory) \in Int
      <3>1. memory.window \in Seq(Distances)
        BY DEF FilterInv, TypeOK, MemoryOK, Memory
      <3>2. Len(memory.window) \in 1..Len(memory.window)
        BY <3>1, EmptySeq
      <3>. QED  BY <3>1, <3>2, ElementOfSeq, SpanFacts DEF Accepted, Distances
    <2>2. memory'.window # memory.window
      <3>1. ASSUME memory'.window = memory.window
            PROVE  FALSE
        <4>1. Accepted(memory') = Accepted(memory)
          BY <3>1 DEF Accepted
        <4>2. Distance(Accepted(memory'), Accepted(memory)) = 0
          BY <2>1, <4>1, Apart
        <4>. QED  BY <4>2, Numbers
      <3>. QED  BY <3>1
    <2>3. CASE Verify
      BY <2>2, <2>3, VerifyStep DEF Verify
    <2>4. CASE Filter
      <3>1. Distance(Accepted(memory'), Accepted(memory)) < Sudden
        BY <2>4, FilterStep
      <3>2. memory'.window \in Seq(Distances)
        BY <2>4, FilterStep DEF FilterInv, TypeOK, MemoryOK, Memory
      <3>3. Len(memory'.window) \in 1..Len(memory'.window)
        BY <3>2, EmptySeq
      <3>4. Accepted(memory') \in Int
        BY <3>2, <3>3, ElementOfSeq, SpanFacts DEF Accepted, Distances
      <3>5. Distance(Accepted(memory'), Accepted(memory)) \in Nat
        BY <2>1, <3>4, Apart
      <3>. QED  BY <3>1, <3>5, Numbers
    <2>5. CASE Boot \/ Acquire \/ Store \/ Restart
      <3>1. pc = "boot" \/ memory' = memory \/ memory'.window = <<>>
        BY <2>5, OtherSteps
      <3>. QED  BY <2>2, <3>1
    <2>. QED  BY <2>3, <2>4, <2>5 DEF Next, Measuring
  <1>. QED  BY <1>1, FilterInvariant, PTL DEF Spec, JumpIsConfirmed

=============================================================================
