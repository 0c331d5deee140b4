-------------------------- MODULE HistoryRingProofs --------------------------
(***************************************************************************)
(* What is proved of HistoryRing, for every capacity, every range of the   *)
(* generation counter, every set of requests and every set of faults: what *)
(* the portal shows is in order and complete, and the ring implements the  *)
(* abstract log.                                                           *)
(***************************************************************************)
EXTENDS HistoryRing, SequenceTheorems, TLAPS

-----------------------------------------------------------------------------
(* Metadata *)

LEMMA Remainders ==
  ASSUME NEW d \in Nat \ {0}, NEW x \in (-d)..(2 * d - 1)
  PROVE  x % d = IF x < 0 THEN x + d ELSE IF x < d THEN x ELSE x - d
  OBVIOUS

LEMMA Successors ==
  ASSUME NEW d \in Nat \ {0}, NEW y \in 0..(d - 1)
  PROVE  (y + 1) % d = IF y + 1 < d THEN y + 1 ELSE 0
  OBVIOUS

LEMMA FreshTypes ==
  /\ FreshMetadata \in Metadata /\ HeadFits(FreshMetadata) /\ FreshMetadata.count = 0
  /\ CopyOf(FreshMetadata) = 0
  /\ NoMetadata \notin Metadata
  BY CapacityAssumption, GenerationsAssumption
     DEF FreshMetadata, Metadata, Slots, HeadFits, CopyOf, NoMetadata

\* An append moves the ring on by one entry, to the other copy.
LEMMA AdvancedFacts ==
  ASSUME NEW m \in Metadata
  PROVE  /\ Advanced(m) \in Metadata
         /\ Advanced(m).head = IF m.head + 1 < Capacity THEN m.head + 1 ELSE 0
         /\ Advanced(m).count = IF m.count < Capacity THEN m.count + 1 ELSE m.count
         /\ Advanced(m).generation = IF m.generation + 1 < Generations THEN m.generation + 1 ELSE 0
         /\ HeadFits(m) => HeadFits(Advanced(m))
         /\ CopyOf(m) \in {0, 1} /\ CopyOf(Advanced(m)) = 1 - CopyOf(m)
         /\ Advanced(m) # m
  <1>. DEFINE a == Advanced(m)
  <1>1. m.generation \in 0..(Generations - 1) /\ m.head \in Slots /\ m.count \in 0..Capacity
    BY DEF Metadata
  <1>2. /\ a.generation = (m.generation + 1) % Generations
        /\ a.head = (m.head + 1) % Capacity
        /\ a.count = IF m.count < Capacity THEN m.count + 1 ELSE m.count
    BY DEF Advanced
  <1>3. a.head = IF m.head + 1 < Capacity THEN m.head + 1 ELSE 0
    BY <1>1, <1>2, Successors, CapacityAssumption DEF Slots
  <1>4. a.generation = IF m.generation + 1 < Generations THEN m.generation + 1 ELSE 0
    BY <1>1, <1>2, Successors, GenerationsAssumption
  <1>5. a \in Metadata
    BY <1>1, <1>2, <1>3, <1>4, CapacityAssumption, GenerationsAssumption DEF Advanced, Metadata, Slots
  <1>6. HeadFits(m) => HeadFits(a)
    BY <1>1, <1>2, <1>3, CapacityAssumption DEF HeadFits, Slots
  <1>7. CopyOf(m) \in {0, 1} /\ CopyOf(a) = 1 - CopyOf(m)
    BY <1>1, <1>4, GenerationsAssumption DEF CopyOf
  <1>8. a # m
    BY <1>1, <1>4, GenerationsAssumption
  <1>. HIDE DEF a
  <1>. QED  BY <1>2, <1>3, <1>4, <1>5, <1>6, <1>7, <1>8 DEF a

\* The wrapped difference tells the newer of two neighbours, at every value of the counter.
LEMMA NewerOfNeighbours ==
  ASSUME NEW m \in Metadata
  PROVE  /\ NewerGeneration(Advanced(m).generation, m.generation)
         /\ ~NewerGeneration(m.generation, Advanced(m).generation)
  <1>. DEFINE g == m.generation
              h == Advanced(m).generation
  <1>1. g \in 0..(Generations - 1) /\ h = IF g + 1 < Generations THEN g + 1 ELSE 0
    BY AdvancedFacts DEF Metadata
  <1>. HIDE DEF g, h
  <1>2. Generations \in Nat /\ Generations >= 4
    BY GenerationsAssumption
  <1>a. /\ Generations \in Nat \ {0}
        /\ h - g \in (-Generations)..(2 * Generations - 1) /\ g - h \in (-Generations)..(2 * Generations - 1)
    BY <1>1, <1>2
  <1>3. (h - g) % Generations = 1
    <2>1. (h - g) % Generations = IF h - g < 0 THEN h - g + Generations ELSE
            IF h - g < Generations THEN h - g ELSE h - g - Generations
      BY <1>a, Remainders
    <2>. QED  BY <1>1, <1>2, <2>1
  <1>4. (g - h) % Generations = Generations - 1
    <2>1. (g - h) % Generations = IF g - h < 0 THEN g - h + Generations ELSE
            IF g - h < Generations THEN g - h ELSE g - h - Generations
      BY <1>a, Remainders
    <2>. QED  BY <1>1, <1>2, <2>1
  <1>5. 1 \in 1..(Generations \div 2 - 1) /\ Generations - 1 \notin 1..(Generations \div 2 - 1)
    BY <1>2
  <1>. QED  BY <1>3, <1>4, <1>5 DEF NewerGeneration, g, h

\* Copies of the metadata m and of what was in force before them.
Agree(m, cs) ==
  /\ HeadFits(m)
  /\ cs[Own(m)] # NoMetadata => cs[Own(m)] = m
  /\ cs[Other(m)] # NoMetadata => HeadFits(cs[Other(m)]) /\ m = Advanced(cs[Other(m)])

NewestIn(cs) ==
  IF cs[0] # NoMetadata
     /\ (cs[1] = NoMetadata \/ NewerGeneration(cs[0].generation, cs[1].generation))
    THEN cs[0] ELSE cs[1]

FoundIn(cs) ==
  IF cs[0] # NoMetadata \/ cs[1] # NoMetadata THEN NewestIn(cs) ELSE FreshMetadata

LEMMA FoundInCopies ==
  /\ Found = FoundIn(copies) /\ Found' = FoundIn(copies')
  /\ NewestCopy = NewestIn(copies)
  BY DEF Found, FoundIn, NewestIn, Intact, NewestCopy

CopyTypes == [{0, 1} -> Metadata \union {NoMetadata}]

\* What a boot finds: the metadata in force, or those before them if their copy
\* does not verify.
LEMMA FoundAgrees ==
  ASSUME NEW m \in Metadata, NEW cs \in CopyTypes, Agree(m, cs),
         cs[0] # NoMetadata \/ cs[1] # NoMetadata
  PROVE  /\ FoundIn(cs) = IF cs[Own(m)] # NoMetadata THEN m ELSE cs[Other(m)]
         /\ FoundIn(cs) \in Metadata
         /\ Agree(FoundIn(cs), cs)
  <1>. DEFINE o == cs[Other(m)]
  <1>1. Own(m) \in {0, 1} /\ Other(m) = 1 - Own(m)
    BY AdvancedFacts DEF Own, Other
  <1>2. cs[0] \in Metadata \union {NoMetadata} /\ cs[1] \in Metadata \union {NoMetadata}
    BY DEF CopyTypes
  <1>3. o # NoMetadata => o \in Metadata /\ HeadFits(o) /\ m = Advanced(o)
                          /\ NewerGeneration(m.generation, o.generation)
                          /\ ~NewerGeneration(o.generation, m.generation)
    BY <1>1, <1>2, NewerOfNeighbours DEF Agree
  <1>4. FoundIn(cs) = IF cs[Own(m)] # NoMetadata THEN m ELSE o
    <2>1. CASE Own(m) = 0
      BY <1>1, <1>2, <1>3, <2>1 DEF FoundIn, NewestIn, Agree
    <2>2. CASE Own(m) = 1
      BY <1>1, <1>2, <1>3, <2>2 DEF FoundIn, NewestIn, Agree
    <2>. QED  BY <1>1, <2>1, <2>2
  <1>5. CASE cs[Own(m)] # NoMetadata
    BY <1>4, <1>5
  <1>6. CASE cs[Own(m)] = NoMetadata
    <2>1. o # NoMetadata
      BY <1>1, <1>6
    <2>2. Own(o) = Other(m) /\ Other(o) = Own(m)
      BY <1>1, <1>3, <2>1, AdvancedFacts DEF Own, Other
    <2>. QED  BY <1>3, <1>4, <1>6, <2>1, <2>2 DEF Agree
  <1>. QED  BY <1>5, <1>6

-----------------------------------------------------------------------------
(* Entries and their slots *)

SlotOf(m, i) == (OldestSlot(m) + i) % Capacity

LEMMA EntriesAreSlots ==
  ASSUME NEW m, NEW i
  PROVE  EntryAt(m, i) = slots[SlotOf(m, i)] /\ EntryAt(m, i)' = slots'[SlotOf(m, i)']
  BY DEF EntryAt, SlotOf

LEMMA SlotFacts ==
  ASSUME NEW m \in Metadata, HeadFits(m), NEW i \in Indices(m)
  PROVE  /\ SlotOf(m, i) \in Slots
         /\ SlotOf(m, i) = IF m.count < Capacity THEN i ELSE
              IF m.head + i < Capacity THEN m.head + i ELSE m.head + i - Capacity
         /\ SlotOf(m, i) = m.head => m.count = Capacity /\ i = 0
  <1>1. /\ m.head \in 0..(Capacity - 1) /\ m.count \in 0..Capacity /\ i \in 0..(m.count - 1)
        /\ Capacity \in Nat \ {0} /\ (m.count < Capacity => m.head = m.count)
    BY CapacityAssumption DEF Metadata, Slots, Indices, HeadFits
  <1>2. CASE m.count < Capacity
    <2>1. i \in (-Capacity)..(2 * Capacity - 1) /\ OldestSlot(m) + i = i
      BY <1>1, <1>2 DEF OldestSlot
    <2>2. i % Capacity = IF i < 0 THEN i + Capacity ELSE
            IF i < Capacity THEN i ELSE i - Capacity
      BY <1>1, <2>1, Remainders
    <2>. QED  BY <1>1, <1>2, <2>1, <2>2 DEF SlotOf, Slots
  <1>3. CASE m.count = Capacity
    <2>. DEFINE x == m.head + i
    <2>1. x \in (-Capacity)..(2 * Capacity - 1) /\ OldestSlot(m) + i = x
      BY <1>1, <1>3 DEF OldestSlot
    <2>. HIDE DEF x
    <2>2. x % Capacity = IF x < 0 THEN x + Capacity ELSE
            IF x < Capacity THEN x ELSE x - Capacity
      BY <1>1, <2>1, Remainders
    <2>. QED  BY <1>1, <1>3, <2>1, <2>2 DEF SlotOf, Slots, x
  <1>. QED  BY <1>1, <1>2, <1>3

\* The entries after an append are those from before it, the oldest of a full
\* ring apart, and the slot at the head.
LEMMA AdvancedSlots ==
  ASSUME NEW m \in Metadata, HeadFits(m), NEW i \in Indices(Advanced(m))
  PROVE  LET k == IF m.count = Capacity THEN i + 1 ELSE i
         IN  IF i = Advanced(m).count - 1
               THEN SlotOf(Advanced(m), i) = m.head
               ELSE k \in Indices(m) /\ SlotOf(Advanced(m), i) = SlotOf(m, k)
  <1>. DEFINE a == Advanced(m)
              k == IF m.count = Capacity THEN i + 1 ELSE i
  <1>1. /\ a \in Metadata /\ HeadFits(a)
        /\ a.head = IF m.head + 1 < Capacity THEN m.head + 1 ELSE 0
        /\ a.count = IF m.count < Capacity THEN m.count + 1 ELSE m.count
    BY AdvancedFacts
  <1>2. SlotOf(a, i) = IF a.count < Capacity THEN i ELSE
          IF a.head + i < Capacity THEN a.head + i ELSE a.head + i - Capacity
    BY <1>1, SlotFacts
  <1>. HIDE DEF a
  <1>3. /\ m.head \in 0..(Capacity - 1) /\ m.count \in 0..Capacity /\ i \in 0..(a.count - 1)
        /\ Capacity \in Nat \ {0} /\ (m.count < Capacity => m.head = m.count)
    BY CapacityAssumption DEF Metadata, Slots, Indices, HeadFits, a
  <1>4. CASE i = a.count - 1
    BY <1>1, <1>2, <1>3, <1>4 DEF a
  <1>5. CASE i # a.count - 1
    <2>1. k \in Indices(m)
      BY <1>1, <1>3, <1>5 DEF Indices
    <2>2. SlotOf(m, k) = IF m.count < Capacity THEN k ELSE
            IF m.head + k < Capacity THEN m.head + k ELSE m.head + k - Capacity
      BY <2>1, SlotFacts
    <2>. QED  BY <1>1, <1>2, <1>3, <1>5, <2>1, <2>2 DEF a
  <1>. QED  BY <1>4, <1>5

SlotTypes == [Slots -> 0..LastSequence]

\* Ordered, of given slots.
OrderedIn(sl, m, depth) ==
  \A i, j \in Indices(m) :
    i < j /\ m.count - i <= Capacity - depth /\ sl[SlotOf(m, i)] # 0 /\ sl[SlotOf(m, j)] # 0
      => sl[SlotOf(m, i)] < sl[SlotOf(m, j)]

LEMMA OrderedDeeper ==
  ASSUME NEW m \in Metadata, NEW sl, OrderedIn(sl, m, 1), NEW d \in {1, 2}
  PROVE  OrderedIn(sl, m, d)
  BY CapacityAssumption DEF OrderedIn, Indices, Metadata

\* An append of a record newer than all others restores the order of all but the oldest.
LEMMA OrderedAdvances ==
  ASSUME NEW m \in Metadata, HeadFits(m), NEW sl \in SlotTypes, OrderedIn(sl, m, 2),
         NEW n \in Nat, \A s \in Slots \ {m.head} : sl[s] < n, sl[m.head] \in {n, 0}
  PROVE  OrderedIn(sl, Advanced(m), 1)
  <1>. DEFINE a == Advanced(m)
  <1>1. /\ a \in Metadata /\ HeadFits(a)
        /\ a.count = IF m.count < Capacity THEN m.count + 1 ELSE m.count
        /\ m.count \in 0..Capacity /\ Capacity \in Nat \ {0, 1}
    BY AdvancedFacts, CapacityAssumption DEF Metadata
  <1>. SUFFICES ASSUME NEW i \in Indices(a), NEW j \in Indices(a), i < j,
                       a.count - i <= Capacity - 1, sl[SlotOf(a, i)] # 0, sl[SlotOf(a, j)] # 0
                PROVE  sl[SlotOf(a, i)] < sl[SlotOf(a, j)]
    BY DEF OrderedIn
  <1>. DEFINE up(x) == IF m.count = Capacity THEN x + 1 ELSE x
  <1>2. i \in 0..(a.count - 1) /\ j \in 0..(a.count - 1) /\ i # a.count - 1
    BY <1>1 DEF Indices
  <1>3. up(i) \in Indices(m) /\ SlotOf(a, i) = SlotOf(m, up(i))
    BY <1>2, AdvancedSlots
  <1>4. m.count - up(i) <= Capacity - 2
    BY <1>1, <1>2 DEF Indices
  <1>5. CASE j = a.count - 1
    <2>1. SlotOf(a, j) = m.head /\ sl[m.head] = n
      BY <1>5, AdvancedSlots
    <2>2. SlotOf(m, up(i)) \in Slots /\ SlotOf(m, up(i)) # m.head
      <3>1. ~(m.count = Capacity /\ up(i) = 0)
        BY <1>2
      <3>. HIDE DEF up
      <3>. QED  BY <1>3, <3>1, SlotFacts
    <2>. QED  BY <1>3, <2>1, <2>2
  <1>6. CASE j # a.count - 1
    <2>1. up(j) \in Indices(m) /\ SlotOf(a, j) = SlotOf(m, up(j))
      BY <1>6, AdvancedSlots
    <2>2. up(i) < up(j)
      BY <1>2
    <2>. HIDE DEF up, a
    <2>. QED  BY <1>3, <1>4, <2>1, <2>2 DEF OrderedIn
  <1>. QED  BY <1>5, <1>6

\* A ring that is set back by one append has one more entry out of order.
LEMMA OrderedGoesBack ==
  ASSUME NEW o \in Metadata, HeadFits(o), NEW sl, OrderedIn(sl, Advanced(o), 1)
  PROVE  OrderedIn(sl, o, 2)
  <1>. DEFINE a == Advanced(o)
  <1>1. /\ a \in Metadata
        /\ a.count = IF o.count < Capacity THEN o.count + 1 ELSE o.count
        /\ o.count \in 0..Capacity /\ Capacity \in Nat \ {0, 1}
    BY AdvancedFacts, CapacityAssumption DEF Metadata
  <1>. SUFFICES ASSUME NEW i \in Indices(o), NEW j \in Indices(o), i < j,
                       o.count - i <= Capacity - 2, sl[SlotOf(o, i)] # 0, sl[SlotOf(o, j)] # 0
                PROVE  sl[SlotOf(o, i)] < sl[SlotOf(o, j)]
    BY DEF OrderedIn
  <1>. DEFINE dn(x) == IF o.count = Capacity THEN x - 1 ELSE x
  <1>2. i \in 0..(o.count - 1) /\ j \in 0..(o.count - 1)
    BY <1>1 DEF Indices
  <1>3. dn(i) \in Indices(a) /\ dn(j) \in Indices(a) /\ dn(i) < dn(j) /\ dn(j) # a.count - 1
        /\ dn(i) # a.count - 1 /\ a.count - dn(i) <= Capacity - 1
    BY <1>1, <1>2 DEF Indices
  <1>4. /\ i = IF o.count = Capacity THEN dn(i) + 1 ELSE dn(i)
        /\ j = IF o.count = Capacity THEN dn(j) + 1 ELSE dn(j)
    BY <1>2
  <1>. HIDE DEF dn
  <1>5. SlotOf(a, dn(i)) = SlotOf(o, i) /\ SlotOf(a, dn(j)) = SlotOf(o, j)
    BY <1>3, <1>4, AdvancedSlots
  <1>. HIDE DEF a
  <1>. QED  BY <1>3, <1>5 DEF OrderedIn, a

\* The record that an append puts at the head is not visible, or the oldest.
LEMMA OrderedWritten ==
  ASSUME NEW m \in Metadata, HeadFits(m), NEW sl \in SlotTypes, NEW d \in {1, 2},
         OrderedIn(sl, m, d), NEW n
  PROVE  OrderedIn([sl EXCEPT ![m.head] = n], m, d)
  <1>. DEFINE w == [sl EXCEPT ![m.head] = n]
  <1>. SUFFICES ASSUME NEW i \in Indices(m), NEW j \in Indices(m), i < j,
                       m.count - i <= Capacity - d, w[SlotOf(m, i)] # 0, w[SlotOf(m, j)] # 0
                PROVE  w[SlotOf(m, i)] < w[SlotOf(m, j)]
    BY DEF OrderedIn
  <1>1. m.count \in 0..Capacity /\ Capacity \in Nat \ {0, 1} /\ i \in 0..(m.count - 1) /\ j \in 0..(m.count - 1)
    BY CapacityAssumption DEF Metadata, Indices
  <1>2. SlotOf(m, i) # m.head /\ SlotOf(m, j) # m.head /\ SlotOf(m, i) \in Slots /\ SlotOf(m, j) \in Slots
    BY <1>1, SlotFacts
  <1>3. w[SlotOf(m, i)] = sl[SlotOf(m, i)] /\ w[SlotOf(m, j)] = sl[SlotOf(m, j)]
    BY <1>2 DEF SlotTypes
  <1>. HIDE DEF w
  <1>. QED  BY <1>3 DEF OrderedIn

LEMMA OrderedDecays ==
  ASSUME NEW m \in Metadata, HeadFits(m), NEW sl \in SlotTypes, NEW d \in {1, 2},
         OrderedIn(sl, m, d), NEW s \in Slots
  PROVE  OrderedIn([sl EXCEPT ![s] = 0], m, d)
  <1>. DEFINE w == [sl EXCEPT ![s] = 0]
  <1>1. \A i \in Indices(m) : w[SlotOf(m, i)] # 0 => w[SlotOf(m, i)] = sl[SlotOf(m, i)]
    BY SlotFacts DEF SlotTypes
  <1>. HIDE DEF w
  <1>. QED  BY <1>1 DEF OrderedIn, w

-----------------------------------------------------------------------------
(* The metadata in force, step by step *)

LEMMA HeldIsAgreement ==
  /\ CopiesHeld <=> /\ Agree(InForce, copies)
                    /\ IF ready THEN Intact(0) \/ Intact(1) ELSE ring = FreshMetadata
  /\ CopiesHeld' <=> /\ Agree(InForce', copies')
                     /\ IF ready' THEN Intact(0)' \/ Intact(1)' ELSE ring' = FreshMetadata
  /\ Ordered(InForce, Depth) <=> OrderedIn(slots, InForce, Depth)
  /\ Ordered(InForce, Depth)' <=> OrderedIn(slots', InForce', Depth')
  BY EntriesAreSlots DEF CopiesHeld, Agree, Intact, HeadFits, Ordered, OrderedIn, Own, Other, CopyOf,
                         Indices, SlotOf, OldestSlot, Advanced

LEMMA ForceFacts ==
  ASSUME HistoryInv
  PROVE  /\ InForce \in Metadata /\ HeadFits(InForce) /\ Agree(InForce, copies)
         /\ copies \in CopyTypes /\ slots \in SlotTypes
         /\ Own(InForce) \in {0, 1} /\ Other(InForce) = 1 - Own(InForce) /\ Depth \in {1, 2}
         /\ ~Intact(0) /\ ~Intact(1) => InForce = FreshMetadata /\ ~ready
         /\ ready => InForce = ring
         /\ ~ready => ring = FreshMetadata /\ InForce = FoundIn(copies)
  <1>1. /\ copies \in CopyTypes /\ slots \in SlotTypes /\ ring \in Metadata /\ Agree(InForce, copies)
        /\ ready \in BOOLEAN /\ (ready => Intact(0) \/ Intact(1)) /\ (~ready => ring = FreshMetadata)
    BY HeldIsAgreement DEF HistoryInv, TypeOK, CopyTypes, SlotTypes
  <1>2. Found \in Metadata
    BY <1>1, FreshTypes DEF Found, NewestCopy, CopyTypes, Intact
  <1>3. InForce \in Metadata
    BY <1>1, <1>2 DEF InForce
  <1>. QED  BY <1>1, <1>3, AdvancedFacts, FoundInCopies DEF Agree, InForce, Found, Own, Other, Depth

\* Steps that leave the metadata alone.
LEMMA ForceKept ==
  ASSUME UNCHANGED <<ready, ring, copies>>
  PROVE  /\ InForce' = InForce /\ Depth' = Depth /\ ring' = ring
         /\ CopiesHeld => CopiesHeld'
  BY DEF InForce, Found, NewestCopy, Intact, Depth, CopiesHeld

LEMMA BeginForce ==
  ASSUME HistoryInv, Begin
  PROVE  /\ CopiesHeld' /\ ring' \in Metadata /\ copies' \in CopyTypes /\ ready' \in BOOLEAN
         /\ OrderedIn(slots, InForce', Depth') /\ InForce' = InForce
  <1>1. ~ready /\ OrderedIn(slots, InForce, Depth)
    BY HeldIsAgreement DEF HistoryInv, Begin, SlotsHeld
  <1>2. CASE Intact(0) \/ Intact(1)
    <2>1. ring' = NewestCopy /\ ready' /\ copies' = copies
      BY <1>2 DEF Begin
    <2>2. InForce' = InForce /\ ring' = InForce
      BY <1>1, <1>2, <2>1 DEF InForce, Found
    <2>3. Depth' = Depth
      BY <2>1, <2>2 DEF Depth, Intact
    <2>. QED  BY <1>1, <1>2, <2>1, <2>2, <2>3, ForceFacts, HeldIsAgreement DEF Intact
  <1>3. CASE ~Intact(0) /\ ~Intact(1)
    <2>1. /\ ring' = FreshMetadata /\ ready' \in BOOLEAN
          /\ copies' = IF ready' THEN [copies EXCEPT ![0] = FreshMetadata] ELSE copies
      BY <1>3 DEF Begin, Writes
    <2>2. /\ copies' \in CopyTypes
          /\ copies'[0] = IF ready' THEN FreshMetadata ELSE NoMetadata
          /\ copies'[1] = NoMetadata
      BY <1>3, <2>1, ForceFacts, FreshTypes DEF CopyTypes, Intact
    <2>3. InForce' = FreshMetadata
      BY <2>1, <2>2 DEF InForce, Found, Intact
    <2>4. Agree(InForce', copies')
      BY <2>2, <2>3, FreshTypes DEF Agree, Own, Other
    <2>5. OrderedIn(slots, InForce', Depth')
      BY <2>3, FreshTypes DEF OrderedIn, Indices
    <2>6. IF ready' THEN Intact(0)' \/ Intact(1)' ELSE ring' = FreshMetadata
      BY <2>1, <2>2, FreshTypes DEF Intact
    <2>. QED  BY <1>3, <2>1, <2>2, <2>3, <2>4, <2>5, <2>6, HeldIsAgreement, ForceFacts, FreshTypes
  <1>. QED  BY <1>2, <1>3

LEMMA BeginFailsForce ==
  ASSUME HistoryInv, BeginFails
  PROVE  InForce' = InForce /\ Depth' = Depth /\ CopiesHeld' /\ UNCHANGED <<ring, copies, ready>>
  <1>1. ~ready /\ UNCHANGED <<ring, copies, ready>>
    BY DEF HistoryInv, BeginFails, TypeOK
  <1>. QED  BY <1>1, ForceKept DEF HistoryInv

\* An append that is made visible.
LEMMA WrittenForce ==
  ASSUME HistoryInv, pc = "commit", ready' = ready, slots' = slots, ring' = Advanced(ring),
         copies' = [copies EXCEPT ![CopyOf(Advanced(ring))] = Advanced(ring)]
  PROVE  /\ CopiesHeld' /\ ring' \in Metadata /\ copies' \in CopyTypes
         /\ OrderedIn(slots, InForce', Depth') /\ OrderedIn(slots, ring', 1)
  <1>1. /\ ready /\ pending /\ InForce = ring /\ ring \in Metadata /\ HeadFits(ring)
        /\ Agree(ring, copies) /\ copies \in CopyTypes
    BY ForceFacts DEF HistoryInv, TypeOK
  <1>. DEFINE next == Advanced(ring)
  <1>2. /\ next \in Metadata /\ HeadFits(next) /\ CopyOf(ring) \in {0, 1}
        /\ Own(next) = 1 - CopyOf(ring) /\ Other(next) = CopyOf(ring) /\ next # NoMetadata
    BY <1>1, AdvancedFacts, FreshTypes DEF Own, Other
  <1>3. /\ copies' \in CopyTypes /\ copies'[Own(next)] = next
        /\ copies'[Other(next)] = copies[Own(ring)]
    BY <1>1, <1>2 DEF CopyTypes, Own
  <1>4. InForce' = next
    BY <1>1 DEF InForce
  <1>5. Agree(next, copies')
    BY <1>1, <1>2, <1>3 DEF Agree
  <1>6. Intact(0)' \/ Intact(1)'
    BY <1>2, <1>3 DEF Intact
  <1>7. OrderedIn(slots, next, 1)
    <2>1. slots \in SlotTypes /\ number \in Nat /\ OrderedIn(slots, ring, Depth) /\ Depth \in {1, 2}
      BY <1>1, ForceFacts, HeldIsAgreement DEF HistoryInv, TypeOK, SlotsHeld
    <2>2. OrderedIn(slots, ring, 2)
      BY <1>1, <2>1, OrderedDeeper
    <2>3. (\A s \in Slots \ {ring.head} : slots[s] < number) /\ slots[ring.head] \in {number, 0}
      BY <1>1 DEF HistoryInv, SlotsHeld
    <2>. QED  BY <1>1, <2>1, <2>2, <2>3, OrderedAdvances
  <1>8. OrderedIn(slots, next, Depth')
    <2>1. Depth' \in {1, 2}
      BY DEF Depth
    <2>. QED  BY <1>2, <1>7, <2>1, OrderedDeeper
  <1>. QED  BY <1>1, <1>2, <1>3, <1>4, <1>5, <1>6, <1>7, <1>8, HeldIsAgreement

\* One append is undone.
SetBack == InForce' \in Metadata /\ HeadFits(InForce') /\ InForce = Advanced(InForce')

\* The metadata a boot finds instead of those in force, be it that the ring in RAM
\* is lost or that a copy has decayed.
LEMMA SetBackForce ==
  ASSUME HistoryInv, Agree(InForce, copies'), copies' \in CopyTypes, ~ready', ring' = FreshMetadata,
         \/ copies' = copies
         \/ Intact(0) /\ Intact(1) /\ \E c \in {0, 1} : copies' = [copies EXCEPT ![c] = NoMetadata]
  PROVE  CopiesHeld' /\ OrderedIn(slots, InForce', Depth') /\ (InForce' = InForce \/ SetBack)
  <1>. DEFINE m == InForce
              o == copies'[Other(m)]
  <1>1. /\ m \in Metadata /\ HeadFits(m) /\ copies \in CopyTypes /\ Agree(m, copies)
        /\ Own(m) \in {0, 1} /\ Other(m) = 1 - Own(m) /\ Depth \in {1, 2}
        /\ OrderedIn(slots, m, Depth)
    BY ForceFacts, HeldIsAgreement DEF HistoryInv, SlotsHeld
  <1>2. InForce' = FoundIn(copies')
    BY FoundInCopies DEF InForce
  <1>3. CASE copies'[0] = NoMetadata /\ copies'[1] = NoMetadata
    <2>1. copies' = copies
      BY <1>1, <1>3 DEF Intact, CopyTypes
    <2>2. InForce' = FreshMetadata
      BY <1>2, <1>3 DEF FoundIn
    <2>3. Agree(InForce', copies')
      BY <1>3, <2>2, FreshTypes DEF Agree, Own, Other
    <2>4. InForce = FreshMetadata
      BY <1>3, <2>1, ForceFacts DEF Intact
    <2>. QED  BY <2>2, <2>3, <2>4, HeldIsAgreement, FreshTypes DEF OrderedIn, Indices
  <1>4. CASE copies'[0] # NoMetadata \/ copies'[1] # NoMetadata
    <2>1. /\ InForce' = IF copies'[Own(m)] # NoMetadata THEN m ELSE o
          /\ Agree(InForce', copies')
      BY <1>1, <1>2, <1>4, FoundAgrees
    <2>2. CopiesHeld'
      BY <2>1, HeldIsAgreement
    <2>3. CASE copies'[Own(m)] # NoMetadata
      <3>1. Depth = 1 \/ (copies' = copies /\ Depth' = Depth)
        <4>1. CASE copies' = copies
          BY <2>1, <2>3, <4>1 DEF Depth, Intact
        <4>2. CASE Intact(0) /\ Intact(1)
          BY <1>1, <4>2 DEF Depth
        <4>. QED  BY <4>1, <4>2
      <3>2. Depth' \in {1, 2}
        BY DEF Depth
      <3>. QED  BY <1>1, <2>1, <2>2, <2>3, <3>1, <3>2, OrderedDeeper
    <2>4. CASE copies'[Own(m)] = NoMetadata
      <3>1. o # NoMetadata /\ o \in Metadata /\ HeadFits(o) /\ m = Advanced(o) /\ InForce' = o
        BY <1>1, <1>4, <2>1, <2>4 DEF CopyTypes, Agree
      <3>2. Depth = 1
        <4>1. CASE copies' = copies
          BY <1>1, <2>4, <4>1 DEF Depth, Intact
        <4>2. CASE Intact(0) /\ Intact(1)
          BY <1>1, <4>2 DEF Depth
        <4>. QED  BY <4>1, <4>2
      <3>3. Depth' = 2
        <4>1. Own(o) = Other(m) /\ Other(o) = Own(m)
          BY <1>1, <3>1, AdvancedFacts DEF Own, Other
        <4>. QED  BY <2>4, <3>1, <4>1 DEF Depth, Intact
      <3>. QED  BY <1>1, <2>2, <3>1, <3>2, <3>3, OrderedGoesBack DEF SetBack
    <2>. QED  BY <2>3, <2>4
  <1>. QED  BY <1>3, <1>4

LEMMA RestartForce ==
  ASSUME HistoryInv, Restart
  PROVE  CopiesHeld' /\ OrderedIn(slots, InForce', Depth') /\ (InForce' = InForce \/ SetBack)
  BY ForceFacts, SetBackForce DEF Restart

LEMMA CopyDecaysForce ==
  ASSUME HistoryInv, Intact(0), Intact(1), NEW c \in {0, 1},
         copies' = [copies EXCEPT ![c] = NoMetadata], UNCHANGED <<ready, ring>>
  PROVE  /\ CopiesHeld' /\ copies' \in CopyTypes /\ OrderedIn(slots, InForce', Depth')
         /\ InForce' = InForce \/ SetBack
  <1>1. /\ Agree(InForce, copies) /\ copies \in CopyTypes /\ InForce \in Metadata
        /\ Own(InForce) \in {0, 1} /\ Other(InForce) = 1 - Own(InForce)
    BY ForceFacts
  <1>2. copies' \in CopyTypes /\ copies'[c] = NoMetadata /\ copies'[1 - c] = copies[1 - c]
    BY <1>1 DEF CopyTypes
  <1>3. Agree(InForce, copies')
    BY <1>1, <1>2 DEF Agree
  <1>4. CASE ready
    <2>1. InForce' = InForce /\ (Intact(0)' \/ Intact(1)')
      BY <1>2, <1>4 DEF InForce, Intact
    <2>2. Depth = 1 /\ Depth' \in {1, 2}
      BY <1>1 DEF Depth
    <2>3. OrderedIn(slots, InForce, 1)
      BY <2>2, HeldIsAgreement DEF HistoryInv, SlotsHeld
    <2>. QED  BY <1>1, <1>2, <1>3, <1>4, <2>1, <2>2, <2>3, OrderedDeeper, HeldIsAgreement
  <1>5. CASE ~ready
    BY <1>2, <1>3, <1>5, ForceFacts, SetBackForce
  <1>. QED  BY <1>4, <1>5

-----------------------------------------------------------------------------
(* The slots *)

\* No step disturbs the order of the entries in force, and the pending measurement
\* is newer than every record but one that was written for it.
LEMMA SlotsStep ==
  ASSUME HistoryInv, [Next]_vars
  PROVE  CopiesHeld' /\ SlotsHeld'
  <1>. USE DEF HistoryInv, SlotsHeld
  <1>1. /\ slots \in SlotTypes /\ slots \in [Slots -> Nat] /\ number \in Nat /\ last \in Nat /\ number <= last
        /\ ring \in Metadata /\ ring.head \in Slots /\ (pc = "commit" => ready /\ pending)
        /\ OrderedIn(slots, InForce, Depth) /\ InForce \in Metadata /\ HeadFits(InForce) /\ Depth \in {1, 2}
    BY ForceFacts, HeldIsAgreement, LastSequenceAssumption DEF TypeOK, SlotTypes, Metadata
  <1>2. CASE Begin
    <2>1. slots' = slots /\ last' = last /\ pending' = pending /\ number' = number /\ pc' = "idle" /\ ~pending
      BY <1>2 DEF Begin
    <2>. QED  BY <1>1, <1>2, <2>1, BeginForce, HeldIsAgreement
  <1>3. CASE BeginFails
    <2>1. slots' = slots /\ last' = last /\ pending' = pending /\ number' = number /\ pc' = "idle" /\ ~pending
      BY <1>3 DEF BeginFails
    <2>. QED  BY <1>1, <1>3, <2>1, BeginFailsForce, HeldIsAgreement
  <1>4. CASE Measure \/ RadioTest
    <2>1. UNCHANGED <<ready, ring, copies, slots>> /\ pc = "idle" /\ pc' = "idle"
      BY <1>4 DEF Measure, RadioTest
    <2>2. last' \in Nat /\ last <= last' /\ (pending' => number' > last)
      BY <1>1, <1>4 DEF Measure, RadioTest
    <2>3. \A s \in Slots : slots'[s] <= last'
      BY <1>1, <2>1, <2>2
    <2>4. pending' => \A s \in Slots \ {ring'.head} : slots'[s] < number'
      <3>1. number' \in Nat
        BY <1>1, <1>4 DEF Measure, RadioTest
      <3>. QED  BY <1>1, <2>1, <2>2, <3>1
    <2>. QED  BY <1>1, <2>1, <2>3, <2>4, ForceKept, HeldIsAgreement
  <1>5. CASE WriteSlot
    <2>1. /\ UNCHANGED <<ready, ring, copies, last, number, pending>> /\ pending /\ ready
          /\ \/ slots' = [slots EXCEPT ![ring.head] = number]
             \/ slots' = slots /\ pc' # "commit"
      BY <1>5 DEF WriteSlot
    <2>2. InForce = ring
      BY <2>1, ForceFacts
    <2>3. CASE slots' = [slots EXCEPT ![ring.head] = number]
      <3>1. /\ slots'[ring.head] = number
            /\ \A s \in Slots \ {ring.head} : slots'[s] = slots[s]
        BY <1>1, <2>3
      <3>2. OrderedIn(slots', InForce, Depth)
        BY <1>1, <2>2, <2>3, OrderedWritten
      <3>3. \A s \in Slots : slots'[s] <= last
        BY <1>1, <3>1
      <3>. QED  BY <1>1, <2>1, <3>1, <3>2, <3>3, ForceKept, HeldIsAgreement
    <2>4. CASE slots' = slots /\ pc' # "commit"
      BY <1>1, <2>1, <2>4, ForceKept, HeldIsAgreement
    <2>. QED  BY <2>1, <2>3, <2>4
  <1>6. CASE WriteMetadata
    <2>1. PICK ok \in Writes :
            /\ copies' = IF ok THEN [copies EXCEPT ![CopyOf(Advanced(ring))] = Advanced(ring)] ELSE copies
            /\ ring' = RingAfter(ok) /\ pending' = ~ok
      BY <1>6, Zenon DEF WriteMetadata
    <2>2. /\ UNCHANGED <<ready, slots, last, number>> /\ pc = "commit" /\ pc' = "idle"
          /\ ok \in BOOLEAN
      BY <1>6 DEF WriteMetadata, Writes
    <2>3. CASE ok
      <3>1. /\ ring' = Advanced(ring) /\ ~pending'
            /\ copies' = [copies EXCEPT ![CopyOf(Advanced(ring))] = Advanced(ring)]
        BY <2>1, <2>3 DEF RingAfter
      <3>. QED  BY <1>1, <2>2, <3>1, WrittenForce, HeldIsAgreement
    <2>4. CASE ~ok
      <3>1. UNCHANGED <<ready, ring, copies>>
        BY <2>1, <2>2, <2>4 DEF RingAfter
      <3>. QED  BY <1>1, <2>2, <3>1, ForceKept, HeldIsAgreement
    <2>. QED  BY <2>2, <2>3, <2>4
  <1>7. CASE OpenPages \/ NextPage \/ DrawChart \/ UNCHANGED vars
    <2>1. UNCHANGED <<pc, ready, ring, copies, slots, last, number, pending>>
      BY <1>7, Zenon DEF OpenPages, NextPage, DrawChart, vars
    <2>. QED  BY <1>1, <2>1, ForceKept, HeldIsAgreement
  <1>8. CASE Restart
    <2>1. slots' = slots /\ last' = last /\ ~pending' /\ pc' = "boot"
      BY <1>8 DEF Restart
    <2>. QED  BY <1>1, <1>8, <2>1, RestartForce, HeldIsAgreement
  <1>9. CASE Decay
    <2>1. UNCHANGED <<pc, ready, ring, last, number, pending>>
      BY <1>9 DEF Decay
    <2>2. CASE UNCHANGED slots /\ Intact(0) /\ Intact(1)
               /\ \E c \in {0, 1} : copies' = [copies EXCEPT ![c] = NoMetadata]
      BY <1>1, <2>1, <2>2, CopyDecaysForce, HeldIsAgreement
    <2>3. CASE UNCHANGED copies /\ \E s \in Slots : slots' = [slots EXCEPT ![s] = 0]
      <3>1. PICK s \in Slots : slots' = [slots EXCEPT ![s] = 0]
        BY <2>3
      <3>2. \A t \in Slots : slots'[t] \in {slots[t], 0}
        BY <1>1, <3>1
      <3>3. OrderedIn(slots', InForce, Depth)
        BY <1>1, <3>1, OrderedDecays
      <3>4. \A t \in Slots : slots'[t] <= last
        BY <1>1, <3>2
      <3>5. pending => number > 0
        BY <1>1 DEF TypeOK
      <3>6. pending => \A t \in Slots \ {ring.head} : slots'[t] < number
        BY <1>1, <3>2, <3>5
      <3>. QED  BY <1>1, <2>1, <2>3, <3>2, <3>3, <3>4, <3>6, ForceKept, HeldIsAgreement
    <2>. QED  BY <1>9, <2>2, <2>3 DEF Decay
  <1>. QED  BY <1>2, <1>3, <1>4, <1>5, <1>6, <1>7, <1>8, <1>9 DEF Next

-----------------------------------------------------------------------------
(* What a request reads *)

LEMMA Sequences ==
  ASSUME NEW S, NEW n \in Nat, NEW f \in [1..n -> S]
  PROVE  f \in Seq(S) /\ Len(f) = n
  OBVIOUS

LEMMA Joined ==
  ASSUME NEW S, NEW s \in Seq(S), NEW t \in Seq(S)
  PROVE  /\ s \o t \in Seq(S) /\ Len(s \o t) = Len(s) + Len(t)
         /\ \A p \in 1..(Len(s) + Len(t)) : (s \o t)[p] = IF p <= Len(s) THEN s[p] ELSE t[p - Len(s)]
  BY ConcatProperties

LEMMA PageFacts ==
  ASSUME NEW total \in Nat, NEW offset \in 0..total, NEW limit \in Requests
  PROVE  /\ Page(total, offset, limit).from = offset
         /\ Page(total, offset, limit).next \in offset..total
         /\ Page(total, offset, limit).more \in BOOLEAN
         /\ Page(total, offset, limit).more <=> Page(total, offset, limit).next < total
  <1>1. limit \in Nat /\ PageSize \in Nat
    BY QueryAssumption
  <1>2. Capped(limit, PageSize) \in Nat
    BY <1>1 DEF Capped
  <1>3. Fewer(total - offset, Capped(limit, PageSize)) \in 0..(total - offset)
    BY <1>2 DEF Fewer
  <1>4. Fewer(offset, total) = offset
    BY DEF Fewer
  <1>. DEFINE take == Fewer(total - offset, Capped(limit, PageSize))
  <1>5. Page(total, offset, limit) =
          [from |-> offset, next |-> offset + take, more |-> offset + take < total]
    BY <1>4 DEF Page
  <1>. HIDE DEF take
  <1>6. take \in 0..(total - offset)
    BY <1>3 DEF take
  <1>7. /\ Page(total, offset, limit).from = offset
        /\ Page(total, offset, limit).next = offset + take
        /\ Page(total, offset, limit).more = (offset + take < total)
    BY <1>5
  <1>8. offset + take \in offset..total
    BY <1>6
  <1>9. Page(total, offset, limit).more <=> Page(total, offset, limit).next < total
    BY <1>7
  <1>10. Page(total, offset, limit).more \in BOOLEAN
    <2>1. (offset + take < total) \in BOOLEAN
      OBVIOUS
    <2>. QED  BY <1>7, <2>1, Zenon
  <1>. QED  BY <1>7, <1>8, <1>9, <1>10

LEMMA Quotients ==
  ASSUME NEW a \in Nat, NEW b \in Nat, NEW d \in Nat \ {0}
  PROVE  /\ a \div d \in Nat
         /\ a <= b => a \div d <= b \div d
         /\ a + d <= b => a \div d < b \div d
         /\ (a * d) \div d = a
  OBVIOUS

\* A chart takes its points from ever later entries, and the newest is the last.
LEMMA ChartFacts ==
  ASSUME NEW total \in Nat \ {0}, NEW points \in 1..total
  PROVE  /\ \A p \in 0..(points - 1) : ChartIndex(total, points, p) \in p..(total - 1)
         /\ \A p, q \in 0..(points - 1) :
              p < q => ChartIndex(total, points, p) < ChartIndex(total, points, q)
         /\ ChartIndex(total, points, points - 1) = total - 1
  <1>1. CASE points = 1
    BY <1>1 DEF ChartIndex
  <1>2. CASE points # 1
    <2>. DEFINE d == points - 1
                t == total - 1
                x(p) == p * t
    <2>1. d \in Nat \ {0} /\ t \in Nat /\ d <= t
      BY <1>2
    <2>2. ASSUME NEW p \in 0..d
          PROVE  x(p) \in Nat /\ p * d \in Nat /\ p * d <= x(p) /\ x(p) <= x(d)
      BY <2>1
    <2>3. ASSUME NEW p \in 0..d, NEW q \in 0..d, p < q
          PROVE  x(p) + d <= x(q)
      <3>1. x(q) = x(p) + (q - p) * t
        BY <2>1
      <3>2. (q - p) * t >= t
        BY <2>1, <2>3
      <3>. QED  BY <2>1, <2>2, <3>1, <3>2
    <2>4. x(d) = t * d
      BY <2>1
    <2>5. \A p \in 0..d : ChartIndex(total, points, p) = x(p) \div d
      BY <1>2 DEF ChartIndex
    <2>. HIDE DEF x, d, t
    <2>6. ASSUME NEW p \in 0..d
          PROVE  x(p) \div d \in p..t
      <3>1. d \in 0..d
        BY <2>1
      <3>2. (p * d) \div d = p /\ x(d) \div d = t
        BY <2>1, <2>4, Quotients
      <3>3. x(p) \div d \in Nat /\ p <= x(p) \div d
        BY <2>1, <2>2, <3>2, Quotients
      <3>4. x(p) \div d <= t
        BY <2>1, <2>2, <3>1, <3>2, Quotients
      <3>. QED  BY <2>1, <3>3, <3>4
    <2>7. ASSUME NEW p \in 0..d, NEW q \in 0..d, p < q
          PROVE  x(p) \div d < x(q) \div d
      BY <2>1, <2>2, <2>3, <2>7, Quotients
    <2>8. x(d) \div d = t
      BY <2>1, <2>4, Quotients
    <2>. QED  BY <2>1, <2>5, <2>6, <2>7, <2>8 DEF d, t
  <1>. QED  BY <1>1, <1>2

-----------------------------------------------------------------------------
(* The operator *)

ReaderTypes ==
  [view : {"none", "pages", "chart"}, next : 0..Capacity, more : BOOLEAN,
   seen : Seq(0..LastSequence), shifted : BOOLEAN]

\* What a request can see, in order apart from the two oldest entries.
LEMMA RingEntries ==
  ASSUME HistoryInv
  PROVE  /\ ring \in Metadata /\ HeadFits(ring) /\ ring.count \in 0..Capacity
         /\ Indices(ring) = 0..(ring.count - 1)
         /\ \A i \in Indices(ring) :
              /\ EntryAt(ring, i) \in 0..LastSequence /\ EntryAt(ring, i) <= last
              /\ 1 <= i /\ pending => EntryAt(ring, i) < number
         /\ \A i, j \in Indices(ring) :
              2 <= i /\ i < j /\ EntryAt(ring, i) # 0 /\ EntryAt(ring, j) # 0
                => EntryAt(ring, i) < EntryAt(ring, j)
  <1>1. /\ ring \in Metadata /\ HeadFits(ring) /\ slots \in SlotTypes /\ Capacity \in Nat \ {0, 1}
        /\ ring.count \in 0..Capacity
    BY ForceFacts, FreshTypes, CapacityAssumption DEF HistoryInv, TypeOK, Metadata
  <1>2. OrderedIn(slots, ring, 2)
    <2>1. CASE ready
      BY <1>1, <2>1, ForceFacts, HeldIsAgreement, OrderedDeeper DEF HistoryInv, SlotsHeld
    <2>2. CASE ~ready
      BY <2>2, ForceFacts, FreshTypes DEF OrderedIn, Indices
    <2>. QED  BY <2>1, <2>2
  <1>3. \A i \in Indices(ring) :
          /\ EntryAt(ring, i) = slots[SlotOf(ring, i)] /\ SlotOf(ring, i) \in Slots
          /\ 1 <= i => SlotOf(ring, i) # ring.head
    BY <1>1, SlotFacts, EntriesAreSlots DEF Indices
  <1>4. ASSUME NEW i \in Indices(ring)
        PROVE  /\ EntryAt(ring, i) \in 0..LastSequence /\ EntryAt(ring, i) <= last
               /\ 1 <= i /\ pending => EntryAt(ring, i) < number
    BY <1>1, <1>3 DEF SlotTypes, HistoryInv, SlotsHeld
  <1>5. ASSUME NEW i \in Indices(ring), NEW j \in Indices(ring), 2 <= i, i < j,
               EntryAt(ring, i) # 0, EntryAt(ring, j) # 0
        PROVE  EntryAt(ring, i) < EntryAt(ring, j)
    <2>1. ring.count - i <= Capacity - 2
      BY <1>1, <1>5 DEF Indices
    <2>. QED  BY <1>2, <1>3, <1>5, <2>1 DEF OrderedIn
  <1>. QED  BY <1>1, <1>4, <1>5 DEF Indices

LEMMA EntriesKept ==
  ASSUME UNCHANGED <<ring, slots>>
  PROVE  \A i : EntryAt(ring, i)' = EntryAt(ring, i)
  BY DEF EntryAt, OldestSlot

\* A page goes on where the last one ended, in index and in the order of measurement.
LEMMA PageStep ==
  ASSUME HistoryInv, NEW offset \in 0..ring.count, NEW before \in Seq(0..LastSequence),
         Len(before) = offset, NEW shifted \in BOOLEAN,
         \A p \in 1..offset : 2 < p =>
           /\ before[p] <= last /\ (pending => before[p] < number)
           /\ \A i \in Indices(ring) :
                offset <= i /\ EntryAt(ring, i) # 0 => before[p] < EntryAt(ring, i),
         \A p, q \in 1..offset :
           2 < p /\ p < q /\ before[p] # 0 /\ before[q] # 0 => before[p] < before[q],
         ~shifted => \A p \in 1..offset :
           p = 1 \/ EntryAt(ring, p - 1) = 0 \/ before[p] = EntryAt(ring, p - 1),
         UNCHANGED <<pc, ready, ring, copies, slots, last, number, pending>>,
         ReadPage(offset, before, shifted)
  PROVE  /\ reader' \in ReaderTypes /\ Len(reader'.seen) <= Capacity
         /\ ReaderHeld' /\ ReadInOrder' /\ ReadFaithful'
  <1>1. PICK limit \in Requests :
          reader' = LET page == Page(ring.count, offset, limit)
                    IN  [view |-> "pages", next |-> NextOffset(page), more |-> page.more,
                         seen |-> before \o Entries(page.from, page.next), shifted |-> shifted]
    BY Zenon DEF ReadPage
  <1>. DEFINE page == Page(ring.count, offset, limit)
              n == page.next - page.from
              entries == Entries(page.from, page.next)
              seen == before \o entries
  <1>2. /\ ring.count \in 0..Capacity /\ ring.count \in Nat /\ Capacity \in Nat
        /\ Indices(ring) = 0..(ring.count - 1)
        /\ \A i \in Indices(ring) :
             /\ EntryAt(ring, i) \in 0..LastSequence /\ EntryAt(ring, i) <= last
             /\ 1 <= i /\ pending => EntryAt(ring, i) < number
        /\ last \in Nat /\ number \in Nat
    BY RingEntries, CapacityAssumption, LastSequenceAssumption DEF HistoryInv, TypeOK
  <1>3. page.from = offset /\ page.next \in offset..ring.count /\ page.more \in BOOLEAN
    BY <1>2, PageFacts
  <1>4. /\ reader'.view = "pages" /\ reader'.next = page.next /\ reader'.more = page.more
        /\ reader'.seen = seen /\ reader'.shifted = shifted
        /\ reader' = [view |-> "pages", next |-> page.next, more |-> page.more,
                      seen |-> seen, shifted |-> shifted]
    BY <1>1 DEF NextOffset
  <1>. HIDE DEF page
  <1>5. n \in Nat /\ n = page.next - offset
    BY <1>2, <1>3
  <1>6. entries \in Seq(0..LastSequence) /\ Len(entries) = n
        /\ \A p \in 1..n : entries[p] = EntryAt(ring, offset + p - 1)
    <2>1. entries = [i \in 1..n |-> EntryAt(ring, offset + i - 1)]
      BY <1>3 DEF Entries
    <2>2. \A i \in 1..n : offset + i - 1 \in Indices(ring)
      BY <1>2, <1>3, <1>5
    <2>3. \A i \in 1..n : entries[i] = EntryAt(ring, offset + i - 1) /\ entries[i] \in 0..LastSequence
      BY <1>2, <2>1, <2>2
    <2>4. entries \in [1..n -> 0..LastSequence]
      BY <1>2, <2>1, <2>2
    <2>. HIDE DEF entries, n
    <2>6. entries \in Seq(0..LastSequence) /\ Len(entries) = n
      BY <1>5, <2>4, Sequences
    <2>. QED  BY <2>3, <2>6
  <1>. HIDE DEF entries, n
  <1>7. /\ seen \in Seq(0..LastSequence) /\ Len(seen) = page.next
        /\ DOMAIN seen = 1..page.next
        /\ \A p \in 1..page.next : seen[p] = IF p <= offset THEN before[p] ELSE EntryAt(ring, p - 1)
    <2>1. /\ seen \in Seq(0..LastSequence) /\ Len(seen) = offset + n
          /\ \A p \in 1..(offset + n) : seen[p] = IF p <= offset THEN before[p] ELSE entries[p - offset]
      BY <1>6, Joined
    <2>2. offset + n = page.next
      BY <1>3, <1>5
    <2>3. ASSUME NEW p \in 1..page.next, ~(p <= offset)
          PROVE  entries[p - offset] = EntryAt(ring, p - 1)
      <3>1. p - offset \in 1..n /\ offset + (p - offset) - 1 = p - 1
        BY <1>3, <1>5, <2>3
      <3>. QED  BY <1>6, <3>1
    <2>. HIDE DEF seen
    <2>. QED  BY <2>1, <2>2, <2>3, LenProperties
  <1>. HIDE DEF seen
  <1>a. ASSUME NEW p \in 1..page.next, ~(p <= offset)
        PROVE  p - 1 \in Indices(ring) /\ seen[p] = EntryAt(ring, p - 1) /\ offset <= p - 1
    BY <1>2, <1>3, <1>7, <1>a
  <1>8. reader' \in ReaderTypes /\ Len(reader'.seen) <= Capacity
    BY <1>2, <1>3, <1>4, <1>7 DEF ReaderTypes
  <1>9. \A i : EntryAt(ring, i)' = EntryAt(ring, i)
    BY EntriesKept
  <1>10. \A i, j \in Indices(ring) :
              2 <= i /\ i < j /\ EntryAt(ring, i) # 0 /\ EntryAt(ring, j) # 0
                => EntryAt(ring, i) < EntryAt(ring, j)
    BY RingEntries
  <1>11. ReaderHeld'
    <2>1. ASSUME NEW p \in 1..page.next, 2 < p
          PROVE  /\ seen[p] <= last /\ (pending => seen[p] < number)
                 /\ \A i \in Indices(ring) :
                      page.next <= i /\ EntryAt(ring, i) # 0 => seen[p] < EntryAt(ring, i)
      <3>1. CASE p <= offset
        BY <1>2, <1>3, <1>7, <2>1, <3>1
      <3>2. CASE ~(p <= offset)
        <4>1. /\ p - 1 \in Indices(ring) /\ seen[p] = EntryAt(ring, p - 1) /\ 2 <= p - 1
              /\ seen[p] \in 0..LastSequence /\ seen[p] <= last /\ (pending => seen[p] < number)
          BY <1>2, <1>a, <2>1, <3>2
        <4>2. ASSUME NEW i \in Indices(ring), page.next <= i, EntryAt(ring, i) # 0
              PROVE  seen[p] < EntryAt(ring, i)
          <5>1. CASE seen[p] = 0
            BY <1>2, <4>2, <5>1
          <5>2. CASE seen[p] # 0
            BY <1>2, <1>3, <1>10, <4>1, <4>2, <5>2
          <5>. QED  BY <5>1, <5>2
        <4>. QED  BY <4>1, <4>2
      <3>. QED  BY <3>1, <3>2
    <2>2. Indices(ring)' = Indices(ring)
      BY DEF Indices
    <2>. QED  BY <1>2, <1>3, <1>4, <1>7, <1>9, <2>1, <2>2 DEF ReaderHeld
  <1>12. ReadInOrder'
    <2>1. ASSUME NEW p \in 1..page.next, NEW q \in 1..page.next, 2 < p, p < q, seen[p] # 0, seen[q] # 0
          PROVE  seen[p] < seen[q]
      <3>1. CASE q <= offset
        BY <1>7, <2>1, <3>1
      <3>2. CASE p <= offset /\ ~(q <= offset)
        <4>1. /\ q - 1 \in Indices(ring) /\ offset <= q - 1
              /\ seen[q] = EntryAt(ring, q - 1) /\ seen[p] = before[p] /\ p \in 1..offset
          BY <1>7, <1>a, <2>1, <3>2
        <4>. QED  BY <2>1, <4>1
      <3>3. CASE ~(p <= offset)
        <4>1. ~(q <= offset) /\ 2 <= p - 1 /\ p - 1 < q - 1
          BY <1>3, <2>1, <3>3
        <4>. QED  BY <1>10, <1>a, <2>1, <3>3, <4>1
      <3>. QED  BY <2>1, <3>1, <3>2, <3>3
    <2>. QED  BY <1>4, <1>7, <2>1 DEF ReadInOrder
  <1>13. ReadFaithful'
    <2>1. ASSUME ~shifted, NEW p \in 1..page.next
          PROVE  p - 1 = 0 \/ EntryAt(ring, p - 1) = 0 \/ seen[p] = EntryAt(ring, p - 1)
      BY <1>7, <2>1
    <2>2. ~shifted => \A p \in 1..page.next : Shows(p, p - 1)'
      BY <1>4, <1>9, <2>1 DEF Shows
    <2>. QED  BY <1>4, <1>7, <2>2 DEF ReadFaithful
  <1>. QED  BY <1>8, <1>11, <1>12, <1>13

LEMMA ChartStep ==
  ASSUME HistoryInv, DrawChart
  PROVE  /\ reader' \in ReaderTypes /\ Len(reader'.seen) <= Capacity
         /\ ReaderHeld' /\ ReadInOrder' /\ ReadFaithful'
  <1>1. PICK request \in Requests :
          reader' = LET points == Fewer(ring.count, Capped(request, ChartPoints))
                    IN  [NoReader EXCEPT !.view = "chart", !.next = ring.count,
                           !.seen = [p \in 1..points |->
                                       EntryAt(ring, ChartIndex(ring.count, points, p - 1))]]
    BY Zenon DEF DrawChart
  <1>. DEFINE points == Fewer(ring.count, Capped(request, ChartPoints))
              index(p) == ChartIndex(ring.count, points, p)
              seen == [p \in 1..points |-> EntryAt(ring, index(p - 1))]
  <1>2. /\ ring.count \in 0..Capacity /\ ring.count \in Nat /\ Capacity \in Nat
        /\ Indices(ring) = 0..(ring.count - 1)
        /\ \A i \in Indices(ring) : EntryAt(ring, i) \in 0..LastSequence
    BY RingEntries, CapacityAssumption
  <1>3. points \in 0..ring.count
    <2>1. request \in Nat /\ ChartPoints \in Nat
      BY QueryAssumption
    <2>2. Capped(request, ChartPoints) \in Nat
      BY <2>1 DEF Capped
    <2>. QED  BY <1>2, <2>2 DEF Fewer
  <1>4. reader' = [NoReader EXCEPT !.view = "chart", !.next = ring.count, !.seen = seen]
    BY <1>1
  <1>. HIDE DEF points
  <1>5. /\ \A p \in 0..(points - 1) : index(p) \in p..(ring.count - 1)
        /\ \A p, q \in 0..(points - 1) : p < q => index(p) < index(q)
        /\ points # 0 => index(points - 1) = ring.count - 1
    <2>1. CASE points = 0
      BY <2>1
    <2>2. CASE points # 0
      <3>1. ring.count \in Nat \ {0} /\ points \in 1..ring.count
        BY <1>2, <1>3, <2>2
      <3>. QED  BY <3>1, ChartFacts
    <2>. QED  BY <2>1, <2>2
  <1>. HIDE DEF index
  <1>6. \A p \in 1..points : /\ p - 1 \in 0..(points - 1) /\ index(p - 1) \in Indices(ring)
                             /\ p - 1 <= index(p - 1)
    BY <1>2, <1>3, <1>5
  <1>7. seen \in [1..points -> 0..LastSequence]
    BY <1>2, <1>6
  <1>8. /\ \A p \in 1..points : seen[p] = EntryAt(ring, index(p - 1))
        /\ DOMAIN seen = 1..points
    OBVIOUS
  <1>. HIDE DEF seen
  <1>9. seen \in Seq(0..LastSequence) /\ Len(seen) = points
    <2>1. points \in Nat
      BY <1>2, <1>3
    <2>. QED  BY <1>7, <2>1, Sequences
  <1>10. reader' = [view |-> "chart", next |-> ring.count, more |-> FALSE, seen |-> seen, shifted |-> FALSE]
    BY <1>4 DEF NoReader
  <1>11. reader' \in ReaderTypes /\ Len(reader'.seen) <= Capacity
    BY <1>2, <1>3, <1>9, <1>10 DEF ReaderTypes
  <1>12. UNCHANGED <<ring, slots>>
    BY DEF DrawChart
  <1>13. ReaderHeld'
    BY <1>2, <1>3, <1>9, <1>10, <1>12 DEF ReaderHeld
  <1>14. ReadInOrder'
    <2>1. ASSUME NEW p \in 1..points, NEW q \in 1..points, 2 < p, p < q, seen[p] # 0, seen[q] # 0
          PROVE  seen[p] < seen[q]
      <3>1. p - 1 < q - 1 /\ 2 <= p - 1 /\ points \in Nat
        BY <1>2, <1>3, <2>1
      <3>2. index(p - 1) < index(q - 1) /\ 2 <= index(p - 1)
        BY <1>2, <1>5, <1>6, <3>1
      <3>. QED  BY <1>6, <1>8, <2>1, <3>2, RingEntries
    <2>. QED  BY <1>8, <1>10, <2>1 DEF ReadInOrder
  <1>15. ReadFaithful'
    <2>1. points # 0 => seen[points] = EntryAt(ring, ring.count - 1)
      BY <1>2, <1>3, <1>5, <1>8
    <2>2. ASSUME NEW n, NEW i, n = points, n # 0, i = ring.count - 1
          PROVE  Shows(n, i)'
      BY <1>10, <1>12, <2>1, <2>2, EntriesKept DEF Shows
    <2>3. Len(reader'.seen) # 0 => Shows(Len(reader.seen), reader.next - 1)'
      BY <1>9, <1>10, <2>2 DEF Shows
    <2>. QED  BY <1>10, <2>3 DEF ReadFaithful
  <1>. QED  BY <1>11, <1>13, <1>14, <1>15

\* What has been read stays older than what is still to come while the entries
\* only move towards the old end, decay, or are followed by the pending one.
LEMMA ReaderWaits ==
  ASSUME HistoryInv,
         reader' \in ReaderTypes, reader'.view = reader.view, reader'.next = reader.next,
         reader'.seen = reader.seen,
         ~reader'.shifted => ~reader.shifted /\ \A i \in Indices(ring) :
           1 <= i => EntryAt(ring, i)' \in {EntryAt(ring, i), 0},
         ring' \in Metadata, ring.count <= ring'.count,
         last' \in Nat, number' \in Nat, last <= last',
         pending' => number' > last \/ (pending /\ number' = number),
         \A i \in Indices(ring)' : 1 <= i =>
           \/ EntryAt(ring, i)' = 0
           \/ pending /\ EntryAt(ring, i)' = number
           \/ \E k \in Indices(ring) : i <= k /\ EntryAt(ring, i)' = EntryAt(ring, k)
  PROVE  Len(reader'.seen) <= Capacity /\ ReaderHeld' /\ ReadInOrder' /\ ReadFaithful'
  <1>. USE DEF HistoryInv
  <1>1. /\ ring.count \in 0..Capacity /\ ring'.count \in 0..Capacity /\ Capacity \in Nat
        /\ last \in Nat /\ number \in Nat /\ reader \in ReaderTypes /\ Len(reader.seen) <= Capacity
        /\ Indices(ring) = 0..(ring.count - 1) /\ reader.next \in 0..ring.count
    BY RingEntries, CapacityAssumption, LastSequenceAssumption
       DEF TypeOK, Metadata, ReaderTypes, ReaderHeld
  <1>2. Indices(ring)' = 0..(ring'.count - 1)
    BY DEF Indices
  <1>3. reader.seen \in Seq(0..LastSequence)
    BY <1>1 DEF ReaderTypes
  <1>4. ReaderHeld'
    <2>1. CASE reader.view = "pages"
      <3>. DEFINE seen == reader.seen
      <3>1. /\ Len(seen) = reader.next /\ DOMAIN seen = 1..reader.next
            /\ \A p \in 1..reader.next : seen[p] \in 0..LastSequence
        BY <1>1, <1>3, <2>1, LenProperties, ElementOfSeq DEF ReaderHeld
      <3>2. ASSUME NEW p \in 1..reader.next, 2 < p
            PROVE  /\ seen[p] <= last' /\ (pending' => seen[p] < number')
                   /\ \A i \in Indices(ring)' :
                        reader.next <= i /\ EntryAt(ring, i)' # 0 => seen[p] < EntryAt(ring, i)'
        <4>1. /\ seen[p] \in Nat /\ seen[p] <= last /\ (pending => seen[p] < number)
              /\ \A i \in Indices(ring) :
                   reader.next <= i /\ EntryAt(ring, i) # 0 => seen[p] < EntryAt(ring, i)
          BY <2>1, <3>1, <3>2 DEF ReaderHeld
        <4>2. seen[p] <= last' /\ (pending' => seen[p] < number')
          BY <1>1, <4>1
        <4>3. ASSUME NEW i \in Indices(ring)', reader.next <= i, EntryAt(ring, i)' # 0
              PROVE  seen[p] < EntryAt(ring, i)'
          <5>1. 1 <= i /\ i \in Nat
            BY <1>1, <1>2, <3>2, <4>3
          <5>2. CASE pending /\ EntryAt(ring, i)' = number
            BY <4>1, <5>2
          <5>3. CASE \E k \in Indices(ring) : i <= k /\ EntryAt(ring, i)' = EntryAt(ring, k)
            <6>1. PICK k \in Indices(ring) : i <= k /\ EntryAt(ring, i)' = EntryAt(ring, k)
              BY <5>3
            <6>2. reader.next <= k
              BY <1>1, <4>3, <5>1, <6>1
            <6>. QED  BY <4>1, <4>3, <6>1, <6>2
          <5>. QED  BY <4>3, <5>1, <5>2, <5>3
        <4>. QED  BY <4>2, <4>3
      <3>. QED  BY <1>1, <2>1, <3>1, <3>2 DEF ReaderHeld
    <2>2. CASE reader.view # "pages"
      BY <1>1, <2>2 DEF ReaderHeld
    <2>. QED  BY <2>1, <2>2
  <1>5. ReadInOrder'
    BY DEF ReadInOrder
  <1>6. ReadFaithful'
    <2>1. CASE reader'.shifted
      BY <2>1 DEF ReadFaithful
    <2>2. CASE ~reader'.shifted
      <3>1. ASSUME NEW p, NEW i \in Indices(ring), Shows(p, i)
            PROVE  Shows(p, i)'
        BY <1>1, <2>2, <3>1 DEF Shows
      <3>2. ASSUME reader.view = "pages", NEW p \in 1..Len(reader.seen)
            PROVE  Shows(p, p - 1)'
        <4>1. Shows(p, p - 1) /\ Len(reader.seen) = reader.next
          BY <2>2, <3>2 DEF ReadFaithful
        <4>2. p - 1 \in Indices(ring)
          BY <1>1, <3>2, <4>1
        <4>. QED  BY <3>1, <4>1, <4>2
      <3>3. ASSUME reader.view = "chart", Len(reader.seen) # 0
            PROVE  Shows(Len(reader.seen), reader.next - 1)'
        <4>1. Shows(Len(reader.seen), reader.next - 1)
          BY <2>2, <3>3 DEF ReadFaithful
        <4>2. CASE reader.next = 0
          BY <1>1, <1>3, <3>3, <4>2, LenProperties DEF ReaderHeld
        <4>3. CASE reader.next # 0
          <5>1. reader.next - 1 \in Indices(ring)
            BY <1>1, <4>3
          <5>. QED  BY <3>1, <4>1, <5>1
        <4>. QED  BY <4>2, <4>3
      <3>. QED  BY <2>2, <3>2, <3>3 DEF ReadFaithful
    <2>. QED  BY <2>1, <2>2
  <1>. QED  BY <1>1, <1>4, <1>5, <1>6

\* The entries that an append moves on, or leaves where they are.
LEMMA WrittenReader ==
  ASSUME HistoryInv, WriteMetadata
  PROVE  reader' \in ReaderTypes /\ Len(reader'.seen) <= Capacity
         /\ ReaderHeld' /\ ReadInOrder' /\ ReadFaithful'
  <1>1. PICK ok \in Writes :
          /\ copies' = IF ok THEN [copies EXCEPT ![CopyOf(Advanced(ring))] = Advanced(ring)] ELSE copies
          /\ ring' = RingAfter(ok) /\ pending' = ~ok
    BY Zenon DEF WriteMetadata
  <1>2. /\ UNCHANGED <<slots, last, number>> /\ pc = "commit" /\ ok \in BOOLEAN
        /\ reader' = [reader EXCEPT !.shifted = @ \/ (ring' # ring /\ ring.count = Capacity)]
    BY DEF WriteMetadata, Writes
  <1>3. /\ ring \in Metadata /\ HeadFits(ring) /\ last \in Nat /\ number \in Nat /\ number <= last
        /\ slots[ring.head] \in {number, 0} /\ pending /\ reader \in ReaderTypes
        /\ ring.count \in 0..Capacity /\ Capacity \in Nat /\ Indices(ring) = 0..(ring.count - 1)
    BY <1>2, RingEntries, LastSequenceAssumption, CapacityAssumption
       DEF HistoryInv, TypeOK, SlotsHeld, ReaderTypes
  <1>4. (ring' # ring /\ ring.count = Capacity) \in BOOLEAN /\ reader.shifted \in BOOLEAN
    BY <1>3 DEF ReaderTypes
  <1>5. (reader.shifted \/ (ring' # ring /\ ring.count = Capacity)) \in BOOLEAN
    BY <1>4, Zenon
  <1>6. /\ reader' \in ReaderTypes /\ reader'.view = reader.view /\ reader'.next = reader.next
        /\ reader'.seen = reader.seen
        /\ reader'.shifted = (reader.shifted \/ (ring' # ring /\ ring.count = Capacity))
    BY <1>2, <1>3, <1>5 DEF ReaderTypes
  <1>7. CASE ~ok
    <2>1. ring' = ring
      BY <1>1, <1>7 DEF RingAfter
    <2>2. \A i : EntryAt(ring, i)' = EntryAt(ring, i)
      BY <1>2, <2>1, EntriesKept
    <2>3. Indices(ring)' = Indices(ring)
      BY <2>1 DEF Indices
    <2>4. \A i \in Indices(ring) : i <= i
      BY <1>3
    <2>5. ~reader'.shifted => ~reader.shifted
      BY <1>6
    <2>6. ring.count <= ring'.count /\ last <= last'
      BY <1>2, <1>3, <2>1
    <2>7. \A i \in Indices(ring)' :
            \E k \in Indices(ring) : i <= k /\ EntryAt(ring, i)' = EntryAt(ring, k)
      BY <2>2, <2>3, <2>4
    <2>8. \A i \in Indices(ring) : EntryAt(ring, i)' \in {EntryAt(ring, i), 0}
      BY <2>2
    <2>9. pending' => pending /\ number' = number
      BY <1>2, <1>3
    <2>. QED  BY <1>2, <1>3, <1>6, <2>1, <2>5, <2>6, <2>7, <2>8, <2>9, ReaderWaits
  <1>8. CASE ok
    <2>. DEFINE a == Advanced(ring)
    <2>1. ring' = a /\ ~pending'
      BY <1>1, <1>8 DEF RingAfter
    <2>2. /\ a \in Metadata /\ HeadFits(a) /\ a # ring
          /\ a.count = IF ring.count < Capacity THEN ring.count + 1 ELSE ring.count
      BY <1>3, AdvancedFacts
    <2>3. Indices(ring)' = Indices(a) /\ Indices(a) = 0..(a.count - 1)
      BY <2>1 DEF Indices
    <2>4. \A i : EntryAt(ring, i)' = slots[SlotOf(a, i)] /\ EntryAt(ring, i) = slots[SlotOf(ring, i)]
      BY <1>2, <2>1 DEF EntryAt, SlotOf, OldestSlot
    <2>5. ASSUME NEW i \in Indices(a)
          PROVE  \/ EntryAt(ring, i)' = 0
                 \/ pending /\ EntryAt(ring, i)' = number
                 \/ \E k \in Indices(ring) : i <= k /\ EntryAt(ring, i)' = EntryAt(ring, k)
      <3>1. CASE i = a.count - 1
        BY <1>3, <2>4, <3>1, AdvancedSlots
      <3>2. CASE i # a.count - 1
        <4>. DEFINE k == IF ring.count = Capacity THEN i + 1 ELSE i
        <4>1. k \in Indices(ring) /\ SlotOf(a, i) = SlotOf(ring, k)
          BY <1>3, <3>2, AdvancedSlots
        <4>2. i <= k
          BY <2>2, <2>3, <1>3
        <4>. HIDE DEF k
        <4>. QED  BY <2>4, <4>1, <4>2
      <3>. QED  BY <3>1, <3>2
    <2>6. ~reader'.shifted => ~reader.shifted /\ \A i \in Indices(ring) :
            EntryAt(ring, i)' = EntryAt(ring, i)
      <3>. SUFFICES ASSUME ~reader'.shifted
                    PROVE  ~reader.shifted /\ \A i \in Indices(ring) : EntryAt(ring, i)' = EntryAt(ring, i)
        OBVIOUS
      <3>1. ~reader.shifted /\ ring.count # Capacity
        BY <1>6, <2>1, <2>2
      <3>2. \A i \in Indices(ring) : i \in Indices(a) /\ i # a.count - 1
        BY <1>3, <2>2, <2>3, <3>1
      <3>3. \A i \in Indices(ring) : SlotOf(a, i) = SlotOf(ring, i)
        BY <1>3, <3>1, <3>2, AdvancedSlots
      <3>. QED  BY <2>4, <3>1, <3>3
    <2>7. ring.count <= ring'.count
      BY <1>3, <2>1, <2>2
    <2>. HIDE DEF a
    <2>. QED  BY <1>2, <1>3, <1>6, <2>1, <2>2, <2>3, <2>5, <2>6, <2>7, ReaderWaits
  <1>. QED  BY <1>2, <1>7, <1>8

\* Nothing the node or a request does disturbs what an operator has read.
LEMMA ReaderStep ==
  ASSUME HistoryInv, [Next]_vars
  PROVE  reader' \in ReaderTypes /\ Len(reader'.seen) <= Capacity
         /\ ReaderHeld' /\ ReadInOrder' /\ ReadFaithful'
  <1>1. /\ ring \in Metadata /\ HeadFits(ring) /\ last \in Nat /\ number \in Nat /\ number <= last
        /\ reader \in ReaderTypes /\ slots \in SlotTypes /\ ring.count \in 0..Capacity
        /\ Capacity \in Nat /\ Indices(ring) = 0..(ring.count - 1)
    BY RingEntries, ForceFacts, LastSequenceAssumption, CapacityAssumption
       DEF HistoryInv, TypeOK, ReaderTypes
  <1>2. ASSUME reader' = NoReader, ring'.count \in Nat
        PROVE  reader' \in ReaderTypes /\ Len(reader'.seen) <= Capacity
               /\ ReaderHeld' /\ ReadInOrder' /\ ReadFaithful'
    <2>1. <<>> \in Seq(0..LastSequence) /\ Len(<<>>) = 0 /\ DOMAIN <<>> = {}
      OBVIOUS
    <2>2. /\ reader'.view = "none" /\ reader'.next = 0 /\ reader'.seen = <<>>
          /\ reader' = [view |-> "none", next |-> 0, more |-> FALSE, seen |-> <<>>, shifted |-> FALSE]
      BY <1>2 DEF NoReader
    <2>. QED  BY <1>1, <1>2, <2>1, <2>2 DEF ReaderTypes, ReaderHeld, ReadInOrder, ReadFaithful
  \* The ring stays, and at most its oldest entry is written over or one decays.
  <1>3. ASSUME UNCHANGED <<ring, reader>>, last' \in Nat, number' \in Nat, last <= last',
               pending' => number' > last \/ (pending /\ number' = number),
               \A s \in Slots \ {ring.head} : slots'[s] \in {slots[s], 0}
        PROVE  reader' \in ReaderTypes /\ Len(reader'.seen) <= Capacity
               /\ ReaderHeld' /\ ReadInOrder' /\ ReadFaithful'
    <2>1. \A i \in Indices(ring) : 1 <= i => EntryAt(ring, i)' \in {EntryAt(ring, i), 0}
      <3>1. ASSUME NEW i \in Indices(ring), 1 <= i
            PROVE  EntryAt(ring, i)' \in {EntryAt(ring, i), 0}
        <4>1. SlotOf(ring, i) \in Slots /\ SlotOf(ring, i) # ring.head
          BY <1>1, <3>1, SlotFacts
        <4>2. EntryAt(ring, i) = slots[SlotOf(ring, i)] /\ EntryAt(ring, i)' = slots'[SlotOf(ring, i)]
          BY <1>3 DEF EntryAt, SlotOf, OldestSlot
        <4>. QED  BY <1>3, <4>1, <4>2
      <3>. QED  BY <3>1
    <2>2. Indices(ring)' = Indices(ring) /\ \A i \in Indices(ring) : i <= i
      BY <1>1, <1>3 DEF Indices
    <2>. QED  BY <1>1, <1>3, <2>1, <2>2, ReaderWaits
  <1>4. CASE Begin \/ BeginFails
    <2>1. reader' = NoReader
      BY <1>4 DEF HistoryInv, Begin, BeginFails
    <2>2. ring' \in Metadata
      BY <1>4, BeginForce, BeginFailsForce, <1>1
    <2>. QED  BY <1>2, <2>1, <2>2 DEF Metadata
  <1>5. CASE Measure \/ RadioTest
    <2>1. UNCHANGED <<ring, reader, slots>>
      BY <1>5 DEF Measure, RadioTest
    <2>2. /\ last' \in Nat /\ number' \in Nat /\ last <= last'
          /\ pending' => number' > last \/ (pending /\ number' = number)
      BY <1>1, <1>5 DEF Measure, RadioTest
    <2>. QED  BY <1>3, <2>1, <2>2
  <1>6. CASE WriteSlot
    <2>1. /\ UNCHANGED <<ring, reader, last, number, pending>>
          /\ slots' = [slots EXCEPT ![ring.head] = number] \/ slots' = slots
      BY <1>6 DEF WriteSlot
    <2>2. \A s \in Slots \ {ring.head} : slots'[s] = slots[s]
      BY <1>1, <2>1 DEF SlotTypes
    <2>. QED  BY <1>1, <1>3, <2>1, <2>2
  <1>7. CASE OpenPages
    <2>1. /\ UNCHANGED <<pc, ready, ring, copies, slots, last, number, pending>>
          /\ ReadPage(0, <<>>, FALSE)
      BY <1>7 DEF OpenPages
    <2>2. <<>> \in Seq(0..LastSequence) /\ Len(<<>>) = 0 /\ 0 \in 0..ring.count
      BY <1>1
    <2>3. 1..0 = {}
      OBVIOUS
    <2>. QED  BY <2>1, <2>2, <2>3, PageStep
  <1>8. CASE NextPage
    <2>1. /\ UNCHANGED <<pc, ready, ring, copies, slots, last, number, pending>>
          /\ ReadPage(reader.next, reader.seen, reader.shifted) /\ reader.view = "pages"
      BY <1>8 DEF NextPage
    <2>2. /\ reader.seen \in Seq(0..LastSequence) /\ Len(reader.seen) = reader.next
          /\ reader.next \in 0..ring.count /\ reader.shifted \in BOOLEAN
          /\ DOMAIN reader.seen = 1..reader.next
      BY <1>1, <2>1, LenProperties DEF ReaderTypes, HistoryInv, ReaderHeld
    <2>3. \A p \in 1..reader.next : 2 < p =>
            /\ reader.seen[p] <= last /\ (pending => reader.seen[p] < number)
            /\ \A i \in Indices(ring) :
                 reader.next <= i /\ EntryAt(ring, i) # 0 => reader.seen[p] < EntryAt(ring, i)
      BY <2>1, <2>2 DEF HistoryInv, ReaderHeld
    <2>4. \A p, q \in 1..reader.next :
            2 < p /\ p < q /\ reader.seen[p] # 0 /\ reader.seen[q] # 0 => reader.seen[p] < reader.seen[q]
      BY <2>2 DEF HistoryInv, ReadInOrder
    <2>5. ~reader.shifted => \A p \in 1..reader.next :
            p = 1 \/ EntryAt(ring, p - 1) = 0 \/ reader.seen[p] = EntryAt(ring, p - 1)
      <3>1. \A p \in 1..reader.next : p - 1 = 0 => p = 1
        OBVIOUS
      <3>. QED  BY <2>1, <2>2, <3>1 DEF HistoryInv, ReadFaithful, Shows
    <2>. QED  BY <2>1, <2>2, <2>3, <2>4, <2>5, PageStep
  <1>9. CASE Restart
    <2>1. reader' = NoReader /\ ring' = FreshMetadata
      BY <1>9 DEF Restart
    <2>. QED  BY <1>2, <2>1, FreshTypes
  <1>10. CASE Decay
    <2>1. UNCHANGED <<ring, reader, last, number, pending>>
      BY <1>10 DEF Decay
    <2>2. slots' = slots \/ \E s \in Slots : slots' = [slots EXCEPT ![s] = 0]
      BY <1>10 DEF Decay
    <2>3. \A s \in Slots : slots'[s] \in {slots[s], 0}
      BY <1>1, <2>2 DEF SlotTypes
    <2>. QED  BY <1>1, <1>3, <2>1, <2>3
  <1>11. CASE UNCHANGED vars
    <2>1. UNCHANGED <<ring, reader, last, number, pending, slots>>
      BY <1>11 DEF vars
    <2>. QED  BY <1>1, <1>3, <2>1
  <1>. QED
    BY <1>4, <1>5, <1>6, <1>7, <1>8, <1>9, <1>10, <1>11, WrittenReader, ChartStep DEF Next

-----------------------------------------------------------------------------
(* The invariant *)

LEMMA TypeStep ==
  ASSUME HistoryInv, [Next]_vars
  PROVE  TypeOK'
  <1>1. /\ pc \in {"boot", "idle", "commit"} /\ ready \in BOOLEAN /\ ring \in Metadata
        /\ copies \in CopyTypes /\ slots \in SlotTypes /\ last \in 0..LastSequence /\ number \in 0..last
        /\ pending \in BOOLEAN /\ (pc = "commit" => ready /\ pending) /\ (pending => number # 0)
        /\ LastSequence \in Nat
    BY LastSequenceAssumption DEF HistoryInv, TypeOK, CopyTypes, SlotTypes
  <1>2. reader' \in ReaderTypes /\ Len(reader'.seen) <= Capacity
    BY ReaderStep
  <1>3. ASSUME pc' \in {"boot", "idle", "commit"}, ready' \in BOOLEAN, ring' \in Metadata, copies' \in CopyTypes,
               slots' \in SlotTypes, last' \in 0..LastSequence, number' \in 0..last', pending' \in BOOLEAN,
               pc' = "commit" => ready' /\ pending', pending' => number' # 0
        PROVE  TypeOK'
    BY <1>2, <1>3 DEF TypeOK, ReaderTypes, CopyTypes, SlotTypes
  <1>4. CASE Begin
    BY <1>1, <1>3, <1>4, BeginForce DEF Begin
  <1>5. CASE BeginFails
    BY <1>1, <1>3, <1>5 DEF BeginFails
  <1>6. CASE Measure \/ RadioTest
    <2>1. UNCHANGED <<pc, ready, ring, copies, slots>> /\ pc = "idle"
      BY <1>6 DEF Measure, RadioTest
    <2>2. /\ last' \in 0..LastSequence /\ number' \in 0..last' /\ pending' \in BOOLEAN
          /\ pending' => number' # 0
      <3>1. CASE last < LastSequence /\ last' = last + 1 /\ number' = last' /\ pending' \in {pending, TRUE}
        <4>1. last' \in 0..LastSequence /\ number' \in 0..last' /\ number' # 0
          BY <1>1, <3>1
        <4>2. pending' \in BOOLEAN
          BY <1>1, <3>1, Zenon
        <4>. QED  BY <4>1, <4>2
      <3>2. CASE number' = 0 /\ pending' = FALSE /\ last' = last
        <4>1. last' \in 0..LastSequence /\ number' \in 0..last'
          BY <1>1, <3>2
        <4>2. pending' \in BOOLEAN /\ ~pending'
          BY <3>2
        <4>. QED  BY <4>1, <4>2
      <3>. QED  BY <1>6, <3>1, <3>2 DEF Measure, RadioTest
    <2>. QED  BY <1>1, <1>3, <2>1, <2>2
  <1>7. CASE WriteSlot
    <2>1. /\ UNCHANGED <<ready, ring, copies, last, number, pending>> /\ pending /\ ready
          /\ pc' \in {"idle", "commit"}
          /\ slots' = [slots EXCEPT ![ring.head] = number] \/ slots' = slots
      BY <1>7 DEF WriteSlot
    <2>2. slots' \in SlotTypes
      BY <1>1, <2>1 DEF SlotTypes
    <2>. QED  BY <1>1, <1>3, <2>1, <2>2
  <1>8. CASE WriteMetadata
    <2>1. PICK ok \in Writes :
            /\ copies' = IF ok THEN [copies EXCEPT ![CopyOf(Advanced(ring))] = Advanced(ring)] ELSE copies
            /\ ring' = RingAfter(ok) /\ pending' = ~ok
      BY <1>8, Zenon DEF WriteMetadata
    <2>2. /\ UNCHANGED <<ready, slots, last, number>> /\ pc = "commit" /\ pc' = "idle"
          /\ ok \in BOOLEAN
      BY <1>8 DEF WriteMetadata, Writes
    <2>3. Advanced(ring) \in Metadata /\ CopyOf(Advanced(ring)) \in {0, 1}
      BY <1>1, AdvancedFacts
    <2>4. copies' \in CopyTypes /\ ring' \in Metadata
      BY <1>1, <2>1, <2>2, <2>3 DEF CopyTypes, RingAfter
    <2>5. pending' \in BOOLEAN
      BY <2>1, <2>2, Zenon
    <2>. QED  BY <1>1, <1>3, <2>2, <2>4, <2>5
  <1>9. CASE OpenPages \/ NextPage \/ DrawChart \/ UNCHANGED vars
    <2>1. UNCHANGED <<pc, ready, ring, copies, slots, last, number, pending>>
      BY <1>9, Zenon DEF OpenPages, NextPage, DrawChart, vars
    <2>. QED  BY <1>1, <1>3, <2>1
  <1>10. CASE Restart
    <2>1. /\ UNCHANGED <<copies, slots, last>> /\ pc' = "boot" /\ ready' = FALSE
          /\ ring' = FreshMetadata /\ number' = 0 /\ pending' = FALSE
      BY <1>10 DEF Restart
    <2>2. 0 \in 0..last'
      BY <1>1, <2>1
    <2>. QED  BY <1>1, <1>3, <2>1, <2>2, FreshTypes
  <1>11. CASE Decay
    <2>1. UNCHANGED <<pc, ready, ring, last, number, pending>>
      BY <1>11 DEF Decay
    <2>2. copies' \in CopyTypes /\ slots' \in SlotTypes
      <3>1. CASE \E c \in {0, 1} : copies' = [copies EXCEPT ![c] = NoMetadata] /\ UNCHANGED slots
        BY <1>1, <3>1 DEF CopyTypes
      <3>2. CASE \E s \in Slots : slots' = [slots EXCEPT ![s] = 0] /\ UNCHANGED copies
        BY <1>1, <3>2 DEF SlotTypes
      <3>. QED  BY <1>11, <3>1, <3>2 DEF Decay
    <2>. QED  BY <1>1, <1>3, <2>1, <2>2
  <1>. QED  BY <1>4, <1>5, <1>6, <1>7, <1>8, <1>9, <1>10, <1>11 DEF Next

LEMMA BootStep ==
  ASSUME HistoryInv, [Next]_vars
  PROVE  (pc = "boot" => ~ready /\ ~pending /\ reader = NoReader)'
  <1>1. CASE UNCHANGED vars
    BY <1>1 DEF vars, HistoryInv
  <1>2. CASE Begin \/ BeginFails \/ Measure \/ RadioTest \/ OpenPages \/ NextPage \/ DrawChart
    BY <1>2, Zenon DEF Begin, BeginFails, Measure, RadioTest, OpenPages, NextPage, DrawChart
  <1>3. CASE WriteSlot \/ WriteMetadata
    BY <1>3 DEF WriteSlot, WriteMetadata
  <1>4. CASE Restart
    BY <1>4 DEF Restart
  <1>5. CASE Decay
    BY <1>5 DEF Decay, HistoryInv
  <1>. QED  BY <1>1, <1>2, <1>3, <1>4, <1>5 DEF Next

LEMMA HistoryInitInv == Init => HistoryInv
  <1>. SUFFICES ASSUME Init PROVE HistoryInv
    OBVIOUS
  <1>1. /\ reader.view = "none" /\ reader.next = 0 /\ reader.seen = <<>> /\ ~reader.shifted
        /\ reader \in ReaderTypes /\ Len(reader.seen) = 0 /\ DOMAIN reader.seen = {}
    <2>1. <<>> \in Seq(0..LastSequence) /\ Len(<<>>) = 0 /\ DOMAIN <<>> = {}
      OBVIOUS
    <2>. QED  BY <2>1, CapacityAssumption DEF Init, NoReader, ReaderTypes
  <1>2. TypeOK
    <2>1. copies \in [{0, 1} -> Metadata \union {NoMetadata}] /\ slots \in [Slots -> 0..LastSequence]
      BY LastSequenceAssumption DEF Init
    <2>2. 0 \in 0..LastSequence /\ 0 \in 0..0 /\ Len(reader.seen) <= Capacity
      BY <1>1, CapacityAssumption, LastSequenceAssumption
    <2>. QED  BY <1>1, <2>1, <2>2, FreshTypes DEF Init, TypeOK, ReaderTypes
  <1>3. InForce = FreshMetadata /\ ring = FreshMetadata
    BY DEF Init, InForce, Found, Intact
  <1>4. CopiesHeld
    BY <1>3, FreshTypes DEF CopiesHeld, Init, Intact, Own, Other
  <1>5. SlotsHeld
    BY <1>3, FreshTypes, LastSequenceAssumption DEF SlotsHeld, Init, Ordered, Indices
  <1>6. ReaderHeld /\ ReadInOrder /\ ReadFaithful
    BY <1>1, <1>3, FreshTypes DEF ReaderHeld, ReadInOrder, ReadFaithful
  <1>. QED  BY <1>2, <1>4, <1>5, <1>6 DEF HistoryInv, Init

LEMMA HistoryInvariant == Spec => []HistoryInv
  <1>1. HistoryInv /\ [Next]_vars => HistoryInv'
    <2>. SUFFICES ASSUME HistoryInv, [Next]_vars PROVE HistoryInv'
      OBVIOUS
    <2>1. ReaderHeld' /\ ReadInOrder' /\ ReadFaithful'
      BY ReaderStep
    <2>. QED  BY <2>1, SlotsStep, TypeStep, BootStep DEF HistoryInv
  <1>. QED  BY <1>1, HistoryInitInv, PTL DEF Spec

\* The ring, its copies and slots, and what a request holds have their types
\* (lib/history/nvs_history.hpp).
THEOREM TypeCorrect == Spec => []TypeOK
  <1>1. HistoryInv => TypeOK
    BY DEF HistoryInv
  <1>. QED  BY <1>1, HistoryInvariant, PTL

\* The portal shows the measurements in order, apart from the one or two oldest
\* slots, after any sequence of failed and interrupted appends, restarts and
\* decays of either metadata copy, and at every value of the wrapping generation
\* counter (nvs_history.cpp).
THEOREM ShownInOrder == Spec => []Chronological
  <1>1. HistoryInv => Chronological
    <2>. SUFFICES ASSUME HistoryInv, ready, NEW i \in Indices(ring), NEW j \in Indices(ring),
                         Overwritten <= i, i < j, EntryAt(ring, i) # 0, EntryAt(ring, j) # 0
                  PROVE  EntryAt(ring, i) < EntryAt(ring, j)
      BY DEF Chronological
    <2>1. /\ InForce = ring /\ Own(InForce) \in {0, 1} /\ Other(InForce) = 1 - Own(InForce)
          /\ Ordered(ring, Depth)
      BY ForceFacts DEF HistoryInv, SlotsHeld
    <2>2. Depth <= Overwritten /\ Depth \in {1, 2} /\ Overwritten \in {1, 2}
      BY <2>1 DEF Depth, Overwritten
    <2>3. ring.count \in 0..Capacity /\ Capacity \in Nat /\ i \in 0..(ring.count - 1)
      BY RingEntries, CapacityAssumption
    <2>4. ring.count - i <= Capacity - Depth
      BY <2>2, <2>3
    <2>. QED  BY <2>1, <2>4 DEF Ordered
  <1>. QED  BY <1>1, HistoryInvariant, PTL

\* An operator who leafs through the history while the node appends to it sees no
\* entry twice and none out of order, the two oldest apart
\* (history_query.hpp, maintenance_portal.cpp).
THEOREM LeafedInOrder == Spec => []ReadInOrder
  <1>1. HistoryInv => ReadInOrder
    BY DEF HistoryInv
  <1>. QED  BY <1>1, HistoryInvariant, PTL

\* The pages read are the entries from the oldest on without a gap, and a chart of any
\* number of points ends with the newest (history_query.hpp).
THEOREM ReadComplete == Spec => []ReadFaithful
  <1>1. HistoryInv => ReadFaithful
    BY DEF HistoryInv
  <1>. QED  BY <1>1, HistoryInvariant, PTL

-----------------------------------------------------------------------------
(* The abstract log *)

\* The log of given metadata and slots.
LogIn(sl, m) == [i \in 1..m.count |-> sl[SlotOf(m, i - 1)]]

Entry == 0..LastSequence

\* The state function that implements the log, now and after a step.
LEMMA LogMapped ==
  /\ [i \in 1..InForce.count |-> EntryAt(InForce, i - 1)] = LogIn(slots, InForce)
  /\ [i \in 1..InForce.count |-> EntryAt(InForce, i - 1)]' = LogIn(slots', InForce')
  BY DEF LogIn, EntryAt, SlotOf, OldestSlot

LEMMA LogFacts ==
  ASSUME NEW m \in Metadata, HeadFits(m), NEW sl \in SlotTypes
  PROVE  /\ LogIn(sl, m) \in Seq(Entry) /\ Len(LogIn(sl, m)) = m.count
         /\ DOMAIN LogIn(sl, m) = 1..m.count
         /\ \A i \in 1..m.count : /\ i - 1 \in Indices(m) /\ SlotOf(m, i - 1) \in Slots
                                  /\ LogIn(sl, m)[i] = sl[SlotOf(m, i - 1)]
  <1>1. m.count \in Nat
    BY CapacityAssumption DEF Metadata
  <1>2. \A i \in 1..m.count : i - 1 \in Indices(m) /\ SlotOf(m, i - 1) \in Slots
    <2>1. \A i \in 1..m.count : i - 1 \in Indices(m)
      BY <1>1 DEF Indices
    <2>. QED  BY <2>1, SlotFacts
  <1>3. LogIn(sl, m) \in [1..m.count -> Entry]
    BY <1>2 DEF LogIn, SlotTypes, Entry
  <1>. QED  BY <1>1, <1>2, <1>3, Sequences DEF LogIn

\* An append: the new entry behind all others, the oldest of a full log gone.
LEMMA LogAppended ==
  ASSUME NEW m \in Metadata, HeadFits(m), NEW sl \in SlotTypes
  PROVE  LogIn(sl, Advanced(m)) =
           Append(IF m.count = Capacity THEN Tail(LogIn(sl, m)) ELSE LogIn(sl, m), sl[m.head])
  <1>. DEFINE a == Advanced(m)
              old == LogIn(sl, m)
              rest == IF m.count = Capacity THEN Tail(old) ELSE old
              new == Append(rest, sl[m.head])
  <1>1. /\ a \in Metadata /\ HeadFits(a)
        /\ a.count = IF m.count < Capacity THEN m.count + 1 ELSE m.count
        /\ m.count \in 0..Capacity /\ Capacity \in Nat \ {0, 1} /\ m.head \in Slots
        /\ sl[m.head] \in Entry
    BY AdvancedFacts, CapacityAssumption DEF Metadata, SlotTypes, Entry
  <1>2. /\ old \in Seq(Entry) /\ Len(old) = m.count
        /\ \A i \in 1..m.count : old[i] = sl[SlotOf(m, i - 1)]
    BY LogFacts
  <1>3. /\ LogIn(sl, a) \in Seq(Entry) /\ Len(LogIn(sl, a)) = a.count
        /\ \A i \in 1..a.count : i - 1 \in Indices(a) /\ LogIn(sl, a)[i] = sl[SlotOf(a, i - 1)]
    BY <1>1, LogFacts
  <1>. HIDE DEF old
  <1>4. /\ rest \in Seq(Entry) /\ Len(rest) = a.count - 1
        /\ \A i \in 1..(a.count - 1) : rest[i] = old[IF m.count = Capacity THEN i + 1 ELSE i]
    <2>1. CASE m.count = Capacity
      <3>1. old # <<>>
        BY <1>1, <1>2, <2>1
      <3>. QED  BY <1>1, <1>2, <2>1, <3>1, HeadTailProperties
    <2>2. CASE m.count # Capacity
      BY <1>1, <1>2, <2>2
    <2>. QED  BY <2>1, <2>2
  <1>. HIDE DEF rest
  <1>5. /\ new \in Seq(Entry) /\ Len(new) = a.count
        /\ \A i \in 1..(a.count - 1) : new[i] = rest[i]
        /\ new[a.count] = sl[m.head]
    <2>1. a.count - 1 + 1 = a.count
      BY <1>1
    <2>. QED  BY <1>1, <1>4, <2>1, AppendProperties
  <1>6. ASSUME NEW i \in 1..a.count
        PROVE  LogIn(sl, a)[i] = new[i]
    <2>1. CASE i = a.count
      BY <1>3, <1>5, <2>1, AdvancedSlots
    <2>2. CASE i # a.count
      <3>. DEFINE k == IF m.count = Capacity THEN i + 1 ELSE i
      <3>1. i \in 1..(a.count - 1) /\ k \in 1..m.count
        BY <1>1, <2>2
      <3>2. new[i] = sl[SlotOf(m, k - 1)]
        BY <1>2, <1>4, <1>5, <3>1
      <3>3. SlotOf(a, i - 1) = SlotOf(m, k - 1)
        <4>1. i - 1 \in Indices(a) /\ i - 1 # a.count - 1
          BY <1>1, <1>3, <2>2
        <4>2. k - 1 = IF m.count = Capacity THEN i - 1 + 1 ELSE i - 1
          BY <1>1
        <4>. QED  BY <4>1, <4>2, AdvancedSlots
      <3>. QED  BY <1>3, <3>2, <3>3
    <2>. QED  BY <2>1, <2>2
  <1>. HIDE DEF new
  <1>7. LogIn(sl, a) = new
    BY <1>3, <1>5, <1>6, SeqEqual
  <1>. QED  BY <1>7 DEF new, rest, old

\* A record at the head spoils the oldest entry of a full log, and is not visible in another.
LEMMA LogSpoiled ==
  ASSUME NEW m \in Metadata, HeadFits(m), NEW sl \in SlotTypes, NEW n \in Entry
  PROVE  LogIn([sl EXCEPT ![m.head] = n], m) =
           IF m.count = Capacity THEN [LogIn(sl, m) EXCEPT ![1] = n] ELSE LogIn(sl, m)
  <1>. DEFINE w == [sl EXCEPT ![m.head] = n]
              old == LogIn(sl, m)
  <1>1. /\ w \in SlotTypes /\ m.head \in Slots /\ m.count \in 0..Capacity /\ Capacity \in Nat \ {0, 1}
        /\ w[m.head] = n /\ \A s \in Slots \ {m.head} : w[s] = sl[s]
    BY CapacityAssumption DEF SlotTypes, Entry, Metadata
  <1>. HIDE DEF w
  <1>2. /\ LogIn(w, m) \in Seq(Entry) /\ Len(LogIn(w, m)) = m.count
        /\ \A i \in 1..m.count : /\ i - 1 \in Indices(m) /\ SlotOf(m, i - 1) \in Slots
                                 /\ LogIn(w, m)[i] = w[SlotOf(m, i - 1)]
    BY <1>1, LogFacts
  <1>3. old \in Seq(Entry) /\ Len(old) = m.count /\ \A i \in 1..m.count : old[i] = sl[SlotOf(m, i - 1)]
    BY LogFacts
  <1>. HIDE DEF old
  <1>4. \A i \in 1..m.count : SlotOf(m, i - 1) = m.head => m.count = Capacity /\ i = 1
    BY <1>1, <1>2, SlotFacts
  <1>5. CASE m.count = Capacity
    <2>1. SlotOf(m, 0) = m.head
      <3>1. 0 \in Indices(m) /\ m.head + 0 < Capacity
        BY <1>1, <1>5 DEF Indices, Slots
      <3>. QED  BY <1>1, <1>5, <3>1, SlotFacts DEF Slots
    <2>. DEFINE new == [old EXCEPT ![1] = n]
    <2>2. new \in Seq(Entry) /\ Len(new) = m.count
          /\ \A i \in 1..m.count : new[i] = IF i = 1 THEN n ELSE old[i]
      BY <1>1, <1>3, <1>5, ExceptSeq
    <2>. HIDE DEF new
    <2>3. \A i \in 1..m.count : LogIn(w, m)[i] = new[i]
      BY <1>1, <1>2, <1>3, <1>4, <2>1, <2>2
    <2>4. LogIn(w, m) = new
      BY <1>2, <2>2, <2>3, SeqEqual
    <2>. QED  BY <1>5, <2>4 DEF new, old, w
  <1>6. CASE m.count # Capacity
    <2>1. \A i \in 1..m.count : LogIn(w, m)[i] = old[i]
      BY <1>1, <1>2, <1>3, <1>4, <1>6
    <2>2. LogIn(w, m) = old
      BY <1>2, <1>3, <2>1, SeqEqual
    <2>. QED  BY <1>6, <2>2 DEF old, w
  <1>. QED  BY <1>5, <1>6

\* No two entries share a slot.
LEMMA OwnSlots ==
  ASSUME NEW m \in Metadata, HeadFits(m), NEW i \in Indices(m), NEW j \in Indices(m),
         SlotOf(m, i) = SlotOf(m, j)
  PROVE  i = j
  <1>1. /\ m.head \in 0..(Capacity - 1) /\ m.count \in 0..Capacity /\ i \in 0..(m.count - 1)
        /\ j \in 0..(m.count - 1) /\ Capacity \in Nat \ {0}
    BY CapacityAssumption DEF Metadata, Slots, Indices
  <1>2. /\ SlotOf(m, i) = IF m.count < Capacity THEN i ELSE
              IF m.head + i < Capacity THEN m.head + i ELSE m.head + i - Capacity
        /\ SlotOf(m, j) = IF m.count < Capacity THEN j ELSE
              IF m.head + j < Capacity THEN m.head + j ELSE m.head + j - Capacity
    BY SlotFacts
  <1>3. CASE m.count < Capacity
    BY <1>2, <1>3
  <1>4. CASE ~(m.count < Capacity)
    <2>1. IF m.head + i < Capacity THEN SlotOf(m, i) = m.head + i ELSE SlotOf(m, i) = m.head + i - Capacity
      BY <1>2, <1>4
    <2>2. IF m.head + j < Capacity THEN SlotOf(m, j) = m.head + j ELSE SlotOf(m, j) = m.head + j - Capacity
      BY <1>2, <1>4
    <2>. DEFINE si == SlotOf(m, i)
                sj == SlotOf(m, j)
    <2>3. si = sj
      OBVIOUS
    <2>. HIDE DEF si, sj
    <2>4. i < Capacity /\ j < Capacity
      BY <1>1
    <2>. QED  BY <1>1, <2>1, <2>2, <2>3, <2>4 DEF si, sj
  <1>. QED  BY <1>3, <1>4

\* A record that decays is a gap in the log, or was not in it.
LEMMA LogDecayed ==
  ASSUME NEW m \in Metadata, HeadFits(m), NEW sl \in SlotTypes, NEW s \in Slots
  PROVE  \/ LogIn([sl EXCEPT ![s] = 0], m) = LogIn(sl, m)
         \/ \E i \in DOMAIN LogIn(sl, m) :
              LogIn([sl EXCEPT ![s] = 0], m) = [LogIn(sl, m) EXCEPT ![i] = 0]
  <1>. DEFINE w == [sl EXCEPT ![s] = 0]
              old == LogIn(sl, m)
  <1>1. /\ w \in SlotTypes /\ m.count \in Nat /\ 0 \in Entry
        /\ w[s] = 0 /\ \A t \in Slots \ {s} : w[t] = sl[t]
    BY CapacityAssumption, LastSequenceAssumption DEF SlotTypes, Entry, Metadata
  <1>. HIDE DEF w
  <1>2. /\ LogIn(w, m) \in Seq(Entry) /\ Len(LogIn(w, m)) = m.count
        /\ \A i \in 1..m.count : /\ i - 1 \in Indices(m) /\ SlotOf(m, i - 1) \in Slots
                                 /\ LogIn(w, m)[i] = w[SlotOf(m, i - 1)]
    BY <1>1, LogFacts
  <1>3. /\ old \in Seq(Entry) /\ Len(old) = m.count /\ DOMAIN old = 1..m.count
        /\ \A i \in 1..m.count : old[i] = sl[SlotOf(m, i - 1)]
    BY LogFacts
  <1>. HIDE DEF old
  <1>4. CASE \E i \in 1..m.count : SlotOf(m, i - 1) = s
    <2>1. PICK i \in 1..m.count : SlotOf(m, i - 1) = s
      BY <1>4
    <2>2. \A j \in 1..m.count : SlotOf(m, j - 1) = s => j = i
      <3>1. ASSUME NEW j \in 1..m.count, SlotOf(m, j - 1) = s
            PROVE  j = i
        <4>1. j - 1 = i - 1
          BY <1>2, <2>1, <3>1, OwnSlots
        <4>. QED  BY <4>1
      <3>. QED  BY <3>1
    <2>. DEFINE new == [old EXCEPT ![i] = 0]
    <2>3. new \in Seq(Entry) /\ Len(new) = m.count
          /\ \A j \in 1..m.count : new[j] = IF j = i THEN 0 ELSE old[j]
      BY <1>1, <1>3, ExceptSeq
    <2>. HIDE DEF new
    <2>4. \A j \in 1..m.count : LogIn(w, m)[j] = new[j]
      BY <1>1, <1>2, <1>3, <2>1, <2>2, <2>3
    <2>5. LogIn(w, m) = new
      BY <1>2, <2>3, <2>4, SeqEqual
    <2>. QED  BY <1>3, <2>5 DEF new, old, w
  <1>5. CASE ~\E i \in 1..m.count : SlotOf(m, i - 1) = s
    <2>1. \A i \in 1..m.count : LogIn(w, m)[i] = old[i]
      BY <1>1, <1>2, <1>3, <1>5
    <2>2. LogIn(w, m) = old
      BY <1>2, <1>3, <2>1, SeqEqual
    <2>. QED  BY <2>2 DEF old, w
  <1>. QED  BY <1>4, <1>5

\* A ring that is set back has lost its newest entry; if it was full before the
\* append, that entry stands in the place of the oldest.
LEMMA LogSetBack ==
  ASSUME NEW o \in Metadata, HeadFits(o), NEW sl \in SlotTypes
  PROVE  LET log   == LogIn(sl, Advanced(o))
             front == SubSeq(log, 1, Len(log) - 1)
         IN  /\ log # <<>>
             /\ \/ LogIn(sl, o) = front
                \/ Len(log) = Capacity /\ LogIn(sl, o) = <<log[Len(log)]>> \o front
  <1>. DEFINE a == Advanced(o)
              log == LogIn(sl, a)
              front == SubSeq(log, 1, Len(log) - 1)
  <1>1. /\ a \in Metadata /\ HeadFits(a)
        /\ a.count = IF o.count < Capacity THEN o.count + 1 ELSE o.count
        /\ o.count \in 0..Capacity /\ Capacity \in Nat \ {0, 1} /\ a.count \in Nat \ {0}
        /\ o.head \in Slots
    BY AdvancedFacts, CapacityAssumption DEF Metadata
  <1>2. /\ log \in Seq(Entry) /\ Len(log) = a.count
        /\ \A i \in 1..a.count : i - 1 \in Indices(a) /\ log[i] = sl[SlotOf(a, i - 1)]
    BY <1>1, LogFacts
  <1>3. /\ LogIn(sl, o) \in Seq(Entry) /\ Len(LogIn(sl, o)) = o.count
        /\ \A i \in 1..o.count : i - 1 \in Indices(o) /\ LogIn(sl, o)[i] = sl[SlotOf(o, i - 1)]
    BY LogFacts
  <1>. HIDE DEF log
  <1>4. log # <<>>
    BY <1>1, <1>2, EmptySeq
  <1>5. /\ front \in Seq(Entry) /\ Len(front) = a.count - 1
        /\ \A i \in 1..(a.count - 1) : front[i] = log[i]
    <2>1. /\ 1 \in Int /\ a.count - 1 \in Int /\ \A i \in 1..(a.count - 1) : log[i] \in Entry
          /\ a.count - 1 - 1 + 1 = a.count - 1 /\ \A i \in 1..(a.count - 1) : 1 + i - 1 = i
      BY <1>1, <1>2, ElementOfSeq
    <2>2. /\ front \in Seq(Entry)
          /\ Len(front) = IF 1 <= a.count - 1 THEN a.count - 1 - 1 + 1 ELSE 0
          /\ \A i \in 1..(a.count - 1 - 1 + 1) : front[i] = log[1 + i - 1]
      BY <1>2, <2>1, SubSeqProperties
    <2>3. Len(front) = a.count - 1
      BY <1>1, <2>2
    <2>. QED  BY <2>1, <2>2, <2>3
  <1>. HIDE DEF front
  \* The entries that remain are where they were, or one further back.
  <1>6. ASSUME NEW i \in 1..(a.count - 1)
        PROVE  LET k == IF o.count = Capacity THEN i + 1 ELSE i
               IN  k \in 1..o.count /\ LogIn(sl, o)[k] = front[i]
    <2>. DEFINE k == IF o.count = Capacity THEN i + 1 ELSE i
    <2>1. i - 1 \in Indices(a) /\ i - 1 # a.count - 1
      BY <1>1, <1>2
    <2>2. k \in 1..o.count
      BY <1>1
    <2>3. k - 1 = IF o.count = Capacity THEN i - 1 + 1 ELSE i - 1
      BY <1>1
    <2>4. SlotOf(a, i - 1) = SlotOf(o, k - 1)
      BY <2>1, <2>3, AdvancedSlots
    <2>5. front[i] = sl[SlotOf(a, i - 1)]
      BY <1>1, <1>2, <1>5
    <2>. HIDE DEF k
    <2>6. k \in 1..o.count /\ LogIn(sl, o)[k] = front[i]
      BY <1>3, <2>2, <2>4, <2>5
    <2>. QED  BY <2>6 DEF k
  <1>7. CASE o.count # Capacity
    <2>1. \A i \in 1..o.count : LogIn(sl, o)[i] = front[i]
      BY <1>1, <1>6, <1>7
    <2>2. LogIn(sl, o) = front
      BY <1>1, <1>3, <1>5, <1>7, <2>1, SeqEqual
    <2>. QED  BY <1>4, <2>2 DEF front, log
  <1>8. CASE o.count = Capacity
    <2>. DEFINE newest == log[Len(log)]
                new == <<newest>> \o front
    <2>1. newest \in Entry /\ newest = sl[o.head]
      <3>1. a.count \in 1..a.count
        BY <1>1
      <3>2. newest = sl[SlotOf(a, a.count - 1)] /\ a.count - 1 \in Indices(a)
        BY <1>2, <3>1
      <3>3. newest \in Entry
        BY <1>2, <3>1, ElementOfSeq
      <3>. QED  BY <3>2, <3>3, AdvancedSlots
    <2>. HIDE DEF newest
    <2>2. <<newest>> \in Seq(Entry) /\ Len(<<newest>>) = 1 /\ <<newest>>[1] = newest
      BY <2>1
    <2>3. /\ new \in Seq(Entry) /\ Len(new) = 1 + (a.count - 1)
          /\ \A i \in 1..(1 + (a.count - 1)) : new[i] = IF i <= 1 THEN <<newest>>[i] ELSE front[i - 1]
      BY <1>5, <2>2, ConcatProperties
    <2>. HIDE DEF new
    <2>4. Len(new) = o.count /\ \A i \in 1..o.count : new[i] = IF i = 1 THEN newest ELSE front[i - 1]
      <3>1. 1 + (a.count - 1) = o.count /\ o.count \in Nat
        BY <1>1, <1>8
      <3>2. Len(new) = o.count
        BY <2>3, <3>1
      <3>3. ASSUME NEW i \in 1..o.count
            PROVE  new[i] = IF i = 1 THEN newest ELSE front[i - 1]
        <4>1. new[i] = IF i <= 1 THEN <<newest>>[i] ELSE front[i - 1]
          BY <2>3, <3>1
        <4>2. i <= 1 <=> i = 1
          BY <3>1
        <4>. QED  BY <2>2, <4>1, <4>2
      <3>. QED  BY <3>2, <3>3
    <2>5. ASSUME NEW i \in 1..o.count
          PROVE  LogIn(sl, o)[i] = new[i]
      <3>1. CASE i = 1
        <4>1. 0 \in Indices(o) /\ SlotOf(o, 0) = o.head
          <5>1. 0 \in Indices(o)
            BY <1>1, <1>8 DEF Indices
          <5>. QED  BY <1>1, <1>8, <5>1, SlotFacts DEF Slots
        <4>. QED  BY <1>3, <2>1, <2>4, <3>1, <4>1
      <3>2. CASE i # 1
        <4>1. i - 1 \in 1..(a.count - 1) /\ i - 1 + 1 = i
          BY <1>1, <1>8, <3>2
        <4>2. LogIn(sl, o)[i] = front[i - 1]
          BY <1>6, <1>8, <4>1
        <4>. QED  BY <2>4, <3>2, <4>2
      <3>. QED  BY <3>1, <3>2
    <2>6. LogIn(sl, o) = new
      BY <1>3, <2>3, <2>4, <2>5, SeqEqual
    <2>. QED  BY <1>1, <1>2, <1>4, <1>8, <2>6 DEF new, newest, front, log
  <1>. QED  BY <1>7, <1>8

\* What the ring says of its log, as BoundedLog has it.
map == [i \in 1..InForce.count |-> EntryAt(InForce, i - 1)]

LEMMA LogStep ==
  ASSUME HistoryInv, [Next]_vars
  PROVE  [Log!Next]_map
  <1>. DEFINE m == InForce
  <1>1. /\ m \in Metadata /\ HeadFits(m) /\ slots \in SlotTypes /\ m.count \in 0..Capacity
        /\ Capacity \in Nat
    BY ForceFacts, CapacityAssumption DEF Metadata
  <1>2. map = LogIn(slots, m) /\ map' = LogIn(slots', InForce')
    BY LogMapped DEF map
  <1>3. /\ map \in Seq(Entry) /\ Len(map) = m.count /\ DOMAIN map = 1..m.count
        /\ \A i \in 1..m.count : /\ i - 1 \in Indices(m) /\ SlotOf(m, i - 1) \in Slots
                                 /\ map[i] = slots[SlotOf(m, i - 1)]
    BY <1>1, <1>2, LogFacts
  <1>4. ASSUME UNCHANGED slots, InForce' = InForce
        PROVE  UNCHANGED map
    BY <1>2, <1>4
  <1>5. ASSUME UNCHANGED slots, SetBack
        PROVE  Log!LoseNewest
    <2>1. InForce' \in Metadata /\ HeadFits(InForce') /\ m = Advanced(InForce')
      BY <1>5 DEF SetBack
    <2>2. \A o \in Metadata : HeadFits(o) /\ m = Advanced(o) =>
            /\ map # <<>>
            /\ \/ LogIn(slots, o) = SubSeq(map, 1, Len(map) - 1)
               \/ Len(map) = Capacity
                  /\ LogIn(slots, o) = <<map[Len(map)]>> \o SubSeq(map, 1, Len(map) - 1)
      BY <1>1, <1>2, LogSetBack
    <2>3. /\ map # <<>>
          /\ \/ map' = SubSeq(map, 1, Len(map) - 1)
             \/ Len(map) = Capacity /\ map' = <<map[Len(map)]>> \o SubSeq(map, 1, Len(map) - 1)
      BY <1>2, <1>5, <2>1, <2>2
    <2>. QED  BY <2>3 DEF map, Log!LoseNewest, Log!Full
  <1>6. CASE Begin
    BY <1>4, <1>6, BeginForce DEF Begin
  <1>7. CASE BeginFails
    BY <1>4, <1>7, BeginFailsForce DEF BeginFails
  <1>8. CASE Measure \/ RadioTest \/ OpenPages \/ NextPage \/ DrawChart \/ UNCHANGED vars
    <2>1. UNCHANGED <<ready, ring, copies, slots>>
      BY <1>8, Zenon DEF Measure, RadioTest, OpenPages, NextPage, DrawChart, vars
    <2>. QED  BY <1>4, <2>1, ForceKept
  <1>9. CASE WriteSlot
    <2>1. /\ UNCHANGED <<ready, ring, copies>> /\ pending /\ ready
          /\ slots' = [slots EXCEPT ![ring.head] = number] \/ slots' = slots
      BY <1>9 DEF WriteSlot
    <2>2. InForce' = InForce /\ InForce = ring
      BY <2>1, ForceKept, ForceFacts
    <2>3. number \in 1..LastSequence /\ number \in Entry
      BY <2>1, LastSequenceAssumption DEF HistoryInv, TypeOK, Entry
    <2>4. CASE slots' = [slots EXCEPT ![ring.head] = number]
      <3>1. map' = IF m.count = Capacity THEN [map EXCEPT ![1] = number] ELSE map
        BY <1>1, <1>2, <2>2, <2>3, <2>4, LogSpoiled
      <3>2. CASE m.count = Capacity
        <4>1. Log!Spoil(number)
          BY <1>3, <3>1, <3>2 DEF Log!Spoil, Log!Full, map
        <4>. QED  BY <2>3, <4>1 DEF Log!Next
      <3>. QED  BY <3>1, <3>2
    <2>. QED  BY <1>4, <2>1, <2>2, <2>4
  <1>10. CASE WriteMetadata
    <2>1. PICK ok \in Writes :
            /\ copies' = IF ok THEN [copies EXCEPT ![CopyOf(Advanced(ring))] = Advanced(ring)] ELSE copies
            /\ ring' = RingAfter(ok)
      BY <1>10, Zenon DEF WriteMetadata
    <2>2. UNCHANGED <<ready, slots>> /\ pc = "commit" /\ ok \in BOOLEAN
      BY <1>10 DEF WriteMetadata, Writes
    <2>3. /\ ready /\ pending /\ number \in 1..LastSequence
          /\ (\A s \in Slots \ {ring.head} : slots[s] < number) /\ slots[ring.head] \in {number, 0}
      BY <2>2, LastSequenceAssumption DEF HistoryInv, TypeOK, SlotsHeld
    <2>4. InForce = ring
      BY <2>3, ForceFacts
    <2>5. CASE ok
      <3>1. InForce' = Advanced(m)
        BY <2>1, <2>2, <2>3, <2>4, <2>5 DEF InForce, RingAfter
      <3>2. map' = Append(IF m.count = Capacity THEN Tail(map) ELSE map, slots[m.head])
        BY <1>1, <1>2, <2>2, <3>1, LogAppended
      <3>3. \A i \in 1..m.count : map[i] < number \/ (m.count = Capacity /\ i = 1)
        <4>1. ASSUME NEW i \in 1..m.count, ~(m.count = Capacity /\ i = 1)
              PROVE  map[i] < number
          <5>1. i - 1 \in Indices(m) /\ SlotOf(m, i - 1) \in Slots /\ map[i] = slots[SlotOf(m, i - 1)]
            BY <1>3
          <5>2. ~(m.count = Capacity /\ i - 1 = 0)
            BY <4>1
          <5>3. SlotOf(m, i - 1) # m.head
            BY <1>1, <5>1, <5>2, SlotFacts
          <5>. QED  BY <2>3, <2>4, <5>1, <5>3
        <4>. QED  BY <4>1
      <3>4. Log!Add(number)
        BY <1>3, <2>3, <2>4, <3>2, <3>3 DEF Log!Add, Log!Full, map
      <3>. QED  BY <2>3, <3>4 DEF Log!Next
    <2>6. CASE ~ok
      <3>1. UNCHANGED <<ready, ring, copies, slots>>
        BY <2>1, <2>2, <2>6 DEF RingAfter
      <3>. QED  BY <1>4, <3>1, ForceKept
    <2>. QED  BY <2>2, <2>5, <2>6
  <1>11. CASE Restart
    <2>1. UNCHANGED slots
      BY <1>11 DEF Restart
    <2>. QED  BY <1>4, <1>5, <1>11, <2>1, RestartForce DEF Log!Next
  <1>12. CASE Decay
    <2>1. UNCHANGED <<ready, ring>>
      BY <1>12 DEF Decay
    <2>2. CASE UNCHANGED slots /\ Intact(0) /\ Intact(1)
               /\ \E c \in {0, 1} : copies' = [copies EXCEPT ![c] = NoMetadata]
      BY <1>4, <1>5, <2>1, <2>2, CopyDecaysForce DEF Log!Next
    <2>3. CASE UNCHANGED copies /\ \E s \in Slots : slots' = [slots EXCEPT ![s] = 0]
      <3>1. PICK s \in Slots : slots' = [slots EXCEPT ![s] = 0]
        BY <2>3
      <3>2. InForce' = InForce
        BY <2>1, <2>3, ForceKept
      <3>3. map' = map \/ \E i \in DOMAIN map : map' = [map EXCEPT ![i] = 0]
        BY <1>1, <1>2, <3>1, <3>2, LogDecayed
      <3>. QED  BY <3>3 DEF Log!Next, Log!Decay, map
    <2>. QED  BY <1>12, <2>2, <2>3 DEF Decay
  <1>. QED  BY <1>6, <1>7, <1>8, <1>9, <1>10, <1>11, <1>12 DEF Next

\* Slots, two metadata copies, their wrapping counter, restarts and failed or
\* interrupted writes only ever do to the entries what BoundedLog allows
\* (nvs_history.cpp).
THEOREM RingImplementsLog == Spec => ImplementsLog
  <1>1. Init => Log!Init
    <2>. SUFFICES ASSUME Init PROVE map = <<>>
      BY DEF Log!Init, map
    <2>1. InForce.count = 0
      BY FreshTypes DEF Init, InForce, Found, Intact
    <2>. QED  BY <2>1 DEF map
  <1>2. HistoryInv /\ [Next]_vars => [Log!Next]_map
    BY LogStep
  <1>. QED  BY <1>1, <1>2, HistoryInvariant, PTL DEF Spec, ImplementsLog, Log!Spec, map

=============================================================================
