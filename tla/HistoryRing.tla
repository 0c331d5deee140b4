----------------------------- MODULE HistoryRing -----------------------------
(***************************************************************************)
(* The measurement history: NvsHistory (lib/history/nvs_history.cpp) as    *)
(* NodeApp::appendCurrentHistory (lib/app/node_app.cpp:523-544) drives it. *)
(*                                                                         *)
(* A record goes into its slot first; then the metadata that makes it      *)
(* visible is written to the older of its two copies.  The processor may   *)
(* reset between the writes, a write may fail, and a stored blob may decay *)
(* so that it no longer verifies.  Meanwhile an operator leafs through the  *)
(* history, or draws it as a chart (lib/history/history_query.hpp, and     *)
(* lib/maintenance/maintenance_portal.cpp:397-542): requests of their own,  *)
(* between which the portal may measure and append.                        *)
(*                                                                         *)
(* Simplifications:                                                        *)
(* - a record is its sequence number, 0 for one that is missing or does    *)
(*   not verify;                                                           *)
(* - one putBytes stores its blob and says so, or fails and leaves the old *)
(*   one, as NVS promises;                                                 *)
(* - numbers come from PersistentStateManager in order, but not all of     *)
(*   them belong to a measurement (CommandExchange has the allocation).    *)
(***************************************************************************)
EXTENDS Integers, Sequences

CONSTANTS
  Capacity,      \* build::kHistoryCapacity
  Generations,   \* values of the generation counter: 2^32, a small power here
  LastSequence,  \* numbers a run allocates: the bound of a run
  PageSize,      \* kDefaultPageSize, kMaximumPageSize
  ChartPoints,   \* kDefaultChartPoints, kMaximumChartPoints
  Requests,      \* page limits and numbers of points an operator asks for
  Faults         \* subset of {"nvs", "reset", "decay"}

ASSUME CapacityAssumption == Capacity \in Nat \ {0, 1}
ASSUME GenerationsAssumption == Generations \in Nat /\ Generations > 2 /\ Generations % 2 = 0
ASSUME QueryAssumption == {PageSize, ChartPoints} \subseteq Nat \ {0} /\ Requests \subseteq Nat
ASSUME LastSequenceAssumption == LastSequence \in Nat

VARIABLES
  pc,        \* "boot", "idle", or "commit" between the slot and the metadata
  ready,     \* historyReady_: begin succeeded
  ring,      \* NvsHistory::metadata_
  copies,    \* the metadata blobs meta0 and meta1
  slots,     \* the record blobs h000, h001, ...
  last,      \* the last number allocated
  number,    \* measurement_.sequence
  pending,   \* historyPending_: the measurement is not in the history yet
  reader     \* the operator: what has been read, where to go on, and whether
             \* an entry has left the ring meanwhile

vars == <<pc, ready, ring, copies, slots, last, number, pending, reader>>

-----------------------------------------------------------------------------
(* Types *)

Slots == 0..(Capacity - 1)

Metadata == [generation : 0..(Generations - 1), head : Slots, count : 0..Capacity]

FreshMetadata == [generation |-> 0, head |-> 0, count |-> 0]

\* A copy that was never written, or does not verify.
NoMetadata == [generation |-> 0, head |-> 0, count |-> -1]

NoReader ==
  [view |-> "none", next |-> 0, more |-> FALSE, seen |-> <<>>, shifted |-> FALSE]

TypeOK ==
  /\ pc \in {"boot", "idle", "commit"} /\ ready \in BOOLEAN
  /\ ring \in Metadata
  /\ copies \in [{0, 1} -> Metadata \union {NoMetadata}]
  /\ slots \in [Slots -> 0..LastSequence]
  /\ last \in 0..LastSequence /\ number \in 0..last /\ pending \in BOOLEAN
  /\ reader \in [view : {"none", "pages", "chart"}, next : 0..Capacity, more : BOOLEAN,
                 seen : Seq(0..LastSequence), shifted : BOOLEAN]
  /\ Len(reader.seen) <= Capacity
  /\ pc = "commit" => ready /\ pending
  /\ pending => number # 0

-----------------------------------------------------------------------------
(* Reading: NvsHistory::begin and at *)

\* Defect: the counter is compared as if it never wrapped.
NewerUnsigned(a, b) == a > b

\* newerGeneration: the sign of the wrapped difference.
NewerGeneration(a, b) == (a - b) % Generations \in 1..(Generations \div 2 - 1)

Intact(c) == copies[c] # NoMetadata

\* The copy begin loads; it has none if neither verifies.
NewestCopy ==
  IF Intact(0) /\ (~Intact(1) \/ NewerGeneration(copies[0].generation, copies[1].generation))
    THEN copies[0] ELSE copies[1]

\* Defect: the oldest entry of a full ring is looked for at slot 0.
OldestSlotZero(m) == 0

OldestSlot(m) == IF m.count < Capacity THEN 0 ELSE m.head

\* NvsHistory::at: entry i in chronological order, under metadata m.
EntryAt(m, i) == slots[(OldestSlot(m) + i) % Capacity]

Indices(m) == 0..(m.count - 1)

-----------------------------------------------------------------------------
(* Writing: NvsHistory::append *)

\* Whether a putBytes succeeds.
Writes == IF "nvs" \in Faults THEN BOOLEAN ELSE {TRUE}

\* NvsHistory::begin: the newer copy that verifies, or a fresh ring.
Begin ==
  /\ pc = "boot" /\ pc' = "idle"
  /\ IF Intact(0) \/ Intact(1)
       THEN ring' = NewestCopy /\ ready' = TRUE /\ UNCHANGED copies
       ELSE /\ ring' = FreshMetadata
            /\ ready' \in Writes
            /\ copies' = IF ready' THEN [copies EXCEPT ![0] = FreshMetadata] ELSE copies
  /\ UNCHANGED <<slots, last, number, pending, reader>>

\* The namespace cannot be opened: this boot has no history.
BeginFails ==
  /\ pc = "boot" /\ pc' = "idle"
  /\ "nvs" \in Faults
  /\ ready' = FALSE
  /\ UNCHANGED <<ring, copies, slots, last, number, pending, reader>>

\* acquireStage: a new measurement takes the place of the last, stored or not;
\* one without a number is not stored.
Measure ==
  /\ pc = "idle"
  /\ \/ /\ last < LastSequence
        /\ last' = last + 1 /\ number' = last' /\ pending' = TRUE
     \/ /\ number' = 0 /\ pending' = FALSE /\ UNCHANGED last
  /\ UNCHANGED <<pc, ready, ring, copies, slots, reader>>

\* sendRadioTest renumbers the measurement, even one that is not stored yet.
RadioTest ==
  /\ pc = "idle" /\ last < LastSequence
  /\ last' = last + 1 /\ number' = last'
  /\ UNCHANGED <<pc, ready, ring, copies, slots, pending, reader>>

\* append, first half: the record goes to the head, which is not visible yet,
\* or holds the oldest entry of a full ring.
WriteSlot ==
  /\ pc = "idle" /\ pending /\ ready
  /\ \/ slots' = [slots EXCEPT ![ring.head] = number] /\ pc' = "commit"
     \/ FALSE \in Writes /\ UNCHANGED <<slots, pc>>
  /\ UNCHANGED <<ready, ring, copies, last, number, pending, reader>>

\* Defect: the count goes on when the ring is full.
AdvancedUncapped(m) ==
  [generation |-> (m.generation + 1) % Generations,
   head       |-> (m.head + 1) % Capacity,
   count      |-> m.count + 1]

Advanced(m) ==
  [generation |-> (m.generation + 1) % Generations,
   head       |-> (m.head + 1) % Capacity,
   count      |-> IF m.count < Capacity THEN m.count + 1 ELSE m.count]

\* saveMetadata alternates between the copies.
CopyOf(m) == m.generation % 2

\* Defect: the ring in RAM moves on although its metadata was not written.
AdvancedAnyway(ok) == Advanced(ring)

RingAfter(ok) == IF ok THEN Advanced(ring) ELSE ring

\* append, second half.
WriteMetadata ==
  /\ pc = "commit" /\ pc' = "idle"
  /\ \E ok \in Writes :
       LET next == Advanced(ring)
       IN  /\ copies' = IF ok THEN [copies EXCEPT ![CopyOf(next)] = next] ELSE copies
           /\ ring' = RingAfter(ok)
           /\ pending' = ~ok
  /\ reader' = [reader EXCEPT !.shifted = @ \/ (ring' # ring /\ ring.count = Capacity)]
  /\ UNCHANGED <<ready, slots, last, number>>

-----------------------------------------------------------------------------
(* Reading it: MaintenancePortal::sendHistory and sendHistoryChart *)

Capped(request, cap) == IF request = 0 \/ request > cap THEN cap ELSE request

Fewer(a, b) == IF a < b THEN a ELSE b

\* history_query::page: the entries a request returns and where it leaves off.
Page(total, offset, limit) ==
  LET from == Fewer(offset, total)
      next == from + Fewer(total - from, Capped(limit, PageSize))
  IN  [from |-> from, next |-> next, more |-> next < total]

\* Defect: the points are spread over the count, not over the last index.
ChartIndexShort(total, points, point) == (point * total) \div points

\* history_query::chartIndex: both ends, the rest evenly between them.
ChartIndex(total, points, point) ==
  IF points = 1 THEN total - 1 ELSE (point * (total - 1)) \div (points - 1)

\* Entries by their index; the portal leaves out those it cannot read (0).
Entries(from, to) == [i \in 1..(to - from) |-> EntryAt(ring, from + i - 1)]

\* Defect: a reader is told to go on where the page began.
NextOffsetRepeats(page) == page.from

NextOffset(page) == page.next

\* One page, after the entries that were read before it.
ReadPage(offset, before, shifted) ==
  \E limit \in Requests :
    LET page == Page(ring.count, offset, limit)
    IN  reader' = [view |-> "pages", next |-> NextOffset(page), more |-> page.more,
                   seen |-> before \o Entries(page.from, page.next),
                   shifted |-> shifted]

OpenPages ==
  /\ pc = "idle"
  /\ ReadPage(0, <<>>, FALSE)
  /\ UNCHANGED <<pc, ready, ring, copies, slots, last, number, pending>>

NextPage ==
  /\ pc = "idle" /\ reader.view = "pages" /\ reader.more
  /\ ReadPage(reader.next, reader.seen, reader.shifted)
  /\ UNCHANGED <<pc, ready, ring, copies, slots, last, number, pending>>

DrawChart ==
  /\ pc = "idle"
  /\ \E request \in Requests :
       LET points == Fewer(ring.count, Capped(request, ChartPoints))
       IN  reader' = [NoReader EXCEPT !.view = "chart", !.next = ring.count,
             !.seen = [p \in 1..points |->
                         EntryAt(ring, ChartIndex(ring.count, points, p - 1))]]
  /\ UNCHANGED <<pc, ready, ring, copies, slots, last, number, pending>>

-----------------------------------------------------------------------------
(* What happens to the node *)

\* Power-off when idle, or a watchdog, panic or power loss anywhere.  The access
\* point goes down with the node, and the operator starts again.
Restart ==
  /\ pc # "boot" /\ (pc = "idle" \/ "reset" \in Faults)
  /\ pc' = "boot" /\ ready' = FALSE
  /\ ring' = FreshMetadata /\ number' = 0 /\ pending' = FALSE
  /\ reader' = NoReader
  /\ UNCHANGED <<copies, slots, last>>

\* A stored blob no longer verifies: one of the metadata copies while the other
\* one does, or any record.
Decay ==
  /\ "decay" \in Faults
  /\ \/ \E c \in {0, 1} : /\ Intact(0) /\ Intact(1)
                          /\ copies' = [copies EXCEPT ![c] = NoMetadata]
                          /\ UNCHANGED slots
     \/ \E s \in Slots : slots' = [slots EXCEPT ![s] = 0] /\ UNCHANGED copies
  /\ UNCHANGED <<pc, ready, ring, last, number, pending, reader>>

-----------------------------------------------------------------------------
(* Specification *)

Init ==
  /\ pc = "boot" /\ ready = FALSE
  /\ ring = FreshMetadata
  /\ copies = [c \in {0, 1} |-> NoMetadata]
  /\ slots = [s \in Slots |-> 0]
  /\ last = 0 /\ number = 0 /\ pending = FALSE
  /\ reader = NoReader

Next == \/ Begin \/ BeginFails
        \/ Measure \/ RadioTest
        \/ WriteSlot \/ WriteMetadata
        \/ OpenPages \/ NextPage \/ DrawChart
        \/ Restart \/ Decay

Spec == Init /\ [][Next]_vars

-----------------------------------------------------------------------------
(* Safety *)

\* Entries at the old end of the ring that appends may have written over without
\* making them visible as new: one, or two if a decayed copy set the ring back.
Overwritten == IF Intact(0) /\ Intact(1) THEN 1 ELSE 2

\* What the portal shows is in the order of measurement, whatever failed or was
\* interrupted: an append that got no further than its slot disturbs the old end
\* of the ring and nothing else. (nvs_history.cpp:115-155, README.md:90)
Chronological ==
  ready => \A i, j \in Indices(ring) :
    Overwritten <= i /\ i < j /\ EntryAt(ring, i) # 0 /\ EntryAt(ring, j) # 0
      => EntryAt(ring, i) < EntryAt(ring, j)

\* What an operator has read is in the order of measurement, also if the portal
\* has measured and appended between two pages: apart from the two oldest
\* entries (see Chronological) nothing comes twice or out of order.
\* (history_query.hpp:22-51, maintenance_portal.cpp:397-410)
ReadInOrder ==
  \A i, j \in DOMAIN reader.seen :
    2 < i /\ i < j /\ reader.seen[i] # 0 /\ reader.seen[j] # 0
      => reader.seen[i] < reader.seen[j]

\* Position p of what was read shows the entry of index i, unless that has been
\* written over or has decayed since.
Shows(p, i) == i = 0 \/ EntryAt(ring, i) = 0 \/ reader.seen[p] = EntryAt(ring, i)

\* As long as no entry has left the ring, the pages read are its entries from the
\* oldest on without a gap, and a chart ends with the entry that was the newest.
\* (history_query.hpp:29-50, docs/dashboard.md:38-41)
ReadFaithful ==
  LET n == Len(reader.seen)
  IN  ~reader.shifted =>
        /\ reader.view = "pages" => \A p \in 1..n : Shows(p, p - 1)
        /\ reader.view = "chart" /\ n # 0 => Shows(n, reader.next - 1)
        /\ reader.view = "pages" => n = reader.next

(* The promise it keeps: an abstract log without slots or metadata *)

\* The metadata that a boot would find, and those that are in force.
Found == IF Intact(0) \/ Intact(1) THEN NewestCopy ELSE FreshMetadata

InForce == IF ready THEN ring ELSE Found

Log == INSTANCE BoundedLog WITH
  Numbers <- 1..LastSequence,
  log <- [i \in 1..InForce.count |-> EntryAt(InForce, i - 1)]

\* Slots, metadata copies, their wrapping counter, restarts and failed writes only
\* ever do to the entries what BoundedLog allows: a restart finds them as they
\* are, at worst one append back where the copy of its generation has decayed.
\* (nvs_history.cpp:20-22, 85-155, docs/architecture.md:48-49)
ImplementsLog == Log!Spec

-----------------------------------------------------------------------------
(* Why it holds: the inductive invariant *)

\* The copy that holds the metadata m, and the one the next append writes to.
Own(m) == CopyOf(m)
Other(m) == 1 - CopyOf(m)

\* A ring that is not full has been filled from slot 0 on.
HeadFits(m) == m.count < Capacity => m.head = m.count

\* The metadata in force are in their copy, one append ahead of the other copy,
\* as far as the copies verify.
CopiesHeld ==
  LET m == InForce
  IN  /\ HeadFits(m)
      /\ Intact(Own(m)) => copies[Own(m)] = m
      /\ Intact(Other(m)) => HeadFits(copies[Other(m)]) /\ m = Advanced(copies[Other(m)])
      /\ IF ready THEN Intact(0) \/ Intact(1) ELSE ring = FreshMetadata

\* Entries that are not among the newest ones may have been written over: one, or
\* two where the ring may have been set back.
Depth == IF Intact(Own(InForce)) /\ ~Intact(Other(InForce)) THEN 2 ELSE 1

Ordered(m, depth) ==
  \A i, j \in Indices(m) :
    i < j /\ m.count - i <= Capacity - depth /\ EntryAt(m, i) # 0 /\ EntryAt(m, j) # 0
      => EntryAt(m, i) < EntryAt(m, j)

SlotsHeld ==
  /\ \A s \in Slots : slots[s] <= last
  /\ pending => \A s \in Slots \ {ring.head} : slots[s] < number
  /\ pc = "commit" => slots[ring.head] \in {number, 0}
  /\ Ordered(InForce, Depth)

\* What has been read is older than what remains to be read, and than what is
\* still to be appended.
ReaderHeld ==
  /\ Len(reader.seen) <= reader.next /\ reader.next <= ring.count
  /\ reader.view = "pages" =>
       /\ Len(reader.seen) = reader.next
       /\ \A p \in DOMAIN reader.seen : 2 < p =>
            /\ reader.seen[p] <= last /\ (pending => reader.seen[p] < number)
            /\ \A i \in Indices(ring) :
                 reader.next <= i /\ EntryAt(ring, i) # 0 => reader.seen[p] < EntryAt(ring, i)

HistoryInv ==
  /\ TypeOK /\ CopiesHeld /\ SlotsHeld /\ ReaderHeld
  /\ pc = "boot" => ~ready /\ ~pending /\ reader = NoReader
  /\ ReadInOrder /\ ReadFaithful

=============================================================================
