------------------------------ MODULE BoundedLog ------------------------------
(***************************************************************************)
(* What a node promises of its measurement history: the last measurements, *)
(* in order, at most Capacity of them, in flash.  No slots, no counters, no *)
(* copies of metadata: HistoryRing implements this (its property           *)
(* ImplementsLog).                                                         *)
(*                                                                         *)
(* The promise has three weak points, and they are actions of their own:   *)
(* an append that is interrupted costs the oldest entry of a full log, a   *)
(* record that decays is a gap, and metadata that decays costs the newest  *)
(* entry.                                                                  *)
(***************************************************************************)
EXTENDS Integers, Sequences

CONSTANTS
  Capacity,   \* entries the log has room for
  Numbers     \* sequence numbers of measurements

VARIABLE log  \* the entries, oldest first; 0 for a gap

Full == Len(log) = Capacity

Init == log = <<>>

\* A new entry follows all others, and makes room for itself.  The oldest entry
\* of a full log is the one that goes, whatever has become of it.  (The record
\* may have decayed before it became visible: then the new entry is a gap.)
Add(n) ==
  /\ \A i \in DOMAIN log : log[i] < n \/ (Full /\ i = 1)
  /\ \E entry \in {n, 0} :
       log' = Append(IF Full THEN Tail(log) ELSE log, entry)

\* An append that does not get to its end has spoiled the oldest entry.
Spoil(n) == Full /\ log' = [log EXCEPT ![1] = n]

Decay == \E i \in DOMAIN log : log' = [log EXCEPT ![i] = 0]

\* The newest entry is lost; a log that has been full for longer finds it in
\* the place of its oldest.
LoseNewest ==
  /\ log # <<>>
  /\ LET front == SubSeq(log, 1, Len(log) - 1)
     IN  \/ log' = front
         \/ Full /\ log' = <<log[Len(log)]>> \o front

Next == \/ \E n \in Numbers : Add(n) \/ Spoil(n)
        \/ Decay \/ LoseNewest

Spec == Init /\ [][Next]_log

=============================================================================
