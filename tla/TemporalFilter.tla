---------------------------- MODULE TemporalFilter ----------------------------
(***************************************************************************)
(* The distance filter: TemporalFilter (lib/filtering/filter.cpp) as       *)
(* NodeApp's filter and verify stages drive it (lib/app/node_app.cpp:343-  *)
(* 380).  A reading that is far from the accepted distance only becomes a  *)
(* candidate; further readings, seconds apart, vote for it or for the      *)
(* accepted distance.  The memory survives the power-off in the persistent *)
(* state, so a reset may set the filter back to what was committed last.   *)
(*                                                                         *)
(* Simplifications:                                                        *)
(* - the moving average is some distance between its old value and the     *)
(*   reading, rounded: what holds, holds for every emaAlpha in (0, 1];     *)
(* - the Hampel multiplier is an integer, and its scale factor 1.4826 is   *)
(*   kept as a fraction;                                                   *)
(* - the window is kept in chronological order, not as a ring, and the     *)
(*   diagnostic copies of the last candidate are left out;                 *)
(* - the configuration does not change: every value of it is a constant.   *)
(***************************************************************************)
EXTENDS Integers, Sequences, FiniteSets

CONSTANTS
  Readings,      \* distances the sonar may report
  Capacity,      \* build::kMaximumHampelWindow
  HampelWindow, Multiplier, Floor,                \* the Hampel test
  Sudden,                                         \* suddenChangeThresholdMm
  RiseCount, RiseRequired, RiseTolerance,         \* verification of a rise
  FallCount, FallRequired, FallTolerance,         \* verification of a fall
  Faults         \* subset of {"nvs", "reset"}

\* What validateConfig accepts. (node_config.cpp:60-90)
ASSUME ReadingsAssumption == Readings \subseteq Nat \ {0} /\ Readings # {} /\ IsFiniteSet(Readings)
ASSUME WindowAssumption == Capacity \in Nat /\ HampelWindow \in 3..Capacity
ASSUME HampelAssumption == Multiplier \in 1..10 /\ Floor \in Nat \ {0} /\ Sudden \in Nat \ {0}
ASSUME RiseAssumption ==
  RiseCount \in Nat \ {0, 1} /\ RiseRequired \in 1..RiseCount /\ RiseTolerance \in Nat \ {0}
ASSUME FallAssumption ==
  FallCount \in Nat \ {0, 1} /\ FallRequired \in 1..FallCount /\ FallTolerance \in Nat \ {0}

VARIABLES
  pc,        \* "boot", "idle", "filter" or "verify"
  memory,    \* FilterMemory, in the RAM image of the persistent state
  stored,    \* the same, in flash
  reading    \* the distance measured last, Invalid if the burst was not valid

vars == <<pc, memory, stored, reading>>

-----------------------------------------------------------------------------
(* Types *)

Invalid == 0

Span == CHOOSE m \in Readings : \A r \in Readings : r <= m

Distances == 1..Span

States == {"stable", "accepted", "rise", "fall", "transient", "confirmed",
           "uncertain", "invalid"}

NoCandidate == [distance |-> 0, samples |-> <<>>, observations |-> 0, baseline |-> 0]

Count(rise) == IF rise THEN RiseCount ELSE FallCount
Required(rise) == IF rise THEN RiseRequired ELSE FallRequired
Tolerance(rise) == IF rise THEN RiseTolerance ELSE FallTolerance

Empty == [window |-> <<>>, candidate |-> NoCandidate, state |-> "invalid"]

Memory ==
  [window    : Seq(Distances),
   candidate : [distance : Distances \union {0}, samples : Seq(Distances),
                observations : Nat, baseline : Nat],
   state     : States]

MemoryOK(m) == m \in Memory /\ Len(m.window) <= Capacity

TypeOK ==
  /\ pc \in {"boot", "idle", "filter", "verify"}
  /\ MemoryOK(memory) /\ MemoryOK(stored)
  /\ reading \in Readings \union {Invalid}
  /\ pc = "verify" <=> memory.candidate # NoCandidate
  /\ pc = "verify" => memory.window # <<>>

-----------------------------------------------------------------------------
(* Robust statistics: robustStats *)

Distance(a, b) == IF a > b THEN a - b ELSE b - a

\* The k-th smallest element of a sequence.
Ranked(s, k) ==
  CHOOSE v \in {s[i] : i \in DOMAIN s} :
    /\ Cardinality({i \in DOMAIN s : s[i] < v}) < k
    /\ Cardinality({i \in DOMAIN s : s[i] <= v}) >= k

\* medianSorted: of an even number, halfway up between the two in the middle.
Median(s) ==
  LET upper == Ranked(s, Len(s) \div 2 + 1)
      lower == Ranked(s, Len(s) \div 2)
  IN  IF Len(s) % 2 = 1 THEN upper ELSE lower + (upper - lower) \div 2

Mad(s) == Median([i \in DOMAIN s |-> Distance(s[i], Median(s))])

-----------------------------------------------------------------------------
(* TemporalFilter *)

Accepted(m) == m.window[Len(m.window)]

LastOf(s, n) == IF Len(s) <= n THEN s ELSE SubSeq(s, Len(s) - n + 1, Len(s))

\* The distances that exponential smoothing may turn the reading into.
Smoothed(m, value) == {d \in Distances : \/ d \in Accepted(m)..value
                                         \/ d \in value..Accepted(m)}

\* accept with resetEma: the window starts again with the new distance.
WindowRestarted(value) == <<value>>

\* accept without: the smoothed value is appended.
WindowContinued(m, value) ==
  {LastOf(Append(m.window, d), Capacity) : d \in Smoothed(m, value)}

\* Rounded half up, as lroundf does for what is not negative.
HampelThreshold(mad) ==
  LET scaled == (Multiplier * 14826 * mad + 5000) \div 10000
  IN  IF scaled > Floor THEN scaled ELSE Floor

IsOutlier(m, value) ==
  LET recent == LastOf(m.window, HampelWindow)
  IN  Distance(value, Median(recent)) > HampelThreshold(Mad(recent))

\* Defect: only the Hampel test makes a reading suspicious.
OutlierOnly(m, value) == IsOutlier(m, value)

Suspicious(m, value) ==
  IsOutlier(m, value) \/ Distance(value, Accepted(m)) >= Sudden

\* A rise of the water is a shorter distance.
IsRise(m, value) == value < Accepted(m)

\* beginCandidate: the suspicious reading is its own first vote.
Candidate(value) ==
  [distance |-> value, samples |-> <<value>>, observations |-> 1, baseline |-> 0]

\* Defect: it is not.
CandidateWithoutVote(value) ==
  [distance |-> value, samples |-> <<>>, observations |-> 1, baseline |-> 0]

FirstCandidate(value) == Candidate(value)

\* evaluate: what may become of the memory.
Evaluated(m, value) ==
  IF value = Invalid THEN {[m EXCEPT !.state = "invalid"]}
  ELSE IF m.window = <<>>
    THEN {[m EXCEPT !.window = WindowRestarted(value), !.state = "accepted"]}
  ELSE IF Suspicious(m, value)
    THEN {[m EXCEPT !.candidate = FirstCandidate(value),
                    !.state = IF IsRise(m, value) THEN "rise" ELSE "fall"]}
  ELSE {[m EXCEPT !.window = w, !.state = "stable"] : w \in WindowContinued(m, value)}

Rising(m) == IsRise(m, m.candidate.distance)

\* The votes of a reading: it may be near both distances and vote for both.
Observed(m, value) ==
  LET near(d) == value # Invalid /\ Distance(value, d) <= Tolerance(Rising(m))
      c == m.candidate
  IN  [c EXCEPT !.observations = @ + 1,
                !.samples  = IF near(c.distance) THEN Append(@, value) ELSE @,
                !.baseline = IF near(Accepted(m)) THEN @ + 1 ELSE @]

\* Defect: a majority is enough, whatever the configuration requires.
MajorityConfirms(c, rise) == Len(c.samples) > c.observations \div 2

Confirmed(c, rise) == Len(c.samples) >= Required(rise) /\ c.samples # <<>>

\* Defect: the candidate stays active.
StillActive(m, state) == [m EXCEPT !.state = state]

Settled(m, state) == [m EXCEPT !.candidate = NoCandidate, !.state = state]

\* finishVerification of candidate c.
Finished(m, c) ==
  IF Confirmed(c, Rising(m))
    THEN {[Settled(m, "confirmed") EXCEPT !.window = WindowRestarted(Median(c.samples))]}
  ELSE IF c.baseline > c.observations \div 2 THEN {Settled(m, "transient")}
  ELSE {Settled(m, "uncertain")}

-----------------------------------------------------------------------------
(* NodeApp: acquireStage, filterStage and verifyStage *)

Saves == IF "nvs" \in Faults THEN BOOLEAN ELSE {TRUE}

\* begin loads the memory that was committed last.
Boot ==
  /\ pc = "boot" /\ pc' = "idle"
  /\ memory' = stored
  /\ UNCHANGED <<stored, reading>>

\* A measurement starts with a commit, that of its sequence number.
Acquire ==
  /\ pc = "idle" /\ pc' = "filter"
  /\ reading' \in Readings \union {Invalid}
  /\ \E ok \in Saves : stored' = IF ok THEN memory ELSE stored
  /\ UNCHANGED memory

Filter ==
  /\ pc = "filter"
  /\ memory' \in Evaluated(memory, reading)
  /\ pc' = IF memory'.candidate # NoCandidate THEN "verify" ELSE "idle"
  /\ UNCHANGED <<stored, reading>>

\* One reading of the verification; the last one ends it.
Verify ==
  /\ pc = "verify"
  /\ reading' \in Readings \union {Invalid}
  /\ LET c == Observed(memory, reading')
     IN  IF c.observations < Count(Rising(memory))
           THEN memory' = [memory EXCEPT !.candidate = c] /\ UNCHANGED pc
           ELSE memory' \in Finished(memory, c) /\ pc' = "idle"
  /\ UNCHANGED stored

\* Any later commit: the end of the exchange, the portal's, the power-off's.
Store ==
  /\ pc = "idle"
  /\ \E ok \in Saves : stored' = IF ok THEN memory ELSE stored
  /\ UNCHANGED <<pc, memory, reading>>

\* Power-off when idle, or a watchdog, panic or power loss anywhere.
Restart ==
  /\ pc # "boot" /\ (pc = "idle" \/ "reset" \in Faults)
  /\ pc' = "boot"
  /\ memory' = Empty
  /\ UNCHANGED <<stored, reading>>

-----------------------------------------------------------------------------
(* Specification *)

Init ==
  /\ pc = "boot" /\ memory = Empty /\ stored = Empty /\ reading = Invalid

Measuring == Boot \/ Acquire \/ Filter \/ Verify

Next == Measuring \/ Store \/ Restart

Spec == Init /\ [][Next]_vars

\* The loop task measures again and again.
FairSpec == Spec /\ WF_vars(Measuring)

-----------------------------------------------------------------------------
(* Safety *)

\* The accepted distance jumps by a sudden change only as the end of a
\* verification in which the required number of readings agreed with the first
\* suspicious one, and to a distance that agrees with it as well.
\* (filter.cpp:171-192, docs/architecture.md:55-58)
JumpIsConfirmed ==
  [][memory.window # <<>> /\ memory'.window # <<>> /\ pc # "boot"
     /\ Distance(Accepted(memory'), Accepted(memory)) >= Sudden =>
       LET c == Observed(memory, reading')
       IN  /\ pc = "verify" /\ memory'.state = "confirmed"
           /\ c.observations = Count(Rising(memory))
           /\ Len(c.samples) >= Required(Rising(memory))
           /\ Distance(Accepted(memory'), c.distance) <= Tolerance(Rising(memory))]_vars

\* A distance that no longer moves is accepted in the end, however far it is
\* from the one before: no window, vote or threshold shuts it out for good.
\* (filter.cpp:95-136, 171-203)
SteadyLevelAccepted ==
  \A level \in Readings :
    <>[](reading = level /\ pc # "boot") =>
      <>[](memory.window # <<>> /\ Distance(Accepted(memory), level) < Sudden)

(* Why JumpIsConfirmed holds: the inductive invariant *)

\* A verification under way has votes left to take, and all votes for the candidate
\* are close to it.  None outlives the stage, and none reaches the flash.
FilterInv ==
  /\ TypeOK
  /\ stored.candidate = NoCandidate
  /\ pc = "verify" =>
       LET c == memory.candidate
       IN  /\ c.distance # 0 /\ c.observations \in 1..(Count(Rising(memory)) - 1)
           /\ \A i \in DOMAIN c.samples :
                Distance(c.samples[i], c.distance) <= Tolerance(Rising(memory))

=============================================================================
