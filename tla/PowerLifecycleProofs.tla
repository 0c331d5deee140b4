------------------------- MODULE PowerLifecycleProofs -------------------------
(***************************************************************************)
(* What is proved of PowerLifecycle for every choice of its constants: any *)
(* poll intervals, schedule targets, lifetimes, clock and set of faults;   *)
(* and of the budget of a maintenance window (MaintenanceBudget), while    *)
(* nobody sets the clock: a window is timed by the clock whenever it is    *)
(* resumed.                                                                *)
(***************************************************************************)
EXTENDS MaintenanceBudget, TLAPS

-----------------------------------------------------------------------------
(* The chip *)

\* Programming the countdown leaves a chip of the right type.
LEMMA ConfigureTimerType ==
  ASSUME NEW c \in Chip, NEW source \in {"64Hz", "minute"},
         NEW value \in 0..255, NEW writes \in 0..4
  PROVE  ConfigureTimer(c, source, value, writes) \in Chip
  <1>. DEFINE on == c.enabled \union {"TF"}
  <1>1. on \in SUBSET Flags
    BY DEF Chip, Flags
  <1>2. \/ ConfigureTimer(c, source, value, writes) = c
        \/ \E t \in {"off", "64Hz", "minute"} :
             ConfigureTimer(c, source, value, writes)
               \in {[c EXCEPT !.timer = t],
                    [c EXCEPT !.timer = t, !.count = value, !.reload = value],
                    [c EXCEPT !.timer = t, !.count = value, !.reload = value,
                              !.enabled = on]}
    <2>. CASE writes = 0
      BY DEF ConfigureTimer
    <2>. CASE writes = 1
      BY DEF ConfigureTimer
    <2>. CASE writes = 2
      BY DEF ConfigureTimer
    <2>. CASE writes = 3
      BY DEF ConfigureTimer
    <2>. CASE writes = 4
      BY DEF ConfigureTimer
    <2>. QED  OBVIOUS
  <1>. HIDE DEF on
  <1>3. ASSUME NEW t \in {"off", "64Hz", "minute"}
        PROVE  /\ [c EXCEPT !.timer = t] \in Chip
               /\ [c EXCEPT !.timer = t, !.count = value, !.reload = value] \in Chip
               /\ [c EXCEPT !.timer = t, !.count = value, !.reload = value,
                            !.enabled = on] \in Chip
    <2>1. [c EXCEPT !.timer = t] \in Chip
      BY DEF Chip
    <2>2. [c EXCEPT !.timer = t, !.count = value, !.reload = value] \in Chip
      BY DEF Chip
    <2>3. [c EXCEPT !.timer = t, !.count = value, !.reload = value,
                    !.enabled = on] \in Chip
      BY <1>1 DEF Chip
    <2>. QED  BY <2>1, <2>2, <2>3
  <1>. QED  BY <1>2, <1>3

\* So do the two writes that program an alarm, and those that disable it.
LEMMA AlarmTypes ==
  ASSUME NEW c \in Chip, NEW target \in Targets \union {NoAlarm}, NEW writes \in 0..2
  PROVE  /\ ConfigureAlarm(c, target, writes) \in Chip
         /\ DisableAlarm(c, writes) \in Chip
  <1>1. ASSUME NEW a \in Targets \union {NoAlarm}, NEW e \in SUBSET Flags
        PROVE  [c EXCEPT !.alarm = a, !.enabled = e] \in Chip
    BY DEF Chip
  <1>2. ConfigureAlarm(c, target, writes) \in Chip
    <2>. DEFINE a == IF writes >= 1 THEN target ELSE c.alarm
                e == IF writes = AlarmWrites THEN c.enabled \union {"AF"} ELSE c.enabled
    <2>1. a \in Targets \union {NoAlarm} /\ e \in SUBSET Flags
      BY DEF Chip, Flags
    <2>2. ConfigureAlarm(c, target, writes) = [c EXCEPT !.alarm = a, !.enabled = e]
      BY DEF ConfigureAlarm
    <2>. HIDE DEF a, e
    <2>. QED  BY <1>1, <2>1, <2>2
  <1>3. DisableAlarm(c, writes) \in Chip
    <2>. DEFINE a == IF writes >= 1 THEN NoAlarm ELSE c.alarm
                e == IF writes = AlarmWrites THEN c.enabled \ {"AF"} ELSE c.enabled
    <2>1. a \in Targets \union {NoAlarm} /\ e \in SUBSET Flags
      BY DEF Chip
    <2>2. DisableAlarm(c, writes) = [c EXCEPT !.alarm = a, !.enabled = e]
      BY DEF DisableAlarm
    <2>. HIDE DEF a, e
    <2>. QED  BY <1>1, <2>1, <2>2
  <1>. QED  BY <1>2, <1>3

\* So does the final release.
LEMMA ReleaseType ==
  ASSUME NEW c \in Chip, NEW cleared \in SUBSET Flags, NEW disable \in BOOLEAN
  PROVE  ReleaseInterruptFlags(c, cleared, disable) \in Chip
  BY DEF Chip, Flags, ReleaseInterruptFlags

\* And what the chip does by itself.
LEMMA ElapsedTypes ==
  ASSUME NEW c \in Chip, NEW t \in Nat
  PROVE  /\ MinuteElapsed(c, t) \in Chip
         /\ FastTimerElapsed(c) \in Chip
  <1>1. MinuteElapsed(c, t) \in Chip
    <2>1. FlagsRaised(c, t) \in SUBSET Flags
      BY DEF FlagsRaised
    <2>2. CountExpires(c) \/ c.timer # "minute" \/ c.count - 1 \in 0..255
      BY DEF Chip, CountExpires
    <2>. QED  BY <2>1, <2>2 DEF Chip, MinuteElapsed
  <1>2. FastTimerElapsed(c) \in Chip
    BY DEF Chip, Flags, FastTimerElapsed
  <1>. QED  BY <1>1, <1>2

-----------------------------------------------------------------------------
(* What a call may return or leave behind *)

\* A refresh leaves an observation in the RAM copy, whatever fails.
LEMMA ObservationTypes ==
  ASSUME TypeOK
  PROVE  \A s \in Observations : s \in Observation
  <1>1. chip.flags \in SUBSET Flags /\ now \in Nat /\ timeValid \in BOOLEAN
    BY DEF TypeOK, Chip
  <1>. DEFINE look == [comm |-> "ok", flags |-> chip.flags,
                      clock |-> IF timeValid THEN "valid" ELSE "untrusted",
                      time |-> IF timeValid THEN now ELSE 0]
  <1>2. look \in Observation
    BY <1>1 DEF Observation
  <1>3. Blind \in Observation
    BY DEF Blind, Observation
  <1>4. [look EXCEPT !.clock = "error", !.time = 0] \in Observation
    BY <1>2 DEF Observation
  <1>. QED  BY <1>2, <1>3, <1>4 DEF Observations

\* The same of a refresh after the clock was written.
LEMMA LaterObservationTypes ==
  ASSUME TypeOK, now' \in Nat, timeValid' \in BOOLEAN, chip' = chip
  PROVE  \A s \in Observations' : s \in Observation
  <1>1. chip'.flags \in SUBSET Flags /\ now' \in Nat /\ timeValid' \in BOOLEAN
    BY DEF TypeOK, Chip
  <1>. DEFINE look == [comm |-> "ok", flags |-> chip'.flags,
                      clock |-> IF timeValid' THEN "valid" ELSE "untrusted",
                      time |-> IF timeValid' THEN now' ELSE 0]
  <1>2. look \in Observation
    BY <1>1 DEF Observation
  <1>3. Blind \in Observation
    BY DEF Blind, Observation
  <1>4. [look EXCEPT !.clock = "error", !.time = 0] \in Observation
    BY <1>2 DEF Observation
  <1>. QED  BY <1>2, <1>3, <1>4 DEF Observations

\* An operation of n writes performs some of them, and all when it succeeds.
LEMMA WriteOutcomeTypes ==
  ASSUME NEW n \in Nat, NEW w \in WriteOutcomes(n)
  PROVE  /\ w.writes \in 0..n
         /\ w.ok \in BOOLEAN
         /\ w.ok => w.writes = n
  <1>1. CASE w = [writes |-> n, ok |-> TRUE]
    BY <1>1
  <1>2. CASE \E k \in 0..n : w = [writes |-> k, ok |-> FALSE]
    BY <1>2
  <1>. QED  BY <1>1, <1>2 DEF WriteOutcomes

\* A commit leaves flash with a persistent state.
LEMMA CommitType ==
  ASSUME TypeOK, NEW r \in PersistentState, NEW ok \in BOOLEAN, Commit(r, ok)
  PROVE  nvs' \in PersistentState
  BY DEF TypeOK, Commit

LEMMA SaveOutcomeTypes == SaveOutcomes \subseteq BOOLEAN
  BY DEF SaveOutcomes

LEMMA FreshStateType == FreshState \in PersistentState
  BY DEF FreshState, PersistentState, ScheduleStates

\* The image that LoseRam leaves is the one of a node without power.
LEMMA LoseRamTypes ==
  ASSUME LoseRam
  PROVE  /\ ram' \in PersistentState /\ ready' \in BOOLEAN /\ seen' \in Observation
         /\ boot' \in [reason : Reasons, alarm : BOOLEAN, latched : BOOLEAN]
         /\ nextPoll' = 1 /\ mLeft' = 0 /\ req' = {}
         /\ ctx' = "cycle" /\ attempt' = 1
  BY FreshStateType
  DEF LoseRam, Blind, Observation, NoBoot, Reasons

LEMMA ClassifyType ==
  ASSUME NEW s, NEW marker \in {"none", "ota", "maintenance"}, NEW state
  PROVE  Classify(s, marker, state) \in Reasons
  BY DEF Classify, Reasons

-----------------------------------------------------------------------------
(* Type correctness, one lemma per part of the next-state relation *)

TypeInv == TypeOK /\ ContextSettled

\* Booting leaves every variable in its type.
LEMMA BootingTypes ==
  ASSUME TypeInv, Booting
  PROVE  TypeInv'
  <1>. USE DEF TypeInv, TypeOK, ContextSettled, hardware, flash, session, Steps
  <1>1. CASE Boot
    <2>1. PICK s \in Observations, storage \in StorageOutcomes :
            LET state  == IF storage = "loaded" THEN nvs ELSE FreshState
                usable == storage # "unavailable"
                marker == IF usable THEN state.expected ELSE "none"
                class  == Classify(s, marker, state)
                resume == /\ usable /\ state.active /\ marker = "none"
                          /\ class # "scheduled"
            IN  /\ seen' = s
                /\ ram' = state
                /\ ready' = usable
                /\ nvs' = IF storage = "fresh" THEN FreshState ELSE nvs
                /\ boot' = [reason  |-> IF resume THEN "maintenance" ELSE class,
                            alarm   |-> "AF" \in s.flags,
                            latched |-> TRUE]
                /\ pc' = IF class = "manual" THEN "latch" ELSE "bootLog"
      BY <1>1 DEF Boot
    <2>. DEFINE state  == IF storage = "loaded" THEN nvs ELSE FreshState
                usable == storage # "unavailable"
                marker == IF usable THEN state.expected ELSE "none"
                class  == Classify(s, marker, state)
    <2>2. seen' \in Observation
      BY <2>1, ObservationTypes
    <2>3. ram' \in PersistentState /\ nvs' \in PersistentState /\ ready' \in BOOLEAN
      BY <2>1, FreshStateType
    <2>4. class \in Reasons
      <3>1. state \in PersistentState
        BY FreshStateType
      <3>2. marker \in {"none", "ota", "maintenance"}
        BY <3>1 DEF PersistentState
      <3>. QED  BY <3>2, ClassifyType
    <2>5. ("AF" \in s.flags) \in BOOLEAN
      OBVIOUS
    <2>6. boot' \in [reason : Reasons, alarm : BOOLEAN, latched : BOOLEAN]
      BY <2>1, <2>4, <2>5 DEF Reasons
    <2>. QED  BY <1>1, <2>1, <2>2, <2>3, <2>6 DEF Boot
  <1>2. CASE ProgramLatch
    <2>1. PICK w \in WriteOutcomes(TimerWrites) :
            /\ chip' = ConfigureTimer(chip, "64Hz", LatchCount, w.writes)
            /\ pc' = IF w.ok THEN "latchWait" ELSE "bootLog"
            /\ boot' = [boot EXCEPT !.latched = w.ok]
      BY <1>2 DEF ProgramLatch
    <2>2. w.writes \in 0..4 /\ w.ok \in BOOLEAN
      BY WriteOutcomeTypes DEF TimerWrites
    <2>3. chip' \in Chip
      BY <2>1, <2>2, ConfigureTimerType DEF LatchCount
    <2>4. boot' \in [reason : Reasons, alarm : BOOLEAN, latched : BOOLEAN]
      BY <2>1, <2>2
    <2>. QED  BY <1>2, <2>1, <2>3, <2>4 DEF ProgramLatch
  <1>3. CASE ConfirmLatch
    <2>1. seen' \in Observation
      BY <1>3, ObservationTypes DEF ConfirmLatch, Observation
    <2>. QED  BY <1>3, <2>1 DEF ConfirmLatch
  <1>4. CASE LatchTimeout
    <2>1. boot' \in [reason : Reasons, alarm : BOOLEAN, latched : BOOLEAN]
      BY <1>4 DEF LatchTimeout
    <2>. QED  BY <1>4, <2>1 DEF LatchTimeout
  <1>5. CASE LogBoot
    <2>1. ram' \in PersistentState
      BY <1>5 DEF LogBoot, PersistentState
    <2>2. nvs' \in PersistentState
      BY <1>5, <2>1 DEF LogBoot, Commit
    <2>. QED  BY <1>5, <2>1, <2>2 DEF LogBoot
  <1>6. CASE DecideBoot
    <2>1. ram' \in PersistentState
      BY <1>6 DEF DecideBoot, PersistentState, ScheduleStates
    <2>2. nvs' \in PersistentState
      BY <1>6, <2>1 DEF DecideBoot, Commit
    <2>. QED  BY <1>6, <2>1, <2>2 DEF DecideBoot
  <1>. QED  BY <1>1, <1>2, <1>3, <1>4, <1>5, <1>6 DEF Booting

\* So does a measurement cycle, whatever the gateway answers.
LEMMA CyclingTypes ==
  ASSUME TypeInv, Cycling
  PROVE  TypeInv'
  <1>. USE DEF TypeInv, TypeOK, ContextSettled, hardware, flash, session, Steps,
               Contexts
  <1>1. CASE Acquire
    <2>1. nvs' \in PersistentState
      BY <1>1 DEF Acquire, Commit
    <2>. QED  BY <1>1, <2>1 DEF Acquire
  <1>2. CASE TransmitUnanswered
    <2>1. seen' \in Observation
      BY <1>2, ObservationTypes DEF TransmitUnanswered
    <2>. QED  BY <1>2, <2>1 DEF TransmitUnanswered
  <1>3. CASE TransmitAnswered
    <2>1. CASE seen' \in Observations /\ UNCHANGED <<hardware, ram>>
      <3>1. seen' \in Observation
        BY <2>1, ObservationTypes
      <3>. QED  BY <1>3, <2>1, <3>1 DEF TransmitAnswered
    <2>2. CASE ~(seen' \in Observations /\ UNCHANGED <<hardware, ram>>)
      <3>1. PICK g \in GatewayTimes, s \in Observations, w \in WriteOutcomes(1) :
              LET needed == s.clock # "valid" \/ s.time # g
                  synced == ~needed \/ w.ok
              IN  /\ now' = IF needed /\ w.writes = 1 THEN g ELSE now
                  /\ timeValid' = (timeValid \/ (needed /\ w.writes = 1))
                  /\ UNCHANGED <<button, chip>>
                  /\ \/ synced /\ seen' = [s EXCEPT !.clock = "valid", !.time = g]
                     \/ ~synced /\ seen' \in Observations'
                  /\ ram' = IF synced /\ ctx = "maint" /\ ram.active /\ ram.deadline = 0
                              THEN [ram EXCEPT !.deadline = g + mLeft] ELSE ram
        BY <1>3, <2>2 DEF TransmitAnswered
      <3>2. g \in Nat /\ mLeft \in Nat
        BY GatewayTimesAssumption, LifeAssumption
      <3>3. now' \in Nat /\ timeValid' \in BOOLEAN /\ chip' = chip /\ button' = button
        BY <3>1, <3>2
      <3>4. seen' \in Observation
        <4>1. [s EXCEPT !.clock = "valid", !.time = g] \in Observation
          BY <3>2, ObservationTypes DEF Observation
        <4>. QED  BY <3>1, <3>3, <4>1, LaterObservationTypes
      <3>5. ram' \in PersistentState
        BY <3>1, <3>2 DEF PersistentState
      <3>. QED  BY <1>3, <3>3, <3>4, <3>5 DEF TransmitAnswered
    <2>. QED  BY <2>1, <2>2
  <1>4. CASE Commands
    <2>1. CASE CommandNone
      BY <2>1 DEF CommandNone, ExchangeEnds
    <2>2. CASE CommandEnter
      <3>1. nvs' \in PersistentState
        BY <2>2 DEF CommandEnter, Commit
      <3>. QED  BY <2>2, <3>1 DEF CommandEnter, ExchangeEnds
    <2>3. CASE CommandPoll
      <3>1. nvs' \in PersistentState
        BY <2>3 DEF CommandPoll, Commit
      <3>. QED  BY <2>3, <3>1 DEF CommandPoll, ExchangeEnds
    <2>4. ASSUME NEW target \in Targets, CommandSchedule(target)
          PROVE  TypeInv'
      <3>1. seen' \in Observation
        BY <2>4, ObservationTypes DEF CommandSchedule
      <3>2. ram' \in PersistentState
        BY <2>4 DEF CommandSchedule, PersistentState, ScheduleStates
      <3>3. nvs' \in PersistentState
        BY <2>4, <3>2 DEF CommandSchedule, Commit
      <3>. QED  BY <2>4, <3>1, <3>2, <3>3 DEF CommandSchedule, ExchangeEnds
    <2>5. CASE ProgramSchedule
      <3>1. PICK w \in WriteOutcomes(AlarmWrites) :
              /\ chip' = ConfigureAlarm(chip, ram.target, w.writes)
              /\ ram' = IF w.ok THEN ram ELSE [ram EXCEPT !.sched = "failed"]
        BY <2>5 DEF ProgramSchedule
      <3>2. chip' \in Chip
        <4>1. ram.target \in Targets \union {NoAlarm}
          BY DEF PersistentState, NoAlarm
        <4>2. w.writes \in 0..2
          BY WriteOutcomeTypes DEF AlarmWrites
        <4>. QED  BY <3>1, <4>1, <4>2, AlarmTypes
      <3>3. ram' \in PersistentState
        BY <3>1 DEF PersistentState, ScheduleStates
      <3>4. nvs' \in PersistentState
        BY <2>5, <3>3 DEF ProgramSchedule, Commit
      <3>. QED  BY <2>5, <3>2, <3>3, <3>4 DEF ProgramSchedule, ExchangeEnds
    <2>. QED  BY <1>4, <2>1, <2>2, <2>3, <2>4, <2>5 DEF Commands
  <1>5. CASE Store
    <2>1. nvs' \in PersistentState
      BY <1>5 DEF Store, Commit
    <2>. QED  BY <1>5, <2>1 DEF Store
  <1>. QED  BY <1>1, <1>2, <1>3, <1>4, <1>5 DEF Cycling

\* So does maintenance, from its entry to its end.
LEMMA MaintainingTypes ==
  ASSUME TypeInv, Maintaining
  PROVE  TypeInv'
  <1>. USE DEF TypeInv, TypeOK, ContextSettled, hardware, flash, session, Steps,
               Contexts
  <1>1. CASE EnterMaintenance
    <2>1. ram' \in PersistentState
      <3>1. CASE ~WindowContinues /\ ready
        <4>. DEFINE d == IF seen.clock = "valid" THEN seen.time + Life ELSE 0
        <4>1. d \in Nat
          BY LifeAssumption DEF Observation
        <4>2. ram' = [ram EXCEPT !.active = TRUE, !.deadline = d]
          BY <1>1, <3>1 DEF EnterMaintenance
        <4>. HIDE DEF d
        <4>. QED  BY <4>1, <4>2 DEF PersistentState
      <3>. QED  BY <1>1, <3>1 DEF EnterMaintenance
    <2>2. nvs' \in PersistentState
      BY <1>1, <2>1 DEF EnterMaintenance, Commit
    <2>3. mLeft' \in 0..Life
      <3>1. ResumedLifetime \in 0..Life
        BY LifeAssumption DEF ResumedLifetime, Smaller, PersistentState, Observation
      <3>. QED  BY <1>1, <3>1, LifeAssumption DEF EnterMaintenance
    <2>. QED  BY <1>1, <2>1, <2>2, <2>3 DEF EnterMaintenance
  <1>2. CASE MaintenanceExpires
    BY <1>2 DEF MaintenanceExpires
  <1>3. CASE HonourExit
    BY <1>3 DEF HonourExit
  <1>4. CASE HonourReboot
    BY <1>4, LoseRamTypes, LifeAssumption DEF HonourReboot
  <1>5. CASE RadioTestDone
    <2>1. nvs' \in PersistentState
      BY <1>5 DEF RadioTestDone, Commit
    <2>. QED  BY <1>5, <2>1 DEF RadioTestDone
  <1>6. CASE FinishMaintenance
    <2>1. seen' \in Observation
      BY <1>6, ObservationTypes DEF FinishMaintenance
    <2>2. ram' \in PersistentState
      <3>1. CASE ~ready
        BY <1>6, <3>1 DEF FinishMaintenance
      <3>2. CASE ready
        <4>1. PICK sched \in {"completed", ram.sched} :
                ram' = [ram EXCEPT !.active = FALSE, !.deadline = 0, !.sched = sched]
          BY <1>6, <3>2 DEF FinishMaintenance
        <4>2. sched \in ScheduleStates
          BY <4>1 DEF PersistentState, ScheduleStates
        <4>. QED  BY <4>1, <4>2 DEF PersistentState
      <3>. QED  BY <3>1, <3>2
    <2>3. nvs' \in PersistentState
      BY <1>6, <2>2 DEF FinishMaintenance, Commit
    <2>. QED  BY <1>6, <2>1, <2>2, <2>3 DEF FinishMaintenance
  <1>. QED  BY <1>1, <1>2, <1>3, <1>4, <1>5, <1>6 DEF Maintaining

\* The interval programmed as the next wake is one a countdown can hold.
LEMMA WakeMinutesType ==
  ASSUME TypeOK
  PROVE  WakeMinutes \in PollChoices \union {1} /\ WakeMinutes \in 1..255
  BY PollChoicesAssumption DEF TypeOK, WakeMinutes

\* However programNextWake ends, its context and its place are settled.
LEMMA WakeFailedTypes ==
  ASSUME TypeInv, WakeFailed,
         pc \in {"timer", "alarm", "alarmCheck", "alarmOff", "verify"}
  PROVE  /\ nvs' \in PersistentState /\ nextPoll' = nextPoll
         /\ attempt' \in 1..3 /\ ctx' \in Contexts
         /\ pc' \in {"timer", "fault"}
         /\ ctx' = "recover" => pc' = "timer"
  <1>. USE DEF TypeInv, TypeOK, ContextSettled
  <1>1. nvs' \in PersistentState
    BY DEF WakeFailed, Commit
  <1>2. attempt' \in 1..3 /\ ctx' \in Contexts
    BY DEF WakeFailed, Contexts
  <1>. QED  BY <1>1, <1>2 DEF WakeFailed

LEMMA WakeProgrammedTypes ==
  ASSUME TypeInv, WakeProgrammed
  PROVE  /\ nvs' \in PersistentState /\ nextPoll' \in PollChoices \union {1}
         /\ attempt' = 1 /\ ctx' = "cycle"
         /\ pc' \in {"inspect", "recheck", "persist"}
  BY WakeMinutesType DEF TypeInv, TypeOK, WakeProgrammed

\* So does shutting down, from the last commit to the release.
LEMMA ShuttingDownTypes ==
  ASSUME TypeInv, ShuttingDown
  PROVE  TypeInv'
  <1>. USE DEF TypeInv, TypeOK, ContextSettled, hardware, flash, session, Steps,
               Contexts, WakeStep, WakeContinues
  <1>1. CASE Persist
    <2>1. nvs' \in PersistentState
      BY <1>1 DEF Persist, Commit
    <2>. QED  BY <1>1, <2>1 DEF Persist
  <1>2. CASE ProgramTimer
    <2>1. PICK w \in WriteOutcomes(TimerWrites) :
            chip' = ConfigureTimer(chip, "minute", WakeMinutes, w.writes)
      BY <1>2 DEF ProgramTimer
    <2>2. chip' \in Chip
      <3>1. w.writes \in 0..4 /\ WakeMinutes \in 0..255
        BY WriteOutcomeTypes, WakeMinutesType DEF TimerWrites
      <3>. QED  BY <2>1, <3>1, ConfigureTimerType
    <2>3. CASE WakeFailed
      BY <1>2, <2>2, <2>3, WakeFailedTypes DEF ProgramTimer
    <2>4. CASE ~WakeFailed
      BY <1>2, <2>2, <2>4 DEF ProgramTimer
    <2>. QED  BY <2>3, <2>4
  <1>3. CASE ProgramAlarm
    <2>1. PICK w \in WriteOutcomes(AlarmWrites) :
            chip' = IF ram.target = 0 THEN chip
                    ELSE ConfigureAlarm(chip, ram.target, w.writes)
      BY <1>3 DEF ProgramAlarm
    <2>2. chip' \in Chip
      <3>1. ram.target \in Targets \union {NoAlarm}
        BY DEF PersistentState, NoAlarm
      <3>2. w.writes \in 0..2
        BY WriteOutcomeTypes DEF AlarmWrites
      <3>. QED  BY <2>1, <3>1, <3>2, AlarmTypes
    <2>3. CASE WakeFailed
      BY <1>3, <2>2, <2>3, WakeFailedTypes DEF ProgramAlarm
    <2>4. CASE ~WakeFailed
      BY <1>3, <2>2, <2>4 DEF ProgramAlarm
    <2>. QED  BY <2>3, <2>4
  <1>4. CASE CheckAlarm
    <2>1. CASE WakeFailed
      BY <1>4, <2>1, WakeFailedTypes DEF CheckAlarm
    <2>2. CASE ~WakeFailed
      BY <1>4, <2>2 DEF CheckAlarm
    <2>. QED  BY <2>1, <2>2
  <1>5. CASE DisableUnusedAlarm
    <2>1. PICK w \in WriteOutcomes(AlarmWrites) : chip' = DisableAlarm(chip, w.writes)
      BY <1>5 DEF DisableUnusedAlarm
    <2>2. chip' \in Chip
      <3>1. w.writes \in 0..2
        BY WriteOutcomeTypes DEF AlarmWrites
      <3>2. DisableAlarm(chip, w.writes) \in Chip
        <4>1. \A target \in Targets \union {NoAlarm} : DisableAlarm(chip, w.writes) \in Chip
          BY <3>1, AlarmTypes
        <4>. QED  BY <4>1
      <3>. QED  BY <2>1, <3>2
    <2>3. CASE WakeFailed
      BY <1>5, <2>2, <2>3, WakeFailedTypes DEF DisableUnusedAlarm
    <2>4. CASE ~WakeFailed
      BY <1>5, <2>2, <2>4 DEF DisableUnusedAlarm
    <2>. QED  BY <2>3, <2>4
  <1>6. CASE VerifyWake
    <2>1. CASE WakeFailed
      BY <1>6, <2>1, WakeFailedTypes DEF VerifyWake
    <2>2. CASE WakeProgrammed
      BY <1>6, <2>2, WakeProgrammedTypes DEF VerifyWake
    <2>. QED  BY <1>6, <2>1, <2>2 DEF VerifyWake
  <1>7. CASE InspectAlarm
    <2>1. seen' \in Observation
      BY <1>7, ObservationTypes DEF InspectAlarm
    <2>2. ram' \in PersistentState
      BY <1>7 DEF InspectAlarm, PersistentState, ScheduleStates
    <2>3. nvs' \in PersistentState
      BY <1>7, <2>2 DEF InspectAlarm, Commit
    <2>4. boot' \in [reason : Reasons, alarm : BOOLEAN, latched : BOOLEAN]
      BY <1>7 DEF InspectAlarm, Reasons
    <2>. QED  BY <1>7, <2>1, <2>2, <2>3, <2>4 DEF InspectAlarm
  <1>8. CASE RecheckStatus
    <2>1. seen' \in Observation
      BY <1>8, ObservationTypes DEF RecheckStatus
    <2>. QED  BY <1>8, <2>1 DEF RecheckStatus
  <1>9. CASE RecordEvent
    <2>1. nvs' \in PersistentState
      BY <1>9 DEF RecordEvent, Commit
    <2>. QED  BY <1>9, <2>1 DEF RecordEvent
  <1>10. CASE Release
    <2>1. chip' \in Chip
      <3>1. ReleaseInterruptFlags(chip, seen.flags, ram.sched # "pending") \in Chip
        BY ReleaseType DEF Observation
      <3>. QED  BY <1>10, <3>1 DEF Release
    <2>2. nvs' \in PersistentState
      BY <1>10 DEF Release, Commit
    <2>. QED  BY <1>10, <2>1, <2>2 DEF Release
  <1>11. CASE ReleaseRecorded
    <2>1. nvs' \in PersistentState
      BY <1>11 DEF ReleaseRecorded, Commit
    <2>. QED  BY <1>11, <2>1 DEF ReleaseRecorded
  <1>12. CASE FaultRetry
    <2>1. seen' \in Observation
      BY <1>12, ObservationTypes DEF FaultRetry
    <2>. QED  BY <1>12, <2>1 DEF FaultRetry
  <1>. QED  BY <1>1, <1>2, <1>3, <1>4, <1>5, <1>6, <1>7, <1>8, <1>9, <1>10,
               <1>11, <1>12 DEF ShuttingDown

\* So does what the operator does at the button and at the portal.
LEMMA OperatorTypes ==
  ASSUME TypeInv, Operator
  PROVE  TypeInv'
  <1>. USE DEF TypeInv, TypeOK, ContextSettled, hardware, flash, session, Steps,
               Contexts, PortalRuns
  <1>1. CASE PressButton \/ ReleaseButton
    <2>1. /\ button' \in BOOLEAN
          /\ UNCHANGED <<now, timeValid, chip, flash, pc, ctx, attempt, ram, seen, session>>
      BY <1>1 DEF PressButton, ReleaseButton
    <2>. QED  BY <2>1
  <1>2. CASE RequestExit
    BY <1>2 DEF RequestExit
  <1>3. CASE MeasureNow
    <2>1. nvs' \in PersistentState
      BY <1>3 DEF MeasureNow, Commit
    <2>. QED  BY <1>3, <2>1 DEF MeasureNow
  <1>4. CASE ApplyConfiguration
    BY <1>4 DEF ApplyConfiguration
  <1>5. CASE RadioTest
    <2>1. nvs' \in PersistentState
      BY <1>5 DEF RadioTest, Commit
    <2>. QED  BY <1>5, <2>1 DEF RadioTest
  <1>6. ASSUME NEW mode \in RebootModes, PrepareReboot(mode)
        PROVE  TypeInv'
    <2>1. seen' \in Observation
      BY <1>6, ObservationTypes DEF PrepareReboot
    <2>2. ram' \in PersistentState
      <3>. DEFINE d == IF ram.deadline # 0 THEN ram.deadline
                       ELSE now + (IF pc = "maint" THEN mLeft ELSE 0)
      <3>1. d \in Nat
        BY LifeAssumption DEF PersistentState
      <3>2. ram' = [ram EXCEPT !.active = TRUE, !.deadline = d, !.expected = mode]
        BY <1>6 DEF PrepareReboot
      <3>3. mode \in {"none", "ota", "maintenance"}
        BY RebootModesAssumption
      <3>. HIDE DEF d
      <3>. QED  BY <3>1, <3>2, <3>3 DEF PersistentState
    <2>3. /\ nvs' = ram' /\ req' = req \union {"reboot"}
          /\ UNCHANGED <<hardware, poll, pc, ctx, attempt, boot, nextPoll, mLeft, ready>>
      BY <1>6 DEF PrepareReboot
    <2>4. TypeOK'
      BY <2>1, <2>2, <2>3
    <2>5. ContextSettled'
      BY <2>3
    <2>. QED  BY <2>4, <2>5
  <1>. QED  BY <1>1, <1>2, <1>3, <1>4, <1>5, <1>6 DEF Operator

\* So do the rail, the clock and a reset.
LEMMA EnvironmentTypes ==
  ASSUME TypeInv, Environment
  PROVE  TypeInv'
  <1>. USE DEF TypeInv, TypeOK, ContextSettled, hardware, flash, session, Steps,
               Contexts
  <1>1. CASE RailDrops
    BY <1>1, LoseRamTypes, LifeAssumption DEF RailDrops
  <1>2. CASE RailRises
    BY <1>2 DEF RailRises, Running
  <1>3. CASE Reset
    BY <1>3, LoseRamTypes, LifeAssumption DEF Reset
  <1>4. CASE Tick
    <2>1. now' \in Nat
      BY <1>4, HorizonAssumption DEF Tick, Smaller
    <2>2. chip' \in Chip
      BY <1>4, ElapsedTypes DEF Tick
    <2>3. mLeft' \in 0..Life
      BY <1>4, LifeAssumption DEF Tick
    <2>. QED  BY <1>4, <2>1, <2>2, <2>3 DEF Tick
  <1>5. CASE LatchTimerFires
    <2>1. chip' \in Chip
      BY <1>5, ElapsedTypes DEF LatchTimerFires
    <2>. QED  BY <1>5, <2>1 DEF LatchTimerFires
  <1>. QED  BY <1>1, <1>2, <1>3, <1>4, <1>5 DEF Environment

\* Every variable keeps its type, and shared routines return where they came
\* from, in every behaviour.
THEOREM TypeCorrect == Spec => [](TypeOK /\ ContextSettled)
  <1>1. Init => TypeInv
    <2>1. ResetChip \in Chip
      BY DEF ResetChip, Chip
    <2>2. Blind \in Observation
      BY DEF Blind, Observation
    <2>3. NoBoot \in [reason : Reasons, alarm : BOOLEAN, latched : BOOLEAN]
      BY DEF NoBoot, Reasons
    <2>4. Init => TypeOK
      <3>. SUFFICES ASSUME Init
                    PROVE  TypeOK
        OBVIOUS
      <3>1. now \in Nat /\ timeValid \in BOOLEAN /\ button \in BOOLEAN /\ chip \in Chip
        BY <2>1 DEF Init
      <3>2. nvs \in PersistentState /\ ram \in PersistentState /\ ready \in BOOLEAN
        BY FreshStateType DEF Init
      <3>3. seen \in Observation
            /\ boot \in [reason : Reasons, alarm : BOOLEAN, latched : BOOLEAN]
        BY <2>2, <2>3 DEF Init
      <3>4. mLeft \in 0..Life /\ req \in SUBSET {"reboot", "exit", "enter"}
        BY LifeAssumption DEF Init
      <3>5. /\ poll \in PollChoices /\ nextPoll \in PollChoices \union {1}
            /\ pc \in Steps /\ ctx \in Contexts /\ attempt \in 1..3
        BY DEF Init, Steps, Contexts
      <3>. QED  BY <3>1, <3>2, <3>3, <3>4, <3>5 DEF TypeOK
    <2>5. Init => ContextSettled
      BY DEF Init, ContextSettled
    <2>. QED  BY <2>4, <2>5 DEF TypeInv
  <1>2. TypeInv /\ [Next]_vars => TypeInv'
    <2>. SUFFICES ASSUME TypeInv, [Next]_vars
                  PROVE  TypeInv'
      OBVIOUS
    <2>1. CASE Firmware
      BY <2>1, BootingTypes, CyclingTypes, MaintainingTypes, ShuttingDownTypes DEF Firmware
    <2>2. CASE Operator
      BY <2>2, OperatorTypes
    <2>3. CASE Environment
      BY <2>3, EnvironmentTypes
    <2>4. CASE UNCHANGED vars
      BY <2>4 DEF TypeInv, TypeOK, ContextSettled, vars, hardware, flash, session
    <2>. QED  BY <2>1, <2>2, <2>3, <2>4 DEF Next
  <1>. QED  BY <1>1, <1>2, PTL DEF Spec, TypeInv

-----------------------------------------------------------------------------
(* The release: ReleaseInv is inductive together with the types *)

PathInv == WakeArmed /\ AlarmSettled /\ ReleaseSettled

\* From the programmed timer to the cut of the power.
PathSteps == {"alarm", "alarmCheck", "alarmOff", "verify", "inspect", "recheck",
              "event", "release"}

\* Off that path the invariant asks for nothing but the end of a recovery.
LEMMA OffPath ==
  ASSUME pc' \notin PathSteps, ctx' # "recover" \/ ram'.sched # "pending"
  PROVE  PathInv'
  BY DEF PathSteps, PathInv, WakeArmed, AlarmSettled, ReleaseSettled

\* Booting, measuring, commands and maintenance never step onto it.
LEMMA OffPathSteps ==
  ASSUME TypeInv, Booting \/ Cycling \/ Maintaining
  PROVE  PathInv'
  <1>. USE DEF TypeInv, ContextSettled, PathSteps
  <1>1. CASE Booting
    <2>1. pc' \notin PathSteps /\ ctx' = ctx /\ ctx # "recover"
      <3>1. CASE Boot
        BY <3>1 DEF Boot
      <3>2. CASE ProgramLatch \/ ConfirmLatch \/ LatchTimeout
        BY <3>2 DEF ProgramLatch, ConfirmLatch, LatchTimeout
      <3>3. CASE LogBoot
        BY <3>3 DEF LogBoot
      <3>4. CASE DecideBoot
        BY <3>4 DEF DecideBoot
      <3>. QED  BY <1>1, <3>1, <3>2, <3>3, <3>4 DEF Booting
    <2>. QED  BY <2>1, OffPath
  <1>2. CASE Cycling
    <2>1. pc' \notin PathSteps /\ ctx' # "recover"
      <3>. USE DEF ExchangeEnds
      <3>1. CASE Acquire
        BY <3>1 DEF Acquire
      <3>2. CASE TransmitUnanswered \/ TransmitAnswered
        BY <3>2 DEF TransmitUnanswered, TransmitAnswered
      <3>3. CASE CommandNone \/ CommandEnter \/ CommandPoll
        BY <3>3 DEF CommandNone, CommandEnter, CommandPoll
      <3>4. ASSUME NEW target \in Targets, CommandSchedule(target)
            PROVE  pc' \notin PathSteps /\ ctx' # "recover"
        BY <3>4 DEF CommandSchedule
      <3>5. CASE ProgramSchedule
        BY <3>5 DEF ProgramSchedule
      <3>6. CASE Store
        BY <3>6 DEF Store
      <3>. QED  BY <1>2, <3>1, <3>2, <3>3, <3>4, <3>5, <3>6 DEF Cycling, Commands
    <2>. QED  BY <2>1, OffPath
  <1>3. CASE Maintaining
    <2>1. pc' \notin PathSteps /\ ctx' # "recover"
      <3>1. CASE EnterMaintenance
        BY <3>1 DEF EnterMaintenance
      <3>2. CASE MaintenanceExpires \/ HonourExit
        BY <3>2 DEF MaintenanceExpires, HonourExit
      <3>3. CASE HonourReboot
        BY <3>3 DEF HonourReboot, LoseRam
      <3>4. CASE RadioTestDone
        BY <3>4 DEF RadioTestDone
      <3>5. CASE FinishMaintenance
        BY <3>5 DEF FinishMaintenance
      <3>. QED  BY <1>3, <3>1, <3>2, <3>3, <3>4, <3>5 DEF Maintaining
    <2>. QED  BY <2>1, OffPath
  <1>. QED  BY <1>1, <1>2, <1>3

\* A countdown that has been set stays set while minutes pass, and no minute
\* changes what an alarm is programmed for.
LEMMA ElapsedKeepsArmed ==
  ASSUME NEW c \in Chip, NEW t \in Nat
  PROVE  /\ MinuteTimerArmed(c) => MinuteTimerArmed(MinuteElapsed(c, t))
         /\ MinuteTimerArmed(c) => MinuteTimerArmed(FastTimerElapsed(c))
         /\ \A target : AlarmArmedFor(c, target)
              => /\ AlarmArmedFor(MinuteElapsed(c, t), target)
                 /\ AlarmArmedFor(FastTimerElapsed(c), target)
  <1>1. ASSUME MinuteTimerArmed(c)
        PROVE  MinuteTimerArmed(MinuteElapsed(c, t))
    <2>1. /\ MinuteElapsed(c, t).timer = "minute"
          /\ "TF" \in MinuteElapsed(c, t).enabled
          /\ MinuteElapsed(c, t).reload = c.reload
      BY <1>1 DEF MinuteTimerArmed, MinuteElapsed, Chip
    <2>2. MinuteElapsed(c, t).count >= 1
      BY <1>1 DEF MinuteTimerArmed, MinuteElapsed, CountExpires, Chip
    <2>. QED  BY <1>1, <2>1, <2>2 DEF MinuteTimerArmed
  <1>2. MinuteTimerArmed(c) => MinuteTimerArmed(FastTimerElapsed(c))
    BY DEF MinuteTimerArmed, FastTimerElapsed, Chip
  <1>3. \A target : AlarmArmedFor(c, target)
          => /\ AlarmArmedFor(MinuteElapsed(c, t), target)
             /\ AlarmArmedFor(FastTimerElapsed(c), target)
    BY DEF AlarmArmedFor, MinuteElapsed, FastTimerElapsed, Chip
  <1>. QED  BY <1>1, <1>2, <1>3

\* Programming or disabling an alarm leaves the countdown alone.
LEMMA AlarmWritesKeepTimer ==
  ASSUME NEW c \in Chip, MinuteTimerArmed(c), NEW target, NEW writes
  PROVE  /\ MinuteTimerArmed(ConfigureAlarm(c, target, writes))
         /\ MinuteTimerArmed(DisableAlarm(c, writes))
  BY DEF MinuteTimerArmed, ConfigureAlarm, DisableAlarm, Chip

\* A failed attempt leaves the path; a recovery still has no schedule.
LEMMA WakeFailedPath ==
  ASSUME PathInv, WakeFailed, ram' = ram
  PROVE  PathInv'
  <1>1. pc' \notin PathSteps /\ (ctx' = ctx \/ ctx' = "cycle")
    BY DEF WakeFailed, PathSteps
  <1>2. ctx' # "recover" \/ ram'.sched # "pending"
    BY <1>1 DEF PathInv, AlarmSettled
  <1>. QED  BY <1>1, <1>2, OffPath

LEMMA TimerWritesArm ==
  ASSUME NEW c \in Chip, NEW minutes \in 1..255
  PROVE  MinuteTimerArmed(ConfigureTimer(c, "minute", minutes, 4))
  <1>. DEFINE on == c.enabled \union {"TF"}
              d == [c EXCEPT !.timer = "minute", !.count = minutes, !.reload = minutes,
                             !.enabled = on]
  <1>1. ConfigureTimer(c, "minute", minutes, 4) = d
    BY DEF ConfigureTimer
  <1>2. "TF" \in on
    OBVIOUS
  <1>. HIDE DEF on
  <1>3. d.timer = "minute" /\ d.count = minutes /\ d.reload = minutes /\ d.enabled = on
    BY DEF Chip
  <1>4. minutes >= 1
    OBVIOUS
  <1>. HIDE DEF d
  <1>. QED  BY <1>1, <1>2, <1>3, <1>4 DEF MinuteTimerArmed

\* Programming the countdown succeeds only with the countdown armed.
LEMMA ProgramTimerPath ==
  ASSUME TypeInv, PathInv, ProgramTimer
  PROVE  PathInv'
  <1>1. PICK w \in WriteOutcomes(TimerWrites) :
          /\ chip' = ConfigureTimer(chip, "minute", WakeMinutes, w.writes)
          /\ IF w.ok
               THEN WakeContinues(IF ram.sched = "pending" THEN "alarm" ELSE "alarmCheck")
               ELSE WakeFailed
    BY DEF ProgramTimer
  <1>2. ram' = ram
    BY DEF ProgramTimer, WakeStep
  <1>3. CASE ~w.ok
    BY <1>1, <1>2, <1>3, WakeFailedPath
  <1>4. CASE w.ok
    <2>1. w.writes = 4
      BY <1>4, WriteOutcomeTypes DEF TimerWrites
    <2>2. WakeMinutes \in 1..255
      BY WakeMinutesType DEF TypeInv
    <2>3. MinuteTimerArmed(chip')
      <3>1. chip \in Chip
        BY DEF TypeInv, TypeOK
      <3>. QED  BY <1>1, <2>1, <2>2, <3>1, TimerWritesArm
    <2>4. ctx' = ctx /\ pc' = (IF ram.sched = "pending" THEN "alarm" ELSE "alarmCheck")
      BY <1>1, <1>4 DEF WakeContinues
    <2>. QED  BY <1>2, <2>3, <2>4 DEF PathInv, WakeArmed, AlarmSettled, ReleaseSettled
  <1>. QED  BY <1>3, <1>4

\* So does programming the alarm of a pending schedule.
LEMMA ProgramAlarmPath ==
  ASSUME TypeInv, PathInv, ProgramAlarm
  PROVE  PathInv'
  <1>1. PICK w \in WriteOutcomes(AlarmWrites) :
          /\ chip' = IF ram.target = 0 THEN chip
                     ELSE ConfigureAlarm(chip, ram.target, w.writes)
          /\ IF w.ok /\ ram.target # 0 THEN WakeContinues("verify") ELSE WakeFailed
    BY DEF ProgramAlarm
  <1>2. ram' = ram
    BY DEF ProgramAlarm, WakeStep
  <1>3. CASE ~(w.ok /\ ram.target # 0)
    BY <1>1, <1>2, <1>3, WakeFailedPath
  <1>4. CASE w.ok /\ ram.target # 0
    <2>1. w.writes = AlarmWrites
      BY <1>4, WriteOutcomeTypes DEF AlarmWrites
    <2>2. AlarmArmedFor(chip', ram.target)
      BY <1>1, <1>4, <2>1 DEF ConfigureAlarm, AlarmArmedFor, AlarmWrites, TypeInv, TypeOK, Chip
    <2>3. MinuteTimerArmed(chip')
      BY <1>1, AlarmWritesKeepTimer
      DEF ProgramAlarm, PathInv, WakeArmed, TypeInv, TypeOK
    <2>4. ctx' = ctx /\ pc' = "verify"
      BY <1>1, <1>4 DEF WakeContinues
    <2>. QED  BY <1>2, <2>2, <2>3, <2>4 DEF PathInv, WakeArmed, AlarmSettled, ReleaseSettled
  <1>. QED  BY <1>3, <1>4

\* Without a pending schedule the alarm is none of the path's business.
LEMMA UnusedAlarmPath ==
  ASSUME TypeInv, PathInv, CheckAlarm \/ DisableUnusedAlarm
  PROVE  PathInv'
  <1>1. ram.sched # "pending" /\ ram' = ram /\ MinuteTimerArmed(chip)
    BY DEF CheckAlarm, DisableUnusedAlarm, WakeStep, PathInv, AlarmSettled, WakeArmed
  <1>2. MinuteTimerArmed(chip')
    BY <1>1, AlarmWritesKeepTimer DEF CheckAlarm, DisableUnusedAlarm, TypeInv, TypeOK
  <1>3. WakeFailed \/ (ctx' = ctx /\ pc' \in {"verify", "alarmOff"})
    BY DEF CheckAlarm, DisableUnusedAlarm, WakeContinues
  <1>4. CASE WakeFailed
    BY <1>1, <1>4, WakeFailedPath
  <1>5. CASE ctx' = ctx /\ pc' \in {"verify", "alarmOff"}
    BY <1>1, <1>2, <1>5 DEF PathInv, WakeArmed, AlarmSettled, ReleaseSettled
  <1>. QED  BY <1>3, <1>4, <1>5

\* The verified wake goes on to the release, or back to the fault loop's caller.
LEMMA VerifyWakePath ==
  ASSUME TypeInv, PathInv, VerifyWake
  PROVE  PathInv'
  <1>1. /\ ram' = ram /\ chip' = chip /\ MinuteTimerArmed(chip)
        /\ ram.sched = "pending" => AlarmArmedFor(chip, ram.target)
        /\ ctx = "recover" => ram.sched # "pending"
    BY DEF VerifyWake, WakeStep, PathInv, WakeArmed, AlarmSettled
  <1>2. CASE WakeFailed
    BY <1>1, <1>2, WakeFailedPath
  <1>3. CASE WakeProgrammed
    <2>1. /\ ctx' = "cycle"
          /\ \/ pc' = "inspect" \/ pc' = "persist"
             \/ pc' = "recheck" /\ ctx = "recover"
      BY <1>3 DEF WakeProgrammed
    <2>. QED  BY <1>1, <2>1 DEF PathInv, WakeArmed, AlarmSettled, ReleaseSettled
  <1>. QED  BY <1>2, <1>3 DEF VerifyWake

\* What is seen of AF before the release decides what becomes of a schedule.
LEMMA InspectPath ==
  ASSUME TypeInv, PathInv, InspectAlarm \/ RecheckStatus
  PROVE  PathInv'
  <1>. USE DEF PathInv, WakeArmed, AlarmSettled, ReleaseSettled
  <1>1. CASE InspectAlarm
    <2>1. chip' = chip /\ ctx # "recover"
      BY <1>1 DEF InspectAlarm, hardware, TypeInv, ContextSettled
    <2>2. \/ /\ pc' = "event" /\ ram' = ram /\ ctx' = ctx
             /\ "AF" \in seen'.flags => ram.sched # "pending"
          \/ pc' \in {"enter", "fault"} /\ ctx' = ctx
          \/ pc' = "timer" /\ ram'.sched = "failed"
      BY <1>1 DEF InspectAlarm, TypeInv, TypeOK, PersistentState
    <2>. QED  BY <1>1, <2>1, <2>2 DEF InspectAlarm
  <1>2. CASE RecheckStatus
    <2>1. /\ pc' \in {"event", "fault"} /\ ram' = ram /\ chip' = chip /\ ctx' = ctx
          /\ ram.sched # "pending"
      BY <1>2 DEF RecheckStatus, hardware
    <2>. QED  BY <1>2, <2>1 DEF RecheckStatus
  <1>. QED  BY <1>1, <1>2

\* The release acts on what flash holds, and only then is the path left.
LEMMA FinalStepsPath ==
  ASSUME TypeInv, PathInv,
         Persist \/ RecordEvent \/ Release \/ ReleaseRecorded \/ FaultRetry
  PROVE  PathInv'
  <1>1. CASE RecordEvent
    <2>1. chip' = chip /\ ram' = ram /\ ctx' = ctx /\ seen' = seen
      BY <1>1 DEF RecordEvent, hardware
    <2>2. pc = "event" /\ (pc' = "fault" \/ (pc' = "release" /\ nvs' = ram))
      BY <1>1 DEF RecordEvent, Commit
    <2>. QED  BY <2>1, <2>2 DEF PathInv, WakeArmed, AlarmSettled, ReleaseSettled
  <1>2. CASE Persist \/ Release \/ ReleaseRecorded \/ FaultRetry
    <2>1. pc' \notin PathSteps
      BY <1>2 DEF Persist, Release, ReleaseRecorded, FaultRetry, PathSteps
    <2>2. ctx' # "recover"
      BY <1>2 DEF Persist, Release, ReleaseRecorded, FaultRetry, TypeInv, ContextSettled
    <2>. QED  BY <2>1, <2>2, OffPath
  <1>. QED  BY <1>1, <1>2

LEMMA ShuttingDownPath ==
  ASSUME TypeInv, PathInv, ShuttingDown
  PROVE  PathInv'
  BY ProgramTimerPath, ProgramAlarmPath, UnusedAlarmPath, VerifyWakePath,
     InspectPath, FinalStepsPath
  DEF ShuttingDown

\* The portal only runs where there is no path, and the button is not part of it.
LEMMA OperatorPath ==
  ASSUME TypeInv, PathInv, Operator
  PROVE  PathInv'
  <1>1. CASE PressButton \/ ReleaseButton
    <2>1. UNCHANGED <<now, timeValid, chip, flash, pc, ctx, attempt, ram, seen, session>>
      BY <1>1 DEF PressButton, ReleaseButton
    <2>. QED  BY <2>1 DEF PathInv, WakeArmed, AlarmSettled, ReleaseSettled, flash
  <1>2. ASSUME PortalRuns, pc' = pc \/ pc' = "transmit", ctx' = ctx \/ ctx' = pc
        PROVE  PathInv'
    <2>1. pc' \notin PathSteps /\ ctx' # "recover"
      BY <1>2 DEF PortalRuns, PathSteps, TypeInv, ContextSettled
    <2>. QED  BY <2>1, OffPath
  <1>3. CASE RequestExit \/ MeasureNow \/ ApplyConfiguration \/ RadioTest
    BY <1>2, <1>3 DEF RequestExit, MeasureNow, ApplyConfiguration, RadioTest
  <1>4. ASSUME NEW mode \in RebootModes, PrepareReboot(mode)
        PROVE  PathInv'
    BY <1>2, <1>4 DEF PrepareReboot
  <1>. QED  BY <1>1, <1>3, <1>4 DEF Operator

\* A minute that passes, or a reset, does not break it either.
LEMMA EnvironmentPath ==
  ASSUME TypeInv, PathInv, Environment
  PROVE  PathInv'
  <1>1. CASE RailDrops \/ Reset
    BY <1>1, OffPath DEF RailDrops, Reset, LoseRam, PathSteps
  <1>2. CASE RailRises
    <2>1. pc' \notin PathSteps /\ ctx' # "recover"
      BY <1>2 DEF RailRises, Running, PathSteps, TypeInv, ContextSettled
    <2>. QED  BY <2>1, OffPath
  <1>3. CASE Tick \/ LatchTimerFires
    <2>1. UNCHANGED <<nvs, pc, ctx, ram, seen>>
      BY <1>3 DEF Tick, LatchTimerFires, flash
    <2>2. chip \in Chip /\ now + 1 \in Nat
      BY DEF TypeInv, TypeOK
    <2>3. \/ chip' = chip
          \/ chip' = MinuteElapsed(chip, now + 1)
          \/ chip' = FastTimerElapsed(chip)
      BY <1>3 DEF Tick, LatchTimerFires
    <2>4. /\ MinuteTimerArmed(chip) => MinuteTimerArmed(chip')
          /\ \A target : AlarmArmedFor(chip, target) => AlarmArmedFor(chip', target)
      BY <2>2, <2>3, ElapsedKeepsArmed
    <2>. QED  BY <2>1, <2>4 DEF PathInv, WakeArmed, AlarmSettled, ReleaseSettled
  <1>. QED  BY <1>1, <1>2, <1>3 DEF Environment

\* Wherever the program is on its way to the release, the countdown that will
\* wake the node is set, a pending schedule has its alarm, and the release acts
\* on what flash holds.
THEOREM ReleasePrepared == Spec => []ReleaseInv
  <1>1. Init => PathInv
    BY DEF Init, PathInv, WakeArmed, AlarmSettled, ReleaseSettled
  <1>2. TypeInv /\ PathInv /\ [Next]_vars => PathInv'
    <2>. SUFFICES ASSUME TypeInv, PathInv, [Next]_vars
                  PROVE  PathInv'
      OBVIOUS
    <2>1. CASE Firmware
      BY <2>1, OffPathSteps, ShuttingDownPath DEF Firmware
    <2>2. CASE Operator
      BY <2>2, OperatorPath
    <2>3. CASE Environment
      BY <2>3, EnvironmentPath
    <2>4. CASE UNCHANGED vars
      BY <2>4 DEF vars, hardware, flash, PathInv, WakeArmed, AlarmSettled, ReleaseSettled
    <2>. QED  BY <2>1, <2>2, <2>3, <2>4 DEF Next
  <1>3. TypeInv /\ PathInv => ReleaseInv
    BY DEF TypeInv, PathInv, ReleaseInv
  <1>4. Spec => []TypeInv
    BY TypeCorrect DEF TypeInv
  <1>. QED  BY <1>1, <1>2, <1>3, <1>4, PTL DEF Spec

-----------------------------------------------------------------------------
(* What a step may do to the latch *)

\* Nothing is taken back from INT.
IntKept(c, d) == c.flags \subseteq d.flags /\ c.enabled \subseteq d.enabled

\* No programming of a timer or of an alarm takes anything back from INT, nor
\* does the time that passes.
LEMMA ProgrammingKeepsInt ==
  ASSUME NEW c \in Chip
  PROVE  /\ \A source, value : \A writes \in 0..4 :
               IntKept(c, ConfigureTimer(c, source, value, writes))
         /\ \A target, writes : IntKept(c, ConfigureAlarm(c, target, writes))
         /\ \A t : IntKept(c, MinuteElapsed(c, t))
         /\ IntKept(c, FastTimerElapsed(c))
  <1>1. ASSUME NEW source, NEW value, NEW writes \in 0..4
        PROVE  IntKept(c, ConfigureTimer(c, source, value, writes))
    <2>. USE DEF IntKept, ConfigureTimer, Chip
    <2>1. CASE writes = 0
      BY <2>1
    <2>2. CASE writes = 1
      BY <2>2
    <2>3. CASE writes = 2
      BY <2>3
    <2>4. CASE writes = 3
      BY <2>4
    <2>5. CASE writes = 4
      BY <2>5
    <2>. QED  BY <2>1, <2>2, <2>3, <2>4, <2>5
  <1>2. ASSUME NEW target, NEW writes
        PROVE  IntKept(c, ConfigureAlarm(c, target, writes))
    BY DEF IntKept, ConfigureAlarm, Chip
  <1>3. ASSUME NEW t
        PROVE  IntKept(c, MinuteElapsed(c, t))
    BY DEF IntKept, MinuteElapsed, Chip
  <1>4. IntKept(c, FastTimerElapsed(c))
    BY DEF IntKept, FastTimerElapsed, Chip
  <1>. QED  BY <1>1, <1>2, <1>3, <1>4

\* The only steps that take something back are the final release and the
\* disabling of an unused alarm; elsewhere the chip is programmed or ticks.
LEMMA ChipStep ==
  ASSUME TypeInv, [Next]_vars
  PROVE  \/ chip' = chip
         \/ chip' = MinuteElapsed(chip, now + 1) \/ chip' = FastTimerElapsed(chip)
         \/ pc \in {"latch", "schedule", "timer", "alarm"} /\ IntKept(chip, chip')
         \/ DisableUnusedAlarm
         \/ Release
  <1>. DEFINE Goal == \/ chip' = chip
                      \/ chip' = MinuteElapsed(chip, now + 1)
                      \/ chip' = FastTimerElapsed(chip)
                      \/ /\ pc \in {"latch", "schedule", "timer", "alarm"}
                         /\ IntKept(chip, chip')
                      \/ DisableUnusedAlarm
                      \/ Release
  <1>0. chip \in Chip
    BY DEF TypeInv, TypeOK
  <1>1. CASE Booting
    <2>1. CASE ProgramLatch
      <3>1. PICK w \in WriteOutcomes(TimerWrites) :
              chip' = ConfigureTimer(chip, "64Hz", LatchCount, w.writes)
        BY <2>1 DEF ProgramLatch
      <3>2. w.writes \in 0..4
        BY WriteOutcomeTypes DEF TimerWrites
      <3>. QED  BY <1>0, <2>1, <3>1, <3>2, ProgrammingKeepsInt DEF ProgramLatch
    <2>2. CASE Boot \/ ConfirmLatch \/ LatchTimeout \/ LogBoot \/ DecideBoot
      BY <2>2 DEF Boot, ConfirmLatch, LatchTimeout, LogBoot, DecideBoot, hardware
    <2>. QED  BY <1>1, <2>1, <2>2 DEF Booting
  <1>2. CASE Cycling
    <2>1. CASE ProgramSchedule
      BY <1>0, <2>1, ProgrammingKeepsInt DEF ProgramSchedule
    <2>2. CASE Acquire \/ TransmitUnanswered \/ TransmitAnswered \/ Store
      BY <2>2 DEF Acquire, TransmitUnanswered, TransmitAnswered, Store, hardware
    <2>3. CASE CommandNone \/ CommandEnter \/ CommandPoll
      BY <2>3 DEF CommandNone, CommandEnter, CommandPoll, hardware
    <2>4. ASSUME NEW target \in Targets, CommandSchedule(target)
          PROVE  chip' = chip
      BY <2>4 DEF CommandSchedule, hardware
    <2>. QED  BY <1>2, <2>1, <2>2, <2>3, <2>4 DEF Cycling, Commands
  <1>3. CASE Maintaining
    BY <1>3 DEF Maintaining, EnterMaintenance, MaintenanceExpires, HonourExit,
                HonourReboot, RadioTestDone, FinishMaintenance, hardware
  <1>4. CASE ShuttingDown
    <2>1. CASE ProgramTimer
      <3>1. PICK w \in WriteOutcomes(TimerWrites) :
              chip' = ConfigureTimer(chip, "minute", WakeMinutes, w.writes)
        BY <2>1 DEF ProgramTimer
      <3>2. w.writes \in 0..4
        BY WriteOutcomeTypes DEF TimerWrites
      <3>. QED  BY <1>0, <2>1, <3>1, <3>2, ProgrammingKeepsInt DEF ProgramTimer
    <2>2. CASE ProgramAlarm
      BY <1>0, <2>2, ProgrammingKeepsInt DEF ProgramAlarm
    <2>3. CASE CheckAlarm \/ VerifyWake
      BY <2>3 DEF CheckAlarm, VerifyWake
    <2>4. CASE Persist \/ InspectAlarm \/ RecheckStatus \/ RecordEvent
               \/ ReleaseRecorded \/ FaultRetry
      BY <2>4 DEF Persist, InspectAlarm, RecheckStatus, RecordEvent,
                  ReleaseRecorded, FaultRetry, hardware
    <2>. QED  BY <1>4, <2>1, <2>2, <2>3, <2>4 DEF ShuttingDown
  <1>5. CASE Operator
    BY <1>5 DEF Operator, PressButton, ReleaseButton, RequestExit, MeasureNow,
                ApplyConfiguration, RadioTest, PrepareReboot, hardware
  <1>6. CASE Environment
    BY <1>6 DEF Environment, RailDrops, RailRises, Reset, Tick, LatchTimerFires, hardware
  <1>7. CASE UNCHANGED vars
    BY <1>7 DEF vars, hardware
  <1>. QED  BY <1>1, <1>2, <1>3, <1>4, <1>5, <1>6, <1>7 DEF Next, Firmware

\* Only a step that is not the release or the disabling of an alarm keeps INT.
LEMMA IntKeptLow ==
  ASSUME NEW c, NEW d, IntKept(c, d), IntLow(c)
  PROVE  IntLow(d)
  BY DEF IntKept, IntLow

\* INT is only ever given up by a chip whose countdown will assert it again.
THEOREM PowerNeverLost == Spec => PowerGivenUpArmed
  <1>1. TypeInv /\ ReleaseInv /\ [Next]_vars
          => (IntLow(chip) /\ ~IntLow(chip') => MinuteTimerArmed(chip'))
    <2>. SUFFICES ASSUME TypeInv, ReleaseInv, [Next]_vars, IntLow(chip), ~IntLow(chip')
                  PROVE  MinuteTimerArmed(chip')
      OBVIOUS
    <2>1. chip \in Chip
      BY DEF TypeInv, TypeOK
    <2>2. ~IntKept(chip, chip')
      BY IntKeptLow
    <2>3. DisableUnusedAlarm \/ Release
      BY <2>1, <2>2, ChipStep, ProgrammingKeepsInt DEF IntKept
    <2>4. CASE DisableUnusedAlarm
      BY <2>1, <2>4, AlarmWritesKeepTimer DEF DisableUnusedAlarm, ReleaseInv, WakeArmed
    <2>5. CASE Release
      <3>1. MinuteTimerArmed(chip)
        BY <2>5 DEF Release, ReleaseInv, WakeArmed
      <3>2. \A cleared, disable :
              MinuteTimerArmed(ReleaseInterruptFlags(chip, cleared, disable))
        BY <2>1, <3>1 DEF MinuteTimerArmed, ReleaseInterruptFlags, Chip
      <3>. QED  BY <2>5, <3>1, <3>2 DEF Release
    <2>. QED  BY <2>3, <2>4, <2>5
  <1>2. Spec => [](TypeInv /\ ReleaseInv)
    BY TypeCorrect, ReleasePrepared, PTL DEF TypeInv
  <1>. QED  BY <1>1, <1>2, PTL DEF Spec, PowerGivenUpArmed

\* The evidence of a due alarm survives as long as its schedule is pending.
THEOREM AlarmEvidenceKept == Spec => AlarmFlagKept
  <1>1. TypeInv /\ ReleaseInv /\ [Next]_vars
          => ("AF" \in chip.flags \ chip'.flags => nvs.sched # "pending")
    <2>. SUFFICES ASSUME TypeInv, ReleaseInv, [Next]_vars, "AF" \in chip.flags \ chip'.flags
                  PROVE  nvs.sched # "pending"
      OBVIOUS
    <2>1. chip \in Chip
      BY DEF TypeInv, TypeOK
    <2>2. DisableUnusedAlarm \/ Release
      BY <2>1, ChipStep, ProgrammingKeepsInt DEF IntKept
    <2>3. ~DisableUnusedAlarm
      BY <2>1 DEF DisableUnusedAlarm, DisableAlarm, Chip
    <2>4. "AF" \in seen.flags
      <3>1. chip' = ReleaseInterruptFlags(chip, seen.flags, ram.sched # "pending")
        BY <2>2, <2>3 DEF Release
      <3>2. \A disable : ReleaseInterruptFlags(chip, seen.flags, disable).flags
                            = chip.flags \ seen.flags
        BY <2>1 DEF ReleaseInterruptFlags, Chip
      <3>. QED  BY <3>1, <3>2
    <2>5. nvs = ram /\ ram.sched # "pending"
      BY <2>2, <2>3, <2>4 DEF Release, ReleaseInv, ReleaseSettled
    <2>. QED  BY <2>5
  <1>2. Spec => [](TypeInv /\ ReleaseInv)
    BY TypeCorrect, ReleasePrepared, PTL DEF TypeInv
  <1>. QED  BY <1>1, <1>2, PTL DEF Spec, AlarmFlagKept

\* A node that gives up its power with a schedule pending has its alarm armed.
THEOREM ScheduleKeepsItsAlarm == Spec => ReleaseKeepsAlarm
  <1>1. TypeInv /\ ReleaseInv /\ [Next]_vars
          => (pc = "release" /\ nvs.sched = "pending" /\ ~IntLow(chip')
                => AlarmArmedFor(chip', nvs.target))
    <2>. SUFFICES ASSUME TypeInv, ReleaseInv, [Next]_vars, pc = "release",
                         nvs.sched = "pending"
                  PROVE  AlarmArmedFor(chip', nvs.target)
      OBVIOUS
    <2>1. chip \in Chip /\ now + 1 \in Nat
      BY DEF TypeInv, TypeOK
    <2>2. ram.sched = "pending" /\ AlarmArmedFor(chip, nvs.target)
      BY DEF ReleaseInv, ReleaseSettled, AlarmSettled
    <2>3. CASE Release
      <3>1. chip' = chip \/ chip' = ReleaseInterruptFlags(chip, seen.flags, FALSE)
        BY <2>2, <2>3 DEF Release
      <3>. QED  BY <2>1, <2>2, <3>1 DEF ReleaseInterruptFlags, AlarmArmedFor, Chip
    <2>4. CASE ~Release
      <3>1. ~DisableUnusedAlarm
        BY DEF DisableUnusedAlarm
      <3>2. \/ chip' = chip
            \/ chip' = MinuteElapsed(chip, now + 1) \/ chip' = FastTimerElapsed(chip)
        BY <2>4, <3>1, ChipStep
      <3>. QED  BY <2>1, <2>2, <3>2, ElapsedKeepsArmed
    <2>. QED  BY <2>3, <2>4
  <1>2. Spec => [](TypeInv /\ ReleaseInv)
    BY TypeCorrect, ReleasePrepared, PTL DEF TypeInv
  <1>. QED  BY <1>1, <1>2, PTL DEF Spec, ReleaseKeepsAlarm

-----------------------------------------------------------------------------
(* The persistent image *)

\* The window and the marker of the RAM image stay, and flash keeps its image or
\* takes this one.
ImageKept ==
  /\ ram'.active = ram.active /\ ram'.deadline = ram.deadline
  /\ ram'.expected = ram.expected
  /\ ready' = ready
  /\ nvs' \in {nvs, ram'}

\* The processor starts anew, and flash stays as it is.
Restart == RailDrops \/ HonourReboot \/ Reset

\* Only these steps touch the window or the marker.
ImageActions ==
  \/ Boot \/ LogBoot \/ TransmitAnswered \/ EnterMaintenance \/ FinishMaintenance
  \/ \E mode \in RebootModes : PrepareReboot(mode)
  \/ Restart

LEMMA ImageStep ==
  ASSUME TypeInv, [Next]_vars
  PROVE  ImageKept \/ ImageActions
  <1>0. ram \in PersistentState
    BY DEF TypeInv, TypeOK
  <1>. USE DEF ImageActions
  <1>1. ASSUME ready' = ready, ram' = ram, nvs' = nvs \/ \E ok : Commit(ram, ok)
        PROVE  ImageKept
    BY <1>1 DEF ImageKept, Commit
  <1>2. ASSUME ready' = ready,
               ram' = ram \/ \E x, y : ram' = [ram EXCEPT !.sched = x, !.target = y],
               nvs' = nvs \/ \E ok : Commit(ram', ok)
        PROVE  ImageKept
    BY <1>0, <1>2 DEF ImageKept, Commit, PersistentState
  <1>3. ASSUME ready' = ready,
               ram' = ram \/ \E x : ram' = [ram EXCEPT !.sched = x],
               nvs' = nvs \/ \E ok : Commit(ram', ok)
        PROVE  ImageKept
    BY <1>0, <1>3 DEF ImageKept, Commit, PersistentState
  <1>4. CASE Booting
    <2>1. CASE ProgramLatch \/ ConfirmLatch \/ LatchTimeout
      BY <1>1, <2>1 DEF ProgramLatch, ConfirmLatch, LatchTimeout, flash, session
    <2>2. CASE DecideBoot
      <3>1. /\ ready' = ready
            /\ ram' = ram \/ ram' = [ram EXCEPT !.sched = "failed"]
            /\ nvs' = nvs \/ \E ok : Commit(ram', ok)
        BY <2>2 DEF DecideBoot, session
      <3>. QED  BY <1>3, <3>1
    <2>. QED  BY <1>4, <2>1, <2>2 DEF Booting
  <1>5. CASE Cycling
    <2>1. CASE Acquire \/ CommandEnter \/ CommandPoll \/ Store
      BY <1>1, <2>1 DEF Acquire, CommandEnter, CommandPoll, Store
    <2>2. CASE TransmitUnanswered \/ CommandNone
      BY <1>1, <2>2 DEF TransmitUnanswered, CommandNone, flash, session
    <2>3. ASSUME NEW target \in Targets, CommandSchedule(target)
          PROVE  ImageKept
      <3>1. /\ ready' = ready
            /\ ram' = ram \/ ram' = [ram EXCEPT !.sched = "pending", !.target = target]
            /\ nvs' = nvs \/ \E ok : Commit(ram', ok)
        BY <2>3 DEF CommandSchedule, session
      <3>. QED  BY <1>2, <3>1
    <2>4. CASE ProgramSchedule
      <3>1. /\ ready' = ready
            /\ ram' = ram \/ ram' = [ram EXCEPT !.sched = "failed"]
            /\ \E ok : Commit(ram', ok)
        BY <2>4 DEF ProgramSchedule, session
      <3>. QED  BY <1>3, <3>1
    <2>. QED  BY <1>5, <2>1, <2>2, <2>3, <2>4 DEF Cycling, Commands
  <1>6. CASE Maintaining
    <2>1. CASE MaintenanceExpires \/ HonourExit
      BY <1>1, <2>1 DEF MaintenanceExpires, HonourExit, flash, session
    <2>2. CASE HonourReboot
      BY <2>2 DEF Restart
    <2>3. CASE RadioTestDone
      BY <1>1, <2>3 DEF RadioTestDone
    <2>. QED  BY <1>6, <2>1, <2>2, <2>3 DEF Maintaining
  <1>7. CASE ShuttingDown
    <2>1. CASE Persist \/ RecordEvent \/ Release \/ ReleaseRecorded
      BY <1>1, <2>1 DEF Persist, RecordEvent, Release, ReleaseRecorded, session
    <2>2. CASE ProgramTimer \/ ProgramAlarm \/ CheckAlarm \/ DisableUnusedAlarm \/ VerifyWake
      <3>1. ram' = ram /\ ready' = ready
        BY <2>2 DEF ProgramTimer, ProgramAlarm, CheckAlarm, DisableUnusedAlarm,
                    VerifyWake, WakeStep
      <3>2. nvs' = nvs \/ \E ok : Commit(ram, ok)
        BY <2>2 DEF ProgramTimer, ProgramAlarm, CheckAlarm, DisableUnusedAlarm,
                    VerifyWake, WakeContinues, WakeFailed, WakeProgrammed
      <3>. QED  BY <1>1, <3>1, <3>2
    <2>3. CASE InspectAlarm
      <3>1. /\ ready' = ready
            /\ ram' = ram \/ ram' = [ram EXCEPT !.sched = "failed"]
            /\ nvs' = nvs \/ \E ok : Commit(ram', ok)
        BY <2>3 DEF InspectAlarm
      <3>. QED  BY <1>3, <3>1
    <2>4. CASE RecheckStatus \/ FaultRetry
      BY <1>1, <2>4 DEF RecheckStatus, FaultRetry, flash, session
    <2>. QED  BY <1>7, <2>1, <2>2, <2>3, <2>4 DEF ShuttingDown
  <1>8. CASE Operator
    <2>1. CASE PressButton \/ ReleaseButton \/ RequestExit \/ ApplyConfiguration
      BY <1>1, <2>1 DEF PressButton, ReleaseButton, RequestExit, ApplyConfiguration,
                        flash, session
    <2>2. CASE MeasureNow \/ RadioTest
      BY <1>1, <2>2 DEF MeasureNow, RadioTest, session
    <2>. QED  BY <1>8, <2>1, <2>2 DEF Operator
  <1>9. CASE Environment
    <2>1. CASE RailDrops \/ Reset
      BY <2>1 DEF Restart
    <2>2. CASE RailRises \/ Tick \/ LatchTimerFires
      BY <1>1, <2>2 DEF RailRises, Tick, LatchTimerFires, flash, session
    <2>. QED  BY <1>9, <2>1, <2>2 DEF Environment
  <1>10. CASE UNCHANGED vars
    BY <1>1, <1>10 DEF vars, flash, session
  <1>. QED  BY <1>4, <1>5, <1>6, <1>7, <1>8, <1>9, <1>10 DEF Next, Firmware

-----------------------------------------------------------------------------
(* The latch: LatchInv is inductive while no bus transfer fails and the     *)
(* portal reboots nothing                                                   *)

\* The steps at which the latch is not to be lost, and the fault loop.
Held == HoldingSteps \union {"fault"}

\* TF is never set without its interrupt.
TimerEnabled(c) == c.timer # "off" \/ "TF" \in c.flags => "TF" \in c.enabled

Lit(c) == IntLow(c) \/ "AF" \in c.flags \ c.enabled

\* A bus that does not fail performs every write, and reports what is there.
LEMMA BusIsSound ==
  ASSUME "i2c" \notin Faults
  PROVE  /\ \A n : \A w \in WriteOutcomes(n) : w.ok /\ w.writes = n
         /\ \A s \in Observations : s.comm = "ok" /\ s.flags = chip.flags
  BY DEF WriteOutcomes, Observations

\* What only adds to INT takes neither the latch nor an orphaned alarm away.
LEMMA LitKept ==
  ASSUME NEW c, NEW d, IntKept(c, d), Lit(c)
  PROVE  Lit(d)
  BY DEF IntKept, Lit, IntLow

\* A step that adds to INT and comes from a held step keeps the invariant.
LEMMA LatchStays ==
  ASSUME LatchInv, IntKept(chip, chip'), TimerEnabled(chip'),
         pc' \in Held => pc \in Held,
         pc' = "alarmOff" => pc = "alarmOff",
         nvs'.expected = "none" /\ ram'.expected = "none"
  PROVE  LatchInv'
  <1>1. pc' \in Held => Lit(chip')
    BY LitKept DEF LatchInv, Lit, OrphanedAlarm, Held
  <1>2. pc' = "alarmOff" => "TF" \in chip'.flags
    BY DEF LatchInv, IntKept
  <1>. QED  BY <1>1, <1>2 DEF LatchInv, Lit, OrphanedAlarm, Held, TimerEnabled

\* The same of a step that leaves the chip alone.
LEMMA LatchUntouched ==
  ASSUME LatchInv, chip' = chip,
         pc' \in Held => pc \in Held,
         pc' = "alarmOff" => pc = "alarmOff",
         nvs'.expected = "none" /\ ram'.expected = "none"
  PROVE  LatchInv'
  BY LatchStays DEF LatchInv, IntKept, TimerEnabled

\* Without a reboot by the portal no image ever holds a marker.
LEMMA NoMarker ==
  ASSUME TypeInv, LatchInv, RebootModes = {}, [Next]_vars
  PROVE  nvs'.expected = "none" /\ ram'.expected = "none"
  <1>0. /\ ram \in PersistentState /\ nvs.expected = "none" /\ ram.expected = "none"
        /\ FreshState.expected = "none"
    BY DEF TypeInv, TypeOK, LatchInv, FreshState
  <1>1. CASE ImageKept
    BY <1>0, <1>1 DEF ImageKept
  <1>2. CASE Boot
    BY <1>0, <1>2 DEF Boot
  <1>3. CASE LogBoot
    <2>1. ram'.expected = "none"
      BY <1>0, <1>3 DEF LogBoot, PersistentState
    <2>. QED  BY <1>0, <1>3, <2>1 DEF LogBoot, Commit
  <1>4. CASE TransmitAnswered
    <2>1. nvs' = nvs /\ (ram' = ram \/ \E d : ram' = [ram EXCEPT !.deadline = d])
      BY <1>4 DEF TransmitAnswered, flash
    <2>. QED  BY <1>0, <2>1 DEF PersistentState
  <1>5. CASE EnterMaintenance
    <2>1. /\ ram' = ram \/ \E d : ram' = [ram EXCEPT !.active = TRUE, !.deadline = d]
          /\ nvs' = nvs \/ \E ok : Commit(ram', ok)
      BY <1>5 DEF EnterMaintenance
    <2>2. ram'.expected = "none"
      BY <1>0, <2>1 DEF PersistentState
    <2>. QED  BY <1>0, <2>1, <2>2 DEF Commit
  <1>6. CASE FinishMaintenance
    <2>1. /\ ram' = ram \/ \E x : ram' = [ram EXCEPT !.active = FALSE, !.deadline = 0,
                                                     !.sched = x]
          /\ nvs' = nvs \/ \E ok : Commit(ram', ok)
      BY <1>6 DEF FinishMaintenance
    <2>2. ram'.expected = "none"
      BY <1>0, <2>1 DEF PersistentState
    <2>. QED  BY <1>0, <2>1, <2>2 DEF Commit
  <1>7. CASE Restart
    BY <1>0, <1>7 DEF Restart, RailDrops, HonourReboot, Reset, LoseRam, flash
  <1>. QED  BY <1>1, <1>2, <1>3, <1>4, <1>5, <1>6, <1>7, ImageStep DEF ImageActions

\* What programming, disabling and time do to the chip leaves TF its interrupt.
LEMMA TimerEnabledKept ==
  ASSUME NEW c \in Chip
  PROVE  /\ \A source, value : TimerEnabled(ConfigureTimer(c, source, value, 4))
         /\ TimerEnabled(c) =>
              /\ \A target, writes : /\ TimerEnabled(ConfigureAlarm(c, target, writes))
                                     /\ TimerEnabled(DisableAlarm(c, writes))
              /\ \A t : TimerEnabled(MinuteElapsed(c, t))
              /\ c.timer = "64Hz" => TimerEnabled(FastTimerElapsed(c))
              /\ \A cleared, disable : TimerEnabled(ReleaseInterruptFlags(c, cleared, disable))
  <1>1. ASSUME NEW source, NEW value
        PROVE  TimerEnabled(ConfigureTimer(c, source, value, 4))
    <2>. DEFINE on == c.enabled \union {"TF"}
    <2>1. ConfigureTimer(c, source, value, 4)
            = [c EXCEPT !.timer = source, !.count = value, !.reload = value, !.enabled = on]
      BY DEF ConfigureTimer
    <2>2. "TF" \in on
      OBVIOUS
    <2>. HIDE DEF on
    <2>3. ConfigureTimer(c, source, value, 4).enabled = on
      BY <2>1 DEF Chip
    <2>. QED  BY <2>2, <2>3 DEF TimerEnabled
  <1>2. ASSUME TimerEnabled(c), NEW target, NEW writes
        PROVE  /\ TimerEnabled(ConfigureAlarm(c, target, writes))
               /\ TimerEnabled(DisableAlarm(c, writes))
    BY <1>2 DEF TimerEnabled, ConfigureAlarm, DisableAlarm, Chip
  <1>3. ASSUME TimerEnabled(c), NEW t
        PROVE  TimerEnabled(MinuteElapsed(c, t))
    BY <1>3 DEF TimerEnabled, MinuteElapsed, FlagsRaised, CountExpires, Chip
  <1>4. ASSUME TimerEnabled(c), c.timer = "64Hz"
        PROVE  TimerEnabled(FastTimerElapsed(c))
    BY <1>4 DEF TimerEnabled, FastTimerElapsed, Chip
  <1>5. ASSUME TimerEnabled(c), NEW cleared, NEW disable
        PROVE  TimerEnabled(ReleaseInterruptFlags(c, cleared, disable))
    BY <1>5 DEF TimerEnabled, ReleaseInterruptFlags, Chip
  <1>. QED  BY <1>1, <1>2, <1>3, <1>4, <1>5

\* A boot that programs no latch has seen a flag: AF, or TF, which has its
\* interrupt.  One that does is over when the chip asserts TF.
LEMMA BootingHolds ==
  ASSUME "i2c" \notin Faults, TypeInv, LatchInv,
         nvs'.expected = "none" /\ ram'.expected = "none", Booting
  PROVE  LatchInv'
  <1>0. chip \in Chip /\ TimerEnabled(chip)
    BY DEF TypeInv, TypeOK, LatchInv, TimerEnabled
  <1>1. CASE Boot
    <2>1. chip' = chip /\ pc = "boot" /\ pc' \in {"latch", "bootLog"}
      BY <1>1 DEF Boot, hardware
    <2>2. pc' = "bootLog" => Lit(chip)
      <3>1. PICK s \in Observations, marker \in {"none"}, state \in {nvs, FreshState} :
              pc' = IF Classify(s, marker, state) = "manual" THEN "latch" ELSE "bootLog"
        BY <1>1 DEF Boot, LatchInv, FreshState
      <3>2. s.comm = "ok" /\ s.flags = chip.flags
        BY BusIsSound
      <3>3. pc' = "bootLog" => "AF" \in chip.flags \/ "TF" \in chip.flags
        BY <3>1, <3>2 DEF Classify
      <3>. QED  BY <1>0, <3>3 DEF Lit, IntLow, TimerEnabled
    <2>. QED  BY <1>0, <2>1, <2>2 DEF LatchInv, Lit, OrphanedAlarm, TimerEnabled, HoldingSteps
  <1>2. CASE ProgramLatch
    <2>1. PICK w \in WriteOutcomes(TimerWrites) :
            /\ chip' = ConfigureTimer(chip, "64Hz", LatchCount, w.writes)
            /\ pc' = IF w.ok THEN "latchWait" ELSE "bootLog"
      BY <1>2 DEF ProgramLatch
    <2>2. w.ok /\ w.writes = 4
      BY BusIsSound DEF TimerWrites
    <2>3. pc' = "latchWait" /\ TimerEnabled(chip')
      BY <1>0, <2>1, <2>2, TimerEnabledKept
    <2>. QED  BY <2>3 DEF LatchInv, HoldingSteps, TimerEnabled
  <1>3. CASE ConfirmLatch
    <2>1. chip' = chip /\ pc' = "bootLog" /\ IntLow(chip)
      BY <1>3 DEF ConfirmLatch, hardware, IntLow
    <2>. QED  BY <1>0, <2>1 DEF LatchInv, TimerEnabled
  <1>4. CASE LogBoot \/ DecideBoot
    <2>1. chip' = chip /\ pc \in Held /\ pc' # "alarmOff"
      BY <1>4 DEF LogBoot, DecideBoot, hardware, Held, HoldingSteps, Steps
    <2>. QED  BY <2>1, LatchUntouched
  <1>5. ~LatchTimeout
    BY DEF LatchTimeout
  <1>. QED  BY <1>1, <1>2, <1>3, <1>4, <1>5 DEF Booting

\* A cycle, a window and a shutdown are made of held steps, up to the release.
LEMMA HeldSteps ==
  ASSUME TypeInv, Cycling \/ Maintaining \/ ShuttingDown
  PROVE  pc \in Held \/ ReleaseRecorded
  <1>. USE DEF Held, HoldingSteps, Steps
  <1>1. CASE Cycling
    <2>1. CASE Acquire \/ TransmitUnanswered \/ TransmitAnswered \/ Store
      BY <2>1 DEF Acquire, TransmitUnanswered, TransmitAnswered, Store
    <2>2. CASE CommandNone \/ CommandEnter \/ CommandPoll \/ ProgramSchedule
      BY <2>2 DEF CommandNone, CommandEnter, CommandPoll, ProgramSchedule
    <2>3. ASSUME NEW target \in Targets, CommandSchedule(target)
          PROVE  pc \in Held
      BY <2>3 DEF CommandSchedule
    <2>. QED  BY <1>1, <2>1, <2>2, <2>3 DEF Cycling, Commands
  <1>2. CASE Maintaining
    BY <1>2 DEF Maintaining, EnterMaintenance, MaintenanceExpires, HonourExit,
                HonourReboot, RadioTestDone, FinishMaintenance
  <1>3. CASE ShuttingDown
    BY <1>3 DEF ShuttingDown, Persist, ProgramTimer, ProgramAlarm, CheckAlarm,
                DisableUnusedAlarm, VerifyWake, InspectAlarm, RecheckStatus,
                RecordEvent, Release, FaultRetry
  <1>. QED  BY <1>1, <1>2, <1>3

\* A cycle and a window run on the latch they started with.
LEMMA RunningHolds ==
  ASSUME "i2c" \notin Faults, TypeInv, LatchInv,
         nvs'.expected = "none" /\ ram'.expected = "none",
         Cycling \/ Maintaining \/ Operator, RebootModes = {}
  PROVE  LatchInv'
  <1>0. chip \in Chip /\ TimerEnabled(chip) /\ pc \in Steps
    BY DEF TypeInv, TypeOK, LatchInv, TimerEnabled
  <1>1. CASE ProgramSchedule
    <2>1. /\ \E writes : chip' = ConfigureAlarm(chip, ram.target, writes)
          /\ pc \in Held /\ pc' # "alarmOff"
      BY <1>1 DEF ProgramSchedule, ExchangeEnds, Held, HoldingSteps, Steps
    <2>2. IntKept(chip, chip') /\ TimerEnabled(chip')
      BY <1>0, <2>1, ProgrammingKeepsInt, TimerEnabledKept
    <2>. QED  BY <2>1, <2>2, LatchStays
  <1>2. CASE Cycling /\ ~ProgramSchedule
    <2>1. chip' = chip
      <3>1. CASE Acquire \/ TransmitUnanswered \/ TransmitAnswered \/ Store
        BY <3>1 DEF Acquire, TransmitUnanswered, TransmitAnswered, Store, hardware
      <3>2. CASE CommandNone \/ CommandEnter \/ CommandPoll
        BY <3>2 DEF CommandNone, CommandEnter, CommandPoll, hardware
      <3>3. ASSUME NEW target \in Targets, CommandSchedule(target)
            PROVE  chip' = chip
        BY <3>3 DEF CommandSchedule, hardware
      <3>. QED  BY <1>2, <3>1, <3>2, <3>3 DEF Cycling, Commands
    <2>2. pc' # "alarmOff"
      <3>. USE DEF ExchangeEnds, TypeInv, ContextSettled
      <3>1. CASE Acquire \/ TransmitUnanswered \/ TransmitAnswered \/ Store
        BY <3>1 DEF Acquire, TransmitUnanswered, TransmitAnswered, Store
      <3>2. CASE CommandNone \/ CommandEnter \/ CommandPoll
        BY <3>2 DEF CommandNone, CommandEnter, CommandPoll
      <3>3. ASSUME NEW target \in Targets, CommandSchedule(target)
            PROVE  pc' # "alarmOff"
        BY <3>3 DEF CommandSchedule
      <3>. QED  BY <1>2, <3>1, <3>2, <3>3 DEF Cycling, Commands
    <2>3. pc \in Held \/ pc' \notin Held
      BY <1>2, HeldSteps DEF ReleaseRecorded, Held, HoldingSteps
    <2>. QED  BY <2>1, <2>2, <2>3, LatchUntouched
  <1>3. CASE Maintaining
    <2>1. chip' = chip
      BY <1>3 DEF Maintaining, EnterMaintenance, MaintenanceExpires, HonourExit,
                  HonourReboot, RadioTestDone, FinishMaintenance, hardware
    <2>2. pc \in Held /\ pc' # "alarmOff"
      BY <1>3 DEF Maintaining, EnterMaintenance, MaintenanceExpires, HonourExit,
                  HonourReboot, RadioTestDone, FinishMaintenance,
                  Held, HoldingSteps, Steps, TypeInv, ContextSettled
    <2>. QED  BY <2>1, <2>2, LatchUntouched
  <1>4. CASE Operator
    <2>1. chip' = chip
      BY <1>4 DEF Operator, PressButton, ReleaseButton, RequestExit, MeasureNow,
                  ApplyConfiguration, RadioTest, PrepareReboot, hardware
    <2>2. pc' = pc \/ (pc \in Held /\ pc' = "transmit")
      BY <1>4 DEF Operator, PressButton, ReleaseButton, RequestExit, MeasureNow,
                  ApplyConfiguration, RadioTest, PrepareReboot, PortalRuns,
                  Held, HoldingSteps, Steps
    <2>. QED  BY <2>1, <2>2, LatchUntouched
  <1>. QED  BY <1>1, <1>2, <1>3, <1>4

\* On the way to the release the alarm is only disabled while TF is set.
LEMMA ShuttingDownHolds ==
  ASSUME "i2c" \notin Faults, TypeInv, LatchInv,
         nvs'.expected = "none" /\ ram'.expected = "none", ShuttingDown
  PROVE  LatchInv'
  <1>0. chip \in Chip /\ TimerEnabled(chip)
    BY DEF TypeInv, TypeOK, LatchInv, TimerEnabled
  <1>1. CASE ProgramTimer
    <2>1. PICK w \in WriteOutcomes(TimerWrites) :
            /\ chip' = ConfigureTimer(chip, "minute", WakeMinutes, w.writes)
            /\ w.ok => pc' \in {"alarm", "alarmCheck"}
      BY <1>1 DEF ProgramTimer, WakeContinues
    <2>2. w.ok /\ w.writes = 4
      BY BusIsSound DEF TimerWrites
    <2>3. IntKept(chip, chip') /\ TimerEnabled(chip')
      BY <1>0, <2>1, <2>2, ProgrammingKeepsInt, TimerEnabledKept
    <2>4. pc \in Held /\ pc' # "alarmOff"
      BY <1>1, <2>1, <2>2 DEF ProgramTimer, Held, HoldingSteps, Steps
    <2>. QED  BY <2>3, <2>4, LatchStays
  <1>2. CASE ProgramAlarm
    <2>1. \/ chip' = chip
          \/ \E writes : chip' = ConfigureAlarm(chip, ram.target, writes)
      BY <1>2 DEF ProgramAlarm
    <2>2. IntKept(chip, chip') /\ TimerEnabled(chip')
      BY <1>0, <2>1, ProgrammingKeepsInt, TimerEnabledKept DEF IntKept
    <2>3. pc \in Held /\ pc' # "alarmOff"
      BY <1>2 DEF ProgramAlarm, WakeContinues, WakeFailed, Held, HoldingSteps, Steps
    <2>. QED  BY <2>2, <2>3, LatchStays
  <1>3. CASE CheckAlarm
    <2>1. chip' = chip /\ pc \in Held
      BY <1>3 DEF CheckAlarm, Held, HoldingSteps, Steps
    <2>2. pc' = "alarmOff" => "TF" \in chip.flags
      <3>1. Lit(chip)
        BY <2>1 DEF LatchInv, Lit, OrphanedAlarm, Held
      <3>2. pc' = "alarmOff" => "AF" \notin chip.flags
        BY <1>3 DEF CheckAlarm, AlarmSpared, WakeContinues
      <3>. QED  BY <1>0, <3>1, <3>2 DEF Lit, IntLow, Chip, Flags
    <2>. QED  BY <2>1, <2>2 DEF LatchInv, OrphanedAlarm, Held
  <1>4. CASE DisableUnusedAlarm
    <2>1. /\ pc = "alarmOff" /\ pc' # "alarmOff"
          /\ \E writes : chip' = DisableAlarm(chip, writes)
      BY <1>4 DEF DisableUnusedAlarm, WakeContinues, WakeFailed
    <2>2. "TF" \in chip.flags /\ "TF" \in chip.enabled
      BY <2>1 DEF LatchInv
    <2>3. "TF" \in chip'.flags /\ "TF" \in chip'.enabled
      BY <1>0, <2>1, <2>2 DEF DisableAlarm, Chip
    <2>. QED  BY <2>1, <2>3 DEF LatchInv, IntLow
  <1>5. CASE VerifyWake
    <2>1. chip' = chip /\ pc \in Held /\ pc' # "alarmOff"
      BY <1>5 DEF VerifyWake, WakeProgrammed, WakeFailed, Held, HoldingSteps, Steps
    <2>. QED  BY <2>1, LatchUntouched
  <1>6. CASE Persist \/ InspectAlarm \/ RecheckStatus \/ RecordEvent \/ FaultRetry
    <2>1. chip' = chip /\ pc \in Held /\ pc' # "alarmOff"
      BY <1>6 DEF Persist, InspectAlarm, RecheckStatus, RecordEvent, FaultRetry,
                  hardware, Held, HoldingSteps, Steps
    <2>. QED  BY <2>1, LatchUntouched
  <1>7. CASE Release
    <2>1. \/ pc' = "released"
             /\ chip' = ReleaseInterruptFlags(chip, seen.flags, ram.sched # "pending")
          \/ pc' = "fault" /\ chip' = chip
      BY <1>7 DEF Release
    <2>2. CASE pc' = "fault" /\ chip' = chip
      <3>1. pc \in Held
        BY <1>7 DEF Release, Held, HoldingSteps, Steps
      <3>. QED  BY <2>2, <3>1, LatchUntouched
    <2>3. CASE /\ pc' = "released"
               /\ chip' = ReleaseInterruptFlags(chip, seen.flags, ram.sched # "pending")
      <3>1. TimerEnabled(chip')
        BY <1>0, <2>3, TimerEnabledKept
      <3>. QED  BY <2>3, <3>1 DEF LatchInv, HoldingSteps, TimerEnabled
    <2>. QED  BY <2>1, <2>2, <2>3
  <1>8. CASE ReleaseRecorded
    <2>1. chip' = chip /\ pc' = "powerOff"
      BY <1>8 DEF ReleaseRecorded, hardware
    <2>. QED  BY <2>1, LatchUntouched DEF Held, HoldingSteps
  <1>. QED  BY <1>1, <1>2, <1>3, <1>4, <1>5, <1>6, <1>7, <1>8 DEF ShuttingDown

\* The rail and a reset start from nothing, and time only adds to INT.
LEMMA EnvironmentHolds ==
  ASSUME TypeInv, LatchInv,
         nvs'.expected = "none" /\ ram'.expected = "none", Environment
  PROVE  LatchInv'
  <1>0. chip \in Chip /\ TimerEnabled(chip)
    BY DEF TypeInv, TypeOK, LatchInv, TimerEnabled
  <1>1. CASE RailDrops \/ RailRises \/ Reset
    <2>1. chip' = chip /\ pc' \in {"off", "boot"}
      BY <1>1 DEF RailDrops, RailRises, Reset, hardware
    <2>. QED  BY <2>1, LatchUntouched DEF Held, HoldingSteps
  <1>2. CASE Tick \/ LatchTimerFires
    <2>1. /\ pc' = pc
          /\ \/ chip' = chip \/ chip' = MinuteElapsed(chip, now + 1)
             \/ chip.timer = "64Hz" /\ chip' = FastTimerElapsed(chip)
      BY <1>2 DEF Tick, LatchTimerFires
    <2>2. IntKept(chip, chip') /\ TimerEnabled(chip')
      BY <1>0, <2>1, ProgrammingKeepsInt, TimerEnabledKept DEF IntKept
    <2>. QED  BY <2>1, <2>2, LatchStays
  <1>. QED  BY <1>1, <1>2 DEF Environment

LEMMA LatchInvariant ==
  ASSUME "i2c" \notin Faults, RebootModes = {}
  PROVE  Spec => []LatchInv
  <1>1. Init => LatchInv
    BY DEF Init, LatchInv, HoldingSteps, ResetChip, FreshState
  <1>2. TypeInv /\ LatchInv /\ [Next]_vars => LatchInv'
    <2>. SUFFICES ASSUME TypeInv, LatchInv, [Next]_vars
                  PROVE  LatchInv'
      OBVIOUS
    <2>1. nvs'.expected = "none" /\ ram'.expected = "none"
      BY NoMarker
    <2>2. CASE UNCHANGED vars
      BY <2>1, <2>2, LatchUntouched DEF vars, hardware
    <2>. QED  BY <2>1, <2>2, BootingHolds, RunningHolds, ShuttingDownHolds,
                 EnvironmentHolds DEF Next, Firmware
  <1>3. Spec => []TypeInv
    BY TypeCorrect DEF TypeInv
  <1>. QED  BY <1>1, <1>2, <1>3, PTL DEF Spec

\* Without bus failures and reboots by the portal, the node is held on by its
\* chip from the end of a boot to the final release, and no boot goes on without
\* a latch; the one exception is an orphaned alarm, which was there before.
\* (node_app.cpp:136-169, power_manager.cpp:113-119)
THEOREM LatchNeverLost ==
  ASSUME "i2c" \notin Faults, RebootModes = {}
  PROVE  Spec => LatchHeld
  <1>1. TypeInv /\ LatchInv /\ LatchInv' /\ [Next]_vars
          => (pc' \in HoldingSteps /\ ~IntLow(chip') => ~IntLow(chip) /\ OrphanedAlarm)
    <2>. SUFFICES ASSUME TypeInv, LatchInv, LatchInv', [Next]_vars,
                         pc' \in HoldingSteps, ~IntLow(chip')
                  PROVE  ~IntLow(chip) /\ OrphanedAlarm
      OBVIOUS
    <2>1. chip \in Chip /\ "AF" \in chip'.flags \ chip'.enabled
      BY DEF TypeInv, TypeOK, LatchInv, OrphanedAlarm
    <2>2. ~DisableUnusedAlarm
      <3>1. SUFFICES ASSUME DisableUnusedAlarm
                     PROVE  IntLow(chip')
        OBVIOUS
      <3>2. "TF" \in chip.flags /\ "TF" \in chip.enabled
        BY <3>1 DEF DisableUnusedAlarm, LatchInv
      <3>3. \E writes : chip' = DisableAlarm(chip, writes)
        BY <3>1 DEF DisableUnusedAlarm
      <3>. QED  BY <2>1, <3>2, <3>3 DEF DisableAlarm, Chip, IntLow
    <2>3. Release => chip' = chip
      BY DEF Release, HoldingSteps
    <2>4. IntKept(chip, chip')
      BY <2>1, <2>2, <2>3, ChipStep, ProgrammingKeepsInt DEF IntKept
    <2>5. ~IntLow(chip)
      BY <2>4, IntKeptLow
    <2>6. OrphanedAlarm
      <3>1. CASE pc \in Held
        BY <2>5, <3>1 DEF LatchInv, Held
      <3>2. CASE pc \notin Held
        <4>1. chip' = chip
          <5>1. pc' # pc /\ pc' \notin {"off", "boot", "latchWait", "powerOff"}
            BY <3>2 DEF Held, HoldingSteps
          <5>2. ~Operator
            BY <3>2, <5>1 DEF Operator, PressButton, ReleaseButton, RequestExit, MeasureNow,
               ApplyConfiguration, RadioTest, PrepareReboot, PortalRuns, Held, HoldingSteps,
               Steps
          <5>3. ~Environment
            BY <5>1 DEF Environment, RailDrops, RailRises, Reset, Tick, LatchTimerFires
          <5>4. ~Cycling /\ ~Maintaining /\ ~ShuttingDown
            BY <3>2, <5>1, HeldSteps DEF ReleaseRecorded
          <5>5. Booting
            BY <5>1, <5>2, <5>3, <5>4 DEF Next, Firmware, vars
          <5>6. ~ProgramLatch
            BY <5>1, BusIsSound DEF ProgramLatch
          <5>. QED  BY <5>5, <5>6 DEF Booting, Boot, ConfirmLatch, LatchTimeout, LogBoot,
                    DecideBoot, hardware
        <4>. QED  BY <2>1, <4>1 DEF OrphanedAlarm
      <3>. QED  BY <3>1, <3>2
    <2>. QED  BY <2>5, <2>6
  <1>2. Spec => [](TypeInv /\ LatchInv)
    BY TypeCorrect, LatchInvariant, PTL DEF TypeInv
  <1>. QED  BY <1>1, <1>2, PTL DEF Spec, LatchHeld

-----------------------------------------------------------------------------
(* The window: while commits succeed, RAM and flash hold the same one *)

\* A step that keeps the image keeps WindowInv and the deadline in flash.
DeadlineKept ==
  nvs.active /\ nvs'.active /\ nvs.deadline # 0 => nvs'.deadline = nvs.deadline

\* A commit by a session that is in use succeeds.
LEMMA CommitsSucceed ==
  ASSUME "nvs" \notin Faults, ready
  PROVE  \A r, ok : ok \in SaveOutcomes /\ Commit(r, ok) => nvs' = r
  BY DEF SaveOutcomes, Commit

LEMMA WindowStep ==
  ASSUME "nvs" \notin Faults, TypeInv, WindowInv, [Next]_vars
  PROVE  WindowInv' /\ DeadlineKept
  <1>0. /\ ram \in PersistentState /\ nvs \in PersistentState /\ ready \in BOOLEAN
        /\ ~FreshState.active
    BY DEF TypeInv, TypeOK, FreshState
  <1>1. CASE ImageKept
    BY <1>0, <1>1 DEF ImageKept, WindowInv, DeadlineKept, PersistentState
  <1>2. CASE Boot
    <2>1. /\ nvs' = nvs \/ nvs' = FreshState
          /\ IF ready' THEN ram' = nvs' ELSE ram' = FreshState
          /\ ready' \in BOOLEAN
      <3>1. PICK storage \in {"loaded", "fresh", "unavailable"} :
              /\ ram' = IF storage = "loaded" THEN nvs ELSE FreshState
              /\ ready' = (storage # "unavailable")
              /\ nvs' = IF storage = "fresh" THEN FreshState ELSE nvs
        BY <1>2, Zenon DEF Boot, StorageOutcomes
      <3>2. CASE storage = "loaded"
        BY <3>1, <3>2
      <3>3. CASE storage = "fresh"
        BY <3>1, <3>3
      <3>4. CASE storage = "unavailable"
        BY <3>1, <3>4
      <3>. QED  BY <3>2, <3>3, <3>4
    <2>. QED  BY <1>0, <2>1 DEF WindowInv, DeadlineKept
  <1>3. CASE LogBoot
    <2>1. /\ ram'.active = ram.active /\ ram'.deadline = ram.deadline
          /\ ready' = ready /\ nvs' \in {nvs, ram'}
      BY <1>0, <1>3 DEF LogBoot, Commit, PersistentState
    <2>. QED  BY <1>0, <2>1 DEF WindowInv, DeadlineKept, PersistentState
  <1>4. CASE TransmitAnswered
    <2>1. /\ nvs' = nvs /\ ready' = ready
          /\ \/ ram' = ram
             \/ /\ ram.active /\ ram.deadline = 0
                /\ \E d : ram' = [ram EXCEPT !.deadline = d]
      BY <1>4 DEF TransmitAnswered, flash, session
    <2>2. CASE ram' = ram
      BY <2>1, <2>2 DEF WindowInv, DeadlineKept
    <2>3. CASE ram.active /\ ram.deadline = 0
      <3>1. ready /\ nvs.active /\ nvs.deadline = 0
        BY <1>0, <2>3 DEF WindowInv
      <3>2. ram'.active = ram.active
        BY <1>0, <2>1 DEF PersistentState
      <3>. QED  BY <2>1, <2>3, <3>1, <3>2 DEF WindowInv, DeadlineKept
    <2>. QED  BY <2>1, <2>2, <2>3
  <1>5. CASE EnterMaintenance
    <2>0. ready' = ready
      BY <1>5 DEF EnterMaintenance
    <2>1. CASE WindowContinues \/ ~ready
      <3>1. ram' = ram /\ nvs' = nvs
        BY <1>5, <2>1 DEF EnterMaintenance, WindowContinues, Commit
      <3>. QED  BY <2>0, <3>1 DEF WindowInv, DeadlineKept
    <2>2. CASE ready /\ ~ram.active
      <3>1. nvs' = ram'
        BY <1>5, <2>2 DEF EnterMaintenance, WindowContinues, SaveOutcomes, Commit
      <3>. QED  BY <1>0, <2>0, <2>2, <3>1 DEF WindowInv, DeadlineKept
    <2>. QED  BY <2>1, <2>2 DEF WindowContinues
  <1>6. CASE FinishMaintenance
    <2>0. ready' = ready
      BY <1>6 DEF FinishMaintenance, session
    <2>1. CASE ~ready
      <3>1. ram' = ram /\ nvs' = nvs
        BY <1>6, <2>1 DEF FinishMaintenance
      <3>. QED  BY <2>0, <3>1 DEF WindowInv, DeadlineKept
    <2>2. CASE ready
      <3>1. \E x : ram' = [ram EXCEPT !.active = FALSE, !.deadline = 0, !.sched = x]
        BY <1>6, <2>2 DEF FinishMaintenance
      <3>2. ~ram'.active
        BY <1>0, <3>1 DEF PersistentState
      <3>3. nvs' = ram'
        BY <1>6, <2>2, CommitsSucceed DEF FinishMaintenance
      <3>. QED  BY <2>0, <2>2, <3>2, <3>3 DEF WindowInv, DeadlineKept
    <2>. QED  BY <2>1, <2>2
  <1>7. ASSUME NEW mode \in RebootModes, PrepareReboot(mode)
        PROVE  WindowInv' /\ DeadlineKept
    <2>1. /\ ready /\ ready' = ready /\ nvs' = ram'
          /\ \E d : /\ ram.deadline # 0 => d = ram.deadline
                    /\ ram' = [ram EXCEPT !.active = TRUE, !.deadline = d,
                                          !.expected = mode]
      BY <1>7 DEF PrepareReboot
    <2>2. ram.deadline # 0 => ram'.deadline = ram.deadline
      BY <1>0, <2>1 DEF PersistentState
    <2>3. nvs.active /\ nvs.deadline # 0 => ram.deadline = nvs.deadline
      BY <2>1 DEF WindowInv
    <2>. QED  BY <2>1, <2>2, <2>3 DEF WindowInv, DeadlineKept
  <1>8. CASE Restart
    BY <1>0, <1>8 DEF Restart, RailDrops, HonourReboot, Reset, LoseRam, flash, WindowInv,
                      DeadlineKept
  <1>. QED  BY <1>1, <1>2, <1>3, <1>4, <1>5, <1>6, <1>7, <1>8, ImageStep DEF ImageActions

LEMMA WindowInvariant ==
  ASSUME "nvs" \notin Faults
  PROVE  Spec => []WindowInv
  <1>1. Init => WindowInv
    BY DEF Init, WindowInv, FreshState
  <1>2. TypeInv /\ WindowInv /\ [Next]_vars => WindowInv'
    BY WindowStep
  <1>3. Spec => []TypeInv
    BY TypeCorrect DEF TypeInv
  <1>. QED  BY <1>1, <1>2, <1>3, PTL DEF Spec

\* While commits succeed, nothing moves the deadline of a window that flash
\* holds open: no reset, reboot, request, session or written clock.
\* (node_app.cpp:555-574, 902-916)
THEOREM DeadlineNeverMoves ==
  ASSUME "nvs" \notin Faults
  PROVE  Spec => DeadlineNeverExtended
  <1>1. TypeInv /\ WindowInv /\ [Next]_vars
          => (nvs.active /\ nvs'.active /\ nvs.deadline # 0
                => nvs'.deadline <= nvs.deadline \/ nvs'.deadline <= now)
    <2>. SUFFICES ASSUME TypeInv, WindowInv, [Next]_vars,
                         nvs.active /\ nvs'.active /\ nvs.deadline # 0
                  PROVE  nvs'.deadline <= nvs.deadline
      OBVIOUS
    <2>1. nvs.deadline \in Nat
      BY DEF TypeInv, TypeOK, PersistentState
    <2>. QED  BY <2>1, WindowStep DEF DeadlineKept
  <1>2. Spec => [](TypeInv /\ WindowInv)
    BY TypeCorrect, WindowInvariant, PTL DEF TypeInv
  <1>. QED  BY <1>1, <1>2, PTL DEF Spec, DeadlineNeverExtended

-----------------------------------------------------------------------------
(* The steps that have nothing to do with the window *)

\* The exchange of the portal's radio test is the only use of ctx "maint", and
\* a request to enter is only kept up to the end of its exchange.
WindowCalls ==
  /\ ctx = "maint" => pc \in {"transmit", "command", "schedule", "commandDone"}
  /\ "enter" \in req => pc \in {"stored", "commandDone"} /\ ctx # "maint"

\* What was seen of a valid clock is what it shows, or was seen before.
SeenKept ==
  seen'.clock = "valid"
    => seen'.time = now \/ (seen.clock = "valid" /\ seen'.time = seen.time)

\* The window is left to finishMaintenance only, and entered by nobody.
Aside ==
  /\ mLeft' = mLeft /\ now' = now
  /\ InWindow' => InWindow
  /\ InWindow \/ pc = "finish" => InWindow' \/ pc' = "finish"
  /\ pc = "enter" => pc' = "enter"
  /\ WindowCalls'

Timed == Tick \/ EnterMaintenance \/ FinishMaintenance \/ Boot \/ Restart

LEMMA ObservedTime ==
  ASSUME NEW s \in Observations, s.clock = "valid"
  PROVE  s.time = now
  <1>. DEFINE look == [comm |-> "ok", flags |-> chip.flags,
                      clock |-> IF timeValid THEN "valid" ELSE "untrusted",
                      time |-> IF timeValid THEN now ELSE 0]
  <1>1. Blind.clock = "error" /\ [look EXCEPT !.clock = "error", !.time = 0].clock = "error"
    BY DEF Blind
  <1>2. s = look
    BY <1>1, Zenon DEF Observations
  <1>. QED  BY <1>2

LEMMA BootingAside ==
  ASSUME TypeInv, WindowCalls, Booting
  PROVE  Timed \/ (Aside /\ SeenKept)
  <1>. USE DEF Timed, Aside, SeenKept, InWindow, WindowCalls
  <1>1. CASE ProgramLatch \/ LatchTimeout \/ LogBoot
    BY <1>1 DEF ProgramLatch, LatchTimeout, LogBoot, hardware, session
  <1>2. CASE ConfirmLatch
    <2>1. \E s : seen' = [seen EXCEPT !.comm = s.comm, !.flags = s.flags]
      BY <1>2 DEF ConfirmLatch
    <2>2. SeenKept
      BY <2>1 DEF TypeInv, TypeOK, Observation
    <2>. QED  BY <1>2, <2>2 DEF ConfirmLatch, hardware, session
  <1>3. CASE DecideBoot
    BY <1>3 DEF DecideBoot, hardware, session
  <1>. QED  BY <1>1, <1>2, <1>3 DEF Booting

LEMMA CyclingAside ==
  ASSUME TypeInv, WindowCalls, Cycling, GatewayTimes = {}
  PROVE  Aside /\ SeenKept
  <1>. USE DEF Aside, InWindow, WindowCalls, ExchangeEnds, TypeInv, ContextSettled
  <1>1. CASE Acquire \/ Store \/ CommandNone \/ CommandEnter \/ CommandPoll \/ ProgramSchedule
    <2>1. seen' = seen
      BY <1>1 DEF Acquire, Store, CommandNone, CommandEnter, CommandPoll, ProgramSchedule
    <2>2. CASE Acquire \/ Store \/ CommandNone
      BY <2>1, <2>2 DEF Acquire, Store, CommandNone, hardware, session, SeenKept
    <2>3. CASE CommandEnter \/ CommandPoll \/ ProgramSchedule
      BY <2>1, <2>3 DEF CommandEnter, CommandPoll, ProgramSchedule, hardware, session, SeenKept
    <2>. QED  BY <1>1, <2>2, <2>3
  <1>2. CASE TransmitUnanswered \/ TransmitAnswered
    <2>1. seen' \in Observations /\ UNCHANGED hardware
      BY <1>2 DEF TransmitUnanswered, TransmitAnswered
    <2>2. SeenKept
      BY <2>1, ObservedTime DEF SeenKept
    <2>. QED  BY <1>2, <2>1, <2>2 DEF TransmitUnanswered, TransmitAnswered, hardware, session
  <1>3. ASSUME NEW target \in Targets, CommandSchedule(target)
        PROVE  Aside /\ SeenKept
    <2>1. SeenKept
      BY <1>3, ObservedTime DEF CommandSchedule, SeenKept
    <2>. QED  BY <1>3, <2>1 DEF CommandSchedule, hardware, session
  <1>. QED  BY <1>1, <1>2, <1>3 DEF Cycling, Commands

LEMMA MaintainingAside ==
  ASSUME TypeInv, WindowCalls, Maintaining
  PROVE  Timed \/ (Aside /\ SeenKept)
  <1>. USE DEF Timed, Aside, SeenKept, InWindow, WindowCalls, TypeInv, ContextSettled
  <1>1. CASE MaintenanceExpires \/ HonourExit
    BY <1>1 DEF MaintenanceExpires, HonourExit, hardware, session
  <1>2. CASE HonourReboot
    BY <1>2 DEF Restart
  <1>3. CASE RadioTestDone
    BY <1>3 DEF RadioTestDone, hardware
  <1>. QED  BY <1>1, <1>2, <1>3 DEF Maintaining

LEMMA ShuttingDownAside ==
  ASSUME TypeInv, WindowCalls, ShuttingDown
  PROVE  Aside /\ SeenKept
  <1>. USE DEF Aside, InWindow, WindowCalls
  <1>1. CASE Persist \/ RecordEvent \/ Release \/ ReleaseRecorded
    BY <1>1 DEF Persist, RecordEvent, Release, ReleaseRecorded, hardware, session, SeenKept
  <1>2. CASE ProgramTimer \/ ProgramAlarm \/ CheckAlarm \/ DisableUnusedAlarm \/ VerifyWake
    <2>1. UNCHANGED <<now, seen, mLeft, req>>
      BY <1>2 DEF ProgramTimer, ProgramAlarm, CheckAlarm, DisableUnusedAlarm,
                  VerifyWake, WakeStep
    <2>2. /\ pc \in {"timer", "alarm", "alarmCheck", "alarmOff", "verify"}
          /\ \/ ctx' = ctx /\ pc' \in {"alarm", "alarmCheck", "alarmOff", "verify", "timer"}
             \/ ctx' = "cycle" /\ pc' \in {"inspect", "recheck", "persist", "fault"}
      BY <1>2 DEF ProgramTimer, ProgramAlarm, CheckAlarm, DisableUnusedAlarm,
                  VerifyWake, WakeContinues, WakeFailed, WakeProgrammed
    <2>. QED  BY <2>1, <2>2 DEF SeenKept
  <1>3. CASE InspectAlarm \/ RecheckStatus \/ FaultRetry
    <2>1. SeenKept
      BY <1>3, ObservedTime DEF InspectAlarm, RecheckStatus, FaultRetry, SeenKept
    <2>. QED  BY <1>3, <2>1 DEF InspectAlarm, RecheckStatus, FaultRetry, hardware, session
  <1>. QED  BY <1>1, <1>2, <1>3 DEF ShuttingDown

LEMMA OperatorAside ==
  ASSUME TypeInv, WindowCalls, Operator
  PROVE  Aside /\ SeenKept
  <1>. USE DEF Aside, InWindow, WindowCalls, PortalRuns
  <1>1. CASE PressButton \/ ReleaseButton
    BY <1>1 DEF PressButton, ReleaseButton, session, SeenKept
  <1>2. CASE RequestExit \/ MeasureNow \/ ApplyConfiguration \/ RadioTest
    BY <1>2 DEF RequestExit, MeasureNow, ApplyConfiguration, RadioTest, hardware, session,
                SeenKept
  <1>3. ASSUME NEW mode \in RebootModes, PrepareReboot(mode)
        PROVE  Aside /\ SeenKept
    <2>1. SeenKept
      BY <1>3, ObservedTime DEF PrepareReboot, SeenKept
    <2>. QED  BY <1>3, <2>1 DEF PrepareReboot, hardware
  <1>. QED  BY <1>1, <1>2, <1>3 DEF Operator

LEMMA EnvironmentAside ==
  ASSUME TypeInv, WindowCalls, Environment
  PROVE  Timed \/ (Aside /\ SeenKept)
  <1>. USE DEF Timed, Aside, SeenKept, InWindow, WindowCalls
  <1>1. CASE RailDrops \/ Reset
    BY <1>1 DEF Restart
  <1>2. CASE RailRises \/ LatchTimerFires
    BY <1>2 DEF RailRises, LatchTimerFires, Running, hardware, session
  <1>. QED  BY <1>1, <1>2 DEF Environment

LEMMA StepsAside ==
  ASSUME TypeInv, WindowCalls, GatewayTimes = {}, [Next]_vars
  PROVE  Timed \/ (Aside /\ SeenKept)
  <1>1. CASE UNCHANGED vars
    BY <1>1 DEF vars, hardware, session, Aside, SeenKept, InWindow, WindowCalls
  <1>. QED  BY <1>1, BootingAside, CyclingAside, MaintainingAside, ShuttingDownAside,
              OperatorAside, EnvironmentAside DEF Next, Firmware

-----------------------------------------------------------------------------
(* What has been used and what is left *)

\* The numbers the budget is counted with.
LEMMA BudgetTypes ==
  ASSUME TypeInv
  PROVE  /\ now \in Nat /\ mLeft \in Nat /\ Life \in Nat /\ seen.time \in Nat
         /\ ready \in BOOLEAN
         /\ ram \in PersistentState /\ ram.deadline \in Nat /\ nvs.deadline \in Nat
  BY LifeAssumption DEF TypeInv, TypeOK, Observation, PersistentState

\* A step aside of the window spends nothing of it.
LEMMA UsedKept ==
  ASSUME TypeInv, BudgetNext, Aside
  PROVE  used' = used
  BY BudgetTypes DEF BudgetNext, Aside, Granted

\* The deadlines stay where they are, or flash takes the one of RAM.
DeadlinesKept ==
  /\ ready' = ready /\ ram'.deadline = ram.deadline
  /\ nvs'.deadline \in {nvs.deadline, ram.deadline}

LEMMA DeadlinesStep ==
  ASSUME TypeInv, GatewayTimes = {}, [Next]_vars
  PROVE  Timed \/ DeadlinesKept \/ \E mode \in RebootModes : PrepareReboot(mode)
  <1>1. CASE ImageKept
    BY <1>1 DEF ImageKept, DeadlinesKept
  <1>2. CASE LogBoot
    <2>1. ready' = ready /\ ram'.deadline = ram.deadline /\ nvs' \in {nvs, ram'}
      BY <1>2, BudgetTypes DEF LogBoot, Commit, PersistentState
    <2>. QED  BY <2>1 DEF DeadlinesKept
  <1>3. CASE TransmitAnswered
    BY <1>3 DEF TransmitAnswered, flash, session, DeadlinesKept
  <1>. QED  BY <1>1, <1>2, <1>3, ImageStep DEF ImageActions, Timed

\* A step aside of the window that keeps the deadlines keeps the budget.
LEMMA AsideKeepsBudget ==
  ASSUME TypeInv, BudgetInv, Aside, SeenKept, DeadlinesKept, used' = used
  PROVE  BudgetInv'
  <1>. USE BudgetTypes DEF Aside
  <1>1. /\ used' \in Nat /\ BudgetKept' /\ now' <= Horizon
        /\ InWindow' => used' + mLeft' <= Life
    BY DEF BudgetInv, BudgetKept
  <1>2. LeavesRest(nvs.deadline, now)' /\ LeavesRest(ram.deadline, now)'
    BY DEF BudgetInv, LeavesRest, DeadlinesKept
  <1>3. seen'.clock = "valid" =>
          /\ seen'.time <= now'
          /\ ready' /\ ~InWindow' /\ pc' # "finish" => LeavesRest(ram.deadline, seen.time)'
    BY DEF BudgetInv, LeavesRest, DeadlinesKept, SeenKept
  <1>. QED  BY <1>1, <1>2, <1>3 DEF BudgetInv, WindowCalls

\* The reboot of the portal makes the end of the running window durable, or
\* lets a fault end at once.
LEMMA RebootKeepsBudget ==
  ASSUME TypeInv, BudgetInv, Aside, NEW mode \in RebootModes, PrepareReboot(mode),
         used' = used
  PROVE  BudgetInv'
  <1>. USE BudgetTypes
  <1>1. PICK d : /\ d = IF ram.deadline # 0 THEN ram.deadline
                         ELSE now + (IF pc = "maint" THEN mLeft ELSE 0)
                 /\ ram' = [ram EXCEPT !.active = TRUE, !.deadline = d, !.expected = mode]
                 /\ nvs' = ram'
    BY DEF PrepareReboot
  <1>2. ram'.deadline = d /\ nvs'.deadline = d
    BY <1>1 DEF PersistentState
  <1>3. d # 0 => used + d <= now + Life
    BY <1>1 DEF BudgetInv, LeavesRest, InWindow, BudgetKept
  <1>4. LeavesRest(nvs.deadline, now)' /\ LeavesRest(ram.deadline, now)'
    BY <1>2, <1>3 DEF LeavesRest, Aside
  <1>5. seen'.clock = "valid" => seen'.time = now'
    BY ObservedTime DEF PrepareReboot, Aside
  <1>6. /\ used' \in Nat /\ BudgetKept' /\ now' <= Horizon
        /\ InWindow' => used' + mLeft' <= Life
    BY DEF BudgetInv, BudgetKept, Aside
  <1>7. seen'.clock = "valid" =>
          /\ seen'.time <= now'
          /\ ready' /\ ~InWindow' /\ pc' # "finish" => LeavesRest(ram.deadline, seen.time)'
    BY <1>4, <1>5 DEF Aside, LeavesRest
  <1>. QED  BY <1>4, <1>6, <1>7 DEF BudgetInv, WindowCalls, Aside

\* A minute spends one of what is left, and brings every deadline nearer.
LEMMA TickKeepsBudget ==
  ASSUME TypeInv, BudgetInv, BudgetNext, Tick
  PROVE  BudgetInv'
  <1>. USE BudgetTypes
  <1>1. /\ UNCHANGED <<pc, ctx, ram, nvs, seen, req, ready>>
        /\ mLeft' = IF mLeft = 0 THEN 0 ELSE mLeft - 1
        /\ \/ now' = now + 1 \/ now' = now
        /\ now' <= Horizon
    BY HorizonAssumption DEF Tick, Smaller, BudgetInv, flash
  <1>2. used' = IF InWindow /\ mLeft > 0 /\ now' = now + 1 THEN used + 1 ELSE used
    BY <1>1 DEF BudgetNext, Granted
  <1>3. InWindow' <=> InWindow
    BY <1>1 DEF InWindow
  <1>4. used \in Nat /\ used <= Life /\ (InWindow => used + mLeft <= Life)
    BY DEF BudgetInv, BudgetKept
  <1>5. used' \in Nat /\ BudgetKept' /\ (InWindow' => used' + mLeft' <= Life)
    BY <1>1, <1>2, <1>3, <1>4 DEF BudgetKept
  <1>6. LeavesRest(nvs.deadline, now)' /\ LeavesRest(ram.deadline, now)'
    BY <1>1, <1>2, <1>4 DEF BudgetInv, LeavesRest
  <1>7. seen'.clock = "valid" =>
          /\ seen'.time <= now'
          /\ ready' /\ ~InWindow' /\ pc' # "finish" => LeavesRest(ram.deadline, seen.time)'
    BY <1>1, <1>2, <1>3 DEF BudgetInv, LeavesRest
  <1>. QED  BY <1>1, <1>5, <1>6, <1>7 DEF BudgetInv

\* A new window has its whole lifetime; one that is resumed has what its
\* deadline leaves, seen from the time that was read last.
LEMMA EnterKeepsBudget ==
  ASSUME TypeInv, BudgetInv, BudgetNext, EnterMaintenance
  PROVE  BudgetInv'
  <1>. USE BudgetTypes
  <1>1. /\ pc = "enter" /\ pc' \in {"maint", "finish"}
        /\ UNCHANGED <<now, ctx, seen, req, ready>>
        /\ ctx # "maint" /\ "enter" \notin req
    BY DEF EnterMaintenance, hardware, BudgetInv
  <1>2. ~InWindow
    BY <1>1 DEF InWindow
  <1>3. CASE WindowContinues
    <2>1. used' = used
      BY <1>2, <1>3 DEF BudgetNext, Granted
    <2>2. /\ mLeft' = ResumedLifetime /\ ram' = ram /\ nvs' = nvs
          /\ ready
      BY <1>3 DEF EnterMaintenance, WindowContinues
    <2>3. used + ResumedLifetime <= Life /\ used <= Life /\ used \in Nat
      BY <1>1, <1>2, <2>2 DEF ResumedLifetime, Smaller, BudgetInv, BudgetKept, LeavesRest
    <2>4. InWindow' \/ pc' = "finish"
      BY <1>1 DEF InWindow
    <2>. QED  BY <1>1, <2>1, <2>2, <2>3, <2>4 DEF BudgetInv, BudgetKept, LeavesRest
  <1>4. CASE ~WindowContinues
    <2>1. used' = 0 /\ mLeft' = Life
      BY <1>1, <1>4 DEF BudgetNext, Granted, EnterMaintenance
    <2>2. /\ \/ ram' = ram
             \/ \E d \in {0, seen.time + Life} :
                  /\ d # 0 => seen.clock = "valid"
                  /\ ram' = [ram EXCEPT !.active = TRUE, !.deadline = d]
          /\ nvs' = nvs \/ nvs' = ram'
      BY <1>4 DEF EnterMaintenance, Commit
    <2>3. ram'.deadline \in Nat /\ (ram'.deadline # 0 => ram'.deadline <= now + Life)
      <3>1. CASE ram' = ram
        BY <3>1 DEF BudgetInv, LeavesRest
      <3>2. ASSUME NEW d \in {0, seen.time + Life}, d # 0 => seen.clock = "valid",
                   ram' = [ram EXCEPT !.active = TRUE, !.deadline = d]
            PROVE  ram'.deadline \in Nat /\ (ram'.deadline # 0 => ram'.deadline <= now + Life)
        <4>1. ram'.deadline = d
          BY <3>2 DEF PersistentState
        <4>2. seen.clock = "valid" => seen.time <= now
          BY DEF BudgetInv
        <4>. QED  BY <3>2, <4>1, <4>2
      <3>. QED  BY <2>2, <3>1, <3>2
    <2>4. nvs'.deadline \in Nat /\ (nvs'.deadline # 0 => nvs'.deadline <= now + Life)
      BY <2>2, <2>3 DEF BudgetInv, LeavesRest
    <2>5. LeavesRest(nvs.deadline, now)' /\ LeavesRest(ram.deadline, now)'
      BY <1>1, <2>1, <2>3, <2>4 DEF LeavesRest
    <2>6. InWindow' \/ pc' = "finish"
      BY <1>1 DEF InWindow
    <2>7. seen'.clock = "valid" => seen'.time <= now'
      BY <1>1 DEF BudgetInv
    <2>. QED  BY <1>1, <2>1, <2>5, <2>6, <2>7 DEF BudgetInv, BudgetKept
  <1>. QED  BY <1>3, <1>4

\* A boot reads the clock; the window, if there is one, is still to be resumed.
LEMMA BootKeepsBudget ==
  ASSUME TypeInv, BudgetInv, BudgetNext, Boot
  PROVE  BudgetInv'
  <1>. USE BudgetTypes
  <1>1. /\ pc = "boot" /\ pc' \in {"latch", "bootLog"}
        /\ UNCHANGED <<now, ctx, mLeft, req>>
        /\ ctx # "maint" /\ "enter" \notin req
    BY DEF Boot, hardware, BudgetInv
  <1>2. used' = used
    BY <1>1 DEF BudgetNext, Granted
  <1>3. ~InWindow'
    BY <1>1 DEF InWindow
  <1>4. nvs' \in {nvs, FreshState} /\ ram' \in {nvs, FreshState}
    BY DEF Boot
  <1>5. LeavesRest(nvs.deadline, now)' /\ LeavesRest(ram.deadline, now)'
    BY <1>1, <1>2, <1>4 DEF LeavesRest, BudgetInv, FreshState
  <1>6. seen'.clock = "valid" => seen'.time = now'
    BY <1>1, ObservedTime DEF Boot
  <1>. QED  BY <1>1, <1>2, <1>3, <1>5, <1>6 DEF BudgetInv, BudgetKept, LeavesRest

\* The end of a window takes its deadline away; a restart forgets what was seen.
LEMMA EndKeepsBudget ==
  ASSUME TypeInv, BudgetInv, BudgetNext, FinishMaintenance \/ Restart
  PROVE  BudgetInv'
  <1>. USE BudgetTypes
  <1>1. CASE FinishMaintenance
    <2>1. /\ pc = "finish" /\ pc' \in {"persist", "fault"}
          /\ UNCHANGED <<now, ctx, mLeft, req, ready>>
          /\ ctx # "maint" /\ "enter" \notin req
      BY <1>1 DEF FinishMaintenance, hardware, session, BudgetInv
    <2>2. used' = used /\ ~InWindow'
      BY <2>1 DEF BudgetNext, Granted, InWindow
    <2>3. CASE ~ready
      <3>1. UNCHANGED <<ram, nvs, seen>>
        BY <1>1, <2>3 DEF FinishMaintenance
      <3>. QED  BY <2>1, <2>2, <2>3, <3>1 DEF BudgetInv, BudgetKept, LeavesRest
    <2>4. CASE ready
      <3>1. /\ \E x : ram' = [ram EXCEPT !.active = FALSE, !.deadline = 0, !.sched = x]
            /\ nvs' \in {nvs, ram'}
            /\ seen' \in Observations
        BY <1>1, <2>4 DEF FinishMaintenance, Commit
      <3>2. ram'.deadline = 0
        BY <3>1 DEF PersistentState
      <3>3. seen'.clock = "valid" => seen'.time = now
        BY <3>1, ObservedTime
      <3>4. LeavesRest(nvs.deadline, now)' /\ LeavesRest(ram.deadline, now)'
        BY <2>1, <2>2, <3>1, <3>2 DEF BudgetInv, LeavesRest
      <3>5. seen'.clock = "valid" =>
              seen'.time <= now' /\ LeavesRest(ram.deadline, seen.time)'
        BY <2>1, <3>2, <3>3 DEF LeavesRest
      <3>. QED  BY <2>1, <2>2, <3>4, <3>5 DEF BudgetInv, BudgetKept
    <2>. QED  BY <2>3, <2>4
  <1>2. CASE Restart
    <2>1. /\ pc' \in {"off", "boot"} /\ LoseRam /\ now' = now /\ nvs' = nvs
      BY <1>2 DEF Restart, RailDrops, HonourReboot, Reset, hardware, flash
    <2>2. /\ used' = used
          /\ ram'.deadline = 0 /\ seen'.clock = "error" /\ ctx' = "cycle" /\ req' = {}
      BY <2>1 DEF BudgetNext, Granted, LoseRam, FreshState, Blind
    <2>3. ~InWindow'
      BY <2>1, <2>2 DEF InWindow
    <2>. QED  BY <2>1, <2>2, <2>3 DEF BudgetInv, BudgetKept, LeavesRest
  <1>. QED  BY <1>1, <1>2

\* While nobody sets the clock, a window is open for one lifetime in all, however
\* often it is interrupted by reboots and resets and whatever else fails.
\* (node_app.cpp:473-475, 559-565)
THEOREM BudgetIsKept ==
  ASSUME GatewayTimes = {}
  PROVE  BudgetSpec => []BudgetKept
  <1>1. BudgetInit => BudgetInv
    <2>. SUFFICES ASSUME BudgetInit
                  PROVE  BudgetInv
      OBVIOUS
    <2>1. /\ used = 0 /\ now = 1 /\ mLeft = 0 /\ pc = "off" /\ ctx = "cycle" /\ req = {}
          /\ nvs.deadline = 0 /\ ram.deadline = 0 /\ seen.clock = "error"
      BY DEF BudgetInit, Init, FreshState, Blind
    <2>. QED  BY <2>1, LifeAssumption, HorizonAssumption
              DEF BudgetInv, BudgetKept, InWindow, LeavesRest
  <1>2. TypeInv /\ BudgetInv /\ [BudgetNext]_<<vars, used>> => BudgetInv'
    <2>. SUFFICES ASSUME TypeInv, BudgetInv, [BudgetNext]_<<vars, used>>
                  PROVE  BudgetInv'
      OBVIOUS
    <2>1. CASE UNCHANGED <<vars, used>>
      BY <2>1 DEF vars, hardware, flash, session, BudgetInv, BudgetKept, InWindow, LeavesRest
    <2>2. CASE BudgetNext
      <3>1. WindowCalls /\ [Next]_vars
        BY <2>2 DEF BudgetInv, WindowCalls, BudgetNext
      <3>2. CASE Timed
        BY <2>2, <3>2, TickKeepsBudget, EnterKeepsBudget, BootKeepsBudget, EndKeepsBudget
        DEF Timed
      <3>3. CASE ~Timed
        <4>1. Aside /\ SeenKept
          BY <3>1, <3>3, StepsAside
        <4>2. used' = used
          BY <2>2, <4>1, UsedKept
        <4>. QED  BY <3>1, <3>3, <4>1, <4>2, DeadlinesStep, AsideKeepsBudget, RebootKeepsBudget
      <3>. QED  BY <3>2, <3>3
    <2>. QED  BY <2>1, <2>2
  <1>3. BudgetSpec => Spec
    <2>1. BudgetInit => Init
      BY DEF BudgetInit
    <2>2. [BudgetNext]_<<vars, used>> => [Next]_vars
      BY DEF BudgetNext
    <2>. QED  BY <2>1, <2>2, PTL DEF BudgetSpec, Spec
  <1>4. Spec => []TypeInv
    BY TypeCorrect DEF TypeInv
  <1>5. BudgetInv => BudgetKept
    BY DEF BudgetInv
  <1>. QED  BY <1>1, <1>2, <1>3, <1>4, <1>5, PTL DEF BudgetSpec

===============================================================================
