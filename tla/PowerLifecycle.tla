--------------------------- MODULE PowerLifecycle ---------------------------
(***************************************************************************)
(* The power lifecycle of a GATHRA node: NodeApp (lib/app/node_app.cpp)    *)
(* and PowerManager (lib/power/power_manager.cpp) running over the PCF8563 *)
(* latch, the persistent state in flash, the physical button and the clock.*)
(*                                                                         *)
(* The firmware is one loop task, so it is one program counter.  A step    *)
(* ends where something outside can be observed to have moved: at an I2C   *)
(* exchange, at a flash commit, or when the loop returns.  Between any two *)
(* steps a minute may pass (TF or AF may assert), the button may move, and *)
(* the processor may reset, losing everything but the chip and the flash.  *)
(*                                                                         *)
(* Simplifications:                                                        *)
(* - minutes only: the 300 s lifetime and the 300 s alarm window are the   *)
(*   constants Life and Window;                                            *)
(* - of a command only its effect on power is kept; receipts, duplicates   *)
(*   and results are the subject of CommandExchange;                       *)
(* - a commit saves the whole RAM image or fails and leaves flash alone;   *)
(* - the power events, filter memory and history contents are dropped, and *)
(*   a failure to write history is an outcome of the step that writes it;  *)
(* - the supply of the chip itself never fails.                            *)
(***************************************************************************)
EXTENDS Pcf8563, FiniteSets

CONSTANTS
  Life,           \* minutes a maintenance window may last (config and cap)
  Window,         \* minutes an alarm remains evidence of its target
  Horizon,        \* the clock stops here: the bound of a run
  GatewayTimes,   \* times a gateway may write into the clock
  RebootModes,    \* subset of {"ota", "maintenance"}: reboots the portal offers
  Faults          \* subset of {"i2c", "nvs", "storage", "history", "portal", "reset"}

ASSUME LifeAssumption == Life \in Nat \ {0}
ASSUME WindowAssumption == Window \in Nat
ASSUME HorizonAssumption == Horizon \in Nat \ {0}
ASSUME GatewayTimesAssumption == GatewayTimes \subseteq Nat \ {0}
ASSUME RebootModesAssumption == RebootModes \subseteq {"ota", "maintenance"}
ASSUME PollChoicesNonEmpty == PollChoices # {}

VARIABLES
  now,        \* the clock of the chip, in minutes
  timeValid,  \* FALSE while the chip reports VL: its time cannot be trusted
  button,     \* the operator holds the power button
  chip,       \* the PCF8563 registers
  nvs,        \* the persistent state as flash holds it
  poll,       \* the configured poll interval (flash and RAM move together)
  pc,         \* where the firmware is; "off" while the rail is down
  ctx,        \* on whose behalf a shared routine runs
  attempt,    \* how often finalPowerOff has tried to program the wake
  ram,        \* PersistentStateManager::state_
  ready,      \* persistenceReady_
  seen,       \* the last refreshRtc: pcfStatus_, rtcTimeState_, rtcUnixTime_
  boot,       \* boot_, and whether the manual latch was confirmed
  nextPoll,   \* nextPollMinutes_
  mLeft,      \* minutes left of maintenanceLifetimeMs_
  req         \* accepted requests: reboot, exit, enter maintenance

hardware == <<now, timeValid, button, chip>>
flash    == <<nvs, poll>>
session  == <<boot, nextPoll, mLeft, req, ready>>
vars     == <<hardware, flash, pc, ctx, attempt, ram, seen, session>>

-----------------------------------------------------------------------------
(* Types *)

ScheduleStates == {"none", "pending", "completed", "failed"}

Reasons == {"none", "ota", "maintenance", "scheduled", "timer", "manual", "unknown"}

Steps == {"off", "boot", "latch", "latchWait", "bootLog", "bootDecide", "acquire",
          "transmit", "command", "schedule", "commandDone", "stored", "enter",
          "maint", "finish", "persist", "timer", "alarm", "alarmCheck",
          "alarmOff", "verify", "inspect", "recheck", "event", "release",
          "released", "powerOff", "fault"}

Contexts == {"cycle", "maint", "fault", "final", "recover", "retry"}

PersistentState ==
  [sched : ScheduleStates, target : Targets \union {0},
   expected : {"none", "ota", "maintenance"},
   active : BOOLEAN, deadline : Nat]

FreshState == [sched |-> "none", target |-> 0, expected |-> "none",
               active |-> FALSE, deadline |-> 0]

Observation == [comm : {"ok", "lost"}, flags : SUBSET Flags,
                clock : {"valid", "untrusted", "error"}, time : Nat]

Blind == [comm |-> "lost", flags |-> {}, clock |-> "error", time |-> 0]

NoBoot == [reason |-> "none", alarm |-> FALSE, latched |-> TRUE]

TypeOK ==
  /\ now \in Nat /\ timeValid \in BOOLEAN /\ button \in BOOLEAN
  /\ chip \in Chip
  /\ nvs \in PersistentState /\ ram \in PersistentState
  /\ poll \in PollChoices /\ nextPoll \in PollChoices \union {1}
  /\ pc \in Steps /\ ctx \in Contexts /\ attempt \in 1..3
  /\ ready \in BOOLEAN
  /\ seen \in Observation
  /\ boot \in [reason : Reasons, alarm : BOOLEAN, latched : BOOLEAN]
  /\ mLeft \in 0..Life
  /\ req \in SUBSET {"reboot", "exit", "enter"}

-----------------------------------------------------------------------------
(* Outcomes of the calls that can fail *)

\* A commit of image r; ok says whether flash took it.
Commit(r, ok) == nvs' = IF ok THEN r ELSE nvs

SaveOutcomes == IF ready /\ "nvs" \notin Faults THEN {TRUE} ELSE BOOLEAN

\* How far a multi-register operation of n writes gets, and whether it is
\* reported as done: only a complete one whose readback works is.
WriteOutcomes(n) ==
  {[writes |-> n, ok |-> TRUE]} \union
  (IF "i2c" \in Faults THEN {[writes |-> k, ok |-> FALSE] : k \in 0..n} ELSE {})

\* What refreshRtc may leave in the RAM copy: all of it, the status without
\* the time, or nothing.
Observations ==
  LET look == [comm |-> "ok", flags |-> chip.flags,
               clock |-> IF timeValid THEN "valid" ELSE "untrusted",
               time |-> IF timeValid THEN now ELSE 0]
  IN  {look} \union
      (IF "i2c" \in Faults
         THEN {Blind, [look EXCEPT !.clock = "error", !.time = 0]}
         ELSE {})

Smaller(a, b) == IF a < b THEN a ELSE b

-----------------------------------------------------------------------------
(* Boot: NodeApp::begin *)

\* PowerManager::classify: the reboot marker outranks the alarm, the alarm
\* the timer, and a boot with neither flag is the button.
Classify(s, marker, state) ==
  IF marker # "none" THEN marker
  ELSE IF /\ "AF" \in s.flags /\ s.clock = "valid"
          /\ state.sched = "pending" /\ state.target # 0
          /\ s.time >= state.target /\ s.time - state.target <= Window
       THEN "scheduled"
  ELSE IF "TF" \in s.flags THEN "timer"
  ELSE IF s.comm = "ok" /\ "AF" \notin s.flags THEN "manual"
  ELSE "unknown"

\* The persistent state as begin finds it: loaded, replaced by a fresh
\* session because it could not be read or verified, or unavailable.
StorageOutcomes ==
  {"loaded"} \union (IF "storage" \in Faults THEN {"fresh", "unavailable"} ELSE {})

Boot ==
  /\ pc = "boot"
  /\ \E s \in Observations, storage \in StorageOutcomes :
       LET state  == IF storage = "loaded" THEN nvs ELSE FreshState
           usable == storage # "unavailable"
           marker == IF usable THEN state.expected ELSE "none"
           class  == Classify(s, marker, state)
           resume == /\ usable /\ state.active /\ marker = "none"
                     /\ class # "scheduled"
       IN  /\ seen' = s
           /\ ram' = state
           /\ ready' = usable
           /\ nvs' = IF storage = "fresh" THEN FreshState ELSE nvs
           /\ boot' = [reason  |-> IF resume THEN "maintenance" ELSE class,
                       alarm   |-> "AF" \in s.flags,
                       latched |-> TRUE]
           /\ pc' = IF class = "manual" THEN "latch" ELSE "bootLog"
  /\ UNCHANGED <<hardware, poll, ctx, attempt, nextPoll, mLeft, req>>

\* PowerManager::establishManualLatch up to its wait for TF.
ProgramLatch ==
  /\ pc = "latch"
  /\ \E w \in WriteOutcomes(TimerWrites) :
       /\ chip' = ConfigureTimer(chip, "64Hz", LatchCount, w.writes)
       /\ pc' = IF w.ok THEN "latchWait" ELSE "bootLog"
       /\ boot' = [boot EXCEPT !.latched = w.ok]
  /\ UNCHANGED <<now, timeValid, button, flash, ctx, attempt, ram, seen,
                 nextPoll, mLeft, req, ready>>

\* TF is seen asserted: the latch is confirmed and pcfStatus_ read again.
ConfirmLatch ==
  /\ pc = "latchWait"
  /\ "TF" \in chip.flags \intersect chip.enabled
  /\ \E s \in Observations :
       seen' = [seen EXCEPT !.comm = s.comm, !.flags = s.flags]
  /\ pc' = "bootLog"
  /\ UNCHANGED <<hardware, flash, ctx, attempt, ram, session>>

\* The bounded wait ends without TF having been read.
LatchTimeout ==
  /\ pc = "latchWait"
  /\ "i2c" \in Faults
  /\ boot' = [boot EXCEPT !.latched = FALSE]
  /\ pc' = "bootLog"
  /\ UNCHANGED <<hardware, flash, ctx, attempt, ram, seen, nextPoll, mLeft,
                 req, ready>>

\* The boot event is appended and a reboot marker, once it has served to
\* classify this boot, is cleared; a failed commit is only logged.
LogBoot ==
  /\ pc = "bootLog"
  /\ nextPoll' = poll
  /\ ram' = IF ready THEN [ram EXCEPT !.expected = "none"] ELSE ram
  /\ \E ok \in SaveOutcomes : Commit(ram', ok /\ ready)
  /\ pc' = "bootDecide"
  /\ UNCHANGED <<hardware, poll, ctx, attempt, seen, boot, mLeft, req, ready>>

\* An alarm that this boot was not classified by fails a pending schedule.
AlarmMismatch == boot.alarm /\ boot.reason # "scheduled" /\ ram.sched = "pending"

\* The end of begin: fault, maintenance, or a measurement cycle.
DecideBoot ==
  /\ pc = "bootDecide"
  /\ IF ~boot.latched \/ seen.comm = "lost"
       THEN /\ pc' = "fault"
            /\ UNCHANGED <<ram, nvs>>
       ELSE /\ ram' = IF AlarmMismatch THEN [ram EXCEPT !.sched = "failed"] ELSE ram
            /\ \E ok \in SaveOutcomes : Commit(ram', ok /\ AlarmMismatch)
            /\ pc' = IF boot.reason \in {"ota", "maintenance", "scheduled", "manual"}
                       THEN "enter" ELSE "acquire"
  /\ UNCHANGED <<hardware, poll, ctx, attempt, seen, session>>

-----------------------------------------------------------------------------
(* The measurement cycle: acquire, filter, verify, transmit *)

\* Acquire, filter and verify.  Allocating the sequence number saves the whole
\* RAM image; without a number nothing is transmitted.  A suspicious result
\* asks for the shortest interval.
Acquire ==
  /\ pc = "acquire"
  /\ \E ok \in SaveOutcomes :
       /\ Commit(ram, ok /\ ready)
       /\ pc' = IF ok /\ ready THEN "transmit" ELSE "stored"
  /\ nextPoll' \in {1, poll}
  /\ ctx' = "cycle"
  /\ UNCHANGED <<hardware, poll, attempt, ram, seen, boot, mLeft, req, ready>>

ExchangeEnds == IF ctx = "cycle" THEN "stored" ELSE "commandDone"

\* Telemetry goes out and no matching ACK comes back.
TransmitUnanswered ==
  /\ pc = "transmit"
  /\ seen' \in Observations
  /\ pc' = IF ctx = "cycle" THEN "stored" ELSE ctx
  /\ ctx' = "cycle"
  /\ UNCHANGED <<hardware, flash, attempt, ram, session>>

\* A matching ACK arrives.  NodeApp::synchronizeRtc takes its time g, if it
\* brings one: the chip is written when its own time is unknown or differs.
TransmitAnswered ==
  /\ pc = "transmit"
  /\ \/ /\ seen' \in Observations
        /\ UNCHANGED <<hardware, ram>>
     \/ \E g \in GatewayTimes, s \in Observations, w \in WriteOutcomes(1) :
          LET needed == s.clock # "valid" \/ s.time # g
              synced == ~needed \/ w.ok
          IN  /\ now' = IF needed /\ w.writes = 1 THEN g ELSE now
              /\ timeValid' = (timeValid \/ (needed /\ w.writes = 1))
              /\ UNCHANGED <<button, chip>>
              /\ \/ synced /\ seen' = [s EXCEPT !.clock = "valid", !.time = g]
                 \/ ~synced /\ seen' \in Observations'
              /\ ram' = IF synced /\ ctx = "maint" /\ ram.active /\ ram.deadline = 0
                          THEN [ram EXCEPT !.deadline = g + mLeft] ELSE ram
  /\ pc' = "command"
  /\ UNCHANGED <<flash, ctx, attempt, session>>

\* The ACK holds no command, or one that is refused before it has an effect.
CommandNone ==
  /\ pc = "command"
  /\ pc' = ExchangeEnds
  /\ UNCHANGED <<hardware, flash, ctx, attempt, ram, seen, session>>

\* ENTER_MAINTENANCE is applied; in a running maintenance it changes nothing.
CommandEnter ==
  /\ pc = "command" /\ ready
  /\ req' = IF ctx = "maint" THEN req ELSE req \union {"enter"}
  /\ \E ok \in SaveOutcomes : Commit(ram, ok)
  /\ pc' = ExchangeEnds
  /\ UNCHANGED <<hardware, poll, ctx, attempt, ram, seen, boot, nextPoll,
                 mLeft, ready>>

\* SET_POLL_INTERVAL is applied: the configuration is stored, then adopted.
CommandPoll ==
  /\ pc = "command" /\ ready
  /\ poll' \in PollChoices
  /\ nextPoll' = poll'
  /\ \E ok \in SaveOutcomes : Commit(ram, ok)
  /\ pc' = ExchangeEnds
  /\ UNCHANGED <<hardware, ctx, attempt, ram, seen, boot, mLeft, req, ready>>

\* SCHEDULE_MAINTENANCE_AT, NodeApp::applyMaintenanceSchedule up to its commit.
\* A failed commit reports a storage error but leaves the RAM image changed.
CommandSchedule(target) ==
  /\ pc = "command" /\ ready
  /\ \E s \in Observations :
       /\ seen' = s
       /\ IF s.clock # "valid" \/ target <= s.time
            THEN /\ pc' = ExchangeEnds
                 /\ UNCHANGED <<ram, nvs>>
            ELSE /\ ram' = [ram EXCEPT !.sched = "pending", !.target = target]
                 /\ \E ok \in SaveOutcomes :
                      /\ Commit(ram', ok)
                      /\ pc' = IF ok THEN "schedule" ELSE ExchangeEnds
  /\ UNCHANGED <<hardware, poll, ctx, attempt, session>>

\* The rest of it: the alarm is programmed now, or the schedule fails.
ProgramSchedule ==
  /\ pc = "schedule"
  /\ \E w \in WriteOutcomes(AlarmWrites) :
       /\ chip' = ConfigureAlarm(chip, ram.target, w.writes)
       /\ ram' = IF w.ok THEN ram ELSE [ram EXCEPT !.sched = "failed"]
       /\ \E ok \in SaveOutcomes : Commit(ram', ok)
  /\ pc' = ExchangeEnds
  /\ UNCHANGED <<now, timeValid, button, poll, ctx, attempt, seen, session>>

\* The end of transmitStage: history and state are written, then the node
\* enters maintenance or shuts down.
Store ==
  /\ pc = "stored"
  /\ \E ok \in SaveOutcomes : Commit(ram, ok /\ ready)
  /\ pc' = IF "enter" \in req THEN "enter" ELSE "persist"
  /\ req' = req \ {"enter"}
  /\ UNCHANGED <<hardware, poll, ctx, attempt, ram, seen, boot, nextPoll,
                 mLeft, ready>>

-----------------------------------------------------------------------------
(* Maintenance, and the portal that also runs during a fault *)

\* The window that is about to be entered is one that already runs.
WindowForgotten == FALSE   \* Defect: every entry opens a new window.

WindowContinues == ready /\ ram.active

\* Defects: a passed deadline underflows, or is not consulted at all.
LifetimeUnderflows ==
  IF ram.deadline = 0 \/ seen.clock # "valid" THEN 0 ELSE Smaller(Life, ram.deadline - seen.time)

LifetimeRestarts == Life

\* What is left of a window that survived a reset: nothing without a deadline
\* in the future that the clock can be trusted about.
ResumedLifetime ==
  IF ram.deadline = 0 \/ seen.clock # "valid" \/ seen.time >= ram.deadline
    THEN 0 ELSE Smaller(Life, ram.deadline - seen.time)

\* NodeApp::enterMaintenance: a new window gets a durable deadline; a window
\* that survived a reset keeps its own.
EnterMaintenance ==
  /\ pc = "enter"
  /\ IF WindowContinues
       THEN /\ mLeft' = ResumedLifetime
            /\ UNCHANGED <<ram, nvs>>
       ELSE /\ mLeft' = Life
            /\ ram' = IF ~ready THEN ram
                      ELSE [ram EXCEPT !.active = TRUE,
                              !.deadline = IF seen.clock = "valid" THEN seen.time + Life ELSE 0]
            /\ \E ok \in SaveOutcomes : Commit(ram', ok /\ ready)
  /\ pc' \in {"maint"} \union (IF "portal" \in Faults THEN {"finish"} ELSE {})
  /\ UNCHANGED <<hardware, poll, ctx, attempt, seen, boot, nextPoll, req, ready>>

\* Defect: a window whose end the clock cannot tell is not ended.
ExpiresByClockOnly ==
  /\ pc = "maint" /\ mLeft = 0 /\ ram.deadline # 0
  /\ pc' = "finish"
  /\ UNCHANGED <<hardware, flash, ctx, attempt, ram, seen, session>>

\* The loop honours what the portal scheduled before it looks at the deadline.
MaintenanceExpires ==
  /\ pc = "maint" /\ mLeft = 0
  /\ pc' = "finish"
  /\ UNCHANGED <<hardware, flash, ctx, attempt, ram, seen, session>>

HonourExit ==
  /\ pc = "maint" /\ "exit" \in req
  /\ req' = req \ {"exit"}
  /\ pc' = "finish"
  /\ UNCHANGED <<hardware, flash, ctx, attempt, ram, seen, boot, nextPoll,
                 mLeft, ready>>

\* A request is served by the loop, which ends at the deadline.
PortalRuns == (pc = "maint" /\ mLeft > 0) \/ pc = "fault"

\* POST /api/maintenance/exit: takes effect 500 ms later.
RequestExit ==
  /\ PortalRuns
  /\ req' = req \union {"exit"}
  /\ UNCHANGED <<hardware, flash, pc, ctx, attempt, ram, seen, boot, nextPoll,
                 mLeft, ready>>

\* POST /api/reboot and /api/ota: NodeApp::prepareReboot succeeds and makes the
\* marker durable; the reboot itself follows 500 or 800 ms later.
PrepareReboot(mode) ==
  /\ PortalRuns /\ ready
  /\ IntLow(chip) /\ timeValid
  /\ seen' \in {s \in Observations : s.clock # "error"}
  /\ LET deadline == IF ram.deadline # 0 THEN ram.deadline
                     ELSE now + (IF pc = "maint" THEN mLeft ELSE 0)
     IN  /\ deadline <= Horizon   \* a bound: the clock stops there
         /\ ram' = [ram EXCEPT !.active = TRUE, !.deadline = deadline,
                               !.expected = mode]
  /\ nvs' = ram'
  /\ req' = req \union {"reboot"}
  /\ UNCHANGED <<hardware, poll, pc, ctx, attempt, boot, nextPoll, mLeft, ready>>

\* POST /api/measure: a full measurement, committed like the cycle's.
MeasureNow ==
  /\ PortalRuns
  /\ \E ok \in SaveOutcomes : Commit(ram, ok)
  /\ nextPoll' \in {1, poll}
  /\ UNCHANGED <<hardware, poll, pc, ctx, attempt, ram, seen, boot, mLeft, req,
                 ready>>

\* PUT /api/config and calibration: the interval takes effect for this cycle.
ApplyConfiguration ==
  /\ PortalRuns
  /\ poll' \in PollChoices
  /\ nextPoll' = poll'
  /\ UNCHANGED <<hardware, nvs, pc, ctx, attempt, ram, seen, boot, mLeft, req,
                 ready>>

\* POST /api/radio/test: a real exchange, whose ACK may carry a command.
RadioTest ==
  /\ PortalRuns
  /\ \E ok \in SaveOutcomes : ok /\ Commit(ram, ok)
  /\ ctx' = pc
  /\ pc' = "transmit"
  /\ UNCHANGED <<hardware, poll, attempt, ram, seen, session>>

\* sendRadioTest after the command: outside maintenance ENTER_MAINTENANCE is
\* obeyed, and the metadata is committed either way (entering commits too).
RadioTestDone ==
  /\ pc = "commandDone"
  /\ \E ok \in SaveOutcomes : Commit(ram, ok /\ ready)
  /\ pc' = IF "enter" \in req THEN "enter" ELSE ctx
  /\ req' = req \ {"enter"} /\ ctx' = "cycle"
  /\ UNCHANGED <<hardware, poll, attempt, ram, seen, boot, nextPoll,
                 mLeft, ready>>

\* NodeApp::finishMaintenance: the window is over, and a schedule it served is
\* completed, whether this boot or the still asserted alarm says so.
FinishMaintenance ==
  /\ pc = "finish"
  /\ IF ~ready
       THEN /\ pc' = "persist"
            /\ UNCHANGED <<ram, nvs, seen>>
       ELSE \E s \in Observations, ok \in SaveOutcomes :
              LET served == \/ boot.reason = "scheduled"
                            \/ Classify(s, "none", ram) = "scheduled"
              IN  /\ seen' = s
                  /\ ram' = [ram EXCEPT !.active = FALSE, !.deadline = 0,
                               !.sched = IF served THEN "completed" ELSE @]
                  /\ Commit(ram', ok)
                  /\ pc' = IF ok THEN "persist" ELSE "fault"
  /\ UNCHANGED <<hardware, poll, ctx, attempt, session>>

-----------------------------------------------------------------------------
(* Shutting down: NodeApp::finalPowerOff and PowerManager::programNextWake *)

\* Everything critical is written first; the portal is stopped.
Persist ==
  /\ pc = "persist"
  /\ \E ok \in SaveOutcomes :
       /\ Commit(ram, ok /\ ready)
       /\ \/ ok /\ ready /\ pc' = "timer" /\ ctx' = "final"
          \/ /\ ~(ok /\ ready) \/ "history" \in Faults
             /\ pc' = "fault" /\ UNCHANGED ctx
  /\ UNCHANGED <<hardware, poll, attempt, ram, seen, session>>

WakeMinutes == IF ctx = "retry" THEN poll ELSE nextPoll

\* programNextWake has verified its work.
WakeProgrammed ==
  /\ pc' = CASE ctx = "final" -> "inspect" [] ctx = "recover" -> "recheck"
             [] OTHER -> "persist"
  /\ nextPoll' = WakeMinutes
  /\ ctx' = "cycle" /\ attempt' = 1
  /\ UNCHANGED nvs

\* Defect: without a programmed wake the shutdown goes on.
WakeFailureIgnored ==
  /\ pc' = "inspect" /\ attempt' = 1 /\ ctx' = "cycle"
  /\ UNCHANGED <<nvs, nextPoll>>

\* programNextWake has failed: finalPowerOff tries three times, the others once.
WakeFailed ==
  /\ IF ctx = "final" /\ attempt < 3
       THEN /\ pc' = "timer" /\ attempt' = attempt + 1
            /\ UNCHANGED <<nvs, ctx>>
       ELSE /\ pc' = "fault" /\ attempt' = 1 /\ ctx' = "cycle"
            /\ \E ok \in SaveOutcomes : Commit(ram, ok /\ ctx = "final")
  /\ UNCHANGED nextPoll

WakeContinues(step) == pc' = step /\ UNCHANGED <<nvs, ctx, attempt, nextPoll>>

WakeStep == UNCHANGED <<now, timeValid, button, poll, ram, seen, boot, mLeft,
                        req, ready>>

ProgramTimer ==
  /\ pc = "timer"
  /\ \E w \in WriteOutcomes(TimerWrites) :
       /\ chip' = ConfigureTimer(chip, "minute", WakeMinutes, w.writes)
       /\ IF w.ok
            THEN WakeContinues(IF ram.sched = "pending" THEN "alarm" ELSE "alarmCheck")
            ELSE WakeFailed
  /\ WakeStep

\* A pending schedule has its alarm written again on every shutdown.
ProgramAlarm ==
  /\ pc = "alarm"
  /\ \E w \in WriteOutcomes(AlarmWrites) :
       /\ chip' = IF ram.target = 0 THEN chip
                  ELSE ConfigureAlarm(chip, ram.target, w.writes)
       /\ IF w.ok /\ ram.target # 0 THEN WakeContinues("verify") ELSE WakeFailed
  /\ WakeStep

\* AF may be what holds the power: its enable is left for the final release.
AlarmNeverSpared == FALSE   \* Defect: an unused alarm is always disabled.

AlarmSpared == "AF" \in chip.flags

\* Without a pending schedule the alarm is disabled, unless it is spared.
CheckAlarm ==
  /\ pc = "alarmCheck"
  /\ \/ WakeContinues(IF AlarmSpared THEN "verify" ELSE "alarmOff")
     \/ "i2c" \in Faults /\ WakeFailed
  /\ UNCHANGED chip
  /\ WakeStep

DisableUnusedAlarm ==
  /\ pc = "alarmOff"
  /\ \E w \in WriteOutcomes(AlarmWrites) :
       /\ chip' = DisableAlarm(chip, w.writes)
       /\ IF w.ok THEN WakeContinues("verify") ELSE WakeFailed
  /\ WakeStep

\* Defect: a countdown that has not moved yet is not accepted.
WakeVerifiedTooStrict ==
  /\ chip.timer = "minute" /\ "TF" \in chip.enabled
  /\ chip.count \in 1..(WakeMinutes - 1)

\* PowerManager::verifyNextWake
WakeVerified ==
  /\ chip.timer = "minute" /\ "TF" \in chip.enabled
  /\ chip.count \in 1..WakeMinutes
  /\ IF ram.sched = "pending"
       THEN AlarmArmedFor(chip, ram.target)
       ELSE \/ chip.alarm = NoAlarm /\ "AF" \notin chip.enabled
            \/ "AF" \in chip.flags \intersect chip.enabled

VerifyWake ==
  /\ pc = "verify"
  /\ \/ WakeVerified /\ WakeProgrammed
     \/ (~WakeVerified \/ "i2c" \in Faults) /\ WakeFailed
  /\ UNCHANGED chip
  /\ WakeStep

\* Defect: an alarm that came due while the wake was programmed is not noticed.
InspectionIgnoresAlarm ==
  /\ pc = "inspect" /\ pc' = "event"
  /\ seen' \in Observations
  /\ UNCHANGED <<hardware, flash, ctx, attempt, ram, session>>

\* The status the release will act on.  An alarm that came due meanwhile opens
\* its maintenance window; one that is no evidence of the target fails the
\* schedule, and the wake is programmed again without it.
InspectAlarm ==
  /\ pc = "inspect"
  /\ \E s \in Observations :
       LET unserved == "AF" \in s.flags /\ ram.sched = "pending"
           due == /\ s.clock = "valid" /\ s.time >= ram.target
                  /\ s.time - ram.target <= Window
       IN  /\ seen' = s
           /\ \/ /\ ~unserved
                 /\ pc' = "event"
                 /\ UNCHANGED <<ram, nvs, boot, ctx>>
              \/ /\ unserved /\ due
                 /\ boot' = [boot EXCEPT !.reason = "scheduled", !.alarm = TRUE]
                 /\ pc' = "enter"
                 /\ UNCHANGED <<ram, nvs, ctx>>
              \/ /\ unserved /\ ~due
                 /\ ram' = [ram EXCEPT !.sched = "failed"]
                 /\ \E ok \in SaveOutcomes :
                      /\ Commit(ram', ok)
                      /\ pc'  = IF ok THEN "timer" ELSE "fault"
                      /\ ctx' = IF ok THEN "recover" ELSE ctx
                 /\ UNCHANGED boot
  /\ UNCHANGED <<hardware, poll, attempt, nextPoll, mLeft, req, ready>>

RecheckStatus ==
  /\ pc = "recheck"
  /\ \E s \in Observations :
       /\ seen' = s
       /\ pc' = IF s.clock = "error" THEN "fault" ELSE "event"
  /\ UNCHANGED <<hardware, flash, ctx, attempt, ram, session>>

\* The power event of this boot records the attempt before it is made.
RecordEvent ==
  /\ pc = "event"
  /\ \E ok \in SaveOutcomes :
       /\ Commit(ram, ok)
       /\ pc' = IF ok THEN "release" ELSE "fault"
  /\ UNCHANGED <<hardware, poll, ctx, attempt, ram, seen, session>>

\* PowerManager::releaseActiveFlags with the flags seen at "inspect": the point
\* of no return.  Nothing seen, or a failed read, changes nothing.
Release ==
  /\ pc = "release"
  /\ \/ /\ seen.flags # {}
        /\ chip' = ReleaseInterruptFlags(chip, seen.flags, ram.sched # "pending")
        /\ pc' \in {"released"} \union (IF "i2c" \in Faults THEN {"fault"} ELSE {})
     \/ /\ seen.flags = {} \/ "i2c" \in Faults
        /\ UNCHANGED chip
        /\ pc' = "fault"
  /\ UNCHANGED <<now, timeValid, button, poll, ctx, attempt, ram, seen, session>>
  /\ \E ok \in SaveOutcomes : Commit(ram, ok /\ pc' = "fault")

\* If there still is power, the success is recorded and the node goes inert.
ReleaseRecorded ==
  /\ pc = "released"
  /\ \E ok \in SaveOutcomes : Commit(ram, ok)
  /\ pc' = "powerOff"
  /\ UNCHANGED <<hardware, poll, ctx, attempt, ram, seen, session>>

\* NodeApp::faultLoop, every 30 s: program a normal wake and shut down again.
FaultRetry ==
  /\ pc = "fault" /\ ready
  /\ seen' \in {s \in Observations : s.comm = "ok"}
  /\ ctx' = "retry" /\ pc' = "timer"
  /\ UNCHANGED <<hardware, flash, attempt, ram, session>>

-----------------------------------------------------------------------------
(* The rail, the processor and the operator *)

\* RAM and program are gone; the values are placeholders until Boot.
LoseRam ==
  /\ ram' = FreshState /\ ready' = FALSE /\ seen' = Blind /\ boot' = NoBoot
  /\ nextPoll' = 1 /\ mLeft' = 0 /\ req' = {} /\ ctx' = "cycle" /\ attempt' = 1

Running == pc # "off"

PowerHeld == IntLow(chip) \/ button

\* The battery switch opens: the only way a node powers itself off.
RailDrops ==
  /\ Running /\ ~PowerHeld
  /\ pc' = "off"
  /\ LoseRam
  /\ UNCHANGED <<hardware, flash>>

RailRises ==
  /\ ~Running /\ PowerHeld
  /\ pc' = "boot"
  /\ UNCHANGED <<hardware, flash, ctx, attempt, ram, seen, session>>

\* ESP.restart() once the portal's delay has passed, from either loop.
HonourReboot ==
  /\ pc \in {"maint", "fault"} /\ "reboot" \in req
  /\ pc' = "boot"
  /\ LoseRam
  /\ UNCHANGED <<hardware, flash>>

\* Watchdog, panic or brownout.
Reset ==
  /\ "reset" \in Faults
  /\ pc \notin {"off", "boot"}
  /\ pc' = "boot"
  /\ LoseRam
  /\ UNCHANGED <<hardware, flash>>

\* A minute passes.  The loop looks at an expired lifetime every 2 ms and an
\* open switch drops the rail at once, so no minute passes before they have.
\* An accepted target is 60 s away or more: the alarm is programmed before it.
\* At the Horizon the clock stops, but a lifetime, which millis() measures,
\* still runs out.
Tick ==
  /\ now < Horizon \/ mLeft > 0
  /\ Running => PowerHeld
  /\ pc # "schedule" /\ ~(pc = "maint" /\ mLeft = 0)
  /\ now'  = Smaller(now + 1, Horizon)
  /\ chip' = IF now < Horizon THEN MinuteElapsed(chip, now + 1) ELSE chip
  /\ mLeft' = IF mLeft = 0 THEN 0 ELSE mLeft - 1
  /\ UNCHANGED <<timeValid, button, flash, pc, ctx, attempt, ram, seen, boot,
                 nextPoll, req, ready>>

LatchTimerFires ==
  /\ chip.timer = "64Hz" /\ "TF" \notin chip.flags
  /\ chip' = FastTimerElapsed(chip)
  /\ UNCHANGED <<now, timeValid, button, flash, pc, ctx, attempt, ram, seen,
                 session>>

PressButton ==
  /\ ~button /\ button' = TRUE
  /\ UNCHANGED <<now, timeValid, chip, flash, pc, ctx, attempt, ram, seen, session>>

ReleaseButton ==
  /\ button /\ button' = FALSE
  /\ UNCHANGED <<now, timeValid, chip, flash, pc, ctx, attempt, ram, seen, session>>

-----------------------------------------------------------------------------
(* Specification *)

Init ==
  /\ now = 1
  /\ timeValid \in BOOLEAN
  /\ button = FALSE
  /\ chip = ResetChip
  /\ nvs = FreshState
  /\ poll \in PollChoices
  /\ pc = "off" /\ ctx = "cycle" /\ attempt = 1
  /\ ram = FreshState /\ ready = FALSE /\ seen = Blind
  /\ boot = NoBoot /\ nextPoll = 1 /\ mLeft = 0 /\ req = {}

Booting == Boot \/ ProgramLatch \/ ConfirmLatch \/ LatchTimeout \/ LogBoot \/ DecideBoot

Commands ==
  \/ CommandNone \/ CommandEnter \/ CommandPoll
  \/ \E target \in Targets : CommandSchedule(target)
  \/ ProgramSchedule

Cycling == Acquire \/ TransmitUnanswered \/ TransmitAnswered \/ Commands \/ Store

Maintaining == EnterMaintenance \/ MaintenanceExpires \/ HonourExit \/ HonourReboot
               \/ RadioTestDone \/ FinishMaintenance

ShuttingDown ==
  \/ Persist \/ ProgramTimer \/ ProgramAlarm \/ CheckAlarm \/ DisableUnusedAlarm
  \/ VerifyWake \/ InspectAlarm \/ RecheckStatus \/ RecordEvent \/ Release
  \/ ReleaseRecorded \/ FaultRetry

Firmware == Booting \/ Cycling \/ Maintaining \/ ShuttingDown

Operator ==
  \/ PressButton \/ ReleaseButton
  \/ RequestExit \/ MeasureNow \/ ApplyConfiguration \/ RadioTest
  \/ \E mode \in RebootModes : PrepareReboot(mode)

Environment == RailDrops \/ RailRises \/ Reset \/ Tick \/ LatchTimerFires

Next == Firmware \/ Operator \/ Environment

Spec == Init /\ [][Next]_vars

\* The loop task keeps running while powered, the clock keeps counting, nobody
\* holds the button forever, and the rail follows the switch within microseconds,
\* so it does even if the operator presses and releases again and again.
Fairness ==
  /\ WF_vars(Firmware) /\ SF_vars(Maintaining) /\ SF_vars(FaultRetry)
  /\ SF_vars(Tick) /\ WF_vars(LatchTimerFires)
  /\ SF_vars(RailDrops) /\ SF_vars(RailRises)
  /\ WF_vars(ReleaseButton)

FairSpec == Spec /\ Fairness

-----------------------------------------------------------------------------
(* Safety *)

\* The chip never stops asserting INT, whoever makes it stop, unless its minute
\* timer is set to assert it again: no partial register write, failed commit,
\* reset or final release leaves a node that nothing will ever wake.
\* (node_app.cpp finalPowerOff, power_manager.cpp programNextWake)
PowerGivenUpArmed ==
  [][IntLow(chip) /\ ~IntLow(chip') => MinuteTimerArmed(chip')]_vars

\* When the final release cuts the power, a schedule that flash still calls
\* pending has its alarm programmed for its very target and enabled.
\* (node_app.cpp:731-745)
ReleaseKeepsAlarm ==
  [][pc = "release" /\ nvs.sched = "pending" /\ ~IntLow(chip')
       => AlarmArmedFor(chip', nvs.target)]_vars

\* AF, the only evidence that a scheduled time has come, is never cleared while
\* flash still calls the schedule pending. (docs/power-management.md:36)
AlarmFlagKept ==
  []["AF" \in chip.flags \ chip'.flags => nvs.sched # "pending"]_vars

\* The steps that must not depend on the operator's finger: everything after
\* the latch of a boot is settled and before the flags are given up.
HoldingSteps ==
  Steps \ {"off", "boot", "latch", "latchWait", "released", "powerOff", "fault"}

\* AF, while its interrupt is disabled: a schedule was given up with AF spared as
\* the latch, and its alarm has come due after all.
OrphanedAlarm == "AF" \in chip.flags \ chip.enabled

\* From the end of its boot to the final release the node is held on by the
\* chip itself: no step there loses the latch, and no boot goes on without one,
\* but a boot that finds an orphaned AF and nothing else.
\* (README.md:27-28, node_app.cpp:136-169, power_manager.cpp:113-119)
LatchHeld ==
  [][pc' \in HoldingSteps /\ ~IntLow(chip') => ~IntLow(chip) /\ OrphanedAlarm]_vars

\* The deadline of a maintenance window that flash holds open is never moved
\* to a later time that is still to come, by no reset, reboot or request.
\* (node_app.cpp:555-574, 902-916)
DeadlineNeverExtended ==
  [][nvs.active /\ nvs'.active /\ nvs.deadline # 0
       => nvs'.deadline <= nvs.deadline \/ nvs'.deadline <= now]_vars

(* What the proofs add to TypeOK: why the release may be trusted. *)

\* Once programNextWake has set the minute timer, it stays set until the node
\* goes off; the countdown reloads itself.
WakeArmed ==
  pc \in {"alarm", "alarmCheck", "alarmOff", "verify", "inspect", "recheck",
          "event", "release"} => MinuteTimerArmed(chip)

\* The exchange serves the cycle or the portal, its end only the portal, and a
\* recovery is never left behind by programNextWake.
ContextSettled ==
  /\ pc \in {"transmit", "command", "schedule", "commandDone"}
       => ctx \in {"cycle", "maint", "fault"}
  /\ pc = "commandDone" => ctx # "cycle"
  /\ ctx = "recover" => pc \in {"timer", "alarm", "alarmCheck", "alarmOff", "verify"}

\* Past its verification a pending schedule has its alarm, and the paths that
\* disable the alarm or recover from a stray one have no pending schedule.
AlarmSettled ==
  /\ pc \in {"verify", "inspect", "recheck", "event", "release"} /\ ram.sched = "pending"
       => AlarmArmedFor(chip, ram.target)
  /\ pc \in {"alarmCheck", "alarmOff"} => ram.sched # "pending"
  /\ ctx = "recover" => ram.sched # "pending"
  /\ pc = "recheck" => ram.sched # "pending"

\* The release acts on what flash holds, and on AF only if the schedule is over.
ReleaseSettled ==
  /\ pc = "release" => nvs = ram
  /\ pc \in {"event", "release"} /\ "AF" \in seen.flags => ram.sched # "pending"

ReleaseInv == ContextSettled /\ WakeArmed /\ AlarmSettled /\ ReleaseSettled

(* Why the latch holds while no bus transfer fails and the portal reboots nothing: *)
(* TF is never set without its interrupt, an alarm is only disabled while TF is    *)
(* set, and no marker keeps a boot by the button from programming its latch.       *)

LatchInv ==
  /\ pc \in HoldingSteps \union {"fault"} => IntLow(chip) \/ OrphanedAlarm
  /\ chip.timer # "off" \/ "TF" \in chip.flags => "TF" \in chip.enabled
  /\ pc = "alarmOff" => "TF" \in chip.flags
  /\ nvs.expected = "none" /\ ram.expected = "none"

(* Why a deadline stays while commits succeed: RAM and flash have the same window. *)

WindowInv ==
  IF ready THEN /\ nvs.active = ram.active
                /\ ram.active => nvs.deadline \in {0, ram.deadline}
  ELSE ~ram.active

-----------------------------------------------------------------------------
(* Liveness, under FairSpec *)

\* AF or TF was asserted after the firmware last looked: it has released what
\* it saw, believes it is off, and still has power. (node_app.cpp:266-271)
Stranded == pc = "powerOff" /\ IntLow(chip)

\* The fault loop that cannot program a wake, see AlarmDisabledLater.
Trapped == pc = "fault" /\ OrphanedAlarm

\* A measurement cycle is never stuck: it ends in a maintenance window or with
\* its flags released, unless an orphaned alarm traps it.
\* (node_app.cpp:240-276, 483-521)
CycleEnds == pc = "acquire" ~> (pc \in {"off", "maint", "powerOff"} \/ Trapped)

\* Maintenance is bounded: every window, whatever is requested of the portal
\* meanwhile, ends with the node giving up its power, unless an orphaned alarm
\* traps it. (node_app.cpp:594-618)
MaintenanceEnds == pc = "maint" ~> (pc \in {"off", "powerOff"} \/ Trapped)

\* A node that gives up its power is booting again within a poll interval,
\* unless it could not give it up. (docs/power-management.md:13)
NextWake == (pc = "released" /\ now + poll <= Horizon) ~> (pc = "boot" \/ Stranded)

\* A schedule that a node held on by its latch accepts is settled, as completed
\* or as failed, or replaced by another, unless its alarm is stranded. (A boot
\* that a stale reboot marker classifies, see MarkerConsumed, has no latch.)
\* (node_app.cpp:221-227, 633-635, 692-706)
ScheduleServed ==
  \A t \in Targets :
    (pc = "schedule" /\ IntLow(chip) /\ nvs.target = t /\ t <= Horizon)
      ~> (nvs.sched # "pending" \/ nvs.target # t \/ Stranded)

-----------------------------------------------------------------------------
(* What the documents and comments claim and the code does not keep.  Each is *)
(* the property of a run that exhibits the disagreement.                      *)

\* docs/ota.md:14: the reboot marker is consumed by the reboot it announces, so
\* a node that has powered itself off holds none.
MarkerConsumed == pc = "off" => nvs.expected = "none"

\* docs/ota.md:9-12: a reboot within the alarm window of a scheduled maintenance
\* does not fail the schedule.
OtaKeepsSchedule ==
  [][ram.sched = "pending" /\ ram'.sched = "failed"
       => ~(now \in ram.target..(ram.target + Window))]_vars

\* power_manager.cpp:113-115: the registers of an alarm that was spared as the
\* latch are disabled on a later boot that TF holds.
AlarmDisabledLater ==
  pc = "verify" /\ ram.sched # "pending" /\ "TF" \in chip.flags
    => chip.alarm = NoAlarm \/ "AF" \in chip.flags \intersect chip.enabled

=============================================================================
