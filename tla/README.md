# GATHRA-Node in TLA+

GATHRA-Node is the firmware of a battery-powered water-level node: an ESP32
that a PCF8563 real-time clock switches on, that measures a distance with an
ultrasonic sensor, reports it over LoRa, may be given a command in the answer,
and then cuts its own power. This directory models that firmware in TLA+,
checks it with TLC on small instances and proves part of it with TLAPS for
every value of the constants. Paths below are relative to the repository
(`lib/...` is `src/lib/...` in `PROJECT.json`).

## 1. Inventory

All firmware runs in **one loop task** (`setup` and `loop` in `src/main.cpp`
call `NodeApp::begin` and `NodeApp::run`); web-server callbacks are polled by
that same task. The concurrency is with what is outside: the RTC chip, which
counts, asserts its interrupt and thereby holds the power switch; the operator
at button and portal; the gateway and the air; and resets, which may come
between any two instructions. What survives a reset is the chip's registers
and three kinds of NVS data (state, history, configuration).

| component | state | operations | hard behaviour | what makes it correct |
|---|---|---|---|---|
| **Power lifecycle** (`app/node_app`, `power/power_manager`) | boot reason, next interval, window lifetime, deferred exit and reboot, fault | `begin` and its classification, manual latch, maintenance loop, fault loop, `finalPowerOff`, `programNextWake`, `releaseActiveFlags` | flags assert between the last look and the release; the node's power depends on the registers it writes; every write or commit may fail | never give up power without a programmed wake; never lose the evidence of a due schedule; a window ends, once |
| **PCF8563 driver** (`rtc/pcf8563`) | 16 registers of the chip | `configureTimer`, `configureAlarm`, `disableAlarm`, flag clearing, reading and writing the clock, Unix conversion | Control_status_2 mixes flags and enables; operations of up to seven writes stop half-way; the alarm registers know no month | flags only cleared on purpose; a half-programmed chip still holds its power; what is read as trusted is UTC; the alarm comes when it was meant to |
| **Persistent state** (`storage/persistent_state`) | RAM image, its copy in flash, session | `begin`, `commit`, `allocateSequence`, power events | a failed commit leaves RAM ahead of flash; unreadable state starts a new session | numbers are never used twice; success means durable |
| **Command processing** (`commands/command_processor`) | the one remembered command | `handle`: duplicate, conflict, interrupted receipt, new | reset between receipt, effect and result; failed commit of any of them | at most once, never backwards, never a false success |
| **LoRa radio, retry policy** (`radio`) | attempt counter | `sendTelemetry`, `waitForMatchingAck`, `sendCommandResult` | lost, late, repeated packets; an ACK after its timeout | bounded attempts; only the answer to this telemetry counts |
| **Protocol v3 codec** (`protocol`) | none | encode, decode, `ackMatches` | limits of fields and lengths; every combination the node can send must pass the receiver's checks | decode inverts encode, rejects the rest |
| **Maintenance portal** (`maintenance`) | requests with their delay, upload in progress | routes for status, configuration, measurement, radio test, reboot, exit, OTA | requests race the deadline; an upload outlives its request | nothing extends a window; nothing bricks the node |
| **History ring** (`history`) | metadata (twice), record slots | `begin`, `append`, `at`, page and chart queries | reset between slot and metadata, counter wrap, blobs that no longer verify, an append between two pages | a bounded log: chronological, found again after a restart, read as it is |
| **Configuration store** (`config_storage`, `config`) | two values, the read-only legacy copy | `load`, `save`, migration, `applyConfiguration` | two puts, one configuration; the radio moves first | an acknowledged configuration stays, a superseded one never returns |
| **Measurement filter** (`filtering`) | window, candidate | `evaluate`, `observeVerification`, `finishVerification` | verification spread over readings; votes at their boundaries | a jump needs its votes; no level is shut out for good |
| **Sonar, sensors, battery** (`srf05`, `sensors`, `battery`) | echo edges, burst samples | ping and capture (interrupt to task), burst statistics, scaling | an edge of the last ping in the next one | a reading belongs to its own ping |
| **OTA validation** (`ota`) | two partitions, their otadata | `completeBootValidation`, rollback, hook that delays the mark | power loss inside a trial; which partition may be overwritten | there is always an image to boot |
| **Firmware entry** (`src/main.cpp`) | none | `setup`, `loop` | none: it fixes that there is one task | |
| **Data model** (`data_model`) | none | records and enumerations the others exchange | | |
| **Logging, buzzer, dashboard** | none that matters here | wording, sounds, a page | | |
| **Earlier firmware** (`old-testing-code`) | | bench sketches that no build target compiles | | |

How they interact: `NodeApp` calls everything, by plain calls. The command
processor calls back into `NodeApp` through its environment (persist the
receipt, apply, persist the result). The portal calls back through hooks
(`applyConfiguration`, `measureNow`, `sendRadioTest`, `prepareReboot`). Power
lifecycle, command processing, filter and sequence numbers **share one
persistent image**: any commit by one writes what another has changed in RAM.
History and configuration have NVS values of their own.

The list under `hazards` in `PROJECT.json` says at which line each of the hard
behaviours bites and which property watches it.

## 2. Modules

| module | code | what its state and actions are |
|---|---|---|
| `Pcf8563` | `rtc/pcf8563`, as a register file | pure operators: each multi-register operation takes the number of writes that got through; `MinuteElapsed` and `FastTimerElapsed` are the chip itself (external) |
| `PowerLifecycle` | `app/node_app`, `power/power_manager` | one program counter `pc`; a step per I2C operation, commit or return of the loop; `ram`/`nvs` are the image in RAM and in flash, `seen` the last `refreshRtc`, `ctx` the caller of a shared routine |
| `MaintenanceBudget` | the same | `PowerLifecycle` with a history variable: the minutes a granted window has really been open |
| `CommandExchange` | `commands`, `radio`, `storage/persistent_state`, the exchange in `node_app` | node, gateway and air; packets are sets that only grow, which gives loss, delay, repetition and reordering; a step per commit or packet |
| `CommandService` | none: a promise | abstract: one durable record of the last command, its effect, its windows, what the gateway is told |
| `HistoryRing` | `history/nvs_history`, `history_query`, `appendCurrentHistory`, the portal's pages and chart | metadata in RAM (`ring`) and its two copies, slots; append in two steps; counter modulo `Generations`; `reader` is an operator between two requests |
| `BoundedLog` | none: a promise | abstract: the last `Capacity` entries, oldest first |
| `TemporalFilter` | `filtering/filter`, the filter and verify stages | memory in RAM and in flash, one reading per step; the Hampel test with its integer rounding; smoothing as *any* distance between old value and reading |
| `BootValidation` | `config_storage`, `ota`, `applyConfiguration`, the portal's upload | the two stored values put one by one; the two partitions, the bootloader (external) and the trial boot |
| `EchoCapture` | `srf05`, `SensorSuite::readSonarBurst` | loop task and interrupt handler as two processes over the shared stamps and the task notification; a stamp is named by the pulse it was taken on |
| `RtcCalendar` | the clock half of `rtc/pcf8563` | pure operators: civil calendar, BCD registers, read and write of the clock, the representable schedules; `ChipAdvanced` is the chip's own counting (external) |
| `PacketCodec` | `protocol` | pure operators: the three packets field by field with their widths, encoders, decoders, every check in its order |
| `MeasurementPath` | the poll in `node_app` (`refreshRtc`, `makeTelemetry`, `synchronizeRtc`, `applyMaintenanceSchedule`) | composes the three above: a burst, a telemetry, its answer, the clock and the alarm it sets, and the days between two polls |
| `PowerLifecycleProofs` (with `MaintenanceBudget`), `CommandExchangeProofs` (with `CommandService`), `HistoryRingProofs`, `TemporalFilterProofs`, `BootValidationProofs`, `RtcCalendarProofs`, `PacketCodecProofs`, `MeasurementPathProofs` | | the theorems of section 4; each EXTENDS the module it is about, the last one also the proofs about the two modules of operators it composes |

`PowerLifecycle`, `CommandExchange` and `MeasurementPath` look at the same poll
from three sides: the first keeps what a command does to power and drops its
durability, the second the reverse, and the third keeps real packets, real
dates and a real sensor where the other two have a few values. Each header
names what it leaves out and who has it.

### Promises and their refinement

Two modules say what a component promises and nothing of how: they translate
no code, so `map` has no entry for them, and their clauses cite the comments and
documents they come from. TLC checks the implementation against each of them as
a temporal property.

* `CommandExchange` implements `CommandService` (`ImplementsService`). The
  mapping takes the **durable** record (`flash.command`) for the record, the
  stored configuration for the interval in force, the windows that were opened
  for the windows, and what is being reported for the answer. Packets, sequence
  numbers, the RAM image, retries and resets are stutters. A replaced session is
  the one step that forgets (`Forget`). The promise is weaker than one would
  like in one respect: nothing says that a decided `ENTER_MAINTENANCE` opens its
  window, because the code does not guarantee it (section 6).
* `HistoryRing` implements `BoundedLog` (`ImplementsLog`). The mapping reads the
  entries that a boot would find, or those of the ring in force, in the order
  `at` gives them; slots, generations and copies disappear. What an interrupted
  append, a decayed record and a decayed copy do to the log are actions of the
  abstract module (`Spoil`, `Decay`, `LoseNewest`), so the weak points of the
  history are visible in its promise, and everything else is forbidden.

Three places where a model is deliberately more than the program text:

* `Tick` does not fire while something that takes milliseconds is due (the
  loop's look at an expired lifetime, the rail following the open switch, the
  alarm write after a target that is at least 60 s away).
* a failing I2C operation of `n` writes may have got `0..n` of them through,
  and even all of them when only the readback failed.
* `AlarmSpared`, `WindowContinues`, `VerifyRollbackLater` and other operators
  carry the code's decision under a name of their own, next to a variant
  marked "Defect" or "A bug". The variants are never used by a specification;
  they are the mutations with which each property was shown to have teeth
  (`mutants` in `PROJECT.json`).

## 3. Runs

| run | constants that matter | what it shows |
|---|---|---|
| `PowerBudget` | reboots by the portal, resets; life 2 of 5 minutes | a window interrupted at any step and resumed any number of times is open for one lifetime in all (`BudgetKept`), and its durable deadline never moves to a later one that is still to come (`DeadlineNeverExtended`) |
| `PowerLatch` | targets at 2 and 4 of 5 minutes; failing commits, resets, unreadable or missing state, failing portal and history | from the end of its boot to its release the node is held on by the chip and not by the operator's finger, unless a boot found nothing but an orphaned AF (`LatchHeld`; no reboots here, since a stale reboot marker breaks it, section 6); the inductive invariant of the proofs holds (`ReleaseInv`); the release leaves a schedule that flash calls pending with its alarm (`ReleaseKeepsAlarm`) |
| `PowerChip` | every I2C operation may fail at every write; the gateway may set the clock past the alarm | whoever makes the chip give up the power has its minute timer armed (`PowerGivenUpArmed`); AF is not cleared under a pending schedule (`AlarmFlagKept`) |
| `PowerLiveness` | targets at 3 and 4 of 4 minutes, one possibly taken in the window of the other; no faults, reboots by the portal, every interleaving of chip, button and portal | cycles end (`CycleEnds`) and a window ends whatever is requested of the portal, reboots included (`MaintenanceEnds`), both unless an orphaned alarm traps the node; the node wakes again (`NextWake`); an accepted schedule is settled or replaced (`ScheduleServed`) |
| `Exchange` | 2 commands of all three types, 2 sessions of 2 usable numbers, 3 telemetry packets of 2 attempts, 2 answers; reset, failing commits, unreadable state, reused command numbers | what the gateway is told and what the node does is what `CommandService` allows (`ImplementsService`); a late ACK never takes the node back to an earlier command (`NoStaleCommand`); one window per command (`EnteredOnce`); numbers are never sent twice in a session (`SequenceFresh`); success is reported only of what is durable (`ReportedIsDurable`) and has had its effect (`AppliedHasEffect`); attempts stay bounded (`TypeOK`) |
| `HistoryRing` | ring of 4, 6 numbers, generation counter of 4 values, pages of 2 and 3, charts of 3 points; failed writes, resets, decay | the ring behaves as `BoundedLog` (`ImplementsLog`) and in order (`Chronological`); an operator who pages while the portal appends reads nothing twice or out of order (`ReadInOrder`), and no entry is skipped or shown in another's place (`ReadFaithful`) |
| `TemporalFilter` | distances 1, 2, 5, window 3, rise 2 of 2, fall 3 of 3 | a sudden change is accepted only as the end of a verification with its votes (`JumpIsConfirmed`); flash holds no half verification (a part of `TypeOK`); a level that stays is accepted in the end (`SteadyLevelAccepted`) |
| `BootValidation` | 2 layouts, sound and unsound images, v1 and own-layout legacy copies | a superseded configuration never returns, an acknowledged one survives trials and rollbacks, the radio follows the configuration, some sound image can always be booted |
| `MeasurementPath` | the first and the last four years of the chip's century, day by day; bursts of 3 pings, schedules 0 to 31 days ahead, a drifting clock; torn clock writes, disturbed packets | a valid ping was timed by its own pulse (`PingTimesItsEcho`); a clock that was set and read back is UTC on every day (`ClockIsTrue`); AF comes with its schedule's target and not at an earlier match (`AlarmOnTime`); a receiver accepts a packet if and only if it is the one that was sent (`OnlyIntactAccepted`) |
| `ClaimMarkerConsumed`, `ClaimOtaKeepsSchedule`, `ClaimAlarmDisabledLater` | | the three disagreements of section 6, each as a counterexample |

### Bounds, and why they are enough

* **Clock** (`Horizon`, `Life`, `Targets`): times are minutes. In every run
  the horizon lies beyond a target and beyond a window, so a window can expire,
  survive a reset, be resumed with part of its life and with none; the alarm
  can come before, within and after its window. The clock stops at `Horizon`,
  but running lifetimes still run out; a reboot is only offered to a window
  whose deadline comes before that (a guard of `PrepareReboot`). Only
  differences and order of times matter to that code, so nothing depends on
  their size; calendar dates and their limits are `MeasurementPath`'s.
* **Exchanges** (`LastSequence`, `MaxPackets`, `MaxSessions`, `MaxIssued`): the
  number `LastSequence` is never allocated, so each of the two sessions has two
  usable numbers, and the refusal at the last one is reached. Three packets are
  the least for which an answer to the first can arrive in the third while the
  second command is remembered; with two numbers per session that third
  exchange belongs to the second session, whose numbers repeat those of the
  first. Within one session the runs have an answer that is one exchange late,
  not one that is two late.
* **Answers** (`MaxAnswers`): how many different ACKs are on the air. Staleness
  needs two; each may be received any number of times.
* **Attempts**: two, so that an answer can come after its timeout, while a
  later attempt of the same telemetry waits; the proof of `TypeOK` covers every
  count.
* **Ring**: six numbers through a ring of four fill it, go round and leave an
  entry of each age to be paged over, and its four generations wrap; the code
  compares generations by the sign of their wrapped difference, which behaves
  alike for every power of two from four up. Two page sizes and a chart with
  fewer points than entries reach every branch of the queries.
* **Calendar** (`Starts`, `Span`, `PollDays`, `Ahead`): the two stretches of
  1461 days begin on 1 January 2000 and on 31 December 2095, so each contains a
  leap day and all the month ends; every day is counted by the chip. The node
  polls on five of them: the first day of each stretch, 10 February 2001 and
  31 December 2003 in the first, and the last day of the second. From there
  schedules fall before, on and after the horizon of 27 days that the driver
  accepts, across a short February and across the turn of a year. The clock
  starts one second before midnight, where a read-back a second later is on
  another day. The last day of the century is left out: beyond it the chip's
  year wraps. The run's calendar ends, hence its
  `CHECK_DEADLOCK FALSE`.
* **Filter**: three distances give near, far and in between; the capacity is
  the smallest the code allows (3), and both counts are reached exactly.
* **Configuration**: three of the 35 fields, one per kind of treatment
  (converted, clamped, followed by the radio), each with a valid and an
  invalid or out-of-range value.

### Fairness

Safety runs use none. The liveness runs assume, and the code justifies:

* `WF(Firmware)`: the loop task is the only one and is never suspended; each of
  its waits is bounded by `millis()`.
* `SF(Maintaining)`, `SF(FaultRetry)`: the loop looks at the exit, the reboot
  and the deadline on every pass and at the retry every 30 s, whatever the
  operator asks of the portal between.
* `SF(Tick)`, `WF(LatchTimerFires)`: the chip counts independently of the
  processor.
* `SF(RailDrops)`, `SF(RailRises)`: the switch follows INT and the button
  within microseconds, however often they change.
* `WF(ReleaseButton)`: nobody holds the button for ever.
* `WF(Measuring)` of `TemporalFilter`: every wake measures.

`NextWake` and `ScheduleServed` except `Stranded`: a flag asserted after the
firmware's last look and before the release keeps the power on while the
firmware believes it is off. `CycleEnds` and `MaintenanceEnds` except `Trapped`:
the fault loop of an orphaned alarm, which no retry leaves (section 6).

## 4. Proofs

Proved by TLAPS for **every** value of the constants that satisfies the named
`ASSUME`s of the modules, which state what the code's own limits are (life and
horizon at least one minute, intervals the 8-bit timer can hold, one to 255
attempts, a ring of at least two entries, a filter window of at least three).
A theorem that needs more says so as a hypothesis of its own, and the paragraph
below says why. Each invariant that a proof adds was checked by TLC as well.

**`PowerLifecycleProofs`**, every interval, target, life, window, horizon and
fault set.

* `TypeCorrect`: `TypeOK`, together with `ContextSettled`, since the type of
  `pc` after a shared routine depends on who called it.
* `ReleasePrepared`: `ReleaseInv`, the inductive invariant. It is the argument
  why the release may be trusted, in four parts: from the alarm step on the
  minute timer is armed (`WakeArmed`); past the verification the alarm fits the
  schedule in RAM (`AlarmSettled`); at the release RAM is what flash holds, and
  an AF that was seen has already been accounted for (`ReleaseSettled`); the
  caller of a shared routine is the one expected (`ContextSettled`).
  `PowerGivenUpArmed` alone is not inductive: that no *earlier* step loses the
  power needs the state of the chip after each partial write.
* `PowerNeverLost`, `AlarmEvidenceKept`, `ScheduleKeepsItsAlarm`: the three
  action properties, from that invariant and lemmas on what each chip
  operation, complete or interrupted, does to the interrupt line and the flags.
* `LatchNeverLost`: `LatchHeld`, from `LatchInv`: past its boot the node is held
  by an enabled flag, or an orphaned alarm was there before it; a running timer
  or a raised TF is always enabled; an alarm is disabled only while TF holds
  the power. The hypotheses are needed: after a failed I2C operation the chip
  may hold any part of it, and a stale reboot marker sends a boot by the button
  past its latch (section 6).
* `DeadlineNeverMoves`: `DeadlineNeverExtended`, from `WindowInv`: RAM and flash
  agree about the window. It assumes that commits succeed: a window that ended
  in RAM only is still open in flash when the next one is granted, whose later
  deadline then replaces the old one. Whatever else fails may fail.
* `BudgetIsKept`: `BudgetKept` of `MaintenanceBudget`, from `BudgetInv`: what a
  window has used and what it has left never add up to more than its lifetime;
  a deadline in either image leaves no more than the rest, also as seen from a
  clock reading that is already old. It assumes that the gateway does not set
  the clock (`GatewayTimes = {}`): the deadline is a wall-clock time, and a
  clock set back extends the window by as much. No other fault is excluded.

**`CommandExchangeProofs`**, every number space, count of attempts, packets,
commands and sessions, and every fault.

* `TypeCorrect`, with `ExchangeHeld`: a running exchange has a number that both
  images have already left behind.
* `NumbersNotReused`: `NumberInv` says that every number on the air is below
  the next one of the image of its session, in RAM **and** in flash; RAM alone
  is not enough because of a reset, flash alone because of a failed commit.
* `ReceiptBeforeEffect` (nothing is applied before its receipt is durable),
  `SuccessIsDurable`, `SuccessIsTrue`: `CommandInv`. Its core is `Truthful`:
  what an image says of its command is true of the configuration and the
  schedule.
* `ReusedNumberRejected`: `TypeHeld`, the two images agree about the type of a
  number they both know.

The second half of the module is what needs the gateway's side:

* `NoOlderCommand`: `NoStaleCommand`, from `RequestHeld` (which numbers the
  gateway can still have outstanding) and `RecordHeld` (what RAM and flash know
  of the command while it is handled).
* `WindowOpensOnce`: `EnteredOnce`, from `WindowHeld`: a decided
  `ENTER_MAINTENANCE` that has not been entered is one that is durable, and no
  image can decide it again.
* `ServiceImplemented`: `ImplementsService`, the refinement. Every
  step is a stutter or one named action of `CommandService`; the
  invariants above supply what the abstract guards ask for.

**`HistoryRingProofs`**, every capacity, page size, chart width, number of
generations and set of faults, no further hypothesis. The invariant is
`HistoryInv`. `CopiesHeld`: the metadata in force are what their copy holds, as
far as it verifies, and one append ahead of the other copy, as far as that one
does; hence the sign of the wrapped difference of two generations always names
the newer one. `SlotsHeld`: all entries are ordered but the oldest one, or two
when only the newer copy has decayed, because a boot then goes back by one append
(`Depth`). `ReaderHeld`: what an operator has read is older than
what remains. From it follow `TypeCorrect`, `ShownInOrder` (`Chronological`),
`LeafedInOrder` (`ReadInOrder`), `ReadComplete` (`ReadFaithful`) and, step by
step, `RingImplementsLog`: the refinement of `BoundedLog`.

**`TemporalFilterProofs`**, every set of distances, window, threshold, vote and
tolerance. `TypeCorrect` and `SuddenChangesConfirmed` (`JumpIsConfirmed`), from
`FilterInv`: the candidate of a verification has readings left to take, and all
its samples are within its tolerance. Medians are chosen as k-th smallest
elements; that one exists, and lies between the bounds of the samples, is
proved from the well-foundedness of the naturals rather than by induction.

**`BootValidationProofs`**, every set of values, legacy copies, layouts and
faults: `TypeCorrect`, `NeverSuperseded`, `AcknowledgedKept` and
`RadioFollows` from `ConfigInv`, whose core `GhostHeld` says which halves of
which saves flash may hold. `AlwaysAnImage` (`AlwaysBootable`, from `ImageInv`)
assumes that writes of otadata succeed: if an image cannot be marked valid and
another is uploaded over the previous one, no valid image is left
(`ota_manager.cpp:84`).

**`RtcCalendarProofs`**, every day from 2000 to 2099. The driver's algorithms
are reduced to one linear form, years counted from 1 March 2000, in which the
solver can decide them: `CivilInverse` (the date of a day is valid, and
`daysFromCivil` inverts it), `RegistersInverse` (what is written is what is
read), `ChipCounts` (the chip's digit-wise carries and its own leap rule agree
with the driver's calendar, for any step of up to a day), `SameDayOfMonth` (two
dates with the same day of the month are the same or more than 27 days apart)
and, from these, `AlarmMatches`: the alarm of a target within the horizon
matches at the target and not before.

**`PacketCodecProofs`**, every value of every field: `TelemetryRoundTrip`,
`AckRoundTrip` and `ResultRoundTrip` (what is encoded is decoded to itself, with
all checks on the way), and lemmas that another length, version or identity is
refused. Fields are found by position from the layouts, without induction.

**`MeasurementPathProofs`**, every number of pings, calendar span, set of
drifts, of schedules and of faults.

* `BurstTimesItsEcho` and `EchoTimed` (`PingTimesItsEcho`), from `EchoInv`: which
  of the line, the stamps and the notification belong to which ping.
* `TypeCorrect` and `IntactAccepted` (`OnlyIntactAccepted`), from `PathInv`:
  whatever is on the air is an encoded packet that passes every check of its
  decoder, or a disturbed one. That each packet the firmware builds does pass
  needs the type of what it is built from, hence one invariant for both.
* `ClockTrue` (`ClockIsTrue`), from `ClockInv`: once set, the registers show a
  date whose total number of seconds is within `slack` of UTC. Inductive only
  together with what the node knows of the time when it writes: the answer it
  acts on names UTC, or UTC one second ago. It assumes that drift and threshold
  together stay below a day (`ClockAssumption`): the threshold is 5 s, and the
  drift is a bound of the model.
* `AlarmTimely` (`AlarmOnTime`), from `AlarmHeld`: the alarm registers are the
  target's, which is at most the horizon away, and the flag is up exactly from
  the target on. That a poll never starts with the flag up is part of it, or
  the flag of the last schedule would pass for the next one's.

`PathInv`, `ClockInv` and `AlarmHeld` hold in the run `MeasurementPath` too; the
last two only in its first four years, since TLC counts in 32 bits, and seconds outgrow them in 2038.

What `ReceiptBeforeEffect` and `ReusedNumberRejected` state (`ReceiptFirst`,
`NumberKeepsType`) has no run of its own: both are clauses of `CommandService`,
which `Exchange` checks as a whole.

**Model-checked only**: liveness under fairness (`CycleEnds`, `MaintenanceEnds`,
`NextWake`, `ScheduleServed`, `SteadyLevelAccepted`) and `ENABLED`, which this
prover does not reach, and the three violated statements of section 6. Every
other property of the runs is a theorem. No module here has `RECURSIVE`
operators.

## 5. Not modelled, and why

* power events and `reconcileLastFlagClearAfterColdBoot`: planned below;
* DHT22, battery scaling, median and MAD of a burst, the moving average's
  arithmetic: analogue input and floating point. The filter's average is any
  value between the old one and the reading; a packet carries fixed values;
* `updateNewestHealth` of the history, which has no caller;
* what `applyConfiguration` does to the other 32 fields: they are treated like
  one of the three that are modelled;
* the length of the stored configuration failing to be read on its own
  (`config_store.cpp:51`): whether NVS can fail there cannot be seen from here;
* `begin` and `applyConfig` of the radio, which set up the SX1278 registers;
* the bench sketches in `old-testing-code`: no build target compiles them;
* the access point, HTTP, JSON, dashboard, buzzer, logging: I/O and wording;
* the watchdog's timing (a reset may come at any step instead) and the
  `GATHRA_FORCE_MAINTENANCE` and `GATHRA_ROLLBACK_TEST_FAIL` builds;
* an NVS partition that is erased because NVS calls it full or too new: when
  NVS does so cannot be seen from this code;
* NVS itself: one put stores its value or keeps the old one.

Exceptions that a property makes are part of what it says. `ClockIsTrue` speaks
of a clock that has been set and not been written to in vain since (`trusted`):
after a write that tore, the chip holds a mixture of two dates without its VL
bit, and the driver reads it as valid at the next boot. `AlarmOnTime` excludes
a schedule whose clock was set while it was pending, because the code programs
no new alarm for it, and one that was taken while the flag of an earlier one was
up (`excused`). `Chronological` and `ReadInOrder` leave out the place of the
oldest entry, which an interrupted append on a full ring overwrites.

## 6. Findings

Three statements of the documents or comments are not kept by the code; each
has a run that shows how.

1. `docs/ota.md:14`, the reboot marker is consumed by the classification. If
   the window ends in the half second between marker and restart, the node
   powers off with the marker in flash, and an unrelated later wake becomes a
   maintenance boot (`ClaimMarkerConsumed`).
2. `docs/ota.md:9-12`, an OTA reboot in a scheduled window still completes the
   schedule. The boot after it finds AF with another boot reason and marks the
   schedule failed (`ClaimOtaKeepsSchedule`).
3. `power_manager.cpp:114-115`, an alarm whose AF is the latch is disabled on a
   later boot. A second schedule that is accepted in the AF-held window of the
   first puts its own target into the alarm; at shutdown both are over, AF is
   spared, and the release clears AIE but leaves the registers at the second
   target. If that minute comes before the next shutdown, AF is set with AIE
   clear, an orphaned alarm: `disableAlarm` is skipped since AF is set,
   `verifyNextWake` accepts neither alternative, and the fault loop retries for
   ever with the power on (`ClaimAlarmDisabledLater`). The attempt to prove
   `LatchHeld` found this: without its exception, `OrphanedAlarm`, no
   invariant was inductive.

Observations made while modelling, for which there is no run:

* AF or TF asserted between `refreshRtc` and the release leaves the node inert
  with its power on (`Stranded`); `docs/power-management.md:36` describes the
  release as final.
* A schedule accepted while the window of another is open is completed with
  it, before its time; finding 3 is what can come of it.
* `command_processor.cpp:35-36`: a duplicate `ENTER_MAINTENANCE` is not obeyed,
  since its window has run. After a reset between the stored result and the
  window, no window has.
* A boot by the button that finds the stale marker of finding 1 is not
  classified as manual and opens its window without the latch that the comment
  at `node_app.cpp:137-141` asks for: power falls when
  the button is let go, wherever the node is. A schedule accepted in such a
  window may stay pending without an alarm; hence `ScheduleServed` speaks of
  schedules accepted by a latched node.
* State that cannot be read, even once, starts a new session and forgets the
  last command (`docs/protocol.md:110`).
* An append that is interrupted on a full ring shows the newest record in the
  place of the oldest until the next append (`README.md:90`; `Chronological`
  says where).
* With wide tolerances one reading votes both for candidate and for baseline.
* A save or a migration interrupted between its two puts leaves defaults in
  force, and the legacy copy is not looked at again.
* A configuration refused twice may come into force after a reboot: the halves
  of two refused saves of the same values add up.
* `docs/ota.md:7` asks for working sensors and radio before an image is
  declared valid; `node_app.cpp:183` does not.
* A clock write that fails half-way leaves a date that was never anybody's, and
  the next boot trusts it (`pcf8563.cpp:224`, the seconds register clears VL
  first); the node then reports it as valid until an answer corrects it.
* Setting the clock across the minute of a pending alarm loses that alarm
  (`node_app.cpp:461`) until the same day of the next month; until then the
  schedule stays pending.
* If an image cannot be marked valid and another is uploaded, no valid
  partition may be left (`"otadata"` in `BootValidation`, not allowed by its
  run); a completed upload is selected even if the reboot is then refused.

## 7. Plan

Modelled: the power lifecycle and the chip, the exchange and its promise, the
history and its promise, the filter, configuration and OTA, and the path of a
measurement from the sensor to the gateway and back into clock and alarm. Left,
in this order:

1. `PowerEvents`: the event ring in the persistent image and its
   reconciliation after a cold boot (`node_app.cpp:720`).
2. The composition of `PowerLifecycle` with `CommandExchange` and with
   `TemporalFilter`, for the two hazards that need both sides: a schedule that
   failed to commit (`node_app.cpp:958`), the interval a verification asked for
   (`:833`).
3. An abstract power cycle (off, awake, window) that `PowerLifecycle`
   implements.

## 8. Running it

    tlc -workers 2 -config PowerLatch.cfg PowerLifecycle.tla
    tlc -workers 2 -config PowerBudget.cfg MaintenanceBudget.tla
    tlc -workers 2 -config Exchange.cfg CommandExchange.tla
    tlapm PowerLifecycleProofs.tla
    tlapm HistoryRingProofs.tla
    tlapm MeasurementPathProofs.tla

`PROJECT.json` lists every run with its module, configuration and properties,
the mutation that breaks each property, and the source lines behind each
definition. No run takes more than a few minutes with two workers. Deadlock is
checked everywhere but in `MeasurementPath`, whose calendar ends.
