--------------------------- MODULE MeasurementPath ---------------------------
(***************************************************************************)
(* What passes between the sensor, the node's clock and the gateway in a   *)
(* poll: the burst is measured (EchoCapture), the clock is read            *)
(* (RtcCalendar), TELEMETRY goes out and ACK_COMMAND comes back            *)
(* (PacketCodec), the clock is set by it and a schedule put into the       *)
(* chip's alarm; between polls the chip counts on.  (node_app.cpp:413-481, *)
(* 951-969.)                                                               *)
(*                                                                         *)
(* Simplifications:                                                        *)
(* - between polls time passes in days, within a poll in seconds;          *)
(* - retries, late answers and the receipts of commands are                *)
(*   CommandExchange's: here each packet is sent once, and a command takes *)
(*   effect as it is handled;                                              *)
(* - the power latch, failing commits and the maintenance window are       *)
(*   PowerLifecycle's: here I2C fails only while the clock is written;     *)
(* - the distance filter is TemporalFilter's: the accepted distance is the *)
(*   measured one, and what the model does not keep has a fixed value.     *)
(***************************************************************************)
EXTENDS EchoCapture, RtcCalendar, PacketCodec

CONSTANTS
  Starts,        \* the days on which the model begins
  Span,          \* bound: how many days it covers from there on
  Start,         \* the time of day, in seconds, at which it begins
  PollDays,      \* the days on which the node polls
  Ahead,         \* how many days ahead the gateway schedules a maintenance
  TargetTimes,   \* and at what times of day, in seconds
  Threshold,     \* kRtcSyncDriftThresholdSec
  Drifts,        \* seconds the chip may gain or lose between polls
  MaxSlack,      \* bound: how far the clock may have drifted in all
  Faults         \* subset of {"i2c", "air"}

Days == UNION {first..first + Span - 1 : first \in Starts}

ASSUME DaysAssumption ==
  /\ Starts \subseteq Nat /\ Span \in Nat \ {0}
  /\ Days \subseteq FirstDay..LastDay - 1 /\ PollDays \subseteq Days
ASSUME TimesAssumption == Start \in 0..DaySeconds - 1 /\ TargetTimes \subseteq 0..DaySeconds - 1
ASSUME AheadAssumption == Ahead \subseteq Nat
ASSUME ClockAssumption ==
  /\ Threshold \in Nat /\ MaxSlack \in Nat /\ Drifts \subseteq 1..MaxSlack
  /\ MaxSlack + Threshold + 1 < DaySeconds
ASSUME PathFaultsAssumption == Faults \subseteq {"i2c", "air"}

VARIABLES
  now,         \* UTC
  registers,   \* the clock registers of the chip
  voltageLow,  \* and its VL bit
  alarm,       \* the alarm registers: day of month and time of day
  alarmFlag,   \* AF
  pc,          \* where the poll is
  rtc,         \* rtcTimeState_ and rtcUnixTime_
  sent,        \* the packet that was encoded last
  air,         \* what is left of it on its way
  intact,      \* that is all of it, unchanged
  heard,       \* what its receiver made of it
  ticked,      \* a second has passed in this poll
  polled,      \* the node has polled since a day passed (bounds the polls)
  schedule,    \* scheduleState and scheduledMaintenanceUnix
  \* History
  trusted,     \* the clock has been set and not been written to in vain since
  slack,       \* how far it may have gone wrong since, in seconds
  excused      \* it was set while the schedule was pending, or AF was up before

clockVars == <<now, registers, voltageLow, alarm, alarmFlag>>
linkVars == <<sent, air, intact, heard>>
historyVars == <<trusted, slack, excused>>
pathVars == <<clockVars, pc, rtc, linkVars, ticked, polled, schedule, historyVars>>
vars == <<echoVars, pathVars>>

-----------------------------------------------------------------------------
(* Types *)

Times == [day : Nat, second : 0..DaySeconds - 1]
Registers == [DOMAIN ClockRegisters -> (0..9) \X (0..9)]
Readings == [state : RtcStates, time : Times]

NoPacket == <<>>
NotHeard == [status |-> "silence"]    \* nobody has read it yet
Unknown == [state |-> "uninitialized", time |-> Never]
NoSchedule == [state |-> "none", target |-> Never]

TypeOK ==
  /\ EchoTypeOK
  /\ now \in Times /\ registers \in Registers /\ voltageLow \in BOOLEAN
  /\ alarm \in [day : 0..31, second : 0..DaySeconds - 1] /\ alarmFlag \in BOOLEAN
  /\ pc \in {"off", "burst", "toGateway", "answer", "toNode", "sync",
             "verify", "command", "result", "done"}
  /\ rtc \in Readings /\ intact \in BOOLEAN
  /\ ticked \in BOOLEAN /\ polled \in BOOLEAN
  /\ schedule \in [state : ScheduleStates, target : Times]
  /\ schedule.state = "pending" => Supported(schedule.target)
  /\ trusted \in BOOLEAN /\ slack \in 0..MaxSlack + Threshold + 1 /\ excused \in BOOLEAN

\* The registers of a chip whose battery has just been put in.
Blank == [i \in DOMAIN ClockRegisters |-> <<0, 0>>]

Init ==
  /\ EchoInit
  /\ \E day \in Starts : now = [day |-> day, second |-> Start]
  /\ registers = Blank /\ voltageLow = TRUE
  /\ alarm = NoAlarmSet /\ alarmFlag = FALSE
  /\ pc = "off" /\ rtc = Unknown
  /\ sent = NoPacket /\ air = NoPacket /\ intact = TRUE /\ heard = NotHeard
  /\ ticked = FALSE /\ polled = FALSE /\ schedule = NoSchedule
  /\ trusted = FALSE /\ slack = 0 /\ excused = FALSE

-----------------------------------------------------------------------------
(* Time passes *)

\* UTC moves on by the first, the chip's clock by the second number of seconds.
TimePasses(seconds, counted) ==
  /\ now' = Later(now, seconds)
  /\ registers' = ChipAdvanced(registers, counted)
  /\ alarmFlag' = (alarmFlag \/ AlarmIn(registers, alarm) <= counted)
  /\ UNCHANGED <<voltageLow, alarm>>

\* The node is off for a day, or until its alarm matches.
DayPasses ==
  /\ pc = "off" /\ ~alarmFlag /\ now.day + 1 \in Days
  /\ LET seconds == IF AlarmIn(registers, alarm) < DaySeconds
                    THEN AlarmIn(registers, alarm) ELSE DaySeconds
     IN  TimePasses(seconds, seconds)
  /\ polled' = FALSE
  /\ UNCHANGED <<echoVars, pc, rtc, linkVars, ticked, schedule, historyVars>>

\* The chip has lost or gained some seconds.
ClockDrifts ==
  /\ pc = "off" /\ ~alarmFlag /\ trusted
  /\ \E seconds \in Drifts :
       /\ slack + seconds <= MaxSlack
       /\ slack' = slack + seconds
       /\ TimePasses(seconds, 0) \/ TimePasses(0, seconds)
       /\ now'.day \in Days
  /\ UNCHANGED <<echoVars, pc, rtc, linkVars, ticked, polled, schedule, trusted, excused>>

\* A second passes before the node has the answer, or before it reads back.
SecondPasses ==
  /\ pc \in {"toNode", "verify"} /\ ~ticked /\ Later(now, 1).day \in Days
  /\ ticked' = TRUE
  /\ TimePasses(1, 1)
  /\ UNCHANGED <<echoVars, pc, rtc, linkVars, polled, schedule, historyVars>>

-----------------------------------------------------------------------------
(* The poll up to its telemetry *)

\* The rail comes up.
Wake ==
  /\ pc = "off" /\ ~alarmFlag /\ now.day \in PollDays /\ ~polled
  /\ pc' = "burst" /\ polled' = TRUE
  /\ EchoReset
  /\ UNCHANGED <<clockVars, rtc, linkVars, ticked, schedule, historyVars>>

\* readSonarBurst, interrupts included.
Measure ==
  /\ pc = "burst" /\ Burst
  /\ UNCHANGED pathVars

Node == [name |-> "node", bytes |-> 4, clean |-> TRUE]

Distance == 1000
Unavailable == 0 - 1    \* kDistanceUnavailable, 2^32 - 1
NoResult == "none"

\* The command the node remembers: id, type and result.
NoneYet == <<0, "none", NoResult>>
Remembered == {NoneYet, <<7, "setPollIntervalMinutes", "applied">>}

\* makeTelemetry, after refreshRtc read this of the clock.
Telemetry(reading, last) ==
  [nodeId |-> Node, persistentSessionId |-> 1, sequence |-> 1,
   medianEchoUs |-> IF BurstValid THEN 2 * Distance ELSE 0,
   rawDistanceMm |-> IF BurstValid THEN Distance ELSE Unavailable,
   acceptedDistanceMm |-> IF BurstValid THEN Distance ELSE Unavailable,
   madMm |-> 0, temperatureCentiC |-> 2150, humidityCentiPercent |-> 6000,
   batteryMv |-> 3900, validSamples |-> valid, totalSamples |-> Pings,
   filterState |-> IF BurstValid THEN "stable" ELSE "invalid",
   qualityFlags |-> 0, healthFlags |-> 0, bootReason |-> "rtcTimer",
   rtcState |-> reading.state,
   rtcUnixTime |-> IF reading.state = "valid" THEN reading.time ELSE Never,
   pollIntervalMinutes |-> 10,
   scheduleState |-> schedule.state, scheduledMaintenanceUnix |-> schedule.target,
   lastCommandId |-> last[1], lastCommandType |-> last[2], lastCommandResult |-> last[3],
   referenceDistanceMm |-> 0]

\* A packet goes out.
Send(packet, wire) ==
  sent' = packet /\ air' = wire /\ intact' = TRUE /\ heard' = NotHeard

SendTelemetry ==
  /\ pc = "burst" /\ BurstOver
  /\ rtc' = ReadDateTime(registers, voltageLow)
  /\ \E last \in Remembered :
       LET packet == Telemetry(rtc', last)
       IN  TelemetryEncodes(packet) /\ Send(packet, EncodeTelemetry(packet))
  /\ pc' = "toGateway"
  /\ EchoReset
  /\ UNCHANGED <<clockVars, ticked, polled, schedule, historyVars>>

-----------------------------------------------------------------------------
(* The air *)

\* Bytes missing at the end, bytes too many, another version, a byte of the id.
Disturbed(wire) ==
  {SubSeq(wire, 1, Len(wire) - 1),
   Append(wire, Field(1, 0)),
   [wire EXCEPT ![3].value = Version - 1],
   [wire EXCEPT ![6].value.clean = FALSE]}

\* The packet is disturbed, or one of another version or length is heard instead.
Disturb ==
  /\ "air" \in Faults
  /\ pc \in {"toGateway", "toNode", "result"} /\ intact
  /\ air' \in Disturbed(air)
  /\ intact' = FALSE
  /\ UNCHANGED <<echoVars, clockVars, pc, rtc, sent, heard, ticked, polled, schedule, historyVars>>

-----------------------------------------------------------------------------
(* The gateway *)

GatewayDecodes ==
  /\ pc = "toGateway"
  /\ LET outcome == DecodeTelemetry(air)
     IN  /\ heard' = outcome
         /\ pc' = IF outcome.status = "ok" THEN "answer" ELSE "done"
  /\ UNCHANGED <<echoVars, clockVars, rtc, sent, air, intact, ticked, polled, schedule, historyVars>>

\* A time the gateway may name for a maintenance.
Targets == {[day |-> now.day + days, second |-> second] : days \in Ahead, second \in TargetTimes}

\* Commands: type, poll interval and maintenance time.
Commands ==
  {<<"none", 0, Never>>, <<"enterMaintenanceNow", 0, Never>>,
   <<"setPollIntervalMinutes", 30, Never>>}
  \union {<<"scheduleMaintenanceAt", 0, target>> : target \in Targets}

Ack(sequence, timeValid, command) ==
  [nodeId |-> Node, persistentSessionId |-> 1, sequence |-> sequence,
   gatewayUnixTime |-> IF timeValid THEN now ELSE Never, timeValid |-> timeValid,
   commandId |-> IF command[1] = "none" THEN 0 ELSE 8, commandType |-> command[1],
   pollIntervalMinutes |-> command[2], scheduledMaintenanceUnix |-> command[3]]

\* The gateway answers the telemetry, knowing the time or not, or an older one,
\* which only its number tells apart.
Answers ==
  {Ack(1, TRUE, command) : command \in Commands}
  \union {Ack(1, FALSE, command) : command \in Commands}
  \union {Ack(0, TRUE, <<"none", 0, Never>>)}

GatewayAnswers ==
  /\ pc = "answer"
  /\ \E packet \in Answers :
       AckCommandValid(packet) /\ Send(packet, EncodeAckCommand(packet))
  /\ pc' = "toNode"
  /\ UNCHANGED <<echoVars, clockVars, rtc, ticked, polled, schedule, historyVars>>

-----------------------------------------------------------------------------
(* The node has the answer *)

\* Only the ACK of its own telemetry ends the wait of the node.
NodeDecodes ==
  /\ pc = "toNode"
  /\ LET outcome == DecodeAckCommand(air)
         matches == outcome.status = "ok" /\ AckMatches(outcome.packet, Telemetry(rtc, NoneYet))
     IN  /\ heard' = outcome
         /\ pc' = IF matches THEN "sync" ELSE "done"
  /\ UNCHANGED <<echoVars, clockVars, rtc, sent, air, intact, ticked, polled, schedule, historyVars>>

GatewayTime == heard.packet.gatewayUnixTime

\* synchronizeRtc has nothing to do, or no date for the time.
TimeRefused == ~heard.packet.timeValid \/ ~Supported(GatewayTime)

NoSync ==
  /\ pc = "sync" /\ TimeRefused
  /\ pc' = "command"
  /\ UNCHANGED <<echoVars, clockVars, rtc, linkVars, ticked, polled, schedule, historyVars>>

WriteRequired(reading) ==
  reading.state # "valid" \/ Apart(reading.time, GatewayTime) > Threshold

\* The clock is taken to show the gateway's time.
Synchronized ==
  /\ rtc' = [state |-> "valid", time |-> GatewayTime]
  /\ trusted' = TRUE /\ slack' = Threshold + 1

ClockInOrder ==
  /\ pc = "sync" /\ ~TimeRefused
  /\ ~WriteRequired(ReadDateTime(registers, voltageLow))
  /\ Synchronized
  /\ pc' = "command"
  /\ UNCHANGED <<echoVars, clockVars, linkVars, ticked, polled, schedule, excused>>

\* How many of the seven registers a burst that fails may have written.
TornWrites == IF "i2c" \in Faults THEN 0..Len(ClockRegisters) - 1 ELSE {}

\* The first so many registers hold the gateway's time, the seconds VL too.
WriteClock(count) ==
  /\ registers' = [i \in DOMAIN registers |->
                     IF i <= count THEN Encoded(UnixToDateTime(GatewayTime))[i]
                     ELSE registers[i]]
  /\ voltageLow' = (voltageLow /\ count = 0)
  /\ trusted' = (trusted /\ count = 0)
  /\ excused' = (excused \/ (schedule.state = "pending" /\ count > 0))
  /\ UNCHANGED <<now, alarm, alarmFlag>>

ClockWritten ==
  /\ pc = "sync" /\ ~TimeRefused
  /\ WriteRequired(ReadDateTime(registers, voltageLow))
  /\ WriteClock(Len(ClockRegisters))
  /\ pc' = "verify"
  /\ UNCHANGED <<echoVars, rtc, linkVars, ticked, polled, schedule, slack>>

ClockWriteFails ==
  /\ pc = "sync" /\ ~TimeRefused
  /\ WriteRequired(ReadDateTime(registers, voltageLow))
  /\ \E count \in TornWrites : WriteClock(count)
  /\ rtc' = ReadDateTime(registers', voltageLow')
  /\ pc' = "command"
  /\ UNCHANGED <<echoVars, linkVars, ticked, polled, schedule, slack>>

\* writeDateTime reads back: the second it wrote, or the next one.
ReadBack(reading) ==
  reading.state = "valid" /\ reading.time \in {GatewayTime, Later(GatewayTime, 1)}

ClockVerified ==
  /\ pc = "verify"
  /\ LET reading == ReadDateTime(registers, voltageLow)
     IN  IF ReadBack(reading)
         THEN Synchronized
         ELSE rtc' = reading /\ UNCHANGED <<trusted, slack>>
  /\ pc' = "command"
  /\ UNCHANGED <<echoVars, clockVars, linkVars, ticked, polled, schedule, excused>>

-----------------------------------------------------------------------------
(* The command *)

CommandResult(code) ==
  [nodeId |-> Node, persistentSessionId |-> 1, commandId |-> heard.packet.commandId,
   commandType |-> heard.packet.commandType, resultCode |-> code,
   effectivePollIntervalMinutes |-> 10, scheduledMaintenanceUnix |-> schedule'.target]

Answer(code) ==
  LET packet == CommandResult(code)
  IN  ResultValid(packet) /\ Send(packet, EncodeCommandResult(packet)) /\ pc' = "result"

NoCommand ==
  /\ pc = "command" /\ heard.packet.commandType = "none"
  /\ pc' = "done"
  /\ UNCHANGED <<echoVars, clockVars, rtc, linkVars, ticked, polled, schedule, historyVars>>

\* Commands whose effect is elsewhere.
OtherCommand ==
  /\ pc = "command"
  /\ heard.packet.commandType \in {"enterMaintenanceNow", "setPollIntervalMinutes"}
  /\ UNCHANGED schedule
  /\ Answer("applied")
  /\ UNCHANGED <<echoVars, clockVars, rtc, ticked, polled, historyVars>>

\* applyMaintenanceSchedule
ScheduleRefused(reading) ==
  /\ UNCHANGED <<alarm, schedule, excused>>
  /\ Answer(IF reading.state # "valid" THEN "rtcTimeUntrusted" ELSE "scheduleUnrepresentable")

ScheduleTaken(target) ==
  /\ schedule' = [state |-> "pending", target |-> target]
  /\ alarm' = AlarmFor(target)
  /\ excused' = alarmFlag
  /\ Answer("applied")

ScheduleCommand ==
  /\ pc = "command" /\ heard.packet.commandType = "scheduleMaintenanceAt"
  /\ LET reading == ReadDateTime(registers, voltageLow)
         target == heard.packet.scheduledMaintenanceUnix
     IN  /\ rtc' = reading
         /\ IF reading.state = "valid" /\ ScheduleRepresentable(reading.time, target)
            THEN ScheduleTaken(target)
            ELSE ScheduleRefused(reading)
  /\ UNCHANGED <<echoVars, now, registers, voltageLow, alarmFlag, ticked, polled, trusted, slack>>

GatewayHearsResult ==
  /\ pc = "result"
  /\ heard' = DecodeCommandResult(air)
  /\ pc' = "done"
  /\ UNCHANGED <<echoVars, clockVars, rtc, sent, air, intact, ticked, polled, schedule, historyVars>>

\* The power goes; the chip alone remembers.
PowerOff ==
  /\ pc = "done"
  /\ pc' = "off"
  /\ rtc' = Unknown /\ ticked' = FALSE
  /\ sent' = NoPacket /\ air' = NoPacket /\ intact' = TRUE /\ heard' = NotHeard
  /\ UNCHANGED <<echoVars, clockVars, polled, schedule, historyVars>>

AlarmWindow == 300

\* classify: AF is the pending schedule's.
AlarmIsDue(reading) ==
  /\ schedule.state = "pending" /\ reading.state = "valid"
  /\ ~Before(reading.time, schedule.target)
  /\ Apart(reading.time, schedule.target) <= AlarmWindow

\* AF wakes the node, a window is held if it is the schedule's, and the
\* shutdown disables the alarm.
AlarmServed ==
  /\ pc = "off" /\ alarmFlag
  /\ alarmFlag' = FALSE /\ alarm' = NoAlarmSet
  /\ schedule' = [schedule EXCEPT
       !.state = IF AlarmIsDue(ReadDateTime(registers, voltageLow)) THEN "completed"
                 ELSE IF @ = "pending" THEN "failed" ELSE @]
  /\ UNCHANGED <<echoVars, now, registers, voltageLow, pc, rtc, linkVars, ticked, polled, historyVars>>

Next ==
  \/ DayPasses \/ ClockDrifts \/ SecondPasses
  \/ Wake \/ Measure \/ SendTelemetry \/ Disturb
  \/ GatewayDecodes \/ GatewayAnswers \/ NodeDecodes
  \/ NoSync \/ ClockInOrder \/ ClockWritten \/ ClockWriteFails \/ ClockVerified
  \/ NoCommand \/ OtherCommand \/ ScheduleCommand \/ GatewayHearsResult
  \/ PowerOff \/ AlarmServed

Spec == Init /\ [][Next]_vars

-----------------------------------------------------------------------------
(* Properties *)

\* Once the node has set the clock and read it back, what the driver reads of
\* the chip's registers is UTC, up to the threshold below which it leaves the
\* clock alone and what the chip has drifted since: on every day of the
\* calendar, whatever the chip's own carries did.
ClockIsTrue ==
  trusted => LET reading == ReadDateTime(registers, voltageLow)
             IN  reading.state = "valid" /\ Apart(reading.time, now) <= slack

\* The chip's alarm knows no month; still the alarm flag of a schedule the node
\* has taken comes when the chip's clock reaches the target, not at an earlier
\* match and not never, unless the clock was set in between or the flag of an
\* earlier schedule was up when this one was taken.
AlarmOnTime ==
  schedule.state = "pending" /\ trusted /\ ~excused =>
    (alarmFlag <=> ~Before(ReadDateTime(registers, voltageLow).time, schedule.target))

\* A packet is accepted by its receiver if and only if it arrives as the sender
\* wrote it, and then it says what the sender meant: every telemetry and every
\* result the firmware builds passes the decoder's checks, and nothing cut,
\* prolonged, of another version or with a spoiled identity does.
OnlyIntactAccepted ==
  heard # NotHeard =>
    /\ heard.status = "ok" <=> intact
    /\ heard.status = "ok" => heard.packet = sent

=============================================================================
