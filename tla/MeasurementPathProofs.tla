------------------------ MODULE MeasurementPathProofs ------------------------
(***************************************************************************)
(* What is proved of MeasurementPath, for every calendar span, every set   *)
(* of schedules and drifts, and every set of faults: the burst, by EchoInv *)
(* of EchoCapture; the packets, by PathInv, which says what is on the air  *)
(* and what its receiver made of it; the clock, by ClockInv, which relates *)
(* the time the registers show to the gateway's; and the alarm, by         *)
(* AlarmHeld.  Times are compared as their total number of seconds.        *)
(***************************************************************************)
EXTENDS MeasurementPath, RtcCalendarProofs, PacketCodecProofs

-----------------------------------------------------------------------------
(* A burst of EchoCapture, for every number of pings and every order of the *)
(* task, the interrupt handler and the sensor                               *)

\* The fields of the types.
LEMMA ClearedTypes ==
  /\ Cleared \in [active : BOOLEAN, rise : 0..Pings, fall : 0..Pings]
  /\ Still \in [level : {"low", "high"}, edge : BOOLEAN]
  /\ NoSample \in [status : Timed \union Untimed \union {"none"},
                   rise : 0..Pings, fall : 0..Pings, expired : BOOLEAN]
  BY BurstAssumption DEF Cleared, Still, NoSample, No

LEMMA ClearedFields ==
  /\ ~Cleared.active /\ Cleared.rise = No /\ Cleared.fall = No
  /\ Still.level = "low"
  /\ NoSample.status \notin Timed \union {"noRisingEdge", "noFallingEdge"}
  BY DEF Cleared, Still, NoSample, Timed

\* A burst starts from nothing, be it the first or a later one.
LEMMA EchoInitInv == EchoInit => EchoInv
  <1>. SUFFICES ASSUME EchoInit PROVE EchoInv
    OBVIOUS
  <1>1. EchoTypeOK
    <2>1. pulse \in [of : 0..Pings, length : Lengths]
      BY BurstAssumption DEF EchoInit, No, Lengths
    <2>2. 0 \in 0..Pings
      BY BurstAssumption
    <2>. QED  BY <2>1, <2>2, ClearedTypes DEF EchoInit, EchoTypeOK
  <1>2. LineHeld /\ CaptureHeld /\ PingTimesItsEcho
    BY ClearedFields DEF EchoInit, LineHeld, CaptureHeld, PingTimesItsEcho
  <1>. QED  BY <1>1, <1>2 DEF EchoInv

LEMMA EchoResetInv == EchoReset => EchoInv'
  <1>. SUFFICES ASSUME EchoReset PROVE EchoInv'
    OBVIOUS
  <1>1. EchoTypeOK'
    <2>1. pulse' \in [of : 0..Pings, length : Lengths]
      BY BurstAssumption DEF EchoReset, No, Lengths
    <2>2. 0 \in 0..Pings
      BY BurstAssumption
    <2>. QED  BY <2>1, <2>2, ClearedTypes DEF EchoReset, EchoTypeOK
  <1>2. LineHeld' /\ CaptureHeld' /\ PingTimesItsEcho'
    BY ClearedFields DEF EchoReset, LineHeld, CaptureHeld, PingTimesItsEcho
  <1>. QED  BY <1>1, <1>2 DEF EchoInv

LEMMA EchoStutterInv == EchoInv /\ UNCHANGED echoVars => EchoInv'
  BY DEF echoVars, EchoInv, EchoTypeOK, LineHeld, CaptureHeld, PingTimesItsEcho

-----------------------------------------------------------------------------
(* The loop task *)

LEMMA StartPingInv ==
  ASSUME EchoInv, StartPing
  PROVE  EchoInv'
  <1>. USE BurstAssumption DEF StartPing, EchoInv, Drained, Forgotten
  <1>1. ping' \in 0..Pings /\ ping' = ping + 1 /\ valid' = valid
        /\ valid \in Nat /\ valid < ping'
    BY DEF EchoTypeOK, LineHeld
  <1>2. CASE line.level = "high"
    <2>1. capture' = Cleared /\ task' = "idle" /\ UNCHANGED <<line, sensor, pulse>>
      BY <1>2
    <2>2. sample'.status = "echoHighBeforeTrigger"
          /\ sample' \in [status : Timed \union Untimed \union {"none"},
                          rise : 0..Pings, fall : 0..Pings, expired : BOOLEAN]
      BY <1>2, ClearedTypes DEF Untimed, NoSample
    <2>3. EchoTypeOK'
      BY <1>1, <2>1, <2>2, ClearedTypes DEF EchoTypeOK
    <2>4. LineHeld'
      BY <1>1, <2>1, ClearedFields DEF LineHeld
    <2>5. CaptureHeld' /\ PingTimesItsEcho'
      BY <2>1, <2>2, ClearedFields DEF CaptureHeld, PingTimesItsEcho, Timed
    <2>. QED  BY <2>3, <2>4, <2>5
  <1>3. CASE line.level = "low"
    <2>1. capture' = [active |-> TRUE, rise |-> No, fall |-> No] /\ task' = "armed"
          /\ UNCHANGED <<line, sensor, pulse>> /\ sample' = NoSample
      BY <1>3 DEF Cleared
    <2>2. sensor = "quiet"
      BY <1>3 DEF LineHeld, EchoTypeOK
    <2>3. EchoTypeOK'
      BY <1>1, <2>1, ClearedTypes DEF EchoTypeOK, No
    <2>4. LineHeld'
      BY <1>1, <1>3, <2>1, <2>2 DEF LineHeld, EchoTypeOK
    <2>5. CaptureHeld' /\ PingTimesItsEcho'
      BY <1>3, <2>1, ClearedFields DEF CaptureHeld, PingTimesItsEcho
    <2>. QED  BY <2>3, <2>4, <2>5
  <1>. QED  BY <1>2, <1>3 DEF EchoTypeOK

LEMMA TriggerInv ==
  ASSUME EchoInv, Trigger
  PROVE  EchoInv'
  BY DEF Trigger, EchoInv, EchoTypeOK, LineHeld, CaptureHeld, PingTimesItsEcho, No

LEMMA WaitNotifiedInv ==
  ASSUME EchoInv, WaitNotified
  PROVE  EchoInv'
  BY DEF WaitNotified, EchoInv, EchoTypeOK, LineHeld, CaptureHeld, PingTimesItsEcho, No

LEMMA WaitExpiresInv ==
  ASSUME EchoInv, WaitExpires
  PROVE  EchoInv'
  BY DEF WaitExpires, EchoInv, EchoTypeOK, LineHeld, CaptureHeld, PingTimesItsEcho, No

\* The end of a ping keeps the invariant if it makes a sample of the present ping.
LEMMA SampledInv ==
  ASSUME EchoInv, task \in {"woken", "expired"}, NEW status \in Timed \union Untimed, NEW expired \in BOOLEAN,
         status \in Timed => capture.rise = ping /\ capture.fall = ping,
         status \in {"noRisingEdge", "noFallingEdge"} => expired,
         capture' = [capture EXCEPT !.active = FALSE], Sampled(status, expired),
         UNCHANGED <<ping, notified, line, sensor, pulse>>
  PROVE  EchoInv'
  <1>. USE DEF EchoInv, EchoTypeOK, Sampled
  <1>1. /\ capture' \in [active : BOOLEAN, rise : 0..Pings, fall : 0..Pings]
        /\ capture'.rise = capture.rise /\ capture'.fall = capture.fall /\ capture'.active = FALSE
    OBVIOUS
  <1>2. /\ sample' \in [status : Timed \union Untimed \union {"none"},
                        rise : 0..Pings, fall : 0..Pings, expired : BOOLEAN]
        /\ sample'.status = status /\ sample'.rise = capture.rise
        /\ sample'.fall = capture.fall /\ sample'.expired = expired
    OBVIOUS
  <1>3. valid' \in 0..Pings /\ valid' <= ping
    BY BurstAssumption DEF LineHeld
  <1>4. EchoTypeOK'
    BY <1>1, <1>2, <1>3
  <1>5. LineHeld'
    BY <1>1, <1>3 DEF LineHeld
  <1>6. CaptureHeld'
    BY <1>1 DEF CaptureHeld
  <1>7. PingTimesItsEcho'
    BY <1>2 DEF PingTimesItsEcho
  <1>. QED  BY <1>4, <1>5, <1>6, <1>7

LEMMA FinishInv ==
  ASSUME EchoInv, FinishNotified \/ FinishExpired
  PROVE  EchoInv'
  <1>1. CASE FinishNotified
    <2>1. capture.rise = ping /\ capture.fall = ping /\ capture.rise # No /\ capture.fall # No
      BY <1>1 DEF FinishNotified, EchoInv, EchoTypeOK, CaptureHeld, No
    <2>2. StatusWhenNotified(capture, pulse.length) \in Timed
      BY <2>1 DEF StatusWhenNotified, Timed
    <2>3. StatusWhenNotified(capture, pulse.length) \notin {"noRisingEdge", "noFallingEdge"}
      BY <2>2 DEF Timed
    <2>. QED  BY <1>1, <2>1, <2>2, <2>3, SampledInv DEF FinishNotified
  <1>2. CASE FinishExpired
    <2>. DEFINE status == IF capture.rise # No THEN "noFallingEdge" ELSE "noRisingEdge"
    <2>1. status \in Untimed /\ status \notin Timed
      BY DEF Timed, Untimed
    <2>. QED  BY <1>2, <2>1, SampledInv DEF FinishExpired
  <1>. QED  BY <1>1, <1>2

-----------------------------------------------------------------------------
(* The interrupt handler and the sensor *)

LEMMA HandlerInv ==
  ASSUME EchoInv, EdgeIgnored \/ RiseStamped \/ FallStamped
  PROVE  EchoInv'
  <1>. USE DEF EchoInv, EchoTypeOK
  <1>1. /\ line' \in [level : {"low", "high"}, edge : BOOLEAN] /\ line'.level = line.level
        /\ UNCHANGED <<task, ping, sensor, pulse, sample, valid>>
    BY DEF EdgeIgnored, RiseStamped, FallStamped
  <1>2. CASE EdgeIgnored
    BY <1>1, <1>2 DEF EdgeIgnored, LineHeld, CaptureHeld, PingTimesItsEcho
  <1>3. CASE RiseStamped
    <2>1. /\ capture' = [capture EXCEPT !.rise = pulse.of] /\ notified' = notified
          /\ capture.active /\ line.level = "high" /\ capture.rise = No
      BY <1>3 DEF RiseStamped
    <2>2. pulse.of = ping
      BY <2>1 DEF CaptureHeld
    <2>3. sensor = "echoing" /\ task # "armed"
      BY <2>1 DEF LineHeld
    <2>4. /\ capture' \in [active : BOOLEAN, rise : 0..Pings, fall : 0..Pings]
          /\ capture'.rise = ping /\ capture'.fall = capture.fall /\ capture'.active
      BY <2>1, <2>2
    <2>. QED  BY <1>1, <2>1, <2>2, <2>3, <2>4 DEF LineHeld, CaptureHeld, PingTimesItsEcho
  <1>4. CASE FallStamped
    <2>1. /\ capture' = [capture EXCEPT !.fall = pulse.of, !.active = FALSE] /\ notified' = TRUE
          /\ capture.rise # No
      BY <1>4 DEF FallStamped
    <2>2. pulse.of = ping /\ capture.rise = ping /\ ping # No
      BY <2>1 DEF CaptureHeld
    <2>3. /\ capture' \in [active : BOOLEAN, rise : 0..Pings, fall : 0..Pings]
          /\ capture'.rise = capture.rise /\ capture'.fall = ping /\ ~capture'.active
      BY <2>1, <2>2
    <2>. QED  BY <1>1, <2>1, <2>2, <2>3 DEF LineHeld, CaptureHeld, PingTimesItsEcho
  <1>. QED  BY <1>2, <1>3, <1>4

LEMMA SensorInv ==
  ASSUME EchoInv, EchoRises \/ EchoFalls
  PROVE  EchoInv'
  <1>. USE DEF EchoInv, EchoTypeOK
  <1>1. CASE EchoRises
    <2>1. PICK length \in Lengths : pulse' = [of |-> ping, length |-> length]
      BY <1>1 DEF EchoRises
    <2>. QED  BY <1>1, <2>1 DEF EchoRises, LineHeld, CaptureHeld, PingTimesItsEcho, No
  <1>2. CASE EchoFalls
    BY <1>2 DEF EchoFalls, LineHeld, CaptureHeld, PingTimesItsEcho
  <1>. QED  BY <1>1, <1>2

\* Whatever the task, the handler and the sensor do next in a burst, a ping is
\* timed on its own pulse and given up only after its wait (srf05_driver.cpp).
THEOREM BurstTimesItsEcho ==
  ASSUME EchoInv, [Burst]_echoVars
  PROVE  EchoInv' /\ PingTimesItsEcho'
  <1>1. EchoInv'
    BY StartPingInv, TriggerInv, WaitNotifiedInv, WaitExpiresInv, FinishInv, HandlerInv,
       SensorInv, EchoStutterInv DEF Burst
  <1>. QED  BY <1>1 DEF EchoInv

-----------------------------------------------------------------------------
(* The burst inside the poll *)

\* A step of the path is one of the burst, switches the rail, or leaves the
\* burst alone.
LEMMA StepsOfTheBurst ==
  ASSUME [Next]_vars
  PROVE  Burst \/ EchoReset \/ UNCHANGED echoVars
  <1>1. CASE DayPasses \/ ClockDrifts \/ SecondPasses
    BY <1>1 DEF DayPasses, ClockDrifts, SecondPasses
  <1>2. CASE Wake \/ Measure \/ SendTelemetry \/ Disturb
    BY <1>2 DEF Wake, Measure, SendTelemetry, Disturb
  <1>3. CASE GatewayDecodes \/ GatewayAnswers \/ NodeDecodes
    <2>1. CASE GatewayDecodes
      BY <2>1 DEF GatewayDecodes
    <2>2. CASE GatewayAnswers
      BY <2>2, Zenon DEF GatewayAnswers
    <2>3. CASE NodeDecodes
      BY <2>3 DEF NodeDecodes
    <2>. QED  BY <1>3, <2>1, <2>2, <2>3
  <1>4. CASE NoSync \/ ClockInOrder \/ ClockWritten \/ ClockWriteFails \/ ClockVerified
    BY <1>4 DEF NoSync, ClockInOrder, ClockWritten, ClockWriteFails, ClockVerified
  <1>5. CASE NoCommand \/ OtherCommand \/ ScheduleCommand \/ GatewayHearsResult
    BY <1>5 DEF NoCommand, OtherCommand, ScheduleCommand, GatewayHearsResult
  <1>6. CASE PowerOff \/ AlarmServed
    BY <1>6 DEF PowerOff, AlarmServed
  <1>7. CASE UNCHANGED vars
    BY <1>7 DEF vars
  <1>. QED  BY <1>1, <1>2, <1>3, <1>4, <1>5, <1>6, <1>7 DEF Next

\* Every distance of every poll is timed on the echo of its own ping, and no ping is
\* given up before its wait is over, however the handler's edges, the late
\* pulses of earlier pings and the task's wait interleave
\* (srf05_driver.cpp, sensor_suite.cpp).
THEOREM EchoTimed == Spec => []PingTimesItsEcho
  <1>1. Init => EchoInv
    BY EchoInitInv DEF Init
  <1>2. EchoInv /\ [Next]_vars => EchoInv'
    BY StepsOfTheBurst, EchoResetInv, BurstTimesItsEcho
  <1>3. EchoInv => PingTimesItsEcho
    BY DEF EchoInv
  <1>. QED  BY <1>1, <1>2, <1>3, PTL DEF Spec

-----------------------------------------------------------------------------
(* What the air does to a packet *)

\* What a disturbed packet cannot have.
LEMMA DisturbedWire ==
  ASSUME NEW wire, NEW n \in Nat, n >= 12, Len(wire) = n, Numbered(wire, n), NEW type,
         StartsWith(wire, Header(type, Node)), NEW w \in Disturbed(wire)
  PROVE  /\ Len(w) \in Nat
         /\ \/ Len(w) = n - 1 /\ (n >= 13 => w[12] = wire[12])
            \/ Len(w) = n + 1 /\ w[12] = wire[12]
            \/ Len(w) = n /\ w[12] = wire[12] /\ w[3].value # Version
            \/ Len(w) = n /\ w[12] = wire[12] /\ ~NodeIdValid(w[6].value)
  <1>. DEFINE S == {wire[i] : i \in 1..n}
  <1>1. wire \in Seq(S) /\ DOMAIN wire = 1..n
    BY DEF Numbered
  <1>2. wire[3] = Field(1, Version) /\ wire[6] = Field(4, Node)
    <2>1. /\ Header(type, Node)[3] = Field(1, Version)
          /\ Header(type, Node)[6] = Field(4, Node)
      BY DEF Header, Node
    <2>. QED  BY <2>1 DEF StartsWith
  <1>3. CASE w = SubSeq(wire, 1, Len(wire) - 1)
    <2>1. Len(w) = n - 1 /\ \A i \in 1..n - 1 : w[i] = wire[i]
      BY <1>1, <1>3
    <2>. QED  BY <2>1
  <1>4. CASE w = Append(wire, Field(1, 0))
    <2>1. Len(w) = n + 1 /\ \A i \in 1..n : w[i] = wire[i]
      BY <1>1, <1>4
    <2>. QED  BY <2>1
  <1>5. CASE w = [wire EXCEPT ![3].value = Version - 1]
    <2>1. Len(w) = n /\ w[12] = wire[12]
      BY <1>1, <1>5
    <2>2. w[3] = [Field(1, Version) EXCEPT !.value = Version - 1]
      BY <1>1, <1>2, <1>5
    <2>3. w[3].value = Version - 1
      BY <2>2 DEF Field
    <2>. QED  BY <2>1, <2>3 DEF Version
  <1>6. CASE w = [wire EXCEPT ![6].value.clean = FALSE]
    <2>1. Len(w) = n /\ w[12] = wire[12]
      BY <1>1, <1>6
    <2>2. w[6] = [Field(4, Node) EXCEPT !.value.clean = FALSE]
      BY <1>1, <1>2, <1>6
    <2>3. w[6].value = [Node EXCEPT !.clean = FALSE]
      BY <2>2 DEF Field
    <2>4. w[6].value.clean = FALSE
      BY <2>3 DEF Node
    <2>. QED  BY <2>1, <2>4 DEF NodeIdValid
  <1>. QED  BY <1>3, <1>4, <1>5, <1>6 DEF Disturbed

LEMMA TelemetryDisturbed ==
  ASSUME NEW p, p.nodeId = Node, NEW w \in Disturbed(EncodeTelemetry(p))
  PROVE  DecodeTelemetry(w).status # "ok"
  <1>. DEFINE wire == EncodeTelemetry(p)
              n == 30
  <1>1. IsPacket(wire, "telemetry", Node, TelemetryLayout, p)
    BY DEF EncodeTelemetry, IsPacket
  <1>2. IsLayout(TelemetryLayout) /\ 6 + Len(TelemetryLayout) = n
    BY TelemetryLength
  <1>3. Len(wire) = n /\ n \in Nat /\ n >= 12 /\ StartsWith(wire, Header("telemetry", Node))
    BY TelemetryWire
  <1>4. w \in Disturbed(wire)
    OBVIOUS
  <1>. HIDE DEF wire, n
  <1>5. Numbered(wire, n)
    <2>1. Numbered(wire, 6 + Len(TelemetryLayout))
      BY <1>1, <1>2, PacketNumbered
    <2>. QED  BY <1>2, <2>1
  <1>6. /\ Len(w) \in Nat
        /\ Len(w) # n \/ w[3].value # Version \/ ~NodeIdValid(w[6].value)
    BY <1>3, <1>4, <1>5, DisturbedWire
  <1>. QED  BY <1>6, TelemetryRefused DEF n

LEMMA ResultDisturbed ==
  ASSUME NEW p, p.nodeId = Node, NEW w \in Disturbed(EncodeCommandResult(p))
  PROVE  DecodeCommandResult(w).status # "ok"
  <1>. DEFINE wire == EncodeCommandResult(p)
              n == 12
  <1>1. IsPacket(wire, "commandResult", Node, ResultLayout, p)
    BY DEF EncodeCommandResult, IsPacket
  <1>2. IsLayout(ResultLayout) /\ 6 + Len(ResultLayout) = n
    BY ResultLength
  <1>3. Len(wire) = n /\ n \in Nat /\ n >= 12 /\ StartsWith(wire, Header("commandResult", Node))
    BY ResultWire
  <1>4. w \in Disturbed(wire)
    OBVIOUS
  <1>. HIDE DEF wire, n
  <1>5. Numbered(wire, n)
    <2>1. Numbered(wire, 6 + Len(ResultLayout))
      BY <1>1, <1>2, PacketNumbered
    <2>. QED  BY <1>2, <2>1
  <1>6. /\ Len(w) \in Nat
        /\ Len(w) # n \/ w[3].value # Version \/ ~NodeIdValid(w[6].value)
    BY <1>3, <1>4, <1>5, DisturbedWire
  <1>. QED  BY <1>6, ResultRefused DEF n

LEMMA AckDisturbed ==
  ASSUME NEW p, p.nodeId = Node, p.commandType \in CommandTypes,
         NEW w \in Disturbed(EncodeAckCommand(p))
  PROVE  DecodeAckCommand(w).status # "ok"
  <1>. DEFINE wire == EncodeAckCommand(p)
              type == p.commandType
              n == 13 + Len(PayloadLayout(type))
  <1>1. IsAckPacket(wire, Node, p)
    BY AckEncoded
  <1>2. n \in Nat /\ n >= 13
    BY PayloadLength
  <1>3. wire[12].value = type
    <2>1. Carries(wire, 6, AckFixedLayout, FixedOf(p))
      <3>. HIDE DEF wire
      <3>. QED  BY <1>1, AckWire
    <2>2. AckFixedLayout[6][1] = "commandType" /\ 6 \in 1..Len(AckFixedLayout)
      BY DEF AckFixedLayout
    <2>3. FixedOf(p)["commandType"] = type
      BY DEF FixedOf, AckFixedNames
    <2>4. wire[6 + 6].value = FixedOf(p)["commandType"]
      BY <2>1, <2>2 DEF Carries
    <2>. QED  BY <2>3, <2>4
  <1>4. w \in Disturbed(wire)
    OBVIOUS
  <1>5. Len(wire) = n /\ StartsWith(wire, Header("ackCommand", Node)) /\ Numbered(wire, n)
    <2>. HIDE DEF wire
    <2>. QED  BY <1>1, AckWire, AckNumbered
  <1>. HIDE DEF wire, type, n
  <1>6. /\ Len(w) \in Nat
        /\ \/ Len(w) # n /\ w[12] = wire[12]
           \/ w[3].value # Version \/ ~NodeIdValid(w[6].value)
    <2>1. n >= 12
      BY <1>2
    <2>2. /\ Len(w) \in Nat
          /\ \/ Len(w) = n - 1 /\ (n >= 13 => w[12] = wire[12])
             \/ Len(w) = n + 1 /\ w[12] = wire[12]
             \/ Len(w) = n /\ w[12] = wire[12] /\ w[3].value # Version
             \/ Len(w) = n /\ w[12] = wire[12] /\ ~NodeIdValid(w[6].value)
      BY <1>2, <1>4, <1>5, <2>1, DisturbedWire
    <2>. QED  BY <1>2, <2>2
  <1>7. ASSUME DecodeAckCommand(w).status = "ok" PROVE FALSE
    <2>1. /\ Len(w) = 13 + Len(PayloadLayout(w[12].value))
          /\ w[3].value = Version /\ NodeIdValid(w[6].value)
      BY <1>6, <1>7, AckRefused
    <2>2. w[12].value = type
      BY <1>3, <1>6, <2>1
    <2>3. Len(w) = n
      BY <2>1, <2>2 DEF n
    <2>. QED  BY <1>6, <2>1, <2>3
  <1>. QED  BY <1>7

-----------------------------------------------------------------------------
(* Times and the chip *)

\* A time in seconds.
Total(t) == 86400 * t.day + t.second

LEMMA TotalLater ==
  ASSUME NEW t \in TimePairs, NEW c \in Nat
  PROVE  Later(t, c) \in TimePairs /\ Total(Later(t, c)) = Total(t) + c
  <1>. DEFINE x == t.second + c
  <1>1. t.day \in Nat /\ t.second \in Nat
    BY PairFacts
  <1>2. x \in Nat
    BY <1>1
  <1>3. Later(t, c) = [day |-> t.day + x \div DaySeconds, second |-> x % DaySeconds]
    BY DEF Later
  <1>. HIDE DEF x
  <1>4. /\ x \div DaySeconds \in Nat /\ (x % DaySeconds) \in 0..DaySeconds - 1
        /\ x = 86400 * (x \div DaySeconds) + (x % DaySeconds)
    BY <1>2, DaySplit
  <1>. DEFINE q == x \div DaySeconds
              r == x % DaySeconds
  <1>5. q \in Nat /\ r \in 0..DaySeconds - 1 /\ r \in Nat /\ x = 86400 * q + r
    BY <1>4, DayLength
  <1>6. Later(t, c) = [day |-> t.day + q, second |-> r]
    BY <1>3
  <1>. HIDE DEF q, r
  <1>7. Later(t, c) \in TimePairs
    BY <1>1, <1>5, <1>6 DEF TimePairs
  <1>8. Later(t, c).day = t.day + q /\ Later(t, c).second = r
    BY <1>6
  <1>9. Total(Later(t, c)) = Total(t) + c
    BY <1>1, <1>5, <1>8 DEF Total, x
  <1>. QED  BY <1>7, <1>9

LEMMA TotalOrder ==
  ASSUME NEW s \in TimePairs, NEW t \in TimePairs
  PROVE  /\ Total(s) \in Nat /\ Total(t) \in Nat
         /\ Before(s, t) <=> Total(s) < Total(t)
         /\ s.day < t.day => Total(s) < Total(t)
         /\ Total(s) = Total(t) => s = t
  <1>1. /\ s.day \in Nat /\ s.second \in Nat /\ s.second <= 86399
        /\ t.day \in Nat /\ t.second \in Nat /\ t.second <= 86399
        /\ s = [day |-> s.day, second |-> s.second] /\ t = [day |-> t.day, second |-> t.second]
    BY PairFacts
  <1>2. /\ Total(s) \in Nat /\ Total(t) \in Nat
        /\ s.day < t.day => Total(s) < Total(t)
    BY <1>1 DEF Total
  <1>3. Before(s, t) <=> Total(s) < Total(t)
    BY <1>1 DEF Total, Before
  <1>4. ASSUME Total(s) = Total(t) PROVE s = t
    <2>1. ~Before(s, t) /\ ~Before(t, s)
      <3>1. Before(t, s) <=> Total(t) < Total(s)
        BY <1>1 DEF Total, Before
      <3>. QED  BY <1>2, <1>3, <1>4, <3>1
    <2>2. s.day = t.day /\ s.second = t.second
      BY <1>1, <2>1 DEF Before
    <2>. QED  BY <1>1, <2>2
  <1>. QED  BY <1>2, <1>3, <1>4

LEMMA ApartTotals ==
  ASSUME NEW s \in TimePairs, NEW t \in TimePairs, NEW k \in Nat, k < DaySeconds
  PROVE  Apart(s, t) <= k <=> Total(s) - k <= Total(t) /\ Total(t) <= Total(s) + k
  <1>1. /\ s.day \in Nat /\ s.second \in Nat /\ s.second <= 86399
        /\ t.day \in Nat /\ t.second \in Nat /\ t.second <= 86399
    BY PairFacts
  <1>. DEFINE difference == (t.day - s.day) * DaySeconds + t.second - s.second
              days == t.day - s.day
  <1>2. difference = Total(t) - Total(s) /\ Total(t) \in Int /\ Total(s) \in Int
    <2>1. DaySeconds = 86400
      BY DEF DaySeconds
    <2>. QED  BY <1>1, <2>1 DEF Total
  <1>3. Apart(s, t) = IF days \notin -1..1 THEN Ages
                      ELSE IF difference < 0 THEN -difference ELSE difference
    BY DEF Apart
  <1>4. days \in Int /\ difference \in Int
    BY <1>1, <1>2
  <1>5. difference = 86400 * days + t.second - s.second
    BY <1>1, <1>2 DEF Total
  <1>6. k < 86400 /\ Ages > k /\ Ages \in Int
    BY DayLength DEF Ages
  <1>. HIDE DEF difference, days
  <1>7. days \notin -1..1 => difference > k \/ difference < -k
    BY <1>1, <1>4, <1>5, <1>6
  <1>8. Apart(s, t) <= k <=> -k <= difference /\ difference <= k
    BY <1>3, <1>4, <1>6, <1>7
  <1>. QED  BY <1>2, <1>8

\* The hour, the minute and the second of the chip are in range, even when the
\* registers show no time.
InRange(r) == Value(r, 1) <= 59 /\ Value(r, 2) <= 59 /\ Value(r, 3) <= 23

Alarms == [day : 0..31, second : 0..DaySeconds - 1]

\* The alarm matches in the future.
LEMMA AlarmInFuture ==
  ASSUME NEW r \in ClockDigits, InRange(r), NEW a \in Alarms
  PROVE  AlarmIn(r, a) \in Nat \ {0}
  <1>. DEFINE inDay == BcdValue(r[3]) * 3600 + BcdValue(r[2]) * 60 + BcdValue(r[1])
              today == BcdValue(r[4])
              tomorrow == BcdValue(ChipAdvanced(r, DaySeconds)[4])
  <1>1. inDay \in Nat /\ inDay <= 86399
    BY RegisterValue DEF InRange, Value
  <1>2. a.second \in Nat
    BY DayLength DEF Alarms
  <1>3. AlarmIn(r, a) = CASE a.day = today /\ a.second > inDay -> a.second - inDay
                          [] a.day = tomorrow /\ a.second <= inDay -> DaySeconds - inDay + a.second
                          [] OTHER -> Ages
    BY DEF AlarmIn
  <1>4. Ages \in Nat \ {0}
    BY DayLength DEF Ages
  <1>. HIDE DEF inDay, today, tomorrow
  <1>5. a.second > inDay => a.second - inDay \in Nat \ {0}
    BY <1>1, <1>2
  <1>6. DaySeconds - inDay + a.second \in Nat \ {0}
    BY <1>1, <1>2, DayLength
  <1>. QED  BY <1>3, <1>4, <1>5, <1>6

\* The chip keeps its digits and their ranges as it counts.
LEMMA CountedRange ==
  ASSUME NEW r \in ClockDigits, InRange(r), NEW seconds \in Nat
  PROVE  ChipAdvanced(r, seconds) \in ClockDigits /\ InRange(ChipAdvanced(r, seconds))
  <1>. DEFINE sum == ShownSecond(r) + seconds
              x == sum % DaySeconds
              n == ChipAdvanced(r, seconds)
  <1>1. sum \in Nat
    BY RegisterValue DEF ShownSecond, Value
  <1>2. x \in Int /\ x >= 0 /\ x <= 86399
    <2>. HIDE DEF sum
    <2>. QED  BY <1>1, DaySplit, DayLength
  <1>3. /\ n \in ClockDigits /\ Value(n, 1) = x % 60
        /\ Value(n, 2) = (x % 3600) \div 60 /\ Value(n, 3) = x \div 3600
    BY Counted
  <1>. HIDE DEF x, n
  <1>4. InRange(n)
    BY <1>2, <1>3, HourSplit DEF InRange
  <1>. QED  BY <1>3, <1>4 DEF n

\* What is written of a supported time is in range, one register at a time.
LEMMA WrittenRange ==
  ASSUME NEW r \in ClockDigits, InRange(r), NEW t \in TimePairs, Supported(t),
         NEW count \in 0..7
  PROVE  LET e == Encoded(UnixToDateTime(t))
             w == [i \in DOMAIN r |-> IF i <= count THEN e[i] ELSE r[i]]
         IN  w \in ClockDigits /\ InRange(w)
  <1>. DEFINE e == Encoded(UnixToDateTime(t))
              w == [i \in DOMAIN r |-> IF i <= count THEN e[i] ELSE r[i]]
  <1>1. e \in ClockDigits /\ Shows(e)
    BY RegistersInverse
  <1>2. InRange(e)
    <2>. HIDE DEF e
    <2>. QED  BY <1>1, RegisterValue DEF Shows, InRange, IsDate, Value
  <1>. HIDE DEF e
  <1>3. DOMAIN r = 1..7 /\ w \in ClockDigits
    BY <1>1 DEF ClockDigits
  <1>4. InRange(w)
    <2>1. \A i \in 1..7 : w[i] = e[i] \/ w[i] = r[i]
      BY <1>3
    <2>2. \A i \in 1..7 : Value(w, i) = Value(e, i) \/ Value(w, i) = Value(r, i)
      <3>. HIDE DEF w
      <3>. QED  BY <2>1 DEF Value
    <2>. HIDE DEF w
    <2>. QED  BY <1>2, <2>2 DEF InRange
  <1>. QED  BY <1>3, <1>4 DEF e

-----------------------------------------------------------------------------
(* The packets on their way *)

IsTelemetry(p) ==
  /\ p = [name \in TelemetryNames \union {"nodeId"} |-> p[name]] /\ p.nodeId = Node
  /\ TelemetryEncodes(p) /\ TelemetryEnumsValid(p) /\ TelemetryFlagsValid(p)

IsAnswer(p) ==
  /\ p = [name \in AckNames \union {"nodeId"} |-> p[name]] /\ p.nodeId = Node
  /\ p.timeValid \in BOOLEAN /\ p.commandType \in CommandTypes
  /\ AckCommandValid(p) /\ AckCanonical(p)
  /\ p.gatewayUnixTime \in Times /\ p.scheduledMaintenanceUnix \in Times

IsResult(p) ==
  /\ p = [name \in ResultNames \union {"nodeId"} |-> p[name]] /\ p.nodeId = Node
  /\ ResultValid(p)

\* This was sent, and is on its way whole or disturbed.
OnAir(wire) == (intact /\ air = wire) \/ (~intact /\ air \in Disturbed(wire))

\* What the receiver made of it.
Understood ==
  /\ heard.status = "ok" <=> intact
  /\ heard.status = "ok" => heard.packet = sent

LinkInv ==
  /\ pc \in {"off", "burst", "toGateway", "toNode", "result"} => heard = NotHeard
  /\ pc = "toGateway" => IsTelemetry(sent) /\ OnAir(EncodeTelemetry(sent))
  /\ pc = "toNode" => IsAnswer(sent) /\ OnAir(EncodeAckCommand(sent))
  /\ pc = "result" => IsResult(sent) /\ OnAir(EncodeCommandResult(sent))
  /\ pc \in {"answer", "sync", "verify", "command", "done"} => Understood
  /\ pc \in {"sync", "verify", "command"} => heard.status = "ok" /\ IsAnswer(sent)

ClockTypes ==
  /\ now \in Times /\ registers \in ClockDigits /\ InRange(registers) /\ voltageLow \in BOOLEAN
  /\ alarm \in Alarms /\ alarmFlag \in BOOLEAN

NodeTypes ==
  /\ pc \in {"off", "burst", "toGateway", "answer", "toNode", "sync",
             "verify", "command", "result", "done"}
  /\ rtc \in Readings /\ ticked \in BOOLEAN /\ polled \in BOOLEAN
  /\ schedule \in [state : ScheduleStates, target : Times]
  /\ schedule.state = "pending" => Supported(schedule.target)
  /\ schedule.state = "none" => schedule.target = Never
  /\ trusted \in BOOLEAN /\ slack \in 0..MaxSlack + Threshold + 1 /\ excused \in BOOLEAN

PathInv == ClockTypes /\ NodeTypes /\ intact \in BOOLEAN /\ LinkInv

LEMMA SentTelemetry ==
  ASSUME NEW reading, reading.state \in RtcStates, NEW last \in Remembered,
         schedule.state \in ScheduleStates, schedule.state = "none" => schedule.target = Never,
         TelemetryEncodes(Telemetry(reading, last))
  PROVE  IsTelemetry(Telemetry(reading, last))
  <1>. DEFINE p == Telemetry(reading, last)
  <1>1. DOMAIN p = TelemetryNames \union {"nodeId"} /\ p = [name \in DOMAIN p |-> p[name]]
    BY DEF Telemetry, TelemetryNames
  <1>2. /\ p.nodeId = Node /\ p.filterState \in {"stable", "invalid"} /\ p.bootReason = "rtcTimer"
        /\ p.rtcState = reading.state /\ p.scheduleState = schedule.state
        /\ p.lastCommandType = last[2] /\ p.lastCommandResult = last[3]
        /\ p.lastCommandId = last[1] /\ p.scheduledMaintenanceUnix = schedule.target
        /\ p.pollIntervalMinutes = 10
        /\ p.rtcUnixTime = IF reading.state = "valid" THEN reading.time ELSE Never
    BY DEF Telemetry
  <1>3. last = <<0, "none", "none">> \/ last = <<7, "setPollIntervalMinutes", "applied">>
    BY DEF Remembered, NoneYet, NoResult
  <1>. HIDE DEF p
  <1>4. TelemetryEnumsValid(p)
    BY <1>2, <1>3 DEF TelemetryEnumsValid, FilterStates, BootReasons, CommandTypes, ResultCodes
  <1>5. TelemetryFlagsValid(p)
    BY <1>2, <1>3 DEF TelemetryFlagsValid, Never, NoTime
  <1>6. TelemetryEncodes(p)
    BY DEF p
  <1>7. p = [name \in TelemetryNames \union {"nodeId"} |-> p[name]]
    BY <1>1
  <1>8. IsTelemetry(p)
    BY <1>2, <1>4, <1>5, <1>6, <1>7 DEF IsTelemetry
  <1>. QED  BY <1>8 DEF p

LEMMA SentAnswer ==
  ASSUME now \in Times, NEW sequence, NEW timeValid \in BOOLEAN, NEW command \in Commands,
         AckCommandValid(Ack(sequence, timeValid, command))
  PROVE  IsAnswer(Ack(sequence, timeValid, command))
  <1>. DEFINE p == Ack(sequence, timeValid, command)
  <1>1. DOMAIN p = AckNames \union {"nodeId"} /\ p = [name \in DOMAIN p |-> p[name]]
    BY DEF Ack, AckNames, AckFixedNames
  <1>2. /\ p.nodeId = Node /\ p.timeValid = timeValid /\ p.commandType = command[1]
        /\ p.gatewayUnixTime = IF timeValid THEN now ELSE Never
        /\ p.pollIntervalMinutes = command[2] /\ p.scheduledMaintenanceUnix = command[3]
    BY DEF Ack
  <1>3. /\ command[1] \in CommandTypes /\ command[3] \in Times
        /\ command[1] # "setPollIntervalMinutes" => command[2] = 0
        /\ command[1] # "scheduleMaintenanceAt" => command[3] = Never
    <2>1. Never \in Times
      BY DayLength DEF Never, Times
    <2>2. CASE command \in {<<"none", 0, Never>>, <<"enterMaintenanceNow", 0, Never>>,
                            <<"setPollIntervalMinutes", 30, Never>>}
      BY <2>1, <2>2 DEF CommandTypes
    <2>3. CASE \E target \in Targets : command = <<"scheduleMaintenanceAt", 0, target>>
      <3>1. PICK target \in Targets : command = <<"scheduleMaintenanceAt", 0, target>>
        BY <2>3
      <3>2. PICK days \in Ahead, second \in TargetTimes :
              target = [day |-> now.day + days, second |-> second]
        BY <3>1 DEF Targets
      <3>3. target \in Times
        <4>1. days \in Nat /\ second \in 0..DaySeconds - 1 /\ now.day \in Nat
          BY AheadAssumption, TimesAssumption DEF Times
        <4>2. now.day + days \in Nat
          BY <4>1
        <4>. QED  BY <3>2, <4>1, <4>2 DEF Times
      <3>. QED  BY <3>1, <3>3 DEF CommandTypes
    <2>. QED  BY <2>2, <2>3 DEF Commands
  <1>4. AckCommandValid(p)
    OBVIOUS
  <1>. HIDE DEF p
  <1>5. AckCanonical(p)
    BY <1>2, <1>3 DEF AckCanonical, Never, NoTime
  <1>6. p.gatewayUnixTime \in Times
    <2>1. Never \in Times
      BY DayLength DEF Never, Times
    <2>. QED  BY <1>2, <2>1
  <1>7. p = [name \in AckNames \union {"nodeId"} |-> p[name]]
    BY <1>1
  <1>8. IsAnswer(p)
    BY <1>2, <1>3, <1>4, <1>5, <1>6, <1>7 DEF IsAnswer
  <1>. QED  BY <1>8 DEF p

LEMMA SentResult ==
  ASSUME NEW code, ResultValid(CommandResult(code))
  PROVE  IsResult(CommandResult(code))
  <1>. DEFINE p == CommandResult(code)
  <1>1. DOMAIN p = ResultNames \union {"nodeId"} /\ p = [name \in DOMAIN p |-> p[name]]
        /\ p.nodeId = Node
    BY DEF CommandResult, ResultNames
  <1>2. ResultValid(p)
    OBVIOUS
  <1>. HIDE DEF p
  <1>3. IsResult(p)
    BY <1>1, <1>2 DEF IsResult
  <1>. QED  BY <1>3 DEF p

\* What a receiver makes of what is on the air.
LEMMA HeardTelemetry ==
  ASSUME IsTelemetry(sent), OnAir(EncodeTelemetry(sent))
  PROVE  LET outcome == DecodeTelemetry(air)
         IN  (outcome.status = "ok" <=> intact) /\ (outcome.status = "ok" => outcome.packet = sent)
  <1>1. intact => DecodeTelemetry(air) = [status |-> "ok", packet |-> sent]
    BY TelemetryRoundTrip DEF IsTelemetry, OnAir
  <1>2. ~intact => DecodeTelemetry(air).status # "ok"
    BY TelemetryDisturbed DEF IsTelemetry, OnAir
  <1>. QED  BY <1>1, <1>2

LEMMA HeardAnswer ==
  ASSUME IsAnswer(sent), OnAir(EncodeAckCommand(sent))
  PROVE  LET outcome == DecodeAckCommand(air)
         IN  (outcome.status = "ok" <=> intact) /\ (outcome.status = "ok" => outcome.packet = sent)
  <1>0. NodeIdValid(sent.nodeId)
    BY DEF IsAnswer, NodeIdValid, Node, IdCapacity
  <1>1. intact => DecodeAckCommand(air) = [status |-> "ok", packet |-> sent]
    BY <1>0, AckRoundTrip DEF IsAnswer, OnAir
  <1>2. ~intact => DecodeAckCommand(air).status # "ok"
    BY AckDisturbed DEF IsAnswer, OnAir
  <1>. QED  BY <1>1, <1>2

LEMMA HeardResult ==
  ASSUME IsResult(sent), OnAir(EncodeCommandResult(sent))
  PROVE  LET outcome == DecodeCommandResult(air)
         IN  (outcome.status = "ok" <=> intact) /\ (outcome.status = "ok" => outcome.packet = sent)
  <1>0. NodeIdValid(sent.nodeId)
    BY DEF IsResult, NodeIdValid, Node, IdCapacity
  <1>1. intact => DecodeCommandResult(air) = [status |-> "ok", packet |-> sent]
    BY <1>0, ResultRoundTrip DEF IsResult, OnAir
  <1>2. ~intact => DecodeCommandResult(air).status # "ok"
    BY ResultDisturbed DEF IsResult, OnAir
  <1>. QED  BY <1>1, <1>2

-----------------------------------------------------------------------------
(* The steps *)

LEMMA InitInv == Init => PathInv
  <1>. SUFFICES ASSUME Init PROVE PathInv
    OBVIOUS
  <1>1. Blank \in ClockDigits /\ InRange(Blank)
    <2>1. Blank = [i \in 1..7 |-> <<0, 0>>]
      BY Positions DEF Blank
    <2>. HIDE DEF Blank
    <2>2. Blank \in ClockDigits
      BY <2>1 DEF ClockDigits
    <2>. QED  BY <2>1, <2>2 DEF InRange, Value, BcdValue
  <1>2. Never \in Times /\ NoAlarmSet \in Alarms
    BY DayLength DEF Never, Times, NoAlarmSet, Alarms
  <1>3. now \in Times
    <2>1. PICK day \in Starts : now = [day |-> day, second |-> Start]
      BY DEF Init
    <2>. QED  BY <2>1, DaysAssumption, TimesAssumption DEF Times
  <1>4. ClockTypes
    BY <1>1, <1>2, <1>3 DEF Init, ClockTypes
  <1>5. NodeTypes
    <2>1. Unknown \in Readings
      BY <1>2 DEF Unknown, Readings, RtcStates
    <2>2. NoSchedule \in [state : ScheduleStates, target : Times]
          /\ NoSchedule.state = "none" /\ NoSchedule.target = Never
      BY <1>2 DEF NoSchedule, ScheduleStates
    <2>3. 0 \in 0..MaxSlack + Threshold + 1
      BY ClockAssumption
    <2>. QED  BY <2>1, <2>2, <2>3 DEF Init, NodeTypes
  <1>. QED  BY <1>4, <1>5 DEF Init, PathInv, LinkInv

\* Time keeps the types, and nothing else changes with it.
LEMMA TimePassesTypes ==
  ASSUME ClockTypes, NEW seconds \in Nat, NEW counted \in Nat, TimePasses(seconds, counted)
  PROVE  ClockTypes'
  <1>1. now' \in Times
    BY TotalLater DEF TimePasses, ClockTypes, Times, TimePairs
  <1>2. registers' \in ClockDigits /\ InRange(registers)'
    BY CountedRange DEF TimePasses, ClockTypes
  <1>3. alarmFlag' \in BOOLEAN
    BY Zenon DEF TimePasses, ClockTypes
  <1>. QED  BY <1>1, <1>2, <1>3 DEF TimePasses, ClockTypes

LEMMA TimeInv ==
  ASSUME PathInv, DayPasses \/ ClockDrifts \/ SecondPasses
  PROVE  PathInv'
  <1>. USE DEF PathInv
  <1>1. CASE DayPasses
    <2>. DEFINE in == AlarmIn(registers, alarm)
                seconds == IF in < DaySeconds THEN in ELSE DaySeconds
    <2>1. in \in Nat
      BY AlarmInFuture DEF ClockTypes
    <2>2. TimePasses(seconds, seconds)
      BY <1>1 DEF DayPasses
    <2>. HIDE DEF in
    <2>3. seconds \in Nat
      BY <2>1, DayLength
    <2>. HIDE DEF seconds
    <2>4. ClockTypes'
      BY <2>2, <2>3, TimePassesTypes
    <2>. QED  BY <1>1, <2>4
          DEF DayPasses, linkVars, historyVars, NodeTypes, LinkInv, OnAir, Understood
  <1>2. CASE ClockDrifts
    <2>1. PICK seconds \in Drifts :
            /\ slack + seconds <= MaxSlack /\ slack' = slack + seconds
            /\ TimePasses(seconds, 0) \/ TimePasses(0, seconds)
      BY <1>2 DEF ClockDrifts
    <2>2. seconds \in Nat
      BY ClockAssumption
    <2>3. ClockTypes'
      BY <2>1, <2>2, TimePassesTypes
    <2>4. slack' \in 0..MaxSlack + Threshold + 1
      BY <2>1, <2>2, ClockAssumption DEF NodeTypes
    <2>. QED  BY <1>2, <2>3, <2>4 DEF ClockDrifts, linkVars, NodeTypes, LinkInv, OnAir, Understood
  <1>3. CASE SecondPasses
    <2>1. ClockTypes'
      BY <1>3, TimePassesTypes DEF SecondPasses
    <2>. QED  BY <1>3, <2>1
          DEF SecondPasses, linkVars, historyVars, NodeTypes, LinkInv, OnAir, Understood
  <1>. QED  BY <1>1, <1>2, <1>3

LEMMA WakeInv ==
  ASSUME PathInv, Wake \/ Measure
  PROVE  PathInv'
  <1>1. CASE Wake
    BY <1>1 DEF Wake, PathInv, ClockTypes, NodeTypes, LinkInv, OnAir, Understood,
                clockVars, linkVars, historyVars
  <1>2. CASE Measure
    BY <1>2 DEF Measure, PathInv, ClockTypes, NodeTypes, LinkInv, OnAir, Understood,
                pathVars, clockVars, linkVars, historyVars
  <1>. QED  BY <1>1, <1>2

\* What the driver reads is a reading.
LEMMA ReadingTyped ==
  ASSUME NEW r \in ClockDigits, NEW low \in BOOLEAN
  PROVE  ReadDateTime(r, low) \in Readings
  BY Reading DEF Readings, RtcStates, Times

LEMMA SendTelemetryInv ==
  ASSUME PathInv, SendTelemetry
  PROVE  PathInv'
  <1>. USE DEF PathInv
  <1>. DEFINE reading == ReadDateTime(registers, voltageLow)
  <1>1. PICK last \in Remembered :
          /\ TelemetryEncodes(Telemetry(rtc', last))
          /\ Send(Telemetry(rtc', last), EncodeTelemetry(Telemetry(rtc', last)))
    BY Zenon DEF SendTelemetry
  <1>2. rtc' = reading /\ reading \in Readings /\ reading.state \in RtcStates
    BY ReadingTyped DEF SendTelemetry, ClockTypes, Readings
  <1>. DEFINE p == Telemetry(reading, last)
  <1>3. TelemetryEncodes(p) /\ Send(p, EncodeTelemetry(p))
    BY <1>1, <1>2
  <1>4. IsTelemetry(p)
    <2>1. schedule.state \in ScheduleStates /\ (schedule.state = "none" => schedule.target = Never)
      BY DEF NodeTypes
    <2>. HIDE DEF reading
    <2>. QED  BY <1>2, <1>3, <2>1, SentTelemetry
  <1>. HIDE DEF p, reading
  <1>5. IsTelemetry(sent') /\ intact' = TRUE /\ air' = EncodeTelemetry(sent') /\ heard' = NotHeard
    BY <1>3, <1>4 DEF Send
  <1>6. ClockTypes'
    BY DEF SendTelemetry, clockVars, ClockTypes
  <1>7. NodeTypes' /\ pc' = "toGateway"
    BY <1>2 DEF SendTelemetry, historyVars, NodeTypes
  <1>. QED  BY <1>5, <1>6, <1>7 DEF LinkInv, OnAir

LEMMA DisturbInv ==
  ASSUME PathInv, Disturb
  PROVE  PathInv'
  <1>. USE DEF PathInv
  <1>1. ClockTypes' /\ NodeTypes'
    BY DEF Disturb, clockVars, historyVars, ClockTypes, NodeTypes
  <1>2. /\ pc' = pc /\ pc \in {"toGateway", "toNode", "result"} /\ intact /\ intact' = FALSE
        /\ air' \in Disturbed(air) /\ sent' = sent /\ heard' = heard
    BY DEF Disturb
  <1>. QED  BY <1>1, <1>2 DEF LinkInv, OnAir

LEMMA GatewayDecodesInv ==
  ASSUME PathInv, GatewayDecodes
  PROVE  PathInv'
  <1>. USE DEF PathInv
  <1>. DEFINE outcome == DecodeTelemetry(air)
  <1>1. /\ heard' = outcome /\ pc' = IF outcome.status = "ok" THEN "answer" ELSE "done"
        /\ sent' = sent /\ intact' = intact
    BY DEF GatewayDecodes
  <1>2. (outcome.status = "ok" <=> intact) /\ (outcome.status = "ok" => outcome.packet = sent)
    BY HeardTelemetry DEF LinkInv, GatewayDecodes
  <1>. HIDE DEF outcome
  <1>3. pc' \in {"answer", "done"}
    BY <1>1
  <1>4. Understood'
    BY <1>1, <1>2 DEF Understood
  <1>5. ClockTypes'
    BY DEF GatewayDecodes, clockVars, ClockTypes
  <1>6. NodeTypes'
    BY <1>3 DEF GatewayDecodes, historyVars, NodeTypes
  <1>. QED  BY <1>1, <1>3, <1>4, <1>5, <1>6 DEF LinkInv

LEMMA GatewayAnswersInv ==
  ASSUME PathInv, GatewayAnswers
  PROVE  PathInv'
  <1>. USE DEF PathInv
  <1>1. PICK packet \in Answers : AckCommandValid(packet) /\ Send(packet, EncodeAckCommand(packet))
    BY DEF GatewayAnswers
  <1>2. \E sequence \in {0, 1}, timeValid \in BOOLEAN, command \in Commands :
          packet = Ack(sequence, timeValid, command)
    <2>1. CASE packet \in {Ack(1, TRUE, command) : command \in Commands}
      BY <2>1
    <2>2. CASE packet \in {Ack(1, FALSE, command) : command \in Commands}
      BY <2>2
    <2>3. CASE packet \in {Ack(0, TRUE, <<"none", 0, Never>>)}
      <3>1. <<"none", 0, Never>> \in Commands
        BY DEF Commands
      <3>2. packet = Ack(0, TRUE, <<"none", 0, Never>>)
        BY <2>3
      <3>. WITNESS 0 \in {0, 1}, TRUE \in BOOLEAN, <<"none", 0, Never>> \in Commands
      <3>. QED  BY <3>2
    <2>. QED  BY <2>1, <2>2, <2>3, Zenon DEF Answers
  <1>3. now \in Times
    BY DEF ClockTypes
  <1>4. IsAnswer(packet)
    BY <1>1, <1>2, <1>3, SentAnswer
  <1>5. IsAnswer(sent') /\ intact' = TRUE /\ air' = EncodeAckCommand(sent') /\ heard' = NotHeard
    BY <1>1, <1>4 DEF Send
  <1>6. ClockTypes'
    BY DEF GatewayAnswers, clockVars, ClockTypes
  <1>7. NodeTypes' /\ pc' = "toNode"
    BY DEF GatewayAnswers, historyVars, NodeTypes
  <1>. QED  BY <1>5, <1>6, <1>7 DEF LinkInv, OnAir

LEMMA NodeDecodesInv ==
  ASSUME PathInv, NodeDecodes
  PROVE  PathInv'
  <1>. USE DEF PathInv
  <1>. DEFINE outcome == DecodeAckCommand(air)
              matches == outcome.status = "ok" /\ AckMatches(outcome.packet, Telemetry(rtc, NoneYet))
  <1>1. /\ heard' = outcome /\ pc' = IF matches THEN "sync" ELSE "done"
        /\ sent' = sent /\ intact' = intact
    BY DEF NodeDecodes
  <1>2. (outcome.status = "ok" <=> intact) /\ (outcome.status = "ok" => outcome.packet = sent)
    BY HeardAnswer DEF LinkInv, NodeDecodes
  <1>3. matches => outcome.status = "ok"
    OBVIOUS
  <1>4. IsAnswer(sent)
    BY DEF LinkInv, NodeDecodes
  <1>. HIDE DEF outcome, matches
  <1>5. pc' \in {"sync", "done"} /\ (pc' = "sync" => heard'.status = "ok")
    BY <1>1, <1>3
  <1>6. Understood'
    BY <1>1, <1>2 DEF Understood
  <1>7. ClockTypes'
    BY DEF NodeDecodes, clockVars, ClockTypes
  <1>8. NodeTypes'
    BY <1>5 DEF NodeDecodes, historyVars, NodeTypes
  <1>. QED  BY <1>1, <1>4, <1>5, <1>6, <1>7, <1>8 DEF LinkInv

\* The time the node was told, while it deals with it.
LEMMA TimeHeard ==
  ASSUME PathInv, pc \in {"sync", "verify", "command"}
  PROVE  /\ heard.packet = sent /\ IsAnswer(sent) /\ GatewayTime = sent.gatewayUnixTime
         /\ GatewayTime \in Times
  <1>1. heard.status = "ok" /\ IsAnswer(sent) /\ Understood
    BY DEF PathInv, LinkInv
  <1>2. heard.packet = sent
    BY <1>1 DEF Understood
  <1>. QED  BY <1>1, <1>2 DEF GatewayTime, IsAnswer

LEMMA SynchronizedTypes ==
  ASSUME PathInv, pc \in {"sync", "verify"}, Synchronized
  PROVE  rtc' \in Readings /\ trusted' \in BOOLEAN /\ slack' \in 0..MaxSlack + Threshold + 1
  <1>1. /\ rtc' = [state |-> "valid", time |-> GatewayTime]
        /\ trusted' = TRUE /\ slack' = Threshold + 1
    BY DEF Synchronized
  <1>2. GatewayTime \in Times
    BY TimeHeard
  <1>3. Threshold + 1 \in 0..MaxSlack + Threshold + 1
    BY ClockAssumption
  <1>. QED  BY <1>1, <1>2, <1>3 DEF Readings, RtcStates

\* Whatever is written of the registers, they hold digits in range.
LEMMA WriteClockTypes ==
  ASSUME PathInv, pc = "sync", ~TimeRefused, NEW count \in 0..7, WriteClock(count)
  PROVE  ClockTypes' /\ trusted' \in BOOLEAN /\ excused' \in BOOLEAN
  <1>. DEFINE e == Encoded(UnixToDateTime(GatewayTime))
              w == [i \in DOMAIN registers |-> IF i <= count THEN e[i] ELSE registers[i]]
  <1>1. GatewayTime \in TimePairs /\ Supported(GatewayTime)
    BY TimeHeard DEF TimeRefused, Times, TimePairs
  <1>2. registers' = w
    BY DEF WriteClock
  <1>3. registers \in ClockDigits /\ InRange(registers)
    BY DEF PathInv, ClockTypes
  <1>4. w \in ClockDigits /\ InRange(w)
    BY <1>1, <1>3, WrittenRange
  <1>. HIDE DEF w
  <1>5. voltageLow' \in BOOLEAN /\ trusted' \in BOOLEAN /\ excused' \in BOOLEAN
    BY Zenon DEF WriteClock, PathInv, ClockTypes, NodeTypes
  <1>6. UNCHANGED <<now, alarm, alarmFlag>>
    BY DEF WriteClock
  <1>. QED  BY <1>2, <1>4, <1>5, <1>6 DEF PathInv, ClockTypes

LEMMA Writes == TornWrites \subseteq 0..6 /\ Len(ClockRegisters) = 7
  BY Positions DEF TornWrites

LEMMA SyncInv ==
  ASSUME PathInv, NoSync \/ ClockInOrder \/ ClockWritten \/ ClockWriteFails \/ ClockVerified
  PROVE  PathInv'
  <1>1. ASSUME UNCHANGED linkVars, pc \in {"sync", "verify"}, pc' \in {"verify", "command"},
               ClockTypes', NodeTypes'
        PROVE  PathInv'
    <2>1. /\ pc' # "off" /\ pc' # "burst" /\ pc' # "toGateway" /\ pc' # "answer" /\ pc' # "toNode"
          /\ pc' # "result" /\ pc' # "done"
      BY <1>1
    <2>2. Understood /\ heard.status = "ok" /\ IsAnswer(sent) /\ intact \in BOOLEAN
      BY <1>1 DEF PathInv, LinkInv
    <2>3. sent' = sent /\ heard' = heard /\ intact' = intact
      BY <1>1 DEF linkVars
    <2>4. Understood' /\ heard'.status = "ok" /\ IsAnswer(sent')
      BY <2>2, <2>3 DEF Understood
    <2>. QED  BY <1>1, <2>1, <2>2, <2>3, <2>4 DEF PathInv, LinkInv
  <1>2. CASE NoSync
    <2>1. ClockTypes' /\ NodeTypes'
      BY <1>2 DEF NoSync, PathInv, ClockTypes, NodeTypes, clockVars, historyVars
    <2>. QED  BY <1>1, <1>2, <2>1 DEF NoSync
  <1>3. CASE ClockInOrder
    <2>1. Synchronized /\ pc = "sync"
      BY <1>3 DEF ClockInOrder
    <2>2. rtc' \in Readings /\ trusted' \in BOOLEAN /\ slack' \in 0..MaxSlack + Threshold + 1
      BY <2>1, SynchronizedTypes
    <2>3. ClockTypes' /\ NodeTypes'
      BY <1>3, <2>2 DEF ClockInOrder, PathInv, ClockTypes, NodeTypes, clockVars
    <2>. QED  BY <1>1, <1>3, <2>3 DEF ClockInOrder
  <1>4. CASE ClockWritten
    <2>1. pc = "sync" /\ ~TimeRefused /\ WriteClock(7)
      BY <1>4, Writes DEF ClockWritten
    <2>2. ClockTypes' /\ trusted' \in BOOLEAN /\ excused' \in BOOLEAN
      BY <2>1, WriteClockTypes
    <2>3. NodeTypes'
      BY <1>4, <2>2 DEF ClockWritten, PathInv, NodeTypes
    <2>. QED  BY <1>1, <1>4, <2>2, <2>3 DEF ClockWritten
  <1>5. CASE ClockWriteFails
    <2>1. PICK count \in TornWrites : WriteClock(count)
      BY <1>5 DEF ClockWriteFails
    <2>2. count \in 0..7
      BY Writes
    <2>3. pc = "sync" /\ ~TimeRefused
      BY <1>5 DEF ClockWriteFails
    <2>4. ClockTypes' /\ trusted' \in BOOLEAN /\ excused' \in BOOLEAN
      BY <2>1, <2>2, <2>3, WriteClockTypes
    <2>5. ReadDateTime(registers', voltageLow') \in Readings
      BY <2>4, ReadingTyped DEF ClockTypes
    <2>6. NodeTypes'
      BY <1>5, <2>4, <2>5 DEF ClockWriteFails, PathInv, NodeTypes
    <2>. QED  BY <1>1, <1>5, <2>4, <2>6 DEF ClockWriteFails
  <1>6. CASE ClockVerified
    <2>1. /\ pc = "verify"
          /\ \/ Synchronized
             \/ rtc' = ReadDateTime(registers, voltageLow) /\ UNCHANGED <<trusted, slack>>
      BY <1>6 DEF ClockVerified
    <2>2. ReadDateTime(registers, voltageLow) \in Readings
      BY ReadingTyped DEF PathInv, ClockTypes
    <2>3. rtc' \in Readings /\ trusted' \in BOOLEAN /\ slack' \in 0..MaxSlack + Threshold + 1
      <3>1. CASE Synchronized
        BY <2>1, <3>1, SynchronizedTypes
      <3>2. CASE rtc' = ReadDateTime(registers, voltageLow) /\ UNCHANGED <<trusted, slack>>
        BY <2>2, <3>2 DEF PathInv, NodeTypes
      <3>. QED  BY <2>1, <3>1, <3>2
    <2>4. ClockTypes' /\ NodeTypes'
      BY <1>6, <2>3 DEF ClockVerified, PathInv, ClockTypes, NodeTypes, clockVars
    <2>. QED  BY <1>1, <1>6, <2>4 DEF ClockVerified
  <1>. QED  BY <1>2, <1>3, <1>4, <1>5, <1>6

\* A result goes out.
LEMMA AnswerInv ==
  ASSUME PathInv, pc = "command", NEW code, Answer(code), ClockTypes',
         NodeTypes'
  PROVE  PathInv'
  <1>1. /\ ResultValid(CommandResult(code)) /\ pc' = "result"
        /\ Send(CommandResult(code), EncodeCommandResult(CommandResult(code)))
    BY DEF Answer
  <1>2. IsResult(CommandResult(code))
    BY <1>1, SentResult
  <1>3. IsResult(sent') /\ intact' = TRUE /\ air' = EncodeCommandResult(sent') /\ heard' = NotHeard
    BY <1>1, <1>2 DEF Send
  <1>. QED  BY <1>1, <1>3 DEF PathInv, LinkInv, OnAir

LEMMA CommandInv ==
  ASSUME PathInv, NoCommand \/ OtherCommand \/ ScheduleCommand \/ GatewayHearsResult
  PROVE  PathInv'
  <1>1. CASE NoCommand
    <2>1. ClockTypes' /\ NodeTypes'
      BY <1>1 DEF NoCommand, PathInv, ClockTypes, NodeTypes, clockVars, historyVars
    <2>2. Understood /\ intact \in BOOLEAN
      BY <1>1 DEF NoCommand, PathInv, LinkInv
    <2>. QED  BY <1>1, <2>1, <2>2 DEF NoCommand, PathInv, LinkInv, linkVars, Understood
  <1>2. CASE OtherCommand
    <2>1. Answer("applied") /\ pc = "command"
      BY <1>2 DEF OtherCommand
    <2>2. pc' = "result"
      BY <2>1 DEF Answer
    <2>3. ClockTypes' /\ NodeTypes'
      BY <1>2, <2>2 DEF OtherCommand, PathInv, ClockTypes, NodeTypes, clockVars, historyVars
    <2>. QED  BY <2>1, <2>3, AnswerInv
  <1>3. CASE ScheduleCommand
    <2>. DEFINE reading == ReadDateTime(registers, voltageLow)
                target == heard.packet.scheduledMaintenanceUnix
    <2>1. /\ pc = "command" /\ rtc' = reading
          /\ \/ reading.state = "valid" /\ ScheduleRepresentable(reading.time, target)
                /\ ScheduleTaken(target)
             \/ ScheduleRefused(reading)
          /\ UNCHANGED <<echoVars, now, registers, voltageLow, alarmFlag, ticked, polled,
                         trusted, slack>>
      BY <1>3 DEF ScheduleCommand
    <2>2. target \in Times
      BY <2>1, TimeHeard DEF IsAnswer
    <2>3. reading \in Readings
      BY ReadingTyped DEF PathInv, ClockTypes
    <2>. HIDE DEF reading, target
    <2>4. CASE ScheduleRepresentable(reading.time, target) /\ ScheduleTaken(target)
      <3>1. Supported(target) /\ (target.second % 60) = 0
        BY <2>4 DEF ScheduleRepresentable
      <3>2. AlarmFor(target) \in Alarms
        BY <2>2, <3>1, AlarmFields DEF Alarms, Times, TimePairs
      <3>3. /\ schedule' = [state |-> "pending", target |-> target] /\ alarm' = AlarmFor(target)
            /\ excused' = alarmFlag /\ Answer("applied") /\ pc' = "result"
        BY <2>4 DEF ScheduleTaken, Answer
      <3>4. ClockTypes'
        BY <2>1, <3>2, <3>3 DEF PathInv, ClockTypes
      <3>5. schedule' \in [state : ScheduleStates, target : Times]
            /\ Supported(schedule'.target) /\ schedule'.state = "pending"
        BY <2>2, <3>1, <3>3 DEF ScheduleStates
      <3>6. excused' \in BOOLEAN
        BY <3>3 DEF PathInv, ClockTypes
      <3>7. NodeTypes'
        BY <2>1, <2>3, <3>3, <3>5, <3>6 DEF PathInv, NodeTypes
      <3>. QED  BY <2>1, <3>3, <3>4, <3>7, AnswerInv
    <2>5. CASE ScheduleRefused(reading)
      <3>1. UNCHANGED <<alarm, schedule, excused>> /\ \E code : Answer(code)
        BY <2>5 DEF ScheduleRefused
      <3>2. PICK code : Answer(code)
        BY <3>1
      <3>3. pc' = "result"
        BY <3>2 DEF Answer
      <3>4. ClockTypes' /\ NodeTypes'
        BY <2>1, <2>3, <3>1, <3>3 DEF PathInv, ClockTypes, NodeTypes
      <3>. QED  BY <2>1, <3>2, <3>4, AnswerInv
    <2>. QED  BY <2>1, <2>4, <2>5
  <1>4. CASE GatewayHearsResult
    <2>. DEFINE outcome == DecodeCommandResult(air)
    <2>1. /\ pc = "result" /\ heard' = outcome /\ pc' = "done" /\ sent' = sent /\ intact' = intact
      BY <1>4 DEF GatewayHearsResult
    <2>2. (outcome.status = "ok" <=> intact) /\ (outcome.status = "ok" => outcome.packet = sent)
      BY <2>1, HeardResult DEF PathInv, LinkInv
    <2>. HIDE DEF outcome
    <2>3. Understood'
      BY <2>1, <2>2 DEF Understood
    <2>4. ClockTypes' /\ NodeTypes' /\ intact' \in BOOLEAN
      BY <1>4, <2>1 DEF GatewayHearsResult, PathInv, ClockTypes, NodeTypes, clockVars, historyVars
    <2>. QED  BY <2>1, <2>3, <2>4 DEF PathInv, LinkInv
  <1>. QED  BY <1>1, <1>2, <1>3, <1>4

LEMMA PowerInv ==
  ASSUME PathInv, PowerOff \/ AlarmServed
  PROVE  PathInv'
  <1>1. Never \in Times /\ NoAlarmSet \in Alarms
    BY DayLength DEF Never, Times, NoAlarmSet, Alarms
  <1>2. CASE PowerOff
    <2>1. Unknown \in Readings
      BY <1>1 DEF Unknown, Readings, RtcStates
    <2>2. ClockTypes' /\ NodeTypes'
      BY <1>2, <2>1 DEF PowerOff, PathInv, ClockTypes, NodeTypes, clockVars, historyVars
    <2>. QED  BY <1>2, <2>2 DEF PowerOff, PathInv, LinkInv
  <1>3. CASE AlarmServed
    <2>. DEFINE state == IF AlarmIsDue(ReadDateTime(registers, voltageLow)) THEN "completed"
                         ELSE IF schedule.state = "pending" THEN "failed" ELSE schedule.state
    <2>1. ClockTypes'
      BY <1>1, <1>3 DEF AlarmServed, PathInv, ClockTypes
    <2>2. schedule' = [schedule EXCEPT !.state = state]
      BY <1>3 DEF AlarmServed
    <2>3. state \in ScheduleStates /\ state # "pending"
          /\ (state = "none" => schedule.state = "none")
      BY DEF PathInv, NodeTypes, ScheduleStates
    <2>. HIDE DEF state
    <2>4. schedule' \in [state : ScheduleStates, target : Times] /\ schedule'.state = state
          /\ schedule'.target = schedule.target
      BY <2>2, <2>3 DEF PathInv, NodeTypes
    <2>5. NodeTypes'
      BY <1>3, <2>3, <2>4 DEF AlarmServed, PathInv, NodeTypes, historyVars
    <2>. QED  BY <1>3, <2>1, <2>5 DEF AlarmServed, PathInv, LinkInv, linkVars
  <1>. QED  BY <1>2, <1>3

LEMMA NextInv == PathInv /\ [Next]_vars => PathInv'
  <1>. SUFFICES ASSUME PathInv, [Next]_vars PROVE PathInv'
    OBVIOUS
  <1>1. CASE UNCHANGED vars
    BY <1>1 DEF vars, pathVars, clockVars, linkVars, historyVars, PathInv, ClockTypes, NodeTypes,
                LinkInv, OnAir, Understood
  <1>. QED  BY <1>1, TimeInv, WakeInv, SendTelemetryInv, DisturbInv, GatewayDecodesInv,
               GatewayAnswersInv, NodeDecodesInv, SyncInv, CommandInv, PowerInv DEF Next

-----------------------------------------------------------------------------
(* The clock *)

\* Two times no more than so many seconds apart.
Near(s, t, k) == Total(s) - k <= Total(t) /\ Total(t) <= Total(s) + k

\* The days of the model, and how the node's clock and the gateway's time stand
\* to it: no second has passed unnoticed since the answer was written.
DaysHeld ==
  /\ now.day \in Days
  /\ pc \in {"off", "burst", "toGateway", "answer"} => ~ticked
  /\ pc = "verify" => sent.timeValid
  /\ pc \in {"toNode", "sync", "verify", "command"} /\ sent.timeValid =>
       /\ ~ticked => now = sent.gatewayUnixTime
       /\ ticked => now = Later(sent.gatewayUnixTime, 1)

ClockHeld ==
  trusted => Shows(registers) /\ ~voltageLow /\ Near(Shown(registers), now, slack)

ClockInv == DaysHeld /\ ClockHeld

LEMMA DaysRange ==
  /\ Starts \subseteq Days
  /\ \A day \in Days : day \in Int /\ day >= 10957 /\ day <= 47480
  <1>1. ASSUME NEW day \in Starts PROVE day \in Days
    <2>1. day \in day..day + Span - 1
      BY <1>1, DaysAssumption
    <2>. QED  BY <1>1, <2>1 DEF Days
  <1>2. ASSUME NEW day \in Days PROVE day \in Int /\ day >= 10957 /\ day <= 47480
    BY <1>2, DaysAssumption, CenturyDays
  <1>. QED  BY <1>1, <1>2

LEMMA ShownTime ==
  ASSUME NEW r \in ClockDigits, Shows(r)
  PROVE  Shown(r) \in TimePairs /\ Shown(r).day <= 47481
  <1>1. ShownDay(r) \in Nat /\ ShownDay(r) <= 47481
    BY ShownRange, CenturyDays
  <1>2. ShownSecond(r) \in 0..DaySeconds - 1
    BY ShownRange
  <1>. QED  BY <1>1, <1>2 DEF Shown, TimePairs

\* The chip counts the seconds, until its century is over.
LEMMA ChipKeepsTime ==
  ASSUME NEW r \in ClockDigits, Shows(r), NEW c \in Nat, c <= DaySeconds,
         Total(Shown(r)) + c <= 86400 * 47481 + 86399
  PROVE  /\ Shows(ChipAdvanced(r, c)) /\ Shown(ChipAdvanced(r, c)) = Later(Shown(r), c)
         /\ Total(Shown(ChipAdvanced(r, c))) = Total(Shown(r)) + c
  <1>. DEFINE t == Later(Shown(r), c)
  <1>1. Shown(r) \in TimePairs
    BY ShownTime
  <1>2. t \in TimePairs /\ Total(t) = Total(Shown(r)) + c
    BY <1>1, TotalLater
  <1>. HIDE DEF t
  <1>3. t.day <= 47481
    <2>1. t.day \in Nat /\ t.second \in Nat
      BY <1>2, PairFacts
    <2>. QED  BY <1>2, <2>1 DEF Total
  <1>4. t.day <= LastDay
    <2>1. t.day \in Nat
      BY <1>2, PairFacts
    <2>. QED  BY <1>3, <2>1, CenturyDays
  <1>5. Shows(ChipAdvanced(r, c)) /\ Shown(ChipAdvanced(r, c)) = t
    BY <1>4, ChipCounts DEF t
  <1>. QED  BY <1>2, <1>5 DEF t

LEMMA DriftedApart ==
  ASSUME NEW a \in Nat, NEW b \in Nat, NEW s \in Nat, NEW c \in Nat, NEW k \in Nat, NEW m \in Nat,
         a - k <= b, b <= a + k, k + s <= m + c, k + c <= m + s, m < 86400,
         b + s <= 86400 * 47480 + 86399
  PROVE  /\ a + c <= 86400 * 47481 + 86399
         /\ (a + c) - m <= b + s /\ b + s <= (a + c) + m
  OBVIOUS

\* Time that passes keeps the clock near UTC, if the difference is accounted for.
LEMMA TimePassesHeld ==
  ASSUME ClockTypes, trusted, ClockHeld,
         slack \in Nat, slack' \in Nat, slack' < DaySeconds,
         NEW s \in Nat, NEW c \in Nat, c <= DaySeconds, TimePasses(s, c), now'.day \in Days,
         slack + s <= slack' + c, slack + c <= slack' + s
  PROVE  /\ ClockHeld' /\ Total(Shown(registers)) + c <= 86400 * 47481 + 86399
  <1>1. /\ now \in TimePairs /\ now' = Later(now, s) /\ registers' = ChipAdvanced(registers, c)
        /\ voltageLow' = voltageLow /\ registers \in ClockDigits
    BY DEF ClockTypes, Times, TimePairs, TimePasses
  <1>2. Shows(registers) /\ ~voltageLow /\ Near(Shown(registers), now, slack)
    BY DEF ClockHeld
  <1>3. now' \in TimePairs /\ Total(now') = Total(now) + s
    BY <1>1, TotalLater
  <1>4. Total(now') <= 86400 * 47480 + 86399 /\ Total(now') \in Nat /\ Total(now) \in Nat
    <2>1. now'.day \in Nat /\ now'.second \in Nat /\ now'.second <= 86399
      BY <1>3, PairFacts
    <2>2. now'.day <= 47480
      BY DaysRange
    <2>3. now.day \in Nat /\ now.second \in Nat
      BY <1>1, PairFacts
    <2>. QED  BY <2>1, <2>2, <2>3 DEF Total
  <1>5. Total(Shown(registers)) \in Nat
    <2>1. Shown(registers).day \in Nat /\ Shown(registers).second \in Nat
      BY <1>1, <1>2, ShownTime, PairFacts
    <2>. QED  BY <2>1 DEF Total
  <1>6. slack' < 86400
    BY DayLength
  <1>. DEFINE a == Total(Shown(registers))
              b == Total(now)
              k == slack
              m == slack'
  <1>7. /\ a + c <= 86400 * 47481 + 86399
        /\ (a + c) - m <= b + s /\ b + s <= (a + c) + m
    <2>1. /\ a \in Nat /\ b \in Nat /\ k \in Nat /\ m \in Nat /\ m < 86400
          /\ k + s <= m + c /\ k + c <= m + s
      <3>1. a \in Nat /\ b \in Nat
        BY <1>4, <1>5
      <3>2. k \in Nat /\ m \in Nat
        OBVIOUS
      <3>3. m < 86400
        BY <1>6
      <3>4. k + s <= m + c /\ k + c <= m + s
        BY Zenon
      <3>. HIDE DEF a, b, k, m
      <3>. QED  BY <3>1, <3>2, <3>3, <3>4
    <2>2. a - k <= b /\ b <= a + k
      BY <1>2 DEF Near
    <2>3. b + s <= 86400 * 47480 + 86399
      BY <1>3, <1>4
    <2>. HIDE DEF a, b, k, m
    <2>. QED  BY <2>1, <2>2, <2>3, DriftedApart
  <1>8. Shows(registers') /\ Total(Shown(registers')) = a + c
    BY <1>1, <1>2, <1>7, ChipKeepsTime
  <1>9. Near(Shown(registers'), now', slack')
    BY <1>3, <1>7, <1>8 DEF Near
  <1>. QED  BY <1>1, <1>2, <1>7, <1>8, <1>9 DEF ClockHeld

LEMMA TimePassesEvenly ==
  ASSUME ClockTypes, trusted, ClockHeld, slack \in Nat, slack < DaySeconds, slack' = slack,
         NEW s \in Nat, s <= DaySeconds, TimePasses(s, s), now'.day \in Days
  PROVE  /\ ClockHeld' /\ Total(Shown(registers)) + s <= 86400 * 47481 + 86399
  <1>. DEFINE c == s
  <1>1. c \in Nat /\ c <= DaySeconds /\ TimePasses(s, c)
    BY Zenon
  <1>2. slack' \in Nat /\ slack' < DaySeconds
    BY Zenon
  <1>3. slack + s <= slack' + c /\ slack + c <= slack' + s
    OBVIOUS
  <1>. HIDE DEF c
  <1>4. ClockHeld' /\ Total(Shown(registers)) + c <= 86400 * 47481 + 86399
    BY <1>1, <1>2, <1>3, TimePassesHeld
  <1>. QED  BY <1>4 DEF c

LEMMA SlackRange ==
  ASSUME NodeTypes
  PROVE  slack \in Nat /\ slack < DaySeconds
  BY ClockAssumption, DayLength DEF NodeTypes

LEMMA ClockInitInv == Init => ClockInv
  <1>. SUFFICES ASSUME Init PROVE ClockInv
    OBVIOUS
  <1>1. PICK day \in Starts : now = [day |-> day, second |-> Start]
    BY DEF Init
  <1>2. now.day \in Days
    BY <1>1, DaysRange
  <1>. QED  BY <1>2 DEF Init, ClockInv, DaysHeld, ClockHeld

\* Nothing the clock shows has changed.
LEMMA ClockUntouched ==
  ASSUME ClockHeld, UNCHANGED <<now, registers, voltageLow, trusted, slack>>
  PROVE  ClockHeld'
  BY DEF ClockHeld, Near

LEMMA ClockTimeInv ==
  ASSUME PathInv, ClockInv, DayPasses \/ ClockDrifts \/ SecondPasses
  PROVE  ClockInv'
  <1>0. /\ ClockTypes /\ NodeTypes /\ DaysHeld /\ ClockHeld /\ slack \in Nat /\ slack < DaySeconds
        /\ trusted \in BOOLEAN /\ now \in TimePairs
    <2>1. ClockTypes /\ NodeTypes /\ DaysHeld /\ ClockHeld
      BY DEF PathInv, ClockInv
    <2>2. trusted \in BOOLEAN /\ now \in TimePairs
      BY <2>1 DEF NodeTypes, ClockTypes, Times, TimePairs
    <2>. QED  BY <2>1, <2>2, SlackRange
  <1>1. CASE DayPasses
    <2>. DEFINE in == AlarmIn(registers, alarm)
                seconds == IF in < DaySeconds THEN in ELSE DaySeconds
    <2>1. in \in Nat
      BY <1>0, AlarmInFuture DEF ClockTypes
    <2>2. TimePasses(seconds, seconds)
      BY <1>1 DEF DayPasses
    <2>3. UNCHANGED <<pc, ticked, trusted, slack>> /\ pc = "off" /\ now.day + 1 \in Days
      BY <1>1 DEF DayPasses, historyVars
    <2>. HIDE DEF in
    <2>4. seconds \in Nat /\ seconds <= DaySeconds
      BY <2>1, DayLength
    <2>. HIDE DEF seconds
    <2>5. now'.day \in Days
      <3>1. now' = Later(now, seconds)
        BY <2>2 DEF TimePasses
      <3>2. Later(now, seconds).day = now.day \/ Later(now, seconds).day = now.day + 1
        BY <1>0, <2>4, LaterFacts
      <3>3. now.day \in Days
        BY <1>0 DEF DaysHeld
      <3>. QED  BY <2>3, <3>1, <3>2, <3>3
    <2>6. ClockHeld'
      <3>1. CASE trusted
        <4>1. slack' = slack /\ slack < DaySeconds
          BY <1>0, <2>3
        <4>3. ClockTypes /\ ClockHeld /\ slack \in Nat /\ trusted
          BY <1>0, <3>1
        <4>. QED  BY <2>2, <2>4, <2>5, <4>1, <4>3, TimePassesEvenly
      <3>2. CASE ~trusted
        BY <2>3, <3>2 DEF ClockHeld
      <3>. QED  BY <3>1, <3>2
    <2>. QED  BY <1>0, <2>3, <2>5, <2>6 DEF ClockInv, DaysHeld
  <1>2. CASE ClockDrifts
    <2>1. PICK seconds \in Drifts :
            /\ slack + seconds <= MaxSlack /\ slack' = slack + seconds
            /\ TimePasses(seconds, 0) \/ TimePasses(0, seconds)
            /\ now'.day \in Days
      BY <1>2 DEF ClockDrifts
    <2>2. seconds \in Nat /\ seconds <= MaxSlack /\ MaxSlack < DaySeconds /\ MaxSlack \in Nat
      BY ClockAssumption, DayLength
    <2>3. /\ slack' \in Nat /\ slack' < DaySeconds /\ seconds <= DaySeconds
          /\ 0 \in Nat /\ 0 <= DaySeconds
          /\ slack + seconds <= slack' + 0 /\ slack + 0 <= slack' + seconds
      BY <1>0, <2>1, <2>2, DayLength
    <2>4. UNCHANGED <<pc, ticked, trusted>> /\ pc = "off" /\ trusted
      BY <1>2 DEF ClockDrifts
    <2>5. ClockHeld'
      <3>1. CASE TimePasses(seconds, 0)
        BY <1>0, <2>1, <2>2, <2>3, <2>4, <3>1, TimePassesHeld
      <3>2. CASE TimePasses(0, seconds)
        BY <1>0, <2>1, <2>2, <2>3, <2>4, <3>2, TimePassesHeld
      <3>. QED  BY <2>1, <3>1, <3>2
    <2>. QED  BY <1>0, <2>1, <2>4, <2>5 DEF ClockInv, DaysHeld
  <1>3. CASE SecondPasses
    <2>1. /\ TimePasses(1, 1) /\ pc \in {"toNode", "verify"} /\ ~ticked /\ ticked' = TRUE
          /\ UNCHANGED <<pc, sent, trusted, slack>> /\ Later(now, 1).day \in Days
      BY <1>3 DEF SecondPasses, linkVars, historyVars
    <2>2. now' = Later(now, 1)
      BY <2>1 DEF TimePasses
    <2>3. now'.day \in Days
      BY <2>1, <2>2
    <2>4. ClockHeld'
      <3>1. CASE trusted
        <4>1. slack' = slack /\ 1 \in Nat /\ 1 <= DaySeconds
          BY <2>1, DayLength
        <4>. QED  BY <1>0, <2>1, <2>3, <3>1, <4>1, TimePassesEvenly
      <3>2. CASE ~trusted
        BY <2>1, <3>2 DEF ClockHeld
      <3>. QED  BY <3>1, <3>2
    <2>5. sent.timeValid => now = sent.gatewayUnixTime
      BY <1>0, <2>1 DEF DaysHeld
    <2>. QED  BY <2>1, <2>2, <2>3, <2>4, <2>5 DEF ClockInv, DaysHeld
  <1>. QED  BY <1>1, <1>2, <1>3

\* The gateway writes the time into its answer.
LEMMA ClockAnswerInv ==
  ASSUME PathInv, ClockInv, GatewayAnswers
  PROVE  ClockInv'
  <1>1. PICK packet \in Answers : Send(packet, EncodeAckCommand(packet))
    BY DEF GatewayAnswers
  <1>2. packet.timeValid => packet.gatewayUnixTime = now
    <2>1. CASE packet \in {Ack(1, TRUE, command) : command \in Commands}
      BY <2>1 DEF Ack
    <2>2. CASE packet \in {Ack(1, FALSE, command) : command \in Commands}
      BY <2>2 DEF Ack
    <2>3. CASE packet \in {Ack(0, TRUE, <<"none", 0, Never>>)}
      BY <2>3 DEF Ack
    <2>. QED  BY <2>1, <2>2, <2>3, Zenon DEF Answers
  <1>3. /\ sent' = packet /\ pc = "answer" /\ pc' = "toNode"
        /\ UNCHANGED <<now, registers, voltageLow, trusted, slack, ticked>>
    BY <1>1 DEF GatewayAnswers, Send, clockVars, historyVars
  <1>4. ClockHeld'
    BY <1>3, ClockUntouched DEF ClockInv
  <1>. QED  BY <1>2, <1>3, <1>4 DEF ClockInv, DaysHeld

\* The time the node was told is now, or was a second ago.
LEMMA ToldTime ==
  ASSUME PathInv, ClockInv, pc \in {"sync", "verify"}, sent.timeValid
  PROVE  /\ GatewayTime \in TimePairs /\ now \in TimePairs
         /\ Total(GatewayTime) <= Total(now) /\ Total(now) <= Total(GatewayTime) + 1
         /\ Total(now) \in Nat /\ Total(GatewayTime) \in Nat
  <1>1. GatewayTime = sent.gatewayUnixTime /\ GatewayTime \in TimePairs
    BY TimeHeard DEF Times, TimePairs
  <1>2. ticked \in BOOLEAN /\ now \in TimePairs
    BY DEF PathInv, NodeTypes, ClockTypes, Times, TimePairs
  <1>3. now = GatewayTime \/ now = Later(GatewayTime, 1)
    BY <1>1, <1>2 DEF ClockInv, DaysHeld
  <1>4. Total(GatewayTime) \in Nat /\ Total(now) \in Nat
    BY <1>1, <1>2, TotalOrder
  <1>5. Total(Later(GatewayTime, 1)) = Total(GatewayTime) + 1
    BY <1>1, TotalLater
  <1>. QED  BY <1>1, <1>2, <1>3, <1>4, <1>5

\* A clock found in order, or read back, is the gateway's.
LEMMA SynchronizedHeld ==
  ASSUME PathInv, ClockInv, pc \in {"sync", "verify"}, sent.timeValid, Synchronized,
         UNCHANGED <<now, registers, voltageLow>>,
         ReadDateTime(registers, voltageLow).state = "valid",
         \/ Apart(ReadDateTime(registers, voltageLow).time, GatewayTime) <= Threshold
         \/ ReadDateTime(registers, voltageLow).time \in {GatewayTime, Later(GatewayTime, 1)}
  PROVE  ClockHeld'
  <1>. DEFINE time == ReadDateTime(registers, voltageLow).time
              a == Total(time)
              b == Total(now)
              g == Total(GatewayTime)
  <1>1. ~voltageLow /\ Shows(registers) /\ time = Shown(registers) /\ time \in TimePairs
        /\ registers \in ClockDigits
    <2>1. registers \in ClockDigits /\ voltageLow \in BOOLEAN
      BY DEF PathInv, ClockTypes
    <2>2. ~voltageLow /\ Shows(registers) /\ time = Shown(registers)
      BY <2>1, Reading DEF Shown
    <2>. QED  BY <2>1, <2>2, ShownTime
  <1>2. /\ GatewayTime \in TimePairs /\ g <= b /\ b <= g + 1 /\ b \in Nat /\ g \in Nat
    BY ToldTime
  <1>3. a \in Nat
    BY <1>1, <1>2, TotalOrder
  <1>4. Threshold \in Nat /\ Threshold < DaySeconds
    BY ClockAssumption, DayLength
  <1>5. (a - Threshold <= g /\ g <= a + Threshold) \/ a = g \/ a = g + 1
    <2>1. CASE Apart(time, GatewayTime) <= Threshold
      BY <1>1, <1>2, <1>4, <2>1, ApartTotals
    <2>2. CASE time = GatewayTime
      BY <2>2
    <2>3. CASE time = Later(GatewayTime, 1)
      BY <1>2, <2>3, TotalLater
    <2>. QED  BY <2>1, <2>2, <2>3
  <1>6. slack' = Threshold + 1
    BY DEF Synchronized
  <1>7. a - slack' <= b /\ b <= a + slack'
    <2>. HIDE DEF a, b, g
    <2>. QED  BY <1>2, <1>3, <1>4, <1>5, <1>6
  <1>8. Near(Shown(registers'), now', slack')
    <2>1. registers' = registers /\ now' = now
      OBVIOUS
    <2>. QED  BY <1>1, <1>7, <2>1 DEF Near
  <1>. QED  BY <1>1, <1>8 DEF ClockHeld

LEMMA TimeTold ==
  ASSUME PathInv, ClockInv,
         \/ pc = "verify"
         \/ pc = "sync" /\ ~TimeRefused
  PROVE  sent.timeValid
  <1>1. CASE pc = "verify"
    BY <1>1 DEF ClockInv, DaysHeld
  <1>2. CASE pc = "sync" /\ ~TimeRefused
    BY <1>2, TimeHeard DEF TimeRefused
  <1>. QED  BY <1>1, <1>2

LEMMA ApartTyped ==
  ASSUME NEW s \in TimePairs, NEW t \in TimePairs
  PROVE  Apart(s, t) \in Int
  <1>. DEFINE difference == (t.day - s.day) * DaySeconds + t.second - s.second
              days == t.day - s.day
  <1>1. difference \in Int
    <2>1. s.day \in Nat /\ s.second \in Nat /\ t.day \in Nat /\ t.second \in Nat
      BY PairFacts
    <2>2. DaySeconds = 86400
      BY DEF DaySeconds
    <2>. QED  BY <2>1, <2>2
  <1>2. Apart(s, t) = IF days \notin -1..1 THEN Ages
                      ELSE IF difference < 0 THEN -difference ELSE difference
    BY DEF Apart
  <1>3. Ages \in Int
    BY DayLength DEF Ages
  <1>. HIDE DEF difference, days
  <1>. QED  BY <1>1, <1>2, <1>3

LEMMA ClockSyncInv ==
  ASSUME PathInv, ClockInv, ClockInOrder \/ ClockWritten \/ ClockWriteFails \/ ClockVerified
  PROVE  ClockInv'
  <1>0. DaysHeld /\ ClockHeld /\ trusted \in BOOLEAN /\ registers \in ClockDigits
    BY DEF ClockInv, PathInv, NodeTypes, ClockTypes
  <1>1. ASSUME UNCHANGED <<now, linkVars, ticked>>, pc \in {"sync", "verify"},
               pc' \in {"verify", "command"}, sent.timeValid
        PROVE  DaysHeld'
    BY <1>0, <1>1 DEF DaysHeld, linkVars
  <1>2. CASE ClockInOrder
    <2>1. /\ pc = "sync" /\ ~TimeRefused /\ Synchronized /\ UNCHANGED clockVars
          /\ ~WriteRequired(ReadDateTime(registers, voltageLow))
      BY <1>2 DEF ClockInOrder
    <2>2. /\ ReadDateTime(registers, voltageLow).state = "valid"
          /\ ~(Apart(ReadDateTime(registers, voltageLow).time, GatewayTime) > Threshold)
      BY <2>1 DEF WriteRequired
    <2>. DEFINE apart == Apart(ReadDateTime(registers, voltageLow).time, GatewayTime)
    <2>3. apart \in Int
      <3>1. ReadDateTime(registers, voltageLow).time \in TimePairs /\ GatewayTime \in TimePairs
        <4>1. registers \in ClockDigits /\ voltageLow \in BOOLEAN
          BY DEF PathInv, ClockTypes
        <4>2. ReadDateTime(registers, voltageLow) \in Readings
          BY <4>1, ReadingTyped
        <4>. QED  BY <2>1, <4>2, TimeTold, ToldTime DEF Readings, Times, TimePairs
      <3>. QED  BY <3>1, ApartTyped
    <2>4. apart <= Threshold
      <3>. HIDE DEF apart
      <3>1. ~(apart > Threshold)
        BY <2>2 DEF apart
      <3>. QED  BY <2>3, <3>1, ClockAssumption
    <2>5. ClockHeld'
      BY <2>1, <2>2, <2>4, TimeTold, SynchronizedHeld DEF clockVars
    <2>6. sent.timeValid
      BY <2>1, TimeTold
    <2>. QED  BY <1>1, <1>2, <2>5, <2>6 DEF ClockInOrder, ClockInv, clockVars
  <1>3. CASE ClockWritten
    <2>0. WriteClock(7)
      BY <1>3, Writes DEF ClockWritten
    <2>1. ~trusted' /\ now' = now
      <3>1. trusted' = (trusted /\ 7 = 0) /\ now' = now
        BY <2>0, Zenon DEF WriteClock
      <3>2. 7 # 0
        OBVIOUS
      <3>. QED  BY <3>1, <3>2, Zenon
    <2>2. sent.timeValid
      BY <1>3, TimeTold DEF ClockWritten
    <2>. QED  BY <1>1, <1>3, <2>1, <2>2 DEF ClockWritten, ClockInv, ClockHeld
  <1>4. CASE ClockWriteFails
    <2>1. PICK count \in TornWrites : WriteClock(count)
      BY <1>4 DEF ClockWriteFails
    <2>2. count \in 0..7
      BY Writes
    <2>3. ClockHeld'
      <3>1. CASE count = 0
        <4>1. registers' = registers
          <5>1. DOMAIN registers = 1..7 /\ registers = [i \in 1..7 |-> registers[i]]
            BY <1>0 DEF ClockDigits
          <5>2. registers' = [i \in 1..7 |-> IF i <= 0 THEN Encoded(UnixToDateTime(GatewayTime))[i]
                                             ELSE registers[i]]
            BY <2>1, <3>1, <5>1 DEF WriteClock
          <5>3. \A i \in 1..7 : ~(i <= 0)
            OBVIOUS
          <5>. QED  BY <5>1, <5>2, <5>3
        <4>2. voltageLow' = (voltageLow /\ TRUE) /\ trusted' = (trusted /\ TRUE) /\ now' = now
          BY <2>1, <3>1 DEF WriteClock
        <4>3. slack' = slack
          BY <1>4 DEF ClockWriteFails
        <4>4. voltageLow \in BOOLEAN
          BY DEF PathInv, ClockTypes
        <4>. QED  BY <1>0, <4>1, <4>2, <4>3, <4>4, ClockUntouched
      <3>2. CASE count # 0
        BY <2>1, <3>2 DEF WriteClock, ClockHeld
      <3>. QED  BY <3>1, <3>2
    <2>4. now' = now
      BY <2>1 DEF WriteClock
    <2>5. sent.timeValid
      BY <1>4, TimeTold DEF ClockWriteFails
    <2>. QED  BY <1>1, <1>4, <2>3, <2>4, <2>5 DEF ClockWriteFails, ClockInv
  <1>5. CASE ClockVerified
    <2>. DEFINE reading == ReadDateTime(registers, voltageLow)
    <2>1. /\ pc = "verify" /\ UNCHANGED clockVars
          /\ IF ReadBack(reading) THEN Synchronized ELSE UNCHANGED <<trusted, slack>>
      BY <1>5 DEF ClockVerified
    <2>0. sent.timeValid
      BY <2>1, TimeTold
    <2>2. CASE ReadBack(reading)
      <3>1. reading.state = "valid" /\ reading.time \in {GatewayTime, Later(GatewayTime, 1)}
            /\ Synchronized
        BY <2>1, <2>2 DEF ReadBack
      <3>2. ClockHeld'
        BY <2>1, <2>0, <3>1, SynchronizedHeld DEF clockVars
      <3>. QED  BY <1>1, <1>5, <2>0, <3>2 DEF ClockVerified, ClockInv, clockVars
    <2>3. CASE ~ReadBack(reading)
      <3>1. ClockHeld'
        BY <1>0, <2>1, <2>3, ClockUntouched DEF clockVars
      <3>. QED  BY <1>1, <1>5, <2>0, <3>1 DEF ClockVerified, ClockInv, clockVars
    <2>. QED  BY <2>2, <2>3
  <1>. QED  BY <1>2, <1>3, <1>4, <1>5

\* The steps that leave the clock and the time alone.
LEMMA ClockAsideInv ==
  ASSUME PathInv, ClockInv,
         \/ Wake \/ Measure \/ SendTelemetry \/ Disturb \/ GatewayDecodes \/ NodeDecodes
         \/ NoSync \/ NoCommand \/ OtherCommand \/ ScheduleCommand \/ GatewayHearsResult
         \/ PowerOff \/ AlarmServed \/ UNCHANGED vars
  PROVE  ClockInv'
  <1>0. DaysHeld /\ ClockHeld
    BY DEF ClockInv
  <1>1. UNCHANGED <<now, registers, voltageLow, trusted, slack>>
    <2>1. CASE Wake \/ Measure \/ SendTelemetry \/ Disturb
      BY <2>1 DEF Wake, Measure, SendTelemetry, Disturb, pathVars, clockVars, historyVars
    <2>2. CASE GatewayDecodes \/ NodeDecodes \/ NoSync \/ NoCommand
      BY <2>2 DEF GatewayDecodes, NodeDecodes, NoSync, NoCommand, clockVars, historyVars
    <2>3. CASE OtherCommand \/ ScheduleCommand \/ GatewayHearsResult
      BY <2>3 DEF OtherCommand, ScheduleCommand, GatewayHearsResult, clockVars, historyVars
    <2>4. CASE PowerOff \/ AlarmServed \/ UNCHANGED vars
      BY <2>4 DEF PowerOff, AlarmServed, vars, pathVars, clockVars, historyVars
    <2>. QED  BY <2>1, <2>2, <2>3, <2>4
  <1>2. ClockHeld'
    BY <1>0, <1>1, ClockUntouched
  <1>3. DaysHeld'
    <2>1. CASE Wake \/ Measure
      BY <1>0, <2>1 DEF Wake, Measure, DaysHeld, pathVars, clockVars, linkVars
    <2>2. CASE SendTelemetry
      <3>1. pc = "burst" /\ pc' = "toGateway" /\ ticked' = ticked
        BY <2>2 DEF SendTelemetry
      <3>. QED  BY <1>0, <1>1, <3>1 DEF DaysHeld
    <2>3. CASE Disturb \/ NoSync \/ UNCHANGED vars
      BY <1>0, <2>3 DEF Disturb, NoSync, vars, pathVars, clockVars, linkVars, DaysHeld
    <2>4. CASE GatewayDecodes
      <3>1. pc = "toGateway" /\ pc' \in {"answer", "done"} /\ ticked' = ticked
        BY <2>4 DEF GatewayDecodes
      <3>. QED  BY <1>0, <1>1, <3>1 DEF DaysHeld
    <2>5. CASE NodeDecodes
      <3>1. pc = "toNode" /\ pc' \in {"sync", "done"} /\ ticked' = ticked /\ sent' = sent
        BY <2>5 DEF NodeDecodes
      <3>. QED  BY <1>0, <1>1, <3>1 DEF DaysHeld
    <2>6. CASE NoCommand \/ GatewayHearsResult
      <3>1. pc' = "done" /\ ticked' = ticked
        BY <2>6 DEF NoCommand, GatewayHearsResult
      <3>. QED  BY <1>0, <1>1, <3>1 DEF DaysHeld
    <2>7. CASE OtherCommand \/ ScheduleCommand
      <3>1. \E code : Answer(code)
        BY <2>7 DEF OtherCommand, ScheduleCommand, ScheduleTaken, ScheduleRefused
      <3>2. pc' = "result"
        BY <3>1 DEF Answer
      <3>. QED  BY <1>0, <1>1, <3>2 DEF DaysHeld
    <2>8. CASE PowerOff
      BY <1>0, <1>1, <2>8 DEF PowerOff, DaysHeld
    <2>9. CASE AlarmServed
      BY <1>0, <1>1, <2>9 DEF AlarmServed, DaysHeld
    <2>. QED  BY <2>1, <2>2, <2>3, <2>4, <2>5, <2>6, <2>7, <2>8, <2>9
  <1>. QED  BY <1>2, <1>3 DEF ClockInv

LEMMA ClockNextInv == PathInv /\ ClockInv /\ [Next]_vars => ClockInv'
  BY ClockTimeInv, ClockAnswerInv, ClockSyncInv, ClockAsideInv DEF Next

LEMMA ClockInvTrue ==
  ASSUME PathInv, ClockInv
  PROVE  ClockIsTrue
  <1>. SUFFICES ASSUME trusted
                PROVE  LET reading == ReadDateTime(registers, voltageLow)
                       IN  reading.state = "valid" /\ Apart(reading.time, now) <= slack
    BY DEF ClockIsTrue
  <1>1. registers \in ClockDigits /\ voltageLow \in BOOLEAN /\ now \in TimePairs
        /\ slack \in Nat /\ slack < DaySeconds
    BY SlackRange DEF PathInv, ClockTypes, Times, TimePairs
  <1>2. Shows(registers) /\ ~voltageLow /\ Near(Shown(registers), now, slack)
    BY DEF ClockInv, ClockHeld
  <1>3. /\ ReadDateTime(registers, voltageLow).state = "valid"
        /\ ReadDateTime(registers, voltageLow).time = Shown(registers)
    BY <1>1, <1>2, Reading DEF Shown
  <1>4. Shown(registers) \in TimePairs
    BY <1>1, <1>2, ShownTime
  <1>5. Apart(Shown(registers), now) <= slack
    <2>1. /\ Total(Shown(registers)) - slack <= Total(now)
          /\ Total(now) <= Total(Shown(registers)) + slack
      BY <1>2 DEF Near
    <2>. QED  BY <1>1, <1>4, <2>1, ApartTotals
  <1>. QED  BY <1>3, <1>5

-----------------------------------------------------------------------------
(* The alarm *)

Horizon == 27 * 86400

\* What the alarm of a pending schedule stands for, excuses apart: the chip's
\* clock runs, the registers of the alarm are the target's, the flag is up from
\* the target on, and until a second has passed in a poll it is down in it.
AlarmHeld ==
  schedule.state = "pending" /\ ~excused =>
    /\ Shows(registers) /\ ~voltageLow
    /\ alarm = AlarmFor(schedule.target) /\ (schedule.target.second % 60) = 0
    /\ alarmFlag <=> Total(schedule.target) <= Total(Shown(registers))
    /\ Total(schedule.target) <= Total(Shown(registers)) + Horizon
    /\ alarmFlag => pc = "off" \/ ticked

LEMMA TargetEnd ==
  ASSUME NEW t \in TimePairs, Supported(t)
  PROVE  Total(t) \in Nat /\ Total(t) <= 86400 * 47481 + 86399
  <1>1. t.day \in Nat /\ t.second \in Nat /\ t.second <= 86399
    BY PairFacts
  <1>2. t.day <= 47481
    BY <1>1, CenturyDays DEF Supported
  <1>. QED  BY <1>1, <1>2 DEF Total

\* When the alarm of a target matches, in seconds.
LEMMA AlarmCounts ==
  ASSUME NEW r \in ClockDigits, Shows(r), NEW t \in TimePairs, Supported(t), (t.second % 60) = 0,
         Total(Shown(r)) < Total(t), Total(t) <= Total(Shown(r)) + Horizon,
         NEW c \in Nat, c <= DaySeconds
  PROVE  /\ AlarmIn(r, AlarmFor(t)) \in Nat \ {0}
         /\ AlarmIn(r, AlarmFor(t)) <= c <=> Total(t) <= Total(Shown(r)) + c
  <1>. DEFINE s == Shown(r)
  <1>1. s \in TimePairs
    BY ShownTime
  <1>2. Before(s, t)
    BY <1>1, TotalOrder
  <1>3. WithinHorizon(s, t)
    <2>1. HorizonDays * DaySeconds = Horizon /\ Horizon \in Nat
      BY DEF HorizonDays, DaySeconds, Horizon
    <2>2. Later(s, Horizon) \in TimePairs /\ Total(Later(s, Horizon)) = Total(s) + Horizon
      BY <1>1, <2>1, TotalLater
    <2>. HIDE DEF s
    <2>3. ~Before(Later(s, Horizon), t)
      <3>1. Total(t) <= Total(s) + Horizon
        BY DEF s
      <3>2. Total(t) \in Nat /\ Total(Later(s, Horizon)) \in Nat
        BY <2>2, TotalOrder
      <3>3. ~(Total(Later(s, Horizon)) < Total(t))
        BY <2>2, <3>1, <3>2
      <3>. QED  BY <2>2, <3>3, TotalOrder
    <2>. QED  BY <2>1, <2>3 DEF WithinHorizon
  <1>4. /\ AlarmIn(r, AlarmFor(t)) \in Nat \ {0}
        /\ AlarmIn(r, AlarmFor(t)) <= c <=> ~Before(Later(s, c), t)
    BY <1>2, <1>3, AlarmMatches
  <1>5. Later(s, c) \in TimePairs /\ Total(Later(s, c)) = Total(s) + c
    BY <1>1, TotalLater
  <1>6. ~Before(Later(s, c), t) <=> Total(t) <= Total(s) + c
    <2>. HIDE DEF s
    <2>1. Total(t) \in Nat /\ Total(Later(s, c)) \in Nat
      BY <1>5, TotalOrder
    <2>2. Before(Later(s, c), t) <=> Total(Later(s, c)) < Total(t)
      BY <1>5, TotalOrder
    <2>. QED  BY <1>5, <2>1, <2>2
  <1>. QED  BY <1>4, <1>6

LEMMA Raised ==
  ASSUME NEW x, NEW f \in BOOLEAN, NEW g \in BOOLEAN, NEW h, ~f, x = (f \/ g), g <=> h
  PROVE  x <=> h
  OBVIOUS

\* As time passes the flag rises at the target.
LEMMA AlarmPasses ==
  ASSUME PathInv, schedule.state = "pending", AlarmHeld, ~excused, ~alarmFlag,
         NEW s \in Nat, NEW c \in Nat, c <= DaySeconds, TimePasses(s, c),
         Total(Shown(registers)) + c <= 86400 * 47481 + 86399
  PROVE  /\ Shows(registers') /\ ~voltageLow' /\ alarm' = alarm
         /\ alarmFlag' <=> Total(schedule.target) <= Total(Shown(registers'))
         /\ Total(schedule.target) <= Total(Shown(registers')) + Horizon
  <1>. DEFINE t == schedule.target
              a == Total(Shown(registers))
              flag == AlarmIn(registers, alarm) <= c
  <1>1. registers \in ClockDigits /\ t \in TimePairs /\ Supported(t)
    BY DEF PathInv, ClockTypes, NodeTypes, Times, TimePairs
  <1>2. /\ Shows(registers) /\ ~voltageLow /\ alarm = AlarmFor(t) /\ (t.second % 60) = 0
        /\ ~(Total(t) <= a) /\ Total(t) <= a + Horizon
    BY DEF AlarmHeld
  <1>3. a \in Nat /\ Total(t) \in Nat
    BY <1>1, <1>2, ShownTime, TotalOrder
  <1>4. a < Total(t)
    BY <1>2, <1>3
  <1>5. AlarmIn(registers, AlarmFor(t)) <= c <=> Total(t) <= a + c
    BY <1>1, <1>2, <1>4, AlarmCounts
  <1>6. /\ registers' = ChipAdvanced(registers, c) /\ voltageLow' = voltageLow /\ alarm' = alarm
    BY DEF TimePasses
  <1>7. Shows(registers') /\ Total(Shown(registers')) = a + c
    BY <1>1, <1>2, <1>6, ChipKeepsTime
  <1>8. alarmFlag' <=> Total(t) <= a + c
    <2>1. flag <=> Total(t) <= a + c
      BY <1>2, <1>5
    <2>2. alarmFlag' = (alarmFlag \/ flag)
      <3>1. TimePasses(s, c)
        OBVIOUS
      <3>. QED  BY <3>1 DEF TimePasses
    <2>3. ~alarmFlag /\ alarmFlag \in BOOLEAN
      BY DEF PathInv, ClockTypes
    <2>4. flag \in BOOLEAN
      OBVIOUS
    <2>. DEFINE reached == Total(t) <= a + c
    <2>5. flag <=> reached
      BY <2>1
    <2>. HIDE DEF flag, reached
    <2>6. alarmFlag' <=> reached
      BY <2>2, <2>3, <2>4, <2>5, Raised
    <2>. QED  BY <2>6 DEF reached
  <1>9. Total(t) <= a + c + Horizon
    <2>1. Horizon \in Nat
      BY DEF Horizon
    <2>. HIDE DEF a, t
    <2>. QED  BY <1>2, <1>3, <2>1
  <1>. QED  BY <1>2, <1>6, <1>7, <1>8, <1>9

LEMMA AlarmTimeInv ==
  ASSUME PathInv, ClockInv, AlarmHeld, DayPasses \/ ClockDrifts \/ SecondPasses
  PROVE  AlarmHeld'
  <1>0. UNCHANGED <<schedule, excused, pc>>
    BY DEF DayPasses, ClockDrifts, SecondPasses, historyVars
  <1>. SUFFICES ASSUME schedule.state = "pending", ~excused
                PROVE  AlarmHeld'
    BY <1>0 DEF AlarmHeld
  <1>. DEFINE t == schedule.target
              a == Total(Shown(registers))
  <1>1. registers \in ClockDigits /\ t \in TimePairs /\ Supported(t) /\ alarm \in Alarms
        /\ InRange(registers)
    BY DEF PathInv, ClockTypes, NodeTypes, Times, TimePairs
  <1>2. /\ Shows(registers) /\ ~voltageLow /\ alarm = AlarmFor(t) /\ (t.second % 60) = 0
        /\ alarmFlag <=> Total(t) <= a
        /\ Total(t) <= a + Horizon
        /\ alarmFlag => pc = "off" \/ ticked
    BY DEF AlarmHeld
  <1>3. a \in Nat /\ Total(t) \in Nat /\ Total(t) <= 86400 * 47481 + 86399
    BY <1>1, <1>2, ShownTime, TotalOrder, TargetEnd
  <1>4. ASSUME ~alarmFlag, NEW s \in Nat, NEW c \in Nat, c <= DaySeconds, TimePasses(s, c),
               a + c <= 86400 * 47481 + 86399, pc = "off" \/ ticked'
        PROVE  AlarmHeld'
    <2>1. /\ Shows(registers') /\ ~voltageLow' /\ alarm' = alarm
          /\ alarmFlag' <=> Total(t) <= Total(Shown(registers'))
          /\ Total(t) <= Total(Shown(registers')) + Horizon
      BY <1>4, AlarmPasses
    <2>. QED  BY <1>0, <1>2, <1>4, <2>1 DEF AlarmHeld
  <1>5. CASE DayPasses
    <2>. DEFINE in == AlarmIn(registers, alarm)
                seconds == IF in < DaySeconds THEN in ELSE DaySeconds
    <2>1. in \in Nat \ {0}
      BY <1>1, AlarmInFuture
    <2>2. TimePasses(seconds, seconds) /\ pc = "off" /\ ~alarmFlag
      BY <1>5 DEF DayPasses
    <2>3. in = AlarmIn(registers, AlarmFor(t))
      BY <1>2
    <2>. HIDE DEF in
    <2>4. seconds \in Nat \ {0} /\ seconds <= DaySeconds /\ seconds <= in
      BY <2>1, DayLength
    <2>. HIDE DEF seconds
    <2>5. a + seconds <= 86400 * 47481 + 86399
      <3>. DEFINE before == seconds - 1
      <3>1. before \in Nat /\ before <= DaySeconds /\ ~(in <= before) /\ seconds = before + 1
        BY <2>1, <2>4, DayLength
      <3>2. a < Total(t)
        BY <1>2, <1>3, <2>2
      <3>. HIDE DEF before
      <3>3. AlarmIn(registers, AlarmFor(t)) <= before <=> Total(t) <= a + before
        BY <1>1, <1>2, <3>1, <3>2, AlarmCounts
      <3>4. ~(Total(t) <= a + before)
        BY <2>3, <3>1, <3>3
      <3>. HIDE DEF a, t
      <3>. QED  BY <1>3, <3>1, <3>4
    <2>. QED  BY <1>4, <2>2, <2>4, <2>5
  <1>6. CASE ClockDrifts
    <2>1. PICK seconds \in Drifts :
            /\ slack + seconds <= MaxSlack /\ slack' = slack + seconds
            /\ TimePasses(seconds, 0) \/ TimePasses(0, seconds)
            /\ now'.day \in Days
      BY <1>6 DEF ClockDrifts
    <2>2. seconds \in Nat /\ seconds <= MaxSlack /\ MaxSlack < DaySeconds /\ MaxSlack \in Nat
      BY ClockAssumption, DayLength
    <2>3. ClockTypes /\ ClockHeld /\ slack \in Nat /\ trusted /\ pc = "off" /\ ~alarmFlag
      BY <1>6, SlackRange DEF ClockDrifts, PathInv, ClockInv
    <2>4. /\ slack' \in Nat /\ slack' < DaySeconds /\ seconds <= DaySeconds
          /\ 0 \in Nat /\ 0 <= DaySeconds
          /\ slack + seconds <= slack' + 0 /\ slack + 0 <= slack' + seconds
      BY <2>1, <2>2, <2>3, DayLength
    <2>5. CASE TimePasses(seconds, 0)
      <3>1. a + 0 <= 86400 * 47481 + 86399
        BY <2>1, <2>2, <2>3, <2>4, <2>5, TimePassesHeld
      <3>. QED  BY <1>4, <2>2, <2>3, <2>4, <2>5, <3>1
    <2>6. CASE TimePasses(0, seconds)
      <3>1. a + seconds <= 86400 * 47481 + 86399
        BY <2>1, <2>2, <2>3, <2>4, <2>6, TimePassesHeld
      <3>. QED  BY <1>4, <2>2, <2>3, <2>4, <2>6, <3>1
    <2>. QED  BY <2>1, <2>5, <2>6
  <1>7. CASE SecondPasses
    <2>1. TimePasses(1, 1) /\ pc \in {"toNode", "verify"} /\ ~ticked /\ ticked' = TRUE
      BY <1>7 DEF SecondPasses
    <2>2. ~alarmFlag
      BY <1>2, <2>1
    <2>3. a + 1 <= 86400 * 47481 + 86399
      BY <1>2, <1>3, <2>2
    <2>4. 1 \in Nat /\ 1 <= DaySeconds
      BY DayLength
    <2>. QED  BY <1>4, <2>1, <2>2, <2>3, <2>4
  <1>. QED  BY <1>5, <1>6, <1>7

\* A step that leaves the chip, the schedule and its excuse alone, and does not
\* take the node out of its sleep with the flag up.
LEMMA AlarmUntouched ==
  ASSUME AlarmHeld, UNCHANGED <<registers, voltageLow, alarm, alarmFlag, schedule, excused>>,
         \/ ~alarmFlag
         \/ pc' = "off"
         \/ pc # "off" /\ ticked' = ticked
  PROVE  AlarmHeld'
  BY DEF AlarmHeld

LEMMA AlarmAsideInv ==
  ASSUME PathInv, AlarmHeld,
         \/ Wake \/ Measure \/ SendTelemetry \/ Disturb \/ GatewayDecodes \/ GatewayAnswers
         \/ NodeDecodes \/ NoSync \/ ClockInOrder \/ ClockVerified \/ NoCommand \/ OtherCommand
         \/ GatewayHearsResult \/ PowerOff \/ AlarmServed \/ UNCHANGED vars
  PROVE  AlarmHeld'
  <1>1. CASE Wake
    BY <1>1, AlarmUntouched DEF Wake, clockVars, historyVars
  <1>2. CASE SendTelemetry \/ Disturb \/ GatewayDecodes \/ GatewayAnswers \/ NodeDecodes
    BY <1>2, AlarmUntouched
    DEF SendTelemetry, Disturb, GatewayDecodes, GatewayAnswers, NodeDecodes, clockVars, historyVars
  <1>3. CASE NoSync \/ ClockInOrder \/ ClockVerified \/ NoCommand \/ OtherCommand
    BY <1>3, AlarmUntouched
    DEF NoSync, ClockInOrder, ClockVerified, NoCommand, OtherCommand, clockVars, historyVars
  <1>4. CASE GatewayHearsResult \/ PowerOff
    BY <1>4, AlarmUntouched DEF GatewayHearsResult, PowerOff, clockVars, historyVars
  <1>5. CASE Measure \/ UNCHANGED vars
    BY <1>5 DEF Measure, vars, pathVars, clockVars, historyVars, AlarmHeld
  <1>6. CASE AlarmServed
    <2>. DEFINE state == IF AlarmIsDue(ReadDateTime(registers, voltageLow)) THEN "completed"
                         ELSE IF schedule.state = "pending" THEN "failed" ELSE schedule.state
    <2>1. schedule' = [schedule EXCEPT !.state = state]
      BY <1>6 DEF AlarmServed
    <2>2. state # "pending"
      OBVIOUS
    <2>. HIDE DEF state
    <2>3. schedule'.state # "pending"
      BY <2>1, <2>2 DEF PathInv, NodeTypes
    <2>. QED  BY <2>3 DEF AlarmHeld
  <1>. QED  BY <1>1, <1>2, <1>3, <1>4, <1>5, <1>6

\* What is written of the clock excuses the pending schedule.
LEMMA AlarmWriteInv ==
  ASSUME PathInv, AlarmHeld, ClockWritten \/ ClockWriteFails
  PROVE  AlarmHeld'
  <1>1. /\ pc = "sync" /\ pc' \in {"verify", "command"} /\ UNCHANGED <<ticked, schedule>>
        /\ \E count \in 0..7 : WriteClock(count)
    BY Writes DEF ClockWritten, ClockWriteFails
  <1>2. PICK count \in 0..7 : WriteClock(count)
    BY <1>1
  <1>3. CASE count = 0
    <2>1. registers \in ClockDigits /\ voltageLow \in BOOLEAN /\ excused \in BOOLEAN
      BY DEF PathInv, ClockTypes, NodeTypes
    <2>2. registers' = registers
      <3>1. DOMAIN registers = 1..7 /\ registers = [i \in 1..7 |-> registers[i]]
        BY <2>1 DEF ClockDigits
      <3>2. registers' = [i \in 1..7 |-> IF i <= 0 THEN Encoded(UnixToDateTime(GatewayTime))[i]
                                         ELSE registers[i]]
        BY <1>2, <1>3, <3>1 DEF WriteClock
      <3>3. \A i \in 1..7 : ~(i <= 0)
        OBVIOUS
      <3>. QED  BY <3>1, <3>2, <3>3
    <2>3. voltageLow' = (voltageLow /\ TRUE)
      BY <1>2, <1>3 DEF WriteClock
    <2>4. excused' = (excused \/ (schedule.state = "pending" /\ FALSE))
      <3>1. excused' = (excused \/ (schedule.state = "pending" /\ count > 0)) /\ ~(0 > 0)
        BY <1>2 DEF WriteClock
      <3>. QED  BY <1>3, <3>1
    <2>5. voltageLow' = voltageLow /\ excused' = excused /\ UNCHANGED <<alarm, alarmFlag>>
      BY <1>2, <2>1, <2>3, <2>4 DEF WriteClock
    <2>. QED  BY <1>1, <2>2, <2>5, AlarmUntouched
  <1>4. CASE count # 0
    <2>1. excused' = (excused \/ (schedule.state = "pending" /\ count > 0))
      BY <1>2 DEF WriteClock
    <2>2. count > 0
      BY <1>4
    <2>. QED  BY <1>1, <2>1, <2>2 DEF AlarmHeld
  <1>. QED  BY <1>3, <1>4

\* A target that is taken lies ahead, and within the horizon.
LEMMA TargetAhead ==
  ASSUME NEW s \in TimePairs, NEW t \in TimePairs, ScheduleRepresentable(s, t)
  PROVE  Total(s) < Total(t) /\ Total(t) <= Total(s) + Horizon
  <1>1. HorizonDays * DaySeconds = Horizon /\ Horizon \in Nat /\ MinuteSeconds = 60
    BY DEF HorizonDays, DaySeconds, Horizon, MinuteSeconds
  <1>2. /\ Later(s, 60) \in TimePairs /\ Total(Later(s, 60)) = Total(s) + 60
        /\ Later(s, Horizon) \in TimePairs /\ Total(Later(s, Horizon)) = Total(s) + Horizon
    BY <1>1, TotalLater
  <1>3. ~Before(t, Later(s, 60)) /\ ~Before(Later(s, Horizon), t)
    BY <1>1 DEF ScheduleRepresentable, WithinHorizon
  <1>4. Total(s) \in Nat /\ Total(t) \in Nat
    BY TotalOrder
  <1>5. ~(Total(t) < Total(Later(s, 60))) /\ ~(Total(Later(s, Horizon)) < Total(t))
    BY <1>2, <1>3, TotalOrder
  <1>. QED  BY <1>1, <1>2, <1>4, <1>5

LEMMA AlarmSetInv ==
  ASSUME PathInv, AlarmHeld, ScheduleCommand
  PROVE  AlarmHeld'
  <1>. DEFINE reading == ReadDateTime(registers, voltageLow)
              target == heard.packet.scheduledMaintenanceUnix
  <1>1. /\ pc = "command" /\ UNCHANGED <<registers, voltageLow, alarmFlag, ticked>>
        /\ \/ reading.state = "valid" /\ ScheduleRepresentable(reading.time, target)
              /\ ScheduleTaken(target)
           \/ ScheduleRefused(reading)
    BY DEF ScheduleCommand
  <1>2. CASE ScheduleRefused(reading)
    <2>1. UNCHANGED <<alarm, schedule, excused>>
      BY <1>2 DEF ScheduleRefused
    <2>. QED  BY <1>1, <2>1, AlarmUntouched
  <1>3. CASE reading.state = "valid" /\ ScheduleRepresentable(reading.time, target)
             /\ ScheduleTaken(target)
    <2>1. registers \in ClockDigits /\ voltageLow \in BOOLEAN /\ alarmFlag \in BOOLEAN
          /\ target \in TimePairs
      BY <1>1, TimeHeard DEF PathInv, ClockTypes, IsAnswer, Times, TimePairs
    <2>2. ~voltageLow /\ Shows(registers) /\ reading.time = Shown(registers)
      BY <1>3, <2>1, Reading DEF Shown
    <2>3. Shown(registers) \in TimePairs
      BY <2>1, <2>2, ShownTime
    <2>4. ScheduleRepresentable(Shown(registers), target)
      BY <1>3, <2>2
    <2>. HIDE DEF reading, target
    <2>5. /\ Total(Shown(registers)) < Total(target)
          /\ Total(target) <= Total(Shown(registers)) + Horizon
          /\ Total(Shown(registers)) \in Nat /\ Total(target) \in Nat
      BY <2>1, <2>3, <2>4, TargetAhead, TotalOrder
    <2>6. (target.second % 60) = 0
      BY <2>4 DEF ScheduleRepresentable
    <2>7. schedule' = [state |-> "pending", target |-> target] /\ alarm' = AlarmFor(target)
          /\ excused' = alarmFlag
      BY <1>3 DEF ScheduleTaken
    <2>8. schedule'.target = target
      BY <2>7
    <2>9. ~(Total(target) <= Total(Shown(registers)))
      BY <2>5
    <2>. QED  BY <1>1, <2>1, <2>2, <2>5, <2>6, <2>7, <2>8, <2>9 DEF AlarmHeld
  <1>. QED  BY <1>1, <1>2, <1>3

LEMMA AlarmInitInv == Init => AlarmHeld
  BY DEF Init, NoSchedule, AlarmHeld

LEMMA AlarmNextInv == PathInv /\ ClockInv /\ AlarmHeld /\ [Next]_vars => AlarmHeld'
  BY AlarmTimeInv, AlarmAsideInv, AlarmWriteInv, AlarmSetInv DEF Next

LEMMA AlarmHeldOnTime ==
  ASSUME PathInv, AlarmHeld
  PROVE  AlarmOnTime
  <1>. SUFFICES ASSUME schedule.state = "pending", ~excused
                PROVE  alarmFlag
                         <=> ~Before(ReadDateTime(registers, voltageLow).time, schedule.target)
    BY DEF AlarmOnTime
  <1>1. registers \in ClockDigits /\ voltageLow \in BOOLEAN /\ schedule.target \in TimePairs
    BY DEF PathInv, ClockTypes, NodeTypes, Times, TimePairs
  <1>2. Shows(registers) /\ ~voltageLow
        /\ (alarmFlag <=> Total(schedule.target) <= Total(Shown(registers)))
    BY DEF AlarmHeld
  <1>3. /\ ReadDateTime(registers, voltageLow).time = Shown(registers)
        /\ Shown(registers) \in TimePairs
    BY <1>1, <1>2, Reading, ShownTime DEF Shown
  <1>4. /\ Before(Shown(registers), schedule.target)
             <=> Total(Shown(registers)) < Total(schedule.target)
        /\ Total(Shown(registers)) \in Nat /\ Total(schedule.target) \in Nat
    BY <1>1, <1>3, TotalOrder
  <1>. QED  BY <1>2, <1>3, <1>4

-----------------------------------------------------------------------------
(* What holds of every poll *)

LEMMA PathTyped ==
  ASSUME PathInv, EchoTypeOK
  PROVE  TypeOK
  <1>1. Registers = ClockDigits
    BY Positions DEF Registers, ClockDigits
  <1>. QED  BY <1>1 DEF PathInv, ClockTypes, NodeTypes, Alarms, TypeOK

LEMMA PathUnderstood ==
  ASSUME PathInv
  PROVE  OnlyIntactAccepted
  <1>1. heard = NotHeard \/ Understood
    BY DEF PathInv, NodeTypes, LinkInv
  <1>. QED  BY <1>1 DEF Understood, OnlyIntactAccepted

LEMMA PathKept == Spec => []PathInv
  BY InitInv, NextInv, PTL DEF Spec

LEMMA ClockKept == Spec => []ClockInv
  BY ClockInitInv, ClockNextInv, PathKept, PTL DEF Spec

LEMMA AlarmKept == Spec => []AlarmHeld
  BY AlarmInitInv, AlarmNextInv, PathKept, ClockKept, PTL DEF Spec

\* The state of the chip, the node and the link stays within its types: in
\* particular the registers hold digits whatever a write that fails leaves in
\* them, and a pending schedule has a date in the chip's century
\* (pcf8563.cpp, node_app.cpp).
THEOREM TypeCorrect == Spec => []TypeOK
  <1>1. Init => EchoInv
    BY EchoInitInv DEF Init
  <1>2. EchoInv /\ [Next]_vars => EchoInv'
    BY StepsOfTheBurst, EchoResetInv, BurstTimesItsEcho
  <1>3. PathInv /\ EchoInv => TypeOK
    BY PathTyped DEF EchoInv
  <1>. QED  BY <1>1, <1>2, <1>3, PathKept, PTL DEF Spec

\* Of all packets, with every field the firmware or the gateway can give them,
\* exactly those that arrive undisturbed are accepted, and they say what was
\* sent (protocol_v3.cpp).
THEOREM IntactAccepted == Spec => []OnlyIntactAccepted
  BY PathUnderstood, PathKept, PTL

\* A clock that was set and read back is UTC up to the threshold and the drift
\* since, on every day of the chip's century, across every carry the chip's own
\* counting makes, and however many registers a failing write tears later
\* (pcf8563.cpp, node_app.cpp synchronizeRtc).
THEOREM ClockTrue == Spec => []ClockIsTrue
  BY ClockInvTrue, PathKept, ClockKept, PTL

\* For every target the node takes, whatever the month's length, and whenever
\* the polls before it are: the flag of the alarm rises as the chip's clock
\* reaches the target, never at an earlier match of the same day of the month
\* and never later (pcf8563.cpp configureAlarmForUtc, node_app.cpp
\* applyMaintenanceSchedule).
THEOREM AlarmTimely == Spec => []AlarmOnTime
  BY AlarmHeldOnTime, PathKept, AlarmKept, PTL

===============================================================================
