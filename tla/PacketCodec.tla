----------------------------- MODULE PacketCodec -----------------------------
(***************************************************************************)
(* The packets of protocol v3 and their coding (lib/protocol/protocol.cpp  *)
(* and protocol.hpp): TELEMETRY from the node, ACK_COMMAND from the        *)
(* gateway, COMMAND_RESULT from the node.                                  *)
(*                                                                         *)
(* On the wire a packet is a sequence of fields [bytes, value], in the     *)
(* order they are written; what is cut out of a field's bytes by the big-  *)
(* endian shifts is not spelled out, their number is.  A node id is a      *)
(* record [name, bytes, clean]: its length, and whether all its characters *)
(* are allowed.  A Unix time is a pair as in RtcCalendar, whose Never is   *)
(* the time 0.  Buffers are large enough (protocol.hpp:28).                *)
(***************************************************************************)
EXTENDS Integers, Sequences

Version == 3
IdCapacity == 25                                       \* kNodeIdCapacity
NoTime == [day |-> 0, second |-> 0]

MessageTypes == {"telemetry", "ackCommand", "commandResult"}
FilterStates == {"stable", "accepted", "verifyRise", "verifyFall", "transientRejected",
                 "changeConfirmed", "uncertain", "invalid"}
BootReasons == {"rtcTimer", "rtcScheduledMaintenance", "manualButton",
                "maintenanceReboot", "otaReboot", "unknown"}
RtcStates == {"valid", "invalidVl", "uninitialized", "i2cError"}
ScheduleStates == {"none", "pending", "completed", "failed"}
CommandTypes == {"none", "enterMaintenanceNow", "scheduleMaintenanceAt",
                 "setPollIntervalMinutes"}
ResultCodes == {"applied", "alreadyApplied", "invalidArgument", "rtcUnavailable",
                "rtcTimeUntrusted", "scheduleUnrepresentable", "storageError",
                "internalError"}

-----------------------------------------------------------------------------
(* Layouts: the fields after the header with their widths *)

TelemetryLayout == <<
  <<"persistentSessionId", 4>>, <<"sequence", 4>>, <<"medianEchoUs", 4>>,
  <<"rawDistanceMm", 4>>, <<"acceptedDistanceMm", 4>>, <<"madMm", 2>>,
  <<"temperatureCentiC", 2>>, <<"humidityCentiPercent", 2>>, <<"batteryMv", 2>>,
  <<"validSamples", 1>>, <<"totalSamples", 1>>, <<"filterState", 1>>,
  <<"qualityFlags", 2>>, <<"healthFlags", 2>>, <<"bootReason", 1>>,
  <<"rtcState", 1>>, <<"rtcUnixTime", 4>>, <<"pollIntervalMinutes", 1>>,
  <<"scheduleState", 1>>, <<"scheduledMaintenanceUnix", 4>>, <<"lastCommandId", 4>>,
  <<"lastCommandType", 1>>, <<"lastCommandResult", 1>>, <<"referenceDistanceMm", 4>> >>

AckFixedLayout == <<
  <<"persistentSessionId", 4>>, <<"sequence", 4>>, <<"gatewayUnixTime", 4>>,
  <<"timeValid", 1>>, <<"commandId", 4>>, <<"commandType", 1>>, <<"payloadLength", 1>> >>

\* commandPayloadLength, and the field a command of each type carries.
PayloadLayout(type) ==
  CASE type = "setPollIntervalMinutes" -> << <<"pollIntervalMinutes", 1>> >>
    [] type = "scheduleMaintenanceAt" -> << <<"scheduledMaintenanceUnix", 4>> >>
    [] type \in {"none", "enterMaintenanceNow"} -> <<>>

CommandPayloadLength(type) ==
  IF PayloadLayout(type) = <<>> THEN 0 ELSE PayloadLayout(type)[1][2]

ResultLayout == <<
  <<"persistentSessionId", 4>>, <<"commandId", 4>>, <<"commandType", 1>>,
  <<"resultCode", 1>>, <<"effectivePollIntervalMinutes", 1>>,
  <<"scheduledMaintenanceUnix", 4>> >>

-----------------------------------------------------------------------------
(* Writer and Reader *)

Field(bytes, value) == [bytes |-> bytes, value |-> value]

Written(layout, packet) ==
  [i \in DOMAIN layout |-> Field(layout[i][2], packet[layout[i][1]])]

\* The fields of the layout can all be read from here on.
Readable(layout, wire, first) ==
  \A i \in DOMAIN layout :
    first + i - 1 <= Len(wire) /\ wire[first + i - 1].bytes = layout[i][2]

Names(layout) == {layout[i][1] : i \in DOMAIN layout}
Index(layout, name) == CHOOSE i \in DOMAIN layout : layout[i][1] = name

Read(layout, wire, first) ==
  [name \in Names(layout) |-> wire[first - 1 + Index(layout, name)].value]

\* Defect: bytes after the last field are nobody's business.
NothingRemains(wire, length) == TRUE

\* remaining() = 0 after this many fields.
AllRead(wire, length) == Len(wire) = length

-----------------------------------------------------------------------------
(* The header *)

NodeIdValid(id) == id.bytes \in 1..IdCapacity - 1 /\ id.clean

HeaderFields == 6

Header(type, id) ==
  << Field(1, "G"), Field(1, "T"), Field(1, Version), Field(1, type),
     Field(1, id.bytes), Field(id.bytes, id) >>

\* readHeader
HeaderStatus(wire, type) ==
  CASE Len(wire) < HeaderFields - 1 -> "bufferTooSmall"
    [] Len(wire) >= HeaderFields - 1 ->
         IF wire[1].value # "G" \/ wire[2].value # "T" THEN "badMagic"
         ELSE IF wire[3].value # Version THEN "unsupportedVersion"
         ELSE IF wire[4].value # type THEN "wrongType"
         ELSE IF \/ Len(wire) < HeaderFields
                 \/ wire[6].bytes # wire[5].value
                 \/ ~NodeIdValid(wire[6].value) THEN "invalidNodeId"
         ELSE "ok"

Refused(status) == [status |-> status]
Accepted(id, packet) ==
  [status |-> "ok",
   packet |-> [name \in DOMAIN packet \union {"nodeId"} |->
                 IF name = "nodeId" THEN id ELSE packet[name]]]

-----------------------------------------------------------------------------
(* TELEMETRY *)

TelemetryEncodes(p) == NodeIdValid(p.nodeId) /\ p.pollIntervalMinutes # 0

EncodeTelemetry(p) == Header("telemetry", p.nodeId) \o Written(TelemetryLayout, p)

TelemetryEnumsValid(p) ==
  /\ p.filterState \in FilterStates /\ p.bootReason \in BootReasons
  /\ p.rtcState \in RtcStates /\ p.scheduleState \in ScheduleStates
  /\ p.lastCommandType \in CommandTypes
  /\ p.lastCommandResult \in ResultCodes \union {"none"}
  /\ p.pollIntervalMinutes # 0

TelemetryFlagsValid(p) ==
  /\ p.rtcState # "valid" => p.rtcUnixTime = NoTime
  /\ p.scheduleState = "none" => p.scheduledMaintenanceUnix = NoTime
  /\ p.lastCommandType = "none" => p.lastCommandId = 0

DecodeTelemetry(wire) ==
  LET header == HeaderStatus(wire, "telemetry")
      packet == Read(TelemetryLayout, wire, HeaderFields + 1)
  IN  IF header # "ok" THEN Refused(header)
      ELSE IF ~Readable(TelemetryLayout, wire, HeaderFields + 1)
           THEN Refused("bufferTooSmall")
      ELSE IF ~TelemetryEnumsValid(packet) THEN Refused("invalidEnum")
      ELSE IF ~TelemetryFlagsValid(packet) THEN Refused("invalidFlags")
      ELSE IF ~AllRead(wire, HeaderFields + Len(TelemetryLayout))
           THEN Refused("trailingData")
      ELSE Accepted(wire[6].value, packet)

-----------------------------------------------------------------------------
(* ACK_COMMAND *)

AckCommandValid(p) ==
  /\ ~p.timeValid => p.gatewayUnixTime = NoTime
  /\ p.commandType = "none" <=> p.commandId = 0
  /\ p.commandType = "setPollIntervalMinutes" => p.pollIntervalMinutes >= 1
  /\ p.commandType = "scheduleMaintenanceAt" => p.scheduledMaintenanceUnix # NoTime

EncodeAckCommand(p) ==
  Header("ackCommand", p.nodeId)
  \o [i \in DOMAIN AckFixedLayout |->
        IF AckFixedLayout[i][1] = "payloadLength"
        THEN Field(1, CommandPayloadLength(p.commandType))
        ELSE Field(AckFixedLayout[i][2], p[AckFixedLayout[i][1]])]
  \o Written(PayloadLayout(p.commandType), p)

\* The fields the decoder leaves alone keep their defaults.
AckDefaults == [pollIntervalMinutes |-> 0, scheduledMaintenanceUnix |-> NoTime]

DecodeAckCommand(wire) ==
  LET header == HeaderStatus(wire, "ackCommand")
      start == HeaderFields + 1
      fixed == Read(AckFixedLayout, wire, start)
      payload == PayloadLayout(fixed.commandType)
      after == start + Len(AckFixedLayout)
      carried == Read(payload, wire, after)
      packet == [name \in (DOMAIN fixed \ {"payloadLength"}) \union DOMAIN AckDefaults |->
                   IF name \in DOMAIN carried THEN carried[name]
                   ELSE IF name \in DOMAIN fixed THEN fixed[name]
                   ELSE AckDefaults[name]]
  IN  IF header # "ok" THEN Refused(header)
      ELSE IF ~Readable(AckFixedLayout, wire, start) THEN Refused("bufferTooSmall")
      ELSE IF fixed.timeValid \notin BOOLEAN THEN Refused("invalidFlags")
      ELSE IF \/ fixed.commandType \notin CommandTypes
              \/ fixed.payloadLength # CommandPayloadLength(fixed.commandType)
           THEN Refused("invalidCommand")
      ELSE IF ~Readable(payload, wire, after) THEN Refused("bufferTooSmall")
      ELSE IF ~AckCommandValid(packet) THEN Refused("invalidCommand")
      ELSE IF ~AllRead(wire, after - 1 + Len(payload)) THEN Refused("trailingData")
      ELSE Accepted(wire[6].value, packet)

AckMatches(ack, telemetry) ==
  /\ ack.nodeId = telemetry.nodeId
  /\ ack.persistentSessionId = telemetry.persistentSessionId
  /\ ack.sequence = telemetry.sequence

-----------------------------------------------------------------------------
(* COMMAND_RESULT *)

ResultValid(p) ==
  p.commandId # 0 /\ p.commandType \in CommandTypes \ {"none"} /\ p.resultCode \in ResultCodes

EncodeCommandResult(p) == Header("commandResult", p.nodeId) \o Written(ResultLayout, p)

DecodeCommandResult(wire) ==
  LET header == HeaderStatus(wire, "commandResult")
      packet == Read(ResultLayout, wire, HeaderFields + 1)
  IN  IF header # "ok" THEN Refused(header)
      ELSE IF ~Readable(ResultLayout, wire, HeaderFields + 1) THEN Refused("bufferTooSmall")
      ELSE IF ~ResultValid(packet) THEN Refused("invalidCommand")
      ELSE IF ~AllRead(wire, HeaderFields + Len(ResultLayout)) THEN Refused("trailingData")
      ELSE Accepted(wire[6].value, packet)

=============================================================================
