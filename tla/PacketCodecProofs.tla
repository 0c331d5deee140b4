-------------------------- MODULE PacketCodecProofs --------------------------
(***************************************************************************)
(* What is proved of the encoders and the decoders of PacketCodec, for     *)
(* every value of every field: what is encoded is decoded to itself, and   *)
(* what has another length, version, type or identity is refused.          *)
(***************************************************************************)
EXTENDS PacketCodec, TLAPS

-----------------------------------------------------------------------------
(* Sequences of fields *)

LEMMA Joined ==
  ASSUME NEW S, NEW s \in Seq(S), NEW t \in Seq(S)
  PROVE  /\ Len(s \o t) = Len(s) + Len(t) /\ s \o t \in Seq(S)
         /\ \A i \in 1..Len(s) : (s \o t)[i] = s[i]
         /\ \A i \in 1..Len(t) : (s \o t)[Len(s) + i] = t[i]
  OBVIOUS

\* Names for what the provers would take apart.
Numbered(f, n) == f = [i \in 1..n |-> f[i]]
StartsWith(wire, header) == \A i \in 1..6 : wire[i] = header[i]
Follow(wire, before, f, n) == \A i \in 1..n : wire[before + i] = f[i]
Carries(wire, before, layout, value) ==
  \A i \in 1..Len(layout) : /\ wire[before + i].bytes = layout[i][2]
                            /\ wire[before + i].value = value[layout[i][1]]
IsLayout(layout) == Len(layout) \in Nat /\ DOMAIN layout = 1..Len(layout)

\* What follows the header.
LEMMA Laid ==
  ASSUME NEW type, NEW id, NEW m \in Nat, NEW f, Numbered(f, m)
  PROVE  /\ Len(Header(type, id) \o f) = 6 + m
         /\ DOMAIN (Header(type, id) \o f) = 1..6 + m
         /\ Numbered(Header(type, id) \o f, 6 + m)
         /\ StartsWith(Header(type, id) \o f, Header(type, id))
         /\ Follow(Header(type, id) \o f, 6, f, m)
  <1>. DEFINE h == Header(type, id)
              S == {h[i] : i \in 1..6} \union {f[i] : i \in 1..m}
              one == h \o f
  <1>1. Len(h) = 6 /\ h \in Seq(S)
    BY DEF Header
  <1>2. Len(f) = m /\ f \in Seq(S)
    BY DEF Numbered
  <1>. HIDE DEF h, S
  <1>3. /\ Len(one) = 6 + m /\ one \in Seq(S)
        /\ \A i \in 1..6 : one[i] = h[i]
        /\ \A i \in 1..m : one[6 + i] = f[i]
    <2>1. /\ Len(h \o f) = Len(h) + Len(f) /\ h \o f \in Seq(S)
          /\ \A i \in 1..Len(h) : (h \o f)[i] = h[i]
          /\ \A i \in 1..Len(f) : (h \o f)[Len(h) + i] = f[i]
      <3>1. h \in Seq(S) /\ f \in Seq(S)
        BY <1>1, <1>2
      <3>. QED  BY <3>1, Joined
    <2>. QED  BY <1>1, <1>2, <2>1
  <1>. HIDE DEF one
  <1>4. DOMAIN one = 1..6 + m /\ Numbered(one, 6 + m)
    BY <1>3 DEF Numbered
  <1>5. StartsWith(one, h) /\ Follow(one, 6, f, m)
    BY <1>3 DEF StartsWith, Follow
  <1>. QED  BY <1>3, <1>4, <1>5 DEF one, h

\* Fields appended to fields.
LEMMA Prolonged ==
  ASSUME NEW m \in Nat, NEW n \in Nat, NEW f, NEW g, Numbered(f, m), Numbered(g, n)
  PROVE  /\ Len(f \o g) = m + n /\ DOMAIN (f \o g) = 1..m + n
         /\ \A i \in 1..m : (f \o g)[i] = f[i]
         /\ Follow(f \o g, m, g, n)
  <1>. DEFINE S == {f[i] : i \in 1..m} \union {g[i] : i \in 1..n}
              two == f \o g
  <1>1. Len(f) = m /\ f \in Seq(S) /\ Len(g) = n /\ g \in Seq(S)
    <2>1. Len(f) = m /\ f \in Seq(S)
      BY DEF Numbered
    <2>2. Len(g) = n /\ g \in Seq(S)
      BY DEF Numbered
    <2>. QED  BY <2>1, <2>2
  <1>. HIDE DEF S
  <1>2. /\ Len(two) = m + n /\ two \in Seq(S)
        /\ \A i \in 1..m : two[i] = f[i]
        /\ \A i \in 1..n : two[m + i] = g[i]
    <2>1. /\ Len(f \o g) = Len(f) + Len(g) /\ f \o g \in Seq(S)
          /\ \A i \in 1..Len(f) : (f \o g)[i] = f[i]
          /\ \A i \in 1..Len(g) : (f \o g)[Len(f) + i] = g[i]
      <3>1. f \in Seq(S) /\ g \in Seq(S)
        BY <1>1
      <3>. QED  BY <3>1, Joined
    <2>. QED  BY <1>1, <2>1
  <1>. HIDE DEF two
  <1>3. DOMAIN two = 1..m + n /\ Follow(two, m, g, n)
    BY <1>2 DEF Follow
  <1>. QED  BY <1>2, <1>3 DEF two

LEMMA ProlongedNumbered ==
  ASSUME NEW m \in Nat, NEW n \in Nat, NEW f, NEW g, Numbered(f, m), Numbered(g, n)
  PROVE  Numbered(f \o g, m + n)
  <1>. DEFINE S == {f[i] : i \in 1..m} \union {g[i] : i \in 1..n}
              two == f \o g
  <1>1. Len(f) = m /\ f \in Seq(S) /\ Len(g) = n /\ g \in Seq(S)
    <2>1. Len(f) = m /\ f \in Seq(S)
      BY DEF Numbered
    <2>2. Len(g) = n /\ g \in Seq(S)
      BY DEF Numbered
    <2>. QED  BY <2>1, <2>2
  <1>. HIDE DEF S
  <1>2. Len(two) = m + n /\ two \in Seq(S)
    BY <1>1, Joined
  <1>. HIDE DEF two
  <1>3. Numbered(two, m + n)
    BY <1>2 DEF Numbered
  <1>. QED  BY <1>3 DEF two

LEMMA WrittenFields ==
  ASSUME NEW layout, IsLayout(layout), NEW packet
  PROVE  /\ Numbered(Written(layout, packet), Len(layout))
         /\ Carries(Written(layout, packet), 0, layout, packet)
  <1>1. Written(layout, packet)
          = [i \in 1..Len(layout) |-> Field(layout[i][2], packet[layout[i][1]])]
    BY DEF IsLayout, Written
  <1>2. ASSUME NEW i \in 1..Len(layout)
        PROVE  /\ Written(layout, packet)[0 + i].bytes = layout[i][2]
               /\ Written(layout, packet)[0 + i].value = packet[layout[i][1]]
    <2>1. 0 + i = i
      BY DEF IsLayout
    <2>. QED  BY <1>1, <2>1 DEF Field
  <1>. QED  BY <1>1, <1>2 DEF Numbered, Carries

\* Fields that follow others carry what they carried alone.
LEMMA CarriedAlong ==
  ASSUME NEW layout, IsLayout(layout), NEW value, NEW f, Carries(f, 0, layout, value),
         NEW wire, NEW before \in Nat, Follow(wire, before, f, Len(layout))
  PROVE  Carries(wire, before, layout, value)
  <1>1. ASSUME NEW i \in 1..Len(layout)
        PROVE  /\ wire[before + i].bytes = layout[i][2]
               /\ wire[before + i].value = value[layout[i][1]]
    <2>1. 0 + i = i
      BY DEF IsLayout
    <2>2. wire[before + i] = f[i]
      BY DEF Follow
    <2>3. f[0 + i].bytes = layout[i][2] /\ f[0 + i].value = value[layout[i][1]]
      BY DEF Carries
    <2>. QED  BY <2>1, <2>2, <2>3
  <1>. QED  BY <1>1 DEF Carries

LEMMA IndexOfName ==
  ASSUME NEW layout, NEW name \in Names(layout)
  PROVE  Index(layout, name) \in DOMAIN layout /\ layout[Index(layout, name)][1] = name
  BY DEF Names, Index

\* A field is read where it was written, whatever its place.
LEMMA ReadsBack ==
  ASSUME NEW layout, IsLayout(layout), NEW wire, NEW before \in Nat, NEW value,
         Carries(wire, before, layout, value), NEW first, first = before + 1
  PROVE  Read(layout, wire, first) = [name \in Names(layout) |-> value[name]]
  <1>1. ASSUME NEW name \in Names(layout)
        PROVE  wire[before + 1 - 1 + Index(layout, name)].value = value[name]
    <2>1. Index(layout, name) \in 1..Len(layout) /\ layout[Index(layout, name)][1] = name
      BY IndexOfName DEF IsLayout
    <2>2. before + 1 - 1 + Index(layout, name) = before + Index(layout, name)
      BY <2>1
    <2>. QED  BY <2>1, <2>2 DEF Carries
  <1>. QED  BY <1>1 DEF Read

LEMMA ReadableFields ==
  ASSUME NEW layout, IsLayout(layout), NEW wire, NEW before \in Nat, NEW value,
         Len(wire) \in Nat, Len(wire) >= before + Len(layout),
         Carries(wire, before, layout, value), NEW first, first = before + 1
  PROVE  Readable(layout, wire, first)
  <1>1. ASSUME NEW i \in 1..Len(layout)
        PROVE  before + 1 + i - 1 <= Len(wire) /\ wire[before + 1 + i - 1].bytes = layout[i][2]
    <2>1. before + 1 + i - 1 = before + i /\ before + i <= before + Len(layout)
      BY DEF IsLayout
    <2>2. wire[before + i].bytes = layout[i][2]
      BY DEF Carries
    <2>. QED  BY <2>1, <2>2 DEF IsLayout
  <1>. QED  BY <1>1 DEF Readable, IsLayout

LEMMA HeaderFieldsOf ==
  ASSUME NEW type, NEW id
  PROVE  /\ Header(type, id)[1].value = "G" /\ Header(type, id)[2].value = "T"
         /\ Header(type, id)[3] = [bytes |-> 1, value |-> Version]
         /\ Header(type, id)[4].value = type
         /\ Header(type, id)[5].value = id.bytes
         /\ Header(type, id)[6] = [bytes |-> id.bytes, value |-> id]
  BY DEF Header, Field

LEMMA HeaderAccepted ==
  ASSUME NEW type, NEW id, NodeIdValid(id), NEW wire, Len(wire) \in Nat, Len(wire) >= 6,
         StartsWith(wire, Header(type, id))
  PROVE  HeaderStatus(wire, type) = "ok" /\ wire[6].value = id
  <1>. DEFINE h == Header(type, id)
  <1>1. /\ wire[1] = h[1] /\ wire[2] = h[2] /\ wire[3] = h[3]
        /\ wire[4] = h[4] /\ wire[5] = h[5] /\ wire[6] = h[6]
    BY DEF StartsWith
  <1>2. /\ h[1].value = "G" /\ h[2].value = "T"
        /\ h[3] = [bytes |-> 1, value |-> Version] /\ h[4].value = type
        /\ h[5].value = id.bytes
        /\ h[6] = [bytes |-> id.bytes, value |-> id]
    BY HeaderFieldsOf
  <1>. HIDE DEF h
  <1>3. /\ wire[1].value = "G" /\ wire[2].value = "T" /\ wire[4].value = type
        /\ wire[5].value = id.bytes
    BY <1>1, <1>2
  <1>4. wire[3].value = Version
    BY <1>1, <1>2
  <1>5. wire[6].bytes = id.bytes /\ wire[6].value = id
    BY <1>1, <1>2
  <1>6. ~(Len(wire) < HeaderFields) /\ ~(Len(wire) < HeaderFields - 1) /\ Len(wire) >= HeaderFields - 1
    BY DEF HeaderFields
  <1>. QED  BY <1>3, <1>4, <1>5, <1>6 DEF HeaderStatus

\* The header is refused if its version or its identity is.
LEMMA HeaderOk ==
  ASSUME NEW type, NEW wire, Len(wire) \in Nat, HeaderStatus(wire, type) = "ok"
  PROVE  wire[3].value = Version /\ NodeIdValid(wire[6].value)
  <1>. DEFINE refused == \/ Len(wire) < HeaderFields
                         \/ wire[6].bytes # wire[5].value
                         \/ ~NodeIdValid(wire[6].value)
              inner == IF wire[1].value # "G" \/ wire[2].value # "T" THEN "badMagic"
                       ELSE IF wire[3].value # Version THEN "unsupportedVersion"
                       ELSE IF wire[4].value # type THEN "wrongType"
                       ELSE IF refused THEN "invalidNodeId"
                       ELSE "ok"
  <1>1. HeaderStatus(wire, type) = CASE Len(wire) < HeaderFields - 1 -> "bufferTooSmall"
                                     [] Len(wire) >= HeaderFields - 1 -> inner
    BY DEF HeaderStatus
  <1>2. Len(wire) < HeaderFields - 1 <=> ~(Len(wire) >= HeaderFields - 1)
    BY DEF HeaderFields
  <1>3. inner = "ok"
    <2>. HIDE DEF inner
    <2>. QED  BY <1>1, <1>2
  <1>4. wire[3].value = Version /\ ~refused
    <2>. HIDE DEF refused
    <2>. QED  BY <1>3
  <1>. QED  BY <1>4

-----------------------------------------------------------------------------
(* TELEMETRY *)

TelemetryNames ==
  {"persistentSessionId", "sequence", "medianEchoUs", "rawDistanceMm", "acceptedDistanceMm",
   "madMm", "temperatureCentiC", "humidityCentiPercent", "batteryMv", "validSamples",
   "totalSamples", "filterState", "qualityFlags", "healthFlags", "bootReason", "rtcState",
   "rtcUnixTime", "pollIntervalMinutes", "scheduleState", "scheduledMaintenanceUnix",
   "lastCommandId", "lastCommandType", "lastCommandResult", "referenceDistanceMm"}

LEMMA TelemetryLength ==
  /\ IsLayout(TelemetryLayout) /\ Len(TelemetryLayout) = 24
  /\ Names(TelemetryLayout) = TelemetryNames
  <1>1. DOMAIN TelemetryLayout = 1..24 /\ Len(TelemetryLayout) = 24
    BY DEF TelemetryLayout
  <1>2. Names(TelemetryLayout) = TelemetryNames
    BY DEF Names, TelemetryLayout, TelemetryNames
  <1>. QED  BY <1>1, <1>2 DEF IsLayout

\* A packet that is a header and the fields of one layout.
IsPacket(wire, type, id, layout, p) == wire = Header(type, id) \o Written(layout, p)

LEMMA PacketWire ==
  ASSUME NEW type, NEW id, NEW layout, IsLayout(layout), NEW p, NEW wire,
         IsPacket(wire, type, id, layout, p)
  PROVE  /\ Len(wire) = 6 + Len(layout) /\ DOMAIN wire = 1..6 + Len(layout)
         /\ StartsWith(wire, Header(type, id)) /\ Carries(wire, 6, layout, p)
  <1>. DEFINE f == Written(layout, p)
              n == Len(layout)
  <1>1. Numbered(f, n) /\ n \in Nat /\ Carries(f, 0, layout, p)
    BY WrittenFields DEF IsLayout
  <1>2. /\ Len(Header(type, id) \o f) = 6 + n /\ DOMAIN (Header(type, id) \o f) = 1..6 + n
        /\ StartsWith(Header(type, id) \o f, Header(type, id))
        /\ Follow(Header(type, id) \o f, 6, f, n)
    <2>. HIDE DEF f, n
    <2>. QED  BY <1>1, Laid
  <1>3. Carries(Header(type, id) \o f, 6, layout, p)
    <2>. HIDE DEF f
    <2>. QED  BY <1>1, <1>2, CarriedAlong
  <1>. QED  BY <1>2, <1>3 DEF IsPacket

LEMMA PacketNumbered ==
  ASSUME NEW type, NEW id, NEW layout, IsLayout(layout), NEW p, NEW wire,
         IsPacket(wire, type, id, layout, p)
  PROVE  Numbered(wire, 6 + Len(layout))
  <1>. DEFINE f == Written(layout, p)
              n == Len(layout)
  <1>1. Numbered(f, n) /\ n \in Nat
    BY WrittenFields DEF IsLayout
  <1>2. Numbered(Header(type, id) \o f, 6 + n)
    <2>. HIDE DEF f, n
    <2>. QED  BY <1>1, Laid
  <1>. QED  BY <1>2 DEF IsPacket

LEMMA PacketRead ==
  ASSUME NEW type, NEW id, NodeIdValid(id), NEW layout, IsLayout(layout), NEW p, NEW wire,
         IsPacket(wire, type, id, layout, p)
  PROVE  /\ HeaderStatus(wire, type) = "ok" /\ wire[6].value = id
         /\ Readable(layout, wire, HeaderFields + 1)
         /\ Read(layout, wire, HeaderFields + 1) = [name \in Names(layout) |-> p[name]]
         /\ AllRead(wire, HeaderFields + Len(layout))
  <1>1. HeaderFields \in Nat /\ HeaderFields = 6 /\ Len(layout) \in Nat
    BY DEF HeaderFields, IsLayout
  <1>2. /\ Len(wire) = 6 + Len(layout)
        /\ StartsWith(wire, Header(type, id)) /\ Carries(wire, HeaderFields, layout, p)
    BY <1>1, PacketWire
  <1>3. Len(wire) \in Nat /\ Len(wire) >= 6 /\ Len(wire) >= HeaderFields + Len(layout)
    BY <1>1, <1>2
  <1>4. HeaderStatus(wire, type) = "ok" /\ wire[6].value = id
    BY <1>2, <1>3, HeaderAccepted
  <1>. DEFINE first == HeaderFields + 1
  <1>5. Readable(layout, wire, first)
    <2>1. first = HeaderFields + 1
      OBVIOUS
    <2>2. HeaderFields \in Nat
      BY <1>1
    <2>. HIDE DEF first
    <2>. QED  BY <1>2, <1>3, <2>1, <2>2, ReadableFields
  <1>6. Read(layout, wire, first) = [name \in Names(layout) |-> p[name]]
    <2>1. first = HeaderFields + 1
      OBVIOUS
    <2>2. HeaderFields \in Nat /\ Carries(wire, HeaderFields, layout, p)
      BY <1>1, <1>2
    <2>. HIDE DEF first
    <2>. QED  BY <2>1, <2>2, ReadsBack
  <1>7. AllRead(wire, HeaderFields + Len(layout))
    BY <1>1, <1>2 DEF AllRead
  <1>. QED  BY <1>4, <1>5, <1>6, <1>7

\* What the gateway decodes of a telemetry is what the node encoded, in every
\* field (protocol.cpp:166-235).
THEOREM TelemetryRoundTrip ==
  ASSUME NEW p, p = [name \in TelemetryNames \union {"nodeId"} |-> p[name]],
         TelemetryEncodes(p), TelemetryEnumsValid(p), TelemetryFlagsValid(p)
  PROVE  DecodeTelemetry(EncodeTelemetry(p)) = [status |-> "ok", packet |-> p]
  <1>. DEFINE wire == EncodeTelemetry(p)
              read == Read(TelemetryLayout, wire, HeaderFields + 1)
  <1>1. /\ HeaderStatus(wire, "telemetry") = "ok" /\ wire[6].value = p.nodeId
        /\ Readable(TelemetryLayout, wire, HeaderFields + 1)
        /\ read = [name \in TelemetryNames |-> p[name]]
        /\ AllRead(wire, HeaderFields + Len(TelemetryLayout))
    <2>1. IsPacket(wire, "telemetry", p.nodeId, TelemetryLayout, p)
      BY DEF EncodeTelemetry, IsPacket
    <2>2. NodeIdValid(p.nodeId) /\ IsLayout(TelemetryLayout)
          /\ Names(TelemetryLayout) = TelemetryNames
      BY TelemetryLength DEF TelemetryEncodes
    <2>. HIDE DEF wire
    <2>3. /\ HeaderStatus(wire, "telemetry") = "ok" /\ wire[6].value = p.nodeId
          /\ Readable(TelemetryLayout, wire, HeaderFields + 1)
          /\ Read(TelemetryLayout, wire, HeaderFields + 1)
               = [name \in Names(TelemetryLayout) |-> p[name]]
          /\ AllRead(wire, HeaderFields + Len(TelemetryLayout))
      BY <2>1, <2>2, PacketRead
    <2>. QED  BY <2>2, <2>3
  <1>. HIDE DEF wire, read
  <1>2. /\ read.filterState = p.filterState /\ read.bootReason = p.bootReason
        /\ read.rtcState = p.rtcState /\ read.scheduleState = p.scheduleState
        /\ read.lastCommandType = p.lastCommandType /\ read.lastCommandResult = p.lastCommandResult
        /\ read.pollIntervalMinutes = p.pollIntervalMinutes /\ read.rtcUnixTime = p.rtcUnixTime
        /\ read.scheduledMaintenanceUnix = p.scheduledMaintenanceUnix
        /\ read.lastCommandId = p.lastCommandId
    BY <1>1 DEF TelemetryNames
  <1>3. TelemetryEnumsValid(read) /\ TelemetryFlagsValid(read)
    BY <1>2 DEF TelemetryEnumsValid, TelemetryFlagsValid
  <1>4. Accepted(p.nodeId, read) = [status |-> "ok", packet |-> p]
    <2>1. DOMAIN read = TelemetryNames
      BY <1>1
    <2>2. [name \in TelemetryNames \union {"nodeId"} |->
             IF name = "nodeId" THEN p.nodeId ELSE read[name]] = p
      <3>1. \A name \in TelemetryNames \union {"nodeId"} :
               (IF name = "nodeId" THEN p["nodeId"] ELSE read[name]) = p[name]
        BY <1>1
      <3>. QED  BY <3>1
    <2>. QED  BY <2>1, <2>2 DEF Accepted
  <1>. QED  BY <1>1, <1>3, <1>4 DEF DecodeTelemetry, wire, read

LEMMA TelemetryWire ==
  ASSUME NEW p
  PROVE  /\ Len(EncodeTelemetry(p)) = 30 /\ DOMAIN EncodeTelemetry(p) = 1..30
         /\ StartsWith(EncodeTelemetry(p), Header("telemetry", p.nodeId))
  <1>. DEFINE wire == EncodeTelemetry(p)
              id == p.nodeId
  <1>1. IsLayout(TelemetryLayout) /\ Len(TelemetryLayout) = 24
    BY TelemetryLength
  <1>2. IsPacket(wire, "telemetry", id, TelemetryLayout, p)
    BY DEF EncodeTelemetry, IsPacket
  <1>. HIDE DEF wire, id
  <1>3. /\ Len(wire) = 6 + Len(TelemetryLayout) /\ DOMAIN wire = 1..6 + Len(TelemetryLayout)
        /\ StartsWith(wire, Header("telemetry", id))
    <2>1. IsLayout(TelemetryLayout)
      BY <1>1
    <2>. QED  BY <1>2, <2>1, PacketWire
  <1>4. Len(wire) = 30 /\ DOMAIN wire = 1..30
    BY <1>1, <1>3
  <1>. QED  BY <1>3, <1>4 DEF wire, id

LEMMA TelemetryRefused ==
  ASSUME NEW wire, Len(wire) \in Nat, DecodeTelemetry(wire).status = "ok"
  PROVE  Len(wire) = 30 /\ wire[3].value = Version /\ NodeIdValid(wire[6].value)
  <1>. DEFINE header == HeaderStatus(wire, "telemetry")
              packet == Read(TelemetryLayout, wire, HeaderFields + 1)
              readable == Readable(TelemetryLayout, wire, HeaderFields + 1)
              length == HeaderFields + Len(TelemetryLayout)
  <1>1. DecodeTelemetry(wire) =
          IF header # "ok" THEN Refused(header)
          ELSE IF ~readable THEN Refused("bufferTooSmall")
          ELSE IF ~TelemetryEnumsValid(packet) THEN Refused("invalidEnum")
          ELSE IF ~TelemetryFlagsValid(packet) THEN Refused("invalidFlags")
          ELSE IF ~AllRead(wire, length) THEN Refused("trailingData")
          ELSE Accepted(wire[6].value, packet)
    BY DEF DecodeTelemetry
  <1>2. \A status : Refused(status).status = status
    BY DEF Refused
  <1>. HIDE DEF header, packet, readable, length
  <1>3. header = "ok" /\ AllRead(wire, length)
    BY <1>1, <1>2
  <1>4. Len(wire) = 30
    BY <1>3, TelemetryLength DEF AllRead, length, HeaderFields
  <1>5. HeaderStatus(wire, "telemetry") = "ok"
    BY <1>3 DEF header
  <1>. QED  BY <1>4, <1>5, HeaderOk

-----------------------------------------------------------------------------
(* COMMAND_RESULT *)

ResultNames == {"persistentSessionId", "commandId", "commandType", "resultCode",
                "effectivePollIntervalMinutes", "scheduledMaintenanceUnix"}

LEMMA ResultLength ==
  IsLayout(ResultLayout) /\ Len(ResultLayout) = 6 /\ Names(ResultLayout) = ResultNames
  <1>1. DOMAIN ResultLayout = 1..6 /\ Len(ResultLayout) = 6
    BY DEF ResultLayout
  <1>2. Names(ResultLayout) = ResultNames
    BY DEF Names, ResultLayout, ResultNames
  <1>. QED  BY <1>1, <1>2 DEF IsLayout

\* What the gateway decodes of a result is what the node encoded
\* (protocol.cpp:286-326).
THEOREM ResultRoundTrip ==
  ASSUME NEW p, p = [name \in ResultNames \union {"nodeId"} |-> p[name]],
         NodeIdValid(p.nodeId), ResultValid(p)
  PROVE  DecodeCommandResult(EncodeCommandResult(p)) = [status |-> "ok", packet |-> p]
  <1>. DEFINE wire == EncodeCommandResult(p)
              read == Read(ResultLayout, wire, HeaderFields + 1)
  <1>1. /\ HeaderStatus(wire, "commandResult") = "ok" /\ wire[6].value = p.nodeId
        /\ Readable(ResultLayout, wire, HeaderFields + 1)
        /\ read = [name \in ResultNames |-> p[name]]
        /\ AllRead(wire, HeaderFields + Len(ResultLayout))
    <2>1. IsPacket(wire, "commandResult", p.nodeId, ResultLayout, p)
      BY DEF EncodeCommandResult, IsPacket
    <2>2. NodeIdValid(p.nodeId) /\ IsLayout(ResultLayout) /\ Names(ResultLayout) = ResultNames
      BY ResultLength
    <2>. HIDE DEF wire
    <2>3. /\ HeaderStatus(wire, "commandResult") = "ok" /\ wire[6].value = p.nodeId
          /\ Readable(ResultLayout, wire, HeaderFields + 1)
          /\ Read(ResultLayout, wire, HeaderFields + 1)
               = [name \in Names(ResultLayout) |-> p[name]]
          /\ AllRead(wire, HeaderFields + Len(ResultLayout))
      BY <2>1, <2>2, PacketRead
    <2>. QED  BY <2>2, <2>3
  <1>. HIDE DEF wire, read
  <1>2. /\ read.commandId = p.commandId /\ read.commandType = p.commandType
        /\ read.resultCode = p.resultCode
    BY <1>1 DEF ResultNames
  <1>3. ResultValid(read)
    BY <1>2 DEF ResultValid
  <1>4. Accepted(p.nodeId, read) = [status |-> "ok", packet |-> p]
    <2>1. DOMAIN read = ResultNames
      BY <1>1
    <2>2. [name \in ResultNames \union {"nodeId"} |->
             IF name = "nodeId" THEN p.nodeId ELSE read[name]] = p
      <3>1. \A name \in ResultNames \union {"nodeId"} :
               (IF name = "nodeId" THEN p["nodeId"] ELSE read[name]) = p[name]
        BY <1>1
      <3>. QED  BY <3>1
    <2>. QED  BY <2>1, <2>2 DEF Accepted
  <1>. QED  BY <1>1, <1>3, <1>4 DEF DecodeCommandResult, wire, read

LEMMA ResultWire ==
  ASSUME NEW p
  PROVE  /\ Len(EncodeCommandResult(p)) = 12 /\ DOMAIN EncodeCommandResult(p) = 1..12
         /\ StartsWith(EncodeCommandResult(p), Header("commandResult", p.nodeId))
  <1>. DEFINE wire == EncodeCommandResult(p)
              id == p.nodeId
  <1>1. IsLayout(ResultLayout) /\ Len(ResultLayout) = 6
    BY ResultLength
  <1>2. IsPacket(wire, "commandResult", id, ResultLayout, p)
    BY DEF EncodeCommandResult, IsPacket
  <1>. HIDE DEF wire, id
  <1>3. /\ Len(wire) = 6 + Len(ResultLayout) /\ DOMAIN wire = 1..6 + Len(ResultLayout)
        /\ StartsWith(wire, Header("commandResult", id))
    <2>1. IsLayout(ResultLayout)
      BY <1>1
    <2>. QED  BY <1>2, <2>1, PacketWire
  <1>4. Len(wire) = 12 /\ DOMAIN wire = 1..12
    BY <1>1, <1>3
  <1>. QED  BY <1>3, <1>4 DEF wire, id

LEMMA ResultRefused ==
  ASSUME NEW wire, Len(wire) \in Nat, DecodeCommandResult(wire).status = "ok"
  PROVE  Len(wire) = 12 /\ wire[3].value = Version /\ NodeIdValid(wire[6].value)
  <1>. DEFINE header == HeaderStatus(wire, "commandResult")
              packet == Read(ResultLayout, wire, HeaderFields + 1)
              readable == Readable(ResultLayout, wire, HeaderFields + 1)
              length == HeaderFields + Len(ResultLayout)
  <1>1. DecodeCommandResult(wire) =
          IF header # "ok" THEN Refused(header)
          ELSE IF ~readable THEN Refused("bufferTooSmall")
          ELSE IF ~ResultValid(packet) THEN Refused("invalidCommand")
          ELSE IF ~AllRead(wire, length) THEN Refused("trailingData")
          ELSE Accepted(wire[6].value, packet)
    BY DEF DecodeCommandResult
  <1>2. \A status : Refused(status).status = status
    BY DEF Refused
  <1>. HIDE DEF header, packet, readable, length
  <1>3. header = "ok" /\ AllRead(wire, length)
    BY <1>1, <1>2
  <1>4. Len(wire) = 12
    BY <1>3, ResultLength DEF AllRead, length, HeaderFields
  <1>5. HeaderStatus(wire, "commandResult") = "ok"
    BY <1>3 DEF header
  <1>. QED  BY <1>4, <1>5, HeaderOk

-----------------------------------------------------------------------------
(* ACK_COMMAND *)

AckFixedNames == {"persistentSessionId", "sequence", "gatewayUnixTime", "timeValid",
                  "commandId", "commandType", "payloadLength"}
AckNames == (AckFixedNames \ {"payloadLength"}) \union {"pollIntervalMinutes", "scheduledMaintenanceUnix"}

LEMMA AckLength ==
  /\ IsLayout(AckFixedLayout) /\ Len(AckFixedLayout) = 7 /\ Names(AckFixedLayout) = AckFixedNames
  /\ Index(AckFixedLayout, "commandType") = 6
  <1>1. DOMAIN AckFixedLayout = 1..7 /\ Len(AckFixedLayout) = 7
    BY DEF AckFixedLayout
  <1>2. Names(AckFixedLayout) = AckFixedNames
    BY DEF Names, AckFixedLayout, AckFixedNames
  <1>3. Index(AckFixedLayout, "commandType") = 6
    BY DEF Index, AckFixedLayout
  <1>. QED  BY <1>1, <1>2, <1>3 DEF IsLayout

LEMMA PayloadLength ==
  ASSUME NEW type \in CommandTypes
  PROVE  /\ IsLayout(PayloadLayout(type)) /\ Len(PayloadLayout(type)) \in 0..1
         /\ Names(PayloadLayout(type)) = CASE type = "setPollIntervalMinutes" -> {"pollIntervalMinutes"}
                                           [] type = "scheduleMaintenanceAt" -> {"scheduledMaintenanceUnix"}
                                           [] OTHER -> {}
  <1>1. CASE type = "setPollIntervalMinutes"
    <2>1. PayloadLayout(type) = << <<"pollIntervalMinutes", 1>> >>
      BY <1>1 DEF PayloadLayout
    <2>. QED  BY <1>1, <2>1 DEF Names, IsLayout
  <1>2. CASE type = "scheduleMaintenanceAt"
    <2>1. PayloadLayout(type) = << <<"scheduledMaintenanceUnix", 4>> >>
      BY <1>2 DEF PayloadLayout
    <2>. QED  BY <1>2, <2>1 DEF Names, IsLayout
  <1>3. CASE type \in {"none", "enterMaintenanceNow"}
    <2>1. PayloadLayout(type) = <<>>
      BY <1>3 DEF PayloadLayout
    <2>. QED  BY <1>3, <2>1 DEF Names, IsLayout
  <1>. QED  BY <1>1, <1>2, <1>3 DEF CommandTypes

\* A packet says nothing in the fields its command does not carry.
AckCanonical(p) ==
  /\ p.commandType # "setPollIntervalMinutes" => p.pollIntervalMinutes = 0
  /\ p.commandType # "scheduleMaintenanceAt" => p.scheduledMaintenanceUnix = NoTime

\* The fixed fields of an encoded packet.
FixedOf(p) ==
  [name \in AckFixedNames |->
     IF name = "payloadLength" THEN CommandPayloadLength(p.commandType) ELSE p[name]]

IsAckPacket(wire, id, p) ==
  wire = (Header("ackCommand", id) \o Written(AckFixedLayout, FixedOf(p)))
         \o Written(PayloadLayout(p.commandType), p)

LEMMA AckEncoded ==
  ASSUME NEW p
  PROVE  IsAckPacket(EncodeAckCommand(p), p.nodeId, p)
  <1>1. \A i \in DOMAIN AckFixedLayout :
          (IF AckFixedLayout[i][1] = "payloadLength"
           THEN Field(1, CommandPayloadLength(p.commandType))
           ELSE Field(AckFixedLayout[i][2], p[AckFixedLayout[i][1]]))
          = Field(AckFixedLayout[i][2], FixedOf(p)[AckFixedLayout[i][1]])
    <2>1. \A i \in 1..7 : AckFixedLayout[i][1] = "payloadLength" => AckFixedLayout[i][2] = 1
      BY DEF AckFixedLayout
    <2>2. ASSUME NEW i \in 1..7
          PROVE  FixedOf(p)[AckFixedLayout[i][1]]
                   = IF AckFixedLayout[i][1] = "payloadLength"
                     THEN CommandPayloadLength(p.commandType) ELSE p[AckFixedLayout[i][1]]
      <3>1. AckFixedLayout[i][1] \in AckFixedNames
        BY DEF AckFixedLayout, AckFixedNames
      <3>. QED  BY <3>1 DEF FixedOf
    <2>3. DOMAIN AckFixedLayout = 1..7
      BY DEF AckFixedLayout
    <2>. QED  BY <2>1, <2>2, <2>3
  <1>2. [i \in DOMAIN AckFixedLayout |->
          IF AckFixedLayout[i][1] = "payloadLength"
           THEN Field(1, CommandPayloadLength(p.commandType))
           ELSE Field(AckFixedLayout[i][2], p[AckFixedLayout[i][1]])]
        = Written(AckFixedLayout, FixedOf(p))
    BY <1>1 DEF Written
  <1>. QED  BY <1>2 DEF EncodeAckCommand, IsAckPacket

LEMMA AckWire ==
  ASSUME NEW id, NEW p, p.commandType \in CommandTypes, NEW wire, IsAckPacket(wire, id, p)
  PROVE  LET payload == PayloadLayout(p.commandType)
         IN  /\ Len(wire) = 13 + Len(payload) /\ DOMAIN wire = 1..13 + Len(payload)
             /\ StartsWith(wire, Header("ackCommand", id))
             /\ Carries(wire, 6, AckFixedLayout, FixedOf(p))
             /\ Carries(wire, 13, payload, p)
  <1>. DEFINE payload == PayloadLayout(p.commandType)
              h == Header("ackCommand", id)
              f == Written(AckFixedLayout, FixedOf(p))
              g == Written(payload, p)
              one == h \o f
              n == Len(payload)
  <1>1. IsLayout(payload) /\ n \in Nat
    BY PayloadLength DEF IsLayout
  <1>2. IsLayout(AckFixedLayout) /\ Len(AckFixedLayout) = 7
    BY AckLength
  <1>3. IsPacket(one, "ackCommand", id, AckFixedLayout, FixedOf(p))
    BY DEF IsPacket
  <1>4. Numbered(f, 7)
    <2>1. Numbered(f, Len(AckFixedLayout))
      BY <1>2, WrittenFields
    <2>. QED  BY <1>2, <2>1
  <1>5. Numbered(g, n) /\ Carries(g, 0, payload, p)
    <2>. HIDE DEF payload
    <2>. QED  BY <1>1, WrittenFields
  <1>6. Numbered(one, 13) /\ Len(one) = 13 /\ StartsWith(one, h) /\ Carries(one, 6, AckFixedLayout, FixedOf(p))
    <2>1. Numbered(h \o f, 6 + 7) /\ Len(h \o f) = 6 + 7
      <3>. DEFINE m == 7
      <3>1. Numbered(f, m) /\ m \in Nat
        BY <1>4
      <3>. HIDE DEF f, m
      <3>2. Numbered(h \o f, 6 + m) /\ Len(h \o f) = 6 + m
        BY <3>1, Laid
      <3>. QED  BY <3>2 DEF m
    <2>2. StartsWith(one, h) /\ Carries(one, 6, AckFixedLayout, FixedOf(p))
      <3>1. IsLayout(AckFixedLayout)
        BY <1>2
      <3>. HIDE DEF one
      <3>. QED  BY <1>3, <3>1, PacketWire
    <2>. QED  BY <2>1, <2>2
  <1>7. wire = one \o g
    BY DEF IsAckPacket
  <1>. HIDE DEF one, f, g, h, payload, n
  <1>8. /\ Len(one \o g) = 13 + n /\ DOMAIN (one \o g) = 1..13 + n
        /\ \A i \in 1..13 : (one \o g)[i] = one[i]
        /\ Follow(one \o g, 13, g, n)
    <2>. DEFINE m == 13
    <2>1. Numbered(one, m) /\ m \in Nat
      BY <1>6
    <2>. HIDE DEF m
    <2>2. /\ Len(one \o g) = m + n /\ DOMAIN (one \o g) = 1..m + n
          /\ \A i \in 1..m : (one \o g)[i] = one[i]
          /\ Follow(one \o g, m, g, n)
      BY <1>1, <1>5, <2>1, Prolonged
    <2>. QED  BY <2>2 DEF m
  <1>9. \A i \in 1..13 : wire[i] = one[i]
    BY <1>7, <1>8
  <1>10. StartsWith(wire, h)
    <2>1. \A i \in 1..6 : i \in 1..13
      OBVIOUS
    <2>. QED  BY <1>6, <1>9, <2>1 DEF StartsWith
  <1>11. Carries(wire, 6, AckFixedLayout, FixedOf(p))
    <2>1. \A i \in 1..Len(AckFixedLayout) : wire[6 + i] = one[6 + i]
      <3>1. \A i \in 1..7 : 6 + i \in 1..13
        OBVIOUS
      <3>. QED  BY <1>2, <1>9, <3>1
    <2>. QED  BY <1>6, <2>1 DEF Carries
  <1>12. Carries(wire, 13, payload, p)
    <2>1. Follow(wire, 13, g, Len(payload))
      BY <1>7, <1>8 DEF n
    <2>2. 13 \in Nat
      OBVIOUS
    <2>. QED  BY <1>1, <1>5, <2>1, <2>2, CarriedAlong
  <1>. QED  BY <1>7, <1>8, <1>10, <1>11, <1>12 DEF h, payload, n

\* What the node decodes of an answer is what the gateway encoded, with the
\* payload its command type has and the other one's fields at their defaults
\* (protocol.cpp:237-284).
THEOREM AckRoundTrip ==
  ASSUME NEW p, p = [name \in AckNames \union {"nodeId"} |-> p[name]],
         NodeIdValid(p.nodeId), p.timeValid \in BOOLEAN, p.commandType \in CommandTypes,
         AckCommandValid(p), AckCanonical(p)
  PROVE  DecodeAckCommand(EncodeAckCommand(p)) = [status |-> "ok", packet |-> p]
  <1>. DEFINE wire == EncodeAckCommand(p)
              id == p.nodeId
              type == p.commandType
              start == HeaderFields + 1
              fixed == Read(AckFixedLayout, wire, start)
              after == start + Len(AckFixedLayout)
              payload == PayloadLayout(fixed.commandType)
              carried == Read(payload, wire, after)
              packet == [name \in (DOMAIN fixed \ {"payloadLength"}) \union DOMAIN AckDefaults |->
                           IF name \in DOMAIN carried THEN carried[name]
                           ELSE IF name \in DOMAIN fixed THEN fixed[name]
                           ELSE AckDefaults[name]]
  <1>1. IsAckPacket(wire, id, p)
    BY AckEncoded
  <1>2. start = 7 /\ after = 14 /\ after - 1 = 13
    BY AckLength DEF HeaderFields
  <1>3. /\ Len(wire) = 13 + Len(PayloadLayout(type)) /\ StartsWith(wire, Header("ackCommand", id))
        /\ Carries(wire, 6, AckFixedLayout, FixedOf(p))
        /\ Carries(wire, 13, PayloadLayout(type), p)
    <2>. HIDE DEF wire, id
    <2>. QED  BY <1>1, AckWire
  <1>4. IsLayout(PayloadLayout(type)) /\ Len(PayloadLayout(type)) \in Nat
    BY PayloadLength DEF IsLayout
  <1>5. IsLayout(AckFixedLayout)
    BY AckLength
  <1>6. Len(wire) \in Nat /\ Len(wire) >= 6 /\ Len(wire) >= 6 + 7 /\ Len(wire) >= 13 + Len(PayloadLayout(type))
    <2>. HIDE DEF wire, type
    <2>. QED  BY <1>3, <1>4
  <1>7. HeaderStatus(wire, "ackCommand") = "ok" /\ wire[6].value = id
    <2>1. NodeIdValid(id)
      OBVIOUS
    <2>. HIDE DEF wire, id, type
    <2>. QED  BY <1>3, <1>6, <2>1, HeaderAccepted
  <1>8. fixed = [name \in AckFixedNames |-> FixedOf(p)[name]] /\ Readable(AckFixedLayout, wire, start)
    <2>. DEFINE six == 6
                value == FixedOf(p)
    <2>1. six \in Nat /\ start = six + 1 /\ Carries(wire, six, AckFixedLayout, value)
      BY <1>2, <1>3
    <2>2. Len(wire) >= six + Len(AckFixedLayout)
      BY <1>6, AckLength
    <2>. HIDE DEF six, wire, start, value
    <2>3. Read(AckFixedLayout, wire, start) = [name \in Names(AckFixedLayout) |-> value[name]]
      BY <1>5, <2>1, ReadsBack
    <2>4. Readable(AckFixedLayout, wire, start)
      BY <1>5, <1>6, <2>1, <2>2, ReadableFields
    <2>5. Names(AckFixedLayout) = AckFixedNames
      BY AckLength
    <2>. QED  BY <2>3, <2>4, <2>5 DEF value
  <1>9. fixed = FixedOf(p)
    <2>. HIDE DEF fixed
    <2>. QED  BY <1>8 DEF FixedOf
  <1>10. /\ fixed.timeValid = p.timeValid /\ fixed.commandType = type
         /\ fixed.payloadLength = CommandPayloadLength(type) /\ DOMAIN fixed = AckFixedNames
    <2>. HIDE DEF fixed
    <2>. QED  BY <1>9 DEF FixedOf, AckFixedNames
  <1>11. payload = PayloadLayout(type)
    BY <1>10
  <1>12. carried = [name \in Names(payload) |-> p[name]] /\ Readable(payload, wire, after)
    <2>. DEFINE m == 13
    <2>1. m \in Nat /\ after = m + 1 /\ Carries(wire, m, payload, p) /\ Len(wire) >= m + Len(payload)
      <3>. HIDE DEF wire, payload, type, after
      <3>. QED  BY <1>2, <1>3, <1>6, <1>11
    <2>2. IsLayout(payload)
      BY <1>4, <1>11
    <2>. HIDE DEF m, wire, payload, after
    <2>3. Read(payload, wire, after) = [name \in Names(payload) |-> p[name]]
      <3>. DEFINE value == p
      <3>1. m \in Nat /\ after = m + 1
        BY <2>1
      <3>2. Carries(wire, m, payload, value)
        BY <2>1
      <3>. HIDE DEF value
      <3>3. Read(payload, wire, after) = [name \in Names(payload) |-> value[name]]
        BY <2>2, <3>1, <3>2, ReadsBack
      <3>. QED  BY <3>3 DEF value
    <2>4. Readable(payload, wire, after)
      BY <1>6, <2>1, <2>2, ReadableFields
    <2>. QED  BY <2>3, <2>4
  <1>13. AllRead(wire, after - 1 + Len(payload))
    <2>. HIDE DEF wire, payload, after, type
    <2>. QED  BY <1>2, <1>3, <1>11 DEF AllRead
  <1>14. packet = [name \in AckNames |-> p[name]]
    <2>1. /\ AckDefaults["pollIntervalMinutes"] = 0 /\ AckDefaults["scheduledMaintenanceUnix"] = NoTime
          /\ DOMAIN AckDefaults = {"pollIntervalMinutes", "scheduledMaintenanceUnix"}
      BY DEF AckDefaults
    <2>2. DOMAIN carried = Names(payload) /\ \A name \in Names(payload) : carried[name] = p[name]
      <3>. HIDE DEF carried, payload
      <3>. QED  BY <1>12
    <2>3. \A name \in AckFixedNames \ {"payloadLength"} : fixed[name] = p[name]
      <3>. HIDE DEF fixed
      <3>. QED  BY <1>9 DEF FixedOf
    <2>4. /\ type = "setPollIntervalMinutes" <=> "pollIntervalMinutes" \in Names(payload)
          /\ type = "scheduleMaintenanceAt" <=> "scheduledMaintenanceUnix" \in Names(payload)
      <3>. HIDE DEF payload, type
      <3>1. type \in CommandTypes
        BY DEF type
      <3>2. Names(payload) = CASE type = "setPollIntervalMinutes" -> {"pollIntervalMinutes"}
                                [] type = "scheduleMaintenanceAt" -> {"scheduledMaintenanceUnix"}
                                [] OTHER -> {}
        BY <1>11, <3>1, PayloadLength
      <3>. QED  BY <3>1, <3>2 DEF CommandTypes
    <2>5. /\ type # "setPollIntervalMinutes" => p["pollIntervalMinutes"] = 0
          /\ type # "scheduleMaintenanceAt" => p["scheduledMaintenanceUnix"] = NoTime
      BY DEF AckCanonical
    <2>6. (DOMAIN fixed \ {"payloadLength"}) \union DOMAIN AckDefaults = AckNames
      <3>. HIDE DEF fixed
      <3>. QED  BY <1>10, <2>1 DEF AckNames
    <2>7. "pollIntervalMinutes" \notin AckFixedNames /\ "scheduledMaintenanceUnix" \notin AckFixedNames
      BY DEF AckFixedNames
    <2>8. DOMAIN fixed = AckFixedNames
      BY <1>10
    <2>. HIDE DEF fixed, carried, payload, type, packet
    <2>9. ASSUME NEW name \in AckNames
          PROVE  (IF name \in DOMAIN carried THEN carried[name]
                  ELSE IF name \in DOMAIN fixed THEN fixed[name]
                  ELSE AckDefaults[name]) = p[name]
      <3>1. CASE name = "pollIntervalMinutes"
        BY <2>1, <2>2, <2>4, <2>5, <2>7, <2>8, <3>1
      <3>2. CASE name = "scheduledMaintenanceUnix"
        BY <2>1, <2>2, <2>4, <2>5, <2>7, <2>8, <3>2
      <3>3. CASE name \in AckFixedNames \ {"payloadLength"}
        BY <2>2, <2>3, <2>8, <3>3
      <3>. QED  BY <3>1, <3>2, <3>3 DEF AckNames
    <2>. QED  BY <2>6, <2>9 DEF packet
  <1>15. AckCommandValid(packet)
    <2>. HIDE DEF packet
    <2>1. /\ packet.timeValid = p.timeValid /\ packet.gatewayUnixTime = p.gatewayUnixTime
          /\ packet.commandType = p.commandType /\ packet.commandId = p.commandId
          /\ packet.pollIntervalMinutes = p.pollIntervalMinutes
          /\ packet.scheduledMaintenanceUnix = p.scheduledMaintenanceUnix
      BY <1>14 DEF AckNames, AckFixedNames
    <2>. QED  BY <2>1 DEF AckCommandValid
  <1>16. Accepted(id, packet) = [status |-> "ok", packet |-> p]
    <2>. HIDE DEF packet
    <2>1. DOMAIN packet = AckNames
      BY <1>14
    <2>2. [name \in AckNames \union {"nodeId"} |->
             IF name = "nodeId" THEN p.nodeId ELSE packet[name]] = p
      <3>1. \A name \in AckNames \union {"nodeId"} :
               (IF name = "nodeId" THEN p["nodeId"] ELSE packet[name]) = p[name]
        BY <1>14
      <3>. QED  BY <3>1
    <2>. QED  BY <2>1, <2>2 DEF Accepted
  <1>17. fixed.timeValid \in BOOLEAN /\ fixed.commandType \in CommandTypes
         /\ fixed.payloadLength = CommandPayloadLength(fixed.commandType)
    <2>. HIDE DEF fixed
    <2>. QED  BY <1>10
  <1>18. DecodeAckCommand(wire) =
           IF HeaderStatus(wire, "ackCommand") # "ok" THEN Refused(HeaderStatus(wire, "ackCommand"))
           ELSE IF ~Readable(AckFixedLayout, wire, start) THEN Refused("bufferTooSmall")
           ELSE IF fixed.timeValid \notin BOOLEAN THEN Refused("invalidFlags")
           ELSE IF \/ fixed.commandType \notin CommandTypes
                   \/ fixed.payloadLength # CommandPayloadLength(fixed.commandType)
                THEN Refused("invalidCommand")
           ELSE IF ~Readable(payload, wire, after) THEN Refused("bufferTooSmall")
           ELSE IF ~AckCommandValid(packet) THEN Refused("invalidCommand")
           ELSE IF ~AllRead(wire, after - 1 + Len(payload)) THEN Refused("trailingData")
           ELSE Accepted(wire[6].value, packet)
    BY DEF DecodeAckCommand
  <1>. SUFFICES DecodeAckCommand(wire) = [status |-> "ok", packet |-> p]
    OBVIOUS
  <1>. HIDE DEF wire, id, start, fixed, after, payload, carried, packet
  <1>. QED  BY <1>7, <1>8, <1>12, <1>13, <1>15, <1>16, <1>17, <1>18

LEMMA CommandTypeField ==
  ASSUME NEW wire
  PROVE  Read(AckFixedLayout, wire, HeaderFields + 1).commandType = wire[12].value
  <1>1. "commandType" \in Names(AckFixedLayout)
    BY AckLength DEF AckFixedNames
  <1>2. Index(AckFixedLayout, "commandType") = 6
    <2>1. 6 \in DOMAIN AckFixedLayout /\ AckFixedLayout[6][1] = "commandType"
      BY DEF AckFixedLayout
    <2>2. \A i \in DOMAIN AckFixedLayout : AckFixedLayout[i][1] = "commandType" => i = 6
      BY DEF AckFixedLayout
    <2>. QED  BY <2>1, <2>2 DEF Index
  <1>. DEFINE index == Index(AckFixedLayout, "commandType")
              first == HeaderFields + 1
  <1>3. first = 7
    BY DEF HeaderFields
  <1>4. first - 1 + index = 12
    <2>1. index = 6
      BY <1>2
    <2>. HIDE DEF index, first
    <2>. QED  BY <1>3, <2>1
  <1>. HIDE DEF index, first
  <1>5. [name \in Names(AckFixedLayout) |-> wire[first - 1 + Index(AckFixedLayout, name)].value]["commandType"]
          = wire[first - 1 + index].value
    BY <1>1, Zenon DEF index
  <1>6. Read(AckFixedLayout, wire, first)["commandType"] = wire[12].value
    BY <1>4, <1>5 DEF Read
  <1>. QED  BY <1>6 DEF first

\* What an answer accepted by the node cannot lack.
LEMMA AckRefused ==
  ASSUME NEW wire, Len(wire) \in Nat, DecodeAckCommand(wire).status = "ok"
  PROVE  /\ Len(wire) = 13 + Len(PayloadLayout(wire[12].value))
         /\ wire[3].value = Version /\ NodeIdValid(wire[6].value)
  <1>. DEFINE header == HeaderStatus(wire, "ackCommand")
              start == HeaderFields + 1
              fixed == Read(AckFixedLayout, wire, start)
              payload == PayloadLayout(fixed.commandType)
              after == start + Len(AckFixedLayout)
              carried == Read(payload, wire, after)
              packet == [name \in (DOMAIN fixed \ {"payloadLength"}) \union DOMAIN AckDefaults |->
                           IF name \in DOMAIN carried THEN carried[name]
                           ELSE IF name \in DOMAIN fixed THEN fixed[name]
                           ELSE AckDefaults[name]]
              typed == fixed.timeValid \notin BOOLEAN
              unknown == \/ fixed.commandType \notin CommandTypes
                         \/ fixed.payloadLength # CommandPayloadLength(fixed.commandType)
              length == after - 1 + Len(payload)
  <1>1. DecodeAckCommand(wire) =
           IF header # "ok" THEN Refused(header)
           ELSE IF ~Readable(AckFixedLayout, wire, start) THEN Refused("bufferTooSmall")
           ELSE IF typed THEN Refused("invalidFlags")
           ELSE IF unknown THEN Refused("invalidCommand")
           ELSE IF ~Readable(payload, wire, after) THEN Refused("bufferTooSmall")
           ELSE IF ~AckCommandValid(packet) THEN Refused("invalidCommand")
           ELSE IF ~AllRead(wire, length) THEN Refused("trailingData")
           ELSE Accepted(wire[6].value, packet)
    BY DEF DecodeAckCommand
  <1>2. \A status : Refused(status).status = status
    BY DEF Refused
  <1>3. fixed.commandType = wire[12].value
    BY CommandTypeField
  <1>4. after = 14
    BY AckLength DEF HeaderFields
  <1>. HIDE DEF header, packet, carried, start, fixed, after, payload, typed, unknown, length
  <1>5. header = "ok" /\ AllRead(wire, length)
    BY <1>1, <1>2
  <1>6. Len(wire) = after - 1 + Len(payload)
    BY <1>5 DEF AllRead, length
  <1>7. payload = PayloadLayout(wire[12].value)
    BY <1>3 DEF payload
  <1>8. Len(wire) = 13 + Len(PayloadLayout(wire[12].value))
    BY <1>4, <1>6, <1>7
  <1>9. HeaderStatus(wire, "ackCommand") = "ok"
    BY <1>5 DEF header
  <1>. QED  BY <1>8, <1>9, HeaderOk

LEMMA AckNumbered ==
  ASSUME NEW id, NEW p, p.commandType \in CommandTypes, NEW wire, IsAckPacket(wire, id, p)
  PROVE  Numbered(wire, 13 + Len(PayloadLayout(p.commandType)))
  <1>. DEFINE payload == PayloadLayout(p.commandType)
              f == Written(AckFixedLayout, FixedOf(p))
              g == Written(payload, p)
              one == Header("ackCommand", id) \o f
              m == 13
              n == Len(payload)
  <1>1. IsLayout(payload) /\ n \in Nat
    BY PayloadLength DEF IsLayout
  <1>2. Numbered(g, n)
    <2>. HIDE DEF payload
    <2>. QED  BY <1>1, WrittenFields DEF n
  <1>3. Numbered(one, m) /\ m \in Nat
    <2>1. IsLayout(AckFixedLayout) /\ Len(AckFixedLayout) = 7
      BY AckLength
    <2>2. Numbered(f, 7)
      BY <2>1, WrittenFields
    <2>. DEFINE seven == 7
    <2>3. seven \in Nat /\ Numbered(f, seven)
      BY <2>2
    <2>. HIDE DEF f, seven
    <2>4. Numbered(Header("ackCommand", id) \o f, 6 + seven)
      BY <2>3, Laid
    <2>. QED  BY <2>4 DEF seven
  <1>4. wire = one \o g
    BY DEF IsAckPacket
  <1>. HIDE DEF one, g, m, n
  <1>5. Numbered(one \o g, m + n)
    BY <1>1, <1>2, <1>3, ProlongedNumbered
  <1>. QED  BY <1>4, <1>5 DEF m, n
=============================================================================
