----------------------------- MODULE EchoCapture -----------------------------
(***************************************************************************)
(* One burst of the ultrasonic sensor: Srf05Driver::measure in the loop    *)
(* task, its interrupt handler, and SensorSuite::readSonarBurst around     *)
(* them (lib/srf05/srf05_driver.cpp, lib/sensors/sensor_suite.cpp).  The   *)
(* handler stamps the edges of the echo pin; task and handler share the    *)
(* stamps, the flag that a capture is on, and a task notification.         *)
(*                                                                         *)
(* A pulse is named by the ping whose trigger caused it, and a stamp by    *)
(* the pulse whose edge it was taken on.  Simplifications:                 *)
(* - a stamp is either right or on a wrong pulse: how late the handler     *)
(*   runs is not measured, only which edges it then still sees;            *)
(* - a pulse is "good", or "bad" for any of the lengths that are refused   *)
(*   (kMinimumEchoUs, kMaximumEchoUs, the installation limits);            *)
(* - the edge counters, which only the log shows, are left out.            *)
(***************************************************************************)
EXTENDS Integers

CONSTANTS
  Pings,         \* sonarBurstCount
  MinimumValid   \* sonarMinimumValid

ASSUME BurstAssumption == Pings \in Nat \ {0} /\ MinimumValid \in 1..Pings

VARIABLES
  task,       \* where the loop task is in measure(), "idle" between pings
  ping,       \* the ping the burst is at; 0 before the first
  capture,    \* captureActive_ and the stamps riseUs_, fallUs_; No if not taken
  notified,   \* the notification value of the task is not zero
  line,       \* the echo pin: its level, and a latched edge not yet handled
  sensor,     \* what the sensor does: "quiet", "triggered" or "echoing"
  pulse,      \* the last pulse of the sensor: its ping, and its length
  sample,     \* the last EchoSample: its status, and the stamps it is made of
  valid       \* validSamples of the burst

echoVars == <<task, ping, capture, notified, line, sensor, pulse, sample, valid>>

-----------------------------------------------------------------------------
(* Types *)

No == 0

Lengths == {"good", "bad"}

Timed == {"ok", "rejected"}      \* both edges were stamped
Untimed == {"echoHighBeforeTrigger", "noRisingEdge", "noFallingEdge"}

NoSample == [status |-> "none", rise |-> No, fall |-> No, expired |-> FALSE]
Cleared == [active |-> FALSE, rise |-> No, fall |-> No]
Still == [level |-> "low", edge |-> FALSE]

EchoTypeOK ==
  /\ task \in {"idle", "armed", "waiting", "woken", "expired"}
  /\ ping \in 0..Pings /\ valid \in 0..Pings
  /\ capture \in [active : BOOLEAN, rise : 0..Pings, fall : 0..Pings]
  /\ notified \in BOOLEAN
  /\ line \in [level : {"low", "high"}, edge : BOOLEAN]
  /\ sensor \in {"quiet", "triggered", "echoing"}
  /\ pulse \in [of : 0..Pings, length : Lengths]
  /\ sample \in [status : Timed \union Untimed \union {"none"},
                 rise : 0..Pings, fall : 0..Pings, expired : BOOLEAN]

EchoInit ==
  /\ task = "idle" /\ ping = 0 /\ valid = 0
  /\ capture = Cleared /\ notified = FALSE
  /\ line = Still /\ sensor = "quiet" /\ pulse = [of |-> No, length |-> "bad"]
  /\ sample = NoSample

\* The rail is switched off, and on again: the burst starts from nothing.
EchoReset ==
  /\ task' = "idle" /\ ping' = 0 /\ valid' = 0
  /\ capture' = Cleared /\ notified' = FALSE
  /\ line' = Still /\ sensor' = "quiet" /\ pulse' = [of |-> No, length |-> "bad"]
  /\ sample' = NoSample

BurstOver == task = "idle" /\ ping = Pings

\* readSonarBurst: below the minimum the burst has no distance.
BurstValid == valid >= MinimumValid

-----------------------------------------------------------------------------
(* The loop task *)

\* Defect: the stamps of the ping before are not forgotten.
StampsKept(c) == [c EXCEPT !.active = FALSE]

\* resetCapture
Forgotten(c) == Cleared

\* Defect: a notification that came too late is left for the next ping.
NotDrained(n) == n

\* ulTaskNotifyTake(pdTRUE, 0)
Drained(n) == FALSE

\* The ping ends with this status.
Sampled(status, expired) ==
  /\ sample' = [status |-> status, rise |-> capture.rise, fall |-> capture.fall,
                expired |-> expired]
  /\ valid' = IF status = "ok" THEN valid + 1 ELSE valid
  /\ task' = "idle"

\* measure up to the capture being on: the pin must be low by then.
StartPing ==
  /\ task = "idle" /\ ping < Pings
  /\ ping' = ping + 1
  /\ notified' = Drained(notified)
  /\ IF line.level = "high"
     THEN /\ capture' = Forgotten(capture)
          /\ sample' = [NoSample EXCEPT !.status = "echoHighBeforeTrigger"]
          /\ UNCHANGED task
     ELSE /\ capture' = [Forgotten(capture) EXCEPT !.active = TRUE]
          /\ task' = "armed"
          /\ sample' = NoSample
  /\ UNCHANGED <<line, sensor, pulse, valid>>

\* The trigger pulse; the sensor answers it within the timeout or not at all.
Trigger ==
  /\ task = "armed"
  /\ task' = "waiting"
  /\ sensor' \in {"quiet", "triggered"}
  /\ UNCHANGED <<ping, capture, notified, line, pulse, sample, valid>>

\* ulTaskNotifyTake returns with the notification ...
WaitNotified ==
  /\ task = "waiting" /\ notified
  /\ task' = "woken"
  /\ notified' = FALSE
  /\ UNCHANGED <<ping, capture, line, sensor, pulse, sample, valid>>

\* ... or after the timeout, with the capture still on.
WaitExpires ==
  /\ task = "waiting" /\ ~notified /\ sensor # "triggered"
  /\ task' = "expired"
  /\ UNCHANGED <<ping, capture, notified, line, sensor, pulse, sample, valid>>

\* The status of a ping whose wait was ended by a notification.
StatusWhenNotified(c, length) ==
  CASE c.rise = No -> "noRisingEdge"
    [] c.rise # No /\ c.fall = No -> "noFallingEdge"
    [] c.rise # No /\ c.fall # No -> IF length = "good" THEN "ok" ELSE "rejected"

FinishNotified ==
  /\ task = "woken"
  /\ capture' = [capture EXCEPT !.active = FALSE]
  /\ Sampled(StatusWhenNotified(capture, pulse.length), FALSE)
  /\ UNCHANGED <<ping, notified, line, sensor, pulse>>

FinishExpired ==
  /\ task = "expired"
  /\ capture' = [capture EXCEPT !.active = FALSE]
  /\ Sampled(IF capture.rise # No THEN "noFallingEdge" ELSE "noRisingEdge", TRUE)
  /\ UNCHANGED <<ping, notified, line, sensor, pulse>>

-----------------------------------------------------------------------------
(* The interrupt handler, for one or several edges since it last ran *)

EdgeIgnored ==
  /\ line.edge
  /\ \/ ~capture.active
     \/ line.level = "high" /\ capture.rise # No
     \/ line.level = "low" /\ (capture.rise = No \/ capture.fall # No)
  /\ line' = [line EXCEPT !.edge = FALSE]
  /\ UNCHANGED <<task, ping, capture, notified, sensor, pulse, sample, valid>>

RiseStamped ==
  /\ line.edge /\ capture.active /\ line.level = "high" /\ capture.rise = No
  /\ capture' = [capture EXCEPT !.rise = pulse.of]
  /\ line' = [line EXCEPT !.edge = FALSE]
  /\ UNCHANGED <<task, ping, notified, sensor, pulse, sample, valid>>

FallStamped ==
  /\ line.edge /\ capture.active /\ line.level = "low"
  /\ capture.rise # No /\ capture.fall = No
  /\ capture' = [capture EXCEPT !.fall = pulse.of, !.active = FALSE]
  /\ notified' = TRUE
  /\ line' = [line EXCEPT !.edge = FALSE]
  /\ UNCHANGED <<task, ping, sensor, pulse, sample, valid>>

-----------------------------------------------------------------------------
(* The sensor: its pulse may outlast the wait, and the next ping *)

EchoRises ==
  /\ sensor = "triggered"
  /\ sensor' = "echoing"
  /\ line' = [level |-> "high", edge |-> TRUE]
  /\ \E length \in Lengths : pulse' = [of |-> ping, length |-> length]
  /\ UNCHANGED <<task, ping, capture, notified, sample, valid>>

EchoFalls ==
  /\ sensor = "echoing"
  /\ sensor' = "quiet"
  /\ line' = [level |-> "low", edge |-> TRUE]
  /\ UNCHANGED <<task, ping, capture, notified, pulse, sample, valid>>

Burst ==
  \/ StartPing \/ Trigger \/ WaitNotified \/ WaitExpires
  \/ FinishNotified \/ FinishExpired
  \/ EdgeIgnored \/ RiseStamped \/ FallStamped
  \/ EchoRises \/ EchoFalls

-----------------------------------------------------------------------------
(* Properties *)

\* A ping is only timed on the two edges of the pulse it triggered itself, and
\* is only given up for a missing edge when its whole wait has passed.
PingTimesItsEcho ==
  /\ sample.status \in Timed => sample.rise = ping /\ sample.fall = ping
  /\ sample.status \in {"noRisingEdge", "noFallingEdge"} => sample.expired

(* The inductive invariant it follows from *)

\* The pin is high while the sensor echoes; a sensor that is still to answer makes
\* the task wait; a burst has at most one valid sample per finished ping.
LineHeld ==
  /\ line.level = "high" <=> sensor = "echoing"
  /\ sensor = "triggered" => task = "waiting" /\ capture.rise = No
  /\ task = "armed" => sensor = "quiet" /\ capture.rise = No
  /\ valid <= ping /\ (task # "idle" => valid < ping)

\* A stamp that is taken, and a pulse that a capture can still see, are those of
\* the present ping; the notification comes with the second stamp.
CaptureHeld ==
  /\ capture.rise # No => capture.rise = ping /\ pulse.of = ping
  /\ capture.fall # No => capture.fall = ping /\ capture.rise = ping
  /\ capture.active /\ line.level = "high" => pulse.of = ping
  /\ notified \/ task = "woken" => capture.fall # No

EchoInv == EchoTypeOK /\ LineHeld /\ CaptureHeld /\ PingTimesItsEcho

=============================================================================
