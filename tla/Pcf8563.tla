------------------------------ MODULE Pcf8563 ------------------------------
(***************************************************************************)
(* The register file of the PCF8563 real-time clock as the firmware drives *)
(* it (lib/rtc/pcf8563.cpp).  The chip keeps running on its own supply:    *)
(* its open-drain INT output holds the gate of the battery switch, so the  *)
(* registers below decide whether the ESP32-C3 has power at all.           *)
(*                                                                         *)
(* A chip is a record:                                                     *)
(*   flags    which of TF and AF of Control_status_2 are set               *)
(*   enabled  which of them assert INT (TIE, AIE); always level mode       *)
(*   timer    "off", "64Hz" or "minute": Timer_control with its source     *)
(*   count    the countdown register                                       *)
(*   reload   the value last written, reloaded when the count runs out     *)
(*   alarm    the minute the enabled alarm registers match, or NoAlarm     *)
(* Time is counted in whole minutes, the resolution of both wake sources.  *)
(* BCD, the calendar and the monthly repetition of an alarm are left out.  *)
(***************************************************************************)
EXTENDS Integers

CONSTANTS
  PollChoices,   \* poll intervals in minutes a configuration may hold
  Targets        \* minutes at which a maintenance may be scheduled

ASSUME PollChoicesAssumption == PollChoices \subseteq 1..255
ASSUME TargetsAssumption == Targets \subseteq Nat \ {0}

Flags == {"TF", "AF"}

NoAlarm == 0

LatchCount == 8   \* the 64 Hz count of the manual latch, 125 ms

Chip == [flags : SUBSET Flags, enabled : SUBSET Flags,
         timer : {"off", "64Hz", "minute"}, count : 0..255, reload : 0..255,
         alarm : Targets \union {NoAlarm}]

\* The state of a chip nobody has programmed yet.
ResetChip == [flags |-> {}, enabled |-> {}, timer |-> "off", count |-> 0,
              reload |-> 0, alarm |-> NoAlarm]

\* INT is asserted: the chip itself keeps the node powered.
IntLow(c) == c.flags \intersect c.enabled # {}

\* The countdown will assert INT by itself within reload minutes.
MinuteTimerArmed(c) ==
  c.timer = "minute" /\ "TF" \in c.enabled /\ c.count >= 1 /\ c.reload >= 1

AlarmArmedFor(c, target) == c.alarm = target /\ "AF" \in c.enabled

(***************************************************************************)
(* Multi-register writes.  Each I2C write can fail, so an operation is     *)
(* given the number of writes that took effect; the last of them makes it  *)
(* complete.  All of them keep TF and AF: the firmware writes those bits   *)
(* as 1, which the chip ANDs.                                              *)
(***************************************************************************)
TimerWrites == 4   \* disable, value, Control_status_2, enable
AlarmWrites == 2   \* the four alarm registers in one burst, Control_status_2

ConfigureTimer(c, source, value, writes) ==
  CASE writes = 0 -> c
    [] writes = 1 -> [c EXCEPT !.timer = "off"]
    [] writes = 2 -> [c EXCEPT !.timer = "off", !.count = value, !.reload = value]
    [] writes = 3 -> [c EXCEPT !.timer = "off", !.count = value, !.reload = value,
                               !.enabled = @ \union {"TF"}]
    [] writes = 4 -> [c EXCEPT !.timer = source, !.count = value, !.reload = value,
                               !.enabled = @ \union {"TF"}]

\* Defect: the enabling write does not preserve AF.
ConfigureAlarmClearsFlag(c, target, writes) ==
  [c EXCEPT !.alarm   = IF writes >= 1 THEN target ELSE @,
            !.enabled = IF writes = AlarmWrites THEN @ \union {"AF"} ELSE @,
            !.flags   = IF writes = AlarmWrites THEN @ \ {"AF"} ELSE @]

ConfigureAlarm(c, target, writes) ==
  [c EXCEPT !.alarm   = IF writes >= 1 THEN target ELSE @,
            !.enabled = IF writes = AlarmWrites THEN @ \union {"AF"} ELSE @]

DisableAlarm(c, writes) ==
  [c EXCEPT !.alarm   = IF writes >= 1 THEN NoAlarm ELSE @,
            !.enabled = IF writes = AlarmWrites THEN @ \ {"AF"} ELSE @]

\* Defects: TIE or AIE is not carried over, or flags are cleared unseen.
ReleaseLosesTimerEnable(c, cleared, disableAlarmInterrupt) ==
  [c EXCEPT !.flags = @ \ cleared, !.enabled = @ \ {"TF"}]

ReleaseLosesAlarmEnable(c, cleared, disableAlarmInterrupt) ==
  [c EXCEPT !.flags = @ \ cleared, !.enabled = @ \ {"AF"}]

ReleaseClearsAllFlags(c, cleared, disableAlarmInterrupt) ==
  [c EXCEPT !.flags = {},
            !.enabled = IF disableAlarmInterrupt THEN @ \ {"AF"} ELSE @]

\* The single Control_status_2 write that gives up the power latch.
ReleaseInterruptFlags(c, cleared, disableAlarmInterrupt) ==
  [c EXCEPT !.flags = @ \ cleared,
            !.enabled = IF disableAlarmInterrupt THEN @ \ {"AF"} ELSE @]

(***************************************************************************)
(* What the chip does by itself.                                           *)
(***************************************************************************)
CountExpires(c) == c.timer = "minute" /\ c.count <= 1

\* The flags that are set when a minute passes and the clock shows minute t.
FlagsRaised(c, t) ==
  {f \in Flags : (f = "TF" /\ CountExpires(c)) \/ (f = "AF" /\ c.alarm = t)}

MinuteElapsed(c, t) ==
  [c EXCEPT !.flags = @ \union FlagsRaised(c, t),
            !.count = IF c.timer # "minute" THEN @
                      ELSE IF CountExpires(c) THEN c.reload ELSE @ - 1]

\* The 64 Hz countdown of the manual latch runs out.
FastTimerElapsed(c) == [c EXCEPT !.flags = @ \union {"TF"}]

=============================================================================
