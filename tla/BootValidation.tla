--------------------------- MODULE BootValidation ---------------------------
(***************************************************************************)
(* The configuration store with its legacy migration                       *)
(* (lib/config_storage/config_store.cpp, legacy_config_migration.cpp), the *)
(* portal's change of configuration (lib/app/node_app.cpp:814-836) and the *)
(* validation of an uploaded image at its first boot                       *)
(* (lib/ota/ota_manager.cpp).                                              *)
(*                                                                         *)
(* A configuration is stored as two values of the namespace nvs_v2/gathra, *)
(* "config" and "checksum", put one after the other.  A boot loads them,   *)
(* or else migrates the read-only legacy copy, or else stores defaults; an *)
(* image that boots for the first time is kept only if that worked.        *)
(*                                                                         *)
(* Simplifications:                                                        *)
(* - a configuration keeps three of its fields: one that the migration     *)
(*   converts, one that it clamps and one that the radio has to follow;    *)
(* - the checksum is the stored value it was computed from: collisions are *)
(*   left out;                                                             *)
(* - a put stores its value and says so, or fails and leaves the old one;  *)
(* - images differ in sizeof(NodeConfig), the check that tells two         *)
(*   firmware versions apart, and in whether they reach their validation.  *)
(***************************************************************************)
EXTENDS Integers

CONSTANTS
  Polls, Windows, Radios, \* field values the operator may send
  LegacyLengths,          \* lengths of the legacy copy; 1 is the v1 layout
  LegacyIntervals,        \* its interval: seconds in the v1 layout, else minutes
  LegacyWindows,          \* its maintenanceTimeoutSec
  DefaultRadio,           \* the radio settings of NodeConfig{}
  UnsupportedRadio,       \* some that validateConfig refuses
  Layouts,                \* values of sizeof(NodeConfig) among the images
  Faults                  \* subset of {"nvs", "read", "reset", "otadata"}

ASSUME FieldsAssumption ==
  /\ Polls \subseteq Nat /\ Windows \subseteq Nat
  /\ LegacyIntervals \subseteq Nat /\ LegacyWindows \subseteq Nat
  /\ {DefaultRadio, UnsupportedRadio} \subseteq Radios /\ DefaultRadio # UnsupportedRadio
  /\ Layouts \subseteq Nat \ {0, 1} /\ LegacyLengths \subseteq Nat \ {0}

VARIABLES
  pc,         \* where NodeApp::begin, ConfigStore::save or the portal is
  booting,    \* NodeApp::begin has not returned
  slots,      \* the two application partitions, with their otadata states
  selected,   \* the partition esp_ota_set_boot_partition chose last
  running,    \* the partition that runs
  blob, sum,  \* "config" and "checksum" of nvs_v2
  legacy,     \* the original partition's copy: never written
  config,     \* config_
  loaded,     \* what ConfigStore::load returned
  radio,      \* the settings the SX1278 has, or "down"
  candidate,  \* the configuration being saved
  half,       \* the first put of a save succeeded
  allowed,    \* ghost: what the operator may find in force after a boot
  acked       \* ghost: stored and acknowledged, with nothing requested since

image == <<slots, selected, running>>
store == <<blob, sum, legacy>>
vars == <<pc, booting, image, store, config, loaded, radio, candidate, half, allowed, acked>>

-----------------------------------------------------------------------------
(* Configurations *)

Defaults == [poll |-> 10, window |-> 300, radio |-> DefaultRadio]

\* A bug: the timer would be programmed with zero minutes.
ValidatesZeroPoll(c) ==
  c.poll <= 255 /\ c.window >= 60 /\ c.window <= 300 /\ c.radio # UnsupportedRadio

ValidateConfig(c) ==
  /\ c.poll >= 1 /\ c.poll <= 255
  /\ c.window >= 60 /\ c.window <= 300
  /\ c.radio # UnsupportedRadio

\* Rounded upward, so that a migrated node wakes no more often than before.
PollMinutesFromLegacySeconds(s) ==
  LET minutes == IF s = 0 THEN 1 ELSE (s + 59) \div 60
  IN  IF minutes > 255 THEN 255 ELSE minutes

\* The legacy copy of the v1 layout as a v2 configuration.
Migrated ==
  [poll   |-> PollMinutesFromLegacySeconds(legacy.interval),
   window |-> CASE legacy.window < 60 -> 60
                [] legacy.window > 300 -> 300
                [] OTHER -> legacy.window,
   radio  |-> legacy.radio]

\* The legacy copy as the configuration to store: one of the v1 layout is
\* converted, one of this image's own layout is only relocated.
LegacyConfig ==
  IF legacy.length = 1
    THEN Migrated
    ELSE [poll |-> legacy.interval, window |-> legacy.window, radio |-> legacy.radio]

Requests == [poll : Polls, window : Windows, radio : Radios]

NoConfig == [poll |-> 0, window |-> 0, radio |-> DefaultRadio]

-----------------------------------------------------------------------------
(* Images and stored values *)

Slots == {"ota_0", "ota_1"}

Other(s) == IF s = "ota_0" THEN "ota_1" ELSE "ota_0"

\* layout 0: the partition holds no complete image.
Images == [layout : Layouts, sound : BOOLEAN]
NoImage == [layout |-> 0, sound |-> FALSE]

Layout == slots[running].image.layout

\* What "config" and "checksum" are for configuration c saved by this image.
Stored(c) == [layout |-> Layout, config |-> c]
Nothing == [layout |-> 0, config |-> NoConfig]

\* What the original partition may hold; intact says that the checksum and the
\* schema version are right.
NoLegacy == [length |-> 0, intact |-> FALSE, interval |-> 0, window |-> 0, radio |-> DefaultRadio]
LegacyCopies ==
  {NoLegacy} \union [length : LegacyLengths, intact : BOOLEAN, interval : LegacyIntervals,
                     window : LegacyWindows, radio : {DefaultRadio, UnsupportedRadio}]

TypeOK ==
  /\ pc \in {"boot", "load", "put config", "put checksum", "validate", "ready"}
  /\ slots \in [Slots -> [image : Images \union {NoImage},
                          state : {"undefined", "new", "pending", "valid", "aborted", "invalid"}]]
  /\ selected \in Slots /\ running \in Slots
  /\ {blob.layout, sum.layout} \subseteq Layouts \union {0}
  /\ legacy \in LegacyCopies
  /\ config.poll \in 1..255 /\ config.window \in 60..300 /\ config.radio \in Radios
  /\ {booting, loaded, half} \subseteq BOOLEAN /\ radio \in Radios \union {"down"}

Puts == IF "nvs" \in Faults THEN BOOLEAN ELSE {TRUE}
Reads == IF "read" \in Faults THEN BOOLEAN ELSE {TRUE}

-----------------------------------------------------------------------------
(* The bootloader and the partitions (external) *)

\* A partition the bootloader accepts: one complete, and never given up.
Bootable(s) == s.image # NoImage /\ s.state \in {"undefined", "new", "valid"}

\* Arduino's default would be: a new image is declared valid before setup().
MarkedBeforeSetup == FALSE

\* The firmware's hook keeps a new image pending until it has been validated.
VerifyRollbackLater == TRUE

\* An image pending before the reset did not get validated: it is aborted.  The
\* partition selected last is preferred; a new image becomes pending.
Bootloader ==
  /\ pc = "boot"
  /\ LET seen == [s \in Slots |-> IF slots[s].state = "pending"
                                    THEN [slots[s] EXCEPT !.state = "aborted"]
                                    ELSE slots[s]]
         next == IF Bootable(seen[selected]) THEN selected ELSE Other(selected)
     IN  /\ Bootable(seen[next])
         /\ running' = next
         /\ slots' = IF seen[next].state = "new"
                       THEN [seen EXCEPT ![next].state =
                               IF VerifyRollbackLater THEN "pending" ELSE "valid"]
                       ELSE seen
  /\ pc' = "load" /\ booting' = TRUE
  /\ config' = Defaults /\ loaded' = FALSE /\ radio' = "down"
  /\ candidate' = NoConfig /\ half' = FALSE
  /\ UNCHANGED <<selected, store, allowed, acked>>

-----------------------------------------------------------------------------
(* ConfigStore::load *)

StoredIsGood == blob = sum /\ blob.layout = Layout /\ ValidateConfig(blob.config)

\* A bug: what does not verify counts as missing.
CurrentDecidesIfGood == blob # Nothing /\ StoredIsGood

\* The branch of load that looks at nvs_v2: anything stored there decides.
CurrentDecides == blob # Nothing

LegacyIsGood ==
  legacy.intact /\ legacy.length \in {1, Layout} /\ ValidateConfig(LegacyConfig)

ReadBoot == pc = "load" /\ slots[running].image.sound

Unchanged == UNCHANGED <<booting, image, store, radio, candidate, half, allowed, acked>>

\* The namespace does not open, or "config" or its checksum cannot be used:
\* defaults in RAM, and nothing is written.
LoadFails ==
  /\ ReadBoot
  /\ \/ \E open \in Reads : ~open
     \/ CurrentDecides /\ ~StoredIsGood
     \/ CurrentDecides /\ \E read \in Reads : ~read
     \/ /\ ~CurrentDecides
        /\ legacy.length # 0
        /\ ~LegacyIsGood \/ \E read \in Reads : ~read
  /\ pc' = "validate"
  /\ UNCHANGED <<config, loaded>> /\ Unchanged

LoadCurrent ==
  /\ ReadBoot /\ CurrentDecides /\ StoredIsGood
  /\ config' = blob.config /\ loaded' = TRUE
  /\ pc' = "validate"
  /\ Unchanged

\* Nothing in nvs_v2: the legacy copy is migrated, or defaults are stored when there
\* is none.  A legacy namespace that does not open counts as none.
LoadLegacy ==
  /\ ReadBoot /\ ~CurrentDecides
  /\ \/ /\ LegacyIsGood
        /\ config' = LegacyConfig
     \/ /\ legacy.length = 0 \/ \E open \in Reads : ~open
        /\ config' = Defaults
  /\ candidate' = config'
  /\ pc' = "put config"
  /\ UNCHANGED <<booting, image, store, loaded, radio, half, allowed, acked>>

-----------------------------------------------------------------------------
(* ConfigStore::save *)

\* Both puts are tried whatever the first one returns.
PutConfig ==
  /\ pc = "put config"
  /\ \E ok \in Puts :
       /\ half' = ok
       /\ blob' = IF ok THEN Stored(candidate) ELSE blob
  /\ pc' = "put checksum"
  /\ UNCHANGED <<booting, image, sum, legacy, config, loaded, radio, candidate, allowed, acked>>

\* A bug: the previous settings are not restored.
RadioNotRestored == {radio}

\* What a save that fails leaves in the SX1278: the previous settings, unless
\* the radio refuses those too.
RadioAfterRefusal ==
  IF candidate.radio = config.radio THEN {radio} ELSE {config.radio, "down"}

\* The save returns to load, which keeps the configuration in RAM either way...
SavedByLoad(ok) ==
  /\ booting
  /\ loaded' = ok
  /\ pc' = "validate"
  /\ UNCHANGED <<config, radio>>

\* ... or to applyConfiguration, which takes it into use only now...
RequestGranted ==
  /\ ~booting
  /\ config' = candidate
  /\ pc' = "ready"
  /\ UNCHANGED <<loaded, radio>>

\* ... or not at all.
RequestRefused ==
  /\ ~booting
  /\ radio' \in RadioAfterRefusal
  /\ pc' = "ready"
  /\ UNCHANGED <<config, loaded>>

PutChecksum ==
  /\ pc = "put checksum"
  /\ \E put \in Puts :
       LET ok == put /\ half
       IN  /\ sum' = IF put THEN Stored(candidate) ELSE sum
           /\ allowed' = IF ok THEN {candidate} ELSE allowed
           /\ acked' = IF ok THEN Stored(candidate) ELSE acked
           /\ SavedByLoad(ok) \/ (ok /\ RequestGranted) \/ (~ok /\ RequestRefused)
  /\ candidate' = NoConfig /\ half' = FALSE
  /\ UNCHANGED <<booting, image, blob, legacy>>

\* save does not even open its namespace.
SaveNotOpened ==
  /\ pc = "put config"
  /\ \E open \in Puts : ~open
  /\ SavedByLoad(FALSE) \/ RequestRefused
  /\ candidate' = NoConfig
  /\ UNCHANGED <<booting, image, store, half, allowed, acked>>

-----------------------------------------------------------------------------
(* OtaManager *)

CanRollBack ==
  /\ slots[Other(running)].state \in {"undefined", "valid"}
  /\ slots[Other(running)].image # NoImage

Marks == IF "otadata" \in Faults THEN BOOLEAN ELSE {TRUE}

\* An image that is not pending is left alone; a pending one is declared valid,
\* or given up with a reboot into the other one, if there is one to go to.
CompleteBootValidation(sane) ==
  LET pending == slots[running].state = "pending"
      rollsBack == pending /\ ~sane /\ CanRollBack
  IN  /\ \E marked \in Marks :
           slots' = [slots EXCEPT ![running].state =
                       CASE rollsBack -> "invalid"
                         [] pending /\ sane /\ marked -> "valid"
                         [] OTHER -> @]
      /\ pc' = IF rollsBack THEN "boot" ELSE "ready"
      /\ booting' = rollsBack

-----------------------------------------------------------------------------
(* NodeApp::begin, after the configuration *)

\* The radio is set up, which the validation does not ask about; whether the
\* protocol state, the history, the PCF8563 and the latch are fine is not
\* modelled here.  An image that was not pending runs on whatever comes out.
Validate ==
  /\ pc = "validate"
  /\ radio' \in {config.radio, "down"}
  /\ \E othersSane \in BOOLEAN : CompleteBootValidation(loaded /\ othersSane)
  /\ UNCHANGED <<selected, running, store, config, loaded, candidate, half, allowed, acked>>

-----------------------------------------------------------------------------
(* The running node *)

\* applyConfiguration, from the portal or for SET_POLL_INTERVAL: the radio goes
\* first, and takes the previous settings back if it refuses the new ones.
ApplyConfiguration(c) ==
  /\ pc = "ready" /\ ValidateConfig(c)
  /\ \/ /\ c.radio = config.radio
        /\ UNCHANGED radio
     \/ /\ c.radio # config.radio
        /\ radio' = c.radio
  /\ candidate' = c
  /\ pc' = "put config"
  /\ allowed' = allowed \union {c} /\ acked' = Nothing
  /\ UNCHANGED <<booting, image, store, config, loaded, half>>

RadioRefuses ==
  /\ pc = "ready"
  /\ radio' \in {config.radio, "down"}
  /\ UNCHANGED <<pc, booting, image, store, config, loaded, candidate, half, allowed, acked>>

\* An upload overwrites the partition that does not run, from its first chunk...
UploadStarts ==
  /\ pc = "ready"
  /\ slots' = [slots EXCEPT ![Other(running)].image = NoImage]
  /\ UNCHANGED <<pc, booting, selected, running, store, config, loaded, radio, candidate,
                 half, allowed, acked>>

\* ... and when it is complete selects it, whether or not the reboot that the
\* portal then asks for is accepted.
UploadEnds ==
  /\ pc = "ready" /\ slots[Other(running)].image = NoImage
  /\ \E i \in Images :
       slots' = [slots EXCEPT ![Other(running)] = [image |-> i, state |-> "new"]]
  /\ selected' = Other(running)
  /\ UNCHANGED <<pc, booting, running, store, config, loaded, radio, candidate, half,
                 allowed, acked>>

\* The accepted reboot, or a later power cycle; with "reset" also the watchdog,
\* a panic or a brownout at any step.  An unsound image gets no further.
Restart ==
  /\ pc # "boot"
  /\ \/ pc = "ready"
     \/ ~slots[running].image.sound
     \/ "reset" \in Faults
  /\ pc' = "boot"
  /\ UNCHANGED <<booting, image, store, config, loaded, radio, candidate, half, allowed, acked>>

-----------------------------------------------------------------------------

Init ==
  /\ pc = "boot" /\ booting = TRUE
  /\ \E l \in Layouts :
       slots = [s \in Slots |-> IF s = "ota_0"
                  THEN [image |-> [layout |-> l, sound |-> TRUE], state |-> "undefined"]
                  ELSE [image |-> NoImage, state |-> "undefined"]]
  /\ selected = "ota_0" /\ running = "ota_0"
  /\ blob = Nothing /\ sum = Nothing /\ legacy \in LegacyCopies
  /\ config = Defaults /\ loaded = FALSE /\ radio = "down"
  /\ candidate = NoConfig /\ half = FALSE
  /\ allowed = IF legacy.intact THEN {LegacyConfig} ELSE {}
  /\ acked = Nothing

Next ==
  \/ Bootloader
  \/ LoadFails \/ LoadCurrent \/ LoadLegacy
  \/ PutConfig \/ PutChecksum \/ SaveNotOpened
  \/ Validate
  \/ \E c \in Requests : ApplyConfiguration(c)
  \/ RadioRefuses
  \/ UploadStarts \/ UploadEnds
  \/ Restart

Spec == Init /\ [][Next]_vars

-----------------------------------------------------------------------------
(* Properties *)

\* What a boot puts in force is a default or something the operator may expect:
\* once a configuration is acknowledged, no older one ever returns, not from
\* the legacy copy and not from two halves of saves that failed
\* (config_store.cpp:51-74).
SupersededNeverReturns == config \in allowed \union {Defaults}

\* A configuration that was stored and acknowledged stays as it is in flash until
\* another one is requested: no boot, no image on trial and no rollback touches
\* it, so the image rolled back to finds what it had stored.
AcknowledgedSurvives == acked # Nothing => blob = acked /\ sum = acked

\* Outside a change of configuration the radio has the settings of the
\* configuration in force, or is known not to work: a change that cannot be
\* stored is taken back (node_app.cpp:822-832).
RadioFollowsConfig == pc = "ready" => radio \in {config.radio, "down"}

\* Whatever is uploaded and whenever the power fails, the bootloader has an image
\* that it need not try out, and every such image gets as far as the portal: no
\* unsound one is declared valid, no upload overwrites the last sound one.
AlwaysBootable ==
  LET kept == {s \in Slots : slots[s].image # NoImage /\ slots[s].state \in {"undefined", "valid"}}
  IN  kept # {} /\ \A s \in kept : slots[s].image.sound

(* The inductive invariant these follow from *)

Settings == [poll : Nat, window : Nat, radio : Radios]
Values == [layout : Layouts \union {0}, config : Settings]

Saving == pc \in {"put config", "put checksum"}

\* What is stored, saved or in force is a configuration, and what is being saved
\* is one that validateConfig accepted.
ConfigHeld ==
  /\ {blob, sum, acked} \subseteq Values /\ {config, candidate} \subseteq Settings
  /\ Saving => ValidateConfig(candidate)

\* Where begin and save are: a boot saves the configuration that is already in
\* force; a complete image runs, and what the first put wrote is there until the
\* second.
StepHeld ==
  /\ pc \in {"load", "validate"} => booting
  /\ pc = "ready" => ~booting
  /\ Saving /\ booting => config = candidate
  /\ pc # "boot" => slots[running].image # NoImage
  /\ pc = "put checksum" /\ half => blob = Stored(candidate)

\* Nothing is acknowledged while a save is under way, whatever nvs_v2 holds may be
\* in force, and while it holds nothing the legacy copy may.
GhostHeld ==
  /\ Saving => acked = Nothing /\ candidate \in allowed \union {Defaults}
  /\ blob # Nothing => blob.config \in allowed \union {Defaults}
  /\ blob = Nothing /\ legacy.intact => LegacyConfig \in allowed

\* A request that is being saved is one the radio already has.
RadioHeld ==
  Saving /\ ~booting =>
    \/ radio = candidate.radio
    \/ candidate.radio = config.radio /\ radio \in {config.radio, "down"}

\* An image past the load is sound, and one past its validation is kept.
ImageHeld ==
  /\ pc # "boot" => slots[running].state \in {"undefined", "pending", "valid"}
  /\ pc \notin {"boot", "load"} => slots[running].image.sound
  /\ pc = "ready" \/ (Saving /\ ~booting) => slots[running].state # "pending"

ConfigInv ==
  /\ TypeOK /\ ConfigHeld /\ StepHeld /\ GhostHeld /\ RadioHeld
  /\ SupersededNeverReturns /\ AcknowledgedSurvives /\ RadioFollowsConfig

ImageInv == TypeOK /\ ConfigHeld /\ StepHeld /\ ImageHeld /\ AlwaysBootable
=============================================================================
