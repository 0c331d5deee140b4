------------------------ MODULE BootValidationProofs ------------------------
(***************************************************************************)
(* What is proved of BootValidation for every set of field values, every   *)
(* legacy copy, every set of image layouts and every set of faults.        *)
(***************************************************************************)
EXTENDS BootValidation, TLAPS

-----------------------------------------------------------------------------
(* Configurations and stored values *)

LEMMA DefaultsType ==
  /\ Defaults \in Settings /\ ValidateConfig(Defaults)
  /\ NoConfig \in Settings /\ Nothing \in Values
  BY FieldsAssumption DEF Defaults, NoConfig, Nothing, Settings, Values, ValidateConfig

\* What validateConfig accepts has the type of a configuration in force.
LEMMA ValidTypes ==
  ASSUME NEW c \in Settings, ValidateConfig(c)
  PROVE  c.poll \in 1..255 /\ c.window \in 60..300 /\ c.radio \in Radios
  BY DEF Settings, ValidateConfig

\* The migration rounds up to a number of minutes.
LEMMA PollMinutesType ==
  ASSUME NEW s \in Nat
  PROVE  PollMinutesFromLegacySeconds(s) \in 1..255
  <1>1. s # 0 => (s + 59) \div 60 \in Nat /\ (s + 59) \div 60 >= 1
    OBVIOUS
  <1>. DEFINE minutes == IF s = 0 THEN 1 ELSE (s + 59) \div 60
  <1>2. minutes \in Nat /\ minutes >= 1
    BY <1>1
  <1>. HIDE DEF minutes
  <1>3. (IF minutes > 255 THEN 255 ELSE minutes) \in 1..255
    BY <1>2
  <1>. QED  BY <1>3 DEF PollMinutesFromLegacySeconds, minutes

LEMMA LegacyConfigType ==
  ASSUME legacy \in LegacyCopies
  PROVE  LegacyConfig \in Settings
  <1>1. legacy.interval \in Nat /\ legacy.window \in Nat /\ legacy.radio \in Radios
    <2>1. CASE legacy = NoLegacy
      BY <2>1, FieldsAssumption DEF NoLegacy
    <2>2. CASE legacy # NoLegacy
      BY <2>2, FieldsAssumption DEF LegacyCopies
    <2>. QED  BY <2>1, <2>2
  <1>2. PollMinutesFromLegacySeconds(legacy.interval) \in Nat
    BY <1>1, PollMinutesType
  <1>. QED  BY <1>1, <1>2 DEF LegacyConfig, Migrated, Settings

LEMMA RequestsType == \A c \in Requests : c \in Settings
  BY FieldsAssumption DEF Requests, Settings

\* The running image has a layout, and what it stores is never nothing.
LEMMA LayoutType ==
  ASSUME TypeOK
  PROVE  /\ Layout \in Layouts \union {0}
         /\ slots[running].image # NoImage => Layout \in Layouts
  <1>1. slots[running].image \in Images \union {NoImage}
    BY DEF TypeOK
  <1>2. CASE slots[running].image = NoImage
    BY <1>2 DEF Layout, NoImage
  <1>3. CASE slots[running].image \in Images
    BY <1>3 DEF Layout, Images
  <1>. QED  BY <1>1, <1>2, <1>3

LEMMA StoredType ==
  ASSUME TypeOK, NEW c \in Settings
  PROVE  /\ Stored(c) \in Values /\ Stored(c).config = c
         /\ slots[running].image # NoImage => Stored(c) # Nothing
  <1>1. Layout \in Layouts \union {0}
    BY LayoutType
  <1>2. slots[running].image # NoImage => Layout # 0
    BY LayoutType, FieldsAssumption
  <1>. QED  BY <1>1, <1>2 DEF Stored, Values, Nothing

LEMMA OtherSlot ==
  \A s \in Slots : Other(s) \in Slots /\ Other(s) # s /\ Slots = {s, Other(s)}
  BY DEF Slots, Other

-----------------------------------------------------------------------------
(* Types *)

TypeInv == TypeOK /\ ConfigHeld

LEMMA InitTypes == Init => TypeInv
  <1>. SUFFICES ASSUME Init PROVE TypeInv
    OBVIOUS
  <1>1. slots \in [Slots -> [image : Images \union {NoImage},
                             state : {"undefined", "new", "pending", "valid", "aborted", "invalid"}]]
    BY DEF Init, Images
  <1>2. config.poll \in 1..255 /\ config.window \in 60..300 /\ config.radio \in Radios
    BY FieldsAssumption DEF Init, Defaults
  <1>3. TypeOK
    BY <1>1, <1>2 DEF Init, TypeOK, Slots, Nothing
  <1>. QED  BY <1>3, DefaultsType DEF Init, TypeInv, ConfigHeld, Saving

LEMMA BootloaderTypes ==
  ASSUME TypeInv, Bootloader
  PROVE  TypeInv'
  <1>1. config' = Defaults /\ candidate' = NoConfig /\ UNCHANGED <<blob, sum, legacy, acked, selected>>
    BY DEF Bootloader, store
  <1>2. config'.poll \in 1..255 /\ config'.window \in 60..300 /\ config'.radio \in Radios
    BY <1>1, DefaultsType, ValidTypes
  <1>3. running' \in Slots
    BY OtherSlot DEF Bootloader, TypeInv, TypeOK
  <1>4. slots' \in [Slots -> [image : Images \union {NoImage},
                              state : {"undefined", "new", "pending", "valid", "aborted", "invalid"}]]
    <2>. DEFINE Partition == [image : Images \union {NoImage},
                              state : {"undefined", "new", "pending", "valid", "aborted", "invalid"}]
                seen == [s \in Slots |-> IF slots[s].state = "pending"
                                           THEN [slots[s] EXCEPT !.state = "aborted"]
                                           ELSE slots[s]]
    <2>1. seen \in [Slots -> Partition]
      <3>1. \A s \in Slots : slots[s] \in Partition
        BY DEF TypeInv, TypeOK
      <3>. QED  BY <3>1
    <2>2. slots' \in {seen, [seen EXCEPT ![running'].state = "pending"]}
      BY DEF Bootloader, VerifyRollbackLater
    <2>. HIDE DEF seen
    <2>3. \A s \in Slots : [seen EXCEPT ![s].state = "pending"] \in [Slots -> Partition]
      BY <2>1
    <2>. QED  BY <1>3, <2>1, <2>2, <2>3
  <1>. QED  BY <1>1, <1>2, <1>3, <1>4, DefaultsType DEF Bootloader, Saving, TypeInv, TypeOK, ConfigHeld

LEMMA LoadTypes ==
  ASSUME TypeInv, LoadFails \/ LoadCurrent \/ LoadLegacy
  PROVE  TypeInv'
  <1>1. CASE LoadFails
    BY <1>1 DEF LoadFails, Unchanged, image, store, Saving, TypeInv, TypeOK, ConfigHeld
  <1>2. CASE LoadCurrent
    <2>1. blob.config \in Settings /\ ValidateConfig(blob.config)
      BY <1>2 DEF LoadCurrent, StoredIsGood, Values, TypeInv, ConfigHeld
    <2>2. config' \in Settings /\ config'.poll \in 1..255 /\ config'.window \in 60..300
          /\ config'.radio \in Radios
      BY <1>2, <2>1, ValidTypes DEF LoadCurrent
    <2>. QED  BY <1>2, <2>2 DEF LoadCurrent, Unchanged, image, store, Saving, TypeInv, TypeOK, ConfigHeld
  <1>3. CASE LoadLegacy
    <2>1. config' \in Settings /\ ValidateConfig(config')
      BY <1>3, DefaultsType, LegacyConfigType DEF LoadLegacy, LegacyIsGood, TypeInv, TypeOK
    <2>2. config'.poll \in 1..255 /\ config'.window \in 60..300 /\ config'.radio \in Radios
      BY <2>1, ValidTypes
    <2>3. candidate' \in Settings /\ ValidateConfig(candidate')
      BY <1>3, <2>1 DEF LoadLegacy
    <2>. QED  BY <1>3, <2>1, <2>2, <2>3 DEF LoadLegacy, image, store, Saving, TypeInv, TypeOK, ConfigHeld
  <1>. QED  BY <1>1, <1>2, <1>3

\* What a save that fails leaves in the radio is a setting, or none.
LEMMA RefusalType ==
  ASSUME TypeOK
  PROVE  RadioAfterRefusal \subseteq Radios \union {"down"}
  BY DEF TypeOK, RadioAfterRefusal

LEMMA SaveTypes ==
  ASSUME TypeInv, PutConfig \/ PutChecksum \/ SaveNotOpened
  PROVE  TypeInv'
  <1>1. CASE PutConfig
    <2>1. blob' \in Values /\ half' \in BOOLEAN
      BY <1>1, StoredType DEF PutConfig, Puts, TypeInv, ConfigHeld
    <2>. QED  BY <1>1, <2>1 DEF PutConfig, image, Saving, Values, TypeInv, TypeOK, ConfigHeld
  <1>2. CASE PutChecksum
    <2>1. PICK put \in Puts :
            LET ok == put /\ half
            IN  /\ sum' = IF put THEN Stored(candidate) ELSE sum
                /\ allowed' = IF ok THEN {candidate} ELSE allowed
                /\ acked' = IF ok THEN Stored(candidate) ELSE acked
                /\ SavedByLoad(ok) \/ (ok /\ RequestGranted) \/ (~ok /\ RequestRefused)
      BY <1>2 DEF PutChecksum
    <2>2. sum' \in Values /\ acked' \in Values
      BY <2>1, StoredType DEF TypeInv, ConfigHeld
    <2>3. config' \in {config, candidate} /\ loaded' \in BOOLEAN
          /\ radio' \in Radios \union {"down"} /\ pc' \in {"validate", "ready"}
      BY <2>1, RefusalType DEF SavedByLoad, RequestGranted, RequestRefused, Puts, TypeInv, TypeOK
    <2>4. ValidateConfig(candidate) /\ candidate \in Settings
      BY <1>2 DEF PutChecksum, Saving, TypeInv, ConfigHeld
    <2>5. config'.poll \in 1..255 /\ config'.window \in 60..300 /\ config'.radio \in Radios
      <3>1. CASE config' = config
        BY <3>1 DEF TypeInv, TypeOK
      <3>2. CASE config' = candidate
        BY <3>2, <2>4, ValidTypes
      <3>. QED  BY <2>3, <3>1, <3>2
    <2>. QED  BY <1>2, <2>2, <2>3, <2>4, <2>5, DefaultsType
          DEF PutChecksum, image, Saving, Values, TypeInv, TypeOK, ConfigHeld
  <1>3. CASE SaveNotOpened
    <2>1. loaded' \in BOOLEAN /\ radio' \in Radios \union {"down"} /\ pc' \in {"validate", "ready"}
          /\ config' = config
      BY <1>3, RefusalType DEF SaveNotOpened, SavedByLoad, RequestRefused, TypeInv, TypeOK
    <2>. QED  BY <1>3, <2>1, DefaultsType DEF SaveNotOpened, image, store, Saving, TypeInv, TypeOK, ConfigHeld
  <1>. QED  BY <1>1, <1>2, <1>3

\* The three outcomes of the validation for the running partition: given up, kept,
\* or left as it was.
Outcome(state, sane) ==
  LET pending == slots[running].state = "pending"
  IN  /\ slots' = [slots EXCEPT ![running].state = state]
      /\ \/ state = "invalid" /\ pending /\ CanRollBack /\ pc' = "boot" /\ booting'
         \/ state = "valid" /\ pending /\ sane /\ pc' = "ready" /\ ~booting'
         \/ /\ state = slots[running].state /\ pc' = "ready" /\ ~booting'
            /\ pending => (sane /\ FALSE \in Marks) \/ ~CanRollBack

LEMMA ValidationOutcome ==
  ASSUME NEW sane \in BOOLEAN, CompleteBootValidation(sane)
  PROVE  \E state \in {"invalid", "valid", slots[running].state} : Outcome(state, sane)
  <1>. DEFINE pending == slots[running].state = "pending"
              rollsBack == pending /\ ~sane /\ CanRollBack
  <1>1. PICK marked \in Marks :
          slots' = [slots EXCEPT ![running].state =
                      CASE rollsBack -> "invalid"
                        [] pending /\ sane /\ marked -> "valid"
                        [] OTHER -> slots[running].state]
    BY DEF CompleteBootValidation
  <1>2. pc' = (IF rollsBack THEN "boot" ELSE "ready") /\ booting' = rollsBack
    BY DEF CompleteBootValidation
  <1>3. marked \in BOOLEAN
    BY DEF Marks
  <1>4. CASE rollsBack
    BY <1>1, <1>2, <1>4 DEF Outcome
  <1>5. CASE pending /\ sane /\ marked
    BY <1>1, <1>2, <1>5 DEF Outcome
  <1>6. CASE ~rollsBack /\ ~(pending /\ sane /\ marked)
    <2>1. slots' = [slots EXCEPT ![running].state = slots[running].state]
      BY <1>1, <1>6
    <2>2. pending => (sane /\ FALSE \in Marks) \/ ~CanRollBack
      BY <1>3, <1>6
    <2>. QED  BY <1>2, <1>6, <2>1, <2>2 DEF Outcome
  <1>. QED  BY <1>4, <1>5, <1>6

LEMMA ValidateTypes ==
  ASSUME TypeInv, Validate
  PROVE  TypeInv'
  <1>1. PICK sane \in BOOLEAN : CompleteBootValidation(sane)
    BY DEF Validate
  <1>2. /\ slots' \in [Slots -> [image : Images \union {NoImage},
                                 state : {"undefined", "new", "pending", "valid", "aborted", "invalid"}]]
        /\ pc' \in {"boot", "ready"} /\ booting' \in BOOLEAN
    <2>1. PICK state \in {"invalid", "valid", slots[running].state} :
            slots' = [slots EXCEPT ![running].state = state]
      BY <1>1, ValidationOutcome DEF Outcome
    <2>2. state \in {"undefined", "new", "pending", "valid", "aborted", "invalid"}
      BY DEF TypeInv, TypeOK
    <2>3. pc' \in {"boot", "ready"} /\ booting' \in BOOLEAN
      BY <1>1 DEF CompleteBootValidation
    <2>. QED  BY <2>1, <2>2, <2>3 DEF TypeInv, TypeOK
  <1>. QED  BY <1>2 DEF Validate, store, Saving, TypeInv, TypeOK, ConfigHeld

LEMMA NodeTypes ==
  ASSUME TypeInv,
         (\E c \in Requests : ApplyConfiguration(c))
           \/ RadioRefuses \/ UploadStarts \/ UploadEnds \/ Restart
  PROVE  TypeInv'
  <1>1. CASE \E c \in Requests : ApplyConfiguration(c)
    <2>1. PICK c \in Requests : ApplyConfiguration(c)
      BY <1>1
    <2>2. radio' \in Radios \union {"down"} /\ c \in Settings
      BY <2>1, RequestsType DEF ApplyConfiguration, Settings, TypeInv, TypeOK
    <2>. QED  BY <2>1, <2>2, DefaultsType DEF ApplyConfiguration, image, store, TypeInv, TypeOK, ConfigHeld
  <1>2. CASE RadioRefuses
    BY <1>2 DEF RadioRefuses, image, store, Saving, TypeInv, TypeOK, ConfigHeld
  <1>3. CASE UploadStarts
    BY <1>3, OtherSlot DEF UploadStarts, store, Saving, TypeInv, TypeOK, ConfigHeld
  <1>4. CASE UploadEnds
    <2>1. PICK i \in Images :
            slots' = [slots EXCEPT ![Other(running)] = [image |-> i, state |-> "new"]]
      BY <1>4 DEF UploadEnds
    <2>. QED  BY <1>4, <2>1, OtherSlot DEF UploadEnds, store, Saving, TypeInv, TypeOK, ConfigHeld
  <1>5. CASE Restart
    BY <1>5 DEF Restart, image, store, Saving, TypeInv, TypeOK, ConfigHeld
  <1>. QED  BY <1>1, <1>2, <1>3, <1>4, <1>5

LEMMA NextTypes == TypeInv /\ [Next]_vars => TypeInv'
  <1>. SUFFICES ASSUME TypeInv, [Next]_vars PROVE TypeInv'
    OBVIOUS
  <1>1. CASE UNCHANGED vars
    BY <1>1 DEF vars, image, store, TypeInv, TypeOK, ConfigHeld, Saving
  <1>2. CASE Next
    BY <1>2, BootloaderTypes, LoadTypes, SaveTypes, ValidateTypes, NodeTypes DEF Next
  <1>. QED  BY <1>1, <1>2

\* Every variable has its type: in particular a configuration in force has a poll
\* interval the hardware timer takes and a window the portal can be given,
\* whatever was migrated or read back (config_store.cpp:51-74).
THEOREM TypeCorrect == Spec => []TypeOK
  <1>1. TypeInv => TypeOK
    BY DEF TypeInv
  <1>. QED  BY <1>1, InitTypes, NextTypes, PTL DEF Spec

-----------------------------------------------------------------------------
(* Where begin, save and the portal are *)

LEMMA InitStep == Init => StepHeld
  BY DEF Init, StepHeld, Saving

\* Neither an upload nor a reset gives the running partition another image, and
\* the validation leaves every image where it is.
LEMMA RunningImageKept ==
  ASSUME TypeOK, Validate \/ UploadStarts \/ UploadEnds
  PROVE  running' = running /\ slots'[running].image = slots[running].image
  <1>0. running \in Slots /\ Other(running) \in Slots /\ Other(running) # running
    BY OtherSlot DEF TypeOK
  <1>1. CASE Validate
    <2>1. PICK sane \in BOOLEAN : CompleteBootValidation(sane)
      BY <1>1 DEF Validate
    <2>2. \E state : slots' = [slots EXCEPT ![running].state = state]
      BY <2>1, ValidationOutcome DEF Outcome
    <2>. QED  BY <1>0, <1>1, <2>2 DEF Validate, TypeOK
  <1>2. CASE UploadStarts
    BY <1>0, <1>2 DEF UploadStarts, TypeOK
  <1>3. CASE UploadEnds
    BY <1>0, <1>3 DEF UploadEnds, TypeOK
  <1>. QED  BY <1>1, <1>2, <1>3

\* The bootloader starts a complete image, and never one it has given up.
LEMMA BootloaderOutcome ==
  ASSUME TypeOK, Bootloader
  PROVE  /\ running' \in Slots /\ slots[running'].image # NoImage
         /\ \A s \in Slots : slots'[s].image = slots[s].image
         /\ slots'[running'].state \in {"undefined", "pending", "valid"}
         /\ \A s \in Slots : /\ slots[s].state \in {"undefined", "valid"} => slots'[s].state = slots[s].state
                             /\ slots'[s].state \in {"undefined", "valid"} => slots[s].state = slots'[s].state
  <1>. DEFINE seen == [s \in Slots |-> IF slots[s].state = "pending"
                                         THEN [slots[s] EXCEPT !.state = "aborted"]
                                         ELSE slots[s]]
              next == IF Bootable(seen[selected]) THEN selected ELSE Other(selected)
  <1>1. /\ Bootable(seen[next]) /\ running' = next
        /\ slots' = IF seen[next].state = "new" THEN [seen EXCEPT ![next].state = "pending"] ELSE seen
    BY DEF Bootloader, VerifyRollbackLater
  <1>2. next \in Slots
    BY OtherSlot DEF TypeOK
  <1>3. \A s \in Slots : /\ seen[s].image = slots[s].image
                         /\ slots[s].state # "pending" => seen[s] = slots[s]
                         /\ slots[s].state = "pending" => seen[s].state = "aborted"
    BY DEF TypeOK
  <1>4. DOMAIN seen = Slots
    OBVIOUS
  <1>. HIDE DEF seen, next
  <1>5. seen[next].image # NoImage /\ seen[next].state \in {"undefined", "new", "valid"}
    BY <1>1 DEF Bootable
  <1>6. \A s \in Slots : seen[s].state = "new" => seen[s].state = slots[s].state
    BY <1>3
  <1>7. CASE seen[next].state = "new"
    <2>1. slots' = [seen EXCEPT ![next].state = "pending"]
      BY <1>1, <1>7
    <2>2. slots[next] = seen[next]
      BY <1>2, <1>3, <1>7
    <2>3. \A s \in Slots : s # next => slots'[s] = seen[s]
      BY <2>1, <1>4
    <2>4. slots[next] \in [image : Images \union {NoImage},
                           state : {"undefined", "new", "pending", "valid", "aborted", "invalid"}]
      BY <1>2 DEF TypeOK
    <2>5. slots'[next].image = slots[next].image /\ slots'[next].state = "pending"
      BY <2>1, <2>2, <2>4, <1>2, <1>4
    <2>. QED  BY <1>1, <1>2, <1>3, <1>5, <1>7, <2>2, <2>3, <2>5
  <1>8. CASE seen[next].state # "new"
    BY <1>1, <1>2, <1>3, <1>5, <1>8
  <1>. QED  BY <1>7, <1>8

LEMMA NextStep ==
  ASSUME TypeOK, StepHeld, [Next]_vars
  PROVE  StepHeld'
  <1>. USE DEF StepHeld, Saving, store
  <1>1. CASE Bootloader
    <2>1. slots'[running'].image # NoImage
      BY <1>1, BootloaderOutcome
    <2>. QED  BY <1>1, <2>1 DEF Bootloader
  <1>2. CASE LoadFails \/ LoadCurrent \/ LoadLegacy
    BY <1>2 DEF LoadFails, LoadCurrent, LoadLegacy, ReadBoot, Unchanged, image
  <1>3. CASE PutConfig
    <2>1. PICK ok \in Puts : half' = ok /\ blob' = IF ok THEN Stored(candidate) ELSE blob
      BY <1>3 DEF PutConfig
    <2>3. half' => blob' = Stored(candidate)
      BY <2>1 DEF Puts
    <2>2. Stored(candidate)' = Stored(candidate)
      BY <1>3 DEF PutConfig, Stored, Layout, image
    <2>. QED  BY <1>3, <2>2, <2>3 DEF PutConfig, image
  <1>4. CASE PutChecksum
    BY <1>4 DEF PutChecksum, SavedByLoad, RequestGranted, RequestRefused, image
  <1>5. CASE SaveNotOpened
    BY <1>5 DEF SaveNotOpened, SavedByLoad, RequestRefused, image
  <1>6. CASE Validate
    <2>1. pc' \in {"boot", "ready"} /\ (pc' = "ready" => ~booting')
      BY <1>6 DEF Validate, CompleteBootValidation
    <2>. QED  BY <1>6, <2>1, RunningImageKept DEF Validate
  <1>7. CASE \E c \in Requests : ApplyConfiguration(c)
    <2>1. pc = "ready" /\ pc' = "put config" /\ UNCHANGED <<booting, image>>
      BY <1>7 DEF ApplyConfiguration
    <2>. QED  BY <2>1 DEF image
  <1>8. CASE RadioRefuses
    BY <1>8 DEF RadioRefuses, image
  <1>9. CASE UploadStarts \/ UploadEnds
    <2>1. pc = "ready" /\ pc' = pc /\ booting' = booting
      BY <1>9 DEF UploadStarts, UploadEnds
    <2>. QED  BY <1>9, <2>1, RunningImageKept
  <1>10. CASE Restart
    BY <1>10 DEF Restart, image
  <1>11. CASE UNCHANGED vars
    BY <1>11 DEF vars, image, Stored, Layout
  <1>. QED  BY <1>1, <1>2, <1>3, <1>4, <1>5, <1>6, <1>7, <1>8, <1>9, <1>10, <1>11 DEF Next

-----------------------------------------------------------------------------
(* What the operator may find in force *)

LEMMA InitGhost == Init => GhostHeld /\ SupersededNeverReturns /\ AcknowledgedSurvives
  BY DEF Init, GhostHeld, Saving, SupersededNeverReturns, AcknowledgedSurvives

\* The legacy copy is never written, and so always converts to the same.
LEMMA LegacyKept == [Next]_vars => legacy' = legacy /\ LegacyConfig' = LegacyConfig
  <1>1. ASSUME [Next]_vars PROVE legacy' = legacy
    BY <1>1 DEF Next, vars, store, Bootloader, LoadFails, LoadCurrent, LoadLegacy, Unchanged, PutConfig,
                PutChecksum, SaveNotOpened, Validate, ApplyConfiguration, RadioRefuses,
                UploadStarts, UploadEnds, Restart
  <1>. QED  BY <1>1 DEF LegacyConfig, Migrated

GhostInv == GhostHeld /\ SupersededNeverReturns /\ AcknowledgedSurvives

LEMMA NextGhost ==
  ASSUME TypeInv, StepHeld, GhostInv, [Next]_vars
  PROVE  GhostInv'
  <1>. USE DEF GhostInv, GhostHeld, SupersededNeverReturns, AcknowledgedSurvives, Saving
  <1>0. legacy' = legacy /\ LegacyConfig' = LegacyConfig /\ Defaults' = Defaults /\ Nothing' = Nothing
    BY LegacyKept
  <1>1. CASE Bootloader
    BY <1>0, <1>1 DEF Bootloader, store
  <1>2. CASE LoadFails
    BY <1>0, <1>2 DEF LoadFails, Unchanged, store
  <1>3. CASE LoadCurrent
    BY <1>0, <1>3 DEF LoadCurrent, CurrentDecides, Unchanged, store
  <1>4. CASE LoadLegacy
    <2>1. blob = Nothing /\ acked = Nothing
      BY <1>4 DEF LoadLegacy, CurrentDecides
    <2>2. config' \in allowed \union {Defaults}
      BY <1>4, <2>1 DEF LoadLegacy, LegacyIsGood
    <2>. QED  BY <1>0, <1>4, <2>1, <2>2 DEF LoadLegacy, store
  <1>5. CASE PutConfig
    <2>1. blob' \in {blob, Stored(candidate)}
      BY <1>5 DEF PutConfig
    <2>2. Stored(candidate).config = candidate /\ Stored(candidate) # Nothing
      BY <1>5, StoredType DEF PutConfig, StepHeld, TypeInv, ConfigHeld
    <2>. QED  BY <1>0, <1>5, <2>1, <2>2 DEF PutConfig
  <1>6. CASE PutChecksum
    <2>1. PICK put \in Puts :
            LET ok == put /\ half
            IN  /\ sum' = IF put THEN Stored(candidate) ELSE sum
                /\ allowed' = IF ok THEN {candidate} ELSE allowed
                /\ acked' = IF ok THEN Stored(candidate) ELSE acked
                /\ SavedByLoad(ok) \/ (ok /\ RequestGranted) \/ (~ok /\ RequestRefused)
      BY <1>6 DEF PutChecksum
    <2>2. Stored(candidate).config = candidate /\ Stored(candidate) # Nothing
      BY <1>6, StoredType DEF PutChecksum, StepHeld, TypeInv, ConfigHeld
    <2>3. pc = "put checksum" /\ blob' = blob /\ pc' \in {"validate", "ready"}
      BY <1>6, <2>1 DEF PutChecksum, SavedByLoad, RequestGranted, RequestRefused
    <2>4. CASE put /\ half
      <3>1. /\ sum' = Stored(candidate) /\ allowed' = {candidate} /\ acked' = Stored(candidate)
            /\ blob = Stored(candidate)
        BY <2>1, <2>3, <2>4 DEF StepHeld
      <3>2. config' = candidate
        BY <2>1, <2>3, <2>4 DEF SavedByLoad, RequestGranted, StepHeld
      <3>. QED  BY <1>0, <2>2, <2>3, <3>1, <3>2
    <2>5. CASE ~(put /\ half)
      <3>1. allowed' = allowed /\ acked' = acked /\ acked = Nothing
        BY <2>1, <2>3, <2>5
      <3>2. config' = config
        BY <2>1, <2>5 DEF SavedByLoad, RequestRefused
      <3>. QED  BY <1>0, <2>3, <3>1, <3>2
    <2>. QED  BY <2>4, <2>5
  <1>7. CASE SaveNotOpened
    BY <1>0, <1>7 DEF SaveNotOpened, SavedByLoad, RequestRefused, store
  <1>8. CASE Validate
    <2>1. pc' \in {"boot", "ready"}
      BY <1>8 DEF Validate, CompleteBootValidation
    <2>. QED  BY <1>0, <1>8, <2>1 DEF Validate, store
  <1>9. CASE \E c \in Requests : ApplyConfiguration(c)
    <2>1. PICK c \in Requests : ApplyConfiguration(c)
      BY <1>9
    <2>. QED  BY <1>0, <2>1 DEF ApplyConfiguration, store
  <1>10. CASE RadioRefuses \/ UploadStarts \/ UploadEnds \/ Restart
    <2>1. /\ UNCHANGED <<blob, sum, config, candidate, allowed, acked>>
          /\ pc' \in {pc, "boot"}
      BY <1>10 DEF RadioRefuses, UploadStarts, UploadEnds, Restart, store
    <2>. QED  BY <1>0, <2>1
  <1>11. CASE UNCHANGED vars
    BY <1>0, <1>11 DEF vars, store
  <1>. QED  BY <1>1, <1>2, <1>3, <1>4, <1>5, <1>6, <1>7, <1>8, <1>9, <1>10, <1>11 DEF Next

-----------------------------------------------------------------------------
(* The radio and the configuration in force *)

RadioInv == RadioHeld /\ RadioFollowsConfig

LEMMA InitRadio == Init => RadioInv
  BY DEF Init, RadioInv, RadioHeld, RadioFollowsConfig, Saving

LEMMA NextRadio ==
  ASSUME StepHeld, RadioInv, [Next]_vars
  PROVE  RadioInv'
  <1>. USE DEF RadioInv, RadioHeld, RadioFollowsConfig, Saving
  <1>1. CASE Bootloader
    BY <1>1 DEF Bootloader
  <1>2. CASE LoadFails \/ LoadCurrent \/ LoadLegacy
    <2>1. pc = "load" /\ booting' = booting /\ pc' \in {"validate", "put config"}
      BY <1>2 DEF LoadFails, LoadCurrent, LoadLegacy, ReadBoot, Unchanged
    <2>. QED  BY <2>1 DEF StepHeld
  <1>3. CASE PutConfig
    BY <1>3 DEF PutConfig
  <1>4. CASE PutChecksum
    <2>1. pc = "put checksum" /\ (SavedByLoad(TRUE) \/ SavedByLoad(FALSE) \/ RequestGranted \/ RequestRefused)
      BY <1>4 DEF PutChecksum, SavedByLoad
    <2>. QED  BY <2>1 DEF SavedByLoad, RequestGranted, RequestRefused, RadioAfterRefusal
  <1>5. CASE SaveNotOpened
    <2>1. pc = "put config" /\ (SavedByLoad(FALSE) \/ RequestRefused)
      BY <1>5 DEF SaveNotOpened
    <2>. QED  BY <2>1 DEF SavedByLoad, RequestRefused, RadioAfterRefusal
  <1>6. CASE Validate
    <2>1. pc' \in {"boot", "ready"}
      BY <1>6 DEF Validate, CompleteBootValidation
    <2>. QED  BY <1>6, <2>1 DEF Validate
  <1>7. CASE \E c \in Requests : ApplyConfiguration(c)
    <2>1. PICK c \in Requests : ApplyConfiguration(c)
      BY <1>7
    <2>. QED  BY <2>1 DEF ApplyConfiguration
  <1>8. CASE RadioRefuses
    BY <1>8 DEF RadioRefuses
  <1>9. CASE UploadStarts \/ UploadEnds \/ Restart
    <2>1. UNCHANGED <<booting, config, radio, candidate>> /\ pc' \in {pc, "boot"}
      BY <1>9 DEF UploadStarts, UploadEnds, Restart
    <2>. QED  BY <2>1
  <1>10. CASE UNCHANGED vars
    BY <1>10 DEF vars
  <1>. QED  BY <1>1, <1>2, <1>3, <1>4, <1>5, <1>6, <1>7, <1>8, <1>9, <1>10 DEF Next

LEMMA ConfigInvariant == Spec => []ConfigInv
  <1>1. ConfigInv <=> TypeInv /\ StepHeld /\ GhostInv /\ RadioInv
    BY DEF ConfigInv, TypeInv, GhostInv, RadioInv
  <1>2. Init => ConfigInv
    BY <1>1, InitTypes, InitStep, InitGhost, InitRadio DEF GhostInv
  <1>3. ConfigInv /\ [Next]_vars => ConfigInv'
    <2>. SUFFICES ASSUME ConfigInv, [Next]_vars PROVE ConfigInv'
      OBVIOUS
    <2>1. TypeInv' /\ StepHeld' /\ GhostInv' /\ RadioInv'
      BY <1>1, NextTypes, NextStep, NextGhost, NextRadio DEF TypeInv
    <2>. QED  BY <2>1 DEF ConfigInv, TypeInv, GhostInv, RadioInv
  <1>. QED  BY <1>2, <1>3, PTL DEF Spec

\* No older configuration ever returns: neither two halves of saves that failed nor
\* the legacy copy put one in force that a later request replaced
\* (config_store.cpp:51-74).
THEOREM NeverSuperseded == Spec => []SupersededNeverReturns
  <1>1. ConfigInv => SupersededNeverReturns
    BY DEF ConfigInv
  <1>. QED  BY <1>1, ConfigInvariant, PTL

\* What was stored and acknowledged is in flash until the next request, whatever
\* boots, is uploaded or is rolled back in between.
THEOREM AcknowledgedKept == Spec => []AcknowledgedSurvives
  <1>1. ConfigInv => AcknowledgedSurvives
    BY DEF ConfigInv
  <1>. QED  BY <1>1, ConfigInvariant, PTL

\* When no change is under way the radio has the settings of the configuration in
\* force or is known not to work, also after a change that could not be stored
\* (node_app.cpp:822-832).
THEOREM RadioFollows == Spec => []RadioFollowsConfig
  <1>1. ConfigInv => RadioFollowsConfig
    BY DEF ConfigInv
  <1>. QED  BY <1>1, ConfigInvariant, PTL

-----------------------------------------------------------------------------
(* The images *)

\* A partition the bootloader starts without trying it out.
Kept(s) == slots[s].image # NoImage /\ slots[s].state \in {"undefined", "valid"}

LEMMA BootableKept ==
  AlwaysBootable <=> /\ \E s \in Slots : Kept(s)
                     /\ \A s \in Slots : Kept(s) => slots[s].image.sound
  BY DEF AlwaysBootable, Kept

LEMMA RollBackKept == ASSUME running \in Slots PROVE CanRollBack <=> Kept(Other(running))
  BY DEF CanRollBack, Kept

LEMMA InitImage == Init => ImageHeld /\ AlwaysBootable
  <1>. SUFFICES ASSUME Init PROVE ImageHeld /\ AlwaysBootable
    OBVIOUS
  <1>1. PICK l \in Layouts :
          slots = [s \in Slots |-> IF s = "ota_0"
                     THEN [image |-> [layout |-> l, sound |-> TRUE], state |-> "undefined"]
                     ELSE [image |-> NoImage, state |-> "undefined"]]
    BY DEF Init
  <1>2. "ota_0" \in Slots /\ slots["ota_0"].image = [layout |-> l, sound |-> TRUE]
        /\ slots["ota_0"].state = "undefined"
    BY <1>1 DEF Slots
  <1>3. \A s \in Slots : s # "ota_0" => slots[s].image = NoImage
    BY <1>1
  <1>4. [layout |-> l, sound |-> TRUE] # NoImage
    BY DEF NoImage
  <1>5. Kept("ota_0") /\ slots["ota_0"].image.sound
    BY <1>2, <1>4 DEF Kept
  <1>6. \A s \in Slots : Kept(s) => s = "ota_0"
    BY <1>3 DEF Kept
  <1>7. AlwaysBootable
    BY <1>2, <1>5, <1>6, BootableKept
  <1>. QED  BY <1>7 DEF Init, ImageHeld, Saving

\* Where no image is given another state or replaced, nothing changes for the
\* bootloader.
LEMMA ImageKept ==
  ASSUME ImageHeld, AlwaysBootable, UNCHANGED <<slots, running>>,
         pc' = "boot" \/ (pc' = pc /\ booting' = booting)
  PROVE  ImageHeld' /\ AlwaysBootable'
  BY DEF ImageHeld, AlwaysBootable, Saving

LEMMA NextImage ==
  ASSUME "otadata" \notin Faults, TypeOK, StepHeld, ImageHeld, AlwaysBootable, [Next]_vars
  PROVE  ImageHeld' /\ AlwaysBootable'
  <1>0. /\ running \in Slots /\ Other(running) \in Slots /\ Other(running) # running
        /\ Slots = {running, Other(running)}
        /\ \A s \in Slots : slots[s] \in [image : Images \union {NoImage},
                               state : {"undefined", "new", "pending", "valid", "aborted", "invalid"}]
    BY OtherSlot DEF TypeOK
  <1>1. CASE Bootloader
    <2>1. \A s \in Slots : Kept(s)' <=> Kept(s)
      BY <1>1, BootloaderOutcome DEF Kept
    <2>2. \A s \in Slots : slots'[s].image.sound = slots[s].image.sound
      BY <1>1, BootloaderOutcome
    <2>3. AlwaysBootable'
      BY <2>1, <2>2, BootableKept DEF AlwaysBootable, Kept
    <2>. QED  BY <1>1, <2>3, BootloaderOutcome DEF Bootloader, ImageHeld, Saving
  <1>2. CASE LoadFails \/ LoadCurrent \/ LoadLegacy
    <2>1. /\ pc = "load" /\ slots[running].image.sound /\ UNCHANGED <<slots, running, booting>>
          /\ pc' \in {"validate", "put config"}
      BY <1>2 DEF LoadFails, LoadCurrent, LoadLegacy, ReadBoot, Unchanged, image
    <2>. QED  BY <2>1 DEF ImageHeld, AlwaysBootable, StepHeld, Saving
  <1>3. CASE PutConfig \/ PutChecksum \/ SaveNotOpened
    <2>1. UNCHANGED <<slots, running, booting>> /\ Saving
      BY <1>3 DEF PutConfig, PutChecksum, SaveNotOpened, image, Saving
    <2>2. \/ pc' = "put checksum"
          \/ pc' = "validate" /\ booting
          \/ pc' = "ready" /\ ~booting
      BY <1>3 DEF PutConfig, PutChecksum, SaveNotOpened, SavedByLoad, RequestGranted, RequestRefused
    <2>. QED  BY <2>1, <2>2 DEF ImageHeld, AlwaysBootable, Saving
  <1>4. CASE Validate
    <2>1. PICK sane \in BOOLEAN : CompleteBootValidation(sane)
      BY <1>4 DEF Validate
    <2>2. PICK state \in {"invalid", "valid", slots[running].state} : Outcome(state, sane)
      BY <2>1, ValidationOutcome
    <2>3. /\ slots[running].image.sound /\ slots[running].image # NoImage
          /\ slots[running].state \in {"undefined", "pending", "valid"}
      BY <1>4 DEF Validate, ImageHeld, StepHeld
    <2>4. /\ slots'[running].image = slots[running].image /\ slots'[running].state = state
          /\ slots'[Other(running)] = slots[Other(running)] /\ running' = running
      BY <1>0, <1>4, <2>2 DEF Validate, Outcome, TypeOK
    <2>5. Kept(Other(running))' <=> Kept(Other(running))
      BY <2>4 DEF Kept, Other
    <2>6. slots[running].state = "pending" => CanRollBack
      <3>1. slots[running].state = "pending" => Kept(Other(running))
        BY <1>0, BootableKept DEF Kept
      <3>. QED  BY <1>0, <3>1, RollBackKept
    <2>7. \/ state = "invalid" /\ pc' = "boot" /\ Kept(Other(running))
          \/ state \in {"undefined", "valid"} /\ pc' = "ready" /\ ~booting'
      BY <1>0, <2>2, <2>3, <2>6, RollBackKept DEF Outcome, Marks
    <2>. QED  BY <1>0, <2>2, <2>3, <2>4, <2>5, <2>7, BootableKept
           DEF ImageHeld, Saving, AlwaysBootable, Kept
  <1>5. CASE \E c \in Requests : ApplyConfiguration(c)
    <2>1. pc = "ready" /\ pc' = "put config" /\ UNCHANGED <<slots, running, booting>>
      BY <1>5 DEF ApplyConfiguration, image
    <2>. QED  BY <2>1 DEF ImageHeld, AlwaysBootable, StepHeld, Saving
  <1>6. CASE RadioRefuses \/ Restart
    BY <1>6, ImageKept DEF RadioRefuses, Restart, image
  <1>7. CASE UploadStarts \/ UploadEnds
    <2>1. /\ pc = "ready" /\ pc' = pc /\ UNCHANGED <<booting, running>>
          /\ slots'[running] = slots[running]
          /\ slots'[Other(running)].image = NoImage \/ slots'[Other(running)].state = "new"
      <3>1. CASE UploadStarts
        BY <1>0, <3>1 DEF UploadStarts, TypeOK
      <3>2. CASE UploadEnds
        BY <1>0, <3>2 DEF UploadEnds, TypeOK
      <3>. QED  BY <1>7, <3>1, <3>2
    <2>2. slots[running].state \in {"undefined", "valid"} /\ slots[running].image # NoImage
          /\ slots[running].image.sound
      BY <2>1 DEF ImageHeld, StepHeld
    <2>3. AlwaysBootable'
      BY <1>0, <2>1, <2>2 DEF AlwaysBootable
    <2>. QED  BY <2>1, <2>2, <2>3 DEF ImageHeld, Saving
  <1>8. CASE UNCHANGED vars
    BY <1>8, ImageKept DEF vars, image
  <1>. QED  BY <1>1, <1>2, <1>3, <1>4, <1>5, <1>6, <1>7, <1>8 DEF Next

\* The bootloader always has an image that it need not try out, and each of those
\* is sound, provided that a write of otadata does what it reports (a mark that
\* fails leaves the running image pending while the portal may already overwrite
\* the other one, ota_manager.cpp:84).
THEOREM AlwaysAnImage ==
  ASSUME "otadata" \notin Faults
  PROVE  Spec => []AlwaysBootable
  <1>1. Init => ImageInv
    BY InitTypes, InitStep, InitImage DEF ImageInv, TypeInv
  <1>2. ImageInv /\ [Next]_vars => ImageInv'
    <2>. SUFFICES ASSUME ImageInv, [Next]_vars PROVE ImageInv'
      OBVIOUS
    <2>1. TypeInv' /\ StepHeld' /\ ImageHeld' /\ AlwaysBootable'
      BY NextTypes, NextStep, NextImage DEF ImageInv, TypeInv
    <2>. QED  BY <2>1 DEF ImageInv, TypeInv
  <1>3. ImageInv => AlwaysBootable
    BY DEF ImageInv
  <1>. QED  BY <1>1, <1>2, <1>3, PTL DEF Spec
=============================================================================
