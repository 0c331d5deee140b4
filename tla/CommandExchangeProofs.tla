------------------------ MODULE CommandExchangeProofs ------------------------
(***************************************************************************)
(* What is proved of CommandExchange for every number space, every count   *)
(* of attempts, commands and sessions, and every set of faults.  The first *)
(* half looks at one exchange; the second shows that the exchanges keep    *)
(* the promise of CommandService, with what follows on the way: no command *)
(* is older than the durable one, and none opens two windows.  It goes     *)
(* through what a step does to the two images, whichever action takes it.  *)
(***************************************************************************)
EXTENDS CommandExchange, TLAPS

-----------------------------------------------------------------------------
(* Types *)

\* A commit leaves an image in flash.
LEMMA CommitType ==
  ASSUME flash \in Image, NEW image \in Image, NEW ok, Commit(image, ok)
  PROVE  flash' \in Image
  BY DEF Commit

LEMMA FreshType ==
  ASSUME NEW session \in 1..MaxSessions
  PROVE  Fresh(session) \in Image
  <1>1. 1 \in Numbers
    BY LastSequenceAssumption DEF Numbers
  <1>2. NoCommand \in Command
    BY MaxIssuedAssumption DEF NoCommand, Command, Codes
  <1>3. 0 \in 0..MaxIssued
    BY MaxIssuedAssumption
  <1>. QED  BY <1>1, <1>2, <1>3 DEF Fresh, Image

\* Changing one field of an image, or of a command, keeps its type.
LEMMA ImageTypes ==
  ASSUME NEW r \in Image
  PROVE  /\ r.next < LastSequence => [r EXCEPT !.next = @ + 1] \in Image
         /\ \A c \in Command : [r EXCEPT !.command = c] \in Image
         /\ \A id \in 0..MaxIssued : [r EXCEPT !.sched = id] \in Image
  <1>1. r.next < LastSequence => r.next + 1 \in Numbers
    BY LastSequenceAssumption DEF Image, Numbers
  <1>. QED  BY <1>1 DEF Image

LEMMA CommandFieldTypes ==
  ASSUME NEW c \in Command
  PROVE  /\ [c EXCEPT !.phase = "completed"] \in Command
         /\ [c EXCEPT !.phase = "completed", !.result = "storage"] \in Command
         /\ \A code \in Codes : [c EXCEPT !.result = code] \in Command
  BY DEF Command, Codes

LEMMA NoExchangeType ==
  ASSUME NoExchange
  PROVE  /\ seq' \in 0..LastSequence /\ attempts' \in 0..MaxAttempts
         /\ cur' \in Command /\ entering' \in BOOLEAN
  <1>1. seq' \in 0..LastSequence /\ attempts' \in 0..MaxAttempts
    BY LastSequenceAssumption, MaxAttemptsAssumption DEF NoExchange
  <1>2. NoCommand \in Command
    BY MaxIssuedAssumption DEF NoCommand, Command, Codes
  <1>. QED  BY <1>1, <1>2 DEF NoExchange

\* Persisting, booting and resetting keep every type.
LEMMA PersistenceTypes ==
  ASSUME TypeOK, Persistence
  PROVE  TypeOK'
  <1>. USE DEF TypeOK, exchange, stored, gateway, air
  <1>1. CASE Boot
    <2>1. /\ ram' \in Image /\ flash' \in Image /\ sessions' \in 1..MaxSessions
          /\ ready' \in {"yes", "unsaved", "no"}
      <3>1. CASE ram' = flash /\ ready' = "yes" /\ UNCHANGED <<flash, sessions>>
        BY <3>1
      <3>2. CASE /\ sessions < MaxSessions /\ sessions' = sessions + 1
                 /\ ram' = Fresh(sessions')
                 /\ \/ flash' = ram' /\ ready' = "yes"
                    \/ flash' = flash /\ ready' = "unsaved"
        <4>1. sessions' \in 1..MaxSessions
          BY <3>2, MaxSessionsAssumption
        <4>. QED  BY <3>2, <4>1, FreshType
      <3>3. CASE ram' = flash /\ ready' = "no" /\ UNCHANGED <<flash, sessions>>
        BY <3>3
      <3>. QED  BY <1>1, <3>1, <3>2, <3>3 DEF Boot
    <2>. QED  BY <1>1, <2>1, NoExchangeType DEF Boot
  <1>2. CASE AllocateSequence
    <2>1. /\ ram' \in Image /\ flash' \in Image /\ seq' \in 0..LastSequence
          /\ pc' \in {"send", "store", "portal"}
      <3>1. CASE /\ ram.next < LastSequence
                 /\ ram' = [ram EXCEPT !.next = @ + 1]
                 /\ flash' = ram' \/ flash' = flash
                 /\ seq' = ram.next /\ pc' = "send"
        BY <3>1, ImageTypes DEF Image, Numbers
      <3>2. CASE seq' = 0 /\ UNCHANGED <<flash, ram>> /\ pc' \in {"store", "portal"}
        BY <3>2, LastSequenceAssumption
      <3>. QED  BY <1>2, <3>1, <3>2 DEF AllocateSequence, NumberSaved, Commit
    <2>2. attempts' \in 0..MaxAttempts
      BY <1>2, MaxAttemptsAssumption DEF AllocateSequence
    <2>. QED  BY <1>2, <2>1, <2>2 DEF AllocateSequence
  <1>3. CASE Store
    BY <1>3, NoExchangeType DEF Store, Commit
  <1>4. CASE EnterMaintenance
    <2>1. entered' \subseteq (1..MaxSessions) \X (0..MaxIssued)
      BY <1>4 DEF EnterMaintenance, Command, Image
    <2>. QED  BY <1>4, <2>1, NoExchangeType DEF EnterMaintenance, Commit
  <1>5. CASE LeavePortal
    BY <1>5 DEF LeavePortal
  <1>6. CASE FinalPowerOff
    BY <1>6 DEF FinalPowerOff, Commit
  <1>7. CASE Reset
    BY <1>7, NoExchangeType DEF Reset
  <1>8. CASE MeasureNow
    <2>1. ram' \in Image /\ flash' \in {flash, ram, ram'}
      BY <1>8, ImageTypes DEF MeasureNow, NumberSaved, Commit
    <2>. QED  BY <1>8, <2>1 DEF MeasureNow
  <1>. QED  BY <1>1, <1>2, <1>3, <1>4, <1>5, <1>6, <1>7, <1>8 DEF Persistence

TypeInv == TypeOK /\ ExchangeHeld

\* The radio keeps every type.
LEMMA RadioTypes ==
  ASSUME TypeInv, Radio
  PROVE  TypeOK'
  <1>. USE DEF TypeInv, TypeOK, exchange, stored, gateway, air
  <1>1. CASE Send
    <2>1. attempts' \in 0..MaxAttempts
      BY <1>1, MaxAttemptsAssumption DEF Send, ExchangeHeld
    <2>2. Current \in Packet
      BY <1>1 DEF Send, ExchangeHeld, Current, Packet, Image
    <2>3. telemetry' \subseteq Packet
      BY <1>1, <2>2 DEF Send
    <2>. QED  BY <1>1, <2>1, <2>3 DEF Send, AfterAttempt, ExchangeEnds
  <1>2. CASE WaitEnds
    BY <1>2 DEF WaitEnds, AfterAttempt, ExchangeEnds
  <1>3. ASSUME NEW a \in acks, ReceiveAck(a)
        PROVE  TypeOK'
    <2>1. ram.command \in Command /\ a.request \in Request
      BY DEF Image, Ack
    <2>2. \A phase \in {"received", "completed"}, result \in {"none", "invalid"} :
            Begun(a.request, phase, result) \in Command
      BY <2>1 DEF Begun, Request, Command, Codes
    <2>3. NoCommand \in Command
      BY MaxIssuedAssumption DEF NoCommand, Command
    <2>4. cur' \in Command /\ pc' \in {"store", "report", "apply", "receipt"}
      BY <1>3, <2>1, <2>2, <2>3 DEF ReceiveAck
    <2>. QED  BY <1>3, <2>4 DEF ReceiveAck
  <1>4. CASE Report
    BY <1>4 DEF Report, Command
  <1>. QED  BY <1>1, <1>2, <1>3, <1>4 DEF Radio

\* Handling a command keeps every type.
LEMMA HandlingTypes ==
  ASSUME TypeInv, Handling
  PROVE  TypeOK'
  <1>. USE DEF TypeInv, TypeOK, exchange, stored, gateway, air
  <1>1. CASE PersistReceipt
    <2>1. PICK ok \in Saves :
            /\ ram' = IF ready = "yes" THEN [ram EXCEPT !.command = cur] ELSE ram
            /\ Commit(ram', ok /\ ready = "yes")
            /\ ReceiptOutcome(ok /\ ready = "yes")
      BY <1>1 DEF PersistReceipt
    <2>2. ram' \in Image
      BY <2>1, ImageTypes
    <2>3. flash' \in Image
      BY <2>1, <2>2 DEF Commit
    <2>4. cur' \in Command /\ pc' \in {"apply", "report"}
      BY <2>1, CommandFieldTypes DEF ReceiptOutcome
    <2>. QED  BY <1>1, <2>2, <2>3, <2>4 DEF PersistReceipt
  <1>2. ASSUME NEW code \in Codes, Applied(code)
        PROVE  cur' \in Command /\ pc' = "result"
    BY <1>2, CommandFieldTypes DEF Applied
  <1>3. CASE ApplyEnter
    <2>1. "applied" \in Codes
      BY DEF Codes
    <2>. QED  BY <1>2, <1>3, <2>1 DEF ApplyEnter
  <1>4. CASE ApplyPoll
    <2>1. "applied" \in Codes /\ "storage" \in Codes /\ cur.id \in 0..MaxIssued
      BY DEF Codes, Command
    <2>. QED  BY <1>2, <1>4, <2>1 DEF ApplyPoll, PollOutcome
  <1>5. CASE ApplySchedule
    <2>1. "refused" \in Codes /\ "storage" \in Codes /\ cur.id \in 0..MaxIssued
      BY DEF Codes, Command
    <2>2. cur' \in Command /\ pc' \in {"result", "alarm"}
      BY <1>2, <1>5, <2>1 DEF ApplySchedule
    <2>3. ram' \in Image
      BY <1>5, <2>1, ImageTypes DEF ApplySchedule
    <2>4. flash' \in Image
      BY <1>5, <2>3 DEF ApplySchedule, Commit
    <2>. QED  BY <1>5, <2>2, <2>3, <2>4 DEF ApplySchedule
  <1>6. CASE ProgramSchedule
    <2>1. "applied" \in Codes /\ "internal" \in Codes /\ 0 \in 0..MaxIssued
      BY MaxIssuedAssumption DEF Codes
    <2>2. cur' \in Command /\ pc' = "result"
      BY <1>2, <1>6, <2>1 DEF ProgramSchedule
    <2>3. ram' \in Image
      BY <1>6, <2>1, ImageTypes DEF ProgramSchedule
    <2>4. flash' \in Image
      BY <1>6, <2>3 DEF ProgramSchedule, Commit
    <2>. QED  BY <1>6, <2>2, <2>3, <2>4 DEF ProgramSchedule
  <1>7. CASE PersistResult
    <2>1. ram' \in Image
      BY <1>7, ImageTypes, CommandFieldTypes DEF PersistResult
    <2>2. flash' \in Image
      BY <1>7, <2>1 DEF PersistResult, Commit
    <2>3. "storage" \in Codes
      BY DEF Codes
    <2>4. cur' \in Command
      BY <1>7, <2>3, CommandFieldTypes DEF PersistResult, Outcome
    <2>5. entering' \in BOOLEAN
      BY <1>7 DEF PersistResult
    <2>6. entered' \subseteq (1..MaxSessions) \X (0..MaxIssued)
      BY <1>7 DEF PersistResult, Command, Image
    <2>. QED  BY <1>7, <2>1, <2>2, <2>4, <2>5, <2>6 DEF PersistResult
  <1>. QED  BY <1>1, <1>3, <1>4, <1>5, <1>6, <1>7 DEF Handling

\* So does what the gateway does.
LEMMA GatewayTypes ==
  ASSUME TypeOK, Gateway
  PROVE  TypeOK'
  <1>. USE DEF TypeOK, node, exchange, stored, air
  <1>1. CASE Issue
    <2>1. issued' \in 0..MaxIssued
      BY <1>1, MaxIssuedAssumption DEF Issue
    <2>2. pending' \in Request
      BY <1>1, <2>1, TypesAssumption DEF Issue, Request, CommandTypes
    <2>. QED  BY <1>1, <2>1, <2>2 DEF Issue
  <1>2. CASE Reissue
    <2>1. pending' \in Request
      <3>1. PICK type \in Types : pending' = [id |-> issued, type |-> type]
        BY <1>2 DEF Reissue
      <3>. QED  BY <3>1, TypesAssumption DEF Request, CommandTypes
    <2>. QED  BY <1>2, <2>1 DEF Reissue
  <1>3. CASE Answer
    <2>1. acks' \subseteq Ack
      BY <1>3 DEF Answer, Ack
    <2>. QED  BY <1>3, <2>1 DEF Answer, gateway
  <1>4. CASE Confirm
    <2>1. NoRequest \in Request
      BY MaxIssuedAssumption DEF NoRequest, Request
    <2>. QED  BY <1>4, <2>1 DEF Confirm
  <1>. QED  BY <1>1, <1>2, <1>3, <1>4 DEF Gateway

\* A running exchange holds a number that both images have taken.
LEMMA ExchangeKept ==
  ASSUME TypeInv, [Next]_vars
  PROVE  ExchangeHeld'
  <1>. USE DEF TypeInv, ExchangeHeld
  <1>1. CASE AllocateSequence
    <2>1. CASE pc' = "send"
      <3>1. /\ ram.next < LastSequence /\ ram' = [ram EXCEPT !.next = @ + 1]
            /\ flash' = ram' /\ seq' = ram.next /\ attempts' = 0
        BY <1>1, <2>1 DEF AllocateSequence, NumberSaved, Commit
      <3>2. ram'.next = ram.next + 1 /\ ram.next \in Numbers
        BY <3>1 DEF TypeOK, Image
      <3>. QED  BY <2>1, <3>1, <3>2, MaxAttemptsAssumption DEF Numbers
    <2>. QED  BY <1>1, <2>1 DEF AllocateSequence
  <1>2. CASE Boot \/ Store \/ EnterMaintenance \/ LeavePortal \/ FinalPowerOff \/ Reset
    BY <1>2 DEF Boot, Store, EnterMaintenance, LeavePortal, FinalPowerOff, Reset
  <1>3. CASE Send
    BY <1>3 DEF Send, AfterAttempt, ExchangeEnds, stored, TypeOK
  <1>4. CASE WaitEnds
    BY <1>4 DEF WaitEnds, AfterAttempt, ExchangeEnds, stored, exchange
  <1>5. CASE (\E a \in acks : ReceiveAck(a)) \/ Report
    BY <1>5 DEF ReceiveAck, Report
  <1>6. CASE Handling
    BY <1>6 DEF Handling, PersistReceipt, ReceiptOutcome, ApplyEnter, ApplyPoll, PollOutcome,
                ApplySchedule, ProgramSchedule, PersistResult, Applied
  <1>7. CASE Gateway \/ UNCHANGED vars
    BY <1>7 DEF Gateway, Issue, Reissue, Answer, Confirm, vars, node, stored, exchange
  <1>8. CASE MeasureNow
    BY <1>8 DEF MeasureNow
  <1>. QED  BY <1>1, <1>2, <1>3, <1>4, <1>5, <1>6, <1>7, <1>8 DEF Next, Persistence, Radio

\* Types and the numbers of a running exchange are an inductive invariant.
LEMMA TypeInvariant == Spec => []TypeInv
  <1>1. Init => TypeInv
    <2>. SUFFICES ASSUME Init
                  PROVE  TypeInv
      OBVIOUS
    <2>1. 1 \in 1..MaxSessions
      BY MaxSessionsAssumption
    <2>2. ram \in Image /\ flash \in Image
      BY <2>1, FreshType DEF Init
    <2>3. cur \in Command /\ pending \in Request
      BY MaxIssuedAssumption DEF Init, NoCommand, NoRequest, Command, Request
    <2>4. /\ seq \in 0..LastSequence /\ attempts \in 0..MaxAttempts
          /\ config \in 0..MaxIssued /\ issued \in 0..MaxIssued
      BY LastSequenceAssumption, MaxAttemptsAssumption, MaxIssuedAssumption DEF Init
    <2>5. /\ pc = "boot" /\ mode = "cycle" /\ ready = "yes" /\ entering = FALSE
          /\ telemetry = {} /\ acks = {} /\ results = {} /\ entered = {}
          /\ sessions = 1
      BY DEF Init
    <2>. QED  BY <2>1, <2>2, <2>3, <2>4, <2>5 DEF TypeInv, TypeOK, ExchangeHeld
  <1>2. TypeInv /\ [Next]_vars => TypeInv'
    <2>. SUFFICES ASSUME TypeInv, [Next]_vars
                  PROVE  TypeOK'
      BY ExchangeKept DEF TypeInv
    <2>1. CASE UNCHANGED vars
      BY <2>1 DEF TypeInv, TypeOK, vars, node, stored, exchange, gateway, air
    <2>. QED  BY <2>1, PersistenceTypes, RadioTypes, HandlingTypes, GatewayTypes
              DEF Next, TypeInv
  <1>. QED  BY <1>1, <1>2, PTL DEF Spec

\* Every variable keeps its type in every behaviour.
THEOREM TypeCorrect == Spec => []TypeOK
  <1>1. TypeInv => TypeOK
    BY DEF TypeInv
  <1>. QED  BY <1>1, TypeInvariant, PTL

-----------------------------------------------------------------------------
(* Sequence numbers *)

\* What does not touch images, numbers or packets keeps the invariant.
LEMMA NumbersUntouched ==
  ASSUME NumberInv, TypeInv, UNCHANGED <<ram, flash, telemetry, sessions>>,
         pc' = "send" => pc = "send" /\ seq' = seq /\ attempts' = attempts
  PROVE  NumberInv'
  BY DEF NumberInv, TakenBelow, SequenceFresh, Current

\* Nor does changing what an image says of commands, nor committing it.
LEMMA NumbersOfImages ==
  ASSUME NumberInv, TypeInv, UNCHANGED <<telemetry, sessions>>, pc' # "send",
         ram'.session = ram.session, ram'.next = ram.next,
         flash' \in {flash, ram'}
  PROVE  NumberInv'
  BY DEF NumberInv, TakenBelow, SequenceFresh

LEMMA NumbersTaken ==
  ASSUME NumberInv, TypeInv, AllocateSequence
  PROVE  NumberInv'
  <1>1. CASE pc' = "send"
    <2>1. /\ ram' = [ram EXCEPT !.next = @ + 1] /\ flash' = ram'
          /\ seq' = ram.next /\ UNCHANGED <<telemetry, sessions>>
      BY <1>1 DEF AllocateSequence, NumberSaved, Commit, TypeInv, TypeOK, air
    <2>2. ram.next \in Nat /\ ram'.next = ram.next + 1 /\ ram'.session = ram.session
      BY <2>1, LastSequenceAssumption DEF TypeInv, TypeOK, Image, Numbers
    <2>3. \A packet \in telemetry : packet.seq \in Nat
      BY LastSequenceAssumption DEF TypeInv, TypeOK, Packet, Numbers
    <2>4. \A packet \in telemetry : packet.session = ram.session => packet.seq < ram.next
      BY DEF NumberInv, TakenBelow
    <2>5. TakenBelow(ram)' /\ TakenBelow(flash)'
      BY <2>1, <2>2, <2>3, <2>4 DEF NumberInv, TakenBelow
    <2>6. SequenceFresh'
      <3>1. Current' = [session |-> ram.session, seq |-> ram.next]
        BY <2>1, <2>2 DEF Current
      <3>2. [session |-> ram.session, seq |-> ram.next] \notin telemetry
        BY <2>2, <2>4
      <3>. QED  BY <2>1, <3>1, <3>2 DEF SequenceFresh
    <2>. QED  BY <2>1, <2>5, <2>6 DEF NumberInv
  <1>2. CASE pc' # "send"
    BY <1>2, NumbersUntouched DEF AllocateSequence, air
  <1>. QED  BY <1>1, <1>2

LEMMA NumbersMeasured ==
  ASSUME NumberInv, TypeInv, MeasureNow
  PROVE  NumberInv'
  <1>1. pc' # "send" /\ UNCHANGED <<telemetry, sessions>>
    BY DEF MeasureNow, air
  <1>2. CASE ram' = ram /\ flash' \in {flash, ram}
    BY <1>1, <1>2, NumbersOfImages
  <1>3. CASE ram' = [ram EXCEPT !.next = @ + 1] /\ flash' = ram'
    <2>1. ram.next \in Nat /\ ram'.next = ram.next + 1 /\ ram'.session = ram.session
      BY <1>3, LastSequenceAssumption DEF TypeInv, TypeOK, Image, Numbers
    <2>2. \A packet \in telemetry : packet.seq \in Nat
      BY LastSequenceAssumption DEF TypeInv, TypeOK, Packet, Numbers
    <2>. QED  BY <1>1, <1>3, <2>1, <2>2 DEF NumberInv, TakenBelow, SequenceFresh
  <1>. QED  BY <1>2, <1>3 DEF MeasureNow, NumberSaved, Commit

LEMMA NumbersBooted ==
  ASSUME NumberInv, TypeInv, Boot
  PROVE  NumberInv'
  <1>1. pc' # "send" /\ UNCHANGED telemetry
    BY DEF Boot, air
  <1>2. CASE ram' = flash /\ UNCHANGED <<flash, sessions>>
    BY <1>1, <1>2 DEF NumberInv, TakenBelow, SequenceFresh
  <1>3. CASE /\ sessions' = sessions + 1 /\ ram' = Fresh(sessions')
             /\ flash' \in {flash, ram'}
    <2>1. sessions \in Nat /\ sessions' > sessions
      BY <1>3, MaxSessionsAssumption DEF TypeInv, TypeOK
    <2>2. \A packet \in telemetry : packet.session <= sessions /\ packet.session \in Nat
      BY MaxSessionsAssumption DEF NumberInv, TypeInv, TypeOK, Packet
    <2>3. TakenBelow(ram)'
      BY <1>1, <1>3, <2>1, <2>2 DEF TakenBelow, Fresh
    <2>4. flash.session \in Nat
      BY MaxSessionsAssumption DEF TypeInv, TypeOK, Image
    <2>5. TakenBelow(flash)'
      BY <1>1, <1>3, <2>1, <2>3, <2>4 DEF NumberInv, TakenBelow
    <2>. QED  BY <1>1, <1>3, <2>1, <2>2, <2>3, <2>5 DEF NumberInv, SequenceFresh
  <1>. QED  BY <1>2, <1>3 DEF Boot

LEMMA NumbersSent ==
  ASSUME NumberInv, TypeInv, Send
  PROVE  NumberInv'
  <1>1. /\ flash = ram /\ seq < ram.next /\ ram.session <= sessions
        /\ UNCHANGED <<ram, flash, sessions>>
        /\ telemetry' \subseteq telemetry \union {Current}
    BY DEF Send, TypeInv, ExchangeHeld, NumberInv, TakenBelow, stored
  <1>2. Current.session = ram.session /\ Current.seq = seq
    BY DEF Current
  <1>3. SequenceFresh'
    BY DEF SequenceFresh, Send, TypeInv, TypeOK
  <1>4. TakenBelow(ram)' /\ TakenBelow(flash)'
    BY <1>1, <1>2 DEF NumberInv, TakenBelow
  <1>. QED  BY <1>1, <1>2, <1>3, <1>4 DEF NumberInv

LEMMA NumberInvariant == Spec => []NumberInv
  <1>1. Init => NumberInv
    BY DEF Init, NumberInv, TakenBelow, SequenceFresh, Fresh
  <1>2. TypeInv /\ NumberInv /\ [Next]_vars => NumberInv'
    <2>. SUFFICES ASSUME TypeInv, NumberInv, [Next]_vars
                  PROVE  NumberInv'
      OBVIOUS
    <2>1. CASE Store \/ EnterMaintenance \/ FinalPowerOff
      BY <2>1, NumbersOfImages
      DEF Store, EnterMaintenance, FinalPowerOff, Commit, air
    <2>2. CASE LeavePortal
      BY <2>2, NumbersUntouched DEF LeavePortal, stored, air
    <2>3. CASE WaitEnds
      <3>1. /\ UNCHANGED <<ram, flash, telemetry, sessions>> /\ attempts' = attempts
            /\ attempts > 0
        BY <2>3 DEF WaitEnds, stored, air, exchange, TypeInv, ExchangeHeld
      <3>2. SequenceFresh'
        BY <3>1, MaxAttemptsAssumption DEF SequenceFresh, TypeInv, TypeOK
      <3>. QED  BY <3>1, <3>2 DEF NumberInv, TakenBelow
    <2>4. CASE (\E a \in acks : ReceiveAck(a)) \/ Report
      BY <2>4, NumbersUntouched DEF ReceiveAck, Report, stored, air
    <2>5. CASE Handling
      <3>1. ram \in Image /\ cur \in Command
        BY DEF TypeInv, TypeOK
      <3>2. /\ UNCHANGED <<telemetry, sessions>> /\ pc' # "send"
            /\ flash' \in {flash, ram'}
        BY <2>5 DEF Handling, PersistReceipt, ReceiptOutcome, ApplyEnter, ApplyPoll,
              PollOutcome, ApplySchedule, ProgramSchedule, PersistResult, Applied,
              Commit, stored, air
      <3>3. ram'.session = ram.session /\ ram'.next = ram.next
        BY <2>5, <3>1 DEF Handling, PersistReceipt, ApplyEnter, ApplyPoll,
              ApplySchedule, ProgramSchedule, PersistResult, stored, Image
      <3>. QED  BY <3>2, <3>3, NumbersOfImages
    <2>6. CASE Gateway \/ UNCHANGED vars
      <3>1. UNCHANGED <<ram, flash, telemetry, sessions, pc, seq, attempts>>
        BY <2>6 DEF Gateway, Issue, Reissue, Answer, Confirm, vars, node, stored,
                    exchange, air
      <3>. QED  BY <3>1, NumbersUntouched
    <2>7. CASE Reset
      BY <2>7 DEF Reset, air, NumberInv, TakenBelow, SequenceFresh
    <2>. QED  BY <2>1, <2>2, <2>3, <2>4, <2>5, <2>6, <2>7, NumbersTaken, NumbersMeasured,
                 NumbersBooted, NumbersSent DEF Next, Persistence, Radio
  <1>. QED  BY <1>1, <1>2, TypeInvariant, PTL DEF Spec

\* No reset, failed commit or replaced session makes a number be used twice.
THEOREM NumbersNotReused == Spec => []SequenceFresh
  <1>1. NumberInv => SequenceFresh
    BY DEF NumberInv
  <1>. QED  BY <1>1, NumberInvariant, PTL

-----------------------------------------------------------------------------
(* Commands *)

\* An image keeps telling the truth while neither it nor the interval changes,
\* and whatever happens while its command is undecided.
LEMMA TruthKept ==
  ASSUME CommandInv, config' = config,
         ram'.command = ram.command, ram'.sched = ram.sched,
         \/ flash'.command = flash.command /\ flash'.sched = flash.sched
         \/ flash'.command = ram'.command /\ flash'.sched = ram'.sched
  PROVE  ImagesTruthful'
  BY DEF CommandInv, ImagesTruthful, Truthful

LEMMA UndecidedIsTruthful ==
  ASSUME ram'.command.result = "none", flash'.command.result = "none"
  PROVE  ImagesTruthful'
  BY DEF ImagesTruthful, Truthful

\* Outside the handling of a command only what the images say matters.
LEMMA CommandsOutside ==
  ASSUME ImagesTruthful',
         pc' \notin {"receipt", "apply", "alarm", "result", "report"}
  PROVE  CommandInv'
  BY DEF CommandInv, ReceiptHeld, EffectHeld, ReportedIsDurable

LEMMA CommandsPersisted ==
  ASSUME CommandInv, TypeInv, Persistence
  PROVE  CommandInv'
  <1>1. CASE Boot
    <2>1. pc' \notin {"receipt", "apply", "alarm", "result", "report"} /\ config' = config
      BY <1>1 DEF Boot
    <2>2. CASE ram' = flash /\ flash' = flash
      BY <2>1, <2>2, CommandsOutside DEF CommandInv, ImagesTruthful, Truthful
    <2>3. CASE ram' = Fresh(sessions') /\ flash' \in {flash, ram'}
      <3>1. ImagesTruthful'
        BY <2>1, <2>3 DEF CommandInv, ImagesTruthful, Truthful, Fresh, NoCommand
      <3>. QED  BY <2>1, <3>1, CommandsOutside
    <2>. QED  BY <1>1, <2>2, <2>3 DEF Boot
  <1>2. CASE AllocateSequence \/ MeasureNow
    <2>1. pc' \notin {"receipt", "apply", "alarm", "result", "report"} /\ config' = config
      BY <1>2 DEF AllocateSequence, MeasureNow
    <2>2. ram \in Image
      BY DEF TypeInv, TypeOK
    <2>3. CASE ram' = ram /\ flash' \in {flash, ram'}
      BY <2>1, <2>3, TruthKept, CommandsOutside
    <2>4. CASE /\ ram' = [ram EXCEPT !.next = @ + 1]
               /\ flash' = flash \/ flash' = ram'
      <3>1. ram'.command = ram.command /\ ram'.sched = ram.sched
        BY <2>2, <2>4 DEF Image
      <3>2. ImagesTruthful'
        BY <2>1, <2>4, <3>1, TruthKept
      <3>. QED  BY <2>1, <3>2, CommandsOutside
    <2>. QED  BY <1>2, <2>3, <2>4
              DEF AllocateSequence, MeasureNow, NumberSaved, Commit
  <1>3. CASE Store \/ EnterMaintenance \/ FinalPowerOff \/ LeavePortal
    <2>1. /\ pc' \notin {"receipt", "apply", "alarm", "result", "report"} /\ config' = config
          /\ ram' = ram /\ flash' \in {flash, ram}
      BY <1>3 DEF Store, EnterMaintenance, FinalPowerOff, LeavePortal, Commit, stored
    <2>. QED  BY <2>1, TruthKept, CommandsOutside
  <1>4. CASE Reset
    <2>1. ram' = flash /\ flash' = flash /\ config' = config /\ pc' = "boot"
      BY <1>4 DEF Reset
    <2>. QED  BY <2>1, CommandsOutside DEF CommandInv, ImagesTruthful, Truthful
  <1>. QED  BY <1>1, <1>2, <1>3, <1>4 DEF Persistence

LEMMA CommandsOnAir ==
  ASSUME CommandInv, TypeInv, Radio
  PROVE  CommandInv'
  <1>1. UNCHANGED <<ram, flash, config>>
    BY DEF Radio, Send, WaitEnds, ReceiveAck, Report, stored
  <1>2. ImagesTruthful'
    BY <1>1, TruthKept
  <1>3. CASE Send \/ WaitEnds \/ Report
    <2>1. pc' \notin {"receipt", "apply", "alarm", "result", "report"}
      BY <1>3 DEF Send, WaitEnds, Report, AfterAttempt, ExchangeEnds
    <2>. QED  BY <1>2, <2>1, CommandsOutside
  <1>4. ASSUME NEW a \in acks, ReceiveAck(a)
        PROVE  CommandInv'
    <2>1. flash = ram
      BY <1>4 DEF ReceiveAck, TypeInv, ExchangeHeld
    <2>2. CASE pc' = "apply"
      <3>1. cur' = ram.command /\ ram.command.phase = "received"
        BY <1>4, <2>2 DEF ReceiveAck, IsInterrupted
      <3>2. ReceiptHeld'
        BY <1>1, <2>1, <3>1 DEF ReceiptHeld, CommandInv, ImagesTruthful, Truthful
      <3>. QED  BY <1>2, <2>2, <3>2 DEF CommandInv, EffectHeld, ReportedIsDurable
    <2>3. CASE pc' = "report"
      <3>1. cur' = ram.command \/ cur'.result = "invalid"
        BY <1>4, <2>3 DEF ReceiveAck, Begun
      <3>. QED  BY <1>1, <1>2, <2>1, <2>3, <3>1
                DEF CommandInv, ReceiptHeld, EffectHeld, ReportedIsDurable
    <2>4. CASE pc' = "receipt"
      <3>1. cur' = Begun(a.request, "received", "none")
        BY <1>4, <2>4 DEF ReceiveAck
      <3>. QED  BY <1>2, <2>4, <3>1
                DEF Begun, CommandInv, ReceiptHeld, EffectHeld, ReportedIsDurable
    <2>5. CASE pc' = "store"
      BY <1>2, <2>5, CommandsOutside
    <2>. QED  BY <1>4, <2>2, <2>3, <2>4, <2>5 DEF ReceiveAck
  <1>. QED  BY <1>3, <1>4 DEF Radio

LEMMA CommandReceived ==
  ASSUME CommandInv, TypeInv, PersistReceipt
  PROVE  CommandInv'
  <1>1. PICK ok \in Saves :
          /\ ram' = IF ready = "yes" THEN [ram EXCEPT !.command = cur] ELSE ram
          /\ Commit(ram', ok /\ ready = "yes")
          /\ ReceiptOutcome(ok /\ ready = "yes")
    BY DEF PersistReceipt
  <1>2. ram \in Image /\ config' = config /\ cur \in Command
    BY DEF PersistReceipt, TypeInv, TypeOK
  <1>3. ram'.command \in {ram.command, cur} /\ ram'.sched = ram.sched
    BY <1>1, <1>2 DEF Image
  <1>4. ImagesTruthful'
    <2>1. cur.phase = "received" /\ cur.result = "none"
      BY DEF PersistReceipt, CommandInv, ReceiptHeld
    <2>2. flash' = flash \/ flash' = ram'
      BY <1>1 DEF Commit
    <2>. QED  BY <1>2, <1>3, <2>1, <2>2 DEF CommandInv, ImagesTruthful, Truthful
  <1>5. CASE ok /\ ready = "yes"
    <2>1. pc' = "apply" /\ cur' = cur /\ ram'.command = cur /\ flash' = ram'
      BY <1>1, <1>2, <1>5 DEF Commit, ReceiptOutcome, Image
    <2>2. cur.result = "none"
      BY DEF PersistReceipt, CommandInv, ReceiptHeld
    <2>. QED  BY <1>4, <2>1, <2>2
              DEF CommandInv, ReceiptHeld, EffectHeld, ReportedIsDurable
  <1>6. CASE ~(ok /\ ready = "yes")
    <2>1. pc' = "report" /\ cur'.result = "storage"
      BY <1>1, <1>2, <1>6 DEF ReceiptOutcome, Command
    <2>. QED  BY <1>4, <2>1
              DEF CommandInv, ReceiptHeld, EffectHeld, ReportedIsDurable
  <1>. QED  BY <1>5, <1>6

\* Applying a command happens under its undecided receipt, so whatever it
\* changes the images stay truthful.
LEMMA CommandApplied ==
  ASSUME CommandInv, TypeInv, ApplyEnter \/ ApplyPoll \/ ApplySchedule \/ ProgramSchedule
  PROVE  CommandInv'
  <1>. DEFINE receipt(image) == image.command.id = cur.id /\ image.command.result = "none"
  <1>1. ram \in Image /\ cur \in Command
    BY DEF TypeInv, TypeOK
  <1>2. receipt(ram) /\ receipt(flash)
    BY DEF CommandInv, ReceiptHeld, ApplyEnter, ApplyPoll, ApplySchedule, ProgramSchedule
  <1>3. ram'.command = ram.command /\ flash' \in {flash, ram'}
    BY <1>1 DEF ApplyEnter, ApplyPoll, ApplySchedule, ProgramSchedule, Commit, stored, Image
  <1>4. \A code : Applied(code) =>
          pc' = "result" /\ cur'.id = cur.id /\ cur'.type = cur.type /\ cur'.result = code
    BY <1>1 DEF Applied, Command
  <1>5. pc' \in {"result", "alarm"} /\ cur'.id = cur.id /\ cur'.type = cur.type
    BY <1>4 DEF ApplyEnter, ApplyPoll, PollOutcome, ApplySchedule, ProgramSchedule
  <1>6. ReceiptHeld' /\ ReportedIsDurable'
    BY <1>2, <1>3, <1>5 DEF ReceiptHeld, ReportedIsDurable
  <1>7. ImagesTruthful'
    BY <1>2, <1>3, UndecidedIsTruthful
  <1>8. EffectHeld'
    <2>1. CASE ApplyEnter
      BY <1>4, <1>5, <2>1 DEF ApplyEnter, EffectHeld
    <2>2. CASE ApplyPoll
      BY <1>4, <1>5, <2>2 DEF ApplyPoll, PollOutcome, EffectHeld
    <2>3. CASE ApplySchedule
      <3>1. CASE pc' = "result"
        BY <1>4, <1>5, <2>3, <3>1 DEF ApplySchedule, EffectHeld
      <3>2. CASE pc' = "alarm"
        <4>1. ram' = [ram EXCEPT !.sched = cur.id]
          BY <1>4, <2>3, <3>2 DEF ApplySchedule
        <4>2. ram'.sched = cur.id
          BY <1>1, <4>1 DEF Image
        <4>. QED  BY <1>5, <2>3, <3>2, <4>2 DEF ApplySchedule, EffectHeld
      <3>. QED  BY <1>5, <3>1, <3>2
    <2>4. CASE ProgramSchedule
      BY <1>4, <1>5, <2>4 DEF ProgramSchedule, EffectHeld, CommandInv
    <2>. QED  BY <2>1, <2>2, <2>3, <2>4
  <1>. QED  BY <1>6, <1>7, <1>8 DEF CommandInv

LEMMA CommandDecided ==
  ASSUME CommandInv, TypeInv, PersistResult
  PROVE  CommandInv'
  <1>. DEFINE decided == [cur EXCEPT !.phase = "completed"]
  <1>1. ram \in Image /\ cur \in Command
    BY DEF TypeInv, TypeOK
  <1>2. /\ decided.id = cur.id /\ decided.type = cur.type
        /\ decided.phase = "completed" /\ decided.result = cur.result
    BY <1>1 DEF Command
  <1>3. /\ pc' = "report" /\ config' = config
        /\ ram'.command = decided /\ ram'.sched = ram.sched
    BY <1>1 DEF PersistResult, Image
  <1>4. \/ flash' = ram' /\ cur' = decided
        \/ flash' = flash /\ cur'.result = "storage"
    BY <1>1 DEF PersistResult, Commit, Outcome, Command
  <1>. HIDE DEF decided
  <1>5. ImagesTruthful'
    BY <1>2, <1>3, <1>4
    DEF CommandInv, EffectHeld, ImagesTruthful, Truthful, PersistResult
  <1>6. ReportedIsDurable'
    BY <1>3, <1>4 DEF ReportedIsDurable
  <1>7. ReceiptHeld' /\ EffectHeld'
    BY <1>3 DEF ReceiptHeld, EffectHeld
  <1>. QED  BY <1>5, <1>6, <1>7 DEF CommandInv

\* The gateway, and nothing happening, leave all of it alone.
LEMMA CommandsUntouched ==
  ASSUME CommandInv, UNCHANGED <<pc, ram, flash, config, cur>>
  PROVE  CommandInv'
  BY DEF CommandInv, ReceiptHeld, ImagesTruthful, Truthful, EffectHeld, ReportedIsDurable

LEMMA CommandInvariant == Spec => []CommandInv
  <1>1. Init => CommandInv
    BY DEF Init, CommandInv, ReceiptHeld, ImagesTruthful, Truthful, EffectHeld,
           ReportedIsDurable, Fresh, NoCommand
  <1>2. TypeInv /\ CommandInv /\ [Next]_vars => CommandInv'
    <2>. SUFFICES ASSUME TypeInv, CommandInv, [Next]_vars
                  PROVE  CommandInv'
      OBVIOUS
    <2>1. CASE Gateway \/ UNCHANGED vars
      <3>1. UNCHANGED <<pc, ram, flash, config, cur>>
        BY <2>1 DEF Gateway, Issue, Reissue, Answer, Confirm, vars, node, stored, exchange
      <3>. QED  BY <3>1, CommandsUntouched
    <2>2. CASE Handling
      BY <2>2, CommandReceived, CommandApplied, CommandDecided DEF Handling
    <2>. QED  BY <2>1, <2>2, CommandsPersisted, CommandsOnAir DEF Next
  <1>. QED  BY <1>1, <1>2, TypeInvariant, PTL DEF Spec

\* Nothing is done for a command whose receipt a reset could still lose.
THEOREM ReceiptBeforeEffect == Spec => []ReceiptFirst
  <1>1. CommandInv => ReceiptFirst
    BY DEF CommandInv, ReceiptHeld, ReceiptFirst
  <1>. QED  BY <1>1, CommandInvariant, PTL

\* Success is reported of durable results only, whichever commits fail.
THEOREM SuccessIsDurable == Spec => []ReportedIsDurable
  <1>1. CommandInv => ReportedIsDurable
    BY DEF CommandInv
  <1>. QED  BY <1>1, CommandInvariant, PTL

\* A reported success has had its effect.
THEOREM SuccessIsTrue == Spec => []AppliedHasEffect
  <1>1. CommandInv => AppliedHasEffect
    BY DEF CommandInv, ImagesTruthful, Truthful, ReportedIsDurable, AppliedHasEffect
  <1>. QED  BY <1>1, CommandInvariant, PTL

\* An image whose command keeps its number keeps its type: what one step
\* writes is either image's command or the handled one.
LEMMA TypesAgree ==
  ASSUME TypeHeld, CommandInv,
         \/ ram'.command = ram.command
         \/ ram'.command.id = 0,
         flash'.command \in {flash.command, ram.command, ram'.command},
         pc' \notin {"receipt", "apply", "alarm", "result"}
  PROVE  /\ TypeHeld'
         /\ flash.command.id # 0 /\ flash'.command.id = flash.command.id
              => flash'.command.type = flash.command.type
  BY DEF TypeHeld

LEMMA TypesPersisted ==
  ASSUME TypeHeld, CommandInv, TypeInv, Persistence
  PROVE  /\ TypeHeld'
         /\ flash.command.id # 0 /\ flash'.command.id = flash.command.id
              => flash'.command.type = flash.command.type
  <1>1. pc' \notin {"receipt", "apply", "alarm", "result"}
    BY DEF Persistence, Boot, AllocateSequence, MeasureNow, Store, EnterMaintenance,
           LeavePortal, FinalPowerOff, Reset
  <1>2. ram \in Image
    BY DEF TypeInv, TypeOK
  <1>3. CASE Boot
    <2>1. CASE ram' = flash /\ flash' = flash
      BY <1>1, <2>1 DEF TypeHeld
    <2>2. CASE ram' = Fresh(sessions') /\ flash' \in {flash, ram'}
      BY <1>1, <2>2 DEF TypeHeld, Fresh, NoCommand
    <2>. QED  BY <1>3, <2>1, <2>2 DEF Boot
  <1>4. CASE AllocateSequence \/ MeasureNow
    <2>1. CASE ram' = ram /\ flash' \in {flash, ram}
      BY <1>1, <2>1, TypesAgree
    <2>2. CASE ram' = [ram EXCEPT !.next = @ + 1] /\ flash' \in {flash, ram'}
      <3>1. ram'.command = ram.command
        BY <1>2, <2>2 DEF Image
      <3>. QED  BY <1>1, <2>2, <3>1, TypesAgree
    <2>. QED  BY <1>4, <2>1, <2>2 DEF AllocateSequence, MeasureNow, NumberSaved, Commit
  <1>5. CASE Store \/ EnterMaintenance \/ FinalPowerOff \/ LeavePortal
    <2>1. ram' = ram /\ flash' \in {flash, ram}
      BY <1>5 DEF Store, EnterMaintenance, FinalPowerOff, LeavePortal, Commit, stored
    <2>. QED  BY <1>1, <2>1, TypesAgree
  <1>6. CASE Reset
    BY <1>1, <1>6 DEF Reset, TypeHeld
  <1>. QED  BY <1>3, <1>4, <1>5, <1>6 DEF Persistence

LEMMA TypesOnAir ==
  ASSUME TypeHeld, CommandInv, TypeInv, Radio
  PROVE  TypeHeld' /\ flash' = flash
  <1>1. UNCHANGED <<ram, flash>>
    BY DEF Radio, Send, WaitEnds, ReceiveAck, Report, stored
  <1>2. CASE Send \/ WaitEnds \/ Report
    <2>1. pc' \notin {"receipt", "apply", "alarm", "result"}
      BY <1>2 DEF Send, WaitEnds, Report, AfterAttempt, ExchangeEnds
    <2>. QED  BY <1>1, <2>1 DEF TypeHeld
  <1>3. ASSUME NEW a \in acks, ReceiveAck(a)
        PROVE  TypeHeld'
    <2>1. flash = ram
      BY <1>3 DEF ReceiveAck, TypeInv, ExchangeHeld
    <2>2. pc' \in {"store", "report", "apply", "receipt"}
      BY <1>3 DEF ReceiveAck
    <2>3. pc' = "apply" => cur' = ram.command
      BY <1>3 DEF ReceiveAck
    <2>4. pc' = "receipt" /\ ram.command.id = cur'.id => ram.command.type = cur'.type
      BY <1>3 DEF ReceiveAck, IsNew, IsConflict, Begun
    <2>. QED  BY <1>1, <2>1, <2>2, <2>3, <2>4 DEF TypeHeld
  <1>. QED  BY <1>1, <1>2, <1>3 DEF Radio

LEMMA TypesHandled ==
  ASSUME TypeHeld, CommandInv, TypeInv, Handling
  PROVE  /\ TypeHeld'
         /\ flash'.command.id = flash.command.id
              => flash'.command.type = flash.command.type
  <1>1. ram \in Image /\ flash \in Image /\ cur \in Command
    BY DEF TypeInv, TypeOK
  <1>2. CASE PersistReceipt
    <2>1. PICK ok \in Saves :
            /\ ram' = IF ready = "yes" THEN [ram EXCEPT !.command = cur] ELSE ram
            /\ Commit(ram', ok /\ ready = "yes")
            /\ ReceiptOutcome(ok /\ ready = "yes")
      BY <1>2 DEF PersistReceipt
    <2>2. flash.command.id = cur.id => flash.command.type = cur.type
      BY <1>2 DEF PersistReceipt, TypeHeld
    <2>3. CASE ok /\ ready = "yes"
      <3>1. ram'.command = cur /\ flash' = ram' /\ cur' = cur /\ pc' = "apply"
        BY <1>1, <2>1, <2>3 DEF Commit, ReceiptOutcome, Image
      <3>. QED  BY <2>2, <3>1 DEF TypeHeld
    <2>4. CASE ~(ok /\ ready = "yes")
      <3>1. /\ ram'.command \in {ram.command, cur} /\ flash' = flash
            /\ pc' = "report"
        BY <1>1, <2>1, <2>4 DEF Commit, ReceiptOutcome, Image
      <3>. QED  BY <2>2, <3>1 DEF TypeHeld
    <2>. QED  BY <2>3, <2>4
  <1>3. CASE ApplyEnter \/ ApplyPoll \/ ApplySchedule \/ ProgramSchedule
    <2>1. ram'.command = ram.command /\ flash' \in {flash, ram'}
      BY <1>1, <1>3 DEF ApplyEnter, ApplyPoll, ApplySchedule, ProgramSchedule, Commit,
                        stored, Image
    <2>2. pc' \in {"alarm", "result"} /\ cur'.type = cur.type
      BY <1>1, <1>3 DEF ApplyEnter, ApplyPoll, PollOutcome, ApplySchedule,
                        ProgramSchedule, Applied, Command
    <2>3. ram.command.type = cur.type /\ flash.command.type = cur.type
      BY <1>3 DEF ApplyEnter, ApplyPoll, ApplySchedule, ProgramSchedule, TypeHeld
    <2>. QED  BY <2>1, <2>2, <2>3 DEF TypeHeld
  <1>4. CASE PersistResult
    <2>1. ram.command.type = cur.type /\ flash.command.type = cur.type
      BY <1>4 DEF PersistResult, TypeHeld
    <2>2. ram'.command.type = cur.type /\ flash' \in {flash, ram'} /\ pc' = "report"
      BY <1>1, <1>4 DEF PersistResult, Commit, Image, Command
    <2>. QED  BY <2>1, <2>2 DEF TypeHeld
  <1>. QED  BY <1>2, <1>3, <1>4 DEF Handling

\* A reused number never overwrites the durable command it belongs to.
THEOREM ReusedNumberRejected == Spec => NumberKeepsType
  <1>. DEFINE Kept == flash.command.id # 0 /\ flash'.command.id = flash.command.id
                        => flash'.command.type = flash.command.type
  <1>1. Init => TypeHeld
    BY DEF Init, TypeHeld, Fresh, NoCommand
  <1>2. TypeInv /\ CommandInv /\ TypeHeld /\ [Next]_vars => TypeHeld' /\ Kept
    <2>. SUFFICES ASSUME TypeInv, CommandInv, TypeHeld, [Next]_vars
                  PROVE  TypeHeld' /\ Kept
      OBVIOUS
    <2>1. CASE Gateway \/ UNCHANGED vars
      <3>1. UNCHANGED <<pc, ram, flash, cur>>
        BY <2>1 DEF Gateway, Issue, Reissue, Answer, Confirm, vars, node, stored, exchange
      <3>. QED  BY <3>1 DEF TypeHeld
    <2>. QED  BY <2>1, TypesPersisted, TypesOnAir, TypesHandled DEF Next
  <1>3. TypeInv /\ CommandInv /\ TypeHeld /\ [Next]_vars => [Kept]_vars
    BY <1>2
  <1>. HIDE DEF Kept
  <1>4. Spec => [][Kept]_vars
    BY <1>1, <1>2, <1>3, TypeInvariant, CommandInvariant, PTL DEF Spec
  <1>. QED  BY <1>4 DEF Kept, NumberKeepsType

-----------------------------------------------------------------------------
(* What the steps that save, load or forget do to the images *)

\* Flash is left alone or takes the session and the command of RAM.
Commits ==
  /\ ram'.session = ram.session /\ ram'.command = ram.command /\ sessions' = sessions
  /\ \/ flash'.session = flash.session /\ flash'.command = flash.command
     \/ flash'.session = ram.session /\ flash'.command = ram.command

Reloads == ram' = flash /\ flash' = flash /\ sessions' = sessions

Forgets == sessions' = sessions + 1 /\ ram' = Fresh(sessions') /\ flash' \in {flash, ram'}

HandlingAt == {"receipt", "apply", "alarm", "result", "report"}

LEMMA CommitCommits ==
  ASSUME NEW ok, Commit(ram, ok), ram' = ram, sessions' = sessions
  PROVE  Commits
  BY DEF Commit, Commits

LEMMA NumberCommits ==
  ASSUME ram \in Image, NEW ok, NumberSaved(ok), ram' = [ram EXCEPT !.next = @ + 1],
         sessions' = sessions
  PROVE  Commits
  BY DEF NumberSaved, Commit, Commits, Image

LEMMA PersistenceSteps ==
  ASSUME TypeInv, Persistence
  PROVE  /\ Commits \/ Reloads \/ Forgets
         /\ UNCHANGED <<config, pending, issued, telemetry, acks, results>>
         /\ pc \notin HandlingAt \/ pc' = "boot"
         /\ pc' \notin HandlingAt \union {"wait"}
         /\ pc' = "send" => AllocateSequence
         /\ entered' = entered \/ EnterMaintenance
         /\ \/ ~entering'
            \/ entering' = entering /\ pc \notin {"report", "store", "enter"}
            \/ Store /\ entering /\ UNCHANGED <<cur, entering>> /\ pc' = "enter"
         /\ pc' = "enter" => Store /\ entering'
  <1>. USE DEF HandlingAt, gateway, air
  <1>1. ram \in Image
    BY DEF TypeInv, TypeOK
  <1>2. CASE Boot
    <2>1. Reloads \/ Forgets
      BY <1>2 DEF Boot, Reloads, Forgets
    <2>. QED  BY <1>2, <2>1 DEF Boot, NoExchange
  <1>3. CASE AllocateSequence
    <2>1. Commits
      <3>1. CASE UNCHANGED <<flash, ram>>
        BY <1>3, <3>1 DEF AllocateSequence, Commits
      <3>2. CASE ~UNCHANGED <<flash, ram>>
        BY <1>1, <1>3, <3>2, NumberCommits DEF AllocateSequence
      <3>. QED  BY <3>1, <3>2
    <2>2. pc \in {"allocate", "portal"} /\ pc' \in {"allocate", "portal", "send", "store"}
      BY <1>3 DEF AllocateSequence
    <2>3. UNCHANGED <<config, entering, pending, issued, telemetry, acks, results, entered>>
      BY <1>3 DEF AllocateSequence
    <2>. QED  BY <1>3, <2>1, <2>2, <2>3
  <1>4. CASE MeasureNow
    <2>1. Commits
      <3>1. CASE UNCHANGED ram
        BY <1>4, <3>1, CommitCommits DEF MeasureNow, NumberSaved, Commit, Commits
      <3>2. CASE ~UNCHANGED ram
        BY <1>1, <1>4, <3>2, NumberCommits DEF MeasureNow
      <3>. QED  BY <3>1, <3>2
    <2>. QED  BY <1>4, <2>1 DEF MeasureNow, exchange
  <1>5. CASE Store
    <2>1. Commits
      BY <1>5, CommitCommits DEF Store
    <2>. QED  BY <1>5, <2>1 DEF Store, NoExchange, exchange
  <1>6. CASE EnterMaintenance
    <2>1. Commits
      BY <1>6, CommitCommits DEF EnterMaintenance
    <2>. QED  BY <1>6, <2>1 DEF EnterMaintenance, NoExchange
  <1>7. CASE LeavePortal
    BY <1>7 DEF LeavePortal, Commits, stored, exchange
  <1>8. CASE FinalPowerOff
    <2>1. Commits
      BY <1>8, CommitCommits DEF FinalPowerOff
    <2>. QED  BY <1>8, <2>1 DEF FinalPowerOff, exchange
  <1>9. CASE Reset
    BY <1>9 DEF Reset, Reloads, NoExchange
  <1>. QED  BY <1>2, <1>3, <1>4, <1>5, <1>6, <1>7, <1>8, <1>9 DEF Persistence

-----------------------------------------------------------------------------
(* What the gateway asks for *)

\* What keeps the requests that may still be answered.
LEMMA RequestsUntouched ==
  ASSUME RequestHeld, UNCHANGED <<pending, issued, acks>>, telemetry \subseteq telemetry',
         pc' \in {"send", "wait"} =>
           /\ pc \in {"send", "wait"} /\ UNCHANGED <<ram, seq>>
           /\ flash'.command = flash.command
  PROVE  RequestHeld'
  BY DEF RequestHeld, Current

\* A number that is allocated has not been answered before.
LEMMA RequestsAllocated ==
  ASSUME RequestHeld, TypeInv, NumberInv, AllocateSequence
  PROVE  RequestHeld'
  <1>1. UNCHANGED <<pending, issued, acks, telemetry>> /\ attempts' = 0 /\ pc' # "wait"
    BY DEF AllocateSequence, gateway, air
  <1>2. pc' = "send" => Current' \notin telemetry'
    BY <1>1, NumbersTaken DEF NumberInv, SequenceFresh
  <1>3. \A a \in acks : a.packet \in telemetry'
    BY <1>1 DEF RequestHeld
  <1>. QED  BY <1>1, <1>2, <1>3 DEF RequestHeld

LEMMA RequestsOfGateway ==
  ASSUME RequestHeld, TypeInv, Gateway,
         flash.command.id \in 0..issued
  PROVE  RequestHeld'
  <1>0. UNCHANGED <<pc, ram, flash, seq, telemetry>>
    BY DEF Gateway, Issue, Reissue, Answer, Confirm, node, stored, exchange, air
  <1>1. issued \in Nat /\ pending \in Request
    BY MaxIssuedAssumption DEF TypeInv, TypeOK
  <1>2. CASE Issue
    <2>1. issued' = issued + 1 /\ acks' = acks /\ pending'.id = issued' /\ pending'.type \in Types
      BY <1>2 DEF Issue, air
    <2>2. \A a \in acks : a.request.id \in 1..issued => a.request.id \in 1..issued'
      BY <1>1, <2>1
    <2>. QED  BY <1>0, <2>1, <2>2 DEF RequestHeld, Current
  <1>3. CASE Reissue
    <2>1. issued' = issued /\ acks' = acks /\ pending'.id = issued' /\ pending'.type \in Types
      BY <1>3 DEF Reissue, air
    <2>. QED  BY <1>0, <2>1 DEF RequestHeld, Current
  <1>4. CASE Answer
    <2>1. PICK packet \in telemetry :
            acks' = acks \union {[packet |-> packet, request |-> pending]}
      BY <1>4 DEF Answer
    <2>2. pending' = pending /\ issued' = issued
      BY <1>4 DEF Answer, gateway
    <2>3. pending.id # 0 => /\ pending.id \in 1..issued /\ pending.type \in Types
                            /\ pending.id >= flash.command.id
      BY <1>1 DEF RequestHeld, Request
    <2>4. \A a \in acks' : a \in acks \/ a = [packet |-> packet, request |-> pending]
      BY <2>1
    <2>. QED  BY <1>0, <2>2, <2>3, <2>4 DEF RequestHeld, Current
  <1>5. CASE Confirm
    <2>1. issued' = issued /\ acks' = acks /\ pending'.id = 0
      BY <1>5 DEF Confirm, air, NoRequest
    <2>. QED  BY <1>0, <2>1 DEF RequestHeld, Current
  <1>. QED  BY <1>2, <1>3, <1>4, <1>5 DEF Gateway

-----------------------------------------------------------------------------
(* The images *)

\* What a command that is well formed looks like.
LEMMA CommandShape ==
  ASSUME NEW c, WellFormed(c)
  PROVE  /\ c.id = 0 <=> c = NoCommand
         /\ c.phase \in {"none", "received", "completed"}
         /\ c.phase # "none" => c.id \in 1..issued /\ c.type \in Types
         /\ c.phase = "received" => c.result = "none"
         /\ c.phase = "completed" => c.result \in Codes
  BY DEF WellFormed, NoCommand

\* More commands may have been issued.
LEMMA StaysWellFormed ==
  ASSUME NEW c, WellFormed(c), issued \in Nat, issued' \in Nat, issued <= issued'
  PROVE  WellFormed(c)'
  BY DEF WellFormed

LEMMA SessionTypes ==
  ASSUME TypeInv, NumberInv
  PROVE  /\ ram.session \in Nat /\ flash.session \in Nat /\ sessions \in Nat
         /\ ram.session <= sessions /\ flash.session <= sessions
         /\ ram.command \in Command /\ flash.command \in Command /\ cur \in Command
         /\ issued \in Nat
  BY MaxSessionsAssumption, MaxIssuedAssumption
     DEF TypeInv, TypeOK, Image, NumberInv, TakenBelow

\* Saving, loading and forgetting keep RAM ahead of flash.
LEMMA RecordsMoved ==
  ASSUME TypeInv, NumberInv, RecordHeld, Commits \/ Reloads \/ Forgets,
         issued' = issued, pc' \notin HandlingAt
  PROVE  RecordHeld'
  <1>. USE SessionTypes
  <1>1. SUFFICES WellFormed(ram.command)' /\ WellFormed(flash.command)' /\ RamAhead'
    BY DEF RecordHeld, HandlingAt
  <1>2. WellFormed(ram'.command) /\ WellFormed(flash'.command)
    <2>1. \A c \in {ram.command, flash.command, NoCommand} : WellFormed(c)
      BY DEF RecordHeld, WellFormed
    <2>2. {ram'.command, flash'.command} \subseteq {ram.command, flash.command, NoCommand}
      BY DEF Commits, Reloads, Forgets, Fresh
    <2>. QED  BY <2>1, <2>2
  <1>3. WellFormed(ram.command)' /\ WellFormed(flash.command)'
    BY <1>2 DEF WellFormed
  <1>4. CASE Commits
    BY <1>3, <1>4 DEF Commits, RecordHeld, RamAhead
  <1>5. CASE Reloads
    BY <1>3, <1>5 DEF Reloads, RamAhead
  <1>6. CASE Forgets
    BY <1>3, <1>6 DEF Forgets, RamAhead, Fresh
  <1>. QED  BY <1>4, <1>5, <1>6

\* A step that leaves both images and the command alone keeps the records.
LEMMA RecordsUntouched ==
  ASSUME TypeInv, RecordHeld, UNCHANGED <<ram, flash>>, issued' \in Nat, issued <= issued',
         pc' \in HandlingAt => pc' = pc /\ cur' = cur
  PROVE  RecordHeld'
  <1>1. issued \in Nat
    BY MaxIssuedAssumption DEF TypeInv, TypeOK
  <1>2. WellFormed(ram.command)' /\ WellFormed(flash.command)' /\ RamAhead'
    BY <1>1, StaysWellFormed DEF RecordHeld, RamAhead
  <1>3. cur.id \in 1..issued => cur.id \in 1..issued'
    BY <1>1
  <1>4. CASE pc' \notin HandlingAt
    BY <1>2, <1>4 DEF RecordHeld, HandlingAt
  <1>5. CASE pc' = pc /\ cur' = cur
    BY <1>2, <1>3, <1>5 DEF RecordHeld
  <1>. QED  BY <1>4, <1>5

LEMMA RecordsOnAir ==
  ASSUME TypeInv, NumberInv, RequestHeld, RecordHeld, Radio
  PROVE  RecordHeld'
  <1>1. UNCHANGED <<ram, flash, issued>> /\ issued \in Nat
    BY MaxIssuedAssumption
       DEF Radio, Send, WaitEnds, ReceiveAck, Report, stored, gateway, TypeInv, TypeOK
  <1>2. CASE Send \/ WaitEnds \/ Report
    <2>1. pc' \notin HandlingAt
      BY <1>2 DEF Send, WaitEnds, Report, AfterAttempt, ExchangeEnds, HandlingAt
    <2>. QED  BY <1>1, <2>1, RecordsUntouched
  <1>3. ASSUME NEW a \in acks, ReceiveAck(a)
        PROVE  RecordHeld'
    <2>1. pc = "wait" /\ flash = ram /\ a.packet = Current
      BY <1>3 DEF ReceiveAck, AckMatches, TypeInv, ExchangeHeld
    <2>2. /\ a.request.id # 0 => /\ a.request.id \in 1..issued /\ a.request.type \in Types
                                 /\ a.request.id >= flash.command.id
      BY <2>1 DEF RequestHeld
    <2>3. WellFormed(ram.command)' /\ WellFormed(flash.command)' /\ RamAhead'
      BY <1>1, StaysWellFormed DEF RecordHeld, RamAhead
    <2>4. CASE pc' = "store"
      BY <2>3, <2>4 DEF RecordHeld
    <2>5. CASE pc' = "receipt"
      <3>1. IsNew(ram.command, a.request) /\ a.request.id # 0
            /\ cur' = Begun(a.request, "received", "none")
        BY <1>3, <2>5 DEF ReceiveAck
      <3>2. a.request.id # ram.command.id
        <4>1. /\ ram.command.id = 0 <=> ram.command = NoCommand
              /\ ram.command.phase \in {"none", "received", "completed"}
              /\ ram.command.phase = "none" => ram.command.id = 0
          BY CommandShape DEF RecordHeld, WellFormed, NoCommand
        <4>. QED  BY <3>1, <4>1 DEF IsNew, IsDuplicate, IsConflict, IsInterrupted
      <3>3. cur'.id > flash.command.id /\ cur'.id \in 1..issued /\ cur'.type \in Types
            /\ cur'.phase = "received" /\ cur'.result = "none"
        BY <2>1, <2>2, <3>1, <3>2, SessionTypes DEF Begun, Command
      <3>. QED  BY <1>1, <2>1, <2>3, <2>5, <3>3 DEF RecordHeld
    <2>6. CASE pc' = "apply"
      <3>1. IsInterrupted(ram.command, a.request) /\ a.request.id # 0 /\ cur' = ram.command
        BY <1>3, <2>6 DEF ReceiveAck
      <3>2. cur'.id \in 1..issued /\ cur'.type \in Types /\ cur'.phase = "received"
            /\ cur'.result = "none"
        BY <2>2, <3>1, CommandShape DEF IsInterrupted, RecordHeld
      <3>3. cur' = [cur' EXCEPT !.phase = "received", !.result = "none"]
        BY <3>1, <3>2, SessionTypes DEF Command
      <3>. QED  BY <1>1, <2>1, <2>3, <2>6, <3>1, <3>2, <3>3 DEF RecordHeld
    <2>7. CASE pc' = "report"
      <3>1. cur'.id \in 1..issued /\ cur'.type \in Types
        <4>1. CASE IsDuplicate(ram.command, a.request) /\ cur' = ram.command
          BY <1>3, <2>2, <2>7, <4>1 DEF ReceiveAck, IsDuplicate
        <4>2. CASE cur' = Begun(a.request, "completed", "invalid")
          BY <1>3, <2>2, <2>7, <4>2 DEF ReceiveAck, Begun
        <4>. QED  BY <1>3, <2>7, <4>1, <4>2 DEF ReceiveAck
      <3>. QED  BY <1>1, <2>3, <2>7, <3>1 DEF RecordHeld
    <2>. QED  BY <1>3, <2>4, <2>5, <2>6, <2>7 DEF ReceiveAck
  <1>. QED  BY <1>2, <1>3 DEF Radio

\* While its effect is brought about, a command stays begun in both images.
Effects == ApplyEnter \/ ApplyPoll \/ ApplySchedule \/ ProgramSchedule

LEMMA EffectSteps ==
  ASSUME TypeInv, RecordHeld, Effects
  PROVE  /\ pc \in {"apply", "alarm"} /\ pc' \in {"alarm", "result"}
         /\ UNCHANGED <<entering, entered, sessions, issued, pending, telemetry, acks>>
         /\ ram'.session = ram.session /\ ram'.command = ram.command
         /\ flash'.session = flash.session /\ flash'.command = flash.command
         /\ cur'.id = cur.id /\ cur'.type = cur.type /\ cur' \in Command
         /\ pc' = "result" => cur'.result \in Codes
         /\ [cur' EXCEPT !.phase = "received", !.result = "none"]
              = [cur EXCEPT !.phase = "received", !.result = "none"]
  <1>. USE DEF gateway, air
  <1>1. ram \in Image /\ cur \in Command
    BY DEF TypeInv, TypeOK
  <1>2. pc \in {"apply", "alarm"} /\ pc' \in {"alarm", "result"}
    BY DEF Effects, ApplyEnter, ApplyPoll, ApplySchedule, ProgramSchedule, PollOutcome, Applied
  <1>3. UNCHANGED <<entering, entered, sessions, issued, pending, telemetry, acks>>
    BY DEF Effects, ApplyEnter, ApplyPoll, ApplySchedule, ProgramSchedule
  <1>4. ram.session = flash.session /\ ram.command = flash.command
    BY <1>2 DEF RecordHeld
  <1>5. \/ ram' = ram /\ flash' = flash
        \/ (\E id : ram' = [ram EXCEPT !.sched = id]) /\ flash' \in {flash, ram'}
    BY DEF Effects, ApplyEnter, ApplyPoll, ApplySchedule, ProgramSchedule, Commit, stored
  <1>6. ram'.session = ram.session /\ ram'.command = ram.command
        /\ flash'.session = flash.session /\ flash'.command = flash.command
    BY <1>1, <1>4, <1>5 DEF Image
  <1>7. \/ cur' = cur /\ pc' = "alarm"
        \/ \E code \in Codes : cur' = [cur EXCEPT !.result = code]
    <2>1. CASE ApplyEnter
      BY <2>1 DEF ApplyEnter, Applied, Codes
    <2>2. CASE ApplyPoll
      BY <2>2 DEF ApplyPoll, PollOutcome, Applied, Codes
    <2>3. CASE ApplySchedule
      BY <2>3 DEF ApplySchedule, Applied, Codes
    <2>4. CASE ProgramSchedule
      BY <2>4 DEF ProgramSchedule, Applied, Codes
    <2>. QED  BY <2>1, <2>2, <2>3, <2>4 DEF Effects
  <1>8. ASSUME NEW code \in Codes, cur' = [cur EXCEPT !.result = code]
        PROVE  /\ cur'.id = cur.id /\ cur'.type = cur.type /\ cur' \in Command
               /\ cur'.result \in Codes
               /\ [cur' EXCEPT !.phase = "received", !.result = "none"]
                    = [cur EXCEPT !.phase = "received", !.result = "none"]
    BY <1>1, <1>8 DEF Command
  <1>. QED  BY <1>1, <1>2, <1>3, <1>6, <1>7, <1>8

\* The three ways persistReceipt ends: without a receipt in RAM, with one in RAM
\* only, or with one in both images.
LEMMA ReceiptSteps ==
  ASSUME TypeInv, NumberInv, RecordHeld, PersistReceipt
  PROVE  /\ UNCHANGED <<entering, entered, config, sessions, issued, pending, telemetry, acks>>
         /\ pc = "receipt" /\ ram'.session = ram.session /\ flash'.session = flash.session
         /\ cur'.id = cur.id /\ cur'.type = cur.type
         /\ \/ /\ pc' = "report" /\ flash' = flash /\ cur'.result = "storage"
               /\ ram'.command \in {ram.command, cur}
            \/ /\ pc' = "apply" /\ cur' = cur
               /\ ram'.command = cur /\ flash'.command = cur
  <1>1. PICK ok \in Saves :
          /\ ram' = IF ready = "yes" THEN [ram EXCEPT !.command = cur] ELSE ram
          /\ Commit(ram', ok /\ ready = "yes")
          /\ ReceiptOutcome(ok /\ ready = "yes")
    BY DEF PersistReceipt
  <1>2. UNCHANGED <<entering, entered, config, sessions, issued, pending, telemetry, acks>>
        /\ pc = "receipt"
    BY DEF PersistReceipt, gateway, air
  <1>3. ram.session = flash.session /\ ram \in Image /\ cur \in Command
    BY <1>2 DEF RecordHeld, TypeInv, TypeOK
  <1>4. ram'.session = ram.session /\ ram'.command \in {ram.command, cur}
    BY <1>1, <1>3 DEF Image
  <1>5. CASE ok /\ ready = "yes"
    BY <1>1, <1>2, <1>3, <1>4, <1>5 DEF Commit, ReceiptOutcome, Image
  <1>6. CASE ~(ok /\ ready = "yes")
    <2>1. cur' = [cur EXCEPT !.phase = "completed", !.result = "storage"] /\ pc' = "report"
          /\ flash' = flash
      BY <1>1, <1>6 DEF ReceiptOutcome, Commit
    <2>. QED  BY <1>2, <1>3, <1>4, <2>1 DEF Command
  <1>. QED  BY <1>5, <1>6

\* The two ways persistResult ends: with the result in both images, or in RAM only.
LEMMA ResultSteps ==
  ASSUME TypeInv, RecordHeld, PersistResult
  PROVE  /\ UNCHANGED <<config, sessions, issued, pending, telemetry, acks>>
         /\ pc = "result" /\ pc' = "report"
         /\ cur'.id = cur.id /\ cur'.type = cur.type
         /\ ram'.session = ram.session /\ flash'.session = flash.session
         /\ ram'.command = [cur EXCEPT !.phase = "completed"]
         /\ \/ /\ flash' = flash /\ cur'.result = "storage"
               /\ entered' = entered /\ ~entering'
            \/ /\ flash'.command = ram'.command /\ cur' = ram'.command
               /\ \/ entered' = entered /\ ~entering'
                  \/ /\ cur.type = "enter" /\ cur.result = "applied"
                     /\ \/ entered' = entered
                        \/ entered' = entered \union {<<ram.session, cur.id>>} /\ ~entering'
  <1>1. PICK ok \in Saves : Commit(ram', ok) /\ cur' = Outcome(ok)
    BY DEF PersistResult
  <1>2. /\ UNCHANGED <<config, sessions, issued, pending, telemetry, acks>>
        /\ pc = "result" /\ pc' = "report"
    BY DEF PersistResult, gateway, air
  <1>3. ram.session = flash.session /\ ram \in Image /\ cur \in Command
    BY <1>2 DEF RecordHeld, TypeInv, TypeOK
  <1>4. ram' = [ram EXCEPT !.command = [cur EXCEPT !.phase = "completed"]]
    BY DEF PersistResult
  <1>5. ram'.session = ram.session /\ ram'.command = [cur EXCEPT !.phase = "completed"]
    BY <1>3, <1>4 DEF Image
  <1>6. LET enters == cur.type = "enter" /\ cur'.result = "applied"
        IN  /\ entering' = (enters /\ mode # "maint")
            /\ entered' = IF enters /\ mode = "maint" THEN entered \union {<<ram.session, cur.id>>}
                          ELSE entered
    BY DEF PersistResult
  <1>7. CASE ok
    <2>1. cur' = [cur EXCEPT !.phase = "completed"] /\ flash' = ram'
      BY <1>1, <1>7 DEF Outcome, Commit
    <2>2. cur'.id = cur.id /\ cur'.type = cur.type /\ cur'.result = cur.result
      BY <1>3, <2>1 DEF Command
    <2>. QED  BY <1>2, <1>3, <1>5, <1>6, <2>1, <2>2
  <1>8. CASE ~ok
    <2>1. cur' = [cur EXCEPT !.result = "storage"] /\ flash' = flash
      BY <1>1, <1>8 DEF Outcome, Commit
    <2>2. cur'.id = cur.id /\ cur'.type = cur.type /\ cur'.result = "storage"
      BY <1>3, <2>1 DEF Command
    <2>. QED  BY <1>2, <1>5, <1>6, <2>1, <2>2
  <1>. QED  BY <1>7, <1>8

LEMMA RecordsHandled ==
  ASSUME TypeInv, NumberInv, RecordHeld, Handling
  PROVE  RecordHeld'
  <1>0. issued \in Nat /\ cur \in Command /\ flash.command \in Command /\ ram.command \in Command
    BY SessionTypes
  <1>1. CASE PersistReceipt
    <2>1. WellFormed(cur) /\ cur.phase = "received" /\ cur.id > flash.command.id
          /\ cur.result = "none" /\ cur.id \in 1..issued /\ cur.type \in Types
          /\ ram.session = flash.session /\ ram.command = flash.command
      BY <1>1, ReceiptSteps DEF RecordHeld, WellFormed
    <2>2. cur = [cur EXCEPT !.phase = "received", !.result = "none"]
      BY <1>0, <2>1 DEF Command
    <2>3. CASE pc' = "report"
      BY <1>1, <2>1, <2>3, ReceiptSteps DEF RecordHeld, RamAhead, WellFormed
    <2>4. CASE pc' = "apply"
      BY <1>1, <2>1, <2>2, <2>4, ReceiptSteps DEF RecordHeld, RamAhead, WellFormed
    <2>. QED  BY <1>1, <2>3, <2>4, ReceiptSteps
  <1>2. CASE Effects
    BY <1>2, EffectSteps DEF RecordHeld, RamAhead, WellFormed
  <1>3. CASE PersistResult
    <2>. DEFINE decided == [cur EXCEPT !.phase = "completed"]
    <2>1. /\ cur.id \in 1..issued /\ cur.type \in Types /\ cur.result \in Codes
          /\ ram.session = flash.session /\ ram.command = flash.command
          /\ flash.command = [cur EXCEPT !.phase = "received", !.result = "none"]
      BY <1>3, ResultSteps DEF RecordHeld
    <2>2. /\ decided.id = cur.id /\ decided.type = cur.type /\ decided.phase = "completed"
          /\ decided.result = cur.result
          /\ flash.command.id = cur.id /\ flash.command.type = cur.type
          /\ flash.command.phase = "received"
      BY <1>0, <2>1 DEF Command
    <2>3. WellFormed(decided)
      BY <2>1, <2>2 DEF WellFormed
    <2>. HIDE DEF decided
    <2>4. /\ ram'.command = decided /\ flash'.command \in {flash.command, decided}
          /\ ram'.session = flash'.session /\ pc' = "report" /\ issued' = issued
          /\ cur'.id = cur.id /\ cur'.type = cur.type
      BY <1>3, <2>1, ResultSteps DEF decided
    <2>5. WellFormed(ram.command)' /\ WellFormed(flash.command)'
      BY <2>3, <2>4 DEF RecordHeld, WellFormed
    <2>6. RamAhead'
      BY <2>2, <2>4 DEF RamAhead
    <2>. QED  BY <2>1, <2>4, <2>5, <2>6 DEF RecordHeld
  <1>. QED  BY <1>1, <1>2, <1>3 DEF Handling, Effects

-----------------------------------------------------------------------------
(* The windows *)

\* Nothing is to be opened while a command is received or brought about.
LEMMA NothingEntering ==
  ASSUME WindowHeld, TypeInv, pc \notin {"report", "store", "enter"}
  PROVE  entering = FALSE
  BY DEF WindowHeld, TypeInv, TypeOK

LEMMA WindowTypes ==
  ASSUME TypeInv
  PROVE  \A w \in entered : w[1] \in Nat /\ w[2] \in Nat
  BY MaxSessionsAssumption, MaxIssuedAssumption DEF TypeInv, TypeOK

LEMMA WindowsMoved ==
  ASSUME TypeInv, NumberInv, WindowHeld, Persistence
  PROVE  WindowHeld'
  <1>. USE SessionTypes, WindowTypes
  <1>1. CASE EnterMaintenance
    <2>1. /\ entering /\ ram.session = flash.session /\ ram.command = flash.command
          /\ flash.command = cur /\ cur.phase = "completed"
      BY <1>1 DEF EnterMaintenance, WindowHeld
    <2>2. /\ ram' = ram /\ flash' \in {flash, ram} /\ sessions' = sessions /\ pc' = "portal"
          /\ entered' = entered \union {<<ram.session, cur.id>>} /\ ~entering'
      BY <1>1 DEF EnterMaintenance, Commit, NoExchange
    <2>3. Served(ram)' /\ Served(flash)'
      BY <2>1, <2>2 DEF WindowHeld, Served
    <2>. QED  BY <2>2, <2>3 DEF WindowHeld
  <1>2. CASE entered' = entered
    <2>1. Served(ram)' /\ Served(flash)' /\ \A w \in entered' : w[1] <= sessions'
      <3>1. CASE Commits
        BY <1>2, <3>1 DEF Commits, WindowHeld, Served
      <3>2. CASE Reloads
        BY <1>2, <3>2 DEF Reloads, WindowHeld, Served
      <3>3. CASE Forgets
        <4>1. ram'.session = sessions + 1 /\ sessions' = sessions + 1 /\ flash' \in {flash, ram'}
          BY <3>3 DEF Forgets, Fresh
        <4>2. \A w \in entered : w[1] <= sessions /\ w[1] \in Nat
          BY DEF WindowHeld
        <4>3. Served(ram)'
          BY <1>2, <4>1, <4>2 DEF Served
        <4>4. Served(flash)'
          BY <1>2, <4>1, <4>3 DEF WindowHeld, Served
        <4>. QED  BY <1>2, <4>1, <4>2, <4>3, <4>4
      <3>. QED  BY <3>1, <3>2, <3>3, PersistenceSteps
    <2>2. CASE ~entering'
      <3>1. pc' # "enter"
        BY <2>2, PersistenceSteps
      <3>. QED  BY <2>1, <2>2, <3>1 DEF WindowHeld
    <2>3. CASE Store /\ entering /\ UNCHANGED <<cur, entering>> /\ pc' = "enter"
      <3>1. /\ ram' = ram /\ flash' \in {flash, ram}
        BY <2>3 DEF Store, Commit
      <3>. QED  BY <1>2, <2>1, <2>3, <3>1 DEF WindowHeld
    <2>4. CASE entering' = entering /\ pc \notin {"report", "store", "enter"}
      BY <2>2, <2>4, NothingEntering
    <2>. QED  BY <2>2, <2>3, <2>4, PersistenceSteps
  <1>. QED  BY <1>1, <1>2, PersistenceSteps

LEMMA WindowsOnAir ==
  ASSUME TypeInv, WindowHeld, Radio
  PROVE  WindowHeld'
  <1>1. UNCHANGED <<ram, flash, sessions, entered>>
    BY DEF Radio, Send, WaitEnds, ReceiveAck, Report, stored
  <1>2. Served(ram)' /\ Served(flash)' /\ \A w \in entered' : w[1] <= sessions'
    BY <1>1 DEF WindowHeld, Served
  <1>3. CASE Report
    <2>1. UNCHANGED <<cur, entering>> /\ pc' = "store"
      BY <1>3 DEF Report, exchange
    <2>. QED  BY <1>1, <1>2, <2>1 DEF WindowHeld
  <1>4. CASE Send \/ WaitEnds \/ \E a \in acks : ReceiveAck(a)
    <2>1. pc \in {"send", "wait"} /\ pc' # "enter" /\ entering' \in {entering, FALSE}
      BY <1>4 DEF Send, WaitEnds, ReceiveAck, AfterAttempt, ExchangeEnds, exchange
    <2>2. ~entering'
      BY <2>1, NothingEntering
    <2>. QED  BY <1>2, <2>1, <2>2 DEF WindowHeld
  <1>. QED  BY <1>3, <1>4 DEF Radio

LEMMA WindowsHandled ==
  ASSUME TypeInv, NumberInv, RecordHeld, WindowHeld, Handling
  PROVE  WindowHeld'
  <1>. USE SessionTypes, WindowTypes
  <1>1. CASE PersistReceipt
    <2>1. ~entering' /\ entered' = entered /\ sessions' = sessions
      BY <1>1, ReceiptSteps, NothingEntering
    <2>2. /\ pc = "receipt" /\ pc' # "enter" /\ ram'.session = ram.session
          /\ flash'.session = flash.session /\ ram'.command \in {ram.command, cur}
          /\ flash'.command \in {flash.command, cur}
      BY <1>1, ReceiptSteps
    <2>3. cur.id > flash.command.id /\ ram.command = flash.command
          /\ cur.id \in Nat /\ flash.command.id \in Nat
      BY <2>2 DEF RecordHeld, Command
    <2>4. Served(ram)' /\ Served(flash)'
      BY <2>1, <2>2, <2>3 DEF WindowHeld, Served
    <2>. QED  BY <2>1, <2>2, <2>4 DEF WindowHeld
  <1>2. CASE Effects
    <2>1. ~entering' /\ pc' # "enter"
      <3>1. pc \in {"apply", "alarm"} /\ pc' \in {"alarm", "result"} /\ entering' = entering
        BY <1>2, EffectSteps
      <3>. QED  BY <3>1, NothingEntering
    <2>2. Served(ram)' /\ Served(flash)' /\ \A w \in entered' : w[1] <= sessions'
      BY <1>2, EffectSteps DEF WindowHeld, Served
    <2>. QED  BY <2>1, <2>2 DEF WindowHeld
  <1>3. CASE PersistResult
    <2>. DEFINE decided == [cur EXCEPT !.phase = "completed"]
    <2>1. /\ cur.id \in 1..issued /\ ram.session = flash.session
          /\ ram.command.phase = "received" /\ ram.command = flash.command
          /\ ram.command.id = cur.id
      BY <1>3, ResultSteps DEF RecordHeld, Command
    <2>2. decided.id = cur.id /\ decided.type = cur.type /\ decided.phase = "completed"
          /\ decided.result = cur.result
      BY DEF Command
    <2>3. <<ram.session, cur.id>> \notin entered
      BY <2>1 DEF WindowHeld, Served
    <2>. HIDE DEF decided
    <2>4. /\ ram'.session = ram.session /\ flash'.session = flash.session /\ sessions' = sessions
          /\ pc' = "report" /\ ram'.command = decided
          /\ \/ flash' = flash /\ entered' = entered /\ ~entering'
             \/ /\ flash'.command = decided /\ cur' = decided
                /\ \/ entered' = entered /\ ~entering'
                   \/ /\ cur.type = "enter" /\ cur.result = "applied"
                      /\ \/ entered' = entered
                         \/ entered' = entered \union {<<ram.session, cur.id>>} /\ ~entering'
      BY <1>3, ResultSteps DEF decided
    <2>5. Served(ram)'
      BY <2>1, <2>2, <2>4 DEF WindowHeld, Served
    <2>6. Served(flash)'
      BY <2>1, <2>2, <2>4 DEF WindowHeld, Served
    <2>7. \A w \in entered' : w[1] <= sessions'
      BY <2>4 DEF WindowHeld
    <2>8. entering' => /\ flash'.command = cur' /\ ram'.command = cur' /\ cur' = decided
                       /\ cur.type = "enter" /\ cur.result = "applied" /\ entered' = entered
      BY <2>4
    <2>9. cur.id # 0
      BY <2>1
    <2>. QED  BY <2>1, <2>2, <2>3, <2>4, <2>5, <2>6, <2>7, <2>8, <2>9 DEF WindowHeld
  <1>. QED  BY <1>1, <1>2, <1>3 DEF Handling, Effects

-----------------------------------------------------------------------------
(* The invariant of the service *)

LEMMA InitService == Init => ServiceInv
  <1>. SUFFICES ASSUME Init PROVE ServiceInv
    OBVIOUS
  <1>1. RequestHeld
    BY DEF Init, RequestHeld, NoRequest
  <1>2. RecordHeld
    BY DEF Init, RecordHeld, RamAhead, WellFormed, Fresh
  <1>3. WindowHeld
    BY DEF Init, WindowHeld, Served
  <1>. QED  BY <1>1, <1>2, <1>3 DEF ServiceInv

LEMMA NextService ==
  ASSUME TypeInv, NumberInv, ServiceInv, [Next]_vars
  PROVE  ServiceInv'
  <1>. USE DEF ServiceInv
  <1>1. issued \in Nat
    BY SessionTypes
  <1>2. CASE Persistence
    <2>1. /\ UNCHANGED <<pending, issued, telemetry, acks>>
          /\ pc' \notin {"receipt", "apply", "alarm", "result", "report", "wait"}
          /\ pc' = "send" => AllocateSequence
      BY <1>2, PersistenceSteps DEF HandlingAt
    <2>2. RequestHeld'
      BY <2>1, RequestsAllocated, RequestsUntouched
    <2>3. RecordHeld'
      BY <1>2, <2>1, PersistenceSteps, RecordsMoved DEF HandlingAt
    <2>. QED  BY <1>2, <2>2, <2>3, WindowsMoved
  <1>3. CASE Radio
    <2>1. RequestHeld'
      <3>1. /\ UNCHANGED <<pending, issued, acks, ram, flash, seq>> /\ telemetry \subseteq telemetry'
            /\ pc' \in {"send", "wait"} => pc \in {"send", "wait"}
        BY <1>3 DEF Radio, Send, WaitEnds, ReceiveAck, Report, stored, exchange, gateway, air
      <3>. QED  BY <3>1, RequestsUntouched
    <2>. QED  BY <1>3, <2>1, RecordsOnAir, WindowsOnAir
  <1>4. CASE Handling
    <2>1. /\ UNCHANGED <<pending, issued, acks, telemetry>> /\ pc' \notin {"send", "wait"}
      BY <1>4, ReceiptSteps, EffectSteps, ResultSteps DEF Handling, Effects
    <2>2. RequestHeld'
      BY <2>1, RequestsUntouched
    <2>. QED  BY <1>4, <2>2, RecordsHandled, WindowsHandled
  <1>5. CASE Gateway
    <2>1. UNCHANGED <<pc, ram, flash, cur, entering, sessions, entered>>
      BY <1>5 DEF Gateway, Issue, Reissue, Answer, Confirm, node, stored, exchange
    <2>2. issued' \in Nat /\ issued <= issued'
      BY <1>1, <1>5 DEF Gateway, Issue, Reissue, Answer, Confirm, gateway
    <2>3. flash.command.id \in 0..issued
      BY <1>1 DEF RecordHeld, WellFormed, NoCommand
    <2>4. WindowHeld'
      BY <2>1 DEF WindowHeld, Served
    <2>. QED  BY <1>5, <2>1, <2>2, <2>3, <2>4, RequestsOfGateway, RecordsUntouched
  <1>6. CASE UNCHANGED vars
    <2>1. UNCHANGED <<pc, ram, flash, cur, seq, entering, sessions, entered, pending, issued,
                      acks, telemetry>>
      BY <1>6 DEF vars, node, stored, exchange, gateway, air
    <2>2. WindowHeld'
      BY <2>1 DEF WindowHeld, Served
    <2>. QED  BY <1>1, <2>1, <2>2, RequestsUntouched, RecordsUntouched
  <1>. QED  BY <1>2, <1>3, <1>4, <1>5, <1>6 DEF Next

LEMMA ServiceInvariant == Spec => []ServiceInv
  <1>1. TypeInv /\ NumberInv /\ ServiceInv /\ [Next]_vars => ServiceInv'
    BY NextService
  <1>. QED  BY <1>1, InitService, TypeInvariant, NumberInvariant, PTL DEF Spec

-----------------------------------------------------------------------------
(* Commands only go forward, and open one window each *)

\* Another command than the one being handled is one that an ACK of the running
\* exchange asks for.
LEMMA CommandTaken ==
  ASSUME TypeInv, RecordHeld, [Next]_vars, cur'.id # 0, cur'.id # cur.id
  PROVE  \E a \in acks : ReceiveAck(a) /\ a.request.id = cur'.id
  <1>1. CASE Persistence
    <2>1. cur' \in {cur, NoCommand}
      BY <1>1 DEF Persistence, Boot, AllocateSequence, MeasureNow, Store, EnterMaintenance,
                  LeavePortal, FinalPowerOff, Reset, NoExchange, exchange
    <2>. QED  BY <2>1 DEF NoCommand
  <1>2. CASE Send \/ WaitEnds \/ Report \/ Gateway \/ UNCHANGED vars
    BY <1>2 DEF Send, WaitEnds, Report, Gateway, Issue, Reissue, Answer, Confirm,
                vars, node, exchange
  <1>3. CASE Handling
    <2>1. ram \in Image /\ cur \in Command
      BY DEF TypeInv, TypeOK
    <2>2. cur'.id = cur.id
      <3>1. CASE PersistReceipt
        BY <2>1, <3>1 DEF PersistReceipt, ReceiptOutcome, Command
      <3>2. CASE Effects
        BY <3>2, EffectSteps
      <3>3. CASE PersistResult
        BY <3>3, ResultSteps
      <3>. QED  BY <1>3, <3>1, <3>2, <3>3 DEF Handling, Effects
    <2>. QED  BY <2>2
  <1>4. CASE \E a \in acks : ReceiveAck(a)
    <2>1. PICK a \in acks : ReceiveAck(a)
      BY <1>4
    <2>2. cur' = NoCommand \/ cur'.id = a.request.id
      BY <2>1 DEF ReceiveAck, IsDuplicate, IsInterrupted, Begun
    <2>. QED  BY <2>1, <2>2 DEF NoCommand
  <1>. QED  BY <1>1, <1>2, <1>3, <1>4 DEF Next, Radio

\* However late, often or out of order ACKs arrive, and whatever commit fails or
\* reset comes in between, no command that is taken up is older than the one
\* flash holds (protocol.cpp:322-326).
THEOREM NoOlderCommand == Spec => NoStaleCommand
  <1>. DEFINE Forward == cur'.id # 0 /\ cur'.id # cur.id => cur'.id >= flash.command.id
  <1>1. TypeInv /\ ServiceInv /\ [Next]_vars => Forward
    <2>. SUFFICES ASSUME TypeInv, ServiceInv, [Next]_vars, cur'.id # 0, cur'.id # cur.id
                  PROVE  cur'.id >= flash.command.id
      OBVIOUS
    <2>1. PICK a \in acks : ReceiveAck(a) /\ a.request.id = cur'.id
      BY CommandTaken DEF ServiceInv
    <2>2. pc = "wait" /\ a.packet = Current
      BY <2>1 DEF ReceiveAck, AckMatches
    <2>. QED  BY <2>1, <2>2 DEF ServiceInv, RequestHeld
  <1>2. TypeInv /\ ServiceInv /\ [Next]_vars => [Forward]_vars
    BY <1>1
  <1>. HIDE DEF Forward
  <1>3. Spec => [][Forward]_vars
    BY <1>2, TypeInvariant, ServiceInvariant, PTL DEF Spec
  <1>. QED  BY <1>3 DEF Forward, NoStaleCommand

\* A command that asks for a window opens at most one in its session: not again
\* when its result could not be reported, when it arrives twice, or when a
\* reset comes between its decision and the window (command_processor.cpp:35-37).
THEOREM WindowOpensOnce == Spec => EnteredOnce
  <1>. DEFINE Once == pc = "enter" /\ pc' = "portal" => <<ram.session, cur.id>> \notin entered
  <1>1. ServiceInv => Once
    BY DEF ServiceInv, WindowHeld
  <1>2. ServiceInv => [Once]_vars
    BY <1>1
  <1>. HIDE DEF Once
  <1>3. Spec => [][Once]_vars
    BY <1>2, ServiceInvariant, PTL DEF Spec
  <1>. QED  BY <1>3 DEF Once, EnteredOnce

-----------------------------------------------------------------------------
(* Every step is one of the abstract service, or none of its business *)

Serves == Service!Next \/ UNCHANGED Service!vars

LEMMA ToldNothing == pc # "report" => Told = Service!Silence
  BY DEF Told, Service!Silence

LEMMA InitServes == Init => Service!Init
  <1>. SUFFICES ASSUME Init PROVE Service!Init
    OBVIOUS
  <1>1. Told = Service!Silence
    BY ToldNothing DEF Init
  <1>. QED  BY <1>1 DEF Init, Service!Init, Service!Nothing, Fresh, NoCommand

\* A step that gets a later command into flash begins it.
LEMMA ServesBegin ==
  ASSUME NEW c \in Command, flash'.command = c, c.phase = "received", c.result = "none",
         c.id \in 1..MaxIssued, c.type \in Types, c.id > flash.command.id,
         flash'.session = flash.session, UNCHANGED <<config, entered>>, Told' = Told
  PROVE  Serves
  <1>1. c = [id |-> c.id, type |-> c.type, phase |-> "received", result |-> "none"]
    BY DEF Command
  <1>. QED  BY <1>1 DEF Serves, Service!Next, Service!Begin

\* A step that gets the result of the begun command into flash decides it; it
\* may be told, and may open its window, at once.
LEMMA ServesDecide ==
  ASSUME NEW c \in Command, flash.command \in Command, flash'.command = c,
         flash.command.phase = "received", c.phase = "completed", c.result \in Codes,
         c.id = flash.command.id, c.type = flash.command.type,
         c.result = "applied" /\ c.type = "poll" => config = c.id,
         flash'.session = flash.session, config' = config,
         Service!Current \notin entered,
         Told' \in {Service!Silence, [id |-> c.id, result |-> c.result]},
         \/ entered' = entered
         \/ /\ c.result = "applied" /\ c.type = "enter"
            /\ entered' = entered \union {Service!Current}
  PROVE  Serves
  <1>1. c = [flash.command EXCEPT !.phase = "completed", !.result = c.result]
    BY DEF Command
  <1>2. entered' \in {entered} \union
          (IF c.result = "applied" /\ flash.command.type = "enter"
             THEN {entered \union {Service!Current}} ELSE {})
    OBVIOUS
  <1>. QED  BY <1>1, <1>2 DEF Serves, Service!Next, Service!Decide

\* A begun command has opened no window.
LEMMA BegunHasNoWindow ==
  ASSUME Served(flash), flash.command \in Command, flash.command.phase = "received"
  PROVE  Service!Current \notin entered
  <1>1. flash.command.id \in Nat
    BY MaxIssuedAssumption DEF Command
  <1>. QED  BY <1>1 DEF Served, Service!Current

\* Saving the RAM image begins a command, decides one, forgets all, or changes
\* nothing the service knows of.
LEMMA CommitServes ==
  ASSUME TypeInv, NumberInv, CommandInv, ServiceInv, Commits,
         UNCHANGED <<config, entered>>, Told = Service!Silence, Told' = Service!Silence
  PROVE  Serves
  <1>. USE SessionTypes
  <1>1. CASE flash'.session = flash.session /\ flash'.command = flash.command
    BY <1>1 DEF Serves, Service!vars
  <1>2. ASSUME flash'.session = ram.session, flash'.command = ram.command
        PROVE  Serves
    <2>1. WellFormed(ram.command) /\ RamAhead
      BY DEF ServiceInv, RecordHeld
    <2>2. ram.command.phase # "none" =>
            ram.command.id \in 1..MaxIssued /\ ram.command.type \in Types
      <3>1. issued <= MaxIssued
        BY DEF TypeInv, TypeOK
      <3>. QED  BY <2>1, <3>1, CommandShape, MaxIssuedAssumption
    <2>3. CASE ram.session = flash.session /\ ram.command = flash.command
      BY <1>2, <2>3 DEF Serves, Service!vars
    <2>4. CASE /\ ram.session = flash.session
               /\ ram.command.phase = "received" /\ ram.command.id > flash.command.id
      BY <1>2, <2>1, <2>2, <2>4, ServesBegin, CommandShape
    <2>5. CASE /\ ram.session = flash.session
               /\ flash.command.phase = "received" /\ ram.command.phase = "completed"
               /\ ram.command.id = flash.command.id /\ ram.command.type = flash.command.type
      <3>1. ram.command.result = "applied" /\ ram.command.type = "poll"
              => config = ram.command.id
        BY DEF CommandInv, ImagesTruthful, Truthful
      <3>2. Service!Current \notin entered
        BY <2>5, BegunHasNoWindow DEF ServiceInv, WindowHeld
      <3>3. ram.command.result \in Codes
        BY <2>1, <2>5, CommandShape
      <3>. QED  BY <1>2, <2>5, <3>1, <3>2, <3>3, ServesDecide
    <2>6. CASE ram.session > flash.session /\ ram.command = NoCommand
      BY <1>2, <2>6 DEF Serves, Service!Next, Service!Forget, Service!Nothing, NoCommand
    <2>. QED  BY <2>1, <2>3, <2>4, <2>5, <2>6 DEF RamAhead
  <1>. QED  BY <1>1, <1>2 DEF Commits

LEMMA PersistenceServes ==
  ASSUME TypeInv, NumberInv, CommandInv, ServiceInv, Persistence
  PROVE  Serves
  <1>1. /\ pc' # "report" /\ config' = config
        /\ pc = "report" => pc' = "boot"
    BY PersistenceSteps DEF HandlingAt
  <1>2. Told' = Service!Silence
    BY <1>1 DEF Told, Service!Silence
  <1>3. CASE pc = "report"
    <2>1. Reset
      BY <1>3 DEF Persistence, Boot, AllocateSequence, MeasureNow, Store, EnterMaintenance,
                  LeavePortal, FinalPowerOff
    <2>. QED  BY <1>2, <2>1 DEF Reset, Serves, Service!Next, Service!FallSilent
  <1>4. CASE EnterMaintenance
    <2>1. /\ entering /\ ram.session = flash.session /\ ram.command = flash.command
          /\ flash.command = cur /\ cur.type = "enter" /\ cur.result = "applied"
          /\ <<ram.session, cur.id>> \notin entered
      BY <1>4 DEF EnterMaintenance, ServiceInv, WindowHeld
    <2>2. flash' \in {flash, ram} /\ entered' = entered \union {<<ram.session, cur.id>>}
          /\ pc = "enter"
      BY <1>4 DEF EnterMaintenance, Commit
    <2>3. Told = Service!Silence
      BY <2>2, ToldNothing
    <2>. QED  BY <1>1, <1>2, <2>1, <2>2, <2>3
              DEF Serves, Service!Next, Service!OpenWindow, Service!Current
  <1>5. CASE pc # "report" /\ entered' = entered
    <2>1. Told = Service!Silence
      BY <1>5, ToldNothing
    <2>2. CASE Commits
      BY <1>1, <1>2, <1>5, <2>1, <2>2, CommitServes
    <2>3. CASE flash' = flash
      BY <1>1, <1>2, <1>5, <2>1, <2>3 DEF Serves, Service!vars
    <2>4. CASE Forgets /\ flash' # flash
      <3>1. flash' = Fresh(sessions + 1)
        BY <2>4 DEF Forgets
      <3>2. flash'.session > flash.session /\ flash'.command = NoCommand
        BY <3>1, SessionTypes DEF Fresh
      <3>. QED  BY <1>1, <1>2, <1>5, <2>1, <3>2
                DEF Serves, Service!Next, Service!Forget, Service!Nothing, NoCommand
    <2>. QED  BY <2>2, <2>3, <2>4, PersistenceSteps DEF Reloads
  <1>. QED  BY <1>3, <1>4, <1>5, PersistenceSteps

\* An error may be told of any command the gateway can have sent.
LEMMA ServesRefuse ==
  ASSUME cur'.id \in 1..issued, TypeInv, pc' = "report", cur'.result \in Codes \ {"applied"},
         flash'.session = flash.session, flash'.command = flash.command,
         UNCHANGED <<config, entered>>
  PROVE  Serves
  <1>1. issued <= MaxIssued /\ issued \in Nat
    BY MaxIssuedAssumption DEF TypeInv, TypeOK
  <1>2. cur'.id \in 1..MaxIssued
    BY <1>1, MaxIssuedAssumption
  <1>3. Told' = [id |-> cur'.id, result |-> cur'.result]
    BY DEF Told
  <1>. QED  BY <1>2, <1>3 DEF Serves, Service!Next, Service!Refuse

LEMMA RadioServes ==
  ASSUME TypeInv, NumberInv, ServiceInv, Radio
  PROVE  Serves
  <1>1. UNCHANGED <<flash, config, entered, issued>>
    BY DEF Radio, Send, WaitEnds, ReceiveAck, Report, stored, gateway
  <1>2. CASE Report
    <2>1. Told' = Service!Silence
      BY <1>2 DEF Report, Told, Service!Silence
    <2>. QED  BY <1>1, <2>1 DEF Serves, Service!Next, Service!FallSilent
  <1>3. CASE Send \/ WaitEnds
    <2>1. pc # "report" /\ pc' # "report"
      BY <1>3 DEF Send, WaitEnds, AfterAttempt, ExchangeEnds
    <2>. QED  BY <1>1, <2>1 DEF Serves, Service!vars, Told
  <1>4. ASSUME NEW a \in acks, ReceiveAck(a)
        PROVE  Serves
    <2>1. pc = "wait" /\ flash = ram
      BY <1>4 DEF ReceiveAck, TypeInv, ExchangeHeld
    <2>2. CASE pc' # "report"
      BY <1>1, <2>1, <2>2 DEF Serves, Service!vars, Told
    <2>3. CASE pc' = "report" /\ cur' = ram.command /\ IsDuplicate(ram.command, a.request)
      <3>1. Told' = [id |-> flash.command.id, result |-> flash.command.result]
            /\ flash.command.phase = "completed"
        BY <2>1, <2>3 DEF Told, IsDuplicate
      <3>. QED  BY <1>1, <3>1 DEF Serves, Service!Next, Service!Repeat
    <2>4. CASE pc' = "report" /\ cur' = Begun(a.request, "completed", "invalid")
      <3>1. RecordHeld'
        BY <1>4, RecordsOnAir DEF Radio, ServiceInv
      <3>2. cur'.id \in 1..issued /\ cur'.result \in Codes \ {"applied"}
        BY <1>1, <2>4, <3>1 DEF RecordHeld, Begun, Codes
      <3>. QED  BY <1>1, <2>4, <3>2, ServesRefuse
    <2>. QED  BY <1>4, <2>2, <2>3, <2>4 DEF ReceiveAck
  <1>. QED  BY <1>2, <1>3, <1>4 DEF Radio

\* Only applyPollInterval changes the configuration, to that of its command.
LEMMA PollSteps ==
  ASSUME TypeInv, RecordHeld, Effects
  PROVE  \/ config' = config
         \/ config' = flash.command.id /\ flash.command.type = "poll"
            /\ flash.command.phase = "received"
  <1>1. CASE ApplyPoll
    <2>1. flash.command = [cur EXCEPT !.phase = "received", !.result = "none"]
          /\ cur \in Command /\ cur.type = "poll"
      BY <1>1 DEF ApplyPoll, RecordHeld, TypeInv, TypeOK
    <2>2. flash.command.id = cur.id /\ flash.command.type = "poll"
          /\ flash.command.phase = "received"
      BY <2>1 DEF Command
    <2>. QED  BY <1>1, <2>2 DEF ApplyPoll, PollOutcome
  <1>2. CASE ApplyEnter \/ ApplySchedule \/ ProgramSchedule
    BY <1>2 DEF ApplyEnter, ApplySchedule, ProgramSchedule, stored
  <1>. QED  BY <1>1, <1>2 DEF Effects

LEMMA HandlingServes ==
  ASSUME TypeInv, NumberInv, CommandInv, ServiceInv, Handling
  PROVE  Serves
  <1>. USE SessionTypes
  <1>1. CASE PersistReceipt
    <2>1. /\ cur.id \in 1..issued /\ cur.type \in Types /\ cur.phase = "received"
          /\ cur.result = "none" /\ cur.id > flash.command.id
      BY <1>1, ReceiptSteps DEF ServiceInv, RecordHeld
    <2>2. CASE pc' = "report" /\ flash' = flash /\ cur'.result = "storage"
      <3>1. cur'.id \in 1..issued /\ cur'.result \in Codes \ {"applied"}
        BY <1>1, <2>1, <2>2, ReceiptSteps DEF ServiceInv, Codes
      <3>. QED  BY <1>1, <2>2, <3>1, ServesRefuse, ReceiptSteps DEF ServiceInv
    <2>3. CASE pc' = "apply" /\ flash'.command = cur
      <3>1. cur.id \in 1..MaxIssued
        BY <2>1, MaxIssuedAssumption DEF TypeInv, TypeOK
      <3>2. Told' = Told
        BY <1>1, <2>3, ReceiptSteps DEF Told, ServiceInv
      <3>. QED  BY <1>1, <2>1, <2>3, <3>1, <3>2, ServesBegin, ReceiptSteps DEF ServiceInv
    <2>. QED  BY <1>1, <2>2, <2>3, ReceiptSteps DEF ServiceInv
  <1>2. CASE Effects
    <2>1. /\ flash'.session = flash.session /\ flash'.command = flash.command
          /\ entered' = entered /\ pc # "report" /\ pc' # "report"
      BY <1>2, EffectSteps DEF ServiceInv
    <2>2. Told' = Told
      BY <2>1 DEF Told
    <2>3. CASE config' = config
      BY <2>1, <2>2, <2>3 DEF Serves, Service!vars
    <2>4. CASE config' = flash.command.id /\ flash.command.type = "poll"
               /\ flash.command.phase = "received"
      BY <2>1, <2>2, <2>4 DEF Serves, Service!Next, Service!SetInterval
    <2>. QED  BY <1>2, <2>3, <2>4, PollSteps DEF ServiceInv
  <1>3. CASE PersistResult
    <2>. DEFINE decided == [cur EXCEPT !.phase = "completed"]
    <2>1. /\ cur.id \in 1..issued /\ cur.result \in Codes
          /\ ram.session = flash.session /\ ram.command = flash.command
          /\ flash.command = [cur EXCEPT !.phase = "received", !.result = "none"]
      BY <1>3, ResultSteps DEF ServiceInv, RecordHeld
    <2>2. /\ decided \in Command /\ decided.phase = "completed"
          /\ decided.id = cur.id /\ decided.type = cur.type /\ decided.result = cur.result
          /\ flash.command.id = cur.id /\ flash.command.type = cur.type
          /\ flash.command.phase = "received"
      BY <2>1 DEF Command
    <2>3. Service!Current \notin entered
      BY <2>2, BegunHasNoWindow DEF ServiceInv, WindowHeld
    <2>4. decided.result = "applied" /\ decided.type = "poll" => config = decided.id
      BY <1>3, <2>2, ResultSteps DEF CommandInv, EffectHeld, ServiceInv
    <2>5. Service!Current = <<ram.session, cur.id>>
      BY <2>1, <2>2 DEF Service!Current
    <2>. HIDE DEF decided
    <2>6. /\ pc' = "report" /\ config' = config /\ issued' = issued
          /\ flash'.session = flash.session /\ cur'.id = cur.id
          /\ \/ flash' = flash /\ cur'.result = "storage" /\ entered' = entered
             \/ /\ flash'.command = decided /\ cur' = decided
                /\ \/ entered' = entered
                   \/ /\ cur.type = "enter" /\ cur.result = "applied"
                      /\ entered' = entered \union {Service!Current}
      BY <1>3, <2>5, ResultSteps DEF ServiceInv, decided
    <2>7. CASE flash' = flash /\ cur'.result = "storage" /\ entered' = entered
      <3>1. cur'.id \in 1..issued /\ cur'.result \in Codes \ {"applied"}
        BY <2>1, <2>6, <2>7 DEF Codes
      <3>. QED  BY <2>6, <2>7, <3>1, ServesRefuse
    <2>8. CASE flash'.command = decided /\ cur' = decided
      <3>1. Told' = [id |-> decided.id, result |-> decided.result]
        BY <2>6, <2>8 DEF Told
      <3>2. \/ entered' = entered
            \/ /\ decided.result = "applied" /\ decided.type = "enter"
               /\ entered' = entered \union {Service!Current}
        BY <2>2, <2>3, <2>6, <2>8
      <3>. QED  BY <2>1, <2>2, <2>3, <2>4, <2>6, <2>8, <3>1, <3>2, ServesDecide
    <2>. QED  BY <2>6, <2>7, <2>8
  <1>. QED  BY <1>1, <1>2, <1>3 DEF Handling, Effects

\* The node keeps the promise: whatever packets are lost, late or repeated,
\* whatever commit fails and wherever a reset comes, each step of the exchange is
\* one of the abstract service or leaves everything it knows of alone
\* (command_processor.cpp:20-110).
THEOREM ServiceImplemented == Spec => ImplementsService
  <1>1. TypeInv /\ NumberInv /\ CommandInv /\ ServiceInv /\ [Next]_vars
          => [Service!Next]_(Service!vars)
    <2>. SUFFICES ASSUME TypeInv, NumberInv, CommandInv, ServiceInv, [Next]_vars
                  PROVE  Serves
      BY DEF Serves
    <2>1. CASE Gateway
      <3>1. UNCHANGED <<flash, config, entered, pc, cur>>
        BY <2>1 DEF Gateway, Issue, Reissue, Answer, Confirm, node, stored, exchange
      <3>. QED  BY <3>1 DEF Serves, Service!vars, Told
    <2>2. CASE UNCHANGED vars
      BY <2>2 DEF vars, node, stored, exchange, Serves, Service!vars, Told
    <2>. QED  BY <2>1, <2>2, PersistenceServes, RadioServes, HandlingServes DEF Next
  <1>. QED  BY <1>1, InitServes, TypeInvariant, NumberInvariant, CommandInvariant,
               ServiceInvariant, PTL DEF Spec, Service!Spec, ImplementsService

===============================================================================
