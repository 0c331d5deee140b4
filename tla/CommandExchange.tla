--------------------------- MODULE CommandExchange ---------------------------
(***************************************************************************)
(* One telemetry exchange and the command its ACK may carry: NodeApp's     *)
(* transmit stage and radio test (lib/app/node_app.cpp), LoraRadio,        *)
(* RetryPolicy, CommandProcessor and PersistentStateManager, with the      *)
(* gateway as docs/protocol.md describes it.                               *)
(*                                                                         *)
(* A step ends at a flash commit or at a radio exchange; between any two   *)
(* the processor may reset, and any commit may fail.  A packet that is     *)
(* sent may be received late, more than once or never: packets are kept in *)
(* sets and only ever added.                                               *)
(*                                                                         *)
(* Simplifications:                                                        *)
(* - a command is its number and its type, not its argument;               *)
(* - of the persistent state only what an exchange reads or writes is kept *)
(*   (PowerLifecycle has the rest), and a commit saves all of it or fails; *)
(* - only commands change the poll interval and the schedule: what the     *)
(*   operator and the clock do to them, and how a maintenance window or a  *)
(*   shutdown goes on, is PowerLifecycle's.                                *)
(***************************************************************************)
EXTENDS Integers, FiniteSets

CONSTANTS
  LastSequence,   \* the number that is never allocated (UINT32_MAX)
  MaxAttempts,    \* ackRetryCount + 1
  Types,          \* types of command the gateway issues
  MaxIssued,      \* commands the gateway issues: the bound of a run
  MaxAnswers,     \* different answers of the gateway in a run
  MaxPackets,     \* different TELEMETRY packets of the node in a run
  MaxSessions,    \* sessions a run may generate
  Faults          \* subset of {"nvs", "storage", "reset", "reuse"}

ASSUME LastSequenceAssumption == LastSequence \in Nat \ {0}
ASSUME MaxAttemptsAssumption == MaxAttempts \in 1..255
ASSUME TypesAssumption == Types \subseteq {"enter", "poll", "schedule"}
ASSUME MaxIssuedAssumption == MaxIssued \in Nat
ASSUME MaxAnswersAssumption == MaxAnswers \in Nat
ASSUME MaxPacketsAssumption == MaxPackets \in Nat
ASSUME MaxSessionsAssumption == MaxSessions \in Nat \ {0}

VARIABLES
  pc,         \* where the firmware is
  mode,       \* "cycle", or the loop that serves the portal: "maint" or "fault"
  ready,      \* "yes"; "unsaved": begin could not save; "no": no backend
  ram,        \* PersistentStateManager::state_
  flash,      \* the image in the state partition
  config,     \* the command whose poll interval the stored configuration holds
  seq,        \* measurement_.sequence, 0 without one
  attempts,   \* RetryPolicy::attempts_
  cur,        \* the command being handled, in the end its reported result
  entering,   \* CommandApplyResult::enterMaintenance
  telemetry,  \* TELEMETRY packets sent, by their number
  acks,       \* ACK_COMMAND packets sent
  results,    \* COMMAND_RESULT packets sent, by the number of their command
  pending,    \* the command the gateway repeats until its result arrives
  issued,     \* how many commands the gateway has issued
  sessions,   \* how many session ids have been generated
  entered     \* history: commands, by session, that have opened a window

exchange == <<seq, attempts, cur, entering>>
stored   == <<ready, ram, flash, config>>
node     == <<pc, mode, stored, exchange>>
gateway  == <<pending, issued>>
air      == <<telemetry, acks, results>>
vars     == <<node, gateway, air, sessions, entered>>

-----------------------------------------------------------------------------
(* Types *)

CommandTypes == {"enter", "poll", "schedule"}

Codes == {"applied", "refused", "invalid", "storage", "internal"}

Numbers == 1..LastSequence

Command == [id : 0..MaxIssued, type : CommandTypes \union {"none"},
            phase : {"none", "received", "completed"}, result : Codes \union {"none"}]

NoCommand == [id |-> 0, type |-> "none", phase |-> "none", result |-> "none"]

Image == [session : 1..MaxSessions, next : Numbers, command : Command,
          sched : 0..MaxIssued]

\* PersistentStateManager::initialize
Fresh(session) == [session |-> session, next |-> 1, command |-> NoCommand, sched |-> 0]

Packet == [session : 1..MaxSessions, seq : Numbers]

Request == [id : 0..MaxIssued, type : CommandTypes \union {"none"}]

NoRequest == [id |-> 0, type |-> "none"]

Ack == [packet : Packet, request : Request]

TypeOK ==
  /\ pc \in {"boot", "allocate", "portal", "send", "wait", "receipt", "apply",
             "alarm", "result", "report", "store", "enter", "shutdown"}
  /\ mode \in {"cycle", "maint", "fault"}
  /\ ready \in {"yes", "unsaved", "no"}
  /\ ram \in Image /\ flash \in Image /\ config \in 0..MaxIssued
  /\ seq \in 0..LastSequence /\ attempts \in 0..MaxAttempts
  /\ cur \in Command /\ entering \in BOOLEAN
  /\ telemetry \subseteq Packet /\ acks \subseteq Ack
  /\ results \subseteq 0..MaxIssued
  /\ pending \in Request /\ issued \in 0..MaxIssued
  /\ sessions \in 1..MaxSessions
  /\ entered \subseteq (1..MaxSessions) \X (0..MaxIssued)

-----------------------------------------------------------------------------
(* Persistence: PersistentStateManager *)

Saves == IF "nvs" \in Faults THEN BOOLEAN ELSE {TRUE}

\* commit: flash takes the whole RAM image, or keeps what it has.
Commit(image, ok) == flash' = IF ok THEN image ELSE flash

\* An exchange that has not begun.
NoExchange == seq' = 0 /\ attempts' = 0 /\ cur' = NoCommand /\ entering' = FALSE

\* begin: a valid image is loaded; one that cannot be read, or does not verify,
\* is replaced by a new session; without a partition there is no backend, and
\* then nothing reads the RAM image.
Boot ==
  /\ pc = "boot"
  /\ \/ ram' = flash /\ ready' = "yes" /\ UNCHANGED <<flash, sessions>>
     \/ /\ "storage" \in Faults /\ sessions < MaxSessions
        /\ sessions' = sessions + 1
        /\ ram' = Fresh(sessions')
        /\ \/ flash' = ram' /\ ready' = "yes"
           \/ flash' = flash /\ ready' = "unsaved"
     \/ /\ "storage" \in Faults
        /\ ram' = flash /\ ready' = "no"
        /\ UNCHANGED <<flash, sessions>>
  /\ \/ pc' = "allocate" /\ mode' = "cycle"
     \/ pc' = "portal" /\ mode' \in {"maint", "fault"}
  /\ NoExchange
  /\ UNCHANGED <<config, gateway, air, entered>>

\* Defect: the number is taken before flash knows.
NumberTakenInRam(ok) == flash' = flash

\* The candidate image, with the number taken, goes to flash before RAM.
NumberSaved(ok) == Commit([ram EXCEPT !.next = @ + 1], ok)

\* allocateSequence, from acquireStage or from the portal's radio test; a cycle
\* without a number skips the radio, a test without one ends.
AllocateSequence ==
  /\ pc \in {"allocate", "portal"}
  /\ \E ok \in Saves :
       LET allocates == /\ ok /\ ram.next < LastSequence
                        /\ ready = "yes" \/ (ready = "unsaved" /\ pc = "portal")
       IN  IF allocates
             THEN /\ NumberSaved(ok)
                  /\ ram' = [ram EXCEPT !.next = @ + 1]
                  /\ seq' = ram.next
                  /\ pc' = "send"
             ELSE /\ pc' = IF pc = "allocate" THEN "store" ELSE pc
                  /\ seq' = 0
                  /\ UNCHANGED <<flash, ram>>
  /\ attempts' = 0
  /\ UNCHANGED <<mode, ready, config, cur, entering, gateway, air, sessions,
                 entered>>

\* measureNow takes a number that is never sent, and commits; without a number
\* it still commits, and an image begin could not save may get to flash.
MeasureNow ==
  /\ pc = "portal" /\ ready # "no"
  /\ \/ /\ ready = "yes" /\ ram.next < LastSequence
        /\ NumberSaved(TRUE)
        /\ ram' = [ram EXCEPT !.next = @ + 1]
     \/ /\ \E ok \in Saves : Commit(ram, ok)
        /\ UNCHANGED ram
  /\ UNCHANGED <<pc, mode, ready, config, exchange, gateway, air, sessions, entered>>

-----------------------------------------------------------------------------
(* The radio: LoraRadio::sendTelemetry and RetryPolicy *)

Current == [session |-> ram.session, seq |-> seq]

\* A cycle stores its results, a radio test returns to the portal's loop.
ExchangeEnds == IF mode = "cycle" THEN "store" ELSE "portal"

\* Defect: one attempt too many.
RetriesOnceMore(n) == IF n <= MaxAttempts THEN "send" ELSE ExchangeEnds

\* RetryPolicy::hasAttempt
AfterAttempt(n) == IF n < MaxAttempts THEN "send" ELSE ExchangeEnds

\* The packet goes out, or the transmission times out (after MaxPackets
\* packets of a run, always).
Send ==
  /\ pc = "send"
  /\ attempts' = attempts + 1
  /\ \/ /\ telemetry' = telemetry \union {Current} /\ pc' = "wait"
        /\ Cardinality(telemetry') <= MaxPackets
     \/ pc' = AfterAttempt(attempts + 1) /\ UNCHANGED telemetry
  /\ UNCHANGED <<mode, stored, seq, cur, entering, gateway, acks, results,
                 sessions, entered>>

\* waitForMatchingAck ends without one: nothing came, or the first packet that
\* came was not the answer to this telemetry.
WaitEnds ==
  /\ pc = "wait"
  /\ pc' = AfterAttempt(attempts)
  /\ UNCHANGED <<mode, stored, exchange, gateway, air, sessions, entered>>

\* Defect: an ACK of the same number of an earlier session is taken for it.
AckMatchesNumber(a) == a.packet.seq = seq

\* protocol::ackMatches
AckMatches(a) == a.packet = Current

-----------------------------------------------------------------------------
(* The command: CommandProcessor::handle and its environment, NodeApp *)

\* Defect: a completed command is not recognised.
NeverDuplicate(previous, r) == FALSE

IsDuplicate(previous, r) ==
  previous.id = r.id /\ previous.type = r.type /\ previous.phase = "completed"

\* Defect: a number that is used again is a new command.
NeverConflict(previous, r) == FALSE

IsConflict(previous, r) == previous.id = r.id /\ previous.type # r.type

IsInterrupted(previous, r) ==
  previous.id = r.id /\ previous.type = r.type /\ previous.phase = "received"

IsNew(previous, r) ==
  ~IsDuplicate(previous, r) /\ ~IsConflict(previous, r) /\ ~IsInterrupted(previous, r)

\* The command of request r, as it is when nothing has been done about it.
Begun(r, phase, result) ==
  [id |-> r.id, type |-> r.type, phase |-> phase, result |-> result]

\* A matching ACK arrives, and the stored command decides what its request is:
\* a stored result is sent again, an interrupted receipt is resumed.
ReceiveAck(a) ==
  /\ pc = "wait" /\ AckMatches(a)
  /\ LET previous == ram.command
         r == a.request
     IN  \/ r.id = 0 /\ pc' = "store" /\ cur' = NoCommand
         \/ /\ r.id # 0
            /\ \/ IsDuplicate(previous, r) /\ pc' = "report" /\ cur' = previous
               \/ IsConflict(previous, r) /\ pc' = "report"
                  /\ cur' = Begun(r, "completed", "invalid")
               \/ IsInterrupted(previous, r) /\ pc' = "apply" /\ cur' = previous
               \/ IsNew(previous, r) /\ pc' = "receipt"
                  /\ cur' = Begun(r, "received", "none")
  /\ entering' = FALSE
  /\ UNCHANGED <<mode, stored, seq, attempts, gateway, air, sessions, entered>>

\* Defect: the command is applied whether or not its receipt is durable.
ReceiptFailureIgnored(ok) == pc' = "apply" /\ UNCHANGED cur

\* Without a durable receipt nothing is applied.
ReceiptOutcome(ok) ==
  IF ok THEN pc' = "apply" /\ UNCHANGED cur
  ELSE pc' = "report" /\ cur' = [cur EXCEPT !.phase = "completed", !.result = "storage"]

\* persistReceipt: the RAM image has the receipt even if flash has not.
PersistReceipt ==
  /\ pc = "receipt"
  /\ \E ok \in Saves :
       /\ ram' = IF ready = "yes" THEN [ram EXCEPT !.command = cur] ELSE ram
       /\ Commit(ram', ok /\ ready = "yes")
       /\ ReceiptOutcome(ok /\ ready = "yes")
  /\ UNCHANGED <<mode, ready, config, seq, attempts, entering, gateway, air,
                 sessions, entered>>

Applied(code) == pc' = "result" /\ cur' = [cur EXCEPT !.result = code]

\* applyEnterMaintenance only says yes; the window is opened by the caller.
ApplyEnter ==
  /\ pc = "apply" /\ cur.type = "enter"
  /\ Applied("applied")
  /\ UNCHANGED <<mode, stored, seq, attempts, entering, gateway, air, sessions,
                 entered>>

\* Defect: the interval is adopted without the configuration being stored.
PollAlwaysApplied(ok) == Applied("applied") /\ config' = IF ok THEN cur.id ELSE config

PollOutcome(ok) ==
  IF ok THEN Applied("applied") /\ config' = cur.id
  ELSE Applied("storage") /\ UNCHANGED config

\* applyPollInterval: the configuration is stored, then adopted.
ApplyPoll ==
  /\ pc = "apply" /\ cur.type = "poll"
  /\ \E ok \in Saves : PollOutcome(ok)
  /\ UNCHANGED <<mode, ready, ram, flash, seq, attempts, entering, gateway, air,
                 sessions, entered>>

\* applyMaintenanceSchedule: refused by the clock, or made durable.
ApplySchedule ==
  /\ pc = "apply" /\ cur.type = "schedule"
  /\ \/ Applied("refused") /\ UNCHANGED <<ram, flash>>
     \/ /\ ram' = [ram EXCEPT !.sched = cur.id]
        /\ \E ok \in Saves :
             /\ Commit(ram', ok)
             /\ IF ok THEN pc' = "alarm" /\ UNCHANGED cur ELSE Applied("storage")
  /\ UNCHANGED <<mode, ready, config, seq, attempts, entering, gateway, air,
                 sessions, entered>>

\* The alarm is programmed, or the schedule fails.
ProgramSchedule ==
  /\ pc = "alarm"
  /\ \/ Applied("applied") /\ UNCHANGED <<ram, flash>>
     \/ /\ Applied("internal")
        /\ ram' = [ram EXCEPT !.sched = 0]
        /\ \E ok \in Saves : Commit(ram', ok)
  /\ UNCHANGED <<mode, ready, config, seq, attempts, entering, gateway, air,
                 sessions, entered>>

\* Defect: a result is reported as it is, durable or not.
ResultFailureIgnored(ok) == [cur EXCEPT !.phase = "completed"]

\* What is reported: the result, once flash has it, and an error until then.
Outcome(ok) ==
  IF ok THEN [cur EXCEPT !.phase = "completed"]
  ELSE [cur EXCEPT !.result = "storage"]

\* persistResult: the RAM image keeps the result even if flash has not got it.
\* In a running window ENTER_MAINTENANCE has nothing left to do.
PersistResult ==
  /\ pc = "result"
  /\ ram' = [ram EXCEPT !.command = [cur EXCEPT !.phase = "completed"]]
  /\ \E ok \in Saves : Commit(ram', ok) /\ cur' = Outcome(ok)
  /\ LET enters == cur.type = "enter" /\ cur'.result = "applied"
     IN  /\ entering' = (enters /\ mode # "maint")
         /\ entered' = IF enters /\ mode = "maint" THEN entered \union {<<ram.session, cur.id>>}
                       ELSE entered
  /\ pc' = "report"
  /\ UNCHANGED <<mode, ready, config, seq, attempts, gateway, air, sessions>>

\* sendCommandResult: once, without a retry.
Report ==
  /\ pc = "report"
  /\ \/ results' = results \union {cur.id}
     \/ UNCHANGED results
  /\ pc' = "store"
  /\ UNCHANGED <<mode, stored, exchange, gateway, telemetry, acks, sessions, entered>>

-----------------------------------------------------------------------------
(* After the exchange *)

\* The state is committed once more; then the window is opened, the node shuts
\* down, or the portal's loop goes on.
Store ==
  /\ pc = "store"
  /\ \E ok \in Saves : Commit(ram, ok /\ ready = "yes")
  /\ IF entering
       THEN pc' = "enter" /\ UNCHANGED exchange
       ELSE /\ pc' = IF mode = "cycle" THEN "shutdown" ELSE "portal"
            /\ NoExchange
  /\ UNCHANGED <<mode, ready, ram, config, gateway, air, sessions, entered>>

\* enterMaintenance commits the window and starts it.
EnterMaintenance ==
  /\ pc = "enter"
  /\ \E ok \in Saves : Commit(ram, ok /\ ready = "yes")
  /\ entered' = entered \union {<<ram.session, cur.id>>}
  /\ pc' = "portal" /\ mode' = "maint"
  /\ NoExchange
  /\ UNCHANGED <<ready, ram, config, gateway, air, sessions>>

\* The window ends, or the fault loop tries again.
LeavePortal ==
  /\ pc = "portal"
  /\ pc' = "shutdown" /\ mode' = "cycle"
  /\ UNCHANGED <<stored, exchange, gateway, air, sessions, entered>>

\* finalPowerOff: without a commit the power is kept, and the fault loop runs.
FinalPowerOff ==
  /\ pc = "shutdown"
  /\ \E ok \in Saves :
       /\ Commit(ram, ok /\ ready = "yes")
       /\ IF ok /\ ready = "yes" THEN pc' = "boot" /\ UNCHANGED mode
          ELSE pc' = "portal" /\ mode' = "fault"
  /\ UNCHANGED <<ready, ram, config, exchange, gateway, air, sessions, entered>>

\* Watchdog, panic, brownout, or a battery that is taken out.
Reset ==
  /\ "reset" \in Faults /\ pc # "boot"
  /\ pc' = "boot" /\ mode' = "cycle"
  /\ ram' = flash /\ ready' = "yes"
  /\ NoExchange
  /\ UNCHANGED <<flash, config, gateway, air, sessions, entered>>

-----------------------------------------------------------------------------
(* The gateway: docs/protocol.md:80-106 *)

Issue ==
  /\ pending = NoRequest /\ issued < MaxIssued
  /\ issued' = issued + 1
  /\ \E type \in Types : pending' = [id |-> issued', type |-> type]
  /\ UNCHANGED <<node, air, sessions, entered>>

\* A gateway that has lost count numbers another command as its last one.
Reissue ==
  /\ "reuse" \in Faults
  /\ pending = NoRequest /\ issued > 0
  /\ \E type \in Types : pending' = [id |-> issued, type |-> type]
  /\ UNCHANGED <<issued, node, air, sessions, entered>>

\* A telemetry is answered with the command that is pending, if one is.
Answer ==
  /\ \E packet \in telemetry : acks' = acks \union {[packet |-> packet, request |-> pending]}
  /\ Cardinality(acks') <= MaxAnswers
  /\ UNCHANGED <<node, gateway, telemetry, results, sessions, entered>>

\* A matching result ends the repetition.
Confirm ==
  /\ pending.id \in results
  /\ pending' = NoRequest
  /\ UNCHANGED <<issued, node, air, sessions, entered>>

-----------------------------------------------------------------------------
(* Specification *)

Init ==
  /\ pc = "boot" /\ mode = "cycle" /\ ready = "yes"
  /\ ram = Fresh(1) /\ flash = Fresh(1) /\ config = 0
  /\ seq = 0 /\ attempts = 0 /\ cur = NoCommand /\ entering = FALSE
  /\ telemetry = {} /\ acks = {} /\ results = {}
  /\ pending = NoRequest /\ issued = 0
  /\ sessions = 1 /\ entered = {}

Persistence == Boot \/ AllocateSequence \/ MeasureNow \/ Store \/ EnterMaintenance
               \/ LeavePortal \/ FinalPowerOff \/ Reset

Radio == Send \/ WaitEnds \/ (\E a \in acks : ReceiveAck(a)) \/ Report

Handling == PersistReceipt \/ ApplyEnter \/ ApplyPoll \/ ApplySchedule
            \/ ProgramSchedule \/ PersistResult

Gateway == Issue \/ Reissue \/ Answer \/ Confirm

Next == Persistence \/ Radio \/ Handling \/ Gateway

Spec == Init /\ [][Next]_vars

-----------------------------------------------------------------------------
(* Safety *)

\* A new exchange never uses a number that a packet of the same session already
\* carries: no reset, failed commit or replaced session makes one be reused.
\* (docs/protocol.md:110, persistent_state.cpp:86-105)
SequenceFresh == pc = "send" /\ attempts = 0 => Current \notin telemetry

\* What has an effect has a durable receipt: between them a reset cannot make
\* the node forget which command it has begun. (docs/testing.md:59)
ReceiptFirst ==
  pc \in {"apply", "alarm", "result"} => flash.command.id = cur.id

\* A success is only reported of a result that flash holds; even a duplicate's,
\* which is taken from RAM, where a failed commit may have left it.
\* (docs/testing.md:59, command_processor.cpp:29-39 and 103-106)
ReportedIsDurable ==
  pc = "report" /\ cur.result = "applied" => flash.command = cur

\* A command that is reported as applied has had its effect: the interval is
\* stored, or the schedule is. (command_processor.cpp:80-106)
AppliedHasEffect ==
  pc = "report" /\ cur.result = "applied" =>
    /\ cur.type = "poll" => config = cur.id
    /\ cur.type = "schedule" => flash.sched = cur.id

\* The node remembers one command only, and still never goes back to an earlier
\* one, however late or often ACKs arrive. (protocol.cpp:322-326)
NoStaleCommand ==
  [][cur'.id # 0 /\ cur'.id # cur.id => cur'.id >= flash.command.id]_vars

\* A command opens one maintenance window at most. (command_processor.cpp:35-37)
EnteredOnce == [][pc = "enter" /\ pc' = "portal" => <<ram.session, cur.id>> \notin entered]_vars

\* A number the gateway uses again, for a command of another type, never takes
\* the place of the durable one. (command_processor.cpp:43-58)
NumberKeepsType ==
  [][flash.command.id # 0 /\ flash'.command.id = flash.command.id
       => flash'.command.type = flash.command.type]_vars

(* Why they hold: the inductive invariants of the proofs *)

\* Numbers and attempts of a running exchange.
ExchangeHeld ==
  /\ pc \in {"send", "wait"} => seq \in Numbers /\ seq < ram.next /\ flash = ram
  /\ pc = "send" => attempts < MaxAttempts
  /\ pc = "wait" => attempts > 0

\* Every number of its session that is on the air is taken in an image.
TakenBelow(image) ==
  /\ image.session <= sessions
  /\ \A packet \in telemetry : packet.session = image.session => packet.seq < image.next

NumberInv ==
  /\ TakenBelow(ram) /\ TakenBelow(flash)
  /\ \A packet \in telemetry : packet.session <= sessions
  /\ SequenceFresh

\* A command is handled under its own, undecided receipt.
ReceiptHeld ==
  /\ pc = "receipt" => cur.phase = "received" /\ cur.result = "none"
  /\ pc \in {"apply", "alarm", "result"} =>
       /\ ram.command.id = cur.id /\ ram.command.result = "none"
       /\ flash.command.id = cur.id /\ flash.command.result = "none"

\* What an image says of its command is true of what it had an effect on.
Truthful(image) ==
  /\ image.command.phase = "received" => image.command.result = "none"
  /\ image.command.result = "applied" =>
       /\ image.command.type = "poll" => config = image.command.id
       /\ image.command.type = "schedule" => image.sched = image.command.id

ImagesTruthful == Truthful(ram) /\ Truthful(flash)

EffectHeld ==
  /\ pc = "alarm" => cur.type = "schedule" /\ ram.sched = cur.id
  /\ pc = "result" /\ cur.result = "applied" =>
       /\ cur.type = "poll" => config = cur.id
       /\ cur.type = "schedule" => ram.sched = cur.id

CommandInv ==
  ReceiptHeld /\ ImagesTruthful /\ EffectHeld /\ ReportedIsDurable

\* Both images and the command that is being handled agree about its type.
TypeHeld ==
  /\ ram.command.id # 0 /\ ram.command.id = flash.command.id
       => ram.command.type = flash.command.type
  /\ pc = "receipt" =>
       (flash.command.id = cur.id => flash.command.type = cur.type)
  /\ pc \in {"apply", "alarm", "result"} =>
       ram.command.type = cur.type /\ flash.command.type = cur.type

\* A command of an image: none, or an issued one that is begun or decided.
WellFormed(c) ==
  \/ c = NoCommand
  \/ /\ c.id \in 1..issued /\ c.type \in Types
     /\ \/ c.phase = "received" /\ c.result = "none"
        \/ c.phase = "completed" /\ c.result \in Codes

\* What the gateway asks for is the last command it issued, and an ACK of the
\* running exchange asks for none that is older than the durable one.
RequestHeld ==
  /\ pending.id \in {0, issued} /\ (pending.id # 0 => pending.type \in Types)
  /\ \A a \in acks : /\ a.packet \in telemetry
                     /\ a.request.id # 0 => a.request.id \in 1..issued /\ a.request.type \in Types
  /\ pc \in {"send", "wait"} =>
       \A a \in acks : a.packet = Current /\ a.request.id # 0
                       => a.request.id >= flash.command.id

\* RAM is never behind flash: it has the same command, or begun a later one, or
\* decided the durable one, or belongs to a later session.
RamAhead ==
  \/ /\ ram.session = flash.session
     /\ \/ ram.command = flash.command
        \/ ram.command.phase = "received" /\ ram.command.id > flash.command.id
        \/ /\ flash.command.phase = "received" /\ ram.command.phase = "completed"
           /\ ram.command.id = flash.command.id /\ ram.command.type = flash.command.type
  \/ ram.session > flash.session /\ ram.command = NoCommand

\* A command that is handled is a new one or the one both images have begun.
RecordHeld ==
  /\ WellFormed(ram.command) /\ WellFormed(flash.command) /\ RamAhead
  /\ pc \in {"receipt", "apply", "alarm", "result", "report"} =>
       cur.id \in 1..issued /\ cur.type \in Types
  /\ pc \in {"receipt", "apply", "alarm", "result"} =>
       ram.session = flash.session /\ ram.command = flash.command
  /\ pc = "receipt" =>
       cur.phase = "received" /\ cur.result = "none" /\ cur.id > flash.command.id
  /\ pc \in {"apply", "alarm", "result"} =>
       flash.command = [cur EXCEPT !.phase = "received", !.result = "none"]
  /\ pc = "result" => cur.result \in Codes

\* A command that has opened a window is over in the image of its session.
Served(image) ==
  \A w \in entered : w[1] = image.session =>
    \/ w[2] < image.command.id
    \/ w[2] = image.command.id /\ image.command.phase = "completed"

\* A window that is still to be opened is that of the durable command, and new.
WindowHeld ==
  /\ Served(ram) /\ Served(flash)
  /\ \A w \in entered : w[1] <= sessions
  /\ pc = "enter" => entering
  /\ entering =>
       /\ pc \in {"report", "store", "enter"}
       /\ ram.session = flash.session /\ ram.command = flash.command
       /\ flash.command = cur /\ cur.id # 0 /\ cur.phase = "completed"
       /\ cur.type = "enter" /\ cur.result = "applied"
       /\ <<ram.session, cur.id>> \notin entered

ServiceInv == RequestHeld /\ RecordHeld /\ WindowHeld

(* The promise it keeps: an abstract service without packets, RAM or resets *)

\* What the gateway is being told.
Told == IF pc = "report" THEN [id |-> cur.id, result |-> cur.result]
        ELSE [id |-> 0, result |-> "none"]

Service == INSTANCE CommandService WITH
  Ids <- 1..MaxIssued, Types <- Types, Results <- Codes,
  epoch <- flash.session, record <- flash.command, interval <- config,
  windows <- entered, answer <- Told

\* Whatever is lost, repeated or late on the air and whatever fails or is reset
\* in the node, flash, configuration, windows and answers move as the abstract
\* service does: a later command only, its effect only while it is begun and
\* undecided, one decision, one window, and no success but the recorded one.
\* (command_processor.cpp:20-110, docs/testing.md:59)
ImplementsService == Service!Spec

=============================================================================
