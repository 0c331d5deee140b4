---------------------------- MODULE CommandService ----------------------------
(***************************************************************************)
(* What a node promises its gateway about commands, with no packets, no    *)
(* sequence numbers, no RAM image and no resets in it: one durable record  *)
(* of the last command, effects that belong to that record, and answers    *)
(* that do not claim more than it says.  CommandExchange implements this   *)
(* specification (its property ImplementsService).                         *)
(*                                                                         *)
(* The promise, clause by clause: lib/commands/command_processor.cpp:20-110 *)
(* and the comments and docs/testing.md:55-62 about it.                    *)
(***************************************************************************)
EXTENDS Integers

CONSTANTS
  Ids,         \* numbers of commands, in the order of their issue
  Types,       \* types of command
  Results      \* how a command may end; one of them is "applied"

VARIABLES
  epoch,       \* which state the record belongs to: a new one has forgotten all
  record,      \* the last command that was begun: its id, type, phase, result
  interval,    \* the command whose poll interval is in force
  windows,     \* the commands, by epoch, that have opened a maintenance window
  answer       \* what the gateway is being told: a command's id and result

vars == <<epoch, record, interval, windows, answer>>

Nothing == [id |-> 0, type |-> "none", phase |-> "none", result |-> "none"]

Silence == [id |-> 0, result |-> "none"]

Init ==
  /\ record = Nothing /\ interval = 0 /\ windows = {} /\ answer = Silence
  /\ epoch = 1

\* A later command takes the place of the last one, whether or not that was
\* decided; an earlier one, or the same again, never does.
Begin ==
  /\ \E id \in Ids, type \in Types :
       /\ id > record.id
       /\ record' = [id |-> id, type |-> type, phase |-> "received", result |-> "none"]
  /\ UNCHANGED <<epoch, interval, windows, answer>>

\* Its effect, as often as it takes, but only while it is undecided.
SetInterval ==
  /\ record.phase = "received" /\ record.type = "poll"
  /\ interval' = record.id
  /\ UNCHANGED <<epoch, record, windows, answer>>

Current == <<epoch, record.id>>

\* It is decided once; an interval that is not in force is not applied, and a
\* window that is open already has served a command to open one.
Decide ==
  /\ record.phase = "received"
  /\ \E result \in Results :
       /\ result = "applied" /\ record.type = "poll" => interval = record.id
       /\ record' = [record EXCEPT !.phase = "completed", !.result = result]
       /\ answer' \in {Silence, [id |-> record.id, result |-> result]}
       /\ windows' \in {windows} \union
            (IF result = "applied" /\ record.type = "enter"
               THEN {windows \union {Current}} ELSE {})
  /\ Current \notin windows
  /\ UNCHANGED <<epoch, interval>>

\* The window a command has asked for, once.
OpenWindow ==
  /\ record.type = "enter" /\ record.result = "applied"
  /\ Current \notin windows
  /\ windows' = windows \union {Current}
  /\ UNCHANGED <<epoch, record, interval, answer>>

\* The recorded end of a command may be told again.
Repeat ==
  /\ record.phase = "completed"
  /\ answer' = [id |-> record.id, result |-> record.result]
  /\ UNCHANGED <<epoch, record, interval, windows>>

\* An error may be told of any command; it promises nothing.
Refuse ==
  /\ \E id \in Ids, result \in Results \ {"applied"} :
       answer' = [id |-> id, result |-> result]
  /\ UNCHANGED <<epoch, record, interval, windows>>

FallSilent ==
  /\ answer' = Silence
  /\ UNCHANGED <<epoch, record, interval, windows>>

\* The stored state was lost: a new session begins, which remembers nothing.
Forget ==
  /\ epoch' > epoch
  /\ record' = Nothing
  /\ UNCHANGED <<interval, windows, answer>>

Next == Begin \/ SetInterval \/ Decide \/ OpenWindow \/ Repeat \/ Refuse
        \/ FallSilent \/ Forget

Spec == Init /\ [][Next]_vars

=============================================================================
