--------------------------- MODULE MaintenanceBudget ---------------------------
(***************************************************************************)
(* The energy budget of a maintenance window.  The access point and the    *)
(* portal cost the node most of its power, so a window is granted once: a  *)
(* reboot the portal offers, a watchdog or a panic continues it             *)
(* (node_app.cpp:141-151, 555-574).  PowerLifecycle keeps only what the     *)
(* program keeps; this module adds a history variable that counts the      *)
(* minutes the current window has actually been open.                      *)
(***************************************************************************)
EXTENDS PowerLifecycle

VARIABLE used   \* minutes spent in the window since it was granted

InWindow == pc = "maint" \/ ctx = "maint"

\* enterMaintenance grants a window: it found none that was already running.
Granted == pc = "enter" /\ pc' \in {"maint", "finish"} /\ ~WindowContinues

BudgetInit == Init /\ used = 0

BudgetNext ==
  /\ Next
  /\ used' = IF Granted THEN 0
             ELSE IF InWindow /\ mLeft' < mLeft /\ now' > now THEN used + 1
             ELSE used

BudgetSpec == BudgetInit /\ [][BudgetNext]_<<vars, used>>

\* The window is never open for longer than its one lifetime, however often it
\* was interrupted by reboots and resets. (node_app.cpp:473-475, 559-565)
BudgetKept == used <= Life

(* Why it holds while nobody sets the clock. *)

\* A deadline leaves no more than the rest of the lifetime after time t.
LeavesRest(deadline, t) == deadline # 0 => used + deadline <= t + Life

\* What has been used and what is left are one lifetime, in RAM while the
\* window is open, and in flash, as the deadline, for when it is interrupted.
\* The time a resumed window is measured from was read outside the window.
BudgetInv ==
  /\ used \in Nat /\ BudgetKept /\ now <= Horizon
  /\ InWindow => used + mLeft <= Life
  /\ LeavesRest(nvs.deadline, now) /\ LeavesRest(ram.deadline, now)
  /\ seen.clock = "valid" =>
       /\ seen.time <= now
       /\ ready /\ ~InWindow /\ pc # "finish" => LeavesRest(ram.deadline, seen.time)
  /\ ctx = "maint" => pc \in {"transmit", "command", "schedule", "commandDone"}
  /\ "enter" \in req => pc \in {"stored", "commandDone"} /\ ctx # "maint"

=============================================================================
