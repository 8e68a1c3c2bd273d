------------------------------ MODULE JobStatus ------------------------------
(***************************************************************************)
(* How the UI presents a job's status.  Three places show it, each with   *)
(* its own switch over record.status:                                      *)
(*   - StatusField, the chip of the job list (jobs/StatusField.tsx);       *)
(*   - StatusChip, the chip in the header of the show page (JobShow.tsx);  *)
(*   - the diagram node, whose status buildDependencyGraph defaults to     *)
(*     'untriggered' and whose accent is getStatusColor of it              *)
(*     (JobDependencyDiagram.tsx).                                         *)
(* A job's status is one of the four the API sends or absent, written "".  *)
(* Labels and colours are kept as the strings the code uses; layout is     *)
(* left out.                                                               *)
(***************************************************************************)
EXTENDS TLC

\* record.status: success | failed | running | untriggered, or absent.
Statuses == {"success", "failed", "running", "untriggered", ""}

\* StatusField's getStatusConfig: label and colour of the list's chip.
StatusFieldConfig(status) ==
    CASE status = "success" -> [label |-> "Success", color |-> "#38a169"]
      [] status = "failed"  -> [label |-> "Failed", color |-> "#e53e3e"]
      [] OTHER              -> [label |-> "Pending", color |-> "#d69e2e"]

\* StatusChip's colorMap, a Record<string, ...>.
colorMap ==
    ("success" :> "success") @@ ("failed" :> "error")
      @@ ("running" :> "warning") @@ ("untriggered" :> "default")

\* StatusChip: label status || "unknown", color colorMap[status] || "default".
StatusChip(status) ==
    [label |-> IF status = "" THEN "unknown" ELSE status,
     color |-> IF status \in DOMAIN colorMap THEN colorMap[status]
                                           ELSE "default"]

\* Mutant of getStatusColor: the 'failed' case left out.
getStatusColorNoFailed(status) ==
    CASE status = "success" -> "#22c55e"
      [] status = "running" -> "#f59e0b"
      [] OTHER              -> "#94a3b8"

\* getStatusColor: the accent of a diagram node.
getStatusColor(status) ==
    CASE status = "success" -> "#22c55e"
      [] status = "failed"  -> "#ef4444"
      [] status = "running" -> "#f59e0b"
      [] OTHER              -> "#94a3b8"

\* The node's status in buildDependencyGraph: job.status || 'untriggered'.
NodeStatus(status) == IF status = "" THEN "untriggered" ELSE status

\* DiagramNode: statusColor = getStatusColor(node.status).
NodeColor(status) == getStatusColor(NodeStatus(status))

-----------------------------------------------------------------------------
(***************************************************************************)
(* What each view says of the run's outcome: succeeded, failed, running,   *)
(* or none of these, read from its own label or colour.  The list's       *)
(* "Pending" does not tell running from waiting.                           *)
(***************************************************************************)
ListOutcome(s) ==
    CASE StatusFieldConfig(s).label = "Success" -> {"ok"}
      [] StatusFieldConfig(s).label = "Failed"  -> {"bad"}
      [] OTHER                                  -> {"active", "none"}

ChipOutcome(s) ==
    CASE StatusChip(s).color = "success" -> "ok"
      [] StatusChip(s).color = "error"   -> "bad"
      [] StatusChip(s).color = "warning" -> "active"
      [] OTHER                           -> "none"

NodeOutcome(s) ==
    CASE NodeColor(s) = "#22c55e" -> "ok"
      [] NodeColor(s) = "#ef4444" -> "bad"
      [] NodeColor(s) = "#f59e0b" -> "active"
      [] OTHER                    -> "none"

\* The list, the show page's header and the diagram put status s in the
\* same outcome.
ViewsAgreeOn(s) ==
    /\ ChipOutcome(s) = NodeOutcome(s)
    /\ ChipOutcome(s) \in ListOutcome(s)

====
