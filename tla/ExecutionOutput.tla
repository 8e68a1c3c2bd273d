--------------------------- MODULE ExecutionOutput ---------------------------
(***************************************************************************)
(* The output of one execution on the Executions tab of                    *)
(* src/ui/src/jobs/JobShow.tsx: the row's expand panel SpecialOutputPanel  *)
(* and its FullButton, which fetches the whole output and writes it into   *)
(* the record object in place.                                             *)
(*                                                                         *)
(* What is on screen is what each component returned at its last render:  *)
(* panel for SpecialOutputPanel and button for FullButton.  A component    *)
(* re-renders when its own state changes or its parent re-renders;         *)
(* FullButton's setLoading re-renders FullButton alone, and writing into   *)
(* the record re-renders nothing, because react-admin still holds the same *)
(* record object.  Collapsing the row unmounts both; a FullButton mounted  *)
(* again starts with loading false.  The output text is abstracted to     *)
(* whether it is the truncated or the full one.                           *)
(***************************************************************************)
EXTENDS Integers, Sequences, FiniteSets

CONSTANTS
    NoView,       \* nothing rendered (unmounted)
    MaxClicks,    \* bound on clicks of "Load full output"
    MaxExpands    \* bound on expansions of the row

ASSUME MaxClicks \in Nat \ {0} /\ MaxExpands \in Nat \ {0}

Outputs == {"Truncated", "Full"}
Statuses == {"200", "2xx", "error"}   \* what the call ends with

VARIABLES
    rec,        \* the execution record object: output_truncated, output
    expanded,   \* the Datagrid row is expanded
    panel,      \* SpecialOutputPanel's last render, or NoView
    button,     \* FullButton's last render, or NoView
    mounted,    \* the mounted FullButton instance, 0 if none
    instances,  \* FullButton instances mounted so far
    loading,    \* state loading of the mounted FullButton
    calls       \* the httpClient calls: [inst, state, status]

vars == <<rec, expanded, panel, button, mounted, instances, loading, calls>>

\* What SpecialOutputPanel renders for record r: the FullButton if
\* output_truncated, then record.output.
PanelView(r) == [button |-> r.output_truncated, text |-> r.output]

\* What FullButton renders for record r: the output itself once
\* output_truncated is false, else the button, disabled while loading.
ButtonView(r, ld) ==
    IF r.output_truncated = FALSE THEN r.output
    ELSE IF ld THEN "Disabled" ELSE "Button"

\* The rendered button reacts to a click: disabled={loading}.
Clickable(view) == view = "Button"

TypeOK ==
    /\ rec \in [output_truncated: BOOLEAN, output: Outputs]
    /\ expanded \in BOOLEAN
    /\ panel \in [button: BOOLEAN, text: Outputs] \cup {NoView}
    /\ button \in Outputs \cup {"Button", "Disabled", NoView}
    /\ mounted \in 0..instances /\ instances \in 0..MaxExpands
    /\ loading \in BOOLEAN
    /\ calls \in Seq([inst: 1..MaxExpands, state: {"sent", "answered", "settled"},
                      status: Statuses])
    /\ Len(calls) <= MaxClicks

-----------------------------------------------------------------------------
\* The executions list holds the record, truncated by the server or not.
Init ==
    /\ rec \in {[output_truncated |-> TRUE, output |-> "Truncated"],
                [output_truncated |-> FALSE, output |-> "Full"]}
    /\ expanded = FALSE
    /\ panel = NoView
    /\ button = NoView
    /\ mounted = 0
    /\ instances = 0
    /\ loading = FALSE
    /\ calls = <<>>

\* rowClick="expand": SpecialOutputPanel renders, and mounts a fresh
\* FullButton when the record is truncated.
Expand ==
    /\ ~expanded
    /\ instances < MaxExpands
    /\ expanded' = TRUE
    /\ panel' = PanelView(rec)
    /\ IF PanelView(rec).button
         THEN /\ instances' = instances + 1
              /\ mounted' = instances + 1
              /\ loading' = FALSE
              /\ button' = ButtonView(rec, FALSE)
         ELSE UNCHANGED <<instances, mounted, loading, button>>
    /\ UNCHANGED <<rec, calls>>

\* The row is collapsed: the panel and its FullButton unmount.
Collapse ==
    /\ expanded
    /\ expanded' = FALSE
    /\ panel' = NoView
    /\ button' = NoView
    /\ mounted' = 0
    /\ loading' = FALSE
    /\ UNCHANGED <<rec, instances, calls>>

\* handleClick: setLoading(true), which re-renders FullButton, and the
\* httpClient call for the execution.
Click ==
    /\ mounted # 0
    /\ Clickable(button)
    /\ Len(calls) < MaxClicks
    /\ loading' = TRUE
    /\ button' = ButtonView(rec, TRUE)
    /\ calls' = Append(calls, [inst |-> mounted, state |-> "sent", status |-> "error"])
    /\ UNCHANGED <<rec, expanded, panel, mounted, instances>>

\* Environment: the API answers call i (httpClient rejects a non-2xx).
Respond(i) ==
    /\ calls[i].state = "sent"
    /\ \E st \in Statuses :
         calls' = [calls EXCEPT ![i] = [@ EXCEPT !.state = "answered", !.status = st]]
    /\ UNCHANGED <<rec, expanded, panel, button, mounted, instances, loading>>

\* Mutant of LoadedRecord: a field of the body the API does not send is read
\* (data.outputs), so undefined is stored.
LoadedRecordUndefinedOutput == [output_truncated |-> FALSE, output |-> "undefined"]

\* The record after record.output_truncated = false; record.output = data.output.
LoadedRecord == [output_truncated |-> FALSE, output |-> "Full"]

\* Mutant of Settle: setLoading(false) only after a 200.
SettleSkipsFinallyOnError(i) ==
    LET ok == calls[i].status = "200"
        rec2 == IF ok THEN LoadedRecord ELSE rec
        live == calls[i].inst = mounted
    IN  /\ calls[i].state = "answered"
        /\ calls' = [calls EXCEPT ![i].state = "settled"]
        /\ rec' = rec2
        /\ IF live /\ ok
             THEN loading' = FALSE /\ button' = ButtonView(rec2, FALSE)
             ELSE UNCHANGED <<loading, button>>
        /\ UNCHANGED <<expanded, panel, mounted, instances>>

\* The promise chain of call i: on a 200 the record object is written in
\* place (output_truncated = false, output = data.output), any other answer
\* is thrown and caught; finally setLoading(false), which re-renders the
\* FullButton if it is still the mounted one.  The panel is not re-rendered.
Settle(i) ==
    LET ok == calls[i].status = "200"
        rec2 == IF ok THEN LoadedRecord ELSE rec
        live == calls[i].inst = mounted
    IN  /\ calls[i].state = "answered"
        /\ calls' = [calls EXCEPT ![i].state = "settled"]
        /\ rec' = rec2
        /\ IF live
             THEN loading' = FALSE /\ button' = ButtonView(rec2, FALSE)
             ELSE UNCHANGED <<loading, button>>
        /\ UNCHANGED <<expanded, panel, mounted, instances>>

Next ==
    \/ Expand
    \/ Collapse
    \/ Click
    \/ \E i \in DOMAIN calls : Respond(i) \/ Settle(i)

(***************************************************************************)
(* The API answers or fails every call, and a settled promise's callbacks  *)
(* run; the user is not required to do anything.                           *)
(***************************************************************************)
Fairness ==
    \A i \in 1..MaxClicks :
        /\ WF_vars(i \in DOMAIN calls /\ Respond(i))
        /\ WF_vars(i \in DOMAIN calls /\ Settle(i))

Spec == Init /\ [][Next]_vars /\ Fairness

-----------------------------------------------------------------------------
(***************************************************************************)
(* The disabled button does not stay disabled: once the call of the       *)
(* mounted FullButton has ended, whichever way, it shows the button again  *)
(* or the output (the finally block), or the row has been collapsed.       *)
(***************************************************************************)
ButtonLoadingEnds == button = "Disabled" ~> button # "Disabled"

(***************************************************************************)
(* The expanded row shows one version of the output: never the full output *)
(* in FullButton's place next to the truncated output of the panel.        *)
(***************************************************************************)
OutputShownOnce == ~(button = "Full" /\ panel # NoView /\ panel.text = "Truncated")
=============================================================================
