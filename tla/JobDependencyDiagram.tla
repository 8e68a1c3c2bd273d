------------------------- MODULE JobDependencyDiagram -------------------------
(***************************************************************************)
(* The JobDependencyDiagram component of                                   *)
(* src/ui/src/jobs/JobDependencyDiagram.tsx: its state allJobs, loading    *)
(* and error, the fetchJobs effect that fills them from one getList call,  *)
(* and what it renders for the record of the job being shown.             *)
(*                                                                         *)
(* The environment holds the server's job list, answers each getList call  *)
(* (with the first page of jobs sorted by name, or a failure) after any    *)
(* delay, and (re)loads the record react-admin puts in the record context. *)
(* The focal job's status is followed apart from its links: the server's,  *)
(* the one the record was read with, and the one in allJobs.              *)
(* The effect runs on mount and again whenever dataProvider changes; no    *)
(* cleanup cancels an earlier call, so several calls may be in flight.     *)
(* The graph the component renders is buildDependencyGraph(record,         *)
(* allJobs); MCDependencyGraph checks that its nodes are RelatedIn(allJobs, *)
(* record.name), which is all the rendering below depends on; how a node  *)
(* presents its status is in JobStatus.                                    *)
(***************************************************************************)
EXTENDS Integers, Sequences, FiniteSets, Functions, JobDirectory, JobStatus

CONSTANTS
    Focal,          \* name of the job whose show page holds the diagram
    NoRecord,       \* useRecordContext() before react-admin has the record
    ServerStates,   \* the job lists the server may hold
    SortedNames,    \* Names in ascending order (sort: name ASC)
    PerPage,        \* pagination.perPage of the getList call (1000)
    MaxFetches,     \* bound on runs of the effect
    JobStatuses     \* the statuses the focal job may take on the server

ASSUME /\ \A s \in ServerStates : IsJobList(s) /\ Focal \in DOMAIN s
       /\ ToSet(SortedNames) = Names
       /\ PerPage \in Nat \ {0} /\ MaxFetches \in Nat \ {0}
       /\ JobStatuses \subseteq Statuses

VARIABLES
    server,     \* the job list the API holds
    record,     \* the focal job's record in the record context
    allJobs,    \* state allJobs, as name -> job
    loading,    \* state loading
    error,      \* state error # null
    reqs,       \* the getList calls of fetchJobs: [state, ok, data, status]
    jobStatus,  \* the focal job's status on the server
    recordStatus, \* record.status, read by the header's StatusChip
    listStatus  \* the focal job's status in allJobs, read by its node

vars == <<server, record, allJobs, loading, error, reqs,
          jobStatus, recordStatus, listStatus>>

\* response.data of getList: the first PerPage listed jobs by name.
Page(srv) ==
    LET listed == SelectSeq(SortedNames, LAMBDA n : n \in DOMAIN srv)
    IN  Restrict(srv, ToSet(SubSeq(listed, 1, IF PerPage < Len(listed)
                                                THEN PerPage ELSE Len(listed))))

TypeOK ==
    /\ server \in ServerStates
    /\ record \in JobRecord \cup {NoRecord}
    /\ IsJobList(allJobs)
    /\ loading \in BOOLEAN
    /\ error \in BOOLEAN
    /\ Len(reqs) <= MaxFetches
    /\ \A i \in DOMAIN reqs :
         /\ reqs[i].state \in {"sent", "answered", "settled"}
         /\ reqs[i].ok \in BOOLEAN
         /\ IsJobList(reqs[i].data)
         /\ reqs[i].status \in Statuses
    /\ jobStatus \in JobStatuses
    /\ recordStatus \in Statuses /\ listStatus \in Statuses

-----------------------------------------------------------------------------
\* Mutant of Init: loading starts false.
InitNotLoading ==
    /\ server \in ServerStates
    /\ record = NoRecord
    /\ allJobs = <<>>
    /\ loading = FALSE
    /\ error = FALSE
    /\ reqs = <<>>
    /\ jobStatus \in JobStatuses
    /\ recordStatus = "" /\ listStatus = ""

\* The component mounts: useState([]), useState(true), useState(null).
Init ==
    /\ server \in ServerStates
    /\ record = NoRecord
    /\ allJobs = <<>>
    /\ loading = TRUE
    /\ error = FALSE
    /\ reqs = <<>>
    /\ jobStatus \in JobStatuses
    /\ recordStatus = "" /\ listStatus = ""

\* Environment: the job list on the server is changed by someone else.
ServerUpdate ==
    /\ server' \in ServerStates \ {server}
    /\ UNCHANGED <<record, allJobs, loading, error, reqs>>
    /\ UNCHANGED <<jobStatus, recordStatus, listStatus>>

\* Environment: the focal job runs, or a run ends, and the server records
\* its new status.
StatusUpdate ==
    /\ jobStatus' \in JobStatuses \ {jobStatus}
    /\ UNCHANGED <<server, record, allJobs, loading, error, reqs>>
    /\ UNCHANGED <<recordStatus, listStatus>>

\* Environment: react-admin loads or refetches the shown record.
LoadRecord ==
    /\ record # server[Focal] \/ recordStatus # jobStatus
    /\ record' = server[Focal]
    /\ recordStatus' = jobStatus
    /\ UNCHANGED <<server, allJobs, loading, error, reqs, jobStatus, listStatus>>

\* The effect runs fetchJobs up to its await: setLoading(true) and the
\* getList call.
StartFetch ==
    /\ Len(reqs) < MaxFetches
    /\ loading' = TRUE
    /\ reqs' = Append(reqs, [state |-> "sent", ok |-> FALSE, data |-> <<>>,
                             status |-> ""])
    /\ UNCHANGED <<server, record, allJobs, error>>
    /\ UNCHANGED <<jobStatus, recordStatus, listStatus>>

\* The first run of the effect, after mount.
Mount == reqs = <<>> /\ StartFetch

\* Environment: the API answers call i with the current page, or it fails
\* (an error response, or the browser giving up on the request).
Answer(i) ==
    /\ reqs[i].state = "sent"
    /\ \E ok \in BOOLEAN :
         reqs' = [reqs EXCEPT ![i] = [state |-> "answered", ok |-> ok,
                                     data |-> IF ok THEN Page(server) ELSE <<>>,
                                     status |-> IF ok THEN jobStatus ELSE ""]]
    /\ UNCHANGED <<server, record, allJobs, loading, error>>
    /\ UNCHANGED <<jobStatus, recordStatus, listStatus>>

\* Mutant of FetchSucceeds: the whole response stored instead of its data.
FetchSucceedsStoresResponse(i) ==
    /\ reqs[i].state = "answered"
    /\ reqs[i].ok
    /\ allJobs' = reqs[i]
    /\ error' = FALSE
    /\ loading' = FALSE
    /\ reqs' = [reqs EXCEPT ![i].state = "settled"]
    /\ listStatus' = reqs[i].status
    /\ UNCHANGED <<server, record, jobStatus, recordStatus>>

\* The await of call i resolves: setAllJobs, setError(null), then the
\* finally block's setLoading(false).
FetchSucceeds(i) ==
    /\ reqs[i].state = "answered"
    /\ reqs[i].ok
    /\ allJobs' = reqs[i].data
    /\ error' = FALSE
    /\ loading' = FALSE
    /\ reqs' = [reqs EXCEPT ![i].state = "settled"]
    /\ listStatus' = reqs[i].status
    /\ UNCHANGED <<server, record, jobStatus, recordStatus>>

\* The await of call i rejects: the catch block's setError, then the
\* finally block's setLoading(false); allJobs keeps its value.
FetchFails(i) ==
    /\ reqs[i].state = "answered"
    /\ ~reqs[i].ok
    /\ error' = TRUE
    /\ loading' = FALSE
    /\ reqs' = [reqs EXCEPT ![i].state = "settled"]
    /\ UNCHANGED <<server, record, allJobs>>
    /\ UNCHANGED <<jobStatus, recordStatus, listStatus>>

Next ==
    \/ ServerUpdate
    \/ StatusUpdate
    \/ LoadRecord
    \/ StartFetch
    \/ \E i \in DOMAIN reqs : Answer(i) \/ FetchSucceeds(i) \/ FetchFails(i)

Spec == Init /\ [][Next]_vars

-----------------------------------------------------------------------------
\* The number of nodes of useMemo's { nodes, edges }.
NodeCount ==
    IF record = NoRecord \/ DOMAIN allJobs = {} THEN 0
    ELSE Cardinality(RelatedIn(allJobs, Focal))

\* "This job has no parent or dependent jobs." is rendered.
ShowsNoDependencies == record # NoRecord /\ ~loading /\ ~error /\ NodeCount <= 1

\* The SVG diagram is rendered.
ShowsDiagram == record # NoRecord /\ ~loading /\ ~error /\ NodeCount > 1

(***************************************************************************)
(* Neither the "no parent or dependent jobs" message nor a diagram is      *)
(* rendered before a getList call has succeeded: until then the component  *)
(* shows the spinner or the error (the initial allJobs is empty).          *)
(***************************************************************************)
NoVerdictBeforeData ==
    ShowsNoDependencies \/ ShowsDiagram =>
        \E i \in DOMAIN reqs : reqs[i].state = "settled" /\ reqs[i].ok

(***************************************************************************)
(* Once the show page has its record, and with it the header's StatusChip, *)
(* the list's StatusField, the header and the diagram's node never         *)
(* contradict each other on a job: for every status the API may send, or   *)
(* none, the switches of StatusField, StatusChip and getStatusColor (after *)
(* buildDependencyGraph's default) put it in the same outcome.             *)
(***************************************************************************)
StatusViewsAgree == record # NoRecord => \A s \in Statuses : ViewsAgreeOn(s)

(***************************************************************************)
(* Spec section 5: a fetch is superseded by a later one.  Once every call  *)
(* has settled, the component shows the outcome of the last one started:  *)
(* its jobs and no error if it succeeded, the error if it failed.          *)
(***************************************************************************)
DisplayedOutcomeIsNewest ==
    LET k == Len(reqs) IN
    (k > 0 /\ \A i \in DOMAIN reqs : reqs[i].state = "settled") =>
        IF reqs[k].ok THEN allJobs = reqs[k].data /\ ~error ELSE error

(***************************************************************************)
(* The "no parent or dependent jobs" message does not contradict the       *)
(* record shown on the same page: when it is rendered, the record's        *)
(* parent_job and dependent_jobs name none of the jobs the diagram was     *)
(* built from.                                                             *)
(***************************************************************************)
NoDependencyMessageAgreesWithRecord ==
    ShowsNoDependencies =>
        /\ record.parent_job \notin DOMAIN allJobs
        /\ ToSet(record.dependent_jobs) \cap DOMAIN allJobs = {}

=============================================================================
