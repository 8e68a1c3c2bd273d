---------------------------- MODULE ExecutionStats ----------------------------
(***************************************************************************)
(* The ExecutionStatsChart card of                                         *)
(* src/ui/src/dashboard/ExecutionStatsChart.tsx: its state data, loading   *)
(* and error, the fetchStats effect (one GET /stats?days=30 per mount) and *)
(* which of spinner, error text and chart it renders, with the subheader   *)
(* totals.                                                                 *)
(*                                                                         *)
(* The effect has no cleanup: a card unmounted while its call is pending   *)
(* is replaced by a fresh instance with its own call, and the old call's   *)
(* setState calls are ignored by React.  The answer body is a list of      *)
(* daily counts, or a body without a stats list (stats null, or a body     *)
(* fetchJson could not parse); or httpClient rejects (non-2xx, network).   *)
(* Dates and their formatting are left out: they are only shown.           *)
(***************************************************************************)
EXTENDS Integers, Sequences, SequencesExt

CONSTANTS
    MaxCount,     \* bound on a day's success_count and failed_count
    Days,         \* bound on the number of days in an answer
    MaxMounts,    \* bound on mounts of the card
    NoStats,      \* a 2xx body without a stats list
    Rejected      \* httpClient rejected the call

ASSUME MaxCount \in Nat /\ Days \in Nat /\ MaxMounts \in Nat \ {0}

\* ExecutionStat, without its date.
Stats == [success_count: 0..MaxCount, failed_count: 0..MaxCount]

\* The stats lists an answer may carry.
StatLists == UNION {[1..n -> Stats] : n \in 0..Days}

Answers == StatLists \cup {NoStats, Rejected}

\* ChartDataPoint, without its date.
Points == [success: 0..MaxCount, failed: 0..MaxCount, total: 0..2 * MaxCount]

VARIABLES
    mounted,    \* the mounted card instance, 0 if none
    instances,  \* card instances mounted so far
    data,       \* state data: the chart points
    loading,    \* state loading
    error,      \* state error # null
    calls       \* the GET /stats calls: [inst, state, answer]

vars == <<mounted, instances, data, loading, error, calls>>

TypeOK ==
    /\ mounted \in 0..instances /\ instances \in 0..MaxMounts
    /\ data \in Seq(Points)
    /\ loading \in BOOLEAN /\ error \in BOOLEAN
    /\ calls \in Seq([inst: 1..MaxMounts, state: {"sent", "settled"},
                      answer: Answers])

\* Mutant of ChartPoint: the success area fed the day's total, the sum of
\* the line below copied into the line above.
ChartPointSuccessAsTotal(stat) ==
    [success |-> stat.success_count + stat.failed_count,
     failed |-> stat.failed_count,
     total |-> stat.success_count + stat.failed_count]

\* The map callback of line 50: one chart point per day.
ChartPoint(stat) ==
    [success |-> stat.success_count, failed |-> stat.failed_count,
     total |-> stat.success_count + stat.failed_count]

ChartData(stats) == [d \in DOMAIN stats |-> ChartPoint(stats[d])]

\* Mutant of Totals: totalFailed copied from totalSuccess.
TotalsCopyPaste(pts) ==
    LET s == FoldLeft(LAMBDA sum, d : sum + d.success, 0, pts)
    IN  [success |-> s, failed |-> s]

\* totalSuccess and totalFailed of lines 97-98.
Totals(pts) ==
    [success |-> FoldLeft(LAMBDA sum, d : sum + d.success, 0, pts),
     failed  |-> FoldLeft(LAMBDA sum, d : sum + d.failed, 0, pts)]

\* What the card renders: line 71 spinner, line 84 error, else the chart.
View ==
    CASE mounted = 0 -> "none"
      [] loading     -> "spinner"
      [] error       -> "error"
      [] OTHER       -> "chart"

-----------------------------------------------------------------------------
Init ==
    /\ mounted = 0
    /\ instances = 0
    /\ data = <<>>
    /\ loading = FALSE
    /\ error = FALSE
    /\ calls = <<>>

\* Mutant of Mount: useState(false) for loading.
MountNotLoading ==
    /\ mounted = 0
    /\ instances < MaxMounts
    /\ instances' = instances + 1
    /\ mounted' = instances + 1
    /\ data' = <<>> /\ loading' = FALSE /\ error' = FALSE
    /\ calls' = Append(calls, [inst |-> instances + 1, state |-> "sent", answer |-> Rejected])

\* The card mounts with useState([]), useState(true), useState(null), and
\* its effect runs fetchStats up to the await: setLoading(true) and the
\* httpClient call.
Mount ==
    /\ mounted = 0
    /\ instances < MaxMounts
    /\ instances' = instances + 1
    /\ mounted' = instances + 1
    /\ data' = <<>> /\ loading' = TRUE /\ error' = FALSE
    /\ calls' = Append(calls, [inst |-> instances + 1, state |-> "sent", answer |-> Rejected])

\* The dashboard is left: the card unmounts, its state is gone.
Unmount ==
    /\ mounted # 0
    /\ mounted' = 0
    /\ data' = <<>> /\ loading' = FALSE /\ error' = FALSE
    /\ UNCHANGED <<instances, calls>>

\* Mutant of Settle: setLoading(false) only after setData.
SettleFinallyOnSuccess(i) ==
    /\ calls[i].state = "sent"
    /\ \E ans \in Answers :
         /\ calls' = [calls EXCEPT ![i] = [@ EXCEPT !.state = "settled", !.answer = ans]]
         /\ IF calls[i].inst # mounted THEN UNCHANGED <<data, loading, error>>
            ELSE IF ans \in StatLists
              THEN data' = ChartData(ans) /\ error' = FALSE /\ loading' = FALSE
              ELSE error' = TRUE /\ UNCHANGED <<data, loading>>
    /\ UNCHANGED <<mounted, instances>>

\* The await of call i ends with an answer.  A stats list is mapped to
\* points, then setData and setError(null); a rejection, or a body whose
\* stats is not a list (the map throws), ends in the catch's setError; the
\* finally's setLoading(false) runs either way.  Calls of an unmounted
\* instance change nothing.
Settle(i) ==
    /\ calls[i].state = "sent"
    /\ \E ans \in Answers :
         /\ calls' = [calls EXCEPT ![i] = [@ EXCEPT !.state = "settled", !.answer = ans]]
         /\ IF calls[i].inst # mounted THEN UNCHANGED <<data, loading, error>>
            ELSE /\ loading' = FALSE
                 /\ IF ans \in StatLists
                      THEN data' = ChartData(ans) /\ error' = FALSE
                      ELSE error' = TRUE /\ UNCHANGED data
    /\ UNCHANGED <<mounted, instances>>

Next ==
    \/ Mount
    \/ Unmount
    \/ \E i \in DOMAIN calls : Settle(i)

\* The API answers or fails every call and the continuation runs; the user
\* is not required to open or leave the dashboard.
Fairness == \A i \in 1..MaxMounts : WF_vars(i \in DOMAIN calls /\ Settle(i))

Spec == Init /\ [][Next]_vars /\ Fairness

-----------------------------------------------------------------------------
\* Reference sum of one count over the days of an answer.
RECURSIVE SumOf(_, _)
SumOf(stats, field) ==
    IF stats = <<>> THEN 0
    ELSE stats[1][field] + SumOf(Tail(stats), field)

\* The call of the mounted card.
OwnCall == CHOOSE i \in DOMAIN calls : calls[i].inst = mounted

(***************************************************************************)
(* The card shows the outcome of its own call: no error text or chart      *)
(* before that call has settled (an empty chart would read "Total: 0       *)
(* executions"); the error exactly when it was rejected or carried no      *)
(* stats list; and a chart whose subheader counts the successful and the   *)
(* failed executions of the answer's days.                                 *)
(***************************************************************************)
StatsViewMatchesOwnCall ==
    View \in {"error", "chart"} =>
        LET ans == calls[OwnCall].answer IN
        /\ calls[OwnCall].state = "settled"
        /\ (View = "error") = (ans \notin StatLists)
        /\ View = "chart" =>
              /\ Len(data) = Len(ans)
              /\ Totals(data) = [success |-> SumOf(ans, "success_count"),
                                 failed  |-> SumOf(ans, "failed_count")]

(***************************************************************************)
(* The spinner of a mounted card goes away: whether the call succeeds,     *)
(* fails, or returns a body the map cannot read, the finally block ends    *)
(* the loading state (or the card is unmounted).                           *)
(***************************************************************************)
StatsLoadingEnds ==
    \A k \in 1..MaxMounts :
        (mounted = k /\ loading) ~> (mounted # k \/ ~loading)
====
