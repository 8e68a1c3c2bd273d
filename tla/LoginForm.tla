------------------------------ MODULE LoginForm ------------------------------
(***************************************************************************)
(* The login form of src/ui/src/LoginPage.tsx: the token field, the        *)
(* loading state kept with react-admin's useSafeSetState, handleSubmit and *)
(* the submit button disabled while loading.                               *)
(*                                                                         *)
(* login({ token }) hands the token to the authProvider; when it resolves  *)
(* react-admin redirects and the page unmounts, and useSafeSetState drops  *)
(* any later setLoading; when it rejects the catch re-enables the button.  *)
(* A click is a discrete event, so React has re-rendered the button with   *)
(* the loading state of the previous event before the next one arrives;   *)
(* Enter in the field submits through the same, then disabled, button.     *)
(* Session composes this form with the Clock of the layout it leads to.    *)
(***************************************************************************)
EXTENDS Integers, Sequences, FiniteSets

CONSTANTS
    Tokens,       \* values the user may type
    ValidTokens,  \* those the authProvider accepts
    MaxSubmits    \* bound on submits

ASSUME "" \in Tokens /\ ValidTokens \subseteq Tokens /\ MaxSubmits \in Nat \ {0}

VARIABLES
    mounted,    \* the login page is shown
    token,      \* state token
    loading,    \* state loading (useSafeSetState)
    notified,   \* 'Invalid token' notifications shown
    calls       \* the login calls: [token, state]

vars == <<mounted, token, loading, notified, calls>>

TypeOK ==
    /\ mounted \in BOOLEAN /\ token \in Tokens /\ loading \in BOOLEAN
    /\ notified \in 0..MaxSubmits
    /\ calls \in Seq([token: Tokens, state: {"pending", "resolved", "rejected"}])

\* Mutant of SubmitEnabled: the button not disabled while loading.
SubmitEnabledAlways(ld) == TRUE

\* <Button type="submit" disabled={loading}>.
SubmitEnabled(ld) == ~ld

-----------------------------------------------------------------------------
Init ==
    /\ mounted = TRUE
    /\ token = ""
    /\ loading = FALSE
    /\ notified = 0
    /\ calls = <<>>

\* A fresh LoginPage, shown again after a logout: useState(''),
\* useSafeSetState(false).
Remount ==
    /\ ~mounted
    /\ mounted' = TRUE
    /\ token' = ""
    /\ loading' = FALSE
    /\ UNCHANGED <<notified, calls>>

\* Mutant of Type: setToken(e.target), the input element, not its value.
TypeStoresTarget ==
    /\ mounted
    /\ token' = "[object HTMLInputElement]"
    /\ UNCHANGED <<mounted, loading, notified, calls>>

\* onChange of the token field: setToken; the field stays editable while
\* loading.
Type ==
    /\ mounted
    /\ \E t \in Tokens \ {token} : token' = t
    /\ UNCHANGED <<mounted, loading, notified, calls>>

\* handleSubmit: setLoading(true), then login({ token }).
Submit ==
    /\ mounted
    /\ SubmitEnabled(loading)
    /\ Len(calls) < MaxSubmits
    /\ loading' = TRUE
    /\ calls' = Append(calls, [token |-> token, state |-> "pending"])
    /\ UNCHANGED <<mounted, token, notified>>

\* Environment: the authProvider accepts call i's token; react-admin
\* redirects away from the login page.
LoginResolves(i) ==
    /\ calls[i].state = "pending"
    /\ calls[i].token \in ValidTokens
    /\ calls' = [calls EXCEPT ![i].state = "resolved"]
    /\ mounted' = FALSE
    /\ UNCHANGED <<token, loading, notified>>

\* Mutant of LoginRejects: the catch only notifies.
LoginRejectsKeepsLoading(i) ==
    /\ calls[i].state = "pending"
    /\ calls' = [calls EXCEPT ![i].state = "rejected"]
    /\ IF mounted THEN notified' = notified + 1 ELSE UNCHANGED notified
    /\ UNCHANGED <<mounted, token, loading>>

\* Environment: the authProvider rejects call i (a wrong token, or the
\* server not answering): the catch's setLoading(false), which
\* useSafeSetState drops once the page is gone, and notify('Invalid token').
LoginRejects(i) ==
    /\ calls[i].state = "pending"
    /\ calls' = [calls EXCEPT ![i].state = "rejected"]
    /\ IF mounted
         THEN loading' = FALSE /\ notified' = notified + 1
         ELSE UNCHANGED <<loading, notified>>
    /\ UNCHANGED <<mounted, token>>

-----------------------------------------------------------------------------
Pending == {i \in DOMAIN calls : calls[i].state = "pending"}

(***************************************************************************)
(* disabled={loading}: the form never has two login calls in flight, so   *)
(* a second submit cannot race the first one's redirect or its 'Invalid   *)
(* token' notification.                                                    *)
(***************************************************************************)
OneLoginInFlight == Cardinality(Pending) <= 1

(***************************************************************************)
(* A submitted form comes back: once the login call has settled the button *)
(* is enabled again for another try, or the page has been left.            *)
(***************************************************************************)
LoginFormRecovers == (mounted /\ loading) ~> (~mounted \/ ~loading)
====
