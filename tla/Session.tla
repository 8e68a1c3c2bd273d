------------------------------- MODULE Session -------------------------------
(***************************************************************************)
(* A browser session of the UI: the login page (LoginForm) and the layout  *)
(* whose AppBar (src/ui/src/layout/AppBar.tsx, line 87) holds the Clock.   *)
(* react-admin shows one of the two: a resolved login redirects into the  *)
(* layout, which mounts a new Clock; the Logout entry of the AppBar's user *)
(* menu (line 50) unmounts the layout and shows a fresh login page.  The   *)
(* login page and the layout never act at the same time.                   *)
(***************************************************************************)
EXTENDS Integers, Sequences

CONSTANTS Tokens, ValidTokens, MaxSubmits, Period, MaxMounts

VARIABLES
    loginShown, token, loading, notified, calls,   \* LoginForm
    now, clock, instances, date, timer, running    \* Clock

loginVars == <<loginShown, token, loading, notified, calls>>
clockVars == <<now, clock, instances, date, timer, running>>
vars == <<loginVars, clockVars>>

Login == INSTANCE LoginForm WITH mounted <- loginShown
Clk == INSTANCE Clock WITH mounted <- clock

TypeOK == Login!TypeOK /\ Clk!TypeOK

\* The app opens on the login page; no layout, no Clock.
Init == Login!Init /\ Clk!Init

\* The user edits the token or submits the form.
Type == Login!Type /\ UNCHANGED clockVars
Submit == Login!Submit /\ UNCHANGED clockVars

\* The authProvider rejects login call i.
Reject(i) == Login!LoginRejects(i) /\ UNCHANGED clockVars

\* The authProvider accepts login call i: the login page is left and the
\* layout mounts the AppBar's Clock.
SignIn(i) == Login!LoginResolves(i) /\ Clk!Mount

\* Logout from the user menu: the layout with its Clock unmounts and a new
\* login page is shown.
SignOut == Clk!Unmount /\ Login!Remount

Second == Clk!Second /\ UNCHANGED loginVars
Tick(t) == Clk!Tick(t) /\ UNCHANGED loginVars

Next ==
    \/ Type
    \/ Submit
    \/ \E i \in DOMAIN calls : SignIn(i) \/ Reject(i)
    \/ SignOut
    \/ Second
    \/ \E t \in 1..MaxMounts : Tick(t)

\* The authProvider settles every login call; the user need not type,
\* submit or log out.
Fairness ==
    \A i \in 1..MaxSubmits :
        WF_vars(i \in DOMAIN calls /\ (SignIn(i) \/ Reject(i)))

Spec == Init /\ [][Next]_vars /\ Fairness

-----------------------------------------------------------------------------
\* LoginForm's disabled={loading}: never two login calls in flight, across
\* logins and logouts.
OneLoginInFlight == Login!OneLoginInFlight

\* LoginForm's catch: a submitted login page comes back or is left.
LoginFormRecovers == Login!LoginFormRecovers

\* Clock's clearInterval: across sign-ins and logouts no interval survives
\* the Clock that started it.
NoLeakedInterval == Clk!NoLeakedInterval
====
