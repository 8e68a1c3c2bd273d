-------------------------------- MODULE Clock --------------------------------
(***************************************************************************)
(* The Clock of src/ui/src/layout/Clock.tsx, shown in the AppBar: the      *)
(* constructor's state date, the interval componentDidMount starts and     *)
(* componentWillUnmount clears, and the time the environment keeps.        *)
(*                                                                         *)
(* Each mount is a new instance with its own this.timer.  An interval that *)
(* fires calls setState on its instance; React ignores it once that       *)
(* instance is unmounted.  Time is counted in seconds modulo Period; the  *)
(* rendered toLocaleTimeString() is a function of date and is left out.   *)
(* Session mounts and unmounts it with the layout.                         *)
(***************************************************************************)
EXTENDS Integers

CONSTANTS
    Period,      \* seconds counted, modulo
    MaxMounts    \* bound on mounts of the Clock

ASSUME Period \in Nat \ {0} /\ MaxMounts \in Nat \ {0}

VARIABLES
    now,         \* new Date(), in seconds modulo Period
    mounted,     \* the mounted instance, 0 if none
    instances,   \* instances mounted so far
    date,        \* this.state.date of the mounted instance
    timer,       \* this.timer of each instance (0: not set)
    running      \* the intervals the browser still fires

vars == <<now, mounted, instances, date, timer, running>>

TypeOK ==
    /\ now \in 0..Period - 1 /\ date \in 0..Period - 1
    /\ mounted \in 0..instances /\ instances \in 0..MaxMounts
    /\ timer \in [1..MaxMounts -> 0..MaxMounts]
    /\ running \subseteq 1..MaxMounts

-----------------------------------------------------------------------------
Init ==
    /\ now \in 0..Period - 1
    /\ mounted = 0
    /\ instances = 0
    /\ date = now
    /\ timer = [k \in 1..MaxMounts |-> 0]
    /\ running = {}

\* Environment: a second passes.
Second ==
    /\ now' = (now + 1) % Period
    /\ UNCHANGED <<mounted, instances, date, timer, running>>

\* The constructor sets date to new Date(), and componentDidMount stores a
\* new interval of 1000 ms in this.timer.  Interval ids are taken to be the
\* instance numbers.
Mount ==
    /\ mounted = 0
    /\ instances < MaxMounts
    /\ instances' = instances + 1
    /\ mounted' = instances + 1
    /\ date' = now
    /\ timer' = [timer EXCEPT ![instances + 1] = instances + 1]
    /\ running' = running \cup {instances + 1}
    /\ UNCHANGED now

\* Interval t fires: this.setState({ date: new Date() }) on the instance
\* that started it, ignored if that instance is unmounted.
Tick(t) ==
    /\ t \in running
    /\ date' = IF mounted # 0 /\ t = timer[mounted] THEN now ELSE date
    /\ UNCHANGED <<now, mounted, instances, timer, running>>

\* Mutant of Unmount: componentWillUnmount without clearInterval.
UnmountKeepsInterval ==
    /\ mounted # 0
    /\ mounted' = 0
    /\ UNCHANGED <<now, instances, date, timer, running>>

\* componentWillUnmount: clearInterval(this.timer).
Unmount ==
    /\ mounted # 0
    /\ mounted' = 0
    /\ running' = running \ {timer[mounted]}
    /\ UNCHANGED <<now, instances, date, timer>>

-----------------------------------------------------------------------------
(***************************************************************************)
(* No interval outlives its Clock: after any sequence of mounts and        *)
(* unmounts of the AppBar, the only interval the browser still fires is    *)
(* the this.timer of the mounted instance.                                 *)
(***************************************************************************)
NoLeakedInterval == running \subseteq {timer[k] : k \in {mounted} \ {0}}
====
