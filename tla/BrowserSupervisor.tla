--------------------------- MODULE BrowserSupervisor ---------------------------
(***************************************************************************)
(* The supervisor of the kiosk browser (agent/browser.go): one goroutine   *)
(* launches Chromium, watches it through a Wait goroutine per process,     *)
(* relaunches it with exponential back-off, and serves operator relaunches *)
(* and Stop over channels.                                                 *)
(*                                                                         *)
(* A select with several ready cases takes any of them.  Generations are   *)
(* counted modulo three, failures up to MaxFailures (where the delay has   *)
(* reached its maximum and the cap is passed); one unit of wait is the     *)
(* minimal back-off.                                                       *)
(***************************************************************************)
EXTENDS Integers, FiniteSets

CONSTANTS
  Caller,       \* goroutines that may ask for a relaunch
  FailCap,      \* failCap: failures at which the state flips to crashed
  BackoffMax,   \* backoffMax, in units of backoffMin
  MaxFailures   \* bound of the failure counter

ASSUME SupervisorAssumption ==
  /\ FailCap \in Nat \ {0} /\ BackoffMax \in Nat \ {0}
  /\ MaxFailures \in Nat /\ FailCap <= MaxFailures

Gen == 0 .. 2

VARIABLES
  sup,        \* where supervise() is: "launch", "await" (awaitTransition),
              \*   "reaping" (its inner loop), "backoff", "stopped", "done"
  gen,        \* the generation it launched last
  proc,       \* proc[g]: "none", "up", "killed" (told to exit), "exited"
              \*   (its Wait goroutine offers the exit event)
  failures,   \* consecutive failures
  wait,       \* time left on the back-off timer
  longRun,    \* has the current process been up for healthyFor?
  shown,      \* status.State and status.Healthy, as health reports them
  stopAsked,  \* is stopCh closed?
  asking      \* callers blocked in Relaunch

browserVars ==
  <<sup, gen, proc, failures, wait, longRun, shown, stopAsked, asking>>

Running(g) == proc[g] \in {"up", "killed"}

BrowserTypeOK ==
  /\ sup \in {"launch", "await", "reaping", "backoff", "stopped", "done"}
  /\ gen \in Gen
  /\ proc \in [Gen -> {"none", "up", "killed", "exited"}]
  /\ failures \in 0 .. MaxFailures /\ wait \in 0 .. BackoffMax
  /\ longRun \in BOOLEAN /\ stopAsked \in BOOLEAN
  /\ shown \in [state : {"starting", "running", "crashed", "stopped"},
                healthy : BOOLEAN]
  /\ asking \subseteq Caller

BrowserInit ==
  /\ sup = "launch" /\ gen = 0
  /\ proc = [g \in Gen |-> "none"]
  /\ failures = 0 /\ wait = 0 /\ longRun = FALSE
  /\ shown = [state |-> "starting", healthy |-> FALSE]
  /\ stopAsked = FALSE /\ asking = {}

Counted(n) == IF n < MaxFailures THEN n + 1 ELSE MaxFailures

\* Mutant of BackoffFor: the delay is not capped.
BackoffUncapped(n) == IF n <= 1 THEN 1 ELSE 2 ^ (n - 1)

\* backoffFor: doubles from the minimum, capped.
BackoffFor(n) == IF n <= 1 THEN 1
                 ELSE IF 2 ^ (n - 1) \in 1 .. BackoffMax THEN 2 ^ (n - 1)
                 ELSE BackoffMax

Show(state) == shown' = [state |-> state, healthy |-> state = "running"]

Sleep(n) == sup' = "backoff" /\ failures' = n /\ wait' = BackoffFor(n)

-----------------------------------------------------------------------------
LaunchFails ==
  /\ sup = "launch"
  /\ Sleep(Counted(failures))
  /\ Show("crashed")
  /\ UNCHANGED <<gen, proc, longRun, stopAsked, asking>>

ShownAfterLaunch == IF failures >= FailCap THEN Show("crashed")
                                           ELSE Show("running")

LaunchSucceeds ==
  /\ sup = "launch"
  /\ gen' = (gen + 1) % 3
  /\ proc' = [proc EXCEPT ![gen'] = "up"]
  /\ ShownAfterLaunch
  /\ sup' = "await" /\ longRun' = FALSE
  /\ UNCHANGED <<failures, wait, stopAsked, asking>>

\* awaitTransition receives an exit event: a late one of a replaced generation
\* is dropped, the current one is a crash and backs off.
ExitEvent(g) ==
  /\ sup = "await" /\ proc[g] = "exited"
  /\ proc' = [proc EXCEPT ![g] = "none"]
  /\ LET n == IF longRun THEN 1 ELSE Counted(failures) IN
     IF g # gen
       THEN UNCHANGED <<sup, failures, wait, shown>>
       ELSE /\ Sleep(n)
            /\ shown' = [state |-> IF n >= FailCap THEN "crashed"
                                                   ELSE "starting",
                         healthy |-> FALSE]
  /\ UNCHANGED <<gen, longRun, stopAsked, asking>>

Kill == proc' = [proc EXCEPT ![gen] = IF @ = "up" THEN "killed" ELSE @]

\* Mutant of RelaunchAccepted: the next launch does not wait for the exit.
RelaunchAtOnce(c) ==
  /\ sup = "await" /\ c \in asking
  /\ Kill
  /\ asking' = asking \ {c}
  /\ sup' = "launch" /\ failures' = 0
  /\ UNCHANGED <<gen, wait, longRun, shown, stopAsked>>

RelaunchAccepted(c) ==
  /\ sup = "await" /\ c \in asking
  /\ Kill
  /\ asking' = asking \ {c}
  /\ sup' = "reaping"
  /\ UNCHANGED <<gen, failures, wait, longRun, shown, stopAsked>>

\* The inner loop of awaitTransition: launch again once the child was reaped.
Reaped ==
  /\ sup = "reaping"
  /\ \E g \in Gen :
       /\ proc[g] = "exited"
       /\ proc' = [proc EXCEPT ![g] = "none"]
       /\ IF g = gen THEN sup' = "launch" /\ failures' = 0
                     ELSE UNCHANGED <<sup, failures>>
  /\ UNCHANGED <<gen, wait, longRun, shown, stopAsked, asking>>

DuplicateRelaunch(c) ==
  /\ sup = "reaping" /\ c \in asking
  /\ asking' = asking \ {c}
  /\ UNCHANGED <<sup, gen, proc, failures, wait, longRun, shown, stopAsked>>

\* sleepBackoff: the timer, or an operator who cuts it short.
BackoffTimer ==
  /\ sup = "backoff" /\ wait = 0
  /\ sup' = "launch"
  /\ UNCHANGED <<gen, proc, failures, wait, longRun, shown, stopAsked, asking>>

BackoffRelaunch(c) ==
  /\ sup = "backoff" /\ c \in asking
  /\ asking' = asking \ {c}
  /\ sup' = "launch"
  /\ UNCHANGED <<gen, proc, failures, wait, longRun, shown, stopAsked>>

\* Mutant of SeesStop: an idle supervisor leaves the browser to itself.
SeesStopNoKill ==
  /\ stopAsked /\ sup \in {"await", "reaping", "backoff"}
  /\ sup' = "stopped"
  /\ UNCHANGED <<proc, shown>>
  /\ UNCHANGED <<gen, failures, wait, longRun, stopAsked, asking>>

SeesStop ==
  /\ stopAsked /\ sup \in {"await", "reaping", "backoff"}
  /\ sup' = "stopped"
  /\ IF sup = "await" THEN Kill /\ Show("stopped") ELSE UNCHANGED <<proc, shown>>
  /\ UNCHANGED <<gen, failures, wait, longRun, stopAsked, asking>>

\* The deferred procWG.Wait(), after which Stop returns.
SupervisorDone ==
  /\ sup = "stopped" /\ \A g \in Gen : proc[g] = "none"
  /\ sup' = "done"
  /\ UNCHANGED <<gen, proc, failures, wait, longRun, shown, stopAsked, asking>>

-----------------------------------------------------------------------------
(* Callers, processes and time. *)

AskRelaunch(c) ==
  /\ asking' = asking \cup {c} /\ c \notin asking
  /\ UNCHANGED <<sup, gen, proc, failures, wait, longRun, shown, stopAsked>>

\* Mutant of RelaunchGivesUp: Relaunch does not select on stopCh.
RelaunchNoStop(c) == FALSE /\ UNCHANGED browserVars /\ c \in asking

RelaunchGivesUp(c) ==
  /\ stopAsked /\ c \in asking
  /\ asking' = asking \ {c}
  /\ UNCHANGED <<sup, gen, proc, failures, wait, longRun, shown, stopAsked>>

Stop ==
  /\ ~stopAsked /\ stopAsked' = TRUE
  /\ UNCHANGED <<sup, gen, proc, failures, wait, longRun, shown, asking>>

\* Chromium dies, by itself or because it was killed, and Wait returns.
ProcessExits(g) ==
  /\ Running(g)
  /\ proc' = [proc EXCEPT ![g] = "exited"]
  /\ UNCHANGED <<sup, gen, failures, wait, longRun, shown, stopAsked, asking>>

\* The Wait goroutine selects stopCh instead of handing its event over.
WatcherLeaves(g) ==
  /\ stopAsked /\ proc[g] = "exited"
  /\ proc' = [proc EXCEPT ![g] = "none"]
  /\ UNCHANGED <<sup, gen, failures, wait, longRun, shown, stopAsked, asking>>

TimePasses ==
  /\ \/ sup = "backoff" /\ wait > 0 /\ wait' = wait - 1 /\ UNCHANGED longRun
     \/ sup = "await" /\ proc[gen] = "up" /\ longRun' = TRUE /\ UNCHANGED wait
  /\ UNCHANGED <<sup, gen, proc, failures, shown, stopAsked, asking>>

Answer(c) ==
  \/ RelaunchAccepted(c) \/ DuplicateRelaunch(c) \/ BackoffRelaunch(c)
  \/ RelaunchGivesUp(c)

Supervise ==
  \/ LaunchFails \/ LaunchSucceeds \/ Reaped \/ SupervisorDone
  \/ \E g \in Gen : ExitEvent(g)
  \/ BackoffTimer \/ SeesStop

BrowserNext ==
  \/ Supervise
  \/ \E c \in Caller : AskRelaunch(c) \/ Answer(c)
  \/ Stop
  \/ \E g \in Gen : ProcessExits(g) \/ WatcherLeaves(g)
  \/ TimePasses

BrowserSpec == BrowserInit /\ [][BrowserNext]_browserVars

\* What happens by itself while nobody asks for anything more.
KilledDies == \E g \in Gen : proc[g] = "killed" /\ ProcessExits(g)
BackoffRuns == wait > 0 /\ TimePasses
WatchersLeave == \E g \in Gen : WatcherLeaves(g)

-----------------------------------------------------------------------------
(* Properties. *)

\* Two Chromium processes never run at once on the shared user-data-dir, whatever
\* crashes, relaunches and duplicates arrive (browser.go:276-279: "starting early
\* can otherwise produce a profile lock error").
OneBrowser == Cardinality({g \in Gen : Running(g)}) <= 1

\* Stop returns, from whatever state it finds the supervisor in, and leaves no
\* Chromium behind (supervise: "every killed Chromium has completed Wait()
\* before shutdown returns").
StopReaps == <>[](stopAsked => sup = "done" /\ \A g \in Gen : proc[g] = "none")

\* Relaunch never blocks its callers for good, not even across a Stop: once no
\* more of them come, all have returned.
RelaunchReturns ==
  <>[][\A c \in Caller : ~AskRelaunch(c)]_browserVars => <>[](asking = {})
=============================================================================
