------------------------------ MODULE KioskScreen ------------------------------
(***************************************************************************)
(* What the agent's Player promises, without saying how: the screen shows  *)
(* one target at a time, switches to a target it was told to show in one   *)
(* step and only when every file of it is there, and keeps those files     *)
(* while it shows it.  How files are fetched, kept and thrown away is left *)
(* open.  KioskPlayer implements this.                                     *)
(***************************************************************************)

CONSTANTS
  Target,    \* what a device may be told to show
  Nothing,   \* the empty target
  Needs,     \* Needs[t]: the files t refers to
  Syncer     \* who asks the server and switches the screen

VARIABLES
  wanted,    \* what the server would answer
  answer,    \* answer[y]: the set of the one answer y holds, or empty
  shown,     \* the target on screen
  have       \* the files that are there

screenVars == <<wanted, answer, shown, have>>

Unasked == [y \in Syncer |-> {}]

ScreenInit ==
  /\ wanted \in Target
  /\ answer = Unasked
  /\ shown = Nothing /\ have = {}

Want(t) ==
  /\ wanted' = t
  /\ UNCHANGED <<answer, shown, have>>

Ask(y) ==
  /\ answer[y] = {}
  /\ answer' = [answer EXCEPT ![y] = {wanted}]
  /\ UNCHANGED <<wanted, shown, have>>

\* The answer is not shown: it was shown already, or a file could not be had.
GiveUp(y) ==
  /\ answer' = [answer EXCEPT ![y] = {}]
  /\ UNCHANGED <<wanted, shown, have>>

Switch(y) ==
  /\ shown' \in answer[y] /\ Needs[shown'] \subseteq have
  /\ answer' = [answer EXCEPT ![y] = {}]
  /\ UNCHANGED <<wanted, have>>

\* Downloads, garbage collection and evictions.
KeepHouse ==
  /\ Needs[shown] \subseteq have'
  /\ UNCHANGED <<wanted, answer, shown>>

StartOver ==
  /\ answer' = Unasked /\ shown' = Nothing
  /\ UNCHANGED <<wanted, have>>

ScreenNext ==
  \/ \E t \in Target : Want(t)
  \/ \E y \in Syncer : Ask(y) \/ GiveUp(y) \/ Switch(y)
  \/ KeepHouse \/ StartOver

ScreenSpec == ScreenInit /\ [][ScreenNext]_screenVars
=============================================================================
