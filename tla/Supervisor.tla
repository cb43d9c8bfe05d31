------------------------------ MODULE Supervisor ------------------------------
(* The development supervisor of the daemon: it restarts the daemon when it dies   *)
(* and when a source file changes, and ends it when it is itself told to end.  An    *)
(* action is a callback of the one process; the daemons it starts are external and    *)
(* take their time to die.                                                             *)
EXTENDS Integers, FiniteSets

CONSTANTS MaxCrashes, MaxChanges   \* bounds: daemons that die unasked, file changes

ASSUME SupervisorAssumption == MaxCrashes \in Nat /\ MaxChanges \in Nat

Daemon == 1 .. 1 + 2 * (MaxCrashes + MaxChanges)   \* more than are ever started

VARIABLES
  daemon,       \* the process trees
  heard,        \* those whose exit event was delivered
  started,      \* how many were started
  child,        \* the variable of that name; 0 for null
  expectRestart, restartTimer, shuttingDown,
  waits,        \* daemon -> restarts that wait in killTree for its end
  ended,        \* process.exit was called
  crashes, changes

supervisorVars == <<daemon, heard, started, child, expectRestart, restartTimer,
                    shuttingDown, waits, ended, crashes, changes>>

SupervisorInit ==
  /\ daemon = [d \in Daemon |-> IF d = 1 THEN "up" ELSE "none"] /\ heard = {}
  /\ started = 1 /\ child = 1
  /\ expectRestart = FALSE /\ restartTimer = FALSE /\ shuttingDown = FALSE
  /\ waits = [d \in Daemon |-> 0] /\ ended = FALSE /\ crashes = 0 /\ changes = 0

\* startChild; there is always room for the next one
StartDaemon ==
  /\ started + 1 \in Daemon
  /\ started' = started + 1 /\ child' = started + 1
  /\ daemon' = [daemon EXCEPT ![started + 1] = "up"]

NothingStarts == UNCHANGED <<started, child, daemon>>

\* killTree: the daemon is asked to end; what waits for it goes on when it did, or
\* after five seconds
Kill(d) == daemon' = [daemon EXCEPT ![d] = IF @ = "up" THEN "ending" ELSE @]
-----------------------------------------------------------------------------
\* a plausible fault: the restart is marked as planned before it is known to be one
FileChangesMarksAlways ==
  /\ ~ended /\ changes < MaxChanges /\ changes' = changes + 1 /\ expectRestart' = TRUE
  /\ IF child = 0
     THEN StartDaemon /\ restartTimer' = FALSE /\ UNCHANGED waits
     ELSE /\ Kill(child) /\ waits' = [waits EXCEPT ![child] = @ + 1]
          /\ UNCHANGED <<started, child, restartTimer>>
  /\ UNCHANGED <<heard, shuttingDown, ended, crashes>>

\* restartForChange, after its debounce
FileChanges ==
  /\ ~ended /\ changes < MaxChanges /\ changes' = changes + 1
  /\ IF child = 0
     THEN /\ StartDaemon /\ restartTimer' = FALSE
          /\ UNCHANGED <<expectRestart, waits>>
     ELSE /\ Kill(child) /\ expectRestart' = TRUE
          /\ waits' = [waits EXCEPT ![child] = @ + 1]
          /\ UNCHANGED <<started, child, restartTimer>>
  /\ UNCHANGED <<heard, shuttingDown, ended, crashes>>

DaemonDies(d) ==
  /\ daemon[d] \in {"up", "ending"}
  /\ IF daemon[d] = "up" THEN crashes < MaxCrashes /\ crashes' = crashes + 1
                         ELSE UNCHANGED crashes
  /\ daemon' = [daemon EXCEPT ![d] = "gone"]
  /\ UNCHANGED <<heard, started, child, expectRestart, restartTimer, shuttingDown, waits,
                 ended, changes>>

\* the exit listener of startChild, whichever child it was
DaemonExits(d) ==
  /\ ~ended /\ daemon[d] = "gone" /\ d \notin heard /\ heard' = heard \cup {d}
  /\ child' = 0
  /\ IF shuttingDown THEN UNCHANGED <<expectRestart, restartTimer>>
     ELSE IF expectRestart THEN expectRestart' = FALSE /\ UNCHANGED restartTimer
     ELSE restartTimer' = TRUE /\ UNCHANGED expectRestart
  /\ UNCHANGED <<daemon, started, shuttingDown, waits, ended, crashes, changes>>

\* killTree is over: the exit was heard, or the five seconds are
Killed(d) ==
  /\ ~ended /\ waits[d] > 0
  /\ waits' = [waits EXCEPT ![d] = @ - 1] /\ expectRestart' = FALSE
  /\ IF shuttingDown THEN NothingStarts ELSE StartDaemon
  /\ UNCHANGED <<heard, restartTimer, shuttingDown, ended, crashes, changes>>

RestartTimerFires ==
  /\ ~ended /\ restartTimer /\ restartTimer' = FALSE
  /\ IF shuttingDown THEN NothingStarts ELSE StartDaemon
  /\ UNCHANGED <<heard, expectRestart, shuttingDown, waits, ended, crashes, changes>>

Shutdown ==
  /\ ~ended /\ ~shuttingDown /\ shuttingDown' = TRUE /\ restartTimer' = FALSE
  /\ IF child = 0 THEN ended' = TRUE /\ UNCHANGED daemon
                  ELSE Kill(child) /\ UNCHANGED ended
  /\ UNCHANGED <<heard, started, child, expectRestart, waits, crashes, changes>>

\* after the tree it killed is gone, or after six seconds
SupervisorEnds ==
  /\ ~ended /\ shuttingDown /\ ended' = TRUE
  /\ UNCHANGED <<daemon, heard, started, child, expectRestart, restartTimer, shuttingDown,
                 waits, crashes, changes>>

SupervisorNext ==
  \/ FileChanges \/ RestartTimerFires \/ Shutdown \/ SupervisorEnds
  \/ \E d \in Daemon : DaemonDies(d) \/ DaemonExits(d) \/ Killed(d)

SupervisorSpec == SupervisorInit /\ [][SupervisorNext]_supervisorVars
-----------------------------------------------------------------------------
(* Properties                                                                 *)

\* Types of the daemons and of the supervisor's variables.
SupervisorTypeOK ==
  /\ daemon \in [Daemon -> {"none", "up", "ending", "gone"}] /\ heard \subseteq Daemon
  /\ started \in Nat /\ child \in Daemon \cup {0}
  /\ expectRestart \in BOOLEAN /\ restartTimer \in BOOLEAN /\ shuttingDown \in BOOLEAN
  /\ waits \in [Daemon -> Nat] /\ ended \in BOOLEAN
  /\ crashes \in 0 .. MaxCrashes /\ changes \in 0 .. MaxChanges

\* The project is never left without a daemon: while the supervisor is not told to
\* end, one runs, or an exit is still to be heard, or a restart is on its way - also
\* when crashes, file changes and slow deaths come in any order.
DaemonComesBack ==
  shuttingDown \/ ended \/ restartTimer
    \/ \E d \in Daemon : \/ daemon[d] \in {"up", "ending"} \/ waits[d] > 0
                         \/ daemon[d] = "gone" /\ d \notin heard

\* A restart never starts two daemons ("ensures there is no double start", the comment
\* of killTree): there is at most one that nobody has asked to end.
OneDaemon == Cardinality({d \in Daemon : daemon[d] = "up"}) <= 1
=============================================================================
