------------------------------- MODULE Reminders -------------------------------
(* Reminders and patrols of one agent, and its owner's own reminders, as rows of   *)
(* one table.  Scheduler ticks (of several server instances, or of one whose       *)
(* interval is shorter than its tick) claim what is due in one transaction and     *)
(* then deliver and reschedule the claimed rows one by one, with awaits between.    *)
(* Requests of the agent and of people come between any two statements.            *)
EXTENDS Integers, FiniteSets

CONSTANTS
  Reminder,      \* row ids
  UserOwned,     \* those among them a person created for himself
  Tick,          \* scheduler ticks that may overlap
  Rule,          \* repeat rules: [type: {"once", "every", "daily"}, n: Nat]
  Day,           \* length of a day, for daily@HH:MM
  SilenceLimits, \* values of max_consecutive_silent
  ClaimLimit,    \* LIMIT of the claim query
  MaxTime, MaxAsks, MaxFailures   \* bounds: clock, requests, failed ticks

ASSUME RemindersAssumption ==
  /\ UserOwned \subseteq Reminder
  /\ Rule \subseteq [type : {"once", "every", "daily"}, n : Nat]
  /\ \A rule \in Rule : rule.type = "every" => rule.n > 0
  /\ Day \in Nat \ {0} /\ ClaimLimit \in Nat \ {0}
  /\ \A rule \in Rule : rule.type = "daily" => rule.n < Day
  /\ SilenceLimits \subseteq Nat \ {0} /\ SilenceLimits # {}
  /\ MaxTime \in Nat /\ MaxAsks \in Nat /\ MaxFailures \in Nat

VARIABLES
  rows,        \* the table; a missing row is NoRow
  clock,       \* now()
  claimed,     \* per tick: what it claimed and has not got to yet
  asked,       \* requests between their SELECT and their UPDATE
  spoke,       \* row -> the agent posted in its channel since the row last fired
  asks, failures,                   \* used of the bounds
  unanswered,  \* history: fires in a row the agent left without a post
  touched      \* history: rows whose time or rule a person set since they fired

reminderVars == <<rows, clock, claimed, asked, spoke, asks, failures, unanswered,
                  touched>>
history == <<unanswered, touched>>

NoRow == [status |-> "none"]
Row == [status : {"scheduled", "fired", "canceled"}, kind : {"reminder", "patrol"},
        rule : Rule, fireAt : Nat, paused : BOOLEAN, silent : Nat,
        limit : SilenceLimits, last : Nat]
Exists(r) == rows[r] # NoRow

\* last = 0 stands for last_fired_at IS NULL; the clock starts at 1
RemindersInit ==
  /\ rows = [r \in Reminder |-> NoRow] /\ clock = 1
  /\ claimed = [t \in Tick |-> {}] /\ asked = {}
  /\ spoke = [r \in Reminder |-> FALSE] /\ asks = 0 /\ failures = 0
  /\ unanswered = [r \in Reminder |-> 0] /\ touched = {}

-----------------------------------------------------------------------------
(* Slots                                                                     *)

\* the next slot after from; 0 when the rule does not repeat
NextFire(rule, from) ==
  CASE rule.type = "once"  -> 0
    [] rule.type = "every" -> from + rule.n
    [] rule.type = "daily" ->
         CHOOSE s \in from + 1 .. from + Day : s % Day = rule.n

\* a plausible fault: the missed slots are fired one after the other
NextFireCatchesUp(rule, fired, t) == NextFire(rule, fired)

\* the slot after the one that fired, the missed ones skipped
NextFireNoDrift(rule, fired, t) ==
  LET first == NextFire(rule, fired)
  IN  IF first = 0 \/ first > t THEN first
      ELSE IF rule.type = "every"
           THEN fired + ((t - fired) \div rule.n + 1) * rule.n
           ELSE NextFire(rule, t)
-----------------------------------------------------------------------------
(* Scheduler.  Rows whose agent is off duty or whose machine is not connected    *)
(* to a claiming instance are left out; here a tick just does not come for them.  *)

Due(r) ==
  /\ Exists(r) /\ r \notin UserOwned     \* the query joins agents
  /\ rows[r].status = "scheduled" /\ rows[r].fireAt <= clock /\ ~rows[r].paused

\* what one transaction selects: the ClaimLimit oldest of the due rows
IsBatch(batch) ==
  LET due == {r \in Reminder : Due(r)}
  IN  /\ batch \subseteq due /\ batch # {}
      /\ Cardinality(batch) <= ClaimLimit
      /\ batch # due => Cardinality(batch) = ClaimLimit
      /\ \A r \in batch, q \in due \ batch : rows[r].fireAt <= rows[q].fireAt

\* the verdict on the round that ends with this fire
Silent(r) ==
  IF rows[r].kind = "patrol" /\ rows[r].last > 0 /\ ~spoke[r]
  THEN rows[r].silent + 1 ELSE 0

AutoPauses(r) ==
  /\ rows[r].kind = "patrol" /\ rows[r].last > 0
  /\ Silent(r) >= rows[r].limit

ClaimDue(t) ==
  /\ claimed[t] = {}
  /\ \E batch \in SUBSET Reminder :
       /\ IsBatch(batch)
       /\ rows' = [r \in Reminder |->
                     IF r \notin batch THEN rows[r]
                     ELSE [rows[r] EXCEPT !.status = "fired", !.last = clock,
                                          !.silent = Silent(r),
                                          !.paused = AutoPauses(r)]]
       /\ claimed' = [claimed EXCEPT ![t] =
                        {[row |-> r, rule |-> rows[r].rule, fireAt |-> rows[r].fireAt,
                          autoPaused |-> AutoPauses(r)] : r \in batch}]
       /\ spoke' = [r \in Reminder |-> spoke[r] /\ r \notin batch]
       /\ unanswered' = [r \in Reminder |->
                           IF r \notin batch THEN unanswered[r]
                           ELSE IF spoke[r] THEN 1 ELSE unanswered[r] + 1]
       /\ touched' = touched \ batch
  /\ UNCHANGED <<clock, asked, asks, failures>>

\* send to the daemon, then the unconditional update of the next slot
Rescheduled(c) ==
  LET next == NextFireNoDrift(c.rule, c.fireAt, clock)
  IN  IF c.autoPaused \/ next = 0 THEN rows[c.row]
      ELSE [rows[c.row] EXCEPT !.status = "scheduled", !.fireAt = next]

Deliver(t) ==
  /\ \E c \in claimed[t] :
       /\ \A d \in claimed[t] : c.fireAt <= d.fireAt
       /\ rows' = [rows EXCEPT ![c.row] = Rescheduled(c)]
       /\ claimed' = [claimed EXCEPT ![t] = @ \ {c}]
  /\ UNCHANGED <<clock, asked, spoke, asks, failures, history>>

\* the process dies or a query throws: the rest of the batch is not looked at again
TickFails(t) ==
  /\ claimed[t] # {} /\ failures < MaxFailures
  /\ failures' = failures + 1
  /\ claimed' = [claimed EXCEPT ![t] = {}]
  /\ UNCHANGED <<rows, clock, asked, spoke, asks, history>>
-----------------------------------------------------------------------------
(* Requests.  One statement is one step.                                     *)

Ask == asks < MaxAsks /\ asks' = asks + 1
OnlyRows == UNCHANGED <<clock, claimed, asked, spoke, failures>>

Create(r) ==
  /\ ~Exists(r) /\ Ask
  /\ \E kind \in {"reminder", "patrol"}, rule \in Rule, at \in {clock, clock + 1},
        limit \in SilenceLimits :
       /\ r \in UserOwned => kind = "reminder"
       /\ rows' = [rows EXCEPT ![r] =
            [status |-> "scheduled", kind |-> kind, rule |-> rule, fireAt |-> at,
             paused |-> FALSE, silent |-> 0, limit |-> limit, last |-> 0]]
  /\ touched' = touched \cup {r}
  /\ OnlyRows /\ UNCHANGED unanswered

Delete(r) ==
  /\ Exists(r) /\ Ask
  /\ rows' = [rows EXCEPT ![r].status = "canceled"]
  /\ OnlyRows /\ UNCHANGED history

Pause(r) ==
  /\ Exists(r) /\ r \notin UserOwned /\ Ask
  /\ rows' = [rows EXCEPT ![r].paused = TRUE]
  /\ OnlyRows /\ UNCHANGED history

\* the agent's snooze reads fire_at first; resume reads status and rule
AskSnooze(r) ==
  /\ Exists(r) /\ r \notin UserOwned /\ Ask
  /\ LET from == IF clock > rows[r].fireAt THEN clock ELSE rows[r].fireAt
     IN  asked' = asked \cup {[op |-> "snooze", row |-> r, fireAt |-> from + 1]}
  /\ UNCHANGED <<rows, clock, claimed, spoke, failures, history>>

AskResume(r) ==
  /\ Exists(r) /\ r \notin UserOwned /\ rows[r].status # "canceled" /\ Ask
  /\ LET next == NextFire(rows[r].rule, clock)
     IN  asked' = asked \cup {[op |-> "resume", row |-> r,
                               fireAt |-> IF next = 0 THEN clock ELSE next]}
  /\ UNCHANGED <<rows, clock, claimed, spoke, failures, history>>

Snooze ==
  \E a \in asked :
    /\ a.op = "snooze" /\ asked' = asked \ {a}
    /\ rows' = [rows EXCEPT ![a.row].status = "scheduled", ![a.row].fireAt = a.fireAt]
    /\ touched' = touched \cup {a.row}
    /\ UNCHANGED <<clock, claimed, spoke, asks, failures, unanswered>>

Resume ==
  \E a \in asked :
    /\ a.op = "resume" /\ asked' = asked \ {a}
    /\ rows' = [rows EXCEPT ![a.row].status = "scheduled", ![a.row].fireAt = a.fireAt,
                            ![a.row].paused = FALSE, ![a.row].silent = 0]
    /\ touched' = touched \cup {a.row}
    /\ unanswered' = [unanswered EXCEPT ![a.row] = 0]
    /\ UNCHANGED <<clock, claimed, spoke, asks, failures>>

\* both patch routes; neither looks at the status
Patch(r) ==
  /\ Exists(r) /\ Ask
  /\ \/ \E at \in {clock, clock + 1} : rows' = [rows EXCEPT ![r].fireAt = at]
     \/ \E rule \in Rule : rows' = [rows EXCEPT ![r].rule = rule]
     \/ /\ r \notin UserOwned
        /\ \E limit \in SilenceLimits : rows' = [rows EXCEPT ![r].limit = limit]
  /\ touched' = touched \cup {r}
  /\ OnlyRows /\ UNCHANGED unanswered

\* the user's snooze is one statement and leaves the status alone
UserSnooze(r) ==
  /\ r \in UserOwned /\ Exists(r) /\ Ask
  /\ rows' = [rows EXCEPT ![r].fireAt = clock + 1]
  /\ touched' = touched \cup {r}
  /\ OnlyRows /\ UNCHANGED unanswered
-----------------------------------------------------------------------------
(* Surroundings                                                              *)

Elapse ==
  /\ clock < MaxTime /\ clock' = clock + 1
  /\ UNCHANGED <<rows, claimed, asked, spoke, asks, failures, history>>

AgentPosts(r) ==
  /\ r \notin UserOwned /\ Exists(r) /\ rows[r].last > 0 /\ ~spoke[r]
  /\ spoke' = [spoke EXCEPT ![r] = TRUE]
  /\ UNCHANGED <<rows, clock, claimed, asked, asks, failures, history>>

RemindersNext ==
  \/ \E t \in Tick : ClaimDue(t) \/ Deliver(t) \/ TickFails(t)
  \/ \E r \in Reminder : \/ Create(r) \/ Delete(r) \/ Pause(r) \/ AskSnooze(r)
                         \/ AskResume(r) \/ Patch(r) \/ UserSnooze(r) \/ AgentPosts(r)
  \/ Snooze \/ Resume \/ Elapse

RemindersSpec == RemindersInit /\ [][RemindersNext]_reminderVars
-----------------------------------------------------------------------------
(* Properties                                                                *)

FiresNow(r) == \E t \in Tick : \E c \in claimed'[t] \ claimed[t] : c.row = r

ClaimRecord == [row : Reminder, rule : Rule, fireAt : Nat, autoPaused : BOOLEAN]

\* Types of the table, the claims and the requests in flight.
RemindersTypeOK ==
  /\ rows \in [Reminder -> Row \cup {NoRow}] /\ clock \in Nat
  /\ claimed \in [Tick -> SUBSET ClaimRecord]
  /\ asked \subseteq [op : {"snooze", "resume"}, row : Reminder, fireAt : Nat]
  /\ spoke \in [Reminder -> BOOLEAN] /\ asks \in Nat /\ failures \in Nat
  /\ unanswered \in [Reminder -> Nat] /\ touched \subseteq Reminder

\* A patrol that brings nothing is cut off: whatever ticks, snoozes, pauses and
\* patches do, it fires at most one time more than its limit before somebody
\* resumes it (the first fire is not judged, there is no round before it).
IdlePatrolIsCut ==
  \A r \in Reminder : Exists(r) /\ rows[r].kind = "patrol" =>
    \E limit \in SilenceLimits : unanswered[r] <= limit + 1

\* A repeating reminder whose turn has come is not forgotten: if it stands at
\* "fired" without being paused, a tick still holds it and will put it on its next
\* slot, unless a tick failed or somebody changed the row meanwhile.
RecurringIsNotStranded ==
  failures = 0 =>
    \A r \in Reminder \ touched :
      Exists(r) /\ rows[r].status = "fired" /\ rows[r].rule.type # "once"
                /\ ~rows[r].paused
        => \E t \in Tick : \E c \in claimed[t] : c.row = r

\* After an outage the missed slots are skipped: a reminder nobody touched since
\* its last fire never fires for a slot that had already passed at that fire, and
\* never twice for one slot.
SkipsMissedSlots ==
  \A r \in Reminder \ touched :
    Exists(r) /\ rows[r].last > 0 /\ FiresNow(r) => rows[r].fireAt > rows[r].last

\* What becomes of a reminder over its fires: every step leaves a patrol within its limit
\* and a recurring one on its way, and none fires for a slot it has missed.
RemindersGoTheirWay ==
  [][IdlePatrolIsCut' /\ RecurringIsNotStranded' /\ SkipsMissedSlots]_reminderVars

\* Deleting is final: only a request may bring a deleted reminder back, and even
\* resume refuses to ("canceled reminder cannot resume"); the scheduler does not.
CanceledStaysCanceled ==
  [][\A r \in Reminder :
       Exists(r) /\ rows[r].status = "canceled" /\ asked' = asked
         => rows'[r].status = "canceled"]_reminderVars
=============================================================================
