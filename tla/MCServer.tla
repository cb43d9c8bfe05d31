-------------------------------- MODULE MCServer --------------------------------
(* One run for the parts of the server and of its web client: reminders, the task     *)
(* board, membership, the daemons' connections, the agents they answer for, attachments,  *)
(* the drafts a client sends and the feed it shows.  They share no variable.  The part      *)
(* that a behaviour is about is chosen at its start and the others rest, so the state space  *)
(* is the sum of theirs.                                                                      *)
EXTENDS Reminders, TaskBoard, DaemonHub, Roster, Attachments, Outbox, MessageFeed,
        Membership, TLC

\* a one-shot rule, one that fires each instant, and a daily one
Rules == {[type |-> "once", n |-> 0], [type |-> "every", n |-> 1], [type |-> "daily", n |-> 0]}

CONSTANT RosterTogether   \* bound: requests and outages of one behaviour together

\* nothing tells the targets of the feed apart
Symmetry == Permutations(Target)

VARIABLE part

serverParts ==
  <<part, reminderVars, boardVars, hub, rosterVars, filesVars, outboxVars, feedVars,
    orgVars>>

ServerInit ==
  /\ part \in {"reminders", "tasks", "daemons", "roster", "files", "drafts", "feed",
              "orgs"}
  /\ RemindersInit /\ TaskBoardInit /\ HubInit /\ RosterInit
  /\ FilesInit /\ OutboxInit /\ FeedInit /\ MembershipInit
  \* what the files hold is chosen only where they are looked at
  /\ part # "files" => content = CHOOSE held \in [File -> Content] : TRUE

ServerNext ==
  /\ UNCHANGED part
  /\ part # "reminders" => UNCHANGED reminderVars
  /\ part # "tasks" => UNCHANGED boardVars
  /\ part # "daemons" => UNCHANGED hub
  /\ part # "roster" => UNCHANGED rosterVars
  /\ part # "files" => UNCHANGED filesVars
  /\ part # "drafts" => UNCHANGED outboxVars
  /\ part # "feed" => UNCHANGED feedVars
  /\ part # "orgs" => UNCHANGED orgVars
  /\ \/ part = "reminders" /\ RemindersNext
     \/ part = "tasks" /\ TaskBoardNext
     \/ part = "daemons" /\ HubNext
     \/ part = "roster" /\ RosterNext /\ requested' + outages' <= RosterTogether
     \/ part = "files" /\ FilesNext
     \/ part = "drafts" /\ OutboxNext
     \/ part = "feed" /\ FeedNext
     \/ part = "orgs" /\ MembershipNext

ServerSpec == ServerInit /\ [][ServerNext]_serverParts
-----------------------------------------------------------------------------
(* Properties                                                                 *)

\* Every variable has its type.
ServerTypeOK ==
  /\ RemindersTypeOK /\ TaskBoardTypeOK /\ HubTypeOK
  /\ RosterTypeOK /\ FilesTypeOK /\ OutboxTypeOK /\ FeedTypeOK
  /\ MembershipTypeOK
=============================================================================
