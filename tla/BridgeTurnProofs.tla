-------------------------- MODULE BridgeTurnProofs --------------------------
(***************************************************************************)
(* Proofs about BridgeTurn for every value of its constants: no turn runs  *)
(* twice, no result is lost or mixed up, no token is spent twice, whatever *)
(* process dies when.                                                      *)
(*                                                                         *)
(* In order: the inductive invariant; frames on their way through one      *)
(* worker; the invariant under a step of a worker, under a step of the     *)
(* daemon; the theorems.                                                   *)
(***************************************************************************)
EXTENDS BridgeTurn, FiniteSetTheorems, TLAPS

(* What a worker holds of turns: start frames it has not read or holds     *)
(* back, a job that has not answered, answers nobody has read.             *)
Starting(w) == {k \in DOMAIN w.inbox : w.inbox[k].type = "start"}
Active(w) == w.job.stage \in {"run", "issue", "record", "emit"}
Starts(w) == {w.inbox[k] : k \in Starting(w)} \cup Members(w.backlog)
Turns(w) == {f.turn : f \in Starts(w) \cup Members(w.outbox)}
              \cup (IF Active(w) THEN {w.job.turn} ELSE {})

(* A worker holds one turn at a time, in one place.                        *)
OneTurn(w) ==
  /\ \A j, k \in Starting(w) : j = k
  /\ Len(w.backlog) <= 1 /\ Len(w.outbox) <= 1
  /\ Starting(w) # {} => w.backlog = <<>> /\ ~Active(w) /\ w.outbox = <<>>
  /\ w.backlog # <<>> => ~Active(w) /\ w.outbox = <<>>
  /\ Active(w) => w.outbox = <<>>

(* The messages that may still be sent again.                              *)
Open == Members(pending) \cup Members(flight.items)

-----------------------------------------------------------------------------
(* The inductive invariant. *)

(* The logs of the messages are of one length, so are those of the runs;   *)
(* a turn belongs to one message, and the next turn to none so far.        *)
LogsAgree ==
  /\ Len(turnOf) = Len(fate) /\ Len(attempts) = Len(fate) /\ Len(answer) = Len(fate)
  /\ Len(tokens) = Len(runs)
TurnsAreNew ==
  /\ \A m, n \in DOMAIN turnOf : turnOf[m] = turnOf[n] => m = n
  /\ \A m \in DOMAIN turnOf :
       /\ turnOf[m][1] <= boot
       /\ turnOf[m][1] = boot => turnOf[m][2] <= Cardinality({n \in DOMAIN turnOf : turnOf[n][1] = boot})

(* What waits or is out has an attempt left; the turn that is out is that  *)
(* of its first message and runs on the session, unless it was stopped.    *)
OpenMayBeSent ==
  /\ Members(pending) \subseteq DOMAIN fate /\ Members(flight.items) \subseteq DOMAIN fate
  /\ Members(pending) \cap Members(flight.items) = {}
  /\ \A m \in Open : attempts[m] < MaxRetries
FlightIsOurs ==
  Out => /\ flight.items # <<>> /\ flight.turn = turnOf[Head(flight.items)]
         /\ flight.gen \in Gens /\ flight.token = store
         /\ session = IF flight.voided THEN 0 ELSE flight.gen

(* A worker holds one turn; the session's none between two turns, and only *)
(* the one that is out otherwise.  No two workers hold the same turn, and  *)
(* none holds a turn that may be sent again, but for the one that is out.  *)
WorkersHoldOne == \A g \in Gens : OneTurn(worker[g])
SessionIsFree == ~Out /\ session # 0 => Turns(worker[session]) = {}
FlightIsHeld ==
  Out => Turns(worker[flight.gen]) \subseteq {flight.turn}
TurnsApart == \A g, h \in Gens : g # h => Turns(worker[g]) \cap Turns(worker[h]) = {}
RetriesAreFree ==
  \A m \in Open, g \in Gens : turnOf[m] \in Turns(worker[g]) => Out /\ g = flight.gen

(* A turn a worker holds is that of a message.  A start frame carries the  *)
(* message its turn is named for, and so does the run it starts.           *)
TurnsAreKnown == \A g \in Gens : Turns(worker[g]) \subseteq Members(turnOf)
StartsAreWhole ==
  \A g \in Gens : \A f \in Starts(worker[g]) :
    \E m \in Members(f.msgs) : m \in DOMAIN turnOf /\ turnOf[m] = f.turn
RunsAreWhole ==
  \A r \in DOMAIN runs : \E m \in runs[r].msgs : m \in DOMAIN turnOf /\ turnOf[m] = runs[r].turn
AnswersAreRuns == \A m \in DOMAIN answer : answer[m] # 0 => answer[m] \in DOMAIN runs

(* What a worker works on and says agrees with the files.  The run of its  *)
(* job is its turn's; nothing is in the journal before it is recorded, its *)
(* own result afterwards.  A turn that waits in the backlog is not in the  *)
(* journal.  An answer on the wire that names a run is journaled, one that *)
(* asks for input names a run.                                             *)
JobIsKnown(w) ==
  Active(w) =>
    /\ w.job.run \in DOMAIN runs /\ runs[w.job.run].turn = w.job.turn /\ w.job.turn \in Turn
    /\ w.job.stage \in {"run", "issue"} => tokens[w.job.run] = "none"
    /\ w.job.stage = "issue" => w.job.status = "interrupted"
    /\ w.job.stage = "record" /\ w.job.status = "interrupted" => tokens[w.job.run] = "fresh"
    /\ w.job.stage \in {"record", "emit"} => w.job.status # "none"
    /\ IF w.job.stage = "emit"
         THEN journal[w.job.turn] = [status |-> w.job.status, run |-> w.job.run]
         ELSE journal[w.job.turn] = NoEntry
Sound(w) ==
  /\ JobIsKnown(w)
  /\ \A f \in Members(w.backlog) : journal[f.turn] = NoEntry
  /\ \A f \in Members(w.outbox) :
       /\ f.run # 0 => journal[f.turn] = [status |-> f.status, run |-> f.run]
       /\ f.status = "interrupted" => f.run # 0
WorkersAreSound == \A g \in Gens : Sound(worker[g])

(* A journaled result is that of a run of its turn.                        *)
JournalIsTrue ==
  \A t \in Turn : journal[t] # NoEntry =>
    journal[t].run \in DOMAIN runs /\ runs[journal[t].run].turn = t

(* A token a run was given is used, and no other run was given it.  A      *)
(* token the daemon has been told of, that it keeps or has sent, belongs to*)
(* a turn that ended and will not be sent again; a turn that asked and may *)
(* be sent again has a token nobody was told of, and a stored one is on its*)
(* way nowhere.                                                            *)
GivenAreUsed ==
  \A r \in DOMAIN runs : runs[r].token # 0 =>
    /\ runs[r].token \in DOMAIN tokens /\ tokens[runs[r].token] = "used"
    /\ \A q \in DOMAIN runs : runs[q].token = runs[r].token => q = r
TokensSent == {f.token : f \in UNION {Starts(worker[g]) : g \in Gens}}
ToldAreOver ==
  \A k \in (TokensSent \cup {store}) \ {0} :
    /\ k \in DOMAIN runs
    /\ journal[runs[k].turn].run = k
    /\ \A m \in Open : turnOf[m] # runs[k].turn
UntoldAreFresh ==
  \A m \in Open : journal[turnOf[m]].status = "interrupted" =>
    tokens[journal[turnOf[m]].run] = "fresh"
StoredIsFree ==
  boot = 1 /\ ~Out /\ store # 0 => store \notin TokensSent /\ tokens[store] = "fresh"

IInv ==
  /\ TypeOK /\ LogsAgree /\ TurnsAreNew
  /\ OpenMayBeSent /\ FlightIsOurs
  /\ WorkersHoldOne /\ SessionIsFree /\ FlightIsHeld /\ TurnsApart /\ RetriesAreFree
  /\ TurnsAreKnown /\ StartsAreWhole /\ RunsAreWhole /\ AnswersAreRuns
  /\ WorkersAreSound /\ JournalIsTrue
  /\ GivenAreUsed /\ ToldAreOver /\ UntoldAreFresh /\ StoredIsFree

-----------------------------------------------------------------------------
(* Frames on their way through one worker. *)

(* A function on 1..n is a sequence, also after a change of one value.     *)
LEMMA FunIsSeq ==
  ASSUME NEW S, NEW n \in Nat, NEW f \in [1..n -> S]
  PROVE  f \in Seq(S) /\ Len(f) = n /\ DOMAIN f = 1..n
OBVIOUS

LEMMA SeqElements ==
  ASSUME NEW S, NEW s \in Seq(S)
  PROVE  \A i \in DOMAIN s : s[i] \in S
OBVIOUS

LEMMA ChangedSeq ==
  ASSUME NEW S, NEW s \in Seq(S), NEW i \in DOMAIN s, NEW v \in S
  PROVE  /\ [s EXCEPT ![i] = v] \in Seq(S)
         /\ Len([s EXCEPT ![i] = v]) = Len(s) /\ DOMAIN [s EXCEPT ![i] = v] = DOMAIN s
         /\ \A j \in DOMAIN s : [s EXCEPT ![i] = v][j] = IF j = i THEN v ELSE s[j]
<1>1. Len(s) \in Nat /\ DOMAIN s = 1..Len(s)
  OBVIOUS
<1>2. [s EXCEPT ![i] = v] \in [1..Len(s) -> S]
  BY <1>1
<1>3. QED
  BY <1>1, <1>2, FunIsSeq

(* The fields of a process.                                                *)
LEMMA ProcessFields ==
  ASSUME NEW w \in Process
  PROVE  /\ w.up \in BOOLEAN /\ w.inbox \in Seq(Frame) /\ w.outbox \in Seq(EndFrames)
         /\ w.job \in Job /\ w.backlog \in Seq(Frame) /\ w.closing \in {"no", "shutdown", "eof"}
         /\ w = [up |-> w.up, inbox |-> w.inbox, outbox |-> w.outbox, job |-> w.job,
                 backlog |-> w.backlog, closing |-> w.closing]
BY DEF Process

(* What a new or a dead process holds: nothing, but for answers that may   *)
(* still be read.                                                          *)
LEMMA FreshHoldsNothing ==
  /\ Fresh \in Process /\ OneTurn(Fresh) /\ Starts(Fresh) = {} /\ Turns(Fresh) = {} /\ ~Active(Fresh)
<1>1. Fresh \in Process
  BY DEF Fresh, Process, NoJob, Job
<1>2. QED
  BY <1>1 DEF Fresh, NoJob, OneTurn, Starting, Starts, Active, Turns, Members

(* v says and holds nothing that w did not; its job is the one of w, or    *)
(* has answered, or is none.                                               *)
SaysNoMore(w, v) ==
  /\ v \in Process /\ OneTurn(v)
  /\ Starts(v) \subseteq Starts(w) /\ Turns(v) \subseteq Turns(w)
  /\ Members(v.outbox) \subseteq Members(w.outbox)
  /\ Members(v.backlog) \subseteq Members(w.backlog)
  /\ Active(v) => /\ v.job.stage = w.job.stage /\ v.job.turn = w.job.turn
                  /\ v.job.status = w.job.status /\ v.job.run = w.job.run

LEMMA QuietStays ==
  ASSUME NEW w \in Process, OneTurn(w)
  PROVE  SaysNoMore(w, w)
BY DEF SaysNoMore

LEMMA QuietGone ==
  ASSUME NEW w \in Process, OneTurn(w)
  PROVE  SaysNoMore(w, Gone(w)) /\ Turns(Gone(w)) = {} /\ SaysNoMore(w, Dead(w))
<1>1. Gone(w) \in Process /\ Dead(w) \in Process
  BY FreshHoldsNothing, ProcessFields DEF Gone, Dead, Process
<1>2. /\ Gone(w).inbox = <<>> /\ Gone(w).backlog = <<>> /\ Gone(w).job = NoJob /\ Gone(w).outbox = <<>>
      /\ Dead(w).inbox = <<>> /\ Dead(w).backlog = <<>> /\ Dead(w).job = NoJob /\ Dead(w).outbox = w.outbox
  BY DEF Gone, Dead, Fresh
<1>3. Starting(Gone(w)) = {} /\ Starting(Dead(w)) = {} /\ ~Active(Gone(w)) /\ ~Active(Dead(w))
  BY <1>2 DEF Starting, Active, NoJob
<1>4. Starts(Gone(w)) = {} /\ Starts(Dead(w)) = {}
  BY <1>2, <1>3 DEF Starts, Members
<1>5. Turns(Gone(w)) = {} /\ Turns(Dead(w)) \subseteq Turns(w)
  BY <1>2, <1>3, <1>4 DEF Turns, Members
<1>6. OneTurn(Gone(w)) /\ OneTurn(Dead(w))
  BY <1>2, <1>3 DEF OneTurn
<1>7. QED
  BY <1>1, <1>2, <1>3, <1>4, <1>5, <1>6 DEF SaysNoMore, Members

(* A queue with something in it.                                           *)
LEMMA QueueEnds ==
  ASSUME NEW S, NEW q \in Seq(S), q # <<>>
  PROVE  /\ Len(q) \in Nat \ {0} /\ DOMAIN q = 1..Len(q) /\ 1 \in DOMAIN q
         /\ Head(q) = q[1] /\ Head(q) \in S /\ Head(q) \in Members(q)
         /\ Tail(q) \in Seq(S) /\ DOMAIN Tail(q) = 1..(Len(q) - 1)
         /\ \A k \in DOMAIN Tail(q) : k + 1 \in DOMAIN q /\ Tail(q)[k] = q[k + 1]
         /\ Len(q) <= 1 => Tail(q) = <<>> /\ Members(q) = {Head(q)}
BY DEF Members

LEMMA Appended ==
  ASSUME NEW S, NEW q \in Seq(S), NEW e \in S
  PROVE  /\ Append(q, e) \in Seq(S) /\ Len(Append(q, e)) = Len(q) + 1
         /\ Len(q) \in Nat /\ DOMAIN q = 1..Len(q)
         /\ DOMAIN Append(q, e) = 1..(Len(q) + 1)
         /\ Append(q, e)[Len(q) + 1] = e
         /\ \A k \in DOMAIN q : Append(q, e)[k] = q[k]
         /\ Members(Append(q, e)) = Members(q) \cup {e}
<1>1. /\ Append(q, e) \in Seq(S) /\ Len(Append(q, e)) = Len(q) + 1
      /\ Len(q) \in Nat /\ DOMAIN q = 1..Len(q)
      /\ DOMAIN Append(q, e) = 1..(Len(q) + 1)
      /\ Append(q, e)[Len(q) + 1] = e
      /\ \A k \in DOMAIN q : Append(q, e)[k] = q[k]
  OBVIOUS
<1>2. DOMAIN Append(q, e) = DOMAIN q \cup {Len(q) + 1}
  BY <1>1
<1>3. QED
  BY <1>1, <1>2 DEF Members

(* A control frame is no turn.                                             *)
LEMMA QuietPut ==
  ASSUME NEW w \in Process, OneTurn(w), NEW f \in Frame, f.type # "start"
  PROVE  SaysNoMore(w, Put(w, f)) /\ Put(w, f).outbox = w.outbox /\ Turns(Put(w, f)) = Turns(w)
<1>1. CASE ~w.up
  BY <1>1, QuietStays DEF Put
<1>2. CASE w.up
  <2> DEFINE v == [w EXCEPT !.inbox = Append(w.inbox, f)]
  <2>0. Put(w, f) = v
    BY <1>2, ProcessFields DEF Put
  <2>1. /\ v.inbox = Append(w.inbox, f) /\ v.outbox = w.outbox /\ v.job = w.job /\ v.backlog = w.backlog
        /\ v \in Process
    BY ProcessFields, Appended DEF Process
  <2>2. /\ DOMAIN v.inbox = 1..(Len(w.inbox) + 1) /\ DOMAIN w.inbox = 1..Len(w.inbox)
        /\ Len(w.inbox) \in Nat /\ v.inbox[Len(w.inbox) + 1] = f
        /\ \A k \in DOMAIN w.inbox : v.inbox[k] = w.inbox[k]
    BY <2>1, ProcessFields, Appended
  <2> HIDE DEF v
  <2>3. Starting(v) = Starting(w)
    BY <2>2 DEF Starting
  <2>4. Starts(v) = Starts(w)
    BY <2>1, <2>2, <2>3 DEF Starts, Starting
  <2>5. Turns(v) = Turns(w)
    BY <2>1, <2>4 DEF Turns, Active
  <2>6. OneTurn(v)
    BY <2>1, <2>3 DEF OneTurn, Active
  <2>7. QED
    BY <2>0, <2>1, <2>4, <2>5, <2>6 DEF SaysNoMore
<1>3. QED
  BY <1>1, <1>2, ProcessFields

(* The inbox after its head is taken.                                      *)
LEMMA TakenInbox ==
  ASSUME NEW w \in Process, OneTurn(w), w.inbox # <<>>, NEW v, v.inbox = Tail(w.inbox)
  PROVE  /\ \A k \in Starting(v) : k + 1 \in Starting(w) /\ v.inbox[k] = w.inbox[k + 1]
         /\ \A j, k \in Starting(v) : j = k
         /\ Starting(v) # {} => Starting(w) # {}
         /\ Head(w.inbox).type = "start" =>
              /\ Starting(v) = {} /\ Starting(w) # {} /\ Head(w.inbox) \in Starts(w)
<1>1. /\ DOMAIN w.inbox = 1..Len(w.inbox) /\ Len(w.inbox) \in Nat \ {0} /\ Head(w.inbox) = w.inbox[1]
      /\ DOMAIN v.inbox = 1..(Len(w.inbox) - 1)
      /\ \A k \in DOMAIN v.inbox : k + 1 \in DOMAIN w.inbox /\ v.inbox[k] = w.inbox[k + 1]
  BY ProcessFields, QueueEnds
<1>2. \A k \in Starting(v) : k + 1 \in Starting(w) /\ v.inbox[k] = w.inbox[k + 1] /\ k \in 1..(Len(w.inbox) - 1)
  BY <1>1 DEF Starting
<1>3. \A j, k \in Starting(v) : j = k
  <2> SUFFICES ASSUME NEW j \in Starting(v), NEW k \in Starting(v) PROVE j = k
    OBVIOUS
  <2>1. j + 1 = k + 1
    BY <1>2 DEF OneTurn
  <2>2. QED
    BY <1>2, <2>1
<1>4. ASSUME Head(w.inbox).type = "start"
      PROVE  Starting(v) = {} /\ 1 \in Starting(w) /\ Head(w.inbox) \in Starts(w)
  <2>1. 1 \in Starting(w)
    BY <1>1, <1>4 DEF Starting
  <2>2. \A k \in Starting(v) : k + 1 = 1 /\ k \in 1..(Len(w.inbox) - 1)
    BY <1>2, <2>1 DEF OneTurn
  <2>3. QED
    BY <1>1, <2>1, <2>2 DEF Starts
<1>5. QED
  BY <1>2, <1>3, <1>4

(* A control frame is read: the job may be cancelled, nothing else.        *)
LEMMA QuietControl ==
  ASSUME NEW w \in Process, OneTurn(w), w.inbox # <<>>, NEW v \in Process,
         v.inbox = Tail(w.inbox), v.outbox = w.outbox, v.backlog = w.backlog,
         v.job.stage = w.job.stage, v.job.turn = w.job.turn,
         v.job.status = w.job.status, v.job.run = w.job.run
  PROVE  SaysNoMore(w, v)
<1>1. /\ \A k \in Starting(v) : k + 1 \in Starting(w) /\ v.inbox[k] = w.inbox[k + 1]
      /\ \A j, k \in Starting(v) : j = k
      /\ Starting(v) # {} => Starting(w) # {}
  BY TakenInbox
<1>2. Starts(v) \subseteq Starts(w)
  BY <1>1 DEF Starts
<1>3. Turns(v) \subseteq Turns(w)
  BY <1>2 DEF Turns, Active
<1>4. OneTurn(v)
  BY <1>1 DEF OneTurn, Active
<1>5. QED
  BY <1>2, <1>3, <1>4 DEF SaysNoMore

(* The daemon reads an answer: the worker then holds nothing.              *)
LEMMA QuietRead ==
  ASSUME NEW w \in Process, OneTurn(w), w.outbox # <<>>
  PROVE  LET v == [w EXCEPT !.outbox = Tail(w.outbox)] IN
         SaysNoMore(w, v) /\ Turns(v) = {} /\ v.outbox = <<>> /\ v.inbox = w.inbox
<1> DEFINE v == [w EXCEPT !.outbox = Tail(w.outbox)]
<1>1. /\ v.outbox = Tail(w.outbox) /\ v.inbox = w.inbox /\ v.job = w.job /\ v.backlog = w.backlog
      /\ v \in Process
  BY ProcessFields, QueueEnds DEF Process
<1>2. v.outbox = <<>>
  <2>1. w.outbox \in Seq(EndFrames) /\ Len(w.outbox) <= 1
    BY ProcessFields DEF OneTurn
  <2>2. QED
    BY <1>1, <2>1, QueueEnds
<1> HIDE DEF v
<1>3. Starting(v) = Starting(w) /\ Starts(v) = Starts(w) /\ (Active(v) <=> Active(w))
  BY <1>1 DEF Starting, Starts, Active
<1>4. Starting(w) = {} /\ ~Active(w) /\ w.backlog = <<>>
  BY DEF OneTurn
<1>5. v.backlog = <<>> /\ Starting(v) = {} /\ ~Active(v) /\ Starts(v) = {}
  BY <1>1, <1>3, <1>4 DEF Starts, Members
<1>6. Turns(v) = {}
  BY <1>2, <1>5 DEF Turns, Members
<1>7. OneTurn(v)
  BY <1>2, <1>5 DEF OneTurn
<1>8. SaysNoMore(w, v)
  <2>1. Members(v.outbox) = {} /\ Members(v.backlog) = {}
    BY <1>2, <1>5 DEF Members
  <2>2. QED
    BY <1>1, <1>5, <1>6, <1>7, <2>1 DEF SaysNoMore
<1>9. QED
  BY <1>1, <1>2, <1>6, <1>8 DEF v

(* What a worker with one turn in one place holds.                         *)
LEMMA NoMembers ==
  /\ Members(<<>>) = {} /\ Len(<<>>) = 0
  /\ \A f : Members(<<f>>) = {f} /\ Len(<<f>>) = 1 /\ <<f>> # <<>>
BY DEF Members

LEMMA HoldsNothing ==
  ASSUME NEW w \in Process, Starting(w) = {}, w.backlog = <<>>, ~Active(w), w.outbox = <<>>
  PROVE  OneTurn(w) /\ Starts(w) = {} /\ Turns(w) = {}
<1>1. Starts(w) = {}
  BY NoMembers DEF Starts
<1>2. QED
  BY <1>1, NoMembers DEF OneTurn, Turns

LEMMA HoldsItBack ==
  ASSUME NEW w \in Process, NEW f, Starting(w) = {}, w.backlog = <<f>>, ~Active(w), w.outbox = <<>>
  PROVE  OneTurn(w) /\ Starts(w) = {f} /\ Turns(w) = {f.turn} /\ Members(w.backlog) = {f}
<1>1. Starts(w) = {f} /\ Members(w.backlog) = {f} /\ Members(w.outbox) = {}
  BY NoMembers DEF Starts
<1>2. Turns(w) = {f.turn}
  BY <1>1 DEF Turns
<1>3. Len(w.backlog) = 1 /\ Len(w.outbox) = 0
  BY NoMembers
<1>4. QED
  BY <1>1, <1>2, <1>3 DEF OneTurn

LEMMA HoldsAJob ==
  ASSUME NEW w \in Process, Starting(w) = {}, w.backlog = <<>>, Active(w), w.outbox = <<>>
  PROVE  OneTurn(w) /\ Starts(w) = {} /\ Turns(w) = {w.job.turn}
<1>1. Starts(w) = {} /\ Members(w.outbox) = {}
  BY NoMembers DEF Starts
<1>2. Turns(w) = {w.job.turn}
  BY <1>1 DEF Turns
<1>3. QED
  BY <1>1, <1>2, NoMembers DEF OneTurn

LEMMA HoldsAnAnswer ==
  ASSUME NEW w \in Process, NEW e, Starting(w) = {}, w.backlog = <<>>, ~Active(w), w.outbox = <<e>>
  PROVE  OneTurn(w) /\ Starts(w) = {} /\ Turns(w) = {e.turn} /\ Members(w.outbox) = {e}
<1>1. Starts(w) = {} /\ Members(w.outbox) = {e}
  BY NoMembers DEF Starts
<1>2. Turns(w) = {e.turn}
  BY <1>1 DEF Turns
<1>3. Len(w.backlog) = 0 /\ Len(w.outbox) = 1
  BY NoMembers
<1>4. QED
  BY <1>1, <1>2, <1>3 DEF OneTurn

(* A worker that holds a turn in one place holds nothing in the others.    *)
LEMMA HeldOnce ==
  ASSUME NEW w \in Process, OneTurn(w)
  PROVE  /\ Starting(w) # {} => w.backlog = <<>> /\ ~Active(w) /\ w.outbox = <<>>
         /\ w.backlog # <<>> => /\ Starting(w) = {} /\ ~Active(w) /\ w.outbox = <<>>
                                /\ Head(w.backlog) \in Frame /\ Head(w.backlog) \in Starts(w)
                                /\ Members(w.backlog) = {Head(w.backlog)} /\ Tail(w.backlog) = <<>>
                                /\ Head(w.backlog).turn \in Turns(w)
         /\ Active(w) => Starting(w) = {} /\ w.backlog = <<>> /\ w.outbox = <<>> /\ w.job.turn \in Turns(w)
         /\ w.outbox # <<>> => Starting(w) = {} /\ w.backlog = <<>> /\ ~Active(w)
         /\ \A f \in Starts(w) \cup Members(w.outbox) : f.turn \in Turns(w)
<1>1. \A f \in Starts(w) \cup Members(w.outbox) : f.turn \in Turns(w)
  BY DEF Turns
<1>2. Active(w) => w.job.turn \in Turns(w)
  BY DEF Turns
<1>3. w.backlog # <<>> =>
        /\ Head(w.backlog) \in Frame /\ Head(w.backlog) \in Members(w.backlog)
        /\ Members(w.backlog) = {Head(w.backlog)} /\ Tail(w.backlog) = <<>>
  BY ProcessFields, QueueEnds DEF OneTurn
<1>4. Members(w.backlog) \subseteq Starts(w)
  BY DEF Starts
<1>5. QED
  BY <1>1, <1>2, <1>3, <1>4 DEF OneTurn

(* A start frame reaches a worker that holds nothing.                      *)
LEMMA PutStart ==
  ASSUME NEW w \in Process, OneTurn(w), Turns(w) = {}, NEW f \in Frame, f.type = "start"
  PROVE  LET v == Put(w, f) IN
         /\ v \in Process /\ OneTurn(v) /\ v.outbox = <<>> /\ v.backlog = <<>> /\ ~Active(v)
         /\ Starts(v) \subseteq {f} /\ Turns(v) \subseteq {f.turn}
<1>1. Starts(w) = {} /\ Members(w.outbox) = {} /\ ~Active(w)
  BY DEF Turns
<1>2. Starting(w) = {} /\ w.backlog = <<>> /\ w.outbox = <<>>
  <2>1. w.outbox = <<>>
    <3>1. w.outbox \in Seq(EndFrames)
      BY ProcessFields
    <3>2. w.outbox # <<>> => Head(w.outbox) \in Members(w.outbox)
      BY <3>1, QueueEnds
    <3>3. QED
      BY <1>1, <3>2
  <2>2. w.backlog = <<>>
    BY <1>1, HeldOnce
  <2>3. Starting(w) = {}
    BY <1>1 DEF Starts
  <2>4. QED
    BY <2>1, <2>2, <2>3
<1>3. CASE ~w.up
  BY <1>1, <1>2, <1>3 DEF Put
<1>4. CASE w.up
  <2> DEFINE v == [w EXCEPT !.inbox = Append(w.inbox, f)]
  <2>0. Put(w, f) = v
    BY <1>4, ProcessFields DEF Put
  <2>1. /\ v.inbox = Append(w.inbox, f) /\ v.outbox = w.outbox /\ v.job = w.job /\ v.backlog = w.backlog
        /\ v \in Process
    BY ProcessFields, Appended DEF Process
  <2>2. /\ DOMAIN v.inbox = 1..(Len(w.inbox) + 1) /\ DOMAIN w.inbox = 1..Len(w.inbox)
        /\ Len(w.inbox) \in Nat /\ v.inbox[Len(w.inbox) + 1] = f
        /\ \A k \in DOMAIN w.inbox : v.inbox[k] = w.inbox[k]
    BY <2>1, ProcessFields, Appended
  <2> HIDE DEF v
  <2>3. Starting(v) = {Len(w.inbox) + 1}
    <3>1. \A k \in DOMAIN w.inbox : v.inbox[k].type # "start"
      BY <1>2, <2>2 DEF Starting
    <3>2. DOMAIN v.inbox = DOMAIN w.inbox \cup {Len(w.inbox) + 1}
      BY <2>2
    <3>3. QED
      BY <2>2, <3>1, <3>2 DEF Starting
  <2>4. Members(v.outbox) = {} /\ Members(v.backlog) = {} /\ ~Active(v) /\ Len(v.backlog) = 0 /\ Len(v.outbox) = 0
    BY <1>1, <1>2, <2>1 DEF Members, Active
  <2>5. Starts(v) = {f}
    BY <2>2, <2>3, <2>4 DEF Starts
  <2>6. Turns(v) = {f.turn}
    BY <2>4, <2>5 DEF Turns
  <2>7. OneTurn(v)
    BY <1>2, <2>1, <2>3, <2>4 DEF OneTurn
  <2>8. QED
    BY <1>2, <2>0, <2>1, <2>4, <2>5, <2>6, <2>7
<1>5. QED
  BY <1>3, <1>4, ProcessFields

-----------------------------------------------------------------------------
(* A step of a worker. *)

(* The processes after a change of one of them.                            *)
LEMMA OneProcess ==
  ASSUME worker \in Seq(Process), NEW g \in Gens, NEW v \in Process,
         worker' = [worker EXCEPT ![g] = v]
  PROVE  /\ worker' \in Seq(Process) /\ DOMAIN worker' = Gens /\ Len(worker') = Len(worker)
         /\ \A h \in Gens : worker[h] \in Process /\ worker'[h] = IF h = g THEN v ELSE worker[h]
<1>1. \A h \in Gens : worker[h] \in Process
  BY DEF Gens
<1>2. QED
  BY <1>1, ChangedSeq DEF Gens

(* Where the turns are: a worker never gains one by a step of its own.     *)
LEMMA WorkerMoves ==
  ASSUME IInv, NEW g \in Gens, NEW v \in Process, OneTurn(v),
         Starts(v) \subseteq Starts(worker[g]), Turns(v) \subseteq Turns(worker[g]),
         worker' = [worker EXCEPT ![g] = v], UNCHANGED daemonVars
  PROVE  /\ worker' \in Seq(Process) /\ DOMAIN worker' = Gens
         /\ \A h \in Gens : Len(worker'[h].backlog) <= 1
         /\ TurnsAreNew' /\ OpenMayBeSent' /\ FlightIsOurs' /\ Open' = Open
         /\ WorkersHoldOne' /\ SessionIsFree' /\ FlightIsHeld' /\ TurnsApart' /\ RetriesAreFree'
         /\ StartsAreWhole' /\ TurnsAreKnown' /\ TokensSent' \subseteq TokensSent
<1> USE DEF IInv
<1>0. worker \in Seq(Process)
  BY DEF TypeOK
<1>1. /\ worker' \in Seq(Process) /\ DOMAIN worker' = Gens
      /\ \A h \in Gens : worker'[h] = IF h = g THEN v ELSE worker[h]
  BY <1>0, OneProcess
<1>2. \A h \in Gens : /\ OneTurn(worker'[h]) /\ Starts(worker'[h]) \subseteq Starts(worker[h])
                      /\ Turns(worker'[h]) \subseteq Turns(worker[h])
  BY <1>1 DEF WorkersHoldOne
<1>3. UNCHANGED <<pending, flight, session, store, boot, turnOf, attempts, fate, answer>> /\ Out' = Out
  BY DEF daemonVars, Out
<1>4. Open' = Open /\ TurnsAreNew' /\ OpenMayBeSent'
  BY <1>3 DEF Open, TurnsAreNew, OpenMayBeSent
<1>5. FlightIsOurs'
  BY <1>1, <1>3 DEF FlightIsOurs, Gens
<1>6. WorkersHoldOne'
  BY <1>1, <1>2 DEF WorkersHoldOne, Gens
<1>7. SessionIsFree'
  <2>1. session \in Gens \cup {0}
    BY DEF TypeOK
  <2>2. QED
    BY <1>1, <1>2, <1>3, <2>1 DEF SessionIsFree, Gens
<1>8. FlightIsHeld'
  <2>1. Out => flight.gen \in Gens
    BY DEF FlightIsOurs
  <2>2. QED
    BY <1>1, <1>2, <1>3, <2>1 DEF FlightIsHeld
<1>9. TurnsApart'
  BY <1>1, <1>2 DEF TurnsApart, Gens
<1>10. RetriesAreFree'
  BY <1>1, <1>2, <1>3, <1>4 DEF RetriesAreFree, Gens
<1>11. StartsAreWhole'
  BY <1>1, <1>2, <1>3 DEF StartsAreWhole, Gens
<1>12. TurnsAreKnown' /\ TokensSent' \subseteq TokensSent
  BY <1>1, <1>2, <1>3 DEF TurnsAreKnown, TokensSent, Gens
<1>13. \A h \in Gens : Len(worker'[h].backlog) <= 1
  BY <1>2 DEF OneTurn
<1>14. QED
  BY <1>1, <1>4, <1>5, <1>6, <1>7, <1>8, <1>9, <1>10, <1>11, <1>12, <1>13

(* A step that writes no file.                                             *)
LEMMA WorkerSpeaks ==
  ASSUME IInv, NEW g \in Gens, NEW v \in Process, OneTurn(v), Sound(v),
         Starts(v) \subseteq Starts(worker[g]), Turns(v) \subseteq Turns(worker[g]),
         worker' = [worker EXCEPT ![g] = v], UNCHANGED <<daemonVars, diskVars, runs>>
  PROVE  IInv'
<1>1. /\ worker' \in Seq(Process) /\ DOMAIN worker' = Gens
      /\ \A h \in Gens : Len(worker'[h].backlog) <= 1
      /\ TurnsAreNew' /\ OpenMayBeSent' /\ FlightIsOurs' /\ Open' = Open
      /\ WorkersHoldOne' /\ SessionIsFree' /\ FlightIsHeld' /\ TurnsApart' /\ RetriesAreFree'
      /\ StartsAreWhole' /\ TurnsAreKnown' /\ TokensSent' \subseteq TokensSent
  BY WorkerMoves
<1> USE DEF IInv
<1>2. /\ UNCHANGED <<pending, flight, session, store, boot, turnOf, attempts, fate, answer, quit, stops, cancels>>
      /\ UNCHANGED <<journal, tokens, runs>> /\ Out' = Out
  BY DEF daemonVars, diskVars, Out
<1>3. TypeOK'
  BY <1>1, <1>2 DEF TypeOK, Gens
<1>4. LogsAgree' /\ RunsAreWhole' /\ AnswersAreRuns' /\ JournalIsTrue' /\ GivenAreUsed'
  BY <1>2 DEF LogsAgree, RunsAreWhole, AnswersAreRuns, JournalIsTrue, GivenAreUsed
<1>5. WorkersAreSound'
  <2> SUFFICES ASSUME NEW h \in Gens PROVE Sound(worker[h])'
    BY <1>1 DEF WorkersAreSound, Gens
  <2>1. worker'[h] = IF h = g THEN v ELSE worker[h]
    BY OneProcess DEF TypeOK
  <2>2. Sound(worker[h])' <=> Sound(worker'[h])
    BY <1>2 DEF Sound, JobIsKnown, Active
  <2>3. QED
    BY <2>1, <2>2 DEF WorkersAreSound
<1>6. ToldAreOver' /\ UntoldAreFresh' /\ StoredIsFree'
  BY <1>1, <1>2 DEF ToldAreOver, UntoldAreFresh, StoredIsFree
<1>7. QED
  BY <1>1, <1>3, <1>4, <1>5, <1>6

(* What was sound and became quieter is sound.                             *)
LEMMA QuietIsSound ==
  ASSUME NEW w \in Process, Sound(w), NEW v, SaysNoMore(w, v)
  PROVE  Sound(v)
<1>1. Active(v) => Active(w)
  BY DEF SaysNoMore, Active
<1>2. JobIsKnown(v)
  BY <1>1 DEF SaysNoMore, Sound, JobIsKnown
<1>3. QED
  BY <1>2 DEF SaysNoMore, Sound

(* What a start frame on its way says of its turn and its token.           *)
LEMMA StartIsKnown ==
  ASSUME IInv, NEW g \in Gens, NEW f \in Starts(worker[g])
  PROVE  /\ f.turn \in Turn /\ f.turn \in Turns(worker[g])
         /\ \E m \in Members(f.msgs) : m \in DOMAIN turnOf /\ turnOf[m] = f.turn
         /\ f.token \in TokensSent
<1> USE DEF IInv
<1>1. \E m \in Members(f.msgs) : m \in DOMAIN turnOf /\ turnOf[m] = f.turn
  BY DEF StartsAreWhole
<1>2. f.turn \in Turn
  BY <1>1 DEF TypeOK
<1>3. f.turn \in Turns(worker[g]) /\ f.token \in TokensSent
  BY DEF Turns, TokensSent
<1>4. QED
  BY <1>1, <1>2, <1>3

(* A worker writes its answer.                                             *)
LEMMA EndFrameIs ==
  ASSUME NEW t \in Turn, NEW s \in Status, NEW r \in Nat
  PROVE  LET e == EndFrame(t, s, r) IN
         e \in EndFrames /\ e.turn = t /\ e.status = s /\ e.run = r
BY DEF EndFrame, EndFrames

LEMMA EntryIs ==
  ASSUME TypeOK, NEW t \in Turn, journal[t] # NoEntry
  PROVE  /\ journal[t].run \in DOMAIN runs /\ journal[t].run \in Nat \ {0} /\ journal[t].status \in Status
         /\ journal[t] = [status |-> journal[t].status, run |-> journal[t].run]
<1>1. journal[t] \in [status : Status, run : DOMAIN runs]
  BY DEF TypeOK
<1>2. journal[t].run \in DOMAIN runs /\ journal[t].status \in Status
  BY <1>1
<1>3. journal[t].run \in Nat \ {0}
  BY <1>2 DEF TypeOK
<1>4. QED
  BY <1>1, <1>2, <1>3

LEMMA SaidOnce ==
  ASSUME NEW w \in Process, w.outbox = <<>>, NEW e \in EndFrames
  PROVE  LET v == Say(w, e) IN
         /\ v \in Process /\ v.outbox = <<e>>
         /\ v.inbox = w.inbox /\ v.job = w.job /\ v.backlog = w.backlog /\ v.closing = w.closing
<1>1. Append(w.outbox, e) = <<e>> /\ <<e>> \in Seq(EndFrames)
  OBVIOUS
<1>2. Say(w, e) = [w EXCEPT !.outbox = <<e>>]
  BY <1>1 DEF Say
<1>3. QED
  BY <1>1, <1>2, ProcessFields DEF Process

LEMMA AnswerKeeps ==
  ASSUME IInv, NEW g \in Gens, NEW v \in Process, NEW e,
         Starting(v) = {}, v.backlog = <<>>, v.outbox = <<e>>, ~Active(v),
         e.turn \in Turns(worker[g]),
         e.run # 0 => journal[e.turn] = [status |-> e.status, run |-> e.run],
         e.status = "interrupted" => e.run # 0,
         worker' = [worker EXCEPT ![g] = v], UNCHANGED <<daemonVars, diskVars, runs>>
  PROVE  IInv'
<1>1. OneTurn(v) /\ Starts(v) = {} /\ Turns(v) = {e.turn} /\ Members(v.outbox) = {e}
  BY HoldsAnAnswer
<1>2. Sound(v)
  BY <1>1, NoMembers DEF Sound, JobIsKnown
<1>3. QED
  BY <1>1, <1>2, WorkerSpeaks

(* A refused resume is answered without a run.                             *)
LEMMA RefusedKeeps ==
  ASSUME IInv, NEW g \in Gens, NEW w \in Process, NEW f \in Starts(worker[g]),
         Starting(w) = {}, w.backlog = <<>>, w.outbox = <<>>, ~Active(w),
         NEW s \in {"final", "cancelled"},
         SetWorker(g, Say(w, EndFrame(f.turn, s, 0))), UNCHANGED <<daemonVars, diskVars, runs>>
  PROVE  IInv'
<1> PICK e : e = EndFrame(f.turn, s, 0)
  OBVIOUS
<1> PICK v : v = Say(w, e)
  OBVIOUS
<1>1. f.turn \in Turn /\ f.turn \in Turns(worker[g])
  BY StartIsKnown
<1>2. e \in EndFrames /\ e.turn = f.turn /\ e.run = 0 /\ e.status = s
  BY <1>1 DEF EndFrame, EndFrames, Status
<1>3. v \in Process /\ v.outbox = <<e>> /\ v.inbox = w.inbox /\ v.job = w.job /\ v.backlog = <<>>
  BY <1>2, SaidOnce
<1>4. worker' = [worker EXCEPT ![g] = v]
  BY DEF SetWorker
<1>5. Starting(v) = {} /\ ~Active(v)
  BY <1>3 DEF Starting, Active
<1>6. QED
  BY <1>1, <1>2, <1>3, <1>4, <1>5, AnswerKeeps

(* The lengths of the logs of the runs.                                    *)
LEMMA RunsLogged ==
  ASSUME IInv
  PROVE  /\ Len(runs) \in Nat /\ DOMAIN runs = 1..Len(runs) /\ DOMAIN tokens = 1..Len(runs)
         /\ \A r \in DOMAIN runs : runs[r] \in Run
         /\ \A k \in DOMAIN tokens : tokens[k] \in {"none", "fresh", "used"}
         /\ 0 \notin DOMAIN runs
BY DEF IInv, TypeOK, LogsAgree

(* A job runs for its own turn, which no other worker holds.               *)
LEMMA JobsApart ==
  ASSUME IInv, NEW g \in Gens, Active(worker[g]), NEW h \in Gens, h # g
  PROVE  /\ Active(worker[h]) => /\ worker[h].job.turn # worker[g].job.turn
                                 /\ worker[h].job.run # worker[g].job.run
         /\ \A f \in Starts(worker[h]) \cup Members(worker[h].outbox) : f.turn # worker[g].job.turn
         /\ \A f \in Members(worker[h].backlog) : f.turn # worker[g].job.turn
<1>1. worker[g].job.turn \in Turns(worker[g])
  BY DEF Turns
<1>2. Turns(worker[g]) \cap Turns(worker[h]) = {}
  BY DEF IInv, TurnsApart
<1>3. \A f \in Starts(worker[h]) \cup Members(worker[h].outbox) : f.turn # worker[g].job.turn
  BY <1>1, <1>2 DEF Turns
<1>4. Active(worker[h]) => worker[h].job.turn # worker[g].job.turn
  BY <1>1, <1>2 DEF Turns
<1>5. Active(worker[h]) => worker[h].job.run # worker[g].job.run
  <2>1. \A i \in Gens : Active(worker[i]) => runs[worker[i].job.run].turn = worker[i].job.turn
    BY DEF IInv, WorkersAreSound, Sound, JobIsKnown
  <2>2. QED
    BY <1>4, <2>1
<1>6. QED
  BY <1>3, <1>4, <1>5 DEF Starts

(* What the journal says of a message that may be sent again.              *)
LEMMA OpenIsJournaled ==
  ASSUME IInv, NEW m \in Open
  PROVE  /\ m \in DOMAIN turnOf /\ turnOf[m] \in Turn
         /\ journal[turnOf[m]] # NoEntry =>
              /\ journal[turnOf[m]].run \in DOMAIN runs
              /\ runs[journal[turnOf[m]].run].turn = turnOf[m]
         /\ journal[turnOf[m]].status = "interrupted" =>
              /\ journal[turnOf[m]] # NoEntry
              /\ \A k \in (TokensSent \cup {store}) \ {0} : k # journal[turnOf[m]].run
<1> USE DEF IInv
<1>1. m \in DOMAIN turnOf
  BY DEF Open, OpenMayBeSent, LogsAgree, TypeOK
<1>2. turnOf[m] \in Turn
  BY <1>1 DEF TypeOK
<1>3. journal[turnOf[m]].status = "interrupted" => journal[turnOf[m]] # NoEntry
  BY DEF NoEntry
<1>4. QED
  BY <1>1, <1>2, <1>3 DEF JournalIsTrue, ToldAreOver

LEMMA NewJob ==
  ASSUME NEW t \in Turn, NEW r \in Nat
  PROVE  LET j == [NoJob EXCEPT !.turn = t, !.stage = "run", !.run = r] IN
         j \in Job /\ j.turn = t /\ j.stage = "run" /\ j.run = r
<1>1. NoJob \in Job
  BY DEF NoJob, Job
<1>2. QED
  BY <1>1 DEF Job

(* A turn starts: a new run, and the token that came along is used.        *)
LEMMA RunKeeps ==
  ASSUME IInv, NEW g \in Gens, NEW w \in Process, NEW f \in Starts(worker[g]),
         Starting(w) = {}, w.backlog = <<>>, w.outbox = <<>>,
         journal[f.turn] = NoEntry, f \in Frame, Spawn(g, w, f), f.token = 0 \/ Spendable(f.token),
         UNCHANGED <<daemonVars, journal>>
  PROVE  IInv'
<1> PICK n : n = Len(runs)
  OBVIOUS
<1> DEFINE k == f.token
           R == [turn |-> f.turn, gen |-> g, token |-> f.token, msgs |-> Members(f.msgs)]
           j == [NoJob EXCEPT !.turn = f.turn, !.stage = "run", !.run = n + 1]
           v == [w EXCEPT !.job = j]
           spent == [i \in DOMAIN tokens |-> IF i = f.token THEN "used" ELSE tokens[i]]
<1> USE DEF IInv
<1>1. /\ n \in Nat /\ DOMAIN runs = 1..n /\ DOMAIN tokens = 1..n
      /\ \A r \in DOMAIN runs : runs[r] \in Run
      /\ \A i \in DOMAIN tokens : tokens[i] \in {"none", "fresh", "used"}
  BY RunsLogged
<1>2. /\ f.turn \in Turn /\ f.turn \in Turns(worker[g]) /\ f.token \in TokensSent
      /\ \E m \in Members(f.msgs) : m \in DOMAIN turnOf /\ turnOf[m] = f.turn
  BY StartIsKnown
<1>3. /\ worker' = [worker EXCEPT ![g] = v]
      /\ tokens' = Append(spent, "none")
      /\ runs' = Append(runs, R)
  BY DEF Spawn, SetWorker
<1>4. R \in Run /\ R.turn = f.turn /\ R.token = k /\ R.msgs = Members(f.msgs)
  <2>1. f.token \in Nat /\ Members(f.msgs) \subseteq Nat
    BY DEF Frame, Members
  <2>2. g \in Nat
    BY DEF Gens, TypeOK
  <2>3. QED
    BY <1>2, <2>1, <2>2 DEF Run
<1>5. spent \in Seq({"none", "fresh", "used"}) /\ Len(spent) = n /\ DOMAIN spent = 1..n
  <2>1. spent \in [1..n -> {"none", "fresh", "used"}]
    BY <1>1
  <2>2. QED
    BY <1>1, <2>1, FunIsSeq
<1>6. /\ runs' \in Seq(Run) /\ Len(runs') = n + 1 /\ DOMAIN runs' = 1..(n + 1) /\ runs'[n + 1] = R
      /\ \A r \in 1..n : runs'[r] = runs[r]
  BY <1>1, <1>3, <1>4, Appended DEF TypeOK
<1>7. /\ tokens' \in Seq({"none", "fresh", "used"}) /\ Len(tokens') = n + 1
      /\ DOMAIN tokens' = 1..(n + 1) /\ tokens'[n + 1] = "none"
      /\ \A i \in 1..n : tokens'[i] = IF i = k THEN "used" ELSE tokens[i]
  BY <1>1, <1>3, <1>5, Appended
<1>8. /\ v.inbox = w.inbox /\ v.outbox = <<>> /\ v.backlog = <<>>
      /\ v.job.turn = f.turn /\ v.job.stage = "run" /\ v.job.run = n + 1
      /\ v \in Process
  <2>1. j \in Job /\ j.turn = f.turn /\ j.stage = "run" /\ j.run = n + 1
    <3>1. n + 1 \in Nat
      BY <1>1
    <3>2. QED
      BY <1>2, <3>1, NewJob
  <2>2. QED
    BY <2>1, ProcessFields DEF Process
<1>9. k # 0 => /\ k \in 1..n /\ tokens[k] = "fresh" /\ journal[runs[k].turn].run = k
               /\ \A m \in Open : turnOf[m] # runs[k].turn
  BY <1>1, <1>2 DEF Spendable, ToldAreOver
<1> HIDE DEF k, R, j, v, spent
<1>10. OneTurn(v) /\ Starts(v) = {} /\ Turns(v) = {f.turn}
  BY <1>8, HoldsAJob DEF Starting, Active
<1>11. /\ worker' \in Seq(Process) /\ DOMAIN worker' = Gens
       /\ \A h \in Gens : Len(worker'[h].backlog) <= 1
       /\ TurnsAreNew' /\ OpenMayBeSent' /\ FlightIsOurs' /\ Open' = Open
       /\ WorkersHoldOne' /\ SessionIsFree' /\ FlightIsHeld' /\ TurnsApart' /\ RetriesAreFree'
       /\ StartsAreWhole' /\ TurnsAreKnown' /\ TokensSent' \subseteq TokensSent
  <2>1. UNCHANGED daemonVars /\ Starts(v) \subseteq Starts(worker[g]) /\ Turns(v) \subseteq Turns(worker[g])
    BY <1>2, <1>10
  <2>2. QED
    BY <1>3, <1>8, <1>10, <2>1, WorkerMoves
<1>12. /\ UNCHANGED <<pending, flight, session, store, boot, turnOf, attempts, fate, answer, quit, stops, cancels>>
       /\ UNCHANGED journal /\ Out' = Out
  BY DEF daemonVars, Out
<1>13. TypeOK'
  <2>1. store' \in DOMAIN tokens' \cup {0}
    BY <1>1, <1>7, <1>12 DEF TypeOK
  <2>2. journal' \in [Turn -> {NoEntry} \cup [status : Status, run : DOMAIN runs']]
    BY <1>1, <1>6, <1>12 DEF TypeOK
  <2>3. QED
    BY <1>6, <1>7, <1>11, <1>12, <2>1, <2>2 DEF TypeOK, Gens
<1>14. LogsAgree'
  BY <1>6, <1>7, <1>12 DEF LogsAgree
<1>15. RunsAreWhole'
  BY <1>1, <1>2, <1>4, <1>6, <1>12 DEF RunsAreWhole
<1>16. AnswersAreRuns' /\ JournalIsTrue'
  BY <1>1, <1>6, <1>12 DEF AnswersAreRuns, JournalIsTrue
<1>17. WorkersAreSound'
  <2> SUFFICES ASSUME NEW h \in Gens PROVE Sound(worker[h])'
    BY <1>11 DEF WorkersAreSound, Gens
  <2>0. worker[h] \in Process /\ worker'[h] = IF h = g THEN v ELSE worker[h]
    BY <1>3, <1>8, OneProcess DEF TypeOK
  <2>1. CASE h = g
    <3>1. JobIsKnown(v)'
      BY <1>2, <1>4, <1>6, <1>7, <1>8, <1>12 DEF JobIsKnown
    <3>2. QED
      BY <1>8, <2>0, <2>1, <3>1, NoMembers DEF Sound
  <2>2. CASE h # g
    <3> PICK u : u = worker[h]
      OBVIOUS
    <3>1. Sound(u)
      BY DEF WorkersAreSound
    <3>2. JobIsKnown(u)'
      <4> SUFFICES ASSUME Active(u) PROVE JobIsKnown(u)'
        BY DEF JobIsKnown
      <4> DEFINE r == u.job.run
      <4>1. r \in 1..n /\ runs[r].turn = u.job.turn
        BY <1>1, <3>1 DEF Sound, JobIsKnown
      <4>2. runs'[r] = runs[r] /\ r \in DOMAIN runs' /\ tokens'[r] = (IF r = k THEN "used" ELSE tokens[r])
        BY <1>1, <1>6, <1>7, <4>1
      <4>3. r = k => r # 0 /\ tokens[r] = "fresh" /\ journal[u.job.turn].run = r
        BY <1>1, <1>9, <4>1
      <4>4. u.job.stage \in {"run", "issue", "record"} => journal[u.job.turn] = NoEntry
        BY <3>1 DEF Sound, JobIsKnown, Active
      <4>5. u.job.stage \in {"run", "issue", "record"} => r # k
        BY <4>3, <4>4 DEF NoEntry
      <4>6. QED
        BY <1>12, <3>1, <4>1, <4>2, <4>5 DEF Sound, JobIsKnown
    <3>3. QED
      BY <1>12, <2>0, <2>2, <3>1, <3>2 DEF Sound
  <2>3. QED
    BY <2>1, <2>2
<1>18. GivenAreUsed'
  <2>1. \A r \in 1..n : runs'[r].token # 0 =>
          /\ runs'[r].token \in 1..n /\ tokens[runs'[r].token] = "used"
          /\ \A q \in 1..n : runs'[q].token = runs'[r].token => q = r
    BY <1>1, <1>6 DEF GivenAreUsed
  <2>2. runs'[n + 1].token = k
    BY <1>4, <1>6
  <2>3. \A r \in 1..n : runs'[r].token # 0 => runs'[r].token # k
    BY <1>9, <2>1
  <2> SUFFICES ASSUME NEW r \in 1..(n + 1), runs'[r].token # 0
               PROVE  /\ runs'[r].token \in 1..(n + 1) /\ tokens'[runs'[r].token] = "used"
                      /\ \A q \in 1..(n + 1) : runs'[q].token = runs'[r].token => q = r
    BY <1>6, <1>7 DEF GivenAreUsed
  <2>4. \A q \in 1..(n + 1) : q \in 1..n \/ q = n + 1
    BY <1>1
  <2>5. CASE r = n + 1
    <3>1. k \in 1..n /\ k \in 1..(n + 1) /\ k # 0
      BY <1>1, <1>9, <2>2, <2>5
    <3>2. tokens'[k] = "used"
      BY <1>7, <3>1
    <3>3. QED
      BY <2>2, <2>3, <2>4, <2>5, <3>1, <3>2
  <2>6. CASE r \in 1..n
    <3>1. runs'[r].token \in 1..n /\ runs'[r].token \in 1..(n + 1) /\ tokens'[runs'[r].token] = "used"
      BY <1>1, <1>7, <2>1, <2>6
    <3>2. QED
      BY <2>1, <2>2, <2>3, <2>4, <2>6, <3>1
  <2>7. QED
    BY <2>4, <2>5, <2>6
<1>19. ToldAreOver'
  BY <1>1, <1>6, <1>11, <1>12 DEF ToldAreOver
<1>20. UntoldAreFresh'
  <2> SUFFICES ASSUME NEW m \in Open, journal[turnOf[m]].status = "interrupted"
               PROVE  tokens'[journal[turnOf[m]].run] = "fresh"
    BY <1>11, <1>12 DEF UntoldAreFresh
  <2>1. /\ journal[turnOf[m]].run \in 1..n
        /\ k # 0 => k # journal[turnOf[m]].run
    BY <1>1, <1>2, OpenIsJournaled DEF k
  <2>2. tokens[journal[turnOf[m]].run] = "fresh"
    BY DEF UntoldAreFresh
  <2>3. QED
    BY <1>1, <1>7, <2>1, <2>2
<1>21. StoredIsFree'
  <2> SUFFICES ASSUME boot = 1, ~Out, store # 0
               PROVE  store \notin TokensSent' /\ tokens'[store] = "fresh"
    BY <1>12 DEF StoredIsFree
  <2>1. store \notin TokensSent /\ tokens[store] = "fresh" /\ store \in 1..n /\ store # k
    BY <1>1, <1>2 DEF StoredIsFree, TypeOK, k
  <2>2. QED
    BY <1>7, <1>11, <2>1
<1>22. QED
  BY <1>11, <1>13, <1>14, <1>15, <1>16, <1>17, <1>18, <1>19, <1>20, <1>21

LEMMA SpawnKeeps ==
  ASSUME IInv, NEW g \in Gens, NEW w \in Process, NEW f \in Starts(worker[g]),
         Starting(w) = {}, w.backlog = <<>>, w.outbox = <<>>, ~Active(w),
         journal[f.turn] = NoEntry, f \in Frame, Spawn(g, w, f), UNCHANGED <<daemonVars, journal>>
  PROVE  IInv'
<1>1. CASE f.token = 0 \/ Spendable(f.token)
  BY <1>1, RunKeeps
<1>2. CASE f.token # 0 /\ ~Spendable(f.token)
  <2>1. SetWorker(g, Say(w, EndFrame(f.turn, "final", 0))) /\ UNCHANGED <<daemonVars, diskVars, runs>>
    BY <1>2 DEF Spawn, diskVars
  <2>2. QED
    BY <2>1, RefusedKeeps
<1>3. QED
  BY <1>1, <1>2

LEMMA FirstOfAll ==
  ASSUME NEW S, NEW e \in S
  PROVE  Append(<<>>, e) = <<e>> /\ <<e>> \in Seq(S)
OBVIOUS

LEMMA SameInside ==
  ASSUME NEW w, NEW v, v.inbox = w.inbox, v.job = w.job
  PROVE  Starting(v) = Starting(w) /\ (Active(v) <=> Active(w))
BY DEF Starting, Active

LEMMA ReadStartKeeps ==
  ASSUME IInv, NEW g \in Gens, ReadStart(g)
  PROVE  IInv'
<1>a. PICK u : u = worker[g]
  OBVIOUS
<1>b. PICK f : f = Head(u.inbox)
  OBVIOUS
<1>c. PICK w : w = [u EXCEPT !.inbox = Tail(u.inbox)]
  OBVIOUS
<1>0. u \in Process /\ OneTurn(u) /\ u.inbox # <<>> /\ f.type = "start" /\ w = Taken(g)
  BY <1>a, <1>b, <1>c DEF IInv, ReadStart, Reading, Taken, TypeOK, WorkersHoldOne, Gens
<1>1. f \in Frame /\ Tail(u.inbox) \in Seq(Frame)
  BY <1>0, <1>b, ProcessFields, QueueEnds
<1>2. /\ w \in Process /\ w.inbox = Tail(u.inbox) /\ w.outbox = u.outbox
      /\ w.job = u.job /\ w.backlog = u.backlog
  BY <1>0, <1>1, <1>c, ProcessFields DEF Process
<1>3. Starting(w) = {} /\ Starting(u) # {} /\ f \in Starts(u)
  BY <1>0, <1>2, <1>b, TakenInbox
<1>4. u.backlog = <<>> /\ ~Active(u) /\ u.outbox = <<>>
  BY <1>0, <1>3, HeldOnce
<1>5. w.backlog = <<>> /\ ~Active(w) /\ w.outbox = <<>>
  BY <1>2, <1>4 DEF Active
<1>6. f.turn \in Turn /\ f.turn \in Turns(worker[g])
  BY <1>3, <1>a, StartIsKnown
<1>7. UNCHANGED <<daemonVars, journal>>
  BY DEF ReadStart
<1>8. CASE journal[f.turn] # NoEntry
  <2>a. PICK e : e = EndFrame(f.turn, journal[f.turn].status, journal[f.turn].run)
    OBVIOUS
  <2>b. PICK v : v = Say(w, e)
    OBVIOUS
  <2>1. /\ journal[f.turn].run \in Nat \ {0} /\ journal[f.turn].status \in Status
        /\ journal[f.turn] = [status |-> journal[f.turn].status, run |-> journal[f.turn].run]
    BY <1>6, <1>8, EntryIs DEF IInv
  <2>2. /\ e.turn = f.turn /\ e.status = journal[f.turn].status /\ e.run = journal[f.turn].run
        /\ e \in EndFrames
    BY <1>6, <2>1, <2>a, EndFrameIs
  <2>3. v \in Process /\ v.outbox = <<e>> /\ v.inbox = w.inbox /\ v.job = w.job /\ v.backlog = <<>>
    BY <1>2, <1>5, <2>2, <2>b, SaidOnce
  <2>4. Starting(v) = {} /\ ~Active(v)
    BY <1>3, <1>5, <2>3, SameInside
  <2>5. worker' = [worker EXCEPT ![g] = v] /\ UNCHANGED <<daemonVars, diskVars, runs>>
    BY <1>0, <1>a, <1>b, <2>a, <2>b, <1>7, <1>8 DEF ReadStart, SetWorker, diskVars
  <2>6. QED
    BY <1>6, <2>1, <2>2, <2>3, <2>4, <2>5, AnswerKeeps
<1>9. CASE journal[f.turn] = NoEntry /\ w.job # NoJob /\ f.turn = w.job.turn
  <2>1. OneTurn(w) /\ Starts(w) = {} /\ Turns(w) = {}
    BY <1>2, <1>3, <1>5, HoldsNothing
  <2>2. Sound(w)
    BY <1>5, NoMembers DEF Sound, JobIsKnown
  <2>3. worker' = [worker EXCEPT ![g] = w] /\ UNCHANGED <<daemonVars, diskVars, runs>>
    BY <1>0, <1>a, <1>b, <1>7, <1>9 DEF ReadStart, SetWorker, diskVars
  <2>4. QED
    BY <1>2, <2>1, <2>2, <2>3, WorkerSpeaks
<1>10. CASE journal[f.turn] = NoEntry /\ w.job # NoJob /\ f.turn # w.job.turn
  <2>b. PICK v : v = [w EXCEPT !.backlog = <<f>>]
    OBVIOUS
  <2>1. v \in Process /\ v.inbox = w.inbox /\ v.outbox = <<>> /\ v.job = w.job /\ v.backlog = <<f>>
    <3>1. <<f>> \in Seq(Frame)
      BY <1>1
    <3>2. QED
      BY <1>2, <1>5, <2>b, <3>1, ProcessFields DEF Process
  <2>2. Starting(v) = {} /\ ~Active(v)
    BY <1>3, <1>5, <2>1 DEF Starting, Active
  <2>3. OneTurn(v) /\ Starts(v) = {f} /\ Turns(v) = {f.turn} /\ Members(v.backlog) = {f}
    BY <2>1, <2>2, HoldsItBack
  <2>4. Sound(v)
    BY <1>10, <2>1, <2>2, <2>3, NoMembers DEF Sound, JobIsKnown
  <2>5. worker' = [worker EXCEPT ![g] = v] /\ UNCHANGED <<daemonVars, diskVars, runs>>
    <3>1. Append(w.backlog, f) = <<f>>
      BY <1>1, <1>5, FirstOfAll
    <3>2. v = [w EXCEPT !.backlog = Append(@, f)]
      BY <2>b, <3>1
    <3>3. QED
      BY <1>0, <1>a, <1>b, <1>7, <1>10, <3>2 DEF ReadStart, SetWorker, diskVars
  <2>6. Starts(v) \subseteq Starts(worker[g]) /\ Turns(v) \subseteq Turns(worker[g])
    BY <1>3, <1>6, <1>a, <2>3
  <2>7. QED
    BY <2>1, <2>3, <2>4, <2>5, <2>6, WorkerSpeaks
<1>11. CASE journal[f.turn] = NoEntry /\ w.job = NoJob
  <2>1. Spawn(g, w, f)
    BY <1>0, <1>a, <1>b, <1>11 DEF ReadStart
  <2>2. QED
    BY <1>1, <1>2, <1>3, <1>a, <1>5, <1>7, <1>11, <2>1, SpawnKeeps
<1>12. QED
  BY <1>8, <1>9, <1>10, <1>11

LEMMA ReadControlKeeps ==
  ASSUME IInv, NEW g \in Gens, ReadControl(g)
  PROVE  IInv'
<1>a. PICK u : u = worker[g]
  OBVIOUS
<1>b. PICK f : f = Head(u.inbox)
  OBVIOUS
<1>c. PICK w : w = [u EXCEPT !.inbox = Tail(u.inbox)]
  OBVIOUS
<1>0. u \in Process /\ OneTurn(u) /\ Sound(u) /\ u.inbox # <<>> /\ w = Taken(g)
  BY <1>a, <1>b, <1>c DEF IInv, ReadControl, Reading, Taken, TypeOK, WorkersHoldOne, WorkersAreSound, Gens
<1>1. Tail(u.inbox) \in Seq(Frame)
  BY <1>0, ProcessFields, QueueEnds
<1>2. /\ w \in Process /\ w.inbox = Tail(u.inbox) /\ w.outbox = u.outbox
      /\ w.job = u.job /\ w.backlog = u.backlog
  BY <1>0, <1>1, <1>c, ProcessFields DEF Process
<1>d. PICK c : c = Cancelled(w)
  OBVIOUS
<1>3. /\ c \in Process /\ c.inbox = w.inbox /\ c.outbox = w.outbox /\ c.backlog = w.backlog
      /\ c.job.stage = w.job.stage /\ c.job.turn = w.job.turn /\ c.job.status = w.job.status
      /\ c.job.run = w.job.run
  BY <1>2, <1>d, ProcessFields DEF Cancelled, Process, Job
<1>4. \E v \in Process :
        /\ worker' = [worker EXCEPT ![g] = v]
        /\ v.inbox = w.inbox /\ v.outbox = w.outbox /\ v.backlog = w.backlog
        /\ v.job.stage = w.job.stage /\ v.job.turn = w.job.turn /\ v.job.status = w.job.status
        /\ v.job.run = w.job.run
  <2>1. worker' = [worker EXCEPT ![g] = c] \/ worker' = [worker EXCEPT ![g] = w]
          \/ worker' = [worker EXCEPT ![g] = [c EXCEPT !.closing = "shutdown"]]
          \/ worker' = [worker EXCEPT ![g] = [w EXCEPT !.closing = "eof"]]
    BY <1>0, <1>d DEF ReadControl, SetWorker
  <2>2. CASE worker' = [worker EXCEPT ![g] = c]
    BY <1>3, <2>2
  <2>3. CASE worker' = [worker EXCEPT ![g] = w]
    BY <1>2, <2>3
  <2>4. CASE worker' = [worker EXCEPT ![g] = [c EXCEPT !.closing = "shutdown"]]
    <3>1. [c EXCEPT !.closing = "shutdown"] \in Process
      BY <1>3 DEF Process
    <3>2. QED
      BY <1>3, <2>4, <3>1, ProcessFields
  <2>5. CASE worker' = [worker EXCEPT ![g] = [w EXCEPT !.closing = "eof"]]
    <3>1. [w EXCEPT !.closing = "eof"] \in Process
      BY <1>2 DEF Process
    <3>2. QED
      BY <1>2, <2>5, <3>1, ProcessFields
  <2>6. QED
    BY <2>1, <2>2, <2>3, <2>4, <2>5
<1>5. PICK v \in Process :
        /\ worker' = [worker EXCEPT ![g] = v]
        /\ v.inbox = w.inbox /\ v.outbox = w.outbox /\ v.backlog = w.backlog
        /\ v.job.stage = w.job.stage /\ v.job.turn = w.job.turn /\ v.job.status = w.job.status
        /\ v.job.run = w.job.run
  BY <1>4
<1>6. SaysNoMore(u, v)
  BY <1>0, <1>2, <1>5, QuietControl
<1>7. Sound(v)
  BY <1>0, <1>6, QuietIsSound
<1>8. UNCHANGED <<daemonVars, diskVars, runs>>
  BY DEF ReadControl
<1>9. QED
  BY <1>5, <1>6, <1>7, <1>8, <1>a, WorkerSpeaks DEF SaysNoMore

LEMMA ExitKeeps ==
  ASSUME IInv, NEW g \in Gens, Exit(g)
  PROVE  IInv'
<1>a. PICK u : u = worker[g]
  OBVIOUS
<1>1. u \in Process /\ OneTurn(u) /\ Sound(u)
  BY <1>a DEF IInv, TypeOK, WorkersHoldOne, WorkersAreSound, Gens
<1>2. SaysNoMore(u, Gone(u)) /\ SaysNoMore(u, Dead(u))
  BY <1>1, QuietGone
<1>3. PICK v : worker' = [worker EXCEPT ![g] = v] /\ SaysNoMore(u, v)
  BY <1>2, <1>a DEF Exit, SetWorker
<1>4. Sound(v)
  BY <1>1, <1>3, QuietIsSound
<1>5. UNCHANGED <<daemonVars, diskVars, runs>>
  BY DEF Exit
<1>6. QED
  BY <1>3, <1>4, <1>5, <1>a, WorkerSpeaks DEF SaysNoMore

(* A worker whose job moves on keeps everything else.                      *)
LEMMA JobMoves ==
  ASSUME NEW u \in Process, OneTurn(u), Active(u), NEW v \in Process,
         v.inbox = u.inbox, v.outbox = u.outbox, v.backlog = u.backlog,
         v.job.turn = u.job.turn, Active(v)
  PROVE  /\ OneTurn(v) /\ Starts(v) = {} /\ Turns(v) = {u.job.turn} /\ u.job.turn \in Turns(u)
         /\ v.backlog = <<>> /\ v.outbox = <<>>
<1>1. Starting(v) = {} /\ v.backlog = <<>> /\ v.outbox = <<>> /\ u.job.turn \in Turns(u)
  BY HeldOnce DEF Starting
<1>2. QED
  BY <1>1, HoldsAJob

LEMMA HandlerReturnsKeeps ==
  ASSUME IInv, NEW g \in Gens, HandlerReturns(g)
  PROVE  IInv'
<1>a. PICK u : u = worker[g]
  OBVIOUS
<1>1. u \in Process /\ OneTurn(u) /\ Sound(u) /\ u.job.stage = "run" /\ Active(u)
  BY <1>a DEF IInv, TypeOK, WorkersHoldOne, WorkersAreSound, Gens, HandlerReturns, At, Active
<1>2. PICK s \in {"success", "interrupted", "retriable", "final"} :
        worker' = [worker EXCEPT ![g] =
          [u EXCEPT !.job.status = IF s = "success" /\ u.job.cancel THEN "cancelled" ELSE s,
                    !.job.stage = IF s = "interrupted" THEN "issue" ELSE "record"]]
  BY <1>a DEF HandlerReturns, SetWorker
<1>b. PICK status : status = IF s = "success" /\ u.job.cancel THEN "cancelled" ELSE s
  OBVIOUS
<1>c. PICK stage : stage = IF s = "interrupted" THEN "issue" ELSE "record"
  OBVIOUS
<1>3. status \in Status /\ stage \in {"issue", "record"} /\ (status = "interrupted" <=> stage = "issue")
  BY <1>b, <1>c DEF Status
<1>d. PICK v : v = [u EXCEPT !.job.status = status, !.job.stage = stage]
  OBVIOUS
<1>4. /\ v \in Process /\ v.inbox = u.inbox /\ v.outbox = u.outbox /\ v.backlog = u.backlog
      /\ v.job.turn = u.job.turn /\ v.job.run = u.job.run /\ v.job.status = status /\ v.job.stage = stage
  BY <1>1, <1>3, <1>d, ProcessFields DEF Process, Job
<1>5. worker' = [worker EXCEPT ![g] = v]
  BY <1>2, <1>b, <1>c, <1>d
<1>6. Active(v)
  BY <1>3, <1>4 DEF Active
<1>7. /\ OneTurn(v) /\ Starts(v) = {} /\ Turns(v) = {u.job.turn} /\ u.job.turn \in Turns(u)
      /\ v.backlog = <<>> /\ v.outbox = <<>>
  BY <1>1, <1>4, <1>6, JobMoves
<1>8. Sound(v)
  <2>1. JobIsKnown(v)
    BY <1>1, <1>3, <1>4 DEF Sound, JobIsKnown, Status
  <2>2. QED
    BY <1>7, <2>1, NoMembers DEF Sound
<1>9. UNCHANGED <<daemonVars, diskVars, runs>>
  BY DEF HandlerReturns
<1>10. QED
  BY <1>4, <1>5, <1>7, <1>8, <1>9, <1>a, WorkerSpeaks

LEMMA EmitTurnEndKeeps ==
  ASSUME IInv, NEW g \in Gens, EmitTurnEnd(g)
  PROVE  IInv'
<1>a. PICK u : u = worker[g]
  OBVIOUS
<1>1. u \in Process /\ OneTurn(u) /\ Sound(u) /\ u.job.stage = "emit" /\ Active(u)
  BY <1>a DEF IInv, TypeOK, WorkersHoldOne, WorkersAreSound, Gens, EmitTurnEnd, At, Active
<1>b. PICK e : e = EndFrame(u.job.turn, u.job.status, u.job.run)
  OBVIOUS
<1>2. /\ u.job.turn \in Turn /\ u.job.run \in DOMAIN runs
      /\ journal[u.job.turn] = [status |-> u.job.status, run |-> u.job.run]
      /\ u.job.status # "none"
  BY <1>1 DEF Sound, JobIsKnown
<1>3. u.job.status \in Status /\ u.job.run \in Nat \ {0}
  <2>1. u.job \in Job
    BY <1>1, ProcessFields
  <2>2. u.job.status \in Status \cup {"none"}
    BY <2>1 DEF Job
  <2>3. QED
    BY <1>2, <2>2, RunsLogged
<1>4. /\ e \in EndFrames /\ e.turn = u.job.turn /\ e.status = u.job.status /\ e.run = u.job.run
  BY <1>2, <1>3, <1>b, EndFrameIs
<1>c. PICK w : w = Say(u, e)
  OBVIOUS
<1>5. u.outbox = <<>> /\ Starting(u) = {} /\ u.backlog = <<>> /\ u.job.turn \in Turns(u)
  BY <1>1, HeldOnce
<1>6. w \in Process /\ w.outbox = <<e>> /\ w.inbox = u.inbox /\ w.job = u.job /\ w.backlog = <<>>
  BY <1>1, <1>4, <1>5, <1>c, SaidOnce
<1>d. PICK v : v = [w EXCEPT !.job.stage = "release"]
  OBVIOUS
<1>7. /\ v \in Process /\ v.inbox = u.inbox /\ v.outbox = <<e>> /\ v.backlog = <<>> /\ v.job.stage = "release"
  BY <1>6, <1>d, ProcessFields DEF Process, Job
<1>8. Starting(v) = {} /\ ~Active(v)
  BY <1>5, <1>7 DEF Starting, Active
<1>9. worker' = [worker EXCEPT ![g] = v]
  BY <1>a, <1>b, <1>c, <1>d DEF EmitTurnEnd, SetWorker
<1>10. UNCHANGED <<daemonVars, diskVars, runs>>
  BY DEF EmitTurnEnd
<1>11. QED
  BY <1>2, <1>3, <1>4, <1>5, <1>7, <1>8, <1>9, <1>10, <1>a, AnswerKeeps

LEMMA ReleaseTurnKeeps ==
  ASSUME IInv, NEW g \in Gens, ReleaseTurn(g)
  PROVE  IInv'
<1>a. PICK u : u = worker[g]
  OBVIOUS
<1>1. u \in Process /\ OneTurn(u) /\ Sound(u) /\ u.job.stage = "release" /\ ~Active(u)
  <2>1. u \in Process /\ OneTurn(u) /\ Sound(u)
    BY <1>a DEF IInv, TypeOK, WorkersHoldOne, WorkersAreSound, Gens
  <2>2. u.job.stage = "release"
    BY <1>a DEF ReleaseTurn, At
  <2>3. QED
    BY <2>1, <2>2 DEF Active
<1>b. PICK w : w = [u EXCEPT !.job = NoJob, !.backlog = <<>>]
  OBVIOUS
<1>2. /\ w \in Process /\ w.inbox = u.inbox /\ w.outbox = u.outbox /\ w.backlog = <<>> /\ w.job = NoJob
      /\ ~Active(w) /\ Starting(w) = Starting(u)
  <2>1. NoJob \in Job /\ <<>> \in Seq(Frame)
    BY DEF NoJob, Job
  <2>2. /\ w \in Process /\ w.inbox = u.inbox /\ w.outbox = u.outbox /\ w.backlog = <<>> /\ w.job = NoJob
    BY <1>1, <1>b, <2>1, ProcessFields DEF Process
  <2>3. QED
    BY <2>2 DEF Active, NoJob, Starting
<1>3. UNCHANGED <<daemonVars, journal>>
  BY DEF ReleaseTurn
<1>4. CASE u.backlog = <<>>
  <2>1. worker' = [worker EXCEPT ![g] = w] /\ UNCHANGED <<daemonVars, diskVars, runs>>
    BY <1>3, <1>4, <1>a, <1>b DEF ReleaseTurn, SetWorker, diskVars
  <2>2. Starts(w) = Starts(u)
    BY <1>2, <1>4 DEF Starts
  <2>3. Turns(w) = Turns(u)
    BY <1>1, <1>2, <2>2 DEF Turns
  <2>4. OneTurn(w)
    BY <1>1, <1>2, <1>4 DEF OneTurn
  <2>5. SaysNoMore(u, w)
    BY <1>2, <1>4, <2>2, <2>3, <2>4 DEF SaysNoMore
  <2>6. Sound(w)
    BY <1>1, <2>5, QuietIsSound
  <2>7. QED
    BY <1>2, <1>a, <2>1, <2>2, <2>3, <2>4, <2>6, WorkerSpeaks
<1>5. CASE u.backlog # <<>>
  <2>a. PICK f : f = Head(u.backlog)
    OBVIOUS
  <2>1. /\ Starting(w) = {} /\ w.outbox = <<>> /\ f \in Frame /\ f \in Starts(u)
        /\ Members(u.backlog) = {f}
    BY <1>1, <1>2, <1>5, <2>a, HeldOnce
  <2>2. journal[f.turn] = NoEntry
    BY <1>1, <2>1 DEF Sound
  <2>3. CASE w.closing = "shutdown"
    <3>1. /\ SetWorker(g, Say(w, EndFrame(f.turn, "cancelled", 0)))
          /\ UNCHANGED <<daemonVars, diskVars, runs>>
      BY <1>3, <1>5, <1>a, <1>b, <2>a, <2>3 DEF ReleaseTurn, diskVars
    <3>2. QED
      BY <1>2, <1>a, <2>1, <3>1, RefusedKeeps
  <2>4. CASE w.closing # "shutdown"
    <3>1. Spawn(g, w, f)
      BY <1>5, <1>a, <1>b, <2>a, <2>4 DEF ReleaseTurn
    <3>2. QED
      BY <1>2, <1>3, <1>a, <2>1, <2>2, <3>1, SpawnKeeps
  <2>5. QED
    BY <2>3, <2>4
<1>6. QED
  BY <1>4, <1>5

(* The token is issued: fresh, and told to nobody.                         *)
LEMMA IssueTokenKeeps ==
  ASSUME IInv, NEW g \in Gens, IssueToken(g)
  PROVE  IInv'
<1>a. PICK u : u = worker[g]
  OBVIOUS
<1>b. PICK v : v = [u EXCEPT !.job.stage = "record"]
  OBVIOUS
<1>c. PICK r : r = u.job.run
  OBVIOUS
<1>1. u \in Process /\ OneTurn(u) /\ Sound(u) /\ u.job.stage = "issue" /\ Active(u)
  BY <1>a DEF IInv, TypeOK, WorkersHoldOne, WorkersAreSound, Gens, IssueToken, At, Active
<1>2. /\ v \in Process /\ v.inbox = u.inbox /\ v.outbox = u.outbox /\ v.backlog = u.backlog
      /\ v.job.turn = u.job.turn /\ v.job.run = r /\ v.job.status = u.job.status /\ v.job.stage = "record"
  BY <1>1, <1>b, <1>c, ProcessFields DEF Process, Job
<1>3. Active(v)
  BY <1>2 DEF Active
<1>4. /\ OneTurn(v) /\ Starts(v) = {} /\ Turns(v) = {u.job.turn} /\ u.job.turn \in Turns(u)
      /\ v.backlog = <<>> /\ v.outbox = <<>>
  BY <1>1, <1>2, <1>3, JobMoves
<1>5. /\ r \in DOMAIN runs /\ runs[r].turn = u.job.turn /\ u.job.turn \in Turn /\ tokens[r] = "none"
      /\ journal[u.job.turn] = NoEntry /\ u.job.status = "interrupted"
  BY <1>1, <1>c DEF Sound, JobIsKnown
<1>6. /\ worker' = [worker EXCEPT ![g] = v] /\ tokens' = [tokens EXCEPT ![r] = "fresh"]
      /\ UNCHANGED <<daemonVars, journal, runs>>
  BY <1>a, <1>b, <1>c DEF IssueToken, MoveTo, SetWorker
<1>7. /\ tokens' \in Seq({"none", "fresh", "used"}) /\ Len(tokens') = Len(tokens) /\ DOMAIN tokens' = DOMAIN tokens
      /\ \A i \in DOMAIN tokens : tokens'[i] = IF i = r THEN "fresh" ELSE tokens[i]
  <2>1. r \in DOMAIN tokens /\ tokens \in Seq({"none", "fresh", "used"})
    BY <1>5, RunsLogged DEF IInv, TypeOK
  <2>2. QED
    BY <1>6, <2>1, ChangedSeq
<1>8. /\ worker' \in Seq(Process) /\ DOMAIN worker' = Gens
      /\ \A h \in Gens : Len(worker'[h].backlog) <= 1
      /\ TurnsAreNew' /\ OpenMayBeSent' /\ FlightIsOurs' /\ Open' = Open
      /\ WorkersHoldOne' /\ SessionIsFree' /\ FlightIsHeld' /\ TurnsApart' /\ RetriesAreFree'
      /\ StartsAreWhole' /\ TurnsAreKnown' /\ TokensSent' \subseteq TokensSent
  <2>1. Starts(v) \subseteq Starts(worker[g]) /\ Turns(v) \subseteq Turns(worker[g])
    BY <1>4, <1>a
  <2>2. QED
    BY <1>2, <1>4, <1>6, <2>1, WorkerMoves
<1>9. /\ UNCHANGED <<pending, flight, session, store, boot, turnOf, attempts, fate, answer, quit, stops, cancels>>
      /\ UNCHANGED <<journal, runs>> /\ Out' = Out
  BY <1>6 DEF daemonVars, Out
<1>10. TypeOK' /\ LogsAgree'
  BY <1>7, <1>8, <1>9 DEF IInv, TypeOK, Gens, LogsAgree
<1>11. RunsAreWhole' /\ AnswersAreRuns' /\ JournalIsTrue'
  BY <1>9 DEF IInv, RunsAreWhole, AnswersAreRuns, JournalIsTrue
<1>12. WorkersAreSound'
  <2> SUFFICES ASSUME NEW h \in Gens PROVE Sound(worker[h])'
    BY <1>8 DEF WorkersAreSound, Gens
  <2>0. worker'[h] = IF h = g THEN v ELSE worker[h]
    BY <1>2, <1>6, OneProcess DEF IInv, TypeOK
  <2>1. CASE h = g
    <3>1. JobIsKnown(v)'
      BY <1>2, <1>5, <1>7, <1>9, RunsLogged DEF JobIsKnown
    <3>2. QED
      BY <1>4, <2>0, <2>1, <3>1, NoMembers DEF Sound
  <2>2. CASE h # g
    <3>a. PICK x : x = worker[h]
      OBVIOUS
    <3>1. Sound(x)
      BY <3>a DEF IInv, WorkersAreSound
    <3>2. Active(x) => x.job.run # r /\ x.job.run \in DOMAIN tokens
      BY <1>1, <1>a, <1>c, <2>2, <3>1, <3>a, JobsApart, RunsLogged DEF Sound, JobIsKnown
    <3>3. JobIsKnown(x)'
      BY <1>7, <1>9, <3>1, <3>2 DEF Sound, JobIsKnown
    <3>4. QED
      BY <1>9, <2>0, <2>2, <3>1, <3>3, <3>a DEF Sound
  <2>3. QED
    BY <2>1, <2>2
<1>13. GivenAreUsed'
  BY <1>5, <1>7, <1>9 DEF IInv, GivenAreUsed
<1>14. ToldAreOver'
  BY <1>8, <1>9 DEF IInv, ToldAreOver
<1>15. UntoldAreFresh'
  <2> SUFFICES ASSUME NEW m \in Open, journal[turnOf[m]].status = "interrupted"
               PROVE  tokens'[journal[turnOf[m]].run] = "fresh"
    BY <1>8, <1>9 DEF UntoldAreFresh
  <2>1. journal[turnOf[m]].run \in DOMAIN tokens
    BY OpenIsJournaled, RunsLogged
  <2>2. tokens[journal[turnOf[m]].run] = "fresh"
    BY DEF IInv, UntoldAreFresh
  <2>3. QED
    BY <1>7, <2>1, <2>2
<1>16. StoredIsFree'
  <2> SUFFICES ASSUME boot = 1, ~Out, store # 0
               PROVE  store \notin TokensSent' /\ tokens'[store] = "fresh"
    BY <1>9 DEF StoredIsFree
  <2>1. store \notin TokensSent /\ tokens[store] = "fresh" /\ store \in DOMAIN tokens
    BY DEF IInv, StoredIsFree, TypeOK
  <2>2. QED
    BY <1>7, <1>8, <2>1
<1>17. QED
  BY <1>8, <1>10, <1>11, <1>12, <1>13, <1>14, <1>15, <1>16 DEF IInv

(* The result is journaled: the turn had none, and no other worker has it. *)
LEMMA RecordResultKeeps ==
  ASSUME IInv, NEW g \in Gens, RecordResult(g)
  PROVE  IInv'
<1>a. PICK u : u = worker[g]
  OBVIOUS
<1>b. PICK v : v = [u EXCEPT !.job.stage = "emit"]
  OBVIOUS
<1>c. PICK r : r = u.job.run
  OBVIOUS
<1>d. PICK t : t = u.job.turn
  OBVIOUS
<1>e. PICK entry : entry = [status |-> u.job.status, run |-> r]
  OBVIOUS
<1>1. u \in Process /\ OneTurn(u) /\ Sound(u) /\ u.job.stage = "record" /\ Active(u)
  BY <1>a DEF IInv, TypeOK, WorkersHoldOne, WorkersAreSound, Gens, RecordResult, At, Active
<1>2. /\ v \in Process /\ v.inbox = u.inbox /\ v.outbox = u.outbox /\ v.backlog = u.backlog
      /\ v.job.turn = t /\ v.job.run = r /\ v.job.status = u.job.status /\ v.job.stage = "emit"
  BY <1>1, <1>b, <1>c, <1>d, ProcessFields DEF Process, Job
<1>3. Active(v)
  BY <1>2 DEF Active
<1>4. /\ OneTurn(v) /\ Starts(v) = {} /\ Turns(v) = {t} /\ t \in Turns(u)
      /\ v.backlog = <<>> /\ v.outbox = <<>>
  BY <1>1, <1>2, <1>3, <1>d, JobMoves
<1>5. /\ r \in DOMAIN runs /\ runs[r].turn = t /\ t \in Turn /\ journal[t] = NoEntry
      /\ u.job.status \in Status
      /\ u.job.status = "interrupted" => tokens[r] = "fresh"
  <2>1. u.job \in Job
    BY <1>1, ProcessFields
  <2>2. u.job.status \in Status \cup {"none"}
    BY <2>1 DEF Job
  <2>3. QED
    BY <1>1, <1>c, <1>d, <2>2 DEF Sound, JobIsKnown
<1>6. /\ worker' = [worker EXCEPT ![g] = v] /\ journal' = [journal EXCEPT ![t] = entry]
      /\ UNCHANGED <<daemonVars, tokens, runs>>
  BY <1>a, <1>b, <1>c, <1>d, <1>e DEF RecordResult, MoveTo, SetWorker
<1>7. entry \in [status : Status, run : DOMAIN runs] /\ entry.run = r /\ entry.status = u.job.status
  BY <1>5, <1>e
<1>8. /\ journal' \in [Turn -> {NoEntry} \cup [status : Status, run : DOMAIN runs]]
      /\ \A x \in Turn : journal'[x] = IF x = t THEN entry ELSE journal[x]
  BY <1>5, <1>6, <1>7 DEF IInv, TypeOK
<1>9. /\ worker' \in Seq(Process) /\ DOMAIN worker' = Gens
      /\ \A h \in Gens : Len(worker'[h].backlog) <= 1
      /\ TurnsAreNew' /\ OpenMayBeSent' /\ FlightIsOurs' /\ Open' = Open
      /\ WorkersHoldOne' /\ SessionIsFree' /\ FlightIsHeld' /\ TurnsApart' /\ RetriesAreFree'
      /\ StartsAreWhole' /\ TurnsAreKnown' /\ TokensSent' \subseteq TokensSent
  <2>1. Starts(v) \subseteq Starts(worker[g]) /\ Turns(v) \subseteq Turns(worker[g])
    BY <1>4, <1>a
  <2>2. QED
    BY <1>2, <1>4, <1>6, <2>1, WorkerMoves
<1>10. /\ UNCHANGED <<pending, flight, session, store, boot, turnOf, attempts, fate, answer, quit, stops, cancels>>
       /\ UNCHANGED <<tokens, runs>> /\ Out' = Out
  BY <1>6 DEF daemonVars, Out
<1>11. TypeOK'
  BY <1>8, <1>9, <1>10 DEF IInv, TypeOK, Gens
<1>12. LogsAgree' /\ RunsAreWhole' /\ AnswersAreRuns' /\ GivenAreUsed'
  BY <1>10 DEF IInv, LogsAgree, RunsAreWhole, AnswersAreRuns, GivenAreUsed
<1>13. JournalIsTrue'
  BY <1>5, <1>7, <1>8, <1>10 DEF IInv, JournalIsTrue
<1>14. WorkersAreSound'
  <2> SUFFICES ASSUME NEW h \in Gens PROVE Sound(worker[h])'
    BY <1>9 DEF WorkersAreSound, Gens
  <2>0. worker'[h] = IF h = g THEN v ELSE worker[h]
    BY <1>2, <1>6, OneProcess DEF IInv, TypeOK
  <2>1. CASE h = g
    <3>1. JobIsKnown(v)'
      BY <1>2, <1>5, <1>8, <1>10, <1>e DEF JobIsKnown, Status
    <3>2. QED
      BY <1>4, <2>0, <2>1, <3>1, NoMembers DEF Sound
  <2>2. CASE h # g
    <3>a. PICK x : x = worker[h]
      OBVIOUS
    <3>1. Sound(x) /\ x \in Process
      BY <3>a DEF IInv, WorkersAreSound, TypeOK, Gens
    <3>2. /\ Active(x) => x.job.turn # t
          /\ \A f \in Members(x.outbox) \cup Members(x.backlog) : f.turn # t
      BY <1>1, <1>a, <1>d, <2>2, <3>a, JobsApart
    <3>3. \A f \in Members(x.outbox) \cup Members(x.backlog) : f.turn \in Turn
      <4>1. \A f \in Members(x.outbox) : f.turn \in Turn
        <5>1. x.outbox \in Seq(EndFrames)
          BY <3>1, ProcessFields
        <5>2. \A f \in Members(x.outbox) : f \in EndFrames
          BY <5>1 DEF Members
        <5>3. QED
          BY <5>2 DEF EndFrames
      <4>2. \A f \in Members(x.backlog) : f.turn \in Turn
        BY <3>a, StartIsKnown DEF Starts
      <4>3. QED
        BY <4>1, <4>2
    <3>4. JobIsKnown(x)'
      BY <1>8, <1>10, <3>1, <3>2 DEF Sound, JobIsKnown
    <3>5. QED
      BY <1>8, <2>0, <2>2, <3>1, <3>2, <3>3, <3>4, <3>a DEF Sound
  <2>3. QED
    BY <2>1, <2>2
<1>15. ToldAreOver'
  <2> SUFFICES ASSUME NEW k \in (TokensSent \cup {store}) \ {0}
               PROVE  /\ k \in DOMAIN runs /\ journal'[runs[k].turn].run = k
                      /\ \A m \in Open : turnOf[m] # runs[k].turn
    BY <1>9, <1>10 DEF ToldAreOver
  <2>1. k \in DOMAIN runs /\ journal[runs[k].turn].run = k /\ \A m \in Open : turnOf[m] # runs[k].turn
    BY DEF IInv, ToldAreOver
  <2>2. runs[k].turn # t
    BY <1>5, <2>1 DEF NoEntry
  <2>3. runs[k].turn \in Turn
    BY <2>1, RunsLogged DEF Run
  <2>4. QED
    BY <1>8, <2>1, <2>2, <2>3
<1>16. UntoldAreFresh'
  <2> SUFFICES ASSUME NEW m \in Open, journal'[turnOf[m]].status = "interrupted"
               PROVE  tokens[journal'[turnOf[m]].run] = "fresh"
    BY <1>9, <1>10 DEF UntoldAreFresh
  <2>1. turnOf[m] \in Turn
    BY OpenIsJournaled
  <2>2. CASE turnOf[m] = t
    BY <1>5, <1>7, <1>8, <2>2
  <2>3. CASE turnOf[m] # t
    BY <1>8, <2>1, <2>3 DEF IInv, UntoldAreFresh
  <2>4. QED
    BY <2>2, <2>3
<1>17. StoredIsFree'
  BY <1>9, <1>10 DEF IInv, StoredIsFree
<1>18. QED
  BY <1>9, <1>11, <1>12, <1>13, <1>14, <1>15, <1>16, <1>17 DEF IInv

-----------------------------------------------------------------------------
(* A step of the daemon. *)

(* What the bucket holds after messages came back to its front.            *)
LEMMA JoinedMembers ==
  ASSUME NEW S, NEW p \in Seq(S), NEW q \in Seq(S)
  PROVE  p \o q \in Seq(S) /\ Members(p \o q) = Members(p) \cup Members(q)
<1>1. /\ p \o q \in Seq(S) /\ Len(p) \in Nat /\ Len(q) \in Nat
      /\ DOMAIN p = 1..Len(p) /\ DOMAIN q = 1..Len(q) /\ DOMAIN (p \o q) = 1..(Len(p) + Len(q))
      /\ \A i \in 1..(Len(p) + Len(q)) : (p \o q)[i] = IF i <= Len(p) THEN p[i] ELSE q[i - Len(p)]
  OBVIOUS
<1>a. PICK r : r = p \o q
  OBVIOUS
<1>2. /\ DOMAIN r = 1..(Len(p) + Len(q))
      /\ \A i \in 1..(Len(p) + Len(q)) : r[i] = IF i <= Len(p) THEN p[i] ELSE q[i - Len(p)]
  BY <1>1, <1>a
<1>3. \A i \in DOMAIN p : i \in DOMAIN r /\ r[i] = p[i]
  BY <1>1, <1>2
<1>4. \A i \in DOMAIN q : (i + Len(p)) \in DOMAIN r /\ r[i + Len(p)] = q[i]
  <2> TAKE i \in DOMAIN q
  <2>1. i \in 1..Len(q) /\ (i + Len(p)) \in 1..(Len(p) + Len(q)) /\ ~(i + Len(p) <= Len(p)) /\ (i + Len(p)) - Len(p) = i
    BY <1>1
  <2>2. QED
    BY <1>2, <2>1
<1>5. \A i \in DOMAIN r : r[i] \in Members(p) \cup Members(q)
  <2> TAKE i \in DOMAIN r
  <2>1. CASE i <= Len(p)
    BY <1>1, <1>2, <2>1 DEF Members
  <2>2. CASE ~(i <= Len(p))
    <3>1. i - Len(p) \in DOMAIN q
      BY <1>1, <1>2, <2>2
    <3>2. QED
      BY <1>2, <2>2, <3>1 DEF Members
  <2>3. QED
    BY <2>1, <2>2
<1>6. Members(r) = Members(p) \cup Members(q)
  BY <1>3, <1>4, <1>5 DEF Members
<1>7. QED
  BY <1>1, <1>6, <1>a

LEMMA PutBackIs ==
  ASSUME NEW X, flight.items \in Seq(X), pending \in Seq(X), NEW S, PutBack(S)
  PROVE  /\ pending' \in Seq(X)
         /\ Members(pending') = (Members(flight.items) \cap S) \cup Members(pending)
<1>a. PICK kept : kept = {k \in DOMAIN flight.items : flight.items[k] \in S}
  OBVIOUS
<1>0. PICK n \in 0..Len(flight.items) : \E pos \in [1..n -> kept] :
        /\ \A k \in kept : \E j \in 1..n : pos[j] = k
        /\ pending' = [j \in 1..n |-> flight.items[pos[j]]] \o pending
  BY <1>a DEF PutBack
<1>1. PICK pos \in [1..n -> kept] :
        /\ \A k \in kept : \E j \in 1..n : pos[j] = k
        /\ pending' = [j \in 1..n |-> flight.items[pos[j]]] \o pending
  BY <1>0
<1>b. PICK q : q = [j \in 1..n |-> flight.items[pos[j]]]
  OBVIOUS
<1>2. n \in Nat /\ \A k \in kept : k \in DOMAIN flight.items /\ flight.items[k] \in X /\ flight.items[k] \in S
  BY <1>a
<1>3. q \in [1..n -> X] /\ \A j \in 1..n : q[j] = flight.items[pos[j]]
  BY <1>1, <1>2, <1>b
<1>4. q \in Seq(X) /\ DOMAIN q = 1..n
  BY <1>2, <1>3, FunIsSeq
<1>5. Members(q) = Members(flight.items) \cap S
  <2>1. Members(q) \subseteq Members(flight.items) \cap S
    BY <1>1, <1>2, <1>3, <1>4 DEF Members
  <2>2. ASSUME NEW x \in Members(flight.items) \cap S PROVE x \in Members(q)
    <3>1. PICK k \in kept : flight.items[k] = x
      BY <1>a DEF Members
    <3>2. PICK j \in 1..n : pos[j] = k
      BY <1>1
    <3>3. QED
      BY <1>3, <1>4, <3>1, <3>2 DEF Members
  <2>3. QED
    BY <2>1, <2>2
<1>6. pending' = q \o pending
  BY <1>1, <1>b
<1>7. pending' \in Seq(X) /\ Members(pending') = Members(q) \cup Members(pending)
  BY <1>4, <1>6, JoinedMembers
<1>8. QED
  BY <1>5, <1>7

(* The workers after a step of the daemon that starts no turn.             *)
LEMMA WorkersQuiet ==
  ASSUME IInv, worker' \in Seq(Process), DOMAIN worker' = Gens,
         \A h \in Gens : SaysNoMore(worker[h], worker'[h]),
         \A m \in DOMAIN turnOf : m \in DOMAIN turnOf' /\ turnOf'[m] = turnOf[m],
         UNCHANGED <<diskVars, runs>>
  PROVE  /\ \A h \in Gens : Len(worker'[h].backlog) <= 1 /\ Turns(worker'[h]) \subseteq Turns(worker[h])
         /\ WorkersHoldOne' /\ TurnsApart' /\ TurnsAreKnown' /\ StartsAreWhole' /\ WorkersAreSound'
         /\ RunsAreWhole' /\ JournalIsTrue' /\ GivenAreUsed' /\ TokensSent' \subseteq TokensSent
<1>1. UNCHANGED <<journal, tokens, runs>> /\ Gens' = Gens
  BY DEF diskVars, Gens
<1>2. \A h \in Gens : /\ OneTurn(worker'[h]) /\ Starts(worker'[h]) \subseteq Starts(worker[h])
                      /\ Turns(worker'[h]) \subseteq Turns(worker[h])
  BY DEF SaysNoMore
<1>3. \A h \in Gens : Len(worker'[h].backlog) <= 1
  BY <1>2 DEF OneTurn
<1>4. WorkersHoldOne' /\ TurnsApart'
  <2>1. WorkersHoldOne'
    BY <1>1, <1>2 DEF WorkersHoldOne
  <2>2. \A g, h \in Gens : g # h => Turns(worker[g]) \cap Turns(worker[h]) = {}
    BY DEF IInv, TurnsApart
  <2>3. \A g, h \in Gens : g # h => Turns(worker'[g]) \cap Turns(worker'[h]) = {}
    BY <1>2, <2>2
  <2>4. QED
    BY <1>1, <2>1, <2>3 DEF TurnsApart
<1>5. TurnsAreKnown'
  <2>1. Members(turnOf) \subseteq Members(turnOf')
    BY DEF Members
  <2>2. QED
    BY <1>1, <1>2, <2>1 DEF IInv, TurnsAreKnown, Members
<1>6. StartsAreWhole'
  BY <1>1, <1>2 DEF IInv, StartsAreWhole, Members
<1>7. WorkersAreSound'
  <2> SUFFICES ASSUME NEW h \in Gens PROVE Sound(worker[h])'
    BY <1>1 DEF WorkersAreSound
  <2>1. Sound(worker[h]) /\ worker[h] \in Process
    BY DEF IInv, WorkersAreSound, TypeOK, Gens
  <2>2. Sound(worker'[h])
    BY <2>1, QuietIsSound
  <2>3. QED
    BY <1>1, <2>2 DEF Sound, JobIsKnown, Active
<1>8. RunsAreWhole' /\ JournalIsTrue' /\ GivenAreUsed'
  BY <1>1 DEF IInv, RunsAreWhole, JournalIsTrue, GivenAreUsed
<1>9. TokensSent' \subseteq TokensSent
  BY <1>1, <1>2 DEF TokensSent
<1>10. QED
  BY <1>2, <1>3, <1>4, <1>5, <1>6, <1>7, <1>8, <1>9

(* A control frame to one worker.                                          *)
LEMMA OneIsTold ==
  ASSUME IInv, NEW g \in Gens, NEW v, SaysNoMore(worker[g], v), worker' = [worker EXCEPT ![g] = v]
  PROVE  /\ worker' \in Seq(Process) /\ DOMAIN worker' = Gens
         /\ \A h \in Gens : SaysNoMore(worker[h], worker'[h])
         /\ worker'[g] = v
<1>1. v \in Process
  BY DEF SaysNoMore
<1>2. /\ worker' \in Seq(Process) /\ DOMAIN worker' = Gens
      /\ \A h \in Gens : worker[h] \in Process /\ worker'[h] = IF h = g THEN v ELSE worker[h]
  BY <1>1, OneProcess DEF IInv, TypeOK
<1>3. \A h \in Gens : SaysNoMore(worker[h], worker[h])
  BY <1>2, QuietStays DEF IInv, WorkersHoldOne
<1>4. QED
  BY <1>2, <1>3

LEMMA ControlIsQuiet ==
  ASSUME IInv, NEW g \in Gens, NEW f \in Frame, f.type # "start"
  PROVE  SaysNoMore(worker[g], Put(worker[g], f)) /\ Turns(Put(worker[g], f)) = Turns(worker[g])
BY QuietPut DEF IInv, TypeOK, WorkersHoldOne, Gens

LEMMA ControlFrames ==
  /\ \A t \in Turn \cup {NoTurn}, type \in {"cancel", "shutdown", "eof"} :
       ControlFrame(type, t) \in Frame /\ ControlFrame(type, t).type # "start"
BY DEF ControlFrame, Frame

LEMMA FatesAre ==
  ASSUME TypeOK, NEW S, NEW w \in {"open", "delivered", "dead", "void", "lost"}
  PROVE  /\ All(S, w) \in Seq({"open", "delivered", "dead", "void", "lost"})
         /\ Len(All(S, w)) = Len(fate) /\ DOMAIN All(S, w) = DOMAIN fate
<1> DEFINE F == {"open", "delivered", "dead", "void", "lost"}
<1>1. Len(fate) \in Nat /\ DOMAIN fate = 1..Len(fate) /\ \A m \in DOMAIN fate : fate[m] \in F
  BY DEF TypeOK
<1>2. All(S, w) \in [1..Len(fate) -> F]
  BY <1>1 DEF All
<1>3. QED
  BY <1>1, <1>2, FunIsSeq

(* The logs of the messages.                                               *)
LEMMA MessagesLogged ==
  ASSUME IInv
  PROVE  /\ Len(fate) \in Nat /\ DOMAIN fate = 1..Len(fate)
         /\ DOMAIN turnOf = DOMAIN fate /\ DOMAIN attempts = DOMAIN fate /\ DOMAIN answer = DOMAIN fate
         /\ \A m \in DOMAIN fate : turnOf[m] \in Turn /\ attempts[m] \in 0..MaxRetries /\ answer[m] \in Nat
         /\ pending \in Seq(DOMAIN fate) /\ pending \in Seq(Nat)
         /\ flight.items \in Seq(Nat) /\ flight.items \in Seq(DOMAIN fate)
         /\ Open \subseteq DOMAIN fate
<1>1. /\ Len(fate) \in Nat /\ DOMAIN fate = 1..Len(fate)
      /\ DOMAIN turnOf = DOMAIN fate /\ DOMAIN attempts = DOMAIN fate /\ DOMAIN answer = DOMAIN fate
  BY DEF IInv, TypeOK, LogsAgree
<1>2. \A m \in DOMAIN fate : turnOf[m] \in Turn /\ attempts[m] \in 0..MaxRetries /\ answer[m] \in Nat
  <2>1. \A m \in DOMAIN turnOf : turnOf[m] \in Turn
    BY DEF IInv, TypeOK
  <2>2. \A m \in DOMAIN attempts : attempts[m] \in 0..MaxRetries
    <3>1. attempts \in Seq(0..MaxRetries)
      BY DEF IInv, TypeOK
    <3>2. QED
      BY <3>1, SeqElements
  <2>3. \A m \in DOMAIN answer : answer[m] \in Nat
    BY DEF IInv, TypeOK
  <2>4. QED
    BY <1>1, <2>1, <2>2, <2>3
<1>3. pending \in Seq(DOMAIN fate) /\ flight.items \in Seq(Nat)
  BY DEF IInv, TypeOK, FlightType
<1>4. pending \in Seq(Nat)
  BY <1>1, <1>3
<1>5. Members(flight.items) \subseteq DOMAIN fate /\ Members(pending) \subseteq DOMAIN fate
  BY DEF IInv, OpenMayBeSent
<1>6. flight.items \in Seq(DOMAIN fate)
  <2>1. /\ Len(flight.items) \in Nat /\ flight.items \in [1..Len(flight.items) -> Nat]
        /\ DOMAIN flight.items = 1..Len(flight.items)
    BY <1>3
  <2>2. flight.items \in [1..Len(flight.items) -> DOMAIN fate]
    BY <1>5, <2>1 DEF Members
  <2>3. QED
    BY <2>1, <2>2, FunIsSeq
<1>7. QED
  BY <1>1, <1>2, <1>3, <1>4, <1>5, <1>6 DEF Open

(* The turn that is out is that of its first message.                      *)
LEMMA FlightIsKnown ==
  ASSUME IInv, Out
  PROVE  /\ Head(flight.items) \in Members(flight.items) /\ Head(flight.items) \in Open
         /\ Head(flight.items) \in DOMAIN turnOf
         /\ flight.turn = turnOf[Head(flight.items)] /\ flight.turn \in Turn
         /\ flight.gen \in Gens /\ flight.token = store
         /\ session = IF flight.voided THEN 0 ELSE flight.gen
         /\ \A m \in Members(pending) : turnOf[m] # flight.turn
         /\ Turns(worker[flight.gen]) \subseteq {flight.turn}
<1>1. /\ flight.items # <<>> /\ flight.turn = turnOf[Head(flight.items)]
      /\ flight.gen \in Gens /\ flight.token = store
      /\ session = IF flight.voided THEN 0 ELSE flight.gen
  BY DEF IInv, FlightIsOurs
<1>2. Head(flight.items) \in Members(flight.items)
  BY <1>1, MessagesLogged, QueueEnds
<1>3. Head(flight.items) \in Open /\ Head(flight.items) \in DOMAIN turnOf /\ flight.turn \in Turn
  BY <1>1, <1>2, MessagesLogged DEF Open
<1>4. \A m \in Members(pending) : m # Head(flight.items) /\ m \in DOMAIN turnOf
  BY <1>2, MessagesLogged DEF IInv, OpenMayBeSent, Open
<1>5. \A m \in Members(pending) : turnOf[m] # flight.turn
  BY <1>1, <1>3, <1>4 DEF IInv, TurnsAreNew
<1>6. QED
  BY <1>1, <1>2, <1>3, <1>5 DEF IInv, FlightIsHeld

LEMMA CancelTurnKeeps ==
  ASSUME IInv, CancelTurn
  PROVE  IInv'
<1>1. /\ Out /\ worker[flight.gen].up /\ flight' = [flight EXCEPT !.cancelling = TRUE]
      /\ worker' = [worker EXCEPT ![flight.gen] = Put(worker[flight.gen], ControlFrame("cancel", flight.turn))]
      /\ cancels' = cancels + 1 /\ cancels < MaxCancels
      /\ UNCHANGED <<pending, session, store, boot, turnOf, attempts, fate, answer, quit, stops, diskVars, runs>>
  BY DEF CancelTurn
<1>2. flight.gen \in Gens /\ flight.turn \in Turn
  BY <1>1, FlightIsKnown
<1>3. ControlFrame("cancel", flight.turn) \in Frame /\ ControlFrame("cancel", flight.turn).type # "start"
  BY <1>2, ControlFrames
<1>4. /\ worker' \in Seq(Process) /\ DOMAIN worker' = Gens
      /\ \A h \in Gens : SaysNoMore(worker[h], worker'[h])
  BY <1>1, <1>2, <1>3, ControlIsQuiet, OneIsTold
<1>5. /\ \A h \in Gens : Len(worker'[h].backlog) <= 1 /\ Turns(worker'[h]) \subseteq Turns(worker[h])
      /\ WorkersHoldOne' /\ TurnsApart' /\ TurnsAreKnown' /\ StartsAreWhole' /\ WorkersAreSound'
      /\ RunsAreWhole' /\ JournalIsTrue' /\ GivenAreUsed' /\ TokensSent' \subseteq TokensSent
  BY <1>1, <1>4, WorkersQuiet
<1>6. /\ flight' \in FlightType /\ flight'.items = flight.items /\ flight'.turn = flight.turn
      /\ flight'.token = flight.token /\ flight'.gen = flight.gen /\ flight'.voided = flight.voided
      /\ flight' # NoFlight
  <2>1. flight \in FlightType
    BY DEF IInv, TypeOK
  <2>2. flight'.cancelling = TRUE
    BY <1>1, <2>1 DEF FlightType
  <2>3. QED
    BY <1>1, <2>1, <2>2 DEF FlightType, NoFlight
<1>7. Out' /\ Open' = Open /\ Gens' = Gens
  BY <1>1, <1>4, <1>6 DEF Out, Open, Gens
<1>8. TypeOK' /\ LogsAgree'
  <2>1. cancels' \in 0..MaxCancels
    <3>1. cancels \in 0..MaxCancels /\ MaxCancels \in Nat
      BY ConstantsAssumption DEF IInv, TypeOK
    <3>2. QED
      BY <1>1, <3>1
  <2>2. QED
    BY <1>1, <1>4, <1>5, <1>6, <1>7, <2>1 DEF IInv, TypeOK, LogsAgree, diskVars
<1>9. TurnsAreNew' /\ OpenMayBeSent' /\ AnswersAreRuns'
  BY <1>1, <1>6, <1>7 DEF IInv, TurnsAreNew, OpenMayBeSent, AnswersAreRuns
<1>10. FlightIsOurs' /\ SessionIsFree'
  BY <1>1, <1>6, <1>7 DEF IInv, FlightIsOurs, SessionIsFree
<1>11. FlightIsHeld' /\ RetriesAreFree'
  BY <1>1, <1>2, <1>5, <1>6, <1>7 DEF IInv, FlightIsHeld, RetriesAreFree
<1>12. ToldAreOver' /\ UntoldAreFresh' /\ StoredIsFree'
  BY <1>1, <1>5, <1>7 DEF IInv, ToldAreOver, UntoldAreFresh, StoredIsFree, diskVars
<1>13. QED
  BY <1>5, <1>8, <1>9, <1>10, <1>11, <1>12 DEF IInv

LEMMA StopAgentKeeps ==
  ASSUME IInv, StopAgent
  PROVE  IInv'
<1>1. /\ stops < MaxStops /\ stops' = stops + 1 /\ pending' = <<>> /\ fate' = All(Members(pending), "dead")
      /\ flight' = IF Out THEN [flight EXCEPT !.voided = TRUE] ELSE flight
      /\ session' = 0
      /\ UNCHANGED <<store, boot, turnOf, attempts, answer, quit, cancels, diskVars, runs>>
  BY DEF StopAgent
<1>2. flight \in FlightType /\ (Out => flight.turn \in Turn)
  BY FlightIsKnown DEF IInv, TypeOK
<1>3. /\ worker' \in Seq(Process) /\ DOMAIN worker' = Gens
      /\ \A h \in Gens : SaysNoMore(worker[h], worker'[h])
  <2>1. CASE session = 0
    <3>1. worker' = worker
      BY <2>1 DEF StopAgent
    <3>2. \A h \in Gens : SaysNoMore(worker[h], worker[h])
      BY QuietStays DEF IInv, TypeOK, WorkersHoldOne, Gens
    <3>3. QED
      BY <3>1, <3>2 DEF IInv, TypeOK, Gens
  <2>2. CASE session # 0
    <3>a. PICK f : f = IF Out THEN ControlFrame("cancel", flight.turn) ELSE ControlFrame("shutdown", NoTurn)
      OBVIOUS
    <3>1. f \in Frame /\ f.type # "start"
      BY <1>2, <3>a, ControlFrames
    <3>2. worker' = [worker EXCEPT ![session] = Put(worker[session], f)]
      BY <2>2, <3>a DEF StopAgent
    <3>3. session \in Gens
      BY <2>2 DEF IInv, TypeOK
    <3>4. QED
      BY <3>1, <3>2, <3>3, ControlIsQuiet, OneIsTold
  <2>3. QED
    BY <2>1, <2>2
<1>4. /\ \A h \in Gens : Len(worker'[h].backlog) <= 1 /\ Turns(worker'[h]) \subseteq Turns(worker[h])
      /\ WorkersHoldOne' /\ TurnsApart' /\ TurnsAreKnown' /\ StartsAreWhole' /\ WorkersAreSound'
      /\ RunsAreWhole' /\ JournalIsTrue' /\ GivenAreUsed' /\ TokensSent' \subseteq TokensSent
  BY <1>1, <1>3, WorkersQuiet
<1>5. /\ flight' \in FlightType /\ flight'.items = flight.items /\ flight'.turn = flight.turn
      /\ flight'.token = flight.token /\ flight'.gen = flight.gen
      /\ Out' = Out /\ (Out => flight'.voided)
  <2>1. CASE Out
    <3>1. flight' = [flight EXCEPT !.voided = TRUE]
      BY <1>1, <2>1
    <3>2. flight'.voided = TRUE
      BY <1>2, <3>1 DEF FlightType
    <3>3. flight' # NoFlight
      BY <3>2 DEF NoFlight
    <3>4. QED
      BY <1>2, <2>1, <3>1, <3>2, <3>3 DEF FlightType, Out
  <2>2. CASE ~Out
    BY <1>1, <1>2, <2>2 DEF Out
  <2>3. QED
    BY <2>1, <2>2
<1>6. Members(pending') = {} /\ Open' \subseteq Open /\ Gens' = Gens
  BY <1>1, <1>3, <1>5, NoMembers DEF Open, Gens
<1>7. /\ fate' \in Seq({"open", "delivered", "dead", "void", "lost"}) /\ Len(fate') = Len(fate)
      /\ DOMAIN fate' = DOMAIN fate
  BY <1>1, FatesAre DEF IInv
<1>8. TypeOK' /\ LogsAgree'
  <2>1. stops' \in 0..MaxStops
    <3>1. stops \in 0..MaxStops /\ MaxStops \in Nat
      BY ConstantsAssumption DEF IInv, TypeOK
    <3>2. QED
      BY <1>1, <3>1
  <2>2. pending' \in Seq(DOMAIN fate') /\ session' \in Gens' \cup {0}
    BY <1>1
  <2>3. QED
    BY <1>1, <1>3, <1>4, <1>5, <1>6, <1>7, <2>1, <2>2 DEF IInv, TypeOK, LogsAgree, diskVars
<1>9. TurnsAreNew' /\ OpenMayBeSent' /\ AnswersAreRuns'
  BY <1>1, <1>5, <1>6, <1>7 DEF IInv, TurnsAreNew, OpenMayBeSent, AnswersAreRuns, Open
<1>10. FlightIsOurs' /\ SessionIsFree'
  BY <1>1, <1>5, <1>6 DEF IInv, FlightIsOurs, SessionIsFree
<1>11. FlightIsHeld' /\ RetriesAreFree'
  BY <1>1, <1>4, <1>5, <1>6, FlightIsKnown DEF IInv, FlightIsHeld, RetriesAreFree
<1>12. ToldAreOver' /\ UntoldAreFresh' /\ StoredIsFree'
  BY <1>1, <1>4, <1>5, <1>6 DEF IInv, ToldAreOver, UntoldAreFresh, StoredIsFree, diskVars
<1>13. QED
  BY <1>4, <1>8, <1>9, <1>10, <1>11, <1>12 DEF IInv

LEMMA DaemonRestartKeeps ==
  ASSUME IInv, DaemonRestart
  PROVE  IInv'
<1>a. PICK f : f = ControlFrame("eof", NoTurn)
  OBVIOUS
<1>1. /\ boot < MaxBoots /\ boot' = boot + 1 /\ fate' = All(Members(pending) \cup Members(flight.items), "lost")
      /\ pending' = <<>> /\ flight' = NoFlight /\ session' = 0
      /\ worker' = [g \in Gens |-> Put(worker[g], f)]
      /\ UNCHANGED <<store, turnOf, attempts, answer, quit, stops, cancels, diskVars, runs>>
  BY <1>a DEF DaemonRestart
<1>2. f \in Frame /\ f.type # "start"
  BY <1>a, ControlFrames
<1>3. \A h \in Gens : SaysNoMore(worker[h], Put(worker[h], f)) /\ Put(worker[h], f) \in Process
  BY <1>2, ControlIsQuiet DEF SaysNoMore
<1>4. /\ worker' \in Seq(Process) /\ DOMAIN worker' = Gens
      /\ \A h \in Gens : SaysNoMore(worker[h], worker'[h])
  <2>1. Len(worker) \in Nat /\ Gens = 1..Len(worker)
    BY DEF IInv, TypeOK, Gens
  <2>2. worker' \in [1..Len(worker) -> Process]
    BY <1>1, <1>3, <2>1
  <2>3. worker' \in Seq(Process) /\ DOMAIN worker' = Gens
    BY <2>1, <2>2, FunIsSeq
  <2>4. QED
    BY <1>1, <1>3, <2>3
<1>5. /\ \A h \in Gens : Len(worker'[h].backlog) <= 1 /\ Turns(worker'[h]) \subseteq Turns(worker[h])
      /\ WorkersHoldOne' /\ TurnsApart' /\ TurnsAreKnown' /\ StartsAreWhole' /\ WorkersAreSound'
      /\ RunsAreWhole' /\ JournalIsTrue' /\ GivenAreUsed' /\ TokensSent' \subseteq TokensSent
  BY <1>1, <1>4, WorkersQuiet
<1>6. ~Out' /\ flight'.items = <<>> /\ flight' \in FlightType
  BY <1>1 DEF Out, NoFlight, FlightType
<1>7. Members(pending') = {} /\ Members(flight'.items) = {} /\ Open' = {} /\ Gens' = Gens
  BY <1>1, <1>4, <1>6, NoMembers DEF Open, Gens
<1>8. /\ fate' \in Seq({"open", "delivered", "dead", "void", "lost"}) /\ Len(fate') = Len(fate)
      /\ DOMAIN fate' = DOMAIN fate
  BY <1>1, FatesAre DEF IInv
<1>9. TypeOK' /\ LogsAgree'
  <2>1. boot' \in 1..MaxBoots
    BY <1>1, ConstantsAssumption DEF IInv, TypeOK
  <2>2. pending' \in Seq(DOMAIN fate') /\ session' \in Gens' \cup {0}
    BY <1>1
  <2>3. QED
    BY <1>1, <1>4, <1>5, <1>6, <1>7, <1>8, <2>1, <2>2 DEF IInv, TypeOK, LogsAgree, diskVars
<1>10. TurnsAreNew'
  <2>1. boot \in Nat /\ boot' = boot + 1
    BY <1>1 DEF IInv, TypeOK
  <2>2. \A m \in DOMAIN turnOf : turnOf[m][1] \in Nat /\ turnOf[m][1] <= boot
    <3>1. \A m \in DOMAIN turnOf : turnOf[m] \in (1..MaxBoots) \X (1..MaxMsgs)
      BY DEF IInv, TypeOK, Turn
    <3>2. \A m \in DOMAIN turnOf : turnOf[m][1] \in 1..MaxBoots
      BY <3>1
    <3>3. \A m \in DOMAIN turnOf : turnOf[m][1] <= boot
      BY DEF IInv, TurnsAreNew
    <3>4. 1..MaxBoots \subseteq Nat
      BY ConstantsAssumption
    <3>5. QED
      BY <3>2, <3>3, <3>4
  <2>3. \A m \in DOMAIN turnOf : turnOf[m][1] <= boot' /\ turnOf[m][1] # boot'
    BY <2>1, <2>2
  <2>4. QED
    BY <1>1, <2>3 DEF IInv, TurnsAreNew
<1>11. OpenMayBeSent' /\ AnswersAreRuns'
  BY <1>1, <1>6, <1>7, <1>8 DEF IInv, OpenMayBeSent, AnswersAreRuns
<1>12. FlightIsOurs' /\ SessionIsFree' /\ FlightIsHeld' /\ RetriesAreFree'
  BY <1>1, <1>6, <1>7 DEF FlightIsOurs, SessionIsFree, FlightIsHeld, RetriesAreFree
<1>13. ToldAreOver' /\ UntoldAreFresh'
  BY <1>1, <1>5, <1>7 DEF IInv, ToldAreOver, UntoldAreFresh, diskVars
<1>14. StoredIsFree'
  BY <1>1 DEF IInv, StoredIsFree, TypeOK
<1>15. QED
  BY <1>5, <1>9, <1>10, <1>11, <1>12, <1>13, <1>14 DEF IInv

(* The turn ids: those of this incarnation are numbered, and counted.      *)
LEMMA NewTurnIsNew ==
  ASSUME IInv, Len(fate) < MaxMsgs
  PROVE  /\ NewTurn \in Turn /\ NewTurn \notin Members(turnOf) /\ NewTurn[1] = boot
         /\ NewTurn[2] = Cardinality({m \in DOMAIN turnOf : turnOf[m][1] = boot}) + 1
         /\ IsFiniteSet({m \in DOMAIN turnOf : turnOf[m][1] = boot})
         /\ Cardinality({m \in DOMAIN turnOf : turnOf[m][1] = boot}) \in Nat
<1>a. PICK mine : mine = {m \in DOMAIN turnOf : turnOf[m][1] = boot}
  OBVIOUS
<1>1. Len(fate) \in Nat /\ DOMAIN turnOf = 1..Len(fate) /\ MaxMsgs \in Nat
  BY MessagesLogged, ConstantsAssumption
<1>2. IsFiniteSet(1..Len(fate)) /\ Cardinality(1..Len(fate)) = Len(fate)
  <2>1. 1 \in Int /\ Len(fate) \in Int /\ (IF 1 > Len(fate) THEN 0 ELSE Len(fate) - 1 + 1) = Len(fate)
    BY <1>1
  <2>2. QED
    BY <2>1, FS_Interval
<1>3. IsFiniteSet(mine) /\ Cardinality(mine) <= Len(fate)
  BY <1>1, <1>2, <1>a, FS_Subset
<1>4. Cardinality(mine) \in Nat
  BY <1>3, FS_CardinalityType
<1>5. NewTurn = <<boot, Cardinality(mine) + 1>>
  BY <1>a DEF NewTurn
<1>6. Cardinality(mine) + 1 \in 1..MaxMsgs /\ boot \in 1..MaxBoots
  BY <1>1, <1>3, <1>4 DEF IInv, TypeOK
<1>7. NewTurn \in Turn /\ NewTurn[1] = boot /\ NewTurn[2] = Cardinality(mine) + 1
  BY <1>5, <1>6 DEF Turn
<1>8. ASSUME NEW m \in DOMAIN turnOf, turnOf[m] = NewTurn PROVE FALSE
  <2>1. turnOf[m][1] = boot /\ turnOf[m][2] = Cardinality(mine) + 1
    BY <1>7, <1>8
  <2>2. turnOf[m][2] <= Cardinality(mine)
    BY <1>a, <2>1 DEF IInv, TurnsAreNew
  <2>3. QED
    BY <1>4, <2>1, <2>2
<1>9. QED
  BY <1>3, <1>4, <1>7, <1>8, <1>a DEF Members

LEMMA SubmitKeeps ==
  ASSUME IInv, Submit
  PROVE  IInv'
<1>a. PICK n : n = Len(fate)
  OBVIOUS
<1>b. PICK t : t = NewTurn
  OBVIOUS
<1>1. /\ n < MaxMsgs
      /\ pending' = Append(pending, n + 1) /\ turnOf' = Append(turnOf, t)
      /\ attempts' = Append(attempts, 0) /\ fate' = Append(fate, "open") /\ answer' = Append(answer, 0)
      /\ UNCHANGED <<flight, session, store, boot, worker, diskVars, runs, quit, stops, cancels>>
  BY <1>a, <1>b DEF Submit
<1>2. /\ n \in Nat /\ DOMAIN fate = 1..n /\ DOMAIN turnOf = 1..n /\ DOMAIN attempts = 1..n /\ DOMAIN answer = 1..n
      /\ Len(turnOf) = n /\ Len(attempts) = n /\ Len(answer) = n
      /\ pending \in Seq(Nat) /\ Open \subseteq 1..n
  BY <1>a, MessagesLogged DEF IInv, LogsAgree
<1>3. t \in Turn /\ t \notin Members(turnOf)
  BY <1>1, <1>a, <1>b, NewTurnIsNew
<1>4. /\ turnOf' \in Seq(Turn) /\ Len(turnOf') = n + 1 /\ DOMAIN turnOf' = 1..(n + 1)
      /\ turnOf'[n + 1] = t /\ \A m \in 1..n : turnOf'[m] = turnOf[m]
  BY <1>1, <1>2, <1>3, Appended DEF IInv, TypeOK
<1>5. /\ attempts' \in Seq(0..MaxRetries) /\ Len(attempts') = n + 1 /\ DOMAIN attempts' = 1..(n + 1)
      /\ attempts'[n + 1] = 0 /\ \A m \in 1..n : attempts'[m] = attempts[m]
  <2>1. 0 \in 0..MaxRetries
    BY ConstantsAssumption
  <2>2. attempts \in Seq(0..MaxRetries)
    BY DEF IInv, TypeOK
  <2>3. QED
    BY <1>1, <1>2, <2>1, <2>2, Appended
<1>6. /\ fate' \in Seq({"open", "delivered", "dead", "void", "lost"}) /\ Len(fate') = n + 1
      /\ DOMAIN fate' = 1..(n + 1)
  BY <1>1, <1>2, <1>a, Appended DEF IInv, TypeOK
<1>7. /\ answer' \in Seq(Nat) /\ Len(answer') = n + 1 /\ DOMAIN answer' = 1..(n + 1)
      /\ answer'[n + 1] = 0 /\ \A m \in 1..n : answer'[m] = answer[m]
  <2>1. answer \in Seq(Nat) /\ 0 \in Nat
    BY DEF IInv, TypeOK
  <2>2. QED
    BY <1>1, <1>2, <2>1, Appended
<1>8. pending' \in Seq(1..(n + 1)) /\ Members(pending') = Members(pending) \cup {n + 1}
  <2>1. pending \in Seq(1..n)
    BY <1>2, MessagesLogged
  <2>2. pending \in Seq(1..(n + 1)) /\ n + 1 \in 1..(n + 1)
    BY <1>2, <2>1
  <2>a. PICK X : X = 1..(n + 1)
    OBVIOUS
  <2>3. pending \in Seq(X) /\ n + 1 \in X
    BY <2>2, <2>a
  <2>4. pending' \in Seq(X) /\ Members(pending') = Members(pending) \cup {n + 1}
    BY <1>1, <2>3, Appended
  <2>5. QED
    BY <2>4, <2>a
<1>9. Open' = Open \cup {n + 1} /\ Out' = Out /\ Gens' = Gens /\ n + 1 \notin Open /\ n + 1 \notin 1..n
  BY <1>1, <1>2, <1>8 DEF Open, Out, Gens
<1>10. /\ worker' \in Seq(Process) /\ DOMAIN worker' = Gens
       /\ \A h \in Gens : SaysNoMore(worker[h], worker'[h])
       /\ UNCHANGED <<diskVars, runs>>
  <2>1. \A h \in Gens : SaysNoMore(worker[h], worker[h])
    BY QuietStays DEF IInv, TypeOK, WorkersHoldOne, Gens
  <2>2. QED
    BY <1>1, <2>1 DEF IInv, TypeOK, Gens
<1>11. \A m \in DOMAIN turnOf : m \in DOMAIN turnOf' /\ turnOf'[m] = turnOf[m]
  BY <1>2, <1>4
<1>12. /\ \A h \in Gens : Len(worker'[h].backlog) <= 1 /\ Turns(worker'[h]) \subseteq Turns(worker[h])
       /\ WorkersHoldOne' /\ TurnsApart' /\ TurnsAreKnown' /\ StartsAreWhole' /\ WorkersAreSound'
       /\ JournalIsTrue' /\ GivenAreUsed' /\ TokensSent' \subseteq TokensSent
  BY <1>10, <1>11, WorkersQuiet
<1>13. TypeOK' /\ LogsAgree'
  BY <1>1, <1>4, <1>5, <1>6, <1>7, <1>8, <1>9, <1>10, <1>12 DEF IInv, TypeOK, LogsAgree, diskVars
<1>14. TurnsAreNew'
  <2>1. ASSUME NEW l \in 1..(n + 1), NEW m \in 1..(n + 1), turnOf'[l] = turnOf'[m]
        PROVE  l = m
    <3>1. l \in 1..n \/ l = n + 1
      BY <1>2
    <3>2. m \in 1..n \/ m = n + 1
      BY <1>2
    <3>3. \A i \in 1..n : turnOf'[i] # t
      BY <1>2, <1>3, <1>4 DEF Members
    <3>4. l \in 1..n /\ m \in 1..n => l = m
      BY <1>2, <1>4, <2>1 DEF IInv, TurnsAreNew
    <3>5. QED
      BY <1>4, <2>1, <3>1, <3>2, <3>3, <3>4
  <2>a. PICK old : old = {m \in DOMAIN turnOf : turnOf[m][1] = boot}
    OBVIOUS
  <2>b. PICK new : new = {m \in DOMAIN turnOf' : turnOf'[m][1] = boot}
    OBVIOUS
  <2>2. t[1] = boot /\ t[2] = Cardinality(old) + 1 /\ IsFiniteSet(old) /\ Cardinality(old) \in Nat
    BY <1>1, <1>a, <1>b, <2>a, NewTurnIsNew
  <2>3. new = old \cup {n + 1} /\ n + 1 \notin old
    <3>1. \A m \in 1..n : m \in new <=> m \in old
      BY <1>2, <1>4, <2>a, <2>b
    <3>2. n + 1 \in new /\ \A m \in new : m \in 1..n \/ m = n + 1
      BY <1>2, <1>4, <2>2, <2>b
    <3>3. old \subseteq 1..n
      BY <1>2, <2>a
    <3>4. QED
      BY <1>9, <3>1, <3>2, <3>3
  <2>4. Cardinality(new) = Cardinality(old) + 1
    BY <2>2, <2>3, FS_AddElement
  <2>5. ASSUME NEW m \in 1..(n + 1)
        PROVE  turnOf'[m][1] <= boot /\ (turnOf'[m][1] = boot => turnOf'[m][2] <= Cardinality(new))
    <3>1. CASE m = n + 1
      <4>1. boot <= boot
        BY DEF IInv, TypeOK
      <4>2. QED
        BY <1>4, <2>2, <2>4, <3>1, <4>1
    <3>2. CASE m \in 1..n
      <4>1. turnOf'[m] = turnOf[m] /\ m \in DOMAIN turnOf
        BY <1>2, <1>4, <3>2
      <4>2. turnOf[m][1] <= boot /\ (turnOf[m][1] = boot => turnOf[m][2] <= Cardinality(old))
        BY <2>a, <4>1 DEF IInv, TurnsAreNew
      <4>3. turnOf[m][2] \in Nat
        <5>1. turnOf[m] \in (1..MaxBoots) \X (1..MaxMsgs)
          BY <4>1 DEF IInv, TypeOK, Turn
        <5>2. turnOf[m][2] \in 1..MaxMsgs
          BY <5>1
        <5>3. QED
          BY <5>2, ConstantsAssumption
      <4>4. QED
        BY <2>2, <2>4, <4>1, <4>2, <4>3
    <3>3. QED
      BY <1>2, <3>1, <3>2
  <2>6. QED
    BY <1>1, <1>4, <2>1, <2>5, <2>b DEF TurnsAreNew
<1>15. OpenMayBeSent'
  <2>1. Members(flight.items) \subseteq 1..n /\ Members(pending) \subseteq 1..n
    BY <1>2 DEF Open
  <2>2. \A m \in Open' : attempts'[m] < MaxRetries
    <3>1. \A m \in Open : attempts'[m] = attempts[m] /\ attempts[m] < MaxRetries
      BY <1>2, <1>5 DEF IInv, OpenMayBeSent
    <3>2. attempts'[n + 1] < MaxRetries
      BY <1>5, ConstantsAssumption
    <3>3. QED
      BY <1>9, <3>1, <3>2
  <2>3. Members(pending') \cap Members(flight.items) = {}
    BY <1>8, <1>9, <2>1 DEF IInv, OpenMayBeSent
  <2>4. Members(pending') \subseteq 1..(n + 1) /\ Members(flight.items) \subseteq 1..(n + 1)
    BY <1>2, <1>8, <2>1
  <2>5. QED
    BY <1>1, <1>6, <2>2, <2>3, <2>4 DEF OpenMayBeSent
<1>16. FlightIsOurs'
  <2>1. Out => Head(flight.items) \in 1..n
    BY <1>2, FlightIsKnown
  <2>2. QED
    BY <1>1, <1>4, <1>9, <2>1 DEF IInv, FlightIsOurs
<1>17. SessionIsFree' /\ FlightIsHeld'
  BY <1>1, <1>9 DEF IInv, SessionIsFree, FlightIsHeld
<1>18. RetriesAreFree'
  <2> SUFFICES ASSUME NEW m \in Open', NEW g \in Gens, turnOf'[m] \in Turns(worker[g])
               PROVE  Out /\ g = flight.gen
    BY <1>1, <1>9 DEF RetriesAreFree
  <2>1. m # n + 1
    <3>1. t \notin Turns(worker[g])
      BY <1>3 DEF IInv, TurnsAreKnown
    <3>2. QED
      BY <1>4, <3>1
  <2>2. m \in Open /\ turnOf'[m] = turnOf[m]
    BY <1>2, <1>4, <1>9, <2>1
  <2>3. QED
    BY <2>2 DEF IInv, RetriesAreFree
<1>19. RunsAreWhole' /\ AnswersAreRuns'
  <2>1. RunsAreWhole'
    BY <1>1, <1>11 DEF IInv, RunsAreWhole
  <2>2. ASSUME NEW m \in 1..(n + 1), answer'[m] # 0 PROVE answer'[m] \in DOMAIN runs
    <3>1. m \in 1..n
      BY <1>2, <1>7, <2>2
    <3>2. QED
      BY <1>2, <1>7, <2>2, <3>1 DEF IInv, AnswersAreRuns
  <2>3. QED
    BY <1>1, <1>7, <2>1, <2>2 DEF AnswersAreRuns
<1>20. \A r \in DOMAIN runs : runs[r].turn # t
  BY <1>3 DEF IInv, RunsAreWhole, Members
<1>21. ToldAreOver'
  <2> SUFFICES ASSUME NEW k \in (TokensSent \cup {store}) \ {0}
               PROVE  /\ k \in DOMAIN runs /\ journal[runs[k].turn].run = k
                      /\ \A m \in Open' : turnOf'[m] # runs[k].turn
    BY <1>1, <1>12 DEF ToldAreOver, diskVars
  <2>1. k \in DOMAIN runs /\ journal[runs[k].turn].run = k /\ \A m \in Open : turnOf[m] # runs[k].turn
    BY DEF IInv, ToldAreOver
  <2>2. \A m \in Open : turnOf'[m] = turnOf[m]
    BY <1>2, <1>4
  <2>3. QED
    BY <1>4, <1>9, <1>20, <2>1, <2>2
<1>22. UntoldAreFresh'
  <2> SUFFICES ASSUME NEW m \in Open', journal[turnOf'[m]].status = "interrupted"
               PROVE  tokens[journal[turnOf'[m]].run] = "fresh"
    BY <1>1 DEF UntoldAreFresh, diskVars
  <2>1. CASE m = n + 1
    <3>1. turnOf'[m] = t /\ journal[t] # NoEntry
      BY <1>4, <2>1 DEF NoEntry
    <3>2. journal[t].run \in DOMAIN runs /\ runs[journal[t].run].turn = t
      BY <1>3, <3>1 DEF IInv, JournalIsTrue
    <3>3. QED
      BY <1>20, <3>2
  <2>2. CASE m # n + 1
    <3>1. m \in Open /\ turnOf'[m] = turnOf[m]
      BY <1>2, <1>4, <1>9, <2>2
    <3>2. QED
      BY <3>1 DEF IInv, UntoldAreFresh
  <2>3. QED
    BY <2>1, <2>2
<1>23. StoredIsFree'
  BY <1>1, <1>9, <1>12 DEF IInv, StoredIsFree, diskVars
<1>24. QED
  BY <1>12, <1>13, <1>14, <1>15, <1>16, <1>17, <1>18, <1>19, <1>21, <1>22, <1>23 DEF IInv

(* A turn starts: its start frame goes to a worker that holds nothing, and *)
(* no other worker holds the turn.                                         *)
LEMMA DispatchKeeps ==
  ASSUME IInv, Dispatch
  PROVE  IInv'
<1>a. PICK spawned : spawned = IF session = 0 THEN Append(worker, Fresh) ELSE worker
  OBVIOUS
<1>b. PICK g : g = IF session = 0 THEN Len(worker) + 1 ELSE session
  OBVIOUS
<1>c. PICK turn : turn = turnOf[Head(pending)]
  OBVIOUS
<1>d. PICK f : f = StartFrame(turn, store, pending)
  OBVIOUS
<1>e. PICK v : v = Put(spawned[g], f)
  OBVIOUS
<1>f. PICK items : items = pending
  OBVIOUS
<1>1. /\ ~Out /\ pending # <<>>
      /\ flight' = [NoFlight EXCEPT !.items = items, !.turn = turn, !.token = store, !.gen = g]
      /\ worker' = [spawned EXCEPT ![g] = v]
      /\ session' = g /\ pending' = <<>>
      /\ UNCHANGED <<store, boot, turnOf, attempts, fate, answer, quit, stops, cancels, diskVars, runs>>
  <2>1. worker' = [spawned EXCEPT ![g] = Put(spawned[g], f)]
    BY <1>a, <1>b, <1>c, <1>d DEF Dispatch
  <2>2. flight' = [NoFlight EXCEPT !.items = items, !.turn = turn, !.token = store, !.gen = g]
    BY <1>b, <1>c, <1>f DEF Dispatch
  <2>3. QED
    BY <1>b, <1>e, <2>1, <2>2 DEF Dispatch, Out
<1>2. /\ Head(pending) \in Members(pending) /\ Head(pending) \in Open
      /\ Head(pending) \in DOMAIN turnOf /\ turn \in Turn
  <2>1. Head(pending) \in Members(pending) /\ Head(pending) \in DOMAIN fate
    BY <1>1, MessagesLogged, QueueEnds
  <2>2. QED
    BY <1>c, <2>1, MessagesLogged DEF Open
<1>3. f \in Frame /\ f.type = "start" /\ f.turn = turn /\ f.token = store /\ f.msgs = pending
  <2>1. store \in Nat /\ pending \in Seq(Nat)
    <3>1. store \in DOMAIN tokens \cup {0}
      BY DEF IInv, TypeOK
    <3>2. QED
      BY <3>1, RunsLogged, MessagesLogged
  <2>2. QED
    BY <1>2, <1>d, <2>1 DEF StartFrame, Frame
<1>4. /\ spawned \in Seq(Process) /\ g \in DOMAIN spawned /\ Gens \subseteq DOMAIN spawned
      /\ OneTurn(spawned[g]) /\ Turns(spawned[g]) = {}
      /\ \A h \in DOMAIN spawned : h # g => h \in Gens /\ spawned[h] = worker[h]
      /\ g \in Nat \ {0}
  <2>0. worker \in Seq(Process) /\ Gens = 1..Len(worker) /\ Len(worker) \in Nat
    BY DEF IInv, TypeOK, Gens
  <2>1. CASE session = 0
    <3>1. spawned = Append(worker, Fresh) /\ g = Len(worker) + 1
      BY <1>a, <1>b, <2>1
    <3>2. Fresh \in Process /\ OneTurn(Fresh) /\ Turns(Fresh) = {}
      BY FreshHoldsNothing
    <3>3. /\ spawned \in Seq(Process) /\ DOMAIN spawned = 1..(Len(worker) + 1)
          /\ spawned[Len(worker) + 1] = Fresh /\ \A h \in Gens : spawned[h] = worker[h]
      BY <2>0, <3>1, <3>2, Appended
    <3>4. \A h \in 1..(Len(worker) + 1) : h # Len(worker) + 1 => h \in 1..Len(worker)
      BY <2>0
    <3>5. QED
      BY <2>0, <3>1, <3>2, <3>3, <3>4
  <2>2. CASE session # 0
    <3>1. spawned = worker /\ g = session /\ session \in Gens
      BY <1>a, <1>b, <2>2 DEF IInv, TypeOK
    <3>2. OneTurn(worker[session]) /\ Turns(worker[session]) = {}
      BY <1>1, <2>2, <3>1 DEF IInv, WorkersHoldOne, SessionIsFree
    <3>3. QED
      BY <2>0, <3>1, <3>2 DEF Gens
  <2>3. QED
    BY <2>1, <2>2
<1>5. /\ v \in Process /\ OneTurn(v) /\ v.outbox = <<>> /\ v.backlog = <<>> /\ ~Active(v)
      /\ Starts(v) \subseteq {f} /\ Turns(v) \subseteq {turn}
  <2>1. spawned[g] \in Process
    BY <1>4
  <2>2. QED
    BY <1>3, <1>4, <1>e, <2>1, PutStart
<1>6. /\ worker' \in Seq(Process) /\ g \in Gens' /\ worker'[g] = v
      /\ \A h \in Gens' : h # g => h \in Gens /\ worker'[h] = worker[h]
      /\ Gens \subseteq Gens'
  BY <1>1, <1>4, <1>5, ChangedSeq DEF Gens
<1>7. /\ flight' \in FlightType /\ flight'.items = pending /\ flight'.turn = turn /\ flight'.token = store
      /\ flight'.gen = g /\ flight'.voided = FALSE /\ flight' # NoFlight
  <2>1. NoFlight \in FlightType
    BY DEF NoFlight, FlightType
  <2>2. g \in Nat /\ store \in Nat /\ items \in Seq(Nat) /\ items # <<>>
    BY <1>1, <1>3, <1>4, <1>f, MessagesLogged DEF Frame
  <2>3. /\ flight' \in FlightType /\ flight'.items = items /\ flight'.turn = turn /\ flight'.token = store
        /\ flight'.gen = g /\ flight'.voided = NoFlight.voided
    BY <1>1, <1>2, <2>1, <2>2 DEF FlightType
  <2>4. NoFlight.voided = FALSE /\ NoFlight.items = <<>>
    BY DEF NoFlight
  <2>5. QED
    BY <1>f, <2>2, <2>3, <2>4
<1>8. Out' /\ Open' = Open /\ Members(pending') = {} /\ Members(flight'.items) = Members(pending)
  <2>1. Members(flight.items) = {}
    BY <1>1, NoMembers DEF Out, NoFlight
  <2>2. QED
    BY <1>1, <1>7, <2>1, NoMembers DEF Out, Open
<1>9. \A h \in Gens : turn \notin Turns(worker[h])
  BY <1>1, <1>2, <1>c DEF IInv, RetriesAreFree
<1>10. TypeOK'
  <2>1. \A h \in Gens' : Len(worker'[h].backlog) <= 1
    BY <1>5, <1>6 DEF IInv, TypeOK, OneTurn
  <2>2. pending' \in Seq(DOMAIN fate') /\ session' \in Gens' \cup {0}
    BY <1>1, <1>6
  <2>3. QED
    BY <1>1, <1>6, <1>7, <2>1, <2>2 DEF IInv, TypeOK, diskVars
<1>11. LogsAgree' /\ TurnsAreNew' /\ RunsAreWhole' /\ AnswersAreRuns' /\ JournalIsTrue' /\ GivenAreUsed'
  BY <1>1 DEF IInv, LogsAgree, TurnsAreNew, RunsAreWhole, AnswersAreRuns, JournalIsTrue, GivenAreUsed, diskVars
<1>12. OpenMayBeSent'
  BY <1>1, <1>8 DEF IInv, OpenMayBeSent
<1>13. FlightIsOurs'
  BY <1>1, <1>6, <1>7, <1>c DEF FlightIsOurs
<1>14. WorkersHoldOne'
  BY <1>5, <1>6 DEF IInv, WorkersHoldOne
<1>15. SessionIsFree' /\ FlightIsHeld'
  BY <1>5, <1>6, <1>7, <1>8 DEF SessionIsFree, FlightIsHeld
<1>16. TurnsApart'
  <2> SUFFICES ASSUME NEW h \in Gens', NEW i \in Gens', h # i
               PROVE  Turns(worker'[h]) \cap Turns(worker'[i]) = {}
    BY DEF TurnsApart
  <2>1. CASE h = g
    BY <1>5, <1>6, <1>9, <2>1
  <2>2. CASE i = g
    BY <1>5, <1>6, <1>9, <2>2
  <2>3. CASE h # g /\ i # g
    BY <1>6, <2>3 DEF IInv, TurnsApart
  <2>4. QED
    BY <2>1, <2>2, <2>3
<1>17. RetriesAreFree'
  <2> SUFFICES ASSUME NEW m \in Open, NEW h \in Gens', turnOf[m] \in Turns(worker'[h])
               PROVE  h = g
    BY <1>1, <1>7, <1>8 DEF RetriesAreFree
  <2>1. CASE h # g
    BY <1>1, <1>6, <2>1 DEF IInv, RetriesAreFree
  <2>2. QED
    BY <2>1
<1>18. TurnsAreKnown' /\ StartsAreWhole'
  <2>1. turn \in Members(turnOf)
    BY <1>2, <1>c DEF Members
  <2>2. TurnsAreKnown'
    BY <1>1, <1>5, <1>6, <2>1 DEF IInv, TurnsAreKnown
  <2>3. \A e \in Starts(v) : \E m \in Members(e.msgs) : m \in DOMAIN turnOf /\ turnOf[m] = e.turn
    BY <1>2, <1>3, <1>5, <1>c
  <2>4. StartsAreWhole'
    BY <1>1, <1>6, <2>3 DEF IInv, StartsAreWhole
  <2>5. QED
    BY <2>2, <2>4
<1>19. WorkersAreSound'
  <2> SUFFICES ASSUME NEW h \in Gens' PROVE Sound(worker[h])'
    BY DEF WorkersAreSound
  <2>0. UNCHANGED <<journal, tokens, runs>>
    BY <1>1 DEF diskVars
  <2>1. Sound(worker'[h])
    <3>1. CASE h = g
      <4>1. Sound(v)
        BY <1>5, NoMembers DEF Sound, JobIsKnown
      <4>2. QED
        BY <1>6, <3>1, <4>1
    <3>2. CASE h # g
      BY <1>6, <3>2 DEF IInv, WorkersAreSound
    <3>3. QED
      BY <3>1, <3>2
  <2>2. QED
    BY <2>0, <2>1 DEF Sound, JobIsKnown, Active
<1>20. TokensSent' \subseteq TokensSent \cup {store}
  BY <1>3, <1>5, <1>6 DEF TokensSent
<1>21. ToldAreOver' /\ UntoldAreFresh' /\ StoredIsFree'
  BY <1>1, <1>8, <1>20 DEF IInv, ToldAreOver, UntoldAreFresh, StoredIsFree, diskVars
<1>22. QED
  BY <1>10, <1>11, <1>12, <1>13, <1>14, <1>15, <1>16, <1>17, <1>18, <1>19, <1>21 DEF IInv

(* The turn that is out is over: some of its messages come back, the store *)
(* is empty or has the token of this turn's answer.                        *)
LEMMA SettleKeeps ==
  ASSUME IInv, Out, NEW r \in {0} \cup DOMAIN runs, SettledBy(r),
         worker' \in Seq(Process), DOMAIN worker' = Gens,
         \A h \in Gens : SaysNoMore(worker[h], worker'[h]),
         NEW back \in SUBSET Members(flight.items),
         pending' \in Seq(DOMAIN fate), Members(pending') = back \cup Members(pending),
         attempts' \in Seq(0..MaxRetries), Len(attempts') = Len(fate),
         \A m \in Members(pending) : attempts'[m] = attempts[m],
         \A m \in back : attempts'[m] < MaxRetries,
         fate' \in Seq({"open", "delivered", "dead", "void", "lost"}), Len(fate') = Len(fate),
         session' \in {0, flight.gen},
         session' # 0 \/ back # {} => Turns(worker'[flight.gen]) = {},
         store' \in {0} \cup DOMAIN runs,
         store' # 0 => /\ back = {} /\ journal[flight.turn].run = store' /\ runs[store'].turn = flight.turn
                       /\ tokens[store'] = "fresh" /\ store' \notin TokensSent
  PROVE  IInv'
<1>1. /\ flight' = NoFlight /\ quit' = Answered
      /\ answer' = [m \in DOMAIN answer |-> IF m \in Members(flight.items) THEN r ELSE answer[m]]
      /\ UNCHANGED <<boot, turnOf, stops, cancels, diskVars, runs>>
  BY DEF SettledBy
<1>2. UNCHANGED <<journal, tokens, runs>> /\ Gens' = Gens
  BY <1>1 DEF diskVars, Gens
<1>3. /\ \A h \in Gens : Len(worker'[h].backlog) <= 1 /\ Turns(worker'[h]) \subseteq Turns(worker[h])
      /\ WorkersHoldOne' /\ TurnsApart' /\ TurnsAreKnown' /\ StartsAreWhole' /\ WorkersAreSound'
      /\ RunsAreWhole' /\ JournalIsTrue' /\ GivenAreUsed' /\ TokensSent' \subseteq TokensSent
  BY <1>1, WorkersQuiet
<1>4. ~Out' /\ flight'.items = <<>> /\ flight' \in FlightType
  BY <1>1 DEF Out, NoFlight, FlightType
<1>5. Members(flight'.items) = {} /\ Open' = back \cup Members(pending) /\ Open' \subseteq Open
  BY <1>4, NoMembers DEF Open
<1>6. /\ Len(fate) \in Nat /\ DOMAIN fate = 1..Len(fate) /\ DOMAIN answer = 1..Len(fate)
      /\ \A m \in DOMAIN answer : answer[m] \in Nat
  BY MessagesLogged
<1>7. DOMAIN fate' = DOMAIN fate /\ DOMAIN attempts' = DOMAIN fate
  BY <1>6
<1>8. /\ answer' \in Seq(Nat) /\ Len(answer') = Len(fate) /\ DOMAIN answer' = DOMAIN answer
      /\ \A m \in DOMAIN answer' : answer'[m] = r \/ answer'[m] = answer[m]
  <2>1. r \in Nat
    BY RunsLogged
  <2>2. answer' \in [1..Len(fate) -> Nat]
    BY <1>1, <1>6, <2>1
  <2>3. answer' \in Seq(Nat) /\ Len(answer') = Len(fate) /\ DOMAIN answer' = 1..Len(fate)
    BY <1>6, <2>2, FunIsSeq
  <2>4. QED
    BY <1>1, <1>6, <2>3
<1>9. TypeOK'
  <2>1. quit' \subseteq Turn
    BY <1>1, FlightIsKnown DEF IInv, TypeOK, Answered
  <2>2. session' \in Gens' \cup {0}
    BY <1>2, FlightIsKnown
  <2>3. store' \in DOMAIN tokens' \cup {0}
    BY <1>2, RunsLogged
  <2>4. pending' \in Seq(DOMAIN fate')
    BY <1>7
  <2>5. QED
    BY <1>1, <1>2, <1>3, <1>4, <1>8, <2>1, <2>2, <2>3, <2>4 DEF IInv, TypeOK
<1>10. LogsAgree' /\ TurnsAreNew'
  BY <1>1, <1>2, <1>8 DEF IInv, LogsAgree, TurnsAreNew
<1>11. OpenMayBeSent'
  <2>1. \A m \in Open' : attempts'[m] < MaxRetries
    BY <1>5 DEF IInv, OpenMayBeSent, Open
  <2>2. Members(pending') \subseteq DOMAIN fate'
    BY <1>7 DEF IInv, OpenMayBeSent
  <2>3. QED
    BY <1>5, <2>1, <2>2 DEF OpenMayBeSent
<1>12. FlightIsOurs' /\ FlightIsHeld'
  BY <1>4 DEF FlightIsOurs, FlightIsHeld
<1>13. SessionIsFree'
  BY DEF SessionIsFree
<1>14. \A m \in Members(pending) : turnOf[m] # flight.turn
  BY FlightIsKnown
<1>15. RetriesAreFree'
  <2> SUFFICES ASSUME NEW m \in Open', NEW h \in Gens, turnOf[m] \in Turns(worker'[h])
               PROVE  FALSE
    BY <1>1, <1>2 DEF RetriesAreFree
  <2>1. m \in Open /\ turnOf[m] \in Turns(worker[h])
    BY <1>3, <1>5
  <2>2. h = flight.gen
    BY <2>1 DEF IInv, RetriesAreFree
  <2>3. back = {}
    BY <2>2
  <2>4. turnOf[m] = flight.turn
    BY <2>1, <2>2, FlightIsKnown
  <2>5. m \in Members(pending)
    BY <1>5, <2>3
  <2>6. QED
    BY <1>14, <2>4, <2>5
<1>16. AnswersAreRuns'
  BY <1>2, <1>8 DEF IInv, AnswersAreRuns
<1>17. ToldAreOver'
  <2> SUFFICES ASSUME NEW k \in (TokensSent \cup {store'}) \ {0}
               PROVE  /\ k \in DOMAIN runs /\ journal[runs[k].turn].run = k
                      /\ \A m \in Open' : turnOf[m] # runs[k].turn
    BY <1>1, <1>2, <1>3 DEF ToldAreOver
  <2>1. CASE k \in TokensSent
    BY <1>5, <2>1 DEF IInv, ToldAreOver
  <2>2. CASE k = store'
    BY <1>5, <1>14, <2>2
  <2>3. QED
    BY <2>1, <2>2
<1>18. UntoldAreFresh'
  BY <1>1, <1>2, <1>5 DEF IInv, UntoldAreFresh
<1>19. StoredIsFree'
  BY <1>2, <1>3 DEF StoredIsFree
<1>20. QED
  BY <1>3, <1>9, <1>10, <1>11, <1>12, <1>13, <1>15, <1>16, <1>17, <1>18, <1>19 DEF IInv

(* A turn is rejected.                                                     *)
LEMMA RejectKeeps ==
  ASSUME IInv, Out, NEW retriable \in BOOLEAN, TurnRejected(retriable),
         NEW r \in {0} \cup DOMAIN runs, SettledBy(r),
         worker' \in Seq(Process), DOMAIN worker' = Gens,
         \A h \in Gens : SaysNoMore(worker[h], worker'[h]),
         flight.voided \/ ~retriable \/ Turns(worker'[flight.gen]) = {}
  PROVE  IInv'
<1>a. PICK again : again = Retried(retriable)
  OBVIOUS
<1>1. /\ session' = (IF session = flight.gen THEN 0 ELSE session)
      /\ store' = (IF flight.token # 0 THEN 0 ELSE store)
      /\ PutBack(again)
      /\ attempts' = [m \in DOMAIN attempts |-> IF m \in Members(flight.items) THEN attempts[m] + 1 ELSE attempts[m]]
      /\ fate' = All(Members(flight.items) \ again, IF flight.voided THEN "void" ELSE "dead")
  BY <1>a DEF TurnRejected
<1>2. /\ again \subseteq Members(flight.items)
      /\ \A m \in again : ~flight.voided /\ retriable /\ attempts[m] + 1 < MaxRetries
  BY <1>a DEF Retried
<1>3. pending' \in Seq(DOMAIN fate) /\ Members(pending') = again \cup Members(pending)
  <2>1. Members(pending') = (Members(flight.items) \cap again) \cup Members(pending) /\ pending' \in Seq(DOMAIN fate)
    BY <1>1, MessagesLogged, PutBackIs
  <2>2. QED
    BY <1>2, <2>1
<1>4. /\ attempts' \in Seq(0..MaxRetries) /\ Len(attempts') = Len(fate)
      /\ \A m \in Members(pending) : attempts'[m] = attempts[m]
      /\ \A m \in again : attempts'[m] < MaxRetries
  <2>1. /\ Len(fate) \in Nat /\ DOMAIN fate = 1..Len(fate) /\ DOMAIN attempts = 1..Len(fate)
        /\ \A m \in DOMAIN fate : attempts[m] \in 0..MaxRetries
    BY MessagesLogged
  <2>2. \A m \in Members(flight.items) : m \in DOMAIN fate /\ attempts[m] < MaxRetries
    BY DEF IInv, OpenMayBeSent, Open
  <2>3. \A m \in Members(pending) : m \in DOMAIN fate /\ m \notin Members(flight.items)
    BY DEF IInv, OpenMayBeSent
  <2>4. MaxRetries \in Nat
    BY ConstantsAssumption
  <2>5. \A m \in Members(flight.items) : attempts[m] + 1 \in 0..MaxRetries
    BY <2>1, <2>2, <2>4
  <2>6. attempts' \in [1..Len(fate) -> 0..MaxRetries]
    BY <1>1, <2>1, <2>5
  <2>7. attempts' \in Seq(0..MaxRetries) /\ Len(attempts') = Len(fate)
    BY <2>1, <2>6, FunIsSeq
  <2>8. QED
    BY <1>1, <1>2, <2>1, <2>2, <2>3, <2>7
<1>5. /\ fate' \in Seq({"open", "delivered", "dead", "void", "lost"}) /\ Len(fate') = Len(fate)
  <2>1. CASE flight.voided
    <3>1. fate' = All(Members(flight.items) \ again, "void")
      BY <1>1, <2>1
    <3>2. QED
      BY <3>1, FatesAre DEF IInv
  <2>2. CASE ~flight.voided
    <3>1. fate' = All(Members(flight.items) \ again, "dead")
      BY <1>1, <2>2
    <3>2. QED
      BY <3>1, FatesAre DEF IInv
  <2>3. QED
    BY <2>1, <2>2
<1>6. session' = 0 /\ store' = 0
  BY <1>1, FlightIsKnown
<1>7. again # {} => Turns(worker'[flight.gen]) = {}
  BY <1>2
<1>8. QED
  BY <1>2, <1>3, <1>4, <1>5, <1>6, <1>7, SettleKeeps

LEMMA WorkerGoneKeeps ==
  ASSUME IInv, WorkerGone \/ GiveUp
  PROVE  IInv'
<1>1. /\ Out /\ TurnRejected(TRUE) /\ SettledBy(0)
      /\ worker' = [worker EXCEPT ![flight.gen] = Gone(worker[flight.gen])]
  BY DEF WorkerGone, GiveUp
<1>2. flight.gen \in Gens
  BY <1>1, FlightIsKnown
<1>3. SaysNoMore(worker[flight.gen], Gone(worker[flight.gen])) /\ Turns(Gone(worker[flight.gen])) = {}
  BY <1>2, QuietGone DEF IInv, TypeOK, WorkersHoldOne, Gens
<1>4. /\ worker' \in Seq(Process) /\ DOMAIN worker' = Gens
      /\ \A h \in Gens : SaysNoMore(worker[h], worker'[h])
      /\ worker'[flight.gen] = Gone(worker[flight.gen])
  BY <1>1, <1>2, <1>3, OneIsTold
<1>5. Turns(worker'[flight.gen]) = {}
  BY <1>3, <1>4
<1>6. QED
  BY <1>1, <1>4, <1>5, RejectKeeps

LEMMA ForceSettleKeeps ==
  ASSUME IInv, ForceSettle
  PROVE  IInv'
<1>a. PICK f : f = ControlFrame("shutdown", NoTurn)
  OBVIOUS
<1>1. /\ Out /\ flight.voided /\ TurnRejected(FALSE) /\ SettledBy(0)
      /\ worker' = [worker EXCEPT ![flight.gen] = Put(worker[flight.gen], f)]
  BY <1>a DEF ForceSettle
<1>2. flight.gen \in Gens /\ f \in Frame /\ f.type # "start"
  BY <1>1, <1>a, FlightIsKnown, ControlFrames
<1>3. /\ worker' \in Seq(Process) /\ DOMAIN worker' = Gens
      /\ \A h \in Gens : SaysNoMore(worker[h], worker'[h])
  BY <1>1, <1>2, ControlIsQuiet, OneIsTold
<1>4. QED
  BY <1>1, <1>3, RejectKeeps

(* The session's worker has answered.                                      *)
LEMMA ReadTurnEndKeeps ==
  ASSUME IInv, ReadTurnEnd
  PROVE  IInv'
<1>a. PICK u : u = worker[flight.gen]
  OBVIOUS
<1>b. PICK f : f = Head(u.outbox)
  OBVIOUS
<1>c. PICK read : read = [u EXCEPT !.outbox = Tail(u.outbox)]
  OBVIOUS
<1>d. PICK ctl : ctl = ControlFrame("shutdown", NoTurn)
  OBVIOUS
<1>1. /\ Out /\ u.outbox # <<>> /\ f.turn = flight.turn
      /\ IF f.status \in {"retriable", "final"} THEN TurnRejected(f.status = "retriable") ELSE TurnResolved(f)
      /\ worker' = [worker EXCEPT ![flight.gen] =
                      IF f.status \in {"retriable", "final"} \/ flight.voided THEN Put(read, ctl) ELSE read]
      /\ SettledBy(f.run)
  BY <1>a, <1>b, <1>c, <1>d DEF ReadTurnEnd
<1>2. flight.gen \in Gens /\ ctl \in Frame /\ ctl.type # "start"
  BY <1>1, <1>d, FlightIsKnown, ControlFrames
<1>3. u \in Process /\ OneTurn(u) /\ Sound(u)
  BY <1>2, <1>a DEF IInv, TypeOK, WorkersHoldOne, WorkersAreSound, Gens
<1>4. SaysNoMore(u, read) /\ Turns(read) = {} /\ read \in Process /\ OneTurn(read)
  BY <1>1, <1>3, <1>c, QuietRead DEF SaysNoMore
<1>5. SaysNoMore(read, Put(read, ctl)) /\ Turns(Put(read, ctl)) = {}
  BY <1>2, <1>4, QuietPut
<1>6. SaysNoMore(u, Put(read, ctl))
  <2>a. PICK v : v = Put(read, ctl)
    OBVIOUS
  <2>1. SaysNoMore(u, read) /\ SaysNoMore(read, v)
    BY <1>4, <1>5, <2>a
  <2>2. Active(v) => Active(read)
    BY <2>1 DEF SaysNoMore, Active
  <2>3. SaysNoMore(u, v)
    BY <2>1, <2>2 DEF SaysNoMore
  <2>4. QED
    BY <2>3, <2>a
<1>7. PICK v : SaysNoMore(u, v) /\ Turns(v) = {} /\ worker' = [worker EXCEPT ![flight.gen] = v]
  BY <1>1, <1>4, <1>5, <1>6
<1>8. /\ worker' \in Seq(Process) /\ DOMAIN worker' = Gens
      /\ \A h \in Gens : SaysNoMore(worker[h], worker'[h])
      /\ worker'[flight.gen] = v
  BY <1>2, <1>7, <1>a, OneIsTold
<1>9. Turns(worker'[flight.gen]) = {}
  BY <1>7, <1>8
<1>10. f \in EndFrames /\ f \in Members(u.outbox)
  BY <1>1, <1>3, <1>b, ProcessFields, QueueEnds
<1>11. f.status \in Status /\ f.turn \in Turn
  BY <1>10 DEF EndFrames
<1>12. /\ f.run # 0 => journal[f.turn] = [status |-> f.status, run |-> f.run]
       /\ f.status = "interrupted" => f.run # 0
  BY <1>3, <1>10 DEF Sound
<1>13. f.run # 0 => /\ f.run \in DOMAIN runs /\ runs[f.run].turn = f.turn
                    /\ journal[f.turn].run = f.run /\ journal[f.turn].status = f.status
  <2> SUFFICES ASSUME f.run # 0
               PROVE  /\ f.run \in DOMAIN runs /\ runs[f.run].turn = f.turn
                      /\ journal[f.turn].run = f.run /\ journal[f.turn].status = f.status
    OBVIOUS
  <2>1. journal[f.turn].run = f.run /\ journal[f.turn].status = f.status
    BY <1>12
  <2>2. journal[f.turn] # NoEntry
    BY <2>1 DEF NoEntry
  <2>3. QED
    BY <1>11, <2>1, <2>2 DEF IInv, JournalIsTrue
<1>14. f.run \in {0} \cup DOMAIN runs
  BY <1>13
<1>15. CASE f.status \in {"retriable", "final"}
  <2>1. TurnRejected(f.status = "retriable")
    BY <1>1, <1>15
  <2>2. QED
    BY <1>1, <1>8, <1>9, <1>14, <2>1, RejectKeeps
<1>16. CASE f.status \notin {"retriable", "final"}
  <2>1. TurnResolved(f)
    BY <1>1, <1>16
  <2>2. /\ store' = (IF f.status = "interrupted" THEN f.run ELSE IF flight.token # 0 THEN 0 ELSE store)
        /\ fate' = All(Members(flight.items), IF flight.voided THEN "void" ELSE "delivered")
        /\ pending' = pending /\ attempts' = attempts /\ session' = session
    BY <2>1 DEF TurnResolved
  <2>3. /\ fate' \in Seq({"open", "delivered", "dead", "void", "lost"}) /\ Len(fate') = Len(fate)
    <3>1. CASE flight.voided
      <4>1. fate' = All(Members(flight.items), "void")
        BY <2>2, <3>1
      <4>2. QED
        BY <4>1, FatesAre DEF IInv
    <3>2. CASE ~flight.voided
      <4>1. fate' = All(Members(flight.items), "delivered")
        BY <2>2, <3>2
      <4>2. QED
        BY <4>1, FatesAre DEF IInv
    <3>3. QED
      BY <3>1, <3>2
  <2>4. session' \in {0, flight.gen} /\ flight.token = store
    BY <1>1, <2>2, FlightIsKnown
  <2>5. store' # 0 => f.status = "interrupted" /\ store' = f.run
    BY <2>2, <2>4
  <2>6. /\ Head(flight.items) \in Open /\ turnOf[Head(flight.items)] = f.turn
    BY <1>1, FlightIsKnown
  <2>7. store' # 0 =>
          /\ store' \in DOMAIN runs /\ journal[flight.turn].run = store' /\ runs[store'].turn = flight.turn
          /\ tokens[store'] = "fresh" /\ store' \notin TokensSent
    <3> SUFFICES ASSUME store' # 0
                 PROVE  /\ store' \in DOMAIN runs /\ journal[flight.turn].run = store' /\ runs[store'].turn = flight.turn
                        /\ tokens[store'] = "fresh" /\ store' \notin TokensSent
      OBVIOUS
    <3>1. f.status = "interrupted" /\ store' = f.run /\ f.run # 0
      BY <2>5
    <3>2. f.run \in DOMAIN runs /\ runs[f.run].turn = f.turn /\ journal[f.turn].run = f.run
          /\ journal[f.turn].status = "interrupted"
      BY <1>13, <3>1
    <3>3. tokens[f.run] = "fresh"
      BY <2>6, <3>2 DEF IInv, UntoldAreFresh
    <3>4. f.run \notin TokensSent
      BY <2>6, <3>1, <3>2 DEF IInv, ToldAreOver
    <3>5. QED
      BY <1>1, <3>1, <3>2, <3>3, <3>4
  <2>8. attempts' \in Seq(0..MaxRetries) /\ Len(attempts') = Len(fate)
    BY <2>2 DEF IInv, TypeOK, LogsAgree
  <2>9. pending' \in Seq(DOMAIN fate) /\ Members(pending') = {} \cup Members(pending)
    BY <2>2, MessagesLogged
  <2>10. QED
    <3>1. /\ \A m \in Members(pending) : attempts'[m] = attempts[m]
          /\ {} \in SUBSET Members(flight.items)
          /\ session' # 0 \/ {} # {} => Turns(worker'[flight.gen]) = {}
          /\ store' \in {0} \cup DOMAIN runs
      BY <1>9, <2>2, <2>7
    <3>2. QED
      BY <1>1, <1>8, <1>14, <2>3, <2>4, <2>7, <2>8, <2>9, <3>1, SettleKeeps
<1>17. QED
  BY <1>15, <1>16

-----------------------------------------------------------------------------
(* The theorems. *)

LEMMA InitKeeps ==
  ASSUME Init
  PROVE  IInv
<1>1. /\ pending = <<>> /\ flight = NoFlight /\ session = 0 /\ store = 0 /\ boot = 1 /\ worker = <<>>
      /\ journal = [t \in Turn |-> NoEntry] /\ tokens = <<>> /\ turnOf = <<>> /\ attempts = <<>>
      /\ fate = <<>> /\ answer = <<>> /\ runs = <<>> /\ quit = {} /\ stops = 0 /\ cancels = 0
  BY DEF Init
<1>2. ~Out /\ Gens = {} /\ DOMAIN runs = {} /\ DOMAIN turnOf = {} /\ DOMAIN answer = {}
  BY <1>1 DEF Out, Gens
<1>3. Members(pending) = {} /\ Members(flight.items) = {} /\ Open = {}
  BY <1>1, NoMembers DEF NoFlight, Open
<1>4. TypeOK
  <2>1. flight \in FlightType
    BY <1>1 DEF NoFlight, FlightType
  <2>2. boot \in 1..MaxBoots /\ stops \in 0..MaxStops /\ cancels \in 0..MaxCancels
    BY <1>1, ConstantsAssumption
  <2>3. journal \in [Turn -> {NoEntry} \cup [status : Status, run : DOMAIN runs]]
    BY <1>1
  <2>4. \A S : <<>> \in Seq(S)
    OBVIOUS
  <2>5. QED
    BY <1>1, <1>2, <2>1, <2>2, <2>3, <2>4 DEF TypeOK
<1>5. LogsAgree /\ TurnsAreNew /\ OpenMayBeSent /\ FlightIsOurs
  BY <1>1, <1>2, <1>3 DEF LogsAgree, TurnsAreNew, OpenMayBeSent, FlightIsOurs
<1>6. WorkersHoldOne /\ SessionIsFree /\ FlightIsHeld /\ TurnsApart /\ RetriesAreFree
  BY <1>1, <1>2, <1>3 DEF WorkersHoldOne, SessionIsFree, FlightIsHeld, TurnsApart, RetriesAreFree
<1>7. TurnsAreKnown /\ StartsAreWhole /\ RunsAreWhole /\ AnswersAreRuns /\ WorkersAreSound
  BY <1>2 DEF TurnsAreKnown, StartsAreWhole, RunsAreWhole, AnswersAreRuns, WorkersAreSound
<1>8. JournalIsTrue /\ GivenAreUsed
  BY <1>1, <1>2 DEF JournalIsTrue, GivenAreUsed
<1>9. TokensSent = {}
  BY <1>2 DEF TokensSent
<1>10. ToldAreOver /\ UntoldAreFresh /\ StoredIsFree
  BY <1>1, <1>3, <1>9 DEF ToldAreOver, UntoldAreFresh, StoredIsFree
<1>11. QED
  BY <1>4, <1>5, <1>6, <1>7, <1>8, <1>10 DEF IInv

LEMMA StutterKeeps ==
  ASSUME IInv, UNCHANGED vars
  PROVE  IInv'
<1>1. /\ UNCHANGED <<pending, flight, session, store, boot, turnOf, attempts, fate, answer, quit, stops, cancels>>
      /\ UNCHANGED <<journal, tokens, worker, runs>> /\ Out' = Out /\ Gens' = Gens
  BY DEF vars, daemonVars, diskVars, Out, Gens
<1>2. Open' = Open /\ TokensSent' = TokensSent
  BY <1>1 DEF Open, TokensSent
<1>3. TypeOK' /\ LogsAgree' /\ TurnsAreNew' /\ OpenMayBeSent' /\ FlightIsOurs'
  BY <1>1, <1>2 DEF IInv, TypeOK, LogsAgree, TurnsAreNew, OpenMayBeSent, FlightIsOurs
<1>4. WorkersHoldOne' /\ SessionIsFree' /\ FlightIsHeld' /\ TurnsApart' /\ RetriesAreFree'
  BY <1>1, <1>2 DEF IInv, WorkersHoldOne, SessionIsFree, FlightIsHeld, TurnsApart, RetriesAreFree
<1>5. TurnsAreKnown' /\ StartsAreWhole' /\ RunsAreWhole' /\ AnswersAreRuns'
  BY <1>1 DEF IInv, TurnsAreKnown, StartsAreWhole, RunsAreWhole, AnswersAreRuns
<1>6. WorkersAreSound'
  BY <1>1 DEF IInv, WorkersAreSound, Sound, JobIsKnown, Active
<1>7. JournalIsTrue' /\ GivenAreUsed' /\ ToldAreOver' /\ UntoldAreFresh' /\ StoredIsFree'
  BY <1>1, <1>2 DEF IInv, JournalIsTrue, GivenAreUsed, ToldAreOver, UntoldAreFresh, StoredIsFree
<1>8. QED
  BY <1>3, <1>4, <1>5, <1>6, <1>7 DEF IInv

LEMMA NextKeeps ==
  ASSUME IInv, [Next]_vars
  PROVE  IInv'
<1>1. CASE Daemon
  BY <1>1, SubmitKeeps, DispatchKeeps, ReadTurnEndKeeps, WorkerGoneKeeps, CancelTurnKeeps, StopAgentKeeps,
     ForceSettleKeeps, DaemonRestartKeeps DEF Daemon
<1>2. CASE \E g \in Gens : Worker(g)
  <2>1. PICK g \in Gens : Worker(g)
    BY <1>2
  <2>2. QED
    BY <2>1, ReadStartKeeps, ReadControlKeeps, HandlerReturnsKeeps, IssueTokenKeeps, RecordResultKeeps,
       EmitTurnEndKeeps, ReleaseTurnKeeps, ExitKeeps DEF Worker
<1>3. CASE UNCHANGED vars
  BY <1>3, StutterKeeps
<1>4. QED
  BY <1>1, <1>2, <1>3 DEF Next

(* The inductive invariant holds, whatever process dies when.              *)
THEOREM InvariantHolds == Spec => []IInv
<1>1. Init => IInv
  BY InitKeeps
<1>2. IInv /\ [Next]_vars => IInv'
  BY NextKeeps
<1>3. QED
  BY <1>1, <1>2, PTL DEF Spec

(* Every variable has its type; in particular a worker never holds back    *)
(* more than one turn (runtime.py keeps a dict of them per conversation),  *)
(* and no message is delivered more often than maxRetries.                 *)
THEOREM TypesAreKept == Spec => []TypeOK
<1>1. IInv => TypeOK
  BY DEF IInv
<1>2. QED
  BY <1>1, InvariantHolds, PTL

(* Write-ahead and live tokens: an answer on the wire that names a run is  *)
(* in the journal (idempotency.py), and until the daemon dies the token in *)
(* its interrupt store is one the worker will take.                        *)
THEOREM TheDiskKeepsUp == Spec => []DiskKeepsUp
<1>1. IInv => DiskKeepsUp
  <2> SUFFICES ASSUME IInv PROVE DiskKeepsUp
    OBVIOUS
  <2>1. JournalFirst
    BY DEF IInv, WorkersAreSound, Sound, JournalFirst
  <2>2. StoredTokenLives
    BY DEF IInv, StoredIsFree, TypeOK, StoredTokenLives, Spendable
  <2>3. QED
    BY <2>1, <2>2 DEF DiskKeepsUp
<1>2. QED
  BY <1>1, InvariantHolds, PTL

(* The session reads answers to the turn it waits for and to no other, so  *)
(* persistent-jsonl-worker.ts never takes a worker that behaves for one    *)
(* that breaks the protocol.                                               *)
THEOREM NoFrameIsStray == Spec => []NoStrayFrame
<1>1. IInv => NoStrayFrame
  <2> SUFFICES ASSUME IInv PROVE NoStrayFrame
    OBVIOUS
  <2>1. ASSUME Out, NEW f \in Members(worker[flight.gen].outbox) PROVE f.turn = flight.turn
    <3>1. f.turn \in Turns(worker[flight.gen])
      BY DEF Turns
    <3>2. QED
      BY <2>1, <3>1 DEF IInv, FlightIsHeld
  <2>2. ASSUME ~Out, session # 0 PROVE worker[session].outbox = <<>>
    <3>1. Turns(worker[session]) = {} /\ worker[session] \in Process
      BY <2>2 DEF IInv, SessionIsFree, TypeOK, Gens
    <3>2. Members(worker[session].outbox) = {}
      BY <3>1 DEF Turns
    <3>3. worker[session].outbox \in Seq(EndFrames)
      BY <3>1, ProcessFields
    <3>4. QED
      BY <3>2, <3>3, QueueEnds
  <2>3. QED
    BY <2>1, <2>2 DEF NoStrayFrame
<1>2. QED
  BY <1>1, InvariantHolds, PTL

(* No run answers a message it never saw under that message's own turn id, *)
(* and no resume token starts a second run.                                *)
THEOREM NoRunIsUsedTwice == Spec => []RunsAreUsedOnce
<1>1. IInv => RunsAreUsedOnce
  <2> SUFFICES ASSUME IInv PROVE RunsAreUsedOnce
    OBVIOUS
  <2>1. ASSUME NEW m \in DOMAIN answer, answer[m] # 0, runs[answer[m]].turn = turnOf[m]
        PROVE  m \in runs[answer[m]].msgs
    <3>1. answer[m] \in DOMAIN runs
      BY <2>1 DEF IInv, AnswersAreRuns
    <3>2. PICK l \in runs[answer[m]].msgs : l \in DOMAIN turnOf /\ turnOf[l] = runs[answer[m]].turn
      BY <3>1 DEF IInv, RunsAreWhole
    <3>3. m \in DOMAIN turnOf
      BY MessagesLogged
    <3>4. l = m
      BY <2>1, <3>2, <3>3 DEF IInv, TurnsAreNew
    <3>5. QED
      BY <3>2, <3>4
  <2>2. TokenSpentOnce
    BY DEF IInv, GivenAreUsed, TokenSpentOnce
  <2>3. QED
    BY <2>1, <2>2 DEF RunsAreUsedOnce, OwnAnswer
<1>2. QED
  BY <1>1, InvariantHolds, PTL

(* What a start of a turn adds to the runs.                                *)
LEMMA SpawnAdds ==
  ASSUME IInv, NEW g, NEW w, NEW f, Spawn(g, w, f), journal[f.turn] = NoEntry
  PROVE  \A r \in DOMAIN runs' \ DOMAIN runs : journal[runs'[r].turn] = NoEntry
<1>1. CASE runs' = runs
  BY <1>1
<1>2. CASE runs' = Append(runs, [turn |-> f.turn, gen |-> g, token |-> f.token, msgs |-> Members(f.msgs)])
  <2>a. PICK R : R = [turn |-> f.turn, gen |-> g, token |-> f.token, msgs |-> Members(f.msgs)]
    OBVIOUS
  <2>1. R.turn = f.turn
    BY <2>a
  <2>2. runs \in Seq(Run \cup {R}) /\ R \in Run \cup {R}
    BY DEF IInv, TypeOK
  <2>3. /\ DOMAIN runs' = 1..(Len(runs) + 1) /\ runs'[Len(runs) + 1] = R
        /\ DOMAIN runs = 1..Len(runs) /\ Len(runs) \in Nat
    BY <1>2, <2>2, <2>a, Appended
  <2>4. \A r \in DOMAIN runs' \ DOMAIN runs : r = Len(runs) + 1
    BY <2>3
  <2>5. QED
    BY <2>1, <2>3, <2>4
<1>3. QED
  BY <1>1, <1>2 DEF Spawn

(* A turn whose result is journaled is never run again: not by the worker  *)
(* that ran it, nor by one that replaced it.                               *)
THEOREM FinishedTurnsStay == Spec => FinishedTurnsRest
<1>1. IInv /\ [Next]_vars => [\A r \in DOMAIN runs' \ DOMAIN runs : journal[runs'[r].turn] = NoEntry]_vars
  <2> SUFFICES ASSUME IInv, Next
               PROVE  \A r \in DOMAIN runs' \ DOMAIN runs : journal[runs'[r].turn] = NoEntry
    OBVIOUS
  <2>1. CASE runs' = runs
    BY <2>1
  <2>2. CASE \E g \in Gens : ReadStart(g)
    <3>1. PICK g \in Gens : ReadStart(g)
      BY <2>2
    <3>2. CASE journal[Head(worker[g].inbox).turn] = NoEntry /\ Taken(g).job = NoJob
      <4>1. Spawn(g, Taken(g), Head(worker[g].inbox))
        BY <3>1, <3>2 DEF ReadStart
      <4>2. QED
        BY <3>2, <4>1, SpawnAdds
    <3>3. CASE ~(journal[Head(worker[g].inbox).turn] = NoEntry /\ Taken(g).job = NoJob)
      <4>1. runs' = runs
        BY <3>1, <3>3 DEF ReadStart
      <4>2. QED
        BY <4>1
    <3>4. QED
      BY <3>2, <3>3
  <2>3. CASE \E g \in Gens : ReleaseTurn(g)
    <3>1. PICK g \in Gens : ReleaseTurn(g)
      BY <2>3
    <3>2. CASE runs' = runs
      BY <3>2
    <3>3. CASE runs' # runs
      <4>1. /\ worker[g].backlog # <<>>
            /\ Spawn(g, [worker[g] EXCEPT !.job = NoJob, !.backlog = <<>>], Head(worker[g].backlog))
        BY <3>1, <3>3 DEF ReleaseTurn
      <4>2. worker[g] \in Process /\ OneTurn(worker[g]) /\ Sound(worker[g])
        BY DEF IInv, TypeOK, WorkersHoldOne, WorkersAreSound, Gens
      <4>3. journal[Head(worker[g].backlog).turn] = NoEntry
        BY <4>1, <4>2, HeldOnce DEF Sound
      <4>4. QED
        BY <4>1, <4>3, SpawnAdds
    <3>4. QED
      BY <3>2, <3>3
  <2>4. Next => runs' = runs \/ (\E g \in Gens : ReadStart(g)) \/ (\E g \in Gens : ReleaseTurn(g))
    BY DEF Next, Daemon, Worker, Submit, Dispatch, ReadTurnEnd, WorkerGone, GiveUp, CancelTurn, StopAgent,
       ForceSettle, DaemonRestart, SettledBy, ReadControl, HandlerReturns, IssueToken, RecordResult,
       EmitTurnEnd, Exit
  <2>5. QED
    BY <2>1, <2>2, <2>3, <2>4
<1>2. QED
  BY <1>1, InvariantHolds, PTL DEF Spec, FinishedTurnsRest
=============================================================================
