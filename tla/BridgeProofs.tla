----------------------------- MODULE BridgeProofs -----------------------------
(* Proofs about the bridge agents: the messages that wake them, the prompts that wait for *)
(* their owner, the graph threads their turns leave behind, and the four sides together.   *)
EXTENDS MCBridge, BridgeTurnProofs, FiniteSetTheorems, SequenceTheorems, TLAPS

-----------------------------------------------------------------------------
(* The message that wakes agents: the inductive invariant                     *)

Stage == {"none", "arrived", "stored", "answered", "decided", "failed", "lost"}

SendRecord == [stage : Stage, at : Instance \cup {NoInstance}, wake : SUBSET Wakee,
               triage : SUBSET Wakee, reach : SUBSET Computer]

WakeShape ==
  /\ WakeTypeOK
  /\ channel \in [kind : {"public", "private", "dm"}, triage : BOOLEAN]
  /\ owner \in [Wakee \cup Computer -> Owner]
  /\ post \in [author : {"human", "agent"}, text : SUBSET Wakee]
  /\ sends \in [WakeCall -> SendRecord]
  /\ wakes \in [Computer \X Wakee -> [called : Nat, triage : Nat]]
  /\ rejoined \subseteq Computer /\ entitled \subseteq Wakee
  /\ mishaps \in Nat /\ shifts \in Nat

\* What a channel is: mail has the one agent it is for, and nobody triages it.
ChannelFits ==
  channel.kind = "dm" => ~channel.triage /\ \E a \in Wakee : seated = {a}

\* One call stores the message, and only that one is sent on; a computer wakes agents of its
\* own user.
OneIsSent ==
  /\ row # 0 => sends[row].stage \in {"stored", "decided", "failed", "lost"}
  /\ \A c \in WakeCall : c # row =>
       sends[c].stage \in {"none", "arrived", "answered", "lost"} /\ sends[c].triage = {}
  /\ \A c \in resolving : c = row /\ sends[c].stage = "decided"
  /\ \A m \in wire : m[2] = row
  /\ \A k \in Computer \X WakeCall : frames[k] > 0 => k[2] = row
  /\ \A k \in known : owner[k[1]] = owner[k[2]]

Awake(d, a) == wakes[<<d, a>>].called > 0 \/ wakes[<<d, a>>].triage > 0
Asleep(d) == \A a \in Wakee : ~Awake(d, a)

\* Before the members are known nothing is handed out and nobody is awake.
NothingIsEarly ==
  row = 0 \/ sends[row].stage = "stored" \/ row \in resolving =>
    /\ wire = {} /\ \A k \in Computer \X WakeCall : frames[k] = 0
    /\ \A d \in Computer : Asleep(d)

\* Who the message may wake, and who was woken.
ReadersFit ==
  /\ \A d \in Computer, a \in Wakee : Awake(d, a) =>
       post.author = "human" /\ owner[a] = owner[d] /\ row # 0
  /\ row # 0 =>
       /\ sends[row].wake \cup sends[row].triage \subseteq entitled
       /\ sends[row].triage \subseteq {Manager}
       /\ sends[row].triage # {} => sends[row].wake = {}
       /\ channel.kind = "dm" => sends[row].triage = {} /\ sends[row].wake \subseteq seated
       /\ sends[row].stage = "stored" => sends[row].triage = {}
       /\ \A d \in Computer, a \in Wakee :
            /\ wakes[<<d, a>>].called > 0 => a \in sends[row].wake
            /\ wakes[<<d, a>>].triage > 0 => a \in sends[row].triage

\* A copy of the message is published for the instance of d, which is not the sender's.
Comes(d) == attached[d] # sends[row].at /\ <<attached[d], row>> \in wire

\* A computer that kept its connection gets the message once.
HandedOnce(d) ==
  row # 0 =>
    /\ frames[<<d, row>>] \in {0, 1}
    /\ frames[<<d, row>>] = 1 \/ Comes(d) => Asleep(d)
    /\ Comes(d) => frames[<<d, row>>] = 0
    /\ \A a \in Wakee : wakes[<<d, a>>].called + wakes[<<d, a>>].triage <= 1
    /\ \A a, b \in Wakee : wakes[<<d, a>>].called > 0 /\ wakes[<<d, b>>].called > 0 => a = b

\* The agents the message is for, when nothing has moved since it was stored.
Asked == seated \cap serving \cap (IF channel.kind = "dm" THEN Wakee ELSE post.text)

\* A computer has done what it has to do with the message.
HasWoken(d) ==
  /\ sends[row].wake \cap Here(d) # {} => \E a \in Wakee : wakes[<<d, a>>].called > 0
  /\ sends[row].wake = {} =>
       \A a \in sends[row].triage \cap Here(d) : wakes[<<d, a>>].triage > 0

CalmRoster ==
  /\ known = {k \in serving \X Computer : owner[k[1]] = owner[k[2]]}
  /\ attached \in [Computer -> Instance]

CalmReaders ==
  /\ sends[row].stage \in {"stored", "decided"}
  /\ post.author = "human" /\ sends[row].stage = "stored" /\ channel.kind # "dm"
       => sends[row].wake = Asked
  /\ post.author = "human" /\ sends[row].stage = "decided" =>
       /\ sends[row].wake = Asked
       /\ sends[row].triage = IF channel.triage /\ Asked = {}
                              THEN seated \cap serving \cap {Manager} ELSE {}

CalmHanded ==
  post.author = "human" /\ sends[row].stage = "decided" /\ row \notin resolving =>
    /\ sends[row].reach = Reach
    /\ \A d \in Reach : frames[<<d, row>>] > 0 \/ Comes(d) \/ HasWoken(d)

\* While nothing fails and nobody moves, the readers are those asked, and each computer they
\* live on has the message, has done with it, or will be handed it.
CalmFits ==
  mishaps = 0 /\ shifts = 0 => CalmRoster /\ (row # 0 => CalmReaders /\ CalmHanded)

WakeInv ==
  /\ WakeShape /\ ChannelFits /\ OneIsSent /\ NothingIsEarly /\ ReadersFit
  /\ (\A d \in Computer \ rejoined : HandedOnce(d)) /\ CalmFits

LEMMA WakeNames == 0 \notin WakeCall /\ NoInstance \notin Instance /\ Manager \in Wakee
  BY WakeAssumption DEF WakeCall

\* The counts of frames and of starts are numbers.
LEMMA WakeCounts ==
  ASSUME WakeShape
  PROVE  /\ \A d \in Computer, a \in Wakee : wakes[<<d, a>>].called \in Nat
                                             /\ wakes[<<d, a>>].triage \in Nat
         /\ \A d \in Computer, c \in WakeCall : frames[<<d, c>>] \in Nat
         /\ row # 0 => row \in WakeCall
<1>1. \A d \in Computer, a \in Wakee : wakes[<<d, a>>] \in [called : Nat, triage : Nat]
  BY DEF WakeShape
<1>2. \A d \in Computer, c \in WakeCall : <<d, c>> \in Computer \X WakeCall
  OBVIOUS
<1> QED
  BY <1>1, <1>2, WakeAssumption DEF WakeShape, WakeTypeOK, WakeCall

LEMMA ZeroIsNotMore ==
  ASSUME NEW x PROVE x = 0 => ~(x > 0)
OBVIOUS

\* Frames are counted for a computer and a call.
LEMMA FramesFit ==
  ASSUME NEW F, NEW r, \A d \in Computer, b \in WakeCall : F[<<d, b>>] > 0 => b = r
  PROVE  \A k \in Computer \X WakeCall : F[k] > 0 => k[2] = r
OBVIOUS

\* Who is not awake was not started.
LEMMA AsleepIsZero ==
  ASSUME WakeShape, NEW d \in Computer, Asleep(d), NEW a \in Wakee
  PROVE  wakes[<<d, a>>].called = 0 /\ wakes[<<d, a>>].triage = 0
BY WakeCounts DEF Asleep, Awake

\* Starting agents counts for them, on this computer, and for no one else.
LEMMA WakesAdds ==
  ASSUME WakeShape, NEW d \in Computer, NEW A \in SUBSET Wakee, NEW how \in {"called", "triage"},
         Wakes(d, A, how)
  PROVE  /\ wakes' \in [Computer \X Wakee -> [called : Nat, triage : Nat]]
         /\ \A e \in Computer, a \in Wakee :
              /\ wakes'[<<e, a>>].called = IF how = "called" /\ e = d /\ a \in A
                                           THEN wakes[<<e, a>>].called + 1
                                           ELSE wakes[<<e, a>>].called
              /\ wakes'[<<e, a>>].triage = IF how = "triage" /\ e = d /\ a \in A
                                           THEN wakes[<<e, a>>].triage + 1
                                           ELSE wakes[<<e, a>>].triage
<1>1. \A k \in Computer \X Wakee : wakes[k] \in [called : Nat, triage : Nat]
  BY DEF WakeShape
<1>2. \A k \in Computer \X Wakee : [wakes[k] EXCEPT ![how] = @ + 1] \in [called : Nat, triage : Nat]
  BY <1>1
<1>3. wakes' \in [Computer \X Wakee -> [called : Nat, triage : Nat]]
  BY <1>1, <1>2 DEF Wakes
<1>4. \A e \in Computer, a \in Wakee :
        wakes'[<<e, a>>] = IF e = d /\ a \in A THEN [wakes[<<e, a>>] EXCEPT ![how] = @ + 1]
                           ELSE wakes[<<e, a>>]
  BY DEF Wakes
<1>5. CASE how = "called"
  BY <1>1, <1>3, <1>4, <1>5
<1>6. CASE how = "triage"
  BY <1>1, <1>3, <1>4, <1>6
<1> QED
  BY <1>5, <1>6

\* A step that leaves the message, the roster and the links alone keeps the calm.
LEMMA CalmIsKept ==
  ASSUME CalmFits,
         UNCHANGED <<channel, owner, seated, serving, known, attached, row, resolving, wire,
                     frames, wakes, mishaps, shifts>>,
         row # 0 => post' = post /\ sends'[row] = sends[row]
  PROVE  CalmFits'
<1>1. CalmRoster' <=> CalmRoster
  BY DEF CalmRoster
<1>2. row # 0 => Asked' = Asked /\ Reach' = Reach
  BY DEF Asked, Reach
<1>3. row # 0 => (CalmReaders' <=> CalmReaders)
  BY <1>2 DEF CalmReaders
<1>4. row # 0 => \A d \in Computer : (Comes(d)' <=> Comes(d)) /\ (HasWoken(d)' <=> HasWoken(d))
  BY DEF Comes, HasWoken, Here
<1>5. row # 0 => (CalmHanded' <=> CalmHanded)
  BY <1>2, <1>4 DEF CalmHanded, Reach
<1> QED
  BY <1>1, <1>3, <1>5 DEF CalmFits

LEMMA CallSendKeeps ==
  ASSUME WakeInv, NEW c \in WakeCall, NEW i \in Instance, CallSend(c, i)
  PROVE  WakeInv'
<1> USE WakeNames DEF WakeInv, CallSend, Posts, Place, Seats, Links, Counts
<1>a. sends[c].stage = "none" /\ c # row
  BY WakeAssumption DEF WakeCall, OneIsSent
<1>b. sends[c] \in SendRecord
  BY DEF WakeShape
<1>c. /\ sends' \in [WakeCall -> SendRecord] /\ \A b \in WakeCall \ {c} : sends'[b] = sends[b]
      /\ sends'[c].stage = "arrived"
      /\ sends'[c].at = i
      /\ sends'[c].wake = sends[c].wake
      /\ sends'[c].triage = sends[c].triage
      /\ sends'[c].reach = sends[c].reach
  BY <1>b DEF WakeShape, WakeTypeOK, SendRecord, Stage, Reach, Named, Joining, Wakeable
<1>d. row # 0 => post' = post /\ row \in WakeCall /\ sends'[row] = sends[row]
  <2>1. c = 1 => \A b \in WakeCall : sends[b].stage = "none"
    BY WakeAssumption DEF WakeCall
  <2>2. row # 0 => row \in WakeCall /\ sends[row].stage # "none"
    BY WakeAssumption DEF WakeCall, OneIsSent, WakeShape, WakeTypeOK
  <2> QED
    BY <2>1, <2>2, <1>a, <1>c
<1>1. WakeShape'
  BY <1>a, <1>b, <1>c, <1>d DEF WakeShape, WakeTypeOK, Posts
<1>2. ChannelFits'
  BY <1>a, <1>b, <1>c, <1>d DEF WakeShape, ChannelFits
<1>3. OneIsSent'
  BY <1>a, <1>b, <1>c, <1>d DEF WakeShape, WakeTypeOK, OneIsSent
<1>4. NothingIsEarly'
  BY <1>a, <1>b, <1>c, <1>d DEF WakeShape, WakeTypeOK, OneIsSent, NothingIsEarly, Asleep, Awake
<1>5. ReadersFit'
  BY <1>a, <1>b, <1>c, <1>d DEF WakeShape, WakeTypeOK, OneIsSent, NothingIsEarly, ReadersFit, Asleep, Awake
<1>6. ASSUME NEW e \in Computer \ rejoined' PROVE HandedOnce(e)'
  <2>1. e \in Computer \ rejoined /\ HandedOnce(e)
    BY DEF WakeShape
  <2> QED
    BY <2>1, <1>a, <1>b, <1>c DEF WakeShape, WakeTypeOK, OneIsSent, NothingIsEarly, HandedOnce, Comes, Asleep, Awake
<1>7. CalmFits'
  BY <1>a, <1>c, <1>d, CalmIsKept
<1> QED
  BY <1>1, <1>2, <1>3, <1>4, <1>5, <1>6, <1>7 DEF WakeInv

LEMMA StoreMessageKeeps ==
  ASSUME WakeInv, NEW c \in WakeCall, StoreMessage(c)
  PROVE  WakeInv'
<1> USE WakeNames DEF WakeInv, StoreMessage, Place, Seats, Links, Counts
<1>a. row = 0 /\ sends[c].stage = "arrived"
  BY DEF OneIsSent
<1>b. sends[c] \in SendRecord
  BY DEF WakeShape
<1>c. /\ sends' \in [WakeCall -> SendRecord] /\ \A b \in WakeCall \ {c} : sends'[b] = sends[b]
      /\ sends'[c].stage = "stored"
      /\ sends'[c].at = sends[c].at
      /\ sends'[c].triage = sends[c].triage
      /\ sends'[c].reach = sends[c].reach
  BY <1>b DEF WakeShape, WakeTypeOK, SendRecord, Stage, Reach, Named, Joining, Wakeable
<1>d. /\ sends'[c].wake = IF post.author = "human" /\ channel.kind # "dm"
                        THEN Named \cap seated' ELSE {}
      /\ seated' = seated \cup (IF post.author = "human" /\ channel.kind # "dm"
                                THEN Joining ELSE {})
      /\ entitled' = entitled \cup (seated' \cap serving)
      /\ Joining \subseteq Named /\ Named \subseteq serving /\ Named \subseteq post.text
      /\ Joining \subseteq Wakee /\ (channel.kind # "public" => Joining = {})
  BY <1>b DEF WakeShape, WakeTypeOK, SendRecord, Named, Joining, Wakeable
<1>e. row' = c /\ c # 0
  BY DEF WakeCall
<1>1. WakeShape'
  BY <1>a, <1>c, <1>d DEF WakeShape, WakeTypeOK, WakeCall
<1>2. ChannelFits'
  BY <1>d DEF WakeShape, ChannelFits
<1>3. OneIsSent'
  BY <1>a, <1>c, <1>e DEF WakeShape, WakeTypeOK, OneIsSent
<1>f. /\ wire = {} /\ \A k \in Computer \X WakeCall : frames[k] = 0
      /\ \A d \in Computer : Asleep(d)
  BY <1>a DEF NothingIsEarly
<1>g. \A d \in Computer, a \in Wakee : wakes[<<d, a>>].called = 0 /\ wakes[<<d, a>>].triage = 0
  BY <1>f, AsleepIsZero
<1>4. NothingIsEarly'
  BY <1>f DEF NothingIsEarly, Asleep, Awake
<1>5. ReadersFit'
  BY <1>a, <1>c, <1>d, <1>e, <1>g DEF WakeShape, OneIsSent, ReadersFit, Awake
<1>6. ASSUME NEW e \in Computer \ rejoined' PROVE HandedOnce(e)'
  BY <1>e, <1>f, <1>g DEF HandedOnce, Comes, Asleep, Awake
<1>7. CalmFits'
  <2>1. Named \cap seated' = post.text \cap serving \cap seated' \/ channel.kind = "dm"
                                                                \/ post.author # "human"
    BY <1>d DEF Named, Joining, WakeShape, WakeTypeOK
  <2>2. CalmReaders'
    BY <1>c, <1>d, <1>e, <2>1 DEF CalmReaders, Asked
  <2>3. CalmHanded'
    BY <1>c, <1>e DEF CalmHanded
  <2> QED
    BY <2>2, <2>3 DEF CalmFits, CalmRoster
<1> QED
  BY <1>1, <1>2, <1>3, <1>4, <1>5, <1>6, <1>7 DEF WakeInv

LEMMA ReplayIsAnsweredKeeps ==
  ASSUME WakeInv, NEW c \in WakeCall, ReplayIsAnswered(c)
  PROVE  WakeInv'
<1> USE WakeNames DEF WakeInv, ReplayIsAnswered, Stages, Place, Seats, Links, Counts
<1>a. row # 0 /\ sends[c].stage = "arrived"
  BY DEF OneIsSent
<1>b. sends[c] \in SendRecord
  BY DEF WakeShape
<1>c. /\ sends' \in [WakeCall -> SendRecord] /\ \A b \in WakeCall \ {c} : sends'[b] = sends[b]
      /\ sends'[c].stage = "answered"
      /\ sends'[c].at = sends[c].at
      /\ sends'[c].wake = sends[c].wake
      /\ sends'[c].triage = sends[c].triage
      /\ sends'[c].reach = sends[c].reach
  BY <1>b DEF WakeShape, WakeTypeOK, SendRecord, Stage, Reach, Named, Joining, Wakeable
<1>d. row # 0 => sends'[row] = sends[row]
  BY <1>a, <1>c, WakeCounts DEF OneIsSent
<1>1. WakeShape'
  BY <1>a, <1>b, <1>c DEF WakeShape, WakeTypeOK, Posts
<1>2. ChannelFits'
  BY <1>a, <1>b, <1>c DEF WakeShape, ChannelFits
<1>3. OneIsSent'
  BY <1>a, <1>b, <1>c DEF WakeShape, WakeTypeOK, OneIsSent
<1>4. NothingIsEarly'
  BY <1>a, <1>b, <1>c DEF WakeShape, WakeTypeOK, OneIsSent, NothingIsEarly, Asleep, Awake
<1>5. ReadersFit'
  BY <1>a, <1>b, <1>c DEF WakeShape, WakeTypeOK, OneIsSent, NothingIsEarly, ReadersFit, Asleep, Awake
<1>6. ASSUME NEW e \in Computer \ rejoined' PROVE HandedOnce(e)'
  <2>1. e \in Computer \ rejoined /\ HandedOnce(e)
    BY DEF WakeShape
  <2> QED
    BY <2>1, <1>a, <1>b, <1>c DEF WakeShape, WakeTypeOK, OneIsSent, NothingIsEarly, HandedOnce, Comes, Asleep, Awake
<1>7. CalmFits'
  BY <1>a, <1>c, <1>d, CalmIsKept
<1> QED
  BY <1>1, <1>2, <1>3, <1>4, <1>5, <1>6, <1>7 DEF WakeInv

LEMMA LookUpReadersKeeps ==
  ASSUME WakeInv, NEW c \in WakeCall, LookUpReaders(c)
  PROVE  WakeInv'
<1> USE WakeNames DEF WakeInv, LookUpReaders, Stages, Mishap, Place, Seats, Links, Counts
<1>a. sends[c].stage = "stored" /\ c = row
  BY DEF OneIsSent
<1>b. sends[c] \in SendRecord
  BY DEF WakeShape
<1>c. /\ sends' \in [WakeCall -> SendRecord] /\ \A b \in WakeCall \ {c} : sends'[b] = sends[b]
      /\ sends'[c].stage = "decided"
      /\ sends'[c].at = sends[c].at
      /\ sends'[c].reach = sends[c].reach
      /\ \/ /\ sends'[c].wake = IF channel.kind = "dm" THEN seated \cap serving
                                                       ELSE sends[c].wake
            /\ sends'[c].triage = IF Triages(sends[c].wake)
                                  THEN seated \cap serving \cap {Manager} ELSE {}
            /\ UNCHANGED <<mishaps, shifts>>
         \/ /\ sends'[c].wake = sends[c].wake /\ sends'[c].triage = sends[c].triage
            /\ Triages(sends[c].wake) /\ mishaps' = mishaps + 1 /\ UNCHANGED shifts
  <2> DEFINE here == seated \cap serving
  <2>1. here \subseteq Wakee /\ "decided" \in Stage
    BY DEF WakeShape, WakeTypeOK, Stage
  <2>2. CASE Stages(c, "decided") /\ Triages(sends[c].wake) /\ Mishap
    BY <1>b, <2>1, <2>2 DEF WakeShape, SendRecord
  <2>3. CASE /\ UNCHANGED <<mishaps, shifts>>
             /\ sends' = [sends EXCEPT
                  ![c].stage = "decided",
                  ![c].wake = IF channel.kind = "dm" THEN here ELSE @,
                  ![c].triage = IF Triages(sends[c].wake) THEN here \cap {Manager} ELSE {}]
    <3> DEFINE r == [sends[c] EXCEPT !.stage = "decided",
                       !.wake = IF channel.kind = "dm" THEN here ELSE @,
                       !.triage = IF Triages(sends[c].wake) THEN here \cap {Manager} ELSE {}]
    <3>1. sends' = [sends EXCEPT ![c] = r]
      BY <2>3
    <3>2. r \in SendRecord
      BY <1>b, <2>1 DEF SendRecord
    <3> QED
      BY <1>b, <2>3, <3>1, <3>2 DEF WakeShape, SendRecord
  <2> QED
    BY <2>2, <2>3
<1>d. /\ sends[c].triage = {} /\ c # 0
      /\ wire = {} /\ \A k \in Computer \X WakeCall : frames[k] = 0
      /\ \A d \in Computer : Asleep(d)
  BY <1>a DEF ReadersFit, NothingIsEarly, WakeCall
<1>e. \A d \in Computer, a \in Wakee : wakes[<<d, a>>].called = 0 /\ wakes[<<d, a>>].triage = 0
  BY <1>d, AsleepIsZero
<1>1. WakeShape'
  BY <1>a, <1>c DEF WakeShape, WakeTypeOK
<1>2. ChannelFits'
  BY DEF WakeShape, ChannelFits
<1>3. OneIsSent'
  BY <1>a, <1>c, <1>d DEF WakeShape, WakeTypeOK, OneIsSent
<1>4. NothingIsEarly'
  BY <1>d DEF NothingIsEarly, Asleep, Awake
<1>5. ReadersFit'
  BY <1>a, <1>c, <1>d, <1>e DEF WakeShape, WakeTypeOK, ReadersFit, Awake, Triages
<1>6. ASSUME NEW e \in Computer \ rejoined' PROVE HandedOnce(e)'
  BY <1>a, <1>d, <1>e DEF HandedOnce, Comes, Asleep, Awake
<1>7. CalmFits'
  <2> SUFFICES ASSUME mishaps' = 0, shifts' = 0 PROVE CalmRoster' /\ CalmReaders' /\ CalmHanded'
    BY DEF CalmFits
  <2>1. /\ mishaps = 0 /\ shifts = 0 /\ CalmRoster /\ CalmReaders
        /\ sends'[c].wake = IF channel.kind = "dm" THEN seated \cap serving ELSE sends[c].wake
        /\ sends'[c].triage = IF Triages(sends[c].wake)
                              THEN seated \cap serving \cap {Manager} ELSE {}
    BY <1>a, <1>c, <1>d DEF CalmFits, WakeShape
  <2>2. CalmReaders'
    BY <1>a, <1>c, <2>1 DEF CalmReaders, Asked, Triages, WakeShape, WakeTypeOK, ChannelFits
  <2>3. CalmHanded'
    BY <1>a DEF CalmHanded
  <2> QED
    BY <2>1, <2>2, <2>3 DEF CalmRoster
<1> QED
  BY <1>1, <1>2, <1>3, <1>4, <1>5, <1>6, <1>7 DEF WakeInv

LEMMA SendFailsKeeps ==
  ASSUME WakeInv, NEW c \in WakeCall, SendFails(c)
  PROVE  WakeInv'
<1> USE WakeNames DEF WakeInv, SendFails, Stages, Mishap, Place, Seats, Links, Counts
<1>a. sends[c].stage = "stored" /\ c = row
  BY DEF OneIsSent
<1>b. sends[c] \in SendRecord
  BY DEF WakeShape
<1>c. /\ sends' \in [WakeCall -> SendRecord] /\ \A b \in WakeCall \ {c} : sends'[b] = sends[b]
      /\ sends'[c].stage = "failed"
      /\ sends'[c].at = sends[c].at
      /\ sends'[c].wake = sends[c].wake
      /\ sends'[c].triage = sends[c].triage
      /\ sends'[c].reach = sends[c].reach
  BY <1>b DEF WakeShape, WakeTypeOK, SendRecord, Stage, Reach, Named, Joining, Wakeable
<1>1. WakeShape'
  BY <1>a, <1>b, <1>c DEF WakeShape, WakeTypeOK, Posts
<1>2. ChannelFits'
  BY <1>a, <1>b, <1>c DEF WakeShape, ChannelFits
<1>3. OneIsSent'
  BY <1>a, <1>b, <1>c DEF WakeShape, WakeTypeOK, OneIsSent
<1>4. NothingIsEarly'
  BY <1>a, <1>b, <1>c DEF WakeShape, WakeTypeOK, OneIsSent, NothingIsEarly, Asleep, Awake
<1>5. ReadersFit'
  BY <1>a, <1>b, <1>c DEF WakeShape, WakeTypeOK, OneIsSent, NothingIsEarly, ReadersFit, Asleep, Awake
<1>6. ASSUME NEW e \in Computer \ rejoined' PROVE HandedOnce(e)'
  <2>1. e \in Computer \ rejoined /\ HandedOnce(e)
    BY DEF WakeShape
  <2> QED
    BY <2>1, <1>a, <1>b, <1>c DEF WakeShape, WakeTypeOK, OneIsSent, NothingIsEarly, HandedOnce, Comes, Asleep, Awake
<1>7. CalmFits'
  BY <1>a, <1>b, <1>c DEF WakeShape, WakeTypeOK, OneIsSent, CalmFits, CalmRoster, CalmReaders, CalmHanded, Comes, HasWoken, Asked, Reach, Here
<1> QED
  BY <1>1, <1>2, <1>3, <1>4, <1>5, <1>6, <1>7 DEF WakeInv

LEMMA PublishMessageKeeps ==
  ASSUME WakeInv, NEW c \in WakeCall, PublishMessage(c)
  PROVE  WakeInv'
<1> USE WakeNames DEF WakeInv, PublishMessage, Place, Seats, Links, Counts
<1>a. c = row /\ sends[c].stage = "decided"
  BY DEF OneIsSent
<1>b. sends[c] \in SendRecord
  BY DEF WakeShape
<1>c. /\ sends' \in [WakeCall -> SendRecord] /\ \A b \in WakeCall \ {c} : sends'[b] = sends[b]
      /\ sends'[c].reach = Reach
      /\ sends'[c].stage = sends[c].stage
      /\ sends'[c].at = sends[c].at
      /\ sends'[c].wake = sends[c].wake
      /\ sends'[c].triage = sends[c].triage
  BY <1>b DEF WakeShape, WakeTypeOK, SendRecord, Stage, Reach, Named, Joining, Wakeable
<1>d. /\ frames' \in [Computer \X WakeCall -> Nat]
      /\ \A d \in Computer, b \in WakeCall :
           frames'[<<d, b>>] = IF b = c /\ d \in Reach /\ attached[d] = sends[c].at
                               THEN frames[<<d, b>>] + 1 ELSE frames[<<d, b>>]
  <2>1. PICK inst, ears : inst = sends[c].at /\ ears = Reach
    OBVIOUS
  <2>2. frames' = Delivered(inst, c, ears)
    BY <2>1
  <2>3. frames \in [Computer \X WakeCall -> Nat]
    BY DEF WakeShape, WakeTypeOK
  <2>4. /\ frames' \in [Computer \X WakeCall -> Nat]
        /\ \A d \in Computer, b \in WakeCall :
             frames'[<<d, b>>] = IF b = c /\ d \in ears /\ attached[d] = inst
                                 THEN frames[<<d, b>>] + 1 ELSE frames[<<d, b>>]
    BY ONLY <2>2, <2>3 DEF Delivered
  <2> QED
    BY ONLY <2>1, <2>4
<1>e. /\ wire = {} /\ \A d \in Computer, b \in WakeCall : frames[<<d, b>>] = 0
      /\ \A d \in Computer : Asleep(d)
  BY <1>a DEF NothingIsEarly
<1>f. \A d \in Computer, a \in Wakee : wakes[<<d, a>>].called = 0 /\ wakes[<<d, a>>].triage = 0
  BY <1>e, AsleepIsZero
<1>1. WakeShape'
  BY <1>c, <1>d DEF WakeShape, WakeTypeOK
<1>2. ChannelFits'
  BY DEF WakeShape, ChannelFits
<1>3. OneIsSent'
  BY <1>a, <1>c, <1>d, <1>e DEF WakeShape, WakeTypeOK, OneIsSent
<1>4. NothingIsEarly'
  BY <1>a, <1>c, WakeCounts DEF WakeShape, WakeTypeOK, OneIsSent, NothingIsEarly
<1>5. ReadersFit'
  BY <1>a, <1>c, <1>f DEF WakeShape, ReadersFit, Awake
<1>6. ASSUME NEW e \in Computer \ rejoined' PROVE HandedOnce(e)'
  BY <1>a, <1>c, <1>d, <1>e, <1>f DEF HandedOnce, Comes, Asleep, Awake
<1>7. CalmFits'
  <2> SUFFICES ASSUME mishaps' = 0, shifts' = 0 PROVE CalmRoster' /\ CalmReaders' /\ CalmHanded'
    BY DEF CalmFits
  <2>1. mishaps = 0 /\ shifts = 0 /\ CalmRoster /\ CalmReaders /\ c # 0
    BY <1>a DEF CalmFits, WakeCall
  <2>2. CalmRoster' /\ Reach' = Reach /\ Asked' = Asked
    BY <2>1 DEF CalmRoster, Reach, Asked
  <2>3. CalmReaders'
    BY <1>a, <1>c, <2>1, <2>2 DEF CalmReaders
  <2>4. \A d \in Reach : attached[d] # sends[c].at => <<attached[d], row>> \in wire'
    BY <1>a, <2>1 DEF CalmRoster, Reach
  <2>5. \A d \in Reach : frames'[<<d, row>>] > 0 \/ Comes(d)'
    BY <1>a, <1>c, <1>d, <1>e, <2>4 DEF Comes, Reach
  <2>6. CalmHanded'
    BY <1>a, <1>c, <2>2, <2>5 DEF CalmHanded
  <2> QED
    BY <2>2, <2>3, <2>6
<1> QED
  BY <1>1, <1>2, <1>3, <1>4, <1>5, <1>6, <1>7 DEF WakeInv

LEMMA DropMessageKeeps ==
  ASSUME WakeInv, NEW c \in WakeCall, DropMessage(c)
  PROVE  WakeInv'
<1> USE WakeNames DEF WakeInv, DropMessage, Mishap, Place, Seats, Links, Counts
<1>1. WakeShape'
  BY  DEF WakeShape, WakeTypeOK, Posts
<1>2. ChannelFits'
  BY  DEF WakeShape, ChannelFits
<1>3. OneIsSent'
  BY  DEF WakeShape, WakeTypeOK, OneIsSent
<1>4. NothingIsEarly'
  BY  DEF WakeShape, WakeTypeOK, OneIsSent, NothingIsEarly, Asleep, Awake
<1>5. ReadersFit'
  BY  DEF WakeShape, WakeTypeOK, OneIsSent, NothingIsEarly, ReadersFit, Asleep, Awake
<1>6. ASSUME NEW e \in Computer \ rejoined' PROVE HandedOnce(e)'
  <2>1. e \in Computer \ rejoined /\ HandedOnce(e)
    BY DEF WakeShape
  <2> QED
    BY <2>1 DEF WakeShape, WakeTypeOK, OneIsSent, NothingIsEarly, HandedOnce, Comes, Asleep, Awake
<1>7. CalmFits'
  BY  DEF WakeShape, WakeTypeOK, OneIsSent, CalmFits, CalmRoster, CalmReaders, CalmHanded, Comes, HasWoken, Asked, Reach, Here
<1> QED
  BY <1>1, <1>2, <1>3, <1>4, <1>5, <1>6, <1>7 DEF WakeInv

LEMMA ReceivePublishedKeeps ==
  ASSUME WakeInv, NEW c \in WakeCall, NEW i \in Instance, ReceivePublished(i, c)
  PROVE  WakeInv'
<1> USE WakeNames DEF WakeInv, ReceivePublished, Place, Seats, Links, Counts
<1>a. c = row /\ row # 0 /\ row \in WakeCall
  BY DEF OneIsSent, WakeCall
<1>b. /\ frames' \in [Computer \X WakeCall -> Nat]
      /\ \A d \in Computer, b \in WakeCall :
           frames'[<<d, b>>] = IF b = c /\ d \in sends[c].reach /\ attached[d] = i /\ i # sends[c].at
                               THEN frames[<<d, b>>] + 1 ELSE frames[<<d, b>>]
  <2>1. CASE IsOwn(i, c)
    BY <2>1 DEF IsOwn, WakeShape, WakeTypeOK
  <2>2. CASE ~IsOwn(i, c)
    <3>1. PICK ears : ears = sends[c].reach
      OBVIOUS
    <3>2. frames' = Delivered(i, c, ears)
      BY <2>2, <3>1
    <3>3. frames \in [Computer \X WakeCall -> Nat] /\ i # sends[c].at
      BY <2>2 DEF WakeShape, WakeTypeOK, IsOwn
    <3>4. /\ frames' \in [Computer \X WakeCall -> Nat]
          /\ \A d \in Computer, b \in WakeCall :
               frames'[<<d, b>>] = IF b = c /\ d \in ears /\ attached[d] = i
                                   THEN frames[<<d, b>>] + 1 ELSE frames[<<d, b>>]
      BY ONLY <3>2, <3>3 DEF Delivered
    <3> QED
      BY ONLY <3>1, <3>3, <3>4
  <2> QED
    BY <2>1, <2>2
<1>c. sends[row].stage # "stored" /\ row \notin resolving
  BY <1>a DEF NothingIsEarly
<1>1. WakeShape'
  BY <1>b DEF WakeShape, WakeTypeOK
<1>2. ChannelFits'
  BY DEF WakeShape, ChannelFits
<1>3. OneIsSent'
  <2>1. \A d \in Computer, b \in WakeCall : frames[<<d, b>>] > 0 => b = row
    BY DEF OneIsSent
  <2>2. \A d \in Computer, b \in WakeCall : frames'[<<d, b>>] > 0 => b = row'
    BY <1>a, <1>b, <2>1
  <2> QED
    BY <1>a, <2>2, FramesFit DEF OneIsSent
<1>4. NothingIsEarly'
  BY <1>a, <1>c DEF NothingIsEarly
<1>5. ReadersFit'
  BY DEF ReadersFit, Awake
<1>6. ASSUME NEW e \in Computer \ rejoined' PROVE HandedOnce(e)'
  <2>1. e \in Computer \ rejoined /\ HandedOnce(e) /\ (Asleep(e)' <=> Asleep(e))
    BY DEF WakeShape, Asleep, Awake
  <2>2. Comes(e)' => Comes(e) /\ attached[e] # i
    BY <1>a DEF Comes
  <2>3. frames'[<<e, row>>] # frames[<<e, row>>] =>
          frames'[<<e, row>>] = frames[<<e, row>>] + 1 /\ Comes(e) /\ ~Comes(e)'
    BY <1>a, <1>b, <2>1 DEF Comes
  <2> QED
    BY <1>a, <2>1, <2>2, <2>3 DEF HandedOnce
<1>7. CalmFits'
  <2> SUFFICES ASSUME mishaps' = 0, shifts' = 0 PROVE CalmRoster' /\ CalmReaders' /\ CalmHanded'
    BY DEF CalmFits
  <2>1. CalmRoster /\ CalmReaders /\ CalmHanded
    BY <1>a DEF CalmFits
  <2>2. CalmRoster' /\ Reach' = Reach /\ Asked' = Asked
    BY <2>1 DEF CalmRoster, Reach, Asked
  <2>3. CalmReaders'
    BY <2>1, <2>2 DEF CalmReaders
  <2>4. \A d \in Computer : HasWoken(d)' <=> HasWoken(d)
    BY DEF HasWoken, Here
  <2>5. ASSUME NEW d \in Reach, d \in sends[row].reach,
               frames[<<d, row>>] > 0 \/ Comes(d) \/ HasWoken(d)
        PROVE  frames'[<<d, row>>] > 0 \/ Comes(d)' \/ HasWoken(d)'
    BY <1>a, <1>b, <2>4, <2>5, WakeCounts DEF Comes, Reach
  <2>6. CalmHanded'
    BY <2>1, <2>2, <2>5 DEF CalmHanded
  <2> QED
    BY <2>2, <2>3, <2>6
<1> QED
  BY <1>1, <1>2, <1>3, <1>4, <1>5, <1>6, <1>7 DEF WakeInv

LEMMA LosePublishedKeeps ==
  ASSUME WakeInv, NEW c \in WakeCall, NEW i \in Instance, LosePublished(i, c)
  PROVE  WakeInv'
<1> USE WakeNames DEF WakeInv, LosePublished, Mishap, Place, Seats, Links, Counts
<1>1. WakeShape'
  BY  DEF WakeShape, WakeTypeOK, Posts
<1>2. ChannelFits'
  BY  DEF WakeShape, ChannelFits
<1>3. OneIsSent'
  BY  DEF WakeShape, WakeTypeOK, OneIsSent
<1>4. NothingIsEarly'
  BY  DEF WakeShape, WakeTypeOK, OneIsSent, NothingIsEarly, Asleep, Awake
<1>5. ReadersFit'
  BY  DEF WakeShape, WakeTypeOK, OneIsSent, NothingIsEarly, ReadersFit, Asleep, Awake
<1>6. ASSUME NEW e \in Computer \ rejoined' PROVE HandedOnce(e)'
  <2>1. e \in Computer \ rejoined /\ HandedOnce(e)
    BY DEF WakeShape
  <2> QED
    BY <2>1 DEF WakeShape, WakeTypeOK, OneIsSent, NothingIsEarly, HandedOnce, Comes, Asleep, Awake
<1>7. CalmFits'
  BY  DEF WakeShape, WakeTypeOK, OneIsSent, CalmFits, CalmRoster, CalmReaders, CalmHanded, Comes, HasWoken, Asked, Reach, Here
<1> QED
  BY <1>1, <1>2, <1>3, <1>4, <1>5, <1>6, <1>7 DEF WakeInv

LEMMA HandleDeliverKeeps ==
  ASSUME WakeInv, NEW c \in WakeCall, NEW d \in Computer, HandleDeliver(d, c)
  PROVE  WakeInv'
<1> USE WakeNames DEF WakeInv, HandleDeliver, Place, Seats, Links, Counts
<1>a. c = row /\ row # 0 /\ row \in WakeCall /\ frames[<<d, row>>] > 0
  BY DEF OneIsSent, WakeCall
<1>b. /\ frames' \in [Computer \X WakeCall -> Nat]
      /\ \A e \in Computer, b \in WakeCall :
           frames'[<<e, b>>] = IF b = c /\ e = d THEN frames[<<e, b>>] - 1 ELSE frames[<<e, b>>]
  <2>1. frames \in [Computer \X WakeCall -> Nat] /\ <<d, c>> \in Computer \X WakeCall
    BY DEF WakeShape, WakeTypeOK
  <2>2. frames[<<d, c>>] - 1 \in Nat /\ frames' = [frames EXCEPT ![<<d, c>>] = @ - 1]
    BY <2>1
  <2>3. frames' \in [Computer \X WakeCall -> Nat]
    BY ONLY <2>1, <2>2
  <2> QED
    BY ONLY <2>1, <2>2, <2>3
<1>c. sends[row].stage # "stored" /\ row \notin resolving
  BY <1>a DEF NothingIsEarly
<1>d. PICK A \in SUBSET Wakee, how \in {"called", "triage"} :
        /\ \/ Wakes(d, A, how)
           \/ UNCHANGED wakes /\ A = {}
        /\ post.author = "agent" => A = {}
        /\ A \subseteq Here(d)
        /\ how = "called" => A \subseteq sends[row].wake
        /\ how = "triage" => A \subseteq sends[row].triage /\ sends[row].wake \cap Here(d) = {}
        /\ \A a, b \in A : a = b
        /\ post.author = "human" /\ sends[row].wake \cap Here(d) # {} => how = "called" /\ A # {}
        /\ post.author = "human" /\ sends[row].wake = {}
             => sends[row].triage \cap Here(d) \subseteq A /\ (A # {} => how = "triage")
  <2> DEFINE called == sends[row].wake \cap Here(d)
  <2>0. called \subseteq Wakee /\ sends[row].triage \cap Here(d) \subseteq Wakee
        /\ post.author \in {"human", "agent"}
    BY <1>a DEF WakeShape, SendRecord, Here
  <2>1. CASE post.author = "agent"
    <3>1. UNCHANGED wakes /\ {} \in SUBSET Wakee /\ "called" \in {"called", "triage"}
      BY <2>1, <1>a DEF DeliverWakes
    <3>2. post.author # "human"
      BY <2>1
    <3> HIDE DEF HandleDeliver, WakeInv
    <3> WITNESS {} \in SUBSET Wakee, "called" \in {"called", "triage"}
    <3> QED
      BY <2>1, <3>1, <3>2
  <2>2. CASE post.author # "agent" /\ channel.kind = "dm"
    <3>1. Wakes(d, called, "called")
      BY <2>2, <1>a DEF DeliverWakes
    <3>2. \A a, b \in called : a = b
      BY <2>2, <1>a DEF ReadersFit, ChannelFits
    <3>3. sends[row].triage = {}
      BY <2>2, <1>a DEF ReadersFit
    <3> QED
      BY <2>0, <2>2, <3>1, <3>2, <3>3
  <2>3. CASE post.author # "agent" /\ channel.kind # "dm" /\ called # {}
    <3>1. PICK a \in called : Wakes(d, {a}, "called")
      BY <2>3, <1>a DEF DeliverWakes
    <3>2. {a} \in SUBSET Wakee /\ sends[row].wake # {}
      BY <2>0
    <3> QED
      BY <2>0, <2>3, <3>1, <3>2
  <2>4. CASE post.author # "agent" /\ channel.kind # "dm" /\ called = {}
    <3>1. Wakes(d, sends[row].triage \cap Here(d), "triage")
      BY <2>4, <1>a DEF DeliverWakes
    <3>2. \A a, b \in sends[row].triage : a = b
      BY <1>a DEF ReadersFit
    <3> QED
      BY <2>0, <2>4, <3>1, <3>2
  <2> QED
    BY <2>1, <2>2, <2>3, <2>4
<1>e. /\ wakes' \in [Computer \X Wakee -> [called : Nat, triage : Nat]]
      /\ \A e \in Computer, a \in Wakee :
           /\ wakes'[<<e, a>>].called = IF how = "called" /\ e = d /\ a \in A
                                        THEN wakes[<<e, a>>].called + 1
                                        ELSE wakes[<<e, a>>].called
           /\ wakes'[<<e, a>>].triage = IF how = "triage" /\ e = d /\ a \in A
                                        THEN wakes[<<e, a>>].triage + 1
                                        ELSE wakes[<<e, a>>].triage
  BY <1>d, WakesAdds DEF WakeShape
<1> HIDE DEF HandleDeliver
<1>u. UNCHANGED <<channel, owner, post, seated, serving, known, attached, rejoined, row, sends,
                  resolving, wire, entitled, mishaps, shifts>>
  BY DEF HandleDeliver
<1>1. WakeShape'
  BY <1>b, <1>e, <1>u DEF WakeShape, WakeTypeOK
<1>2. ChannelFits'
  BY <1>u DEF WakeShape, ChannelFits
<1>3. OneIsSent'
  <2>1. \A e \in Computer, b \in WakeCall : frames[<<e, b>>] > 0 => b = row
    BY DEF OneIsSent
  <2>2. \A e \in Computer, b \in WakeCall : frames'[<<e, b>>] > 0 => b = row'
    BY <1>a, <1>b, <1>u, <2>1
  <2> QED
    BY <1>a, <1>u, <2>2, FramesFit DEF OneIsSent
<1>4. NothingIsEarly'
  BY <1>a, <1>c, <1>u DEF NothingIsEarly
<1>5. ReadersFit'
  <2>1. ASSUME NEW a \in A PROVE owner[a] = owner[d] /\ post.author = "human"
    <3>1. post.author \in {"human", "agent"} /\ post.author # "agent"
      BY <1>d DEF WakeShape
    <3>2. <<a, d>> \in known
      BY <1>d DEF Here
    <3> QED
      BY <3>1, <3>2 DEF OneIsSent
  <2>2. \A e \in Computer, a \in Wakee : Awake(e, a)' => Awake(e, a) \/ (e = d /\ a \in A)
    BY <1>e DEF Awake
  <2> QED
    BY <1>a, <1>d, <1>e, <1>u, <2>1, <2>2 DEF ReadersFit, Awake
<1>6. ASSUME NEW e \in Computer \ rejoined' PROVE HandedOnce(e)'
  <2>1. e \in Computer \ rejoined /\ HandedOnce(e) /\ (Comes(e)' <=> Comes(e))
    BY <1>u DEF WakeShape, Comes
  <2>2. CASE e # d
    <3>1. frames'[<<e, row>>] = frames[<<e, row>>]
      BY <1>a, <1>b, <2>2
    <3>2. \A a \in Wakee : /\ wakes'[<<e, a>>].called = wakes[<<e, a>>].called
                           /\ wakes'[<<e, a>>].triage = wakes[<<e, a>>].triage
      BY <1>e, <2>2
    <3> QED
      BY <2>1, <3>1, <3>2, <1>u DEF HandedOnce, Asleep, Awake
  <2>3. CASE e = d
    <3>1. frames[<<d, row>>] = 1 /\ frames'[<<d, row>>] = 0 /\ ~Comes(d) /\ Asleep(d)
      BY <1>a, <1>b, <2>1, <2>3 DEF HandedOnce
    <3>2. \A a \in Wakee : wakes[<<d, a>>].called = 0 /\ wakes[<<d, a>>].triage = 0
      BY <3>1, AsleepIsZero
    <3>3. \A a \in Wakee : wakes'[<<d, a>>].called = (IF how = "called" /\ a \in A THEN 1 ELSE 0)
                        /\ wakes'[<<d, a>>].triage = (IF how = "triage" /\ a \in A THEN 1 ELSE 0)
      BY <1>e, <3>2
    <3> QED
      BY <1>d, <1>u, <2>1, <2>3, <3>1, <3>3 DEF HandedOnce, Asleep, Awake
  <2> QED
    BY <2>2, <2>3
<1>7. CalmFits'
  <2> SUFFICES ASSUME mishaps' = 0, shifts' = 0 PROVE CalmRoster' /\ CalmReaders' /\ CalmHanded'
    BY DEF CalmFits
  <2>1. CalmRoster /\ CalmReaders /\ CalmHanded
    BY <1>a, <1>u DEF CalmFits
  <2>2. CalmRoster' /\ Reach' = Reach /\ Asked' = Asked
    BY <1>u, <2>1 DEF CalmRoster, Reach, Asked
  <2>3. CalmReaders'
    BY <1>u, <2>1, <2>2 DEF CalmReaders
  <2>4. ASSUME NEW e \in Computer, HasWoken(e) PROVE HasWoken(e)'
    <3>1. \A a \in Wakee : /\ wakes[<<e, a>>].called > 0 => wakes'[<<e, a>>].called > 0
                           /\ wakes[<<e, a>>].triage > 0 => wakes'[<<e, a>>].triage > 0
      BY <1>e, WakeCounts
    <3>2. Here(e)' = Here(e) /\ Here(e) \subseteq Wakee
      BY <1>u DEF Here
    <3> QED
      BY <1>u, <2>4, <3>1, <3>2 DEF HasWoken
  <2>5. post.author = "human" => HasWoken(d)'
    <3>1. \A a \in A : a \in Wakee /\ (how = "called" => wakes'[<<d, a>>].called > 0)
                                   /\ (how = "triage" => wakes'[<<d, a>>].triage > 0)
      BY <1>e, WakeCounts
    <3> QED
      BY <1>d, <1>u, <3>1 DEF HasWoken, Here
  <2>6. ASSUME NEW e \in Reach, post.author = "human",
               frames[<<e, row>>] > 0 \/ Comes(e) \/ HasWoken(e)
        PROVE  frames'[<<e, row>>] > 0 \/ Comes(e)' \/ HasWoken(e)'
    BY <1>a, <1>b, <1>u, <2>4, <2>5, <2>6 DEF Comes, Reach
  <2>7. CalmHanded'
    BY <1>u, <2>1, <2>2, <2>6 DEF CalmHanded
  <2> QED
    BY <2>2, <2>3, <2>7
<1> QED
  BY <1>1, <1>2, <1>3, <1>4, <1>5, <1>6, <1>7 DEF WakeInv

LEMMA LearnDutyKeeps ==
  ASSUME WakeInv, NEW a \in Wakee, NEW d \in Computer, LearnDuty(a, d)
  PROVE  WakeInv'
<1> USE WakeNames DEF WakeInv, LearnDuty, Place, Seats, Links, Counts
<1>1. WakeShape'
  BY  DEF WakeShape, WakeTypeOK, Posts
<1>2. ChannelFits'
  BY  DEF WakeShape, ChannelFits
<1>3. OneIsSent'
  BY  DEF WakeShape, WakeTypeOK, OneIsSent
<1>4. NothingIsEarly'
  BY  DEF WakeShape, WakeTypeOK, OneIsSent, NothingIsEarly, Asleep, Awake
<1>5. ReadersFit'
  BY  DEF WakeShape, WakeTypeOK, OneIsSent, NothingIsEarly, ReadersFit, Asleep, Awake
<1>6. ASSUME NEW e \in Computer \ rejoined' PROVE HandedOnce(e)'
  <2>1. e \in Computer \ rejoined /\ HandedOnce(e)
    BY DEF WakeShape
  <2> QED
    BY <2>1 DEF WakeShape, WakeTypeOK, OneIsSent, NothingIsEarly, HandedOnce, Comes, Asleep, Awake
<1>7. CalmFits'
  BY  DEF WakeShape, WakeTypeOK, OneIsSent, CalmFits, CalmRoster, CalmReaders, CalmHanded, Comes, HasWoken, Asked, Reach, Here
<1> QED
  BY <1>1, <1>2, <1>3, <1>4, <1>5, <1>6, <1>7 DEF WakeInv

LEMMA LeaveChannelKeeps ==
  ASSUME WakeInv, NEW a \in Wakee, LeaveChannel(a)
  PROVE  WakeInv'
<1> USE WakeNames DEF WakeInv, LeaveChannel, Shift, Place, Seats, Links, Counts
<1>1. WakeShape'
  BY  DEF WakeShape, WakeTypeOK, Posts
<1>2. ChannelFits'
  BY  DEF WakeShape, ChannelFits
<1>3. OneIsSent'
  BY  DEF WakeShape, WakeTypeOK, OneIsSent
<1>4. NothingIsEarly'
  BY  DEF WakeShape, WakeTypeOK, OneIsSent, NothingIsEarly, Asleep, Awake
<1>5. ReadersFit'
  BY  DEF WakeShape, WakeTypeOK, OneIsSent, NothingIsEarly, ReadersFit, Asleep, Awake
<1>6. ASSUME NEW e \in Computer \ rejoined' PROVE HandedOnce(e)'
  <2>1. e \in Computer \ rejoined /\ HandedOnce(e)
    BY DEF WakeShape
  <2> QED
    BY <2>1 DEF WakeShape, WakeTypeOK, OneIsSent, NothingIsEarly, HandedOnce, Comes, Asleep, Awake
<1>7. CalmFits'
  BY  DEF WakeShape, WakeTypeOK, OneIsSent, CalmFits, CalmRoster, CalmReaders, CalmHanded, Comes, HasWoken, Asked, Reach, Here
<1> QED
  BY <1>1, <1>2, <1>3, <1>4, <1>5, <1>6, <1>7 DEF WakeInv

LEMMA ChangeDutyKeeps ==
  ASSUME WakeInv, NEW a \in Wakee, ChangeDuty(a)
  PROVE  WakeInv'
<1> USE WakeNames DEF WakeInv, ChangeDuty, Shift, Place, Seats, Links, Counts
<1>1. WakeShape'
  BY  DEF WakeShape, WakeTypeOK, Posts
<1>2. ChannelFits'
  BY  DEF WakeShape, ChannelFits
<1>3. OneIsSent'
  BY  DEF WakeShape, WakeTypeOK, OneIsSent
<1>4. NothingIsEarly'
  BY  DEF WakeShape, WakeTypeOK, OneIsSent, NothingIsEarly, Asleep, Awake
<1>5. ReadersFit'
  BY  DEF WakeShape, WakeTypeOK, OneIsSent, NothingIsEarly, ReadersFit, Asleep, Awake
<1>6. ASSUME NEW e \in Computer \ rejoined' PROVE HandedOnce(e)'
  <2>1. e \in Computer \ rejoined /\ HandedOnce(e)
    BY DEF WakeShape
  <2> QED
    BY <2>1 DEF WakeShape, WakeTypeOK, OneIsSent, NothingIsEarly, HandedOnce, Comes, Asleep, Awake
<1>7. CalmFits'
  BY  DEF WakeShape, WakeTypeOK, OneIsSent, CalmFits, CalmRoster, CalmReaders, CalmHanded, Comes, HasWoken, Asked, Reach, Here
<1> QED
  BY <1>1, <1>2, <1>3, <1>4, <1>5, <1>6, <1>7 DEF WakeInv

LEMMA DisconnectKeeps ==
  ASSUME WakeInv, NEW d \in Computer, Disconnect(d)
  PROVE  WakeInv'
<1> USE WakeNames DEF WakeInv, Disconnect, Mishap, Place, Seats, Links, Counts
<1>1. WakeShape'
  BY  DEF WakeShape, WakeTypeOK, Posts
<1>2. ChannelFits'
  BY  DEF WakeShape, ChannelFits
<1>3. OneIsSent'
  BY  DEF WakeShape, WakeTypeOK, OneIsSent
<1>4. NothingIsEarly'
  BY  DEF WakeShape, WakeTypeOK, OneIsSent, NothingIsEarly, Asleep, Awake
<1>5. ReadersFit'
  BY  DEF WakeShape, WakeTypeOK, OneIsSent, NothingIsEarly, ReadersFit, Asleep, Awake
<1>6. ASSUME NEW e \in Computer \ rejoined' PROVE HandedOnce(e)'
  <2>1. e \in Computer \ rejoined /\ HandedOnce(e)
    BY DEF WakeShape
  <2>2. attached'[e] = attached[e] \/ attached'[e] = NoInstance
    BY DEF WakeShape, WakeTypeOK
  <2>3. ~ \E m \in wire : m[1] = NoInstance
    BY DEF WakeShape, WakeTypeOK
  <2>4. Comes(e)' => Comes(e)
    BY <2>2, <2>3 DEF Comes
  <2>5. row # 0 => frames'[<<e, row>>] = frames[<<e, row>>] \/ frames'[<<e, row>>] = 0
    BY WakeCounts
  <2>6. Asleep(e)' <=> Asleep(e)
    BY DEF Asleep, Awake
  <2>7. UNCHANGED <<row, wakes>>
    OBVIOUS
  <2> HIDE DEF Disconnect
  <2> QED
    BY <2>1, <2>4, <2>5, <2>6, <2>7 DEF HandedOnce
<1>7. CalmFits'
  BY  DEF WakeShape, WakeTypeOK, OneIsSent, CalmFits, CalmRoster, CalmReaders, CalmHanded, Comes, HasWoken, Asked, Reach, Here
<1> QED
  BY <1>1, <1>2, <1>3, <1>4, <1>5, <1>6, <1>7 DEF WakeInv

LEMMA ReconnectKeeps ==
  ASSUME WakeInv, NEW d \in Computer, NEW i \in Instance, Reconnect(d, i)
  PROVE  WakeInv'
<1> USE WakeNames DEF WakeInv, Reconnect, Place, Seats, Links, Counts
<1>1. WakeShape'
  BY  DEF WakeShape, WakeTypeOK, Posts
<1>2. ChannelFits'
  BY  DEF WakeShape, ChannelFits
<1>3. OneIsSent'
  BY  DEF WakeShape, WakeTypeOK, OneIsSent
<1>4. NothingIsEarly'
  BY  DEF WakeShape, WakeTypeOK, OneIsSent, NothingIsEarly, Asleep, Awake
<1>5. ReadersFit'
  BY  DEF WakeShape, WakeTypeOK, OneIsSent, NothingIsEarly, ReadersFit, Asleep, Awake
<1>6. ASSUME NEW e \in Computer \ rejoined' PROVE HandedOnce(e)'
  <2>1. e \in Computer \ rejoined /\ HandedOnce(e)
    BY DEF WakeShape
  <2> QED
    BY <2>1 DEF WakeShape, WakeTypeOK, OneIsSent, NothingIsEarly, HandedOnce, Comes, Asleep, Awake
<1>7. CalmFits'
  BY  DEF WakeShape, WakeTypeOK, OneIsSent, CalmFits, CalmRoster, CalmReaders, CalmHanded, Comes, HasWoken, Asked, Reach, Here
<1> QED
  BY <1>1, <1>2, <1>3, <1>4, <1>5, <1>6, <1>7 DEF WakeInv

LEMMA CrashInstanceKeeps ==
  ASSUME WakeInv, NEW i \in Instance, CrashInstance(i)
  PROVE  WakeInv'
<1> USE WakeNames DEF WakeInv, CrashInstance, Mishap, Place, Seats, Links, Counts
<1>a. /\ sends' \in [WakeCall -> SendRecord]
      /\ \A b \in WakeCall :
           /\ sends'[b].at = sends[b].at /\ sends'[b].wake = sends[b].wake
           /\ sends'[b].triage = sends[b].triage /\ sends'[b].reach = sends[b].reach
           /\ sends'[b].stage = sends[b].stage
              \/ /\ sends'[b].stage = "lost" /\ sends[b].at = i
                 /\ sends[b].stage \in {"arrived", "stored", "decided"}
           /\ sends[b].at = i => sends'[b].stage \notin {"arrived", "stored", "decided"}
  <2>1. \A b \in WakeCall : sends[b] \in SendRecord
    BY DEF WakeShape
  <2>2. \A b \in WakeCall : [sends[b] EXCEPT !.stage = "lost"] \in SendRecord
    BY <2>1 DEF SendRecord, Stage
  <2>3. sends' \in [WakeCall -> SendRecord]
    BY <2>1, <2>2
  <2> QED
    BY <2>1, <2>3 DEF SendRecord
<1> HIDE DEF CrashInstance
<1>b. /\ resolving' = {c \in resolving : sends[c].at # i} /\ wire' = {m \in wire : m[1] # i}
      /\ \A d \in Computer : attached'[d] = IF attached[d] = i THEN NoInstance ELSE attached[d]
      /\ attached' \in [Computer -> Instance \cup {NoInstance}] /\ mishaps' = mishaps + 1
      /\ UNCHANGED <<channel, owner, post, seated, serving, known, rejoined, row, frames, wakes,
                     entitled, shifts>>
  BY DEF CrashInstance, WakeShape, WakeTypeOK
<1>1. WakeShape'
  BY <1>a, <1>b DEF WakeShape, WakeTypeOK
<1>2. ChannelFits'
  BY <1>b DEF WakeShape, ChannelFits
<1>3. OneIsSent'
  BY <1>a, <1>b, WakeCounts DEF WakeShape, WakeTypeOK, OneIsSent
<1>4. NothingIsEarly'
  BY <1>a, <1>b, WakeCounts DEF NothingIsEarly, Asleep, Awake
<1>5. ReadersFit'
  BY <1>a, <1>b, WakeCounts DEF ReadersFit, Awake
<1>6. ASSUME NEW e \in Computer \ rejoined' PROVE HandedOnce(e)'
  <2>1. e \in Computer \ rejoined /\ HandedOnce(e) /\ (Asleep(e)' <=> Asleep(e))
    BY <1>b DEF WakeShape, Asleep, Awake
  <2>2. row # 0 => (Comes(e)' => Comes(e))
    <3>1. /\ row # 0 => sends'[row].at = sends[row].at
          /\ wire' \subseteq wire /\ row' = row
          /\ attached'[e] \in {attached[e], NoInstance}
      BY <1>a, <1>b, WakeCounts
    <3>2. \A c \in WakeCall : <<NoInstance, c>> \notin wire
      BY DEF WakeShape, WakeTypeOK
    <3>3. row # 0 => row \in WakeCall
      BY WakeCounts
    <3> QED
      BY ONLY <3>1, <3>2, <3>3 DEF Comes
  <2> QED
    BY <1>b, <2>1, <2>2 DEF HandedOnce
<1>7. CalmFits'
  BY <1>b DEF CalmFits, WakeShape
<1> QED
  BY <1>1, <1>2, <1>3, <1>4, <1>5, <1>6, <1>7 DEF WakeInv

-----------------------------------------------------------------------------
(* The message that wakes agents: what follows                                *)

LEMMA WakeStarts ==
  ASSUME WakeInit PROVE WakeInv
<1> USE WakeNames DEF WakeInit
<1>a. /\ Unsent \in SendRecord
      /\ \A c \in WakeCall : sends[c] = Unsent
      /\ sends \in [WakeCall -> SendRecord]
  BY DEF Unsent, SendRecord, Stage
<1>b. \A d \in Computer, a \in Wakee : wakes[<<d, a>>].called = 0 /\ wakes[<<d, a>>].triage = 0
  OBVIOUS
<1>c. \A d \in Computer : Asleep(d)
  BY ONLY <1>b, ZeroIsNotMore DEF Asleep, Awake
<1>1. WakeShape
  <2>1. wakes \in [Computer \X Wakee -> [called : Nat, triage : Nat]]
    OBVIOUS
  <2>2. WakeTypeOK
    BY WakeAssumption DEF WakeTypeOK
  <2>3. post \in [author : {"human", "agent"}, text : SUBSET Wakee]
    OBVIOUS
  <2> QED
    BY <1>a, <2>1, <2>2, <2>3 DEF WakeShape
<1>2. ChannelFits
  <2>1. ASSUME Cardinality(seated) = 1, seated \subseteq Wakee, channel.kind = "dm"
        PROVE  \E a \in Wakee : seated = {a}
    <3>1. IsFiniteSet(seated)
      BY <2>1, WakeAssumption, FS_Subset
    <3> QED
      BY <2>1, <3>1, FS_Singleton
  <2> QED
    BY <2>1 DEF ChannelFits
<1>3. OneIsSent
  BY <1>a DEF OneIsSent, Unsent
<1>4. NothingIsEarly
  BY <1>c DEF NothingIsEarly
<1>5. ReadersFit
  BY <1>b DEF ReadersFit, Awake
<1>6. \A d \in Computer : HandedOnce(d)
  BY DEF HandedOnce
<1>7. CalmFits
  BY DEF CalmFits, CalmRoster
<1> QED
  BY <1>1, <1>2, <1>3, <1>4, <1>5, <1>6, <1>7 DEF WakeInv

LEMMA WakeStutters ==
  ASSUME WakeInv, UNCHANGED wakeVars PROVE WakeInv'
<1> USE DEF WakeInv, wakeVars
<1>1. WakeShape' /\ ChannelFits' /\ OneIsSent'
  BY DEF WakeShape, WakeTypeOK, ChannelFits, OneIsSent
<1>2. NothingIsEarly' /\ ReadersFit'
  BY DEF NothingIsEarly, ReadersFit, Asleep, Awake
<1>3. (\A d \in Computer \ rejoined : HandedOnce(d))'
  BY DEF HandedOnce, Comes, Asleep, Awake
<1>4. CalmFits'
  BY CalmIsKept
<1> QED
  BY <1>1, <1>2, <1>3, <1>4 DEF WakeInv

LEMMA WakeSteps ==
  ASSUME WakeInv, [WakeNext]_wakeVars PROVE WakeInv'
<1>1. ASSUME NEW c \in WakeCall, NEW i \in Instance, CallSend(c, i) PROVE WakeInv'
  BY <1>1, CallSendKeeps
<1>2. ASSUME NEW c \in WakeCall, NEW i \in Instance, ReceivePublished(i, c) PROVE WakeInv'
  BY <1>2, ReceivePublishedKeeps
<1>3. ASSUME NEW c \in WakeCall, NEW i \in Instance, LosePublished(i, c) PROVE WakeInv'
  BY <1>3, LosePublishedKeeps
<1>4. ASSUME NEW c \in WakeCall, NEW d \in Computer, HandleDeliver(d, c) PROVE WakeInv'
  BY <1>4, HandleDeliverKeeps
<1>5. ASSUME NEW c \in WakeCall, StoreMessage(c) PROVE WakeInv'
  BY <1>5, StoreMessageKeeps
<1>6. ASSUME NEW c \in WakeCall, ReplayIsAnswered(c) PROVE WakeInv'
  BY <1>6, ReplayIsAnsweredKeeps
<1>7. ASSUME NEW c \in WakeCall, LookUpReaders(c) PROVE WakeInv'
  BY <1>7, LookUpReadersKeeps
<1>8. ASSUME NEW c \in WakeCall, SendFails(c) PROVE WakeInv'
  BY <1>8, SendFailsKeeps
<1>9. ASSUME NEW c \in WakeCall, PublishMessage(c) PROVE WakeInv'
  BY <1>9, PublishMessageKeeps
<1>10. ASSUME NEW c \in WakeCall, DropMessage(c) PROVE WakeInv'
  BY <1>10, DropMessageKeeps
<1>11. ASSUME NEW a \in Wakee, LeaveChannel(a) PROVE WakeInv'
  BY <1>11, LeaveChannelKeeps
<1>12. ASSUME NEW a \in Wakee, ChangeDuty(a) PROVE WakeInv'
  BY <1>12, ChangeDutyKeeps
<1>13. ASSUME NEW a \in Wakee, NEW d \in Computer, LearnDuty(a, d) PROVE WakeInv'
  BY <1>13, LearnDutyKeeps
<1>14. ASSUME NEW d \in Computer, Disconnect(d) PROVE WakeInv'
  BY <1>14, DisconnectKeeps
<1>15. ASSUME NEW d \in Computer, NEW i \in Instance, Reconnect(d, i) PROVE WakeInv'
  BY <1>15, ReconnectKeeps
<1>16. ASSUME NEW i \in Instance, CrashInstance(i) PROVE WakeInv'
  BY <1>16, CrashInstanceKeeps
<1> QED
  BY <1>1, <1>2, <1>3, <1>4, <1>5, <1>6, <1>7, <1>8, <1>9, <1>10, <1>11, <1>12, <1>13, <1>14,
     <1>15, <1>16, WakeStutters DEF WakeNext

LEMMA WakesFollow ==
  ASSUME WakeInv PROVE WakesAreWarranted
<1> USE DEF WakeInv
<1>0. WakeShape
  OBVIOUS
<1>1. \A d \in Computer, a \in Wakee : Times(d, a) > 0 <=> Awake(d, a)
  <2>1. ASSUME NEW d \in Computer, NEW a \in Wakee
        PROVE  wakes[<<d, a>>].called \in Nat /\ wakes[<<d, a>>].triage \in Nat
    BY ONLY <1>0, WakeCounts
  <2>2. \A m, n \in Nat : m + n > 0 <=> m > 0 \/ n > 0
    OBVIOUS
  <2> QED
    BY ONLY <2>1, <2>2 DEF Times, Awake
<1>2. \A d \in Computer, a \in Wakee : Awake(d, a) =>
        /\ row # 0 /\ post.author = "human"
        /\ a \in sends[row].wake \/ a \in sends[row].triage
        /\ wakes[<<d, a>>].triage > 0 => a \in sends[row].triage
        /\ wakes[<<d, a>>].triage = 0 => a \in sends[row].wake
  BY WakeCounts DEF ReadersFit, Awake
<1>3. ASSUME NEW d \in Computer \ rejoined
      PROVE  Cardinality(CalledHere(d)) <= 1 /\ \A a \in Wakee : Times(d, a) <= 1
  <2>1. /\ \A a, b \in Wakee : wakes[<<d, a>>].called > 0 /\ wakes[<<d, b>>].called > 0 => a = b
        /\ \A a \in Wakee : Times(d, a) <= 1
    <3>1. CASE row = 0
      BY <3>1, <1>1, <1>2, WakeCounts DEF Times, Awake
    <3>2. CASE row # 0
      BY <3>2 DEF HandedOnce, Times
    <3> QED
      BY <3>1, <3>2
  <2>2. CalledHere(d) = {} \/ \E a : CalledHere(d) = {a}
    BY ONLY <2>1 DEF CalledHere
  <2>3. Cardinality(CalledHere(d)) = 0 \/ Cardinality(CalledHere(d)) = 1
    BY ONLY <2>2, FS_EmptySet, FS_Singleton
  <2> QED
    BY ONLY <2>1, <2>3
<1>4. Woken \subseteq entitled
  BY <1>1, <1>2 DEF Woken, ReadersFit
<1>5. ASSUME NEW k \in DOMAIN wakes, wakes[k].triage > 0 PROVE Woken = {Manager}
  <2>0. k \in Computer \X Wakee
    BY <1>0, <1>5 DEF WakeShape
  <2>1. PICK d \in Computer, a \in Wakee : k = <<d, a>> /\ wakes[<<d, a>>].triage > 0
    BY ONLY <1>5, <2>0
  <2>2. Awake(d, a) /\ row # 0 /\ a \in sends[row].triage
    BY <2>1, <1>2 DEF Awake
  <2>3. a = Manager /\ sends[row].wake = {} /\ sends[row].triage \subseteq {Manager}
    BY <2>2 DEF ReadersFit
  <2> QED
    BY <1>1, <1>2, <2>2, <2>3 DEF Woken
<1>6. post.author = "agent" => Woken = {}
  BY <1>1, <1>2 DEF Woken
<1> QED
  BY <1>3, <1>4, <1>5, <1>6 DEF WakesAreWarranted

LEMMA NobodyIsLeft ==
  ASSUME WakeInv PROVE NobodyIsMissed
<1> SUFFICES ASSUME mishaps = 0, shifts = 0, SendingIsOver, post.author = "human"
             PROVE  /\ \A a \in Asked, d \in Computer : owner[a] = owner[d] => CalledHere(d) # {}
                    /\ Asked = {} /\ channel.triage
                         => ((Manager \in seated \cap serving /\ HasComputer(Manager))
                               <=> Woken = {Manager})
  BY DEF NobodyIsMissed, Asked
<1> USE WakeNames DEF WakeInv, SendingIsOver
<1>1. CalmRoster /\ CalmReaders /\ CalmHanded /\ row \in WakeCall
  BY WakeCounts DEF CalmFits
<1>2. /\ sends[row].wake = Asked
      /\ sends[row].triage = IF channel.triage /\ Asked = {}
                             THEN seated \cap serving \cap {Manager} ELSE {}
  BY <1>1 DEF CalmReaders
<1>3. \A d \in Computer : frames[<<d, row>>] = 0
  <2>1. DOMAIN frames = Computer \X WakeCall
    BY DEF WakeShape, WakeTypeOK
  <2>2. \A k \in DOMAIN frames : frames[k] = 0
    OBVIOUS
  <2> QED
    BY ONLY <1>1, <2>1, <2>2
<1>4. \A d \in Reach : HasWoken(d)
  BY <1>1, <1>3, ZeroIsNotMore DEF CalmHanded, Comes, Reach
<1>5. ASSUME NEW a \in seated \cap serving, NEW d \in Computer, owner[a] = owner[d]
      PROVE  d \in Reach /\ a \in Here(d) /\ a \in Wakee
  BY <1>1, <1>5 DEF Reach, Here, CalmRoster, WakeShape, WakeTypeOK
<1>6. ASSUME NEW a \in Asked, NEW d \in Computer, owner[a] = owner[d] PROVE CalledHere(d) # {}
  <2>1. HasWoken(d) /\ a \in Here(d)
    BY <1>4, <1>5, <1>6 DEF Asked
  <2> QED
    BY <1>2, <2>1 DEF HasWoken, CalledHere
<1>7. ASSUME Asked = {}, channel.triage, Manager \in seated \cap serving, HasComputer(Manager)
      PROVE  Woken = {Manager}
  <2>1. PICK d \in Computer : owner[d] = owner[Manager]
    BY <1>7 DEF HasComputer
  <2>2. HasWoken(d) /\ Manager \in Here(d) /\ Manager \in sends[row].triage
    BY <1>2, <1>4, <1>5, <1>7, <2>1
  <2>3. wakes[<<d, Manager>>].triage > 0
    BY <1>2, <1>7, <2>2 DEF HasWoken
  <2> QED
    BY <2>3, WakesFollow DEF WakesAreWarranted, WakeShape
<1>8. ASSUME Asked = {}, Woken = {Manager} 
      PROVE  Manager \in seated \cap serving /\ HasComputer(Manager)
  <2>1. PICK d \in Computer : Awake(d, Manager)
    BY <1>8, WakeCounts DEF Woken, Times, Awake
  <2>2. Manager \in sends[row].triage /\ owner[Manager] = owner[d]
    BY <1>2, <1>8, <2>1 DEF ReadersFit, Awake
  <2> QED
    BY <1>2, <2>2 DEF HasComputer
<1> QED
  BY <1>6, <1>7, <1>8

LEMMA JoinersAreWilling ==
  ASSUME [WakeNext]_wakeVars PROVE seated' \subseteq seated \cup Willing \cup Mine
<1> USE DEF Place, Seats, Counts, Links
<1>1. ASSUME NEW c \in WakeCall, StoreMessage(c) PROVE seated' \subseteq seated \cup Willing \cup Mine
  BY <1>1 DEF StoreMessage, Joining
<1>2. ASSUME NEW a \in Wakee, LeaveChannel(a) PROVE seated' \subseteq seated
  BY <1>2 DEF LeaveChannel
<1>3. ASSUME NEW c \in WakeCall, NEW i \in Instance,
             CallSend(c, i) \/ ReceivePublished(i, c) \/ LosePublished(i, c)
      PROVE  seated' = seated
  BY <1>3 DEF CallSend, ReceivePublished, LosePublished
<1>4. ASSUME NEW c \in WakeCall, ReplayIsAnswered(c) \/ LookUpReaders(c) \/ SendFails(c)
                                 \/ PublishMessage(c) \/ DropMessage(c)
      PROVE  seated' = seated
  BY <1>4 DEF ReplayIsAnswered, LookUpReaders, SendFails, PublishMessage, DropMessage
<1>5. ASSUME NEW c \in WakeCall, NEW d \in Computer, HandleDeliver(d, c) PROVE seated' = seated
  BY <1>5 DEF HandleDeliver
<1>6. ASSUME NEW a \in Wakee, NEW d \in Computer, ChangeDuty(a) \/ LearnDuty(a, d)
      PROVE  seated' = seated
  BY <1>6 DEF ChangeDuty, LearnDuty
<1>7. ASSUME NEW a \in Wakee, ChangeDuty(a) PROVE seated' = seated
  BY <1>7 DEF ChangeDuty
<1>8. ASSUME NEW d \in Computer, NEW i \in Instance, Reconnect(d, i) PROVE seated' = seated
  BY <1>8 DEF Reconnect
<1>9. ASSUME NEW d \in Computer, Disconnect(d) PROVE seated' = seated
  BY <1>9 DEF Disconnect
<1>10. ASSUME NEW i \in Instance, CrashInstance(i) PROVE seated' = seated
  BY <1>10 DEF CrashInstance
<1>11. UNCHANGED wakeVars => seated' = seated
  BY DEF wakeVars
<1> QED
  BY <1>1, <1>2, <1>3, <1>4, <1>5, <1>6, <1>7, <1>8, <1>9, <1>10, <1>11 DEF WakeNext

\* However often a message is sent and whatever fails or moves on its way, it wakes one agent
\* of a computer at most and only members on duty, what agents say wakes nobody, when nothing
\* fails everyone called is woken, and a mention brings in the willing only: the send routes,
\* broadcast(), the published copies and handleAgentDeliver, over every roster.
THEOREM MessagesAreFound == WakeSpec => MessagesFindTheirAgent
<1>1. WakeInit => WakeInv
  BY WakeStarts
<1>2. WakeInv /\ [WakeNext]_wakeVars => WakeInv'
  BY WakeSteps
<1>3. WakeInv => WakesAreWarranted /\ NobodyIsMissed
  BY WakesFollow, NobodyIsLeft
<1>4. [WakeNext]_wakeVars => [seated' \subseteq seated \cup Willing \cup Mine]_wakeVars
  BY JoinersAreWilling
<1> QED
  BY <1>1, <1>2, <1>3, <1>4, PTL DEF WakeSpec, MessagesFindTheirAgent, OnlyTheWillingJoin
-----------------------------------------------------------------------------
(* Approvals: the inductive invariant                                         *)

Issued == DOMAIN issuedIn

DaemonShape ==
  /\ filed \in [Conversation -> Interrupt \cup {None}]
  /\ issuedIn \in Seq(Conversation) /\ Len(issuedIn) <= MaxPrompts
  /\ expired \subseteq Interrupt /\ outdated \subseteq Interrupt /\ entries \in Seq(Entry)
  /\ sentTokens \subseteq Issued

WorkShape ==
  /\ work \in [stage : {"none", "preparing", "sent"}, conv : Conversation \cup {None},
               resume : Interrupt \cup {None}, decided : Interrupt \cup {None}, old : BOOLEAN]
  /\ work.stage # "none" => work.conv \in Conversation

FlagShape == onDuty \in BOOLEAN /\ cut \in BOOLEAN /\ link \in BOOLEAN /\ browser \in BOOLEAN

WayShape ==
  /\ upward \in Seq(SUBSET Issued) /\ toBrowser \in Seq(SUBSET Issued)
  /\ snapshot \subseteq Issued /\ banner \subseteq Issued
  /\ downward \in Seq(Command) /\ routing \subseteq Command

ApprovalsShape == DaemonShape /\ WorkShape /\ FlagShape /\ WayShape

\* What a conversation waits for, or its turn goes out with, was asked in this conversation.
PromptsFit ==
  /\ \A c \in Conversation : filed[c] # None => filed[c] \in Issued /\ issuedIn[filed[c]] = c
  /\ work.stage # "none" /\ work.resume # None =>
       work.resume \in Issued /\ issuedIn[work.resume] = work.conv

\* A token that was sent is on file no longer than its turn is out, and a turn that is being
\* prepared has one that was not sent.
TokensFit ==
  /\ \A c \in Conversation : filed[c] \in sentTokens =>
       work.stage = "sent" /\ work.conv = c /\ work.resume = filed[c]
  /\ work.stage = "preparing" => work.resume \notin sentTokens

\* What the server, and what the page, will know when all that is under way has arrived.
Told == IF upward = <<>> THEN snapshot ELSE upward[Len(upward)]
Shown == IF toBrowser = <<>> THEN banner ELSE toBrowser[Len(toBrowser)]

\* The server will know what waits, but for what expired since it was told.
TellsFit ==
  IF link THEN Summary(filed) \subseteq Told /\ Told \subseteq Summary(filed) \cup expired
          ELSE upward = <<>>

PageFits == browser => snapshot \subseteq Shown

ApprovalsInv ==
  /\ ApprovalsShape /\ PromptsFit /\ DecisionFitsItsPrompt /\ TokensFit /\ TellsFit /\ PageFits

LEMMA PutFirst ==
  ASSUME NEW T, NEW s \in Seq(T), NEW x \in T
  PROVE  <<x>> \o s \in Seq(T)
OBVIOUS

LEMMA SeqGrows ==
  ASSUME NEW S, NEW T, S \subseteq T, NEW s \in Seq(SUBSET S)
  PROVE  s \in Seq(SUBSET T)
OBVIOUS

LEMMA PromptNumbers ==
  ASSUME DaemonShape
  PROVE  /\ Len(issuedIn) \in Nat /\ Issued = 1 .. Len(issuedIn) /\ Issued \subseteq Interrupt
         /\ None \notin Interrupt /\ None \notin Issued /\ MaxPrompts \in Nat
  BY ApprovalsAssumption DEF DaemonShape, Issued, Interrupt, None

LEMMA ApprovalsTypes == ApprovalsShape => ApprovalsTypeOK
<1> SUFFICES ASSUME ApprovalsShape PROVE ApprovalsTypeOK
  OBVIOUS
<1> USE PromptNumbers DEF ApprovalsShape
<1>1. upward \in Seq(SUBSET Interrupt) /\ toBrowser \in Seq(SUBSET Interrupt)
  BY SeqGrows DEF WayShape
<1>2. {onDuty, cut, link, browser} \subseteq BOOLEAN
  BY DEF FlagShape
<1> QED
  BY <1>1, <1>2 DEF ApprovalsTypeOK, DaemonShape, WorkShape, WayShape

\* What is appended is what will be known.
LEMMA LastIsTold ==
  ASSUME NEW T, NEW s \in Seq(T), NEW x \in T
  PROVE  /\ Append(s, x) \in Seq(T) /\ Append(s, x) # <<>>
         /\ Append(s, x)[Len(Append(s, x))] = x
OBVIOUS

\* What arrives leaves the last one under way, or is the last.
LEMMA HeadIsLast ==
  ASSUME NEW T, NEW s \in Seq(T), s # <<>>
  PROVE  /\ Head(s) \in T /\ Tail(s) \in Seq(T)
         /\ Tail(s) = <<>> => Head(s) = s[Len(s)]
         /\ Tail(s) # <<>> => Tail(s)[Len(Tail(s))] = s[Len(s)]
<1>1. Len(s) \in Nat \ {0} /\ Head(s) = s[1] /\ Tail(s) \in Seq(T) /\ Len(Tail(s)) = Len(s) - 1
  OBVIOUS
<1>2. \A i \in 1 .. Len(s) - 1 : Tail(s)[i] = s[i + 1]
  OBVIOUS
<1>3. CASE Len(s) = 1
  <2>1. Len(Tail(s)) = 0
    BY <1>1, <1>3
  <2>2. \A t \in Seq(T) : t # <<>> => Len(t) # 0
    BY EmptySeq
  <2>3. Tail(s) = <<>>
    BY ONLY <1>1, <2>1, <2>2
  <2> QED
    BY <1>1, <1>3, <2>3
<1>4. CASE Len(s) # 1
  <2>1. Len(s) - 1 \in 1 .. Len(s) - 1 /\ Tail(s) # <<>>
    BY <1>1, <1>4, EmptySeq
  <2> QED
    BY <1>1, <1>2, <2>1
<1> QED
  BY <1>3, <1>4

LEMMA WriteTells ==
  ASSUME ApprovalsShape, TellsFit, UNCHANGED <<link, snapshot, expired>>,
         Issued \subseteq Issued', \A c \in Conversation : filed'[c] \in Issued' \cup {None},
         \/ UNCHANGED <<filed, upward>>
         \/ ~link /\ upward' = upward
         \/ /\ link
            /\ \/ upward' = Append(upward, Summary(filed'))
               \/ \E seen \in SUBSET Issued : upward' = Append(Append(upward, seen), Summary(filed'))
  PROVE  upward' \in Seq(SUBSET Issued') /\ TellsFit'
<1> DEFINE now == Summary(filed')
<1>1. now \in SUBSET Issued' /\ Summary(filed)' = now
  BY DEF Summary
<1>2. upward \in Seq(SUBSET Issued')
  BY SeqGrows DEF ApprovalsShape, WayShape
<1>3. CASE UNCHANGED <<filed, upward>>
  BY <1>2, <1>3 DEF TellsFit, Told, Summary
<1>4. CASE ~link /\ upward' = upward
  BY <1>2, <1>4 DEF TellsFit
<1>5. ASSUME link, NEW told \in Seq(SUBSET Issued'), upward' = Append(told, now)
      PROVE  upward' \in Seq(SUBSET Issued') /\ TellsFit'
  <2> HIDE DEF now
  <2>1. upward' \in Seq(SUBSET Issued') /\ Told' = now
    BY <1>1, <1>5, LastIsTold DEF Told
  <2> QED
    BY <1>1, <1>5, <2>1 DEF TellsFit
<1>6. CASE link /\ upward' = Append(upward, now)
  BY <1>2, <1>5, <1>6
<1>7. ASSUME link, NEW seen \in SUBSET Issued, upward' = Append(Append(upward, seen), now)
      PROVE  upward' \in Seq(SUBSET Issued') /\ TellsFit'
  <2>1. Append(upward, seen) \in Seq(SUBSET Issued')
    BY <1>2, LastIsTold
  <2> QED
    BY <1>5, <1>7, <2>1
<1> QED
  BY <1>3, <1>4, <1>6, <1>7

LEMMA BeginKeeps ==
  ASSUME ApprovalsInv, Begin
  PROVE  ApprovalsInv'
<1> USE PromptNumbers DEF ApprovalsInv, ApprovalsShape, promptFacts, serverSide
<1> DEFINE e == Head(entries)
           kept == IF filed[e.conv] \in expired \cup outdated
                   THEN [filed EXCEPT ![e.conv] = None] ELSE filed
           taken == IF kept = filed THEN upward ELSE Pushed(kept)
<1>a. e \in Entry /\ Tail(entries) \in Seq(Entry) /\ e.conv \in Conversation
  <2>1. entries \in Seq(Entry) /\ entries # <<>>
    BY DEF Begin, DaemonShape
  <2>2. Head(entries) \in Entry /\ Tail(entries) \in Seq(Entry)
    BY ONLY <2>1, HeadIsLast
  <2> QED
    BY <2>2 DEF Entry
<1>b. kept \in [Conversation -> Interrupt \cup {None}]
      /\ \A c \in Conversation : kept[c] \in {filed[c], None}
  BY <1>a DEF DaemonShape
<1>c. Summary(kept) \subseteq Issued
  BY <1>b DEF Summary, PromptsFit
<1>d. UNCHANGED <<issuedIn, expired, outdated, onDuty, link, downward, snapshot, browser,
                  toBrowser, banner, routing, sentTokens>>
  BY DEF Begin
<1>e. entries' \in Seq(Entry) /\ work.stage = "none" /\ cut' \in BOOLEAN
  BY <1>a DEF Begin
<1>f. PICK st \in [Conversation -> Interrupt \cup {None}] :
        /\ filed' = st /\ \A c \in Conversation : st[c] \in {filed[c], None}
        /\ \/ st = filed /\ upward' = upward
           \/ ~link /\ upward' = upward
           \/ /\ link
              /\ \/ upward' = Append(upward, Summary(st))
                 \/ upward' = Append(Append(upward, Summary(kept)), Summary(st))
  <2>1. CASE DecisionHolds(e, kept[e.conv])
    <3>1. PICK swept \in {kept, Without(kept, outdated)} :
            /\ filed' = swept
            /\ upward' = IF swept = kept THEN taken
                         ELSE IF link THEN Append(taken, Summary(swept)) ELSE taken
      BY <2>1 DEF Begin
    <3>2. swept \in [Conversation -> Interrupt \cup {None}]
          /\ \A c \in Conversation : swept[c] \in {filed[c], None}
      BY <1>b DEF Without
    <3> HIDE DEF kept
    <3> QED
      BY <3>1, <3>2 DEF Pushed
  <2>2. CASE ~DecisionHolds(e, kept[e.conv])
    <3>1. filed' = kept /\ upward' = IF link THEN Append(taken, Summary(kept)) ELSE taken
      BY <2>2 DEF Begin
    <3> HIDE DEF kept
    <3> QED
      BY <1>b, <3>1 DEF Pushed
  <2> QED
    BY <2>1, <2>2
<1>g. \/ work' = NoWork
      \/ /\ DecisionHolds(e, kept[e.conv])
         /\ work' = [stage |-> "preparing", conv |-> e.conv, old |-> FALSE,
                     resume |-> kept[e.conv], decided |-> e.decided]
  BY DEF Begin
<1> HIDE DEF kept, taken, e
<1>h. upward' \in Seq(SUBSET Issued) /\ TellsFit' /\ Issued' = Issued
  <2>1. Issued' = Issued /\ UNCHANGED <<link, snapshot, expired>>
    BY <1>d DEF Issued
  <2>2. \A c \in Conversation : filed'[c] \in Issued' \cup {None}
    BY <1>f, <2>1 DEF PromptsFit
  <2> HIDE DEF ApprovalsInv
  <2> QED
    BY <1>c, <1>f, <2>1, <2>2, WriteTells DEF ApprovalsInv
<1>1. ApprovalsShape'
  <2>1. DaemonShape'
    BY <1>d, <1>e, <1>f, <1>h DEF DaemonShape
  <2>2. WorkShape'
    <3>1. e.decided \in Interrupt \cup {None} /\ kept[e.conv] \in Interrupt \cup {None}
      BY <1>a, <1>b DEF Entry
    <3>2. CASE work' = NoWork
      BY <3>2 DEF NoWork, WorkShape
    <3>3. CASE work' = [stage |-> "preparing", conv |-> e.conv, old |-> FALSE,
                        resume |-> kept[e.conv], decided |-> e.decided]
      BY ONLY <1>a, <3>1, <3>3 DEF WorkShape
    <3> QED
      BY <1>g, <3>2, <3>3
  <2>3. FlagShape'
    BY <1>d, <1>e DEF FlagShape
  <2>4. WayShape'
    BY <1>d, <1>h DEF WayShape
  <2> QED
    BY <2>1, <2>2, <2>3, <2>4
<1>2. PromptsFit'
  <2>1. Issued' = Issued /\ issuedIn' = issuedIn /\ e.conv \in Conversation
    BY <1>a, <1>d, <1>h DEF Entry
  <2>2. \A c \in Conversation : filed'[c] # None => filed'[c] \in Issued /\ issuedIn[filed'[c]] = c
    BY <1>f DEF PromptsFit
  <2>3. kept[e.conv] # None => kept[e.conv] \in Issued /\ issuedIn[kept[e.conv]] = e.conv
    BY <1>b, <2>1 DEF PromptsFit
  <2>4. work'.stage # "none" /\ work'.resume # None =>
          work'.resume \in Issued /\ issuedIn[work'.resume] = work'.conv
    BY ONLY <1>g, <2>3 DEF NoWork
  <2> QED
    BY <2>1, <2>2, <2>4 DEF PromptsFit
<1>3. DecisionFitsItsPrompt'
  BY <1>g DEF DecisionFitsItsPrompt, DecisionHolds, NoWork
<1>4. TokensFit'
  <2>1. \A c \in Conversation : filed[c] \notin sentTokens
    BY <1>e DEF TokensFit
  <2>2. None \notin sentTokens
    BY DEF DaemonShape
  <2> QED
    BY <1>a, <1>b, <1>d, <1>f, <1>g, <2>1, <2>2 DEF TokensFit, NoWork
<1>6. PageFits'
  BY <1>d DEF PageFits, Shown
<1> QED
  BY <1>1, <1>2, <1>3, <1>4, <1>h, <1>6 DEF ApprovalsInv

LEMMA SendResumingTurnKeeps ==
  ASSUME ApprovalsInv, SendResumingTurn
  PROVE  ApprovalsInv'
<1> USE PromptNumbers DEF ApprovalsInv, ApprovalsShape, SendResumingTurn, Counted, promptFacts, daemonSide, serverSide
<1>1. ApprovalsShape'
  <2>1. DaemonShape'
    BY DEF DaemonShape, WorkShape, PromptsFit, Issued
  <2>2. WorkShape'
    BY DEF WorkShape, DaemonShape, NoWork, Entry
  <2>3. FlagShape'
    BY DEF FlagShape
  <2>4. WayShape'
    BY DEF WayShape, DaemonShape, Issued, Command
  <2> QED
    BY <2>1, <2>2, <2>3, <2>4
<1>2. PromptsFit'
  BY DEF PromptsFit, ApprovalsShape, DaemonShape, WorkShape, Issued, NoWork
<1>3. DecisionFitsItsPrompt'
  BY DEF DecisionFitsItsPrompt, NoWork
<1>4. TokensFit'
  BY DEF PromptsFit, TokensFit, DaemonShape, WorkShape, NoWork
<1>5. TellsFit'
  BY DEF ApprovalsShape, DaemonShape, FlagShape, WayShape, TellsFit, Told, Summary
<1>6. PageFits'
  BY DEF ApprovalsShape, WayShape, FlagShape, PageFits, Shown
<1> QED
  BY <1>1, <1>2, <1>3, <1>4, <1>5, <1>6 DEF ApprovalsInv

LEMMA PrepareFailsKeeps ==
  ASSUME ApprovalsInv, PrepareFails
  PROVE  ApprovalsInv'
<1> USE PromptNumbers DEF ApprovalsInv, ApprovalsShape, PrepareFails, PutBackEntry, Counted, promptFacts, daemonSide, serverSide
<1>1. ApprovalsShape'
  <2>1. DaemonShape'
    <3>1. [conv |-> work.conv, decided |-> work.decided] \in Entry
      BY DEF WorkShape, Entry
    <3>2. entries' \in Seq(Entry)
      <4>1. entries \in Seq(Entry)
        BY DEF DaemonShape
      <4> QED
        BY <3>1, <4>1, PutFirst
    <3> QED
      BY <3>2 DEF DaemonShape, Issued
  <2>2. WorkShape'
    BY DEF WorkShape, DaemonShape, NoWork, Entry
  <2>3. FlagShape'
    BY DEF FlagShape
  <2>4. WayShape'
    BY DEF WayShape, DaemonShape, Issued, Command
  <2> QED
    BY <2>1, <2>2, <2>3, <2>4
<1>2. PromptsFit'
  BY DEF PromptsFit, ApprovalsShape, DaemonShape, WorkShape, Issued, NoWork
<1>3. DecisionFitsItsPrompt'
  BY DEF DecisionFitsItsPrompt, NoWork
<1>4. TokensFit'
  BY DEF PromptsFit, TokensFit, DaemonShape, WorkShape, NoWork
<1>5. TellsFit'
  BY DEF ApprovalsShape, DaemonShape, FlagShape, WayShape, TellsFit, Told, Summary
<1>6. PageFits'
  BY DEF ApprovalsShape, WayShape, FlagShape, PageFits, Shown
<1> QED
  BY <1>1, <1>2, <1>3, <1>4, <1>5, <1>6 DEF ApprovalsInv

LEMMA WorkEndsKeeps ==
  ASSUME ApprovalsInv, WorkEnds
  PROVE  ApprovalsInv'
<1> USE PromptNumbers DEF ApprovalsInv, ApprovalsShape, WorkEnds, AfterTurn, Counted, promptFacts, daemonSide, serverSide
<1> DEFINE st == AfterTurn("success")
<1>0. Write(st) /\ UNCHANGED <<link, snapshot, expired>>
  OBVIOUS
<1>a. st \in [Conversation -> Interrupt \cup {None}]
  BY DEF DaemonShape, WorkShape
<1>b. Issued \subseteq Issued' /\ \A c \in Conversation : st[c] \in Issued' \cup {None}
  BY DEF ApprovalsShape, DaemonShape, PromptsFit, Issued
<1>c. filed' = st /\ upward' \in Seq(SUBSET Issued') /\ TellsFit'
  <2>1. filed' = st /\ upward' = IF st = filed THEN upward ELSE Pushed(st)
    BY <1>0 DEF Write
  <2> HIDE DEF st, ApprovalsInv
  <2> QED
    BY <1>0, <1>b, <2>1, WriteTells DEF Pushed, ApprovalsInv
<1>1. ApprovalsShape'
  <2>1. DaemonShape'
    BY <1>a, <1>b, <1>c DEF DaemonShape, WorkShape, Issued, Entry, Command, WayShape
  <2>2. WorkShape'
    BY <1>a, <1>b, <1>c DEF WorkShape, DaemonShape, NoWork, Entry
  <2>3. FlagShape'
    BY <1>a, <1>b, <1>c DEF FlagShape
  <2>4. WayShape'
    BY <1>a, <1>b, <1>c DEF WayShape, DaemonShape, Issued, Command
  <2> QED
    BY <2>1, <2>2, <2>3, <2>4
<1>2. PromptsFit'
  BY <1>a, <1>b, <1>c DEF PromptsFit, ApprovalsShape, DaemonShape, WorkShape, Issued, NoWork
<1>3. DecisionFitsItsPrompt'
  BY <1>a, <1>b, <1>c DEF DecisionFitsItsPrompt, NoWork
<1>4. TokensFit'
  BY <1>a, <1>b, <1>c DEF PromptsFit, TokensFit, DaemonShape, WorkShape, NoWork
<1>5. TellsFit'
  BY <1>c
<1>6. PageFits'
  BY <1>a, <1>b, <1>c DEF ApprovalsShape, WayShape, FlagShape, PageFits, Shown
<1> QED
  BY <1>1, <1>2, <1>3, <1>4, <1>5, <1>6 DEF ApprovalsInv

LEMMA WorkFailsKeeps ==
  ASSUME ApprovalsInv, WorkFails
  PROVE  ApprovalsInv'
<1> USE PromptNumbers DEF ApprovalsInv, ApprovalsShape, WorkFails, AfterTurn, PutBackEntry, Counted, promptFacts, daemonSide, serverSide
<1> DEFINE st == AfterTurn("error")
<1>0. Write(st) /\ UNCHANGED <<link, snapshot, expired>>
  OBVIOUS
<1>a. st \in [Conversation -> Interrupt \cup {None}]
  BY DEF DaemonShape, WorkShape
<1>b. Issued \subseteq Issued' /\ \A c \in Conversation : st[c] \in Issued' \cup {None}
  BY DEF ApprovalsShape, DaemonShape, PromptsFit, Issued
<1>c. filed' = st /\ upward' \in Seq(SUBSET Issued') /\ TellsFit'
  <2>1. filed' = st /\ upward' = IF st = filed THEN upward ELSE Pushed(st)
    BY <1>0 DEF Write
  <2> HIDE DEF st, ApprovalsInv
  <2> QED
    BY <1>0, <1>b, <2>1, WriteTells DEF Pushed, ApprovalsInv
<1>1. ApprovalsShape'
  <2>1. DaemonShape'
    <3>1. [conv |-> work.conv, decided |-> work.decided] \in Entry
      BY DEF WorkShape, Entry
    <3>2. entries' \in Seq(Entry)
      <4>1. entries \in Seq(Entry)
        BY DEF DaemonShape
      <4> QED
        BY <3>1, <4>1, PutFirst
    <3> QED
      BY <1>a, <1>b, <1>c, <3>2 DEF DaemonShape, Issued
  <2>2. WorkShape'
    BY <1>a, <1>b, <1>c DEF WorkShape, DaemonShape, NoWork, Entry
  <2>3. FlagShape'
    BY <1>a, <1>b, <1>c DEF FlagShape
  <2>4. WayShape'
    BY <1>a, <1>b, <1>c DEF WayShape, DaemonShape, Issued, Command
  <2> QED
    BY <2>1, <2>2, <2>3, <2>4
<1>2. PromptsFit'
  BY <1>a, <1>b, <1>c DEF PromptsFit, ApprovalsShape, DaemonShape, WorkShape, Issued, NoWork
<1>3. DecisionFitsItsPrompt'
  BY <1>a, <1>b, <1>c DEF DecisionFitsItsPrompt, NoWork
<1>4. TokensFit'
  BY <1>a, <1>b, <1>c DEF PromptsFit, TokensFit, DaemonShape, WorkShape, NoWork
<1>5. TellsFit'
  BY <1>c
<1>6. PageFits'
  BY <1>a, <1>b, <1>c DEF ApprovalsShape, WayShape, FlagShape, PageFits, Shown
<1> QED
  BY <1>1, <1>2, <1>3, <1>4, <1>5, <1>6 DEF ApprovalsInv

LEMMA WorkInterruptsKeeps ==
  ASSUME ApprovalsInv, WorkInterrupts
  PROVE  ApprovalsInv'
<1> USE PromptNumbers DEF ApprovalsInv, ApprovalsShape, WorkInterrupts, Counted, promptFacts, daemonSide, serverSide
<1> DEFINE st == [filed EXCEPT ![work.conv] = Len(issuedIn) + 1]
<1>0. Write(st) /\ UNCHANGED <<link, snapshot, expired>>
  OBVIOUS
<1>a. st \in [Conversation -> Interrupt \cup {None}]
  <2>1. Len(issuedIn) + 1 \in Interrupt /\ work.conv \in Conversation
    BY DEF DaemonShape, WorkShape, Interrupt
  <2> QED
    BY <2>1 DEF DaemonShape
<1>b. Issued \subseteq Issued' /\ \A c \in Conversation : st[c] \in Issued' \cup {None}
  BY DEF ApprovalsShape, DaemonShape, PromptsFit, Issued
<1>c. filed' = st /\ upward' \in Seq(SUBSET Issued') /\ TellsFit'
  <2>1. filed' = st /\ upward' = IF st = filed THEN upward ELSE Pushed(st)
    BY <1>0 DEF Write
  <2> HIDE DEF st, ApprovalsInv
  <2> QED
    BY <1>0, <1>b, <2>1, WriteTells DEF Pushed, ApprovalsInv
<1>1. ApprovalsShape'
  <2>1. DaemonShape'
    <3>1. Len(issuedIn) + 1 \in Interrupt /\ work.conv \in Conversation
      BY DEF DaemonShape, WorkShape, Interrupt
    <3>2. issuedIn' \in Seq(Conversation) /\ Len(issuedIn') = Len(issuedIn) + 1
      BY <3>1 DEF DaemonShape
    <3> QED
      BY <1>a, <1>b, <1>c, <3>1, <3>2 DEF DaemonShape, Issued
  <2>2. WorkShape'
    BY <1>a, <1>b, <1>c DEF WorkShape, DaemonShape, NoWork, Entry
  <2>3. FlagShape'
    BY <1>a, <1>b, <1>c DEF FlagShape
  <2>4. WayShape'
    BY <1>a, <1>b, <1>c DEF WayShape, DaemonShape, Issued, Command
  <2> QED
    BY <2>1, <2>2, <2>3, <2>4
<1>2. PromptsFit'
  BY <1>a, <1>b, <1>c DEF PromptsFit, ApprovalsShape, DaemonShape, WorkShape, Issued, NoWork
<1>3. DecisionFitsItsPrompt'
  BY <1>a, <1>b, <1>c DEF DecisionFitsItsPrompt, NoWork
<1>4. TokensFit'
  BY <1>a, <1>b, <1>c DEF PromptsFit, TokensFit, DaemonShape, WorkShape, NoWork
<1>5. TellsFit'
  BY <1>c
<1>6. PageFits'
  BY <1>a, <1>b, <1>c DEF ApprovalsShape, WayShape, FlagShape, PageFits, Shown
<1> QED
  BY <1>1, <1>2, <1>3, <1>4, <1>5, <1>6 DEF ApprovalsInv

LEMMA MessageComesKeeps ==
  ASSUME ApprovalsInv, NEW c \in Conversation, MessageComes(c)
  PROVE  ApprovalsInv'
<1> USE PromptNumbers DEF ApprovalsInv, ApprovalsShape, MessageComes, Counted, promptFacts, daemonSide, serverSide
<1>1. ApprovalsShape'
  <2>1. DaemonShape'
    BY DEF DaemonShape, WorkShape, Issued, Entry, Command, WayShape
  <2>2. WorkShape'
    BY DEF WorkShape, DaemonShape, NoWork, Entry
  <2>3. FlagShape'
    BY DEF FlagShape
  <2>4. WayShape'
    BY DEF WayShape, DaemonShape, Issued, Command
  <2> QED
    BY <2>1, <2>2, <2>3, <2>4
<1>2. PromptsFit'
  BY DEF PromptsFit, ApprovalsShape, DaemonShape, WorkShape, Issued, NoWork
<1>3. DecisionFitsItsPrompt'
  BY DEF DecisionFitsItsPrompt, NoWork
<1>4. TokensFit'
  BY DEF PromptsFit, TokensFit, DaemonShape, WorkShape, NoWork
<1>5. TellsFit'
  BY DEF ApprovalsShape, DaemonShape, FlagShape, WayShape, TellsFit, Told, Summary
<1>6. PageFits'
  BY DEF ApprovalsShape, WayShape, FlagShape, PageFits, Shown
<1> QED
  BY <1>1, <1>2, <1>3, <1>4, <1>5, <1>6 DEF ApprovalsInv

LEMMA UnregisterKeeps ==
  ASSUME ApprovalsInv, Unregister
  PROVE  ApprovalsInv'
<1> USE PromptNumbers DEF ApprovalsInv, ApprovalsShape, Unregister, Counted, promptFacts, daemonSide, serverSide
<1> DEFINE st == [c \in Conversation |-> None]
<1>0. Write(st) /\ UNCHANGED <<link, snapshot, expired>>
  OBVIOUS
<1>a. st \in [Conversation -> Interrupt \cup {None}]
  BY DEF DaemonShape, WorkShape
<1>b. Issued \subseteq Issued' /\ \A c \in Conversation : st[c] \in Issued' \cup {None}
  BY DEF ApprovalsShape, DaemonShape, PromptsFit, Issued
<1>c. filed' = st /\ upward' \in Seq(SUBSET Issued') /\ TellsFit'
  <2>1. filed' = st /\ upward' = IF st = filed THEN upward ELSE Pushed(st)
    BY <1>0 DEF Write
  <2> HIDE DEF st, ApprovalsInv
  <2> QED
    BY <1>0, <1>b, <2>1, WriteTells DEF Pushed, ApprovalsInv
<1>1. ApprovalsShape'
  <2>1. DaemonShape'
    BY <1>a, <1>b, <1>c DEF DaemonShape, WorkShape, Issued, Entry, Command, WayShape
  <2>2. WorkShape'
    BY <1>a, <1>b, <1>c DEF WorkShape, DaemonShape, NoWork, Entry
  <2>3. FlagShape'
    BY <1>a, <1>b, <1>c DEF FlagShape
  <2>4. WayShape'
    BY <1>a, <1>b, <1>c DEF WayShape, DaemonShape, Issued, Command
  <2> QED
    BY <2>1, <2>2, <2>3, <2>4
<1>2. PromptsFit'
  BY <1>a, <1>b, <1>c DEF PromptsFit, ApprovalsShape, DaemonShape, WorkShape, Issued, NoWork
<1>3. DecisionFitsItsPrompt'
  BY <1>a, <1>b, <1>c DEF DecisionFitsItsPrompt, NoWork
<1>4. TokensFit'
  BY <1>a, <1>b, <1>c DEF PromptsFit, TokensFit, DaemonShape, WorkShape, NoWork
<1>5. TellsFit'
  BY <1>c
<1>6. PageFits'
  BY <1>a, <1>b, <1>c DEF ApprovalsShape, WayShape, FlagShape, PageFits, Shown
<1> QED
  BY <1>1, <1>2, <1>3, <1>4, <1>5, <1>6 DEF ApprovalsInv

LEMMA ReregisterKeeps ==
  ASSUME ApprovalsInv, Reregister
  PROVE  ApprovalsInv'
<1> USE PromptNumbers DEF ApprovalsInv, ApprovalsShape, Reregister, Counted, promptFacts, daemonSide, serverSide
<1>1. ApprovalsShape'
  <2>1. DaemonShape'
    BY DEF DaemonShape, WorkShape, Issued, Entry, Command, WayShape
  <2>2. WorkShape'
    BY DEF WorkShape, DaemonShape, NoWork, Entry
  <2>3. FlagShape'
    BY DEF FlagShape
  <2>4. WayShape'
    BY DEF WayShape, DaemonShape, Issued, Command
  <2> QED
    BY <2>1, <2>2, <2>3, <2>4
<1>2. PromptsFit'
  BY DEF PromptsFit, ApprovalsShape, DaemonShape, WorkShape, Issued, NoWork
<1>3. DecisionFitsItsPrompt'
  BY DEF DecisionFitsItsPrompt, NoWork
<1>4. TokensFit'
  BY DEF PromptsFit, TokensFit, DaemonShape, WorkShape, NoWork
<1>5. TellsFit'
  BY DEF ApprovalsShape, DaemonShape, FlagShape, WayShape, TellsFit, Told, Summary
<1>6. PageFits'
  BY DEF ApprovalsShape, WayShape, FlagShape, PageFits, Shown
<1> QED
  BY <1>1, <1>2, <1>3, <1>4, <1>5, <1>6 DEF ApprovalsInv

LEMMA ExpiresKeeps ==
  ASSUME ApprovalsInv, Expires
  PROVE  ApprovalsInv'
<1> USE PromptNumbers DEF ApprovalsInv, ApprovalsShape, Expires, Counted, promptFacts, daemonSide, serverSide
<1>1. ApprovalsShape'
  <2>1. DaemonShape'
    BY DEF DaemonShape, WorkShape, Issued, Entry, Command, WayShape
  <2>2. WorkShape'
    BY DEF WorkShape, DaemonShape, NoWork, Entry
  <2>3. FlagShape'
    BY DEF FlagShape
  <2>4. WayShape'
    BY DEF WayShape, DaemonShape, Issued, Command
  <2> QED
    BY <2>1, <2>2, <2>3, <2>4
<1>2. PromptsFit'
  BY DEF PromptsFit, ApprovalsShape, DaemonShape, WorkShape, Issued, NoWork
<1>3. DecisionFitsItsPrompt'
  BY DEF DecisionFitsItsPrompt, NoWork
<1>4. TokensFit'
  BY DEF PromptsFit, TokensFit, DaemonShape, WorkShape, NoWork
<1>5. TellsFit'
  BY DEF ApprovalsShape, DaemonShape, FlagShape, WayShape, TellsFit, Told, Summary
<1>6. PageFits'
  BY DEF ApprovalsShape, WayShape, FlagShape, PageFits, Shown
<1> QED
  BY <1>1, <1>2, <1>3, <1>4, <1>5, <1>6 DEF ApprovalsInv

LEMMA IdentityChangesKeeps ==
  ASSUME ApprovalsInv, IdentityChanges
  PROVE  ApprovalsInv'
<1> USE PromptNumbers DEF ApprovalsInv, ApprovalsShape, IdentityChanges, Counted, promptFacts, daemonSide, serverSide
<1>0. PICK st \in {filed, [c \in Conversation |-> None]} : Write(st)
  OBVIOUS
<1>a. st \in [Conversation -> Interrupt \cup {None}] /\ UNCHANGED <<link, snapshot, expired>>
  BY DEF DaemonShape
<1>b. Issued = Issued' /\ \A c \in Conversation : st[c] \in {filed[c], None}
  BY DEF DaemonShape, Issued
<1>c. filed' = st /\ upward' \in Seq(SUBSET Issued') /\ TellsFit'
  <2>1. filed' = st /\ upward' = IF st = filed THEN upward ELSE Pushed(st)
    BY <1>0 DEF Write
  <2>2. \A c \in Conversation : filed'[c] \in Issued' \cup {None}
    BY <1>b, <2>1 DEF PromptsFit
  <2> HIDE DEF ApprovalsInv
  <2> QED
    BY <1>a, <1>b, <2>1, <2>2, WriteTells DEF Pushed, ApprovalsInv
<1>1. ApprovalsShape'
  <2>1. DaemonShape'
    BY <1>a, <1>b, <1>c DEF DaemonShape, WorkShape, Issued, Entry, Command, WayShape
  <2>2. WorkShape'
    BY <1>a, <1>b, <1>c DEF WorkShape, DaemonShape, NoWork, Entry
  <2>3. FlagShape'
    BY <1>a, <1>b, <1>c DEF FlagShape
  <2>4. WayShape'
    BY <1>a, <1>b, <1>c DEF WayShape, DaemonShape, Issued, Command
  <2> QED
    BY <2>1, <2>2, <2>3, <2>4
<1>2. PromptsFit'
  BY <1>a, <1>b, <1>c DEF PromptsFit, ApprovalsShape, DaemonShape, WorkShape, Issued, NoWork
<1>3. DecisionFitsItsPrompt'
  BY <1>a, <1>b, <1>c DEF DecisionFitsItsPrompt, NoWork
<1>4. TokensFit'
  BY <1>a, <1>b, <1>c DEF PromptsFit, TokensFit, DaemonShape, WorkShape, NoWork
<1>5. TellsFit'
  BY <1>c
<1>6. PageFits'
  BY <1>a, <1>b, <1>c DEF ApprovalsShape, WayShape, FlagShape, PageFits, Shown
<1> QED
  BY <1>1, <1>2, <1>3, <1>4, <1>5, <1>6 DEF ApprovalsInv

LEMMA DaemonCrashesKeeps ==
  ASSUME ApprovalsInv, DaemonCrashes
  PROVE  ApprovalsInv'
<1> USE PromptNumbers DEF ApprovalsInv, ApprovalsShape, DaemonCrashes, Counted, promptFacts, daemonSide, serverSide
<1>1. ApprovalsShape'
  <2>1. DaemonShape'
    BY DEF DaemonShape, WorkShape, Issued, Entry, Command, WayShape
  <2>2. WorkShape'
    BY DEF WorkShape, DaemonShape, NoWork, Entry
  <2>3. FlagShape'
    BY DEF FlagShape
  <2>4. WayShape'
    BY DEF WayShape, DaemonShape, Issued, Command
  <2> QED
    BY <2>1, <2>2, <2>3, <2>4
<1>2. PromptsFit'
  BY DEF PromptsFit, ApprovalsShape, DaemonShape, WorkShape, Issued, NoWork
<1>3. DecisionFitsItsPrompt'
  BY DEF DecisionFitsItsPrompt, NoWork
<1>4. TokensFit'
  BY DEF PromptsFit, TokensFit, DaemonShape, WorkShape, NoWork
<1>5. TellsFit'
  BY DEF ApprovalsShape, DaemonShape, FlagShape, WayShape, TellsFit, Told, Summary
<1>6. PageFits'
  BY DEF ApprovalsShape, WayShape, FlagShape, PageFits, Shown
<1> QED
  BY <1>1, <1>2, <1>3, <1>4, <1>5, <1>6 DEF ApprovalsInv

LEMMA DismissArrivesKeeps ==
  ASSUME ApprovalsInv, DismissArrives
  PROVE  ApprovalsInv'
<1> USE PromptNumbers DEF ApprovalsInv, ApprovalsShape, DismissArrives, Counted, promptFacts, daemonSide, serverSide
<1> DEFINE st == [filed EXCEPT ![Head(downward).conv] = None]
<1>0. Write(st) /\ UNCHANGED <<link, snapshot, expired>>
  OBVIOUS
<1>a. st \in [Conversation -> Interrupt \cup {None}]
  BY DEF DaemonShape, WorkShape
<1>b. Issued \subseteq Issued' /\ \A c \in Conversation : st[c] \in Issued' \cup {None}
  BY DEF ApprovalsShape, DaemonShape, PromptsFit, Issued
<1>c. filed' = st /\ upward' \in Seq(SUBSET Issued') /\ TellsFit'
  <2>1. filed' = st /\ upward' = IF st = filed THEN upward ELSE Pushed(st)
    BY <1>0 DEF Write
  <2> HIDE DEF st, ApprovalsInv
  <2> QED
    BY <1>0, <1>b, <2>1, WriteTells DEF Pushed, ApprovalsInv
<1>1. ApprovalsShape'
  <2>1. DaemonShape'
    BY <1>a, <1>b, <1>c DEF DaemonShape, WorkShape, Issued, Entry, Command, WayShape
  <2>2. WorkShape'
    BY <1>a, <1>b, <1>c DEF WorkShape, DaemonShape, NoWork, Entry
  <2>3. FlagShape'
    BY <1>a, <1>b, <1>c DEF FlagShape
  <2>4. WayShape'
    BY <1>a, <1>b, <1>c DEF WayShape, DaemonShape, Issued, Command
  <2> QED
    BY <2>1, <2>2, <2>3, <2>4
<1>2. PromptsFit'
  BY <1>a, <1>b, <1>c DEF PromptsFit, ApprovalsShape, DaemonShape, WorkShape, Issued, NoWork
<1>3. DecisionFitsItsPrompt'
  BY <1>a, <1>b, <1>c DEF DecisionFitsItsPrompt, NoWork
<1>4. TokensFit'
  BY <1>a, <1>b, <1>c DEF PromptsFit, TokensFit, DaemonShape, WorkShape, NoWork
<1>5. TellsFit'
  BY <1>c
<1>6. PageFits'
  BY <1>a, <1>b, <1>c DEF ApprovalsShape, WayShape, FlagShape, PageFits, Shown
<1> QED
  BY <1>1, <1>2, <1>3, <1>4, <1>5, <1>6 DEF ApprovalsInv

LEMMA ResolveArrivesKeeps ==
  ASSUME ApprovalsInv, ResolveArrives
  PROVE  ApprovalsInv'
<1> USE PromptNumbers DEF ApprovalsInv, ApprovalsShape, ResolveArrives, Counted, promptFacts, daemonSide, serverSide
<1>a. downward # <<>> /\ link /\ Head(downward) \in Command /\ Tail(downward) \in Seq(Command)
  BY HeadIsLast DEF WayShape
<1>b. /\ entries' = entries \/ entries' = Append(entries, [conv |-> Head(downward).conv,
                                                           decided |-> Head(downward).prompt])
      /\ upward' = upward \/ upward' = Append(upward, Summary(filed))
      /\ Issued' = Issued
  BY DEF Pushed, Issued
<1>c. upward' \in Seq(SUBSET Issued') /\ TellsFit'
  <2>1. UNCHANGED <<filed, link, snapshot, expired>>
    OBVIOUS
  <2>2. \A c \in Conversation : filed'[c] \in Issued' \cup {None}
    BY <1>b, <2>1 DEF PromptsFit, DaemonShape
  <2> HIDE DEF ApprovalsInv, ResolveArrives
  <2> QED
    BY <1>a, <1>b, <2>1, <2>2, WriteTells DEF ApprovalsInv
<1>1. ApprovalsShape'
  <2>1. DaemonShape'
    <3>1. [conv |-> Head(downward).conv, decided |-> Head(downward).prompt] \in Entry
      BY <1>a DEF Entry, Command
    <3>2. entries' \in Seq(Entry)
      <4>1. entries \in Seq(Entry)
        BY DEF DaemonShape
      <4> QED
        BY ONLY <1>b, <3>1, <4>1, LastIsTold
    <3> QED
      BY <1>b, <3>2 DEF DaemonShape
  <2>2. WorkShape'
    BY DEF WorkShape, DaemonShape, NoWork, Entry
  <2>3. FlagShape'
    BY DEF FlagShape
  <2>4. WayShape'
    BY <1>a, <1>b, <1>c DEF WayShape
  <2> QED
    BY <2>1, <2>2, <2>3, <2>4
<1>2. PromptsFit'
  BY DEF PromptsFit, ApprovalsShape, DaemonShape, WorkShape, Issued, NoWork
<1>3. DecisionFitsItsPrompt'
  BY DEF DecisionFitsItsPrompt, NoWork
<1>4. TokensFit'
  BY DEF PromptsFit, TokensFit, DaemonShape, WorkShape, NoWork
<1>5. TellsFit'
  BY <1>c
<1>6. PageFits'
  BY DEF ApprovalsShape, WayShape, FlagShape, PageFits, Shown
<1> QED
  BY <1>1, <1>2, <1>3, <1>4, <1>5, <1>6 DEF ApprovalsInv

LEMMA LinkBreaksKeeps ==
  ASSUME ApprovalsInv, LinkBreaks
  PROVE  ApprovalsInv'
<1> USE PromptNumbers DEF ApprovalsInv, ApprovalsShape, LinkBreaks, Counted, promptFacts, daemonSide, serverSide
<1>1. ApprovalsShape'
  <2>1. DaemonShape'
    BY DEF DaemonShape, WorkShape, Issued, Entry, Command, WayShape
  <2>2. WorkShape'
    BY DEF WorkShape, DaemonShape, NoWork, Entry
  <2>3. FlagShape'
    BY DEF FlagShape
  <2>4. WayShape'
    BY DEF WayShape, DaemonShape, Issued, Command
  <2> QED
    BY <2>1, <2>2, <2>3, <2>4
<1>2. PromptsFit'
  BY DEF PromptsFit, ApprovalsShape, DaemonShape, WorkShape, Issued, NoWork
<1>3. DecisionFitsItsPrompt'
  BY DEF DecisionFitsItsPrompt, NoWork
<1>4. TokensFit'
  BY DEF PromptsFit, TokensFit, DaemonShape, WorkShape, NoWork
<1>5. TellsFit'
  BY DEF ApprovalsShape, DaemonShape, FlagShape, WayShape, TellsFit, Told, Summary
<1>6. PageFits'
  BY DEF ApprovalsShape, WayShape, FlagShape, PageFits, Shown
<1> QED
  BY <1>1, <1>2, <1>3, <1>4, <1>5, <1>6 DEF ApprovalsInv

LEMMA LinkOpensKeeps ==
  ASSUME ApprovalsInv, LinkOpens
  PROVE  ApprovalsInv'
<1> USE PromptNumbers DEF ApprovalsInv, ApprovalsShape, LinkOpens, Counted, promptFacts, daemonSide, serverSide
<1>a. Summary(filed) \in SUBSET Issued /\ Summary(filed)' = Summary(filed) /\ Issued' = Issued
  BY DEF Summary, PromptsFit, Issued
<1>b. upward' = <<Summary(filed)>> /\ link'
  BY DEF OpenSays
<1>c. upward' \in Seq(SUBSET Issued) /\ Told' = Summary(filed)
  BY <1>a, <1>b DEF Told
<1>1. ApprovalsShape'
  <2>1. DaemonShape'
    BY DEF DaemonShape, WorkShape, Issued, Entry, Command, WayShape
  <2>2. WorkShape'
    BY DEF WorkShape, DaemonShape, NoWork, Entry
  <2>3. FlagShape'
    BY DEF FlagShape
  <2>4. WayShape'
    BY <1>a, <1>c DEF WayShape
  <2> QED
    BY <2>1, <2>2, <2>3, <2>4
<1>2. PromptsFit'
  BY DEF PromptsFit, ApprovalsShape, DaemonShape, WorkShape, Issued, NoWork
<1>3. DecisionFitsItsPrompt'
  BY DEF DecisionFitsItsPrompt, NoWork
<1>4. TokensFit'
  BY DEF PromptsFit, TokensFit, DaemonShape, WorkShape, NoWork
<1>5. TellsFit'
  BY <1>a, <1>b, <1>c DEF TellsFit
<1>6. PageFits'
  BY DEF ApprovalsShape, WayShape, FlagShape, PageFits, Shown
<1> QED
  BY <1>1, <1>2, <1>3, <1>4, <1>5, <1>6 DEF ApprovalsInv

LEMMA StateArrivesKeeps ==
  ASSUME ApprovalsInv, StateArrives
  PROVE  ApprovalsInv'
<1> USE PromptNumbers DEF ApprovalsInv, ApprovalsShape, StateArrives, Counted, promptFacts, daemonSide, serverSide
<1>a. /\ Head(upward) \in SUBSET Issued /\ upward' \in Seq(SUBSET Issued)
      /\ Told' = Told /\ Issued' = Issued /\ link
  <2>1. upward \in Seq(SUBSET Issued) /\ upward # <<>>
    BY DEF WayShape
  <2>2. /\ Head(upward) \in SUBSET Issued /\ Tail(upward) \in Seq(SUBSET Issued)
        /\ Tail(upward) = <<>> => Head(upward) = upward[Len(upward)]
        /\ Tail(upward) # <<>> => Tail(upward)[Len(Tail(upward))] = upward[Len(upward)]
    BY <2>1, HeadIsLast
  <2> QED
    BY <2>1, <2>2 DEF Told, Issued, TellsFit
<1>1. ApprovalsShape'
  <2>1. DaemonShape'
    BY DEF DaemonShape, WorkShape, Issued, Entry, Command, WayShape
  <2>2. WorkShape'
    BY DEF WorkShape, DaemonShape, NoWork, Entry
  <2>3. FlagShape'
    BY DEF FlagShape
  <2>4. WayShape'
    BY <1>a, LastIsTold DEF WayShape
  <2> QED
    BY <2>1, <2>2, <2>3, <2>4
<1>2. PromptsFit'
  BY DEF PromptsFit, ApprovalsShape, DaemonShape, WorkShape, Issued, NoWork
<1>3. DecisionFitsItsPrompt'
  BY DEF DecisionFitsItsPrompt, NoWork
<1>4. TokensFit'
  BY DEF PromptsFit, TokensFit, DaemonShape, WorkShape, NoWork
<1>5. TellsFit'
  BY <1>a DEF TellsFit, Summary
<1>6. PageFits'
  BY <1>a, LastIsTold DEF PageFits, Shown, WayShape
<1> QED
  BY <1>1, <1>2, <1>3, <1>4, <1>5, <1>6 DEF ApprovalsInv

LEMMA BannerArrivesKeeps ==
  ASSUME ApprovalsInv, BannerArrives
  PROVE  ApprovalsInv'
<1> USE PromptNumbers DEF ApprovalsInv, ApprovalsShape, BannerArrives, Counted, promptFacts, daemonSide, serverSide
<1>a. /\ Head(toBrowser) \in SUBSET Issued /\ toBrowser' \in Seq(SUBSET Issued)
      /\ Shown' = Shown /\ Issued' = Issued
  <2>1. toBrowser \in Seq(SUBSET Issued) /\ toBrowser # <<>>
    BY DEF WayShape
  <2>2. /\ Head(toBrowser) \in SUBSET Issued /\ Tail(toBrowser) \in Seq(SUBSET Issued)
        /\ Tail(toBrowser) = <<>> => Head(toBrowser) = toBrowser[Len(toBrowser)]
        /\ Tail(toBrowser) # <<>> =>
             Tail(toBrowser)[Len(Tail(toBrowser))] = toBrowser[Len(toBrowser)]
    BY <2>1, HeadIsLast
  <2> QED
    BY <2>1, <2>2 DEF Shown, Issued
<1>1. ApprovalsShape'
  <2>1. DaemonShape'
    BY DEF DaemonShape, WorkShape, Issued, Entry, Command, WayShape
  <2>2. WorkShape'
    BY DEF WorkShape, DaemonShape, NoWork, Entry
  <2>3. FlagShape'
    BY DEF FlagShape
  <2>4. WayShape'
    BY <1>a DEF WayShape
  <2> QED
    BY <2>1, <2>2, <2>3, <2>4
<1>2. PromptsFit'
  BY DEF PromptsFit, ApprovalsShape, DaemonShape, WorkShape, Issued, NoWork
<1>3. DecisionFitsItsPrompt'
  BY DEF DecisionFitsItsPrompt, NoWork
<1>4. TokensFit'
  BY DEF PromptsFit, TokensFit, DaemonShape, WorkShape, NoWork
<1>5. TellsFit'
  BY DEF ApprovalsShape, DaemonShape, FlagShape, WayShape, TellsFit, Told, Summary
<1>6. PageFits'
  BY <1>a DEF PageFits
<1> QED
  BY <1>1, <1>2, <1>3, <1>4, <1>5, <1>6 DEF ApprovalsInv

LEMMA RouteAnswerKeeps ==
  ASSUME ApprovalsInv, RouteAnswer
  PROVE  ApprovalsInv'
<1> USE PromptNumbers DEF ApprovalsInv, ApprovalsShape, RouteAnswer, Counted, promptFacts, daemonSide, serverSide
<1>1. ApprovalsShape'
  <2>1. DaemonShape'
    BY DEF DaemonShape, WorkShape, Issued, Entry, Command, WayShape
  <2>2. WorkShape'
    BY DEF WorkShape, DaemonShape, NoWork, Entry
  <2>3. FlagShape'
    BY DEF FlagShape
  <2>4. WayShape'
    <3>1. PICK g \in routing : routing' = routing \ {g}
                                /\ downward' = IF link THEN Append(downward, g) ELSE downward
      OBVIOUS
    <3>2. downward' \in Seq(Command)
      BY <3>1, LastIsTold DEF WayShape
    <3> QED
      BY <3>1, <3>2 DEF WayShape, Issued
  <2> QED
    BY <2>1, <2>2, <2>3, <2>4
<1>2. PromptsFit'
  BY DEF PromptsFit, ApprovalsShape, DaemonShape, WorkShape, Issued, NoWork
<1>3. DecisionFitsItsPrompt'
  BY DEF DecisionFitsItsPrompt, NoWork
<1>4. TokensFit'
  BY DEF PromptsFit, TokensFit, DaemonShape, WorkShape, NoWork
<1>5. TellsFit'
  BY DEF ApprovalsShape, DaemonShape, FlagShape, WayShape, TellsFit, Told, Summary
<1>6. PageFits'
  BY DEF ApprovalsShape, WayShape, FlagShape, PageFits, Shown
<1> QED
  BY <1>1, <1>2, <1>3, <1>4, <1>5, <1>6 DEF ApprovalsInv

LEMMA PageLeavesKeeps ==
  ASSUME ApprovalsInv, PageLeaves
  PROVE  ApprovalsInv'
<1> USE PromptNumbers DEF ApprovalsInv, ApprovalsShape, PageLeaves, Counted, promptFacts, daemonSide, serverSide
<1>1. ApprovalsShape'
  <2>1. DaemonShape'
    BY DEF DaemonShape, WorkShape, Issued, Entry, Command, WayShape
  <2>2. WorkShape'
    BY DEF WorkShape, DaemonShape, NoWork, Entry
  <2>3. FlagShape'
    BY DEF FlagShape
  <2>4. WayShape'
    BY DEF WayShape, DaemonShape, Issued, Command
  <2> QED
    BY <2>1, <2>2, <2>3, <2>4
<1>2. PromptsFit'
  BY DEF PromptsFit, ApprovalsShape, DaemonShape, WorkShape, Issued, NoWork
<1>3. DecisionFitsItsPrompt'
  BY DEF DecisionFitsItsPrompt, NoWork
<1>4. TokensFit'
  BY DEF PromptsFit, TokensFit, DaemonShape, WorkShape, NoWork
<1>5. TellsFit'
  BY DEF ApprovalsShape, DaemonShape, FlagShape, WayShape, TellsFit, Told, Summary
<1>6. PageFits'
  BY DEF ApprovalsShape, WayShape, FlagShape, PageFits, Shown
<1> QED
  BY <1>1, <1>2, <1>3, <1>4, <1>5, <1>6 DEF ApprovalsInv

LEMMA PageConnectsKeeps ==
  ASSUME ApprovalsInv, PageConnects
  PROVE  ApprovalsInv'
<1> USE PromptNumbers DEF ApprovalsInv, ApprovalsShape, PageConnects, Counted, promptFacts, daemonSide, serverSide
<1>1. ApprovalsShape'
  <2>1. DaemonShape'
    BY DEF DaemonShape, WorkShape, Issued, Entry, Command, WayShape
  <2>2. WorkShape'
    BY DEF WorkShape, DaemonShape, NoWork, Entry
  <2>3. FlagShape'
    BY DEF FlagShape
  <2>4. WayShape'
    <3>1. toBrowser' \in Seq(SUBSET Issued)
      <4>1. \A x \in SUBSET Issued : <<x>> \in Seq(SUBSET Issued)
        OBVIOUS
      <4>2. snapshot \in SUBSET Issued /\ <<>> \in Seq(SUBSET Issued)
        BY DEF WayShape
      <4>3. toBrowser' = IF snapshot = {} THEN <<>> ELSE <<snapshot>>
        OBVIOUS
      <4> QED
        BY ONLY <4>1, <4>2, <4>3
    <3> QED
      BY <3>1 DEF WayShape, Issued
  <2> QED
    BY <2>1, <2>2, <2>3, <2>4
<1>2. PromptsFit'
  BY DEF PromptsFit, ApprovalsShape, DaemonShape, WorkShape, Issued, NoWork
<1>3. DecisionFitsItsPrompt'
  BY DEF DecisionFitsItsPrompt, NoWork
<1>4. TokensFit'
  BY DEF PromptsFit, TokensFit, DaemonShape, WorkShape, NoWork
<1>5. TellsFit'
  BY DEF ApprovalsShape, DaemonShape, FlagShape, WayShape, TellsFit, Told, Summary
<1>6. PageFits'
  BY DEF ApprovalsShape, WayShape, FlagShape, PageFits, Shown
<1> QED
  BY <1>1, <1>2, <1>3, <1>4, <1>5, <1>6 DEF ApprovalsInv

LEMMA OwnerAnswerKeeps ==
  ASSUME ApprovalsInv, NEW p \in Interrupt, Answer(p)
  PROVE  ApprovalsInv'
<1> USE PromptNumbers DEF ApprovalsInv, ApprovalsShape, Answer, Counted, promptFacts, daemonSide, serverSide
<1>1. ApprovalsShape'
  <2>1. DaemonShape'
    BY DEF DaemonShape, WorkShape, Issued, Entry, Command, WayShape
  <2>2. WorkShape'
    BY DEF WorkShape, DaemonShape, NoWork, Entry
  <2>3. FlagShape'
    BY DEF FlagShape
  <2>4. WayShape'
    BY DEF WayShape, DaemonShape, Issued, Command
  <2> QED
    BY <2>1, <2>2, <2>3, <2>4
<1>2. PromptsFit'
  BY DEF PromptsFit, ApprovalsShape, DaemonShape, WorkShape, Issued, NoWork
<1>3. DecisionFitsItsPrompt'
  BY DEF DecisionFitsItsPrompt, NoWork
<1>4. TokensFit'
  BY DEF PromptsFit, TokensFit, DaemonShape, WorkShape, NoWork
<1>5. TellsFit'
  BY DEF ApprovalsShape, DaemonShape, FlagShape, WayShape, TellsFit, Told, Summary
<1>6. PageFits'
  BY DEF ApprovalsShape, WayShape, FlagShape, PageFits, Shown
<1> QED
  BY <1>1, <1>2, <1>3, <1>4, <1>5, <1>6 DEF ApprovalsInv

LEMMA ApprovalsStarts ==
  ASSUME ApprovalsInit PROVE ApprovalsInv
<1> USE DEF ApprovalsInit
<1>1. DaemonShape
  BY ApprovalsAssumption DEF DaemonShape, Issued
<1>2. WorkShape /\ FlagShape /\ WayShape
  <2>1. WorkShape
    BY DEF WorkShape, NoWork
  <2>2. FlagShape
    BY DEF FlagShape
  <2>3. WayShape
    BY DEF WayShape
  <2> QED
    BY <2>1, <2>2, <2>3
<1>3. PromptsFit /\ TokensFit /\ DecisionFitsItsPrompt
  BY DEF PromptsFit, TokensFit, DecisionFitsItsPrompt, NoWork
<1>4. TellsFit /\ PageFits
  BY DEF TellsFit, Told, Summary, PageFits, Shown
<1> QED
  BY <1>1, <1>2, <1>3, <1>4 DEF ApprovalsInv, ApprovalsShape

LEMMA ApprovalsSteps ==
  ASSUME ApprovalsInv, [ApprovalsNext]_approvalVars PROVE ApprovalsInv'
<1>1. Begin => ApprovalsInv'
  BY BeginKeeps
<1>2. SendResumingTurn => ApprovalsInv'
  BY SendResumingTurnKeeps
<1>3. PrepareFails => ApprovalsInv'
  BY PrepareFailsKeeps
<1>4. WorkEnds => ApprovalsInv'
  BY WorkEndsKeeps
<1>5. WorkFails => ApprovalsInv'
  BY WorkFailsKeeps
<1>6. WorkInterrupts => ApprovalsInv'
  BY WorkInterruptsKeeps
<1>7. ASSUME NEW c \in Conversation, MessageComes(c) PROVE ApprovalsInv'
  BY <1>7, MessageComesKeeps
<1>8. Unregister => ApprovalsInv'
  BY UnregisterKeeps
<1>9. Reregister => ApprovalsInv'
  BY ReregisterKeeps
<1>10. Expires => ApprovalsInv'
  BY ExpiresKeeps
<1>11. IdentityChanges => ApprovalsInv'
  BY IdentityChangesKeeps
<1>12. DaemonCrashes => ApprovalsInv'
  BY DaemonCrashesKeeps
<1>13. DismissArrives => ApprovalsInv'
  BY DismissArrivesKeeps
<1>14. ResolveArrives => ApprovalsInv'
  BY ResolveArrivesKeeps
<1>15. LinkBreaks => ApprovalsInv'
  BY LinkBreaksKeeps
<1>16. LinkOpens => ApprovalsInv'
  BY LinkOpensKeeps
<1>17. StateArrives => ApprovalsInv'
  BY StateArrivesKeeps
<1>18. BannerArrives => ApprovalsInv'
  BY BannerArrivesKeeps
<1>19. RouteAnswer => ApprovalsInv'
  BY RouteAnswerKeeps
<1>20. PageLeaves => ApprovalsInv'
  BY PageLeavesKeeps
<1>21. PageConnects => ApprovalsInv'
  BY PageConnectsKeeps
<1>22. ASSUME NEW p \in Interrupt, Answer(p) PROVE ApprovalsInv'
  BY <1>22, OwnerAnswerKeeps
<1>23. CASE UNCHANGED approvalVars
  <2> USE <1>23 DEF approvalVars
  <2>1. ApprovalsShape'
    BY DEF ApprovalsInv, ApprovalsShape, DaemonShape, WorkShape, FlagShape, WayShape, Issued
  <2>2. PromptsFit' /\ TokensFit' /\ DecisionFitsItsPrompt'
    BY DEF ApprovalsInv, PromptsFit, TokensFit, DecisionFitsItsPrompt, Issued
  <2>3. TellsFit' /\ PageFits'
    BY DEF ApprovalsInv, TellsFit, Told, Summary, PageFits, Shown
  <2> QED
    BY <2>1, <2>2, <2>3 DEF ApprovalsInv
<1> QED
  BY <1>1, <1>2, <1>3, <1>4, <1>5, <1>6, <1>7, <1>8, <1>9, <1>10, <1>11, <1>12,
     <1>13, <1>14, <1>15, <1>16, <1>17, <1>18, <1>19, <1>20, <1>21, <1>22, <1>23 DEF ApprovalsNext

LEMMA WaitingIsShown ==
  ASSUME ApprovalsInv PROVE WaitingPromptsAreShown
BY DEF ApprovalsInv, WaitingPromptsAreShown, Quiet, TellsFit, Told, PageFits, Shown

LEMMA TokenIsNotSentAgain ==
  ASSUME ApprovalsInv PROVE ~TokenIsSentAgain
BY DEF ApprovalsInv, TokensFit, TokenIsSentAgain

\* A prompt of a worker reaches its owner, and the owner's answer the prompt it was given for,
\* once: the interrupt store, the dispatch that resumes a prompt, the snapshots to the server
\* and the page, over every crash, lost connection and profile edit.
THEOREM PromptsHonoured == ApprovalsSpec => PromptsAreHonoured
<1>1. ApprovalsInit => ApprovalsInv
  BY ApprovalsStarts
<1>2. ApprovalsInv /\ [ApprovalsNext]_approvalVars => ApprovalsInv'
  BY ApprovalsSteps
<1>3. ApprovalsInv => WaitingPromptsAreShown /\ DecisionFitsItsPrompt
  BY WaitingIsShown DEF ApprovalsInv
<1>4. ApprovalsInv => ~TokenIsSentAgain
  BY TokenIsNotSentAgain
<1>5. ApprovalsInv' => WaitingPromptsAreShown' /\ DecisionFitsItsPrompt'
  BY <1>3, PTL
<1> QED
  BY <1>1, <1>2, <1>4, <1>5, PTL DEF ApprovalsSpec, PromptsAreHonoured

-----------------------------------------------------------------------------
(* The graph thread: what a list of messages is like                         *)

\* A call has one number and one tool, an answer is to one call.
OneEach(msgs) == \A i \in DOMAIN msgs : msgs[i].kind = "tool" => \E c \in Call : msgs[i].calls = {c}

AllClaimed(msgs) == \A j \in DOMAIN msgs : msgs[j].kind = "tool" => Claimed(msgs, j)
AnswerGiven(msgs, i) == msgs[i].kind = "ai" => msgs[i].calls \subseteq AnsweredAt(msgs, i)
AllAnswered(msgs) == \A i \in DOMAIN msgs : AnswerGiven(msgs, i)

\* The model has spoken last, and everything before that is settled.
WaitsFor(msgs, i) ==
  /\ i \in DOMAIN msgs /\ msgs[i].kind = "ai"
  /\ \A k \in i + 1 .. Len(msgs) : msgs[k].kind = "tool"
  /\ \A h \in DOMAIN msgs \ {i} : AnswerGiven(msgs, h)
  /\ AllClaimed(msgs)
Waiting(msgs) == \E i \in DOMAIN msgs : WaitsFor(msgs, i)

-----------------------------------------------------------------------------
(* The graph thread: lists of messages                                       *)

LEMMA CallsAreFinite ==
  ASSUME NEW calls \in SUBSET Call PROVE IsFiniteSet(calls)
<1> DEFINE numbers == 0 .. MaxModelCalls
           f == [p \in numbers \X Tool |-> [nr |-> p[1], tool |-> p[2]]]
<1>1. IsFiniteSet(numbers) /\ IsFiniteSet(Tool)
  BY GraphThreadAssumption, FS_Interval
<1>2. IsFiniteSet(numbers \X Tool)
  BY <1>1, FS_Product
<1>3. f \in Surjection(numbers \X Tool, Call)
  <2>1. f \in [numbers \X Tool -> Call]
    BY DEF Call
  <2>2. ASSUME NEW c \in Call PROVE \E p \in numbers \X Tool : f[p] = c
    <3>1. c.nr \in numbers /\ c.tool \in Tool /\ c = [nr |-> c.nr, tool |-> c.tool]
      BY DEF Call
    <3>2. <<c.nr, c.tool>> \in numbers \X Tool
      BY <3>1
    <3> QED
      BY <3>1, <3>2
  <2> QED
    BY <2>1, <2>2 DEF Surjection
<1>4. IsFiniteSet(Call)
  BY <1>2, <1>3, FS_Surjection
<1> QED
  BY <1>4, FS_Subset

\* The answers to some calls: one of its own for each.
LEMMA AnswersAre ==
  ASSUME NEW calls \in SUBSET Call
  PROVE  /\ Answers(calls) \in Seq(Message)
         /\ \A n \in DOMAIN Answers(calls) : \E c \in calls : Answers(calls)[n] = Says("tool", {c})
         /\ \A c \in calls : \E n \in DOMAIN Answers(calls) : Answers(calls)[n] = Says("tool", {c})
<1> DEFINE N == Cardinality(calls)
<1>1. IsFiniteSet(calls)
  BY CallsAreFinite
<1>2. N \in Nat /\ ExistsBijection(1 .. N, calls)
  BY <1>1, FS_CardinalityType
<1>3. \E f \in [1 .. N -> calls] : IsInjective(f)
  BY <1>2 DEF ExistsBijection, Bijection, Injection
<1>4. SetToSeq(calls) \in [1 .. N -> calls] /\ IsInjective(SetToSeq(calls))
  BY <1>3 DEF SetToSeq
<1>5. SetToSeq(calls) \in Injection(1 .. N, calls)
  BY <1>4 DEF Injection
<1>6. IsFiniteSet(1 .. N) /\ Cardinality(1 .. N) = N
  BY <1>2, FS_Interval
<1>7. SetToSeq(calls) \in Surjection(1 .. N, calls)
  BY <1>1, <1>5, <1>6, FS_Injection
<1>8. PICK q : q = SetToSeq(calls)
  OBVIOUS
<1>9. q \in [1 .. N -> calls] /\ \A c \in calls : \E n \in 1 .. N : q[n] = c
  BY <1>4, <1>7, <1>8 DEF Surjection
<1>10. PICK r : r = Answers(calls)
  OBVIOUS
<1>11. r = [n \in 1 .. N |-> Says("tool", {q[n]})]
  BY <1>8, <1>10 DEF Answers
<1>12. \A n \in 1 .. N : Says("tool", {q[n]}) \in Message
  BY <1>9 DEF Says, Message
<1> HIDE DEF N
<1>13. DOMAIN r = 1 .. N /\ \A n \in 1 .. N : r[n] = Says("tool", {q[n]})
  BY ONLY <1>11
<1>14. r \in Seq(Message)
  BY <1>2, <1>11, <1>12
<1> QED
  BY <1>9, <1>10, <1>13, <1>14

\* u goes on where s ends.
GoesOnFrom(s, u) ==
  /\ s \in Seq(Message) /\ u \in Seq(Message) /\ Len(s) <= Len(u)
  /\ \A k \in 1 .. Len(s) : u[k] = s[k]

\* What was answered and claimed stays so when the list grows.
LEMMA SettledStays ==
  ASSUME NEW s, NEW u, GoesOnFrom(s, u)
  PROVE  \A i \in DOMAIN s : /\ i \in DOMAIN u /\ u[i] = s[i]
                             /\ AnsweredAt(s, i) \subseteq AnsweredAt(u, i)
                             /\ (AnswerGiven(s, i) => AnswerGiven(u, i))
                             /\ (Claimed(s, i) => Claimed(u, i))
<1>1. /\ s \in Seq(Message) /\ u \in Seq(Message) /\ Len(s) \in Nat /\ Len(u) \in Nat
      /\ Len(s) <= Len(u) /\ DOMAIN s = 1 .. Len(s) /\ DOMAIN u = 1 .. Len(u)
      /\ \A k \in 1 .. Len(s) : u[k] = s[k]
  BY DEF GoesOnFrom
<1>2. \A i \in DOMAIN s : i \in DOMAIN u /\ u[i] = s[i]
  BY <1>1
<1>3. \A i \in DOMAIN s : \A j \in Block(s, i) : j \in DOMAIN s /\ j \in Block(u, i) /\ u[j] = s[j]
  BY <1>1 DEF Block
<1>4. \A i \in DOMAIN s : AnsweredAt(s, i) \subseteq AnsweredAt(u, i)
  BY <1>3 DEF AnsweredAt
<1>5. \A i \in DOMAIN s : AnswerGiven(s, i) => AnswerGiven(u, i)
  BY <1>2, <1>4 DEF AnswerGiven
<1>6. \A j \in DOMAIN s : Claimed(s, j) => Claimed(u, j)
  <2> SUFFICES ASSUME NEW j \in DOMAIN s, Claimed(s, j) PROVE Claimed(u, j)
    OBVIOUS
  <2>1. PICK i \in 1 .. j - 1 : s[i].kind = "ai" /\ j \in Block(s, i) /\ s[j].calls \subseteq s[i].calls
    BY DEF Claimed
  <2>2. i \in DOMAIN s
    BY <1>1, <2>1
  <2> QED
    BY <1>2, <1>3, <2>1, <2>2 DEF Claimed
<1> QED
  BY <1>2, <1>4, <1>5, <1>6

\* The answer that waits is the last one, and what it waits for is what nobody answered.
LEMMA WaitingIsLast ==
  ASSUME NEW s \in Seq(Message), NEW i, WaitsFor(s, i)
  PROVE  /\ i \in Nat /\ LastAi(s) = i /\ OpenCalls(s) = s[i].calls \ AnsweredAt(s, i)
         /\ OpenCalls(s) \subseteq s[i].calls /\ s[i].calls \subseteq Call
<1>1. /\ Len(s) \in Nat /\ DOMAIN s = 1 .. Len(s) /\ i \in DOMAIN s /\ s[i].kind = "ai"
      /\ \A k \in i + 1 .. Len(s) : s[k].kind = "tool"
  BY DEF WaitsFor
<1> DEFINE IsLast(j) == s[j].kind = "ai" /\ \A k \in j + 1 .. Len(s) : s[k].kind # "ai"
<1>2. \A j \in DOMAIN s : IsLast(j) <=> j = i
  <2>1. \A k \in i + 1 .. Len(s) : s[k].kind # "ai"
    BY <1>1
  <2>2. ASSUME NEW j \in DOMAIN s, j # i, s[j].kind = "ai",
               \A k \in j + 1 .. Len(s) : s[k].kind # "ai"
        PROVE  FALSE
    <3>1. j < i \/ i < j
      BY <1>1, <2>2
    <3> QED
      BY <1>1, <2>2, <3>1
  <2> QED
    BY <1>1, <2>1, <2>2
<1>3. LastAi(s) = i
  <2>1. \E j \in DOMAIN s : IsLast(j)
    BY <1>1, <1>2
  <2>2. PICK l : l = LastAi(s)
    OBVIOUS
  <2>3. l \in DOMAIN s /\ IsLast(l)
    BY ONLY <2>1, <2>2 DEF LastAi
  <2> HIDE DEF IsLast
  <2> QED
    BY <1>2, <2>2, <2>3
<1>4. s[i].calls \subseteq Call
  <2>1. s[i] \in Message
    BY <1>1
  <2> QED
    BY <2>1 DEF Message
<1> QED
  BY <1>1, <1>3, <1>4 DEF OpenCalls

\* A message that is neither the model's nor a tool's leaves a settled list settled.
LEMMA MessageIsTaken ==
  ASSUME NEW s \in Seq(Message), NEW x \in Message, x.kind \in {"system", "human"},
         OneEach(s)
  PROVE  LET u == s \o <<x>>
         IN  /\ u \in Seq(Message) /\ OneEach(u)
             /\ AllAnswered(s) /\ AllClaimed(s) => AllAnswered(u) /\ AllClaimed(u)
             /\ Len(u) \in DOMAIN u /\ u[Len(u)] = x
<1> DEFINE u == s \o <<x>>
<1>1. PICK v : v = u
  OBVIOUS
<1>2. /\ v \in Seq(Message) /\ Len(s) \in Nat /\ Len(v) = Len(s) + 1 /\ v[Len(v)] = x
      /\ \A k \in 1 .. Len(s) : v[k] = s[k]
      /\ DOMAIN v = 1 .. Len(v) /\ DOMAIN s = 1 .. Len(s)
  BY <1>1
<1>3. GoesOnFrom(s, v)
  BY <1>2 DEF GoesOnFrom
<1>4. \A i \in DOMAIN v : i \in DOMAIN s \/ i = Len(v)
  BY <1>2
<1>5. \A i \in DOMAIN s : v[i] = s[i] /\ (AnswerGiven(s, i) => AnswerGiven(v, i))
                        /\ (Claimed(s, i) => Claimed(v, i))
  BY <1>3, SettledStays
<1> HIDE DEF u
<1>6. AllAnswered(s) => AllAnswered(v)
  BY <1>2, <1>4, <1>5 DEF AllAnswered, AnswerGiven
<1>7. AllClaimed(s) => AllClaimed(v)
  BY <1>2, <1>4, <1>5 DEF AllClaimed
<1>8. OneEach(v)
  BY <1>2, <1>4, <1>5 DEF OneEach
<1>9. Len(v) \in DOMAIN v
  BY <1>2
<1> QED
  BY <1>1, <1>2, <1>6, <1>7, <1>8, <1>9 DEF u

\* The model answers a list it takes: what it calls is what waits.
LEMMA ModelAnswers ==
  ASSUME NEW s \in Seq(Message), NEW calls \in SUBSET Call, OneEach(s), Acceptable(s)
  PROVE  LET u == Append(s, Says("ai", calls))
         IN  /\ u \in Seq(Message) /\ OneEach(u) /\ Waiting(u) /\ OpenCalls(u) = calls
<1>1. PICK x : x = Says("ai", calls)
  OBVIOUS
<1>2. x \in Message /\ x.kind = "ai" /\ x.calls = calls
  BY <1>1 DEF Says, Message
<1>3. PICK v : v = Append(s, x)
  OBVIOUS
<1>4. /\ v \in Seq(Message) /\ Len(s) \in Nat /\ Len(v) = Len(s) + 1 /\ v[Len(v)] = x
      /\ \A k \in 1 .. Len(s) : v[k] = s[k]
      /\ DOMAIN v = 1 .. Len(v) /\ DOMAIN s = 1 .. Len(s)
  BY <1>2, <1>3
<1>5. GoesOnFrom(s, v)
  BY <1>4 DEF GoesOnFrom
<1>6. \A i \in DOMAIN v : i \in DOMAIN s \/ i = Len(v)
  BY <1>4
<1>7. \A i \in DOMAIN s : v[i] = s[i] /\ (AnswerGiven(s, i) => AnswerGiven(v, i))
                        /\ (Claimed(s, i) => Claimed(v, i))
  BY <1>5, SettledStays
<1>8. \A i \in DOMAIN s : AnswerGiven(s, i)
  BY DEF Acceptable, AnswerGiven
<1>9. AllClaimed(v)
  BY <1>2, <1>4, <1>6, <1>7 DEF AllClaimed, Acceptable
<1>10. OneEach(v)
  BY <1>2, <1>4, <1>6, <1>7 DEF OneEach
<1>11. WaitsFor(v, Len(v))
  <2>1. Len(v) \in DOMAIN v /\ v[Len(v)].kind = "ai"
    BY <1>2, <1>4
  <2>2. \A k \in Len(v) + 1 .. Len(v) : FALSE
    BY <1>4
  <2> QED
    BY <1>6, <1>7, <1>8, <1>9, <2>1, <2>2 DEF WaitsFor
<1>12. AnsweredAt(v, Len(v)) = {}
  <2>1. \A k \in Len(v) + 1 .. Len(v) : FALSE
    BY <1>4
  <2>2. Block(v, Len(v)) = {}
    BY <2>1 DEF Block
  <2> QED
    BY <2>2 DEF AnsweredAt
<1>13. OpenCalls(v) = calls
  BY <1>2, <1>4, <1>11, <1>12, WaitingIsLast
<1>14. Waiting(v)
  BY <1>4, <1>11 DEF Waiting, WaitsFor
<1> QED
  BY <1>1, <1>3, <1>4, <1>10, <1>13, <1>14

\* Some of the calls that wait are answered.
LEMMA ToolsAnswer ==
  ASSUME NEW s \in Seq(Message), NEW calls, calls \subseteq OpenCalls(s), OneEach(s), Waiting(s)
  PROVE  LET u == s \o Answers(calls)
         IN  /\ u \in Seq(Message) /\ OneEach(u) /\ Waiting(u)
             /\ OpenCalls(u) = OpenCalls(s) \ calls
             /\ OpenCalls(u) = {} => Acceptable(u)
             /\ \E i \in DOMAIN u : u[i].kind # "tool"
<1>1. PICK i \in DOMAIN s : WaitsFor(s, i)
  BY DEF Waiting
<1>a. /\ s[i].kind = "ai" /\ \A k \in i + 1 .. Len(s) : s[k].kind = "tool"
      /\ \A h \in DOMAIN s \ {i} : AnswerGiven(s, h)
      /\ AllClaimed(s)
  BY <1>1 DEF WaitsFor
<1>2. /\ i \in Nat /\ OpenCalls(s) = s[i].calls \ AnsweredAt(s, i)
      /\ calls \subseteq s[i].calls /\ calls \in SUBSET Call
  BY <1>1, WaitingIsLast
<1>3. PICK r : r = Answers(calls)
  OBVIOUS
<1>4. /\ r \in Seq(Message)
      /\ \A n \in DOMAIN r : \E c \in calls : r[n] = Says("tool", {c})
      /\ \A c \in calls : \E n \in DOMAIN r : r[n] = Says("tool", {c})
  BY <1>2, <1>3, AnswersAre
<1>5. PICK u : u = s \o r
  OBVIOUS
<1>6. /\ u \in Seq(Message) /\ Len(s) \in Nat /\ Len(r) \in Nat /\ Len(u) = Len(s) + Len(r)
      /\ \A k \in 1 .. Len(s) : u[k] = s[k]
      /\ \A n \in 1 .. Len(r) : u[Len(s) + n] = r[n]
      /\ DOMAIN u = 1 .. Len(u) /\ DOMAIN s = 1 .. Len(s) /\ DOMAIN r = 1 .. Len(r)
  BY <1>4, <1>5
<1>7. GoesOnFrom(s, u)
  BY <1>6 DEF GoesOnFrom
<1>8. \A k \in DOMAIN s : /\ k \in DOMAIN u /\ u[k] = s[k]
                        /\ (AnswerGiven(s, k) => AnswerGiven(u, k))
                        /\ (Claimed(s, k) => Claimed(u, k))
  BY <1>7, SettledStays
<1>9. ASSUME NEW k \in DOMAIN u, k \notin DOMAIN s
      PROVE  /\ k \in i + 1 .. Len(u) /\ u[k].kind = "tool"
             /\ \E c \in calls : u[k].calls = {c}
  <2>1. k - Len(s) \in 1 .. Len(r) /\ k = Len(s) + (k - Len(s))
    BY <1>6, <1>9
  <2>2. u[k] = r[k - Len(s)]
    BY <1>6, <2>1
  <2> QED
    BY <1>4, <1>6, <2>1, <2>2 DEF Says
<1>10. \A k \in i + 1 .. Len(u) : u[k].kind = "tool"
  <2>1. \A k \in i + 1 .. Len(u) : k \in DOMAIN u /\ (k \in DOMAIN s => k \in i + 1 .. Len(s))
    BY <1>2, <1>6
  <2> QED
    BY <1>a, <1>8, <1>9, <2>1
<1>11. Block(u, i) = i + 1 .. Len(u)
  BY <1>2, <1>6, <1>10 DEF Block
<1>12. AnsweredAt(u, i) = AnsweredAt(s, i) \cup calls
  <2>1. Block(s, i) = i + 1 .. Len(s)
    BY <1>1, <1>2, <1>6 DEF Block, WaitsFor
  <2>2. \A k \in i + 1 .. Len(u) : k \in i + 1 .. Len(s) \/ (k \in DOMAIN u /\ k \notin DOMAIN s)
    BY <1>2, <1>6
  <2>3. \A k \in i + 1 .. Len(s) : k \in i + 1 .. Len(u) /\ u[k] = s[k]
    BY <1>2, <1>6
  <2>4. \A c \in calls : \E k \in i + 1 .. Len(u) : c \in u[k].calls
    <3> SUFFICES ASSUME NEW c \in calls PROVE \E k \in i + 1 .. Len(u) : c \in u[k].calls
      OBVIOUS
    <3>1. PICK n \in DOMAIN r : r[n] = Says("tool", {c})
      BY <1>4
    <3>2. Len(s) + n \in i + 1 .. Len(u) /\ u[Len(s) + n] = r[n]
      BY <1>1, <1>6
    <3> QED
      BY <3>1, <3>2 DEF Says
  <2>5. \A c : c \in AnsweredAt(u, i) <=> \E k \in i + 1 .. Len(u) : c \in u[k].calls
    BY <1>11 DEF AnsweredAt
  <2>6. \A c : c \in AnsweredAt(s, i) <=> \E k \in i + 1 .. Len(s) : c \in s[k].calls
    BY <2>1 DEF AnsweredAt
  <2>7. ASSUME NEW c \in AnsweredAt(u, i) PROVE c \in AnsweredAt(s, i) \cup calls
    BY <1>9, <2>2, <2>3, <2>5, <2>6, <2>7
  <2>8. ASSUME NEW c \in AnsweredAt(s, i) \cup calls PROVE c \in AnsweredAt(u, i)
    BY <2>3, <2>4, <2>5, <2>6, <2>8
  <2> QED
    BY <2>7, <2>8
<1>13. AllClaimed(u)
  <2> SUFFICES ASSUME NEW j \in DOMAIN u, u[j].kind = "tool" PROVE Claimed(u, j)
    BY DEF AllClaimed
  <2>1. CASE j \in DOMAIN s
    BY <1>a, <1>8, <2>1 DEF AllClaimed
  <2>2. CASE j \notin DOMAIN s
    <3>1. j \in i + 1 .. Len(u) /\ \E c \in calls : u[j].calls = {c}
      BY <1>9, <2>2
    <3>2. i \in 1 .. j - 1 /\ j \in Block(u, i) /\ u[i] = s[i] /\ s[i].kind = "ai"
      BY <1>a, <1>2, <1>6, <1>8, <1>11, <3>1
    <3>3. u[j].calls \subseteq u[i].calls
      BY <1>2, <3>1, <3>2
    <3> QED
      BY <3>2, <3>3 DEF Claimed
  <2> QED
    BY <2>1, <2>2
<1>14. \A h \in DOMAIN u \ {i} : AnswerGiven(u, h)
  <2> SUFFICES ASSUME NEW h \in DOMAIN u, h # i PROVE AnswerGiven(u, h)
    OBVIOUS
  <2>1. CASE h \in DOMAIN s
    BY <1>a, <1>8, <2>1
  <2>2. CASE h \notin DOMAIN s
    BY <1>9, <2>2 DEF AnswerGiven
  <2> QED
    BY <2>1, <2>2
<1>15. WaitsFor(u, i)
  BY <1>a, <1>8, <1>10, <1>13, <1>14 DEF WaitsFor
<1>16. OpenCalls(u) = OpenCalls(s) \ calls
  <2>1. OpenCalls(u) = u[i].calls \ AnsweredAt(u, i) /\ u[i] = s[i]
    BY <1>1, <1>6, <1>8, <1>15, WaitingIsLast
  <2> QED
    BY <1>2, <1>12, <2>1
<1>17. OpenCalls(u) = {} => Acceptable(u)
  <2>0. SUFFICES ASSUME OpenCalls(u) = {} PROVE Acceptable(u)
    OBVIOUS
  <2>1. u[i].calls \subseteq AnsweredAt(u, i)
    BY <1>6, <1>15, <1>2, <2>0, WaitingIsLast
  <2>2. u # <<>>
    BY <1>6, <1>8
  <2> QED
    <3>1. \A h \in DOMAIN u : AnswerGiven(u, h)
      BY <1>14, <2>1 DEF AnswerGiven
    <3> QED
      BY <1>13, <3>1, <2>2 DEF Acceptable, AllClaimed, AnswerGiven
<1>18. OneEach(u)
  BY <1>2, <1>8, <1>9 DEF OneEach
<1>19. Waiting(u) /\ \E k \in DOMAIN u : u[k].kind # "tool"
  BY <1>15 DEF Waiting, WaitsFor
<1> QED
  BY <1>3, <1>5, <1>6, <1>16, <1>17, <1>18, <1>19

-----------------------------------------------------------------------------
(* The graph thread: the indices a mended list keeps                          *)

\* how many members of s come no later than n
PlaceIn(s) == [n \in s |-> Cardinality({m \in s : m <= n})]

LEMMA PlacesCount ==
  ASSUME NEW s \in SUBSET Nat, IsFiniteSet(s)
  PROVE  /\ Cardinality(s) \in Nat
         /\ PlaceIn(s) \in Bijection(s, 1 .. Cardinality(s))
         /\ \A m, n \in s : m < n => PlaceIn(s)[m] < PlaceIn(s)[n]
<1> DEFINE below(n) == {m \in s : m <= n}
           place == PlaceIn(s)
<1>1. Cardinality(s) \in Nat
  BY FS_CardinalityType
<1>2. \A n \in s : /\ IsFiniteSet(below(n)) /\ Cardinality(below(n)) \in Nat
                   /\ Cardinality(below(n)) <= Cardinality(s)
                   /\ Cardinality(below(n)) # 0
  <2> SUFFICES ASSUME NEW n \in s
               PROVE  /\ IsFiniteSet(below(n)) /\ Cardinality(below(n)) \in Nat
                      /\ Cardinality(below(n)) <= Cardinality(s)
                      /\ Cardinality(below(n)) # 0
    OBVIOUS
  <2>1. below(n) \in SUBSET s /\ n \in below(n)
    OBVIOUS
  <2>2. IsFiniteSet(below(n)) /\ Cardinality(below(n)) <= Cardinality(s)
    BY <2>1, FS_Subset
  <2>3. Cardinality(below(n)) # 0
    BY <2>1, <2>2, FS_EmptySet
  <2> QED
    BY <2>2, <2>3, FS_CardinalityType
<1>3. \A n \in s : place[n] = Cardinality(below(n))
  BY DEF PlaceIn
<1>4. place \in [s -> 1 .. Cardinality(s)]
  BY <1>1, <1>2 DEF PlaceIn
<1>5. \A m, n \in s : m < n => place[m] < place[n]
  <2> SUFFICES ASSUME NEW m \in s, NEW n \in s, m < n
               PROVE  Cardinality(below(m)) < Cardinality(below(n))
    BY <1>3
  <2>1. below(m) \in SUBSET below(n) /\ n \in below(n) /\ n \notin below(m)
    <3>1. m \in Nat /\ n \in Nat /\ \A x \in s : x \in Nat
      OBVIOUS
    <3>2. \A x \in s : x <= m => x <= n
      BY <3>1
    <3>3. m <= n /\ n <= n /\ ~(n <= m)
      BY <3>1
    <3> QED
      BY <3>2, <3>3
  <2>2. Cardinality(below(m)) <= Cardinality(below(n))
        /\ (Cardinality(below(m)) = Cardinality(below(n)) => below(n) = below(m))
    BY <1>2, <2>1, FS_Subset
  <2> QED
    BY <1>2, <2>1, <2>2
<1>6. place \in Injection(s, 1 .. Cardinality(s))
  <2>1. \A m, n \in s : place[m] = place[n] => m = n
    <3> SUFFICES ASSUME NEW m \in s, NEW n \in s, m # n PROVE place[m] # place[n]
      OBVIOUS
    <3>1. m < n \/ n < m
      OBVIOUS
    <3>2. place[m] \in Nat /\ place[n] \in Nat
      BY <1>4
    <3> QED
      BY <1>5, <3>1, <3>2
  <2> QED
    BY <1>4, <2>1 DEF Injection, IsInjective
<1>7. IsFiniteSet(1 .. Cardinality(s)) /\ Cardinality(1 .. Cardinality(s)) = Cardinality(s)
  BY <1>1, FS_Interval
<1>8. place \in Surjection(s, 1 .. Cardinality(s))
  BY <1>6, <1>7, FS_Injection
<1> QED
  BY <1>1, <1>5, <1>6, <1>8 DEF Bijection

\* Nth lists the members of a finite set of numbers, each once and in order.
LEMMA NthLists ==
  ASSUME NEW s \in SUBSET Nat, IsFiniteSet(s)
  PROVE  /\ Cardinality(s) \in Nat
         /\ \A n \in 1 .. Cardinality(s) : Nth(s, n) \in s
         /\ \A m, n \in 1 .. Cardinality(s) : m < n => Nth(s, m) < Nth(s, n)
         /\ \A i \in s : \E n \in 1 .. Cardinality(s) : Nth(s, n) = i
<1>1. PICK place : place = PlaceIn(s)
  OBVIOUS
<1>2. PICK N : N = Cardinality(s)
  OBVIOUS
<1>3. /\ N \in Nat /\ place \in [s -> 1 .. N]
      /\ \A i, j \in s : place[i] = place[j] => i = j
      /\ \A n \in 1 .. N : \E i \in s : place[i] = n
      /\ \A m, n \in s : m < n => place[m] < place[n]
  BY <1>1, <1>2, PlacesCount DEF Bijection, Injection, IsInjective, Surjection
<1> DEFINE below(i) == Cardinality({k \in s : k <= i})
<1>4. \A i \in s : place[i] = below(i)
  <2>1. place = [i \in s |-> below(i)]
    BY <1>1 DEF PlaceIn
  <2> HIDE DEF below
  <2> QED
    BY <2>1
<1>5. \A n \in 1 .. N : Nth(s, n) \in s /\ place[Nth(s, n)] = n
  <2> SUFFICES ASSUME NEW n \in 1 .. N PROVE Nth(s, n) \in s /\ place[Nth(s, n)] = n
    OBVIOUS
  <2>1. \E i \in s : below(i) = n
    BY <1>3, <1>4
  <2>2. Nth(s, n) \in s /\ below(Nth(s, n)) = n
    BY <2>1 DEF Nth
  <2> HIDE DEF below
  <2> QED
    BY <1>4, <2>2
<1>6. ASSUME NEW m \in 1 .. N, NEW n \in 1 .. N, m < n PROVE Nth(s, m) < Nth(s, n)
  <2>1. PICK i \in s, j \in s : i = Nth(s, m) /\ j = Nth(s, n) /\ place[i] = m /\ place[j] = n
    BY <1>5
  <2>2. i \in Nat /\ j \in Nat
    OBVIOUS
  <2>3. ~(j < i) /\ j # i
    BY <1>3, <1>6, <2>1
  <2> QED
    BY <2>1, <2>2, <2>3
<1>7. \A i \in s : \E n \in 1 .. N : Nth(s, n) = i
  <2> SUFFICES ASSUME NEW i \in s PROVE \E n \in 1 .. N : Nth(s, n) = i
    OBVIOUS
  <2>1. PICK n \in 1 .. N : n = place[i]
    BY <1>3
  <2> QED
    BY <1>3, <1>5, <2>1
<1> QED
  BY <1>2, <1>3, <1>5, <1>6, <1>7

\* A mended list is one its provider takes, but that it may be empty; an answer that waits for
\* tools is still the last, and waits for nothing.
LEMMA MendedIs ==
  ASSUME NEW s \in Seq(Message), OneEach(s)
  PROVE  LET u == Mended(s)
         IN  /\ u \in Seq(Message) /\ OneEach(u) /\ AllAnswered(u) /\ AllClaimed(u)
             /\ (\E i \in DOMAIN s : s[i].kind # "tool") => \E n \in DOMAIN u : u[n].kind # "tool"
             /\ Waiting(s) => Waiting(u)
<1> DEFINE kept == {i \in DOMAIN s : s[i].kind = "tool" => Claimed(s, i)}
           Mend(i) == IF s[i].kind = "ai"
                      THEN [s[i] EXCEPT !.calls = @ \cap AnsweredAt(s, i)] ELSE s[i]
<1>1. Len(s) \in Nat /\ DOMAIN s = 1 .. Len(s) /\ \A i \in DOMAIN s : s[i] \in Message /\ i \in Nat
  OBVIOUS
<1>2. kept \in SUBSET Nat /\ IsFiniteSet(kept)
  <2>1. IsFiniteSet(1 .. Len(s)) /\ kept \in SUBSET (1 .. Len(s))
    BY <1>1, FS_Interval
  <2> QED
    BY <1>1, <2>1, FS_Subset
<1>3. PICK N : N = Cardinality(kept)
  OBVIOUS
<1>4. PICK f : f = [n \in 1 .. N |-> Nth(kept, n)]
  OBVIOUS
<1>5. PICK u : u = Mended(s)
  OBVIOUS
<1>6. /\ N \in Nat /\ f \in [1 .. N -> kept]
      /\ \A m, n \in 1 .. N : m < n => f[m] < f[n]
      /\ \A i \in kept : \E n \in 1 .. N : f[n] = i
  <2> HIDE DEF kept
  <2> QED
    BY <1>2, <1>3, <1>4, NthLists
<1>7. u = [n \in 1 .. N |-> Mend(f[n])]
  BY <1>3, <1>4, <1>5 DEF Mended
<1>8. \A i \in kept : /\ i \in DOMAIN s /\ i \in Nat /\ Mend(i) \in Message /\ Mend(i).kind = s[i].kind
                      /\ s[i].kind # "ai" => Mend(i).calls = s[i].calls
                      /\ s[i].kind = "ai" => Mend(i).calls = s[i].calls \cap AnsweredAt(s, i)
  BY <1>1 DEF Message
<1>9. \A i \in DOMAIN s : s[i].kind # "tool" => i \in kept
  OBVIOUS
<1>10. \A i \in DOMAIN s : s[i].kind = "tool" => (i \in kept <=> Claimed(s, i))
  OBVIOUS
<1> HIDE DEF kept, Mend
<1>11. u \in Seq(Message) /\ Len(u) = N /\ DOMAIN u = 1 .. N
  <2>1. \A n \in 1 .. N : Mend(f[n]) \in Message
    BY <1>6, <1>8
  <2> QED
    BY <1>6, <1>7, <2>1
<1>12. \A n \in 1 .. N :
         /\ f[n] \in DOMAIN s /\ f[n] \in Nat /\ f[n] \in kept /\ u[n].kind = s[f[n]].kind
         /\ (s[f[n]].kind # "ai" => u[n].calls = s[f[n]].calls)
         /\ (s[f[n]].kind = "ai" => u[n].calls = s[f[n]].calls \cap AnsweredAt(s, f[n]))
  BY <1>6, <1>7, <1>8
<1>13. \A m, n \in 1 .. N : f[m] < f[n] => m < n
  <2> SUFFICES ASSUME NEW m \in 1 .. N, NEW n \in 1 .. N, f[m] < f[n], ~(m < n) PROVE FALSE
    OBVIOUS
  <2>1. n < m \/ n = m
    BY <1>6
  <2>2. f[m] \in Nat /\ f[n] \in Nat
    BY <1>12
  <2> QED
    BY <1>6, <2>1, <2>2
<1>14. \A i \in DOMAIN s : \A j \in Block(s, i) :
         /\ j \in DOMAIN s /\ i < j /\ s[j].kind = "tool"
         /\ \A k \in DOMAIN s : i < k /\ k <= j => s[k].kind = "tool"
  BY <1>1 DEF Block
<1>15. \A n, m \in 1 .. N : f[m] \in Block(s, f[n]) => m \in Block(u, n) /\ n \in 1 .. m - 1
  <2> SUFFICES ASSUME NEW n \in 1 .. N, NEW m \in 1 .. N, f[m] \in Block(s, f[n])
               PROVE  m \in Block(u, n) /\ n \in 1 .. m - 1
    OBVIOUS
  <2>1. n < m
    BY <1>12, <1>13, <1>14
  <2>2. ASSUME NEW k \in n + 1 .. m PROVE u[k].kind = "tool"
    <3>1. k \in 1 .. N /\ n < k /\ (k < m \/ k = m)
      BY <1>6, <2>1
    <3>a. f[n] \in Nat /\ f[k] \in Nat /\ f[m] \in Nat /\ f[n] < f[k]
      BY <1>6, <1>12, <3>1
    <3>b. f[k] < f[m] \/ k = m
      BY <1>6, <3>1
    <3>2. f[n] < f[k] /\ f[k] <= f[m]
      BY <3>a, <3>b
    <3> QED
      BY <1>12, <1>14, <3>1, <3>2
  <2> QED
    BY <1>6, <1>11, <2>1, <2>2 DEF Block
<1>16. \A i, h \in DOMAIN s, j \in DOMAIN s :
         s[i].kind = "ai" /\ s[h].kind = "ai" /\ j \in Block(s, i) /\ j \in Block(s, h) => i = h
  <2> SUFFICES ASSUME NEW i \in DOMAIN s, NEW h \in DOMAIN s, NEW j \in DOMAIN s,
                      s[i].kind = "ai", s[h].kind = "ai", j \in Block(s, i), j \in Block(s, h), i # h
               PROVE  FALSE
    OBVIOUS
  <2>1. i < h \/ h < i
    BY <1>1
  <2>2. i <= j /\ h <= j
    BY <1>1, <1>14
  <2> QED
    BY <1>14, <2>1, <2>2
<1>17. ASSUME NEW m \in 1 .. N, u[m].kind = "tool" PROVE Claimed(u, m)
  <2>1. f[m] \in DOMAIN s /\ s[f[m]].kind = "tool" /\ u[m].calls = s[f[m]].calls
    BY <1>12, <1>17
  <2>2. Claimed(s, f[m])
    BY <1>10, <1>12, <2>1
  <2>3. PICK i \in 1 .. f[m] - 1 : /\ s[i].kind = "ai" /\ f[m] \in Block(s, i)
                                   /\ s[f[m]].calls \subseteq s[i].calls
    BY <2>2 DEF Claimed
  <2>4. i \in DOMAIN s
    BY <1>1, <1>12, <2>1
  <2>5. PICK n \in 1 .. N : f[n] = i
    BY <1>6, <1>9, <2>3, <2>4
  <2>6. s[f[m]].calls \subseteq AnsweredAt(s, i)
    BY <2>3 DEF AnsweredAt
  <2>7. u[m].calls \subseteq u[n].calls /\ u[n].kind = "ai"
    BY <1>12, <2>1, <2>3, <2>5, <2>6
  <2> QED
    BY <1>15, <2>3, <2>5, <2>7 DEF Claimed
<1>18. ASSUME NEW n \in 1 .. N, u[n].kind = "ai" PROVE u[n].calls \subseteq AnsweredAt(u, n)
  <2>1. f[n] \in DOMAIN s /\ s[f[n]].kind = "ai" /\ u[n].calls = s[f[n]].calls \cap AnsweredAt(s, f[n])
    BY <1>12, <1>18
  <2> SUFFICES ASSUME NEW c \in u[n].calls PROVE c \in AnsweredAt(u, n)
    OBVIOUS
  <2>2. PICK j \in Block(s, f[n]) : c \in s[j].calls
    BY <2>1 DEF AnsweredAt
  <2>3. j \in DOMAIN s /\ f[n] < j /\ s[j].kind = "tool"
    BY <1>14, <2>1
  <2>4. s[j].calls \subseteq s[f[n]].calls
    BY <2>1, <2>2, <2>3 DEF OneEach
  <2>5. f[n] \in 1 .. j - 1
    BY <1>1, <1>12, <2>3
  <2>6. Claimed(s, j)
    BY <2>1, <2>4, <2>5 DEF Claimed
  <2>7. PICK m \in 1 .. N : f[m] = j
    BY <1>6, <1>10, <2>3, <2>6
  <2>8. m \in Block(u, n) /\ u[m].calls = s[j].calls
    BY <1>12, <1>15, <2>3, <2>7
  <2> QED
    BY <2>2, <2>8 DEF AnsweredAt
<1>19. AllAnswered(u) /\ AllClaimed(u)
  BY <1>11, <1>17, <1>18 DEF AllAnswered, AnswerGiven, AllClaimed
<1>20. OneEach(u)
  <2> SUFFICES ASSUME NEW n \in 1 .. N, u[n].kind = "tool" PROVE \E c \in Call : u[n].calls = {c}
    BY <1>11 DEF OneEach
  <2>1. f[n] \in DOMAIN s /\ s[f[n]].kind = "tool" /\ u[n].calls = s[f[n]].calls
    BY <1>12
  <2> QED
    BY <2>1 DEF OneEach
<1>21. (\E i \in DOMAIN s : s[i].kind # "tool") => \E n \in DOMAIN u : u[n].kind # "tool"
  <2> SUFFICES ASSUME NEW i \in DOMAIN s, s[i].kind # "tool" PROVE \E n \in DOMAIN u : u[n].kind # "tool"
    OBVIOUS
  <2>1. PICK n \in 1 .. N : f[n] = i
    BY <1>6, <1>9
  <2> QED
    BY <1>11, <1>12, <2>1
<1>22. Waiting(s) => Waiting(u)
  <2> SUFFICES ASSUME NEW i, WaitsFor(s, i) PROVE Waiting(u)
    BY DEF Waiting
  <2>1. i \in DOMAIN s /\ s[i].kind = "ai" /\ \A k \in i + 1 .. Len(s) : s[k].kind = "tool"
    BY DEF WaitsFor
  <2>2. PICK n \in 1 .. N : f[n] = i
    BY <1>6, <1>9, <2>1
  <2>3. ASSUME NEW k \in n + 1 .. Len(u) PROVE u[k].kind = "tool"
    <3>1. k \in 1 .. N /\ n < k
      BY <1>6, <1>11
    <3>2. f[k] \in i + 1 .. Len(s)
      BY <1>1, <1>6, <1>12, <2>2, <3>1
    <3> QED
      BY <1>12, <2>1, <3>1, <3>2
  <2>4. WaitsFor(u, n)
    BY <1>11, <1>12, <1>19, <2>1, <2>2, <2>3 DEF WaitsFor, AllAnswered
  <2> QED
    BY <1>11, <2>4 DEF Waiting
<1> QED
  BY <1>5, <1>11, <1>19, <1>20, <1>21, <1>22
-----------------------------------------------------------------------------
(* The graph thread: the inductive invariant                                 *)

Prompt == [model : Model, calls : SUBSET Call]
Thread == [msgs : Seq(Message), next : {"none", "model", "gate", "tools"}, asked : Prompted]
GraphRun == [stage : {"idle", "spawned", "fed", "running"}, model : Model, token : Prompted,
        verdict : {"message", "approve", "reject", "unclear"}, acted : BOOLEAN,
        prepend : BOOLEAN]

GraphShape ==
  /\ thread \in [Model -> Thread] /\ run \in GraphRun
  /\ durable \in BOOLEAN /\ ranAgain \in BOOLEAN /\ astray \in BOOLEAN
  /\ unspent \subseteq Prompted /\ held \in Prompted /\ unread \subseteq Model
  /\ shown \in Seq(Prompt) /\ approved \subseteq Call /\ ran \subseteq Call
  /\ spent \in [turns : Nat, calls : 0 .. MaxModelCalls, breaks : Nat]

\* A thread whose next node acts on the calls of an answer has such an answer at its end; one
\* that goes on with the model has a list the provider takes, if somebody has read it.
ThreadFits(t, isRead) ==
  /\ OneEach(t.msgs)
  /\ t.next \in {"gate", "tools"} => Waiting(t.msgs)
  /\ t.next = "model" => \E i \in DOMAIN t.msgs : t.msgs[i].kind # "tool"
  /\ t.next = "model" /\ isRead => Acceptable(t.msgs)
ThreadsFit == \A m \in Model : ThreadFits(thread[m], m \notin unread)

\* A list that was mended and waits for its message is settled.
FedFits ==
  run.stage = "fed" =>
    /\ run.token = 0 /\ run.verdict = "message"
    /\ run.model \notin unread => AllAnswered(current.msgs) /\ AllClaimed(current.msgs)

\* Prompts are numbered, each for another answer of the model; a call that ran or may run was
\* made.
NumbersFit ==
  /\ Len(shown) <= spent.calls
  /\ AtNode("gate") /\ run.verdict = "message" => Len(shown) < spent.calls
  /\ unspent \subseteq 1 .. Len(shown) /\ held <= Len(shown) /\ run.token <= Len(shown)
  /\ \A c \in ran : c.nr <= spent.calls
  /\ \A m \in Model : thread[m].next \in {"gate", "tools"} =>
       \A c \in OpenCalls(thread[m].msgs) : c.nr <= spent.calls

\* The thread m still waits where the prompt p was shown.
WaitsAt(m, p) ==
  /\ thread[m].next = "gate" /\ thread[m].asked = p
  /\ shown[p].calls = Gated(OpenCalls(thread[m].msgs))
  /\ OpenCalls(thread[m].msgs) \cap ran = {}

\* A token that was not used is with an idle worker, whose thread waits; one that was sent
\* is that of the turn, and says what the owner saw.
TokensHold ==
  /\ held \in unspent => run.stage = "idle"
  /\ run.stage = "spawned" => (run.token = 0 <=> run.verdict = "message")
  /\ run.stage = "running" /\ run.verdict # "message" => run.token # 0
  /\ run.acted => run.verdict = "message"
  /\ ~astray =>
       /\ held \in unspent => WaitsAt(shown[held].model, held)
       /\ run.stage \in {"spawned", "running"} /\ run.verdict # "message" =>
            /\ shown[run.token].model = run.model
            /\ run.verdict = "approve" => shown[run.token].calls \subseteq approved
            /\ \/ run.stage = "spawned" /\ current = NewThread
               \/ WaitsAt(run.model, run.token)

\* What the tools are about to run was approved, and none of it has run.
ToolsFit ==
  ~astray =>
    /\ AtNode("gate") => OpenCalls(current.msgs) \cap ran = {}
    /\ AtNode("tools") => /\ Gated(OpenCalls(current.msgs)) \subseteq approved
                          /\ run.acted \/ OpenCalls(current.msgs) \cap ran = {}

GraphInv ==
  /\ GraphShape /\ ThreadsFit /\ FedFits /\ NumbersFit /\ TokensHold /\ ToolsFit
  /\ NothingRunsUnapproved /\ CallsRunOnce

-----------------------------------------------------------------------------
(* The graph thread: what keeps the invariant                                *)

\* A turn may go on with the thread t when n calls have been made.
NextFits(t, n, acted) ==
  /\ t \in Thread /\ ThreadFits(t, run.model \notin unread)
  /\ t.next \in {"gate", "tools"} => \A c \in OpenCalls(t.msgs) : c.nr <= n
  /\ t.next = "gate" => Len(shown) < n
  /\ ~astray =>
       /\ t.next = "gate" => OpenCalls(t.msgs) \cap ran = {}
       /\ t.next = "tools" => /\ Gated(OpenCalls(t.msgs)) \subseteq approved
                              /\ acted \/ OpenCalls(t.msgs) \cap ran = {}

\* A thread is written.
LEMMA ThreadIsWritten ==
  ASSUME GraphShape, ThreadsFit, NEW t \in Thread, ThreadFits(t, run.model \notin unread),
         Continue(t), unread' = unread
  PROVE  /\ thread' \in [Model -> Thread] /\ ThreadsFit' /\ run.model \in Model
         /\ thread'[run.model] = t
         /\ \A m \in Model \ {run.model} : thread'[m] = thread[m]
<1>1. run.model \in Model /\ thread \in [Model -> Thread]
  BY DEF GraphShape, GraphRun
<1>2. PICK r : r = run.model
  OBVIOUS
<1>3. thread' = [thread EXCEPT ![r] = t]
  BY <1>2 DEF Continue
<1>4. /\ thread' \in [Model -> Thread] /\ thread'[r] = t
      /\ \A m \in Model \ {r} : thread'[m] = thread[m]
  BY <1>1, <1>2, <1>3
<1>5. ThreadsFit'
  <2>1. \A m \in Model \ {r} : ThreadFits(thread[m], m \notin unread)
    BY DEF ThreadsFit
  <2>2. \A m \in Model : ThreadFits(thread'[m], m \notin unread)
    BY <1>2, <1>4, <2>1
  <2> QED
    BY <2>2 DEF ThreadsFit
<1> QED
  BY <1>1, <1>2, <1>4, <1>5

LEMMA TurnGoesOn ==
  ASSUME GraphInv, run.stage # "idle", NEW t, Continue(t), 
         UNCHANGED <<durable, unspent, held, unread, shown, approved, ran, ranAgain, astray>>,
         run' \in GraphRun, run'.stage = "running", run'.model = run.model, run'.token = run.token,
         run'.verdict = "message",
         spent' \in [turns : Nat, calls : 0 .. MaxModelCalls, breaks : Nat],
         spent'.calls >= spent.calls,
         NextFits(t, spent'.calls, run'.acted)
  PROVE  GraphInv'
<1>1. GraphShape /\ ThreadsFit /\ UNCHANGED <<durable, unspent, held, unread, shown, approved, ran, ranAgain, astray>>
  BY DEF GraphInv
<1>2. /\ thread' \in [Model -> Thread] /\ ThreadsFit' /\ run.model \in Model
      /\ thread'[run.model] = t /\ \A m \in Model \ {run.model} : thread'[m] = thread[m]
  BY <1>1, ThreadIsWritten DEF NextFits
<1>3. GraphShape'
  BY <1>1, <1>2 DEF GraphShape
<1>4. FedFits'
  BY DEF FedFits
<1>5. current' = t
  BY <1>2 DEF current
<1>6. spent.calls \in Nat /\ spent'.calls \in Nat /\ Len(shown) \in Nat
      /\ \A c \in Call : c.nr \in Nat
  BY <1>1, GraphThreadAssumption DEF GraphShape, Call
<1>7. NumbersFit'
  <2>1. Len(shown') <= spent'.calls
    BY <1>1, <1>6 DEF GraphInv, NumbersFit
  <2>2. AtNode("gate")' => Len(shown') < spent'.calls
    BY <1>1, <1>5 DEF AtNode, NextFits
  <2>3. unspent' \subseteq 1 .. Len(shown') /\ held' <= Len(shown') /\ run'.token <= Len(shown')
    BY <1>1 DEF GraphInv, NumbersFit
  <2>4. \A c \in ran' : c.nr <= spent'.calls
    <3>1. \A c \in ran : c.nr \in Nat /\ c.nr <= spent.calls
      BY <1>1, <1>6 DEF GraphInv, NumbersFit, GraphShape
    <3> QED
      BY <1>1, <1>6, <3>1
  <2>5. ASSUME NEW m \in Model, thread'[m].next \in {"gate", "tools"}, NEW c \in OpenCalls(thread'[m].msgs)
        PROVE  c.nr <= spent'.calls
    <3>1. CASE m = run.model
      BY <1>2, <2>5, <3>1 DEF NextFits
    <3>2. CASE m # run.model
      <4>1. /\ thread'[m] = thread[m] /\ thread[m] \in Thread
            /\ Waiting(thread[m].msgs) /\ c \in OpenCalls(thread[m].msgs) /\ c.nr <= spent.calls
        BY <1>1, <1>2, <2>5, <3>2 DEF GraphInv, NumbersFit, GraphShape, ThreadsFit, ThreadFits
      <4>2. c \in Call
        BY <4>1, WaitingIsLast DEF Waiting, Thread
      <4> QED
        BY <1>6, <4>1, <4>2
    <3> QED
      BY <3>1, <3>2
  <2> QED
    BY <2>1, <2>2, <2>3, <2>4, <2>5 DEF NumbersFit
<1>8. TokensHold'
  BY <1>1 DEF GraphInv, TokensHold
<1>9. ToolsFit'
  BY <1>1, <1>5 DEF ToolsFit, NextFits, AtNode
<1>10. NothingRunsUnapproved' /\ CallsRunOnce'
  BY <1>1 DEF GraphInv, NothingRunsUnapproved, CallsRunOnce, Gated
<1> QED
  BY <1>2, <1>3, <1>4, <1>7, <1>8, <1>9, <1>10 DEF GraphInv

\* A new thread fits whoever looks at it.
LEMMA NewThreadsFit ==
  /\ AllNew \in [Model -> Thread] /\ \A m \in Model : AllNew[m] = NewThread
  /\ NewThread.next = "none"
  /\ \A isRead \in BOOLEAN : ThreadFits(NewThread, isRead)
<1>1. NewThread \in Thread /\ NewThread.next = "none" /\ NewThread.msgs = <<>>
  BY GraphThreadAssumption DEF NewThread, Thread, Prompted
<1>2. OneEach(NewThread.msgs)
  BY <1>1 DEF OneEach
<1> QED
  BY <1>1, <1>2 DEF AllNew, ThreadFits

LEMMA IdleRuns ==
  ASSUME run \in GraphRun
  PROVE  /\ 0 \in Prompted /\ Prompted \subseteq Nat
         /\ Idle \in GraphRun /\ Idle.stage = "idle" /\ Idle.token = 0 /\ Idle.verdict = "message"
         /\ Idle.model = run.model /\ ~Idle.acted
<1>1. 0 \in Prompted /\ Prompted \subseteq Nat
  BY GraphThreadAssumption DEF Prompted
<1> QED
  BY <1>1 DEF GraphRun, Idle

\* A turn ends with the thread as it is, or without it.
LEMMA TurnEnds ==
  ASSUME GraphInv, run.stage # "idle", run' = Idle, held' \in {held, 0},
         thread' \in {thread, AllNew},
         UNCHANGED <<durable, unspent, unread, shown, approved, ran, ranAgain, astray>>,
         spent' \in [turns : Nat, calls : 0 .. MaxModelCalls, breaks : Nat],
         spent'.calls = spent.calls
  PROVE  GraphInv'
<1>1. GraphShape /\ ThreadsFit /\ NumbersFit /\ held \notin unspent
  <2>1. GraphShape /\ ThreadsFit /\ NumbersFit /\ TokensHold
    BY DEF GraphInv
  <2>2. held \in unspent => run.stage = "idle"
    BY <2>1 DEF TokensHold
  <2> QED
    BY <2>1, <2>2
<1>2. run' \in GraphRun /\ run'.stage = "idle" /\ run'.token = 0 /\ ~run'.acted
  BY <1>1, IdleRuns DEF GraphShape
<1>3. /\ thread' \in [Model -> Thread]
      /\ \A m \in Model : thread'[m] \in {thread[m], NewThread}
  BY <1>1, NewThreadsFit DEF GraphShape
<1>4. GraphShape'
  BY <1>1, <1>2, <1>3, GraphThreadAssumption DEF GraphShape, Prompted
<1>5. ThreadsFit'
  <2>1. \A m \in Model : ThreadFits(thread[m], m \notin unread) /\ ThreadFits(NewThread, m \notin unread)
    BY <1>1, NewThreadsFit DEF ThreadsFit
  <2>2. \A m \in Model : ThreadFits(thread'[m], m \notin unread)
    BY <1>3, <2>1
  <2> QED
    BY <2>2 DEF ThreadsFit
<1>6. FedFits'
  BY <1>2 DEF FedFits
<1>7. NumbersFit'
  <2>1. 0 \notin unspent /\ 0 <= Len(shown)
    BY <1>1 DEF NumbersFit, GraphShape
  <2>2. \A m \in Model : thread'[m].next \in {"gate", "tools"} =>
          thread'[m] = thread[m]
    BY <1>3, NewThreadsFit
  <2> QED
    BY <1>1, <1>2, <2>1, <2>2 DEF NumbersFit, AtNode
<1>8. TokensHold'
  <2>1. held' \notin unspent'
    BY <1>1 DEF NumbersFit
  <2> QED
    BY <1>2, <2>1 DEF TokensHold
<1>9. ToolsFit'
  BY <1>2 DEF ToolsFit, AtNode
<1>10. NothingRunsUnapproved' /\ CallsRunOnce'
  BY DEF GraphInv, NothingRunsUnapproved, CallsRunOnce, Gated
<1> QED
  BY <1>4, <1>5, <1>6, <1>7, <1>8, <1>9, <1>10 DEF GraphInv

-----------------------------------------------------------------------------
(* The graph thread: a turn begins                                           *)

LEMMA SendTurnKeeps ==
  ASSUME GraphInv, NEW m \in Model, SendTurn(m)
  PROVE  GraphInv'
<1>1. /\ GraphShape /\ ThreadsFit /\ NumbersFit /\ TokensHold /\ NothingRunsUnapproved
      /\ CallsRunOnce
  BY DEF GraphInv
<1>2. /\ run \in GraphRun /\ held \in Prompted /\ held \in Nat /\ 0 \in Prompted
      /\ held <= Len(shown) /\ 0 \notin unspent /\ shown \in Seq(Prompt) /\ Len(shown) \in Nat
      /\ Idle \in GraphRun /\ Idle.stage = "idle" /\ Idle.token = 0 /\ Idle.model = run.model
      /\ ~Idle.acted
      /\ spent \in [turns : Nat, calls : 0 .. MaxModelCalls, breaks : Nat]
  <2>1. run \in GraphRun
    BY <1>1 DEF GraphShape
  <2>2. 0 \notin unspent /\ held <= Len(shown)
    BY <1>1 DEF GraphShape, NumbersFit
  <2> QED
    BY <1>1, <2>1, <2>2, IdleRuns DEF GraphShape
<1>3. PICK v \in {"message", "approve", "reject", "unclear"} :
        /\ v = "message" <=> held = 0
        /\ run' = IF held \in unspent \cup {0}
                  THEN [Idle EXCEPT !.stage = "spawned", !.model = m, !.token = held,
                                    !.verdict = v]
                  ELSE [Idle EXCEPT !.model = m]
        /\ approved' = IF v = "approve" THEN approved \cup shown[held].calls ELSE approved
  BY DEF SendTurn
<1>4. /\ run' \in GraphRun /\ run'.stage \in {"idle", "spawned"} /\ run'.model = m /\ ~run'.acted
      /\ run'.token \in {0, held}
      /\ run'.stage = "spawned" => /\ held \in unspent \cup {0} /\ run'.token = held
                                   /\ run'.verdict = v
  BY <1>2, <1>3 DEF GraphRun
<1>5. /\ unspent' = unspent \ {held} /\ held' = (IF held \in unspent THEN held ELSE 0)
      /\ astray' = (astray \/ (held # 0 /\ shown[held].model # m))
      /\ thread' \in {thread, AllNew}
      /\ spent' = [spent EXCEPT !.turns = @ + 1]
      /\ UNCHANGED <<durable, shown, ran, ranAgain, unread>>
  BY DEF SendTurn, Spends
<1>6. /\ thread' \in [Model -> Thread]
      /\ \A n \in Model : thread'[n] \in {thread[n], NewThread}
      /\ thread' = thread \/ thread'[m] = NewThread
  BY <1>1, <1>5, NewThreadsFit DEF GraphShape
<1>7. /\ spent' \in [turns : Nat, calls : 0 .. MaxModelCalls, breaks : Nat]
      /\ spent'.calls = spent.calls
  BY <1>2, <1>5
<1>8. approved \subseteq approved' /\ approved' \subseteq Call
      /\ (v = "approve" => shown[held].calls \subseteq approved')
  <2>1. held # 0 => shown[held] \in Prompt
    BY <1>2
  <2> QED
    BY <1>1, <1>3, <2>1 DEF GraphShape, Prompt
<1>9. astray' \in BOOLEAN /\ held' \in Prompted /\ unspent' \subseteq unspent /\ held' \notin unspent'
      /\ held' <= Len(shown)
  BY <1>1, <1>2, <1>5 DEF GraphShape
<1> HIDE DEF SendTurn
<1>10. GraphShape'
  BY <1>1, <1>4, <1>5, <1>6, <1>7, <1>8, <1>9 DEF GraphShape
<1>11. ThreadsFit'
  <2>1. \A n \in Model : ThreadFits(thread[n], n \notin unread) /\ ThreadFits(NewThread, n \notin unread)
    BY <1>1, NewThreadsFit DEF ThreadsFit
  <2>2. \A n \in Model : ThreadFits(thread'[n], n \notin unread')
    BY <1>5, <1>6, <2>1
  <2> QED
    BY <2>2 DEF ThreadsFit
<1>12. FedFits'
  BY <1>4 DEF FedFits
<1>13. NumbersFit'
  <2>1. \A n \in Model : thread'[n].next \in {"gate", "tools"} => thread'[n] = thread[n]
    BY <1>6, NewThreadsFit
  <2>2. unspent' \subseteq 1 .. Len(shown) /\ run'.token <= Len(shown) /\ Len(shown) <= spent.calls
    BY <1>1, <1>2, <1>4, <1>9 DEF NumbersFit
  <2> QED
    BY <1>1, <1>4, <1>5, <1>7, <1>9, <2>1, <2>2 DEF NumbersFit, AtNode
<1>14. TokensHold'
  <2>1. ASSUME ~astray', run'.stage = "spawned", run'.verdict # "message"
        PROVE  /\ shown'[run'.token].model = run'.model
               /\ run'.verdict = "approve" => shown'[run'.token].calls \subseteq approved'
               /\ current' = NewThread \/ WaitsAt(run.model, run.token)'
    <3>1. /\ held # 0 /\ held \in unspent /\ run'.token = held /\ run'.verdict = v
          /\ shown[held].model = m /\ ~astray
      BY <1>3, <1>4, <1>5, <2>1
    <3>2. WaitsAt(m, held)
      <4>1. WaitsAt(shown[held].model, held)
        BY <1>1, <3>1 DEF TokensHold
      <4> QED
        BY <3>1, <4>1 DEF WaitsAt
    <3>3. ASSUME thread' = thread PROVE WaitsAt(run.model, run.token)'
      <4>1. /\ thread'[m].next = "gate" /\ thread'[m].asked = held
            /\ shown'[held].calls = Gated(OpenCalls(thread'[m].msgs))
            /\ OpenCalls(thread'[m].msgs) \cap ran' = {}
        BY <1>5, <3>2, <3>3 DEF WaitsAt
      <4>2. run'.model = m /\ run'.token = held
        BY <1>4, <3>1
      <4> QED
        BY <4>1, <4>2 DEF WaitsAt
    <3>4. ASSUME thread'[m] = NewThread PROVE current' = NewThread
      BY <1>4, <3>4 DEF current
    <3> QED
      BY <1>4, <1>5, <1>6, <1>8, <3>1, <3>3, <3>4
  <2>2. run'.stage = "spawned" => (run'.token = 0 <=> run'.verdict = "message")
    BY <1>3, <1>4
  <2> QED
    BY <1>4, <1>9, <2>1, <2>2 DEF TokensHold
<1>15. ToolsFit'
  BY <1>4 DEF ToolsFit, AtNode
<1>16. NothingRunsUnapproved' /\ CallsRunOnce'
  BY <1>1, <1>5, <1>8 DEF NothingRunsUnapproved, CallsRunOnce, Gated
<1> QED
  BY <1>10, <1>11, <1>12, <1>13, <1>14, <1>15, <1>16 DEF GraphInv

LEMMA ReadThreadKeeps ==
  ASSUME GraphInv, ReadThread
  PROVE  GraphInv'
<1>1. /\ GraphShape /\ ThreadsFit /\ NumbersFit /\ TokensHold
      /\ run \in GraphRun /\ run.model \in Model /\ thread \in [Model -> Thread]
  BY DEF GraphInv, GraphShape, GraphRun
<1>2. PICK m \in Model : m = run.model
  BY <1>1
<1>3. PICK t \in Thread : t = thread[m] /\ t = current
  BY <1>1, <1>2 DEF current
<1>4. /\ t.msgs \in Seq(Message) /\ t.asked \in Prompted /\ t.next \in {"none", "model", "gate", "tools"}
      /\ ThreadFits(t, m \notin unread) /\ 0 \in Prompted
  BY <1>1, <1>2, <1>3, IdleRuns DEF ThreadsFit, Thread
<1>5. /\ run.stage = "spawned" /\ run.verdict = "message" /\ run.token = 0
      /\ held \notin unspent
  BY <1>1 DEF ReadThread, TokensHold
<1>6. PICK u : u = Mended(t.msgs)
  OBVIOUS
<1>7. /\ u \in Seq(Message) /\ OneEach(u) /\ AllAnswered(u) /\ AllClaimed(u)
      /\ (\E i \in DOMAIN t.msgs : t.msgs[i].kind # "tool") => \E n \in DOMAIN u : u[n].kind # "tool"
      /\ Waiting(t.msgs) => Waiting(u)
  BY <1>4, <1>6, MendedIs DEF ThreadFits
<1>8. Waiting(u) => OpenCalls(u) = {}
  <2> SUFFICES ASSUME NEW i, WaitsFor(u, i) PROVE OpenCalls(u) = {}
    BY DEF Waiting
  <2>1. OpenCalls(u) = u[i].calls \ AnsweredAt(u, i)
    BY <1>7, WaitingIsLast
  <2>2. u[i].calls \subseteq AnsweredAt(u, i)
    BY <1>7 DEF AllAnswered, AnswerGiven, WaitsFor
  <2> QED
    BY <2>1, <2>2
<1>9. PICK r \in Thread :
        /\ Continue(r) /\ r.next = t.next
        /\ \/ r.msgs = u /\ (t.next \in {"gate", "tools"} => OpenCalls(r.msgs) = {})
           \/ r = t /\ r.msgs = <<>>
  <2>1. CASE t.msgs = <<>>
    <3>1. UNCHANGED thread
      BY <1>3, <2>1 DEF ReadThread
    <3>2. Continue(t)
      BY <1>1, <1>2, <1>3, <3>1 DEF Continue
    <3> QED
      BY <2>1, <3>2
  <2>2. CASE t.msgs # <<>>
    <3>1. PICK a \in Prompted : Continue([t EXCEPT !.msgs = u, !.asked = a])
      <4>1. Continue([t EXCEPT !.msgs = u, !.asked = IF u = t.msgs THEN @ ELSE 0])
        BY <1>3, <1>6, <2>2 DEF ReadThread
      <4>2. PICK a : a = IF u = t.msgs THEN t.asked ELSE 0
        OBVIOUS
      <4>3. [t EXCEPT !.msgs = u, !.asked = IF u = t.msgs THEN @ ELSE 0] = [t EXCEPT !.msgs = u, !.asked = a]
        BY <4>2 DEF Thread
      <4> QED
        BY <1>4, <4>1, <4>2, <4>3
    <3>2. PICK r : r = [t EXCEPT !.msgs = u, !.asked = a]
      OBVIOUS
    <3>3. r \in Thread /\ r.next = t.next /\ r.msgs = u
      BY <1>7, <3>2 DEF Thread
    <3>4. t.next \in {"gate", "tools"} => OpenCalls(u) = {}
      <4>1. t.next \in {"gate", "tools"} => Waiting(t.msgs)
        BY <1>4 DEF ThreadFits
      <4> QED
        BY <1>7, <1>8, <4>1
    <3> QED
      BY <3>1, <3>2, <3>3, <3>4
  <2> QED
    BY <2>1, <2>2
<1>10. OneEach(r.msgs) /\ AllAnswered(r.msgs) /\ AllClaimed(r.msgs)
  BY <1>7, <1>9 DEF OneEach, AllAnswered, AllClaimed
<1>11. ThreadFits(r, TRUE)
  <2>1. CASE r.msgs = u /\ (t.next \in {"gate", "tools"} => OpenCalls(r.msgs) = {})
    <3>1. r.next \in {"gate", "tools"} => Waiting(r.msgs)
      BY <1>4, <1>7, <1>9, <2>1 DEF ThreadFits
    <3>2. r.next = "model" => \E i \in DOMAIN r.msgs : r.msgs[i].kind # "tool"
      BY <1>4, <1>7, <1>9, <2>1 DEF ThreadFits
    <3>3. r.next = "model" => Acceptable(r.msgs)
      <4>1. r.next = "model" => r.msgs # <<>>
        BY <3>2
      <4> QED
        BY <1>10, <4>1 DEF Acceptable, AllAnswered, AnswerGiven, AllClaimed
    <3> QED
      BY <1>10, <3>1, <3>2, <3>3 DEF ThreadFits
  <2>2. CASE r = t /\ r.msgs = <<>>
    <3>1. r.next \notin {"gate", "tools", "model"}
      BY <1>4, <2>2 DEF ThreadFits, Waiting
    <3> QED
      BY <1>10, <3>1 DEF ThreadFits
  <2> QED
    BY <1>9, <2>1, <2>2
<1>12. /\ run' = [run EXCEPT !.stage = "fed", !.prepend = t.msgs = <<>>]
       /\ unread' = unread \ {m}
       /\ UNCHANGED <<durable, unspent, held, shown, approved, ran, ranAgain, astray, spent>>
  BY <1>2, <1>3 DEF ReadThread, history
<1>13. run' \in GraphRun /\ run'.stage = "fed" /\ run'.model = m /\ run'.token = 0 /\ run'.verdict = "message"
  <2>1. (t.msgs = <<>>) \in BOOLEAN
    OBVIOUS
  <2> QED
    BY <1>1, <1>2, <1>5, <1>12, <2>1 DEF GraphRun
<1> HIDE DEF ReadThread
<1>14. thread' = [thread EXCEPT ![m] = r]
  BY <1>2, <1>9 DEF Continue
<1>15. /\ thread' \in [Model -> Thread] /\ thread'[m] = r
       /\ \A n \in Model \ {m} : thread'[n] = thread[n]
  BY <1>1, <1>9, <1>14
<1>16. GraphShape'
  BY <1>1, <1>12, <1>13, <1>15 DEF GraphShape
<1>17. ThreadsFit'
  <2>1. \A n \in Model \ {m} : ThreadFits(thread'[n], n \notin unread')
    <3>1. \A n \in Model \ {m} : n \notin unread' <=> n \notin unread
      BY <1>12
    <3>2. \A n \in Model \ {m} : ThreadFits(thread[n], n \notin unread)
      BY <1>1 DEF ThreadsFit
    <3> QED
      BY <1>15, <3>1, <3>2 DEF ThreadFits
  <2>2. ThreadFits(thread'[m], m \notin unread')
    BY <1>11, <1>12, <1>15 DEF ThreadFits
  <2> QED
    BY <2>1, <2>2 DEF ThreadsFit
<1>18. FedFits'
  <2>1. current' = r
    BY <1>13, <1>15 DEF current
  <2> QED
    BY <1>10, <1>13, <2>1 DEF FedFits
<1>19. NumbersFit'
  <2>1. ASSUME NEW n \in Model, thread'[n].next \in {"gate", "tools"}
        PROVE  \A c \in OpenCalls(thread'[n].msgs) : c.nr <= spent.calls
    <3>1. CASE n = m
      <4>1. OpenCalls(r.msgs) = {}
        BY <1>9, <1>11, <1>15, <2>1, <3>1 DEF ThreadFits, Waiting
      <4> QED
        BY <1>15, <3>1, <4>1
    <3>2. CASE n # m
      BY <1>1, <1>15, <2>1, <3>2 DEF NumbersFit
    <3> QED
      BY <3>1, <3>2
  <2> QED
    BY <1>1, <1>5, <1>12, <1>13, <2>1 DEF NumbersFit, AtNode
<1>20. TokensHold'
  BY <1>5, <1>12, <1>13 DEF TokensHold
<1>21. ToolsFit'
  BY <1>13 DEF ToolsFit, AtNode
<1>22. NothingRunsUnapproved' /\ CallsRunOnce'
  BY <1>12 DEF GraphInv, NothingRunsUnapproved, CallsRunOnce, Gated
<1> QED
  BY <1>16, <1>17, <1>18, <1>19, <1>20, <1>21, <1>22 DEF GraphInv

LEMMA Currently ==
  ASSUME GraphInv
  PROVE  /\ run \in GraphRun /\ run.model \in Model /\ thread \in [Model -> Thread]
         /\ current = thread[run.model] /\ current \in Thread
         /\ ThreadFits(current, run.model \notin unread)
         /\ current.msgs \in Seq(Message) /\ OneEach(current.msgs)
         /\ spent \in [turns : Nat, calls : 0 .. MaxModelCalls, breaks : Nat]
         /\ spent.calls \in Nat /\ MaxModelCalls \in Nat /\ spent.calls <= MaxModelCalls
         /\ Len(shown) \in Nat /\ Len(shown) <= spent.calls
         /\ (run.stage # "idle" => held \notin unspent)
         /\ 0 \in Prompted
<1>1. GraphShape /\ ThreadsFit /\ NumbersFit /\ TokensHold
  BY DEF GraphInv
<1>2. run \in GraphRun /\ run.model \in Model /\ thread \in [Model -> Thread]
  BY <1>1 DEF GraphShape, GraphRun
<1>3. current = thread[run.model] /\ current \in Thread
  BY <1>2 DEF current
<1>4. ThreadFits(current, run.model \notin unread)
  BY <1>1, <1>2, <1>3 DEF ThreadsFit
<1>5. current.msgs \in Seq(Message) /\ OneEach(current.msgs)
  BY <1>3, <1>4 DEF Thread, ThreadFits
<1>6. spent \in [turns : Nat, calls : 0 .. MaxModelCalls, breaks : Nat] /\ shown \in Seq(Prompt)
  BY <1>1 DEF GraphShape
<1>7. held \in unspent => run.stage = "idle"
  BY <1>1 DEF TokensHold
<1>8. MaxModelCalls \in Nat /\ Len(shown) <= spent.calls /\ 0 \in Prompted
  BY <1>1, <1>2, IdleRuns, GraphThreadAssumption DEF NumbersFit
<1> QED
  BY <1>2, <1>3, <1>4, <1>5, <1>6, <1>7, <1>8

LEMMA ReadFailsKeeps ==
  ASSUME GraphInv, ReadFails
  PROVE  GraphInv'
<1>1. /\ GraphShape /\ ThreadsFit /\ NumbersFit /\ TokensHold /\ run.stage = "spawned"
      /\ run.verdict = "message" /\ run.token = 0 /\ held \notin unspent
  BY DEF GraphInv, TokensHold, ReadFails
<1>2. PICK b \in BOOLEAN : run' = [run EXCEPT !.stage = "fed", !.prepend = b]
  BY DEF ReadFails
<1>3. /\ run' \in GraphRun /\ run'.stage = "fed" /\ run'.model = run.model /\ run'.token = 0
      /\ run'.verdict = "message"
  BY <1>1, <1>2, Currently DEF GraphRun
<1>4. /\ unread' = unread \cup {run.model} /\ spent' = [spent EXCEPT !.breaks = @ + 1]
      /\ UNCHANGED <<thread, durable, unspent, held, shown, approved, ran, ranAgain, astray>>
  BY DEF ReadFails, history, Spends
<1>5. spent' \in [turns : Nat, calls : 0 .. MaxModelCalls, breaks : Nat] /\ spent'.calls = spent.calls
      /\ run.model \in Model
  BY <1>4, Currently
<1> HIDE DEF ReadFails
<1>6. GraphShape'
  BY <1>1, <1>3, <1>4, <1>5 DEF GraphShape
<1>7. ThreadsFit'
  BY <1>1, <1>4 DEF ThreadsFit, ThreadFits
<1>8. FedFits'
  BY <1>3, <1>4 DEF FedFits
<1>9. NumbersFit'
  BY <1>1, <1>3, <1>4, <1>5 DEF NumbersFit, AtNode
<1>10. TokensHold'
  BY <1>1, <1>3, <1>4 DEF TokensHold
<1>11. ToolsFit'
  BY <1>3 DEF ToolsFit, AtNode
<1>12. NothingRunsUnapproved' /\ CallsRunOnce'
  BY <1>4 DEF GraphInv, NothingRunsUnapproved, CallsRunOnce, Gated
<1> QED
  BY <1>6, <1>7, <1>8, <1>9, <1>10, <1>11, <1>12 DEF GraphInv

LEMMA FeedMessageKeeps ==
  ASSUME GraphInv, FeedMessage
  PROVE  GraphInv'
<1>1. run.stage = "fed" /\ run.verdict = "message" /\ FedFits
  BY DEF GraphInv, FedFits, FeedMessage
<1>2. PICK s : s = current.msgs
  OBVIOUS
<1>3. s \in Seq(Message) /\ OneEach(s) /\ (run.model \notin unread => AllAnswered(s) /\ AllClaimed(s))
  <2>1. run.model \notin unread => AllAnswered(current.msgs) /\ AllClaimed(current.msgs)
    BY <1>1 DEF FedFits
  <2>2. current.msgs \in Seq(Message) /\ OneEach(current.msgs)
    BY Currently
  <2> QED
    BY <1>2, <2>1, <2>2 DEF AllAnswered, AllClaimed, OneEach, AnswerGiven
<1>4. PICK x \in Message, y \in Message : /\ x = Says("system", {}) /\ x.kind = "system"
                                          /\ y = Says("human", {}) /\ y.kind = "human"
  <2>1. /\ Says("system", {}) \in Message /\ Says("system", {}).kind = "system"
        /\ Says("human", {}) \in Message /\ Says("human", {}).kind = "human"
    BY DEF Says, Message
  <2> QED
    BY ONLY <2>1
<1>5. PICK w : /\ w = s \o (IF run.prepend THEN <<Says("system", {})>> ELSE <<>>)
               /\ w \in Seq(Message) /\ OneEach(w)
               /\ (run.model \notin unread => AllAnswered(w) /\ AllClaimed(w))
  <2>1. CASE run.prepend
    BY <1>3, <1>4, <2>1, MessageIsTaken
  <2>2. CASE ~run.prepend
    <3>1. s \o <<>> = s
      BY <1>3
    <3> QED
      BY <1>3, <2>2, <3>1
  <2> QED
    BY <2>1, <2>2
<1>6. PICK u : /\ u = w \o <<y>> /\ u \in Seq(Message) /\ OneEach(u)
               /\ (run.model \notin unread => AllAnswered(u) /\ AllClaimed(u))
               /\ \E i \in DOMAIN u : u[i].kind = "human"
  <2>1. PICK u : u = w \o <<y>>
    OBVIOUS
  <2>2. /\ u \in Seq(Message) /\ OneEach(u)
        /\ (AllAnswered(w) /\ AllClaimed(w) => AllAnswered(u) /\ AllClaimed(u))
        /\ Len(u) \in DOMAIN u /\ u[Len(u)] = y
    BY <1>4, <1>5, <2>1, MessageIsTaken
  <2> QED
    BY <1>4, <1>5, <2>1, <2>2
<1>7. PICK t : t = [msgs |-> u, next |-> "model", asked |-> 0]
  OBVIOUS
<1>8. t \in Thread /\ t.msgs = u /\ t.next = "model"
  BY <1>6, <1>7, Currently DEF Thread
<1>9. Continue(t)
  BY <1>2, <1>4, <1>5, <1>6, <1>7 DEF FeedMessage
<1>10. run.model \notin unread => Acceptable(u)
  BY <1>6 DEF Acceptable, AllAnswered, AnswerGiven, AllClaimed
<1>11. ThreadFits(t, run.model \notin unread)
  BY <1>6, <1>8, <1>10 DEF ThreadFits
<1>12. /\ run' = [run EXCEPT !.stage = "running"] /\ spent' = spent
       /\ UNCHANGED <<durable, unspent, held, unread, shown, approved, ran, ranAgain, astray>>
  BY DEF FeedMessage, history
<1>13. /\ run' \in GraphRun /\ run'.stage = "running" /\ run'.model = run.model /\ run'.token = run.token
       /\ run'.verdict = "message"
  BY <1>1, <1>12, Currently DEF GraphRun
<1>14. NextFits(t, spent'.calls, run'.acted)
  BY <1>8, <1>11 DEF NextFits
<1>15. /\ spent' \in [turns : Nat, calls : 0 .. MaxModelCalls, breaks : Nat]
       /\ spent'.calls >= spent.calls
  BY <1>12, Currently
<1>16. run.stage # "idle"
  BY <1>1
<1> QED
  BY <1>9, <1>12, <1>13, <1>14, <1>15, <1>16, TurnGoesOn

LEMMA ResumeThreadKeeps ==
  ASSUME GraphInv, ResumeThread
  PROVE  GraphInv'
<1>1. /\ run.stage = "spawned" /\ run.verdict # "message"
      /\ UNCHANGED <<durable, unspent, unread, shown, approved, ran, ranAgain, astray, spent, thread>>
      /\ \/ current.next # "none" /\ run' = [run EXCEPT !.stage = "running"] /\ held' = held
         \/ run' = Idle /\ held' \in {held, 0}
  BY DEF ResumeThread, history, HasPending, TurnOver, HeldAfterTurn
<1>2. CASE current.next # "none" /\ run' = [run EXCEPT !.stage = "running"] /\ held' = held
  <2>1. /\ GraphShape /\ ThreadsFit /\ NumbersFit /\ TokensHold /\ held \notin unspent
    BY <1>1, Currently DEF GraphInv
  <2>2. /\ run' \in GraphRun /\ run'.stage = "running" /\ run'.model = run.model /\ run'.token = run.token
        /\ run'.verdict = run.verdict /\ run'.acted = run.acted
    BY <1>2, Currently DEF GraphRun
  <2>3. run.token # 0
    BY <1>1, <2>1 DEF TokensHold
  <2>4. current' = current
    BY <1>1, <2>2 DEF current
  <2>5. ~astray => /\ shown[run.token].model = run.model
                   /\ run.verdict = "approve" => shown[run.token].calls \subseteq approved
                   /\ WaitsAt(run.model, run.token)
    BY <1>1, <1>2, <2>1, NewThreadsFit DEF TokensHold
  <2>6. GraphShape'
    BY <1>1, <1>2, <2>1, <2>2 DEF GraphShape
  <2>7. ThreadsFit'
    BY <1>1, <2>1 DEF ThreadsFit
  <2>8. FedFits'
    BY <2>2 DEF FedFits
  <2>9. NumbersFit'
    BY <1>1, <1>2, <2>1, <2>2 DEF NumbersFit, AtNode
  <2>10. TokensHold'
    <3>1. ~astray => WaitsAt(run.model, run.token)'
      BY <1>1, <2>2, <2>5 DEF WaitsAt
    <3> QED
      BY <1>1, <1>2, <2>1, <2>2, <2>3, <2>5, <3>1 DEF TokensHold
  <2>11. ToolsFit'
    <3>1. ~astray => current.next = "gate" /\ OpenCalls(current.msgs) \cap ran = {}
      BY <2>5, Currently DEF WaitsAt
    <3> QED
      BY <1>1, <2>4, <3>1 DEF ToolsFit, AtNode
  <2>12. NothingRunsUnapproved' /\ CallsRunOnce'
    BY <1>1 DEF GraphInv, NothingRunsUnapproved, CallsRunOnce, Gated
  <2> QED
    BY <2>6, <2>7, <2>8, <2>9, <2>10, <2>11, <2>12 DEF GraphInv
<1>3. CASE run' = Idle /\ held' \in {held, 0}
  BY <1>1, <1>3, Currently, TurnEnds
<1> QED
  BY <1>1, <1>2, <1>3

-----------------------------------------------------------------------------
(* The graph thread: the nodes                                               *)

LEMMA CallModelKeeps ==
  ASSUME GraphInv, CallModel
  PROVE  GraphInv'
<1>1. /\ run.stage = "running" /\ current.next = "model" /\ Acceptable(current.msgs)
      /\ run' = [run EXCEPT !.verdict = "message"]
      /\ UNCHANGED <<durable, unspent, held, unread, shown, approved, ran, ranAgain, astray>>
  BY DEF CallModel, AtNode, history
<1> DEFINE Made(used) == {[nr |-> spent.calls + 1, tool |-> x] : x \in used}
<1>a. PICK used \in SUBSET Tool :
        /\ used # {} => spent.calls < MaxModelCalls
        /\ Continue([msgs |-> Append(current.msgs, Says("ai", Made(used))),
                     next |-> AfterCalls(Made(used)), asked |-> 0])
        /\ spent' = [spent EXCEPT !.calls = IF Made(used) = {} THEN @ ELSE @ + 1]
  BY DEF CallModel
<1>b. PICK calls : calls = Made(used)
  OBVIOUS
<1>2. /\ used # {} => spent.calls < MaxModelCalls
      /\ calls = {[nr |-> spent.calls + 1, tool |-> x] : x \in used}
      /\ Continue([msgs |-> Append(current.msgs, Says("ai", calls)),
                   next |-> AfterCalls(calls), asked |-> 0])
      /\ spent' = [spent EXCEPT !.calls = IF calls = {} THEN @ ELSE @ + 1]
  BY <1>a, <1>b
<1> HIDE DEF Made
<1>3. /\ calls \in SUBSET Call
      /\ \A c \in calls : c.nr = spent.calls + 1
      /\ calls # {} => spent.calls < MaxModelCalls
  BY <1>2, Currently DEF Call
<1> HIDE DEF CallModel
<1>4. /\ spent' \in [turns : Nat, calls : 0 .. MaxModelCalls, breaks : Nat]
      /\ spent'.calls = IF calls = {} THEN spent.calls ELSE spent.calls + 1
      /\ spent'.calls >= spent.calls
  BY <1>2, <1>3, Currently
<1>5. PICK u : u = Append(current.msgs, Says("ai", calls))
  OBVIOUS
<1>6. u \in Seq(Message) /\ OneEach(u) /\ Waiting(u) /\ OpenCalls(u) = calls
  BY <1>1, <1>3, <1>5, Currently, ModelAnswers
<1>7. PICK n : /\ n = AfterCalls(calls) /\ n \in {"gate", "tools", "none"}
               /\ n \in {"gate", "tools"} => calls # {}
               /\ n = "tools" => Gated(calls) = {}
  BY DEF AfterCalls, Gated
<1>8. PICK t : t = [msgs |-> u, next |-> n, asked |-> 0]
  OBVIOUS
<1>9. t \in Thread /\ t.msgs = u /\ t.next = n /\ Continue(t)
  BY <1>2, <1>5, <1>6, <1>7, <1>8, Currently DEF Thread
<1>10. ThreadFits(t, run.model \notin unread)
  BY <1>6, <1>7, <1>9 DEF ThreadFits
<1>11. calls \cap ran = {}
  <2>1. \A c \in ran : c.nr \in Nat /\ c.nr <= spent.calls
    BY Currently DEF GraphInv, NumbersFit, GraphShape, Call
  <2> QED
    BY <1>3, <2>1, Currently
<1>12. NextFits(t, spent'.calls, run'.acted)
  <2>1. n \in {"gate", "tools"} => \A c \in calls : c.nr <= spent'.calls
    BY <1>3, <1>4, <1>7, Currently
  <2>2. n = "gate" => Len(shown) < spent'.calls
    BY <1>4, <1>7, Currently
  <2> QED
    BY <1>6, <1>7, <1>9, <1>10, <1>11, <2>1, <2>2 DEF NextFits
<1>13. /\ run' \in GraphRun /\ run'.stage = "running" /\ run'.model = run.model /\ run'.token = run.token
       /\ run'.verdict = "message"
  BY <1>1, Currently DEF GraphRun
<1>14. run.stage # "idle"
  BY <1>1
<1> QED
  BY <1>1, <1>4, <1>9, <1>12, <1>13, <1>14, TurnGoesOn

LEMMA AskOwnerKeeps ==
  ASSUME GraphInv, AskOwner
  PROVE  GraphInv'
<1>1. /\ GraphShape /\ ThreadsFit /\ NumbersFit /\ TokensHold /\ ToolsFit /\ held \notin unspent
      /\ run.stage = "running" /\ current.next = "gate" /\ run.verdict = "message"
  BY Currently DEF GraphInv, AskOwner, AtNode
<1>2. PICK p : p = Len(shown) + 1
  OBVIOUS
<1>3. p \in Prompted /\ p \in Nat /\ Len(shown) < spent.calls
  BY <1>1, <1>2, Currently DEF NumbersFit, AtNode, Prompted
<1>4. PICK t : t = [current EXCEPT !.asked = p]
  OBVIOUS
<1>5. t \in Thread /\ t.msgs = current.msgs /\ t.next = "gate" /\ t.asked = p
  BY <1>1, <1>3, <1>4, Currently DEF Thread
<1>6. /\ Waiting(current.msgs) /\ OpenCalls(current.msgs) \subseteq Call
      /\ ThreadFits(t, run.model \notin unread)
  <2>1. Waiting(current.msgs)
    BY <1>1, Currently DEF ThreadFits
  <2>2. OpenCalls(current.msgs) \subseteq Call
    BY <2>1, Currently, WaitingIsLast DEF Waiting
  <2> QED
    BY <1>1, <1>5, <2>1, <2>2, Currently DEF ThreadFits
<1>7. PICK q : q = [model |-> run.model, calls |-> Gated(OpenCalls(current.msgs))]
  OBVIOUS
<1>8. q \in Prompt /\ q.model = run.model /\ q.calls = Gated(OpenCalls(current.msgs))
  BY <1>6, <1>7, Currently DEF Prompt, Gated
<1>9. /\ Continue(t) /\ shown' = Append(shown, q) /\ run' = Idle
      /\ UNCHANGED <<durable, approved, ran, ranAgain, unread, astray>>
      /\ \/ unspent' = unspent \cup {p} /\ held' = p
         \/ unspent' = unspent \cup {p} /\ held' = held
         \/ unspent' = unspent /\ held' \in {held, 0}
      /\ spent' = spent \/ spent' = [spent EXCEPT !.breaks = @ + 1]
  BY <1>2, <1>4, <1>7 DEF AskOwner, Spends, HeldAfterTurn
<1>10. /\ thread' \in [Model -> Thread] /\ ThreadsFit' /\ run.model \in Model
       /\ thread'[run.model] = t /\ \A m \in Model \ {run.model} : thread'[m] = thread[m]
  BY <1>1, <1>5, <1>6, <1>9, ThreadIsWritten
<1>11. /\ run' \in GraphRun /\ run'.stage = "idle" /\ run'.token = 0 /\ ~run'.acted
  BY <1>9, Currently, IdleRuns
<1>12. /\ spent' \in [turns : Nat, calls : 0 .. MaxModelCalls, breaks : Nat]
       /\ spent'.calls = spent.calls
  BY <1>9, Currently
<1>13. /\ shown' \in Seq(Prompt) /\ Len(shown') = p /\ shown'[p] = q
  BY <1>1, <1>2, <1>8, <1>9 DEF GraphShape
<1>14. held \in Nat /\ held <= Len(shown) /\ unspent \subseteq 1 .. Len(shown) /\ held # p
  BY <1>1, <1>2, Currently, IdleRuns DEF GraphShape, NumbersFit
<1> HIDE DEF AskOwner
<1>15. GraphShape'
  BY <1>1, <1>3, <1>9, <1>10, <1>11, <1>12, <1>13, Currently DEF GraphShape
<1>16. FedFits'
  BY <1>11 DEF FedFits
<1>17. NumbersFit'
  <2>1. unspent' \subseteq 1 .. p /\ held' <= p /\ 0 <= p /\ p <= spent.calls
    BY <1>2, <1>3, <1>9, <1>14, Currently
  <2>2. ASSUME NEW m \in Model, thread'[m].next \in {"gate", "tools"}
        PROVE  \A c \in OpenCalls(thread'[m].msgs) : c.nr <= spent.calls
    <3>1. thread'[m].msgs = thread[m].msgs /\ thread[m].next \in {"gate", "tools"}
      BY <1>1, <1>5, <1>10, <2>2, Currently
    <3> QED
      BY <1>1, <3>1 DEF NumbersFit
  <2> QED
    BY <1>1, <1>9, <1>11, <1>12, <1>13, <2>1, <2>2 DEF NumbersFit, AtNode
<1>18. TokensHold'
  <2>1. ASSUME ~astray, held' \in unspent' PROVE WaitsAt(shown[held].model, held)'
    <3>1. held' = p
      BY <1>1, <1>9, <1>14, <2>1
    <3>2. OpenCalls(current.msgs) \cap ran = {}
      BY <1>1, <2>1 DEF ToolsFit, AtNode
    <3>3. thread'[run.model].next = "gate" /\ thread'[run.model].asked = p
          /\ OpenCalls(thread'[run.model].msgs) \cap ran = {}
          /\ q.calls = Gated(OpenCalls(thread'[run.model].msgs))
      BY <1>5, <1>8, <1>10, <3>2
    <3>4. shown'[held'] = q /\ shown'[held'].model = run.model /\ ran' = ran
      BY <1>8, <1>9, <1>13, <3>1
    <3> QED
      BY <3>1, <3>3, <3>4 DEF WaitsAt
  <2> QED
    BY <1>9, <1>11, <2>1 DEF TokensHold
<1>19. ToolsFit'
  BY <1>11 DEF ToolsFit, AtNode
<1>20. NothingRunsUnapproved' /\ CallsRunOnce'
  BY <1>9 DEF GraphInv, NothingRunsUnapproved, CallsRunOnce, Gated
<1> QED
  BY <1>10, <1>15, <1>16, <1>17, <1>18, <1>19, <1>20 DEF GraphInv

LEMMA DecideKeeps ==
  ASSUME GraphInv, Decide
  PROVE  GraphInv'
<1>1. /\ ToolsFit /\ TokensHold /\ run.stage = "running" /\ current.next = "gate"
      /\ run.verdict # "message" /\ NumbersFit
      /\ UNCHANGED <<durable, unspent, unread, shown, approved, ran, ranAgain, astray, spent>>
  BY DEF GraphInv, Decide, AtNode, history
<1>2. PICK calls : calls = OpenCalls(current.msgs)
  OBVIOUS
<1>3. Waiting(current.msgs)
  BY <1>1, Currently DEF ThreadFits
<1>4. calls \subseteq Call /\ \A c \in calls : c.nr <= spent.calls
  <2>1. calls \subseteq Call
    BY <1>2, <1>3, Currently, WaitingIsLast DEF Waiting
  <2> QED
    BY <1>1, <1>2, <2>1, Currently DEF NumbersFit
<1>5. ~astray => calls \cap ran = {}
  BY <1>1, <1>2 DEF ToolsFit, AtNode
<1>6. CASE current.asked = 0
  <2>1. run' = Idle /\ held' \in {held, 0} /\ thread' = thread
    BY <1>6 DEF Decide, TurnOver, HeldAfterTurn
  <2> QED
    BY <1>1, <2>1, Currently, TurnEnds
<1>7. ASSUME current.asked # 0
      PROVE  /\ run' \in GraphRun /\ run'.stage = "running" /\ run'.model = run.model
             /\ run'.token = run.token /\ run'.verdict = "message" /\ held' = held
  <2>1. run' = [run EXCEPT !.verdict = "message"] /\ held' = held
    BY <1>7 DEF Decide
  <2> QED
    BY <1>1, <2>1, Currently DEF GraphRun
<1>8. CASE current.asked # 0 /\ run.verdict = "approve"
  <2>1. PICK t : t = [current EXCEPT !.next = "tools", !.asked = 0]
    OBVIOUS
  <2>2. t \in Thread /\ t.msgs = current.msgs /\ t.next = "tools"
    BY <2>1, Currently DEF Thread
  <2>3. Continue(t)
    BY <1>8, <2>1 DEF Decide
  <2>4. ThreadFits(t, run.model \notin unread)
    BY <1>3, <2>2, Currently DEF ThreadFits
  <2>5. ~astray => Gated(calls) \subseteq approved
    BY <1>1, <1>2, <1>8, Currently DEF TokensHold, WaitsAt
  <2>6. NextFits(t, spent'.calls, run'.acted)
    BY <1>1, <1>2, <1>4, <1>5, <2>2, <2>4, <2>5 DEF NextFits
  <2> QED
    BY <1>1, <1>7, <1>8, <2>3, <2>6, Currently, TurnGoesOn
<1>9. CASE current.asked # 0 /\ run.verdict # "approve"
  <2>1. PICK g, free : g = Gated(calls) /\ free = calls \ g
    OBVIOUS
  <2>2. PICK u : u = current.msgs \o Answers(g)
    OBVIOUS
  <2>3. g \subseteq calls /\ Gated(free) = {} /\ free \subseteq calls
    BY <2>1 DEF Gated
  <2>4. /\ u \in Seq(Message) /\ OneEach(u) /\ Waiting(u) /\ OpenCalls(u) = free
        /\ (free = {} => Acceptable(u)) /\ \E i \in DOMAIN u : u[i].kind # "tool"
    <3>1. PICK s : s = current.msgs
      OBVIOUS
    <3>2. s \in Seq(Message) /\ OneEach(s) /\ Waiting(s) /\ OpenCalls(s) = calls
      <4>1. s \in Seq(Message) /\ OneEach(current.msgs)
        BY <3>1, Currently
      <4> QED
        BY <1>2, <1>3, <3>1, <4>1, Zenon
    <3>3. u = s \o Answers(g) /\ g \subseteq OpenCalls(s)
      BY <2>2, <2>3, <3>1, <3>2
    <3> QED
      BY <2>1, <3>2, <3>3, ToolsAnswer
  <2>5. PICK t : t = [msgs |-> u, next |-> IF free = {} THEN "model" ELSE "tools", asked |-> 0]
    OBVIOUS
  <2>6. /\ t \in Thread /\ t.msgs = u /\ t.next \in {"model", "tools"}
        /\ (t.next = "model" <=> free = {})
    BY <2>4, <2>5, Currently DEF Thread
  <2>7. Continue(t)
    <3>1. Continue([msgs |-> u, asked |-> 0, next |-> IF free = {} THEN "model" ELSE "tools"])
      BY <1>2, <1>9, <2>1, <2>2 DEF Decide
    <3> QED
      BY <2>5, <3>1
  <2>8. ThreadFits(t, run.model \notin unread)
    BY <2>4, <2>6 DEF ThreadFits
  <2>9. NextFits(t, spent'.calls, run'.acted)
    BY <1>1, <1>4, <1>5, <2>3, <2>4, <2>6, <2>8 DEF NextFits
  <2> QED
    BY <1>1, <1>7, <1>9, <2>7, <2>9, Currently, TurnGoesOn
<1> QED
  BY <1>6, <1>8, <1>9

LEMMA RunToolsKeeps ==
  ASSUME GraphInv, RunTools
  PROVE  GraphInv'
<1>1. /\ GraphShape /\ ThreadsFit /\ NumbersFit /\ TokensHold /\ ToolsFit /\ held \notin unspent
      /\ run.stage = "running" /\ current.next = "tools" /\ ~run.acted
  BY Currently DEF GraphInv, RunTools, AtNode
<1>2. PICK calls : calls = OpenCalls(current.msgs)
  OBVIOUS
<1>3. /\ ran' = ran \cup calls /\ ranAgain' = (ranAgain \/ calls \cap ran # {})
      /\ run' = [run EXCEPT !.acted = TRUE, !.verdict = "message"]
      /\ UNCHANGED <<thread, durable, unspent, held, shown, approved, unread, astray, spent>>
  BY <1>2 DEF RunTools
<1>4. Waiting(current.msgs)
  BY <1>1, Currently DEF ThreadFits
<1>5. calls \subseteq Call /\ \A c \in calls : c.nr <= spent.calls
  <2>1. calls \subseteq Call
    BY <1>2, <1>4, Currently, WaitingIsLast DEF Waiting
  <2> QED
    BY <1>1, <1>2, <2>1, Currently DEF NumbersFit
<1>6. ~astray => Gated(calls) \subseteq approved /\ calls \cap ran = {}
  BY <1>1, <1>2 DEF ToolsFit, AtNode
<1>7. /\ run' \in GraphRun /\ run'.stage = "running" /\ run'.model = run.model /\ run'.token = run.token
      /\ run'.verdict = "message" /\ run'.acted
  BY <1>1, <1>3, Currently DEF GraphRun
<1> HIDE DEF RunTools
<1>8. current' = current
  BY <1>3, <1>7 DEF current
<1>9. GraphShape'
  BY <1>1, <1>3, <1>5, <1>7 DEF GraphShape
<1>10. ThreadsFit'
  BY <1>1, <1>3 DEF ThreadsFit
<1>11. FedFits'
  BY <1>7 DEF FedFits
<1>12. NumbersFit'
  BY <1>1, <1>3, <1>5, <1>7, <1>8 DEF NumbersFit, AtNode
<1>13. TokensHold'
  BY <1>1, <1>3, <1>7 DEF TokensHold
<1>14. ToolsFit'
  BY <1>1, <1>2, <1>3, <1>6, <1>7, <1>8 DEF ToolsFit, AtNode
<1>15. NothingRunsUnapproved' /\ CallsRunOnce'
  BY <1>3, <1>6 DEF GraphInv, NothingRunsUnapproved, CallsRunOnce, Gated
<1> QED
  BY <1>9, <1>10, <1>11, <1>12, <1>13, <1>14, <1>15 DEF GraphInv

LEMMA SaveToolsKeeps ==
  ASSUME GraphInv, SaveTools
  PROVE  GraphInv'
<1>1. /\ run.stage = "running" /\ current.next = "tools"
      /\ run' = [run EXCEPT !.acted = FALSE]
      /\ UNCHANGED <<durable, unspent, held, unread, shown, approved, ran, ranAgain, astray, spent>>
  BY DEF SaveTools, AtNode, history
<1>14. run.verdict = "message"
  BY DEF SaveTools, GraphInv, TokensHold
<1>2. Waiting(current.msgs)
  BY <1>1, Currently DEF ThreadFits
<1>3. PICK s : s = current.msgs
  OBVIOUS
<1>4. s \in Seq(Message) /\ OneEach(s) /\ Waiting(s)
  BY <1>2, <1>3, Currently, Zenon
<1>5. PICK calls : calls = OpenCalls(s)
  OBVIOUS
<1>6. PICK u : u = s \o Answers(calls)
  OBVIOUS
<1>7. /\ u \in Seq(Message) /\ OneEach(u) /\ Acceptable(u)
      /\ \E i \in DOMAIN u : u[i].kind # "tool"
  <2>1. /\ u \in Seq(Message) /\ OneEach(u) /\ OpenCalls(u) = OpenCalls(s) \ calls
        /\ (OpenCalls(u) = {} => Acceptable(u)) /\ \E i \in DOMAIN u : u[i].kind # "tool"
    BY <1>4, <1>5, <1>6, ToolsAnswer
  <2> QED
    BY <1>5, <2>1
<1>8. PICK t : t = [msgs |-> u, next |-> "model", asked |-> 0]
  OBVIOUS
<1>9. t \in Thread /\ t.msgs = u /\ t.next = "model"
  BY <1>7, <1>8, Currently DEF Thread
<1>10. Continue(t)
  BY <1>3, <1>5, <1>6, <1>8 DEF SaveTools
<1>11. ThreadFits(t, run.model \notin unread)
  BY <1>7, <1>9 DEF ThreadFits
<1>12. NextFits(t, spent'.calls, run'.acted)
  BY <1>9, <1>11 DEF NextFits
<1>13. /\ spent' \in [turns : Nat, calls : 0 .. MaxModelCalls, breaks : Nat]
       /\ spent'.calls >= spent.calls
  BY <1>1, Currently
<1>15. /\ run' \in GraphRun /\ run'.stage = "running" /\ run'.model = run.model /\ run'.token = run.token
       /\ run'.verdict = "message"
  BY <1>1, <1>14, Currently DEF GraphRun
<1>16. run.stage # "idle"
  BY <1>1
<1> QED
  BY <1>1, <1>10, <1>12, <1>13, <1>15, <1>16, TurnGoesOn

LEMMA OthersKeep ==
  ASSUME GraphInv, ProviderRefuses \/ TurnSucceeds \/ TurnBreaks
  PROVE  GraphInv'
<1>1. /\ run.stage # "idle" /\ run' = Idle /\ held' \in {held, 0} /\ thread' \in {thread, AllNew}
      /\ UNCHANGED <<durable, unspent, unread, shown, approved, ran, ranAgain, astray>>
      /\ spent' = spent \/ spent' = [spent EXCEPT !.breaks = @ + 1]
  BY DEF ProviderRefuses, TurnSucceeds, TurnBreaks, AtNode, history, TurnOver, HeldAfterTurn, Spends
<1>2. /\ spent' \in [turns : Nat, calls : 0 .. MaxModelCalls, breaks : Nat]
      /\ spent'.calls = spent.calls
  BY <1>1, Currently
<1> QED
  BY <1>1, <1>2, TurnEnds

LEMMA PromptDroppedKeeps ==
  ASSUME GraphInv, PromptDropped
  PROVE  GraphInv'
<1>1. /\ GraphShape /\ ThreadsFit /\ FedFits /\ NumbersFit /\ TokensHold /\ ToolsFit
      /\ NothingRunsUnapproved /\ CallsRunOnce
      /\ run.stage = "idle" /\ held' = 0
      /\ UNCHANGED <<thread, durable, run, unspent, unread, shown, approved, ran, ranAgain, astray, spent>>
  BY DEF GraphInv, PromptDropped, history
<1>2. 0 \notin unspent
  BY <1>1 DEF GraphShape, NumbersFit
<1>3. GraphShape'
  BY <1>1, Currently DEF GraphShape
<1>4. ThreadsFit'
  BY <1>1 DEF ThreadsFit
<1>5. FedFits' /\ ToolsFit' /\ NothingRunsUnapproved' /\ CallsRunOnce'
  BY <1>1 DEF FedFits, ToolsFit, NothingRunsUnapproved, CallsRunOnce, AtNode
<1>6. NumbersFit'
  BY <1>1, Currently DEF NumbersFit, AtNode
<1>7. TokensHold'
  BY <1>1, <1>2 DEF TokensHold
<1> QED
  BY <1>3, <1>4, <1>5, <1>6, <1>7 DEF GraphInv

LEMMA GraphStarts ==
  ASSUME GraphInit PROVE GraphInv
<1>1. PICK s : /\ s = <<>> \/ \E x \in Tool : s = OldMessages(x)
               /\ thread = [m \in Model |-> [NewThread EXCEPT !.msgs = s]]
  BY DEF GraphInit, NewThread
<1>2. s \in Seq(Message) /\ OneEach(s)
  <2>1. CASE s = <<>>
    BY <2>1 DEF OneEach
  <2>2. ASSUME NEW x \in Tool, s = OldMessages(x) PROVE s \in Seq(Message) /\ OneEach(s)
    <3>1. PICK c : c = [nr |-> 0, tool |-> x]
      OBVIOUS
    <3>2. c \in Call
      BY <3>1, GraphThreadAssumption DEF Call
    <3>3. PICK h, a, d : h = Says("human", {}) /\ a = Says("ai", {c}) /\ d = Says("tool", {c})
      OBVIOUS
    <3>4. s = <<h, a, h, d>>
      BY <2>2, <3>1, <3>3 DEF OldMessages
    <3>5. /\ h \in Message /\ a \in Message /\ d \in Message
          /\ h.kind = "human" /\ a.kind = "ai" /\ d.calls = {c}
      BY <3>2, <3>3 DEF Says, Message
    <3>6. /\ s \in Seq(Message) /\ DOMAIN s = 1 .. 4
          /\ s[1] = h /\ s[2] = a /\ s[3] = h /\ s[4] = d
      BY ONLY <3>4, <3>5
    <3> QED
      BY <3>2, <3>5, <3>6 DEF OneEach
  <2> QED
    BY <1>1, <2>1, <2>2
<1>3. PICK t : t = [NewThread EXCEPT !.msgs = s]
  OBVIOUS
<1>4. /\ t \in Thread /\ t.msgs = s /\ t.next = "none"
      /\ \A b \in BOOLEAN : ThreadFits(t, b)
  <2>1. t = [msgs |-> s, next |-> "none", asked |-> 0]
    BY <1>3 DEF NewThread
  <2>2. 0 \in Prompted
    BY GraphThreadAssumption DEF Prompted
  <2> QED
    BY <1>2, <2>1, <2>2 DEF Thread, ThreadFits
<1>5. thread \in [Model -> Thread] /\ \A m \in Model : thread[m] = t
  BY <1>1, <1>3, <1>4
<1>6. /\ run \in GraphRun /\ run.stage = "idle" /\ run.token = 0 /\ ~run.acted
      /\ unspent = {} /\ held = 0 /\ shown = <<>> /\ approved = {} /\ ran = {}
      /\ ranAgain = FALSE /\ unread = {} /\ astray = FALSE /\ durable \in BOOLEAN
      /\ spent = [turns |-> 0, calls |-> 0, breaks |-> 0]
  <2>1. (CHOOSE m \in Model : TRUE) \in Model /\ 0 \in Prompted
    BY GraphThreadAssumption DEF Prompted
  <2> QED
    BY <2>1 DEF GraphInit, GraphRun
<1>7. spent \in [turns : Nat, calls : 0 .. MaxModelCalls, breaks : Nat] /\ spent.calls = 0 /\ 0 \in Prompted
  BY <1>6, GraphThreadAssumption DEF Prompted
<1>8. Len(shown) = 0 /\ shown \in Seq(Prompt)
  BY <1>6
<1>9. GraphShape
  BY <1>5, <1>6, <1>7, <1>8 DEF GraphShape
<1>10. ThreadsFit
  BY <1>4, <1>5 DEF ThreadsFit
<1>11. FedFits /\ ToolsFit
  BY <1>6 DEF FedFits, ToolsFit, AtNode
<1>12. NumbersFit
  BY <1>4, <1>5, <1>6, <1>7, <1>8 DEF NumbersFit, AtNode
<1>13. TokensHold
  BY <1>6 DEF TokensHold
<1>14. NothingRunsUnapproved /\ CallsRunOnce
  BY <1>6 DEF NothingRunsUnapproved, CallsRunOnce, Gated
<1> QED
  BY <1>9, <1>10, <1>11, <1>12, <1>13, <1>14 DEF GraphInv

LEMMA GraphSteps ==
  ASSUME GraphInv, [GraphNext]_graphVars PROVE GraphInv'
<1>1. CASE UNCHANGED graphVars
  <2>1. UNCHANGED <<thread, durable, run, unspent, held, shown, approved, ran, ranAgain, unread,
                    astray, spent>>
    BY <1>1 DEF graphVars
  <2>2. (GraphShape /\ FedFits /\ NumbersFit)'
    BY <2>1 DEF GraphInv, GraphShape, FedFits, NumbersFit, AtNode, current
  <2>3. (ThreadsFit /\ TokensHold /\ ToolsFit)'
    BY <2>1 DEF GraphInv, ThreadsFit, TokensHold, ToolsFit, AtNode, current, WaitsAt
  <2>4. (NothingRunsUnapproved /\ CallsRunOnce)'
    BY <2>1 DEF GraphInv, NothingRunsUnapproved, CallsRunOnce
  <2> QED
    BY <2>2, <2>3, <2>4 DEF GraphInv
<1>2. CASE GraphNext
  <2>1. ASSUME NEW m \in Model, SendTurn(m) PROVE GraphInv'
    BY <2>1, SendTurnKeeps
  <2> QED
    BY <1>2, <2>1, ReadThreadKeeps, ReadFailsKeeps, FeedMessageKeeps, ResumeThreadKeeps,
       CallModelKeeps, AskOwnerKeeps, DecideKeeps, RunToolsKeeps, SaveToolsKeeps, OthersKeep,
       PromptDroppedKeeps DEF GraphNext
<1> QED
  BY <1>1, <1>2

\* What the invariant says of the thread in use.
LEMMA ThreadsFollow ==
  ASSUME GraphInv PROVE ThreadsStaySound /\ GraphTypeOK
<1>1. ProviderIsFed
  BY Currently DEF ProviderIsFed, AtNode, ThreadFits
<1>2. GraphTypeOK
  <2>1. \A m \in Model : thread[m] \in Thread
    BY DEF GraphInv, GraphShape
  <2>2. \A m \in Model : /\ thread[m].msgs \in Seq(Message)
                         /\ thread[m].next \in {"none", "model", "gate", "tools"}
                         /\ thread[m].asked \in Prompted
    BY <2>1 DEF Thread
  <2>3. /\ run.model \in Model /\ run.token \in Prompted
        /\ run.stage \in {"idle", "spawned", "fed", "running"}
        /\ run.verdict \in {"message", "approve", "reject", "unclear"}
        /\ run.acted \in BOOLEAN /\ run.prepend \in BOOLEAN
    BY Currently DEF GraphRun
  <2> QED
    BY <2>2, <2>3 DEF GraphTypeOK, GraphInv, GraphShape
<1> QED
  BY <1>1, <1>2 DEF ThreadsStaySound, GraphInv

\* Whatever breaks the turns of a thread, whichever model goes on with it and whatever its owner
\* decides: the provider takes its list, no gated call runs that the owner did not approve, and
\* none runs twice.  The list is mended in SqliteSaver's thread before a message
\* (langgraph.py), a token is good once, and what a prompt showed is what its thread waits for.
THEOREM ThreadsKeepSound == GraphSpec => []ThreadsStaySound
<1>1. GraphInit => GraphInv
  BY GraphStarts
<1>2. GraphInv /\ [GraphNext]_graphVars => GraphInv'
  BY GraphSteps
<1>3. GraphInv => ThreadsStaySound
  BY ThreadsFollow
<1> QED
  BY <1>1, <1>2, <1>3, PTL DEF GraphSpec
-----------------------------------------------------------------------------
(* The four sides together                                                    *)

\* On the side a behaviour is about it goes as that side goes alone, and the others rest: what
\* is proved of each side holds of the composition.
THEOREM BridgeSidesAreWhole == BridgeSpec => Spec /\ GraphSpec /\ ApprovalsSpec /\ WakeSpec
<1>1. BridgeInit => Init /\ GraphInit /\ ApprovalsInit /\ WakeInit
  BY DEF BridgeInit
<1>2. [BridgeNext]_bridgeSides => [Next]_vars
  BY DEF BridgeNext, bridgeSides
<1>3. [BridgeNext]_bridgeSides => [GraphNext]_graphVars
  BY DEF BridgeNext, bridgeSides
<1>4. [BridgeNext]_bridgeSides => [ApprovalsNext]_approvalVars
  BY DEF BridgeNext, bridgeSides
<1>5. [BridgeNext]_bridgeSides => [WakeNext]_wakeVars
  BY DEF BridgeNext, bridgeSides
<1> QED
  BY <1>1, <1>2, <1>3, <1>4, <1>5, PTL
     DEF BridgeSpec, Spec, GraphSpec, ApprovalsSpec, WakeSpec

\* Every variable of the four sides has its type, for all turns, threads, prompts and sends.
THEOREM BridgeTypesHold == BridgeSpec => []BridgeTypeOK
<1>1. GraphInit => GraphInv
  BY GraphStarts
<1>2. GraphInv /\ [GraphNext]_graphVars => GraphInv'
  BY GraphSteps
<1>3. ApprovalsInit => ApprovalsInv
  BY ApprovalsStarts
<1>4. ApprovalsInv /\ [ApprovalsNext]_approvalVars => ApprovalsInv'
  BY ApprovalsSteps
<1>5. WakeInit => WakeInv
  BY WakeStarts
<1>6. WakeInv /\ [WakeNext]_wakeVars => WakeInv'
  BY WakeSteps
<1>7. TypeOK /\ GraphInv /\ ApprovalsInv /\ WakeInv => BridgeTypeOK
  BY ThreadsFollow, ApprovalsTypes DEF BridgeTypeOK, ApprovalsInv, WakeInv, WakeShape
<1> QED
  BY <1>1, <1>2, <1>3, <1>4, <1>5, <1>6, <1>7, TypesAreKept, BridgeSidesAreWhole, PTL
     DEF GraphSpec, ApprovalsSpec, WakeSpec
=============================================================================
