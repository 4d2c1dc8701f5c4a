------------------------ MODULE MachineRestoreProofs ------------------------
(***************************************************************************)
(* Proofs about MachineRestore, for any number of devices and any bounds   *)
(* on instants and late answers: no path leaves a prepared restore behind, *)
(* a restore installs all of a snapshot or nothing, its rollback fails     *)
(* only by a fault of an actor or of the host, and without such a fault    *)
(* saving and restoring implement AtomicMachine.                           *)
(*                                                                         *)
(* RestoreInv is inductive.  It has a part that holds always (types, which *)
(* actor holds a prepared restore at each label, what is being applied),   *)
(* one that holds as long as no answer came late (the actors are in step   *)
(* with the machine, the rollback is the machine as it was), and one that  *)
(* holds as long as nothing but the candidate failed.                      *)
(***************************************************************************)
EXTENDS MachineRestore, SequenceTheorems, TLAPS

(* A message of the response channel: what rendered or captured something  *)
(* carries it.                                                             *)
Message == {r \in [type : {"Rendered", "Captured", "RestorePrepared", "RestoreRefused",
                            "RestoreCommitted", "RestoreAborted"},
                    arg : Instant \cup {None}] :
              r.type \in {"Rendered", "Captured"} => r.arg \in Instant}
ActorOf == [alive : BOOLEAN, worker : Instant, prepared : Instant \cup {None},
            audio : Instant \cup {None}, pending : BOOLEAN,
            frontend : Instant \cup {None}, answers : Seq(Message)]

(* Every part has its type. *)
Types ==
    /\ now \in Instant /\ lates \in 0 .. MaxLate
    /\ cpu \in Instant /\ device \in [Devices -> Instant] /\ fields \in Instant
    /\ actor \in [Modules -> ActorOf]
    /\ slot \in Root \cup {None} /\ root \in Root /\ rollback \in Root
    /\ next \in Modules /\ dev \in 1 .. DeviceCount + 1
    /\ phase \in {"save", "rollback", "apply", "undo"}

Applying == {"cpu", "check", "prepare", "abort_first", "device", "abort", "commit", "abort_second"}

(* Whose restore is not prepared, at each label. *)
Unprepared(m) == actor[m].frontend = None
Fronts ==
    /\ pc \in {"run", "capture", "cpu", "check"} => Unprepared("mt32") /\ Unprepared("sc55")
    /\ pc = "prepare" => Unprepared("sc55") /\ (next = "mt32" => Unprepared("mt32"))
    /\ pc = "abort_first" => Unprepared("sc55")
    /\ pc \in {"abort", "commit"} /\ next = "sc55" => Unprepared("mt32")
    /\ pc = "abort_second" => Unprepared("mt32")
    /\ pc \in Applying \cup {"run", "capture"}

(* What is applied, and how far it has come. *)
Plan ==
    /\ pc = "capture" => phase \in {"save", "rollback"} /\ (phase = "rollback" => slot # None)
    /\ pc \in Applying => /\ phase \in {"apply", "undo"} /\ slot # None
                          /\ root = IF phase = "apply" THEN slot ELSE rollback
    /\ pc \in {"check", "prepare", "device", "commit"} => cpu = root.cpu
    /\ pc = "device" => \A d \in Devices : d < dev => device[d] = root.device[d]
    /\ pc = "commit" => device = root.device /\ fields = root.fields

(* As long as no answer came late, a living worker owes an answer only for *)
(* a chunk that was ordered, and the call that asks for it gets it; no     *)
(* chunk is ordered while a restore is prepared.                           *)
Synced(a) ==
    /\ a.answers = <<>> \/ (a.pending /\ a.answers = <<[type |-> "Rendered", arg |-> a.worker]>>)
    /\ a.alive => IF a.pending THEN a.answers # <<>> ELSE a.audio # None
    /\ a.frontend # None => ~a.pending

Staged(m) == /\ ~actor[m].pending
             /\ actor[m].prepared = root.actor[m].worker
             /\ actor[m].frontend = root.actor[m].audio
Installed(m) == /\ ~actor[m].pending
                /\ actor[m].worker = root.actor[m].worker
                /\ actor[m].audio = root.actor[m].audio

InTime ==
    /\ \A m \in Modules : Synced(actor[m])
    /\ pc = "capture" => /\ root.cpu = cpu /\ root.device = device /\ root.fields = fields
                         /\ next = "sc55" => root.actor["mt32"] = Live.actor["mt32"]
                         /\ phase = "rollback" => before = Live
    /\ pc \in Applying => rollback = before
    /\ pc = "prepare" /\ next = "sc55" => Staged("mt32")
    /\ pc = "device" => Staged("mt32") /\ Staged("sc55")
    /\ pc = "commit" => /\ Staged("sc55")
                        /\ IF next = "mt32" THEN Staged("mt32") ELSE Installed("mt32")

(* Where nothing failed but the candidate, the rollback never turns back. *)
Forward ==
    /\ outcome # "partial"
    /\ pc \in Applying /\ phase = "undo" => pc \in {"cpu", "check", "prepare", "device", "commit"}

RestoreInv ==
    /\ Types /\ Fronts /\ Plan
    /\ lates = 0 => InTime
    /\ ActorsAnswer /\ ~gone => Forward
-----------------------------------------------------------------------------
(* The calls of an actor. *)

(* The parts of an actor that no call but its own changes. *)
SameBut(a, b) == /\ b.alive = a.alive /\ b.worker = a.worker /\ b.prepared = a.prepared
                 /\ b.audio = a.audio /\ b.pending = a.pending /\ b.frontend = a.frontend

(* receive takes the front of the queue, fails on an empty one, or gives up. *)
LEMMA ReceiveCases ==
  ASSUME NEW a, NEW late \in BOOLEAN, NEW o \in Receive(a, late)
  PROVE  \/ a.answers = <<>> /\ o = Error(a)
         \/ a.answers # <<>> /\ o = Ok([a EXCEPT !.answers = Tail(a.answers)], Head(a.answers))
         \/ late /\ a.alive /\ o = Outcome(FALSE, TRUE, a, None)
  BY DEF Receive

(* Taking or adding answers leaves the rest of an actor alone. *)
LEMMA WithAnswers ==
  ASSUME NEW a \in ActorOf, NEW s \in Seq(Message)
  PROVE  /\ [a EXCEPT !.answers = s] \in ActorOf
         /\ [a EXCEPT !.answers = s].answers = s
         /\ SameBut(a, [a EXCEPT !.answers = s])
  BY DEF ActorOf, SameBut

(* What receive returns: the oldest answer, or an error and the actor as it was. *)
LEMMA Received ==
  ASSUME NEW a \in ActorOf, NEW late \in BOOLEAN, NEW o \in Receive(a, late)
  PROVE  /\ o.ok \in BOOLEAN /\ o.late \in BOOLEAN /\ ~(o.ok /\ o.late)
         /\ o.late => late /\ a.alive
         /\ o.actor \in ActorOf /\ SameBut(a, o.actor)
         /\ IF o.ok THEN o.value \in Message ELSE o.actor = a
         /\ ~o.late => IF a.answers = <<>> THEN ~o.ok
                       ELSE /\ o.ok /\ o.value = Head(a.answers)
                            /\ o.actor.answers = Tail(a.answers)
  <1>0. a.answers \in Seq(Message) /\ SameBut(a, a)
    BY DEF ActorOf, SameBut
  <1>1. CASE a.answers = <<>> /\ o = Error(a)
    BY <1>0, <1>1 DEF Error, Outcome
  <1>2. CASE a.answers # <<>> /\ o = Ok([a EXCEPT !.answers = Tail(a.answers)], Head(a.answers))
    <2>1. Tail(a.answers) \in Seq(Message) /\ Head(a.answers) \in Message
      BY <1>0, <1>2
    <2> DEFINE b == [a EXCEPT !.answers = Tail(a.answers)]
    <2>2. b \in ActorOf /\ b.answers = Tail(a.answers) /\ SameBut(a, b)
      BY <2>1, WithAnswers
    <2> HIDE DEF b
    <2>3. o.ok = TRUE /\ o.late = FALSE /\ o.actor = b /\ o.value = Head(a.answers)
      BY <1>2, <2>2 DEF Ok, Outcome, b
    <2> QED BY <1>2, <2>1, <2>2, <2>3
  <1>3. CASE late /\ a.alive /\ o = Outcome(FALSE, TRUE, a, None)
    BY <1>0, <1>3 DEF Outcome
  <1> QED BY <1>1, <1>2, <1>3, ReceiveCases

(* The worker answers a command. *)
LEMMA AnsweredActor ==
  ASSUME NEW a \in ActorOf, NEW t, NEW g, [type |-> t, arg |-> g] \in Message
  PROVE  /\ Answered(a, t, g) \in ActorOf /\ SameBut(a, Answered(a, t, g))
         /\ Answered(a, t, g).answers = Append(a.answers, [type |-> t, arg |-> g])
  <1>2. a.answers \in Seq(Message)
    BY DEF ActorOf
  <1>3. Append(a.answers, [type |-> t, arg |-> g]) \in Seq(Message)
    BY <1>2
  <1>4. Answered(a, t, g) = [a EXCEPT !.answers = Append(a.answers, [type |-> t, arg |-> g])]
    BY DEF Answered
  <1> QED BY <1>3, <1>4, WithAnswers

(* An answer in time to the only question. *)
LEMMA AnsweredInTime ==
  ASSUME NEW a \in ActorOf, NEW t, NEW g, [type |-> t, arg |-> g] \in Message,
         NEW late \in BOOLEAN, NEW o \in Receive(Answered(a, t, g), late)
  PROVE  /\ o.actor \in ActorOf /\ SameBut(a, o.actor)
         /\ o.late \in BOOLEAN /\ o.ok \in BOOLEAN /\ (o.late => late)
         /\ o.ok => o.value \in Message
         /\ ~o.late => o.ok
         /\ ~o.late /\ a.answers = <<>> =>
               o.value = [type |-> t, arg |-> g] /\ o.actor.answers = <<>>
  <1> DEFINE b == Answered(a, t, g)  c == [type |-> t, arg |-> g]
  <1>1. b \in ActorOf /\ SameBut(a, b) /\ b.answers = Append(a.answers, c)
    BY AnsweredActor
  <1>2. a.answers \in Seq(Message) /\ Append(a.answers, c) # <<>>
    BY DEF ActorOf
  <1>3. Append(<<>>, c) = <<c>> /\ Head(<<c>>) = c /\ Tail(<<c>>) = <<>>
    OBVIOUS
  <1> HIDE DEF b, c
  <1>4. o \in Receive(b, late)
    BY DEF b
  <1>5. /\ o.ok \in BOOLEAN /\ o.late \in BOOLEAN /\ (o.late => late)
        /\ o.actor \in ActorOf /\ SameBut(b, o.actor) /\ (o.ok => o.value \in Message)
        /\ ~o.late => o.ok /\ o.value = Head(b.answers) /\ o.actor.answers = Tail(b.answers)
    BY <1>1, <1>2, <1>4, Received
  <1>6. SameBut(a, o.actor)
    BY <1>1, <1>5 DEF SameBut
  <1> QED BY <1>1, <1>2, <1>3, <1>5, <1>6 DEF c

(* An answer that is not the one expected makes the call fail. *)
LEMMA UnexpectedOutcome ==
  ASSUME NEW a, NEW late \in BOOLEAN, NEW o \in Receive(a, late)
  PROVE  /\ Unexpected(o).ok = FALSE /\ Unexpected(o).late = o.late
         /\ Unexpected(o).actor = o.actor
  BY ReceiveCases DEF Unexpected, Error, Ok, Outcome

(* The chunk to be mixed next, once it has arrived. *)
Shown(a) == IF a.pending THEN a.worker ELSE a.audio

(* What collecting a chunk leaves alone. *)
Kept(a, b) == /\ b.alive = a.alive /\ b.worker = a.worker
              /\ b.prepared = a.prepared /\ b.frontend = a.frontend

(* complete_render collects the chunk on its way, and nothing else. *)
LEMMA Completed ==
  ASSUME NEW a \in ActorOf, NEW late \in BOOLEAN, NEW o \in CompleteRender(a, late)
  PROVE  /\ o.ok \in BOOLEAN /\ o.late \in BOOLEAN /\ (o.late => late)
         /\ o.actor \in ActorOf /\ Kept(a, o.actor)
         /\ o.ok => ~o.late /\ ~o.actor.pending
         /\ ~o.late /\ Synced(a) => /\ Synced(o.actor) /\ Shown(o.actor) = Shown(a)
                                    /\ o.ok => o.actor.answers = <<>>
                                    /\ a.alive => o.ok
  <1>0. a.pending \in BOOLEAN /\ a.alive \in BOOLEAN
    BY DEF ActorOf
  <1>1. CASE ~a.pending
    <2>1. o = Ok(a, None)
      BY <1>1 DEF CompleteRender
    <2>2. o.ok = TRUE /\ o.late = FALSE /\ o.actor = a
      BY <2>1 DEF Ok, Outcome
    <2> QED BY <1>1, <2>2 DEF Kept, Synced
  <1>2. CASE a.pending
    <2>1. PICK r \in Receive(a, late) :
            o = IF Expected(r, "Rendered")
                THEN Ok([r.actor EXCEPT !.audio = r.value.arg, !.pending = FALSE], None)
                ELSE Unexpected(r)
      BY <1>2 DEF CompleteRender
    <2>2. /\ r.ok \in BOOLEAN /\ r.late \in BOOLEAN /\ ~(r.ok /\ r.late)
          /\ r.late => late /\ a.alive
          /\ r.actor \in ActorOf /\ SameBut(a, r.actor)
          /\ IF r.ok THEN r.value \in Message ELSE r.actor = a
          /\ ~r.late => IF a.answers = <<>> THEN ~r.ok
                        ELSE r.ok /\ r.value = Head(a.answers) /\ r.actor.answers = Tail(a.answers)
      BY Received
    <2>3. CASE Expected(r, "Rendered")
      <3>1. r.ok /\ r.value \in Message /\ r.value.type = "Rendered"
        BY <2>2, <2>3 DEF Expected
      <3>2. r.value.arg \in Instant
        BY <3>1 DEF Message
      <3> DEFINE b == [r.actor EXCEPT !.audio = r.value.arg, !.pending = FALSE]
      <3>3. /\ b \in ActorOf /\ ~b.pending /\ b.audio = r.value.arg /\ b.alive = r.actor.alive
            /\ b.worker = r.actor.worker /\ b.prepared = r.actor.prepared
            /\ b.frontend = r.actor.frontend /\ b.answers = r.actor.answers
        BY <2>2, <3>2 DEF ActorOf
      <3> HIDE DEF b
      <3>4. o.ok = TRUE /\ o.late = FALSE /\ o.actor = b
        BY <2>1, <2>3 DEF b, Ok, Outcome
      <3>5. Kept(a, b)
        BY <2>2, <3>3 DEF Kept, SameBut
      <3>6. ASSUME Synced(a)
            PROVE  b.answers = <<>> /\ b.audio = a.worker
        <4>1. a.answers # <<>> /\ r.value = Head(a.answers) /\ r.actor.answers = Tail(a.answers)
          BY <2>2, <3>1
        <4>2. a.answers = <<[type |-> "Rendered", arg |-> a.worker]>>
          BY <3>6, <4>1 DEF Synced
        <4>3. Tail(a.answers) = <<>> /\ Head(a.answers).arg = a.worker
          BY <4>2
        <4> QED BY <3>3, <4>1, <4>3
      <3>7. ASSUME Synced(a)
            PROVE  Synced(b) /\ Shown(b) = Shown(a)
        <4>1. a.worker # None
          BY BoundAssumption DEF ActorOf
        <4> QED BY <1>2, <3>3, <3>6, <3>7, <4>1 DEF Synced, Shown
      <3> QED BY <1>0, <3>3, <3>4, <3>5, <3>6, <3>7
    <2>4. CASE ~Expected(r, "Rendered")
      <3>1. o.ok = FALSE /\ o.late = r.late /\ o.actor = r.actor
        BY <2>1, <2>4, UnexpectedOutcome
      <3>2. Kept(a, r.actor)
        BY <2>2 DEF Kept, SameBut
      <3>3. ASSUME Synced(a), ~r.late
            PROVE  r.actor = a /\ ~a.alive
        <4>1. CASE a.answers = <<>>
          BY <1>2, <2>2, <3>3, <4>1 DEF Synced
        <4>2. CASE a.answers # <<>>
          <5>1. a.answers = <<[type |-> "Rendered", arg |-> a.worker]>>
            BY <3>3, <4>2 DEF Synced
          <5>2. Head(a.answers).type = "Rendered"
            BY <5>1
          <5> QED BY <2>2, <2>4, <3>3, <4>2, <5>2 DEF Expected
        <4> QED BY <4>1, <4>2
      <3> QED BY <2>2, <3>1, <3>2, <3>3
    <2> QED BY <2>3, <2>4
  <1> QED BY <1>0, <1>1, <1>2

(* exchange keeps an actor without a prepared restore in step. *)
LEMMA Exchanged ==
  ASSUME NEW a \in ActorOf, NEW late \in BOOLEAN, NEW i \in Instant,
         NEW o \in Exchange(a, late, i)
  PROVE  /\ o.late \in BOOLEAN /\ (o.late => late)
         /\ o.actor \in ActorOf /\ o.actor.frontend = a.frontend /\ o.actor.alive = a.alive
         /\ ~o.late /\ Synced(a) /\ a.frontend = None => Synced(o.actor)
  <1> DEFINE Lent(x) == [x EXCEPT !.audio = None]
             Send(x) == IF x.audio = None THEN x
                        ELSE IF ~x.alive THEN Lent(x)
                        ELSE Answered([Lent(x) EXCEPT !.worker = i, !.pending = TRUE], "Rendered", i)
  <1>1. PICK c \in CompleteRender(a, late) : o = IF c.ok THEN Ok(Send(c.actor), None) ELSE c
    BY DEF Exchange
  <1>2. /\ c.ok \in BOOLEAN /\ c.late \in BOOLEAN /\ (c.late => late)
        /\ c.actor \in ActorOf /\ Kept(a, c.actor) /\ (c.ok => ~c.late /\ ~c.actor.pending)
        /\ ~c.late /\ Synced(a) => Synced(c.actor) /\ (c.ok => c.actor.answers = <<>>)
    BY Completed
  <1>3. CASE ~c.ok
    BY <1>1, <1>2, <1>3 DEF Kept
  <1>4. CASE c.ok
    <2>1. o.late = FALSE /\ o.actor = Send(c.actor)
      BY <1>1, <1>4 DEF Ok, Outcome
    <2>2. CASE c.actor.audio = None
      BY <1>2, <1>4, <2>1, <2>2 DEF Kept
    <2>3. CASE c.actor.audio # None /\ ~c.actor.alive
      <3> DEFINE b == Lent(c.actor)
      <3>1. /\ b \in ActorOf /\ b.alive = c.actor.alive /\ b.frontend = c.actor.frontend
            /\ b.pending = c.actor.pending /\ b.answers = c.actor.answers
            /\ b.worker = c.actor.worker
        BY <1>2 DEF ActorOf
      <3>2. o.actor = b
        BY <2>1, <2>3
      <3> HIDE DEF b
      <3> QED BY <1>2, <1>4, <2>1, <2>3, <3>1, <3>2 DEF Kept, Synced
    <2>4. CASE c.actor.audio # None /\ c.actor.alive
      <3> DEFINE b == [Lent(c.actor) EXCEPT !.worker = i, !.pending = TRUE]
                 d == Answered(b, "Rendered", i)
      <3>1. /\ b \in ActorOf /\ b.alive = c.actor.alive /\ b.frontend = c.actor.frontend
            /\ b.pending = TRUE /\ b.answers = c.actor.answers /\ b.worker = i
        BY <1>2 DEF ActorOf
      <3>2. o.actor = d
        BY <2>1, <2>4
      <3> HIDE DEF b
      <3>3. /\ d \in ActorOf /\ SameBut(b, d)
            /\ d.answers = Append(b.answers, [type |-> "Rendered", arg |-> i])
        <4>1. [type |-> "Rendered", arg |-> i] \in Message
          BY DEF Message
        <4> QED BY <3>1, <4>1, AnsweredActor
      <3> HIDE DEF d
      <3>4. ASSUME Synced(a), a.frontend = None PROVE Synced(d)
        <4>1. d.answers = <<[type |-> "Rendered", arg |-> d.worker]>>
          <5>1. d.answers = Append(<<>>, [type |-> "Rendered", arg |-> i]) /\ d.worker = i
            BY <1>2, <1>4, <3>1, <3>3, <3>4 DEF SameBut
          <5> QED BY <5>1
        <4>2. d.answers # <<>>
          BY <4>1
        <4> QED BY <1>2, <3>1, <3>3, <3>4, <4>1, <4>2 DEF Synced, SameBut, Kept
      <3> QED BY <1>2, <2>1, <3>1, <3>2, <3>3, <3>4 DEF SameBut, Kept
    <2> QED BY <2>2, <2>3, <2>4
  <1> QED BY <1>2, <1>3, <1>4

(* capture_state in time returns the synthesizer and its chunk, and keeps both. *)
LEMMA Capturing ==
  ASSUME NEW a \in ActorOf, NEW late \in BOOLEAN, NEW o \in CaptureState(a, late)
  PROVE  /\ o.ok \in BOOLEAN /\ o.late \in BOOLEAN /\ (o.late => late)
         /\ o.actor \in ActorOf /\ Kept(a, o.actor)
         /\ o.ok => o.value \in [worker : Instant, audio : Instant]
         /\ ~o.late /\ Synced(a) =>
               /\ Synced(o.actor) /\ Shown(o.actor) = Shown(a)
               /\ o.ok => o.value = [worker |-> a.worker, audio |-> Shown(a)]
  <1>1. CASE a.frontend # None
    <2>1. o.ok = FALSE /\ o.late = FALSE /\ o.actor = a
      BY <1>1 DEF CaptureState, Error, Outcome
    <2> QED BY <2>1 DEF Kept
  <1>2. CASE a.frontend = None
    <2> DEFINE Use(r) == IF Expected(r, "Captured") /\ r.actor.audio # None
                         THEN Ok(r.actor, [worker |-> r.value.arg, audio |-> r.actor.audio])
                         ELSE Unexpected(r)
               Ask(x) == IF x.alive
                         THEN {Use(r) : r \in Receive(Answered(x, "Captured", x.worker), late)}
                         ELSE {Error(x)}
    <2>1. PICK c \in CompleteRender(a, late) : o \in IF c.ok THEN Ask(c.actor) ELSE {c}
      BY <1>2 DEF CaptureState
    <2>2. /\ c.ok \in BOOLEAN /\ c.late \in BOOLEAN /\ (c.late => late)
          /\ c.actor \in ActorOf /\ Kept(a, c.actor) /\ (c.ok => ~c.late /\ ~c.actor.pending)
          /\ ~c.late /\ Synced(a) => /\ Synced(c.actor) /\ Shown(c.actor) = Shown(a)
                                     /\ c.ok => c.actor.answers = <<>>
      BY Completed
    <2>3. CASE ~c.ok
      BY <2>1, <2>2, <2>3
    <2>4. CASE c.ok /\ ~c.actor.alive
      <3>1. o.ok = FALSE /\ o.late = FALSE /\ o.actor = c.actor
        BY <2>1, <2>4 DEF Error, Outcome
      <3> QED BY <2>2, <2>4, <3>1
    <2>5. CASE c.ok /\ c.actor.alive
      <3>1. PICK r \in Receive(Answered(c.actor, "Captured", c.actor.worker), late) : o = Use(r)
        BY <2>1, <2>5
      <3>2. c.actor.worker \in Instant
        BY <2>2 DEF ActorOf
      <3>3. /\ r.actor \in ActorOf /\ SameBut(c.actor, r.actor)
            /\ r.late \in BOOLEAN /\ r.ok \in BOOLEAN /\ (r.late => late)
            /\ r.ok => r.value \in Message
            /\ ~r.late => r.ok
            /\ ~r.late /\ c.actor.answers = <<>> =>
                  /\ r.value = [type |-> "Captured", arg |-> c.actor.worker]
                  /\ r.actor.answers = <<>>
        <4>1. [type |-> "Captured", arg |-> c.actor.worker] \in Message
          BY <3>2 DEF Message
        <4> QED BY <2>2, <3>1, <4>1, AnsweredInTime
      <3>4. Kept(a, r.actor)
        BY <2>2, <3>3 DEF Kept, SameBut
      <3>5. ASSUME ~r.late, Synced(a)
            PROVE  /\ Synced(r.actor) /\ Shown(r.actor) = Shown(a)
                   /\ r.value = [type |-> "Captured", arg |-> a.worker]
                   /\ r.actor.audio = Shown(a)
        <4>1. c.actor.answers = <<>> /\ Synced(c.actor) /\ Shown(c.actor) = Shown(a)
          BY <2>2, <2>5, <3>5
        <4>2. r.actor.answers = <<>> /\ r.value = [type |-> "Captured", arg |-> a.worker]
          BY <2>2, <3>3, <3>5, <4>1 DEF Kept
        <4> QED BY <2>2, <2>5, <3>3, <4>1, <4>2 DEF Synced, Shown, SameBut
      <3>6. CASE Expected(r, "Captured") /\ r.actor.audio # None
        <4>1. /\ o.ok = TRUE /\ o.late = FALSE /\ o.actor = r.actor
              /\ o.value = [worker |-> r.value.arg, audio |-> r.actor.audio]
          BY <3>1, <3>6 DEF Ok, Outcome
        <4>2. r.ok /\ r.value \in Message /\ r.value.type = "Captured"
          BY <3>3, <3>6 DEF Expected
        <4>3. r.value.arg \in Instant /\ r.actor.audio \in Instant
          BY <3>3, <3>6, <4>2 DEF Message, ActorOf
        <4>4. ~r.late
          BY <3>1, <4>2, ReceiveCases DEF Error, Ok, Outcome
        <4>5. o.value \in [worker : Instant, audio : Instant]
          BY <4>1, <4>3
        <4>6. Synced(a) => o.value = [worker |-> a.worker, audio |-> Shown(a)]
          <5>1. Synced(a) => r.value.arg = a.worker /\ r.actor.audio = Shown(a)
            BY <3>5, <4>4
          <5> QED BY <4>1, <5>1
        <4> QED BY <3>3, <3>4, <3>5, <4>1, <4>4, <4>5, <4>6
      <3>7. CASE ~(Expected(r, "Captured") /\ r.actor.audio # None)
        <4>1. o.ok = FALSE /\ o.late = r.late /\ o.actor = r.actor
          BY <3>1, <3>7, UnexpectedOutcome
        <4> QED BY <3>3, <3>4, <3>5, <4>1
      <3> QED BY <3>6, <3>7
    <2> QED BY <2>2, <2>3, <2>4, <2>5
  <1> QED BY <1>1, <1>2

(* prepare_restore in time stages the state, and refuses only an invalid one. *)
LEMMA Preparing ==
  ASSUME NEW a \in ActorOf, NEW late \in BOOLEAN, NEW s \in [worker : Instant, audio : Instant],
         NEW refuse \in BOOLEAN, NEW o \in PrepareRestore(a, late, s, refuse)
  PROVE  /\ o.ok \in BOOLEAN /\ o.late \in BOOLEAN /\ (o.late => late)
         /\ o.actor \in ActorOf /\ o.actor.alive = a.alive
         /\ ~o.ok => o.actor.frontend = a.frontend
         /\ ~o.late /\ Synced(a) =>
               /\ Synced(o.actor)
               /\ o.ok => /\ ~o.actor.pending /\ o.actor.prepared = s.worker
                          /\ o.actor.frontend = s.audio
               /\ a.alive /\ a.frontend = None /\ ~refuse => o.ok
  <1>0. s.worker \in Instant /\ s.audio \in Instant /\ a.alive \in BOOLEAN
    BY DEF ActorOf
  <1>1. CASE o = Error(a) /\ (a.frontend # None \/ refuse)
    BY <1>1 DEF Error, Outcome
  <1>2. CASE a.frontend = None /\ ~(o = Error(a) /\ refuse)
    <2> DEFINE Use(r) == IF Expected(r, "RestorePrepared")
                         THEN Ok([r.actor EXCEPT !.frontend = s.audio], None)
                         ELSE Unexpected(r)
               Accepted(x) == Answered([x EXCEPT !.prepared = s.worker], "RestorePrepared", None)
               Refused(x) == Answered(x, "RestoreRefused", None)
               Ask(x) == IF ~x.alive THEN {Error(x)}
                         ELSE UNION {{Use(r) : r \in Receive(w, late)} :
                                     w \in {Accepted(x)} \cup (IF refuse THEN {Refused(x)} ELSE {})}
    <2>1. PICK c \in CompleteRender(a, late) : o \in IF c.ok THEN Ask(c.actor) ELSE {c}
      <3> DEFINE S == UNION {IF c.ok THEN Ask(c.actor) ELSE {c} : c \in CompleteRender(a, late)}
      <3>1. o \in S \cup (IF refuse THEN {Error(a)} ELSE {})
        BY <1>2 DEF PrepareRestore
      <3> HIDE DEF Ask, S
      <3>2. o \in S
        BY <1>2, <3>1
      <3> QED BY <3>2 DEF S
    <2>2. /\ c.ok \in BOOLEAN /\ c.late \in BOOLEAN /\ (c.late => late)
          /\ c.actor \in ActorOf /\ Kept(a, c.actor) /\ (c.ok => ~c.late /\ ~c.actor.pending)
          /\ ~c.late /\ Synced(a) => /\ Synced(c.actor)
                                     /\ c.ok => c.actor.answers = <<>>
                                     /\ a.alive => c.ok
      BY Completed
    <2>3. CASE ~c.ok
      BY <2>1, <2>2, <2>3 DEF Kept
    <2>4. CASE c.ok /\ ~c.actor.alive
      <3>1. o.ok = FALSE /\ o.late = FALSE /\ o.actor = c.actor
        BY <2>1, <2>4 DEF Error, Outcome
      <3> QED BY <2>2, <2>4, <3>1 DEF Kept
    <2>5. CASE c.ok /\ c.actor.alive
      <3>1. PICK w \in {Accepted(c.actor)} \cup (IF refuse THEN {Refused(c.actor)} ELSE {}) :
              o \in {Use(r) : r \in Receive(w, late)}
        BY <2>1, <2>5
      <3>2. PICK r \in Receive(w, late) : o = Use(r)
        BY <3>1
      <3> DEFINE x == [c.actor EXCEPT !.prepared = s.worker]
      <3>3. /\ x \in ActorOf /\ x.alive = c.actor.alive /\ x.frontend = c.actor.frontend
            /\ x.pending = c.actor.pending /\ x.answers = c.actor.answers /\ x.audio = c.actor.audio
            /\ x.worker = c.actor.worker /\ x.prepared = s.worker
        BY <1>0, <2>2 DEF ActorOf
      <3>4. CASE w = Accepted(c.actor)
        <4>0. w = Answered(x, "RestorePrepared", None)
          BY <3>4
        <4> HIDE DEF x
        <4>1. /\ r.actor \in ActorOf /\ SameBut(x, r.actor)
              /\ r.late \in BOOLEAN /\ r.ok \in BOOLEAN /\ (r.late => late)
              /\ r.ok => r.value \in Message
              /\ ~r.late => r.ok
              /\ ~r.late /\ x.answers = <<>> =>
                    /\ r.value = [type |-> "RestorePrepared", arg |-> None]
                    /\ r.actor.answers = <<>>
          <5>1. [type |-> "RestorePrepared", arg |-> None] \in Message
            BY DEF Message
          <5> QED BY <3>2, <3>3, <4>0, <5>1, AnsweredInTime
        <4>2. CASE Expected(r, "RestorePrepared")
          <5> DEFINE b == [r.actor EXCEPT !.frontend = s.audio]
          <5>1. /\ b \in ActorOf /\ b.alive = r.actor.alive /\ b.frontend = s.audio
                /\ b.pending = r.actor.pending /\ b.answers = r.actor.answers
                /\ b.audio = r.actor.audio /\ b.worker = r.actor.worker
                /\ b.prepared = r.actor.prepared
            BY <1>0, <4>1 DEF ActorOf
          <5>2. o.ok = TRUE /\ o.late = FALSE /\ o.actor = b
            BY <3>2, <4>2 DEF Ok, Outcome
          <5> HIDE DEF b
          <5>3. ~r.late
            BY <3>2, <4>2, ReceiveCases DEF Expected, Error, Ok, Outcome
          <5>4. b.alive = a.alive /\ ~b.pending /\ b.prepared = s.worker
            BY <2>2, <2>5, <3>3, <4>1, <5>1 DEF SameBut, Kept
          <5>5. ASSUME Synced(a) PROVE Synced(b)
            <6>1. Synced(c.actor) /\ c.actor.answers = <<>>
              BY <2>2, <2>5, <5>5
            <6>2. b.answers = <<>> /\ b.audio = c.actor.audio /\ b.alive = c.actor.alive
              BY <3>3, <4>1, <5>1, <5>3, <6>1 DEF SameBut
            <6> QED BY <2>2, <2>5, <5>4, <6>1, <6>2 DEF Synced
          <5> QED BY <5>1, <5>2, <5>4, <5>5
        <4>3. CASE ~Expected(r, "RestorePrepared")
          <5>1. o.ok = FALSE /\ o.late = r.late /\ o.actor = r.actor
            BY <3>2, <4>3, UnexpectedOutcome
          <5>2. ASSUME Synced(a), ~r.late PROVE FALSE
            <6>1. r.ok /\ r.value = [type |-> "RestorePrepared", arg |-> None]
              BY <2>2, <2>5, <3>3, <4>1, <5>2
            <6> QED BY <4>3, <6>1 DEF Expected
          <5> QED BY <2>2, <3>3, <4>1, <5>1, <5>2 DEF SameBut, Kept
        <4> QED BY <4>2, <4>3
      <3>5. CASE w = Refused(c.actor) /\ w # Accepted(c.actor)
        <4>0. refuse /\ w = Answered(c.actor, "RestoreRefused", None)
          BY <3>1, <3>5
        <4>1. /\ r.actor \in ActorOf /\ SameBut(c.actor, r.actor)
              /\ r.late \in BOOLEAN /\ r.ok \in BOOLEAN /\ (r.late => late)
              /\ ~r.late => r.ok
              /\ ~r.late /\ c.actor.answers = <<>> =>
                    /\ r.value = [type |-> "RestoreRefused", arg |-> None]
                    /\ r.actor.answers = <<>>
          <5>1. [type |-> "RestoreRefused", arg |-> None] \in Message
            BY DEF Message
          <5> QED BY <2>2, <3>2, <4>0, <5>1, AnsweredInTime
        <4>2. CASE Expected(r, "RestorePrepared")
          <5> DEFINE b == [r.actor EXCEPT !.frontend = s.audio]
          <5>1. b \in ActorOf /\ b.alive = r.actor.alive
            BY <1>0, <4>1 DEF ActorOf
          <5>2. o.ok = TRUE /\ o.late = FALSE /\ o.actor = b
            BY <3>2, <4>2 DEF Ok, Outcome
          <5> HIDE DEF b
          <5>3. ~r.late
            BY <3>2, <4>2, ReceiveCases DEF Expected, Error, Ok, Outcome
          <5>4. ~Synced(a)
            <6>1. Synced(a) => r.value.type = "RestoreRefused"
              BY <2>2, <2>5, <4>1, <5>3
            <6> QED BY <4>2, <6>1 DEF Expected
          <5> QED BY <2>2, <4>1, <5>1, <5>2, <5>4 DEF SameBut, Kept
        <4>3. CASE ~Expected(r, "RestorePrepared")
          <5>1. o.ok = FALSE /\ o.late = r.late /\ o.actor = r.actor
            BY <3>2, <4>3, UnexpectedOutcome
          <5>2. ASSUME Synced(a), ~r.late PROVE Synced(r.actor)
            <6>1. Synced(c.actor) /\ c.actor.answers = <<>> /\ r.actor.answers = <<>>
              BY <2>2, <2>5, <4>1, <5>2
            <6> QED BY <4>1, <6>1 DEF Synced, SameBut
          <5> QED BY <2>2, <4>0, <4>1, <5>1, <5>2 DEF SameBut, Kept
        <4> QED BY <4>2, <4>3
      <3> QED BY <3>1, <3>4, <3>5
    <2> QED BY <2>2, <2>3, <2>4, <2>5
  <1>3. (o = Error(a) /\ (a.frontend # None \/ refuse)) \/ a.frontend = None
    BY DEF PrepareRestore
  <1> QED BY <1>1, <1>2, <1>3

(* commit_restore takes the prepared restore, and in time installs it. *)
LEMMA Committing ==
  ASSUME NEW a \in ActorOf, NEW late \in BOOLEAN, NEW o \in CommitRestore(a, late)
  PROVE  /\ o.ok \in BOOLEAN /\ o.late \in BOOLEAN /\ (o.late => late)
         /\ o.actor \in ActorOf /\ o.actor.alive = a.alive /\ o.actor.frontend = None
         /\ ~o.late /\ Synced(a) =>
               /\ Synced(o.actor)
               /\ o.ok /\ a.prepared # None => /\ ~o.actor.pending /\ o.actor.worker = a.prepared
                                               /\ o.actor.audio = a.frontend
               /\ a.alive /\ a.frontend # None => o.ok
  <1> DEFINE taken == [a EXCEPT !.frontend = None]
             Use(r) == IF Expected(r, "RestoreCommitted")
                       THEN Ok([r.actor EXCEPT !.audio = a.frontend, !.pending = FALSE], None)
                       ELSE Unexpected(r)
  <1>0. /\ taken \in ActorOf /\ taken.frontend = None /\ taken.alive = a.alive
        /\ taken.worker = a.worker /\ taken.prepared = a.prepared /\ taken.audio = a.audio
        /\ taken.pending = a.pending /\ taken.answers = a.answers
    BY DEF ActorOf
  <1>1. CASE a.frontend = None \/ ~a.alive
    <2>1. o.ok = FALSE /\ o.late = FALSE /\ o.actor = taken
      <3>1. o = Error(taken)
        BY <1>1 DEF CommitRestore
      <3> QED BY <3>1 DEF Error, Outcome
    <2>2. Synced(a) => Synced(taken)
      BY <1>0 DEF Synced
    <2> QED BY <1>0, <1>1, <2>1, <2>2
  <1>2. CASE a.frontend # None /\ a.alive
    <2> HIDE DEF taken
    <2> DEFINE x == [taken EXCEPT !.worker = IF taken.prepared # None THEN taken.prepared ELSE taken.worker,
                                  !.prepared = None]
    <2>1. PICK r \in Receive(Committed(taken), late) : o = Use(r)
      BY <1>2 DEF CommitRestore, taken
    <2>2. Committed(taken) = Answered(x, "RestoreCommitted", None)
      BY DEF Committed
    <2>3. /\ x \in ActorOf /\ x.frontend = None /\ x.alive = a.alive /\ x.audio = a.audio
          /\ x.pending = a.pending /\ x.answers = a.answers
          /\ a.prepared # None => x.worker = a.prepared
      BY <1>0 DEF ActorOf
    <2> HIDE DEF x
    <2>4. /\ r.actor \in ActorOf /\ SameBut(x, r.actor)
          /\ r.late \in BOOLEAN /\ r.ok \in BOOLEAN /\ (r.late => late)
          /\ ~r.late => r.ok
          /\ ~r.late /\ x.answers = <<>> =>
                /\ r.value = [type |-> "RestoreCommitted", arg |-> None]
                /\ r.actor.answers = <<>>
      <3>1. [type |-> "RestoreCommitted", arg |-> None] \in Message
        BY DEF Message
      <3> QED BY <2>1, <2>2, <2>3, <3>1, AnsweredInTime
    <2>5. Synced(a) => ~a.pending /\ a.answers = <<>> /\ a.audio # None
      BY <1>2 DEF Synced
    <2>6. CASE Expected(r, "RestoreCommitted")
      <3> DEFINE b == [r.actor EXCEPT !.audio = a.frontend, !.pending = FALSE]
      <3>1. /\ b \in ActorOf /\ b.frontend = r.actor.frontend /\ b.alive = r.actor.alive
            /\ b.worker = r.actor.worker /\ b.audio = a.frontend /\ ~b.pending
            /\ b.answers = r.actor.answers
        <4>1. a.frontend \in Instant \cup {None}
          BY DEF ActorOf
        <4> QED BY <2>4, <4>1 DEF ActorOf
      <3>2. o.ok = TRUE /\ o.late = FALSE /\ o.actor = b
        BY <2>1, <2>6 DEF Ok, Outcome
      <3> HIDE DEF b
      <3>3. ~r.late
        BY <2>1, <2>6, ReceiveCases DEF Expected, Error, Ok, Outcome
      <3>4. Synced(a) => Synced(b)
        BY <1>2, <2>3, <2>4, <2>5, <3>1, <3>3 DEF Synced
      <3> QED BY <2>3, <2>4, <3>1, <3>2, <3>4 DEF SameBut
    <2>7. CASE ~Expected(r, "RestoreCommitted")
      <3>1. o.ok = FALSE /\ o.late = r.late /\ o.actor = r.actor
        BY <2>1, <2>7, UnexpectedOutcome
      <3>2. ASSUME Synced(a), ~r.late PROVE FALSE
        <4>1. r.ok /\ r.value = [type |-> "RestoreCommitted", arg |-> None]
          BY <2>3, <2>4, <2>5, <3>2
        <4> QED BY <2>7, <4>1 DEF Expected
      <3> QED BY <2>3, <2>4, <3>1, <3>2 DEF SameBut
    <2> QED BY <2>6, <2>7
  <1>3. a.alive \in BOOLEAN
    BY DEF ActorOf
  <1> QED BY <1>1, <1>2, <1>3

(* abort_restore takes the prepared restore, whatever it returns. *)
LEMMA Aborting ==
  ASSUME NEW a \in ActorOf, NEW late \in BOOLEAN, NEW o \in AbortRestore(a, late)
  PROVE  /\ o.late \in BOOLEAN /\ (o.late => late)
         /\ o.actor \in ActorOf /\ o.actor.alive = a.alive /\ o.actor.frontend = None
         /\ ~o.late /\ Synced(a) => Synced(o.actor)
  <1> DEFINE taken == [a EXCEPT !.frontend = None]
             Use(r) == IF Expected(r, "RestoreAborted") THEN Ok(r.actor, None) ELSE Unexpected(r)
  <1>0. /\ taken \in ActorOf /\ taken.frontend = None /\ taken.alive = a.alive
        /\ taken.worker = a.worker /\ taken.prepared = a.prepared /\ taken.audio = a.audio
        /\ taken.pending = a.pending /\ taken.answers = a.answers
    BY DEF ActorOf
  <1>1. CASE a.frontend = None
    <2>1. o.late = FALSE /\ o.actor = a
      BY <1>1 DEF AbortRestore, Ok, Outcome
    <2> QED BY <1>1, <2>1
  <1>2. CASE a.frontend # None /\ ~a.alive
    <2>1. o.late = FALSE /\ o.actor = taken
      BY <1>2 DEF AbortRestore, Error, Outcome
    <2>2. Synced(a) => Synced(taken)
      BY <1>0 DEF Synced
    <2> QED BY <1>0, <2>1, <2>2
  <1>3. CASE a.frontend # None /\ a.alive
    <2> HIDE DEF taken
    <2> DEFINE x == [taken EXCEPT !.prepared = None]
    <2>1. PICK r \in Receive(Aborted(taken), late) : o = Use(r)
      BY <1>3 DEF AbortRestore, taken
    <2>2. Aborted(taken) = Answered(x, "RestoreAborted", None)
      BY DEF Aborted
    <2>3. /\ x \in ActorOf /\ x.frontend = None /\ x.alive = a.alive /\ x.audio = a.audio
          /\ x.pending = a.pending /\ x.answers = a.answers
      BY <1>0 DEF ActorOf
    <2> HIDE DEF x
    <2>4. /\ r.actor \in ActorOf /\ SameBut(x, r.actor)
          /\ r.late \in BOOLEAN /\ r.ok \in BOOLEAN /\ (r.late => late)
          /\ ~r.late /\ x.answers = <<>> => r.actor.answers = <<>>
      <3>1. [type |-> "RestoreAborted", arg |-> None] \in Message
        BY DEF Message
      <3> QED BY <2>1, <2>2, <2>3, <3>1, AnsweredInTime
    <2>5. o.late = r.late /\ o.actor = r.actor
      <3>1. CASE Expected(r, "RestoreAborted")
        <4>1. r.late = FALSE
          BY <2>1, <3>1, ReceiveCases DEF Expected, Error, Ok, Outcome
        <4>2. o.late = FALSE /\ o.actor = r.actor
          BY <2>1, <3>1 DEF Ok, Outcome
        <4> QED BY <4>1, <4>2
      <3>2. CASE ~Expected(r, "RestoreAborted")
        <4>1. o = Unexpected(r)
          BY <2>1, <3>2
        <4> QED BY <4>1, UnexpectedOutcome
      <3> QED BY <3>1, <3>2
    <2>6. ASSUME Synced(a), ~r.late PROVE Synced(r.actor)
      <3>1. ~a.pending /\ a.answers = <<>> /\ a.audio # None
        BY <1>3, <2>6 DEF Synced
      <3> QED BY <1>3, <2>3, <2>4, <2>6, <3>1 DEF Synced, SameBut
    <2> QED BY <2>3, <2>4, <2>5, <2>6 DEF SameBut
  <1>4. a.alive \in BOOLEAN
    BY DEF ActorOf
  <1> QED BY <1>1, <1>2, <1>3, <1>4

(* A panic loses answers, and nothing that the machine sees. *)
LEMMA Dying ==
  ASSUME NEW a \in ActorOf, NEW d \in Died(a)
  PROVE  /\ d \in ActorOf /\ ~d.alive
         /\ d.worker = a.worker /\ d.prepared = a.prepared /\ d.audio = a.audio
         /\ d.pending = a.pending /\ d.frontend = a.frontend
         /\ Synced(a) => Synced(d)
  <1>1. PICK n \in 0 .. Len(a.answers) :
          d = [a EXCEPT !.alive = FALSE, !.answers = SubSeq(a.answers, 1, n)]
    BY DEF Died
  <1>2. a.answers \in Seq(Message)
    BY DEF ActorOf
  <1>3. SubSeq(a.answers, 1, n) \in Seq(Message)
    BY <1>2
  <1>4. /\ d \in ActorOf /\ ~d.alive /\ d.answers = SubSeq(a.answers, 1, n)
        /\ d.worker = a.worker /\ d.prepared = a.prepared /\ d.audio = a.audio
        /\ d.pending = a.pending /\ d.frontend = a.frontend
    BY <1>1, <1>3 DEF ActorOf
  <1>5. SubSeq(a.answers, 1, n) = <<>> \/ n >= 1
    BY <1>2
  <1>6. Len(a.answers) = 1 /\ n >= 1 => SubSeq(a.answers, 1, n) = a.answers
    <2>1. Len(a.answers) = 1 /\ n >= 1 => n = Len(a.answers)
      BY <1>2
    <2>2. SubSeq(a.answers, 1, Len(a.answers)) = a.answers
      BY <1>2, SubSeqFull
    <2> QED BY <2>1, <2>2
  <1>7. ASSUME Synced(a) PROVE Synced(d)
    <2>1. CASE a.answers = <<>>
      <3>1. n = 0
        BY <2>1
      <3>2. d.answers = <<>>
        BY <1>4, <1>5, <3>1
      <3> QED BY <1>4, <1>7, <3>2 DEF Synced
    <2>2. CASE a.answers # <<>>
      <3>1. a.pending /\ a.answers = <<[type |-> "Rendered", arg |-> a.worker]>>
        BY <1>7, <2>2 DEF Synced
      <3>2. Len(a.answers) = 1
        BY <3>1
      <3>3. d.answers = <<>> \/ d.answers = a.answers
        BY <1>4, <1>5, <1>6, <3>2
      <3> QED BY <1>4, <1>7, <3>1, <3>3 DEF Synced
    <2> QED BY <2>1, <2>2
  <1> QED BY <1>4, <1>7

-----------------------------------------------------------------------------
(* The machine. *)

(* The two sound modules. *)
LEMMA TwoModules == "mt32" \in Modules /\ "sc55" \in Modules /\ \A m \in Modules : m = "mt32" \/ m = "sc55"
  BY DEF Modules

(* The machine of one instant is a root. *)
LEMMA RootAtType == \A i \in Instant : RootAt(i) \in Root
  BY DEF RootAt, Root

(* A call changes one actor, and counts when it gives up. *)
LEMMA CalledActor ==
  ASSUME actor \in [Modules -> ActorOf], lates \in 0 .. MaxLate,
         NEW m \in Modules, NEW o, o.actor \in ActorOf, o.late \in BOOLEAN,
         o.late => MayBeLate, Called(m, o)
  PROVE  /\ actor' \in [Modules -> ActorOf] /\ actor'[m] = o.actor
         /\ \A n \in Modules : n # m => actor'[n] = actor[n]
         /\ lates' \in 0 .. MaxLate
         /\ lates' = 0 => lates = 0 /\ ~o.late
  BY BoundAssumption DEF Called, MayBeLate

(* The parts of the machine. *)
LEMMA LiveParts ==
  /\ Live.cpu = cpu /\ Live.device = device /\ Live.fields = fields
  /\ \A m \in Modules : Live.actor[m] = [worker |-> actor[m].worker, audio |-> Shown(actor[m])]
  /\ Live = [cpu |-> cpu, device |-> device, fields |-> fields,
             actor |-> [m \in Modules |-> [worker |-> actor[m].worker, audio |-> Shown(actor[m])]]]
  BY DEF Live, Shown

(* The parts of the machine after a step. *)
LEMMA LivePartsNext ==
  /\ \A m \in Modules : Live'.actor[m] = [worker |-> actor'[m].worker, audio |-> Shown(actor'[m])]
  /\ Live' = [cpu |-> cpu', device |-> device', fields |-> fields',
              actor |-> [m \in Modules |-> [worker |-> actor'[m].worker, audio |-> Shown(actor'[m])]]]
  BY DEF Live, Shown

(* The machine is the same when its parts are and its actors show the same. *)
LEMMA LiveFrame ==
  ASSUME UNCHANGED plain,
         \A m \in Modules : actor'[m].worker = actor[m].worker /\ Shown(actor'[m]) = Shown(actor[m])
  PROVE  Live' = Live
  <1>1. [m \in Modules |-> [worker |-> actor'[m].worker, audio |-> Shown(actor'[m])]]
          = [m \in Modules |-> [worker |-> actor[m].worker, audio |-> Shown(actor[m])]]
    OBVIOUS
  <1> QED BY <1>1, LiveParts, LivePartsNext DEF plain

(* After a step, a machine whose actors are in step is a root. *)
LEMMA LiveIsRoot ==
  ASSUME Types', ActorsAnswer', \A m \in Modules : Synced(actor'[m])
  PROVE  Live' \in Root
  <1>1. ASSUME NEW m \in Modules
        PROVE  [worker |-> actor'[m].worker, audio |-> Shown(actor'[m])] \in [worker : Instant, audio : Instant]
    <2>1. actor'[m] \in ActorOf /\ actor'[m].alive /\ Synced(actor'[m])
      BY <1>1 DEF Types, ActorsAnswer
    <2>2. actor'[m].worker \in Instant /\ Shown(actor'[m]) \in Instant
      BY <2>1 DEF ActorOf, Shown, Synced
    <2> QED BY <2>2
  <1> QED BY <1>1, LivePartsNext DEF Root, Types

(* A started machine satisfies the invariant. *)
LEMMA InitRestore == Init => RestoreInv
  <1> SUFFICES ASSUME Init PROVE RestoreInv
    OBVIOUS
  <1>0. 0 \in Instant /\ RootAt(0) \in Root /\ StartedActor(0) \in ActorOf
    <2>1. 0 \in Instant
      BY BoundAssumption
    <2>2. <<>> \in Seq(Message)
      OBVIOUS
    <2> QED BY <2>1, <2>2, RootAtType DEF StartedActor, ActorOf
  <1>1. Types
    <2>1. [m \in Modules |-> StartedActor(0)] \in [Modules -> ActorOf]
      BY <1>0
    <2>2. [d \in Devices |-> 0] \in [Devices -> Instant]
      BY <1>0
    <2> QED BY <1>0, <2>1, <2>2, BoundAssumption DEF Init, Types, Modules
  <1>2. \A m \in Modules : actor[m] = StartedActor(0)
    BY DEF Init
  <1>3. Fronts
    BY <1>2, TwoModules DEF Init, Fronts, Unprepared, StartedActor, Applying
  <1>4. Plan
    BY DEF Init, Plan, Applying
  <1>5. InTime
    <2>1. \A m \in Modules : Synced(actor[m])
      BY <1>0, <1>2, BoundAssumption DEF Synced, StartedActor
    <2> QED BY <2>1 DEF Init, InTime, Applying
  <1>6. Forward
    BY DEF Init, Forward, Applying
  <1> QED BY <1>1, <1>3, <1>4, <1>5, <1>6 DEF RestoreInv

(* A worker dies: nothing that the machine sees changes. *)
LEMMA PanicKeeps ==
  ASSUME RestoreInv, NEW m \in Modules, WorkerPanics(m)
  PROVE  RestoreInv' /\ Live' = Live
  <1>1. /\ UNCHANGED <<now, cpu, device, fields, lates, slot, pc, next, dev, phase, root, rollback,
                       outcome, before, gone>>
        /\ actor[m] \in ActorOf /\ actor \in [Modules -> ActorOf]
    BY DEF WorkerPanics, plain, control, RestoreInv, Types
  <1>2. PICK d \in Died(actor[m]) : actor' = [actor EXCEPT ![m] = d]
    BY DEF WorkerPanics
  <1>3. /\ d \in ActorOf /\ ~d.alive
        /\ d.worker = actor[m].worker /\ d.prepared = actor[m].prepared /\ d.audio = actor[m].audio
        /\ d.pending = actor[m].pending /\ d.frontend = actor[m].frontend
        /\ Synced(actor[m]) => Synced(d)
    BY <1>1, Dying
  <1>4. /\ actor' \in [Modules -> ActorOf]
        /\ \A n \in Modules : /\ actor'[n].worker = actor[n].worker
                              /\ actor'[n].prepared = actor[n].prepared
                              /\ actor'[n].audio = actor[n].audio
                              /\ actor'[n].pending = actor[n].pending
                              /\ actor'[n].frontend = actor[n].frontend
                              /\ Synced(actor[n]) => Synced(actor'[n])
        /\ ~actor'[m].alive
    BY <1>1, <1>2, <1>3
  <1>5. Live' = Live
    BY <1>1, <1>4, LiveFrame DEF Shown, plain
  <1>6. Types' /\ Fronts' /\ Plan'
    BY <1>1, <1>4, TwoModules DEF RestoreInv, Types, Fronts, Unprepared, Plan
  <1>7. ASSUME lates' = 0 PROVE InTime'
    <2>1. InTime
      BY <1>1, <1>7 DEF RestoreInv
    <2>2. \A n \in Modules : (Staged(n) => Staged(n)') /\ (Installed(n) => Installed(n)')
      BY <1>1, <1>4 DEF Staged, Installed
    <2> QED BY <1>1, <1>4, <1>5, <2>1, <2>2, TwoModules DEF InTime
  <1>8. ~ActorsAnswer'
    BY <1>4 DEF ActorsAnswer
  <1> QED BY <1>5, <1>6, <1>7, <1>8 DEF RestoreInv

(* The machine runs. *)
LEMMA RunKeeps ==
  ASSUME RestoreInv, Emulate \/ \E m \in Modules : GenerateAudio(m)
  PROVE  RestoreInv'
  <1>1. /\ pc = "run" /\ now + 1 \in Instant /\ now' = now + 1
        /\ UNCHANGED <<slot, pc, next, dev, phase, root, rollback, outcome, before, gone>>
    BY BoundAssumption DEF Emulate, GenerateAudio, control, RestoreInv, Types
  <1>2. /\ cpu' \in Instant /\ device' \in [Devices -> Instant] /\ fields' \in Instant
    BY <1>1 DEF Emulate, GenerateAudio, plain, RestoreInv, Types
  <1>3. /\ actor' \in [Modules -> ActorOf] /\ lates' \in 0 .. MaxLate
        /\ lates' = 0 => lates = 0
        /\ \A n \in Modules : /\ actor'[n].frontend = actor[n].frontend
                              /\ actor'[n].alive = actor[n].alive
                              /\ lates' = 0 /\ Synced(actor[n]) => Synced(actor'[n])
    <2>1. CASE Emulate
      BY <2>1 DEF Emulate, RestoreInv, Types
    <2>2. CASE \E m \in Modules : GenerateAudio(m)
      <3>1. PICK m \in Modules : GenerateAudio(m)
        BY <2>2
      <3>2. PICK o \in Exchange(actor[m], MayBeLate, now + 1) : Called(m, o)
        BY <3>1 DEF GenerateAudio
      <3>3. /\ actor \in [Modules -> ActorOf] /\ lates \in 0 .. MaxLate /\ MayBeLate \in BOOLEAN
            /\ actor[m] \in ActorOf /\ actor[m].frontend = None
        BY <1>1, TwoModules DEF RestoreInv, Types, Fronts, Unprepared, MayBeLate
      <3>4. /\ o.late \in BOOLEAN /\ (o.late => MayBeLate)
            /\ o.actor \in ActorOf /\ o.actor.frontend = actor[m].frontend
            /\ o.actor.alive = actor[m].alive
            /\ ~o.late /\ Synced(actor[m]) => Synced(o.actor)
        BY <1>1, <3>2, <3>3, Exchanged
      <3> QED BY <3>2, <3>3, <3>4, CalledActor
    <2> QED BY <2>1, <2>2
  <1>4. Types' /\ Fronts' /\ Plan'
    BY <1>1, <1>2, <1>3, TwoModules DEF RestoreInv, Types, Fronts, Unprepared, Plan, Applying
  <1>5. lates' = 0 => InTime'
    BY <1>1, <1>3 DEF RestoreInv, InTime, Applying
  <1>6. ActorsAnswer' /\ ~gone' => Forward'
    BY <1>1, <1>3 DEF RestoreInv, ActorsAnswer, Forward, Applying
  <1> QED BY <1>4, <1>5, <1>6 DEF RestoreInv

(* A save or a restore begins. *)
LEMMA BeginKeeps ==
  ASSUME RestoreInv, Save \/ Restore
  PROVE  RestoreInv' /\ Live' = Live
  <1>1. /\ pc = "run" /\ UNCHANGED <<now, plain, actor, lates, slot, dev, rollback, gone>>
        /\ cpu' = cpu /\ device' = device /\ fields' = fields
    BY DEF Save, Restore, plain
  <1>2. Live' = Live
    BY <1>1, LiveFrame
  <1>3. CASE pc' = "run"
    <2>1. UNCHANGED <<pc, next, phase, root>> /\ outcome' # "partial"
      BY <1>1, <1>3 DEF Save, Restore, BeginCapture
    <2>2. Types' /\ Fronts' /\ Plan'
      BY <1>1, <1>3, <2>1 DEF RestoreInv, Types, Fronts, Unprepared, Plan, Applying
    <2>3. lates' = 0 => InTime'
      BY <1>1, <1>3 DEF RestoreInv, InTime, Applying
    <2> QED BY <1>2, <1>3, <2>1, <2>2, <2>3 DEF RestoreInv, Forward, Applying
  <1>4. CASE pc' # "run"
    <2>1. /\ pc' = "capture" /\ next' = "mt32" /\ phase' \in {"save", "rollback"}
          /\ root' = [Live EXCEPT !.actor = [m \in Modules |-> [worker |-> now, audio |-> now]]]
          /\ phase' = "rollback" => slot # None /\ before' = Live
          /\ outcome' = outcome \/ outcome' = "none"
      BY <1>1, <1>4 DEF Save, Restore, BeginCapture
    <2>2. root' = [cpu |-> cpu, device |-> device, fields |-> fields,
                   actor |-> [m \in Modules |-> [worker |-> now, audio |-> now]]]
      BY <2>1, LiveParts
    <2>3. root' \in Root
      BY <2>2 DEF RestoreInv, Types, Root
    <2>4. root'.cpu = cpu /\ root'.device = device /\ root'.fields = fields
      BY <2>2
    <2>5. Types' /\ Fronts' /\ Plan'
      BY <1>1, <2>1, <2>3, TwoModules DEF RestoreInv, Types, Fronts, Unprepared, Plan, Applying
    <2>6. lates' = 0 => InTime'
      BY <1>1, <1>2, <2>1, <2>4 DEF RestoreInv, InTime, Applying
    <2>7. ActorsAnswer' /\ ~gone' => Forward'
      BY <1>1, <2>1 DEF RestoreInv, ActorsAnswer, Forward, Applying
    <2> QED BY <1>2, <2>5, <2>6, <2>7 DEF RestoreInv
  <1> QED BY <1>3, <1>4

(* The capture of one actor. *)
LEMMA CaptureKeeps ==
  ASSUME RestoreInv, CaptureModule
  PROVE  /\ RestoreInv'
         /\ lates' = 0 => Live' = Live
         /\ pc' = "cpu" \/ pc' = "run" \/ pc' = "capture"
         /\ lates' = 0 /\ slot' # slot => slot' = Live
         /\ lates' = 0 /\ pc' = "cpu" => before' = Live
         /\ UNCHANGED plain
         /\ (outcome' # "restored" /\ outcome' # "failed") \/ pc' # "run"
  <1>1. PICK o \in CaptureState(actor[next], MayBeLate) :
          /\ Called(next, o)
          /\ \/ o.ok /\ CaptureNext([root EXCEPT !.actor[next] = o.value])
             \/ (~o.ok \/ next = "sc55") /\ CaptureFails
    BY DEF CaptureModule
  <1>2. /\ pc = "capture" /\ UNCHANGED <<now, cpu, device, fields, dev, before, gone>>
        /\ UNCHANGED plain
    BY DEF CaptureModule, plain
  <1>3. /\ actor \in [Modules -> ActorOf] /\ lates \in 0 .. MaxLate /\ MayBeLate \in BOOLEAN
        /\ next \in Modules /\ actor[next] \in ActorOf /\ root \in Root
        /\ phase \in {"save", "rollback"} /\ (phase = "rollback" => slot # None)
    BY <1>2 DEF RestoreInv, Types, Plan, MayBeLate
  <1>4. /\ o.ok \in BOOLEAN /\ o.late \in BOOLEAN /\ (o.late => MayBeLate)
        /\ o.actor \in ActorOf /\ Kept(actor[next], o.actor)
        /\ o.ok => o.value \in [worker : Instant, audio : Instant]
        /\ ~o.late /\ Synced(actor[next]) =>
              /\ Synced(o.actor) /\ Shown(o.actor) = Shown(actor[next])
              /\ o.ok => o.value = [worker |-> actor[next].worker, audio |-> Shown(actor[next])]
    BY <1>1, <1>3, Capturing
  <1>5. /\ actor' \in [Modules -> ActorOf] /\ actor'[next] = o.actor
        /\ \A n \in Modules : n # next => actor'[n] = actor[n]
        /\ lates' \in 0 .. MaxLate
        /\ lates' = 0 => lates = 0 /\ ~o.late
    BY <1>1, <1>3, <1>4, CalledActor
  <1>6. /\ \A n \in Modules : /\ actor'[n].frontend = actor[n].frontend
                              /\ actor'[n].alive = actor[n].alive
                              /\ actor'[n].worker = actor[n].worker
    BY <1>4, <1>5 DEF Kept
  <1>7. ASSUME lates' = 0
        PROVE  /\ InTime /\ lates = 0 /\ \A n \in Modules : Synced(actor'[n])
               /\ Live' = Live
               /\ o.ok => o.value = Live.actor[next]
    <2>1. lates = 0 /\ ~o.late /\ InTime
      BY <1>5, <1>7 DEF RestoreInv
    <2>2. \A n \in Modules : Synced(actor'[n]) /\ Shown(actor'[n]) = Shown(actor[n])
      BY <1>4, <1>5, <2>1 DEF InTime
    <2>3. Live' = Live
      BY <1>2, <1>6, <2>2, LiveFrame
    <2> QED BY <1>3, <1>4, <2>1, <2>2, <2>3, LiveParts DEF InTime
  <1> DEFINE r == [root EXCEPT !.actor[next] = o.value]
  <1>8. ASSUME o.ok
        PROVE  /\ r \in Root /\ r.cpu = root.cpu /\ r.device = root.device /\ r.fields = root.fields
               /\ r.actor = [root.actor EXCEPT ![next] = o.value]
    BY <1>3, <1>4, <1>8 DEF Root
  <1> HIDE DEF r
  <1>9. ActorsAnswer' /\ ~gone' => ActorsAnswer /\ ~gone
    BY <1>2, <1>5, <1>6 DEF ActorsAnswer
  <1>10. CASE CaptureFails
    <2>1. /\ pc' = "run" /\ UNCHANGED <<slot, next, phase, root, rollback>>
          /\ outcome' \in {"none", "rejected"}
      BY <1>10 DEF CaptureFails
    <2>2. Types' /\ Fronts' /\ Plan'
      BY <1>2, <1>5, <1>6, <2>1, TwoModules DEF RestoreInv, Types, Fronts, Unprepared, Plan, Applying
    <2>3. lates' = 0 => InTime'
      BY <1>7, <2>1 DEF InTime, Applying
    <2>4. Forward'
      BY <2>1 DEF Forward, Applying
    <2> QED BY <1>2, <1>7, <2>1, <2>2, <2>3, <2>4 DEF RestoreInv
  <1>11. CASE o.ok /\ next = "mt32" /\ CaptureNext(r)
    <2>1. /\ root' = r /\ next' = "sc55" /\ pc' = "capture"
          /\ UNCHANGED <<slot, phase, rollback, outcome>>
      BY <1>2, <1>11 DEF CaptureNext
    <2>2. Types' /\ Fronts' /\ Plan'
      BY <1>2, <1>3, <1>5, <1>6, <1>8, <1>11, <2>1, TwoModules
         DEF RestoreInv, Types, Fronts, Unprepared, Plan, Applying
    <2>3. ASSUME lates' = 0 PROVE InTime'
      <3>1. root'.actor["mt32"] = Live.actor["mt32"]
        BY <1>3, <1>7, <1>8, <1>11, <2>1, <2>3, TwoModules DEF Root
      <3> QED BY <1>2, <1>7, <1>8, <1>11, <2>1, <2>3, <3>1 DEF InTime, Applying
    <2>4. ActorsAnswer' /\ ~gone' => Forward'
      BY <1>9, <2>1 DEF RestoreInv, Forward, Applying
    <2> QED BY <1>2, <1>7, <2>1, <2>2, <2>3, <2>4 DEF RestoreInv
  <1>12. CASE o.ok /\ next = "sc55" /\ CaptureNext(r)
    <2>0. ASSUME lates' = 0 PROVE r = Live
      <3>1. /\ InTime /\ o.value = Live.actor["sc55"]
            /\ r.actor = [root.actor EXCEPT !["sc55"] = o.value]
            /\ root.actor["mt32"] = Live.actor["mt32"]
        BY <1>2, <1>7, <1>8, <1>12, <2>0 DEF InTime
      <3>2. r.cpu = cpu /\ r.device = device /\ r.fields = fields
        BY <1>2, <1>8, <1>12, <3>1 DEF InTime
      <3>3. r.actor = Live.actor
        <4>1. r.actor \in [Modules -> [worker : Instant, audio : Instant]]
          BY <1>8, <1>12 DEF Root
        <4>2. \A m \in Modules : r.actor[m] = Live.actor[m]
          BY <1>3, <3>1, TwoModules DEF Root
        <4>3. Live.actor = [m \in Modules |-> Live.actor[m]]
          BY DEF Live
        <4> QED BY <4>1, <4>2, <4>3
      <3>4. r = [cpu |-> r.cpu, device |-> r.device, fields |-> r.fields, actor |-> r.actor]
        BY <1>8, <1>12 DEF Root
      <3>5. Live = [cpu |-> cpu, device |-> device, fields |-> fields, actor |-> Live.actor]
        BY DEF Live
      <3> QED BY <3>2, <3>3, <3>4, <3>5
    <2>1. Captured(r)
      BY <1>12 DEF CaptureNext
    <2>2. CASE phase = "save"
      <3>1. slot' = r /\ pc' = "run" /\ outcome' = "none" /\ UNCHANGED <<next, phase, root, rollback>>
        BY <2>1, <2>2 DEF Captured
      <3>2. Types' /\ Fronts' /\ Plan'
        BY <1>2, <1>5, <1>6, <1>8, <1>12, <3>1, TwoModules
           DEF RestoreInv, Types, Fronts, Unprepared, Plan, Applying
      <3>3. lates' = 0 => InTime'
        BY <1>7, <3>1 DEF InTime, Applying
      <3>4. Forward'
        BY <3>1 DEF Forward, Applying
      <3> QED BY <1>2, <1>7, <2>0, <3>1, <3>2, <3>3, <3>4 DEF RestoreInv
    <2>3. CASE phase = "rollback"
      <3>1. /\ rollback' = r /\ root' = slot /\ phase' = "apply" /\ pc' = "cpu"
            /\ UNCHANGED <<next, slot, outcome>> /\ slot # None
        BY <1>3, <2>1, <2>3 DEF Captured
      <3>2. Types' /\ Fronts' /\ Plan'
        BY <1>2, <1>5, <1>6, <1>8, <1>12, <3>1, TwoModules
           DEF RestoreInv, Types, Fronts, Unprepared, Plan, Applying
      <3>3. ASSUME lates' = 0 PROVE InTime' /\ before' = Live
        <4>1. before = Live
          BY <1>2, <1>7, <2>3, <3>3 DEF InTime
        <4> QED BY <1>2, <1>7, <2>0, <3>1, <3>3, <4>1 DEF InTime, Applying
      <3>4. ActorsAnswer' /\ ~gone' => Forward'
        BY <1>9, <3>1 DEF RestoreInv, Forward, Applying
      <3> QED BY <1>2, <1>7, <3>1, <3>2, <3>3, <3>4 DEF RestoreInv
    <2> QED BY <1>3, <2>2, <2>3
  <1> QED BY <1>1, <1>3, <1>10, <1>11, <1>12, TwoModules DEF r

-----------------------------------------------------------------------------
(* Applying a root. *)

(* A step of applying a root keeps the invariant, the clock and the slot;  *)
(* where it ends the restore, the machine is what the outcome says.        *)
ApplyKeeps ==
    /\ RestoreInv'
    /\ UNCHANGED <<now, slot, before>>
    /\ pc' # "run" => pc' \in Applying
    /\ pc' = "run" => outcome' \in {"partial", "restored", "failed"}
    /\ pc' = "run" /\ lates' = 0 =>
         /\ outcome' = "restored" => Live' = slot
         /\ outcome' = "failed"   => Live' = before

(* A failed candidate gives way to the rollback, and a failed rollback to  *)
(* nothing, which takes a fault of an actor or of the host.                *)
LEMMA FailedApply ==
  ASSUME RestoreInv, pc \in Applying, ApplyFails, UNCHANGED <<now, slot, rollback, before>>,
         cpu' \in Instant, device' \in [Devices -> Instant], fields' \in Instant,
         actor' \in [Modules -> ActorOf], lates' \in 0 .. MaxLate,
         lates' = 0 => lates = 0 /\ \A m \in Modules : Synced(actor'[m]),
         \A m \in Modules : actor'[m].frontend = None,
         phase = "undo" => ~(ActorsAnswer' /\ ~gone'),
         ActorsAnswer' /\ ~gone' => ActorsAnswer /\ ~gone
  PROVE  ApplyKeeps
  <1>1. /\ Types /\ Fronts /\ Plan /\ (lates = 0 => InTime)
        /\ UNCHANGED <<next, dev>>
        /\ Unprepared("mt32")' /\ Unprepared("sc55")'
    BY TwoModules DEF RestoreInv, ApplyFails, Unprepared
  <1>2. lates' = 0 => rollback = before
    BY <1>1 DEF InTime
  <1>3. CASE phase = "apply"
    <2>1. phase' = "undo" /\ root' = rollback /\ pc' = "cpu" /\ outcome' = outcome
      BY <1>3 DEF ApplyFails
    <2>2. Types'
      BY <1>1, <2>1 DEF Types
    <2>3. Fronts' /\ Plan'
      BY <1>1, <2>1 DEF Types, Fronts, Plan, Applying
    <2>4. lates' = 0 => InTime'
      BY <1>1, <1>2, <2>1 DEF InTime, Applying
    <2>5. ActorsAnswer' /\ ~gone' => Forward'
      BY <2>1 DEF RestoreInv, Forward, Applying
    <2> QED BY <2>1, <2>2, <2>3, <2>4, <2>5 DEF RestoreInv, ApplyKeeps, Applying
  <1>4. CASE phase = "undo"
    <2>1. phase' = phase /\ root' = root /\ pc' = "run" /\ outcome' = "partial"
      BY <1>4 DEF ApplyFails
    <2>2. Types'
      BY <1>1, <2>1 DEF Types
    <2>3. Fronts' /\ Plan'
      BY <1>1, <2>1 DEF Types, Fronts, Plan, Applying
    <2>4. lates' = 0 => InTime'
      BY <1>1, <1>2, <2>1 DEF InTime, Applying
    <2> QED BY <1>4, <2>1, <2>2, <2>3, <2>4 DEF RestoreInv, ApplyKeeps
  <1> QED BY <1>3, <1>4 DEF ApplyFails

(* The CPU is restored, or refuses the candidate. *)
LEMMA RestoreCpuKeeps ==
  ASSUME RestoreInv, RestoreCpu
  PROVE  ApplyKeeps
  <1>1. /\ pc = "cpu" /\ pc \in Applying
        /\ UNCHANGED <<now, device, fields, actor, lates, slot, rollback, before, gone>>
    BY DEF RestoreCpu, Applying
  <1>2. /\ Types /\ Fronts /\ Plan /\ (lates = 0 => InTime)
        /\ Unprepared("mt32") /\ Unprepared("sc55") /\ root.cpu \in Instant
    BY <1>1 DEF RestoreInv, Types, Fronts, Root
  <1>3. (ActorsAnswer' <=> ActorsAnswer) /\ gone' = gone
    BY <1>1 DEF ActorsAnswer
  <1>4. CASE cpu' = root.cpu /\ Goto("check", next)
    <2>1. pc' = "check" /\ UNCHANGED <<next, dev, phase, root, outcome>> /\ cpu' = root.cpu
      BY <1>4 DEF Goto
    <2>2. Types' /\ Fronts' /\ Plan'
      BY <1>1, <1>2, <2>1 DEF Types, Fronts, Unprepared, Plan, Applying
    <2>3. lates' = 0 => InTime'
      BY <1>1, <1>2, <2>1 DEF InTime, Applying
    <2>4. ActorsAnswer' /\ ~gone' => Forward'
      BY <1>1, <1>3, <2>1 DEF RestoreInv, Forward, Applying
    <2> QED BY <1>1, <2>1, <2>2, <2>3, <2>4 DEF RestoreInv, ApplyKeeps, Applying
  <1>5. CASE MayBeInvalid /\ ApplyFails /\ UNCHANGED cpu
    <2>1. phase = "apply" /\ ApplyFails /\ cpu' = cpu
      BY <1>5 DEF MayBeInvalid
    <2>2. /\ cpu' \in Instant /\ device' \in [Devices -> Instant] /\ fields' \in Instant
          /\ actor' \in [Modules -> ActorOf] /\ lates' \in 0 .. MaxLate
          /\ \A m \in Modules : actor'[m].frontend = None
      BY <1>1, <1>2, <2>1, TwoModules DEF Types, Unprepared
    <2>3. lates' = 0 => lates = 0 /\ \A m \in Modules : Synced(actor'[m])
      BY <1>1, <1>2 DEF InTime
    <2> QED BY <1>1, <1>3, <2>1, <2>2, <2>3, FailedApply
  <1> QED BY <1>4, <1>5 DEF RestoreCpu

(* The checks pass, or the candidate or the host fails them. *)
LEMMA CheckConfigurationKeeps ==
  ASSUME RestoreInv, CheckConfiguration
  PROVE  ApplyKeeps
  <1>1. /\ pc = "check" /\ pc \in Applying
        /\ UNCHANGED <<now, cpu, device, fields, actor, lates, slot, rollback, before>>
    BY DEF CheckConfiguration, Applying, plain
  <1>2. /\ Types /\ Fronts /\ Plan /\ (lates = 0 => InTime)
        /\ Unprepared("mt32") /\ Unprepared("sc55")
    BY <1>1 DEF RestoreInv, Fronts
  <1>3. ActorsAnswer' <=> ActorsAnswer
    BY <1>1 DEF ActorsAnswer
  <1>4. CASE Goto("prepare", "mt32") /\ UNCHANGED gone
    <2>1. pc' = "prepare" /\ next' = "mt32" /\ UNCHANGED <<dev, phase, root, outcome, gone>>
      BY <1>4 DEF Goto
    <2>2. Types' /\ Fronts' /\ Plan'
      BY <1>1, <1>2, <2>1, TwoModules DEF Types, Fronts, Unprepared, Plan, Applying
    <2>3. lates' = 0 => InTime'
      BY <1>1, <1>2, <2>1 DEF InTime, Applying
    <2>4. ActorsAnswer' /\ ~gone' => Forward'
      BY <1>1, <1>3, <2>1 DEF RestoreInv, Forward, Applying
    <2> QED BY <1>1, <2>1, <2>2, <2>3, <2>4 DEF RestoreInv, ApplyKeeps, Applying
  <1>5. CASE ApplyFails /\ ((phase = "apply" /\ gone' = gone) \/ gone' = TRUE)
    <2>2. /\ cpu' \in Instant /\ device' \in [Devices -> Instant] /\ fields' \in Instant
          /\ actor' \in [Modules -> ActorOf] /\ lates' \in 0 .. MaxLate
          /\ \A m \in Modules : actor'[m].frontend = None
      BY <1>1, <1>2, TwoModules DEF Types, Unprepared
    <2>3. lates' = 0 => lates = 0 /\ \A m \in Modules : Synced(actor'[m])
      BY <1>1, <1>2 DEF InTime
    <2>4. /\ phase = "undo" => ~(ActorsAnswer' /\ ~gone')
          /\ ActorsAnswer' /\ ~gone' => ActorsAnswer /\ ~gone
      BY <1>3, <1>5
    <2> QED BY <1>1, <1>5, <2>2, <2>3, <2>4, FailedApply
  <1> QED BY <1>4, <1>5 DEF CheckConfiguration, MayBeInvalid

(* The actors prepare; in a rollback without a fault they do not refuse. *)
LEMMA PrepareModuleKeeps ==
  ASSUME RestoreInv, PrepareModule
  PROVE  ApplyKeeps
  <1>1. PICK o \in PrepareRestore(actor[next], MayBeLate, root.actor[next], MayBeInvalid) :
          /\ Called(next, o)
          /\ IF next = "mt32"
             THEN IF o.ok THEN Goto("prepare", "sc55") ELSE ApplyFails
             ELSE IF o.ok
                  THEN /\ pc' = "device" /\ dev' = 1
                       /\ UNCHANGED <<next, phase, root, outcome>>
                  ELSE Goto("abort_first", "mt32")
    BY DEF PrepareModule
  <1>2. /\ pc = "prepare" /\ pc \in Applying
        /\ UNCHANGED <<now, cpu, device, fields, slot, rollback, before, gone>>
    BY DEF PrepareModule, plain, Applying
  <1>3. /\ Types /\ Fronts /\ Plan /\ (lates = 0 => InTime)
        /\ actor \in [Modules -> ActorOf] /\ lates \in 0 .. MaxLate
        /\ MayBeLate \in BOOLEAN /\ MayBeInvalid \in BOOLEAN
        /\ next \in Modules /\ actor[next] \in ActorOf /\ root \in Root
        /\ root.actor[next] \in [worker : Instant, audio : Instant]
        /\ phase \in {"apply", "undo"}
    BY <1>2 DEF RestoreInv, Types, Plan, MayBeLate, MayBeInvalid, Root
  <1>4. /\ o.ok \in BOOLEAN /\ o.late \in BOOLEAN /\ (o.late => MayBeLate)
        /\ o.actor \in ActorOf /\ o.actor.alive = actor[next].alive
        /\ ~o.ok => o.actor.frontend = actor[next].frontend
        /\ ~o.late /\ Synced(actor[next]) =>
              /\ Synced(o.actor)
              /\ o.ok => /\ ~o.actor.pending /\ o.actor.prepared = root.actor[next].worker
                         /\ o.actor.frontend = root.actor[next].audio
              /\ actor[next].alive /\ actor[next].frontend = None /\ ~MayBeInvalid => o.ok
    BY <1>1, <1>3, Preparing
  <1>5. /\ actor' \in [Modules -> ActorOf] /\ actor'[next] = o.actor
        /\ \A n \in Modules : n # next => actor'[n] = actor[n]
        /\ lates' \in 0 .. MaxLate
        /\ lates' = 0 => lates = 0 /\ ~o.late
    BY <1>1, <1>3, <1>4, CalledActor
  <1>6. actor[next].frontend = None /\ Unprepared("sc55")
    BY <1>2, <1>3, TwoModules DEF Fronts, Unprepared
  <1>7. ASSUME lates' = 0
        PROVE  /\ InTime /\ lates = 0 /\ \A n \in Modules : Synced(actor'[n])
               /\ o.ok => /\ ~actor'[next].pending
                          /\ actor'[next].prepared = root.actor[next].worker
                          /\ actor'[next].frontend = root.actor[next].audio
    <2>1. lates = 0 /\ ~o.late /\ InTime
      BY <1>3, <1>5, <1>7
    <2>2. \A n \in Modules : Synced(actor[n])
      BY <2>1 DEF InTime
    <2> QED BY <1>3, <1>4, <1>5, <2>1, <2>2
  <1>8. ActorsAnswer' /\ ~gone' => ActorsAnswer /\ ~gone
    BY <1>2, <1>4, <1>5 DEF ActorsAnswer
  <1>9. ASSUME ActorsAnswer', ~gone', phase = "undo" PROVE o.ok
    <2>1. lates' = 0 /\ ~o.late /\ InTime /\ actor[next].alive
      BY <1>3, <1>5, <1>7, <1>8, <1>9 DEF ActorsAnswer
    <2>2. ~MayBeInvalid
      BY <1>9 DEF MayBeInvalid
    <2> QED BY <1>3, <1>4, <1>6, <2>1, <2>2 DEF InTime
  <1>10. CASE next = "mt32" /\ o.ok
    <2>1. pc' = "prepare" /\ next' = "sc55" /\ UNCHANGED <<dev, phase, root, outcome>>
      BY <1>1, <1>10 DEF Goto
    <2>2. Types'
      BY <1>2, <1>3, <1>5, <2>1, TwoModules DEF Types
    <2>3. Fronts' /\ Plan'
      BY <1>2, <1>3, <1>5, <1>6, <1>10, <2>1, TwoModules DEF Fronts, Unprepared, Plan, Applying
    <2>4. ASSUME lates' = 0 PROVE InTime'
      <3>1. Staged("mt32")'
        BY <1>7, <1>10, <2>1, <2>4 DEF Staged
      <3> QED BY <1>2, <1>7, <2>1, <2>4, <3>1 DEF InTime, Applying
    <2>5. ActorsAnswer' /\ ~gone' => Forward'
      BY <1>2, <1>8, <2>1 DEF RestoreInv, Forward, Applying
    <2> QED BY <1>2, <2>1, <2>2, <2>3, <2>4, <2>5 DEF RestoreInv, ApplyKeeps, Applying
  <1>11. CASE next = "mt32" /\ ~o.ok
    <2>1. ApplyFails
      BY <1>1, <1>11
    <2>2. /\ cpu' \in Instant /\ device' \in [Devices -> Instant] /\ fields' \in Instant
          /\ \A m \in Modules : actor'[m].frontend = None
      BY <1>2, <1>3, <1>4, <1>5, <1>6, <1>11, TwoModules DEF Types, Unprepared
    <2>3. lates' = 0 => lates = 0 /\ \A m \in Modules : Synced(actor'[m])
      BY <1>7
    <2>4. phase = "undo" => ~(ActorsAnswer' /\ ~gone')
      BY <1>9, <1>11
    <2> QED BY <1>2, <1>5, <1>8, <2>1, <2>2, <2>3, <2>4, FailedApply
  <1>12. CASE next = "sc55" /\ o.ok
    <2>1. pc' = "device" /\ dev' = 1 /\ UNCHANGED <<next, phase, root, outcome>>
      BY <1>1, <1>12
    <2>2. Types'
      BY <1>2, <1>3, <1>5, <2>1, BoundAssumption DEF Types
    <2>3. Fronts' /\ Plan'
      <3>1. \A d \in Devices : ~(d < 1)
        BY DEF Devices
      <3> QED BY <1>2, <1>3, <2>1, <3>1 DEF Fronts, Plan, Applying
    <2>4. ASSUME lates' = 0 PROVE InTime'
      <3>1. Staged("sc55")'
        BY <1>7, <1>12, <2>1, <2>4 DEF Staged
      <3>2. Staged("mt32")'
        BY <1>2, <1>5, <1>7, <1>12, <2>1, <2>4, TwoModules DEF InTime, Staged
      <3> QED BY <1>2, <1>7, <2>1, <2>4, <3>1, <3>2 DEF InTime, Applying
    <2>5. ActorsAnswer' /\ ~gone' => Forward'
      BY <1>2, <1>8, <2>1 DEF RestoreInv, Forward, Applying
    <2> QED BY <1>2, <2>1, <2>2, <2>3, <2>4, <2>5 DEF RestoreInv, ApplyKeeps, Applying
  <1>13. CASE next = "sc55" /\ ~o.ok
    <2>1. pc' = "abort_first" /\ next' = "mt32" /\ UNCHANGED <<dev, phase, root, outcome>>
      BY <1>1, <1>13 DEF Goto
    <2>2. Types'
      BY <1>2, <1>3, <1>5, <2>1, TwoModules DEF Types
    <2>3. Fronts' /\ Plan'
      BY <1>2, <1>3, <1>4, <1>5, <1>6, <1>13, <2>1, TwoModules DEF Fronts, Unprepared, Plan, Applying
    <2>4. lates' = 0 => InTime'
      BY <1>2, <1>7, <2>1 DEF InTime, Applying
    <2>5. ActorsAnswer' /\ ~gone' => Forward'
      BY <1>2, <1>3, <1>8, <1>9, <1>13, <2>1 DEF RestoreInv, Forward, Applying
    <2> QED BY <1>2, <2>1, <2>2, <2>3, <2>4, <2>5 DEF RestoreInv, ApplyKeeps, Applying
  <1> QED BY <1>3, <1>4, <1>10, <1>11, <1>12, <1>13, TwoModules

(* An abort takes the prepared restore of its actor, whatever it returns,  *)
(* and no abort is part of a rollback without a fault.                     *)
LEMMA AbortCalled ==
  ASSUME RestoreInv, pc \in {"abort_first", "abort", "abort_second"},
         NEW m \in Modules, NEW o \in AbortRestore(actor[m], MayBeLate), Called(m, o),
         UNCHANGED <<now, plain, slot, rollback, before, gone>>
  PROVE  /\ cpu' \in Instant /\ device' \in [Devices -> Instant] /\ fields' \in Instant
         /\ actor' \in [Modules -> ActorOf] /\ lates' \in 0 .. MaxLate
         /\ actor'[m].frontend = None /\ \A n \in Modules : n # m => actor'[n] = actor[n]
         /\ lates' = 0 => lates = 0 /\ \A n \in Modules : Synced(actor'[n])
         /\ phase = "undo" => ~(ActorsAnswer' /\ ~gone')
         /\ ActorsAnswer' /\ ~gone' => ActorsAnswer /\ ~gone
  <1>1. /\ actor \in [Modules -> ActorOf] /\ actor[m] \in ActorOf /\ lates \in 0 .. MaxLate
        /\ MayBeLate \in BOOLEAN
        /\ UNCHANGED <<cpu, device, fields, gone>>
    BY DEF RestoreInv, Types, MayBeLate, plain
  <1>2. /\ o.late \in BOOLEAN /\ (o.late => MayBeLate)
        /\ o.actor \in ActorOf /\ o.actor.alive = actor[m].alive /\ o.actor.frontend = None
        /\ ~o.late /\ Synced(actor[m]) => Synced(o.actor)
    BY <1>1, Aborting
  <1>3. /\ actor' \in [Modules -> ActorOf] /\ actor'[m] = o.actor
        /\ \A n \in Modules : n # m => actor'[n] = actor[n]
        /\ lates' \in 0 .. MaxLate
        /\ lates' = 0 => lates = 0 /\ ~o.late
    BY <1>1, <1>2, CalledActor
  <1>4. lates' = 0 => \A n \in Modules : Synced(actor'[n])
    BY <1>2, <1>3 DEF RestoreInv, InTime
  <1>5. ActorsAnswer' /\ ~gone' => ActorsAnswer /\ ~gone
    BY <1>1, <1>2, <1>3 DEF ActorsAnswer
  <1>6. phase = "undo" => ~(ActorsAnswer /\ ~gone)
    BY DEF RestoreInv, Forward, Applying
  <1>7. /\ cpu' \in Instant /\ device' \in [Devices -> Instant] /\ fields' \in Instant
    BY <1>1 DEF RestoreInv, Types
  <1> QED BY <1>2, <1>3, <1>4, <1>5, <1>6, <1>7

(* The three paths that abort lead on to the rollback or to its failure. *)
LEMMA AbortKeeps ==
  ASSUME RestoreInv, AbortFirst \/ AbortModule \/ AbortSecond
  PROVE  ApplyKeeps
  <1>1. /\ pc \in {"abort_first", "abort", "abort_second"} /\ pc \in Applying
        /\ UNCHANGED <<now, plain, slot, rollback, before, gone>>
        /\ UNCHANGED <<now, slot, rollback, before>>
        /\ Types /\ Fronts /\ Plan /\ next \in Modules
    BY DEF AbortFirst, AbortModule, AbortSecond, Applying, RestoreInv, Types
  <1>2. ASSUME AbortFirst PROVE ApplyKeeps
    <2>1. PICK o \in AbortRestore(actor["mt32"], MayBeLate) : Called("mt32", o)
      BY <1>2 DEF AbortFirst
    <2>2. Unprepared("sc55") /\ ApplyFails
      BY <1>1, <1>2 DEF AbortFirst, Fronts
    <2>3. /\ cpu' \in Instant /\ device' \in [Devices -> Instant] /\ fields' \in Instant
          /\ actor' \in [Modules -> ActorOf] /\ lates' \in 0 .. MaxLate
          /\ \A n \in Modules : actor'[n].frontend = None
          /\ lates' = 0 => lates = 0 /\ \A n \in Modules : Synced(actor'[n])
          /\ phase = "undo" => ~(ActorsAnswer' /\ ~gone')
          /\ ActorsAnswer' /\ ~gone' => ActorsAnswer /\ ~gone
      BY <1>1, <2>1, <2>2, TwoModules, AbortCalled DEF Unprepared
    <2> QED BY <1>1, <2>2, <2>3, FailedApply
  <1>3. ASSUME AbortSecond PROVE ApplyKeeps
    <2>1. PICK o \in AbortRestore(actor["sc55"], MayBeLate) : Called("sc55", o)
      BY <1>3 DEF AbortSecond
    <2>2. Unprepared("mt32") /\ ApplyFails
      BY <1>1, <1>3 DEF AbortSecond, Fronts
    <2>3. /\ cpu' \in Instant /\ device' \in [Devices -> Instant] /\ fields' \in Instant
          /\ actor' \in [Modules -> ActorOf] /\ lates' \in 0 .. MaxLate
          /\ \A n \in Modules : actor'[n].frontend = None
          /\ lates' = 0 => lates = 0 /\ \A n \in Modules : Synced(actor'[n])
          /\ phase = "undo" => ~(ActorsAnswer' /\ ~gone')
          /\ ActorsAnswer' /\ ~gone' => ActorsAnswer /\ ~gone
      BY <1>1, <2>1, <2>2, TwoModules, AbortCalled DEF Unprepared
    <2> QED BY <1>1, <2>2, <2>3, FailedApply
  <1>4. ASSUME AbortModule, next = "sc55" PROVE ApplyKeeps
    <2>1. PICK o \in AbortRestore(actor["sc55"], MayBeLate) : Called("sc55", o)
      BY <1>4 DEF AbortModule
    <2>2. Unprepared("mt32") /\ ApplyFails
      BY <1>1, <1>4 DEF AbortModule, Fronts
    <2>3. /\ cpu' \in Instant /\ device' \in [Devices -> Instant] /\ fields' \in Instant
          /\ actor' \in [Modules -> ActorOf] /\ lates' \in 0 .. MaxLate
          /\ \A n \in Modules : actor'[n].frontend = None
          /\ lates' = 0 => lates = 0 /\ \A n \in Modules : Synced(actor'[n])
          /\ phase = "undo" => ~(ActorsAnswer' /\ ~gone')
          /\ ActorsAnswer' /\ ~gone' => ActorsAnswer /\ ~gone
      BY <1>1, <2>1, <2>2, TwoModules, AbortCalled DEF Unprepared
    <2> QED BY <1>1, <2>2, <2>3, FailedApply
  <1>5. ASSUME AbortModule, next = "mt32" PROVE ApplyKeeps
    <2>1. PICK o \in AbortRestore(actor["mt32"], MayBeLate) : Called("mt32", o)
      BY <1>5 DEF AbortModule
    <2>2. /\ pc' = "abort" /\ next' = "sc55" /\ UNCHANGED <<dev, phase, root, outcome>>
          /\ pc = "abort"
      BY <1>5 DEF AbortModule, Goto
    <2>3. /\ cpu' \in Instant /\ device' \in [Devices -> Instant] /\ fields' \in Instant
          /\ actor' \in [Modules -> ActorOf] /\ lates' \in 0 .. MaxLate
          /\ Unprepared("mt32")'
          /\ lates' = 0 => lates = 0 /\ \A n \in Modules : Synced(actor'[n])
          /\ phase = "undo" => ~(ActorsAnswer' /\ ~gone')
          /\ ActorsAnswer' /\ ~gone' => ActorsAnswer /\ ~gone
      BY <1>1, <2>1, TwoModules, AbortCalled DEF Unprepared
    <2>4. Types'
      BY <1>1, <2>2, <2>3, TwoModules DEF Types
    <2>5. Fronts' /\ Plan'
      BY <1>1, <2>2, <2>3 DEF Fronts, Plan, Applying
    <2>6. lates' = 0 => InTime'
      BY <1>1, <2>2, <2>3 DEF RestoreInv, InTime, Applying
    <2>7. ActorsAnswer' /\ ~gone' => Forward'
      BY <1>1, <2>2, <2>3 DEF RestoreInv, Forward, Applying
    <2> QED BY <1>1, <2>2, <2>4, <2>5, <2>6, <2>7 DEF RestoreInv, ApplyKeeps, Applying
  <1> QED BY <1>1, <1>2, <1>3, <1>4, <1>5, TwoModules

(* The devices are restored one after the other, then the plain fields. *)
LEMMA RestoreDeviceKeeps ==
  ASSUME RestoreInv, RestoreDevice
  PROVE  ApplyKeeps
  <1>1. /\ pc = "device" /\ pc \in Applying
        /\ UNCHANGED <<now, cpu, actor, lates, slot, rollback, before, gone>>
    BY DEF RestoreDevice, Applying
  <1>2. /\ Types /\ Fronts /\ Plan /\ (lates = 0 => InTime)
        /\ device \in [Devices -> Instant] /\ root \in Root /\ dev \in 1 .. DeviceCount + 1
        /\ root.device \in [Devices -> Instant] /\ root.fields \in Instant
        /\ \A d \in Devices : d < dev => device[d] = root.device[d]
    BY <1>1 DEF RestoreInv, Types, Plan, Root
  <1>3. (ActorsAnswer' <=> ActorsAnswer) /\ gone' = gone
    BY <1>1 DEF ActorsAnswer
  <1>4. CASE /\ dev \in Devices
             /\ device' = [device EXCEPT ![dev] = root.device[dev]] /\ dev' = dev + 1
             /\ UNCHANGED <<pc, next, phase, root, outcome, fields>>
    <2>1. /\ device' \in [Devices -> Instant] /\ dev' \in 1 .. DeviceCount + 1
          /\ \A d \in Devices : d < dev' => device'[d] = root.device[d]
      BY <1>2, <1>4, BoundAssumption DEF Devices
    <2>2. Types'
      BY <1>1, <1>2, <1>4, <2>1 DEF Types
    <2>3. Fronts' /\ Plan'
      BY <1>1, <1>2, <1>4, <2>1 DEF Fronts, Plan, Applying
    <2>4. lates' = 0 => InTime'
      BY <1>1, <1>2, <1>4 DEF InTime, Staged, Applying
    <2>5. ActorsAnswer' /\ ~gone' => Forward'
      BY <1>1, <1>3, <1>4 DEF RestoreInv, Forward, Applying
    <2> QED BY <1>1, <1>4, <2>2, <2>3, <2>4, <2>5 DEF RestoreInv, ApplyKeeps, Applying
  <1>5. CASE MayBeInvalid /\ Goto("abort", "mt32") /\ UNCHANGED <<device, fields>>
    <2>1. /\ pc' = "abort" /\ next' = "mt32" /\ UNCHANGED <<dev, phase, root, outcome, device, fields>>
          /\ phase = "apply"
      BY <1>5 DEF Goto, MayBeInvalid
    <2>2. Types'
      BY <1>1, <1>2, <2>1, TwoModules DEF Types
    <2>3. Fronts' /\ Plan'
      BY <1>1, <1>2, <2>1 DEF Fronts, Plan, Applying
    <2>4. lates' = 0 => InTime'
      BY <1>1, <1>2, <2>1 DEF InTime, Applying
    <2>5. ActorsAnswer' /\ ~gone' => Forward'
      BY <1>1, <1>3, <2>1 DEF RestoreInv, Forward, Applying
    <2> QED BY <1>1, <2>1, <2>2, <2>3, <2>4, <2>5 DEF RestoreInv, ApplyKeeps, Applying
  <1>6. CASE /\ dev \notin Devices /\ fields' = root.fields /\ Goto("commit", "mt32")
             /\ UNCHANGED device
    <2>1. /\ pc' = "commit" /\ next' = "mt32" /\ UNCHANGED <<dev, phase, root, outcome, device>>
          /\ fields' = root.fields
      BY <1>6 DEF Goto
    <2>2. device = root.device
      <3>1. \A d \in Devices : d < dev
        BY <1>2, <1>6, BoundAssumption DEF Devices
      <3> QED BY <1>2, <3>1
    <2>3. Types'
      BY <1>1, <1>2, <2>1, TwoModules DEF Types
    <2>4. Fronts' /\ Plan'
      BY <1>1, <1>2, <2>1, <2>2 DEF Fronts, Plan, Applying
    <2>5. lates' = 0 => InTime'
      BY <1>1, <1>2, <2>1 DEF InTime, Staged, Applying
    <2>6. ActorsAnswer' /\ ~gone' => Forward'
      BY <1>1, <1>3, <2>1 DEF RestoreInv, Forward, Applying
    <2> QED BY <1>1, <2>1, <2>3, <2>4, <2>5, <2>6 DEF RestoreInv, ApplyKeeps, Applying
  <1> QED BY <1>4, <1>5, <1>6 DEF RestoreDevice

(* The commits: after the second one the machine is the root. *)
LEMMA CommitModuleKeeps ==
  ASSUME RestoreInv, CommitModule
  PROVE  ApplyKeeps
  <1>1. PICK o \in CommitRestore(actor[next], MayBeLate) :
          /\ Called(next, o)
          /\ IF next = "mt32"
             THEN IF o.ok THEN Goto("commit", "sc55") ELSE Goto("abort_second", "sc55")
             ELSE IF o.ok THEN Applied ELSE ApplyFails
    BY DEF CommitModule
  <1>2. /\ pc = "commit" /\ pc \in Applying
        /\ UNCHANGED <<now, cpu, device, fields, slot, rollback, before, gone>>
    BY DEF CommitModule, plain, Applying
  <1>3. /\ Types /\ Fronts /\ Plan /\ (lates = 0 => InTime)
        /\ actor \in [Modules -> ActorOf] /\ lates \in 0 .. MaxLate
        /\ MayBeLate \in BOOLEAN
        /\ next \in Modules /\ actor[next] \in ActorOf /\ root \in Root
        /\ \A m \in Modules : root.actor[m].worker \in Instant /\ root.actor[m].audio \in Instant
        /\ phase \in {"apply", "undo"}
        /\ cpu = root.cpu /\ device = root.device /\ fields = root.fields
        /\ root = IF phase = "apply" THEN slot ELSE rollback
    BY <1>2 DEF RestoreInv, Types, Plan, MayBeLate, Root
  <1>4. /\ o.ok \in BOOLEAN /\ o.late \in BOOLEAN /\ (o.late => MayBeLate)
        /\ o.actor \in ActorOf /\ o.actor.alive = actor[next].alive /\ o.actor.frontend = None
        /\ ~o.late /\ Synced(actor[next]) =>
              /\ Synced(o.actor)
              /\ o.ok /\ actor[next].prepared # None =>
                   /\ ~o.actor.pending /\ o.actor.worker = actor[next].prepared
                   /\ o.actor.audio = actor[next].frontend
              /\ actor[next].alive /\ actor[next].frontend # None => o.ok
    BY <1>1, <1>3, Committing
  <1>5. /\ actor' \in [Modules -> ActorOf] /\ actor'[next] = o.actor
        /\ \A n \in Modules : n # next => actor'[n] = actor[n]
        /\ lates' \in 0 .. MaxLate
        /\ lates' = 0 => lates = 0 /\ ~o.late
    BY <1>1, <1>3, <1>4, CalledActor
  <1>6. /\ next = "sc55" => Unprepared("mt32")
        /\ actor'[next].frontend = None
    BY <1>2, <1>3, <1>4, <1>5 DEF Fronts
  <1>7. ASSUME lates' = 0
        PROVE  /\ InTime /\ lates = 0 /\ \A n \in Modules : Synced(actor'[n])
               /\ o.ok => /\ ~actor'[next].pending
                          /\ actor'[next].worker = root.actor[next].worker
                          /\ actor'[next].audio = root.actor[next].audio
               /\ actor[next].alive => o.ok
    <2>1. lates = 0 /\ ~o.late /\ InTime
      BY <1>3, <1>5, <1>7
    <2>2. Staged(next) /\ \A n \in Modules : Synced(actor[n])
      BY <1>2, <1>3, <2>1, TwoModules DEF InTime
    <2>3. /\ actor[next].prepared # None /\ actor[next].frontend # None
          /\ actor[next].prepared = root.actor[next].worker
          /\ actor[next].frontend = root.actor[next].audio
      BY <1>3, <2>2, BoundAssumption DEF Staged
    <2> QED BY <1>3, <1>4, <1>5, <2>1, <2>2, <2>3
  <1>8. ActorsAnswer' /\ ~gone' => ActorsAnswer /\ ~gone
    BY <1>2, <1>4, <1>5 DEF ActorsAnswer
  <1>9. ASSUME ActorsAnswer', ~gone' PROVE o.ok
    BY <1>3, <1>7, <1>8, <1>9 DEF ActorsAnswer
  <1>10. CASE next = "mt32" /\ o.ok
    <2>1. pc' = "commit" /\ next' = "sc55" /\ UNCHANGED <<dev, phase, root, outcome>>
      BY <1>1, <1>10 DEF Goto
    <2>2. Types'
      BY <1>2, <1>3, <1>5, <2>1, TwoModules DEF Types
    <2>3. Fronts' /\ Plan'
      BY <1>2, <1>3, <1>6, <1>10, <2>1 DEF Fronts, Unprepared, Plan, Applying
    <2>4. ASSUME lates' = 0 PROVE InTime'
      <3>1. Installed("mt32")'
        BY <1>7, <1>10, <2>1, <2>4 DEF Installed
      <3>2. Staged("sc55")'
        BY <1>2, <1>5, <1>7, <1>10, <2>1, <2>4, TwoModules DEF InTime, Staged
      <3> QED BY <1>2, <1>7, <2>1, <2>4, <3>1, <3>2 DEF InTime, Applying
    <2>5. ActorsAnswer' /\ ~gone' => Forward'
      BY <1>2, <1>8, <2>1 DEF RestoreInv, Forward, Applying
    <2> QED BY <1>2, <2>1, <2>2, <2>3, <2>4, <2>5 DEF RestoreInv, ApplyKeeps, Applying
  <1>11. CASE next = "mt32" /\ ~o.ok
    <2>1. pc' = "abort_second" /\ next' = "sc55" /\ UNCHANGED <<dev, phase, root, outcome>>
      BY <1>1, <1>11 DEF Goto
    <2>2. Types'
      BY <1>2, <1>3, <1>5, <2>1, TwoModules DEF Types
    <2>3. Fronts' /\ Plan'
      BY <1>2, <1>3, <1>6, <1>11, <2>1 DEF Fronts, Unprepared, Plan, Applying
    <2>4. lates' = 0 => InTime'
      BY <1>2, <1>7, <2>1 DEF InTime, Applying
    <2>5. ~(ActorsAnswer' /\ ~gone')
      BY <1>9, <1>11
    <2> QED BY <1>2, <2>1, <2>2, <2>3, <2>4, <2>5 DEF RestoreInv, ApplyKeeps, Applying
  <1>12. CASE next = "sc55" /\ ~o.ok
    <2>1. ApplyFails
      BY <1>1, <1>12
    <2>2. /\ cpu' \in Instant /\ device' \in [Devices -> Instant] /\ fields' \in Instant
          /\ \A m \in Modules : actor'[m].frontend = None
      BY <1>2, <1>3, <1>5, <1>6, <1>12, TwoModules DEF Types, Unprepared
    <2>3. lates' = 0 => lates = 0 /\ \A m \in Modules : Synced(actor'[m])
      BY <1>7
    <2>4. phase = "undo" => ~(ActorsAnswer' /\ ~gone')
      BY <1>9, <1>12
    <2> QED BY <1>2, <1>5, <1>8, <2>1, <2>2, <2>3, <2>4, FailedApply
  <1>13. CASE next = "sc55" /\ o.ok
    <2>1. /\ outcome' = IF phase = "apply" THEN "restored" ELSE "failed"
          /\ pc' = "run" /\ UNCHANGED <<next, dev, phase, root>>
      BY <1>1, <1>13 DEF Applied
    <2>2. Types'
      BY <1>2, <1>3, <1>5, <2>1 DEF Types
    <2>3. Fronts' /\ Plan'
      BY <1>2, <1>5, <1>6, <1>13, <2>1, TwoModules DEF Fronts, Unprepared, Plan, Applying
    <2>4. lates' = 0 => InTime'
      BY <1>7, <2>1 DEF InTime, Applying
    <2>5. Forward'
      BY <2>1 DEF Forward, Applying
    <2>6. ASSUME lates' = 0 PROVE Live' = root
      <3>1. \A m \in Modules : ~actor'[m].pending /\ actor'[m].worker = root.actor[m].worker
                                                  /\ actor'[m].audio = root.actor[m].audio
        <4>1. Installed("mt32")
          BY <1>2, <1>7, <1>13, <2>6 DEF InTime
        <4> QED BY <1>5, <1>7, <1>13, <2>6, <4>1, TwoModules DEF Installed
      <3>2. \A m \in Modules : [worker |-> actor'[m].worker, audio |-> Shown(actor'[m])] = root.actor[m]
        BY <1>3, <3>1 DEF Shown, Root
      <3>3. root.actor = [m \in Modules |-> root.actor[m]]
        BY <1>3 DEF Root
      <3>4. [m \in Modules |-> [worker |-> actor'[m].worker, audio |-> Shown(actor'[m])]] = root.actor
        BY <3>2, <3>3
      <3>5. root = [cpu |-> root.cpu, device |-> root.device, fields |-> root.fields, actor |-> root.actor]
        BY <1>3 DEF Root
      <3> QED BY <1>2, <1>3, <3>4, <3>5, LivePartsNext
    <2>7. ASSUME lates' = 0, phase = "undo" PROVE root = before
      BY <1>2, <1>3, <1>7, <2>7 DEF InTime
    <2>8. /\ lates' = 0 => (outcome' = "restored" => Live' = slot) /\ (outcome' = "failed" => Live' = before)
          /\ outcome' \in {"restored", "failed"}
      BY <1>3, <2>1, <2>6, <2>7
    <2>9. RestoreInv'
      BY <2>2, <2>3, <2>4, <2>5 DEF RestoreInv
    <2> QED BY <1>2, <2>1, <2>8, <2>9 DEF ApplyKeeps
  <1> QED BY <1>3, <1>4, <1>10, <1>11, <1>12, <1>13, TwoModules

-----------------------------------------------------------------------------
(* The invariant and the theorems. *)

(* Every step of applying a root keeps what ApplyKeeps says. *)
LEMMA ApplyStep ==
  ASSUME RestoreInv, Apply
  PROVE  pc \in Applying /\ slot # None /\ ApplyKeeps
  <1>1. pc \in Applying
    BY DEF Apply, RestoreCpu, CheckConfiguration, PrepareModule, AbortFirst, RestoreDevice,
           AbortModule, CommitModule, AbortSecond, Applying
  <1>2. slot # None
    BY <1>1 DEF RestoreInv, Plan
  <1>3. ApplyKeeps
    BY RestoreCpuKeeps, CheckConfigurationKeeps, PrepareModuleKeeps, AbortKeeps,
       RestoreDeviceKeeps, CommitModuleKeeps DEF Apply
  <1> QED BY <1>1, <1>2, <1>3

(* A step that changes nothing changes nothing. *)
LEMMA StutterKeeps ==
  ASSUME RestoreInv, UNCHANGED vars
  PROVE  RestoreInv' /\ Live' = Live
  <1>1. UNCHANGED <<now, cpu, device, fields, actor, lates, slot, pc, next, dev, phase, root,
                    rollback, outcome, before, gone>>
    BY DEF vars, plain, control
  <1>2. Live' = Live
    BY <1>1 DEF Live
  <1>3. Types' /\ Fronts' /\ Plan'
    BY <1>1 DEF RestoreInv, Types, Fronts, Unprepared, Plan
  <1>4. (lates = 0 => InTime) => (lates' = 0 => InTime')
    BY <1>1, <1>2 DEF InTime, Staged, Installed
  <1>5. (ActorsAnswer' <=> ActorsAnswer) /\ (Forward' <=> Forward)
    BY <1>1 DEF ActorsAnswer, Forward
  <1> QED BY <1>1, <1>2, <1>3, <1>4, <1>5 DEF RestoreInv

(* Every step keeps the invariant. *)
LEMMA StepRestore == RestoreInv /\ [Next]_vars => RestoreInv'
  <1> SUFFICES ASSUME RestoreInv, [Next]_vars PROVE RestoreInv'
    OBVIOUS
  <1>1. CASE Emulate \/ \E m \in Modules : GenerateAudio(m)
    BY <1>1, RunKeeps
  <1>2. CASE Save \/ Restore
    BY <1>2, BeginKeeps
  <1>3. CASE CaptureModule
    BY <1>3, CaptureKeeps
  <1>4. CASE Apply
    BY <1>4, ApplyStep DEF ApplyKeeps
  <1>5. CASE \E m \in Modules : WorkerPanics(m)
    BY <1>5, PanicKeeps
  <1>6. CASE UNCHANGED vars
    BY <1>6, StutterKeeps
  <1> QED BY <1>1, <1>2, <1>3, <1>4, <1>5, <1>6 DEF Next

(* The invariant holds always. *)
LEMMA RestoreInvariance == Spec => []RestoreInv
  BY InitRestore, StepRestore, PTL DEF Spec

(* When the machine runs again after a save or a restore, however it ended *)
(* (restore_runtime_state, restore_blob), no sound actor holds a prepared  *)
(* restore: for any number of devices, late answers and panics.            *)
THEOREM NoRestoreIsOrphaned == Spec => []NoOrphanedRestore
  <1>1. RestoreInv => NoOrphanedRestore
    BY TwoModules DEF RestoreInv, Fronts, Unprepared, NoOrphanedRestore
  <1> QED BY <1>1, RestoreInvariance, PTL

(* The rollback of restore_transactionally fails only by a fault: a dead   *)
(* or late sound actor, or a host source of a running COPY that is gone.   *)
THEOREM RollbackFailsOnlyByFault == Spec => []RollbackSucceeds
  <1>1. RestoreInv => RollbackSucceeds
    BY DEF RestoreInv, Forward, RollbackSucceeds
  <1> QED BY <1>1, RestoreInvariance, PTL

(* The step that ends a restore leaves the machine that its outcome names. *)
LEMMA StepWhole ==
  ASSUME RestoreInv, [Next]_vars, pc # "run", pc' = "run", lates' = 0
  PROVE  /\ outcome' = "restored" => Live' = slot
         /\ outcome' = "failed"   => Live' = before
         /\ outcome' = "rejected" => UNCHANGED plain
  <1>1. CASE CaptureModule
    BY <1>1, CaptureKeeps
  <1>2. CASE Apply
    BY <1>2, ApplyStep DEF ApplyKeeps
  <1>3. CASE Emulate \/ Save \/ Restore \/ \E m \in Modules : GenerateAudio(m)
    BY <1>3 DEF Emulate, Save, Restore, GenerateAudio
  <1>4. CASE (\E m \in Modules : WorkerPanics(m)) \/ UNCHANGED vars
    BY <1>4 DEF WorkerPanics, vars, control
  <1> QED BY <1>1, <1>2, <1>3, <1>4 DEF Next

(* A restore (restore_machine_blob) that reports success installed the     *)
(* whole snapshot, one that reports failure left the whole machine as it   *)
(* was, and one that was rejected changed nothing, wherever a worker dies, *)
(* as long as no answer came late.                                         *)
THEOREM RestoresAllOrNothing == Spec => RestoreAllOrNothing
  <1>1. RestoreInv /\ [Next]_vars =>
          [pc # "run" /\ pc' = "run" /\ lates' = 0 =>
             /\ outcome' = "restored" => Live' = slot
             /\ outcome' = "failed"   => Live' = before
             /\ outcome' = "rejected" => UNCHANGED plain]_vars
    BY StepWhole
  <1> QED BY <1>1, RestoreInvariance, PTL DEF Spec, RestoreAllOrNothing

(* The machine that AtomicMachine speaks of: during a restore, the one     *)
(* that the restore found.                                                 *)
Machine == IF pc \in {"run", "capture"} THEN Live ELSE before

(* The steps of AtomicMachine, in the terms of MachineRestore. *)
LEMMA AtomicSteps ==
  /\ Atomic!Init <=> now = 0 /\ Machine = RootAt(0) /\ slot = None
  /\ Atomic!Run <=> now' = now + 1 /\ Machine' \in Root /\ slot' = slot
  /\ Atomic!Save <=> slot' = Machine /\ now' = now /\ Machine' = Machine
  /\ Atomic!Restore <=> slot # None /\ Machine' = slot /\ now' = now /\ slot' = slot
  /\ Atomic!vars' = Atomic!vars <=> now' = now /\ Machine' = Machine /\ slot' = slot
  BY DEF Atomic!Init, Atomic!Run, Atomic!Save, Atomic!Restore, Atomic!vars, Machine

(* Without a fault every step is one of AtomicMachine, or none. *)
LEMMA StepAtomic ==
  ASSUME RestoreInv, [Next]_vars, ActorsAnswer', ~gone'
  PROVE  [Atomic!Next]_Atomic!vars
  <1> SUFFICES \/ Atomic!Run \/ Atomic!Save \/ Atomic!Restore
               \/ now' = now /\ Machine' = Machine /\ slot' = slot
    BY AtomicSteps DEF Atomic!Next
  <1>0. lates' = 0 /\ RestoreInv' /\ Types' /\ Forward' /\ \A m \in Modules : Synced(actor'[m])
    BY StepRestore DEF RestoreInv, ActorsAnswer, InTime
  <1>1. CASE Emulate \/ \E m \in Modules : GenerateAudio(m)
    <2>1. now' = now + 1 /\ slot' = slot /\ pc = "run" /\ pc' = pc
      BY <1>1 DEF Emulate, GenerateAudio, control
    <2>2. Live' \in Root
      BY <1>0, LiveIsRoot
    <2> QED BY <2>1, <2>2, AtomicSteps DEF Machine
  <1>2. CASE Save \/ Restore
    <2>1. now' = now /\ slot' = slot /\ pc = "run" /\ pc' \in {"run", "capture"}
      BY <1>2 DEF Save, Restore, BeginCapture
    <2> QED BY <1>2, <2>1, BeginKeeps DEF Machine
  <1>3. CASE CaptureModule
    <2>1. pc = "capture" /\ now' = now
      BY <1>3 DEF CaptureModule
    <2>2. /\ Live' = Live /\ pc' \in {"cpu", "run", "capture"}
          /\ slot' # slot => slot' = Live
          /\ pc' = "cpu" => before' = Live
      BY <1>0, <1>3, CaptureKeeps
    <2>3. Machine = Live /\ Machine' = Live
      BY <2>1, <2>2 DEF Machine
    <2> QED BY <2>1, <2>2, <2>3, AtomicSteps
  <1>4. CASE Apply
    <2>1. pc \in Applying /\ slot # None /\ ApplyKeeps
      BY <1>4, ApplyStep
    <2>2. Machine = before /\ UNCHANGED <<now, slot, before>>
      BY <2>1 DEF Machine, Applying, ApplyKeeps
    <2>3. CASE pc' # "run"
      BY <2>1, <2>2, <2>3 DEF Machine, Applying, ApplyKeeps
    <2>4. CASE pc' = "run"
      <3>1. /\ Machine' = Live' /\ outcome' \in {"restored", "failed"}
            /\ outcome' = "restored" => Live' = slot
            /\ outcome' = "failed"   => Live' = before
        BY <1>0, <2>1, <2>4 DEF Machine, Forward, ApplyKeeps
      <3> QED BY <2>1, <2>2, <3>1, AtomicSteps
    <2> QED BY <2>3, <2>4
  <1>5. CASE \E m \in Modules : WorkerPanics(m)
    <2>1. UNCHANGED <<now, slot, pc, before>>
      BY <1>5 DEF WorkerPanics, control
    <2> QED BY <1>5, <2>1, PanicKeeps DEF Machine
  <1>6. CASE UNCHANGED vars
    <2>1. UNCHANGED <<now, slot, pc, before>>
      BY <1>6 DEF vars, control
    <2> QED BY <1>6, <2>1, StutterKeeps DEF Machine
  <1> QED BY <1>1, <1>2, <1>3, <1>4, <1>5, <1>6 DEF Next

(* Up to the first fault of an actor or of the host, the machine with its   *)
(* sound actors (capture_machine_blob, restore_machine_blob) saves and      *)
(* restores like the one object of AtomicMachine.                           *)
THEOREM SavesAndRestoresAsOne == Spec => SavesAndRestoresAtomically
  <1>1. Init => Atomic!Init
    <2> SUFFICES ASSUME Init PROVE Atomic!Init
      OBVIOUS
    <2>1. /\ pc = "run" /\ now = 0 /\ slot = None
          /\ cpu = 0 /\ device = [d \in Devices |-> 0] /\ fields = 0
          /\ \A m \in Modules : actor[m].worker = 0 /\ Shown(actor[m]) = 0
      BY DEF Init, StartedActor, Shown
    <2>2. [m \in Modules |-> [worker |-> actor[m].worker, audio |-> Shown(actor[m])]]
            = [m \in Modules |-> [worker |-> 0, audio |-> 0]]
      BY <2>1
    <2>3. Live = RootAt(0)
      BY <2>1, <2>2, LiveParts DEF RootAt
    <2> QED BY <2>1, <2>3, AtomicSteps DEF Machine
  <1>2. RestoreInv /\ [Next]_vars => [ActorsAnswer' /\ ~gone' => [Atomic!Next]_Atomic!vars]_vars
    BY StepAtomic
  <1> QED BY <1>1, <1>2, RestoreInvariance, PTL DEF Spec, SavesAndRestoresAtomically
=============================================================================
