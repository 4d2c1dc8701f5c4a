----------------------------- MODULE RenderActor -----------------------------
(***************************************************************************)
(* The render actor of the MT-32 (crates/munt_oxide/src/thread.rs; the     *)
(* SC-55 has the same actor in crates/nuked_sc55_oxide/src/thread.rs).     *)
(*                                                                         *)
(* Two threads share nothing but two bounded channels.  The machine thread *)
(* owns the handle (MuntActor) and runs one call at a time: a call may     *)
(* first collect the chunk of an earlier render (complete_render), then    *)
(* sends one command and, for every command but Render, waits for one      *)
(* response with a timeout.  The worker (render_actor_main) owns the       *)
(* synthesizer and answers the commands in order.                          *)
(*                                                                         *)
(* Abstractions.  A synthesizer state (context and resampler) is a member  *)
(* of Synth and an audio chunk is named by the state the synthesizer was   *)
(* left in when it rendered it; Synth0 names the empty chunk as well.      *)
(* The MIDI buffer is only ever empty or lent out, so it is a Boolean.     *)
(* A channel is the sequence of the messages in it.                        *)
(***************************************************************************)
EXTENDS Naturals, Sequences

CONSTANTS
    Synth,            \* states of the synthesizer
    Synth0,           \* its state after start and after Reset
    Midi,             \* MIDI batches that a call of exchange hands over
    Advance(_, _),    \* the state after parsing a batch and rendering a chunk
    None,             \* Option::None
    CommandCapacity,  \* capacity of the command channel (2 in the code)
    ResponseCapacity, \* capacity of the response channel (2 in the code)
    Late,             \* may an answer take longer than RESPONSE_TIMEOUT?
    Panics            \* may the worker thread panic?

ASSUME SynthAssumption ==
    /\ Synth0 \in Synth
    /\ \A s \in Synth, m \in Midi : Advance(s, m) \in Synth
    /\ None \notin Synth
    /\ \A w, a \in Synth : None # [worker |-> w, audio |-> a]

ASSUME ChannelAssumption ==
    /\ CommandCapacity \in Nat \ {0}
    /\ ResponseCapacity \in Nat \ {0}

ASSUME FaultAssumption == Late \in BOOLEAN /\ Panics \in BOOLEAN

VARIABLES
    \* machine thread: the handle and the call it executes
    pc,                \* where the machine thread is
    op,                \* the call that runs or ran last
    result,            \* what that call returned
    midi_buffer,       \* is the MIDI buffer at home?
    pending_audio,     \* the chunk to mix next, None while the buffer is lent
    render_pending,
    prepared_frontend, \* the chunk that commit_restore will install, or None
    saved,             \* the last state that capture_state returned
    \* channels
    init,              \* the initialization channel
    commands,
    responses,
    \* worker thread
    wpc,               \* where the worker is
    hand,              \* the response it is about to send
    synth,             \* the active synthesizer
    prepared           \* the validated candidate of PrepareRestore, or None

frontVars   == <<midi_buffer, pending_audio, render_pending, prepared_frontend>>
callerVars  == <<pc, op, result, saved>>
channelVars == <<init, commands, responses>>
workerVars  == <<wpc, hand, synth, prepared>>
vars        == <<frontVars, callerVars, channelVars, workerVars>>

-----------------------------------------------------------------------------
(* Messages.                                                               *)

Chunk == Synth \cup {None}

(* MuntActorState: the worker's state and the chunk not yet mixed. *)
ActorState == [worker : Synth, audio : Synth]

(* MuntCommand: Render carries the MIDI batch, PrepareRestore the worker   *)
(* state to stage.                                                         *)
Command ==
    {c \in [type : {"Render", "Capture", "PrepareRestore", "CommitRestore",
                    "AbortRestore", "Reset", "Shutdown"},
            arg : Midi \cup Synth \cup {None}] :
        /\ c.type = "Render" => c.arg \in Midi
        /\ c.type = "PrepareRestore" => c.arg \in Synth}

(* MuntResponse: Rendered carries the chunk, Captured the worker state;    *)
(* RestoreRefused stands for RestorePrepared(Err).                         *)
Response ==
    {r \in [type : {"Rendered", "Captured", "RestorePrepared", "RestoreRefused",
                    "RestoreCommitted", "RestoreAborted", "ResetComplete"},
            arg : Chunk] :
        r.type \in {"Rendered", "Captured"} => r.arg \in Synth}

(* The calls that wait for an answer, and the answer each waits for. *)
Barriers == {"capture_state", "prepare_restore", "commit_restore", "abort_restore", "reset"}
Answers(o) == CASE o = "capture_state"   -> {"Captured"}
                [] o = "prepare_restore" -> {"RestorePrepared", "RestoreRefused"}
                [] o = "commit_restore"  -> {"RestoreCommitted"}
                [] o = "abort_restore"   -> {"RestoreAborted"}
                [] o = "reset"           -> {"ResetComplete"}

Errors == {"disconnected", "timeout", "unexpected", "invalid", "in_flight"}

(* Everything that was asked and not yet collected, in order of asking. *)
Unanswered == Len(responses) + (IF wpc = "reply" THEN 1 ELSE 0) + Len(commands)

Init ==
    /\ pc = "starting" /\ op = "start" /\ result = "ok" /\ saved = None
    /\ midi_buffer = TRUE /\ pending_audio = Synth0
    /\ render_pending = FALSE /\ prepared_frontend = None
    /\ init = "none" /\ commands = <<>> /\ responses = <<>>
    /\ wpc = "init" /\ hand = None /\ synth = Synth0 /\ prepared = None

-----------------------------------------------------------------------------
(* Machine thread.                                                         *)

Return(outcome) == pc' = "idle" /\ result' = outcome

(* start: waits for the worker to load the ROMs; on failure joins it. *)
Start ==
    /\ pc = "starting"
    /\ \/ init = "ok" /\ Return("ok")
       \/ init # "ok" /\ wpc = "exited" /\ pc' = "gone" /\ result' = "disconnected"
    /\ UNCHANGED <<frontVars, op, saved, channelVars, workerVars>>

(* Mutant: the barrier does not complete an in-flight render first. *)
BeginWithoutDrain(o) ==
    /\ pc = "idle"
    /\ op' = o /\ pc' = "send"
    /\ UNCHANGED <<result, frontVars, saved, channelVars, workerVars>>

(* The head of every call but commit, abort and drop: collect a pending    *)
(* chunk first.                                                            *)
Begin(o) ==
    /\ pc = "idle"
    /\ op' = o
    /\ pc' = IF render_pending THEN "drain" ELSE "send"
    /\ UNCHANGED <<result, frontVars, saved, channelVars, workerVars>>

(* A call that ends before it touches a channel. *)
Reject(o, outcome) ==
    /\ pc = "idle"
    /\ op' = o
    /\ Return(outcome)
    /\ UNCHANGED <<frontVars, saved, channelVars, workerVars>>

(* The machine mixes audio between calls of its restore, never inside one, *)
(* so no exchange meets a prepared restore.                                *)
CallExchange == prepared_frontend = None /\ Begin("exchange")

CallCapture ==
    \/ prepared_frontend # None /\ Reject("capture_state", "invalid")
    \/ prepared_frontend = None /\ Begin("capture_state")

(* Rejected when a restore is prepared or a buffer cannot be reserved. *)
CallPrepare ==
    /\ saved # None
    /\ \/ Reject("prepare_restore", "invalid")
       \/ prepared_frontend = None /\ Begin("prepare_restore")

CallReset ==
    \/ prepared_frontend # None /\ Reject("reset", "invalid")
    \/ prepared_frontend = None /\ Begin("reset")

(* commit and abort do not collect a pending chunk.  Both take the         *)
(* prepared frontend; commit holds it till it ends, whatever its outcome,  *)
(* and nothing reads the field meanwhile, so here it stays put till then.  *)
CallCommit ==
    \/ prepared_frontend = None /\ Reject("commit_restore", "invalid")
    \/ /\ prepared_frontend # None
       /\ pc = "idle"
       /\ op' = "commit_restore" /\ pc' = "send"
       /\ UNCHANGED <<result, frontVars, saved, channelVars, workerVars>>

CallAbort ==
    \/ prepared_frontend = None /\ Reject("abort_restore", "ok")
    \/ /\ prepared_frontend # None
       /\ pc = "idle"
       /\ op' = "abort_restore" /\ pc' = "send"
       /\ prepared_frontend' = None
       /\ UNCHANGED <<result, midi_buffer, pending_audio, render_pending, saved,
                      channelVars, workerVars>>

CallDrop ==
    /\ pc = "idle"
    /\ op' = "drop" /\ pc' = "send"
    /\ UNCHANGED <<result, frontVars, saved, channelVars, workerVars>>

Call == \/ CallExchange \/ CallCapture \/ CallPrepare
        \/ CallCommit \/ CallAbort \/ CallReset \/ CallDrop

(* What is left of the prepared frontend when a call ends early. *)
FrontendAfterError == IF op = "commit_restore" THEN None ELSE prepared_frontend

Fail(error) ==
    /\ Return(error)
    /\ prepared_frontend' = FrontendAfterError
    /\ UNCHANGED <<midi_buffer, pending_audio, render_pending, saved>>

(* receive: recv_timeout gives a queued response at once; it fails only on *)
(* an empty channel, when the worker is gone or the time is up.            *)
ReceiveFails ==
    /\ responses = <<>>
    /\ \/ wpc = "exited" /\ Fail("disconnected")
       \/ Late /\ wpc # "exited" /\ Fail("timeout")
    /\ UNCHANGED <<op, channelVars, workerVars>>

Receive ==
    /\ responses # <<>>
    /\ responses' = Tail(responses)
    /\ UNCHANGED <<op, init, commands, workerVars>>

(* complete_render *)
CompleteRender ==
    /\ pc = "drain"
    /\ \/ ReceiveFails
       \/ /\ Receive
          /\ LET r == Head(responses)
             IN \/ /\ r.type = "Rendered"
                   /\ midi_buffer' = TRUE /\ pending_audio' = r.arg
                   /\ render_pending' = FALSE
                   /\ pc' = "send"
                   /\ UNCHANGED <<result, prepared_frontend, saved>>
                \/ r.type # "Rendered" /\ Fail("unexpected")

(* The command that each call sends. *)
CommandOf(o) ==
    CASE o = "capture_state"   -> [type |-> "Capture", arg |-> None]
      [] o = "prepare_restore" -> [type |-> "PrepareRestore", arg |-> saved.worker]
      [] o = "commit_restore"  -> [type |-> "CommitRestore", arg |-> None]
      [] o = "abort_restore"   -> [type |-> "AbortRestore", arg |-> None]
      [] o = "reset"           -> [type |-> "Reset", arg |-> None]
      [] o = "drop"            -> [type |-> "Shutdown", arg |-> None]

(* Mutant: an unbounded command channel. *)
DeliverUnbounded(c) ==
    /\ wpc # "exited"
    /\ commands' = Append(commands, c)
    /\ UNCHANGED <<init, responses, workerVars>>

(* SyncSender::send blocks while the channel is full and the worker lives. *)
Deliver(c) ==
    /\ wpc # "exited"
    /\ Len(commands) < CommandCapacity
    /\ commands' = Append(commands, c)
    /\ UNCHANGED <<init, responses, workerVars>>

(* The rest of exchange: mix the chunk, fill the MIDI buffer and lend both *)
(* buffers to the worker.  A failed send loses them.                       *)
SendRender ==
    /\ pc = "send" /\ op = "exchange"
    /\ Return("ok")
    /\ UNCHANGED <<op, prepared_frontend, saved>>
    /\ \/ /\ pending_audio = None \/ ~midi_buffer
          /\ UNCHANGED <<midi_buffer, pending_audio, render_pending, channelVars, workerVars>>
       \/ /\ pending_audio # None /\ midi_buffer
          /\ midi_buffer' = FALSE /\ pending_audio' = None
          /\ \/ /\ \E m \in Midi : Deliver([type |-> "Render", arg |-> m])
                /\ render_pending' = TRUE
             \/ /\ wpc = "exited"
                /\ UNCHANGED <<render_pending, channelVars, workerVars>>

(* Mutant: the barrier does not wait for its answer. *)
SendBarrierNoWait ==
    /\ pc = "send" /\ op \in Barriers
    /\ Deliver(CommandOf(op))
    /\ Return("ok")
    /\ UNCHANGED <<op, frontVars, saved>>

(* Mutant: a send to a worker that is gone blocks. *)
SendBarrierBlind ==
    /\ pc = "send" /\ op \in Barriers
    /\ Deliver(CommandOf(op))
    /\ pc' = "await"
    /\ UNCHANGED <<op, result, frontVars, saved>>

(* send of a barrier command *)
SendBarrier ==
    /\ pc = "send" /\ op \in Barriers
    /\ \/ /\ Deliver(CommandOf(op))
          /\ pc' = "await"
          /\ UNCHANGED <<op, result, frontVars, saved>>
       \/ /\ wpc = "exited"
          /\ Fail("disconnected")
          /\ UNCHANGED <<op, channelVars, workerVars>>

(* Mutant: the worker is joined but not told to stop. *)
JoinOnly ==
    /\ pc = "send" /\ op = "drop"
    /\ pc' = "join"
    /\ UNCHANGED <<op, result, frontVars, saved, channelVars, workerVars>>

(* Drop: Shutdown is sent, its failure ignored, then the worker is joined. *)
(* The response channel is dropped only after the join.                    *)
SendShutdown ==
    /\ pc = "send" /\ op = "drop"
    /\ pc' = "join"
    /\ UNCHANGED <<op, result, frontVars, saved>>
    /\ \/ Deliver(CommandOf("drop"))
       \/ wpc = "exited" /\ UNCHANGED <<channelVars, workerVars>>

Join ==
    /\ pc = "join" /\ wpc = "exited"
    /\ pc' = "gone" /\ responses' = <<>>
    /\ UNCHANGED <<op, result, frontVars, saved, init, commands, workerVars>>

(* What each barrier does with the answer it waited for. *)
Captured(r) ==
    IF midi_buffer /\ pending_audio # None
    THEN /\ Return("ok")
         /\ saved' = [worker |-> r.arg, audio |-> pending_audio]
         /\ UNCHANGED frontVars
    ELSE Fail("in_flight")

RestorePrepared ==
    /\ Return("ok")
    /\ prepared_frontend' = saved.audio
    /\ UNCHANGED <<midi_buffer, pending_audio, render_pending, saved>>

RestoreCommitted ==
    /\ Return("ok")
    /\ midi_buffer' = TRUE /\ pending_audio' = prepared_frontend
    /\ render_pending' = FALSE /\ prepared_frontend' = None
    /\ UNCHANGED saved

(* Mutant: reset leaves the chunk rendered before it to be mixed. *)
ResetKeepsChunk ==
    /\ Return("ok")
    /\ UNCHANGED <<frontVars, saved>>

ResetComplete ==
    /\ Return("ok")
    /\ pending_audio' = IF pending_audio = None THEN None ELSE Synth0
    /\ UNCHANGED <<midi_buffer, render_pending, prepared_frontend, saved>>

Await ==
    /\ pc = "await"
    /\ \/ ReceiveFails
       \/ /\ Receive
          /\ LET r == Head(responses)
             IN \/ r.type = "Captured" /\ op = "capture_state" /\ Captured(r)
                \/ r.type = "RestorePrepared" /\ op = "prepare_restore" /\ RestorePrepared
                \/ r.type = "RestoreRefused" /\ op = "prepare_restore" /\ Fail("invalid")
                \/ r.type = "RestoreCommitted" /\ op = "commit_restore" /\ RestoreCommitted
                \/ r.type = "RestoreAborted" /\ op = "abort_restore" /\ Return("ok")
                                             /\ UNCHANGED <<frontVars, saved>>
                \/ r.type = "ResetComplete" /\ op = "reset" /\ ResetComplete
                \/ r.type \notin Answers(op) /\ Fail("unexpected")

-----------------------------------------------------------------------------
(* Worker thread.                                                          *)

Exit == wpc' = "exited" /\ commands' = <<>> /\ hand' = None

(* initialize_and_render: the ROMs load, or the error is sent, or a panic. *)
Initialize ==
    /\ wpc = "init"
    /\ \/ init' = "ok" /\ wpc' = "recv" /\ UNCHANGED <<hand, commands>>
       \/ init' = "error" /\ Exit
       \/ Panics /\ UNCHANGED init /\ Exit
    /\ UNCHANGED <<callerVars, frontVars, responses, synth, prepared>>

Respond(type, arg) == wpc' = "reply" /\ hand' = [type |-> type, arg |-> arg]

(* render_actor_main: one command. *)
DoRender(c) ==
    /\ c.type = "Render"
    /\ synth' = Advance(synth, c.arg)
    /\ Respond("Rendered", Advance(synth, c.arg))
    /\ UNCHANGED prepared

DoCapture(c) ==
    /\ c.type = "Capture"
    /\ Respond("Captured", synth)
    /\ UNCHANGED <<synth, prepared>>

(* Mutant: the candidate is validated by installing it. *)
PrepareInPlace(c) ==
    /\ c.type = "PrepareRestore"
    /\ \/ Respond("RestorePrepared", None) /\ prepared' = c.arg
       \/ Respond("RestoreRefused", None) /\ UNCHANGED prepared
    /\ synth' = c.arg

DoPrepareRestore(c) ==
    /\ c.type = "PrepareRestore"
    /\ \/ Respond("RestorePrepared", None) /\ prepared' = c.arg
       \/ Respond("RestoreRefused", None) /\ UNCHANGED prepared
    /\ UNCHANGED synth

DoCommitRestore(c) ==
    /\ c.type = "CommitRestore"
    /\ synth' = IF prepared = None THEN synth ELSE prepared
    /\ prepared' = None
    /\ Respond("RestoreCommitted", None)

DoAbortRestore(c) ==
    /\ c.type = "AbortRestore"
    /\ prepared' = None
    /\ Respond("RestoreAborted", None)
    /\ UNCHANGED synth

DoReset(c) ==
    /\ c.type = "Reset"
    /\ synth' = Synth0 /\ prepared' = None
    /\ Respond("ResetComplete", None)

Work ==
    /\ wpc = "recv" /\ commands # <<>>
    /\ LET c == Head(commands)
       IN \/ /\ commands' = Tail(commands)
             /\ \/ DoRender(c) \/ DoCapture(c) \/ DoPrepareRestore(c)
                \/ DoCommitRestore(c) \/ DoAbortRestore(c) \/ DoReset(c)
          \/ c.type = "Shutdown" /\ Exit /\ UNCHANGED <<synth, prepared>>
    /\ UNCHANGED <<callerVars, frontVars, init, responses>>

(* The response leaves once the channel has room. *)
Reply ==
    /\ wpc = "reply" /\ Len(responses) < ResponseCapacity
    /\ responses' = Append(responses, hand)
    /\ wpc' = "recv" /\ hand' = None
    /\ UNCHANGED <<callerVars, frontVars, init, commands, synth, prepared>>

(* A panic while the worker serves a command drops its channel ends. *)
Panic ==
    /\ Panics /\ wpc = "reply"
    /\ Exit
    /\ UNCHANGED <<callerVars, frontVars, init, responses, synth, prepared>>

-----------------------------------------------------------------------------
MachineStep == \/ Start \/ CompleteRender \/ SendRender \/ SendBarrier
               \/ Await \/ SendShutdown \/ Join
WorkerStep == Initialize \/ Work \/ Reply

Done == pc = "gone" /\ UNCHANGED vars

Next == Call \/ MachineStep \/ WorkerStep \/ Panic \/ Done

(* Threads are scheduled fairly: a call in progress and a worker with work *)
(* go on.  Nobody has to make a call, and the worker need not panic.       *)
Fairness == WF_vars(MachineStep) /\ WF_vars(WorkerStep)

Spec == Init /\ [][Next]_vars /\ Fairness

-----------------------------------------------------------------------------
(* Properties.                                                             *)

(* Type invariant: what each field of the handle, each channel and each    *)
(* local of the worker may hold.                                           *)
TypeOK ==
    /\ pc \in {"starting", "idle", "drain", "send", "await", "join", "gone"}
    /\ op \in Barriers \cup {"start", "exchange", "drop"}
    /\ result \in Errors \cup {"ok"}
    /\ saved \in ActorState \cup {None}
    /\ midi_buffer \in BOOLEAN /\ render_pending \in BOOLEAN
    /\ pending_audio \in Chunk /\ prepared_frontend \in Chunk
    /\ init \in {"none", "ok", "error"}
    /\ commands \in Seq(Command) /\ Len(commands) <= CommandCapacity
    /\ responses \in Seq(Response) /\ Len(responses) <= ResponseCapacity
    /\ wpc \in {"init", "recv", "reply", "exited"}
    /\ hand \in Response \cup {None}
    /\ synth \in Synth /\ prepared \in Chunk

(* How many messages of a type a channel holds: none, or exactly one. *)
NoneOf(s, t) == \A i \in 1 .. Len(s) : s[i].type # t
OneOf(s, t)  == \E i \in 1 .. Len(s) : /\ s[i].type = t
                                      /\ \A j \in 1 .. Len(s) : s[j].type = t => j = i

(* Where a lent pair of buffers is: in a queued Render, in the worker's    *)
(* hands, or in a Rendered that waits to be collected.                     *)
Rendering == wpc = "reply" /\ hand.type = "Rendered"
NotLent   == NoneOf(commands, "Render") /\ ~Rendering /\ NoneOf(responses, "Rendered")
LentOnce ==
    \/ OneOf(commands, "Render") /\ ~Rendering /\ NoneOf(responses, "Rendered")
    \/ NoneOf(commands, "Render") /\ Rendering /\ NoneOf(responses, "Rendered")
    \/ NoneOf(commands, "Render") /\ ~Rendering /\ OneOf(responses, "Rendered")

(* Buffer ownership (exchange, complete_render, commit_restore): while the *)
(* worker lives, the MIDI and audio buffers are either both at home with   *)
(* no Render anywhere in the channels, or both lent with exactly one       *)
(* Render or Rendered on its way and render_pending set.  Late answers,    *)
(* misread answers and aborted calls included.                             *)
BuffersAccounted ==
    wpc # "exited" =>
      /\ midi_buffer = (pending_audio # None)
      /\ render_pending = (pending_audio = None)
      /\ IF render_pending THEN LentOnce ELSE NotLent

(* capture_state never finds a buffer in flight: its two errors for that   *)
(* case are unreachable, because complete_render ran first and a handle    *)
(* that lost its buffers to a dead worker fails before it looks at them.   *)
CaptureFindsBuffers == result # "in_flight"

(* The two threads never wait for each other in a send (send, exchange,    *)
(* Drop against the worker's response_sender.send): when the machine       *)
(* thread is about to send, the command channel and the response channel   *)
(* are not both full with the worker holding one more answer, however many *)
(* answers came late.                                                      *)
NoSendDeadlock ==
    ~(/\ pc = "send"
      /\ Len(commands) = CommandCapacity
      /\ wpc = "reply" /\ Len(responses) = ResponseCapacity)

(* A capture describes one instant (capture_state): the worker state and   *)
(* the chunk not yet mixed that it stores belong together.                 *)
SnapshotCoherent == saved # None => saved.worker = saved.audio

(* A barrier that sends a command and returns Ok has consumed the answer   *)
(* to that command (receive): nothing it or an earlier call asked for is   *)
(* still on its way, so the worker has done what the caller was told.      *)
OkMeansAnswered ==
    /\ pc = "idle" /\ result = "ok" /\ wpc # "exited"
    /\ op \in {"capture_state", "prepare_restore", "commit_restore", "reset"}
    => Unanswered = 0

(* Every call but drop returns to the machine: blocked sends and waits end. *)
CallsReturn == (pc \in {"drain", "send", "await"}) ~> (pc \in {"idle", "join", "gone"})

(* Dropping the handle ends with the worker joined, provided no more       *)
(* answers were left uncollected than the response channel holds (Drop     *)
(* joins before the channel is dropped, so the worker must not block).     *)
DropReturns ==
    (pc = "join" /\ (wpc # "exited" => Unanswered <= ResponseCapacity + 1)) ~> (pc = "gone")

(* The refinement mapping: a chunk counts as rendered once it is ordered. *)
LogicalSynth ==
    IF commands # <<>> /\ Head(commands).type = "Render"
    THEN Advance(synth, Head(commands).arg)
    ELSE synth

Service == INSTANCE RenderService WITH
             state    <- LogicalSynth,
             snapshot <- IF saved = None THEN None ELSE saved.worker,
             staged   <- prepared

(* When every answer comes in time, the actor (all of thread.rs) behaves   *)
(* like the atomic object that RenderService describes.                    *)
ImplementsService == Service!Spec

=============================================================================
