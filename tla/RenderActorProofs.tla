-------------------------- MODULE RenderActorProofs --------------------------
(***************************************************************************)
(* Proofs about RenderActor, for every set of synthesizer states and MIDI  *)
(* batches and for every capacity of the two channels, with a worker that  *)
(* may panic; answers may come late unless a theorem assumes Late = FALSE. *)
(***************************************************************************)
EXTENDS RenderActor, TLAPS

(* Type correctness is inductive together with two facts that the code     *)
(* relies on: a worker that replies holds a response, and a restore that   *)
(* runs was given a state.                                                 *)
HandFull     == wpc = "reply" => hand \in Response
StateAtHand  == pc \in {"drain", "send", "await"} /\ op = "prepare_restore" => saved # None
TypeInv      == TypeOK /\ HandFull /\ StateAtHand

(* Init establishes the type invariant. *)
LEMMA InitType == Init => TypeInv
  <1> SUFFICES ASSUME Init PROVE TypeInv
    OBVIOUS
  <1>1. commands \in Seq(Command) /\ Len(commands) <= CommandCapacity
    BY ChannelAssumption DEF Init
  <1>2. responses \in Seq(Response) /\ Len(responses) <= ResponseCapacity
    BY ChannelAssumption DEF Init
  <1>3. QED
    BY <1>1, <1>2, SynthAssumption
    DEF Init, TypeInv, TypeOK, HandFull, StateAtHand, Errors, Chunk, Barriers

(* Every command that a call sends is well formed. *)
LEMMA CommandOfType ==
  ASSUME TypeInv, pc = "send", NEW o \in Barriers \cup {"drop"}, o = op
  PROVE  CommandOf(o) \in Command
  BY SynthAssumption DEF TypeInv, TypeOK, StateAtHand, CommandOf, Command, ActorState, Barriers

(* The calls, none of which touches a channel. *)
LEMMA CallType == TypeInv /\ Call => TypeInv'
  <1> SUFFICES ASSUME TypeInv, Call PROVE TypeInv'
    OBVIOUS
  <1> USE DEF TypeInv, TypeOK, HandFull, StateAtHand, Barriers, Errors, Chunk,
              frontVars, callerVars, channelVars, workerVars
  <1>1. CASE CallExchange
    BY <1>1 DEF CallExchange, Begin
  <1>2. CASE CallCapture
    BY <1>2 DEF CallCapture, Begin, Reject, Return
  <1>3. CASE CallPrepare
    BY <1>3 DEF CallPrepare, Begin, Reject, Return
  <1>4. CASE CallCommit
    BY <1>4 DEF CallCommit, Reject, Return
  <1>5. CASE CallAbort
    BY <1>5 DEF CallAbort, Reject, Return
  <1>6. CASE CallReset
    BY <1>6 DEF CallReset, Begin, Reject, Return
  <1>7. CASE CallDrop
    BY <1>7 DEF CallDrop
  <1> QED BY <1>1, <1>2, <1>3, <1>4, <1>5, <1>6, <1>7 DEF Call

(* A response leaves the channel: the tail is well typed, the head is one. *)
LEMMA ReceiveType ==
  ASSUME TypeInv, responses # <<>>
  PROVE  /\ Head(responses) \in Response
         /\ Tail(responses) \in Seq(Response)
         /\ Len(Tail(responses)) = Len(responses) - 1
  BY DEF TypeInv, TypeOK

(* The steps inside a call. *)
LEMMA MachineType == TypeInv /\ MachineStep => TypeInv'
  <1> SUFFICES ASSUME TypeInv, MachineStep PROVE TypeInv'
    OBVIOUS
  <1> USE DEF TypeInv, TypeOK, HandFull, StateAtHand, Barriers, Errors, Chunk,
              frontVars, callerVars, channelVars, workerVars
  <1>1. CASE Start
    BY <1>1 DEF Start, Return
  <1>2. CASE CompleteRender
    <2>1. CASE ReceiveFails
      BY <1>2, <2>1 DEF CompleteRender, ReceiveFails, Fail, Return, FrontendAfterError
    <2>2. CASE Receive
      <3>1. /\ Head(responses) \in Response
            /\ responses' \in Seq(Response) /\ Len(responses') <= ResponseCapacity
        BY <2>2, ReceiveType, ChannelAssumption DEF Receive
      <3>2. CASE Head(responses).type = "Rendered"
        <4>1. Head(responses).arg \in Synth
          BY <3>1, <3>2 DEF Response
        <4> QED BY <1>2, <2>2, <3>1, <3>2, <4>1 DEF CompleteRender, Receive, ReceiveFails
      <3>3. CASE Head(responses).type # "Rendered"
        BY <1>2, <2>2, <3>1, <3>3
        DEF CompleteRender, Receive, ReceiveFails, Fail, Return, FrontendAfterError
      <3> QED BY <3>2, <3>3
    <2> QED BY <1>2, <2>1, <2>2 DEF CompleteRender
  <1>3. CASE SendRender
    <2>1. CASE \E m \in Midi : Deliver([type |-> "Render", arg |-> m])
      <3> PICK m \in Midi : Deliver([type |-> "Render", arg |-> m])
        BY <2>1
      <3>1. [type |-> "Render", arg |-> m] \in Command
        BY DEF Command
      <3>2. commands' \in Seq(Command) /\ Len(commands') <= CommandCapacity
        BY <3>1, ChannelAssumption DEF Deliver
      <3> QED BY <1>3, <3>2 DEF SendRender, Deliver, Return
    <2>2. CASE UNCHANGED <<channelVars, workerVars>>
      BY <1>3, <2>2 DEF SendRender, Return
    <2> QED BY <1>3, <2>1, <2>2 DEF SendRender
  <1>4. CASE SendBarrier
    <2>1. CASE Deliver(CommandOf(op))
      <3>1. commands' \in Seq(Command) /\ Len(commands') <= CommandCapacity
        BY <1>4, <2>1, CommandOfType, ChannelAssumption DEF Deliver, SendBarrier
      <3> QED BY <1>4, <2>1, <3>1 DEF SendBarrier, Deliver, Fail, Return, FrontendAfterError
    <2>2. CASE UNCHANGED <<channelVars, workerVars>>
      BY <1>4, <2>2 DEF SendBarrier, Fail, Return, FrontendAfterError, Deliver
    <2> QED BY <1>4, <2>1, <2>2 DEF SendBarrier
  <1>5. CASE Await
    <2>1. CASE ReceiveFails
      BY <1>5, <2>1 DEF Await, ReceiveFails, Fail, Return, FrontendAfterError
    <2>2. CASE Receive
      <3>1. /\ Head(responses) \in Response
            /\ responses' \in Seq(Response) /\ Len(responses') <= ResponseCapacity
        BY <2>2, ReceiveType, ChannelAssumption DEF Receive
      <3>2. PICK r \in Response : r = Head(responses)
        BY <3>1
      <3>3. CASE op = "capture_state" /\ r.type = "Captured" /\ Captured(r)
        BY <1>5, <2>2, <3>1, <3>3
        DEF Await, Receive, Captured, Fail, Return, FrontendAfterError, Response, ActorState
      <3>4. CASE op = "prepare_restore" /\ RestorePrepared
        BY <1>5, <2>2, <3>1, <3>4 DEF Await, Receive, RestorePrepared, Return, ActorState
      <3>5. CASE op = "commit_restore" /\ RestoreCommitted
        BY <1>5, <2>2, <3>1, <3>5 DEF Await, Receive, RestoreCommitted, Return
      <3>6. CASE op = "abort_restore" /\ Return("ok") /\ UNCHANGED <<frontVars, saved>>
        BY <1>5, <2>2, <3>1, <3>6 DEF Await, Receive, Return
      <3>7. CASE op = "reset" /\ ResetComplete
        BY <1>5, <2>2, <3>1, <3>7, SynthAssumption DEF Await, Receive, ResetComplete, Return
      <3>8. CASE \E e \in {"invalid", "unexpected"} : Fail(e)
        BY <1>5, <2>2, <3>1, <3>8 DEF Await, Receive, Fail, Return, FrontendAfterError
      <3>9. \/ op = "capture_state" /\ r.type = "Captured" /\ Captured(r)
            \/ op = "prepare_restore" /\ RestorePrepared
            \/ op = "commit_restore" /\ RestoreCommitted
            \/ op = "abort_restore" /\ Return("ok") /\ UNCHANGED <<frontVars, saved>>
            \/ op = "reset" /\ ResetComplete
            \/ \E e \in {"invalid", "unexpected"} : Fail(e)
        BY <1>5, <2>2, <3>2, Zenon DEF Await, Receive, ReceiveFails
      <3> QED BY <3>3, <3>4, <3>5, <3>6, <3>7, <3>8, <3>9, Zenon
    <2> QED BY <1>5, <2>1, <2>2 DEF Await
  <1>6. CASE SendShutdown
    <2>1. CASE Deliver(CommandOf("drop"))
      <3>1. commands' \in Seq(Command) /\ Len(commands') <= CommandCapacity
        BY <1>6, <2>1, CommandOfType, ChannelAssumption DEF Deliver, SendShutdown
      <3> QED BY <1>6, <2>1, <3>1 DEF SendShutdown, Deliver
    <2>2. CASE UNCHANGED <<channelVars, workerVars>>
      BY <1>6, <2>2 DEF SendShutdown
    <2> QED BY <1>6, <2>1, <2>2 DEF SendShutdown
  <1>7. CASE Join
    BY <1>7, ChannelAssumption DEF Join
  <1> QED BY <1>1, <1>2, <1>3, <1>4, <1>5, <1>6, <1>7 DEF MachineStep

(* The steps of the worker. *)
LEMMA WorkerType == TypeInv /\ (WorkerStep \/ Panic) => TypeInv'
  <1> SUFFICES ASSUME TypeInv, WorkerStep \/ Panic PROVE TypeInv'
    OBVIOUS
  <1> USE DEF TypeInv, TypeOK, HandFull, StateAtHand, Barriers, Chunk,
              frontVars, callerVars, channelVars, workerVars
  <1>1. CASE Initialize
    <2>1. commands' = commands \/ commands' = <<>>
      BY <1>1 DEF Initialize, Exit
    <2>2. commands' \in Seq(Command) /\ Len(commands') <= CommandCapacity
      <3>1. CASE commands' = commands
        BY <3>1
      <3>2. CASE commands' = <<>>
        BY <3>2, ChannelAssumption
      <3> QED BY <2>1, <3>1, <3>2
    <2> QED BY <1>1, <2>2 DEF Initialize, Exit
  <1>2. CASE Work
    <2>1. /\ Head(commands) \in Command /\ Tail(commands) \in Seq(Command)
          /\ Len(Tail(commands)) = Len(commands) - 1
      BY <1>2 DEF Work
    <2>2. PICK c \in Command : c = Head(commands)
      BY <2>1
    <2>3. CASE commands' = Tail(commands)
      <3>1. commands' \in Seq(Command) /\ Len(commands') <= CommandCapacity
        BY <2>1, <2>3, ChannelAssumption
      <3>2. CASE DoRender(c)
        <4>1. synth' \in Synth /\ hand' \in Response
          BY <3>2, SynthAssumption DEF DoRender, Respond, Command, Response
        <4> QED BY <1>2, <3>1, <3>2, <4>1 DEF Work, DoRender, Respond
      <3>3. CASE DoCapture(c)
        <4>1. hand' \in Response
          BY <3>3 DEF DoCapture, Respond, Response
        <4> QED BY <1>2, <3>1, <3>3, <4>1 DEF Work, DoCapture, Respond
      <3>4. CASE DoPrepareRestore(c)
        <4>1. prepared' \in Chunk /\ hand' \in Response
          BY <3>4 DEF DoPrepareRestore, Respond, Command, Response
        <4> QED BY <1>2, <3>1, <3>4, <4>1 DEF Work, DoPrepareRestore, Respond
      <3>5. CASE DoCommitRestore(c)
        <4>1. synth' \in Synth /\ hand' \in Response
          BY <3>5 DEF DoCommitRestore, Respond, Response
        <4> QED BY <1>2, <3>1, <3>5, <4>1 DEF Work, DoCommitRestore, Respond
      <3>6. CASE DoAbortRestore(c)
        <4>1. hand' \in Response
          BY <3>6 DEF DoAbortRestore, Respond, Response
        <4> QED BY <1>2, <3>1, <3>6, <4>1 DEF Work, DoAbortRestore, Respond
      <3>7. CASE DoReset(c)
        <4>1. synth' \in Synth /\ hand' \in Response
          BY <3>7, SynthAssumption DEF DoReset, Respond, Response
        <4> QED BY <1>2, <3>1, <3>7, <4>1 DEF Work, DoReset, Respond
      <3>8. CASE Exit /\ UNCHANGED <<synth, prepared>>
        BY <1>2, <3>1, <3>8, ChannelAssumption DEF Work, Exit
      <3> QED BY <1>2, <2>2, <3>2, <3>3, <3>4, <3>5, <3>6, <3>7, <3>8 DEF Work
    <2>4. CASE Exit /\ UNCHANGED <<synth, prepared>>
      BY <1>2, <2>4, ChannelAssumption DEF Work, Exit
    <2> QED BY <1>2, <2>3, <2>4 DEF Work
  <1>3. CASE Reply
    <2>1. responses' \in Seq(Response) /\ Len(responses') <= ResponseCapacity
      BY <1>3, ChannelAssumption DEF Reply
    <2> QED BY <1>3, <2>1 DEF Reply
  <1>4. CASE Panic
    BY <1>4, ChannelAssumption DEF Panic, Exit
  <1> QED BY <1>1, <1>2, <1>3, <1>4 DEF WorkerStep

(* The type invariant is inductive. *)
LEMMA StepType == TypeInv /\ [Next]_vars => TypeInv'
  <1>1. TypeInv /\ UNCHANGED vars => TypeInv'
    BY DEF TypeInv, TypeOK, HandFull, StateAtHand, vars, frontVars, callerVars,
           channelVars, workerVars
  <1> QED BY <1>1, CallType, MachineType, WorkerType DEF Next, Done

(* The render actor is type correct: every field of the handle, every      *)
(* message in a channel and every local of the worker keeps its type, and  *)
(* no channel exceeds its capacity.                                        *)
THEOREM TypeCorrect == Spec => []TypeOK
  <1>1. Spec => []TypeInv
    BY InitType, StepType, PTL DEF Spec
  <1> QED BY <1>1, PTL DEF TypeInv

-----------------------------------------------------------------------------
(* Messages of one type in a channel, as messages come and go.             *)

(* An empty channel holds no message of any type. *)
LEMMA NoneOfEmpty == \A t : NoneOf(<<>>, t)
  BY DEF NoneOf

(* Sending a message of another type adds none of this type. *)
LEMMA NoneOfAppend ==
  ASSUME NEW S, NEW s \in Seq(S), NEW e \in S, NEW t, NoneOf(s, t), e.type # t
  PROVE  NoneOf(Append(s, e), t)
  BY DEF NoneOf

(* The first message of a type that is sent is the only one. *)
LEMMA OneOfAppend ==
  ASSUME NEW S, NEW s \in Seq(S), NEW e \in S, NEW t, NoneOf(s, t), e.type = t
  PROVE  OneOf(Append(s, e), t)
  <1>1. Append(s, e)[Len(s) + 1].type = t /\ Len(s) + 1 \in 1 .. Len(Append(s, e))
    OBVIOUS
  <1>2. \A j \in 1 .. Len(Append(s, e)) : Append(s, e)[j].type = t => j = Len(s) + 1
    BY DEF NoneOf
  <1> QED BY <1>1, <1>2 DEF OneOf

(* Sending a message of another type leaves the only one alone. *)
LEMMA OneOfKeptByAppend ==
  ASSUME NEW S, NEW s \in Seq(S), NEW e \in S, NEW t, OneOf(s, t), e.type # t
  PROVE  OneOf(Append(s, e), t)
  <1>1. PICK i \in 1 .. Len(s) : /\ s[i].type = t
                                /\ \A j \in 1 .. Len(s) : s[j].type = t => j = i
    BY DEF OneOf
  <1>2. Append(s, e)[i].type = t /\ i \in 1 .. Len(Append(s, e))
    BY <1>1
  <1>3. \A j \in 1 .. Len(Append(s, e)) : Append(s, e)[j].type = t => j = i
    BY <1>1
  <1> QED BY <1>2, <1>3 DEF OneOf

(* Receiving takes the only message of a type away, or none. *)
LEMMA NoneOfTail ==
  ASSUME NEW S, NEW s \in Seq(S), s # <<>>, NEW t,
         NoneOf(s, t) \/ (OneOf(s, t) /\ Head(s).type = t)
  PROVE  NoneOf(Tail(s), t)
  <1>1. CASE NoneOf(s, t)
    BY <1>1 DEF NoneOf
  <1>2. CASE OneOf(s, t) /\ Head(s).type = t
    <2>1. \A j \in 1 .. Len(s) : s[j].type = t => j = 1
      BY <1>2 DEF OneOf
    <2> QED BY <2>1 DEF NoneOf
  <1> QED BY <1>1, <1>2

(* Receiving a message of another type leaves the only one alone. *)
LEMMA OneOfTail ==
  ASSUME NEW S, NEW s \in Seq(S), s # <<>>, NEW t, OneOf(s, t), Head(s).type # t
  PROVE  OneOf(Tail(s), t)
  <1>1. PICK i \in 1 .. Len(s) : /\ s[i].type = t
                                /\ \A j \in 1 .. Len(s) : s[j].type = t => j = i
    BY DEF OneOf
  <1>2. i # 1
    BY <1>1
  <1>3. i - 1 \in 1 .. Len(Tail(s)) /\ Tail(s)[i - 1].type = t
    BY <1>1, <1>2
  <1>4. \A j \in 1 .. Len(Tail(s)) : Tail(s)[j].type = t => j = i - 1
    BY <1>1
  <1> QED BY <1>3, <1>4 DEF OneOf

(* A channel without messages of a type does not deliver one. *)
LEMMA HeadNotNone ==
  ASSUME NEW S, NEW s \in Seq(S), s # <<>>, NEW t, NoneOf(s, t)
  PROVE  Head(s).type # t
  BY DEF NoneOf

(* A channel with exactly one message of a type is not without. *)
LEMMA OneNotNone ==
  ASSUME NEW S, NEW s \in Seq(S), NEW t, OneOf(s, t)
  PROVE  ~NoneOf(s, t)
  BY DEF NoneOf, OneOf

-----------------------------------------------------------------------------
(* Buffer ownership.                                                       *)

(* What a call relies on while it runs: the calls that collect a pending   *)
(* chunk never meet a prepared restore, no barrier is under way with a     *)
(* chunk outstanding, commit still holds what prepare left it, and a call  *)
(* that waits for its answer has both buffers at home.                     *)
Draining == {"exchange", "capture_state", "prepare_restore", "reset"}
CallInv ==
    /\ pc = "drain" => op \in Draining
    /\ pc = "await" => op \in Barriers /\ midi_buffer /\ pending_audio # None
    /\ pc \in {"send", "await"} /\ op # "drop" => ~render_pending
    /\ pc \in {"drain", "send", "await"} /\ op \in Draining => prepared_frontend = None
    /\ pc \in {"send", "await"} /\ op = "commit_restore" => prepared_frontend # None
    /\ prepared_frontend # None => ~render_pending
    /\ result # "in_flight"

BufferInv == TypeInv /\ CallInv /\ BuffersAccounted

(* Init establishes the buffer invariant. *)
LEMMA InitBuffers == Init => BufferInv
  <1> SUFFICES ASSUME Init PROVE BufferInv
    OBVIOUS
  <1>1. NotLent
    BY NoneOfEmpty DEF Init, NotLent, Rendering
  <1> QED BY <1>1, InitType, SynthAssumption DEF Init, BufferInv, CallInv, BuffersAccounted

(* A step that leaves the buffers, the channels and the worker alone keeps *)
(* the accounts.                                                           *)
LEMMA BuffersUnchanged ==
  ASSUME BuffersAccounted, UNCHANGED <<midi_buffer, pending_audio, render_pending>>,
         UNCHANGED <<commands, responses, wpc, hand>>
  PROVE  BuffersAccounted'
  BY DEF BuffersAccounted, LentOnce, NotLent, Rendering, NoneOf, OneOf

(* The accounts do not matter once the worker is gone. *)
LEMMA BuffersAfterExit == wpc' = "exited" => BuffersAccounted'
  BY DEF BuffersAccounted

(* Calls keep the buffer invariant. *)
LEMMA CallBuffers == BufferInv /\ Call => BufferInv'
  <1> SUFFICES ASSUME BufferInv, Call PROVE CallInv' /\ BuffersAccounted'
    BY CallType DEF BufferInv
  <1> USE DEF BufferInv, TypeInv, TypeOK, CallInv, Draining, Barriers,
              frontVars, channelVars, workerVars
  <1>1. BuffersAccounted'
    <2>1. /\ UNCHANGED <<midi_buffer, pending_audio, render_pending>>
          /\ UNCHANGED <<commands, responses, wpc, hand>>
      BY DEF Call, CallExchange, CallCapture, CallPrepare, CallCommit, CallAbort,
             CallReset, CallDrop, Begin, Reject, Return
    <2> QED BY <2>1, BuffersUnchanged
  <1>2. CASE CallExchange
    BY <1>1, <1>2 DEF CallExchange, Begin
  <1>3. CASE CallCapture
    BY <1>1, <1>3 DEF CallCapture, Begin, Reject, Return
  <1>4. CASE CallPrepare
    BY <1>1, <1>4 DEF CallPrepare, Begin, Reject, Return
  <1>5. CASE CallCommit
    BY <1>1, <1>5 DEF CallCommit, Reject, Return
  <1>6. CASE CallAbort
    BY <1>1, <1>6 DEF CallAbort, Reject, Return
  <1>7. CASE CallReset
    BY <1>1, <1>7 DEF CallReset, Begin, Reject, Return
  <1>8. CASE CallDrop
    BY <1>1, <1>8 DEF CallDrop
  <1> QED BY <1>2, <1>3, <1>4, <1>5, <1>6, <1>7, <1>8 DEF Call

(* The worker's steps keep the buffer invariant. *)
LEMMA WorkerBuffers == BufferInv /\ (WorkerStep \/ Panic) => BufferInv'
  <1> SUFFICES ASSUME BufferInv, WorkerStep \/ Panic PROVE CallInv' /\ BuffersAccounted'
    BY WorkerType DEF BufferInv
  <1>1. CallInv'
    BY DEF BufferInv, CallInv, WorkerStep, Initialize, Work, Reply, Panic,
           callerVars, frontVars
  <1>2. CASE Initialize
    <2>1. CASE wpc' = "exited"
      BY <2>1, <1>1, BuffersAfterExit
    <2>2. CASE wpc' # "exited"
      BY <1>1, <1>2, <2>2 DEF Initialize, Exit, BufferInv, BuffersAccounted, LentOnce,
         NotLent, Rendering, frontVars
    <2> QED BY <2>1, <2>2
  <1>3. CASE Work
    <2> DEFINE c == Head(commands)
    <2>1. CASE wpc' = "exited"
      BY <2>1, <1>1, BuffersAfterExit
    <2>2. CASE wpc' # "exited"
      <3>1. /\ wpc = "recv" /\ commands # <<>> /\ commands' = Tail(commands)
            /\ UNCHANGED <<midi_buffer, pending_audio, render_pending, responses>>
            /\ wpc' = "reply"
            /\ \/ c.type = "Render" /\ hand'.type = "Rendered"
               \/ c.type # "Render" /\ hand'.type # "Rendered"
        BY <1>3, <2>2 DEF Work, Exit, DoRender, DoCapture, DoPrepareRestore,
           DoCommitRestore, DoAbortRestore, DoReset, Respond, frontVars
      <3>2. commands \in Seq(Command) /\ responses \in Seq(Response)
        BY DEF BufferInv, TypeInv, TypeOK
      <3>3. CASE c.type = "Render"
        <4>1. LentOnce /\ render_pending
          BY <3>1, <3>2, <3>3, HeadNotNone DEF BufferInv, BuffersAccounted, NotLent
        <4>2. OneOf(commands, "Render") /\ NoneOf(responses, "Rendered")
          BY <3>1, <3>2, <3>3, <4>1, HeadNotNone DEF LentOnce, Rendering
        <4>3. NoneOf(commands', "Render")
          BY <3>1, <3>2, <3>3, <4>2, NoneOfTail
        <4>4. LentOnce'
          BY <3>1, <3>3, <4>2, <4>3 DEF LentOnce, Rendering, NoneOf
        <4> QED BY <1>1, <3>1, <4>1, <4>4 DEF BufferInv, BuffersAccounted
      <3>4. CASE c.type # "Render"
        <4>1. NoneOf(commands, "Render") => NoneOf(commands', "Render")
          BY <3>1, <3>2, NoneOfTail
        <4>2. OneOf(commands, "Render") => OneOf(commands', "Render")
          BY <3>1, <3>2, <3>4, OneOfTail
        <4>3. ~Rendering /\ ~Rendering'
          BY <3>1, <3>4 DEF Rendering
        <4>4. responses' = responses
          BY <3>1
        <4>5. (NotLent => NotLent') /\ (LentOnce => LentOnce')
          BY <4>1, <4>2, <4>3, <4>4 DEF LentOnce, NotLent
        <4> QED BY <1>1, <3>1, <4>5 DEF BufferInv, BuffersAccounted
      <3> QED BY <3>3, <3>4
    <2> QED BY <2>1, <2>2
  <1>4. CASE Reply
    <2>1. /\ wpc = "reply" /\ wpc' = "recv" /\ responses' = Append(responses, hand)
          /\ UNCHANGED <<midi_buffer, pending_audio, render_pending, commands>>
      BY <1>4 DEF Reply, frontVars
    <2>2. responses \in Seq(Response) /\ hand \in Response
      BY <2>1 DEF BufferInv, TypeInv, TypeOK, HandFull
    <2>3. ~Rendering'
      BY <2>1 DEF Rendering
    <2>4. CASE hand.type = "Rendered"
      <3>1. NoneOf(responses, "Rendered") => OneOf(responses', "Rendered")
        BY <2>1, <2>2, <2>4, OneOfAppend
      <3>2. Rendering
        BY <2>1, <2>4 DEF Rendering
      <3>3. ~NotLent /\ (LentOnce => LentOnce')
        BY <2>1, <2>3, <3>1, <3>2 DEF NotLent, LentOnce
      <3> QED BY <1>1, <2>1, <3>3 DEF BufferInv, BuffersAccounted
    <2>5. CASE hand.type # "Rendered"
      <3>1. NoneOf(responses, "Rendered") => NoneOf(responses', "Rendered")
        BY <2>1, <2>2, <2>5, NoneOfAppend
      <3>2. OneOf(responses, "Rendered") => OneOf(responses', "Rendered")
        BY <2>1, <2>2, <2>5, OneOfKeptByAppend
      <3>3. (NotLent => NotLent') /\ (LentOnce => LentOnce')
        BY <2>1, <2>3, <2>5, <3>1, <3>2 DEF NotLent, LentOnce, Rendering
      <3> QED BY <1>1, <2>1, <3>3 DEF BufferInv, BuffersAccounted
    <2> QED BY <2>4, <2>5
  <1>5. CASE Panic
    BY <1>1, <1>5, BuffersAfterExit DEF Panic, Exit
  <1> QED BY <1>2, <1>3, <1>4, <1>5 DEF WorkerStep

(* The steps inside a call keep the buffer invariant. *)
LEMMA MachineBuffers == BufferInv /\ MachineStep => BufferInv'
  <1> SUFFICES ASSUME BufferInv, MachineStep PROVE CallInv' /\ BuffersAccounted'
    BY MachineType DEF BufferInv
  <1>0. /\ commands \in Seq(Command) /\ responses \in Seq(Response)
        /\ midi_buffer \in BOOLEAN /\ render_pending \in BOOLEAN
    BY DEF BufferInv, TypeInv, TypeOK
  <1>1. CASE Start
    <2>1. CallInv'
      BY <1>1 DEF Start, Return, BufferInv, CallInv, frontVars
    <2> QED BY <1>1, <2>1, BuffersUnchanged
            DEF Start, BufferInv, frontVars, channelVars, workerVars
  <1>2. CASE ReceiveFails /\ (CompleteRender \/ Await)
    <2>1. CallInv'
      BY <1>2 DEF ReceiveFails, Fail, Return, FrontendAfterError, BufferInv, CallInv
    <2>2. BuffersAccounted'
      BY <1>2, BuffersUnchanged DEF ReceiveFails, Fail, BufferInv, channelVars, workerVars
    <2> QED BY <2>1, <2>2
  <1>3. CASE Receive /\ CompleteRender
    <2>1. /\ responses # <<>> /\ responses' = Tail(responses) /\ pc = "drain"
          /\ UNCHANGED <<op, commands, wpc, hand>>
      BY <1>3 DEF Receive, CompleteRender, workerVars
    <2>2. ~Rendering' <=> ~Rendering
      BY <2>1 DEF Rendering
    <2>3. CASE Head(responses).type = "Rendered"
      <3>1. /\ midi_buffer' = TRUE /\ pending_audio' \in Synth
            /\ render_pending' = FALSE /\ pc' = "send"
            /\ UNCHANGED <<result, prepared_frontend>>
        BY <1>0, <1>3, <2>1, <2>3 DEF CompleteRender, ReceiveFails, Response
      <3>2. CallInv'
        BY <2>1, <3>1 DEF BufferInv, CallInv, Draining
      <3>3. wpc # "exited" => NotLent'
        <4> SUFFICES ASSUME wpc # "exited" PROVE NotLent'
          OBVIOUS
        <4>1. ~NoneOf(responses, "Rendered")
          BY <1>0, <2>1, <2>3, HeadNotNone
        <4>2. LentOnce
          BY <4>1 DEF BufferInv, BuffersAccounted, NotLent
        <4>3. NoneOf(commands, "Render") /\ ~Rendering /\ OneOf(responses, "Rendered")
          BY <4>1, <4>2 DEF LentOnce
        <4>4. NoneOf(responses', "Rendered")
          BY <1>0, <2>1, <2>3, <4>3, NoneOfTail
        <4> QED BY <2>1, <2>2, <4>3, <4>4 DEF NotLent
      <3> QED BY <2>1, <3>1, <3>2, <3>3, SynthAssumption DEF BuffersAccounted
    <2>4. CASE Head(responses).type # "Rendered"
      <3>1. /\ Fail("unexpected")
        BY <1>3, <2>1, <2>4 DEF CompleteRender, ReceiveFails
      <3>2. CallInv'
        BY <2>1, <3>1 DEF Fail, Return, FrontendAfterError, BufferInv, CallInv, Draining
      <3>3. (NotLent => NotLent') /\ (LentOnce => LentOnce')
        BY <1>0, <2>1, <2>2, <2>4, NoneOfTail, OneOfTail DEF NotLent, LentOnce
      <3> QED BY <2>1, <3>1, <3>2, <3>3 DEF Fail, BufferInv, BuffersAccounted
    <2> QED BY <2>3, <2>4
  <1>4. CASE SendRender
    <2>1. CallInv'
      BY <1>4 DEF SendRender, Return, BufferInv, CallInv, Draining
    <2>2. CASE UNCHANGED <<midi_buffer, pending_audio, render_pending, channelVars, workerVars>>
      BY <2>1, <2>2, BuffersUnchanged DEF BufferInv, channelVars, workerVars
    <2>3. CASE wpc = "exited"
      <3>1. wpc' = "exited"
        BY <1>4, <2>3 DEF SendRender, Deliver, workerVars
      <3> QED BY <2>1, <3>1, BuffersAfterExit
    <2>4. ASSUME NEW m \in Midi, Deliver([type |-> "Render", arg |-> m]),
                 midi_buffer, pending_audio # None, render_pending' = TRUE,
                 midi_buffer' = FALSE, pending_audio' = None
          PROVE  BuffersAccounted'
      <3>1. /\ wpc # "exited" /\ UNCHANGED <<responses, wpc, hand>>
            /\ commands' = Append(commands, [type |-> "Render", arg |-> m])
        BY <2>4 DEF Deliver, workerVars
      <3>2. NotLent
        BY <2>4, <3>1 DEF BufferInv, BuffersAccounted
      <3>3. [type |-> "Render", arg |-> m] \in Command
        BY DEF Command
      <3>4. OneOf(commands', "Render")
        BY <1>0, <3>1, <3>2, <3>3, OneOfAppend DEF NotLent
      <3>5. LentOnce'
        BY <3>1, <3>2, <3>4 DEF LentOnce, NotLent, Rendering
      <3> QED BY <2>4, <3>5 DEF BuffersAccounted
    <2> QED BY <1>4, <2>1, <2>2, <2>3, <2>4 DEF SendRender
  <1>5. CASE SendBarrier
    <2>1. CASE wpc = "exited"
      <3>1. Fail("disconnected") /\ UNCHANGED <<op, channelVars, workerVars>> /\ pc = "send"
        BY <1>5, <2>1 DEF SendBarrier, Deliver
      <3>2. CallInv'
        BY <3>1 DEF Fail, Return, FrontendAfterError, BufferInv, CallInv, Draining
      <3> QED BY <2>1, <3>1, <3>2, BuffersAfterExit DEF workerVars
    <2>2. CASE wpc # "exited"
      <3>1. /\ Deliver(CommandOf(op)) /\ pc = "send" /\ op \in Barriers /\ pc' = "await"
            /\ UNCHANGED <<op, result, frontVars>>
        BY <1>5, <2>2 DEF SendBarrier
      <3>2. ~render_pending /\ midi_buffer /\ pending_audio # None
        BY <1>0, <2>2, <3>1 DEF BufferInv, CallInv, BuffersAccounted, Barriers
      <3>3. CallInv'
        BY <3>1, <3>2 DEF BufferInv, CallInv, Draining, frontVars
      <3>4. CommandOf(op) \in Command /\ CommandOf(op).type # "Render"
        <4>1. CommandOf(op) \in Command
          BY <3>1, CommandOfType DEF BufferInv
        <4>2. CommandOf(op).type # "Render"
          BY <3>1 DEF CommandOf, Barriers
        <4> QED BY <4>1, <4>2
      <3>5. NotLent
        BY <2>2, <3>2 DEF BufferInv, BuffersAccounted
      <3>6. NotLent'
        BY <1>0, <3>1, <3>4, <3>5, NoneOfAppend DEF NotLent, Rendering, Deliver, workerVars
      <3>7. midi_buffer' = TRUE /\ pending_audio' # None /\ render_pending' = FALSE
        BY <1>0, <3>1, <3>2 DEF frontVars
      <3> QED BY <3>3, <3>6, <3>7 DEF BuffersAccounted
    <2> QED BY <2>1, <2>2
  <1>6. CASE Receive /\ Await
    <2>1. /\ responses # <<>> /\ responses' = Tail(responses) /\ pc = "await"
          /\ UNCHANGED <<op, commands, wpc, hand>>
      BY <1>6 DEF Receive, Await, workerVars
    <2>2. ~render_pending /\ midi_buffer /\ pending_audio # None
      BY <2>1 DEF BufferInv, CallInv, Barriers
    <2>3. wpc # "exited" => NotLent'
      BY <1>0, <2>1, <2>2, NoneOfTail DEF BufferInv, BuffersAccounted, NotLent, Rendering
    <2> DEFINE r == Head(responses)
    <2>4. /\ midi_buffer' = TRUE /\ pending_audio' # None /\ render_pending' = FALSE
          /\ pc' = "idle" /\ result' # "in_flight"
      <3>1. CASE Captured(r)
        BY <1>0, <2>2, <3>1 DEF Captured, Return, frontVars
      <3>2. CASE RestorePrepared
        BY <1>0, <2>2, <3>2 DEF RestorePrepared, Return
      <3>3. CASE op = "commit_restore" /\ RestoreCommitted
        BY <2>1, <3>3 DEF RestoreCommitted, Return, BufferInv, CallInv
      <3>4. CASE Return("ok") /\ UNCHANGED <<frontVars, saved>>
        BY <1>0, <2>2, <3>4 DEF Return, frontVars
      <3>5. CASE ResetComplete
        BY <1>0, <2>2, <3>5, SynthAssumption DEF ResetComplete, Return
      <3>6. CASE Fail("invalid") \/ Fail("unexpected")
        BY <1>0, <2>2, <3>6 DEF Fail, Return
      <3> QED BY <1>6, <2>1, <3>1, <3>2, <3>3, <3>4, <3>5, <3>6, Zenon
              DEF Await, ReceiveFails
    <2>5. CallInv'
      BY <2>4 DEF CallInv
    <2> QED BY <2>1, <2>3, <2>4, <2>5 DEF BuffersAccounted
  <1>7. CASE SendShutdown
    <2>1. CallInv'
      BY <1>7 DEF SendShutdown, BufferInv, CallInv, frontVars
    <2>2. CASE UNCHANGED <<channelVars, workerVars>>
      BY <1>7, <2>1, <2>2, BuffersUnchanged
      DEF SendShutdown, BufferInv, frontVars, channelVars, workerVars
    <2>3. CASE Deliver(CommandOf("drop"))
      <3>1. CommandOf("drop") \in Command /\ CommandOf("drop").type # "Render"
        BY SynthAssumption DEF CommandOf, Command
      <3>2. (NotLent => NotLent') /\ (LentOnce => LentOnce')
        BY <1>0, <2>3, <3>1, NoneOfAppend, OneOfKeptByAppend
        DEF Deliver, workerVars, NotLent, LentOnce, Rendering
      <3> QED BY <1>7, <2>1, <2>3, <3>2
              DEF SendShutdown, Deliver, BufferInv, BuffersAccounted, frontVars, workerVars
    <2> QED BY <1>7, <2>2, <2>3 DEF SendShutdown
  <1>8. CASE Join
    <2>1. CallInv'
      BY <1>8 DEF Join, BufferInv, CallInv, frontVars
    <2> QED BY <1>8, <2>1, BuffersAfterExit DEF Join, workerVars
  <1> QED BY <1>1, <1>2, <1>3, <1>4, <1>5, <1>6, <1>7, <1>8
          DEF MachineStep, CompleteRender, Await

(* The buffer invariant is inductive. *)
LEMMA StepBuffers == BufferInv /\ [Next]_vars => BufferInv'
  <1>1. BufferInv /\ UNCHANGED vars => BufferInv'
    <2> SUFFICES ASSUME BufferInv, UNCHANGED vars PROVE BufferInv'
      OBVIOUS
    <2>1. CallInv'
      BY DEF BufferInv, CallInv, vars, frontVars, callerVars
    <2>2. BuffersAccounted'
      BY BuffersUnchanged DEF BufferInv, vars, frontVars, channelVars, workerVars
    <2> QED BY <2>1, <2>2, StepType DEF BufferInv
  <1> QED BY <1>1, CallBuffers, MachineBuffers, WorkerBuffers DEF Next, Done

(* No buffer is lost or duplicated: exchange, complete_render and          *)
(* commit_restore keep the two buffers in exactly one place while the      *)
(* worker lives, whatever answers come late.                               *)
THEOREM BuffersAreAccounted == Spec => []BuffersAccounted
  <1>1. Spec => []BufferInv
    BY InitBuffers, StepBuffers, PTL DEF Spec
  <1> QED BY <1>1, PTL DEF BufferInv

(* The in-flight errors of capture_state are unreachable. *)
THEOREM CaptureAlwaysFindsBuffers == Spec => []CaptureFindsBuffers
  <1>1. BufferInv => CaptureFindsBuffers
    BY DEF BufferInv, CallInv, CaptureFindsBuffers
  <1>2. Spec => []BufferInv
    BY InitBuffers, StepBuffers, PTL DEF Spec
  <1> QED BY <1>1, <1>2, PTL

-----------------------------------------------------------------------------
(* The number of commands and answers on their way.                        *)

(* A call adds at most one to what is uncollected, and takes one away      *)
(* unless it gave up on an empty channel, when at most the commands and    *)
(* the answer in the worker's hands are left.                              *)
CountInv ==
    /\ pc = "starting" => Unanswered = 0
    /\ pc = "idle" => Unanswered <= CommandCapacity + (IF render_pending THEN 2 ELSE 1)
    /\ pc \in {"drain", "await"} => Unanswered <= CommandCapacity + 2
    /\ pc = "send" => Unanswered <= CommandCapacity + (IF op = "drop" THEN 2 ELSE 1)

ChannelInv == BufferInv /\ CountInv

(* The count is a number, and how the channels' lengths make it up. *)
LEMMA CountType ==
  ASSUME TypeInv
  PROVE  /\ Unanswered \in Nat /\ Len(responses) \in Nat /\ Len(commands) \in Nat
         /\ wpc = "reply" => Unanswered = Len(responses) + 1 + Len(commands)
         /\ wpc # "reply" => Unanswered = Len(responses) + Len(commands)
         /\ Len(commands) <= CommandCapacity
         /\ CommandCapacity \in Nat
  BY ChannelAssumption DEF TypeInv, TypeOK, Unanswered

(* Init establishes the bound. *)
LEMMA InitCount == Init => ChannelInv
  <1> SUFFICES ASSUME Init PROVE CountInv
    BY InitBuffers DEF ChannelInv
  <1> QED BY DEF Init, CountInv, Unanswered

(* The worker answers one command at a time, so it never adds to what is   *)
(* uncollected.                                                            *)
LEMMA WorkerCount ==
  ASSUME TypeInv, TypeInv', WorkerStep \/ Panic
  PROVE  Unanswered' <= Unanswered
  <1>0. /\ commands \in Seq(Command)
        /\ Len(commands) \in Nat /\ Len(responses) \in Nat
        /\ hand \in Response \/ wpc # "reply"
        /\ responses \in Seq(Response)
    BY CountType DEF TypeInv, TypeOK, HandFull
  <1>1. CASE Exit /\ UNCHANGED responses
    BY <1>0, <1>1 DEF Exit, Unanswered
  <1>2. CASE Initialize /\ wpc' # "exited"
    BY <1>0, <1>2 DEF Initialize, Exit, Unanswered
  <1>3. CASE Work /\ wpc' # "exited"
    <2>1. /\ wpc = "recv" /\ wpc' = "reply" /\ responses' = responses
          /\ commands # <<>> /\ commands' = Tail(commands)
      BY <1>3 DEF Work, Exit, DoRender, DoCapture, DoPrepareRestore, DoCommitRestore,
                  DoAbortRestore, DoReset, Respond
    <2> QED BY <1>0, <2>1 DEF Unanswered
  <1>4. CASE Reply
    <2>1. /\ wpc = "reply" /\ wpc' = "recv" /\ commands' = commands
          /\ responses' = Append(responses, hand)
      BY <1>4 DEF Reply
    <2> QED BY <1>0, <2>1 DEF Unanswered
  <1>5. Initialize \/ Work \/ Panic =>
          \/ Exit /\ UNCHANGED responses
          \/ Initialize /\ wpc' # "exited"
          \/ Work /\ wpc' # "exited"
    BY DEF Initialize, Work, Panic, Exit, DoRender, DoCapture, DoPrepareRestore,
           DoCommitRestore, DoAbortRestore, DoReset, Respond
  <1> QED BY <1>1, <1>2, <1>3, <1>4, <1>5 DEF WorkerStep

(* Every step keeps the bound. *)
LEMMA StepCount == ChannelInv /\ [Next]_vars => ChannelInv'
  <1> SUFFICES ASSUME ChannelInv, [Next]_vars PROVE CountInv'
    BY StepBuffers DEF ChannelInv
  <1>0. TypeInv /\ TypeInv' /\ BufferInv /\ CountInv
    BY StepBuffers DEF ChannelInv, BufferInv
  <1>a. /\ Unanswered \in Nat /\ Unanswered' \in Nat /\ CommandCapacity \in Nat
        /\ render_pending \in BOOLEAN /\ responses \in Seq(Response)
        /\ commands \in Seq(Command)
    <2>1. Unanswered' \in Nat
      BY <1>0 DEF Unanswered, TypeInv, TypeOK
    <2> QED BY <1>0, <2>1, CountType DEF TypeInv, TypeOK
  <1>1. CASE WorkerStep \/ Panic
    <2>1. Unanswered' <= Unanswered
      BY <1>0, <1>1, WorkerCount
    <2>2. UNCHANGED <<pc, op, render_pending>>
      BY <1>1 DEF WorkerStep, Initialize, Work, Reply, Panic, callerVars, frontVars
    <2> QED BY <1>0, <1>a, <2>1, <2>2 DEF CountInv
  <1>2. CASE Call
    <2>1. /\ pc = "idle" /\ UNCHANGED <<render_pending, channelVars, workerVars>>
          /\ \/ pc' = "idle"
             \/ pc' = "drain"
             \/ pc' = "send" /\ op' # "drop" /\ ~render_pending
             \/ pc' = "send" /\ op' = "drop"
      BY <1>0, <1>2 DEF Call, CallExchange, CallCapture, CallPrepare, CallCommit,
         CallAbort, CallReset, CallDrop, Begin, Reject, Return, frontVars,
         BufferInv, CallInv
    <2>2. Unanswered' = Unanswered
      BY <2>1 DEF Unanswered, channelVars, workerVars
    <2> QED BY <1>0, <1>a, <2>1, <2>2 DEF CountInv
  <1>3. CASE ReceiveFails /\ (CompleteRender \/ Await)
    <2>1. /\ responses = <<>> /\ pc' = "idle" /\ render_pending' = render_pending
          /\ UNCHANGED <<channelVars, workerVars>>
      BY <1>3 DEF ReceiveFails, Fail, Return
    <2>2. Unanswered <= CommandCapacity + 1
      BY <1>0, <2>1, CountType
    <2>3. Unanswered' = Unanswered
      BY <2>1 DEF Unanswered, channelVars, workerVars
    <2> QED BY <1>a, <2>1, <2>2, <2>3 DEF CountInv
  <1>4. CASE Receive /\ (CompleteRender \/ Await)
    <2>1. /\ responses # <<>> /\ responses' = Tail(responses)
          /\ UNCHANGED <<op, commands, wpc>>
          /\ pc \in {"drain", "await"}
      BY <1>4 DEF Receive, CompleteRender, Await, workerVars
    <2>2. pc' = "idle" \/ (pc = "drain" /\ pc' = "send")
      BY <1>4, <2>1 DEF CompleteRender, Await, ReceiveFails, Captured, RestorePrepared,
         RestoreCommitted, ResetComplete, Fail, Return
    <2>3. Unanswered' = Unanswered - 1
      BY <1>a, <2>1 DEF Unanswered
    <2>4. op = "drop" => pc # "drain"
      BY <1>0 DEF BufferInv, CallInv, Draining
    <2>5. Unanswered' <= CommandCapacity + 1
      BY <1>0, <1>a, <2>1, <2>3 DEF CountInv
    <2> QED BY <1>a, <2>1, <2>2, <2>4, <2>5 DEF CountInv
  <1>5. ASSUME NEW c, Deliver(c), pc = "send", op # "drop",
               \/ pc' = "await"
               \/ pc' = "idle" /\ render_pending' = TRUE
        PROVE  CountInv'
    <2>1. Len(commands') = Len(commands) + 1
      BY <1>5, <1>a DEF Deliver
    <2>2. Unanswered' = Unanswered + 1
      <3>1. responses' = responses /\ wpc' = wpc
        BY <1>5 DEF Deliver, workerVars
      <3>2. Len(responses) \in Nat /\ Len(commands) \in Nat
        BY <1>a
      <3>3. CASE wpc = "reply"
        <4>1. /\ Unanswered = Len(responses) + 1 + Len(commands)
              /\ Unanswered' = Len(responses) + 1 + Len(commands')
          BY <3>1, <3>3 DEF Unanswered
        <4> QED BY <2>1, <3>2, <4>1
      <3>4. CASE wpc # "reply"
        <4>1. /\ Unanswered = Len(responses) + 0 + Len(commands)
              /\ Unanswered' = Len(responses) + 0 + Len(commands')
          BY <3>1, <3>4 DEF Unanswered
        <4> QED BY <2>1, <3>2, <4>1
      <3> QED BY <3>3, <3>4
    <2>3. Unanswered' <= CommandCapacity + 2
      BY <1>0, <1>5, <1>a, <2>2 DEF CountInv
    <2> QED BY <1>5, <1>a, <2>3 DEF CountInv
  <1>6. CASE /\ UNCHANGED <<channelVars, workerVars>>
             /\ \/ pc' \in {"join", "gone"}
                \/ pc = "starting" /\ pc' = "idle"
                \/ pc = "send" /\ op # "drop" /\ pc' = "idle"
    <2>1. Unanswered' = Unanswered
      BY <1>6 DEF Unanswered, channelVars, workerVars
    <2> QED BY <1>0, <1>6, <1>a, <2>1 DEF CountInv
  <1>7. CASE MachineStep
    <2>1. CASE Start
      BY <1>6, <2>1 DEF Start, Return
    <2>2. CASE SendRender
      BY <1>5, <1>6, <2>2 DEF SendRender, Return
    <2>3. CASE SendBarrier
      BY <1>5, <1>6, <2>3 DEF SendBarrier, Fail, Return, Barriers
    <2>4. CASE SendShutdown \/ Join
      BY <2>4 DEF SendShutdown, Join, CountInv
    <2> QED BY <1>3, <1>4, <1>7, <2>1, <2>2, <2>3, <2>4
            DEF MachineStep, CompleteRender, Await
  <1>8. CASE UNCHANGED vars
    <2>1. Unanswered' = Unanswered /\ UNCHANGED <<pc, op, render_pending>>
      BY <1>8 DEF vars, callerVars, frontVars, channelVars, workerVars, Unanswered
    <2> QED BY <1>0, <2>1 DEF CountInv
  <1> QED BY <1>1, <1>2, <1>7, <1>8 DEF Next, Done

(* The machine thread and the worker never block each other in their       *)
(* sends, for all capacities with at least two responses, as in the code   *)
(* (start: sync_channel(2)).                                               *)
THEOREM SendsDoNotDeadlock ==
  ASSUME ResponseCapacity >= 2
  PROVE  Spec => []NoSendDeadlock
  <1>1. ChannelInv => NoSendDeadlock
    <2> SUFFICES ASSUME ChannelInv, pc = "send", Len(commands) = CommandCapacity,
                        wpc = "reply", Len(responses) = ResponseCapacity
                 PROVE  FALSE
      BY DEF NoSendDeadlock
    <2>1. Unanswered = ResponseCapacity + 1 + CommandCapacity
      BY CountType, ChannelAssumption DEF ChannelInv, BufferInv
    <2>2. Unanswered <= CommandCapacity + 2
      BY CountType, ChannelAssumption DEF ChannelInv, BufferInv, CountInv
    <2> QED BY <2>1, <2>2, ChannelAssumption
  <1>2. Spec => []ChannelInv
    BY InitCount, StepCount, PTL DEF Spec
  <1> QED BY <1>1, <1>2, PTL

-----------------------------------------------------------------------------
(* Answers that come in time.  At most one request is then on its way, and *)
(* SyncInv follows it: as a command in the channel, or as the answer that  *)
(* the worker holds or has sent; and it says what the handle and the       *)
(* worker agree on before the request, and after it.                       *)

Msg(t, a) == [type |-> t, arg |-> a]

Quiet   == commands = <<>> /\ responses = <<>> /\ wpc # "reply"
Sent(c) == commands = <<c>> /\ responses = <<>> /\ wpc # "reply"
Replied(r) ==
    /\ commands = <<>>
    /\ \/ wpc = "reply" /\ hand = r /\ responses = <<>>
       \/ wpc # "reply" /\ responses = <<r>>

RenderOrdered == (\E m \in Midi : Sent(Msg("Render", m))) \/ Replied(Msg("Rendered", synth))

\* The chunk not yet mixed is the last one that the synthesizer rendered.
Settled == Quiet /\ pending_audio = synth

\* The handle and the worker hold the two parts of one prepared restore.
Agreed == prepared = prepared_frontend

AwaitCapture ==
    /\ op = "capture_state" /\ pending_audio = synth /\ prepared = None
    /\ Sent(Msg("Capture", None)) \/ Replied(Msg("Captured", synth))
AwaitPrepare ==
    /\ op = "prepare_restore" /\ pending_audio = synth
    /\ \/ prepared = None /\ Sent(Msg("PrepareRestore", saved.worker))
       \/ prepared = None /\ Replied(Msg("RestoreRefused", None))
       \/ prepared = saved.worker /\ Replied(Msg("RestorePrepared", None))
AwaitCommit ==
    /\ op = "commit_restore"
    /\ \/ Agreed /\ Sent(Msg("CommitRestore", None))
       \/ prepared = None /\ synth = prepared_frontend /\ Replied(Msg("RestoreCommitted", None))
AwaitAbort ==
    /\ op = "abort_restore" /\ pending_audio = synth /\ prepared_frontend = None
    /\ \/ prepared # None /\ Sent(Msg("AbortRestore", None))
       \/ prepared = None /\ Replied(Msg("RestoreAborted", None))
AwaitReset ==
    /\ op = "reset" /\ prepared = None
    /\ Sent(Msg("Reset", None)) \/ (synth = Synth0 /\ Replied(Msg("ResetComplete", None)))

AliveInv ==
    /\ wpc = "init" => pc = "starting" /\ init = "none"
    /\ pc = "starting" => Settled /\ Agreed
    /\ pc = "idle" \/ (pc = "send" /\ op = "drop") =>
          Agreed /\ IF render_pending THEN RenderOrdered ELSE Settled
    /\ pc = "drain" => RenderOrdered /\ Agreed
    /\ pc = "send" /\ op # "drop" =>
          /\ Settled
          /\ IF op = "abort_restore" THEN prepared # None /\ prepared_frontend = None ELSE Agreed
    /\ pc = "await" => AwaitCapture \/ AwaitPrepare \/ AwaitCommit \/ AwaitAbort \/ AwaitReset
    /\ pc = "join" => \A i \in 1 .. Len(commands) :
          commands[i].type = "Shutdown" \/ (i = 1 /\ commands[i].type = "Render" /\ wpc # "reply")
    /\ pc # "gone"

SyncInv ==
    /\ wpc # "exited" => AliveInv
    /\ wpc = "exited" => commands = <<>> /\ (pc # "join" => responses = <<>>)

ServeInv == BufferInv /\ SnapshotCoherent /\ SyncInv

(* A channel with one message. *)
LEMMA OneMessage ==
  ASSUME NEW m
  PROVE  /\ Append(<<>>, m) = <<m>> /\ Tail(<<m>>) = <<>> /\ Head(<<m>>) = m /\ <<m>> # <<>>
         /\ Len(<<m>>) = 1 /\ <<m>>[1] = m
  OBVIOUS

LEMMA InitSync == Init => ServeInv
  <1> SUFFICES ASSUME Init PROVE SnapshotCoherent /\ SyncInv
    BY InitBuffers DEF ServeInv
  <1> QED BY DEF Init, SnapshotCoherent, SyncInv, AliveInv, Settled, Quiet, Agreed

(* What the requests and the agreement are made of. *)
LEMMA SyncFrame ==
  ASSUME UNCHANGED <<commands, responses, wpc, hand, synth, prepared>>
  PROVE  /\ Quiet' = Quiet /\ RenderOrdered' = RenderOrdered
         /\ \A c : Sent(c)' = Sent(c)
         /\ \A r : Replied(r)' = Replied(r)
         /\ pending_audio' = pending_audio => Settled' = Settled
         /\ prepared_frontend' = prepared_frontend => Agreed' = Agreed
  BY DEF Quiet, RenderOrdered, Sent, Replied, Settled, Agreed

LEMMA CallSync ==
  ASSUME ServeInv, Call
  PROVE  SnapshotCoherent' /\ SyncInv'
  <1>1. /\ UNCHANGED <<init, commands, responses, wpc, hand, synth, prepared>>
        /\ UNCHANGED <<pending_audio, render_pending, saved>> /\ pc = "idle"
    BY DEF Call, CallExchange, CallCapture, CallPrepare, CallCommit, CallAbort,
           CallReset, CallDrop, Begin, Reject, Return, frontVars, channelVars, workerVars
  <1>2. SnapshotCoherent'
    BY <1>1 DEF ServeInv, SnapshotCoherent
  <1>3. CASE wpc = "exited"
    <2>1. pc' # "join"
      BY DEF Call, CallExchange, CallCapture, CallPrepare, CallCommit, CallAbort,
             CallReset, CallDrop, Begin, Reject, Return
    <2> QED BY <1>1, <1>2, <1>3, <2>1 DEF ServeInv, SyncInv
  <1>4. CASE wpc # "exited"
    <2>1. Agreed /\ IF render_pending THEN RenderOrdered ELSE Settled
      BY <1>1, <1>4 DEF ServeInv, SyncInv, AliveInv
    <2>2. /\ pc' \in {"idle", "drain", "send"}
          /\ pc' = "drain" => render_pending
          /\ pc' = "send" /\ op' # "drop" => ~render_pending
          /\ IF pc' = "send" /\ op' = "abort_restore"
             THEN prepared_frontend # None /\ prepared_frontend' = None
             ELSE prepared_frontend' = prepared_frontend
      BY <1>1 DEF ServeInv, BufferInv, CallInv, TypeInv, TypeOK, Call, CallExchange, CallCapture,
             CallPrepare, CallCommit, CallAbort, CallReset, CallDrop, Begin, Reject, Return,
             frontVars
    <2>3. wpc # "init"
      BY <1>1, <1>4 DEF ServeInv, SyncInv, AliveInv
    <2>4. /\ Settled' = Settled /\ RenderOrdered' = RenderOrdered
          /\ prepared_frontend' = prepared_frontend => Agreed' = Agreed
      BY <1>1, SyncFrame
    <2>5. pc' = "send" /\ op' = "abort_restore" => prepared # None
      BY <2>1, <2>2 DEF Agreed
    <2> QED BY <1>1, <1>2, <1>4, <2>1, <2>2, <2>3, <2>4, <2>5 DEF SyncInv, AliveInv
  <1> QED BY <1>3, <1>4

(* The worker takes the one command in the channel. *)
LEMMA WorkOnce ==
  ASSUME Work, NEW t, NEW a, t # "Shutdown", Sent(Msg(t, a))
  PROVE  /\ commands' = <<>> /\ responses' = <<>> /\ wpc' = "reply"
         /\ \/ DoRender(Msg(t, a)) \/ DoCapture(Msg(t, a)) \/ DoPrepareRestore(Msg(t, a))
            \/ DoCommitRestore(Msg(t, a)) \/ DoAbortRestore(Msg(t, a)) \/ DoReset(Msg(t, a))
  <1> DEFINE c == Msg(t, a)
  <1>1. Head(commands) = c /\ Tail(commands) = <<>> /\ c.type = t
    BY OneMessage DEF Sent, Msg
  <1>2. DoRender(c) \/ DoCapture(c) \/ DoPrepareRestore(c) \/ DoCommitRestore(c)
        \/ DoAbortRestore(c) \/ DoReset(c)
    BY <1>1 DEF Work
  <1>3. commands' = <<>> /\ responses' = responses
    BY <1>1 DEF Work, Exit
  <1> HIDE DEF c
  <1>4. wpc' = "reply"
    BY <1>2 DEF DoRender, DoCapture, DoPrepareRestore, DoCommitRestore, DoAbortRestore, DoReset, Respond
  <1> QED BY <1>2, <1>3, <1>4 DEF Sent, c

(* What it does with each, and what it answers. *)
LEMMA WorkAnswers ==
  ASSUME Work, NEW t, NEW a, t # "Shutdown", Sent(Msg(t, a))
  PROVE  /\ t = "Render" => /\ synth' = Advance(synth, a) /\ prepared' = prepared
                            /\ Replied(Msg("Rendered", synth))'
         /\ t = "Capture" => synth' = synth /\ prepared' = prepared /\ Replied(Msg("Captured", synth))'
         /\ t = "PrepareRestore" =>
               /\ synth' = synth
               /\ \/ prepared' = a /\ Replied(Msg("RestorePrepared", None))'
                  \/ prepared' = prepared /\ Replied(Msg("RestoreRefused", None))'
         /\ t = "CommitRestore" => /\ synth' = (IF prepared = None THEN synth ELSE prepared)
                                   /\ prepared' = None /\ Replied(Msg("RestoreCommitted", None))'
         /\ t = "AbortRestore" => /\ synth' = synth /\ prepared' = None
                                  /\ Replied(Msg("RestoreAborted", None))'
         /\ t = "Reset" => synth' = Synth0 /\ prepared' = None /\ Replied(Msg("ResetComplete", None))'
  <1>1. Msg(t, a).type = t /\ Msg(t, a).arg = a
    BY DEF Msg
  <1>2. \A r : hand' = r => Replied(r)'
    BY WorkOnce DEF Replied
  <1>3. CASE DoRender(Msg(t, a))
    BY <1>1, <1>2, <1>3, WorkOnce DEF DoRender, Respond, Msg, Replied
  <1>4. CASE DoCapture(Msg(t, a))
    BY <1>1, <1>4, WorkOnce DEF DoCapture, Respond, Msg, Replied
  <1>5. CASE DoPrepareRestore(Msg(t, a))
    BY <1>1, <1>5, WorkOnce DEF DoPrepareRestore, Respond, Msg, Replied
  <1>6. CASE DoCommitRestore(Msg(t, a))
    BY <1>1, <1>6, WorkOnce DEF DoCommitRestore, Respond, Msg, Replied
  <1>7. CASE DoAbortRestore(Msg(t, a))
    BY <1>1, <1>7, WorkOnce DEF DoAbortRestore, Respond, Msg, Replied
  <1>8. CASE DoReset(Msg(t, a))
    BY <1>1, <1>8, WorkOnce DEF DoReset, Respond, Msg, Replied
  <1> QED BY <1>3, <1>4, <1>5, <1>6, <1>7, <1>8, WorkOnce

(* The answer leaves the worker's hands. *)
LEMMA ReplyOnce ==
  ASSUME Reply, NEW r, Replied(r)
  PROVE  Replied(r)'
  <1>1. /\ wpc = "reply" /\ hand = r /\ responses = <<>> /\ commands = <<>>
        /\ responses' = Append(<<>>, r) /\ wpc' = "recv" /\ commands' = <<>>
    BY DEF Reply, Replied
  <1>2. Append(<<>>, r) = <<r>>
    BY OneMessage
  <1> QED BY <1>1, <1>2 DEF Replied

LEMMA WorkerSync ==
  ASSUME ServeInv, WorkerStep \/ Panic
  PROVE  SnapshotCoherent' /\ SyncInv'
  <1>0. UNCHANGED <<pc, op, result, saved, midi_buffer, pending_audio, render_pending, prepared_frontend>>
    BY DEF WorkerStep, Initialize, Work, Reply, Panic, callerVars, frontVars
  <1>1. SnapshotCoherent'
    BY <1>0 DEF ServeInv, SnapshotCoherent
  <1> SUFFICES SyncInv'
    BY <1>1
  <1>2. wpc # "exited" /\ AliveInv
    BY DEF WorkerStep, Initialize, Work, Reply, Panic, ServeInv, SyncInv
  <1>3. CASE Initialize
    <2>1. pc = "starting" /\ Settled /\ Agreed
      BY <1>2, <1>3 DEF Initialize, AliveInv
    <2>2. CASE wpc' = "exited"
      BY <1>0, <1>3, <2>1, <2>2 DEF Initialize, Exit, SyncInv, Settled, Quiet
    <2>3. CASE wpc' # "exited"
      BY <1>0, <1>3, <2>1, <2>3 DEF Initialize, Exit, SyncInv, AliveInv, Settled, Quiet, Agreed
    <2> QED BY <2>2, <2>3
  <1>4. CASE Work
    <2>0. wpc = "recv" /\ commands # <<>>
      BY <1>4 DEF Work
    <2>1. CASE pc = "join"
      <3>1. commands \in Seq(Command)
        BY DEF ServeInv, BufferInv, TypeInv, TypeOK
      <3>2. CASE wpc' = "exited"
        BY <1>0, <1>4, <2>1, <3>2 DEF Work, Exit, DoRender, DoCapture, DoPrepareRestore,
           DoCommitRestore, DoAbortRestore, DoReset, Respond, SyncInv
      <3>3. CASE wpc' # "exited"
        <4>1. commands' = Tail(commands) /\ wpc' = "reply"
          BY <1>4, <3>3 DEF Work, Exit, DoRender, DoCapture, DoPrepareRestore,
             DoCommitRestore, DoAbortRestore, DoReset, Respond
        <4>2. \A i \in 1 .. Len(commands') : commands'[i].type = "Shutdown"
          BY <1>2, <2>0, <2>1, <3>1, <4>1 DEF AliveInv
        <4> QED BY <1>0, <2>1, <3>3, <4>1, <4>2 DEF SyncInv, AliveInv
      <3> QED BY <3>2, <3>3
    <2>2. CASE pc \in {"idle", "send", "drain"}
      <3>1. RenderOrdered /\ Agreed /\ (pc = "send" => op = "drop") /\ (pc = "idle" => render_pending)
            /\ (pc = "send" => render_pending)
        BY <1>2, <2>0, <2>2 DEF AliveInv, Settled, Quiet
      <3>2. PICK m \in Midi : Sent(Msg("Render", m))
        BY <2>0, <3>1 DEF RenderOrdered, Replied
      <3>3. prepared' = prepared /\ Replied(Msg("Rendered", synth))' /\ wpc' = "reply"
        BY <1>4, <3>2, WorkAnswers, WorkOnce
      <3>4. RenderOrdered' /\ Agreed'
        BY <1>0, <3>1, <3>3 DEF RenderOrdered, Agreed
      <3> QED BY <1>0, <2>2, <3>1, <3>3, <3>4 DEF SyncInv, AliveInv
    <2>3. CASE pc = "await"
      <3>0. \A r : ~Replied(r)
        BY <2>0 DEF Replied
      <3>1. ASSUME AwaitCapture PROVE AwaitCapture'
        <4>1. Sent(Msg("Capture", None))
          BY <3>0, <3>1 DEF AwaitCapture
        <4>2. synth' = synth /\ prepared' = prepared /\ Replied(Msg("Captured", synth))' /\ wpc' = "reply"
          BY <1>4, <4>1, WorkAnswers, WorkOnce
        <4> QED BY <1>0, <3>1, <4>2 DEF AwaitCapture
      <3>2. ASSUME AwaitPrepare PROVE AwaitPrepare'
        <4>1. Sent(Msg("PrepareRestore", saved.worker)) /\ prepared = None
          BY <3>0, <3>2 DEF AwaitPrepare
        <4>2. /\ synth' = synth
              /\ \/ prepared' = saved.worker /\ Replied(Msg("RestorePrepared", None))'
                 \/ prepared' = None /\ Replied(Msg("RestoreRefused", None))'
          BY <1>4, <4>1, WorkAnswers
        <4> QED BY <1>0, <3>2, <4>2 DEF AwaitPrepare
      <3>3. ASSUME AwaitCommit PROVE AwaitCommit'
        <4>1. Sent(Msg("CommitRestore", None)) /\ Agreed /\ op = "commit_restore"
          BY <3>0, <3>3 DEF AwaitCommit
        <4>2. prepared_frontend # None
          BY <2>3, <4>1 DEF ServeInv, BufferInv, CallInv
        <4>3. /\ synth' = prepared_frontend /\ prepared' = None
              /\ Replied(Msg("RestoreCommitted", None))'
          BY <1>4, <4>1, <4>2, WorkAnswers DEF Agreed
        <4> QED BY <1>0, <4>1, <4>3 DEF AwaitCommit
      <3>4. ASSUME AwaitAbort PROVE AwaitAbort'
        <4>1. Sent(Msg("AbortRestore", None))
          BY <3>0, <3>4 DEF AwaitAbort
        <4>2. synth' = synth /\ prepared' = None /\ Replied(Msg("RestoreAborted", None))'
          BY <1>4, <4>1, WorkAnswers
        <4> QED BY <1>0, <3>4, <4>2 DEF AwaitAbort
      <3>5. ASSUME AwaitReset PROVE AwaitReset'
        <4>1. Sent(Msg("Reset", None))
          BY <3>0, <3>5 DEF AwaitReset
        <4>2. synth' = Synth0 /\ prepared' = None /\ Replied(Msg("ResetComplete", None))'
          BY <1>4, <4>1, WorkAnswers
        <4> QED BY <1>0, <3>5, <4>2 DEF AwaitReset
      <3>6. AwaitCapture' \/ AwaitPrepare' \/ AwaitCommit' \/ AwaitAbort' \/ AwaitReset'
        BY <1>2, <2>3, <3>1, <3>2, <3>3, <3>4, <3>5 DEF AliveInv
      <3>7. commands' = <<>> /\ responses' = <<>> /\ wpc' = "reply"
        <4>1. \E t, a : t # "Shutdown" /\ Sent(Msg(t, a))
          BY <1>2, <2>3, <3>0 DEF AliveInv, AwaitCapture, AwaitPrepare, AwaitCommit, AwaitAbort, AwaitReset
        <4> QED BY <1>4, <4>1, WorkOnce
      <3> QED BY <1>0, <2>3, <3>6, <3>7 DEF SyncInv, AliveInv
    <2>4. pc \notin {"starting", "gone"}
      BY <1>2, <2>0 DEF AliveInv, Settled, Quiet
    <2> QED BY <2>1, <2>2, <2>3, <2>4 DEF ServeInv, BufferInv, TypeInv, TypeOK
  <1>5. CASE Reply
    <2>1. wpc = "reply" /\ wpc' = "recv" /\ UNCHANGED <<commands, synth, prepared>>
      BY <1>5 DEF Reply
    <2>2. \A r : Replied(r) => Replied(r)'
      BY <1>5, ReplyOnce
    <2>3. ~Quiet /\ \A c : ~Sent(c)
      BY <2>1 DEF Quiet, Sent
    <2>4. RenderOrdered => RenderOrdered'
      <3>1. RenderOrdered => Replied(Msg("Rendered", synth))
        BY <2>3 DEF RenderOrdered
      <3>2. Replied(Msg("Rendered", synth)) => Replied(Msg("Rendered", synth))'
        BY <2>1, <2>2
      <3> QED BY <3>1, <3>2 DEF RenderOrdered
    <2>5. Agreed' = Agreed /\ ~Settled
      BY <1>0, <2>1, <2>3 DEF Agreed, Settled
    <2>6. AwaitCapture \/ AwaitPrepare \/ AwaitCommit \/ AwaitAbort \/ AwaitReset =>
             AwaitCapture' \/ AwaitPrepare' \/ AwaitCommit' \/ AwaitAbort' \/ AwaitReset'
      <3>1. AwaitCapture => AwaitCapture'
        BY <1>0, <2>1, <2>2, <2>3 DEF AwaitCapture
      <3>2. AwaitPrepare => AwaitPrepare'
        BY <1>0, <2>1, <2>2, <2>3 DEF AwaitPrepare
      <3>3. AwaitCommit => AwaitCommit'
        BY <1>0, <2>1, <2>2, <2>3 DEF AwaitCommit
      <3>4. AwaitAbort => AwaitAbort'
        BY <1>0, <2>1, <2>2, <2>3 DEF AwaitAbort
      <3>5. AwaitReset => AwaitReset'
        BY <1>0, <2>1, <2>2, <2>3 DEF AwaitReset
      <3> QED BY <3>1, <3>2, <3>3, <3>4, <3>5
    <2> QED BY <1>0, <1>2, <2>1, <2>4, <2>5, <2>6 DEF SyncInv, AliveInv
  <1>6. CASE Panic
    <2>1. wpc = "reply" /\ wpc' = "exited" /\ commands' = <<>> /\ responses' = responses
      BY <1>6 DEF Panic, Exit
    <2>2. pc # "join" => responses = <<>>
      <3>1. \A r : Replied(r) => responses = <<>>
        BY <2>1 DEF Replied
      <3>2. (\A c : Sent(c) => responses = <<>>) /\ (Quiet => responses = <<>>)
        BY DEF Sent, Quiet
      <3>3. RenderOrdered \/ Settled => responses = <<>>
        BY <3>1, <3>2 DEF RenderOrdered, Settled
      <3>4. AwaitCapture \/ AwaitPrepare \/ AwaitCommit \/ AwaitAbort \/ AwaitReset => responses = <<>>
        BY <3>1, <3>2 DEF AwaitCapture, AwaitPrepare, AwaitCommit, AwaitAbort, AwaitReset
      <3> QED BY <1>2, <3>3, <3>4 DEF AliveInv, ServeInv, BufferInv, TypeInv, TypeOK
    <2> QED BY <1>0, <2>1, <2>2 DEF SyncInv
  <1> QED BY <1>3, <1>4, <1>5, <1>6 DEF WorkerStep

(* A call that receives collects the one answer to what was asked. *)
LEMMA ReceiveOnce ==
  ASSUME Receive, NEW r, Replied(r)
  PROVE  /\ wpc # "reply" /\ Head(responses) = r
         /\ commands' = <<>> /\ responses' = <<>> /\ Quiet'
         /\ UNCHANGED <<op, wpc, hand, synth, prepared>>
  <1>1. /\ responses # <<>> /\ responses' = Tail(responses) /\ commands' = commands
        /\ UNCHANGED <<op, wpc, hand, synth, prepared>>
    BY DEF Receive, workerVars
  <1>2. wpc # "reply" /\ responses = <<r>> /\ commands = <<>>
    BY <1>1 DEF Replied
  <1>3. Head(<<r>>) = r /\ Tail(<<r>>) = <<>>
    BY OneMessage
  <1> QED BY <1>1, <1>2, <1>3 DEF Quiet

(* A command that finds the channels empty is the only one in them. *)
LEMMA DeliverOnce ==
  ASSUME Quiet, NEW c, Deliver(c)
  PROVE  /\ commands' = <<c>> /\ responses' = <<>> /\ wpc # "reply" /\ wpc' = wpc
         /\ UNCHANGED <<synth, prepared>>
  <1>1. commands' = Append(<<>>, c) /\ responses' = <<>> /\ wpc' = wpc /\ UNCHANGED <<synth, prepared>>
    BY DEF Quiet, Deliver, workerVars
  <1>2. Append(<<>>, c) = <<c>>
    BY OneMessage
  <1> QED BY <1>1, <1>2 DEF Quiet

(* When the worker is gone a call takes no answer and sends nothing. *)
LEMMA ExitedSync ==
  ASSUME ServeInv, MachineStep, wpc = "exited"
  PROVE  SnapshotCoherent' /\ SyncInv'
  <1>1. commands = <<>> /\ (pc # "join" => responses = <<>>)
    BY DEF ServeInv, SyncInv
  <1>2. CASE CompleteRender \/ Await
    <2>1. ReceiveFails
      BY <1>1, <1>2 DEF CompleteRender, Await, Receive
    <2> QED BY <1>1, <1>2, <2>1 DEF ReceiveFails, Fail, Return, CompleteRender, Await, ServeInv,
            SyncInv, SnapshotCoherent, channelVars, workerVars
  <1>3. CASE Start
    BY <1>1, <1>3 DEF Start, Return, ServeInv, SyncInv, SnapshotCoherent, channelVars, workerVars
  <1>4. CASE SendRender
    BY <1>1, <1>4 DEF SendRender, Return, Deliver, ServeInv, SyncInv, SnapshotCoherent,
       channelVars, workerVars
  <1>5. CASE SendBarrier
    BY <1>1, <1>5 DEF SendBarrier, Fail, Return, Deliver, ServeInv, SyncInv, SnapshotCoherent,
       channelVars, workerVars
  <1>6. CASE SendShutdown \/ Join
    BY <1>1, <1>6 DEF SendShutdown, Join, Deliver, ServeInv, SyncInv, SnapshotCoherent,
       channelVars, workerVars
  <1> QED BY <1>2, <1>3, <1>4, <1>5, <1>6 DEF MachineStep

(* The worker lives and its answers come in time. *)
LEMMA SendSync ==
  ASSUME ServeInv, Start \/ SendRender \/ SendBarrier \/ SendShutdown, wpc # "exited"
  PROVE  SyncInv'
  <1>1. AliveInv /\ synth \in Synth /\ render_pending \in BOOLEAN /\ commands \in Seq(Command)
        /\ None \notin Synth
    BY SynthAssumption DEF ServeInv, SyncInv, BufferInv, TypeInv, TypeOK
  <1>2. CASE Start
    <2>1. /\ init = "ok" /\ pc = "starting" /\ pc' = "idle"
          /\ UNCHANGED <<commands, responses, wpc, hand, synth, prepared>>
          /\ UNCHANGED <<pending_audio, prepared_frontend, render_pending>>
      BY <1>2 DEF Start, Return, frontVars, channelVars, workerVars
    <2>2. Settled /\ Agreed /\ wpc # "init"
      BY <1>1, <2>1 DEF AliveInv
    <2>3. ~render_pending
      BY <1>1, <2>2 DEF Settled, ServeInv, BufferInv, BuffersAccounted
    <2>4. Settled' /\ Agreed'
      BY <2>1, <2>2, SyncFrame
    <2> QED BY <2>1, <2>2, <2>3, <2>4 DEF SyncInv, AliveInv
  <1>3. CASE SendRender
    <2>1. Settled /\ Agreed /\ pc = "send" /\ op = "exchange" /\ wpc # "init"
      BY <1>1, <1>3 DEF SendRender, AliveInv
    <2>2. pending_audio # None /\ midi_buffer
      BY <1>1, <2>1 DEF Settled, ServeInv, BufferInv, BuffersAccounted
    <2>3. PICK m \in Midi : Deliver([type |-> "Render", arg |-> m]) /\ render_pending' = TRUE
      BY <1>3, <2>2 DEF SendRender
    <2>4. /\ pc' = "idle" /\ prepared_frontend' = prepared_frontend
      BY <1>3 DEF SendRender, Return
    <2>5. Sent(Msg("Render", m))' /\ wpc' = wpc /\ UNCHANGED <<synth, prepared>>
      BY <2>1, <2>3, DeliverOnce DEF Settled, Msg, Sent
    <2>6. RenderOrdered' /\ Agreed'
      BY <2>1, <2>4, <2>5 DEF RenderOrdered, Agreed
    <2> QED BY <2>1, <2>3, <2>4, <2>5, <2>6 DEF SyncInv, AliveInv
  <1>4. CASE SendBarrier
    <2>1. /\ pc = "send" /\ op \in Barriers /\ Deliver(CommandOf(op)) /\ pc' = "await"
          /\ UNCHANGED <<op, pending_audio, prepared_frontend, saved>>
      BY <1>4 DEF SendBarrier, frontVars
    <2>2. /\ Settled /\ wpc # "init"
          /\ IF op = "abort_restore" THEN prepared # None /\ prepared_frontend = None ELSE Agreed
      BY <1>1, <2>1 DEF AliveInv, Barriers
    <2>3. /\ commands' = <<CommandOf(op)>> /\ responses' = <<>> /\ wpc' # "reply" /\ wpc' = wpc
          /\ UNCHANGED <<synth, prepared>>
      BY <2>1, <2>2, DeliverOnce DEF Settled
    <2>4. op \in {"capture_state", "prepare_restore", "reset"} => prepared = None
      BY <2>1, <2>2 DEF ServeInv, BufferInv, CallInv, Draining, Agreed
    <2>5. pending_audio' = synth'
      BY <2>1, <2>2, <2>3 DEF Settled
    <2>6. op = "capture_state" => AwaitCapture'
      BY <2>1, <2>3, <2>4, <2>5 DEF CommandOf, Msg, Sent, AwaitCapture
    <2>7. op = "prepare_restore" => AwaitPrepare'
      BY <2>1, <2>3, <2>4, <2>5 DEF CommandOf, Msg, Sent, AwaitPrepare
    <2>8. op = "commit_restore" => AwaitCommit'
      BY <2>1, <2>2, <2>3 DEF CommandOf, Msg, Sent, AwaitCommit, Agreed
    <2>9. op = "abort_restore" => AwaitAbort'
      BY <2>1, <2>2, <2>3, <2>5 DEF CommandOf, Msg, Sent, AwaitAbort
    <2>10. op = "reset" => AwaitReset'
      BY <2>1, <2>3, <2>4 DEF CommandOf, Msg, Sent, AwaitReset
    <2>11. AwaitCapture' \/ AwaitPrepare' \/ AwaitCommit' \/ AwaitAbort' \/ AwaitReset'
      BY <2>1, <2>6, <2>7, <2>8, <2>9, <2>10 DEF Barriers
    <2> QED BY <2>1, <2>2, <2>3, <2>11 DEF SyncInv, AliveInv
  <1>5. CASE SendShutdown
    <2>1. /\ pc = "send" /\ op = "drop" /\ pc' = "join" /\ wpc' = wpc
          /\ commands' = Append(commands, [type |-> "Shutdown", arg |-> None])
      BY <1>5 DEF SendShutdown, Deliver, CommandOf, workerVars
    <2>2. commands = <<>> \/ (wpc # "reply" /\ \E m \in Midi : commands = <<Msg("Render", m)>>)
      BY <1>1, <2>1 DEF AliveInv, Settled, Quiet, RenderOrdered, Sent, Replied
    <2>3. \A i \in 1 .. Len(commands') :
             \/ commands'[i].type = "Shutdown"
             \/ i = 1 /\ commands'[i].type = "Render" /\ wpc' # "reply"
      BY <2>1, <2>2 DEF Msg
    <2>4. wpc # "init"
      BY <1>1, <2>1 DEF AliveInv
    <2> QED BY <2>1, <2>3, <2>4 DEF SyncInv, AliveInv
  <1> QED BY <1>2, <1>3, <1>4, <1>5

\* A call returned with nothing on its way.
LEMMA SettledReturn ==
  ASSUME ServeInv, wpc # "exited", wpc' = wpc, pc # "starting", pc' = "idle",
         render_pending' = FALSE, Settled', Agreed'
  PROVE  SyncInv'
  <1>1. wpc # "init"
    BY DEF ServeInv, SyncInv, AliveInv
  <1> QED BY <1>1 DEF SyncInv, AliveInv

LEMMA ReceiveSync ==
  ASSUME Late = FALSE, ServeInv, CompleteRender \/ Await, wpc # "exited"
  PROVE  SnapshotCoherent' /\ SyncInv'
  <1>1. AliveInv /\ None \notin Synth /\ wpc # "init"
    BY SynthAssumption DEF CompleteRender, Await, ServeInv, SyncInv, AliveInv
  <1>2. ~ReceiveFails
    BY DEF ReceiveFails
  <1>3. Receive
    BY <1>2 DEF CompleteRender, Await
  <1>4. \A c : ~Sent(c)
    BY <1>3 DEF Receive, Sent
  <1> DEFINE r == Head(responses)
  <1>5. CASE CompleteRender
    <2>1. pc = "drain" /\ op \in Draining /\ prepared_frontend = None
      BY <1>5 DEF CompleteRender, ServeInv, BufferInv, CallInv
    <2>2. Agreed /\ Replied(Msg("Rendered", synth))
      BY <1>1, <1>4, <2>1 DEF AliveInv, RenderOrdered
    <2>3. /\ r = Msg("Rendered", synth) /\ Quiet' /\ UNCHANGED <<op, wpc, synth, prepared>>
      BY <1>3, <2>2, ReceiveOnce
    <2>4. r.type = "Rendered" /\ r.arg = synth
      BY <2>3 DEF Msg
    <2>5. pending_audio' = synth /\ pc' = "send" /\ UNCHANGED <<prepared_frontend, saved>>
      BY <1>2, <1>5, <2>4 DEF CompleteRender
    <2>6. Settled' /\ Agreed'
      BY <2>2, <2>3, <2>5 DEF Settled, Agreed
    <2>7. SyncInv'
      BY <1>1, <2>1, <2>3, <2>5, <2>6 DEF SyncInv, AliveInv, Draining
    <2> QED BY <2>5, <2>7 DEF ServeInv, SnapshotCoherent
  <1>6. CASE Await
    <2>1. /\ pc = "await" /\ op \in Barriers /\ midi_buffer /\ pending_audio # None
          /\ render_pending = FALSE
      BY <1>6 DEF Await, ServeInv, BufferInv, CallInv, TypeInv, TypeOK, Barriers
    <2>2. \/ r.type = "Captured" /\ op = "capture_state" /\ Captured(r)
          \/ r.type = "RestorePrepared" /\ op = "prepare_restore" /\ RestorePrepared
          \/ r.type = "RestoreRefused" /\ op = "prepare_restore" /\ Fail("invalid")
          \/ r.type = "RestoreCommitted" /\ op = "commit_restore" /\ RestoreCommitted
          \/ r.type = "RestoreAborted" /\ op = "abort_restore" /\ Return("ok")
                                       /\ UNCHANGED <<frontVars, saved>>
          \/ r.type = "ResetComplete" /\ op = "reset" /\ ResetComplete
          \/ r.type \notin Answers(op) /\ Fail("unexpected")
      BY <1>2, <1>6, Zenon DEF Await
    <2> HIDE DEF r
    <2>3. CASE AwaitCapture
      <3>1. Replied(Msg("Captured", synth)) /\ op = "capture_state" /\ pending_audio = synth
            /\ prepared = None
        BY <1>4, <2>3 DEF AwaitCapture
      <3>2. r = Msg("Captured", synth) /\ Quiet' /\ UNCHANGED <<op, wpc, synth, prepared>>
        BY <1>3, <3>1, ReceiveOnce DEF r
      <3>3. r.type = "Captured" /\ r.arg = synth
        BY <3>2 DEF Msg
      <3>4. Captured(r)
        BY <2>2, <3>1, <3>3 DEF Answers
      <3>5. /\ pc' = "idle" /\ saved' = [worker |-> synth, audio |-> pending_audio]
            /\ UNCHANGED <<pending_audio, prepared_frontend, render_pending>>
        BY <2>1, <3>3, <3>4 DEF Captured, Return, frontVars
      <3>6. prepared_frontend = None
        BY <2>1, <3>1 DEF ServeInv, BufferInv, CallInv, Draining
      <3>7. Settled' /\ Agreed'
        BY <3>1, <3>2, <3>5, <3>6 DEF Settled, Agreed
      <3>8. SyncInv'
        BY <2>1, <3>2, <3>5, <3>7, SettledReturn
      <3> QED BY <3>1, <3>5, <3>8 DEF SnapshotCoherent
    <2>4. CASE AwaitPrepare
      <3>1. /\ op = "prepare_restore" /\ pending_audio = synth /\ prepared_frontend = None
            /\ saved # None
        BY <2>1, <2>4 DEF AwaitPrepare, ServeInv, BufferInv, CallInv, Draining, TypeInv, StateAtHand
      <3>2. CASE prepared = None /\ Replied(Msg("RestoreRefused", None))
        <4>1. r = Msg("RestoreRefused", None) /\ Quiet' /\ UNCHANGED <<op, wpc, synth, prepared>>
          BY <1>3, <3>2, ReceiveOnce DEF r
        <4>2. r.type = "RestoreRefused"
          BY <4>1 DEF Msg
        <4>3. Fail("invalid") \/ Fail("unexpected")
          BY <2>2, <4>2
        <4>4. /\ pc' = "idle" /\ UNCHANGED <<pending_audio, render_pending, saved>>
              /\ prepared_frontend' = None
          BY <3>1, <4>3 DEF Fail, Return, FrontendAfterError
        <4>5. Settled' /\ Agreed'
          BY <3>1, <3>2, <4>1, <4>4 DEF Settled, Agreed
        <4>6. SyncInv'
          BY <2>1, <4>1, <4>4, <4>5, SettledReturn
        <4> QED BY <4>4, <4>6 DEF ServeInv, SnapshotCoherent
      <3>3. CASE prepared = saved.worker /\ Replied(Msg("RestorePrepared", None))
        <4>1. r = Msg("RestorePrepared", None) /\ Quiet' /\ UNCHANGED <<op, wpc, synth, prepared>>
          BY <1>3, <3>3, ReceiveOnce DEF r
        <4>2. r.type = "RestorePrepared"
          BY <4>1 DEF Msg
        <4>3. RestorePrepared
          BY <2>2, <3>1, <4>2 DEF Answers
        <4>4. /\ pc' = "idle" /\ UNCHANGED <<pending_audio, render_pending, saved>>
              /\ prepared_frontend' = saved.audio
          BY <4>3 DEF RestorePrepared, Return
        <4>5. Settled' /\ Agreed'
          BY <3>1, <3>3, <4>1, <4>4 DEF Settled, Agreed, ServeInv, SnapshotCoherent
        <4>6. SyncInv'
          BY <2>1, <4>1, <4>4, <4>5, SettledReturn
        <4> QED BY <4>4, <4>6 DEF ServeInv, SnapshotCoherent
      <3> QED BY <1>4, <2>4, <3>2, <3>3 DEF AwaitPrepare
    <2>5. CASE AwaitCommit
      <3>1. /\ op = "commit_restore" /\ prepared = None /\ synth = prepared_frontend
            /\ Replied(Msg("RestoreCommitted", None))
        BY <1>4, <2>5 DEF AwaitCommit
      <3>2. r = Msg("RestoreCommitted", None) /\ Quiet' /\ UNCHANGED <<op, wpc, synth, prepared>>
        BY <1>3, <3>1, ReceiveOnce DEF r
      <3>3. r.type = "RestoreCommitted"
        BY <3>2 DEF Msg
      <3>4. RestoreCommitted
        BY <2>2, <3>1, <3>3 DEF Answers
      <3>5. /\ pc' = "idle" /\ saved' = saved /\ render_pending' = FALSE
            /\ pending_audio' = prepared_frontend /\ prepared_frontend' = None
        BY <3>4 DEF RestoreCommitted, Return
      <3>6. Settled' /\ Agreed'
        BY <3>1, <3>2, <3>5 DEF Settled, Agreed
      <3>7. SyncInv'
        BY <2>1, <3>2, <3>5, <3>6, SettledReturn
      <3> QED BY <3>5, <3>7 DEF ServeInv, SnapshotCoherent
    <2>6. CASE AwaitAbort
      <3>1. /\ op = "abort_restore" /\ prepared = None /\ prepared_frontend = None
            /\ pending_audio = synth /\ Replied(Msg("RestoreAborted", None))
        BY <1>4, <2>6 DEF AwaitAbort
      <3>2. r = Msg("RestoreAborted", None) /\ Quiet' /\ UNCHANGED <<op, wpc, synth, prepared>>
        BY <1>3, <3>1, ReceiveOnce DEF r
      <3>3. r.type = "RestoreAborted"
        BY <3>2 DEF Msg
      <3>4. Return("ok") /\ UNCHANGED <<frontVars, saved>>
        BY <2>2, <3>1, <3>3 DEF Answers
      <3>5. /\ pc' = "idle" /\ saved' = saved
            /\ UNCHANGED <<pending_audio, render_pending, prepared_frontend>>
        BY <3>4 DEF Return, frontVars
      <3>6. Settled' /\ Agreed'
        BY <3>1, <3>2, <3>5 DEF Settled, Agreed
      <3>7. SyncInv'
        BY <2>1, <3>2, <3>5, <3>6, SettledReturn
      <3> QED BY <3>5, <3>7 DEF ServeInv, SnapshotCoherent
    <2>7. CASE AwaitReset
      <3>1. /\ op = "reset" /\ prepared = None /\ synth = Synth0
            /\ Replied(Msg("ResetComplete", None))
        BY <1>4, <2>7 DEF AwaitReset
      <3>2. r = Msg("ResetComplete", None) /\ Quiet' /\ UNCHANGED <<op, wpc, synth, prepared>>
        BY <1>3, <3>1, ReceiveOnce DEF r
      <3>3. r.type = "ResetComplete"
        BY <3>2 DEF Msg
      <3>4. ResetComplete
        BY <2>2, <3>1, <3>3 DEF Answers
      <3>5. /\ pc' = "idle" /\ saved' = saved /\ pending_audio' = Synth0
            /\ UNCHANGED <<render_pending, prepared_frontend>>
        BY <2>1, <3>4 DEF ResetComplete, Return
      <3>6. prepared_frontend = None
        BY <2>1, <3>1 DEF ServeInv, BufferInv, CallInv, Draining
      <3>7. Settled' /\ Agreed'
        BY <3>1, <3>2, <3>5, <3>6 DEF Settled, Agreed
      <3>8. SyncInv'
        BY <2>1, <3>2, <3>5, <3>7, SettledReturn
      <3> QED BY <3>5, <3>8 DEF ServeInv, SnapshotCoherent
    <2> QED BY <1>1, <2>1, <2>3, <2>4, <2>5, <2>6, <2>7 DEF AliveInv
  <1> QED BY <1>5, <1>6

LEMMA StepSync == Late = FALSE /\ ServeInv /\ [Next]_vars => ServeInv'
  <1> SUFFICES ASSUME Late = FALSE, ServeInv, [Next]_vars PROVE SnapshotCoherent' /\ SyncInv'
    BY StepBuffers DEF ServeInv
  <1>1. CASE MachineStep
    <2>1. CASE wpc = "exited"
      BY <1>1, <2>1, ExitedSync
    <2>2. CASE wpc # "exited" /\ (CompleteRender \/ Await)
      BY <2>2, ReceiveSync
    <2>3. CASE wpc # "exited" /\ (Start \/ SendRender \/ SendBarrier \/ SendShutdown)
      <3>1. saved' = saved
        BY <2>3 DEF Start, SendRender, SendBarrier, SendShutdown, Fail
      <3> QED BY <2>3, <3>1, SendSync DEF ServeInv, SnapshotCoherent
    <2> QED BY <1>1, <2>1, <2>2, <2>3 DEF MachineStep, Join
  <1>2. CASE UNCHANGED vars
    <2>1. /\ UNCHANGED <<commands, responses, wpc, hand, synth, prepared>>
          /\ UNCHANGED <<pending_audio, render_pending, prepared_frontend, saved, pc, op, init>>
      BY <1>2 DEF vars, frontVars, callerVars, channelVars, workerVars
    <2>2. /\ AwaitCapture' = AwaitCapture /\ AwaitPrepare' = AwaitPrepare /\ AwaitReset' = AwaitReset
          /\ AwaitCommit' = AwaitCommit /\ AwaitAbort' = AwaitAbort
      BY <2>1 DEF AwaitCapture, AwaitPrepare, AwaitCommit, AwaitAbort, AwaitReset, Sent, Replied, Agreed
    <2> QED BY <2>1, <2>2, SyncFrame DEF ServeInv, SnapshotCoherent, SyncInv, AliveInv
  <1> QED BY <1>1, <1>2, CallSync, WorkerSync DEF Next, Done

(* A capture describes one instant: with answers that come in time the     *)
(* worker state and the chunk of capture_state belong together, whether or *)
(* not the worker panics.                                                  *)
THEOREM SnapshotsAreCoherent ==
  ASSUME Late = FALSE
  PROVE  Spec => []SnapshotCoherent
  <1>1. ServeInv /\ [Next]_vars => ServeInv'
    BY StepSync
  <1>2. ServeInv => SnapshotCoherent
    BY DEF ServeInv
  <1> QED BY <1>1, <1>2, InitSync, PTL DEF Spec

(* A barrier that returned Ok had no chunk outstanding. *)
Confirmed == {"capture_state", "prepare_restore", "commit_restore", "reset"}
OkInv == pc = "idle" /\ result = "ok" /\ wpc # "exited" /\ op \in Confirmed => ~render_pending

LEMMA StepOk ==
  ASSUME Late = FALSE, ServeInv, OkInv, [Next]_vars
  PROVE  OkInv'
  <1> SUFFICES ASSUME pc' = "idle", result' = "ok", wpc' # "exited", op' \in Confirmed
               PROVE  ~render_pending'
    BY DEF OkInv
  <1>1. CASE Call
    BY <1>1 DEF Confirmed, Call, CallExchange, CallCapture, CallPrepare, CallCommit, CallAbort,
       CallReset, CallDrop, Begin, Reject, Return
  <1>2. CASE WorkerStep \/ Panic
    BY <1>2 DEF OkInv, WorkerStep, Initialize, Work, Reply, Panic, callerVars, frontVars
  <1>3. CASE Start
    <2>1. pc = "starting" /\ wpc # "exited" /\ render_pending' = render_pending
      BY <1>3 DEF Start, frontVars, workerVars
    <2>2. Settled /\ synth \in Synth
      BY <2>1 DEF ServeInv, SyncInv, AliveInv, BufferInv, TypeInv, TypeOK
    <2> QED BY <2>1, <2>2, SynthAssumption DEF Settled, ServeInv, BufferInv, BuffersAccounted
  <1>4. CASE CompleteRender \/ SendRender \/ SendBarrier \/ SendShutdown \/ Join
    BY <1>4 DEF CompleteRender, ReceiveFails, Fail, Return, SendRender, SendBarrier, SendShutdown,
       Join, Confirmed
  <1>5. CASE Await
    <2>1. pc = "await" /\ ~render_pending
      BY <1>5 DEF Await, ServeInv, BufferInv, CallInv, Barriers
    <2> QED BY <1>5, <2>1 DEF Await, ReceiveFails, Fail, Return, Captured, RestorePrepared,
            RestoreCommitted, ResetComplete, frontVars
  <1>6. CASE UNCHANGED vars
    BY <1>6 DEF OkInv, vars, callerVars, frontVars, workerVars
  <1> QED BY <1>1, <1>2, <1>3, <1>4, <1>5, <1>6 DEF Next, MachineStep, Done

(* With answers that come in time, a barrier that returned Ok has consumed  *)
(* the answer to its own command, and nothing is left on its way.           *)
THEOREM OkIsAnswered ==
  ASSUME Late = FALSE
  PROVE  Spec => []OkMeansAnswered
  <1>1. Init => ServeInv /\ OkInv
    BY InitSync DEF Init, OkInv
  <1>2. ServeInv /\ OkInv /\ [Next]_vars => ServeInv' /\ OkInv'
    BY StepSync, StepOk
  <1>3. ServeInv /\ OkInv => OkMeansAnswered
    <2> SUFFICES ASSUME ServeInv, OkInv, pc = "idle", result = "ok", wpc # "exited",
                        op \in Confirmed
                 PROVE  Unanswered = 0
      BY DEF OkMeansAnswered, Confirmed
    <2>1. Quiet
      BY DEF OkInv, ServeInv, SyncInv, AliveInv, Settled
    <2> QED BY <2>1 DEF Quiet, Unanswered
  <1> QED BY <1>1, <1>2, <1>3, PTL DEF Spec

-----------------------------------------------------------------------------
(* The refinement of RenderService. *)

Snapshot == IF saved = None THEN None ELSE saved.worker

\* A chunk that is ordered counts as rendered.
LEMMA LogicalFacts ==
  /\ commands = <<>> => LogicalSynth = synth
  /\ \A t, a : commands = <<Msg(t, a)>> =>
        LogicalSynth = IF t = "Render" THEN Advance(synth, a) ELSE synth
  <1>1. ASSUME NEW t, NEW a, commands = <<Msg(t, a)>>
        PROVE  commands # <<>> /\ Head(commands).type = t /\ Head(commands).arg = a
    BY <1>1, OneMessage DEF Msg
  <1> QED BY <1>1 DEF LogicalSynth

\* The same after a step.
LEMMA LogicalNext ==
  /\ commands' = <<>> => LogicalSynth' = synth'
  /\ \A t, a : commands' = <<Msg(t, a)>> =>
        LogicalSynth' = IF t = "Render" THEN Advance(synth', a) ELSE synth'
  <1>1. ASSUME NEW t, NEW a, commands' = <<Msg(t, a)>>
        PROVE  commands' # <<>> /\ Head(commands').type = t /\ Head(commands').arg = a
    BY <1>1, OneMessage DEF Msg
  <1> QED BY <1>1 DEF LogicalSynth

LEMMA LogicalFrame ==
  UNCHANGED <<commands, synth, saved, prepared>> => UNCHANGED <<LogicalSynth, Snapshot, prepared>>
  BY DEF LogicalSynth, Snapshot

LEMMA MachineService ==
  ASSUME Late = FALSE, ServeInv, MachineStep
  PROVE  [Service!Next]_<<LogicalSynth, Snapshot, prepared>>
  <1>1. CASE Start \/ CompleteRender \/ Join
    BY <1>1, LogicalFrame DEF Start, CompleteRender, Join, ReceiveFails, Receive, Fail,
       channelVars, workerVars
  <1>2. CASE UNCHANGED <<commands, synth, saved, prepared>>
    BY <1>2, LogicalFrame
  <1>3. CASE SendRender
    <2>1. CASE \E m \in Midi : Deliver([type |-> "Render", arg |-> m])
      <3>1. PICK m \in Midi : Deliver(Msg("Render", m))
        BY <2>1 DEF Msg
      <3>2. /\ pc = "send" /\ op = "exchange" /\ wpc # "exited" /\ saved' = saved
        BY <1>3, <3>1 DEF SendRender, Deliver
      <3>3. Settled /\ Agreed /\ prepared_frontend = None
        BY <3>2 DEF ServeInv, SyncInv, AliveInv, BufferInv, CallInv, Draining
      <3>4. commands' = <<Msg("Render", m)>> /\ commands = <<>> /\ UNCHANGED <<synth, prepared>>
        BY <3>1, <3>3, DeliverOnce DEF Settled, Quiet
      <3>5. LogicalSynth' = Advance(LogicalSynth, m)
        BY <3>4, LogicalFacts, LogicalNext
      <3> QED BY <3>2, <3>3, <3>4, <3>5 DEF Service!Next, Service!Render, Snapshot, Agreed
    <2>2. CASE UNCHANGED <<channelVars, workerVars>>
      BY <1>3, <1>2, <2>2 DEF SendRender, channelVars, workerVars
    <2> QED BY <1>3, <2>1, <2>2 DEF SendRender
  <1>4. CASE SendBarrier
    <2>1. CASE Deliver(CommandOf(op))
      <3>1. pc = "send" /\ op \in Barriers /\ wpc # "exited" /\ saved' = saved
        BY <1>4, <2>1 DEF SendBarrier, Deliver, Fail
      <3>2. Quiet
        BY <3>1 DEF ServeInv, SyncInv, AliveInv, Settled, Barriers
      <3>3. commands' = <<CommandOf(op)>> /\ commands = <<>> /\ UNCHANGED <<synth, prepared>>
        BY <2>1, <3>2, DeliverOnce DEF Quiet
      <3>4. \E t, a : t # "Render" /\ CommandOf(op) = Msg(t, a)
        BY <3>1 DEF CommandOf, Msg, Barriers
      <3>5. LogicalSynth' = LogicalSynth
        BY <3>3, <3>4, LogicalFacts, LogicalNext
      <3> QED BY <3>1, <3>3, <3>5 DEF Snapshot
    <2>2. CASE ~Deliver(CommandOf(op))
      BY <1>4, <1>2, <2>2 DEF SendBarrier, Fail, channelVars, workerVars
    <2> QED BY <2>1, <2>2
  <1>5. CASE SendShutdown
    <2>1. CASE Deliver(CommandOf("drop"))
      <3>1. /\ commands \in Seq(Command) /\ UNCHANGED <<synth, prepared, saved>>
            /\ commands' = Append(commands, Msg("Shutdown", None))
        BY <1>5, <2>1 DEF SendShutdown, Deliver, CommandOf, Msg, workerVars, ServeInv, BufferInv,
           TypeInv, TypeOK
      <3>2. CASE commands = <<>>
        <4>1. commands' = <<Msg("Shutdown", None)>>
          BY <3>1, <3>2, OneMessage
        <4> QED BY <3>1, <3>2, <4>1, LogicalFacts, LogicalNext DEF Snapshot
      <3>3. CASE commands # <<>>
        <4>1. Head(commands') = Head(commands) /\ commands' # <<>>
          BY <3>1, <3>3
        <4> QED BY <3>1, <3>3, <4>1 DEF LogicalSynth, Snapshot
      <3> QED BY <3>2, <3>3
    <2>2. CASE ~Deliver(CommandOf("drop"))
      BY <1>5, <1>2, <2>2 DEF SendShutdown, channelVars, workerVars
    <2> QED BY <2>1, <2>2
  <1>6. CASE Await
    <2>1. commands' = commands /\ synth' = synth /\ prepared' = prepared
      BY <1>6 DEF Await, ReceiveFails, Receive, channelVars, workerVars
    <2>2. CASE saved' = saved
      BY <1>2, <2>1, <2>2
    <2>3. CASE saved' # saved
      <3>1. Receive /\ op = "capture_state" /\ Captured(Head(responses)) /\ pc = "await"
            /\ Head(responses).type = "Captured"
        BY <1>6, <2>3 DEF Await, ReceiveFails, Fail, RestorePrepared, RestoreCommitted, ResetComplete
      <3>2. wpc # "exited"
        BY <3>1 DEF Receive, ServeInv, SyncInv
      <3>3. AwaitCapture
        BY <3>1, <3>2 DEF ServeInv, SyncInv, AliveInv, AwaitPrepare, AwaitCommit, AwaitAbort, AwaitReset
      <3>4. Replied(Msg("Captured", synth)) /\ prepared = None
        BY <3>1, <3>3 DEF AwaitCapture, Sent, Receive
      <3>5. Head(responses) = Msg("Captured", synth) /\ commands = <<>>
        BY <3>1, <3>4, ReceiveOnce DEF Replied
      <3>6. saved' = [worker |-> synth, audio |-> pending_audio]
        BY <2>3, <3>1, <3>5 DEF Captured, Fail, Msg
      <3>7. saved'.worker = synth /\ saved' # None
        <4>1. synth \in Synth /\ pending_audio \in Synth
          BY <3>3, SynthAssumption DEF AwaitCapture, ServeInv, BufferInv, TypeInv, TypeOK
        <4> QED BY <3>6, <4>1, SynthAssumption
      <3>8. Snapshot' = synth
        BY <3>7 DEF Snapshot
      <3>9. LogicalSynth' = LogicalSynth /\ LogicalSynth = synth
        BY <2>1, <3>5, LogicalFacts, LogicalNext
      <3> QED BY <2>1, <3>4, <3>8, <3>9 DEF Service!Next, Service!Capture, Snapshot
    <2> QED BY <2>2, <2>3
  <1> QED BY <1>1, <1>3, <1>4, <1>5, <1>6 DEF MachineStep

LEMMA WorkService ==
  ASSUME ServeInv, Work
  PROVE  [Service!Next]_<<LogicalSynth, Snapshot, prepared>>
  <1>0. saved' = saved /\ wpc = "recv" /\ commands # <<>> /\ AliveInv
    BY DEF Work, callerVars, ServeInv, SyncInv
  <1>1. Snapshot' = Snapshot
    BY <1>0 DEF Snapshot
  <1>2. \A r : ~Replied(r)
    BY <1>0 DEF Replied
  <1>3. CASE pc = "join"
    <2>1. commands \in Seq(Command)
      BY DEF ServeInv, BufferInv, TypeInv, TypeOK
    <2>2. Head(commands).type \in {"Render", "Shutdown"}
      BY <1>0, <1>3, <2>1 DEF AliveInv
    <2>3. CASE Head(commands).type = "Shutdown"
      <3>1. commands' = <<>> /\ synth' = synth /\ prepared' = prepared
        BY <2>3 DEF Work, Exit, DoRender, DoCapture, DoPrepareRestore, DoCommitRestore,
           DoAbortRestore, DoReset
      <3>2. LogicalSynth = synth
        BY <2>3 DEF LogicalSynth
      <3> QED BY <1>1, <3>1, <3>2, LogicalNext
    <2>4. CASE Head(commands).type = "Render"
      <3>1. /\ commands' = Tail(commands) /\ prepared' = prepared
            /\ synth' = Advance(synth, Head(commands).arg)
        BY <2>4 DEF Work, Exit, DoRender, DoCapture, DoPrepareRestore, DoCommitRestore,
           DoAbortRestore, DoReset
      <3>2. LogicalSynth = Advance(synth, Head(commands).arg)
        BY <1>0, <2>4 DEF LogicalSynth
      <3>3. commands' # <<>> => Head(commands').type = "Shutdown"
        BY <1>0, <1>3, <2>1, <3>1 DEF AliveInv
      <3>4. LogicalSynth' = synth'
        BY <3>3 DEF LogicalSynth
      <3> QED BY <1>1, <3>1, <3>2, <3>4
    <2> QED BY <2>2, <2>3, <2>4
  <1>4. CASE pc \in {"starting", "idle", "send", "drain"}
    <2>1. RenderOrdered
      BY <1>0, <1>4 DEF AliveInv, Settled, Quiet
    <2>2. PICK m \in Midi : Sent(Msg("Render", m))
      BY <1>2, <2>1 DEF RenderOrdered
    <2>3. prepared' = prepared /\ synth' = Advance(synth, m) /\ commands' = <<>>
      BY <2>2, WorkAnswers, WorkOnce
    <2>4. LogicalSynth = Advance(synth, m) /\ LogicalSynth' = synth'
      BY <2>2, <2>3, LogicalFacts, LogicalNext DEF Sent
    <2> QED BY <1>1, <2>3, <2>4
  <1>5. CASE pc = "await"
    <2>0. ASSUME NEW t, NEW a, t \notin {"Render", "Shutdown"}, Sent(Msg(t, a))
          PROVE  LogicalSynth = synth /\ LogicalSynth' = synth'
      <3>1. commands' = <<>>
        BY <2>0, WorkOnce
      <3> QED BY <2>0, <3>1, LogicalFacts, LogicalNext DEF Sent
    <2>1. CASE AwaitCapture
      <3>1. Sent(Msg("Capture", None))
        BY <1>2, <2>1 DEF AwaitCapture
      <3>2. synth' = synth /\ prepared' = prepared
        BY <3>1, WorkAnswers
      <3> QED BY <1>1, <2>0, <3>1, <3>2
    <2>2. CASE AwaitPrepare
      <3>1. Sent(Msg("PrepareRestore", saved.worker)) /\ prepared = None
        BY <1>2, <2>2 DEF AwaitPrepare
      <3>2. synth' = synth /\ (prepared' = saved.worker \/ prepared' = prepared)
        BY <3>1, WorkAnswers
      <3>3. LogicalSynth' = LogicalSynth
        BY <2>0, <3>1, <3>2
      <3>4. saved # None /\ saved.worker \in Synth
        BY <1>5, <2>2 DEF AwaitPrepare, ServeInv, BufferInv, CallInv, TypeInv, TypeOK, StateAtHand, ActorState
      <3>5. Snapshot = saved.worker /\ Snapshot # None
        BY <3>4, SynthAssumption DEF Snapshot
      <3>6. CASE prepared' = prepared
        BY <1>1, <3>3, <3>6
      <3>7. CASE prepared' = saved.worker
        BY <1>1, <3>1, <3>3, <3>5, <3>7 DEF Service!Next, Service!Prepare, Snapshot
      <3> QED BY <3>2, <3>6, <3>7
    <2>3. CASE AwaitCommit
      <3>1. Sent(Msg("CommitRestore", None)) /\ Agreed
        BY <1>2, <2>3 DEF AwaitCommit
      <3>2. prepared # None
        BY <1>5, <2>3, <3>1 DEF AwaitCommit, Agreed, ServeInv, BufferInv, CallInv
      <3>3. synth' = prepared /\ prepared' = None
        BY <3>1, <3>2, WorkAnswers
      <3>4. LogicalSynth' = prepared
        BY <2>0, <3>1, <3>3
      <3> QED BY <1>1, <3>2, <3>3, <3>4 DEF Service!Next, Service!Commit, Snapshot
    <2>4. CASE AwaitAbort
      <3>1. Sent(Msg("AbortRestore", None)) /\ prepared # None
        BY <1>2, <2>4 DEF AwaitAbort
      <3>2. synth' = synth /\ prepared' = None
        BY <3>1, WorkAnswers
      <3>3. LogicalSynth' = LogicalSynth
        BY <2>0, <3>1, <3>2
      <3> QED BY <1>1, <3>1, <3>2, <3>3 DEF Service!Next, Service!Abort, Snapshot
    <2>5. CASE AwaitReset
      <3>1. Sent(Msg("Reset", None)) /\ prepared = None
        BY <1>2, <2>5 DEF AwaitReset
      <3>2. synth' = Synth0 /\ prepared' = None
        BY <3>1, WorkAnswers
      <3>3. LogicalSynth' = Synth0
        BY <2>0, <3>1, <3>2
      <3> QED BY <1>1, <3>1, <3>2, <3>3 DEF Service!Next, Service!Reset, Snapshot
    <2> QED BY <1>0, <1>5, <2>1, <2>2, <2>3, <2>4, <2>5 DEF AliveInv
  <1> QED BY <1>0, <1>3, <1>4, <1>5 DEF AliveInv, ServeInv, BufferInv, TypeInv, TypeOK

LEMMA WorkerService ==
  ASSUME ServeInv, WorkerStep \/ Panic
  PROVE  [Service!Next]_<<LogicalSynth, Snapshot, prepared>>
  <1>1. CASE Work
    BY <1>1, WorkService
  <1>2. CASE Reply
    BY <1>2, LogicalFrame DEF Reply, callerVars
  <1>3. CASE Initialize
    <2>1. commands = <<>>
      BY <1>3 DEF Initialize, ServeInv, SyncInv, AliveInv, Settled, Quiet
    <2> QED BY <1>3, <2>1, LogicalFrame DEF Initialize, Exit, callerVars
  <1>4. CASE Panic
    <2>1. commands' = <<>> /\ UNCHANGED <<synth, prepared, saved>>
      BY <1>4 DEF Panic, Exit, callerVars
    <2>2. wpc = "reply" /\ AliveInv
      BY <1>4 DEF Panic, ServeInv, SyncInv
    <2>3. CASE pc = "join"
      <3>1. commands \in Seq(Command)
        BY DEF ServeInv, BufferInv, TypeInv, TypeOK
      <3>2. commands # <<>> => Head(commands).type # "Render"
        BY <2>2, <2>3, <3>1 DEF AliveInv
      <3>3. LogicalSynth = synth
        BY <3>2 DEF LogicalSynth
      <3> QED BY <2>1, <3>3, LogicalNext DEF Snapshot
    <2>4. CASE pc # "join"
      <3>1. commands = <<>>
        BY <2>2, <2>4 DEF AliveInv, Settled, Quiet, RenderOrdered, Sent, Replied, AwaitCapture,
           AwaitPrepare, AwaitCommit, AwaitAbort, AwaitReset, ServeInv, BufferInv, TypeInv, TypeOK
      <3> QED BY <2>1, <3>1, LogicalFrame
    <2> QED BY <2>3, <2>4
  <1> QED BY <1>1, <1>2, <1>3, <1>4 DEF WorkerStep

LEMMA StepService ==
  ASSUME Late = FALSE, ServeInv, [Next]_vars
  PROVE  [Service!Next]_<<LogicalSynth, Snapshot, prepared>>
  <1>1. CASE Call
    <2>1. UNCHANGED <<commands, synth, saved, prepared>>
      BY <1>1 DEF Call, CallExchange, CallCapture, CallPrepare, CallCommit, CallAbort,
         CallReset, CallDrop, Begin, Reject, channelVars, workerVars
    <2> QED BY <2>1, LogicalFrame
  <1>2. CASE UNCHANGED vars
    <2>1. UNCHANGED <<commands, synth, saved, prepared>>
      BY <1>2 DEF vars, callerVars, channelVars, workerVars
    <2> QED BY <2>1, LogicalFrame
  <1> QED BY <1>1, <1>2, MachineService, WorkerService DEF Next, Done

(* With answers that come in time, the two threads and their channels       *)
(* (all of thread.rs) implement the plain object of RenderService: every    *)
(* render, capture, reset, prepare, commit and abort takes effect at one    *)
(* instant, whether or not the worker panics.                               *)
THEOREM ImplementsTheService ==
  ASSUME Late = FALSE
  PROVE  Spec => ImplementsService
  <1>1. Init => Service!Init
    <2> SUFFICES ASSUME Init PROVE Service!Init
      OBVIOUS
    <2>1. commands = <<>> /\ synth = Synth0 /\ saved = None /\ prepared = None
      BY DEF Init
    <2> QED BY <2>1, LogicalFacts DEF Service!Init
  <1>2. ServeInv /\ [Next]_vars => [Service!Next]_<<LogicalSynth, Snapshot, prepared>>
    BY StepService
  <1>3. Spec => []ServeInv
    BY InitSync, StepSync, PTL DEF Spec
  <1> QED BY <1>1, <1>2, <1>3, PTL DEF Spec, ImplementsService, Service!Spec, Service!vars, Snapshot
=============================================================================
