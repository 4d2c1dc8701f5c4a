----------------------------- MODULE ActorCalls -----------------------------
(***************************************************************************)
(* The calls of a render actor seen from the machine thread: a function    *)
(* from the actor to the possible outcomes of one whole call.              *)
(*                                                                         *)
(* This is the coarse view of the protocol that RenderActor describes step *)
(* by step, here for the SC-55 (crates/nuked_sc55_oxide/src/thread.rs; the *)
(* MT-32 has the same actor).  The worker serves its commands in order, so *)
(* a command takes effect when it is sent and its answer joins the queue   *)
(* of those not yet collected; a call then reads the front of that queue.  *)
(* When answers may be late a call may give up instead, and what it asked  *)
(* for stays in the queue for later calls to find.                         *)
(*                                                                         *)
(* A synthesizer state, and the chunk rendered with it, is named by the    *)
(* emulation instant it belongs to.                                        *)
(***************************************************************************)
EXTENDS Naturals, Sequences

CONSTANTS Instant, None

(* Sc55Actor and the locals of render_actor_main. *)
Actor == [alive    : BOOLEAN,               \* does the worker thread run?
          worker   : Instant,               \* the active synthesizer
          prepared : Instant \cup {None},   \* the candidate the worker staged
          audio    : Instant \cup {None},   \* pending_audio, None while lent
          pending  : BOOLEAN,               \* render_pending
          frontend : Instant \cup {None},   \* prepared_frontend
          answers  : Seq([type : STRING, arg : Instant \cup {None}])]

StartedActor(i) ==
    [alive |-> TRUE, worker |-> i, prepared |-> None, audio |-> i,
     pending |-> FALSE, frontend |-> None, answers |-> <<>>]

(* The outcome of a call: did it return Ok, did it give up waiting, the    *)
(* actor after it, and the state that it returned.                         *)
Outcome(ok, late, actor, value) == [ok |-> ok, late |-> late, actor |-> actor, value |-> value]
Ok(actor, value) == Outcome(TRUE, FALSE, actor, value)
Error(actor)     == Outcome(FALSE, FALSE, actor, None)

-----------------------------------------------------------------------------
(* receive: the next answer, as the value of the outcome.  A dead worker   *)
(* has no more answers to give.                                            *)
Receive(actor, mayBeLate) ==
    {IF actor.answers = <<>> THEN Error(actor)
     ELSE Ok([actor EXCEPT !.answers = Tail(@)], Head(actor.answers))}
    \cup (IF mayBeLate /\ actor.alive THEN {Outcome(FALSE, TRUE, actor, None)} ELSE {})

(* Is this the answer that the call waits for? *)
Expected(o, type) == o.ok /\ o.value.type = type
Unexpected(o) == [o EXCEPT !.ok = FALSE, !.value = None]

(* The worker's answer to a command, as render_actor_main produces it. *)
Answered(actor, type, arg) ==
    [actor EXCEPT !.answers = Append(@, [type |-> type, arg |-> arg])]

(* complete_render *)
CompleteRender(actor, mayBeLate) ==
    LET Use(o) == IF Expected(o, "Rendered")
                  THEN Ok([o.actor EXCEPT !.audio = o.value.arg, !.pending = FALSE], None)
                  ELSE Unexpected(o)
    IN IF actor.pending THEN {Use(o) : o \in Receive(actor, mayBeLate)} ELSE {Ok(actor, None)}

(* exchange: a failed send loses the lent buffer. *)
Exchange(actor, mayBeLate, instant) ==
    LET Send(a) ==
          LET lent == [a EXCEPT !.audio = None] IN
          IF a.audio = None THEN a
          ELSE IF ~a.alive THEN lent
          ELSE Answered([lent EXCEPT !.worker = instant, !.pending = TRUE], "Rendered", instant)
    IN {IF o.ok THEN Ok(Send(o.actor), None) ELSE o : o \in CompleteRender(actor, mayBeLate)}

(* capture_state *)
CaptureState(actor, mayBeLate) ==
    LET Use(o) == IF Expected(o, "Captured") /\ o.actor.audio # None
                  THEN Ok(o.actor, [worker |-> o.value.arg, audio |-> o.actor.audio])
                  ELSE Unexpected(o)
        Ask(a) == IF a.alive
                  THEN {Use(o) : o \in Receive(Answered(a, "Captured", a.worker), mayBeLate)}
                  ELSE {Error(a)}
    IN IF actor.frontend # None THEN {Error(actor)}
       ELSE UNION {IF o.ok THEN Ask(o.actor) ELSE {o} : o \in CompleteRender(actor, mayBeLate)}

(* prepare_restore: the handle may refuse the buffers of the state, and    *)
(* the worker the rest.                                                    *)
PrepareRestore(actor, mayBeLate, state, mayBeRefused) ==
    LET Use(o) == IF Expected(o, "RestorePrepared")
                  THEN Ok([o.actor EXCEPT !.frontend = state.audio], None)
                  ELSE Unexpected(o)
        Accepted(a) == Answered([a EXCEPT !.prepared = state.worker], "RestorePrepared", None)
        Refused(a)  == Answered(a, "RestoreRefused", None)
        Ask(a) == IF ~a.alive THEN {Error(a)}
                  ELSE UNION {{Use(o) : o \in Receive(w, mayBeLate)} :
                              w \in {Accepted(a)} \cup (IF mayBeRefused THEN {Refused(a)} ELSE {})}
    IN IF actor.frontend # None THEN {Error(actor)}
       ELSE (UNION {IF o.ok THEN Ask(o.actor) ELSE {o} : o \in CompleteRender(actor, mayBeLate)})
            \cup (IF mayBeRefused THEN {Error(actor)} ELSE {})

(* What the worker does with a commit and with an abort. *)
Committed(actor) ==
    Answered([actor EXCEPT !.worker = IF actor.prepared # None THEN actor.prepared ELSE @,
                           !.prepared = None], "RestoreCommitted", None)
Aborted(actor) == Answered([actor EXCEPT !.prepared = None], "RestoreAborted", None)

(* Mutant of commit_restore: the handle keeps the chunk that it had. *)
CommitKeepsChunk(actor, mayBeLate) ==
    LET taken  == [actor EXCEPT !.frontend = None]
        Use(o) == IF Expected(o, "RestoreCommitted") THEN Ok(o.actor, None) ELSE Unexpected(o)
    IN IF actor.frontend = None \/ ~actor.alive THEN {Error(taken)}
       ELSE {Use(o) : o \in Receive(Committed(taken), mayBeLate)}

(* commit_restore *)
CommitRestore(actor, mayBeLate) ==
    LET taken  == [actor EXCEPT !.frontend = None]
        Use(o) == IF Expected(o, "RestoreCommitted")
                  THEN Ok([o.actor EXCEPT !.audio = actor.frontend, !.pending = FALSE], None)
                  ELSE Unexpected(o)
    IN IF actor.frontend = None \/ ~actor.alive THEN {Error(taken)}
       ELSE {Use(o) : o \in Receive(Committed(taken), mayBeLate)}

(* Mutant of abort_restore: the frontend buffers are left behind. *)
AbortKeepsFrontend(actor, mayBeLate) ==
    LET Use(o) == IF Expected(o, "RestoreAborted") THEN Ok(o.actor, None) ELSE Unexpected(o)
    IN IF actor.frontend = None THEN {Ok(actor, None)}
       ELSE IF ~actor.alive THEN {Error(actor)}
       ELSE {Use(o) : o \in Receive(Aborted(actor), mayBeLate)}

(* abort_restore *)
AbortRestore(actor, mayBeLate) ==
    LET taken  == [actor EXCEPT !.frontend = None]
        Use(o) == IF Expected(o, "RestoreAborted") THEN Ok(o.actor, None) ELSE Unexpected(o)
    IN IF actor.frontend = None THEN {Ok(actor, None)}
       ELSE IF ~actor.alive THEN {Error(taken)}
       ELSE {Use(o) : o \in Receive(Aborted(taken), mayBeLate)}

(* A panic: the worker is gone, and only the answers already sent remain. *)
Died(actor) ==
    {[actor EXCEPT !.alive = FALSE, !.answers = SubSeq(@, 1, n)] : n \in 0 .. Len(actor.answers)}
=============================================================================
