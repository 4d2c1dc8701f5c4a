----------------------------- MODULE Automation -----------------------------
(***************************************************************************)
(* neetan-auto orchestrate: an orchestrator runs scripts on at most Jobs   *)
(* worker threads, each worker has a watchdog thread while its script is   *)
(* evaluated, and both send to the orchestrator through one channel per    *)
(* script.  crates/automation/src/{orchestration,executor,watchdog}.rs.    *)
(*                                                                         *)
(* A script may end, fail or loop for ever; only an interrupt is sure to   *)
(* end it.  Of the messages only test cases, heartbeats and Finished are   *)
(* kept, the orchestrator ignores or merely prints the others.             *)
(***************************************************************************)
EXTENDS Naturals, Sequences, FiniteSets, SequencesExt

CONSTANTS
    Scripts,      \* the discovered scripts, as numbers in the order of their paths
    Jobs,         \* the values of --jobs: the most scripts that run at once
    MessageBurst, \* MAX_MESSAGES_PER_POLL
    Timeout,      \* heartbeats before the deadline
    MaxCases,     \* bound: test cases of each script
    Returns,      \* bound: the ends of a script that is not interrupted
    Panics,       \* may an executor thread panic?
    WriteFaults,  \* may writing the report fail?
    Fuel,         \* may a script use up its instruction fuel?
    None

ASSUME AutomationAssumption ==
    /\ Scripts \subseteq Nat /\ IsFiniteSet(Scripts)
    /\ Jobs \subseteq Nat \ {0} /\ MessageBurst \in Nat \ {0}
    /\ Timeout \in Nat /\ MaxCases \in [Scripts -> Nat]
    /\ Returns \subseteq {"Ok", "Error", "NoResult", "Rejected", "Runtime"}
    /\ {Panics, WriteFaults, Fuel} \subseteq BOOLEAN

VARIABLES
    \* the orchestrator
    jobs, pc, queue, active, index, burst, joining,
    passed, failed, termination,    \* fields of every ActiveScript
    finished, failed_files, passed_cases, failed_cases,
    result,
    \* the executor of each script
    worker, outcome, sent,          \* sent: the cases it reported, a history
    \* the watchdog of each script, and the flags it shares with the executor
    watchdog, beats, stop, deadline, cancel, interrupt,
    channel

orchestratorVars == <<pc, queue, active, index, burst, joining, passed, failed, termination,
                      finished, failed_files, passed_cases, failed_cases, result>>
workerVars == <<worker, outcome, sent>>
watchdogVars == <<watchdog, beats, deadline>>
vars == <<jobs, orchestratorVars, workerVars, watchdogVars, stop, cancel, interrupt, channel>>

Completed   == {"Ok", "Error"}
Termination == Completed \union {"NoResult", "Timeout", "Cancelled", "Rejected", "Runtime"}

Case(ok)    == [type |-> "case", ok |-> ok]
Progress    == [type |-> "progress"]
Finished(t) == [type |-> "finished", termination |-> t]
Message     == {Case(TRUE), Case(FALSE), Progress} \union {Finished(t) : t \in Termination}

Results == {"success", "failure", "write", "panicked", "no Finished"}

ASSUME NoneAssumption ==
    None \notin Scripts /\ None \notin Termination \union {"Limit", "Panic"} \union Results

(* discover_scripts: every script once, in the order of the paths. *)
InOrder(list) ==
    /\ \A s \in Scripts : \E i \in DOMAIN list : list[i] = s
    /\ \A i, j \in DOMAIN list : i < j => list[i] < list[j]

Init ==
    /\ jobs \in Jobs
    /\ pc = "fill" /\ active = <<>>
    /\ queue \in {list \in [1 .. Cardinality(Scripts) -> Scripts] : InOrder(list)}
    /\ index = 1 /\ burst = 0 /\ joining = None
    /\ passed = [s \in Scripts |-> 0] /\ failed = [s \in Scripts |-> 0]
    /\ termination = [s \in Scripts |-> None]
    /\ finished = 0 /\ failed_files = 0 /\ passed_cases = 0 /\ failed_cases = 0
    /\ result = None
    /\ worker = [s \in Scripts |-> "unborn"] /\ outcome = [s \in Scripts |-> None]
    /\ sent = [s \in Scripts |-> [passed |-> 0, failed |-> 0]]
    /\ watchdog = [s \in Scripts |-> "unborn"] /\ beats = [s \in Scripts |-> 0]
    /\ stop = [s \in Scripts |-> FALSE] /\ deadline = [s \in Scripts |-> FALSE]
    /\ cancel = [s \in Scripts |-> FALSE] /\ interrupt = [s \in Scripts |-> FALSE]
    /\ channel = [s \in Scripts |-> <<>>]

Send(s, message) == channel' = [channel EXCEPT ![s] = Append(@, message)]

-----------------------------------------------------------------------------
(* execute_script                                                          *)

WorkerGoes(s, to) == worker' = [worker EXCEPT ![s] = to]
Ended == {"ended", "panicked"}

(* Everything before the evaluation.  It ends with a configuration or      *)
(* compile error, or starts the watchdog.                                  *)
Setup(s) ==
    /\ worker[s] = "setup"
    /\ \/ /\ WorkerGoes(s, "eval")
          /\ watchdog' = [watchdog EXCEPT ![s] = "sleep"]
          /\ UNCHANGED outcome
       \/ /\ "Rejected" \in Returns
          /\ WorkerGoes(s, "finish")
          /\ outcome' = [outcome EXCEPT ![s] = "Rejected"]
          /\ UNCHANGED watchdog
       \/ /\ Panics
          /\ WorkerGoes(s, "panicked")
          /\ UNCHANGED <<outcome, watchdog>>
    /\ UNCHANGED <<orchestratorVars, sent, beats, deadline, stop, cancel, interrupt, channel>>

(* emit_test_case_result *)
EmitCase(s) ==
    /\ worker[s] = "eval"
    /\ sent[s].passed + sent[s].failed < MaxCases[s]
    /\ \E ok \in BOOLEAN :
          /\ Send(s, Case(ok))
          /\ sent' = IF ok THEN [sent EXCEPT ![s].passed = @ + 1]
                           ELSE [sent EXCEPT ![s].failed = @ + 1]
    /\ UNCHANGED <<orchestratorVars, worker, outcome, watchdogVars, stop, cancel, interrupt>>

EvalEnds(s, with) ==
    /\ worker[s] = "eval"
    /\ WorkerGoes(s, "stop")
    /\ outcome' = [outcome EXCEPT ![s] = with]
    /\ UNCHANGED <<orchestratorVars, sent, watchdogVars, stop, cancel, interrupt, channel>>

EvalReturns(s) == \E with \in Returns \ {"Rejected"} : EvalEnds(s, with)
EvalPanics(s)  == Panics /\ EvalEnds(s, "Panic")
FuelOut(s)     == Fuel /\ EvalEnds(s, "Limit")
Interrupted(s) == interrupt[s] /\ EvalEnds(s, "Limit")

(* Watchdog::stop, also when a panic unwinds run_inner. *)
StopWatchdog(s) ==
    /\ worker[s] = "stop"
    /\ stop' = [stop EXCEPT ![s] = TRUE]
    /\ WorkerGoes(s, "join")
    /\ UNCHANGED <<orchestratorVars, outcome, sent, watchdogVars, cancel, interrupt, channel>>

JoinWatchdog(s) ==
    /\ worker[s] = "join" /\ watchdog[s] = "ended"
    /\ WorkerGoes(s, IF outcome[s] = "Panic" THEN "panicked" ELSE "finish")
    /\ UNCHANGED <<orchestratorVars, outcome, sent, watchdogVars, stop, cancel, interrupt, channel>>

RunTermination(s) ==
    IF outcome[s] # "Limit" THEN outcome[s]
    ELSE IF cancel[s] /\ ~deadline[s] THEN "Cancelled" ELSE "Timeout"

(* The last message; then the thread returns and drops its sender. *)
Finish(s) ==
    /\ worker[s] = "finish"
    /\ outcome' = [outcome EXCEPT ![s] = RunTermination(s)]
    /\ Send(s, Finished(RunTermination(s)))
    /\ WorkerGoes(s, "ended")
    /\ UNCHANGED <<orchestratorVars, sent, watchdogVars, stop, cancel, interrupt>>

-----------------------------------------------------------------------------
(* The thread of Watchdog::spawn                                           *)

(* Mutant: the deadline raises only its flag, which pure Scheme never      *)
(* looks at.                                                               *)
WakeWithoutInterrupt(s) ==
    /\ watchdog[s] = "sleep"
    /\ LET due == beats[s] = Timeout
       IN  /\ watchdog' = [watchdog EXCEPT ![s] = IF stop[s] THEN "ended" ELSE "beat"]
           /\ beats' = [beats EXCEPT ![s] = IF stop[s] THEN 0 ELSE IF due THEN @ ELSE @ + 1]
           /\ deadline' = [deadline EXCEPT ![s] = @ \/ (~stop[s] /\ due)]
    /\ UNCHANGED <<orchestratorVars, workerVars, stop, cancel, interrupt, channel>>

(* After a sleep: look at the finished flag, then at the clock. *)
Wake(s) ==
    /\ watchdog[s] = "sleep"
    /\ LET due == beats[s] = Timeout
       IN  /\ watchdog' = [watchdog EXCEPT ![s] =
                             IF stop[s] THEN "ended"
                             ELSE IF due /\ ~deadline[s] THEN "trip" ELSE "beat"]
           /\ beats' = [beats EXCEPT ![s] = IF stop[s] THEN 0 ELSE IF due THEN @ ELSE @ + 1]
           /\ deadline' = [deadline EXCEPT ![s] = @ \/ (~stop[s] /\ due)]
    /\ UNCHANGED <<orchestratorVars, workerVars, stop, cancel, interrupt, channel>>

(* The second store of trip_deadline. *)
Trip(s) ==
    /\ watchdog[s] = "trip"
    /\ interrupt' = [interrupt EXCEPT ![s] = TRUE]
    /\ watchdog' = [watchdog EXCEPT ![s] = "beat"]
    /\ UNCHANGED <<orchestratorVars, workerVars, beats, deadline, stop, cancel, channel>>

(* A heartbeat, left out while an earlier one is still in the channel (a   *)
(* bound: the orchestrator does nothing with it).                          *)
Beat(s) ==
    /\ watchdog[s] = "beat"
    /\ IF Progress \in ToSet(channel[s]) THEN UNCHANGED channel ELSE Send(s, Progress)
    /\ watchdog' = [watchdog EXCEPT ![s] = "sleep"]
    /\ UNCHANGED <<orchestratorVars, workerVars, beats, deadline, stop, cancel, interrupt>>

-----------------------------------------------------------------------------
(* orchestrate                                                             *)

Disconnected(s) ==
    /\ channel[s] = <<>>
    /\ worker[s] \in Ended /\ watchdog[s] \in {"unborn", "ended"}

StartScript ==
    /\ pc = "fill" /\ Len(active) < jobs /\ queue # <<>>
    /\ active' = Append(active, Head(queue))
    /\ queue' = Tail(queue)
    /\ WorkerGoes(Head(queue), "setup")
    /\ UNCHANGED <<pc, index, burst, joining, passed, failed, termination, finished, failed_files,
                   passed_cases, failed_cases, result, outcome, sent, watchdogVars, stop, cancel,
                   interrupt, channel>>

StartRound ==
    /\ pc = "fill" /\ (Len(active) = jobs \/ queue = <<>>)
    /\ pc' = "poll" /\ index' = 1 /\ burst' = 0
    /\ UNCHANGED <<queue, active, joining, passed, failed, termination, finished, failed_files,
                   passed_cases, failed_cases, result, workerVars, watchdogVars, stop, cancel,
                   interrupt, channel>>

Polled == active[index]
Polling == pc = "poll" /\ index <= Len(active)

(* An error of the report leaves orchestrate and drops the active scripts. *)
GiveUp(error) == pc' = "drop" /\ result' = error /\ index' = 1

InBurst == burst < MessageBurst

(* try_recv gives a message: handle_message *)
Receive ==
    /\ Polling /\ InBurst /\ channel[Polled] # <<>>
    /\ LET s == Polled
           message == Head(channel[s])
       IN  /\ channel' = [channel EXCEPT ![s] = Tail(@)]
           /\ burst' = burst + 1
           /\ passed' = [passed EXCEPT ![s] = IF message = Case(TRUE) THEN @ + 1 ELSE @]
           /\ failed' = [failed EXCEPT ![s] = IF message = Case(FALSE) THEN @ + 1 ELSE @]
           /\ termination' = [termination EXCEPT
                 ![s] = IF message.type = "finished" THEN message.termination ELSE @]
           /\ \/ UNCHANGED <<pc, result, index>>
              \/ WriteFaults /\ message.type = "case" /\ GiveUp("write")
    /\ UNCHANGED <<queue, active, joining, finished, failed_files, passed_cases, failed_cases,
                   workerVars, watchdogVars, stop, cancel, interrupt>>

PollOver == Polling /\ (~InBurst \/ channel[Polled] = <<>>)

(* Mutant: a script is taken for ended as soon as its thread is. *)
EndedByThread(s) == worker[s] \in Ended

HasEnded(s) == termination[s] # None \/ (InBurst /\ Disconnected(s))

NextScript ==
    /\ PollOver /\ ~HasEnded(Polled)
    /\ index' = index + 1 /\ burst' = 0
    /\ UNCHANGED <<pc, queue, active, joining, passed, failed, termination, finished, failed_files,
                   passed_cases, failed_cases, result, workerVars, watchdogVars, stop, cancel,
                   interrupt, channel>>

(* Mutant: the last script is not moved into the gap but dropped with it. *)
Truncate(list, at) == SubSeq(list, 1, at - 1)

SwapRemove(list, at) ==
    IF at = Len(list) THEN Front(list) ELSE [Front(list) EXCEPT ![at] = Last(list)]

RemoveScript ==
    /\ PollOver /\ HasEnded(Polled)
    /\ joining' = Polled
    /\ active' = SwapRemove(active, index)
    /\ pc' = "join" /\ burst' = 0
    /\ UNCHANGED <<queue, index, passed, failed, termination, finished, failed_files, passed_cases,
                   failed_cases, result, workerVars, watchdogVars, stop, cancel, interrupt, channel>>

ScriptPassed(s) == termination[s] = "Ok" /\ failed[s] = 0

(* A script without cases or with an abnormal end counts as a case. *)
CountsItself(s) == passed[s] + failed[s] = 0 \/ termination[s] \notin Completed

(* finish_script, after the thread has been joined. *)
FinishScript ==
    /\ pc = "join" /\ worker[joining] \in Ended
    /\ joining' = None
    /\ LET s == joining
           own(counts) == IF counts /\ CountsItself(s) THEN 1 ELSE 0
       IN  \/ worker[s] = "panicked" /\ GiveUp("panicked")
              /\ UNCHANGED <<finished, failed_files, passed_cases, failed_cases>>
           \/ worker[s] # "panicked" /\ termination[s] = None /\ GiveUp("no Finished")
              /\ UNCHANGED <<finished, failed_files, passed_cases, failed_cases>>
           \/ /\ WriteFaults /\ worker[s] # "panicked" /\ termination[s] # None
              /\ CountsItself(s) /\ GiveUp("write")
              /\ UNCHANGED <<finished, failed_files, passed_cases, failed_cases>>
           \/ /\ worker[s] # "panicked" /\ termination[s] # None
              /\ finished' = finished + 1
              /\ failed_files' = failed_files + (IF ScriptPassed(s) THEN 0 ELSE 1)
              /\ passed_cases' = passed_cases + passed[s] + own(ScriptPassed(s))
              /\ failed_cases' = failed_cases + failed[s] + own(~ScriptPassed(s))
              /\ pc' = "poll" /\ UNCHANGED <<result, index>>
    /\ UNCHANGED <<queue, active, burst, passed, failed, termination, workerVars, watchdogVars,
                   stop, cancel, interrupt, channel>>

(* The end of a round over the active scripts, with the progress line and, *)
(* after the last round, the report.                                       *)
EndRound ==
    /\ pc = "poll" /\ index > Len(active)
    /\ \/ /\ queue # <<>> \/ active # <<>>
          /\ pc' = "fill" /\ UNCHANGED <<result, index>>
       \/ /\ queue = <<>> /\ active = <<>>
          /\ pc' = "done" /\ result' = (IF failed_files = 0 THEN "success" ELSE "failure")
          /\ UNCHANGED index
       \/ WriteFaults /\ GiveUp("write")
    /\ UNCHANGED <<queue, active, burst, joining, passed, failed, termination, finished,
                   failed_files, passed_cases, failed_cases, workerVars, watchdogVars, stop,
                   cancel, interrupt, channel>>

(* Drop for ActiveScript, one script after the other: request_cancel, join. *)
DropCancel ==
    /\ pc = "drop" /\ active # <<>>
    /\ cancel' = [cancel EXCEPT ![Head(active)] = TRUE]
    /\ interrupt' = [interrupt EXCEPT ![Head(active)] = TRUE]
    /\ pc' = "dropping"
    /\ UNCHANGED <<queue, active, index, burst, joining, passed, failed, termination, finished,
                   failed_files, passed_cases, failed_cases, result, workerVars, watchdogVars,
                   stop, channel>>

(* Mutant: a dropped script is cancelled and left to itself. *)
DropDetach ==
    /\ pc = "dropping"
    /\ active' = Tail(active) /\ pc' = "drop"
    /\ UNCHANGED <<queue, index, burst, joining, passed, failed, termination, finished,
                   failed_files, passed_cases, failed_cases, result, workerVars, watchdogVars,
                   stop, cancel, interrupt, channel>>

DropJoin ==
    /\ pc = "dropping" /\ worker[Head(active)] \in Ended
    /\ active' = Tail(active) /\ pc' = "drop"
    /\ UNCHANGED <<queue, index, burst, joining, passed, failed, termination, finished,
                   failed_files, passed_cases, failed_cases, result, workerVars, watchdogVars,
                   stop, cancel, interrupt, channel>>

DropDone ==
    /\ pc = "drop" /\ active = <<>>
    /\ pc' = "done"
    /\ UNCHANGED <<queue, active, index, burst, joining, passed, failed, termination, finished,
                   failed_files, passed_cases, failed_cases, result, workerVars, watchdogVars,
                   stop, cancel, interrupt, channel>>

-----------------------------------------------------------------------------
Orchestrate ==
    \/ StartScript \/ StartRound \/ Receive \/ NextScript \/ RemoveScript \/ FinishScript \/ EndRound
    \/ DropCancel \/ DropJoin \/ DropDone

(* What an executor does sooner or later, as against what its script may do. *)
Execute(s) ==
    Setup(s) \/ Interrupted(s) \/ StopWatchdog(s) \/ JoinWatchdog(s) \/ Finish(s)
RunScript(s) == EmitCase(s) \/ EvalReturns(s) \/ EvalPanics(s) \/ FuelOut(s)
Watch(s) == Wake(s) \/ Trip(s) \/ Beat(s)

(* After orchestrate has returned the program exits. *)
Returned == pc = "done" /\ UNCHANGED vars

Next ==
    /\ Orchestrate \/ Returned \/ \E s \in Scripts : Execute(s) \/ RunScript(s) \/ Watch(s)
    /\ UNCHANGED jobs

Spec == Init /\ [][Next]_vars

(* Every thread that can take a step takes one; a script owes nothing. *)
FairSpec ==
    /\ Spec
    /\ WF_vars(Orchestrate /\ UNCHANGED jobs)
    /\ \A s \in Scripts : WF_vars(Execute(s) /\ UNCHANGED jobs) /\ WF_vars(Watch(s) /\ UNCHANGED jobs)

-----------------------------------------------------------------------------
(* The types of the variables of orchestrate, run_inner and Watchdog. *)
TypeOK ==
    /\ jobs \in Jobs /\ pc \in {"fill", "poll", "join", "drop", "dropping", "done"}
    /\ queue \in Seq(Scripts) /\ active \in Seq(Scripts)
    /\ index \in Nat /\ burst \in 0 .. MessageBurst /\ joining \in Scripts \union {None}
    /\ passed \in [Scripts -> Nat] /\ failed \in [Scripts -> Nat]
    /\ termination \in [Scripts -> Termination \union {None}]
    /\ {finished, failed_files, passed_cases, failed_cases} \subseteq Nat
    /\ result \in Results \union {None}
    /\ worker \in [Scripts -> {"unborn", "setup", "eval", "stop", "join", "finish"} \union Ended]
    /\ outcome \in [Scripts -> Termination \union {"Limit", "Panic", None}]
    /\ sent \in [Scripts -> [passed : Nat, failed : Nat]]
    /\ watchdog \in [Scripts -> {"unborn", "sleep", "trip", "beat", "ended"}]
    /\ beats \in [Scripts -> 0 .. Timeout]
    /\ stop \in [Scripts -> BOOLEAN] /\ deadline \in [Scripts -> BOOLEAN]
    /\ cancel \in [Scripts -> BOOLEAN] /\ interrupt \in [Scripts -> BOOLEAN]
    /\ channel \in [Scripts -> Seq(Message)]

(* No more than jobs scripts have a thread at any time (swap_remove and    *)
(* the join before the next start see to it), and none has one when        *)
(* orchestrate returns, with a report or an error.                         *)
ThreadsBounded ==
    Cardinality({s \in Scripts : \/ worker[s] \notin Ended \union {"unborn"}
                                 \/ watchdog[s] \notin {"unborn", "ended"}})
        <= IF pc = "done" THEN 0 ELSE jobs

(* The two checks of finish_script: a thread that did not panic has sent   *)
(* Finished, and the orchestrator has received it.                         *)
FinishedAlwaysArrives == result # "no Finished"

(* orchestrate returns a verdict only when every script is counted, and    *)
(* the exit code is zero just if every script completed well without a     *)
(* failed case.                                                            *)
VerdictTruthful ==
    result \in {"success", "failure"} =>
        /\ finished = Cardinality(Scripts)
        /\ result = "success" <=> \A s \in Scripts : outcome[s] = "Ok" /\ sent[s].failed = 0

(* What a report counts: the cases of each script by their number, and as  *)
(* number 0 those scripts that count themselves.                           *)
Entries(scripts, own, cases) ==
    UNION {{s} \X ((IF s \in own THEN 0 ELSE 1) .. cases[s]) : s \in scripts}

(* The verdict is right, and the totals count every case a script sent     *)
(* exactly once, a script without cases and one that ended abnormally as   *)
(* one more.                                                               *)
ReportTruthful ==
    /\ VerdictTruthful
    /\ result \in {"success", "failure"} =>
        LET ok  == {s \in Scripts : outcome[s] = "Ok" /\ sent[s].failed = 0}
            own == {s \in Scripts : \/ sent[s].passed + sent[s].failed = 0
                                    \/ outcome[s] \notin Completed}
        IN  /\ passed_cases =
                Cardinality(Entries(Scripts, own \intersect ok, [s \in Scripts |-> sent[s].passed]))
            /\ failed_cases =
                Cardinality(Entries(Scripts, own \ ok, [s \in Scripts |-> sent[s].failed]))

(* protocol.rs: Timeout is "The cooperative deadline tripped." *)
TimeoutMeansDeadline == \A s \in Scripts : outcome[s] = "Timeout" => deadline[s]

(* orchestrate ends, though scripts may loop for ever and may be cancelled *)
(* at any point, even before their evaluation starts.                      *)
RunEnds == <>(pc = "done")
=============================================================================
