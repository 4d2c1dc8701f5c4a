-------------------------- MODULE AutomationProofs --------------------------
(***************************************************************************)
(* neetan-auto orchestrate, for every set of scripts, every number of jobs *)
(* and whatever the scripts do: no more than jobs of them have a thread at *)
(* a time and none has one when orchestrate returns (ThreadsBounded), the  *)
(* check of finish_script that a thread which did not panic has sent       *)
(* Finished never fails (FinishedAlwaysArrives), the exit code says        *)
(* whether every script passed, and the totals of the report count each    *)
(* case once (ReportTruthful).                                             *)
(*                                                                         *)
(* AutoInv is inductive.  Its core is Orderly: Finished is the last        *)
(* message of a script, and it is sent only when the watchdog, the other   *)
(* sender, has been joined.  TotalInv, inductive with it, is about the     *)
(* number of cases: a case sent has arrived or is in the channel, and the  *)
(* totals are those of the scripts that are settled.                       *)
(***************************************************************************)
EXTENDS Automation, FiniteSetTheorems, SequenceTheorems, TLAPS

Working == {"setup", "eval", "stop", "join", "finish"}

Types ==
    /\ jobs \in Nat /\ index \in Nat \ {0} /\ finished \in Nat /\ failed_files \in Nat
    /\ pc \in {"fill", "poll", "join", "drop", "dropping", "done"}
    /\ queue \in Seq(Scripts) /\ active \in Seq(Scripts) /\ joining \in Scripts \union {None}
    /\ failed \in [Scripts -> Nat] /\ termination \in [Scripts -> Termination \union {None}]
    /\ worker \in [Scripts -> Working \union {"unborn", "ended", "panicked"}]
    /\ outcome \in [Scripts -> Termination \union {"Limit", "Panic", None}]
    /\ sent \in [Scripts -> [passed : Nat, failed : Nat]]
    /\ watchdog \in [Scripts -> {"unborn", "sleep", "trip", "beat", "ended"}]
    /\ channel \in [Scripts -> Seq(Message)]

(* One script: its worker w with outcome o, its watchdog d, the messages   *)
(* ch on their way, and what the orchestrator received, the termination t. *)
(* Finished comes last, and the watchdog is joined before it is sent.      *)
Orderly(w, o, d, ch, t) ==
    /\ w \in {"unborn", "setup"} => d = "unborn"
    /\ w \in {"finish", "ended", "panicked"} => d \in {"unborn", "ended"}
    /\ w \in {"stop", "join"} => o # None
    /\ w = "finish" => o \notin {None, "Panic"}
    /\ w = "ended" => /\ o \in Termination
                      /\ \/ t = o /\ ch = <<>>
                         \/ t = None /\ ch # <<>> /\ ch[Len(ch)] = Finished(o)
    /\ w # "ended" => t = None
    /\ \A i \in 1 .. Len(ch) : ch[i].type = "finished" => w = "ended" /\ i = Len(ch)

(* The failed cases: f were sent, n arrived, the others are in ch. *)
Counted(f, ch, n) == f = 0 <=> n = 0 /\ \A i \in 1 .. Len(ch) : ch[i] # Case(FALSE)

In(list, s) == \E i \in 1 .. Len(list) : list[i] = s

Sound(s) ==
    /\ Orderly(worker[s], outcome[s], watchdog[s], channel[s], termination[s])
    /\ Counted(sent[s].failed, channel[s], failed[s])
    /\ worker[s] \in Working => In(active, s)

(* The orchestrator's list of threads, and the one it joins, which is over. *)
Slots ==
    /\ Len(active) <= jobs
    /\ joining # None <=> pc = "join"
    /\ joining # None => \/ termination[joining] # None
                         \/ channel[joining] = <<>> /\ worker[joining] \in Ended
    /\ pc = "dropping" => active # <<>>
    /\ pc = "done" => active = <<>>

Waiting ==
    /\ \A i \in 1 .. Len(queue) : worker[queue[i]] = "unborn"
    /\ \A i, j \in 1 .. Len(queue) : queue[i] = queue[j] => i = j

Held(s)   == In(queue, s) \/ In(active, s) \/ joining = s
Closed(s) == worker[s] = "ended" /\ termination[s] # None
Open      == pc \in {"fill", "poll", "join"}
Joins     == IF joining # None THEN 1 ELSE 0

(* The books of the orchestrator, while no error has ended its loop. *)
Books ==
    /\ Open => /\ result = None
               /\ finished + Len(queue) + Len(active) + Joins = Cardinality(Scripts)
               /\ \A s \in Scripts : Held(s) \/ Closed(s)
               /\ failed_files = 0 => \A s \in Scripts : Held(s) \/ ScriptPassed(s)
               /\ failed_files # 0 => \E s \in Scripts : Closed(s) /\ ~ScriptPassed(s)
    /\ result # "no Finished"

Verdict ==
    /\ result \in {"success", "failure"} => pc = "done" /\ \A s \in Scripts : worker[s] = "ended"
    /\ VerdictTruthful

AutoInv == Types /\ (\A s \in Scripts : Sound(s)) /\ Slots /\ Waiting /\ Books /\ Verdict

-----------------------------------------------------------------------------
(* Messages, and what the channel of a script holds.                       *)

(* Only Finished has that type, and a case that failed is not one that     *)
(* passed.                                                                 *)
LEMMA MessageKinds ==
    /\ \A ok \in BOOLEAN : Case(ok) \in Message /\ Case(ok).type = "case"
    /\ Case(TRUE) # Case(FALSE)
    /\ Progress \in Message /\ Progress.type = "progress" /\ Progress # Case(FALSE)
    /\ \A t \in Termination : /\ Finished(t) \in Message /\ Finished(t).type = "finished"
                              /\ Finished(t).termination = t /\ Finished(t) # Case(FALSE)
    /\ \A m \in Message : m.type = "finished" => m.termination \in Termination
<1>1. Case(TRUE) # Case(FALSE)
  <2>1. Case(TRUE).ok = TRUE /\ Case(FALSE).ok = FALSE
    BY DEF Case
  <2> QED
    BY <2>1
<1>2. Progress.type = "progress" /\ Case(FALSE).type = "case" /\ Case(TRUE).type = "case"
  BY DEF Progress, Case
<1>3. \A t \in Termination : Finished(t).type = "finished" /\ Finished(t).termination = t
  BY DEF Finished
<1>4. \A m \in Message : m.type = "finished" => \E t \in Termination : m = Finished(t)
  BY <1>2 DEF Message
<1>5. \A ok \in BOOLEAN : ok = TRUE \/ ok = FALSE
  OBVIOUS
<1> QED
  BY <1>1, <1>2, <1>3, <1>4, <1>5 DEF Message

(* The channel c2 is ch with m at its end, or ch without its head. *)
Longer(ch, m, c2) ==
    /\ Len(ch) \in Nat /\ Len(c2) = Len(ch) + 1 /\ c2 # <<>> /\ c2[Len(ch) + 1] = m
    /\ \A i \in 1 .. Len(ch) : c2[i] = ch[i]
Shorter(ch, m, c2) ==
    /\ Len(c2) \in Nat /\ Len(ch) = Len(c2) + 1 /\ ch[1] = m
    /\ \A i \in 1 .. Len(c2) : c2[i] = ch[i + 1]
    /\ Len(c2) = 0 <=> c2 = <<>>

LEMMA ChannelSteps ==
    ASSUME NEW ch \in Seq(Message)
    PROVE  /\ \A m \in Message : Append(ch, m) \in Seq(Message) /\ Longer(ch, m, Append(ch, m))
           /\ ch # <<>> => /\ Tail(ch) \in Seq(Message) /\ Head(ch) \in Message
                           /\ Shorter(ch, Head(ch), Tail(ch))
<1>1. ASSUME NEW m \in Message
      PROVE  Append(ch, m) \in Seq(Message) /\ Longer(ch, m, Append(ch, m))
  <2>1. Append(ch, m) \in Seq(Message) /\ Append(ch, m) # <<>> /\ Len(ch) \in Nat
    BY AppendProperties, LenProperties
  <2> QED
    BY <2>1, AppendProperties DEF Longer
<1>2. ASSUME ch # <<>>
      PROVE  Tail(ch) \in Seq(Message) /\ Head(ch) \in Message /\ Shorter(ch, Head(ch), Tail(ch))
  <2>1. /\ Tail(ch) \in Seq(Message) /\ Head(ch) \in Message /\ Len(Tail(ch)) = Len(ch) - 1
        /\ \A i \in 1 .. Len(Tail(ch)) : Tail(ch)[i] = ch[i + 1]
    BY <1>2, HeadTailProperties
  <2>2. Len(Tail(ch)) \in Nat /\ Len(ch) \in Nat /\ (Len(Tail(ch)) = 0 <=> Tail(ch) = <<>>)
    BY <2>1, EmptySeq, LenProperties
  <2>3. Head(ch) = ch[1]
    OBVIOUS
  <2> QED
    BY <2>1, <2>2, <2>3 DEF Shorter
<1> QED
  BY <1>1, <1>2

(* A message other than Finished, sent while the thread runs. *)
LEMMA OrderlySend ==
    ASSUME NEW w, NEW o, NEW d, NEW t, NEW ch, NEW m, NEW c2, Longer(ch, m, c2),
           m.type # "finished", w # "ended", Orderly(w, o, d, ch, t)
    PROVE  Orderly(w, o, d, c2, t)
<1>1. ASSUME NEW i \in 1 .. Len(c2) PROVE c2[i].type # "finished"
  BY DEF Orderly, Longer
<1> QED
  BY <1>1 DEF Orderly

(* Finished, sent when the watchdog has been joined. *)
LEMMA OrderlyFinish ==
    ASSUME NEW o, NEW d, NEW t, NEW ch, NEW o2 \in Termination, NEW c2,
           Longer(ch, Finished(o2), c2), Orderly("finish", o, d, ch, t)
    PROVE  Orderly("ended", o2, d, c2, t)
<1>1. ASSUME NEW i \in 1 .. Len(c2), c2[i].type = "finished" PROVE i = Len(c2)
  BY <1>1 DEF Orderly, Longer
<1>2. c2 # <<>> /\ c2[Len(c2)] = Finished(o2)
  BY DEF Longer
<1> QED
  BY <1>1, <1>2 DEF Orderly

(* What the orchestrator knows after a message: it has the termination     *)
(* only when the channel is empty for good.                                *)
Known(m, t) == IF m.type = "finished" THEN m.termination ELSE t

LEMMA OrderlyReceive ==
    ASSUME NEW w, NEW o, NEW d, NEW t, NEW ch, ch # <<>>, NEW m, NEW c2, Shorter(ch, m, c2),
           Orderly(w, o, d, ch, t)
    PROVE  /\ Orderly(w, o, d, c2, Known(m, t))
           /\ w = "ended" => t = None
<1>1. Len(c2) \in Nat /\ Len(ch) = Len(c2) + 1 /\ (c2 = <<>> <=> Len(c2) = 0) /\ ch[1] = m
  BY DEF Shorter
<1>2. t = None
  BY DEF Orderly
<1>3. ASSUME NEW i \in 1 .. Len(c2), c2[i].type = "finished" PROVE w = "ended" /\ i = Len(c2)
  BY <1>1, <1>3 DEF Shorter, Orderly
<1>4. CASE w = "ended"
  <2>1. o \in Termination /\ ch[Len(ch)] = Finished(o)
    BY <1>4 DEF Orderly
  <2>2. CASE Len(c2) = 0
    <3>1. c2 = <<>> /\ m = Finished(o)
      BY <1>1, <2>1, <2>2
    <3>2. Known(m, t) = o
      BY <3>1, <2>1, MessageKinds, Zenon DEF Known
    <3>3. Orderly(w, o, d, c2, o)
      BY <3>1, <1>3, <1>4, <2>1, Zenon DEF Orderly
    <3> QED
      BY <3>2, <3>3, <1>2
  <2>3. CASE Len(c2) # 0
    <3>1. Known(m, t) = None
      BY <1>1, <1>2, <2>3 DEF Known, Orderly
    <3>2. c2 # <<>> /\ c2[Len(c2)] = Finished(o)
      BY <1>1, <2>1, <2>3 DEF Shorter
    <3> QED
      BY <3>1, <3>2, <1>2, <1>3, <1>4, <2>1 DEF Orderly
  <2> QED
    BY <2>2, <2>3
<1>5. CASE w # "ended"
  <2>1. Known(m, t) = None
    BY <1>1, <1>2, <1>5 DEF Known, Orderly
  <2> QED
    BY <2>1, <1>2, <1>3, <1>5 DEF Orderly
<1> QED
  BY <1>4, <1>5

LEMMA CountedSend ==
    ASSUME NEW f \in Nat, NEW n \in Nat, NEW ch, NEW m, NEW c2, Longer(ch, m, c2), Counted(f, ch, n)
    PROVE  Counted(IF m = Case(FALSE) THEN f + 1 ELSE f, c2, n)
<1>1. Len(ch) + 1 \in 1 .. Len(c2) /\ c2[Len(ch) + 1] = m
  BY DEF Longer
<1>2. CASE m = Case(FALSE)
  <2>1. ~ \A i \in 1 .. Len(c2) : c2[i] # Case(FALSE)
    BY <1>1, <1>2
  <2>2. (IF m = Case(FALSE) THEN f + 1 ELSE f) # 0
    BY <1>2
  <2> QED
    BY <2>1, <2>2, Zenon DEF Counted
<1>3. CASE m # Case(FALSE)
  <2>1. \A i \in 1 .. Len(c2) : i \in 1 .. Len(ch) \/ c2[i] = m
    BY DEF Longer
  <2>2. \A i \in 1 .. Len(ch) : c2[i] = ch[i] /\ i \in 1 .. Len(c2)
    BY DEF Longer
  <2> QED
    BY <1>3, <2>1, <2>2 DEF Counted
<1> QED
  BY <1>2, <1>3

LEMMA CountedReceive ==
    ASSUME NEW f \in Nat, NEW n \in Nat, NEW ch, NEW m, NEW c2, Shorter(ch, m, c2), Counted(f, ch, n)
    PROVE  Counted(f, c2, IF m = Case(FALSE) THEN n + 1 ELSE n)
<1>1. 1 \in 1 .. Len(ch) /\ ch[1] = m
  BY DEF Shorter
<1>2. CASE m = Case(FALSE)
  <2>1. ~ \A i \in 1 .. Len(ch) : ch[i] # Case(FALSE)
    BY <1>1, <1>2
  <2>2. (IF m = Case(FALSE) THEN n + 1 ELSE n) # 0
    BY <1>2
  <2> QED
    BY <2>1, <2>2, Zenon DEF Counted
<1>3. CASE m # Case(FALSE)
  <2>1. \A i \in 1 .. Len(ch) : ch[i] = m \/ (i - 1 \in 1 .. Len(c2) /\ c2[i - 1] = ch[i])
    BY DEF Shorter
  <2>2. \A i \in 1 .. Len(c2) : c2[i] = ch[i + 1] /\ i + 1 \in 1 .. Len(ch)
    BY DEF Shorter
  <2> QED
    BY <1>3, <2>1, <2>2 DEF Counted
<1> QED
  BY <1>2, <1>3

-----------------------------------------------------------------------------
(* The threads of a script.                                                *)

(* Only what belongs to the script s changes. *)
OnlyOf(s) ==
    /\ UNCHANGED <<jobs, orchestratorVars>>
    /\ \A r \in Scripts \ {s} : /\ worker'[r] = worker[r] /\ outcome'[r] = outcome[r]
                                /\ watchdog'[r] = watchdog[r] /\ channel'[r] = channel[r]
                                /\ sent'[r] = sent[r]

(* A script with a thread that runs is neither queued nor joined nor       *)
(* closed, so a step of its threads concerns the script alone.             *)
LEMMA LocalStep ==
    ASSUME AutoInv, NEW s \in Scripts, worker[s] \in Working, OnlyOf(s), Types',
           worker'[s] # "unborn",
           Orderly(worker'[s], outcome'[s], watchdog'[s], channel'[s], termination[s]),
           Counted(sent'[s].failed, channel'[s], failed[s])
    PROVE  AutoInv'
<1>0. UNCHANGED <<jobs, pc, queue, active, index, joining, failed, termination, finished,
                  failed_files, result>>
  BY DEF OnlyOf, orchestratorVars
<1>1. worker[s] \notin Ended /\ worker[s] # "unborn" /\ termination[s] = None /\ In(active, s)
  BY DEF AutoInv, Sound, Orderly, Working, Ended
<1>2. joining # s
  <2>1. s # None
    BY NoneAssumption
  <2>2. joining # None => \/ termination[joining] # None
                          \/ channel[joining] = <<>> /\ worker[joining] \in Ended
    BY DEF AutoInv, Slots
  <2> QED
    BY <1>1, <2>1, <2>2
<1>3. \A i \in 1 .. Len(queue) : queue[i] # s /\ queue[i] \in Scripts
  <2>1. queue \in Seq(Scripts) /\ \A i \in 1 .. Len(queue) : worker[queue[i]] = "unborn"
    BY DEF AutoInv, Types, Waiting
  <2>2. \A i \in 1 .. Len(queue) : queue[i] \in Scripts
    BY <2>1
  <2> QED
    BY <1>1, <2>1, <2>2, Zenon
<1>4. \A r \in Scripts : Sound(r)'
  <2> SUFFICES ASSUME NEW r \in Scripts PROVE Sound(r)'
    OBVIOUS
  <2>1. Sound(r)
    BY DEF AutoInv
  <2>2. CASE r = s
    BY <2>2, <1>0, <1>1 DEF Sound, In
  <2>3. CASE r # s
    <3>1. /\ worker'[r] = worker[r] /\ outcome'[r] = outcome[r] /\ watchdog'[r] = watchdog[r]
          /\ channel'[r] = channel[r] /\ sent'[r] = sent[r]
      BY <2>3 DEF OnlyOf
    <3> QED
      BY <2>1, <3>1, <1>0 DEF Sound, In
  <2> QED
    BY <2>2, <2>3
<1>5. Slots'
  <2>1. joining # None => /\ joining \in Scripts \ {s} /\ channel'[joining] = channel[joining]
                          /\ worker'[joining] = worker[joining]
    BY <1>2 DEF AutoInv, Types, OnlyOf
  <2> QED
    BY <1>0, <2>1 DEF AutoInv, Slots
<1>6. Waiting'
  <2>1. \A i \in 1 .. Len(queue) : worker'[queue[i]] = worker[queue[i]]
    BY <1>3 DEF OnlyOf
  <2> QED
    BY <1>0, <2>1 DEF AutoInv, Waiting
<1>7. \A r \in Scripts : (Held(r)' <=> Held(r)) /\ (ScriptPassed(r)' <=> ScriptPassed(r))
  BY <1>0 DEF Held, In, ScriptPassed
<1>8. \A r \in Scripts : r # s => (Closed(r)' <=> Closed(r))
  BY <1>0 DEF Closed, OnlyOf
<1>9. ~Closed(s) /\ Held(s)
  BY <1>1 DEF Closed, Held
<1>10. Books'
  BY <1>0, <1>7, <1>8, <1>9 DEF AutoInv, Books, Open, Joins
<1>11. Verdict'
  <2>1. result \notin {"success", "failure"}
    BY <1>1 DEF AutoInv, Verdict, Ended
  <2> QED
    BY <2>1, <1>0 DEF Verdict, VerdictTruthful
<1> QED
  BY <1>4, <1>5, <1>6, <1>10, <1>11 DEF AutoInv

(* What the invariant says of the script whose thread takes a step. *)
LEMMA OfScript ==
    ASSUME AutoInv, NEW s \in Scripts
    PROVE  /\ Orderly(worker[s], outcome[s], watchdog[s], channel[s], termination[s])
           /\ Counted(sent[s].failed, channel[s], failed[s])
           /\ sent[s].failed \in Nat /\ failed[s] \in Nat /\ channel[s] \in Seq(Message)
           /\ Types
BY DEF AutoInv, Sound, Types

LEMMA SetupStep ==
    ASSUME AutoInv, NEW s \in Scripts, Setup(s), UNCHANGED jobs PROVE AutoInv'
<1>0. worker[s] = "setup" /\ UNCHANGED <<jobs, orchestratorVars, sent, channel>>
  BY DEF Setup
<1>1. /\ worker' = [worker EXCEPT ![s] = worker'[s]] /\ worker'[s] \in {"eval", "finish", "panicked"}
      /\ outcome' = [outcome EXCEPT ![s] = outcome'[s]]
      /\ watchdog' = [watchdog EXCEPT ![s] = watchdog'[s]]
      /\ worker'[s] = "finish" => outcome'[s] = "Rejected" /\ watchdog'[s] = watchdog[s]
      /\ worker'[s] = "panicked" => watchdog'[s] = watchdog[s]
      /\ watchdog'[s] \in {"sleep", watchdog[s]} /\ outcome'[s] \in {"Rejected", outcome[s]}
  BY OfScript DEF Setup, WorkerGoes, Types
<1>2. OnlyOf(s)
  BY <1>0, <1>1, OfScript DEF OnlyOf, Types
<1>3. Types'
  BY <1>0, <1>1, OfScript DEF Types, orchestratorVars, Working, Termination, Completed
<1>4. Orderly(worker'[s], outcome'[s], watchdog'[s], channel'[s], termination[s])
  BY <1>0, <1>1, OfScript, NoneAssumption DEF Orderly, Termination
<1>5. Counted(sent'[s].failed, channel'[s], failed[s])
  BY <1>0, OfScript
<1> QED
  BY <1>0, <1>1, <1>2, <1>3, <1>4, <1>5, LocalStep DEF Working

LEMMA EmitCaseStep ==
    ASSUME AutoInv, NEW s \in Scripts, EmitCase(s), UNCHANGED jobs PROVE AutoInv'
<1>0. worker[s] = "eval" /\ UNCHANGED <<jobs, orchestratorVars, worker, outcome, watchdog>>
  BY DEF EmitCase, watchdogVars
<1>1. PICK ok \in BOOLEAN :
         /\ channel' = [channel EXCEPT ![s] = Append(@, Case(ok))]
         /\ sent' = IF ok THEN [sent EXCEPT ![s].passed = @ + 1]
                          ELSE [sent EXCEPT ![s].failed = @ + 1]
  BY DEF EmitCase, Send
<1>2. /\ channel' = [channel EXCEPT ![s] = channel'[s]] /\ channel'[s] = Append(channel[s], Case(ok))
      /\ sent' = [sent EXCEPT ![s] = sent'[s]] /\ sent'[s] \in [passed : Nat, failed : Nat]
      /\ sent'[s].failed = IF ok THEN sent[s].failed ELSE sent[s].failed + 1
  <2>1. sent[s] \in [passed : Nat, failed : Nat] /\ sent \in [Scripts -> [passed : Nat, failed : Nat]]
    BY OfScript DEF Types
  <2>2. channel' = [channel EXCEPT ![s] = channel'[s]] /\ channel'[s] = Append(channel[s], Case(ok))
    BY <1>1, OfScript DEF Types
  <2>3. CASE ok
    <3> DEFINE now == [sent[s] EXCEPT !.passed = @ + 1]
    <3>1. now \in [passed : Nat, failed : Nat] /\ now.failed = sent[s].failed
      BY <2>1
    <3>2. sent' = [sent EXCEPT ![s] = now]
      BY <1>1, <2>3
    <3> HIDE DEF now
    <3> QED
      BY <2>1, <2>2, <2>3, <3>1, <3>2
  <2>4. CASE ~ok
    <3> DEFINE now == [sent[s] EXCEPT !.failed = @ + 1]
    <3>1. now \in [passed : Nat, failed : Nat] /\ now.failed = sent[s].failed + 1
      BY <2>1
    <3>2. sent' = [sent EXCEPT ![s] = now]
      BY <1>1, <2>4
    <3> HIDE DEF now
    <3> QED
      BY <2>1, <2>2, <2>4, <3>1, <3>2
  <2> QED
    BY <2>3, <2>4
<1>3. Case(ok) \in Message /\ Case(ok).type # "finished" /\ (Case(ok) = Case(FALSE) <=> ~ok)
  BY MessageKinds
<1>4. channel'[s] \in Seq(Message) /\ Longer(channel[s], Case(ok), channel'[s])
  BY <1>2, <1>3, OfScript, ChannelSteps
<1>5. OnlyOf(s)
  BY <1>0, <1>2, OfScript DEF OnlyOf, Types
<1>6. Types'
  BY <1>0, <1>2, <1>4, OfScript DEF Types, orchestratorVars
<1>7. Orderly(worker'[s], outcome'[s], watchdog'[s], channel'[s], termination[s])
  BY <1>0, <1>3, <1>4, OfScript, OrderlySend
<1>8. Counted(sent'[s].failed, channel'[s], failed[s])
  <2>1. sent'[s].failed = IF Case(ok) = Case(FALSE) THEN sent[s].failed + 1 ELSE sent[s].failed
    BY <1>2, <1>3
  <2> QED
    BY <2>1, <1>4, OfScript, CountedSend
<1> QED
  BY <1>0, <1>5, <1>6, <1>7, <1>8, LocalStep DEF Working

(* The steps of a worker that send nothing: the evaluation ends, the       *)
(* watchdog is stopped, the watchdog is joined.                            *)
LEMMA QuietStep ==
    ASSUME AutoInv, NEW s \in Scripts, worker[s] \in Working, UNCHANGED <<jobs, orchestratorVars>>,
           UNCHANGED <<sent, watchdog, channel>>,
           NEW w \in Working \union {"panicked"}, WorkerGoes(s, w), w # "setup",
           NEW o \in Termination \union {"Limit", "Panic", None},
           outcome' = [outcome EXCEPT ![s] = o],
           w \in {"finish", "panicked"} => watchdog[s] \in {"unborn", "ended"},
           w \in {"stop", "join"} => o # None,
           w = "finish" => o \notin {None, "Panic"}
    PROVE  AutoInv'
<1>1. worker' = [worker EXCEPT ![s] = w] /\ worker'[s] = w /\ outcome'[s] = o
  BY OfScript DEF WorkerGoes, Types
<1>2. OnlyOf(s)
  BY <1>1, OfScript DEF OnlyOf, Types
<1>3. Types'
  BY <1>1, OfScript DEF Types, orchestratorVars
<1>4. Orderly(w, o, watchdog[s], channel[s], termination[s])
  <2>1. worker[s] # "ended" /\ w \notin {"ended", "unborn"}
    BY DEF Working
  <2> QED
    BY <2>1, OfScript DEF Orderly
<1> QED
  BY <1>1, <1>2, <1>3, <1>4, OfScript, LocalStep DEF Working

LEMMA EvalEndsStep ==
    ASSUME AutoInv, NEW s \in Scripts, NEW with \in Termination \union {"Limit", "Panic"},
           EvalEnds(s, with), UNCHANGED jobs
    PROVE  AutoInv'
<1>1. with # None
  BY NoneAssumption
<1>2. /\ worker[s] = "eval" /\ UNCHANGED <<jobs, orchestratorVars>> /\ UNCHANGED <<sent, watchdog, channel>>
      /\ WorkerGoes(s, "stop") /\ outcome' = [outcome EXCEPT ![s] = with]
  BY DEF EvalEnds, watchdogVars
<1>3. /\ worker[s] \in Working /\ "stop" \in Working \union {"panicked"}
      /\ "stop" \notin {"setup", "finish", "panicked"}
      /\ with \in Termination \union {"Limit", "Panic", None}
  BY <1>2 DEF Working
<1> QED
  BY <1>1, <1>2, <1>3, QuietStep

LEMMA StopWatchdogStep ==
    ASSUME AutoInv, NEW s \in Scripts, StopWatchdog(s), UNCHANGED jobs PROVE AutoInv'
<1>1. /\ worker[s] = "stop" /\ UNCHANGED <<jobs, orchestratorVars>> /\ UNCHANGED <<sent, watchdog, channel>>
      /\ WorkerGoes(s, "join") /\ outcome' = outcome
  BY DEF StopWatchdog, watchdogVars
<1>2. outcome[s] # None /\ outcome[s] \in Termination \union {"Limit", "Panic", None}
  BY <1>1, OfScript DEF Orderly, Types
<1>3. outcome' = [outcome EXCEPT ![s] = outcome[s]]
  BY <1>1, OfScript DEF Types
<1>4. /\ worker[s] \in Working /\ "join" \in Working \union {"panicked"}
      /\ "join" \notin {"setup", "finish", "panicked"}
  BY <1>1 DEF Working
<1> QED
  BY <1>1, <1>2, <1>3, <1>4, QuietStep

LEMMA JoinWatchdogStep ==
    ASSUME AutoInv, NEW s \in Scripts, JoinWatchdog(s), UNCHANGED jobs PROVE AutoInv'
<1> DEFINE w == IF outcome[s] = "Panic" THEN "panicked" ELSE "finish"
<1>1. /\ worker[s] = "join" /\ watchdog[s] = "ended"
      /\ UNCHANGED <<jobs, orchestratorVars>> /\ UNCHANGED <<sent, watchdog, channel>>
      /\ WorkerGoes(s, w) /\ outcome' = outcome
  BY DEF JoinWatchdog, watchdogVars
<1>2. outcome[s] # None /\ outcome[s] \in Termination \union {"Limit", "Panic", None}
  BY <1>1, OfScript DEF Orderly, Types
<1>3. outcome' = [outcome EXCEPT ![s] = outcome[s]]
  BY <1>1, OfScript DEF Types
<1>4. w \in Working \union {"panicked"} /\ w # "setup" /\ (w = "finish" => outcome[s] # "Panic")
      /\ w \notin {"stop", "join"}
  BY DEF Working
<1> HIDE DEF w
<1> QED
  BY <1>1, <1>2, <1>3, <1>4, QuietStep DEF Working

LEMMA FinishStep ==
    ASSUME AutoInv, NEW s \in Scripts, Finish(s), UNCHANGED jobs PROVE AutoInv'
<1> DEFINE o == RunTermination(s)
<1>1. /\ worker[s] = "finish"
      /\ UNCHANGED <<jobs, orchestratorVars>> /\ UNCHANGED <<sent, watchdog>>
      /\ worker' = [worker EXCEPT ![s] = "ended"] /\ outcome' = [outcome EXCEPT ![s] = o]
      /\ channel' = [channel EXCEPT ![s] = Append(@, Finished(o))]
  BY DEF Finish, WorkerGoes, Send, watchdogVars
<1>2. o \in Termination
  <2>1. outcome[s] \in Termination \union {"Limit"}
    BY <1>1, OfScript DEF Orderly, Types
  <2> QED
    BY <2>1 DEF RunTermination, Termination
<1>3. Finished(o) \in Message /\ Finished(o).type = "finished" /\ Finished(o) # Case(FALSE)
  BY <1>2, MessageKinds
<1> HIDE DEF o
<1>4. /\ worker'[s] = "ended" /\ outcome'[s] = o /\ channel'[s] = Append(channel[s], Finished(o))
  BY <1>1, OfScript DEF Types
<1>5. channel'[s] \in Seq(Message) /\ Longer(channel[s], Finished(o), channel'[s])
  BY <1>3, <1>4, OfScript, ChannelSteps
<1>6. OnlyOf(s)
  BY <1>1, OfScript DEF OnlyOf, Types
<1>7. Types'
  BY <1>1, <1>2, <1>4, <1>5, OfScript DEF Types, orchestratorVars
<1>8. Orderly(worker'[s], outcome'[s], watchdog'[s], channel'[s], termination[s])
  BY <1>1, <1>2, <1>4, <1>5, OfScript, OrderlyFinish
<1>9. Counted(sent'[s].failed, channel'[s], failed[s])
  BY <1>1, <1>3, <1>5, OfScript, CountedSend
<1> QED
  BY <1>1, <1>4, <1>6, <1>7, <1>8, <1>9, LocalStep DEF Working

(* A watchdog takes a step only while its worker runs. *)
LEMMA WatchStep ==
    ASSUME AutoInv, NEW s \in Scripts, Watch(s), UNCHANGED jobs PROVE AutoInv'
<1>1. /\ UNCHANGED <<jobs, orchestratorVars, worker, outcome, sent>>
      /\ watchdog[s] \in {"sleep", "trip", "beat"}
      /\ watchdog' = [watchdog EXCEPT ![s] = watchdog'[s]]
      /\ watchdog'[s] \in {"sleep", "trip", "beat", "ended"}
      /\ channel' = channel \/ channel' = [channel EXCEPT ![s] = Append(@, Progress)]
  BY OfScript DEF Watch, Wake, Trip, Beat, Send, workerVars, Types
<1>2. worker[s] \in {"eval", "stop", "join"}
  BY <1>1, OfScript DEF Types, Orderly, Working
<1>3. Orderly(worker[s], outcome[s], watchdog'[s], channel[s], termination[s])
  BY <1>1, <1>2, OfScript DEF Orderly
<1>4. Progress \in Message /\ Progress.type # "finished" /\ Progress # Case(FALSE)
  BY MessageKinds
<1>5. /\ channel' = [channel EXCEPT ![s] = channel'[s]] /\ channel'[s] \in Seq(Message)
      /\ channel'[s] = channel[s] \/ Longer(channel[s], Progress, channel'[s])
  <2>1. CASE channel' = channel
    BY <2>1, OfScript DEF Types
  <2>2. CASE channel' = [channel EXCEPT ![s] = Append(@, Progress)]
    <3>1. channel'[s] = Append(channel[s], Progress) /\ channel' = [channel EXCEPT ![s] = channel'[s]]
      BY <2>2, OfScript DEF Types
    <3> QED
      BY <3>1, <1>4, OfScript, ChannelSteps
  <2> QED
    BY <1>1, <2>1, <2>2
<1>6. OnlyOf(s)
  BY <1>1, <1>5, OfScript DEF OnlyOf, Types
<1>7. Types'
  BY <1>1, <1>5, OfScript DEF Types, orchestratorVars
<1>8. Orderly(worker'[s], outcome'[s], watchdog'[s], channel'[s], termination[s])
  BY <1>1, <1>2, <1>3, <1>4, <1>5, OrderlySend
<1>9. Counted(sent'[s].failed, channel'[s], failed[s])
  BY <1>1, <1>4, <1>5, OfScript, CountedSend
<1> QED
  BY <1>1, <1>2, <1>6, <1>7, <1>8, <1>9, LocalStep DEF Working

-----------------------------------------------------------------------------
(* The lists of the orchestrator.                                          *)

LEMMA ListAppend ==
    ASSUME NEW list \in Seq(Scripts), NEW x \in Scripts
    PROVE  /\ Append(list, x) \in Seq(Scripts) /\ Len(Append(list, x)) = Len(list) + 1
           /\ Append(list, x) # <<>> /\ Len(list) \in Nat
           /\ In(Append(list, x), x)
           /\ \A s : In(list, s) => In(Append(list, x), s)
<1> DEFINE l2 == Append(list, x)
<1>1. /\ l2 \in Seq(Scripts) /\ Len(l2) = Len(list) + 1 /\ l2 # <<>> /\ Len(list) \in Nat
      /\ \A i \in 1 .. Len(list) : l2[i] = list[i]
      /\ l2[Len(list) + 1] = x
  BY AppendProperties, LenProperties
<1> HIDE DEF l2
<1>2. \A i \in 1 .. Len(list) : i \in 1 .. Len(l2)
  BY <1>1
<1>3. Len(list) + 1 \in 1 .. Len(l2)
  BY <1>1
<1>4. In(l2, x) /\ \A s : In(list, s) => In(l2, s)
  BY <1>1, <1>2, <1>3 DEF In
<1> QED
  BY <1>1, <1>4 DEF l2

LEMMA ListTail ==
    ASSUME NEW list \in Seq(Scripts), list # <<>>
    PROVE  /\ Tail(list) \in Seq(Scripts) /\ Head(list) \in Scripts /\ Head(list) = list[1]
           /\ Len(list) \in Nat \ {0} /\ Len(Tail(list)) = Len(list) - 1
           /\ \A i \in 1 .. Len(Tail(list)) : Tail(list)[i] = list[i + 1]
           /\ \A s : In(list, s) => In(Tail(list), s) \/ s = Head(list)
<1> DEFINE l2 == Tail(list)
<1>1. /\ l2 \in Seq(Scripts) /\ Len(l2) = Len(list) - 1 /\ Len(list) \in Nat \ {0}
      /\ \A i \in 1 .. Len(l2) : l2[i] = list[i + 1]
      /\ Head(list) \in Scripts
  BY HeadTailProperties, EmptySeq
<1>2. Head(list) = list[1]
  OBVIOUS
<1> HIDE DEF l2
<1>3. \A i \in 1 .. Len(list) : i = 1 \/ (i - 1 \in 1 .. Len(l2) /\ l2[i - 1] = list[i])
  BY <1>1
<1>4. \A s : In(list, s) => In(l2, s) \/ s = Head(list)
  BY <1>2, <1>3 DEF In
<1> QED
  BY <1>1, <1>2, <1>4 DEF l2

LEMMA ListRemove ==
    ASSUME NEW list \in Seq(Scripts), NEW at \in 1 .. Len(list)
    PROVE  /\ SwapRemove(list, at) \in Seq(Scripts)
           /\ Len(SwapRemove(list, at)) = Len(list) - 1
           /\ \A s : In(list, s) => In(SwapRemove(list, at), s) \/ s = list[at]
           /\ \A i \in 1 .. Len(list) - 1 :
                 SwapRemove(list, at)[i] = IF i = at THEN list[Len(list)] ELSE list[i]
<1>1. Len(list) \in Nat \ {0} /\ \A i \in 1 .. Len(list) : list[i] \in Scripts
  OBVIOUS
<1> DEFINE n == Len(list) - 1
           fr == [i \in 1 .. n |-> list[i]]
           l2 == SwapRemove(list, at)
<1>2. n \in Nat /\ fr \in Seq(Scripts) /\ Len(fr) = n
  BY <1>1
<1>3. Front(list) = fr
  <2>1. Front(list) = [i \in 1 .. n |-> list[1 + i - 1]]
    BY <1>1 DEF Front
  <2>2. \A i \in 1 .. n : 1 + i - 1 = i
    BY <1>2
  <2> QED
    BY <2>1, <2>2
<1>4. l2 = [i \in 1 .. n |-> IF i = at THEN list[Len(list)] ELSE list[i]]
  BY <1>1, <1>3 DEF SwapRemove, Last
<1>5. l2 \in Seq(Scripts) /\ Len(l2) = n
  BY <1>1, <1>2, <1>4
<1>6. \A i \in 1 .. n : l2[i] = IF i = at THEN list[Len(list)] ELSE list[i]
  BY <1>4
<1> HIDE DEF l2, fr
<1>7. ASSUME NEW s, In(list, s), s # list[at] PROVE In(l2, s)
  <2>1. PICK i \in 1 .. Len(list) : list[i] = s
    BY <1>7 DEF In
  <2>2. i # at
    BY <1>7, <2>1
  <2>3. CASE i = Len(list)
    <3>1. at \in 1 .. n
      BY <1>1, <2>2, <2>3
    <3> QED
      BY <1>5, <1>6, <2>1, <2>3, <3>1 DEF In
  <2>4. CASE i # Len(list)
    <3>1. i \in 1 .. n
      BY <1>1, <2>4
    <3> QED
      BY <1>5, <1>6, <2>1, <2>2, <3>1 DEF In
  <2> QED
    BY <2>3, <2>4
<1> QED
  BY <1>5, <1>6, <1>7 DEF l2

-----------------------------------------------------------------------------
(* The steps of the orchestrator.                                          *)

(* What the threads own, and the fields of the active scripts. *)
scriptVars == <<worker, outcome, sent, watchdog, channel, failed, termination>>

(* A step that touches only the orchestrator's own state, and drops no     *)
(* thread that runs.                                                       *)
LEMMA QuietRound ==
    ASSUME AutoInv, UNCHANGED scriptVars, UNCHANGED <<jobs, queue>>, Types',
           \A s \in Scripts : worker[s] \in Working /\ In(active, s) => In(active', s)
    PROVE  /\ \A s \in Scripts : Sound(s)'
           /\ Waiting'
           /\ \A s \in Scripts : (Closed(s)' <=> Closed(s)) /\ (ScriptPassed(s)' <=> ScriptPassed(s))
<1>1. /\ UNCHANGED <<worker, outcome, sent, watchdog, channel, failed, termination>>
  BY DEF scriptVars
<1>2. \A s \in Scripts : Sound(s)'
  BY <1>1 DEF AutoInv, Sound
<1>3. Waiting'
  BY <1>1 DEF AutoInv, Waiting
<1> QED
  BY <1>1, <1>2, <1>3 DEF Closed, ScriptPassed

(* After an error: no books are kept any more. *)
LEMMA Abandoned ==
    ASSUME pc' \in {"drop", "dropping", "done"}, result' \in {None, "write", "panicked"}
    PROVE  Books' /\ Verdict'
BY NoneAssumption DEF Books, Verdict, VerdictTruthful, Open, Results

Kept(s) ==
    /\ Held(s) => Held(s)'
    /\ Closed(s) => Closed(s)' /\ (ScriptPassed(s)' <=> ScriptPassed(s))
    /\ ScriptPassed(s) => ScriptPassed(s)' \/ Held(s)'

Handled == finished + Len(queue) + Len(active) + Joins

(* While the loop runs and no script is finished. *)
LEMMA BooksKept ==
    ASSUME Books, Open, Open', UNCHANGED <<result, failed_files>>, Handled' = Handled,
           \A s \in Scripts : Kept(s)
    PROVE  Books'
<1>1. /\ result' = None /\ result' # "no Finished" /\ Handled' = Cardinality(Scripts)
      /\ \A s \in Scripts : Held(s) \/ Closed(s)
      /\ failed_files = 0 => \A s \in Scripts : Held(s) \/ ScriptPassed(s)
      /\ failed_files # 0 => \E s \in Scripts : Closed(s) /\ ~ScriptPassed(s)
  BY DEF Books, Handled
<1>2. \A s \in Scripts : Held(s)' \/ Closed(s)'
  BY <1>1 DEF Kept
<1>3. failed_files' = 0 => \A s \in Scripts : Held(s)' \/ ScriptPassed(s)'
  BY <1>1 DEF Kept
<1>4. failed_files' # 0 => \E s \in Scripts : Closed(s)' /\ ~ScriptPassed(s)'
  BY <1>1 DEF Kept
<1> QED
  BY <1>1, <1>2, <1>3, <1>4 DEF Books, Handled

LEMMA StartScriptStep ==
    ASSUME AutoInv, StartScript, UNCHANGED jobs PROVE AutoInv'
<1> DEFINE h == Head(queue)
<1>0. /\ pc = "fill" /\ Len(active) < jobs /\ queue # <<>>
      /\ active' = Append(active, h) /\ queue' = Tail(queue)
      /\ worker' = [worker EXCEPT ![h] = "setup"]
      /\ UNCHANGED <<jobs, pc, index, joining, failed, termination, finished, failed_files, result,
                     outcome, sent, watchdog, channel>>
  BY DEF StartScript, WorkerGoes, watchdogVars
<1>1. Types
  BY DEF AutoInv
<1>2. queue \in Seq(Scripts) /\ active \in Seq(Scripts) /\ jobs \in Nat
  BY <1>1 DEF Types
<1>3. /\ queue' \in Seq(Scripts) /\ h \in Scripts /\ h = queue[1]
      /\ Len(queue) \in Nat \ {0} /\ Len(queue') = Len(queue) - 1
      /\ \A i \in 1 .. Len(queue') : queue'[i] = queue[i + 1]
      /\ \A s : In(queue, s) => In(queue', s) \/ s = h
  BY <1>0, <1>2, ListTail
<1> HIDE DEF h
<1>4. /\ active' \in Seq(Scripts) /\ Len(active') = Len(active) + 1 /\ active' # <<>>
      /\ Len(active) \in Nat
      /\ In(active', h) /\ \A s : In(active, s) => In(active', s)
  BY <1>0, <1>2, <1>3, ListAppend
<1>5. worker[h] = "unborn"
  BY <1>3 DEF AutoInv, Waiting
<1>6. Types'
  BY <1>0, <1>1, <1>3, <1>4 DEF Types, Working
<1>7. ASSUME NEW s \in Scripts PROVE Sound(s)'
  <2>1. Sound(s)
    BY DEF AutoInv
  <2>2. CASE s = h
    <3>1. worker'[s] = "setup"
      BY <1>0, <1>1, <2>2 DEF Types
    <3>2. Orderly("setup", outcome[s], watchdog[s], channel[s], termination[s])
      BY <2>1, <2>2, <1>5 DEF Sound, Orderly
    <3> QED
      BY <2>1, <2>2, <3>1, <3>2, <1>0, <1>4 DEF Sound
  <2>3. CASE s # h
    <3>1. worker'[s] = worker[s]
      BY <1>0, <1>1, <2>3 DEF Types
    <3> QED
      BY <2>1, <3>1, <1>0, <1>4 DEF Sound
  <2> QED
    BY <2>2, <2>3
<1>8. Slots'
  <2>1. joining = None /\ joining' = None
    BY <1>0 DEF AutoInv, Slots
  <2> QED
    BY <2>1, <1>0, <1>2, <1>4 DEF AutoInv, Slots
<1>9. Waiting'
  <2>1. \A i \in 1 .. Len(queue') : i + 1 \in 1 .. Len(queue) /\ i + 1 # 1
    BY <1>3
  <2>2. ASSUME NEW i \in 1 .. Len(queue') PROVE worker'[queue'[i]] = "unborn"
    <3>1. queue'[i] # h /\ worker[queue'[i]] = "unborn" /\ queue'[i] \in Scripts
      BY <2>1, <1>3 DEF AutoInv, Waiting
    <3> QED
      BY <3>1, <1>0, <1>1 DEF Types
  <2>3. ASSUME NEW i \in 1 .. Len(queue'), NEW j \in 1 .. Len(queue'), queue'[i] = queue'[j]
        PROVE  i = j
    <3>1. i + 1 = j + 1
      BY <2>1, <2>3, <1>3 DEF AutoInv, Waiting
    <3> QED
      BY <3>1
  <2> QED
    BY <2>2, <2>3 DEF Waiting
<1>10. ASSUME NEW s \in Scripts PROVE Kept(s)
  <2>1. Held(s) => Held(s)'
    BY <1>0, <1>3, <1>4 DEF Held
  <2>2. Closed(s) => s # h
    BY <1>5 DEF Closed
  <2>3. s # h => worker'[s] = worker[s]
    BY <1>0, <1>1 DEF Types
  <2> QED
    BY <2>1, <2>2, <2>3, <1>0 DEF Closed, ScriptPassed, Kept
<1>11. Books'
  <2>1. Handled' = Handled
    <3>1. Joins \in Nat /\ finished \in Nat /\ Joins' = Joins
      BY <1>0, <1>1 DEF Joins, Types
    <3> QED
      BY <3>1, <1>0, <1>3, <1>4 DEF Handled
  <2>2. Open /\ Open'
    BY <1>0 DEF Open
  <2> QED
    BY <1>0, <1>10, <2>1, <2>2, BooksKept DEF AutoInv
<1>12. Verdict'
  BY <1>0 DEF AutoInv, Verdict, VerdictTruthful
<1> QED
  BY <1>6, <1>7, <1>8, <1>9, <1>11, <1>12 DEF AutoInv

(* StartRound and NextScript: only the position in the list changes. *)
LEMMA RoundStep ==
    ASSUME AutoInv, StartRound \/ NextScript, UNCHANGED jobs PROVE AutoInv'
<1>1. /\ pc \in {"fill", "poll"} /\ pc' = "poll" /\ index' \in {1, index + 1}
      /\ UNCHANGED <<jobs, queue, active, joining, finished, failed_files, result>>
      /\ UNCHANGED scriptVars
  BY DEF StartRound, NextScript, PollOver, Polling, workerVars, watchdogVars, scriptVars
<1>2. Types
  BY DEF AutoInv
<1>3. Types'
  BY <1>1, <1>2 DEF Types, scriptVars
<1>4. /\ \A s \in Scripts : Sound(s)'
      /\ Waiting'
      /\ \A s \in Scripts : (Closed(s)' <=> Closed(s)) /\ (ScriptPassed(s)' <=> ScriptPassed(s))
  BY <1>1, <1>3, QuietRound
<1>5. Slots'
  BY <1>1 DEF AutoInv, Slots, scriptVars
<1>6. Books'
  <2>1. Open /\ Open' /\ Handled' = Handled
    BY <1>1 DEF Open, Joins, Handled
  <2>2. \A s \in Scripts : Held(s)' <=> Held(s)
    BY <1>1 DEF Held
  <2>3. \A s \in Scripts : Kept(s)
    BY <1>4, <2>2 DEF Kept
  <2> QED
    BY <1>1, <2>1, <2>3, BooksKept DEF AutoInv
<1>7. Verdict'
  BY <1>1 DEF AutoInv, Verdict, VerdictTruthful
<1> QED
  BY <1>3, <1>4, <1>5, <1>6, <1>7 DEF AutoInv

(* The script the orchestrator looks at is one of its list. *)
LEMMA PolledScript ==
    ASSUME AutoInv, Polling
    PROVE  /\ index \in 1 .. Len(active) /\ Polled = active[index]
           /\ Polled \in Scripts /\ In(active, Polled) /\ Polled # None
           /\ pc = "poll" /\ joining = None /\ Open
<1>1. active \in Seq(Scripts) /\ index \in Nat \ {0} /\ index <= Len(active) /\ pc = "poll"
  BY DEF AutoInv, Types, Polling
<1>2. index \in 1 .. Len(active) /\ Len(active) \in Nat
  BY <1>1
<1>3. active[index] \in Scripts
  BY <1>1, <1>2
<1>4. In(active, active[index]) /\ active[index] # None
  BY <1>2, <1>3, NoneAssumption DEF In
<1> QED
  BY <1>1, <1>2, <1>3, <1>4 DEF AutoInv, Slots, Polled, Open

LEMMA ReceiveStep ==
    ASSUME AutoInv, Receive, UNCHANGED jobs PROVE AutoInv'
<1>0. Polling
  BY DEF Receive
<1>a. PICK s \in Scripts : s = Polled
  BY <1>0, PolledScript
<1>b. channel[s] # <<>> /\ Head(channel[s]) \in Message
  BY <1>a, OfScript, ChannelSteps DEF Receive
<1>c. PICK m \in Message : m = Head(channel[s])
  BY <1>b
<1>1. /\ channel[s] # <<>>
      /\ channel' = [channel EXCEPT ![s] = Tail(@)]
      /\ failed' = [failed EXCEPT ![s] = IF m = Case(FALSE) THEN @ + 1 ELSE @]
      /\ termination' = [termination EXCEPT ![s] = IF m.type = "finished" THEN m.termination ELSE @]
      /\ \/ UNCHANGED <<pc, result, index>>
         \/ pc' = "drop" /\ result' = "write" /\ index' = 1
      /\ UNCHANGED <<jobs, queue, active, joining, finished, failed_files>>
      /\ UNCHANGED <<worker, outcome, sent, watchdog>>
  BY <1>a, <1>c DEF Receive, GiveUp, workerVars, watchdogVars
<1>2. s \in Scripts /\ In(active, s) /\ pc = "poll" /\ joining = None /\ Open
  BY <1>0, <1>a, PolledScript
<1>3. /\ Orderly(worker[s], outcome[s], watchdog[s], channel[s], termination[s])
      /\ Counted(sent[s].failed, channel[s], failed[s])
      /\ sent[s].failed \in Nat /\ failed[s] \in Nat /\ channel[s] \in Seq(Message) /\ Types
  BY <1>2, OfScript
<1>4. Tail(channel[s]) \in Seq(Message) /\ m \in Message /\ Shorter(channel[s], m, Tail(channel[s]))
  BY <1>1, <1>3, <1>c, ChannelSteps
<1>5. /\ channel'[s] = Tail(channel[s]) /\ termination'[s] = Known(m, termination[s])
      /\ failed'[s] = IF m = Case(FALSE) THEN failed[s] + 1 ELSE failed[s]
  BY <1>1, <1>2, <1>3 DEF Types, Known
<1>6. \A r \in Scripts : r # s => /\ channel'[r] = channel[r] /\ termination'[r] = termination[r]
                                  /\ failed'[r] = failed[r]
  BY <1>1, <1>2, <1>3 DEF Types
<1>7. /\ Orderly(worker[s], outcome[s], watchdog[s], channel'[s], termination'[s])
      /\ worker[s] = "ended" => termination[s] = None
  BY <1>1, <1>3, <1>4, <1>5, OrderlyReceive
<1>8. Counted(sent[s].failed, channel'[s], failed'[s])
  BY <1>3, <1>4, <1>5, CountedReceive
<1>9. Types'
  <2>1. Known(m, termination[s]) \in Termination \union {None}
    BY <1>2, <1>3, <1>4, MessageKinds DEF Known, Types
  <2>2. channel' \in [Scripts -> Seq(Message)]
    BY <1>1, <1>3, <1>4 DEF Types
  <2>3. failed' \in [Scripts -> Nat]
    <3> DEFINE n == IF m = Case(FALSE) THEN failed[s] + 1 ELSE failed[s]
    <3>0. failed[s] \in Nat /\ failed[s] + 1 \in Nat
      BY <1>3
    <3>1. n \in Nat
      BY <3>0, Zenon
    <3>2. failed' = [failed EXCEPT ![s] = n]
      BY <1>1, Zenon
    <3>3. failed \in [Scripts -> Nat]
      BY <1>3 DEF Types
    <3> HIDE DEF n
    <3> QED
      BY <3>1, <3>2, <3>3
  <2>4. termination' \in [Scripts -> Termination \union {None}]
    BY <1>1, <1>3, <2>1 DEF Types, Known
  <2>5. pc' \in {"poll", "drop"} /\ index' \in Nat \ {0}
    BY <1>1, <1>2, <1>3 DEF Types
  <2> QED
    BY <1>1, <1>3, <2>2, <2>3, <2>4, <2>5 DEF Types
<1>10. ASSUME NEW r \in Scripts PROVE Sound(r)'
  <2>1. Sound(r)
    BY DEF AutoInv
  <2>2. CASE r = s
    BY <2>1, <2>2, <1>1, <1>7, <1>8 DEF Sound
  <2>3. CASE r # s
    BY <2>1, <2>3, <1>1, <1>6 DEF Sound
  <2> QED
    BY <2>2, <2>3
<1>11. Slots'
  BY <1>1, <1>2 DEF AutoInv, Slots
<1>12. Waiting'
  BY <1>1 DEF AutoInv, Waiting
<1>13. Books' /\ Verdict'
  <2>1. CASE pc' = "drop" /\ result' = "write"
    <3>1. pc' \in {"drop", "dropping", "done"} /\ result' \in {None, "write", "panicked"}
      BY <2>1
    <3> QED
      BY <3>1, Abandoned
  <2>2. CASE UNCHANGED <<pc, result, index>>
    <3>1. Held(s)' /\ ~Closed(s)
      BY <1>1, <1>2, <1>7 DEF Held, Closed
    <3>2. \A r \in Scripts : Held(r) => Held(r)'
      BY <1>1 DEF Held
    <3>3. \A r \in Scripts : r # s => (Closed(r)' <=> Closed(r)) /\ (ScriptPassed(r)' <=> ScriptPassed(r))
      BY <1>1, <1>6 DEF Closed, ScriptPassed
    <3>4. \A r \in Scripts : Kept(r)
      BY <3>1, <3>2, <3>3 DEF Kept
    <3>5. Open' /\ Handled' = Handled
      BY <1>1, <1>2, <2>2 DEF Open, Handled, Joins
    <3>6. Books'
      BY <1>1, <1>2, <2>2, <3>4, <3>5, BooksKept DEF AutoInv
    <3>7. Verdict'
      BY <1>1, <2>2 DEF AutoInv, Verdict, VerdictTruthful
    <3> QED
      BY <3>6, <3>7
  <2> QED
    BY <1>1, <2>1, <2>2
<1> QED
  BY <1>9, <1>10, <1>11, <1>12, <1>13 DEF AutoInv

LEMMA RemoveScriptStep ==
    ASSUME AutoInv, RemoveScript, UNCHANGED jobs PROVE AutoInv'
<1>0. Polling
  BY DEF RemoveScript, PollOver
<1>a. PICK s \in Scripts : s = Polled
  BY <1>0, PolledScript
<1>1. /\ joining' = s /\ active' = SwapRemove(active, index) /\ pc' = "join"
      /\ UNCHANGED <<jobs, queue, index, finished, failed_files, result>>
      /\ UNCHANGED scriptVars
      /\ termination[s] # None \/ (channel[s] = <<>> /\ worker[s] \in Ended)
  BY <1>a DEF RemoveScript, HasEnded, Disconnected, workerVars, watchdogVars, scriptVars
<1>2. /\ s \in Scripts /\ In(active, s) /\ pc = "poll" /\ joining = None /\ Open /\ s # None
      /\ s = active[index] /\ index \in 1 .. Len(active)
  BY <1>0, <1>a, PolledScript
<1>3. worker[s] \notin Working
  BY <1>1, <1>2, OfScript DEF Orderly, Ended, Working
<1>4. Types /\ active \in Seq(Scripts) /\ Len(active) \in Nat \ {0}
  <2>1. Types /\ active \in Seq(Scripts)
    BY DEF AutoInv, Types
  <2>2. Len(active) \in Nat
    BY <2>1
  <2> QED
    BY <2>1, <2>2, <1>2
<1>5. /\ active' \in Seq(Scripts) /\ Len(active') = Len(active) - 1
      /\ \A r : In(active, r) => In(active', r) \/ r = s
  BY <1>1, <1>2, <1>4, ListRemove
<1>6. Types'
  BY <1>1, <1>2, <1>4, <1>5 DEF Types, scriptVars
<1>7. /\ \A r \in Scripts : Sound(r)'
      /\ Waiting'
      /\ \A r \in Scripts : (Closed(r)' <=> Closed(r)) /\ (ScriptPassed(r)' <=> ScriptPassed(r))
  BY <1>1, <1>3, <1>5, <1>6, QuietRound
<1>8. Slots'
  <2>1. Len(active') <= jobs
    BY <1>4, <1>5 DEF AutoInv, Slots, Types
  <2> QED
    BY <2>1, <1>1, <1>2 DEF Slots, scriptVars
<1>9. Books'
  <2>1. Handled' = Handled
    <3>1. Joins = 0 /\ Joins' = 1
      BY <1>1, <1>2 DEF Joins
    <3>2. finished \in Nat /\ Len(queue) \in Nat
      BY <1>4 DEF Types
    <3> QED
      BY <3>1, <3>2, <1>1, <1>4, <1>5 DEF Handled
  <2>2. \A r \in Scripts : Held(r) => Held(r)'
    BY <1>1, <1>2, <1>5, NoneAssumption DEF Held
  <2>3. \A r \in Scripts : Kept(r)
    BY <1>7, <2>2 DEF Kept
  <2>4. Open'
    BY <1>1 DEF Open
  <2> QED
    BY <1>1, <1>2, <2>1, <2>3, <2>4, BooksKept DEF AutoInv
<1>10. Verdict'
  <2>1. result = None
    BY <1>2 DEF AutoInv, Books
  <2> QED
    BY <2>1, <1>1, NoneAssumption DEF Verdict, VerdictTruthful, Results
<1> QED
  BY <1>6, <1>7, <1>8, <1>9, <1>10 DEF AutoInv

(* The script joined is over; a thread that did not panic has a            *)
(* termination, so the second error of finish_script does not happen.      *)
LEMMA FinishScriptStep ==
    ASSUME AutoInv, FinishScript, UNCHANGED jobs PROVE AutoInv'
<1>0. pc = "join" /\ worker[joining] \in Ended /\ joining # None /\ joining \in Scripts /\ Types
  BY DEF FinishScript, AutoInv, Slots, Types
<1>a. PICK s \in Scripts : s = joining
  BY <1>0
<1>1. /\ joining' = None
      /\ UNCHANGED <<jobs, queue, active>>
      /\ UNCHANGED scriptVars
      /\ \/ pc' = "drop" /\ result' = "panicked" /\ index' = 1 /\ UNCHANGED <<finished, failed_files>>
         \/ /\ worker[s] # "panicked" /\ termination[s] = None
            /\ pc' = "drop" /\ result' = "no Finished"
         \/ pc' = "drop" /\ result' = "write" /\ index' = 1 /\ UNCHANGED <<finished, failed_files>>
         \/ /\ worker[s] # "panicked" /\ termination[s] # None
            /\ finished' = finished + 1
            /\ failed_files' = failed_files + (IF ScriptPassed(s) THEN 0 ELSE 1)
            /\ pc' = "poll" /\ UNCHANGED <<result, index>>
  BY <1>a DEF FinishScript, GiveUp, workerVars, watchdogVars, scriptVars
<1>2. /\ Orderly(worker[s], outcome[s], watchdog[s], channel[s], termination[s])
      /\ termination[s] # None \/ channel[s] = <<>>
  BY <1>0, <1>a, OfScript DEF AutoInv, Slots
<1>3. worker[s] # "panicked" => worker[s] = "ended" /\ termination[s] # None
  BY <1>0, <1>2, <1>a, NoneAssumption DEF Orderly, Ended
<1>4. Types'
  <2>1. finished \in Nat /\ failed_files \in Nat
    BY <1>0 DEF Types
  <2>2. finished' \in Nat /\ failed_files' \in Nat /\ index' \in Nat \ {0} /\ pc' \in {"poll", "drop"}
    <3>1. finished + 1 \in Nat /\ failed_files + (IF ScriptPassed(s) THEN 0 ELSE 1) \in Nat
      BY <2>1
    <3>2. index \in Nat \ {0} /\ 1 \in Nat \ {0}
      BY <1>0 DEF Types
    <3>3. ~(worker[s] # "panicked" /\ termination[s] = None)
      BY <1>3
    <3> QED
      BY <1>1, <2>1, <3>1, <3>2, <3>3, Zenon
  <2> QED
    BY <1>0, <1>1, <2>2 DEF Types, scriptVars
<1>5. /\ \A r \in Scripts : Sound(r)'
      /\ Waiting'
      /\ \A r \in Scripts : (Closed(r)' <=> Closed(r)) /\ (ScriptPassed(r)' <=> ScriptPassed(r))
  BY <1>1, <1>4, QuietRound
<1>6. Slots'
  <2>1. pc' \in {"poll", "drop"}
    BY <1>1
  <2> QED
    BY <2>1, <1>1 DEF AutoInv, Slots
<1>7. CASE pc' = "drop"
  <2>1. pc' \in {"drop", "dropping", "done"} /\ result' \in {None, "write", "panicked"}
    BY <1>7, <1>1, <1>3
  <2> QED
    BY <2>1, <1>4, <1>5, <1>6, Abandoned DEF AutoInv
<1>8. CASE pc' = "poll"
  <2>1. /\ worker[s] = "ended" /\ termination[s] # None /\ finished' = finished + 1 /\ result' = result
        /\ failed_files' = failed_files + (IF ScriptPassed(s) THEN 0 ELSE 1)
    BY <1>8, <1>1, <1>3
  <2>2. /\ result = None /\ Handled = Cardinality(Scripts)
        /\ \A r \in Scripts : Held(r) \/ Closed(r)
        /\ failed_files = 0 => \A r \in Scripts : Held(r) \/ ScriptPassed(r)
        /\ failed_files # 0 => \E r \in Scripts : Closed(r) /\ ~ScriptPassed(r)
    BY <1>0 DEF AutoInv, Books, Open, Handled
  <2>3. \A r \in Scripts : Held(r) => Held(r)' \/ r = s
    BY <1>1, <1>a DEF Held
  <2>4. Closed(s)
    BY <2>1 DEF Closed
  <2>5. failed_files \in Nat /\ (failed_files' = 0 <=> failed_files = 0 /\ ScriptPassed(s))
    BY <1>0, <2>1 DEF Types
  <2>6. \A r \in Scripts : Held(r)' \/ Closed(r)'
    BY <2>2, <2>3, <2>4, <1>5
  <2>7. failed_files' = 0 => \A r \in Scripts : Held(r)' \/ ScriptPassed(r)'
    BY <2>2, <2>3, <2>5, <1>5
  <2>8. failed_files' # 0 => \E r \in Scripts : Closed(r)' /\ ~ScriptPassed(r)'
    BY <2>2, <2>4, <2>5, <1>5
  <2>9. Handled' = Cardinality(Scripts)
    <3>1. Joins = 1 /\ Joins' = 0
      BY <1>0, <1>1 DEF Joins
    <3>2. finished \in Nat /\ Len(queue) \in Nat /\ Len(active) \in Nat
      BY <1>0 DEF Types
    <3>3. queue' = queue /\ active' = active /\ finished' = finished + 1
      BY <1>1, <2>1
    <3>4. Handled' = finished + 1 + Len(queue) + Len(active) + 0
      BY <3>1, <3>3 DEF Handled
    <3>5. Handled = finished + Len(queue) + Len(active) + 1
      BY <3>1 DEF Handled
    <3> QED
      BY <3>2, <3>4, <3>5, <2>2
  <2>10. result' = None /\ None \notin {"success", "failure", "no Finished"}
    BY <2>1, <2>2, NoneAssumption DEF Results
  <2>11. Books'
    BY <2>6, <2>7, <2>8, <2>9, <2>10 DEF Books, Handled
  <2>12. Verdict'
    BY <2>10 DEF Verdict, VerdictTruthful
  <2> QED
    BY <1>4, <1>5, <1>6, <2>11, <2>12 DEF AutoInv
<1> QED
  BY <1>1, <1>7, <1>8

(* With nothing queued, active or joined every script is closed, and a     *)
(* closed one has no message left: what the books say is the truth.        *)
LEMMA EndRoundStep ==
    ASSUME AutoInv, EndRound, UNCHANGED jobs PROVE AutoInv'
<1>1. /\ pc = "poll" /\ UNCHANGED <<jobs, queue, active, joining, finished, failed_files>>
      /\ UNCHANGED scriptVars
      /\ \/ pc' = "fill" /\ UNCHANGED <<result, index>>
         \/ /\ queue = <<>> /\ active = <<>> /\ pc' = "done"
            /\ result' = (IF failed_files = 0 THEN "success" ELSE "failure")
            /\ UNCHANGED index
         \/ pc' = "drop" /\ result' = "write" /\ index' = 1
  BY DEF EndRound, GiveUp, workerVars, watchdogVars, scriptVars
<1>2. Types /\ joining = None
  BY <1>1 DEF AutoInv, Slots
<1>3. Types'
  BY <1>1, <1>2 DEF Types, scriptVars
<1>4. /\ \A r \in Scripts : Sound(r)'
      /\ Waiting'
      /\ \A r \in Scripts : (Closed(r)' <=> Closed(r)) /\ (ScriptPassed(r)' <=> ScriptPassed(r))
  BY <1>1, <1>3, QuietRound
<1>5. Slots'
  BY <1>1, <1>2 DEF AutoInv, Slots
<1>6. /\ result = None /\ Handled = Cardinality(Scripts)
      /\ \A r \in Scripts : Held(r) \/ Closed(r)
      /\ failed_files = 0 => \A r \in Scripts : Held(r) \/ ScriptPassed(r)
      /\ failed_files # 0 => \E r \in Scripts : Closed(r) /\ ~ScriptPassed(r)
  BY <1>1 DEF AutoInv, Books, Open, Handled
<1>7. CASE pc' = "fill" /\ UNCHANGED <<result, index>>
  <2>1. Open /\ Open' /\ Handled' = Handled
    BY <1>1, <1>7 DEF Open, Joins, Handled
  <2>2. \A r \in Scripts : Held(r)' <=> Held(r)
    BY <1>1 DEF Held
  <2>3. \A r \in Scripts : Kept(r)
    BY <1>4, <2>2 DEF Kept
  <2>4. Books'
    BY <1>1, <1>7, <2>1, <2>3, BooksKept DEF AutoInv
  <2>5. Verdict'
    BY <1>6, <1>7, NoneAssumption DEF Verdict, VerdictTruthful, Results
  <2> QED
    BY <1>3, <1>4, <1>5, <2>4, <2>5 DEF AutoInv
<1>8. CASE pc' = "drop" /\ result' = "write"
  <2>1. pc' \in {"drop", "dropping", "done"} /\ result' \in {None, "write", "panicked"}
    BY <1>8
  <2> QED
    BY <2>1, <1>3, <1>4, <1>5, Abandoned DEF AutoInv
<1>9. CASE /\ queue = <<>> /\ active = <<>> /\ pc' = "done"
           /\ result' = (IF failed_files = 0 THEN "success" ELSE "failure")
  <2>1. \A r \in Scripts : ~Held(r)
    BY <1>9, <1>2, NoneAssumption DEF Held, In
  <2>2. \A r \in Scripts : Closed(r)
    BY <1>6, <2>1
  <2>3. finished = Cardinality(Scripts)
    <3>1. finished \in Nat /\ Len(queue) = 0 /\ Len(active) = 0 /\ Joins = 0
      BY <1>2, <1>9 DEF Types, Joins
    <3> QED
      BY <3>1, <1>6 DEF Handled
  <2>4. ASSUME NEW r \in Scripts
        PROVE  /\ worker[r] = "ended"
               /\ ScriptPassed(r) <=> outcome[r] = "Ok" /\ sent[r].failed = 0
    <3>1. worker[r] = "ended" /\ termination[r] # None
      BY <2>2 DEF Closed
    <3>2. termination[r] = outcome[r] /\ channel[r] = <<>>
      BY <3>1, OfScript DEF Orderly
    <3>3. sent[r].failed = 0 <=> failed[r] = 0
      <4>1. \A i \in 1 .. Len(channel[r]) : channel[r][i] # Case(FALSE)
        BY <3>2
      <4>2. Counted(sent[r].failed, channel[r], failed[r])
        BY OfScript
      <4> QED
        BY <4>1, <4>2, Zenon DEF Counted
    <3> QED
      BY <3>1, <3>2, <3>3 DEF ScriptPassed
  <2>5. result' = "success" <=> \A r \in Scripts : outcome[r] = "Ok" /\ sent[r].failed = 0
    <3>1. CASE failed_files = 0
      BY <3>1, <1>6, <1>9, <2>1, <2>4
    <3>2. CASE failed_files # 0
      <4>1. PICK r \in Scripts : ~ScriptPassed(r)
        BY <3>2, <1>6
      <4> QED
        BY <3>2, <4>1, <1>9, <2>4
    <3> QED
      BY <3>1, <3>2
  <2>6. Verdict'
    BY <1>1, <1>9, <2>3, <2>4, <2>5 DEF Verdict, VerdictTruthful, scriptVars
  <2>7. Books'
    BY <1>9 DEF Books, Open
  <2> QED
    BY <1>3, <1>4, <1>5, <2>6, <2>7 DEF AutoInv
<1> QED
  BY <1>1, <1>7, <1>8, <1>9

(* The drop of the active scripts. *)
LEMMA DropStep ==
    ASSUME AutoInv, DropCancel \/ DropJoin \/ DropDone, UNCHANGED jobs PROVE AutoInv'
<1>1. /\ UNCHANGED <<jobs, queue, index, joining, finished, failed_files, result>>
      /\ UNCHANGED scriptVars
      /\ pc \in {"drop", "dropping"} /\ pc' \in {"drop", "dropping", "done"}
      /\ \/ active' = active /\ ((pc' = "dropping" /\ active # <<>>) \/ (pc' = "done" /\ active = <<>>))
         \/ /\ pc = "dropping" /\ pc' = "drop" /\ worker[Head(active)] \in Ended
            /\ active' = Tail(active)
  <2>1. CASE DropCancel
    BY <2>1 DEF DropCancel, workerVars, watchdogVars, scriptVars
  <2>2. CASE DropJoin
    BY <2>2 DEF DropJoin, workerVars, watchdogVars, scriptVars
  <2>3. CASE DropDone
    BY <2>3 DEF DropDone, workerVars, watchdogVars, scriptVars
  <2> QED
    BY <2>1, <2>2, <2>3
<1>2. Types /\ joining = None /\ (pc = "dropping" => active # <<>>)
  BY <1>1 DEF AutoInv, Slots
<1>3. /\ active' \in Seq(Scripts) /\ Len(active') <= jobs
      /\ \A s \in Scripts : worker[s] \in Working /\ In(active, s) => In(active', s)
  <2>1. Len(active) <= jobs /\ active \in Seq(Scripts) /\ jobs \in Nat
    BY <1>2 DEF AutoInv, Slots, Types
  <2>2. CASE active' = active
    BY <2>1, <2>2
  <2>3. CASE active # <<>> /\ worker[Head(active)] \in Ended /\ active' = Tail(active)
    <3>1. worker[Head(active)] \notin Working
      BY <2>3 DEF Ended, Working
    <3>2. /\ Tail(active) \in Seq(Scripts) /\ Len(active) \in Nat \ {0}
          /\ Len(Tail(active)) = Len(active) - 1
          /\ \A s : In(active, s) => In(Tail(active), s) \/ s = Head(active)
      BY <2>1, <2>3, ListTail
    <3> QED
      BY <2>1, <2>3, <3>1, <3>2
  <2> QED
    BY <1>1, <1>2, <2>2, <2>3
<1>4. Types'
  BY <1>1, <1>2, <1>3 DEF Types, scriptVars
<1>5. (\A s \in Scripts : Sound(s)') /\ Waiting'
  BY <1>1, <1>3, <1>4, QuietRound
<1>6. Slots'
  BY <1>1, <1>2, <1>3 DEF Slots
<1>7. Books' /\ Verdict'
  <2>1. result \notin {"success", "failure"} /\ result # "no Finished"
    BY <1>1 DEF AutoInv, Books, Verdict
  <2> QED
    BY <1>1, <2>1 DEF Books, Verdict, VerdictTruthful, Open
<1> QED
  BY <1>4, <1>5, <1>6, <1>7 DEF AutoInv

-----------------------------------------------------------------------------
LEMMA InitAuto ==
    ASSUME Init PROVE AutoInv
<1>1. Cardinality(Scripts) \in Nat
  BY AutomationAssumption, FS_CardinalityType
<1>2. /\ jobs \in Nat /\ pc = "fill" /\ active = <<>> /\ index = 1 /\ joining = None
      /\ queue \in [1 .. Cardinality(Scripts) -> Scripts] /\ InOrder(queue)
      /\ failed = [s \in Scripts |-> 0] /\ termination = [s \in Scripts |-> None]
      /\ finished = 0 /\ failed_files = 0 /\ result = None
      /\ worker = [s \in Scripts |-> "unborn"] /\ outcome = [s \in Scripts |-> None]
      /\ sent = [s \in Scripts |-> [passed |-> 0, failed |-> 0]]
      /\ watchdog = [s \in Scripts |-> "unborn"] /\ channel = [s \in Scripts |-> <<>>]
  BY AutomationAssumption DEF Init
<1>3. /\ queue \in Seq(Scripts) /\ Len(queue) = Cardinality(Scripts)
      /\ \A i \in 1 .. Len(queue) : queue[i] \in Scripts
  BY <1>1, <1>2
<1>4. Types
  BY <1>2, <1>3 DEF Types
<1>5. ASSUME NEW s \in Scripts PROVE Sound(s)
  <2>1. Orderly("unborn", None, "unborn", <<>>, None) /\ Counted(0, <<>>, 0)
    BY DEF Orderly, Counted
  <2>2. "unborn" \notin Working
    BY DEF Working
  <2> QED
    BY <1>2, <2>1, <2>2 DEF Sound
<1>6. Slots
  BY <1>2 DEF Slots
<1>7. Waiting
  <2>1. \A i, j \in 1 .. Len(queue) : i < j => queue[i] < queue[j]
    BY <1>2, <1>3 DEF InOrder
  <2>2. ASSUME NEW i \in 1 .. Len(queue), NEW j \in 1 .. Len(queue), queue[i] = queue[j] PROVE i = j
    <3>1. queue[i] \in Nat /\ queue[j] \in Nat
      BY <1>3, AutomationAssumption
    <3> QED
      BY <2>1, <2>2, <3>1
  <2> QED
    BY <1>2, <1>3, <2>2 DEF Waiting
<1>8. Books
  <2>1. \A s \in Scripts : Held(s)
    BY <1>2, <1>3 DEF InOrder, Held, In
  <2>2. Joins = 0 /\ Len(active) = 0
    BY <1>2 DEF Joins
  <2>3. finished + Len(queue) + Len(active) + Joins = Cardinality(Scripts)
    BY <1>1, <1>2, <1>3, <2>2
  <2>4. result = None /\ result # "no Finished" /\ failed_files = 0
    BY <1>2, NoneAssumption DEF Results
  <2> QED
    BY <2>1, <2>3, <2>4 DEF Books
<1>9. Verdict
  BY <1>2, NoneAssumption DEF Verdict, VerdictTruthful, Results
<1> QED
  BY <1>4, <1>5, <1>6, <1>7, <1>8, <1>9 DEF AutoInv

LEMMA NextAuto ==
    ASSUME AutoInv, [Next]_vars PROVE AutoInv'
<1>1. CASE UNCHANGED vars
  <2>1. /\ UNCHANGED <<jobs, pc, queue, active, index, joining, finished, failed_files, result>>
        /\ UNCHANGED scriptVars
    BY <1>1 DEF vars, orchestratorVars, workerVars, watchdogVars, scriptVars
  <2>2. Types'
    BY <2>1 DEF AutoInv, Types, scriptVars
  <2>3. /\ \A s \in Scripts : Sound(s)'
        /\ Waiting'
        /\ \A s \in Scripts : (Closed(s)' <=> Closed(s)) /\ (ScriptPassed(s)' <=> ScriptPassed(s))
    BY <2>1, <2>2, QuietRound
  <2>4. Slots' /\ Verdict'
    BY <2>1 DEF AutoInv, Slots, Verdict, VerdictTruthful, scriptVars
  <2>5. Books'
    <3>1. CASE Open
      <4>1. Open' /\ Handled' = Handled
        BY <2>1, <3>1 DEF Open, Handled, Joins
      <4>2. \A s \in Scripts : Held(s)' <=> Held(s)
        BY <2>1 DEF Held
      <4>3. \A s \in Scripts : Kept(s)
        BY <2>3, <4>2 DEF Kept
      <4> QED
        BY <2>1, <3>1, <4>1, <4>3, BooksKept DEF AutoInv
    <3>2. CASE ~Open
      BY <2>1, <3>2 DEF AutoInv, Books, Open
    <3> QED
      BY <3>1, <3>2
  <2> QED
    BY <2>2, <2>3, <2>4, <2>5 DEF AutoInv
<1>2. CASE Next
  <2>1. UNCHANGED jobs
    BY <1>2 DEF Next
  <2>2. CASE Orchestrate
    BY <2>1, <2>2, StartScriptStep, RoundStep, ReceiveStep, RemoveScriptStep, FinishScriptStep,
       EndRoundStep, DropStep DEF Orchestrate
  <2>3. CASE Returned
    BY <2>3, <1>1 DEF Returned
  <2>4. ASSUME NEW s \in Scripts, Execute(s) \/ RunScript(s) \/ Watch(s) PROVE AutoInv'
    <3>1. CASE Setup(s) \/ StopWatchdog(s) \/ JoinWatchdog(s) \/ Finish(s)
      BY <2>1, <3>1, SetupStep, StopWatchdogStep, JoinWatchdogStep, FinishStep
    <3>2. CASE EmitCase(s)
      BY <2>1, <3>2, EmitCaseStep
    <3>3. CASE Interrupted(s) \/ EvalReturns(s) \/ EvalPanics(s) \/ FuelOut(s)
      <4>1. PICK with \in Termination \union {"Limit", "Panic"} : EvalEnds(s, with)
        BY <3>3, AutomationAssumption
           DEF Interrupted, EvalReturns, EvalPanics, FuelOut, Termination, Completed
      <4> QED
        BY <2>1, <4>1, EvalEndsStep
    <3>4. CASE Watch(s)
      BY <2>1, <3>4, WatchStep
    <3> QED
      BY <2>4, <3>1, <3>2, <3>3, <3>4 DEF Execute, RunScript
  <2> QED
    BY <1>2, <2>2, <2>3, <2>4 DEF Next
<1> QED
  BY <1>1, <1>2

LEMMA AutoInvariant == Spec => []AutoInv
BY InitAuto, NextAuto, PTL DEF Spec

(* The threads that run are those of active scripts, of which there are at *)
(* most jobs.                                                              *)
LEMMA BoundFromInv ==
    ASSUME AutoInv PROVE ThreadsBounded
<1> DEFINE busy == {s \in Scripts : \/ worker[s] \notin Ended \union {"unborn"}
                                    \/ watchdog[s] \notin {"unborn", "ended"}}
           list == {s \in Scripts : In(active, s)}
<1>1. active \in Seq(Scripts) /\ Len(active) \in Nat /\ Len(active) <= jobs /\ jobs \in Nat
  BY DEF AutoInv, Types, Slots
<1>2. IsFiniteSet(list) /\ Cardinality(list) <= Len(active)
  <2>1. IsFiniteSet(1 .. Len(active)) /\ Cardinality(1 .. Len(active)) = Len(active)
    <3> DEFINE n == Len(active)
    <3>0. 1 \in Int /\ n \in Int
      BY <1>1
    <3> HIDE DEF n
    <3>1. IsFiniteSet(1 .. n) /\ Cardinality(1 .. n) = IF 1 > n THEN 0 ELSE n - 1 + 1
      BY <3>0, FS_Interval
    <3> USE DEF n
    <3> QED
      BY <1>1, <3>1
  <2>2. active \in Surjection(1 .. Len(active), list)
    <3>1. active \in [1 .. Len(active) -> list]
      BY <1>1 DEF In
    <3>2. \A s \in list : \E i \in 1 .. Len(active) : active[i] = s
      BY DEF In
    <3> QED
      BY <3>1, <3>2 DEF Surjection
  <2> HIDE DEF list
  <2> QED
    BY <2>1, <2>2, FS_Surjection
<1>3. busy \subseteq list
  <2> SUFFICES ASSUME NEW s \in Scripts,
                      \/ worker[s] \notin Ended \union {"unborn"}
                      \/ watchdog[s] \notin {"unborn", "ended"}
               PROVE  In(active, s)
    OBVIOUS
  <2>1. worker[s] \in Working
    BY OfScript DEF Types, Orderly, Ended
  <2> QED
    BY <2>1 DEF AutoInv, Sound
<1>4. pc = "done" => busy = {}
  <2>1. pc = "done" => list = {}
    BY DEF AutoInv, Slots, In
  <2> QED
    BY <2>1, <1>3
<1>5. Cardinality(busy) <= Len(active) /\ Cardinality(busy) \in Nat
  <2> HIDE DEF busy, list
  <2>1. busy \in SUBSET list
    BY <1>3
  <2>2. IsFiniteSet(busy) /\ Cardinality(busy) <= Cardinality(list)
    BY <2>1, <1>2, FS_Subset
  <2>3. Cardinality(busy) \in Nat /\ Cardinality(list) \in Nat
    BY <2>2, <1>2, FS_CardinalityType
  <2> QED
    BY <2>2, <2>3, <1>1, <1>2
<1>6. Cardinality({}) = 0
  BY FS_EmptySet
<1>7. Cardinality(busy) <= IF pc = "done" THEN 0 ELSE jobs
  <2>1. CASE pc = "done"
    <3>1. Cardinality(busy) = 0
      BY <2>1, <1>4, <1>6
    <3> HIDE DEF busy
    <3> QED
      BY <2>1, <3>1
  <2>2. CASE pc # "done"
    <3> HIDE DEF busy
    <3> QED
      BY <2>2, <1>1, <1>5
  <2> QED
    BY <2>1, <2>2
<1> QED
  BY <1>7 DEF ThreadsBounded

(* No more than jobs scripts have a worker or a watchdog thread at any     *)
(* time, and none has one when orchestrate returns, whatever the scripts   *)
(* do, with panics and failing writes of the report.                       *)
THEOREM ThreadsAreBounded == Spec => []ThreadsBounded
BY AutoInvariant, BoundFromInv, PTL

(* A thread that was joined and did not panic has sent Finished, and the   *)
(* orchestrator has received it: the second error of finish_script is      *)
(* unreachable.                                                            *)
THEOREM FinishedArrives == Spec => []FinishedAlwaysArrives
<1>1. AutoInv => FinishedAlwaysArrives
  BY DEF AutoInv, Books, FinishedAlwaysArrives
<1> QED
  BY <1>1, AutoInvariant, PTL

-----------------------------------------------------------------------------
(* The totals.                                                             *)

(* The cases with this result that are still on their way. *)
Under(ch, ok) == {i \in 1 .. Len(ch) : ch[i] = Case(ok)}

(* Of the cases with this result f were sent and n arrived, none is lost. *)
Conserved(f, ch, ok, n) == f = n + Cardinality(Under(ch, ok))

(* The script at place i of the list of threads is there only once. *)
Lists ==
    /\ \A i, j \in 1 .. Len(active) : active[i] = active[j] => i = j
    /\ \A i \in 1 .. Len(active) : worker[active[i]] # "unborn" /\ active[i] # joining

(* The scripts the orchestrator is done with, and those that count         *)
(* themselves, by what it knows of them.                                   *)
Settled   == {s \in Scripts : ~Held(s)}
OwnPassed == {s \in Scripts : CountsItself(s) /\ ScriptPassed(s)}
OwnFailed == {s \in Scripts : CountsItself(s) /\ ~ScriptPassed(s)}

Balanced(total, entries) == IsFiniteSet(entries) /\ total = Cardinality(entries)

Decided == result \in {"success", "failure"}

Totals ==
    /\ Open \/ Decided => /\ Balanced(passed_cases, Entries(Settled, OwnPassed, passed))
                          /\ Balanced(failed_cases, Entries(Settled, OwnFailed, failed))
    /\ Decided => \A s \in Scripts : termination[s] # None

Cases ==
    /\ passed \in [Scripts -> Nat]
    /\ \A s \in Scripts : /\ Conserved(sent[s].passed, channel[s], TRUE, passed[s])
                          /\ Conserved(sent[s].failed, channel[s], FALSE, failed[s])

TotalInv == Cases /\ Lists /\ Totals

-----------------------------------------------------------------------------
LEMMA UnderFinite ==
    ASSUME NEW ch, Len(ch) \in Nat, NEW ok
    PROVE  IsFiniteSet(Under(ch, ok)) /\ Cardinality(Under(ch, ok)) \in Nat
<1>1. IsFiniteSet(1 .. Len(ch))
  BY FS_Interval
<1>2. Under(ch, ok) \in SUBSET (1 .. Len(ch))
  BY DEF Under
<1> QED
  BY <1>1, <1>2, FS_Subset, FS_CardinalityType

(* Sending a case makes one more, sending anything else none. *)
LEMMA UnderSend ==
    ASSUME NEW ch, NEW m, NEW c2, Longer(ch, m, c2), NEW ok
    PROVE  Cardinality(Under(c2, ok)) = Cardinality(Under(ch, ok)) + (IF m = Case(ok) THEN 1 ELSE 0)
<1>1. Len(ch) \in Nat /\ Len(c2) = Len(ch) + 1 /\ c2[Len(ch) + 1] = m
      /\ \A i \in 1 .. Len(ch) : c2[i] = ch[i]
  BY DEF Longer
<1>2. IsFiniteSet(Under(ch, ok)) /\ Cardinality(Under(ch, ok)) \in Nat
  BY <1>1, UnderFinite
<1>3. Len(ch) + 1 \notin Under(ch, ok)
  BY <1>1 DEF Under
<1>4. CASE m = Case(ok)
  <2>1. Under(c2, ok) = Under(ch, ok) \union {Len(ch) + 1}
    BY <1>1, <1>4 DEF Under
  <2> QED
    BY <1>2, <1>3, <1>4, <2>1, FS_AddElement
<1>5. CASE m # Case(ok)
  <2>1. Under(c2, ok) = Under(ch, ok)
    BY <1>1, <1>5 DEF Under
  <2> QED
    BY <1>2, <1>5, <2>1
<1> QED
  BY <1>4, <1>5

(* Receiving a case takes one away: the others move up by a place. *)
LEMMA UnderReceive ==
    ASSUME NEW ch, NEW m, NEW c2, Shorter(ch, m, c2), NEW ok
    PROVE  Cardinality(Under(ch, ok)) = Cardinality(Under(c2, ok)) + (IF m = Case(ok) THEN 1 ELSE 0)
<1>1. Len(c2) \in Nat /\ Len(ch) = Len(c2) + 1 /\ ch[1] = m
      /\ \A i \in 1 .. Len(c2) : c2[i] = ch[i + 1]
  BY DEF Shorter
<1>2. /\ IsFiniteSet(Under(ch, ok)) /\ Cardinality(Under(ch, ok)) \in Nat
      /\ IsFiniteSet(Under(c2, ok)) /\ Cardinality(Under(c2, ok)) \in Nat
  <2>1. Len(ch) \in Nat
    BY <1>1
  <2> QED
    BY <1>1, <2>1, UnderFinite
<1> DEFINE rest == Under(ch, ok) \ {1}
           up   == [i \in Under(c2, ok) |-> i + 1]
<1>3. /\ \A i \in Under(c2, ok) : i \in Nat /\ up[i] \in rest /\ up[i] = i + 1
      /\ \A j \in rest : j - 1 \in Under(c2, ok) /\ up[j - 1] = j
  BY <1>1 DEF Under
<1>4. up \in [Under(c2, ok) -> rest]
  BY <1>3
<1>5. \A i, j \in Under(c2, ok) : up[i] = up[j] => i = j
  BY <1>3
<1>6. up \in Bijection(Under(c2, ok), rest)
  <2>1. DOMAIN up = Under(c2, ok)
    OBVIOUS
  <2> HIDE DEF up, rest
  <2>2. \A j \in rest : \E i \in Under(c2, ok) : up[i] = j
    BY <1>3
  <2> QED
    BY <1>4, <1>5, <2>1, <2>2 DEF Bijection, Injection, Surjection, IsInjective
<1>7. Cardinality(rest) = Cardinality(Under(c2, ok))
  <2> HIDE DEF up, rest
  <2> QED
    BY <1>2, <1>6, FS_Bijection DEF ExistsBijection
<1>8. 1 \in Under(ch, ok) <=> m = Case(ok)
  BY <1>1 DEF Under
<1>9. Cardinality(rest) = IF 1 \in Under(ch, ok) THEN Cardinality(Under(ch, ok)) - 1
                                                   ELSE Cardinality(Under(ch, ok))
  BY <1>2, FS_RemoveElement
<1> HIDE DEF rest
<1> QED
  BY <1>2, <1>7, <1>8, <1>9

-----------------------------------------------------------------------------
(* One script more is settled. *)
LEMMA EntriesAdd ==
    ASSUME NEW S, NEW s, s \notin S, NEW own, NEW cases, cases[s] \in Nat,
           NEW total, Balanced(total, Entries(S, own, cases))
    PROVE  Balanced(total + cases[s] + (IF s \in own THEN 1 ELSE 0), Entries(S \union {s}, own, cases))
<1> DEFINE from  == IF s \in own THEN 0 ELSE 1
           added == {s} \X (from .. cases[s])
           old   == Entries(S, own, cases)
           counted == cases[s] + (IF s \in own THEN 1 ELSE 0)
<1>1. IsFiniteSet(from .. cases[s]) /\ Cardinality(from .. cases[s]) = counted
  <2>1. from \in Int /\ cases[s] \in Int
    OBVIOUS
  <2>2. (IF from > cases[s] THEN 0 ELSE cases[s] - from + 1) = counted
    OBVIOUS
  <2> HIDE DEF from, counted
  <2> QED
    BY <2>1, <2>2, FS_Interval
<1>2. IsFiniteSet(added) /\ Cardinality(added) = counted
  <2>1. IsFiniteSet({s}) /\ Cardinality({s}) = 1
    BY FS_Singleton
  <2>2. Cardinality({s}) * Cardinality(from .. cases[s]) = counted
    BY <1>1, <2>1
  <2> HIDE DEF from, counted
  <2> QED
    BY <1>1, <2>1, <2>2, FS_Product
<1>3. Entries(S \union {s}, own, cases) = old \union added
  BY DEF Entries
<1>4. old \intersect added = {}
  <2>1. \A e \in old : e[1] \in S
    BY DEF Entries
  <2>2. \A e \in added : e[1] = s
    OBVIOUS
  <2> HIDE DEF old, added
  <2> QED
    BY <2>1, <2>2
<1>5. IsFiniteSet(old) /\ total = Cardinality(old) /\ total \in Nat
  BY FS_CardinalityType DEF Balanced
<1>6. counted \in Nat
  OBVIOUS
<1> HIDE DEF added, old, counted
<1>7. /\ IsFiniteSet(old \union added)
      /\ Cardinality(old \union added) = Cardinality(old) + Cardinality(added) - Cardinality(old \intersect added)
  BY <1>2, <1>5, FS_Union
<1>8. Cardinality(old \union added) = total + counted
  <2>1. Cardinality(old \intersect added) = 0
    BY <1>4, FS_EmptySet
  <2> HIDE DEF from
  <2> QED
    BY <1>2, <1>5, <1>6, <1>7, <2>1
<1>9. total + counted = total + cases[s] + (IF s \in own THEN 1 ELSE 0)
  BY <1>5 DEF counted
<1> QED
  BY <1>3, <1>7, <1>8, <1>9 DEF Balanced

(* Entries are told only by the scripts they are of. *)
LEMMA EntriesSame ==
    ASSUME NEW S, NEW own, NEW own2, NEW cases, NEW cases2,
           \A s \in S : cases2[s] = cases[s] /\ (s \in own2 <=> s \in own)
    PROVE  Entries(S, own2, cases2) = Entries(S, own, cases)
<1>1. \A s \in S : {s} \X ((IF s \in own2 THEN 0 ELSE 1) .. cases2[s])
                   = {s} \X ((IF s \in own THEN 0 ELSE 1) .. cases[s])
  OBVIOUS
<1> QED
  BY <1>1 DEF Entries

-----------------------------------------------------------------------------
(* The steps.                                                              *)

LEMMA InitTotals ==
    ASSUME Init PROVE TotalInv
<1>1. /\ pc = "fill" /\ active = <<>> /\ joining = None
      /\ queue \in [1 .. Cardinality(Scripts) -> Scripts] /\ InOrder(queue)
      /\ passed = [s \in Scripts |-> 0] /\ failed = [s \in Scripts |-> 0]
      /\ passed_cases = 0 /\ failed_cases = 0 /\ result = None
      /\ sent = [s \in Scripts |-> [passed |-> 0, failed |-> 0]]
      /\ channel = [s \in Scripts |-> <<>>]
  BY DEF Init
<1>2. Cardinality(Scripts) \in Nat
  BY AutomationAssumption, FS_CardinalityType
<1>3. \A s \in Scripts : In(queue, s)
  BY <1>1, <1>2 DEF InOrder, In
<1>4. Settled = {}
  BY <1>3 DEF Settled, Held
<1>5. \A own, cases : Balanced(0, Entries(Settled, own, cases))
  <2>1. \A own, cases : Entries({}, own, cases) = {}
    BY DEF Entries
  <2> QED
    BY <1>4, <2>1, FS_EmptySet DEF Balanced
<1>6. Totals
  BY <1>1, <1>5, NoneAssumption DEF Totals, Decided, Results
<1>7. \A ok : Cardinality(Under(<<>>, ok)) = 0
  <2>1. \A ok : Under(<<>>, ok) = {}
    BY DEF Under
  <2> QED
    BY <2>1, FS_EmptySet
<1>8. Cases
  <2>1. \A s \in Scripts : /\ passed[s] = 0 /\ failed[s] = 0 /\ channel[s] = <<>>
                           /\ sent[s].passed = 0 /\ sent[s].failed = 0
    BY <1>1
  <2>2. passed \in [Scripts -> Nat]
    BY <1>1
  <2> QED
    <3>1. \A ok : Conserved(0, <<>>, ok, 0)
      BY <1>7 DEF Conserved
    <3>2. ASSUME NEW s \in Scripts
          PROVE  /\ Conserved(sent[s].passed, channel[s], TRUE, passed[s])
                 /\ Conserved(sent[s].failed, channel[s], FALSE, failed[s])
      BY <2>1, <3>1
    <3> QED
      BY <2>2, <3>2 DEF Cases
<1>9. Lists
  BY <1>1 DEF Lists
<1> QED
  BY <1>6, <1>8, <1>9 DEF TotalInv

(* As long as nothing is settled. *)
LEMMA TotalsSame ==
    ASSUME Totals, Settled' = Settled, UNCHANGED <<passed_cases, failed_cases>>,
           \A s \in Settled : /\ passed'[s] = passed[s] /\ failed'[s] = failed[s]
                              /\ termination'[s] = termination[s],
           Open' \/ Decided' => Open \/ Decided,
           Decided' => \A s \in Scripts : termination'[s] # None
    PROVE  Totals'
<1>1. \A s \in Settled : (s \in OwnPassed' <=> s \in OwnPassed) /\ (s \in OwnFailed' <=> s \in OwnFailed)
  BY DEF OwnPassed, OwnFailed, CountsItself, ScriptPassed
<1>2. /\ Entries(Settled', OwnPassed', passed') = Entries(Settled, OwnPassed, passed)
      /\ Entries(Settled', OwnFailed', failed') = Entries(Settled, OwnFailed, failed)
  <2>1. \A own2, cases2 :
          (\A s \in Settled : cases2[s] = passed[s] /\ (s \in own2 <=> s \in OwnPassed))
          => Entries(Settled, own2, cases2) = Entries(Settled, OwnPassed, passed)
    BY EntriesSame
  <2>2. \A own2, cases2 :
          (\A s \in Settled : cases2[s] = failed[s] /\ (s \in own2 <=> s \in OwnFailed))
          => Entries(Settled, own2, cases2) = Entries(Settled, OwnFailed, failed)
    BY EntriesSame
  <2>3. /\ Entries(Settled, OwnPassed', passed') = Entries(Settled, OwnPassed, passed)
        /\ Entries(Settled, OwnFailed', failed') = Entries(Settled, OwnFailed, failed)
    BY <1>1, <2>1, <2>2
  <2> QED
    BY <2>3
<1>3. Open' \/ Decided' => /\ Balanced(passed_cases', Entries(Settled', OwnPassed', passed'))
                          /\ Balanced(failed_cases', Entries(Settled', OwnFailed', failed'))
  BY <1>2 DEF Totals
<1> QED
  BY <1>3 DEF Totals

(* The thread sends m, which is more passed and bad failed cases. *)
Sends(s, m, more, bad) ==
    /\ m \in Message /\ channel' = [channel EXCEPT ![s] = Append(@, m)]
    /\ more = IF m = Case(TRUE) THEN 1 ELSE 0
    /\ bad = IF m = Case(FALSE) THEN 1 ELSE 0
    /\ \A r \in Scripts : r # s => sent'[r] = sent[r]
    /\ sent'[s].passed = sent[s].passed + more /\ sent'[s].failed = sent[s].failed + bad

LEMMA CasesSend ==
    ASSUME AutoInv, Cases, UNCHANGED <<passed, failed>>, NEW s \in Scripts,
           NEW m, NEW more, NEW bad, Sends(s, m, more, bad)
    PROVE  Cases'
<1>1. /\ channel[s] \in Seq(Message) /\ channel'[s] = Append(channel[s], m)
      /\ \A r \in Scripts : r # s => channel'[r] = channel[r]
  BY OfScript DEF Sends, Types
<1>2. Longer(channel[s], m, channel'[s])
  BY <1>1, ChannelSteps DEF Sends
<1>3. ASSUME NEW ok \in BOOLEAN, NEW n \in Nat, NEW f, NEW f2, Conserved(f, channel[s], ok, n),
             f2 = f + (IF m = Case(ok) THEN 1 ELSE 0)
      PROVE  Conserved(f2, channel'[s], ok, n)
  <2> DEFINE one == IF m = Case(ok) THEN 1 ELSE 0
  <2>1. Len(channel[s]) \in Nat
    BY <1>2 DEF Longer
  <2>2. Cardinality(Under(channel[s], ok)) \in Nat
    BY <2>1, UnderFinite
  <2>3. Cardinality(Under(channel'[s], ok)) = Cardinality(Under(channel[s], ok)) + one
    BY <1>2, UnderSend
  <2>4. f2 = f + one /\ one \in Nat
    BY <1>3
  <2> HIDE DEF one
  <2> QED
    BY <1>3, <2>2, <2>3, <2>4 DEF Conserved
<1>4. /\ passed[s] \in Nat /\ failed[s] \in Nat
      /\ Conserved(sent[s].passed, channel[s], TRUE, passed[s])
      /\ Conserved(sent[s].failed, channel[s], FALSE, failed[s])
  BY OfScript DEF Cases
<1>5. /\ Conserved(sent'[s].passed, channel'[s], TRUE, passed[s])
      /\ Conserved(sent'[s].failed, channel'[s], FALSE, failed[s])
  BY <1>3, <1>4 DEF Sends
<1>6. ASSUME NEW r \in Scripts, r # s
      PROVE  /\ Conserved(sent'[r].passed, channel'[r], TRUE, passed[r])
             /\ Conserved(sent'[r].failed, channel'[r], FALSE, failed[r])
  BY <1>1, <1>6 DEF Cases, Sends
<1> QED
  BY <1>1, <1>5, <1>6 DEF Cases

(* The threads of a script keep the orchestrator's state. *)
LEMMA ThreadTotals ==
    ASSUME AutoInv, AutoInv', TotalInv, UNCHANGED orchestratorVars, Cases',
           \A s \in Scripts : worker[s] # "unborn" => worker'[s] # "unborn"
    PROVE  TotalInv'
<1>1. UNCHANGED <<pc, queue, active, joining, passed, failed, termination, passed_cases, failed_cases, result>>
  BY DEF orchestratorVars
<1>2. \A s : Held(s)' <=> Held(s)
  BY <1>1 DEF Held, In
<1>3. Settled' = Settled
  BY <1>2 DEF Settled
<1>4. Totals'
  BY <1>1, <1>3, TotalsSame DEF TotalInv, Totals, Open, Decided
<1>5. Lists'
  <2>1. \A i \in 1 .. Len(active) : active[i] \in Scripts
    BY DEF AutoInv, Types
  <2> QED
    BY <1>1, <2>1 DEF TotalInv, Lists
<1> QED
  BY <1>4, <1>5 DEF TotalInv

LEMMA ScriptTotals ==
    ASSUME AutoInv, AutoInv', TotalInv, NEW s \in Scripts, Execute(s) \/ RunScript(s) \/ Watch(s)
    PROVE  TotalInv'
<1>1. /\ UNCHANGED orchestratorVars
      /\ \A r \in Scripts : worker[r] # "unborn" => worker'[r] # "unborn"
  <2>1. UNCHANGED orchestratorVars
    BY DEF Execute, RunScript, Watch, Setup, Interrupted, StopWatchdog, JoinWatchdog, Finish,
           EmitCase, EvalReturns, EvalPanics, FuelOut, EvalEnds, Wake, Trip, Beat
  <2>2. \/ worker' = worker
        \/ \E to \in {"eval", "stop", "join", "finish", "ended", "panicked"} :
              worker' = [worker EXCEPT ![s] = to]
    BY DEF Execute, RunScript, Watch, Setup, Interrupted, StopWatchdog, JoinWatchdog, Finish,
           EmitCase, EvalReturns, EvalPanics, FuelOut, EvalEnds, Wake, Trip, Beat, WorkerGoes, workerVars
  <2>3. worker \in [Scripts -> Working \union {"unborn", "ended", "panicked"}]
    BY DEF AutoInv, Types
  <2> QED
    BY <2>1, <2>2, <2>3
<1>2. UNCHANGED <<passed, failed>>
  BY <1>1 DEF orchestratorVars
<1>3. CASE UNCHANGED <<sent, channel>>
  BY <1>1, <1>2, <1>3, ThreadTotals DEF TotalInv, Cases
<1>4. CASE EmitCase(s)
  <2>1. PICK ok \in BOOLEAN : /\ channel' = [channel EXCEPT ![s] = Append(@, Case(ok))]
                              /\ sent' = IF ok THEN [sent EXCEPT ![s].passed = @ + 1]
                                               ELSE [sent EXCEPT ![s].failed = @ + 1]
    BY <1>4 DEF EmitCase, Send
  <2>2. sent[s] \in [passed : Nat, failed : Nat] /\ sent \in [Scripts -> [passed : Nat, failed : Nat]]
    BY OfScript DEF Types
  <2>3. /\ \A r \in Scripts : r # s => sent'[r] = sent[r]
        /\ sent'[s].passed = sent[s].passed + (IF ok THEN 1 ELSE 0)
        /\ sent'[s].failed = sent[s].failed + (IF ok THEN 0 ELSE 1)
    <3>1. CASE ok
      BY <2>1, <2>2, <3>1
    <3>2. CASE ~ok
      BY <2>1, <2>2, <3>2
    <3> QED
      BY <3>1, <3>2
  <2>4. Case(ok) \in Message /\ (Case(ok) = Case(TRUE) <=> ok) /\ (Case(ok) = Case(FALSE) <=> ~ok)
    BY MessageKinds
  <2>5. Sends(s, Case(ok), IF ok THEN 1 ELSE 0, IF ok THEN 0 ELSE 1)
    BY <2>1, <2>3, <2>4 DEF Sends
  <2>6. Cases'
    BY <1>2, <2>5, CasesSend DEF TotalInv
  <2> QED
    BY <1>1, <2>6, ThreadTotals
<1>5. CASE UNCHANGED sent /\ \E m \in {Progress} \union {Finished(t) : t \in Termination} : Send(s, m)
  <2>1. PICK m \in {Progress} \union {Finished(t) : t \in Termination} : Send(s, m)
    BY <1>5
  <2>2. m \in Message /\ m # Case(TRUE) /\ m # Case(FALSE)
    <3>1. m \in Message /\ m.type # "case"
      BY MessageKinds
    <3> QED
      BY <2>1, <3>1, MessageKinds
  <2>3. sent[s] \in [passed : Nat, failed : Nat]
    BY OfScript DEF Types
  <2>4. Sends(s, m, 0, 0)
    <3>1. sent' = sent /\ sent[s].passed = sent[s].passed + 0 /\ sent[s].failed = sent[s].failed + 0
      BY <1>5, <2>3
    <3>2. channel' = [channel EXCEPT ![s] = Append(@, m)]
      BY <2>1 DEF Send
    <3>3. /\ \A r \in Scripts : r # s => sent'[r] = sent[r]
          /\ sent'[s].passed = sent[s].passed + 0 /\ sent'[s].failed = sent[s].failed + 0
      BY <3>1, Zenon
    <3> QED
      BY <2>2, <3>2, <3>3, Zenon DEF Sends
  <2>5. Cases'
    BY <1>2, <2>4, CasesSend DEF TotalInv
  <2> QED
    BY <1>1, <2>5, ThreadTotals
<1>6. CASE Finish(s)
  <2>1. RunTermination(s) \in Termination
    BY <1>6, OfScript, NoneAssumption DEF Finish, RunTermination, Orderly, Types, Termination
  <2> QED
    BY <1>5, <1>6, <2>1 DEF Finish
<1>7. CASE Beat(s)
  BY <1>3, <1>5, <1>7 DEF Beat, workerVars
<1>8. CASE \/ Setup(s) \/ StopWatchdog(s) \/ JoinWatchdog(s) \/ Wake(s) \/ Trip(s)
           \/ \E with : EvalEnds(s, with)
  BY <1>3, <1>8 DEF Setup, StopWatchdog, JoinWatchdog, Wake, Trip, EvalEnds, workerVars
<1>9. Interrupted(s) \/ EvalReturns(s) \/ EvalPanics(s) \/ FuelOut(s) => \E with : EvalEnds(s, with)
  BY DEF Interrupted, EvalReturns, EvalPanics, FuelOut
<1> QED
  BY <1>4, <1>6, <1>7, <1>8, <1>9 DEF Execute, RunScript, Watch

-----------------------------------------------------------------------------
(* A step of the orchestrator other than receiving and finishing leaves    *)
(* the cases alone.                                                        *)
casesVars == <<channel, sent, passed, failed, termination, passed_cases, failed_cases>>

LEMMA QuietTotals ==
    ASSUME TotalInv, UNCHANGED casesVars, \A s \in Scripts : Held(s)' <=> Held(s),
           Open' \/ Decided' => Open \/ Decided,
           Decided' => \A s \in Scripts : termination[s] # None
    PROVE  Cases' /\ Totals'
<1>1. UNCHANGED <<channel, sent, passed, failed, termination, passed_cases, failed_cases>>
  BY DEF casesVars
<1>2. Settled' = Settled
  BY DEF Settled
<1>3. Totals'
  BY <1>1, <1>2, TotalsSame DEF TotalInv
<1> QED
  BY <1>1, <1>3 DEF TotalInv, Cases

(* After an error the totals are of no interest. *)
LEMMA AbandonedTotals ==
    ASSUME ~Open', ~Decided' PROVE Totals'
BY DEF Totals

LEMMA StartScriptTotals ==
    ASSUME AutoInv, TotalInv, StartScript PROVE TotalInv'
<1> DEFINE h == Head(queue)
<1>1. /\ pc = "fill" /\ queue # <<>> /\ active' = Append(active, h) /\ queue' = Tail(queue)
      /\ worker' = [worker EXCEPT ![h] = "setup"]
      /\ UNCHANGED <<pc, joining, result>> /\ UNCHANGED casesVars
  BY DEF StartScript, WorkerGoes, casesVars
<1>2. /\ queue \in Seq(Scripts) /\ active \in Seq(Scripts)
      /\ worker \in [Scripts -> Working \union {"unborn", "ended", "panicked"}]
      /\ joining = None /\ \A i \in 1 .. Len(queue) : worker[queue[i]] = "unborn"
  BY <1>1 DEF AutoInv, Types, Slots, Waiting
<1>3. /\ h \in Scripts /\ h = queue[1] /\ Len(queue) \in Nat \ {0} /\ Len(Tail(queue)) = Len(queue) - 1
      /\ \A i \in 1 .. Len(Tail(queue)) : Tail(queue)[i] = queue[i + 1]
      /\ \A s : In(queue, s) => In(Tail(queue), s) \/ s = h
  BY <1>1, <1>2, ListTail
<1>4. /\ Len(active) \in Nat /\ Len(active') = Len(active) + 1
      /\ \A i \in 1 .. Len(active) : active'[i] = active[i] /\ active[i] \in Scripts
      /\ active'[Len(active) + 1] = h
  BY <1>1, <1>2, <1>3, AppendProperties, LenProperties
<1>5. In(active', h) /\ \A s : In(active, s) => In(active', s)
  BY <1>1, <1>2, <1>3, ListAppend
<1> HIDE DEF h
<1>6. worker[h] = "unborn" /\ In(queue, h)
  BY <1>2, <1>3 DEF In
<1>7. \A s : Held(s)' <=> Held(s)
  <2>1. \A s : In(queue', s) => In(queue, s)
    BY <1>1, <1>3 DEF In
  <2>2. \A s : In(active', s) => In(active, s) \/ s = h
    <3>1. \A i \in 1 .. Len(active') : i \in 1 .. Len(active) \/ active'[i] = h
      BY <1>4
    <3> QED
      BY <1>4, <3>1 DEF In
  <2>3. \A s : In(queue, s) => In(queue', s) \/ s = h
    BY <1>1, <1>3
  <2> QED
    BY <1>1, <1>5, <1>6, <2>1, <2>2, <2>3 DEF Held, In
<1>8. Cases' /\ Totals'
  BY <1>1, <1>7, QuietTotals DEF Open, Decided, TotalInv, Totals
<1>9. Lists'
  <2>1. \A i \in 1 .. Len(active') : \/ i \in 1 .. Len(active) /\ active'[i] = active[i] /\ active[i] # h
                                     \/ i = Len(active) + 1 /\ active'[i] = h
    BY <1>4, <1>6 DEF TotalInv, Lists
  <2>2. \A i, j \in 1 .. Len(active') : active'[i] = active'[j] => i = j
    BY <2>1 DEF TotalInv, Lists
  <2>3. \A i \in 1 .. Len(active') : worker'[active'[i]] # "unborn"
    BY <1>1, <1>2, <1>3, <1>4, <2>1 DEF TotalInv, Lists
  <2>4. \A i \in 1 .. Len(active') : active'[i] # joining'
    BY <1>1, <1>2, <1>3, <1>4, <2>1, NoneAssumption
  <2> QED
    BY <2>2, <2>3, <2>4 DEF Lists
<1> QED
  BY <1>8, <1>9 DEF TotalInv

LEMMA RoundTotals ==
    ASSUME AutoInv, TotalInv, StartRound \/ NextScript \/ EndRound PROVE TotalInv'
<1>1. /\ pc \in {"fill", "poll"} /\ UNCHANGED <<queue, active, joining, worker>> /\ UNCHANGED casesVars
      /\ \/ pc' \in {"fill", "poll"} /\ result' = result
         \/ queue = <<>> /\ active = <<>> /\ pc' = "done"
         \/ pc' = "drop" /\ result' = "write"
  BY DEF StartRound, NextScript, EndRound, PollOver, Polling, GiveUp, workerVars, casesVars
<1>2. Open /\ result = None /\ joining = None /\ (\A s \in Scripts : Held(s) \/ Closed(s)) /\ ~Decided
  BY <1>1, NoneAssumption DEF AutoInv, Books, Slots, Open, Decided, Results
<1>3. \A s : Held(s)' <=> Held(s)
  BY <1>1 DEF Held, In
<1>4. Decided' => \A s \in Scripts : termination[s] # None
  <2>1. ASSUME queue = <<>>, active = <<>>, NEW s \in Scripts PROVE termination[s] # None
    <3>1. ~Held(s)
      BY <1>2, <2>1, NoneAssumption DEF Held, In
    <3> QED
      BY <1>2, <3>1 DEF Closed
  <2> QED
    BY <1>1, <1>2, <2>1 DEF Decided
<1>5. Cases' /\ Totals'
  BY <1>1, <1>2, <1>3, <1>4, QuietTotals
<1>6. Lists'
  BY <1>1 DEF TotalInv, Lists
<1> QED
  BY <1>5, <1>6 DEF TotalInv

LEMMA DropTotals ==
    ASSUME AutoInv, TotalInv, DropCancel \/ DropJoin \/ DropDone PROVE TotalInv'
<1>1. /\ pc \in {"drop", "dropping"} /\ pc' \in {"drop", "dropping", "done"}
      /\ UNCHANGED <<joining, result, worker>> /\ UNCHANGED casesVars
      /\ active' = active \/ (pc = "dropping" /\ active' = Tail(active))
  BY DEF DropCancel, DropJoin, DropDone, workerVars, casesVars
<1>2. ~Decided
  BY <1>1 DEF AutoInv, Verdict, Decided
<1>3. Totals'
  BY <1>1, <1>2, AbandonedTotals DEF Open, Decided
<1>4. Cases'
  BY <1>1 DEF TotalInv, Cases, casesVars
<1>5. Lists'
  <2>1. CASE active' = active
    BY <1>1, <2>1 DEF TotalInv, Lists
  <2>2. CASE pc = "dropping" /\ active' = Tail(active)
    <3>1. active # <<>> /\ active \in Seq(Scripts)
      BY <2>2 DEF AutoInv, Types, Slots
    <3>2. /\ Len(active) \in Nat /\ Len(active') = Len(active) - 1
          /\ \A i \in 1 .. Len(active') : active'[i] = active[i + 1]
      BY <2>2, <3>1, ListTail
    <3>3. \A i \in 1 .. Len(active') : i \in Nat /\ i + 1 \in 1 .. Len(active)
      BY <3>2
    <3>4. \A i, j \in 1 .. Len(active') : i + 1 = j + 1 => i = j
      BY <3>3
    <3> QED
      BY <1>1, <3>2, <3>3, <3>4 DEF TotalInv, Lists
  <2> QED
    BY <1>1, <2>1, <2>2
<1> QED
  BY <1>3, <1>4, <1>5 DEF TotalInv

LEMMA ReceiveTotals ==
    ASSUME AutoInv, TotalInv, Receive PROVE TotalInv'
<1>0. Polling
  BY DEF Receive
<1>1. PICK s \in Scripts : s = Polled /\ In(active, s) /\ Open /\ pc = "poll"
  BY <1>0, PolledScript
<1>2. PICK m : m = Head(channel[s])
  OBVIOUS
<1>3. /\ channel[s] # <<>> /\ channel' = [channel EXCEPT ![s] = Tail(@)]
      /\ passed' = [passed EXCEPT ![s] = IF m = Case(TRUE) THEN @ + 1 ELSE @]
      /\ failed' = [failed EXCEPT ![s] = IF m = Case(FALSE) THEN @ + 1 ELSE @]
      /\ termination' = [termination EXCEPT ![s] = IF m.type = "finished" THEN m.termination ELSE @]
      /\ result' \in {result, "write"}
      /\ UNCHANGED <<queue, active, joining, passed_cases, failed_cases, worker, sent>>
  BY <1>1, <1>2 DEF Receive, GiveUp, workerVars
<1>4. /\ channel[s] \in Seq(Message) /\ channel \in [Scripts -> Seq(Message)]
      /\ passed \in [Scripts -> Nat] /\ failed \in [Scripts -> Nat]
      /\ termination \in [Scripts -> Termination \union {None}]
  BY OfScript DEF TotalInv, Cases, Types
<1>5. Shorter(channel[s], m, Tail(channel[s]))
  BY <1>2, <1>3, <1>4, ChannelSteps
<1>6. /\ channel'[s] = Tail(channel[s])
      /\ passed'[s] = IF m = Case(TRUE) THEN passed[s] + 1 ELSE passed[s]
      /\ failed'[s] = IF m = Case(FALSE) THEN failed[s] + 1 ELSE failed[s]
      /\ \A r \in Scripts : r # s => /\ channel'[r] = channel[r] /\ passed'[r] = passed[r]
                                      /\ failed'[r] = failed[r] /\ termination'[r] = termination[r]
  BY <1>3, <1>4
<1>7. ASSUME NEW ok \in BOOLEAN, NEW n \in Nat, NEW n2, NEW f, Conserved(f, channel[s], ok, n),
             n2 = IF m = Case(ok) THEN n + 1 ELSE n
      PROVE  Conserved(f, channel'[s], ok, n2)
  <2> DEFINE more == IF m = Case(ok) THEN 1 ELSE 0
  <2>1. Len(channel'[s]) \in Nat
    BY <1>5, <1>6 DEF Shorter
  <2>2. Cardinality(Under(channel'[s], ok)) \in Nat
    BY <2>1, UnderFinite
  <2>3. Cardinality(Under(channel[s], ok)) = Cardinality(Under(channel'[s], ok)) + more
    BY <1>5, <1>6, UnderReceive
  <2>4. n2 = n + more /\ more \in Nat
    BY <1>7
  <2> HIDE DEF more
  <2> QED
    BY <1>7, <2>2, <2>3, <2>4 DEF Conserved
<1>8. /\ Conserved(sent[s].passed, channel'[s], TRUE, passed'[s])
      /\ Conserved(sent[s].failed, channel'[s], FALSE, failed'[s])
  <2>1. /\ Conserved(sent[s].passed, channel[s], TRUE, passed[s])
        /\ Conserved(sent[s].failed, channel[s], FALSE, failed[s])
        /\ passed[s] \in Nat /\ failed[s] \in Nat
    BY <1>4 DEF TotalInv, Cases
  <2> QED
    BY <1>6, <1>7, <2>1
<1>9. Cases'
  <2>1. passed' \in [Scripts -> Nat]
    <3> DEFINE n == IF m = Case(TRUE) THEN passed[s] + 1 ELSE passed[s]
    <3>0. passed[s] \in Nat /\ passed[s] + 1 \in Nat
      BY <1>4
    <3>1. n \in Nat
      BY <3>0, Zenon
    <3>2. passed' = [passed EXCEPT ![s] = n]
      BY <1>3, Zenon
    <3> HIDE DEF n
    <3> QED
      BY <1>4, <3>1, <3>2
  <2>2. ASSUME NEW r \in Scripts, r # s
        PROVE  /\ Conserved(sent[r].passed, channel'[r], TRUE, passed'[r])
               /\ Conserved(sent[r].failed, channel'[r], FALSE, failed'[r])
    BY <1>6, <2>2 DEF TotalInv, Cases
  <2> QED
    BY <1>3, <1>8, <2>1, <2>2 DEF Cases
<1>10. Totals'
  <2>1. \A r : Held(r)' <=> Held(r)
    BY <1>3 DEF Held, In
  <2>2. Settled' = Settled /\ s \notin Settled
    BY <1>1, <2>1 DEF Settled, Held
  <2>3. result = None /\ ~Decided'
    BY <1>1, <1>3, NoneAssumption DEF AutoInv, Books, Decided, Results
  <2>4. \A r \in Settled : passed'[r] = passed[r] /\ failed'[r] = failed[r] /\ termination'[r] = termination[r]
    BY <1>6, <2>2 DEF Settled
  <2> QED
    BY <1>1, <1>3, <2>2, <2>3, <2>4, TotalsSame DEF TotalInv
<1>11. Lists'
  BY <1>3 DEF TotalInv, Lists
<1> QED
  BY <1>9, <1>10, <1>11 DEF TotalInv

LEMMA RemoveTotals ==
    ASSUME AutoInv, TotalInv, RemoveScript PROVE TotalInv'
<1>0. Polling
  BY DEF RemoveScript, PollOver
<1>1. PICK s \in Scripts : s = Polled /\ In(active, s) /\ Open /\ pc = "poll" /\ joining = None /\ s # None
                           /\ index \in 1 .. Len(active) /\ s = active[index]
  BY <1>0, PolledScript
<1>2. /\ joining' = s /\ active' = SwapRemove(active, index) /\ pc' = "join"
      /\ UNCHANGED <<queue, result, worker>> /\ UNCHANGED casesVars
  BY <1>1 DEF RemoveScript, workerVars, casesVars
<1>3. active \in Seq(Scripts) /\ Len(active) \in Nat /\ \A i \in 1 .. Len(active) : active[i] \in Scripts
  BY DEF AutoInv, Types
<1>4. /\ active' \in Seq(Scripts) /\ Len(active') = Len(active) - 1
      /\ \A r : In(active, r) => In(active', r) \/ r = s
      /\ \A i \in 1 .. Len(active') : active'[i] = active[IF i = index THEN Len(active) ELSE i]
  <2>1. \A i \in 1 .. Len(active) - 1 :
           SwapRemove(active, index)[i] = IF i = index THEN active[Len(active)] ELSE active[i]
    BY <1>1, <1>3, ListRemove
  <2>2. /\ SwapRemove(active, index) \in Seq(Scripts)
        /\ Len(SwapRemove(active, index)) = Len(active) - 1
        /\ \A r : In(active, r) => In(SwapRemove(active, index), r) \/ r = active[index]
    BY <1>1, <1>3, ListRemove
  <2> QED
    BY <1>1, <1>2, <2>1, <2>2
<1> DEFINE from(i) == IF i = index THEN Len(active) ELSE i
<1>5. /\ \A i \in 1 .. Len(active') : from(i) \in 1 .. Len(active) /\ from(i) # index
      /\ \A i, j \in 1 .. Len(active') : from(i) = from(j) => i = j
  BY <1>1, <1>3, <1>4
<1>6. \A i \in 1 .. Len(active') : active'[i] = active[from(i)]
  BY <1>4
<1> HIDE DEF from
<1>7. \A r \in Scripts : Held(r)' <=> Held(r)
  <2>1. \A r : In(active', r) => In(active, r)
    BY <1>5, <1>6 DEF In
  <2> QED
    BY <1>1, <1>2, <1>4, <2>1, NoneAssumption DEF Held, In
<1>8. Cases' /\ Totals'
  <2>1. ~Decided'
    BY <1>1, <1>2, NoneAssumption DEF AutoInv, Books, Decided, Results
  <2> QED
    BY <1>1, <1>2, <1>7, <2>1, QuietTotals DEF TotalInv
<1>9. Lists'
  <2>1. \A i, j \in 1 .. Len(active) : active[i] = active[j] => i = j
    BY DEF TotalInv, Lists
  <2>2. \A i, j \in 1 .. Len(active') : active'[i] = active'[j] => i = j
    BY <1>5, <1>6, <2>1
  <2>3. \A i \in 1 .. Len(active') : worker'[active'[i]] # "unborn"
    BY <1>2, <1>5, <1>6 DEF TotalInv, Lists
  <2>4. \A i \in 1 .. Len(active') : active'[i] # joining'
    BY <1>1, <1>2, <1>5, <1>6, <2>1
  <2> QED
    BY <2>2, <2>3, <2>4 DEF Lists
<1> QED
  BY <1>8, <1>9 DEF TotalInv

(* What a finished script adds is just its entries. *)
LEMMA FinishTotals ==
    ASSUME AutoInv, AutoInv', TotalInv, FinishScript PROVE TotalInv'
<1>0. pc = "join" /\ worker[joining] \in Ended /\ joining # None /\ joining \in Scripts /\ Open
  BY DEF FinishScript, AutoInv, Slots, Types, Open
<1>1. PICK s \in Scripts : s = joining
  BY <1>0
<1> DEFINE own(counts) == IF counts /\ CountsItself(s) THEN 1 ELSE 0
<1>2. /\ joining' = None
      /\ UNCHANGED <<queue, active, worker, channel, sent, passed, failed, termination>>
      /\ \/ pc' = "drop" /\ result' \in {"panicked", "no Finished", "write"}
         \/ /\ passed_cases' = passed_cases + passed[s] + own(ScriptPassed(s))
            /\ failed_cases' = failed_cases + failed[s] + own(~ScriptPassed(s))
            /\ pc' = "poll" /\ UNCHANGED result
  BY <1>1 DEF FinishScript, GiveUp, workerVars
<1>3. Cases'
  BY <1>2 DEF TotalInv, Cases
<1>4. Lists'
  <2>1. active \in Seq(Scripts) /\ \A i \in 1 .. Len(active) : active[i] \in Scripts
    BY DEF AutoInv, Types
  <2> QED
    BY <1>2, <2>1, NoneAssumption DEF TotalInv, Lists
<1>5. CASE pc' = "drop" /\ result' \in {"panicked", "no Finished", "write"}
  <2>1. ~Open' /\ ~Decided'
    BY <1>5 DEF Open, Decided
  <2> QED
    BY <1>3, <1>4, <2>1, AbandonedTotals DEF TotalInv
<1>6. CASE /\ passed_cases' = passed_cases + passed[s] + own(ScriptPassed(s))
           /\ failed_cases' = failed_cases + failed[s] + own(~ScriptPassed(s))
           /\ pc' = "poll" /\ UNCHANGED result
  <2>1. result = None /\ ~Decided'
    BY <1>0, <1>6, NoneAssumption DEF AutoInv, Books, Decided, Results
  <2>2. /\ Balanced(passed_cases, Entries(Settled, OwnPassed, passed))
        /\ Balanced(failed_cases, Entries(Settled, OwnFailed, failed))
    BY <1>0 DEF TotalInv, Totals
  <2>3. s \notin Settled /\ ~In(active, s) /\ ~In(queue, s)
    <3>1. s \notin Settled
      BY <1>1 DEF Settled, Held
    <3>2. ~In(active, s)
      BY <1>1 DEF TotalInv, Lists, In
    <3>3. ~In(queue, s)
      BY <1>0, <1>1 DEF AutoInv, Waiting, In, Ended
    <3> QED
      BY <3>1, <3>2, <3>3
  <2>4. Settled' = Settled \union {s}
    <3>1. \A r \in Scripts : Held(r)' <=> Held(r) /\ r # s
      BY <1>0, <1>1, <1>2, <2>3, NoneAssumption DEF Held, In
    <3> QED
      BY <3>1 DEF Settled
  <2>5. OwnPassed' = OwnPassed /\ OwnFailed' = OwnFailed /\ passed' = passed /\ failed' = failed
    BY <1>2 DEF OwnPassed, OwnFailed, CountsItself, ScriptPassed
  <2>6. passed[s] \in Nat /\ failed[s] \in Nat
    BY DEF TotalInv, Cases, AutoInv, Types
  <2>7. /\ Balanced(passed_cases + passed[s] + (IF s \in OwnPassed THEN 1 ELSE 0),
                    Entries(Settled \union {s}, OwnPassed, passed))
        /\ Balanced(failed_cases + failed[s] + (IF s \in OwnFailed THEN 1 ELSE 0),
                    Entries(Settled \union {s}, OwnFailed, failed))
    BY <2>2, <2>3, <2>6, EntriesAdd
  <2>8. /\ own(ScriptPassed(s)) = (IF s \in OwnPassed THEN 1 ELSE 0)
        /\ own(~ScriptPassed(s)) = (IF s \in OwnFailed THEN 1 ELSE 0)
    BY DEF OwnPassed, OwnFailed
  <2>9. /\ Balanced(passed_cases', Entries(Settled', OwnPassed', passed'))
        /\ Balanced(failed_cases', Entries(Settled', OwnFailed', failed'))
    BY <1>6, <2>4, <2>5, <2>7, <2>8
  <2>10. Totals'
    BY <2>1, <2>9 DEF Totals
  <2> QED
    BY <1>3, <1>4, <2>10 DEF TotalInv
<1> QED
  BY <1>2, <1>5, <1>6

-----------------------------------------------------------------------------
LEMMA NextTotals ==
    ASSUME AutoInv, AutoInv', TotalInv, [Next]_vars PROVE TotalInv'
<1>1. CASE UNCHANGED vars
  <2>1. UNCHANGED orchestratorVars /\ UNCHANGED <<worker, sent, channel, passed, failed>>
    BY <1>1 DEF vars, workerVars, orchestratorVars
  <2>2. Cases'
    BY <2>1 DEF TotalInv, Cases
  <2> QED
    BY <2>1, <2>2, ThreadTotals
<1>2. CASE Orchestrate
  BY <1>2, StartScriptTotals, RoundTotals, ReceiveTotals, RemoveTotals, FinishTotals, DropTotals
     DEF Orchestrate
<1>3. CASE \E s \in Scripts : Execute(s) \/ RunScript(s) \/ Watch(s)
  BY <1>3, ScriptTotals
<1> QED
  BY <1>1, <1>2, <1>3 DEF Next, Returned

LEMMA TotalInvariant == Spec => []TotalInv
<1>1. Init => TotalInv
  BY InitTotals
<1>2. AutoInv /\ AutoInv' /\ TotalInv /\ [Next]_vars => TotalInv'
  BY NextTotals
<1> QED
  BY <1>1, <1>2, AutoInvariant, PTL DEF Spec

(* At the end every script is settled, its messages have all arrived, and  *)
(* what the orchestrator knows of it is what it did.                       *)
LEMMA ReportFromInv ==
    ASSUME AutoInv, TotalInv PROVE ReportTruthful
<1> SUFFICES ASSUME Decided
             PROVE  LET ok  == {s \in Scripts : outcome[s] = "Ok" /\ sent[s].failed = 0}
                        own == {s \in Scripts : \/ sent[s].passed + sent[s].failed = 0
                                                \/ outcome[s] \notin Completed}
                    IN  /\ passed_cases =
                            Cardinality(Entries(Scripts, own \intersect ok, [s \in Scripts |-> sent[s].passed]))
                        /\ failed_cases =
                            Cardinality(Entries(Scripts, own \ ok, [s \in Scripts |-> sent[s].failed]))
  BY DEF AutoInv, Verdict, ReportTruthful, Decided
<1> DEFINE ok  == {s \in Scripts : outcome[s] = "Ok" /\ sent[s].failed = 0}
           own == {s \in Scripts : \/ sent[s].passed + sent[s].failed = 0
                                   \/ outcome[s] \notin Completed}
<1>1. pc = "done" /\ \A s \in Scripts : worker[s] = "ended" /\ termination[s] # None
  BY DEF AutoInv, Verdict, Decided, TotalInv, Totals
<1>2. Settled = Scripts
  <2>1. active = <<>> /\ joining = None
    BY <1>1 DEF AutoInv, Slots
  <2>2. \A s \in Scripts : ~In(queue, s)
    BY <1>1 DEF AutoInv, Waiting, In
  <2> QED
    BY <2>1, <2>2, NoneAssumption DEF Settled, Held, In
<1>3. \A s \in Scripts : passed[s] = sent[s].passed /\ failed[s] = sent[s].failed /\ termination[s] = outcome[s]
  <2> TAKE s \in Scripts
  <2>1. channel[s] = <<>> /\ termination[s] = outcome[s]
    BY <1>1, OfScript DEF Orderly
  <2>2. \A b : Cardinality(Under(<<>>, b)) = 0
    <3>1. \A b : Under(<<>>, b) = {}
      BY DEF Under
    <3> QED
      BY <3>1, FS_EmptySet
  <2>3. passed[s] \in Nat /\ failed[s] \in Nat
    BY DEF TotalInv, Cases, AutoInv, Types
  <2>4. \A b, f : \A n \in Nat : Conserved(f, <<>>, b, n) => f = n
    BY <2>2 DEF Conserved
  <2>5. Conserved(sent[s].passed, <<>>, TRUE, passed[s]) /\ Conserved(sent[s].failed, <<>>, FALSE, failed[s])
    BY <2>1 DEF TotalInv, Cases
  <2> QED
    BY <2>1, <2>3, <2>4, <2>5
<1>4. \A s \in Scripts : /\ s \in own \intersect ok <=> s \in OwnPassed
                         /\ s \in own \ ok <=> s \in OwnFailed
  BY <1>3 DEF OwnPassed, OwnFailed, CountsItself, ScriptPassed
<1>5. \A own2, cases2 :
        (\A s \in Scripts : cases2[s] = passed[s] /\ (s \in own2 <=> s \in OwnPassed))
        => Entries(Scripts, own2, cases2) = Entries(Scripts, OwnPassed, passed)
  BY EntriesSame
<1>6. \A own2, cases2 :
        (\A s \in Scripts : cases2[s] = failed[s] /\ (s \in own2 <=> s \in OwnFailed))
        => Entries(Scripts, own2, cases2) = Entries(Scripts, OwnFailed, failed)
  BY EntriesSame
<1> HIDE DEF ok, own
<1>7. Entries(Scripts, own \intersect ok, [s \in Scripts |-> sent[s].passed]) = Entries(Scripts, OwnPassed, passed)
  BY <1>3, <1>4, <1>5
<1>8. Entries(Scripts, own \ ok, [s \in Scripts |-> sent[s].failed]) = Entries(Scripts, OwnFailed, failed)
  BY <1>3, <1>4, <1>6
<1>9. passed_cases = Cardinality(Entries(Scripts, OwnPassed, passed))
      /\ failed_cases = Cardinality(Entries(Scripts, OwnFailed, failed))
  BY <1>2 DEF TotalInv, Totals, Balanced
<1> QED
  BY <1>7, <1>8, <1>9 DEF ok, own

(* When orchestrate returns a verdict every discovered script has been     *)
(* counted, the exit code is zero just if each of them completed well      *)
(* without a failed case, and the totals of the report have each case that *)
(* a script sent exactly once, and a script that counts itself once more.  *)
THEOREM ReportIsTruthful == Spec => []ReportTruthful
<1>1. AutoInv /\ TotalInv => ReportTruthful
  BY ReportFromInv
<1> QED
  BY <1>1, AutoInvariant, TotalInvariant, PTL
=============================================================================
