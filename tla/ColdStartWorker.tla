-------------------------- MODULE ColdStartWorker --------------------------
(***************************************************************************)
(* The background worker of cold_start_scheduler.rs and its handshake with *)
(* the runtime actor.                                                      *)
(*                                                                         *)
(* The actor admits jobs against a shared bound, hands them to the worker  *)
(* over an unbounded channel and remembers each as an attempt.  The worker *)
(* loop folds the channel into a priority queue, spawns one child task per *)
(* quantum, joins the children and pushes unfinished jobs back.  A child   *)
(* asks the actor before and after its provider round and hands its result *)
(* over; the actor may cancel a job anywhere on that way, and either side  *)
(* may shut down.  A job's place under the bound is a lease, released at   *)
(* most once by whoever ends the job.                                      *)
(***************************************************************************)
EXTENDS PriorityQueue

CONSTANTS
  Work,            \* work ids; an id is used for one attempt
  ClassOf,         \* class of each work
  ColdStarts,      \* works that may take several rounds
  Batches,         \* batches the actor may submit: sequences of works
  queue_capacity,  \* AmmColdStartWorkerConfig.queue_capacity
  max_concurrency, \* AmmColdStartWorkerConfig.max_concurrency
  MaxRound,        \* bound: last round of a cold start
  Faults           \* may a provider round panic

ASSUME WorkerAssumption ==
  /\ IsFiniteSet(Work)
  /\ ClassOf \in [Work -> Class]
  /\ ColdStarts \subseteq Work
  /\ Batches \subseteq Seq(Work)
  /\ \A b \in Batches : b # <<>> /\ \A i, j \in DOMAIN b : b[i] = b[j] => i = j
  /\ {queue_capacity, max_concurrency} \subseteq Nat \ {0}
  /\ MaxRound \in Nat
  /\ Faults \in BOOLEAN

VARIABLES
  \* Shared between the actor and the worker.
  shutdown,             \* the worker's shutdown flag
  accepted_jobs,        \* jobs admitted and not released
  commands,             \* channel of WorkerCommands
  \* The worker loop.
  pc,                   \* where the loop is
  flushing,             \* works whose cancellation the loop still owes the actor
  queued,               \* PriorityQueue of accepted executions
  held,                 \* works whose AdmissionLease is held
  externally_cancelled, \* children the actor had aborted
  \* The children.
  task,                 \* state of the child that runs a work
  round,                \* round the work is at
  \* The actor.
  runtime,              \* is the actor running, stopping or stopped
  attempt,              \* what scheduled_work and its siblings know of a work
  completed,            \* AmmWorkProgress.completed
  submission,           \* a submission the actor is in the middle of
  mail,                 \* control commands about a work, in order
  answer                \* the actor's answer to whoever waits for it

shared_vars == <<shutdown, accepted_jobs, commands>>
loop_vars == <<pc, flushing, queued, held, externally_cancelled>>
child_vars == <<task, round>>
actor_vars == <<runtime, attempt, completed, submission>>
mail_vars == <<mail, answer>>
vars == <<shared_vars, loop_vars, child_vars, actor_vars, mail_vars>>

Waits == {"start", "begin", "more", "report", "commit", "fail", "cancel"}
Returned == {"continue", "finished", "panicked", "killed"}
TaskState == {"none", "spawned", "fetch"} \cup Waits \cup Returned
NoSubmission == [step |-> "idle", batch |-> <<>>, reply |-> {}, ok |-> FALSE]

Jobs(batch) == [op |-> "jobs", works |-> batch]
Cancel(w) == [op |-> "cancel", works |-> <<w>>]

Children == {w \in Work : task[w] # "none"}
Open(w) == attempt[w] \in {"queued", "running"}

Init ==
  /\ shutdown = FALSE /\ accepted_jobs = 0 /\ commands = <<>>
  /\ pc = "top" /\ flushing = <<>> /\ queued = EmptyQueue
  /\ held = {} /\ externally_cancelled = {}
  /\ task = [w \in Work |-> "none"] /\ round = [w \in Work |-> 0]
  /\ runtime = "running" /\ submission = NoSubmission
  /\ attempt = [w \in Work |-> "unborn"] /\ completed = [w \in Work |-> 0]
  /\ mail = [w \in Work |-> <<>>] /\ answer = [w \in Work |-> "none"]

-----------------------------------------------------------------------------
(* The actor: admission.                                                   *)

ReceiverClosed == pc \in {"flush", "flush_cancel", "drop", "drop_cancel",
                          "join", "join_cancel", "stopped"}

Idle == runtime = "running" /\ submission.step = "idle"

Submission(batch, reply, ok) ==
  [step |-> "reserve", batch |-> batch, reply |-> reply, ok |-> ok]

Unborn == {b \in Batches : \A i \in DOMAIN b : attempt[b[i]] = "unborn"}

(* A caller queues pools, a repair, deferred work or a discovery.          *)
Submit(b) ==
  /\ Idle /\ b \in Unborn
  /\ submission' = Submission(b, {}, FALSE)
  /\ UNCHANGED <<shared_vars, loop_vars, child_vars, runtime, attempt, completed, mail_vars>>

(* The handler that submitted ends; the child it serves gets its answer.   *)
EndSubmission ==
  /\ submission' = NoSubmission
  /\ answer' = [w \in Work |-> IF w \notin submission.reply THEN answer[w]
                               ELSE IF submission.ok THEN "ok" ELSE "err"]

(* Mutant: a command counts as one job.                                    *)
ReserveOne ==
  /\ submission.step = "reserve" /\ accepted_jobs < queue_capacity
  /\ accepted_jobs' = accepted_jobs + 1
  /\ submission' = [submission EXCEPT !.step = "check"]
  /\ UNCHANGED <<shutdown, commands, loop_vars, child_vars, runtime, attempt, completed, mail_vars>>

(* fetch_update: all jobs of the command are admitted, or none.            *)
Reserve ==
  /\ submission.step = "reserve"
  /\ LET next == accepted_jobs + Len(submission.batch)
     IN  \/ /\ next <= queue_capacity
            /\ accepted_jobs' = next
            /\ submission' = [submission EXCEPT !.step = "check"]
            /\ UNCHANGED answer
         \/ /\ next > queue_capacity
            /\ EndSubmission
            /\ UNCHANGED accepted_jobs
  /\ UNCHANGED <<shutdown, commands, loop_vars, child_vars, runtime, attempt, completed, mail>>

(* The admission is given back when the worker is seen to shut down.       *)
CheckShutdown ==
  /\ submission.step = "check"
  /\ \/ /\ ~shutdown
        /\ submission' = [submission EXCEPT !.step = "send"]
        /\ UNCHANGED <<accepted_jobs, answer>>
     \/ /\ shutdown
        /\ accepted_jobs' = accepted_jobs - Len(submission.batch)
        /\ EndSubmission
  /\ UNCHANGED <<shutdown, commands, loop_vars, child_vars, runtime, attempt, completed, mail>>

(* The receiver may have closed since; otherwise the attempts are born.    *)
Send ==
  /\ submission.step = "send"
  /\ EndSubmission
  /\ \/ /\ ReceiverClosed
        /\ accepted_jobs' = accepted_jobs - Len(submission.batch)
        /\ UNCHANGED <<commands, attempt>>
     \/ /\ ~ReceiverClosed
        /\ commands' = Append(commands, Jobs(submission.batch))
        /\ attempt' = [w \in Work |-> IF w \in ToSet(submission.batch) THEN "queued"
                                      ELSE attempt[w]]
        /\ UNCHANGED accepted_jobs
  /\ UNCHANGED <<shutdown, loop_vars, child_vars, runtime, completed, mail>>

-----------------------------------------------------------------------------
(* The actor: cancellation and shutdown.                                   *)

(* detach_scheduled_work, and the repair that replaces deferred work: the  *)
(* worker is told before the attempt is forgotten.                         *)
Detach(w) ==
  /\ Idle /\ Open(w)
  /\ attempt' = [attempt EXCEPT ![w] = "closed"]
  /\ commands' = IF shutdown \/ ReceiverClosed THEN commands
                 ELSE Append(commands, Cancel(w))
  /\ UNCHANGED <<shutdown, accepted_jobs, loop_vars, child_vars, runtime, completed, submission, mail_vars>>

(* cancel_work: the attempt is forgotten; the worker finds out by itself.  *)
CancelWork(w) ==
  /\ Idle /\ Open(w)
  /\ attempt' = [attempt EXCEPT ![w] = "closed"]
  /\ UNCHANGED <<shared_vars, loop_vars, child_vars, runtime, completed, submission, mail_vars>>

(* AmmColdStartWorkerHandle::shutdown                                      *)
WorkerShutdown ==
  /\ ~shutdown
  /\ shutdown' = TRUE
  /\ UNCHANGED <<accepted_jobs, commands, loop_vars, child_vars, actor_vars, mail_vars>>

(* The runtime's own shutdown flag, and the actor's loop ending on it.     *)
RuntimeShutdown ==
  /\ runtime = "running"
  /\ runtime' = "stopping"
  /\ UNCHANGED <<shared_vars, loop_vars, child_vars, attempt, completed, submission, mail_vars>>

ActorStops ==
  /\ runtime = "stopping" /\ submission.step = "idle"
  /\ runtime' = "stopped"
  /\ shutdown' = TRUE
  /\ UNCHANGED <<accepted_jobs, commands, loop_vars, child_vars, attempt, completed, submission, mail_vars>>

-----------------------------------------------------------------------------
(* The actor: commands about scheduled work.                               *)

(* An answer reaches the child, or the loop, that still waits for it.      *)
AwaitsAnswer(w, op) ==
  task[w] = op \/ (op = "cancel" /\ flushing # <<>> /\ Head(flushing) = w)

Answer(w, op, a) ==
  answer' = IF AwaitsAnswer(w, op) THEN [answer EXCEPT ![w] = a] ELSE answer

(* start_scheduled_work, begin_scheduled_round                             *)
StartRound(w, msg) ==
  LET ok == attempt[w] = "queued" /\ completed[w] = msg.round
  IN  /\ attempt' = IF ok THEN [attempt EXCEPT ![w] = "running"] ELSE attempt
      /\ Answer(w, msg.op, IF ok THEN "ok" ELSE "err")
      /\ UNCHANGED <<completed, submission>>

(* report_scheduled_round, with a next round or without                    *)
ReportRound(w, msg) ==
  LET ok == attempt[w] = "running" /\ completed[w] = msg.round
  IN  /\ attempt' = IF ok /\ msg.op = "more" THEN [attempt EXCEPT ![w] = "queued"] ELSE attempt
      /\ completed' = IF ok THEN [completed EXCEPT ![w] = @ + 1] ELSE completed
      /\ Answer(w, msg.op, IF ok THEN "ok" ELSE "err")
      /\ UNCHANGED submission

(* The end of an attempt may submit the work that waited for it; the       *)
(* answer follows that submission.                                         *)
CloseAttempt(w, msg, ok) ==
  /\ attempt' = [attempt EXCEPT ![w] = "closed"]
  /\ UNCHANGED completed
  /\ \/ /\ Answer(w, msg.op, IF ok THEN "ok" ELSE "err")
        /\ UNCHANGED submission
     \/ \E b \in Unborn :
          submission' = Submission(b, IF AwaitsAnswer(w, msg.op) THEN {w} ELSE {}, ok)
        /\ UNCHANGED answer

Refuse(w, msg) ==
  /\ Answer(w, msg.op, "err")
  /\ UNCHANGED <<attempt, completed, submission>>

(* commit_scheduled_pool, _refresh, _slot_patch and _discovery: success, a *)
(* failure that leaves the attempt for fail_scheduled_work, or a repair    *)
(* superseded by a newer point, which ends the attempt and still fails.    *)
CommitWork(w, msg) ==
  \/ Open(w) /\ \E ok \in BOOLEAN : CloseAttempt(w, msg, ok)
  \/ Refuse(w, msg)

(* fail_scheduled_work; cancel_scheduled_work                              *)
FailWork(w, msg) ==
  \/ Open(w) /\ CloseAttempt(w, msg, TRUE)
  \/ ~Open(w) /\ Refuse(w, msg)

CancelScheduled(w, msg) ==
  /\ attempt' = IF Open(w) THEN [attempt EXCEPT ![w] = "closed"] ELSE attempt
  /\ Answer(w, msg.op, "ok")
  /\ UNCHANGED <<completed, submission>>

HandleControl(w) ==
  /\ Idle /\ mail[w] # <<>>
  /\ LET msg == Head(mail[w])
     IN  \/ msg.op \in {"start", "begin"} /\ StartRound(w, msg)
         \/ msg.op \in {"more", "report"} /\ ReportRound(w, msg)
         \/ msg.op = "commit" /\ CommitWork(w, msg)
         \/ msg.op = "fail" /\ FailWork(w, msg)
         \/ msg.op = "cancel" /\ CancelScheduled(w, msg)
  /\ mail' = [mail EXCEPT ![w] = Tail(@)]
  /\ UNCHANGED <<shared_vars, loop_vars, child_vars, runtime>>

(* The queue of an actor that has stopped is dropped: every caller fails.  *)
ControlClosed(w) ==
  /\ runtime = "stopped" /\ mail[w] # <<>>
  /\ Answer(w, Head(mail[w]).op, "err")
  /\ mail' = [mail EXCEPT ![w] = Tail(@)]
  /\ UNCHANGED <<shared_vars, loop_vars, child_vars, actor_vars>>

-----------------------------------------------------------------------------
(* The children: run_cold_start_quantum.                                   *)

(* AdmissionLease::release: only the first release of a lease counts.      *)
Release(S) ==
  /\ held' = held \ S
  /\ accepted_jobs' = accepted_jobs - Cardinality(S \cap held)

KeepLeases == UNCHANGED <<held, accepted_jobs>>

(* Ask the actor and wait: the request stays queued if the child dies.     *)
Ask(w, op) ==
  /\ mail' = [mail EXCEPT ![w] = Append(@, [op |-> op, round |-> round[w]])]
  /\ task' = [task EXCEPT ![w] = op]

Return(w, state) ==
  /\ task' = [task EXCEPT ![w] = state]
  /\ UNCHANGED mail

(* cancel_job does not ask an actor that has begun to shut down.           *)
CancelJob(w) ==
  IF runtime = "running" THEN Ask(w, "cancel") ELSE Return(w, "finished")

child_frame == <<shutdown, commands, pc, flushing, queued, externally_cancelled, actor_vars>>

BeginQuantum(w) ==
  /\ task[w] = "spawned" /\ w \notin externally_cancelled
  /\ IF shutdown THEN CancelJob(w)
     ELSE Ask(w, IF round[w] = 0 THEN "start" ELSE "begin")
  /\ KeepLeases
  /\ UNCHANGED <<answer, round, child_frame>>

(* The wait for the start is dropped when the worker shuts down.           *)
ShutdownBeforeStart(w) ==
  /\ task[w] \in {"start", "begin"} /\ shutdown /\ w \notin externally_cancelled
  /\ CancelJob(w)
  /\ answer' = [answer EXCEPT ![w] = "none"]
  /\ KeepLeases
  /\ UNCHANGED <<round, child_frame>>

(* The provider round: a result, another round to come, an error, a panic. *)
(* It is synchronous, so an aborted child may still send its next request. *)
FetchRound(w) ==
  /\ task[w] = "fetch"
  /\ \/ Ask(w, "report")
     \/ w \in ColdStarts /\ round[w] < MaxRound /\ Ask(w, "more")
     \/ Ask(w, "fail")
     \/ shutdown /\ CancelJob(w)
     \/ Faults /\ Return(w, "panicked")
  /\ KeepLeases
  /\ UNCHANGED <<answer, round, child_frame>>

(* Mutant: the result is handed over with the lease still held.            *)
KeepLeaseAtCommit(w) == Ask(w, "commit") /\ KeepLeases

(* commit_prepared: the slot is free before the actor may submit more.     *)
CommitPrepared(w) == Ask(w, "commit") /\ Release({w})

(* What the child does with an answer.                                     *)
Resume(w) ==
  /\ task[w] \in Waits /\ answer[w] # "none" /\ w \notin externally_cancelled
  /\ LET ok == answer[w] = "ok"
     IN  \/ /\ task[w] \in {"start", "begin"} /\ ~shutdown
            /\ IF ok THEN Return(w, "fetch") ELSE CancelJob(w)
            /\ KeepLeases
            /\ UNCHANGED round
         \/ /\ task[w] = "more" /\ ok
            /\ Return(w, "continue")
            /\ round' = [round EXCEPT ![w] = @ + 1]
            /\ KeepLeases
         \/ /\ task[w] = "report" /\ ok
            /\ CommitPrepared(w)
            /\ UNCHANGED round
         \/ /\ task[w] \in {"more", "report", "commit"} /\ ~ok
            /\ Ask(w, "fail")
            /\ KeepLeases
            /\ UNCHANGED round
         \/ /\ task[w] \in {"fail", "cancel"} \/ (task[w] = "commit" /\ ok)
            /\ Return(w, "finished")
            /\ KeepLeases
            /\ UNCHANGED round
  /\ answer' = [answer EXCEPT ![w] = "none"]
  /\ UNCHANGED child_frame

(* An aborted child ends where it waits.                                   *)
Killed(w) ==
  /\ w \in externally_cancelled /\ task[w] \notin Returned
  /\ Return(w, "killed")
  /\ answer' = [answer EXCEPT ![w] = "none"]
  /\ KeepLeases
  /\ UNCHANGED <<round, child_frame>>

-----------------------------------------------------------------------------
(* The worker loop of spawn_cold_start_worker.                             *)

loop_frame == <<shutdown, round, actor_vars>>

(* The jobs of a command are pushed one by one, each to its own class.     *)
PushAll(batch) ==
  LET pushed[n \in 0 .. Len(batch)] ==
        IF n = 0 THEN queued ELSE push(pushed[n - 1], ClassOf[batch[n]], batch[n])
  IN  pushed[Len(batch)]

enqueue_command(batch) ==
  /\ queued' = PushAll(batch)
  /\ held' = held \cup ToSet(batch)
  /\ UNCHANGED <<accepted_jobs, externally_cancelled>>

(* A queued job is taken out, a running one aborted; both free their slot. *)
CancelQueuedOrRunning(w) ==
  \/ /\ w \in QueuedJobs(queued)
     /\ queued' = remove_where(queued, w)
     /\ Release({w})
     /\ UNCHANGED externally_cancelled
  \/ /\ w \in Children \ externally_cancelled
     /\ externally_cancelled' = externally_cancelled \cup {w}
     /\ Release({w})
     /\ UNCHANGED queued
  \/ /\ w \notin QueuedJobs(queued) \cup (Children \ externally_cancelled)
     /\ KeepLeases
     /\ UNCHANGED <<queued, externally_cancelled>>

handle_worker_command ==
  /\ LET command == Head(commands)
     IN  \/ command.op = "jobs" /\ enqueue_command(command.works)
         \/ command.op = "cancel" /\ CancelQueuedOrRunning(Head(command.works))
  /\ commands' = Tail(commands)

LoopTop ==
  /\ pc = "top"
  /\ pc' = IF shutdown THEN "flush" ELSE "drain"
  /\ UNCHANGED <<commands, flushing, queued, held, accepted_jobs, externally_cancelled, task, mail_vars, loop_frame>>

(* Every buffered command is folded in before the next quantum is chosen.  *)
DrainCommands ==
  /\ pc = "drain"
  /\ \/ /\ commands # <<>>
        /\ handle_worker_command
        /\ UNCHANGED pc
     \/ /\ commands = <<>>
        /\ pc' = "dispatch"
        /\ KeepLeases
        /\ UNCHANGED <<commands, queued, externally_cancelled>>
  /\ UNCHANGED <<flushing, task, mail_vars, loop_frame>>

SpawnQuantum ==
  /\ pc = "dispatch"
  /\ \/ /\ Cardinality(Children) < max_concurrency /\ WaitingClasses(queued) # {}
        /\ LET next == pop(queued)
           IN  /\ queued' = next.queue
               /\ task' = [task EXCEPT ![next.job] = "spawned"]
        /\ UNCHANGED pc
     \/ /\ Cardinality(Children) >= max_concurrency \/ WaitingClasses(queued) = {}
        /\ pc' = "select"
        /\ UNCHANGED <<queued, task>>
  /\ KeepLeases
  /\ UNCHANGED <<commands, flushing, externally_cancelled, mail_vars, loop_frame>>

(* Mutant: an idle loop does not watch the flag.                           *)
SelectShutdownWithChildren ==
  /\ pc = "select" /\ shutdown /\ Children # {}
  /\ pc' = "flush"
  /\ UNCHANGED <<commands, flushing, queued, held, accepted_jobs, externally_cancelled, task, mail_vars, loop_frame>>

(* select!, in its order: shutdown, a child to join, a command.            *)
SelectShutdown ==
  /\ pc = "select" /\ shutdown
  /\ pc' = "flush"
  /\ UNCHANGED <<commands, flushing, queued, held, accepted_jobs, externally_cancelled, task, mail_vars, loop_frame>>

SelectCommand ==
  /\ pc = "select" /\ ~shutdown
  /\ \A w \in Work : task[w] \notin Returned
  /\ commands # <<>>
  /\ handle_worker_command
  /\ pc' = "top"
  /\ UNCHANGED <<flushing, task, mail_vars, loop_frame>>

(* Mutant: a continuation is pushed back although it was cancelled.        *)
RequeueAlways(w) == queued' = push(queued, ClassOf[w], w)

(* A continuation goes back to its class unless it was cancelled meanwhile *)
Requeue(w) ==
  queued' = IF w \in externally_cancelled THEN queued ELSE push(queued, ClassOf[w], w)

Joined(w) ==
  /\ task' = [task EXCEPT ![w] = "none"]
  /\ externally_cancelled' = externally_cancelled \ {w}

(* Mutant: a panic frees the slot and tells nobody.                        *)
NobodyPanicked(w) == FALSE

(* A child that failed by itself still has an attempt to end.              *)
Panicked(w) == task[w] \in {"panicked", "killed"} /\ w \notin externally_cancelled

JoinChild(w) ==
  /\ pc = "select" /\ ~shutdown /\ task[w] \in Returned
  /\ Joined(w)
  /\ \/ /\ task[w] = "continue"
        /\ Requeue(w)
        /\ KeepLeases
        /\ pc' = "top"
        /\ UNCHANGED flushing
     \/ /\ task[w] # "continue" /\ ~Panicked(w)
        /\ Release({w})
        /\ pc' = "top"
        /\ UNCHANGED <<queued, flushing>>
     \/ /\ Panicked(w)
        /\ pc' = "select_cancel"
        /\ flushing' = <<w>>
        /\ KeepLeases
        /\ UNCHANGED queued
  /\ UNCHANGED <<commands, mail_vars, loop_frame>>

-----------------------------------------------------------------------------
(* The worker loop: closing.                                               *)

(* The receiver is closed; what it still holds is cancelled.               *)
FlushCommands ==
  /\ pc = "flush"
  /\ \/ /\ commands = <<>>
        /\ pc' = "drop"
        /\ UNCHANGED <<commands, flushing>>
     \/ /\ commands # <<>> /\ Head(commands).op = "cancel"
        /\ commands' = Tail(commands)
        /\ UNCHANGED <<pc, flushing>>
     \/ /\ commands # <<>> /\ Head(commands).op = "jobs"
        /\ pc' = "flush_cancel"
        /\ flushing' = Head(commands).works
        /\ UNCHANGED commands
  /\ KeepLeases
  /\ UNCHANGED <<queued, externally_cancelled, task, mail_vars, loop_frame>>

DropQueued ==
  /\ pc = "drop"
  /\ \/ /\ WaitingClasses(queued) = {}
        /\ pc' = "join"
        /\ UNCHANGED <<flushing, queued>>
     \/ /\ WaitingClasses(queued) # {}
        /\ LET w == Head(queued.by_class[Min(WaitingClasses(queued))])
           IN  /\ flushing' = <<w>>
               /\ queued' = remove_where(queued, w)
        /\ pc' = "drop_cancel"
  /\ KeepLeases
  /\ UNCHANGED <<commands, externally_cancelled, task, mail_vars, loop_frame>>

(* Mutant: a closing worker forgets the continuations it joins.            *)
OwedOnPanic(w) == Panicked(w)

(* A child that neither finished nor was cancelled is cancelled now.       *)
OwedCancellation(w) ==
  task[w] # "finished" /\ w \notin externally_cancelled

JoinClosing(w) ==
  /\ pc = "join" /\ task[w] \in Returned
  /\ Joined(w)
  /\ \/ /\ OwedCancellation(w)
        /\ pc' = "join_cancel"
        /\ flushing' = <<w>>
        /\ KeepLeases
     \/ /\ ~OwedCancellation(w)
        /\ Release({w})
        /\ UNCHANGED <<pc, flushing>>
  /\ UNCHANGED <<commands, queued, mail_vars, loop_frame>>

Stop ==
  /\ pc = "join" /\ Children = {}
  /\ pc' = "stopped"
  /\ UNCHANGED <<commands, flushing, queued, held, accepted_jobs, externally_cancelled, task, mail_vars, loop_frame>>

(* cancel_job from the loop: ask, unless the runtime shuts down, and wait. *)
LoopAsks ==
  /\ flushing # <<>> /\ runtime = "running"
  /\ LET w == Head(flushing)
     IN  /\ answer[w] = "none"
         /\ mail' = [mail EXCEPT ![w] = Append(@, [op |-> "cancel", round |-> round[w]])]
         /\ answer' = [answer EXCEPT ![w] = "asked"]
  /\ KeepLeases
  /\ UNCHANGED <<commands, pc, flushing, queued, externally_cancelled, task, loop_frame>>

(* The slots of a command are returned together, a lease by its release.   *)
LoopCancelled ==
  /\ flushing # <<>>
  /\ LET w == Head(flushing)
     IN  /\ answer[w] \in {"ok", "err"} \/ (answer[w] = "none" /\ runtime # "running")
         /\ answer' = [answer EXCEPT ![w] = "none"]
         /\ flushing' = Tail(flushing)
         /\ \/ /\ pc = "flush_cancel" /\ Len(flushing) > 1
               /\ KeepLeases
               /\ UNCHANGED <<pc, commands>>
            \/ /\ pc = "flush_cancel" /\ Len(flushing) = 1
               /\ pc' = "flush"
               /\ accepted_jobs' = accepted_jobs - Len(Head(commands).works)
               /\ commands' = Tail(commands)
               /\ UNCHANGED held
            \/ /\ pc # "flush_cancel"
               /\ pc' = CASE pc = "select_cancel" -> "top"
                          [] pc = "drop_cancel" -> "drop"
                          [] OTHER -> "join"
               /\ Release({w})
               /\ UNCHANGED commands
  /\ UNCHANGED <<queued, externally_cancelled, task, mail, loop_frame>>

-----------------------------------------------------------------------------
Actor ==
  \/ Reserve \/ CheckShutdown \/ Send \/ ActorStops
  \/ \E w \in Work : HandleControl(w) \/ ControlClosed(w)

Child(w) ==
  BeginQuantum(w) \/ ShutdownBeforeStart(w) \/ FetchRound(w) \/ Resume(w) \/ Killed(w)

Loop ==
  \/ LoopTop \/ DrainCommands \/ SpawnQuantum \/ SelectShutdown \/ SelectCommand
  \/ FlushCommands \/ DropQueued \/ Stop \/ LoopAsks \/ LoopCancelled
  \/ \E w \in Work : JoinChild(w) \/ JoinClosing(w)

Requests ==
  \/ WorkerShutdown \/ RuntimeShutdown
  \/ \E b \in Batches : Submit(b)
  \/ \E w \in Work : Detach(w) \/ CancelWork(w)

Next == Actor \/ Loop \/ Requests \/ \E w \in Work : Child(w)

Spec == Init /\ [][Next]_vars

(* The three kinds of task are scheduled by the executor and a provider    *)
(* round ends; nobody is obliged to submit, cancel or shut down.  The      *)
(* control queue is first-in first-out, so other requests do not keep the  *)
(* actor from a command for ever.                                          *)
FairSpec ==
  /\ Spec
  /\ WF_vars(Loop)
  /\ WF_vars(Reserve \/ CheckShutdown \/ Send \/ ActorStops)
  /\ \A w \in Work : WF_vars(Child(w)) /\ SF_vars(HandleControl(w) \/ ControlClosed(w))

-----------------------------------------------------------------------------
JobsIn(c) == {w \in Work : \E i \in DOMAIN c : c[i].op = "jobs" /\ w \in ToSet(c[i].works)}
InChannel == JobsIn(commands)
Reserved == IF submission.step \in {"check", "send"} THEN ToSet(submission.batch) ELSE {}

TypeOK ==
  /\ shutdown \in BOOLEAN /\ accepted_jobs \in Nat
  /\ \A i \in DOMAIN commands : commands[i].op \in {"jobs", "cancel"}
                              /\ commands[i].works \in Seq(Work)
  /\ flushing \in Seq(Work)
  /\ queued.by_class \in [Class -> Seq(Work)]
  /\ held \subseteq Work /\ externally_cancelled \subseteq Work
  /\ task \in [Work -> TaskState]
  /\ round \in [Work -> 0 .. MaxRound] /\ completed \in [Work -> 0 .. MaxRound + 1]
  /\ runtime \in {"running", "stopping", "stopped"}
  /\ attempt \in [Work -> {"unborn", "queued", "running", "closed"}]
  /\ answer \in [Work -> {"none", "asked", "ok", "err"}]

(* The admission counter is the number of jobs that are reserved, in the   *)
(* channel or under a lease, each once, and never exceeds the capacity:    *)
(* no cancellation, abort, join, handoff or closing frees a slot twice or  *)
(* keeps one for ever.                                                     *)
SlotsAccounted ==
  /\ accepted_jobs = Cardinality(InChannel \cup Reserved \cup held)
  /\ accepted_jobs <= queue_capacity

(* A result that is on its way to the actor no longer occupies a slot, so  *)
(* the work its commit submits is admitted by a worker of capacity one.    *)
HandoffFreesSlot ==
  \A w \in Work : \A i \in DOMAIN mail[w] : mail[w][i].op = "commit" => w \notin held

(* A worker that has stopped while the runtime lives leaves no attempt     *)
(* that nothing will ever finish, and no slot taken.                       *)
NothingLeftBehind ==
  pc = "stopped" /\ submission.step = "idle" =>
    /\ accepted_jobs = 0
    /\ runtime = "running" => \A w \in Work : ~Open(w)

(* A job whose attempt the actor withdrew through the worker is never      *)
(* queued again: cancelled while its round ends, it stays cancelled.       *)
CancelledStaysCancelled ==
  \A w \in Work : w \in QueuedJobs(queued) => w \in held

(* Every attempt ends: it is committed, failed, cancelled or superseded,   *)
(* or the runtime goes away.                                               *)
AttemptsEnd == \A w \in Work : Open(w) ~> (~Open(w) \/ runtime # "running")

(* A shutdown is carried out: the loop never waits for an actor or a child *)
(* that waits for it.                                                      *)
ShutdownCompletes == shutdown ~> pc = "stopped"
=============================================================================
