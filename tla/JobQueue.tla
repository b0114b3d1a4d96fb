------------------------------ MODULE JobQueue ------------------------------
(***************************************************************************)
(* darktable's job control (src/darktable/src/control/jobs.c): worker      *)
(* threads that take jobs from five queues, reserved workers with one slot *)
(* each, the callers that add jobs, and the kicker that wakes the workers. *)
(* Every chat request of the agent is a job of the USER_BG queue           *)
(* (common/agent_client.c), every redraw of the edited image a job of a    *)
(* reserved worker (develop/develop.c).                                    *)
(*                                                                         *)
(* A job object is a member of Jobs; its memory is used again once it is   *)
(* disposed of, so callers may add jobs for ever.  What the callback of a  *)
(* job does is abstracted: it starts and, after any number of steps of the *)
(* others, returns.  A job that is executed by the thread that adds it     *)
(* (queue SYNCHRONOUS, or after dt_control_quit) touches no shared      *)
(* state and is left out.                                                  *)
(***************************************************************************)
EXTENDS Integers, Sequences, FiniteSets, Functions

CONSTANTS
  Jobs,           \* job objects
  Work,           \* Work[j]: what j does; two jobs are "equal" by it
  Cancellable,    \* jobs with a progress bar that has a cancel button
  Targets,        \* the possible assignments of the jobs to queues and slots
  Crew,           \* Crew[g]: the threads that are started in the case g
  Workers,        \* the worker threads, num_threads at most
  Reserved,       \* the DT_CTL_WORKER_RESERVED workers, one slot each
  Callers,        \* threads that add jobs
  NoJob,          \* the NULL pointer
  MaxJobs,        \* DT_CONTROL_MAX_JOBS
  FgPriority,     \* DT_CONTROL_FG_PRIORITY
  PriorityRange   \* the values of job->priority, an unsigned char: 256

UserFg == 0
SystemFg == 1
UserBg == 2
UserExport == 3
SystemBg == 4
Queues == 0 .. 4

Nowhere == -1     \* of a job that a Target does not use

Threads == Workers \cup Reserved

ASSUME JobsAssumption ==
  /\ NoJob \notin Jobs
  /\ DOMAIN Work = Jobs
  /\ Cancellable \subseteq Jobs
  /\ IsFiniteSet(Jobs) /\ IsFiniteSet(Callers)
  /\ Workers \cap Reserved = {}
  /\ Reserved \cap (Queues \cup {Nowhere}) = {}
  /\ Targets \subseteq [Jobs -> Queues \cup Reserved \cup {Nowhere}]
  /\ DOMAIN Crew = Targets
  /\ \A g \in Targets : Crew[g] \subseteq Workers \cup Reserved
  /\ MaxJobs \in Nat \ {0}
  /\ PriorityRange \in Nat \ {0}
  /\ FgPriority \in 0 .. PriorityRange - 1

VARIABLES
  target,           \* where each job goes, chosen once
  running,          \* control->running
  queues,           \* control->queues
  pending,          \* control->pending_jobs
  exportScheduled,  \* control->export_scheduled
  scheduled,        \* control->job, one entry per worker
  slot,             \* control->job_res (new_res is set when it is not NoJob)
  jstate,           \* job->state, "none" when the object does not exist
  priority,         \* job->priority
  progress,         \* jobs whose progress bar exists
  own,              \* the local variable job of each thread
  pc,               \* where each thread is in its loop
  kicker,           \* "asleep", "awake" (at its loop condition) or "ended"
  call,             \* what each caller still has to do
  cancelled,        \* history: live jobs that dt_control_job_cancel was called on
  missed            \* history: threads between their look and their wait at the
                    \* latest broadcast after the quit

vars == <<target, running, queues, pending, exportScheduled, scheduled, slot,
          jstate, priority, progress, own, pc, kicker, call, cancelled, missed>>

queueVars == <<queues, pending, exportScheduled, scheduled>>
jobVars == <<jstate, priority, progress, cancelled>>
threadVars == <<own, pc>>
kickVars == <<kicker, missed>>

\* dt_control_running
Running == running = "RUNNING"

JobState ==
  {"none", "QUEUED", "RUNNING", "FINISHED", "CANCELLED"}

ToDo == [do : {"nothing", "discard", "notify", "dispose"},
         victim : Jobs \cup {NoJob}]

Ready == [do |-> "nothing", victim |-> NoJob]

(***************************************************************************)
(* TypeOK gives the range of every variable.                               *)
(***************************************************************************)
TypeOK ==
  /\ target \in Targets
  /\ running \in {"RUNNING", "CLEANUP", "DISABLED"}
  /\ queues \in [Queues -> Seq(Jobs)]
  /\ pending \in Int
  /\ exportScheduled \in BOOLEAN
  /\ scheduled \in [Workers -> Jobs \cup {NoJob}]
  /\ slot \in [Reserved -> Jobs \cup {NoJob}]
  /\ jstate \in [Jobs -> JobState]
  /\ priority \in [Jobs -> 0 .. PriorityRange - 1]
  /\ progress \subseteq Cancellable
  /\ own \in [Threads -> Jobs \cup {NoJob}]
  /\ pc \in [Threads -> {"loop", "idle", "waiting", "taken", "start",
                         "executing", "leave", "dispose", "ended"}]
  /\ kicker \in {"asleep", "awake", "ended"}
  /\ call \in [Callers -> ToDo]
  /\ cancelled \subseteq Jobs
  /\ missed \subseteq Threads

Init ==
  /\ target \in Targets
  /\ running = "RUNNING"
  /\ queues = [q \in Queues |-> <<>>]
  /\ pending = 0
  /\ exportScheduled = FALSE
  /\ scheduled = [w \in Workers |-> NoJob]
  /\ slot = [r \in Reserved |-> NoJob]
  /\ jstate = [j \in Jobs |-> "none"]
  /\ priority = [j \in Jobs |-> 0]
  /\ progress = {}
  /\ own = [t \in Threads |-> NoJob]
  /\ pc = [t \in Threads |-> IF t \in Crew[target] THEN "loop" ELSE "ended"]
  /\ kicker = "asleep"
  /\ call = [c \in Callers |-> Ready]
  /\ cancelled = {}
  /\ missed = {}

-----------------------------------------------------------------------------
(***************************************************************************)
(* Job objects.                                                            *)
(***************************************************************************)

\* _control_job_equal: the fields that are compared are those of Work and
\* the queue.
Equal(i, j) == Work[i] = Work[j] /\ target[i] = target[j]

\* Thumbnail jobs and redraws have no progress bar, others may have one
\* (dt_control_job_add_progress with cancellable TRUE).
HasButton(j) == j \in Cancellable /\ target[j] \in Queues \ {SystemFg}

\* dt_control_job_dispose of the jobs D: the object is gone, with its
\* progress bar.
Dispose(D) ==
  /\ jstate' = [j \in Jobs |-> IF j \in D THEN "none" ELSE jstate[j]]
  /\ priority' = [j \in Jobs |-> IF j \in D THEN 0 ELSE priority[j]]
  /\ progress' = progress \ D
  /\ cancelled' = cancelled \ D

\* pthread_cond_broadcast: every thread that waits goes back to its loop.
Broadcast ==
  /\ pc' = [t \in Threads |-> IF pc[t] = "waiting" THEN "loop" ELSE pc[t]]
  /\ missed' = IF Running THEN {} ELSE {t \in Threads : pc[t] = "idle"}

-----------------------------------------------------------------------------
(***************************************************************************)
(* dt_control_add_job: one step under queue_mutex, then the broadcast,     *)
(* then the disposal of a job that another one stands for.                 *)
(***************************************************************************)

\* The job becomes visible: state QUEUED, its progress bar shown.  D are the
\* objects disposed of in the same critical section.
SetQueued(j, p, D) ==
  /\ jstate' = [i \in Jobs |-> IF i = j THEN "QUEUED"
                               ELSE IF i \in D THEN "none" ELSE jstate[i]]
  /\ priority' = [i \in Jobs |-> IF i = j THEN p
                                 ELSE IF i \in D THEN 0 ELSE priority[i]]
  /\ progress' = (progress \ D) \cup {i \in {j} : HasButton(i)}
  /\ cancelled' = cancelled \ D

Front(s) == SubSeq(s, 1, Len(s) - 1)

\* The job is put on top of the stack s; the oldest one goes when the stack
\* is longer than MaxJobs.
Capped(j, s) ==
  IF Len(s) < MaxJobs THEN <<j>> \o s ELSE <<j>> \o Front(s)

\* Mutant: the job that is pushed out is not disposed of.
PushedOutLeaked(s) == {}
PushedOut(s) == IF Len(s) < MaxJobs THEN {} ELSE {s[Len(s)]}

\* Mutant: the jobs that workers have are not compared.
ScheduledCopiesIgnored(j) == {}
ScheduledCopies(j) ==
  {w \in Workers : scheduled[w] # NoJob /\ Equal(j, scheduled[w])}

QueuedCopies(j) ==
  {i \in 1 .. Len(queues[target[j]]) : Equal(j, queues[target[j]][i])}

CanAdd(c, j) ==
  /\ call[c] = Ready
  /\ jstate[j] = "none"
  /\ \A d \in Callers : call[d].victim # j

\* A SYSTEM_FG job that a worker already has: it was counted, it is
\* discarded after the mutex is released.
AddScheduled(c, j) ==
  /\ Running /\ CanAdd(c, j)
  /\ target[j] = SystemFg
  /\ ScheduledCopies(j) # {}
  /\ pending' = pending + 1
  /\ call' = [call EXCEPT ![c] = [do |-> "discard", victim |-> j]]
  /\ UNCHANGED <<target, running, queues, exportScheduled, scheduled, slot,
                 jobVars, threadVars, kickVars>>

\* A SYSTEM_FG job that is in the queue: the old object goes to the top, the
\* new one is disposed of later.  The old one's state is set to QUEUED again.
AddQueuedAgain(c, j) ==
  /\ Running /\ CanAdd(c, j)
  /\ target[j] = SystemFg
  /\ ScheduledCopies(j) = {}
  /\ \E i \in QueuedCopies(j) :
       LET s == queues[SystemFg]
           rest == SubSeq(s, 1, i - 1) \o SubSeq(s, i + 1, Len(s))
       IN /\ \A k \in QueuedCopies(j) : i <= k
          /\ queues' = [queues EXCEPT ![SystemFg] = <<s[i]>> \o rest]
          /\ jstate' = [jstate EXCEPT ![s[i]] = "QUEUED"]
          /\ call' = [call EXCEPT ![c] = [do |-> "notify", victim |-> j]]
  /\ UNCHANGED <<target, running, pending, exportScheduled, scheduled, slot,
                 priority, progress, cancelled, threadVars, kickVars>>

\* A new SYSTEM_FG job: a stack of at most MaxJobs jobs.
AddOnTop(c, j) ==
  /\ Running /\ CanAdd(c, j)
  /\ target[j] = SystemFg
  /\ ScheduledCopies(j) = {}
  /\ QueuedCopies(j) = {}
  /\ LET s == queues[SystemFg]
     IN /\ queues' = [queues EXCEPT ![SystemFg] = Capped(j, s)]
        /\ SetQueued(j, FgPriority, PushedOut(s))
        /\ pending' = pending + 1 - Cardinality(PushedOut(s))
  /\ call' = [call EXCEPT ![c] = [do |-> "notify", victim |-> NoJob]]
  /\ UNCHANGED <<target, running, exportScheduled, scheduled, slot,
                 threadVars, kickVars>>

\* The other queues are FIFOs.
AddLast(c, j) ==
  /\ Running /\ CanAdd(c, j)
  /\ target[j] \in Queues \ {SystemFg}
  /\ queues' = [queues EXCEPT ![target[j]] = Append(@, j)]
  /\ SetQueued(j, IF target[j] = UserFg THEN FgPriority ELSE 0, {})
  /\ pending' = pending + 1
  /\ call' = [call EXCEPT ![c] = [do |-> "notify", victim |-> NoJob]]
  /\ UNCHANGED <<target, running, exportScheduled, scheduled, slot,
                 threadVars, kickVars>>

\* dt_control_add_job_res: the job that waits in the slot is discarded; nobody
\* asks whether the control is running.
AddReserved(c, j) ==
  /\ CanAdd(c, j)
  /\ target[j] \in Reserved
  /\ slot' = [slot EXCEPT ![target[j]] = j]
  /\ SetQueued(j, 0, {slot[target[j]]} \ {NoJob})
  /\ call' = [call EXCEPT ![c] = [do |-> "notify", victim |-> NoJob]]
  /\ UNCHANGED <<target, running, queueVars, threadVars, kickVars>>

Notify(c) ==
  /\ call[c].do = "notify"
  /\ Broadcast
  /\ call' = [call EXCEPT ![c] =
                IF @.victim = NoJob THEN Ready ELSE [@ EXCEPT !.do = "dispose"]]
  /\ UNCHANGED <<target, running, queueVars, slot, jobVars, own, kicker>>

\* Mutant: an early discard is not counted back.
DisposeUncounted(c) ==
  /\ call[c].do \in {"discard", "dispose"}
  /\ call' = [call EXCEPT ![c] = Ready]
  /\ UNCHANGED <<target, running, queueVars, slot, jobVars, threadVars, kickVars>>

\* The object of a copy is disposed of; an early discard is counted back.
DisposeCopy(c) ==
  /\ call[c].do \in {"discard", "dispose"}
  /\ pending' = IF call[c].do = "discard" THEN pending - 1 ELSE pending
  /\ call' = [call EXCEPT ![c] = Ready]
  /\ UNCHANGED <<target, running, queues, exportScheduled, scheduled, slot,
                 jobVars, threadVars, kickVars>>

\* dt_control_job_cancel, from the cancel button of the progress bar:
\* whatever the state is, it is CANCELLED.  The progress bar goes with it
\* unless the job is running.
Cancel(j) ==
  /\ j \in progress
  /\ jstate' = [jstate EXCEPT ![j] = "CANCELLED"]
  /\ progress' = IF jstate[j] = "RUNNING" THEN progress ELSE progress \ {j}
  /\ cancelled' = cancelled \cup {j}
  /\ UNCHANGED <<target, running, queueVars, slot, priority, threadVars,
                 kickVars, call>>

-----------------------------------------------------------------------------
(***************************************************************************)
(* The workers.                                                            *)
(***************************************************************************)

\* The queues whose head may be scheduled: an export waits for the export
\* that a worker has.
Open(q) ==
  /\ queues[q] # <<>>
  /\ ~(exportScheduled /\ q = UserExport)

HeadPriority(q) == priority[Head(queues[q])]

\* The head with the highest priority, in the first queue that has one.
Wins(q) ==
  /\ Open(q)
  /\ \A p \in Queues : Open(p) =>
       \/ HeadPriority(p) < HeadPriority(q)
       \/ HeadPriority(p) = HeadPriority(q) /\ q <= p

\* The jobs that were passed over when queue q was served.
PassedOver(q) == {Head(queues[p]) : p \in {p \in Queues \ {q} : queues[p] # <<>>}}

\* Mutant: the loop over the queues ends at the one that was served.
AgedBefore(q) ==
  [j \in Jobs |-> IF j \in PassedOver(q) /\ target[j] < q
                  THEN (priority[j] + 1) % PriorityRange ELSE priority[j]]

\* Mutant: the counter does not fit its type.
AgedWide(q) ==
  [j \in Jobs |-> priority[j] + (IF j \in PassedOver(q) THEN 1 ELSE 0)]

\* They grow by one, the export that had to wait included, as an unsigned
\* char does.
Aged(q) ==
  [j \in Jobs |-> IF j \in PassedOver(q) THEN (priority[j] + 1) % PriorityRange
                  ELSE priority[j]]

\* _control_schedule_job finds a job.
Schedule(w) ==
  /\ pc[w] = "loop"
  /\ Running
  /\ \E q \in Queues :
       /\ Wins(q)
       /\ queues' = [queues EXCEPT ![q] = Tail(@)]
       /\ exportScheduled' = (exportScheduled \/ q = UserExport)
       /\ scheduled' = [scheduled EXCEPT ![w] = Head(queues[q])]
       /\ own' = [own EXCEPT ![w] = Head(queues[q])]
       /\ priority' = Aged(q)
  /\ pc' = [pc EXCEPT ![w] = "taken"]
  /\ UNCHANGED <<target, running, pending, slot, jstate, progress, kickVars,
                 call, cancelled>>

\* _control_run_job_res takes the job of its slot.
TakeSlot(r) ==
  /\ pc[r] = "loop"
  /\ Running
  /\ slot[r] # NoJob
  /\ own' = [own EXCEPT ![r] = slot[r]]
  /\ slot' = [slot EXCEPT ![r] = NoJob]
  /\ pc' = [pc EXCEPT ![r] = "taken"]
  /\ UNCHANGED <<target, running, queueVars, jobVars, kickVars, call>>

\* There is no job for the thread; it has not begun to wait yet.
FindNothing(t) ==
  /\ pc[t] = "loop"
  /\ Running
  /\ IF t \in Reserved THEN slot[t] = NoJob ELSE \A q \in Queues : ~Open(q)
  /\ pc' = [pc EXCEPT ![t] = "idle"]
  /\ UNCHANGED <<target, running, queueVars, slot, jobVars, own, kickVars, call>>

\* dt_pthread_cond_wait.
Wait(t) ==
  /\ pc[t] = "idle"
  /\ pc' = [pc EXCEPT ![t] = "waiting"]
  /\ UNCHANGED <<target, running, queueVars, slot, jobVars, own, kickVars, call>>

\* The thread reads the job's state ...
CheckState(t) ==
  /\ pc[t] = "taken"
  /\ pc' = [pc EXCEPT ![t] =
              IF jstate[own[t]] = "QUEUED" THEN "start"
              ELSE IF t \in Reserved THEN "dispose" ELSE "leave"]
  /\ UNCHANGED <<target, running, queueVars, slot, jobVars, own, kickVars, call>>

\* ... and, after the state's mutex was released, sets it.
Start(t) ==
  /\ pc[t] = "start"
  /\ jstate' = [jstate EXCEPT ![own[t]] = "RUNNING"]
  /\ pc' = [pc EXCEPT ![t] = "executing"]
  /\ UNCHANGED <<target, running, queueVars, slot, priority, progress,
                 cancelled, own, kickVars, call>>

\* The callback returns.  The progress bar of a job that was cancelled goes
\* here; that of the others goes when they are disposed of.
Finish(t) ==
  /\ pc[t] = "executing"
  /\ jstate' = [jstate EXCEPT ![own[t]] = "FINISHED"]
  /\ progress' = IF jstate[own[t]] = "RUNNING" THEN progress
                 ELSE progress \ {own[t]}
  /\ pc' = [pc EXCEPT ![t] = IF t \in Reserved THEN "dispose" ELSE "leave"]
  /\ UNCHANGED <<target, running, queueVars, slot, priority, cancelled, own,
                 kickVars, call>>

\* The worker takes its job out of control->job.
Leave(w) ==
  /\ pc[w] = "leave"
  /\ scheduled' = [scheduled EXCEPT ![w] = NoJob]
  /\ exportScheduled' = (exportScheduled /\ target[own[w]] # UserExport)
  /\ pc' = [pc EXCEPT ![w] = "dispose"]
  /\ UNCHANGED <<target, running, queues, pending, slot, jobVars, own,
                 kickVars, call>>

\* The thread frees the job; a worker also counts it off.
Free(t) ==
  /\ pc[t] = "dispose"
  /\ Dispose({own[t]})
  /\ pending' = IF t \in Workers THEN pending - 1 ELSE pending
  /\ own' = [own EXCEPT ![t] = NoJob]
  /\ pc' = [pc EXCEPT ![t] = "loop"]
  /\ UNCHANGED <<target, running, queues, exportScheduled, scheduled, slot,
                 kickVars, call>>

End(t) ==
  /\ pc[t] = "loop"
  /\ ~Running
  /\ pc' = [pc EXCEPT ![t] = "ended"]
  /\ UNCHANGED <<target, running, queueVars, slot, jobVars, own, kickVars, call>>

-----------------------------------------------------------------------------
(***************************************************************************)
(* The kicker and the shutdown.                                            *)
(***************************************************************************)

\* _control_worker_kicker: two seconds of sleep and a broadcast, whatever the
\* threads do; then the loop condition.
Kick ==
  /\ kicker = "asleep"
  /\ Broadcast
  /\ kicker' = "awake"
  /\ UNCHANGED <<target, running, queueVars, slot, jobVars, own, call>>

KickerLoops ==
  /\ kicker = "awake"
  /\ kicker' = IF Running THEN "asleep" ELSE "ended"
  /\ UNCHANGED <<target, running, queueVars, slot, jobVars, threadVars, call, missed>>

\* dt_control_quit: from here on nothing is running, and nobody is told.
Quit ==
  /\ Running
  /\ running' = "CLEANUP"
  /\ UNCHANGED <<target, queueVars, slot, jobVars, threadVars, kickVars, call>>

\* Mutant: nobody is woken.
ShutdownSilent ==
  /\ running = "CLEANUP"
  /\ running' = "DISABLED"
  /\ UNCHANGED <<target, queueVars, slot, jobVars, threadVars, kickVars, call>>

\* dt_control_shutdown, up to the joins.
Shutdown ==
  /\ running = "CLEANUP"
  /\ running' = "DISABLED"
  /\ Broadcast
  /\ UNCHANGED <<target, queueVars, slot, jobVars, own, kicker, call>>

ThreadStep(t) ==
  \/ FindNothing(t)
  \/ Wait(t)
  \/ CheckState(t)
  \/ Start(t)
  \/ Finish(t)
  \/ Free(t)
  \/ End(t)
  \/ t \in Workers /\ (Schedule(t) \/ Leave(t))
  \/ t \in Reserved /\ TakeSlot(t)

Add(c, j) ==
  \/ AddScheduled(c, j)
  \/ AddQueuedAgain(c, j)
  \/ AddOnTop(c, j)
  \/ AddLast(c, j)
  \/ AddReserved(c, j)

Next ==
  \/ \E t \in Threads : ThreadStep(t)
  \/ \E c \in Callers : (\E j \in Jobs : Add(c, j)) \/ Notify(c) \/ DisposeCopy(c)
  \/ \E j \in Jobs : Cancel(j)
  \/ Kick
  \/ KickerLoops
  \/ Quit
  \/ Shutdown

Spec == Init /\ [][Next]_vars

(***************************************************************************)
(* Threads are scheduled and the callbacks of jobs return; the kicker does *)
(* not stop before the end; the main thread that was told to quit shuts     *)
(* down.  Nobody has to add, cancel or quit.                               *)
(***************************************************************************)
FairSpec ==
  /\ Spec
  /\ \A t \in Threads : WF_vars(ThreadStep(t))
  /\ WF_vars(Kick)
  /\ WF_vars(KickerLoops)
  /\ WF_vars(Shutdown)

-----------------------------------------------------------------------------
(***************************************************************************)
(* Safety.                                                                 *)
(***************************************************************************)

\* The links of the queues that point to job j.
Places(j) ==
  UNION {{q} \X {i \in DOMAIN queues[q] : queues[q][i] = j} : q \in Queues}

\* The jobs that dt_control_jobs_pending should count.
Counted ==
  {j \in Jobs : Places(j) # {}}
    \cup {own[w] : w \in {w \in Workers : own[w] # NoJob}}

\* Every job object that exists has exactly one owner, which will dispose of
\* it: one link of one queue, the slot of one reserved worker or the thread
\* that took it.  Nothing owns an object that was freed: neither the discard
\* of a job that is pushed out nor the bubbling up of a copy leaves a second
\* pointer behind.
OneOwner ==
  \A j \in Jobs :
    LET slots == {r \in Reserved : slot[r] = j}
        threads == {t \in Threads : own[t] = j}
    IN Cardinality(Places(j)) + Cardinality(slots) + Cardinality(threads)
         = IF jstate[j] = "none" THEN 0 ELSE 1

\* control->pending_jobs, which the quit dialog asks before it lets darktable
\* end, is the number of jobs that are queued or with a worker, plus those a
\* caller is about to discard.
PendingIsExact ==
  pending = Cardinality(Counted)
            + Cardinality({c \in Callers : call[c].do = "discard"})

\* A thumbnail job is never queued twice, nor queued or run while a worker
\* has an equal one ("there can't be any further copy"), and one export at a
\* time is with a worker (jobs.h: "only one of these jobs will ever be
\* scheduled at a time").
NoSecondCopy ==
  /\ \A i, j \in Jobs :
       (/\ i # j /\ Equal(i, j) /\ target[i] = SystemFg
        /\ jstate[i] # "none" /\ jstate[j] # "none")
       => \E w \in Workers : own[w] \in {i, j} /\ scheduled[w] = NoJob
  /\ Cardinality({w \in Workers : /\ scheduled[w] # NoJob
                                  /\ target[scheduled[w]] = UserExport})
       = IF exportScheduled THEN 1 ELSE 0

(***************************************************************************)
(* The inductive invariant of the proofs.                                  *)
(***************************************************************************)

\* The job objects that were added and not disposed of.
Live == {j \in Jobs : jstate[j] # "none"}

Links(q) == Range(queues[q])

Taking == {"taken", "start", "executing", "leave"}

\* A thread has a job from the moment it takes it until it frees it, and a
\* worker's entry in control->job stands for it until the worker leaves it.
ThreadsHoldJobs ==
  /\ \A t \in Threads : own[t] # NoJob <=> pc[t] \in Taking \cup {"dispose"}
  /\ \A w \in Workers :
       scheduled[w] = IF pc[w] \in Taking THEN own[w] ELSE NoJob

\* Pointers lead to jobs of the place where they are, and no two of them lead
\* to the same job.
OwnersDiffer ==
  /\ \A q \in Queues : IsInjective(queues[q]) /\ \A j \in Links(q) : target[j] = q
  /\ \A r \in Reserved : slot[r] # NoJob => target[slot[r]] = r
  /\ \A w \in Workers : own[w] # NoJob => /\ target[own[w]] \in Queues
                                          /\ own[w] \notin Links(target[own[w]])
  /\ \A r \in Reserved : own[r] # NoJob => target[own[r]] = r /\ slot[r] # own[r]
  /\ \A t, u \in Threads : own[t] = own[u] /\ own[t] # NoJob => t = u

\* What exists has an owner, and what has an owner exists.
LiveIsOwned ==
  \A j \in Jobs : j \in Live <=> \/ \E q \in Queues : j \in Links(q)
                                 \/ \E r \in Reserved : slot[r] = j
                                 \/ \E t \in Threads : own[t] = j

ProgressIsLive == progress \subseteq Live

\* PendingIsExact, by the jobs that exist.
PendingIsLive ==
  pending = Cardinality({j \in Live : target[j] \in Queues})
            + Cardinality({c \in Callers : call[c].do = "discard"})

\* The first part of NoSecondCopy, and the second one by the workers.
CopiesLeave ==
  \A i, j \in Live : i # j /\ Equal(i, j) /\ target[i] = SystemFg =>
    \E w \in Workers : own[w] \in {i, j} /\ scheduled[w] = NoJob

HasExport(w) == scheduled[w] # NoJob /\ target[scheduled[w]] = UserExport

OneExport ==
  /\ exportScheduled <=> \E w \in Workers : HasExport(w)
  /\ \A v, w \in Workers : HasExport(v) /\ HasExport(w) => v = w

IInv ==
  /\ TypeOK /\ ThreadsHoldJobs /\ OwnersDiffer /\ LiveIsOwned /\ ProgressIsLive
  /\ PendingIsLive /\ CopiesLeave /\ OneExport

-----------------------------------------------------------------------------
(***************************************************************************)
(* Liveness.                                                               *)
(***************************************************************************)

\* No job starves: one that was added to a FIFO queue, or is in the slot of
\* a reserved worker, leaves it, although jobs of higher priority may arrive
\* for ever and although the broadcast that announces it may come between a
\* worker's look at the queues and its wait.
Waits(j) ==
  \/ Places(j) # {} /\ target[j] # SystemFg
  \/ \E r \in Reserved : slot[r] = j

JobsAreServed == \A j \in Jobs : Waits(j) ~> (~Waits(j) \/ ~Running)

\* After the user quits the kicker ends, and so does every thread, whatever it
\* does and whatever is added meanwhile, unless it was between its look for a
\* job and its wait when the last broadcast came (jobs.c:571-575): of those
\* nothing is promised.
ThreadsEnd ==
  ~Running ~> /\ kicker = "ended"
              /\ \A t \in Threads : pc[t] = "ended" \/ t \in missed

\* The joins of dt_control_shutdown return.
JoinsReturn ==
  ~Running ~> (kicker = "ended" /\ \A t \in Threads : pc[t] = "ended")

-----------------------------------------------------------------------------
(***************************************************************************)
(* What jobs.h says of dt_control_job_cancel: "cancel a job, running or in *)
(* queue".  A cancelled job is not started, and one that is running finds  *)
(* the state CANCELLED whenever it looks.                                  *)
(***************************************************************************)
CancelIsNotLost == \A j \in cancelled : jstate[j] # "RUNNING"
=============================================================================
