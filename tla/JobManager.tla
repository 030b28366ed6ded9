------------------------------ MODULE JobManager ------------------------------
(***************************************************************************)
(* bot/jobs.py: the in-memory life of Telegram verification jobs.          *)
(*                                                                         *)
(* One asyncio event loop runs a task per job (_run), the callers of       *)
(* cancel_chat_jobs and shutdown().  A coroutine keeps the loop from one   *)
(* await to the next, so an action below is the whole stretch of code      *)
(* between two awaits.  service.verify() runs in a worker thread that      *)
(* cannot be killed: thread[j] outlives the task that started it.          *)
(*                                                                         *)
(* asyncio itself (task cancellation, the semaphore of CPython 3.13) is    *)
(* modelled from how _run, cancel_chat_jobs and shutdown use it.           *)
(***************************************************************************)
EXTENDS Naturals, Sequences, FiniteSets

CONSTANTS
  Jobs,               \* every job id that may be allocated (bounds the model)
  Chats, Products,    \* chats, and normalised request identities within one
  ChatOf, ProductOf,  \* the chat and the request of each job id
  Callers,            \* coroutines that may be inside cancel_chat_jobs
  MaxConcurrentJobs,  \* the semaphore's initial value
  HistoryLimit,       \* finished jobs kept per chat
  NoJob               \* absence of a job

ASSUME JobAssumption ==
  /\ ChatOf \in [Jobs -> Chats]
  /\ ProductOf \in [Jobs -> Products]
  /\ IsFiniteSet(Jobs)
  /\ MaxConcurrentJobs \in Nat \ {0}
  /\ HistoryLimit \in Nat
  /\ NoJob \notin Jobs

VARIABLES
  accepting,          \* _accepting
  jobs,               \* keys of _jobs
  state,              \* Job.state ("none": the id is not allocated yet)
  cancelRequested,    \* Job.cancel_requested
  result,             \* Job.result: "none" or the success flag it carries
  chatActive,         \* _chat_active
  history,            \* _chat_terminal_history
  lastSuccess,        \* _chat_last_success (a reference to the Job object)
  activeByIdentity,   \* _active_by_identity
  tasks,              \* keys of _tasks
  callbacks,          \* keys of _callbacks
  outcomes,           \* terminal states _finalize counted and notified, per job
  joined,             \* jobs some submit() returned as a duplicate
  semValue,           \* free slots of _semaphore
  ahead,              \* who was queued on _semaphore before this job
  pc,                 \* where the job's task is suspended
  mustCancel,         \* a task.cancel() not yet delivered to the coroutine
  thread,             \* the worker thread running service.verify
  caller,             \* cancel_chat_jobs in progress, per caller
  shutdown            \* shutdown() in progress

registryVars == <<jobs, chatActive, history, activeByIdentity, tasks, callbacks>>
jobVars      == <<state, cancelRequested, result, lastSuccess, outcomes, joined>>
loopVars     == <<semValue, ahead, pc, mustCancel, thread>>
vars == <<accepting, registryVars, jobVars, loopVars, caller, shutdown>>

-----------------------------------------------------------------------------
ActiveStates   == {"queued", "running"}
TerminalStates == {"completed", "failed", "cancelled"}
JobStates      == ActiveStates \cup TerminalStates

Identity(j) == <<ChatOf[j], ProductOf[j]>>
Active(j)   == state[j] \in ActiveStates

(* Suspended inside `async with self._semaphore`, or handed a slot.        *)
Holding == {j \in Jobs : pc[j] \in {"granted", "starting", "verifying", "finalizing"}}

(* Waiters asyncio may still wake, and those that make acquire() queue up. *)
Eligible == {j \in Jobs : pc[j] = "waiting" /\ ~mustCancel[j]}
Waiters  == Eligible \cup {j \in Jobs : pc[j] = "granted"}

Idle == [cur |-> NoJob, rest |-> {}]

TypeOK ==
  /\ accepting \in BOOLEAN
  /\ jobs \subseteq Jobs
  /\ state \in [Jobs -> {"none"} \cup JobStates]
  /\ cancelRequested \in [Jobs -> BOOLEAN]
  /\ result \in [Jobs -> {"none", "success", "failure"}]
  /\ chatActive \in [Chats -> SUBSET Jobs]
  /\ history \in [Chats -> Seq(Jobs)]
  /\ lastSuccess \in [Chats -> Jobs \cup {NoJob}]
  /\ activeByIdentity \in [Chats \X Products -> Jobs \cup {NoJob}]
  /\ tasks \subseteq Jobs
  /\ callbacks \subseteq Jobs
  /\ outcomes \in [Jobs -> Seq(TerminalStates)]
  /\ joined \subseteq Jobs
  /\ semValue \in Nat
  /\ ahead \in [Jobs -> SUBSET Jobs]
  /\ pc \in [Jobs -> {"none", "created", "waiting", "granted", "starting",
                      "verifying", "finalizing", "done"}]
  /\ mustCancel \in [Jobs -> BOOLEAN]
  /\ thread \in [Jobs -> {"none", "running", "success", "failure", "raised"}]
  /\ caller \in [Callers -> [cur : Jobs \cup {NoJob}, rest : SUBSET Jobs]]
  /\ shutdown \in [phase : {"up", "waiting", "expired", "down"},
                   pending : SUBSET Jobs, queued : SUBSET Jobs]

Init ==
  /\ accepting = TRUE
  /\ jobs = {}
  /\ state = [j \in Jobs |-> "none"]
  /\ cancelRequested = [j \in Jobs |-> FALSE]
  /\ result = [j \in Jobs |-> "none"]
  /\ chatActive = [c \in Chats |-> {}]
  /\ history = [c \in Chats |-> <<>>]
  /\ lastSuccess = [c \in Chats |-> NoJob]
  /\ activeByIdentity = [i \in Chats \X Products |-> NoJob]
  /\ tasks = {}
  /\ callbacks = {}
  /\ outcomes = [j \in Jobs |-> <<>>]
  /\ joined = {}
  /\ semValue = MaxConcurrentJobs
  /\ ahead = [j \in Jobs |-> {}]
  /\ pc = [j \in Jobs |-> "none"]
  /\ mustCancel = [j \in Jobs |-> FALSE]
  /\ thread = [j \in Jobs |-> "none"]
  /\ caller = [c \in Callers |-> Idle]
  /\ shutdown = [phase |-> "up", pending |-> {}, queued |-> {}]

-----------------------------------------------------------------------------
(* asyncio.Semaphore.  `ahead` is the deque of waiters: a job is woken only *)
(* after every live waiter ahead of it.  n futures at most are resolved.    *)
Grants(n) ==
  {G \in SUBSET Eligible :
     /\ Cardinality(G) =
          IF n < Cardinality(Eligible) THEN n ELSE Cardinality(Eligible)
     /\ \A g \in G : ahead[g] \cap Eligible \subseteq G}

(* The task of j moves to p, frees `freed` slots (0 or 1) and wakes up to n.*)
Wake(j, p, freed, n) ==
  \E G \in Grants(n) :
    /\ pc' = [k \in Jobs |-> IF k \in G THEN "granted"
                             ELSE IF k = j THEN p ELSE pc[k]]
    /\ semValue' = (semValue + freed) - Cardinality(G)

MoveTo(j, p) == pc' = [pc EXCEPT ![j] = p] /\ UNCHANGED semValue

LeaveQueue(j) == ahead' = [k \in Jobs |-> IF k = j THEN {} ELSE ahead[k] \ {j}]

-----------------------------------------------------------------------------
(* _finalize up to its notification: one synchronous stretch.               *)
Unlisted(j) == [chatActive EXCEPT ![ChatOf[j]] = @ \ {j}]

(* Mutant: the finished job keeps its identity.                             *)
IdentityKept(j) == activeByIdentity

IdentityReleased(j) ==
  [activeByIdentity EXCEPT ![Identity(j)] = IF @ = j THEN NoJob ELSE @]

(* Mutant: any finished job becomes the one to export.                      *)
LatestAny(j, s) == [lastSuccess EXCEPT ![ChatOf[j]] = j]

LatestSuccess(j, s) ==
  IF s = "completed" THEN [lastSuccess EXCEPT ![ChatOf[j]] = j] ELSE lastSuccess

Finalize(j, s, r) ==
  /\ state' = [state EXCEPT ![j] = s]
  /\ result' = [result EXCEPT ![j] = r]
  /\ tasks' = tasks \ {j}
  /\ chatActive' = Unlisted(j)
  /\ activeByIdentity' = IdentityReleased(j)
  /\ lastSuccess' = LatestSuccess(j, s)
  /\ outcomes' = [outcomes EXCEPT ![j] = Append(@, s)]
  /\ UNCHANGED joined

(* Mutant: an evicted history entry leaves its job behind.                  *)
JobsKeptForever(j, h) == IF HistoryLimit = 0 THEN jobs \ {j} ELSE jobs

(* Mutant: the history is cut one entry too short.                          *)
JobsKeptEarly(j, h) ==
  IF HistoryLimit = 0 THEN jobs \ {j}
  ELSE IF Len(h) >= HistoryLimit THEN jobs \ {Head(h)} ELSE jobs

(* _record_terminal_history, after the callback is dropped.  The list never *)
(* exceeds its limit by more than one, so its while loop runs at most once. *)
JobsKept(j, h) ==
  IF HistoryLimit = 0 THEN jobs \ {j}
  ELSE IF Len(h) > HistoryLimit THEN jobs \ {Head(h)} ELSE jobs

RecordTerminalHistory(j) ==
  LET h == Append(history[ChatOf[j]], j)
  IN  /\ callbacks' = callbacks \ {j}
      /\ history' = IF HistoryLimit = 0 THEN history
                    ELSE [history EXCEPT ![ChatOf[j]] =
                            IF Len(h) > HistoryLimit THEN Tail(h) ELSE h]
      /\ jobs' = JobsKept(j, h)

(* A cancelled job's notification sends nothing (format_job_outcome), so    *)
(* _finalize("cancelled") runs to its end without suspending.               *)
FinalizeCancelled(j) ==
  /\ Finalize(j, "cancelled", "none")
  /\ RecordTerminalHistory(j)

(* A completed or failed job's notification awaits Telegram.                *)
FinalizeAndNotify(j, s, r) ==
  /\ Finalize(j, s, r)
  /\ UNCHANGED <<jobs, history, callbacks>>

-----------------------------------------------------------------------------
(* Mutant: only queued jobs are recognised as duplicates.                   *)
ExistingQueued(i) ==
  activeByIdentity[i] \in jobs /\ state[activeByIdentity[i]] = "queued"

(* submit() *)
Existing(i) == activeByIdentity[i] \in jobs /\ Active(activeByIdentity[i])

SubmitNew(j) ==
  /\ accepting
  /\ state[j] = "none"
  /\ ~Existing(Identity(j))
  /\ jobs' = jobs \cup {j}
  /\ state' = [state EXCEPT ![j] = "queued"]
  /\ chatActive' = [chatActive EXCEPT ![ChatOf[j]] = @ \cup {j}]
  /\ activeByIdentity' = [activeByIdentity EXCEPT ![Identity(j)] = j]
  /\ tasks' = tasks \cup {j}
  /\ callbacks' = callbacks \cup {j}
  /\ MoveTo(j, "created")
  /\ UNCHANGED <<accepting, history, cancelRequested, result, lastSuccess, outcomes,
                 joined, ahead, mustCancel, thread, caller, shutdown>>

SubmitDuplicate(i) ==
  /\ accepting
  /\ Existing(i)
  /\ joined' = joined \cup {activeByIdentity[i]}
  /\ UNCHANGED <<accepting, registryVars, state, cancelRequested, result, lastSuccess,
                 outcomes, loopVars, caller, shutdown>>

-----------------------------------------------------------------------------
(* _run(), from the task's first timeslice to its last.                     *)

(* Cancelled before its first timeslice: the coroutine body never runs.     *)
TaskNeverEntered(j) ==
  /\ pc[j] = "created" /\ mustCancel[j]
  /\ MoveTo(j, "done")
  /\ mustCancel' = [mustCancel EXCEPT ![j] = FALSE]
  /\ UNCHANGED <<accepting, registryVars, jobVars, ahead, thread, caller, shutdown>>

(* Semaphore.acquire: take a slot at once, or queue behind the waiters.     *)
SlotFree == semValue > 0 /\ Waiters = {}

TaskQueues(j) ==
  /\ pc[j] = "created" /\ ~mustCancel[j]
  /\ ~SlotFree
  /\ ahead' = [ahead EXCEPT ![j] = Waiters]
  /\ MoveTo(j, "waiting")
  /\ UNCHANGED <<accepting, registryVars, jobVars, mustCancel, thread, caller, shutdown>>

(* Inside the semaphore: state = "running", then `await self._notify(job)`. *)
BecomeRunning(j) ==
  /\ ~cancelRequested[j]
  /\ state' = [state EXCEPT ![j] = "running"]
  /\ UNCHANGED <<accepting, registryVars, cancelRequested, result, lastSuccess,
                 outcomes, joined, mustCancel, thread, caller, shutdown>>

TaskAcquires(j) ==
  /\ pc[j] = "created" /\ ~mustCancel[j]
  /\ SlotFree
  /\ pc' = [pc EXCEPT ![j] = "starting"]
  /\ semValue' = semValue - 1
  /\ BecomeRunning(j)
  /\ UNCHANGED ahead

TaskResumes(j) ==
  /\ pc[j] = "granted" /\ ~mustCancel[j]
  /\ Wake(j, "starting", 0, semValue)
  /\ LeaveQueue(j)
  /\ BecomeRunning(j)

(* The "started" notification is over: asyncio.to_thread(service.verify).   *)
TaskVerifies(j) ==
  /\ pc[j] = "starting" /\ ~mustCancel[j]
  /\ MoveTo(j, "verifying")
  /\ thread' = [thread EXCEPT ![j] = "running"]
  /\ UNCHANGED <<accepting, registryVars, jobVars, ahead, mustCancel, caller, shutdown>>

(* service.verify returns a result, or raises, in its worker thread.        *)
ThreadEnds(j) ==
  /\ thread[j] = "running"
  /\ \E o \in {"success", "failure", "raised"} : thread' = [thread EXCEPT ![j] = o]
  /\ UNCHANGED <<accepting, registryVars, jobVars, semValue, ahead, pc, mustCancel,
                 caller, shutdown>>

(* `except Exception`: no look at cancel_requested on this path.            *)
TaskFails(j) ==
  /\ pc[j] = "verifying" /\ ~mustCancel[j] /\ thread[j] = "raised"
  /\ FinalizeAndNotify(j, "failed", "none")
  /\ MoveTo(j, "finalizing")
  /\ UNCHANGED <<accepting, cancelRequested, ahead, mustCancel, thread, caller, shutdown>>

(* Mutant: cancel_requested is not looked at.                               *)
WantedAlways(j) == TRUE

(* `if job.cancel_requested`, after verify() returned.                      *)
Wanted(j) == ~cancelRequested[j]

(* cancel_requested seen after verify(): the slot is released while         *)
(* CancelledError leaves `async with`, then the job is finalized.           *)
TaskDiscards(j) ==
  /\ pc[j] = "verifying" /\ ~mustCancel[j]
  /\ thread[j] \in {"success", "failure"} /\ ~Wanted(j)
  /\ Wake(j, "done", 1, 1)
  /\ FinalizeCancelled(j)
  /\ UNCHANGED <<accepting, cancelRequested, ahead, mustCancel, thread, caller, shutdown>>

TaskReports(j) ==
  /\ pc[j] = "verifying" /\ ~mustCancel[j]
  /\ thread[j] \in {"success", "failure"} /\ Wanted(j)
  /\ FinalizeAndNotify(j, IF thread[j] = "success" THEN "completed" ELSE "failed", thread[j])
  /\ MoveTo(j, "finalizing")
  /\ UNCHANGED <<accepting, cancelRequested, ahead, mustCancel, thread, caller, shutdown>>

(* The outcome has been sent: _finalize ends, then the slot is released.    *)
TaskEnds(j) ==
  /\ pc[j] = "finalizing" /\ ~mustCancel[j]
  /\ RecordTerminalHistory(j)
  /\ Wake(j, "done", 1, 1)
  /\ UNCHANGED <<accepting, chatActive, activeByIdentity, tasks, jobVars, ahead,
                 mustCancel, thread, caller, shutdown>>

(* Mutants: a woken task that is cancelled wakes nobody in its place; one   *)
(* cancelled in the queue releases a slot it never had; one cancelled       *)
(* inside keeps its slot.                                                   *)
RelinquishSilently(j) ==
  \/ pc[j] = "waiting" /\ Wake(j, "done", 0, semValue)
  \/ pc[j] = "granted" /\ Wake(j, "done", 1, 0)
  \/ pc[j] \in {"starting", "verifying", "finalizing"} /\ Wake(j, "done", 1, 1)

RelinquishNever(j) ==
  \/ pc[j] = "waiting" /\ Wake(j, "done", 0, semValue)
  \/ pc[j] = "granted" /\ Wake(j, "done", 1, semValue + 1)
  \/ pc[j] \in {"starting", "verifying", "finalizing"} /\ MoveTo(j, "done")

(* What leaving the semaphore does, wherever the cancellation finds the     *)
(* task: queued on it, just woken, or inside.                               *)
Relinquish(j) ==
  \/ pc[j] = "waiting" /\ Wake(j, "done", 0, semValue)
  \/ pc[j] = "granted" /\ Wake(j, "done", 1, semValue + 1)
  \/ pc[j] \in {"starting", "verifying", "finalizing"} /\ Wake(j, "done", 1, 1)

(* CancelledError reaches the coroutine at its await; the outer handler of  *)
(* _run finalizes the job as cancelled, whatever _finalize did before.      *)
TaskCancelled(j) ==
  /\ mustCancel[j]
  /\ Relinquish(j)
  /\ mustCancel' = [mustCancel EXCEPT ![j] = FALSE]
  /\ LeaveQueue(j)
  /\ FinalizeCancelled(j)
  /\ UNCHANGED <<accepting, cancelRequested, thread, caller, shutdown>>

-----------------------------------------------------------------------------
(* cancel_chat_jobs().  task.cancel() on a task that has ended is a no-op.  *)
RequestTaskCancel(S) ==
  mustCancel' = [j \in Jobs |-> mustCancel[j] \/ (j \in S /\ pc[j] # "done")]

RequestCancel(S) == cancelRequested' = [j \in Jobs |-> cancelRequested[j] \/ j \in S]

(* One stretch of the for loop over the snapshot S: running jobs are only   *)
(* flagged; at the first queued one the caller awaits asyncio.sleep(0).     *)
CancelWalk(c, S) ==
  LET running == {j \in S : state[j] = "running"}
      queued  == {j \in S : state[j] = "queued"}
  IN  \/ /\ queued = {}
         /\ RequestCancel(running)
         /\ caller' = [caller EXCEPT ![c] = Idle]
         /\ UNCHANGED mustCancel
      \/ \E q \in queued :
           /\ RequestCancel(running \cup {q})
           /\ RequestTaskCancel({q} \cap tasks)
           /\ caller' = [caller EXCEPT ![c] = [cur |-> q, rest |-> queued \ {q}]]

CancelChatJobs(c, chat) ==
  /\ caller[c] = Idle
  /\ chatActive[chat] # {}
  /\ CancelWalk(c, chatActive[chat] \cap jobs)
  /\ UNCHANGED <<accepting, registryVars, state, result, lastSuccess, outcomes, joined,
                 semValue, ahead, pc, thread, shutdown>>

(* After sleep(0).  The loop's ready queue is FIFO, so the cancellation     *)
(* requested before the sleep has been delivered.                           *)
SleepOver(q) == ~mustCancel[q]

(* Mutant: a queued job is never finalized by the caller.                   *)
NeverRanIgnored(q) == FALSE

(* A task that never ran left its job active: it is finalized by the caller.*)
NeverRan(q) == Active(q)

CancelResumes(c) ==
  LET q == caller[c].cur
  IN  /\ q # NoJob
      /\ SleepOver(q)
      /\ IF NeverRan(q) THEN FinalizeCancelled(q)
         ELSE UNCHANGED <<registryVars, state, result, lastSuccess, outcomes, joined>>
      /\ CancelWalk(c, caller[c].rest \cap jobs)
      /\ UNCHANGED <<accepting, semValue, ahead, pc, thread, shutdown>>

-----------------------------------------------------------------------------
(* shutdown(timeout) *)
ShutdownBegins ==
  LET queued == {j \in tasks \cap jobs : state[j] = "queued"}
  IN  /\ shutdown.phase = "up"
      /\ accepting' = FALSE
      /\ RequestCancel(queued)
      /\ RequestTaskCancel(queued)
      /\ shutdown' = [phase |-> IF tasks = {} THEN "down" ELSE "waiting",
                      pending |-> tasks, queued |-> queued]
      /\ UNCHANGED <<registryVars, state, result, lastSuccess, outcomes, joined,
                     semValue, ahead, pc, thread, caller>>

Drained == \A j \in shutdown.pending : pc[j] = "done"

(* Mutant: the timeout does not cancel what it waits for.                   *)
ShutdownShielded ==
  /\ shutdown.phase = "waiting" /\ ~Drained
  /\ shutdown' = [shutdown EXCEPT !.phase = "expired"]
  /\ UNCHANGED <<accepting, registryVars, jobVars, loopVars, caller>>

(* asyncio.wait_for gives up: the gather, hence every pending task, is      *)
(* cancelled; wait_for then still awaits them.                              *)
ShutdownExpires ==
  /\ shutdown.phase = "waiting" /\ ~Drained
  /\ RequestTaskCancel(shutdown.pending)
  /\ shutdown' = [shutdown EXCEPT !.phase = "expired"]
  /\ UNCHANGED <<accepting, registryVars, jobVars, semValue, ahead, pc, thread, caller>>

(* The finally clause, one never-started job at a time.                     *)
ShutdownFinalizes(j) ==
  /\ shutdown.phase \in {"waiting", "expired"} /\ Drained
  /\ j \in shutdown.queued /\ Active(j)
  /\ FinalizeCancelled(j)
  /\ UNCHANGED <<accepting, cancelRequested, loopVars, caller, shutdown>>

ShutdownReturns ==
  /\ shutdown.phase \in {"waiting", "expired"} /\ Drained
  /\ \A j \in shutdown.queued : ~Active(j)
  /\ shutdown' = [shutdown EXCEPT !.phase = "down"]
  /\ UNCHANGED <<accepting, registryVars, jobVars, loopVars, caller>>

(* Nothing is left to do after shutdown.                                    *)
Stopped ==
  /\ shutdown.phase = "down"
  /\ \A j \in Jobs : pc[j] \in {"none", "done"} /\ thread[j] # "running"
  /\ \A c \in Callers : caller[c] = Idle
  /\ UNCHANGED vars

-----------------------------------------------------------------------------
TaskStep(j) ==
  \/ TaskNeverEntered(j) \/ TaskQueues(j) \/ TaskAcquires(j) \/ TaskResumes(j)
  \/ TaskVerifies(j) \/ TaskFails(j) \/ TaskDiscards(j) \/ TaskReports(j)
  \/ TaskEnds(j) \/ TaskCancelled(j)

ShutdownStep == ShutdownExpires \/ ShutdownReturns \/ \E j \in Jobs : ShutdownFinalizes(j)

Next ==
  \/ \E j \in Jobs : SubmitNew(j) \/ TaskStep(j) \/ ThreadEnds(j)
  \/ \E i \in Chats \X Products : SubmitDuplicate(i)
  \/ \E c \in Callers : CancelResumes(c) \/ \E chat \in Chats : CancelChatJobs(c, chat)
  \/ ShutdownBegins \/ ShutdownStep \/ Stopped

Spec == Init /\ [][Next]_vars
=============================================================================
