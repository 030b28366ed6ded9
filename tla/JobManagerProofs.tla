--------------------------- MODULE JobManagerProofs ---------------------------
(***************************************************************************)
(* TLAPS proofs about JobManager for every number of jobs, chats, callers  *)
(* and slots: Inv is inductive (one lemma per action), the safety          *)
(* properties follow from it, and JobManager implements JobContract.       *)
(* Then about the bot that drives it (Conversation), for every number of   *)
(* chats and messages: it drives JobManager as JobManager may be driven,   *)
(* so that every theorem about JobManager holds of the bot; and what a     *)
(* message starts, and what a chat hears of what it cancelled, stay within *)
(* bounds.                                                                 *)
(***************************************************************************)
EXTENDS Conversation, FiniteSetTheorems, TLAPS

PCs == {"none", "created", "waiting", "granted", "starting", "verifying",
        "finalizing", "done"}

(* What a step does to the suspension points: the task of j moves to p, and
   live waiters may be woken.                                              *)
Moves(j, p) ==
  /\ pc' \in [Jobs -> PCs]
  /\ pc'[j] = p
  /\ \A k \in Jobs \ {j} :
       \/ pc'[k] = pc[k]
       \/ pc[k] = "waiting" /\ ~mustCancel[k] /\ pc'[k] = "granted"

(* What _finalize leaves well-typed.                                       *)
FinalizeTyped ==
  /\ state' \in [Jobs -> {"none"} \cup JobStates]
  /\ result' \in [Jobs -> {"none", "success", "failure"}]
  /\ tasks' \subseteq Jobs
  /\ chatActive' \in [Chats -> SUBSET Jobs]
  /\ activeByIdentity' \in [Chats \X Products -> Jobs \cup {NoJob}]
  /\ lastSuccess' \in [Chats -> Jobs \cup {NoJob}]
  /\ outcomes' \in [Jobs -> Seq(TerminalStates)]
  /\ joined' \subseteq Jobs

(* _record_terminal_history(j) forgets finished jobs only, and adds only j. *)
Retention(j) ==
  /\ history' \in [Chats -> Seq(Jobs)]
  /\ jobs' \subseteq Jobs /\ callbacks' \subseteq Jobs
  /\ \A k \in Jobs : k \in jobs /\ k \notin jobs' => k = j \/ state[k] \in TerminalStates
  /\ \A c \in Chats : \A i \in DOMAIN history'[c] :
       history'[c][i] = j \/ \E n \in DOMAIN history[c] : history'[c][i] = history[c][n]

(* One stretch of cancel_chat_jobs flags live jobs, and may cancel the task *)
(* of a queued one and go to sleep on it.                                   *)
Walked(c) ==
  /\ cancelRequested' \in [Jobs -> BOOLEAN]
  /\ mustCancel' \in [Jobs -> BOOLEAN]
  /\ caller' \in [Callers -> [cur : Jobs \cup {NoJob}, rest : SUBSET Jobs]]
  /\ \A k \in Jobs : mustCancel[k] => mustCancel'[k]
  /\ \A k \in Jobs : mustCancel'[k] /\ ~mustCancel[k] => state[k] = "queued" /\ pc[k] # "done"
  /\ \A k \in Jobs : cancelRequested'[k] => cancelRequested[k] \/ Active(k)
  /\ \A d \in Callers \ {c} : caller'[d] = caller[d]
  /\ \A k \in Jobs : caller'[c].cur = k => mustCancel'[k] \/ pc[k] = "done"

(* A queued job whose task never ran is finalized by cancel_chat_jobs or by *)
(* shutdown: nothing of the loop's state moves.                             *)
FinalizedOutside(j) ==
  /\ FinalizeTyped /\ Retention(j)
  /\ state' = [state EXCEPT ![j] = "cancelled"]
  /\ PcInv' /\ ThreadInv' /\ LiveInv' /\ ShutdownInv' /\ OutcomeInv' /\ FinalizedOnce'

(* Sets of jobs are finite, and cardinality is monotone on them.           *)
LEMMA JobSetsFinite ==
  /\ \A S \in SUBSET Jobs : IsFiniteSet(S) /\ Cardinality(S) \in Nat
  /\ \A S, T \in SUBSET Jobs : S \subseteq T => Cardinality(S) <= Cardinality(T)
<1>1. \A S \in SUBSET Jobs : IsFiniteSet(S) /\ Cardinality(S) \in Nat
  BY JobAssumption, FS_Subset, FS_CardinalityType DEF JobAssumption
<1>2. \A S, T \in SUBSET Jobs : S \subseteq T => Cardinality(S) <= Cardinality(T)
  BY <1>1, FS_Subset
<1> QED  BY <1>1, <1>2

(* Wake touches the task of j and live waiters only.                       *)
LEMMA WakeMoves ==
  ASSUME TypeOK, NEW j \in Jobs, j \notin Eligible, NEW p \in PCs,
         NEW freed \in {0, 1}, NEW n \in Nat, Wake(j, p, freed, n)
  PROVE  Moves(j, p)
BY DEF Moves, Wake, Grants, Eligible, TypeOK, PCs

(* Wake conserves the semaphore's slots, whoever it wakes: the case        *)
(* analysis is what the moving task held before and holds after.           *)
LEMMA WakeSlots ==
  ASSUME TypeOK, SlotsConserved, NEW j \in Jobs, j \notin Eligible, NEW p \in PCs,
         NEW freed \in {0, 1}, NEW n \in Nat, n <= semValue + freed,
         \/ freed = 1 /\ j \in Holding /\ p = "done"
         \/ freed = 0 /\ j \in Holding /\ p = "starting"
         \/ freed = 0 /\ j \notin Holding /\ p = "done",
         Wake(j, p, freed, n)
  PROVE  semValue' \in Nat /\ SlotsConserved'
<1> PICK G \in Grants(n) :
      /\ pc' = [k \in Jobs |-> IF k \in G THEN "granted"
                               ELSE IF k = j THEN p ELSE pc[k]]
      /\ semValue' = (semValue + freed) - Cardinality(G)
  BY DEF Wake
<1> DEFINE Kept == IF freed = 1 THEN Holding \ {j} ELSE Holding
<1>1. G \subseteq Eligible /\ G \subseteq Jobs /\ Eligible \subseteq Jobs /\ Holding \subseteq Jobs
  BY DEF Grants, Eligible, Holding
<1>2. Cardinality(G) \in Nat /\ Cardinality(Eligible) \in Nat /\ Cardinality(Holding) \in Nat
      /\ IsFiniteSet(G) /\ IsFiniteSet(Holding)
  BY <1>1, JobSetsFinite
<1>3. Cardinality(G) <= n
  BY <1>2 DEF Grants
<1>4. Holding' = Kept \cup G /\ Kept \cap G = {}
  BY <1>1 DEF Holding, Eligible, TypeOK, PCs
<1>5. IsFiniteSet(Kept) /\ Cardinality(Kept) = Cardinality(Holding) - freed
  <2>1. CASE freed = 1
    <3>1. j \in Holding  BY <2>1
    <3>2. Kept = Holding \ {j}  BY <2>1
    <3> QED  BY <2>1, <3>1, <3>2, <1>2, FS_RemoveElement
  <2>2. CASE freed = 0
    <3>1. Kept = Holding  BY <2>2
    <3> QED  BY <2>2, <3>1, <1>2
  <2> QED  BY <2>1, <2>2
<1>6. Cardinality(Holding') = Cardinality(Kept) + Cardinality(G)
  <2>1. Cardinality(Kept \cup G) = Cardinality(Kept) + Cardinality(G) - Cardinality(Kept \cap G)
    BY <1>2, <1>5, FS_Union
  <2>2. Cardinality(Kept \cap G) = 0
    BY <1>4, FS_EmptySet
  <2>3. Cardinality(Kept) \in Nat
    BY <1>5, FS_CardinalityType
  <2> HIDE DEF Kept
  <2> QED  BY <2>1, <2>2, <2>3, <1>2, <1>4
<1> QED
  BY <1>2, <1>3, <1>5, <1>6, JobAssumption DEF SlotsConserved, TypeOK, JobAssumption

(* Every job has a chat and an identity.                                   *)
LEMMA ChatOfJob == \A j \in Jobs : ChatOf[j] \in Chats /\ Identity(j) \in Chats \X Products
BY JobAssumption DEF JobAssumption, Identity

(* What _finalize does to the types, and to the registries of live jobs.   *)
LEMMA FinalizeTypes ==
  ASSUME TypeOK, NEW j \in Jobs, NEW s \in TerminalStates,
         NEW r \in {"none", "success", "failure"}, Finalize(j, s, r)
  PROVE  FinalizeTyped
BY ChatOfJob
DEF FinalizeTyped, Finalize, Unlisted, IdentityReleased, LatestSuccess, TypeOK, JobStates

(* Appending to a chat's history and evicting its oldest entry never       *)
(* forgets an unfinished job.                                              *)
LEMMA HistoryKept ==
  ASSUME TypeOK, HistoryFinished, NEW j \in Jobs, RecordTerminalHistory(j)
  PROVE  Retention(j)
<1> DEFINE old == history[ChatOf[j]]
           h   == Append(old, j)
<1>1. old \in Seq(Jobs) /\ ChatOf[j] \in Chats
  BY ChatOfJob DEF TypeOK
<1>2. /\ h \in Seq(Jobs) /\ Len(h) = Len(old) + 1
      /\ \A i \in 1 .. Len(old) : h[i] = old[i]
      /\ h[Len(old) + 1] = j
  BY <1>1
<1>3. /\ Tail(h) \in Seq(Jobs) /\ Len(Tail(h)) = Len(old)
      /\ \A i \in 1 .. Len(old) : Tail(h)[i] = h[i + 1]
      /\ Head(h) = h[1] /\ Head(h) \in Jobs
  BY <1>1, <1>2
<1>4. \A i \in 1 .. Len(h) : h[i] = j \/ \E n \in DOMAIN old : h[i] = old[n]
  BY <1>1, <1>2
<1>5. \A i \in 1 .. Len(Tail(h)) : Tail(h)[i] = j \/ \E n \in DOMAIN old : Tail(h)[i] = old[n]
  BY <1>1, <1>2, <1>3, <1>4
<1>6. Head(h) = j \/ state[Head(h)] \in TerminalStates
  BY <1>1, <1>2, <1>3, <1>4 DEF HistoryFinished
<1> HIDE DEF h
<1>7. history' = history \/ history' = [history EXCEPT ![ChatOf[j]] = h]
      \/ history' = [history EXCEPT ![ChatOf[j]] = Tail(h)]
  BY DEF RecordTerminalHistory, JobsKept, h
<1>8. jobs' = jobs \/ jobs' = jobs \ {j} \/ jobs' = jobs \ {Head(h)}
  BY DEF RecordTerminalHistory, JobsKept, h
<1>9. history' \in [Chats -> Seq(Jobs)]
  <2>1. history \in [Chats -> Seq(Jobs)] /\ h \in Seq(Jobs) /\ Tail(h) \in Seq(Jobs)
    BY <1>2, <1>3 DEF TypeOK
  <2> QED  BY <2>1, <1>1, <1>7
<1>10. callbacks' \subseteq Jobs /\ jobs' \subseteq Jobs
  BY <1>8 DEF TypeOK, RecordTerminalHistory, JobsKept
<1>11. \A k \in Jobs : k \in jobs /\ k \notin jobs' => k = j \/ state[k] \in TerminalStates
  BY <1>6, <1>8
<1>12. ASSUME NEW c \in Chats, NEW i \in DOMAIN history'[c]
       PROVE  history'[c][i] = j \/ \E n \in DOMAIN history[c] : history'[c][i] = history[c][n]
  <2>1. CASE history'[c] = history[c]
    BY <2>1
  <2>2. CASE c = ChatOf[j] /\ history'[c] = h
    BY <2>2, <1>2, <1>4
  <2>3. CASE c = ChatOf[j] /\ history'[c] = Tail(h)
    BY <2>3, <1>3, <1>5
  <2> QED  BY <1>7, <1>9, <2>1, <2>2, <2>3 DEF TypeOK
<1> QED  BY <1>9, <1>10, <1>11, <1>12, <1>1 DEF Retention

(* Who sleeps in cancel_chat_jobs is undisturbed by steps that deliver no  *)
(* cancellation except by ending the task.                                 *)
LEMMA CallerKept ==
  ASSUME CallerInv, caller' = caller,
         \A k \in Jobs : mustCancel[k] \/ pc[k] = "done" => mustCancel'[k] \/ pc'[k] = "done"
  PROVE  CallerInv'
BY DEF CallerInv

(* _finalize leaves exactly the other live jobs registered.                 *)
LEMMA FinalizeLive ==
  ASSUME TypeOK, LiveInv, NEW j \in Jobs, NEW s \in TerminalStates, NEW r,
         Finalize(j, s, r),
         Retention(j)
  PROVE  LiveInv'
<1>1. /\ \A k \in Jobs : state'[k] = IF k = j THEN s ELSE state[k]
      /\ tasks' = tasks \ {j}
      /\ \A i \in Chats \X Products : activeByIdentity'[i] =
           IF i = Identity(j) /\ activeByIdentity[i] = j THEN NoJob ELSE activeByIdentity[i]
  BY ChatOfJob DEF Finalize, Unlisted, IdentityReleased, LatestSuccess, TypeOK
<1>2. \A k \in Jobs : Active(k)' <=> Active(k) /\ k # j
  BY <1>1 DEF Active, ActiveStates, TerminalStates
<1>3. (\A k \in Jobs : Active(k) => k \in jobs)'
  BY <1>2 DEF LiveInv, Retention, Active, ActiveStates, TerminalStates
<1>4. (\A k \in Jobs : Active(k) <=> k \in tasks)'
  BY <1>1, <1>2 DEF LiveInv
<1>5. OneActivePerIdentity'
  <2>1. \A k \in Jobs : Active(k) <=> activeByIdentity[Identity(k)] = k
    BY DEF LiveInv, OneActivePerIdentity
  <2>2. NoJob \notin Jobs  BY JobAssumption DEF JobAssumption
  <2> QED  BY <1>1, <1>2, <2>1, <2>2, ChatOfJob DEF OneActivePerIdentity, Identity
<1>6. HistoryFinished'
  <2> SUFFICES ASSUME NEW c \in Chats, NEW i \in DOMAIN history'[c]
               PROVE  state'[history'[c][i]] \in TerminalStates
    BY DEF HistoryFinished
  <2>0. history'[c][i] = j \/ \E n \in DOMAIN history[c] : history'[c][i] = history[c][n]
    BY DEF Retention
  <2>1. CASE history'[c][i] = j
    BY <2>1, <1>1
  <2>2. ASSUME NEW n \in DOMAIN history[c], history'[c][i] = history[c][n]
        PROVE  state'[history'[c][i]] \in TerminalStates
    <3>1. history[c][n] \in Jobs
      BY DEF TypeOK
    <3> QED  BY <3>1, <2>2, <1>1 DEF LiveInv, HistoryFinished
  <2> QED  BY <2>0, <2>1, <2>2
<1> QED  BY <1>3, <1>4, <1>5, <1>6 DEF LiveInv, HistoryFinished

(* submit() of a new request keeps the invariant.                          *)
LEMMA SubmitNewStep ==
  ASSUME Core, NEW j \in Jobs, SubmitNew(j)
  PROVE  Core'
<1> USE DEF Core
<1>1. TypeOK'
  BY ChatOfJob DEF SubmitNew, MoveTo, TypeOK, JobStates, ActiveStates
<1>2. PcInv'
  BY DEF SubmitNew, MoveTo, registryVars, PcInv, TypeOK
<1>3. CancelInv'
  BY DEF SubmitNew, MoveTo, registryVars, CancelInv, TypeOK, PcInv
<1>4. CallerInv'
  BY CallerKept DEF SubmitNew, MoveTo, registryVars, TypeOK, PcInv
<1>5. ThreadInv'
  BY DEF SubmitNew, MoveTo, registryVars, ThreadInv, TypeOK, PcInv
<1>6. LiveInv'
  BY ChatOfJob
  DEF SubmitNew, LiveInv, HistoryFinished, OneActivePerIdentity, TypeOK, Active,
      ActiveStates, TerminalStates, Existing
<1>7. ShutdownInv'
  BY DEF SubmitNew, MoveTo, registryVars, ShutdownInv, TypeOK, PcInv
<1>8. OutcomeInv'
  BY DEF SubmitNew, MoveTo, registryVars, OutcomeInv, TypeOK, PcInv
<1>10. FinalizedOnce'
  BY DEF SubmitNew, FinalizedOnce, CancelInv, ShutdownInv, OutcomeInv, Active
<1>11. CancelDiscardsResult'
  BY DEF SubmitNew, MoveTo, registryVars, CancelDiscardsResult, TypeOK
<1>9. SlotsConserved'
  <2>1. Holding' = Holding
    BY DEF SubmitNew, MoveTo, registryVars, Holding, TypeOK, PcInv
  <2> QED  BY <2>1 DEF SubmitNew, MoveTo, registryVars, SlotsConserved
<1> QED  BY <1>1, <1>2, <1>3, <1>4, <1>5, <1>6, <1>7, <1>8, <1>9, <1>10, <1>11

(* A task cancelled before its first timeslice.                            *)
LEMMA TaskNeverEnteredStep ==
  ASSUME Core, NEW j \in Jobs, TaskNeverEntered(j)
  PROVE  Core'
<1> USE DEF Core
<1>1. TypeOK'
  BY ChatOfJob DEF TaskNeverEntered, MoveTo, registryVars, jobVars, TypeOK
<1>2. PcInv'
  BY DEF TaskNeverEntered, MoveTo, registryVars, jobVars, PcInv, TypeOK
<1>3. CancelInv'
  BY DEF TaskNeverEntered, MoveTo, CancelInv, TypeOK, PcInv
<1>4. CallerInv'
  BY CallerKept DEF TaskNeverEntered, MoveTo, TypeOK, PcInv
<1>5. ThreadInv'
  BY DEF TaskNeverEntered, MoveTo, registryVars, jobVars, ThreadInv, TypeOK
<1>6. LiveInv'
  BY DEF TaskNeverEntered, registryVars, jobVars, LiveInv, HistoryFinished,
         OneActivePerIdentity, Active
<1>7. ShutdownInv'
  BY DEF TaskNeverEntered, MoveTo, jobVars, ShutdownInv, TypeOK, Active
<1>8. OutcomeInv'
  BY DEF TaskNeverEntered, MoveTo, registryVars, jobVars, OutcomeInv
<1>10. FinalizedOnce'
  BY DEF TaskNeverEntered, registryVars, jobVars, FinalizedOnce, Active, TerminalStates
<1>11. CancelDiscardsResult'
  BY DEF TaskNeverEntered, MoveTo, registryVars, jobVars, CancelDiscardsResult, TypeOK
<1>9. SlotsConserved'
  <2>1. Holding' = Holding
    BY DEF TaskNeverEntered, MoveTo, registryVars, jobVars, Holding
  <2> QED  BY <2>1 DEF TaskNeverEntered, MoveTo, registryVars, jobVars, SlotsConserved
<1> QED  BY <1>1, <1>2, <1>3, <1>4, <1>5, <1>6, <1>7, <1>8, <1>9, <1>10, <1>11

(* A task that has to wait for a slot.                                     *)
LEMMA TaskQueuesStep ==
  ASSUME Core, NEW j \in Jobs, TaskQueues(j)
  PROVE  Core'
<1> USE DEF Core
<1>1. TypeOK'
  BY ChatOfJob
  DEF TaskQueues, SlotFree, MoveTo, registryVars, jobVars, TypeOK, Waiters, Eligible
<1>2. PcInv'
  BY DEF TaskQueues, SlotFree, MoveTo, registryVars, jobVars, PcInv
<1>3. CancelInv'
  BY DEF TaskQueues, SlotFree, MoveTo, registryVars, jobVars, CancelInv
<1>4. CallerInv'
  BY CallerKept DEF TaskQueues, SlotFree, MoveTo, registryVars, jobVars
<1>5. ThreadInv'
  BY DEF TaskQueues, SlotFree, MoveTo, registryVars, jobVars, ThreadInv
<1>6. LiveInv'
  BY DEF TaskQueues, SlotFree, registryVars, jobVars, LiveInv, HistoryFinished,
         OneActivePerIdentity, Active
<1>7. ShutdownInv'
  BY DEF TaskQueues, SlotFree, MoveTo, jobVars, ShutdownInv, Active
<1>8. OutcomeInv'
  BY DEF TaskQueues, SlotFree, MoveTo, registryVars, jobVars, OutcomeInv
<1>10. FinalizedOnce'
  BY DEF TaskQueues, SlotFree, registryVars, jobVars, FinalizedOnce, Active
<1>11. CancelDiscardsResult'
  BY DEF TaskQueues, SlotFree, MoveTo, registryVars, jobVars, CancelDiscardsResult
<1>9. SlotsConserved'
  <2>1. Holding' = Holding
    BY DEF TaskQueues, SlotFree, MoveTo, registryVars, jobVars, Holding
  <2> QED  BY <2>1 DEF TaskQueues, SlotFree, MoveTo, SlotsConserved
<1> QED  BY <1>1, <1>2, <1>3, <1>4, <1>5, <1>6, <1>7, <1>8, <1>9, <1>10, <1>11

(* A task that takes a free slot at once.                                  *)
LEMMA TaskAcquiresStep ==
  ASSUME Core, NEW j \in Jobs, TaskAcquires(j)
  PROVE  Core'
<1> USE DEF Core
<1>1. TypeOK'
  BY ChatOfJob
  DEF TaskAcquires, SlotFree, BecomeRunning, registryVars, TypeOK, JobStates, ActiveStates
<1>2. PcInv'
  BY DEF TaskAcquires, SlotFree, BecomeRunning, registryVars, PcInv, TypeOK
<1>3. CancelInv'
  BY DEF TaskAcquires, SlotFree, BecomeRunning, registryVars, CancelInv
<1>4. CallerInv'
  BY CallerKept DEF TaskAcquires, SlotFree, BecomeRunning, registryVars
<1>5. ThreadInv'
  BY DEF TaskAcquires, SlotFree, BecomeRunning, registryVars, ThreadInv, TypeOK
<1>6. LiveInv'
  BY DEF TaskAcquires, SlotFree, BecomeRunning, registryVars, LiveInv, HistoryFinished,
         OneActivePerIdentity, PcInv, Active, ActiveStates, TerminalStates
<1>7. ShutdownInv'
  BY DEF TaskAcquires, SlotFree, BecomeRunning, ShutdownInv, PcInv, Active, ActiveStates
<1>8. OutcomeInv'
  BY DEF TaskAcquires, SlotFree, BecomeRunning, OutcomeInv, PcInv, ActiveStates
<1>10. FinalizedOnce'
  BY DEF TaskAcquires, SlotFree, BecomeRunning, FinalizedOnce, PcInv, Active, ActiveStates
<1>11. CancelDiscardsResult'
  BY DEF TaskAcquires, SlotFree, BecomeRunning, registryVars, CancelDiscardsResult, TypeOK
<1>9. SlotsConserved'
  <2>1. Holding' = Holding \cup {j} /\ j \notin Holding
    BY DEF TaskAcquires, SlotFree, Holding, TypeOK
  <2>2. IsFiniteSet(Holding) /\ Cardinality(Holding) \in Nat
    <3>1. Holding \in SUBSET Jobs  BY DEF Holding
    <3> QED  BY <3>1, JobSetsFinite
  <2>3. Cardinality(Holding') = Cardinality(Holding) + 1
    BY <2>1, <2>2, FS_AddElement
  <2>4. semValue' = semValue - 1 /\ semValue \in Nat
    BY DEF TaskAcquires, SlotFree, TypeOK
  <2> QED  BY <2>2, <2>3, <2>4, JobAssumption DEF SlotsConserved, JobAssumption
<1> QED  BY <1>1, <1>2, <1>3, <1>4, <1>5, <1>6, <1>7, <1>8, <1>9, <1>10, <1>11

(* A woken task that gets its turn.                                        *)
LEMMA TaskResumesStep ==
  ASSUME Core, NEW j \in Jobs, TaskResumes(j)
  PROVE  Core'
<1> USE DEF Core
<1>m. Moves(j, "starting")
  BY WakeMoves DEF TaskResumes, Eligible, TypeOK, PcInv, PCs
<1>s. SlotsConserved' /\ semValue' \in Nat
  <2>1. Wake(j, "starting", 0, semValue) /\ j \in Holding /\ j \notin Eligible
    BY DEF TaskResumes, Holding, Eligible
  <2>2. semValue \in Nat /\ semValue <= semValue + 0
    BY DEF TypeOK
  <2> QED  BY <2>1, <2>2, WakeSlots DEF PCs
<1>1. TypeOK'
  BY <1>m, <1>s, ChatOfJob
  DEF TaskResumes, BecomeRunning, registryVars, TypeOK, LeaveQueue, Moves, PCs, JobStates,
      ActiveStates
<1>2. PcInv'
  BY <1>m DEF TaskResumes, BecomeRunning, PcInv, TypeOK, Moves, PCs
<1>3. CancelInv'
  BY <1>m DEF TaskResumes, BecomeRunning, CancelInv, Moves, PCs
<1>4. CallerInv'
  BY <1>m, CallerKept DEF TaskResumes, BecomeRunning, Moves, PCs
<1>5. ThreadInv'
  BY <1>m DEF TaskResumes, BecomeRunning, ThreadInv, Moves, PCs
<1>6. LiveInv'
  BY DEF TaskResumes, BecomeRunning, registryVars, LiveInv, HistoryFinished,
         OneActivePerIdentity, PcInv, Active, ActiveStates, TerminalStates
<1>7. ShutdownInv'
  BY <1>m DEF TaskResumes, BecomeRunning, ShutdownInv, PcInv, Active, ActiveStates
<1>8. OutcomeInv'
  BY <1>m DEF TaskResumes, BecomeRunning, OutcomeInv, PcInv, ActiveStates, Moves, PCs
<1>10. FinalizedOnce'
  BY DEF TaskResumes, BecomeRunning, FinalizedOnce, PcInv, Active, ActiveStates
<1>11. CancelDiscardsResult'
  BY DEF TaskResumes, BecomeRunning, registryVars, CancelDiscardsResult, TypeOK
<1> QED  BY <1>1, <1>2, <1>3, <1>4, <1>5, <1>6, <1>7, <1>8, <1>s, <1>10, <1>11

(* The worker thread starts.                                               *)
LEMMA TaskVerifiesStep ==
  ASSUME Core, NEW j \in Jobs, TaskVerifies(j)
  PROVE  Core'
<1> USE DEF Core
<1>1. TypeOK'
  BY ChatOfJob DEF TaskVerifies, MoveTo, registryVars, jobVars, TypeOK
<1>2. PcInv'
  BY DEF TaskVerifies, MoveTo, registryVars, jobVars, PcInv, TypeOK
<1>3. CancelInv'
  BY DEF TaskVerifies, MoveTo, registryVars, jobVars, CancelInv
<1>4. CallerInv'
  BY CallerKept DEF TaskVerifies, MoveTo, registryVars, jobVars
<1>5. ThreadInv'
  BY DEF TaskVerifies, MoveTo, registryVars, jobVars, ThreadInv, TypeOK
<1>6. LiveInv'
  BY DEF TaskVerifies, registryVars, jobVars, LiveInv, HistoryFinished,
         OneActivePerIdentity, Active
<1>7. ShutdownInv'
  BY DEF TaskVerifies, MoveTo, registryVars, jobVars, ShutdownInv, Active
<1>8. OutcomeInv'
  BY DEF TaskVerifies, MoveTo, registryVars, jobVars, OutcomeInv
<1>10. FinalizedOnce'
  BY DEF TaskVerifies, registryVars, jobVars, FinalizedOnce, Active, TerminalStates
<1>11. CancelDiscardsResult'
  BY DEF TaskVerifies, MoveTo, registryVars, jobVars, CancelDiscardsResult, TypeOK
<1>9. SlotsConserved'
  <2>1. Holding' = Holding
    BY DEF TaskVerifies, MoveTo, registryVars, jobVars, Holding
  <2> QED  BY <2>1 DEF TaskVerifies, MoveTo, registryVars, jobVars, SlotsConserved
<1> QED  BY <1>1, <1>2, <1>3, <1>4, <1>5, <1>6, <1>7, <1>8, <1>9, <1>10, <1>11

(* The worker thread ends.                                                 *)
LEMMA ThreadEndsStep ==
  ASSUME Core, NEW j \in Jobs, ThreadEnds(j)
  PROVE  Core'
<1> USE DEF Core
<1>1. TypeOK'
  BY ChatOfJob DEF ThreadEnds, registryVars, jobVars, TypeOK
<1>2. PcInv'
  BY DEF ThreadEnds, registryVars, jobVars, PcInv, TypeOK
<1>3. CancelInv'
  BY DEF ThreadEnds, registryVars, jobVars, CancelInv, TypeOK, PcInv
<1>4. CallerInv'
  BY CallerKept DEF ThreadEnds, registryVars, jobVars, TypeOK, PcInv
<1>5. ThreadInv'
  BY DEF ThreadEnds, registryVars, jobVars, ThreadInv, TypeOK, CancelInv
<1>6. LiveInv'
  BY DEF ThreadEnds, registryVars, jobVars, LiveInv, HistoryFinished,
         OneActivePerIdentity, Active
<1>7. ShutdownInv'
  BY DEF ThreadEnds, registryVars, jobVars, ShutdownInv, Active, TerminalStates
<1>8. OutcomeInv'
  BY DEF ThreadEnds, registryVars, jobVars, OutcomeInv, TypeOK, PcInv
<1>10. FinalizedOnce'
  BY DEF ThreadEnds, registryVars, jobVars, FinalizedOnce, Active, TerminalStates
<1>11. CancelDiscardsResult'
  BY DEF ThreadEnds, registryVars, jobVars, CancelDiscardsResult, TypeOK
<1>9. SlotsConserved'
  <2>1. Holding' = Holding
    BY DEF ThreadEnds, registryVars, jobVars, Holding, TypeOK, PcInv
  <2> QED  BY <2>1 DEF ThreadEnds, registryVars, jobVars, SlotsConserved
<1> QED  BY <1>1, <1>2, <1>3, <1>4, <1>5, <1>6, <1>7, <1>8, <1>9, <1>10, <1>11

(* verify() raised.                                                        *)
LEMMA TaskFailsStep ==
  ASSUME Core, NEW j \in Jobs, TaskFails(j)
  PROVE  Core'
<1> USE DEF Core
<1>0. Finalize(j, "failed", "none")
  BY DEF TaskFails, FinalizeAndNotify, MoveTo
<1>f. FinalizeTyped
  BY <1>0, FinalizeTypes DEF TerminalStates
<1>1. TypeOK'
  BY <1>f, ChatOfJob DEF TaskFails, FinalizeAndNotify, MoveTo, TypeOK, FinalizeTyped
<1>2. PcInv'
  BY <1>0 DEF TaskFails, FinalizeAndNotify, MoveTo, Finalize, PcInv, TypeOK
<1>3. CancelInv'
  BY DEF TaskFails, FinalizeAndNotify, MoveTo, CancelInv, TypeOK, PcInv
<1>4. CallerInv'
  BY CallerKept DEF TaskFails, FinalizeAndNotify, MoveTo, TypeOK, PcInv
<1>5. ThreadInv'
  BY DEF TaskFails, FinalizeAndNotify, MoveTo, ThreadInv, TypeOK, CancelInv
<1>6. LiveInv'
  <2>1. Retention(j)
    BY DEF TaskFails, FinalizeAndNotify, Retention, TypeOK
  <2> QED  BY <1>0, <2>1, FinalizeLive DEF TerminalStates
<1>7. ShutdownInv'
  BY <1>0
  DEF TaskFails, FinalizeAndNotify, MoveTo, Finalize, ShutdownInv, Active, ActiveStates
<1>8. OutcomeInv'
  BY <1>0, <1>f
  DEF TaskFails, FinalizeAndNotify, MoveTo, Finalize, OutcomeInv, PcInv, ActiveStates,
      FinalizeTyped
<1>10. FinalizedOnce'
  BY <1>0, <1>f
  DEF TaskFails, FinalizeAndNotify, MoveTo, Finalize, FinalizedOnce, PcInv, Active,
      ActiveStates, FinalizeTyped
<1>11. CancelDiscardsResult'
  BY <1>0 DEF TaskFails, FinalizeAndNotify, MoveTo, Finalize, CancelDiscardsResult
<1>9. SlotsConserved'
  <2>1. Holding' = Holding
    BY DEF TaskFails, FinalizeAndNotify, MoveTo, Holding, TypeOK, PcInv
  <2> QED  BY <2>1 DEF TaskFails, FinalizeAndNotify, MoveTo, SlotsConserved
<1> QED  BY <1>1, <1>2, <1>3, <1>4, <1>5, <1>6, <1>7, <1>8, <1>9, <1>10, <1>11

(* The result of a cancelled verification is discarded.                    *)
LEMMA TaskDiscardsStep ==
  ASSUME Core, NEW j \in Jobs, TaskDiscards(j)
  PROVE  Core'
<1> USE DEF Core
<1>m. Moves(j, "done")
  BY WakeMoves DEF TaskDiscards, Wanted, Eligible, PCs
<1>s. SlotsConserved' /\ semValue' \in Nat
  <2>1. Wake(j, "done", 1, 1) /\ j \in Holding /\ j \notin Eligible
    BY DEF TaskDiscards, Wanted, Holding, Eligible
  <2>2. 1 \in Nat /\ 1 <= semValue + 1
    BY DEF TypeOK
  <2> QED  BY <2>1, <2>2, WakeSlots DEF PCs
<1>0. Finalize(j, "cancelled", "none")
  BY DEF TaskDiscards, Wanted, FinalizeCancelled
<1>f. FinalizeTyped
  BY <1>0, FinalizeTypes DEF TerminalStates
<1>h. Retention(j)
  BY HistoryKept DEF TaskDiscards, Wanted, FinalizeCancelled, LiveInv, HistoryFinished
<1>1. TypeOK'
  BY <1>m, <1>s, <1>f, <1>h, ChatOfJob
  DEF TaskDiscards, Wanted, FinalizeCancelled, TypeOK, Moves, PCs, FinalizeTyped,
      Retention
<1>2. PcInv'
  BY <1>m, <1>0
  DEF TaskDiscards, Wanted, FinalizeCancelled, Finalize, PcInv, TypeOK, Moves, PCs
<1>3. CancelInv'
  BY <1>m DEF TaskDiscards, Wanted, FinalizeCancelled, CancelInv, Moves, PCs
<1>4. CallerInv'
  BY <1>m, CallerKept DEF TaskDiscards, Wanted, FinalizeCancelled, Moves, PCs
<1>5. ThreadInv'
  BY <1>m DEF TaskDiscards, Wanted, FinalizeCancelled, ThreadInv, Moves, PCs
<1>6. LiveInv'
  BY <1>0, <1>h, FinalizeLive DEF TerminalStates, Retention
<1>7. ShutdownInv'
  BY <1>m, <1>0
  DEF TaskDiscards, Wanted, FinalizeCancelled, Finalize, ShutdownInv, Active,
      ActiveStates, Moves, PCs
<1>8. OutcomeInv'
  BY <1>m, <1>0, <1>f
  DEF TaskDiscards, Wanted, FinalizeCancelled, Finalize, OutcomeInv, ActiveStates, Moves,
      PCs, FinalizeTyped
<1>10. FinalizedOnce'
  BY <1>0, <1>f
  DEF TaskDiscards, Wanted, FinalizeCancelled, Finalize, FinalizedOnce, PcInv, Active,
      ActiveStates, FinalizeTyped
<1>11. CancelDiscardsResult'
  BY <1>0 DEF TaskDiscards, Wanted, FinalizeCancelled, Finalize, CancelDiscardsResult
<1> QED  BY <1>1, <1>2, <1>3, <1>4, <1>5, <1>6, <1>7, <1>8, <1>s, <1>10, <1>11

(* The outcome is recorded and its notification starts.                    *)
LEMMA TaskReportsStep ==
  ASSUME Core, NEW j \in Jobs, TaskReports(j)
  PROVE  Core'
<1> USE DEF Core
<1>0. Finalize(j, IF thread[j] = "success" THEN "completed" ELSE "failed", thread[j])
  BY DEF TaskReports, Wanted, FinalizeAndNotify, MoveTo
<1>f. FinalizeTyped
  BY <1>0, FinalizeTypes DEF TerminalStates, TaskReports, Wanted
<1>1. TypeOK'
  BY <1>f, ChatOfJob
  DEF TaskReports, Wanted, FinalizeAndNotify, MoveTo, TypeOK, FinalizeTyped
<1>2. PcInv'
  BY <1>0 DEF TaskReports, Wanted, FinalizeAndNotify, MoveTo, Finalize, PcInv, TypeOK
<1>3. CancelInv'
  BY DEF TaskReports, Wanted, FinalizeAndNotify, MoveTo, CancelInv
<1>4. CallerInv'
  BY CallerKept DEF TaskReports, Wanted, FinalizeAndNotify, MoveTo
<1>5. ThreadInv'
  BY DEF TaskReports, Wanted, FinalizeAndNotify, MoveTo, ThreadInv, TypeOK
<1>6. LiveInv'
  <2>1. Retention(j)
    BY DEF TaskReports, Wanted, FinalizeAndNotify, Retention, TypeOK
  <2> QED  BY <1>0, <2>1, FinalizeLive DEF TaskReports, Wanted, TerminalStates
<1>7. ShutdownInv'
  BY <1>0
  DEF TaskReports, Wanted, FinalizeAndNotify, MoveTo, Finalize, ShutdownInv, Active,
      ActiveStates
<1>8. OutcomeInv'
  BY <1>0, <1>f
  DEF TaskReports, Wanted, FinalizeAndNotify, MoveTo, Finalize, OutcomeInv, PcInv,
      ActiveStates, FinalizeTyped
<1>10. FinalizedOnce'
  BY <1>0, <1>f
  DEF TaskReports, Wanted, FinalizeAndNotify, MoveTo, Finalize, FinalizedOnce, PcInv,
      Active, ActiveStates, FinalizeTyped
<1>11. CancelDiscardsResult'
  BY <1>0
  DEF TaskReports, Wanted, FinalizeAndNotify, MoveTo, Finalize, CancelDiscardsResult
<1>9. SlotsConserved'
  <2>1. Holding' = Holding
    BY DEF TaskReports, Wanted, FinalizeAndNotify, MoveTo, Holding
  <2> QED  BY <2>1 DEF TaskReports, Wanted, FinalizeAndNotify, MoveTo, SlotsConserved
<1> QED  BY <1>1, <1>2, <1>3, <1>4, <1>5, <1>6, <1>7, <1>8, <1>9, <1>10, <1>11

(* The notification is over: retention and release of the slot.            *)
LEMMA TaskEndsStep ==
  ASSUME Core, NEW j \in Jobs, TaskEnds(j)
  PROVE  Core'
<1> USE DEF Core
<1>m. Moves(j, "done")
  BY WakeMoves DEF TaskEnds, Eligible, TypeOK, PcInv, PCs
<1>s. SlotsConserved' /\ semValue' \in Nat
  <2>1. Wake(j, "done", 1, 1) /\ j \in Holding /\ j \notin Eligible
    BY DEF TaskEnds, Holding, Eligible
  <2>2. 1 \in Nat /\ 1 <= semValue + 1
    BY DEF TypeOK
  <2> QED  BY <2>1, <2>2, WakeSlots DEF PCs
<1>h. Retention(j)
  BY HistoryKept DEF TaskEnds, jobVars, LiveInv, HistoryFinished
<1>1. TypeOK'
  BY <1>m, <1>s, <1>h, ChatOfJob DEF TaskEnds, jobVars, TypeOK, Moves, PCs, Retention
<1>2. PcInv'
  BY <1>m DEF TaskEnds, jobVars, PcInv, Moves, PCs
<1>3. CancelInv'
  BY <1>m DEF TaskEnds, jobVars, CancelInv, Moves, PCs
<1>4. CallerInv'
  BY <1>m, CallerKept DEF TaskEnds, jobVars, Moves, PCs
<1>5. ThreadInv'
  BY <1>m DEF TaskEnds, jobVars, ThreadInv, Moves, PCs
<1>6. LiveInv'
  <2>1. state' = state /\ state[j] \in TerminalStates /\ activeByIdentity' = activeByIdentity /\ tasks' = tasks
    BY DEF TaskEnds, jobVars, PcInv, TerminalStates
  <2>2. (\A k \in Jobs : Active(k) => k \in jobs)'
    BY <1>h, <2>1 DEF LiveInv, Active, ActiveStates, TerminalStates, Retention
  <2>3. HistoryFinished'
    BY <1>h, <2>1 DEF LiveInv, HistoryFinished, Retention
  <2> QED  BY <2>1, <2>2, <2>3 DEF LiveInv, HistoryFinished, OneActivePerIdentity, Active
<1>7. ShutdownInv'
  BY <1>m DEF TaskEnds, jobVars, ShutdownInv, Active, Moves, PCs
<1>8. OutcomeInv'
  BY <1>m DEF TaskEnds, jobVars, OutcomeInv, Moves, PCs
<1>10. FinalizedOnce'
  BY DEF TaskEnds, jobVars, FinalizedOnce, Active, ActiveStates, TerminalStates
<1>11. CancelDiscardsResult'
  BY DEF TaskEnds, jobVars, CancelDiscardsResult, TypeOK
<1> QED  BY <1>1, <1>2, <1>3, <1>4, <1>5, <1>6, <1>7, <1>8, <1>s, <1>10, <1>11

(* CancelledError is delivered at any of _run's awaits.                    *)
LEMMA TaskCancelledStep ==
  ASSUME Core, NEW j \in Jobs, TaskCancelled(j)
  PROVE  Core'
<1> USE DEF Core
<1>m. Moves(j, "done")
  BY WakeMoves DEF TaskCancelled, Relinquish, Eligible, TypeOK, PCs
<1>s. SlotsConserved' /\ semValue' \in Nat
  BY WakeSlots DEF TaskCancelled, Relinquish, Eligible, Holding, TypeOK, PCs
<1>0. Finalize(j, "cancelled", "none")
  BY DEF TaskCancelled, Relinquish, FinalizeCancelled
<1>f. FinalizeTyped
  BY <1>0, FinalizeTypes DEF TerminalStates
<1>h. Retention(j)
  BY HistoryKept
  DEF TaskCancelled, Relinquish, FinalizeCancelled, LiveInv, HistoryFinished
<1>1. TypeOK'
  BY <1>m, <1>s, <1>f, <1>h, ChatOfJob
  DEF TaskCancelled, Relinquish, FinalizeCancelled, TypeOK, LeaveQueue, Moves, PCs,
      FinalizeTyped, Retention
<1>2. PcInv'
  BY <1>m, <1>0
  DEF TaskCancelled, Relinquish, FinalizeCancelled, Finalize, PcInv, TypeOK, Moves, PCs
<1>3. CancelInv'
  BY <1>m DEF TaskCancelled, Relinquish, FinalizeCancelled, CancelInv, TypeOK, Moves, PCs
<1>4. CallerInv'
  BY <1>m, CallerKept DEF TaskCancelled, Relinquish, FinalizeCancelled, Moves, PCs
<1>5. ThreadInv'
  BY <1>m
  DEF TaskCancelled, Relinquish, FinalizeCancelled, ThreadInv, CancelInv, Moves, PCs
<1>6. LiveInv'
  BY <1>0, <1>h, FinalizeLive DEF TerminalStates, Retention
<1>7. ShutdownInv'
  BY <1>m, <1>0
  DEF TaskCancelled, Relinquish, FinalizeCancelled, Finalize, ShutdownInv, Active,
      ActiveStates, Moves, PCs
<1>8. OutcomeInv'
  BY <1>m, <1>0, <1>f
  DEF TaskCancelled, Relinquish, FinalizeCancelled, Finalize, OutcomeInv, ActiveStates,
      Moves, PCs, FinalizeTyped
<1>10. FinalizedOnce'
  BY <1>0, <1>f
  DEF TaskCancelled, Relinquish, FinalizeCancelled, Finalize, FinalizedOnce, PcInv,
      CancelInv, ShutdownInv, OutcomeInv, Active, ActiveStates, FinalizeTyped
<1>11. CancelDiscardsResult'
  BY <1>0 DEF TaskCancelled, Relinquish, FinalizeCancelled, Finalize, CancelDiscardsResult
<1> QED  BY <1>1, <1>2, <1>3, <1>4, <1>5, <1>6, <1>7, <1>8, <1>s, <1>10, <1>11

(* submit() of a live request.                                             *)
LEMMA SubmitDuplicateStep ==
  ASSUME Core, NEW i \in Chats \X Products, SubmitDuplicate(i)
  PROVE  Core'
<1> USE DEF Core, SubmitDuplicate, registryVars, loopVars
<1>1. TypeOK'  BY DEF TypeOK, Existing
<1>2. PcInv' /\ CancelInv' /\ CallerInv' /\ ThreadInv'
  BY DEF PcInv, CancelInv, CallerInv, ThreadInv
<1>3. LiveInv' /\ ShutdownInv'
  BY DEF LiveInv, OneActivePerIdentity, HistoryFinished, ShutdownInv, Active
<1>4. OutcomeInv' /\ SlotsConserved' /\ FinalizedOnce' /\ CancelDiscardsResult'
  BY DEF OutcomeInv, SlotsConserved, Holding, FinalizedOnce, CancelDiscardsResult, Active
<1> QED  BY <1>1, <1>2, <1>3, <1>4

(* cancel_chat_jobs between two awaits.                                    *)
LEMMA WalkEffect ==
  ASSUME Core, NEW c \in Callers, NEW S \in SUBSET Jobs, CancelWalk(c, S)
  PROVE  Walked(c)
<1> DEFINE running == {k \in S : state[k] = "running"}
           queued  == {k \in S : state[k] = "queued"}
<1>1. CASE /\ queued = {}
           /\ RequestCancel(running)
           /\ caller' = [caller EXCEPT ![c] = Idle]
           /\ UNCHANGED mustCancel
  BY <1>1, JobAssumption
  DEF Core, Walked, RequestCancel, Idle, TypeOK, Active, ActiveStates, JobAssumption
<1>2. ASSUME NEW q \in queued,
             RequestCancel(running \cup {q}), RequestTaskCancel({q} \cap tasks),
             caller' = [caller EXCEPT ![c] = [cur |-> q, rest |-> queued \ {q}]]
      PROVE  Walked(c)
  BY <1>2
  DEF Core, Walked, RequestCancel, RequestTaskCancel, TypeOK, LiveInv, Active,
      ActiveStates
<1> QED  BY <1>1, <1>2 DEF CancelWalk

(* The first stretch of cancel_chat_jobs.                                  *)
LEMMA CancelChatJobsStep ==
  ASSUME Core, NEW c \in Callers, NEW chat \in Chats, CancelChatJobs(c, chat)
  PROVE  Core'
<1> USE DEF Core, CancelChatJobs, registryVars
<1>0. Walked(c)
  <2>1. chatActive[chat] \cap jobs \in SUBSET Jobs  BY DEF TypeOK
  <2> QED  BY <2>1, WalkEffect
<1>1. TypeOK'  BY <1>0 DEF TypeOK, Walked
<1>2. PcInv' /\ ThreadInv'  BY DEF PcInv, ThreadInv
<1>3. CancelInv'  BY <1>0 DEF CancelInv, PcInv, Walked
<1>4. CallerInv'  BY <1>0 DEF CallerInv, Walked
<1>5. LiveInv'  BY DEF LiveInv, OneActivePerIdentity, HistoryFinished, Active
<1>6. ShutdownInv'  BY <1>0 DEF ShutdownInv, Active, Walked
<1>7. OutcomeInv' /\ SlotsConserved' /\ FinalizedOnce'
  BY DEF OutcomeInv, SlotsConserved, Holding, FinalizedOnce, Active
<1>8. CancelDiscardsResult'
  BY <1>0 DEF CancelDiscardsResult, Active, ActiveStates, Walked
<1> QED  BY <1>1, <1>2, <1>3, <1>4, <1>5, <1>6, <1>7, <1>8

(* _finalize called by cancel_chat_jobs or shutdown().                     *)
LEMMA FinalizedFromOutside ==
  ASSUME Core, NEW j \in Jobs, Active(j), pc[j] = "done", FinalizeCancelled(j),
         shutdown' = shutdown, accepting' = accepting, pc' = pc, thread' = thread,
         \A k \in Jobs : mustCancel[k] => mustCancel'[k]
  PROVE  FinalizedOutside(j)
<1> USE DEF Core
<1>0. Finalize(j, "cancelled", "none") /\ RecordTerminalHistory(j)
  BY DEF FinalizeCancelled
<1>1. FinalizeTyped
  BY <1>0, FinalizeTypes DEF TerminalStates
<1>2. Retention(j)
  BY <1>0, HistoryKept DEF LiveInv
<1>3. PcInv'
  BY <1>0 DEF PcInv, Finalize, Unlisted, IdentityReleased, LatestSuccess
<1>4. LiveInv'
  BY <1>0, <1>2, FinalizeLive DEF TerminalStates
<1>5. ThreadInv'
  BY DEF ThreadInv
<1>6. ShutdownInv'
  BY <1>0 DEF ShutdownInv, Finalize, Active, ActiveStates
<1>7. OutcomeInv' /\ FinalizedOnce'
  BY <1>0, <1>1 DEF OutcomeInv, FinalizedOnce, Finalize, TypeOK, Active, ActiveStates
<1> QED
  BY <1>0, <1>1, <1>2, <1>3, <1>4, <1>5, <1>6, <1>7 DEF FinalizedOutside, Finalize

(* cancel_chat_jobs after sleep(0).                                        *)
LEMMA CancelResumesStep ==
  ASSUME Core, NEW c \in Callers, CancelResumes(c)
  PROVE  Core'
<1> DEFINE q == caller[c].cur
<1> USE DEF Core
<1>0. Walked(c)
  <2>1. caller[c].rest \cap jobs \in SUBSET Jobs  BY DEF TypeOK
  <2> QED  BY <2>1, WalkEffect DEF CancelResumes, SleepOver, NeverRan
<1>1. /\ q \in Jobs /\ pc[q] = "done"
      /\ UNCHANGED <<accepting, semValue, ahead, pc, thread, shutdown>>
  BY DEF CancelResumes, SleepOver, NeverRan, CallerInv, TypeOK
<1>2. CancelInv' /\ CallerInv' /\ SlotsConserved'
  BY <1>0, <1>1 DEF CancelInv, CallerInv, PcInv, SlotsConserved, Holding, Walked
<1>3. CASE Active(q)
  <2>1. FinalizeCancelled(q)  BY <1>3 DEF CancelResumes, SleepOver, NeverRan
  <2>2. FinalizedOutside(q)
    BY <1>0, <1>1, <1>3, <2>1, FinalizedFromOutside DEF Walked
  <2>3. TypeOK'
    BY <1>0, <1>1, <2>2 DEF TypeOK, Walked, FinalizedOutside, FinalizeTyped, Retention
  <2>4. CancelDiscardsResult'
    BY <1>0, <1>1, <2>2
    DEF CancelDiscardsResult, Active, ActiveStates, Walked, FinalizedOutside
  <2> QED  BY <1>2, <2>2, <2>3, <2>4 DEF FinalizedOutside
<1>4. CASE ~Active(q)
  <2>1. UNCHANGED <<registryVars, state, result, lastSuccess, outcomes, joined>>
    BY <1>4 DEF CancelResumes, SleepOver, NeverRan
  <2>2. TypeOK'  BY <1>0, <1>1, <2>1 DEF TypeOK, registryVars, Walked
  <2>3. PcInv' /\ ThreadInv'  BY <1>1, <2>1 DEF PcInv, ThreadInv
  <2>4. LiveInv'
    BY <2>1 DEF LiveInv, OneActivePerIdentity, HistoryFinished, Active, registryVars
  <2>5. ShutdownInv'  BY <1>0, <1>1, <2>1 DEF ShutdownInv, Active, Walked
  <2>6. OutcomeInv' /\ FinalizedOnce'
    BY <1>1, <2>1 DEF OutcomeInv, FinalizedOnce, Active
  <2>7. CancelDiscardsResult'
    BY <1>0, <2>1 DEF CancelDiscardsResult, Active, ActiveStates, Walked
  <2> QED  BY <1>2, <2>2, <2>3, <2>4, <2>5, <2>6, <2>7
<1> QED  BY <1>3, <1>4

(* shutdown() up to its wait.                                              *)
LEMMA ShutdownBeginsStep ==
  ASSUME Core, ShutdownBegins
  PROVE  Core'
<1> USE DEF Core, ShutdownBegins, registryVars
<1>1. TypeOK'  BY DEF TypeOK, RequestCancel, RequestTaskCancel
<1>2. PcInv'  BY DEF PcInv
<1>3. CancelInv'
  BY DEF CancelInv, PcInv, TypeOK, RequestTaskCancel
<1>4. CallerInv'
  BY DEF CallerInv, TypeOK, RequestTaskCancel
<1>5. ThreadInv'  BY DEF ThreadInv
<1>6. LiveInv'  BY DEF LiveInv, OneActivePerIdentity, HistoryFinished, Active
<1>7. ShutdownInv'
  BY DEF ShutdownInv, LiveInv, TypeOK, Active, ActiveStates
<1>8. OutcomeInv' /\ SlotsConserved'
  BY DEF OutcomeInv, SlotsConserved, Holding
<1>9. FinalizedOnce'
  BY DEF FinalizedOnce, Active
<1>10. CancelDiscardsResult'
  BY DEF CancelDiscardsResult, TypeOK, RequestCancel
<1> QED  BY <1>1, <1>2, <1>3, <1>4, <1>5, <1>6, <1>7, <1>8, <1>9, <1>10

(* shutdown()'s timeout.                                                   *)
LEMMA ShutdownExpiresStep ==
  ASSUME Core, ShutdownExpires
  PROVE  Core'
<1> USE DEF Core, ShutdownExpires, registryVars, jobVars
<1>1. TypeOK'  BY DEF TypeOK, RequestTaskCancel
<1>2. PcInv'  BY DEF PcInv
<1>3. CancelInv'
  BY DEF CancelInv, PcInv, TypeOK, RequestTaskCancel, ShutdownInv
<1>4. CallerInv'
  BY DEF CallerInv, TypeOK, RequestTaskCancel
<1>5. ThreadInv'  BY DEF ThreadInv, TypeOK
<1>6. LiveInv'  BY DEF LiveInv, OneActivePerIdentity, HistoryFinished, Active
<1>7. ShutdownInv'
  BY DEF ShutdownInv, TypeOK, Active, RequestTaskCancel
<1>8. OutcomeInv' /\ SlotsConserved' /\ CancelDiscardsResult'
  BY DEF OutcomeInv, SlotsConserved, Holding, CancelDiscardsResult
<1>9. FinalizedOnce'
  BY DEF FinalizedOnce, Active, TypeOK
<1> QED  BY <1>1, <1>2, <1>3, <1>4, <1>5, <1>6, <1>7, <1>8, <1>9

(* shutdown()'s finally clause, one job.                                   *)
LEMMA ShutdownFinalizesStep ==
  ASSUME Core, NEW j \in Jobs, ShutdownFinalizes(j)
  PROVE  Core'
<1> USE DEF Core
<1>0. /\ Active(j) /\ pc[j] = "done" /\ FinalizeCancelled(j)
      /\ UNCHANGED <<accepting, cancelRequested, semValue, ahead, pc, mustCancel, thread,
                     caller, shutdown>>
  BY DEF ShutdownFinalizes, Drained, ShutdownInv, loopVars
<1>1. FinalizedOutside(j)
  BY <1>0, FinalizedFromOutside
<1>2. TypeOK'
  BY <1>0, <1>1 DEF TypeOK, FinalizedOutside, FinalizeTyped, Retention
<1>3. CancelInv' /\ CallerInv' /\ SlotsConserved'
  BY <1>0 DEF CancelInv, CallerInv, SlotsConserved, Holding
<1>4. CancelDiscardsResult'
  BY <1>0, <1>1 DEF CancelDiscardsResult, TypeOK, FinalizedOutside
<1> QED  BY <1>1, <1>2, <1>3, <1>4 DEF FinalizedOutside

(* shutdown() returns.                                                     *)
LEMMA ShutdownReturnsStep ==
  ASSUME Core, ShutdownReturns
  PROVE  Core'
<1> USE DEF Core, ShutdownReturns, registryVars, jobVars, loopVars
<1>1. TypeOK'  BY DEF TypeOK
<1>2. PcInv' /\ CallerInv' /\ OutcomeInv' /\ SlotsConserved' /\ CancelDiscardsResult'
  BY DEF PcInv, CallerInv, OutcomeInv, SlotsConserved, Holding, CancelDiscardsResult
<1>3. CancelInv'
  BY DEF CancelInv, Drained, ShutdownInv, PcInv, TypeOK
<1>4. ThreadInv'  BY DEF ThreadInv, TypeOK
<1>5. LiveInv'  BY DEF LiveInv, OneActivePerIdentity, HistoryFinished, Active
<1>6. ShutdownInv'
  BY DEF ShutdownInv, Drained, PcInv, TypeOK, Active, ActiveStates
<1>7. FinalizedOnce'  BY DEF FinalizedOnce, Active, TypeOK
<1> QED  BY <1>1, <1>2, <1>3, <1>4, <1>5, <1>6, <1>7

(* The invariant holds initially.                                          *)
LEMMA CoreInit == Init => Core /\ ConcurrencyBound
<1> SUFFICES ASSUME Init PROVE Core /\ ConcurrencyBound
  OBVIOUS
<1> USE DEF Init
<1>1. TypeOK  BY JobAssumption DEF TypeOK, Idle, JobAssumption
<1>2. PcInv /\ CancelInv /\ CallerInv /\ ThreadInv
  BY JobAssumption DEF PcInv, CancelInv, CallerInv, ThreadInv, Idle, JobAssumption
<1>3. LiveInv
  BY ChatOfJob, JobAssumption
  DEF LiveInv, OneActivePerIdentity, HistoryFinished, Active, ActiveStates, JobAssumption
<1>4. ShutdownInv /\ OutcomeInv /\ FinalizedOnce /\ CancelDiscardsResult
  BY DEF ShutdownInv, OutcomeInv, FinalizedOnce, CancelDiscardsResult, Active,
         ActiveStates
<1>5. SlotsConserved
  <2>1. Holding = {}  BY DEF Holding
  <2> QED  BY <2>1, FS_EmptySet, JobAssumption DEF SlotsConserved, JobAssumption
<1>6. ConcurrencyBound
  <2> DEFINE R == {j \in Jobs : thread[j] = "running"}
  <2>1. R = {}  OBVIOUS
  <2>2. Cardinality(R) = 0  BY <2>1, FS_EmptySet
  <2> HIDE DEF R, Init
  <2>3. Cardinality(R) <= MaxConcurrentJobs
    BY <2>2, JobAssumption DEF JobAssumption
  <2> QED  BY <2>3 DEF ConcurrencyBound, R
<1> QED  BY <1>1, <1>2, <1>3, <1>4, <1>5, <1>6 DEF Core

(* Every step keeps Core.                                                  *)
LEMMA CoreStep == Core /\ [Next]_vars => Core'
<1> SUFFICES ASSUME Core, [Next]_vars PROVE Core'
  OBVIOUS
<1>1. ASSUME NEW j \in Jobs, SubmitNew(j) \/ TaskStep(j) \/ ThreadEnds(j)
      PROVE  Core'
  BY <1>1, SubmitNewStep, ThreadEndsStep, TaskNeverEnteredStep, TaskQueuesStep,
     TaskAcquiresStep, TaskResumesStep, TaskVerifiesStep, TaskFailsStep, TaskDiscardsStep,
     TaskReportsStep, TaskEndsStep, TaskCancelledStep
  DEF TaskStep
<1>2. ASSUME NEW i \in Chats \X Products, SubmitDuplicate(i) PROVE Core'
  BY <1>2, SubmitDuplicateStep
<1>3. ASSUME NEW c \in Callers, NEW chat \in Chats, CancelChatJobs(c, chat) PROVE Core'
  BY <1>3, CancelChatJobsStep
<1>4. ASSUME NEW c \in Callers, CancelResumes(c) PROVE Core'
  BY <1>4, CancelResumesStep
<1>5. CASE ShutdownBegins \/ ShutdownStep
  BY <1>5, ShutdownBeginsStep, ShutdownExpiresStep, ShutdownFinalizesStep,
     ShutdownReturnsStep
  DEF ShutdownStep
<1>6. CASE Stopped \/ UNCHANGED vars
  <2> USE <1>6 DEF Core, Stopped, vars, registryVars, jobVars, loopVars
  <2>1. TypeOK'  BY DEF TypeOK
  <2>2. PcInv' /\ CancelInv' /\ CallerInv' /\ ThreadInv'
    BY DEF PcInv, CancelInv, CallerInv, ThreadInv
  <2>3. LiveInv' /\ ShutdownInv'
    BY DEF LiveInv, OneActivePerIdentity, HistoryFinished, ShutdownInv, Active
  <2>4. OutcomeInv' /\ SlotsConserved' /\ FinalizedOnce' /\ CancelDiscardsResult'
    BY DEF OutcomeInv, SlotsConserved, Holding, FinalizedOnce, CancelDiscardsResult,
           Active
  <2> QED  BY <2>1, <2>2, <2>3, <2>4
<1> QED  BY <1>1, <1>2, <1>3, <1>4, <1>5, <1>6 DEF Next

(* Who runs a verification holds a slot, until shutdown's timeout orphans   *)
(* threads; from then on no verification begins.                            *)
LEMMA ThreadsStart ==
  ASSUME Core, [Next]_vars, NEW k \in Jobs, thread'[k] = "running", thread[k] # "running"
  PROVE  shutdown'.phase \in {"up", "waiting"}
<1> USE DEF Core
<1>1. PICK j \in Jobs : TaskVerifies(j)
  <2>1. ASSUME NEW j \in Jobs, ThreadEnds(j) PROVE FALSE
    BY <2>1 DEF ThreadEnds, TypeOK
  <2>2. thread' # thread  OBVIOUS
  <2>3. ASSUME NEW j \in Jobs, SubmitNew(j) \/ TaskStep(j) PROVE TaskVerifies(j)
    BY <2>2, <2>3
    DEF TaskStep, SubmitNew, TaskNeverEntered, TaskQueues, SlotFree, TaskAcquires,
        SlotFree, BecomeRunning, TaskResumes, TaskFails, TaskDiscards, Wanted,
        TaskReports, Wanted, TaskEnds, TaskCancelled, Relinquish
  <2>4. ASSUME NEW i \in Chats \X Products, SubmitDuplicate(i) PROVE FALSE
    BY <2>2, <2>4 DEF SubmitDuplicate, loopVars
  <2>5. ASSUME NEW c \in Callers, CancelResumes(c) PROVE FALSE
    BY <2>2, <2>5 DEF CancelResumes, SleepOver, NeverRan
  <2>6. ASSUME NEW c \in Callers, NEW chat \in Chats, CancelChatJobs(c, chat) PROVE FALSE
    BY <2>2, <2>6 DEF CancelChatJobs
  <2>7. CASE ShutdownBegins \/ ShutdownStep \/ Stopped \/ UNCHANGED vars
    BY <2>2, <2>7
    DEF ShutdownBegins, ShutdownStep, ShutdownExpires, ShutdownFinalizes, ShutdownReturns,
        Stopped, vars, loopVars
  <2> QED  BY <2>1, <2>3, <2>4, <2>5, <2>6, <2>7 DEF Next
<1>2. state[j] = "running" /\ ~mustCancel[j] /\ pc[j] # "done" /\ shutdown' = shutdown
  BY <1>1 DEF TaskVerifies, PcInv
<1> QED  BY <1>2 DEF ShutdownInv, TypeOK, Active, ActiveStates

(* Running threads are among the slot holders before the timeout, and can  *)
(* only become fewer after it.                                             *)
LEMMA ConcurrencyStep ==
  Core /\ ConcurrencyBound /\ [Next]_vars => ConcurrencyBound'
<1> SUFFICES ASSUME Core, ConcurrencyBound, [Next]_vars PROVE ConcurrencyBound'
  OBVIOUS
<1> DEFINE R == {j \in Jobs : thread[j] = "running"}
<1>1. Core'
  BY CoreStep
<1>2. CASE shutdown'.phase \in {"up", "waiting"}
  <2>1. R' \subseteq Holding' /\ R' \in SUBSET Jobs /\ Holding' \in SUBSET Jobs
    BY <1>1, <1>2 DEF Core, ThreadInv, Holding
  <2>2. /\ Cardinality(R') <= Cardinality(Holding')
        /\ Cardinality(R') \in Nat /\ Cardinality(Holding') \in Nat
    BY <2>1, JobSetsFinite
  <2>3. semValue' \in Nat /\ semValue' + Cardinality(Holding') = MaxConcurrentJobs
    BY <1>1 DEF Core, TypeOK, SlotsConserved
  <2>4. Cardinality(R') <= MaxConcurrentJobs
    BY <2>2, <2>3
  <2> QED  BY <2>4 DEF ConcurrencyBound
<1>3. CASE shutdown'.phase \notin {"up", "waiting"}
  <2>1. R' \subseteq R /\ R' \in SUBSET Jobs /\ R \in SUBSET Jobs
    BY <1>3, ThreadsStart
  <2>2. /\ Cardinality(R') <= Cardinality(R)
        /\ Cardinality(R') \in Nat /\ Cardinality(R) \in Nat
    BY <2>1, JobSetsFinite
  <2>3. Cardinality(R) <= MaxConcurrentJobs /\ MaxConcurrentJobs \in Nat
    BY JobAssumption DEF ConcurrencyBound, JobAssumption
  <2>4. Cardinality(R') <= MaxConcurrentJobs
    BY <2>2, <2>3
  <2> QED  BY <2>4 DEF ConcurrencyBound
<1> QED  BY <1>2, <1>3

(* The inductive invariant.                                                *)
THEOREM Invariance == Spec => []Inv
<1>1. Init => Inv
  BY CoreInit DEF Inv
<1>2. Inv /\ [Next]_vars => Inv'
  BY CoreStep, ConcurrencyStep DEF Inv
<1> QED  BY <1>1, <1>2, PTL DEF Spec

(* JobManager never leaves the types its operations assume.                 *)
THEOREM TypeCorrect == Spec => []TypeOK
<1>1. Inv => TypeOK  BY DEF Inv, Core
<1> QED  BY <1>1, Invariance, PTL

(* No sequence of submissions, cancellations, failures and shutdown makes   *)
(* more than MaxConcurrentJobs verifications run at once.                   *)
THEOREM Concurrency == Spec => []ConcurrencyBound
<1>1. Inv => ConcurrencyBound  BY DEF Inv
<1> QED  BY <1>1, Invariance, PTL

(* No slot of the semaphore is leaked or released twice.                    *)
THEOREM SlotConservation == Spec => []SlotsConserved
<1>1. Inv => SlotsConserved  BY DEF Inv, Core
<1> QED  BY <1>1, Invariance, PTL

(* A chat never has two live jobs for one request.                          *)
THEOREM Deduplication == Spec => []OneActivePerIdentity
<1>1. Inv => OneActivePerIdentity  BY DEF Inv, Core, LiveInv
<1> QED  BY <1>1, Invariance, PTL

(* A job is finalized once, unless shutdown ran out of time.                *)
THEOREM SingleFinalization == Spec => []FinalizedOnce
<1>1. Inv => FinalizedOnce  BY DEF Inv, Core
<1> QED  BY <1>1, Invariance, PTL

(* What the user cancelled is never reported as completed.                  *)
THEOREM CancelledNeverCompletes == Spec => []CancelDiscardsResult
<1>1. Inv => CancelDiscardsResult  BY DEF Inv, Core
<1> QED  BY <1>1, Invariance, PTL

-----------------------------------------------------------------------------
(* A step that neither frees a slot nor adds a live waiter loses no wake-up.*)
LEMMA WakeupKept ==
  ASSUME NoLostWakeup, semValue' = semValue, Eligible' \subseteq Eligible,
         \A k \in Jobs : pc[k] = "granted" => pc'[k] = "granted"
  PROVE  NoLostWakeup'
BY DEF NoLostWakeup

(* A step that may free a slot hands it to a live waiter if there is one.   *)
LEMMA WakeupHandedOn ==
  ASSUME TypeOK, NEW j \in Jobs, j \notin Eligible, NEW p \in {"starting", "done"},
         NEW freed \in {0, 1}, NEW n \in Nat, n = 0 => semValue + freed = 0,
         Wake(j, p, freed, n), \A k \in Jobs \ {j} : mustCancel'[k] = mustCancel[k]
  PROVE  NoLostWakeup'
<1> SUFFICES ASSUME semValue' > 0, Eligible' # {} PROVE \E k \in Jobs : pc'[k] = "granted"
  BY DEF NoLostWakeup
<1> PICK G \in Grants(n) :
      /\ pc' = [k \in Jobs |-> IF k \in G THEN "granted"
                               ELSE IF k = j THEN p ELSE pc[k]]
      /\ semValue' = (semValue + freed) - Cardinality(G)
  BY DEF Wake
<1>1. Eligible' \subseteq Eligible
  BY DEF Eligible
<1>2. Eligible \in SUBSET Jobs /\ G \in SUBSET Eligible /\ G \in SUBSET Jobs
  BY DEF Eligible, Grants
<1>3. /\ IsFiniteSet(Eligible) /\ IsFiniteSet(G)
      /\ Cardinality(Eligible) \in Nat /\ Cardinality(G) \in Nat
  BY <1>2, JobSetsFinite
<1>4. Cardinality(Eligible) # 0
  BY <1>1, <1>3, FS_EmptySet
<1>5. CASE n = 0
  <2>1. semValue' <= 0
    BY <1>3, <1>5 DEF TypeOK
  <2> QED  BY <2>1, <1>3 DEF TypeOK
<1>6. CASE n # 0
  <2>1. Cardinality(G) # 0
    BY <1>3, <1>4, <1>6 DEF Grants
  <2>2. G # {}
    BY <2>1, FS_EmptySet
  <2> QED  BY <2>2, <1>2
<1> QED  BY <1>5, <1>6

(* No step loses a wake-up.                                                 *)
LEMMA WakeupStep == Core /\ NoLostWakeup /\ [Next]_vars => NoLostWakeup'
<1> SUFFICES ASSUME Core, NoLostWakeup, [Next]_vars PROVE NoLostWakeup'
  OBVIOUS
<1> USE DEF Core
<1>1. ASSUME NEW j \in Jobs,
             SubmitNew(j) \/ TaskNeverEntered(j) \/ TaskVerifies(j) \/ TaskFails(j)
             \/ TaskReports(j) \/ ThreadEnds(j)
      PROVE  NoLostWakeup'
  <2>1. semValue' = semValue
    BY <1>1
    DEF SubmitNew, TaskNeverEntered, TaskVerifies, TaskFails, TaskReports, ThreadEnds,
        MoveTo
  <2>2. Eligible' \subseteq Eligible /\ \A k \in Jobs : pc[k] = "granted" => pc'[k] = "granted"
    BY <1>1
    DEF SubmitNew, TaskNeverEntered, TaskVerifies, TaskFails, TaskReports, ThreadEnds,
        MoveTo, Eligible, TypeOK, PcInv
  <2> QED  BY <2>1, <2>2, WakeupKept
<1>2. ASSUME NEW j \in Jobs, TaskQueues(j) PROVE NoLostWakeup'
  <2>1. semValue > 0 => \E k \in Jobs : pc[k] = "granted"
    BY <1>2 DEF TaskQueues, SlotFree, Waiters, NoLostWakeup, TypeOK
  <2>2. semValue' = semValue /\ \A k \in Jobs : pc[k] = "granted" => pc'[k] = "granted"
    BY <1>2 DEF TaskQueues, MoveTo, TypeOK
  <2> QED  BY <2>1, <2>2 DEF NoLostWakeup
<1>3. ASSUME NEW j \in Jobs, TaskAcquires(j) PROVE NoLostWakeup'
  <2>1. Eligible' = {}
    BY <1>3 DEF TaskAcquires, BecomeRunning, SlotFree, Waiters, Eligible
  <2> QED  BY <2>1 DEF NoLostWakeup
<1>4. ASSUME NEW j \in Jobs, TaskResumes(j) PROVE NoLostWakeup'
  <2>1. Wake(j, "starting", 0, semValue) /\ j \notin Eligible /\ mustCancel' = mustCancel
    BY <1>4 DEF TaskResumes, BecomeRunning, Eligible
  <2> QED  BY <2>1, WakeupHandedOn DEF TypeOK
<1>5. ASSUME NEW j \in Jobs, TaskDiscards(j) \/ TaskEnds(j) PROVE NoLostWakeup'
  <2>1. Wake(j, "done", 1, 1) /\ j \notin Eligible /\ mustCancel' = mustCancel
    BY <1>5 DEF TaskDiscards, TaskEnds, Eligible
  <2> QED  BY <2>1, WakeupHandedOn
<1>6. ASSUME NEW j \in Jobs, TaskCancelled(j) PROVE NoLostWakeup'
  <2>1. /\ j \notin Eligible
        /\ \A k \in Jobs \ {j} : mustCancel'[k] = mustCancel[k]
    BY <1>6 DEF TaskCancelled, Eligible, TypeOK
  <2>2. CASE Wake(j, "done", 0, semValue)
    BY <2>1, <2>2, WakeupHandedOn DEF TypeOK
  <2>3. CASE Wake(j, "done", 1, semValue + 1)
    <3>1. semValue + 1 \in Nat /\ semValue + 1 # 0  BY DEF TypeOK
    <3> QED  BY <2>1, <2>3, <3>1, WakeupHandedOn
  <2>4. CASE Wake(j, "done", 1, 1)
    BY <2>1, <2>4, WakeupHandedOn
  <2> QED  BY <1>6, <2>2, <2>3, <2>4 DEF TaskCancelled, Relinquish
<1>7. ASSUME NEW c \in Callers,
             CancelResumes(c) \/ \E chat \in Chats : CancelChatJobs(c, chat)
      PROVE  NoLostWakeup'
  <2>1. PICK S \in SUBSET Jobs : CancelWalk(c, S)
    <3>1. caller[c].rest \cap jobs \in SUBSET Jobs
          /\ \A chat \in Chats : chatActive[chat] \cap jobs \in SUBSET Jobs
      BY DEF TypeOK
    <3> QED  BY <1>7, <3>1 DEF CancelResumes, CancelChatJobs
  <2>2. \A k \in Jobs : mustCancel[k] => mustCancel'[k]
    BY <2>1, WalkEffect DEF Walked
  <2>3. UNCHANGED <<semValue, pc>>
    BY <1>7 DEF CancelResumes, CancelChatJobs
  <2> QED  BY <2>2, <2>3, WakeupKept DEF Eligible
<1>8. CASE \/ ShutdownBegins \/ ShutdownStep \/ Stopped \/ UNCHANGED vars
           \/ \E i \in Chats \X Products : SubmitDuplicate(i)
  <2>1. UNCHANGED <<semValue, pc>> /\ \A k \in Jobs : mustCancel[k] => mustCancel'[k]
    BY <1>8
    DEF ShutdownBegins, ShutdownStep, ShutdownExpires, ShutdownFinalizes, ShutdownReturns,
        Stopped, SubmitDuplicate, vars, loopVars, RequestTaskCancel
  <2> QED  BY <2>1, WakeupKept DEF Eligible
<1> QED
  BY <1>1, <1>2, <1>3, <1>4, <1>5, <1>6, <1>7, <1>8 DEF Next, TaskStep

(* A free slot is never left idle while a live job waits for it.            *)
THEOREM WakeupsNotLost == Spec => []NoLostWakeup
<1>1. Init => NoLostWakeup
  BY DEF Init, NoLostWakeup, Eligible
<1>2. Inv /\ NoLostWakeup /\ [Next]_vars => NoLostWakeup'
  BY WakeupStep DEF Inv
<1> QED  BY <1>1, <1>2, Invariance, PTL DEF Spec

-----------------------------------------------------------------------------
(* A job that begins finds fewer than MaxConcurrentJobs running ones,      *)
(* because it holds one of the slots.                                      *)
LEMMA BeginRoom ==
  ASSUME Core, Core', NEW j \in Jobs, state[j] = "queued",
         state' = [state EXCEPT ![j] = "running"],
         accepting' = accepting
  PROVE  Contract!Begin(j)
<1> USE DEF Core
<1> DEFINE R == {k \in Jobs : state[k] = "running"}
<1>1. R' = R \cup {j} /\ j \notin R
  BY DEF TypeOK
<1>2. R' \subseteq Holding' /\ R' \in SUBSET Jobs /\ R \in SUBSET Jobs /\ Holding' \in SUBSET Jobs
  BY DEF PcInv, Holding
<1>3. /\ Cardinality(R') <= Cardinality(Holding') /\ IsFiniteSet(R)
      /\ Cardinality(R) \in Nat /\ Cardinality(R') \in Nat /\ Cardinality(Holding') \in Nat
  BY <1>2, JobSetsFinite
<1>4. Cardinality(R') = Cardinality(R) + 1
  BY <1>1, <1>3, FS_AddElement
<1>5. semValue' \in Nat /\ semValue' + Cardinality(Holding') = MaxConcurrentJobs
      /\ MaxConcurrentJobs \in Nat
  BY JobAssumption DEF TypeOK, SlotsConserved, JobAssumption
<1>6. Cardinality(R) < MaxConcurrentJobs
  BY <1>3, <1>4, <1>5
<1>7. Contract!Cardinality(R) = Cardinality(R)
  BY DEF Contract!Cardinality, Cardinality
<1>8. Contract!Cardinality(Contract!Running) < MaxConcurrentJobs
  BY <1>6, <1>7 DEF Contract!Running
<1> QED  BY <1>8 DEF Contract!Begin

(* Every step of JobManager is a step of the contract or a stutter.        *)
LEMMA ContractStep ==
  ASSUME Core, Core', [Next]_vars
  PROVE  [Contract!Next]_(Contract!vars)
<1> USE DEF Core, Contract!vars
<1>1. ASSUME NEW j \in Jobs, SubmitNew(j) PROVE Contract!Accept(j)
  <2>1. \A k \in Jobs : Identity(k) = Identity(j) => ~Active(k)
    BY <1>1 DEF SubmitNew, Existing, LiveInv, OneActivePerIdentity
  <2> QED
    BY <1>1, <2>1 DEF SubmitNew, Contract!Accept, Contract!Live, Active, ActiveStates
<1>2. ASSUME NEW j \in Jobs, TaskAcquires(j) \/ TaskResumes(j) PROVE Contract!Begin(j)
  BY <1>2, BeginRoom DEF TaskAcquires, SlotFree, TaskResumes, BecomeRunning, PcInv
<1>3. ASSUME NEW j \in Jobs, TaskFails(j) \/ TaskDiscards(j) \/ TaskReports(j)
      PROVE  Contract!End(j)
  BY <1>3
  DEF TaskFails, TaskDiscards, Wanted, TaskReports, Wanted, FinalizeAndNotify,
      FinalizeCancelled, Finalize, PcInv, Contract!End
<1>4. ASSUME NEW j \in Jobs, TaskCancelled(j)
      PROVE  Contract!Drop(j) \/ Contract!End(j) \/ Contract!Withdraw(j)
  BY <1>4
  DEF TaskCancelled, Relinquish, FinalizeCancelled, Finalize, PcInv, CancelInv,
      ShutdownInv, Contract!Drop, Contract!End, Contract!Withdraw
<1>5. ASSUME NEW j \in Jobs, TaskNeverEntered(j) \/ TaskQueues(j) \/ TaskVerifies(j)
             \/ TaskEnds(j) \/ ThreadEnds(j)
      PROVE  UNCHANGED <<state, accepting>>
  BY <1>5
  DEF TaskNeverEntered, TaskQueues, SlotFree, TaskVerifies, TaskEnds, ThreadEnds, jobVars
<1>6. ASSUME NEW i \in Chats \X Products, SubmitDuplicate(i)
      PROVE  UNCHANGED <<state, accepting>>
  BY <1>6 DEF SubmitDuplicate
<1>7. ASSUME NEW c \in Callers, NEW chat \in Chats, CancelChatJobs(c, chat)
      PROVE  UNCHANGED <<state, accepting>>
  BY <1>7 DEF CancelChatJobs
<1>8. ASSUME NEW c \in Callers, CancelResumes(c)
      PROVE  UNCHANGED <<state, accepting>> \/ \E j \in Jobs : Contract!Drop(j)
  <2>1. caller[c].cur \in Jobs /\ pc[caller[c].cur] = "done"
    BY <1>8 DEF CancelResumes, SleepOver, NeverRan, CallerInv, TypeOK
  <2> QED
    BY <1>8, <2>1
    DEF CancelResumes, SleepOver, NeverRan, FinalizeCancelled, Finalize, PcInv, Active,
        ActiveStates, Contract!Drop
<1>9. ASSUME NEW j \in Jobs, ShutdownFinalizes(j) PROVE Contract!Drop(j)
  BY <1>9
  DEF ShutdownFinalizes, Drained, ShutdownInv, FinalizeCancelled, Finalize, PcInv, Active,
      ActiveStates, Contract!Drop
<1>10. CASE ShutdownBegins
  BY <1>10 DEF ShutdownBegins, Contract!Next, Contract!Close
<1>11. CASE ShutdownExpires \/ ShutdownReturns \/ Stopped \/ UNCHANGED vars
  BY <1>11 DEF ShutdownExpires, ShutdownReturns, Stopped, vars, jobVars
<1> QED
  BY <1>1, <1>2, <1>3, <1>4, <1>5, <1>6, <1>7, <1>8, <1>9, <1>10, <1>11
  DEF Next, TaskStep, ShutdownStep, Contract!Next

(* JobManager implements JobContract.                                       *)
THEOREM Implementation == Spec => ImplementsContract
<1>1. Init => Contract!Init
  BY DEF Init, Contract!Init
<1>2. Inv /\ Inv' /\ [Next]_vars => [Contract!Next]_(Contract!vars)
  BY ContractStep DEF Inv
<1> QED  BY <1>1, <1>2, Invariance, PTL DEF Spec, ImplementsContract, Contract!Spec

-----------------------------------------------------------------------------
(* Retention of finished jobs                                              *)

(* Recording the end of j evicts at most one job, and that one because the  *)
(* history of its chat is full; the history then names j and who else it    *)
(* named.                                                                   *)
LEMMA RecordEffect ==
  ASSUME TypeOK, RetentionInv, NEW j \in Jobs, ~Retained(j), RecordTerminalHistory(j),
         pc'[j] = "done", \A k \in Jobs : pc[k] = "done" => pc'[k] = "done"
  PROVE  \E X \in SUBSET Jobs :
           /\ jobs' = jobs \ X
           /\ \A k \in Jobs : Retained(k)' <=> (Retained(k) \/ k = j) /\ k \notin X
           /\ \A k \in X : pc'[k] = "done" /\ Len(history'[ChatOf[k]]) = HistoryLimit
           /\ \A c \in Chats : Len(history[c]) <= Len(history'[c]) /\ Len(history'[c]) <= HistoryLimit
           /\ HistoryOwn'
<1> DEFINE c == ChatOf[j]
           s == history[c]
           h == Append(s, j)
           Goal(X) ==
             /\ jobs' = jobs \ X
             /\ \A k \in Jobs : Retained(k)' <=> (Retained(k) \/ k = j) /\ k \notin X
             /\ \A k \in X : pc'[k] = "done" /\ Len(history'[ChatOf[k]]) = HistoryLimit
             /\ \A d \in Chats : Len(history[d]) <= Len(history'[d]) /\ Len(history'[d]) <= HistoryLimit
             /\ HistoryOwn'
<1> SUFFICES \E X \in SUBSET Jobs : Goal(X)
  OBVIOUS
<1> HIDE DEF Goal
<1>0. /\ s \in Seq(Jobs) /\ c \in Chats /\ HistoryLimit \in Nat /\ Len(s) \in Nat
      /\ \A d \in Chats : Len(history[d]) <= HistoryLimit /\ Len(history[d]) \in Nat
      /\ \A i \in 1 .. Len(s) : s[i] \in Jobs /\ s[i] # j /\ ChatOf[s[i]] = c /\ pc'[s[i]] = "done"
      /\ \A i, n \in 1 .. Len(s) : s[i] = s[n] => i = n
  <2>1. s \in Seq(Jobs) /\ c \in Chats /\ HistoryLimit \in Nat
    BY ChatOfJob, JobAssumption DEF TypeOK, JobAssumption
  <2>2. \A d \in Chats : Len(history[d]) <= HistoryLimit /\ Len(history[d]) \in Nat
    BY DEF RetentionInv, NoJobLeak, TypeOK
  <2>3. DOMAIN s = 1 .. Len(s) /\ \A i \in 1 .. Len(s) : s[i] \in Jobs
    BY <2>1
  <2>4. \A i \in 1 .. Len(s) : s[i] # j /\ ChatOf[s[i]] = c /\ pc[s[i]] = "done"
    BY <2>1, <2>3 DEF Retained, RetentionInv, HistoryOwn
  <2>5. \A i, n \in 1 .. Len(s) : s[i] = s[n] => i = n
    BY <2>1, <2>3 DEF RetentionInv, HistoryOwn
  <2> QED  BY <2>1, <2>2, <2>3, <2>4, <2>5
<1>1. /\ h \in Seq(Jobs) /\ Len(h) = Len(s) + 1 /\ DOMAIN h = 1 .. Len(s) + 1
      /\ \A i \in 1 .. Len(s) : h[i] = s[i]
      /\ h[Len(s) + 1] = j
  BY <1>0
<1>2. \A d \in Chats : DOMAIN history[d] = 1 .. Len(history[d])
  BY DEF TypeOK
<1> HIDE DEF h
<1>3. CASE HistoryLimit = 0
  <2>1. jobs' = jobs \ {j} /\ history' = history
    BY <1>3 DEF RecordTerminalHistory, JobsKept
  <2>2. \A k \in Jobs : ~Retained(k) /\ ~Retained(k)'
    BY <1>0, <1>2, <1>3, <2>1, ChatOfJob DEF Retained
  <2>3. HistoryOwn'
    BY <1>0, <1>2, <1>3, <2>1 DEF HistoryOwn
  <2>4. Goal({j})
    BY <1>0, <1>3, <2>1, <2>2, <2>3 DEF Goal
  <2> QED  BY <2>4
<1>4. CASE HistoryLimit # 0 /\ Len(h) <= HistoryLimit
  <2>1. jobs' = jobs \ {} /\ history' = [history EXCEPT ![c] = h]
    <3>1. ~(Len(h) > HistoryLimit)
      BY <1>0, <1>1, <1>4
    <3>2. jobs' = jobs /\ history' = [history EXCEPT ![c] = h]
      BY <1>4, <3>1 DEF RecordTerminalHistory, JobsKept, h
    <3> QED  BY <3>2
  <2>2. history'[c] = h /\ \A d \in Chats \ {c} : history'[d] = history[d]
    BY <2>1, <1>0 DEF TypeOK
  <2>3. \A k \in Jobs : Retained(k)' <=> Retained(k) \/ k = j
    <3> SUFFICES ASSUME NEW k \in Jobs PROVE Retained(k)' <=> Retained(k) \/ k = j
      OBVIOUS
    <3>1. CASE ChatOf[k] = c
      <4>1. Retained(k)' <=> \E i \in 1 .. Len(s) + 1 : h[i] = k
        BY <1>1, <2>2, <3>1 DEF Retained
      <4>2. Retained(k) <=> \E i \in 1 .. Len(s) : s[i] = k
        BY <1>0, <1>2, <3>1 DEF Retained
      <4> QED  BY <1>0, <1>1, <4>1, <4>2
    <3>2. CASE ChatOf[k] # c
      BY <2>2, <3>2, ChatOfJob DEF Retained
    <3> QED  BY <3>1, <3>2
  <2>4. HistoryOwn'
    <3> SUFFICES ASSUME NEW d \in Chats
                 PROVE  /\ \A i \in DOMAIN history'[d] : ChatOf[history'[d][i]] = d /\ pc'[history'[d][i]] = "done"
                        /\ \A i, n \in DOMAIN history'[d] : history'[d][i] = history'[d][n] => i = n
      BY DEF HistoryOwn
    <3>1. CASE d = c
      <4>1. \A i \in 1 .. Len(s) + 1 : ChatOf[h[i]] = c /\ pc'[h[i]] = "done"
        BY <1>0, <1>1
      <4>2. \A i, n \in 1 .. Len(s) + 1 : h[i] = h[n] => i = n
        BY <1>0, <1>1
      <4> QED  BY <1>1, <2>2, <3>1, <4>1, <4>2
    <3>2. CASE d # c
      <4>1. \A i \in DOMAIN history[d] : history[d][i] \in Jobs
        BY DEF TypeOK
      <4> QED  BY <2>2, <3>2, <4>1 DEF RetentionInv, HistoryOwn
    <3> QED  BY <3>1, <3>2
  <2>5. \A d \in Chats : Len(history[d]) <= Len(history'[d]) /\ Len(history'[d]) <= HistoryLimit
    BY <1>0, <1>1, <1>4, <2>2
  <2>6. Goal({})
    BY <2>1, <2>3, <2>4, <2>5 DEF Goal
  <2> QED  BY <2>6
<1>5. CASE HistoryLimit # 0 /\ ~(Len(h) <= HistoryLimit)
  <2> DEFINE t == Tail(h)
             x == s[1]
  <2>0. Len(s) = HistoryLimit /\ 1 \in 1 .. Len(s) /\ x \in Jobs /\ x # j /\ ChatOf[x] = c /\ pc'[x] = "done"
    BY <1>0, <1>1, <1>5
  <2>a. /\ t \in Seq(Jobs) /\ Len(t) = Len(s) /\ DOMAIN t = 1 .. Len(s)
        /\ \A i \in 1 .. Len(s) : t[i] = h[i + 1]
        /\ Head(h) = x
    BY <1>0, <1>1, <2>0
  <2> HIDE DEF t
  <2>1. jobs' = jobs \ {x} /\ history' = [history EXCEPT ![c] = t]
    <3>1. Len(h) > HistoryLimit
      BY <1>0, <1>1, <1>5
    <3> QED  BY <1>5, <2>a, <3>1 DEF RecordTerminalHistory, JobsKept, h, t
  <2>2. history'[c] = t /\ \A d \in Chats \ {c} : history'[d] = history[d]
    BY <2>1, <1>0 DEF TypeOK
  <2>b. \A i \in 1 .. Len(s) : t[i] = IF i = Len(s) THEN j ELSE s[i + 1]
    <3> SUFFICES ASSUME NEW i \in 1 .. Len(s) PROVE t[i] = IF i = Len(s) THEN j ELSE s[i + 1]
      OBVIOUS
    <3>1. CASE i = Len(s)
      BY <1>1, <2>a, <3>1
    <3>2. CASE i # Len(s)
      <4>1. i + 1 \in 1 .. Len(s)
        BY <1>0, <3>2
      <4> QED  BY <1>1, <2>a, <3>2, <4>1
    <3> QED  BY <3>1, <3>2
  <2>3. \A k \in Jobs : Retained(k)' <=> (Retained(k) \/ k = j) /\ k # x
    <3> SUFFICES ASSUME NEW k \in Jobs PROVE Retained(k)' <=> (Retained(k) \/ k = j) /\ k # x
      OBVIOUS
    <3>1. CASE ChatOf[k] = c
      <4>1. Retained(k)' <=> \E i \in 1 .. Len(s) : t[i] = k
        BY <2>a, <2>2, <3>1 DEF Retained
      <4>2. Retained(k) <=> \E i \in 1 .. Len(s) : s[i] = k
        BY <1>0, <1>2, <3>1 DEF Retained
      <4>3. ASSUME NEW i \in 1 .. Len(s), t[i] = k
            PROVE  ((\E n \in 1 .. Len(s) : s[n] = k) \/ k = j) /\ k # x
        <5>1. CASE i = Len(s)
          BY <1>0, <2>0, <2>b, <4>3, <5>1
        <5>2. CASE i # Len(s)
          <6>1. i + 1 \in 1 .. Len(s) /\ t[i] = s[i + 1] /\ i + 1 # 1
            BY <1>0, <2>b, <5>2
          <6> QED  BY <1>0, <2>0, <4>3, <6>1
        <5> QED  BY <5>1, <5>2
      <4>4. ASSUME NEW n \in 1 .. Len(s), s[n] = k, k # x PROVE \E i \in 1 .. Len(s) : t[i] = k
        <5>1. n - 1 \in 1 .. Len(s) /\ n - 1 # Len(s)
          BY <1>0, <4>4
        <5>2. t[n - 1] = k
          BY <1>0, <2>b, <4>4, <5>1
        <5> QED  BY <5>1, <5>2
      <4>5. Len(s) \in 1 .. Len(s) /\ t[Len(s)] = j
        BY <1>0, <2>0, <2>b
      <4> QED  BY <2>0, <4>1, <4>2, <4>3, <4>4, <4>5
    <3>2. CASE ChatOf[k] # c
      BY <2>0, <2>2, <3>2, ChatOfJob DEF Retained
    <3> QED  BY <3>1, <3>2
  <2>4. HistoryOwn'
    <3> SUFFICES ASSUME NEW d \in Chats
                 PROVE  /\ \A i \in DOMAIN history'[d] : ChatOf[history'[d][i]] = d /\ pc'[history'[d][i]] = "done"
                        /\ \A i, n \in DOMAIN history'[d] : history'[d][i] = history'[d][n] => i = n
      BY DEF HistoryOwn
    <3>1. CASE d = c
      <4>1. \A i \in 1 .. Len(s) : ChatOf[t[i]] = c /\ pc'[t[i]] = "done"
        BY <1>0, <2>b
      <4>2. \A i, n \in 1 .. Len(s) : t[i] = t[n] => i = n
        BY <1>0, <2>b
      <4> QED  BY <2>a, <2>2, <3>1, <4>1, <4>2
    <3>2. CASE d # c
      <4>1. \A i \in DOMAIN history[d] : history[d][i] \in Jobs
        BY DEF TypeOK
      <4> QED  BY <2>2, <3>2, <4>1 DEF RetentionInv, HistoryOwn
    <3> QED  BY <3>1, <3>2
  <2>5. \A d \in Chats : Len(history[d]) <= Len(history'[d]) /\ Len(history'[d]) <= HistoryLimit
    BY <1>0, <2>0, <2>a, <2>2
  <2>6. Goal({x})
    BY <2>0, <2>a, <2>1, <2>2, <2>3, <2>4, <2>5 DEF Goal
  <2> QED  BY <2>0, <2>6
<1> QED  BY <1>3, <1>4, <1>5

LEMMA RecordStep ==
  ASSUME TypeOK, TypeOK', LiveInv', RetentionInv, NEW j \in jobs, ~Retained(j), RecordTerminalHistory(j),
         pc'[j] = "done", state'[j] \in TerminalStates,
         \A k \in Jobs \ {j} : state'[k] = state[k],
         \A k \in Jobs \ {j} : pc'[k] = pc[k] \/ (pc[k] = "waiting" /\ pc'[k] = "granted")
  PROVE  RetentionInv'
<1>0. j \in Jobs /\ \A k \in Jobs : pc[k] = "done" => pc'[k] = "done"
  BY DEF TypeOK
<1>1. PICK X \in SUBSET Jobs :
        /\ jobs' = jobs \ X
        /\ \A k \in Jobs : Retained(k)' <=> (Retained(k) \/ k = j) /\ k \notin X
        /\ \A k \in X : pc'[k] = "done" /\ Len(history'[ChatOf[k]]) = HistoryLimit
        /\ \A c \in Chats : Len(history[c]) <= Len(history'[c]) /\ Len(history'[c]) <= HistoryLimit
        /\ HistoryOwn'
  BY <1>0, RecordEffect
<1>2. \A k \in Jobs : Active(k)' <=> Active(k) /\ k # j
  BY <1>0 DEF Active, ActiveStates, TerminalStates
<1>3. \A k \in Jobs : pc'[k] = "finalizing" <=> pc[k] = "finalizing" /\ k # j
  BY <1>0
<1>4. NoJobLeak'
  <2>1. \A k \in jobs' : Active(k)' \/ pc'[k] = "finalizing" \/ Retained(k)'
    BY <1>0, <1>1, <1>2, <1>3 DEF RetentionInv, NoJobLeak, TypeOK
  <2>2. \A k \in Jobs : Retained(k)' => k \in jobs' /\ state'[k] \in TerminalStates
    BY <1>0, <1>1 DEF RetentionInv, NoJobLeak
  <2>3. \A k \in tasks' : Active(k)'
    BY DEF LiveInv, TypeOK
  <2>4. \A k \in Jobs : k \in callbacks' <=> Active(k)' \/ pc'[k] = "finalizing"
    <3>1. callbacks' = callbacks \ {j}
      BY DEF RecordTerminalHistory
    <3> QED  BY <1>2, <1>3, <3>1 DEF RetentionInv, NoJobLeak
  <2> QED  BY <1>1, <2>1, <2>2, <2>3, <2>4 DEF NoJobLeak
<1>5. EvictedForRoom'
  <2> SUFFICES ASSUME NEW k \in Jobs
               PROVE  /\ pc'[k] = "finalizing" => k \in jobs'
                      /\ state'[k] # "none" =>
                           k \in jobs' \/ (pc'[k] = "done" /\ Len(history'[ChatOf[k]]) = HistoryLimit)
    BY DEF EvictedForRoom
  <2>1. CASE k \in X
    BY <1>1, <2>1
  <2>2. CASE k \notin X /\ k \in jobs
    BY <1>1, <2>2
  <2>3. CASE k \notin jobs
    <3>1. k # j /\ state'[k] = state[k]
      BY <2>3
    <3>2. pc'[k] # "finalizing"
      BY <1>3, <2>3 DEF RetentionInv, EvictedForRoom
    <3>3. ASSUME state[k] # "none" PROVE pc'[k] = "done" /\ Len(history'[ChatOf[k]]) = HistoryLimit
      <4>1. pc[k] = "done" /\ Len(history[ChatOf[k]]) = HistoryLimit
        BY <2>3, <3>3 DEF RetentionInv, EvictedForRoom
      <4>2. HistoryLimit \in Nat /\ Len(history'[ChatOf[k]]) \in Nat
        BY JobAssumption, ChatOfJob DEF TypeOK, JobAssumption
      <4> QED  BY <1>0, <1>1, <4>1, <4>2, ChatOfJob
    <3> QED  BY <3>1, <3>2, <3>3
  <2> QED  BY <2>1, <2>2, <2>3
<1> QED  BY <1>1, <1>4, <1>5 DEF RetentionInv

(* A step that neither ends, reports nor allocates a job leaves retention alone. *)
LEMMA RetentionUndisturbed ==
  ASSUME LiveInv', TypeOK, TypeOK', RetentionInv, UNCHANGED <<jobs, history, callbacks>>,
         \A k \in Jobs : /\ Active(k)' <=> Active(k)
                         /\ state'[k] = "none" <=> state[k] = "none"
                         /\ state[k] \in TerminalStates => state'[k] \in TerminalStates
                         /\ pc'[k] = "finalizing" <=> pc[k] = "finalizing"
                         /\ pc[k] = "done" => pc'[k] = "done"
  PROVE  RetentionInv'
<1>1. \A k \in Jobs : Retained(k)' <=> Retained(k)
  BY DEF Retained
<1>2. NoJobLeak'
  BY <1>1 DEF RetentionInv, NoJobLeak, LiveInv, TypeOK
<1>3. HistoryOwn'
  BY DEF RetentionInv, HistoryOwn, TypeOK
<1>4. EvictedForRoom'
  BY DEF RetentionInv, EvictedForRoom
<1> QED  BY <1>2, <1>3, <1>4 DEF RetentionInv

(* An outcome is recorded, its notification begins.                          *)
LEMMA RetentionNotified ==
  ASSUME LiveInv', TypeOK, TypeOK', RetentionInv, NEW j \in jobs,
         UNCHANGED <<jobs, history, callbacks>>,
         Active(j), state'[j] \in TerminalStates, pc[j] # "done", pc'[j] = "finalizing",
         \A k \in Jobs \ {j} : state'[k] = state[k] /\ pc'[k] = pc[k]
  PROVE  RetentionInv'
<1>0. j \in Jobs
  BY DEF TypeOK
<1>1. \A k \in Jobs : Retained(k)' <=> Retained(k)
  BY DEF Retained
<1>2. \A k \in Jobs : Active(k)' <=> Active(k) /\ k # j
  BY DEF Active, ActiveStates, TerminalStates
<1>3. NoJobLeak'
  BY <1>0, <1>1, <1>2 DEF RetentionInv, NoJobLeak, LiveInv, TypeOK
<1>4. HistoryOwn'
  BY DEF RetentionInv, HistoryOwn, TypeOK
<1>5. EvictedForRoom'
  BY <1>0 DEF RetentionInv, EvictedForRoom, Active, ActiveStates
<1> QED  BY <1>3, <1>4, <1>5 DEF RetentionInv

(* Every step keeps what is retained and why.                                *)
LEMMA RetentionStep ==
  ASSUME Core, Core', RetentionInv, [Next]_vars
  PROVE  RetentionInv'
<1> USE DEF Core
<1> DEFINE Ends(j) ==
      /\ Active(j) \/ pc[j] = "finalizing"
      /\ RecordTerminalHistory(j)
      /\ state'[j] \in TerminalStates /\ pc'[j] = "done"
      /\ \A k \in Jobs \ {j} : state'[k] = state[k]
      /\ \A k \in Jobs \ {j} : pc'[k] = pc[k] \/ (pc[k] = "waiting" /\ pc'[k] = "granted")
<1>e. ASSUME NEW j \in Jobs, Ends(j) PROVE RetentionInv'
  <2>1. j \in jobs
    BY <1>e DEF LiveInv, RetentionInv, EvictedForRoom
  <2>2. ~Retained(j)
    <3>1. Retained(j) => pc[j] = "done" /\ state[j] \in TerminalStates
      BY ChatOfJob DEF Retained, RetentionInv, HistoryOwn, NoJobLeak
    <3> QED  BY <1>e, <3>1 DEF Active, ActiveStates, TerminalStates
  <2> QED  BY <1>e, <2>1, <2>2, RecordStep
<1>1. ASSUME NEW j \in Jobs, SubmitNew(j) PROVE RetentionInv'
  <2>1. /\ jobs' = jobs \cup {j} /\ callbacks' = callbacks \cup {j} /\ history' = history
        /\ state[j] = "none" /\ state'[j] = "queued" /\ pc'[j] = "created" /\ pc[j] = "none"
        /\ \A k \in Jobs \ {j} : state'[k] = state[k] /\ pc'[k] = pc[k]
    BY <1>1 DEF SubmitNew, MoveTo, TypeOK, PcInv
  <2>2. \A k \in Jobs : Retained(k)' <=> Retained(k)
    BY <2>1 DEF Retained
  <2>3. \A k \in Jobs : Active(k)' <=> Active(k) \/ k = j
    BY <2>1 DEF Active, ActiveStates
  <2>4. NoJobLeak'
    <3>1. \A k \in jobs' : Active(k)' \/ pc'[k] = "finalizing" \/ Retained(k)'
      BY <2>1, <2>2, <2>3 DEF RetentionInv, NoJobLeak, TypeOK
    <3>2. \A k \in Jobs : Retained(k)' => k \in jobs' /\ state'[k] \in TerminalStates
      BY <2>1, <2>2 DEF RetentionInv, NoJobLeak, TerminalStates
    <3>3. \A k \in tasks' : Active(k)'
      BY DEF LiveInv, TypeOK
    <3>4. \A k \in Jobs : k \in callbacks' <=> Active(k)' \/ pc'[k] = "finalizing"
      BY <2>1, <2>3 DEF RetentionInv, NoJobLeak
    <3>5. \A c \in Chats : Len(history'[c]) <= HistoryLimit
      BY <2>1 DEF RetentionInv, NoJobLeak
    <3> QED  BY <3>1, <3>2, <3>3, <3>4, <3>5 DEF NoJobLeak
  <2>5. HistoryOwn'
    BY <2>1 DEF RetentionInv, HistoryOwn, TypeOK
  <2>6. EvictedForRoom'
    BY <2>1 DEF RetentionInv, EvictedForRoom
  <2> QED  BY <2>4, <2>5, <2>6 DEF RetentionInv
<1>2. ASSUME NEW j \in Jobs, TaskNeverEntered(j) \/ TaskQueues(j) \/ TaskVerifies(j) \/ ThreadEnds(j)
      PROVE  RetentionInv'
  BY <1>2, RetentionUndisturbed
  DEF TaskNeverEntered, TaskQueues, TaskVerifies, ThreadEnds, MoveTo, registryVars, jobVars, TypeOK,
      Active
<1>3. ASSUME NEW j \in Jobs, TaskAcquires(j) \/ TaskResumes(j) PROVE RetentionInv'
  <2>1. /\ UNCHANGED <<jobs, history, callbacks>>
        /\ pc[j] \in {"created", "granted"} /\ pc'[j] = "starting"
        /\ \A k \in Jobs \ {j} : pc'[k] = pc[k] \/ (pc[k] = "waiting" /\ pc'[k] = "granted")
        /\ state[j] = "queued" /\ state' = [state EXCEPT ![j] = "running"]
    <3>1. CASE TaskAcquires(j)
      BY <3>1 DEF TaskAcquires, BecomeRunning, registryVars, TypeOK, PcInv
    <3>2. CASE TaskResumes(j)
      <4>1. Moves(j, "starting")
        BY <3>2, WakeMoves DEF TaskResumes, Eligible, PCs, TypeOK
      <4> QED  BY <3>2, <4>1 DEF TaskResumes, BecomeRunning, registryVars, PcInv, Moves
    <3> QED  BY <1>3, <3>1, <3>2
  <2>2. \A k \in Jobs : /\ Active(k)' <=> Active(k)
                        /\ state'[k] = "none" <=> state[k] = "none"
                        /\ state[k] \in TerminalStates => state'[k] \in TerminalStates
    BY <2>1 DEF TypeOK, Active, ActiveStates, TerminalStates
  <2>3. \A k \in Jobs : /\ pc'[k] = "finalizing" <=> pc[k] = "finalizing"
                        /\ pc[k] = "done" => pc'[k] = "done"
    BY <2>1
  <2> QED  BY <2>1, <2>2, <2>3, RetentionUndisturbed
<1>4. ASSUME NEW j \in Jobs, TaskFails(j) \/ TaskReports(j) PROVE RetentionInv'
  <2>1. /\ UNCHANGED <<jobs, history, callbacks>> /\ pc[j] = "verifying" /\ state[j] = "running"
        /\ state'[j] \in TerminalStates /\ pc' = [pc EXCEPT ![j] = "finalizing"]
        /\ \A k \in Jobs \ {j} : state'[k] = state[k]
    BY <1>4
    DEF TaskFails, TaskReports, FinalizeAndNotify, Finalize, MoveTo, TypeOK, PcInv, TerminalStates
  <2>2. j \in jobs /\ Active(j)
    BY <2>1 DEF LiveInv, Active, ActiveStates
  <2> QED  BY <2>1, <2>2, RetentionNotified DEF TypeOK
<1>5. ASSUME NEW j \in Jobs, TaskDiscards(j) \/ TaskEnds(j) \/ TaskCancelled(j) PROVE RetentionInv'
  <2>1. /\ j \notin Eligible /\ pc[j] \notin {"none", "done"}
        /\ \E freed \in {0, 1} : \E n \in Nat : Wake(j, "done", freed, n)
    BY <1>5
    DEF TaskDiscards, TaskEnds, TaskCancelled, Relinquish, Eligible, CancelInv, TypeOK
  <2>2. Moves(j, "done")
    BY <2>1, WakeMoves DEF PCs
  <2>3. Active(j) \/ pc[j] = "finalizing"
    BY <2>1 DEF PcInv, Active, ActiveStates, TypeOK
  <2>4. RecordTerminalHistory(j) /\ state'[j] \in TerminalStates
        /\ \A k \in Jobs \ {j} : state'[k] = state[k]
    BY <1>5, <2>3
    DEF TaskDiscards, TaskEnds, TaskCancelled, FinalizeCancelled, Finalize, TypeOK, PcInv, jobVars,
        TerminalStates
  <2> QED  BY <1>e, <2>2, <2>3, <2>4 DEF Moves
<1>6. ASSUME NEW i \in Chats \X Products, SubmitDuplicate(i) PROVE RetentionInv'
  BY <1>6, RetentionUndisturbed DEF SubmitDuplicate, registryVars, loopVars, Active
<1>7. ASSUME NEW c \in Callers, NEW chat \in Chats, CancelChatJobs(c, chat) PROVE RetentionInv'
  BY <1>7, RetentionUndisturbed DEF CancelChatJobs, registryVars, Active
<1>8. ASSUME NEW c \in Callers, CancelResumes(c) PROVE RetentionInv'
  <2>1. caller[c].cur \in Jobs /\ pc[caller[c].cur] = "done" /\ pc' = pc
    BY <1>8 DEF CancelResumes, SleepOver, CallerInv, TypeOK
  <2>2. CASE NeverRan(caller[c].cur)
    <3>1. FinalizeCancelled(caller[c].cur) /\ Active(caller[c].cur)
      BY <1>8, <2>2 DEF CancelResumes, NeverRan
    <3>2. Ends(caller[c].cur)
      BY <2>1, <3>1 DEF FinalizeCancelled, Finalize, TypeOK, TerminalStates
    <3> QED  BY <1>e, <2>1, <3>2
  <2>3. CASE ~NeverRan(caller[c].cur)
    BY <1>8, <2>1, <2>3, RetentionUndisturbed DEF CancelResumes, registryVars, Active
  <2> QED  BY <2>2, <2>3
<1>9. ASSUME NEW j \in Jobs, ShutdownFinalizes(j) PROVE RetentionInv'
  <2>1. pc[j] = "done" /\ pc' = pc /\ Active(j)
    BY <1>9 DEF ShutdownFinalizes, Drained, ShutdownInv, loopVars
  <2>2. Ends(j)
    BY <1>9, <2>1 DEF ShutdownFinalizes, FinalizeCancelled, Finalize, TypeOK, TerminalStates
  <2> QED  BY <1>e, <2>2
<1>10. CASE ShutdownBegins \/ ShutdownExpires \/ ShutdownReturns \/ Stopped \/ UNCHANGED vars
  BY <1>10, RetentionUndisturbed
  DEF ShutdownBegins, ShutdownExpires, ShutdownReturns, Stopped, vars, registryVars, jobVars,
      loopVars, Active
<1> QED
  BY <1>1, <1>2, <1>3, <1>4, <1>5, <1>6, <1>7, <1>8, <1>9, <1>10 DEF Next, TaskStep, ShutdownStep

LEMMA RetentionInit == Init => RetentionInv
<1> SUFFICES ASSUME Init PROVE RetentionInv
  OBVIOUS
<1>1. \A c \in Chats : history[c] = <<>>
  BY DEF Init
<1>2. \A j \in Jobs : ~Retained(j)
  BY <1>1, ChatOfJob DEF Retained
<1>3. NoJobLeak
  BY <1>1, <1>2, JobAssumption DEF Init, NoJobLeak, Active, ActiveStates, JobAssumption
<1>4. HistoryOwn
  BY <1>1 DEF HistoryOwn
<1>5. EvictedForRoom
  BY DEF Init, EvictedForRoom
<1> QED  BY <1>3, <1>4, <1>5 DEF RetentionInv

LEMMA RetentionInvariance == Spec => []RetentionInv
<1>1. Inv /\ Inv' /\ RetentionInv /\ [Next]_vars => RetentionInv'
  BY RetentionStep DEF Inv
<1> QED  BY <1>1, RetentionInit, Invariance, PTL DEF Spec

(* Whatever is submitted, cancelled, broken off or shut down: no entry of     *)
(* _jobs, _tasks or _callbacks outlives the work it stands for, or the bounded *)
(* history that keeps finished jobs.                                         *)
THEOREM NothingLeaks == Spec => []NoJobLeak
<1>1. RetentionInv => NoJobLeak  BY DEF RetentionInv
<1> QED  BY <1>1, RetentionInvariance, PTL

-----------------------------------------------------------------------------
(* What is over stays over                                                  *)

(* A job over is what it was: only shutdown, out of time, turns its state to  *)
(* "cancelled", drops its result and appends that to its outcomes.           *)
Unaltered(j) ==
  /\ Settled(j)'
  /\ thread'[j] = thread[j] /\ cancelRequested'[j] = cancelRequested[j]
  /\ Head(outcomes'[j]) = Head(outcomes[j])
  /\ UNCHANGED <<state[j], result[j]>> \/ shutdown.phase = "expired"

LEMMA OutcomeAppended ==
  ASSUME TypeOK, NEW j \in Jobs, NEW s \in TerminalStates, NEW k \in Jobs, outcomes[k] # <<>>,
         outcomes' = [outcomes EXCEPT ![j] = Append(@, s)]
  PROVE  outcomes'[k] # <<>> /\ Head(outcomes'[k]) = Head(outcomes[k])
<1>1. outcomes[k] \in Seq(TerminalStates)
  BY DEF TypeOK
<1>2. CASE k = j
  <2>1. outcomes'[k] = Append(outcomes[k], s)
    BY <1>2 DEF TypeOK
  <2> QED  BY <1>1, <2>1
<1>3. CASE k # j
  BY <1>3 DEF TypeOK
<1> QED  BY <1>2, <1>3

LEMMA SettledStays ==
  ASSUME Core, [Next]_vars, NEW k \in Jobs, Settled(k)
  PROVE  Unaltered(k)
<1> USE DEF Core, Settled, Unaltered, TerminalStates
<1>0. /\ ~Active(k) /\ state[k] \notin {"none", "queued", "running"}
      /\ pc[k] \in {"finalizing", "done"}
  BY DEF PcInv, Active, ActiveStates, TypeOK
<1>1. ASSUME NEW j \in Jobs, NEW s \in TerminalStates, NEW r, Finalize(j, s, r),
             thread' = thread, cancelRequested' = cancelRequested,
             j = k => shutdown.phase = "expired"
      PROVE  Unaltered(k)
  <2>1. outcomes'[k] # <<>> /\ Head(outcomes'[k]) = Head(outcomes[k])
    BY <1>1, OutcomeAppended DEF Finalize
  <2> QED  BY <1>1, <2>1 DEF Finalize, TypeOK
<1>2. ASSUME NEW j \in Jobs, SubmitNew(j) PROVE Unaltered(k)
  BY <1>0, <1>2 DEF SubmitNew, TypeOK
<1>3. ASSUME NEW j \in Jobs, TaskNeverEntered(j) \/ TaskQueues(j) \/ TaskVerifies(j)
             \/ ThreadEnds(j) \/ TaskEnds(j)
      PROVE  Unaltered(k)
  BY <1>0, <1>3
  DEF TaskNeverEntered, TaskQueues, TaskVerifies, ThreadEnds, TaskEnds, jobVars, TypeOK
<1>4. ASSUME NEW j \in Jobs, TaskAcquires(j) \/ TaskResumes(j) PROVE Unaltered(k)
  BY <1>0, <1>4 DEF TaskAcquires, TaskResumes, BecomeRunning, PcInv, TypeOK
<1>5. ASSUME NEW j \in Jobs, TaskFails(j) \/ TaskDiscards(j) \/ TaskReports(j) \/ TaskCancelled(j)
             \/ ShutdownFinalizes(j)
      PROVE  Unaltered(k)
  <2>1. j = k => shutdown.phase = "expired"
    BY <1>0, <1>5
    DEF TaskFails, TaskDiscards, TaskReports, TaskCancelled, ShutdownFinalizes, CancelInv
  <2> QED
    BY <1>1, <1>5, <2>1
    DEF TaskFails, TaskDiscards, TaskReports, TaskCancelled, ShutdownFinalizes, FinalizeAndNotify,
        FinalizeCancelled, loopVars
<1>6. ASSUME NEW c \in Callers, NEW S, CancelWalk(c, S) PROVE cancelRequested'[k] = cancelRequested[k]
  <2>1. \E R : RequestCancel(R) /\ k \notin R
    <3> DEFINE running == {j \in S : state[j] = "running"}
               queued  == {j \in S : state[j] = "queued"}
    <3>1. RequestCancel(running) \/ \E q \in queued : RequestCancel(running \cup {q})
      BY <1>6 DEF CancelWalk
    <3>2. k \notin running /\ k \notin queued
      BY <1>0
    <3> QED  BY <3>1, <3>2
  <2> QED  BY <2>1 DEF RequestCancel, TypeOK
<1>7. ASSUME NEW c \in Callers, NEW chat \in Chats, CancelChatJobs(c, chat) PROVE Unaltered(k)
  BY <1>6, <1>7 DEF CancelChatJobs
<1>8. ASSUME NEW c \in Callers, CancelResumes(c) PROVE Unaltered(k)
  <2>1. thread'[k] = thread[k] /\ cancelRequested'[k] = cancelRequested[k]
    BY <1>6, <1>8 DEF CancelResumes
  <2>2. CASE NeverRan(caller[c].cur)
    <3>1. caller[c].cur \in Jobs /\ caller[c].cur # k
      BY <1>0, <1>8, <2>2 DEF CancelResumes, NeverRan, TypeOK
    <3>2. Finalize(caller[c].cur, "cancelled", "none")
      BY <1>8, <2>2 DEF CancelResumes, FinalizeCancelled
    <3>3. outcomes'[k] # <<>> /\ Head(outcomes'[k]) = Head(outcomes[k])
      BY <3>1, <3>2, OutcomeAppended DEF Finalize
    <3> QED  BY <2>1, <3>1, <3>2, <3>3 DEF Finalize, TypeOK
  <2>3. CASE ~NeverRan(caller[c].cur)
    BY <1>8, <2>1, <2>3 DEF CancelResumes
  <2> QED  BY <2>2, <2>3
<1>9. ASSUME NEW i \in Chats \X Products, SubmitDuplicate(i) PROVE Unaltered(k)
  BY <1>9 DEF SubmitDuplicate, loopVars
<1>10. CASE ShutdownBegins
  BY <1>0, <1>10 DEF ShutdownBegins, RequestCancel, TypeOK
<1>11. CASE ShutdownExpires \/ ShutdownReturns \/ Stopped \/ UNCHANGED vars
  BY <1>11 DEF ShutdownExpires, ShutdownReturns, Stopped, vars, jobVars, loopVars
<1> QED
  BY <1>2, <1>3, <1>4, <1>5, <1>7, <1>8, <1>9, <1>10, <1>11 DEF Next, TaskStep, ShutdownStep

(* shutdown() goes one way.                                                 *)
LEMMA PhaseAdvances ==
  ASSUME Core, [Next]_vars
  PROVE  /\ shutdown'.phase = "up" => shutdown.phase = "up"
         /\ shutdown'.phase = "waiting" => shutdown.phase \in {"up", "waiting"}
<1>1. \/ shutdown' = shutdown
      \/ ShutdownBegins \/ ShutdownExpires \/ ShutdownReturns
  BY DEF Next, TaskStep, ShutdownStep, SubmitNew, SubmitDuplicate, TaskNeverEntered, TaskQueues,
         TaskAcquires, TaskResumes, BecomeRunning, TaskVerifies, TaskFails, TaskDiscards, TaskReports,
         TaskEnds, TaskCancelled, ThreadEnds, CancelChatJobs, CancelResumes, ShutdownFinalizes, Stopped,
         vars
<1> QED
  BY <1>1 DEF ShutdownBegins, ShutdownExpires, ShutdownReturns, Core, TypeOK

LEMMA ExportStep ==
  ASSUME Core, Core', ExportInv, [Next]_vars
  PROVE  ExportInv'
<1> SUFFICES ASSUME NEW c \in Chats, NEW l \in Jobs, lastSuccess'[c] = l
             PROVE  /\ ChatOf[l] = c /\ Settled(l)'
                    /\ Head(outcomes'[l]) = "completed"
                    /\ shutdown'.phase \in {"up", "waiting"} => result'[l] = "success"
  <2>1. \A c \in Chats : lastSuccess'[c] = NoJob \/ lastSuccess'[c] \in Jobs
    BY DEF Core, TypeOK
  <2> QED  BY <2>1 DEF ExportInv, ExportKeepsSuccess, Settled
<1>1. CASE l = lastSuccess[c]
  <2>1. ChatOf[l] = c /\ Head(outcomes[l]) = "completed" /\ Settled(l)
        /\ (shutdown.phase \in {"up", "waiting"} => result[l] = "success")
    BY <1>1, JobAssumption DEF ExportInv, ExportKeepsSuccess, JobAssumption
  <2>2. Unaltered(l)
    BY <2>1, SettledStays
  <2> QED  BY <2>1, <2>2, PhaseAdvances DEF Unaltered
<1>2. CASE l # lastSuccess[c]
  <2>1. PICK j \in Jobs : TaskReports(j) /\ thread[j] = "success"
    <3>1. lastSuccess' # lastSuccess
      BY <1>2
    <3>2. ASSUME NEW j \in Jobs, TaskReports(j), thread[j] # "success" PROVE FALSE
      BY <3>1, <3>2 DEF TaskReports, FinalizeAndNotify, Finalize, LatestSuccess
    <3>3. \E j \in Jobs : TaskReports(j)
      BY <3>1, Core
      DEF Next, TaskStep, ShutdownStep, SubmitNew, SubmitDuplicate, TaskNeverEntered, TaskQueues,
          TaskAcquires, TaskResumes, BecomeRunning, TaskVerifies, TaskFails, TaskDiscards,
          TaskEnds, TaskCancelled, ThreadEnds, CancelChatJobs, CancelResumes, ShutdownBegins,
          ShutdownExpires, ShutdownReturns, ShutdownFinalizes, Stopped, vars, jobVars, FinalizeCancelled,
          FinalizeAndNotify, Finalize, LatestSuccess
    <3> QED  BY <3>2, <3>3
  <2>2. Finalize(j, "completed", "success") /\ state[j] = "running" /\ thread' = thread
    BY <2>1 DEF TaskReports, FinalizeAndNotify, Core, PcInv
  <2>3. l = j /\ c = ChatOf[j]
    BY <1>2, <2>2 DEF Finalize, LatestSuccess, Core, TypeOK
  <2>4. outcomes[j] = <<>>
    BY <2>2 DEF Core, OutcomeInv, ActiveStates
  <2>5. outcomes'[j] = <<"completed">>
    BY <2>2, <2>4 DEF Finalize, Core, TypeOK
  <2>6. state'[j] = "completed" /\ result'[j] = "success" /\ thread'[j] # "running"
    BY <2>1, <2>2 DEF Finalize, Core, TypeOK
  <2> QED  BY <2>3, <2>5, <2>6 DEF Settled, TerminalStates
<1> QED  BY <1>1, <1>2

(* /export never serves another chat's result or a failed one, and does not   *)
(* lose a successful one to the jobs that follow.                            *)
THEOREM ExportServesSuccess == Spec => []ExportKeepsSuccess
<1>1. Init => ExportInv
  BY DEF Init, ExportInv, ExportKeepsSuccess
<1>2. Inv /\ Inv' /\ ExportInv /\ [Next]_vars => ExportInv'
  BY ExportStep DEF Inv
<1>3. ExportInv => ExportKeepsSuccess
  BY DEF ExportInv
<1> QED  BY <1>1, <1>2, <1>3, Invariance, PTL DEF Spec

-----------------------------------------------------------------------------
(* The bot: Conversation                                                     *)

Asking == {c \in Chats : pending[c] # NoProduct}

ConversationTypeOK ==
  /\ pending \in [Chats -> Products \cup {NoProduct}]
  /\ handler.chat \in Chats
  /\ asked \in Nat /\ taken \in Nat
  /\ part \in [Jobs -> {"none", "outcome", "offer", "done"}]
  /\ told \in [Jobs -> SUBSET {"outcome", "offer"}]

-----------------------------------------------------------------------------
(* The bot is a JobManager                                                  *)

(* What a handler or a callback does to the jobs is a step of JobManager.     *)
LEMMA JobsDriven ==
  ASSUME ConversationTypeOK, [ConversationNext]_allVars
  PROVE  [Next]_vars
<1>1. ASSUME NEW c \in Chats, NEW p \in Products, AskProduct(c, p) PROVE UNCHANGED vars
  BY <1>1 DEF AskProduct
<1>2. ASSUME NEW c \in Chats, TapLanguage(c) PROVE Next
  <2>1. pending[c] \in Products
    BY <1>2 DEF TapLanguage, ConversationTypeOK
  <2> QED  BY <1>2, <2>1 DEF TapLanguage, Next
<1>3. ASSUME NEW c \in Chats, Cancel(c) PROVE [Next]_vars
  BY <1>3, ConversationAssumption DEF Cancel, Next, ConversationAssumption
<1>4. ASSUME NEW c \in Chats, Discover(c) \/ Answer(c) PROVE UNCHANGED vars
  BY <1>4 DEF Discover, Answer
<1>5. ASSUME NEW j \in Jobs, JobStep(j) PROVE [Next]_vars
  BY <1>5 DEF JobStep, Quietly, OutcomeBegins, Deliver, OutcomeEnds, Next, TaskStep
<1>6. CASE HandlerStep
  BY <1>6, ConversationAssumption
  DEF HandlerStep, PromptSent, KeyboardRemoved, CancelAnswered, DiscoverEnds, ReplySent, Next,
      ConversationAssumption
<1>7. CASE BotStops \/ BotStopping
  BY <1>7 DEF BotStops, BotStopping, Next
<1>8. CASE UNCHANGED allVars
  BY <1>8 DEF allVars
<1> QED
  BY <1>1, <1>2, <1>3, <1>4, <1>5, <1>6, <1>7, <1>8 DEF ConversationNext, Next

LEMMA ConversationTypes ==
  ASSUME ConversationTypeOK, [ConversationNext]_allVars
  PROVE  ConversationTypeOK'
<1> USE DEF ConversationTypeOK
<1>1. ASSUME NEW c \in Chats, NEW p \in Products, AskProduct(c, p) PROVE ConversationTypeOK'
  BY <1>1 DEF AskProduct, At
<1>2. ASSUME NEW c \in Chats, TapLanguage(c) PROVE ConversationTypeOK'
  BY <1>2 DEF TapLanguage, At, Popped
<1>3. ASSUME NEW c \in Chats, Cancel(c) \/ Discover(c) \/ Answer(c) PROVE ConversationTypeOK'
  BY <1>3 DEF Cancel, Discover, Answer, At
<1>4. ASSUME NEW j \in Jobs, JobStep(j) PROVE ConversationTypeOK'
  <2>1. CASE OutcomeBegins(j)  BY <2>1 DEF OutcomeBegins
  <2>2. CASE Deliver(j)  BY <2>2 DEF Deliver
  <2>3. CASE Quietly(j) \/ OutcomeEnds(j)
    BY <2>3 DEF Quietly, OutcomeEnds, conversationVars
  <2> QED  BY <1>4, <2>1, <2>2, <2>3 DEF JobStep
<1>5. CASE HandlerStep
  BY <1>5
  DEF HandlerStep, PromptSent, KeyboardRemoved, CancelAnswered, DiscoverEnds, ReplySent, ToIdle, At,
      conversationVars
<1>6. ASSUME UNCHANGED conversationVars PROVE ConversationTypeOK'
  BY <1>6 DEF conversationVars
<1> QED
  BY <1>1, <1>2, <1>3, <1>4, <1>5, <1>6
  DEF ConversationNext, BotStops, BotStopping, allVars

(* Whatever chats send, in any order, and whatever Telegram loses, the bot     *)
(* uses JobManager as its specification allows: each theorem about JobManager  *)
(* (the cap on verifications, one live job a request, one outcome a job) is    *)
(* one about the bot.                                                       *)
THEOREM BotImplementsJobManager == ConversationSpec => Spec
<1>1. ConversationInit => Init /\ ConversationTypeOK
  BY DEF ConversationInit, ConversationTypeOK
<1>2. ConversationTypeOK /\ [ConversationNext]_allVars => ConversationTypeOK' /\ [Next]_vars
  BY JobsDriven, ConversationTypes
<1> QED  BY <1>1, <1>2, PTL DEF ConversationSpec, Spec

(* So the bot, too, implements JobContract.                                   *)
COROLLARY BotKeepsContract == ConversationSpec => ImplementsContract
BY BotImplementsJobManager, Implementation, PTL

-----------------------------------------------------------------------------
(* One verification a message                                                *)

LEMMA AskingFinite ==
  /\ IsFiniteSet(Asking) /\ Cardinality(Asking) \in Nat
  /\ IsFiniteSet(Asking') /\ Cardinality(Asking') \in Nat
BY FS_Subset, FS_CardinalityType, ConversationAssumption DEF Asking, ConversationAssumption

LEMMA StartsCounted ==
  ASSUME ConversationTypeOK, OneStartPerMessage, [ConversationNext]_allVars
  PROVE  OneStartPerMessage'
<1> USE DEF ConversationTypeOK
<1>0. taken + Cardinality(Asking) <= asked
  BY DEF OneStartPerMessage, Asking
<1>1. ASSUME NEW c \in Chats, NEW p \in Products, AskProduct(c, p)
      PROVE  taken' + Cardinality(Asking') <= asked'
  <2>1. Asking' = Asking \cup {c}
    BY <1>1, ConversationAssumption DEF AskProduct, Asking, ConversationAssumption
  <2>2. Cardinality(Asking') <= Cardinality(Asking) + 1
    BY <2>1, AskingFinite, FS_AddElement
  <2> QED  BY <1>0, <1>1, <2>2, AskingFinite DEF AskProduct
<1>2. ASSUME NEW c \in Chats, TapLanguage(c) PROVE taken' + Cardinality(Asking') <= asked'
  <2>1. c \in Asking /\ Asking' = Asking \ {c}
    BY <1>2 DEF TapLanguage, Popped, Asking
  <2>2. Cardinality(Asking') = Cardinality(Asking) - 1
    BY <2>1, AskingFinite, FS_RemoveElement
  <2> QED  BY <1>0, <1>2, <2>2, AskingFinite DEF TapLanguage
<1>3. ASSUME UNCHANGED <<pending, asked, taken>> PROVE taken' + Cardinality(Asking') <= asked'
  BY <1>0, <1>3 DEF Asking
<1>4. \/ UNCHANGED <<pending, asked, taken>>
      \/ \E c \in Chats : TapLanguage(c) \/ \E p \in Products : AskProduct(c, p)
  BY DEF ConversationNext, Cancel, Discover, Answer, JobStep, Quietly, OutcomeBegins, Deliver,
         OutcomeEnds, HandlerStep, PromptSent, KeyboardRemoved, CancelAnswered, DiscoverEnds,
         ReplySent, BotStops, BotStopping, allVars, conversationVars
<1> QED  BY <1>1, <1>2, <1>3, <1>4 DEF OneStartPerMessage, Asking

(* However many keyboards, taps, chats and messages: a product message starts  *)
(* at most one verification.                                                *)
THEOREM OneStart == ConversationSpec => []OneStartPerMessage
<1>1. ConversationInit => ConversationTypeOK /\ OneStartPerMessage
  <2> SUFFICES ASSUME ConversationInit PROVE ConversationTypeOK /\ OneStartPerMessage
    OBVIOUS
  <2>1. Asking = {}  BY DEF ConversationInit, Asking
  <2>2. Cardinality(Asking) = 0  BY <2>1, FS_EmptySet
  <2> QED  BY <2>2 DEF ConversationInit, ConversationTypeOK, OneStartPerMessage, Asking
<1>2. ConversationTypeOK /\ OneStartPerMessage /\ [ConversationNext]_allVars
        => ConversationTypeOK' /\ OneStartPerMessage'
  BY ConversationTypes, StartsCounted
<1> QED  BY <1>1, <1>2, PTL DEF ConversationSpec

-----------------------------------------------------------------------------
(* Cancelled jobs                                                            *)

(* What has been said, or is being said, of a job.                            *)
SilenceInv ==
  \A j \in Jobs :
    /\ part[j] # "none" =>
         /\ Settled(j)
         /\ cancelRequested[j] => Head(outcomes[j]) = "failed" /\ thread[j] = "raised"
    /\ told[j] # {} => part[j] # "none"
    /\ part[j] = "offer" \/ "offer" \in told[j] => ~cancelRequested[j]

LEMMA SilenceStep ==
  ASSUME Core, ConversationTypeOK, SilenceInv, [ConversationNext]_allVars
  PROVE  SilenceInv'
<1> USE DEF ConversationTypeOK
<1>0. [Next]_vars
  BY JobsDriven
<1>1. \A k \in Jobs : Settled(k) => Unaltered(k)
  BY <1>0, SettledStays
<1>2. ASSUME UNCHANGED <<part, told>> PROVE SilenceInv'
  BY <1>1, <1>2 DEF SilenceInv, Unaltered, Settled
<1>3. ASSUME NEW j \in Jobs, OutcomeBegins(j) PROVE SilenceInv'
  <2>1. /\ state[j] = "running" /\ outcomes[j] = <<>>
        /\ cancelRequested'[j] = cancelRequested[j] /\ thread'[j] = thread[j]
        /\ thread[j] \in {"success", "failure", "raised"}
        /\ cancelRequested[j] => thread[j] = "raised"
    BY <1>3
    DEF OutcomeBegins, TaskFails, TaskReports, Wanted, Core, PcInv, OutcomeInv, ActiveStates
  <2>2. \E s \in {"completed", "failed"} :
          /\ state'[j] = s /\ outcomes'[j] = <<s>>
          /\ thread[j] = "raised" => s = "failed"
    BY <1>3, <2>1
    DEF OutcomeBegins, TaskFails, TaskReports, FinalizeAndNotify, Finalize, Core, TypeOK
  <2>3. part' = [part EXCEPT ![j] = "outcome"] /\ told' = told
    BY <1>3 DEF OutcomeBegins
  <2>4. part[j] = "none" /\ told[j] = {}
    BY <2>1 DEF SilenceInv, Settled
  <2> QED  BY <1>1, <2>1, <2>2, <2>3, <2>4 DEF SilenceInv, Settled, Unaltered, TerminalStates
<1>4. ASSUME NEW j \in Jobs, Deliver(j) PROVE SilenceInv'
  <2>1. /\ part[j] \in {"outcome", "offer"} /\ part'[j] \in {"offer", "done"}
        /\ part'[j] = "offer" => state[j] = "completed"
        /\ told'[j] \subseteq told[j] \cup {part[j]}
        /\ \A k \in Jobs \ {j} : part'[k] = part[k] /\ told'[k] = told[k]
        /\ UNCHANGED vars
    BY <1>4 DEF Deliver
  <2>2. state[j] = "completed" => ~cancelRequested[j]
    BY DEF Core, CancelDiscardsResult
  <2> QED
    BY <2>1, <2>2 DEF SilenceInv, Settled, vars, jobVars, loopVars
<1>5. \/ UNCHANGED <<part, told>>
      \/ \E j \in Jobs : OutcomeBegins(j) \/ Deliver(j)
  BY DEF ConversationNext, AskProduct, TapLanguage, Cancel, Discover, Answer, JobStep, Quietly,
         OutcomeEnds, HandlerStep, PromptSent, KeyboardRemoved, CancelAnswered, DiscoverEnds,
         ReplySent, BotStops, BotStopping, allVars, conversationVars
<1> QED  BY <1>2, <1>3, <1>4, <1>5

(* Wherever /cancel falls (before the job runs, while it runs, while it is      *)
(* reported), the chat hears at most that the verification broke.              *)
THEOREM CancelledStaySilent == ConversationSpec => []CancelSilences
<1>1. ConversationInit => ConversationTypeOK /\ SilenceInv
  BY DEF ConversationInit, ConversationTypeOK, SilenceInv
<1>2. Inv /\ ConversationTypeOK /\ SilenceInv /\ [ConversationNext]_allVars
        => ConversationTypeOK' /\ SilenceInv'
  BY ConversationTypes, SilenceStep DEF Inv
<1>3. ConversationTypeOK /\ SilenceInv => CancelSilences
  BY DEF ConversationTypeOK, SilenceInv, CancelSilences
<1> QED  BY <1>1, <1>2, <1>3, BotImplementsJobManager, Invariance, PTL DEF ConversationSpec

-----------------------------------------------------------------------------
(* Photos                                                                   *)

(* While the bot is up, a job reported as completed keeps its result.          *)
OfferInv ==
  \A j \in Jobs :
    Reachable /\ part[j] # "none"
      /\ (state[j] = "completed" \/ part[j] = "offer" \/ "offer" \in told[j]) => result[j] # "none"

LEMMA OfferStep ==
  ASSUME Core, ConversationTypeOK, SilenceInv, OfferInv, [ConversationNext]_allVars
  PROVE  OfferInv'
<1> USE DEF ConversationTypeOK, Reachable
<1>0. [Next]_vars
  BY JobsDriven
<1>1. ASSUME NEW k \in Jobs, part[k] # "none", Reachable'
      PROVE  Reachable /\ state'[k] = state[k] /\ result'[k] = result[k]
  <2>1. Settled(k)
    BY <1>1 DEF SilenceInv
  <2> QED  BY <1>0, <1>1, <2>1, SettledStays, PhaseAdvances DEF Unaltered
<1>2. ASSUME UNCHANGED <<part, told>> PROVE OfferInv'
  BY <1>1, <1>2 DEF OfferInv
<1>3. ASSUME NEW j \in Jobs, OutcomeBegins(j) PROVE OfferInv'
  <2>1. /\ part' = [part EXCEPT ![j] = "outcome"] /\ told' = told
        /\ state[j] = "running"
        /\ state'[j] = "completed" => result'[j] # "none"
    BY <1>3
    DEF OutcomeBegins, TaskFails, TaskReports, FinalizeAndNotify, Finalize, Core, PcInv, TypeOK
  <2>2. told[j] = {}
    BY <2>1 DEF SilenceInv, Settled, TerminalStates
  <2> QED  BY <1>1, <2>1, <2>2 DEF OfferInv
<1>4. ASSUME NEW j \in Jobs, Deliver(j) PROVE OfferInv'
  <2>1. /\ part[j] \in {"outcome", "offer"}
        /\ part'[j] = "offer" => state[j] = "completed"
        /\ told'[j] \subseteq told[j] \cup {part[j]}
        /\ \A k \in Jobs \ {j} : part'[k] = part[k] /\ told'[k] = told[k]
        /\ UNCHANGED vars
    BY <1>4 DEF Deliver
  <2> QED  BY <2>1 DEF OfferInv, vars, jobVars
<1>5. \/ UNCHANGED <<part, told>>
      \/ \E j \in Jobs : OutcomeBegins(j) \/ Deliver(j)
  BY DEF ConversationNext, AskProduct, TapLanguage, Cancel, Discover, Answer, JobStep, Quietly,
         OutcomeEnds, HandlerStep, PromptSent, KeyboardRemoved, CancelAnswered, DiscoverEnds,
         ReplySent, BotStops, BotStopping, allVars, conversationVars
<1> QED  BY <1>2, <1>3, <1>4, <1>5

(* For every history limit: the photos that a chat was offered are served until *)
(* so many later jobs of the chat have ended, or the bot stops.                 *)
THEOREM OffersHonoured == ConversationSpec => []OfferHonoured
<1>1. ConversationInit => ConversationTypeOK /\ SilenceInv /\ OfferInv
  BY DEF ConversationInit, ConversationTypeOK, SilenceInv, OfferInv
<1>2. Inv /\ ConversationTypeOK /\ SilenceInv /\ OfferInv /\ [ConversationNext]_allVars
        => ConversationTypeOK' /\ SilenceInv' /\ OfferInv'
  BY ConversationTypes, SilenceStep, OfferStep DEF Inv
<1>3. RetentionInv /\ SilenceInv /\ OfferInv => OfferHonoured
  <2> SUFFICES ASSUME RetentionInv, SilenceInv, OfferInv, NEW j \in Jobs, "offer" \in told[j], Reachable
               PROVE  \/ PhotosServed(ChatOf[j], j)
                      \/ ~Retained(j) /\ pc[j] = "done" /\ Len(history[ChatOf[j]]) = HistoryLimit
    BY DEF OfferHonoured
  <2>1. part[j] # "none" /\ state[j] # "none" /\ result[j] # "none"
    BY DEF SilenceInv, OfferInv, Settled, TerminalStates
  <2>2. CASE j \in jobs
    BY <2>1, <2>2 DEF PhotosServed
  <2>3. CASE j \notin jobs
    BY <2>1, <2>3 DEF RetentionInv, NoJobLeak, EvictedForRoom
  <2> QED  BY <2>2, <2>3
<1> QED
  BY <1>1, <1>2, <1>3, BotImplementsJobManager, Invariance, RetentionInvariance, PTL
  DEF ConversationSpec
=============================================================================
