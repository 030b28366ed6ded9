------------------------------ MODULE HealthStore ------------------------------
(***************************************************************************)
(* core/provider_health.py: the persisted ProviderHealthStore, shared by   *)
(* the worker processes of one run through a JSON file and a lock file.    *)
(*                                                                         *)
(* An action is one system call on the two files, with the local           *)
(* computation that follows it.  A process may be slow at any point, and   *)
(* may be killed at any point (the regression scheduler terminates workers *)
(* that exceed their hard timeout), which leaves its lock file behind.     *)
(***************************************************************************)
EXTENDS BreakerEntry

CONSTANTS
  Procs,              \* worker processes
  Keys, Absent,       \* as in Breaker
  NoProc,
  LockTimeout,        \* _FileLock's timeout: of a wait, and of a lock file
  DiskErrors,         \* whether reading or writing the health file may fail
  MaxCrashes          \* bound: processes killed

ASSUME StoreAssumption ==
  /\ LockTimeout \in Nat \ {0}
  /\ DiskErrors \in BOOLEAN
  /\ MaxCrashes \in Nat
  /\ NoProc \notin Procs
  /\ Keys # {}
  /\ Absent \notin Entry

VARIABLES
  file,               \* the health file: an entry per key
  lock,               \* the lock file: who created it ("NoProc": absent), its age
  pc,                 \* where each process is
  op, key,            \* the operation it performs
  waited,             \* time it has waited for the lock
  acquired,           \* _FileLock._acquired
  copy,               \* the entries it loaded and updated
  skip,               \* is_open's answer
  failedAgo,          \* time since a failure of the key was last recorded
  crashes

vars == <<file, lock, pc, op, key, waited, acquired, copy, skip, failedAgo, crashes>>

Ops    == {"look", "success", "failure"}
Table  == [Keys -> Entry \cup {Absent}]
NoLock == [owner |-> NoProc, age |-> 0]
Empty  == [k \in Keys |-> Absent]
AnyKey == CHOOSE k \in Keys : TRUE

TypeOK ==
  /\ file \in Table
  /\ lock \in [owner : Procs \cup {NoProc}, age : 0 .. LockTimeout + 1]
  /\ pc \in [Procs -> {"idle", "locking", "contended", "removing", "loading", "saving",
                       "unlocking", "dead"}]
  /\ op \in [Procs -> Ops]
  /\ key \in [Procs -> Keys]
  /\ waited \in [Procs -> 0 .. LockTimeout]
  /\ acquired \in [Procs -> BOOLEAN]
  /\ copy \in [Procs -> Table]
  /\ skip \in [Procs -> BOOLEAN]
  /\ failedAgo \in [Keys -> 0 .. Longest]
  /\ crashes \in 0 .. MaxCrashes

Init ==
  /\ file = Empty
  /\ lock = NoLock
  /\ pc = [p \in Procs |-> "idle"]
  /\ op = [p \in Procs |-> "look"]
  /\ key = [p \in Procs |-> AnyKey]
  /\ waited = [p \in Procs |-> 0]
  /\ acquired = [p \in Procs |-> FALSE]
  /\ copy = [p \in Procs |-> Empty]
  /\ skip = [p \in Procs |-> FALSE]
  /\ failedAgo = [k \in Keys |-> Longest]
  /\ crashes = 0

Goto(p, l) == pc' = [pc EXCEPT ![p] = l]

(* The operation's local variables go out of scope.                         *)
Forget(p) ==
  /\ op' = [op EXCEPT ![p] = "look"]
  /\ key' = [key EXCEPT ![p] = AnyKey]
  /\ waited' = [waited EXCEPT ![p] = 0]
  /\ acquired' = [acquired EXCEPT ![p] = FALSE]
  /\ copy' = [copy EXCEPT ![p] = Empty]
  /\ skip' = [skip EXCEPT ![p] = FALSE]

-----------------------------------------------------------------------------
(* is_open, record_success, record_failure are called.                      *)
Begin(p) ==
  /\ pc[p] = "idle"
  /\ \E o \in Ops, k \in Keys :
       /\ op' = [op EXCEPT ![p] = o]
       /\ key' = [key EXCEPT ![p] = k]
  /\ Goto(p, "locking")
  /\ UNCHANGED <<file, lock, waited, acquired, copy, skip, failedAgo, crashes>>

(* Mutant: the loop has no deadline.                                        *)
TimedOutNever(p) == FALSE

(* _FileLock.__enter__: os.open(O_CREAT | O_EXCL), once per turn of the loop.*)
TimedOut(p) == waited[p] >= LockTimeout
Locked      == lock.owner # NoProc

CreateLock(p) ==
  /\ pc[p] = "locking" /\ ~TimedOut(p)
  /\ ~Locked
  /\ lock' = [owner |-> p, age |-> 0]
  /\ acquired' = [acquired EXCEPT ![p] = TRUE]
  /\ Goto(p, "loading")
  /\ UNCHANGED <<file, op, key, waited, copy, skip, failedAgo, crashes>>

MeetLock(p) ==
  /\ pc[p] = "locking" /\ ~TimedOut(p)
  /\ Locked
  /\ Goto(p, "contended")
  /\ UNCHANGED <<file, lock, op, key, waited, acquired, copy, skip, failedAgo, crashes>>

(* os.path.getmtime: the lock file is recent, or gone; then sleep(0.02).    *)
LockIsOld == Locked /\ lock.age > LockTimeout

WaitForLock(p) ==
  /\ pc[p] = "contended"
  /\ ~LockIsOld
  /\ Goto(p, "locking")
  /\ UNCHANGED <<file, lock, op, key, waited, acquired, copy, skip, failedAgo, crashes>>

FindStaleLock(p) ==
  /\ pc[p] = "contended"
  /\ LockIsOld
  /\ Goto(p, "removing")
  /\ UNCHANGED <<file, lock, op, key, waited, acquired, copy, skip, failedAgo, crashes>>

(* os.remove of whatever lock file is there by now.                         *)
RemoveStaleLock(p) ==
  /\ pc[p] = "removing"
  /\ lock' = NoLock
  /\ Goto(p, "locking")
  /\ UNCHANGED <<file, op, key, waited, acquired, copy, skip, failedAgo, crashes>>

(* __enter__ returns False, at its deadline or because the lock file cannot *)
(* be created at all; its callers do not look at what it returns.           *)
GiveUp(p) ==
  /\ pc[p] = "locking"
  /\ TimedOut(p) \/ DiskErrors
  /\ Goto(p, "loading")
  /\ UNCHANGED <<file, lock, op, key, waited, acquired, copy, skip, failedAgo, crashes>>

-----------------------------------------------------------------------------
OrFresh(e) == IF e = Absent THEN Fresh ELSE e

Applied(o, e) ==
  CASE o = "look"    -> CooledDown(e)
    [] o = "success" -> Succeeded(OrFresh(e))
    [] o = "failure" -> Failed(OrFresh(e))

(* _load, and the update in memory.  A file that cannot be read counts as   *)
(* empty.  is_open of an unknown key returns at once.                       *)
Load(p) ==
  /\ pc[p] = "loading"
  /\ \E entries \in {file} \cup (IF DiskErrors THEN {Empty} ELSE {}) :
       LET k == key[p]
           e == Applied(op[p], entries[k])
       IN  IF op[p] = "look" /\ entries[k] = Absent
           THEN /\ Goto(p, "unlocking")
                /\ UNCHANGED <<copy, skip, failedAgo>>
           ELSE /\ copy' = [copy EXCEPT ![p] = [entries EXCEPT ![k] = e]]
                /\ skip' = [skip EXCEPT ![p] = op[p] = "look" /\ e.state = "open"]
                /\ failedAgo' = IF op[p] = "failure" THEN [failedAgo EXCEPT ![k] = 0]
                                ELSE failedAgo
                /\ Goto(p, "saving")
  /\ UNCHANGED <<file, lock, op, key, waited, acquired, crashes>>

(* _save: os.replace of a complete temporary file; an OSError is swallowed. *)
Save(p) ==
  /\ pc[p] = "saving"
  /\ \/ file' = copy[p]
     \/ DiskErrors /\ UNCHANGED file
  /\ Goto(p, "unlocking")
  /\ UNCHANGED <<lock, op, key, waited, acquired, copy, skip, failedAgo, crashes>>

(* _FileLock.__exit__: os.remove of whatever lock file is there, if ours    *)
(* was ever created.                                                        *)
Unlock(p) ==
  /\ pc[p] = "unlocking"
  /\ lock' = IF acquired[p] THEN NoLock ELSE lock
  /\ Goto(p, "idle")
  /\ Forget(p)
  /\ UNCHANGED <<file, failedAgo, crashes>>

-----------------------------------------------------------------------------
(* reset(): called by the driver before it starts any worker.               *)
Reset ==
  /\ \A p \in Procs : pc[p] = "idle"
  /\ file' = Empty
  /\ UNCHANGED <<lock, pc, op, key, waited, acquired, copy, skip, failedAgo, crashes>>

(* A worker is terminated; the scheduler starts another one in its place.   *)
Crash(p) ==
  /\ pc[p] # "dead" /\ crashes < MaxCrashes
  /\ crashes' = crashes + 1
  /\ Goto(p, "dead")
  /\ Forget(p)
  /\ UNCHANGED <<file, lock, failedAgo>>

Respawn(p) ==
  /\ pc[p] = "dead"
  /\ Goto(p, "idle")
  /\ UNCHANGED <<file, lock, op, key, waited, acquired, copy, skip, failedAgo, crashes>>

(* A process that is between __enter__ and having the lock, or giving it up. *)
Waiting(p) == pc[p] \in {"locking", "contended", "removing"}

AgedTable(t) == [k \in Keys |-> IF t[k] = Absent THEN Absent ELSE Aged(t[k])]

(* Time passes whatever the processes do: each may be slow at any point.     *)
Tick ==
  /\ file' = AgedTable(file)
  /\ copy' = [p \in Procs |-> AgedTable(copy[p])]
  /\ failedAgo' = [k \in Keys |-> Older(failedAgo[k])]
  /\ lock' = [lock EXCEPT !.age = IF Locked /\ @ <= LockTimeout THEN @ + 1 ELSE @]
  /\ waited' = [p \in Procs |-> IF Waiting(p) /\ waited[p] < LockTimeout
                                THEN waited[p] + 1 ELSE waited[p]]
  /\ UNCHANGED <<pc, op, key, acquired, skip, crashes>>

-----------------------------------------------------------------------------
ProcStep(p) ==
  \/ CreateLock(p) \/ MeetLock(p) \/ WaitForLock(p) \/ FindStaleLock(p)
  \/ RemoveStaleLock(p) \/ GiveUp(p) \/ Load(p) \/ Save(p) \/ Unlock(p)

Next ==
  \/ \E p \in Procs : Begin(p) \/ ProcStep(p) \/ Crash(p) \/ Respawn(p)
  \/ Reset \/ Tick

Spec == Init /\ [][Next]_vars

(* The operating system runs every live process, and time passes.           *)
FairSpec == Spec /\ WF_vars(Tick) /\ \A p \in Procs : WF_vars(ProcStep(p))
=============================================================================
