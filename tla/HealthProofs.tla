------------------------------ MODULE HealthProofs ------------------------------
(***************************************************************************)
(* Theorems about the shared provider-health file, without any assumption  *)
(* on processes, disk and crashes: entries stay coherent and a provider is *)
(* skipped only after a recent failure.                                    *)
(***************************************************************************)
EXTENDS HealthProperties, BreakerProofs, TLAPS

USE StoreAssumption

-----------------------------------------------------------------------------
(* A table of coherent entries, none of them opened after the last failure  *)
(* recorded for its key.                                                    *)
Good(t, ago) ==
  /\ t \in Table
  /\ \A k \in Keys : t[k] # Absent => Coherent(t[k]) /\ ago[k] <= t[k].openedAgo

StoreInv ==
  /\ TypeOK
  /\ Good(file, failedAgo)
  /\ \A p \in Procs : Good(copy[p], failedAgo)

LEMMA EmptyGood ==
  ASSUME NEW ago PROVE Good(Empty, ago)
BY DEF Good, Empty, Table

(* The operation on one entry, and the age its key's last failure then has. *)
LEMMA AppliedGood ==
  ASSUME NEW t, NEW ago \in [Keys -> 0 .. Longest], Good(t, ago),
         NEW o \in Ops, NEW k \in Keys, o = "look" => t[k] # Absent,
         NEW ago2, ago2 = IF o = "failure" THEN [ago EXCEPT ![k] = 0] ELSE ago
  PROVE  LET e == Applied(o, t[k])
         IN  Coherent(e) /\ Good([t EXCEPT ![k] = e], ago2) /\ ago2[k] <= e.openedAgo
<1>. DEFINE e == Applied(o, t[k])
<1>1. Coherent(OrFresh(t[k])) /\ ago[k] <= OrFresh(t[k]).openedAgo
  BY FreshCoherent DEF Good, OrFresh
<1>2. Coherent(e) /\ ago2[k] <= e.openedAgo
  <2>1. CASE o = "look"
    BY <2>1, CooledDownCoherent DEF Applied, Good
  <2>2. CASE o = "success"
    BY <2>2, <1>1, SucceededCoherent DEF Applied
  <2>3. CASE o = "failure"
    <3>1. Coherent(e) BY <2>3, <1>1, FailedCoherent DEF Applied
    <3>2. e.openedAgo \in 0 .. Longest BY <3>1 DEF Coherent, Entry
    <3>. QED BY <2>3, <3>1, <3>2, LongestBounds
  <2>. QED BY <2>1, <2>2, <2>3 DEF Ops
<1>3. e \in Entry
  BY <1>2 DEF Coherent
<1>4. [t EXCEPT ![k] = e] \in Table
  BY <1>3 DEF Good, Table
<1>5. \A l \in Keys : ago2[l] <= ago[l]
  BY LongestBounds
<1>6. ASSUME NEW l \in Keys, [t EXCEPT ![k] = e][l] # Absent
      PROVE  Coherent([t EXCEPT ![k] = e][l]) /\ ago2[l] <= [t EXCEPT ![k] = e][l].openedAgo
  <2>1. CASE l = k
    BY <2>1, <1>2 DEF Good, Table
  <2>2. CASE l # k
    BY <2>2, <1>6 DEF Good, Table
  <2>. QED BY <2>1, <2>2
<1>. QED BY <1>2, <1>4, <1>6 DEF Good

LEMMA AgedGood ==
  ASSUME NEW t, NEW ago \in [Keys -> 0 .. Longest], Good(t, ago)
  PROVE  Good(AgedTable(t), [k \in Keys |-> Older(ago[k])])
<1>1. ASSUME NEW k \in Keys, t[k] # Absent
      PROVE  /\ Coherent(Aged(t[k])) /\ Aged(t[k]) \in Entry
             /\ Older(ago[k]) <= Aged(t[k]).openedAgo
  <2>1. Coherent(t[k]) /\ t[k].openedAgo \in 0 .. Longest /\ ago[k] <= t[k].openedAgo
    BY <1>1 DEF Good, Coherent, Entry
  <2>. QED BY <2>1, AgedCoherent, OlderMonotone DEF Coherent
<1>. QED BY <1>1 DEF Good, AgedTable, Table

(* Failures only get younger: what was good for the old ages stays good.    *)
LEMMA YoungerGood ==
  ASSUME NEW t, NEW ago \in [Keys -> 0 .. Longest], Good(t, ago), NEW k \in Keys
  PROVE  Good(t, [ago EXCEPT ![k] = 0])
<1>1. ASSUME NEW l \in Keys, t[l] # Absent
      PROVE  [ago EXCEPT ![k] = 0][l] <= t[l].openedAgo
  BY <1>1 DEF Good, Coherent, Entry
<1>. QED BY <1>1 DEF Good

-----------------------------------------------------------------------------
LEMMA StoreInit == Init => StoreInv
<1>1. Init => TypeOK
  BY LongestBounds DEF Init, TypeOK, Empty, Table, NoLock, Ops, AnyKey
<1>2. Init => Good(file, failedAgo) /\ \A p \in Procs : Good(copy[p], failedAgo)
  BY EmptyGood DEF Init
<1>. QED BY <1>1, <1>2 DEF StoreInv

LEMMA LoadStep ==
  ASSUME StoreInv, NEW p \in Procs, Load(p)
  PROVE  StoreInv' /\ (skip'[p] /\ ~skip[p] => failedAgo[key[p]] < Longest)
<1>1. PICK entries \in {file} \cup (IF DiskErrors THEN {Empty} ELSE {}) : Load(p)!2!(entries)
  BY DEF Load
<1>. DEFINE k == key[p]
            e == Applied(op[p], entries[k])
<1>2. Good(entries, failedAgo) /\ k \in Keys /\ op[p] \in Ops
  BY EmptyGood DEF TypeOK, StoreInv
<1>3. UNCHANGED <<file, lock, op, key, waited, acquired, crashes>>
  BY DEF Load
<1>4. CASE op[p] = "look" /\ entries[k] = Absent
  <2>1. UNCHANGED <<copy, skip, failedAgo>> /\ Goto(p, "unlocking")
    BY <1>1, <1>4
  <2>2. TypeOK'
    BY <2>1, <1>3 DEF TypeOK, Goto, StoreInv
  <2>3. Good(file, failedAgo)' /\ (\A q \in Procs : Good(copy[q], failedAgo))'
    BY <2>1, <1>3 DEF StoreInv
  <2>. QED BY <2>1, <2>2, <2>3 DEF StoreInv
<1>5. CASE ~(op[p] = "look" /\ entries[k] = Absent)
  <2>1. /\ copy' = [copy EXCEPT ![p] = [entries EXCEPT ![k] = e]]
        /\ skip' = [skip EXCEPT ![p] = op[p] = "look" /\ e.state = "open"]
        /\ failedAgo' = IF op[p] = "failure" THEN [failedAgo EXCEPT ![k] = 0] ELSE failedAgo
        /\ Goto(p, "saving")
    BY <1>1, <1>5
  <2>2. failedAgo \in [Keys -> 0 .. Longest]
    BY DEF TypeOK, StoreInv
  <2>3. Coherent(e) /\ Good([entries EXCEPT ![k] = e], failedAgo') /\ failedAgo'[k] <= e.openedAgo
    BY <2>1, <2>2, <1>2, <1>5, AppliedGood
  <2>4. Good(file, failedAgo)' /\ \A q \in Procs : Good(copy[q], failedAgo')
    BY <2>1, <2>2, <1>2, <1>3, YoungerGood DEF StoreInv
  <2>5. \A q \in Procs : Good(copy'[q], failedAgo')
    BY <2>1, <2>3, <2>4 DEF TypeOK, StoreInv
  <2>6. TypeOK'
    <3>1. copy' \in [Procs -> Table]
      BY <2>1, <2>3 DEF TypeOK, Good, StoreInv
    <3>2. failedAgo' \in [Keys -> 0 .. Longest]
      BY <2>1, <2>2, <1>2, LongestBounds
    <3>3. pc' \in [Procs -> {"idle", "locking", "contended", "removing", "loading", "saving",
                       "unlocking", "dead"}] /\ skip' \in [Procs -> BOOLEAN]
      BY <2>1 DEF TypeOK, Goto, StoreInv
    <3>. QED BY <3>1, <3>2, <3>3, <1>3 DEF TypeOK, StoreInv
  <2>7. ASSUME skip'[p] PROVE failedAgo[k] < Longest
    <3>1. op[p] = "look" /\ e.state = "open"
      BY <2>1, <2>7 DEF TypeOK, StoreInv
    <3>2. e = CooledDown(entries[k]) /\ entries[k] # Absent
      BY <3>1, <1>5 DEF Applied
    <3>3. e.openedAgo < e.cooldown /\ e.openedAgo \in Nat /\ e.cooldown \in 0 .. Longest
      BY <3>1, <3>2, <1>2 DEF CooledDown, Good, Coherent, Entry
    <3>. QED BY <3>1, <3>3, <2>1, <2>2, <2>3, <1>2, LongestBounds
  <2>8. StoreInv'
    <3>1. Good(file, failedAgo)' /\ (\A q \in Procs : Good(copy[q], failedAgo))'
      BY <2>4, <2>5
    <3>. QED BY <3>1, <2>6 DEF StoreInv
  <2>. QED BY <2>7, <2>8
<1>. QED BY <1>4, <1>5

LEMMA SaveStep ==
  ASSUME StoreInv, NEW p \in Procs, Save(p)
  PROVE  StoreInv'
<1>1. file' = copy[p] \/ file' = file
  BY DEF Save
<1>2. TypeOK'
  BY <1>1 DEF Save, TypeOK, Goto, StoreInv
<1>3. Good(file, failedAgo)' /\ (\A q \in Procs : Good(copy[q], failedAgo))'
  BY <1>1 DEF Save, StoreInv
<1>. QED BY <1>2, <1>3 DEF StoreInv

LEMMA ForgetStep ==
  ASSUME StoreInv, NEW p \in Procs, Forget(p)
  PROVE  /\ op' \in [Procs -> Ops] /\ key' \in [Procs -> Keys]
         /\ waited' \in [Procs -> 0 .. LockTimeout] /\ acquired' \in [Procs -> BOOLEAN]
         /\ copy' \in [Procs -> Table] /\ skip' \in [Procs -> BOOLEAN]
         /\ \A q \in Procs : Good(copy'[q], failedAgo)
<1>1. TypeOK /\ Good(Empty, failedAgo) /\ \A q \in Procs : Good(copy[q], failedAgo)
  BY EmptyGood DEF StoreInv
<1>2. copy' \in [Procs -> Table] /\ \A q \in Procs : Good(copy'[q], failedAgo)
  BY <1>1 DEF Forget, TypeOK, Good
<1>. QED BY <1>1, <1>2 DEF Forget, TypeOK, Ops, AnyKey

(* Actions that touch neither the file nor a loaded copy.                   *)
LEMMA QuietStep ==
  ASSUME StoreInv, TypeOK', UNCHANGED <<file, copy, failedAgo>>
  PROVE  StoreInv'
BY DEF StoreInv

LEMMA LockingStep ==
  ASSUME StoreInv, NEW p \in Procs,
         \/ Begin(p) \/ CreateLock(p) \/ MeetLock(p) \/ WaitForLock(p) \/ FindStaleLock(p)
         \/ RemoveStaleLock(p) \/ GiveUp(p) \/ Respawn(p)
  PROVE  StoreInv' /\ skip' = skip
<1>. USE DEF Goto, TypeOK, NoLock
<1>0. TypeOK BY DEF StoreInv
<1>1. CASE Begin(p) BY <1>0, <1>1, QuietStep DEF Begin
<1>2. CASE CreateLock(p) BY <1>0, <1>2, QuietStep DEF CreateLock
<1>3. CASE MeetLock(p) BY <1>0, <1>3, QuietStep DEF MeetLock
<1>4. CASE WaitForLock(p) BY <1>0, <1>4, QuietStep DEF WaitForLock
<1>5. CASE FindStaleLock(p) BY <1>0, <1>5, QuietStep DEF FindStaleLock
<1>6. CASE RemoveStaleLock(p) BY <1>0, <1>6, QuietStep DEF RemoveStaleLock
<1>7. CASE GiveUp(p) BY <1>0, <1>7, QuietStep DEF GiveUp
<1>8. CASE Respawn(p) BY <1>0, <1>8, QuietStep DEF Respawn
<1>. QED BY <1>1, <1>2, <1>3, <1>4, <1>5, <1>6, <1>7, <1>8

LEMMA LeavingStep ==
  ASSUME StoreInv, NEW p \in Procs, Unlock(p) \/ Crash(p)
  PROVE  StoreInv' /\ skip' = [skip EXCEPT ![p] = FALSE]
<1>1. Forget(p) /\ UNCHANGED <<file, failedAgo>>
  BY DEF Unlock, Crash
<1>2. /\ op' \in [Procs -> Ops] /\ key' \in [Procs -> Keys]
      /\ waited' \in [Procs -> 0 .. LockTimeout] /\ acquired' \in [Procs -> BOOLEAN]
      /\ copy' \in [Procs -> Table] /\ skip' \in [Procs -> BOOLEAN]
      /\ \A q \in Procs : Good(copy'[q], failedAgo)
  BY <1>1, ForgetStep
<1>3. TypeOK'
  BY <1>1, <1>2 DEF Unlock, Crash, TypeOK, Goto, NoLock, StoreInv
<1>4. (\A q \in Procs : Good(copy[q], failedAgo))' /\ Good(file, failedAgo)'
  BY <1>1, <1>2 DEF StoreInv
<1>. QED BY <1>1, <1>3, <1>4 DEF Forget, StoreInv

LEMMA ResetStep ==
  ASSUME StoreInv, Reset
  PROVE  StoreInv' /\ skip' = skip
<1>1. TypeOK'
  BY DEF Reset, TypeOK, Empty, Table, StoreInv
<1>2. Good(file, failedAgo)' /\ (\A q \in Procs : Good(copy[q], failedAgo))'
  BY EmptyGood DEF Reset, StoreInv
<1>. QED BY <1>1, <1>2 DEF Reset, StoreInv

LEMMA TickStep ==
  ASSUME StoreInv, Tick
  PROVE  StoreInv' /\ skip' = skip
<1>1. TypeOK /\ Good(file, failedAgo) /\ \A p \in Procs : Good(copy[p], failedAgo)
  BY DEF StoreInv
<1>2. Good(file, failedAgo)' /\ (\A p \in Procs : Good(copy[p], failedAgo))'
  <2>1. failedAgo \in [Keys -> 0 .. Longest]
    BY <1>1 DEF TypeOK
  <2>. QED BY <1>1, <2>1, AgedGood DEF Tick
<1>3. failedAgo' \in [Keys -> 0 .. Longest]
  BY <1>1, OlderMonotone DEF Tick, TypeOK
<1>4. file' \in Table /\ copy' \in [Procs -> Table]
  BY <1>2 DEF Good, Tick
<1>5. waited' \in [Procs -> 0 .. LockTimeout]
  BY <1>1 DEF Tick, TypeOK
<1>6. lock' \in [owner : Procs \cup {NoProc}, age : 0 .. LockTimeout + 1]
  BY <1>1 DEF Tick, TypeOK
<1>7. TypeOK'
  BY <1>1, <1>3, <1>4, <1>5, <1>6 DEF Tick, TypeOK
<1>. QED BY <1>2, <1>7 DEF Tick, StoreInv

LEMMA StoreStep ==
  ASSUME StoreInv, [Next]_vars
  PROVE  StoreInv' /\ \A p \in Procs : skip'[p] /\ ~skip[p] => failedAgo[key[p]] < Longest
<1>. DEFINE Answered == \A p \in Procs : skip'[p] /\ ~skip[p] => failedAgo[key[p]] < Longest
<1>1. CASE UNCHANGED vars
  <2>1. UNCHANGED <<file, lock, pc, op, key, waited, acquired, copy, skip, failedAgo, crashes>>
    BY <1>1 DEF vars
  <2>2. TypeOK'
    BY <2>1 DEF TypeOK, StoreInv
  <2>. QED BY <2>1, <2>2, QuietStep
<1>2. ASSUME NEW p \in Procs, Begin(p) \/ ProcStep(p) \/ Crash(p) \/ Respawn(p)
      PROVE  StoreInv' /\ Answered
  <2>1. CASE Load(p)
    <3>1. \A q \in Procs \ {p} : skip'[q] = skip[q]
      BY <2>1 DEF Load, TypeOK, StoreInv
    <3>. QED BY <2>1, <3>1, LoadStep
  <2>2. CASE Save(p)
    BY <2>2, SaveStep DEF Save
  <2>3. CASE Unlock(p) \/ Crash(p)
    <3>1. \A q \in Procs : skip'[q] => skip[q]
      BY <2>3, LeavingStep DEF TypeOK, StoreInv
    <3>. QED BY <2>3, <3>1, LeavingStep
  <2>4. CASE \/ Begin(p) \/ CreateLock(p) \/ MeetLock(p) \/ WaitForLock(p) \/ FindStaleLock(p)
             \/ RemoveStaleLock(p) \/ GiveUp(p) \/ Respawn(p)
    BY <2>4, LockingStep
  <2>. QED BY <1>2, <2>1, <2>2, <2>3, <2>4 DEF ProcStep
<1>3. CASE Reset
  BY <1>3, ResetStep
<1>4. CASE Tick
  BY <1>4, TickStep
<1>. QED BY <1>1, <1>2, <1>3, <1>4 DEF Next

(* Under every interleaving, kill and disk error: types hold and every      *)
(* stored or loaded breaker is coherent.                                    *)
THEOREM Coherence == Spec => [](TypeOK /\ EntriesCoherent)
<1>1. Spec => []StoreInv
  BY StoreInit, StoreStep, PTL DEF Spec
<1>2. StoreInv => TypeOK /\ EntriesCoherent
  BY DEF StoreInv, Good, EntriesCoherent, Sane
<1>. QED BY <1>1, <1>2, PTL

(* is_open only answers "skip" within one longest cooldown of a failure.    *)
THEOREM SkipJustified == Spec => SkipHasRecentFailure
<1>1. StoreInv /\ [Next]_vars =>
        [\A p \in Procs : skip'[p] /\ ~skip[p] => failedAgo[key[p]] < Longest]_vars
  BY StoreStep
<1>2. StoreInv /\ [Next]_vars => StoreInv'
  BY StoreStep
<1>. QED BY <1>1, <1>2, StoreInit, PTL DEF Spec, SkipHasRecentFailure
=============================================================================
