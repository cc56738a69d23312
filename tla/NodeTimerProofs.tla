--------------------------- MODULE NodeTimerProofs ---------------------------
(***************************************************************************)
(* Proofs about a node's own rollback timers, for any number of timers and *)
(* of crashes of the node's daemon.                                        *)
(***************************************************************************)
EXTENDS NodeTimer, TLAPS

\* Type correctness, the basis of the proofs below: no interleaving of
\* ArmTimer, CancelTimer, fire, a crash and a restart leaves the states that
\* localtimer.go and the node_timers table know.
THEOREM TimerTypeCorrect == Spec => []TypeOK
<1> USE SettingsAssumption DEF TypeOK, RowStatus, Timer
<1>1. Init => TypeOK
  BY DEF Init
<1>2. TypeOK /\ [Next]_vars => TypeOK'
  <2> SUFFICES ASSUME TypeOK, [Next]_vars PROVE TypeOK'
    OBVIOUS
  <2>1. ASSUME NEW k \in Keys, ArmPersist(k) PROVE TypeOK'
    BY <2>1 DEF ArmPersist
  <2>2. ASSUME NEW k \in Keys, ArmRealTimer(k) PROVE TypeOK'
    BY <2>2 DEF ArmRealTimer
  <2>3. ASSUME NEW k \in Keys, Reload(k) PROVE TypeOK'
    BY <2>3 DEF Reload
  <2>4. ASSUME NEW k \in Keys, CancelStop(k) PROVE TypeOK'
    BY <2>4 DEF CancelStop
  <2>5. ASSUME NEW k \in Keys, CancelRead(k) PROVE TypeOK'
    BY <2>5 DEF CancelRead
  <2>6. ASSUME NEW k \in Keys, CancelResolve(k) PROVE TypeOK'
    BY <2>6 DEF CancelResolve
  <2>7. ASSUME NEW k \in Keys, Expire(k) PROVE TypeOK'
    BY <2>7 DEF Expire
  <2>8. ASSUME NEW k \in Keys, FireRead(k) PROVE TypeOK'
    BY <2>8 DEF FireRead
  <2>9. ASSUME NEW k \in Keys, FireRestore(k) PROVE TypeOK'
    BY <2>9 DEF FireRestore
  <2>10. ASSUME NEW k \in Keys, FireResolve(k) PROVE TypeOK'
    BY <2>10 DEF FireResolve
  <2>11. CASE Crash
    <3>1. crashes' \in 0..MaxCrashes
      BY <2>11 DEF Crash
    <3>2. arm' \in [Keys -> {"idle", "persisted", "acked", "reloaded"}]
      BY <2>11 DEF Crash
    <3> QED
      BY <2>11, <3>1, <3>2 DEF Crash
  <2>12. CASE ArmPendingOnStartup
    BY <2>12 DEF ArmPendingOnStartup, Rearmed
  <2>13. CASE UNCHANGED vars
    BY <2>13 DEF vars
  <2> QED
    BY <2>1, <2>2, <2>3, <2>4, <2>5, <2>6, <2>7, <2>8, <2>9, <2>10, <2>11, <2>12,
       <2>13 DEF Next, Fire
<1> QED
  BY <1>1, <1>2, PTL DEF Spec

\* Where a callback that has restored the node stands: the step between the
\* restore and the write of rolled_back.
RestoredIsTrue == \A k \in Keys : timers[k] = "restored" => cfg[k] = "pre"

\* What rolled_back claims is true needs the callback's own claim: fire
\* restores the node first and writes the row afterwards, and a reload of the
\* coordinator may come in between (it then finds no staged file).
TruthInv == TypeOK /\ RestoredIsTrue /\ RolledBackIsTrue

\* A node_timers row never says rolled_back of a node that runs the change,
\* also when store accesses of the node fail and its daemon crashes.
THEOREM RolledBackTruth == Spec => []RolledBackIsTrue
<1> USE DEF TruthInv, RestoredIsTrue, RolledBackIsTrue, TypeOK, RowStatus, Timer
<1>1. Init => TruthInv
  BY SettingsAssumption DEF Init
<1>2. TruthInv /\ TypeOK' /\ [Next]_vars => TruthInv'
  <2> SUFFICES ASSUME TruthInv, TypeOK', [Next]_vars PROVE TruthInv'
    OBVIOUS
  <2>1. ASSUME NEW k \in Keys, ArmPersist(k) PROVE TruthInv'
    BY <2>1 DEF ArmPersist
  <2>2. ASSUME NEW k \in Keys, ArmRealTimer(k) PROVE TruthInv'
    BY <2>2 DEF ArmRealTimer
  <2>3. ASSUME NEW k \in Keys, Reload(k) PROVE TruthInv'
    BY <2>3 DEF Reload
  <2>4. ASSUME NEW k \in Keys, CancelStop(k) PROVE TruthInv'
    BY <2>4 DEF CancelStop
  <2>5. ASSUME NEW k \in Keys, CancelRead(k) PROVE TruthInv'
    BY <2>5 DEF CancelRead
  <2>6. ASSUME NEW k \in Keys, CancelResolve(k) PROVE TruthInv'
    BY <2>6 DEF CancelResolve
  <2>7. ASSUME NEW k \in Keys, Expire(k) PROVE TruthInv'
    BY <2>7 DEF Expire
  <2>8. ASSUME NEW k \in Keys, FireRead(k) PROVE TruthInv'
    BY <2>8 DEF FireRead
  <2>9. ASSUME NEW k \in Keys, FireRestore(k) PROVE TruthInv'
    BY <2>9 DEF FireRestore
  <2>10. ASSUME NEW k \in Keys, FireResolve(k) PROVE TruthInv'
    BY <2>10 DEF FireResolve
  <2>11. CASE Crash
    BY <2>11 DEF Crash
  <2>12. CASE ArmPendingOnStartup
    BY <2>12 DEF ArmPendingOnStartup, Rearmed
  <2>13. CASE UNCHANGED vars
    BY <2>13 DEF vars
  <2> QED
    BY <2>1, <2>2, <2>3, <2>4, <2>5, <2>6, <2>7, <2>8, <2>9, <2>10, <2>11, <2>12,
       <2>13 DEF Next, Fire
<1> QED
  <2>1. TruthInv => RolledBackIsTrue
    OBVIOUS
  <2> QED
    BY <1>1, <1>2, <2>1, TimerTypeCorrect, PTL DEF Spec

\* While the node's store works, a row that says armed always has something
\* that will resolve it: arming writes the row before the timer, cancelling
\* stops the timer before the row, and startup re-arms what it finds armed.
THEOREM ArmedIsCovered ==
    ASSUME StoreFaults = FALSE
    PROVE  Spec => []ArmedIsTimed
<1> USE DEF ArmedIsTimed, TypeOK, RowStatus, Timer
<1>1. Init => ArmedIsTimed
  BY DEF Init
<1>2. TypeOK /\ ArmedIsTimed /\ [Next]_vars => ArmedIsTimed'
  <2> SUFFICES ASSUME TypeOK, ArmedIsTimed, [Next]_vars PROVE ArmedIsTimed'
    OBVIOUS
  <2>0. StoreOk = {TRUE}
    BY DEF StoreOk
  <2>1. ASSUME NEW k \in Keys, ArmPersist(k) PROVE ArmedIsTimed'
    BY <2>1 DEF ArmPersist
  <2>2. ASSUME NEW k \in Keys, ArmRealTimer(k) PROVE ArmedIsTimed'
    BY <2>2 DEF ArmRealTimer
  <2>3. ASSUME NEW k \in Keys, Reload(k) PROVE ArmedIsTimed'
    BY <2>3 DEF Reload
  <2>4. ASSUME NEW k \in Keys, CancelStop(k) PROVE ArmedIsTimed'
    BY <2>4 DEF CancelStop
  <2>5. ASSUME NEW k \in Keys, CancelRead(k) PROVE ArmedIsTimed'
    BY <2>0, <2>5 DEF CancelRead
  <2>6. ASSUME NEW k \in Keys, CancelResolve(k) PROVE ArmedIsTimed'
    BY <2>0, <2>6 DEF CancelResolve
  <2>7. ASSUME NEW k \in Keys, Expire(k) PROVE ArmedIsTimed'
    BY <2>7 DEF Expire
  <2>8. ASSUME NEW k \in Keys, FireRead(k) PROVE ArmedIsTimed'
    BY <2>0, <2>8 DEF FireRead
  <2>9. ASSUME NEW k \in Keys, FireRestore(k) PROVE ArmedIsTimed'
    BY <2>9 DEF FireRestore
  <2>10. ASSUME NEW k \in Keys, FireResolve(k) PROVE ArmedIsTimed'
    BY <2>0, <2>10 DEF FireResolve
  <2>11. CASE Crash
    BY <2>11 DEF Crash
  <2>12. CASE ArmPendingOnStartup
    BY <2>12 DEF ArmPendingOnStartup, Rearmed
  <2>13. CASE UNCHANGED vars
    BY <2>13 DEF vars
  <2> QED
    BY <2>1, <2>2, <2>3, <2>4, <2>5, <2>6, <2>7, <2>8, <2>9, <2>10, <2>11, <2>12,
       <2>13 DEF Next, Fire
<1> QED
  BY <1>1, <1>2, TimerTypeCorrect, PTL DEF Spec
=============================================================================
