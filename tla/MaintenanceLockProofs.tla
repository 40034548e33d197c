------------------------ MODULE MaintenanceLockProofs ------------------------
(***************************************************************************)
(* Runs of one repository exclude each other and the status row covers the *)
(* run at work, for any number of servers, requests, connections and       *)
(* faults.                                                                 *)
(***************************************************************************)
EXTENDS MaintenanceLock, TLAPS

\* A run's connection is its own, taken from its server's pool.
OwnConnection ==
    /\ \A r \in Runner : Inside(r) => runner[r].conn \in Conn \ free
    /\ \A r, q \in Runner :
         Inside(r) /\ Inside(q) /\ r # q => runner[r].conn # runner[q].conn
    /\ \A r \in Runner : Inside(r) => runner[r].conn[1] = r[1]

\* A run whose session is alive holds the lock.
HoldsLock == \A r \in Runner : Inside(r) /\ r \notin broken => held[runner[r].conn] > 0

\* At most one connection holds the lock.
SingleHolder == \A c, d \in Conn : held[c] > 0 /\ held[d] > 0 => c = d

\* Only a run in progress can have lost its session.
BrokenInside == \A r \in broken : Inside(r)

IndInv == TypeOK /\ OwnConnection /\ HoldsLock /\ SingleHolder /\ BrokenInside

-----------------------------------------------------------------------------

\* No pool contains the placeholder.
LEMMA NoConnIsNone == NoConn \notin Conn
BY BoundAssumption DEF NoConn, Conn

\* The inductive invariant holds initially: nobody runs and every connection is
\* in its pool.
LEMMA InitIndInv == Init => IndInv
<1> SUFFICES ASSUME Init PROVE IndInv
  OBVIOUS
<1>1. \A r \in Runner : ~Inside(r)
  BY DEF Init, Inside, Locked, Idle
<1>2. TypeOK
  <2>1. runner \in [Runner -> [phase : Phase, conn : Conn \cup {NoConn}]]
    BY DEF Init, Idle, Phase
  <2>2. elapsed \in Int /\ faults \in Nat
    BY DEF Init, Never
  <2>3. held \in [Conn -> Nat]
    BY DEF Init
  <2>4. QED
    BY <2>1, <2>2, <2>3 DEF Init, TypeOK
<1>3. OwnConnection /\ HoldsLock
  BY <1>1 DEF OwnConnection, HoldsLock
<1>4. SingleHolder /\ BrokenInside
  BY DEF Init, SingleHolder, BrokenInside
<1>5. QED
  BY <1>2, <1>3, <1>4 DEF IndInv

\* Every action of the schedulers, the requests, the pool and the environment
\* preserves the inductive invariant.
LEMMA StepIndInv == IndInv /\ [Next]_vars => IndInv'
<1> USE NoConnIsNone DEF IndInv, Inside, Locked
<1> SUFFICES ASSUME IndInv, [Next]_vars PROVE IndInv'
  OBVIOUS
<1>1. ASSUME NEW r \in Runner, Decide(r) PROVE IndInv'
  <2>1. TypeOK'
    BY <1>1 DEF Decide, Goto, At, TypeOK, OwnConnection, Phase
  <2>2. OwnConnection'
    BY <1>1 DEF Decide, Goto, At, TypeOK, OwnConnection
  <2>3. HoldsLock'
    BY <1>1 DEF Decide, Goto, At, TypeOK, OwnConnection, HoldsLock
  <2>4. SingleHolder'
    BY <1>1 DEF Decide, Goto, At, TypeOK, OwnConnection, SingleHolder
  <2>5. BrokenInside'
    BY <1>1 DEF Decide, Goto, At, TypeOK, BrokenInside
  <2>6. QED
    BY <2>1, <2>2, <2>3, <2>4, <2>5
<1>2. ASSUME NEW r \in Runner, TryLock(r) PROVE IndInv'
  <2>1. TypeOK'
    BY <1>2 DEF TryLock, At, Lockable, Pool, TypeOK, OwnConnection, Phase
  <2>2. OwnConnection'
    BY <1>2 DEF TryLock, At, Lockable, Pool, TypeOK, OwnConnection
  <2>3. HoldsLock'
    BY <1>2 DEF TryLock, At, Lockable, Pool, TypeOK, OwnConnection, HoldsLock
  <2>4. SingleHolder'
    BY <1>2 DEF TryLock, At, Lockable, Pool, TypeOK, OwnConnection, SingleHolder
  <2>5. BrokenInside'
    BY <1>2 DEF TryLock, At, Lockable, Pool, TypeOK, BrokenInside
  <2>6. QED
    BY <2>1, <2>2, <2>3, <2>4, <2>5
<1>3. ASSUME NEW r \in Runner, AlreadyRunning(r) PROVE IndInv'
  <2>1. TypeOK'
    BY <1>3 DEF AlreadyRunning, At, Idle, TypeOK, OwnConnection, Phase
  <2>2. OwnConnection'
    BY <1>3 DEF AlreadyRunning, At, Idle, TypeOK, OwnConnection
  <2>3. HoldsLock'
    BY <1>3 DEF AlreadyRunning, At, Idle, TypeOK, OwnConnection, HoldsLock
  <2>4. SingleHolder'
    BY <1>3 DEF AlreadyRunning, At, Idle, TypeOK, OwnConnection, SingleHolder
  <2>5. BrokenInside'
    BY <1>3 DEF AlreadyRunning, At, Idle, TypeOK, BrokenInside
  <2>6. QED
    BY <2>1, <2>2, <2>3, <2>4, <2>5
<1>4. ASSUME NEW r \in Runner, MarkStarted(r) PROVE IndInv'
  <2>1. TypeOK'
    BY <1>4 DEF MarkStarted, Goto, At, TypeOK, OwnConnection, Phase
  <2>2. OwnConnection'
    BY <1>4 DEF MarkStarted, Goto, At, TypeOK, OwnConnection
  <2>3. HoldsLock'
    BY <1>4 DEF MarkStarted, Goto, At, TypeOK, OwnConnection, HoldsLock
  <2>4. SingleHolder'
    BY <1>4 DEF MarkStarted, Goto, At, TypeOK, OwnConnection, SingleHolder
  <2>5. BrokenInside'
    BY <1>4 DEF MarkStarted, Goto, At, TypeOK, BrokenInside
  <2>6. QED
    BY <2>1, <2>2, <2>3, <2>4, <2>5
<1>5. ASSUME NEW r \in Runner, Work(r) PROVE IndInv'
  <2>1. TypeOK'
    BY <1>5 DEF Work, Goto, At, TypeOK, OwnConnection, Phase
  <2>2. OwnConnection'
    BY <1>5 DEF Work, Goto, At, TypeOK, OwnConnection
  <2>3. HoldsLock'
    BY <1>5 DEF Work, Goto, At, TypeOK, OwnConnection, HoldsLock
  <2>4. SingleHolder'
    BY <1>5 DEF Work, Goto, At, TypeOK, OwnConnection, SingleHolder
  <2>5. BrokenInside'
    BY <1>5 DEF Work, Goto, At, TypeOK, BrokenInside
  <2>6. QED
    BY <2>1, <2>2, <2>3, <2>4, <2>5
<1>6. ASSUME NEW r \in Runner, MarkFinished(r) PROVE IndInv'
  <2>1. TypeOK'
    BY <1>6 DEF MarkFinished, Goto, At, TypeOK, OwnConnection, Phase
  <2>2. OwnConnection'
    BY <1>6 DEF MarkFinished, Goto, At, TypeOK, OwnConnection
  <2>3. HoldsLock'
    BY <1>6 DEF MarkFinished, Goto, At, TypeOK, OwnConnection, HoldsLock
  <2>4. SingleHolder'
    BY <1>6 DEF MarkFinished, Goto, At, TypeOK, OwnConnection, SingleHolder
  <2>5. BrokenInside'
    BY <1>6 DEF MarkFinished, Goto, At, TypeOK, BrokenInside
  <2>6. QED
    BY <2>1, <2>2, <2>3, <2>4, <2>5
<1>7. ASSUME NEW r \in Runner, Release(r) PROVE IndInv'
  <2>1. TypeOK'
    BY <1>7 DEF Release, Leave, Unlock, At, Idle, TypeOK, OwnConnection, Phase
  <2>2. OwnConnection'
    BY <1>7 DEF Release, Leave, Unlock, At, Idle, TypeOK, OwnConnection
  <2>3. HoldsLock'
    BY <1>7 DEF Release, Leave, Unlock, At, Idle, TypeOK, OwnConnection, HoldsLock
  <2>4. SingleHolder'
    BY <1>7 DEF Release, Leave, Unlock, At, Idle, TypeOK, OwnConnection, SingleHolder
  <2>5. BrokenInside'
    BY <1>7 DEF Release, Leave, Unlock, At, Idle, TypeOK, BrokenInside
  <2>6. QED
    BY <2>1, <2>2, <2>3, <2>4, <2>5
<1>8. ASSUME NEW r \in Runner, GiveUp(r) PROVE IndInv'
  <2>1. TypeOK'
    BY <1>8 DEF GiveUp, Fault, At, Idle, TypeOK, OwnConnection, Phase
  <2>2. OwnConnection'
    BY <1>8 DEF GiveUp, Fault, At, Idle, TypeOK, OwnConnection
  <2>3. HoldsLock'
    BY <1>8 DEF GiveUp, Fault, At, Idle, TypeOK, OwnConnection, HoldsLock
  <2>4. SingleHolder'
    BY <1>8 DEF GiveUp, Fault, At, Idle, TypeOK, OwnConnection, SingleHolder
  <2>5. BrokenInside'
    BY <1>8 DEF GiveUp, Fault, At, Idle, TypeOK, BrokenInside
  <2>6. QED
    BY <2>1, <2>2, <2>3, <2>4, <2>5
<1>9. ASSUME NEW r \in Runner, MarkStartedError(r) PROVE IndInv'
  <2>1. TypeOK'
    <3>1. elapsed' \in Int
      BY <1>9 DEF MarkStartedError, TypeOK
    <3>2. inProgress' \in BOOLEAN
      BY <1>9, Zenon DEF MarkStartedError, TypeOK
    <3>3. QED
      BY <1>9, <3>1, <3>2 DEF MarkStartedError, Fault, Close, Leave, At, Idle, TypeOK, OwnConnection, Phase
  <2>2. OwnConnection'
    BY <1>9 DEF MarkStartedError, Fault, Close, Leave, At, Idle, TypeOK, OwnConnection
  <2>3. HoldsLock'
    BY <1>9 DEF MarkStartedError, Fault, Close, Leave, At, Idle, TypeOK, OwnConnection, HoldsLock
  <2>4. SingleHolder'
    BY <1>9 DEF MarkStartedError, Fault, Close, Leave, At, Idle, TypeOK, OwnConnection, SingleHolder
  <2>5. BrokenInside'
    BY <1>9 DEF MarkStartedError, Fault, Close, Leave, At, Idle, TypeOK, BrokenInside
  <2>6. QED
    BY <2>1, <2>2, <2>3, <2>4, <2>5
<1>10. ASSUME NEW r \in Runner, MarkFinishedError(r) PROVE IndInv'
  <2>1. TypeOK'
    BY <1>10 DEF MarkFinishedError, Fault, Goto, At, TypeOK, OwnConnection, Phase
  <2>2. OwnConnection'
    BY <1>10 DEF MarkFinishedError, Fault, Goto, At, TypeOK, OwnConnection
  <2>3. HoldsLock'
    BY <1>10 DEF MarkFinishedError, Fault, Goto, At, TypeOK, OwnConnection, HoldsLock
  <2>4. SingleHolder'
    BY <1>10 DEF MarkFinishedError, Fault, Goto, At, TypeOK, OwnConnection, SingleHolder
  <2>5. BrokenInside'
    BY <1>10 DEF MarkFinishedError, Fault, Goto, At, TypeOK, BrokenInside
  <2>6. QED
    BY <2>1, <2>2, <2>3, <2>4, <2>5
<1>11. ASSUME NEW r \in Runner, ReleaseError(r) PROVE IndInv'
  <2>1. TypeOK'
    BY <1>11 DEF ReleaseError, Fault, Close, Leave, At, Idle, TypeOK, OwnConnection, Phase
  <2>2. OwnConnection'
    BY <1>11 DEF ReleaseError, Fault, Close, Leave, At, Idle, TypeOK, OwnConnection
  <2>3. HoldsLock'
    BY <1>11 DEF ReleaseError, Fault, Close, Leave, At, Idle, TypeOK, OwnConnection, HoldsLock
  <2>4. SingleHolder'
    BY <1>11 DEF ReleaseError, Fault, Close, Leave, At, Idle, TypeOK, OwnConnection, SingleHolder
  <2>5. BrokenInside'
    BY <1>11 DEF ReleaseError, Fault, Close, Leave, At, Idle, TypeOK, BrokenInside
  <2>6. QED
    BY <2>1, <2>2, <2>3, <2>4, <2>5
<1>12. ASSUME NEW r \in Runner, Cancel(r) PROVE IndInv'
  <2>1. TypeOK'
    BY <1>12 DEF Cancel, Fault, Leave, Idle, TypeOK, OwnConnection, Phase
  <2>2. OwnConnection'
    BY <1>12 DEF Cancel, Fault, Leave, Idle, TypeOK, OwnConnection
  <2>3. HoldsLock'
    BY <1>12 DEF Cancel, Fault, Leave, Idle, TypeOK, OwnConnection, HoldsLock
  <2>4. SingleHolder'
    BY <1>12 DEF Cancel, Fault, Leave, Idle, TypeOK, OwnConnection, SingleHolder
  <2>5. BrokenInside'
    BY <1>12 DEF Cancel, Fault, Leave, Idle, TypeOK, BrokenInside
  <2>6. QED
    BY <2>1, <2>2, <2>3, <2>4, <2>5
<1>13. ASSUME NEW r \in Runner, SessionLost(r) PROVE IndInv'
  <2>1. TypeOK'
    BY <1>13 DEF SessionLost, Fault, Close, TypeOK, OwnConnection, Phase
  <2>2. OwnConnection'
    BY <1>13 DEF SessionLost, Fault, Close, TypeOK, OwnConnection
  <2>3. HoldsLock'
    BY <1>13 DEF SessionLost, Fault, Close, TypeOK, OwnConnection, HoldsLock
  <2>4. SingleHolder'
    BY <1>13 DEF SessionLost, Fault, Close, TypeOK, OwnConnection, SingleHolder
  <2>5. BrokenInside'
    BY <1>13 DEF SessionLost, Fault, Close, TypeOK, BrokenInside
  <2>6. QED
    BY <2>1, <2>2, <2>3, <2>4, <2>5
<1>14. ASSUME NEW s \in Server, Crash(s) PROVE IndInv'
  <2>1. TypeOK'
    BY <1>14 DEF Crash, Fault, Idle, TypeOK, OwnConnection, Phase
  <2>2. OwnConnection'
    BY <1>14 DEF Crash, Fault, Idle, TypeOK, OwnConnection
  <2>3. HoldsLock'
    BY <1>14 DEF Crash, Fault, Idle, TypeOK, OwnConnection, HoldsLock
  <2>4. SingleHolder'
    BY <1>14 DEF Crash, Fault, Idle, TypeOK, OwnConnection, SingleHolder
  <2>5. BrokenInside'
    BY <1>14 DEF Crash, Fault, Idle, TypeOK, BrokenInside
  <2>6. QED
    BY <2>1, <2>2, <2>3, <2>4, <2>5
<1>15. ASSUME NEW c \in Conn, Reap(c) PROVE IndInv'
  <2>1. TypeOK'
    BY <1>15 DEF Reap, Close, TypeOK, OwnConnection, Phase
  <2>2. OwnConnection'
    BY <1>15 DEF Reap, Close, TypeOK, OwnConnection
  <2>3. HoldsLock'
    BY <1>15 DEF Reap, Close, TypeOK, OwnConnection, HoldsLock
  <2>4. SingleHolder'
    BY <1>15 DEF Reap, Close, TypeOK, OwnConnection, SingleHolder
  <2>5. BrokenInside'
    BY <1>15 DEF Reap, Close, TypeOK, BrokenInside
  <2>6. QED
    BY <2>1, <2>2, <2>3, <2>4, <2>5
<1>16. CASE Tick
  BY <1>16 DEF Tick, TypeOK, OwnConnection, HoldsLock, SingleHolder, BrokenInside
<1>17. CASE UNCHANGED vars
  BY <1>17 DEF vars, TypeOK, OwnConnection, HoldsLock, SingleHolder, BrokenInside
<1>18. QED
  BY <1>1, <1>2, <1>3, <1>4, <1>5, <1>6, <1>7, <1>8, <1>9, <1>10, <1>11, <1>12, <1>13, <1>14, <1>15, <1>16, <1>17 DEF Next, RunStep

\* Types of all variables, for any number of servers, connections and faults.
THEOREM TypeCorrect == Spec => []TypeOK
<1>1. IndInv => TypeOK
  BY DEF IndInv
<1>2. QED
  BY <1>1, InitIndInv, StepIndInv, PTL DEF Spec

\* Two live runs would be two connections holding the same advisory lock.
THEOREM RunsExclude == Spec => []MutualExclusion
<1>1. IndInv => MutualExclusion
  BY DEF IndInv, OwnConnection, HoldsLock, SingleHolder, MutualExclusion
<1>2. QED
  BY <1>1, InitIndInv, StepIndInv, PTL DEF Spec

-----------------------------------------------------------------------------
(* The status row.  It is not guarded by the lock itself: it is written by *)
(* whoever is inside, so what it says follows from mutual exclusion.       *)

\* The history agrees with the runs: without a lost session no run lacks its own.
NoneBroken == ~everBroken => broken = {}

\* The clock of the row never runs back to its value for a missing row.
ClockForward == elapsed # Never => elapsed >= 0

StatusInv == NoneBroken /\ ClockForward /\ StatusCoversRun

\* While no session was lost, a run inside is the only one inside.
LEMMA AloneInside ==
    ASSUME IndInv, NoneBroken, ~everBroken,
           NEW r \in Runner, NEW q \in Runner, Inside(r), Inside(q)
    PROVE  r = q
<1>1. broken = {}
  BY DEF NoneBroken
<1>2. QED
  BY <1>1 DEF IndInv, OwnConnection, HoldsLock, SingleHolder, TypeOK

\* No status row, nobody runs.
LEMMA InitStatusInv == Init => StatusInv
<1> SUFFICES ASSUME Init PROVE StatusInv
  OBVIOUS
<1>1. NoneBroken
  BY Zenon DEF Init, NoneBroken
<1>2. ClockForward
  BY DEF Init, ClockForward
<1>3. StatusCoversRun
  BY DEF Init, StatusCoversRun, At, Idle
<1>4. QED
  BY <1>1, <1>2, <1>3 DEF StatusInv

\* A step that leaves the row alone, keeps the history and starts no run.
LEMMA RowUntouched ==
    ASSUME StatusCoversRun, elapsed' = elapsed, inProgress' = inProgress,
           everBroken' = everBroken,
           \A r \in Runner : At(r, "running")' => At(r, "running")
    PROVE  StatusCoversRun'
BY Zenon DEF StatusCoversRun, Never

\* Only a run inside writes the row, and without a lost session no other run is
\* at work then.
LEMMA StepStatusInv == IndInv /\ StatusInv /\ [Next]_vars => StatusInv'
<1> SUFFICES ASSUME IndInv, StatusInv, [Next]_vars PROVE StatusInv'
  OBVIOUS
<1> USE DEF StatusInv
<1>0. runner \in [Runner -> [phase : Phase, conn : Conn \cup {NoConn}]] /\ elapsed \in Int
  BY DEF IndInv, TypeOK
<1>1. ASSUME NEW r \in Runner, MarkStarted(r) PROVE StatusInv'
  <2>1. NoneBroken'
    BY <1>1, Zenon DEF MarkStarted, NoneBroken
  <2>2. ClockForward' /\ elapsed' # Never
    BY <1>1 DEF MarkStarted, ClockForward, Never
  <2>3. inProgress'
    BY <1>1, Zenon DEF MarkStarted
  <2>4. QED
    BY <2>1, <2>2, <2>3, Zenon DEF StatusCoversRun, Never
<1>2. ASSUME NEW r \in Runner, MarkStartedError(r) PROVE StatusInv'
  <2>1. NoneBroken'
    BY <1>2, Zenon DEF MarkStartedError, Leave, NoneBroken
  <2>2. ClockForward'
    BY <1>2 DEF MarkStartedError, ClockForward, Never
  <2>3. \A q \in Runner : At(q, "running")' => At(q, "running")
    BY <1>0, <1>2 DEF MarkStartedError, Leave, At, Idle
  <2>4. CASE UNCHANGED <<inProgress, elapsed>>
    BY <1>2, <2>1, <2>2, <2>3, <2>4, RowUntouched, Zenon DEF MarkStartedError
  <2>5. CASE inProgress' = TRUE /\ elapsed' = 0
    <3>1. elapsed' # Never
      BY <2>5 DEF Never
    <3>2. inProgress'
      BY <2>5, Zenon
    <3>3. QED
      BY <2>1, <2>2, <3>1, <3>2, Zenon DEF StatusCoversRun, Never
  <2>6. QED
    BY <1>2, <2>4, <2>5, Zenon DEF MarkStartedError
<1>3. ASSUME NEW r \in Runner, MarkFinished(r) PROVE StatusInv'
  <2>1. NoneBroken'
    BY <1>3, Zenon DEF MarkFinished, NoneBroken
  <2>2. ClockForward'
    BY <1>3 DEF MarkFinished, ClockForward, Never
  <2>3. ASSUME NEW q \in Runner, At(q, "running")', ~everBroken' PROVE FALSE
    <3>1. At(q, "running") /\ q # r
      BY <1>0, <1>3, <2>3 DEF MarkFinished, Goto, At
    <3>2. Inside(q) /\ Inside(r)
      BY <1>3, <3>1 DEF MarkFinished, At, Inside, Locked
    <3>3. ~everBroken
      BY <1>3, <2>3, Zenon DEF MarkFinished
    <3>4. QED
      BY <3>1, <3>2, <3>3, AloneInside
  <2>4. StatusCoversRun'
    BY <2>3, Zenon DEF StatusCoversRun
  <2>5. QED
    BY <2>1, <2>2, <2>4
<1>4. ASSUME NEW r \in Runner, SessionLost(r) PROVE StatusInv'
  <2>1. everBroken'
    BY <1>4, Zenon DEF SessionLost
  <2>2. ClockForward'
    BY <1>4 DEF SessionLost, ClockForward, Never
  <2>3. QED
    BY <2>1, <2>2, Zenon DEF NoneBroken, StatusCoversRun
<1>5. ASSUME NEW r \in Runner,
             \/ Decide(r) \/ TryLock(r) \/ AlreadyRunning(r) \/ Work(r) \/ Release(r)
             \/ GiveUp(r) \/ MarkFinishedError(r) \/ ReleaseError(r) \/ Cancel(r)
      PROVE  StatusInv'
  <2>1. \A q \in Runner : At(q, "running")' => At(q, "running")
    BY <1>0, <1>5 DEF Decide, TryLock, AlreadyRunning, Work, Release, GiveUp,
      MarkFinishedError, ReleaseError, Cancel, Goto, Leave, At, Idle
  <2>2. elapsed' = elapsed /\ inProgress' = inProgress /\ everBroken' = everBroken /\ broken' \subseteq broken
    BY <1>5, Zenon DEF Decide, TryLock, AlreadyRunning, Work, Release, GiveUp,
      MarkFinishedError, ReleaseError, Cancel, Leave
  <2>3. NoneBroken'
    BY <2>2, Zenon DEF NoneBroken
  <2>4. ClockForward'
    BY <2>2 DEF ClockForward, Never
  <2>5. QED
    BY <2>1, <2>2, <2>3, <2>4, RowUntouched
<1>6. ASSUME NEW s \in Server, Crash(s) PROVE StatusInv'
  <2>1. \A q \in Runner : At(q, "running")' => At(q, "running")
    BY <1>0, <1>6 DEF Crash, At, Idle
  <2>2. elapsed' = elapsed /\ inProgress' = inProgress /\ everBroken' = everBroken /\ broken' \subseteq broken
    BY <1>6, Zenon DEF Crash
  <2>3. NoneBroken'
    BY <2>2, Zenon DEF NoneBroken
  <2>4. ClockForward'
    BY <2>2 DEF ClockForward, Never
  <2>5. QED
    BY <2>1, <2>2, <2>3, <2>4, RowUntouched
<1>7. ASSUME NEW c \in Conn, Reap(c) PROVE StatusInv'
  <2>1. ClockForward'
    BY <1>7 DEF Reap, ClockForward, Never
  <2>2. QED
    BY <1>7, <2>1, Zenon DEF Reap, NoneBroken, StatusCoversRun, At, Never
<1>8. CASE Tick
  <2>1. ClockForward' /\ elapsed' # Never
    BY <1>0, <1>8 DEF Tick, ClockForward, Never
  <2>2. QED
    BY <1>8, <2>1, Zenon DEF Tick, NoneBroken, StatusCoversRun, At, Never
<1>9. CASE UNCHANGED vars
  <2>1. ClockForward'
    BY <1>9 DEF vars, ClockForward, Never
  <2>2. QED
    BY <1>9, <2>1, Zenon DEF vars, NoneBroken, StatusCoversRun, At, Never
<1>10. QED
  BY <1>1, <1>2, <1>3, <1>4, <1>5, <1>6, <1>7, <1>8, <1>9 DEF Next, RunStep

\* As long as no lock connection lost its session, the status row of a repository
\* says that it is being run, and when it was started, for all of the run.
THEOREM StatusIsTruthful == Spec => []StatusCoversRun
<1>1. StatusInv => StatusCoversRun
  BY DEF StatusInv
<1>2. QED
  BY <1>1, InitIndInv, StepIndInv, InitStatusInv, StepStatusInv, PTL DEF Spec
=============================================================================
