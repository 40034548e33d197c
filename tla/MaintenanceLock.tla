--------------------------- MODULE MaintenanceLock ---------------------------
(***************************************************************************)
(* The maintenance runs of one repository: the Debian proxy mirror refresh *)
(* (pkgly/src/repository/deb/{scheduler,refresh_status}.rs and the manual  *)
(* deb_refresh request) and package retention (pkgly/src/repository/       *)
(* retention).  Both guard a run with a session-level Postgres advisory    *)
(* lock taken on a pooled connection and keep a status row beside it.      *)
(*                                                                         *)
(* An advisory lock belongs to a connection, is counted when the same      *)
(* connection takes it again, and goes away when the connection is closed. *)
(* A run is two parties: a server's scheduler, which nobody cancels, or an *)
(* HTTP request, whose future is dropped when the client hangs up.         *)
(***************************************************************************)
EXTENDS Integers, FiniteSets

CONSTANTS
    Server,         \* server processes, each with a scheduler and a pool
    Requester,      \* the servers that accept manual refresh requests
    PoolSize,       \* connections per pool
    Interval,       \* ticks between scheduled runs
    MaxHeld,        \* bound: nesting of a lock leaked again and again
    MaxFaults       \* bound: crashes, cancellations and database errors

ASSUME ServerAssumption == Requester \subseteq Server
ASSUME BoundAssumption ==
    /\ PoolSize \in Nat \ {0} /\ Interval \in Nat \ {0}
    /\ MaxHeld \in Nat \ {0} /\ MaxFaults \in Nat

VARIABLES
    free,           \* connections in their pool
    held,           \* per connection, how often it holds the advisory lock
    runner,         \* the runs in progress
    elapsed,        \* ticks since last_started_at, Never without a row
    inProgress,     \* in_progress of the status row
    broken,         \* runners whose lock connection lost its session
    everBroken,     \* history: some run lost its session
    faults

vars == <<free, held, runner, elapsed, inProgress, broken, everBroken, faults>>

Never == -1
Conn == Server \X (1..PoolSize)
Runner == (Server \X {"scheduler"}) \cup (Requester \X {"request"})
Pool(r) == {c \in Conn : c[1] = r[1]}

\* "due": read as due from the status row, nothing acquired yet; "starting":
\* lock taken; "reporting": refresh or deletion over; "releasing": row written.
Phase == {"idle", "due", "starting", "running", "reporting", "releasing"}
Locked == {"starting", "running", "reporting", "releasing"}
NoConn == <<"none", 0>>

Inside(r) == runner[r].phase \in Locked

TypeOK ==
    /\ free \subseteq Conn
    /\ held \in [Conn -> Nat]
    /\ runner \in [Runner -> [phase : Phase, conn : Conn \cup {NoConn}]]
    /\ elapsed \in Int
    /\ inProgress \in BOOLEAN
    /\ broken \subseteq Runner
    /\ everBroken \in BOOLEAN
    /\ faults \in Nat

Idle == [phase |-> "idle", conn |-> NoConn]

Init ==
    /\ free = Conn
    /\ held = [c \in Conn |-> 0]
    /\ runner = [r \in Runner |-> Idle]
    /\ elapsed = Never
    /\ inProgress = FALSE
    /\ broken = {}
    /\ everBroken = FALSE
    /\ faults = 0

Fault == faults < MaxFaults /\ faults' = faults + 1

At(r, phase) == runner[r].phase = phase
Goto(r, phase) == runner' = [runner EXCEPT ![r] = [phase |-> phase, conn |-> runner[r].conn]]

\* The run is over: its connection goes back to the pool.
Leave(r) ==
    /\ runner' = [runner EXCEPT ![r] = Idle]
    /\ free' = free \cup {runner[r].conn}
    /\ broken' = broken \ {r}

-----------------------------------------------------------------------------
(* Deciding to run *)

\* is_due
Due == elapsed = Never \/ elapsed >= Interval

\* The scheduler lists the repositories and keeps those that are due; a request
\* does not ask.  Neither looks again once it holds the lock.
Decide(r) ==
    /\ At(r, "idle")
    /\ r[2] = "scheduler" => Due
    /\ Goto(r, "due")
    /\ UNCHANGED <<free, held, elapsed, inProgress, broken, everBroken, faults>>

-----------------------------------------------------------------------------
(* try_mark_..._started *)

\* Mutant: a lock that only this process sees.
LockableInProcess(c) == \A d \in Conn \ {c} : d[1] = c[1] => held[d] = 0

\* pg_try_advisory_lock on this connection: the lock is free or already its own.
Lockable(c) == \A d \in Conn \ {c} : held[d] = 0

TryLock(r) ==
    /\ At(r, "due")
    /\ \E c \in Pool(r) \cap free :
         /\ Lockable(c)
         /\ held[c] < MaxHeld
         /\ held' = [held EXCEPT ![c] = @ + 1]
         /\ free' = free \ {c}
         /\ runner' = [runner EXCEPT ![r] = [phase |-> "starting", conn |-> c]]
    /\ UNCHANGED <<elapsed, inProgress, broken, everBroken, faults>>

\* AlreadyRunning: the connection goes straight back.
AlreadyRunning(r) ==
    /\ At(r, "due")
    /\ \E c \in Pool(r) \cap free : ~Lockable(c)
    /\ runner' = [runner EXCEPT ![r] = Idle]
    /\ UNCHANGED <<free, held, elapsed, inProgress, broken, everBroken, faults>>

\* No connection, or the lock query fails; a request may also hang up here.
GiveUp(r) ==
    /\ Fault
    /\ At(r, "due")
    /\ runner' = [runner EXCEPT ![r] = Idle]
    /\ UNCHANGED <<free, held, elapsed, inProgress, broken, everBroken>>

\* The status row is created if missing and marked, on other connections.
MarkStarted(r) ==
    /\ At(r, "starting")
    /\ inProgress' = TRUE
    /\ elapsed' = 0
    /\ Goto(r, "running")
    /\ UNCHANGED <<free, held, broken, everBroken, faults>>

\* Mutant: the connection is returned to the pool instead of closed.
CloseReturnsToPool(c) == UNCHANGED held

\* connection.close(): the server frees every lock the session held.
Close(c) == held' = [held EXCEPT ![c] = 0]

\* Writing the row fails, before or after it took effect: the connection is
\* closed, and with it the lock.
MarkStartedError(r) ==
    /\ Fault
    /\ At(r, "starting")
    /\ \/ UNCHANGED <<inProgress, elapsed>>
       \/ inProgress' = TRUE /\ elapsed' = 0
    /\ Close(runner[r].conn)
    /\ Leave(r)
    /\ UNCHANGED everBroken

-----------------------------------------------------------------------------
(* The run, mark_..._succeeded, mark_..._failed and release *)

\* Mutant: the lock is given up before the outcome is reported.
WorkReleasesFirst(r) ==
    /\ At(r, "running")
    /\ Close(runner[r].conn)
    /\ Goto(r, "reporting")
    /\ UNCHANGED <<free, elapsed, inProgress, broken, everBroken, faults>>

\* refresh_offline_mirror or run_locked_package_retention returns, Ok or Err.
Work(r) ==
    /\ At(r, "running")
    /\ Goto(r, "reporting")
    /\ UNCHANGED <<free, held, elapsed, inProgress, broken, everBroken, faults>>

\* Mutant: in_progress is left set by an outcome.
MarkFinishedKeepsFlag(r) ==
    /\ At(r, "reporting")
    /\ Goto(r, "releasing")
    /\ UNCHANGED <<free, held, elapsed, inProgress, broken, everBroken, faults>>

\* Both outcomes clear in_progress.
MarkFinished(r) ==
    /\ At(r, "reporting")
    /\ inProgress' = FALSE
    /\ Goto(r, "releasing")
    /\ UNCHANGED <<free, held, elapsed, broken, everBroken, faults>>

\* The row cannot be written; the lock is released all the same.
MarkFinishedError(r) ==
    /\ Fault
    /\ At(r, "reporting")
    /\ Goto(r, "releasing")
    /\ UNCHANGED <<free, held, elapsed, inProgress, broken, everBroken>>

\* Mutant: the count of a lost session goes below zero.
UnlockUnderflow(n) == n - 1

\* pg_advisory_unlock: one level; warns when nothing was held.
Unlock(n) == IF n > 0 THEN n - 1 ELSE 0

Release(r) ==
    /\ At(r, "releasing")
    /\ held' = [held EXCEPT ![runner[r].conn] = Unlock(@)]
    /\ Leave(r)
    /\ UNCHANGED <<elapsed, inProgress, everBroken, faults>>

\* The unlock fails: the connection is closed instead.
ReleaseError(r) ==
    /\ Fault
    /\ At(r, "releasing")
    /\ Close(runner[r].conn)
    /\ Leave(r)
    /\ UNCHANGED <<elapsed, inProgress, everBroken>>

-----------------------------------------------------------------------------
(* What interrupts a run *)

\* The client of a manual refresh hangs up: the handler's future is dropped, and
\* dropping the advisory lock's PoolConnection returns it to the pool.  Nothing
\* unlocks it, so the idle connection goes on holding the lock.
Cancel(r) ==
    /\ Fault
    /\ r[2] = "request" /\ Inside(r)
    /\ Leave(r)
    /\ UNCHANGED <<held, elapsed, inProgress, everBroken>>

\* The process dies with its connections; the scheduler's task is aborted.
Crash(s) ==
    /\ Fault
    /\ runner' = [r \in Runner |-> IF r[1] = s THEN Idle ELSE runner[r]]
    /\ held' = [c \in Conn |-> IF c[1] = s THEN 0 ELSE held[c]]
    /\ free' = free \cup {c \in Conn : c[1] = s}
    /\ broken' = {r \in broken : r[1] # s}
    /\ UNCHANGED <<elapsed, inProgress, everBroken>>

\* The session behind a lock connection is lost while the run goes on: nothing
\* uses that connection until release, so nobody notices.
SessionLost(r) ==
    /\ Fault
    /\ Inside(r)
    /\ Close(runner[r].conn)
    /\ broken' = broken \cup {r}
    /\ everBroken' = TRUE
    /\ UNCHANGED <<free, runner, elapsed, inProgress>>

\* The pool replaces a connection that was idle or open for too long.
Reap(c) ==
    /\ c \in free /\ held[c] > 0
    /\ Close(c)
    /\ UNCHANGED <<free, runner, elapsed, inProgress, broken, everBroken, faults>>

Tick ==
    /\ elapsed # Never /\ elapsed < Interval
    /\ elapsed' = elapsed + 1
    /\ UNCHANGED <<free, held, runner, inProgress, broken, everBroken, faults>>

-----------------------------------------------------------------------------

RunStep(r) ==
    \/ TryLock(r) \/ AlreadyRunning(r) \/ MarkStarted(r)
    \/ Work(r) \/ MarkFinished(r) \/ Release(r)

Next ==
    \/ \E r \in Runner :
         \/ Decide(r) \/ RunStep(r)
         \/ GiveUp(r) \/ MarkStartedError(r) \/ MarkFinishedError(r) \/ ReleaseError(r)
         \/ Cancel(r) \/ SessionLost(r)
    \/ \E s \in Server : Crash(s)
    \/ \E c \in Conn : Reap(c)
    \/ Tick

Spec == Init /\ [][Next]_vars

\* The scheduler ticks, a run that started goes on, idle connections are
\* recycled by the pool and time passes.  Nobody has to send a request.
Fairness ==
    /\ WF_vars(Tick)
    /\ \A c \in Conn : WF_vars(Reap(c))
    /\ \A r \in Runner : WF_vars(RunStep(r))
    /\ \A s \in Server : WF_vars(Decide(<<s, "scheduler">>))

FairSpec == Spec /\ Fairness

-----------------------------------------------------------------------------
(* Properties *)

\* Two runs of the same repository never overlap, whatever is cancelled, closed,
\* recycled or re-locked, as long as no lock connection lost its session behind
\* a run's back.
MutualExclusion ==
    \A r, q \in Runner : Inside(r) /\ Inside(q) /\ r # q => r \in broken \/ q \in broken

\* While a run is at work the status row says so, and says it was started: no
\* other party's report clears in_progress under a run that still holds the lock.
StatusCoversRun ==
    \A r \in Runner : At(r, "running") /\ ~everBroken => inProgress /\ elapsed # Never

\* What try_mark_..._started promises: AlreadyRunning is answered only while
\* another run is in progress.
AlreadyRunningMeansRunning ==
    [][\A r \in Runner : AlreadyRunning(r) => \E q \in Runner \ {r} : Inside(q)]_vars

\* The scheduler starts a repository at most once every Interval.
OncePerInterval ==
    [][\A s \in Server : MarkStarted(<<s, "scheduler">>) => Due]_vars

\* A repository that is due is run sooner or later, even after a lock was leaked
\* to an idle connection.
DueEventuallyRuns == Due ~> \E r \in Runner : At(r, "running")

\* in_progress does not stay set for ever after a crash, a cancellation or a
\* failed status update: the next scheduled run clears it.
StatusEventuallyCleared == inProgress ~> ~inProgress
=============================================================================
