----------------------------- MODULE SystemTask -----------------------------
(***************************************************************************)
(* Background tasks of one type, run by several master nodes                *)
(* (model/system_task.go, service/system_task.go).                          *)
(*                                                                          *)
(* A task row goes from pending through running to a terminal status; the   *)
(* unique index on active_key keeps at most one row active.  A separate     *)
(* lock row, kept alive by a heartbeat, says which node runs which task.    *)
(* Every statement is a step: nodes claim, give up, fail the tasks of       *)
(* expired locks and finish their own, in any order.  Types share nothing,  *)
(* so one type is modelled.                                                 *)
(***************************************************************************)
EXTENDS Naturals, FiniteSets

CONSTANTS
    Runners,    \* runner identities; a restarted node gets a new one
    MaxTasks,   \* bound: rows created
    MaxFaults,  \* bound: failed statements and crashes
    Anomalies   \* which of the conditions below may happen

ASSUME BoundsAssumption == MaxTasks \in Nat /\ MaxFaults \in Nat

\* A claim may outlive a lease; a statement that sets a task running may take
\* effect although its caller gets an error.
ASSUME AnomaliesAssumption == Anomalies \subseteq {"slow claim", "lost reply"}

Tasks == 1..MaxTasks
Active == {"pending", "running"}
Terminal == {"succeeded", "failed"}
PCs == {"idle", "mark", "drop", "find", "acquire", "replace", "start", "unclaim", "dead"}

VARIABLES
    created,                 \* number of rows created; ids are 1..created
    status, owner,           \* of a row: status, locked_by ({} or a runner)
    lockTask, lockBy, live,  \* the lock row (task 0: none), lease not expired
    pc, arg, seen,   \* of a runner's loop: claimed task, stale lock
    handler,                 \* the handler goroutine of a runner for a task
    expired,                 \* runners that read the clock after the lease ran out
    faults

row == <<created, status, owner>>
lock == <<lockTask, lockBy, live, expired>>
loop == <<pc, arg, seen>>
vars == <<row, lock, loop, handler, faults>>

Goto(r, label) == pc' = [pc EXCEPT ![r] = label]

\* A call returns: its locals are gone.
Return(r, label) ==
    /\ Goto(r, label)
    /\ arg' = [arg EXCEPT ![r] = 0] /\ seen' = [seen EXCEPT ![r] = 0]

Fault == faults < MaxFaults /\ faults' = faults + 1
Held(r, t) == lockTask = t /\ lockBy = r /\ live

-----------------------------------------------------------------------------
(* Statements.                                                             *)

\* MarkSystemTaskLeaseExpired.
MarkLeaseExpired(t) ==
    status' = IF t # 0 /\ status[t] = "running" THEN [status EXCEPT ![t] = "failed"] ELSE status

\* ReleaseSystemTaskLock.
Release(r, t) ==
    /\ lockTask' = IF lockTask = t /\ lockBy = r THEN 0 ELSE lockTask
    /\ live' = (live /\ lockTask' # 0)
    /\ UNCHANGED <<lockBy, expired>>

TakeLock(r) ==
    /\ lockTask' = arg[r] /\ lockBy' = r /\ live' = TRUE
    /\ expired' = {}

\* Mutant: a task can be started in any status.
SetRunningAlways(r) ==
    /\ status' = [status EXCEPT ![arg[r]] = "running"]
    /\ owner' = [owner EXCEPT ![arg[r]] = {r}]

\* The conditional update of ClaimSystemTask.
SetRunning(r) ==
    /\ status[arg[r]] = "pending"
    /\ status' = [status EXCEPT ![arg[r]] = "running"]
    /\ owner' = [owner EXCEPT ![arg[r]] = {r}]

-----------------------------------------------------------------------------
(* Rows.                                                                   *)

\* CreateSystemTask by the scheduler or an administrator, EnsureSystemTaskTx:
\* the unique index admits one active row.
CreateSystemTask ==
    /\ created < MaxTasks
    /\ \A t \in 1..created : status[t] \notin Active
    /\ created' = created + 1
    /\ status' = [status EXCEPT ![created + 1] = "pending"]
    /\ UNCHANGED <<owner, lock, loop, handler, faults>>

\* DeleteSystemTaskHistory: terminal rows older than the newest row of an
\* earlier read.
DeleteHistory ==
    /\ \E newest \in 1..created :
         status' = [t \in Tasks |-> IF t < newest /\ status[t] \in Terminal
                                    THEN "deleted" ELSE status[t]]
    /\ status' # status
    /\ UNCHANGED <<created, owner, lock, loop, handler, faults>>

-----------------------------------------------------------------------------
(* A pass of the runner: stale locks, then one claim.                      *)

\* ExpireStaleSystemTaskLocks; a pass may skip it (systemTaskStaleLockInterval).
FindStale(r) ==
    /\ pc[r] = "idle"
    /\ IF lockTask # 0 /\ ~live
       THEN /\ seen' = [seen EXCEPT ![r] = lockTask] /\ expired' = expired \cup {r}
            /\ Goto(r, "mark")
       ELSE Goto(r, "find") /\ UNCHANGED <<seen, expired>>
    /\ UNCHANGED <<row, lockTask, lockBy, live, arg, handler, faults>>

SkipStale(r) ==
    /\ pc[r] = "idle" /\ Goto(r, "find")
    /\ UNCHANGED <<row, lock, arg, seen, handler, faults>>

\* Mutant: a task is not failed when its lease expires.
MarkStaleSkipped(r) ==
    /\ pc[r] = "mark" /\ Goto(r, "drop")
    /\ UNCHANGED <<row, lock, arg, seen, handler, faults>>

MarkStale(r) ==
    /\ pc[r] = "mark"
    /\ \/ MarkLeaseExpired(seen[r]) /\ Goto(r, "drop") /\ UNCHANGED <<arg, seen, faults>>
       \/ Fault /\ (MarkLeaseExpired(seen[r]) \/ UNCHANGED status) /\ Return(r, "find")
    /\ UNCHANGED <<created, owner, lock, handler>>

\* Mutant: the stale lock is dropped although it has been taken over.
DropStaleAny(r) ==
    /\ pc[r] = "drop" /\ lockTask' = 0 /\ live' = FALSE /\ UNCHANGED <<lockBy, expired>>
    /\ Return(r, "find")
    /\ UNCHANGED <<row, handler, faults>>

\* The lock is deleted if it is still the one that was found.
DropStale(r) ==
    /\ pc[r] = "drop"
    /\ \/ /\ IF r \in expired THEN Release(lockBy, seen[r]) ELSE UNCHANGED lock
          /\ UNCHANGED faults
       \/ Fault /\ UNCHANGED lock
    /\ Return(r, "find")
    /\ UNCHANGED <<row, handler>>

\* FindEarliestPendingSystemTasks and the first read of ClaimSystemTask, which
\* also reads the clock: only a lease that has run out by now can be taken over.
FindPending(r) ==
    /\ pc[r] = "find"
    /\ \/ \E t \in Tasks :
            /\ status[t] = "pending" /\ \A u \in 1..(t - 1) : status[u] # "pending"
            /\ arg' = [arg EXCEPT ![r] = t] /\ Goto(r, "acquire")
       \/ (\A t \in Tasks : status[t] # "pending") /\ Goto(r, "idle") /\ UNCHANGED arg
    /\ expired' = IF lockTask # 0 /\ ~live THEN expired \cup {r} ELSE expired \ {r}
    /\ UNCHANGED <<row, lockTask, lockBy, live, seen, handler, faults>>

\* There is no lock, or one that had expired when the claim began.
MayTake(r) == lockTask = 0 \/ r \in expired

\* acquireSystemTaskLock.
Acquire(r) ==
    /\ pc[r] = "acquire"
    /\ \/ /\ MayTake(r) /\ TakeLock(r)
          /\ seen' = [seen EXCEPT ![r] = lockTask]
          /\ Goto(r, IF lockTask \in {0, arg[r]} THEN "start" ELSE "replace")
          /\ UNCHANGED <<arg, faults>>
       \/ ~MayTake(r) /\ Return(r, "idle") /\ UNCHANGED <<lock, faults>>
       \/ /\ Fault /\ ((MayTake(r) /\ TakeLock(r)) \/ UNCHANGED lock)
          /\ Return(r, "idle")
    /\ UNCHANGED <<row, handler>>

\* The task of the lock that was taken over is failed.
Replace(r) ==
    /\ pc[r] = "replace"
    /\ \/ MarkLeaseExpired(seen[r]) /\ Goto(r, "start") /\ UNCHANGED faults
       \/ Fault /\ (MarkLeaseExpired(seen[r]) \/ UNCHANGED status) /\ Goto(r, "unclaim")
    /\ UNCHANGED <<created, owner, lock, arg, seen, handler>>

\* The task is set running and its handler dispatched; when the final read
\* fails it runs without a handler.
Start(r) ==
    /\ pc[r] = "start"
    /\ \/ /\ SetRunning(r) /\ Return(r, "idle")
          /\ \/ handler' = [handler EXCEPT ![r][arg[r]] = "running"] /\ UNCHANGED faults
             \/ Fault /\ UNCHANGED handler
       \/ /\ status[arg[r]] # "pending" /\ Goto(r, "unclaim")
          /\ UNCHANGED <<status, owner, arg, seen, handler, faults>>
       \/ /\ Fault /\ Goto(r, "unclaim") /\ UNCHANGED <<arg, seen, handler>>
          /\ \/ UNCHANGED <<status, owner>>
             \/ "lost reply" \in Anomalies /\ SetRunning(r)
    /\ UNCHANGED <<created, lock>>

\* The claim failed: ReleaseSystemTaskLock, its error ignored.
Unclaim(r) ==
    /\ pc[r] = "unclaim"
    /\ \/ Release(r, arg[r]) /\ UNCHANGED faults
       \/ Fault /\ UNCHANGED lock
    /\ Return(r, "idle")
    /\ UNCHANGED <<row, handler>>

-----------------------------------------------------------------------------
(* A handler, under runWithLeaseHeartbeat.                                 *)

\* RenewSystemTaskLock fails and the handler's context is cancelled.  A renewal
\* that succeeds keeps the lock as it is.
HeartbeatFails(r, t) ==
    /\ handler[r][t] = "running"
    /\ \/ ~Held(r, t) /\ UNCHANGED faults
       \/ Fault
    /\ handler' = [handler EXCEPT ![r][t] = "cancelled"]
    /\ UNCHANGED <<row, lock, loop>>

\* Mutant: a result is written without the lock.
MayFinishUnlocked(r, t) == status[t] \in {"running", "failed"} /\ owner[t] = {r}

MayFinish(r, t) == status[t] = "running" /\ owner[t] = {r} /\ Held(r, t)

\* FinishSystemTask, or a handler that gives up because UpdateSystemTaskState
\* failed, which has the same condition.
Finish(r, t) ==
    /\ handler[r][t] \in {"running", "cancelled"}
    /\ \/ /\ MayFinish(r, t)
          /\ \E s \in Terminal : status' = [status EXCEPT ![t] = s]
          /\ \/ handler' = [handler EXCEPT ![r][t] = "release"] /\ UNCHANGED faults
             \/ handler' = [handler EXCEPT ![r][t] = "none"] /\ Fault
       \/ /\ ~MayFinish(r, t) /\ UNCHANGED <<status, faults>>
          /\ handler' = [handler EXCEPT ![r][t] = "none"]
       \/ /\ Fault /\ UNCHANGED status
          /\ handler' = [handler EXCEPT ![r][t] = "none"]
    /\ UNCHANGED <<created, owner, lock, loop>>

ReleaseLock(r, t) ==
    /\ handler[r][t] = "release"
    /\ \/ Release(r, t) /\ UNCHANGED faults
       \/ Fault /\ UNCHANGED lock
    /\ handler' = [handler EXCEPT ![r][t] = "none"]
    /\ UNCHANGED <<row, loop>>

-----------------------------------------------------------------------------
(* Time and failure.                                                       *)

\* Nobody renews the lock: its handler has ended or never began.
Abandoned ==
    lockTask # 0 => handler[lockBy][lockTask] = "none" /\ pc[lockBy] \notin {"replace", "start"}

\* The lease runs out, also when a heartbeat is late, but not before the claim
\* that took the lock has ended, unless claims may be slow.
ExpireLock ==
    /\ lockTask # 0 /\ live
    /\ "slow claim" \in Anomalies \/ pc[lockBy] \notin {"replace", "start"}
    /\ live' = FALSE
    /\ UNCHANGED <<row, lockTask, lockBy, expired, loop, handler, faults>>

Crash(r) ==
    /\ pc[r] # "dead" /\ Fault
    /\ Return(r, "dead")
    /\ handler' = [handler EXCEPT ![r] = [t \in Tasks |-> "none"]]
    /\ UNCHANGED <<row, lock>>

-----------------------------------------------------------------------------
Init ==
    /\ created = 0
    /\ status = [t \in Tasks |-> "none"] /\ owner = [t \in Tasks |-> {}]
    /\ lockTask = 0 /\ lockBy \in Runners /\ live = FALSE /\ expired = {}
    /\ pc = [r \in Runners |-> "idle"] /\ arg = [r \in Runners |-> 0]
    /\ seen = [r \in Runners |-> 0]
    /\ handler = [r \in Runners |-> [t \in Tasks |-> "none"]]
    /\ faults = 0

Pass(r) ==
    \/ FindStale(r) \/ SkipStale(r) \/ MarkStale(r) \/ DropStale(r)
    \/ FindPending(r) \/ Acquire(r) \/ Replace(r) \/ Start(r) \/ Unclaim(r)

Handle(r, t) == HeartbeatFails(r, t) \/ Finish(r, t) \/ ReleaseLock(r, t)

Next ==
    \/ \E r \in Runners : Pass(r) \/ Crash(r)
    \/ \E r \in Runners, t \in Tasks : Handle(r, t)
    \/ CreateSystemTask \/ DeleteHistory \/ ExpireLock

Spec == Init /\ [][Next]_vars

\* The loop of a node goes round and looks for stale locks at its interval, a
\* handler comes to its end, and a lock nobody renews expires.
FairSpec ==
    /\ Spec
    /\ \A r \in Runners : WF_vars(Pass(r)) /\ SF_vars(FindStale(r))
    /\ \A r \in Runners, t \in Tasks : WF_vars(Finish(r, t)) /\ WF_vars(ReleaseLock(r, t))
    /\ WF_vars(ExpireLock /\ Abandoned)

-----------------------------------------------------------------------------
(* Correctness.                                                            *)

RowTypes ==
    /\ created \in 0..MaxTasks
    /\ status \in [Tasks -> Active \cup Terminal \cup {"none", "deleted"}]
    /\ owner \in [Tasks -> SUBSET Runners]
    /\ \A t \in Tasks : status[t] = "running" => owner[t] # {}
LockTypes ==
    lockTask \in 0..MaxTasks /\ lockBy \in Runners /\ live \in BOOLEAN /\ expired \subseteq Runners
LoopTypes ==
    /\ pc \in [Runners -> PCs]
    /\ arg \in [Runners -> 0..MaxTasks] /\ seen \in [Runners -> 0..MaxTasks]
HandlerTypes ==
    handler \in [Runners -> [Tasks -> {"none", "running", "cancelled", "release"}]]
\* Types of rows, lock and nodes; a running row names its runner
\* (ClaimSystemTask sets locked_by with the status).
TypeOK == RowTypes /\ LockTypes /\ LoopTypes /\ HandlerTypes /\ faults \in 0..MaxFaults

\* A task is dispatched to one runner only, whatever happens to its lease: the
\* runner that the row names.
DispatchedOnce ==
    \A r \in Runners, t \in Tasks :
        handler[r][t] # "none" => owner[t] = {r} /\ status[t] \notin {"none", "pending"}

\* The latest status of a task is final: a node whose task was failed under it
\* does not overwrite the result.
TerminalStays ==
    [][\A t \in Tasks : status[t] \in Terminal => status'[t] \in {status[t], "deleted"}]_vars

\* While claims are quick and replies arrive, the lock names a running task, so
\* that it is found when its lease runs out.
RunningIsCovered == \A t \in Tasks : status[t] = "running" => lockTask = t

\* Why: one row is active; a claim that has the lock still has it when it sets
\* its task running; and a node that found an expired lock finds its task as it
\* was, until somebody takes the lock.
OneActive == \A t, u \in Tasks : status[t] \in Active /\ status[u] \in Active => t = u
ClaimHolds ==
    \A r \in Runners :
        /\ pc[r] \in {"replace", "start"} => Held(r, arg[r]) /\ status[arg[r]] # "running"
        /\ pc[r] = "unclaim" /\ lockTask = arg[r] /\ lockBy = r => arg[r] = 0 \/ status[arg[r]] # "running"
FoundExpired ==
    /\ expired # {} => ~live
    /\ \A r \in expired :
        /\ pc[r] = "acquire" => status[arg[r]] = "pending"
        /\ pc[r] = "drop" => status[seen[r]] # "running"
\* The inductive invariant behind RunningIsCovered.
CoverInv ==
    /\ \A t \in Tasks : t > created => status[t] = "none"
    /\ \A r \in Runners : pc[r] \in {"acquire", "replace", "start"} => arg[r] # 0
    /\ \A r \in Runners : pc[r] \in {"mark", "drop"} => seen[r] # 0
    /\ \A r \in Runners, t \in Tasks : handler[r][t] = "release" => status[t] \in Terminal \cup {"deleted"}
    /\ \A r \in Runners : pc[r] \in {"acquire", "replace", "start"} => handler[r][arg[r]] = "none"
    /\ OneActive /\ ClaimHolds /\ FoundExpired /\ RunningIsCovered

\* A task is not failed for an expired lease while its runner holds a live one.
LeaseIsRespected ==
    [][\A t \in Tasks : \A r \in Runners :
         status[t] = "running" /\ status'[t] = "failed" /\ Held(r, t) /\ owner[t] = {r}
         => handler'[r][t] # handler[r][t]]_vars

\* The type is never blocked: an active row does not stay active for ever.
NeverBlocked == (\E t \in Tasks : status[t] \in Active) ~> (\A t \in Tasks : status[t] \notin Active)
=============================================================================
