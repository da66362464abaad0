------------------------- MODULE SystemTask_proofs -------------------------
(***************************************************************************)
(* Proofs about SystemTask, for any number of runners, tasks and faults.   *)
(***************************************************************************)
EXTENDS SystemTask, TLAPS

-----------------------------------------------------------------------------
(* Types.                                                                  *)

HandlerStates == {"none", "running", "cancelled", "release"}

LEMMA HandlerSet ==
    ASSUME HandlerTypes, NEW r \in Runners, NEW t, NEW h \in HandlerStates,
           handler' = [handler EXCEPT ![r][t] = h]
    PROVE  HandlerTypes'
BY DEF HandlerTypes, HandlerStates

LEMMA ReleaseTypes ==
    ASSUME LockTypes, NEW r, NEW t, Release(r, t)
    PROVE  LockTypes'
<1>1. lockTask' \in 0..MaxTasks
    BY BoundsAssumption DEF LockTypes, Release
<1>2. lockBy' \in Runners /\ expired' \subseteq Runners
    BY DEF LockTypes, Release
<1>3. live' \in BOOLEAN
    BY Zenon DEF Release
<1> QED
    BY <1>1, <1>2, <1>3 DEF LockTypes

LEMMA NextRows == TypeOK /\ [Next]_vars => RowTypes'
<1> SUFFICES ASSUME TypeOK, [Next]_vars PROVE RowTypes'
    OBVIOUS
<1> USE BoundsAssumption DEF TypeOK, RowTypes, LoopTypes, Tasks, Active, Terminal, row
<1>1. ASSUME NEW r \in Runners, FindStale(r) PROVE RowTypes'
    BY <1>1 DEF FindStale
<1>2. ASSUME NEW r \in Runners, SkipStale(r) PROVE RowTypes'
    BY <1>2 DEF SkipStale
<1>3. ASSUME NEW r \in Runners, MarkStale(r) PROVE RowTypes'
    BY <1>3 DEF MarkStale, MarkLeaseExpired
<1>4. ASSUME NEW r \in Runners, DropStale(r) PROVE RowTypes'
    BY <1>4 DEF DropStale, Release
<1>5. ASSUME NEW r \in Runners, FindPending(r) PROVE RowTypes'
    BY <1>5 DEF FindPending
<1>6. ASSUME NEW r \in Runners, Acquire(r) PROVE RowTypes'
    BY <1>6 DEF Acquire, MayTake, TakeLock
<1>7. ASSUME NEW r \in Runners, Replace(r) PROVE RowTypes'
    BY <1>7 DEF Replace, MarkLeaseExpired
<1>8. ASSUME NEW r \in Runners, Start(r) PROVE RowTypes'
    <2>1. created' = created
        BY <1>8 DEF Start
    <2>2. SetRunning(r) \/ UNCHANGED <<status, owner>>
        BY <1>8 DEF Start
    <2>3. CASE SetRunning(r)
        <3>1. status' \in [Tasks -> Active \cup Terminal \cup {"none", "deleted"}]
            BY <2>3 DEF SetRunning
        <3>2. owner' \in [Tasks -> SUBSET Runners]
            BY <2>3 DEF SetRunning
        <3>3. \A t \in Tasks : status'[t] = "running" => owner'[t] # {}
            BY <2>3 DEF SetRunning
        <3> QED
            BY <2>1, <3>1, <3>2, <3>3
    <2> QED
        BY <2>1, <2>2, <2>3
<1>9. ASSUME NEW r \in Runners, Unclaim(r) PROVE RowTypes'
    BY <1>9 DEF Unclaim, Release
<1>10. ASSUME NEW r \in Runners, Crash(r) PROVE RowTypes'
    BY <1>10 DEF Crash
<1>11. ASSUME NEW r \in Runners, NEW t \in Tasks, HeartbeatFails(r, t) PROVE RowTypes'
    BY <1>11 DEF HeartbeatFails, Held
<1>12. ASSUME NEW r \in Runners, NEW t \in Tasks, Finish(r, t) PROVE RowTypes'
    BY <1>12 DEF Finish, MayFinish, Held
<1>13. ASSUME NEW r \in Runners, NEW t \in Tasks, ReleaseLock(r, t) PROVE RowTypes'
    BY <1>13 DEF ReleaseLock, Release
<1>14. CASE CreateSystemTask
    <2>1. created' \in 0..MaxTasks /\ owner' = owner
        BY <1>14 DEF CreateSystemTask
    <2>2. status' = [status EXCEPT ![created + 1] = "pending"]
        BY <1>14 DEF CreateSystemTask
    <2>3. status' \in [Tasks -> Active \cup Terminal \cup {"none", "deleted"}]
        BY <2>2
    <2>4. \A t \in Tasks : status'[t] = "running" => status[t] = "running"
        BY <2>2
    <2> QED
        BY <2>1, <2>3, <2>4
<1>15. CASE DeleteHistory
    BY <1>15 DEF DeleteHistory
<1>16. CASE ExpireLock
    BY <1>16 DEF ExpireLock
<1>17. CASE UNCHANGED vars
    BY <1>17 DEF vars
<1> QED
    BY <1>1, <1>2, <1>3, <1>4, <1>5, <1>6, <1>7, <1>8, <1>9, <1>10, <1>11, <1>12, <1>13, <1>14, <1>15, <1>16, <1>17 DEF Next, Pass, Handle

LEMMA NextLock == TypeOK /\ [Next]_vars => LockTypes'
<1> SUFFICES ASSUME TypeOK, [Next]_vars PROVE LockTypes'
    OBVIOUS
<1> USE BoundsAssumption DEF TypeOK, LockTypes, LoopTypes, Tasks, lock
<1>1. ASSUME NEW r \in Runners, FindStale(r) PROVE LockTypes'
    BY <1>1 DEF FindStale
<1>2. ASSUME NEW r \in Runners, SkipStale(r) PROVE LockTypes'
    BY <1>2 DEF SkipStale
<1>3. ASSUME NEW r \in Runners, MarkStale(r) PROVE LockTypes'
    BY <1>3 DEF MarkStale, MarkLeaseExpired
<1>4. ASSUME NEW r \in Runners, DropStale(r) PROVE LockTypes'
    <2>1. CASE UNCHANGED lock
        BY <2>1
    <2>2. CASE \E q, u : Release(q, u)
        BY <2>2, ReleaseTypes
    <2> QED
        BY <1>4, <2>1, <2>2 DEF DropStale
<1>5. ASSUME NEW r \in Runners, FindPending(r) PROVE LockTypes'
    BY <1>5 DEF FindPending
<1>6. ASSUME NEW r \in Runners, Acquire(r) PROVE LockTypes'
    BY <1>6 DEF Acquire, MayTake, TakeLock
<1>7. ASSUME NEW r \in Runners, Replace(r) PROVE LockTypes'
    BY <1>7 DEF Replace, MarkLeaseExpired
<1>8. ASSUME NEW r \in Runners, Start(r) PROVE LockTypes'
    BY <1>8 DEF Start, SetRunning
<1>9. ASSUME NEW r \in Runners, Unclaim(r) PROVE LockTypes'
    <2>1. CASE UNCHANGED lock
        BY <2>1
    <2>2. CASE \E q, u : Release(q, u)
        BY <2>2, ReleaseTypes
    <2> QED
        BY <1>9, <2>1, <2>2 DEF Unclaim
<1>10. ASSUME NEW r \in Runners, Crash(r) PROVE LockTypes'
    BY <1>10 DEF Crash
<1>11. ASSUME NEW r \in Runners, NEW t \in Tasks, HeartbeatFails(r, t) PROVE LockTypes'
    BY <1>11 DEF HeartbeatFails, Held
<1>12. ASSUME NEW r \in Runners, NEW t \in Tasks, Finish(r, t) PROVE LockTypes'
    BY <1>12 DEF Finish, MayFinish, Held
<1>13. ASSUME NEW r \in Runners, NEW t \in Tasks, ReleaseLock(r, t) PROVE LockTypes'
    <2>1. CASE UNCHANGED lock
        BY <2>1
    <2>2. CASE \E q, u : Release(q, u)
        BY <2>2, ReleaseTypes
    <2> QED
        BY <1>13, <2>1, <2>2 DEF ReleaseLock
<1>14. CASE CreateSystemTask
    BY <1>14 DEF CreateSystemTask
<1>15. CASE DeleteHistory
    BY <1>15 DEF DeleteHistory
<1>16. CASE ExpireLock
    BY <1>16 DEF ExpireLock
<1>17. CASE UNCHANGED vars
    BY <1>17 DEF vars
<1> QED
    BY <1>1, <1>2, <1>3, <1>4, <1>5, <1>6, <1>7, <1>8, <1>9, <1>10, <1>11, <1>12, <1>13, <1>14, <1>15, <1>16, <1>17 DEF Next, Pass, Handle

LEMMA NextLoop == TypeOK /\ [Next]_vars => LoopTypes'
<1> SUFFICES ASSUME TypeOK, [Next]_vars PROVE LoopTypes'
    OBVIOUS
<1> USE BoundsAssumption DEF TypeOK, LoopTypes, LockTypes, PCs, loop, Goto, Return, Tasks
<1>1. ASSUME NEW r \in Runners, FindStale(r) PROVE LoopTypes'
    BY <1>1 DEF FindStale
<1>2. ASSUME NEW r \in Runners, SkipStale(r) PROVE LoopTypes'
    BY <1>2 DEF SkipStale
<1>3. ASSUME NEW r \in Runners, MarkStale(r) PROVE LoopTypes'
    BY <1>3 DEF MarkStale, MarkLeaseExpired
<1>4. ASSUME NEW r \in Runners, DropStale(r) PROVE LoopTypes'
    BY <1>4 DEF DropStale, Release
<1>5. ASSUME NEW r \in Runners, FindPending(r) PROVE LoopTypes'
    <2>1. pc' \in [Runners -> PCs] /\ seen' = seen
        BY <1>5 DEF FindPending
    <2>2. arg' = arg \/ \E u \in Tasks : arg' = [arg EXCEPT ![r] = u]
        BY <1>5 DEF FindPending
    <2>3. arg' \in [Runners -> 0..MaxTasks]
        BY <2>2
    <2> QED
        BY <2>1, <2>3
<1>6. ASSUME NEW r \in Runners, Acquire(r) PROVE LoopTypes'
    BY <1>6 DEF Acquire, MayTake, TakeLock
<1>7. ASSUME NEW r \in Runners, Replace(r) PROVE LoopTypes'
    BY <1>7 DEF Replace, MarkLeaseExpired
<1>8. ASSUME NEW r \in Runners, Start(r) PROVE LoopTypes'
    <2>1. pc' \in [Runners -> PCs]
        BY <1>8 DEF Start
    <2>2. UNCHANGED <<arg, seen>> \/ Return(r, "idle")
        BY <1>8 DEF Start
    <2> QED
        BY <2>1, <2>2
<1>9. ASSUME NEW r \in Runners, Unclaim(r) PROVE LoopTypes'
    BY <1>9 DEF Unclaim, Release
<1>10. ASSUME NEW r \in Runners, Crash(r) PROVE LoopTypes'
    BY <1>10 DEF Crash
<1>11. ASSUME NEW r \in Runners, NEW t \in Tasks, HeartbeatFails(r, t) PROVE LoopTypes'
    BY <1>11 DEF HeartbeatFails, Held
<1>12. ASSUME NEW r \in Runners, NEW t \in Tasks, Finish(r, t) PROVE LoopTypes'
    BY <1>12 DEF Finish, MayFinish, Held
<1>13. ASSUME NEW r \in Runners, NEW t \in Tasks, ReleaseLock(r, t) PROVE LoopTypes'
    BY <1>13 DEF ReleaseLock, Release
<1>14. CASE CreateSystemTask
    BY <1>14 DEF CreateSystemTask
<1>15. CASE DeleteHistory
    BY <1>15 DEF DeleteHistory
<1>16. CASE ExpireLock
    BY <1>16 DEF ExpireLock
<1>17. CASE UNCHANGED vars
    BY <1>17 DEF vars
<1> QED
    BY <1>1, <1>2, <1>3, <1>4, <1>5, <1>6, <1>7, <1>8, <1>9, <1>10, <1>11, <1>12, <1>13, <1>14, <1>15, <1>16, <1>17 DEF Next, Pass, Handle

LEMMA NextHandler == TypeOK /\ [Next]_vars => HandlerTypes'
<1> SUFFICES ASSUME TypeOK, [Next]_vars PROVE HandlerTypes'
    OBVIOUS
<1> USE DEF TypeOK
<1>1. ASSUME NEW r \in Runners, FindStale(r) PROVE HandlerTypes'
    BY <1>1 DEF FindStale, HandlerTypes
<1>2. ASSUME NEW r \in Runners, SkipStale(r) PROVE HandlerTypes'
    BY <1>2 DEF SkipStale, HandlerTypes
<1>3. ASSUME NEW r \in Runners, MarkStale(r) PROVE HandlerTypes'
    BY <1>3 DEF MarkStale, HandlerTypes
<1>4. ASSUME NEW r \in Runners, DropStale(r) PROVE HandlerTypes'
    BY <1>4 DEF DropStale, HandlerTypes
<1>5. ASSUME NEW r \in Runners, FindPending(r) PROVE HandlerTypes'
    BY <1>5 DEF FindPending, HandlerTypes
<1>6. ASSUME NEW r \in Runners, Acquire(r) PROVE HandlerTypes'
    BY <1>6 DEF Acquire, HandlerTypes
<1>7. ASSUME NEW r \in Runners, Replace(r) PROVE HandlerTypes'
    BY <1>7 DEF Replace, HandlerTypes
<1>8. ASSUME NEW r \in Runners, Start(r) PROVE HandlerTypes'
    <2>1. handler' = handler \/ handler' = [handler EXCEPT ![r][arg[r]] = "running"]
        BY <1>8 DEF Start
    <2> QED
        BY <2>1, HandlerSet DEF HandlerTypes, HandlerStates
<1>9. ASSUME NEW r \in Runners, Unclaim(r) PROVE HandlerTypes'
    BY <1>9 DEF Unclaim, HandlerTypes
<1>10. ASSUME NEW r \in Runners, Crash(r) PROVE HandlerTypes'
    BY <1>10 DEF Crash, HandlerTypes
<1>11. ASSUME NEW r \in Runners, NEW t \in Tasks, HeartbeatFails(r, t) PROVE HandlerTypes'
    <2>1. \/ handler' = handler
          \/ \E x \in HandlerStates : handler' = [handler EXCEPT ![r][t] = x]
        BY <1>11 DEF HeartbeatFails, HandlerStates
    <2> QED
        BY <2>1, HandlerSet DEF HandlerTypes
<1>12. ASSUME NEW r \in Runners, NEW t \in Tasks, Finish(r, t) PROVE HandlerTypes'
    <2>1. \/ handler' = handler
          \/ \E x \in HandlerStates : handler' = [handler EXCEPT ![r][t] = x]
        BY <1>12 DEF Finish, HandlerStates
    <2> QED
        BY <2>1, HandlerSet DEF HandlerTypes
<1>13. ASSUME NEW r \in Runners, NEW t \in Tasks, ReleaseLock(r, t) PROVE HandlerTypes'
    <2>1. \/ handler' = handler
          \/ \E x \in HandlerStates : handler' = [handler EXCEPT ![r][t] = x]
        BY <1>13 DEF ReleaseLock, HandlerStates
    <2> QED
        BY <2>1, HandlerSet DEF HandlerTypes
<1>14. CASE CreateSystemTask
    BY <1>14 DEF CreateSystemTask, HandlerTypes
<1>15. CASE DeleteHistory
    BY <1>15 DEF DeleteHistory, HandlerTypes
<1>16. CASE ExpireLock
    BY <1>16 DEF ExpireLock, HandlerTypes
<1>17. CASE UNCHANGED vars
    BY <1>17 DEF vars, HandlerTypes
<1> QED
    BY <1>1, <1>2, <1>3, <1>4, <1>5, <1>6, <1>7, <1>8, <1>9, <1>10, <1>11, <1>12, <1>13, <1>14, <1>15, <1>16, <1>17 DEF Next, Pass, Handle

LEMMA NextFaults == TypeOK /\ [Next]_vars => faults' \in 0..MaxFaults
<1> SUFFICES ASSUME TypeOK, [Next]_vars PROVE faults' \in 0..MaxFaults
    OBVIOUS
<1>f. Fault => faults' \in 0..MaxFaults
    BY BoundsAssumption DEF Fault, TypeOK
<1> USE DEF TypeOK, loop, row
<1>1. ASSUME NEW r \in Runners, FindStale(r) PROVE faults' \in 0..MaxFaults
    BY <1>1, <1>f DEF FindStale
<1>2. ASSUME NEW r \in Runners, SkipStale(r) PROVE faults' \in 0..MaxFaults
    BY <1>2, <1>f DEF SkipStale
<1>3. ASSUME NEW r \in Runners, MarkStale(r) PROVE faults' \in 0..MaxFaults
    BY <1>3, <1>f DEF MarkStale
<1>4. ASSUME NEW r \in Runners, DropStale(r) PROVE faults' \in 0..MaxFaults
    BY <1>4, <1>f DEF DropStale
<1>5. ASSUME NEW r \in Runners, FindPending(r) PROVE faults' \in 0..MaxFaults
    BY <1>5, <1>f DEF FindPending
<1>6. ASSUME NEW r \in Runners, Acquire(r) PROVE faults' \in 0..MaxFaults
    BY <1>6, <1>f DEF Acquire
<1>7. ASSUME NEW r \in Runners, Replace(r) PROVE faults' \in 0..MaxFaults
    BY <1>7, <1>f DEF Replace
<1>8. ASSUME NEW r \in Runners, Start(r) PROVE faults' \in 0..MaxFaults
    BY <1>8, <1>f DEF Start
<1>9. ASSUME NEW r \in Runners, Unclaim(r) PROVE faults' \in 0..MaxFaults
    BY <1>9, <1>f DEF Unclaim
<1>10. ASSUME NEW r \in Runners, Crash(r) PROVE faults' \in 0..MaxFaults
    BY <1>10, <1>f DEF Crash
<1>11. ASSUME NEW r \in Runners, NEW t \in Tasks, HeartbeatFails(r, t) PROVE faults' \in 0..MaxFaults
    BY <1>11, <1>f DEF HeartbeatFails
<1>12. ASSUME NEW r \in Runners, NEW t \in Tasks, Finish(r, t) PROVE faults' \in 0..MaxFaults
    BY <1>12, <1>f DEF Finish
<1>13. ASSUME NEW r \in Runners, NEW t \in Tasks, ReleaseLock(r, t) PROVE faults' \in 0..MaxFaults
    BY <1>13, <1>f DEF ReleaseLock
<1>14. CASE CreateSystemTask
    BY <1>14, <1>f DEF CreateSystemTask
<1>15. CASE DeleteHistory
    BY <1>15, <1>f DEF DeleteHistory
<1>16. CASE ExpireLock
    BY <1>16, <1>f DEF ExpireLock
<1>17. CASE UNCHANGED vars
    BY <1>17, <1>f DEF vars
<1> QED
    BY <1>1, <1>2, <1>3, <1>4, <1>5, <1>6, <1>7, <1>8, <1>9, <1>10, <1>11, <1>12, <1>13, <1>14, <1>15, <1>16, <1>17 DEF Next, Pass, Handle

LEMMA InitTypes == Init => TypeOK
<1> SUFFICES ASSUME Init PROVE TypeOK
    OBVIOUS
<1> USE BoundsAssumption DEF Init
<1>1. RowTypes
    BY DEF RowTypes, Tasks
<1>2. lockTask \in 0..MaxTasks /\ lockBy \in Runners /\ expired \subseteq Runners
    OBVIOUS
<1>6. live \in BOOLEAN
    BY Zenon
<1>3. LoopTypes
    BY DEF LoopTypes, PCs
<1>4. HandlerTypes
    BY DEF HandlerTypes
<1>5. faults \in 0..MaxFaults
    OBVIOUS
<1> QED
    BY <1>1, <1>2, <1>3, <1>4, <1>5, <1>6 DEF TypeOK, LockTypes

\* Every row, the lock and every runner's state keep their types, and a running
\* task has an owner.
THEOREM TypeCorrect == Spec => []TypeOK
<1>1. Init => TypeOK
    BY InitTypes
<1>2. TypeOK /\ [Next]_vars => TypeOK'
    BY NextRows, NextLock, NextLoop, NextHandler, NextFaults DEF TypeOK
<1> QED
    BY <1>1, <1>2, PTL DEF Spec

-----------------------------------------------------------------------------
(* What a step does to the status of a task.                               *)

Rows == \A t \in Tasks : t > created => status[t] = "none"

StatusMove(t) ==
    \/ status'[t] = status[t]
    \/ status[t] = "none" /\ status'[t] = "pending" /\ t = created'
       /\ \A v \in Tasks : status[v] \notin Active
    \/ status[t] = "pending" /\ status'[t] = "running"
       /\ \E r \in Runners : pc[r] = "start" /\ arg[r] = t /\ pc'[r] # "start"
    \/ status[t] = "running" /\ status'[t] \in Terminal
    \/ status[t] \in Terminal /\ status'[t] = "deleted"

LEMMA StatusMoves == TypeOK /\ Rows /\ [Next]_vars => (\A u \in Tasks : StatusMove(u))
<1> SUFFICES ASSUME TypeOK, Rows, [Next]_vars PROVE (\A u \in Tasks : StatusMove(u))
    OBVIOUS
<1>t. /\ status \in [Tasks -> Active \cup Terminal \cup {"none", "deleted"}]
      /\ created \in 0..MaxTasks /\ arg \in [Runners -> 0..MaxTasks] /\ pc \in [Runners -> PCs]
    BY DEF TypeOK, RowTypes, LoopTypes
<1> USE <1>t DEF row
<1>1. ASSUME NEW r \in Runners, FindStale(r) PROVE (\A u \in Tasks : StatusMove(u))
    BY <1>1 DEF FindStale, StatusMove
<1>2. ASSUME NEW r \in Runners, SkipStale(r) PROVE (\A u \in Tasks : StatusMove(u))
    BY <1>2 DEF SkipStale, StatusMove
<1>3. ASSUME NEW r \in Runners, MarkStale(r) PROVE (\A u \in Tasks : StatusMove(u))
    BY <1>3 DEF MarkStale, MarkLeaseExpired, StatusMove, Terminal
<1>4. ASSUME NEW r \in Runners, DropStale(r) PROVE (\A u \in Tasks : StatusMove(u))
    BY <1>4 DEF DropStale, StatusMove
<1>5. ASSUME NEW r \in Runners, FindPending(r) PROVE (\A u \in Tasks : StatusMove(u))
    BY <1>5 DEF FindPending, StatusMove
<1>6. ASSUME NEW r \in Runners, Acquire(r) PROVE (\A u \in Tasks : StatusMove(u))
    BY <1>6 DEF Acquire, StatusMove
<1>7. ASSUME NEW r \in Runners, Replace(r) PROVE (\A u \in Tasks : StatusMove(u))
    BY <1>7 DEF Replace, MarkLeaseExpired, StatusMove, Terminal
<1>8. ASSUME NEW r \in Runners, Start(r) PROVE (\A u \in Tasks : StatusMove(u))
    <2>1. pc[r] = "start" /\ pc'[r] # "start" /\ (SetRunning(r) \/ UNCHANGED status)
        BY <1>8 DEF Start, Goto, Return
    <2>2. CASE SetRunning(r)
        BY <2>1, <2>2 DEF SetRunning, StatusMove
    <2>3. CASE UNCHANGED status
        BY <2>3 DEF StatusMove
    <2> QED
        BY <2>1, <2>2, <2>3
<1>9. ASSUME NEW r \in Runners, Unclaim(r) PROVE (\A u \in Tasks : StatusMove(u))
    BY <1>9 DEF Unclaim, StatusMove
<1>10. ASSUME NEW r \in Runners, Crash(r) PROVE (\A u \in Tasks : StatusMove(u))
    BY <1>10 DEF Crash, StatusMove
<1>11. ASSUME NEW r \in Runners, NEW t \in Tasks, HeartbeatFails(r, t) PROVE (\A u \in Tasks : StatusMove(u))
    BY <1>11 DEF HeartbeatFails, StatusMove
<1>12. ASSUME NEW r \in Runners, NEW t \in Tasks, Finish(r, t) PROVE (\A u \in Tasks : StatusMove(u))
    <2>1. UNCHANGED status \/ (status[t] = "running" /\ \E s \in Terminal : status' = [status EXCEPT ![t] = s])
        BY <1>12 DEF Finish, MayFinish
    <2> QED
        BY <2>1 DEF StatusMove
<1>13. ASSUME NEW r \in Runners, NEW t \in Tasks, ReleaseLock(r, t) PROVE (\A u \in Tasks : StatusMove(u))
    BY <1>13 DEF ReleaseLock, StatusMove
<1>14. CASE CreateSystemTask
    <2>1. created + 1 \in Tasks /\ created + 1 > created
        BY <1>14, BoundsAssumption DEF CreateSystemTask, Tasks
    <2>2. status[created + 1] = "none" /\ status' = [status EXCEPT ![created + 1] = "pending"]
        BY <1>14, <2>1 DEF CreateSystemTask, Rows
    <2>3. \A v \in Tasks : v \in 1..created \/ v > created
        BY BoundsAssumption DEF Tasks
    <2>4. \A v \in Tasks : status[v] \notin Active
        BY <1>14, <2>3 DEF CreateSystemTask, Rows, Active
    <2> QED
        BY <1>14, <2>2, <2>4 DEF StatusMove, CreateSystemTask
<1>15. CASE DeleteHistory
    <2>1. \A t \in Tasks : status'[t] = status[t] \/ (status[t] \in Terminal /\ status'[t] = "deleted")
        BY <1>15 DEF DeleteHistory
    <2> QED
        BY <2>1 DEF StatusMove
<1>16. CASE ExpireLock
    BY <1>16 DEF ExpireLock, StatusMove
<1>17. CASE UNCHANGED vars
    BY <1>17 DEF vars, StatusMove
<1> QED
    BY <1>1, <1>2, <1>3, <1>4, <1>5, <1>6, <1>7, <1>8, <1>9, <1>10, <1>11, <1>12, <1>13, <1>14, <1>15, <1>16, <1>17 DEF Next, Pass, Handle

LEMMA CreatedGrows == TypeOK /\ [Next]_vars => created' >= created
<1> SUFFICES ASSUME TypeOK, [Next]_vars PROVE created' >= created
    OBVIOUS
<1>t. created \in Nat
    BY BoundsAssumption DEF TypeOK, RowTypes
<1> USE <1>t DEF row
<1>1. ASSUME NEW r \in Runners, FindStale(r) PROVE created' >= created
    <2>1. created' = created
        BY <1>1 DEF FindStale
    <2> QED
        BY <2>1
<1>2. ASSUME NEW r \in Runners, SkipStale(r) PROVE created' >= created
    <2>1. created' = created
        BY <1>2 DEF SkipStale
    <2> QED
        BY <2>1
<1>3. ASSUME NEW r \in Runners, MarkStale(r) PROVE created' >= created
    <2>1. created' = created
        BY <1>3 DEF MarkStale
    <2> QED
        BY <2>1
<1>4. ASSUME NEW r \in Runners, DropStale(r) PROVE created' >= created
    <2>1. created' = created
        BY <1>4 DEF DropStale
    <2> QED
        BY <2>1
<1>5. ASSUME NEW r \in Runners, FindPending(r) PROVE created' >= created
    <2>1. created' = created
        BY <1>5 DEF FindPending
    <2> QED
        BY <2>1
<1>6. ASSUME NEW r \in Runners, Acquire(r) PROVE created' >= created
    <2>1. created' = created
        BY <1>6 DEF Acquire
    <2> QED
        BY <2>1
<1>7. ASSUME NEW r \in Runners, Replace(r) PROVE created' >= created
    <2>1. created' = created
        BY <1>7 DEF Replace
    <2> QED
        BY <2>1
<1>8. ASSUME NEW r \in Runners, Start(r) PROVE created' >= created
    <2>1. created' = created
        BY <1>8 DEF Start
    <2> QED
        BY <2>1
<1>9. ASSUME NEW r \in Runners, Unclaim(r) PROVE created' >= created
    <2>1. created' = created
        BY <1>9 DEF Unclaim
    <2> QED
        BY <2>1
<1>10. ASSUME NEW r \in Runners, Crash(r) PROVE created' >= created
    <2>1. created' = created
        BY <1>10 DEF Crash
    <2> QED
        BY <2>1
<1>11. ASSUME NEW r \in Runners, NEW t \in Tasks, HeartbeatFails(r, t) PROVE created' >= created
    <2>1. created' = created
        BY <1>11 DEF HeartbeatFails
    <2> QED
        BY <2>1
<1>12. ASSUME NEW r \in Runners, NEW t \in Tasks, Finish(r, t) PROVE created' >= created
    <2>1. created' = created
        BY <1>12 DEF Finish
    <2> QED
        BY <2>1
<1>13. ASSUME NEW r \in Runners, NEW t \in Tasks, ReleaseLock(r, t) PROVE created' >= created
    <2>1. created' = created
        BY <1>13 DEF ReleaseLock
    <2> QED
        BY <2>1
<1>14. CASE CreateSystemTask
    BY <1>14 DEF CreateSystemTask
<1>15. CASE DeleteHistory
    <2>1. created' = created
        BY <1>15 DEF DeleteHistory
    <2> QED
        BY <2>1
<1>16. CASE ExpireLock
    <2>1. created' = created
        BY <1>16 DEF ExpireLock
    <2> QED
        BY <2>1
<1>17. CASE UNCHANGED vars
    <2>1. created' = created
        BY <1>17 DEF vars
    <2> QED
        BY <2>1
<1> QED
    BY <1>1, <1>2, <1>3, <1>4, <1>5, <1>6, <1>7, <1>8, <1>9, <1>10, <1>11, <1>12, <1>13, <1>14, <1>15, <1>16, <1>17 DEF Next, Pass, Handle

LEMMA NextRowsNone == TypeOK /\ Rows /\ [Next]_vars => Rows'
<1> SUFFICES ASSUME TypeOK, Rows, [Next]_vars, NEW t \in Tasks, t > created' PROVE status'[t] = "none"
    BY DEF Rows
<1>1. created \in Nat /\ created' \in Nat /\ t \in Nat
    BY BoundsAssumption, NextRows DEF TypeOK, RowTypes, Tasks
<1>2. t > created /\ t # created'
    BY <1>1, CreatedGrows
<1>3. status[t] = "none"
    BY <1>2 DEF Rows
<1> QED
    BY <1>2, <1>3, StatusMoves DEF StatusMove, Terminal

LEMMA InitRows == Init => Rows
BY DEF Init, Rows

\* Rows that have not been created have no status.
LEMMA RowsCorrect == Spec => []Rows
<1>1. TypeOK /\ Rows /\ [Next]_vars => Rows'
    BY NextRowsNone
<1> QED
    BY <1>1, InitRows, TypeCorrect, PTL DEF Spec

\* A finished task keeps its result: a node whose task was failed under it
\* cannot overwrite it, in whatever order leases expire and nodes finish.
THEOREM TerminalStaysHolds == Spec => TerminalStays
<1>1. TypeOK /\ Rows /\ [Next]_vars =>
        [\A t \in Tasks : status[t] \in Terminal => status'[t] \in {status[t], "deleted"}]_vars
    BY StatusMoves DEF StatusMove, Terminal
<1> QED
    BY <1>1, TypeCorrect, RowsCorrect, PTL DEF Spec, TerminalStays

-----------------------------------------------------------------------------
(* Handlers.                                                               *)

OwnerMove(t) == owner'[t] = owner[t] \/ status[t] = "pending"

HandlerMove(r, t) ==
    /\ handler'[r][t] # "none" =>
         \/ handler[r][t] # "none"
         \/ pc[r] = "start" /\ pc'[r] = "idle" /\ arg[r] = t /\ owner'[t] = {r} /\ status'[t] = "running"
    /\ handler'[r][t] = "release" => handler[r][t] = "release" \/ status'[t] \in Terminal

LEMMA OwnerMoves == TypeOK /\ [Next]_vars => (\A u \in Tasks : OwnerMove(u))
<1> SUFFICES ASSUME TypeOK, [Next]_vars PROVE (\A u \in Tasks : OwnerMove(u))
    OBVIOUS
<1>t. owner \in [Tasks -> SUBSET Runners]
    BY DEF TypeOK, RowTypes
<1> USE <1>t DEF row
<1>1. ASSUME NEW r \in Runners, FindStale(r) PROVE (\A u \in Tasks : OwnerMove(u))
    BY <1>1 DEF FindStale, OwnerMove
<1>2. ASSUME NEW r \in Runners, SkipStale(r) PROVE (\A u \in Tasks : OwnerMove(u))
    BY <1>2 DEF SkipStale, OwnerMove
<1>3. ASSUME NEW r \in Runners, MarkStale(r) PROVE (\A u \in Tasks : OwnerMove(u))
    BY <1>3 DEF MarkStale, OwnerMove
<1>4. ASSUME NEW r \in Runners, DropStale(r) PROVE (\A u \in Tasks : OwnerMove(u))
    BY <1>4 DEF DropStale, OwnerMove
<1>5. ASSUME NEW r \in Runners, FindPending(r) PROVE (\A u \in Tasks : OwnerMove(u))
    BY <1>5 DEF FindPending, OwnerMove
<1>6. ASSUME NEW r \in Runners, Acquire(r) PROVE (\A u \in Tasks : OwnerMove(u))
    BY <1>6 DEF Acquire, OwnerMove
<1>7. ASSUME NEW r \in Runners, Replace(r) PROVE (\A u \in Tasks : OwnerMove(u))
    BY <1>7 DEF Replace, OwnerMove
<1>8. ASSUME NEW r \in Runners, Start(r) PROVE (\A u \in Tasks : OwnerMove(u))
    <2>1. SetRunning(r) \/ UNCHANGED owner
        BY <1>8 DEF Start
    <2> QED
        BY <2>1 DEF SetRunning, OwnerMove
<1>9. ASSUME NEW r \in Runners, Unclaim(r) PROVE (\A u \in Tasks : OwnerMove(u))
    BY <1>9 DEF Unclaim, OwnerMove
<1>10. ASSUME NEW r \in Runners, Crash(r) PROVE (\A u \in Tasks : OwnerMove(u))
    BY <1>10 DEF Crash, OwnerMove
<1>11. ASSUME NEW r \in Runners, NEW t \in Tasks, HeartbeatFails(r, t) PROVE (\A u \in Tasks : OwnerMove(u))
    BY <1>11 DEF HeartbeatFails, OwnerMove
<1>12. ASSUME NEW r \in Runners, NEW t \in Tasks, Finish(r, t) PROVE (\A u \in Tasks : OwnerMove(u))
    BY <1>12 DEF Finish, OwnerMove
<1>13. ASSUME NEW r \in Runners, NEW t \in Tasks, ReleaseLock(r, t) PROVE (\A u \in Tasks : OwnerMove(u))
    BY <1>13 DEF ReleaseLock, OwnerMove
<1>14. CASE CreateSystemTask
    BY <1>14 DEF CreateSystemTask, OwnerMove
<1>15. CASE DeleteHistory
    BY <1>15 DEF DeleteHistory, OwnerMove
<1>16. CASE ExpireLock
    BY <1>16 DEF ExpireLock, OwnerMove
<1>17. CASE UNCHANGED vars
    BY <1>17 DEF vars, OwnerMove
<1> QED
    BY <1>1, <1>2, <1>3, <1>4, <1>5, <1>6, <1>7, <1>8, <1>9, <1>10, <1>11, <1>12, <1>13, <1>14, <1>15, <1>16, <1>17 DEF Next, Pass, Handle

LEMMA HandlerMoves == TypeOK /\ [Next]_vars => (\A p \in Runners, v \in Tasks : HandlerMove(p, v))
<1> SUFFICES ASSUME TypeOK, [Next]_vars PROVE (\A p \in Runners, v \in Tasks : HandlerMove(p, v))
    OBVIOUS
<1>t. /\ handler \in [Runners -> [Tasks -> HandlerStates]]
      /\ status \in [Tasks -> Active \cup Terminal \cup {"none", "deleted"}]
      /\ owner \in [Tasks -> SUBSET Runners] /\ pc \in [Runners -> PCs]
    BY DEF TypeOK, RowTypes, LoopTypes, HandlerTypes, HandlerStates
<1> USE <1>t DEF row
<1>1. ASSUME NEW r \in Runners, FindStale(r) PROVE (\A p \in Runners, v \in Tasks : HandlerMove(p, v))
    BY <1>1 DEF FindStale, HandlerMove
<1>2. ASSUME NEW r \in Runners, SkipStale(r) PROVE (\A p \in Runners, v \in Tasks : HandlerMove(p, v))
    BY <1>2 DEF SkipStale, HandlerMove
<1>3. ASSUME NEW r \in Runners, MarkStale(r) PROVE (\A p \in Runners, v \in Tasks : HandlerMove(p, v))
    BY <1>3 DEF MarkStale, HandlerMove
<1>4. ASSUME NEW r \in Runners, DropStale(r) PROVE (\A p \in Runners, v \in Tasks : HandlerMove(p, v))
    BY <1>4 DEF DropStale, HandlerMove
<1>5. ASSUME NEW r \in Runners, FindPending(r) PROVE (\A p \in Runners, v \in Tasks : HandlerMove(p, v))
    BY <1>5 DEF FindPending, HandlerMove
<1>6. ASSUME NEW r \in Runners, Acquire(r) PROVE (\A p \in Runners, v \in Tasks : HandlerMove(p, v))
    BY <1>6 DEF Acquire, HandlerMove
<1>7. ASSUME NEW r \in Runners, Replace(r) PROVE (\A p \in Runners, v \in Tasks : HandlerMove(p, v))
    BY <1>7 DEF Replace, HandlerMove
<1>8. ASSUME NEW r \in Runners, Start(r) PROVE (\A p \in Runners, v \in Tasks : HandlerMove(p, v))
    <2>1. \/ handler' = handler
          \/ handler' = [handler EXCEPT ![r][arg[r]] = "running"] /\ SetRunning(r) /\ pc'[r] = "idle"
        BY <1>8 DEF Start, Goto, Return
    <2>2. CASE handler' = handler
        BY <2>2 DEF HandlerMove
    <2>3. CASE handler' = [handler EXCEPT ![r][arg[r]] = "running"] /\ SetRunning(r) /\ pc'[r] = "idle"
        <3>1. pc[r] = "start"
            BY <1>8 DEF Start
        <3> SUFFICES ASSUME NEW q \in Runners, NEW u \in Tasks PROVE HandlerMove(q, u)
            OBVIOUS
        <3>2. CASE q = r /\ u = arg[r]
            <4>1. handler'[q][u] = "running" /\ owner'[u] = {q} /\ status'[u] = "running"
                BY <2>3, <3>2 DEF SetRunning
            <4> QED
                BY <2>3, <3>1, <3>2, <4>1 DEF HandlerMove
        <3>3. CASE q # r \/ u # arg[r]
            <4>1. handler'[q][u] = handler[q][u]
                BY <2>3, <3>3
            <4> QED
                BY <4>1 DEF HandlerMove
        <3> QED
            BY <3>2, <3>3
    <2> QED
        BY <2>1, <2>2, <2>3
<1>9. ASSUME NEW r \in Runners, Unclaim(r) PROVE (\A p \in Runners, v \in Tasks : HandlerMove(p, v))
    BY <1>9 DEF Unclaim, HandlerMove
<1>10. ASSUME NEW r \in Runners, Crash(r) PROVE (\A p \in Runners, v \in Tasks : HandlerMove(p, v))
    <2>1. \A q \in Runners, u \in Tasks : handler'[q][u] = handler[q][u] \/ handler'[q][u] = "none"
        BY <1>10 DEF Crash
    <2> QED
        BY <2>1 DEF HandlerMove
<1>11. ASSUME NEW r \in Runners, NEW t \in Tasks, HeartbeatFails(r, t) PROVE (\A p \in Runners, v \in Tasks : HandlerMove(p, v))
    <2>1. /\ handler[r][t] # "none"
          /\ \E x \in HandlerStates :
                /\ handler' = [handler EXCEPT ![r][t] = x]
                /\ x = "release" => status'[t] \in Terminal
        BY <1>11 DEF HeartbeatFails, HandlerStates
    <2>2. \A q \in Runners, u \in Tasks : q # r \/ u # t => handler'[q][u] = handler[q][u]
        BY <2>1
    <2>3. handler'[r][t] = "release" => status'[t] \in Terminal
        BY <2>1
    <2> QED
        BY <2>1, <2>2, <2>3 DEF HandlerMove
<1>12. ASSUME NEW r \in Runners, NEW t \in Tasks, Finish(r, t) PROVE (\A p \in Runners, v \in Tasks : HandlerMove(p, v))
    <2>1. /\ handler[r][t] # "none"
          /\ \E x \in HandlerStates :
                /\ handler' = [handler EXCEPT ![r][t] = x]
                /\ x = "release" => status'[t] \in Terminal
        BY <1>12 DEF Finish, HandlerStates
    <2>2. \A q \in Runners, u \in Tasks : q # r \/ u # t => handler'[q][u] = handler[q][u]
        BY <2>1
    <2>3. handler'[r][t] = "release" => status'[t] \in Terminal
        BY <2>1
    <2> QED
        BY <2>1, <2>2, <2>3 DEF HandlerMove
<1>13. ASSUME NEW r \in Runners, NEW t \in Tasks, ReleaseLock(r, t) PROVE (\A p \in Runners, v \in Tasks : HandlerMove(p, v))
    <2>1. /\ handler[r][t] # "none"
          /\ \E x \in HandlerStates :
                /\ handler' = [handler EXCEPT ![r][t] = x]
                /\ x = "release" => status'[t] \in Terminal
        BY <1>13 DEF ReleaseLock, HandlerStates
    <2>2. \A q \in Runners, u \in Tasks : q # r \/ u # t => handler'[q][u] = handler[q][u]
        BY <2>1
    <2>3. handler'[r][t] = "release" => status'[t] \in Terminal
        BY <2>1
    <2> QED
        BY <2>1, <2>2, <2>3 DEF HandlerMove
<1>14. CASE CreateSystemTask
    BY <1>14 DEF CreateSystemTask, HandlerMove
<1>15. CASE DeleteHistory
    BY <1>15 DEF DeleteHistory, HandlerMove
<1>16. CASE ExpireLock
    BY <1>16 DEF ExpireLock, HandlerMove
<1>17. CASE UNCHANGED vars
    BY <1>17 DEF vars, HandlerMove
<1> QED
    BY <1>1, <1>2, <1>3, <1>4, <1>5, <1>6, <1>7, <1>8, <1>9, <1>10, <1>11, <1>12, <1>13, <1>14, <1>15, <1>16, <1>17 DEF Next, Pass, Handle

LEMMA NextDispatched == TypeOK /\ Rows /\ DispatchedOnce /\ [Next]_vars => DispatchedOnce'
<1> SUFFICES ASSUME TypeOK, Rows, DispatchedOnce, [Next]_vars,
                    NEW r \in Runners, NEW t \in Tasks, handler'[r][t] # "none"
             PROVE  owner'[t] = {r} /\ status'[t] \notin {"none", "pending"}
    BY DEF DispatchedOnce
<1>1. HandlerMove(r, t) /\ OwnerMove(t) /\ StatusMove(t)
    BY HandlerMoves, OwnerMoves, StatusMoves
<1>2. CASE handler[r][t] # "none"
    <2>1. owner[t] = {r} /\ status[t] \notin {"none", "pending"}
        BY <1>2 DEF DispatchedOnce
    <2> QED
        BY <1>1, <2>1 DEF OwnerMove, StatusMove, Terminal
<1>3. CASE handler[r][t] = "none"
    BY <1>1, <1>3 DEF HandlerMove
<1> QED
    BY <1>2, <1>3

\* A task is dispatched to one runner only, whatever happens to its lease.
THEOREM DispatchedOnceHolds == Spec => []DispatchedOnce
<1>1. Init => DispatchedOnce
    BY DEF Init, DispatchedOnce
<1>2. TypeOK /\ Rows /\ DispatchedOnce /\ [Next]_vars => DispatchedOnce'
    BY NextDispatched
<1> QED
    BY <1>1, <1>2, TypeCorrect, RowsCorrect, PTL DEF Spec

-----------------------------------------------------------------------------
(* The runner's loop and the lock.                                         *)

LockSame == lockTask' = lockTask /\ lockBy' = lockBy /\ live' = live

LoopMove(r) ==
    \/ /\ pc'[r] = pc[r] /\ arg'[r] = arg[r] /\ seen'[r] = seen[r]
       /\ r \in expired' => r \in expired
    \/ pc'[r] \in {"idle", "find", "dead"}
    \/ pc'[r] = "mark" /\ seen'[r] # 0
    \/ pc[r] = "mark" /\ pc'[r] = "drop" /\ seen'[r] = seen[r] /\ MarkLeaseExpired(seen[r])
    \/ /\ pc[r] = "find" /\ pc'[r] = "acquire" /\ arg'[r] \in Tasks
       /\ status' = status /\ status[arg'[r]] = "pending"
    \/ /\ pc[r] = "acquire" /\ pc'[r] \in {"replace", "start"} /\ arg'[r] = arg[r] /\ status' = status
       /\ lockTask' = arg[r] /\ lockBy' = r /\ live' /\ MayTake(r)
    \/ pc[r] = "replace" /\ pc'[r] = "start" /\ arg'[r] = arg[r] /\ LockSame
    \/ pc[r] = "replace" /\ pc'[r] = "unclaim" /\ arg'[r] = arg[r]
    \/ pc[r] = "start" /\ pc'[r] = "unclaim" /\ arg'[r] = arg[r] /\ status' = status

LockMove ==
    \/ LockSame /\ (live => expired' \subseteq expired)
    \/ \E q \in Runners : /\ pc[q] = "acquire" /\ MayTake(q)
                         /\ lockTask' = arg[q] /\ lockBy' = q /\ live' /\ expired' = {}
    \/ /\ lockTask' = 0 /\ ~live'
       /\ \E q \in Runners :
            \/ pc[q] = "unclaim" /\ lockTask = arg[q] /\ lockBy = q
            \/ lockTask \in Tasks /\ handler[q][lockTask] = "release" /\ lockBy = q
            \/ pc[q] = "drop" /\ q \in expired /\ lockTask = seen[q]
    \/ lockTask = 0 /\ lockTask' = 0 /\ ~live' /\ expired' = expired
    \/ /\ lockTask' = lockTask /\ lockBy' = lockBy /\ ~live'
       /\ pc[lockBy] \notin {"replace", "start"}

LEMMA LoopMoves == Anomalies = {} /\ TypeOK /\ [Next]_vars => (\A p \in Runners : LoopMove(p))
<1> SUFFICES ASSUME Anomalies = {}, TypeOK, [Next]_vars PROVE (\A p \in Runners : LoopMove(p))
    OBVIOUS
<1>t. /\ pc \in [Runners -> PCs] /\ arg \in [Runners -> 0..MaxTasks]
      /\ seen \in [Runners -> 0..MaxTasks]
    BY DEF TypeOK, LoopTypes
<1> USE <1>t DEF Goto, Return
<1>1. ASSUME NEW r \in Runners, FindStale(r) PROVE (\A p \in Runners : LoopMove(p))
    <2>1. ASSUME NEW q \in Runners, q # r PROVE pc'[q] = pc[q] /\ arg'[q] = arg[q] /\ seen'[q] = seen[q] /\ (q \in expired' => q \in expired)
        BY <1>1, <2>1 DEF FindStale, lock
    <2>2. LoopMove(r)
        BY <1>1 DEF FindStale, LoopMove
    <2> QED
        BY <2>1, <2>2 DEF LoopMove
<1>2. ASSUME NEW r \in Runners, SkipStale(r) PROVE (\A p \in Runners : LoopMove(p))
    <2>1. ASSUME NEW q \in Runners, q # r PROVE pc'[q] = pc[q] /\ arg'[q] = arg[q] /\ seen'[q] = seen[q] /\ (q \in expired' => q \in expired)
        BY <1>2, <2>1 DEF SkipStale, lock
    <2>2. LoopMove(r)
        BY <1>2 DEF SkipStale, LoopMove
    <2> QED
        BY <2>1, <2>2 DEF LoopMove
<1>3. ASSUME NEW r \in Runners, MarkStale(r) PROVE (\A p \in Runners : LoopMove(p))
    <2>1. ASSUME NEW q \in Runners, q # r PROVE pc'[q] = pc[q] /\ arg'[q] = arg[q] /\ seen'[q] = seen[q] /\ (q \in expired' => q \in expired)
        BY <1>3, <2>1 DEF MarkStale, lock
    <2>2. LoopMove(r)
        BY <1>3 DEF MarkStale, MarkLeaseExpired, LoopMove
    <2> QED
        BY <2>1, <2>2 DEF LoopMove
<1>4. ASSUME NEW r \in Runners, DropStale(r) PROVE (\A p \in Runners : LoopMove(p))
    <2>1. ASSUME NEW q \in Runners, q # r PROVE pc'[q] = pc[q] /\ arg'[q] = arg[q] /\ seen'[q] = seen[q] /\ (q \in expired' => q \in expired)
        BY <1>4, <2>1 DEF DropStale, lock, Release
    <2>2. LoopMove(r)
        BY <1>4 DEF DropStale, Release, LoopMove
    <2> QED
        BY <2>1, <2>2 DEF LoopMove
<1>5. ASSUME NEW r \in Runners, FindPending(r) PROVE (\A p \in Runners : LoopMove(p))
    <2>1. ASSUME NEW q \in Runners, q # r PROVE pc'[q] = pc[q] /\ arg'[q] = arg[q] /\ seen'[q] = seen[q] /\ (q \in expired' => q \in expired)
        BY <1>5, <2>1 DEF FindPending, lock
    <2>2. status' = status /\ pc[r] = "find"
        BY <1>5 DEF FindPending, row
    <2>3. \/ pc'[r] = "idle"
          \/ \E t \in Tasks : status[t] = "pending" /\ arg' = [arg EXCEPT ![r] = t] /\ pc'[r] = "acquire"
        BY <1>5 DEF FindPending
    <2>4. pc'[r] = "idle" => LoopMove(r)
        BY DEF LoopMove
    <2>5. ASSUME \E t \in Tasks : status[t] = "pending" /\ arg' = [arg EXCEPT ![r] = t] /\ pc'[r] = "acquire"
          PROVE  LoopMove(r)
        BY <2>2, <2>5 DEF LoopMove
    <2> QED
        BY <2>1, <2>3, <2>4, <2>5 DEF LoopMove
<1>6. ASSUME NEW r \in Runners, Acquire(r) PROVE (\A p \in Runners : LoopMove(p))
    <2>1. ASSUME NEW q \in Runners, q # r PROVE pc'[q] = pc[q] /\ arg'[q] = arg[q] /\ seen'[q] = seen[q] /\ (q \in expired' => q \in expired)
        BY <1>6, <2>1 DEF Acquire, lock, TakeLock
    <2>2. status' = status /\ pc[r] = "acquire"
        BY <1>6 DEF Acquire, row
    <2>3. \/ pc'[r] = "idle"
          \/ /\ MayTake(r) /\ TakeLock(r) /\ arg' = arg /\ pc'[r] \in {"replace", "start"}
        BY <1>6 DEF Acquire
    <2>4. pc'[r] = "idle" => LoopMove(r)
        BY DEF LoopMove
    <2>5. ASSUME MayTake(r), TakeLock(r), arg' = arg, pc'[r] \in {"replace", "start"}
          PROVE  LoopMove(r)
        BY <2>2, <2>5 DEF LoopMove, TakeLock
    <2> QED
        BY <2>1, <2>3, <2>4, <2>5 DEF LoopMove
<1>7. ASSUME NEW r \in Runners, Replace(r) PROVE (\A p \in Runners : LoopMove(p))
    <2>1. ASSUME NEW q \in Runners, q # r PROVE pc'[q] = pc[q] /\ arg'[q] = arg[q] /\ seen'[q] = seen[q] /\ (q \in expired' => q \in expired)
        BY <1>7, <2>1 DEF Replace, lock
    <2>2. LoopMove(r)
        BY <1>7 DEF Replace, LockSame, lock, LoopMove
    <2> QED
        BY <2>1, <2>2 DEF LoopMove
<1>8. ASSUME NEW r \in Runners, Start(r) PROVE (\A p \in Runners : LoopMove(p))
    <2>1. ASSUME NEW q \in Runners, q # r PROVE pc'[q] = pc[q] /\ arg'[q] = arg[q] /\ seen'[q] = seen[q] /\ (q \in expired' => q \in expired)
        BY <1>8, <2>1 DEF Start, lock
    <2>2. pc[r] = "start"
        BY <1>8 DEF Start
    <2>3. pc'[r] = "idle" \/ (pc'[r] = "unclaim" /\ arg' = arg /\ status' = status)
        BY <1>8 DEF Start
    <2> QED
        BY <2>1, <2>2, <2>3 DEF LoopMove
<1>9. ASSUME NEW r \in Runners, Unclaim(r) PROVE (\A p \in Runners : LoopMove(p))
    <2>1. ASSUME NEW q \in Runners, q # r PROVE pc'[q] = pc[q] /\ arg'[q] = arg[q] /\ seen'[q] = seen[q] /\ (q \in expired' => q \in expired)
        BY <1>9, <2>1 DEF Unclaim, lock, Release
    <2>2. LoopMove(r)
        BY <1>9 DEF Unclaim, Release, LoopMove
    <2> QED
        BY <2>1, <2>2 DEF LoopMove
<1>10. ASSUME NEW r \in Runners, Crash(r) PROVE (\A p \in Runners : LoopMove(p))
    <2>1. ASSUME NEW q \in Runners, q # r PROVE pc'[q] = pc[q] /\ arg'[q] = arg[q] /\ seen'[q] = seen[q] /\ (q \in expired' => q \in expired)
        BY <1>10, <2>1 DEF Crash, lock
    <2>2. LoopMove(r)
        BY <1>10 DEF Crash, LoopMove
    <2> QED
        BY <2>1, <2>2 DEF LoopMove
<1>11. ASSUME NEW r \in Runners, NEW t \in Tasks, HeartbeatFails(r, t) PROVE (\A p \in Runners : LoopMove(p))
    <2>1. pc' = pc /\ arg' = arg /\ seen' = seen /\ expired' = expired
        BY <1>11 DEF HeartbeatFails, lock, loop
    <2> QED
        BY <2>1 DEF LoopMove
<1>12. ASSUME NEW r \in Runners, NEW t \in Tasks, Finish(r, t) PROVE (\A p \in Runners : LoopMove(p))
    <2>1. pc' = pc /\ arg' = arg /\ seen' = seen /\ expired' = expired
        BY <1>12 DEF Finish, lock, loop
    <2> QED
        BY <2>1 DEF LoopMove
<1>13. ASSUME NEW r \in Runners, NEW t \in Tasks, ReleaseLock(r, t) PROVE (\A p \in Runners : LoopMove(p))
    <2>1. pc' = pc /\ arg' = arg /\ seen' = seen /\ expired' = expired
        BY <1>13 DEF ReleaseLock, lock, loop, Release
    <2> QED
        BY <2>1 DEF LoopMove
<1>14. CASE CreateSystemTask
    <2>1. pc' = pc /\ arg' = arg /\ seen' = seen /\ expired' = expired
        BY <1>14 DEF CreateSystemTask, lock, loop
    <2> QED
        BY <2>1 DEF LoopMove
<1>15. CASE DeleteHistory
    <2>1. pc' = pc /\ arg' = arg /\ seen' = seen /\ expired' = expired
        BY <1>15 DEF DeleteHistory, lock, loop
    <2> QED
        BY <2>1 DEF LoopMove
<1>16. CASE ExpireLock
    <2>1. pc' = pc /\ arg' = arg /\ seen' = seen /\ expired' = expired
        BY <1>16 DEF ExpireLock, lock, loop
    <2> QED
        BY <2>1 DEF LoopMove
<1>17. CASE UNCHANGED vars
    <2>1. pc' = pc /\ arg' = arg /\ seen' = seen /\ expired' = expired
        BY <1>17 DEF vars, lock, loop
    <2> QED
        BY <2>1 DEF LoopMove
<1> QED
    BY <1>1, <1>2, <1>3, <1>4, <1>5, <1>6, <1>7, <1>8, <1>9, <1>10, <1>11, <1>12, <1>13, <1>14, <1>15, <1>16, <1>17 DEF Next, Pass, Handle

LEMMA LockMoves == Anomalies = {} /\ TypeOK /\ [Next]_vars => LockMove
<1> SUFFICES ASSUME Anomalies = {}, TypeOK, [Next]_vars PROVE LockMove
    OBVIOUS
<1>t. /\ pc \in [Runners -> PCs] /\ arg \in [Runners -> 0..MaxTasks]
      /\ seen \in [Runners -> 0..MaxTasks]
    BY DEF TypeOK, LoopTypes
<1> USE <1>t DEF Goto, Return
<1>1. ASSUME NEW r \in Runners, FindStale(r) PROVE LockMove
    <2>1. LockSame /\ (live => expired' \subseteq expired)
        BY <1>1 DEF FindStale, FindPending, LockSame
    <2> QED
        BY <2>1 DEF LockMove
<1>2. ASSUME NEW r \in Runners, SkipStale(r) PROVE LockMove
    <2>1. UNCHANGED lock
        BY <1>2 DEF SkipStale
    <2> QED
        BY <2>1 DEF lock, LockSame, LockMove
<1>3. ASSUME NEW r \in Runners, MarkStale(r) PROVE LockMove
    <2>1. UNCHANGED lock
        BY <1>3 DEF MarkStale
    <2> QED
        BY <2>1 DEF lock, LockSame, LockMove
<1>4. ASSUME NEW r \in Runners, DropStale(r) PROVE LockMove
    <2>1. CASE UNCHANGED lock
        BY <2>1 DEF lock, LockSame, LockMove
    <2>2. CASE Release(lockBy, seen[r]) /\ pc[r] = "drop" /\ r \in expired
        <3>1. CASE lockTask = seen[r] /\ lockBy = lockBy
            <4>1. lockTask' = 0
                BY <2>2, <3>1 DEF Release
            <4>2. ~live'
                BY <2>2, <4>1, Zenon DEF Release
            <4> QED
                BY <2>2, <3>1, <4>1, <4>2 DEF LockMove
        <3>2. CASE ~(lockTask = seen[r] /\ lockBy = lockBy)
            <4>1. lockTask' = lockTask /\ lockBy' = lockBy /\ expired' = expired
                BY <2>2, <3>2 DEF Release
            <4>2. live' = (live /\ lockTask # 0)
                BY <2>2, <4>1 DEF Release
            <4>3. CASE lockTask = 0
                BY <4>1, <4>2, <4>3 DEF LockMove
            <4>4. CASE lockTask # 0
                <5>1. live \in BOOLEAN
                    BY DEF TypeOK, LockTypes
                <5>2. live' = live
                    BY <4>2, <4>4, <5>1
                <5> QED
                    BY <4>1, <5>2 DEF LockSame, LockMove
            <4> QED
                BY <4>3, <4>4
        <3> QED
            BY <3>1, <3>2
    <2> QED
        BY <1>4, <2>1, <2>2 DEF DropStale
<1>5. ASSUME NEW r \in Runners, FindPending(r) PROVE LockMove
    <2>1. LockSame /\ (live => expired' \subseteq expired)
        BY <1>5 DEF FindStale, FindPending, LockSame
    <2> QED
        BY <2>1 DEF LockMove
<1>6. ASSUME NEW r \in Runners, Acquire(r) PROVE LockMove
    <2>1. UNCHANGED lock \/ (pc[r] = "acquire" /\ MayTake(r) /\ TakeLock(r))
        BY <1>6 DEF Acquire
    <2> QED
        BY <2>1 DEF TakeLock, lock, LockSame, LockMove
<1>7. ASSUME NEW r \in Runners, Replace(r) PROVE LockMove
    <2>1. UNCHANGED lock
        BY <1>7 DEF Replace
    <2> QED
        BY <2>1 DEF lock, LockSame, LockMove
<1>8. ASSUME NEW r \in Runners, Start(r) PROVE LockMove
    <2>1. UNCHANGED lock
        BY <1>8 DEF Start
    <2> QED
        BY <2>1 DEF lock, LockSame, LockMove
<1>9. ASSUME NEW r \in Runners, Unclaim(r) PROVE LockMove
    <2>1. CASE UNCHANGED lock
        BY <2>1 DEF lock, LockSame, LockMove
    <2>2. CASE Release(r, arg[r]) /\ pc[r] = "unclaim"
        <3>1. CASE lockTask = arg[r] /\ lockBy = r
            <4>1. lockTask' = 0
                BY <2>2, <3>1 DEF Release
            <4>2. ~live'
                BY <2>2, <4>1, Zenon DEF Release
            <4> QED
                BY <2>2, <3>1, <4>1, <4>2 DEF LockMove
        <3>2. CASE ~(lockTask = arg[r] /\ lockBy = r)
            <4>1. lockTask' = lockTask /\ lockBy' = lockBy /\ expired' = expired
                BY <2>2, <3>2 DEF Release
            <4>2. live' = (live /\ lockTask # 0)
                BY <2>2, <4>1 DEF Release
            <4>3. CASE lockTask = 0
                BY <4>1, <4>2, <4>3 DEF LockMove
            <4>4. CASE lockTask # 0
                <5>1. live \in BOOLEAN
                    BY DEF TypeOK, LockTypes
                <5>2. live' = live
                    BY <4>2, <4>4, <5>1
                <5> QED
                    BY <4>1, <5>2 DEF LockSame, LockMove
            <4> QED
                BY <4>3, <4>4
        <3> QED
            BY <3>1, <3>2
    <2> QED
        BY <1>9, <2>1, <2>2 DEF Unclaim
<1>10. ASSUME NEW r \in Runners, Crash(r) PROVE LockMove
    <2>1. UNCHANGED lock
        BY <1>10 DEF Crash
    <2> QED
        BY <2>1 DEF lock, LockSame, LockMove
<1>11. ASSUME NEW r \in Runners, NEW t \in Tasks, HeartbeatFails(r, t) PROVE LockMove
    <2>1. UNCHANGED lock
        BY <1>11 DEF HeartbeatFails
    <2> QED
        BY <2>1 DEF lock, LockSame, LockMove
<1>12. ASSUME NEW r \in Runners, NEW t \in Tasks, Finish(r, t) PROVE LockMove
    <2>1. UNCHANGED lock
        BY <1>12 DEF Finish
    <2> QED
        BY <2>1 DEF lock, LockSame, LockMove
<1>13. ASSUME NEW r \in Runners, NEW t \in Tasks, ReleaseLock(r, t) PROVE LockMove
    <2>1. CASE UNCHANGED lock
        BY <2>1 DEF lock, LockSame, LockMove
    <2>2. CASE Release(r, t) /\ handler[r][t] = "release"
        <3>1. CASE lockTask = t /\ lockBy = r
            <4>1. lockTask' = 0
                BY <2>2, <3>1 DEF Release
            <4>2. ~live'
                BY <2>2, <4>1, Zenon DEF Release
            <4> QED
                BY <2>2, <3>1, <4>1, <4>2 DEF LockMove
        <3>2. CASE ~(lockTask = t /\ lockBy = r)
            <4>1. lockTask' = lockTask /\ lockBy' = lockBy /\ expired' = expired
                BY <2>2, <3>2 DEF Release
            <4>2. live' = (live /\ lockTask # 0)
                BY <2>2, <4>1 DEF Release
            <4>3. CASE lockTask = 0
                BY <4>1, <4>2, <4>3 DEF LockMove
            <4>4. CASE lockTask # 0
                <5>1. live \in BOOLEAN
                    BY DEF TypeOK, LockTypes
                <5>2. live' = live
                    BY <4>2, <4>4, <5>1
                <5> QED
                    BY <4>1, <5>2 DEF LockSame, LockMove
            <4> QED
                BY <4>3, <4>4
        <3> QED
            BY <3>1, <3>2
    <2> QED
        BY <1>13, <2>1, <2>2 DEF ReleaseLock
<1>14. CASE CreateSystemTask
    <2>1. UNCHANGED lock
        BY <1>14 DEF CreateSystemTask
    <2> QED
        BY <2>1 DEF lock, LockSame, LockMove
<1>15. CASE DeleteHistory
    <2>1. UNCHANGED lock
        BY <1>15 DEF DeleteHistory
    <2> QED
        BY <2>1 DEF lock, LockSame, LockMove
<1>16. CASE ExpireLock
    <2>1. "slow claim" \notin Anomalies
        OBVIOUS
    <2> QED
        BY <1>16, <2>1 DEF ExpireLock, LockMove
<1>17. CASE UNCHANGED vars
    <2>1. UNCHANGED lock
        BY <1>17 DEF vars
    <2> QED
        BY <2>1 DEF lock, LockSame, LockMove
<1> QED
    BY <1>1, <1>2, <1>3, <1>4, <1>5, <1>6, <1>7, <1>8, <1>9, <1>10, <1>11, <1>12, <1>13, <1>14, <1>15, <1>16, <1>17 DEF Next, Pass, Handle

-----------------------------------------------------------------------------
(* A running task is covered by the lock.                                  *)

\* What every step below starts from.
Before == Anomalies = {} /\ TypeOK /\ DispatchedOnce /\ CoverInv /\ [Next]_vars

LEMMA Moves ==
    ASSUME Before
    PROVE  /\ LockMove
           /\ \A t \in Tasks : StatusMove(t)
           /\ \A r \in Runners : LoopMove(r)
           /\ \A r \in Runners, t \in Tasks : HandlerMove(r, t)
BY LockMoves, StatusMoves, LoopMoves, HandlerMoves DEF Before, CoverInv, Rows

\* A claim that holds the lock and has not set its task running.
Claiming(r) == pc[r] \in {"replace", "start"}

LEMMA ClaimFacts ==
    ASSUME Before, NEW r \in Runners, Claiming(r)
    PROVE  /\ arg[r] \in Tasks /\ lockTask = arg[r] /\ lockBy = r /\ live
           /\ expired = {} /\ status[arg[r]] # "running" /\ handler[r][arg[r]] = "none"
<1>1. arg[r] # 0 /\ handler[r][arg[r]] = "none"
    BY DEF Before, CoverInv, Claiming
<1>2. arg[r] \in Tasks
    BY <1>1, BoundsAssumption DEF Before, TypeOK, LoopTypes, Tasks
<1>3. lockTask = arg[r] /\ lockBy = r /\ live /\ status[arg[r]] # "running"
    BY DEF Before, CoverInv, ClaimHolds, Claiming, Held
<1>4. expired = {}
    BY <1>3 DEF Before, CoverInv, FoundExpired
<1> QED
    BY <1>1, <1>2, <1>3, <1>4

\* Nobody takes its lock away, and the lease does not run out.
LEMMA ClaimKeepsLock ==
    ASSUME Before, NEW r \in Runners, Claiming(r)
    PROVE  lockTask' = lockTask /\ lockBy' = lockBy /\ live' = live
<1>1. /\ arg[r] \in Tasks /\ lockTask = arg[r] /\ lockBy = r /\ live
      /\ expired = {} /\ handler[r][arg[r]] = "none"
    BY ClaimFacts
<1>2. lockTask # 0
    BY <1>1, BoundsAssumption DEF Tasks
<1>3. pc[r] \notin {"unclaim", "acquire", "drop"}
    BY DEF Claiming
<1> QED
    BY <1>1, <1>2, <1>3, Moves DEF LockMove, LockSame, MayTake, Claiming

\* A task that starts to run has its lock, and its claim is over.
LEMMA StartIsCovered ==
    ASSUME Before, NEW t \in Tasks, status[t] # "running", status'[t] = "running"
    PROVE  /\ lockTask = t /\ lockTask' = t /\ live /\ expired = {}
           /\ pc[lockBy] = "start" /\ pc'[lockBy] # "start" /\ arg[lockBy] = t
<1>1. PICK r \in Runners : pc[r] = "start" /\ arg[r] = t /\ pc'[r] # "start"
    BY Moves DEF StatusMove, Terminal
<1>2. Claiming(r)
    BY <1>1 DEF Claiming
<1> QED
    BY <1>1, <1>2, ClaimFacts, ClaimKeepsLock

LEMMA NextOneActive == ASSUME Before PROVE OneActive'
<1> SUFFICES ASSUME NEW t \in Tasks, NEW u \in Tasks, status'[t] \in Active, status'[u] \in Active
             PROVE  t = u
    BY DEF OneActive, Tasks, Active
<1>1. StatusMove(t) /\ StatusMove(u)
    BY Moves
<1>2. OneActive
    BY DEF Before, CoverInv
<1> QED
    BY <1>1, <1>2 DEF StatusMove, OneActive, Active, Terminal

LEMMA NextCovered == ASSUME Before PROVE RunningIsCovered'
<1> SUFFICES ASSUME NEW t \in Tasks, status'[t] = "running" PROVE lockTask' = t
    BY DEF RunningIsCovered, Tasks
<1>1. CASE status[t] # "running"
    BY <1>1, StartIsCovered
<1>2. CASE status[t] = "running"
    <2>1. lockTask = t /\ lockTask # 0 /\ lockTask \in Tasks
        BY <1>2, BoundsAssumption DEF Before, CoverInv, RunningIsCovered, Tasks
    <2>2. ASSUME NEW q \in Runners, pc[q] = "acquire" PROVE ~MayTake(q)
        <3>1. SUFFICES ASSUME q \in expired PROVE FALSE
            BY <2>1 DEF MayTake
        <3>2. status[arg[q]] = "pending" /\ arg[q] # 0
            BY <2>2, <3>1 DEF Before, CoverInv, FoundExpired
        <3>3. arg[q] \in Tasks
            BY <3>2, BoundsAssumption DEF Before, TypeOK, LoopTypes, Tasks
        <3>4. arg[q] = t
            BY <1>2, <3>2, <3>3 DEF Before, CoverInv, OneActive, Active
        <3> QED
            BY <1>2, <3>2, <3>4
    <2>3. ASSUME NEW q \in Runners PROVE ~(pc[q] = "unclaim" /\ lockTask = arg[q] /\ lockBy = q)
        BY <1>2, <2>1 DEF Before, CoverInv, ClaimHolds
    <2>4. ASSUME NEW q \in Runners PROVE handler[q][t] # "release"
        BY <1>2 DEF Before, CoverInv, Terminal
    <2>5. ASSUME NEW q \in Runners PROVE ~(pc[q] = "drop" /\ q \in expired /\ lockTask = seen[q])
        BY <1>2, <2>1 DEF Before, CoverInv, FoundExpired
    <2> QED
        BY <2>1, <2>2, <2>3, <2>4, <2>5, Moves DEF LockMove, LockSame
<1> QED
    BY <1>1, <1>2

LEMMA NextClaimHolds == ASSUME Before PROVE ClaimHolds'
<1>1. ASSUME NEW r \in Runners, pc'[r] \in {"replace", "start"}
      PROVE  lockTask' = arg'[r] /\ lockBy' = r /\ live' /\ status'[arg'[r]] # "running"
    <2>1. CASE Claiming(r) /\ arg'[r] = arg[r] /\ (pc'[r] = pc[r] \/ pc[r] = "replace")
        <3>1. lockTask' = arg[r] /\ lockBy' = r /\ live' /\ lockBy = r
            BY <2>1, ClaimFacts, ClaimKeepsLock
        <3>2. arg[r] \in Tasks /\ status[arg[r]] # "running"
            BY <2>1, ClaimFacts
        <3>3. status'[arg[r]] # "running"
            BY <1>1, <2>1, <3>1, <3>2, StartIsCovered
        <3> QED
            BY <2>1, <3>1, <3>3
    <2>2. CASE /\ pc[r] = "acquire" /\ arg'[r] = arg[r] /\ status' = status
               /\ lockTask' = arg[r] /\ lockBy' = r /\ live' /\ MayTake(r)
        <3>1. arg[r] \in Tasks
            BY <2>2, BoundsAssumption DEF Before, CoverInv, TypeOK, LoopTypes, Tasks
        <3>2. CASE lockTask = 0
            BY <2>2, <3>1, <3>2, BoundsAssumption DEF Before, CoverInv, RunningIsCovered, Tasks
        <3>3. CASE r \in expired
            BY <2>2, <3>3 DEF Before, CoverInv, FoundExpired
        <3> QED
            BY <2>2, <3>2, <3>3 DEF MayTake
    <2>3. LoopMove(r)
        BY Moves
    <2> QED
        BY <1>1, <2>1, <2>2, <2>3 DEF LoopMove, Claiming
<1>2. ASSUME NEW r \in Runners, pc'[r] = "unclaim", lockTask' = arg'[r], lockBy' = r, arg'[r] # 0
      PROVE  status'[arg'[r]] # "running"
    <2>1. LoopMove(r)
        BY Moves
    <2>2. arg'[r] = arg[r] /\ pc[r] \in {"replace", "start", "unclaim"}
        BY <1>2, <2>1 DEF LoopMove
    <2>3. arg[r] \in Tasks
        BY <1>2, <2>2, BoundsAssumption DEF Before, TypeOK, LoopTypes, Tasks
    <2>4. CASE pc[r] \in {"replace", "start"}
        <3>1. status[arg[r]] # "running" /\ lockBy = r
            BY <2>4, ClaimFacts DEF Claiming
        <3>2. pc[r] = "start" => status' = status
            BY <1>2, <2>1 DEF LoopMove
        <3> QED
            BY <2>2, <2>3, <2>4, <3>1, <3>2, StartIsCovered
    <2>5. CASE pc[r] = "unclaim"
        <3>1. lockTask = arg[r] /\ lockBy = r
            BY <1>2, <2>2, <2>5, Moves DEF LockMove, LockSame
        <3>2. status[arg[r]] # "running"
            BY <1>2, <2>2, <2>5, <3>1 DEF Before, CoverInv, ClaimHolds
        <3> QED
            BY <2>2, <2>3, <2>5, <3>1, <3>2, StartIsCovered
    <2> QED
        BY <2>2, <2>4, <2>5
<1> QED
    BY <1>1, <1>2 DEF ClaimHolds, Held

LEMMA NextFoundExpired == ASSUME Before PROVE FoundExpired'
<1>1. expired' # {} => ~live'
    BY Moves DEF LockMove, LockSame, Before, CoverInv, FoundExpired
<1>2. ASSUME NEW r \in expired', pc'[r] = "acquire" PROVE status'[arg'[r]] = "pending"
    <2>1. r \in Runners
        BY NextLock DEF Before, LockTypes
    <2>2. LoopMove(r)
        BY <2>1, Moves
    <2>3. CASE status' = status /\ status[arg'[r]] = "pending"
        BY <2>3
    <2>4. CASE pc[r] = "acquire" /\ arg'[r] = arg[r] /\ r \in expired
        <3>1. status[arg[r]] = "pending" /\ arg[r] # 0
            BY <2>1, <2>4 DEF Before, CoverInv, FoundExpired
        <3>2. arg[r] \in Tasks
            BY <2>1, <3>1, BoundsAssumption DEF Before, TypeOK, LoopTypes, Tasks
        <3>3. status'[arg[r]] # "running"
            BY <2>4, <3>1, <3>2, StartIsCovered
        <3> QED
            BY <2>4, <3>1, <3>2, <3>3, Moves DEF StatusMove, Terminal
    <2> QED
        BY <1>2, <2>2, <2>3, <2>4 DEF LoopMove
<1>3. ASSUME NEW r \in expired', pc'[r] = "drop" PROVE status'[seen'[r]] # "running"
    <2>1. r \in Runners
        BY NextLock DEF Before, LockTypes
    <2>2. LoopMove(r)
        BY <2>1, Moves
    <2>3. pc[r] \in {"mark", "drop"} /\ seen'[r] = seen[r]
        BY <1>3, <2>2 DEF LoopMove
    <2>4. seen[r] \in Tasks
        BY <2>1, <2>3, BoundsAssumption DEF Before, CoverInv, TypeOK, LoopTypes, Tasks
    <2>5. CASE pc[r] = "mark" /\ MarkLeaseExpired(seen[r])
        <3>1. seen[r] # 0
            BY <2>4, BoundsAssumption DEF Tasks
        <3>2. DOMAIN status = Tasks
            BY DEF Before, TypeOK, RowTypes
        <3>3. status'[seen[r]] # "running"
            BY <2>4, <2>5, <3>1, <3>2 DEF MarkLeaseExpired
        <3> QED
            BY <2>3, <3>3
    <2>6. CASE pc[r] = "drop" /\ r \in expired
        <3>1. status[seen[r]] # "running"
            BY <2>6 DEF Before, CoverInv, FoundExpired
        <3> QED
            BY <2>3, <2>4, <2>6, <3>1, StartIsCovered
    <2> QED
        BY <1>3, <2>2, <2>5, <2>6 DEF LoopMove
<1> QED
    BY <1>1, <1>2, <1>3 DEF FoundExpired

\* The rest of CoverInv: what a claim and a stale lock are about.
LEMMA NextSubjects ==
    ASSUME Before, NEW r \in Runners
    PROVE  /\ pc'[r] \in {"acquire", "replace", "start"} => arg'[r] # 0 /\ handler'[r][arg'[r]] = "none"
           /\ pc'[r] \in {"mark", "drop"} => seen'[r] # 0
<1>1. LoopMove(r)
    BY Moves
<1>2. pc'[r] \in {"mark", "drop"} => seen'[r] # 0
    BY <1>1 DEF LoopMove, Before, CoverInv
<1>3. ASSUME pc'[r] \in {"acquire", "replace", "start"}
      PROVE  arg'[r] # 0 /\ handler'[r][arg'[r]] = "none"
    <2>1. arg'[r] \in Tasks /\ handler[r][arg'[r]] = "none"
        <3>1. CASE arg'[r] = arg[r] /\ pc[r] \in {"acquire", "replace", "start"}
            BY <3>1, BoundsAssumption DEF Before, CoverInv, TypeOK, LoopTypes, Tasks
        <3>2. CASE arg'[r] \in Tasks /\ status[arg'[r]] = "pending"
            BY <3>2 DEF Before, DispatchedOnce
        <3> QED
            BY <1>1, <1>3, <3>1, <3>2 DEF LoopMove
    <2>2. handler'[r][arg'[r]] = "none"
        BY <1>3, <2>1, Moves DEF HandlerMove
    <2> QED
        BY <2>1, <2>2, BoundsAssumption DEF Tasks
<1> QED
    BY <1>2, <1>3

LEMMA NextCover == ASSUME Before PROVE CoverInv'
<1>1. \A t \in Tasks : t > created' => status'[t] = "none"
    BY NextRowsNone DEF Before, CoverInv, Rows
<1>2. ASSUME NEW r \in Runners, NEW t \in Tasks, handler'[r][t] = "release"
      PROVE  status'[t] \in Terminal \cup {"deleted"}
    <2>1. HandlerMove(r, t) /\ StatusMove(t)
        BY Moves
    <2>2. handler[r][t] = "release" => status[t] \in Terminal \cup {"deleted"}
        BY DEF Before, CoverInv
    <2> QED
        BY <1>2, <2>1, <2>2 DEF HandlerMove, StatusMove, Terminal
<1> QED
    BY <1>1, <1>2, NextSubjects, NextOneActive, NextCovered, NextClaimHolds, NextFoundExpired
    DEF CoverInv, Tasks, Terminal

LEMMA InitCover == Init => CoverInv
BY BoundsAssumption DEF Init, CoverInv, OneActive, ClaimHolds, FoundExpired, RunningIsCovered, Active, Tasks

\* While claims are quicker than a lease and answers arrive, the lock names
\* the running task, whichever nodes crash, fail or lose their lease.
THEOREM RunningIsCoveredHolds == (Anomalies = {}) => (Spec => []RunningIsCovered)
<1> SUFFICES ASSUME Anomalies = {} PROVE Spec => []RunningIsCovered
    OBVIOUS
<1>1. TypeOK /\ DispatchedOnce /\ CoverInv /\ [Next]_vars => CoverInv'
    BY NextCover DEF Before
<1>2. CoverInv => RunningIsCovered
    BY DEF CoverInv
<1> QED
    BY <1>1, <1>2, InitCover, TypeCorrect, DispatchedOnceHolds, PTL DEF Spec
=============================================================================
