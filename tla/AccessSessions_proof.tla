------------------------- MODULE AccessSessions_proof -------------------------
(***************************************************************************)
(* Types of AccessSessions and its one ACTIVE session per device, for      *)
(* every set of requests, devices and locations and every value of the     *)
(* policies.                                                               *)
(***************************************************************************)
EXTENDS AccessSessions, TLAPS

Granting == {"create", "refresh"}

(* What a call knows by the statement it has reached. *)
CallOK(r) ==
  /\ call[r] \in Calls
  /\ call[r].op \in Granting => call[r].loc \in Locations
  /\ call[r].op \in {"refresh", "revoke"} => call[r].target \in SessionIds
  /\ call[r].op = "status" => call[r].goal \in GoalStatuses
  /\ call[r].op = "create" => call[r].dev \in Devices
  /\ pc[r] \in {"context", "device"} => call[r].op \in Granting
  /\ pc[r] \in {"observe", "write"} => call[r].op = "refresh"
  /\ pc[r] \in {"expire", "find", "reuse", "insert"} => call[r].op = "create"
  /\ pc[r] = "row" => call[r].op \in {"refresh", "revoke"}
  /\ pc[r] \in {"read", "unban", "user", "scan", "rows", "ban"} => call[r].op = "status"
  /\ pc[r] \notin {"context", "observe"} /\ call[r].op \in Granting =>
       call[r].dev \in Devices
  /\ pc[r] \in {"reuse", "commit"} /\ call[r].op \in Granting =>
       call[r].target \in SessionIds

CallInv == \A r \in Requests : pc[r] \in Steps => CallOK(r)

(* The row a call has written in users is the one it was asked to change. *)
UserLockInv ==
  \A u \in Users, r \in Requests : usrLock[u] = r =>
    pc[r] \in {"scan", "rows", "commit"} /\ call[r].op = "status"

TypeInv == TypeOK /\ CallInv /\ UserLockInv

LEMMA InitTypeInv == Init => TypeInv
  <1> SUFFICES ASSUME Init PROVE TypeInv
    OBVIOUS
  <1> USE SetsAssumption, PolicyAssumption, OwnerAssumption
  <1>1. \A d \in Devices, l \in Locations, until \in ScheduleEnds \ {0} :
          SeedRow(d, l, until) \in Rows
    BY DEF Init, SeedRow, Rows, Min2
  <1>2. TypeOK
    BY <1>1 DEF Init, TypeOK, UserStatuses, Steps, Outcomes, SessionIds
  <1>3. CallInv
    BY DEF Init, CallInv, Steps
  <1>4. UserLockInv
    BY DEF Init, UserLockInv
  <1> QED BY <1>2, <1>3, <1>4 DEF TypeInv

(* Steps of one call leave what the others know alone. *)
LEMMA FrameCall ==
  ASSUME TypeInv, NEW r \in Requests,
         \A q \in Requests \ {r} : pc'[q] = pc[q] /\ call'[q] = call[q],
         pc'[r] \in Steps => CallOK(r)'
  PROVE  CallInv'
  BY DEF TypeInv, CallInv, CallOK

LEMMA RollbackTypeInv ==
  ASSUME TypeInv, NEW r \in Requests, NEW outcome \in Outcomes, Rollback(r, outcome)
  PROVE  TypeInv'
  <1> USE DEF TypeInv, Rollback, ReleaseLocks, End, Goto, ambient, committed
  <1>1. TypeOK'
    BY DEF TypeOK, Steps, Outcomes
  <1>2. CallInv'
    <2>1. pc'[r] \notin Steps
      BY DEF TypeOK, Steps, Outcomes
    <2>2. \A q \in Requests \ {r} : pc'[q] = pc[q] /\ call'[q] = call[q]
      BY DEF TypeOK
    <2> QED BY <2>1, <2>2, FrameCall
  <1>3. UserLockInv'
    BY SetsAssumption DEF TypeOK, UserLockInv
  <1> QED BY <1>1, <1>2, <1>3

LEMMA PublishTypes ==
  ASSUME TypeInv, NEW r \in Requests, Publish(r), pc[r] = "commit"
  PROVE  /\ sess' \in [SessionIds -> Rows \cup {NoRow}]
         /\ closedAt' \in [SessionIds -> Nat]
         /\ usr' \in [Users -> UserStatuses]
         /\ usrLock' \in [Users -> Requests \cup {None}]
         /\ devLock' \in [Devices -> Requests \cup {None}]
         /\ rowLock' \in [SessionIds -> Requests \cup {None}]
         /\ rowNext' \in [SessionIds -> Rows \cup {NoRow}]
         /\ \A u \in Users : usrLock'[u] # r
         /\ \A u \in Users, q \in Requests : usrLock'[u] = q => usrLock[u] = q
  <1> USE DEF TypeInv, TypeOK, Publish, ReleaseLocks, Seen
  <1>1. \A u \in Users : usrLock[u] = r => call[r].goal \in UserStatuses
    BY DEF UserLockInv, CallInv, CallOK, Steps, GoalStatuses, UserStatuses
  <1>2. \A u \in Users : usrLock'[u] # r
    BY SetsAssumption
  <1> QED BY <1>1, <1>2, SetsAssumption

LEMMA BeginTypeInv ==
  ASSUME TypeInv, NEW r \in Requests, Arrive(r)
  PROVE  TypeInv'
  <1> USE DEF TypeInv
  <1>1. PICK first \in Steps, op \in AllOps, u \in Users, l \in Locations \cup {None},
             g \in GoalStatuses \cup {None}, d \in Devices \cup {None},
             s \in SessionIds \cup {None} :
          /\ Begin(r, first, op, u, l, g, d, s)
          /\ op = "create" => first = "context" /\ l \in Locations /\ d \in Devices
          /\ op = "refresh" => first = "context" /\ l \in Locations /\ s \in SessionIds
          /\ op = "revoke" => first = "row" /\ s \in SessionIds
          /\ op = "status" => first = "read" /\ g \in GoalStatuses
    <2>1. CASE BeginCreate(r)
      BY <2>1, OwnerAssumption DEF BeginCreate, Steps, AllOps
    <2>2. CASE BeginRefresh(r)
      BY <2>2, OwnerAssumption DEF BeginRefresh, Steps, AllOps, TypeOK, Rows, NoRow
    <2>3. CASE BeginRevoke(r)
      BY <2>3, OwnerAssumption DEF BeginRevoke, Steps, AllOps, TypeOK, Rows, NoRow
    <2>4. CASE BeginStatus(r)
      BY <2>4, InputAssumption DEF BeginStatus, Steps, AllOps
    <2> QED BY <2>1, <2>2, <2>3, <2>4 DEF Arrive
  <1> USE DEF Begin, Goto, ambient, committed, locks
  <1>2. call'[r] = [op |-> op, user |-> u, loc |-> l, goal |-> g, at |-> clock, cap |-> 0,
                    dev |-> d, target |-> s, exp |-> 0, todo |-> {}]
    BY <1>1 DEF TypeOK
  <1>3. call'[r] \in Calls
    BY <1>2 DEF TypeOK, Calls
  <1>4. TypeOK'
    BY <1>1, <1>3 DEF TypeOK
  <1>5. CallInv'
    <2>1. CallOK(r)'
      BY <1>1, <1>2, <1>3 DEF CallOK, TypeOK, Granting, AllOps
    <2>2. \A q \in Requests \ {r} : pc'[q] = pc[q] /\ call'[q] = call[q]
      BY <1>1 DEF TypeOK
    <2> QED BY <2>1, <2>2, FrameCall
  <1>6. UserLockInv'
    BY <1>1 DEF UserLockInv, TypeOK
  <1> QED BY <1>4, <1>5, <1>6

LEMMA ProceedTypeInv ==
  ASSUME TypeInv, NEW r \in Requests, Proceed(r)
  PROVE  TypeInv'
  <1> USE DEF TypeInv
  <1>p. pc[r] \in Steps => CallOK(r)
    BY DEF CallInv
  <1> SUFFICES ASSUME ~ \E outcome \in Outcomes : Rollback(r, outcome)
               PROVE  TypeInv'
    BY RollbackTypeInv
  <1> USE DEF Goto, End, ambient, committed, locks
  <1>1. CASE ReadContext(r)
    <2> USE <1>1 DEF ReadContext, Outcomes
    <2>1. call' = [call EXCEPT ![r].cap = policy]
      OBVIOUS
    <2>2. CallOK(r)'
      BY <1>p, <2>1 DEF CallOK, Calls, Steps, TypeOK, Granting
    <2>3. TypeOK'
      BY <2>1, <2>2 DEF TypeOK, Steps, CallOK
    <2>4. CallInv'
      BY <2>2, FrameCall DEF TypeOK
    <2>5. UserLockInv'
      BY DEF UserLockInv, TypeOK
    <2> QED BY <2>3, <2>4, <2>5
  <1>2. CASE Observe(r)
    <2> USE <1>2 DEF Observe, Outcomes
    <2>1. call' = [call EXCEPT ![r].dev = sess[call[r].target].dev]
      OBVIOUS
    <2>2. sess[call[r].target].dev \in Devices
      BY <1>p DEF TypeOK, Rows, NoRow, CallOK, Steps
    <2>3. CallOK(r)'
      BY <1>p, <2>1, <2>2 DEF CallOK, Calls, Steps, TypeOK, Granting
    <2>4. TypeOK'
      BY <2>1, <2>3 DEF TypeOK, Steps, CallOK
    <2>5. CallInv'
      BY <2>3, FrameCall DEF TypeOK
    <2>6. UserLockInv'
      BY DEF UserLockInv, TypeOK
    <2> QED BY <2>4, <2>5, <2>6
  <1>3. CASE LockDevice(r)
    <2> USE <1>3 DEF LockDevice
    <2>1. CallOK(r)'
      BY <1>p DEF CallOK, Steps, TypeOK, Granting
    <2>2. TypeOK'
      BY <1>p DEF TypeOK, Steps, CallOK
    <2>3. CallInv'
      BY <2>1, FrameCall DEF TypeOK
    <2>4. UserLockInv'
      BY DEF UserLockInv, TypeOK
    <2> QED BY <2>2, <2>3, <2>4
  <1>4. CASE Deny(r)
    BY <1>4 DEF Deny, Outcomes
  <1>5. CASE ExpireStale(r)
    <2> USE <1>5 DEF ExpireStale
    <2>1. PICK until \in ScheduleEnds :
            call' = [call EXCEPT ![r].exp = Min2(call[r].at + Ttl, until)]
      OBVIOUS
    <2>2. Min2(call[r].at + Ttl, until) \in Nat
      BY <1>p, PolicyAssumption DEF Min2, CallOK, Steps, Calls
    <2>3. CallOK(r)'
      BY <1>p, <2>1, <2>2 DEF CallOK, Calls, Steps, TypeOK, Granting
    <2>4. \A s \in StaleOn(r, call[r].dev) :
             [Seen(r, s) EXCEPT !.status = "EXPIRED"] \in Rows
      BY DEF StaleOn, ActiveOn, Seen, TypeOK, Rows, NoRow
    <2>5. TypeOK'
      BY <2>1, <2>3, <2>4 DEF TypeOK, Steps, CallOK, Hold
    <2>6. CallInv'
      BY <2>3, FrameCall DEF TypeOK
    <2>7. UserLockInv'
      BY DEF UserLockInv, TypeOK
    <2> QED BY <2>5, <2>6, <2>7
  <1>6. CASE FindActive(r)
    <2> USE <1>6 DEF FindActive, Choose, Outcomes
    <2>1. PICK s \in ActiveOn(r, call[r].dev) :
            Choose(r, s, Seen(r, s).started + call[r].cap)
      OBVIOUS
    <2>2. /\ s \in SessionIds
          /\ Min2(call[r].exp, Seen(r, s).started + call[r].cap) \in Nat
      BY <1>p, PolicyAssumption
      DEF Min2, CallOK, Steps, Calls, ActiveOn, Seen, TypeOK, Rows, NoRow
    <2>3. CallOK(r)'
      BY <1>p, <2>1, <2>2 DEF CallOK, Calls, Steps, TypeOK, Granting
    <2>4. TypeOK'
      BY <2>1, <2>3 DEF TypeOK, Steps, CallOK
    <2>5. CallInv'
      BY <2>1, <2>3, FrameCall DEF TypeOK
    <2>6. UserLockInv'
      BY <2>1 DEF UserLockInv, TypeOK
    <2> QED BY <2>4, <2>5, <2>6
  <1>7. CASE FindNone(r)
    <2> USE <1>7 DEF FindNone
    <2>1. Min2(call[r].exp, call[r].at + call[r].cap) \in Nat
      BY <1>p, PolicyAssumption DEF Min2, CallOK, Steps, Calls
    <2>2. CallOK(r)'
      BY <1>p, <2>1 DEF CallOK, Calls, Steps, TypeOK, Granting
    <2>3. TypeOK'
      BY <2>2 DEF TypeOK, Steps, CallOK
    <2>4. CallInv'
      BY <2>2, FrameCall DEF TypeOK
    <2>5. UserLockInv'
      BY DEF UserLockInv, TypeOK
    <2> QED BY <2>3, <2>4, <2>5
  <1>8. CASE Reuse(r)
    <2> USE <1>8 DEF Reuse, Outcomes
    <2>1. CallOK(r)'
      BY <1>p DEF CallOK, Steps, TypeOK, Granting
    <2>2. call[r].exp \in Nat /\ call[r].target \in SessionIds
      BY <1>p DEF CallOK, Steps, Calls, Granting
    <2>3. LET row == Seen(r, call[r].target) IN
            row.status = "ACTIVE" => [row EXCEPT !.expires = call[r].exp] \in Rows
      BY <2>2 DEF Seen, TypeOK, Rows, NoRow
    <2>4. TypeOK'
      BY <2>1, <2>2, <2>3 DEF TypeOK, Steps, CallOK, Hold
    <2>5. CallInv'
      BY <2>1, FrameCall DEF TypeOK
    <2>6. UserLockInv'
      BY DEF UserLockInv, TypeOK
    <2> QED BY <2>4, <2>5, <2>6
  <1>9. CASE Insert(r)
    <2> USE <1>9 DEF Insert, Outcomes
    <2>1. call' = [call EXCEPT ![r].target = r]
      OBVIOUS
    <2>2. CallOK(r)'
      BY <1>p, <2>1 DEF CallOK, Calls, Steps, TypeOK, Granting, SessionIds
    <2>3. [status |-> "ACTIVE", dev |-> call[r].dev, loc |-> call[r].loc,
           started |-> call[r].at, expires |-> call[r].exp] \in Rows
      BY <1>p DEF CallOK, Calls, Steps, Rows, Granting
    <2>4. TypeOK'
      BY <2>1, <2>2, <2>3 DEF TypeOK, Steps, CallOK, Hold
    <2>5. CallInv'
      BY <2>2, FrameCall DEF TypeOK
    <2>6. UserLockInv'
      BY DEF UserLockInv, TypeOK
    <2> QED BY <2>4, <2>5, <2>6
  <1>10. CASE LockSession(r)
    <2> USE <1>10 DEF LockSession, Outcomes
    <2>1. CallOK(r)'
      BY <1>p DEF CallOK, Steps, TypeOK, Granting
    <2>2. call[r].target \in SessionIds /\ sess[call[r].target] \in Rows
      BY <1>p DEF TypeOK, NoRow, CallOK, Steps
    <2>3. TypeOK'
      BY <2>1, <2>2 DEF TypeOK, Steps, CallOK, Hold
    <2>4. CallInv'
      BY <2>1, FrameCall DEF TypeOK
    <2>5. UserLockInv'
      BY DEF UserLockInv, TypeOK
    <2> QED BY <2>3, <2>4, <2>5
  <1>11. CASE WriteRefresh(r)
    <2> USE <1>11 DEF WriteRefresh, Outcomes
    <2> DEFINE row == rowNext[call[r].target]
               end(until) == Min2(Min2(call[r].at + Ttl, until), row.started + call[r].cap)
    <2>1. PICK until \in ScheduleEnds :
            /\ row.status = "ACTIVE"
            /\ call' = [call EXCEPT ![r].exp = end(until)]
            /\ Hold(r, [s \in {call[r].target} |->
                 [row EXCEPT !.loc = call[r].loc, !.expires = end(until)]])
            /\ pc' = [pc EXCEPT ![r] = "commit"]
            /\ UNCHANGED <<ambient, committed, usrLock, devLock>>
      OBVIOUS
    <2>2. row \in Rows
      BY <1>p, <2>1 DEF CallOK, Steps, TypeOK, NoRow
    <2>3. end(until) \in Nat
      BY <1>p, <2>2, PolicyAssumption DEF Min2, CallOK, Steps, Calls, Rows
    <2> HIDE DEF end
    <2>4. CallOK(r)'
      BY <1>p, <2>1, <2>3 DEF CallOK, Calls, Steps, TypeOK, Granting
    <2>5. [row EXCEPT !.loc = call[r].loc, !.expires = end(until)] \in Rows
      BY <1>p, <2>2, <2>3 DEF CallOK, Steps, Rows, Granting
    <2>6. TypeOK'
      BY <2>1, <2>4, <2>5 DEF TypeOK, Steps, CallOK, Hold
    <2>7. CallInv'
      BY <2>1, <2>4, FrameCall DEF TypeOK
    <2>8. UserLockInv'
      BY <2>1 DEF UserLockInv, TypeOK
    <2> QED BY <2>6, <2>7, <2>8
  <1>12. CASE CommitGrant(r)
    <2> USE <1>12 DEF CommitGrant
    <2>1. [req |-> r, sess |-> call[r].target, loc |-> call[r].loc, exp |-> call[r].exp]
            \in Tokens
      BY <1>p DEF Tokens, CallOK, Steps, Calls, Granting
    <2>2. TypeOK'
      BY <2>1, PublishTypes DEF TypeOK, Steps, Outcomes
    <2>3. CallInv'
      BY FrameCall DEF TypeOK, Steps
    <2>4. UserLockInv'
      BY PublishTypes DEF UserLockInv, TypeOK
    <2> QED BY <2>2, <2>3, <2>4
  <1>13. CASE RevokeRow(r)
    <2> USE <1>13 DEF RevokeRow, Outcomes
    <2>1. CallOK(r)'
      BY <1>p DEF CallOK, Steps, TypeOK, Granting
    <2> DEFINE revoked == [sess[call[r].target] EXCEPT !.status = "REVOKED"]
    <2>2. call[r].target \in SessionIds /\ revoked \in Rows
      BY <1>p DEF TypeOK, Rows, NoRow, CallOK, Steps
    <2>3. /\ Hold(r, [s \in {call[r].target} |-> revoked])
          /\ pc' = [pc EXCEPT ![r] = "commit"]
          /\ UNCHANGED <<ambient, committed, usrLock, devLock, call>>
      OBVIOUS
    <2> HIDE DEF revoked
    <2>4. TypeOK'
      BY <2>2, <2>3 DEF TypeOK, Steps, Hold
    <2>5. CallInv'
      BY <2>1, FrameCall DEF TypeOK
    <2>6. UserLockInv'
      BY <2>3 DEF UserLockInv, TypeOK
    <2> QED BY <2>4, <2>5, <2>6
  <1>14. CASE CommitRevoke(r)
    <2> USE <1>14 DEF CommitRevoke
    <2>1. TypeOK'
      BY PublishTypes DEF TypeOK, Steps, Outcomes
    <2>2. CallInv'
      BY FrameCall DEF TypeOK, Steps
    <2>3. UserLockInv'
      BY PublishTypes DEF UserLockInv, TypeOK
    <2> QED BY <2>1, <2>2, <2>3
  <1>15. CASE ReadStatus(r)
    <2> USE <1>15 DEF ReadStatus, Outcomes
    <2>1. /\ pc' = [pc EXCEPT ![r] = IF call[r].goal = "ACTIVE" THEN "unban" ELSE "user"]
          /\ UNCHANGED <<ambient, committed, locks, call>>
      OBVIOUS
    <2>2. CallOK(r)'
      BY <1>p, <2>1 DEF CallOK, Steps, TypeOK, Granting
    <2>3. TypeOK'
      BY <2>1 DEF TypeOK, Steps
    <2>4. CallInv'
      BY <2>1, <2>2, FrameCall DEF TypeOK
    <2>5. UserLockInv'
      BY <2>1 DEF UserLockInv, TypeOK
    <2> QED BY <2>3, <2>4, <2>5
  <1>16. CASE Unban(r)
    <2> USE <1>16 DEF Unban
    <2>1. CallOK(r)'
      BY <1>p DEF CallOK, Steps, TypeOK, Granting, Calls
    <2>2. TypeOK'
      BY <1>p, <2>1 DEF TypeOK, Steps, CallOK
    <2>3. CallInv'
      BY <2>1, FrameCall DEF TypeOK
    <2>4. UserLockInv'
      BY <1>p, SetsAssumption DEF UserLockInv, TypeOK, CallOK, Steps
    <2> QED BY <2>2, <2>3, <2>4
  <1>17. CASE UpdateUser(r)
    <2> USE <1>17 DEF UpdateUser
    <2>1. CallOK(r)'
      BY <1>p DEF CallOK, Steps, TypeOK, Granting, Calls
    <2>2. TypeOK'
      BY <1>p, <2>1 DEF TypeOK, Steps, CallOK
    <2>3. CallInv'
      BY <2>1, FrameCall DEF TypeOK
    <2>4. UserLockInv'
      BY <1>p, SetsAssumption DEF UserLockInv, TypeOK, CallOK, Steps
    <2> QED BY <2>2, <2>3, <2>4
  <1>18. CASE ScanSessions(r)
    <2> USE <1>18 DEF ScanSessions
    <2>1. PICK found \in SUBSET SessionIds : 
            /\ call' = [call EXCEPT ![r].todo = found]
            /\ pc' = [pc EXCEPT ![r] = IF found = {} THEN "commit" ELSE "rows"]
      OBVIOUS
    <2>2. CallOK(r)'
      BY <1>p, <2>1 DEF CallOK, Calls, Steps, TypeOK, Granting
    <2>3. TypeOK'
      BY <2>1, <2>2 DEF TypeOK, Steps, CallOK
    <2>4. CallInv'
      BY <2>1, <2>2, FrameCall DEF TypeOK
    <2>5. UserLockInv'
      BY <1>p, <2>1 DEF UserLockInv, TypeOK
    <2> QED BY <2>3, <2>4, <2>5
  <1>19. CASE \E s \in SessionIds : CloseRow(r, s)
    <2>0. PICK s \in SessionIds : CloseRow(r, s)
      BY <1>19
    <2> USE <2>0 DEF CloseRow
    <2>1. call' = [call EXCEPT ![r].todo = call[r].todo \ {s}]
      BY DEF TypeOK
    <2>2. CallOK(r)'
      BY <1>p, <2>1 DEF CallOK, Calls, Steps, TypeOK, Granting
    <2>3. sess[s].status = "ACTIVE" => [sess[s] EXCEPT !.status = "REVOKED"] \in Rows
      BY DEF TypeOK, Rows, NoRow
    <2>4. TypeOK'
      BY <2>1, <2>2, <2>3 DEF TypeOK, Steps, CallOK, Hold
    <2>5. CallInv'
      BY <2>2, FrameCall DEF TypeOK
    <2>6. UserLockInv'
      BY <1>p, <2>1 DEF UserLockInv, TypeOK
    <2> QED BY <2>4, <2>5, <2>6
  <1>20. CASE CommitActivation(r)
    <2> USE <1>20 DEF CommitActivation
    <2>1. TypeOK'
      BY PublishTypes DEF TypeOK, Steps, Outcomes
    <2>2. CallInv'
      BY FrameCall DEF TypeOK, Steps
    <2>3. UserLockInv'
      BY PublishTypes DEF UserLockInv, TypeOK
    <2> QED BY <2>1, <2>2, <2>3
  <1>21. CASE CommitDeactivation(r)
    <2> USE <1>21 DEF CommitDeactivation
    <2>1. TypeOK'
      BY PublishTypes DEF TypeOK, Steps
    <2>2. CallOK(r)'
      BY <1>p DEF CallOK, Steps, TypeOK, Granting
    <2>3. CallInv'
      BY <2>2, FrameCall DEF TypeOK
    <2>4. UserLockInv'
      BY PublishTypes DEF UserLockInv, TypeOK
    <2> QED BY <2>1, <2>3, <2>4
  <1>22. CASE Ban(r)
    <2> USE <1>22 DEF Ban
    <2>1. TypeOK'
      BY <1>p DEF TypeOK, Steps, Outcomes, CallOK, Calls
    <2>2. CallInv'
      BY FrameCall DEF TypeOK, Steps
    <2>3. UserLockInv'
      BY DEF UserLockInv, TypeOK
    <2> QED BY <2>1, <2>2, <2>3
  <1> QED
    BY <1>1, <1>2, <1>3, <1>4, <1>5, <1>6, <1>7, <1>8, <1>9, <1>10, <1>11, <1>12,
       <1>13, <1>14, <1>15, <1>16, <1>17, <1>18, <1>19, <1>20, <1>21, <1>22
    DEF Proceed

LEMMA NextTypeInv == TypeInv /\ [Next]_vars => TypeInv'
  <1> SUFFICES ASSUME TypeInv, [Next]_vars PROVE TypeInv'
    OBVIOUS
  <1>1. CASE UNCHANGED vars
    BY <1>1 DEF vars, TypeInv, TypeOK, CallInv, CallOK, UserLockInv
  <1>2. CASE Tick
    BY <1>2 DEF Tick, TypeInv, TypeOK, CallInv, CallOK, UserLockInv, committed, locks
  <1>3. CASE ChangePolicy
    BY <1>3 DEF ChangePolicy, TypeInv, TypeOK, CallInv, CallOK, UserLockInv, committed, locks
  <1>4. ASSUME NEW r \in Requests, Arrive(r) \/ Proceed(r) \/ Abort(r) PROVE TypeInv'
    BY <1>4, BeginTypeInv, ProceedTypeInv, RollbackTypeInv DEF Abort, Outcomes
  <1> QED BY <1>1, <1>2, <1>3, <1>4 DEF Next, Finished

(* Every variable keeps its type, and a call that has reached a statement  *)
(* knows the device, session, location or status which it needs there.     *)
THEOREM TypeCorrect == Spec => []TypeOK
  <1>1. Spec => []TypeInv
    BY InitTypeInv, NextTypeInv, PTL DEF Spec
  <1> QED BY <1>1, PTL DEF TypeInv

-----------------------------------------------------------------------------
(* One ACTIVE session per device, for every number of concurrent requests: *)
(* the invariant that the device lock maintains, and the proof that it is  *)
(* inductive.                                                              *)

(* The device lock is held from the statement that takes it to the end. *)
OnDevice(r, d) ==
  /\ call[r].op \in Granting
  /\ call[r].dev = d
  /\ pc[r] \in {"expire", "find", "reuse", "insert", "row", "write", "commit"}

DeviceOK(r) == \A d \in Devices : devLock[d] = r <=> OnDevice(r, d)

(* The ways in which r may have row s locked: the row it inserts, the rows *)
(* it expires, the one it reuses or refreshes, and those it revokes.       *)
Inserted(r, s) ==
  /\ s = r /\ sess[s] = NoRow
  /\ rowNext[s].status = "ACTIVE" /\ rowNext[s].dev = call[r].dev
  /\ call[r].op = "create" /\ pc[r] = "commit"

Written(r, s) ==
  /\ sess[s].status = "ACTIVE"
  /\ rowNext[s].dev = sess[s].dev /\ rowNext[s].started = sess[s].started
  /\ \/ /\ rowNext[s].status = "EXPIRED" /\ call[r].op = "create"
        /\ pc[r] \in {"find", "reuse", "insert", "commit"}
     \/ /\ rowNext[s].status = "ACTIVE" /\ rowNext[s].dev = call[r].dev
        /\ call[r].op = "create" /\ pc[r] = "commit"
     \/ /\ rowNext[s].status = "ACTIVE" /\ rowNext[s].dev = call[r].dev
        /\ call[r].op = "refresh" /\ pc[r] \in {"write", "commit"}
     \/ /\ rowNext[s].status = "REVOKED"
        /\ call[r].op \in {"revoke", "status"} /\ pc[r] \in {"rows", "commit"}

RowsOK(r) ==
  \A s \in SessionIds : rowLock[s] = r =>
    rowNext[s] \in Rows /\ (Inserted(r, s) \/ Written(r, s))

(* The session a call works on exists and stays on the device it was seen  *)
(* on; refresh has it locked when it writes.                               *)
TargetOK(r) ==
  LET s == call[r].target IN
  /\ pc[r] \in Steps /\ call[r].op \in {"refresh", "revoke"} => sess[s] # NoRow
  /\ \/ pc[r] \in {"device", "row", "write"} /\ call[r].op = "refresh"
     \/ pc[r] = "reuse"
     => sess[s] # NoRow /\ sess[s].dev = call[r].dev
  /\ pc[r] = "write" => rowLock[s] = r

(* The id a create inserts is its own: nobody has used it before. *)
NewIdOK(r) == sess[r] # NoRow => pc[r] \in Outcomes

(* From the moment it found none, a create that inserts has every ACTIVE   *)
(* session of its device locked and expired.                               *)
ClearOK(r) ==
  /\ call[r].op = "create"
  /\ pc[r] = "insert" \/ (pc[r] = "commit" /\ rowLock[r] = r)
  => \A s \in SessionIds :
       sess[s].status = "ACTIVE" /\ sess[s].dev = call[r].dev =>
         rowLock[s] = r /\ rowNext[s].status = "EXPIRED"

Mine(r) ==
  DeviceOK(r) /\ RowsOK(r) /\ TargetOK(r) /\ NewIdOK(r) /\ ClearOK(r)

DeviceInv == TypeInv /\ OneActiveSession /\ \A r \in Requests : Mine(r)

LEMMA InitDeviceInv == Init => DeviceInv
  <1> SUFFICES ASSUME Init PROVE DeviceInv
    OBVIOUS
  <1>1. TypeInv
    BY InitTypeInv
  <1>2. OneActiveSession
    <2>1. \A s \in SessionIds : sess[s].status = "ACTIVE" => s \in Seeds /\ sess[s] # NoRow
      BY DEF Init, NoRow, SessionIds
    <2> QED BY <2>1 DEF Init, OneActiveSession
  <1>3. ASSUME NEW r \in Requests PROVE Mine(r)
    BY SetsAssumption
    DEF Init, Mine, DeviceOK, OnDevice, RowsOK, TargetOK, NewIdOK, ClearOK, Steps, Outcomes,
        SessionIds
  <1> QED BY <1>1, <1>2, <1>3 DEF DeviceInv

(* What one call has to show of a step of its own that commits nothing. *)
LEMMA OwnStep ==
  ASSUME DeviceInv, TypeInv', NEW r \in Requests,
         pc[r] \notin Outcomes, pc'[r] # "duplicate", sess' = sess,
         \A q \in Requests \ {r} : pc'[q] = pc[q] /\ call'[q] = call[q],
         \A q \in Requests \ {r}, d \in Devices : devLock'[d] = q <=> devLock[d] = q,
         \A q \in Requests \ {r}, s \in SessionIds :
            (rowLock'[s] = q <=> rowLock[s] = q)
            /\ (rowLock[s] = q => rowNext'[s] = rowNext[s]),
         DeviceOK(r)', RowsOK(r)', TargetOK(r)', ClearOK(r)'
  PROVE  DeviceInv'
  <1> USE DEF DeviceInv, Mine
  <1>1. ASSUME NEW q \in Requests, q # r PROVE Mine(q)'
    <2> USE <1>1
    <2>1. DeviceOK(q)'
      BY DEF DeviceOK, OnDevice
    <2>2. RowsOK(q)'
      BY DEF RowsOK, Inserted, Written
    <2>3. TargetOK(q)'
      BY DEF TargetOK, TypeInv, CallInv, CallOK, Steps
    <2>4. NewIdOK(q)'
      BY DEF NewIdOK
    <2>5. ClearOK(q)'
      BY DEF ClearOK, SessionIds
    <2> QED BY <2>1, <2>2, <2>3, <2>4, <2>5
  <1>2. NewIdOK(r)'
    BY DEF NewIdOK
  <1>3. OneActiveSession'
    BY DEF OneActiveSession
  <1> QED BY <1>1, <1>2, <1>3

(* A call that holds nothing afterwards: it has ended, or has still to ban. *)
LEMMA Emptyhanded ==
  ASSUME NEW r \in Requests, TypeInv',
         pc'[r] \in Outcomes \/ (pc'[r] = "ban" /\ call'[r].op = "status"),
         \A d \in Devices : devLock'[d] # r,
         \A s \in SessionIds : rowLock'[s] # r
  PROVE  DeviceOK(r)' /\ RowsOK(r)' /\ TargetOK(r)' /\ ClearOK(r)'
  <1>1. pc'[r] \notin {"expire", "find", "reuse", "insert", "row", "write", "commit", "device"}
    BY DEF Outcomes
  <1>2. pc'[r] \in Steps => call'[r].op = "status"
    BY DEF Outcomes, Steps
  <1>3. DeviceOK(r)'
    BY <1>1 DEF DeviceOK, OnDevice
  <1>4. RowsOK(r)'
    BY DEF RowsOK
  <1>5. TargetOK(r)'
    BY <1>1, <1>2 DEF TargetOK
  <1>6. ClearOK(r)'
    BY <1>1 DEF ClearOK
  <1> QED BY <1>3, <1>4, <1>5, <1>6

LEMMA RollbackDeviceInv ==
  ASSUME DeviceInv, NEW r \in Requests, pc[r] \notin Outcomes,
         NEW outcome \in Outcomes \ {"duplicate"}, Rollback(r, outcome)
  PROVE  DeviceInv'
  <1>1. TypeInv'
    BY RollbackTypeInv DEF DeviceInv
  <1> USE DEF DeviceInv, TypeInv, TypeOK, Rollback, End, Goto, ReleaseLocks, committed
  <1>2. /\ \A d \in Devices : devLock'[d] # r
        /\ \A s \in SessionIds : rowLock'[s] # r
        /\ pc'[r] = outcome
        /\ sess' = sess
    BY SetsAssumption
  <1>3. \A q \in Requests \ {r} : pc'[q] = pc[q] /\ call'[q] = call[q]
    OBVIOUS
  <1>4. \A q \in Requests \ {r}, d \in Devices : devLock'[d] = q <=> devLock[d] = q
    BY SetsAssumption
  <1>5. \A q \in Requests \ {r}, s \in SessionIds :
            (rowLock'[s] = q <=> rowLock[s] = q)
            /\ (rowLock[s] = q => rowNext'[s] = rowNext[s])
    BY SetsAssumption
  <1>6. DeviceOK(r)' /\ RowsOK(r)' /\ TargetOK(r)' /\ ClearOK(r)'
    BY <1>1, <1>2, Emptyhanded
  <1> QED BY <1>1, <1>2, <1>3, <1>4, <1>5, <1>6, OwnStep

LEMMA ArriveDeviceInv ==
  ASSUME DeviceInv, NEW r \in Requests, Arrive(r)
  PROVE  DeviceInv'
  <1>1. TypeInv'
    BY BeginTypeInv DEF DeviceInv
  <1>2. PICK first \in {"context", "row", "read"}, op \in AllOps, u \in Users,
             l \in Locations \cup {None}, g \in GoalStatuses \cup {None},
             d \in Devices \cup {None}, s \in SessionIds \cup {None} :
          /\ Begin(r, first, op, u, l, g, d, s)
          /\ op \in {"refresh", "revoke"} => sess[s] # NoRow
          /\ op \in {"create", "refresh"} => first = "context"
          /\ op = "status" => first = "read"
    <2> USE DEF AllOps, DeviceInv, TypeInv
    <2>1. CASE BeginCreate(r)
      BY <2>1, OwnerAssumption DEF BeginCreate
    <2>2. CASE BeginRefresh(r)
      BY <2>2, OwnerAssumption DEF BeginRefresh, TypeOK, Rows, NoRow
    <2>3. CASE BeginRevoke(r)
      BY <2>3, OwnerAssumption DEF BeginRevoke, TypeOK, Rows, NoRow
    <2>4. CASE BeginStatus(r)
      BY <2>4, InputAssumption DEF BeginStatus
    <2> QED BY <2>1, <2>2, <2>3, <2>4 DEF Arrive
  <1> USE DEF DeviceInv, Mine, TypeInv, TypeOK, Begin, Goto, committed, locks
  <1>3. /\ pc[r] = "idle" /\ pc'[r] = first
        /\ call'[r].op = op /\ call'[r].target = s /\ call'[r].dev = d
        /\ sess' = sess /\ rowLock' = rowLock /\ rowNext' = rowNext /\ devLock' = devLock
        /\ \A q \in Requests \ {r} : pc'[q] = pc[q] /\ call'[q] = call[q]
    BY <1>2
  <1>4. /\ \A e \in Devices : devLock[e] # r
        /\ \A q \in SessionIds : rowLock[q] # r
    BY <1>3 DEF DeviceOK, OnDevice, RowsOK, Inserted, Written
  <1>5. DeviceOK(r)'
    BY <1>2, <1>3, <1>4 DEF DeviceOK, OnDevice, Granting, AllOps
  <1>6. RowsOK(r)' /\ ClearOK(r)'
    BY <1>3, <1>4 DEF RowsOK, ClearOK
  <1>7. TargetOK(r)'
    BY <1>2, <1>3 DEF TargetOK
  <1>8. pc[r] \notin Outcomes /\ pc'[r] # "duplicate"
    BY <1>3 DEF Outcomes
  <1> QED BY <1>1, <1>3, <1>5, <1>6, <1>7, <1>8, OwnStep

(* A commit publishes the rows which r holds, and their devices stay what  *)
(* they were: a new session appears only on a device r has cleared.        *)
LEMMA CommitDeviceInv ==
  ASSUME DeviceInv, TypeInv', NEW r \in Requests, pc[r] = "commit", Publish(r),
         pc'[r] = "ok" \/ (pc'[r] = "ban" /\ call[r].op = "status" /\ call' = call),
         \A q \in Requests \ {r} : pc'[q] = pc[q] /\ call'[q] = call[q]
  PROVE  DeviceInv'
  <1> USE DEF DeviceInv, Mine, TypeInv, TypeOK
  <1>1. /\ \A d \in Devices : devLock'[d] # r
        /\ \A s \in SessionIds : rowLock'[s] # r
        /\ \A q \in Requests \ {r}, d \in Devices : devLock'[d] = q <=> devLock[d] = q
        /\ \A q \in Requests \ {r}, s \in SessionIds :
             (rowLock'[s] = q <=> rowLock[s] = q)
             /\ (rowLock[s] = q => rowNext'[s] = rowNext[s])
    BY SetsAssumption DEF Publish, ReleaseLocks
  <1>2. \A s \in SessionIds : rowLock[s] # r => sess'[s] = sess[s]
    BY DEF Publish, Seen
  <1>3. \A s \in SessionIds : rowLock[s] = r => sess'[s] = rowNext[s] /\ rowNext[s] \in Rows
    BY DEF Publish, Seen, RowsOK
  <1>4. \A s \in SessionIds : sess[s] # NoRow => sess'[s] # NoRow /\ sess'[s].dev = sess[s].dev
    BY <1>2, <1>3 DEF RowsOK, Inserted, Written, Rows, NoRow
  <1>5. \A s \in SessionIds : sess'[s].status = "ACTIVE" =>
           \/ sess[s].status = "ACTIVE" /\ sess'[s].dev = sess[s].dev
           \/ rowLock[s] = r /\ Inserted(r, s) /\ sess'[s].dev = call[r].dev
    BY <1>2, <1>3 DEF RowsOK, Written, Inserted
  <1>6. DeviceOK(r)' /\ RowsOK(r)' /\ TargetOK(r)' /\ ClearOK(r)'
    BY <1>1, Emptyhanded DEF Outcomes
  <1>7. NewIdOK(r)'
    <2>1. CASE pc'[r] = "ok"
      BY <2>1 DEF NewIdOK, Outcomes
    <2>2. CASE pc'[r] = "ban"
      <3>1. sess[r] = NoRow /\ r \in SessionIds
        BY DEF NewIdOK, Outcomes, SessionIds
      <3>2. rowLock[r] # r
        BY <2>2, <3>1 DEF RowsOK, Inserted, Written, NoRow
      <3> QED BY <1>2, <3>1, <3>2 DEF NewIdOK
    <2> QED BY <2>1, <2>2
  <1>8. ASSUME NEW q \in Requests, q # r PROVE Mine(q)'
    <2> USE <1>8
    <2>1. DeviceOK(q)'
      BY <1>1 DEF DeviceOK, OnDevice
    <2>2. RowsOK(q)'
      BY <1>1, <1>2 DEF RowsOK, Inserted, Written
    <2>3. TargetOK(q)'
      <3>1. /\ pc[q] \in Steps /\ call[q].op \in {"refresh", "revoke"} =>
                  call[q].target \in SessionIds
            /\ pc[q] \in {"reuse", "write"} => call[q].target \in SessionIds
            /\ pc[q] \in {"device", "row", "write", "reuse"} => pc[q] \in Steps
        BY DEF CallInv, CallOK, Steps, Granting
      <3> QED BY <1>1, <1>4, <3>1 DEF TargetOK
    <2>4. NewIdOK(q)'
      <3>1. rowLock[q] = r => sess[q] # NoRow
        BY DEF RowsOK, Inserted, Written, NoRow, SessionIds
      <3> QED BY <1>2, <3>1 DEF NewIdOK, SessionIds
    <2>5. ClearOK(q)'
      <3> SUFFICES ASSUME call[q].op = "create",
                          pc[q] = "insert" \/ (pc[q] = "commit" /\ rowLock[q] = q),
                          NEW s \in SessionIds,
                          sess'[s].status = "ACTIVE", sess'[s].dev = call[q].dev
                   PROVE  rowLock'[s] = q /\ rowNext'[s].status = "EXPIRED"
        BY <1>1 DEF ClearOK, SessionIds
      <3>1. call[q].dev \in Devices /\ OnDevice(q, call[q].dev)
        BY DEF OnDevice, Granting, CallInv, CallOK, Steps
      <3>2. ~ (Inserted(r, s) /\ sess'[s].dev = call[r].dev)
        BY <3>1 DEF Inserted, DeviceOK, OnDevice, Granting
      <3>3. sess[s].status = "ACTIVE" /\ sess[s].dev = call[q].dev
        BY <1>5, <3>2
      <3>4. rowLock[s] = q /\ rowNext[s].status = "EXPIRED"
        BY <3>3 DEF ClearOK
      <3> QED BY <1>1, <3>4
    <2> QED BY <2>1, <2>2, <2>3, <2>4, <2>5
  <1>9. OneActiveSession'
    <2>1. ASSUME NEW s \in SessionIds, NEW q \in SessionIds,
                 sess'[s].status = "ACTIVE", sess'[q].status = "ACTIVE",
                 sess'[s].dev = sess'[q].dev, rowLock[s] = r, Inserted(r, s), q # s
          PROVE  FALSE
      <3>1. ~ Inserted(r, q)
        BY <2>1 DEF Inserted
      <3>2. sess[q].status = "ACTIVE" /\ sess[q].dev = call[r].dev
        BY <1>3, <1>5, <2>1, <3>1 DEF Inserted
      <3>3. rowLock[q] = r /\ rowNext[q].status = "EXPIRED"
        BY <2>1, <3>2 DEF ClearOK, Inserted
      <3> QED BY <1>3, <2>1, <3>3
    <2>2. \A q \in Requests : pc'[q] # "duplicate"
      BY DEF OneActiveSession
    <2> QED BY <1>5, <2>1, <2>2 DEF OneActiveSession
  <1> QED BY <1>6, <1>7, <1>8, <1>9

(* A step that takes no lock and writes nothing. *)
LEMMA QuietStep ==
  ASSUME DeviceInv, TypeInv', NEW r \in Requests, NEW label \in Steps,
         pc[r] \in Steps, pc' = [pc EXCEPT ![r] = label],
         \A q \in Requests \ {r} : call'[q] = call[q],
         UNCHANGED <<devLock, rowLock, rowNext, sess>>,
         DeviceOK(r)', RowsOK(r)', TargetOK(r)', ClearOK(r)'
  PROVE  DeviceInv'
  <1>1. pc[r] \notin Outcomes /\ pc'[r] # "duplicate"
    BY DEF DeviceInv, TypeInv, TypeOK, Steps, Outcomes
  <1>2. \A q \in Requests \ {r} : pc'[q] = pc[q]
    BY DEF DeviceInv, TypeInv, TypeOK
  <1> QED BY <1>1, <1>2, OwnStep

(* A step that writes rows which were free, or its own already. *)
Untouched(s) == rowLock'[s] = rowLock[s] /\ rowNext'[s] = rowNext[s]
Taken(r, s) == rowLock[s] \in {None, r} /\ rowLock'[s] = r

LEMMA WritingStep ==
  ASSUME DeviceInv, TypeInv', NEW r \in Requests, NEW label \in Steps,
         pc[r] \in Steps, pc' = [pc EXCEPT ![r] = label],
         \A s \in SessionIds : Untouched(s) \/ Taken(r, s),
         \A q \in Requests \ {r} : call'[q] = call[q],
         UNCHANGED <<devLock, sess>>,
         DeviceOK(r)', RowsOK(r)', TargetOK(r)', ClearOK(r)'
  PROVE  DeviceInv'
  <1>1. pc[r] \notin Outcomes /\ pc'[r] # "duplicate"
    BY DEF DeviceInv, TypeInv, TypeOK, Steps, Outcomes
  <1>2. \A q \in Requests \ {r} : pc'[q] = pc[q]
    BY DEF DeviceInv, TypeInv, TypeOK
  <1>3. \A q \in Requests \ {r}, s \in SessionIds :
            (rowLock'[s] = q <=> rowLock[s] = q)
            /\ (rowLock[s] = q => rowNext'[s] = rowNext[s])
    BY SetsAssumption DEF Untouched, Taken
  <1> QED BY <1>1, <1>2, <1>3, OwnStep

LEMMA ProceedDeviceInv ==
  ASSUME DeviceInv, NEW r \in Requests, Proceed(r)
  PROVE  DeviceInv'
  <1>1. TypeInv'
    BY ProceedTypeInv DEF DeviceInv
  <1> USE DEF DeviceInv, Mine, TypeInv, TypeOK, Goto, End, committed, locks
  <1>2. pc[r] \in Steps => CallOK(r) /\ call[r] \in Calls
    BY DEF CallInv, CallOK
  <1>3. pc[r] \in {"context", "observe", "device", "expire", "row", "read", "unban",
                   "user", "scan", "ban"} => \A s \in SessionIds : rowLock[s] # r
    BY DEF RowsOK, Inserted, Written
  <1> SUFFICES ASSUME ~ \E outcome \in Outcomes \ {"duplicate"} :
                          pc[r] \in Steps /\ Rollback(r, outcome)
               PROVE  DeviceInv'
    BY RollbackDeviceInv DEF Steps, Outcomes
  <1>4. CASE ReadContext(r)
    <2>1. PICK label \in {"device", "observe"} :
            /\ pc[r] = "context"
            /\ pc' = [pc EXCEPT ![r] = label]
            /\ label = "device" <=> call[r].op = "create"
            /\ call' = [call EXCEPT ![r].cap = policy]
            /\ UNCHANGED <<locks, sess>>
      BY <1>4 DEF ReadContext, Outcomes, Steps
    <2>2. /\ pc'[r] = label
          /\ call'[r].op = call[r].op /\ call'[r].target = call[r].target
          /\ \A q \in Requests \ {r} : call'[q] = call[q]
      BY <1>2, <2>1 DEF Calls, Steps
    <2>3. DeviceOK(r)' /\ RowsOK(r)' /\ ClearOK(r)'
      BY <1>3, <2>1, <2>2 DEF DeviceOK, OnDevice, RowsOK, ClearOK
    <2>4. TargetOK(r)'
      BY <2>1, <2>2 DEF TargetOK, Steps
    <2> QED BY <1>1, <2>1, <2>2, <2>3, <2>4, QuietStep DEF Steps
  <1>5. CASE Observe(r)
    <2>1. /\ pc[r] = "observe"
          /\ pc' = [pc EXCEPT ![r] = "device"]
          /\ call' = [call EXCEPT ![r].dev = sess[call[r].target].dev]
          /\ UNCHANGED <<locks, sess>>
      BY <1>5 DEF Observe, Outcomes, Steps
    <2>2. /\ pc'[r] = "device"
          /\ call'[r].op = call[r].op /\ call'[r].target = call[r].target
          /\ call'[r].dev = sess[call[r].target].dev
          /\ \A q \in Requests \ {r} : call'[q] = call[q]
      BY <1>2, <2>1 DEF Calls, Steps
    <2>3. DeviceOK(r)' /\ RowsOK(r)' /\ ClearOK(r)'
      BY <1>3, <2>1, <2>2 DEF DeviceOK, OnDevice, RowsOK, ClearOK
    <2>4. TargetOK(r)'
      BY <1>2, <2>1, <2>2 DEF TargetOK, Steps, CallOK
    <2> QED BY <1>1, <2>1, <2>2, <2>3, <2>4, QuietStep DEF Steps
  <1>6. CASE LockDevice(r)
    <2> DEFINE d == call[r].dev
    <2>1. PICK label \in {"expire", "row"} :
            /\ pc[r] = "device"
            /\ devLock[d] = None
            /\ devLock' = [devLock EXCEPT ![d] = r]
            /\ pc' = [pc EXCEPT ![r] = label]
            /\ label = "expire" <=> call[r].op = "create"
            /\ UNCHANGED <<call, rowLock, rowNext, sess>>
      BY <1>6 DEF LockDevice
    <2>2. d \in Devices /\ call[r].op \in Granting
      BY <1>2, <2>1 DEF CallOK, Steps
    <2>3. DeviceOK(r)'
      BY <2>1, <2>2 DEF DeviceOK, OnDevice
    <2>4. RowsOK(r)' /\ ClearOK(r)'
      BY <1>3, <2>1 DEF RowsOK, ClearOK
    <2>5. TargetOK(r)'
      BY <2>1, <2>2 DEF TargetOK, Steps, Granting
    <2>6. \A q \in Requests \ {r}, e \in Devices : devLock'[e] = q <=> devLock[e] = q
      BY <2>1, SetsAssumption
    <2>7. /\ \A q \in Requests \ {r} : pc'[q] = pc[q] /\ call'[q] = call[q]
          /\ pc[r] \notin Outcomes /\ pc'[r] # "duplicate"
      BY <2>1 DEF Outcomes
    <2> QED BY <1>1, <2>1, <2>3, <2>4, <2>5, <2>6, <2>7, OwnStep
  <1>7. CASE Deny(r)
    BY <1>7 DEF Deny, Outcomes, Steps
  <1>8. CASE ExpireStale(r)
    <2> DEFINE stale == StaleOn(r, call[r].dev)
               new == [s \in stale |-> [Seen(r, s) EXCEPT !.status = "EXPIRED"]]
    <2>1. PICK until \in ScheduleEnds :
            /\ pc[r] = "expire"
            /\ pc' = [pc EXCEPT ![r] = "find"]
            /\ call' = [call EXCEPT ![r].exp = Min2(call[r].at + Ttl, until)]
            /\ \A s \in stale : Free(r, s)
            /\ Hold(r, new)
            /\ UNCHANGED <<devLock, sess>>
      BY <1>8 DEF ExpireStale
    <2>2. /\ pc'[r] = "find" /\ call[r].op = "create"
          /\ call'[r].op = call[r].op /\ call'[r].dev = call[r].dev
          /\ \A q \in Requests \ {r} : call'[q] = call[q]
      BY <1>2, <2>1 DEF Calls, Steps, CallOK
    <2>3. \A s \in stale : /\ Seen(r, s) = sess[s] /\ sess[s] \in Rows
                           /\ sess[s].status = "ACTIVE"
      BY <1>3, <2>1 DEF StaleOn, ActiveOn, Seen, NoRow
    <2>4. DeviceOK(r)'
      BY <2>1, <2>2 DEF DeviceOK, OnDevice
    <2>5. RowsOK(r)'
      <3>1. ASSUME NEW s \in SessionIds, rowLock'[s] = r
            PROVE  s \in stale /\ rowNext'[s] = [sess[s] EXCEPT !.status = "EXPIRED"]
        BY <1>3, <2>1, <2>3, <3>1 DEF Hold
      <3>2. ASSUME NEW s \in SessionIds, rowLock'[s] = r
            PROVE  /\ rowNext'[s] \in Rows
                   /\ rowNext'[s].status = "EXPIRED" /\ rowNext'[s].dev = sess[s].dev
                   /\ rowNext'[s].started = sess[s].started /\ sess[s].status = "ACTIVE"
        BY <2>3, <3>1, <3>2, ZenonT(30) DEF Rows
      <3>3. sess' = sess
        BY <2>1
      <3> QED BY <2>2, <3>2, <3>3 DEF RowsOK, Written
    <2>6. TargetOK(r)' /\ ClearOK(r)'
      BY <2>2 DEF TargetOK, ClearOK
    <2>7. \A s \in SessionIds : Untouched(s) \/ Taken(r, s)
      BY <2>1 DEF Hold, Free, Untouched, Taken
    <2> QED BY <1>1, <2>1, <2>2, <2>4, <2>5, <2>6, <2>7, WritingStep DEF Steps
  <1>9. CASE FindActive(r)
    <2>1. PICK s \in ActiveOn(r, call[r].dev) :
            /\ pc[r] = "find"
            /\ Choose(r, s, Seen(r, s).started + call[r].cap)
      BY <1>9 DEF FindActive, Outcomes, Steps
    <2>2. /\ pc' = [pc EXCEPT ![r] = "reuse"]
          /\ call[r].op = "create" /\ call'[r].op = "create"
          /\ call'[r].dev = call[r].dev /\ call'[r].target = s
          /\ \A q \in Requests \ {r} : call'[q] = call[q]
          /\ UNCHANGED <<locks, sess>>
      BY <1>2, <2>1 DEF Choose, Calls, Steps, CallOK
    <2>3. rowLock[s] # r /\ s \in SessionIds
      BY <2>1 DEF ActiveOn, Seen, RowsOK, Inserted, Written
    <2>4. sess[s] # NoRow /\ sess[s].dev = call[r].dev
      BY <2>1, <2>3 DEF ActiveOn, Seen, NoRow
    <2>5. DeviceOK(r)'
      BY <2>1, <2>2 DEF DeviceOK, OnDevice
    <2>6. RowsOK(r)'
      BY <2>1, <2>2 DEF RowsOK, Inserted, Written
    <2>7. TargetOK(r)' /\ ClearOK(r)'
      BY <2>2, <2>4 DEF TargetOK, ClearOK
    <2> QED BY <1>1, <2>1, <2>2, <2>5, <2>6, <2>7, QuietStep DEF Steps
  <1>10. CASE FindNone(r)
    <2>1. /\ pc[r] = "find"
          /\ ActiveOn(r, call[r].dev) = {}
          /\ call' = [call EXCEPT ![r].exp = Min2(call[r].exp, call[r].at + call[r].cap)]
          /\ pc' = [pc EXCEPT ![r] = "insert"]
          /\ UNCHANGED <<locks, sess>>
      BY <1>10 DEF FindNone
    <2>2. /\ call[r].op = "create" /\ call'[r].op = "create"
          /\ call'[r].dev = call[r].dev
          /\ \A q \in Requests \ {r} : call'[q] = call[q]
      BY <1>2, <2>1 DEF Calls, Steps, CallOK
    <2>3. DeviceOK(r)'
      BY <2>1, <2>2 DEF DeviceOK, OnDevice
    <2>4. RowsOK(r)'
      BY <2>1, <2>2 DEF RowsOK, Inserted, Written
    <2>5. TargetOK(r)'
      BY <2>1, <2>2 DEF TargetOK
    <2>6. ASSUME NEW s \in SessionIds, sess[s].status = "ACTIVE", sess[s].dev = call[r].dev
          PROVE  rowLock[s] = r /\ rowNext[s].status = "EXPIRED"
      <3>1. rowLock[s] = r
        BY <2>1, <2>6 DEF ActiveOn, Seen
      <3>2. Inserted(r, s) \/ Written(r, s)
        BY <3>1 DEF RowsOK
      <3> QED BY <2>1, <3>1, <3>2 DEF Inserted, Written
    <2>7. ClearOK(r)'
      BY <2>1, <2>2, <2>6 DEF ClearOK
    <2> QED BY <1>1, <2>1, <2>2, <2>3, <2>4, <2>5, <2>7, QuietStep DEF Steps
  <1>11. CASE Reuse(r)
    <2> DEFINE t == call[r].target
               row == Seen(r, t)
               hit == {s \in {t} : row.status = "ACTIVE"}
    <2>1. /\ pc[r] = "reuse"
          /\ Free(r, t)
          /\ Hold(r, [s \in hit |-> [row EXCEPT !.expires = call[r].exp]])
          /\ pc' = [pc EXCEPT ![r] = "commit"]
          /\ UNCHANGED <<devLock, sess, call>>
      BY <1>11 DEF Reuse, Outcomes, Steps
    <2>2. /\ call[r].op = "create" /\ t \in SessionIds
          /\ sess[t] \in Rows /\ sess[t].dev = call[r].dev /\ t # r
      BY <1>2, <2>1 DEF CallOK, Steps, TargetOK, NewIdOK, Granting, Outcomes
    <2>3. \A s \in SessionIds : rowLock[s] = r => rowNext[s].status = "EXPIRED" /\ Written(r, s)
      BY <2>1 DEF RowsOK, Inserted, Written
    <2>4. hit # {} => row = sess[t] /\ sess[t].status = "ACTIVE"
      BY <2>2, <2>3 DEF Seen
    <2>5. DeviceOK(r)'
      BY <2>1 DEF DeviceOK, OnDevice
    <2>6. RowsOK(r)'
      <3> SUFFICES ASSUME NEW s \in SessionIds, rowLock'[s] = r
                   PROVE  rowNext'[s] \in Rows /\ Written(r, s)'
        BY DEF RowsOK
      <3>1. CASE s \in hit
        <4>1. rowNext'[s] = [sess[t] EXCEPT !.expires = call[r].exp] /\ s = t
          BY <2>1, <2>4, <3>1 DEF Hold
        <4>2. call[r].exp \in Nat
          BY <1>2, <2>1 DEF Calls, Steps
        <4>3. /\ rowNext'[s] \in Rows /\ rowNext'[s].dev = sess[t].dev
              /\ rowNext'[s].started = sess[t].started
              /\ rowNext'[s].status = "ACTIVE"
          BY <2>2, <2>4, <3>1, <4>1, <4>2 DEF Rows
        <4>4. /\ sess'[s] = sess[t] /\ sess[t].status = "ACTIVE"
              /\ call'[r].dev = sess[t].dev /\ call'[r].op = "create" /\ pc'[r] = "commit"
          BY <2>1, <2>2, <2>4, <3>1, <4>1
        <4> QED BY <4>3, <4>4 DEF Written
      <3>2. CASE s \notin hit
        <4>1. rowLock[s] = r /\ rowNext'[s] = rowNext[s]
          BY <2>1, <3>2 DEF Hold
        <4>2. Written(r, s)' /\ rowNext[s] \in Rows
          BY <2>1, <2>2, <2>3, <4>1 DEF Written, RowsOK
        <4> QED BY <4>1, <4>2
      <3> QED BY <3>1, <3>2
    <2>7. TargetOK(r)'
      BY <2>1, <2>2 DEF TargetOK
    <2>8. ClearOK(r)'
      <3>1. sess[r] = NoRow /\ r \in SessionIds
        BY <2>1 DEF NewIdOK, Outcomes, SessionIds
      <3>2. rowLock'[r] # r
        BY <2>1, <2>2, <2>3, <3>1 DEF Hold, Written, NoRow
      <3> QED BY <2>1, <3>2 DEF ClearOK
    <2>9. \A s \in SessionIds : Untouched(s) \/ Taken(r, s)
      BY <2>1 DEF Hold, Free, Untouched, Taken
    <2> QED BY <1>1, <2>1, <2>5, <2>6, <2>7, <2>8, <2>9, WritingStep DEF Steps
  <1>12. CASE Insert(r)
    <2> DEFINE d == call[r].dev
               new == [status |-> "ACTIVE", dev |-> d, loc |-> call[r].loc,
                       started |-> call[r].at, expires |-> call[r].exp]
    <2>1. pc[r] = "insert" /\ call[r].op = "create" /\ d \in Devices /\ OnDevice(r, d)
      BY <1>2, <1>12 DEF Insert, CallOK, Steps, OnDevice, Granting
    <2>2. \A s \in SessionIds : rowLock[s] = r => rowNext[s].status = "EXPIRED" /\ Written(r, s)
      BY <2>1 DEF RowsOK, Inserted, Written
    <2>3. ActiveOn(r, d) = {}
      BY <2>1, <2>2 DEF ActiveOn, Seen, ClearOK
    <2>4. ASSUME NEW s \in SessionIds, ~ Free(r, s), rowNext[s].status = "ACTIVE",
                 rowNext[s].dev = d
          PROVE  FALSE
      <3>1. PICK q \in Requests : rowLock[s] = q /\ q # r
        BY <2>4 DEF Free
      <3>2. Inserted(q, s) \/ Written(q, s)
        BY <3>1 DEF RowsOK
      <3>3. OnDevice(q, d)
        BY <2>4, <3>2 DEF Inserted, Written, OnDevice, Granting
      <3> QED BY <2>1, <3>1, <3>3 DEF DeviceOK
    <2>5. Rivals(r, d) = {}
      BY <2>3, <2>4 DEF Rivals
    <2>6. /\ Hold(r, [s \in {r} |-> new])
          /\ call' = [call EXCEPT ![r].target = r]
          /\ pc' = [pc EXCEPT ![r] = "commit"]
          /\ UNCHANGED <<devLock, sess>>
      BY <1>12, <2>5 DEF Insert
    <2>7. /\ call'[r].op = "create" /\ call'[r].dev = d /\ pc'[r] = "commit"
          /\ \A q \in Requests \ {r} : call'[q] = call[q]
      BY <1>2, <2>1, <2>6 DEF Calls, Steps
    <2>8. /\ sess[r] = NoRow /\ r \in SessionIds
          /\ new \in Rows /\ new.status = "ACTIVE" /\ new.dev = d
      BY <1>2, <2>1 DEF NewIdOK, Outcomes, SessionIds, CallOK, Calls, Steps, Rows, Granting
    <2> HIDE DEF new
    <2>9. /\ rowLock'[r] = r /\ rowNext'[r] = new
          /\ \A s \in SessionIds \ {r} : Untouched(s)
      BY <2>6, <2>8 DEF Hold, Untouched
    <2>10. DeviceOK(r)'
      BY <2>1, <2>6, <2>7 DEF DeviceOK, OnDevice
    <2>11. RowsOK(r)'
      <3>1. Inserted(r, r)'
        BY <2>6, <2>7, <2>8, <2>9 DEF Inserted
      <3>2. \A s \in SessionIds \ {r} : rowLock'[s] = r => Written(r, s)'
        BY <2>2, <2>6, <2>7, <2>9 DEF Untouched, Written
      <3> QED BY <1>1, <2>8, <2>9, <3>1, <3>2 DEF RowsOK, Untouched
    <2>12. TargetOK(r)'
      BY <2>7 DEF TargetOK
    <2>13. ClearOK(r)'
      <3>1. sess[r].status # "ACTIVE"
        BY <2>8 DEF NoRow
      <3> QED BY <2>1, <2>6, <2>7, <2>9, <3>1 DEF ClearOK, Untouched
    <2>14. rowLock[r] \in {None, r}
      <3>1. \A q \in Requests : rowLock[r] = q => Inserted(q, r)
        BY <2>8 DEF RowsOK, Written, NoRow
      <3> QED BY <2>8, <3>1 DEF Inserted
    <2>15. \A s \in SessionIds : Untouched(s) \/ Taken(r, s)
      BY <2>9, <2>14 DEF Taken
    <2> QED BY <1>1, <2>1, <2>6, <2>7, <2>10, <2>11, <2>12, <2>13, <2>15, WritingStep DEF Steps
  <1>13. CASE LockSession(r)
    <2> DEFINE t == call[r].target
    <2>1. /\ pc[r] = "row" /\ call[r].op = "refresh"
          /\ rowLock[t] = None /\ sess[t].status = "ACTIVE"
          /\ Hold(r, [s \in {t} |-> sess[t]])
          /\ pc' = [pc EXCEPT ![r] = "write"]
          /\ UNCHANGED <<devLock, sess, call>>
      BY <1>13 DEF LockSession, Outcomes, Steps
    <2>2. t \in SessionIds /\ sess[t] \in Rows /\ sess[t].dev = call[r].dev
      BY <1>2, <2>1 DEF CallOK, Steps, TargetOK
    <2>3. /\ rowLock'[t] = r /\ rowNext'[t] = sess[t]
          /\ \A s \in SessionIds \ {t} : Untouched(s)
      BY <2>1, <2>2 DEF Hold, Untouched
    <2>4. DeviceOK(r)'
      BY <2>1 DEF DeviceOK, OnDevice
    <2>5. RowsOK(r)'
      BY <1>3, <2>1, <2>2, <2>3 DEF RowsOK, Written, Untouched
    <2>6. TargetOK(r)' /\ ClearOK(r)'
      BY <2>1, <2>2, <2>3 DEF TargetOK, ClearOK, NoRow
    <2>7. \A s \in SessionIds : Untouched(s) \/ Taken(r, s)
      BY <2>1, <2>3 DEF Taken
    <2> QED BY <1>1, <2>1, <2>4, <2>5, <2>6, <2>7, WritingStep DEF Steps
  <1>14. CASE WriteRefresh(r)
    <2> DEFINE t == call[r].target
               row == rowNext[t]
               end(until) == Min2(Min2(call[r].at + Ttl, until), row.started + call[r].cap)
               new(until) == [row EXCEPT !.loc = call[r].loc, !.expires = end(until)]
    <2>1. PICK until \in ScheduleEnds :
            /\ pc[r] = "write" /\ row.status = "ACTIVE"
            /\ call' = [call EXCEPT ![r].exp = end(until)]
            /\ Hold(r, [s \in {t} |-> new(until)])
            /\ pc' = [pc EXCEPT ![r] = "commit"]
            /\ UNCHANGED <<devLock, sess>>
      BY <1>14 DEF WriteRefresh, Outcomes, Steps
    <2>2. /\ call[r].op = "refresh" /\ call'[r].op = "refresh"
          /\ call'[r].dev = call[r].dev /\ call'[r].target = t /\ pc'[r] = "commit"
          /\ \A q \in Requests \ {r} : call'[q] = call[q]
      BY <1>2, <2>1 DEF Calls, Steps, CallOK
    <2>3. t \in SessionIds /\ rowLock[t] = r /\ sess[t] # NoRow
      BY <1>2, <2>1, <2>2 DEF CallOK, TargetOK, Steps
    <2>4. row \in Rows /\ Written(r, t) /\ row.dev = call[r].dev
      BY <2>1, <2>2, <2>3 DEF RowsOK, Inserted, Written
    <2>5. end(until) \in Nat /\ call[r].loc \in Locations
      BY <1>2, <2>1, <2>2, <2>4, PolicyAssumption
      DEF Min2, CallOK, Steps, Calls, Rows, Granting
    <2> HIDE DEF end
    <2>6. /\ new(until) \in Rows /\ new(until).status = "ACTIVE"
          /\ new(until).dev = row.dev /\ new(until).started = row.started
      BY <2>1, <2>4, <2>5 DEF Rows
    <2> HIDE DEF new
    <2>7. /\ rowLock'[t] = r /\ rowNext'[t] = new(until)
          /\ \A s \in SessionIds \ {t} : Untouched(s)
      BY <2>1, <2>3 DEF Hold, Untouched
    <2>8. DeviceOK(r)'
      BY <2>1, <2>2 DEF DeviceOK, OnDevice
    <2>9. RowsOK(r)'
      <3>1. /\ sess'[t].status = "ACTIVE" /\ new(until).dev = sess'[t].dev
            /\ new(until).started = sess'[t].started /\ new(until).dev = call'[r].dev
        BY <2>1, <2>2, <2>4, <2>6 DEF Written
      <3>2. ASSUME NEW s \in SessionIds, s = t PROVE Written(r, s)'
        BY <2>2, <2>6, <2>7, <3>1, <3>2 DEF Written
      <3>3. ASSUME NEW s \in SessionIds \ {t}, rowLock'[s] = r
            PROVE  rowNext'[s] \in Rows /\ Written(r, s)'
        <4>1. rowLock[s] = r /\ rowNext'[s] = rowNext[s]
          BY <2>7, <3>3 DEF Untouched
        <4>2. rowNext[s] \in Rows /\ Written(r, s)
          BY <2>1, <4>1 DEF RowsOK, Inserted
        <4>3. Written(r, s)'
          BY <2>1, <2>2, <4>1, <4>2 DEF Written
        <4> QED BY <4>1, <4>2, <4>3
      <3>4. rowNext'[t] \in Rows
        BY <2>6, <2>7
      <3> QED BY <3>2, <3>3, <3>4 DEF RowsOK
    <2>10. TargetOK(r)'
      BY <2>1, <2>2, <2>3 DEF TargetOK
    <2>11. ClearOK(r)'
      BY <2>2 DEF ClearOK
    <2>12. \A s \in SessionIds : Untouched(s) \/ Taken(r, s)
      BY <2>3, <2>7 DEF Taken
    <2> QED BY <1>1, <2>1, <2>2, <2>8, <2>9, <2>10, <2>11, <2>12, WritingStep DEF Steps
  <1>15. CASE CommitGrant(r) \/ CommitRevoke(r) \/ CommitActivation(r) \/ CommitDeactivation(r)
    <2>1. /\ pc[r] = "commit" /\ Publish(r)
          /\ pc'[r] = "ok" \/ (pc'[r] = "ban" /\ call[r].op = "status" /\ call' = call)
          /\ \A q \in Requests \ {r} : pc'[q] = pc[q] /\ call'[q] = call[q]
      BY <1>15 DEF CommitGrant, CommitRevoke, CommitActivation, CommitDeactivation
    <2> QED BY <1>1, <2>1, CommitDeviceInv
  <1>16. CASE RevokeRow(r)
    <2> DEFINE t == call[r].target
               new == [sess[t] EXCEPT !.status = "REVOKED"]
    <2>1. /\ pc[r] = "row" /\ call[r].op = "revoke"
          /\ rowLock[t] = None /\ sess[t].status = "ACTIVE"
          /\ Hold(r, [s \in {t} |-> [sess[s] EXCEPT !.status = "REVOKED"]])
          /\ pc' = [pc EXCEPT ![r] = "commit"]
          /\ UNCHANGED <<devLock, sess, call>>
      BY <1>16 DEF RevokeRow, Outcomes, Steps
    <2>2. /\ t \in SessionIds /\ sess[t] \in Rows /\ sess[t] # NoRow
          /\ new \in Rows /\ new.status = "REVOKED"
          /\ new.dev = sess[t].dev /\ new.started = sess[t].started
      BY <1>2, <2>1 DEF CallOK, Steps, Rows, NoRow
    <2>3. /\ rowLock'[t] = r /\ rowNext'[t] = new
          /\ \A s \in SessionIds \ {t} : Untouched(s)
      BY <2>1, <2>2 DEF Hold, Untouched
    <2> HIDE DEF new
    <2>4. DeviceOK(r)'
      BY <2>1 DEF DeviceOK, OnDevice, Granting
    <2>5. RowsOK(r)'
      BY <1>3, <2>1, <2>2, <2>3 DEF RowsOK, Written, Untouched
    <2>6. TargetOK(r)' /\ ClearOK(r)'
      BY <2>1, <2>2 DEF TargetOK, ClearOK
    <2>7. \A s \in SessionIds : Untouched(s) \/ Taken(r, s)
      BY <2>1, <2>3 DEF Taken
    <2> QED BY <1>1, <2>1, <2>4, <2>5, <2>6, <2>7, WritingStep DEF Steps
  <1>17. ASSUME NEW label \in {"unban", "user", "scan", "rows", "commit"},
                pc[r] \in {"read", "unban", "user", "scan"},
                pc' = [pc EXCEPT ![r] = label],
                call'[r].op = call[r].op,
                \A q \in Requests \ {r} : call'[q] = call[q],
                UNCHANGED <<devLock, rowLock, rowNext, sess>>
         PROVE  DeviceInv'
    <2>1. call[r].op = "status"
      BY <1>2, <1>17 DEF CallOK, Steps
    <2>2. DeviceOK(r)'
      BY <1>17, <2>1 DEF DeviceOK, OnDevice, Granting
    <2>3. RowsOK(r)'
      BY <1>3, <1>17 DEF RowsOK
    <2>4. TargetOK(r)' /\ ClearOK(r)'
      BY <1>17, <2>1 DEF TargetOK, ClearOK
    <2> QED BY <1>1, <1>17, <2>2, <2>3, <2>4, QuietStep DEF Steps
  <1>18. CASE ReadStatus(r)
    <2>1. PICK label \in {"unban", "user"} : Goto(r, label) /\ UNCHANGED <<committed, locks, call>>
      BY <1>18 DEF ReadStatus, Outcomes, Steps
    <2> QED BY <1>17, <1>18, <2>1 DEF ReadStatus
  <1>19. CASE Unban(r)
    BY <1>17, <1>19 DEF Unban
  <1>20. CASE UpdateUser(r)
    BY <1>17, <1>20 DEF UpdateUser
  <1>21. CASE ScanSessions(r)
    <2>1. PICK found : call' = [call EXCEPT ![r].todo = found]
      BY <1>21 DEF ScanSessions
    <2>2. call'[r].op = call[r].op /\ \A q \in Requests \ {r} : call'[q] = call[q]
      BY <1>2, <1>21, <2>1 DEF ScanSessions, Calls, Steps
    <2> QED BY <1>17, <1>21, <2>2 DEF ScanSessions
  <1>22. CASE \E s \in SessionIds : CloseRow(r, s)
    <2>1. PICK t \in SessionIds : CloseRow(r, t)
      BY <1>22
    <2> DEFINE hit == {p \in {t} : sess[p].status = "ACTIVE"}
    <2>2. PICK label \in {"rows", "commit"} :
            /\ pc[r] = "rows" /\ rowLock[t] = None
            /\ pc' = [pc EXCEPT ![r] = label]
            /\ call' = [call EXCEPT ![r].todo = call[r].todo \ {t}]
            /\ Hold(r, [q \in hit |-> [sess[q] EXCEPT !.status = "REVOKED"]])
            /\ UNCHANGED <<devLock, sess>>
      BY <2>1 DEF CloseRow
    <2>3. /\ call[r].op = "status" /\ call'[r].op = "status"
          /\ \A q \in Requests \ {r} : call'[q] = call[q]
      BY <1>2, <2>2 DEF Calls, Steps, CallOK
    <2>4. DeviceOK(r)'
      BY <2>2, <2>3 DEF DeviceOK, OnDevice, Granting
    <2>5. RowsOK(r)'
      <3>1. ASSUME NEW s \in SessionIds, rowLock'[s] = r, s \in hit
            PROVE  rowNext'[s] \in Rows /\ Written(r, s)'
        <4>1. rowNext'[s] = [sess[s] EXCEPT !.status = "REVOKED"] /\ sess[s].status = "ACTIVE"
          BY <2>2, <3>1 DEF Hold
        <4>2. /\ rowNext'[s] \in Rows /\ rowNext'[s].status = "REVOKED"
              /\ rowNext'[s].dev = sess[s].dev /\ rowNext'[s].started = sess[s].started
          BY <4>1 DEF Rows, NoRow
        <4> QED BY <2>2, <2>3, <4>1, <4>2 DEF Written
      <3>2. ASSUME NEW s \in SessionIds, rowLock'[s] = r, s \notin hit
            PROVE  rowNext'[s] \in Rows /\ Written(r, s)'
        <4>1. rowLock[s] = r /\ rowNext'[s] = rowNext[s]
          BY <2>2, <3>2 DEF Hold
        <4>2. rowNext[s] \in Rows /\ Written(r, s)
          BY <2>2, <4>1 DEF RowsOK, Inserted
        <4>3. Written(r, s)'
          BY <2>2, <2>3, <4>1, <4>2 DEF Written
        <4> QED BY <4>1, <4>2, <4>3
      <3> QED BY <3>1, <3>2 DEF RowsOK
    <2>6. TargetOK(r)' /\ ClearOK(r)'
      BY <2>2, <2>3 DEF TargetOK, ClearOK
    <2>7. \A s \in SessionIds : Untouched(s) \/ Taken(r, s)
      BY <2>2 DEF Hold, Untouched, Taken
    <2> QED BY <1>1, <2>2, <2>3, <2>4, <2>5, <2>6, <2>7, WritingStep DEF Steps
  <1>23. CASE Ban(r)
    <2>1. /\ pc[r] = "ban" /\ pc'[r] = "ok" /\ UNCHANGED <<committed, locks>>
          /\ \A q \in Requests \ {r} : pc'[q] = pc[q] /\ call'[q] = call[q]
      BY <1>23 DEF Ban
    <2>2. \A d \in Devices : devLock'[d] # r
      BY <2>1 DEF DeviceOK, OnDevice
    <2>3. DeviceOK(r)' /\ RowsOK(r)' /\ TargetOK(r)' /\ ClearOK(r)'
      BY <1>1, <1>3, <2>1, <2>2, Emptyhanded DEF Outcomes
    <2> QED BY <1>1, <2>1, <2>3, OwnStep DEF Outcomes
  <1> QED
    BY <1>4, <1>5, <1>6, <1>7, <1>8, <1>9, <1>10, <1>11, <1>12, <1>13, <1>14, <1>15,
       <1>16, <1>18, <1>19, <1>20, <1>21, <1>22, <1>23
    DEF Proceed

LEMMA NextDeviceInv == DeviceInv /\ [Next]_vars => DeviceInv'
  <1> SUFFICES ASSUME DeviceInv, [Next]_vars PROVE DeviceInv'
    OBVIOUS
  <1>1. CASE UNCHANGED vars \/ Tick \/ ChangePolicy
    <2>1. TypeInv'
      BY NextTypeInv DEF DeviceInv
    <2>2. UNCHANGED <<sess, devLock, rowLock, rowNext, pc, call>>
      BY <1>1 DEF vars, Tick, ChangePolicy, committed, locks
    <2>3. OneActiveSession'
      BY <2>2 DEF DeviceInv, OneActiveSession
    <2>4. ASSUME NEW r \in Requests PROVE Mine(r)'
      BY <2>2, <2>4 DEF DeviceInv, Mine, DeviceOK, OnDevice, RowsOK, Inserted, Written,
                        TargetOK, NewIdOK, ClearOK
    <2> QED BY <2>1, <2>3, <2>4 DEF DeviceInv
  <1>2. ASSUME NEW r \in Requests, Arrive(r) \/ Proceed(r) \/ Abort(r) PROVE DeviceInv'
    BY <1>2, ArriveDeviceInv, ProceedDeviceInv, RollbackDeviceInv DEF Abort, Steps, Outcomes
  <1> QED BY <1>1, <1>2 DEF Next, Finished

(* SEC-030: no two ACTIVE sessions on one device, in any state of any      *)
(* number of concurrent calls, and no INSERT that meets the unique index:  *)
(* the FOR UPDATE on registered_devices is enough.                         *)
THEOREM DeviceExclusive == Spec => []OneActiveSession
  <1>1. Spec => []DeviceInv
    BY InitDeviceInv, NextDeviceInv, PTL DEF Spec
  <1> QED BY <1>1, PTL DEF DeviceInv
==============================================================================
