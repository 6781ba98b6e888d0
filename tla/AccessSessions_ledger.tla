------------------------ MODULE AccessSessions_ledger ------------------------
(***************************************************************************)
(* AccessSessions implements SessionLedger: every commit of a call is one  *)
(* step of the ledger, whatever the other calls have in flight.  And what  *)
(* rows locked until the commit are good for beside that.                  *)
(***************************************************************************)
EXTENDS AccessSessions_proof

(* The shapes of a row version which r has written and not yet committed,  *)
(* each the only one that the commit of its kind publishes.                *)
Expiring(r, s) ==
  /\ call[r].op = "create"
  /\ rowNext[s] = [sess[s] EXCEPT !.status = "EXPIRED"]
  /\ sess[s].dev = call[r].dev
  /\ pc[r] \in {"find", "insert"} \/ (pc[r] = "commit" /\ rowLock[r] = r)
Opening(r, s) == s = r /\ sess[s] = NoRow
Renewing(r, s) ==
  /\ s = call[r].target /\ sess[s] # NoRow
  /\ call[r].op \in Granting /\ rowLock[r] # r
  /\ rowNext[s].status = "ACTIVE"
Revoking(r, s) ==
  /\ call[r].op \in {"revoke", "status"}
  /\ rowNext[s] = [sess[s] EXCEPT !.status = "REVOKED"]

Shape(r, s) == Expiring(r, s) \/ Opening(r, s) \/ Renewing(r, s) \/ Revoking(r, s)
RowShape(r) == \A s \in SessionIds : rowLock[s] = r => Shape(r, s)

LedgerInv == DeviceInv /\ \A r \in Requests : RowShape(r)

(* What a step of one call leaves of what another call q relies on. *)
Kept(q) ==
  /\ pc'[q] = pc[q] /\ call'[q] = call[q]
  /\ \A s \in SessionIds :
       /\ rowLock'[s] = q <=> rowLock[s] = q
       /\ rowLock[s] = q => rowNext'[s] = rowNext[s] /\ sess'[s] = sess[s]

LEMMA KeptShape ==
  ASSUME NEW q \in Requests, RowShape(q), Kept(q)
  PROVE  RowShape(q)'
  <1>1. rowLock'[q] = q <=> rowLock[q] = q
    BY DEF Kept, SessionIds
  <1> QED
    BY <1>1 DEF Kept, RowShape, Shape, Expiring, Opening, Renewing, Revoking

LEMMA RollbackKeeps ==
  ASSUME DeviceInv, NEW r \in Requests, NEW outcome, Rollback(r, outcome),
         NEW q \in Requests \ {r}
  PROVE  Kept(q) /\ RowShape(r)' /\ sess' = sess
  <1> USE DEF DeviceInv, TypeInv, TypeOK, Rollback, End, Goto, ReleaseLocks, committed
  <1>1. Kept(q) /\ sess' = sess
    BY SetsAssumption DEF Kept
  <1>2. \A s \in SessionIds : rowLock'[s] # r
    BY SetsAssumption
  <1> QED BY <1>1, <1>2 DEF RowShape

LEMMA ArriveKeeps ==
  ASSUME LedgerInv, NEW r \in Requests, Arrive(r)
  PROVE  sess' = sess /\ \A q \in Requests : RowShape(q)'
  <1>1. /\ pc[r] = "idle" /\ UNCHANGED <<sess, rowLock, rowNext>>
        /\ \A q \in Requests \ {r} : pc'[q] = pc[q] /\ call'[q] = call[q]
    BY DEF Arrive, BeginCreate, BeginRefresh, BeginRevoke, BeginStatus, Begin, Goto,
           LedgerInv, DeviceInv, TypeInv, TypeOK, committed, locks
  <1>2. \A s \in SessionIds : rowLock[s] # r
    BY <1>1 DEF LedgerInv, DeviceInv, Mine, RowsOK, Inserted, Written
  <1>3. RowShape(r)'
    BY <1>1, <1>2 DEF RowShape
  <1>4. ASSUME NEW q \in Requests \ {r} PROVE RowShape(q)'
    BY <1>1, KeptShape DEF LedgerInv, Kept
  <1> QED BY <1>1, <1>3, <1>4

(* A statement that commits nothing disturbs nobody's rows. *)
LEMMA StatementKeeps ==
  ASSUME DeviceInv, NEW r \in Requests, Proceed(r), NEW q \in Requests \ {r},
         ~ \E outcome : Rollback(r, outcome), pc[r] # "commit"
  PROVE  Kept(q) /\ sess' = sess
  <1> USE DEF DeviceInv, TypeInv, TypeOK, Goto, committed, locks
  <1>1. /\ sess' = sess
        /\ pc'[q] = pc[q] /\ call'[q] = call[q]
        /\ \/ UNCHANGED <<rowLock, rowNext>>
           \/ \E new : Hold(r, new) /\ \A s \in DOMAIN new : Free(r, s)
    <2>1. CASE ReadContext(r) \/ Observe(r) \/ LockDevice(r) \/ Deny(r)
      BY <2>1 DEF ReadContext, Observe, LockDevice, Deny
    <2>2. CASE ExpireStale(r)
      BY <2>2 DEF ExpireStale
    <2>3. CASE FindActive(r) \/ FindNone(r)
      BY <2>3 DEF FindActive, FindNone, Choose
    <2>4. CASE Reuse(r)
      BY <2>4 DEF Reuse
    <2>5. CASE Insert(r)
      <3>1. Free(r, r)
        <4>1. sess[r] = NoRow /\ r \in SessionIds
          BY <2>5 DEF Insert, Mine, NewIdOK, Outcomes, SessionIds
        <4>2. \A p \in Requests : rowLock[r] = p => Inserted(p, r)
          BY <4>1 DEF Mine, RowsOK, Written, NoRow
        <4> QED BY <4>1, <4>2 DEF Inserted, Free
      <3> QED BY <2>5, <3>1 DEF Insert
    <2>6. CASE LockSession(r)
      BY <2>6 DEF LockSession, Free
    <2>7. CASE WriteRefresh(r)
      <3>1. rowLock[call[r].target] = r
        BY <2>7 DEF WriteRefresh, Mine, TargetOK
      <3>2. PICK new, local :
              /\ Hold(r, [s \in {call[r].target} |-> new])
              /\ call' = [call EXCEPT ![r].exp = local]
              /\ pc' = [pc EXCEPT ![r] = "commit"]
              /\ sess' = sess
        BY <2>7 DEF WriteRefresh
      <3> QED BY <3>1, <3>2 DEF Free
    <2>8. CASE RevokeRow(r)
      BY <2>8 DEF RevokeRow, Free
    <2>9. CASE ReadStatus(r) \/ Unban(r) \/ UpdateUser(r) \/ ScanSessions(r) \/ Ban(r)
      BY <2>9 DEF ReadStatus, Unban, UpdateUser, ScanSessions, Ban, End
    <2>10. CASE \E s \in SessionIds : CloseRow(r, s)
      BY <2>10 DEF CloseRow, Free
    <2> QED
      BY <2>1, <2>2, <2>3, <2>4, <2>5, <2>6, <2>7, <2>8, <2>9, <2>10
      DEF Proceed, CommitGrant, CommitRevoke, CommitActivation, CommitDeactivation
  <1>2. \A s \in SessionIds :
          (rowLock'[s] = q <=> rowLock[s] = q) /\ (rowLock[s] = q => rowNext'[s] = rowNext[s])
    BY <1>1, SetsAssumption DEF Hold, Free
  <1> QED BY <1>1, <1>2 DEF Kept

(* A create that is about to reuse a session has expired none: an expired  *)
(* one would have been the only ACTIVE session of the device.              *)
LEMMA NothingHeld ==
  ASSUME LedgerInv, NEW r \in Requests,
         pc[r] \in {"context", "observe", "device", "expire", "reuse", "row", "read",
                   "unban", "user", "scan", "ban"}
  PROVE  \A s \in SessionIds : rowLock[s] # r
  <1> SUFFICES ASSUME NEW s \in SessionIds, rowLock[s] = r PROVE FALSE
    OBVIOUS
  <1>1. Inserted(r, s) \/ Written(r, s)
    BY DEF LedgerInv, DeviceInv, Mine, RowsOK
  <1>2. pc[r] = "reuse" /\ rowNext[s].status = "EXPIRED" /\ call[r].op = "create"
    BY <1>1 DEF Inserted, Written
  <1>3. Shape(r, s)
    BY DEF LedgerInv, RowShape
  <1>4. sess[s] # NoRow
    BY <1>1, <1>2 DEF Inserted, Written, NoRow
  <1> QED BY <1>2, <1>3, <1>4 DEF Shape, Expiring, Opening, Renewing, Revoking

(* The rows that a statement of r leaves in its hands have one of the      *)
(* shapes of its kind of call.                                             *)
LEMMA StatementShape ==
  ASSUME LedgerInv, NEW r \in Requests, Proceed(r),
         ~ \E outcome : Rollback(r, outcome), pc[r] # "commit"
  PROVE  RowShape(r)'
  <1> USE DEF LedgerInv, DeviceInv, TypeInv, TypeOK, Goto, committed, locks
  <1>1. pc[r] \in Steps => CallOK(r) /\ call[r] \in Calls
    BY DEF CallInv, CallOK
  <1>2. CASE ReadContext(r) \/ Observe(r) \/ LockDevice(r) \/ Deny(r) \/ ReadStatus(r)
             \/ Unban(r) \/ UpdateUser(r) \/ ScanSessions(r) \/ Ban(r)
    <2>1. \A s \in SessionIds : rowLock[s] # r
      <3>1. ~ Deny(r)
        BY DEF Deny
      <3> QED
        BY <1>2, <3>1, NothingHeld
        DEF ReadContext, Observe, LockDevice, ReadStatus, Unban, UpdateUser, ScanSessions, Ban
    <2>2. rowLock' = rowLock
      BY <1>2
      DEF ReadContext, Observe, LockDevice, Deny, ReadStatus, Unban, UpdateUser, ScanSessions,
          Ban
    <2> QED BY <2>1, <2>2 DEF RowShape
  <1>3. CASE ExpireStale(r)
    <2> DEFINE stale == StaleOn(r, call[r].dev)
               new == [s \in stale |-> [Seen(r, s) EXCEPT !.status = "EXPIRED"]]
    <2>1. PICK end :
            /\ pc[r] = "expire" /\ pc' = [pc EXCEPT ![r] = "find"]
            /\ call' = [call EXCEPT ![r].exp = end]
            /\ Hold(r, new) /\ sess' = sess
      BY <1>3 DEF ExpireStale
    <2>2. \A s \in SessionIds : rowLock[s] # r
      BY <2>1, NothingHeld
    <2>3. ASSUME NEW s \in SessionIds, rowLock'[s] = r
          PROVE  /\ rowNext'[s] = [sess[s] EXCEPT !.status = "EXPIRED"]
                 /\ sess[s].dev = call[r].dev
      BY <2>1, <2>2, <2>3 DEF Hold, StaleOn, ActiveOn, Seen
    <2>4. /\ call'[r].op = "create" /\ call'[r].dev = call[r].dev /\ pc'[r] = "find"
          /\ sess' = sess
      BY <1>1, <2>1 DEF Calls, Steps, CallOK
    <2> QED BY <2>3, <2>4 DEF RowShape, Shape, Expiring
  <1>4. CASE FindActive(r)
    <2>1. PICK s \in ActiveOn(r, call[r].dev) : pc[r] = "find" /\ UNCHANGED <<locks, sess>>
      BY <1>4 DEF FindActive, Choose
    <2>2. ASSUME NEW t \in SessionIds, rowLock[t] = r PROVE FALSE
      <3>1. Written(r, t) /\ rowNext[t].status = "EXPIRED"
        BY <2>1, <2>2 DEF Mine, RowsOK, Inserted, Written
      <3>2. Shape(r, t)
        BY <2>2 DEF RowShape
      <3>3. sess[t].status = "ACTIVE" /\ sess[t].dev = call[r].dev
        BY <2>1, <3>1, <3>2 DEF Shape, Expiring, Opening, Renewing, Revoking, Written, NoRow
      <3>4. rowLock[s] # r /\ sess[s].status = "ACTIVE" /\ sess[s].dev = call[r].dev
        BY <2>1 DEF ActiveOn, Seen, Mine, RowsOK, Inserted, Written
      <3> QED BY <2>1, <2>2, <3>3, <3>4 DEF OneActiveSession, ActiveOn
    <2> QED BY <2>1, <2>2 DEF RowShape
  <1>5. CASE FindNone(r)
    <2>1. PICK end :
            /\ pc[r] = "find" /\ pc' = [pc EXCEPT ![r] = "insert"]
            /\ call' = [call EXCEPT ![r].exp = end]
            /\ UNCHANGED <<locks, sess>>
      BY <1>5 DEF FindNone
    <2>2. /\ call[r].op = "create" /\ call'[r].op = "create" /\ pc'[r] = "insert"
          /\ call'[r].dev = call[r].dev
      BY <1>1, <2>1 DEF Calls, Steps, CallOK
    <2>3. ASSUME NEW s \in SessionIds, rowLock[s] = r PROVE Expiring(r, s)
      <3>1. Written(r, s) /\ rowNext[s].status = "EXPIRED" /\ Shape(r, s)
        BY <2>1, <2>3 DEF Mine, RowsOK, Inserted, Written, RowShape
      <3> QED BY <2>2, <3>1 DEF Shape, Opening, Renewing, Revoking, Written, NoRow
    <2>4. \A s \in SessionIds : rowLock'[s] = r => Expiring(r, s)'
      BY <2>1, <2>2, <2>3 DEF Expiring
    <2> QED BY <2>4 DEF RowShape, Shape
  <1>6. CASE Reuse(r)
    <2> DEFINE t == call[r].target
    <2>1. PICK hit, new :
            /\ pc[r] = "reuse" /\ pc' = [pc EXCEPT ![r] = "commit"]
            /\ Hold(r, [s \in hit |-> new])
            /\ UNCHANGED <<call, sess>>
            /\ hit \subseteq {t}
            /\ hit # {} => Seen(r, t).status = "ACTIVE" /\ new.status = "ACTIVE"
      <3> DEFINE hit == {s \in {t} : Seen(r, t).status = "ACTIVE"}
                 new == [Seen(r, t) EXCEPT !.expires = call[r].exp]
      <3>1. /\ pc[r] = "reuse" /\ pc' = [pc EXCEPT ![r] = "commit"]
            /\ Hold(r, [s \in hit |-> new])
            /\ UNCHANGED <<call, sess>>
        BY <1>6 DEF Reuse
      <3>2. t \in SessionIds
        BY <1>1, <3>1 DEF CallOK, Steps, Granting
      <3>3. hit # {} => Seen(r, t) \in Rows /\ new.status = Seen(r, t).status
        BY <3>2 DEF Seen, NoRow, Rows
      <3> QED BY <3>1, <3>3
    <2>2. \A s \in SessionIds : rowLock[s] # r
      BY <2>1, NothingHeld
    <2>3. /\ call[r].op = "create" /\ t \in SessionIds /\ sess[t] # NoRow
          /\ r \in SessionIds /\ sess[r] = NoRow /\ call'[r] = call[r]
      BY <1>1, <2>1 DEF CallOK, Steps, Mine, TargetOK, NewIdOK, Granting, Outcomes, SessionIds
    <2>4. \A s \in SessionIds :
            rowLock'[s] = r => s = t /\ hit # {} /\ rowNext'[s] = new
      BY <2>1, <2>2 DEF Hold
    <2>5. rowLock'[r] # r
      BY <2>3, <2>4
    <2>6. ASSUME NEW s \in SessionIds, rowLock'[s] = r PROVE Renewing(r, s)'
      <3>1. s = t /\ rowNext'[s].status = "ACTIVE" /\ sess'[s] = sess[s] /\ sess[s] # NoRow
        BY <2>1, <2>3, <2>4, <2>6
      <3> QED BY <2>3, <2>5, <3>1 DEF Renewing, Granting
    <2> QED BY <2>6 DEF RowShape, Shape
  <1>7. CASE Insert(r)
    <2>1. PICK new :
            /\ pc[r] = "insert" /\ pc' = [pc EXCEPT ![r] = "commit"]
            /\ Hold(r, [s \in {r} |-> new])
            /\ call' = [call EXCEPT ![r].target = r]
            /\ sess' = sess
      BY <1>7 DEF Insert
    <2>2. /\ call[r].op = "create" /\ call'[r].op = "create" /\ pc'[r] = "commit"
          /\ call'[r].dev = call[r].dev
          /\ r \in SessionIds /\ sess[r] = NoRow
      BY <1>1, <2>1 DEF Calls, Steps, CallOK, Mine, NewIdOK, Outcomes, SessionIds
    <2>3. ASSUME NEW s \in SessionIds, rowLock[s] = r
          PROVE  /\ rowNext[s] = [sess[s] EXCEPT !.status = "EXPIRED"]
                 /\ sess[s].dev = call[r].dev
      <3>1. Written(r, s) /\ rowNext[s].status = "EXPIRED" /\ Shape(r, s)
        BY <2>1, <2>3 DEF Mine, RowsOK, Inserted, Written, RowShape
      <3> QED BY <2>2, <3>1 DEF Shape, Expiring, Opening, Renewing, Revoking, Written, NoRow
    <2>4. rowLock'[r] = r
      BY <2>1, <2>2 DEF Hold
    <2>5. \A s \in SessionIds \ {r} : rowLock'[s] = r =>
             rowLock[s] = r /\ rowNext'[s] = rowNext[s]
      BY <2>1 DEF Hold
    <2>6. ASSUME NEW s \in SessionIds \ {r}, rowLock'[s] = r PROVE Expiring(r, s)'
      <3>1. /\ rowNext'[s] = [sess[s] EXCEPT !.status = "EXPIRED"]
            /\ sess[s].dev = call[r].dev
        BY <2>3, <2>5, <2>6
      <3> QED BY <2>1, <2>2, <2>4, <3>1 DEF Expiring
    <2> QED BY <2>1, <2>2, <2>6 DEF RowShape, Shape, Opening
  <1>8. CASE LockSession(r)
    <2> DEFINE t == call[r].target
    <2>1. /\ pc[r] = "row" /\ call[r].op = "refresh" /\ sess[t].status = "ACTIVE"
          /\ Hold(r, [s \in {t} |-> sess[t]])
          /\ UNCHANGED <<call, sess>>
      BY <1>8 DEF LockSession
    <2>2. \A s \in SessionIds : rowLock[s] # r
      BY <2>1, NothingHeld
    <2>3. r \in SessionIds /\ sess[r] = NoRow
      BY <2>1 DEF Mine, NewIdOK, Outcomes, SessionIds
    <2>4. \A s \in SessionIds : rowLock'[s] = r => s = t /\ rowNext'[s] = sess[s]
      BY <2>1, <2>2 DEF Hold
    <2>5. rowLock'[r] # r
      BY <2>1, <2>3, <2>4 DEF NoRow
    <2> QED BY <2>1, <2>4, <2>5 DEF RowShape, Shape, Renewing, Granting, NoRow
  <1>9. CASE WriteRefresh(r)
    <2> DEFINE t == call[r].target
    <2>1. PICK local, expires :
            /\ pc[r] = "write" /\ call[r].op = "refresh" /\ rowNext[t].status = "ACTIVE"
            /\ call' = [call EXCEPT ![r].exp = local]
            /\ Hold(r, [s \in {t} |->
                 [rowNext[t] EXCEPT !.loc = call[r].loc, !.expires = expires]])
            /\ sess' = sess
      BY <1>1, <1>9 DEF WriteRefresh, CallOK, Steps
    <2>2. /\ call'[r].op = "refresh" /\ call'[r].target = t
          /\ t \in SessionIds /\ rowLock[t] = r /\ rowNext[t] \in Rows
          /\ r \in SessionIds /\ sess[r] = NoRow
      BY <1>1, <2>1
      DEF Calls, Steps, CallOK, Mine, TargetOK, NewIdOK, RowsOK, Outcomes, SessionIds
    <2>3. \A s \in SessionIds : rowLock[s] = r => s = t /\ sess[s] # NoRow
      <3>1. \A s \in SessionIds : rowLock[s] = r =>
               Shape(r, s) /\ Written(r, s)
        BY <2>1 DEF RowShape, Mine, RowsOK, Inserted
      <3> QED BY <2>1, <3>1
              DEF Shape, Expiring, Opening, Renewing, Revoking, Written, NoRow
    <2>4. \A s \in SessionIds : rowLock'[s] = r =>
             s = t /\ sess[s] # NoRow /\ rowNext'[s].status = "ACTIVE"
      BY <2>1, <2>2, <2>3 DEF Hold, Rows
    <2>5. rowLock'[r] # r
      BY <2>2, <2>4
    <2> QED BY <2>1, <2>2, <2>4, <2>5 DEF RowShape, Shape, Renewing, Granting
  <1>10. CASE RevokeRow(r)
    <2> DEFINE t == call[r].target
    <2>1. /\ pc[r] = "row" /\ call[r].op = "revoke"
          /\ Hold(r, [s \in {t} |-> [sess[s] EXCEPT !.status = "REVOKED"]])
          /\ UNCHANGED <<call, sess>>
      BY <1>10 DEF RevokeRow
    <2>2. \A s \in SessionIds : rowLock[s] # r
      BY <2>1, NothingHeld
    <2> QED BY <2>1, <2>2 DEF Hold, RowShape, Shape, Revoking
  <1>11. CASE \E s \in SessionIds : CloseRow(r, s)
    <2>1. PICK hit, todo :
            /\ pc[r] = "rows"
            /\ Hold(r, [q \in hit |-> [sess[q] EXCEPT !.status = "REVOKED"]])
            /\ call' = [call EXCEPT ![r].todo = todo]
            /\ sess' = sess
      BY <1>11 DEF CloseRow
    <2>2. call[r].op = "status" /\ call'[r].op = "status"
      BY <1>1, <2>1 DEF Calls, Steps, CallOK
    <2>3. ASSUME NEW s \in SessionIds, rowLock[s] = r
          PROVE  rowNext[s] = [sess[s] EXCEPT !.status = "REVOKED"]
      <3>1. Written(r, s) /\ Shape(r, s)
        BY <2>1, <2>3 DEF Mine, RowsOK, Inserted, RowShape
      <3> QED BY <2>2, <3>1
              DEF Shape, Expiring, Opening, Renewing, Revoking, Written, NoRow, Granting
    <2>4. \A s \in SessionIds : rowLock'[s] = r =>
             rowNext'[s] = [sess[s] EXCEPT !.status = "REVOKED"]
      BY <2>1, <2>3 DEF Hold
    <2> QED BY <2>1, <2>2, <2>4 DEF RowShape, Shape, Revoking
  <1> QED
    BY <1>2, <1>3, <1>4, <1>5, <1>6, <1>7, <1>8, <1>9, <1>10, <1>11
    DEF Proceed, CommitGrant, CommitRevoke, CommitActivation, CommitDeactivation

(* The four ways in which a call takes a step. *)
Committing(r) ==
  /\ pc[r] = "commit" /\ Publish(r)
  /\ CommitGrant(r) \/ CommitRevoke(r) \/ CommitActivation(r) \/ CommitDeactivation(r)
Stating(r) ==
  Proceed(r) /\ pc[r] # "commit" /\ ~ \E outcome : Rollback(r, outcome)
CallStep(r) == Arrive(r) \/ Proceed(r) \/ Abort(r)

LEMMA StepKinds ==
  ASSUME NEW r \in Requests, CallStep(r)
  PROVE  Arrive(r) \/ Committing(r) \/ Stating(r) \/ \E outcome : Rollback(r, outcome)
  <1>1. CASE Proceed(r) /\ pc[r] = "commit"
    BY <1>1
    DEF Proceed, ReadContext, Observe, LockDevice, Deny, ExpireStale, FindActive, FindNone,
        Reuse, Insert, LockSession, WriteRefresh, RevokeRow, ReadStatus, Unban, UpdateUser,
        ScanSessions, CloseRow, Ban, CommitGrant, CommitRevoke, CommitActivation,
        CommitDeactivation, Committing
  <1> QED BY <1>1 DEF CallStep, Abort, Stating

LEMMA StatingCommitsNothing ==
  ASSUME NEW r \in Requests, Stating(r)
  PROVE  UNCHANGED <<clock, policy, committed>>
  BY DEF Stating, Proceed, ReadContext, Observe, LockDevice, Deny, ExpireStale, FindActive,
         FindNone, Choose, Reuse, Insert, LockSession, WriteRefresh, RevokeRow, ReadStatus,
         Unban, UpdateUser, ScanSessions, CloseRow, Ban, CommitGrant, CommitRevoke,
         CommitActivation, CommitDeactivation, committed, ambient

LEMMA OnlyCommits ==
  ASSUME NEW r \in Requests, CallStep(r), ~ UNCHANGED committed
  PROVE  Committing(r)
  <1>1. ~ Arrive(r)
    BY DEF Arrive, BeginCreate, BeginRefresh, BeginRevoke, BeginStatus, Begin
  <1>2. ~ \E outcome : Rollback(r, outcome)
    BY DEF Rollback
  <1>3. ~ Stating(r)
    BY StatingCommitsNothing DEF committed
  <1> QED BY <1>1, <1>2, <1>3, StepKinds

(* Whatever step r takes, the other calls keep their place, their rows and *)
(* their locks, and the committed rows that r did not hold stay.           *)
LEMMA OthersKept ==
  ASSUME LedgerInv, NEW r \in Requests, CallStep(r), NEW q \in Requests \ {r}
  PROVE  Kept(q) /\ \A u \in Users : usrLock'[u] = q <=> usrLock[u] = q
  <1> USE DEF LedgerInv, DeviceInv, TypeInv, TypeOK
  <1>1. CASE Arrive(r)
    BY <1>1
    DEF Arrive, BeginCreate, BeginRefresh, BeginRevoke, BeginStatus, Begin, Goto, Kept,
        committed, locks
  <1>2. CASE \E outcome : Rollback(r, outcome)
    <2>1. Kept(q)
      BY <1>2, RollbackKeeps
    <2> QED BY <1>2, <2>1, SetsAssumption DEF Rollback, ReleaseLocks
  <1>3. CASE Committing(r)
    <2>1. pc'[q] = pc[q] /\ call'[q] = call[q]
      BY <1>3
      DEF Committing, CommitGrant, CommitRevoke, CommitActivation, CommitDeactivation, End, Goto
    <2>2. Publish(r)
      BY <1>3 DEF Committing
    <2> QED BY <2>1, <2>2, SetsAssumption DEF Publish, ReleaseLocks, Seen, Kept
  <1>4. CASE Stating(r)
    <2>1. Kept(q)
      BY <1>4, StatementKeeps DEF Stating
    <2>2. UNCHANGED usrLock \/ UpdateUser(r)
      BY <1>4
      DEF Stating, Proceed, ReadContext, Observe, LockDevice, Deny, ExpireStale, FindActive,
          FindNone, Choose, Reuse, Insert, LockSession, WriteRefresh, RevokeRow, ReadStatus,
          Unban, ScanSessions, CloseRow, Ban, CommitGrant, CommitRevoke, CommitActivation,
          CommitDeactivation, locks
    <2> QED BY <2>1, <2>2, SetsAssumption DEF UpdateUser
  <1> QED BY <1>1, <1>2, <1>3, <1>4, StepKinds

LEMMA OnlyHeldChange ==
  ASSUME LedgerInv, NEW r \in Requests, CallStep(r), NEW s \in SessionIds, rowLock[s] # r
  PROVE  sess'[s] = sess[s] /\ closedAt'[s] = closedAt[s]
  <1>1. CASE Committing(r)
    BY <1>1 DEF Committing, Publish, Seen, LedgerInv, DeviceInv, TypeInv, TypeOK
  <1>2. CASE UNCHANGED committed
    BY <1>2 DEF committed
  <1> QED BY <1>1, <1>2, OnlyCommits

(* A committed row keeps its device and its start, is never opened again,  *)
(* and only a create makes a new one, under its own id.                    *)
LEMMA RowsStay ==
  ASSUME LedgerInv, NEW r \in Requests, CallStep(r), NEW s \in SessionIds
  PROVE  /\ sess[s] # NoRow => /\ sess'[s] # NoRow
                               /\ sess'[s].dev = sess[s].dev
                               /\ sess'[s].started = sess[s].started
                               /\ sess'[s].status = "ACTIVE" => sess[s].status = "ACTIVE"
         /\ s # r /\ sess[s] = NoRow => sess'[s] = NoRow
  <1> USE DEF LedgerInv, DeviceInv, TypeInv, TypeOK
  <1>1. CASE sess'[s] = sess[s]
    BY <1>1
  <1>2. CASE sess'[s] # sess[s]
    <2>1. rowLock[s] = r
      BY <1>2, OnlyHeldChange
    <2>2. Committing(r)
      BY <1>2, OnlyCommits DEF committed
    <2>3. sess'[s] = rowNext[s]
      BY <2>1, <2>2 DEF Committing, Publish, Seen
    <2>4. rowNext[s] \in Rows /\ (Inserted(r, s) \/ Written(r, s))
      BY <2>1 DEF Mine, RowsOK
    <2>5. rowNext[s] # NoRow
      BY <2>4 DEF Rows, NoRow
    <2>6. CASE Inserted(r, s)
      BY <2>6 DEF Inserted
    <2>7. CASE Written(r, s)
      BY <2>3, <2>5, <2>7 DEF Written, NoRow
    <2> QED BY <2>4, <2>6, <2>7
  <1> QED BY <1>1, <1>2

(* What a commit publishes is an Open, a Renew, a Revoke or nothing. *)
LEMMA CommitImplements ==
  ASSUME LedgerInv, OneActiveSession', NEW r \in Requests, pc[r] = "commit", Publish(r)
  PROVE  [Ledger!Next]_sess
  <1> DEFINE held == {s \in SessionIds : rowLock[s] = r}
  <1> USE DEF LedgerInv, DeviceInv, TypeInv, TypeOK
  <1>1. /\ \A s \in held : sess'[s] = rowNext[s]
        /\ \A s \in SessionIds \ held : sess'[s] = sess[s]
        /\ held = {} => sess' = sess
    BY DEF Publish, Seen
  <1>2. \A s \in held : (Inserted(r, s) \/ Written(r, s)) /\ Shape(r, s)
    BY DEF Mine, RowsOK, RowShape
  <1>3. call[r].op \in AllOps /\ r \in SessionIds
    BY DEF CallInv, CallOK, Calls, Steps, SessionIds
  <1>4. CASE call[r].op = "create" /\ r \in held
    <2>1. sess[r] = NoRow /\ Inserted(r, r)
      BY <1>2, <1>3, <1>4 DEF Mine, NewIdOK, Outcomes, Written, NoRow
    <2>2. sess'[r].status = "ACTIVE" /\ sess'[r].dev = call[r].dev
      BY <1>1, <1>4, <2>1 DEF Inserted
    <2>3. ASSUME NEW q \in SessionIds \ {r}, q \in held
          PROVE  /\ q \in Ledger!ActiveOn(sess'[r].dev)
                 /\ sess'[q] = [sess[q] EXCEPT !.status = "EXPIRED"]
      <3>1. Written(r, q) /\ Expiring(r, q)
        BY <1>2, <1>4, <2>3
        DEF Inserted, Written, Shape, Opening, Renewing, Revoking, NoRow
      <3>2. q \in SessionIds /\ sess[q].status = "ACTIVE" /\ sess[q].dev = call[r].dev
        BY <3>1 DEF Written, Expiring
      <3>3. q \in Ledger!ActiveOn(sess'[r].dev)
        BY <2>2, <3>2 DEF Ledger!ActiveOn
      <3> QED BY <1>1, <2>3, <3>1, <3>3 DEF Expiring
    <2>4. Ledger!OneActivePerDevice'
      BY DEF OneActiveSession, Ledger!OneActivePerDevice
    <2>5. Ledger!Open(r)
      BY <1>1, <1>3, <2>1, <2>2, <2>3, <2>4 DEF Ledger!Open, Ledger!NoRow, NoRow
    <2> QED BY <1>3, <2>5 DEF Ledger!Next
  <1>5. CASE call[r].op \in Granting /\ r \notin held
    <2> DEFINE t == call[r].target
    <2>1. ASSUME NEW s \in held PROVE s = t /\ Renewing(r, s) /\ Written(r, s)
      <3>1. s # r /\ rowLock[r] # r
        BY <1>3, <1>5, <2>1
      <3>2. Renewing(r, s)
        BY <1>2, <1>5, <2>1, <3>1 DEF Shape, Expiring, Opening, Revoking, Granting
      <3>3. Written(r, s)
        BY <1>2, <2>1, <3>1 DEF Inserted
      <3> QED BY <3>2, <3>3 DEF Renewing
    <2>2. CASE held = {}
      BY <1>1, <2>2
    <2>3. CASE held # {}
      <3>1. t \in held
        BY <2>1, <2>3
      <3>2. \A q \in SessionIds \ {t} : sess'[q] = sess[q]
        BY <1>1, <2>1
      <3>3. /\ sess[t].status = "ACTIVE" /\ sess'[t].status = "ACTIVE"
            /\ sess'[t].dev = sess[t].dev /\ sess'[t].started = sess[t].started
        BY <1>1, <2>1, <3>1 DEF Renewing, Written
      <3>4. Ledger!Renew(t)
        BY <3>2, <3>3 DEF Ledger!Renew
      <3> QED BY <3>1, <3>4 DEF Ledger!Next
    <2> QED BY <2>2, <2>3
  <1>6. CASE call[r].op \in {"revoke", "status"}
    <2>1. ASSUME NEW s \in held PROVE Revoking(r, s) /\ Written(r, s)
      BY <1>2, <1>6
      DEF Inserted, Written, Shape, Expiring, Opening, Renewing, Granting, NoRow
    <2>2. ASSUME NEW s \in held
          PROVE  sess[s].status = "ACTIVE" /\ sess'[s] = [sess[s] EXCEPT !.status = "REVOKED"]
      BY <1>1, <2>1 DEF Revoking, Written
    <2>3. Ledger!Revoke(held)
      BY <1>1, <2>2 DEF Ledger!Revoke
    <2> QED BY <2>3 DEF Ledger!Next
  <1>7. ~ (call[r].op = "refresh" /\ r \in held)
    BY <1>2 DEF Mine, NewIdOK, Outcomes, Inserted, Written, NoRow
  <1> HIDE DEF held
  <1> QED BY <1>3, <1>4, <1>5, <1>6, <1>7 DEF AllOps, Granting

LEMMA CommitKeeps ==
  ASSUME LedgerInv, NEW r \in Requests, Publish(r), pc[r] = "commit",
         \A q \in Requests \ {r} : pc'[q] = pc[q] /\ call'[q] = call[q]
  PROVE  \A q \in Requests : RowShape(q)'
  <1> USE DEF LedgerInv, DeviceInv, TypeInv, TypeOK
  <1>1. ASSUME NEW q \in Requests \ {r} PROVE RowShape(q)'
    <2>1. Kept(q)
      BY SetsAssumption DEF Publish, ReleaseLocks, Seen, Kept
    <2> QED BY <2>1, KeptShape
  <1>2. \A s \in SessionIds : rowLock'[s] # r
    BY SetsAssumption DEF Publish, ReleaseLocks
  <1>3. RowShape(r)'
    BY <1>2 DEF RowShape
  <1> QED BY <1>1, <1>3

LEMMA LedgerStep == LedgerInv /\ [Next]_vars => LedgerInv' /\ [Ledger!Next]_sess
  <1> SUFFICES ASSUME LedgerInv, [Next]_vars PROVE LedgerInv' /\ [Ledger!Next]_sess
    OBVIOUS
  <1>1. DeviceInv'
    BY NextDeviceInv DEF LedgerInv
  <1> SUFFICES (\A q \in Requests : RowShape(q)') /\ [Ledger!Next]_sess
    BY <1>1 DEF LedgerInv
  <1>2. CASE UNCHANGED vars \/ Tick \/ ChangePolicy
    <2>1. UNCHANGED <<sess, rowLock, rowNext, pc, call>>
      BY <1>2 DEF vars, Tick, ChangePolicy, committed, locks
    <2>2. ASSUME NEW q \in Requests PROVE RowShape(q)'
      BY <2>1, KeptShape DEF LedgerInv, Kept
    <2> QED BY <2>1, <2>2
  <1>3. ASSUME NEW r \in Requests, NEW outcome, Rollback(r, outcome)
        PROVE  (\A q \in Requests : RowShape(q)') /\ [Ledger!Next]_sess
    <2>1. ASSUME NEW q \in Requests \ {r} PROVE RowShape(q)' /\ RowShape(r)' /\ sess' = sess
      BY <1>3, RollbackKeeps, KeptShape DEF LedgerInv
    <2>2. RowShape(r)' /\ sess' = sess
      BY <1>3, SetsAssumption
      DEF Rollback, ReleaseLocks, committed, RowShape, LedgerInv, DeviceInv, TypeInv, TypeOK
    <2> QED BY <2>1, <2>2
  <1>4. ASSUME NEW r \in Requests, Proceed(r),
               CommitGrant(r) \/ CommitRevoke(r) \/ CommitActivation(r) \/ CommitDeactivation(r)
        PROVE  (\A q \in Requests : RowShape(q)') /\ [Ledger!Next]_sess
    <2>1. /\ pc[r] = "commit" /\ Publish(r)
          /\ \A q \in Requests \ {r} : pc'[q] = pc[q] /\ call'[q] = call[q]
      BY <1>4
      DEF CommitGrant, CommitRevoke, CommitActivation, CommitDeactivation, End, Goto,
          LedgerInv, DeviceInv, TypeInv, TypeOK
    <2> QED BY <1>1, <2>1, CommitImplements, CommitKeeps DEF DeviceInv
  <1>5. ASSUME NEW r \in Requests, Proceed(r), pc[r] # "commit",
               ~ \E outcome : Rollback(r, outcome)
        PROVE  (\A q \in Requests : RowShape(q)') /\ [Ledger!Next]_sess
    <2>1. ASSUME NEW q \in Requests \ {r} PROVE RowShape(q)'
      BY <1>5, StatementKeeps, KeptShape DEF LedgerInv
    <2>2. RowShape(r)'
      BY <1>5, StatementShape
    <2>3. sess' = sess
      BY <1>5
      DEF Proceed, ReadContext, Observe, LockDevice, Deny, ExpireStale, FindActive, FindNone,
          Choose, Reuse, Insert, LockSession, WriteRefresh, RevokeRow, ReadStatus, Unban,
          UpdateUser, ScanSessions, CloseRow, Ban, CommitGrant, CommitRevoke,
          CommitActivation, CommitDeactivation, committed
    <2> QED BY <2>1, <2>2, <2>3
  <1>6. ASSUME NEW r \in Requests, Proceed(r), pc[r] = "commit"
        PROVE  (\A q \in Requests : RowShape(q)') /\ [Ledger!Next]_sess
    <2>1. CommitGrant(r) \/ CommitRevoke(r) \/ CommitActivation(r) \/ CommitDeactivation(r)
      BY <1>6
      DEF Proceed, ReadContext, Observe, LockDevice, Deny, ExpireStale, FindActive, FindNone,
          Reuse, Insert, LockSession, WriteRefresh, RevokeRow, ReadStatus, Unban,
          UpdateUser, ScanSessions, CloseRow, Ban
    <2> QED BY <1>4, <1>6, <2>1
  <1>7. ASSUME NEW r \in Requests, Arrive(r)
        PROVE  (\A q \in Requests : RowShape(q)') /\ [Ledger!Next]_sess
    BY <1>7, ArriveKeeps
  <1>8. ASSUME NEW r \in Requests, Proceed(r)
        PROVE  (\A q \in Requests : RowShape(q)') /\ [Ledger!Next]_sess
    BY <1>3, <1>5, <1>6, <1>8
  <1>9. ASSUME NEW r \in Requests, Abort(r)
        PROVE  (\A q \in Requests : RowShape(q)') /\ [Ledger!Next]_sess
    BY <1>3, <1>9 DEF Abort
  <1> QED BY <1>2, <1>7, <1>8, <1>9 DEF Next, Finished

(* The committed rows behave as SessionLedger says, for every number of    *)
(* calls in flight: a session opens once, on a device that the same commit *)
(* clears; it is renewed in place; and once closed its row never changes.  *)
THEOREM LedgerImplemented == Spec => ImplementsLedger
  <1>1. Init => LedgerInv /\ Ledger!Init
    <2> SUFFICES ASSUME Init PROVE LedgerInv /\ Ledger!Init
      OBVIOUS
    <2>1. DeviceInv
      BY InitDeviceInv
    <2>2. \A r \in Requests : RowShape(r)
      BY SetsAssumption DEF Init, RowShape, SessionIds
    <2>3. \A s \in SessionIds : sess[s] = NoRow \/ sess[s].status = "ACTIVE"
      BY DEF Init, SeedRow
    <2>4. Ledger!Init
      BY <2>1, <2>3
      DEF DeviceInv, OneActiveSession, Ledger!Init, Ledger!OneActivePerDevice, Ledger!NoRow, NoRow
    <2> QED BY <2>1, <2>2, <2>4 DEF LedgerInv
  <1> QED BY <1>1, LedgerStep, PTL DEF Spec, ImplementsLedger, Ledger!Spec

-----------------------------------------------------------------------------
(* What the locks are good for beside the device: calls never wait for one *)
(* another in a circle, and an administrator's UPDATE of a USER's sessions *)
(* misses none that was there before.                                      *)

(* A change of status has its USER's row locked from the UPDATE on. *)
Deciding(r) == call[r].op = "status" /\ pc[r] \in {"scan", "rows", "commit"}
UserRowOK(r) ==
  \A u \in Users : usrLock[u] = r <=> Deciding(r) /\ call[r].user = u

(* The sessions it visits, and those it has closed, are of that USER. *)
VisitOK(r) ==
  /\ Deciding(r) /\ pc[r] = "rows" => \A s \in call[r].todo :
       sess[s] # NoRow /\ Owner[sess[s].dev] = call[r].user
  /\ \A s \in SessionIds : rowLock[s] = r /\ call[r].op = "status" =>
       Owner[sess[s].dev] = call[r].user

(* A seed that is ACTIVE is still to be visited, or has been closed. *)
CaughtOK(r) ==
  Deciding(r) /\ pc[r] # "scan" /\ call[r].goal # "ACTIVE" =>
    \A s \in Seeds :
      sess[s].status = "ACTIVE" /\ Owner[sess[s].dev] = call[r].user =>
        \/ pc[r] = "rows" /\ s \in call[r].todo
        \/ rowLock[s] = r /\ rowNext[s].status = "REVOKED"

StatusOK(r) == UserRowOK(r) /\ VisitOK(r) /\ CaughtOK(r)
StatusInv == \A r \in Requests : StatusOK(r)

WaitInv == LedgerInv /\ StatusInv /\ EstablishedSessionsRevoked

LEMMA InitWaitInv == Init => WaitInv
  <1> SUFFICES ASSUME Init PROVE WaitInv
    OBVIOUS
  <1>1. LedgerInv
    <2>1. \A r \in Requests : RowShape(r)
      BY SetsAssumption DEF Init, RowShape, SessionIds
    <2> QED BY <2>1, InitDeviceInv DEF LedgerInv
  <1>2. ASSUME NEW r \in Requests PROVE StatusOK(r)
    <2>1. ~ Deciding(r)
      BY DEF Init, Deciding
    <2>2. \A u \in Users : usrLock[u] # r
      BY SetsAssumption DEF Init
    <2>3. \A s \in SessionIds : rowLock[s] # r
      BY SetsAssumption DEF Init
    <2> QED BY <2>1, <2>2, <2>3 DEF StatusOK, UserRowOK, VisitOK, CaughtOK
  <1>3. EstablishedSessionsRevoked
    BY DEF Init, EstablishedSessionsRevoked, NoRow
  <1> QED BY <1>1, <1>2, <1>3 DEF WaitInv, StatusInv

LEMMA OthersStatus ==
  ASSUME WaitInv, NEW r \in Requests, CallStep(r), NEW q \in Requests \ {r}
  PROVE  StatusOK(q)'
  <1>1. Kept(q) /\ \A u \in Users : usrLock'[u] = q <=> usrLock[u] = q
    BY OthersKept DEF WaitInv
  <1>2. Deciding(q)' <=> Deciding(q)
    BY <1>1 DEF Deciding, Kept
  <1>3. UserRowOK(q)'
    BY <1>1, <1>2 DEF WaitInv, StatusInv, StatusOK, UserRowOK, Kept
  <1>4. VisitOK(q)'
    <2>1. ASSUME Deciding(q), pc[q] = "rows", NEW s \in call[q].todo
          PROVE  sess'[s] # NoRow /\ Owner[sess'[s].dev] = call[q].user
      <3>1. s \in SessionIds
        BY <2>1 DEF WaitInv, LedgerInv, DeviceInv, TypeInv, CallInv, CallOK, Steps, Calls
      <3>2. sess[s] # NoRow /\ Owner[sess[s].dev] = call[q].user
        BY <2>1 DEF WaitInv, StatusInv, StatusOK, VisitOK
      <3> QED BY <3>1, <3>2, RowsStay DEF WaitInv
    <2>2. ASSUME NEW s \in SessionIds, rowLock'[s] = q, call[q].op = "status"
          PROVE  Owner[sess'[s].dev] = call[q].user
      BY <1>1, <2>2 DEF WaitInv, StatusInv, StatusOK, VisitOK, Kept
    <2>3. call'[q] = call[q] /\ pc'[q] = pc[q]
      BY <1>1 DEF Kept
    <2> QED BY <1>2, <2>1, <2>2, <2>3 DEF VisitOK
  <1>5. CaughtOK(q)'
    <2> SUFFICES ASSUME Deciding(q), pc[q] # "scan", call[q].goal # "ACTIVE",
                        NEW s \in Seeds, sess'[s].status = "ACTIVE",
                        Owner[sess'[s].dev] = call[q].user
                 PROVE  \/ pc[q] = "rows" /\ s \in call[q].todo
                        \/ rowLock'[s] = q /\ rowNext'[s].status = "REVOKED"
      BY <1>1, <1>2 DEF CaughtOK, Kept
    <2>1. s \in SessionIds /\ s # r
      BY SetsAssumption DEF SessionIds
    <2>2. sess[s].status = "ACTIVE" /\ sess'[s].dev = sess[s].dev
      BY <2>1, RowsStay DEF WaitInv, NoRow
    <2>3. \/ pc[q] = "rows" /\ s \in call[q].todo
          \/ rowLock[s] = q /\ rowNext[s].status = "REVOKED"
      BY <2>2 DEF WaitInv, StatusInv, StatusOK, CaughtOK
    <2> QED BY <1>1, <2>1, <2>3 DEF Kept
  <1> QED BY <1>3, <1>4, <1>5 DEF StatusOK

(* A call that holds neither a users row nor a session row. *)
LEMMA Lockless ==
  ASSUME NEW r \in Requests, ~ Deciding(r)',
         \A u \in Users : usrLock'[u] # r,
         (\A s \in SessionIds : rowLock'[s] # r) \/ call'[r].op # "status"
  PROVE  StatusOK(r)'
  BY DEF StatusOK, UserRowOK, VisitOK, CaughtOK

LEMMA OwnStatus ==
  ASSUME WaitInv, NEW r \in Requests, CallStep(r)
  PROVE  StatusOK(r)'
  <1> USE DEF WaitInv, LedgerInv, DeviceInv, TypeInv, TypeOK
  <1>1. pc[r] \in Steps => CallOK(r) /\ call[r] \in Calls
    BY DEF CallInv, CallOK
  <1>2. UserRowOK(r) /\ VisitOK(r) /\ CaughtOK(r)
    BY DEF StatusInv, StatusOK
  <1>3. CASE Arrive(r)
    <2>1. /\ pc[r] = "idle" /\ pc'[r] \in {"context", "row", "read"}
          /\ UNCHANGED <<usrLock, rowLock>>
      BY <1>3
      DEF Arrive, BeginCreate, BeginRefresh, BeginRevoke, BeginStatus, Begin, Goto, locks
    <2>2. \A s \in SessionIds : rowLock[s] # r
      BY <2>1 DEF Mine, RowsOK, Inserted, Written
    <2> QED BY <1>2, <2>1, <2>2, Lockless DEF Deciding, UserRowOK
  <1>4. CASE \E outcome : Rollback(r, outcome)
    <2>1. /\ call'[r].op = "none"
          /\ \A u \in Users : usrLock'[u] # r
      BY <1>4, SetsAssumption DEF Rollback, End, ReleaseLocks, NoCall
    <2> QED BY <2>1, Lockless DEF Deciding
  <1>5. CASE Committing(r)
    <2>1. /\ \A u \in Users : usrLock'[u] # r
          /\ \A s \in SessionIds : rowLock'[s] # r
      BY <1>5, SetsAssumption DEF Committing, Publish, ReleaseLocks
    <2>2. call'[r].op = "none" \/ pc'[r] = "ban"
      BY <1>5
      DEF Committing, CommitGrant, CommitRevoke, CommitActivation, CommitDeactivation, End,
          Goto, NoCall
    <2> QED BY <2>1, <2>2, Lockless DEF Deciding
  <1>6. CASE Stating(r) /\ call[r].op # "status"
    <2>1. Proceed(r) /\ ~ \E outcome : Rollback(r, outcome)
      BY <1>6 DEF Stating
    <2>2. UNCHANGED usrLock /\ call'[r].op # "status"
      <3>1. CASE ReadContext(r) \/ Observe(r) \/ LockDevice(r) \/ Deny(r) \/ ExpireStale(r)
        BY <1>1, <1>6, <2>1, <3>1
        DEF ReadContext, Observe, LockDevice, Deny, ExpireStale, locks, Steps, Calls
      <3>2. CASE FindActive(r) \/ FindNone(r) \/ Reuse(r) \/ Insert(r)
        <4>1. CASE FindActive(r)
          <5>1. PICK s, end : pc[r] = "find" /\ Choose(r, s, end)
            BY <2>1, <4>1 DEF FindActive
          <5> QED BY <1>1, <1>6, <5>1 DEF Choose, locks, Steps, Calls
        <4>2. CASE FindNone(r) \/ Reuse(r) \/ Insert(r)
          BY <1>1, <1>6, <2>1, <4>2 DEF FindNone, Reuse, Insert, locks, Steps, Calls
        <4> QED BY <3>2, <4>1, <4>2
      <3>3. CASE LockSession(r) \/ WriteRefresh(r) \/ RevokeRow(r)
        BY <1>1, <1>6, <2>1, <3>3 DEF LockSession, WriteRefresh, RevokeRow, locks, Steps, Calls
      <3>4. pc[r] \in {"read", "unban", "user", "scan", "rows", "ban"} => FALSE
        BY <1>1, <1>6 DEF CallOK, Steps
      <3>5. pc[r] # "commit"
        BY <1>6 DEF Stating
      <3> QED
        BY <2>1, <3>1, <3>2, <3>3, <3>4, <3>5
        DEF Proceed, CommitGrant, CommitRevoke, ReadStatus, Unban, UpdateUser, ScanSessions,
            CloseRow, CommitActivation, CommitDeactivation, Ban
    <2>3. \A u \in Users : usrLock[u] # r
      BY <1>2, <1>6 DEF UserRowOK, Deciding
    <2> QED BY <2>2, <2>3, Lockless DEF Deciding
  <1>7. CASE Stating(r) /\ call[r].op = "status"
    <2>1. /\ Proceed(r) /\ pc[r] # "commit" /\ ~ \E outcome : Rollback(r, outcome)
          /\ UNCHANGED committed
      BY <1>7, StatingCommitsNothing DEF Stating
    <2>2. CASE ReadStatus(r) \/ Unban(r) \/ Ban(r)
      <3>1. /\ pc[r] \in {"read", "unban", "ban"}
            /\ UNCHANGED <<usrLock, rowLock>>
            /\ pc'[r] \in {"unban", "user", "ok"}
        BY <2>1, <2>2 DEF ReadStatus, Unban, Ban, End, Goto, locks, Outcomes
      <3>2. \A s \in SessionIds : rowLock[s] # r
        BY <3>1, NothingHeld
      <3> QED BY <1>2, <3>1, <3>2, Lockless DEF Deciding, UserRowOK
    <2>3. CASE UpdateUser(r)
      <3>1. /\ pc[r] = "user" /\ UNCHANGED <<call, rowLock, sess>>
            /\ usrLock' = [usrLock EXCEPT ![call[r].user] = r]
            /\ pc'[r] = IF call[r].goal = "ACTIVE" THEN "commit" ELSE "scan"
        BY <2>3 DEF UpdateUser, Goto, committed
      <3>2. \A s \in SessionIds : rowLock[s] # r
        BY <3>1, NothingHeld
      <3>3. Deciding(r)' /\ ~ Deciding(r)
        BY <1>7, <3>1 DEF Deciding
      <3>4. call[r].user \in Users
        BY <1>1, <3>1 DEF Steps, Calls
      <3>5. UserRowOK(r)'
        BY <1>2, <3>1, <3>3, <3>4 DEF UserRowOK
      <3>6. VisitOK(r)' /\ CaughtOK(r)'
        BY <3>1, <3>2 DEF VisitOK, CaughtOK
      <3> QED BY <3>5, <3>6 DEF StatusOK
    <2>4. CASE ScanSessions(r)
      <3> DEFINE found == {s \in SessionIds : /\ sess[s].status = "ACTIVE"
                                              /\ Owner[sess[s].dev] = call[r].user}
      <3>1. /\ pc[r] = "scan" /\ UNCHANGED <<usrLock, rowLock, rowNext, sess>>
            /\ call' = [call EXCEPT ![r].todo = found]
            /\ pc'[r] = IF found = {} THEN "commit" ELSE "rows"
        BY <2>4 DEF ScanSessions, Goto, committed, locks
      <3>2. /\ call'[r].todo = found /\ call'[r].op = "status"
            /\ call'[r].user = call[r].user /\ call'[r].goal = call[r].goal
        BY <1>1, <1>7, <3>1 DEF Steps, Calls
      <3>3. \A s \in SessionIds : rowLock[s] # r
        BY <3>1, NothingHeld
      <3>4. Deciding(r) /\ Deciding(r)'
        BY <1>7, <3>1, <3>2 DEF Deciding
      <3>5. UserRowOK(r)'
        BY <1>2, <3>1, <3>2, <3>4 DEF UserRowOK
      <3>6. VisitOK(r)'
        BY <3>1, <3>2, <3>3 DEF VisitOK, NoRow
      <3>7. CaughtOK(r)'
        BY <3>1, <3>2 DEF CaughtOK, SessionIds
      <3> QED BY <3>5, <3>6, <3>7 DEF StatusOK
    <2>5. CASE \E s \in SessionIds : CloseRow(r, s)
      <3>1. PICK s \in SessionIds : CloseRow(r, s)
        BY <2>5
      <3> DEFINE hit == {p \in {s} : sess[p].status = "ACTIVE"}
                 rest == call[r].todo \ {s}
      <3>2. /\ pc[r] = "rows" /\ s \in call[r].todo /\ UNCHANGED <<usrLock, sess>>
            /\ call' = [call EXCEPT ![r].todo = rest]
            /\ rowLock[s] = None
            /\ Hold(r, [q \in hit |-> [sess[q] EXCEPT !.status = "REVOKED"]])
            /\ pc'[r] = IF call[r].todo = {s} THEN "commit" ELSE "rows"
        BY <3>1 DEF CloseRow, Goto, committed
      <3>3. /\ call'[r].todo = rest /\ call'[r].op = "status"
            /\ call'[r].user = call[r].user /\ call'[r].goal = call[r].goal
        BY <1>1, <1>7, <3>2 DEF Steps, Calls
      <3>4. Deciding(r) /\ Deciding(r)' /\ pc[r] # "scan"
        BY <1>7, <3>2, <3>3 DEF Deciding
      <3>5. UserRowOK(r)'
        BY <1>2, <3>2, <3>3, <3>4 DEF UserRowOK
      <3>6. \A q \in SessionIds : rowLock'[q] = r =>
               rowLock[q] = r \/ q = s
        BY <3>2 DEF Hold
      <3>7. VisitOK(r)'
        BY <1>2, <1>7, <3>2, <3>3, <3>4, <3>6 DEF VisitOK
      <3>8. sess[s].status = "ACTIVE" => rowLock'[s] = r /\ rowNext'[s].status = "REVOKED"
        BY <3>2 DEF Hold, NoRow, Rows
      <3>9. \A q \in SessionIds : q # s =>
               rowLock'[q] = rowLock[q] /\ rowNext'[q] = rowNext[q]
        BY <3>2 DEF Hold
      <3>10. CaughtOK(r)'
        BY <1>2, <3>2, <3>3, <3>4, <3>8, <3>9 DEF CaughtOK, SessionIds
      <3> QED BY <3>5, <3>7, <3>10 DEF StatusOK
    <2>6. pc[r] \notin {"context", "observe", "device", "expire", "find", "reuse", "insert",
                       "row", "write"}
      BY <1>1, <1>7 DEF CallOK, Steps, Granting
    <2> QED
      BY <2>1, <2>2, <2>3, <2>4, <2>5, <2>6
      DEF Proceed, ReadContext, Observe, LockDevice, Deny, ExpireStale, FindActive, FindNone,
          Reuse, Insert, LockSession, WriteRefresh, RevokeRow, CommitGrant, CommitRevoke,
          CommitActivation, CommitDeactivation
  <1> QED BY <1>3, <1>4, <1>5, <1>6, <1>7, StepKinds

LEMMA EstablishedStep ==
  ASSUME WaitInv, NEW r \in Requests, CallStep(r)
  PROVE  EstablishedSessionsRevoked'
  <1> USE DEF WaitInv, LedgerInv, DeviceInv, TypeInv, TypeOK
  <1> SUFFICES ASSUME NEW s \in Seeds, sess'[s].status = "ACTIVE"
               PROVE  usr'[Owner[sess'[s].dev]] = "ACTIVE"
    BY DEF EstablishedSessionsRevoked
  <1> DEFINE u == Owner[sess[s].dev]
  <1>1. s \in SessionIds /\ s # r
    BY SetsAssumption DEF SessionIds
  <1>2. sess[s].status = "ACTIVE" /\ sess'[s].dev = sess[s].dev /\ sess[s] # NoRow
    BY <1>1, RowsStay DEF NoRow
  <1>3. u \in Users /\ usr[u] = "ACTIVE"
    BY <1>1, <1>2, OwnerAssumption DEF EstablishedSessionsRevoked, Rows
  <1>4. CASE usr'[u] = usr[u]
    BY <1>2, <1>3, <1>4
  <1>5. CASE usr'[u] # usr[u]
    <2>1. Committing(r)
      BY <1>5, OnlyCommits DEF committed
    <2>2. usrLock[u] = r /\ usr'[u] = call[r].goal
      BY <1>3, <1>5, <2>1 DEF Committing, Publish
    <2>3. Deciding(r) /\ call[r].user = u /\ CaughtOK(r) /\ pc[r] = "commit"
      BY <1>3, <2>1, <2>2 DEF StatusInv, StatusOK, UserRowOK, Committing
    <2>4. CASE call[r].goal = "ACTIVE"
      BY <1>2, <2>2, <2>4
    <2>5. CASE call[r].goal # "ACTIVE"
      <3>1. rowLock[s] = r /\ rowNext[s].status = "REVOKED"
        BY <1>2, <2>3, <2>5 DEF CaughtOK
      <3>2. sess'[s] = rowNext[s]
        BY <1>1, <2>1, <3>1 DEF Committing, Publish, Seen
      <3> QED BY <3>1, <3>2
    <2> QED BY <2>4, <2>5
  <1> QED BY <1>4, <1>5

LEMMA NextWaitInv == WaitInv /\ [Next]_vars => WaitInv'
  <1> SUFFICES ASSUME WaitInv, [Next]_vars PROVE WaitInv'
    OBVIOUS
  <1>1. LedgerInv'
    BY LedgerStep DEF WaitInv
  <1>2. CASE UNCHANGED vars \/ Tick \/ ChangePolicy
    <2>1. UNCHANGED <<usr, sess, usrLock, rowLock, rowNext, pc, call>>
      BY <1>2 DEF vars, Tick, ChangePolicy, committed, locks
    <2>2. ASSUME NEW r \in Requests PROVE StatusOK(r)'
      BY <2>1 DEF WaitInv, StatusInv, StatusOK, UserRowOK, VisitOK, CaughtOK, Deciding
    <2>3. EstablishedSessionsRevoked'
      BY <2>1 DEF WaitInv, EstablishedSessionsRevoked
    <2> QED BY <1>1, <2>2, <2>3 DEF WaitInv, StatusInv
  <1>3. ASSUME NEW r \in Requests, CallStep(r) PROVE WaitInv'
    <2>1. ASSUME NEW q \in Requests PROVE StatusOK(q)'
      BY <1>3, OwnStatus, OthersStatus
    <2>2. EstablishedSessionsRevoked'
      BY <1>3, EstablishedStep
    <2> QED BY <1>1, <2>1, <2>2 DEF WaitInv, StatusInv
  <1> QED BY <1>2, <1>3 DEF Next, Finished, CallStep

(* Deactivating a USER closes every session that was there before the      *)
(* calls in flight, for any number of calls, USERs and sessions: a session *)
(* the UPDATE found is closed by it or was closed before, because its row  *)
(* is locked from then to the commit.                                      *)
THEOREM EstablishedSessionsRevokedHolds == Spec => []EstablishedSessionsRevoked
  <1>1. Spec => []WaitInv
    BY InitWaitInv, NextWaitInv, PTL DEF Spec
  <1>2. WaitInv => EstablishedSessionsRevoked
    BY DEF WaitInv
  <1> QED BY <1>1, <1>2, PTL

-----------------------------------------------------------------------------
(* The order in which calls take their locks: a call waits only for one    *)
(* that is further on, and the last do not wait at all.                    *)
Entering == {"user", "device"}
Reaching == {"expire", "reuse", "row"}
Sweeping == {"rows"}
Further(r) ==
  CASE pc[r] \in Entering -> Reaching \cup Sweeping \cup {"find", "insert", "write", "scan", "commit"}
    [] pc[r] \in Reaching -> Sweeping \cup {"find", "insert", "write", "commit"}
    [] pc[r] \in Sweeping -> {"find", "insert", "write", "commit"}
    [] OTHER -> {}

(* Who has a session row locked is past every wait, or is sweeping. *)
LEMMA RowHolder ==
  ASSUME WaitInv, NEW s \in SessionIds, NEW q \in Requests, rowLock[s] = q
  PROVE  /\ pc[q] \in {"rows", "find", "insert", "write", "commit"}
         /\ pc[q] = "rows" => Deciding(q) /\ Owner[sess[s].dev] = call[q].user
  <1>1. Inserted(q, s) \/ Written(q, s)
    BY DEF WaitInv, LedgerInv, DeviceInv, Mine, RowsOK
  <1>2. pc[q] # "reuse"
    BY NothingHeld DEF WaitInv
  <1>3. pc[q] = "rows" => call[q].op = "status"
    BY DEF WaitInv, LedgerInv, DeviceInv, TypeInv, CallInv, CallOK, Steps
  <1> QED
    BY <1>1, <1>2, <1>3
    DEF Inserted, Written, WaitInv, StatusInv, StatusOK, VisitOK, Deciding

(* No INSERT meets a rival: the device is locked and clear. *)
LEMMA NoRivals ==
  ASSUME WaitInv, NEW r \in Requests, pc[r] = "insert"
  PROVE  Holders(Rivals(r, call[r].dev)) \ {r} = {}
  <1> DEFINE d == call[r].dev
  <1> USE DEF WaitInv, LedgerInv, DeviceInv, TypeInv, TypeOK
  <1>1. /\ call[r].op = "create" /\ d \in Devices /\ OnDevice(r, d)
    BY DEF CallInv, CallOK, Steps, OnDevice, Granting
  <1>2. SUFFICES ASSUME NEW s \in Rivals(r, d), NEW q \in Requests, rowLock[s] = q, q # r
                 PROVE  FALSE
    BY SetsAssumption DEF Holders, Rivals, ActiveOn
  <1>3. s \in SessionIds
    BY DEF Rivals, ActiveOn
  <1>4. ~ (sess[s].status = "ACTIVE" /\ sess[s].dev = d)
    BY <1>1, <1>2, <1>3 DEF Mine, ClearOK
  <1>5. rowNext[s].status = "ACTIVE" /\ rowNext[s].dev = d
    BY <1>2, <1>4 DEF Rivals, ActiveOn, Seen
  <1>6. Inserted(q, s)
    BY <1>2, <1>3, <1>4, <1>5 DEF Mine, RowsOK, Written
  <1>7. OnDevice(q, d)
    BY <1>5, <1>6 DEF Inserted, OnDevice, Granting
  <1> QED BY <1>1, <1>2, <1>7 DEF Mine, DeviceOK

LEMMA WaitsForward ==
  ASSUME WaitInv, NEW r \in Requests, NEW q \in Requests, q \in WaitsFor(r)
  PROVE  pc[q] \in Further(r)
  <1> USE DEF WaitInv, LedgerInv, DeviceInv, TypeInv, TypeOK
  <1>1. pc[r] \in Steps => CallOK(r) /\ call[r] \in Calls
    BY DEF CallInv, CallOK
  <1>2. CASE pc[r] = "device"
    <2>1. call[r].dev \in Devices /\ devLock[call[r].dev] = q
      BY <1>1, <1>2 DEF WaitsFor, CallOK, Steps
    <2> QED BY <1>2, <2>1 DEF Mine, DeviceOK, OnDevice, Further, Entering, Reaching, Sweeping
  <1>3. CASE pc[r] = "user"
    <2>1. call[r].user \in Users /\ usrLock[call[r].user] = q
      BY <1>1, <1>3 DEF WaitsFor, Calls, Steps
    <2> QED
      BY <1>3, <2>1
      DEF StatusInv, StatusOK, UserRowOK, Deciding, Further, Entering, Reaching, Sweeping
  <1>4. CASE pc[r] \in Reaching
    <2>1. PICK s \in SessionIds : rowLock[s] = q
      <3>1. CASE pc[r] = "expire"
        BY <3>1 DEF WaitsFor, Holders, StaleOn, ActiveOn
      <3>2. CASE pc[r] \in {"reuse", "row"}
        <4>1. call[r].target \in SessionIds
          BY <1>1, <3>2 DEF CallOK, Steps, Granting
        <4> QED BY <3>2, <4>1 DEF WaitsFor, Holders
      <3> QED BY <1>4, <3>1, <3>2 DEF Reaching
    <2> QED BY <1>4, <2>1, RowHolder DEF Further, Entering, Reaching, Sweeping
  <1>5. CASE pc[r] = "rows"
    <2>1. PICK s \in call[r].todo : rowLock[s] = q /\ q # r
      BY <1>5 DEF WaitsFor, Holders
    <2>2. s \in SessionIds /\ call[r].user \in Users /\ Deciding(r)
      BY <1>1, <1>5, <2>1 DEF Calls, Steps, CallOK, Deciding
    <2>3. Owner[sess[s].dev] = call[r].user
      BY <1>5, <2>1, <2>2 DEF StatusInv, StatusOK, VisitOK
    <2>4. pc[q] # "rows"
      <3> SUFFICES ASSUME pc[q] = "rows" PROVE FALSE
        OBVIOUS
      <3>1. Deciding(q) /\ call[q].user = call[r].user
        BY <2>1, <2>2, <2>3, RowHolder
      <3>2. usrLock[call[r].user] = r /\ usrLock[call[r].user] = q
        BY <2>2, <3>1 DEF StatusInv, StatusOK, UserRowOK
      <3> QED BY <2>1, <3>2
    <2>5. pc[q] \in {"find", "insert", "write", "commit"}
      BY <2>1, <2>2, <2>4, RowHolder
    <2> QED BY <1>5, <2>5 DEF Further, Entering, Reaching, Sweeping
  <1>6. CASE pc[r] = "insert"
    BY <1>6, NoRivals DEF WaitsFor
  <1> QED BY <1>2, <1>3, <1>4, <1>5, <1>6 DEF WaitsFor, Reaching

LEMMA NoCircle == WaitInv => NoWaitCycle
  <1> SUFFICES ASSUME WaitInv, NEW S \in SUBSET Requests, S # {},
                      \A r \in S : WaitsFor(r) \cap S # {}
               PROVE  FALSE
    BY DEF NoWaitCycle
  <1> USE DEF Further, Entering, Reaching, Sweeping
  <1>1. \A r \in S : \E q \in S : pc[q] \in Further(r)
    BY WaitsForward
  <1>2. \A r \in S : pc[r] \in Entering \cup Reaching \cup Sweeping
    BY <1>1
  <1>3. \A r \in S : pc[r] \notin Sweeping
    BY <1>1, <1>2
  <1>4. \A r \in S : pc[r] \notin Reaching
    BY <1>1, <1>2, <1>3
  <1>5. \A r \in S : pc[r] \notin Entering
    BY <1>1, <1>2, <1>3, <1>4
  <1> QED BY <1>2, <1>3, <1>4, <1>5

(* Calls never wait for one another in a circle, however many there are    *)
(* and whatever they do: a device or users row is waited for before any    *)
(* session row is held, and only the sweep of a deactivation holds one     *)
(* session row while it waits for another.                                 *)
THEOREM NoWaitCycleHolds == Spec => []NoWaitCycle
  <1>1. Spec => []WaitInv
    BY InitWaitInv, NextWaitInv, PTL DEF Spec
  <1> QED BY <1>1, NoCircle, PTL
==============================================================================
