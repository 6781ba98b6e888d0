-------------------------- MODULE AccessSessions_time --------------------------
(***************************************************************************)
(* What AccessSessions promises about time: how long a token outlives its  *)
(* session, how long a session lasts, and what a token says of its row.    *)
(***************************************************************************)
EXTENDS AccessSessions_ledger

Capped(row) == \E most \in Policies : row.expires <= row.started + most

(* What a create or a refresh has computed, and what the session it works  *)
(* on may have become, by the statement it has reached.  A session found   *)
(* ACTIVE can only have been revoked since: the device is locked.          *)
ReuseOK(r) ==
  LET row == sess[call[r].target] IN
  /\ row.status \in {"ACTIVE", "REVOKED"}
  /\ row.status = "ACTIVE" => row.loc = call[r].loc
  /\ row.status = "REVOKED" => call[r].at <= closedAt[call[r].target]
  /\ \E most \in Policies : call[r].exp <= row.started + most

WonOK(r) ==    \* the row the token will be about is in its hands
  LET row == rowNext[call[r].target] IN
  /\ rowLock[call[r].target] = r
  /\ row.status = "ACTIVE" /\ row.loc = call[r].loc /\ row.expires = call[r].exp

LostOK(r) ==   \* a revocation was committed before the UPDATE reached the row
  /\ rowLock[call[r].target] # r
  /\ call[r].op = "create"
  /\ sess[call[r].target].status = "REVOKED"
  /\ call[r].at <= closedAt[call[r].target]
  /\ \E most \in Policies : call[r].exp <= sess[call[r].target].started + most

GrantOK(r) ==
  call[r].op \in Granting =>
    /\ call[r].at <= clock
    /\ pc[r] # "context" => call[r].cap \in Policies
    /\ pc[r] \in {"find", "insert", "reuse", "commit"} => call[r].exp <= call[r].at + Ttl
    /\ pc[r] = "insert" => call[r].exp <= call[r].at + call[r].cap
    /\ pc[r] = "reuse" => ReuseOK(r)
    /\ pc[r] = "commit" => WonOK(r) \/ LostOK(r)

HeldCapped(r) == \A s \in SessionIds : rowLock[s] = r => Capped(rowNext[s])

CallTime(r) == HeldCapped(r) /\ (pc[r] \in Steps => GrantOK(r))

TokenOK(t) ==
  LET row == sess[t.sess] IN
  /\ row # NoRow
  /\ t.exp <= clock + Ttl
  /\ row.status # "ACTIVE" => t.exp <= closedAt[t.sess] + Ttl
  /\ \E most \in Policies : t.exp <= row.started + most

RowsCapped == \A s \in SessionIds : sess[s] # NoRow => Capped(sess[s])
TimeOK ==
  /\ \A r \in Requests : CallTime(r)
  /\ RowsCapped
  /\ \A t \in tokens : TokenOK(t)

TimeInv == LedgerInv /\ TimeOK

LEMMA InitTimeInv == Init => TimeInv
  <1> SUFFICES ASSUME Init PROVE TimeInv
    OBVIOUS
  <1>1. LedgerInv
    <2>1. \A r \in Requests : RowShape(r)
      BY SetsAssumption DEF Init, RowShape, SessionIds
    <2> QED BY <2>1, InitDeviceInv DEF LedgerInv
  <1>2. ASSUME NEW r \in Requests PROVE CallTime(r)
    BY SetsAssumption DEF Init, CallTime, HeldCapped, Steps
  <1>3. RowsCapped
    <2> SUFFICES ASSUME NEW s \in SessionIds, sess[s] # NoRow PROVE Capped(sess[s])
      BY DEF RowsCapped
    <2>1. PICK d \in Devices, l \in Locations, until \in ScheduleEnds \ {0} :
            sess[s] = SeedRow(d, l, until)
      BY DEF Init
    <2>2. policy \in Policies /\ policy \in Nat /\ until \in Nat /\ Ttl \in Nat
      BY PolicyAssumption DEF Init
    <2>3. sess[s].started = 0 /\ sess[s].expires = Min2(Min2(Ttl, until), policy)
      BY <2>1 DEF SeedRow
    <2>4. sess[s].expires <= sess[s].started + policy
      BY <2>2, <2>3 DEF Min2
    <2> QED BY <2>2, <2>4 DEF Capped
  <1>4. \A t \in tokens : TokenOK(t)
    BY DEF Init
  <1> QED BY <1>1, <1>2, <1>3, <1>4 DEF TimeInv, TimeOK

LEMMA CallsTakeNoTime ==
  ASSUME NEW r \in Requests, CallStep(r)
  PROVE  clock' = clock
  <1>1. CASE Arrive(r)
    BY <1>1 DEF Arrive, BeginCreate, BeginRefresh, BeginRevoke, BeginStatus, Begin, ambient
  <1>2. CASE \E outcome : Rollback(r, outcome)
    BY <1>2 DEF Rollback, ambient
  <1>3. CASE Committing(r)
    BY <1>3
    DEF Committing, CommitGrant, CommitRevoke, CommitActivation, CommitDeactivation, ambient
  <1>4. CASE Stating(r)
    BY <1>4, StatingCommitsNothing
  <1> QED BY <1>1, <1>2, <1>3, <1>4, StepKinds

(* A closed row is nobody's to change, and was closed when it was closed. *)
LEMMA ClosedRowKept ==
  ASSUME LedgerInv, NEW r \in Requests, CallStep(r), NEW s \in SessionIds,
         sess[s] # NoRow, sess[s].status # "ACTIVE"
  PROVE  sess'[s] = sess[s] /\ closedAt'[s] = closedAt[s]
  <1>1. rowLock[s] # r
    BY DEF LedgerInv, DeviceInv, Mine, RowsOK, Inserted, Written
  <1> QED BY <1>1, OnlyHeldChange

(* A row that leaves ACTIVE does so at a commit, and closedAt says when. *)
LEMMA ClosedNow ==
  ASSUME LedgerInv, NEW r \in Requests, CallStep(r), NEW s \in SessionIds,
         sess[s].status = "ACTIVE", sess'[s].status # "ACTIVE"
  PROVE  /\ closedAt'[s] = clock /\ rowLock[s] = r /\ Committing(r)
         /\ sess'[s] = rowNext[s]
  <1> USE DEF LedgerInv, DeviceInv, TypeInv, TypeOK
  <1>1. Committing(r)
    BY OnlyCommits DEF committed
  <1>2. rowLock[s] = r
    BY OnlyHeldChange
  <1> QED BY <1>1, <1>2 DEF Committing, Publish, Seen

(* While q works on a device, only a revocation closes its session: a call *)
(* that expires, renews or moves one holds the device.                     *)
LEMMA OnlyRevoked ==
  ASSUME LedgerInv, NEW r \in Requests, CallStep(r), NEW q \in Requests \ {r},
         NEW s \in SessionIds, sess[s] # NoRow, OnDevice(q, sess[s].dev),
         sess'[s] # sess[s]
  PROVE  sess'[s].status = "REVOKED"
  <1> USE DEF LedgerInv, DeviceInv, TypeInv, TypeOK
  <1>1. Committing(r) /\ rowLock[s] = r
    BY OnlyCommits, OnlyHeldChange DEF committed
  <1>2. sess'[s] = rowNext[s]
    BY <1>1 DEF Committing, Publish, Seen
  <1>3. Written(r, s) /\ Shape(r, s) /\ sess[s].dev \in Devices
    BY <1>1 DEF Mine, RowsOK, Inserted, RowShape, Rows
  <1>4. ~ (call[r].op \in Granting /\ call[r].dev = sess[s].dev)
    <2>1. pc[r] = "commit"
      BY <1>1 DEF Committing
    <2> QED BY <1>3, <2>1 DEF OnDevice, Mine, DeviceOK
  <1> QED
    BY <1>2, <1>3, <1>4
    DEF Shape, Expiring, Opening, Renewing, Revoking, Written, Granting

LEMMA OthersTime ==
  ASSUME TimeInv, NEW r \in Requests, CallStep(r), NEW q \in Requests \ {r}
  PROVE  CallTime(q)'
  <1> USE DEF TimeInv, LedgerInv, DeviceInv, TypeInv, TypeOK
  <1>1. Kept(q) /\ clock' = clock
    BY OthersKept, CallsTakeNoTime
  <1>2. CallTime(q)
    BY DEF TimeOK
  <1>3. HeldCapped(q)'
    BY <1>1, <1>2 DEF Kept, CallTime, HeldCapped, Capped
  <1> DEFINE t == call[q].target
  <1>4. ASSUME pc[q] \in Steps, call[q].op \in Granting PROVE GrantOK(q)'
    <2>1. GrantOK(q) /\ CallOK(q) /\ Mine(q)
      BY <1>2, <1>4 DEF CallTime, CallInv
    <2>2. pc'[q] = pc[q] /\ call'[q] = call[q]
      BY <1>1 DEF Kept
    <2>3. ASSUME pc[q] = "reuse" PROVE ReuseOK(q)'
      <3>1. t \in SessionIds /\ ReuseOK(q)
        BY <1>4, <2>1, <2>3 DEF CallOK, GrantOK
      <3>2. sess[t] # NoRow /\ OnDevice(q, sess[t].dev)
        BY <1>4, <2>1, <2>3 DEF Mine, TargetOK, OnDevice
      <3>3. sess'[t] # NoRow /\ sess'[t].started = sess[t].started
        BY <3>1, <3>2, RowsStay
      <3>4. CASE sess[t].status # "ACTIVE"
        <4>1. sess'[t] = sess[t] /\ closedAt'[t] = closedAt[t]
          BY <3>1, <3>2, <3>4, ClosedRowKept
        <4> QED BY <2>2, <3>1, <4>1 DEF ReuseOK
      <3>5. CASE sess[t].status = "ACTIVE" /\ sess'[t] = sess[t]
        BY <2>2, <3>1, <3>5 DEF ReuseOK
      <3>6. CASE sess[t].status = "ACTIVE" /\ sess'[t] # sess[t]
        <4>1. sess'[t].status = "REVOKED"
          BY <3>1, <3>2, <3>6, OnlyRevoked
        <4>2. closedAt'[t] = clock
          BY <3>1, <3>6, <4>1, ClosedNow
        <4>3. call[q].at <= clock
          BY <1>4, <2>1 DEF GrantOK
        <4> QED BY <2>2, <3>1, <3>3, <4>1, <4>2, <4>3 DEF ReuseOK
      <3> QED BY <3>4, <3>5, <3>6
    <2>4. ASSUME pc[q] = "commit", WonOK(q) PROVE WonOK(q)'
      <3>1. t \in SessionIds
        BY <1>4, <2>1, <2>4 DEF CallOK
      <3> QED BY <1>1, <2>4, <3>1 DEF Kept, WonOK
    <2>5. ASSUME pc[q] = "commit", LostOK(q) PROVE LostOK(q)'
      <3>1. t \in SessionIds
        BY <1>4, <2>1, <2>5 DEF CallOK
      <3>2. sess'[t] = sess[t] /\ closedAt'[t] = closedAt[t]
        BY <2>5, <3>1, ClosedRowKept DEF LostOK, NoRow
      <3> QED BY <1>1, <2>5, <3>1, <3>2 DEF Kept, LostOK
    <2> QED BY <1>1, <1>4, <2>1, <2>2, <2>3, <2>4, <2>5 DEF GrantOK
  <1>5. pc'[q] \in Steps => GrantOK(q)'
    BY <1>1, <1>4 DEF Kept, GrantOK
  <1> QED BY <1>3, <1>5 DEF CallTime

(* The statements of a create or a refresh, as far as time is concerned. *)
LEMMA GrantStatement ==
  ASSUME TimeInv, NEW r \in Requests, Stating(r), call[r].op \in Granting,
         pc'[r] \in Steps
  PROVE  CallTime(r)'
  <1> USE DEF TimeInv, LedgerInv, DeviceInv, TypeInv, TypeOK
  <1>1. /\ Proceed(r) /\ pc[r] # "commit" /\ ~ \E outcome : Rollback(r, outcome)
        /\ UNCHANGED <<clock, policy, committed>>
    BY StatingCommitsNothing DEF Stating
  <1>2. pc[r] \in Steps => /\ CallOK(r) /\ call[r] \in Calls /\ GrantOK(r)
                           /\ call[r].at \in Nat /\ call[r].exp \in Nat
    BY DEF CallInv, CallOK, Calls, TimeOK, CallTime
  <1>3. HeldCapped(r) /\ Mine(r)
    BY DEF TimeOK, CallTime
  <1>4. Ttl \in Nat /\ \A cap \in Policies : cap \in Nat
    BY PolicyAssumption
  <1>5. CASE ReadContext(r)
    <2>1. /\ pc[r] = "context" /\ pc'[r] \in {"device", "observe"}
          /\ call' = [call EXCEPT ![r].cap = policy] /\ UNCHANGED <<rowLock, rowNext>>
      BY <1>1, <1>5 DEF ReadContext, Goto, locks
    <2>2. call'[r].at = call[r].at /\ call'[r].cap = policy
      BY <1>2, <2>1 DEF Calls, Steps
    <2>3. GrantOK(r)'
      BY <1>1, <1>2, <2>1, <2>2 DEF GrantOK, Steps
    <2>4. HeldCapped(r)'
      BY <1>3, <2>1 DEF HeldCapped, Capped
    <2> QED BY <2>3, <2>4 DEF CallTime
  <1>6. CASE Observe(r)
    <2>1. /\ pc[r] = "observe" /\ pc'[r] = "device"
          /\ call' = [call EXCEPT ![r].dev = sess[call[r].target].dev]
          /\ UNCHANGED <<rowLock, rowNext>>
      BY <1>1, <1>6 DEF Observe, Goto, locks
    <2>2. call'[r].at = call[r].at /\ call'[r].cap = call[r].cap
      BY <1>2, <2>1 DEF Calls, Steps
    <2>3. GrantOK(r)'
      BY <1>1, <1>2, <2>1, <2>2 DEF GrantOK, Steps
    <2>4. HeldCapped(r)'
      BY <1>3, <2>1 DEF HeldCapped, Capped
    <2> QED BY <2>3, <2>4 DEF CallTime
  <1>7. CASE LockDevice(r)
    <2>1. /\ pc[r] = "device" /\ pc'[r] \in {"expire", "row"}
          /\ UNCHANGED <<call, rowLock, rowNext>>
      BY <1>7 DEF LockDevice, Goto
    <2>2. GrantOK(r)'
      BY <1>1, <1>2, <2>1 DEF GrantOK, Steps
    <2>3. HeldCapped(r)'
      BY <1>3, <2>1 DEF HeldCapped, Capped
    <2> QED BY <2>2, <2>3 DEF CallTime
  <1>8. CASE ExpireStale(r)
    <2> DEFINE stale == StaleOn(r, call[r].dev)
               new == [s \in stale |-> [Seen(r, s) EXCEPT !.status = "EXPIRED"]]
    <2>1. PICK until \in ScheduleEnds :
            /\ pc[r] = "expire" /\ pc'[r] = "find"
            /\ call' = [call EXCEPT ![r].exp = Min2(call[r].at + Ttl, until)]
            /\ Hold(r, new)
      BY <1>8 DEF ExpireStale, Goto
    <2>2. /\ call'[r].at = call[r].at /\ call'[r].cap = call[r].cap
          /\ call'[r].exp = Min2(call[r].at + Ttl, until)
      BY <1>2, <2>1 DEF Calls, Steps
    <2>3. until \in Nat
      BY PolicyAssumption
    <2>4. call'[r].exp <= call[r].at + Ttl
      BY <1>2, <1>4, <2>1, <2>2, <2>3 DEF Min2, Steps
    <2>5. GrantOK(r)'
      BY <1>1, <1>2, <2>1, <2>2, <2>4 DEF GrantOK, Steps
    <2>6. ASSUME NEW s \in SessionIds, rowLock'[s] = r PROVE Capped(rowNext'[s])
      <3>1. \A q \in SessionIds : rowLock[q] # r
        BY <2>1, NothingHeld
      <3>2. s \in stale /\ rowNext'[s] = [sess[s] EXCEPT !.status = "EXPIRED"]
        BY <2>1, <2>6, <3>1 DEF Hold, StaleOn, ActiveOn, Seen
      <3>3. sess[s] # NoRow
        BY <3>1, <3>2 DEF StaleOn, ActiveOn, Seen, NoRow
      <3>4. Capped(sess[s]) /\ sess[s] \in Rows
        BY <3>3 DEF TimeOK, RowsCapped
      <3> QED BY <3>2, <3>4 DEF Capped, Rows
    <2> QED BY <2>5, <2>6 DEF CallTime, HeldCapped, Capped
  <1>9. CASE FindActive(r)
    <2>1. PICK s \in ActiveOn(r, call[r].dev) :
            /\ pc[r] = "find" /\ Seen(r, s).loc = call[r].loc
            /\ Choose(r, s, Seen(r, s).started + call[r].cap)
      BY <1>1, <1>9 DEF FindActive
    <2> DEFINE end == Seen(r, s).started + call[r].cap
    <2>2. /\ pc'[r] = "reuse" /\ UNCHANGED <<rowLock, rowNext>>
          /\ call'[r].target = s /\ call'[r].exp = Min2(call[r].exp, end)
          /\ call'[r].at = call[r].at /\ call'[r].cap = call[r].cap
          /\ call'[r].loc = call[r].loc
      BY <1>2, <2>1 DEF Choose, Goto, Calls, Steps, locks
    <2>3. rowLock[s] # r /\ s \in SessionIds
      BY <2>1 DEF ActiveOn, Seen, Mine, RowsOK, Inserted, Written
    <2>4. /\ sess[s] \in Rows /\ sess[s].status = "ACTIVE" /\ sess[s].loc = call[r].loc
          /\ end = sess[s].started + call[r].cap
      BY <2>1, <2>3 DEF ActiveOn, Seen, NoRow
    <2>5. call[r].cap \in Policies /\ call[r].exp <= call[r].at + Ttl
      BY <1>2, <2>1 DEF GrantOK, Steps
    <2>6. /\ call'[r].exp <= call[r].at + Ttl
          /\ call'[r].exp <= sess[s].started + call[r].cap
      BY <1>2, <1>4, <2>1, <2>2, <2>4, <2>5 DEF Min2, Rows, Steps
    <2>7. sess'[s] = sess[s]
      BY <1>1 DEF committed
    <2>8. ReuseOK(r)'
      BY <2>2, <2>4, <2>5, <2>6, <2>7 DEF ReuseOK
    <2>9. GrantOK(r)'
      BY <1>1, <1>2, <2>1, <2>2, <2>5, <2>6, <2>8 DEF GrantOK, Steps
    <2>10. HeldCapped(r)'
      BY <1>3, <2>2 DEF HeldCapped, Capped
    <2> QED BY <2>9, <2>10 DEF CallTime
  <1>10. CASE FindNone(r)
    <2>1. /\ pc[r] = "find" /\ pc'[r] = "insert" /\ UNCHANGED <<rowLock, rowNext>>
          /\ call' = [call EXCEPT ![r].exp = Min2(call[r].exp, call[r].at + call[r].cap)]
      BY <1>10 DEF FindNone, Goto, locks
    <2>2. /\ call'[r].at = call[r].at /\ call'[r].cap = call[r].cap
          /\ call'[r].exp = Min2(call[r].exp, call[r].at + call[r].cap)
      BY <1>2, <2>1 DEF Calls, Steps
    <2>3. /\ call[r].cap \in Policies /\ call[r].exp <= call[r].at + Ttl
      BY <1>2, <2>1 DEF GrantOK, Steps
    <2>4. /\ call'[r].exp <= call[r].at + Ttl
          /\ call'[r].exp <= call[r].at + call[r].cap
      BY <1>2, <1>4, <2>1, <2>2, <2>3 DEF Min2, Steps
    <2>5. GrantOK(r)'
      BY <1>1, <1>2, <2>1, <2>2, <2>3, <2>4 DEF GrantOK, Steps
    <2>6. HeldCapped(r)'
      BY <1>3, <2>1 DEF HeldCapped, Capped
    <2> QED BY <2>5, <2>6 DEF CallTime
  <1>11. CASE Reuse(r)
    <2> DEFINE t == call[r].target
               row == Seen(r, t)
               hit == {s \in {t} : row.status = "ACTIVE"}
    <2>1. /\ pc[r] = "reuse" /\ pc'[r] = "commit" /\ call' = call
          /\ Hold(r, [s \in hit |-> [row EXCEPT !.expires = call[r].exp]])
      BY <1>1, <1>11 DEF Reuse, Goto
    <2>2. \A s \in SessionIds : rowLock[s] # r
      BY <2>1, NothingHeld
    <2>3. /\ t \in SessionIds /\ ReuseOK(r) /\ row = sess[t] /\ call[r].op = "create"
      BY <1>2, <2>1, <2>2 DEF CallOK, GrantOK, Steps, Seen
    <2>4. sess[t] \in Rows
      BY <2>3 DEF ReuseOK, NoRow
    <2>5. CASE row.status = "ACTIVE"
      <3>1. /\ rowLock'[t] = r /\ rowNext'[t] = [sess[t] EXCEPT !.expires = call[r].exp]
            /\ \A s \in SessionIds : rowLock'[s] = r => s = t
        BY <2>1, <2>2, <2>3, <2>5 DEF Hold
      <3>2. WonOK(r)'
        BY <2>1, <2>3, <2>4, <2>5, <3>1 DEF WonOK, ReuseOK, Rows
      <3>3. Capped(rowNext'[t])
        BY <2>3, <2>4, <3>1 DEF Capped, ReuseOK, Rows
      <3>4. GrantOK(r)'
        BY <1>1, <1>2, <2>1, <3>2 DEF GrantOK, Steps
      <3> QED BY <3>1, <3>3, <3>4 DEF CallTime, HeldCapped, Capped
    <2>6. CASE row.status # "ACTIVE"
      <3>1. \A s \in SessionIds : rowLock'[s] # r
        BY <2>1, <2>2, <2>6 DEF Hold
      <3>2. LostOK(r)'
        BY <1>1, <2>1, <2>3, <2>6, <3>1 DEF LostOK, ReuseOK, committed
      <3>3. GrantOK(r)'
        BY <1>1, <1>2, <2>1, <3>2 DEF GrantOK, Steps
      <3> QED BY <3>1, <3>3 DEF CallTime, HeldCapped, Capped
    <2> QED BY <2>5, <2>6
  <1>12. CASE Insert(r)
    <2> DEFINE new == [status |-> "ACTIVE", dev |-> call[r].dev, loc |-> call[r].loc,
                       started |-> call[r].at, expires |-> call[r].exp]
    <2>1. /\ pc[r] = "insert" /\ pc'[r] = "commit"
          /\ call' = [call EXCEPT ![r].target = r]
          /\ Hold(r, [s \in {r} |-> new])
      BY <1>1, <1>12 DEF Insert, Goto
    <2>2. /\ call'[r].target = r /\ call'[r].at = call[r].at /\ call'[r].cap = call[r].cap
          /\ call'[r].loc = call[r].loc /\ call'[r].exp = call[r].exp /\ r \in SessionIds
      BY <1>2, <2>1 DEF Calls, Steps, SessionIds
    <2>3. rowLock'[r] = r /\ rowNext'[r] = new
      BY <2>1, <2>2 DEF Hold
    <2>4. WonOK(r)'
      BY <2>2, <2>3 DEF WonOK
    <2>5. GrantOK(r)'
      BY <1>1, <1>2, <2>1, <2>2, <2>4 DEF GrantOK, Steps
    <2>6. Capped(new)
      BY <1>2, <2>1 DEF Capped, GrantOK, Steps
    <2>7. \A s \in SessionIds \ {r} : rowLock'[s] = rowLock[s] /\ rowNext'[s] = rowNext[s]
      BY <2>1 DEF Hold
    <2>8. HeldCapped(r)'
      BY <1>3, <2>3, <2>6, <2>7 DEF HeldCapped, Capped
    <2> QED BY <2>5, <2>8 DEF CallTime
  <1>13. CASE LockSession(r)
    <2> DEFINE t == call[r].target
    <2>1. /\ pc[r] = "row" /\ pc'[r] = "write" /\ call' = call
          /\ sess[t].status = "ACTIVE" /\ Hold(r, [s \in {t} |-> sess[t]])
      BY <1>1, <1>13 DEF LockSession, Goto
    <2>2. GrantOK(r)'
      BY <1>1, <1>2, <2>1 DEF GrantOK, Steps
    <2>3. \A s \in SessionIds : rowLock[s] # r
      BY <2>1, NothingHeld
    <2>4. \A s \in SessionIds : rowLock'[s] = r => s = t /\ rowNext'[s] = sess[t]
      BY <2>1, <2>3 DEF Hold
    <2>5. t \in SessionIds => Capped(sess[t])
      BY <2>1 DEF TimeOK, RowsCapped, NoRow
    <2> QED BY <2>2, <2>4, <2>5 DEF CallTime, HeldCapped, Capped
  <1>14. CASE WriteRefresh(r)
    <2> DEFINE t == call[r].target
               row == rowNext[t]
               end(until) == Min2(Min2(call[r].at + Ttl, until), row.started + call[r].cap)
               new(until) == [row EXCEPT !.loc = call[r].loc, !.expires = end(until)]
    <2>1. PICK until \in ScheduleEnds :
            /\ pc[r] = "write" /\ pc'[r] = "commit" /\ row.status = "ACTIVE"
            /\ call' = [call EXCEPT ![r].exp = end(until)]
            /\ Hold(r, [s \in {t} |-> new(until)])
      BY <1>1, <1>14 DEF WriteRefresh, Goto
    <2>2. /\ t \in SessionIds /\ rowLock[t] = r /\ row \in Rows
      BY <1>2, <1>3, <2>1 DEF CallOK, Mine, TargetOK, RowsOK, Steps
    <2>3. until \in Nat /\ call[r].cap \in Policies
      BY <1>2, <2>1, PolicyAssumption DEF GrantOK, Steps
    <2>4. end(until) <= call[r].at + Ttl /\ end(until) <= row.started + call[r].cap
      BY <1>2, <1>4, <2>1, <2>2, <2>3 DEF Min2, Rows, Steps
    <2> HIDE DEF end
    <2>5. /\ call'[r].target = t /\ call'[r].at = call[r].at /\ call'[r].cap = call[r].cap
          /\ call'[r].loc = call[r].loc /\ call'[r].exp = end(until)
      BY <1>2, <2>1 DEF Calls, Steps
    <2>6. /\ new(until).status = "ACTIVE" /\ new(until).loc = call[r].loc
          /\ new(until).expires = end(until) /\ new(until).started = row.started
      BY <2>1, <2>2 DEF Rows
    <2>7. rowLock'[t] = r /\ rowNext'[t] = new(until)
      BY <2>1, <2>2 DEF Hold
    <2>8. \A s \in SessionIds \ {t} : rowLock'[s] = rowLock[s] /\ rowNext'[s] = rowNext[s]
      BY <2>1 DEF Hold
    <2> HIDE DEF new
    <2>9. WonOK(r)'
      BY <2>5, <2>6, <2>7 DEF WonOK
    <2>10. GrantOK(r)'
      BY <1>1, <1>2, <2>1, <2>3, <2>4, <2>5, <2>9 DEF GrantOK, Steps
    <2>11. Capped(new(until))
      BY <2>3, <2>4, <2>6 DEF Capped
    <2>12. HeldCapped(r)'
      BY <1>3, <2>7, <2>8, <2>11 DEF HeldCapped, Capped
    <2> QED BY <2>10, <2>12 DEF CallTime
  <1>15. ~ Deny(r)
    BY <1>1 DEF Deny
  <1>16. pc[r] \notin {"read", "unban", "user", "scan", "rows", "ban"}
    BY <1>2 DEF CallOK, Steps, Granting
  <1>17. ~ RevokeRow(r)
    BY DEF RevokeRow, Granting
  <1> QED
    BY <1>1, <1>5, <1>6, <1>7, <1>8, <1>9, <1>10, <1>11, <1>12, <1>13, <1>14, <1>15, <1>16,
       <1>17
    DEF Proceed, CommitGrant, CommitRevoke, CommitActivation, CommitDeactivation, ReadStatus,
        Unban, UpdateUser, ScanSessions, CloseRow, Ban

(* A revoke or a change of status takes rows as they are, and closes them. *)
LEMMA ClosingStatement ==
  ASSUME TimeInv, NEW r \in Requests, Stating(r), call[r].op \notin Granting
  PROVE  CallTime(r)'
  <1> USE DEF TimeInv, LedgerInv, DeviceInv, TypeInv, TypeOK
  <1>1. /\ Proceed(r) /\ pc[r] # "commit" /\ ~ \E outcome : Rollback(r, outcome)
        /\ UNCHANGED <<clock, policy, committed>>
    BY StatingCommitsNothing DEF Stating
  <1>2. pc[r] \in Steps => CallOK(r) /\ call[r] \in Calls
    BY DEF CallInv, CallOK
  <1>3. HeldCapped(r) /\ RowsCapped
    BY DEF TimeOK, CallTime
  <1>4. ASSUME NEW s \in SessionIds, sess[s].status = "ACTIVE"
        PROVE  Capped([sess[s] EXCEPT !.status = "REVOKED"])
    <2>1. sess[s] \in Rows /\ Capped(sess[s])
      BY <1>3, <1>4 DEF RowsCapped, NoRow
    <2> QED BY <2>1 DEF Capped, Rows
  <1>5. CASE ReadStatus(r) \/ Unban(r) \/ UpdateUser(r) \/ ScanSessions(r) \/ Ban(r)
    <2>1. UNCHANGED <<rowLock, rowNext>> /\ call'[r].op \notin Granting
      <3>1. pc[r] \in {"read", "unban", "user", "scan", "ban"}
        BY <1>5 DEF ReadStatus, Unban, UpdateUser, ScanSessions, Ban
      <3> QED
        BY <1>1, <1>2, <1>5, <3>1
        DEF ReadStatus, Unban, UpdateUser, ScanSessions, Ban, End, NoCall, locks, Calls,
            Granting, Steps
    <2> QED BY <1>3, <2>1 DEF CallTime, HeldCapped, Capped, GrantOK
  <1>6. CASE RevokeRow(r)
    <2> DEFINE t == call[r].target
    <2>1. /\ pc[r] = "row" /\ call' = call /\ sess[t].status = "ACTIVE"
          /\ Hold(r, [s \in {t} |-> [sess[t] EXCEPT !.status = "REVOKED"]])
      BY <1>1, <1>6 DEF RevokeRow
    <2>2. \A s \in SessionIds : rowLock[s] # r
      BY <2>1, NothingHeld
    <2>3. \A s \in SessionIds : rowLock'[s] = r =>
             s = t /\ rowNext'[s] = [sess[t] EXCEPT !.status = "REVOKED"]
      BY <2>1, <2>2 DEF Hold
    <2>4. t \in SessionIds => Capped([sess[t] EXCEPT !.status = "REVOKED"])
      BY <1>4, <2>1
    <2> QED BY <2>1, <2>3, <2>4 DEF CallTime, HeldCapped, Capped, GrantOK
  <1>7. CASE \E s \in SessionIds : CloseRow(r, s)
    <2>0. PICK s \in SessionIds : CloseRow(r, s)
      BY <1>7
    <2>1. PICK todo :
            /\ pc[r] = "rows" /\ call' = [call EXCEPT ![r].todo = todo]
            /\ Hold(r, [q \in {p \in {s} : sess[p].status = "ACTIVE"} |->
                          [sess[q] EXCEPT !.status = "REVOKED"]])
      BY <2>0 DEF CloseRow
    <2>2. call'[r].op = call[r].op
      BY <1>2, <2>1 DEF Calls, Steps
    <2>3. ASSUME NEW q \in SessionIds, rowLock'[q] = r PROVE Capped(rowNext'[q])
      <3>1. CASE q = s /\ sess[q].status = "ACTIVE"
        <4>1. rowNext'[q] = [sess[q] EXCEPT !.status = "REVOKED"]
          BY <2>1, <3>1 DEF Hold
        <4> QED BY <1>4, <3>1, <4>1
      <3>2. CASE ~ (q = s /\ sess[q].status = "ACTIVE")
        <4>1. rowLock'[q] = rowLock[q] /\ rowNext'[q] = rowNext[q]
          BY <2>1, <3>2 DEF Hold
        <4> QED BY <1>3, <2>3, <4>1 DEF HeldCapped
      <3> QED BY <3>1, <3>2
    <2> QED BY <2>2, <2>3 DEF CallTime, HeldCapped, Capped, GrantOK
  <1>8. pc[r] \notin {"context", "observe", "device", "expire", "find", "reuse", "insert",
                     "write"} /\ ~ LockSession(r)
    BY <1>2 DEF CallOK, Steps, Granting, LockSession
  <1> QED
    BY <1>1, <1>5, <1>6, <1>7, <1>8
    DEF Proceed, ReadContext, Observe, LockDevice, Deny, ExpireStale, FindActive, FindNone,
        Reuse, Insert, WriteRefresh, CommitGrant, CommitRevoke, CommitActivation,
        CommitDeactivation

LEMMA OwnTime ==
  ASSUME TimeInv, NEW r \in Requests, CallStep(r)
  PROVE  CallTime(r)'
  <1> USE DEF TimeInv, LedgerInv, DeviceInv, TypeInv, TypeOK
  <1>1. CASE Arrive(r)
    <2>1. /\ pc[r] = "idle" /\ UNCHANGED <<rowLock, rowNext>>
          /\ call'[r].at = clock /\ clock' = clock
          /\ call'[r].op \in Granting => pc'[r] = "context"
      BY <1>1
      DEF Arrive, BeginCreate, BeginRefresh, BeginRevoke, BeginStatus, Begin, Goto, locks,
          ambient, Granting
    <2>2. \A s \in SessionIds : rowLock[s] # r
      BY <2>1 DEF Mine, RowsOK, Inserted, Written
    <2> QED BY <2>1, <2>2 DEF CallTime, HeldCapped, GrantOK
  <1>2. CASE \E outcome : Rollback(r, outcome)
    <2>1. /\ \A s \in SessionIds : rowLock'[s] # r
          /\ call'[r].op \notin Granting
      BY <1>2, SetsAssumption DEF Rollback, ReleaseLocks, End, NoCall, Granting
    <2> QED BY <2>1 DEF CallTime, HeldCapped, GrantOK
  <1>3. CASE Committing(r)
    <2>1. \A s \in SessionIds : rowLock'[s] # r
      BY <1>3, SetsAssumption DEF Committing, Publish, ReleaseLocks
    <2>2. call'[r].op \notin Granting
      BY <1>3
      DEF Committing, CommitGrant, CommitRevoke, CommitActivation, CommitDeactivation, End,
          NoCall, Granting
    <2> QED BY <2>1, <2>2 DEF CallTime, HeldCapped, GrantOK
  <1>4. CASE Stating(r)
    <2>1. call[r].op \in Granting => pc'[r] \in Steps
      <3>1. Proceed(r) /\ pc[r] # "commit" /\ ~ \E outcome : Rollback(r, outcome)
        BY <1>4 DEF Stating
      <3>2. pc[r] \in {"read", "unban", "user", "scan", "rows", "ban"} =>
              call[r].op \notin Granting
        BY DEF CallInv, CallOK, Granting, Steps
      <3> QED
        BY <3>1, <3>2
        DEF Proceed, ReadContext, Observe, LockDevice, Deny, ExpireStale, FindActive, FindNone,
            Choose, Reuse, Insert, LockSession, WriteRefresh, RevokeRow, CommitGrant,
            CommitRevoke, CommitActivation, CommitDeactivation, ReadStatus, Unban, UpdateUser,
            ScanSessions, CloseRow, Ban, Goto, Steps
    <2> QED BY <1>4, <2>1, GrantStatement, ClosingStatement
  <1> QED BY <1>1, <1>2, <1>3, <1>4, StepKinds

(* The row a token is issued for, at the commit that issues it. *)
LEMMA GrantedRow ==
  ASSUME TimeInv, NEW r \in Requests, CommitGrant(r)
  PROVE  LET s == call[r].target
             row == sess'[s]
         IN /\ s \in SessionIds /\ row # NoRow
            /\ call[r].exp <= clock + Ttl
            /\ row.status # "ACTIVE" => call[r].exp <= closedAt'[s] + Ttl
            /\ \E most \in Policies : call[r].exp <= row.started + most
            /\ \/ /\ row.status = "ACTIVE" /\ row.loc = call[r].loc
                  /\ row.expires = call[r].exp
               \/ row.status = "REVOKED" /\ call[r].op = "create"
  <1> DEFINE s == call[r].target
  <1> USE DEF TimeInv, LedgerInv, DeviceInv, TypeInv, TypeOK
  <1>1. pc[r] = "commit" /\ call[r].op \in Granting /\ Publish(r)
    BY ZenonT(30) DEF CommitGrant, Granting
  <1>2. /\ CallOK(r) /\ GrantOK(r) /\ HeldCapped(r) /\ s \in SessionIds
        /\ call[r].at \in Nat /\ call[r].exp \in Nat
    BY <1>1 DEF CallInv, CallOK, TimeOK, CallTime, Steps, Calls
  <1>3. call[r].at <= clock /\ call[r].exp <= call[r].at + Ttl /\ Ttl \in Nat
    BY <1>1, <1>2, PolicyAssumption DEF GrantOK
  <1>4. call[r].exp <= clock + Ttl
    BY <1>2, <1>3
  <1>5. CASE WonOK(r)
    <2>1. sess'[s] = rowNext[s] /\ rowNext[s] \in Rows /\ Capped(rowNext[s])
      BY <1>1, <1>2, <1>5 DEF WonOK, Publish, Seen, Mine, RowsOK, HeldCapped
    <2> QED BY <1>2, <1>4, <1>5, <2>1 DEF WonOK, Capped, NoRow
  <1>6. CASE LostOK(r)
    <2>1. sess'[s] = sess[s] /\ closedAt'[s] = closedAt[s] /\ closedAt[s] \in Nat
      BY <1>1, <1>2, <1>6 DEF LostOK, Publish, Seen
    <2>2. call[r].exp <= closedAt[s] + Ttl
      BY <1>2, <1>3, <1>6, <2>1 DEF LostOK
    <2> QED BY <1>2, <1>4, <1>6, <2>1, <2>2 DEF LostOK, NoRow
  <1> QED BY <1>1, <1>2, <1>5, <1>6 DEF GrantOK

LEMMA OnlyGrants ==
  ASSUME NEW r \in Requests, CallStep(r), tokens' # tokens
  PROVE  CommitGrant(r)
  <1>1. Committing(r)
    BY OnlyCommits DEF committed
  <1> QED BY <1>1 DEF Committing, CommitRevoke, CommitActivation, CommitDeactivation

LEMMA TokensStayOK ==
  ASSUME TimeInv, NEW r \in Requests, CallStep(r), NEW t \in tokens
  PROVE  TokenOK(t)'
  <1> USE DEF TimeInv, LedgerInv, DeviceInv, TypeInv, TypeOK
  <1> DEFINE s == t.sess
  <1>1. TokenOK(t) /\ s \in SessionIds /\ clock' = clock
    BY CallsTakeNoTime DEF TimeOK, Tokens
  <1>2. sess'[s] # NoRow /\ sess'[s].started = sess[s].started
    BY <1>1, RowsStay DEF TokenOK
  <1>3. ASSUME sess'[s].status # "ACTIVE" PROVE t.exp <= closedAt'[s] + Ttl
    <2>1. CASE sess[s].status = "ACTIVE"
      <3>1. closedAt'[s] = clock
        BY <1>1, <1>3, <2>1, ClosedNow
      <3> QED BY <1>1, <3>1 DEF TokenOK
    <2>2. CASE sess[s].status # "ACTIVE"
      <3>1. closedAt'[s] = closedAt[s]
        BY <1>1, <2>2, ClosedRowKept DEF TokenOK
      <3> QED BY <1>1, <2>2, <3>1 DEF TokenOK
    <2> QED BY <2>1, <2>2
  <1> QED BY <1>1, <1>2, <1>3 DEF TokenOK

LEMMA CallStepTime ==
  ASSUME TimeInv, NEW r \in Requests, CallStep(r)
  PROVE  TimeOK'
  <1> USE DEF TimeInv, LedgerInv, DeviceInv, TypeInv, TypeOK
  <1>1. ASSUME NEW q \in Requests PROVE CallTime(q)'
    BY OwnTime, OthersTime
  <1>2. RowsCapped'
    <2> SUFFICES ASSUME NEW s \in SessionIds, sess'[s] # NoRow PROVE Capped(sess'[s])
      BY DEF RowsCapped, Capped
    <2>1. CASE sess'[s] = sess[s]
      BY <2>1 DEF TimeOK, RowsCapped
    <2>2. CASE sess'[s] # sess[s]
      <3>1. Committing(r) /\ rowLock[s] = r
        BY <2>2, OnlyCommits, OnlyHeldChange DEF committed
      <3>2. sess'[s] = rowNext[s]
        BY <3>1 DEF Committing, Publish, Seen
      <3> QED BY <3>1, <3>2 DEF TimeOK, CallTime, HeldCapped
    <2> QED BY <2>1, <2>2
  <1>3. ASSUME NEW t \in tokens', t \notin tokens PROVE TokenOK(t)'
    <2>1. CommitGrant(r)
      BY <1>3, OnlyGrants
    <2>2. t = [req |-> r, sess |-> call[r].target, loc |-> call[r].loc, exp |-> call[r].exp]
      BY <1>3, <2>1 DEF CommitGrant
    <2>3. clock' = clock
      BY CallsTakeNoTime
    <2> QED BY <2>1, <2>2, <2>3, GrantedRow DEF TokenOK
  <1>4. \A t \in tokens' : TokenOK(t)'
    BY <1>3, TokensStayOK
  <1> QED BY <1>1, <1>2, <1>4 DEF TimeOK

LEMMA NextTimeInv == TimeInv /\ [Next]_vars => TimeInv'
  <1> SUFFICES ASSUME TimeInv, [Next]_vars PROVE TimeInv'
    OBVIOUS
  <1>1. LedgerInv'
    BY LedgerStep DEF TimeInv
  <1>2. CASE UNCHANGED vars \/ Tick \/ ChangePolicy
    <2> USE DEF TimeInv, LedgerInv, DeviceInv, TypeInv, TypeOK
    <2>1. /\ UNCHANGED <<sess, closedAt, tokens, rowLock, rowNext, pc, call>>
          /\ clock' \in {clock, clock + 1} /\ clock \in Nat
      BY <1>2 DEF vars, Tick, ChangePolicy, committed, locks
    <2>2. ASSUME NEW r \in Requests PROVE CallTime(r)'
      <3>1. HeldCapped(r)'
        BY <2>1 DEF TimeOK, CallTime, HeldCapped, Capped
      <3>2. ASSUME pc[r] \in Steps, call[r].op \in Granting PROVE call[r].at <= clock'
        BY <2>1, <3>2 DEF TimeOK, CallTime, GrantOK, CallInv, CallOK, Calls
      <3>3. pc[r] \in Steps => GrantOK(r)'
        BY <2>1, <3>2 DEF TimeOK, CallTime, GrantOK, ReuseOK, WonOK, LostOK
      <3> QED BY <2>1, <3>1, <3>3 DEF CallTime
    <2>3. RowsCapped'
      BY <2>1 DEF TimeOK, RowsCapped, Capped
    <2>4. ASSUME NEW t \in tokens PROVE TokenOK(t)'
      <3>1. t.exp \in Nat /\ Ttl \in Nat /\ TokenOK(t)
        BY PolicyAssumption DEF TimeOK, Tokens
      <3>2. t.exp <= clock' + Ttl
        BY <2>1, <3>1 DEF TokenOK
      <3> QED BY <2>1, <3>1, <3>2 DEF TokenOK
    <2> QED BY <1>1, <2>1, <2>2, <2>3, <2>4 DEF TimeOK
  <1>3. ASSUME NEW r \in Requests, CallStep(r) PROVE TimeInv'
    BY <1>1, <1>3, CallStepTime DEF TimeInv
  <1> QED BY <1>2, <1>3 DEF Next, Finished, CallStep

LEMMA TimeInvariant == Spec => []TimeInv
  BY InitTimeInv, NextTimeInv, PTL DEF Spec

(* SEC-033: a token is worthless one TTL after its session was closed,     *)
(* whichever call in flight issued it and however late: its expiry counts  *)
(* from the "now" its call began with, and a session it found ACTIVE was   *)
(* not closed before that.                                                 *)
THEOREM RevocationWindowHolds == Spec => []RevocationWindow
  <1>1. TimeInv => RevocationWindow
    BY DEF TimeInv, TimeOK, TokenOK, RevocationWindow
  <1> QED BY <1>1, TimeInvariant, PTL

(* Neither a reuse nor a refresh takes a session or a token of it beyond   *)
(* the longest session_max_duration since the start of the session.        *)
THEOREM DurationCapHolds == Spec => []DurationCap
  <1>1. TimeInv => DurationCap
    BY DEF TimeInv, TimeOK, RowsCapped, Capped, TokenOK, DurationCap
  <1> QED BY <1>1, TimeInvariant, PTL

(* A token says what the committed row of its session says, or a           *)
(* revocation came between a create's look at the session and its UPDATE.  *)
THEOREM IssueMatchesRowHolds == Spec => IssueMatchesRow
  <1>1. TimeInv /\ [Next]_vars =>
          [\A t \in tokens' \ tokens :
             LET row == sess'[t.sess] IN
             \/ row.status = "ACTIVE" /\ row.loc = t.loc /\ row.expires = t.exp
             \/ row.status = "REVOKED" /\ call[t.req].op = "create"]_vars
    <2> SUFFICES ASSUME TimeInv, [Next]_vars, NEW t \in tokens', t \notin tokens
                 PROVE  LET row == sess'[t.sess] IN
                        \/ row.status = "ACTIVE" /\ row.loc = t.loc /\ row.expires = t.exp
                        \/ row.status = "REVOKED" /\ call[t.req].op = "create"
      OBVIOUS
    <2>1. PICK r \in Requests : CallStep(r)
      BY DEF Next, Finished, CallStep, Tick, ChangePolicy, vars, committed
    <2>2. CommitGrant(r)
      BY <2>1, OnlyGrants
    <2>3. t = [req |-> r, sess |-> call[r].target, loc |-> call[r].loc, exp |-> call[r].exp]
      BY <2>2 DEF CommitGrant
    <2> QED BY <2>2, <2>3, GrantedRow
  <1> QED BY <1>1, TimeInvariant, PTL DEF Spec, IssueMatchesRow
==============================================================================
