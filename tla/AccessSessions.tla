---------------------------- MODULE AccessSessions ----------------------------
(***************************************************************************)
(* USER access sessions under concurrent requests: create-or-reuse,        *)
(* refresh, revoke, and the administrator's change of a USER's status.     *)
(*                                                                         *)
(* Each request is a process that runs one call.  One action is one SQL    *)
(* statement (or one call to Clerk), so requests interleave between        *)
(* statements exactly where PostgreSQL lets them: READ COMMITTED, the      *)
(* default isolation db/session.py leaves in place.  A statement sees the  *)
(* committed rows and its own transaction's writes; FOR UPDATE and UPDATE  *)
(* wait for the row lock and then look at the row again.  A row that a     *)
(* transaction has written is its row lock plus the version in rowNext,    *)
(* published by Commit and forgotten by Rollback.                          *)
(***************************************************************************)
EXTENDS Integers, FiniteSets

CONSTANTS
  Requests,      \* the calls, one process each
  Seeds,         \* ids of sessions that may exist before the calls start
  Users,         \* security.users
  Devices,       \* ACTIVE rows of security.registered_devices
  Locations,     \* the locations a geo sample can match
  Owner,         \* Devices -> Users: registered_devices.user_id
  Ops,           \* which of the four operations the calls may be
  Goals,         \* the statuses an administrator may ask for
  Ttl,           \* min(access_token_ttl, geo_revalidation_interval)
  Policies,      \* values session_max_duration may be configured to
  ScheduleEnds,  \* when the matched schedule or override may end
  MaxClock,      \* bound on the clock
  None           \* no holder, no device, no session

AllOps == {"create", "refresh", "revoke", "status"}
UserStatuses == {"PENDING", "INVITED", "ACTIVE", "SUSPENDED", "DISABLED", "EXITED"}
GoalStatuses == {"ACTIVE", "SUSPENDED", "DISABLED", "EXITED"}

ASSUME SetsAssumption ==
  /\ Seeds \cap Requests = {}
  /\ None \notin Requests \cup Seeds \cup Users \cup Devices \cup Locations
ASSUME OwnerAssumption == Owner \in [Devices -> Users]
ASSUME InputAssumption == Ops \subseteq AllOps /\ Goals \subseteq GoalStatuses
ASSUME PolicyAssumption ==   \* the CHECKs "> 0" on security.tenant_security_policies
  /\ Ttl \in Nat \ {0}
  /\ Policies \subseteq Nat \ {0}
  /\ Policies # {}
  /\ ScheduleEnds \subseteq Nat
  /\ MaxClock \in Nat

(* A request that inserts a session uses its own name as the new id. *)
SessionIds == Requests \cup Seeds

VARIABLES
  clock,     \* wall-clock time
  policy,    \* the tenant's session_max_duration
  usr,       \* committed users.status
  usrLock,   \* holder of each users row; the row it wrote has its goal status
  banned,    \* Clerk's banned flag of the USER's identity
  devLock,   \* holder of each registered_devices row
  sess,      \* committed rows of access_sessions
  rowLock,   \* holder of each access_sessions row
  rowNext,   \* the holder's uncommitted version of the row
  closedAt,  \* history: when the row's closing was committed
  tokens,    \* access tokens handed to clients
  pc,        \* the next statement of each request, or its outcome
  call       \* arguments and local variables of the call a request runs

locks == <<usrLock, devLock, rowLock, rowNext>>
committed == <<usr, sess, closedAt, tokens>>
ambient == <<clock, policy, banned>>
vars == <<clock, policy, banned, usr, sess, closedAt, tokens,
          usrLock, devLock, rowLock, rowNext, pc, call>>

NoRow == [status |-> "NONE"]
Rows == [status : {"ACTIVE", "EXPIRED", "REVOKED"}, dev : Devices,
         loc : Locations, started : Nat, expires : Nat]
Calls == [op : AllOps,
          user : Users,
          loc : Locations \cup {None},        \* the location its geo sample matches
          goal : GoalStatuses \cup {None},    \* the status it asks for
          at : Nat,                           \* "now", read when the call starts
          cap : Policies \cup {0},            \* session_max_duration as it read it
          dev : Devices \cup {None},          \* the device it works on
          target : SessionIds \cup {None},    \* the session it works on
          exp : Nat,                          \* the expiry computed so far
          todo : SUBSET SessionIds]           \* rows its UPDATE has still to visit
NoCall == [op |-> "none"]
Tokens == [req : Requests, sess : SessionIds, loc : Locations, exp : Nat]

Outcomes == {"ok", "denied", "failed", "duplicate"}
Steps == {"context", "observe", "device", "expire", "find", "reuse", "insert",
          "row", "write", "read", "unban", "user", "scan", "rows", "commit", "ban"}

Min2(a, b) == IF a <= b THEN a ELSE b

-----------------------------------------------------------------------------
(* What a statement of request r sees of row s: its own version, if any. *)
Seen(r, s) == IF rowLock[s] = r THEN rowNext[s] ELSE sess[s]

(* Mutant of ActiveOn: the status is not looked at. *)
AnyOn(r, d) ==
  {s \in SessionIds : Seen(r, s) # NoRow /\ Seen(r, s).dev = d}

ActiveOn(r, d) ==
  {s \in SessionIds : Seen(r, s).status = "ACTIVE" /\ Seen(r, s).dev = d}

Free(r, s) == rowLock[s] \in {None, r}

(* Rows of device d that the unique index uq_active_user_device_session    *)
(* holds against an INSERT by r: committed ACTIVE ones, and those another  *)
(* transaction has written and not yet committed.                          *)
Rivals(r, d) ==
  ActiveOn(r, d) \cup
    {s \in SessionIds : /\ ~Free(r, s)
                        /\ rowNext[s].status = "ACTIVE"
                        /\ rowNext[s].dev = d}

(* r takes the row locks of the domain of new and writes those versions. *)
Hold(r, new) ==
  /\ rowLock' = [s \in SessionIds |-> IF s \in DOMAIN new THEN r ELSE rowLock[s]]
  /\ rowNext' = [s \in SessionIds |-> IF s \in DOMAIN new THEN new[s] ELSE rowNext[s]]

(* Mutant of ReleaseLocks: the device stays locked. *)
KeepDevice(r) ==
  /\ usrLock' = [u \in Users |-> IF usrLock[u] = r THEN None ELSE usrLock[u]]
  /\ devLock' = devLock
  /\ rowLock' = [s \in SessionIds |-> IF rowLock[s] = r THEN None ELSE rowLock[s]]
  /\ rowNext' = [s \in SessionIds |-> IF rowLock[s] = r THEN NoRow ELSE rowNext[s]]

ReleaseLocks(r) ==
  /\ usrLock' = [u \in Users |-> IF usrLock[u] = r THEN None ELSE usrLock[u]]
  /\ devLock' = [d \in Devices |-> IF devLock[d] = r THEN None ELSE devLock[d]]
  /\ rowLock' = [s \in SessionIds |-> IF rowLock[s] = r THEN None ELSE rowLock[s]]
  /\ rowNext' = [s \in SessionIds |-> IF rowLock[s] = r THEN NoRow ELSE rowNext[s]]

Goto(r, label) == pc' = [pc EXCEPT ![r] = label]

(* The call returns or raises; its local variables are gone. *)
End(r, outcome) ==
  /\ Goto(r, outcome)
  /\ call' = [call EXCEPT ![r] = NoCall]

(* except Exception: rollback(); raise *)
Rollback(r, outcome) ==
  /\ End(r, outcome)
  /\ ReleaseLocks(r)
  /\ UNCHANGED <<ambient, committed>>

Publish(r) ==
  /\ sess' = [s \in SessionIds |-> Seen(r, s)]
  /\ closedAt' = [s \in SessionIds |->
                    IF sess[s].status = "ACTIVE" /\ Seen(r, s).status # "ACTIVE"
                    THEN clock ELSE closedAt[s]]
  /\ usr' = [u \in Users |-> IF usrLock[u] = r THEN call[r].goal ELSE usr[u]]
  /\ ReleaseLocks(r)

-----------------------------------------------------------------------------
SeedRow(d, l, until) ==
  [status |-> "ACTIVE", dev |-> d, loc |-> l, started |-> 0,
   expires |-> Min2(Min2(Ttl, until), policy)]

Init ==
  /\ clock = 0
  /\ policy \in Policies
  /\ usr \in [Users -> {"PENDING", "ACTIVE"}]
  /\ banned = [u \in Users |-> usr[u] = "PENDING"]
  /\ sess \in [SessionIds ->
                 {NoRow} \cup {SeedRow(d, l, until) :
                    d \in Devices, l \in Locations, until \in ScheduleEnds \ {0}}]
  /\ \A r \in Requests : sess[r] = NoRow
  /\ \A s, q \in Seeds :
       /\ sess[s] # NoRow => usr[Owner[sess[s].dev]] = "ACTIVE"
       /\ sess[s] # NoRow /\ sess[q] # NoRow /\ sess[s].dev = sess[q].dev => s = q
  /\ usrLock = [u \in Users |-> None]
  /\ devLock = [d \in Devices |-> None]
  /\ rowLock = [s \in SessionIds |-> None]
  /\ rowNext = [s \in SessionIds |-> NoRow]
  /\ closedAt = [s \in SessionIds |-> 0]
  /\ tokens = {}
  /\ pc = [r \in Requests |-> "idle"]
  /\ call = [r \in Requests |-> NoCall]

-----------------------------------------------------------------------------
(* The call arrives: "now" is taken here, before the network-risk call and *)
(* before any lock is waited for.                                          *)
Begin(r, first, op, u, l, g, d, s) ==
  /\ pc[r] = "idle"
  /\ call' = [call EXCEPT ![r] =
       [op |-> op, user |-> u, loc |-> l, goal |-> g, at |-> clock, cap |-> 0,
        dev |-> d, target |-> s, exp |-> 0, todo |-> {}]]
  /\ Goto(r, first)
  /\ UNCHANGED <<ambient, committed, locks>>

BeginCreate(r) ==
  /\ "create" \in Ops
  /\ \E d \in Devices, l \in Locations :
       Begin(r, "context", "create", Owner[d], l, None, d, None)

(* A client refreshes or revokes a session whose id it has been given. *)
BeginRefresh(r) ==
  /\ "refresh" \in Ops
  /\ \E s \in SessionIds, l \in Locations :
       /\ sess[s] # NoRow
       /\ Begin(r, "context", "refresh", Owner[sess[s].dev], l, None, None, s)

BeginRevoke(r) ==
  /\ "revoke" \in Ops
  /\ \E s \in SessionIds :
       /\ sess[s] # NoRow
       /\ Begin(r, "row", "revoke", Owner[sess[s].dev], None, None, None, s)

BeginStatus(r) ==
  /\ "status" \in Ops
  /\ \E u \in Users, g \in Goals : Begin(r, "read", "status", u, None, g, None, None)

-----------------------------------------------------------------------------
(* create and refresh: the USER must be ACTIVE; the policy is read once. *)
ReadContext(r) ==
  /\ pc[r] = "context"
  /\ IF usr[call[r].user] = "ACTIVE"
     THEN /\ call' = [call EXCEPT ![r].cap = policy]
          /\ Goto(r, IF call[r].op = "create" THEN "device" ELSE "observe")
          /\ UNCHANGED <<ambient, committed, locks>>
     ELSE Rollback(r, "denied")

(* Mutant of Observe: the session is locked as soon as it is looked at. *)
ObserveForUpdate(r) ==
  /\ pc[r] = "observe"
  /\ Free(r, call[r].target)
  /\ LET row == sess[call[r].target] IN
     IF row.status = "ACTIVE"
     THEN /\ call' = [call EXCEPT ![r].dev = row.dev]
          /\ Hold(r, [s \in {call[r].target} |-> row])
          /\ Goto(r, "device")
          /\ UNCHANGED <<ambient, committed, usrLock, devLock>>
     ELSE Rollback(r, "denied")

(* refresh looks at the session without locking it, to learn its device. *)
Observe(r) ==
  /\ pc[r] = "observe"
  /\ LET row == sess[call[r].target] IN
     IF row.status = "ACTIVE"
     THEN /\ call' = [call EXCEPT ![r].dev = row.dev]
          /\ Goto(r, "device")
          /\ UNCHANGED <<ambient, committed, locks>>
     ELSE Rollback(r, "denied")

(* Mutant of LockDevice: a plain SELECT takes no turn. *)
ReadDevice(r) ==
  /\ pc[r] = "device"
  /\ Goto(r, IF call[r].op = "create" THEN "expire" ELSE "row")
  /\ UNCHANGED <<ambient, committed, locks, call>>

(* SELECT ... FROM registered_devices ... FOR UPDATE *)
LockDevice(r) ==
  /\ pc[r] = "device"
  /\ devLock[call[r].dev] = None
  /\ devLock' = [devLock EXCEPT ![call[r].dev] = r]
  /\ Goto(r, IF call[r].op = "create" THEN "expire" ELSE "row")
  /\ UNCHANGED <<ambient, committed, usrLock, rowLock, rowNext, call>>

(* The geo, location, schedule, VPN or permission checks refuse. *)
Deny(r) ==
  /\ pc[r] \in {"expire", "write"}
  /\ Rollback(r, "denied")

-----------------------------------------------------------------------------
(* create_or_reuse, once it holds the device. *)
StaleOn(r, d) == {s \in ActiveOn(r, d) : Seen(r, s).expires <= call[r].at}

ExpireStale(r) ==
  /\ pc[r] = "expire"
  /\ \A s \in StaleOn(r, call[r].dev) : Free(r, s)
  /\ \E until \in ScheduleEnds :
       /\ until > call[r].at
       /\ call' = [call EXCEPT ![r].exp = Min2(call[r].at + Ttl, until)]
  /\ Hold(r, [s \in StaleOn(r, call[r].dev) |-> [Seen(r, s) EXCEPT !.status = "EXPIRED"]])
  /\ Goto(r, "find")
  /\ UNCHANGED <<ambient, committed, usrLock, devLock>>

(* Choose session s of the caller's device, to be renewed until end. *)
Choose(r, s, end) ==
  /\ call' = [call EXCEPT ![r].target = s, ![r].exp = Min2(@, end)]
  /\ Goto(r, "reuse")
  /\ UNCHANGED <<ambient, committed, locks>>

(* Mutant of FindActive: a session of any location is reused. *)
FindAnyLocation(r) ==
  /\ pc[r] = "find"
  /\ \E s \in ActiveOn(r, call[r].dev) :
       Choose(r, s, Seen(r, s).started + call[r].cap)

(* Mutant of FindActive: the maximum duration counts from now. *)
FindRestarting(r) ==
  /\ pc[r] = "find"
  /\ \E s \in ActiveOn(r, call[r].dev) :
       IF Seen(r, s).loc = call[r].loc
       THEN Choose(r, s, call[r].at + call[r].cap)
       ELSE Rollback(r, "denied")

(* The ACTIVE session is read without a lock on its row.  A session of the *)
(* same location is reused and keeps its start; one of another location is *)
(* a conflict.                                                             *)
FindActive(r) ==
  /\ pc[r] = "find"
  /\ \E s \in ActiveOn(r, call[r].dev) :
       IF Seen(r, s).loc = call[r].loc
       THEN Choose(r, s, Seen(r, s).started + call[r].cap)
       ELSE Rollback(r, "denied")

(* With no ACTIVE session there, one that starts now is to be inserted. *)
FindNone(r) ==
  /\ pc[r] = "find"
  /\ ActiveOn(r, call[r].dev) = {}
  /\ call' = [call EXCEPT ![r].exp = Min2(@, call[r].at + call[r].cap)]
  /\ Goto(r, "insert")
  /\ UNCHANGED <<ambient, committed, locks>>

(* UPDATE ... WHERE access_session_id AND status='ACTIVE'; the number of   *)
(* rows is not looked at.  CHECK (expires_at_utc > started_at_utc) applies *)
(* to the row it does update.                                              *)
Reuse(r) ==
  /\ pc[r] = "reuse"
  /\ Free(r, call[r].target)
  /\ LET row == Seen(r, call[r].target)
         hit == {s \in {call[r].target} : row.status = "ACTIVE"}
     IN IF hit # {} /\ call[r].exp <= row.started
        THEN Rollback(r, "failed")
        ELSE /\ Hold(r, [s \in hit |-> [row EXCEPT !.expires = call[r].exp]])
             /\ Goto(r, "commit")
             /\ UNCHANGED <<ambient, committed, usrLock, devLock, call>>

(* Mutant of Insert: the matched location is not stored. *)
InsertNoLocation(r) ==
  /\ pc[r] = "insert"
  /\ Hold(r, [s \in {r} |->
        [status |-> "ACTIVE", dev |-> call[r].dev, loc |-> None,
         started |-> call[r].at, expires |-> call[r].exp]])
  /\ call' = [call EXCEPT ![r].target = r]
  /\ Goto(r, "commit")
  /\ UNCHANGED <<ambient, committed, usrLock, devLock>>

(* INSERT waits for an uncommitted rival and fails on a committed one. *)
Insert(r) ==
  /\ pc[r] = "insert"
  /\ \A s \in Rivals(r, call[r].dev) : Free(r, s)
  /\ IF Rivals(r, call[r].dev) # {}
     THEN Rollback(r, "duplicate")
     ELSE /\ Hold(r, [s \in {r} |->
               [status |-> "ACTIVE", dev |-> call[r].dev, loc |-> call[r].loc,
                started |-> call[r].at, expires |-> call[r].exp]])
          /\ call' = [call EXCEPT ![r].target = r]
          /\ Goto(r, "commit")
          /\ UNCHANGED <<ambient, committed, usrLock, devLock>>

-----------------------------------------------------------------------------
(* refresh, once it holds the device: re-read the session FOR UPDATE. *)
LockSession(r) ==
  /\ pc[r] = "row"
  /\ call[r].op = "refresh"
  /\ rowLock[call[r].target] = None
  /\ LET row == sess[call[r].target] IN
     IF row.status = "ACTIVE" /\ row.expires > call[r].at
     THEN /\ Hold(r, [s \in {call[r].target} |-> row])
          /\ Goto(r, "write")
          /\ UNCHANGED <<ambient, committed, usrLock, devLock, call>>
     ELSE Rollback(r, "denied")

(* UPDATE ... WHERE status='ACTIVE' RETURNING, under the row lock: the      *)
(* session may move to the location matched now.                           *)
WriteRefresh(r) ==
  /\ pc[r] = "write"
  /\ \E until \in ScheduleEnds :
       LET row == rowNext[call[r].target]
           end == Min2(Min2(call[r].at + Ttl, until), row.started + call[r].cap)
       IN /\ until > call[r].at
          /\ CASE end <= call[r].at \/ row.status # "ACTIVE" -> Rollback(r, "denied")
               [] end > call[r].at /\ row.status = "ACTIVE" /\ end <= row.started ->
                    Rollback(r, "failed")
               [] OTHER ->
                    /\ call' = [call EXCEPT ![r].exp = end]
                    /\ Hold(r, [s \in {call[r].target} |->
                         [row EXCEPT !.loc = call[r].loc, !.expires = end]])
                    /\ Goto(r, "commit")
                    /\ UNCHANGED <<ambient, committed, usrLock, devLock>>

(* The token is signed, the transaction committed, the token returned. *)
CommitGrant(r) ==
  /\ pc[r] = "commit"
  /\ call[r].op \in {"create", "refresh"}
  /\ Publish(r)
  /\ tokens' = tokens \cup {[req |-> r, sess |-> call[r].target, loc |-> call[r].loc,
                             exp |-> call[r].exp]}
  /\ End(r, "ok")
  /\ UNCHANGED ambient

-----------------------------------------------------------------------------
(* Mutant of RevokeRow: the status read under the lock is not looked at. *)
RevokeUnchecked(r) ==
  /\ pc[r] = "row"
  /\ call[r].op = "revoke"
  /\ rowLock[call[r].target] = None
  /\ Hold(r, [s \in {call[r].target} |-> [sess[s] EXCEPT !.status = "REVOKED"]])
  /\ Goto(r, "commit")
  /\ UNCHANGED <<ambient, committed, usrLock, devLock, call>>

(* revoke locks the session's row and no device. *)
RevokeRow(r) ==
  /\ pc[r] = "row"
  /\ call[r].op = "revoke"
  /\ rowLock[call[r].target] = None
  /\ IF sess[call[r].target].status = "ACTIVE"
     THEN /\ Hold(r, [s \in {call[r].target} |-> [sess[s] EXCEPT !.status = "REVOKED"]])
          /\ Goto(r, "commit")
          /\ UNCHANGED <<ambient, committed, usrLock, devLock, call>>
     ELSE Rollback(r, "denied")

CommitRevoke(r) ==
  /\ pc[r] = "commit"
  /\ call[r].op = "revoke"
  /\ Publish(r)
  /\ End(r, "ok")
  /\ UNCHANGED <<ambient, tokens>>

-----------------------------------------------------------------------------
(* set_user_status: the current status is read without a lock. *)
ReadStatus(r) ==
  /\ pc[r] = "read"
  /\ LET current == usr[call[r].user]
         goal == call[r].goal
         next == CASE goal = "ACTIVE" ->
                        IF current \in {"PENDING", "INVITED", "SUSPENDED", "DISABLED"}
                        THEN "unban" ELSE "denied"
                   [] goal # "ACTIVE" /\ current = "EXITED" -> "denied"
                   [] goal # "ACTIVE" /\ current # "EXITED" ->
                        IF current = goal THEN "ok" ELSE "user"
     IN IF next \in Outcomes
        THEN Rollback(r, next)
        ELSE /\ Goto(r, next)
             /\ UNCHANGED <<ambient, committed, locks, call>>

(* Clerk is asked before the update; if it refuses, nothing is activated. *)
Unban(r) ==
  /\ pc[r] = "unban"
  /\ banned' = [banned EXCEPT ![call[r].user] = FALSE]
  /\ Goto(r, "user")
  /\ UNCHANGED <<clock, policy, committed, locks, call>>

(* UPDATE users SET status WHERE user_id: whatever the status is by now. *)
UpdateUser(r) ==
  /\ pc[r] = "user"
  /\ usrLock[call[r].user] = None
  /\ usrLock' = [usrLock EXCEPT ![call[r].user] = r]
  /\ Goto(r, IF call[r].goal = "ACTIVE" THEN "commit" ELSE "scan")
  /\ UNCHANGED <<ambient, committed, devLock, rowLock, rowNext, call>>

(* UPDATE access_sessions SET status='REVOKED' of the USER's ACTIVE rows:  *)
(* the rows are those its snapshot shows; each is locked and looked at     *)
(* again when its turn comes.                                              *)
ScanSessions(r) ==
  /\ pc[r] = "scan"
  /\ LET found == {s \in SessionIds : /\ sess[s].status = "ACTIVE"
                                      /\ Owner[sess[s].dev] = call[r].user}
     IN /\ call' = [call EXCEPT ![r].todo = found]
        /\ Goto(r, IF found = {} THEN "commit" ELSE "rows")
  /\ UNCHANGED <<ambient, committed, locks>>

(* Mutant of CloseRow: rows that are locked are skipped. *)
SkipLocked(r, s) ==
  /\ pc[r] = "rows"
  /\ s \in call[r].todo
  /\ Hold(r, [q \in {p \in {s} : sess[p].status = "ACTIVE" /\ rowLock[p] = None} |->
                [sess[q] EXCEPT !.status = "REVOKED"]])
  /\ call' = [call EXCEPT ![r].todo = @ \ {s}]
  /\ Goto(r, IF call[r].todo = {s} THEN "commit" ELSE "rows")
  /\ UNCHANGED <<ambient, committed, usrLock, devLock>>

CloseRow(r, s) ==
  /\ pc[r] = "rows"
  /\ s \in call[r].todo
  /\ rowLock[s] = None
  /\ Hold(r, [q \in {p \in {s} : sess[p].status = "ACTIVE"} |->
                [sess[q] EXCEPT !.status = "REVOKED"]])
  /\ call' = [call EXCEPT ![r].todo = @ \ {s}]
  /\ Goto(r, IF call[r].todo = {s} THEN "commit" ELSE "rows")
  /\ UNCHANGED <<ambient, committed, usrLock, devLock>>

CommitActivation(r) ==
  /\ pc[r] = "commit"
  /\ call[r].op = "status"
  /\ call[r].goal = "ACTIVE"
  /\ Publish(r)
  /\ End(r, "ok")
  /\ UNCHANGED <<ambient, tokens>>

CommitDeactivation(r) ==
  /\ pc[r] = "commit"
  /\ call[r].op = "status"
  /\ call[r].goal # "ACTIVE"
  /\ Publish(r)
  /\ Goto(r, "ban")
  /\ UNCHANGED <<ambient, tokens, call>>

(* After the commit, Clerk is told. *)
Ban(r) ==
  /\ pc[r] = "ban"
  /\ banned' = [banned EXCEPT ![call[r].user] = TRUE]
  /\ End(r, "ok")
  /\ UNCHANGED <<clock, policy, committed, locks>>

-----------------------------------------------------------------------------
(* A statement or lock wait times out, a connection or the process is      *)
(* lost, Clerk, the risk provider or the signing key fails: PostgreSQL     *)
(* rolls back whatever was not committed.                                  *)
Abort(r) ==
  /\ pc[r] \in Steps
  /\ Rollback(r, "failed")

Tick ==
  /\ clock < MaxClock
  /\ clock' = clock + 1
  /\ UNCHANGED <<policy, banned, committed, locks, pc, call>>

(* configure_security_policy, one committed upsert. *)
ChangePolicy ==
  /\ policy' \in Policies \ {policy}
  /\ UNCHANGED <<clock, banned, committed, locks, pc, call>>

(* Nothing is left to do: keeps TLC's deadlock check for the rest. *)
Finished ==
  /\ \A r \in Requests : pc[r] \in Outcomes
  /\ UNCHANGED vars

Arrive(r) == BeginCreate(r) \/ BeginRefresh(r) \/ BeginRevoke(r) \/ BeginStatus(r)

Proceed(r) ==
  \/ ReadContext(r) \/ Observe(r) \/ LockDevice(r) \/ Deny(r)
  \/ ExpireStale(r) \/ FindActive(r) \/ FindNone(r) \/ Reuse(r) \/ Insert(r)
  \/ LockSession(r) \/ WriteRefresh(r) \/ CommitGrant(r)
  \/ RevokeRow(r) \/ CommitRevoke(r)
  \/ ReadStatus(r) \/ Unban(r) \/ UpdateUser(r) \/ ScanSessions(r)
  \/ (\E s \in SessionIds : CloseRow(r, s))
  \/ CommitActivation(r) \/ CommitDeactivation(r) \/ Ban(r)

Next ==
  \/ \E r \in Requests : Arrive(r) \/ Proceed(r) \/ Abort(r)
  \/ Tick
  \/ ChangePolicy
  \/ Finished

Spec == Init /\ [][Next]_vars

(* Every call runs in a worker thread of its own and PostgreSQL grants a   *)
(* free lock to a waiter, so a call that can go on does.                   *)
FairSpec == Spec /\ \A r \in Requests : WF_vars(Proceed(r))

-----------------------------------------------------------------------------
(* Type invariant.  What a request knows follows from how far it has come. *)
TypeOK ==
  /\ clock \in Nat /\ policy \in Policies
  /\ usr \in [Users -> UserStatuses]
  /\ usrLock \in [Users -> Requests \cup {None}]
  /\ banned \in [Users -> BOOLEAN]
  /\ devLock \in [Devices -> Requests \cup {None}]
  /\ sess \in [SessionIds -> Rows \cup {NoRow}]
  /\ rowLock \in [SessionIds -> Requests \cup {None}]
  /\ rowNext \in [SessionIds -> Rows \cup {NoRow}]
  /\ closedAt \in [SessionIds -> Nat]
  /\ tokens \subseteq Tokens
  /\ pc \in [Requests -> Steps \cup Outcomes \cup {"idle"}]
  /\ call \in [Requests -> Calls \cup {NoCall}]
  /\ \A r \in Requests : pc[r] \in Steps => call[r] \in Calls

-----------------------------------------------------------------------------
(* SEC-030 (decision register v1.3): at most one ACTIVE session per        *)
(* device, and creation is serialised on the device row: the lock alone    *)
(* keeps it so, no caller ever trips over the unique index.                *)
OneActiveSession ==
  /\ \A s, q \in SessionIds :
       /\ sess[s].status = "ACTIVE" /\ sess[q].status = "ACTIVE"
       /\ sess[s].dev = sess[q].dev
       => s = q
  /\ \A r \in Requests : pc[r] # "duplicate"

(* The committed rows behave as SessionLedger says: opened once, renewed   *)
(* in place, closed for good.                                              *)
Ledger == INSTANCE SessionLedger WITH
  SessionIds <- SessionIds, Devices <- Devices, sess <- sess
ImplementsLedger == Ledger!Spec

(* A token is issued for a session whose committed row is ACTIVE and says  *)
(* what the token says.  The one way out is a create that chose to reuse a *)
(* session which a revocation closed before the UPDATE reached it; refresh *)
(* has none.                                                               *)
IssueMatchesRow ==
  [][\A t \in tokens' \ tokens :
       LET row == sess'[t.sess] IN
       \/ row.status = "ACTIVE" /\ row.loc = t.loc /\ row.expires = t.exp
       \/ row.status = "REVOKED" /\ call[t.req].op = "create"]_vars

(* SEC-033: the revocation window is bounded by the token TTL.  However    *)
(* late a token is issued, by whatever call was in flight, it is worthless *)
(* one TTL after its session was closed.                                   *)
RevocationWindow ==
  \A t \in tokens :
    sess[t.sess].status # "ACTIVE" => t.exp <= closedAt[t.sess] + Ttl

(* Reuse and refresh never carry a session, or a token of it, beyond the   *)
(* longest session_max_duration counted from the session's own start.      *)
DurationCap ==
  \A s \in SessionIds : sess[s] # NoRow =>
    /\ \E most \in Policies : sess[s].expires <= sess[s].started + most
    /\ \A t \in tokens : t.sess = s =>
         \E most \in Policies : t.exp <= sess[s].started + most

(* Who holds what the next statement of r has to wait for. *)
Holders(S) == {rowLock[s] : s \in S} \ {None}
WaitsFor(r) ==
  CASE pc[r] = "device" -> {devLock[call[r].dev]} \ {None}
    [] pc[r] = "expire" -> Holders(StaleOn(r, call[r].dev)) \ {r}
    [] pc[r] \in {"reuse", "row"} -> Holders({call[r].target}) \ {r}
    [] pc[r] = "insert" -> Holders(Rivals(r, call[r].dev)) \ {r}
    [] pc[r] = "user" -> {usrLock[call[r].user]} \ {None}
    [] pc[r] = "rows" -> Holders(call[r].todo) \ {r}
    [] OTHER -> {}

(* No set of calls waits for one another: the device row before the        *)
(* session row, as session_refresh_service.py:183 asks, and the users row  *)
(* before the session rows leave no cycle of lock waits.                   *)
NoWaitCycle ==
  \A S \in (SUBSET Requests) \ {{}} : \E r \in S : WaitsFor(r) \cap S = {}

(* Every call that has arrived is answered. *)
RequestsFinish ==
  \A r \in Requests : pc[r] \in Steps ~> pc[r] \in Outcomes

(* A session that was there before any call in flight does not survive     *)
(* the USER's deactivation, whatever refresh or revoke has its row locked  *)
(* when the revoking UPDATE comes by.                                      *)
EstablishedSessionsRevoked ==
  \A s \in Seeds :
    sess[s].status = "ACTIVE" => usr[Owner[sess[s].dev]] = "ACTIVE"

-----------------------------------------------------------------------------
(* What the documents say and the code does not keep. *)

(* SEC-033: "Revoking an access session immediately blocks refresh/new     *)
(* issuance".  No token is issued for a session whose committed row is     *)
(* not ACTIVE any more.                                                    *)
RevokedBlocksIssuance ==
  [][\A t \in tokens' \ tokens : sess'[t.sess].status = "ACTIVE"]_vars

(* RULE-GOU-AUTH-003: when a USER is SUSPENDED, DISABLED or EXITED, active *)
(* access sessions are revoked.  None is left once the change is made.     *)
DeactivationRevokesAll ==
  \A s \in SessionIds :
    sess[s].status = "ACTIVE" => usr[Owner[sess[s].dev]] = "ACTIVE"

(* "EXITED USER is terminal". *)
ExitedIsTerminal ==
  [][\A u \in Users : usr[u] = "EXITED" => usr'[u] = "EXITED"]_vars
==============================================================================
