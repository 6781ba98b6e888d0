---------------------------- MODULE SelfOnboarding ----------------------------
(***************************************************************************)
(* Phase 1 self-onboarding: start, resend and verify of one signup, with   *)
(* the identity Clerk keeps for it.                                        *)
(*                                                                         *)
(* A signup lives in three places that no transaction spans: the attempt   *)
(* row, the Clerk identity and the registered USER.  Each call is a        *)
(* process; one action is one committed statement, one statement of a      *)
(* transaction that others can overtake, or one call to Clerk.  A call may *)
(* be refused, may lose an answer of Clerk, and may die at any step.       *)
(***************************************************************************)
EXTENDS Naturals

CONSTANTS
  Starts,    \* calls of start; each names the attempt and the identity it creates
  Verifies,  \* calls of verify_email_code or resend_email_code
  Emails,
  Mobiles,
  Ttl,       \* _ATTEMPT_TTL
  MaxClock,  \* bound on the clock
  None       \* no lock holder

ASSUME CallsAssumption == Starts \cap Verifies = {} /\ None \notin Starts \cup Verifies
ASSUME TimeAssumption == Ttl \in Nat \ {0} /\ MaxClock \in Nat

Calls == Starts \cup Verifies

VARIABLES
  clock,     \* wall-clock time
  attempts,  \* committed rows of platform_user_signup_attempts
  lock,      \* holder of each attempt row
  clerk,     \* Clerk's identities, all of them banned
  users,     \* registered USERs: their address and the attempt they come from
  pc,        \* the next step of each call, or its outcome
  call       \* its arguments and local variables

vars == <<clock, attempts, lock, clerk, users, pc, call>>

NoAttempt == [status |-> "NONE"]
Statuses == {"AUTHORIZED_FOR_CLERK", "COMPLETED", "EXPIRED", "CANCELLED"}
Attempts == [status : Statuses, email : Emails, mobile : Mobiles, expires : Nat,
             linked : BOOLEAN]   \* clerk_user_id and clerk_email_address_id are set
Identities == {"none", "unverified", "verified", "deleted"}
USERs == [from : Starts, email : Emails, mobile : Mobiles]

StartCall == [email : Emails, mobile : Mobiles, at : Nat, purge : SUBSET Starts]
VerifyCall == [op : {"verify", "resend"}, attempt : Starts, at : Nat]
NoCall == [at |-> 0]

Outcomes == {"ok", "denied", "failed", "conflict"}
StartSteps == {"stale", "expire", "purge", "registered", "live", "insert", "create",
               "prepare", "record", "cancel", "withdraw", "undo"}
VerifySteps == {"load", "lapse", "mail", "otp", "lock", "check", "register"}
Steps == StartSteps \cup VerifySteps

-----------------------------------------------------------------------------
(* Rows that share the email or the mobile: all unique indexes go by these. *)
Clash(x, y) == x.email = y.email \/ x.mobile = y.mobile

Live(a) == attempts[a].status = "AUTHORIZED_FOR_CLERK"

(* The rows start takes for abandoned: live, past their expiry, same person. *)
Stale(r) ==
  {a \in Starts : Live(a) /\ attempts[a].expires <= call[r].at /\ Clash(attempts[a], call[r])}

Registered(x) == \E u \in users : Clash(u, x)

SetStatus(S, status) ==
  attempts' = [a \in Starts |-> IF a \in S THEN [attempts[a] EXCEPT !.status = status]
                                ELSE attempts[a]]

Goto(r, label) == pc' = [pc EXCEPT ![r] = label]

(* Mutant of Release: a raised error leaves the transaction open. *)
KeepLock(r) == lock' = lock

(* The session is rolled back or closed: its row locks are free. *)
Release(r) == lock' = [a \in Starts |-> IF lock[a] = r THEN None ELSE lock[a]]

(* The call ends without having changed anything more. *)
End(r, outcome) ==
  /\ Goto(r, outcome)
  /\ Release(r)
  /\ UNCHANGED <<clock, attempts, clerk, users, call>>

Init ==
  /\ clock = 0
  /\ attempts = [a \in Starts |-> NoAttempt]
  /\ lock = [a \in Starts |-> None]
  /\ clerk = [a \in Starts |-> "none"]
  /\ users = {}
  /\ pc = [r \in Calls |-> "idle"]
  /\ call = [r \in Calls |-> NoCall]

-----------------------------------------------------------------------------
(* start *)

(* "now" is read and the onboarding key accepted. *)
BeginStart(r) ==
  /\ pc[r] = "idle"
  /\ \E e \in Emails, m \in Mobiles :
       call' = [call EXCEPT ![r] = [email |-> e, mobile |-> m, at |-> clock, purge |-> {}]]
  /\ Goto(r, "stale")
  /\ UNCHANGED <<clock, attempts, lock, clerk, users>>

(* SELECT, without a lock, of the abandoned attempts and their identities. *)
FindStale(r) ==
  /\ pc[r] = "stale"
  /\ call' = [call EXCEPT ![r].purge = {a \in Stale(r) : attempts[a].linked}]
  /\ Goto(r, IF Stale(r) = {} THEN "registered" ELSE "expire")
  /\ UNCHANGED <<clock, attempts, lock, clerk, users>>

(* Mutant of ExpireStale: the identities go while the attempts stay live. *)
ForgetToExpire(r) ==
  /\ pc[r] = "expire"
  /\ Goto(r, "purge")
  /\ UNCHANGED <<clock, attempts, lock, clerk, users, call>>

(* UPDATE by the same predicate, and commit; it waits for locked rows. *)
ExpireStale(r) ==
  /\ pc[r] = "expire"
  /\ \A a \in Stale(r) : lock[a] = None
  /\ SetStatus(Stale(r), "EXPIRED")
  /\ Goto(r, "purge")
  /\ UNCHANGED <<clock, lock, clerk, users, call>>

(* Clerk deletes, one by one, the identities that the SELECT returned. *)
Purge(r) ==
  /\ pc[r] = "purge"
  /\ \/ /\ call[r].purge = {}
        /\ Goto(r, "registered")
        /\ UNCHANGED <<clerk, call>>
     \/ \E a \in call[r].purge :
          /\ clerk' = [clerk EXCEPT ![a] = "deleted"]
          /\ call' = [call EXCEPT ![r].purge = @ \ {a}]
          /\ UNCHANGED pc
  /\ UNCHANGED <<clock, attempts, lock, users>>

CheckRegistered(r) ==
  /\ pc[r] = "registered"
  /\ IF Registered(call[r])
     THEN End(r, "denied")
     ELSE /\ Goto(r, "live")
          /\ UNCHANGED <<clock, attempts, lock, clerk, users, call>>

CheckLive(r) ==
  /\ pc[r] = "live"
  /\ IF \E a \in Starts : Live(a) /\ Clash(attempts[a], call[r])
     THEN End(r, "denied")
     ELSE /\ Goto(r, "insert")
          /\ UNCHANGED <<clock, attempts, lock, clerk, users, call>>

(* Mutant of InsertAttempt: a status the table does not know. *)
InsertPending(r) ==
  /\ pc[r] = "insert"
  /\ attempts' = [attempts EXCEPT ![r] =
       [status |-> "PENDING", email |-> call[r].email,
        mobile |-> call[r].mobile, expires |-> call[r].at + Ttl, linked |-> FALSE]]
  /\ Goto(r, "create")
  /\ UNCHANGED <<clock, lock, clerk, users, call>>

(* INSERT and commit; the unique indexes on live attempts refuse a clash. *)
InsertAttempt(r) ==
  /\ pc[r] = "insert"
  /\ IF \E a \in Starts : Live(a) /\ Clash(attempts[a], call[r])
     THEN End(r, "denied")
     ELSE /\ attempts' = [attempts EXCEPT ![r] =
               [status |-> "AUTHORIZED_FOR_CLERK", email |-> call[r].email,
                mobile |-> call[r].mobile, expires |-> call[r].at + Ttl, linked |-> FALSE]]
          /\ Goto(r, "create")
          /\ UNCHANGED <<clock, lock, clerk, users, call>>

(* POST /users: for a moment Clerk takes the address for verified. *)
CreateIdentity(r) ==
  /\ pc[r] = "create"
  /\ clerk' = [clerk EXCEPT ![r] = "verified"]
  /\ \/ Goto(r, "prepare")
     \/ Goto(r, "cancel")   \* the answer is lost: the id is not known
  /\ UNCHANGED <<clock, attempts, lock, users, call>>

(* PATCH to unverified, and the code is mailed. *)
PrepareEmail(r) ==
  /\ pc[r] = "prepare"
  /\ clerk' = [clerk EXCEPT ![r] = "unverified"]
  /\ Goto(r, "record")
  /\ UNCHANGED <<clock, attempts, lock, users, call>>

(* Clerk fails: nothing was created, or what was created is deleted if *)
(* Clerk still answers.                                                *)
ClerkFails(r) ==
  /\ pc[r] \in {"create", "prepare"}
  /\ \/ UNCHANGED clerk
     \/ pc[r] = "prepare" /\ clerk' = [clerk EXCEPT ![r] = "deleted"]
  /\ Goto(r, "cancel")
  /\ UNCHANGED <<clock, attempts, lock, users, call>>

(* UPDATE ... WHERE status='AUTHORIZED_FOR_CLERK'; rows are not counted. *)
RecordIdentity(r) ==
  /\ pc[r] = "record"
  /\ lock[r] = None
  /\ attempts' = [attempts EXCEPT ![r].linked = @ \/ Live(r)]
  /\ Goto(r, "ok")
  /\ UNCHANGED <<clock, lock, clerk, users, call>>

RecordFails(r) ==
  /\ pc[r] = "record"
  /\ Goto(r, "withdraw")
  /\ UNCHANGED <<clock, attempts, lock, clerk, users, call>>

(* Compensation: the attempt first; then the identity, if its id is known. *)
CancelAttempt(r) ==
  /\ pc[r] \in {"cancel", "withdraw"}
  /\ lock[r] = None
  /\ SetStatus({a \in {r} : Live(a)}, "CANCELLED")
  /\ Goto(r, IF pc[r] = "withdraw" THEN "undo" ELSE "failed")
  /\ UNCHANGED <<clock, lock, clerk, users, call>>

UndoIdentity(r) ==
  /\ pc[r] = "undo"
  /\ clerk' \in {clerk, [clerk EXCEPT ![r] = "deleted"]}
  /\ Goto(r, "failed")
  /\ UNCHANGED <<clock, attempts, lock, users, call>>

-----------------------------------------------------------------------------
(* verify_email_code and resend_email_code, of an attempt start returned *)

BeginVerify(r) ==
  /\ pc[r] = "idle"
  /\ \E a \in Starts, op \in {"verify", "resend"} :
       /\ pc[a] = "ok"
       /\ call' = [call EXCEPT ![r] = [op |-> op, attempt |-> a, at |-> 0]]
  /\ Goto(r, "load")
  /\ UNCHANGED <<clock, attempts, lock, clerk, users>>

LoadAttempt(r) ==
  /\ pc[r] = "load"
  /\ LET row == attempts[call[r].attempt] IN
     IF ~Live(call[r].attempt) \/ (row.expires > clock /\ ~row.linked)
     THEN End(r, "denied")
     ELSE /\ Goto(r, CASE row.expires <= clock -> "lapse"
                       [] row.expires > clock /\ call[r].op = "resend" -> "mail"
                       [] row.expires > clock /\ call[r].op = "verify" -> "otp")
          /\ UNCHANGED <<clock, attempts, lock, clerk, users, call>>

(* An attempt found too old is marked EXPIRED; its identity stays. *)
Lapse(r) ==
  /\ pc[r] = "lapse"
  /\ lock[call[r].attempt] = None
  /\ SetStatus({a \in {call[r].attempt} : Live(a)}, "EXPIRED")
  /\ Goto(r, "denied")
  /\ UNCHANGED <<clock, lock, clerk, users, call>>

(* Clerk mails another code, if it still knows the address. *)
ResendCode(r) ==
  /\ pc[r] = "mail"
  /\ End(r, IF clerk[call[r].attempt] = "deleted" THEN "failed" ELSE "ok")

(* Mutant of VerifyCode: Clerk's answer is not looked at. *)
AcceptAnyCode(r) ==
  /\ pc[r] = "otp"
  /\ call' = [call EXCEPT ![r].at = clock]
  /\ Goto(r, "lock")
  /\ UNCHANGED <<clock, attempts, lock, clerk, users>>

(* Clerk is given the code and asked whether the address is verified: it   *)
(* may have been by an earlier call that got no further.  No transaction   *)
(* is open.  "now" is read again after the answer.                         *)
VerifyCode(r) ==
  /\ pc[r] = "otp"
  /\ IF clerk[call[r].attempt] = "deleted"
     THEN End(r, "failed")
     ELSE \E right \in BOOLEAN :
            LET verified == right \/ clerk[call[r].attempt] = "verified" IN
            /\ IF verified
               THEN /\ clerk' = [clerk EXCEPT ![call[r].attempt] = "verified"]
                    /\ call' = [call EXCEPT ![r].at = clock]
                    /\ \/ Goto(r, "lock")
                       \/ Goto(r, "failed")   \* the answer is lost
               ELSE Goto(r, "denied") /\ UNCHANGED <<clerk, call>>
            /\ UNCHANGED <<clock, attempts, lock, users>>

(* Mutant of LockAttempt: the attempt is not read again. *)
LockUnread(r) ==
  /\ pc[r] = "lock"
  /\ lock[call[r].attempt] = None
  /\ lock' = [lock EXCEPT ![call[r].attempt] = r]
  /\ Goto(r, "check")
  /\ UNCHANGED <<clock, attempts, clerk, users, call>>

(* Mutant of LockAttempt: a plain SELECT. *)
RereadAttempt(r) ==
  /\ pc[r] = "lock"
  /\ Live(call[r].attempt)
  /\ Goto(r, "check")
  /\ UNCHANGED <<clock, attempts, lock, clerk, users, call>>

(* SELECT ... FOR UPDATE; the checks of load are made again. *)
LockAttempt(r) ==
  /\ pc[r] = "lock"
  /\ lock[call[r].attempt] = None
  /\ CASE ~Live(call[r].attempt) -> End(r, "denied")
       [] Live(call[r].attempt) /\ attempts[call[r].attempt].expires <= call[r].at ->
            /\ SetStatus({call[r].attempt}, "EXPIRED")
            /\ Goto(r, "denied")
            /\ UNCHANGED <<clock, lock, clerk, users, call>>
       [] OTHER ->
            /\ lock' = [lock EXCEPT ![call[r].attempt] = r]
            /\ Goto(r, "check")
            /\ UNCHANGED <<clock, attempts, clerk, users, call>>

CheckIdentity(r) ==
  /\ pc[r] = "check"
  /\ IF \/ Registered(attempts[call[r].attempt])
        \/ \E u \in users : u.from = call[r].attempt
     THEN End(r, "denied")
     ELSE /\ Goto(r, "register")
          /\ UNCHANGED <<clock, attempts, lock, clerk, users, call>>

(* Mutant of Register: the attempt is left as it is. *)
RegisterOnly(r) ==
  /\ pc[r] = "register"
  /\ LET a == call[r].attempt IN
     IF Registered(attempts[a])
     THEN End(r, "conflict")
     ELSE /\ users' = users \cup {[from |-> a, email |-> attempts[a].email,
                                   mobile |-> attempts[a].mobile]}
          /\ Release(r)
          /\ Goto(r, "ok")
          /\ UNCHANGED <<clock, attempts, clerk, call>>

(* Principal, USER, external identity and onboarding request are inserted, *)
(* the attempt is COMPLETED whatever its status is, all in one commit; the *)
(* unique indexes on users refuse a clash.                                 *)
Register(r) ==
  /\ pc[r] = "register"
  /\ LET a == call[r].attempt IN
     IF Registered(attempts[a])
     THEN End(r, "conflict")
     ELSE /\ users' = users \cup {[from |-> a, email |-> attempts[a].email,
                                   mobile |-> attempts[a].mobile]}
          /\ SetStatus({a}, "COMPLETED")
          /\ Release(r)
          /\ Goto(r, "ok")
          /\ UNCHANGED <<clock, clerk, call>>

-----------------------------------------------------------------------------
(* The process or the connection dies, or an error no handler undoes is    *)
(* raised; start has a handler only from the creation of the identity on,  *)
(* and a dead process does not run it.                                     *)
Crash(r) ==
  /\ pc[r] \in Steps
  /\ End(r, "failed")

Tick ==
  /\ clock < MaxClock
  /\ clock' = clock + 1
  /\ UNCHANGED <<attempts, lock, clerk, users, pc, call>>

Finished ==
  /\ \A r \in Starts : pc[r] \in Outcomes
  /\ \A r \in Verifies : pc[r] \in Outcomes \cup {"idle"}
  /\ UNCHANGED vars

Starting(r) ==
  \/ FindStale(r) \/ ExpireStale(r) \/ Purge(r) \/ CheckRegistered(r) \/ CheckLive(r)
  \/ InsertAttempt(r) \/ CreateIdentity(r) \/ PrepareEmail(r) \/ ClerkFails(r)
  \/ RecordIdentity(r) \/ RecordFails(r) \/ CancelAttempt(r) \/ UndoIdentity(r)

Verifying(r) ==
  \/ LoadAttempt(r) \/ Lapse(r) \/ ResendCode(r) \/ VerifyCode(r) \/ LockAttempt(r)
  \/ CheckIdentity(r) \/ Register(r)

Next ==
  \/ \E r \in Starts : BeginStart(r) \/ Starting(r) \/ Crash(r)
  \/ \E r \in Verifies : BeginVerify(r) \/ Verifying(r) \/ Crash(r)
  \/ Tick
  \/ Finished

Spec == Init /\ [][Next]_vars

(* Each call runs in a worker thread of its own; a lock that is free is    *)
(* granted to a waiter.                                                    *)
FairSpec ==
  /\ Spec
  /\ \A r \in Starts : WF_vars(Starting(r))
  /\ \A r \in Verifies : WF_vars(Verifying(r))

-----------------------------------------------------------------------------
(* Type invariant; only a verification ever holds an attempt locked. *)
TypeOK ==
  /\ clock \in Nat
  /\ attempts \in [Starts -> Attempts \cup {NoAttempt}]
  /\ lock \in [Starts -> Verifies \cup {None}]
  /\ clerk \in [Starts -> Identities]
  /\ users \subseteq USERs
  /\ pc \in [Calls -> Steps \cup Outcomes \cup {"idle"}]
  /\ call \in [Calls -> StartCall \cup VerifyCall \cup {NoCall}]

(* Recovery rule 9 of the v1.4.8 design: "database locking and uniqueness  *)
(* rules allow at most one Security USER/mapping" however verifications    *)
(* race.  The locks alone do: no verification ever trips over the unique   *)
(* indexes of users once it has passed its checks.                         *)
RegisteredOnce ==
  /\ \A u, w \in users : Clash(u, w) => u = w
  /\ \A r \in Verifies : pc[r] # "conflict"

(* An attempt is COMPLETED exactly when its USER exists: a crash, a double *)
(* click or an expiry in mid-verification separates neither from the other. *)
CompletedMeansRegistered ==
  \A a \in Starts :
    attempts[a].status = "COMPLETED" <=> \E u \in users : u.from = a

(* An attempt that was COMPLETED, EXPIRED or CANCELLED keeps that status,  *)
(* though Register overwrites whatever status the row has.                 *)
ClosedAttemptsStay ==
  [][\A a \in Starts :
       attempts[a].status \in Statuses \ {"AUTHORIZED_FOR_CLERK"} =>
         attempts'[a].status = attempts[a].status]_vars

(* Rules 5 and 6: a USER is created only while Clerk holds its identity    *)
(* and has verified the address by a code, never on the strength of the    *)
(* moment in which a new identity counts as verified.                      *)
RegisteredIsVerified ==
  [][\A u \in users' \ users : attempts[u.from].linked /\ clerk[u.from] = "verified"]_vars

(* An attempt whose id the channel was given can be completed as long as   *)
(* it is live: its identity exists.  Every path closes the attempt before  *)
(* it deletes the identity.                                                *)
LiveAttemptUsable ==
  \A a \in Starts :
    Live(a) /\ pc[a] = "ok" =>
      attempts[a].linked /\ clerk[a] \in {"unverified", "verified"}

(* Every call that has arrived is answered, though verify raises its       *)
(* refusals with the attempt locked and no rollback of its own.            *)
CallsFinish ==
  \A r \in Calls : pc[r] \in Steps ~> pc[r] \in Outcomes

-----------------------------------------------------------------------------
(* What the design says and the code does not keep. *)

(* Rule 8: "Expired abandoned signup: mark attempt expired and             *)
(* reconcile/delete its banned Clerk identity before allowing a            *)
(* replacement signup for the same identity."  Security knows the identity *)
(* of the expired attempt here: its id is recorded.                        *)
ReplacementCleansUp ==
  [][\A a, b \in Starts :
       /\ attempts[a].status = "EXPIRED" /\ attempts[a].linked
       /\ attempts[b] = NoAttempt /\ attempts'[b] # NoAttempt
       /\ Clash(attempts[a], attempts'[b])
       => clerk[a] \in {"none", "deleted"}]_vars

(* After registration "the Clerk identity remains banned" until an         *)
(* administrator activates the USER: it is not deleted.                    *)
RegisteredIdentityStays ==
  \A u \in users : clerk[u.from] # "deleted"
==============================================================================
