------------------------- MODULE SelfOnboarding_proof -------------------------
(***************************************************************************)
(* However many calls of start, resend and verify race, die or lose an     *)
(* answer of Clerk: a person is registered once, and an attempt is         *)
(* COMPLETED exactly when its USER exists.  The lock on the attempt keeps  *)
(* it live from the second look to the registration, and live attempts are *)
(* of different persons, so nobody else can register this one meanwhile.   *)
(***************************************************************************)
EXTENDS SelfOnboarding, TLAPS

-----------------------------------------------------------------------------
(* The invariant. *)

(* What is known of a call at its steps. *)
CallsTyped ==
  /\ \A r \in Starts :
       /\ pc[r] \in StartSteps \cup Outcomes \cup {"idle"}
       /\ pc[r] \in StartSteps => call[r] \in StartCall
  /\ \A r \in Verifies :
       /\ pc[r] \in VerifySteps \cup Outcomes \cup {"idle"}
       /\ pc[r] \in VerifySteps => call[r] \in VerifyCall

(* The row of a start is there only once it has inserted it. *)
NotYetInserted ==
  \A r \in Starts :
    pc[r] \in {"idle", "stale", "expire", "purge", "registered", "live", "insert"} =>
      attempts[r] = NoAttempt

(* uq_live_signup_email and uq_live_signup_mobile. *)
LiveAttemptsDiffer ==
  \A a, b \in Starts : Live(a) /\ Live(b) /\ Clash(attempts[a], attempts[b]) => a = b

(* A verification past its second look holds the attempt, which is live.   *)
Holds(r) == pc[r] \in {"check", "register"}
HeldIsLive ==
  \A r \in Verifies :
    Holds(r) => lock[call[r].attempt] = r /\ Live(call[r].attempt)

(* Past the check of identities nobody has registered that person. *)
CheckedIsNew ==
  \A r \in Verifies :
    pc[r] = "register" => ~ Registered(attempts[call[r].attempt])

Inv ==
  /\ TypeOK
  /\ CallsTyped
  /\ NotYetInserted
  /\ LiveAttemptsDiffer
  /\ HeldIsLive
  /\ CheckedIsNew
  /\ RegisteredOnce
  /\ CompletedMeansRegistered

-----------------------------------------------------------------------------
(* Steps of which the attempts, the locks and the USERs take no part. *)

(* Call r goes to a step where nothing more need be known of it. *)
LEMMA QuietStep ==
  ASSUME Inv, NEW r \in Calls,
         attempts' = attempts, lock' = lock, users' = users,
         clock' \in Nat, clerk' \in [Starts -> Identities],
         pc' \in [Calls -> Steps \cup Outcomes \cup {"idle"}],
         call' \in [Calls -> StartCall \cup VerifyCall \cup {NoCall}],
         \A x \in Calls \ {r} : pc'[x] = pc[x] /\ call'[x] = call[x],
         CallsTyped',
         ~ Holds(r), pc'[r] \notin {"check", "register", "conflict"},
         r \in Starts => attempts[r] = NoAttempt \/
           pc'[r] \notin {"idle", "stale", "expire", "purge", "registered", "live", "insert"}
  PROVE  Inv'
<1>1. TypeOK'
  BY DEF Inv, TypeOK
<1>2. NotYetInserted'
  BY DEF Inv, NotYetInserted, Calls
<1>3. LiveAttemptsDiffer' /\ CompletedMeansRegistered'
  BY DEF Inv, LiveAttemptsDiffer, Live, CompletedMeansRegistered
<1>4. HeldIsLive' /\ CheckedIsNew'
  BY DEF Inv, HeldIsLive, CheckedIsNew, Holds, Live, Registered, Calls
<1>5. RegisteredOnce'
  BY DEF Inv, RegisteredOnce, Calls
<1> QED BY <1>1, <1>2, <1>3, <1>4, <1>5 DEF Inv

(* A call ends without effect; what it had locked is free. *)
LEMMA EndStep ==
  ASSUME Inv, NEW r \in Calls, NEW outcome \in {"ok", "denied", "failed"}, End(r, outcome)
  PROVE  Inv'
<1>1. /\ attempts' = attempts /\ users' = users /\ clock' = clock /\ clerk' = clerk
      /\ call' = call /\ pc' = [pc EXCEPT ![r] = outcome]
      /\ lock' = [a \in Starts |-> IF lock[a] = r THEN None ELSE lock[a]]
  BY DEF End, Goto, Release
<1>2. TypeOK'
  BY <1>1 DEF Inv, TypeOK, Outcomes
<1>3. CallsTyped' /\ NotYetInserted'
  BY <1>1 DEF Inv, TypeOK, CallsTyped, NotYetInserted, StartSteps, VerifySteps, Outcomes, Calls
<1>4. LiveAttemptsDiffer' /\ CompletedMeansRegistered'
  BY <1>1 DEF Inv, LiveAttemptsDiffer, Live, CompletedMeansRegistered
<1>5. ASSUME NEW x \in Verifies, Holds(x)'
      PROVE  lock'[call'[x].attempt] = x /\ Live(call[x].attempt)'
  <2>1. x # r /\ Holds(x)
    BY <1>1, <1>5 DEF Holds, Inv, TypeOK, Calls
  <2>2. call[x].attempt \in Starts
    BY <2>1 DEF Inv, CallsTyped, Holds, VerifySteps, VerifyCall
  <2> QED BY <1>1, <2>1, <2>2 DEF Inv, HeldIsLive, Live
<1>6. HeldIsLive' /\ CheckedIsNew'
  BY <1>1, <1>5 DEF HeldIsLive, Inv, TypeOK, CheckedIsNew, Registered, Calls
<1>7. RegisteredOnce'
  BY <1>1 DEF Inv, RegisteredOnce, TypeOK, Calls
<1> QED BY <1>2, <1>3, <1>4, <1>6, <1>7 DEF Inv

(* Attempts that are live, and that nobody holds, are closed. *)
LEMMA CloseStep ==
  ASSUME Inv, NEW r \in Calls, NEW S \in SUBSET Starts, NEW closed \in {"EXPIRED", "CANCELLED"},
         \A a \in S : Live(a) /\ lock[a] = None,
         SetStatus(S, closed), UNCHANGED <<clock, lock, clerk, users, call>>,
         NEW step, Goto(r, step), ~ Holds(r),
         \/ r \in Starts /\ step \in {"purge", "undo", "failed"}
         \/ r \in Verifies /\ step = "denied",
         step = "purge" => pc[r] = "expire",
         pc[r] \in StartSteps \cup VerifySteps
  PROVE  Inv'
<1>1. /\ attempts' = [a \in Starts |-> IF a \in S THEN [attempts[a] EXCEPT !.status = closed]
                                       ELSE attempts[a]]
      /\ pc' = [pc EXCEPT ![r] = step]
  BY DEF SetStatus, Goto
<1>2. \A a \in Starts : attempts[a] = NoAttempt => a \notin S
  BY DEF Live, NoAttempt
<1>3. attempts' \in [Starts -> Attempts \cup {NoAttempt}]
  <2>1. ASSUME NEW a \in S
        PROVE  [attempts[a] EXCEPT !.status = closed] \in Attempts
    <3>1. attempts[a] \in Attempts
      BY <1>2 DEF Inv, TypeOK
    <3> QED BY <3>1 DEF Attempts, Statuses
  <2> QED BY <1>1, <2>1 DEF Inv, TypeOK
<1>4. TypeOK'
  BY <1>1, <1>3 DEF Inv, TypeOK, Steps, StartSteps, VerifySteps, Outcomes, Calls
<1>5. CallsTyped'
  BY <1>1, CallsAssumption
     DEF Inv, TypeOK, CallsTyped, StartSteps, VerifySteps, Outcomes, Calls
<1>6. NotYetInserted'
  BY <1>1, <1>2 DEF Inv, TypeOK, NotYetInserted, Calls
<1>7. \A a \in Starts : /\ a \in S => ~ Live(a)'
                        /\ a \notin S => attempts'[a] = attempts[a]
  BY <1>1, <1>2 DEF Live, Inv, TypeOK, Attempts
<1>8. LiveAttemptsDiffer'
  BY <1>7 DEF Inv, LiveAttemptsDiffer, Live
<1>9. ASSUME NEW x \in Verifies, Holds(x)'
      PROVE  /\ Holds(x) /\ call[x].attempt \in Starts \ S
             /\ lock'[call'[x].attempt] = x /\ Live(call[x].attempt)'
  <2>1. x # r /\ Holds(x) /\ pc'[x] = pc[x]
    BY <1>1, <1>9 DEF Holds, Inv, TypeOK, Calls
  <2>2. call[x].attempt \in Starts
    BY <2>1 DEF Inv, CallsTyped, Holds, VerifySteps, VerifyCall
  <2>3. lock[call[x].attempt] # None
    BY <2>1, CallsAssumption DEF Inv, HeldIsLive
  <2> QED BY <1>7, <2>1, <2>2, <2>3 DEF Inv, HeldIsLive, Live
<1>10. HeldIsLive' /\ CheckedIsNew'
  BY <1>1, <1>7, <1>9 DEF HeldIsLive, Inv, TypeOK, CheckedIsNew, Registered, Holds, Calls
<1>11. RegisteredOnce'
  BY <1>1 DEF Inv, RegisteredOnce, TypeOK, Calls
<1>12. CompletedMeansRegistered'
  <2>1. \A a \in S : attempts[a].status # "COMPLETED" /\ attempts'[a].status # "COMPLETED"
    BY <1>1, <1>2 DEF Live, Inv, TypeOK, Attempts
  <2> QED BY <1>7, <2>1 DEF Inv, CompletedMeansRegistered
<1> QED BY <1>4, <1>5, <1>6, <1>8, <1>10, <1>11, <1>12 DEF Inv

-----------------------------------------------------------------------------
(* start *)

LEMMA StartQuiet ==
  ASSUME Inv, NEW r \in Starts,
         \/ BeginStart(r) \/ FindStale(r) \/ Purge(r)
         \/ CreateIdentity(r) \/ PrepareEmail(r) \/ ClerkFails(r)
         \/ RecordFails(r) \/ UndoIdentity(r)
  PROVE  Inv'
<1> USE CallsAssumption DEF Inv, TypeOK, CallsTyped, Calls, Steps, StartSteps, VerifySteps,
                            Outcomes, Goto, Holds, NotYetInserted
<1>1. CASE BeginStart(r)
  BY <1>1, QuietStep DEF BeginStart, StartCall
<1>2. CASE FindStale(r)
  <2>1. call[r] \in StartCall
    BY <1>2 DEF FindStale
  <2>2. [call[r] EXCEPT !.purge = {a \in Stale(r) : attempts[a].linked}] \in StartCall
    BY <2>1 DEF Stale, StartCall
  <2> QED BY <1>2, <2>2, QuietStep DEF FindStale
<1>3. CASE Purge(r)
  <2>1. call[r] \in StartCall
    BY <1>3 DEF Purge
  <2>2. \A a : [call[r] EXCEPT !.purge = @ \ {a}] \in StartCall
    BY <2>1 DEF StartCall
  <2>3. \A a \in call[r].purge : a \in Starts
    BY <2>1 DEF StartCall
  <2>4. CASE Goto(r, "registered") /\ UNCHANGED <<clerk, call>>
    BY <1>3, <2>4, QuietStep DEF Purge
  <2>5. ASSUME NEW a \in call[r].purge, UNCHANGED pc,
               clerk' = [clerk EXCEPT ![a] = "deleted"],
               call' = [call EXCEPT ![r].purge = @ \ {a}]
        PROVE  Inv'
    <3>1. call' = [call EXCEPT ![r] = [call[r] EXCEPT !.purge = @ \ {a}]]
      BY <2>5
    <3>2. call'[r] \in StartCall /\ \A x \in Calls \ {r} : call'[x] = call[x]
      BY <2>2, <3>1
    <3>3. call' \in [Calls -> StartCall \cup VerifyCall \cup {NoCall}]
      BY <2>2, <3>1
    <3>4. clerk' \in [Starts -> Identities]
      BY <2>5 DEF Identities
    <3>5. pc[r] = "purge" /\ UNCHANGED <<clock, attempts, lock, users, pc>>
      BY <1>3, <2>5 DEF Purge
    <3>6. CallsTyped'
      BY <3>2, <3>5
    <3> QED BY <3>2, <3>3, <3>4, <3>5, <3>6, QuietStep
  <2> QED BY <1>3, <2>4, <2>5 DEF Purge
<1>4. CASE CreateIdentity(r)
  BY <1>4, QuietStep DEF CreateIdentity, Identities
<1>5. CASE PrepareEmail(r)
  BY <1>5, QuietStep DEF PrepareEmail, Identities
<1>6. CASE ClerkFails(r)
  BY <1>6, QuietStep DEF ClerkFails, Identities
<1>7. CASE RecordFails(r)
  BY <1>7, QuietStep DEF RecordFails
<1>8. CASE UndoIdentity(r)
  BY <1>8, QuietStep DEF UndoIdentity, Identities
<1> QED BY <1>1, <1>2, <1>3, <1>4, <1>5, <1>6, <1>7, <1>8

LEMMA StartChecks ==
  ASSUME Inv, NEW r \in Starts, CheckRegistered(r) \/ CheckLive(r)
  PROVE  Inv'
<1>1. CASE End(r, "denied")
  BY <1>1, EndStep DEF Calls
<1>2. CASE /\ \/ pc[r] = "registered" /\ Goto(r, "live")
              \/ pc[r] = "live" /\ Goto(r, "insert")
           /\ UNCHANGED <<clock, attempts, lock, clerk, users, call>>
  BY <1>2, CallsAssumption, QuietStep, ZenonT(30)
     DEF Inv, TypeOK, CallsTyped, Calls, Steps, StartSteps,
         VerifySteps, Outcomes, Goto, Holds, NotYetInserted
<1> QED BY <1>1, <1>2 DEF CheckRegistered, CheckLive

LEMMA StartCloses ==
  ASSUME Inv, NEW r \in Starts, ExpireStale(r) \/ CancelAttempt(r)
  PROVE  Inv'
<1>1. CASE ExpireStale(r)
  BY <1>1, CloseStep DEF ExpireStale, Stale, Calls, StartSteps, Holds
<1>2. CASE CancelAttempt(r)
  BY <1>2, CloseStep DEF CancelAttempt, Calls, StartSteps, Holds
<1> QED BY <1>1, <1>2

(* The unique indexes on live attempts: whoever is held is somebody else.  *)
LEMMA InsertStep ==
  ASSUME Inv, NEW r \in Starts, InsertAttempt(r)
  PROVE  Inv'
<1> DEFINE row == [status |-> "AUTHORIZED_FOR_CLERK", email |-> call[r].email,
                   mobile |-> call[r].mobile, expires |-> call[r].at + Ttl, linked |-> FALSE]
<1>1. CASE End(r, "denied")
  BY <1>1, EndStep DEF Calls
<1>2. CASE /\ \A a \in Starts : Live(a) => ~ Clash(attempts[a], call[r])
           /\ pc[r] = "insert"
           /\ attempts' = [attempts EXCEPT ![r] = row]
           /\ Goto(r, "create") /\ UNCHANGED <<clock, lock, clerk, users, call>>
  <2>1. call[r] \in StartCall /\ attempts[r] = NoAttempt
    BY <1>2 DEF Inv, CallsTyped, NotYetInserted, StartSteps
  <2>2. row \in Attempts
    BY <2>1, TimeAssumption DEF StartCall, Attempts, Statuses
  <2>3. TypeOK'
    BY <1>2, <2>2 DEF Inv, TypeOK, Goto, Steps, StartSteps
  <2>4. CallsTyped' /\ NotYetInserted'
    BY <1>2, CallsAssumption DEF Inv, TypeOK, CallsTyped, NotYetInserted, Goto, StartSteps, Calls
  <2>5. \A a \in Starts \ {r} : attempts'[a] = attempts[a]
    BY <1>2
  <2>6. attempts'[r] = row /\ \A a \in Starts : Clash(row, attempts[a]) <=> Clash(attempts[a], call[r])
    BY <1>2 DEF Inv, TypeOK, Clash
  <2>7. LiveAttemptsDiffer'
    <3>1. \A a \in Starts \ {r} : Live(a) => ~ Clash(attempts[a], row) /\ ~ Clash(row, attempts[a])
      BY <1>2 DEF Clash
    <3> QED BY <2>5, <2>6, <3>1 DEF Inv, LiveAttemptsDiffer, Live
  <2>8. ASSUME NEW x \in Verifies, Holds(x)'
        PROVE  /\ Holds(x) /\ call[x].attempt \in Starts \ {r}
               /\ lock'[call'[x].attempt] = x /\ Live(call[x].attempt)'
    <3>1. x # r /\ Holds(x)
      BY <1>2, <2>8, CallsAssumption DEF Holds, Inv, TypeOK, Goto, Calls
    <3>2. call[x].attempt \in Starts /\ lock[call[x].attempt] = x /\ Live(call[x].attempt)
      BY <3>1 DEF Inv, CallsTyped, HeldIsLive, Holds, VerifySteps, VerifyCall
    <3>3. call[x].attempt # r
      BY <2>1, <3>2 DEF Live, NoAttempt
    <3> QED BY <1>2, <2>5, <3>1, <3>2, <3>3 DEF Live
  <2>9. HeldIsLive' /\ CheckedIsNew'
    BY <1>2, <2>5, <2>8, CallsAssumption
       DEF HeldIsLive, Inv, TypeOK, CheckedIsNew, Registered, Holds, Goto, Calls
  <2>10. RegisteredOnce'
    BY <1>2, CallsAssumption DEF Inv, RegisteredOnce, TypeOK, Goto, Calls
  <2>11. CompletedMeansRegistered'
    BY <1>2, <2>1, <2>5, <2>6 DEF Inv, CompletedMeansRegistered, NoAttempt
  <2> QED BY <2>3, <2>4, <2>7, <2>9, <2>10, <2>11 DEF Inv
<1> QED BY <1>1, <1>2 DEF InsertAttempt

LEMMA RecordStep ==
  ASSUME Inv, NEW r \in Starts, RecordIdentity(r)
  PROVE  Inv'
<1>1. /\ attempts' = [attempts EXCEPT ![r].linked = @ \/ Live(r)]
      /\ pc' = [pc EXCEPT ![r] = "ok"] /\ pc[r] = "record"
      /\ UNCHANGED <<clock, lock, clerk, users, call>>
  BY DEF RecordIdentity, Goto
<1>2. \A a \in Starts : /\ attempts'[a] \in Attempts \cup {NoAttempt}
                        /\ attempts[a] = NoAttempt => attempts'[a] = NoAttempt
                        /\ attempts'[a].status = attempts[a].status
                        /\ attempts[a] # NoAttempt => /\ attempts'[a].email = attempts[a].email
                                                     /\ attempts'[a].mobile = attempts[a].mobile
  <2>1. \A a \in Starts \ {r} : attempts'[a] = attempts[a]
    BY <1>1
  <2>2. attempts'[r] = [attempts[r] EXCEPT !.linked = @ \/ Live(r)]
    BY <1>1 DEF Inv, TypeOK
  <2>3. CASE attempts[r] = NoAttempt
    <3>1. attempts'[r] = NoAttempt
      BY <2>2, <2>3 DEF NoAttempt
    <3> QED BY <2>1, <2>3, <3>1 DEF Inv, TypeOK
  <2>4. CASE attempts[r] \in Attempts
    <3>1. (attempts[r].linked \/ Live(r)) \in BOOLEAN
      OBVIOUS
    <3>2. attempts'[r] \in Attempts /\ attempts'[r].status = attempts[r].status
          /\ attempts'[r].email = attempts[r].email /\ attempts'[r].mobile = attempts[r].mobile
      BY <2>2, <2>4, <3>1 DEF Attempts
    <3>3. attempts[r] # NoAttempt
      BY <2>4 DEF Attempts, NoAttempt, Statuses
    <3> QED BY <2>1, <3>2, <3>3 DEF Inv, TypeOK
  <2> QED BY <2>3, <2>4 DEF Inv, TypeOK
<1>3. \A a \in Starts : Live(a) => attempts[a] # NoAttempt
  BY DEF Live, NoAttempt
<1>4. \A a \in Starts : Live(a)' <=> Live(a)
  BY <1>2 DEF Live
<1>5. TypeOK'
  <2>1. attempts' \in [Starts -> Attempts \cup {NoAttempt}]
    BY <1>1, <1>2 DEF Inv, TypeOK
  <2> QED BY <1>1, <2>1 DEF Inv, TypeOK, Outcomes
<1>6. CallsTyped' /\ NotYetInserted'
  BY <1>1, <1>2, CallsAssumption
     DEF Inv, TypeOK, CallsTyped, NotYetInserted, StartSteps, Outcomes, Calls
<1>7. LiveAttemptsDiffer'
  BY <1>2, <1>3, <1>4 DEF Inv, LiveAttemptsDiffer, Clash
<1>8. \A x \in Verifies : /\ Holds(x)' <=> Holds(x)
                          /\ Holds(x) => call[x].attempt \in Starts
  BY <1>1, CallsAssumption
     DEF Inv, TypeOK, CallsTyped, Holds, VerifySteps, VerifyCall, Calls
<1>9. HeldIsLive'
  BY <1>1, <1>4, <1>8 DEF Inv, HeldIsLive
<1>10. CheckedIsNew'
  <2>1. \A x \in Verifies : Holds(x) => Live(call[x].attempt)
    BY DEF Inv, HeldIsLive
  <2> QED BY <1>1, <1>2, <1>3, <1>8, <2>1, CallsAssumption
          DEF Inv, TypeOK, CheckedIsNew, Registered, Clash, Holds, Calls
<1>11. RegisteredOnce'
  BY <1>1, CallsAssumption DEF Inv, RegisteredOnce, TypeOK, Calls
<1>12. CompletedMeansRegistered'
  BY <1>1, <1>2 DEF Inv, CompletedMeansRegistered
<1> QED BY <1>5, <1>6, <1>7, <1>9, <1>10, <1>11, <1>12 DEF Inv

-----------------------------------------------------------------------------
(* verify and resend *)

LEMMA VerifyQuiet ==
  ASSUME Inv, NEW r \in Verifies,
         BeginVerify(r) \/ LoadAttempt(r) \/ ResendCode(r) \/ VerifyCode(r)
  PROVE  Inv'
<1> USE CallsAssumption DEF Inv, TypeOK, CallsTyped, Calls, Steps, StartSteps, VerifySteps,
                            Outcomes, Goto, Holds
<1>1. CASE BeginVerify(r)
  <2>1. PICK a \in Starts, op \in {"verify", "resend"} :
          call' = [call EXCEPT ![r] = [op |-> op, attempt |-> a, at |-> 0]]
    BY <1>1 DEF BeginVerify
  <2>2. [op |-> op, attempt |-> a, at |-> 0] \in VerifyCall
    BY DEF VerifyCall
  <2> QED BY <1>1, <2>1, <2>2, QuietStep DEF BeginVerify
<1>2. CASE LoadAttempt(r)
  <2>1. CASE End(r, "denied")
    BY <2>1, EndStep
  <2>2. CASE ~ (~Live(call[r].attempt) \/
                (attempts[call[r].attempt].expires > clock /\ ~attempts[call[r].attempt].linked))
    <3>1. call[r] \in VerifyCall
      BY <1>2 DEF LoadAttempt
    <3>2. call[r].op \in {"verify", "resend"} /\ call[r].attempt \in Starts
      BY <3>1 DEF VerifyCall
    <3>3. attempts[call[r].attempt].expires \in Nat
      BY <2>2, <3>2 DEF Live, NoAttempt, Attempts
    <3>4. \E label \in {"lapse", "mail", "otp"} : Goto(r, label)
      BY <1>2, <2>2, <3>2, <3>3 DEF LoadAttempt
    <3> QED BY <1>2, <2>2, <3>4, QuietStep DEF LoadAttempt
  <2> QED BY <1>2, <2>1, <2>2 DEF LoadAttempt
<1>3. CASE ResendCode(r)
  BY <1>3, EndStep DEF ResendCode
<1>4. CASE VerifyCode(r)
  <2>1. CASE End(r, "failed")
    BY <2>1, EndStep
  <2>2. CASE /\ Goto(r, "denied") /\ UNCHANGED <<clerk, call>>
             /\ UNCHANGED <<clock, attempts, lock, users>>
    BY <1>4, <2>2, QuietStep DEF VerifyCode
  <2>3. CASE /\ clerk' = [clerk EXCEPT ![call[r].attempt] = "verified"]
             /\ call' = [call EXCEPT ![r].at = clock]
             /\ Goto(r, "lock") \/ Goto(r, "failed")
             /\ UNCHANGED <<clock, attempts, lock, users>>
    <3>1. call[r] \in VerifyCall /\ pc[r] = "otp"
      BY <1>4 DEF VerifyCode
    <3>2. call' = [call EXCEPT ![r] = [call[r] EXCEPT !.at = clock]]
      BY <2>3
    <3>3. [call[r] EXCEPT !.at = clock] \in VerifyCall
      BY <3>1 DEF VerifyCall
    <3>4. call' \in [Calls -> StartCall \cup VerifyCall \cup {NoCall}] /\ call'[r] \in VerifyCall
      BY <3>2, <3>3
    <3>5. \A x \in Calls \ {r} : call'[x] = call[x]
      BY <3>2
    <3>6. clerk' \in [Starts -> Identities]
      BY <2>3 DEF Identities
    <3>7. CallsTyped'
      BY <2>3, <3>4, <3>5
    <3>8. /\ pc' \in [Calls -> Steps \cup Outcomes \cup {"idle"}]
          /\ \A x \in Calls \ {r} : pc'[x] = pc[x]
          /\ ~ Holds(r) /\ pc'[r] \notin {"check", "register", "conflict"}
      BY <2>3, <3>1
    <3>9. r \in Calls /\ r \notin Starts /\ clock' \in Nat
      BY <2>3
    <3> HIDE DEF Inv, TypeOK, CallsTyped, Holds, Goto
    <3> QED BY <2>3, <3>4, <3>5, <3>6, <3>7, <3>8, <3>9, QuietStep
  <2> QED BY <1>4, <2>1, <2>2, <2>3 DEF VerifyCode
<1> QED BY <1>1, <1>2, <1>3, <1>4

LEMMA LapseStep ==
  ASSUME Inv, NEW r \in Verifies, Lapse(r)
  PROVE  Inv'
<1>1. call[r].attempt \in Starts
  BY DEF Lapse, Inv, CallsTyped, VerifySteps, VerifyCall
<1> QED BY <1>1, CloseStep DEF Lapse, Calls, VerifySteps, Holds

LEMMA LockStep ==
  ASSUME Inv, NEW r \in Verifies, LockAttempt(r)
  PROVE  Inv'
<1> DEFINE a == call[r].attempt
<1>0. pc[r] = "lock" /\ call[r] \in VerifyCall /\ a \in Starts /\ lock[a] = None
  BY DEF LockAttempt, Inv, CallsTyped, VerifySteps, VerifyCall
<1>1. CASE End(r, "denied")
  BY <1>1, EndStep DEF Calls
<1>2. CASE /\ Live(a) /\ SetStatus({a}, "EXPIRED") /\ Goto(r, "denied")
           /\ UNCHANGED <<clock, lock, clerk, users, call>>
  BY <1>0, <1>2, CloseStep DEF Calls, VerifySteps, Holds
<1>3. CASE /\ Live(a) /\ lock' = [lock EXCEPT ![a] = r] /\ Goto(r, "check")
           /\ UNCHANGED <<clock, attempts, clerk, users, call>>
  <2>1. pc' = [pc EXCEPT ![r] = "check"]
    BY <1>3 DEF Goto
  <2>2. TypeOK' /\ CallsTyped' /\ NotYetInserted'
    BY <1>0, <1>3, <2>1, CallsAssumption
       DEF Inv, TypeOK, CallsTyped, NotYetInserted, Steps, VerifySteps, Calls
  <2>3. LiveAttemptsDiffer' /\ CompletedMeansRegistered'
    BY <1>3 DEF Inv, LiveAttemptsDiffer, Live, CompletedMeansRegistered
  <2>4. ASSUME NEW x \in Verifies, Holds(x)'
        PROVE  lock'[call'[x].attempt] = x /\ Live(call[x].attempt)'
    <3>1. CASE x = r
      BY <1>0, <1>3, <3>1 DEF Inv, TypeOK, Live
    <3>2. CASE x # r
      <4>1. Holds(x)
        BY <2>1, <2>4, <3>2 DEF Holds, Inv, TypeOK, Calls
      <4>2. lock[call[x].attempt] = x /\ Live(call[x].attempt) /\ call[x].attempt \in Starts
        BY <4>1 DEF Inv, HeldIsLive, CallsTyped, Holds, VerifySteps, VerifyCall
      <4>3. call[x].attempt # a
        BY <1>0, <4>2, CallsAssumption
      <4> QED BY <1>3, <4>2, <4>3 DEF Live, Inv, TypeOK
    <3> QED BY <3>1, <3>2
  <2>5. HeldIsLive' /\ CheckedIsNew'
    BY <1>3, <2>1, <2>4 DEF HeldIsLive, CheckedIsNew, Inv, TypeOK, Registered, Calls
  <2>6. RegisteredOnce'
    BY <1>3, <2>1 DEF Inv, RegisteredOnce, TypeOK, Calls
  <2> QED BY <2>2, <2>3, <2>5, <2>6 DEF Inv
<1> QED BY <1>1, <1>2, <1>3 DEF LockAttempt

LEMMA CheckStep ==
  ASSUME Inv, NEW r \in Verifies, CheckIdentity(r)
  PROVE  Inv'
<1>1. CASE End(r, "denied")
  BY <1>1, EndStep DEF Calls
<1>2. CASE /\ pc[r] = "check" /\ ~ Registered(attempts[call[r].attempt])
           /\ Goto(r, "register") /\ UNCHANGED <<clock, attempts, lock, clerk, users, call>>
  <2>1. pc' = [pc EXCEPT ![r] = "register"]
    BY <1>2 DEF Goto
  <2>2. TypeOK' /\ CallsTyped' /\ NotYetInserted'
    BY <1>2, <2>1, CallsAssumption
       DEF Inv, TypeOK, CallsTyped, NotYetInserted, Steps, VerifySteps, Calls
  <2>3. LiveAttemptsDiffer' /\ CompletedMeansRegistered'
    BY <1>2 DEF Inv, LiveAttemptsDiffer, Live, CompletedMeansRegistered
  <2>4. HeldIsLive'
    BY <1>2, <2>1 DEF Inv, TypeOK, HeldIsLive, Holds, Live, Calls
  <2>5. CheckedIsNew'
    BY <1>2, <2>1 DEF Inv, TypeOK, CheckedIsNew, Registered, Calls
  <2>6. RegisteredOnce'
    BY <1>2, <2>1 DEF Inv, RegisteredOnce, TypeOK, Calls
  <2> QED BY <2>2, <2>3, <2>4, <2>5, <2>6 DEF Inv
<1> QED BY <1>1, <1>2 DEF CheckIdentity

(* The attempt is live and held, so its USER is new, and no other attempt  *)
(* past its check is of the same person.                                   *)
LEMMA RegisterStep ==
  ASSUME Inv, NEW r \in Verifies, Register(r)
  PROVE  Inv'
<1> DEFINE a == call[r].attempt
           user == [from |-> a, email |-> attempts[a].email, mobile |-> attempts[a].mobile]
<1>1. /\ pc[r] = "register" /\ a \in Starts /\ lock[a] = r /\ Live(a)
      /\ ~ Registered(attempts[a])
  BY DEF Register, Inv, CallsTyped, VerifySteps, VerifyCall, HeldIsLive, Holds, CheckedIsNew
<1>2. /\ users' = users \cup {user}
      /\ attempts' = [x \in Starts |-> IF x = a THEN [attempts[a] EXCEPT !.status = "COMPLETED"]
                                       ELSE attempts[x]]
      /\ lock' = [x \in Starts |-> IF lock[x] = r THEN None ELSE lock[x]]
      /\ pc' = [pc EXCEPT ![r] = "ok"] /\ UNCHANGED <<clock, clerk, call>>
  BY <1>1 DEF Register, SetStatus, Release, Goto
<1>3. attempts[a] \in Attempts
  BY <1>1 DEF Inv, TypeOK, Live, NoAttempt
<1>4. /\ \A x \in Starts \ {a} : attempts'[x] = attempts[x]
      /\ attempts'[a] \in Attempts /\ attempts'[a].status = "COMPLETED"
  BY <1>1, <1>2, <1>3 DEF Attempts, Statuses
<1>5. TypeOK'
  <2>1. user \in USERs
    BY <1>1, <1>3 DEF Attempts, USERs
  <2>2. attempts' \in [Starts -> Attempts \cup {NoAttempt}]
    BY <1>2, <1>4 DEF Inv, TypeOK
  <2> QED BY <1>2, <2>1, <2>2 DEF Inv, TypeOK, Outcomes
<1>6. CallsTyped'
  BY <1>2, CallsAssumption DEF Inv, TypeOK, CallsTyped, Outcomes, VerifySteps, Calls
<1>7. NotYetInserted'
  <2>1. attempts[a] # NoAttempt
    BY <1>1 DEF Live, NoAttempt
  <2> QED BY <1>2, <1>4, <2>1, CallsAssumption DEF Inv, TypeOK, NotYetInserted, Calls
<1>8. \A x \in Starts : Live(x)' <=> x # a /\ Live(x)
  BY <1>1, <1>4 DEF Live
<1>9. LiveAttemptsDiffer'
  <2>1. ASSUME NEW x \in Starts, NEW y \in Starts, Live(x)', Live(y)', Clash(attempts'[x], attempts'[y])
        PROVE  x = y
    BY <1>4, <1>8, <2>1 DEF Inv, LiveAttemptsDiffer
  <2> QED BY <2>1 DEF LiveAttemptsDiffer
<1>10. ASSUME NEW x \in Verifies, Holds(x)'
       PROVE  /\ x # r /\ Holds(x) /\ call[x].attempt \in Starts \ {a}
              /\ lock'[call'[x].attempt] = x /\ Live(call[x].attempt)'
  <2>1. x # r /\ Holds(x)
    BY <1>2, <1>10 DEF Holds, Inv, TypeOK, Calls
  <2>2. call[x].attempt \in Starts /\ lock[call[x].attempt] = x /\ Live(call[x].attempt)
    BY <2>1 DEF Inv, HeldIsLive, CallsTyped, Holds, VerifySteps, VerifyCall
  <2>3. call[x].attempt # a
    BY <1>1, <2>1, <2>2
  <2> QED BY <1>2, <1>8, <2>1, <2>2, <2>3
<1>11. HeldIsLive'
  BY <1>2, <1>10 DEF HeldIsLive
<1>12. ASSUME NEW x \in Verifies, pc'[x] = "register"
       PROVE  ~ Registered(attempts[call[x].attempt])'
  <2>1. /\ x # r /\ pc[x] = "register" /\ call'[x] = call[x]
        /\ call[x].attempt \in Starts \ {a} /\ Live(call[x].attempt)
    BY <1>2, <1>8, <1>10, <1>12 DEF Holds, Inv, TypeOK, Calls
  <2>2. ~ Registered(attempts[call[x].attempt])
    BY <2>1 DEF Inv, CheckedIsNew
  <2>3. ~ Clash(user, attempts[call[x].attempt])
    BY <1>1, <2>1 DEF Inv, LiveAttemptsDiffer, Clash
  <2>4. attempts'[call[x].attempt] = attempts[call[x].attempt]
    BY <1>4, <2>1
  <2> QED BY <1>2, <2>1, <2>2, <2>3, <2>4 DEF Registered
<1>13. CheckedIsNew'
  BY <1>2, <1>12 DEF CheckedIsNew, Registered
<1>14. RegisteredOnce'
  <2>1. \A u \in users : ~ Clash(u, user) /\ ~ Clash(user, u)
    BY <1>1 DEF Registered, Clash
  <2> QED BY <1>2, <2>1, CallsAssumption DEF Inv, RegisteredOnce, TypeOK, Calls
<1>15. CompletedMeansRegistered'
  <2>1. user.from = a /\ user \in users' /\ users' = users \cup {user}
    BY <1>2
  <2>2. ASSUME NEW x \in Starts
        PROVE  attempts'[x].status = "COMPLETED" <=> \E u \in users' : u.from = x
    <3>1. CASE x = a
      BY <1>4, <2>1, <3>1
    <3>2. CASE x # a
      BY <1>4, <2>1, <3>2 DEF Inv, CompletedMeansRegistered
    <3> QED BY <3>1, <3>2
  <2> QED BY <2>2 DEF CompletedMeansRegistered
<1> QED BY <1>5, <1>6, <1>7, <1>9, <1>11, <1>13, <1>14, <1>15 DEF Inv

-----------------------------------------------------------------------------
(* The invariant holds. *)

LEMMA InitInv == Init => Inv
<1> SUFFICES ASSUME Init
             PROVE  Inv
  OBVIOUS
<1> USE CallsAssumption DEF Init, Calls
<1>1. TypeOK /\ CallsTyped
  BY DEF TypeOK, CallsTyped, Identities, StartSteps, VerifySteps
<1>2. NotYetInserted /\ LiveAttemptsDiffer
  BY DEF NotYetInserted, LiveAttemptsDiffer, Live, NoAttempt
<1>3. HeldIsLive /\ CheckedIsNew
  BY DEF HeldIsLive, CheckedIsNew, Holds
<1>4. RegisteredOnce /\ CompletedMeansRegistered
  BY DEF RegisteredOnce, CompletedMeansRegistered, NoAttempt
<1> QED BY <1>1, <1>2, <1>3, <1>4 DEF Inv

(* Steps in which no call moves. *)
LEMMA ClockStep ==
  ASSUME Inv, clock' \in Nat, UNCHANGED <<attempts, lock, clerk, users, pc, call>>
  PROVE  Inv'
<1>1. TypeOK' /\ CallsTyped' /\ NotYetInserted'
  BY DEF Inv, TypeOK, CallsTyped, NotYetInserted
<1>2. LiveAttemptsDiffer' /\ HeldIsLive' /\ CheckedIsNew'
  BY DEF Inv, LiveAttemptsDiffer, HeldIsLive, CheckedIsNew, Holds, Live, Registered
<1>3. RegisteredOnce' /\ CompletedMeansRegistered'
  BY DEF Inv, RegisteredOnce, CompletedMeansRegistered
<1> QED BY <1>1, <1>2, <1>3 DEF Inv

LEMMA NextInv == Inv /\ [Next]_vars => Inv'
<1> SUFFICES ASSUME Inv, [Next]_vars
             PROVE  Inv'
  OBVIOUS
<1>1. ASSUME NEW r \in Starts, BeginStart(r) \/ Starting(r)
      PROVE  Inv'
  BY <1>1, StartQuiet, StartChecks, StartCloses, InsertStep, RecordStep DEF Starting
<1>2. ASSUME NEW r \in Verifies, BeginVerify(r) \/ Verifying(r)
      PROVE  Inv'
  BY <1>2, VerifyQuiet, LapseStep, LockStep, CheckStep, RegisterStep DEF Verifying
<1>3. ASSUME NEW r \in Calls, Crash(r)
      PROVE  Inv'
  BY <1>3, EndStep DEF Crash
<1>4. CASE Tick
  BY <1>4, ClockStep DEF Tick, Inv, TypeOK
<1>5. CASE UNCHANGED vars
  BY <1>5, ClockStep DEF vars, Inv, TypeOK
<1> QED BY <1>1, <1>2, <1>3, <1>4, <1>5 DEF Next, Finished, Calls

(* Every variable keeps its type (self_onboarding.py).                     *)
THEOREM TypeCorrect == Spec => []TypeOK
<1>1. Inv => TypeOK
  BY DEF Inv
<1> QED BY <1>1, InitInv, NextInv, PTL DEF Spec

(* However verifications race, a person is registered once, and the unique *)
(* indexes of users never have to refuse one (verify_email_code).          *)
THEOREM RegisteredOnceHolds == Spec => []RegisteredOnce
<1>1. Inv => RegisteredOnce
  BY DEF Inv
<1> QED BY <1>1, InitInv, NextInv, PTL DEF Spec

(* An attempt is COMPLETED exactly when its USER exists, though Register   *)
(* overwrites whatever status the attempt has (verify_email_code).         *)
THEOREM CompletedMeansRegisteredHolds == Spec => []CompletedMeansRegistered
<1>1. Inv => CompletedMeansRegistered
  BY DEF Inv
<1> QED BY <1>1, InitInv, NextInv, PTL DEF Spec

(* A closed attempt keeps its status: the closing UPDATEs ask for a live   *)
(* one, and Register, which does not ask, holds a live one.                *)
LEMMA ClosedStep ==
  ASSUME Inv, [Next]_vars, NEW a \in Starts,
         attempts[a].status \in Statuses \ {"AUTHORIZED_FOR_CLERK"}
  PROVE  attempts'[a].status = attempts[a].status
<1>1. ~ Live(a) /\ attempts[a] # NoAttempt /\ attempts[a] \in Attempts
  BY DEF Live, NoAttempt, Statuses, Inv, TypeOK
<1>2. ASSUME NEW S \in SUBSET Starts, NEW status, SetStatus(S, status), a \notin S
      PROVE  attempts'[a] = attempts[a]
  BY <1>2 DEF SetStatus
<1>3. ASSUME NEW r \in Starts, BeginStart(r) \/ Starting(r)
      PROVE  attempts'[a].status = attempts[a].status
  <2>1. CASE ExpireStale(r)
    BY <1>1, <1>2, <2>1 DEF ExpireStale, Stale
  <2>2. CASE CancelAttempt(r)
    BY <1>1, <1>2, <2>2 DEF CancelAttempt
  <2>3. CASE InsertAttempt(r)
    BY <1>1, <2>3 DEF InsertAttempt, End, Inv, TypeOK, NotYetInserted
  <2>4. CASE RecordIdentity(r)
    BY <1>1, <2>4 DEF RecordIdentity, Inv, TypeOK, Attempts
  <2> QED BY <1>3, <2>1, <2>2, <2>3, <2>4
          DEF BeginStart, Starting, FindStale, Purge, CheckRegistered, CheckLive, CreateIdentity,
              PrepareEmail, ClerkFails, RecordFails, UndoIdentity, End
<1>4. ASSUME NEW r \in Verifies, BeginVerify(r) \/ Verifying(r)
      PROVE  attempts'[a].status = attempts[a].status
  <2>1. CASE Lapse(r)
    <3>1. call[r].attempt \in Starts
      BY <2>1 DEF Lapse, Inv, CallsTyped, VerifySteps, VerifyCall
    <3> QED BY <1>1, <1>2, <2>1, <3>1 DEF Lapse
  <2>2. CASE LockAttempt(r)
    <3>1. call[r].attempt \in Starts
      BY <2>2 DEF LockAttempt, Inv, CallsTyped, VerifySteps, VerifyCall
    <3> QED BY <1>1, <1>2, <2>2, <3>1 DEF LockAttempt, End
  <2>3. CASE Register(r)
    <3>1. call[r].attempt \in Starts \ {a}
      BY <1>1, <2>3 DEF Register, Inv, CallsTyped, HeldIsLive, Holds, VerifySteps, VerifyCall
    <3> QED BY <1>1, <1>2, <2>3, <3>1 DEF Register, End
  <2> QED BY <1>4, <2>1, <2>2, <2>3
          DEF BeginVerify, Verifying, LoadAttempt, ResendCode, VerifyCode, CheckIdentity, End
<1> QED BY <1>3, <1>4 DEF Next, Crash, End, Tick, Finished, vars, Calls

(* COMPLETED, EXPIRED and CANCELLED are final, though Register asks for no *)
(* status in its UPDATE (verify_email_code).                               *)
THEOREM ClosedAttemptsStayHolds == Spec => ClosedAttemptsStay
<1>1. Inv /\ [Next]_vars =>
        [\A a \in Starts :
           attempts[a].status \in Statuses \ {"AUTHORIZED_FOR_CLERK"} =>
             attempts'[a].status = attempts[a].status]_vars
  BY ClosedStep
<1> QED BY <1>1, InitInv, NextInv, PTL DEF Spec, ClosedAttemptsStay

-----------------------------------------------------------------------------
(* The identity Clerk keeps for an attempt.  Only a start gives its own     *)
(* identity, another start deletes it only when the attempt is closed, and  *)
(* a verification can only verify it.                                       *)

Exists(a) == attempts[a] # NoAttempt

(* The identities a start will delete are of attempts that are closed, or   *)
(* that its UPDATE is about to close.                                       *)
PurgedAreClosed ==
  \A r \in Starts : pc[r] \in {"expire", "purge"} =>
    \A a \in call[r].purge :
      /\ Exists(a) /\ attempts[a].linked
      /\ attempts[a].expires <= call[r].at /\ Clash(attempts[a], call[r])
      /\ pc[r] = "purge" => ~ Live(a)

(* The id of an identity is recorded by the step that returns the attempt. *)
LinkedIsReturned ==
  \A a \in Starts : Exists(a) /\ attempts[a].linked => pc[a] = "ok"

(* Until then the identity is known to the start alone. *)
RecordedIsNew ==
  \A a \in Starts : pc[a] = "record" => clerk[a] = "unverified"

(* Past Clerk's answer the address is verified, unless the attempt closed. *)
Vouched(r) == pc[r] \in {"lock", "check", "register"}
VouchedIsVerified ==
  \A r \in Verifies :
    /\ pc[r] \in VerifySteps => pc[call[r].attempt] = "ok"
    /\ Vouched(r) /\ Live(call[r].attempt) => clerk[call[r].attempt] = "verified"

IdentityInv ==
  /\ PurgedAreClosed
  /\ LinkedIsReturned
  /\ RecordedIsNew
  /\ VouchedIsVerified
  /\ LiveAttemptUsable

(* What a step may do to the row of an attempt: it appears when its start   *)
(* inserts it, it never becomes live again, and its start links it.         *)
RowMoves(a) ==
  /\ Exists(a) => /\ Exists(a)' /\ Clash(attempts'[a], attempts[a])
                  /\ attempts'[a].email = attempts[a].email
                  /\ attempts'[a].mobile = attempts[a].mobile
                  /\ attempts'[a].expires = attempts[a].expires
                  /\ Live(a)' => Live(a)
                  /\ attempts[a].linked => attempts'[a].linked
                  /\ attempts'[a].linked =>
                       attempts[a].linked \/ (pc[a] = "record" /\ pc'[a] = "ok")
  /\ Exists(a)' /\ ~ Exists(a) => pc[a] = "insert" /\ ~ attempts'[a].linked

RowKept(a) == attempts'[a] = attempts[a]

LEMMA KeptMoves ==
  ASSUME NEW a, RowKept(a)
  PROVE  RowMoves(a)
BY DEF RowKept, RowMoves, Exists, Live, Clash

LEMMA ClosedMoves ==
  ASSUME Inv, NEW S \in SUBSET Starts, NEW closed \in Statuses \ {"AUTHORIZED_FOR_CLERK"},
         SetStatus(S, closed), \A a \in S : Live(a), NEW a \in Starts
  PROVE  RowMoves(a) /\ (a \in S => ~ Live(a)')
<1>1. CASE a \notin S
  BY <1>1, KeptMoves DEF SetStatus, RowKept
<1>2. CASE a \in S
  <2>1. attempts[a] \in Attempts
    BY <1>2 DEF Inv, TypeOK, Live, NoAttempt
  <2>2. attempts'[a] = [attempts[a] EXCEPT !.status = closed]
    BY <1>2 DEF SetStatus
  <2> QED BY <1>2, <2>1, <2>2
          DEF RowMoves, Exists, Live, Clash, Attempts, NoAttempt, Statuses
<1> QED BY <1>1, <1>2

LEMMA InsertMoves ==
  ASSUME Inv, NEW r \in Starts, InsertAttempt(r), NEW a \in Starts
  PROVE  RowMoves(a)
<1>1. CASE RowKept(a)
  BY <1>1, KeptMoves
<1>2. CASE ~ RowKept(a)
  <2>1. a = r /\ pc[r] = "insert" /\ attempts[r] = NoAttempt
    BY <1>2 DEF InsertAttempt, End, RowKept, Inv, TypeOK, NotYetInserted
  <2>2. ~ attempts'[a].linked
    BY <1>2, <2>1 DEF InsertAttempt, End, RowKept, Inv, TypeOK
  <2> QED BY <2>1, <2>2 DEF RowMoves, Exists
<1> QED BY <1>1, <1>2

LEMMA RecordMoves ==
  ASSUME Inv, NEW r \in Starts, RecordIdentity(r), NEW a \in Starts
  PROVE  /\ RowMoves(a)
         /\ a = r /\ Live(r)' => attempts'[r].linked
<1>1. CASE a # r
  BY <1>1, KeptMoves DEF RecordIdentity, RowKept, Inv, TypeOK
<1>2. CASE a = r
  <2>1. /\ pc[r] = "record" /\ pc'[r] = "ok"
        /\ attempts'[r] = [attempts[r] EXCEPT !.linked = @ \/ Live(r)]
    BY DEF RecordIdentity, Goto, Inv, TypeOK, Calls
  <2>2. CASE Exists(r)
    <3>1. attempts[r] \in Attempts
      BY <2>2 DEF Exists, Inv, TypeOK
    <3>2. /\ attempts'[r].email = attempts[r].email /\ attempts'[r].mobile = attempts[r].mobile
          /\ attempts'[r].expires = attempts[r].expires
          /\ attempts'[r].status = attempts[r].status
          /\ attempts'[r].linked = (attempts[r].linked \/ Live(r))
      BY <2>1, <3>1 DEF Attempts
    <3>3. Exists(r)'
      BY <2>1, <3>1 DEF Exists, Attempts, NoAttempt
    <3> QED BY <1>2, <2>1, <2>2, <3>2, <3>3 DEF RowMoves, Live, Clash
  <2>3. CASE ~ Exists(r)
    <3>1. attempts'[r] = attempts[r]
      BY <2>1, <2>3 DEF Exists, NoAttempt
    <3> QED BY <1>2, <2>3, <3>1, KeptMoves DEF RowKept, Exists, Live, NoAttempt
  <2> QED BY <2>2, <2>3
<1> QED BY <1>1, <1>2

LEMMA RowsMove ==
  ASSUME Inv, [Next]_vars, NEW a \in Starts
  PROVE  RowMoves(a)
<1>1. ASSUME NEW r \in Starts, BeginStart(r) \/ Starting(r)
      PROVE  RowMoves(a)
  <2>1. CASE ExpireStale(r)
    BY <2>1, ClosedMoves DEF ExpireStale, Stale, Statuses
  <2>2. CASE CancelAttempt(r)
    BY <2>2, ClosedMoves DEF CancelAttempt, Statuses
  <2>3. CASE InsertAttempt(r) \/ RecordIdentity(r)
    BY <2>3, InsertMoves, RecordMoves
  <2> QED BY <1>1, <2>1, <2>2, <2>3, KeptMoves
          DEF BeginStart, Starting, FindStale, Purge, CheckRegistered, CheckLive, CreateIdentity,
              PrepareEmail, ClerkFails, RecordFails, UndoIdentity, End, RowKept
<1>2. ASSUME NEW r \in Verifies, BeginVerify(r) \/ Verifying(r)
      PROVE  RowMoves(a)
  <2>1. CASE Lapse(r)
    <3>1. call[r].attempt \in Starts
      BY <2>1 DEF Lapse, Inv, CallsTyped, VerifySteps, VerifyCall
    <3> QED BY <2>1, <3>1, ClosedMoves DEF Lapse, Statuses
  <2>2. CASE LockAttempt(r)
    <3>1. call[r].attempt \in Starts
      BY <2>2 DEF LockAttempt, Inv, CallsTyped, VerifySteps, VerifyCall
    <3> QED BY <2>2, <3>1, ClosedMoves, KeptMoves DEF LockAttempt, End, Statuses, RowKept
  <2>3. CASE Register(r)
    <3>1. call[r].attempt \in Starts /\ Live(call[r].attempt)
      BY <2>3 DEF Register, Inv, CallsTyped, HeldIsLive, Holds, VerifySteps, VerifyCall
    <3> QED BY <2>3, <3>1, ClosedMoves, KeptMoves DEF Register, End, Statuses, RowKept
  <2> QED BY <1>2, <2>1, <2>2, <2>3, KeptMoves
          DEF BeginVerify, Verifying, LoadAttempt, ResendCode, VerifyCode, CheckIdentity, End,
              RowKept
<1> QED BY <1>1, <1>2, KeptMoves
        DEF Next, Crash, End, Tick, Finished, vars, Calls, RowKept

(* The steps of a start around the return of its attempt. *)
StartMoves(a) ==
  /\ pc[a] = "ok" => pc'[a] = "ok"
  /\ pc'[a] = "ok" =>
       \/ pc[a] = "ok"
       \/ pc[a] = "record" /\ (Live(a)' => attempts'[a].linked) /\ UNCHANGED clerk
  /\ pc'[a] = "record" =>
       \/ pc[a] = "record"
       \/ pc[a] = "prepare" /\ clerk'[a] = "unverified"

LEMMA StartsMove ==
  ASSUME Inv, [Next]_vars, NEW a \in Starts
  PROVE  StartMoves(a)
<1> USE CallsAssumption DEF Inv, TypeOK, Goto, Calls, StartMoves
<1>1. ASSUME NEW r \in Starts, BeginStart(r) \/ Starting(r)
      PROVE  StartMoves(a)
  <2>1. CASE RecordIdentity(r)
    BY <2>1, RecordMoves DEF RecordIdentity
  <2>2. CASE PrepareEmail(r)
    BY <2>2 DEF PrepareEmail
  <2>3. CASE UNCHANGED pc
    BY <2>3
  <2>4. CASE \/ BeginStart(r) \/ FindStale(r) \/ ExpireStale(r) \/ Purge(r) \/ CheckRegistered(r)
             \/ CheckLive(r) \/ InsertAttempt(r) \/ CreateIdentity(r)
    BY <2>3, <2>4 DEF BeginStart, FindStale, ExpireStale, Purge, CheckRegistered, CheckLive, InsertAttempt,
                      CreateIdentity, End
  <2>5. CASE ClerkFails(r) \/ RecordFails(r) \/ CancelAttempt(r) \/ UndoIdentity(r)
    BY <2>5 DEF ClerkFails, RecordFails, CancelAttempt, UndoIdentity
  <2> QED BY <1>1, <2>1, <2>2, <2>4, <2>5 DEF Starting
<1>2. ASSUME NEW r \in Verifies, BeginVerify(r) \/ Verifying(r)
      PROVE  StartMoves(a)
  <2>1. pc'[a] = pc[a]
    BY <1>2 DEF BeginVerify, Verifying, LoadAttempt, Lapse, ResendCode, VerifyCode, LockAttempt,
                CheckIdentity, Register, End
  <2> QED BY <2>1
<1>3. ASSUME NEW r \in Calls, Crash(r)
      PROVE  StartMoves(a)
  <2>1. pc[r] # "ok" /\ pc' = [pc EXCEPT ![r] = "failed"]
    BY <1>3 DEF Crash, End, Steps, StartSteps, VerifySteps
  <2> QED BY <2>1
<1> QED BY <1>1, <1>2, <1>3 DEF Next, Tick, Finished, vars

(* Who changes the identity of an attempt. *)
ClerkMoves(a) ==
  \/ clerk'[a] = clerk[a]
  \/ pc[a] \in {"create", "prepare", "undo"}
  \/ \E r \in Starts : pc[r] = "purge" /\ a \in call[r].purge
  \/ clerk[a] # "deleted" /\ clerk'[a] = "verified" /\ pc[a] = "ok"

LEMMA ClerkMovesAll ==
  ASSUME Inv, VouchedIsVerified, [Next]_vars, NEW a \in Starts
  PROVE  ClerkMoves(a)
<1> USE CallsAssumption DEF Inv, TypeOK, Goto, Calls, ClerkMoves
<1>1. ASSUME NEW r \in Starts, BeginStart(r) \/ Starting(r)
      PROVE  ClerkMoves(a)
  BY <1>1 DEF BeginStart, Starting, FindStale, ExpireStale, Purge, CheckRegistered, CheckLive,
              InsertAttempt, CreateIdentity, PrepareEmail, ClerkFails, RecordIdentity, RecordFails,
              CancelAttempt, UndoIdentity, End
<1>2. ASSUME NEW r \in Verifies, VerifyCode(r)
      PROVE  ClerkMoves(a)
  BY <1>2 DEF VerifyCode, End, VouchedIsVerified, VerifySteps
<1>3. ASSUME NEW r \in Verifies, BeginVerify(r) \/ (Verifying(r) /\ ~ VerifyCode(r))
      PROVE  clerk' = clerk
  BY <1>3 DEF BeginVerify, Verifying, LoadAttempt, Lapse, ResendCode, LockAttempt,
              CheckIdentity, Register, End
<1> QED BY <1>1, <1>2, <1>3 DEF Next, Crash, End, Tick, Finished, vars

(* The identities a start is about to delete: found, or closed, or fewer. *)
PurgeMoves(r) ==
  pc'[r] \in {"expire", "purge"} =>
    \/ /\ pc'[r] = pc[r] /\ call'[r].purge \subseteq call[r].purge
       /\ call'[r].at = call[r].at
       /\ call'[r].email = call[r].email /\ call'[r].mobile = call[r].mobile
    \/ /\ pc'[r] = "purge" /\ pc[r] = "expire" /\ call' = call
       /\ \A a \in Stale(r) : ~ Live(a)'
    \/ pc'[r] = "expire" /\ FindStale(r)

LEMMA PurgesMove ==
  ASSUME Inv, [Next]_vars, NEW r \in Starts
  PROVE  PurgeMoves(r)
<1> USE CallsAssumption DEF Inv, TypeOK, Goto, Calls, PurgeMoves
<1>1. ASSUME pc'[r] = pc[r], call'[r] = call[r]
      PROVE  PurgeMoves(r)
  BY <1>1
<1>2. ASSUME NEW x \in Starts, x # r, BeginStart(x) \/ Starting(x)
      PROVE  PurgeMoves(r)
  <2>1. pc'[r] = pc[r]
    BY <1>2 DEF BeginStart, Starting, FindStale, ExpireStale, Purge, CheckRegistered, CheckLive,
                InsertAttempt, CreateIdentity, PrepareEmail, ClerkFails, RecordIdentity,
                RecordFails, CancelAttempt, UndoIdentity, End
  <2>2. call'[r] = call[r]
    BY <1>2 DEF BeginStart, Starting, FindStale, ExpireStale, Purge, CheckRegistered, CheckLive,
                InsertAttempt, CreateIdentity, PrepareEmail, ClerkFails, RecordIdentity,
                RecordFails, CancelAttempt, UndoIdentity, End
  <2> QED BY <1>1, <2>1, <2>2
<1>3. CASE BeginStart(r) \/ Starting(r)
  <2>1. CASE FindStale(r)
    BY <2>1 DEF FindStale
  <2>2. CASE ExpireStale(r)
    <3>1. \A a \in Stale(r) : ~ Live(a)'
      BY <2>2, ClosedMoves DEF ExpireStale, Stale, Statuses
    <3> QED BY <2>2, <3>1 DEF ExpireStale
  <2>3. CASE Purge(r)
    <3>1. call[r] \in StartCall
      BY <2>3 DEF Purge, CallsTyped, StartSteps
    <3>2. CASE UNCHANGED <<pc, call>>
      BY <3>2
    <3>3. CASE pc' = [pc EXCEPT ![r] = "registered"]
      BY <3>3
    <3>4. ASSUME NEW a, call' = [call EXCEPT ![r].purge = @ \ {a}], pc' = pc
          PROVE  PurgeMoves(r)
      BY <3>1, <3>4 DEF StartCall
    <3> QED BY <2>3, <3>3, <3>4 DEF Purge
  <2> QED BY <1>3, <2>1, <2>2, <2>3
          DEF BeginStart, Starting, CheckRegistered, CheckLive, InsertAttempt, CreateIdentity,
              PrepareEmail, ClerkFails, RecordIdentity, RecordFails, CancelAttempt, UndoIdentity,
              End
<1>4. ASSUME NEW x \in Verifies, BeginVerify(x) \/ Verifying(x)
      PROVE  PurgeMoves(r)
  <2>1. pc'[r] = pc[r]
    BY <1>4 DEF BeginVerify, Verifying, LoadAttempt, Lapse, ResendCode, VerifyCode, LockAttempt,
                CheckIdentity, Register, End
  <2>2. call'[r] = call[r]
    BY <1>4 DEF BeginVerify, Verifying, LoadAttempt, Lapse, ResendCode, VerifyCode, LockAttempt,
                CheckIdentity, Register, End
  <2> QED BY <1>1, <2>1, <2>2
<1>5. ASSUME NEW x \in Calls, Crash(x)
      PROVE  PurgeMoves(r)
  BY <1>1, <1>5 DEF Crash, End
<1> QED BY <1>1, <1>2, <1>3, <1>4, <1>5 DEF Next, Tick, Finished, vars

(* The attempt a verification is of, and how it comes to vouch for it. *)
VerifyMoves(r) ==
  pc'[r] \in VerifySteps =>
    \/ /\ pc[r] \in VerifySteps /\ call'[r].attempt = call[r].attempt
       /\ Vouched(r)' => Vouched(r) \/ clerk'[call[r].attempt] = "verified"
    \/ ~ Vouched(r)' /\ pc[call'[r].attempt] = "ok" /\ call'[r].attempt \in Starts

LEMMA VerifiesMove ==
  ASSUME Inv, [Next]_vars, NEW r \in Verifies
  PROVE  VerifyMoves(r)
<1> USE CallsAssumption DEF Inv, TypeOK, Goto, Calls, VerifyMoves, Vouched
<1>1. ASSUME pc'[r] = pc[r], call'[r] = call[r]
      PROVE  VerifyMoves(r)
  BY <1>1
<1>2. ASSUME NEW x \in Starts, BeginStart(x) \/ Starting(x)
      PROVE  VerifyMoves(r)
  <2>1. pc'[r] = pc[r]
    BY <1>2 DEF BeginStart, Starting, FindStale, ExpireStale, Purge, CheckRegistered, CheckLive,
                InsertAttempt, CreateIdentity, PrepareEmail, ClerkFails, RecordIdentity,
                RecordFails, CancelAttempt, UndoIdentity, End
  <2>2. call'[r] = call[r]
    BY <1>2 DEF BeginStart, Starting, FindStale, ExpireStale, Purge, CheckRegistered, CheckLive,
                InsertAttempt, CreateIdentity, PrepareEmail, ClerkFails, RecordIdentity,
                RecordFails, CancelAttempt, UndoIdentity, End
  <2> QED BY <1>1, <2>1, <2>2
<1>3. ASSUME NEW x \in Verifies, x # r, BeginVerify(x) \/ Verifying(x)
      PROVE  VerifyMoves(r)
  <2>1. pc'[r] = pc[r]
    BY <1>3 DEF BeginVerify, Verifying, LoadAttempt, Lapse, ResendCode, VerifyCode, LockAttempt,
                CheckIdentity, Register, End
  <2>2. call'[r] = call[r]
    BY <1>3 DEF BeginVerify, Verifying, LoadAttempt, Lapse, ResendCode, VerifyCode, LockAttempt,
                CheckIdentity, Register, End
  <2> QED BY <1>1, <2>1, <2>2
<1>4. CASE BeginVerify(r) \/ Verifying(r)
  <2>1. CASE BeginVerify(r)
    BY <2>1 DEF BeginVerify
  <2>2. CASE VerifyCode(r)
    <3>1. call[r] \in VerifyCall /\ pc[r] = "otp"
      BY <2>2 DEF VerifyCode, CallsTyped, VerifySteps
    <3>2. CASE /\ clerk' = [clerk EXCEPT ![call[r].attempt] = "verified"]
               /\ call' = [call EXCEPT ![r].at = clock]
      <4>1. call'[r].attempt = call[r].attempt
        BY <3>1, <3>2 DEF VerifyCall
      <4>2. clerk'[call[r].attempt] = "verified"
        BY <3>1, <3>2 DEF VerifyCall
      <4> QED BY <3>1, <4>1, <4>2 DEF VerifySteps
    <3>3. CASE Goto(r, "denied") \/ Goto(r, "failed")
      BY <3>3 DEF VerifySteps
    <3> QED BY <2>2, <3>2, <3>3 DEF VerifyCode, End
  <2>3. CASE LoadAttempt(r)
    <3>1. pc[r] = "load" /\ call' = call
      BY <2>3 DEF LoadAttempt, End
    <3>2. CASE Goto(r, "denied")
      BY <3>2 DEF VerifySteps
    <3>3. CASE ~ Goto(r, "denied")
      <4>1. call[r] \in VerifyCall
        BY <3>1 DEF CallsTyped, VerifySteps
      <4>2. attempts[call[r].attempt] \in Attempts
        BY <2>3, <3>3, <4>1 DEF LoadAttempt, End, Live, NoAttempt, VerifyCall
      <4>3. \E label \in {"lapse", "mail", "otp"} : Goto(r, label)
        BY <2>3, <3>3, <4>1, <4>2 DEF LoadAttempt, End, VerifyCall, Attempts
      <4> QED BY <3>1, <4>3 DEF VerifySteps
    <3> QED BY <3>2, <3>3
  <2>4. CASE LockAttempt(r) \/ CheckIdentity(r)
    BY <2>4 DEF LockAttempt, CheckIdentity, End, VerifySteps
  <2> QED BY <1>4, <2>1, <2>2, <2>3, <2>4
          DEF Verifying, Lapse, ResendCode, Register, End, VerifySteps
<1>5. ASSUME NEW x \in Calls, Crash(x)
      PROVE  VerifyMoves(r)
  BY <1>1, <1>5 DEF Crash, End, VerifySteps
<1> QED BY <1>1, <1>2, <1>3, <1>4, <1>5 DEF Next, Tick, Finished, vars

LEMMA InitIdentity == Init => IdentityInv
BY CallsAssumption
   DEF Init, IdentityInv, PurgedAreClosed, LinkedIsReturned, RecordedIsNew, VouchedIsVerified,
       LiveAttemptUsable, Vouched, Exists, Live, NoAttempt, Calls, VerifySteps

LEMMA NextIdentity ==
  ASSUME Inv, IdentityInv, [Next]_vars
  PROVE  IdentityInv'
<1>1. \A a \in Starts : RowMoves(a) /\ StartMoves(a) /\ ClerkMoves(a)
  BY RowsMove, StartsMove, ClerkMovesAll DEF IdentityInv
<1>2. PurgedAreClosed'
  <2>1. ASSUME NEW r \in Starts, pc'[r] \in {"expire", "purge"}, NEW a \in call'[r].purge
        PROVE  /\ Exists(a)' /\ attempts'[a].linked
               /\ attempts'[a].expires <= call'[r].at /\ Clash(attempts'[a], call'[r])
               /\ pc'[r] = "purge" => ~ Live(a)'
    <3>0. PurgeMoves(r)
      BY PurgesMove
    <3>1. CASE /\ pc'[r] = pc[r] /\ call'[r].purge \subseteq call[r].purge
               /\ call'[r].at = call[r].at
               /\ call'[r].email = call[r].email /\ call'[r].mobile = call[r].mobile
      <4>1. a \in Starts
        BY <2>1, <3>1 DEF Inv, CallsTyped, StartSteps, StartCall
      <4>2. /\ Exists(a) /\ attempts[a].linked
            /\ attempts[a].expires <= call[r].at /\ Clash(attempts[a], call[r])
            /\ pc[r] = "purge" => ~ Live(a)
        BY <2>1, <3>1 DEF IdentityInv, PurgedAreClosed
      <4> QED BY <1>1, <3>1, <4>1, <4>2 DEF RowMoves, Clash
    <3>2. CASE /\ pc'[r] = "purge" /\ pc[r] = "expire" /\ call' = call
               /\ \A x \in Stale(r) : ~ Live(x)'
      <4>1. a \in Starts
        BY <2>1, <3>2 DEF Inv, CallsTyped, StartSteps, StartCall
      <4>2. /\ Exists(a) /\ attempts[a].linked
            /\ attempts[a].expires <= call[r].at /\ Clash(attempts[a], call[r])
        BY <2>1, <3>2 DEF IdentityInv, PurgedAreClosed
      <4>3. ~ Live(a)'
        BY <1>1, <3>2, <4>1, <4>2 DEF RowMoves, Stale
      <4> QED BY <1>1, <3>2, <4>1, <4>2, <4>3 DEF RowMoves, Clash
    <3>3. CASE pc'[r] = "expire" /\ FindStale(r)
      <4>1. call[r] \in StartCall
        BY <3>3 DEF FindStale, Inv, CallsTyped, StartSteps
      <4>2. call'[r] = [call[r] EXCEPT !.purge = {x \in Stale(r) : attempts[x].linked}]
        BY <3>3 DEF FindStale, Inv, TypeOK, Calls
      <4>3. /\ call'[r].purge = {x \in Stale(r) : attempts[x].linked}
            /\ call'[r].at = call[r].at
            /\ call'[r].email = call[r].email /\ call'[r].mobile = call[r].mobile
        BY <4>1, <4>2 DEF StartCall
      <4>4. a \in Stale(r) /\ attempts[a].linked /\ attempts' = attempts
        BY <2>1, <3>3, <4>3 DEF FindStale
      <4>5. Exists(a)
        BY <4>4 DEF Stale, Live, Exists, NoAttempt
      <4> QED BY <3>3, <4>3, <4>4, <4>5 DEF Stale, Exists, Clash
    <3> QED BY <2>1, <3>0, <3>1, <3>2, <3>3 DEF PurgeMoves
  <2> QED BY <2>1 DEF PurgedAreClosed
<1>3. LinkedIsReturned'
  <2>1. ASSUME NEW a \in Starts, Exists(a)', attempts'[a].linked
        PROVE  pc'[a] = "ok"
    <3>1. Exists(a) /\ (attempts[a].linked \/ pc'[a] = "ok")
      BY <1>1, <2>1 DEF RowMoves
    <3> QED BY <1>1, <3>1 DEF IdentityInv, LinkedIsReturned, StartMoves
  <2> QED BY <2>1 DEF LinkedIsReturned
<1>4. \A a \in Starts : pc[a] = "record" => clerk'[a] = clerk[a]
  <2>1. ASSUME NEW a \in Starts, pc[a] = "record", NEW r \in Starts, pc[r] = "purge",
               a \in call[r].purge
        PROVE  FALSE
    BY <2>1 DEF IdentityInv, PurgedAreClosed, LinkedIsReturned
  <2> QED BY <1>1, <2>1 DEF ClerkMoves
<1>5. RecordedIsNew'
  BY <1>1, <1>4 DEF IdentityInv, RecordedIsNew, StartMoves
<1>6. ASSUME NEW a \in Starts, pc[a] = "ok", Live(a)
      PROVE  \/ clerk'[a] = clerk[a]
             \/ clerk'[a] = "verified"
  BY <1>1, <1>6 DEF ClerkMoves, IdentityInv, PurgedAreClosed
<1>7. \A a \in Starts : pc[a] = "ok" /\ Live(a)' => Live(a)
  BY <1>1 DEF RowMoves, Exists, Live, NoAttempt
<1>8. VouchedIsVerified'
  <2>1. ASSUME NEW r \in Verifies, pc'[r] \in VerifySteps
        PROVE  /\ pc'[call'[r].attempt] = "ok"
               /\ Vouched(r)' /\ Live(call[r].attempt)' => clerk'[call'[r].attempt] = "verified"
    <3>0. VerifyMoves(r)
      BY VerifiesMove
    <3>1. CASE /\ pc[r] \in VerifySteps /\ call'[r].attempt = call[r].attempt
               /\ Vouched(r)' => Vouched(r) \/ clerk'[call[r].attempt] = "verified"
      <4>1. call[r].attempt \in Starts /\ pc[call[r].attempt] = "ok"
        BY <3>1 DEF Inv, CallsTyped, VerifyCall, IdentityInv, VouchedIsVerified
      <4>2. Vouched(r) /\ Live(call[r].attempt) => clerk[call[r].attempt] = "verified"
        BY DEF IdentityInv, VouchedIsVerified
      <4>3. Live(call[r].attempt)' <=> attempts'[call'[r].attempt].status = "AUTHORIZED_FOR_CLERK"
        BY DEF Live
      <4>4. pc'[call[r].attempt] = "ok"
        BY <1>1, <4>1 DEF StartMoves
      <4>5. ASSUME Vouched(r)', Live(call[r].attempt)'
            PROVE  clerk'[call[r].attempt] = "verified"
        <5>1. Live(call[r].attempt)
          BY <1>7, <3>1, <4>1, <4>3, <4>5 DEF Live
        <5> QED BY <1>6, <3>1, <4>1, <4>2, <4>5, <5>1
      <4> QED BY <3>1, <4>4, <4>5
    <3>2. CASE ~ Vouched(r)' /\ pc[call'[r].attempt] = "ok" /\ call'[r].attempt \in Starts
      BY <1>1, <3>2 DEF StartMoves
    <3> QED BY <2>1, <3>0, <3>1, <3>2 DEF VerifyMoves
  <2> QED BY <2>1 DEF VouchedIsVerified, Vouched, VerifySteps
<1>9. LiveAttemptUsable'
  <2>1. ASSUME NEW a \in Starts, Live(a)', pc'[a] = "ok"
        PROVE  attempts'[a].linked /\ clerk'[a] \in {"unverified", "verified"}
    <3>1. CASE pc[a] = "ok"
      <4>1. Live(a) /\ attempts[a].linked /\ clerk[a] \in {"unverified", "verified"}
        BY <1>7, <2>1, <3>1 DEF IdentityInv, LiveAttemptUsable
      <4> QED BY <1>1, <1>6, <3>1, <4>1 DEF RowMoves, Exists, Live, NoAttempt
    <3>2. CASE pc[a] = "record" /\ (Live(a)' => attempts'[a].linked) /\ UNCHANGED clerk
      BY <2>1, <3>2 DEF IdentityInv, RecordedIsNew
    <3> QED BY <1>1, <2>1, <3>1, <3>2 DEF StartMoves
  <2> QED BY <2>1 DEF LiveAttemptUsable
<1> QED BY <1>2, <1>3, <1>5, <1>8, <1>9 DEF IdentityInv

(* A live attempt the channel was told of has its identity at Clerk: start *)
(* and clean-up close the attempt before they delete the identity (start,  *)
(* _expire_stale_identity_attempts).                                                 *)
THEOREM LiveAttemptUsableHolds == Spec => []LiveAttemptUsable
<1>1. IdentityInv => LiveAttemptUsable
  BY DEF IdentityInv
<1> QED BY <1>1, InitInv, NextInv, InitIdentity, NextIdentity, PTL DEF Spec

LEMMA RegisteringIsVerified ==
  ASSUME Inv, IdentityInv, [Next]_vars, NEW u \in users' \ users
  PROVE  attempts[u.from].linked /\ clerk[u.from] = "verified"
<1>1. PICK r \in Verifies : Register(r)
  BY CallsAssumption
     DEF Next, BeginStart, Starting, FindStale, ExpireStale, Purge, CheckRegistered, CheckLive,
         InsertAttempt, CreateIdentity, PrepareEmail, ClerkFails, RecordIdentity, RecordFails,
         CancelAttempt, UndoIdentity, BeginVerify, Verifying, LoadAttempt, Lapse, ResendCode,
         VerifyCode, LockAttempt, CheckIdentity, End, Crash, Tick, Finished, vars
<1>2. pc[r] = "register" /\ u.from = call[r].attempt
  BY <1>1 DEF Register, End
<1>3. call[r].attempt \in Starts /\ Live(call[r].attempt) /\ pc[call[r].attempt] = "ok"
  BY <1>2 DEF Inv, CallsTyped, HeldIsLive, Holds, VerifySteps, VerifyCall, IdentityInv,
              VouchedIsVerified
<1> QED BY <1>2, <1>3 DEF IdentityInv, VouchedIsVerified, Vouched, LiveAttemptUsable

(* No USER is created on the strength of the moment in which a new identity *)
(* counts as verified, however long Clerk's answer is old by then           *)
(* (verify_email_code).                                                     *)
THEOREM RegisteredIsVerifiedHolds == Spec => RegisteredIsVerified
<1>1. Inv /\ IdentityInv /\ [Next]_vars =>
        [\A u \in users' \ users : attempts[u.from].linked /\ clerk[u.from] = "verified"]_vars
  BY RegisteringIsVerified
<1> QED BY <1>1, InitInv, NextInv, InitIdentity, NextIdentity, PTL DEF Spec, RegisteredIsVerified
==============================================================================
