-------------------------- MODULE UserAdministration --------------------------
(***************************************************************************)
(* The administration of USERs by internal callers: it writes a USER with  *)
(* the status it is given, and links identities to a USER.                 *)
(***************************************************************************)
EXTENDS Accounts

(* A new USER or one there is already. *)
Configure(q, u) ==
  /\ u = q \/ db.user[u] # "NONE"
  /\ Begin(q, [Blank EXCEPT !.verb = "configure", !.user = u,
              !.plan = <<Do("principal", <<"principal", u>>), Do("user", <<"user", u>>), Finish>>])

(* The principal is inserted if absent, read and updated.  Where it has    *)
(* been deleted meanwhile it is found missing, or inserted anew.           *)
FindPrincipal(q) ==
  /\ At(q, "principal") /\ Free(q) /\ call[q].verb = "configure"
  /\ \/ Go(q, Next1(call[q]))
     \/ db.user[call[q].user] = "NONE" /\ call[q].user # q /\ Leave(q, "unchanged")

CommitConfigure(q) ==
  /\ Committing(q, "configure")
  /\ \E status \in {"INVITED", "ACTIVE", "INACTIVE"} :
       Publish(q, [db EXCEPT !.user[call[q].user] = status], "ok")

(* The foreign key keeps the USER's row from being deleted until COMMIT. *)
Link(q, u, s) ==
  /\ db.user[u] # "NONE"
  /\ Begin(q, [Blank EXCEPT !.verb = "link", !.user = u, !.subject = s,
              !.plan = <<Look("linked"), Do("upsertIdentity", <<"subject", s>>),
                         Do("linkedUser", <<"deleted", u>>), Finish>>])

(* Read without a lock: it may be anybody's by the time it is written. *)
ReadLinked(q) ==
  /\ At(q, "linked")
  /\ LET c == call[q] IN
     IF db.user[c.user] = "NONE" \/ db.identity[c.subject] \notin {None, c.user}
     THEN Leave(q, "unchanged")
     ELSE See(q, Next1(c))

UpsertIdentity(q) == Take(q, "upsertIdentity")

CheckLinkedUser(q) ==
  /\ At(q, "linkedUser") /\ Free(q)
  /\ IF db.user[call[q].user] = "NONE" THEN Leave(q, "conflict") ELSE Go(q, Next1(call[q]))

(* Mutant of LinkedTo: the UPDATE takes the identity from another USER. *)
LinkedToAnyway(owner, u) == u

(* Whose the identity is after ON CONFLICT ... DO UPDATE ... WHERE the     *)
(* owner is the same.                                                      *)
LinkedTo(owner, u) == IF owner = None THEN u ELSE owner

(* The call answers that it linked, whether the UPDATE applied or not. *)
CommitLink(q) ==
  /\ Committing(q, "link")
  /\ Publish(q, [db EXCEPT !.identity[call[q].subject] = LinkedTo(@, call[q].user)], "ok")

BeginAdministration(q) ==
  \E u \in Ids : Configure(q, u) \/ \E s \in Subjects : Link(q, u, s)

RunAdministration(q) ==
  \/ FindPrincipal(q) \/ CommitConfigure(q)
  \/ ReadLinked(q) \/ UpsertIdentity(q) \/ CheckLinkedUser(q) \/ CommitLink(q)
==============================================================================
