---------------------------- MODULE SessionLedger ----------------------------
(***************************************************************************)
(* What the committed rows of security.access_sessions promise, whatever   *)
(* the requests that write them do in between: a USER session is opened    *)
(* once, on a device that then has no other ACTIVE session; while ACTIVE   *)
(* it may be renewed in place; and once EXPIRED or REVOKED its row never   *)
(* changes again.  One step is one database commit.                        *)
(***************************************************************************)
EXTENDS Naturals

CONSTANTS
  SessionIds,   \* access_session_id values
  Devices       \* registered devices

VARIABLE sess   \* the committed row of each session id, NoRow before INSERT

NoRow == [status |-> "NONE"]

Statuses == {"ACTIVE", "EXPIRED", "REVOKED"}

(* The sessions whose committed row is ACTIVE on device d. *)
ActiveOn(d) ==
  {s \in SessionIds : sess[s].status = "ACTIVE" /\ sess[s].dev = d}

OneActivePerDevice ==
  \A s, q \in SessionIds :
    /\ sess[s].status = "ACTIVE"
    /\ sess[q].status = "ACTIVE"
    /\ sess[s].dev = sess[q].dev
    => s = q

Init ==
  /\ \A s \in SessionIds : sess[s] = NoRow \/ sess[s].status = "ACTIVE"
  /\ OneActivePerDevice

(* A new session takes over its device; what was ACTIVE there is EXPIRED   *)
(* in the same commit.                                                     *)
Open(s) ==
  /\ sess[s] = NoRow
  /\ sess'[s].status = "ACTIVE"
  /\ \A q \in SessionIds \ {s} :
       \/ sess'[q] = sess[q]
       \/ /\ q \in ActiveOn(sess'[s].dev)
          /\ sess'[q] = [sess[q] EXCEPT !.status = "EXPIRED"]
  /\ OneActivePerDevice'

(* The same session goes on: its device and its start are those it had. *)
Renew(s) ==
  /\ sess[s].status = "ACTIVE"
  /\ sess'[s].status = "ACTIVE"
  /\ sess'[s].dev = sess[s].dev
  /\ sess'[s].started = sess[s].started
  /\ \A q \in SessionIds \ {s} : sess'[q] = sess[q]

(* Revocation closes any number of ACTIVE sessions at once. *)
Revoke(S) ==
  /\ \A s \in S : /\ sess[s].status = "ACTIVE"
                  /\ sess'[s] = [sess[s] EXCEPT !.status = "REVOKED"]
  /\ \A q \in SessionIds \ S : sess'[q] = sess[q]

Next ==
  \/ \E s \in SessionIds : Open(s) \/ Renew(s)
  \/ \E S \in SUBSET SessionIds : Revoke(S)

Spec == Init /\ [][Next]_sess
==============================================================================
