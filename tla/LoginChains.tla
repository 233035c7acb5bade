----------------------------- MODULE LoginChains -----------------------------
(***************************************************************************)
(* What refresh tokens promise a client: a login stays usable through any  *)
(* number of renewals, a renewal replaces the token it is given, and a     *)
(* login that is lost is never usable again.                               *)
(***************************************************************************)
EXTENDS Naturals, Sequences

VARIABLE logins \* the state of each login, in the order of the logins

Init == logins = <<>>

Open == logins' = Append(logins, "usable")

Renew(l) == logins[l] = "usable" /\ logins' = [logins EXCEPT ![l] = "renewing"]

Renewed(l) == logins[l] = "renewing" /\ logins' = [logins EXCEPT ![l] = "usable"]

\* The successor could not be issued, or the request died.
Lose(l) == logins[l] = "renewing" /\ logins' = [logins EXCEPT ![l] = "lost"]

Next == Open \/ \E l \in DOMAIN logins : Renew(l) \/ Renewed(l) \/ Lose(l)

Spec == Init /\ [][Next]_logins
=============================================================================
