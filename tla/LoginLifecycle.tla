--------------------------- MODULE LoginLifecycle ---------------------------
(***************************************************************************)
(* What a browser login promises, with no handles, rotations or races: it  *)
(* begins once for one principal, ends once, and is never taken up again.  *)
(***************************************************************************)
CONSTANTS Logins, Principals, None

VARIABLE login     \* login -> its principal while it lasts, "ended" after, None before

LoginInit == login = [l \in Logins |-> None]

Begin(l, p) == login[l] = None /\ login' = [login EXCEPT ![l] = p]

End(l) == login[l] \in Principals /\ login' = [login EXCEPT ![l] = "ended"]

LoginNext == \E l \in Logins : End(l) \/ \E p \in Principals : Begin(l, p)

LoginSpec == LoginInit /\ [][LoginNext]_login
=============================================================================
