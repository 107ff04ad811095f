----------------------------- MODULE MC_Services -----------------------------
(***************************************************************************)
(* Four parts that share no state, checked side by side: the outbox        *)
(* ledger, the authority of a release target, the tickets of an incident,  *)
(* and the response to an application error.  A behaviour is one of a      *)
(* single part, chosen at the start, so their states add up and do not     *)
(* multiply.                                                               *)
(***************************************************************************)
EXTENDS AsyncOutbox, ReleaseTarget, TicketSync, IncidentResponse

VARIABLE service

serviceVars == <<service, vars, releaseVars, ticketVars, responseVars>>

MCInit ==
    /\ service \in {"outbox", "release", "tickets", "response"}
    /\ Init /\ ReleaseInit /\ TicketInit /\ ResponseInit

MCNext ==
    /\ UNCHANGED service
    /\ \/ service = "outbox" /\ Next /\ UNCHANGED <<releaseVars, ticketVars, responseVars>>
       \/ service = "release" /\ ReleaseNext /\ UNCHANGED <<vars, ticketVars, responseVars>>
       \/ service = "tickets" /\ TicketNext /\ UNCHANGED <<vars, releaseVars, responseVars>>
       \/ service = "response" /\ ResponseNext /\ UNCHANGED <<vars, releaseVars, ticketVars>>

\* Each part is owed its fairness in the behaviours that are about it.
MCSpec ==
    /\ MCInit /\ [][MCNext]_serviceVars
    /\ service = "outbox" => OutboxFairness
    /\ service = "response" => ResponseFairness
=============================================================================
