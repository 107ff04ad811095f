---------------------------- MODULE BrowserShell ----------------------------
(***************************************************************************)
(* The G1 identity and tenant shell: login, the tenant view and logout of  *)
(* one browser, served by the threads of apps/g1-identity-tenant-shell on  *)
(* one transaction store, one session store and one map of session         *)
(* lineages.  A thread gives up the stores' locks between two steps.       *)
(*                                                                         *)
(* A login is its authorization transaction.  The callbacks the browser    *)
(* sends are the ones the login start redirected it to, any number of      *)
(* times and with the binding cookie of the latest start; the code of a    *)
(* login is named by its transaction.  The CSRF token and cookie of a      *)
(* delivered session go with its handle.  Whether a transaction, the       *)
(* identity evidence or a session has expired is a free choice.            *)
(***************************************************************************)
EXTENDS BrowserSession

CONSTANT NoRequest

VARIABLES
    transactions,  \* login -> "absent" | "open" | "consumed": in the store only when open
    codes,         \* logins whose authorization code the provider still honours
    binding,       \* the browser's binding cookie, of the latest login started
    lineage,       \* handles with an entry in lineage_by_session_digest
    delivered,     \* handles the browser was given
    mode,          \* the principal's authority: FixtureAuthorityState
    requests,      \* thread -> the request it serves
    loggedOut      \* handles whose logout was acknowledged with 204

shellVars == <<sessionVars, transactions, codes, binding, lineage, delivered, mode,
               requests, loggedOut>>

Modes == {"allowed", "revoked", "forbidden"}

\* late: the session of the request had been retired when the request began.
Requests ==
    [kind : {"callback"}, step : {"begun", "consumed", "exchanged", "issued", "ruled"},
     login : Logins, binding : Logins, handle : Handles \cup {None}]
    \cup [kind : {"shell"}, step : {"begun", "resolved", "narrowed", "ready", "denied"},
          handle : Handles, late : BOOLEAN]
    \cup [kind : {"refusal"}, step : {"forbidden", "revoked"}, handle : Handles, late : BOOLEAN]
    \cup [kind : {"logout"}, step : {"bound", "resolved", "retired"}, handle : Handles]

ASSUME ShellConstants == NoRequest \notin Requests

ShellInit ==
    /\ SessionInit
    /\ transactions = [l \in Logins |-> "absent"]
    /\ codes = {} /\ binding = None
    /\ lineage = {} /\ delivered = {} /\ loggedOut = {}
    /\ mode = "allowed"
    /\ requests = [c \in Callers |-> NoRequest]

At(c, kind, step) == requests[c] # NoRequest /\ requests[c].kind = kind /\ requests[c].step = step

\* The thread of c moves its request on, or answers it.
Goto(c, step) == requests' = [requests EXCEPT ![c] = [requests[c] EXCEPT !.step = step]]
Answer(c) == requests' = [requests EXCEPT ![c] = NoRequest]
Accept(c, request) ==
    /\ requests[c] = NoRequest /\ inFlight[c] = None
    /\ requests' = [requests EXCEPT ![c] = request]

-----------------------------------------------------------------------------
\* begin_login, the registration of the code and the redirect with a new binding cookie
StartLogin(l) ==
    /\ transactions[l] = "absent"
    /\ transactions' = [transactions EXCEPT ![l] = "open"]
    /\ codes' = codes \cup {l}
    /\ binding' = l
    /\ UNCHANGED <<sessionVars, lineage, delivered, mode, requests, loggedOut>>

ReceiveCallback(c, l) ==
    /\ transactions[l] # "absent" /\ binding # None
    /\ Accept(c, [kind |-> "callback", step |-> "begun", login |-> l, binding |-> binding,
                  handle |-> None])
    /\ UNCHANGED <<sessionVars, transactions, codes, binding, lineage, delivered, mode, loggedOut>>

\* Transactions.consume
PopTransaction(l) == transactions' = [transactions EXCEPT ![l] = "consumed"]

\* complete_browser_auth up to the exchange: taken first, checked after
ConsumeTransaction(c, current) ==
    /\ At(c, "callback", "begun")
    /\ LET l == requests[c].login
       IN  /\ IF transactions[l] = "open" THEN PopTransaction(l) ELSE UNCHANGED transactions
           /\ IF transactions[l] = "open" /\ current /\ requests[c].binding = l
              THEN Goto(c, "consumed")
              ELSE Answer(c)
    /\ UNCHANGED <<sessionVars, codes, binding, lineage, delivered, mode, loggedOut>>

\* exchange_and_verify and the checks of its evidence
ExchangeCode(c, current) ==
    /\ At(c, "callback", "consumed")
    /\ codes' = codes \ {requests[c].login}
    /\ IF requests[c].login \in codes /\ current THEN Goto(c, "exchanged") ELSE Answer(c)
    /\ UNCHANGED <<sessionVars, transactions, binding, lineage, delivered, mode, loggedOut>>

\* issue_browser_session; that the login has no session yet is for the steps before to see to
IssueForLogin(c, h, p) ==
    /\ At(c, "callback", "exchanged")
    /\ sessions[h] = None
    /\ sessions' = [sessions EXCEPT ![h] = NewSession(p, requests[c].login)]
    /\ requests' = [requests EXCEPT ![c] = [requests[c] EXCEPT !.step = "issued", !.handle = h]]
    /\ UNCHANGED <<inFlight, transactions, codes, binding, lineage, delivered, mode, loggedOut>>

SetMode(c, m) ==
    /\ At(c, "callback", "issued")
    /\ mode' = m
    /\ Goto(c, "ruled")
    /\ UNCHANGED <<sessionVars, transactions, codes, binding, lineage, delivered, loggedOut>>

\* The lineage is bound, and the response hands handle and CSRF token to the browser.
BindLineage(c) ==
    /\ At(c, "callback", "ruled")
    /\ lineage' = lineage \cup {requests[c].handle}
    /\ delivered' = delivered \cup {requests[c].handle}
    /\ binding' = None
    /\ Answer(c)
    /\ UNCHANGED <<sessionVars, transactions, codes, mode, loggedOut>>

-----------------------------------------------------------------------------
ReceiveShell(c, h) ==
    /\ h \in delivered
    /\ Accept(c, [kind |-> "shell", step |-> "begun", handle |-> h, late |-> ~ Live(h)])
    /\ UNCHANGED <<sessionVars, transactions, codes, binding, lineage, delivered, mode, loggedOut>>

\* open_shell: resolve_browser_session
ResolveForShell(c, current) ==
    /\ At(c, "shell", "begun")
    /\ Goto(c, IF current /\ Resolves(requests[c].handle) THEN "resolved" ELSE "denied")
    /\ UNCHANGED <<sessionVars, transactions, codes, binding, lineage, delivered, mode, loggedOut>>

\* require_current: the narrowing gates, and then the final admission, on their own reads
NarrowAdmission(c) ==
    /\ At(c, "shell", "resolved")
    /\ Goto(c, IF mode = "allowed" THEN "narrowed" ELSE "denied")
    /\ UNCHANGED <<sessionVars, transactions, codes, binding, lineage, delivered, mode, loggedOut>>

FinalAdmission(c) ==
    /\ At(c, "shell", "narrowed")
    /\ Goto(c, IF mode = "allowed" THEN "ready" ELSE "denied")
    /\ UNCHANGED <<sessionVars, transactions, codes, binding, lineage, delivered, mode, loggedOut>>

\* After a denial the handler looks the session and the mode up again, for its wording:
\* a known session of a revoked principal is "revoked", everything else "forbidden".
Explain(c) ==
    /\ At(c, "shell", "denied")
    /\ requests' = [requests EXCEPT ![c] = [requests[c] EXCEPT
           !.kind = "refusal",
           !.step = IF mode = "revoked" /\ sessions[requests[c].handle] # None
                    THEN "revoked" ELSE "forbidden"]]
    /\ UNCHANGED <<sessionVars, transactions, codes, binding, lineage, delivered, mode, loggedOut>>

RespondShell(c) ==
    /\ At(c, "shell", "ready") \/ At(c, "refusal", "revoked") \/ At(c, "refusal", "forbidden")
    /\ Answer(c)
    /\ UNCHANGED <<sessionVars, transactions, codes, binding, lineage, delivered, mode, loggedOut>>

-----------------------------------------------------------------------------
\* Mutant form: the lineage entry is taken along with the check, so a denied logout eats it.
TakeLineage(h) == lineage' = lineage \ {h}

ReadLineage(h) == lineage' = lineage

\* The lineage read and the CSRF check; without an entry the logout is forbidden.
ReceiveLogout(c, h) ==
    /\ h \in delivered
    /\ h \in lineage
    /\ ReadLineage(h)
    /\ Accept(c, [kind |-> "logout", step |-> "bound", handle |-> h])
    /\ UNCHANGED <<sessionVars, transactions, codes, binding, delivered, mode, loggedOut>>

\* retire_browser_session up to the store
ResolveForLogout(c, current) ==
    /\ At(c, "logout", "bound")
    /\ IF current /\ Resolves(requests[c].handle)
       THEN BeginRetire(c, requests[c].handle) /\ Goto(c, "resolved")
       ELSE Answer(c) /\ UNCHANGED sessionVars
    /\ UNCHANGED <<transactions, codes, binding, lineage, delivered, mode, loggedOut>>

\* The store's retire; the loser of a race is answered 403.
RetireForLogout(c, won) ==
    /\ At(c, "logout", "resolved")
    /\ FinishRetire(c, won)
    /\ IF won THEN Goto(c, "retired") ELSE Answer(c)
    /\ UNCHANGED <<transactions, codes, binding, lineage, delivered, mode, loggedOut>>

AcknowledgeLogout(c) ==
    /\ At(c, "logout", "retired")
    /\ lineage' = lineage \ {requests[c].handle}
    /\ loggedOut' = loggedOut \cup {requests[c].handle}
    /\ Answer(c)
    /\ UNCHANGED <<sessionVars, transactions, codes, binding, delivered, mode>>

LoginSome ==
    \/ \E l \in Logins : StartLogin(l) \/ \E c \in Callers : ReceiveCallback(c, l)
    \/ \E c \in Callers :
          \/ \E current \in BOOLEAN : ConsumeTransaction(c, current) \/ ExchangeCode(c, current)
          \/ \E h \in Handles, p \in Principals : IssueForLogin(c, h, p)
          \/ \E m \in Modes : SetMode(c, m)
          \/ BindLineage(c)

ViewSome ==
    \E c \in Callers :
        \/ \E h \in Handles : ReceiveShell(c, h)
        \/ \E current \in BOOLEAN : ResolveForShell(c, current)
        \/ NarrowAdmission(c) \/ FinalAdmission(c) \/ Explain(c) \/ RespondShell(c)

LogoutSome ==
    \E c \in Callers :
        \/ \E h \in Handles : ReceiveLogout(c, h)
        \/ \E current \in BOOLEAN : ResolveForLogout(c, current)
        \/ \E won \in BOOLEAN : RetireForLogout(c, won)
        \/ AcknowledgeLogout(c)

\* Another user of the session authority, as a step-up login is, rotates sessions of the
\* same store; no route of the shell does, and the browser is not given the successor.
StepUpSome ==
    /\ \E c \in Callers, h \in Handles :
          /\ requests[c] = NoRequest
          /\ FinishRotate(c, h) \/ \E p \in Principals : BeginRotate(c, h, p)
    /\ UNCHANGED <<transactions, codes, binding, lineage, delivered, mode, requests, loggedOut>>

ShellNext == LoginSome \/ ViewSome \/ LogoutSome \/ StepUpSome

ShellSpec == ShellInit /\ [][ShellNext]_shellVars

-----------------------------------------------------------------------------
\* The stores and the requests have their types.
ShellTypeOK ==
    /\ SessionTypeOK
    /\ transactions \in [Logins -> {"absent", "open", "consumed"}]
    /\ codes \subseteq Logins /\ binding \in Logins \cup {None}
    /\ lineage \subseteq Handles /\ delivered \subseteq Handles /\ loggedOut \subseteq Handles
    /\ mode \in Modes
    /\ requests \in [Callers -> Requests \cup {NoRequest}]

PastConsume(c, l) ==
    /\ requests[c] # NoRequest /\ requests[c].kind = "callback"
    /\ requests[c].step # "begun" /\ requests[c].login = l

\* However often a callback is repeated, one of them gets past the transaction, and none
\* while the transaction is still open to others.
OneCallbackPerTransaction ==
    \A l \in Logins :
        /\ \A c, d \in Callers : PastConsume(c, l) /\ PastConsume(d, l) => c = d
        /\ (\E c \in Callers : PastConsume(c, l)) => transactions[l] = "consumed"

\* No view is shown to a request that began after its session was retired: a logout that
\* committed is seen by the next request (OPEN-REL-031).
NoViewAfterLogout == \A c \in Callers : At(c, "shell", "ready") => ~ requests[c].late

\* A delivered session that is live keeps the lineage its logout is checked against.
LiveCanLogOut == \A h \in delivered : Live(h) => h \in lineage
=============================================================================
