--------------------------- MODULE BrowserSession ---------------------------
(***************************************************************************)
(* Server-side browser sessions: jlmirror_authority/session.py over the    *)
(* session store of the G1 server.  Rotation and retirement first resolve  *)
(* the session and then ask the store for a compare-and-set; requests on   *)
(* other threads run in between.                                           *)
(*                                                                         *)
(* Handles and session generations are long random tokens: a new session   *)
(* gets a handle and a generation nobody has, and a record never changes   *)
(* its generation, so the handle stands for both.  Whether a session has   *)
(* expired at the now a request brings is a free choice of that request.   *)
(* The authentication strength a record carries is left out.               *)
(***************************************************************************)
EXTENDS Absent, Naturals, FiniteSets

CONSTANTS
    Handles,       \* digests of opaque handles
    Logins,        \* authenticated logins a session may be issued for
    Principals,
    Callers        \* server threads

VARIABLES
    sessions,      \* Sessions._values: handle -> record, None when unknown
    inFlight       \* a rotation or retirement between resolve and compare-and-set

sessionVars == <<sessions, inFlight>>

\* login is the login the record descends from: rotation hands it on.
SessionRecords == [principal : Principals, retired : BOOLEAN, login : Logins]

\* A resolved rotation or retirement; principal is the one its successor will carry.
Changes == [handle : Handles, op : {"rotate", "retire"}, principal : Principals]

ASSUME SessionConstants ==
    /\ None \notin SessionRecords
    /\ None \notin Changes
    /\ None \notin Principals
    /\ "ended" \notin Principals
    /\ None # "ended"

Live(h) == sessions[h] # None /\ ~ sessions[h].retired

SessionsOf(l) == {h \in Handles : sessions[h] # None /\ sessions[h].login = l}

-----------------------------------------------------------------------------
SessionInit ==
    /\ sessions = [h \in Handles |-> None]
    /\ inFlight = [c \in Callers |-> None]

NewSession(p, l) == [principal |-> p, retired |-> FALSE, login |-> l]

\* issue_browser_session, for a login that has none yet
IssueSession(h, p, l) ==
    /\ SessionsOf(l) = {}
    /\ sessions[h] = None
    /\ sessions' = [sessions EXCEPT ![h] = NewSession(p, l)]
    /\ UNCHANGED inFlight

\* Mutant form: the generation is compared and the retired flag forgotten.
KnownToStore(h) == sessions[h] # None

\* resolve_browser_session, of a session that has not expired at the caller's now
Resolves(h) == Live(h)

\* Reauthentication cannot replace the session with another principal.
SamePrincipal(h, p) == p = sessions[h].principal

\* rotate_browser_session up to the store's rotate; p is the principal of the session
\* or of a reauthentication
BeginRotate(c, h, p) ==
    /\ inFlight[c] = None
    /\ Resolves(h)
    /\ SamePrincipal(h, p)
    /\ inFlight' = [inFlight EXCEPT ![c] = [handle |-> h, op |-> "rotate", principal |-> p]]
    /\ UNCHANGED sessions

\* retire_browser_session up to the store's retire
BeginRetire(c, h) ==
    /\ inFlight[c] = None
    /\ Resolves(h)
    /\ inFlight' = [inFlight EXCEPT ![c] = [handle |-> h, op |-> "retire",
                                            principal |-> sessions[h].principal]]
    /\ UNCHANGED sessions

\* The comparison of Sessions.rotate and Sessions.retire
StillCurrent(h) == sessions[h] # None /\ ~ sessions[h].retired

\* Sessions.rotate: the predecessor is retired and the successor stored, as one
WithSuccessor(h, successor, p) ==
    [k \in Handles |-> IF k = h THEN [sessions[h] EXCEPT !.retired = TRUE]
                       ELSE IF k = successor THEN NewSession(p, sessions[h].login)
                       ELSE sessions[k]]

\* The store's rotate; the caller that loses the race is denied
FinishRotate(c, successor) ==
    LET change == inFlight[c]
    IN  /\ change # None
        /\ change.op = "rotate"
        /\ sessions[successor] = None
        /\ inFlight' = [inFlight EXCEPT ![c] = None]
        /\ sessions' = IF StillCurrent(change.handle)
                       THEN WithSuccessor(change.handle, successor, change.principal)
                       ELSE sessions

Retired(h) == [sessions EXCEPT ![h] = [sessions[h] EXCEPT !.retired = TRUE]]

\* The store's retire; won tells the caller whether it was the one to end the session
FinishRetire(c, won) ==
    LET change == inFlight[c]
    IN  /\ change # None
        /\ change.op = "retire"
        /\ won = StillCurrent(change.handle)
        /\ inFlight' = [inFlight EXCEPT ![c] = None]
        /\ sessions' = IF won THEN Retired(change.handle) ELSE sessions

IssueSome == \E h \in Handles, p \in Principals, l \in Logins : IssueSession(h, p, l)

BeginSome ==
    \E c \in Callers, h \in Handles :
        BeginRetire(c, h) \/ \E p \in Principals : BeginRotate(c, h, p)

RotateSome == \E c \in Callers, successor \in Handles : FinishRotate(c, successor)

RetireSome == \E c \in Callers, won \in BOOLEAN : FinishRetire(c, won)

SessionNext == IssueSome \/ BeginSome \/ RotateSome \/ RetireSome

SessionSpec == SessionInit /\ [][SessionNext]_sessionVars

-----------------------------------------------------------------------------
\* Records and changes in flight have their types.
SessionTypeOK ==
    /\ sessions \in [Handles -> SessionRecords \cup {None}]
    /\ inFlight \in [Callers -> Changes \cup {None}]

\* However its rotations race, a login has one live session at most.
OneLiveSessionPerLogin ==
    \A g, h \in Handles : Live(g) /\ Live(h) /\ sessions[g].login = sessions[h].login => g = h

\* All sessions of a login, and all changes to them in flight, carry one principal.
OnePrincipalPerLogin ==
    /\ \A g, h \in Handles :
          sessions[g] # None /\ sessions[h] # None /\ sessions[g].login = sessions[h].login
              => sessions[g].principal = sessions[h].principal
    /\ \A c \in Callers :
          inFlight[c] # None =>
              /\ sessions[inFlight[c].handle] # None
              /\ sessions[inFlight[c].handle].principal = inFlight[c].principal

\* A retired session never becomes current again.
RetiredIsFinal ==
    [][\A h \in Handles : sessions[h] # None /\ sessions[h].retired
          => sessions'[h] = sessions[h]]_sessionVars

LoginOf(l) ==
    IF SessionsOf(l) = {} THEN None
    ELSE IF \E h \in SessionsOf(l) : Live(h)
         THEN sessions[CHOOSE h \in SessionsOf(l) : Live(h)].principal
         ELSE "ended"

Lifecycle == INSTANCE LoginLifecycle WITH login <- [l \in Logins |-> LoginOf(l)]

\* Rotations are invisible: a login lasts from its issue to the one retirement that
\* wins, and a rotation that raced that retirement does not revive it.
KeepsLifecycle == Lifecycle!LoginSpec
=============================================================================
