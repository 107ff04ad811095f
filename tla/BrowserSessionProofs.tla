------------------------ MODULE BrowserSessionProofs ------------------------
(***************************************************************************)
(* Proofs about browser sessions and the shell over them, for any handles, *)
(* logins, principals and threads.  Of sessions the invariant is the       *)
(* conjunction of the properties: it is inductive as it stands, because a  *)
(* change in flight names a session that exists for good and keeps its     *)
(* principal (the second part of OnePrincipalPerLogin).                    *)
(*                                                                         *)
(* Of the shell: every step of it is a step of the session authority or    *)
(* none, as the transaction that one callback takes stands in for the      *)
(* check that a login has no session yet.  The rest is what each request   *)
(* in a thread rests on, until it is answered (Served).                    *)
(*                                                                         *)
(* Of the logout callbacks of the harness, for any tokens, sessions and    *)
(* workers: a worker's step rests on the effect its row froze, whoever     *)
(* claimed the row since (IsBacked), no step takes back what those effects *)
(* rest on (OnlyGrows), and every generation that passed has the effect    *)
(* that asked for it (EffectsAreNamed).                                    *)
(***************************************************************************)
EXTENDS BrowserShell, LogoutCallback, TLAPS

IInv == SessionTypeOK /\ OneLiveSessionPerLogin /\ OnePrincipalPerLogin

-----------------------------------------------------------------------------
\* There is no session at first.
LEMMA InitIInv == SessionInit => IInv
  BY SessionConstants
     DEF SessionInit, IInv, SessionTypeOK, OneLiveSessionPerLogin, OnePrincipalPerLogin, Live

\* A new record is a live record of its principal and login.
LEMMA NewSessionShape ==
    ASSUME NEW p \in Principals, NEW l \in Logins
    PROVE  /\ NewSession(p, l) \in SessionRecords
           /\ NewSession(p, l) # None
           /\ NewSession(p, l).principal = p
           /\ NewSession(p, l).login = l
           /\ NewSession(p, l).retired = FALSE
<1>1. NewSession(p, l) \in SessionRecords
  BY DEF NewSession, SessionRecords
<1>2. NewSession(p, l) # None
  BY <1>1, SessionConstants
<1> QED  BY <1>1, <1>2 DEF NewSession

\* Retiring a record changes nothing else in it.
LEMMA RetiredShape ==
    ASSUME NEW r \in SessionRecords
    PROVE  /\ [r EXCEPT !.retired = TRUE] \in SessionRecords
           /\ [r EXCEPT !.retired = TRUE] # None
           /\ [r EXCEPT !.retired = TRUE].principal = r.principal
           /\ [r EXCEPT !.retired = TRUE].login = r.login
           /\ [r EXCEPT !.retired = TRUE].retired = TRUE
  BY SessionConstants DEF SessionRecords

\* What issue does: one more session, of a login that had none.
LEMMA IssueEffect ==
    ASSUME IInv, NEW h \in Handles, NEW p \in Principals, NEW l \in Logins,
           IssueSession(h, p, l)
    PROVE  /\ sessions[h] = None
           /\ \A k \in Handles : sessions[k] # None => sessions[k].login # l
           /\ sessions' \in [Handles -> SessionRecords \cup {None}]
           /\ sessions'[h] = NewSession(p, l)
           /\ \A k \in Handles : k # h => sessions'[k] = sessions[k]
           /\ UNCHANGED inFlight
  BY NewSessionShape DEF IssueSession, SessionsOf, IInv, SessionTypeOK

\* What a rotation that wins does: predecessor retired, successor in its place.
LEMMA RotateEffect ==
    ASSUME IInv, NEW c \in Callers, NEW n \in Handles, FinishRotate(c, n),
           StillCurrent(inFlight[c].handle)
    PROVE  LET h == inFlight[c].handle
               p == inFlight[c].principal
           IN  /\ h \in Handles /\ n # h /\ p \in Principals
               /\ Live(h) /\ sessions[n] = None /\ sessions[h] \in SessionRecords
               /\ sessions[h].principal = p
               /\ sessions' \in [Handles -> SessionRecords \cup {None}]
               /\ sessions'[h] = [sessions[h] EXCEPT !.retired = TRUE]
               /\ sessions'[n] = NewSession(p, sessions[h].login)
               /\ \A k \in Handles : k # h /\ k # n => sessions'[k] = sessions[k]
               /\ inFlight' = [inFlight EXCEPT ![c] = None]
<1> DEFINE h == inFlight[c].handle
           p == inFlight[c].principal
<1>1. inFlight[c] # None /\ inFlight[c] \in Changes
  BY DEF FinishRotate, IInv, SessionTypeOK
<1>2. h \in Handles /\ p \in Principals
  BY <1>1 DEF Changes
<1>3. sessions[h] # None /\ sessions[h] \in SessionRecords /\ ~ sessions[h].retired
  BY <1>2 DEF StillCurrent, IInv, SessionTypeOK
<1>4. sessions[h].login \in Logins /\ sessions[h].principal = p
  BY <1>1, <1>3 DEF SessionRecords, IInv, OnePrincipalPerLogin
<1>5. /\ sessions[n] = None
      /\ sessions' = WithSuccessor(h, n, p)
      /\ inFlight' = [inFlight EXCEPT ![c] = None]
  BY DEF FinishRotate
<1>6. n # h
  BY <1>3, <1>5
<1> HIDE DEF h, p
<1>7. /\ [sessions[h] EXCEPT !.retired = TRUE] \in SessionRecords
      /\ NewSession(p, sessions[h].login) \in SessionRecords
  BY <1>2, <1>3, <1>4, NewSessionShape, RetiredShape
<1>8. /\ sessions' \in [Handles -> SessionRecords \cup {None}]
      /\ sessions'[h] = [sessions[h] EXCEPT !.retired = TRUE]
      /\ sessions'[n] = NewSession(p, sessions[h].login)
      /\ \A k \in Handles : k # h /\ k # n => sessions'[k] = sessions[k]
  BY <1>2, <1>5, <1>6, <1>7 DEF WithSuccessor, IInv, SessionTypeOK
<1> QED  BY <1>2, <1>3, <1>4, <1>5, <1>6, <1>8 DEF Live, h, p

\* What a retirement that wins does.
LEMMA RetireEffect ==
    ASSUME IInv, NEW c \in Callers, FinishRetire(c, TRUE)
    PROVE  LET h == inFlight[c].handle
           IN  /\ h \in Handles /\ Live(h) /\ sessions[h] \in SessionRecords
               /\ sessions' \in [Handles -> SessionRecords \cup {None}]
               /\ sessions'[h] = [sessions[h] EXCEPT !.retired = TRUE]
               /\ \A k \in Handles : k # h => sessions'[k] = sessions[k]
               /\ inFlight' = [inFlight EXCEPT ![c] = None]
<1> DEFINE h == inFlight[c].handle
<1>1. inFlight[c] # None /\ inFlight[c] \in Changes /\ StillCurrent(h)
  BY DEF FinishRetire, IInv, SessionTypeOK
<1>2. h \in Handles
  BY <1>1 DEF Changes
<1>3. sessions[h] # None /\ sessions[h] \in SessionRecords /\ ~ sessions[h].retired
  BY <1>1, <1>2 DEF StillCurrent, IInv, SessionTypeOK
<1>4. /\ sessions' = [sessions EXCEPT ![h] = [sessions[h] EXCEPT !.retired = TRUE]]
      /\ inFlight' = [inFlight EXCEPT ![c] = None]
  BY DEF FinishRetire, Retired
<1> HIDE DEF h
<1>5. [sessions[h] EXCEPT !.retired = TRUE] \in SessionRecords
  BY <1>3, RetiredShape
<1>6. /\ sessions' \in [Handles -> SessionRecords \cup {None}]
      /\ sessions'[h] = [sessions[h] EXCEPT !.retired = TRUE]
      /\ \A k \in Handles : k # h => sessions'[k] = sessions[k]
  BY <1>2, <1>4, <1>5 DEF IInv, SessionTypeOK
<1> QED  BY <1>2, <1>3, <1>4, <1>6 DEF Live, h

\* A caller that lost its race, or has only resolved, leaves the sessions alone.
LEMMA OnlyInFlight ==
    ASSUME IInv, UNCHANGED sessions, inFlight' \in [Callers -> Changes \cup {None}],
           \A c \in Callers :
               inFlight'[c] # None => /\ sessions[inFlight'[c].handle] # None
                                      /\ sessions[inFlight'[c].handle].principal
                                            = inFlight'[c].principal
    PROVE  IInv'
  BY DEF IInv, SessionTypeOK, OneLiveSessionPerLogin, OnePrincipalPerLogin, Live

-----------------------------------------------------------------------------
\* The new session is the only one of its login, so it agrees with all others.
LEMMA IssuePreserves ==
    ASSUME IInv, NEW h \in Handles, NEW p \in Principals, NEW l \in Logins,
           IssueSession(h, p, l)
    PROVE  IInv'
<1>1. /\ sessions'[h].login = l /\ sessions'[h].principal = p
      /\ sessions'[h] # None /\ sessions[h] = None
      /\ \A k \in Handles : k # h => sessions'[k] = sessions[k]
      /\ \A k \in Handles : sessions[k] # None => sessions[k].login # l
      /\ inFlight' = inFlight
  <2>1. /\ NewSession(p, l) # None
        /\ NewSession(p, l).principal = p
        /\ NewSession(p, l).login = l
    BY NewSessionShape
  <2>2. /\ sessions[h] = None
        /\ \A k \in Handles : sessions[k] # None => sessions[k].login # l
        /\ sessions'[h] = NewSession(p, l)
        /\ \A k \in Handles : k # h => sessions'[k] = sessions[k]
        /\ UNCHANGED inFlight
    BY IssueEffect
  <2> QED  BY <2>1, <2>2
<1>2. SessionTypeOK'
  BY IssueEffect DEF IInv, SessionTypeOK
<1>3. OneLiveSessionPerLogin'
  BY <1>1 DEF IInv, OneLiveSessionPerLogin, Live
<1>4. \A f, g \in Handles :
         sessions'[f] # None /\ sessions'[g] # None /\ sessions'[f].login = sessions'[g].login
             => sessions'[f].principal = sessions'[g].principal
  BY <1>1 DEF IInv, OnePrincipalPerLogin
<1>5. ASSUME NEW c \in Callers, inFlight[c] # None
      PROVE  /\ sessions'[inFlight[c].handle] # None
             /\ sessions'[inFlight[c].handle].principal = inFlight[c].principal
  <2>1. inFlight[c].handle \in Handles
    BY <1>5 DEF IInv, SessionTypeOK, Changes
  <2>2. /\ sessions[inFlight[c].handle] # None
        /\ sessions[inFlight[c].handle].principal = inFlight[c].principal
    BY <1>5 DEF IInv, OnePrincipalPerLogin
  <2> QED  BY <1>1, <2>1, <2>2
<1>6. OnePrincipalPerLogin'
  BY <1>1, <1>4, <1>5 DEF OnePrincipalPerLogin
<1> QED  BY <1>2, <1>3, <1>6 DEF IInv

\* A change to one live session, with or without a successor of its principal and login,
\* leaves the changes in flight in agreement with the sessions they name.
LEMMA ChangesAgree ==
    ASSUME IInv, NEW c \in Callers, inFlight' = [inFlight EXCEPT ![c] = None],
           \A k \in Handles :
               sessions[k] # None => /\ sessions'[k] # None
                                     /\ sessions'[k].principal = sessions[k].principal
    PROVE  /\ inFlight' \in [Callers -> Changes \cup {None}]
           /\ \A d \in Callers :
                 inFlight'[d] # None =>
                     /\ sessions'[inFlight'[d].handle] # None
                     /\ sessions'[inFlight'[d].handle].principal = inFlight'[d].principal
<1>1. inFlight' \in [Callers -> Changes \cup {None}]
  BY DEF IInv, SessionTypeOK
<1>2. ASSUME NEW d \in Callers, inFlight'[d] # None
      PROVE  /\ sessions'[inFlight'[d].handle] # None
             /\ sessions'[inFlight'[d].handle].principal = inFlight'[d].principal
  <2>1. inFlight'[d] = inFlight[d] /\ inFlight[d] # None
    BY <1>2 DEF IInv, SessionTypeOK
  <2>2. inFlight[d].handle \in Handles
    BY <2>1 DEF IInv, SessionTypeOK, Changes
  <2>3. /\ sessions[inFlight[d].handle] # None
        /\ sessions[inFlight[d].handle].principal = inFlight[d].principal
    BY <2>1 DEF IInv, OnePrincipalPerLogin
  <2> QED  BY <2>1, <2>2, <2>3
<1> QED  BY <1>1, <1>2

\* The successor takes the predecessor's place: it is the login's only live session.
LEMMA RotatePreserves ==
    ASSUME IInv, NEW c \in Callers, NEW n \in Handles, FinishRotate(c, n),
           StillCurrent(inFlight[c].handle)
    PROVE  IInv'
<1> DEFINE h == inFlight[c].handle
           p == inFlight[c].principal
<1>1. /\ h \in Handles /\ n # h /\ p \in Principals
      /\ Live(h) /\ sessions[n] = None /\ sessions[h] \in SessionRecords
      /\ sessions[h].principal = p
      /\ sessions' \in [Handles -> SessionRecords \cup {None}]
      /\ sessions'[h] = [sessions[h] EXCEPT !.retired = TRUE]
      /\ sessions'[n] = NewSession(p, sessions[h].login)
      /\ \A k \in Handles : k # h /\ k # n => sessions'[k] = sessions[k]
      /\ inFlight' = [inFlight EXCEPT ![c] = None]
  BY RotateEffect
<1> HIDE DEF h, p
<1>2. /\ sessions'[h] # None /\ sessions'[h].retired = TRUE
      /\ sessions'[h].principal = p /\ sessions'[h].login = sessions[h].login
  BY <1>1, RetiredShape
<1>3. /\ sessions'[n] # None /\ sessions'[n].retired = FALSE
      /\ sessions'[n].principal = p /\ sessions'[n].login = sessions[h].login
  <2>1. p \in Principals /\ sessions[h].login \in Logins
    BY <1>1 DEF SessionRecords
  <2>2. /\ NewSession(p, sessions[h].login) # None
        /\ NewSession(p, sessions[h].login).retired = FALSE
        /\ NewSession(p, sessions[h].login).principal = p
        /\ NewSession(p, sessions[h].login).login = sessions[h].login
    BY <2>1, NewSessionShape
  <2> QED  BY <1>1, <2>2
<1>4. \A k \in Handles :
         sessions[k] # None => /\ sessions'[k] # None
                               /\ sessions'[k].principal = sessions[k].principal
                               /\ sessions'[k].login = sessions[k].login
  BY <1>1, <1>2
<1>5. OneLiveSessionPerLogin'
  <2>1. ASSUME NEW k \in Handles, k # n, Live(k)', sessions'[k].login = sessions[h].login
        PROVE  FALSE
    <3>1. k # h
      BY <1>2, <2>1 DEF Live
    <3>2. Live(k) /\ sessions[k].login = sessions[h].login
      BY <1>1, <2>1, <3>1 DEF Live
    <3> QED  BY <1>1, <3>1, <3>2 DEF IInv, OneLiveSessionPerLogin
  <2>2. ASSUME NEW f \in Handles, NEW g \in Handles, Live(f)', Live(g)',
               sessions'[f].login = sessions'[g].login, f # n, g # n
        PROVE  f = g
    <3>1. f # h /\ g # h
      BY <1>2, <2>2 DEF Live
    <3> QED  BY <1>1, <2>2, <3>1 DEF IInv, OneLiveSessionPerLogin, Live
  <2> QED  BY <1>3, <2>1, <2>2 DEF OneLiveSessionPerLogin
<1>6. \A f, g \in Handles :
         sessions'[f] # None /\ sessions'[g] # None /\ sessions'[f].login = sessions'[g].login
             => sessions'[f].principal = sessions'[g].principal
  <2>1. sessions[h] # None
    BY <1>1 DEF Live
  <2>2. ASSUME NEW k \in Handles, k # n, sessions'[k] # None
        PROVE  sessions[k] # None
    BY <1>1, <2>1, <2>2
  <2>3. ASSUME NEW k \in Handles, k # n, sessions'[k] # None,
               sessions'[k].login = sessions[h].login
        PROVE  sessions'[k].principal = p
    BY <1>1, <1>4, <2>1, <2>2, <2>3 DEF IInv, OnePrincipalPerLogin
  <2>4. ASSUME NEW f \in Handles, NEW g \in Handles, f # n, g # n,
               sessions'[f] # None, sessions'[g] # None,
               sessions'[f].login = sessions'[g].login
        PROVE  sessions'[f].principal = sessions'[g].principal
    BY <1>4, <2>2, <2>4 DEF IInv, OnePrincipalPerLogin
  <2> QED  BY <1>3, <2>3, <2>4
<1>7. /\ inFlight' \in [Callers -> Changes \cup {None}]
      /\ \A d \in Callers :
            inFlight'[d] # None =>
                /\ sessions'[inFlight'[d].handle] # None
                /\ sessions'[inFlight'[d].handle].principal = inFlight'[d].principal
  BY <1>1, <1>4, ChangesAgree
<1> QED  BY <1>1, <1>5, <1>6, <1>7 DEF IInv, SessionTypeOK, OnePrincipalPerLogin

\* A retirement ends a session and changes no principal.
LEMMA RetirePreserves ==
    ASSUME IInv, NEW c \in Callers, FinishRetire(c, TRUE)
    PROVE  IInv'
<1> DEFINE h == inFlight[c].handle
<1>1. /\ h \in Handles /\ Live(h) /\ sessions[h] \in SessionRecords
      /\ sessions' \in [Handles -> SessionRecords \cup {None}]
      /\ sessions'[h] = [sessions[h] EXCEPT !.retired = TRUE]
      /\ \A k \in Handles : k # h => sessions'[k] = sessions[k]
      /\ inFlight' = [inFlight EXCEPT ![c] = None]
  BY RetireEffect
<1> HIDE DEF h
<1>2. /\ sessions'[h] # None /\ sessions'[h].retired = TRUE
      /\ sessions'[h].principal = sessions[h].principal
      /\ sessions'[h].login = sessions[h].login
  BY <1>1, RetiredShape
<1>3. \A k \in Handles :
         /\ sessions[k] # None <=> sessions'[k] # None
         /\ sessions[k] # None => /\ sessions'[k].principal = sessions[k].principal
                                  /\ sessions'[k].login = sessions[k].login
         /\ Live(k)' => Live(k)
  BY <1>1, <1>2 DEF Live
<1>4. OneLiveSessionPerLogin'
  BY <1>3 DEF IInv, OneLiveSessionPerLogin, Live
<1>5. \A f, g \in Handles :
         sessions'[f] # None /\ sessions'[g] # None /\ sessions'[f].login = sessions'[g].login
             => sessions'[f].principal = sessions'[g].principal
  BY <1>3 DEF IInv, OnePrincipalPerLogin
<1>6. /\ inFlight' \in [Callers -> Changes \cup {None}]
      /\ \A d \in Callers :
            inFlight'[d] # None =>
                /\ sessions'[inFlight'[d].handle] # None
                /\ sessions'[inFlight'[d].handle].principal = inFlight'[d].principal
  BY <1>1, <1>3, ChangesAgree
<1> QED  BY <1>1, <1>4, <1>5, <1>6 DEF IInv, SessionTypeOK, OnePrincipalPerLogin

-----------------------------------------------------------------------------
\* Whoever resolves a session takes its principal along.
LEMMA BeginPreserves ==
    ASSUME IInv, NEW c \in Callers, NEW change \in Changes, UNCHANGED sessions,
           inFlight' = [inFlight EXCEPT ![c] = change],
           sessions[change.handle] # None,
           sessions[change.handle].principal = change.principal
    PROVE  IInv'
<1>1. inFlight' \in [Callers -> Changes \cup {None}]
  BY DEF IInv, SessionTypeOK
<1>2. ASSUME NEW d \in Callers, inFlight'[d] # None
      PROVE  /\ sessions[inFlight'[d].handle] # None
             /\ sessions[inFlight'[d].handle].principal = inFlight'[d].principal
  <2>1. CASE d = c
    BY <2>1 DEF IInv, SessionTypeOK
  <2>2. CASE d # c
    BY <1>2, <2>2 DEF IInv, SessionTypeOK, OnePrincipalPerLogin
  <2> QED  BY <2>1, <2>2
<1> QED  BY <1>1, <1>2, OnlyInFlight

\* The caller that loses its race leaves the sessions as they are.
LEMMA LosePreserves ==
    ASSUME IInv, NEW c \in Callers, UNCHANGED sessions,
           inFlight' = [inFlight EXCEPT ![c] = None]
    PROVE  IInv'
<1>1. /\ inFlight' \in [Callers -> Changes \cup {None}]
      /\ \A d \in Callers :
            inFlight'[d] # None =>
                /\ sessions'[inFlight'[d].handle] # None
                /\ sessions'[inFlight'[d].handle].principal = inFlight'[d].principal
  BY ChangesAgree
<1> QED  BY <1>1, OnlyInFlight

\* Every step keeps the invariant.
LEMMA NextIInv == IInv /\ [SessionNext]_sessionVars => IInv'
<1> SUFFICES ASSUME IInv, [SessionNext]_sessionVars PROVE IInv'
  OBVIOUS
<1>1. CASE IssueSome
  BY <1>1, IssuePreserves DEF IssueSome
<1>2. CASE BeginSome
  <2>1. ASSUME NEW c \in Callers, NEW h \in Handles, BeginRetire(c, h)
        PROVE  IInv'
    <3> DEFINE change == [handle |-> h, op |-> "retire", principal |-> sessions[h].principal]
    <3>1. sessions[h] \in SessionRecords /\ sessions[h] # None
      BY <2>1 DEF BeginRetire, Resolves, Live, IInv, SessionTypeOK
    <3>2. change \in Changes
      BY <3>1 DEF Changes, SessionRecords
    <3>3. inFlight' = [inFlight EXCEPT ![c] = change] /\ UNCHANGED sessions
      BY <2>1 DEF BeginRetire
    <3>4. change.handle = h /\ change.principal = sessions[h].principal
      OBVIOUS
    <3> HIDE DEF change
    <3> QED  BY <3>1, <3>2, <3>3, <3>4, BeginPreserves
  <2>2. ASSUME NEW c \in Callers, NEW h \in Handles, NEW p \in Principals,
               BeginRotate(c, h, p)
        PROVE  IInv'
    <3> DEFINE change == [handle |-> h, op |-> "rotate", principal |-> p]
    <3>1. sessions[h] # None /\ sessions[h].principal = p
      BY <2>2 DEF BeginRotate, Resolves, Live, SamePrincipal
    <3>2. change \in Changes
      BY DEF Changes
    <3>3. inFlight' = [inFlight EXCEPT ![c] = change] /\ UNCHANGED sessions
      BY <2>2 DEF BeginRotate
    <3>4. change.handle = h /\ change.principal = p
      OBVIOUS
    <3> HIDE DEF change
    <3> QED  BY <3>1, <3>2, <3>3, <3>4, BeginPreserves
  <2> QED  BY <1>2, <2>1, <2>2 DEF BeginSome
<1>3. CASE RotateSome
  <2>1. PICK c \in Callers, n \in Handles : FinishRotate(c, n)
    BY <1>3 DEF RotateSome
  <2>2. CASE StillCurrent(inFlight[c].handle)
    BY <2>1, <2>2, RotatePreserves
  <2>3. CASE ~ StillCurrent(inFlight[c].handle)
    <3>1. UNCHANGED sessions /\ inFlight' = [inFlight EXCEPT ![c] = None]
      BY <2>1, <2>3 DEF FinishRotate
    <3> QED  BY <3>1, LosePreserves
  <2> QED  BY <2>2, <2>3
<1>4. CASE RetireSome
  <2>1. PICK c \in Callers, won \in BOOLEAN : FinishRetire(c, won)
    BY <1>4 DEF RetireSome
  <2>2. CASE won
    <3>1. FinishRetire(c, TRUE)
      BY <2>1, <2>2
    <3> QED  BY <3>1, RetirePreserves
  <2>3. CASE ~ won
    <3>1. UNCHANGED sessions /\ inFlight' = [inFlight EXCEPT ![c] = None]
      BY <2>1, <2>3 DEF FinishRetire
    <3> QED  BY <3>1, LosePreserves
  <2> QED  BY <2>2, <2>3
<1>5. CASE UNCHANGED sessionVars
  BY <1>5 DEF sessionVars, IInv, SessionTypeOK, OneLiveSessionPerLogin, OnePrincipalPerLogin,
              Live
<1> QED  BY <1>1, <1>2, <1>3, <1>4, <1>5 DEF SessionNext

\* The invariant holds throughout.
LEMMA SessionInvariant == SessionSpec => []IInv
  BY InitIInv, NextIInv, PTL DEF SessionSpec

-----------------------------------------------------------------------------
\* Records and changes in flight keep their types: retiring and rotating rewrite the
\* retired flag and nothing else.
THEOREM SessionTypeCorrect == SessionSpec => []SessionTypeOK
  BY SessionInvariant, PTL DEF IInv

\* Whatever rotations race, the store's compare-and-set leaves a login one live session.
THEOREM SessionOneLivePerLogin == SessionSpec => []OneLiveSessionPerLogin
  BY SessionInvariant, PTL DEF IInv

\* No chain of rotations and reauthentications ends in a session of another principal.
THEOREM SessionOnePrincipal == SessionSpec => []OnePrincipalPerLogin
  BY SessionInvariant, PTL DEF IInv

\* A step never rewrites a retired record: issue and rotate write handles that are free,
\* and both changes are refused by the store's comparison.
LEMMA StepRetiredFinal ==
    ASSUME IInv, [SessionNext]_sessionVars, NEW h \in Handles,
           sessions[h] # None, sessions[h].retired
    PROVE  sessions'[h] = sessions[h]
<1>1. CASE IssueSome
  BY <1>1, IssueEffect DEF IssueSome
<1>2. CASE RotateSome
  <2>1. PICK c \in Callers, n \in Handles : FinishRotate(c, n)
    BY <1>2 DEF RotateSome
  <2>2. CASE StillCurrent(inFlight[c].handle)
    <3>1. /\ Live(inFlight[c].handle) /\ sessions[n] = None
          /\ \A k \in Handles : k # inFlight[c].handle /\ k # n => sessions'[k] = sessions[k]
      BY <2>1, <2>2, RotateEffect
    <3> QED  BY <3>1 DEF Live
  <2>3. CASE ~ StillCurrent(inFlight[c].handle)
    BY <2>1, <2>3 DEF FinishRotate
  <2> QED  BY <2>2, <2>3
<1>3. CASE RetireSome
  <2>1. PICK c \in Callers, won \in BOOLEAN : FinishRetire(c, won)
    BY <1>3 DEF RetireSome
  <2>2. CASE won
    <3>1. FinishRetire(c, TRUE)
      BY <2>1, <2>2
    <3>2. /\ Live(inFlight[c].handle)
          /\ \A k \in Handles : k # inFlight[c].handle => sessions'[k] = sessions[k]
      BY <3>1, RetireEffect
    <3> QED  BY <3>2 DEF Live
  <2>3. CASE ~ won
    BY <2>1, <2>3 DEF FinishRetire
  <2> QED  BY <2>2, <2>3
<1>4. CASE BeginSome \/ UNCHANGED sessionVars
  BY <1>4 DEF BeginSome, BeginRotate, BeginRetire, sessionVars
<1> QED  BY <1>1, <1>2, <1>3, <1>4 DEF SessionNext

\* A retired session never becomes current again.
THEOREM SessionRetiredIsFinal == SessionSpec => RetiredIsFinal
<1>1. IInv /\ [SessionNext]_sessionVars
        => [\A h \in Handles : sessions[h] # None /\ sessions[h].retired
               => sessions'[h] = sessions[h]]_sessionVars
  BY StepRetiredFinal
<1> QED  BY <1>1, SessionInvariant, PTL DEF SessionSpec, RetiredIsFinal

-----------------------------------------------------------------------------
(* Implementation of LoginLifecycle.  A login is what its sessions show:   *)
(* nothing, the principal of the live one, or the end.                     *)

Shown(l) ==
    /\ (\A h \in Handles : sessions[h] # None => sessions[h].login # l) => LoginOf(l) = None
    /\ \A h \in Handles :
          Live(h) /\ sessions[h].login = l => LoginOf(l) = sessions[h].principal
    /\ \A h \in Handles :
          /\ sessions[h] # None /\ sessions[h].login = l
          /\ \A k \in Handles : sessions[k] # None /\ sessions[k].login = l => ~ Live(k)
          => LoginOf(l) = "ended"

AllShown == \A l \in Logins : Shown(l)

\* With one live session per login the choice in LoginOf is determined.
LEMMA Determined == IInv => AllShown
<1> SUFFICES ASSUME IInv, NEW l \in Logins PROVE Shown(l)
  BY DEF AllShown
<1>1. (\A h \in Handles : sessions[h] # None => sessions[h].login # l) => LoginOf(l) = None
  BY DEF LoginOf, SessionsOf
<1>2. ASSUME NEW h \in Handles, Live(h), sessions[h].login = l
      PROVE  LoginOf(l) = sessions[h].principal
  <2>1. h \in SessionsOf(l)
    BY <1>2 DEF SessionsOf, Live
  <2> DEFINE g == CHOOSE k \in SessionsOf(l) : Live(k)
  <2>2. g \in SessionsOf(l) /\ Live(g)
    BY <1>2, <2>1
  <2>3. g = h
    BY <1>2, <2>2 DEF IInv, OneLiveSessionPerLogin, SessionsOf
  <2>4. LoginOf(l) = sessions[g].principal
    BY <1>2, <2>1 DEF LoginOf
  <2> QED  BY <2>3, <2>4
<1>3. ASSUME NEW h \in Handles, sessions[h] # None, sessions[h].login = l,
             \A k \in Handles : sessions[k] # None /\ sessions[k].login = l => ~ Live(k)
      PROVE  LoginOf(l) = "ended"
  BY <1>3 DEF LoginOf, SessionsOf
<1> QED  BY <1>1, <1>2, <1>3 DEF Shown

\* The same in the next state.
LEMMA DeterminedNext == IInv /\ [SessionNext]_sessionVars => AllShown /\ AllShown'
<1>1. IInv' => AllShown'
  BY Determined, PTL
<1> QED  BY <1>1, Determined, NextIInv

\* A step that leaves the sessions of a login alone leaves what they show.
LEMMA SameLogin ==
    ASSUME NEW l \in Logins, Shown(l), Shown(l)',
           \A k \in Handles :
               (sessions[k] # None /\ sessions[k].login = l)
                   \/ (sessions'[k] # None /\ sessions'[k].login = l)
               => sessions'[k] = sessions[k]
    PROVE  LoginOf(l)' = LoginOf(l)
<1>1. CASE \A h \in Handles : sessions[h] # None => sessions[h].login # l
  <2>1. \A h \in Handles : sessions'[h] # None => sessions'[h].login # l
    BY <1>1
  <2> QED  BY <1>1, <2>1 DEF Shown
<1>2. ASSUME NEW h \in Handles, Live(h), sessions[h].login = l
      PROVE  LoginOf(l)' = LoginOf(l)
  <2>1. sessions'[h] = sessions[h] /\ Live(h)'
    BY <1>2 DEF Live
  <2> QED  BY <1>2, <2>1 DEF Shown
<1>3. ASSUME NEW h \in Handles, sessions[h] # None, sessions[h].login = l,
             \A k \in Handles : sessions[k] # None /\ sessions[k].login = l => ~ Live(k)
      PROVE  LoginOf(l)' = LoginOf(l)
  <2>1. sessions'[h] = sessions[h]
    BY <1>3
  <2>2. \A k \in Handles : sessions'[k] # None /\ sessions'[k].login = l => ~ Live(k)'
    BY <1>3 DEF Live
  <2> QED  BY <1>3, <2>1, <2>2 DEF Shown
<1> QED  BY <1>1, <1>2, <1>3

\* Issue begins the login of its session.
LEMMA IssueBegins ==
    ASSUME IInv, AllShown, AllShown', NEW h \in Handles, NEW p \in Principals, NEW l \in Logins,
           IssueSession(h, p, l)
    PROVE  Lifecycle!Begin(l, p)
<1>1. /\ sessions'[h].login = l /\ sessions'[h].principal = p /\ Live(h)'
      /\ sessions[h] = None
      /\ \A k \in Handles : k # h => sessions'[k] = sessions[k]
      /\ \A k \in Handles : sessions[k] # None => sessions[k].login # l
  <2>1. /\ NewSession(p, l) # None /\ NewSession(p, l).retired = FALSE
        /\ NewSession(p, l).principal = p /\ NewSession(p, l).login = l
    BY NewSessionShape
  <2>2. /\ sessions[h] = None
        /\ \A k \in Handles : sessions[k] # None => sessions[k].login # l
        /\ sessions'[h] = NewSession(p, l)
        /\ \A k \in Handles : k # h => sessions'[k] = sessions[k]
    BY IssueEffect
  <2> QED  BY <2>1, <2>2 DEF Live
<1>2. LoginOf(l) = None /\ LoginOf(l)' = p
  BY <1>1 DEF AllShown, Shown
<1>3. ASSUME NEW m \in Logins, m # l PROVE LoginOf(m)' = LoginOf(m)
  <2>1. \A k \in Handles :
           (sessions[k] # None /\ sessions[k].login = m)
               \/ (sessions'[k] # None /\ sessions'[k].login = m)
           => sessions'[k] = sessions[k]
    BY <1>1, <1>3
  <2>2. Shown(m) /\ Shown(m)'
    BY DEF AllShown
  <2> QED  BY <2>1, <2>2, SameLogin
<1> QED  BY <1>2, <1>3 DEF Lifecycle!Begin

\* The retirement that wins ends the login.
LEMMA RetireEnds ==
    ASSUME IInv, IInv', AllShown, AllShown', NEW c \in Callers, FinishRetire(c, TRUE)
    PROVE  \E l \in Logins : Lifecycle!End(l)
<1>1. PICK h \in Handles :
         /\ Live(h) /\ sessions[h] \in SessionRecords
         /\ sessions'[h] = [sessions[h] EXCEPT !.retired = TRUE]
         /\ \A k \in Handles : k # h => sessions'[k] = sessions[k]
  BY RetireEffect
<1>2. PICK l \in Logins : l = sessions[h].login /\ sessions[h].principal \in Principals
  BY <1>1 DEF SessionRecords
<1>3. /\ sessions'[h] # None /\ sessions'[h].retired = TRUE /\ sessions'[h].login = l
  BY <1>1, <1>2, RetiredShape
<1>4. LoginOf(l) \in Principals
  BY <1>1, <1>2 DEF AllShown, Shown
<1>5. LoginOf(l)' = "ended"
  <2>1. \A k \in Handles : sessions'[k] # None /\ sessions'[k].login = l => ~ Live(k)'
    BY <1>1, <1>2, <1>3 DEF IInv, OneLiveSessionPerLogin, Live
  <2>2. Shown(l)'
    BY DEF AllShown
  <2> QED  BY <1>3, <2>1, <2>2 DEF Shown
<1>6. ASSUME NEW m \in Logins, m # l PROVE LoginOf(m)' = LoginOf(m)
  <2>1. \A k \in Handles :
           (sessions[k] # None /\ sessions[k].login = m)
               \/ (sessions'[k] # None /\ sessions'[k].login = m)
           => sessions'[k] = sessions[k]
    BY <1>1, <1>2, <1>3, <1>6
  <2>2. Shown(m) /\ Shown(m)'
    BY DEF AllShown
  <2> QED  BY <2>1, <2>2, SameLogin
<1>7. Lifecycle!End(l)
  BY <1>4, <1>5, <1>6 DEF Lifecycle!End
<1> QED  BY <1>7

\* A rotation that wins shows the same principal through its successor.
LEMMA RotateInvisible ==
    ASSUME IInv, AllShown, AllShown', NEW c \in Callers, NEW n \in Handles,
           FinishRotate(c, n), StillCurrent(inFlight[c].handle), NEW m \in Logins
    PROVE  LoginOf(m)' = LoginOf(m)
<1>1. PICK h \in Handles, p \in Principals :
         /\ n # h /\ Live(h) /\ sessions[n] = None /\ sessions[h] \in SessionRecords
         /\ sessions[h].principal = p
         /\ sessions'[h] = [sessions[h] EXCEPT !.retired = TRUE]
         /\ sessions'[n] = NewSession(p, sessions[h].login)
         /\ \A k \in Handles : k # h /\ k # n => sessions'[k] = sessions[k]
  BY RotateEffect
<1>2. PICK l \in Logins : l = sessions[h].login
  BY <1>1 DEF SessionRecords
<1>3. /\ NewSession(p, l) # None /\ NewSession(p, l).retired = FALSE
      /\ NewSession(p, l).principal = p /\ NewSession(p, l).login = l
  BY NewSessionShape
<1>4. Live(n)' /\ sessions'[n].login = l /\ sessions'[n].principal = p
  BY <1>1, <1>2, <1>3 DEF Live
<1>5. sessions'[h].login = l
  BY <1>1, <1>2, RetiredShape
<1>6. Shown(m) /\ Shown(m)'
  BY DEF AllShown
<1>7. CASE m = l
  BY <1>1, <1>2, <1>4, <1>6, <1>7 DEF Shown
<1>8. CASE m # l
  <2>1. \A k \in Handles :
           (sessions[k] # None /\ sessions[k].login = m)
               \/ (sessions'[k] # None /\ sessions'[k].login = m)
           => sessions'[k] = sessions[k]
    BY <1>1, <1>2, <1>4, <1>5, <1>8
  <2> QED  BY <1>6, <2>1, SameLogin
<1> QED  BY <1>7, <1>8

\* Before any session, no login has begun.
LEMMA InitMaps == SessionInit => Lifecycle!LoginInit
  BY DEF SessionInit, Lifecycle!LoginInit, LoginOf, SessionsOf

\* Every step begins a login, ends one, or shows nothing.
LEMMA StepMaps ==
    IInv /\ [SessionNext]_sessionVars
        => [Lifecycle!LoginNext]_([l \in Logins |-> LoginOf(l)])
<1> SUFFICES ASSUME IInv, [SessionNext]_sessionVars
             PROVE  Lifecycle!LoginNext \/ \A l \in Logins : LoginOf(l)' = LoginOf(l)
  OBVIOUS
<1>0. IInv' /\ AllShown /\ AllShown'
  BY DeterminedNext, NextIInv
<1>u. ASSUME UNCHANGED sessions PROVE \A l \in Logins : LoginOf(l)' = LoginOf(l)
  BY <1>u DEF LoginOf, SessionsOf, Live
<1>1. CASE IssueSome
  <2>1. PICK h \in Handles, p \in Principals, l \in Logins : IssueSession(h, p, l)
    BY <1>1 DEF IssueSome
  <2>2. Lifecycle!Begin(l, p)
    BY <1>0, <2>1, IssueBegins
  <2> QED  BY <2>2 DEF Lifecycle!LoginNext
<1>2. CASE RotateSome
  <2>1. PICK c \in Callers, n \in Handles : FinishRotate(c, n)
    BY <1>2 DEF RotateSome
  <2>2. CASE StillCurrent(inFlight[c].handle)
    BY <1>0, <2>1, <2>2, RotateInvisible
  <2>3. CASE ~ StillCurrent(inFlight[c].handle)
    BY <1>u, <2>1, <2>3 DEF FinishRotate
  <2> QED  BY <2>2, <2>3
<1>3. CASE RetireSome
  <2>1. PICK c \in Callers, won \in BOOLEAN : FinishRetire(c, won)
    BY <1>3 DEF RetireSome
  <2>2. CASE won
    <3>1. FinishRetire(c, TRUE)
      BY <2>1, <2>2
    <3>2. \E l \in Logins : Lifecycle!End(l)
      BY <1>0, <3>1, RetireEnds
    <3> QED  BY <3>2 DEF Lifecycle!LoginNext
  <2>3. CASE ~ won
    BY <1>u, <2>1, <2>3 DEF FinishRetire
  <2> QED  BY <2>2, <2>3
<1>4. CASE BeginSome \/ UNCHANGED sessionVars
  BY <1>u, <1>4 DEF BeginSome, BeginRotate, BeginRetire, sessionVars
<1> QED  BY <1>1, <1>2, <1>3, <1>4 DEF SessionNext

\* Rotations are invisible: whatever races, a login begins once, ends once with the
\* retirement that wins, and no successor revives it.
THEOREM SessionKeepsLifecycle == SessionSpec => KeepsLifecycle
  BY InitMaps, StepMaps, SessionInvariant, PTL DEF SessionSpec, KeepsLifecycle, Lifecycle!LoginSpec

-----------------------------------------------------------------------------
(* The shell over the sessions *)

\* The requests by kind.
CallbackRequests ==
    [kind : {"callback"}, step : {"begun", "consumed", "exchanged", "issued", "ruled"},
     login : Logins, binding : Logins, handle : Handles \cup {None}]
ViewRequests ==
    [kind : {"shell"}, step : {"begun", "resolved", "narrowed", "ready", "denied"},
     handle : Handles, late : BOOLEAN]
LogoutRequests ==
    [kind : {"logout"}, step : {"bound", "resolved", "retired"}, handle : Handles]

\* The store knows the handle.
Known(h) == h \in Handles /\ sessions[h] # None

\* A callback past the exchange has taken its transaction, and before the issue its login has no
\* session.  Every other request is about a session there is: a late view about one that is
\* retired, and a logout about the one it retires.
Served(c, r) ==
    /\ r.kind = "callback" =>
          /\ r.step # "begun" => transactions[r.login] = "consumed"
          /\ r.step \in {"consumed", "exchanged"} => SessionsOf(r.login) = {}
          /\ r.step \in {"issued", "ruled"} => Known(r.handle)
    /\ r.kind # "callback" => Known(r.handle)
    /\ r.kind = "shell" =>
          (r.late => sessions[r.handle].retired /\ r.step \in {"begun", "denied"})
    /\ r.kind = "logout" =>
          /\ r.step = "retired" => sessions[r.handle].retired
          /\ r.step = "resolved" =>
                inFlight[c] # None /\ inFlight[c].op = "retire" /\ inFlight[c].handle = r.handle

\* Request r is a callback of login l that got past the transaction.
Past(r, l) == r.kind = "callback" /\ r.step # "begun" /\ r.login = l

\* A login with a session has used its transaction up, and the browser's handles are known.
StoresAgree ==
    /\ transactions \in [Logins -> {"absent", "open", "consumed"}]
    /\ binding \in Logins \cup {None}
    /\ \A l \in Logins : SessionsOf(l) # {} => transactions[l] = "consumed"
    /\ \A h \in delivered : Known(h)
    /\ LiveCanLogOut

\* Every request is served, and one callback per login is past its transaction.
RequestsAreServed ==
    /\ requests \in [Callers -> Requests \cup {NoRequest}]
    /\ \A c \in Callers : requests[c] # NoRequest => Served(c, requests[c])
    /\ \A c, d \in Callers, l \in Logins : PastConsume(c, l) /\ PastConsume(d, l) => c = d

ShellInvariant == IInv /\ StoresAgree /\ RequestsAreServed

\* What kind of request a request is tells its fields.
LEMMA RequestKinds ==
    \A r \in Requests : /\ r.kind = "callback" => r \in CallbackRequests
                        /\ r.kind = "shell" => r \in ViewRequests
                        /\ r.kind = "logout" => r \in LogoutRequests
                        /\ r.kind \in {"shell", "refusal", "logout"} => r.handle \in Handles
                        /\ r # NoRequest
  BY ShellConstants DEF Requests, CallbackRequests, ViewRequests, LogoutRequests

\* Sessions stay, those of a login stay with it, and retired ones stay retired.
LEMMA SessionsKept ==
    ASSUME IInv, [SessionNext]_sessionVars, NEW h \in Handles, sessions[h] # None
    PROVE  /\ sessions'[h] # None /\ sessions'[h].login = sessions[h].login
           /\ sessions[h].retired => sessions'[h].retired
<1>1. CASE sessions[h].retired
  BY <1>1, StepRetiredFinal
<1>2. CASE ~ sessions[h].retired
  <2>1. CASE IssueSome
    BY <2>1, IssueEffect DEF IssueSome
  <2>2. CASE RotateSome
    <3>1. PICK c \in Callers, n \in Handles : FinishRotate(c, n)
      BY <2>2 DEF RotateSome
    <3>2. CASE StillCurrent(inFlight[c].handle)
      <4>1. /\ sessions[n] = None /\ sessions[inFlight[c].handle] \in SessionRecords
            /\ sessions'[inFlight[c].handle] = [sessions[inFlight[c].handle] EXCEPT !.retired = TRUE]
            /\ \A k \in Handles : k # inFlight[c].handle /\ k # n => sessions'[k] = sessions[k]
        BY <3>1, <3>2, RotateEffect
      <4>2. CASE h = inFlight[c].handle
        BY <4>1, <4>2, RetiredShape, <1>2
      <4>3. CASE h # inFlight[c].handle
        BY <4>1, <4>3
      <4> QED  BY <4>2, <4>3
    <3>3. CASE ~ StillCurrent(inFlight[c].handle)
      BY <3>1, <3>3 DEF FinishRotate
    <3> QED  BY <3>2, <3>3
  <2>3. CASE RetireSome
    <3>1. PICK c \in Callers, won \in BOOLEAN : FinishRetire(c, won)
      BY <2>3 DEF RetireSome
    <3>2. CASE won
      <4>1. FinishRetire(c, TRUE)
        BY <3>1, <3>2
      <4>2. /\ sessions[inFlight[c].handle] \in SessionRecords
            /\ sessions'[inFlight[c].handle] = [sessions[inFlight[c].handle] EXCEPT !.retired = TRUE]
            /\ \A k \in Handles : k # inFlight[c].handle => sessions'[k] = sessions[k]
        BY <4>1, RetireEffect
      <4>3. CASE h = inFlight[c].handle
        BY <4>2, <4>3, RetiredShape, <1>2
      <4>4. CASE h # inFlight[c].handle
        BY <4>2, <4>4
      <4> QED  BY <4>3, <4>4
    <3>3. CASE ~ won
      BY <3>1, <3>3 DEF FinishRetire
    <3> QED  BY <3>2, <3>3
  <2>4. CASE BeginSome \/ UNCHANGED sessionVars
    BY <2>4 DEF BeginSome, BeginRotate, BeginRetire, sessionVars
  <2> QED  BY <2>1, <2>2, <2>3, <2>4 DEF SessionNext
<1> QED  BY <1>1, <1>2

\* Rotations and retirements bring no login its first session.
LEMMA NoFirstSession ==
    ASSUME IInv, BeginSome \/ RotateSome \/ RetireSome \/ UNCHANGED sessionVars,
           NEW l \in Logins, SessionsOf(l) = {}
    PROVE  SessionsOf(l)' = {}
<1>1. \A k \in Handles : sessions[k] # None => sessions[k].login # l
  BY DEF SessionsOf
<1>2. CASE RotateSome
  <2>1. PICK c \in Callers, n \in Handles : FinishRotate(c, n)
    BY <1>2 DEF RotateSome
  <2>2. CASE StillCurrent(inFlight[c].handle)
    <3> DEFINE h == inFlight[c].handle
               p == inFlight[c].principal
    <3>1. /\ h \in Handles /\ p \in Principals /\ Live(h)
          /\ sessions[h] \in SessionRecords
          /\ sessions'[h] = [sessions[h] EXCEPT !.retired = TRUE]
          /\ sessions'[n] = NewSession(p, sessions[h].login)
          /\ \A k \in Handles : k # h /\ k # n => sessions'[k] = sessions[k]
      BY <2>1, <2>2, RotateEffect
    <3> HIDE DEF h, p
    <3>2. sessions[h].login # l /\ sessions[h].login \in Logins
      BY <1>1, <3>1 DEF Live, SessionRecords
    <3>3. sessions'[h].login # l
      BY <3>1, <3>2, RetiredShape
    <3>4. sessions'[n].login # l
      BY <3>1, <3>2 DEF NewSession
    <3> QED  BY <1>1, <3>1, <3>3, <3>4 DEF SessionsOf
  <2>3. CASE ~ StillCurrent(inFlight[c].handle)
    BY <2>1, <2>3 DEF FinishRotate, SessionsOf
  <2> QED  BY <2>2, <2>3
<1>3. CASE RetireSome
  <2>1. PICK c \in Callers, won \in BOOLEAN : FinishRetire(c, won)
    BY <1>3 DEF RetireSome
  <2>2. CASE won
    <3> DEFINE h == inFlight[c].handle
    <3>1. FinishRetire(c, TRUE)
      BY <2>1, <2>2
    <3>2. /\ h \in Handles /\ Live(h) /\ sessions[h] \in SessionRecords
          /\ sessions'[h] = [sessions[h] EXCEPT !.retired = TRUE]
          /\ \A k \in Handles : k # h => sessions'[k] = sessions[k]
      BY <3>1, RetireEffect
    <3>3. sessions'[h].login # l
      BY <1>1, <3>2, RetiredShape DEF Live
    <3> QED  BY <1>1, <3>2, <3>3 DEF SessionsOf
  <2>3. CASE ~ won
    BY <2>1, <2>3 DEF FinishRetire, SessionsOf
  <2> QED  BY <2>2, <2>3
<1>4. CASE BeginSome \/ UNCHANGED sessionVars
  BY <1>4 DEF BeginSome, BeginRotate, BeginRetire, sessionVars, SessionsOf
<1> QED  BY <1>2, <1>3, <1>4

\* The shell moves sessions by calls of the session authority only: the transaction, which one
\* callback takes, stands in for the check that a login has no session yet.
LEMMA ShellStepIsSessionStep ==
    ShellInvariant /\ [ShellNext]_shellVars => [SessionNext]_sessionVars
<1> SUFFICES ASSUME ShellInvariant, [ShellNext]_shellVars PROVE [SessionNext]_sessionVars
  OBVIOUS
<1> USE DEF ShellInvariant, RequestsAreServed
<1>1. CASE LoginSome
  <2>1. ASSUME NEW c \in Callers, NEW h \in Handles, NEW p \in Principals, IssueForLogin(c, h, p)
        PROVE  SessionNext
    <3>1. requests[c] \in Requests /\ requests[c].kind = "callback" /\ requests[c].step = "exchanged"
          /\ Served(c, requests[c])
      BY <2>1 DEF IssueForLogin, At
    <3>2. requests[c].login \in Logins /\ SessionsOf(requests[c].login) = {}
      BY <3>1, RequestKinds DEF CallbackRequests, Served
    <3>3. IssueSession(h, p, requests[c].login)
      BY <2>1, <3>2 DEF IssueForLogin, IssueSession
    <3> QED  BY <3>2, <3>3 DEF SessionNext, IssueSome
  <2> QED  BY <1>1, <2>1 DEF LoginSome, StartLogin, ReceiveCallback, ConsumeTransaction, ExchangeCode,
                             SetMode, BindLineage
<1>2. CASE ViewSome
  BY <1>2 DEF ViewSome, ReceiveShell, ResolveForShell, NarrowAdmission, FinalAdmission, Explain,
              RespondShell
<1>3. CASE LogoutSome
  <2>1. ASSUME NEW c \in Callers, NEW current \in BOOLEAN, ResolveForLogout(c, current)
        PROVE  [SessionNext]_sessionVars
    <3>1. requests[c] \in Requests /\ requests[c].kind = "logout"
      BY <2>1 DEF ResolveForLogout, At
    <3>2. requests[c].handle \in Handles
      BY <3>1, RequestKinds
    <3> QED  BY <2>1, <3>2 DEF ResolveForLogout, SessionNext, BeginSome
  <2>2. ASSUME NEW c \in Callers, NEW won \in BOOLEAN, RetireForLogout(c, won)
        PROVE  [SessionNext]_sessionVars
    BY <2>2 DEF RetireForLogout, SessionNext, RetireSome
  <2> QED  BY <1>3, <2>1, <2>2 DEF LogoutSome, ReceiveLogout, AcknowledgeLogout
<1>4. CASE StepUpSome
  BY <1>4 DEF StepUpSome, SessionNext, RotateSome, BeginSome
<1>5. CASE UNCHANGED shellVars
  BY <1>5 DEF shellVars
<1> QED  BY <1>1, <1>2, <1>3, <1>4, <1>5 DEF ShellNext

\* A request that is served stays served while other threads move.
LEMMA StaysServed ==
    ASSUME ShellInvariant, [SessionNext]_sessionVars, NEW d \in Callers, NEW r \in Requests,
           Served(d, r), inFlight'[d] = inFlight[d],
           \A l \in Logins : transactions[l] = "consumed" => transactions'[l] = "consumed",
           r.kind = "callback" /\ r.step \in {"consumed", "exchanged"} => SessionsOf(r.login)' = {}
    PROVE  Served(d, r)'
<1>1. \A h \in Handles : sessions[h] # None =>
         sessions'[h] # None /\ (sessions[h].retired => sessions'[h].retired)
  BY SessionsKept DEF ShellInvariant
<1>2. r.kind = "callback" => r.login \in Logins
  BY RequestKinds DEF CallbackRequests
<1>3. r.kind # "callback" => r.handle \in Handles
  BY DEF Served, Known
<1> QED  BY <1>1, <1>2, <1>3 DEF Served, Known

\* The session authority and the stores as they are, thread c moves on to request r, or is done.
LEMMA MoveKeeps ==
    ASSUME ShellInvariant, NEW c \in Callers, NEW r \in Requests \cup {NoRequest},
           requests' = [requests EXCEPT ![c] = r], r # NoRequest => Served(c, r)',
           [SessionNext]_sessionVars, StoresAgree',
           \A d \in Callers : d # c => inFlight'[d] = inFlight[d],
           \A l \in Logins : transactions[l] = "consumed" => transactions'[l] = "consumed",
           \A d \in Callers : /\ d # c /\ requests[d] # NoRequest /\ requests[d].kind = "callback"
                              /\ requests[d].step \in {"consumed", "exchanged"}
               => SessionsOf(requests[d].login)' = {},
           \A d \in Callers, l \in Logins :
               d # c /\ PastConsume(d, l) /\ r # NoRequest => ~ Past(r, l)
    PROVE  ShellInvariant'
<1>1. IInv'
  BY NextIInv DEF ShellInvariant
<1>2. requests' \in [Callers -> Requests \cup {NoRequest}]
      /\ requests'[c] = r /\ \A d \in Callers : d # c => requests'[d] = requests[d]
  BY DEF ShellInvariant, RequestsAreServed
<1>3. ASSUME NEW d \in Callers, requests'[d] # NoRequest
      PROVE  Served(d, requests[d])' 
  <2>1. CASE d = c
    BY <1>2, <1>3, <2>1
  <2>2. CASE d # c
    <3>1. PICK q : q = requests[d]
      OBVIOUS
    <3>2. q \in Requests /\ Served(d, q) /\ requests'[d] = q
      BY <1>2, <1>3, <2>2, <3>1 DEF ShellInvariant, RequestsAreServed
    <3>3. Served(d, q)'
      BY <2>2, <3>1, <3>2, StaysServed, ShellConstants
    <3> QED  BY <3>2, <3>3
  <2> QED  BY <2>1, <2>2
<1>4. ASSUME NEW d \in Callers, NEW e \in Callers, NEW l \in Logins,
             PastConsume(d, l)', PastConsume(e, l)'
      PROVE  d = e
  BY <1>2, <1>4 DEF PastConsume, Past, ShellInvariant, RequestsAreServed
<1> QED  BY <1>1, <1>2, <1>3, <1>4 DEF ShellInvariant, RequestsAreServed

\* Steps of the session authority other than an issue leave the stores in agreement.
LEMMA StoresKeep ==
    ASSUME ShellInvariant, BeginSome \/ RotateSome \/ RetireSome \/ UNCHANGED sessionVars,
           UNCHANGED <<transactions, delivered, lineage>>, binding' \in Logins \cup {None}
    PROVE  StoresAgree'
<1>1. [SessionNext]_sessionVars
  BY DEF SessionNext
<1>2. \A h \in Handles : sessions[h] # None =>
         sessions'[h] # None /\ (sessions[h].retired => sessions'[h].retired)
  BY <1>1, SessionsKept DEF ShellInvariant
<1>3. \A l \in Logins : SessionsOf(l) = {} => SessionsOf(l)' = {}
  BY NoFirstSession DEF ShellInvariant
<1>4. \A h \in delivered : h \in Handles /\ sessions[h] # None
  BY DEF ShellInvariant, StoresAgree, Known
<1>5. \A h \in delivered' : Live(h)' => h \in lineage'
  BY <1>2, <1>4 DEF ShellInvariant, StoresAgree, LiveCanLogOut, Live
<1> QED  BY <1>2, <1>3, <1>4, <1>5 DEF ShellInvariant, StoresAgree, LiveCanLogOut, Known

\* Thread c moves on, and nothing else does that the invariant is about.
LEMMA QuietMove ==
    ASSUME ShellInvariant, NEW c \in Callers, NEW r \in Requests \cup {NoRequest},
           requests' = [requests EXCEPT ![c] = r], r # NoRequest => Served(c, r),
           UNCHANGED <<sessionVars, transactions, delivered, lineage>>,
           binding' \in Logins \cup {None},
           \A d \in Callers, l \in Logins :
               d # c /\ PastConsume(d, l) /\ r # NoRequest => ~ Past(r, l)
    PROVE  ShellInvariant'
<1>1. StoresAgree'
  BY StoresKeep
<1>2. UNCHANGED <<sessions, inFlight, transactions>>
  BY DEF sessionVars
<1>3. r # NoRequest => Served(c, r)'
  BY <1>2 DEF Served, Known, SessionsOf
<1>4. ASSUME NEW d \in Callers, d # c, requests[d] # NoRequest, requests[d].kind = "callback",
             requests[d].step \in {"consumed", "exchanged"}
      PROVE  SessionsOf(requests[d].login)' = {}
  <2>1. SessionsOf(requests[d].login) = {}
    BY <1>4 DEF ShellInvariant, RequestsAreServed, Served
  <2>2. PICK q : q = requests[d]
    OBVIOUS
  <2>3. requests'[d] = q
    BY <1>4, <2>2 DEF ShellInvariant, RequestsAreServed
  <2> QED  BY <1>2, <2>1, <2>2, <2>3 DEF SessionsOf
<1> QED  BY <1>1, <1>2, <1>3, <1>4, MoveKeeps

\* A request that is answered asks for nothing more.
LEMMA AnswerKeeps ==
    ASSUME ShellInvariant, NEW c \in Callers, Answer(c),
           UNCHANGED <<sessionVars, transactions, delivered, lineage>>,
           binding' \in Logins \cup {None}
    PROVE  ShellInvariant'
  BY QuietMove DEF Answer

\* Another step of a request is a request that agrees with it in all else.
LEMMA NextStep ==
    /\ \A r \in CallbackRequests, step \in {"consumed", "exchanged", "issued", "ruled"} :
          LET new == [r EXCEPT !.step = step]
          IN  /\ new \in CallbackRequests /\ new \in Requests /\ new.kind = "callback"
              /\ new.step = step /\ new.login = r.login /\ new.handle = r.handle
    /\ \A r \in ViewRequests, step \in {"resolved", "narrowed", "ready", "denied"} :
          LET new == [r EXCEPT !.step = step]
          IN  /\ new \in Requests /\ new.kind = "shell" /\ new.step = step
              /\ new.handle = r.handle /\ new.late = r.late
    /\ \A r \in LogoutRequests, step \in {"resolved", "retired"} :
          LET new == [r EXCEPT !.step = step]
          IN  /\ new \in Requests /\ new.kind = "logout" /\ new.step = step
              /\ new.handle = r.handle
  BY DEF CallbackRequests, ViewRequests, LogoutRequests, Requests

\* A login starts with a transaction of its own.
LEMMA StartLoginKeeps ==
    ASSUME ShellInvariant, NEW l \in Logins, StartLogin(l)
    PROVE  ShellInvariant'
<1>1. UNCHANGED <<sessions, inFlight, delivered, lineage, requests>>
  BY DEF StartLogin, sessionVars
<1>2. /\ transactions' \in [Logins -> {"absent", "open", "consumed"}]
      /\ \A m \in Logins : transactions[m] = "consumed" => transactions'[m] = "consumed"
      /\ binding' \in Logins \cup {None}
  BY DEF StartLogin, ShellInvariant, StoresAgree
<1>3. IInv'
  BY <1>1, NextIInv DEF ShellInvariant, sessionVars
<1>4. StoresAgree'
  BY <1>1, <1>2 DEF ShellInvariant, StoresAgree, LiveCanLogOut, Live, Known, SessionsOf
<1>5. RequestsAreServed'
  <2>1. ASSUME NEW c \in Callers, requests[c] # NoRequest
        PROVE  Served(c, requests[c])'
    <3>1. PICK r : r = requests[c]
      OBVIOUS
    <3>2. r \in Requests /\ Served(c, r) /\ requests'[c] = r
      BY <1>1, <2>1, <3>1 DEF ShellInvariant, RequestsAreServed
    <3>3. r.kind = "callback" => r.login \in Logins
      BY <3>2, RequestKinds DEF CallbackRequests
    <3> QED  BY <1>1, <1>2, <3>2, <3>3 DEF Served, Known, SessionsOf
  <2> QED  BY <1>1, <2>1 DEF ShellInvariant, RequestsAreServed, PastConsume
<1> QED  BY <1>3, <1>4, <1>5 DEF ShellInvariant

\* A callback begins, or moves on without touching transaction or session.
LEMMA CallbackKeeps ==
    ASSUME ShellInvariant, NEW c \in Callers,
           \/ \E l \in Logins : ReceiveCallback(c, l)
           \/ \E current \in BOOLEAN : ExchangeCode(c, current)
           \/ \E m \in Modes : SetMode(c, m)
    PROVE  ShellInvariant'
<1>0. binding \in Logins \cup {None}
  BY DEF ShellInvariant, StoresAgree
<1>1. CASE \E l \in Logins : ReceiveCallback(c, l)
  <2>1. PICK l \in Logins : ReceiveCallback(c, l)
    BY <1>1
  <2> DEFINE r == [kind |-> "callback", step |-> "begun", login |-> l, binding |-> binding,
                   handle |-> None]
  <2>2. r \in Requests /\ r.kind = "callback" /\ r.step = "begun"
    BY <1>0, <2>1 DEF ReceiveCallback, Requests
  <2>3. /\ requests' = [requests EXCEPT ![c] = r]
        /\ UNCHANGED <<sessionVars, transactions, delivered, lineage, binding>>
    BY <2>1 DEF ReceiveCallback, Accept
  <2> HIDE DEF r
  <2> QED  BY <1>0, <2>2, <2>3, QuietMove DEF Served, Past
<1>2. CASE \/ \E current \in BOOLEAN : ExchangeCode(c, current)
           \/ \E m \in Modes : SetMode(c, m)
  <2>1. /\ UNCHANGED <<sessionVars, transactions, delivered, lineage, binding>>
        /\ requests[c] # NoRequest /\ requests[c].kind = "callback"
        /\ \/ Answer(c)
           \/ requests[c].step = "consumed" /\ Goto(c, "exchanged")
           \/ requests[c].step = "issued" /\ Goto(c, "ruled")
    BY <1>2 DEF ExchangeCode, SetMode, At
  <2>2. PICK q : q = requests[c]
    OBVIOUS
  <2>3. q \in CallbackRequests /\ Served(c, q)
    BY <2>1, <2>2, RequestKinds DEF ShellInvariant, RequestsAreServed
  <2>4. \A step \in {"exchanged", "ruled"} :
           /\ [q EXCEPT !.step = step] \in Requests /\ [q EXCEPT !.step = step].kind = "callback"
           /\ [q EXCEPT !.step = step].step = step /\ [q EXCEPT !.step = step].login = q.login
           /\ [q EXCEPT !.step = step].handle = q.handle
    BY <2>3, NextStep DEF CallbackRequests
  <2>5. q.step # "begun" => PastConsume(c, q.login)
    BY <2>1, <2>2 DEF PastConsume
  <2>6. \A d \in Callers, l \in Logins : PastConsume(d, l) /\ PastConsume(c, l) => d = c
    BY DEF ShellInvariant, RequestsAreServed
  <2>7. CASE Answer(c)
    BY <1>0, <2>1, <2>7, AnswerKeeps
  <2>8. CASE q.step = "consumed" /\ Goto(c, "exchanged")
    <3> DEFINE r == [q EXCEPT !.step = "exchanged"]
    <3>1. requests' = [requests EXCEPT ![c] = r]
      BY <2>2, <2>8 DEF Goto
    <3>2. r \in Requests /\ r.kind = "callback" /\ r.step = "exchanged" /\ r.login = q.login
      BY <2>4
    <3> HIDE DEF r
    <3>3. Served(c, r)
      BY <2>1, <2>2, <2>3, <2>8, <3>2 DEF Served
    <3>4. \A d \in Callers, l \in Logins : d # c /\ PastConsume(d, l) => ~ Past(r, l)
      BY <2>5, <2>6, <2>8, <3>2 DEF Past
    <3> QED  BY <1>0, <2>1, <3>1, <3>2, <3>3, <3>4, QuietMove
  <2>9. CASE q.step = "issued" /\ Goto(c, "ruled")
    <3> DEFINE r == [q EXCEPT !.step = "ruled"]
    <3>1. requests' = [requests EXCEPT ![c] = r]
      BY <2>2, <2>9 DEF Goto
    <3>2. r \in Requests /\ r.kind = "callback" /\ r.step = "ruled" /\ r.login = q.login
          /\ r.handle = q.handle
      BY <2>4
    <3> HIDE DEF r
    <3>3. Served(c, r)
      BY <2>1, <2>2, <2>3, <2>9, <3>2 DEF Served
    <3>4. \A d \in Callers, l \in Logins : d # c /\ PastConsume(d, l) => ~ Past(r, l)
      BY <2>5, <2>6, <2>9, <3>2 DEF Past
    <3> QED  BY <1>0, <2>1, <3>1, <3>2, <3>3, <3>4, QuietMove
  <2> QED  BY <2>1, <2>2, <2>7, <2>8, <2>9
<1> QED  BY <1>1, <1>2

\* Of the callbacks of a login the first takes the transaction, while the login has no session.
LEMMA ConsumeKeeps ==
    ASSUME ShellInvariant, NEW c \in Callers, NEW current \in BOOLEAN,
           ConsumeTransaction(c, current)
    PROVE  ShellInvariant'
<1>1. /\ UNCHANGED <<sessions, inFlight, binding, lineage, delivered>>
      /\ requests[c] # NoRequest /\ requests[c].kind = "callback" /\ requests[c].step = "begun"
  BY DEF ConsumeTransaction, At, sessionVars
<1>2. PICK q : q = requests[c]
  OBVIOUS
<1>3. q \in CallbackRequests /\ Served(c, q) /\ q.step = "begun"
  BY <1>1, <1>2, RequestKinds DEF ShellInvariant, RequestsAreServed
<1>4. q.login \in Logins
  BY <1>3 DEF CallbackRequests
<1>5. CASE transactions[q.login] # "open"
  <2>1. Answer(c) /\ UNCHANGED transactions
    BY <1>2, <1>5 DEF ConsumeTransaction
  <2> QED  BY <1>1, <2>1, AnswerKeeps DEF sessionVars, ShellInvariant, StoresAgree
<1>6. CASE transactions[q.login] = "open"
  <2>1. /\ transactions' = [transactions EXCEPT ![q.login] = "consumed"]
        /\ Answer(c) \/ Goto(c, "consumed")
    BY <1>2, <1>6 DEF ConsumeTransaction, PopTransaction
  <2>2. /\ transactions' \in [Logins -> {"absent", "open", "consumed"}]
        /\ \A l \in Logins : transactions[l] = "consumed" => transactions'[l] = "consumed"
        /\ transactions'[q.login] = "consumed"
    BY <1>4, <2>1 DEF ShellInvariant, StoresAgree
  <2>3. StoresAgree'
    BY <1>1, <2>2 DEF ShellInvariant, StoresAgree, LiveCanLogOut, Live, Known, SessionsOf
  <2>4. SessionsOf(q.login) = {}
    BY <1>4, <1>6 DEF ShellInvariant, StoresAgree
  <2>5. \A d \in Callers : ~ PastConsume(d, q.login)
    BY <1>6 DEF PastConsume, ShellInvariant, RequestsAreServed, Served
  <2>6. ASSUME NEW d \in Callers, d # c, requests[d] # NoRequest, requests[d].kind = "callback",
               requests[d].step \in {"consumed", "exchanged"}
        PROVE  SessionsOf(requests[d].login)' = {}
    <3>1. PICK e : e = requests[d]
      OBVIOUS
    <3>2. SessionsOf(e.login) = {} /\ requests'[d] = e
      BY <2>1, <2>6, <3>1 DEF ShellInvariant, RequestsAreServed, Served, Answer, Goto
    <3> QED  BY <1>1, <3>2 DEF SessionsOf
  <2>7. [SessionNext]_sessionVars
    BY <1>1 DEF sessionVars
  <2>8. CASE Answer(c)
    BY <1>1, <2>2, <2>3, <2>6, <2>7, <2>8, MoveKeeps DEF Answer
  <2>9. CASE Goto(c, "consumed")
    <3> DEFINE r == [q EXCEPT !.step = "consumed"]
    <3>1. requests' = [requests EXCEPT ![c] = r]
      BY <1>2, <2>9 DEF Goto
    <3>2. r \in Requests /\ r.kind = "callback" /\ r.step = "consumed" /\ r.login = q.login
      BY <1>3, NextStep DEF CallbackRequests
    <3> HIDE DEF r
    <3>3. Served(c, r)'
      BY <1>1, <2>2, <2>4, <3>2 DEF Served, SessionsOf
    <3>4. \A d \in Callers, l \in Logins : d # c /\ PastConsume(d, l) => ~ Past(r, l)
      BY <2>5, <3>2 DEF Past
    <3> QED  BY <1>1, <2>2, <2>3, <2>6, <2>7, <3>1, <3>2, <3>3, <3>4, MoveKeeps
  <2> QED  BY <2>1, <2>8, <2>9
<1> QED  BY <1>5, <1>6

\* The session that is issued is its login's first.
LEMMA IssueForLoginKeeps ==
    ASSUME ShellInvariant, NEW c \in Callers, NEW h \in Handles, NEW p \in Principals,
           IssueForLogin(c, h, p), [SessionNext]_sessionVars
    PROVE  ShellInvariant'
<1>1. /\ UNCHANGED <<inFlight, transactions, binding, lineage, delivered>>
      /\ requests[c] # NoRequest /\ requests[c].kind = "callback" /\ requests[c].step = "exchanged"
  BY DEF IssueForLogin, At
<1>2. PICK q : q = requests[c]
  OBVIOUS
<1>3. q \in CallbackRequests /\ Served(c, q) /\ q.step = "exchanged" /\ q.kind = "callback"
  BY <1>1, <1>2, RequestKinds DEF ShellInvariant, RequestsAreServed
<1>4. q.login \in Logins /\ SessionsOf(q.login) = {} /\ transactions[q.login] = "consumed"
  BY <1>3 DEF CallbackRequests, Served
<1>5. IssueSession(h, p, q.login)
  BY <1>1, <1>2, <1>4 DEF IssueForLogin, IssueSession
<1>6. /\ sessions[h] = None /\ sessions'[h] = NewSession(p, q.login) /\ sessions'[h] # None
      /\ sessions'[h].login = q.login
      /\ \A k \in Handles : k # h => sessions'[k] = sessions[k]
  <2>1. NewSession(p, q.login) # None /\ NewSession(p, q.login).login = q.login
    BY <1>4, NewSessionShape
  <2>2. /\ sessions[h] = None /\ sessions'[h] = NewSession(p, q.login)
        /\ \A k \in Handles : k # h => sessions'[k] = sessions[k]
    BY <1>4, <1>5, IssueEffect DEF ShellInvariant
  <2> QED  BY <2>1, <2>2
<1>7. \A l \in Logins : l # q.login /\ SessionsOf(l) = {} => SessionsOf(l)' = {}
  BY <1>6 DEF SessionsOf
<1>8. \A k \in delivered : k \in Handles /\ sessions[k] # None /\ k # h
  BY <1>6 DEF ShellInvariant, StoresAgree, Known
<1>9. StoresAgree'
  BY <1>1, <1>4, <1>6, <1>7, <1>8
     DEF ShellInvariant, StoresAgree, LiveCanLogOut, Live, Known
<1> DEFINE r == [q EXCEPT !.step = "issued", !.handle = h]
<1>10. requests' = [requests EXCEPT ![c] = r]
  BY <1>2 DEF IssueForLogin
<1>11. r \in Requests /\ r.kind = "callback" /\ r.step = "issued" /\ r.handle = h
       /\ r.login = q.login
  BY <1>3 DEF CallbackRequests, Requests
<1> HIDE DEF r
<1>12. Served(c, r)'
  BY <1>1, <1>4, <1>6, <1>11 DEF Served, Known
<1>13. \A d \in Callers, l \in Logins : PastConsume(d, l) /\ PastConsume(c, l) => d = c
  BY DEF ShellInvariant, RequestsAreServed
<1>14. \A d \in Callers, l \in Logins : d # c /\ PastConsume(d, l) => l # q.login
  BY <1>1, <1>2, <1>13 DEF PastConsume
<1>15. ASSUME NEW d \in Callers, d # c, requests[d] # NoRequest, requests[d].kind = "callback",
              requests[d].step \in {"consumed", "exchanged"}
       PROVE  SessionsOf(requests[d].login)' = {}
  <2>1. PICK e : e = requests[d]
    OBVIOUS
  <2>2. e \in Requests /\ Served(d, e) /\ requests'[d] = e
    BY <1>10, <1>15, <2>1 DEF ShellInvariant, RequestsAreServed
  <2>3. e.login \in Logins /\ SessionsOf(e.login) = {}
    BY <1>15, <2>1, <2>2, RequestKinds DEF CallbackRequests, Served
  <2>4. e.login # q.login
    BY <1>14, <1>15, <2>1, <2>3 DEF PastConsume
  <2> QED  BY <1>7, <2>2, <2>3, <2>4
<1>16. \A d \in Callers, l \in Logins : d # c /\ PastConsume(d, l) => ~ Past(r, l)
  BY <1>11, <1>14 DEF Past
<1> QED  BY <1>1, <1>9, <1>10, <1>11, <1>12, <1>15, <1>16, MoveKeeps

\* The session of a login that is ruled goes to the browser, with its lineage.
LEMMA BindLineageKeeps ==
    ASSUME ShellInvariant, NEW c \in Callers, BindLineage(c)
    PROVE  ShellInvariant'
<1>1. /\ UNCHANGED <<sessions, inFlight, transactions>> /\ binding' = None
      /\ requests[c] # NoRequest /\ requests[c].kind = "callback" /\ requests[c].step = "ruled"
      /\ lineage' = lineage \cup {requests[c].handle}
      /\ delivered' = delivered \cup {requests[c].handle}
      /\ requests' = [requests EXCEPT ![c] = NoRequest]
  BY DEF BindLineage, At, sessionVars, Answer
<1>2. Known(requests[c].handle)
  BY <1>1 DEF ShellInvariant, RequestsAreServed, Served
<1>3. StoresAgree'
  BY <1>1, <1>2 DEF ShellInvariant, StoresAgree, LiveCanLogOut, Live, Known, SessionsOf
<1>4. ASSUME NEW d \in Callers, d # c, requests[d] # NoRequest, requests[d].kind = "callback",
             requests[d].step \in {"consumed", "exchanged"}
      PROVE  SessionsOf(requests[d].login)' = {}
  <2>1. PICK e : e = requests[d]
    OBVIOUS
  <2>2. SessionsOf(e.login) = {} /\ requests'[d] = e
    BY <1>1, <1>4, <2>1 DEF ShellInvariant, RequestsAreServed, Served
  <2> QED  BY <1>1, <2>2 DEF SessionsOf
<1> QED  BY <1>1, <1>3, <1>4, MoveKeeps DEF sessionVars

-----------------------------------------------------------------------------
\* A view that begins late is about a session that was retired, which is never resolved.
LEMMA ViewKeeps ==
    ASSUME ShellInvariant, NEW c \in Callers,
           \/ \E h \in Handles : ReceiveShell(c, h)
           \/ \E current \in BOOLEAN : ResolveForShell(c, current)
           \/ NarrowAdmission(c) \/ FinalAdmission(c) \/ Explain(c) \/ RespondShell(c)
    PROVE  ShellInvariant'
<1>1. /\ UNCHANGED <<sessionVars, transactions, delivered, lineage, binding>>
      /\ binding \in Logins \cup {None}
  BY DEF ReceiveShell, ResolveForShell, NarrowAdmission, FinalAdmission, Explain, RespondShell,
         ShellInvariant, StoresAgree
<1>2. ASSUME NEW r \in Requests, r.kind \in {"shell", "refusal"}, Served(c, r),
             requests' = [requests EXCEPT ![c] = r]
      PROVE  ShellInvariant'
  BY <1>1, <1>2, QuietMove DEF Past
<1>3. CASE \E h \in Handles : ReceiveShell(c, h)
  <2>1. PICK h \in Handles : ReceiveShell(c, h)
    BY <1>3
  <2> DEFINE r == [kind |-> "shell", step |-> "begun", handle |-> h, late |-> ~ Live(h)]
  <2>2. r \in Requests /\ r.kind = "shell" /\ r.step = "begun" /\ r.handle = h
        /\ (r.late => ~ Live(h))
    BY DEF Requests, Live
  <2>3. requests' = [requests EXCEPT ![c] = r] /\ Known(h)
    BY <2>1 DEF ReceiveShell, Accept, ShellInvariant, StoresAgree
  <2> HIDE DEF r
  <2>4. Served(c, r)
    BY <2>2, <2>3 DEF Served, Live, Known
  <2> QED  BY <1>2, <2>2, <2>3, <2>4
<1>4. CASE RespondShell(c)
  BY <1>1, <1>4, AnswerKeeps DEF RespondShell
<1>5. CASE \/ \E current \in BOOLEAN : ResolveForShell(c, current)
           \/ NarrowAdmission(c) \/ FinalAdmission(c) \/ Explain(c)
  <2>1. PICK q : q = requests[c]
    OBVIOUS
  <2>2. q \in ViewRequests /\ Served(c, q) /\ q.kind = "shell" /\ Known(q.handle)
    BY <1>5, <2>1, RequestKinds
       DEF ResolveForShell, NarrowAdmission, FinalAdmission, Explain, At, ShellInvariant,
           RequestsAreServed, Served
  <2>3. CASE Explain(c)
    <3>1. PICK step \in {"revoked", "forbidden"} :
             requests' = [requests EXCEPT ![c] = [q EXCEPT !.kind = "refusal", !.step = step]]
      BY <2>1, <2>3 DEF Explain
    <3> DEFINE r == [q EXCEPT !.kind = "refusal", !.step = step]
    <3>2. r \in Requests /\ r.kind = "refusal" /\ r.handle = q.handle
      BY <2>2 DEF ViewRequests, Requests
    <3>3. requests' = [requests EXCEPT ![c] = r]
      BY <3>1
    <3> HIDE DEF r
    <3> QED  BY <1>2, <2>2, <3>2, <3>3 DEF Served
  <2>4. CASE ~ Explain(c)
    <3>1. PICK step \in {"resolved", "narrowed", "ready", "denied"} :
             /\ Goto(c, step)
             /\ step # "denied" => q.step \notin {"begun", "denied"} \/ Resolves(q.handle)
      BY <1>5, <2>1, <2>4 DEF ResolveForShell, NarrowAdmission, FinalAdmission, At
    <3> DEFINE r == [q EXCEPT !.step = step]
    <3>2. /\ r \in Requests /\ r.kind = "shell" /\ r.step = step
          /\ r.handle = q.handle /\ r.late = q.late
      BY <2>2, NextStep DEF ViewRequests
    <3>3. requests' = [requests EXCEPT ![c] = r]
      BY <2>1, <3>1 DEF Goto
    <3> HIDE DEF r
    <3>4. Served(c, r)
      BY <2>2, <3>1, <3>2 DEF Served, Resolves, Live
    <3> QED  BY <1>2, <3>2, <3>3, <3>4
  <2> QED  BY <2>3, <2>4
<1> QED  BY <1>3, <1>4, <1>5

-----------------------------------------------------------------------------
\* Thread c calls the session authority, and moves its logout on.
LEMMA LogoutMoves ==
    ASSUME ShellInvariant, NEW c \in Callers, NEW r \in Requests \cup {NoRequest},
           requests' = [requests EXCEPT ![c] = r],
           r # NoRequest => r.kind = "logout" /\ Served(c, r)',
           BeginSome \/ RotateSome \/ RetireSome \/ UNCHANGED sessionVars,
           \A d \in Callers : d # c => inFlight'[d] = inFlight[d],
           UNCHANGED <<transactions, delivered, lineage, binding>>
    PROVE  ShellInvariant'
<1>1. [SessionNext]_sessionVars
  BY DEF SessionNext
<1>2. StoresAgree'
  BY StoresKeep DEF ShellInvariant, StoresAgree
<1>3. ASSUME NEW d \in Callers, d # c, requests[d] # NoRequest, requests[d].kind = "callback",
             requests[d].step \in {"consumed", "exchanged"}
      PROVE  SessionsOf(requests[d].login)' = {}
  <2>1. PICK e : e = requests[d]
    OBVIOUS
  <2>2. e \in Requests /\ Served(d, e) /\ requests'[d] = e
    BY <1>3, <2>1 DEF ShellInvariant, RequestsAreServed
  <2>3. e.login \in Logins /\ SessionsOf(e.login) = {}
    BY <1>3, <2>1, <2>2, RequestKinds DEF CallbackRequests, Served
  <2>4. SessionsOf(e.login)' = {}
    BY <2>3, NoFirstSession DEF ShellInvariant
  <2> QED  BY <2>2, <2>4
<1>4. r # NoRequest => Served(c, r)' /\ \A l \in Logins : ~ Past(r, l)
  BY DEF Past
<1> QED  BY <1>1, <1>2, <1>3, <1>4, MoveKeeps

\* The logout is about the session it resolved, until the store has retired it.
LEMMA LogoutKeeps ==
    ASSUME ShellInvariant, NEW c \in Callers,
           \/ \E h \in Handles : ReceiveLogout(c, h)
           \/ \E current \in BOOLEAN : ResolveForLogout(c, current)
           \/ \E won \in BOOLEAN : RetireForLogout(c, won)
    PROVE  ShellInvariant'
<1>1. CASE \E h \in Handles : ReceiveLogout(c, h)
  <2>1. PICK h \in Handles : ReceiveLogout(c, h)
    BY <1>1
  <2> DEFINE r == [kind |-> "logout", step |-> "bound", handle |-> h]
  <2>2. r \in Requests /\ r.kind = "logout" /\ r.step = "bound" /\ r.handle = h
    BY DEF Requests
  <2>3. /\ requests' = [requests EXCEPT ![c] = r] /\ Known(h)
        /\ UNCHANGED <<sessionVars, transactions, delivered, lineage, binding>>
    BY <2>1 DEF ReceiveLogout, ReadLineage, Accept, ShellInvariant, StoresAgree
  <2> HIDE DEF r
  <2>4. Served(c, r)
    BY <2>2, <2>3 DEF Served
  <2> QED  BY <2>2, <2>3, <2>4, QuietMove DEF Past, ShellInvariant, StoresAgree
<1>2. CASE \E current \in BOOLEAN : ResolveForLogout(c, current)
  <2>1. PICK current \in BOOLEAN : ResolveForLogout(c, current)
    BY <1>2
  <2>2. PICK q : q = requests[c]
    OBVIOUS
  <2>3. q \in LogoutRequests /\ q.kind = "logout" /\ Known(q.handle)
    BY <2>1, <2>2, RequestKinds DEF ResolveForLogout, At, ShellInvariant, RequestsAreServed, Served
  <2>4. UNCHANGED <<transactions, delivered, lineage, binding>>
    BY <2>1 DEF ResolveForLogout
  <2>5. CASE Answer(c) /\ UNCHANGED sessionVars
    BY <2>4, <2>5, AnswerKeeps DEF ShellInvariant, StoresAgree
  <2>6. CASE BeginRetire(c, q.handle) /\ Goto(c, "resolved")
    <3> DEFINE r == [q EXCEPT !.step = "resolved"]
    <3>1. r \in Requests /\ r.kind = "logout" /\ r.step = "resolved" /\ r.handle = q.handle
      BY <2>3, NextStep DEF LogoutRequests
    <3>2. requests' = [requests EXCEPT ![c] = r]
      BY <2>2, <2>6 DEF Goto
    <3> HIDE DEF r
    <3> DEFINE change == [handle |-> q.handle, op |-> "retire",
                          principal |-> sessions[q.handle].principal]
    <3>3. inFlight' = [inFlight EXCEPT ![c] = change] /\ UNCHANGED sessions
          /\ sessions[q.handle] # None /\ sessions[q.handle] \in SessionRecords
      BY <2>3, <2>6 DEF BeginRetire, Resolves, Live, Known, ShellInvariant, IInv, SessionTypeOK
    <3>4. change \in Changes /\ change.op = "retire" /\ change.handle = q.handle
      BY <2>3, <3>3 DEF Changes, SessionRecords, Known
    <3> HIDE DEF change
    <3>5. /\ inFlight'[c] = change /\ change # None
          /\ \A d \in Callers : d # c => inFlight'[d] = inFlight[d]
      BY <3>3, <3>4, SessionConstants DEF ShellInvariant, IInv, SessionTypeOK
    <3>6. Served(c, r)'
      BY <2>3, <3>1, <3>3, <3>4, <3>5 DEF Served, Known
    <3>7. BeginSome
      BY <2>3, <2>6 DEF BeginSome, Known
    <3> QED  BY <2>4, <3>1, <3>2, <3>5, <3>6, <3>7, LogoutMoves
  <2> QED  BY <2>1, <2>2, <2>5, <2>6 DEF ResolveForLogout
<1>3. CASE \E won \in BOOLEAN : RetireForLogout(c, won)
  <2>1. PICK won \in BOOLEAN : RetireForLogout(c, won)
    BY <1>3
  <2>2. PICK q : q = requests[c]
    OBVIOUS
  <2>3. /\ q \in LogoutRequests /\ q.kind = "logout" /\ Known(q.handle)
        /\ inFlight[c].handle = q.handle
    BY <2>1, <2>2, RequestKinds DEF RetireForLogout, At, ShellInvariant, RequestsAreServed, Served
  <2>4. UNCHANGED <<transactions, delivered, lineage, binding>> /\ FinishRetire(c, won)
    BY <2>1 DEF RetireForLogout
  <2>5. RetireSome /\ \A d \in Callers : d # c => inFlight'[d] = inFlight[d]
    BY <2>4 DEF RetireSome, FinishRetire, ShellInvariant, IInv, SessionTypeOK
  <2>6. CASE ~ won
    BY <2>1, <2>4, <2>5, <2>6, LogoutMoves DEF RetireForLogout, Answer
  <2>7. CASE won
    <3> DEFINE r == [q EXCEPT !.step = "retired"]
    <3>1. r \in Requests /\ r.kind = "logout" /\ r.step = "retired" /\ r.handle = q.handle
      BY <2>3, NextStep DEF LogoutRequests
    <3>2. requests' = [requests EXCEPT ![c] = r]
      BY <2>1, <2>2, <2>7 DEF RetireForLogout, Goto
    <3> HIDE DEF r
    <3>3. FinishRetire(c, TRUE)
      BY <2>4, <2>7
    <3>4. /\ sessions[q.handle] \in SessionRecords
          /\ sessions'[q.handle] = [sessions[q.handle] EXCEPT !.retired = TRUE]
      BY <2>3, <3>3, RetireEffect DEF ShellInvariant
    <3>5. sessions'[q.handle] # None /\ sessions'[q.handle].retired
      BY <3>4, RetiredShape
    <3>6. Served(c, r)'
      BY <2>3, <3>1, <3>5 DEF Served, Known
    <3> QED  BY <2>4, <2>5, <3>1, <3>2, <3>6, LogoutMoves
  <2> QED  BY <2>6, <2>7
<1> QED  BY <1>1, <1>2, <1>3

\* The lineage goes when the session is retired for good.
LEMMA AcknowledgeKeeps ==
    ASSUME ShellInvariant, NEW c \in Callers, AcknowledgeLogout(c)
    PROVE  ShellInvariant'
<1>1. /\ UNCHANGED <<sessions, inFlight, transactions, binding, delivered>>
      /\ requests[c] # NoRequest /\ requests[c].kind = "logout" /\ requests[c].step = "retired"
      /\ lineage' = lineage \ {requests[c].handle}
      /\ requests' = [requests EXCEPT ![c] = NoRequest]
  BY DEF AcknowledgeLogout, At, sessionVars, Answer
<1>2. sessions[requests[c].handle].retired
  BY <1>1 DEF ShellInvariant, RequestsAreServed, Served
<1>3. StoresAgree'
  BY <1>1, <1>2 DEF ShellInvariant, StoresAgree, LiveCanLogOut, Live, Known, SessionsOf
<1>4. ASSUME NEW d \in Callers, d # c, requests[d] # NoRequest, requests[d].kind = "callback",
             requests[d].step \in {"consumed", "exchanged"}
      PROVE  SessionsOf(requests[d].login)' = {}
  <2>1. PICK e : e = requests[d]
    OBVIOUS
  <2>2. SessionsOf(e.login) = {} /\ requests'[d] = e
    BY <1>1, <1>4, <2>1 DEF ShellInvariant, RequestsAreServed, Served
  <2> QED  BY <1>1, <2>2 DEF SessionsOf
<1> QED  BY <1>1, <1>3, <1>4, MoveKeeps DEF sessionVars

\* Sessions rotate behind the shell's back.
LEMMA StepUpKeeps ==
    ASSUME ShellInvariant, StepUpSome
    PROVE  ShellInvariant'
<1>1. PICK c \in Callers, h \in Handles :
         requests[c] = NoRequest /\ (FinishRotate(c, h) \/ \E p \in Principals : BeginRotate(c, h, p))
  BY DEF StepUpSome
<1>2. /\ UNCHANGED <<transactions, delivered, lineage, binding>>
      /\ requests' = [requests EXCEPT ![c] = NoRequest]
  BY <1>1 DEF StepUpSome, ShellInvariant, RequestsAreServed
<1>3. RotateSome \/ BeginSome
  BY <1>1 DEF RotateSome, BeginSome
<1>4. \A d \in Callers : d # c => inFlight'[d] = inFlight[d]
  BY <1>1 DEF FinishRotate, BeginRotate, ShellInvariant, IInv, SessionTypeOK
<1> QED  BY <1>2, <1>3, <1>4, LogoutMoves

-----------------------------------------------------------------------------
\* Nothing is started at first.
LEMMA ShellInitially == ShellInit => ShellInvariant
  BY InitIInv, SessionConstants, ShellConstants
     DEF ShellInit, ShellInvariant, StoresAgree, RequestsAreServed, SessionInit, SessionsOf,
         LiveCanLogOut, PastConsume

\* Every step keeps the invariant of the shell.
LEMMA ShellStepKeeps == ShellInvariant /\ [ShellNext]_shellVars => ShellInvariant'
<1> SUFFICES ASSUME ShellInvariant, [ShellNext]_shellVars PROVE ShellInvariant'
  OBVIOUS
<1>1. CASE LoginSome
  BY <1>1, StartLoginKeeps, CallbackKeeps, ConsumeKeeps, IssueForLoginKeeps, BindLineageKeeps,
     ShellStepIsSessionStep DEF LoginSome
<1>2. CASE ViewSome
  BY <1>2, ViewKeeps DEF ViewSome
<1>3. CASE LogoutSome
  BY <1>3, LogoutKeeps, AcknowledgeKeeps DEF LogoutSome
<1>4. CASE StepUpSome
  BY <1>4, StepUpKeeps
<1>5. CASE UNCHANGED shellVars
  BY <1>5 DEF shellVars, sessionVars, ShellInvariant, StoresAgree, RequestsAreServed, IInv,
              SessionTypeOK, OneLiveSessionPerLogin, OnePrincipalPerLogin, Live, LiveCanLogOut,
              Known, Served, SessionsOf, PastConsume
<1> QED  BY <1>1, <1>2, <1>3, <1>4, <1>5 DEF ShellNext

\* It holds throughout.
LEMMA ShellInvariantHolds == ShellSpec => []ShellInvariant
  BY ShellInitially, ShellStepKeeps, PTL DEF ShellSpec

\* The properties are parts of it, or follow from what each request is served by.
LEMMA InvariantImplies ==
    ShellInvariant => OneCallbackPerTransaction /\ NoViewAfterLogout /\ LiveCanLogOut
<1> SUFFICES ASSUME ShellInvariant
             PROVE  OneCallbackPerTransaction /\ NoViewAfterLogout /\ LiveCanLogOut
  OBVIOUS
<1> USE DEF ShellInvariant, RequestsAreServed
<1>1. OneCallbackPerTransaction
  BY DEF OneCallbackPerTransaction, PastConsume, Served
<1>2. NoViewAfterLogout
  BY DEF NoViewAfterLogout, At, Served
<1> QED  BY <1>1, <1>2 DEF StoresAgree

\* However often callbacks are repeated and interleaved, one gets past a transaction.
THEOREM ShellOneCallback == ShellSpec => []OneCallbackPerTransaction
  BY ShellInvariantHolds, InvariantImplies, PTL

\* No view that began after its session was retired gets as far as being ready.
THEOREM ShellNoViewAfterLogout == ShellSpec => []NoViewAfterLogout
  BY ShellInvariantHolds, InvariantImplies, PTL

\* What a logout is checked against is there as long as the session is live.
THEOREM ShellLiveCanLogOut == ShellSpec => []LiveCanLogOut
  BY ShellInvariantHolds, InvariantImplies, PTL

\* The shell issues, rotates and retires as the session authority allows, with one session for a
\* login at its issue: so all that is proved of sessions holds in the shell.
THEOREM ShellRunsSessions == ShellSpec => SessionSpec
<1>1. ShellInit => SessionInit
  BY DEF ShellInit
<1> QED  BY <1>1, ShellInvariantHolds, ShellStepIsSessionStep, PTL DEF ShellSpec, SessionSpec

\* A login of the shell lasts from its one issue to the one logout that wins.
THEOREM ShellKeepsLifecycle == ShellSpec => KeepsLifecycle
  BY ShellRunsSessions, SessionKeepsLifecycle

-----------------------------------------------------------------------------
\* Of the logout callbacks: what an effect frozen for a callback may be.
FrozenFor(c, i) ==
    /\ i \in Intents
    /\ i.kind = "sid" =>
          /\ i.target \in Sessions /\ i.generation = None
          /\ tokens[c].sid = i.target /\ locals[i.target] # None
    /\ i.kind = "principal" =>
          /\ i.target \in PlatformPrincipals /\ i.generation \in Nat
          /\ tokens[c].sid = None /\ generation[i.target] >= i.generation

\* A row is imported and done, or of a token: with the effect it froze, which is in
\* the authority once the row is completed.
RowIsSound(c) ==
    ledger[c] # None =>
        /\ ledger[c].intent # None => tokens[c] # None /\ FrozenFor(c, ledger[c].intent)
        /\ ledger[c].intent = None => tokens[c] # None \/ ledger[c].status = "completed"
        /\ ledger[c].intent # None /\ ledger[c].status = "completed" => Ended(ledger[c].intent)

\* A row that a worker claimed: never an imported one.
Claimed(c) ==
    /\ tokens[c] # None /\ ledger[c] # None
    /\ ledger[c].status = "completed" => ledger[c].intent # None

\* A row that answers for its callback.
Owned(c) ==
    /\ Claimed(c)
    /\ ledger[c].intent = None => tokens[c].sid # None

\* What a worker's step rests on, whoever else claimed the row since.
IsBacked(w) ==
    LET c == work[w].callback
        i == work[w].intent
        at == work[w].step IN
    work[w] # None =>
        /\ Claimed(c)
        /\ at = "claimed" => i = None \/ ledger[c].intent = i
        /\ at = "placed" =>
              i \in Intents /\ i.kind = "principal" /\ i.target \in PlatformPrincipals /\ tokens[c].sid = None
        /\ at = "read" => FrozenFor(c, i)
        /\ at \in {"frozen", "renewed", "half", "applied"} => i \in Intents /\ ledger[c].intent = i
        /\ at = "half" => i.kind = "sid" /\ i.target \in retired
        /\ at = "applied" => Ended(i)
        /\ at \in {"released", "stored"} => Owned(c)

\* Every advance of a generation and every retired session has the effect that named it.
EffectsAreNamed ==
    /\ \A p \in PlatformPrincipals : \A g \in Nat :
          1 <= g /\ g < generation[p] =>
              \E c \in Callbacks : ledger[c] # None /\ ledger[c].intent = PrincipalEffect(p, g)
    /\ \A s \in retired :
          \E c \in Callbacks : ledger[c] # None /\ ledger[c].intent = SidEffect(s)
    /\ \A s \in Sessions :
          locals[s] # None => 1 <= locals[s].generation
                              /\ locals[s].generation <= generation[locals[s].principal]
    /\ \A p \in PlatformPrincipals : generation[p] >= 1

CallbackInvariant ==
    /\ CallbackTypeOK
    /\ \A c \in Callbacks : RowIsSound(c)
    /\ \A w \in Workers : IsBacked(w)
    /\ \A c \in inbox \cup acked : Owned(c)
    /\ EffectsAreNamed

\* What no step takes back.
OnlyGrows ==
    /\ \A c \in Callbacks : tokens[c] # None => tokens'[c] # None /\ tokens'[c].sid = tokens[c].sid
    /\ \A c \in Callbacks :
          ledger[c] # None =>
              /\ ledger'[c] # None
              /\ ledger[c].intent # None => ledger'[c].intent = ledger[c].intent
              /\ ledger'[c].status = "completed" =>
                    ledger[c].status = "completed" \/ ledger'[c].intent # None
    /\ \A s \in Sessions :
          locals[s] # None => /\ locals'[s] # None
                              /\ locals'[s].principal = locals[s].principal
                              /\ locals'[s].generation = locals[s].generation
    /\ \A p \in PlatformPrincipals : generation'[p] >= generation[p]
    /\ retired \subseteq retired'

\* An effect in the authority stays there, and what is frozen stays what it was.
LEMMA EffectKept ==
    ASSUME CallbackTypeOK, CallbackTypeOK', OnlyGrows,
           NEW c \in Callbacks, tokens[c] # None, NEW i, FrozenFor(c, i)
    PROVE  /\ i \in Intents
           /\ i.kind = "sid" => /\ i.target \in Sessions /\ i.generation = None
                                /\ tokens'[c].sid = i.target /\ locals'[i.target] # None
           /\ i.kind = "principal" => /\ i.target \in PlatformPrincipals /\ i.generation \in Nat
                                      /\ tokens'[c].sid = None /\ generation'[i.target] >= i.generation
           /\ Ended(i) => /\ i.kind = "sid" => i.target \in retired'
                          /\ i.kind = "principal" => generation'[i.target] > i.generation
  BY DEF CallbackTypeOK, OnlyGrows, FrozenFor, Ended

\* A row that did not move, or only in its owner, lease and status short of completed, is as sound.
LEMMA RowKept ==
    ASSUME CallbackTypeOK, CallbackTypeOK', OnlyGrows, NEW c \in Callbacks, RowIsSound(c),
           ledger[c] # None, ledger'[c].intent = ledger[c].intent,
           ledger'[c].status = "completed" <=> ledger[c].status = "completed"
    PROVE  RowIsSound(c)'
<1>1. CASE ledger[c].intent # None
  <2>1. tokens[c] # None /\ FrozenFor(c, ledger[c].intent)
    BY <1>1 DEF RowIsSound
  <2>2. ledger[c].status = "completed" => Ended(ledger[c].intent)
    BY <1>1 DEF RowIsSound
  <2> QED  BY <1>1, <2>1, <2>2, EffectKept DEF RowIsSound, FrozenFor, Ended, OnlyGrows
<1>2. CASE ledger[c].intent = None
  BY <1>2 DEF RowIsSound, OnlyGrows, CallbackTypeOK
<1> QED  BY <1>1, <1>2

\* What a row answers for, it goes on answering for.
LEMMA OwnedKept ==
    ASSUME CallbackTypeOK, CallbackTypeOK', OnlyGrows, NEW c \in Callbacks
    PROVE  /\ Claimed(c) => Claimed(c)'
           /\ Owned(c) => Owned(c)'
  BY DEF CallbackTypeOK, OnlyGrows, Owned, Claimed

\* A worker that did not move rests on what it rested on.
LEMMA BackedKept ==
    ASSUME CallbackTypeOK, CallbackTypeOK', OnlyGrows, \A c \in Callbacks : RowIsSound(c),
           NEW w \in Workers, IsBacked(w), work'[w] = work[w]
    PROVE  IsBacked(w)'
<1> SUFFICES ASSUME work[w] # None PROVE IsBacked(w)'
  BY DEF IsBacked
<1> DEFINE c == work[w].callback
           i == work[w].intent
           at == work[w].step
<1>0. c \in Callbacks /\ at \in Steps
  BY DEF CallbackTypeOK, WorkRecords
<1>1. Claimed(c) /\ Claimed(c)' /\ (Owned(c) => Owned(c)')
  BY <1>0, OwnedKept DEF IsBacked
<1>2. at = "claimed" => i = None \/ ledger'[c].intent = i
  BY <1>0, <1>1, CallbackConstants DEF IsBacked, OnlyGrows, Claimed
<1>3. at = "placed" => tokens'[c].sid = None
  BY <1>0, <1>1 DEF IsBacked, OnlyGrows, Claimed
<1>4. at = "read" => FrozenFor(c, i)'
  BY <1>0, <1>1, EffectKept DEF IsBacked, Claimed, FrozenFor
<1>5. at \in {"frozen", "renewed", "half", "applied"} =>
          i \in Intents /\ ledger'[c].intent = i /\ FrozenFor(c, i)
  <2> SUFFICES ASSUME at \in {"frozen", "renewed", "half", "applied"}
               PROVE  i \in Intents /\ ledger'[c].intent = i /\ FrozenFor(c, i)
    OBVIOUS
  <2>1. i \in Intents /\ ledger[c].intent = i
    BY DEF IsBacked
  <2>2. ledger[c].intent # None /\ ledger[c] # None
    BY <2>1, <1>1, CallbackConstants DEF Claimed
  <2>3. FrozenFor(c, i)
    BY <2>1, <2>2, <1>0 DEF RowIsSound
  <2> QED  BY <1>0, <2>1, <2>2, <2>3 DEF OnlyGrows
<1>6. at = "half" => i.kind = "sid" /\ i.target \in retired'
  BY DEF IsBacked, OnlyGrows
<1>7. at = "applied" => Ended(i)'
  <2>1. at = "applied" => Ended(i) /\ FrozenFor(c, i)
    BY <1>5 DEF IsBacked
  <2>2. at = "applied" => (i.kind = "sid" => i.target \in retired')
                          /\ (i.kind = "principal" => generation'[i.target] > i.generation)
    BY <2>1, <1>0, <1>1, EffectKept DEF Claimed
  <2> QED  BY <2>2 DEF Ended
<1> QED  BY <1>0, <1>1, <1>2, <1>3, <1>4, <1>5, <1>6, <1>7 DEF IsBacked

\* The effects that name what ended stay, and a session keeps its generation.
LEMMA NamedKept ==
    ASSUME CallbackTypeOK, CallbackTypeOK', OnlyGrows, EffectsAreNamed,
           generation' = generation, retired' = retired,
           \A s \in Sessions : locals[s] = None /\ locals'[s] # None =>
               locals'[s].generation = generation[locals'[s].principal]
    PROVE  EffectsAreNamed'
<1> USE DEF EffectsAreNamed
<1>0. \A c \in Callbacks, j \in Intents :
          ledger[c] # None /\ ledger[c].intent = j => ledger'[c] # None /\ ledger'[c].intent = j
  BY CallbackConstants DEF OnlyGrows
<1>1. \A p \in PlatformPrincipals : \A g \in Nat : PrincipalEffect(p, g) \in Intents
  BY DEF PrincipalEffect, Intents
<1>2. \A s \in Sessions : SidEffect(s) \in Intents
  BY DEF SidEffect, Intents
<1>3. \A p \in PlatformPrincipals : \A g \in Nat :
          1 <= g /\ g < generation'[p] =>
              \E c \in Callbacks : ledger'[c] # None /\ ledger'[c].intent = PrincipalEffect(p, g)
  BY <1>0, <1>1
<1>4. \A s \in retired' :
          \E c \in Callbacks : ledger'[c] # None /\ ledger'[c].intent = SidEffect(s)
  BY <1>0, <1>2 DEF CallbackTypeOK
<1>5. \A s \in Sessions :
          locals'[s] # None => 1 <= locals'[s].generation
                              /\ locals'[s].generation <= generation'[locals'[s].principal]
  <2> SUFFICES ASSUME NEW s \in Sessions, locals'[s] # None
               PROVE  1 <= locals'[s].generation
                      /\ locals'[s].generation <= generation'[locals'[s].principal]
    OBVIOUS
  <2>1. locals'[s].principal \in PlatformPrincipals /\ locals'[s].generation \in Nat
    BY DEF CallbackTypeOK, LocalSessions
  <2>2. generation[locals'[s].principal] \in Nat
    BY <2>1 DEF CallbackTypeOK
  <2> QED  BY <2>1, <2>2 DEF OnlyGrows
<1> QED  BY <1>3, <1>4, <1>5, SMT DEF PrincipalEffect, SidEffect

\* A step that leaves the rows alone, or moves one as RowKept asks, and moves no worker but one.
LEMMA StepKeeps ==
    ASSUME CallbackInvariant, CallbackTypeOK', OnlyGrows, EffectsAreNamed',
           NEW W \in SUBSET Workers,
           \A c \in Callbacks : ledger[c] # None => RowIsSound(c)',
           \A c \in Callbacks : ledger[c] = None => RowIsSound(c)',
           \A w \in Workers \ W : work'[w] = work[w],
           \A w \in W : IsBacked(w)',
           \A c \in (inbox' \cup acked') \ (inbox \cup acked) : Owned(c)'
    PROVE  CallbackInvariant'
<1>1. \A c \in Callbacks : RowIsSound(c)'
  OBVIOUS
<1>2. \A w \in Workers : IsBacked(w)'
  BY BackedKept DEF CallbackInvariant
<1>3. \A c \in inbox' \cup acked' : Owned(c)'
  BY OwnedKept DEF CallbackInvariant, CallbackTypeOK
<1> QED  BY <1>1, <1>2, <1>3 DEF CallbackInvariant

\* A step that leaves the rows, the generations and the retired sessions alone.
LEMMA QuietStepKeeps ==
    ASSUME CallbackInvariant, CallbackTypeOK', OnlyGrows,
           UNCHANGED <<ledger, generation, retired>>,
           \A s \in Sessions : locals[s] = None /\ locals'[s] # None =>
               locals'[s].generation = generation[locals'[s].principal],
           NEW W \in SUBSET Workers,
           \A w \in Workers \ W : work'[w] = work[w],
           \A w \in W : IsBacked(w)',
           \A c \in (inbox' \cup acked') \ (inbox \cup acked) : Owned(c)'
    PROVE  CallbackInvariant'
<1>1. EffectsAreNamed'
  BY NamedKept DEF CallbackInvariant
<1>2. \A c \in Callbacks : RowIsSound(c)'
  <2> TAKE c \in Callbacks
  <2>1. CASE ledger[c] = None
    BY <2>1 DEF RowIsSound
  <2>2. CASE ledger[c] # None
    BY <2>2, RowKept DEF CallbackInvariant
  <2> QED  BY <2>1, <2>2
<1> QED  BY <1>1, <1>2, StepKeeps

\* The world around keeps the invariant.
LEMMA WorldKeeps ==
    ASSUME CallbackInvariant,
           \/ \E s \in Sessions, u \in Subjects, p \in PlatformPrincipals : Login(s, u, p)
           \/ \E u \in Subjects, p \in PlatformPrincipals \cup {None} : Relink(u, p)
           \/ MappingsChangeCurrentness
           \/ \E c \in Callbacks, sid \in Sessions \cup {None}, sub \in Subjects \cup {None} : Issue(c, sid, sub)
           \/ \E c \in Callbacks : TokenExpires(c)
    PROVE  CallbackInvariant'
<1> USE DEF CallbackInvariant
<1>0. /\ UNCHANGED <<ledger, generation, retired, work, inbox, acked>>
      /\ CallbackTypeOK' /\ OnlyGrows
      /\ \A s \in Sessions : locals[s] = None /\ locals'[s] # None =>
               locals'[s].generation = generation[locals'[s].principal]
  <2>1. CASE \E s \in Sessions, u \in Subjects, p \in PlatformPrincipals : Login(s, u, p)
    <3> PICK s \in Sessions, u \in Subjects, p \in PlatformPrincipals : Login(s, u, p)
      BY <2>1
    <3> DEFINE r == [principal |-> p, sub |-> u, generation |-> generation[p], bound |-> TRUE]
    <3>1. r \in LocalSessions
      BY DEF LocalSessions, CallbackTypeOK
    <3>2. CallbackTypeOK'
      BY <3>1 DEF Login, CallbackTypeOK
    <3>3. OnlyGrows
      BY DEF Login, OnlyGrows, CallbackTypeOK
    <3> QED  BY <3>2, <3>3 DEF Login, CallbackTypeOK
  <2>2. CASE \E u \in Subjects, p \in PlatformPrincipals \cup {None} : Relink(u, p)
    BY <2>2 DEF Relink, CallbackTypeOK, OnlyGrows
  <2>3. CASE MappingsChangeCurrentness
    BY <2>3 DEF MappingsChangeCurrentness, CallbackTypeOK, OnlyGrows
  <2>4. CASE \E c \in Callbacks, sid \in Sessions \cup {None}, sub \in Subjects \cup {None} : Issue(c, sid, sub)
    <3> PICK c \in Callbacks, sid \in Sessions \cup {None}, sub \in Subjects \cup {None} : Issue(c, sid, sub)
      BY <2>4
    <3>1. [sid |-> sid, sub |-> sub, fresh |-> TRUE] \in Tokens
      BY DEF Tokens, Issue
    <3>2. CallbackTypeOK'
      BY <3>1 DEF Issue, CallbackTypeOK
    <3>3. OnlyGrows
      BY DEF Issue, CallbackTypeOK, OnlyGrows
    <3> QED  BY <3>2, <3>3 DEF Issue
  <2>5. CASE \E c \in Callbacks : TokenExpires(c)
    <3> PICK c \in Callbacks : TokenExpires(c)
      BY <2>5
    <3>1. tokens[c] \in Tokens
      BY DEF TokenExpires, CallbackTypeOK
    <3>2. /\ [tokens[c] EXCEPT !.fresh = FALSE] \in Tokens
          /\ [tokens[c] EXCEPT !.fresh = FALSE].sid = tokens[c].sid
          /\ [tokens[c] EXCEPT !.fresh = FALSE] # None
      BY <3>1, CallbackConstants DEF Tokens
    <3>3. tokens' = [tokens EXCEPT ![c] = [tokens[c] EXCEPT !.fresh = FALSE]]
      BY DEF TokenExpires
    <3>4. CallbackTypeOK'
      BY <3>2, <3>3 DEF TokenExpires, CallbackTypeOK
    <3>5. OnlyGrows
      BY <3>2, <3>3 DEF TokenExpires, CallbackTypeOK, OnlyGrows
    <3> QED  BY <3>4, <3>5 DEF TokenExpires
  <2> QED  BY <2>1, <2>2, <2>3, <2>4, <2>5
<1>1. \A w \in Workers : work'[w] = work[w]
  BY <1>0
<1>2. (inbox' \cup acked') \ (inbox \cup acked) = {}
  BY <1>0
<1> HIDE DEF CallbackInvariant
<1>3. {} \in SUBSET Workers /\ Workers \ {} = Workers
  OBVIOUS
<1> QED  BY <1>0, <1>1, <1>2, <1>3, QuietStepKeeps

\* A step that writes one row and keeps its effect, or makes the first claim of it.
LEMMA RowStepGrows ==
    ASSUME CallbackTypeOK, NoEffects, NEW c \in Callbacks, NEW r \in LedgerRows,
           ledger' = [ledger EXCEPT ![c] = r],
           ledger[c] # None => /\ r.intent = ledger[c].intent
                               /\ r.status = "completed" <=> ledger[c].status = "completed"
    PROVE  OnlyGrows
<1>1. r # None
  BY CallbackConstants
<1> QED  BY <1>1 DEF CallbackTypeOK, NoEffects, OnlyGrows

LEMMA RowStepKeeps ==
    ASSUME CallbackInvariant, CallbackTypeOK', NoEffects,
           NEW c \in Callbacks, NEW r \in LedgerRows, ledger' = [ledger EXCEPT ![c] = r],
           ledger[c] # None => /\ r.intent = ledger[c].intent
                               /\ r.status = "completed" <=> ledger[c].status = "completed",
           ledger[c] = None => r.intent = None /\ tokens[c] # None,
           NEW W \in SUBSET Workers,
           \A w \in Workers \ W : work'[w] = work[w],
           \A w \in W : IsBacked(w)',
           inbox' = inbox /\ acked' = acked
    PROVE  CallbackInvariant'
<1>1. OnlyGrows
  BY RowStepGrows DEF CallbackInvariant
<1>2. EffectsAreNamed'
  BY <1>1, NamedKept DEF CallbackInvariant, NoEffects
<1>3. \A d \in Callbacks : RowIsSound(d)'
  <2> TAKE d \in Callbacks
  <2>1. CASE d # c /\ ledger[d] = None
    BY <2>1 DEF RowIsSound, CallbackInvariant, CallbackTypeOK
  <2>2. CASE d # c /\ ledger[d] # None
    BY <2>2, <1>1, RowKept DEF CallbackInvariant, CallbackTypeOK
  <2>3. CASE d = c /\ ledger[c] # None
    <3>1. ledger'[c].intent = ledger[c].intent
          /\ (ledger'[c].status = "completed" <=> ledger[c].status = "completed")
      BY <2>3 DEF CallbackInvariant, CallbackTypeOK
    <3> QED  BY <2>3, <3>1, <1>1, RowKept DEF CallbackInvariant
  <2>4. CASE d = c /\ ledger[c] = None
    BY <2>4, CallbackConstants DEF RowIsSound, CallbackInvariant, CallbackTypeOK, NoEffects
  <2> QED  BY <2>1, <2>2, <2>3, <2>4
<1> QED  BY <1>1, <1>2, <1>3, StepKeeps

\* A lease that runs out.
LEMMA LapseKeeps == ASSUME CallbackInvariant, NEW c \in Callbacks, Lapse(c) PROVE CallbackInvariant'
<1> DEFINE r == [ledger[c] EXCEPT !.live = FALSE]
<1>1. ledger[c] \in LedgerRows
  BY DEF Lapse, CallbackInvariant, CallbackTypeOK
<1>2. r \in LedgerRows /\ r.intent = ledger[c].intent /\ r.status = ledger[c].status
  BY <1>1 DEF LedgerRows
<1>3. ledger' = [ledger EXCEPT ![c] = r]
  BY DEF Lapse
<1>4. CallbackTypeOK'
  BY <1>2, <1>3 DEF Lapse, CallbackInvariant, CallbackTypeOK
<1>5. NoEffects
  BY DEF Lapse, NoEffects
<1>6. {} \in SUBSET Workers /\ \A w \in Workers \ {} : work'[w] = work[w]
  BY DEF Lapse
<1>7. ledger[c] # None /\ inbox' = inbox /\ acked' = acked
  BY DEF Lapse
<1> HIDE DEF r
<1> QED  BY <1>2, <1>3, <1>4, <1>5, <1>6, <1>7, RowStepKeeps

\* A worker that takes a row which is nobody's, or whose lease lapsed.
LEMMA TakeKeeps ==
    ASSUME CallbackInvariant, NEW w \in Workers, NEW c \in Callbacks,
           NEW kind \in {"deliver", "execute"}, NEW step \in {"claimed", "frozen"},
           TakeRow(w, c, kind, step), tokens[c] # None,
           ledger[c] = None \/ Takeable(c),
           step = "frozen" => ledger[c] # None /\ ledger[c].intent # None
    PROVE  CallbackInvariant'
<1> DEFINE i == IF ledger[c] = None THEN None ELSE ledger[c].intent
           r == [status |-> "pending", owner |-> w, live |-> TRUE, intent |-> i]
           k == [kind |-> kind, callback |-> c, step |-> step, intent |-> i]
<1>1. i \in Intents \cup {None}
  BY DEF CallbackInvariant, CallbackTypeOK, LedgerRows
<1>2. r \in LedgerRows /\ k \in WorkRecords
  BY <1>1 DEF LedgerRows, WorkRecords, Steps
<1>3. /\ ledger' = [ledger EXCEPT ![c] = r] /\ work' = [work EXCEPT ![w] = k]
      /\ NoEffects /\ inbox' = inbox /\ acked' = acked
  BY DEF TakeRow
<1>4. CallbackTypeOK'
  BY <1>2, <1>3 DEF CallbackInvariant, CallbackTypeOK, NoEffects
<1>5. IsBacked(w)'
  <2>1. work'[w] = k /\ ledger'[c] = r /\ tokens'[c] = tokens[c]
    BY <1>3 DEF CallbackInvariant, CallbackTypeOK, NoEffects
  <2>2. step = "frozen" => i \in Intents
    BY <1>1
  <2> QED  BY <2>1, <2>2, <1>2, CallbackConstants DEF IsBacked, Claimed
<1>6. ledger[c] # None => r.intent = ledger[c].intent
                          /\ (r.status = "completed" <=> ledger[c].status = "completed")
  BY DEF Takeable
<1>7. ledger[c] = None => r.intent = None
  OBVIOUS
<1>8. \A v \in Workers \ {w} : work'[v] = work[v]
  BY <1>3 DEF CallbackInvariant, CallbackTypeOK
<1>9. {w} \in SUBSET Workers /\ \A v \in {w} : IsBacked(v)'
  BY <1>5
<1> HIDE DEF r
<1> QED  BY <1>2, <1>3, <1>4, <1>6, <1>7, <1>8, <1>9, RowStepKeeps

\* Every way a worker comes to a claim.
LEMMA ClaimKeeps ==
    ASSUME CallbackInvariant, NEW w \in Workers, NEW c \in Callbacks,
           DeliverToken(w, c) \/ Handle(w, c) \/ ReconcileFrozen(w, c) \/ ResolveUnprepared(w, c)
    PROVE  CallbackInvariant'
<1>1. CASE DeliverToken(w, c)
  BY <1>1, TakeKeeps DEF DeliverToken, ClaimAuthenticated
<1>2. CASE Handle(w, c)
  BY <1>2, TakeKeeps DEF Handle, ClaimAuthenticated
<1>3. CASE ReconcileFrozen(w, c)
  <2>1. tokens[c] # None
    BY <1>3 DEF ReconcileFrozen, Takeable, CallbackInvariant, RowIsSound
  <2> QED  BY <1>3, <2>1, TakeKeeps DEF ReconcileFrozen, Takeable
<1>4. CASE ResolveUnprepared(w, c)
  <2>1. tokens[c] # None
    BY <1>4 DEF ResolveUnprepared, Takeable, CallbackInvariant, RowIsSound
  <2> QED  BY <1>4, <2>1, TakeKeeps DEF ResolveUnprepared
<1> QED  BY <1>1, <1>2, <1>3, <1>4

\* What a worker at work is.
LEMMA AtWork ==
    ASSUME CallbackInvariant, NEW w \in Workers, work[w] # None
    PROVE  /\ work[w] \in WorkRecords /\ work[w].callback \in Callbacks
           /\ Claimed(work[w].callback)
           /\ ledger[work[w].callback] \in LedgerRows
           /\ work[w].intent \in Intents \cup {None}
  BY DEF CallbackInvariant, CallbackTypeOK, WorkRecords, IsBacked, Claimed

\* A worker that goes on, or rests, and touches no row.
LEMMA WorkerStepKeeps ==
    ASSUME CallbackInvariant, NEW w \in Workers, NEW k \in WorkRecords \cup {None},
           work' = [work EXCEPT ![w] = k], UNCHANGED ledger, NoEffects,
           inbox' \subseteq Callbacks, acked' \subseteq Callbacks,
           \A c \in (inbox' \cup acked') \ (inbox \cup acked) : Owned(c),
           k # None => IsBacked(w)'
    PROVE  CallbackInvariant'
<1>1. CallbackTypeOK'
  BY DEF CallbackInvariant, CallbackTypeOK, NoEffects
<1>2. OnlyGrows
  BY DEF CallbackInvariant, CallbackTypeOK, OnlyGrows, NoEffects
<1>3. \A v \in Workers \ {w} : work'[v] = work[v]
  BY DEF CallbackInvariant, CallbackTypeOK
<1>4. work'[w] = k
  BY DEF CallbackInvariant, CallbackTypeOK
<1>5. {w} \in SUBSET Workers /\ \A v \in {w} : IsBacked(v)'
  BY <1>4 DEF IsBacked
<1>6. \A c \in (inbox' \cup acked') \ (inbox \cup acked) : Owned(c)'
  BY <1>1, <1>2, OwnedKept DEF CallbackInvariant
<1>7. UNCHANGED <<ledger, generation, retired>> /\ UNCHANGED locals
  BY DEF NoEffects
<1> QED  BY <1>1, <1>2, <1>3, <1>5, <1>6, <1>7, QuietStepKeeps

\* The same of a worker that only goes to its next step.
LEMMA NextStepShape ==
    ASSUME NEW k \in WorkRecords, NEW step \in Steps
    PROVE  /\ [k EXCEPT !.step = step] \in WorkRecords
           /\ [k EXCEPT !.step = step].callback = k.callback
           /\ [k EXCEPT !.step = step].intent = k.intent
           /\ [k EXCEPT !.step = step].step = step
           /\ [k EXCEPT !.step = step] # None
  BY CallbackConstants DEF WorkRecords

\* Steps of a worker that are only its own: it keeps what it found, renews its lease, finds
\* nothing to do.
LEMMA OwnStepKeeps ==
    ASSUME CallbackInvariant, NEW w \in Workers, KeepIntent(w) \/ Renew(w) \/ ConfirmAbsence(w)
    PROVE  CallbackInvariant'
<1> DEFINE step == IF KeepIntent(w) THEN "frozen" ELSE IF Renew(w) THEN "renewed" ELSE "applied"
           k == [work[w] EXCEPT !.step = step]
<1>1. work[w] # None /\ work' = [work EXCEPT ![w] = k]
      /\ UNCHANGED <<ledger, inbox, acked>> /\ NoEffects
  BY DEF KeepIntent, Renew, ConfirmAbsence, Doing, Moves
<1>2. step \in Steps /\ work[w] \in WorkRecords
  BY <1>1, AtWork DEF Steps
<1>3. k \in WorkRecords /\ k.callback = work[w].callback /\ k.intent = work[w].intent
      /\ k.step = step /\ k # None
  BY <1>2, NextStepShape
<1>4. work'[w] = k
  BY <1>1 DEF CallbackInvariant, CallbackTypeOK
<1>5. /\ work[w].intent \in Intents /\ ledger[work[w].callback].intent = work[w].intent
      /\ step = "applied" => work[w].intent.kind = "none"
  BY <1>1, AtWork DEF CallbackInvariant, IsBacked, KeepIntent, Renew, ConfirmAbsence, Doing
<1>6. step \in {"frozen", "renewed", "applied"}
  OBVIOUS
<1>7. Claimed(work[w].callback)
  BY <1>1, AtWork
<1> HIDE DEF k, step
<1>8. IsBacked(w)'
  BY <1>1, <1>3, <1>4, <1>5, <1>6, <1>7, SMT DEF IsBacked, Claimed, NoEffects, Ended
<1> QED  BY <1>1, <1>3, <1>8, WorkerStepKeeps DEF CallbackInvariant, CallbackTypeOK

\* What a resolution answers is an effect for the token that was resolved.
LEMMA ResolutionIsFor ==
    ASSUME CallbackInvariant, NEW c \in Callbacks, tokens[c] # None
    PROVE  LET i == Resolution(tokens[c]) IN
           /\ i \in Intents
           /\ i.kind = "principal" => i.target \in PlatformPrincipals /\ tokens[c].sid = None
           /\ i.kind # "principal" => FrozenFor(c, i)
<1> DEFINE t == tokens[c]
<1>1. t \in Tokens
  BY DEF CallbackInvariant, CallbackTypeOK
<1>2. CASE t.sid # None
  <2>1. t.sid \in Sessions
    BY <1>1, <1>2 DEF Tokens
  <2> QED  BY <1>2, <2>1 DEF Resolution, SidEffect, NoEffect, Intents, FrozenFor
<1>3. CASE t.sid = None
  <2>1. t.sub \in Subjects
    BY <1>1, <1>3 DEF Tokens
  <2>2. placement[t.sub] \in PlatformPrincipals \cup {None}
    BY <2>1 DEF CallbackInvariant, CallbackTypeOK
  <2> QED  BY <1>3, <2>1, <2>2 DEF Resolution, PrincipalEffect, NoEffect, Intents, FrozenFor
<1> QED  BY <1>2, <1>3

\* The mapping answered, and the generation is read after it.
LEMMA ResolveKeeps ==
    ASSUME CallbackInvariant, NEW w \in Workers, Resolve(w) PROVE CallbackInvariant'
<1> DEFINE c == work[w].callback
           i == Resolution(tokens[c])
           step == IF i.kind = "principal" THEN "placed" ELSE "read"
           k == [[work[w] EXCEPT !.intent = i] EXCEPT !.step = step]
<1>1. work[w] # None /\ work' = [work EXCEPT ![w] = k]
      /\ UNCHANGED <<ledger, inbox, acked>> /\ NoEffects
  BY DEF Resolve, Doing, CallbackInvariant, CallbackTypeOK
<1>2. work[w] \in WorkRecords /\ c \in Callbacks /\ Claimed(c)
  BY <1>1, AtWork
<1>3. /\ i \in Intents
      /\ i.kind = "principal" => i.target \in PlatformPrincipals /\ tokens[c].sid = None
      /\ i.kind # "principal" => FrozenFor(c, i)
  BY <1>2, ResolutionIsFor DEF Claimed
<1>4. k \in WorkRecords /\ k.callback = c /\ k.intent = i /\ k.step = step /\ k # None
  BY <1>2, <1>3, CallbackConstants DEF WorkRecords, Steps
<1>5. work'[w] = k
  BY <1>1 DEF CallbackInvariant, CallbackTypeOK
<1> HIDE DEF k, i
<1>6. IsBacked(w)'
  BY <1>1, <1>2, <1>3, <1>4, <1>5 DEF IsBacked, Claimed, NoEffects, FrozenFor
<1> HIDE DEF step
<1> QED  BY <1>1, <1>4, <1>6, WorkerStepKeeps DEF CallbackInvariant, CallbackTypeOK

LEMMA ReadKeeps ==
    ASSUME CallbackInvariant, NEW w \in Workers, ReadGeneration(w) PROVE CallbackInvariant'
<1> DEFINE c == work[w].callback
           i == [work[w].intent EXCEPT !.generation = generation[work[w].intent.target]]
           k == [[work[w] EXCEPT !.intent = i] EXCEPT !.step = "read"]
<1>1. work[w] # None /\ work[w].step = "placed" /\ work' = [work EXCEPT ![w] = k]
      /\ UNCHANGED <<ledger, inbox, acked>> /\ NoEffects
  BY DEF ReadGeneration, Doing, CallbackInvariant, CallbackTypeOK
<1>2. work[w] \in WorkRecords /\ c \in Callbacks /\ Claimed(c)
  BY <1>1, AtWork
<1>3. /\ work[w].intent \in Intents /\ work[w].intent.kind = "principal"
      /\ work[w].intent.target \in PlatformPrincipals /\ tokens[c].sid = None
  BY <1>1 DEF CallbackInvariant, IsBacked
<1>4. generation[work[w].intent.target] \in Nat
  BY <1>3 DEF CallbackInvariant, CallbackTypeOK
<1>5. /\ i \in Intents /\ i.kind = "principal" /\ i.target = work[w].intent.target
      /\ i.generation = generation[i.target]
  BY <1>3, <1>4 DEF Intents
<1>6. FrozenFor(c, i)
  BY <1>3, <1>4, <1>5 DEF FrozenFor
<1>7. k \in WorkRecords /\ k.callback = c /\ k.intent = i /\ k.step = "read" /\ k # None
  BY <1>2, <1>5, CallbackConstants DEF WorkRecords, Steps
<1>8. work'[w] = k
  BY <1>1 DEF CallbackInvariant, CallbackTypeOK
<1> HIDE DEF k, i
<1>9. IsBacked(w)'
  BY <1>1, <1>2, <1>6, <1>7, <1>8 DEF IsBacked, Claimed, NoEffects, FrozenFor
<1> QED  BY <1>1, <1>7, <1>9, WorkerStepKeeps DEF CallbackInvariant, CallbackTypeOK

\* The inbox and the answer: what is stored or answered is owned.
LEMMA AnswersKeep ==
    ASSUME CallbackInvariant,
           \/ \E w \in Workers : Store(w) \/ Acknowledge(w)
           \/ \E c \in Callbacks : AcknowledgeAgain(c)
    PROVE  CallbackInvariant'
<1>1. ASSUME NEW w \in Workers, Store(w) PROVE CallbackInvariant'
  <2> DEFINE c == work[w].callback
             k == [work[w] EXCEPT !.step = "stored"]
  <2>1. /\ work[w] # None /\ work[w].step = "released" /\ work' = [work EXCEPT ![w] = k]
        /\ inbox' = inbox \cup {c} /\ UNCHANGED <<ledger, acked>> /\ NoEffects
    BY <1>1 DEF Store, Doing, Moves
  <2>2. work[w] \in WorkRecords /\ c \in Callbacks
    BY <2>1, AtWork
  <2>3. Owned(c)
    BY <2>1 DEF CallbackInvariant, IsBacked
  <2>4. k \in WorkRecords /\ k.callback = c /\ k.step = "stored" /\ k # None
    BY <2>2, NextStepShape DEF Steps
  <2>5. work'[w] = k
    BY <2>1 DEF CallbackInvariant, CallbackTypeOK
  <2> HIDE DEF k
  <2>6. IsBacked(w)'
    BY <2>1, <2>3, <2>4, <2>5 DEF IsBacked, Owned, Claimed, NoEffects
  <2>7. \A d \in (inbox' \cup acked') \ (inbox \cup acked) : Owned(d)
    BY <2>1, <2>3
  <2>8. inbox' \subseteq Callbacks /\ acked' \subseteq Callbacks
    BY <2>1, <2>2 DEF CallbackInvariant, CallbackTypeOK
  <2> QED  BY <2>1, <2>4, <2>6, <2>7, <2>8, WorkerStepKeeps
<1>2. ASSUME NEW w \in Workers, Acknowledge(w) PROVE CallbackInvariant'
  <2> DEFINE c == work[w].callback
  <2>1. /\ work[w] # None /\ work[w].step = "stored" /\ work' = [work EXCEPT ![w] = None]
        /\ acked' = acked \cup {c} /\ UNCHANGED <<ledger, inbox>> /\ NoEffects
    BY <1>2 DEF Acknowledge, Doing, Rests
  <2>2. c \in Callbacks /\ Owned(c)
    BY <2>1, AtWork DEF CallbackInvariant, IsBacked
  <2>3. \A d \in (inbox' \cup acked') \ (inbox \cup acked) : Owned(d)
    BY <2>1, <2>2
  <2>4. inbox' \subseteq Callbacks /\ acked' \subseteq Callbacks
    BY <2>1, <2>2 DEF CallbackInvariant, CallbackTypeOK
  <2> QED  BY <2>1, <2>3, <2>4, WorkerStepKeeps
<1>3. ASSUME NEW c \in Callbacks, AcknowledgeAgain(c) PROVE CallbackInvariant'
  <2>1. c \in inbox /\ acked' = acked \cup {c} /\ UNCHANGED <<ledger, inbox, work>> /\ NoEffects
    BY <1>3 DEF AcknowledgeAgain
  <2>2. inbox' \cup acked' = inbox \cup acked
    BY <2>1
  <2>3. CallbackTypeOK' /\ OnlyGrows
    BY <2>1 DEF CallbackInvariant, CallbackTypeOK, OnlyGrows, NoEffects
  <2>4. UNCHANGED <<ledger, generation, retired, locals>>
    BY <2>1 DEF NoEffects
  <2>5. {} \in SUBSET Workers /\ \A w \in Workers \ {} : work'[w] = work[w]
    BY <2>1
  <2>6. (inbox' \cup acked') \ (inbox \cup acked) = {}
    BY <2>2
  <2> QED  BY <2>3, <2>4, <2>5, <2>6, QuietStepKeeps
<1> QED  BY <1>1, <1>2, <1>3

\* The row of a worker that leaves it, as it is then.
LEMMA LeftRow ==
    ASSUME CallbackInvariant, NEW w \in Workers, work[w] # None,
           NEW status \in {"retryable", "completed"}, Leaves(w, status)
    PROVE  \E r \in LedgerRows :
               /\ ledger' = [ledger EXCEPT ![work[w].callback] = r]
               /\ r.status = status /\ r.intent = ledger[work[w].callback].intent
<1> DEFINE c == work[w].callback
           r == [ledger[c] EXCEPT !.status = status, !.owner = None, !.live = FALSE]
<1>1. ledger[c] \in LedgerRows /\ c \in Callbacks
  BY AtWork
<1>2. r \in LedgerRows /\ r.status = status /\ r.intent = ledger[c].intent
  BY <1>1 DEF LedgerRows
<1>3. ledger' = [ledger EXCEPT ![c] = r]
  BY DEF Leaves
<1> QED  BY <1>2, <1>3

\* A worker that gives its claim up, if it still holds it, and goes on or rests.
LEMMA GivingUpKeeps ==
    ASSUME CallbackInvariant, NEW w \in Workers, work[w] # None, LeavesRetryable(w),
           NEW k \in WorkRecords \cup {None}, work' = [work EXCEPT ![w] = k], NoEffects,
           inbox' = inbox, acked' = acked,
           k # None => k.callback = work[w].callback /\ k.step = "released" /\ Owned(k.callback)
    PROVE  CallbackInvariant'
<1> DEFINE c == work[w].callback
<1>1. c \in Callbacks /\ ledger[c] \in LedgerRows /\ ledger[c] # None /\ Claimed(c)
  BY AtWork, CallbackConstants
<1>2. work'[w] = k /\ \A v \in Workers \ {w} : work'[v] = work[v]
  BY DEF CallbackInvariant, CallbackTypeOK
<1>3. CASE Holds(w)
  <2>1. Leaves(w, "retryable") /\ ledger[c].status = "pending"
    BY <1>3 DEF LeavesRetryable, Holds
  <2>2. PICK r \in LedgerRows : /\ ledger' = [ledger EXCEPT ![c] = r]
                                /\ r.status = "retryable" /\ r.intent = ledger[c].intent
    BY <2>1, LeftRow
  <2>3. CallbackTypeOK'
    BY <2>2 DEF CallbackInvariant, CallbackTypeOK, NoEffects
  <2>4. OnlyGrows
    BY <1>1, <2>1, <2>2, RowStepGrows DEF CallbackInvariant
  <2>5. IsBacked(w)'
    BY <1>1, <1>2, <2>3, <2>4, OwnedKept DEF IsBacked, Owned, CallbackInvariant
  <2>6. {w} \in SUBSET Workers /\ \A v \in {w} : IsBacked(v)'
    BY <2>5
  <2>7. r.status = "completed" <=> ledger[c].status = "completed"
    BY <2>1, <2>2
  <2> QED  BY <1>1, <1>2, <2>2, <2>3, <2>6, <2>7, RowStepKeeps
<1>4. CASE ~Holds(w)
  <2>1. UNCHANGED ledger
    BY <1>4 DEF LeavesRetryable
  <2>2. k # None => IsBacked(w)'
    BY <1>1, <1>2, <2>1 DEF IsBacked, Owned, Claimed, NoEffects
  <2>3. inbox' \subseteq Callbacks /\ acked' \subseteq Callbacks
    BY DEF CallbackInvariant, CallbackTypeOK
  <2> QED  BY <2>1, <2>2, <2>3, WorkerStepKeeps
<1> QED  BY <1>3, <1>4

LEMMA LeaveKeeps ==
    ASSUME CallbackInvariant, NEW w \in Workers,
           LeaveUnresolved(w) \/ Release(w) \/ Fails(w) \/ Dies(w)
    PROVE  CallbackInvariant'
<1> DEFINE c == work[w].callback
           k == [work[w] EXCEPT !.step = "released"]
<1>1. work[w] # None
  BY DEF LeaveUnresolved, Release, Fails, Dies, Doing
<1>2. work[w] \in WorkRecords /\ c \in Callbacks /\ Claimed(c)
  BY <1>1, AtWork
<1>3. k \in WorkRecords /\ k.callback = c /\ k.step = "released" /\ k # None
  BY <1>2, NextStepShape DEF Steps
<1>4. CASE LeaveUnresolved(w)
  <2>1. tokens[c].sid # None
    BY <1>4 DEF LeaveUnresolved, MayAwaitTarget
  <2>2. LeavesRetryable(w) /\ work' = [work EXCEPT ![w] = k] /\ NoEffects
        /\ inbox' = inbox /\ acked' = acked
    BY <1>4 DEF LeaveUnresolved, Moves
  <2> HIDE DEF k
  <2> QED  BY <1>1, <1>2, <1>3, <2>1, <2>2, GivingUpKeeps DEF Owned
<1>5. CASE Release(w)
  <2>1. ledger[c].intent # None
    BY <1>1, <1>5, CallbackConstants DEF Release, Doing, CallbackInvariant, IsBacked
  <2>2. LeavesRetryable(w) /\ work' = [work EXCEPT ![w] = k] /\ NoEffects
        /\ inbox' = inbox /\ acked' = acked
    BY <1>5 DEF Release, LeavesRetryable, Moves
  <2> HIDE DEF k
  <2> QED  BY <1>1, <1>2, <1>3, <2>1, <2>2, GivingUpKeeps DEF Owned
<1>6. CASE Fails(w)
  BY <1>1, <1>6, GivingUpKeeps DEF Fails, Rests
<1>7. CASE Dies(w)
  BY <1>7, WorkerStepKeeps DEF Dies, Rests, CallbackInvariant, CallbackTypeOK
<1> QED  BY <1>4, <1>5, <1>6, <1>7

\* The first intent of a callback is written, for its token.
LEMMA FreezeKeeps ==
    ASSUME CallbackInvariant, NEW w \in Workers, Freeze(w) PROVE CallbackInvariant'
<1> DEFINE c == work[w].callback
           i == work[w].intent
           r == [ledger[c] EXCEPT !.intent = i]
           k == [work[w] EXCEPT !.step = "frozen"]
<1>1. /\ work[w] # None /\ work[w].step = "read" /\ ledger[c].status = "pending"
      /\ ledger[c].intent \in {None, i}
      /\ ledger' = [ledger EXCEPT ![c] = r] /\ work' = [work EXCEPT ![w] = k]
      /\ inbox' = inbox /\ acked' = acked /\ NoEffects
  BY DEF Freeze, Doing, Holds, Moves
<1>2. work[w] \in WorkRecords /\ c \in Callbacks /\ Claimed(c) /\ ledger[c] \in LedgerRows
  BY <1>1, AtWork
<1>3. i \in Intents /\ FrozenFor(c, i)
  BY <1>1 DEF CallbackInvariant, IsBacked, FrozenFor
<1>4. r \in LedgerRows /\ r.intent = i /\ r.status = "pending" /\ r # None
  BY <1>1, <1>2, <1>3, CallbackConstants DEF LedgerRows
<1>5. k \in WorkRecords /\ k.callback = c /\ k.intent = i /\ k.step = "frozen" /\ k # None
  BY <1>2, NextStepShape DEF Steps
<1> HIDE DEF r, k
<1>6. CallbackTypeOK'
  BY <1>1, <1>4, <1>5 DEF CallbackInvariant, CallbackTypeOK, NoEffects
<1>7. OnlyGrows
  BY <1>1, <1>4 DEF CallbackInvariant, CallbackTypeOK, OnlyGrows, NoEffects
<1>8. EffectsAreNamed'
  BY <1>1, <1>6, <1>7, NamedKept DEF CallbackInvariant, NoEffects
<1>9. ledger'[c] = r /\ work'[w] = k
  BY <1>1, <1>2 DEF CallbackInvariant, CallbackTypeOK
<1>10. \A d \in Callbacks : RowIsSound(d)'
  <2> TAKE d \in Callbacks
  <2>1. CASE d = c
    BY <2>1, <1>1, <1>2, <1>3, <1>4, <1>9, CallbackConstants DEF RowIsSound, Claimed, FrozenFor, NoEffects
  <2>2. CASE d # c /\ ledger[d] = None
    BY <2>2, <1>1 DEF RowIsSound, CallbackInvariant, CallbackTypeOK
  <2>3. CASE d # c /\ ledger[d] # None
    BY <2>3, <1>1, <1>6, <1>7, RowKept DEF CallbackInvariant, CallbackTypeOK
  <2> QED  BY <2>1, <2>2, <2>3
<1>11. IsBacked(w)'
  BY <1>1, <1>2, <1>3, <1>4, <1>5, <1>9 DEF IsBacked, Claimed, NoEffects
<1>12. {w} \in SUBSET Workers /\ (\A v \in {w} : IsBacked(v)')
       /\ \A v \in Workers \ {w} : work'[v] = work[v]
  BY <1>1, <1>11 DEF CallbackInvariant, CallbackTypeOK
<1>13. (inbox' \cup acked') \ (inbox \cup acked) = {}
  BY <1>1
<1> QED  BY <1>6, <1>7, <1>8, <1>10, <1>12, <1>13, StepKeeps

\* A row is completed by a worker whose effect is in the authority.
LEMMA CompleteKeeps ==
    ASSUME CallbackInvariant, NEW w \in Workers, Complete(w) PROVE CallbackInvariant'
<1> DEFINE c == work[w].callback
           i == work[w].intent
<1>1. /\ work[w] # None /\ work[w].step = "applied" /\ Leaves(w, "completed")
      /\ work' = [work EXCEPT ![w] = None] /\ inbox' = inbox /\ acked' = acked /\ NoEffects
  BY DEF Complete, Doing, Rests
<1>2. c \in Callbacks /\ Claimed(c) /\ ledger[c] # None
  BY <1>1, AtWork DEF Claimed
<1>3. i \in Intents /\ ledger[c].intent = i /\ Ended(i)
  BY <1>1 DEF CallbackInvariant, IsBacked
<1>4. i # None
  BY <1>3, CallbackConstants
<1>5. FrozenFor(c, i)
  BY <1>2, <1>3, <1>4 DEF CallbackInvariant, RowIsSound
<1>6. PICK r \in LedgerRows : /\ ledger' = [ledger EXCEPT ![c] = r]
                              /\ r.status = "completed" /\ r.intent = i
  BY <1>1, <1>3, LeftRow
<1>7. r # None /\ ledger'[c] = r
  BY <1>2, <1>6, CallbackConstants DEF CallbackInvariant, CallbackTypeOK
<1>8. CallbackTypeOK'
  BY <1>1, <1>6 DEF CallbackInvariant, CallbackTypeOK, NoEffects
<1>9. OnlyGrows
  BY <1>1, <1>3, <1>4, <1>6, <1>7 DEF CallbackInvariant, CallbackTypeOK, OnlyGrows, NoEffects
<1>10. EffectsAreNamed'
  BY <1>1, <1>8, <1>9, NamedKept DEF CallbackInvariant, NoEffects
<1>11. \A d \in Callbacks : RowIsSound(d)'
  <2> TAKE d \in Callbacks
  <2>1. CASE d = c
    BY <2>1, <1>1, <1>2, <1>3, <1>4, <1>5, <1>6, <1>7
       DEF RowIsSound, Claimed, FrozenFor, NoEffects, Ended
  <2>2. CASE d # c /\ ledger[d] = None
    BY <2>2, <1>6 DEF RowIsSound, CallbackInvariant, CallbackTypeOK
  <2>3. CASE d # c /\ ledger[d] # None
    BY <2>3, <1>6, <1>8, <1>9, RowKept DEF CallbackInvariant, CallbackTypeOK
  <2> QED  BY <2>1, <2>2, <2>3
<1>12. work'[w] = None /\ \A v \in Workers \ {w} : work'[v] = work[v]
  BY <1>1 DEF CallbackInvariant, CallbackTypeOK
<1>13. {w} \in SUBSET Workers /\ \A v \in {w} : IsBacked(v)'
  BY <1>12 DEF IsBacked
<1>14. (inbox' \cup acked') \ (inbox \cup acked) = {}
  BY <1>1
<1> QED  BY <1>8, <1>9, <1>10, <1>11, <1>12, <1>13, <1>14, StepKeeps

\* What is applied is the frozen effect of the worker's callback.
LEMMA Applying ==
    ASSUME CallbackInvariant, NEW w \in Workers, work[w] # None,
           work[w].step \in {"renewed", "half"}
    PROVE  /\ work[w].intent \in Intents
           /\ ledger[work[w].callback] # None
           /\ ledger[work[w].callback].intent = work[w].intent
           /\ FrozenFor(work[w].callback, work[w].intent)
<1>1. work[w].callback \in Callbacks /\ Claimed(work[w].callback)
  BY AtWork
<1>2. work[w].intent \in Intents /\ ledger[work[w].callback].intent = work[w].intent
  BY DEF CallbackInvariant, IsBacked
<1> QED  BY <1>1, <1>2, CallbackConstants DEF CallbackInvariant, RowIsSound, Claimed

\* A step that touches the authority and moves one worker: the rows stay.
LEMMA EffectStepKeeps ==
    ASSUME CallbackInvariant, NEW w \in Workers, NEW k \in WorkRecords,
           work' = [work EXCEPT ![w] = k], UNCHANGED <<ledger, inbox, acked>>,
           CallbackTypeOK', OnlyGrows, EffectsAreNamed', IsBacked(w)'
    PROVE  CallbackInvariant'
<1>1. \A c \in Callbacks : RowIsSound(c)'
  <2> TAKE c \in Callbacks
  <2>1. CASE ledger[c] = None
    BY <2>1 DEF RowIsSound
  <2>2. CASE ledger[c] # None
    BY <2>2, RowKept DEF CallbackInvariant
  <2> QED  BY <2>1, <2>2
<1>2. {w} \in SUBSET Workers /\ (\A v \in {w} : IsBacked(v)')
      /\ \A v \in Workers \ {w} : work'[v] = work[v]
  BY DEF CallbackInvariant, CallbackTypeOK
<1>3. (inbox' \cup acked') \ (inbox \cup acked) = {}
  OBVIOUS
<1> QED  BY <1>1, <1>2, <1>3, StepKeeps

LEMMA RetireSessionKeeps ==
    ASSUME CallbackInvariant, NEW w \in Workers, RetireSession(w) PROVE CallbackInvariant'
<1> DEFINE c == work[w].callback
           i == work[w].intent
           k == [work[w] EXCEPT !.step = "half"]
<1>1. /\ work[w] # None /\ work[w].step = "renewed" /\ i.kind = "sid"
      /\ retired' = retired \cup {i.target} /\ work' = [work EXCEPT ![w] = k]
      /\ UNCHANGED <<tokens, ledger, inbox, acked, available, placement, locals, generation>>
  BY DEF RetireSession, Doing, Moves
<1>2. work[w] \in WorkRecords /\ c \in Callbacks /\ Claimed(c)
  BY <1>1, AtWork
<1>3. i \in Intents /\ ledger[c] # None /\ ledger[c].intent = i /\ FrozenFor(c, i)
  BY <1>1, Applying
<1>4. i.target \in Sessions /\ i = SidEffect(i.target)
  BY <1>1, <1>3 DEF FrozenFor, SidEffect, Intents
<1>5. k \in WorkRecords /\ k.callback = c /\ k.intent = i /\ k.step = "half" /\ k # None
  BY <1>2, NextStepShape DEF Steps
<1> HIDE DEF k
<1>6. CallbackTypeOK'
  BY <1>1, <1>4, <1>5 DEF CallbackInvariant, CallbackTypeOK
<1>7. OnlyGrows
  BY <1>1 DEF CallbackInvariant, CallbackTypeOK, OnlyGrows
<1>8. EffectsAreNamed'
  <2>1. \A s \in retired' : \E d \in Callbacks : ledger'[d] # None /\ ledger'[d].intent = SidEffect(s)
    BY <1>1, <1>2, <1>3, <1>4 DEF CallbackInvariant, EffectsAreNamed
  <2> QED  BY <2>1, <1>1 DEF CallbackInvariant, EffectsAreNamed, SidEffect, PrincipalEffect
<1>9. IsBacked(w)'
  <2>1. work'[w] = k
    BY <1>1 DEF CallbackInvariant, CallbackTypeOK
  <2> QED  BY <2>1, <1>1, <1>2, <1>3, <1>4, <1>5 DEF IsBacked, Claimed
<1> QED  BY <1>1, <1>5, <1>6, <1>7, <1>8, <1>9, EffectStepKeeps

LEMMA RetireBindingKeeps ==
    ASSUME CallbackInvariant, NEW w \in Workers, RetireBinding(w) PROVE CallbackInvariant'
<1> DEFINE c == work[w].callback
           i == work[w].intent
           k == [work[w] EXCEPT !.step = "applied"]
           l == [locals[i.target] EXCEPT !.bound = FALSE]
<1>1. /\ work[w] # None /\ work[w].step = "half"
      /\ locals' = [locals EXCEPT ![i.target] = l] /\ work' = [work EXCEPT ![w] = k]
      /\ UNCHANGED <<tokens, ledger, inbox, acked, available, placement, generation, retired>>
  BY DEF RetireBinding, Doing, Moves
<1>2. work[w] \in WorkRecords /\ c \in Callbacks /\ Claimed(c)
  BY <1>1, AtWork
<1>3. /\ i \in Intents /\ ledger[c] # None /\ ledger[c].intent = i /\ FrozenFor(c, i)
      /\ i.kind = "sid" /\ i.target \in retired
  BY <1>1, Applying DEF CallbackInvariant, IsBacked
<1>4. i.target \in Sessions /\ locals[i.target] \in LocalSessions
  BY <1>3 DEF FrozenFor, CallbackInvariant, CallbackTypeOK
<1>5. k \in WorkRecords /\ k.callback = c /\ k.intent = i /\ k.step = "applied" /\ k # None
  BY <1>2, NextStepShape DEF Steps
<1>6. /\ l \in LocalSessions /\ l # None /\ l.principal = locals[i.target].principal
      /\ l.generation = locals[i.target].generation
  BY <1>4, CallbackConstants DEF LocalSessions
<1>7. locals[i.target] # None
  BY <1>3 DEF FrozenFor
<1> HIDE DEF k, l
<1>8. CallbackTypeOK'
  BY <1>1, <1>4, <1>5, <1>6 DEF CallbackInvariant, CallbackTypeOK
<1>9. OnlyGrows
  BY <1>1, <1>4, <1>6 DEF CallbackInvariant, CallbackTypeOK, OnlyGrows
<1>10. \A s \in Sessions : locals[s] = None /\ locals'[s] # None =>
               locals'[s].generation = generation[locals'[s].principal]
  BY <1>1, <1>7 DEF CallbackInvariant, CallbackTypeOK
<1>11. IsBacked(w)'
  <2>1. work'[w] = k
    BY <1>1 DEF CallbackInvariant, CallbackTypeOK
  <2> QED  BY <2>1, <1>1, <1>2, <1>3, <1>5 DEF IsBacked, Claimed, Ended
<1>12. EffectsAreNamed'
  BY <1>1, <1>8, <1>9, <1>10, NamedKept DEF CallbackInvariant
<1> QED  BY <1>1, <1>5, <1>8, <1>9, <1>11, <1>12, EffectStepKeeps

LEMMA FenceKeeps ==
    ASSUME CallbackInvariant, NEW w \in Workers, FencePrincipal(w) PROVE CallbackInvariant'
<1> DEFINE c == work[w].callback
           i == work[w].intent
           p == i.target
           n == Fenced(generation[p], i.generation)
           k == [work[w] EXCEPT !.step = "applied"]
<1>1. /\ work[w] # None /\ work[w].step = "renewed" /\ i.kind = "principal"
      /\ generation[p] >= i.generation
      /\ generation' = [generation EXCEPT ![p] = n] /\ work' = [work EXCEPT ![w] = k]
      /\ UNCHANGED <<tokens, ledger, inbox, acked, available, placement, locals, retired>>
  BY DEF FencePrincipal, Doing, Moves, CallbackInvariant, CallbackTypeOK
<1>2. work[w] \in WorkRecords /\ c \in Callbacks /\ Claimed(c)
  BY <1>1, AtWork
<1>3. i \in Intents /\ ledger[c] # None /\ ledger[c].intent = i /\ FrozenFor(c, i)
  BY <1>1, Applying
<1>4. /\ p \in PlatformPrincipals /\ i.generation \in Nat /\ generation[p] \in Nat
      /\ i = PrincipalEffect(p, i.generation)
  BY <1>1, <1>3 DEF FrozenFor, PrincipalEffect, Intents, CallbackInvariant, CallbackTypeOK
<1>5. /\ n \in Nat /\ n > i.generation /\ n >= generation[p]
      /\ \A g \in Nat : g < n => g < generation[p] \/ g = i.generation
  BY <1>1, <1>4 DEF Fenced
<1>6. k \in WorkRecords /\ k.callback = c /\ k.intent = i /\ k.step = "applied" /\ k # None
  BY <1>2, NextStepShape DEF Steps
<1> HIDE DEF k, n
<1>7. CallbackTypeOK'
  BY <1>1, <1>4, <1>5, <1>6 DEF CallbackInvariant, CallbackTypeOK
<1>8. OnlyGrows
  BY <1>1, <1>4, <1>5 DEF CallbackInvariant, CallbackTypeOK, OnlyGrows
<1>9. EffectsAreNamed'
  <2>1. \A q \in PlatformPrincipals : q # p => generation'[q] = generation[q]
    BY <1>1, <1>4 DEF CallbackInvariant, CallbackTypeOK
  <2>2. generation'[p] = n
    BY <1>1, <1>4 DEF CallbackInvariant, CallbackTypeOK
  <2>3. \A q \in PlatformPrincipals : \A g \in Nat :
            1 <= g /\ g < generation'[q] =>
                \E d \in Callbacks : ledger[d] # None /\ ledger[d].intent = PrincipalEffect(q, g)
    <3> TAKE q \in PlatformPrincipals, g \in Nat
    <3>1. CASE q # p
      BY <3>1, <2>1 DEF CallbackInvariant, EffectsAreNamed
    <3>2. CASE q = p /\ g < generation[p]
      BY <3>2 DEF CallbackInvariant, EffectsAreNamed
    <3>3. CASE q = p /\ g = i.generation
      BY <3>3, <1>2, <1>3, <1>4
    <3> QED  BY <3>1, <3>2, <3>3, <2>2, <1>5
  <2>4. \A s \in Sessions :
            locals[s] # None => 1 <= locals[s].generation
                                /\ locals[s].generation <= generation'[locals[s].principal]
    <3> SUFFICES ASSUME NEW s \in Sessions, locals[s] # None
                 PROVE  1 <= locals[s].generation
                        /\ locals[s].generation <= generation'[locals[s].principal]
      OBVIOUS
    <3>1. locals[s].principal \in PlatformPrincipals /\ locals[s].generation \in Nat
      BY DEF CallbackInvariant, CallbackTypeOK, LocalSessions
    <3>2. /\ generation[locals[s].principal] \in Nat
          /\ generation'[locals[s].principal] \in Nat
          /\ generation'[locals[s].principal] >= generation[locals[s].principal]
      BY <3>1, <1>7, <1>8 DEF CallbackInvariant, CallbackTypeOK, OnlyGrows
    <3> QED  BY <3>1, <3>2 DEF CallbackInvariant, EffectsAreNamed
  <2>5. \A q \in PlatformPrincipals : generation'[q] >= 1
    BY <1>4, <1>5, <2>1, <2>2 DEF CallbackInvariant, EffectsAreNamed, CallbackTypeOK
  <2> QED  BY <2>3, <2>4, <2>5, <1>1 DEF CallbackInvariant, EffectsAreNamed, SidEffect, PrincipalEffect
<1>10. IsBacked(w)'
  <2>1. work'[w] = k /\ generation'[p] = n
    BY <1>1, <1>4 DEF CallbackInvariant, CallbackTypeOK
  <2> QED  BY <2>1, <1>1, <1>2, <1>3, <1>5, <1>6 DEF IsBacked, Claimed, Ended
<1> QED  BY <1>1, <1>6, <1>7, <1>8, <1>9, <1>10, EffectStepKeeps

-----------------------------------------------------------------------------
\* It holds at first.
LEMMA CallbackInitially == CallbackInit => CallbackInvariant
<1> SUFFICES ASSUME CallbackInit PROVE CallbackInvariant
  OBVIOUS
<1>0. Imported \in LedgerRows
  BY DEF Imported, LedgerRows
<1>1. Imported \in LedgerRows /\ Imported # None
  BY <1>0, CallbackConstants
<1>2. CallbackTypeOK
  BY <1>1 DEF CallbackInit, CallbackTypeOK
<1>3. \A c \in Callbacks : RowIsSound(c)
  BY <1>1 DEF CallbackInit, RowIsSound, Imported
<1>4. \A w \in Workers : IsBacked(w)
  BY DEF CallbackInit, IsBacked
<1>5. EffectsAreNamed
  BY DEF CallbackInit, EffectsAreNamed
<1> QED  BY <1>2, <1>3, <1>4, <1>5 DEF CallbackInit, CallbackInvariant

\* Every step keeps it.
LEMMA CallbackStepKeeps == CallbackInvariant /\ [CallbackNext]_callbackVars => CallbackInvariant'
<1> SUFFICES ASSUME CallbackInvariant, [CallbackNext]_callbackVars PROVE CallbackInvariant'
  OBVIOUS
<1>1. CASE UNCHANGED callbackVars
  BY <1>1 DEF callbackVars, CallbackInvariant, CallbackTypeOK, RowIsSound, IsBacked, EffectsAreNamed,
              Owned, Claimed, FrozenFor, Ended
<1>2. CASE \E c \in Callbacks, sid \in Sessions \cup {None}, sub \in Subjects \cup {None} : Issue(c, sid, sub)
  BY <1>2, WorldKeeps
<1>3. CASE \E w \in Workers : Fails(w)
  BY <1>3, LeaveKeeps
<1>4. CASE CallbackSteps
  <2>1. CASE \/ \E s \in Sessions, u \in Subjects, p \in PlatformPrincipals : Login(s, u, p)
             \/ \E u \in Subjects, p \in PlatformPrincipals \cup {None} : Relink(u, p)
             \/ MappingsChangeCurrentness
    BY <2>1, WorldKeeps
  <2>2. CASE \E c \in Callbacks : TokenExpires(c) \/ Lapse(c) \/ AcknowledgeAgain(c)
    BY <2>2, WorldKeeps, LapseKeeps, AnswersKeep
  <2>3. CASE \E w \in Workers, c \in Callbacks :
                DeliverToken(w, c) \/ Handle(w, c) \/ ReconcileFrozen(w, c) \/ ResolveUnprepared(w, c)
    BY <2>3, ClaimKeeps
  <2>4. ASSUME NEW w \in Workers,
               \/ KeepIntent(w) \/ Resolve(w) \/ LeaveUnresolved(w) \/ ReadGeneration(w) \/ Freeze(w)
               \/ Release(w) \/ Store(w) \/ Acknowledge(w)
               \/ Renew(w) \/ RetireSession(w) \/ RetireBinding(w) \/ FencePrincipal(w) \/ ConfirmAbsence(w)
               \/ Complete(w) \/ Dies(w)
        PROVE  CallbackInvariant'
    BY <2>4, OwnStepKeeps, ResolveKeeps, LeaveKeeps, ReadKeeps, FreezeKeeps, AnswersKeep,
       RetireSessionKeeps, RetireBindingKeeps, FenceKeeps, CompleteKeeps
  <2> QED  BY <1>4, <2>1, <2>2, <2>3, <2>4 DEF CallbackSteps
<1> QED  BY <1>1, <1>2, <1>3, <1>4 DEF CallbackNext

LEMMA CallbackInvariantHolds == CallbackSpec => []CallbackInvariant
  BY CallbackInitially, CallbackStepKeeps, PTL DEF CallbackSpec

\* What is answered is owned, and an end has the effect that names it.
LEMMA CallbackInvariantImplies == CallbackInvariant => AcknowledgedIsOwned /\ OnlyNamedSessionsEnd
<1> SUFFICES ASSUME CallbackInvariant PROVE AcknowledgedIsOwned /\ OnlyNamedSessionsEnd
  OBVIOUS
<1>1. AcknowledgedIsOwned
  <2> SUFFICES ASSUME NEW c \in acked
               PROVE  /\ ledger[c] # None
                      /\ ledger[c].intent = None => tokens[c].sid # None /\ ledger[c].status # "completed"
                      /\ ledger[c].status = "completed" => Ended(ledger[c].intent)
    BY DEF AcknowledgedIsOwned
  <2>1. Owned(c) /\ RowIsSound(c)
    BY DEF CallbackInvariant, CallbackTypeOK
  <2> QED  BY <2>1 DEF Owned, Claimed, RowIsSound
<1>2. OnlyNamedSessionsEnd
  <2> SUFFICES ASSUME NEW s \in Sessions, locals[s] # None, ~IsCurrent(s)
               PROVE  \E c \in Callbacks : Names(c, s)
    BY DEF OnlyNamedSessionsEnd
  <2>1. locals[s].principal \in PlatformPrincipals /\ locals[s].generation \in Nat
    BY DEF CallbackInvariant, CallbackTypeOK, LocalSessions
  <2>2. CASE s \in retired
    <3>1. PICK c \in Callbacks : ledger[c] # None /\ ledger[c].intent = SidEffect(s)
      BY <2>2 DEF CallbackInvariant, EffectsAreNamed
    <3>2. SidEffect(s) # None /\ SidEffect(s).kind = "sid" /\ SidEffect(s).target = s
      BY CallbackConstants DEF SidEffect, Intents
    <3>3. tokens[c] # None /\ tokens[c].sid = s
      BY <3>1, <3>2 DEF CallbackInvariant, RowIsSound, FrozenFor
    <3> QED  BY <3>1, <3>3, CallbackConstants DEF Names
  <2>3. CASE s \notin retired
    <3> DEFINE p == locals[s].principal
               g == locals[s].generation
    <3>1. generation[p] \in Nat /\ 1 <= g /\ g <= generation[p] /\ g # generation[p]
      BY <2>1, <2>3 DEF CallbackInvariant, CallbackTypeOK, EffectsAreNamed, IsCurrent
    <3>2. PICK c \in Callbacks : ledger[c] # None /\ ledger[c].intent = PrincipalEffect(p, g)
      BY <2>1, <3>1 DEF CallbackInvariant, EffectsAreNamed
    <3>3. PrincipalEffect(p, g) # None /\ PrincipalEffect(p, g).kind = "principal"
      BY <2>1, CallbackConstants DEF PrincipalEffect, Intents
    <3>4. tokens[c].sid = None
      BY <3>2, <3>3 DEF CallbackInvariant, RowIsSound, FrozenFor
    <3> QED  BY <3>2, <3>4 DEF Names
  <2> QED  BY <2>2, <2>3
<1> QED  BY <1>1, <1>2

\* The ledgers, placements and sessions stay of their types.
THEOREM CallbackTypeCorrect == CallbackSpec => []CallbackTypeOK
<1>1. CallbackInvariant => CallbackTypeOK
  BY DEF CallbackInvariant
<1> QED  BY <1>1, CallbackInvariantHolds, PTL

\* No logout that was answered with 200 is lost, for any number of tokens and workers.
THEOREM AcknowledgedLogoutIsOwned == CallbackSpec => []AcknowledgedIsOwned
  BY CallbackInvariantHolds, CallbackInvariantImplies, PTL

\* No session ends but by a logout that names it, however late its effect is applied.
THEOREM OnlyNamedEnd == CallbackSpec => []OnlyNamedSessionsEnd
  BY CallbackInvariantHolds, CallbackInvariantImplies, PTL

=============================================================================
