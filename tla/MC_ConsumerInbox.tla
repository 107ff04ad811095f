-------------------------- MODULE MC_ConsumerInbox --------------------------
(***************************************************************************)
(* Two inboxes side by side: the receipts of asynchronous messages         *)
(* (ConsumerInbox) and the logout tokens of the identity provider          *)
(* (LogoutCallback).  They share no state; a behaviour is of one inbox,    *)
(* chosen at the start.  Of the logout tokens either one is delivered      *)
(* while everything else may happen, or two end the same subject twice,    *)
(* and a worker that fails then leaves what one leaves that died and whose *)
(* lease lapsed.                                                           *)
(***************************************************************************)
EXTENDS ConsumerInbox, LogoutCallback, TLC

VARIABLE inboxOf

inboxesVars == <<inboxOf, vars, callbackVars>>

\* Executors, revisions, profiles, digests and scopes are interchangeable, and so are the
\* workers, principals, tokens and sessions that are the same model values.
Interchangeable ==
    Permutations(Executors) \cup Permutations(Revisions) \cup Permutations(Profiles)
    \cup Permutations(Digests) \cup Permutations(Scopes)

Issued == {c \in Callbacks : tokens[c] # None}

\* The provider issues its tokens before anything happens: none is read until it is delivered.
IssueFirst(count) ==
    /\ Cardinality(Issued) < count
    /\ \E c \in Callbacks, sid \in Sessions \cup {None}, sub \in Subjects :
          Issue(c, sid, sub) /\ (count > 1 => sid = None)

\* Sessions log in with one subject; a token that names a session may name another.
LoginSubject == CHOOSE u \in Subjects : TRUE

\* The mappings may be out of reach at first.
Ordinary ==
    /\ \A u \in Subjects \ {LoginSubject} : placement'[u] = None
    /\ available => available'

\* Tokens stay fresh, and their subject stays with the principal of its first login.
Pairwise ==
    /\ \A c \in Issued : tokens'[c].fresh
    /\ placement' # placement => locals' # locals /\ placement[LoginSubject] = None

MCInit ==
    /\ inboxOf \in {"messages", "logout", "logout twice"}
    /\ Init /\ CallbackInit
    /\ inboxOf # "logout" => available /\ \A c \in Callbacks : ledger[c] = None

MCNext ==
    /\ UNCHANGED inboxOf
    /\ \/ inboxOf = "messages" /\ Next /\ UNCHANGED callbackVars
       \/ /\ inboxOf = "logout" /\ UNCHANGED vars
          /\ \/ IssueFirst(1)
             \/ Cardinality(Issued) = 1 /\ (CallbackSteps \/ \E w \in Workers : Fails(w)) /\ Ordinary
       \/ /\ inboxOf = "logout twice" /\ UNCHANGED vars
          /\ \/ IssueFirst(2)
             \/ Cardinality(Issued) = 2 /\ CallbackSteps /\ Ordinary /\ Pairwise

MCSpec == MCInit /\ [][MCNext]_inboxesVars
=============================================================================
