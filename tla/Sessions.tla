------------------------------ MODULE Sessions ------------------------------
(***************************************************************************)
(* Signing in and staying signed in (apps/users/services.py): refresh      *)
(* sessions and their chains, the sign-in lockout kept in the cache, and   *)
(* password changes and resets, which end sessions.  Team.tla adds the     *)
(* colleagues and their invitations.                                       *)
(*                                                                         *)
(* A request reads, and writes later in a transaction that checks nothing  *)
(* again and takes no lock first, so each is several steps; between them   *)
(* the other requests do as they please.  What a request read is in its    *)
(* `flight` record.  Tokens are row numbers; a token or link that expired  *)
(* is refused and changes nothing, so expiry is left out, and so is what a *)
(* password is.                                                            *)
(***************************************************************************)
EXTENDS Naturals, FiniteSets, Sequences

CONSTANTS
    Users,        \* the addresses: each is one account at most
    Watched,      \* the address of the (e-mail, address) pair whose failures are counted
    Requests,     \* requests under way at one time
    MaxAttempts,  \* failures after which the pair is locked (MAX_ATTEMPTS)
    MaxRows,      \* bound: refresh-session rows
    MaxCalls      \* bound: requests begun

ASSUME SessionsAssumption ==
    /\ Watched \in Users
    /\ MaxAttempts \in Nat \ {0} /\ MaxRows \in Nat \ {0} /\ MaxCalls \in Nat

VARIABLES
    account,      \* per address, its user row
    sessions,     \* the refresh_session table: [user, chain, live, late]
    links,        \* the one-time tokens for a password reset: [user, used]
    failures,     \* the cache's failure count of the pair, or Absent
    locked,       \* whether the pair's lock is in the cache
    flight,       \* per request, what it read and is about to write, or Idle
    calls,        \* history: requests begun
    ends,         \* history: per user, how often all their sessions were ended
    forked,       \* history: chains continued from a row that was no longer live
    closed,       \* history: chains a person ended deliberately and nothing continued since
    spent         \* history: failures counted since the pair's window opened

pairVars == <<failures, locked, spent>>
chainVars == <<sessions, ends, forked, closed>>

Roles == {"owner", "admin", "technician"}
Absent == MaxAttempts      \* no count stays at the limit
Nobody == [exists |-> FALSE, role |-> "technician", active |-> FALSE]

Idle == [kind |-> "idle", user |-> Watched, row |-> 0, seen |-> Nobody, ends |-> 0,
         role |-> "technician"]
Under(r, kind) == flight[r].kind = kind
Begins(r, request) == /\ flight[r] = Idle
                      /\ calls < MaxCalls /\ calls' = calls + 1
                      /\ flight' = [flight EXCEPT ![r] = request]
AtOnce == calls < MaxCalls /\ calls' = calls + 1 /\ UNCHANGED flight
Becomes(r, kind) == flight' = [flight EXCEPT ![r].kind = kind] /\ UNCHANGED calls
Done(r) == flight' = [flight EXCEPT ![r] = Idle] /\ UNCHANGED calls

(* A request about user u, which read u's row and perhaps a session or a link. *)
Reading(kind, u, row) ==
    [Idle EXCEPT !.kind = kind, !.user = u, !.row = row, !.seen = account[u], !.ends = ends[u]]

Active(u) == account[u].exists /\ account[u].active

(* A customer's contact, whose account is the portal's.  The contacts have   *)
(* one address between them, and it is the pair's, in the portal's own keys. *)
Contact(u) == account[u].role = "contact"
OfPair(u) == u = Watched \/ Contact(u)

Colleagues == {u \in Users : ~Contact(u)}
TheirRows == {i \in DOMAIN sessions : sessions[i].user \in Colleagues}

RowsOf(u) == {i \in DOMAIN sessions : sessions[i].user = u}
LiveIn(chain) == {i \in DOMAIN sessions : sessions[i].chain = chain /\ sessions[i].live}

-----------------------------------------------------------------------------
(* Revoking rows sets revoked_at where it is still null. *)
Revoked(rows) == [i \in DOMAIN sessions |->
                    IF i \in rows THEN [sessions[i] EXCEPT !.live = FALSE] ELSE sessions[i]]

(* issue_tokens: a fresh row, in the chain it continues or in one of its own.  *)
(* It is late when its request had read before all the user's sessions ended. *)
Issued(table, u, chain, late) ==
    Append(table, [user |-> u, chain |-> IF chain = 0 THEN Len(table) + 1 ELSE chain,
                   live |-> TRUE, late |-> late])

(* revoke_all_sessions *)
AllEnded(u) == Revoked(RowsOf(u))

EndsAll(u) == ends' = [ends EXCEPT ![u] = @ + 1]

(* Row i's chain goes on: forked, when i is no longer live. *)
Continues(i) ==
    /\ forked' = IF sessions[i].live THEN forked ELSE forked \cup {sessions[i].chain}
    /\ closed' = closed \ {sessions[i].chain}

-----------------------------------------------------------------------------
(* clear: the pair's failures and its lock are forgotten. *)
PairForgotten == failures' = Absent /\ locked' = FALSE /\ spent' = 0

(* authenticate: the pair is not locked, the password is right, the account active. *)
SignIn(r, u) ==
    /\ OfPair(u) => ~locked
    /\ Active(u)
    /\ Begins(r, Reading("sign_in", u, 0))
    /\ UNCHANGED <<account, links, pairVars, chainVars>>

(* The pair is cleared and a session opened on a chain of its own; joining by *)
(* an invitation opens one the same way.                                      *)
SignedIn(r) ==
    LET q == flight[r] IN
    /\ Under(r, "sign_in") \/ Under(r, "join")
    /\ Len(sessions) < MaxRows
    /\ sessions' = Issued(sessions, q.user, 0, q.ends # ends[q.user])
    /\ IF Under(r, "sign_in") /\ OfPair(q.user) THEN PairForgotten ELSE UNCHANGED pairVars
    /\ Done(r)
    /\ UNCHANGED <<account, links, ends, forked, closed>>

(* A wrong password: record_failure opens the window if there is none... *)
Fails(r) ==
    /\ ~locked
    /\ Begins(r, Reading("failure", Watched, 0))
    /\ failures' = IF failures = Absent THEN 0 ELSE failures
    /\ UNCHANGED <<account, links, locked, spent, chainVars>>

(* ... and counts in it with the cache's own increment; one that finds the *)
(* window gone opens the next.                                             *)
Counted(r) == IF failures = Absent THEN 1 ELSE failures + 1

(* The last one allowed sets the lock and drops the count. *)
FailureCounted(r) ==
    /\ Under(r, "failure")
    /\ IF Counted(r) >= MaxAttempts
       THEN failures' = Absent /\ locked' = TRUE /\ spent' = 0
       ELSE /\ failures' = Counted(r)
            /\ spent' = IF failures = Absent THEN 1 ELSE spent + 1
            /\ UNCHANGED locked
    /\ Done(r)
    /\ UNCHANGED <<account, links, chainVars>>

(* The window, or the lock, runs out. *)
WindowEnds ==
    /\ failures # Absent
    /\ failures' = Absent /\ spent' = 0
    /\ UNCHANGED <<account, links, locked, flight, calls, chainVars>>

LockEnds ==
    /\ locked
    /\ locked' = FALSE
    /\ UNCHANGED <<account, links, failures, spent, flight, calls, chainVars>>

-----------------------------------------------------------------------------
(* The presented token is live and its user active: it will be rotated. *)
Rotate(r, i) ==
    /\ sessions[i].live
    /\ Active(sessions[i].user)
    /\ Begins(r, Reading("rotate", sessions[i].user, i))
    /\ UNCHANGED <<account, links, pairVars, chainVars>>

(* Mutated: the rotated token stays live. *)
Rotated_KeepsOld(r) ==
    LET q == flight[r] IN
    /\ Under(r, "rotate")
    /\ Len(sessions) < MaxRows
    /\ sessions' = Issued(sessions, q.user, sessions[q.row].chain, q.ends # ends[q.user])
    /\ Continues(q.row)
    /\ Done(r)
    /\ UNCHANGED <<account, links, ends, pairVars>>

(* Revoking the old row and issuing the new are one unit. *)
Rotated(r) ==
    LET q == flight[r] IN
    /\ Under(r, "rotate")
    /\ Len(sessions) < MaxRows
    /\ sessions' = Issued(Revoked({q.row}), q.user, sessions[q.row].chain, q.ends # ends[q.user])
    /\ Continues(q.row)
    /\ Done(r)
    /\ UNCHANGED <<account, links, ends, pairVars>>

(* A live successor in the chain a revoked token came from. *)
Superseded(i) == LiveIn(sessions[i].chain) # {}

(* A revoked token comes back while its chain lives on: every session of the *)
(* user ends.  Otherwise it is refused.                                      *)
Replayed(i) ==
    /\ ~sessions[i].live
    /\ Superseded(i)
    /\ AtOnce
    /\ sessions' = AllEnded(sessions[i].user)
    /\ EndsAll(sessions[i].user)
    /\ UNCHANGED <<account, links, forked, closed, pairVars>>

(* One token ends, or its chain. *)
Ends(i, rows) ==
    /\ sessions[i].live
    /\ AtOnce
    /\ sessions' = Revoked(rows)
    /\ closed' = IF \E j \in LiveIn(sessions[i].chain) : sessions'[j].live
                 THEN closed ELSE closed \cup {sessions[i].chain}
    /\ UNCHANGED <<account, links, ends, forked, pairVars>>

(* revoke_refresh_token: the token presented. *)
Logout(i) == Ends(i, {i})

(* revoke_session: every token of the chain. *)
EndSession(i) == Ends(i, LiveIn(sessions[i].chain))

(* revoke_other_sessions keeps the caller's chain. *)
RevokeOthers(i) ==
    LET others == {j \in RowsOf(sessions[i].user) : sessions[j].chain # sessions[i].chain} IN
    /\ sessions[i].live
    /\ AtOnce
    /\ sessions' = Revoked(others)
    /\ closed' = closed \cup {sessions[j].chain : j \in others}
    /\ UNCHANGED <<account, links, ends, forked, pairVars>>

(* Without a usable cookie there is no session to keep, and all of them end. *)
RevokeAll(u) ==
    /\ Active(u)
    /\ AtOnce
    /\ sessions' = AllEnded(u)
    /\ closed' = closed \cup {sessions[j].chain : j \in RowsOf(u)}
    /\ EndsAll(u)
    /\ UNCHANGED <<account, links, forked, pairVars>>

-----------------------------------------------------------------------------
(* change_password, from a live session, with the current password. *)
ChangePassword(r, i) ==
    /\ sessions[i].live
    /\ Active(sessions[i].user)
    /\ Begins(r, Reading("password", sessions[i].user, i))
    /\ UNCHANGED <<account, links, pairVars, chainVars>>

(* Every session ends and the caller's is opened again on its chain. *)
PasswordChanged(r) ==
    LET q == flight[r] IN
    /\ Under(r, "password")
    /\ Len(sessions) < MaxRows
    /\ sessions' = Issued(AllEnded(q.user), q.user, sessions[q.row].chain, q.ends # ends[q.user])
    /\ EndsAll(q.user)
    /\ Continues(q.row)
    /\ Done(r)
    /\ UNCHANGED <<account, links, pairVars>>

(* _issue_one_time_token: the user's outstanding links are used up... *)
RequestReset(r, u) ==
    /\ Active(u)
    /\ Begins(r, Reading("link", u, 0))
    /\ links' = [k \in DOMAIN links |->
                   IF links[k].user = u THEN [links[k] EXCEPT !.used = TRUE] ELSE links[k]]
    /\ UNCHANGED <<account, pairVars, chainVars>>

(* ... and a new one is stored and mailed. *)
ResetMailed(r) ==
    /\ Under(r, "link")
    /\ links' = Append(links, [user |-> flight[r].user, used |-> FALSE])
    /\ Done(r)
    /\ UNCHANGED <<account, pairVars, chainVars>>

(* _consume_one_time_token finds the link unused. *)
ConfirmReset(r, k) ==
    /\ ~links[k].used
    /\ Begins(r, Reading("reset", links[k].user, k))
    /\ UNCHANGED <<account, links, pairVars, chainVars>>

(* The password is set, the pair released and every session ended, together. *)
ResetConfirmed(r) ==
    LET q == flight[r] IN
    /\ Under(r, "reset")
    /\ links' = [links EXCEPT ![q.row].used = TRUE]
    /\ IF OfPair(q.user) THEN PairForgotten ELSE UNCHANGED pairVars
    /\ sessions' = AllEnded(q.user)
    /\ EndsAll(q.user)
    /\ Done(r)
    /\ UNCHANGED <<account, forked, closed>>

-----------------------------------------------------------------------------
LoginView == \E r \in Requests : \/ \E u \in Colleagues : SignIn(r, u)
                                 \/ Fails(r) \/ SignedIn(r) \/ FailureCounted(r)

RefreshView == \/ \E r \in Requests : Rotated(r) \/ \E i \in TheirRows : Rotate(r, i)
               \/ \E i \in TheirRows : Replayed(i)

SessionViews == \/ \E i \in TheirRows : Logout(i) \/ EndSession(i) \/ RevokeOthers(i)
                \/ \E u \in Colleagues : RevokeAll(u)

PasswordViews ==
    \E r \in Requests :
        \/ \E i \in TheirRows : ChangePassword(r, i)
        \/ \E u \in Colleagues : RequestReset(r, u)
        \/ \E k \in DOMAIN links : links[k].user \in Colleagues /\ ConfirmReset(r, k)
        \/ PasswordChanged(r) \/ ResetMailed(r) \/ ResetConfirmed(r)

SessionsNext == LoginView \/ RefreshView \/ SessionViews \/ PasswordViews \/ WindowEnds \/ LockEnds

=============================================================================
