------------------------------- MODULE Portal -------------------------------
(***************************************************************************)
(* The customer portal's accounts (apps/portal): a customer's contact is   *)
(* invited, accepts, signs in, resets a password and is shut out again,    *)
(* with Sessions' machinery on tables of its own.  A behaviour is that of  *)
(* a firm's colleagues (Team) or of its customers' contacts: the two share *)
(* code and no row.                                                        *)
(*                                                                         *)
(* The contacts watched have one e-mail address between them, the case in  *)
(* which they get in each other's way.  The office is always there.  Links *)
(* that expired are refused and change nothing, and are left out.          *)
(***************************************************************************)
EXTENDS Team

VARIABLES
    gone,   \* the contacts that were deleted
    seats   \* the invitation links: [user, used]

portalVars == <<gone, seats>>
accountsVars == <<vars, portalVars>>

Contacts == {u \in Users : Contact(u)}

(* The accounts that can sign in with the address, but for u's own. *)
Holders(u) == {v \in Contacts \ {u} : Active(v)}

-----------------------------------------------------------------------------
(* Nobody has been invited yet. *)
PortalInit ==
    /\ account = [u \in Users |-> [Nobody EXCEPT !.role = "contact"]]
    /\ sessions = <<>>
    /\ links = <<>> /\ failures = Absent /\ locked = FALSE /\ spent = 0
    /\ flight = [r \in Requests |-> Idle] /\ calls = 0
    /\ ends = [u \in Users |-> 0] /\ forked = {} /\ closed = {}
    /\ assigned = {} /\ invitations = <<>> /\ overlap = FALSE

AccountsInit == (Init \/ PortalInit) /\ gone = {} /\ seats = <<>>

-----------------------------------------------------------------------------
(* invite: the contact is there, its account is not open, and neither is   *)
(* another with the address.                                               *)
InviteContact(r, u) ==
    /\ Contact(u) /\ u \notin gone
    /\ ~Active(u) /\ Holders(u) = {}
    /\ Begins(r, Reading("invite_contact", u, 0))
    /\ UNCHANGED <<account, links, pairVars, chainVars, teamVars, portalVars>>

(* The account exists from now on, closed, and one link to it works; two   *)
(* first invitations cannot both insert it (uq_portal_account_per_contact).*)
ContactInvited(r) ==
    LET q == flight[r]
        retired == [k \in DOMAIN seats |->
                      IF seats[k].user = q.user THEN [seats[k] EXCEPT !.used = TRUE] ELSE seats[k]]
    IN  /\ Under(r, "invite_contact")
        /\ IF ~q.seen.exists /\ account[q.user].exists
           THEN UNCHANGED <<account, seats>>
           ELSE /\ account' = [account EXCEPT ![q.user].exists = TRUE]
                /\ seats' = Append(retired, [user |-> q.user, used |-> FALSE])
        /\ Done(r)
        /\ UNCHANGED <<links, pairVars, chainVars, teamVars, gone>>

(* accept: the link is unused, the contact is there, the address is free...*)
TakeSeat(r, k) ==
    LET u == seats[k].user IN
    /\ ~seats[k].used
    /\ u \notin gone /\ Holders(u) = {}
    /\ BeginsEdit(r, Reading("seat", u, k))
    /\ UNCHANGED <<account, links, pairVars, chainVars, assigned, invitations, portalVars>>

(* Mutated: e-mail addresses of open accounts are not unique. *)
Free_Always(u) == u \in Users

(* uq_portal_account_active_email *)
Free(u) == Holders(u) = {}

(* ... so the account opens, unless the address was taken meanwhile. *)
SeatTaken(r) ==
    LET q == flight[r] IN
    /\ Under(r, "seat")
    /\ IF Free(q.user)
       THEN /\ account' = [account EXCEPT ![q.user].active = TRUE]
            /\ seats' = [seats EXCEPT ![q.row].used = TRUE]
            /\ Becomes(r, "join")
       ELSE Done(r) /\ UNCHANGED <<account, seats>>
    /\ UNCHANGED <<links, pairVars, chainVars, teamVars, gone>>

(* deactivate: the account is closed and its sessions end, together.       *)
Shut(u) ==
    /\ account' = [account EXCEPT ![u].active = FALSE]
    /\ sessions' = AllEnded(u)
    /\ EndsAll(u)
    /\ UNCHANGED <<links, forked, closed, pairVars>>

CloseAccount(u) ==
    /\ Contact(u) /\ account[u].exists
    /\ AtOnce
    /\ Shut(u)
    /\ UNCHANGED <<teamVars, portalVars>>

(* A contact is deleted... *)
DeleteContact(r, u) ==
    /\ Contact(u) /\ u \notin gone
    /\ BeginsEdit(r, Reading("contact", u, 0))
    /\ gone' = gone \cup {u}
    /\ UNCHANGED <<account, links, pairVars, chainVars, assigned, invitations, seats>>

(* ... and then, if it has an open account, that is closed.                *)
AccountsClosed(r) ==
    /\ Under(r, "contact")
    /\ IF Active(flight[r].user)
       THEN Shut(flight[r].user)
       ELSE UNCHANGED <<account, links, pairVars, chainVars>>
    /\ Done(r)
    /\ UNCHANGED <<teamVars, portalVars>>

-----------------------------------------------------------------------------
(* What Sessions says of both, by the portal's own services: a contact     *)
(* signs out of one token, changes no password but by a mailed link, and   *)
(* that link wants an open account.                                        *)
PortalSignIn(r, u) == Contact(u) /\ SignIn(r, u)
PortalRotate(r, i) == Contact(sessions[i].user) /\ Rotate(r, i)
PortalReplayed(i) == Contact(sessions[i].user) /\ Replayed(i)
PortalLogout(i) == Contact(sessions[i].user) /\ Logout(i)
PortalReset(r, u) == Contact(u) /\ RequestReset(r, u)
PortalConfirmReset(r, k) ==
    Contact(links[k].user) /\ Active(links[k].user) /\ ConfirmReset(r, k)

PortalSessionViews ==
    \/ \E r \in Requests :
        \/ \E u \in Users : PortalSignIn(r, u) \/ PortalReset(r, u)
        \/ \E i \in DOMAIN sessions : PortalRotate(r, i)
        \/ \E k \in DOMAIN links : PortalConfirmReset(r, k)
    \/ \E i \in DOMAIN sessions : PortalReplayed(i) \/ PortalLogout(i)

PortalAcceptView ==
    \E r \in Requests : SeatTaken(r) \/ \E k \in DOMAIN seats : TakeSeat(r, k)

(* The office's side. *)
PortalInvitationView ==
    \E r \in Requests : ContactInvited(r) \/ \E u \in Users : InviteContact(r, u)

PortalAccountViewSet == \E u \in Users : CloseAccount(u)

CustomerContactViewSet ==
    \E r \in Requests : AccountsClosed(r) \/ \E u \in Users : DeleteContact(r, u)

AccountsNext ==
    \/ Next /\ UNCHANGED portalVars
    \/ PortalSessionViews /\ UNCHANGED <<teamVars, portalVars>>
    \/ PortalAcceptView \/ PortalInvitationView \/ PortalAccountViewSet
    \/ CustomerContactViewSet

AccountsSpec == AccountsInit /\ [][AccountsNext]_accountsVars

-----------------------------------------------------------------------------
(* A seat at the customer's is one person's: an address opens one account at *)
(* a time, whoever's links were live and however their acceptances overlap   *)
(* (accept); and a contact that was deleted leaves no open account, unless   *)
(* the deletion overlapped an acceptance that had found the contact there:   *)
(* "A deleted contact's portal account closes with it" (signals.py).         *)
SeatsHold ==
    /\ \A u, v \in Contacts : Active(u) /\ Active(v) => u = v
    /\ \A u \in gone :
         Active(u) => overlap \/ \E r \in Requests : Under(r, "contact") /\ flight[r].user = u

(* One link opens an account, and one account an address: the firm's own and *)
(* its customers' contacts'.                                                 *)
OneSeatEach == OneLinkOpensTheAccount /\ SeatsHold

=============================================================================
