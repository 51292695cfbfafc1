-------------------------------- MODULE Team --------------------------------
(***************************************************************************)
(* The colleagues of one firm (apps/users/services.py and team_views.py):  *)
(* invitations and the accounts they open, role changes, the technicians'  *)
(* customers and deactivation, on top of everybody's sessions.             *)
(*                                                                         *)
(* Only set_assigned_customers, the invitations and the acceptance run in  *)
(* a transaction.  A PATCH of a colleague and a deactivation are a read    *)
(* and writes that each commit alone, and the PATCH saves every column of  *)
(* the row it read, the role and is_active included.  Names, phones and    *)
(* certificates are left out, a technician's customers are "some" or none, *)
(* and of an invitation's links only the newest can be used.               *)
(***************************************************************************)
EXTENDS Sessions

CONSTANTS
    Invitable,      \* the roles invitations are written for
    Promotable,     \* the roles a PATCH may ask for
    MaxInvitations  \* bound: invitation rows

ASSUME TeamAssumption ==
    Invitable \subseteq Roles \ {"owner"} /\ Promotable \subseteq Roles /\ MaxInvitations \in Nat

VARIABLES
    assigned,     \* the users with rows in user_customer
    invitations,  \* the invitation table: [user, role, state]
    overlap       \* history: whether two edits of the team were ever under way at once

teamVars == <<assigned, invitations, overlap>>
sessionVars == <<account, links, calls, flight, pairVars, chainVars>>
vars == <<sessionVars, teamVars>>

States == {"pending", "lapsed", "accepted", "deleted"}

(* The requests that edit the team: what each may be about to write. *)
Editing == {"edit", "role", "assigned", "deactivate", "inactive", "revoke", "customers", "seat", "contact"}

EditUnderWay == \E r \in Requests : flight[r].kind \in Editing

BeginsEdit(r, request) ==
    /\ Begins(r, request)
    /\ overlap' = (overlap \/ EditUnderWay)

Owners == {u \in Users : Active(u) /\ account[u].role = "owner"}
Administrators == {u \in Users : Active(u) /\ account[u].role \in {"owner", "admin"}}

-----------------------------------------------------------------------------
(* The firm begins with an owner who is signed in; the others may be there *)
(* already, in any role, or not yet.                                       *)
Init ==
    \E owner \in Users :
        /\ account \in [Users -> {Nobody} \cup [exists : {TRUE}, role : Roles, active : {TRUE}]]
        /\ account[owner].exists /\ account[owner].role = "owner"
        /\ sessions = <<[user |-> owner, chain |-> 1, live |-> TRUE, late |-> FALSE]>>
        /\ links = <<>> /\ failures = Absent /\ locked = FALSE /\ spent = 0
        /\ flight = [r \in Requests |-> Idle] /\ calls = 0
        /\ ends = [u \in Users |-> 0] /\ forked = {} /\ closed = {}
        /\ assigned = {} /\ invitations = <<>> /\ overlap = FALSE

-----------------------------------------------------------------------------
(* UserViewSet.update: get_object; a role may be asked for, and an owner's *)
(* only by an owner.                                                       *)
EditUser(r, u, role) ==
    /\ account[u].exists
    /\ role = "owner" => Owners # {}
    /\ Administrators # {}
    /\ BeginsEdit(r, [Reading("edit", u, 0) EXCEPT !.role = role])
    /\ UNCHANGED <<account, links, pairVars, chainVars, assigned, invitations>>

(* user.save(): the whole row, as it was read. *)
UserSaved(r) ==
    LET q == flight[r] IN
    /\ Under(r, "edit")
    /\ account' = [account EXCEPT ![q.user] = q.seen]
    /\ IF q.role \in Roles THEN Becomes(r, "role") ELSE Done(r)
    /\ UNCHANGED <<links, pairVars, chainVars, teamVars>>

(* _is_last_active_owner, of the row as it was read. *)
LastActiveOwner(seen, u) ==
    seen.role = "owner" /\ seen.active /\ Owners \ {u} = {}

(* change_role: the last owner keeps the role; otherwise it is written... *)
RoleChanged(r) ==
    LET q == flight[r] IN
    /\ Under(r, "role")
    /\ IF q.role # q.seen.role /\ LastActiveOwner(q.seen, q.user)
       THEN Done(r) /\ UNCHANGED account
       ELSE /\ account' = [account EXCEPT ![q.user].role = q.role]
            /\ IF q.role = "technician" THEN Done(r) ELSE Becomes(r, "assigned")
    /\ UNCHANGED <<links, pairVars, chainVars, teamVars>>

(* ... and the customers of one who is no longer a technician go. *)
AssignmentsDropped(r) ==
    /\ Under(r, "assigned")
    /\ assigned' = assigned \ {flight[r].user}
    /\ Done(r)
    /\ UNCHANGED <<account, links, pairVars, chainVars, invitations, overlap>>

-----------------------------------------------------------------------------
(* deactivate: the owner's alone, of somebody else, and never the last owner: *)
(* the row is read first.                                                     *)
Deactivate(r, actor, u) ==
    /\ actor \in Owners
    /\ actor # u
    /\ account[u].exists
    /\ BeginsEdit(r, Reading("deactivate", u, 0))
    /\ UNCHANGED <<account, links, pairVars, chainVars, assigned, invitations>>

(* The other owners are counted... *)
OwnersCounted(r) ==
    LET q == flight[r] IN
    /\ Under(r, "deactivate")
    /\ IF q.seen.role = "owner" /\ Owners \ {q.user} = {} THEN Done(r) ELSE Becomes(r, "inactive")
    /\ UNCHANGED <<account, links, pairVars, chainVars, teamVars>>

(* Mutated: the leaver's sessions are left to expire. *)
Deactivated_StaysSignedIn(r) ==
    /\ Under(r, "inactive")
    /\ account' = [account EXCEPT ![flight[r].user].active = FALSE]
    /\ Done(r)
    /\ UNCHANGED <<links, pairVars, chainVars, teamVars>>

(* ... the account is closed... *)
Deactivated(r) ==
    /\ Under(r, "inactive")
    /\ account' = [account EXCEPT ![flight[r].user].active = FALSE]
    /\ Becomes(r, "revoke")
    /\ UNCHANGED <<links, pairVars, chainVars, teamVars>>

(* ... and its sessions end, each on its own. *)
LeaverSignedOut(r) ==
    /\ Under(r, "revoke")
    /\ sessions' = AllEnded(flight[r].user)
    /\ EndsAll(flight[r].user)
    /\ Done(r)
    /\ UNCHANGED <<account, links, forked, closed, pairVars, teamVars>>

-----------------------------------------------------------------------------
(* set_assigned_customers: of a technician, as the row was read. *)
AssignCustomers(r, u) ==
    /\ account[u].exists /\ account[u].role = "technician"
    /\ Administrators # {}
    /\ BeginsEdit(r, Reading("customers", u, 0))
    /\ UNCHANGED <<account, links, pairVars, chainVars, assigned, invitations>>

(* The list replaces the one there was. *)
CustomersAssigned(r) ==
    /\ Under(r, "customers")
    /\ assigned' \in {assigned \cup {flight[r].user}, assigned \ {flight[r].user}}
    /\ Done(r)
    /\ UNCHANGED <<account, links, pairVars, chainVars, invitations, overlap>>

-----------------------------------------------------------------------------
(* create_invitation: there is no such account, and no live link to one. *)
Invite(r, u, role) ==
    /\ Administrators # {}
    /\ ~account[u].exists
    /\ \A k \in DOMAIN invitations : ~(invitations[k].user = u /\ invitations[k].state = "pending")
    /\ Begins(r, [Reading("invite", u, 0) EXCEPT !.role = role])
    /\ UNCHANGED <<account, links, pairVars, chainVars, teamVars>>

Invited(r) ==
    LET q == flight[r] IN
    /\ Under(r, "invite")
    /\ Len(invitations) < MaxInvitations
    /\ invitations' = Append(invitations, [user |-> q.user, role |-> q.role, state |-> "pending"])
    /\ Done(r)
    /\ UNCHANGED <<account, links, pairVars, chainVars, assigned, overlap>>

(* resend_invitation gives the row a new token and deadline; deleting the row *)
(* revokes it; without either its deadline passes.                            *)
InvitationBecomes(k, from, state) ==
    /\ invitations[k].state \in from
    /\ invitations' = [invitations EXCEPT ![k].state = state]
    /\ UNCHANGED <<account, links, pairVars, chainVars, assigned, overlap>>

Resend(k) == Administrators # {} /\ AtOnce /\ InvitationBecomes(k, {"pending", "lapsed"}, "pending")
Revoke(k) == Administrators # {} /\ AtOnce
                /\ InvitationBecomes(k, States \ {"deleted"}, "deleted")
Lapse(k)  == UNCHANGED <<flight, calls>> /\ InvitationBecomes(k, {"pending"}, "lapsed")

(* accept_invitation: the link is the row's newest and still good... *)
Accept(r, k) ==
    /\ invitations[k].state = "pending"
    /\ Begins(r, Reading("accept", invitations[k].user, k))
    /\ UNCHANGED <<account, links, pairVars, chainVars, teamVars>>

(* An e-mail address is one account's: a second insert is an integrity error. *)
Registrable(u) == ~account[u].exists

(* ... so the account is opened and the row marked, or, the address taken or *)
(* the row deleted meanwhile, neither.                                       *)
Accepted(r) ==
    LET q == flight[r] IN
    /\ Under(r, "accept")
    /\ IF Registrable(q.user) /\ invitations[q.row].state # "deleted"
       THEN /\ account' = [account EXCEPT ![q.user] =
                             [exists |-> TRUE, role |-> invitations[q.row].role, active |-> TRUE]]
            /\ invitations' = [invitations EXCEPT ![q.row].state = "accepted"]
            /\ Becomes(r, "join")
       ELSE Done(r) /\ UNCHANGED <<account, invitations>>
    /\ UNCHANGED <<links, pairVars, chainVars, assigned, overlap>>

-----------------------------------------------------------------------------
UserViewSet ==
    \E r \in Requests :
        \/ \E u \in Users : \/ \E role \in Promotable \cup {"as it is"} : EditUser(r, u, role)
                            \/ \E actor \in Users : Deactivate(r, actor, u)
                            \/ AssignCustomers(r, u)
        \/ UserSaved(r) \/ RoleChanged(r) \/ AssignmentsDropped(r)
        \/ OwnersCounted(r) \/ Deactivated(r) \/ LeaverSignedOut(r)
        \/ CustomersAssigned(r)

InvitationViewSet ==
    \/ \E r \in Requests, u \in Users : Invited(r) \/ \E role \in Invitable : Invite(r, u, role)
    \/ \E k \in DOMAIN invitations : Resend(k) \/ Revoke(k) \/ Lapse(k)

InvitationAcceptView ==
    \E r \in Requests : Accepted(r) \/ \E k \in DOMAIN invitations : Accept(r, k)

Next ==
    \/ SessionsNext /\ UNCHANGED teamVars
    \/ UserViewSet
    \/ InvitationViewSet
    \/ InvitationAcceptView

Spec == Init /\ [][Next]_vars

-----------------------------------------------------------------------------
Row == [user : Users, chain : 1 .. MaxRows, live : BOOLEAN, late : BOOLEAN]

(* Every table, counter and request under way keeps its shape. *)
TypeOK ==
    /\ account \in [Users -> [exists : BOOLEAN, role : Roles \cup {"contact"}, active : BOOLEAN]]
    /\ DOMAIN sessions = 1 .. Len(sessions) /\ Len(sessions) <= MaxRows
    /\ \A i \in DOMAIN sessions : sessions[i] \in Row /\ sessions[i].chain <= i
    /\ \A k \in DOMAIN links : links[k] \in [user : Users, used : BOOLEAN]
    /\ \A k \in DOMAIN invitations : invitations[k] \in [user : Users, role : Roles, state : States]
    /\ failures \in 0 .. Absent /\ locked \in BOOLEAN
    /\ \A r \in Requests : flight[r].user \in Users /\ flight[r].row \in Nat
    /\ assigned \subseteq Users

(* A wrong password too many locks the pair, whichever way the attempts run  *)
(* side by side: since its window opened, fewer than MAX_ATTEMPTS failures    *)
(* have been counted while the door is open ("the count is exact across       *)
(* workers").                                                                 *)
LockedByTheLimit == spent < MaxAttempts /\ (failures # Absent => spent = failures)

(* A device has one live row: "Only one row per chain is ever live at a time" *)
(* (live_sessions), except a chain continued from a row that was no longer   *)
(* live when it was rotated.                                                 *)
OneDevicePerChain ==
    \A i, j \in DOMAIN sessions :
        sessions[i].live /\ sessions[j].live /\ sessions[i].chain = sessions[j].chain
            => i = j \/ sessions[i].chain \in forked

(* The device a person ended comes back with its old token, and nothing else *)
(* is signed out for it: "treating it as a replay would mean ending the old  *)
(* phone signs the user out of the laptop" (rotate_refresh_token).           *)
EndedDeviceIsNoReplay ==
    [][\A i \in DOMAIN sessions : Replayed(i) => sessions[i].chain \notin closed]_vars

(* When all of a user's sessions end, by a password changed or reset, a       *)
(* replay or a deactivation, no row there was stays live: "Their old refresh  *)
(* token dies with the rest" (change_password).                               *)
EndedSessionsStayEnded ==
    [][\A u \in Users : ends'[u] # ends[u] => \A i \in RowsOf(u) : ~sessions'[i].live]_vars

(* A session is a device's until it ends, and then for good, and too many     *)
(* wrong passwords let nobody in: sign-ins, rotations, replays, sign-outs and *)
(* password changes in any order (authenticate, rotate_refresh_token,         *)
(* change_password, record_failure).                                          *)
SessionsHold ==
    [](TypeOK /\ LockedByTheLimit /\ OneDevicePerChain) /\ EndedDeviceIsNoReplay /\ EndedSessionsStayEnded

(* A leaver is out: once a deactivation is over, no session of a closed       *)
(* account is live but one a request already under way issued; unless two     *)
(* edits of the team overlapped, when a whole row is saved as it was read.    *)
LeaversAreOut ==
    \A u \in Users :
        (account[u].exists /\ ~account[u].active /\ ~overlap
            /\ \A r \in Requests : ~(Under(r, "revoke") /\ flight[r].user = u))
        => \A i \in RowsOf(u) : sessions[i].live => sessions[i].late

(* "A company must keep at least one active owner" (deactivate_user), through *)
(* any edits of the team made one after the other: the owner who acts, the    *)
(* row that is read and the owners that are counted need not agree.           *)
FirmKeepsAnOwner == Owners # {} \/ overlap \/ \A u \in Users : Contact(u)

(* Only technicians have customers assigned, edits one after the other:       *)
(* "Leaving them behind would silently narrow the person's view again"        *)
(* (change_role).                                                             *)
AssignedAreTechnicians ==
    \A u \in assigned :
        \/ account[u].role = "technician" \/ overlap
        \/ \E r \in Requests : Under(r, "assigned") /\ flight[r].user = u

(* Whoever holds a role is who the rest of the firm takes them for, and a    *)
(* leaver is out: edits, deactivations and assignments one after the other   *)
(* (change_role, deactivate_user, set_assigned_customers).                   *)
TeamHolds == LeaversAreOut /\ FirmKeepsAnOwner /\ AssignedAreTechnicians

(* An address becomes an account once, whatever links to it were live at the  *)
(* same time and however their acceptances overlapped: create_invitation's    *)
(* "two working links for one seat" open one seat.                            *)
OneLinkOpensTheAccount ==
    \A k, l \in DOMAIN invitations :
        invitations[k].state = "accepted" /\ invitations[l].state = "accepted"
            /\ invitations[k].user = invitations[l].user => k = l

=============================================================================
