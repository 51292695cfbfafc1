------------------------------ MODULE MCOffice ------------------------------
(* What a firm keeps beside its work: its people's accounts and its customers' *)
(* (Portal), the notices it raises (Notices), its records (Registry), and how  *)
(* firms sharing the server are kept apart (Tenancy).  They share no row that  *)
(* two of the properties rest on, so a behaviour is one part's.                *)
EXTENDS Portal, Notices, Registry, Tenancy, TLC

CONSTANTS u1, u2, r1, r2, c1, c2, f1, f2, d1, d2, d3, m1, m2, g1, p1, p2, p3

VARIABLE part

officeVars == <<part, accountsVars, noticesVars, registryVars, tenancyVars>>

(* The changes to what the notices are about; who may have the lift's customer. *)
TurnsOf == [t \in Topics |-> IF t \in {"fault", "plan"} THEN 3 ELSE 2]
CoversOf == [t \in Topics |-> IF t = "correction" THEN {} ELSE Technicians]

AskedOf == [a \in Areas |-> 3]

(* A firm with two customers, of which one has a portal account, and a firm    *)
(* with one; a lift in each, and a fault to come.                              *)
FirmOfEach ==
    [x \in {d1, d2, m1, g1} |-> f1] @@ [x \in {d3, m2} |-> f2]
ClientOfEach == g1 :> d1
ResourceOfEach == (p1 :> "elevator") @@ (p2 :> "elevator") @@ (p3 :> "fault")
LiftedInEach == (p1 :> d1) @@ (p2 :> d3)

(* The address whose failures are counted is not the first owner's; a second *)
(* owner or an admin is one who was promoted or invited.                      *)
AccountsStart ==
    /\ AccountsInit
    /\ account[u1].role \in {"owner", "contact"} /\ account[u2].role \in {"technician", "contact"}

(* The other parts rest where they start. *)
AccountsRest == Init /\ account[u1].role = "owner" /\ ~account[u2].exists /\ gone = {} /\ seats = <<>>
NoticesRest == NoticesInit /\ topic = "label" /\ subject.covers = {} /\ subject.date = 1
RegistryRest ==
    RegistryInit /\ area = "parties" /\ record[c1].live /\ named[<<c1, Home>>] = "old"

TenancyRest == TenancyInit /\ \A m \in Members : member[m].role = "admin"

OfficeInit ==
    \/ part = "accounts" /\ AccountsStart /\ NoticesRest /\ RegistryRest /\ TenancyRest
    \/ part = "notices" /\ AccountsRest /\ NoticesInit /\ RegistryRest /\ TenancyRest
    \/ part = "registry" /\ AccountsRest /\ NoticesRest /\ RegistryInit /\ TenancyRest
    \/ part = "tenancy" /\ AccountsRest /\ NoticesRest /\ RegistryRest /\ TenancyInit

OfficeNext ==
    \/ part = "accounts" /\ AccountsNext /\ UNCHANGED <<part, noticesVars, registryVars, tenancyVars>>
    \/ part = "notices" /\ NoticesNext /\ UNCHANGED <<part, accountsVars, registryVars, tenancyVars>>
    \/ part = "registry" /\ RegistryNext /\ UNCHANGED <<part, accountsVars, noticesVars, tenancyVars>>
    \/ part = "tenancy" /\ TenancyNext /\ UNCHANGED <<part, accountsVars, noticesVars, registryVars>>

OfficeSpec == OfficeInit /\ [][OfficeNext]_officeVars

(* Workers, requests, planned visits, clerks and threads are each             *)
(* interchangeable; one pair of values names them all.                        *)
OfficeSymmetry == Permutations({r1, r2})

=============================================================================
