------------------------------ MODULE Tenancy ------------------------------
(***************************************************************************)
(* Whose records a piece of work may read and write, and what the audit    *)
(* trail tells of it (core/context, managers, permissions, viewsets,       *)
(* audit).                                                                 *)
(*                                                                         *)
(* A thread serves one request or job after another.  What firm it works   *)
(* for is bound in nested blocks, each undone however the block ends:      *)
(* staff requests by the token's claim, portal requests and stickers once  *)
(* the account or the lift is known, jobs and one-time links not at all    *)
(* (the system context).  A role is read with the user, a technician's     *)
(* customers after it, and the rows after that, so that any of them may    *)
(* have changed by the time a row is written.                              *)
(***************************************************************************)
EXTENDS Integers, Sequences, FiniteSets

CONSTANTS
    Firms, Clients,     \* the firms, and their customers
    Members, Guests,    \* staff users, and customers' portal accounts
    FirmOf, ClientOf,   \* the firm of a client, a member, a guest; the client of a guest
    Papers, ResourceOf, \* company-owned rows, and what each is
    Lifted,             \* the lifts there are at the start, and whose
    Notes,              \* what a row may say
    Posts,              \* the roles members are given
    Asked,              \* bound: the resources requests are about
    Threads,
    NoFirm,             \* no firm, no person, no client
    MaxCame             \* bound: requests and jobs begun, and changes to the team

ASSUME TenancyAssumption ==
    /\ FirmOf \in [Clients \cup Members \cup Guests -> Firms]
    /\ ClientOf \in [Guests -> Clients] /\ \A g \in Guests : FirmOf[ClientOf[g]] = FirmOf[g]
    /\ DOMAIN Lifted \subseteq Papers /\ \A p \in DOMAIN Lifted : ResourceOf[p] = "elevator" /\ Lifted[p] \in Clients
    /\ NoFirm \notin Firms \cup Members /\ Members \cap Guests = {}
    /\ Notes # {} /\ MaxCame \in Nat

VARIABLES
    member,    \* member[m]: the user's role, and whether they are active
    charge,    \* charge[m]: the clients assigned to m
    paper,     \* paper[p]: the row
    trail,     \* trail[p]: the entries filed on p, laid over each other
    thread,    \* thread[w]: what w is doing, and its contexts, innermost last
    came,      \* requests, jobs and changes to the team so far
    blurred,   \* history: rows saved from a stale read, or whose entries crossed or were lost
    shifted    \* history: members changed while a request of theirs was under way

team == <<member, charge, shifted>>
tenancyVars == <<team, paper, trail, thread, came, blurred>>

NoPaper == [live |-> FALSE]

(* A record laid over another. *)
Over(new, old) ==
    [f \in DOMAIN new \cup DOMAIN old |-> IF f \in DOMAIN new THEN new[f] ELSE old[f]]

-----------------------------------------------------------------------------
(* Contexts                                                                *)

Unbound == [company |-> NoFirm, system |-> FALSE]
Innermost(scope) == scope[Len(scope)]

(* company_context: the system flag of a block around it stays. *)
CompanyContext(scope, firm) == Append(scope, [Innermost(scope) EXCEPT !.company = firm])
SystemContext(scope) == Append(scope, [company |-> NoFirm, system |-> TRUE])

Resting == [step |-> "rests", scope |-> <<Unbound>>]
Scope(w) == Innermost(thread[w].scope)

(* TenantManager: the firm's rows; none without a firm, all in the system  *)
(* context; never a deleted one. *)
Visible(w) ==
    {p \in Papers : paper[p].live /\ (Scope(w).system \/ paper[p].firm = Scope(w).company)}

(* CompanyOwnedModel.save *)
MaySave(w, row) == Scope(w).system \/ Scope(w).company \in {NoFirm, row.firm}

-----------------------------------------------------------------------------
(* Permissions                                                             *)

Admins == {"owner", "admin"}
Dispatch == Admins \cup {"operations"}
Crew == Dispatch \cup {"technician"}
Accounts == Admins \cup {"accountant"}
Everyone == Crew \cup {"accountant"}
Books == {"owner", "accountant"}

Grants(read, write) == [read |-> read, write |-> write]

MATRIX ==
    [company |-> Grants(Everyone, {"owner"}),      user |-> Grants(Admins, Admins),
     user_deactivation |-> Grants({}, {"owner"}),  invitation |-> Grants(Admins, Admins),
     customer |-> Grants(Everyone, Dispatch),      building |-> Grants(Crew, Dispatch),
     complex |-> Grants(Dispatch, Dispatch),       elevator |-> Grants(Crew, Dispatch),
     contract |-> Grants(Dispatch \cup Accounts, Dispatch),
     contract_financials |-> Grants(Accounts, Accounts),
     qr_label |-> Grants(Crew, Crew),              audit_log |-> Grants(Admins, {}),
     attachment |-> Grants(Crew, Dispatch),
     maintenance_visit |-> Grants(Crew, Crew),     maintenance_visit_edit |-> Grants({}, Admins),
     fault |-> Grants(Crew, Crew),                 fault_office |-> Grants({}, Dispatch),
     inspection |-> Grants(Crew, Dispatch),        portal_access |-> Grants(Dispatch, Dispatch),
     invoice |-> Grants(Accounts, Accounts),
     customer_report |-> Grants(Dispatch \cup Accounts, Dispatch),
     customer_report_regenerate |-> Grants({}, Admins),
     planned_visit |-> Grants(Crew, Dispatch),     ledger |-> Grants(Accounts, {}),
     ledger_document |-> Grants(Accounts, Accounts \cup {"operations"}),
     ledger_picker |-> Grants(Accounts \cup {"operations"}, {}),
     ledger_statement_send |-> Grants({}, Accounts), ledger_admin |-> Grants(Books, Books)]

May(role, resource, action) == role \in MATRIX[resource][action]

Action(does) == IF does = "list" THEN "read" ELSE "write"

(* resource_by_action: a visit recorded is the crew's, corrected the office's. *)
Resource(what, does) ==
    IF what = "maintenance_visit" /\ does \in {"edit", "delete"} THEN "maintenance_visit_edit" ELSE what

(* http_method_names: the records a DELETE is served for. *)
Deletable ==
    {"customer", "complex", "building", "elevator", "contract", "maintenance_visit", "attachment",
     "invoice"}

-----------------------------------------------------------------------------
(* A request or a job begins                                               *)

Then(w, t) == thread' = [thread EXCEPT ![w] = t]
Goes(w, new) == Then(w, Over(new, thread[w]))
Calm == UNCHANGED <<team, paper, trail, blurred>>

(* CompanyContextMiddleware: the firm of a staff token, on every endpoint; *)
(* a portal token names none. *)
Arrives(w) ==
    \E to \in {"staff", "portal", "sticker", "link"}, who \in Members \cup Guests \cup {NoFirm} :
      /\ thread[w] = Resting /\ came < MaxCame
      /\ Then(w, [step |-> "arrived", to |-> to, who |-> who,
                      scope |-> CompanyContext(<<Unbound>>, IF who \in Members THEN FirmOf[who]
                                                            ELSE NoFirm)])
      /\ came' = came + 1 /\ Calm

(* Who the audit trail names. *)
Actor(t) == IF t.who \in Members THEN t.who ELSE NoFirm

(* authenticated_company_id: a firm is never named by the request. *)
OwnFirm(who) == FirmOf[who]

(* The staff authentication refuses portal tokens and who was deactivated; *)
(* RolePermission asks the role just read with the user. *)
StaffLetIn(w) ==
    LET t == thread[w] IN
    /\ t.step = "arrived" /\ t.to = "staff" /\ t.who \in Members
    /\ member[t.who].active
    /\ \E does \in {"list", "create", "edit", "delete"}, what \in Asked :
         /\ does = "delete" => what \in Deletable
         /\ May(member[t.who].role, Resource(what, does), Action(does))
         /\ Goes(w, [step |-> "let in", does |-> does, what |-> what,
                      role |-> member[t.who].role, firm |-> OwnFirm(t.who)])
    /\ Calm /\ UNCHANGED came

(* get_queryset: a technician's rows are those of the clients assigned,    *)
(* read now. *)
Narrows(w) ==
    LET t == thread[w] IN
    /\ t.step = "let in"
    /\ Goes(w, [reach |-> IF t.role = "technician" THEN charge[t.who] ELSE Clients,
                    step |-> "reaches"])
    /\ Calm /\ UNCHANGED came

(* PortalContextMixin.initial, PortalViewSet.get_queryset: an account      *)
(* reads its customer's rows and reports faults. *)
GuestLetIn(w) ==
    LET t == thread[w] IN
    /\ t.step = "arrived" /\ t.to = "portal" /\ t.who \in Guests
    /\ \E does \in {"list", "create"} :
         Goes(w, [step |-> "reaches", scope |-> CompanyContext(t.scope, FirmOf[t.who]),
                      does |-> does, what |-> IF does = "create" THEN "fault" ELSE "elevator",
                      firm |-> OwnFirm(t.who), reach |-> {ClientOf[t.who]}])
    /\ Calm /\ UNCHANGED came

(* A sticker's report: the lift is found across firms, the work is done in *)
(* its firm. *)
StickerScanned(w) ==
    LET t == thread[w] IN
    /\ t.step = "arrived" /\ t.to = "sticker"
    /\ \E p \in Papers :
         /\ paper[p].live /\ ResourceOf[p] = "elevator"
         /\ Goes(w, [step |-> "reaches", scope |-> CompanyContext(t.scope, paper[p].firm),
                         does |-> "create", what |-> "fault", firm |-> paper[p].firm,
                         reach |-> {paper[p].of}])
    /\ Calm /\ UNCHANGED came

(* A one-time link is looked up, and spent, in the system context. *)
LinkOpened(w) ==
    LET t == thread[w] IN
    /\ t.step = "arrived" /\ t.to = "link"
    /\ Goes(w, [step |-> "reaches", scope |-> SystemContext(t.scope), does |-> "edit",
                    what |-> "fault", firm |-> NoFirm, reach |-> Clients])
    /\ Calm /\ UNCHANGED came

(* A daily job works across the firms, or (carry_over_invoices) finds the  *)
(* rows across them and works on each in its own. *)
JobStarts(w) ==
    /\ thread[w] = Resting /\ came < MaxCame
    /\ \E does \in {"edit", "delete"}, p \in Papers, each \in BOOLEAN :
         /\ paper[p].live
         /\ Then(w, [step |-> "reaches", to |-> "job", who |-> NoFirm, does |-> does,
                         what |-> ResourceOf[p], firm |-> paper[p].firm, reach |-> Clients,
                         scope |-> IF each THEN CompanyContext(<<Unbound>>, paper[p].firm)
                                   ELSE SystemContext(<<Unbound>>)])
    /\ came' = came + 1 /\ Calm

-----------------------------------------------------------------------------
(* Rows read and written                                                   *)

Reached(w) ==
    {p \in Visible(w) : ResourceOf[p] = thread[w].what /\ paper[p].of \in thread[w].reach}

(* The list; of the audit trail, the firm's entries, by hand. *)
Lists(w) ==
    LET t == thread[w] IN
    /\ t.step = "reaches" /\ t.does = "list"
    /\ Goes(w, [step |-> "answers",
                    saw |-> IF t.what = "audit_log"
                            THEN {p \in Papers : trail[p].live /\ trail[p].firm = Scope(w).company}
                            ELSE Reached(w)])
    /\ Calm /\ UNCHANGED came

(* A foreign key is picked among the rows the manager shows. *)
Pickable(w) ==
    {c \in thread[w].reach : Scope(w).system \/ FirmOf[c] = Scope(w).company}

WillWrite(w, p, row) ==
    /\ Goes(w, [step |-> "writes", id |-> p, read |-> paper[p], row |-> row])
    /\ Calm /\ UNCHANGED came

(* perform_create: the firm is the user's own. *)
Creates(w) ==
    LET t == thread[w] IN
    /\ t.step = "reaches" /\ t.does = "create"
    /\ \E p \in Papers, c \in Pickable(w), n \in Notes :
         /\ paper[p] = NoPaper /\ ResourceOf[p] = t.what
         /\ WillWrite(w, p, [live |-> TRUE, firm |-> t.firm, of |-> c, note |-> n])

(* get_object, and the edit validated; a job or a link changes no key. *)
Takes(w) ==
    LET t == thread[w] IN
    /\ t.step = "reaches" /\ t.does = "edit"
    /\ \E p \in Reached(w), n \in Notes :
         \E c \in {paper[p].of} \cup (IF t.to = "staff" THEN Pickable(w) ELSE {}) :
           WillWrite(w, p, [paper[p] EXCEPT !.of = c, !.note = n])

TakesAway(w) ==
    LET t == thread[w] IN
    /\ t.step = "reaches" /\ t.does = "delete"
    /\ \E p \in Reached(w) : WillWrite(w, p, [paper[p] EXCEPT !.live = FALSE])

(* The row is committed: every column of an edit, the mark of a deletion.  *)
Saves(w) ==
    LET t == thread[w]
        stale == t.does = "edit" /\ t.read # paper[t.id]
        crossed == \E v \in Threads \ {w} : thread[v].step = "saved" /\ thread[v].id = t.id
    IN  /\ t.step = "writes"
        /\ MaySave(w, t.row)
        /\ IF t.does = "create" THEN paper[t.id] = NoPaper ELSE t.id \in Visible(w)
        /\ paper' = IF t.does = "delete" THEN [paper EXCEPT ![t.id].live = FALSE]
                    ELSE [paper EXCEPT ![t.id] = t.row]
        /\ blurred' = IF stale \/ crossed THEN blurred \cup {t.id} ELSE blurred
        /\ Goes(w, [step |-> "saved"])
        /\ UNCHANGED <<team, trail, came>>

(* on_save, in a transaction of its own: what moved since the row was      *)
(* read, and who the context names. *)
Files(w) ==
    LET t == thread[w]
        moved == {f \in DOMAIN t.row : t.does = "create" \/ t.row[f] # t.read[f]}
        told == Over([f \in moved |-> t.row[f]], trail[t.id].told)
    IN  /\ t.step = "saved"
        /\ trail' = IF moved = {} THEN trail
                    ELSE [trail EXCEPT ![t.id] = [live |-> TRUE, firm |-> t.row.firm, told |-> told,
                                                  by |-> Actor(t), through |-> t.to]]
        /\ Goes(w, [step |-> "answers", saw |-> {}])
        /\ UNCHANGED <<team, paper, came, blurred>>

(* Mutated: only an answer leaves the blocks a request entered. *)
Unwound_Mutation(t) == IF t.step = "answers" THEN Resting ELSE [Resting EXCEPT !.scope = t.scope]

(* Every block is left, innermost first. *)
Unwound(t) == [Resting EXCEPT !.scope = <<t.scope[1]>>]

(* Answered; refused or failed at any step; or the process is killed and a *)
(* new one takes its place.  A row saved stays saved. *)
EndsWork(w) ==
    LET t == thread[w] IN
    /\ t # Resting
    /\ Then(w, Unwound(t))
    /\ blurred' = IF t.step = "saved" THEN blurred \cup {t.id} ELSE blurred
    /\ UNCHANGED <<team, paper, trail, came>>

-----------------------------------------------------------------------------
(* The team changes (Team): a role, a deactivation, an assignment.         *)
TeamChanges ==
    \E m \in Members :
      /\ came < MaxCame /\ came' = came + 1
      /\ \/ /\ \E role \in Posts : member' = [member EXCEPT ![m].role = role]
            /\ UNCHANGED charge
         \/ /\ member' = [member EXCEPT ![m].active = ~@]
            /\ UNCHANGED charge
         \/ /\ \E c \in {c \in Clients : FirmOf[c] = FirmOf[m]} :
                 charge' = [charge EXCEPT ![m] = IF c \in @ THEN @ \ {c} ELSE @ \cup {c}]
            /\ UNCHANGED member
      /\ shifted' = IF \E w \in Threads : thread[w].step # "rests" /\ thread[w].who = m
                    THEN shifted \cup {m} ELSE shifted
      /\ UNCHANGED <<paper, trail, thread, blurred>>

FirstEntry(row) ==
    [live |-> row.live, firm |-> IF row.live THEN row.firm ELSE NoFirm, told |-> row,
     by |-> NoFirm, through |-> "job"]

(* The lifts there are, told as they are. *)
TenancyInit ==
    /\ member \in [Members -> [role : Posts, active : {TRUE}]]
    /\ charge = [m \in Members |-> {c \in Clients : FirmOf[c] = FirmOf[m]}]
    /\ paper = [p \in Papers |->
         IF p \in DOMAIN Lifted
         THEN [live |-> TRUE, firm |-> FirmOf[Lifted[p]], of |-> Lifted[p], note |-> CHOOSE n \in Notes : TRUE]
         ELSE NoPaper]
    /\ trail = [p \in Papers |-> FirstEntry(paper[p])]
    /\ thread = [w \in Threads |-> Resting]
    /\ came = 0 /\ blurred = {} /\ shifted = {}

TenancyNext ==
    \/ TeamChanges
    \/ \E w \in Threads :
         \/ Arrives(w) \/ StaffLetIn(w) \/ Narrows(w) \/ GuestLetIn(w) \/ StickerScanned(w)
         \/ LinkOpened(w) \/ JobStarts(w)
         \/ Lists(w) \/ Creates(w) \/ Takes(w) \/ TakesAway(w) \/ Saves(w) \/ Files(w) \/ EndsWork(w)

TenancySpec == TenancyInit /\ [][TenancyNext]_tenancyVars

-----------------------------------------------------------------------------
(* Properties                                                              *)

(* A thread that rests works for no firm, whatever it served before. *)
ThreadsComeBackClean ==
    \A w \in Threads : thread[w].step = "rests" => thread[w] = Resting

(* A row hangs from a client of its own firm, and its entries are that     *)
(* firm's; they name a colleague, or nobody for a job or the portal.  A    *)
(* public endpoint called with a token names the token's user, whoever     *)
(* that is. *)
RowsKeepTheirFirm ==
    \A p \in Papers :
      /\ paper[p].live => FirmOf[paper[p].of] = paper[p].firm
      /\ trail[p].live =>
           /\ trail[p].firm = paper[p].firm
           /\ trail[p].through \in {"portal", "job"} => trail[p].by = NoFirm
           /\ trail[p].through = "staff" => FirmOf[trail[p].by] = trail[p].firm

(* The trail, read through, tells the row as it stands, unless it was      *)
(* saved from a stale read, its entries crossed, or one was lost between   *)
(* the row's commit and its own. *)
TrailTells ==
    \A p \in Papers \ blurred :
      (\A w \in Threads : thread[w].step # "saved" \/ thread[w].id # p)
        => paper[p] \in {NoPaper, trail[p].told}

(* What an answer may show. *)
Theirs(t, p) ==
    /\ paper[p].firm = FirmOf[t.who]
    /\ t.who \in Guests => paper[p].of = ClientOf[t.who]
    /\ t.who \in Members \ shifted =>
         /\ May(member[t.who].role, t.what, "read")
         /\ member[t.who].role = "technician" => paper[p].of \in charge[t.who]

(* What a request may write: a row of its firm, in a role that may. *)
MayWrite(t) ==
    /\ paper'[t.id].firm = FirmOf[t.who]
    /\ paper[t.id].live => paper[t.id].firm = FirmOf[t.who]
    /\ t.who \in Members \ shifted =>
         /\ member[t.who].active /\ May(member[t.who].role, Resource(t.what, t.does), "write")
         /\ member[t.who].role = "technician" => paper'[t.id].of \in charge[t.who]

NobodyOversteps ==
    \A w \in Threads :
      LET t == thread'[w] IN
      /\ t.step = "answers" /\ t # thread[w] => \A p \in t.saw : Theirs(t, p)
      /\ t.step = "saved" /\ t # thread[w] /\ t.to \in {"staff", "portal"} => MayWrite(t)

(* Firms are kept apart, and the trail tells what was done in each. *)
FirmsApart ==
    /\ [](ThreadsComeBackClean /\ RowsKeepTheirFirm /\ TrailTells)
    /\ [][NobodyOversteps]_tenancyVars

=============================================================================
