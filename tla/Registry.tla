------------------------------ MODULE Registry ------------------------------
(***************************************************************************)
(* The firm's own records: customers and their contacts, the estate        *)
(* (complexes, buildings, lifts and the labels on them), and the ledger's  *)
(* parties, accounts and tills.                                            *)
(*                                                                         *)
(* One shape of endpoint serves them all (core/viewsets): a request reads  *)
(* the row and validates, and writes later.  An edit writes every column   *)
(* of the row it read; a deletion marks the row; unique keys are the       *)
(* database's, and bind live rows only.  A row that was deleted meanwhile  *)
(* is not found by the write, which fails.                                 *)
(*                                                                         *)
(* A behaviour is about one area; an area's rows are a few, and exist from *)
(* the start or are created.                                               *)
(***************************************************************************)
EXTENDS Integers, FiniteSets

CONSTANTS
    Areas,
    Customers, Persons,               \* customers, and their contacts
    Complexes, Buildings, Lifts,
    Suppliers, Tills,
    Clerks,       \* the requests that may be under way at once
    NoRow,        \* no row, no number
    Numbers,      \* tax numbers, national ids and registration numbers
    Names, Currencies, Home,          \* Home: the currency of every first account
    Tokens,       \* what a label may carry
    MaxAsked      \* bound, by area: requests that change something

RegistryIds == Customers \cup Persons \cup Complexes \cup Buildings \cup Lifts \cup Suppliers \cup Tills

(* No two tables share a row. *)
RecordTables == <<Customers, Persons, Complexes, Buildings, Lifts, Suppliers, Tills>>

ASSUME RegistryAssumption ==
    /\ Home \in Currencies /\ MaxAsked \in [Areas -> Nat]
    /\ NoRow \notin RegistryIds \cup Numbers \cup Tokens
    /\ \A s, t \in DOMAIN RecordTables : s # t => RecordTables[s] \cap RecordTables[t] = {}

VARIABLES
    area,      \* which records this behaviour is about
    record,    \* record[id]: the row
    named,     \* the ledger accounts of parties: <<party, currency>> to the name each carries
    covered,   \* the lifts with an open contract line
    clerk,     \* clerk[k]: what request k has read and is about to write
    asked,     \* requests so far
    doubted,   \* history: rows that two requests were at once about, or whose request was cut
    drawn      \* history: the token each lift was last given

book == <<record, named, covered, drawn>>
registryVars == <<area, book, clerk, asked, doubted>>

NoRecord == [live |-> FALSE]
AtRest == [does |-> "nothing", id |-> NoRow, row |-> NoRecord]

Live(ids) == {i \in ids : record[i].live}
Below(ids, up) == {i \in Live(ids) : record[i].of = up}

-----------------------------------------------------------------------------
(* Requests (TenantViewSet)                                                *)

(* The rows a request is about: its own, and those it hangs from. *)
About(q) ==
    {q.id} \cup (IF "of" \in DOMAIN q.row THEN {q.row.of} ELSE {})
           \cup (IF "within" \in DOMAIN q.row THEN {q.row.within} ELSE {})

(* Of two requests under way at once: a row one is for and the other's about. *)
Clash(q) ==
    UNION {({q.id} \cap About(clerk[k])) \cup ({clerk[k].id} \cap About(q)) :
             k \in {j \in Clerks : clerk[j] # AtRest}}

(* get_object() and the serializer's validation have passed: `row` is what *)
(* the request will write. *)
Asks(k, does, id, row) ==
    LET q == [does |-> does, id |-> id, row |-> row]
    IN  /\ clerk[k] = AtRest /\ asked < MaxAsked[area]
        /\ clerk' = [clerk EXCEPT ![k] = q]
        /\ asked' = asked + 1
        /\ doubted' = doubted \cup Clash(q)
        /\ UNCHANGED <<area, book>>

Doing(k, does) == clerk[k].does = does
Answers(k) == clerk' = [clerk EXCEPT ![k] = AtRest] /\ UNCHANGED <<area, asked, doubted>>

(* Refused by a unique key that two raced for, or the process was killed. *)
AskFails(k) ==
    /\ clerk[k] # AtRest
    /\ clerk' = [clerk EXCEPT ![k] = AtRest]
    /\ doubted' = IF Doing(k, "rename") THEN doubted \cup {clerk[k].id} ELSE doubted
    /\ UNCHANGED <<area, book, asked>>

(* An insert's row is new; an edit's must still be live. *)
Finds(k) == Doing(k, "insert") \/ (Doing(k, "save") /\ record[clerk[k].id].live)

(* An id no row has, and no insert under way. *)
New(id) == record[id] = NoRecord /\ id \notin {clerk[k].id : k \in Clerks}

(* What a PATCH carries: the fields that change.  Bound: two at a time. *)
Carried(row, before) == {f \in DOMAIN row : row[f] # before[f]}
Edits(rows, before) == {row \in rows : Cardinality(Carried(row, before)) \in 1..2}

-----------------------------------------------------------------------------
(* Customers                                                               *)

CustomerRows ==
    [live : {TRUE}, kind : {"individual", "organisation"}, tax : Numbers \cup {NoRow},
     national : Numbers \cup {NoRow}, name : Names]

(* _check_type_rules: what the kind forbids, and what it requires of a     *)
(* request that creates, touches it or changes the kind.                   *)
TypeRules(row) ==
    IF row.kind = "individual" THEN row.tax = NoRow ELSE row.national = NoRow

IdentifierGiven(row, carried) ==
    row.kind = "individual" /\ carried \cap {"national", "kind"} # {} => row.national # NoRow

(* uq_customer_tax_number_active, uq_customer_national_id_active; the      *)
(* serializer asks the same first.                                         *)
NumbersFree(id, row) ==
    \A c \in Live(Customers) \ {id} :
      /\ row.tax # NoRow => record[c].tax # row.tax
      /\ row.national # NoRow => record[c].national # row.national

CreateCustomer(k) ==
    \E c \in Customers, row \in CustomerRows :
      /\ New(c)
      /\ TypeRules(row) /\ IdentifierGiven(row, DOMAIN row) /\ NumbersFree(c, row)
      /\ Asks(k, "insert", c, row)

EditCustomer(k) ==
    \E c \in Live(Customers) :
      \E row \in Edits(CustomerRows, record[c]) :
        /\ TypeRules(row) /\ IdentifierGiven(row, Carried(row, record[c])) /\ NumbersFree(c, row)
        /\ Asks(k, "save", c, row)

(* The row commits; its receiver runs after. *)
SaveCustomer(k) ==
    LET q == clerk[k] IN
    /\ Finds(k) /\ q.id \in Customers
    /\ NumbersFree(q.id, q.row)
    /\ record' = [record EXCEPT ![q.id] = q.row]
    /\ clerk' = [clerk EXCEPT ![k].does = "rename"]
    /\ UNCHANGED <<area, asked, doubted, named, covered, drawn>>

(* The accounts, these among them, with a party's name. *)
Named(accounts, name) ==
    [a \in DOMAIN named \cup accounts |-> IF a \in accounts THEN name ELSE named[a]]

(* keep_customer_account: its first account, and on an edit every account  *)
(* takes its name.                                                         *)
KeepCustomerAccount(k) ==
    LET q == clerk[k]
        theirs == {a \in DOMAIN named : a[1] = q.id}
    IN  /\ Doing(k, "rename")
        /\ named' = Named(theirs \cup {<<q.id, Home>>}, q.row.name)
        /\ Answers(k)
        /\ UNCHANGED <<record, covered, drawn>>

(* account_for_customer, as an invoice in another currency asks for it: of *)
(* two that ask at once one inserts, and both have it.                     *)
InvoiceAsks(k) ==
    \E c \in Live(Customers) : area = "customers" /\ Asks(k, "account", c, [name |-> record[c].name])

AccountForCustomer(k) ==
    /\ Doing(k, "account")
    /\ \E currency \in Currencies :
         named' = Named({<<clerk[k].id, currency>>} \ DOMAIN named, clerk[k].row.name)
    /\ Answers(k)
    /\ UNCHANGED <<record, covered, drawn>>

-----------------------------------------------------------------------------
(* Contacts                                                                *)

ContactRows(customers) ==
    [live : {TRUE}, of : customers, mail : BOOLEAN, ticked : BOOLEAN, primary : BOOLEAN]

(* CustomerContactWriteSerializer.validate: clearing the address unticks,  *)
(* unless the same body says otherwise; a tick needs an address.           *)
Unticks(row, carried) ==
    IF "mail" \in carried /\ ~row.mail /\ "ticked" \notin carried
    THEN [row EXCEPT !.ticked = FALSE] ELSE row

Mailable(row) == row.ticked => row.mail

(* An edit is written with the row it was read from at hand; what is *)
(* written are the contact's own fields. *)
Amended(row, was) ==
    [live |-> row.live, of |-> row.of, mail |-> row.mail, ticked |-> row.ticked,
     primary |-> row.primary, was |-> was]
ContactFields(row) ==
    [live |-> row.live, of |-> row.of, mail |-> row.mail, ticked |-> row.ticked,
     primary |-> row.primary]

CreateContact(k) ==
    \E p \in Persons, row \in ContactRows(Live(Customers)) :
      /\ New(p) /\ Mailable(row)
      /\ Asks(k, "insert", p, row)

EditContact(k) ==
    \E p \in Live(Persons) :
      \E edited \in Edits(ContactRows(Live(Customers) \cup {record[p].of}), record[p]) :
        LET row == Unticks(edited, Carried(edited, record[p]))
        IN  /\ Mailable(row)
            /\ Asks(k, "save", p, Amended(row, record[p]))

(* demote_other_primaries: before an insert, or an edit that promotes; of  *)
(* the customer the contact was read with. *)
Demoted(q) ==
    LET promotes == q.row.primary /\ (q.does = "insert" \/ ~q.row.was.primary)
        at == IF q.does = "insert" THEN q.row.of ELSE q.row.was.of
    IN  {p \in Below(Persons, at) \ {q.id} : promotes /\ record[p].primary}

(* uq_customer_primary_contact *)
PrimaryFree(q) ==
    q.row.primary => \A p \in Below(Persons, q.row.of) \ ({q.id} \cup Demoted(q)) : ~record[p].primary

SaveContact(k) ==
    LET q == clerk[k]
        demoted == Demoted(q)
    IN  /\ Finds(k) /\ q.id \in Persons
        /\ PrimaryFree(q)
        /\ record' = [i \in DOMAIN record |->
                        CASE i = q.id -> ContactFields(q.row)
                          [] i \in demoted -> [record[i] EXCEPT !.primary = FALSE]
                          [] OTHER -> record[i]]
        /\ Answers(k)
        /\ UNCHANGED <<named, covered, drawn>>

-----------------------------------------------------------------------------
(* Complexes, buildings, lifts                                             *)

CreateComplex(k) ==
    \E x \in Complexes, c \in Live(Customers) :
      New(x) /\ Asks(k, "insert", x, [live |-> TRUE, of |-> c])

EditComplex(k) ==
    \E x \in Live(Complexes), c \in Live(Customers) :
      Asks(k, "save", x, [record[x] EXCEPT !.of = c])

(* BuildingWriteSerializer.validate: a complex belongs to one customer. *)
OneCustomer(row) == row.within # NoRow => record[row.within].of = row.of

BuildingForms ==
    {row \in [live : {TRUE}, of : Live(Customers), within : Live(Complexes) \cup {NoRow}] :
       OneCustomer(row)}

CreateBuilding(k) ==
    \E b \in Buildings, row \in BuildingForms :
      New(b) /\ Asks(k, "insert", b, row)

(* Moved; or some other field of it edited. *)
EditBuilding(k) ==
    \E b \in Live(Buildings) :
      \E row \in BuildingForms \cup {r \in {record[b]} : OneCustomer(r)} : Asks(k, "save", b, row)

(* uq_elevator_registration_number_active *)
RegistrationFree(id, row) ==
    row.number # NoRow => \A l \in Live(Lifts) \ {id} : record[l].number # row.number

(* qr_token is unique, deleted lifts included. *)
TokenFree(t, id) == \A l \in Lifts \ {id} : record[l] # NoRecord => record[l].token # t

CreateLift(k) ==
    \E l \in Lifts, b \in Live(Buildings), n \in Numbers \cup {NoRow} :
      LET row == [live |-> TRUE, of |-> b, number |-> n, token |-> NoRow]
      IN  /\ New(l) /\ RegistrationFree(l, row)
          /\ Asks(k, "insert", l, row)

EditLift(k) ==
    \E l \in Live(Lifts), b \in Live(Buildings), n \in Numbers \cup {NoRow} :
      LET row == [record[l] EXCEPT !.of = b, !.number = n]
      IN  /\ RegistrationFree(l, row)
          /\ Asks(k, "save", l, row)

(* A complex or a building written; a lift edited, its token as it was     *)
(* read.                                                                   *)
SaveEstate(k) ==
    LET q == clerk[k] IN
    /\ Finds(k) /\ q.id \in Complexes \cup Buildings \cup Lifts
    /\ q.id \in Lifts => Doing(k, "save") /\ RegistrationFree(q.id, q.row) /\ TokenFree(q.row.token, q.id)
    /\ record' = [record EXCEPT ![q.id] = q.row]
    /\ Answers(k)
    /\ UNCHANGED <<named, covered, drawn>>

(* save_with_qr_token: a token the index takes, drawn three times at most; *)
(* drawing none of them fails, as any other duplicate does at once.        *)
GiveToken(l, row) ==
    \E t \in Tokens :
      /\ TokenFree(t, l)
      /\ record' = [record EXCEPT ![l] = [row EXCEPT !.token = t]]
      /\ drawn' = [drawn EXCEPT ![l] = t]

InsertLift(k) ==
    LET q == clerk[k] IN
    /\ Doing(k, "insert") /\ q.id \in Lifts
    /\ RegistrationFree(q.id, q.row)
    /\ GiveToken(q.id, q.row)
    /\ Answers(k)
    /\ UNCHANGED <<named, covered>>

(* regenerate_qr_token: the token alone is written. *)
RegenerateQr(k) == \E l \in Live(Lifts) : Asks(k, "label", l, [of |-> l])

RegenerateQrToken(k) ==
    /\ Doing(k, "label") /\ record[clerk[k].id].live
    /\ GiveToken(clerk[k].id, record[clerk[k].id])
    /\ Answers(k)
    /\ UNCHANGED <<named, covered>>

(* by_qr: what a scan of a label finds. *)
ByQr(t) == {l \in Live(Lifts) : record[l].token = t}

(* A contract takes on a lift it found live, or lets go of one. *)
ContractAsks(k) == \E l \in Live(Lifts) : Asks(k, "cover", l, [of |-> l])

Covered(k) ==
    /\ Doing(k, "cover")
    /\ covered' = IF clerk[k].id \in covered THEN covered \ {clerk[k].id} ELSE covered \cup {clerk[k].id}
    /\ Answers(k)
    /\ UNCHANGED <<record, named, drawn>>

-----------------------------------------------------------------------------
(* Deletions                                                               *)

(* Mutated: a building's lifts do not keep it. *)
InUse_Mutation(id) ==
    \/ id \in Customers /\ Below(Buildings, id) # {}
    \/ id \in Complexes /\ \E b \in Live(Buildings) : record[b].within = id
    \/ id \in Lifts /\ id \in covered

(* perform_destroy: what keeps a row; a customer's contracts, which keep   *)
(* it too, are Contracts'. *)
InUse(id) ==
    \/ id \in Customers /\ Below(Buildings, id) # {}
    \/ id \in Complexes /\ \E b \in Live(Buildings) : record[b].within = id
    \/ id \in Buildings /\ Below(Lifts, id) # {}
    \/ id \in Lifts /\ id \in covered

Destroy(k) ==
    \E id \in Live(Customers \cup Persons \cup Complexes \cup Buildings \cup Lifts) :
      ~InUse(id) /\ Asks(k, "delete", id, [name |-> id])

(* SoftDeleteModel.delete *)
Delete(k) ==
    LET id == clerk[k].id IN
    /\ Doing(k, "delete") /\ record[id].live
    /\ record' = [record EXCEPT ![id].live = FALSE]
    /\ Answers(k)
    /\ UNCHANGED <<named, covered, drawn>>

-----------------------------------------------------------------------------
(* Suppliers, accounts and tills                                           *)

CreateSupplier(k) ==
    \E s \in Suppliers, n \in Names :
      New(s) /\ Asks(k, "supply", s, [live |-> TRUE, name |-> n])

EditSupplier(k) ==
    \E s \in Live(Suppliers), n \in Names : Asks(k, "supply", s, [record[s] EXCEPT !.name = n])

(* create_supplier: with its account or not at all; update_supplier: its   *)
(* accounts follow in the same transaction.                                *)
SaveSupplier(k) ==
    LET q == clerk[k]
        theirs == {a \in DOMAIN named : a[1] = q.id} \cup
                  (IF record[q.id] = NoRecord THEN {<<q.id, Home>>} ELSE {})
    IN  /\ Doing(k, "supply")
        /\ record' = [record EXCEPT ![q.id] = q.row]
        /\ named' = Named(theirs, q.row.name)
        /\ Answers(k)
        /\ UNCHANGED <<covered, drawn>>

(* open_account: a party, of the kind it names, with none in the currency. *)
OpenAccount(k) ==
    \E s \in Live(Suppliers), currency \in Currencies :
      /\ <<s, currency>> \notin DOMAIN named
      /\ Asks(k, "open", s, [name |-> record[s].name, currency |-> currency])

AccountOpened(k) ==
    LET q == clerk[k] IN
    /\ Doing(k, "open")
    /\ <<q.id, q.row.currency>> \notin DOMAIN named
    /\ named' = Named({<<q.id, q.row.currency>>}, q.row.name)
    /\ Answers(k)
    /\ UNCHANGED <<record, covered, drawn>>

(* A till the firm makes; the default one comes with the firm. *)
CreateTill(k) ==
    \E t \in Tills, currency \in Currencies :
      /\ New(t)
      /\ Asks(k, "till", t, [live |-> TRUE, role |-> FALSE, active |-> TRUE,
                             currency |-> currency, used |-> NoRow])

(* CashAccountWriteSerializer: the currency is fixed once a movement has   *)
(* used it, and a till with a role stays active.                           *)
EditTill(k) ==
    \E t \in Live(Tills), currency \in Currencies, active \in BOOLEAN :
      /\ currency # record[t].currency => record[t].used = NoRow
      /\ record[t].role => active
      /\ Asks(k, "till", t, [record[t] EXCEPT !.currency = currency, !.active = active])

(* A till's first movement is in its currency: a row of another table,     *)
(* which no edit of the till writes.                                       *)
SaveTill(k) ==
    LET q == clerk[k]
        used == IF record[q.id] = NoRecord THEN NoRow ELSE record[q.id].used
    IN  /\ Doing(k, "till")
        /\ record' = [record EXCEPT ![q.id] = [q.row EXCEPT !.used = used]]
        /\ Answers(k)
        /\ UNCHANGED <<named, covered, drawn>>

PostInto(k) == \E t \in Live(Tills) : Asks(k, "post", t, [of |-> t])

Posted(k) ==
    LET t == clerk[k].id IN
    /\ Doing(k, "post")
    /\ record' = [record EXCEPT ![t].used = IF @ = NoRow THEN record[t].currency ELSE @]
    /\ Answers(k)
    /\ UNCHANGED <<named, covered, drawn>>

-----------------------------------------------------------------------------
(* A customer as it may stand today: complete, or a person's record from   *)
(* before the national id was asked for.                                   *)
OldCustomer(name) ==
    [live |-> TRUE, kind |-> "individual", tax |-> NoRow, national |-> NoRow, name |-> name]

RegistryInit ==
    /\ area \in Areas
    /\ \E c \in Customers, x \in Complexes, b \in Buildings, t \in Tills, n \in Names :
         /\ record = [i \in RegistryIds |->
              CASE i = c -> OldCustomer(n)
                [] i \in Customers \ {c} /\ area = "estate" -> OldCustomer(n)
                [] i = x /\ area = "estate" -> [live |-> TRUE, of |-> c]
                [] i = b /\ area = "estate" -> [live |-> TRUE, of |-> c, within |-> x]
                [] i = t -> [live |-> TRUE, role |-> TRUE, active |-> TRUE, currency |-> Home,
                             used |-> NoRow]
                [] OTHER -> NoRecord]
         /\ named = [a \in {<<d, Home>> : d \in {d \in Customers : record[d].live}} |-> n]
    /\ covered = {} /\ drawn = [l \in Lifts |-> NoRow]
    /\ clerk = [k \in Clerks |-> AtRest] /\ asked = 0 /\ doubted = {}

RegistryNext ==
    \E k \in Clerks :
      \/ /\ area = "customers"
         /\ CreateCustomer(k) \/ EditCustomer(k) \/ InvoiceAsks(k)
      \/ /\ area = "contacts"
         /\ CreateContact(k) \/ EditContact(k)
      \/ /\ area \in {"customers", "contacts", "estate"}
         /\ Destroy(k)
      \/ /\ area = "estate"
         /\ \/ CreateComplex(k) \/ EditComplex(k) \/ CreateBuilding(k) \/ EditBuilding(k)
            \/ CreateLift(k) \/ EditLift(k) \/ RegenerateQr(k) \/ ContractAsks(k)
      \/ /\ area = "parties"
         /\ CreateSupplier(k) \/ EditSupplier(k) \/ OpenAccount(k)
              \/ CreateTill(k) \/ EditTill(k) \/ PostInto(k)
      \/ SaveCustomer(k) \/ KeepCustomerAccount(k) \/ AccountForCustomer(k) \/ SaveContact(k)
      \/ SaveEstate(k) \/ InsertLift(k) \/ RegenerateQrToken(k) \/ Covered(k) \/ Delete(k)
      \/ SaveSupplier(k) \/ AccountOpened(k) \/ SaveTill(k) \/ Posted(k)
      \/ AskFails(k)

RegistrySpec == RegistryInit /\ [][RegistryNext]_registryVars

-----------------------------------------------------------------------------
(* Properties                                                              *)

(* A live row hangs from live rows, and a lift under contract is there,    *)
(* unless the deletion and the other write overlapped.                     *)
NothingHangsLoose ==
    /\ \A b \in Live(Buildings) :
         /\ record[b].of \in Live(Customers) \cup doubted
         /\ record[b].within \in Live(Complexes) \cup doubted \cup {NoRow}
    /\ \A l \in Live(Lifts) : record[l].of \in Live(Buildings) \cup doubted
    /\ covered \subseteq Live(Lifts) \cup doubted

(* However edits overlap: an identity is one customer's and of its kind, a *)
(* contact who gets the report has an address, a customer has one primary  *)
(* contact.                                                                *)
IdentitiesHold ==
    /\ \A c \in Live(Customers) : TypeRules(record[c]) /\ NumbersFree(c, record[c])
    /\ \A p \in Live(Persons) :
         /\ Mailable(record[p])
         /\ record[p].primary =>
              \A q \in Below(Persons, record[p].of) \ {p} : ~record[q].primary

(* Every customer has an account in the firm's currency, and a party's     *)
(* accounts carry its name, once its requests are answered and unless two  *)
(* of them overlapped; a supplier's always do, but for one just opened.    *)
AccountsFollow ==
    LET settled == {i \in RegistryIds \ doubted : \A k \in Clerks : clerk[k].id # i}
    IN  /\ \A c \in Live(Customers) \cap settled : <<c, Home>> \in DOMAIN named
        /\ \A s \in Live(Suppliers) : <<s, Home>> \in DOMAIN named
        /\ \A a \in DOMAIN named : a[1] \in settled => named[a] = record[a[1]].name
        /\ \A t \in Live(Tills) \ doubted : record[t].used \in {NoRow, record[t].currency}

(* A label finds the lift it was printed for, and only the newest does,    *)
(* unless an edit overlapped its replacement.                              *)
LabelsFind ==
    /\ \A t \in Tokens : Cardinality(ByQr(t)) <= 1
    /\ \A l \in Live(Lifts) \ doubted : record[l].token = drawn[l]

(* An identifier once given is not lost, and a building is not put under   *)
(* another customer's complex, but by requests that overlapped.            *)
WritesAreSound ==
    /\ \A c \in Live(Customers) \ doubted :
         record'[c].live /\ record[c].kind = "individual" /\ record[c].national # NoRow
           => record'[c].kind # "individual" \/ record'[c].national # NoRow
    /\ \A b \in Buildings :
         record'[b] # record[b] /\ record'[b].live /\ record'[b].within \notin doubted \cup {NoRow}
           => record[record'[b].within].of = record'[b].of

(* The firm's records hang together: what TenantViewSet's handlers,        *)
(* serializers, receivers and unique keys keep between them.               *)
RecordsHold ==
    /\ [](NothingHangsLoose /\ IdentitiesHold /\ AccountsFollow /\ LabelsFind)
    /\ [][WritesAreSound]_registryVars

=============================================================================
