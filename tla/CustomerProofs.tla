---------------------------- MODULE CustomerProofs ----------------------------
(***************************************************************************)
(* Proofs about what a customer is owed while rows go stale and processes  *)
(* die: the cover of a contract (apps/contracts), for any number of        *)
(* contracts, lifts, days and requests at work, and the monthly report     *)
(* with the files behind it (apps/reports, apps/attachments), for any      *)
(* number of days, contacts, schedulers, uploads, failures and crashes.    *)
(*                                                                         *)
(* Contracts: however stale the rows the requests and the job act on, the  *)
(* lines that were closed stay as they were closed, and a lift is on one   *)
(* contract at most.  What stale PATCHes break (a lift's status, a         *)
(* finished contract's) holds where no PATCH is stale.                     *)
(*                                                                         *)
(* Reports: the invariant has two halves.  Doings is about who works: a    *)
(* day is claimed once, one insert of the month is uncommitted at a time   *)
(* and none once there is a report, so only one run ever mails it, and     *)
(* each mail it has yet to send goes to somebody never mailed before.      *)
(* Stores is about what they leave: the server's keys are fresh, so an     *)
(* object of its own belongs to one row or to one worker; the sweep is at  *)
(* a deleted row, and the report's file is a live one, so nothing removes  *)
(* its object.                                                             *)
(***************************************************************************)
EXTENDS Contracts, Reports, SequenceTheorems, FiniteSetTheorems, TLAPS

(* A row that was fetched is one that existed, and its dates are in order. *)
InOrder(row) == row.status \in Statuses /\ row.start < row.end

Held ==
  /\ \A r \in Request : call[r].on \in Contract =>
       InOrder(call[r].row) /\ contract[call[r].on].status # "none"
  /\ \A o \in overdue : InOrder(o.row) /\ contract[o.id].status # "none"

(* A contract that was never made holds no line; in particular the one a   *)
(* renewal is about to make.                                               *)
Unborn == \A c \in Contract : contract[c].status = "none" => \A l \in Lift : cover[c][l] = <<>>

HistoryInv == TypeOK /\ Held /\ Unborn

(* What a step may do to one lift's lines under one contract.              *)
Keeps(lines, now) ==
  \A k \in DOMAIN lines : lines[k] # Null => k \in DOMAIN now /\ now[k] = lines[k]

(* What every transaction promises of the three tables.                    *)
ContractStep ==
  /\ contract' \in [Contract -> Row]
  /\ \A c \in Contract : contract'[c].status # "none" => contract'[c].start < contract'[c].end
  /\ \A c \in Contract : contract[c].status # "none" => contract'[c].status # "none"

CoverStep ==
  /\ cover' \in [Contract -> [Lift -> Seq(Nat)]]
  /\ \A c \in Contract : contract'[c].status = "none" => \A l \in Lift : cover'[c][l] = <<>>
  /\ \A c \in Contract, l \in Lift : Keeps(cover[c][l], cover'[c][l])

RecordsStep == ContractStep /\ CoverStep /\ lift' \in [Lift -> LiftStatuses]

-----------------------------------------------------------------------------
(* Operators                                                               *)

LEMMA OpenLine ==
  ASSUME TypeOK, NEW c \in Contract, NEW l \in Lift, Open(c, l)
  PROVE  /\ cover[c][l] \in Seq(Nat)
         /\ Len(cover[c][l]) \in 1..Len(cover[c][l])
         /\ cover[c][l][Len(cover[c][l])] = Null
<1>1. cover[c][l] \in Seq(Nat)
  BY DEF TypeOK
<1>2. cover[c][l] # <<>> /\ cover[c][l][Len(cover[c][l])] = Null
  BY DEF Open, Last
<1>3. Len(cover[c][l]) \in Nat /\ Len(cover[c][l]) # 0
  BY <1>1, <1>2, EmptySeq
<1>4. QED
  BY <1>1, <1>2, <1>3

(* Writing the open line leaves the closed ones alone.                     *)
LEMMA CloseLine ==
  ASSUME TypeOK, NEW c \in Contract, NEW l \in Lift, Open(c, l), NEW day \in Nat
  PROVE  LET now == [cover[c][l] EXCEPT ![Len(cover[c][l])] = day]
         IN  now \in Seq(Nat) /\ Keeps(cover[c][l], now)
<1> DEFINE lines == cover[c][l]
           now == [lines EXCEPT ![Len(lines)] = day]
<1>1. /\ lines \in Seq(Nat)
      /\ Len(lines) \in 1..Len(lines)
      /\ lines[Len(lines)] = Null
  BY OpenLine
<1>2. now \in Seq(Nat)
  BY <1>1, ExceptSeq
<1>3. ASSUME NEW k \in DOMAIN lines, lines[k] # Null
      PROVE  k \in DOMAIN now /\ now[k] = lines[k]
  BY <1>1, <1>3
<1>4. QED
  BY <1>2, <1>3 DEF Keeps

(* remove, terminate, renew and the job close lines through Closing.       *)
LEMMA ClosingKeeps ==
  ASSUME TypeOK, NEW c \in Contract, NEW day \in Nat
  PROVE  /\ Closing(c, day) \in [Lift -> Seq(Nat)]
         /\ \A l \in Lift : Keeps(cover[c][l], Closing(c, day)[l])
<1>1. ASSUME NEW l \in Lift
      PROVE  Closing(c, day)[l] \in Seq(Nat) /\ Keeps(cover[c][l], Closing(c, day)[l])
  <2>1. CASE Open(c, l)
    <3>1. Closing(c, day)[l] = [cover[c][l] EXCEPT ![Len(cover[c][l])] = day]
      BY <2>1 DEF Closing
    <3>2. QED
      BY <2>1, <3>1, CloseLine
  <2>2. CASE ~Open(c, l)
    <3>1. Closing(c, day)[l] = cover[c][l]
      BY <2>2 DEF Closing
    <3>2. QED
      BY <3>1 DEF Keeps, TypeOK
  <2>3. QED
    BY <2>1, <2>2
<1>2. Closing(c, day) \in [Lift -> Seq(Nat)]
  BY <1>1 DEF Closing
<1>3. QED
  BY <1>1, <1>2

LEMMA ReleasedTyped ==
  ASSUME TypeOK, NEW c \in Contract
  PROVE  Released(c) \in [Lift -> LiftStatuses]
BY DEF TypeOK, Released, LiftStatuses

(* A step that leaves the lines alone keeps them.                          *)
LEMMA CoverUntouched ==
  ASSUME TypeOK, Unborn, ContractStep, UNCHANGED cover
  PROVE  CoverStep
BY DEF TypeOK, Unborn, ContractStep, CoverStep, Keeps

LEMMA ContractUntouched ==
  ASSUME TypeOK, UNCHANGED contract
  PROVE  ContractStep
BY DEF TypeOK, ContractStep

-----------------------------------------------------------------------------
(* The transactions                                                        *)

(* Parts of the bookkeeping every lemma below needs.                       *)
LEMMA HistoryTypes ==
  ASSUME HistoryInv
  PROVE  /\ contract \in [Contract -> Row]
         /\ \A c \in Contract : contract[c].status # "none" => contract[c].start < contract[c].end
         /\ cover \in [Contract -> [Lift -> Seq(Nat)]]
         /\ lift \in [Lift -> LiftStatuses]
         /\ today \in Nat
BY ContractsAssumption DEF HistoryInv, TypeOK

(* What r fetched of a contract is a row with its dates in order, of a     *)
(* contract that has been made.                                            *)
LEMMA FetchedContract ==
  ASSUME HistoryInv, NEW r \in Request, NEW c \in Contract, call[r].on = c
  PROVE  call[r].row \in Row /\ InOrder(call[r].row) /\ contract[c].status # "none"
<1>1. call[r] \in {NoCall} \cup [on : Contract, row : Row] \cup [on : Lift, row : [status : LiftStatuses]]
  BY DEF HistoryInv, TypeOK
<1>2. call[r] # NoCall
  BY ContractsAssumption DEF NoCall
<1>3. call[r] \notin [on : Lift, row : [status : LiftStatuses]]
  BY ContractsAssumption
<1>4. QED
  BY <1>1, <1>2, <1>3 DEF HistoryInv, Held

LEMMA CreateRecords ==
  ASSUME HistoryInv,
         NEW c \in Contract, NEW status \in {"draft", "active", "expired"},
         NEW start \in StartDays, NEW end \in EndDays, NEW auto \in BOOLEAN,
         Create(c, status, start, end, auto)
  PROVE  RecordsStep
<1>1. start \in Nat /\ end \in Nat /\ start < end
  BY ContractsAssumption DEF Create
<1> DEFINE made == [status |-> status, start |-> start, end |-> end,
                    auto |-> auto, vat |-> TRUE, previous |-> NoContract]
<1>2. made \in Row
  BY <1>1 DEF Row, Statuses
<1>3. contract' = [contract EXCEPT ![c] = made] /\ UNCHANGED <<cover, lift>>
  BY DEF Create
<1>4. ContractStep
  BY <1>1, <1>2, <1>3, HistoryTypes DEF ContractStep
<1>5. CoverStep
  BY <1>3, <1>4, CoverUntouched DEF HistoryInv
<1>6. QED
  BY <1>3, <1>4, <1>5, HistoryTypes DEF RecordsStep

LEMMA PatchRecords ==
  ASSUME HistoryInv, NEW r \in Request, NEW c \in Contract, Patch(r, c)
  PROVE  RecordsStep
<1>1. call[r].row \in Row /\ InOrder(call[r].row)
  BY FetchedContract DEF Patch
<1>2. PICK row \in Edits(call[r].row) : contract' = [contract EXCEPT ![c] = row]
  BY DEF Patch
<1>3. row \in Row /\ row.status \in Statuses /\ row.start < row.end
  <2> DEFINE old == call[r].row
  <2>1. row.start < row.end
    BY <1>2 DEF Edits
  <2>2. \/ \E x \in {"draft", "active", "expired"} : row = [old EXCEPT !.status = x]
        \/ \E d \in StartDays : row = [old EXCEPT !.start = d]
        \/ \E d \in EndDays : row = [old EXCEPT !.end = d]
        \/ \E b \in BOOLEAN : row = [old EXCEPT !.auto = b]
        \/ row = [old EXCEPT !.vat = TRUE]
    BY <1>2 DEF Edits
  <2>3. old \in Row /\ old.status \in Statuses
    BY <1>1 DEF InOrder
  <2>4. row \in Row /\ row.status \in Statuses
    <3> HIDE DEF old
    <3>1. CASE \/ \E d \in StartDays : row = [old EXCEPT !.start = d]
               \/ \E d \in EndDays : row = [old EXCEPT !.end = d]
      <4>1. StartDays \subseteq Nat /\ EndDays \subseteq Nat
        BY ContractsAssumption
      <4> QED
        BY <2>3, <3>1, <4>1 DEF Row
    <3>2. CASE \E x \in {"draft", "active", "expired"} : row = [old EXCEPT !.status = x]
      BY <2>3, <3>2 DEF Row, Statuses
    <3>3. CASE (\E b \in BOOLEAN : row = [old EXCEPT !.auto = b]) \/ row = [old EXCEPT !.vat = TRUE]
      BY <2>3, <3>3 DEF Row
    <3> QED
      BY <2>2, <3>1, <3>2, <3>3
  <2>5. QED
    BY <2>1, <2>4
<1>4. UNCHANGED <<cover, lift>>
  BY DEF Patch
<1>5. ContractStep
  BY <1>2, <1>3, HistoryTypes DEF ContractStep, Statuses
<1>6. CoverStep
  BY <1>4, <1>5, CoverUntouched DEF HistoryInv
<1>7. QED
  BY <1>4, <1>5, <1>6, HistoryTypes DEF RecordsStep

LEMMA AddRecords ==
  ASSUME HistoryInv, NEW r \in Request, NEW c \in Contract, NEW l \in Lift, AddElevators(r, c, l)
  PROVE  RecordsStep
<1>1. contract[c].status # "none"
  BY FetchedContract DEF AddElevators
<1>2. /\ cover' = [cover EXCEPT ![c][l] = Append(cover[c][l], Null)]
      /\ lift' = [lift EXCEPT ![l] = IF lift[l] = "uncontracted" THEN "active" ELSE lift[l]]
      /\ UNCHANGED contract
  BY DEF AddElevators
<1>3. ContractStep
  BY <1>2, ContractUntouched DEF HistoryInv
<1>4. /\ cover[c][l] \in Seq(Nat)
      /\ Append(cover[c][l], Null) \in Seq(Nat)
      /\ Keeps(cover[c][l], Append(cover[c][l], Null))
  <2>1. cover[c][l] \in Seq(Nat) /\ Null \in Nat
    BY HistoryTypes DEF Null
  <2>2. Append(cover[c][l], Null) \in Seq(Nat)
    BY <2>1
  <2>3. Keeps(cover[c][l], Append(cover[c][l], Null))
    BY <2>1 DEF Keeps
  <2>4. QED
    BY <2>1, <2>2, <2>3
<1>5. CoverStep
  BY <1>1, <1>2, <1>4, HistoryTypes DEF CoverStep, HistoryInv, Unborn, Keeps
<1>6. lift' \in [Lift -> LiftStatuses]
  BY <1>2, HistoryTypes DEF LiftStatuses
<1>7. QED
  BY <1>3, <1>5, <1>6 DEF RecordsStep

LEMMA RemoveRecords ==
  ASSUME HistoryInv, NEW r \in Request, NEW c \in Contract, NEW l \in Lift, RemoveElevator(r, c, l)
  PROVE  RecordsStep
<1>1. contract[c].status # "none" /\ Open(c, l)
  BY FetchedContract DEF RemoveElevator
<1> DEFINE now == [cover[c][l] EXCEPT ![Len(cover[c][l])] = today]
<1>2. /\ cover' = [cover EXCEPT ![c][l] = now]
      /\ lift' = [lift EXCEPT ![l] = "uncontracted"]
      /\ UNCHANGED contract
  BY DEF RemoveElevator
<1>3. ContractStep
  BY <1>2, ContractUntouched DEF HistoryInv
<1>4. now \in Seq(Nat) /\ Keeps(cover[c][l], now)
  BY <1>1, CloseLine, HistoryTypes DEF HistoryInv
<1>5. CoverStep
  <2> HIDE DEF now
  <2> QED
    BY <1>1, <1>2, <1>4, HistoryTypes DEF CoverStep, HistoryInv, Unborn, Keeps
<1>6. lift' \in [Lift -> LiftStatuses]
  BY <1>2, HistoryTypes DEF LiftStatuses
<1>7. QED
  BY <1>3, <1>5, <1>6 DEF RecordsStep

(* A contract that closes its lines and changes nothing but its status and *)
(* its renewal: terminate() and the job's ending.                          *)
LEMMA EndingRecords ==
  ASSUME HistoryInv, NEW c \in Contract, Live(c),
         NEW day \in Nat, NEW status \in Statuses, NEW auto \in BOOLEAN,
         cover' = [cover EXCEPT ![c] = Closing(c, day)],
         lift' = Released(c),
         contract' = [contract EXCEPT ![c].status = status, ![c].auto = auto]
  PROVE  RecordsStep
<1>1. contract[c].status # "none"
  BY DEF Live, Statuses
<1>2. ContractStep
  <2>1. PICK row : row = [contract[c] EXCEPT !.status = status, !.auto = auto]
    OBVIOUS
  <2>2. contract[c] \in Row /\ contract[c].start < contract[c].end
    BY <1>1, HistoryTypes
  <2>3. row \in Row
    BY <2>1, <2>2 DEF Row
  <2>4. row.status # "none" /\ row.start < row.end
    BY <2>1, <2>2 DEF Row, Statuses
  <2>5. contract' = [contract EXCEPT ![c] = row]
    BY <2>1, HistoryTypes DEF Row
  <2>6. QED
    BY <2>3, <2>4, <2>5, HistoryTypes DEF ContractStep
<1>3. /\ Closing(c, day) \in [Lift -> Seq(Nat)]
      /\ \A l \in Lift : Keeps(cover[c][l], Closing(c, day)[l])
  BY ClosingKeeps DEF HistoryInv
<1>4. contract'[c].status # "none"
  BY <1>1, <1>2 DEF ContractStep
<1>5. CoverStep
  <2>1. ASSUME NEW d \in Contract, contract'[d].status = "none", NEW l \in Lift
        PROVE  cover'[d][l] = <<>>
    <3>1. d # c /\ contract'[d] = contract[d] /\ cover'[d] = cover[d]
      BY <1>4, <2>1, HistoryTypes
    <3>2. QED
      BY <2>1, <3>1 DEF HistoryInv, Unborn
  <2>2. ASSUME NEW d \in Contract, NEW l \in Lift
        PROVE  Keeps(cover[d][l], cover'[d][l])
    <3>1. CASE d = c
      BY <1>3, <3>1, HistoryTypes
    <3>2. CASE d # c
      <4>1. cover'[d] = cover[d]
        BY <3>2, HistoryTypes
      <4>2. QED
        BY <4>1 DEF Keeps
    <3>3. QED
      BY <3>1, <3>2
  <2>3. cover' \in [Contract -> [Lift -> Seq(Nat)]]
    BY <1>3, HistoryTypes
  <2>4. QED
    BY <2>1, <2>2, <2>3 DEF CoverStep
<1>6. QED
  BY <1>2, <1>5, ReleasedTyped DEF RecordsStep, HistoryInv

LEMMA TerminateRecords ==
  ASSUME HistoryInv, NEW r \in Request, NEW c \in Contract, NEW day \in EndDays, Terminate(r, c, day)
  PROVE  RecordsStep
<1>1. day \in Nat
  BY ContractsAssumption
<1>2. /\ Live(c)
      /\ cover' = [cover EXCEPT ![c] = Closing(c, day)]
      /\ lift' = Released(c)
      /\ contract' = [contract EXCEPT ![c].status = "terminated", ![c].auto = FALSE]
  BY DEF Terminate
<1>3. "terminated" \in Statuses
  BY DEF Statuses
<1>4. QED
  BY <1>1, <1>2, <1>3, EndingRecords

LEMMA LetEndRecords ==
  ASSUME HistoryInv, NEW o \in overdue, LetEnd(o)
  PROVE  RecordsStep
<1>1. o \in [id : Contract, row : Row]
  BY DEF HistoryInv, TypeOK
<1>2. o.id \in Contract /\ o.row.end + 1 \in Nat
  BY <1>1 DEF Row
<1>3. Live(o.id) /\ cover' = [cover EXCEPT ![o.id] = Closing(o.id, o.row.end + 1)] /\ lift' = Released(o.id)
  BY DEF LetEnd
<1>4. contract' = [contract EXCEPT ![o.id].status = "expired", ![o.id].auto = contract[o.id].auto]
  <2>1. contract[o.id] \in Row /\ contract \in [Contract -> Row]
    BY <1>2, HistoryTypes
  <2>2. contract' = [contract EXCEPT ![o.id].status = "expired"]
    BY DEF LetEnd
  <2>3. [contract[o.id] EXCEPT !.status = "expired"]
          = [contract[o.id] EXCEPT !.status = "expired", !.auto = contract[o.id].auto]
    BY <2>1 DEF Row
  <2>4. QED
    BY <1>2, <2>1, <2>2, <2>3
<1>5. contract[o.id].auto \in BOOLEAN
  BY <1>2, HistoryTypes DEF Row
<1>6. "expired" \in Statuses
  BY DEF Statuses
<1>7. QED
  BY <1>2, <1>3, <1>4, <1>5, <1>6, EndingRecords

(* A renewal, by hand or by the job: the successor is a row that was never *)
(* made, so the lines it is given replace none.                            *)
LEMMA SupersedeRecords ==
  ASSUME HistoryInv, NEW c \in Contract, NEW row \in Row, NEW s \in Unused,
         NEW start \in Nat, NEW end \in Nat, start < end,
         NEW carry \in BOOLEAN, NEW terms \in BOOLEAN, NEW status \in Statuses,
         Supersede(c, row, s, start, end, carry, terms, status)
  PROVE  RecordsStep
<1> DEFINE successor == [status |-> status, start |-> start, end |-> end, auto |-> row.auto,
                         vat |-> terms /\ row.vat, previous |-> c]
           taken == [l \in Lift |-> IF carry /\ Open(c, l) THEN <<Null>> ELSE <<>>]
<1>1. /\ s \in Contract /\ contract[s].status = "none"
      /\ contract[c].status \in Statuses
      /\ s # c
  BY DEF Unused, Supersede, Live, Statuses
<1>2. successor \in Row
  BY <1>1 DEF Row
<1>3. /\ contract' = [contract EXCEPT ![c].status = "renewed", ![s] = successor]
      /\ cover' = [cover EXCEPT ![c] = Closing(c, start), ![s] = taken]
      /\ lift' = IF carry THEN lift ELSE Released(c)
  BY DEF Supersede
<1>4. contract'[c].status = "renewed" /\ contract'[s] = successor
  BY <1>1, <1>3, HistoryTypes DEF Row
<1>5. \A d \in Contract \ {c, s} : contract'[d] = contract[d] /\ cover'[d] = cover[d]
  BY <1>3, HistoryTypes
<1>6. ContractStep
  <2>1. contract' \in [Contract -> Row]
    <3> HIDE DEF successor
    <3> QED
      BY <1>1, <1>2, <1>3, HistoryTypes DEF Row, Statuses
  <2>2. contract'[c].start = contract[c].start /\ contract'[c].end = contract[c].end
    BY <1>1, <1>3, HistoryTypes DEF Row
  <2>3. ASSUME NEW d \in Contract
        PROVE  /\ contract'[d].status # "none" => contract'[d].start < contract'[d].end
               /\ contract[d].status # "none" => contract'[d].status # "none"
    <3>1. CASE d = c
      BY <1>1, <1>4, <2>2, <3>1, HistoryTypes DEF Statuses
    <3>2. CASE d = s
      BY <1>1, <1>4, <3>2
    <3>3. CASE d \notin {c, s}
      BY <1>5, <3>3, HistoryTypes
    <3>4. QED
      BY <3>1, <3>2, <3>3
  <2>4. QED
    BY <2>1, <2>3 DEF ContractStep
<1>7. CoverStep
  <2>1. /\ Closing(c, start) \in [Lift -> Seq(Nat)]
        /\ \A l \in Lift : Keeps(cover[c][l], Closing(c, start)[l])
    BY ClosingKeeps DEF HistoryInv
  <2>2. taken \in [Lift -> Seq(Nat)]
    BY DEF Null
  <2>3. cover'[c] = Closing(c, start) /\ cover'[s] = taken
    BY <1>1, <1>3, HistoryTypes
  <2>4. cover' \in [Contract -> [Lift -> Seq(Nat)]]
    <3> HIDE DEF taken
    <3> QED
      BY <1>1, <1>3, <2>1, <2>2, HistoryTypes
  <2>5. ASSUME NEW d \in Contract, NEW l \in Lift
        PROVE  /\ contract'[d].status = "none" => cover'[d][l] = <<>>
               /\ Keeps(cover[d][l], cover'[d][l])
    <3>1. CASE d = c
      BY <1>4, <2>1, <2>3, <3>1
    <3>2. CASE d = s
      <4>1. contract'[s].status # "none"
        BY <1>4 DEF Statuses
      <4>2. cover[s][l] = <<>>
        BY <1>1 DEF HistoryInv, Unborn
      <4>3. QED
        BY <3>2, <4>1, <4>2 DEF Keeps
    <3>3. CASE d \notin {c, s}
      BY <1>5, <3>3 DEF HistoryInv, Unborn, Keeps
    <3>4. QED
      BY <3>1, <3>2, <3>3
  <2>6. QED
    BY <2>4, <2>5 DEF CoverStep
<1>8. lift' \in [Lift -> LiftStatuses]
  BY <1>3, HistoryTypes, ReleasedTyped DEF HistoryInv
<1>9. QED
  BY <1>6, <1>7, <1>8 DEF RecordsStep

LEMMA RenewRecords ==
  ASSUME HistoryInv, NEW r \in Request, NEW c \in Contract, NEW s \in Contract,
         NEW start \in StartDays, NEW end \in EndDays, NEW carry \in BOOLEAN, NEW terms \in BOOLEAN,
         Renew(r, c, s, start, end, carry, terms)
  PROVE  RecordsStep
<1>1. call[r].row \in Row
  BY FetchedContract DEF Renew
<1>2. start \in Nat /\ end \in Nat /\ start < end /\ s \in Unused
  BY ContractsAssumption DEF Renew
<1>3. Supersede(c, call[r].row, s, start, end, carry, terms, "draft")
  BY DEF Renew
<1>4. "draft" \in Statuses
  BY DEF Statuses
<1>5. QED
  BY <1>1, <1>2, <1>3, <1>4, SupersedeRecords

LEMMA AutoRenewRecords ==
  ASSUME HistoryInv, NEW o \in overdue, NEW s \in Contract, AutoRenew(o, s)
  PROVE  RecordsStep
<1> DEFINE term == NextTerm(o.row.start, o.row.end)
           status == IF o.row.vat THEN "active" ELSE "draft"
<1>1. o.id \in Contract /\ o.row \in Row /\ o.row.start < o.row.end
  BY DEF HistoryInv, TypeOK, Held, InOrder
<1>2. term.start \in Nat /\ term.end \in Nat /\ term.start < term.end
  BY <1>1 DEF NextTerm, Row
<1>3. s \in Unused /\ Supersede(o.id, o.row, s, term.start, term.end, TRUE, TRUE, status)
  BY DEF AutoRenew
<1>4. status \in Statuses
  BY DEF Statuses
<1>5. QED
  <2> HIDE DEF term, status
  <2> QED
    BY <1>1, <1>2, <1>3, <1>4, SupersedeRecords

LEMMA DeleteRecords ==
  ASSUME HistoryInv, NEW r \in Request, NEW c \in Contract, Delete(r, c)
  PROVE  RecordsStep
<1>1. contract' = [contract EXCEPT ![c].status = "deleted"] /\ UNCHANGED <<cover, lift>>
  BY DEF Delete
<1>2. contract[c].status # "none"
  BY DEF Delete, Live, Statuses
<1>3. ContractStep
  BY <1>1, <1>2, HistoryTypes DEF ContractStep, Row
<1>4. CoverStep
  BY <1>1, <1>3, CoverUntouched DEF HistoryInv
<1>5. QED
  BY <1>1, <1>3, <1>4, HistoryTypes DEF RecordsStep

(* Steps that write at most one lift's status.                             *)
LEMMA LiftRecords ==
  ASSUME HistoryInv, UNCHANGED <<contract, cover>>, lift' \in [Lift -> LiftStatuses]
  PROVE  RecordsStep
BY ContractUntouched, CoverUntouched DEF HistoryInv, RecordsStep

LEMMA PatchLiftRecords ==
  ASSUME HistoryInv, NEW r \in Request, NEW l \in Lift, PatchLift(r, l)
  PROVE  RecordsStep
<1>1. call[r] \in {NoCall} \cup [on : Contract, row : Row] \cup [on : Lift, row : [status : LiftStatuses]]
  BY DEF HistoryInv, TypeOK
<1>2. call[r].on = l /\ UNCHANGED <<contract, cover>>
  BY DEF PatchLift
<1>3. call[r] \in [on : Lift, row : [status : LiftStatuses]]
  BY <1>1, <1>2, ContractsAssumption DEF NoCall
<1>4. PICK status \in USER_SELECTABLE_STATUSES \cup {call[r].row.status} : lift' = [lift EXCEPT ![l] = status]
  BY DEF PatchLift
<1>5. status \in LiftStatuses
  BY <1>3, <1>4 DEF USER_SELECTABLE_STATUSES
<1>6. lift' \in [Lift -> LiftStatuses]
  BY <1>4, <1>5, HistoryTypes
<1>7. QED
  BY <1>2, <1>6, LiftRecords

LEMMA StopOrRestoreRecords ==
  ASSUME HistoryInv, NEW l \in Lift, StopOrRestore(l)
  PROVE  RecordsStep
<1>1. lift' \in [Lift -> LiftStatuses]
  BY HistoryTypes DEF StopOrRestore, LiftStatuses
<1>2. QED
  BY <1>1, LiftRecords DEF StopOrRestore

LEMMA RecordsUntouched ==
  ASSUME HistoryInv, UNCHANGED records
  PROVE  RecordsStep
<1>1. UNCHANGED <<contract, cover, lift>>
  BY DEF records
<1>2. QED
  BY <1>1, LiftRecords, HistoryTypes

LEMMA ActRecords ==
  ASSUME HistoryInv, NEW r \in Request, Act(r)
  PROVE  RecordsStep /\ Answer(r)
<1>1. CASE \E c \in Contract, l \in Lift : AddElevators(r, c, l) \/ RemoveElevator(r, c, l)
  BY <1>1, AddRecords, RemoveRecords DEF AddElevators, RemoveElevator
<1>2. CASE \E c \in Contract : Patch(r, c) \/ Delete(r, c)
  BY <1>2, PatchRecords, DeleteRecords DEF Patch, Delete
<1>3. CASE \E c \in Contract, day \in EndDays : Terminate(r, c, day)
  BY <1>3, TerminateRecords DEF Terminate
<1>4. CASE \E c, s \in Contract, start \in StartDays, end \in EndDays, carry, terms \in BOOLEAN :
             Renew(r, c, s, start, end, carry, terms)
  BY <1>4, RenewRecords DEF Renew
<1>5. CASE \E l \in Lift : PatchLift(r, l)
  BY <1>5, PatchLiftRecords DEF PatchLift
<1>6. CASE GiveUp(r)
  BY <1>6, RecordsUntouched DEF GiveUp
<1>7. QED
  BY <1>1, <1>2, <1>3, <1>4, <1>5, <1>6 DEF Act

LEMMA ExpireRecords ==
  ASSUME HistoryInv, NEW o \in overdue, Expire(o)
  PROVE  RecordsStep
<1>1. CASE \E s \in Contract : AutoRenew(o, s)
  BY <1>1, AutoRenewRecords
<1>2. CASE LetEnd(o)
  BY <1>2, LetEndRecords
<1>3. CASE Fails(o)
  BY <1>3, RecordsUntouched DEF Fails
<1>4. QED
  BY <1>1, <1>2, <1>3 DEF Expire

-----------------------------------------------------------------------------
(* The invariant                                                           *)

(* Whoever is at work, what a transaction leaves behind keeps the rows     *)
(* fetched before it those of contracts that exist.                        *)
LEMMA StepKeeps ==
  ASSUME HistoryInv, RecordsStep,
         today' \in FirstDay..MaxDay, lastRun' \in 0..MaxDay,
         call' \in [Request -> {NoCall} \cup [on : Contract, row : Row]
                                       \cup [on : Lift, row : [status : LiftStatuses]]],
         \A r \in Request : call'[r].on \in Contract =>
            \/ call'[r] = call[r]
            \/ InOrder(call'[r].row) /\ contract[call'[r].on].status # "none",
         overdue' \subseteq [id : Contract, row : Row],
         \A o \in overdue' : o \in overdue \/ (InOrder(o.row) /\ contract[o.id].status # "none")
  PROVE  HistoryInv'
<1>1. TypeOK'
  BY DEF TypeOK, RecordsStep, ContractStep, CoverStep
<1>2. Held'
  <2>1. ASSUME NEW r \in Request, call'[r].on \in Contract
        PROVE  InOrder(call'[r].row) /\ contract'[call'[r].on].status # "none"
    BY <2>1 DEF HistoryInv, Held, RecordsStep, ContractStep
  <2>2. ASSUME NEW o \in overdue'
        PROVE  InOrder(o.row) /\ contract'[o.id].status # "none"
    <3>1. InOrder(o.row) /\ contract[o.id].status # "none" /\ o.id \in Contract
      BY DEF HistoryInv, Held
    <3>2. QED
      BY <3>1 DEF RecordsStep, ContractStep
  <2>3. QED
    BY <2>1, <2>2 DEF Held, InOrder
<1>3. Unborn'
  BY DEF Unborn, RecordsStep, CoverStep
<1>4. QED
  BY <1>1, <1>2, <1>3 DEF HistoryInv

LEMMA FetchStep ==
  ASSUME HistoryInv, NEW r \in Request, Fetch(r)
  PROVE  HistoryInv' /\ RecordsStep
<1>1. RecordsStep
  BY RecordsUntouched DEF Fetch
<1>2. CASE \E c \in Contract : Live(c) /\ call' = [call EXCEPT ![r] = [on |-> c, row |-> contract[c]]]
  <2>1. PICK c \in Contract : Live(c) /\ call' = [call EXCEPT ![r] = [on |-> c, row |-> contract[c]]]
    BY <1>2
  <2>2. contract[c] \in Row /\ InOrder(contract[c]) /\ contract[c].status # "none"
    BY <2>1, HistoryTypes DEF Live, InOrder, Statuses
  <2>3. UNCHANGED <<today, overdue, lastRun>>
    BY DEF Fetch
  <2>4. QED
    BY <1>1, <2>1, <2>2, <2>3, StepKeeps DEF HistoryInv, TypeOK
<1>3. CASE \E l \in Lift : call' = [call EXCEPT ![r] = [on |-> l, row |-> [status |-> lift[l]]]]
  <2>1. PICK l \in Lift : call' = [call EXCEPT ![r] = [on |-> l, row |-> [status |-> lift[l]]]]
    BY <1>3
  <2>2. l \notin Contract /\ lift[l] \in LiftStatuses
    BY ContractsAssumption, HistoryTypes
  <2>3. UNCHANGED <<today, overdue, lastRun>>
    BY DEF Fetch
  <2>4. QED
    BY <1>1, <2>1, <2>2, <2>3, StepKeeps DEF HistoryInv, TypeOK
<1>4. QED
  BY <1>1, <1>2, <1>3 DEF Fetch

LEMMA AnswerStep ==
  ASSUME HistoryInv, NEW r \in Request, RecordsStep, Answer(r)
  PROVE  HistoryInv'
<1>1. call' = [call EXCEPT ![r] = NoCall] /\ UNCHANGED <<today, overdue, lastRun>>
  BY DEF Answer
<1>2. NoCall.on \notin Contract
  BY ContractsAssumption DEF NoCall
<1>3. \A q \in Request : call'[q] = call[q] \/ call'[q] = NoCall
  BY <1>1 DEF HistoryInv, TypeOK
<1>4. QED
  BY <1>1, <1>2, <1>3, StepKeeps DEF HistoryInv, TypeOK

(* A step that leaves the requests and the job's rows as they are.         *)
LEMMA QuietStep ==
  ASSUME HistoryInv, RecordsStep, UNCHANGED <<call, overdue, lastRun>>, today' \in FirstDay..MaxDay
  PROVE  HistoryInv'
BY StepKeeps DEF HistoryInv, TypeOK

LEMMA StartExpiryStep ==
  ASSUME HistoryInv, StartExpiry
  PROVE  HistoryInv' /\ RecordsStep
<1>1. RecordsStep
  BY RecordsUntouched DEF StartExpiry
<1>2. /\ overdue' = {[id |-> c, row |-> contract[c]] : c \in {d \in Contract : Due(d)}}
      /\ lastRun' = today /\ UNCHANGED <<today, call>>
  BY DEF StartExpiry
<1>3. \A c \in Contract : Due(c) =>
        contract[c] \in Row /\ InOrder(contract[c]) /\ contract[c].status # "none"
  BY HistoryTypes DEF Due, InOrder, Statuses
<1>4. lastRun' \in 0..MaxDay
  BY <1>2, ContractsAssumption DEF HistoryInv, TypeOK
<1>5. QED
  BY <1>1, <1>2, <1>3, <1>4, StepKeeps DEF HistoryInv, TypeOK

LEMMA ExpireStep ==
  ASSUME HistoryInv, NEW o \in overdue, Expire(o)
  PROVE  HistoryInv' /\ RecordsStep
<1>1. overdue' = overdue \ {o} /\ UNCHANGED <<today, call, lastRun>>
  BY DEF Expire
<1>2. QED
  BY <1>1, ExpireRecords, StepKeeps DEF HistoryInv, TypeOK

LEMMA HistoryInit == Init => HistoryInv
<1> SUFFICES ASSUME Init PROVE HistoryInv
  OBVIOUS
<1>1. NotCreated \in Row /\ NotCreated.status = "none"
  BY DEF NotCreated, Row
<1>2. TypeOK
  BY <1>1, ContractsAssumption DEF Init, TypeOK, LiftStatuses
<1>3. Held /\ Unborn
  BY <1>1, ContractsAssumption DEF Init, Held, Unborn, NoCall
<1>4. QED
  BY <1>2, <1>3 DEF HistoryInv

LEMMA HistoryStep ==
  ASSUME HistoryInv, [Next]_vars
  PROVE  HistoryInv' /\ (RecordsStep \/ UNCHANGED vars)
<1>1. CASE \E r \in Request : Fetch(r)
  BY <1>1, FetchStep
<1>2. CASE \E r \in Request : Act(r)
  BY <1>2, ActRecords, AnswerStep
<1>3. CASE \E c \in Contract, status \in {"draft", "active", "expired"},
             start \in StartDays, end \in EndDays, auto \in BOOLEAN :
             Create(c, status, start, end, auto)
  <2>1. RecordsStep /\ UNCHANGED <<today, call, overdue, lastRun>>
    <3>1. PICK c \in Contract, status \in {"draft", "active", "expired"},
               start \in StartDays, end \in EndDays, auto \in BOOLEAN :
               Create(c, status, start, end, auto)
      BY <1>3
    <3>2. RecordsStep
      BY <3>1, CreateRecords
    <3>3. UNCHANGED <<today, call, overdue, lastRun>>
      BY <3>1 DEF Create
    <3>4. QED
      BY <3>2, <3>3
  <2>2. QED
    BY <2>1, QuietStep DEF HistoryInv, TypeOK
<1>4. CASE \E l \in Lift : StopOrRestore(l)
  <2>1. RecordsStep /\ UNCHANGED <<today, call, overdue, lastRun>>
    BY <1>4, StopOrRestoreRecords DEF StopOrRestore
  <2>2. QED
    BY <2>1, QuietStep DEF HistoryInv, TypeOK
<1>5. CASE StartExpiry
  BY <1>5, StartExpiryStep
<1>6. CASE \E o \in overdue : Expire(o)
  BY <1>6, ExpireStep
<1>7. CASE Tick
  <2>1. RecordsStep /\ UNCHANGED <<call, overdue, lastRun>>
    BY <1>7, RecordsUntouched DEF Tick
  <2>2. today' \in FirstDay..MaxDay
    BY <1>7, ContractsAssumption DEF Tick, HistoryInv, TypeOK
  <2>3. QED
    BY <2>1, <2>2, QuietStep
<1>8. CASE UNCHANGED vars
  <2>1. UNCHANGED <<today, contract, cover, lift, call, overdue, lastRun>>
    BY <1>8 DEF vars, records
  <2>2. QED
    BY <1>8, <2>1 DEF HistoryInv, TypeOK, Held, Unborn, InOrder
<1>9. QED
  BY <1>1, <1>2, <1>3, <1>4, <1>5, <1>6, <1>7, <1>8 DEF Next

LEMMA HistoryInvariant == Spec => []HistoryInv
<1>1. HistoryInv /\ [Next]_vars => HistoryInv'
  BY HistoryStep
<1>2. QED
  BY HistoryInit, <1>1, PTL DEF Spec

(* Every row of every table keeps its shape, and no contract ever ends     *)
(* before it starts: not by a form, a renewal or the job's own arithmetic  *)
(* (apps/contracts/models.py, contract_end_after_start).                   *)
THEOREM RowsKeepTheirShape == Spec => []TypeOK
<1>1. HistoryInv => TypeOK
  BY DEF HistoryInv
<1>2. QED
  BY HistoryInvariant, <1>1, PTL

(* The billing history stays, however many requests act on rows fetched    *)
(* however long ago: no step of add_elevators, remove_elevator, terminate, *)
(* renew, expire or a PATCH reopens, redates or drops a closed line.       *)
THEOREM ClosedLinesStay == Spec => HistoryKept
<1>1. HistoryInv /\ [Next]_vars =>
        [\A c \in Contract, l \in Lift : \A k \in DOMAIN cover[c][l] :
           cover[c][l][k] # Null =>
             k \in DOMAIN cover'[c][l] /\ cover'[c][l][k] = cover[c][l][k]]_vars
  BY HistoryStep DEF RecordsStep, CoverStep, Keeps
<1>2. QED
  BY HistoryInvariant, <1>1, PTL DEF Spec, HistoryKept

-----------------------------------------------------------------------------
(* Who covers a lift                                                       *)

(* No request can overwrite what another wrote since it fetched: requests  *)
(* come one at a time, or none writes back a lift (a contract) it fetched. *)
LiftsInTurn == MaxInFlight = 1 \/ "lift" \notin Operations
ContractsInTurn == MaxInFlight = 1 \/ "patch" \notin Operations

(* At most one contract covers a lift, whoever is at work.                 *)
OneCover == \A l \in Lift, c, d \in Contract : Open(c, l) /\ Open(d, l) => c = d

(* One at a time, a request acts on what is there.                         *)
UpToDate ==
  MaxInFlight = 1 =>
    /\ \A r, q \in Request : call[r] # NoCall /\ call[q] # NoCall => r = q
    /\ \A r \in Request : call[r] # NoCall => overdue = {}
    /\ \A r \in Request, c \in Contract : call[r].on = c => call[r].row = contract[c]
    /\ \A r \in Request, l \in Lift : call[r].on = l => call[r].row.status = lift[l]

CoverInv ==
  /\ HistoryInv /\ OneCover /\ UpToDate
  /\ LiftsInTurn => UncontractedMeansUncovered

IsOpen(lines) == lines # <<>> /\ Last(lines) = Null

(* What a transaction may do to the cover of one lift: leave it, take the  *)
(* lift on, let it go, or pass it on to the contract that renews its own.  *)
Leaves(l) ==
  /\ \A c \in Contract : Open(c, l)' => Open(c, l)
  /\ LiftsInTurn /\ lift'[l] = "uncontracted" => lift[l] = "uncontracted"
Takes(l) ==
  \E c \in Contract :
    /\ ~Covered(l) /\ lift'[l] # "uncontracted"
    /\ \A d \in Contract : Open(d, l)' => d = c
LetsGo(l) ==
  \E c \in Contract : Open(c, l) /\ \A d \in Contract : Open(d, l)' => Open(d, l) /\ d # c
PassesOn(l) ==
  \E c, s \in Contract :
    /\ Open(c, l) /\ lift'[l] = lift[l]
    /\ \A d \in Contract : Open(d, l)' => d = s \/ (Open(d, l) /\ d # c)
CoverChange == \A l \in Lift : Leaves(l) \/ Takes(l) \/ LetsGo(l) \/ PassesOn(l)

(* What FinishingLetsGo says of a contract.                                *)
Finishes(c) ==
  contract[c].status # contract'[c].status /\ contract'[c].status \in {"terminated", "renewed"}
Finished(c) ==
  \A l \in Lift : Open(c, l) =>
    /\ ~Open(c, l)'
    /\ \/ lift'[l] = "uncontracted"
       \/ \E s \in Contract : contract'[s].previous = c /\ Open(s, l)'
LettingGo == \A c \in Contract : Finishes(c) => Finished(c)

CoverStepOf == CoverChange /\ (ContractsInTurn => LettingGo)

-----------------------------------------------------------------------------
(* The transactions, once more                                             *)

(* A line that Closing has seen is not open.                               *)
LEMMA ClosingCloses ==
  ASSUME TypeOK, NEW c \in Contract, NEW l \in Lift, NEW day \in Nat \ {0}
  PROVE  ~IsOpen(Closing(c, day)[l])
<1>1. CASE Open(c, l)
  <2> DEFINE lines == cover[c][l]
             now == [lines EXCEPT ![Len(lines)] = day]
  <2>1. Closing(c, day)[l] = now
    BY <1>1 DEF Closing
  <2>2. lines \in Seq(Nat) /\ Len(lines) \in 1..Len(lines)
    BY <1>1, OpenLine
  <2>3. Len(now) = Len(lines) /\ now[Len(lines)] = day
    BY <2>2
  <2>4. now[Len(now)] # Null
    BY <2>3 DEF Null
  <2> QED
    BY <2>1, <2>4 DEF IsOpen, Last
<1>2. CASE ~Open(c, l)
  <2>1. Closing(c, day)[l] = cover[c][l]
    BY <1>2 DEF Closing
  <2> QED
    BY <1>2, <2>1 DEF Open, IsOpen
<1> QED
  BY <1>1, <1>2

(* A step that opens no line, and takes no lift off the list of what is    *)
(* covered, changes no cover.                                              *)
LEMMA NoCoverChange ==
  ASSUME UNCHANGED cover,
         \A l \in Lift : LiftsInTurn /\ lift'[l] = "uncontracted" => lift[l] = "uncontracted"
  PROVE  CoverChange
BY DEF CoverChange, Leaves, Open

(* Ending: every line of c that was open is closed, and its lift listed.   *)
LEMMA EndingCover ==
  ASSUME HistoryInv, NEW c \in Contract, NEW day \in Nat \ {0},
         cover' = [cover EXCEPT ![c] = Closing(c, day)], lift' = Released(c)
  PROVE  CoverChange /\ \A l \in Lift : Open(c, l) => ~Open(c, l)' /\ lift'[l] = "uncontracted"
<1>1. cover'[c] = Closing(c, day) /\ \A d \in Contract \ {c} : cover'[d] = cover[d]
  BY HistoryTypes
<1>2. \A d \in Contract, l \in Lift : Open(d, l)' => Open(d, l) /\ d # c
  BY <1>1, ClosingCloses DEF Open, IsOpen, HistoryInv
<1>3. \A l \in Lift : lift'[l] = IF Open(c, l) THEN "uncontracted" ELSE lift[l]
  BY DEF Released
<1> QED
  BY <1>2, <1>3 DEF CoverChange, Leaves, LetsGo

LEMMA AddCover ==
  ASSUME HistoryInv, NEW r \in Request, NEW c \in Contract, NEW l \in Lift, AddElevators(r, c, l)
  PROVE  CoverStepOf
<1>1. /\ ~Covered(l)
      /\ cover' = [cover EXCEPT ![c][l] = Append(cover[c][l], Null)]
      /\ lift' = [lift EXCEPT ![l] = IF lift[l] = "uncontracted" THEN "active" ELSE lift[l]]
      /\ UNCHANGED contract
  BY DEF AddElevators
<1>2. \A d \in Contract, k \in Lift : <<d, k>> # <<c, l>> => cover'[d][k] = cover[d][k]
  BY <1>1, HistoryTypes
<1>3. lift'[l] # "uncontracted" /\ \A k \in Lift \ {l} : lift'[k] = lift[k]
  BY <1>1, HistoryTypes
<1>4. Takes(l)
  BY <1>1, <1>2, <1>3 DEF Takes, Covered, Open
<1>5. \A k \in Lift \ {l} : Leaves(k)
  BY <1>2, <1>3 DEF Leaves, Open
<1>6. LettingGo
  BY <1>1 DEF LettingGo, Finishes
<1> QED
  BY <1>4, <1>5, <1>6 DEF CoverStepOf, CoverChange

LEMMA RemoveCover ==
  ASSUME HistoryInv, NEW r \in Request, NEW c \in Contract, NEW l \in Lift, RemoveElevator(r, c, l)
  PROVE  CoverStepOf
<1> DEFINE now == [cover[c][l] EXCEPT ![Len(cover[c][l])] = today]
<1>1. /\ Open(c, l)
      /\ cover' = [cover EXCEPT ![c][l] = now]
      /\ lift' = [lift EXCEPT ![l] = "uncontracted"]
      /\ UNCHANGED contract
  BY DEF RemoveElevator
<1>2. today \in Nat \ {0}
  BY ContractsAssumption DEF HistoryInv, TypeOK
<1>3. ~IsOpen(now)
  <2>1. Closing(c, today)[l] = now
    BY <1>1 DEF Closing
  <2> QED
    BY <1>2, <2>1, ClosingCloses DEF HistoryInv
<1> HIDE DEF now
<1>4. cover'[c][l] = now
  BY <1>1, HistoryTypes
<1>5. \A d \in Contract, k \in Lift : <<d, k>> # <<c, l>> => cover'[d][k] = cover[d][k]
  BY <1>1, HistoryTypes
<1>6. LetsGo(l)
  BY <1>1, <1>3, <1>4, <1>5 DEF LetsGo, Open, IsOpen
<1>7. \A k \in Lift \ {l} : Leaves(k)
  BY <1>1, <1>5, HistoryTypes DEF Leaves, Open
<1>8. LettingGo
  BY <1>1 DEF LettingGo, Finishes
<1> QED
  BY <1>6, <1>7, <1>8 DEF CoverStepOf, CoverChange

LEMMA TerminateCover ==
  ASSUME HistoryInv, NEW r \in Request, NEW c \in Contract, NEW day \in EndDays, Terminate(r, c, day)
  PROVE  CoverStepOf
<1>1. day \in Nat \ {0}
  BY ContractsAssumption
<1>2. CoverChange /\ \A l \in Lift : Open(c, l) => ~Open(c, l)' /\ lift'[l] = "uncontracted"
  BY <1>1, EndingCover DEF Terminate
<1>3. \A d \in Contract \ {c} : contract'[d] = contract[d]
  BY HistoryTypes DEF Terminate
<1>4. LettingGo
  BY <1>2, <1>3 DEF LettingGo, Finishes, Finished
<1> QED
  BY <1>2, <1>4 DEF CoverStepOf

LEMMA LetEndCover ==
  ASSUME HistoryInv, NEW o \in overdue, LetEnd(o)
  PROVE  CoverStepOf
<1>1. o.id \in Contract /\ o.row.end + 1 \in Nat \ {0}
  BY DEF HistoryInv, TypeOK, Row
<1>2. CoverChange
  BY <1>1, EndingCover DEF LetEnd
<1>3. /\ contract'[o.id].status = "expired"
      /\ \A d \in Contract \ {o.id} : contract'[d] = contract[d]
  BY <1>1, HistoryTypes DEF LetEnd, Row
<1>4. LettingGo
  BY <1>3 DEF LettingGo, Finishes
<1> QED
  BY <1>2, <1>4 DEF CoverStepOf

(* Renewal: what c held goes to s, which held nothing, or is let go.       *)
LEMMA SupersedeCover ==
  ASSUME HistoryInv, NEW c \in Contract, NEW row \in Row, NEW s \in Unused,
         NEW start \in Nat \ {0}, NEW end \in Nat,
         NEW carry \in BOOLEAN, NEW terms \in BOOLEAN, NEW status \in {"draft", "active"},
         Supersede(c, row, s, start, end, carry, terms, status)
  PROVE  CoverStepOf
<1> DEFINE successor == [status |-> status, start |-> start, end |-> end, auto |-> row.auto,
                         vat |-> terms /\ row.vat, previous |-> c]
           taken == [l \in Lift |-> IF carry /\ Open(c, l) THEN <<Null>> ELSE <<>>]
<1>1. s \in Contract /\ contract[s].status = "none" /\ s # c
  BY DEF Unused, Supersede, Live, Statuses
<1>2. /\ contract' = [contract EXCEPT ![c].status = "renewed", ![s] = successor]
      /\ cover' = [cover EXCEPT ![c] = Closing(c, start), ![s] = taken]
      /\ lift' = IF carry THEN lift ELSE Released(c)
  BY DEF Supersede
<1>3. contract'[s] = successor /\ \A d \in Contract \ {c, s} : contract'[d] = contract[d]
  BY <1>1, <1>2, HistoryTypes
<1>4. /\ cover'[c] = Closing(c, start) /\ cover'[s] = taken
      /\ \A d \in Contract \ {c, s} : cover'[d] = cover[d]
  BY <1>1, <1>2, HistoryTypes
<1>5. \A l \in Lift : ~Open(c, l)'
  BY <1>4, ClosingCloses DEF Open, IsOpen, HistoryInv
<1>6. \A l \in Lift : Open(s, l)' <=> carry /\ Open(c, l)
  <2>1. ASSUME NEW l \in Lift PROVE Open(s, l)' <=> carry /\ Open(c, l)
    <3>1. taken[l] = IF carry /\ Open(c, l) THEN <<Null>> ELSE <<>>
      OBVIOUS
    <3> HIDE DEF taken
    <3>2. Open(s, l)' <=> IsOpen(taken[l])
      BY <1>4 DEF Open, IsOpen
    <3>3. IsOpen(<<Null>>) /\ ~IsOpen(<<>>)
      BY DEF IsOpen, Last
    <3> QED
      BY <3>1, <3>2, <3>3
  <2> QED
    BY <2>1
<1> HIDE DEF successor, taken
<1>7. \A d \in Contract, l \in Lift :
        Open(d, l)' => (d = s /\ carry /\ Open(c, l)) \/ (Open(d, l) /\ d # c)
  BY <1>4, <1>5, <1>6 DEF Open
<1>8. \A l \in Lift : lift'[l] = IF ~carry /\ Open(c, l) THEN "uncontracted" ELSE lift[l]
  BY <1>2, HistoryTypes DEF Released
<1>9. CoverChange
  <2>1. ASSUME NEW l \in Lift, Open(c, l), carry PROVE PassesOn(l)
    BY <1>1, <1>7, <1>8, <2>1 DEF PassesOn
  <2>2. ASSUME NEW l \in Lift, Open(c, l), ~carry PROVE LetsGo(l)
    BY <1>7, <2>2 DEF LetsGo
  <2>3. ASSUME NEW l \in Lift, ~Open(c, l) PROVE Leaves(l)
    BY <1>7, <1>8, <2>3 DEF Leaves
  <2> QED
    BY <2>1, <2>2, <2>3 DEF CoverChange
<1>10. LettingGo
  <2>1. contract'[s].status \in {"draft", "active"} /\ contract'[s].previous = c
    BY <1>3 DEF successor
  <2>2. Finished(c)
    BY <1>1, <1>5, <1>6, <1>8, <2>1 DEF Finished
  <2> QED
    BY <1>3, <2>1, <2>2 DEF LettingGo, Finishes
<1> QED
  BY <1>9, <1>10 DEF CoverStepOf

LEMMA RenewCover ==
  ASSUME HistoryInv, NEW r \in Request, NEW c \in Contract, NEW s \in Contract,
         NEW start \in StartDays, NEW end \in EndDays, NEW carry \in BOOLEAN, NEW terms \in BOOLEAN,
         Renew(r, c, s, start, end, carry, terms)
  PROVE  CoverStepOf
<1>1. call[r].row \in Row
  BY FetchedContract DEF Renew
<1>2. start \in Nat \ {0} /\ end \in Nat /\ s \in Unused
  BY ContractsAssumption DEF Renew
<1>3. Supersede(c, call[r].row, s, start, end, carry, terms, "draft")
  BY DEF Renew
<1> QED
  BY <1>1, <1>2, <1>3, SupersedeCover

LEMMA AutoRenewCover ==
  ASSUME HistoryInv, NEW o \in overdue, NEW s \in Contract, AutoRenew(o, s)
  PROVE  CoverStepOf
<1> DEFINE term == NextTerm(o.row.start, o.row.end)
           status == IF o.row.vat THEN "active" ELSE "draft"
<1>1. o.id \in Contract /\ o.row \in Row /\ o.row.start < o.row.end
  BY DEF HistoryInv, TypeOK, Held, InOrder
<1>2. term.start \in Nat \ {0} /\ term.end \in Nat
  BY <1>1 DEF NextTerm, Row
<1>3. s \in Unused /\ Supersede(o.id, o.row, s, term.start, term.end, TRUE, TRUE, status)
  BY DEF AutoRenew
<1>4. status \in {"draft", "active"}
  OBVIOUS
<1> QED
  <2> HIDE DEF term, status
  <2> QED
    BY <1>1, <1>2, <1>3, <1>4, SupersedeCover

(* A PATCH writes back the status it fetched, unless it states another.    *)
LEMMA PatchCover ==
  ASSUME CoverInv, NEW r \in Request, NEW c \in Contract, "patch" \in Operations, Patch(r, c)
  PROVE  CoverStepOf
<1>1. UNCHANGED <<cover, lift>>
  BY DEF Patch
<1>2. PICK row \in Edits(call[r].row) : contract' = [contract EXCEPT ![c] = row]
  BY DEF Patch
<1>3. call[r].on = c /\ call[r].row \in Row
  BY FetchedContract DEF Patch, CoverInv
<1>4. row.status \in {"draft", "active", "expired"} \/ row.status = call[r].row.status
  <2> DEFINE old == call[r].row
  <2>1. \/ \E x \in {"draft", "active", "expired"} : row = [old EXCEPT !.status = x]
        \/ \E d \in StartDays : row = [old EXCEPT !.start = d]
        \/ \E d \in EndDays : row = [old EXCEPT !.end = d]
        \/ \E b \in BOOLEAN : row = [old EXCEPT !.auto = b]
        \/ row = [old EXCEPT !.vat = TRUE]
    BY <1>2 DEF Edits
  <2>2. old \in Row
    BY <1>3
  <2> QED
    <3> HIDE DEF old
    <3>1. row.status \in {"draft", "active", "expired"} \/ row.status = old.status
      BY <2>1, <2>2 DEF Row
    <3> QED
      BY <3>1 DEF old
<1>5. ContractsInTurn => LettingGo
  <2>1. ASSUME ContractsInTurn, NEW d \in Contract PROVE ~Finishes(d)
    <3>1. call[r].row = contract[c]
      BY <1>3, <2>1 DEF ContractsInTurn, CoverInv, UpToDate
    <3>2. contract'[d] = IF d = c THEN row ELSE contract[d]
      BY <1>2, HistoryTypes DEF CoverInv
    <3> QED
      BY <1>4, <3>1, <3>2 DEF Finishes
  <2> QED
    BY <2>1 DEF LettingGo
<1> QED
  BY <1>1, <1>5, NoCoverChange DEF CoverStepOf

LEMMA PatchLiftCover ==
  ASSUME CoverInv, NEW r \in Request, NEW l \in Lift, "lift" \in Operations, PatchLift(r, l)
  PROVE  CoverStepOf
<1>1. UNCHANGED <<contract, cover>>
  BY DEF PatchLift
<1>2. PICK status \in USER_SELECTABLE_STATUSES \cup {call[r].row.status} :
        lift' = [lift EXCEPT ![l] = status]
  BY DEF PatchLift
<1>3. LiftsInTurn => (status = "uncontracted" => lift[l] = "uncontracted")
  BY DEF LiftsInTurn, CoverInv, UpToDate, PatchLift, USER_SELECTABLE_STATUSES
<1>4. \A k \in Lift : LiftsInTurn /\ lift'[k] = "uncontracted" => lift[k] = "uncontracted"
  BY <1>2, <1>3, HistoryTypes DEF CoverInv
<1> QED
  BY <1>1, <1>4, NoCoverChange DEF CoverStepOf, LettingGo, Finishes

(* Steps that finish no contract and touch no line.                        *)
LEMMA NothingFinished ==
  ASSUME UNCHANGED cover, \A l \in Lift : lift'[l] = "uncontracted" => lift[l] = "uncontracted",
         \A c \in Contract :
           contract'[c].status \in {"terminated", "renewed"} => contract'[c] = contract[c]
  PROVE  CoverStepOf
<1>1. LettingGo
  BY DEF LettingGo, Finishes
<1> QED
  BY <1>1, NoCoverChange DEF CoverStepOf

LEMMA DeleteCover ==
  ASSUME HistoryInv, NEW r \in Request, NEW c \in Contract, Delete(r, c)
  PROVE  CoverStepOf
<1>1. contract' = [contract EXCEPT ![c].status = "deleted"] /\ UNCHANGED <<cover, lift>>
  BY DEF Delete
<1>2. contract'[c].status = "deleted" /\ \A d \in Contract \ {c} : contract'[d] = contract[d]
  BY <1>1, HistoryTypes DEF Row
<1> QED
  BY <1>1, <1>2, NothingFinished

LEMMA CreateCover ==
  ASSUME HistoryInv,
         NEW c \in Contract, NEW status \in {"draft", "active", "expired"},
         NEW start \in StartDays, NEW end \in EndDays, NEW auto \in BOOLEAN,
         Create(c, status, start, end, auto)
  PROVE  CoverStepOf
<1>1. /\ contract'[c].status = status /\ \A d \in Contract \ {c} : contract'[d] = contract[d]
      /\ UNCHANGED <<cover, lift>>
  BY HistoryTypes DEF Create
<1> QED
  BY <1>1, NothingFinished

LEMMA ActCover ==
  ASSUME CoverInv, NEW r \in Request, Act(r)
  PROVE  CoverStepOf
<1>1. HistoryInv
  BY DEF CoverInv
<1>2. CASE \E c \in Contract, l \in Lift : AddElevators(r, c, l) \/ RemoveElevator(r, c, l)
  BY <1>1, <1>2, AddCover, RemoveCover
<1>3. CASE \E c \in Contract : ("patch" \in Operations /\ Patch(r, c)) \/ Delete(r, c)
  BY <1>1, <1>3, PatchCover, DeleteCover
<1>4. CASE \E c \in Contract, day \in EndDays : Terminate(r, c, day)
  BY <1>1, <1>4, TerminateCover
<1>5. CASE \E c, s \in Contract, start \in StartDays, end \in EndDays, carry, terms \in BOOLEAN :
             Renew(r, c, s, start, end, carry, terms)
  BY <1>1, <1>5, RenewCover
<1>6. CASE "lift" \in Operations /\ \E l \in Lift : PatchLift(r, l)
  BY <1>6, PatchLiftCover
<1>7. CASE GiveUp(r)
  BY <1>7, NothingFinished DEF GiveUp, records
<1> QED
  BY <1>2, <1>3, <1>4, <1>5, <1>6, <1>7 DEF Act

LEMMA StopOrRestoreCover ==
  ASSUME HistoryInv, NEW l \in Lift, StopOrRestore(l)
  PROVE  CoverStepOf
<1>1. UNCHANGED <<contract, cover>> /\ \A k \in Lift : lift'[k] = "uncontracted" => lift[k] = "uncontracted"
  BY HistoryTypes DEF StopOrRestore
<1> QED
  BY <1>1, NothingFinished

LEMMA ExpireCover ==
  ASSUME HistoryInv, NEW o \in overdue, Expire(o)
  PROVE  CoverStepOf
<1>1. CASE \E s \in Contract : AutoRenew(o, s)
  BY <1>1, AutoRenewCover
<1>2. CASE LetEnd(o)
  BY <1>2, LetEndCover
<1>3. CASE Fails(o)
  BY <1>3, NothingFinished DEF Fails, records
<1> QED
  BY <1>1, <1>2, <1>3 DEF Expire

-----------------------------------------------------------------------------
(* The cover is kept                                                       *)

(* One request at a time starts when none is under way, nor the job.       *)
LEMMA NobodyElse ==
  ASSUME MaxInFlight = 1, InFlight < MaxInFlight
  PROVE  (\A r \in Request : call[r] = NoCall) /\ overdue = {}
<1> DEFINE busy == {r \in Request : call[r] # NoCall}
<1>1. IsFiniteSet(busy)
  BY ContractsAssumption, FS_Subset
<1>2. Cardinality(busy) \in Nat
  BY <1>1, FS_CardinalityType
<1>3. Cardinality(busy) = 0 /\ overdue = {}
  BY <1>2 DEF InFlight
<1>4. busy = {}
  BY <1>1, <1>3, FS_EmptySet
<1> QED
  BY <1>3, <1>4

LEMMA RestIsUpToDate ==
  ASSUME \A r \in Request : call'[r] = NoCall
  PROVE  UpToDate'
BY ContractsAssumption DEF UpToDate, NoCall

LEMMA FetchUpToDate ==
  ASSUME CoverInv, NEW r \in Request, Fetch(r)
  PROVE  UpToDate'
<1> SUFFICES ASSUME MaxInFlight = 1 PROVE UpToDate'
  BY DEF UpToDate
<1>1. (\A q \in Request : call[q] = NoCall) /\ overdue = {}
  BY NobodyElse DEF Fetch
<1>2. UNCHANGED <<contract, lift, overdue>>
  BY DEF Fetch, records
<1>3. \/ \E c \in Contract : call' = [call EXCEPT ![r] = [on |-> c, row |-> contract[c]]]
      \/ \E l \in Lift : call' = [call EXCEPT ![r] = [on |-> l, row |-> [status |-> lift[l]]]]
  BY DEF Fetch
<1>4. \A q \in Request \ {r} : call'[q] = NoCall
  BY <1>1, <1>3 DEF CoverInv, HistoryInv, TypeOK
<1>5. NoCall.on \notin Contract \cup Lift
  BY ContractsAssumption DEF NoCall
<1>6. CASE \E c \in Contract : call' = [call EXCEPT ![r] = [on |-> c, row |-> contract[c]]]
  <2>1. PICK c \in Contract : call'[r] = [on |-> c, row |-> contract[c]]
    BY <1>6 DEF CoverInv, HistoryInv, TypeOK
  <2> QED
    BY <1>1, <1>2, <1>4, <1>5, <2>1, ContractsAssumption DEF UpToDate
<1>7. CASE \E l \in Lift : call' = [call EXCEPT ![r] = [on |-> l, row |-> [status |-> lift[l]]]]
  <2>1. PICK l \in Lift : call'[r] = [on |-> l, row |-> [status |-> lift[l]]]
    BY <1>7 DEF CoverInv, HistoryInv, TypeOK
  <2> QED
    BY <1>1, <1>2, <1>4, <1>5, <2>1, ContractsAssumption DEF UpToDate
<1> QED
  BY <1>3, <1>6, <1>7

LEMMA ActUpToDate ==
  ASSUME CoverInv, NEW r \in Request, Act(r)
  PROVE  UpToDate'
<1> SUFFICES ASSUME MaxInFlight = 1 PROVE UpToDate'
  BY DEF UpToDate
<1>1. call[r] # NoCall
  <2>1. \/ \E x \in Contract \cup Lift : call[r].on = x
        \/ call[r] # NoCall
    BY DEF Act, AddElevators, RemoveElevator, Patch, Terminate, Delete, Renew, PatchLift, GiveUp
  <2> QED
    BY <2>1, ContractsAssumption DEF NoCall
<1>2. call' = [call EXCEPT ![r] = NoCall]
  BY ActRecords DEF CoverInv, Answer
<1>3. \A q \in Request : call'[q] = NoCall
  BY <1>1, <1>2 DEF CoverInv, UpToDate, HistoryInv, TypeOK
<1> QED
  BY <1>3, RestIsUpToDate

(* A step that starts only when nobody else is at work, or takes none of   *)
(* what was fetched.                                                       *)
LEMMA OthersUpToDate ==
  ASSUME CoverInv, UNCHANGED call,
         \/ InFlight < MaxInFlight
         \/ overdue # {}
         \/ UNCHANGED <<contract, lift, overdue>>
  PROVE  UpToDate'
<1> SUFFICES ASSUME MaxInFlight = 1 PROVE UpToDate'
  BY DEF UpToDate
<1>1. CASE InFlight < MaxInFlight \/ overdue # {}
  <2>1. \A r \in Request : call[r] = NoCall
    BY <1>1, NobodyElse DEF CoverInv, UpToDate
  <2> QED
    BY <2>1, RestIsUpToDate
<1>2. CASE UNCHANGED <<contract, lift, overdue>>
  BY <1>2 DEF CoverInv, UpToDate
<1> QED
  BY <1>1, <1>2

(* A change of cover leaves each lift to one contract, and off the list of *)
(* what needs one while it has one.                                        *)
LEMMA CoverKept ==
  ASSUME OneCover, LiftsInTurn => UncontractedMeansUncovered, CoverChange
  PROVE  OneCover' /\ (LiftsInTurn => UncontractedMeansUncovered)'
<1>1. ASSUME NEW l \in Lift, NEW c \in Contract, NEW d \in Contract, Open(c, l)', Open(d, l)'
      PROVE  c = d
  BY <1>1 DEF OneCover, CoverChange, Leaves, Takes, LetsGo, PassesOn
<1>2. ASSUME LiftsInTurn, NEW l \in Lift, lift'[l] = "uncontracted", NEW c \in Contract, Open(c, l)'
      PROVE  FALSE
  <2>1. \A d \in Contract : Open(d, l) => lift[l] # "uncontracted"
    BY <1>2 DEF UncontractedMeansUncovered, Covered
  <2>2. ~Leaves(l)
    BY <1>2, <2>1 DEF Leaves
  <2>3. ~Takes(l)
    BY <1>2 DEF Takes
  <2>4. ~LetsGo(l)
    BY <1>2 DEF LetsGo, OneCover
  <2>5. ~PassesOn(l)
    BY <1>2, <2>1 DEF PassesOn
  <2> QED
    BY <2>2, <2>3, <2>4, <2>5 DEF CoverChange
<1>3. OneCover'
  BY <1>1 DEF OneCover
<1>4. (LiftsInTurn => UncontractedMeansUncovered)'
  BY <1>2 DEF LiftsInTurn, UncontractedMeansUncovered, Covered
<1> QED
  BY <1>3, <1>4

LEMMA CoverInit == Init => CoverInv
<1> SUFFICES ASSUME Init PROVE CoverInv
  OBVIOUS
<1>1. \A c \in Contract, l \in Lift : ~Open(c, l)
  BY DEF Init, Open
<1>2. UpToDate
  BY ContractsAssumption DEF Init, UpToDate, NoCall
<1> QED
  BY <1>1, <1>2, HistoryInit DEF CoverInv, OneCover, UncontractedMeansUncovered, Covered

LEMMA CoverStepKeeps ==
  ASSUME CoverInv, [Next]_vars
  PROVE  CoverInv' /\ (CoverStepOf \/ UNCHANGED vars)
<1>1. HistoryInv'
  BY HistoryStep DEF CoverInv
<1>2. CASE UNCHANGED vars
  BY <1>1, <1>2 DEF vars, records, CoverInv, OneCover, UpToDate, UncontractedMeansUncovered,
                    Covered, Open, LiftsInTurn
<1>3. ASSUME Next PROVE CoverStepOf /\ UpToDate'
  <2>1. CASE \E r \in Request : Fetch(r)
    BY <2>1, FetchUpToDate, NothingFinished DEF Fetch, records
  <2>2. CASE \E r \in Request : Act(r)
    BY <2>2, ActCover, ActUpToDate
  <2>3. CASE \E c \in Contract, status \in {"draft", "active", "expired"},
               start \in StartDays, end \in EndDays, auto \in BOOLEAN :
               Create(c, status, start, end, auto)
    <3>1. UNCHANGED call /\ InFlight < MaxInFlight
      BY <2>3 DEF Create
    <3> QED
      BY <2>3, <3>1, CreateCover, OthersUpToDate DEF CoverInv
  <2>4. CASE \E l \in Lift : StopOrRestore(l)
    <3>1. UNCHANGED call /\ InFlight < MaxInFlight
      BY <2>4 DEF StopOrRestore
    <3> QED
      BY <2>4, <3>1, StopOrRestoreCover, OthersUpToDate DEF CoverInv
  <2>5. CASE StartExpiry
    BY <2>5, OthersUpToDate, NothingFinished DEF StartExpiry, records
  <2>6. CASE \E o \in overdue : Expire(o)
    <3>1. UNCHANGED call /\ overdue # {}
      BY <2>6 DEF Expire
    <3> QED
      BY <2>6, <3>1, ExpireCover, OthersUpToDate DEF CoverInv
  <2>7. CASE Tick
    BY <2>7, OthersUpToDate, NothingFinished DEF Tick, records
  <2> QED
    BY <1>3, <2>1, <2>2, <2>3, <2>4, <2>5, <2>6, <2>7 DEF Next
<1>4. CASE Next
  BY <1>1, <1>3, <1>4, CoverKept DEF CoverInv, CoverStepOf
<1> QED
  BY <1>2, <1>3, <1>4

LEMMA CoverInvariant == Spec => []CoverInv
<1>1. CoverInv /\ [Next]_vars => CoverInv'
  BY CoverStepKeeps
<1> QED
  BY CoverInit, <1>1, PTL DEF Spec

(* However many requests act on rows fetched however long ago, no lift is  *)
(* ever on two contracts (add_elevators' check, and what remove_elevator,  *)
(* terminate, renew and expire close).                                     *)
THEOREM OneContractCovers == Spec => []OneCover
<1>1. CoverInv => OneCover
  BY DEF CoverInv
<1> QED
  BY CoverInvariant, <1>1, PTL

(* A lift that has cover is never on the list of what needs a contract, as *)
(* long as no PATCH of a lift writes back a status fetched before another  *)
(* request changed it.                                                     *)
THEOREM UncontractedAlwaysUncovered ==
  ASSUME LiftsInTurn
  PROVE  Spec => []UncontractedMeansUncovered
<1>1. CoverInv => UncontractedMeansUncovered
  BY DEF CoverInv
<1> QED
  BY CoverInvariant, <1>1, PTL

(* terminate, renew and the job let every lift go, or hand it on to the    *)
(* contract that renews theirs, as long as no PATCH writes back the status *)
(* of a contract fetched before another request changed it.                *)
THEOREM FinishingAlwaysLetsGo ==
  ASSUME ContractsInTurn
  PROVE  Spec => FinishingLetsGo
<1>1. CoverInv /\ [Next]_vars =>
        [\A c \in Contract :
           (contract[c].status # contract'[c].status
              /\ contract'[c].status \in {"terminated", "renewed"})
           => \A l \in Lift : Open(c, l) =>
                /\ ~Open(c, l)'
                /\ \/ lift'[l] = "uncontracted"
                   \/ \E s \in Contract : contract'[s].previous = c /\ Open(s, l)']_vars
  <2>1. LettingGo =>
          \A c \in Contract :
           (contract[c].status # contract'[c].status
              /\ contract'[c].status \in {"terminated", "renewed"})
           => \A l \in Lift : Open(c, l) =>
                /\ ~Open(c, l)'
                /\ \/ lift'[l] = "uncontracted"
                   \/ \E s \in Contract : contract'[s].previous = c /\ Open(s, l)'
    BY DEF LettingGo, Finishes, Finished
  <2> QED
    BY <2>1, CoverStepKeeps DEF CoverStepOf
<1> QED
  BY CoverInvariant, <1>1, PTL DEF Spec, FinishingLetsGo

-----------------------------------------------------------------------------
(* The invariant                                                           *)

(* A row of the attachment table.                                          *)
Rows == [key : Uploads \cup Nat, server : BOOLEAN, deletedOn : Nat, cleared : BOOLEAN]

(* A worker whose mails are going out, and one that holds an object.       *)
Sending == {"mailing", "marking"}
Holding == {"building", "filed", "rendered"}

(* Where a worker may stand.                                               *)
Stances ==
    [at : {"idle", "queued"} \cup Sending \cup Holding, key : Nat, old : Nat,
     to : SUBSET Contacts, read : SUBSET Contacts, who : Contacts \cup {Nothing}]

(* The table, the bucket, the uploads and the sweep.                       *)
FilesTyped ==
    /\ date \in Days /\ keys \in Nat /\ bucket \subseteq Uploads \cup 1 .. keys
    /\ files \in Seq(Rows) /\ sweeping \in 0 .. Len(files)
    /\ uploads \in [Uploads -> {"none", "signed", "put"}]
    /\ confirming \in [Clients -> Uploads \cup {Nothing}]

(* The report, its schedulers and its workers.  A day is claimed once.     *)
RunsTyped ==
    /\ report \in CustomerReport \cup {NoReport}
    /\ ticked \subseteq Contacts
    /\ ticking \in [Schedulers -> 0 .. LastDay]
    /\ enqueued \in [Days -> 0 .. 1]
    /\ work \in [Workers -> Stances]
    /\ jobMailed \in [Contacts -> 0 .. 1]
    /\ steady \in BOOLEAN /\ bounced \subseteq Contacts

(* A worker stands where its day, its object and the report allow: the     *)
(* month is filed once.                                                    *)
PlacesInv ==
    /\ \A d \in Days : enqueued[d] = 0 => work[d] = Idle
    /\ \A w \in Workers :
         /\ work[w].at \in {"queued", "building", "filed"} => w \in Days
         /\ work[w].at \in Holding <=> work[w].key # 0
         /\ work[w].at \in Sending \cup {"rendered"} => report # NoReport
         /\ work[w].at = "marking" => work[w].who \in Contacts
         /\ work[w].at = "filed" => report = NoReport
    /\ \A d, e \in Days : At(d, "filed") /\ At(e, "filed") => d = e

(* One run mails the month, and nobody it has yet to mail was mailed       *)
(* before.                                                                 *)
MailsInv ==
    /\ report = NoReport => \A c \in Contacts : jobMailed[c] = 0
    /\ \A d, e \in Days : work[d].at \in Sending /\ work[e].at \in Sending => d = e
    /\ \A d \in Days : work[d].at \in Sending => \A c \in work[d].to : jobMailed[c] = 0

(* What the newest send is known to have missed, while nothing overlapped  *)
(* it.                                                                     *)
RecordInv ==
    /\ report = NoReport => bounced = {}
    /\ report # NoReport => (report.delivery = "failed" <=> report.failed # {})
    /\ steady =>
         /\ \A v, w \in Workers : work[v].at \in Sending /\ work[w].at \in Sending => v = w
         /\ report # NoReport /\ (\A w \in Workers : work[w].at # "marking") => report.failed = bounced
         /\ \A w \in Workers : work[w].at = "marking" =>
              work[w].read = report.failed /\ bounced = report.failed \cup {work[w].who}

(* A key of the server's is one row's, or one worker's who has put its     *)
(* object.                                                                 *)
KeysInv ==
    /\ \A f \in DOMAIN files : files[f].key \in Uploads \cup 1 .. keys
    /\ \A f, g \in DOMAIN files : files[f].key = files[g].key /\ files[f].key \notin Uploads => f = g
    /\ \A w \in Workers : work[w].key # 0 =>
         /\ work[w].key \in bucket
         /\ \A f \in DOMAIN files : files[f].key # work[w].key
         /\ \A v \in Workers : work[v].key = work[w].key => v = w
    /\ \A w \in Workers : work[w].at = "rendered" => work[w].old \in DOMAIN files
    /\ \A u \in Uploads : u \in bucket \/ RowsOf(u) # {} => uploads[u] = "put"

(* What the bucket holds, and the report's own file among it.              *)
ObjectsInv ==
    /\ SweptMeansGone /\ OrphansOnlyFromCrashes
    /\ sweeping # 0 => files[sweeping].deletedOn # 0 /\ files[sweeping].key \notin bucket
    /\ report # NoReport =>
         /\ report.file \in DOMAIN files /\ LiveFile(report.file)
         /\ files[report.file].server /\ files[report.file].key \in bucket \ Uploads

(* The mails and the record of them; the files and the objects behind them. *)
Doings == RunsTyped /\ PlacesInv /\ MailsInv /\ RecordInv
Stores == FilesTyped /\ KeysInv /\ ObjectsInv

ReportsInv == Stores /\ Doings

-----------------------------------------------------------------------------
(* Who works and where they stand                                          *)

(* Days and the office's requests are two kinds of worker, and a report is *)
(* not nothing.                                                            *)
LEMMA Separate ==
  /\ \A o \in Office : o \notin Days /\ o \in Workers
  /\ \A d \in Days : d \in Workers /\ d \notin Office /\ d \in Nat
  /\ \A w \in Workers : w \in Days \/ w \in Office
  /\ NoReport \notin CustomerReport
BY ReportsAssumption DEF Days, Workers, NoReport

(* A worker that rests.                                                    *)
LEMMA IdleIs ==
  /\ Idle \in Stances /\ Idle.at = "idle" /\ Idle.key = 0 /\ Idle.to = {}
  /\ Idle.at \notin Sending /\ Idle.at \notin Holding
BY DEF Idle, Stances, Sending, Holding

(* A worker with mails to send.                                            *)
LEMMA MailingIs ==
  ASSUME NEW to \in SUBSET Contacts
  PROVE  /\ Mailing(to) \in Stances /\ Mailing(to).key = 0 /\ Mailing(to).to = to
         /\ Mailing(to).at \in {"idle", "mailing"} /\ Mailing(to).at \notin Holding
         /\ to = {} => Mailing(to) = Idle
         /\ to # {} => Mailing(to).at = "mailing"
         /\ Mailing(to).at = "idle" => Mailing(to) = Idle
<1>1. CASE to = {}
  BY <1>1, IdleIs DEF Mailing
<1>2. CASE to # {}
  <2>1. Mailing(to) = [at |-> "mailing", key |-> 0, old |-> 0, to |-> to, read |-> {}, who |-> Nothing]
    BY <1>2 DEF Mailing, Idle
  <2>2. Mailing(to) \in Stances
    BY <2>1 DEF Stances, Sending
  <2>3. QED
    BY <1>2, <2>1, <2>2 DEF Holding
<1>3. QED
  BY <1>1, <1>2

(* One worker moves, the others stay.                                      *)
LEMMA Became ==
  ASSUME RunsTyped, NEW w \in Workers, NEW s \in Stances, Becomes(w, s)
  PROVE  /\ work' \in [Workers -> Stances] /\ work'[w] = s
         /\ \A v \in Workers : v # w => work'[v] = work[v]
BY DEF RunsTyped, Becomes

(* What happens elsewhere is nothing to the runs. *)
LEMMA DoingsElsewhere ==
  ASSUME Doings, UNCHANGED <<report, enqueued, work, jobMailed, steady, bounced>>,
         ticked' \subseteq Contacts, ticking' \in [Schedulers -> 0 .. LastDay]
  PROVE  Doings'
BY DEF Doings, RunsTyped, PlacesInv, MailsInv, RecordInv, At

(* A worker that sends nothing goes on to something that sends nothing. *)
LEMMA DoingsQuiet ==
  ASSUME Doings, NEW w \in Workers, NEW s \in Stances, Becomes(w, s),
         UNCHANGED <<report, ticked, ticking, jobMailed, steady, bounced>>,
         enqueued' \in [Days -> 0 .. 1],
         \A d \in Days : enqueued'[d] = 0 => enqueued[d] = 0 /\ (d = w => s = Idle),
         work[w].at \notin Sending, s.at \notin Sending,
         s.at \in {"queued", "building", "filed"} => w \in Days,
         s.at \in Holding <=> s.key # 0,
         s.at = "rendered" => report # NoReport,
         s.at = "filed" => report = NoReport /\ \A e \in Days \ {w} : ~At(e, "filed")
  PROVE  Doings'
<1>1. /\ work' \in [Workers -> Stances] /\ work'[w] = s
      /\ \A v \in Workers : v # w => work'[v] = work[v]
  BY Became DEF Doings
<1>2. Days \subseteq Workers
  BY Separate
<1>3. RunsTyped'
  BY <1>1 DEF Doings, RunsTyped
<1>4. PlacesInv'
  BY <1>1, <1>2 DEF Doings, PlacesInv, At, Sending
<1>5. MailsInv'
  BY <1>1, <1>2 DEF Doings, MailsInv
<1>6. RecordInv'
  BY <1>1 DEF Doings, RecordInv, Sending
<1>7. QED
  BY <1>3, <1>4, <1>5, <1>6 DEF Doings

(* A scheduler ticks within the days there are.                            *)
LEMMA TicksTyped ==
  ASSUME Doings, NEW x \in Schedulers
  PROVE  /\ date \in Days => [ticking EXCEPT ![x] = date] \in [Schedulers -> 0 .. LastDay]
         /\ [ticking EXCEPT ![x] = 0] \in [Schedulers -> 0 .. LastDay]
         /\ ticking[x] # 0 => ticking[x] \in Days
         /\ ticked \subseteq Contacts
BY AttachmentsAssumption DEF Doings, RunsTyped, Days

(* enqueue_due: a day is claimed by one scheduler.                         *)
LEMMA TickClaimsKept ==
  ASSUME Doings, NEW x \in Schedulers, TickClaims(x)
  PROVE  Doings'
<1> DEFINE d == ticking[x]
<1>1. /\ d # 0 /\ ticking' = [ticking EXCEPT ![x] = 0]
      /\ IF enqueued[d] = 0
         THEN /\ enqueued' = [enqueued EXCEPT ![d] = @ + 1]
              /\ Becomes(d, [Idle EXCEPT !.at = "queued"])
         ELSE UNCHANGED <<enqueued, work>>
      /\ UNCHANGED <<report, ticked, jobMailed, steady, bounced>>
  BY DEF TickClaims, Unclaimed
<1>2. d \in Days /\ d \in Workers /\ ticking' \in [Schedulers -> 0 .. LastDay]
  BY <1>1, TicksTyped, Separate
<1>3. CASE enqueued[d] # 0
  BY <1>1, <1>2, <1>3, TicksTyped, DoingsElsewhere
<1>4. CASE enqueued[d] = 0
  <2>1. PICK s : s = [Idle EXCEPT !.at = "queued"]
    OBVIOUS
  <2>2. s \in Stances /\ s.at = "queued" /\ s.key = 0 /\ s.at \notin Sending /\ s.at \notin Holding
    BY <2>1 DEF Idle, Stances, Sending, Holding
  <2>3. work[d].at \notin Sending
    BY <1>2, <1>4, IdleIs DEF Doings, PlacesInv
  <2>4. /\ enqueued' \in [Days -> 0 .. 1] /\ enqueued'[d] = 1
        /\ \A e \in Days : e # d => enqueued'[e] = enqueued[e]
    BY <1>1, <1>2, <1>4 DEF Doings, RunsTyped
  <2>5. RunsTyped /\ RunsTyped' /\ Becomes(d, s)
    <3>1. Becomes(d, s)
      BY <1>1, <1>4, <2>1
    <3>2. RunsTyped
      BY DEF Doings
    <3>3. work' \in [Workers -> Stances]
      BY <1>2, <2>2, <3>1, <3>2, Became
    <3>4. QED
      BY <1>1, <1>2, <2>4, <3>1, <3>2, <3>3 DEF RunsTyped
  <2>6. work'[d] = s /\ \A v \in Workers : v # d => work'[v] = work[v]
    BY <1>2, <2>2, <2>5, Became
  <2>7. PlacesInv' /\ MailsInv' /\ RecordInv'
    <3>1. Days \subseteq Workers
      BY Separate
    <3>2. PlacesInv'
      BY <1>1, <1>2, <2>2, <2>4, <2>6, <3>1 DEF Doings, PlacesInv, At, Sending
    <3>3. MailsInv'
      BY <1>1, <2>2, <2>6, <3>1 DEF Doings, MailsInv
    <3>4. RecordInv'
      BY <1>1, <2>2, <2>3, <2>6 DEF Doings, RecordInv, Sending
    <3>5. QED
      BY <3>2, <3>3, <3>4
  <2>8. QED
    BY <2>5, <2>7 DEF Doings
<1>5. QED
  BY <1>3, <1>4

(* generate: the job reaches the customer.                                 *)
LEMMA JobLooksKept ==
  ASSUME Doings, FilesTyped, NEW d \in Days, JobLooks(d)
  PROVE  Doings'
<1>1. /\ work[d].at = "queued" /\ UNCHANGED <<report, ticked, ticking, enqueued, jobMailed, steady, bounced>>
      /\ \/ Becomes(d, Idle)
         \/ Becomes(d, [Idle EXCEPT !.at = "building", !.key = keys + 1])
  BY DEF JobLooks, At
<1>2. d \in Workers /\ keys + 1 \in Nat \ {0}
  BY Separate DEF FilesTyped
<1>3. enqueued' \in [Days -> 0 .. 1] /\ enqueued[d] # 0
  BY <1>1, IdleIs DEF Doings, RunsTyped, PlacesInv
<1>4. CASE Becomes(d, Idle)
  BY <1>1, <1>2, <1>3, <1>4, IdleIs, DoingsQuiet DEF Sending
<1>5. CASE Becomes(d, [Idle EXCEPT !.at = "building", !.key = keys + 1])
  <2>1. PICK s : /\ s = [Idle EXCEPT !.at = "building", !.key = keys + 1]
    OBVIOUS
  <2>2. s \in Stances /\ s.at = "building" /\ s.key # 0 /\ s.at \notin Sending /\ s.at \in Holding
    BY <1>2, <2>1 DEF Idle, Stances, Sending, Holding
  <2>3. QED
    BY <1>1, <1>2, <1>3, <1>5, <2>1, <2>2, DoingsQuiet DEF Sending
<1>6. QED
  BY <1>1, <1>4, <1>5

(* The insert waits for an uncommitted one, and finds the month taken or   *)
(* not.                                                                    *)
LEMMA JobInsertsKept ==
  ASSUME Doings, NEW d \in Days, JobInserts(d)
  PROVE  Doings'
<1>1. /\ work[d].at = "building" /\ UNCHANGED <<report, ticked, ticking, enqueued, jobMailed, steady, bounced>>
      /\ \A e \in Days \ {d} : ~At(e, "filed")
      /\ \/ Becomes(d, Idle)
         \/ report = NoReport /\ Becomes(d, [work[d] EXCEPT !.at = "filed"])
  BY DEF JobInserts, At, InsertWaits, MonthTaken
<1>2. d \in Workers
  BY Separate
<1>3. enqueued' \in [Days -> 0 .. 1] /\ enqueued[d] # 0
  BY <1>1, IdleIs DEF Doings, RunsTyped, PlacesInv
<1>4. CASE Becomes(d, Idle)
  BY <1>1, <1>2, <1>3, <1>4, IdleIs, DoingsQuiet DEF Sending
<1>5. CASE report = NoReport /\ Becomes(d, [work[d] EXCEPT !.at = "filed"])
  <2>1. PICK s : /\ s = [work[d] EXCEPT !.at = "filed"]
    OBVIOUS
  <2>2. work[d] \in Stances /\ work[d].key # 0
    BY <1>1, <1>2 DEF Doings, RunsTyped, PlacesInv, Holding
  <2>3. s \in Stances /\ s.at = "filed" /\ s.key # 0 /\ s.at \notin Sending /\ s.at \in Holding
    BY <2>1, <2>2 DEF Stances, Sending, Holding
  <2>4. QED
    BY <1>1, <1>2, <1>3, <1>5, <2>1, <2>3, DoingsQuiet DEF Sending
<1>6. QED
  BY <1>1, <1>4, <1>5

(* The customer's transaction is rolled back.                              *)
LEMMA JobFailsKept ==
  ASSUME Doings, NEW d \in Days, JobFails(d)
  PROVE  Doings'
<1>1. /\ work[d].at \in {"building", "filed"} /\ Becomes(d, Idle)
      /\ UNCHANGED <<report, ticked, ticking, enqueued, jobMailed, steady, bounced>>
  BY DEF JobFails, At
<1>2. d \in Workers
  BY Separate
<1>3. enqueued' \in [Days -> 0 .. 1]
  BY <1>1 DEF Doings, RunsTyped
<1>4. QED
  BY <1>1, <1>2, <1>3, IdleIs, DoingsQuiet DEF Sending

(* regenerate puts the new PDF.                                            *)
LEMMA RegenerateStoresKept ==
  ASSUME Doings, FilesTyped, NEW o \in Office, RegenerateStores(o)
  PROVE  Doings'
<1>1. /\ work[o].at = "idle" /\ report # NoReport
      /\ UNCHANGED <<report, ticked, ticking, enqueued, jobMailed, steady, bounced>>
      /\ Becomes(o, [Idle EXCEPT !.at = "rendered", !.key = keys + 1, !.old = report.file])
  BY DEF RegenerateStores, At
<1>2. o \in Workers /\ o \notin Days /\ keys + 1 \in Nat \ {0} /\ report.file \in Nat
  BY <1>1, Separate DEF FilesTyped, Doings, RunsTyped, CustomerReport
<1>3. enqueued' \in [Days -> 0 .. 1]
  BY <1>1 DEF Doings, RunsTyped
<1>4. PICK s : s = [Idle EXCEPT !.at = "rendered", !.key = keys + 1, !.old = report.file]
  OBVIOUS
<1>5. s \in Stances /\ s.at = "rendered" /\ s.key # 0 /\ s.at \notin Sending /\ s.at \in Holding
  BY <1>2, <1>4 DEF Idle, Stances, Sending, Holding
<1>6. QED
  BY <1>1, <1>2, <1>3, <1>4, <1>5, DoingsQuiet DEF Sending

(* regenerate points the report at it.                                     *)
LEMMA RegenerateSavesKept ==
  ASSUME Doings, FilesTyped, NEW o \in Office, RegenerateSaves(o)
  PROVE  Doings'
<1>1. /\ work[o].at = "rendered" /\ report' = [report EXCEPT !.file = Len(files) + 1]
      /\ UNCHANGED <<ticked, ticking, enqueued, jobMailed, steady, bounced>> /\ Becomes(o, Idle)
  BY DEF RegenerateSaves, At
<1>2. o \in Workers /\ o \notin Days /\ Days \subseteq Workers /\ Len(files) + 1 \in Nat
  BY Separate DEF FilesTyped
<1>3. /\ work' \in [Workers -> Stances] /\ work'[o] = Idle
      /\ \A v \in Workers : v # o => work'[v] = work[v]
  BY <1>1, <1>2, IdleIs, Became DEF Doings
<1>4. report \in CustomerReport /\ NoReport \notin CustomerReport
  BY <1>1, <1>2, Separate DEF Doings, RunsTyped, PlacesInv
<1>5. /\ report' \in CustomerReport /\ report'.delivery = report.delivery /\ report'.failed = report.failed
      /\ report # NoReport /\ report' # NoReport
  BY <1>1, <1>2, <1>4 DEF CustomerReport
<1>6. RunsTyped'
  BY <1>1, <1>3, <1>5 DEF Doings, RunsTyped
<1>7. PlacesInv'
  BY <1>1, <1>2, <1>3, <1>5, IdleIs DEF Doings, PlacesInv, At, Sending, Holding
<1>8. MailsInv'
  BY <1>1, <1>2, <1>3, <1>5, IdleIs DEF Doings, MailsInv
<1>9. RecordInv'
  BY <1>1, <1>3, <1>5, IdleIs DEF Doings, RecordInv, Sending
<1>10. QED
  BY <1>6, <1>7, <1>8, <1>9 DEF Doings

(* A report is sent: SENT and no failure yet, whatever was on record. *)
LEMMA SendsKept ==
  ASSUME Doings, NEW w \in Workers, NEW r \in CustomerReport, NEW to \in SUBSET Contacts,
         Sends(w, r, to), UNCHANGED <<ticked, ticking, enqueued, jobMailed>>,
         work[w].at \notin Sending,
         w \in Days => enqueued[w] # 0 /\ work[w].at = "filed",
         report = NoReport => w \in Days,
         report # NoReport => w \in Office
  PROVE  Doings'
<1>1. /\ report' = [r EXCEPT !.delivery = "sent", !.recipients = to, !.failed = {}]
      /\ Becomes(w, Mailing(to)) /\ bounced' = {}
      /\ steady' = (\A v \in Workers \ {w} : work[v].at \notin Sending)
  BY DEF Sends, SentTo, Sending
<1>2. /\ report' \in CustomerReport /\ report'.delivery = "sent" /\ report'.failed = {} /\ report' # NoReport
  <2>1. report' \in CustomerReport /\ report'.delivery = "sent" /\ report'.failed = {}
    BY <1>1 DEF CustomerReport
  <2>2. QED
    BY <2>1, Separate
<1>3. PICK s : s = Mailing(to)
  OBVIOUS
<1>4. /\ s \in Stances /\ s.key = 0 /\ s.to = to /\ s.at \in {"idle", "mailing"} /\ s.at \notin Holding
      /\ s.at = "idle" => s = Idle
  BY <1>3, MailingIs
<1>5. /\ work' \in [Workers -> Stances] /\ work'[w] = s
      /\ \A v \in Workers : v # w => work'[v] = work[v]
  BY <1>1, <1>3, <1>4, Became DEF Doings
<1>6. Days \subseteq Workers /\ \A d \in Days : d \notin Office
  BY Separate
<1>7. RunsTyped'
  BY <1>1, <1>2, <1>5 DEF Doings, RunsTyped
<1>8. report = NoReport => \A v \in Workers : work[v].at \notin Sending
  BY DEF Doings, PlacesInv
<1>9. PlacesInv'
  <2>1. \A d \in Days : enqueued'[d] = 0 => work'[d] = Idle
    BY <1>5, <1>6 DEF Doings, PlacesInv
  <2>2. ASSUME NEW v \in Workers
        PROVE  /\ work'[v].at \in {"queued", "building", "filed"} => v \in Days
               /\ work'[v].at \in Holding <=> work'[v].key # 0
               /\ work'[v].at = "marking" => work'[v].who \in Contacts
               /\ work'[v].at = "filed" => work'[v] = work[v] /\ work[v].at = "filed"
    <3>1. CASE v = w
      BY <1>4, <1>5, <3>1
    <3>2. CASE v # w
      BY <1>5, <3>2 DEF Doings, PlacesInv
    <3>3. QED
      BY <3>1, <3>2
  <2>3. ASSUME NEW v \in Workers, work'[v].at = "filed" PROVE FALSE
    <3>1. v # w /\ work[v].at = "filed" /\ v \in Days /\ report = NoReport
      BY <1>4, <1>5, <2>2, <2>3 DEF Doings, PlacesInv
    <3>2. w \in Days /\ work[w].at = "filed"
      BY <3>1
    <3>3. QED
      BY <3>1, <3>2 DEF Doings, PlacesInv, At
  <2>4. QED
    BY <1>2, <1>6, <2>1, <2>2, <2>3 DEF PlacesInv, At
<1>10. MailsInv'
  <2>1. ASSUME NEW d \in Days, work'[d].at \in Sending
        PROVE  (d = w /\ report = NoReport) \/ (d # w /\ work[d].at \in Sending /\ work'[d] = work[d] /\ report # NoReport)
    <3>1. CASE d = w
      BY <1>6, <3>1
    <3>2. CASE d # w
      BY <1>5, <1>6, <1>8, <2>1, <3>2
    <3>3. QED
      BY <3>1, <3>2
  <2>2. ASSUME NEW d \in Days, work'[d].at \in Sending, NEW c \in work'[d].to PROVE jobMailed'[c] = 0
    <3>1. CASE d = w /\ report = NoReport
      <4>1. c \in Contacts
        BY <1>4, <1>5, <2>2, <3>1
      <4>2. QED
        BY <3>1, <4>1 DEF Doings, MailsInv
    <3>2. CASE work[d].at \in Sending /\ work'[d] = work[d]
      BY <2>2, <3>2 DEF Doings, MailsInv
    <3>3. QED
      BY <2>1, <2>2, <3>1, <3>2
  <2>3. QED
    BY <1>2, <2>1, <2>2 DEF Doings, MailsInv
<1>11. RecordInv'
  <2>1. ASSUME NEW v \in Workers PROVE work'[v].at = "marking" => work[v].at = "marking" /\ v # w
    BY <1>4, <1>5
  <2>2. ASSUME NEW v \in Workers, work[v].at = "marking", v # w, steady' PROVE FALSE
    BY <1>1, <2>2 DEF Sending
  <2>3. ASSUME steady', NEW v \in Workers, work'[v].at \in Sending PROVE v = w
    BY <1>1, <1>5, <2>3
  <2>4. QED
    BY <1>1, <1>2, <2>1, <2>2, <2>3 DEF RecordInv
<1>12. QED
  BY <1>7, <1>9, <1>10, <1>11 DEF Doings

(* send, again.                                                            *)
LEMMA OfficeSendsKept ==
  ASSUME Doings, NEW o \in Office, OfficeSends(o)
  PROVE  Doings'
<1>1. /\ work[o].at = "idle" /\ report # NoReport /\ Sends(o, report, ticked)
      /\ UNCHANGED <<ticked, ticking, enqueued, jobMailed>>
  BY DEF OfficeSends, At, Recipients
<1>2. report \in CustomerReport /\ ticked \in SUBSET Contacts
  BY <1>1 DEF Doings, RunsTyped
<1>3. o \in Workers /\ o \notin Days
  BY Separate
<1>4. QED
  BY <1>1, <1>2, <1>3, SendsKept DEF Sending

(* The report, its file and its delivery are committed.                    *)
LEMMA JobDeliversKept ==
  ASSUME Doings, FilesTyped, NEW d \in Days, JobDelivers(d)
  PROVE  Doings'
<1>1. /\ work[d].at = "filed" /\ UNCHANGED <<ticked, ticking, enqueued, jobMailed>>
      /\ \/ /\ \E how \in {"not_enabled", "no_recipient"} : report' = [Drafted EXCEPT !.delivery = how]
            /\ Becomes(d, Idle) /\ UNCHANGED <<steady, bounced>>
         \/ Sends(d, Drafted, ticked)
  BY DEF JobDelivers, At, Recipients
<1>2. d \in Workers /\ d \notin Office /\ Days \subseteq Workers /\ ticked \in SUBSET Contacts
  BY Separate DEF Doings, RunsTyped
<1>3. Drafted \in CustomerReport
  BY DEF Drafted, CustomerReport, FilesTyped
<1>4. report = NoReport /\ enqueued[d] # 0
  BY <1>1, <1>2, IdleIs DEF Doings, PlacesInv
<1>5. CASE Sends(d, Drafted, ticked)
  BY <1>1, <1>2, <1>3, <1>4, <1>5, SendsKept DEF Sending
<1>6. ASSUME NEW how \in {"not_enabled", "no_recipient"}, report' = [Drafted EXCEPT !.delivery = how],
             Becomes(d, Idle), UNCHANGED <<steady, bounced>>
      PROVE  Doings'
  <2>1. report' \in CustomerReport /\ report'.delivery # "failed" /\ report'.failed = {}
    BY <1>3, <1>6 DEF Drafted, CustomerReport
  <2>2. report' # NoReport
    BY <2>1, Separate
  <2>3. /\ work' \in [Workers -> Stances] /\ work'[d] = Idle
        /\ \A v \in Workers : v # d => work'[v] = work[v]
    BY <1>2, <1>6, IdleIs, Became DEF Doings
  <2>4. RunsTyped'
    BY <1>1, <1>6, <2>1, <2>3 DEF Doings, RunsTyped
  <2>5. \A v \in Workers : work[v].at \notin Sending /\ work'[v].at \notin Sending
    BY <1>4, <2>3, IdleIs DEF Doings, PlacesInv
  <2>6. \A v \in Workers : work'[v].at # "filed"
    BY <1>1, <2>3, IdleIs DEF Doings, PlacesInv, At
  <2>7. PlacesInv'
    BY <1>1, <1>2, <2>2, <2>3, <2>5, <2>6, IdleIs DEF Doings, PlacesInv, At, Sending
  <2>8. MailsInv'
    BY <1>2, <2>2, <2>5 DEF MailsInv
  <2>9. bounced' = {}
    BY <1>4, <1>6 DEF Doings, RecordInv
  <2>10. RecordInv'
    BY <2>1, <2>2, <2>5, <2>9 DEF RecordInv, Sending
  <2>11. QED
    BY <2>4, <2>7, <2>8, <2>10 DEF Doings
<1>7. QED
  BY <1>1, <1>5, <1>6

(* A mail leaves; the job sends nobody a second one.                       *)
LEMMA MailGoesKept ==
  ASSUME Doings, NEW w \in Workers, NEW c \in Contacts, MailGoes(w, c)
  PROVE  Doings'
<1>1. /\ work[w].at = "mailing" /\ c \in work[w].to /\ Becomes(w, Mailing(work[w].to \ {c}))
      /\ jobMailed' = IF w \in Days THEN [jobMailed EXCEPT ![c] = @ + 1] ELSE jobMailed
      /\ UNCHANGED <<report, ticked, ticking, enqueued, steady, bounced>>
  BY DEF MailGoes, At
<1>2. work[w].to \ {c} \in SUBSET Contacts /\ Days \subseteq Workers
  BY Separate DEF Doings, RunsTyped, Stances
<1>3. PICK s : s = Mailing(work[w].to \ {c})
  OBVIOUS
<1>4. /\ s \in Stances /\ s.key = 0 /\ s.to = work[w].to \ {c} /\ s.at \in {"idle", "mailing"}
      /\ s.at \notin Holding
      /\ s.at = "idle" => s = Idle
  BY <1>2, <1>3, MailingIs
<1>5. /\ work' \in [Workers -> Stances] /\ work'[w] = s
      /\ \A v \in Workers : v # w => work'[v] = work[v]
  BY <1>1, <1>3, <1>4, Became DEF Doings
<1>6. report # NoReport /\ report' # NoReport
  BY <1>1 DEF Doings, PlacesInv, Sending
<1>7. /\ jobMailed' \in [Contacts -> 0 .. 1]
      /\ \A e \in Contacts \ {c} : jobMailed'[e] = jobMailed[e]
      /\ w \notin Days => jobMailed' = jobMailed
  <2>1. w \in Days => jobMailed[c] = 0
    BY <1>1 DEF Doings, MailsInv, Sending
  <2>2. QED
    BY <1>1, <2>1 DEF Doings, RunsTyped
<1>8. RunsTyped'
  BY <1>1, <1>5, <1>7 DEF Doings, RunsTyped
<1>9. \A d \in Days : enqueued[d] = 0 => d # w
  BY <1>1, <1>2, IdleIs DEF Doings, PlacesInv
<1>10. PlacesInv'
  <2>1. ASSUME NEW v \in Workers
        PROVE  /\ work'[v].at \in {"queued", "building", "filed"} => v \in Days
               /\ work'[v].at \in Holding <=> work'[v].key # 0
               /\ work'[v].at = "marking" => work'[v].who \in Contacts
               /\ work'[v].at = "filed" => work[v].at = "filed"
    <3>1. CASE v = w
      BY <1>4, <1>5, <3>1
    <3>2. CASE v # w
      BY <1>5, <3>2 DEF Doings, PlacesInv
    <3>3. QED
      BY <3>1, <3>2
  <2>2. \A d \in Days : enqueued'[d] = 0 => work'[d] = Idle
    BY <1>1, <1>2, <1>5, <1>9 DEF Doings, PlacesInv
  <2>3. QED
    BY <1>2, <1>6, <2>1, <2>2 DEF Doings, PlacesInv, At
<1>11. MailsInv'
  <2>1. ASSUME NEW d \in Days, work'[d].at \in Sending
        PROVE  work[d].at \in Sending /\ work'[d].to \subseteq work[d].to /\ (d = w => c \notin work'[d].to)
    BY <1>1, <1>2, <1>4, <1>5, <2>1 DEF Sending
  <2>2. ASSUME NEW d \in Days, work'[d].at \in Sending, NEW e \in work'[d].to PROVE jobMailed'[e] = 0
    <3>1. work[d].at \in Sending /\ e \in work[d].to /\ e \in Contacts /\ jobMailed[e] = 0
      BY <1>2, <2>1, <2>2 DEF Doings, MailsInv, RunsTyped, Stances
    <3>2. CASE d = w
      BY <1>7, <2>1, <2>2, <3>1, <3>2
    <3>3. CASE d # w
      <4>1. w \notin Days
        BY <1>1, <3>1, <3>3 DEF Doings, MailsInv, Sending
      <4>2. QED
        BY <1>7, <3>1, <4>1
    <3>4. QED
      BY <3>2, <3>3
  <2>3. QED
    BY <1>6, <2>1, <2>2 DEF Doings, MailsInv
<1>12. RecordInv'
  <2>1. ASSUME NEW v \in Workers
        PROVE  /\ work'[v].at \in Sending => work[v].at \in Sending
               /\ work'[v].at = "marking" <=> work[v].at = "marking"
               /\ work'[v].at = "marking" => work'[v] = work[v]
    BY <1>1, <1>4, <1>5 DEF Sending
  <2>2. QED
    BY <1>1, <2>1 DEF Doings, RecordInv
<1>13. QED
  BY <1>8, <1>10, <1>11, <1>12 DEF Doings

(* A mail is refused, and the failures on record are read.                 *)
LEMMA MailBouncesKept ==
  ASSUME Doings, NEW w \in Workers, NEW c \in Contacts, MailBounces(w, c)
  PROVE  Doings'
<1>1. /\ work[w].at = "mailing" /\ c \in work[w].to /\ bounced' = bounced \cup {c}
      /\ Becomes(w, [work[w] EXCEPT !.at = "marking", !.who = c, !.read = report.failed])
      /\ UNCHANGED <<report, ticked, ticking, enqueued, jobMailed, steady>>
  BY DEF MailBounces, At
<1>2. Days \subseteq Workers /\ work[w] \in Stances
  BY Separate DEF Doings, RunsTyped
<1>3. report # NoReport /\ report \in CustomerReport
  BY <1>1 DEF Doings, PlacesInv, RunsTyped, Sending
<1>4. PICK s : s = [work[w] EXCEPT !.at = "marking", !.who = c, !.read = report.failed]
  OBVIOUS
<1>5. /\ s \in Stances /\ s.key = work[w].key /\ s.to = work[w].to /\ s.at = "marking"
      /\ s.who = c /\ s.read = report.failed /\ s.at \in Sending /\ s.at \notin Holding
  BY <1>2, <1>3, <1>4 DEF Stances, CustomerReport, Sending, Holding
<1>6. /\ work' \in [Workers -> Stances] /\ work'[w] = s
      /\ \A v \in Workers : v # w => work'[v] = work[v]
  BY <1>1, <1>4, <1>5, Became DEF Doings
<1>7. RunsTyped'
  BY <1>1, <1>6 DEF Doings, RunsTyped
<1>8. work[w].at \in Sending /\ work[w].at \notin Holding /\ work[w].key = 0
  BY <1>1 DEF Doings, PlacesInv, Sending, Holding
<1>9. \A d \in Days : enqueued[d] = 0 => d # w
  BY <1>1, IdleIs, <1>2 DEF Doings, PlacesInv
<1>10. PlacesInv'
  BY <1>1, <1>2, <1>3, <1>5, <1>6, <1>8, <1>9 DEF Doings, PlacesInv, At
<1>11. MailsInv'
  <2>1. ASSUME NEW d \in Days
        PROVE  /\ work'[d].at \in Sending <=> work[d].at \in Sending
               /\ work'[d].to = work[d].to
    BY <1>2, <1>5, <1>6, <1>8
  <2>2. QED
    BY <1>1, <2>1 DEF Doings, MailsInv
<1>12. RecordInv'
  <2>1. ASSUME NEW v \in Workers PROVE work'[v].at \in Sending <=> work[v].at \in Sending
    BY <1>5, <1>6, <1>8
  <2>2. ASSUME steady PROVE \A v \in Workers : work[v].at \in Sending => v = w
    BY <1>8, <2>2 DEF Doings, RecordInv
  <2>3. ASSUME steady PROVE report.failed = bounced
    <3>1. \A v \in Workers : work[v].at # "marking"
      BY <1>1, <2>2, <2>3 DEF Sending
    <3>2. QED
      BY <1>3, <2>3, <3>1 DEF Doings, RecordInv
  <2>4. ASSUME steady, NEW v \in Workers, work'[v].at = "marking" PROVE v = w
    BY <2>1, <2>2, <2>4 DEF Sending
  <2>5. QED
    BY <1>1, <1>3, <1>5, <1>6, <2>1, <2>2, <2>3, <2>4 DEF Doings, RecordInv
<1>13. QED
  BY <1>7, <1>10, <1>11, <1>12 DEF Doings

(* _mark_failed writes them back.                                          *)
LEMMA FailureMarkedKept ==
  ASSUME Doings, NEW w \in Workers, FailureMarked(w)
  PROVE  Doings'
<1>1. /\ work[w].at = "marking" /\ Becomes(w, Mailing(work[w].to \ {work[w].who}))
      /\ report' = [report EXCEPT !.delivery = "failed", !.failed = work[w].read \cup {work[w].who}]
      /\ UNCHANGED <<ticked, ticking, enqueued, jobMailed, steady, bounced>>
  BY DEF FailureMarked, At, FailedNow
<1>2. Days \subseteq Workers /\ work[w] \in Stances /\ work[w].to \ {work[w].who} \in SUBSET Contacts
  BY Separate DEF Doings, RunsTyped, Stances
<1>3. report # NoReport /\ report \in CustomerReport /\ work[w].who \in Contacts
  BY <1>1 DEF Doings, PlacesInv, RunsTyped, Sending
<1>4. /\ report' \in CustomerReport /\ report'.delivery = "failed"
      /\ report'.failed = work[w].read \cup {work[w].who} /\ report'.failed # {}
  BY <1>1, <1>2, <1>3 DEF CustomerReport, Stances
<1>5. report' # NoReport
  BY <1>4, Separate
<1>6. PICK s : s = Mailing(work[w].to \ {work[w].who})
  OBVIOUS
<1>7. /\ s \in Stances /\ s.key = 0 /\ s.to = work[w].to \ {work[w].who} /\ s.at \in {"idle", "mailing"}
      /\ s.at \notin Holding
      /\ s.at = "idle" => s = Idle
  BY <1>2, <1>6, MailingIs
<1>8. /\ work' \in [Workers -> Stances] /\ work'[w] = s
      /\ \A v \in Workers : v # w => work'[v] = work[v]
  BY <1>1, <1>6, <1>7, Became DEF Doings
<1>9. RunsTyped'
  BY <1>1, <1>4, <1>8 DEF Doings, RunsTyped
<1>10. \A d \in Days : enqueued[d] = 0 => d # w
  BY <1>1, IdleIs, <1>2 DEF Doings, PlacesInv
<1>11. \A v \in Workers : work[v].at # "filed"
  BY <1>3 DEF Doings, PlacesInv
<1>12. PlacesInv'
  <2>1. ASSUME NEW v \in Workers
        PROVE  /\ work'[v].at \in {"queued", "building", "filed"} => v \in Days
               /\ work'[v].at \in Holding <=> work'[v].key # 0
               /\ work'[v].at = "marking" => work'[v].who \in Contacts
               /\ work'[v].at = "filed" => work[v].at = "filed"
    <3>1. CASE v = w
      BY <1>7, <1>8, <3>1
    <3>2. CASE v # w
      BY <1>8, <3>2 DEF Doings, PlacesInv
    <3>3. QED
      BY <3>1, <3>2
  <2>2. \A d \in Days : enqueued'[d] = 0 => work'[d] = Idle
    BY <1>1, <1>2, <1>8, <1>10 DEF Doings, PlacesInv
  <2>3. QED
    BY <1>2, <1>5, <1>11, <2>1, <2>2 DEF Doings, PlacesInv, At
<1>13. work[w].at \in Sending
  BY <1>1 DEF Sending
<1>14. MailsInv'
  <2>1. ASSUME NEW d \in Days, work'[d].at \in Sending
        PROVE  work[d].at \in Sending /\ work'[d].to \subseteq work[d].to
    BY <1>2, <1>7, <1>8, <1>13, <2>1
  <2>2. QED
    BY <1>1, <1>5, <2>1 DEF Doings, MailsInv
<1>15. RecordInv'
  <2>1. ASSUME NEW v \in Workers, work'[v].at \in Sending PROVE work[v].at \in Sending
    BY <1>8, <1>13, <2>1
  <2>2. ASSUME steady, NEW v \in Workers PROVE work'[v].at # "marking"
    <3>1. work[v].at \in Sending => v = w
      BY <1>13, <2>2 DEF Doings, RecordInv
    <3>2. QED
      BY <1>7, <1>8, <3>1, <2>1 DEF Sending
  <2>3. ASSUME steady PROVE report'.failed = bounced'
    <3>1. work[w].read = report.failed /\ bounced = report.failed \cup {work[w].who}
      BY <1>1, <2>3 DEF Doings, RecordInv
    <3>2. QED
      BY <1>1, <1>4, <3>1
  <2>4. QED
    BY <1>1, <1>4, <1>5, <2>1, <2>2, <2>3 DEF Doings, RecordInv
<1>16. QED
  BY <1>9, <1>12, <1>14, <1>15 DEF Doings

(* A process dies.                                                         *)
LEMMA WorkerDiesKept ==
  ASSUME Doings, NEW w \in Workers, WorkerDies(w)
  PROVE  Doings'
<1>1. /\ steady' = (steady /\ work[w].at \notin Sending) /\ Becomes(w, Idle)
      /\ UNCHANGED <<report, ticked, ticking, enqueued, jobMailed, bounced>>
  BY DEF WorkerDies, Sending
<1>2. /\ work' \in [Workers -> Stances] /\ work'[w] = Idle
      /\ \A v \in Workers : v # w => work'[v] = work[v]
  BY <1>1, IdleIs, Became DEF Doings
<1>3. Days \subseteq Workers
  BY Separate
<1>4. RunsTyped'
  BY <1>1, <1>2 DEF Doings, RunsTyped
<1>5. PlacesInv'
  <2>1. Idle.at \notin {"queued", "building", "filed", "rendered", "marking"} \cup Sending \cup Holding /\ Idle.key = 0
    BY IdleIs DEF Sending, Holding
  <2>2. QED
    BY <1>1, <1>2, <1>3, <2>1 DEF Doings, PlacesInv, At
<1>6. MailsInv'
  BY <1>1, <1>2, <1>3, IdleIs DEF Doings, MailsInv
<1>7. RecordInv'
  <2>1. ASSUME NEW v \in Workers, work'[v].at \in Sending PROVE work[v].at \in Sending /\ work'[v] = work[v] /\ v # w
    BY <1>2, IdleIs, <2>1
  <2>2. ASSUME steady', NEW v \in Workers PROVE work'[v].at = "marking" <=> work[v].at = "marking"
    BY <1>1, <1>2, IdleIs, <2>2 DEF Sending
  <2>3. QED
    BY <1>1, <2>1, <2>2 DEF Doings, RecordInv, Sending
<1>8. QED
  BY <1>4, <1>5, <1>6, <1>7 DEF Doings

-----------------------------------------------------------------------------
(* Rows, keys and objects                                                  *)

(* The table grows by one row. *)
LEMMA Grown ==
  ASSUME NEW s \in Seq(Rows), NEW r \in Rows
  PROVE  /\ Append(s, r) \in Seq(Rows) /\ Len(Append(s, r)) = Len(s) + 1 /\ Len(s) \in Nat
         /\ DOMAIN Append(s, r) = DOMAIN s \cup {Len(s) + 1} /\ Len(s) + 1 \notin DOMAIN s
         /\ Append(s, r)[Len(s) + 1] = r /\ \A f \in DOMAIN s : Append(s, r)[f] = s[f]
         /\ DOMAIN s = 1 .. Len(s) /\ \A f \in DOMAIN s : s[f] \in Rows
OBVIOUS

(* One row of the table is changed. *)
LEMMA Amended ==
  ASSUME NEW s \in Seq(Rows), NEW f \in DOMAIN s, NEW r \in Rows
  PROVE  /\ [s EXCEPT ![f] = r] \in Seq(Rows) /\ Len([s EXCEPT ![f] = r]) = Len(s)
         /\ DOMAIN [s EXCEPT ![f] = r] = DOMAIN s
         /\ [s EXCEPT ![f] = r][f] = r
         /\ \A g \in DOMAIN s \ {f} : [s EXCEPT ![f] = r][g] = s[g]
<1>1. Len(s) \in Nat /\ DOMAIN s = 1 .. Len(s)
  OBVIOUS
<1>2. [s EXCEPT ![f] = r] \in Seq(Rows) /\ Len([s EXCEPT ![f] = r]) = Len(s)
  BY ExceptSeq
<1>3. QED
  BY <1>1, <1>2

(* Where every row is one of the table's, and every key the server's or a client's. *)
LEMMA Tabled ==
  ASSUME FilesTyped
  PROVE  /\ Len(files) \in Nat /\ DOMAIN files = 1 .. Len(files)
         /\ \A f \in DOMAIN files :
              /\ files[f] \in Rows /\ files[f].key \in Uploads \cup Nat /\ files[f].server \in BOOLEAN
              /\ files[f].deletedOn \in Nat /\ files[f].cleared \in BOOLEAN
         /\ \A u \in Uploads : u \notin Nat
         /\ \A d \in Days : d \in Nat /\ d # 0
<1>1. files \in Seq(Rows)
  BY DEF FilesTyped
<1>2. \A f \in DOMAIN files : files[f] \in Rows
  BY <1>1
<1>3. QED
  BY <1>1, <1>2, AttachmentsAssumption DEF Rows, Days

(* The files are left alone: a worker keeps its key, or leaves it to the lost ones. *)
LEMMA StoresElsewhere ==
  ASSUME Stores, Doings, UNCHANGED <<bucket, files, keys>>, date' \in Days,
         uploads' \in [Uploads -> {"none", "signed", "put"}],
         \A u \in Uploads : uploads[u] = "put" => uploads'[u] = "put",
         confirming' \in [Clients -> Uploads \cup {Nothing}],
         sweeping' \in {sweeping, 0}, lost \subseteq lost',
         \A w \in Workers :
            /\ work'[w].key = work[w].key \/ (work'[w].key = 0 /\ work[w].key \in lost' \cup {0})
            /\ work'[w].at = "rendered" => work[w].at = "rendered" /\ work'[w].old = work[w].old,
         report' # NoReport => report # NoReport /\ report'.file = report.file
  PROVE  Stores'
<1>1. FilesTyped'
  BY DEF Stores, FilesTyped
<1>2. KeysInv'
  <2>1. ASSUME NEW w \in Workers, work'[w].key # 0 PROVE work'[w].key = work[w].key
    BY <2>1
  <2>2. QED
    BY <2>1 DEF Stores, KeysInv, RowsOf
<1>3. SweptMeansGone'
  BY DEF Stores, ObjectsInv, SweptMeansGone
<1>4. OrphansOnlyFromCrashes'
  <2>1. ASSUME NEW k \in bucket \ Uploads, ~\E f \in RowsOf(k) : ~files[f].cleared, k \notin lost'
        PROVE  \E w \in Workers : work'[w].key = k
    <3>1. PICK w \in Workers : work[w].key = k
      BY <2>1 DEF Stores, ObjectsInv, OrphansOnlyFromCrashes
    <3>2. k # 0
      BY <2>1 DEF Stores, FilesTyped
    <3>3. QED
      BY <2>1, <3>1, <3>2
  <2>2. QED
    BY <2>1 DEF OrphansOnlyFromCrashes, RowsOf
<1>5. ObjectsInv'
  BY <1>3, <1>4 DEF Stores, ObjectsInv, LiveFile, FilesTyped
<1>6. QED
  BY <1>1, <1>2, <1>5 DEF Stores

(* An object is put behind a fresh key, in the hands of one worker. *)
LEMMA StoresPut ==
  ASSUME Stores, Doings, NEW w \in Workers, NEW s \in Stances, Puts, Becomes(w, s),
         UNCHANGED <<date, files, uploads, confirming, sweeping, report, lost>>,
         work[w].key = 0, s.key = keys + 1,
         s.at = "rendered" => s.old \in DOMAIN files
  PROVE  Stores'
<1>1. /\ keys' = keys + 1 /\ keys' \in Nat /\ bucket' = bucket \cup {keys + 1} /\ keys + 1 \notin 1 .. keys
      /\ keys + 1 # 0 /\ keys + 1 \notin Uploads /\ 1 .. keys \subseteq 1 .. keys' /\ keys + 1 \in 1 .. keys'
      /\ keys \in Nat
  BY AttachmentsAssumption DEF Puts, Stores, FilesTyped
<1>2. /\ work' \in [Workers -> Stances] /\ work'[w] = s
      /\ \A v \in Workers : v # w => work'[v] = work[v]
  BY Became DEF Doings
<1>3. FilesTyped'
  BY <1>1 DEF Stores, FilesTyped
<1>4. keys + 1 \notin bucket /\ \A f \in DOMAIN files : files[f].key # keys + 1
  BY <1>1 DEF Stores, FilesTyped, KeysInv
<1>5. \A v \in Workers : work[v].key # keys + 1
  BY <1>1, <1>4 DEF Stores, KeysInv
<1>6. KeysInv'
  <2>1. \A f \in DOMAIN files : files[f].key \in Uploads \cup 1 .. keys'
    BY <1>1 DEF Stores, KeysInv
  <2>2. ASSUME NEW v \in Workers, work'[v].key # 0
        PROVE  /\ work'[v].key \in bucket'
               /\ \A f \in DOMAIN files : files[f].key # work'[v].key
               /\ \A x \in Workers : work'[x].key = work'[v].key => x = v
    <3>1. CASE v = w
      BY <1>1, <1>2, <1>4, <1>5, <3>1
    <3>2. CASE v # w
      BY <1>1, <1>2, <1>5, <2>2, <3>2 DEF Stores, KeysInv
    <3>3. QED
      BY <3>1, <3>2
  <2>3. \A v \in Workers : work'[v].at = "rendered" => work'[v].old \in DOMAIN files
    BY <1>2 DEF Stores, KeysInv
  <2>4. \A u \in Uploads : u \in bucket' \/ RowsOf(u)' # {} => uploads'[u] = "put"
    BY <1>1 DEF Stores, KeysInv, RowsOf
  <2>5. QED
    BY <2>1, <2>2, <2>3, <2>4 DEF Stores, KeysInv, RowsOf
<1>7. SweptMeansGone'
  BY <1>1, <1>4 DEF Stores, ObjectsInv, SweptMeansGone
<1>8. OrphansOnlyFromCrashes'
  <2>1. ASSUME NEW k \in bucket' \ Uploads
        PROVE  (\E f \in RowsOf(k) : ~files[f].cleared) \/ (\E v \in Workers : work'[v].key = k) \/ k \in lost
    <3>1. CASE k = keys + 1
      BY <1>2, <3>1
    <3>2. CASE k # keys + 1
      <4>1. k \in bucket \ Uploads /\ k # 0
        BY <1>1, <3>2 DEF Stores, FilesTyped
      <4>2. QED
        BY <1>2, <4>1 DEF Stores, ObjectsInv, OrphansOnlyFromCrashes
    <3>3. QED
      BY <3>1, <3>2
  <2>2. QED
    BY <2>1 DEF OrphansOnlyFromCrashes, RowsOf
<1>9. ObjectsInv'
  <2>1. sweeping # 0 => sweeping \in DOMAIN files
    BY Tabled DEF Stores, FilesTyped
  <2>2. QED
    BY <1>1, <1>4, <1>7, <1>8, <2>1 DEF Stores, ObjectsInv, LiveFile
<1>10. QED
  BY <1>3, <1>6, <1>9 DEF Stores

(* A worker removes the object it has put. *)
LEMMA StoresDiscarded ==
  ASSUME Stores, Doings, NEW w \in Workers, Discards(w), Becomes(w, Idle),
         UNCHANGED <<date, files, uploads, confirming, sweeping, report, lost, keys>>,
         work[w].key # 0
  PROVE  Stores'
<1>1. bucket' = bucket \ {work[w].key} /\ \A f \in DOMAIN files : files[f].key # work[w].key
  BY DEF Discards, Stores, KeysInv
<1>2. /\ work' \in [Workers -> Stances] /\ work'[w] = Idle
      /\ \A v \in Workers : v # w => work'[v] = work[v] /\ (work[v].key # 0 => work[v].key # work[w].key)
  BY Became, IdleIs DEF Doings, Stores, KeysInv
<1>3. FilesTyped'
  BY <1>1 DEF Stores, FilesTyped
<1>4. KeysInv'
  <2>1. ASSUME NEW v \in Workers, work'[v].key # 0
        PROVE  /\ work'[v].key \in bucket' /\ v # w
               /\ \A f \in DOMAIN files : files[f].key # work'[v].key
               /\ \A x \in Workers : work'[x].key = work'[v].key => x = v
    BY <1>1, <1>2, <2>1, IdleIs DEF Stores, KeysInv
  <2>2. \A v \in Workers : work'[v].at = "rendered" => work'[v].old \in DOMAIN files
    BY <1>2, IdleIs DEF Stores, KeysInv
  <2>3. \A u \in Uploads : u \in bucket' \/ RowsOf(u)' # {} => uploads'[u] = "put"
    BY <1>1 DEF Stores, KeysInv, RowsOf
  <2>4. QED
    BY <2>1, <2>2, <2>3 DEF Stores, KeysInv, RowsOf
<1>5. SweptMeansGone'
  BY <1>1 DEF Stores, ObjectsInv, SweptMeansGone
<1>6. OrphansOnlyFromCrashes'
  <2>1. ASSUME NEW k \in bucket' \ Uploads
        PROVE  (\E f \in RowsOf(k) : ~files[f].cleared) \/ (\E v \in Workers : work'[v].key = k) \/ k \in lost
    BY <1>1, <1>2 DEF Stores, ObjectsInv, OrphansOnlyFromCrashes
  <2>2. QED
    BY <2>1 DEF OrphansOnlyFromCrashes, RowsOf
<1>7. ObjectsInv'
  BY <1>1, <1>5, <1>6 DEF Stores, ObjectsInv, LiveFile
<1>8. QED
  BY <1>3, <1>4, <1>7 DEF Stores

(* A worker's object becomes the newest row, the report's file; the row it replaces, if any, is deleted. *)
LEMMA StoresFiled ==
  ASSUME Stores, Doings, NEW w \in Workers, NEW s \in Stances, Becomes(w, s),
         work[w].key # 0, s.key = 0, s.at # "rendered",
         files' \in Seq(Rows), Len(files') = Len(files) + 1,
         files'[Len(files) + 1] = Attachment(work[w].key, TRUE),
         NEW old,
         \A f \in DOMAIN files :
            /\ files'[f].key = files[f].key /\ files'[f].server = files[f].server
            /\ files'[f].cleared = files[f].cleared
            /\ files'[f].deletedOn = IF f = old THEN date ELSE files[f].deletedOn,
         report' # NoReport, report'.file = Len(files) + 1,
         UNCHANGED <<date, bucket, uploads, confirming, sweeping, lost, keys>>
  PROVE  Stores'
<1> DEFINE k == work[w].key
           n == Len(files) + 1
<1>1. FilesTyped /\ KeysInv /\ ObjectsInv
  BY DEF Stores
<1>2. /\ n \notin DOMAIN files /\ DOMAIN files' = DOMAIN files \cup {n} /\ Len(files) \in Nat
      /\ DOMAIN files = 1 .. Len(files) /\ n \in DOMAIN files'
  BY <1>1, Tabled
<1>3. /\ k \in bucket /\ k \in 1 .. keys /\ k \notin Uploads /\ k \in Nat /\ keys \in Nat
      /\ \A f \in DOMAIN files : files[f].key # k
  <2>1. k \in Nat
    BY DEF Doings, RunsTyped, Stances
  <2>2. QED
    BY <1>1, <2>1, AttachmentsAssumption DEF KeysInv, FilesTyped
<1>4. /\ files'[n].key = k /\ files'[n].server = TRUE /\ files'[n].deletedOn = 0 /\ ~files'[n].cleared
  <2>1. PICK r : r = Attachment(work[w].key, TRUE)
    OBVIOUS
  <2>2. files'[n] = r
    BY <2>1
  <2>3. r.key = k /\ r.server = TRUE /\ r.deletedOn = 0 /\ r.cleared = FALSE
    BY <2>1 DEF Attachment
  <2>4. QED
    BY <2>2, <2>3
<1>5. /\ work' \in [Workers -> Stances] /\ work'[w] = s
      /\ \A v \in Workers : v # w => work'[v] = work[v] /\ (work[v].key # 0 => work[v].key # k)
  BY <1>1, Became DEF Doings, KeysInv
<1>6. FilesTyped'
  BY <1>1, <1>2 DEF FilesTyped
<1>7. KeysInv'
  <2>1. \A f \in DOMAIN files' : files'[f].key \in Uploads \cup 1 .. keys'
    BY <1>1, <1>2, <1>3, <1>4 DEF KeysInv
  <2>2. \A f, g \in DOMAIN files' : files'[f].key = files'[g].key /\ files'[f].key \notin Uploads => f = g
    <3>1. \A f \in DOMAIN files : files'[f].key = files[f].key /\ files'[f].key # files'[n].key
      BY <1>3, <1>4
    <3>2. \A f, g \in DOMAIN files : files'[f].key = files'[g].key /\ files'[f].key \notin Uploads => f = g
      BY <1>1, <3>1 DEF KeysInv
    <3>3. QED
      BY <1>2, <3>1, <3>2
  <2>3. ASSUME NEW v \in Workers, work'[v].key # 0
        PROVE  /\ work'[v].key \in bucket'
               /\ \A f \in DOMAIN files' : files'[f].key # work'[v].key
               /\ \A x \in Workers : work'[x].key = work'[v].key => x = v
    <3>1. v # w /\ work'[v] = work[v] /\ work[v].key # k
      BY <1>5, <2>3
    <3>2. /\ work[v].key \in bucket /\ \A f \in DOMAIN files : files[f].key # work[v].key
          /\ \A x \in Workers : work[x].key = work[v].key => x = v
      BY <1>1, <2>3, <3>1 DEF KeysInv
    <3>3. \A f \in DOMAIN files' : files'[f].key # work'[v].key
      BY <1>2, <1>4, <3>1, <3>2
    <3>4. \A x \in Workers : work'[x].key = work'[v].key => x = v
      BY <1>5, <2>3, <3>1, <3>2
    <3>5. QED
      BY <3>1, <3>2, <3>3, <3>4
  <2>4. \A v \in Workers : work'[v].at = "rendered" => work'[v].old \in DOMAIN files'
    BY <1>1, <1>2, <1>5 DEF KeysInv
  <2>5. ASSUME NEW u \in Uploads, u \in bucket' \/ RowsOf(u)' # {} PROVE uploads'[u] = "put"
    <3>1. ASSUME NEW f \in DOMAIN files', files'[f].key = u PROVE f \in DOMAIN files /\ files[f].key = u
      <4>1. f # n
        BY <1>3, <1>4, <3>1
      <4>2. QED
        BY <1>2, <3>1, <4>1
    <3>2. RowsOf(u)' # {} => RowsOf(u) # {}
      BY <3>1 DEF RowsOf
    <3>3. QED
      BY <1>1, <2>5, <3>2 DEF KeysInv
  <2>6. QED
    BY <2>1, <2>2, <2>3, <2>4, <2>5 DEF KeysInv
<1>8. SweptMeansGone'
  BY <1>1, <1>2, <1>4 DEF ObjectsInv, SweptMeansGone
<1>9. OrphansOnlyFromCrashes'
  <2>1. ASSUME NEW j \in bucket' \ Uploads
        PROVE  (\E f \in RowsOf(j)' : ~files'[f].cleared) \/ (\E v \in Workers : work'[v].key = j) \/ j \in lost'
    <3>1. CASE j = k
      <4>1. n \in RowsOf(j)'
        BY <1>2, <1>4, <3>1 DEF RowsOf
      <4>2. QED
        BY <1>4, <4>1
    <3>2. CASE j # k
      <4>1. \A f \in RowsOf(j) : f \in RowsOf(j)' /\ files'[f].cleared = files[f].cleared
        BY <1>2 DEF RowsOf
      <4>2. \A v \in Workers : work[v].key = j => work'[v].key = j
        BY <1>5, <3>2
      <4>3. QED
        BY <1>1, <4>1, <4>2 DEF ObjectsInv, OrphansOnlyFromCrashes
    <3>3. QED
      BY <3>1, <3>2
  <2>2. QED
    BY <2>1 DEF OrphansOnlyFromCrashes
<1>10. ObjectsInv'
  <2>1. sweeping # 0 => sweeping \in DOMAIN files
    BY <1>1, <1>2 DEF FilesTyped
  <2>2. date # 0
    BY <1>1, Tabled DEF FilesTyped
  <2>3. sweeping' # 0 => files'[sweeping'].deletedOn # 0 /\ files'[sweeping'].key \notin bucket'
    BY <1>1, <2>1, <2>2 DEF ObjectsInv
  <2>4. LiveFile(report.file)'
    BY <1>4 DEF LiveFile
  <2>5. QED
    BY <1>2, <1>3, <1>4, <1>8, <1>9, <2>3, <2>4 DEF ObjectsInv
<1>11. QED
  BY <1>6, <1>7, <1>10 DEF Stores

(* A client puts its object, once.                                         *)
LEMMA PutStores ==
  ASSUME Stores, NEW u \in Uploads, Put(u), UNCHANGED reportVars
  PROVE  Stores'
<1>1. /\ uploads[u] = "signed" /\ uploads' = [uploads EXCEPT ![u] = "put"] /\ bucket' = bucket \cup {u}
      /\ UNCHANGED <<date, files, confirming, sweeping, report, work, lost, keys>>
  BY DEF Put, reportVars
<1>2. FilesTyped /\ KeysInv /\ ObjectsInv
  BY DEF Stores
<1>3. FilesTyped' /\ uploads'[u] = "put" /\ \A v \in Uploads \ {u} : uploads'[v] = uploads[v]
  BY <1>1, <1>2 DEF FilesTyped
<1>4. \A f \in DOMAIN files : files[f].key # u
  BY <1>1, <1>2 DEF KeysInv, RowsOf
<1>5. KeysInv'
  <2>1. \A x \in Uploads : x \in bucket' \/ RowsOf(x)' # {} => uploads'[x] = "put"
    BY <1>1, <1>2, <1>3 DEF KeysInv, RowsOf
  <2>2. QED
    BY <1>1, <1>2, <2>1 DEF KeysInv
<1>6. SweptMeansGone' /\ OrphansOnlyFromCrashes'
  BY <1>1, <1>2, <1>4 DEF ObjectsInv, SweptMeansGone, OrphansOnlyFromCrashes, RowsOf
<1>7. sweeping # 0 => sweeping \in DOMAIN files
  BY <1>2, Tabled DEF FilesTyped
<1>8. ObjectsInv'
  BY <1>1, <1>2, <1>4, <1>6, <1>7 DEF ObjectsInv, LiveFile
<1>9. QED
  BY <1>3, <1>5, <1>8 DEF Stores

(* An object goes that is no worker's and no live server row's. *)
LEMMA StoresRemoved ==
  ASSUME Stores, NEW k, bucket' = bucket \ {k},
         UNCHANGED <<date, files, uploads, report, work, lost, keys>>,
         \A w \in Workers : work[w].key # 0 => work[w].key # k,
         report # NoReport => files[report.file].key # k,
         confirming' \in [Clients -> Uploads \cup {Nothing}],
         sweeping' \in 0 .. Len(files),
         sweeping' # 0 => files[sweeping'].deletedOn # 0 /\ files[sweeping'].key \notin bucket'
  PROVE  Stores'
<1>1. FilesTyped /\ KeysInv /\ ObjectsInv
  BY DEF Stores
<1>2. FilesTyped'
  BY <1>1 DEF FilesTyped
<1>3. KeysInv'
  <2>1. \A x \in Uploads : x \in bucket' \/ RowsOf(x)' # {} => uploads'[x] = "put"
    BY <1>1 DEF KeysInv, RowsOf
  <2>2. \A w \in Workers : work'[w].key # 0 =>
         /\ work'[w].key \in bucket'
         /\ \A f \in DOMAIN files : files[f].key # work'[w].key
         /\ \A v \in Workers : work'[v].key = work'[w].key => v = w
    BY <1>1 DEF KeysInv
  <2>3. QED
    BY <1>1, <2>1, <2>2 DEF KeysInv
<1>4. SweptMeansGone' /\ OrphansOnlyFromCrashes'
  BY <1>1 DEF ObjectsInv, SweptMeansGone, OrphansOnlyFromCrashes, RowsOf
<1>5. ObjectsInv'
  BY <1>1, <1>4 DEF ObjectsInv, LiveFile
<1>6. QED
  BY <1>2, <1>3, <1>5 DEF Stores

(* confirm_upload removes an object it does not accept.                    *)
LEMMA ConfirmRefusesStores ==
  ASSUME Stores, Doings, NEW c \in Clients, ConfirmRefuses(c), UNCHANGED reportVars
  PROVE  Stores'
<1>1. /\ confirming[c] \in bucket \cap Unfit /\ bucket' = bucket \ {confirming[c]}
      /\ confirming' = [confirming EXCEPT ![c] = Nothing]
      /\ UNCHANGED <<date, files, uploads, sweeping, report, work, lost, keys>>
  BY DEF ConfirmRefuses, reportVars
<1>2. FilesTyped /\ KeysInv /\ ObjectsInv
  BY DEF Stores
<1>3. confirming[c] \in Uploads /\ confirming' \in [Clients -> Uploads \cup {Nothing}]
  BY <1>1, <1>2, AttachmentsAssumption DEF FilesTyped
<1>4. \A w \in Workers : work[w].key \notin Uploads
  BY AttachmentsAssumption DEF Doings, RunsTyped, Stances
<1>5. report # NoReport => files[report.file].key # confirming[c]
  BY <1>2, <1>3 DEF ObjectsInv
<1>6. sweeping' \in 0 .. Len(files) /\ (sweeping' # 0 => files[sweeping'].deletedOn # 0 /\ files[sweeping'].key \notin bucket')
  BY <1>1, <1>2 DEF FilesTyped, ObjectsInv
<1>7. QED
  BY <1>1, <1>3, <1>4, <1>5, <1>6, StoresRemoved

(* The sweep removes an object, never the report's and never one a worker  *)
(* holds.                                                                  *)
LEMMA SweepRemovesStores ==
  ASSUME Stores, Doings, NEW f \in DOMAIN files, SweepRemoves(f), UNCHANGED reportVars
  PROVE  Stores'
<1>1. /\ sweeping = 0 /\ files[f].deletedOn # 0 /\ bucket' = bucket \ {files[f].key} /\ sweeping' = f
      /\ UNCHANGED <<date, files, uploads, confirming, report, work, lost, keys>>
  BY DEF SweepRemoves, Detached, reportVars
<1>2. FilesTyped /\ KeysInv /\ ObjectsInv
  BY DEF Stores
<1>3. \A w \in Workers : work[w].key # 0 => work[w].key # files[f].key
  BY <1>2 DEF KeysInv
<1>4. report # NoReport => files[report.file].key # files[f].key
  <2>1. report # NoReport => report.file \in DOMAIN files /\ report.file # f /\ files[report.file].key \notin Uploads
    BY <1>1, <1>2 DEF ObjectsInv, LiveFile
  <2>2. QED
    BY <1>2, <2>1 DEF KeysInv
<1>5. sweeping' \in 0 .. Len(files) /\ confirming' \in [Clients -> Uploads \cup {Nothing}]
  BY <1>1, <1>2, Tabled DEF FilesTyped
<1>6. QED
  BY <1>1, <1>3, <1>4, <1>5, StoresRemoved

(* perform_destroy.                                                        *)
LEMMA DeleteFileStores ==
  ASSUME Stores, NEW f \in DOMAIN files, DeleteFile(f), UNCHANGED reportVars
  PROVE  Stores'
<1>1. /\ files[f].server = FALSE /\ files' = [files EXCEPT ![f].deletedOn = date]
      /\ UNCHANGED <<date, bucket, uploads, confirming, sweeping, report, work, lost, keys>>
  <2>1. FilesTyped
    BY DEF Stores
  <2>2. QED
    BY <2>1, Tabled DEF DeleteFile, SoftDeleted, reportVars
<1>2. FilesTyped /\ KeysInv /\ ObjectsInv
  BY DEF Stores
<1>3. date \in Nat /\ date # 0
  BY <1>2, Tabled DEF FilesTyped
<1>4. PICK r : r = [files[f] EXCEPT !.deletedOn = date]
  OBVIOUS
<1>5. /\ r \in Rows /\ r.key = files[f].key /\ r.server = files[f].server /\ r.cleared = files[f].cleared
      /\ r.deletedOn = date
  BY <1>2, <1>3, <1>4, Tabled DEF Rows
<1>6. /\ files' \in Seq(Rows) /\ Len(files') = Len(files) /\ DOMAIN files' = DOMAIN files
      /\ files'[f] = r /\ \A g \in DOMAIN files \ {f} : files'[g] = files[g]
  BY <1>1, <1>2, <1>4, <1>5, Amended DEF FilesTyped
<1>7. \A g \in DOMAIN files : /\ files'[g].key = files[g].key /\ files'[g].server = files[g].server
                              /\ files'[g].cleared = files[g].cleared
                              /\ g # f => files'[g] = files[g]
  BY <1>5, <1>6
<1>8. FilesTyped'
  BY <1>1, <1>2, <1>6 DEF FilesTyped
<1>9. KeysInv'
  BY <1>1, <1>2, <1>6, <1>7 DEF KeysInv, RowsOf
<1>10. SweptMeansGone' /\ OrphansOnlyFromCrashes'
  BY <1>1, <1>2, <1>6, <1>7 DEF ObjectsInv, SweptMeansGone, OrphansOnlyFromCrashes, RowsOf
<1>11. sweeping # 0 => sweeping \in DOMAIN files
  BY <1>2, Tabled DEF FilesTyped
<1>12. report # NoReport => report.file # f
  BY <1>1, <1>2 DEF ObjectsInv
<1>13. ObjectsInv'
  <2>1. sweeping' # 0 => files'[sweeping'].deletedOn # 0 /\ files'[sweeping'].key \notin bucket'
    BY <1>1, <1>2, <1>3, <1>5, <1>6, <1>7, <1>11 DEF ObjectsInv
  <2>2. QED
    BY <1>1, <1>2, <1>6, <1>7, <1>10, <1>12, <2>1 DEF ObjectsInv, LiveFile
<1>14. QED
  BY <1>8, <1>9, <1>13 DEF Stores

(* The sweep clears the key of a row whose object is gone.                 *)
LEMMA SweepClearsStores ==
  ASSUME Stores, SweepClears, UNCHANGED reportVars
  PROVE  Stores'
<1> DEFINE f == sweeping
<1>1. /\ f # 0 /\ files' = [files EXCEPT ![f].cleared = TRUE] /\ sweeping' = 0
      /\ UNCHANGED <<date, bucket, uploads, confirming, report, work, lost, keys>>
  BY DEF SweepClears, reportVars
<1>2. FilesTyped /\ KeysInv /\ ObjectsInv
  BY DEF Stores
<1>3. f \in DOMAIN files /\ files[f].deletedOn # 0 /\ files[f].key \notin bucket
  BY <1>1, <1>2, Tabled DEF FilesTyped, ObjectsInv
<1>4. PICK r : r = [files[f] EXCEPT !.cleared = TRUE]
  OBVIOUS
<1>5. /\ r \in Rows /\ r.key = files[f].key /\ r.server = files[f].server /\ r.cleared = TRUE
  BY <1>2, <1>3, <1>4, Tabled DEF Rows
<1>6. /\ files' \in Seq(Rows) /\ Len(files') = Len(files) /\ DOMAIN files' = DOMAIN files
      /\ files'[f] = r /\ \A g \in DOMAIN files \ {f} : files'[g] = files[g]
  BY <1>1, <1>2, <1>3, <1>4, <1>5, Amended DEF FilesTyped
<1>7. \A g \in DOMAIN files : files'[g].key = files[g].key /\ (g # f => files'[g] = files[g])
  BY <1>5, <1>6
<1>8. FilesTyped'
  BY <1>1, <1>2, <1>6, Tabled DEF FilesTyped
<1>9. KeysInv'
  BY <1>1, <1>2, <1>6, <1>7 DEF KeysInv, RowsOf
<1>10. SweptMeansGone'
  BY <1>1, <1>2, <1>3, <1>6, <1>7 DEF ObjectsInv, SweptMeansGone
<1>11. OrphansOnlyFromCrashes'
  <2>1. ASSUME NEW j \in bucket \ Uploads, NEW g \in RowsOf(j), ~files[g].cleared
        PROVE  g \in RowsOf(j)' /\ ~files'[g].cleared
    BY <1>3, <1>6, <1>7, <2>1 DEF RowsOf
  <2>2. QED
    BY <1>1, <1>2, <2>1 DEF ObjectsInv, OrphansOnlyFromCrashes
<1>12. report # NoReport => report.file # f
  BY <1>2, <1>3 DEF ObjectsInv, LiveFile
<1>13. ObjectsInv'
  BY <1>1, <1>2, <1>6, <1>7, <1>10, <1>11, <1>12 DEF ObjectsInv, LiveFile
<1>14. QED
  BY <1>8, <1>9, <1>13 DEF Stores

(* confirm_upload makes a row of an upload.                                *)
LEMMA ConfirmRecordsStores ==
  ASSUME Stores, Doings, NEW c \in Clients, ConfirmRecords(c), UNCHANGED reportVars
  PROVE  Stores'
<1> DEFINE u == confirming[c]
           n == Len(files) + 1
<1>1. /\ u \in bucket \ Unfit /\ files' = Append(files, Attachment(u, FALSE))
      /\ confirming' = [confirming EXCEPT ![c] = Nothing]
      /\ UNCHANGED <<date, bucket, uploads, sweeping, report, work, lost, keys>>
  BY DEF ConfirmRecords, reportVars
<1>2. FilesTyped /\ KeysInv /\ ObjectsInv
  BY DEF Stores
<1>3. /\ u \in Uploads /\ u \notin Nat /\ uploads[u] = "put"
      /\ confirming' \in [Clients -> Uploads \cup {Nothing}]
  BY <1>1, <1>2, AttachmentsAssumption DEF FilesTyped, KeysInv
<1>4. PICK r : r = Attachment(u, FALSE)
  OBVIOUS
<1>5. r \in Rows /\ r.key = u /\ r.server = FALSE /\ r.deletedOn = 0 /\ ~r.cleared
  <2>1. r = [key |-> u, server |-> FALSE, deletedOn |-> 0, cleared |-> FALSE]
    BY <1>4 DEF Attachment
  <2>2. QED
    BY <1>3, <2>1 DEF Rows
<1>6. /\ files' \in Seq(Rows) /\ Len(files') = Len(files) + 1
      /\ DOMAIN files' = DOMAIN files \cup {n} /\ n \notin DOMAIN files
      /\ files'[n] = r /\ \A f \in DOMAIN files : files'[f] = files[f]
  <2>1. files \in Seq(Rows) /\ files' = Append(files, r)
    BY <1>1, <1>2, <1>4 DEF FilesTyped
  <2>2. QED
    BY <1>5, <2>1, Grown
<1>7. FilesTyped'
  <2>1. Len(files) \in Nat
    BY <1>2, Tabled
  <2>2. sweeping \in 0 .. Len(files')
    BY <1>2, <1>6, <2>1 DEF FilesTyped
  <2>3. QED
    BY <1>1, <1>2, <1>3, <1>6, <2>2 DEF FilesTyped
<1>8. KeysInv'
  <2>1. \A f, g \in DOMAIN files' : files'[f].key = files'[g].key /\ files'[f].key \notin Uploads => f = g
    BY <1>2, <1>3, <1>5, <1>6 DEF KeysInv
  <2>2. \A w \in Workers : work[w].key # u
    BY <1>3 DEF Doings, RunsTyped, Stances
  <2>3. \A w \in Workers : work'[w].key # 0 =>
         /\ work'[w].key \in bucket'
         /\ \A f \in DOMAIN files' : files'[f].key # work'[w].key
         /\ \A v \in Workers : work'[v].key = work'[w].key => v = w
    <3>1. ASSUME NEW w \in Workers, work[w].key # 0, NEW f \in DOMAIN files' PROVE files'[f].key # work[w].key
      BY <1>2, <1>5, <1>6, <2>2, <3>1 DEF KeysInv
    <3>2. QED
      BY <1>1, <1>2, <3>1 DEF KeysInv
  <2>4. ASSUME NEW v \in Uploads, v \in bucket' \/ RowsOf(v)' # {} PROVE uploads'[v] = "put"
    <3>1. v # u => RowsOf(v)' = RowsOf(v)
      BY <1>5, <1>6 DEF RowsOf
    <3>2. QED
      BY <1>1, <1>2, <1>3, <2>4, <3>1 DEF KeysInv
  <2>5. \A f \in DOMAIN files' : files'[f].key \in Uploads \cup 1 .. keys'
    BY <1>1, <1>2, <1>3, <1>5, <1>6 DEF KeysInv
  <2>6. \A w \in Workers : work'[w].at = "rendered" => work'[w].old \in DOMAIN files'
    BY <1>1, <1>2, <1>6 DEF KeysInv
  <2>7. QED
    BY <2>1, <2>3, <2>4, <2>5, <2>6 DEF KeysInv
<1>9. SweptMeansGone' /\ OrphansOnlyFromCrashes'
  <2>1. SweptMeansGone'
    BY <1>1, <1>2, <1>5, <1>6 DEF ObjectsInv, SweptMeansGone
  <2>2. OrphansOnlyFromCrashes'
    BY <1>1, <1>2, <1>6 DEF ObjectsInv, OrphansOnlyFromCrashes, RowsOf
  <2>3. QED
    BY <2>1, <2>2
<1>10. sweeping # 0 => sweeping \in DOMAIN files
  BY <1>2, Tabled DEF FilesTyped
<1>11. ObjectsInv'
  BY <1>1, <1>2, <1>6, <1>9, <1>10 DEF ObjectsInv, LiveFile
<1>12. QED
  BY <1>7, <1>8, <1>11 DEF Stores

-----------------------------------------------------------------------------
(* Every step                                                              *)

(* A step of the files' own leaves what the runs do alone. *)
LEMMA FilesStep ==
  ASSUME Stores, Doings, UploadUrl \/ ((AttachmentViewSet \/ PurgeAttachments) /\ UNCHANGED reportVars)
  PROVE  Stores' /\ Doings'
<1>1. Doings'
  <2>1. UNCHANGED <<report, enqueued, work, jobMailed, steady, bounced, ticked, ticking>>
    BY DEF UploadUrl, reportVars
  <2>2. ticked' \subseteq Contacts /\ ticking' \in [Schedulers -> 0 .. LastDay]
    BY <2>1 DEF Doings, RunsTyped
  <2>3. QED
    BY <2>1, <2>2, DoingsElsewhere
<1>2. /\ date \in Days /\ uploads \in [Uploads -> {"none", "signed", "put"}]
      /\ confirming \in [Clients -> Uploads \cup {Nothing}]
  BY DEF Stores, FilesTyped
<1>3. ASSUME UNCHANGED <<date, bucket, files, sweeping, report, work, keys, lost>>,
             uploads' \in [Uploads -> {"none", "signed", "put"}],
             \A u \in Uploads : uploads[u] = "put" => uploads'[u] = "put",
             confirming' \in [Clients -> Uploads \cup {Nothing}]
      PROVE  Stores'
  BY <1>2, <1>3, StoresElsewhere
<1>4. ASSUME UploadUrl PROVE Stores'
  <2>1. PICK u \in Uploads : PrepareUpload(u)
    BY <1>4 DEF UploadUrl
  <2>2. QED
    BY <1>2, <1>3, <1>4, <2>1 DEF UploadUrl, PrepareUpload
<1>5. ASSUME AttachmentViewSet, UNCHANGED reportVars PROVE Stores'
  <2>1. ASSUME NEW c \in Clients, NEW u \in Uploads, ConfirmLooks(c, u) PROVE Stores'
    BY <1>2, <1>3, <1>5, <2>1 DEF ConfirmLooks, reportVars
  <2>2. ASSUME NEW c \in Clients, ConfirmFindsNothing(c) PROVE Stores'
    BY <1>2, <1>3, <1>5, <2>2 DEF ConfirmFindsNothing, reportVars
  <2>3. QED
    BY <1>5, <2>1, <2>2, PutStores, ConfirmRefusesStores, ConfirmRecordsStores, DeleteFileStores DEF AttachmentViewSet
<1>6. ASSUME PurgeAttachments, UNCHANGED reportVars PROVE Stores'
  <2>1. CASE SweepDies
    <3>1. UNCHANGED <<bucket, files, keys, date, uploads, confirming, lost, work, report>> /\ sweeping' = 0
      BY <1>6, <2>1 DEF SweepDies, reportVars
    <3>2. QED
      BY <1>2, <3>1, StoresElsewhere
  <2>2. QED
    BY <1>6, <2>1, SweepRemovesStores, SweepClearsStores DEF PurgeAttachments
<1>7. QED
  BY <1>1, <1>4, <1>5, <1>6

(* A worker goes on without a file in it. *)
LEMMA WorkerMoves ==
  ASSUME Stores, Doings, NEW w \in Workers, NEW s \in Stances, Becomes(w, s),
         UNCHANGED <<bucket, files, keys, date, uploads, confirming, sweeping>>, lost \subseteq lost',
         s.key = work[w].key \/ (s.key = 0 /\ work[w].key \in lost' \cup {0}),
         s.at # "rendered",
         report' # NoReport => report # NoReport /\ report'.file = report.file
  PROVE  Stores'
<1>1. /\ work' \in [Workers -> Stances] /\ work'[w] = s
      /\ \A v \in Workers : v # w => work'[v] = work[v]
  BY Became DEF Doings
<1>2. /\ date \in Days /\ uploads \in [Uploads -> {"none", "signed", "put"}]
      /\ confirming \in [Clients -> Uploads \cup {Nothing}]
  BY DEF Stores, FilesTyped
<1>3. \A v \in Workers :
         /\ work'[v].key = work[v].key \/ (work'[v].key = 0 /\ work[v].key \in lost' \cup {0})
         /\ work'[v].at = "rendered" => work[v].at = "rendered" /\ work'[v].old = work[v].old
  BY <1>1
<1>4. QED
  BY <1>2, <1>3, StoresElsewhere

(* A worker has a key as long as it holds an object.                       *)
LEMMA KeyOf ==
  ASSUME Doings, NEW w \in Workers
  PROVE  work[w] \in Stances /\ (work[w].at \in Holding <=> work[w].key # 0)
BY DEF Doings, RunsTyped, PlacesInv

(* A scheduler leaves the files alone.                                     *)
LEMMA SchedulersStep ==
  ASSUME Stores, Doings, NEW x \in Schedulers, TickLooks(x) \/ TickClaims(x) \/ TickFails(x)
  PROVE  Stores' /\ Doings'
<1>1. UNCHANGED <<bucket, files, keys, date, uploads, confirming, sweeping, lost, report, ticked>>
  BY DEF TickLooks, TickClaims, TickFails, attachmentVars
<1>2. date \in Days
  BY DEF Stores, FilesTyped
<1>3. Doings'
  <2>1. CASE TickLooks(x) \/ TickFails(x)
    BY <1>2, <2>1, TicksTyped, DoingsElsewhere DEF TickLooks, TickFails
  <2>2. QED
    BY <2>1, TickClaimsKept
<1>4. /\ date \in Days /\ uploads \in [Uploads -> {"none", "signed", "put"}]
      /\ confirming \in [Clients -> Uploads \cup {Nothing}]
  BY DEF Stores, FilesTyped
<1>5. Stores'
  <2>1. CASE UNCHANGED work
    BY <1>1, <1>4, <2>1, StoresElsewhere
  <2>2. CASE TickClaims(x) /\ work' # work
    <3>1. /\ ticking[x] # 0 /\ enqueued[ticking[x]] = 0
          /\ Becomes(ticking[x], [Idle EXCEPT !.at = "queued"])
      BY <2>2 DEF TickClaims, Unclaimed
    <3>2. ticking[x] \in Workers /\ work[ticking[x]] = Idle
      BY <3>1, TicksTyped, Separate DEF Doings, PlacesInv
    <3>3. PICK s : s = [Idle EXCEPT !.at = "queued"]
      OBVIOUS
    <3>4. s \in Stances /\ s.at # "rendered" /\ s.key = 0 /\ work[ticking[x]].key = 0
      BY <3>2, <3>3, IdleIs DEF Idle, Stances
    <3>5. QED
      BY <1>1, <3>1, <3>2, <3>3, <3>4, WorkerMoves
  <2>3. QED
    BY <2>1, <2>2 DEF TickLooks, TickFails
<1>6. QED
  BY <1>3, <1>5

(* Every step of the job keeps the invariant.                              *)
LEMMA JobStep ==
  ASSUME Stores, Doings, NEW d \in Days, JobLooks(d) \/ JobInserts(d) \/ JobDelivers(d) \/ JobFails(d)
  PROVE  Stores' /\ Doings'
<1>1. FilesTyped /\ d \in Workers
  BY Separate DEF Stores
<1>2. Doings'
  BY <1>1, JobLooksKept, JobInsertsKept, JobDeliversKept, JobFailsKept
<1>3. work[d] \in Stances /\ (work[d].at \in Holding <=> work[d].key # 0)
  BY <1>1, KeyOf
<1>4. ASSUME JobLooks(d) PROVE Stores'
  <2>1. /\ work[d].at = "queued"
        /\ UNCHANGED <<date, files, uploads, confirming, sweeping, report, lost>>
        /\ \/ Becomes(d, Idle) /\ UNCHANGED <<bucket, keys>>
           \/ Puts /\ Becomes(d, [Idle EXCEPT !.at = "building", !.key = keys + 1])
    BY <1>4 DEF JobLooks, At
  <2>2. work[d].key = 0
    BY <1>3, <2>1 DEF Holding
  <2>3. CASE Becomes(d, Idle) /\ UNCHANGED <<bucket, keys>>
    BY <1>1, <2>1, <2>2, <2>3, IdleIs, WorkerMoves DEF Idle
  <2>4. CASE Puts /\ Becomes(d, [Idle EXCEPT !.at = "building", !.key = keys + 1])
    <3>1. PICK s : s = [Idle EXCEPT !.at = "building", !.key = keys + 1]
      OBVIOUS
    <3>2. s \in Stances /\ s.at = "building" /\ s.key = keys + 1
      <4>1. keys + 1 \in Nat
        BY <1>1 DEF FilesTyped
      <4>2. QED
        BY <3>1, <4>1 DEF Idle, Stances, Holding
    <3>3. QED
      BY <1>1, <2>1, <2>2, <2>4, <3>1, <3>2, StoresPut
  <2>5. QED
    BY <2>1, <2>3, <2>4
<1>5. ASSUME JobInserts(d) PROVE Stores'
  <2>1. /\ work[d].at = "building"
        /\ UNCHANGED <<date, files, uploads, confirming, sweeping, report, lost, keys>>
        /\ \/ Discards(d) /\ Becomes(d, Idle)
           \/ UNCHANGED bucket /\ Becomes(d, [work[d] EXCEPT !.at = "filed"])
    BY <1>5 DEF JobInserts, At
  <2>2. work[d].key # 0
    BY <1>3, <2>1 DEF Holding
  <2>3. CASE UNCHANGED bucket /\ Becomes(d, [work[d] EXCEPT !.at = "filed"])
    <3>1. PICK s : s = [work[d] EXCEPT !.at = "filed"]
      OBVIOUS
    <3>2. s \in Stances /\ s.at = "filed" /\ s.key = work[d].key
      BY <1>3, <3>1 DEF Stances, Holding
    <3>3. QED
      BY <1>1, <2>1, <2>3, <3>1, <3>2, WorkerMoves
  <2>4. QED
    BY <1>1, <2>1, <2>2, <2>3, StoresDiscarded
<1>6. ASSUME JobFails(d) PROVE Stores'
  <2>1. /\ work[d].at \in Holding /\ Discards(d) /\ Becomes(d, Idle)
        /\ UNCHANGED <<date, files, uploads, confirming, sweeping, report, lost, keys>>
    BY <1>6 DEF JobFails, At, Holding
  <2>2. QED
    BY <1>1, <1>3, <2>1, StoresDiscarded
<1>7. ASSUME JobDelivers(d) PROVE Stores'
  <2>1. /\ work[d].at = "filed" /\ files' = Append(files, Attachment(work[d].key, TRUE))
        /\ UNCHANGED <<date, bucket, uploads, confirming, sweeping, lost, keys>>
    BY <1>7 DEF JobDelivers, At
  <2>2. work[d].key \in Nat /\ work[d].key # 0 /\ ticked \in SUBSET Contacts
    BY <1>3, <2>1 DEF Holding, Stances, Doings, RunsTyped
  <2>3. PICK r : r = Attachment(work[d].key, TRUE)
    OBVIOUS
  <2>4. r \in Rows
    BY <2>2, <2>3 DEF Attachment, Rows
  <2>5. /\ files' \in Seq(Rows) /\ Len(files') = Len(files) + 1 /\ Len(files) \in Nat
        /\ files'[Len(files) + 1] = r /\ \A f \in DOMAIN files : files'[f] = files[f]
    <3>1. files \in Seq(Rows) /\ files' = Append(files, r)
      BY <1>1, <2>1, <2>3 DEF FilesTyped
    <3>2. QED
      BY <2>4, <3>1, Grown
  <2>6. 0 \notin DOMAIN files
    BY <1>1, Tabled
  <2>7. PICK s : Becomes(d, s) /\ s \in {Idle, Mailing(ticked)} /\ report'.file = Len(files) + 1 /\ report' # NoReport
    <3>1. Drafted.file = Len(files) + 1 /\ Drafted \in CustomerReport
      BY <2>5 DEF Drafted, CustomerReport
    <3>2. PICK r2 : /\ r2 = report'
                    /\ \/ \E how \in {"not_enabled", "no_recipient"} : r2 = [Drafted EXCEPT !.delivery = how]
                       \/ r2 = SentTo(Drafted, ticked)
      BY <1>7 DEF JobDelivers, Sends, Recipients
    <3>3. r2 \in CustomerReport /\ r2.file = Len(files) + 1
      BY <2>2, <3>1, <3>2 DEF SentTo, CustomerReport
    <3>4. \E t \in {Idle, Mailing(ticked)} : Becomes(d, t)
      BY <1>7 DEF JobDelivers, Sends, Recipients
    <3>5. QED
      BY <3>2, <3>3, <3>4, Separate
  <2>8. s \in Stances /\ s.key = 0 /\ s.at # "rendered"
    <3>1. Mailing(ticked) \in Stances /\ Mailing(ticked).key = 0 /\ Mailing(ticked).at \in {"idle", "mailing"}
      BY <2>2, MailingIs
    <3>2. Idle \in Stances /\ Idle.key = 0 /\ Idle.at = "idle"
      BY IdleIs
    <3>3. QED
      BY <2>7, <3>1, <3>2
  <2>9. QED
    BY <1>1, <2>1, <2>2, <2>3, <2>5, <2>6, <2>7, <2>8, StoresFiled
<1>8. QED
  BY <1>2, <1>4, <1>5, <1>6, <1>7

(* Every mail, and every death, keeps the invariant.                       *)
LEMMA MailStep ==
  ASSUME Stores, Doings, NEW w \in Workers,
         (\E c \in Contacts : MailGoes(w, c) \/ MailBounces(w, c)) \/ FailureMarked(w) \/ WorkerDies(w)
  PROVE  Stores' /\ Doings'
<1>1. Doings'
  BY MailGoesKept, MailBouncesKept, FailureMarkedKept, WorkerDiesKept
<1>2. work[w] \in Stances /\ (work[w].at \in Holding <=> work[w].key # 0)
  BY KeyOf
<1>3. UNCHANGED <<bucket, files, keys, date, uploads, confirming, sweeping>>
  BY DEF MailGoes, MailBounces, FailureMarked, WorkerDies, attachmentVars
<1>4. ASSUME WorkerDies(w) PROVE Stores'
  <2>1. lost' = lost \cup ({work[w].key} \ {0}) /\ Becomes(w, Idle) /\ UNCHANGED report
    BY <1>4 DEF WorkerDies
  <2>2. QED
    BY <1>3, <2>1, IdleIs, WorkerMoves DEF Idle
<1>5. ASSUME NEW c \in Contacts, MailBounces(w, c) PROVE Stores'
  <2>1. /\ work[w].at = "mailing" /\ UNCHANGED <<report, lost>>
        /\ Becomes(w, [work[w] EXCEPT !.at = "marking", !.who = c, !.read = report.failed])
    BY <1>5 DEF MailBounces, At
  <2>2. report \in CustomerReport
    BY <2>1 DEF Doings, PlacesInv, RunsTyped, Sending
  <2>3. PICK s : s = [work[w] EXCEPT !.at = "marking", !.who = c, !.read = report.failed]
    OBVIOUS
  <2>4. s \in Stances /\ s.at = "marking" /\ s.key = work[w].key
    BY <1>2, <2>2, <2>3 DEF Stances, CustomerReport, Sending
  <2>5. QED
    BY <1>3, <2>1, <2>3, <2>4, WorkerMoves
<1>6. ASSUME FailureMarked(w) \/ \E c \in Contacts : MailGoes(w, c) PROVE Stores'
  <2>1. work[w].at \in Sending /\ UNCHANGED lost /\ \E out \in SUBSET Contacts : Becomes(w, Mailing(work[w].to \ out))
    <3>1. CASE FailureMarked(w)
      <4>1. work[w].who \in Contacts
        BY <3>1 DEF FailureMarked, At, Doings, PlacesInv
      <4>2. QED
        BY <3>1, <4>1 DEF FailureMarked, At, Sending
    <3>2. QED
      BY <1>6, <3>1 DEF MailGoes, At, Sending
  <2>2. PICK out \in SUBSET Contacts : Becomes(w, Mailing(work[w].to \ out))
    BY <2>1
  <2>3. work[w].to \ out \in SUBSET Contacts /\ work[w].key = 0
    BY <1>2, <2>1 DEF Stances, Sending, Holding
  <2>4. PICK s : s = Mailing(work[w].to \ out)
    OBVIOUS
  <2>5. s \in Stances /\ s.at # "rendered" /\ s.key = 0
    BY <2>3, <2>4, MailingIs
  <2>6. report' # NoReport => report # NoReport /\ report'.file = report.file
    <3>1. report \in CustomerReport /\ report # NoReport
      BY <2>1 DEF Doings, PlacesInv, RunsTyped
    <3>2. report' = report \/ \E some : report' = [report EXCEPT !.delivery = "failed", !.failed = some]
      BY <1>6 DEF FailureMarked, MailGoes
    <3>3. QED
      BY <3>1, <3>2 DEF CustomerReport
  <2>7. QED
    BY <1>3, <2>1, <2>2, <2>3, <2>4, <2>5, <2>6, WorkerMoves
<1>7. QED
  BY <1>1, <1>4, <1>5, <1>6

(* Every request of the office keeps the invariant.                        *)
LEMMA OfficeStep ==
  ASSUME Stores, Doings, NEW o \in Office, OfficeSends(o) \/ RegenerateStores(o) \/ RegenerateSaves(o)
  PROVE  Stores' /\ Doings'
<1>1. FilesTyped /\ o \in Workers
  BY Separate DEF Stores
<1>2. Doings'
  BY <1>1, OfficeSendsKept, RegenerateStoresKept, RegenerateSavesKept
<1>3. work[o] \in Stances /\ (work[o].at \in Holding <=> work[o].key # 0)
  BY <1>1, KeyOf
<1>4. ticked \in SUBSET Contacts
  BY DEF Doings, RunsTyped
<1>5. CASE OfficeSends(o)
  <2>1. /\ work[o].at = "idle" /\ report # NoReport /\ Sends(o, report, ticked)
        /\ UNCHANGED <<bucket, files, keys, date, uploads, confirming, sweeping, lost>>
    BY <1>5 DEF OfficeSends, At, Recipients, attachmentVars
  <2>2. report \in CustomerReport /\ work[o].key = 0
    BY <1>3, <2>1 DEF Doings, RunsTyped, Holding
  <2>3. report'.file = report.file
    BY <2>1, <2>2 DEF Sends, SentTo, CustomerReport
  <2>4. PICK s : s = Mailing(ticked)
    OBVIOUS
  <2>5. Becomes(o, s) /\ s \in Stances /\ s.at # "rendered" /\ s.key = 0
    BY <1>4, <2>1, <2>4, MailingIs DEF Sends
  <2>6. QED
    BY <1>1, <1>2, <2>1, <2>2, <2>3, <2>5, WorkerMoves
<1>6. CASE RegenerateStores(o)
  <2>1. /\ work[o].at = "idle" /\ report # NoReport /\ Puts
        /\ UNCHANGED <<date, files, uploads, confirming, sweeping, report, lost>>
        /\ Becomes(o, [Idle EXCEPT !.at = "rendered", !.key = keys + 1, !.old = report.file])
    BY <1>6 DEF RegenerateStores, At
  <2>2. report.file \in DOMAIN files /\ work[o].key = 0 /\ report.file \in Nat
    BY <1>1, <1>3, <2>1, Tabled DEF Stores, ObjectsInv, Holding
  <2>3. PICK s : s = [Idle EXCEPT !.at = "rendered", !.key = keys + 1, !.old = report.file]
    OBVIOUS
  <2>4. s \in Stances /\ s.key = keys + 1 /\ s.old = report.file
    <3>1. keys + 1 \in Nat
      BY <1>1 DEF FilesTyped
    <3>2. QED
      BY <2>2, <2>3, <3>1 DEF Idle, Stances, Holding
  <2>5. QED
    BY <1>1, <1>2, <2>1, <2>2, <2>3, <2>4, StoresPut
<1>7. CASE RegenerateSaves(o)
  <2>1. /\ work[o].at = "rendered" /\ report' = [report EXCEPT !.file = Len(files) + 1]
        /\ files' = [Append(files, Attachment(work[o].key, TRUE)) EXCEPT ![work[o].old].deletedOn = date]
        /\ UNCHANGED <<date, bucket, uploads, confirming, sweeping, lost, keys>> /\ Becomes(o, Idle)
    BY <1>7 DEF RegenerateSaves, At, Replaced
  <2>2. /\ work[o].key \in Nat /\ work[o].key # 0 /\ work[o].old \in DOMAIN files
        /\ report \in CustomerReport
    BY <1>1, <1>3, <2>1 DEF Holding, Stances, Stores, KeysInv, Doings, RunsTyped, PlacesInv
  <2>3. PICK r, old, grown : r = Attachment(work[o].key, TRUE) /\ old = work[o].old /\ grown = Append(files, r)
    OBVIOUS
  <2>4. r \in Rows
    BY <2>2, <2>3 DEF Attachment, Rows
  <2>5. /\ grown \in Seq(Rows) /\ Len(grown) = Len(files) + 1 /\ Len(files) \in Nat
        /\ grown[Len(files) + 1] = r /\ \A f \in DOMAIN files : grown[f] = files[f] /\ f \in DOMAIN grown
        /\ Len(files) + 1 \notin DOMAIN files /\ Len(files) + 1 \in DOMAIN grown
    <3>1. files \in Seq(Rows) /\ grown = Append(files, r)
      BY <1>1, <2>3 DEF FilesTyped
    <3>2. QED
      BY <2>4, <3>1, Grown
  <2>6. PICK q : q = [files[old] EXCEPT !.deletedOn = date]
    OBVIOUS
  <2>7. /\ q \in Rows /\ q.key = files[old].key /\ q.server = files[old].server
        /\ q.cleared = files[old].cleared /\ q.deletedOn = date
    <3>1. files[old] \in Rows
      BY <1>1, <2>2, <2>3, Tabled
    <3>2. date \in Nat
      BY <1>1, Tabled DEF FilesTyped
    <3>3. QED
      BY <2>6, <3>1, <3>2 DEF Rows
  <2>8. files' = [grown EXCEPT ![old] = q]
    BY <2>1, <2>2, <2>3, <2>5, <2>6
  <2>9. /\ files' \in Seq(Rows) /\ Len(files') = Len(files) + 1
        /\ files'[Len(files) + 1] = r /\ files'[old] = q
        /\ \A f \in DOMAIN files \ {old} : files'[f] = files[f]
    <3>1. old \in DOMAIN files /\ old \in DOMAIN grown /\ old # Len(files) + 1
      BY <2>2, <2>3, <2>5
    <3>2. /\ files' \in Seq(Rows) /\ Len(files') = Len(grown) /\ files'[old] = q
          /\ \A f \in DOMAIN grown \ {old} : files'[f] = grown[f]
      BY <2>5, <2>7, <2>8, <3>1, Amended
    <3>3. QED
      BY <2>5, <3>1, <3>2
  <2>10. report'.file = Len(files) + 1 /\ report' # NoReport
    <3>1. report' \in CustomerReport /\ report'.file = Len(files) + 1
      <4>1. Len(files) + 1 \in Nat
        BY <2>5
      <4>2. QED
        BY <2>1, <2>2, <4>1 DEF CustomerReport
    <3>2. QED
      BY <3>1, Separate
  <2>11. \A f \in DOMAIN files :
            /\ files'[f].key = files[f].key /\ files'[f].server = files[f].server
            /\ files'[f].cleared = files[f].cleared
            /\ files'[f].deletedOn = IF f = old THEN date ELSE files[f].deletedOn
    BY <2>7, <2>9
  <2>12. files'[Len(files) + 1] = Attachment(work[o].key, TRUE)
    BY <2>3, <2>9
  <2>13. PICK s \in Stances : s = Idle /\ s.key = 0 /\ s.at # "rendered"
    BY IdleIs
  <2>14. Becomes(o, s) /\ UNCHANGED <<date, bucket, uploads, confirming, sweeping, lost, keys>>
    BY <2>1, <2>13
  <2>15. Stores'
    <3>1. o \in Workers /\ work[o].key # 0 /\ files' \in Seq(Rows) /\ Len(files') = Len(files) + 1
      BY <1>1, <2>2, <2>9
    <3>2. QED
      BY <2>10, <2>11, <2>12, <2>13, <2>14, <3>1, StoresFiled
  <2>16. QED
    BY <1>2, <2>15
<1>8. QED
  BY <1>5, <1>6, <1>7

(* What else goes on leaves both alone. *)
LEMMA OtherStep ==
  ASSUME Stores, Doings,
         SwitchReports \/ Tomorrow \/ (\E some \in SUBSET Contacts : TickContacts(some)) \/ UNCHANGED jobVars
  PROVE  Stores' /\ Doings'
<1>1. /\ UNCHANGED <<bucket, files, keys, uploads, confirming, sweeping, lost, report, work>>
      /\ UNCHANGED <<enqueued, jobMailed, steady, bounced, ticking>>
  BY DEF SwitchReports, Tomorrow, TickContacts, jobVars, attachmentVars, reportVars
<1>2. ticked' \subseteq Contacts /\ ticking \in [Schedulers -> 0 .. LastDay]
  BY DEF SwitchReports, Tomorrow, TickContacts, jobVars, attachmentVars, reportVars, Doings, RunsTyped
<1>3. /\ date \in Days /\ uploads \in [Uploads -> {"none", "signed", "put"}]
      /\ confirming \in [Clients -> Uploads \cup {Nothing}]
  BY DEF Stores, FilesTyped
<1>4. date' \in Days
  BY <1>3, AttachmentsAssumption DEF SwitchReports, Tomorrow, TickContacts, jobVars, attachmentVars, Days
<1>5. QED
  BY <1>1, <1>2, <1>3, <1>4, DoingsElsewhere, StoresElsewhere

(* Every step keeps the invariant.                                         *)
LEMMA StepKept ==
  ASSUME Stores, Doings, [ReportsNext]_jobVars
  PROVE  Stores' /\ Doings'
<1>1. CASE UploadUrl \/ ((AttachmentViewSet \/ PurgeAttachments) /\ UNCHANGED reportVars)
  BY <1>1, FilesStep
<1>2. CASE EnqueueDue
  BY <1>2, SchedulersStep DEF EnqueueDue
<1>3. CASE MonthlyCustomerReports
  BY <1>3, JobStep DEF MonthlyCustomerReports
<1>4. CASE SendAfterCommit \/ \E w \in Workers : WorkerDies(w)
  BY <1>4, MailStep DEF SendAfterCommit
<1>5. CASE CustomerReportViewSet
  BY <1>5, OfficeStep DEF CustomerReportViewSet
<1>6. CASE SwitchReports \/ Tomorrow \/ (\E some \in SUBSET Contacts : TickContacts(some)) \/ UNCHANGED jobVars
  BY <1>6, OtherStep
<1>7. QED
  BY <1>1, <1>2, <1>3, <1>4, <1>5, <1>6 DEF ReportsNext

(* It holds at the start.                                                  *)
LEMMA InitHolds == ReportsInit => Stores /\ Doings
<1> SUFFICES ASSUME ReportsInit PROVE Stores /\ Doings
  OBVIOUS
<1>1. /\ date = 1 /\ bucket = {} /\ files = <<>> /\ uploads = [u \in Uploads |-> "none"]
      /\ confirming = [c \in Clients |-> Nothing] /\ sweeping = 0 /\ keys = 0
      /\ report = NoReport /\ ticked \in SUBSET Contacts /\ ticking = [s \in Schedulers |-> 0]
      /\ enqueued = [d \in Days |-> 0] /\ work = [w \in Workers |-> Idle]
      /\ jobMailed = [c \in Contacts |-> 0] /\ steady = TRUE /\ bounced = {} /\ lost = {}
  BY DEF ReportsInit, AttachmentsInit
<1>2. files \in Seq(Rows) /\ Len(files) = 0 /\ DOMAIN files = {} /\ 1 \in Days
  BY <1>1, AttachmentsAssumption DEF Days
<1>3. \A w \in Workers : work[w] = Idle
  BY <1>1
<1>4. FilesTyped
  BY <1>1, <1>2 DEF FilesTyped
<1>5. KeysInv
  BY <1>1, <1>2, <1>3, IdleIs DEF KeysInv, RowsOf, Idle
<1>6. ObjectsInv
  BY <1>1, <1>2 DEF ObjectsInv, SweptMeansGone, OrphansOnlyFromCrashes
<1>7. RunsTyped
  BY <1>1, IdleIs, AttachmentsAssumption DEF RunsTyped
<1>8. PlacesInv
  <2>1. Days \subseteq Workers
    BY Separate
  <2>2. QED
    BY <1>1, <1>3, <2>1, IdleIs DEF PlacesInv, At, Holding, Sending
<1>9. MailsInv
  <2>1. Days \subseteq Workers
    BY Separate
  <2>2. QED
    BY <1>1, <1>3, <2>1, IdleIs DEF MailsInv
<1>10. RecordInv
  BY <1>1, <1>3, IdleIs DEF RecordInv, Sending
<1>11. QED
  BY <1>4, <1>5, <1>6, <1>7, <1>8, <1>9, <1>10 DEF Stores, Doings

-----------------------------------------------------------------------------
(* The theorems                                                            *)

(* The invariant holds in every state of the monthly report, whatever the  *)
(* number of days, contacts, schedulers, office requests, uploads,         *)
(* failures and crashes.                                                   *)
THEOREM ReportsInvariant == ReportsSpec => []ReportsInv
<1>1. ReportsInit => ReportsInv
  BY InitHolds DEF ReportsInv
<1>2. ReportsInv /\ [ReportsNext]_jobVars => ReportsInv'
  BY StepKept DEF ReportsInv
<1>3. QED
  BY <1>1, <1>2, PTL DEF ReportsSpec

(* What the invariant promises of the files.                               *)
LEMMA Accounted == ReportsInv => FilesAreAccountedFor
<1> SUFFICES ASSUME Stores, Doings PROVE FilesAreAccountedFor
  BY DEF ReportsInv
<1>1. FilesTyped /\ KeysInv /\ ObjectsInv
  BY DEF Stores
<1>2. ReportsTyped
  <2>1. ASSUME NEW w \in Workers PROVE work[w].to \subseteq Contacts /\ work[w].key \in 0 .. keys
    <3>1. work[w] \in Stances
      BY DEF Doings, RunsTyped
    <3>2. work[w].key # 0 => work[w].key \in 1 .. keys
      BY <1>1, <3>1, AttachmentsAssumption DEF KeysInv, FilesTyped, Stances
    <3>3. QED
      BY <1>1, <3>1, <3>2 DEF Stances, FilesTyped
  <2>2. QED
    BY <1>1, <2>1 DEF ReportsTyped, FilesTyped, KeysInv, ObjectsInv
<1>3. ReportHasItsFile
  BY <1>1 DEF ReportHasItsFile, ObjectsInv
<1>4. QED
  BY <1>1, <1>2, <1>3 DEF FilesAreAccountedFor, ObjectsInv

(* Files, rows and objects agree wherever the sweep, a rendering, a        *)
(* failure or a crash left them (apps/attachments/services.py:             *)
(* purge_detached_objects; apps/reports/services.py: _store_pdf,           *)
(* _discard): the report's PDF is always there to be sent, no cleared row  *)
(* leaves its bytes behind, and only a death leaves an object nothing will *)
(* remove.                                                                 *)
THEOREM FilesAlwaysAccountedFor == ReportsSpec => []FilesAreAccountedFor
BY ReportsInvariant, Accounted, PTL

(* What it promises of the job.                                            *)
LEMMA Once == Doings => JobActsOnce
<1> SUFFICES ASSUME Doings PROVE JobActsOnce
  OBVIOUS
<1>1. enqueued \in [Days -> 0 .. 1] /\ jobMailed \in [Contacts -> 0 .. 1]
  BY DEF Doings, RunsTyped
<1>2. QED
  BY <1>1 DEF JobActsOnce, OneRunPerDay, JobMailsOnce

(* A day's job is claimed once and a contact is mailed a month once, by    *)
(* any number of schedulers, overlapping runs and retries                  *)
(* (core/scheduling.py: enqueue_due; apps/reports/services.py: generate).  *)
THEOREM JobAlwaysActsOnce == ReportsSpec => []JobActsOnce
<1>1. ReportsInv => JobActsOnce
  BY Once DEF ReportsInv
<1>2. QED
  BY <1>1, ReportsInvariant, PTL

(* What it promises of the failures on record.                             *)
LEMMA Recorded == Doings => FailuresAreOnRecord
<1> SUFFICES ASSUME Doings, steady, report # NoReport,
                    \A w \in Workers : work[w].at \notin {"mailing", "marking"}
             PROVE  report.failed = bounced /\ (report.delivery = "failed" <=> bounced # {})
  BY DEF FailuresAreOnRecord
<1>1. report.failed = bounced
  BY DEF Doings, RecordInv
<1>2. QED
  BY <1>1 DEF Doings, RecordInv

(* After a send nothing overlapped and nobody died in, the report tells    *)
(* exactly the addresses it missed (apps/reports/services.py:              *)
(* _mark_failed).                                                          *)
THEOREM FailuresAlwaysOnRecord == ReportsSpec => []FailuresAreOnRecord
<1>1. ReportsInv => FailuresAreOnRecord
  BY Recorded DEF ReportsInv
<1>2. QED
  BY <1>1, ReportsInvariant, PTL

=============================================================================
