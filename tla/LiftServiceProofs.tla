--------------------------- MODULE LiftServiceProofs ---------------------------
(***************************************************************************)
(* Proofs about a lift in service, for any number of calls, faults and     *)
(* inspections, any window and any contract lines: one fault for one cause *)
(* (FaultsConverge), reports that reach somebody (ReportsAreHeard), what   *)
(* the office said of a bill (StatedBillingStays), and a lift that follows *)
(* its newest inspection and the people who seal it (LiftFollowsPeople).   *)
(*                                                                         *)
(* The invariant says what a request may rely on between its two steps:    *)
(* the row it locked is as it read it, no other request holds the same     *)
(* one, and what it read of the lift and its inspections is what they are  *)
(* for as long as nothing else committed.                                  *)
(***************************************************************************)
EXTENDS LiftService, SequenceTheorems, WellFoundedInduction, TLAPS

-----------------------------------------------------------------------------
(* The newest of some rows                                                 *)

LEMMA LeastOf ==
  ASSUME NEW S \in SUBSET Nat, S # {}
  PROVE  \E m \in S : \A n \in S : m <= n
<1> DEFINE R == OpToRel(<, Nat)
<1>1. PICK m \in S : \A n \in S : <<n, m>> \notin R
  <2>1. IsWellFoundedOn(R, Nat)
    BY NatLessThanWellFounded
  <2> HIDE DEF R
  <2> QED
    BY <2>1, WFMin
<1>2. ASSUME NEW n \in S, n < m
      PROVE  FALSE
  <2>1. <<n, m>> \in Nat \X Nat /\ <<n, m>>[1] < <<n, m>>[2]
    BY <1>2
  <2> QED
    BY <1>1, <2>1 DEF OpToRel
<1> QED
  BY <1>2

LEMMA GreatestOf ==
  ASSUME NEW S \in SUBSET Nat, S # {}, NEW top \in Nat, \A n \in S : n <= top
  PROVE  \E m \in S : \A n \in S : n <= m
<1> DEFINE T == {top - n : n \in S}
<1>1. T \in SUBSET Nat /\ T # {}
  <2>1. PICK n \in S : TRUE
    OBVIOUS
  <2>2. top - n \in T /\ \A m \in S : top - m \in Nat
    OBVIOUS
  <2> QED
    BY <2>2
<1>2. PICK t \in T : \A u \in T : t <= u
  <2> HIDE DEF T
  <2> QED
    BY <1>1, LeastOf
<1>3. PICK m \in S : t = top - m
  BY <1>2
<1>4. ASSUME NEW n \in S
      PROVE  n <= m
  <2>1. top - n \in T
    OBVIOUS
  <2>2. t <= top - n
    BY <1>2, <2>1
  <2> QED
    BY <1>3, <2>2
<1> QED
  BY <1>4

(* i is the newest of rows: by date, then in the order they were created.  *)
Newest(i, rows) ==
  \A j \in DOMAIN rows : rows[i].on > rows[j].on \/ (rows[i].on = rows[j].on /\ i >= j)

(* Rows whose dates are bounded have a newest, and Latest finds one.       *)
LEMMA LatestIsNewest ==
  ASSUME NEW n \in Nat, n > 0, NEW rows, DOMAIN rows = 1 .. n, NEW top \in Nat,
         \A i \in 1 .. n : rows[i].on \in Nat /\ rows[i].on <= top
  PROVE  \E i \in 1 .. n : Newest(i, rows) /\ Latest(rows) = rows[i]
<1> DEFINE days == {rows[i].on : i \in 1 .. n}
<1>1. PICK d \in days : \A e \in days : e <= d
  <2>1. days \in SUBSET Nat /\ days # {} /\ \A e \in days : e <= top
    OBVIOUS
  <2> HIDE DEF days
  <2> QED
    BY <2>1, GreatestOf
<1> DEFINE last == {i \in 1 .. n : rows[i].on = d}
<1>2. PICK i \in last : \A j \in last : j <= i
  <2>1. last \in SUBSET Nat /\ last # {} /\ \A j \in last : j <= n
    BY <1>1
  <2> HIDE DEF last
  <2> QED
    BY <2>1, GreatestOf
<1>3. Newest(i, rows)
  <2>1. ASSUME NEW j \in 1 .. n
        PROVE  rows[i].on > rows[j].on \/ (rows[i].on = rows[j].on /\ i >= j)
    <3>1. rows[j].on \in Nat /\ rows[j].on <= d /\ rows[i].on = d /\ d \in Nat
      BY <1>1, <1>2
    <3>2. rows[j].on = d => j <= i
      BY <1>2
    <3> QED
      BY <3>1, <3>2
  <2> QED
    BY <2>1 DEF Newest
<1>4. \E k \in DOMAIN rows : Newest(k, rows)
  BY <1>2, <1>3
<1> QED
  BY <1>4 DEF Latest, Newest

-----------------------------------------------------------------------------
(* What holds                                                              *)

Inspection == [on : Dates, label : Labels, fault : Nat]

LiftRow == [status : Statuses, label : Labels \cup {"none"}]

Fault ==
  [channel : Channels, priority : Priorities,
   status : {"open", "assigned", "on_site", "resolved", "closed", "cancelled"},
   stopped : BOOLEAN, reported : Nat, finished : Nat,
   billable : {"unset", "yes", "no"}, stated : BOOLEAN, reporter : BOOLEAN, reports : Nat,
   defect : Nat \cup {None}, alarmed : BOOLEAN]

OfLift == [step : {"lift"}, lift : LiftRow, alone : BOOLEAN]
OfInspection == [step : {"inspection"}, id : Nat, row : Inspection, lift : LiftRow, alone : BOOLEAN]
OfDefect == [step : {"defect", "opening"}, id : Nat, fault : Nat]
OfFault == [step : {"reporting", "resolving"}, lift : LiftRow, fault : Nat]
Syncing == [step : {"syncing"}, id : Nat, row : Inspection, lift : LiftRow, alone : BOOLEAN,
            latest : Inspection]

Call == {NoCall} \cup OfLift \cup OfInspection \cup OfDefect \cup OfFault \cup Syncing

Types ==
  /\ now \in 1 .. MaxNow /\ calls \in 0 .. MaxCalls
  /\ lift \in LiftRow
  /\ inspections \in Seq(Inspection) /\ Len(inspections) <= MaxInspections
  /\ faults \in Seq(Fault) /\ Len(faults) <= MaxFaults
  /\ call \in [Request -> Call]

(* A defect names the fault that was opened for it.                        *)
Names(f, i) == f # 0 => f \in DOMAIN faults /\ faults[f].defect = i

Linked == \A i \in DOMAIN inspections : Names(inspections[i].fault, i)

(* The clock is ahead of every fault, and emergencies were announced.      *)
Told ==
  \A f \in DOMAIN faults :
    /\ faults[f].reported <= now /\ faults[f].finished <= now
    /\ faults[f].priority = "emergency" => faults[f].alarmed

Dated == \E top \in Nat : \A i \in DOMAIN inspections : inspections[i].on <= top

(* A public fault nobody has arrived at yet.                               *)
Waiting(f) == faults[f].channel = "public_qr" /\ faults[f].status \in {"open", "assigned"}

(* The inspections as r is about to leave them.                            *)
Left(r) ==
  [j \in DOMAIN inspections \cup {call[r].id} |->
     IF j = call[r].id THEN call[r].row ELSE inspections[j]]

(* What r read is what it says, for as long as r holds it.                 *)
Held(r) ==
  /\ call[r].step \in {"inspection", "defect", "opening"} => call[r].id \in DOMAIN inspections
  /\ call[r].step = "syncing" =>
       /\ call[r].id \in 1 .. Len(inspections) + 1 /\ call[r].id <= MaxInspections
       /\ call[r].id = Len(inspections) + 1 => call[r].row.fault = 0
  /\ call[r].step \in {"defect", "opening"} => Names(call[r].fault, call[r].id)
  /\ call[r].step = "opening" => inspections[call[r].id].fault = call[r].fault
  /\ call[r].step = "resolving" => call[r].fault \in DOMAIN faults
  /\ call[r].step = "reporting" /\ call[r].fault # 0 =>
       call[r].fault \in DOMAIN faults /\ Waiting(call[r].fault)
  /\ call[r].step = "reporting" /\ call[r].fault = 0 =>
       \A f \in DOMAIN faults : Waiting(f) => faults[f].reported < now - PUBLIC_MERGE_WINDOW
  /\ Alone(r) => call[r].lift = lift
  /\ Alone(r) /\ call[r].step = "syncing" =>
       \E i \in DOMAIN Left(r) : Newest(i, Left(r)) /\ call[r].latest = Left(r)[i]

(* Two requests never hold the same row.                                   *)
Apart(q, r) ==
  /\ ~(call[q].step = "reporting" /\ call[r].step = "reporting")
  /\ call[q].step \in {"reporting", "resolving"} /\ call[r].step \in {"reporting", "resolving"} =>
       call[q].fault # call[r].fault
  /\ call[q].step = "opening" /\ call[r].step = "opening" => call[q].id # call[r].id
  /\ call[q].step = "syncing" /\ call[r].step = "syncing" => call[q].id # call[r].id

LiftServiceInv ==
  /\ Types /\ Linked /\ Told /\ OnePublicFaultPerWindow /\ Dated
  /\ \A r \in Request : Held(r)
  /\ \A q, r \in Request : q # r => Apart(q, r)

-----------------------------------------------------------------------------
(* The shape of what a request holds                                       *)

LEMMA CallKinds ==
  ASSUME Types, NEW r \in Request
  PROVE  /\ call[r] \in Call
         /\ call[r].step = "lift" => call[r] \in OfLift
         /\ call[r].step = "inspection" => call[r] \in OfInspection
         /\ call[r].step \in {"defect", "opening"} => call[r] \in OfDefect
         /\ call[r].step \in {"reporting", "resolving"} => call[r] \in OfFault
         /\ call[r].step = "syncing" => call[r] \in Syncing
         /\ call[r].step \in Steps \/ call[r] = NoCall
         /\ "alone" \in DOMAIN call[r] <=> call[r].step \in {"lift", "inspection", "syncing"}
<1>1. call[r] \in Call
  BY DEF Types
<1>2. None \notin Steps
  BY LiftServiceAssumption
<1> QED
  BY <1>1, <1>2 DEF Call, NoCall, OfLift, OfInspection, OfDefect, OfFault, Syncing, Steps

(* What another's answer leaves of a call: all of it, or all but alone.    *)
NoLonger(c) == [c EXCEPT !.alone = FALSE]

Passed(q) ==
  \/ call'[q] = call[q] /\ (Alone(q) => UNCHANGED <<lift, inspections>>)
  \/ "alone" \in DOMAIN call[q] /\ call'[q] = NoLonger(call[q])

LEMMA PassedCall ==
  ASSUME Types, NEW q \in Request, Passed(q)
  PROVE  /\ call'[q] \in Call
         /\ call'[q].step = call[q].step
         /\ call[q].step \in {"inspection", "defect", "opening", "syncing"} => call'[q].id = call[q].id
         /\ call[q].step \in {"defect", "opening", "reporting", "resolving"} =>
              call'[q].fault = call[q].fault
         /\ call[q].step \in {"inspection", "syncing"} => call'[q].row = call[q].row
         /\ Alone(q)' => Alone(q) /\ call'[q] = call[q] /\ UNCHANGED <<lift, inspections>>
<1>1. CASE call'[q] = call[q] /\ (Alone(q) => UNCHANGED <<lift, inspections>>)
  BY <1>1, CallKinds DEF Alone
<1>2. CASE "alone" \in DOMAIN call[q] /\ call'[q] = NoLonger(call[q])
  <2>1. CASE call[q].step = "lift"
    <3>1. call[q] \in OfLift
      BY <2>1, CallKinds
    <3>2. call'[q] \in OfLift /\ call'[q].alone = FALSE /\ call'[q].step = "lift"
      BY <1>2, <3>1 DEF OfLift, NoLonger
    <3> QED
      BY <2>1, <3>1, <3>2 DEF Call, Alone, OfLift
  <2>2. CASE call[q].step = "inspection"
    <3>1. call[q] \in OfInspection
      BY <2>2, CallKinds
    <3>2. /\ call'[q] \in OfInspection /\ call'[q].alone = FALSE /\ call'[q].step = "inspection"
          /\ call'[q].id = call[q].id /\ call'[q].row = call[q].row
      BY <1>2, <3>1 DEF OfInspection, NoLonger
    <3> QED
      BY <2>2, <3>1, <3>2 DEF Call, Alone, OfInspection
  <2>3. CASE call[q].step = "syncing"
    <3>1. call[q] \in Syncing
      BY <2>3, CallKinds
    <3>2. /\ call'[q] \in Syncing /\ call'[q].alone = FALSE /\ call'[q].step = "syncing"
          /\ call'[q].id = call[q].id /\ call'[q].row = call[q].row
      BY <1>2, <3>1 DEF Syncing, NoLonger
    <3> QED
      BY <2>3, <3>1, <3>2 DEF Call, Alone, Syncing
  <2> QED
    BY <1>2, <2>1, <2>2, <2>3, CallKinds
<1> QED
  BY <1>1, <1>2 DEF Passed

(* r answers, and the others go on.                                        *)
LEMMA AnswerPasses ==
  ASSUME Types, NEW r \in Request, Answer(r)
  PROVE  /\ call' \in [Request -> Call]
         /\ call'[r] = NoCall
         /\ \A q \in Request \ {r} : Passed(q)
<1>1. \A q \in Request : call'[q] = IF q = r THEN NoCall
                                    ELSE IF Alone(q) /\ <<lift, inspections>>' # <<lift, inspections>>
                                    THEN NoLonger(call[q]) ELSE call[q]
  BY DEF Answer, NoLonger
<1>2. ASSUME NEW q \in Request, q # r
      PROVE  Passed(q)
  BY <1>1, <1>2 DEF Passed, Alone
<1>3. \A q \in Request : call'[q] \in Call
  BY <1>1, <1>2, PassedCall DEF Call
<1>4. call' = [q \in Request |-> call'[q]]
  BY DEF Answer
<1> QED
  BY <1>1, <1>2, <1>3, <1>4

-----------------------------------------------------------------------------
(* What a step leaves alone                                                *)

(* What q may rely on in a step that is not its own.                       *)
Untouched(q) ==
  /\ now <= now'
  /\ \/ Len(inspections') = Len(inspections)
     \/ /\ Len(inspections') = Len(inspections) + 1
        /\ ~(call[q].step = "syncing" /\ call[q].id = Len(inspections) + 1)
  /\ call[q].step = "opening" => inspections'[call[q].id].fault = inspections[call[q].id].fault
  /\ \A f \in DOMAIN faults :
       /\ f \in DOMAIN faults'
       /\ faults'[f].defect = faults[f].defect /\ faults'[f].reported = faults[f].reported
       /\ Waiting(f)' => Waiting(f)
       /\ call[q].step = "reporting" /\ call[q].fault = f => Waiting(f)'
  /\ \A f \in DOMAIN faults' \ DOMAIN faults : Waiting(f)' => call[q].step # "reporting"

LEMMA Sizes ==
  ASSUME Types
  PROVE  /\ Len(inspections) \in Nat /\ DOMAIN inspections = 1 .. Len(inspections)
         /\ Len(faults) \in Nat /\ DOMAIN faults = 1 .. Len(faults)
         /\ \A i \in DOMAIN inspections : inspections[i] \in Inspection
         /\ \A f \in DOMAIN faults : faults[f] \in Fault
<1>1. inspections \in Seq(Inspection) /\ faults \in Seq(Fault)
  BY DEF Types
<1> QED
  BY <1>1, LenProperties, ElementOfSeq

LEMMA HeldStays ==
  ASSUME LiftServiceInv, Types', NEW q \in Request, Passed(q), Untouched(q)
  PROVE  Held(q)'
<1>1. Types /\ Held(q)
  BY DEF LiftServiceInv
<1>2. /\ Len(inspections) \in Nat /\ DOMAIN inspections = 1 .. Len(inspections)
      /\ Len(inspections') \in Nat /\ DOMAIN inspections' = 1 .. Len(inspections')
      /\ Len(inspections) <= Len(inspections')
  <2>1. /\ Len(inspections) \in Nat /\ DOMAIN inspections = 1 .. Len(inspections)
        /\ Len(inspections') \in Nat /\ DOMAIN inspections' = 1 .. Len(inspections')
    BY <1>1, LenProperties DEF Types
  <2>2. Len(inspections') = Len(inspections) \/ Len(inspections') = Len(inspections) + 1
    BY DEF Untouched
  <2>3. Len(inspections) \in Nat /\ Len(inspections') \in Nat
    BY <2>1
  <2>4. Len(inspections) <= Len(inspections')
    BY <2>2, <2>3
  <2> QED
    BY <2>1, <2>4
<1> DEFINE c == call[q]
           d == call'[q]
<1>3. /\ d.step = c.step
      /\ c.step \in {"inspection", "defect", "opening", "syncing"} => d.id = c.id
      /\ c.step \in {"defect", "opening", "reporting", "resolving"} => d.fault = c.fault
      /\ c.step \in {"inspection", "syncing"} => d.row = c.row
      /\ Alone(q)' => Alone(q) /\ d = c /\ UNCHANGED <<lift, inspections>>
  BY <1>1, PassedCall
<1>4. \A f \in DOMAIN faults :
        /\ f \in DOMAIN faults'
        /\ faults'[f].defect = faults[f].defect /\ faults'[f].reported = faults[f].reported
        /\ Waiting(f)' => Waiting(f)
        /\ c.step = "reporting" /\ c.fault = f => Waiting(f)'
  BY DEF Untouched
<1>5. ASSUME d.step \in {"inspection", "defect", "opening"}
      PROVE  d.id \in DOMAIN inspections'
  <2>1. c.id \in DOMAIN inspections /\ d.id = c.id
    BY <1>1, <1>3, <1>5 DEF Held
  <2> QED
    BY <1>2, <2>1
<1>6. ASSUME d.step = "syncing"
      PROVE  /\ d.id \in 1 .. Len(inspections') + 1 /\ d.id <= MaxInspections
             /\ d.id = Len(inspections') + 1 => d.row.fault = 0
  <2>1. /\ c.id \in 1 .. Len(inspections) + 1 /\ c.id <= MaxInspections
        /\ c.id = Len(inspections) + 1 => c.row.fault = 0
        /\ d.id = c.id /\ d.row = c.row /\ c.step = "syncing"
    BY <1>1, <1>3, <1>6 DEF Held
  <2>2. CASE Len(inspections') = Len(inspections)
    BY <2>1, <2>2
  <2>3. CASE /\ Len(inspections') = Len(inspections) + 1
             /\ ~(c.step = "syncing" /\ c.id = Len(inspections) + 1)
    BY <1>2, <2>1, <2>3
  <2> QED
    BY <2>2, <2>3 DEF Untouched
<1>7. ASSUME d.step \in {"defect", "opening"}
      PROVE  Names(call[q].fault, call[q].id)'
  <2>1. Names(c.fault, c.id) /\ d.id = c.id /\ d.fault = c.fault
    BY <1>1, <1>3, <1>7 DEF Held
  <2> QED
    BY <1>4, <2>1 DEF Names
<1>8. ASSUME d.step = "opening"
      PROVE  inspections'[d.id].fault = d.fault
  <2>1. inspections[c.id].fault = c.fault /\ d.id = c.id /\ d.fault = c.fault /\ c.step = "opening"
    BY <1>1, <1>3, <1>8 DEF Held
  <2>2. inspections'[c.id].fault = inspections[c.id].fault
    BY <2>1 DEF Untouched
  <2> QED
    BY <2>1, <2>2
<1>9. ASSUME d.step = "resolving"
      PROVE  d.fault \in DOMAIN faults'
  BY <1>1, <1>3, <1>4, <1>9 DEF Held
<1>10. ASSUME d.step = "reporting", d.fault # 0
       PROVE  d.fault \in DOMAIN faults' /\ Waiting(call[q].fault)'
  <2>1. c.step = "reporting" /\ d.fault = c.fault /\ c.fault # 0
    BY <1>3, <1>10
  <2>2. c.fault \in DOMAIN faults
    BY <1>1, <2>1 DEF Held
  <2>3. c.fault \in DOMAIN faults' /\ Waiting(c.fault)'
    BY <1>4, <2>1, <2>2
  <2> QED
    BY <2>1, <2>3
<1>11. ASSUME d.step = "reporting", d.fault = 0
       PROVE  \A f \in DOMAIN faults' :
                Waiting(f)' => faults'[f].reported < now' - PUBLIC_MERGE_WINDOW
  <2>1. c.step = "reporting" /\ c.fault = 0
    BY <1>3, <1>11
  <2>2. \A f \in DOMAIN faults : Waiting(f) => faults[f].reported < now - PUBLIC_MERGE_WINDOW
    BY <1>1, <2>1 DEF Held
  <2>3. \A f \in DOMAIN faults' \ DOMAIN faults : ~Waiting(f)'
    BY <2>1 DEF Untouched
  <2>4. now \in Nat /\ now' \in Nat /\ now <= now' /\ PUBLIC_MERGE_WINDOW \in Nat
    BY <1>1, LiftServiceAssumption DEF Types, Untouched
  <2>5. ASSUME NEW f \in DOMAIN faults', Waiting(f)'
        PROVE  faults'[f].reported < now' - PUBLIC_MERGE_WINDOW
    <3>1. f \in DOMAIN faults
      BY <2>3, <2>5
    <3>2. faults[f].reported \in Nat
      BY <1>1, <3>1, Sizes DEF Fault
    <3>3. faults'[f].reported = faults[f].reported /\ faults[f].reported < now - PUBLIC_MERGE_WINDOW
      BY <1>4, <2>2, <2>5, <3>1
    <3> QED
      BY <2>4, <3>2, <3>3
  <2> QED
    BY <2>5
<1>12. ASSUME Alone(q)'
       PROVE  /\ call'[q].lift = lift'
              /\ d.step = "syncing" =>
                   \E i \in DOMAIN Left(q)' : Newest(i, Left(q)') /\ d.latest = Left(q)'[i]
  <2>1. Alone(q) /\ d = c /\ lift' = lift /\ inspections' = inspections
    BY <1>3, <1>12
  <2>2. Left(q)' = Left(q)
    BY <2>1 DEF Left
  <2>3. c.lift = lift
    BY <1>1, <2>1 DEF Held
  <2>4. c.step = "syncing" => \E i \in DOMAIN Left(q) : Newest(i, Left(q)) /\ c.latest = Left(q)[i]
    BY <1>1, <2>1 DEF Held
  <2> QED
    BY <2>1, <2>2, <2>3, <2>4
<1> QED
  BY <1>5, <1>6, <1>7, <1>8, <1>9, <1>10, <1>11, <1>12 DEF Held

LEMMA ApartStays ==
  ASSUME Types, NEW q \in Request, NEW r \in Request, Apart(q, r),
         call'[q] = NoCall \/ Passed(q), call'[r] = NoCall \/ Passed(r)
  PROVE  Apart(q, r)'
<1>1. ASSUME NEW p \in Request, call'[p] = NoCall
      PROVE  call'[p].step \notin Steps
  BY <1>1, LiftServiceAssumption DEF NoCall
<1>2. ASSUME NEW p \in Request, Passed(p)
      PROVE  /\ call'[p].step = call[p].step
             /\ call[p].step \in {"opening", "syncing"} => call'[p].id = call[p].id
             /\ call[p].step \in {"reporting", "resolving"} => call'[p].fault = call[p].fault
  BY <1>2, PassedCall
<1>3. CASE call'[q] = NoCall \/ call'[r] = NoCall
  BY <1>1, <1>3 DEF Apart, Steps
<1>4. CASE Passed(q) /\ Passed(r)
  <2>1. /\ call'[q].step = call[q].step /\ call'[r].step = call[r].step
        /\ call[q].step \in {"opening", "syncing"} => call'[q].id = call[q].id
        /\ call[r].step \in {"opening", "syncing"} => call'[r].id = call[r].id
        /\ call[q].step \in {"reporting", "resolving"} => call'[q].fault = call[q].fault
        /\ call[r].step \in {"reporting", "resolving"} => call'[r].fault = call[r].fault
    BY <1>2, <1>4
  <2> QED
    BY <2>1 DEF Apart
<1> QED
  BY <1>3, <1>4

(* Who has no call relies on nothing.                                      *)
LEMMA NothingHeld ==
  ASSUME NEW r \in Request, call'[r] = NoCall
  PROVE  Held(r)'
<1>1. call'[r].step \notin Steps /\ "alone" \notin DOMAIN call'[r]
  BY LiftServiceAssumption DEF NoCall
<1> QED
  BY <1>1 DEF Held, Alone, Steps

(* A step of the tables, or one that ends a call, keeps the invariant when *)
(* it keeps the tables' part and leaves alone what others rely on.         *)
LEMMA StepKeeps ==
  ASSUME LiftServiceInv, Types', Linked', Told', OnePublicFaultPerWindow', Dated',
         \A q \in Request : call'[q] = NoCall \/ (Passed(q) /\ Untouched(q))
  PROVE  LiftServiceInv'
<1>1. \A q \in Request : Held(q)'
  BY HeldStays, NothingHeld
<1>2. ASSUME NEW q \in Request, NEW r \in Request, q # r
      PROVE  Apart(q, r)'
  BY <1>2, ApartStays DEF LiftServiceInv
<1> QED
  BY <1>1, <1>2 DEF LiftServiceInv

(* A step of one call alone keeps the invariant when that call holds what  *)
(* it says, and nothing another holds.                                     *)
LEMMA CallKeeps ==
  ASSUME LiftServiceInv, NEW r \in Request, NEW got \in Call,
         call' = [call EXCEPT ![r] = got], calls' \in 0 .. MaxCalls,
         UNCHANGED <<now, lift, inspections, faults>>,
         Held(r)', \A q \in Request \ {r} : Apart(q, r)'
  PROVE  LiftServiceInv'
<1>1. Types
  BY DEF LiftServiceInv
<1>2. call'[r] = got /\ \A q \in Request \ {r} : call'[q] = call[q]
  BY <1>1 DEF Types
<1>3. Types'
  <2>1. call' \in [Request -> Call]
    BY <1>1 DEF Types
  <2> QED
    BY <1>1, <2>1 DEF Types
<1>4. ASSUME NEW q \in Request, q # r
      PROVE  Held(q)'
  <2>1. Passed(q)
    BY <1>2, <1>4 DEF Passed
  <2>2. Untouched(q)
    <3>1. now \in Nat
      BY <1>1 DEF Types
    <3>2. \A f \in DOMAIN faults : Waiting(f)' <=> Waiting(f)
      BY DEF Waiting
    <3>3. call[q].step = "reporting" /\ call[q].fault # 0 => Waiting(call[q].fault)
      BY DEF LiftServiceInv, Held
    <3>4. \A f \in DOMAIN faults : f # 0
      BY <1>1, Sizes
    <3> QED
      BY <3>1, <3>2, <3>3, <3>4 DEF Untouched
  <2> QED
    BY <1>3, <2>1, <2>2, HeldStays
<1>5. \A q \in Request : Held(q)'
  BY <1>4
<1>6. ASSUME NEW p \in Request, NEW q \in Request, p # q
      PROVE  Apart(p, q)'
  <2>1. CASE p # r /\ q # r
    <3>1. Apart(p, q)
      BY <1>6 DEF LiftServiceInv
    <3> QED
      BY <1>2, <2>1, <3>1 DEF Apart
  <2>2. CASE q = r
    BY <1>6, <2>2
  <2>3. CASE p = r
    <3>1. Apart(q, p)'
      BY <1>6, <2>3
    <3> QED
      BY <3>1 DEF Apart
  <2> QED
    BY <2>1, <2>2, <2>3
<1>7. Linked' /\ Told' /\ OnePublicFaultPerWindow' /\ Dated'
  BY DEF LiftServiceInv, Linked, Names, Told, OnePublicFaultPerWindow, Dated
<1> QED
  BY <1>3, <1>5, <1>6, <1>7 DEF LiftServiceInv

-----------------------------------------------------------------------------
(* The properties of one step                                              *)

ReachStep ==
  \A f \in DOMAIN faults :
       \/ faults'[f].reports > faults[f].reports
       \/ faults'[f].reporter /\ ~faults[f].reporter
       => faults[f].status \in {"open", "assigned"} /\ faults'[f].status = faults[f].status

HeardStep ==
  \A f \in DOMAIN faults' :
       /\ faults'[f].priority = "emergency" => faults'[f].alarmed
       /\ f \in DOMAIN faults /\ faults'[f].reports > faults[f].reports
            => Rank(faults'[f].priority) <= Rank(faults[f].priority)

StatedStep ==
  \A f \in DOMAIN faults :
       faults[f].stated /\ faults'[f].billable # faults[f].billable =>
         faults'[f].status = faults[f].status

DefectStep ==
  \A f \in DOMAIN faults' \ DOMAIN faults :
       faults'[f].defect # None => inspections[faults'[f].defect].fault = 0

FollowStep ==
  \A r \in Request :
       Alone(r) /\ SyncElevator(r) =>
         \E i \in DOMAIN inspections' :
           /\ \A j \in DOMAIN inspections' :
                \/ inspections'[i].on > inspections'[j].on
                \/ inspections'[i].on = inspections'[j].on /\ i >= j
           /\ lift'.label = inspections'[i].label
           /\ lift'.label = "red" => lift'.status # "active"

SealStep ==
  lift.status = "sealed" /\ lift'.status # "sealed" =>
       \E r \in Request :
         PatchLift(r) \/ (call'[r] # call[r] /\ "lift" \in DOMAIN call[r] /\ call[r].lift # lift)

(* What the steps that touch no fault promise of them.                     *)
LEMMA FaultsAlone ==
  ASSUME LiftServiceInv, UNCHANGED faults
  PROVE  ReachStep /\ HeardStep /\ StatedStep /\ DefectStep
<1>1. \A f \in DOMAIN faults : faults[f].reports \in Nat
  BY Sizes DEF LiftServiceInv, Fault
<1> QED
  BY <1>1 DEF ReachStep, HeardStep, StatedStep, DefectStep, LiftServiceInv, Told

-----------------------------------------------------------------------------
(* A request fetches, locks or saves                                       *)

LEMMA BeginKeeps ==
  ASSUME LiftServiceInv, NEW r \in Request, NEW got \in Call, Begin(r, got),
         got.step \in {"lift", "inspection", "defect"}, Held(r)'
  PROVE  LiftServiceInv'
<1>1. Types
  BY DEF LiftServiceInv
<1>2. /\ call' = [call EXCEPT ![r] = got] /\ UNCHANGED <<now, lift, inspections, faults>>
      /\ call'[r] = got
  BY <1>1 DEF Begin, Types
<1>3. calls' \in 0 .. MaxCalls
  BY <1>1, LiftServiceAssumption DEF Begin, Types
<1>4. \A q \in Request : Apart(q, r)'
  BY <1>2 DEF Apart
<1> QED
  BY <1>2, <1>3, <1>4, CallKeeps

LEMMA FetchLiftKeeps ==
  ASSUME LiftServiceInv, NEW r \in Request, FetchLift(r)
  PROVE  LiftServiceInv'
<1> DEFINE got == [step |-> "lift", lift |-> lift, alone |-> TRUE]
<1>1. Types
  BY DEF LiftServiceInv
<1>2. got \in Call
  BY <1>1 DEF Call, OfLift, Types
<1>3. Begin(r, got) /\ call'[r] = got /\ UNCHANGED <<lift, inspections, faults>>
  BY <1>1 DEF FetchLift, Begin, Types
<1>4. Held(r)'
  BY <1>3 DEF Held, Alone
<1> QED
  BY <1>2, <1>3, <1>4, BeginKeeps

LEMMA FetchInspectionKeeps ==
  ASSUME LiftServiceInv, NEW r \in Request, NEW i \in DOMAIN inspections, FetchInspection(r, i)
  PROVE  LiftServiceInv'
<1> DEFINE got == [step |-> "inspection", id |-> i, row |-> inspections[i], lift |-> lift,
                   alone |-> TRUE]
<1>1. Types
  BY DEF LiftServiceInv
<1>2. got \in Call
  BY <1>1, Sizes DEF Call, OfInspection, Types
<1>3. Begin(r, got) /\ call'[r] = got /\ UNCHANGED <<lift, inspections, faults>>
  BY <1>1 DEF FetchInspection, Begin, Types
<1>4. Held(r)'
  BY <1>3 DEF Held, Alone
<1> QED
  BY <1>2, <1>3, <1>4, BeginKeeps

LEMMA FetchDefectKeeps ==
  ASSUME LiftServiceInv, NEW r \in Request, NEW i \in DOMAIN inspections, FetchDefect(r, i)
  PROVE  LiftServiceInv'
<1> DEFINE got == [step |-> "defect", id |-> i, fault |-> inspections[i].fault]
<1>1. Types
  BY DEF LiftServiceInv
<1>2. got \in Call
  BY <1>1, Sizes DEF Call, OfDefect, Inspection
<1>3. Begin(r, got) /\ call'[r] = got /\ UNCHANGED <<lift, inspections, faults>>
  BY <1>1 DEF FetchDefect, Begin, Types
<1>4. Names(inspections[i].fault, i)
  BY DEF LiftServiceInv, Linked
<1>5. Held(r)'
  BY <1>3, <1>4 DEF Held, Alone, Names
<1> QED
  BY <1>2, <1>3, <1>5, BeginKeeps

LEMMA GiveUpKeeps ==
  ASSUME LiftServiceInv, NEW r \in Request, GiveUp(r)
  PROVE  LiftServiceInv'
<1>1. Types
  BY DEF LiftServiceInv
<1>2. call' = [call EXCEPT ![r] = NoCall] /\ call'[r] = NoCall /\ NoCall \in Call
  BY <1>1 DEF GiveUp, Types, Call
<1>3. Held(r)'
  BY <1>2, NothingHeld
<1>4. \A q \in Request : Apart(q, r)'
  BY <1>2, LiftServiceAssumption DEF Apart, NoCall, Steps
<1>5. calls' \in 0 .. MaxCalls /\ UNCHANGED <<now, lift, inspections, faults>>
  BY <1>1 DEF GiveUp, Types
<1> QED
  BY <1>2, <1>3, <1>4, <1>5, CallKeeps

(* report_public holds the lift, and the newest fault it may add to: if    *)
(* there is none, none that waits is as young as the window.               *)
LEMMA LockForReportKeeps ==
  ASSUME LiftServiceInv, NEW r \in Request, LockForReport(r)
  PROVE  LiftServiceInv'
<1> DEFINE found == {f \in DOMAIN faults : Mergeable(f)}
           newest == IF found = {} THEN 0 ELSE CHOOSE f \in found : \A g \in found : f >= g
           got == [step |-> "reporting", lift |-> call[r].lift, fault |-> newest]
<1>1. Types
  BY DEF LiftServiceInv
<1>2. /\ call[r].step = "lift" /\ ~LiftLocked(r) /\ (newest = 0 \/ ~FaultLocked(newest))
      /\ call' = [call EXCEPT ![r] = got]
      /\ UNCHANGED <<now, calls, lift, inspections, faults>>
  BY DEF LockForReport
<1>3. found \subseteq 1 .. Len(faults) /\ Len(faults) \in Nat
  BY <1>1, Sizes
<1>4. found # {} => newest \in found
  <2>1. CASE found # {}
    <3>1. found \in SUBSET Nat /\ \A f \in found : f <= Len(faults)
      BY <1>3
    <3> HIDE DEF found
    <3>2. \E f \in found : \A g \in found : g <= f
      BY <1>3, <2>1, <3>1, GreatestOf
    <3>3. \E f \in found : \A g \in found : f >= g
      BY <3>1, <3>2
    <3> QED
      BY <3>3
  <2> QED
    BY <2>1
<1>5. /\ newest \in Nat
      /\ newest # 0 => newest \in found
      /\ newest = 0 => found = {}
  <2>1. found = {} => newest = 0
    OBVIOUS
  <2>2. 0 \notin found /\ found \subseteq Nat
    <3> HIDE DEF found
    <3> QED
      BY <1>3
  <2> HIDE DEF found, newest
  <2>3. CASE found = {}
    BY <2>1, <2>3
  <2>4. CASE found # {}
    <3>1. newest \in found
      BY <1>4, <2>4
    <3>2. newest \in Nat /\ newest # 0
      BY <2>2, <3>1
    <3> QED
      BY <2>4, <3>1, <3>2
  <2> QED
    BY <2>3, <2>4
<1> HIDE DEF newest
<1>6. got \in Call /\ call'[r] = got
  <2>1. call[r] \in OfLift
    BY <1>1, <1>2, CallKinds
  <2>2. call[r].lift \in LiftRow
    BY <2>1 DEF OfLift
  <2> QED
    BY <1>1, <1>2, <1>5, <2>2 DEF Call, OfFault, Types
<1>7. newest # 0 => newest \in DOMAIN faults /\ Waiting(newest)
  BY <1>5 DEF Mergeable, Waiting
<1>8. newest = 0 => \A f \in DOMAIN faults :
                      Waiting(f) => faults[f].reported < now - PUBLIC_MERGE_WINDOW
  <2>1. ASSUME newest = 0, NEW f \in DOMAIN faults, Waiting(f)
        PROVE  faults[f].reported < now - PUBLIC_MERGE_WINDOW
    <3>1. ~Mergeable(f)
      BY <1>5, <2>1
    <3>2. faults[f].reported \in Nat
      <4>1. faults[f] \in Fault
        BY <1>1, <2>1 DEF Types
      <4> QED
        BY <4>1 DEF Fault
    <3>3. now \in Nat /\ PUBLIC_MERGE_WINDOW \in Nat
      BY <1>1, LiftServiceAssumption DEF Types
    <3> QED
      BY <2>1, <3>1, <3>2, <3>3 DEF Mergeable, Waiting
  <2> QED
    BY <2>1
<1>9. Held(r)'
  BY <1>2, <1>6, <1>7, <1>8 DEF Held, Alone, Waiting
<1>10. ASSUME NEW q \in Request, q # r
       PROVE  Apart(q, r)'
  <2>1. call'[q] = call[q]
    BY <1>1, <1>2, <1>10 DEF Types
  <2>2. call[q].step # "reporting"
    BY <1>2, <1>10 DEF LiftLocked
  <2>3. call[q].step = "resolving" => call[q].fault # newest
    <3>1. call[q].step = "resolving" => call[q].fault \in DOMAIN faults
      BY DEF LiftServiceInv, Held
    <3> QED
      BY <1>1, <1>2, <3>1, Sizes DEF FaultLocked
  <2> QED
    BY <1>6, <2>1, <2>2, <2>3 DEF Apart
<1>11. calls' \in 0 .. MaxCalls
  BY <1>1, <1>2 DEF Types
<1> HIDE DEF got
<1> QED
  BY <1>2, <1>6, <1>9, <1>10, <1>11, CallKeeps

LEMMA LockToResolveKeeps ==
  ASSUME LiftServiceInv, NEW r \in Request, NEW f \in DOMAIN faults, LockToResolve(r, f)
  PROVE  LiftServiceInv'
<1> DEFINE got == [step |-> "resolving", fault |-> f, lift |-> lift]
<1>1. Types
  BY DEF LiftServiceInv
<1>2. /\ ~FaultLocked(f) /\ call' = [call EXCEPT ![r] = got] /\ calls' = calls + 1
      /\ calls < MaxCalls /\ UNCHANGED <<now, lift, inspections, faults>>
  BY DEF LockToResolve
<1>3. got \in Call /\ call'[r] = got
  BY <1>1, <1>2, Sizes DEF Call, OfFault, Types
<1>4. Held(r)'
  BY <1>2, <1>3 DEF Held, Alone
<1>5. ASSUME NEW q \in Request, q # r
      PROVE  Apart(q, r)'
  <2>1. call'[q] = call[q]
    BY <1>1, <1>2, <1>5 DEF Types
  <2> QED
    BY <1>2, <1>3, <2>1 DEF Apart, FaultLocked
<1>6. calls' \in 0 .. MaxCalls
  BY <1>1, <1>2, LiftServiceAssumption DEF Types
<1> QED
  BY <1>2, <1>3, <1>4, <1>5, <1>6, CallKeeps

LEMMA LockDefectKeeps ==
  ASSUME LiftServiceInv, NEW r \in Request, LockDefect(r)
  PROVE  LiftServiceInv'
<1> DEFINE i == call[r].id
           got == [step |-> "opening", id |-> i, fault |-> inspections[i].fault]
<1>1. Types
  BY DEF LiftServiceInv
<1>2. /\ call[r].step = "defect" /\ ~DefectLocked(i) /\ call' = [call EXCEPT ![r] = got]
      /\ UNCHANGED <<now, calls, lift, inspections, faults>>
  BY DEF LockDefect
<1>3. i \in DOMAIN inspections
  BY <1>2 DEF LiftServiceInv, Held
<1>4. got \in Call /\ call'[r] = got
  BY <1>1, <1>2, <1>3, Sizes DEF Call, OfDefect, Inspection, Types
<1>5. Names(inspections[i].fault, i)
  BY <1>3 DEF LiftServiceInv, Linked
<1>6. Held(r)'
  BY <1>2, <1>3, <1>4, <1>5 DEF Held, Alone, Names
<1>7. ASSUME NEW q \in Request, q # r
      PROVE  Apart(q, r)'
  <2>1. call'[q] = call[q]
    BY <1>1, <1>2, <1>7 DEF Types
  <2> QED
    BY <1>2, <1>4, <2>1 DEF Apart, DefectLocked
<1>8. calls' \in 0 .. MaxCalls
  BY <1>1, <1>2 DEF Types
<1> QED
  BY <1>2, <1>4, <1>6, <1>7, <1>8, CallKeeps

(* record() and edit(): the newest of the rows as they will be.            *)
LEMMA SavedKeeps ==
  ASSUME LiftServiceInv, NEW r \in Request, call[r].step \in {"lift", "inspection"},
         NEW i \in 1 .. Len(inspections) + 1, i <= MaxInspections, ~InspectionLocked(i),
         NEW row \in Inspection, i = Len(inspections) + 1 => row.fault = 0,
         Saved(r, i, row)
  PROVE  LiftServiceInv'
<1> DEFINE n == Len(inspections)
           rows == [j \in DOMAIN inspections \cup {i} |-> IF j = i THEN row ELSE inspections[j]]
           got == [step |-> "syncing", id |-> i, row |-> row, lift |-> call[r].lift,
                   alone |-> call[r].alone, latest |-> Latest(rows)]
<1>1. Types
  BY DEF LiftServiceInv
<1>2. n \in Nat /\ DOMAIN inspections = 1 .. n /\ \A j \in 1 .. n : inspections[j] \in Inspection
  BY <1>1, Sizes
<1>3. call' = [call EXCEPT ![r] = got] /\ UNCHANGED <<now, calls, lift, inspections, faults>>
  BY DEF Saved
<1>4. \E k \in DOMAIN rows : Newest(k, rows) /\ Latest(rows) = rows[k] /\ rows[k] \in Inspection
  <2>1. PICK m \in Nat : m > 0 /\ DOMAIN rows = 1 .. m
    BY <1>2
  <2>2. PICK top \in Nat : \A j \in 1 .. n : inspections[j].on <= top
    BY <1>2 DEF LiftServiceInv, Dated
  <2>3. Dates \subseteq Nat
    BY LiftServiceAssumption
  <2>4. PICK high \in Nat : top <= high /\ row.on <= high
    <3>1. row.on \in Nat
      BY <2>3 DEF Inspection
    <3>2. top + row.on \in Nat /\ top <= top + row.on /\ row.on <= top + row.on
      BY <2>2, <3>1
    <3> QED
      BY <3>2
  <2>5. ASSUME NEW j \in 1 .. m
        PROVE  rows[j] \in Inspection /\ rows[j].on \in Nat /\ rows[j].on <= high
    <3>1. rows[j] = row \/ (j \in 1 .. n /\ rows[j] = inspections[j])
      BY <1>2, <2>1
    <3>2. rows[j] \in Inspection
      BY <1>2, <3>1
    <3>3. rows[j].on \in Nat
      BY <2>3, <3>2 DEF Inspection
    <3> QED
      BY <2>2, <2>4, <3>1, <3>2, <3>3
  <2> HIDE DEF rows
  <2>6. \E k \in 1 .. m : Newest(k, rows) /\ Latest(rows) = rows[k]
    BY <2>1, <2>5, LatestIsNewest
  <2> QED
    BY <2>1, <2>5, <2>6
<1>5. call[r].lift \in LiftRow /\ call[r].alone \in BOOLEAN
  BY <1>1, CallKinds DEF OfLift, OfInspection
<1>6. got \in Call /\ call'[r] = got
  <2>1. Latest(rows) \in Inspection
    BY <1>4
  <2> HIDE DEF rows
  <2> QED
    BY <1>1, <1>3, <1>5, <2>1 DEF Call, Syncing, Types
<1>7. Held(r)'
  <2>1. Left(r)' = rows
    BY <1>3, <1>6 DEF Left
  <2>2. \E k \in DOMAIN Left(r)' : Newest(k, Left(r)') /\ call'[r].latest = Left(r)'[k]
    <3>1. call'[r].latest = Latest(rows)
      BY <1>6
    <3> HIDE DEF rows, got
    <3> QED
      BY <1>4, <2>1, <3>1
  <2>3. Alone(r)' => call'[r].lift = lift'
    <3>1. Alone(r)' => Alone(r)
      BY <1>1, <1>6, CallKinds DEF Alone
    <3>2. Alone(r) => call[r].lift = lift
      BY DEF LiftServiceInv, Held
    <3> QED
      BY <1>3, <1>6, <3>1, <3>2
  <2>4. call'[r].step = "syncing" /\ call'[r].id = i /\ call'[r].row = row
    BY <1>6
  <2> QED
    BY <1>3, <2>2, <2>3, <2>4 DEF Held
<1>8. ASSUME NEW q \in Request, q # r
      PROVE  Apart(q, r)'
  <2>1. call'[q] = call[q]
    BY <1>1, <1>3, <1>8 DEF Types
  <2>2. call[q].step = "syncing" => call[q].id # i
    BY DEF InspectionLocked
  <2>3. call'[r].step = "syncing" /\ call'[r].id = i
    BY <1>6
  <2> QED
    BY <2>1, <2>2, <2>3 DEF Apart
<1>9. calls' \in 0 .. MaxCalls
  BY <1>1, <1>3 DEF Types
<1> HIDE DEF got
<1> QED
  BY <1>3, <1>6, <1>7, <1>8, <1>9, CallKeeps

LEMMA RecordInspectionKeeps ==
  ASSUME LiftServiceInv, NEW r \in Request, RecordInspection(r)
  PROVE  LiftServiceInv'
<1> DEFINE i == Len(inspections) + 1
<1>1. PICK form \in InspectionForm :
        Saved(r, i, [on |-> form.on, label |-> form.label, fault |-> 0])
  BY DEF RecordInspection
<1> DEFINE row == [on |-> form.on, label |-> form.label, fault |-> 0]
<1>2. row \in Inspection /\ row.fault = 0
  BY DEF Inspection, InspectionForm
<1>3. call[r].step = "lift" /\ i <= MaxInspections /\ ~InspectionLocked(i)
  BY DEF RecordInspection
<1>4. i \in 1 .. Len(inspections) + 1
  BY Sizes DEF LiftServiceInv
<1> HIDE DEF row, i
<1> QED
  BY <1>1, <1>2, <1>3, <1>4, SavedKeeps DEF row

LEMMA SaveInspectionKeeps ==
  ASSUME LiftServiceInv, NEW r \in Request, SaveInspection(r)
  PROVE  LiftServiceInv'
<1> DEFINE i == call[r].id
<1>1. call[r].step = "inspection" /\ ~InspectionLocked(i)
  BY DEF SaveInspection
<1>2. PICK form \in InspectionForm :
        Saved(r, i, [call[r].row EXCEPT !.on = form.on, !.label = form.label])
  BY DEF SaveInspection
<1> DEFINE row == [call[r].row EXCEPT !.on = form.on, !.label = form.label]
<1>3. call[r].row \in Inspection
  BY <1>1, CallKinds DEF LiftServiceInv, OfInspection
<1>4. row \in Inspection
  BY <1>3 DEF Inspection, InspectionForm
<1>5. i \in DOMAIN inspections
  BY <1>1 DEF LiftServiceInv, Held
<1>6. i \in 1 .. Len(inspections) + 1 /\ i <= MaxInspections /\ i # Len(inspections) + 1
  <2>1. Len(inspections) \in Nat /\ DOMAIN inspections = 1 .. Len(inspections)
    BY Sizes DEF LiftServiceInv
  <2>2. Len(inspections) <= MaxInspections /\ MaxInspections \in Nat
    BY LiftServiceAssumption DEF LiftServiceInv, Types
  <2> QED
    BY <1>5, <2>1, <2>2
<1> HIDE DEF row, i
<1> QED
  BY <1>1, <1>2, <1>4, <1>6, SavedKeeps DEF row

-----------------------------------------------------------------------------
(* A fault moves                                                           *)

(* Faults keep what they are: their channel, defect and day; and none that *)
(* somebody has gone to waits again.                                       *)
SameFault(old, new, time) ==
  /\ new \in Fault
  /\ new.channel = old.channel /\ new.defect = old.defect /\ new.reported = old.reported
  /\ new.finished <= time
  /\ new.priority = "emergency" => new.alarmed
  /\ new.status \in {"open", "assigned"} => old.status \in {"open", "assigned"}

Moved ==
  /\ faults' \in Seq(Fault) /\ Len(faults') = Len(faults)
  /\ \A f \in DOMAIN faults : SameFault(faults[f], faults'[f], now)

LEMMA MovedTables ==
  ASSUME LiftServiceInv, Moved, UNCHANGED <<now, inspections>>
  PROVE  /\ DOMAIN faults' = DOMAIN faults
         /\ Linked' /\ Told' /\ OnePublicFaultPerWindow' /\ Dated'
<1>1. DOMAIN faults' = DOMAIN faults
  <2>1. DOMAIN faults' = 1 .. Len(faults') /\ Len(faults') = Len(faults)
    BY LenProperties DEF Moved
  <2> QED
    BY <2>1, Sizes DEF LiftServiceInv
<1>2. \A f \in DOMAIN faults : SameFault(faults[f], faults'[f], now)
  BY DEF Moved
<1>3. Linked'
  <2>1. ASSUME NEW i \in DOMAIN inspections
        PROVE  Names(inspections[i].fault, i)'
    <3>1. Names(inspections[i].fault, i)
      BY DEF LiftServiceInv, Linked
    <3> QED
      BY <1>1, <1>2, <3>1 DEF Names, SameFault
  <2> QED
    BY <2>1 DEF Linked
<1>4. Told'
  <2>1. Told
    BY DEF LiftServiceInv
  <2> QED
    BY <1>1, <1>2, <2>1 DEF Told, SameFault
<1>5. OnePublicFaultPerWindow'
  <2>1. OnePublicFaultPerWindow
    BY DEF LiftServiceInv
  <2>2. \A f \in DOMAIN faults :
          /\ faults'[f].reported = faults[f].reported /\ faults'[f].channel = faults[f].channel
          /\ faults'[f].status \in {"open", "assigned"} => faults[f].status \in {"open", "assigned"}
    BY <1>2 DEF SameFault
  <2> QED
    BY <1>1, <2>1, <2>2 DEF OnePublicFaultPerWindow
<1>6. Dated'
  BY DEF LiftServiceInv, Dated
<1> QED
  BY <1>1, <1>3, <1>4, <1>5, <1>6

LEMMA MovedUntouched ==
  ASSUME LiftServiceInv, Moved, now' = now, NEW q \in Request,
         Len(inspections') = Len(inspections),
         call[q].step = "opening" => inspections'[call[q].id].fault = inspections[call[q].id].fault,
         call[q].step = "reporting" /\ call[q].fault # 0 =>
           faults'[call[q].fault].status \in {"open", "assigned"}
  PROVE  Untouched(q)
<1>1. Types /\ Held(q)
  BY DEF LiftServiceInv
<1>2. DOMAIN faults' = DOMAIN faults
  <2>1. DOMAIN faults' = 1 .. Len(faults') /\ Len(faults') = Len(faults)
    BY LenProperties DEF Moved
  <2> QED
    BY <1>1, <2>1, Sizes
<1>3. ASSUME NEW f \in DOMAIN faults
      PROVE  /\ faults'[f].defect = faults[f].defect /\ faults'[f].reported = faults[f].reported
             /\ Waiting(f)' => Waiting(f)
             /\ call[q].step = "reporting" /\ call[q].fault = f => Waiting(f)'
  <2>1. SameFault(faults[f], faults'[f], now)
    BY DEF Moved
  <2>2. f # 0
    BY <1>1, Sizes
  <2>3. call[q].step = "reporting" /\ call[q].fault = f => Waiting(f)
    BY <1>1, <2>2 DEF Held
  <2> QED
    BY <2>1, <2>2, <2>3 DEF SameFault, Waiting
<1>4. now \in Nat
  BY <1>1 DEF Types
<1> QED
  BY <1>2, <1>3, <1>4 DEF Untouched

(* The office, a technician, or the clock moves a fault nobody holds.      *)
LEMMA MoveKeeps ==
  ASSUME LiftServiceInv, Moved, UNCHANGED <<now, lift, inspections, call>>, calls' \in 0 .. MaxCalls,
         \A f \in DOMAIN faults :
           /\ faults'[f].reports = faults[f].reports
           /\ faults'[f].reporter => faults[f].reporter
           /\ faults[f].stated /\ faults'[f].billable # faults[f].billable =>
                faults'[f].status = faults[f].status
           /\ faults'[f] = faults[f] \/ ~FaultLocked(f)
  PROVE  LiftServiceInv' /\ ReachStep /\ HeardStep /\ StatedStep /\ DefectStep
<1>1. Types
  BY DEF LiftServiceInv
<1>2. DOMAIN faults' = DOMAIN faults /\ Linked' /\ Told' /\ OnePublicFaultPerWindow' /\ Dated'
  BY MovedTables
<1>3. Types'
  BY <1>1 DEF Types, Moved
<1>4. ASSUME NEW q \in Request
      PROVE  Passed(q) /\ Untouched(q)
  <2>1. Passed(q)
    BY DEF Passed
  <2>2. ASSUME call[q].step = "reporting", call[q].fault # 0
        PROVE  faults'[call[q].fault].status \in {"open", "assigned"}
    <3>1. call[q].fault \in DOMAIN faults /\ Waiting(call[q].fault)
      BY <2>2 DEF LiftServiceInv, Held
    <3>2. FaultLocked(call[q].fault)
      BY <2>2 DEF FaultLocked
    <3>3. faults'[call[q].fault] = faults[call[q].fault]
      BY <3>1, <3>2
    <3> QED
      BY <3>1, <3>3 DEF Waiting
  <2>3. Untouched(q)
    BY <2>2, MovedUntouched
  <2> QED
    BY <2>1, <2>3
<1>5. LiftServiceInv'
  BY <1>2, <1>3, <1>4, StepKeeps
<1>6. \A f \in DOMAIN faults : faults[f].reports \in Nat
  BY <1>1, Sizes DEF Fault
<1>7. HeardStep
  BY <1>2, <1>6 DEF HeardStep, Moved, SameFault
<1>8. ReachStep /\ StatedStep /\ DefectStep
  BY <1>2, <1>6 DEF ReachStep, StatedStep, DefectStep
<1> QED
  BY <1>5, <1>7, <1>8

LEMMA OneMoveKeeps ==
  ASSUME LiftServiceInv, NEW f \in DOMAIN faults, NEW from, NEW changed,
         Move(f, from, changed), calls' \in 0 .. MaxCalls,
         SameFault(faults[f], changed, now),
         changed.reports = faults[f].reports, changed.reporter = faults[f].reporter,
         faults[f].stated /\ changed.billable # faults[f].billable => changed.status = faults[f].status
  PROVE  LiftServiceInv' /\ ReachStep /\ HeardStep /\ StatedStep /\ DefectStep
<1>1. Types
  BY DEF LiftServiceInv
<1>2. /\ faults' = [faults EXCEPT ![f] = changed] /\ ~FaultLocked(f)
      /\ UNCHANGED <<now, lift, inspections, call>>
  BY DEF Move
<1>3. \A g \in DOMAIN faults : faults'[g] = IF g = f THEN changed ELSE faults[g]
  BY <1>2
<1>4. Moved
  <2>1. changed \in Fault /\ faults \in Seq(Fault)
    BY <1>1 DEF SameFault, Types
  <2>2. faults' \in Seq(Fault) /\ Len(faults') = Len(faults)
    BY <1>2, <2>1, ExceptSeq
  <2>3. ASSUME NEW g \in DOMAIN faults
        PROVE  SameFault(faults[g], faults[g], now)
    <3>1. faults[g] \in Fault /\ Told
      BY <1>1, Sizes DEF LiftServiceInv
    <3> QED
      BY <3>1 DEF SameFault, Told
  <2> QED
    BY <1>3, <2>2, <2>3 DEF Moved
<1>5. \A g \in DOMAIN faults :
        /\ faults'[g].reports = faults[g].reports
        /\ faults'[g].reporter => faults[g].reporter
        /\ faults[g].stated /\ faults'[g].billable # faults[g].billable =>
             faults'[g].status = faults[g].status
        /\ faults'[g] = faults[g] \/ ~FaultLocked(g)
  BY <1>2, <1>3
<1> QED
  BY <1>2, <1>4, <1>5, MoveKeeps

(* The transitions that need no call, and the office's corrections.        *)
LEMMA MovesKeep ==
  ASSUME LiftServiceInv, NEW f \in DOMAIN faults,
         Assign(f) \/ Arrive(f) \/ Close(f) \/ Cancel(f) \/ EditFault(f)
  PROVE  LiftServiceInv' /\ ReachStep /\ HeardStep /\ StatedStep /\ DefectStep /\ lift' = lift
<1>1. Types /\ Told /\ faults[f] \in Fault
  BY Sizes DEF LiftServiceInv
<1>2. /\ faults[f].finished <= now /\ now \in Nat
      /\ faults[f].priority = "emergency" => faults[f].alarmed
  BY <1>1 DEF Told, Types
<1>3. CASE Assign(f)
  <2> DEFINE changed == [faults[f] EXCEPT !.status = "assigned"]
  <2>1. Move(f, {"open", "assigned"}, changed) /\ calls' = calls
    BY <1>3 DEF Assign
  <2>2. faults[f].status \in {"open", "assigned"}
    BY <2>1 DEF Move
  <2>3. /\ SameFault(faults[f], changed, now)
        /\ changed.reports = faults[f].reports /\ changed.reporter = faults[f].reporter
        /\ changed.billable = faults[f].billable
    BY <1>1, <1>2, <2>2 DEF SameFault, Fault
  <2> HIDE DEF changed
  <2> QED
    BY <1>1, <2>1, <2>3, OneMoveKeeps DEF Types, Move
<1>4. CASE Arrive(f)
  <2> DEFINE changed == [faults[f] EXCEPT !.status = "on_site"]
  <2>1. Move(f, {"assigned"}, changed) /\ calls' = calls
    BY <1>4 DEF Arrive
  <2>2. /\ SameFault(faults[f], changed, now)
        /\ changed.reports = faults[f].reports /\ changed.reporter = faults[f].reporter
        /\ changed.billable = faults[f].billable
    BY <1>1, <1>2 DEF SameFault, Fault
  <2> HIDE DEF changed
  <2> QED
    BY <1>1, <2>1, <2>2, OneMoveKeeps DEF Types, Move
<1>5. CASE Close(f)
  <2> DEFINE changed == [faults[f] EXCEPT !.status = "closed", !.finished = now]
  <2>1. Move(f, {"resolved"}, changed) /\ calls' = calls
    BY <1>5 DEF Close
  <2>2. /\ SameFault(faults[f], changed, now)
        /\ changed.reports = faults[f].reports /\ changed.reporter = faults[f].reporter
        /\ changed.billable = faults[f].billable
    <3>1. changed \in Fault
      BY <1>1, <1>2 DEF Fault
    <3>2. /\ changed.channel = faults[f].channel /\ changed.defect = faults[f].defect
          /\ changed.reported = faults[f].reported /\ changed.priority = faults[f].priority
          /\ changed.alarmed = faults[f].alarmed
          /\ changed.reports = faults[f].reports /\ changed.reporter = faults[f].reporter
          /\ changed.billable = faults[f].billable
          /\ changed.finished = now /\ changed.status = "closed"
      BY <1>1 DEF Fault
    <3> QED
      BY <1>2, <3>1, <3>2 DEF SameFault
  <2> HIDE DEF changed
  <2> QED
    BY <1>1, <2>1, <2>2, OneMoveKeeps DEF Types, Move
<1>6. CASE Cancel(f)
  <2> DEFINE changed == [faults[f] EXCEPT !.status = "cancelled", !.finished = now]
  <2>1. Move(f, {"open", "assigned", "on_site"}, changed) /\ calls' = calls
    BY <1>6 DEF Cancel
  <2>2. /\ SameFault(faults[f], changed, now)
        /\ changed.reports = faults[f].reports /\ changed.reporter = faults[f].reporter
        /\ changed.billable = faults[f].billable
    <3>1. changed \in Fault
      BY <1>1, <1>2 DEF Fault
    <3>2. /\ changed.channel = faults[f].channel /\ changed.defect = faults[f].defect
          /\ changed.reported = faults[f].reported /\ changed.priority = faults[f].priority
          /\ changed.alarmed = faults[f].alarmed
          /\ changed.reports = faults[f].reports /\ changed.reporter = faults[f].reporter
          /\ changed.billable = faults[f].billable
          /\ changed.finished = now /\ changed.status = "cancelled"
      BY <1>1 DEF Fault
    <3> QED
      BY <1>2, <3>1, <3>2 DEF SameFault
  <2> HIDE DEF changed
  <2> QED
    BY <1>1, <2>1, <2>2, OneMoveKeeps DEF Types, Move
<1>7. CASE EditFault(f)
  <2>1. PICK form \in Correction :
          Move(f, {faults[f].status},
               [faults[f] EXCEPT !.priority = form.priority,
                                 !.alarmed = @ \/ form.priority = "emergency",
                                 !.billable = IF form.billable = "unset" THEN @ ELSE form.billable,
                                 !.stated = @ \/ form.billable # "unset"])
    BY <1>7 DEF EditFault
  <2> DEFINE alarm == faults[f].alarmed \/ form.priority = "emergency"
             bill == IF form.billable = "unset" THEN faults[f].billable ELSE form.billable
             said == faults[f].stated \/ form.billable # "unset"
             changed == [faults[f] EXCEPT !.priority = form.priority, !.alarmed = alarm,
                                          !.billable = bill, !.stated = said]
  <2>2. /\ SameFault(faults[f], changed, now)
        /\ changed.reports = faults[f].reports /\ changed.reporter = faults[f].reporter
        /\ changed.status = faults[f].status
    <3>1. alarm \in BOOLEAN /\ said \in BOOLEAN
      OBVIOUS
    <3>2. form.priority \in Priorities /\ bill \in {"unset", "yes", "no"}
      BY <1>1 DEF Fault, Correction
    <3>3. form.priority = "emergency" => alarm
      OBVIOUS
    <3> HIDE DEF alarm, said, bill
    <3>4. changed \in Fault
      BY <1>1, <3>1, <3>2 DEF Fault
    <3>5. /\ changed.channel = faults[f].channel /\ changed.defect = faults[f].defect
          /\ changed.reported = faults[f].reported /\ changed.finished = faults[f].finished
          /\ changed.reports = faults[f].reports /\ changed.reporter = faults[f].reporter
          /\ changed.status = faults[f].status /\ changed.priority = form.priority
          /\ changed.alarmed = alarm
      BY <1>1 DEF Fault
    <3> QED
      BY <1>2, <3>3, <3>4, <3>5 DEF SameFault
  <2>3. calls' \in 0 .. MaxCalls
    <3>1. calls < MaxCalls /\ calls' = calls + 1
      BY <1>7 DEF EditFault
    <3>2. calls \in 0 .. MaxCalls /\ MaxCalls \in Nat
      BY <1>1, LiftServiceAssumption DEF Types
    <3> QED
      BY <3>1, <3>2
  <2>4. Move(f, {faults[f].status}, changed)
    BY <2>1
  <2> HIDE DEF changed
  <2> QED
    BY <2>2, <2>3, <2>4, OneMoveKeeps DEF Move
<1> QED
  BY <1>3, <1>4, <1>5, <1>6, <1>7

LEMMA ForgetKeeps ==
  ASSUME LiftServiceInv, ForgetPublicReporters
  PROVE  LiftServiceInv' /\ ReachStep /\ HeardStep /\ StatedStep /\ DefectStep /\ lift' = lift
<1> DEFINE forgotten == {f \in DOMAIN faults :
                      /\ faults[f].channel = "public_qr" /\ faults[f].reporter
                      /\ faults[f].status \in {"closed", "cancelled"}
                      /\ faults[f].finished < now - REPORTER_DATA_RETENTION}
           new(f) == IF f \in forgotten THEN [faults[f] EXCEPT !.reporter = FALSE] ELSE faults[f]
<1>1. Types /\ Told
  BY DEF LiftServiceInv
<1>2. /\ faults' = [f \in DOMAIN faults |-> new(f)] /\ \A f \in forgotten : ~FaultLocked(f)
      /\ UNCHANGED <<now, calls, lift, inspections, call>>
  BY DEF ForgetPublicReporters
<1> HIDE DEF forgotten
<1>3. ASSUME NEW f \in DOMAIN faults
      PROVE  /\ faults'[f] = new(f) /\ SameFault(faults[f], new(f), now)
             /\ new(f).reports = faults[f].reports /\ new(f).billable = faults[f].billable
             /\ new(f).reporter => faults[f].reporter
             /\ new(f) = faults[f] \/ ~FaultLocked(f)
  <2>1. faults[f] \in Fault
    BY <1>1, Sizes
  <2>2. /\ faults[f].finished <= now
        /\ faults[f].priority = "emergency" => faults[f].alarmed
    BY <1>1 DEF Told
  <2>3. faults'[f] = new(f)
    BY <1>2
  <2>4. CASE f \in forgotten
    BY <1>2, <2>1, <2>2, <2>3, <2>4 DEF SameFault, Fault
  <2>5. CASE f \notin forgotten
    BY <2>1, <2>2, <2>3, <2>5 DEF SameFault
  <2> QED
    BY <2>4, <2>5
<1>4. Moved
  <2>1. DOMAIN faults = 1 .. Len(faults) /\ Len(faults) \in Nat
    BY <1>1, Sizes
  <2>2. \A f \in DOMAIN faults : new(f) \in Fault
    BY <1>3 DEF SameFault
  <2>3. faults' \in [1 .. Len(faults) -> Fault]
    <3> HIDE DEF new
    <3> QED
      BY <1>2, <2>1, <2>2
  <2>4. faults' \in Seq(Fault)
    BY <2>1, <2>3, SeqDef
  <2>5. Len(faults') = Len(faults)
    BY <2>1, <2>3, <2>4, LenProperties
  <2> HIDE DEF new
  <2> QED
    BY <1>3, <2>4, <2>5 DEF Moved
<1>5. calls' \in 0 .. MaxCalls
  BY <1>1, <1>2 DEF Types
<1> HIDE DEF new
<1> QED
  BY <1>2, <1>3, <1>4, <1>5, MoveKeeps

LEMMA TickKeeps ==
  ASSUME LiftServiceInv, Tick
  PROVE  LiftServiceInv'
<1>1. Types /\ now' = now + 1 /\ now < MaxNow /\ UNCHANGED <<calls, lift, inspections, faults, call>>
  BY DEF LiftServiceInv, Tick
<1>2. now \in Nat /\ now' \in Nat /\ now <= now'
  BY <1>1 DEF Types
<1>3. Types'
  BY <1>1, LiftServiceAssumption DEF Types
<1>4. Told'
  <2>1. \A f \in DOMAIN faults : faults[f].reported \in Nat /\ faults[f].finished \in Nat
    BY <1>1, Sizes DEF Fault
  <2> QED
    BY <1>1, <1>2, <2>1 DEF Told, LiftServiceInv
<1>5. Linked' /\ OnePublicFaultPerWindow' /\ Dated'
  BY <1>1 DEF LiftServiceInv, Linked, Names, OnePublicFaultPerWindow, Dated
<1>6. ASSUME NEW q \in Request
      PROVE  Passed(q) /\ Untouched(q)
  <2>1. Passed(q)
    BY <1>1 DEF Passed
  <2>2. \A f \in DOMAIN faults : (Waiting(f)' <=> Waiting(f)) /\ f # 0
    BY <1>1, Sizes DEF Waiting
  <2>3. call[q].step = "reporting" /\ call[q].fault # 0 => Waiting(call[q].fault)
    BY DEF LiftServiceInv, Held
  <2>4. Untouched(q)
    BY <1>1, <1>2, <2>2, <2>3 DEF Untouched
  <2> QED
    BY <2>1, <2>4
<1> QED
  BY <1>3, <1>4, <1>5, <1>6, StepKeeps

-----------------------------------------------------------------------------
(* A request answers                                                       *)

(* A step that ends r's call and moves faults, if any, keeps the invariant *)
(* when it moves none that another holds.                                  *)
LEMMA AnswerKeeps ==
  ASSUME LiftServiceInv, NEW r \in Request, Answer(r), Moved, lift' \in LiftRow,
         UNCHANGED <<now, calls, inspections>>,
         \A q \in Request \ {r} : call[q].step = "reporting" /\ call[q].fault # 0 =>
           faults'[call[q].fault].status \in {"open", "assigned"}
  PROVE  LiftServiceInv'
<1>1. Types
  BY DEF LiftServiceInv
<1>2. /\ call' \in [Request -> Call] /\ call'[r] = NoCall
      /\ \A q \in Request \ {r} : Passed(q)
  BY <1>1, AnswerPasses
<1>3. DOMAIN faults' = DOMAIN faults /\ Linked' /\ Told' /\ OnePublicFaultPerWindow' /\ Dated'
  BY MovedTables
<1>4. Types'
  BY <1>1, <1>2 DEF Types, Moved
<1>5. ASSUME NEW q \in Request, q # r
      PROVE  Untouched(q)
  BY <1>5, MovedUntouched
<1> QED
  BY <1>2, <1>3, <1>4, <1>5, StepKeeps

LEMMA NothingMoved ==
  ASSUME LiftServiceInv, UNCHANGED faults
  PROVE  Moved
<1>1. Types /\ Told
  BY DEF LiftServiceInv
<1>2. \A f \in DOMAIN faults : faults[f] \in Fault
  BY <1>1, Sizes
<1> QED
  BY <1>1, <1>2 DEF Moved, SameFault, Told, Types

LEMMA PatchLiftKeeps ==
  ASSUME LiftServiceInv, NEW r \in Request, PatchLift(r)
  PROVE  LiftServiceInv' /\ UNCHANGED faults
<1>1. Types
  BY DEF LiftServiceInv
<1>2. PICK status \in Statuses : lift' = [call[r].lift EXCEPT !.status = status]
  BY DEF PatchLift
<1>3. call[r].step = "lift" /\ Answer(r) /\ UNCHANGED <<now, calls, inspections, faults>>
  BY DEF PatchLift
<1>4. call[r].lift \in LiftRow
  BY <1>1, <1>3, CallKinds DEF OfLift
<1>5. lift' \in LiftRow
  BY <1>2, <1>4 DEF LiftRow
<1>6. ASSUME NEW q \in Request, call[q].step = "reporting", call[q].fault # 0
      PROVE  faults'[call[q].fault].status \in {"open", "assigned"}
  BY <1>3, <1>6 DEF LiftServiceInv, Held, Waiting
<1> QED
  BY <1>3, <1>5, <1>6, AnswerKeeps, NothingMoved

(* What r read with its step is the lift as it was, if it is not sealed.   *)
LEMMA SealedUnseen ==
  ASSUME LiftServiceInv, NEW r \in Request, Answer(r),
         call[r].step \in {"lift", "reporting", "resolving", "syncing"},
         lift.status = "sealed" /\ lift'.status # "sealed" => call[r].lift.status # "sealed"
  PROVE  SealStep
<1>1. Types
  BY DEF LiftServiceInv
<1>2. call'[r] = NoCall
  BY <1>1, AnswerPasses
<1>3. call[r] # NoCall /\ "lift" \in DOMAIN call[r]
  <2>1. call[r].step # None
    BY LiftServiceAssumption DEF Steps
  <2>2. "lift" \in DOMAIN call[r]
    BY <1>1, CallKinds DEF OfLift, OfFault, Syncing
  <2> QED
    BY <2>1, <2>2 DEF NoCall
<1> QED
  BY <1>2, <1>3 DEF SealStep

LEMMA SealKept ==
  ASSUME lift' = lift
  PROVE  SealStep
  BY DEF SealStep

(* _merge, into the fault that report_public holds.                        *)
LEMMA MergeKeeps ==
  ASSUME LiftServiceInv, NEW r \in Request, Merge(r)
  PROVE  LiftServiceInv' /\ ReachStep /\ HeardStep /\ StatedStep /\ DefectStep /\ SealStep
<1> DEFINE f == call[r].fault
<1>1. Types /\ Told
  BY DEF LiftServiceInv
<1>2. PICK form \in PublicReport :
        /\ faults' = [faults EXCEPT ![f] =
                        Merged(@, PublicPriority(form), form.stopped, form.named)]
        /\ lift' = IF form.stopped /\ ~faults[f].stopped THEN Stopped(lift, lift) ELSE lift
  BY DEF Merge
<1>3. call[r].step = "reporting" /\ f # 0 /\ Answer(r) /\ UNCHANGED <<now, calls, inspections>>
  BY DEF Merge
<1>4. f \in DOMAIN faults /\ Waiting(f)
  BY <1>3 DEF LiftServiceInv, Held
<1> DEFINE old == faults[f]
           priority == PublicPriority(form)
           escalated == Rank(priority) < Rank(old.priority)
           level == IF escalated THEN priority ELSE old.priority
           named == old.reporter \/ form.named
           stopped == old.stopped \/ form.stopped
           alarm == old.alarmed \/ (escalated /\ priority = "emergency")
           count == old.reports + 1
           new == [old EXCEPT !.reports = count, !.reporter = named, !.stopped = stopped,
                              !.priority = level, !.alarmed = alarm]
<1>5. old \in Fault
  BY <1>1, <1>4, Sizes
<1>6. faults' = [faults EXCEPT ![f] = new]
  BY <1>2 DEF Merged
<1>7. named \in BOOLEAN /\ stopped \in BOOLEAN /\ alarm \in BOOLEAN /\ count \in Nat
  <2>1. count \in Nat
    BY <1>5 DEF Fault
  <2>2. named \in BOOLEAN /\ stopped \in BOOLEAN /\ alarm \in BOOLEAN
    OBVIOUS
  <2> QED
    BY <2>1, <2>2
<1>8. priority \in Priorities /\ old.priority \in Priorities
  BY <1>5 DEF PublicPriority, Priorities, Fault
<1>9. level \in Priorities /\ Rank(level) <= Rank(old.priority)
  BY <1>8 DEF Rank, Priorities
<1>10. level = "emergency" => alarm
  <2>1. old.priority = "emergency" => old.alarmed
    BY <1>1, <1>4 DEF Told
  <2> QED
    BY <2>1
<1> HIDE DEF named, stopped, alarm, level
<1>11. new \in Fault
  <2> HIDE DEF count
  <2> QED
    BY <1>5, <1>7, <1>9 DEF Fault
<1>12. /\ new.channel = old.channel /\ new.defect = old.defect /\ new.reported = old.reported
       /\ new.finished = old.finished /\ new.status = old.status /\ new.billable = old.billable
       /\ new.priority = level /\ new.alarmed = alarm /\ new.reports = old.reports + 1
  BY <1>5 DEF Fault
<1>13. SameFault(old, new, now)
  BY <1>1, <1>4, <1>10, <1>11, <1>12 DEF SameFault, Told
<1> HIDE DEF new
<1>14. \A g \in DOMAIN faults : faults'[g] = IF g = f THEN new ELSE faults[g]
  BY <1>6
<1>15. Moved
  <2>1. faults \in Seq(Fault)
    BY <1>1 DEF Types
  <2>2. faults' \in Seq(Fault) /\ Len(faults') = Len(faults)
    BY <1>4, <1>6, <1>11, <2>1, ExceptSeq
  <2>3. ASSUME NEW g \in DOMAIN faults
        PROVE  SameFault(faults[g], faults[g], now)
    <3>1. faults[g] \in Fault
      BY <1>1, Sizes
    <3> QED
      BY <1>1, <3>1 DEF SameFault, Told
  <2> QED
    BY <1>13, <1>14, <2>2, <2>3 DEF Moved
<1>16. lift' = lift \/ (lift' \in LiftRow /\ lift.status = "active")
  BY <1>1, <1>2 DEF Stopped, Types, LiftRow, Statuses
<1>17. LiftServiceInv'
  <2>1. \A q \in Request \ {r} : call[q].step # "reporting"
    BY <1>3 DEF LiftServiceInv, Apart
  <2>2. lift' \in LiftRow
    BY <1>1, <1>16 DEF Types
  <2> QED
    BY <1>3, <1>15, <2>1, <2>2, AnswerKeeps
<1>18. DOMAIN faults' = DOMAIN faults
  BY <1>6
<1>19. \A g \in DOMAIN faults : faults[g].reports \in Nat
  BY <1>1, Sizes DEF Fault
<1>20. ReachStep
  BY <1>4, <1>12, <1>14, <1>19 DEF ReachStep, Waiting
<1>21. HeardStep
  <2>1. \A g \in DOMAIN faults : faults'[g].priority = "emergency" => faults'[g].alarmed
    BY <1>15 DEF Moved, SameFault
  <2> QED
    BY <1>9, <1>12, <1>14, <1>18, <1>19, <2>1 DEF HeardStep
<1>22. StatedStep /\ DefectStep
  BY <1>12, <1>14, <1>18 DEF StatedStep, DefectStep
<1>23. SealStep
  BY <1>16 DEF SealStep
<1> QED
  BY <1>17, <1>20, <1>21, <1>22, <1>23

LEMMA ResolveKeeps ==
  ASSUME LiftServiceInv, NEW r \in Request, Resolve(r)
  PROVE  LiftServiceInv' /\ ReachStep /\ HeardStep /\ StatedStep /\ DefectStep /\ SealStep
<1> DEFINE f == call[r].fault
<1>1. Types /\ Told
  BY DEF LiftServiceInv
<1>2. PICK parts, restore_service \in BOOLEAN :
        /\ faults' = [faults EXCEPT ![f] = Resolved(@, parts)]
        /\ lift' = IF restore_service THEN Restored(lift, call[r].lift) ELSE lift
  BY DEF Resolve
<1>3. call[r].step = "resolving" /\ Answer(r) /\ UNCHANGED <<now, calls, inspections>>
  BY DEF Resolve
<1>4. f \in DOMAIN faults
  BY <1>3 DEF LiftServiceInv, Held
<1> DEFINE old == faults[f]
           bill == IF old.stated THEN old.billable ELSE DeriveBillable(old, parts)
           new == [old EXCEPT !.status = "resolved", !.billable = bill]
<1>5. old \in Fault
  BY <1>1, <1>4, Sizes
<1>6. faults' = [faults EXCEPT ![f] = new]
  BY <1>2 DEF Resolved
<1>7. bill \in {"unset", "yes", "no"} /\ (old.stated => bill = old.billable)
  BY <1>5 DEF DeriveBillable, Fault
<1> HIDE DEF bill
<1>8. new \in Fault
  BY <1>5, <1>7 DEF Fault
<1>9. /\ new.channel = old.channel /\ new.defect = old.defect /\ new.reported = old.reported
      /\ new.finished = old.finished /\ new.status = "resolved" /\ new.billable = bill
      /\ new.priority = old.priority /\ new.alarmed = old.alarmed
      /\ new.reports = old.reports /\ new.reporter = old.reporter
  BY <1>5 DEF Fault
<1>10. SameFault(old, new, now)
  BY <1>1, <1>4, <1>8, <1>9 DEF SameFault, Told
<1> HIDE DEF new
<1>11. \A g \in DOMAIN faults : faults'[g] = IF g = f THEN new ELSE faults[g]
  BY <1>6
<1>12. Moved
  <2>1. faults \in Seq(Fault)
    BY <1>1 DEF Types
  <2>2. faults' \in Seq(Fault) /\ Len(faults') = Len(faults)
    BY <1>4, <1>6, <1>8, <2>1, ExceptSeq
  <2>3. ASSUME NEW g \in DOMAIN faults
        PROVE  SameFault(faults[g], faults[g], now)
    <3>1. faults[g] \in Fault
      BY <1>1, Sizes
    <3> QED
      BY <1>1, <3>1 DEF SameFault, Told
  <2> QED
    BY <1>10, <1>11, <2>2, <2>3 DEF Moved
<1>13. lift' = lift \/ (lift' \in LiftRow /\ call[r].lift.status # "sealed")
  BY <1>1, <1>2 DEF Restored, Types, LiftRow, Statuses
<1>14. LiftServiceInv'
  <2>1. ASSUME NEW q \in Request, q # r, call[q].step = "reporting", call[q].fault # 0
        PROVE  faults'[call[q].fault].status \in {"open", "assigned"}
    <3>1. call[q].fault \in DOMAIN faults /\ Waiting(call[q].fault)
      BY <2>1 DEF LiftServiceInv, Held
    <3>2. call[q].fault # f
      BY <1>3, <2>1 DEF LiftServiceInv, Apart
    <3> QED
      BY <1>11, <3>1, <3>2 DEF Waiting
  <2>2. lift' \in LiftRow
    BY <1>1, <1>13 DEF Types
  <2> QED
    BY <1>3, <1>12, <2>1, <2>2, AnswerKeeps
<1>15. DOMAIN faults' = DOMAIN faults
  BY <1>6
<1>16. \A g \in DOMAIN faults : faults[g].reports \in Nat
  BY <1>1, Sizes DEF Fault
<1>17. ReachStep
  BY <1>9, <1>11, <1>16 DEF ReachStep
<1>18. HeardStep
  <2>1. \A g \in DOMAIN faults : faults'[g].priority = "emergency" => faults'[g].alarmed
    BY <1>12 DEF Moved, SameFault
  <2> QED
    BY <1>9, <1>11, <1>15, <1>16, <2>1 DEF HeardStep
<1>19. StatedStep /\ DefectStep
  BY <1>7, <1>9, <1>11, <1>15 DEF StatedStep, DefectStep
<1>20. SealStep
  BY <1>3, <1>13, SealKept, SealedUnseen
<1> QED
  BY <1>14, <1>17, <1>18, <1>19, <1>20

-----------------------------------------------------------------------------
(* A fault is reported                                                     *)

(* What is true of a fault as it is created.                               *)
Fresh(fault) ==
  /\ fault \in Fault /\ fault.reported = now /\ fault.finished = 0
  /\ fault.priority = "emergency" => fault.alarmed

LEMMA NewFaultIsFresh ==
  ASSUME Types, NEW channel \in Channels, NEW priority \in Priorities,
         NEW status \in {"open", "assigned"}, NEW stopped \in BOOLEAN, NEW named \in BOOLEAN,
         NEW defect \in Nat \cup {None}, NEW fault,
         fault = NewFault(channel, priority, status, stopped, named, defect)
  PROVE  /\ Fresh(fault) /\ fault.channel = channel /\ fault.status = status
         /\ fault.stopped = stopped /\ fault.defect = defect
<1> DEFINE alarm == priority = "emergency"
           row == [channel |-> channel, priority |-> priority, status |-> status,
                   stopped |-> stopped, reported |-> now, finished |-> 0,
                   billable |-> "unset", stated |-> FALSE, reporter |-> named, reports |-> 0,
                   defect |-> defect, alarmed |-> alarm]
<1>1. fault = row
  BY DEF NewFault
<1>2. alarm \in BOOLEAN /\ now \in Nat /\ (priority = "emergency" => alarm)
  BY DEF Types
<1> HIDE DEF alarm
<1>3. row \in Fault
  BY <1>2 DEF Fault
<1>4. /\ row.reported = now /\ row.finished = 0 /\ row.alarmed = alarm
      /\ row.priority = priority /\ row.channel = channel /\ row.status = status
      /\ row.stopped = stopped /\ row.defect = defect
  OBVIOUS
<1>5. Fresh(row)
  BY <1>2, <1>3, <1>4 DEF Fresh
<1> HIDE DEF row
<1> QED
  BY <1>1, <1>4, <1>5

LEMMA AppendTables ==
  ASSUME LiftServiceInv, NEW fault, Fresh(fault), faults' = Append(faults, fault),
         Len(faults) < MaxFaults, now' = now,
         fault.channel = "public_qr" =>
           \A f \in DOMAIN faults : Waiting(f) => faults[f].reported < now - PUBLIC_MERGE_WINDOW
  PROVE  /\ faults' \in Seq(Fault) /\ Len(faults') = Len(faults) + 1 /\ Len(faults') <= MaxFaults
         /\ DOMAIN faults \subseteq DOMAIN faults'
         /\ DOMAIN faults' = DOMAIN faults \cup {Len(faults')} /\ Len(faults') \notin DOMAIN faults
         /\ \A f \in DOMAIN faults : faults'[f] = faults[f]
         /\ faults'[Len(faults')] = fault
         /\ Told' /\ OnePublicFaultPerWindow' /\ ReachStep /\ HeardStep /\ StatedStep
<1> DEFINE n == Len(faults)
<1>1. Types /\ Told /\ OnePublicFaultPerWindow
  BY DEF LiftServiceInv
<1>2. n \in Nat /\ DOMAIN faults = 1 .. n /\ \A f \in 1 .. n : faults[f] \in Fault
  BY <1>1, Sizes
<1>3. fault \in Fault /\ faults \in Seq(Fault)
  BY <1>1 DEF Fresh, Types
<1>4. /\ faults' \in Seq(Fault) /\ Len(faults') = n + 1
      /\ \A f \in 1 .. n : faults'[f] = faults[f]
      /\ faults'[n + 1] = fault
  BY <1>3, AppendProperties
<1>5. DOMAIN faults' = 1 .. n + 1
  BY <1>4, LenProperties
<1>6. Len(faults') <= MaxFaults
  BY <1>2, <1>4, LiftServiceAssumption
<1>7. \A f \in DOMAIN faults' : f \in 1 .. n \/ f = n + 1
  BY <1>2, <1>5
<1>8. Told'
  <2>1. ASSUME NEW f \in DOMAIN faults'
        PROVE  /\ faults'[f].reported <= now /\ faults'[f].finished <= now
               /\ faults'[f].priority = "emergency" => faults'[f].alarmed
    <3>1. CASE f \in 1 .. n
      BY <1>1, <1>2, <1>4, <3>1 DEF Told
    <3>2. CASE f = n + 1
      <4>1. now \in Nat
        BY <1>1 DEF Types
      <4> QED
        BY <1>4, <3>2, <4>1 DEF Fresh
    <3> QED
      BY <1>7, <3>1, <3>2
  <2> QED
    BY <2>1 DEF Told
<1>9. OnePublicFaultPerWindow'
  <2>1. SUFFICES ASSUME NEW f \in DOMAIN faults', NEW g \in DOMAIN faults', f < g,
                        \A h \in {f, g} : /\ faults'[h].channel = "public_qr"
                                          /\ faults'[h].status \in {"open", "assigned"}
                 PROVE  faults'[g].reported - faults'[f].reported > PUBLIC_MERGE_WINDOW
    BY DEF OnePublicFaultPerWindow
  <2>2. f \in 1 .. n
    BY <1>2, <1>5, <2>1
  <2>3. CASE g \in 1 .. n
    BY <1>1, <1>2, <1>4, <2>1, <2>2, <2>3 DEF OnePublicFaultPerWindow
  <2>4. CASE g = n + 1
    <3>1. faults'[g].reported = now /\ fault.channel = "public_qr"
      BY <1>4, <2>1, <2>4 DEF Fresh
    <3>2. faults'[f] = faults[f] /\ Waiting(f)
      BY <1>4, <2>1, <2>2 DEF Waiting
    <3>3. faults[f].reported < now - PUBLIC_MERGE_WINDOW /\ faults[f].reported \in Nat
      BY <1>2, <2>2, <3>1, <3>2 DEF Fault
    <3>4. now \in Nat /\ PUBLIC_MERGE_WINDOW \in Nat
      BY <1>1, LiftServiceAssumption DEF Types
    <3> QED
      BY <3>1, <3>2, <3>3, <3>4
  <2> QED
    BY <1>7, <2>3, <2>4
<1>10. \A f \in 1 .. n : faults[f].reports \in Nat
  BY <1>2 DEF Fault
<1>11. ReachStep /\ StatedStep
  BY <1>2, <1>4, <1>10 DEF ReachStep, StatedStep
<1>12. HeardStep
  <2>1. \A f \in DOMAIN faults' : faults'[f].priority = "emergency" => faults'[f].alarmed
    BY <1>8 DEF Told
  <2> QED
    BY <1>2, <1>4, <1>10, <2>1 DEF HeardStep
<1>13. DOMAIN faults' = DOMAIN faults \cup {Len(faults')} /\ Len(faults') \notin DOMAIN faults
  BY <1>2, <1>4, <1>5
<1> QED
  BY <1>2, <1>4, <1>6, <1>8, <1>9, <1>11, <1>12, <1>13

(* Nobody else is about to report when a fault is created.                 *)
LEMMA AppendUntouched ==
  ASSUME LiftServiceInv, now' = now, Len(inspections') = Len(inspections),
         DOMAIN faults \subseteq DOMAIN faults', \A f \in DOMAIN faults : faults'[f] = faults[f],
         NEW q \in Request,
         call[q].step = "opening" => inspections'[call[q].id].fault = inspections[call[q].id].fault,
         (\A f \in DOMAIN faults' \ DOMAIN faults : ~Waiting(f)') \/ call[q].step # "reporting"
  PROVE  Untouched(q)
<1>1. Types /\ Held(q)
  BY DEF LiftServiceInv
<1>2. now \in Nat
  BY <1>1 DEF Types
<1>3. \A f \in DOMAIN faults : (Waiting(f)' <=> Waiting(f)) /\ f # 0
  BY <1>1, Sizes DEF Waiting
<1>4. call[q].step = "reporting" /\ call[q].fault # 0 => Waiting(call[q].fault)
  BY <1>1 DEF Held
<1> QED
  BY <1>2, <1>3, <1>4 DEF Untouched

LEMMA ReportKeeps ==
  ASSUME LiftServiceInv, NEW r \in Request, NEW fault, Report(r, fault), Fresh(fault),
         call[r].step \in {"lift", "reporting"}, fault.defect = None,
         fault.channel = "public_qr" =>
           \A f \in DOMAIN faults : Waiting(f) => faults[f].reported < now - PUBLIC_MERGE_WINDOW
  PROVE  LiftServiceInv' /\ ReachStep /\ HeardStep /\ StatedStep /\ DefectStep /\ SealStep
<1>1. Types /\ Linked
  BY DEF LiftServiceInv
<1>2. /\ Len(faults) < MaxFaults /\ ~LiftLocked(r) /\ faults' = Append(faults, fault)
      /\ lift' = IF fault.stopped THEN Stopped(lift, call[r].lift) ELSE lift
      /\ UNCHANGED <<now, calls, inspections>> /\ Answer(r)
  BY DEF Report
<1>3. /\ faults' \in Seq(Fault) /\ Len(faults') = Len(faults) + 1 /\ Len(faults') <= MaxFaults
      /\ DOMAIN faults \subseteq DOMAIN faults'
      /\ DOMAIN faults' = DOMAIN faults \cup {Len(faults')}
      /\ \A f \in DOMAIN faults : faults'[f] = faults[f]
      /\ faults'[Len(faults')] = fault
      /\ Told' /\ OnePublicFaultPerWindow' /\ ReachStep /\ HeardStep /\ StatedStep
  BY <1>2, AppendTables
<1>4. lift' = lift \/ (lift' \in LiftRow /\ call[r].lift.status = "active")
  BY <1>1, <1>2 DEF Stopped, Types, LiftRow, Statuses
<1>5. /\ call' \in [Request -> Call] /\ call'[r] = NoCall
      /\ \A q \in Request \ {r} : Passed(q)
  BY <1>1, <1>2, AnswerPasses
<1>6. Types'
  BY <1>1, <1>2, <1>3, <1>4, <1>5 DEF Types
<1>7. Linked' /\ Dated'
  BY <1>1, <1>2, <1>3 DEF Linked, Names, Dated, LiftServiceInv
<1>8. ASSUME NEW q \in Request, q # r
      PROVE  Untouched(q)
  <2>1. call[q].step # "reporting"
    BY <1>2, <1>8 DEF LiftLocked
  <2> QED
    BY <1>2, <1>3, <2>1, AppendUntouched
<1>9. LiftServiceInv'
  BY <1>3, <1>5, <1>6, <1>7, <1>8, StepKeeps
<1>10. DefectStep
  BY <1>3 DEF DefectStep
<1>11. SealStep
  BY <1>2, <1>4, SealKept, SealedUnseen
<1> QED
  BY <1>3, <1>9, <1>10, <1>11

LEMMA ReportsKeep ==
  ASSUME LiftServiceInv, NEW r \in Request,
         ReportByStaff(r) \/ ReportByPortal(r) \/ ReportPublic(r)
  PROVE  LiftServiceInv' /\ ReachStep /\ HeardStep /\ StatedStep /\ DefectStep /\ SealStep
<1>1. Types
  BY DEF LiftServiceInv
<1>2. CASE ReportByStaff(r)
  <2>1. PICK form \in StaffReport :
          Report(r, NewFault("staff", IF form.trapped THEN "emergency" ELSE form.priority,
                             IF form.sent THEN "assigned" ELSE "open", form.stopped, FALSE, None))
    BY <1>2 DEF ReportByStaff
  <2> DEFINE channel == "staff"
             priority == IF form.trapped THEN "emergency" ELSE form.priority
             status == IF form.sent THEN "assigned" ELSE "open"
             named == FALSE
             nothing == None
             fault == NewFault(channel, priority, status, form.stopped, named, nothing)
  <2>2. /\ channel \in Channels /\ priority \in Priorities /\ status \in {"open", "assigned"}
        /\ form.stopped \in BOOLEAN /\ named \in BOOLEAN /\ nothing \in Nat \cup {None}
    BY DEF StaffReport, Channels, Priorities, PublicPriority
  <2>3. Report(r, fault) /\ channel = "staff" /\ nothing = None
    BY <2>1
  <2>4. fault = NewFault(channel, priority, status, form.stopped, named, nothing)
    OBVIOUS
  <2> HIDE DEF channel, priority, status, named, nothing, fault
  <2>5. Fresh(fault) /\ fault.channel = channel /\ fault.defect = nothing
    BY <1>1, <2>2, <2>4, NewFaultIsFresh
  <2>6. call[r].step = "lift"
    BY <1>2 DEF ReportByStaff
  <2> QED
    BY <2>3, <2>5, <2>6, ReportKeeps
<1>3. CASE ReportByPortal(r)
  <2>1. PICK form \in PortalReport :
          Report(r, NewFault("customer_portal", PublicPriority(form),
                             "open", form.stopped, FALSE, None))
    BY <1>3 DEF ReportByPortal
  <2> DEFINE channel == "customer_portal"
             priority == PublicPriority(form)
             status == "open"
             named == FALSE
             nothing == None
             fault == NewFault(channel, priority, status, form.stopped, named, nothing)
  <2>2. /\ channel \in Channels /\ priority \in Priorities /\ status \in {"open", "assigned"}
        /\ form.stopped \in BOOLEAN /\ named \in BOOLEAN /\ nothing \in Nat \cup {None}
    BY DEF PortalReport, Channels, Priorities, PublicPriority
  <2>3. Report(r, fault) /\ channel = "customer_portal" /\ nothing = None
    BY <2>1
  <2>4. fault = NewFault(channel, priority, status, form.stopped, named, nothing)
    OBVIOUS
  <2> HIDE DEF channel, priority, status, named, nothing, fault
  <2>5. Fresh(fault) /\ fault.channel = channel /\ fault.defect = nothing
    BY <1>1, <2>2, <2>4, NewFaultIsFresh
  <2>6. call[r].step = "lift"
    BY <1>3 DEF ReportByPortal
  <2> QED
    BY <2>3, <2>5, <2>6, ReportKeeps
<1>4. CASE ReportPublic(r)
  <2>1. PICK form \in PublicReport :
          Report(r, NewFault("public_qr", PublicPriority(form),
                             "open", form.stopped, form.named, None))
    BY <1>4 DEF ReportPublic
  <2> DEFINE channel == "public_qr"
             priority == PublicPriority(form)
             status == "open"
             named == form.named
             nothing == None
             fault == NewFault(channel, priority, status, form.stopped, named, nothing)
  <2>2. /\ channel \in Channels /\ priority \in Priorities /\ status \in {"open", "assigned"}
        /\ form.stopped \in BOOLEAN /\ named \in BOOLEAN /\ nothing \in Nat \cup {None}
    BY DEF PublicReport, Channels, Priorities, PublicPriority
  <2>3. Report(r, fault) /\ channel = "public_qr" /\ nothing = None
    BY <2>1
  <2>4. fault = NewFault(channel, priority, status, form.stopped, named, nothing)
    OBVIOUS
  <2> HIDE DEF channel, priority, status, named, nothing, fault
  <2>5. Fresh(fault) /\ fault.channel = channel /\ fault.defect = nothing
    BY <1>1, <2>2, <2>4, NewFaultIsFresh
  <2>6. call[r].step = "reporting" /\ call[r].fault = 0
    BY <1>4 DEF ReportPublic
  <2>7. \A f \in DOMAIN faults : Waiting(f) => faults[f].reported < now - PUBLIC_MERGE_WINDOW
    BY <2>6 DEF LiftServiceInv, Held
  <2> QED
    BY <2>3, <2>5, <2>6, <2>7, ReportKeeps
<1> QED
  BY <1>2, <1>3, <1>4

(* open_fault, on the defect it locked: its row still names no fault.      *)
LEMMA OpenFaultKeeps ==
  ASSUME LiftServiceInv, NEW r \in Request, OpenFault(r)
  PROVE  /\ LiftServiceInv' /\ ReachStep /\ HeardStep /\ StatedStep /\ DefectStep /\ lift' = lift
<1> DEFINE i == call[r].id
<1>1. Types /\ Linked
  BY DEF LiftServiceInv
<1>2. /\ call[r].step = "opening" /\ UNCHANGED <<now, calls, lift>> /\ Answer(r)
  BY DEF OpenFault
<1>3. i \in DOMAIN inspections /\ inspections[i].fault = call[r].fault
  BY <1>2 DEF LiftServiceInv, Held
<1>4. CASE call[r].fault # 0
  <2>1. UNCHANGED <<inspections, faults>>
    BY <1>4 DEF OpenFault
  <2>2. \A q \in Request : call[q].step = "reporting" /\ call[q].fault # 0 =>
          faults'[call[q].fault].status \in {"open", "assigned"}
    BY <2>1 DEF LiftServiceInv, Held, Waiting
  <2>3. lift' \in LiftRow
    BY <1>1, <1>2 DEF Types
  <2> QED
    BY <1>2, <2>1, <2>2, <2>3, AnswerKeeps, NothingMoved, FaultsAlone
<1>5. CASE call[r].fault = 0
  <2> DEFINE fault == NewFault("staff", IF inspections[i].label = "red" THEN "high" ELSE "normal",
                               "open", FALSE, FALSE, i)
  <2>1. /\ Len(faults) < MaxFaults /\ faults' = Append(faults, fault)
        /\ inspections' = [inspections EXCEPT ![i].fault = Len(faults')]
    BY <1>5 DEF OpenFault
  <2>2. Fresh(fault) /\ fault.channel = "staff" /\ fault.defect = i
    <3> DEFINE channel == "staff"
               priority == IF inspections[i].label = "red" THEN "high" ELSE "normal"
               status == "open"
               no == FALSE
    <3>1. /\ channel \in Channels /\ priority \in Priorities /\ status \in {"open", "assigned"}
          /\ no \in BOOLEAN /\ i \in Nat \cup {None}
      BY <1>1, <1>3, Sizes DEF Channels, Priorities
    <3>2. fault = NewFault(channel, priority, status, no, no, i) /\ channel = "staff"
      OBVIOUS
    <3> HIDE DEF channel, priority, status, no, i, fault
    <3> QED
      BY <1>1, <3>1, <3>2, NewFaultIsFresh
  <2> HIDE DEF fault
  <2>3. /\ faults' \in Seq(Fault) /\ Len(faults') = Len(faults) + 1 /\ Len(faults') <= MaxFaults
        /\ DOMAIN faults \subseteq DOMAIN faults'
        /\ DOMAIN faults' = DOMAIN faults \cup {Len(faults')}
        /\ \A f \in DOMAIN faults : faults'[f] = faults[f]
        /\ faults'[Len(faults')] = fault
        /\ Told' /\ OnePublicFaultPerWindow' /\ ReachStep /\ HeardStep /\ StatedStep
    BY <1>2, <2>1, <2>2, AppendTables
  <2>4. Len(faults') \in Nat /\ Len(faults') # 0
    BY <1>1, <2>3, Sizes
  <2>5. /\ inspections' \in Seq(Inspection) /\ Len(inspections') = Len(inspections)
        /\ DOMAIN inspections' = DOMAIN inspections
        /\ \A j \in DOMAIN inspections :
             inspections'[j].on = inspections[j].on /\ (j # i => inspections'[j] = inspections[j])
        /\ inspections'[i].fault = Len(faults')
    <3>1. inspections \in Seq(Inspection) /\ inspections[i] \in Inspection
      BY <1>1, <1>3, Sizes DEF Types
    <3> DEFINE new == [inspections[i] EXCEPT !.fault = Len(faults')]
    <3>2. /\ new \in Inspection /\ new.on = inspections[i].on /\ new.fault = Len(faults')
      BY <2>4, <3>1 DEF Inspection
    <3>3. inspections' = [inspections EXCEPT ![i] = new]
      BY <2>1
    <3> HIDE DEF new
    <3>4. inspections' \in Seq(Inspection) /\ Len(inspections') = Len(inspections)
      BY <1>3, <3>1, <3>2, <3>3, ExceptSeq
    <3> QED
      BY <1>3, <3>2, <3>3, <3>4
  <2>6. /\ call' \in [Request -> Call] /\ call'[r] = NoCall
        /\ \A q \in Request \ {r} : Passed(q)
    BY <1>1, <1>2, AnswerPasses
  <2>7. Types'
    BY <1>1, <1>2, <2>3, <2>5, <2>6 DEF Types
  <2>8. Linked'
    <3>1. ASSUME NEW j \in DOMAIN inspections
          PROVE  Names(inspections[j].fault, j)'
      <4>1. CASE j = i
        BY <2>2, <2>3, <2>5, <4>1 DEF Names
      <4>2. CASE j # i
        <5>1. Names(inspections[j].fault, j) /\ inspections'[j] = inspections[j]
          BY <1>1, <2>5, <4>2 DEF Linked
        <5> QED
          BY <2>3, <5>1 DEF Names
      <4> QED
        BY <4>1, <4>2
    <3> QED
      BY <2>5, <3>1 DEF Linked
  <2>9. Dated'
    BY <2>5 DEF LiftServiceInv, Dated
  <2>10. ASSUME NEW q \in Request, q # r
         PROVE  Untouched(q)
    <3>1. ASSUME call[q].step = "opening"
          PROVE  inspections'[call[q].id].fault = inspections[call[q].id].fault
      <4>1. call[q].id \in DOMAIN inspections
        BY <3>1 DEF LiftServiceInv, Held
      <4>2. call[q].id # i
        BY <1>2, <2>10, <3>1 DEF LiftServiceInv, Apart
      <4> QED
        BY <2>5, <4>1, <4>2
    <3>2. \A f \in DOMAIN faults' \ DOMAIN faults : ~Waiting(f)'
      BY <2>2, <2>3 DEF Waiting
    <3> QED
      BY <1>2, <2>3, <2>5, <3>1, <3>2, AppendUntouched
  <2>11. LiftServiceInv'
    BY <2>3, <2>6, <2>7, <2>8, <2>9, <2>10, StepKeeps
  <2>12. DefectStep
    BY <1>3, <1>5, <2>2, <2>3 DEF DefectStep
  <2> QED
    BY <1>2, <2>3, <2>11, <2>12
<1> QED
  BY <1>4, <1>5

-----------------------------------------------------------------------------
(* Inspections and defects change                                          *)

(* What a step of r's inspection or defect leaves of the others.           *)
LEMMA InspectionsUntouched ==
  ASSUME LiftServiceInv, UNCHANGED <<now, faults>>, NEW q \in Request,
         \/ Len(inspections') = Len(inspections)
         \/ /\ Len(inspections') = Len(inspections) + 1
            /\ ~(call[q].step = "syncing" /\ call[q].id = Len(inspections) + 1),
         call[q].step = "opening" => inspections'[call[q].id].fault = inspections[call[q].id].fault
  PROVE  Untouched(q)
<1>1. Types /\ Held(q)
  BY DEF LiftServiceInv
<1>2. now \in Nat
  BY <1>1 DEF Types
<1>3. \A f \in DOMAIN faults : (Waiting(f)' <=> Waiting(f)) /\ f # 0
  BY <1>1, Sizes DEF Waiting
<1>4. call[q].step = "reporting" /\ call[q].fault # 0 => Waiting(call[q].fault)
  BY <1>1 DEF Held
<1> QED
  BY <1>2, <1>3, <1>4 DEF Untouched

LEMMA EditNonconformityKeeps ==
  ASSUME LiftServiceInv, NEW r \in Request, EditNonconformity(r)
  PROVE  LiftServiceInv' /\ UNCHANGED <<faults, lift>>
<1> DEFINE i == call[r].id
           new == [inspections[i] EXCEPT !.fault = call[r].fault]
<1>1. Types /\ Linked /\ Told /\ OnePublicFaultPerWindow
  BY DEF LiftServiceInv
<1>2. /\ call[r].step = "defect" /\ ~DefectLocked(i) /\ UNCHANGED <<now, calls, lift, faults>>
      /\ Answer(r)
  BY DEF EditNonconformity
<1>3. i \in DOMAIN inspections /\ Names(call[r].fault, i)
  BY <1>2 DEF LiftServiceInv, Held
<1>4. inspections[i] \in Inspection /\ inspections \in Seq(Inspection)
  BY <1>1, <1>3, Sizes DEF Types
<1>5. call[r].fault \in Nat
  BY <1>1, <1>2, CallKinds DEF OfDefect
<1>6. new \in Inspection /\ new.on = inspections[i].on /\ new.fault = call[r].fault
  BY <1>4, <1>5 DEF Inspection
<1>7. inspections' = [inspections EXCEPT ![i] = new]
  BY DEF EditNonconformity
<1> HIDE DEF new
<1>8. /\ inspections' \in Seq(Inspection) /\ Len(inspections') = Len(inspections)
      /\ DOMAIN inspections' = DOMAIN inspections
      /\ \A j \in DOMAIN inspections : inspections'[j] = IF j = i THEN new ELSE inspections[j]
  <2>1. inspections' \in Seq(Inspection) /\ Len(inspections') = Len(inspections)
    BY <1>3, <1>4, <1>6, <1>7, ExceptSeq
  <2> QED
    BY <1>7, <2>1
<1>9. /\ call' \in [Request -> Call] /\ call'[r] = NoCall
      /\ \A q \in Request \ {r} : Passed(q)
  BY <1>1, <1>2, AnswerPasses
<1>10. Types'
  BY <1>1, <1>2, <1>8, <1>9 DEF Types
<1>11. Linked'
  BY <1>1, <1>2, <1>3, <1>6, <1>8 DEF Linked, Names
<1>12. Told' /\ OnePublicFaultPerWindow'
  BY <1>1, <1>2 DEF Told, OnePublicFaultPerWindow
<1>13. Dated'
  <2>1. PICK top \in Nat : \A j \in DOMAIN inspections : inspections[j].on <= top
    BY DEF LiftServiceInv, Dated
  <2>2. \A j \in DOMAIN inspections' : inspections'[j].on <= top
    BY <1>3, <1>6, <1>8, <2>1
  <2> QED
    BY <2>2 DEF Dated
<1>14. ASSUME NEW q \in Request, q # r
       PROVE  Untouched(q)
  <2>1. ASSUME call[q].step = "opening"
        PROVE  inspections'[call[q].id].fault = inspections[call[q].id].fault
    <3>1. call[q].id \in DOMAIN inspections
      BY <2>1 DEF LiftServiceInv, Held
    <3>2. call[q].id # i
      BY <1>2, <2>1 DEF DefectLocked
    <3> QED
      BY <1>8, <3>1, <3>2
  <2> QED
    BY <1>2, <1>8, <2>1, InspectionsUntouched
<1> QED
  BY <1>2, <1>9, <1>10, <1>11, <1>12, <1>13, <1>14, StepKeeps

(* The inspection as it is saved: the link of its defect is not r's.       *)
LEMMA SyncedRows ==
  ASSUME LiftServiceInv, NEW r \in Request, SyncElevator(r)
  PROVE  /\ call[r].step = "syncing" /\ call[r].id \in 1 .. Len(inspections) + 1
         /\ inspections' \in Seq(Inspection)
         /\ DOMAIN inspections' = DOMAIN inspections \cup {call[r].id}
         /\ Len(inspections') =
              IF call[r].id = Len(inspections) + 1 THEN Len(inspections) + 1 ELSE Len(inspections)
         /\ \A j \in DOMAIN inspections \ {call[r].id} : inspections'[j] = inspections[j]
         /\ inspections'[call[r].id].on = call[r].row.on
         /\ inspections'[call[r].id].label = call[r].row.label
         /\ inspections'[call[r].id].fault =
              IF call[r].id \in DOMAIN inspections THEN inspections[call[r].id].fault ELSE 0
<1> DEFINE i == call[r].id
           n == Len(inspections)
           mine == IF i \in DOMAIN inspections
                   THEN [call[r].row EXCEPT !.fault = inspections[i].fault] ELSE call[r].row
<1>1. Types
  BY DEF LiftServiceInv
<1>2. n \in Nat /\ DOMAIN inspections = 1 .. n /\ \A j \in 1 .. n : inspections[j] \in Inspection
  BY <1>1, Sizes
<1>3. /\ call[r].step = "syncing"
      /\ inspections' = [j \in DOMAIN inspections \cup {i} |-> IF j = i THEN mine ELSE inspections[j]]
  BY DEF SyncElevator
<1>4. i \in 1 .. n + 1 /\ (i = n + 1 => call[r].row.fault = 0)
  BY <1>3 DEF LiftServiceInv, Held
<1>5. call[r].row \in Inspection
  BY <1>1, <1>3, CallKinds DEF Syncing
<1>6. /\ mine \in Inspection /\ mine.on = call[r].row.on /\ mine.label = call[r].row.label
      /\ mine.fault = IF i \in DOMAIN inspections THEN inspections[i].fault ELSE 0
  <2>1. CASE i \in DOMAIN inspections
    BY <1>2, <1>5, <2>1 DEF Inspection
  <2>2. CASE i \notin DOMAIN inspections
    <3>1. i = n + 1
      BY <1>2, <1>4, <2>2
    <3> QED
      BY <1>4, <1>5, <2>2, <3>1
  <2> QED
    BY <2>1, <2>2
<1> HIDE DEF mine
<1>7. DOMAIN inspections' = DOMAIN inspections \cup {i}
      /\ inspections'[i] = mine
      /\ \A j \in DOMAIN inspections \ {i} : inspections'[j] = inspections[j]
  BY <1>3
<1> DEFINE m == IF i = n + 1 THEN n + 1 ELSE n
<1>8. m \in Nat /\ DOMAIN inspections \cup {i} = 1 .. m
  BY <1>2, <1>4
<1>9. inspections' \in [1 .. m -> Inspection]
  <2>1. \A j \in 1 .. m : (IF j = i THEN mine ELSE inspections[j]) \in Inspection
    BY <1>2, <1>4, <1>6
  <2> HIDE DEF m
  <2> QED
    BY <1>3, <1>8, <2>1
<1>10. inspections' \in Seq(Inspection) /\ Len(inspections') = m
  <2> HIDE DEF m
  <2>1. inspections' \in Seq(Inspection)
    BY <1>8, <1>9, SeqDef
  <2> QED
    BY <1>8, <1>9, <2>1, LenProperties
<1> QED
  BY <1>3, <1>4, <1>6, <1>7, <1>10

LEMMA SyncElevatorKeeps ==
  ASSUME LiftServiceInv, NEW r \in Request, SyncElevator(r)
  PROVE  LiftServiceInv' /\ UNCHANGED faults /\ SealStep
<1> DEFINE i == call[r].id
           n == Len(inspections)
<1>1. Types /\ Linked /\ Told /\ OnePublicFaultPerWindow
  BY DEF LiftServiceInv
<1>2. n \in Nat /\ DOMAIN inspections = 1 .. n
  BY <1>1, Sizes
<1>3. /\ call[r].step = "syncing" /\ i \in 1 .. n + 1
      /\ inspections' \in Seq(Inspection)
      /\ DOMAIN inspections' = DOMAIN inspections \cup {i}
      /\ Len(inspections') = IF i = n + 1 THEN n + 1 ELSE n
      /\ \A j \in DOMAIN inspections \ {i} : inspections'[j] = inspections[j]
      /\ inspections'[i].on = call[r].row.on
      /\ inspections'[i].fault = IF i \in DOMAIN inspections THEN inspections[i].fault ELSE 0
  BY SyncedRows
<1>4. /\ UNCHANGED <<now, calls, faults>> /\ Answer(r)
      /\ lift' = Synced(lift, call[r].lift, call[r].latest)
  BY DEF SyncElevator
<1>5. i <= MaxInspections
  BY <1>3 DEF LiftServiceInv, Held
<1>6. /\ call' \in [Request -> Call] /\ call'[r] = NoCall
      /\ \A q \in Request \ {r} : Passed(q)
  BY <1>1, <1>4, AnswerPasses
<1>7. call[r].latest \in Inspection /\ call[r].row \in Inspection
  BY <1>1, <1>3, CallKinds DEF Syncing
<1>8. /\ lift' \in LiftRow
      /\ lift'.status # lift.status => call[r].lift.status # "sealed"
  BY <1>1, <1>4, <1>7 DEF Synced, Types, LiftRow, Statuses, Inspection
<1>9. Types'
  <2>1. Len(inspections') <= MaxInspections
    BY <1>1, <1>3, <1>5 DEF Types
  <2> QED
    BY <1>1, <1>3, <1>4, <1>6, <1>8, <2>1 DEF Types
<1>10. Linked'
  <2>1. ASSUME NEW j \in DOMAIN inspections'
        PROVE  Names(inspections[j].fault, j)'
    <3>1. CASE j \in DOMAIN inspections
      <4>1. Names(inspections[j].fault, j) /\ inspections'[j].fault = inspections[j].fault
        BY <1>1, <1>3, <3>1 DEF Linked
      <4> QED
        BY <1>4, <4>1 DEF Names
    <3>2. CASE j \notin DOMAIN inspections
      <4>1. inspections'[j].fault = 0
        BY <1>3, <3>2
      <4> QED
        BY <4>1 DEF Names
    <3> QED
      BY <3>1, <3>2
  <2> QED
    BY <2>1 DEF Linked
<1>11. Told' /\ OnePublicFaultPerWindow'
  BY <1>1, <1>4 DEF Told, OnePublicFaultPerWindow
<1>12. Dated'
  <2>1. PICK top \in Nat : \A j \in DOMAIN inspections : inspections[j].on <= top
    BY DEF LiftServiceInv, Dated
  <2>2. call[r].row.on \in Nat
    BY <1>7, LiftServiceAssumption DEF Inspection
  <2>3. \A j \in DOMAIN inspections : inspections[j].on \in Nat
    BY <1>1, Sizes, LiftServiceAssumption DEF Inspection
  <2>4. top + call[r].row.on \in Nat
    BY <2>1, <2>2
  <2>5. ASSUME NEW j \in DOMAIN inspections'
        PROVE  inspections'[j].on <= top + call[r].row.on
    <3>1. CASE j = i
      BY <1>3, <2>1, <2>2, <3>1
    <3>2. CASE j # i
      <4>1. j \in DOMAIN inspections /\ inspections'[j].on = inspections[j].on
        BY <1>3, <3>2
      <4> QED
        BY <2>1, <2>2, <2>3, <4>1
    <3> QED
      BY <3>1, <3>2
  <2> QED
    BY <2>4, <2>5 DEF Dated
<1>13. ASSUME NEW q \in Request, q # r
       PROVE  Untouched(q)
  <2>1. ASSUME call[q].step = "opening"
        PROVE  inspections'[call[q].id].fault = inspections[call[q].id].fault
    <3>1. call[q].id \in DOMAIN inspections
      BY <2>1 DEF LiftServiceInv, Held
    <3> QED
      BY <1>3, <3>1
  <2>2. ~(call[q].step = "syncing" /\ call[q].id = i)
    BY <1>3, <1>13 DEF LiftServiceInv, Apart
  <2>3. CASE i = n + 1
    <3>1. Len(inspections') = n + 1
      BY <1>3, <2>3
    <3> QED
      BY <1>4, <2>1, <2>2, <2>3, <3>1, InspectionsUntouched
  <2>4. CASE i # n + 1
    <3>1. Len(inspections') = n
      BY <1>3, <2>4
    <3> QED
      BY <1>4, <2>1, <3>1, InspectionsUntouched
  <2> QED
    BY <2>3, <2>4
<1>14. LiftServiceInv'
  BY <1>6, <1>9, <1>10, <1>11, <1>12, <1>13, StepKeeps
<1>15. SealStep
  BY <1>3, <1>4, <1>8, SealedUnseen
<1> QED
  BY <1>4, <1>14, <1>15

(* An inspection nothing overlapped leaves the lift as the newest says.    *)
LEMMA FollowHolds ==
  ASSUME LiftServiceInv
  PROVE  FollowStep
<1>1. SUFFICES ASSUME NEW r \in Request, Alone(r), SyncElevator(r)
               PROVE  \E i \in DOMAIN inspections' :
                        /\ \A j \in DOMAIN inspections' :
                             \/ inspections'[i].on > inspections'[j].on
                             \/ inspections'[i].on = inspections'[j].on /\ i >= j
                        /\ lift'.label = inspections'[i].label
                        /\ lift'.label = "red" => lift'.status # "active"
  BY DEF FollowStep
<1>2. /\ call[r].step = "syncing"
      /\ DOMAIN inspections' = DOMAIN inspections \cup {call[r].id}
      /\ \A j \in DOMAIN inspections \ {call[r].id} : inspections'[j] = inspections[j]
      /\ inspections'[call[r].id].on = call[r].row.on
      /\ inspections'[call[r].id].label = call[r].row.label
  BY <1>1, SyncedRows
<1>3. call[r].lift = lift
  BY <1>1 DEF LiftServiceInv, Held
<1>4. PICK i \in DOMAIN Left(r) : Newest(i, Left(r)) /\ call[r].latest = Left(r)[i]
  BY <1>1, <1>2 DEF LiftServiceInv, Held
<1>5. /\ DOMAIN Left(r) = DOMAIN inspections'
      /\ \A j \in DOMAIN inspections' :
           inspections'[j].on = Left(r)[j].on /\ inspections'[j].label = Left(r)[j].label
  BY <1>2 DEF Left
<1>6. lift' = Synced(lift, lift, call[r].latest)
  BY <1>1, <1>3 DEF SyncElevator
<1>7. lift'.label = call[r].latest.label
  BY <1>6 DEF Synced
<1>8. lift'.label = "red" => lift'.status # "active"
  BY <1>6 DEF Synced, Usable
<1>9. \A j \in DOMAIN inspections' :
        \/ inspections'[i].on > inspections'[j].on
        \/ inspections'[i].on = inspections'[j].on /\ i >= j
  BY <1>4, <1>5 DEF Newest
<1> QED
  BY <1>4, <1>5, <1>7, <1>8, <1>9

-----------------------------------------------------------------------------
(* Every step                                                              *)

LEMMA InitHolds ==
  ASSUME Init
  PROVE  LiftServiceInv
<1>1. now = 1 /\ calls = 0 /\ lift = [status |-> "active", label |-> "none"]
      /\ inspections = <<>> /\ faults = <<>> /\ call = [r \in Request |-> NoCall]
  BY DEF Init
<1>2. /\ inspections \in Seq(Inspection) /\ Len(inspections) = 0 /\ DOMAIN inspections = {}
      /\ faults \in Seq(Fault) /\ Len(faults) = 0 /\ DOMAIN faults = {}
  BY <1>1, EmptySeq, LenProperties
<1>3. Types
  <2>1. MaxNow \in Nat \ {0} /\ MaxCalls \in Nat /\ MaxFaults \in Nat /\ MaxInspections \in Nat
    BY LiftServiceAssumption
  <2>2. lift \in LiftRow
    BY <1>1 DEF LiftRow, Statuses
  <2>3. call \in [Request -> Call]
    BY <1>1 DEF Call
  <2> QED
    BY <1>1, <1>2, <2>1, <2>2, <2>3 DEF Types
<1>4. Linked /\ Told /\ OnePublicFaultPerWindow /\ Dated
  BY <1>2 DEF Linked, Told, OnePublicFaultPerWindow, Dated
<1>5. ASSUME NEW r \in Request
      PROVE  call[r].step \notin Steps /\ "alone" \notin DOMAIN call[r]
  BY <1>1, LiftServiceAssumption DEF NoCall
<1>6. \A r \in Request : Held(r)
  BY <1>5 DEF Held, Alone, Steps
<1>7. \A q, r \in Request : Apart(q, r)
  BY <1>5 DEF Apart, Steps
<1> QED
  BY <1>3, <1>4, <1>6, <1>7 DEF LiftServiceInv

StepOK == ReachStep /\ HeardStep /\ StatedStep /\ DefectStep /\ SealStep

(* A step of the calls alone, or of the lift and inspections.              *)
LEMMA NextHolds ==
  ASSUME LiftServiceInv, [Next]_vars
  PROVE  LiftServiceInv' /\ StepOK
<1>1. ASSUME UNCHANGED faults, UNCHANGED lift
      PROVE  StepOK
  BY <1>1, FaultsAlone, SealKept DEF StepOK
<1>2. CASE FaultViewSet
  <2>1. ASSUME NEW r \in Request, ReportByStaff(r) \/ Resolve(r)
        PROVE  LiftServiceInv' /\ StepOK
    BY <2>1, ReportsKeep, ResolveKeeps DEF StepOK
  <2>2. ASSUME NEW f \in DOMAIN faults,
               Assign(f) \/ Arrive(f) \/ Close(f) \/ Cancel(f) \/ EditFault(f)
        PROVE  LiftServiceInv' /\ StepOK
    BY <2>2, MovesKeep, SealKept DEF StepOK
  <2>3. ASSUME NEW f \in DOMAIN faults, NEW r \in Request, LockToResolve(r, f)
        PROVE  LiftServiceInv' /\ StepOK
    <3>1. UNCHANGED faults /\ UNCHANGED lift
      BY <2>3 DEF LockToResolve
    <3> QED
      BY <1>1, <2>3, <3>1, LockToResolveKeeps
  <2> QED
    BY <1>2, <2>1, <2>2, <2>3 DEF FaultViewSet
<1>3. CASE PublicFaultReportView
  <2>1. ASSUME NEW r \in Request, LockForReport(r)
        PROVE  LiftServiceInv' /\ StepOK
    <3>1. UNCHANGED faults /\ UNCHANGED lift
      BY <2>1 DEF LockForReport
    <3> QED
      BY <1>1, <2>1, <3>1, LockForReportKeeps
  <2>2. ASSUME NEW r \in Request, Merge(r) \/ ReportPublic(r)
        PROVE  LiftServiceInv' /\ StepOK
    BY <2>2, MergeKeeps, ReportsKeep DEF StepOK
  <2> QED
    BY <1>3, <2>1, <2>2 DEF PublicFaultReportView
<1>4. CASE InspectionViewSet
  <2>1. ASSUME NEW r \in Request, RecordInspection(r) \/ SaveInspection(r)
        PROVE  LiftServiceInv' /\ StepOK
    <3>1. UNCHANGED faults /\ UNCHANGED lift
      BY <2>1 DEF RecordInspection, SaveInspection, Saved
    <3> QED
      BY <1>1, <2>1, <3>1, RecordInspectionKeeps, SaveInspectionKeeps
  <2>2. ASSUME NEW r \in Request, SyncElevator(r)
        PROVE  LiftServiceInv' /\ StepOK
    BY <2>2, SyncElevatorKeeps, FaultsAlone DEF StepOK
  <2>3. ASSUME NEW r \in Request, NEW i \in DOMAIN inspections, FetchInspection(r, i)
        PROVE  LiftServiceInv' /\ StepOK
    <3>1. UNCHANGED faults /\ UNCHANGED lift
      BY <2>3 DEF FetchInspection, Begin
    <3> QED
      BY <1>1, <2>3, <3>1, FetchInspectionKeeps
  <2> QED
    BY <1>4, <2>1, <2>2, <2>3 DEF InspectionViewSet
<1>5. CASE NonConformityViewSet
  <2>1. ASSUME NEW r \in Request, EditNonconformity(r)
        PROVE  LiftServiceInv' /\ StepOK
    BY <1>1, <2>1, EditNonconformityKeeps
  <2>2. ASSUME NEW r \in Request, LockDefect(r)
        PROVE  LiftServiceInv' /\ StepOK
    <3>1. UNCHANGED faults /\ UNCHANGED lift
      BY <2>2 DEF LockDefect
    <3> QED
      BY <1>1, <2>2, <3>1, LockDefectKeeps
  <2>3. ASSUME NEW r \in Request, OpenFault(r)
        PROVE  LiftServiceInv' /\ StepOK
    BY <2>3, OpenFaultKeeps, SealKept DEF StepOK
  <2>4. ASSUME NEW r \in Request, NEW i \in DOMAIN inspections, FetchDefect(r, i)
        PROVE  LiftServiceInv' /\ StepOK
    <3>1. UNCHANGED faults /\ UNCHANGED lift
      BY <2>4 DEF FetchDefect, Begin
    <3> QED
      BY <1>1, <2>4, <3>1, FetchDefectKeeps
  <2> QED
    BY <1>5, <2>1, <2>2, <2>3, <2>4 DEF NonConformityViewSet
<1>6. ASSUME NEW r \in Request, FetchLift(r) \/ GiveUp(r) \/ ReportByPortal(r) \/ PatchLift(r)
      PROVE  LiftServiceInv' /\ StepOK
  <2>1. CASE FetchLift(r)
    <3>1. UNCHANGED faults /\ UNCHANGED lift
      BY <2>1 DEF FetchLift, Begin
    <3> QED
      BY <1>1, <2>1, <3>1, FetchLiftKeeps
  <2>2. CASE GiveUp(r)
    <3>1. UNCHANGED faults /\ UNCHANGED lift
      BY <2>2 DEF GiveUp
    <3> QED
      BY <1>1, <2>2, <3>1, GiveUpKeeps
  <2>3. CASE ReportByPortal(r)
    BY <2>3, ReportsKeep DEF StepOK
  <2>4. CASE PatchLift(r)
    <3>1. SealStep
      BY <2>4 DEF SealStep
    <3> QED
      BY <2>4, <3>1, PatchLiftKeeps, FaultsAlone DEF StepOK
  <2> QED
    BY <1>6, <2>1, <2>2, <2>3, <2>4
<1>7. CASE ForgetPublicReporters
  BY <1>7, ForgetKeeps, SealKept DEF StepOK
<1>8. CASE Tick
  <2>1. UNCHANGED faults /\ UNCHANGED lift
    BY <1>8 DEF Tick
  <2> QED
    BY <1>1, <1>8, <2>1, TickKeeps
<1>9. CASE UNCHANGED vars
  <2>1. UNCHANGED <<now, calls, lift, inspections, faults, call>>
    BY <1>9 DEF vars
  <2>2. LiftServiceInv'
    <3>1. Types /\ Types' /\ Linked' /\ Told' /\ OnePublicFaultPerWindow' /\ Dated'
      BY <2>1 DEF LiftServiceInv, Types, Linked, Names, Told, OnePublicFaultPerWindow, Dated
    <3>2. \A q \in Request : Held(q)' <=> Held(q)
      BY <2>1 DEF Held, Alone, Left, Names, Waiting
    <3>3. \A p, q \in Request : Apart(p, q)' <=> Apart(p, q)
      BY <2>1 DEF Apart
    <3> QED
      BY <3>1, <3>2, <3>3 DEF LiftServiceInv
  <2> QED
    BY <1>1, <2>1, <2>2
<1> QED
  BY <1>2, <1>3, <1>4, <1>5, <1>6, <1>7, <1>8, <1>9 DEF Next

(* The rows, and what requests hold of them, keep together: nobody's lock  *)
(* is another's, and what is read under it stays so until it is written.   *)
THEOREM LiftServiceHolds == Spec => []LiftServiceInv
<1>1. Init => LiftServiceInv
  BY InitHolds
<1>2. LiftServiceInv /\ [Next]_vars => LiftServiceInv'
  BY NextHolds
<1> QED
  BY <1>1, <1>2, PTL DEF Spec

LEMMA InvImplies ==
  ASSUME LiftServiceInv
  PROVE  TypeOK /\ OnePublicFaultPerWindow
<1>1. Types /\ Linked /\ Told
  BY DEF LiftServiceInv
<1>2. \A f \in DOMAIN faults : faults[f].channel \in Channels /\ faults[f].priority \in Priorities
  BY <1>1, Sizes DEF Fault
<1>3. now \in 0 .. MaxNow
  BY <1>1, LiftServiceAssumption DEF Types
<1> QED
  BY <1>1, <1>2, <1>3 DEF TypeOK, Types, LiftRow, Linked, Names, Told, LiftServiceInv

(* However many residents, contacts and colleagues report at once, and     *)
(* however their calls overlap, what is one cause has one fault: public    *)
(* reports inside the window share one, and a second is opened for a       *)
(* defect only when its row names none any more (report_public, open_fault)*)
THEOREM FaultsAlwaysConverge == Spec => FaultsConverge
<1>1. LiftServiceInv /\ [Next]_vars => DefectStep
  BY NextHolds DEF StepOK
<1>2. LiftServiceInv => TypeOK /\ OnePublicFaultPerWindow
  BY InvImplies
<1> QED
  BY <1>1, <1>2, LiftServiceHolds, PTL
     DEF Spec, FaultsConverge, DefectsConverge, DefectStep

(* A report reaches a fault somebody will still go to, is never added to a *)
(* finished one, and never lowers its priority; every emergency is         *)
(* announced (report_public, _merge, and the moves that race them).        *)
THEOREM ReportsAlwaysHeard == Spec => ReportsAreHeard
<1>1. LiftServiceInv /\ [Next]_vars => ReachStep /\ HeardStep
  BY NextHolds DEF StepOK
<1> QED
  BY <1>1, LiftServiceHolds, PTL
     DEF Spec, ReportsAreHeard, ReportsReachWaitingFaults, EmergenciesAreHeard, ReachStep, HeardStep

(* What the office said of a fault's bill only the office changes, however *)
(* a resolution races the correction (resolve, FaultViewSet.partial_update)*)
THEOREM StatedBillingAlwaysStays == Spec => StatedBillingStays
<1>1. LiftServiceInv /\ [Next]_vars => StatedStep
  BY NextHolds DEF StepOK
<1> QED
  BY <1>1, LiftServiceHolds, PTL DEF Spec, StatedBillingStays, StatedStep

(* An inspection that nothing overlapped leaves the lift as its newest     *)
(* inspection says, and a seal is lifted by a person or by a call that had *)
(* read the lift before it was set (sync_elevator, resolve, _stop).        *)
THEOREM LiftAlwaysFollowsPeople == Spec => LiftFollowsPeople
<1>1. LiftServiceInv /\ [Next]_vars => SealStep
  BY NextHolds DEF StepOK
<1>2. LiftServiceInv => FollowStep
  BY FollowHolds
<1> QED
  BY <1>1, <1>2, LiftServiceHolds, PTL
     DEF Spec, LiftFollowsPeople, LiftFollowsNewest, SealStays, FollowStep, SealStep

================================================================================
