----------------------------- MODULE OfficeProofs -----------------------------
(***************************************************************************)
(* Proofs about what a firm keeps beside its work, for any number of       *)
(* users, requests, rows and workers.                                      *)
(*                                                                         *)
(* apps/users and apps/portal: a session is its device's until it ends     *)
(* (SessionsHold), a leaver is out and the firm keeps an owner             *)
(* (TeamHolds), an address opens one account (OneSeatEach).                *)
(*                                                                         *)
(* apps/notifications: news is told once, to whom it is for, and mailed    *)
(* where it matters (NoticesArrive).                                       *)
(*                                                                         *)
(* apps/customers, apps/properties, lifts and parties: records hang        *)
(* together (RecordsHold). The invariant follows a row from the request    *)
(* that read and validated it to the write: what that request has read is  *)
(* still so wherever nobody else was about the same rows (Pledges).        *)
(***************************************************************************)
EXTENDS Portal, Notices, Registry, SequenceTheorems, FiniteSetTheorems, WellFoundedInduction, TLAPS

-----------------------------------------------------------------------------
(* Which requests there are                                                *)

(* Whatever Sessions serves, of a colleague or of a contact.               *)
SessionsAction ==
  \/ \E r \in Requests :
       \/ \E u \in Users : SignIn(r, u) \/ RequestReset(r, u)
       \/ \E i \in DOMAIN sessions : Rotate(r, i) \/ ChangePassword(r, i)
       \/ \E k \in DOMAIN links : ConfirmReset(r, k)
       \/ Fails(r) \/ SignedIn(r) \/ FailureCounted(r) \/ Rotated(r)
       \/ PasswordChanged(r) \/ ResetMailed(r) \/ ResetConfirmed(r)
  \/ \E i \in DOMAIN sessions : Replayed(i) \/ Logout(i) \/ EndSession(i) \/ RevokeOthers(i)
  \/ \E u \in Users : RevokeAll(u)
  \/ WindowEnds \/ LockEnds

TeamAction == UserViewSet \/ InvitationViewSet \/ InvitationAcceptView

PortalAction ==
  PortalAcceptView \/ PortalInvitationView \/ PortalAccountViewSet \/ CustomerContactViewSet

LEMMA Actions ==
  ASSUME AccountsNext
  PROVE  \/ SessionsAction /\ UNCHANGED <<teamVars, portalVars>>
         \/ TeamAction /\ UNCHANGED portalVars
         \/ PortalAction
<1>1. ASSUME SessionsNext PROVE SessionsAction
  BY <1>1 DEF SessionsNext, LoginView, RefreshView, SessionViews, PasswordViews, SessionsAction,
              Colleagues, TheirRows
<1>2. ASSUME PortalSessionViews PROVE SessionsAction
  BY <1>2 DEF PortalSessionViews, PortalSignIn, PortalRotate, PortalReplayed, PortalLogout,
              PortalReset, PortalConfirmReset, SessionsAction
<1>3. QED
  BY <1>1, <1>2 DEF AccountsNext, Next, TeamAction, PortalAction

-----------------------------------------------------------------------------
(* The session table                                                       *)

ChainsInv ==
  /\ sessions \in Seq(Row) /\ Len(sessions) <= MaxRows
  /\ ends \in [Users -> Nat]
  /\ \A i \in DOMAIN sessions : sessions[i].chain <= i
  /\ \A i, j \in DOMAIN sessions :
       sessions[i].chain = sessions[j].chain => sessions[i].user = sessions[j].user
  /\ OneDevicePerChain
  /\ closed \subseteq 1 .. Len(sessions)
  /\ \A i \in DOMAIN sessions : sessions[i].live => sessions[i].chain \notin closed

(* What any request may do to it: rows stay whose they are and are never   *)
(* revived; a row added is on a chain of its own, or continues one whose   *)
(* row it replaces; and whose sessions all ended has no live row left.     *)
SameRow(old, new) ==
  new.user = old.user /\ new.chain = old.chain /\ new.late = old.late /\ (new.live => old.live)

Added(n) ==
  \/ sessions'[n].chain = n
  \/ \E i \in 1 .. Len(sessions) :
       /\ sessions'[n].chain = sessions[i].chain /\ sessions'[n].user = sessions[i].user
       /\ ~sessions'[i].live
       /\ sessions[i].live \/ sessions[i].chain \in forked'
       /\ sessions[i].chain \notin closed'

ChainsStep ==
  /\ sessions' \in Seq(Row) /\ Len(sessions') <= MaxRows
  /\ Len(sessions') \in {Len(sessions), Len(sessions) + 1}
  /\ \A i \in 1 .. Len(sessions) : SameRow(sessions[i], sessions'[i])
  /\ Len(sessions') # Len(sessions) => Added(Len(sessions) + 1)
  /\ forked \subseteq forked'
  /\ closed' \subseteq 1 .. Len(sessions)
  /\ \A i \in 1 .. Len(sessions) : sessions'[i].live => sessions[i].chain \notin closed'
  /\ ends' \in [Users -> Nat]
  /\ \A u \in Users : ends[u] <= ends'[u]
  /\ \A u \in Users : ends'[u] # ends[u] => \A i \in RowsOf(u) : ~sessions'[i].live

LEMMA Rows ==
  ASSUME ChainsInv
  PROVE  /\ Len(sessions) \in Nat /\ DOMAIN sessions = 1 .. Len(sessions)
         /\ \A i \in 1 .. Len(sessions) :
              /\ sessions[i] \in Row /\ sessions[i].user \in Users
              /\ sessions[i].chain \in 1 .. Len(sessions)
<1>1. sessions \in Seq(Row)
  BY DEF ChainsInv
<1>2. Len(sessions) \in Nat /\ DOMAIN sessions = 1 .. Len(sessions)
  BY <1>1, LenProperties
<1>3. ASSUME NEW i \in 1 .. Len(sessions)
      PROVE  /\ sessions[i] \in Row /\ sessions[i].user \in Users
             /\ sessions[i].chain \in 1 .. Len(sessions)
  <2>1. sessions[i] \in Row
    BY <1>1, ElementOfSeq
  <2>2. sessions[i].user \in Users /\ sessions[i].chain \in 1 .. MaxRows
    BY <2>1 DEF Row
  <2>3. sessions[i].chain <= i
    BY <1>2 DEF ChainsInv
  <2>4. QED
    BY <1>2, <2>1, <2>2, <2>3, SessionsAssumption
<1>4. QED
  BY <1>2, <1>3

(* revoked_at, set where it was null.                                      *)
LEMMA RevokedRows ==
  ASSUME ChainsInv, NEW ended
  PROVE  /\ Revoked(ended) \in Seq(Row) /\ Len(Revoked(ended)) = Len(sessions)
         /\ \A i \in 1 .. Len(sessions) :
              /\ SameRow(sessions[i], Revoked(ended)[i])
              /\ Revoked(ended)[i].live => i \notin ended
<1> DEFINE n == Len(sessions)
           row(i) == IF i \in ended THEN [sessions[i] EXCEPT !.live = FALSE] ELSE sessions[i]
<1>1. n \in Nat /\ DOMAIN sessions = 1 .. n /\ \A i \in 1 .. n : sessions[i] \in Row
  BY Rows
<1>2. ASSUME NEW i \in 1 .. n
      PROVE  row(i) \in Row /\ SameRow(sessions[i], row(i)) /\ (row(i).live => i \notin ended)
  BY <1>1 DEF Row, SameRow
<1>3. Revoked(ended) = [i \in 1 .. n |-> row(i)]
  BY <1>1 DEF Revoked
<1>4. Revoked(ended) \in [1 .. n -> Row]
  BY <1>2, <1>3
<1>5. Revoked(ended) \in Seq(Row)
  BY <1>1, <1>4, SeqDef
<1>6. Len(Revoked(ended)) = n
  BY <1>1, <1>3, <1>5, LenProperties
<1>7. QED
  BY <1>2, <1>3, <1>5, <1>6

(* issue_tokens adds one live row.                                         *)
LEMMA IssuedRow ==
  ASSUME NEW table \in Seq(Row), Len(table) < MaxRows,
         NEW u \in Users, NEW chain \in 0 .. Len(table), NEW late \in BOOLEAN
  PROVE  /\ Issued(table, u, chain, late) \in Seq(Row)
         /\ Len(Issued(table, u, chain, late)) = Len(table) + 1
         /\ \A i \in 1 .. Len(table) : Issued(table, u, chain, late)[i] = table[i]
         /\ Issued(table, u, chain, late)[Len(table) + 1]
              = [user |-> u, chain |-> IF chain = 0 THEN Len(table) + 1 ELSE chain,
                 live |-> TRUE, late |-> late]
<1> DEFINE new == [user |-> u, chain |-> IF chain = 0 THEN Len(table) + 1 ELSE chain,
                   live |-> TRUE, late |-> late]
<1>1. Len(table) \in Nat /\ MaxRows \in Nat
  BY LenProperties, SessionsAssumption
<1>2. new \in Row
  BY <1>1 DEF Row
<1>3. QED
  BY <1>1, <1>2, AppendProperties DEF Issued

LEMMA RowIssued ==
  ASSUME NEW table \in Seq(Row), Len(table) = Len(sessions), Len(sessions) < MaxRows,
         NEW u \in Users, NEW chain \in 0 .. Len(sessions), NEW late \in BOOLEAN,
         sessions' = Issued(table, u, chain, late)
  PROVE  /\ Len(sessions') = Len(sessions) + 1
         /\ sessions'[Len(sessions')].user = u /\ sessions'[Len(sessions')].late = late
<1>1. /\ Len(sessions') = Len(table) + 1
      /\ sessions'[Len(table) + 1]
           = [user |-> u, chain |-> IF chain = 0 THEN Len(table) + 1 ELSE chain,
              live |-> TRUE, late |-> late]
  <2>1. Len(table) < MaxRows /\ chain \in 0 .. Len(table)
    OBVIOUS
  <2>2. QED
    BY <2>1, IssuedRow, ZenonT(30)
<1>2. QED
  BY <1>1

LEMMA ChainsKept ==
  ASSUME ChainsInv, ChainsStep
  PROVE  ChainsInv'
<1> DEFINE n == Len(sessions)
           m == n + 1
<1>1. /\ n \in Nat /\ DOMAIN sessions = 1 .. n
      /\ \A i \in 1 .. n : sessions[i] \in Row /\ sessions[i].chain \in 1 .. n
  BY Rows
<1>2. /\ sessions' \in Seq(Row) /\ DOMAIN sessions' = 1 .. Len(sessions')
      /\ Len(sessions') \in {n, m}
  BY LenProperties DEF ChainsStep
<1>3. \A i \in 1 .. n : SameRow(sessions[i], sessions'[i])
  BY DEF ChainsStep
<1>4. CASE Len(sessions') = n
  <2>1. \A i, j \in DOMAIN sessions' :
          sessions'[i].chain = sessions'[j].chain => sessions'[i].user = sessions'[j].user
    BY <1>1, <1>2, <1>3, <1>4 DEF ChainsInv, SameRow
  <2>2. OneDevicePerChain'
    BY <1>1, <1>2, <1>3, <1>4 DEF ChainsInv, ChainsStep, SameRow, OneDevicePerChain
  <2>3. \A i \in DOMAIN sessions' :
          /\ sessions'[i].chain <= i
          /\ sessions'[i].live => sessions'[i].chain \notin closed'
    BY <1>1, <1>2, <1>3, <1>4 DEF ChainsInv, ChainsStep, SameRow
  <2>4. QED
    BY <1>1, <1>2, <1>4, <2>1, <2>2, <2>3 DEF ChainsInv, ChainsStep
<1>5. CASE Len(sessions') = m
  <2>1. Added(m) /\ closed' \subseteq 1 .. m
    <3>1. Len(sessions') # Len(sessions)
      <4>1. ASSUME NEW k \in Nat PROVE k + 1 # k
        OBVIOUS
      <4>2. QED
        BY <1>1, <1>5, <4>1
    <3>2. \A c \in 1 .. n : c \in 1 .. m
      BY <1>1
    <3>3. QED
      BY <3>1, <3>2 DEF ChainsStep
  <2>2. \A i \in DOMAIN sessions' : i \in 1 .. n \/ i = m
    BY <1>1, <1>2, <1>5
  <2>3. \A i \in 1 .. n : sessions'[i].chain \in 1 .. n /\ sessions'[i].chain # m
    BY <1>1, <1>3 DEF SameRow
  <2>4. CASE sessions'[m].chain = m
    <3>1. \A i, j \in DOMAIN sessions' :
            sessions'[i].chain = sessions'[j].chain =>
              i = j \/ (i \in 1 .. n /\ j \in 1 .. n)
      BY <2>2, <2>3, <2>4
    <3>2. \A i, j \in DOMAIN sessions' :
            sessions'[i].chain = sessions'[j].chain => sessions'[i].user = sessions'[j].user
      BY <1>1, <1>3, <3>1 DEF ChainsInv, SameRow
    <3>3. OneDevicePerChain'
      BY <1>1, <1>3, <3>1 DEF ChainsInv, ChainsStep, SameRow, OneDevicePerChain
    <3>4. \A i \in DOMAIN sessions' :
            /\ sessions'[i].chain <= i
            /\ sessions'[i].live => sessions'[i].chain \notin closed'
      BY <1>1, <1>3, <2>2, <2>4 DEF ChainsInv, ChainsStep, SameRow
    <3>5. QED
      BY <1>2, <1>5, <2>1, <3>2, <3>3, <3>4 DEF ChainsInv, ChainsStep
  <2>5. CASE sessions'[m].chain # m
    <3>1. PICK k \in 1 .. n :
            /\ sessions'[m].chain = sessions[k].chain /\ sessions'[m].user = sessions[k].user
            /\ ~sessions'[k].live
            /\ sessions[k].live \/ sessions[k].chain \in forked'
            /\ sessions[k].chain \notin closed'
      BY <2>1, <2>5 DEF Added
    <3>2. \A i, j \in DOMAIN sessions' :
            sessions'[i].chain = sessions'[j].chain => sessions'[i].user = sessions'[j].user
      BY <1>1, <1>3, <2>2, <3>1 DEF ChainsInv, SameRow
    <3>3. \A i \in 1 .. n :
            sessions'[i].live /\ sessions'[i].chain = sessions'[m].chain
              => sessions'[m].chain \in forked'
      <4>1. ASSUME NEW i \in 1 .. n, sessions'[i].live, sessions'[i].chain = sessions'[m].chain
            PROVE  sessions[i].live /\ sessions[i].chain = sessions[k].chain /\ i # k
        BY <1>3, <3>1, <4>1 DEF SameRow
      <4>2. ASSUME NEW i \in 1 .. n, sessions[i].live, sessions[k].live,
                   sessions[i].chain = sessions[k].chain, i # k
            PROVE  sessions[k].chain \in forked'
        BY <1>1, <4>2 DEF ChainsInv, ChainsStep, OneDevicePerChain
      <4>3. QED
        BY <3>1, <4>1, <4>2
    <3>4. OneDevicePerChain'
      BY <1>1, <1>3, <2>2, <3>3 DEF ChainsInv, ChainsStep, SameRow, OneDevicePerChain
    <3>5. \A i \in DOMAIN sessions' :
            /\ sessions'[i].chain <= i
            /\ sessions'[i].live => sessions'[i].chain \notin closed'
      BY SMTT(20), <1>1, <1>3, <2>2, <3>1 DEF ChainsInv, ChainsStep, SameRow
    <3>6. QED
      BY <1>2, <1>5, <2>1, <3>2, <3>4, <3>5 DEF ChainsInv, ChainsStep
  <2>6. QED
    BY <2>4, <2>5
<1>6. QED
  BY <1>2, <1>4, <1>5

(* The table is left alone.                                                *)
LEMMA ChainsAlone ==
  ASSUME ChainsInv, UNCHANGED chainVars
  PROVE  ChainsStep
<1>1. Len(sessions) \in Nat /\ \A i \in 1 .. Len(sessions) : sessions[i] \in Row
  BY Rows
<1>2. UNCHANGED <<sessions, ends, forked, closed>>
  BY DEF chainVars
<1>3. DOMAIN sessions = 1 .. Len(sessions)
  BY Rows
<1>4. QED
  BY <1>1, <1>2, <1>3 DEF ChainsInv, ChainsStep, SameRow, RowsOf

(* A device signs in.                                                      *)
LEMMA ChainOpened ==
  ASSUME ChainsInv, NEW u \in Users, NEW late \in BOOLEAN, Len(sessions) < MaxRows,
         sessions' = Issued(sessions, u, 0, late), UNCHANGED <<ends, forked, closed>>
  PROVE  ChainsStep
<1>1. /\ Len(sessions) \in Nat /\ DOMAIN sessions = 1 .. Len(sessions)
      /\ \A i \in 1 .. Len(sessions) : sessions[i] \in Row
  BY Rows
<1>2. sessions \in Seq(Row)
  BY DEF ChainsInv
<1>3. /\ sessions' \in Seq(Row) /\ Len(sessions') = Len(sessions) + 1
      /\ \A i \in 1 .. Len(sessions) : sessions'[i] = sessions[i]
      /\ sessions'[Len(sessions) + 1].chain = Len(sessions) + 1
  <2>1. 0 \in 0 .. Len(sessions)
    BY <1>1
  <2>2. /\ Issued(sessions, u, 0, late) \in Seq(Row)
        /\ Len(Issued(sessions, u, 0, late)) = Len(sessions) + 1
        /\ \A i \in 1 .. Len(sessions) : Issued(sessions, u, 0, late)[i] = sessions[i]
        /\ Issued(sessions, u, 0, late)[Len(sessions) + 1]
             = [user |-> u, chain |-> IF 0 = 0 THEN Len(sessions) + 1 ELSE 0,
                live |-> TRUE, late |-> late]
    BY <1>2, <2>1, IssuedRow, Zenon
  <2>3. QED
    BY <2>2
<1>4. QED
  BY <1>1, <1>3, SessionsAssumption DEF ChainsInv, ChainsStep, SameRow, Added, RowsOf

(* A device goes on with a new token in place of row i's, and perhaps all  *)
(* the others of its user are signed out.                                  *)
LEMMA ChainContinued ==
  ASSUME ChainsInv, NEW i \in DOMAIN sessions, NEW late \in BOOLEAN, Len(sessions) < MaxRows,
         NEW ended, i \in ended,
         sessions' = Issued(Revoked(ended), sessions[i].user, sessions[i].chain, late),
         Continues(i),
         \/ UNCHANGED ends
         \/ ended = RowsOf(sessions[i].user) /\ EndsAll(sessions[i].user)
  PROVE  ChainsStep
<1> DEFINE n == Len(sessions)
<1>1. /\ n \in Nat /\ DOMAIN sessions = 1 .. n
      /\ \A j \in 1 .. n : sessions[j] \in Row /\ sessions[j].chain \in 1 .. n
      /\ sessions[i].user \in Users
  BY Rows
<1>2. /\ Revoked(ended) \in Seq(Row) /\ Len(Revoked(ended)) = n
      /\ \A j \in 1 .. n : /\ SameRow(sessions[j], Revoked(ended)[j])
                           /\ Revoked(ended)[j].live => j \notin ended
  BY RevokedRows
<1>3. /\ sessions' \in Seq(Row) /\ Len(sessions') = n + 1
      /\ \A j \in 1 .. n : sessions'[j] = Revoked(ended)[j]
      /\ sessions'[n + 1].chain = sessions[i].chain
      /\ sessions'[n + 1].user = sessions[i].user
  <2>1. sessions[i].chain \in 0 .. Len(Revoked(ended)) /\ sessions[i].chain # 0
    BY <1>1, <1>2
  <2> DEFINE c == sessions[i].chain
             table == Revoked(ended)
  <2>2. table \in Seq(Row) /\ Len(table) < MaxRows
    BY <1>2
  <2>3. /\ sessions' \in Seq(Row)
        /\ Len(sessions') = Len(table) + 1
        /\ \A j \in 1 .. Len(table) : sessions'[j] = table[j]
        /\ sessions'[Len(table) + 1]
             = [user |-> sessions[i].user, chain |-> IF c = 0 THEN Len(table) + 1 ELSE c,
                live |-> TRUE, late |-> late]
    <3>1. sessions' = Issued(table, sessions[i].user, c, late) /\ c \in 0 .. Len(table)
      BY <2>1
    <3> HIDE DEF c, table
    <3>2. sessions[i].user \in Users
      BY <1>1
    <3>3. /\ Issued(table, sessions[i].user, c, late) \in Seq(Row)
          /\ Len(Issued(table, sessions[i].user, c, late)) = Len(table) + 1
          /\ \A j \in 1 .. Len(table) : Issued(table, sessions[i].user, c, late)[j] = table[j]
          /\ Issued(table, sessions[i].user, c, late)[Len(table) + 1]
               = [user |-> sessions[i].user, chain |-> IF c = 0 THEN Len(table) + 1 ELSE c,
                  live |-> TRUE, late |-> late]
      BY <2>2, <3>1, <3>2, IssuedRow, Zenon
    <3>4. QED
      BY <3>1, <3>3
  <2>4. QED
    BY <1>2, <2>1, <2>3
<1>4. /\ \A j \in 1 .. n : SameRow(sessions[j], sessions'[j])
      /\ \A j \in 1 .. n \cap ended : ~sessions'[j].live
  BY <1>2, <1>3
<1>5. forked \subseteq forked' /\ closed' = closed \ {sessions[i].chain}
      /\ (sessions[i].live \/ sessions[i].chain \in forked')
  BY DEF Continues
<1>6. Added(n + 1)
  BY <1>1, <1>3, <1>4, <1>5 DEF Added
<1>7. /\ closed' \subseteq 1 .. n
      /\ \A j \in 1 .. n : sessions'[j].live => sessions[j].chain \notin closed'
  BY <1>1, <1>4, <1>5 DEF ChainsInv, SameRow
<1>8. /\ ends' \in [Users -> Nat]
      /\ \A u \in Users : ends[u] <= ends'[u]
      /\ \A u \in Users : ends'[u] # ends[u] =>
           u = sessions[i].user /\ ended = RowsOf(sessions[i].user)
  <2>1. CASE UNCHANGED ends
    BY <2>1 DEF ChainsInv
  <2>2. CASE ended = RowsOf(sessions[i].user) /\ EndsAll(sessions[i].user)
    BY <1>1, <2>2 DEF ChainsInv, EndsAll
  <2>3. QED
    BY <2>1, <2>2
<1>9. \A u \in Users : ends'[u] # ends[u] => \A j \in RowsOf(u) : ~sessions'[j].live
  BY <1>1, <1>4, <1>8 DEF RowsOf
<1>10. Len(sessions') <= MaxRows
  BY <1>1, <1>3, SessionsAssumption
<1>11. QED
  BY <1>1, <1>3, <1>4, <1>5, <1>6, <1>7, <1>8, <1>9, <1>10 DEF ChainsStep

(* Rows are revoked.  Those of a chain that closes are all of it that was  *)
(* live; and when all a user's sessions end, so does every row of theirs.  *)
LEMMA ChainsRevoked ==
  ASSUME ChainsInv, NEW ended, sessions' = Revoked(ended), UNCHANGED forked,
         closed' \subseteq 1 .. Len(sessions),
         \A i \in DOMAIN sessions : sessions[i].chain \in closed' \ closed => ~sessions'[i].live,
         \/ UNCHANGED ends
         \/ \E u \in Users : RowsOf(u) \subseteq ended /\ EndsAll(u)
  PROVE  ChainsStep
<1> DEFINE n == Len(sessions)
<1>1. /\ n \in Nat /\ DOMAIN sessions = 1 .. n
      /\ \A j \in 1 .. n : sessions[j] \in Row /\ sessions[j].chain \in 1 .. n
  BY Rows
<1>2. /\ sessions' \in Seq(Row) /\ Len(sessions') = n
      /\ \A j \in 1 .. n : /\ SameRow(sessions[j], sessions'[j])
                           /\ sessions'[j].live => j \notin ended
  BY RevokedRows
<1>3. \A j \in 1 .. n : sessions'[j].live => sessions[j].chain \notin closed'
  BY <1>1, <1>2 DEF ChainsInv, SameRow
<1>4. /\ ends' \in [Users -> Nat]
      /\ \A u \in Users : ends[u] <= ends'[u]
      /\ \A u \in Users : ends'[u] # ends[u] => RowsOf(u) \subseteq ended
  BY DEF ChainsInv, EndsAll
<1>5. \A u \in Users : ends'[u] # ends[u] => \A j \in RowsOf(u) : ~sessions'[j].live
  BY <1>1, <1>2, <1>4 DEF RowsOf
<1>6. QED
  BY <1>1, <1>2, <1>3, <1>4, <1>5 DEF ChainsInv, ChainsStep

-----------------------------------------------------------------------------
(* The requests under way                                                  *)

(* What requests begin as, and those that are about an account there is.   *)
BeginKinds == {"sign_in", "rotate", "password", "link", "reset", "failure", "invite", "accept",
               "invite_contact", "edit", "deactivate", "customers", "seat", "contact"}
Existing == {"edit", "role", "assigned", "deactivate", "inactive", "revoke", "customers",
             "join", "seat"}

Kinds == BeginKinds \cup Existing \cup {"idle"}

Account == [exists : BOOLEAN, role : Roles \cup {"contact"}, active : BOOLEAN]
Flight == [kind : Kinds, user : Users, row : Nat, seen : Account, ends : Nat,
           role : Roles \cup {"as it is"}]
Link == [user : Users, used : BOOLEAN]
Invitation == [user : Users, role : Roles, state : States]

Tables ==
  /\ account \in [Users -> Account]
  /\ flight \in [Requests -> Flight]
  /\ links \in Seq(Link) /\ invitations \in Seq(Invitation) /\ seats \in Seq(Link)
  /\ assigned \subseteq Users /\ gone \subseteq Users /\ overlap \in BOOLEAN

(* Requests that will open a session.                                      *)
Issuing == {"sign_in", "join", "rotate", "password"}

(* What a request found when it read.                                      *)
Found(q) ==
  /\ q.kind \in {"rotate", "password"} =>
       q.row \in DOMAIN sessions /\ sessions[q.row].user = q.user
  /\ q.kind = "accept" => q.row \in DOMAIN invitations /\ invitations[q.row].user = q.user
  /\ q.kind = "seat" => q.row \in DOMAIN seats /\ seats[q.row].user = q.user

Fine(r) ==
  /\ Found(flight[r])
  /\ flight[r].ends <= ends[flight[r].user]
  /\ flight[r].kind \in Existing => account[flight[r].user].exists
  /\ flight[r].kind \in {"edit", "role"} => flight[r].seen.exists
  /\ flight[r].kind \in {"role", "invite"} => flight[r].role \in Roles

FlightsInv ==
  /\ \A r \in Requests : Fine(r)
  /\ \A k \in DOMAIN seats : account[seats[k].user].exists
  /\ \A u \in Users : account[u].active => account[u].exists

(* A firm's colleagues, or a customer's contacts.                          *)
TeamKinds == {"edit", "role", "assigned", "deactivate", "inactive", "revoke", "customers",
              "invite", "accept"}
PortalKinds == {"seat", "contact", "invite_contact"}

TeamSide ==
  /\ \A u \in Users : ~Contact(u)
  /\ gone = {} /\ seats = <<>>
  /\ \A r \in Requests : /\ flight[r].kind \notin PortalKinds
                         /\ flight[r].kind \in {"edit", "role"} => flight[r].seen.role \in Roles

PortalSide ==
  /\ \A u \in Users : Contact(u)
  /\ assigned = {} /\ invitations = <<>>
  /\ \A r \in Requests : flight[r].kind \notin TeamKinds

OneSide == TeamSide \/ PortalSide

AccountsBase == ChainsInv /\ Tables /\ FlightsInv /\ OneSide

(* A request reads and begins.                                             *)
Begun(r, q) ==
  /\ flight[r].kind = "idle" /\ flight' = [flight EXCEPT ![r] = q]
  /\ q \in Flight /\ q.kind \in BeginKinds
  /\ q.ends = ends[q.user] /\ q.seen = account[q.user]
  /\ Found(q)
  /\ q.kind \in {"sign_in", "rotate", "password"} => Active(q.user)
  /\ q.kind \in {"edit", "deactivate", "customers", "seat"} => account[q.user].exists
  /\ q.kind = "customers" => account[q.user].role = "technician"
  /\ q.kind \in {"seat", "contact"} => q.user \notin gone
  /\ q.kind \in {"edit", "deactivate", "customers", "invite"} => \E v \in Users : ~Contact(v)
  /\ q.kind \in {"contact", "invite_contact"} => Contact(q.user)
  /\ q.kind = "invite" => q.role \in Roles
  /\ overlap' = (overlap \/ (q.kind \in Editing /\ EditUnderWay))
  /\ gone' = IF q.kind = "contact" THEN gone \cup {q.user} ELSE gone
  /\ links' \in Seq(Link)
  /\ UNCHANGED <<account, chainVars, assigned, invitations, seats>>

(* A request of Sessions is over, or needed none under way.                *)
Finished(r) ==
  /\ flight' = [flight EXCEPT ![r] = Idle]
  /\ flight[r].kind \in Issuing \cup {"failure", "link", "reset"}

(* A row added is that of a request that was to open one.                  *)
NewRow(q) ==
  LET new == sessions'[Len(sessions')]
  IN  q.kind \in Issuing /\ new.user = q.user /\ new.late = (q.ends # ends[q.user])

Served ==
  /\ UNCHANGED flight \/ \E r \in Requests : Finished(r)
  /\ ChainsStep
  /\ Len(sessions') # Len(sessions) => \E r \in Requests : NewRow(flight[r])
  /\ links' \in Seq(Link)
  /\ UNCHANGED <<account, teamVars, portalVars>>

LEMMA IdleIs ==
  /\ Idle \in Flight /\ Nobody \in Account
  /\ Idle = [kind |-> "idle", user |-> Watched, row |-> 0, seen |-> Nobody, ends |-> 0,
             role |-> "technician"]
<1>1. Nobody \in Account
  BY DEF Nobody, Account, Roles
<1>2. "idle" \in Kinds /\ "technician" \in Roles
  BY DEF Kinds, Roles
<1>3. QED
  BY <1>1, <1>2, SessionsAssumption DEF Idle, Flight

LEMMA ReadingIs ==
  ASSUME Tables, ChainsInv, NEW kind \in Kinds, NEW u \in Users, NEW row \in Nat
  PROVE  /\ Reading(kind, u, row) \in Flight
         /\ Reading(kind, u, row) = [kind |-> kind, user |-> u, row |-> row, seen |-> account[u],
                                     ends |-> ends[u], role |-> "technician"]
<1>1. Reading(kind, u, row) = [kind |-> kind, user |-> u, row |-> row, seen |-> account[u],
                               ends |-> ends[u], role |-> "technician"]
  <2> DEFINE idle == [kind |-> "idle", user |-> Watched, row |-> 0, seen |-> Nobody, ends |-> 0,
                      role |-> "technician"]
  <2>1. Idle = idle
    BY DEF Idle
  <2>2. Reading(kind, u, row) = [idle EXCEPT !.kind = kind, !.user = u, !.row = row,
                                             !.seen = account[u], !.ends = ends[u]]
    BY <2>1 DEF Reading
  <2>3. QED
    BY <2>2
<1>2. account[u] \in Account /\ ends[u] \in Nat /\ "technician" \in Roles
  BY DEF Tables, ChainsInv, Roles
<1>3. QED
  BY <1>1, <1>2 DEF Flight

LEMMA IdleKind == Idle.kind = "idle"
BY IdleIs

(* q is a request that read u's row.                                       *)
Reads(q, kind, u, row) ==
  /\ q \in Flight /\ q.kind = kind /\ q.user = u /\ q.row = row
  /\ q.seen = account[u] /\ q.ends = ends[u]

LEMMA ReadingReads ==
  ASSUME Tables, ChainsInv, NEW kind \in BeginKinds, NEW u \in Users, NEW row \in Nat
  PROVE  Reads(Reading(kind, u, row), kind, u, row)
<1>1. kind \in Kinds
  BY DEF Kinds
<1>2. /\ Reading(kind, u, row) \in Flight
      /\ Reading(kind, u, row) = [kind |-> kind, user |-> u, row |-> row, seen |-> account[u],
                                  ends |-> ends[u], role |-> "technician"]
  BY <1>1, ReadingIs
<1>3. QED
  BY <1>2 DEF Reads

LEMMA Asked ==
  ASSUME NEW q \in Flight, NEW role \in Roles \cup {"as it is"}, NEW kind, NEW u, NEW row,
         Reads(q, kind, u, row)
  PROVE  Reads([q EXCEPT !.role = role], kind, u, row) /\ [q EXCEPT !.role = role].role = role
<1>1. [q EXCEPT !.role = role] \in Flight
  BY DEF Flight
<1>2. QED
  BY <1>1 DEF Reads, Flight

LEMMA AskingReads ==
  ASSUME Tables, ChainsInv, NEW kind \in BeginKinds, NEW u \in Users, NEW row \in Nat,
         NEW role \in Roles \cup {"as it is"}
  PROVE  /\ Reads([Reading(kind, u, row) EXCEPT !.role = role], kind, u, row)
         /\ [Reading(kind, u, row) EXCEPT !.role = role].role = role
<1>1. Reads(Reading(kind, u, row), kind, u, row)
  BY ReadingReads, Zenon
<1>2. Reading(kind, u, row) \in Flight
  BY <1>1, Zenon DEF Reads
<1>3. QED
  BY <1>1, <1>2, Asked, Zenon

LEMMA Positions == \A n \in Nat : \A k \in 1 .. n : k \in Nat
OBVIOUS

LEMMA Newest ==
  \A n \in Nat : \A m \in {n, n + 1} : \A k \in 1 .. m : k \in 1 .. n \/ (k = m /\ m # n)
OBVIOUS

LEMMA Further == \A n \in Nat : \A m \in {n, n + 1} : \A k \in 1 .. n : k \in 1 .. m
OBVIOUS

LEMMA LinkRows ==
  ASSUME Tables
  PROVE  /\ Len(links) \in Nat /\ DOMAIN links = 1 .. Len(links)
         /\ \A k \in DOMAIN links : links[k] \in Link /\ links[k].user \in Users
         /\ Len(invitations) \in Nat /\ DOMAIN invitations = 1 .. Len(invitations)
         /\ \A k \in DOMAIN invitations :
              invitations[k] \in Invitation /\ invitations[k].user \in Users
         /\ Len(seats) \in Nat /\ DOMAIN seats = 1 .. Len(seats)
         /\ \A k \in DOMAIN seats : seats[k] \in Link /\ seats[k].user \in Users
<1>1. links \in Seq(Link) /\ invitations \in Seq(Invitation) /\ seats \in Seq(Link)
  BY DEF Tables
<1>2. /\ Len(links) \in Nat /\ DOMAIN links = 1 .. Len(links)
      /\ \A k \in DOMAIN links : links[k] \in Link
  BY <1>1, LenProperties, ElementOfSeq
<1>3. /\ Len(invitations) \in Nat /\ DOMAIN invitations = 1 .. Len(invitations)
      /\ \A k \in DOMAIN invitations : invitations[k] \in Invitation
  BY <1>1, LenProperties, ElementOfSeq
<1>4. /\ Len(seats) \in Nat /\ DOMAIN seats = 1 .. Len(seats)
      /\ \A k \in DOMAIN seats : seats[k] \in Link
  BY <1>1, LenProperties, ElementOfSeq
<1>5. QED
  BY <1>2, <1>3, <1>4 DEF Link, Invitation

(* Every request of Sessions either begins or is served.                   *)
LEMMA SessionsBegin ==
  ASSUME AccountsBase, UNCHANGED <<teamVars, portalVars>>, NEW r \in Requests,
         \/ \E u \in Users : SignIn(r, u) \/ RequestReset(r, u)
         \/ \E i \in DOMAIN sessions : Rotate(r, i) \/ ChangePassword(r, i)
         \/ \E k \in DOMAIN links : ConfirmReset(r, k)
         \/ Fails(r)
  PROVE  \E q : Begun(r, q)
<1>1. Tables /\ ChainsInv
  BY DEF AccountsBase
<1>2. \A k \in Kinds, u \in Users, row \in Nat :
        /\ Reading(k, u, row) \in Flight
        /\ Reading(k, u, row) = [kind |-> k, user |-> u, row |-> row, seen |-> account[u],
                                 ends |-> ends[u], role |-> "technician"]
  BY <1>1, ReadingIs
<1>3. \A i \in DOMAIN sessions : sessions[i].user \in Users /\ i \in Nat
  BY <1>1, Rows
<1>4. \A k \in DOMAIN links : links[k].user \in Users /\ k \in Nat
  BY <1>1, LinkRows
<1>5. links \in Seq(Link) /\ flight \in [Requests -> Flight]
  BY <1>1 DEF Tables
<1>6. UNCHANGED <<assigned, invitations, overlap, gone, seats>>
  BY DEF teamVars, portalVars
<1>7. {"sign_in", "rotate", "password", "link", "reset", "failure"} \subseteq Kinds \cap BeginKinds
  BY DEF Kinds, BeginKinds
<1>8. ASSUME NEW kind \in {"sign_in", "rotate", "password", "link", "reset", "failure"},
             NEW u \in Users, NEW row \in Nat, Begins(r, Reading(kind, u, row)),
             UNCHANGED <<account, chainVars>>, links' \in Seq(Link),
             kind \in {"rotate", "password"} => row \in DOMAIN sessions /\ sessions[row].user = u,
             kind \in {"sign_in", "rotate", "password"} => Active(u)
      PROVE  Begun(r, Reading(kind, u, row))
  <2> DEFINE q == Reading(kind, u, row)
  <2>1. /\ q \in Flight /\ q.kind = kind /\ q.user = u /\ q.row = row
        /\ q.seen = account[u] /\ q.ends = ends[u]
    BY <1>2, <1>7
  <2>2. flight[r].kind = "idle" /\ flight' = [flight EXCEPT ![r] = q]
    BY <1>8, IdleIs DEF Begins
  <2>3. Found(q)
    BY <1>8, <2>1 DEF Found
  <2>4. q.kind \in BeginKinds /\ q.kind \notin Editing
    BY <1>7, <2>1 DEF Editing
  <2>5. overlap' = (overlap \/ (q.kind \in Editing /\ EditUnderWay))
    BY <1>1, <1>6, <2>4 DEF Tables
  <2>6. gone' = IF q.kind = "contact" THEN gone \cup {q.user} ELSE gone
    BY <1>6, <2>1
  <2>7. QED
    BY <1>6, <1>8, <2>1, <2>2, <2>3, <2>4, <2>5, <2>6 DEF Begun
<1>9. CASE \E u \in Users : SignIn(r, u)
  BY <1>5, <1>8, <1>9 DEF SignIn
<1>10. CASE \E u \in Users : RequestReset(r, u)
  <2>1. PICK u \in Users : RequestReset(r, u)
    BY <1>10
  <2>2. links' \in Seq(Link)
    <3> DEFINE e(k) == IF links[k].user = u THEN [links[k] EXCEPT !.used = TRUE] ELSE links[k]
    <3>1. links' = [k \in 1 .. Len(links) |-> e(k)]
      BY <1>1, <2>1, LinkRows DEF RequestReset
    <3>2. ASSUME NEW k \in 1 .. Len(links) PROVE e(k) \in Link
      <4>1. links[k] \in Link
        BY <1>1, LinkRows
      <4>2. QED
        BY <4>1 DEF Link
    <3>3. links' \in [1 .. Len(links) -> Link] /\ Len(links) \in Nat
      BY <1>1, <3>1, <3>2, LinkRows
    <3>4. QED
      BY <3>3, SeqDef
  <2>3. QED
    BY <1>8, <2>1, <2>2 DEF RequestReset
<1>11. CASE \E i \in DOMAIN sessions : Rotate(r, i)
  BY <1>3, <1>5, <1>8, <1>11 DEF Rotate
<1>12. CASE \E i \in DOMAIN sessions : ChangePassword(r, i)
  BY <1>3, <1>5, <1>8, <1>12 DEF ChangePassword
<1>13. CASE \E k \in DOMAIN links : ConfirmReset(r, k)
  BY <1>4, <1>5, <1>8, <1>13 DEF ConfirmReset
<1>14. CASE Fails(r)
  BY <1>5, <1>8, <1>14, SessionsAssumption DEF Fails
<1>15. QED
  BY <1>9, <1>10, <1>11, <1>12, <1>13, <1>14

LEMMA SessionsServed ==
  ASSUME AccountsBase, UNCHANGED <<teamVars, portalVars>>, SessionsAction,
         ~ \E r \in Requests :
             \/ \E u \in Users : SignIn(r, u) \/ RequestReset(r, u)
             \/ \E i \in DOMAIN sessions : Rotate(r, i) \/ ChangePassword(r, i)
             \/ \E k \in DOMAIN links : ConfirmReset(r, k)
             \/ Fails(r)
  PROVE  Served
<1>1. Tables /\ ChainsInv /\ FlightsInv
  BY DEF AccountsBase
<1>2. links \in Seq(Link) /\ flight \in [Requests -> Flight]
  BY <1>1 DEF Tables
<1>3. /\ Len(sessions) \in Nat /\ DOMAIN sessions = 1 .. Len(sessions)
      /\ \A i \in DOMAIN sessions : sessions[i].user \in Users /\ sessions[i].chain \in 1 .. Len(sessions)
  BY <1>1, Rows
<1>4. \A r \in Requests : flight[r].user \in Users /\ flight[r].row \in Nat
  BY <1>2 DEF Flight
(* The table as an answered request leaves it.                             *)
<1>5. ASSUME UNCHANGED chainVars
      PROVE  ChainsStep /\ Len(sessions') = Len(sessions)
  BY <1>1, <1>5, ChainsAlone DEF chainVars
<1>6. ASSUME NEW ended, sessions' = Revoked(ended), UNCHANGED forked,
             closed' \subseteq 1 .. Len(sessions),
             \A i \in DOMAIN sessions : sessions[i].chain \in closed' \ closed => ~sessions'[i].live,
             \/ UNCHANGED ends
             \/ \E u \in Users : RowsOf(u) \subseteq ended /\ EndsAll(u)
      PROVE  ChainsStep /\ Len(sessions') = Len(sessions)
  BY <1>1, <1>6, ChainsRevoked, RevokedRows
<1>7. closed \subseteq 1 .. Len(sessions)
  BY <1>1 DEF ChainsInv
<1>8. ASSUME NEW u \in Users, sessions' = AllEnded(u), EndsAll(u), UNCHANGED forked,
             closed' \in {closed, closed \cup {sessions[j].chain : j \in RowsOf(u)}}
      PROVE  ChainsStep /\ Len(sessions') = Len(sessions)
  <2>1. sessions' = Revoked(RowsOf(u))
    BY <1>8 DEF AllEnded
  <2>2. closed' \subseteq 1 .. Len(sessions)
    BY <1>3, <1>7, <1>8 DEF RowsOf
  <2>3. ASSUME NEW i \in DOMAIN sessions, sessions[i].chain \in closed' \ closed
        PROVE  ~sessions'[i].live
    <3>1. PICK j \in RowsOf(u) : sessions[j].chain = sessions[i].chain
      BY <1>8, <2>3
    <3>2. sessions[i].user = u
      BY <1>1, <3>1 DEF ChainsInv, RowsOf
    <3>3. QED
      BY <1>1, <1>3, <2>1, <3>2, RevokedRows DEF RowsOf
  <2>4. QED
    BY <1>6, <1>8, <2>1, <2>2, <2>3
<1>9. ASSUME NEW r \in Requests, flight' = [flight EXCEPT ![r] = Idle],
             flight[r].kind \in Issuing \cup {"failure", "link", "reset"}, ChainsStep,
             Len(sessions') # Len(sessions) => NewRow(flight[r]),
             links' \in Seq(Link), UNCHANGED account
      PROVE  Served
  BY <1>9 DEF Served, Finished
<1>10. ASSUME NEW r \in Requests, SignedIn(r) PROVE Served
  <2>1. /\ Len(sessions) < MaxRows /\ flight[r].kind \in Issuing
        /\ sessions' = Issued(sessions, flight[r].user, 0, flight[r].ends # ends[flight[r].user])
        /\ UNCHANGED <<ends, forked, closed, account, links>>
        /\ flight' = [flight EXCEPT ![r] = Idle]
    BY <1>10 DEF SignedIn, Under, Done, Issuing
  <2>2. ChainsStep
    BY <1>1, <1>4, <2>1, ChainOpened
  <2>3. sessions \in Seq(Row) /\ 0 \in 0 .. Len(sessions)
    BY <1>1, <1>3 DEF ChainsInv
  <2>4. NewRow(flight[r])
    BY <1>4, <2>1, <2>3, RowIssued DEF NewRow
  <2>5. QED
    BY <1>2, <1>9, <2>1, <2>2, <2>4
<1>11. ASSUME NEW r \in Requests, Rotated(r) \/ PasswordChanged(r) PROVE Served
  <2> DEFINE q == flight[r]
             late == q.ends # ends[q.user]
  <2>1. /\ Len(sessions) < MaxRows /\ q.kind \in {"rotate", "password"}
        /\ Continues(q.row) /\ UNCHANGED <<account, links>>
        /\ flight' = [flight EXCEPT ![r] = Idle]
    BY <1>11 DEF Rotated, PasswordChanged, Under, Done
  <2>2. q.row \in DOMAIN sessions /\ sessions[q.row].user = q.user
    BY <1>1, <2>1 DEF FlightsInv, Fine, Found
  <2>3. PICK ended :
          /\ q.row \in ended
          /\ sessions' = Issued(Revoked(ended), q.user, sessions[q.row].chain, late)
          /\ UNCHANGED ends \/ (ended = RowsOf(q.user) /\ EndsAll(q.user))
    <3>1. CASE Rotated(r)
      <4>1. /\ q.row \in {q.row} /\ UNCHANGED ends
            /\ sessions' = Issued(Revoked({q.row}), q.user, sessions[q.row].chain, late)
        BY <3>1 DEF Rotated
      <4>2. QED
        BY <4>1
    <3>2. CASE PasswordChanged(r)
      BY <2>2, <3>2 DEF PasswordChanged, AllEnded, RowsOf
    <3>3. QED
      BY <1>11, <3>1, <3>2
  <2>4. ChainsStep
    <3>1. sessions' = Issued(Revoked(ended), sessions[q.row].user, sessions[q.row].chain, late)
      BY <2>2, <2>3
    <3>2. UNCHANGED ends \/ (ended = RowsOf(sessions[q.row].user) /\ EndsAll(sessions[q.row].user))
      BY <2>2, <2>3
    <3>3. late \in BOOLEAN
      OBVIOUS
    <3>4. QED
      BY <1>1, <2>1, <2>2, <2>3, <3>1, <3>2, <3>3, ChainContinued
  <2>5. Revoked(ended) \in Seq(Row) /\ Len(Revoked(ended)) = Len(sessions)
    BY <1>1, RevokedRows
  <2>6. sessions[q.row].chain \in 0 .. Len(sessions)
    BY <1>3, <2>2
  <2>7. NewRow(q)
    BY <1>4, <2>1, <2>3, <2>5, <2>6, RowIssued DEF NewRow, Issuing
  <2>8. QED
    BY <1>2, <1>9, <2>1, <2>4, <2>7 DEF Issuing
<1>12. ASSUME NEW r \in Requests, FailureCounted(r) PROVE Served
  BY <1>2, <1>5, <1>9, <1>12 DEF FailureCounted, Under, Done
<1>13. ASSUME NEW r \in Requests, ResetMailed(r) PROVE Served
  <2>1. [user |-> flight[r].user, used |-> FALSE] \in Link
    BY <1>4 DEF Link
  <2>2. links' \in Seq(Link)
    BY <1>2, <1>13, <2>1, AppendProperties DEF ResetMailed
  <2>3. QED
    BY <1>5, <1>9, <1>13, <2>2 DEF ResetMailed, Under, Done
<1>14. ASSUME NEW r \in Requests, ResetConfirmed(r) PROVE Served
  <2>1. links' = [links EXCEPT ![flight[r].row].used = TRUE]
    BY <1>14 DEF ResetConfirmed
  <2>2. links \in [1 .. Len(links) -> Link] /\ Len(links) \in Nat
    BY <1>1, <1>2, LenProperties
  <2>3. links' \in [1 .. Len(links) -> Link]
    BY <2>1, <2>2 DEF Link
  <2>4. links' \in Seq(Link)
    BY <2>2, <2>3, SeqDef
  <2>5. ChainsStep /\ Len(sessions') = Len(sessions)
    BY <1>4, <1>8, <1>14 DEF ResetConfirmed
  <2>6. QED
    BY <1>9, <1>14, <2>4, <2>5 DEF ResetConfirmed, Under, Done
<1>15. ASSUME UNCHANGED <<flight, account, links>>, ChainsStep, Len(sessions') = Len(sessions)
       PROVE  Served
  BY <1>2, <1>15 DEF Served
<1>16. ASSUME NEW i \in DOMAIN sessions, Replayed(i) PROVE Served
  BY <1>3, <1>8, <1>15, <1>16 DEF Replayed, AtOnce
<1>17. ASSUME NEW i \in DOMAIN sessions, Logout(i) \/ EndSession(i) PROVE Served
  <2>1. PICK ended : Ends(i, ended) /\ ended \subseteq LiveIn(sessions[i].chain)
    <3>1. CASE Logout(i)
      BY <3>1 DEF Logout, Ends, LiveIn
    <3>2. CASE EndSession(i)
      BY <3>2 DEF EndSession
    <3>3. QED
      BY <1>17, <3>1, <3>2
  <2>2. /\ sessions' = Revoked(ended) /\ UNCHANGED <<forked, ends>>
        /\ closed' = IF \E j \in LiveIn(sessions[i].chain) : sessions'[j].live
                     THEN closed ELSE closed \cup {sessions[i].chain}
    BY <2>1 DEF Ends
  <2>3. closed' \subseteq 1 .. Len(sessions)
    BY <1>3, <1>7, <2>2
  <2>4. ASSUME NEW j \in DOMAIN sessions, sessions[j].chain \in closed' \ closed
        PROVE  ~sessions'[j].live
    <3>1. /\ sessions[j].chain = sessions[i].chain
          /\ \A l \in LiveIn(sessions[i].chain) : ~sessions'[l].live
      BY <2>2, <2>4
    <3>2. sessions'[j].live => sessions[j].live
      BY <1>1, <1>3, <2>2, RevokedRows DEF SameRow
    <3>3. QED
      BY <3>1, <3>2 DEF LiveIn
  <2>5. ChainsStep /\ Len(sessions') = Len(sessions)
    BY <1>6, <2>2, <2>3, <2>4
  <2>6. QED
    BY <1>15, <2>1, <2>5 DEF Ends, AtOnce
<1>18. ASSUME NEW i \in DOMAIN sessions, RevokeOthers(i) PROVE Served
  <2> DEFINE others == {j \in RowsOf(sessions[i].user) : sessions[j].chain # sessions[i].chain}
  <2>1. /\ sessions' = Revoked(others) /\ UNCHANGED <<forked, ends>>
        /\ closed' = closed \cup {sessions[j].chain : j \in others}
    BY <1>18 DEF RevokeOthers
  <2>2. closed' \subseteq 1 .. Len(sessions)
    BY <1>3, <1>7, <2>1 DEF RowsOf
  <2>3. ASSUME NEW j \in DOMAIN sessions, sessions[j].chain \in closed' \ closed
        PROVE  ~sessions'[j].live
    <3>1. PICK l \in others : sessions[l].chain = sessions[j].chain
      BY <2>1, <2>3
    <3>2. l \in DOMAIN sessions /\ sessions[l].user = sessions[i].user
          /\ sessions[l].chain # sessions[i].chain
      BY DEF RowsOf
    <3>3. sessions[j].user = sessions[i].user
      BY <1>1, <3>1, <3>2 DEF ChainsInv
    <3>4. j \in others
      BY <3>1, <3>2, <3>3 DEF RowsOf
    <3>5. QED
      BY <1>1, <1>3, <2>1, <3>4, RevokedRows
  <2>4. ChainsStep /\ Len(sessions') = Len(sessions)
    BY <1>6, <2>1, <2>2, <2>3
  <2>5. QED
    BY <1>15, <1>18, <2>4 DEF RevokeOthers, AtOnce
<1>19. ASSUME NEW u \in Users, RevokeAll(u) PROVE Served
  BY <1>8, <1>15, <1>19 DEF RevokeAll, AtOnce
<1>20. ASSUME WindowEnds \/ LockEnds PROVE Served
  BY <1>5, <1>15, <1>20 DEF WindowEnds, LockEnds
<1>21. QED
  BY <1>10, <1>11, <1>12, <1>13, <1>14, <1>16, <1>17, <1>18, <1>19, <1>20 DEF SessionsAction

(* The requests of the office and of invited people begin.                 *)
LEMMA OthersBegin ==
  ASSUME AccountsBase, NEW r \in Requests,
         \/ UNCHANGED portalVars /\
              \/ \E u \in Users : \/ \E role \in Promotable \cup {"as it is"} : EditUser(r, u, role)
                                  \/ \E actor \in Users : Deactivate(r, actor, u)
                                  \/ AssignCustomers(r, u)
                                  \/ \E role \in Invitable : Invite(r, u, role)
              \/ \E k \in DOMAIN invitations : Accept(r, k)
         \/ \E k \in DOMAIN seats : TakeSeat(r, k)
         \/ \E u \in Users : InviteContact(r, u) \/ DeleteContact(r, u)
  PROVE  \E q : Begun(r, q)
<1>1. Tables /\ ChainsInv /\ flight \in [Requests -> Flight] /\ links \in Seq(Link)
      /\ overlap \in BOOLEAN
  BY DEF AccountsBase, Tables
<1>3. \A q : Begins(r, q) => flight[r].kind = "idle" /\ flight' = [flight EXCEPT ![r] = q]
  BY IdleKind DEF Begins
<1>4. "technician" \in Roles /\ 0 \in Nat
  BY DEF Roles
<1>5. \A v \in Administrators : v \in Users /\ ~Contact(v)
  BY DEF Administrators, Contact
<1>2. \A k \in DOMAIN invitations : k \in Nat /\ invitations[k].user \in Users
  <2>1. /\ Len(invitations) \in Nat /\ DOMAIN invitations = 1 .. Len(invitations)
        /\ \A k \in DOMAIN invitations : invitations[k].user \in Users
    BY <1>1, LinkRows
  <2>2. \A k \in 1 .. Len(invitations) : k \in Nat
    BY <2>1, Positions, Zenon
  <2>3. QED
    BY <2>1, <2>2
<1>15. \A k \in DOMAIN seats : k \in Nat /\ seats[k].user \in Users
  <2>1. /\ Len(seats) \in Nat /\ DOMAIN seats = 1 .. Len(seats)
        /\ \A k \in DOMAIN seats : seats[k].user \in Users
    BY <1>1, LinkRows
  <2>2. \A k \in 1 .. Len(seats) : k \in Nat
    BY <2>1, Positions, Zenon
  <2>3. QED
    BY <2>1, <2>2
<1>6. CASE \E u \in Users, role \in Promotable \cup {"as it is"} :
             EditUser(r, u, role) /\ UNCHANGED portalVars
  <2>1. PICK u \in Users, role \in Promotable \cup {"as it is"} :
          EditUser(r, u, role) /\ UNCHANGED portalVars
    BY <1>6
  <2> DEFINE q == [Reading("edit", u, 0) EXCEPT !.role = role]
  <2>2. Reads(q, "edit", u, 0)
    <3>1. "edit" \in BeginKinds /\ role \in Roles \cup {"as it is"} /\ 0 \in Nat
      BY TeamAssumption DEF BeginKinds
    <3>2. QED
      BY <1>1, <3>1, AskingReads
  <2>3. QED
    BY <1>1, <1>3, <1>5, <2>1, <2>2
    DEF EditUser, BeginsEdit, Begun, Reads, BeginKinds, Editing, Found, portalVars
<1>7. CASE \E u \in Users, actor \in Users : Deactivate(r, actor, u) /\ UNCHANGED portalVars
  <2>1. PICK u \in Users, actor \in Users : Deactivate(r, actor, u) /\ UNCHANGED portalVars
    BY <1>7
  <2> DEFINE q == Reading("deactivate", u, 0)
  <2>2. Reads(q, "deactivate", u, 0)
    <3>1. "deactivate" \in BeginKinds /\ 0 \in Nat
      BY DEF BeginKinds
    <3>2. QED
      BY <1>1, <3>1, ReadingReads
  <2>3. ~Contact(actor)
    BY <2>1 DEF Deactivate, Owners, Contact
  <2>4. QED
    BY <1>1, <1>3, <2>1, <2>2, <2>3
    DEF Deactivate, BeginsEdit, Begun, Reads, BeginKinds, Editing, Found, portalVars
<1>8. CASE \E u \in Users : AssignCustomers(r, u) /\ UNCHANGED portalVars
  <2>1. PICK u \in Users : AssignCustomers(r, u) /\ UNCHANGED portalVars
    BY <1>8
  <2> DEFINE q == Reading("customers", u, 0)
  <2>2. Reads(q, "customers", u, 0)
    <3>1. "customers" \in BeginKinds /\ 0 \in Nat
      BY DEF BeginKinds
    <3>2. QED
      BY <1>1, <3>1, ReadingReads
  <2>3. QED
    BY <1>1, <1>3, <1>5, <2>1, <2>2
    DEF AssignCustomers, BeginsEdit, Begun, Reads, BeginKinds, Editing, Found, portalVars
<1>9. CASE \E u \in Users, role \in Invitable : Invite(r, u, role) /\ UNCHANGED portalVars
  <2>1. PICK u \in Users, role \in Invitable : Invite(r, u, role) /\ UNCHANGED portalVars
    BY <1>9
  <2> DEFINE q == [Reading("invite", u, 0) EXCEPT !.role = role]
  <2>2. Reads(q, "invite", u, 0) /\ q.role = role /\ role \in Roles
    <3>1. "invite" \in BeginKinds /\ role \in Roles \cup {"as it is"} /\ 0 \in Nat
      BY TeamAssumption DEF BeginKinds
    <3>2. role \in Roles
      BY TeamAssumption
    <3>3. /\ Reads([Reading("invite", u, 0) EXCEPT !.role = role], "invite", u, 0)
          /\ [Reading("invite", u, 0) EXCEPT !.role = role].role = role
      BY <1>1, <3>1, AskingReads, ZenonT(30)
    <3>4. QED
      BY <3>2, <3>3
  <2>3. QED
    BY <1>1, <1>3, <1>5, <2>1, <2>2
    DEF Invite, Begun, Reads, BeginKinds, Editing, Found, portalVars, teamVars
<1>10. CASE \E k \in DOMAIN invitations : Accept(r, k) /\ UNCHANGED portalVars
  <2>1. PICK k \in DOMAIN invitations : Accept(r, k) /\ UNCHANGED portalVars
    BY <1>10
  <2> DEFINE q == Reading("accept", invitations[k].user, k)
  <2>2. k \in Nat /\ invitations[k].user \in Users
    BY <1>2
  <2>3. Reads(q, "accept", invitations[k].user, k)
    <3>1. "accept" \in BeginKinds
      BY DEF BeginKinds
    <3>2. QED
      BY <1>1, <2>2, <3>1, ReadingReads
  <2>4. QED
    BY <1>1, <1>3, <2>1, <2>3 DEF Accept, Begun, Reads, BeginKinds, Editing, Found, portalVars, teamVars
<1>11. CASE \E k \in DOMAIN seats : TakeSeat(r, k)
  <2>1. PICK k \in DOMAIN seats : TakeSeat(r, k)
    BY <1>11
  <2> DEFINE q == Reading("seat", seats[k].user, k)
  <2>2. k \in Nat /\ seats[k].user \in Users
    BY <1>15
  <2>3. Reads(q, "seat", seats[k].user, k)
    <3>1. "seat" \in BeginKinds
      BY DEF BeginKinds
    <3>2. QED
      BY <1>1, <2>2, <3>1, ReadingReads
  <2>4. account[seats[k].user].exists
    BY DEF AccountsBase, FlightsInv, Fine
  <2>5. QED
    BY <1>1, <1>3, <2>1, <2>3, <2>4
    DEF TakeSeat, BeginsEdit, Begun, Reads, BeginKinds, Editing, Found, portalVars
<1>12. CASE \E u \in Users : InviteContact(r, u)
  <2>1. PICK u \in Users : InviteContact(r, u)
    BY <1>12
  <2> DEFINE q == Reading("invite_contact", u, 0)
  <2>2. Reads(q, "invite_contact", u, 0)
    <3>1. "invite_contact" \in BeginKinds /\ 0 \in Nat
      BY DEF BeginKinds
    <3>2. QED
      BY <1>1, <3>1, ReadingReads
  <2>3. QED
    BY <1>1, <1>3, <2>1, <2>2
    DEF InviteContact, Begun, Reads, BeginKinds, Editing, Found, portalVars, teamVars
<1>13. CASE \E u \in Users : DeleteContact(r, u)
  <2>1. PICK u \in Users : DeleteContact(r, u)
    BY <1>13
  <2> DEFINE q == Reading("contact", u, 0)
  <2>2. Reads(q, "contact", u, 0)
    <3>1. "contact" \in BeginKinds /\ 0 \in Nat
      BY DEF BeginKinds
    <3>2. QED
      BY <1>1, <3>1, ReadingReads
  <2>3. QED
    BY <1>1, <1>3, <2>1, <2>2 DEF DeleteContact, BeginsEdit, Begun, Reads, BeginKinds, Editing, Found
<1>14. QED
  BY <1>6, <1>7, <1>8, <1>9, <1>10, <1>11, <1>12, <1>13

-----------------------------------------------------------------------------
(* What the other requests do, one step at a time                          *)

SameRequest(old, new) ==
  /\ new.user = old.user /\ new.row = old.row /\ new.seen = old.seen
  /\ new.ends = old.ends /\ new.role = old.role

(* Request r goes on, as one of these kinds, or is over.                   *)
Moves(r, kinds) ==
  /\ flight' \in [Requests -> Flight]
  /\ \A s \in Requests : s # r => flight'[s] = flight[s]
  /\ \/ flight'[r] = Idle
     \/ flight'[r].kind \in kinds /\ SameRequest(flight[r], flight'[r])

(* u's row is written, and nobody else's.                                  *)
Writes(u, exists, role, active) ==
  /\ account' \in [Users -> Account]
  /\ \A v \in Users : v # u => account'[v] = account[v]
  /\ account'[u].exists = exists /\ account'[u].role = role /\ account'[u].active = active

(* u is signed out everywhere.                                             *)
Out(u) ==
  /\ ChainsStep /\ Len(sessions') = Len(sessions)
  /\ ends' = [ends EXCEPT ![u] = @ + 1]

LEMMA DoneMoves ==
  ASSUME Tables, NEW r \in Requests, Done(r)
  PROVE  Moves(r, {}) /\ flight'[r] = Idle
BY IdleIs DEF Tables, Done, Moves

LEMMA BecomesMoves ==
  ASSUME Tables, NEW r \in Requests, NEW kind \in Kinds, Becomes(r, kind)
  PROVE  Moves(r, {kind}) /\ flight'[r].kind = kind /\ SameRequest(flight[r], flight'[r])
<1>1. flight \in [Requests -> Flight]
  BY DEF Tables
<1>2. [flight[r] EXCEPT !.kind = kind] \in Flight
  BY <1>1 DEF Flight
<1>3. flight' = [flight EXCEPT ![r] = [flight[r] EXCEPT !.kind = kind]]
  BY DEF Becomes
<1>4. flight'[r].kind = kind /\ SameRequest(flight[r], flight'[r])
  BY <1>1, <1>3 DEF SameRequest, Flight
<1>5. QED
  BY <1>1, <1>2, <1>3, <1>4 DEF Moves

LEMMA WritesRow ==
  ASSUME Tables, NEW u \in Users, NEW p \in Account, account' = [account EXCEPT ![u] = p]
  PROVE  Writes(u, p.exists, p.role, p.active)
BY DEF Tables, Writes

LEMMA OutOf ==
  ASSUME ChainsInv, NEW u \in Users, sessions' = AllEnded(u), EndsAll(u),
         UNCHANGED <<forked, closed>>
  PROVE  Out(u)
<1>1. sessions' = Revoked(RowsOf(u))
  BY DEF AllEnded
<1>2. closed' \subseteq 1 .. Len(sessions)
  BY DEF ChainsInv
<1>3. ChainsStep
  BY <1>1, <1>2, ChainsRevoked
<1>4. Len(sessions') = Len(sessions)
  BY <1>1, RevokedRows
<1>5. QED
  BY <1>3, <1>4 DEF Out, EndsAll


(* The steps that write, as what they change.  Of an edit:                 *)
Saves(r) ==
  LET q == flight[r] IN
  /\ q.kind = "edit" /\ Writes(q.user, q.seen.exists, q.seen.role, q.seen.active)
  /\ account'[q.user] = q.seen
  /\ Moves(r, {"role"}) /\ (flight'[r].kind = "role" => q.role \in Roles)
  /\ UNCHANGED <<links, chainVars, teamVars, portalVars>>

Keeps(r) ==
  /\ flight[r].kind = "role" /\ Moves(r, {}) /\ UNCHANGED account
  /\ UNCHANGED <<links, chainVars, teamVars, portalVars>>

Changes(r) ==
  LET q == flight[r]
      u == q.user
  IN  /\ q.kind = "role"
      /\ q.role = q.seen.role \/ ~LastActiveOwner(q.seen, u)
      /\ Writes(u, account[u].exists, q.role, account[u].active)
      /\ Moves(r, {"assigned"}) /\ (flight'[r].kind = "assigned" \/ q.role = "technician")
      /\ UNCHANGED <<links, chainVars, teamVars, portalVars>>

Drops(r) ==
  /\ flight[r].kind = "assigned" /\ assigned' = assigned \ {flight[r].user} /\ Moves(r, {})
  /\ UNCHANGED <<account, links, chainVars, invitations, overlap, portalVars>>

(* ... of a deactivation:                                                  *)
Counts(r) ==
  LET q == flight[r] IN
  /\ q.kind = "deactivate" /\ Moves(r, {"inactive"})
  /\ flight'[r].kind = "inactive" => q.seen.role # "owner" \/ \E v \in Owners : v # q.user
  /\ UNCHANGED <<account, links, chainVars, teamVars, portalVars>>

Closes(r) ==
  LET u == flight[r].user IN
  /\ flight[r].kind = "inactive"
  /\ Writes(u, account[u].exists, account[u].role, FALSE)
  /\ Moves(r, {"revoke"}) /\ flight'[r].kind = "revoke"
  /\ UNCHANGED <<links, chainVars, teamVars, portalVars>>

SignsOut(r) ==
  /\ flight[r].kind = "revoke" /\ Out(flight[r].user) /\ Moves(r, {})
  /\ UNCHANGED <<account, links, teamVars, portalVars>>

Assigns(r) ==
  /\ flight[r].kind = "customers" /\ Moves(r, {})
  /\ assigned' \subseteq assigned \cup {flight[r].user}
  /\ UNCHANGED <<account, links, chainVars, invitations, overlap, portalVars>>

(* ... of an invitation:                                                   *)
Sends(r) ==
  LET n == Len(invitations) + 1 IN
  /\ flight[r].kind = "invite" /\ Moves(r, {})
  /\ invitations' \in Seq(Invitation) /\ Len(invitations') = n
  /\ \A k \in DOMAIN invitations : invitations'[k] = invitations[k]
  /\ invitations'[n].state = "pending"
  /\ UNCHANGED <<account, links, chainVars, assigned, overlap, portalVars>>

Marks ==
  /\ invitations' \in Seq(Invitation) /\ DOMAIN invitations' = DOMAIN invitations
  /\ \A k \in DOMAIN invitations :
       /\ invitations'[k].user = invitations[k].user
       /\ invitations'[k].state = "accepted" => invitations[k].state = "accepted"
  /\ UNCHANGED <<account, links, flight, chainVars, assigned, overlap, portalVars>>

Joins(r) ==
  LET u == flight[r].user
      n == flight[r].row
  IN  /\ flight[r].kind = "accept" /\ ~account[u].exists
      /\ \E role \in Roles : Writes(u, TRUE, role, TRUE)
      /\ n \in DOMAIN invitations
      /\ invitations' \in Seq(Invitation) /\ DOMAIN invitations' = DOMAIN invitations
      /\ \A k \in DOMAIN invitations :
           /\ invitations'[k].user = invitations[k].user
           /\ k # n => invitations'[k] = invitations[k]
      /\ Moves(r, {"join"}) /\ flight'[r].kind = "join"
      /\ UNCHANGED <<links, chainVars, assigned, overlap, portalVars>>

(* ... of a seat at the customer's:                                        *)
Offers(r) ==
  LET u == flight[r].user IN
  /\ flight[r].kind = "invite_contact" /\ Moves(r, {})
  /\ Writes(u, TRUE, account[u].role, account[u].active)
  /\ seats' \in Seq(Link)
  /\ \A k \in DOMAIN seats' :
       \/ k \in DOMAIN seats /\ seats'[k].user = seats[k].user
       \/ seats'[k].user = u
  /\ \A k \in DOMAIN seats : k \in DOMAIN seats' /\ seats'[k].user = seats[k].user
  /\ UNCHANGED <<links, chainVars, teamVars, gone>>

Takes(r) ==
  LET u == flight[r].user IN
  /\ flight[r].kind = "seat" /\ Moves(r, {"join"}) /\ Free(u)
  /\ Writes(u, account[u].exists, account[u].role, TRUE)
  /\ seats' \in Seq(Link) /\ DOMAIN seats' = DOMAIN seats
  /\ \A k \in DOMAIN seats : seats'[k].user = seats[k].user
  /\ UNCHANGED <<links, chainVars, teamVars, gone>>

(* ... of its end:                                                         *)
Shuts(u) ==
  /\ Contact(u) /\ Out(u)
  /\ Writes(u, account[u].exists, account[u].role, FALSE)
  /\ UNCHANGED <<flight, links, teamVars, portalVars>>

Ejects(r) ==
  LET u == flight[r].user IN
  /\ flight[r].kind = "contact" /\ Out(u) /\ Moves(r, {})
  /\ Writes(u, account[u].exists, account[u].role, FALSE)
  /\ UNCHANGED <<links, teamVars, portalVars>>

(* ... and the requests that find there is nothing left to do.             *)
GivesUp(r) ==
  /\ flight[r].kind \in {"accept", "seat", "contact", "invite_contact"} /\ Moves(r, {})
  /\ flight[r].kind = "contact" => ~Active(flight[r].user)
  /\ UNCHANGED <<account, links, chainVars, teamVars, portalVars>>

AccountsStep ==
  \/ Served
  \/ \E r \in Requests :
       \/ \E q : Begun(r, q)
       \/ Saves(r) \/ Keeps(r) \/ Changes(r) \/ Drops(r)
       \/ Counts(r) \/ Closes(r) \/ SignsOut(r) \/ Assigns(r)
       \/ Sends(r) \/ Joins(r) \/ Offers(r) \/ Takes(r) \/ Ejects(r) \/ GivesUp(r)
  \/ Marks
  \/ \E u \in Users : Shuts(u)

LEMMA EditsWrite ==
  ASSUME AccountsBase, UNCHANGED portalVars, NEW r \in Requests,
         UserSaved(r) \/ RoleChanged(r) \/ AssignmentsDropped(r) \/ CustomersAssigned(r)
  PROVE  Saves(r) \/ Keeps(r) \/ Changes(r) \/ Drops(r) \/ Assigns(r)
<1> DEFINE q == flight[r]
<1>1. Tables /\ q \in Flight /\ q.user \in Users /\ q.seen \in Account
  BY DEF AccountsBase, Tables, Flight
<1>2. "role" \in Kinds /\ "assigned" \in Kinds
  BY DEF Kinds, Existing
<1>3. CASE UserSaved(r)
  <2>1. Writes(q.user, q.seen.exists, q.seen.role, q.seen.active) /\ account'[q.user] = q.seen
    BY <1>1, <1>3, WritesRow DEF UserSaved, Tables
  <2>2. CASE q.role \in Roles
    <3>1. Moves(r, {"role"})
      BY <1>1, <1>2, <1>3, <2>2, BecomesMoves DEF UserSaved
    <3>2. QED
      BY <1>3, <2>1, <2>2, <3>1 DEF UserSaved, Under, Saves
  <2>3. CASE q.role \notin Roles
    <3>1. Moves(r, {}) /\ flight'[r] = Idle
      BY <1>1, <1>3, <2>3, DoneMoves DEF UserSaved
    <3>2. Moves(r, {"role"}) /\ flight'[r].kind # "role"
      BY <3>1, IdleKind DEF Moves
    <3>3. QED
      BY <1>3, <2>1, <3>2 DEF UserSaved, Under, Saves
  <2>4. QED
    BY <2>2, <2>3
<1>4. CASE RoleChanged(r)
  <2>1. CASE q.role # q.seen.role /\ LastActiveOwner(q.seen, q.user)
    BY <1>1, <1>4, <2>1, DoneMoves DEF RoleChanged, Under, Keeps
  <2>2. CASE ~(q.role # q.seen.role /\ LastActiveOwner(q.seen, q.user))
    <3>1. account' = [account EXCEPT ![q.user].role = q.role]
      BY <1>4, <2>2 DEF RoleChanged
    <3>2. q.role \in Roles
      BY <1>4 DEF AccountsBase, FlightsInv, Fine, RoleChanged, Under
    <3>3. Writes(q.user, account[q.user].exists, q.role, account[q.user].active)
      BY <1>1, <3>1, <3>2 DEF Tables, Writes, Account
    <3>4. Moves(r, {"assigned"}) /\ (flight'[r].kind = "assigned" \/ q.role = "technician")
      <4>1. CASE q.role = "technician"
        <5>1. Done(r)
          BY <1>4, <2>2, <4>1 DEF RoleChanged
        <5>2. QED
          BY <1>1, <4>1, <5>1, DoneMoves DEF Moves
      <4>2. CASE q.role # "technician"
        <5>1. Becomes(r, "assigned")
          BY <1>4, <2>2, <4>2 DEF RoleChanged
        <5>2. QED
          BY <1>1, <1>2, <5>1, BecomesMoves
      <4>3. QED
        BY <4>1, <4>2
    <3>5. QED
      BY <1>4, <2>2, <3>3, <3>4 DEF RoleChanged, Under, Changes
  <2>3. QED
    BY <2>1, <2>2
<1>5. CASE AssignmentsDropped(r)
  BY <1>1, <1>5, DoneMoves DEF AssignmentsDropped, Under, Drops
<1>6. CASE CustomersAssigned(r)
  BY <1>1, <1>6, DoneMoves DEF CustomersAssigned, Under, Assigns
<1>7. QED
  BY <1>3, <1>4, <1>5, <1>6

LEMMA DeactivationsWrite ==
  ASSUME AccountsBase, UNCHANGED portalVars, NEW r \in Requests,
         OwnersCounted(r) \/ Deactivated(r) \/ LeaverSignedOut(r)
  PROVE  Counts(r) \/ Closes(r) \/ SignsOut(r)
<1> DEFINE q == flight[r]
<1>1. Tables /\ ChainsInv /\ q \in Flight /\ q.user \in Users
  BY DEF AccountsBase, Tables, Flight
<1>2. "inactive" \in Kinds /\ "revoke" \in Kinds
  BY DEF Kinds, Existing
<1>3. CASE OwnersCounted(r)
  <2>1. CASE q.seen.role = "owner" /\ Owners \ {q.user} = {}
    <3>1. Moves(r, {}) /\ flight'[r] = Idle
      BY <1>1, <1>3, <2>1, DoneMoves DEF OwnersCounted
    <3>2. Moves(r, {"inactive"}) /\ flight'[r].kind # "inactive"
      BY <3>1, IdleKind DEF Moves
    <3>3. QED
      BY <1>3, <3>2 DEF OwnersCounted, Under, Counts
  <2>2. CASE ~(q.seen.role = "owner" /\ Owners \ {q.user} = {})
    <3>1. Moves(r, {"inactive"})
      BY <1>1, <1>2, <1>3, <2>2, BecomesMoves DEF OwnersCounted
    <3>2. q.seen.role # "owner" \/ \E v \in Owners : v # q.user
      BY <2>2
    <3>3. QED
      BY <1>3, <3>1, <3>2 DEF OwnersCounted, Under, Counts
  <2>3. QED
    BY <2>1, <2>2
<1>4. CASE Deactivated(r)
  <2>1. account' = [account EXCEPT ![q.user].active = FALSE] /\ Becomes(r, "revoke")
    BY <1>4 DEF Deactivated
  <2>2. Writes(q.user, account[q.user].exists, account[q.user].role, FALSE)
    BY <1>1, <2>1 DEF Tables, Writes, Account
  <2>3. Moves(r, {"revoke"}) /\ flight'[r].kind = "revoke"
    BY <1>1, <1>2, <2>1, BecomesMoves
  <2>4. QED
    BY <1>4, <2>2, <2>3 DEF Deactivated, Under, Closes
<1>5. CASE LeaverSignedOut(r)
  <2>1. Out(q.user)
    BY <1>1, <1>5, OutOf DEF LeaverSignedOut
  <2>2. QED
    BY <1>1, <1>5, <2>1, DoneMoves DEF LeaverSignedOut, Under, SignsOut
<1>6. QED
  BY <1>3, <1>4, <1>5


LEMMA InvitationsWrite ==
  ASSUME AccountsBase, UNCHANGED portalVars,
         \/ \E r \in Requests : Invited(r) \/ Accepted(r)
         \/ \E k \in DOMAIN invitations : Resend(k) \/ Revoke(k) \/ Lapse(k)
  PROVE  Marks \/ \E r \in Requests : Sends(r) \/ Joins(r) \/ GivesUp(r)
<1> DEFINE n == Len(invitations)
<1>1. Tables /\ flight \in [Requests -> Flight] /\ invitations \in Seq(Invitation)
  BY DEF AccountsBase, Tables
<1>2. /\ n \in Nat /\ DOMAIN invitations = 1 .. n
      /\ \A k \in DOMAIN invitations : invitations[k] \in Invitation
  BY <1>1, LinkRows
<1>3. ASSUME NEW r \in Requests, Invited(r) PROVE Sends(r)
  <2> DEFINE row == [user |-> flight[r].user, role |-> flight[r].role, state |-> "pending"]
  <2>1. flight[r].kind = "invite" /\ invitations' = Append(invitations, row)
    BY <1>3 DEF Invited, Under
  <2>2. row \in Invitation
    <3>1. flight[r].role \in Roles
      BY <1>1, <2>1 DEF AccountsBase, FlightsInv, Fine
    <3>2. QED
      BY <1>1, <3>1 DEF Invitation, Flight, States
  <2>3. /\ invitations' \in Seq(Invitation) /\ Len(invitations') = n + 1
        /\ \A k \in DOMAIN invitations : invitations'[k] = invitations[k]
        /\ invitations'[n + 1] = row
    BY <1>1, <1>2, <2>1, <2>2, AppendProperties
  <2>4. QED
    BY <1>1, <1>3, <2>1, <2>3, DoneMoves DEF Invited, Sends
<1>4. ASSUME NEW k \in DOMAIN invitations, Resend(k) \/ Revoke(k) \/ Lapse(k) PROVE Marks
  <2>1. PICK state \in {"pending", "deleted", "lapsed"} :
          \E from : InvitationBecomes(k, from, state)
    <3>1. \/ InvitationBecomes(k, {"pending", "lapsed"}, "pending")
          \/ InvitationBecomes(k, States \ {"deleted"}, "deleted")
          \/ InvitationBecomes(k, {"pending"}, "lapsed")
      BY <1>4 DEF Resend, Revoke, Lapse
    <3>2. QED
      BY <3>1
  <2>2. UNCHANGED flight
    BY <1>4 DEF Resend, Revoke, Lapse, AtOnce
  <2>3. /\ invitations' = [invitations EXCEPT ![k].state = state] /\ state \in States
        /\ invitations \in [1 .. n -> Invitation]
    BY <1>1, <1>2, <2>1, LenProperties DEF InvitationBecomes, States
  <2>4. invitations' \in [1 .. n -> Invitation]
    BY <2>3 DEF Invitation
  <2>5. \A l \in 1 .. n : /\ invitations'[l].user = invitations[l].user
                          /\ invitations'[l].state = "accepted" => invitations[l].state = "accepted"
    BY <2>1, <2>3 DEF Invitation
  <2>6. invitations' \in Seq(Invitation) /\ DOMAIN invitations' = 1 .. n
    BY <1>2, <2>4, SeqDef
  <2>7. QED
    BY <1>2, <2>1, <2>2, <2>5, <2>6 DEF InvitationBecomes, Marks
<1>5. ASSUME NEW r \in Requests, Accepted(r) PROVE Joins(r) \/ GivesUp(r)
  <2> DEFINE u == flight[r].user
             k == flight[r].row
             opens == Registrable(u) /\ invitations[k].state # "deleted"
  <2>1. flight[r].kind = "accept" /\ k \in DOMAIN invitations /\ u \in Users
    BY <1>1, <1>5 DEF Accepted, Under, AccountsBase, FlightsInv, Fine, Found, Flight
  <2>2. CASE opens
    <3>1. /\ account' = [account EXCEPT ![u] =
                           [exists |-> TRUE, role |-> invitations[k].role, active |-> TRUE]]
          /\ invitations' = [invitations EXCEPT ![k].state = "accepted"]
          /\ Becomes(r, "join")
      BY <1>5, <2>2 DEF Accepted
    <3>2. invitations[k].role \in Roles
      BY <1>2, <2>1 DEF Invitation
    <3>3. [exists |-> TRUE, role |-> invitations[k].role, active |-> TRUE] \in Account
      BY <3>2 DEF Account
    <3>4. Writes(u, TRUE, invitations[k].role, TRUE)
      BY <1>1, <2>1, <3>1, <3>3 DEF Writes, Tables
    <3>5. Moves(r, {"join"}) /\ flight'[r].kind = "join"
      <4>1. "join" \in Kinds
        BY DEF Kinds, Existing
      <4>2. QED
        BY <1>1, <3>1, <4>1, BecomesMoves
    <3>6. invitations \in [1 .. n -> Invitation] /\ "accepted" \in States
      BY <1>1, <1>2, LenProperties DEF States
    <3>7. invitations' \in [1 .. n -> Invitation]
      BY <3>1, <3>6 DEF Invitation
    <3>8. \A l \in 1 .. n : /\ invitations'[l].user = invitations[l].user
                            /\ l # k => invitations'[l] = invitations[l]
      BY <2>1, <3>1, <3>6 DEF Invitation
    <3>9. invitations' \in Seq(Invitation) /\ DOMAIN invitations' = 1 .. n
      BY <1>2, <3>7, SeqDef
    <3>10. ~account[u].exists
      BY <2>2 DEF Registrable
    <3>11. Joins(r)
      BY <1>2, <1>5, <2>1, <3>2, <3>4, <3>5, <3>8, <3>9, <3>10 DEF Accepted, Joins
    <3>12. QED
      BY <3>11
  <2>3. CASE ~opens
    BY <1>1, <1>5, <2>1, <2>3, DoneMoves DEF Accepted, GivesUp, teamVars
  <2>4. QED
    BY <2>2, <2>3
<1>6. QED
  BY <1>3, <1>4, <1>5

LEMMA SeatsWrite ==
  ASSUME AccountsBase, NEW r \in Requests, ContactInvited(r) \/ SeatTaken(r) \/ AccountsClosed(r)
  PROVE  Offers(r) \/ Takes(r) \/ Ejects(r) \/ GivesUp(r)
<1> DEFINE q == flight[r]
           u == q.user
           n == Len(seats)
<1>1. Tables /\ ChainsInv /\ flight \in [Requests -> Flight] /\ seats \in Seq(Link) /\ u \in Users
  BY DEF AccountsBase, Tables, Flight
<1>2. /\ n \in Nat /\ DOMAIN seats = 1 .. n
      /\ \A k \in DOMAIN seats : seats[k] \in Link
      /\ seats \in [1 .. n -> Link]
  BY <1>1, LinkRows, LenProperties
<1>3. CASE ContactInvited(r)
  <2>1. CASE ~q.seen.exists /\ account[u].exists
    BY <1>1, <1>3, <2>1, DoneMoves DEF ContactInvited, GivesUp, Under, portalVars
  <2>2. CASE ~(~q.seen.exists /\ account[u].exists)
    <3> DEFINE e(k) == IF seats[k].user = u THEN [seats[k] EXCEPT !.used = TRUE] ELSE seats[k]
               retired == [k \in 1 .. n |-> e(k)]
               link == [user |-> u, used |-> FALSE]
    <3>1. /\ account' = [account EXCEPT ![u].exists = TRUE]
          /\ seats' = Append(retired, link)
      BY <1>2, <1>3, <2>2 DEF ContactInvited
    <3>2. \A k \in 1 .. n : e(k) \in Link /\ e(k).user = seats[k].user
      BY <1>2 DEF Link
    <3>3. retired \in [1 .. n -> Link]
      BY <3>2
    <3>4. retired \in Seq(Link)
      BY <1>2, <3>3, SeqDef
    <3>5. Len(retired) = n
      BY <1>2, <3>4, LenProperties
    <3>6. link \in Link
      BY <1>1 DEF Link
    <3>7. \A k \in 1 .. n : retired[k].user = seats[k].user
      BY <3>2
    <3> HIDE DEF retired
    <3>8. /\ seats' \in Seq(Link) /\ Len(seats') = n + 1
          /\ \A k \in 1 .. n : seats'[k].user = seats[k].user
          /\ seats'[n + 1].user = u
      BY <3>1, <3>4, <3>5, <3>6, <3>7, AppendProperties
    <3>9. DOMAIN seats' = 1 .. n + 1
      BY <3>8, LenProperties
    <3>10. /\ \A k \in DOMAIN seats' :
                \/ k \in DOMAIN seats /\ seats'[k].user = seats[k].user
                \/ seats'[k].user = u
           /\ \A k \in DOMAIN seats : k \in DOMAIN seats' /\ seats'[k].user = seats[k].user
      BY <1>2, <3>8, <3>9
    <3>11. Writes(u, TRUE, account[u].role, account[u].active)
      BY <1>1, <3>1 DEF Tables, Writes, Account
    <3>12. Offers(r)
      BY <1>1, <1>3, <3>8, <3>10, <3>11, DoneMoves DEF ContactInvited, Offers, Under
    <3>13. QED
      BY <3>12
  <2>3. QED
    BY <2>1, <2>2
<1>4. CASE SeatTaken(r)
  <2>1. q.kind = "seat" /\ q.row \in DOMAIN seats
    BY <1>4 DEF SeatTaken, Under, AccountsBase, FlightsInv, Fine, Found
  <2>2. CASE Free(u)
    <3>1. /\ account' = [account EXCEPT ![u].active = TRUE]
          /\ seats' = [seats EXCEPT ![q.row].used = TRUE] /\ Becomes(r, "join")
      BY <1>4, <2>2 DEF SeatTaken
    <3>2. Writes(u, account[u].exists, account[u].role, TRUE)
      BY <1>1, <3>1 DEF Tables, Writes, Account
    <3>3. seats' \in [1 .. n -> Link] /\ \A k \in 1 .. n : seats'[k].user = seats[k].user
      BY <1>2, <2>1, <3>1 DEF Link
    <3>4. seats' \in Seq(Link) /\ DOMAIN seats' = 1 .. n
      BY <1>2, <3>3, SeqDef
    <3>5. Moves(r, {"join"})
      <4>1. "join" \in Kinds
        BY DEF Kinds, Existing
      <4>2. QED
        BY <1>1, <3>1, <4>1, BecomesMoves
    <3>6. QED
      BY <1>2, <1>4, <2>1, <2>2, <3>2, <3>3, <3>4, <3>5 DEF SeatTaken, Takes
  <2>3. CASE ~Free(u)
    BY <1>1, <1>4, <2>1, <2>3, DoneMoves DEF SeatTaken, GivesUp, portalVars
  <2>4. QED
    BY <2>2, <2>3
<1>5. CASE AccountsClosed(r)
  <2>1. CASE Active(u)
    <3>1. /\ account' = [account EXCEPT ![u].active = FALSE]
          /\ sessions' = AllEnded(u) /\ EndsAll(u) /\ UNCHANGED <<links, forked, closed>>
      BY <1>5, <2>1 DEF AccountsClosed, Shut
    <3>2. Writes(u, account[u].exists, account[u].role, FALSE)
      BY <1>1, <3>1 DEF Tables, Writes, Account
    <3>3. Out(u)
      BY <1>1, <3>1, OutOf
    <3>4. QED
      BY <1>1, <1>5, <3>1, <3>2, <3>3, DoneMoves DEF AccountsClosed, Ejects, Under
  <2>2. CASE ~Active(u)
    BY <1>1, <1>5, <2>2, DoneMoves DEF AccountsClosed, GivesUp, Under
  <2>3. QED
    BY <2>1, <2>2
<1>6. QED
  BY <1>3, <1>4, <1>5

LEMMA AccountShuts ==
  ASSUME AccountsBase, NEW u \in Users, CloseAccount(u)
  PROVE  Shuts(u)
<1>1. Tables /\ ChainsInv
  BY DEF AccountsBase
<1>2. /\ account' = [account EXCEPT ![u].active = FALSE]
      /\ sessions' = AllEnded(u) /\ EndsAll(u) /\ UNCHANGED <<links, forked, closed>>
  BY DEF CloseAccount, Shut
<1>3. Writes(u, account[u].exists, account[u].role, FALSE)
  BY <1>1, <1>2 DEF Tables, Writes, Account
<1>4. Out(u)
  BY <1>1, <1>2, OutOf
<1>5. QED
  BY <1>2, <1>3, <1>4 DEF CloseAccount, AtOnce, Shuts

(* Every step is one of these.                                             *)
LEMMA EveryStep ==
  ASSUME AccountsBase, AccountsNext
  PROVE  AccountsStep
<1>1. CASE SessionsAction /\ UNCHANGED <<teamVars, portalVars>>
  BY <1>1, SessionsBegin, SessionsServed DEF AccountsStep
<1>2. CASE TeamAction /\ UNCHANGED portalVars
  <2>1. CASE UserViewSet
    <3>1. PICK r \in Requests :
            \/ \E u \in Users : \/ \E role \in Promotable \cup {"as it is"} : EditUser(r, u, role)
                                \/ \E actor \in Users : Deactivate(r, actor, u)
                                \/ AssignCustomers(r, u)
            \/ UserSaved(r) \/ RoleChanged(r) \/ AssignmentsDropped(r)
            \/ OwnersCounted(r) \/ Deactivated(r) \/ LeaverSignedOut(r)
            \/ CustomersAssigned(r)
      BY <2>1 DEF UserViewSet
    <3>2. CASE \E u \in Users : \/ \E role \in Promotable \cup {"as it is"} : EditUser(r, u, role)
                                 \/ \E actor \in Users : Deactivate(r, actor, u)
                                 \/ AssignCustomers(r, u)
      BY <1>2, <3>2, OthersBegin DEF AccountsStep
    <3>3. CASE UserSaved(r) \/ RoleChanged(r) \/ AssignmentsDropped(r) \/ CustomersAssigned(r)
      BY <1>2, <3>3, EditsWrite DEF AccountsStep
    <3>4. CASE OwnersCounted(r) \/ Deactivated(r) \/ LeaverSignedOut(r)
      BY <1>2, <3>4, DeactivationsWrite DEF AccountsStep
    <3>5. QED
      BY <3>1, <3>2, <3>3, <3>4
  <2>2. CASE InvitationViewSet \/ InvitationAcceptView
    <3>1. CASE \E r \in Requests : \/ \E u \in Users, role \in Invitable : Invite(r, u, role)
                                   \/ \E k \in DOMAIN invitations : Accept(r, k)
      BY <1>2, <3>1, OthersBegin DEF AccountsStep
    <3>2. CASE \/ \E r \in Requests : Invited(r) \/ Accepted(r)
               \/ \E k \in DOMAIN invitations : Resend(k) \/ Revoke(k) \/ Lapse(k)
      BY <1>2, <3>2, InvitationsWrite DEF AccountsStep
    <3>3. QED
      BY <2>2, <3>1, <3>2 DEF InvitationViewSet, InvitationAcceptView
  <2>3. QED
    BY <1>2, <2>1, <2>2 DEF TeamAction
<1>3. CASE PortalAction
  <2>1. CASE \E r \in Requests : \/ \E k \in DOMAIN seats : TakeSeat(r, k)
                                 \/ \E u \in Users : InviteContact(r, u) \/ DeleteContact(r, u)
    BY <2>1, OthersBegin DEF AccountsStep
  <2>2. CASE \E r \in Requests : SeatTaken(r) \/ ContactInvited(r) \/ AccountsClosed(r)
    BY <2>2, SeatsWrite DEF AccountsStep
  <2>3. CASE \E u \in Users : CloseAccount(u)
    BY <2>3, AccountShuts DEF AccountsStep
  <2>4. QED
    BY <1>3, <2>1, <2>2, <2>3 DEF PortalAction, PortalAcceptView, PortalInvitationView,
                                  PortalAccountViewSet, CustomerContactViewSet
<1>4. QED
  BY <1>1, <1>2, <1>3, Actions


-----------------------------------------------------------------------------
(* The tables and the requests keep their shape                            *)

(* Accounts and links are never taken away.                                *)
Grows ==
  /\ \A u \in Users : account[u].exists => account'[u].exists
  /\ \A k \in DOMAIN invitations :
       k \in DOMAIN invitations' /\ invitations'[k].user = invitations[k].user
  /\ \A k \in DOMAIN seats : k \in DOMAIN seats' /\ seats'[k].user = seats[k].user

LEMMA InvitationSent ==
  ASSUME Tables, NEW r \in Requests, Sends(r)
  PROVE  \A k \in DOMAIN invitations : k \in DOMAIN invitations'
<1>1. Len(invitations) \in Nat /\ DOMAIN invitations = 1 .. Len(invitations)
  BY LinkRows
<1>2. Len(invitations') = Len(invitations) + 1 /\ DOMAIN invitations' = 1 .. Len(invitations')
  BY LenProperties DEF Sends
<1>3. QED
  BY <1>1, <1>2, Further

LEMMA StepGrows ==
  ASSUME AccountsBase, AccountsStep
  PROVE  Grows
<1>1. Tables /\ (\A r \in Requests : flight[r].user \in Users)
  BY DEF AccountsBase, Tables, Flight
<1>2. ASSUME UNCHANGED <<account, invitations, seats>> PROVE Grows
  BY <1>2 DEF Grows
<1>3. CASE Served
  BY <1>2, <1>3 DEF Served, teamVars, portalVars
<1>4. CASE \E r \in Requests :
             \/ \E q : Begun(r, q)
             \/ Keeps(r) \/ Drops(r) \/ Counts(r) \/ SignsOut(r) \/ Assigns(r) \/ GivesUp(r)
  BY <1>2, <1>4 DEF Begun, Keeps, Drops, Counts, SignsOut, Assigns, GivesUp, teamVars, portalVars
<1>5. ASSUME NEW r \in Requests, Saves(r) PROVE Grows
  <2>1. flight[r].seen.exists
    BY <1>5 DEF AccountsBase, FlightsInv, Fine, Saves
  <2>2. QED
    BY <1>5, <2>1 DEF Grows, Saves, Writes, teamVars, portalVars
<1>6. ASSUME NEW r \in Requests, Changes(r) \/ Closes(r) PROVE Grows
  BY <1>6 DEF Grows, Changes, Closes, Writes, teamVars, portalVars
<1>7. ASSUME NEW r \in Requests, Sends(r) PROVE Grows
  BY <1>1, <1>7, InvitationSent DEF Grows, Sends, portalVars
<1>8. ASSUME NEW r \in Requests, Joins(r) PROVE Grows
  BY <1>8 DEF Grows, Joins, Writes, portalVars
<1>9. ASSUME NEW r \in Requests, Offers(r) \/ Takes(r) PROVE Grows
  BY <1>9 DEF Grows, Offers, Takes, Writes, teamVars
<1>10. ASSUME NEW r \in Requests, Ejects(r) PROVE Grows
  BY <1>10 DEF Grows, Ejects, Writes, teamVars, portalVars
<1>11. CASE Marks
  BY <1>11 DEF Grows, Marks, portalVars
<1>12. ASSUME NEW u \in Users, Shuts(u) PROVE Grows
  BY <1>12 DEF Grows, Shuts, Writes, teamVars, portalVars
<1>13. QED
  BY <1>3, <1>4, <1>5, <1>6, <1>7, <1>8, <1>9, <1>10, <1>11, <1>12 DEF AccountsStep

LEMMA StepChains ==
  ASSUME AccountsBase, AccountsStep
  PROVE  ChainsStep
<1>1. ChainsInv
  BY DEF AccountsBase
<1>2. UNCHANGED chainVars => ChainsStep
  BY <1>1, ChainsAlone
<1>3. CASE Served
  BY <1>3 DEF Served
<1>4. CASE \E r \in Requests :
             \/ \E q : Begun(r, q)
             \/ Saves(r) \/ Keeps(r) \/ Changes(r) \/ Drops(r)
             \/ Counts(r) \/ Closes(r) \/ Assigns(r)
             \/ Sends(r) \/ Joins(r) \/ Offers(r) \/ Takes(r) \/ GivesUp(r)
  <2>1. UNCHANGED chainVars
    BY <1>4 DEF Begun, Saves, Keeps, Changes, Drops, Counts, Closes, Assigns, Sends, Joins,
                Offers, Takes, GivesUp
  <2>2. QED
    BY <1>2, <2>1
<1>5. CASE \E r \in Requests : SignsOut(r) \/ Ejects(r)
  BY <1>5 DEF SignsOut, Ejects, Out
<1>6. CASE Marks
  BY <1>2, <1>6 DEF Marks
<1>7. CASE \E u \in Users : Shuts(u)
  BY <1>7 DEF Shuts, Out
<1>8. QED
  BY <1>3, <1>4, <1>5, <1>6, <1>7 DEF AccountsStep

LEMMA TablesKept ==
  ASSUME AccountsBase, AccountsStep
  PROVE  Tables'
<1>1. Tables /\ flight \in [Requests -> Flight] /\ Idle \in Flight
      /\ (\A r \in Requests : flight[r].user \in Users)
  BY IdleIs DEF AccountsBase, Tables, Flight
<1>2. CASE Served
  <2>1. flight' \in [Requests -> Flight]
    BY <1>1, <1>2 DEF Served, Finished
  <2>2. QED
    BY <1>1, <1>2, <2>1 DEF Tables, Served, teamVars, portalVars
<1>3. ASSUME NEW r \in Requests, NEW q, Begun(r, q) PROVE Tables'
  <2>1. q \in Flight /\ flight' \in [Requests -> Flight]
    BY <1>1, <1>3 DEF Begun
  <2>2. q.user \in Users
    BY <2>1 DEF Flight
  <2>3. gone' \subseteq Users /\ overlap' \in BOOLEAN
    BY <1>1, <1>3, <2>2 DEF Begun, Tables
  <2>4. QED
    BY <1>1, <1>3, <2>1, <2>3 DEF Tables, Begun
<1>4. ASSUME NEW r \in Requests,
             Saves(r) \/ Keeps(r) \/ Changes(r) \/ Counts(r) \/ Closes(r) \/ SignsOut(r)
               \/ Ejects(r) \/ GivesUp(r)
      PROVE  Tables'
  BY <1>1, <1>4 DEF Tables, Saves, Keeps, Changes, Counts, Closes, SignsOut, Ejects, GivesUp,
                    Moves, Writes, teamVars, portalVars
<1>5. ASSUME NEW r \in Requests, Drops(r) \/ Assigns(r) PROVE Tables'
  BY <1>1, <1>5 DEF Tables, Drops, Assigns, Moves, portalVars
<1>6. ASSUME NEW r \in Requests, Sends(r) \/ Joins(r) PROVE Tables'
  BY <1>1, <1>6 DEF Tables, Sends, Joins, Moves, Writes, portalVars
<1>7. ASSUME NEW r \in Requests, Offers(r) \/ Takes(r) PROVE Tables'
  BY <1>1, <1>7 DEF Tables, Offers, Takes, Moves, Writes, teamVars
<1>8. CASE Marks
  BY <1>1, <1>8 DEF Tables, Marks, portalVars
<1>9. ASSUME NEW u \in Users, Shuts(u) PROVE Tables'
  BY <1>1, <1>9 DEF Tables, Shuts, Writes, teamVars, portalVars
<1>10. QED
  BY <1>2, <1>3, <1>4, <1>5, <1>6, <1>7, <1>8, <1>9 DEF AccountsStep


(* What a request found is there for as long as it is under way.           *)
LEMMA FineStays ==
  ASSUME AccountsBase, ChainsStep, Grows, NEW r \in Requests, flight'[r] = flight[r]
  PROVE  Fine(r)'
<1> DEFINE q == flight[r]
<1>1. Fine(r) /\ q.user \in Users
  BY DEF AccountsBase, FlightsInv, Tables, Flight
<1>2. Found(q)'
  <2>1. q.kind \in {"rotate", "password"} =>
          q.row \in DOMAIN sessions' /\ sessions'[q.row].user = q.user
    <3>1. /\ DOMAIN sessions = 1 .. Len(sessions) /\ Len(sessions) \in Nat
          /\ sessions' \in Seq(Row) /\ Len(sessions') \in {Len(sessions), Len(sessions) + 1}
          /\ \A i \in 1 .. Len(sessions) : sessions'[i].user = sessions[i].user
      BY Rows DEF AccountsBase, ChainsStep, SameRow
    <3>2. DOMAIN sessions' = 1 .. Len(sessions')
      BY <3>1, LenProperties
    <3>3. \A i \in DOMAIN sessions : i \in DOMAIN sessions'
      BY <3>1, <3>2, Further
    <3>4. QED
      BY <1>1, <3>1, <3>3 DEF Fine, Found
  <2>2. QED
    BY <1>1, <2>1 DEF Fine, Found, Grows
<1>3. q.ends <= ends'[q.user]
  <2>1. q.ends \in Nat /\ ends[q.user] \in Nat /\ ends'[q.user] \in Nat
    BY <1>1 DEF AccountsBase, ChainsInv, ChainsStep, Tables, Flight
  <2>2. QED
    BY <1>1, <2>1 DEF Fine, ChainsStep
<1>4. QED
  BY <1>1, <1>2, <1>3 DEF Fine, Grows

LEMMA FineIdle ==
  ASSUME ChainsInv', NEW r \in Requests, flight'[r] = Idle
  PROVE  Fine(r)'
<1>1. /\ flight'[r].kind = "idle" /\ flight'[r].ends = 0 /\ flight'[r].user = Watched
  BY IdleIs
<1>2. ends'[Watched] \in Nat
  BY SessionsAssumption DEF ChainsInv
<1>3. QED
  BY <1>1, <1>2 DEF Fine, Found, Existing

LEMMA FineMoved ==
  ASSUME AccountsBase, ChainsStep, NEW r \in Requests, SameRequest(flight[r], flight'[r]),
         flight'[r].kind \in {"role", "assigned", "inactive", "revoke", "join"},
         account'[flight[r].user].exists,
         flight'[r].kind = "role" => flight[r].seen.exists /\ flight[r].role \in Roles
  PROVE  Fine(r)'
<1> DEFINE q == flight[r]
<1>1. Fine(r) /\ q.user \in Users
  BY DEF AccountsBase, FlightsInv, Tables, Flight
<1>2. q.ends \in Nat /\ ends[q.user] \in Nat /\ ends'[q.user] \in Nat
  BY <1>1 DEF AccountsBase, ChainsInv, ChainsStep, Tables, Flight
<1>3. flight'[r].ends <= ends'[flight'[r].user]
  BY <1>1, <1>2 DEF Fine, ChainsStep, SameRequest
<1>4. QED
  BY <1>1, <1>3 DEF Fine, Found, SameRequest

(* r moves, and every other request is as fine as it was.                  *)
LEMMA FineMoves ==
  ASSUME AccountsBase, ChainsStep, Grows, NEW r \in Requests, NEW kinds, Moves(r, kinds),
         kinds \subseteq {"role", "assigned", "inactive", "revoke", "join"},
         flight'[r].kind \in kinds => account'[flight[r].user].exists,
         flight'[r].kind = "role" => flight[r].seen.exists /\ flight[r].role \in Roles
  PROVE  \A s \in Requests : Fine(s)'
<1>1. ChainsInv'
  BY ChainsKept DEF AccountsBase
<1>2. ASSUME NEW s \in Requests, s # r PROVE Fine(s)'
  BY <1>2, FineStays DEF Moves
<1>3. Fine(r)'
  <2>1. CASE flight'[r] = Idle
    BY <1>1, <2>1, FineIdle
  <2>2. CASE flight'[r].kind \in kinds /\ SameRequest(flight[r], flight'[r])
    <3>1. flight'[r].kind \in {"role", "assigned", "inactive", "revoke", "join"}
      BY <2>2
    <3>2. QED
      BY <2>2, <3>1, FineMoved
  <2>3. QED
    BY <2>1, <2>2 DEF Moves
<1>4. QED
  BY <1>2, <1>3

LEMMA FineBegun ==
  ASSUME AccountsBase, NEW r \in Requests, NEW q, Begun(r, q)
  PROVE  \A s \in Requests : Fine(s)'
<1>1. flight \in [Requests -> Flight] /\ q \in Flight /\ q.user \in Users
  BY DEF AccountsBase, Tables, Begun, Flight
<1>2. flight' = [flight EXCEPT ![r] = q]
      /\ UNCHANGED <<account, sessions, ends, invitations, seats>>
  BY DEF Begun, chainVars
<1>3. ASSUME NEW s \in Requests, s # r PROVE Fine(s)'
  <2>1. Fine(s) /\ flight'[s] = flight[s]
    BY <1>1, <1>2, <1>3 DEF AccountsBase, FlightsInv
  <2>2. QED
    BY <1>2, <2>1 DEF Fine, Found
<1>4. Fine(r)'
  <2>1. flight'[r] = q
    BY <1>1, <1>2
  <2>2. Found(q)'
    BY <1>2 DEF Begun, Found
  <2>3. q.ends = ends[q.user] /\ ends[q.user] \in Nat
    BY <1>1 DEF Begun, AccountsBase, ChainsInv
  <2>4. q.kind \in Existing => account[q.user].exists
    BY DEF Begun, BeginKinds, Existing
  <2>5. q.kind \in {"edit", "role"} => q.seen.exists
    BY DEF Begun, BeginKinds
  <2>6. q.kind \in {"role", "invite"} => q.role \in Roles
    BY DEF Begun, BeginKinds
  <2>7. QED
    BY <1>2, <2>1, <2>2, <2>3, <2>4, <2>5, <2>6 DEF Fine
<1>5. QED
  BY <1>3, <1>4

LEMMA FlightsKept ==
  ASSUME AccountsBase, AccountsStep
  PROVE  FlightsInv'
<1>1. ChainsStep /\ Grows /\ ChainsInv'
  BY StepChains, StepGrows, ChainsKept DEF AccountsBase
<1>2. /\ Tables /\ flight \in [Requests -> Flight]
      /\ \A r \in Requests : Fine(r) /\ flight[r].user \in Users
      /\ \A k \in DOMAIN seats : seats[k].user \in Users
  BY LinkRows DEF AccountsBase, Tables, Flight, FlightsInv
<1>3. \A r \in Requests : Fine(r)'
  <2>1. ASSUME UNCHANGED flight PROVE \A r \in Requests : Fine(r)'
    BY <1>1, <2>1, FineStays
  <2>2. CASE Served
    <3>1. CASE UNCHANGED flight
      BY <2>1, <3>1
    <3>2. CASE \E r \in Requests : Finished(r)
      <4>1. PICK r \in Requests : flight' = [flight EXCEPT ![r] = Idle]
        BY <3>2 DEF Finished
      <4>2. flight'[r] = Idle /\ \A s \in Requests : s # r => flight'[s] = flight[s]
        BY <1>2, <4>1
      <4>3. QED
        BY <1>1, <4>2, FineStays, FineIdle
    <3>3. QED
      BY <2>2, <3>1, <3>2 DEF Served
  <2>3. CASE \E r \in Requests : \E q : Begun(r, q)
    BY <2>3, FineBegun
  <2>4. ASSUME NEW r \in Requests,
               \/ Keeps(r) \/ Drops(r) \/ SignsOut(r) \/ Assigns(r)
               \/ Sends(r) \/ Offers(r) \/ Ejects(r) \/ GivesUp(r)
        PROVE  \A s \in Requests : Fine(s)'
    <3>1. Moves(r, {})
      BY <2>4 DEF Keeps, Drops, SignsOut, Assigns, Sends, Offers, Ejects, GivesUp
    <3>2. flight'[r] = Idle /\ \A s \in Requests : s # r => flight'[s] = flight[s]
      BY <3>1 DEF Moves
    <3>3. QED
      BY <1>1, <3>2, FineStays, FineIdle
  <2>5. ASSUME NEW r \in Requests,
               Saves(r) \/ Changes(r) \/ Counts(r) \/ Closes(r) \/ Joins(r) \/ Takes(r)
        PROVE  \A s \in Requests : Fine(s)'
    <3>1. PICK kinds \in {{"role"}, {"assigned"}, {"inactive"}, {"revoke"}, {"join"}} :
            Moves(r, kinds)
      BY <2>5 DEF Saves, Changes, Counts, Closes, Joins, Takes
    <3>2. account'[flight[r].user].exists
      <4>1. CASE Joins(r)
        BY <4>1 DEF Joins, Writes
      <4>2. CASE ~Joins(r)
        <5>1. flight[r].kind \in Existing
          BY <2>5, <4>2 DEF Saves, Changes, Counts, Closes, Takes, Existing
        <5>2. QED
          BY <1>1, <1>2, <5>1 DEF Fine, Grows
      <4>3. QED
        BY <4>1, <4>2
    <3>3. flight'[r].kind = "role" => flight[r].seen.exists /\ flight[r].role \in Roles
      <4>1. CASE Saves(r)
        BY <1>2, <4>1 DEF Fine, Saves
      <4>2. CASE ~Saves(r)
        BY <2>5, <4>2, IdleKind DEF Changes, Counts, Closes, Joins, Takes, Moves
      <4>3. QED
        BY <4>1, <4>2
    <3>4. kinds \subseteq {"role", "assigned", "inactive", "revoke", "join"}
      BY <3>1
    <3>5. QED
      BY <1>1, <3>1, <3>2, <3>3, <3>4, FineMoves
  <2>6. CASE Marks \/ \E u \in Users : Shuts(u)
    BY <2>1, <2>6 DEF Marks, Shuts
  <2>7. QED
    BY <2>2, <2>3, <2>4, <2>5, <2>6 DEF AccountsStep
<1>4. \A k \in DOMAIN seats' : account'[seats'[k].user].exists
  <2>1. CASE UNCHANGED seats
    BY <1>1, <1>2, <2>1 DEF AccountsBase, FlightsInv, Grows
  <2>2. ASSUME NEW r \in Requests, Offers(r) PROVE \A k \in DOMAIN seats' : account'[seats'[k].user].exists
    BY <1>1, <1>2, <2>2 DEF AccountsBase, FlightsInv, Grows, Offers, Writes
  <2>3. ASSUME NEW r \in Requests, Takes(r) PROVE \A k \in DOMAIN seats' : account'[seats'[k].user].exists
    BY <1>1, <1>2, <2>3 DEF AccountsBase, FlightsInv, Grows, Takes
  <2>4. QED
    BY <2>1, <2>2, <2>3 DEF AccountsStep, Served, Begun, Saves, Keeps, Changes, Drops, Counts, Closes,
                            SignsOut, Assigns, Sends, Joins, Ejects, GivesUp, Marks, Shuts, portalVars
<1>5. ASSUME NEW u \in Users, account'[u].active PROVE account'[u].exists
  <2>1. CASE account[u].active
    BY <1>1, <2>1 DEF AccountsBase, FlightsInv, Grows
  <2>2. CASE account[u].exists
    BY <1>1, <2>2 DEF Grows
  <2>3. CASE ~account[u].active /\ ~account[u].exists
    <3>1. CASE UNCHANGED account
      BY <1>5, <2>3, <3>1
    <3>2. ASSUME NEW r \in Requests, Saves(r) \/ Changes(r) \/ Closes(r) \/ Takes(r)
          PROVE  FALSE
      <4>1. account[flight[r].user].exists
        BY <1>2, <3>2 DEF Fine, Existing, Saves, Changes, Closes, Takes
      <4>2. account'[u] = account[u]
        BY <2>3, <3>2, <4>1 DEF Saves, Changes, Closes, Takes, Writes
      <4>3. QED
        BY <1>5, <2>3, <4>2
    <3>3. ASSUME NEW r \in Requests, Joins(r) \/ Offers(r) \/ Ejects(r)
          PROVE  account'[u].exists
      BY <1>5, <2>3, <3>3 DEF Joins, Offers, Ejects, Writes
    <3>4. ASSUME NEW v \in Users, Shuts(v)
          PROVE  account'[u].exists
      BY <1>5, <2>3, <3>4 DEF Shuts, Writes
    <3>5. QED
      BY <3>1, <3>2, <3>3, <3>4
      DEF AccountsStep, Served, Begun, Keeps, Drops, Counts, SignsOut, Assigns, Sends, GivesUp, Marks
  <2>4. QED
    BY <2>1, <2>2, <2>3
<1>6. QED
  BY <1>3, <1>4, <1>5 DEF FlightsInv


(* What a step leaves alone of the requests under way.                     *)
LEMMA StepFlights ==
  ASSUME AccountsBase, AccountsStep
  PROVE  \/ UNCHANGED flight
         \/ \E r \in Requests :
              \/ \E q : Begun(r, q) /\ flight'[r] = q /\ \A s \in Requests : s # r => flight'[s] = flight[s]
              \/ flight'[r] = Idle /\ \A s \in Requests : s # r => flight'[s] = flight[s]
              \/ /\ Saves(r) \/ Changes(r) \/ Counts(r) \/ Closes(r) \/ Joins(r) \/ Takes(r)
                 /\ SameRequest(flight[r], flight'[r])
                 /\ \A s \in Requests : s # r => flight'[s] = flight[s]
                 /\ \/ Saves(r) /\ flight'[r].kind = "role"
                    \/ Changes(r) /\ flight'[r].kind = "assigned"
                    \/ Counts(r) /\ flight'[r].kind = "inactive"
                    \/ Closes(r) /\ flight'[r].kind = "revoke"
                    \/ (Joins(r) \/ Takes(r)) /\ flight'[r].kind = "join"
<1>1. flight \in [Requests -> Flight]
  BY DEF AccountsBase, Tables
<1>2. ASSUME NEW r \in Requests, Moves(r, {})
      PROVE  flight'[r] = Idle /\ \A s \in Requests : s # r => flight'[s] = flight[s]
  BY <1>2 DEF Moves
<1>3. ASSUME NEW r \in Requests, flight' = [flight EXCEPT ![r] = Idle]
      PROVE  flight'[r] = Idle /\ \A s \in Requests : s # r => flight'[s] = flight[s]
  BY <1>1, <1>3
<1>4. CASE Served
  BY <1>3, <1>4 DEF Served, Finished
<1>5. ASSUME NEW r \in Requests, NEW q, Begun(r, q)
      PROVE  flight'[r] = q /\ \A s \in Requests : s # r => flight'[s] = flight[s]
  BY <1>1, <1>5 DEF Begun
<1>6. CASE \E r \in Requests : \E q : Begun(r, q)
  BY <1>5, <1>6
<1>7. CASE \E r \in Requests :
             \/ Keeps(r) \/ Drops(r) \/ SignsOut(r) \/ Assigns(r)
             \/ Sends(r) \/ Offers(r) \/ Ejects(r) \/ GivesUp(r)
  <2>1. PICK r \in Requests : Moves(r, {})
    BY <1>7 DEF Keeps, Drops, SignsOut, Assigns, Sends, Offers, Ejects, GivesUp
  <2>2. QED
    BY <1>2, <2>1
<1>8. ASSUME NEW r \in Requests,
             Saves(r) \/ Changes(r) \/ Counts(r) \/ Closes(r) \/ Joins(r) \/ Takes(r)
      PROVE  /\ \A s \in Requests : s # r => flight'[s] = flight[s]
             /\ \/ flight'[r] = Idle
                \/ /\ SameRequest(flight[r], flight'[r])
                   /\ \/ Saves(r) /\ flight'[r].kind = "role"
                      \/ Changes(r) /\ flight'[r].kind = "assigned"
                      \/ Counts(r) /\ flight'[r].kind = "inactive"
                      \/ Closes(r) /\ flight'[r].kind = "revoke"
                      \/ (Joins(r) \/ Takes(r)) /\ flight'[r].kind = "join"
  <2>1. CASE Saves(r)
    BY <2>1 DEF Saves, Moves
  <2>2. CASE Changes(r)
    BY <2>2 DEF Changes, Moves
  <2>3. CASE Counts(r)
    BY <2>3 DEF Counts, Moves
  <2>4. CASE Closes(r)
    BY <2>4 DEF Closes, Moves
  <2>5. CASE Joins(r)
    BY <2>5 DEF Joins, Moves
  <2>6. CASE Takes(r)
    BY <2>6 DEF Takes, Moves
  <2>7. QED
    BY <1>8, <2>1, <2>2, <2>3, <2>4, <2>5, <2>6
<1>9. CASE \E r \in Requests :
             Saves(r) \/ Changes(r) \/ Counts(r) \/ Closes(r) \/ Joins(r) \/ Takes(r)
  <2>1. PICK r \in Requests :
             Saves(r) \/ Changes(r) \/ Counts(r) \/ Closes(r) \/ Joins(r) \/ Takes(r)
    BY <1>9
  <2>2. /\ \A s \in Requests : s # r => flight'[s] = flight[s]
        /\ \/ flight'[r] = Idle
           \/ /\ SameRequest(flight[r], flight'[r])
              /\ \/ Saves(r) /\ flight'[r].kind = "role"
                 \/ Changes(r) /\ flight'[r].kind = "assigned"
                 \/ Counts(r) /\ flight'[r].kind = "inactive"
                 \/ Closes(r) /\ flight'[r].kind = "revoke"
                 \/ (Joins(r) \/ Takes(r)) /\ flight'[r].kind = "join"
    BY <1>8, <2>1
  <2>3. QED
    BY <2>1, <2>2
<1>10. CASE Marks \/ \E u \in Users : Shuts(u)
  BY <1>10 DEF Marks, Shuts
<1>11. QED
  BY <1>4, <1>6, <1>7, <1>9, <1>10 DEF AccountsStep

LEMMA TeamSideKept ==
  ASSUME AccountsBase, AccountsStep, TeamSide
  PROVE  TeamSide'
<1>1. /\ \A u \in Users : ~Contact(u) /\ account[u] \in Account
      /\ \A r \in Requests : flight[r].user \in Users /\ flight[r].kind \notin PortalKinds /\ Fine(r)
      /\ \A r \in Requests : flight[r].kind \in {"edit", "role"} => flight[r].seen.role \in Roles
      /\ "contact" \notin Roles
  BY DEF AccountsBase, Tables, Flight, TeamSide, FlightsInv, Roles
<1>2. \A r \in Requests : ~Offers(r) /\ ~Takes(r) /\ ~Ejects(r)
  BY <1>1 DEF Offers, Takes, Ejects, PortalKinds
<1>3. \A u \in Users : ~Shuts(u)
  BY <1>1 DEF Shuts
<1>4. ASSUME NEW r \in Requests, NEW q, Begun(r, q)
      PROVE  q.kind \notin PortalKinds /\ q.user \in Users /\ q.seen.role \in Roles
  <2>1. q \in Flight /\ q.user \in Users /\ q.seen = account[q.user]
    BY <1>4 DEF Begun, Flight
  <2>2. ~Contact(q.user) /\ account[q.user].role \in Roles
    BY <1>1, <2>1 DEF Contact, Account
  <2>3. DOMAIN seats = {}
    BY DEF TeamSide
  <2>4. q.kind # "seat"
    BY <1>4, <2>3 DEF Begun, Found
  <2>5. q.kind \notin {"contact", "invite_contact"}
    BY <1>4, <2>2 DEF Begun
  <2>6. QED
    BY <2>1, <2>2, <2>4, <2>5 DEF PortalKinds
<1>5. \A u \in Users : ~Contact(u)'
  <2>1. CASE UNCHANGED account
    BY <1>1, <2>1 DEF Contact
  <2>2. ASSUME NEW r \in Requests, Saves(r) \/ Changes(r) \/ Closes(r) \/ Joins(r)
        PROVE  \A u \in Users : ~Contact(u)'
    <3>1. PICK role, exists, active : role \in Roles /\ Writes(flight[r].user, exists, role, active)
      <4>1. CASE Saves(r)
        BY <1>1, <4>1 DEF Saves
      <4>2. CASE Changes(r)
        BY <1>1, <4>2 DEF Changes, Fine
      <4>3. CASE Closes(r)
        BY <1>1, <4>3 DEF Closes, Account, Contact
      <4>4. CASE Joins(r)
        BY <4>4 DEF Joins
      <4>5. QED
        BY <2>2, <4>1, <4>2, <4>3, <4>4
    <3>2. QED
      BY <1>1, <3>1 DEF Writes, Contact
  <2>3. QED
    BY <1>2, <1>3, <2>1, <2>2 DEF AccountsStep, Served, Begun, Keeps, Drops, Counts, SignsOut,
                                  Assigns, Sends, GivesUp, Marks
<1>6. UNCHANGED <<gone, seats>>
  <2>1. CASE Served
    BY <2>1 DEF Served, portalVars
  <2>2. ASSUME NEW r \in Requests, NEW q, Begun(r, q)
        PROVE  UNCHANGED <<gone, seats>>
    BY <1>4, <2>2 DEF Begun, portalVars, PortalKinds
  <2>3. ASSUME NEW r \in Requests,
               Saves(r) \/ Keeps(r) \/ Changes(r) \/ Drops(r) \/ Counts(r) \/ Closes(r)
        PROVE  UNCHANGED <<gone, seats>>
    BY <2>3 DEF Saves, Keeps, Changes, Drops, Counts, Closes, portalVars
  <2>4. ASSUME NEW r \in Requests, SignsOut(r) \/ Assigns(r) \/ Sends(r) \/ Joins(r) \/ GivesUp(r)
        PROVE  UNCHANGED <<gone, seats>>
    BY <2>4 DEF SignsOut, Assigns, Sends, Joins, GivesUp, portalVars
  <2>5. CASE Marks
    BY <2>5 DEF Marks, portalVars
  <2>6. QED
    BY <1>2, <1>3, <2>1, <2>2, <2>3, <2>4, <2>5 DEF AccountsStep
<1>7. ASSUME NEW s \in Requests
      PROVE  /\ flight'[s].kind \notin PortalKinds
             /\ flight'[s].kind \in {"edit", "role"} => flight'[s].seen.role \in Roles
  <2>1. CASE flight'[s] = flight[s]
    BY <1>1, <2>1
  <2>2. CASE flight'[s] = Idle
    BY <2>2, IdleKind DEF PortalKinds
  <2>3. CASE \E q : Begun(s, q) /\ flight'[s] = q
    BY <1>4, <2>3
  <2>4. CASE /\ SameRequest(flight[s], flight'[s])
             /\ \/ Saves(s) /\ flight'[s].kind = "role"
                \/ flight'[s].kind \in {"assigned", "inactive", "revoke", "join"}
    BY <1>1, <2>4 DEF Saves, SameRequest, PortalKinds
  <2>5. QED
    BY <2>1, <2>2, <2>3, <2>4, StepFlights
<1>8. QED
  BY <1>5, <1>6, <1>7 DEF TeamSide

LEMMA PortalSideKept ==
  ASSUME AccountsBase, AccountsStep, PortalSide
  PROVE  PortalSide'
<1>1. /\ \A u \in Users : Contact(u) /\ account[u] \in Account
      /\ \A r \in Requests : flight[r].user \in Users /\ flight[r].kind \notin TeamKinds
      /\ invitations = <<>> /\ assigned = {}
  BY DEF AccountsBase, Tables, Flight, PortalSide
<1>2. \A r \in Requests : /\ ~Saves(r) /\ ~Keeps(r) /\ ~Changes(r) /\ ~Drops(r) /\ ~Counts(r)
                          /\ ~Closes(r) /\ ~SignsOut(r) /\ ~Assigns(r) /\ ~Sends(r) /\ ~Joins(r)
  BY <1>1 DEF Saves, Keeps, Changes, Drops, Counts, Closes, SignsOut, Assigns, Sends, Joins, TeamKinds
<1>3. \A r \in Requests : \A q : Begun(r, q) => q.kind \notin TeamKinds
  BY <1>1 DEF Begun, BeginKinds, TeamKinds, Found
<1>4. \A u \in Users : Contact(u)'
  <2>1. CASE UNCHANGED account
    BY <1>1, <2>1 DEF Contact
  <2>2. ASSUME NEW r \in Requests, Offers(r) \/ Takes(r) \/ Ejects(r)
        PROVE  \A u \in Users : Contact(u)'
    BY <1>1, <2>2 DEF Offers, Takes, Ejects, Writes, Contact
  <2>3. ASSUME NEW v \in Users, Shuts(v)
        PROVE  \A u \in Users : Contact(u)'
    BY <1>1, <2>3 DEF Shuts, Writes, Contact
  <2>4. QED
    BY <1>2, <2>1, <2>2, <2>3 DEF AccountsStep, Served, Begun, GivesUp, Marks
<1>5. UNCHANGED assigned /\ invitations' = <<>>
  <2>1. CASE Marks
    <3>1. invitations' \in Seq(Invitation) /\ DOMAIN invitations' = {}
      BY <1>1, <2>1 DEF Marks
    <3>2. Len(invitations') = 0
      BY <3>1, LenProperties
    <3>3. QED
      BY <2>1, <3>1, <3>2, EmptySeq DEF Marks
  <2>2. CASE ~Marks
    BY <1>1, <1>2, <2>2 DEF AccountsStep, Served, Begun, Offers, Takes, Shuts, Ejects, GivesUp, teamVars
  <2>3. QED
    BY <2>1, <2>2
<1>6. ASSUME NEW s \in Requests PROVE flight'[s].kind \notin TeamKinds
  <2>1. CASE flight'[s] = flight[s]
    BY <1>1, <2>1
  <2>2. CASE flight'[s] = Idle
    BY <2>2, IdleKind DEF TeamKinds
  <2>3. CASE \E q : Begun(s, q) /\ flight'[s] = q
    BY <1>3, <2>3
  <2>4. CASE flight'[s].kind = "join"
    BY <2>4 DEF TeamKinds
  <2>5. QED
    BY <1>2, <2>1, <2>2, <2>3, <2>4, StepFlights
<1>7. QED
  BY <1>1, <1>4, <1>5, <1>6 DEF PortalSide

LEMMA BaseKept ==
  ASSUME AccountsBase, AccountsStep
  PROVE  AccountsBase'
<1>1. ChainsInv' /\ Tables' /\ FlightsInv'
  BY StepChains, ChainsKept, TablesKept, FlightsKept DEF AccountsBase
<1>2. OneSide'
  BY TeamSideKept, PortalSideKept DEF AccountsBase, OneSide
<1>3. QED
  BY <1>1, <1>2 DEF AccountsBase


-----------------------------------------------------------------------------
(* The inductive invariant                                                 *)

LockoutInv ==
  /\ failures \in 0 .. Absent /\ locked \in BOOLEAN /\ spent \in Nat
  /\ LockedByTheLimit
  /\ failures = Absent => spent = 0

(* Edits one after the other find the row as they read it.                 *)
SerialInv ==
  overlap \/
    /\ \A r, s \in Requests : flight[r].kind \in Editing /\ flight[s].kind \in Editing => r = s
    /\ \A r \in Requests :
         flight[r].kind \in {"edit", "role", "deactivate", "inactive", "customers"} =>
           flight[r].seen = account[flight[r].user]
    /\ \A r \in Requests : flight[r].kind = "customers" => flight[r].seen.role = "technician"
    /\ \A r \in Requests :
         flight[r].kind = "inactive" =>
           flight[r].seen.role # "owner" \/ \E v \in Owners : v # flight[r].user

(* Who is signed in, or about to be by a request no ending came after, has *)
(* an open account, or one whose sessions are about to end.                *)
Leaving(u) == \E r \in Requests : flight[r].kind = "revoke" /\ flight[r].user = u
Stays(u) == Active(u) \/ Leaving(u)

SignedInv ==
  overlap \/
    /\ \A i \in DOMAIN sessions :
         sessions[i].live /\ ~sessions[i].late => Stays(sessions[i].user)
    /\ \A r \in Requests :
         flight[r].kind \in Issuing /\ flight[r].ends = ends[flight[r].user]
           => Stays(flight[r].user)

AssignedInv ==
  /\ \A u \in assigned : account[u].exists
  /\ AssignedAreTechnicians

SeatsInv ==
  /\ SeatsHold
  /\ \A r \in Requests : flight[r].kind = "seat" /\ flight[r].user \in gone => overlap

LinksInv ==
  /\ \A k \in DOMAIN invitations :
       invitations[k].state = "accepted" => account[invitations[k].user].exists
  /\ OneLinkOpensTheAccount

AccountsInv ==
  /\ AccountsBase /\ LockoutInv /\ SerialInv /\ SignedInv /\ AssignedInv
  /\ FirmKeepsAnOwner /\ SeatsInv /\ LinksInv

LEMMA LockoutKept ==
  ASSUME LockoutInv, AccountsNext
  PROVE  LockoutInv'
<1>1. \/ UNCHANGED pairVars
      \/ PairForgotten \/ WindowEnds \/ LockEnds
      \/ \E r \in Requests : Fails(r) \/ FailureCounted(r)
  <2>1. CASE SessionsAction
    BY <2>1 DEF SessionsAction, SignIn, RequestReset, Rotate, ChangePassword, ConfirmReset, SignedIn,
                Rotated, PasswordChanged, ResetMailed, ResetConfirmed, Replayed, Logout, EndSession,
                Ends, RevokeOthers, RevokeAll
  <2>2. CASE TeamAction
    BY <2>2 DEF TeamAction, UserViewSet, InvitationViewSet, InvitationAcceptView, EditUser,
                UserSaved, RoleChanged, AssignmentsDropped, Deactivate, OwnersCounted, Deactivated,
                LeaverSignedOut, AssignCustomers, CustomersAssigned, Invite, Invited, Resend, Revoke,
                Lapse, InvitationBecomes, Accept, Accepted
  <2>3. CASE PortalAction
    BY <2>3 DEF PortalAction, PortalAcceptView, PortalInvitationView, PortalAccountViewSet,
                CustomerContactViewSet, InviteContact, ContactInvited, TakeSeat, SeatTaken,
                CloseAccount, Shut, DeleteContact, AccountsClosed
  <2>4. QED
    BY <2>1, <2>2, <2>3, Actions
<1>2. locked' \in BOOLEAN
  BY <1>1 DEF LockoutInv, pairVars, PairForgotten, WindowEnds, LockEnds, Fails, FailureCounted
<1> DEFINE Counting == /\ failures \in 0 .. MaxAttempts /\ spent \in Nat /\ spent < MaxAttempts
                       /\ failures # MaxAttempts => spent = failures
                       /\ failures = MaxAttempts => spent = 0
<1>3. Counting /\ MaxAttempts \in Nat \ {0}
  BY SessionsAssumption DEF LockoutInv, LockedByTheLimit, Absent
<1>4. Counting'
  <2>1. CASE UNCHANGED pairVars
    BY <1>3, <2>1 DEF pairVars
  <2>2. CASE PairForgotten
    BY <1>3, <2>2 DEF PairForgotten, Absent
  <2>3. CASE WindowEnds \/ LockEnds
    BY <1>3, <2>3 DEF WindowEnds, LockEnds, Absent
  <2>4. ASSUME NEW r \in Requests, Fails(r) PROVE Counting'
    BY <1>3, <2>4 DEF Fails, Absent
  <2>5. ASSUME NEW r \in Requests, FailureCounted(r) PROVE Counting'
    BY <1>3, <2>5 DEF FailureCounted, Counted, Absent
  <2>6. QED
    BY <1>1, <2>1, <2>2, <2>3, <2>4, <2>5
<1>5. QED
  BY <1>2, <1>4 DEF LockoutInv, LockedByTheLimit, Absent

LEMMA OverlapStays ==
  ASSUME AccountsBase, AccountsStep, overlap
  PROVE  overlap'
BY DEF AccountsStep, Served, Begun, Saves, Keeps, Changes, Drops, Counts, Closes, SignsOut, Assigns,
       Sends, Joins, Offers, Takes, Ejects, GivesUp, Marks, Shuts, teamVars

(* Only an edit writes the row of an account there is.                     *)
LEMMA Untouched ==
  ASSUME AccountsBase, AccountsStep, TeamSide,
         \A r \in Requests : ~Saves(r) /\ ~Changes(r) /\ ~Closes(r)
  PROVE  \A u \in Users : account[u].exists => account'[u] = account[u]
<1>1. \A r \in Requests : ~Offers(r) /\ ~Takes(r) /\ ~Ejects(r)
  BY DEF TeamSide, Offers, Takes, Ejects, PortalKinds
<1>2. \A u \in Users : ~Shuts(u)
  BY DEF TeamSide, Shuts
<1>3. ASSUME NEW r \in Requests, Joins(r)
      PROVE  \A u \in Users : account[u].exists => account'[u] = account[u]
  BY <1>3 DEF Joins, Writes
<1>4. CASE UNCHANGED account
  BY <1>4
<1>5. QED
  BY <1>1, <1>2, <1>3, <1>4 DEF AccountsStep, Served, Begun, Keeps, Drops, Counts, SignsOut, Assigns,
                               Sends, GivesUp, Marks

LEMMA SerialKept ==
  ASSUME AccountsBase, AccountsStep, SerialInv
  PROVE  SerialInv'
<1> SUFFICES ASSUME ~overlap' PROVE SerialInv'
  BY DEF SerialInv
<1>1. ~overlap
  BY OverlapStays
<1>2. /\ \A r, s \in Requests : flight[r].kind \in Editing /\ flight[s].kind \in Editing => r = s
      /\ \A r \in Requests :
           flight[r].kind \in {"edit", "role", "deactivate", "inactive", "customers"} =>
             flight[r].seen = account[flight[r].user]
      /\ \A r \in Requests : flight[r].kind = "customers" => flight[r].seen.role = "technician"
      /\ \A r \in Requests :
           flight[r].kind = "inactive" =>
             flight[r].seen.role # "owner" \/ \E v \in Owners : v # flight[r].user
  BY <1>1 DEF SerialInv
<1>3. \A r \in Requests : flight[r].user \in Users /\ Fine(r)
  BY DEF AccountsBase, Tables, Flight, FlightsInv
<1>4. \A r, s \in Requests : flight'[r].kind \in Editing /\ flight'[s].kind \in Editing => r = s
  <2>1. CASE UNCHANGED flight
    BY <1>2, <2>1
  <2>2. ASSUME NEW r \in Requests, \A s \in Requests : s # r => flight'[s] = flight[s],
               flight'[r].kind \in Editing => flight[r].kind \in Editing
        PROVE  \A p, s \in Requests : flight'[p].kind \in Editing /\ flight'[s].kind \in Editing => p = s
    BY <1>2, <2>2
  <2>3. ASSUME NEW r \in Requests, NEW q, Begun(r, q), flight'[r] = q,
               \A s \in Requests : s # r => flight'[s] = flight[s]
        PROVE  \A p, s \in Requests : flight'[p].kind \in Editing /\ flight'[s].kind \in Editing => p = s
    <3>1. q.kind \in Editing => ~EditUnderWay
      BY <2>3 DEF Begun
    <3>2. CASE q.kind \in Editing
      BY <2>3, <3>1, <3>2 DEF EditUnderWay
    <3>3. CASE q.kind \notin Editing
      BY <2>2, <2>3, <3>3
    <3>4. QED
      BY <3>2, <3>3
  <2>4. ASSUME NEW r \in Requests, flight'[r] = Idle,
               \A s \in Requests : s # r => flight'[s] = flight[s]
        PROVE  \A p, s \in Requests : flight'[p].kind \in Editing /\ flight'[s].kind \in Editing => p = s
    BY <2>2, <2>4, IdleKind DEF Editing
  <2>5. ASSUME NEW r \in Requests, \A s \in Requests : s # r => flight'[s] = flight[s],
               Saves(r) \/ Changes(r) \/ Counts(r) \/ Closes(r) \/ flight'[r].kind = "join"
        PROVE  \A p, s \in Requests : flight'[p].kind \in Editing /\ flight'[s].kind \in Editing => p = s
    BY <2>2, <2>5 DEF Editing, Saves, Changes, Counts, Closes
  <2>6. QED
    BY <2>1, <2>3, <2>4, <2>5, StepFlights
<1>5. CASE PortalSide
  <2>1. \A r \in Requests : flight'[r].kind \notin TeamKinds
    BY <1>5, PortalSideKept DEF PortalSide
  <2>2. QED
    BY <1>4, <2>1 DEF SerialInv, TeamKinds
<1>6. CASE TeamSide
  <2>1. ASSUME NEW s \in Requests, flight'[s] = flight[s], flight[s].kind \in Editing
        PROVE  \A u \in Users : account[u].exists => account'[u] = account[u]
    <3>1. CASE UNCHANGED account
      BY <3>1
    <3>2. CASE ~UNCHANGED account
      <4>1. ASSUME NEW r \in Requests, Saves(r) \/ Changes(r) \/ Closes(r) PROVE FALSE
        <5>1. r = s
          BY <1>2, <2>1, <4>1 DEF Saves, Changes, Closes, Editing
        <5>2. flight'[r].kind # flight[r].kind
          BY <4>1, IdleKind DEF Saves, Changes, Closes, Moves
        <5>3. QED
          BY <2>1, <5>1, <5>2
      <4>2. QED
        BY <1>6, <4>1, Untouched
    <3>3. QED
      BY <3>1, <3>2
  <2>2. ASSUME NEW s \in Requests, flight'[s] = flight[s], flight[s].kind \in Editing \cap Existing
        PROVE  /\ account'[flight[s].user] = account[flight[s].user]
               /\ Owners \subseteq Owners'
    BY <1>3, <2>1, <2>2 DEF Fine, Owners, Active
  <2>3. ASSUME NEW s \in Requests,
               flight'[s].kind \in {"edit", "role", "deactivate", "inactive", "customers"}
        PROVE  /\ flight'[s].seen = account'[flight'[s].user]
               /\ flight'[s].kind = "customers" => flight'[s].seen.role = "technician"
               /\ flight'[s].kind = "inactive" =>
                    flight'[s].seen.role # "owner" \/ \E v \in Owners' : v # flight'[s].user
    <3>1. CASE flight'[s] = flight[s]
      <4>1. flight[s].kind \in Editing \cap Existing
        BY <2>3, <3>1 DEF Editing, Existing
      <4>2. QED
        BY <1>2, <2>2, <2>3, <3>1, <4>1
    <3>2. CASE flight'[s] = Idle
      BY <2>3, <3>2, IdleKind
    <3>3. CASE \E q : Begun(s, q) /\ flight'[s] = q
      BY <2>3, <3>3 DEF Begun, BeginKinds
    <3>4. CASE SameRequest(flight[s], flight'[s]) /\ Saves(s) /\ flight'[s].kind = "role"
      BY <3>4 DEF Saves, SameRequest
    <3>5. CASE SameRequest(flight[s], flight'[s]) /\ Counts(s) /\ flight'[s].kind = "inactive"
      <4>1. Owners' = Owners /\ UNCHANGED account
        BY <3>5 DEF Counts, Owners, Active
      <4>2. flight[s].seen = account[flight[s].user]
        BY <1>2, <3>5 DEF Counts
      <4>3. QED
        BY <3>5, <4>1, <4>2 DEF Counts, SameRequest
    <3>6. QED
      BY <2>3, <3>1, <3>2, <3>3, <3>4, <3>5, StepFlights
  <2>4. QED
    BY <1>4, <2>3 DEF SerialInv
<1>7. QED
  BY <1>5, <1>6 DEF AccountsBase, OneSide


(* Whoever stays goes on staying, unless signed out everywhere.            *)
LEMMA StaysServed ==
  ASSUME AccountsBase, Served, NEW u \in Users, Stays(u)
  PROVE  Stays(u)'
<1>1. flight \in [Requests -> Flight]
  BY DEF AccountsBase, Tables
<1>2. UNCHANGED account
  BY DEF Served
<1>3. ASSUME NEW r \in Requests, flight[r].kind = "revoke" PROVE flight'[r] = flight[r]
  <2>1. CASE UNCHANGED flight
    BY <2>1
  <2>2. ASSUME NEW p \in Requests, Finished(p) PROVE flight'[r] = flight[r]
    BY <1>1, <1>3, <2>2 DEF Finished, Issuing
  <2>3. QED
    BY <2>1, <2>2 DEF Served
<1>4. QED
  BY <1>2, <1>3 DEF Stays, Leaving, Active

LEMMA StaysOrOut ==
  ASSUME AccountsBase, AccountsStep, SerialInv, ~overlap, NEW u \in Users, Stays(u)
  PROVE  Stays(u)' \/ ends'[u] # ends[u]
<1>1. /\ flight \in [Requests -> Flight]
      /\ \A r \in Requests : flight[r].user \in Users /\ Fine(r)
      /\ ends \in [Users -> Nat]
  BY DEF AccountsBase, Tables, Flight, FlightsInv, ChainsInv
<1>2. ASSUME NEW v \in Users, Out(v) PROVE ends'[v] # ends[v]
  BY <1>1, <1>2 DEF Out
<1>3. CASE Active(u)
  <2>1. CASE UNCHANGED account
    BY <1>3, <2>1 DEF Stays, Active
  <2>2. ASSUME NEW r \in Requests, Saves(r) PROVE Active(u)'
    <3>1. flight[r].seen = account[flight[r].user]
      BY <2>2 DEF SerialInv, Saves
    <3>2. QED
      BY <1>3, <2>2, <3>1 DEF Saves, Writes, Active
  <2>3. ASSUME NEW r \in Requests, Changes(r) \/ Offers(r) \/ Takes(r) PROVE Active(u)'
    BY <1>3, <2>3 DEF Changes, Offers, Takes, Writes, Active
  <2>4. ASSUME NEW r \in Requests, Joins(r) PROVE Active(u)'
    BY <1>3, <2>4 DEF Joins, Writes, Active
  <2>5. ASSUME NEW r \in Requests, Closes(r) PROVE Stays(u)'
    <3>1. CASE flight[r].user = u
      <4>1. flight'[r].kind = "revoke" /\ flight'[r].user = u
        BY <2>5, <3>1, IdleKind DEF Closes, Moves, SameRequest
      <4>2. QED
        BY <4>1 DEF Stays, Leaving
    <3>2. CASE flight[r].user # u
      BY <1>3, <2>5, <3>2 DEF Closes, Writes, Stays, Active
    <3>3. QED
      BY <3>1, <3>2
  <2>6. ASSUME NEW r \in Requests, Ejects(r) PROVE Active(u)' \/ ends'[u] # ends[u]
    BY <1>2, <1>3, <2>6 DEF Ejects, Writes, Active
  <2>7. ASSUME NEW v \in Users, Shuts(v) PROVE Active(u)' \/ ends'[u] # ends[u]
    BY <1>2, <1>3, <2>7 DEF Shuts, Writes, Active
  <2>8. ASSUME Active(u)' PROVE Stays(u)'
    BY <2>8 DEF Stays
  <2>9. QED
    BY <2>1, <2>2, <2>3, <2>4, <2>5, <2>6, <2>7, <2>8
    DEF AccountsStep, Served, Begun, Keeps, Drops, Counts, SignsOut, Assigns, Sends, GivesUp, Marks
<1>4. CASE Leaving(u)
  <2>1. PICK r \in Requests : flight[r].kind = "revoke" /\ flight[r].user = u
    BY <1>4 DEF Leaving
  <2>2. CASE flight'[r] = flight[r]
    BY <2>1, <2>2 DEF Stays, Leaving
  <2>3. CASE Served
    BY <2>3, StaysServed
  <2>4. CASE SignsOut(r)
    BY <1>2, <2>1, <2>4 DEF SignsOut
  <2>5. ASSUME flight'[r] # flight[r], ~Served PROVE SignsOut(r)
    <3>1. ASSUME NEW p \in Requests,
                 \/ \E q : Begun(p, q)
                 \/ Saves(p) \/ Keeps(p) \/ Changes(p) \/ Drops(p)
                 \/ Counts(p) \/ Closes(p) \/ SignsOut(p) \/ Assigns(p)
                 \/ Sends(p) \/ Joins(p) \/ Offers(p) \/ Takes(p) \/ Ejects(p) \/ GivesUp(p)
          PROVE  SignsOut(r)
      <4>1. CASE \E q : Begun(p, q)
        BY <1>1, <2>1, <2>5, <4>1 DEF Begun
      <4>2. CASE \/ Saves(p) \/ Keeps(p) \/ Changes(p) \/ Drops(p)
                 \/ Counts(p) \/ Closes(p) \/ SignsOut(p) \/ Assigns(p)
                 \/ Sends(p) \/ Joins(p) \/ Offers(p) \/ Takes(p) \/ Ejects(p) \/ GivesUp(p)
        <5>1. PICK kinds : Moves(p, kinds)
          BY <4>2 DEF Saves, Keeps, Changes, Drops, Counts, Closes, SignsOut, Assigns, Sends, Joins,
                      Offers, Takes, Ejects, GivesUp
        <5>2. p = r
          BY <2>5, <5>1 DEF Moves
        <5>3. QED
          BY <2>1, <4>2, <5>2 DEF Saves, Keeps, Changes, Drops, Counts, Closes, SignsOut, Assigns,
                                  Sends, Joins, Offers, Takes, Ejects, GivesUp
      <4>3. QED
        BY <3>1, <4>1, <4>2
    <3>2. QED
      BY <2>5, <3>1 DEF AccountsStep, Marks, Shuts
  <2>6. QED
    BY <2>2, <2>3, <2>4, <2>5
<1>5. QED
  BY <1>3, <1>4 DEF Stays

LEMMA SignedKept ==
  ASSUME AccountsBase, AccountsStep, SerialInv, SignedInv
  PROVE  SignedInv'
<1> SUFFICES ASSUME ~overlap' PROVE SignedInv'
  BY DEF SignedInv
<1>1. ~overlap /\ ChainsStep
  BY OverlapStays, StepChains
<1>2. /\ \A i \in DOMAIN sessions :
           sessions[i].live /\ ~sessions[i].late => Stays(sessions[i].user)
      /\ \A r \in Requests :
           flight[r].kind \in Issuing /\ flight[r].ends = ends[flight[r].user]
             => Stays(flight[r].user)
  BY <1>1 DEF SignedInv
<1>3. /\ \A r \in Requests : flight[r].user \in Users /\ flight[r].ends \in Nat /\ Fine(r)
      /\ \A u \in Users : ends[u] \in Nat /\ ends'[u] \in Nat /\ ends[u] <= ends'[u]
  BY <1>1 DEF AccountsBase, Tables, Flight, FlightsInv, ChainsInv, ChainsStep
<1>4. /\ DOMAIN sessions = 1 .. Len(sessions) /\ Len(sessions) \in Nat
      /\ \A i \in DOMAIN sessions : sessions[i].user \in Users
      /\ DOMAIN sessions' = 1 .. Len(sessions')
      /\ Len(sessions') \in {Len(sessions), Len(sessions) + 1}
  BY <1>1, Rows, LenProperties DEF AccountsBase, ChainsStep
<1>5. ASSUME NEW i \in DOMAIN sessions', sessions'[i].live, ~sessions'[i].late
      PROVE  Stays(sessions[i].user)'
  <2>1. PICK u \in Users : sessions'[i].user = u /\ Stays(u)'
    <3>1. CASE i \in DOMAIN sessions
      <4>1. PICK u \in Users : u = sessions[i].user
        BY <1>4, <3>1
      <4>2. sessions'[i].user = u /\ sessions[i].live /\ ~sessions[i].late
        BY <1>1, <1>4, <1>5, <3>1, <4>1 DEF ChainsStep, SameRow
      <4>3. Stays(u)
        BY <1>2, <3>1, <4>1, <4>2
      <4>4. Stays(u)' \/ ends'[u] # ends[u]
        BY <1>1, <4>3, StaysOrOut
      <4>5. ~(ends'[u] # ends[u])
        BY <1>1, <1>5, <3>1, <4>1 DEF ChainsStep, RowsOf
      <4>6. QED
        BY <4>2, <4>4, <4>5
    <3>2. CASE i \notin DOMAIN sessions
      <4>1. Len(sessions') # Len(sessions) /\ i = Len(sessions')
        BY <1>4, <3>2, Newest
      <4>2. Served
        BY <4>1 DEF AccountsStep, Begun, Saves, Keeps, Changes, Drops, Counts, Closes, SignsOut,
                    Assigns, Sends, Joins, Offers, Takes, Ejects, GivesUp, Marks, Shuts, Out, chainVars
      <4>3. PICK r \in Requests : NewRow(flight[r])
        BY <4>1, <4>2 DEF Served
      <4>4. PICK u \in Users : u = flight[r].user
        BY <1>3
      <4>5. /\ flight[r].kind \in Issuing /\ sessions'[i].user = u
            /\ flight[r].ends = ends[flight[r].user]
        BY <1>5, <4>1, <4>3, <4>4 DEF NewRow
      <4>6. Stays(u)
        BY <1>2, <4>4, <4>5
      <4>7. Stays(u)'
        BY <4>2, <4>6, StaysServed
      <4>8. QED
        BY <4>5, <4>7
    <3>3. QED
      BY <3>1, <3>2
  <2>2. QED
    BY <2>1 DEF Stays, Active, Leaving
<1>6. ASSUME NEW r \in Requests, flight'[r].kind \in Issuing, flight'[r].ends = ends'[flight'[r].user]
      PROVE  Stays(flight[r].user)'
  <2>1. PICK u \in Users : u = flight[r].user
    BY <1>3
  <2>2. CASE flight'[r] = flight[r]
    <3>1. flight[r].ends <= ends[u] /\ ends'[u] = flight[r].ends
      BY <1>3, <1>6, <2>1, <2>2 DEF Fine
    <3>2. flight[r].ends = ends[u] /\ ends'[u] = ends[u]
      BY <1>3, <3>1
    <3>3. Stays(u)
      BY <1>2, <1>6, <2>1, <2>2, <3>2
    <3>4. Stays(u)'
      BY <1>1, <3>2, <3>3, StaysOrOut
    <3>5. QED
      BY <2>1, <2>2, <3>4 DEF Stays, Active, Leaving
  <2>3. CASE flight'[r] = Idle
    BY <1>6, <2>3, IdleKind DEF Issuing
  <2>4. CASE \E q : Begun(r, q) /\ flight'[r] = q
    <3>1. PICK q : Begun(r, q) /\ flight'[r] = q
      BY <2>4
    <3>2. q.kind \in {"sign_in", "rotate", "password"}
      BY <1>6, <3>1 DEF Begun, BeginKinds, Issuing
    <3>3. Active(q.user) /\ UNCHANGED account
      BY <3>1, <3>2 DEF Begun
    <3>4. QED
      BY <3>1, <3>3 DEF Stays, Active
  <2>5. CASE SameRequest(flight[r], flight'[r]) /\ (Joins(r) \/ Takes(r))
    <3>1. Active(u)'
      <4>1. CASE Joins(r)
        BY <2>1, <4>1 DEF Joins, Writes, Active
      <4>2. CASE Takes(r)
        BY <1>3, <2>1, <4>2 DEF Takes, Writes, Active, Fine, Existing
      <4>3. QED
        BY <2>5, <4>1, <4>2
    <3>2. QED
      BY <2>1, <2>5, <3>1 DEF SameRequest, Stays, Active
  <2>6. QED
    <3>1. flight'[r].kind \notin {"role", "assigned", "inactive", "revoke"}
      BY <1>6 DEF Issuing
    <3>2. QED
      BY <2>2, <2>3, <2>4, <2>5, <3>1, StepFlights
<1>7. QED
  BY <1>5, <1>6 DEF SignedInv


LEMMA AssignedKept ==
  ASSUME AccountsBase, AccountsStep, SerialInv, AssignedInv
  PROVE  AssignedInv'
<1>1. Grows /\ assigned \subseteq Users
  BY StepGrows DEF AccountsBase, Tables
<1>2. /\ \A r \in Requests : flight[r].user \in Users /\ Fine(r)
      /\ \A u \in assigned : account[u].exists
  BY DEF AccountsBase, Tables, Flight, FlightsInv, AssignedInv
<1>3. \/ assigned' \subseteq assigned
      \/ \E r \in Requests : Assigns(r)
  BY DEF AccountsStep, Served, Begun, Saves, Keeps, Changes, Drops, Counts, Closes, SignsOut, Sends,
         Joins, Offers, Takes, Ejects, GivesUp, Marks, Shuts, teamVars
<1>4. \A u \in assigned' : account'[u].exists
  <2>1. CASE assigned' \subseteq assigned
    BY <1>1, <1>2, <2>1 DEF Grows
  <2>2. ASSUME NEW r \in Requests, Assigns(r) PROVE \A u \in assigned' : account'[u].exists
    BY <1>1, <1>2, <2>2 DEF Assigns, Fine, Existing, Grows
  <2>3. QED
    BY <1>3, <2>1, <2>2
<1>5. CASE PortalSide
  <2>1. assigned' = {}
    BY <1>5, PortalSideKept DEF PortalSide
  <2>2. QED
    BY <2>1 DEF AssignedInv, AssignedAreTechnicians
<1>6. CASE TeamSide /\ ~overlap'
  <2>1. ~overlap
    BY <1>6, OverlapStays
  <2>2. ASSUME NEW u \in assigned' \ assigned PROVE account'[u].role = "technician"
    <3>1. PICK r \in Requests : Assigns(r) /\ u = flight[r].user
      BY <1>3, <2>2 DEF Assigns
    <3>2. account[u].role = "technician" /\ UNCHANGED account
      BY <2>1, <3>1 DEF SerialInv, Assigns
    <3>3. QED
      BY <3>2
  <2>3. ASSUME NEW u \in assigned, u \in assigned'
        PROVE  \/ account'[u].role = "technician"
               \/ \E r \in Requests : flight'[r].kind = "assigned" /\ flight'[r].user = u
    <3>1. account[u].exists /\ u \in Users
      BY <1>1, <1>2
    <3>2. CASE account[u].role = "technician"
      <4>1. CASE account'[u] = account[u]
        BY <3>2, <4>1
      <4>2. ASSUME NEW r \in Requests, Saves(r) PROVE account'[u] = account[u]
        <5>1. flight[r].seen = account[flight[r].user]
          BY <2>1, <4>2 DEF SerialInv, Saves
        <5>2. QED
          BY <1>2, <3>1, <4>2, <5>1 DEF Saves, Writes
      <4>3. ASSUME NEW r \in Requests, Changes(r), flight[r].user = u
            PROVE  \/ account'[u].role = "technician"
                   \/ flight'[r].kind = "assigned" /\ flight'[r].user = u
        BY <4>3, IdleKind DEF Changes, Writes, Moves, SameRequest
      <4>4. ASSUME NEW r \in Requests, Changes(r), flight[r].user # u
            PROVE  account'[u] = account[u]
        BY <1>2, <3>1, <4>4 DEF Changes, Writes
      <4>5. ASSUME NEW r \in Requests, Closes(r) PROVE account'[u].role = account[u].role
        BY <1>2, <3>1, <4>5 DEF Closes, Writes
      <4>6. QED
        BY <1>6, <3>1, <3>2, <4>1, <4>2, <4>3, <4>4, <4>5, Untouched
    <3>3. ASSUME NEW r \in Requests, flight[r].kind = "assigned", flight[r].user = u
          PROVE  flight'[r].kind = "assigned" /\ flight'[r].user = u
      <4>1. flight'[r] = flight[r] \/ Drops(r)
        <5>1. CASE Served
          BY <3>3, <5>1 DEF AccountsBase, Tables, Served, Finished, Issuing
        <5>2. CASE Marks \/ \E v \in Users : Shuts(v)
          BY <5>2 DEF Marks, Shuts
        <5>3. ASSUME NEW p \in Requests, NEW q, Begun(p, q) PROVE flight'[r] = flight[r]
          BY <3>3, <5>3 DEF Begun, AccountsBase, Tables
        <5>4. ASSUME NEW p \in Requests,
                     \/ Saves(p) \/ Keeps(p) \/ Changes(p) \/ Drops(p)
                     \/ Counts(p) \/ Closes(p) \/ SignsOut(p) \/ Assigns(p)
                     \/ Sends(p) \/ Joins(p) \/ Offers(p) \/ Takes(p) \/ Ejects(p) \/ GivesUp(p)
              PROVE  flight'[r] = flight[r] \/ Drops(r)
          <6>1. PICK kinds : Moves(p, kinds)
            BY <5>4 DEF Saves, Keeps, Changes, Drops, Counts, Closes, SignsOut, Assigns, Sends,
                        Joins, Offers, Takes, Ejects, GivesUp
          <6>2. p = r \/ flight'[r] = flight[r]
            BY <6>1 DEF Moves
          <6>3. QED
            BY <3>3, <5>4, <6>2 DEF Saves, Keeps, Changes, Counts, Closes, SignsOut, Assigns, Sends,
                                    Joins, Offers, Takes, Ejects, GivesUp
        <5>5. QED
          BY <5>1, <5>2, <5>3, <5>4 DEF AccountsStep
      <4>2. ~Drops(r)
        BY <2>3, <3>3 DEF Drops
      <4>3. QED
        BY <3>3, <4>1, <4>2
    <3>4. QED
      BY <2>1, <3>2, <3>3 DEF AssignedInv, AssignedAreTechnicians, Under
  <2>4. ASSUME NEW u \in assigned'
        PROVE  \/ account'[u].role = "technician"
               \/ \E r \in Requests : flight'[r].kind = "assigned" /\ flight'[r].user = u
    BY <2>2, <2>3
  <2>5. QED
    BY <1>4, <2>4 DEF AssignedInv, AssignedAreTechnicians, Under
<1>7. QED
  BY <1>4, <1>5, <1>6 DEF AccountsBase, OneSide, AssignedInv, AssignedAreTechnicians

LEMMA OwnersKept ==
  ASSUME AccountsBase, AccountsStep, SerialInv, FirmKeepsAnOwner
  PROVE  FirmKeepsAnOwner'
<1>1. CASE overlap'
  BY <1>1 DEF FirmKeepsAnOwner
<1>2. CASE PortalSide
  BY <1>2, PortalSideKept DEF PortalSide, FirmKeepsAnOwner
<1>3. CASE TeamSide /\ ~overlap'
  <2>1. ~overlap /\ \A r \in Requests : flight[r].user \in Users
    BY <1>3, OverlapStays DEF AccountsBase, Tables, Flight
  <2>2. CASE Owners = {}
    <3>1. \A u \in Users : Contact(u)
      BY <2>1, <2>2 DEF FirmKeepsAnOwner
    <3>2. Users # {}
      BY SessionsAssumption
    <3>3. QED
      BY <1>3, <3>1, <3>2 DEF TeamSide
  <2>3. CASE Owners # {}
    <3>1. ASSUME NEW u \in Owners, account'[u] = account[u] PROVE Owners' # {}
      BY <3>1 DEF Owners, Active
    <3>2. ASSUME \A r \in Requests : ~Saves(r) /\ ~Changes(r) /\ ~Closes(r) PROVE Owners' # {}
      <4>1. PICK u : u \in Owners
        BY <2>3
      <4>2. account'[u] = account[u]
        BY <1>3, <3>2, <4>1, Untouched DEF Owners, Active
      <4>3. QED
        BY <3>1, <4>1, <4>2
    <3>3. ASSUME NEW r \in Requests, NEW v \in Owners, v # flight[r].user, Saves(r) \/ Changes(r) \/ Closes(r)
          PROVE  Owners' # {}
      <4>1. account'[v] = account[v]
        BY <2>1, <3>3 DEF Saves, Changes, Closes, Writes, Owners
      <4>2. QED
        BY <3>1, <4>1
    <3>4. ASSUME NEW r \in Requests, Saves(r) \/ Changes(r) \/ Closes(r), Owners = {flight[r].user}
          PROVE  Owners' # {}
      <4> DEFINE u == flight[r].user
      <4>1. flight[r].seen = account[u]
        BY <2>1, <3>4 DEF SerialInv, Saves, Changes, Closes
      <4>2. u \in Owners /\ account[u].role = "owner" /\ account[u].active /\ account[u].exists
        BY <3>4 DEF Owners, Active
      <4>3. CASE Saves(r)
        BY <3>1, <4>1, <4>2, <4>3 DEF Saves
      <4>4. CASE Changes(r)
        <5>1. flight[r].role = "owner"
          BY <3>4, <4>1, <4>2, <4>4 DEF Changes, LastActiveOwner
        <5>2. u \in Owners'
          BY <2>1, <4>2, <4>4, <5>1 DEF Changes, Writes, Owners, Active
        <5>3. QED
          BY <5>2
      <4>5. CASE Closes(r)
        BY <2>1, <3>4, <4>1, <4>2, <4>5 DEF SerialInv, Closes
      <4>6. QED
        BY <3>4, <4>3, <4>4, <4>5
    <3>5. \A r \in Requests : Owners = {flight[r].user} \/ \E v \in Owners : v # flight[r].user
      BY <2>3
    <3>6. ASSUME NEW r \in Requests, Saves(r) \/ Changes(r) \/ Closes(r) PROVE Owners' # {}
      <4>1. CASE Owners = {flight[r].user}
        BY <3>4, <3>6, <4>1
      <4>2. CASE \E v \in Owners : v # flight[r].user
        BY <3>3, <3>6, <4>2
      <4>3. QED
        BY <3>5, <4>1, <4>2
    <3>7. CASE \E r \in Requests : Saves(r) \/ Changes(r) \/ Closes(r)
      BY <3>6, <3>7 DEF FirmKeepsAnOwner
    <3>8. CASE \A r \in Requests : ~Saves(r) /\ ~Changes(r) /\ ~Closes(r)
      BY <3>2, <3>8 DEF FirmKeepsAnOwner
    <3>9. QED
      BY <3>7, <3>8
  <2>4. QED
    BY <2>2, <2>3 DEF FirmKeepsAnOwner
<1>4. QED
  BY <1>1, <1>2, <1>3 DEF AccountsBase, OneSide


LEMMA SeatsKept ==
  ASSUME AccountsBase, AccountsStep, SeatsInv
  PROVE  SeatsInv'
<1>1. /\ \A r \in Requests : flight[r].user \in Users /\ Fine(r)
      /\ \A u \in Users : account[u].active => account[u].exists
      /\ gone \subseteq Users
  BY DEF AccountsBase, Tables, Flight, FlightsInv
<1>2. CASE TeamSide
  <2>1. (\A u \in Users : ~Contact(u)') /\ gone' = {}
    BY <1>2, TeamSideKept DEF TeamSide
  <2>2. QED
    BY <2>1 DEF SeatsInv, SeatsHold, Contacts
<1>3. CASE PortalSide
  <2>1. \A u \in Users : Contact(u) /\ Contact(u)'
    BY <1>3, PortalSideKept DEF PortalSide
  <2>2. \A r \in Requests : /\ ~Saves(r) /\ ~Keeps(r) /\ ~Changes(r) /\ ~Drops(r) /\ ~Counts(r)
                            /\ ~Closes(r) /\ ~SignsOut(r) /\ ~Assigns(r) /\ ~Sends(r) /\ ~Joins(r)
    BY <1>3 DEF PortalSide, Saves, Keeps, Changes, Drops, Counts, Closes, SignsOut, Assigns, Sends,
                Joins, TeamKinds
(* Who is active now was, or took the address while nobody had it.         *)
  <2>3. ASSUME \A r \in Requests : ~Takes(r)
        PROVE  \A u \in Users : Active(u)' => Active(u)
    <3>1. CASE UNCHANGED account
      BY <3>1 DEF Active
    <3>2. ASSUME NEW r \in Requests, Offers(r) \/ Ejects(r) PROVE \A u \in Users : Active(u)' => Active(u)
      BY <1>1, <3>2 DEF Offers, Ejects, Writes, Active
    <3>3. ASSUME NEW v \in Users, Shuts(v) PROVE \A u \in Users : Active(u)' => Active(u)
      BY <3>3 DEF Shuts, Writes, Active
    <3>4. QED
      BY <2>2, <2>3, <3>1, <3>2, <3>3 DEF AccountsStep, Served, Begun, GivesUp, Marks
  <2>4. \A u, v \in Users : Active(u) /\ Active(v) => u = v
    BY <2>1 DEF SeatsInv, SeatsHold, Contacts
  <2>5. \A u, v \in Users : Active(u)' /\ Active(v)' => u = v
    <3>1. ASSUME NEW r \in Requests, Takes(r), NEW u \in Users, Active(u)' PROVE u = flight[r].user
      <4>1. CASE u # flight[r].user
        <5>1. Active(u)
          BY <3>1, <4>1 DEF Takes, Writes, Active
        <5>2. u \in Holders(flight[r].user)
          BY <2>1, <4>1, <5>1 DEF Holders, Contacts
        <5>3. QED
          BY <3>1, <5>2 DEF Takes, Free
      <4>2. QED
        BY <4>1
    <3>2. QED
      BY <2>3, <2>4, <3>1
  <2>6. ASSUME ~overlap'
        PROVE  /\ \A u \in gone' : Active(u)' =>
                    \E r \in Requests : flight'[r].kind = "contact" /\ flight'[r].user = u
               /\ \A r \in Requests : flight'[r].kind = "seat" => flight'[r].user \notin gone'
    <3>1. /\ ~overlap
          /\ \A u \in gone : Active(u) => \E r \in Requests : flight[r].kind = "contact" /\ flight[r].user = u
          /\ \A r \in Requests : flight[r].kind = "seat" => flight[r].user \notin gone
      BY <2>6, OverlapStays DEF SeatsInv, SeatsHold, Under
    <3>2. CASE \E r \in Requests : \E q : Begun(r, q) /\ q.kind = "contact"
      <4>1. PICK r, q : r \in Requests /\ Begun(r, q) /\ q.kind = "contact"
        BY <3>2
      <4>2. /\ ~EditUnderWay /\ gone' = gone \cup {q.user} /\ UNCHANGED account
            /\ flight'[r] = q /\ \A s \in Requests : s # r => flight'[s] = flight[s]
        BY <2>6, <4>1 DEF Begun, Editing, AccountsBase, Tables
      <4>3. \A s \in Requests : flight[s].kind \notin {"seat", "contact"}
        BY <4>2 DEF EditUnderWay, Editing
      <4>4. QED
        BY <3>1, <4>1, <4>2, <4>3 DEF Active
    <3>3. CASE ~ \E r \in Requests : \E q : Begun(r, q) /\ q.kind = "contact"
      <4>1. UNCHANGED gone
        BY <2>2, <3>3 DEF AccountsStep, Served, Begun, Offers, Takes, Ejects, GivesUp, Marks, Shuts, portalVars
      <4>2. ASSUME NEW r \in Requests, flight'[r].kind = "seat" PROVE flight'[r].user \notin gone'
        <5>1. CASE flight'[r] = flight[r]
          BY <3>1, <4>1, <4>2, <5>1
        <5>2. CASE flight'[r] = Idle
          BY <4>2, <5>2, IdleKind
        <5>3. CASE \E q : Begun(r, q) /\ flight'[r] = q
          BY <4>1, <4>2, <5>3 DEF Begun
        <5>4. QED
          BY <4>2, <5>1, <5>2, <5>3, StepFlights
      <4>3. ASSUME NEW u \in gone, Active(u)'
            PROVE  \E r \in Requests : flight'[r].kind = "contact" /\ flight'[r].user = u
        <5>1. Active(u)
          <6>1. ASSUME NEW r \in Requests, Takes(r) PROVE flight[r].user # u
            BY <3>1, <4>3, <6>1 DEF Takes
          <6>2. CASE \E r \in Requests : Takes(r)
            BY <1>1, <4>3, <6>1, <6>2 DEF Takes, Writes, Active
          <6>3. QED
            BY <1>1, <2>3, <4>3, <6>2
        <5>2. PICK r \in Requests : flight[r].kind = "contact" /\ flight[r].user = u
          BY <3>1, <4>3, <5>1
        <5>3. flight'[r] = flight[r] \/ Ejects(r) \/ GivesUp(r)
          <6>1. CASE Served
            BY <5>2, <6>1 DEF AccountsBase, Tables, Served, Finished, Issuing
          <6>2. CASE Marks \/ \E v \in Users : Shuts(v)
            BY <6>2 DEF Marks, Shuts
          <6>3. ASSUME NEW p \in Requests, NEW q, Begun(p, q) PROVE flight'[r] = flight[r]
            BY <5>2, <6>3 DEF Begun, AccountsBase, Tables
          <6>4. ASSUME NEW p \in Requests, Offers(p) \/ Takes(p) \/ Ejects(p) \/ GivesUp(p)
                PROVE  flight'[r] = flight[r] \/ Ejects(r) \/ GivesUp(r)
            <7>1. PICK kinds : Moves(p, kinds)
              BY <6>4 DEF Offers, Takes, Ejects, GivesUp
            <7>2. p = r \/ flight'[r] = flight[r]
              BY <7>1 DEF Moves
            <7>3. QED
              BY <5>2, <6>4, <7>2 DEF Offers, Takes
          <6>5. QED
            BY <2>2, <6>1, <6>2, <6>3, <6>4 DEF AccountsStep
        <5>4. ~Ejects(r) /\ ~GivesUp(r)
          BY <1>1, <4>3, <5>1, <5>2 DEF Ejects, GivesUp, Writes, Active
        <5>5. QED
          BY <5>2, <5>3, <5>4
      <4>4. QED
        BY <4>1, <4>2, <4>3
    <3>4. QED
      BY <3>2, <3>3
  <2>7. gone' \subseteq Users
    BY TablesKept DEF Tables
  <2>8. QED
    BY <2>1, <2>5, <2>6, <2>7 DEF SeatsInv, SeatsHold, Contacts, Under
<1>4. QED
  BY <1>2, <1>3 DEF AccountsBase, OneSide

LEMMA LinksKept ==
  ASSUME AccountsBase, AccountsStep, LinksInv
  PROVE  LinksInv'
<1>1. /\ Grows /\ Tables
      /\ \A k \in DOMAIN invitations : invitations[k].user \in Users
      /\ \A r \in Requests : flight[r].user \in Users /\ Fine(r)
  BY StepGrows, LinkRows DEF AccountsBase, FlightsInv, Tables, Flight
<1>2. /\ \A k \in DOMAIN invitations :
           invitations[k].state = "accepted" => account[invitations[k].user].exists
      /\ \A k, l \in DOMAIN invitations :
           invitations[k].state = "accepted" /\ invitations[l].state = "accepted"
             /\ invitations[k].user = invitations[l].user => k = l
  BY DEF LinksInv, OneLinkOpensTheAccount
<1>3. CASE UNCHANGED invitations
  BY <1>1, <1>2, <1>3 DEF LinksInv, OneLinkOpensTheAccount, Grows
<1>4. ASSUME NEW r \in Requests, Sends(r) PROVE LinksInv'
  <2>1. \A k \in DOMAIN invitations' : invitations'[k].state = "accepted" => k \in DOMAIN invitations
    <3>1. /\ Len(invitations) \in Nat /\ DOMAIN invitations = 1 .. Len(invitations)
          /\ Len(invitations') = Len(invitations) + 1 /\ DOMAIN invitations' = 1 .. Len(invitations')
          /\ invitations'[Len(invitations')].state = "pending"
      BY <1>1, <1>4, LinkRows, LenProperties DEF Sends
    <3>2. \A k \in DOMAIN invitations' : k \in DOMAIN invitations \/ k = Len(invitations')
      BY <3>1, Newest
    <3>3. QED
      BY <3>1, <3>2
  <2>2. QED
    BY <1>1, <1>2, <1>4, <2>1 DEF LinksInv, OneLinkOpensTheAccount, Grows, Sends
<1>5. CASE Marks
  BY <1>1, <1>2, <1>5 DEF LinksInv, OneLinkOpensTheAccount, Grows, Marks
<1>6. ASSUME NEW r \in Requests, Joins(r) PROVE LinksInv'
  <2> DEFINE n == flight[r].row
             u == flight[r].user
  <2>1. /\ n \in DOMAIN invitations /\ invitations[n].user = u
        /\ ~account[u].exists /\ account'[u].exists
        /\ DOMAIN invitations' = DOMAIN invitations
        /\ \A k \in DOMAIN invitations :
             /\ invitations'[k].user = invitations[k].user
             /\ k # n => invitations'[k] = invitations[k]
    BY <1>1, <1>6 DEF Joins, Fine, Found, Writes
  <2>2. \A k \in DOMAIN invitations : k # n /\ invitations'[k].state = "accepted" => invitations[k].user # u
    BY <1>2, <2>1
  <2>3. \A k, l \in DOMAIN invitations :
          invitations'[k].state = "accepted" /\ invitations'[l].state = "accepted"
            /\ invitations'[k].user = invitations'[l].user => k = l
    BY <1>2, <2>1, <2>2
  <2>4. \A k \in DOMAIN invitations :
          invitations'[k].state = "accepted" => account'[invitations'[k].user].exists
    BY <1>1, <1>2, <2>1 DEF Grows
  <2>5. QED
    BY <2>1, <2>3, <2>4 DEF LinksInv, OneLinkOpensTheAccount
<1>7. QED
  BY <1>3, <1>4, <1>5, <1>6
  DEF AccountsStep, Served, Begun, Saves, Keeps, Changes, Drops, Counts, Closes, SignsOut, Assigns,
      Offers, Takes, Ejects, GivesUp, Shuts, teamVars


-----------------------------------------------------------------------------
(* The theorems                                                            *)

LEMMA StartRows ==
  ASSUME Init
  PROVE  \A u \in Users : account[u].role \in Roles /\ (account[u].active => account[u].exists)
                         /\ (account[u].exists => account[u].active)
<1>1. ASSUME NEW p \in {Nobody} PROVE p.role \in Roles /\ ~p.exists /\ ~p.active
  BY <1>1 DEF Nobody, Roles
<1>2. ASSUME NEW p \in [exists : {TRUE}, role : Roles, active : {TRUE}]
      PROVE  p.role \in Roles /\ p.exists /\ p.active
  BY <1>2
<1>3. \A u \in Users : account[u] \in {Nobody} \/ account[u] \in [exists : {TRUE}, role : Roles, active : {TRUE}]
  BY DEF Init
<1>4. QED
  BY <1>1, <1>2, <1>3

LEMMA AccountsStart ==
  ASSUME AccountsInit
  PROVE  AccountsInv
<1>1. /\ links = <<>> /\ failures = Absent /\ locked = FALSE /\ spent = 0
      /\ flight = [r \in Requests |-> Idle]
      /\ ends = [u \in Users |-> 0] /\ forked = {} /\ closed = {}
      /\ assigned = {} /\ invitations = <<>> /\ overlap = FALSE /\ gone = {} /\ seats = <<>>
  BY DEF AccountsInit, Init, PortalInit
<1>2. \A r \in Requests : flight[r] = Idle /\ flight[r].kind = "idle" /\ flight[r].ends = 0
                          /\ flight[r].user = Watched
  BY <1>1, IdleIs
<1>3. Watched \in Users /\ MaxRows \in Nat \ {0} /\ MaxAttempts \in Nat \ {0}
  BY SessionsAssumption
<1>4. <<>> \in Seq(Link) /\ <<>> \in Seq(Invitation) /\ <<>> \in Seq(Row)
      /\ Len(<<>>) = 0 /\ DOMAIN <<>> = {}
  OBVIOUS
<1>5. account \in [Users -> Account]
  <2>1. CASE Init
    <3>1. \A p \in {Nobody} \cup [exists : {TRUE}, role : Roles, active : {TRUE}] : p \in Account
      BY IdleIs DEF Account
    <3>2. QED
      BY <2>1, <3>1 DEF Init
  <2>2. CASE PortalInit
    <3>1. [Nobody EXCEPT !.role = "contact"] \in Account
      BY DEF Nobody, Account
    <3>2. QED
      BY <2>2, <3>1 DEF PortalInit
  <2>3. QED
    BY <2>1, <2>2 DEF AccountsInit
<1>6. \A u \in Users : account[u].active => account[u].exists
  <2>1. CASE Init
    BY <2>1, StartRows
  <2>2. CASE PortalInit
    BY <2>2 DEF PortalInit, Nobody
  <2>3. QED
    BY <2>1, <2>2 DEF AccountsInit
<1>7. Tables
  BY <1>1, <1>4, <1>5, IdleIs DEF Tables
<1>8. FlightsInv
  <2>1. \A r \in Requests : Fine(r)
    BY <1>1, <1>2, <1>3 DEF Fine, Found, Existing
  <2>2. QED
    BY <1>1, <1>4, <1>6, <2>1 DEF FlightsInv
<1>9. ChainsInv /\ \/ sessions = <<>>
                    \/ \E u \in Users : /\ sessions = <<[user |-> u, chain |-> 1, live |-> TRUE, late |-> FALSE]>>
                                        /\ account[u].exists /\ account[u].role = "owner" /\ account[u].active
  <2>1. CASE Init
    <3>1. PICK u \in Users :
            /\ account \in [Users -> {Nobody} \cup [exists : {TRUE}, role : Roles, active : {TRUE}]]
            /\ account[u].exists /\ account[u].role = "owner"
            /\ sessions = <<[user |-> u, chain |-> 1, live |-> TRUE, late |-> FALSE]>>
      BY <2>1 DEF Init
    <3> DEFINE row == [user |-> u, chain |-> 1, live |-> TRUE, late |-> FALSE]
    <3>2. row \in Row
      BY <1>3 DEF Row
    <3>3. sessions \in Seq(Row) /\ Len(sessions) = 1 /\ DOMAIN sessions = {1} /\ sessions[1] = row
      BY <3>1, <3>2
    <3>4. ChainsInv
      BY <1>1, <1>3, <3>3 DEF ChainsInv, OneDevicePerChain
    <3>5. account[u].active
      BY <2>1, <3>1, StartRows
    <3>6. QED
      BY <3>1, <3>4, <3>5
  <2>2. CASE PortalInit
    <3>1. sessions = <<>>
      BY <2>2 DEF PortalInit
    <3>2. ChainsInv
      BY <1>1, <1>3, <1>4, <3>1 DEF ChainsInv, OneDevicePerChain
    <3>3. QED
      BY <3>1, <3>2
  <2>3. QED
    BY <2>1, <2>2 DEF AccountsInit
<1>10. OneSide /\ FirmKeepsAnOwner
  <2>1. CASE Init
    <3>1. \A u \in Users : ~Contact(u)
      BY <2>1, StartRows DEF Contact, Roles
    <3>2. TeamSide
      BY <1>1, <1>2, <3>1 DEF TeamSide, PortalKinds
    <3>3. FirmKeepsAnOwner
      BY <2>1, StartRows DEF Init, FirmKeepsAnOwner, Owners, Active
    <3>4. QED
      BY <3>2, <3>3 DEF OneSide
  <2>2. CASE PortalInit
    <3>1. \A u \in Users : Contact(u)
      BY <2>2 DEF PortalInit, Nobody, Contact
    <3>2. QED
      BY <1>1, <1>2, <3>1 DEF OneSide, PortalSide, TeamKinds, FirmKeepsAnOwner
  <2>3. QED
    BY <2>1, <2>2 DEF AccountsInit
<1>11. LockoutInv
  <2>1. failures = MaxAttempts /\ 0 < MaxAttempts /\ failures \in 0 .. MaxAttempts
    BY <1>1, <1>3 DEF Absent
  <2>2. locked \in BOOLEAN /\ spent \in Nat /\ spent = 0
    BY <1>1
  <2>3. QED
    BY <2>1, <2>2 DEF LockoutInv, LockedByTheLimit, Absent
<1>12. SerialInv
  BY <1>2 DEF SerialInv, Editing
<1>13. SignedInv
  BY <1>2, <1>9 DEF SignedInv, Stays, Active, Issuing
<1>14. AssignedInv /\ LinksInv
  BY <1>1, <1>4 DEF AssignedInv, AssignedAreTechnicians, LinksInv, OneLinkOpensTheAccount
<1>15. SeatsInv
  <2>1. CASE Init
    <3>1. Contacts = {}
      BY <2>1, StartRows DEF Contacts, Contact, Roles
    <3>2. QED
      BY <1>1, <3>1 DEF SeatsInv, SeatsHold
  <2>2. CASE PortalInit
    <3>1. \A u \in Users : ~Active(u)
      BY <2>2 DEF PortalInit, Nobody, Active
    <3>2. QED
      BY <1>1, <3>1 DEF SeatsInv, SeatsHold, Contacts
  <2>3. QED
    BY <2>1, <2>2 DEF AccountsInit
<1>16. QED
  BY <1>7, <1>8, <1>9, <1>10, <1>11, <1>12, <1>13, <1>14, <1>15 DEF AccountsInv, AccountsBase

LEMMA Holding ==
  ASSUME AccountsInv
  PROVE  /\ TypeOK /\ LockedByTheLimit /\ OneDevicePerChain
         /\ TeamHolds /\ OneSeatEach
<1>1. AccountsBase /\ ChainsInv /\ Tables /\ LockoutInv
  BY DEF AccountsInv, AccountsBase
<1>2. TypeOK
  <2>1. /\ DOMAIN sessions = 1 .. Len(sessions) /\ Len(sessions) <= MaxRows
        /\ \A i \in DOMAIN sessions : sessions[i] \in Row /\ sessions[i].chain <= i
    BY <1>1, Rows DEF ChainsInv
  <2>2. /\ \A k \in DOMAIN links : links[k] \in [user : Users, used : BOOLEAN]
        /\ \A k \in DOMAIN invitations : invitations[k] \in [user : Users, role : Roles, state : States]
    BY <1>1, LinkRows DEF Link, Invitation
  <2>3. \A r \in Requests : flight[r].user \in Users /\ flight[r].row \in Nat
    BY <1>1 DEF Tables, Flight
  <2>4. failures \in 0 .. Absent /\ locked \in BOOLEAN
    BY <1>1 DEF LockoutInv
  <2>5. account \in [Users -> [exists : BOOLEAN, role : Roles \cup {"contact"}, active : BOOLEAN]]
        /\ assigned \subseteq Users
    BY <1>1 DEF Tables, Account
  <2>6. QED
    BY <2>1, <2>2, <2>3, <2>4, <2>5 DEF TypeOK
<1>3. LeaversAreOut
  <2>1. ASSUME NEW u \in Users, account[u].exists, ~account[u].active, ~overlap,
               \A r \in Requests : ~(Under(r, "revoke") /\ flight[r].user = u),
               NEW i \in RowsOf(u), sessions[i].live
        PROVE  sessions[i].late
    BY <2>1 DEF AccountsInv, SignedInv, Stays, Active, Leaving, Under, RowsOf, ChainsInv
  <2>2. QED
    BY <2>1 DEF LeaversAreOut
<1>4. QED
  BY <1>1, <1>2, <1>3 DEF AccountsInv, LockoutInv, ChainsInv, TeamHolds, AssignedInv, OneSeatEach,
                          LinksInv, SeatsInv

LEMMA AccountsInvKept ==
  ASSUME AccountsInv, [AccountsNext]_accountsVars
  PROVE  AccountsInv'
<1>1. CASE AccountsNext
  <2>1. AccountsBase /\ AccountsStep
    BY <1>1, EveryStep DEF AccountsInv
  <2>2. QED
    BY <1>1, <2>1, BaseKept, LockoutKept, SerialKept, SignedKept, AssignedKept, OwnersKept, SeatsKept,
       LinksKept DEF AccountsInv
<1>2. CASE UNCHANGED accountsVars
  <2>1. UNCHANGED <<account, links, calls, flight, failures, locked, spent, sessions, ends, forked,
                    closed, assigned, invitations, overlap, gone, seats>>
    BY <1>2 DEF accountsVars, vars, sessionVars, teamVars, portalVars, pairVars, chainVars
  <2>2. AccountsBase'
    BY <2>1 DEF AccountsInv, AccountsBase, ChainsInv, OneDevicePerChain, Tables, FlightsInv, Fine, Found,
                OneSide, TeamSide, PortalSide, Contact
  <2>3. LockoutInv' /\ SerialInv' /\ FirmKeepsAnOwner'
    BY <2>1 DEF AccountsInv, LockoutInv, Absent, LockedByTheLimit, SerialInv, FirmKeepsAnOwner, Owners,
                Active, Contact
  <2>4. SignedInv' /\ AssignedInv'
    BY <2>1 DEF AccountsInv, SignedInv, Stays, Leaving, Active, AssignedInv, AssignedAreTechnicians, Under
  <2>5. SeatsInv' /\ LinksInv'
    BY <2>1 DEF AccountsInv, SeatsInv, SeatsHold, Contacts, Contact, Active, Under, LinksInv,
                OneLinkOpensTheAccount
  <2>6. QED
    BY <2>2, <2>3, <2>4, <2>5 DEF AccountsInv
<1>3. QED
  BY <1>1, <1>2

(* A chain that a person ended has no live row, so its old token is no     *)
(* replay; and whose sessions all end has none live left.                  *)
LEMMA SessionSteps ==
  ASSUME AccountsInv, [AccountsNext]_accountsVars
  PROVE  /\ [\A i \in DOMAIN sessions : Replayed(i) => sessions[i].chain \notin closed]_vars
         /\ [\A u \in Users : ends'[u] # ends[u] => \A i \in RowsOf(u) : ~sessions'[i].live]_vars
<1>1. ASSUME NEW i \in DOMAIN sessions, Replayed(i) PROVE sessions[i].chain \notin closed
  BY <1>1 DEF AccountsInv, AccountsBase, ChainsInv, Replayed, Superseded, LiveIn
<1>2. CASE AccountsNext
  <2>1. ChainsStep
    BY <1>2, EveryStep, StepChains DEF AccountsInv
  <2>2. QED
    BY <1>1, <2>1 DEF ChainsStep
<1>3. CASE UNCHANGED accountsVars
  BY <1>1, <1>3 DEF accountsVars
<1>4. QED
  BY <1>2, <1>3

(* A session is a device's until it ends, and then for good, whatever the  *)
(* sign-ins, rotations, replays, sign-outs and password changes            *)
(* (rotate_refresh_token, change_password, record_failure).                *)
THEOREM SessionsAlwaysHold == AccountsSpec => SessionsHold
<1>1. AccountsInit => AccountsInv
  BY AccountsStart
<1>2. AccountsInv /\ [AccountsNext]_accountsVars => AccountsInv'
  BY AccountsInvKept
<1>3. AccountsInv => TypeOK /\ LockedByTheLimit /\ OneDevicePerChain
  BY Holding
<1>4. AccountsInv /\ [AccountsNext]_accountsVars =>
        /\ [\A i \in DOMAIN sessions : Replayed(i) => sessions[i].chain \notin closed]_vars
        /\ [\A u \in Users : ends'[u] # ends[u] => \A i \in RowsOf(u) : ~sessions'[i].live]_vars
  BY SessionSteps
<1>5. QED
  BY <1>1, <1>2, <1>3, <1>4, PTL DEF AccountsSpec, SessionsHold, EndedDeviceIsNoReplay,
                                     EndedSessionsStayEnded

(* A leaver is out, the firm keeps an owner, and only technicians have     *)
(* customers assigned, edits one after the other (deactivate_user,         *)
(* change_role, set_assigned_customers).                                   *)
THEOREM TeamAlwaysHolds == AccountsSpec => []TeamHolds
<1>1. AccountsInit => AccountsInv
  BY AccountsStart
<1>2. AccountsInv /\ [AccountsNext]_accountsVars => AccountsInv'
  BY AccountsInvKept
<1>3. AccountsInv => TeamHolds
  BY Holding
<1>4. QED
  BY <1>1, <1>2, <1>3, PTL DEF AccountsSpec

(* One link opens an account, and one account an address, however the      *)
(* acceptances overlap (accept_invitation, accept, deactivate).            *)
THEOREM OneSeatForEach == AccountsSpec => []OneSeatEach
<1>1. AccountsInit => AccountsInv
  BY AccountsStart
<1>2. AccountsInv /\ [AccountsNext]_accountsVars => AccountsInv'
  BY AccountsInvKept
<1>3. AccountsInv => OneSeatEach
  BY Holding
<1>4. QED
  BY <1>1, <1>2, <1>3, PTL DEF AccountsSpec

-----------------------------------------------------------------------------
(* Notices: the invariant                                                  *)

Subjects ==
  [date : Nat, stands : BOOLEAN, inspection : Nat, red : BOOLEAN, covers : SUBSET Technicians,
   status : {"none", "open", "assigned", "resolved"}, emergency : BOOLEAN,
   by : Person \cup {NoOne}, technician : Technicians \cup {NoOne}, assigned : Nat,
   plan : [PlanRows -> Technicians \cup {NoOne}]]

(* The rows notices are about, and who has been away.                      *)
AboutShape ==
  /\ subject \in Subjects /\ day \in Nat /\ turn \in Nat
  /\ staff \subseteq Person /\ Person \ staff \subseteq away
  /\ topic = "fault" /\ subject.status = "none" => ~subject.emergency

(* The one notice of an event that a reader can have.                      *)
NoticeOf(p, key) == [to |-> p, key |-> key, copy |-> 0]

(* Each row is its reader's only one of its event, and the number of the   *)
(* change that an assignment's event carries is spent.                     *)
NoticesShape ==
  \A n \in DOMAIN notices :
    /\ n = NoticeOf(n.to, n.key) /\ n.to \in Person
    /\ notices[n] \in [of : SUBSET PlanRows, on : Nat, read : BOOLEAN, mails : {0, 1}]
    /\ Kind(n) = "visit_assigned" => n.key[2] \in Nat /\ n.key[2] < turn

(* What notify() is asked, and by a job.                                   *)
Tellable(b) ==
  /\ b = [key |-> b.key, to |-> b.to, of |-> b.of]
  /\ b.to \in Person /\ b.of \subseteq PlanRows
  /\ Kind(b) = "visit_assigned" => b.key[2] = turn
JobTellable(b) ==
  b = [key |-> b.key, to |-> b.to, of |-> {}] /\ b.to \in Person /\ Kind(b) # "visit_assigned"

WorkersShape ==
  /\ raising = [w \in Workers |-> raising[w]]
  /\ \A w \in Workers :
       /\ raising[w] = [at |-> raising[w].at, tell |-> raising[w].tell, made |-> raising[w].made]
       /\ raising[w].at \in {"idle", "inserting", "mailing"}
       /\ raising[w].at = "idle" => raising[w] = IdleWorker
       /\ raising[w].at = "mailing" => raising[w].tell = {}
       /\ \A b \in raising[w].tell : JobTellable(b)

(* A notice whose mail is still to go is on its way once: with the worker  *)
(* who made it, or in the queue.                                           *)
MailsOnce ==
  /\ \A w \in Workers : \A n \in raising[w].made :
       n \in DOMAIN notices /\ notices[n].mails = 0 /\ n \notin queue
  /\ \A w, v \in Workers : w # v => raising[w].made \cap raising[v].made = {}
  /\ \A n \in queue : n \in DOMAIN notices /\ notices[n].mails = 0

(* Of an emergency the office and the customer's technicians have heard as *)
(* such, whoever it was given to since.                                    *)
Alarmed ==
  topic = "fault" /\ subject.status # "none" /\ subject.emergency =>
    /\ \A p \in OfficeAndTechnicians \ ({subject.by, NoOne} \cup away) :
         Holds(p, <<"fault_emergency", 1>>)
    /\ subject.technician \notin {subject.by, NoOne} \cup away =>
         \/ Holds(subject.technician, <<"fault_emergency", 1>>)
         \/ Holds(subject.technician, <<"fault_assigned", subject.assigned>>)

NoticesInv ==
  AboutShape /\ NoticesShape /\ WorkersShape /\ MailsOnce /\ UrgentIsMailed /\ Alarmed

-----------------------------------------------------------------------------
(* Tables of notices                                                       *)

(* Who holds an event's notice holds the one there can be.                 *)
LEMMA HeldNotice ==
  ASSUME NoticesShape, NEW p, NEW key
  PROVE  Holds(p, key) <=> NoticeOf(p, key) \in DOMAIN notices
<1>1. ASSUME Holds(p, key) PROVE NoticeOf(p, key) \in DOMAIN notices
  <2>1. PICK n \in DOMAIN notices : n.to = p /\ n.key = key
    BY <1>1 DEF Holds, Copies
  <2> QED
    BY <2>1 DEF NoticesShape
<1>2. ASSUME NoticeOf(p, key) \in DOMAIN notices PROVE Holds(p, key)
  <2>1. NoticeOf(p, key).to = p /\ NoticeOf(p, key).key = key
    BY DEF NoticeOf
  <2> QED
    BY <1>2, <2>1 DEF Holds, Copies
<1> QED
  BY <1>1, <1>2

(* An event nobody told them of yet gives a reader that notice.            *)
LEMMA FirstCopy ==
  ASSUME NEW b, ~Holds(b.to, b.key)
  PROVE  Id(b) = NoticeOf(b.to, b.key)
<1>1. Cardinality({}) = 0
  BY FS_EmptySet
<1>2. Copies(b.to, b.key) = {}
  BY DEF Holds
<1> QED
  BY <1>1, <1>2 DEF Id, NoticeOf

(* What raising some adds to the table: their rows, and it keeps the rest. *)
LEMMA RaisedRows ==
  ASSUME NEW new, notices' = WithNotices(new), \A b \in new : ~Holds(b.to, b.key)
  PROVE  /\ DOMAIN notices' = DOMAIN notices \cup {NoticeOf(b.to, b.key) : b \in new}
         /\ \A n \in DOMAIN notices : notices'[n] = notices[n]
         /\ \A n \in DOMAIN notices' \ DOMAIN notices :
              \E b \in new : n = NoticeOf(b.to, b.key) /\ notices'[n] = NoticeRow(b)
<1>1. \A b \in new : Id(b) = NoticeOf(b.to, b.key)
  BY FirstCopy
<1>2. DOMAIN notices' = DOMAIN notices \cup {Id(b) : b \in new}
  BY DEF WithNotices
<1>3. ASSUME NEW n \in DOMAIN notices' \ DOMAIN notices
      PROVE  \E b \in new : n = NoticeOf(b.to, b.key) /\ notices'[n] = NoticeRow(b)
  <2> DEFINE c == CHOOSE b \in new : Id(b) = n
  <2>1. c \in new /\ Id(c) = n
    BY <1>2, <1>3
  <2>2. notices'[n] = NoticeRow(c)
    BY <1>2, <1>3 DEF WithNotices
  <2> HIDE DEF c
  <2> QED
    BY <1>1, <2>1, <2>2
<1>4. \A n \in DOMAIN notices : notices'[n] = notices[n]
  BY <1>2 DEF WithNotices
<1>5. DOMAIN notices' = DOMAIN notices \cup {NoticeOf(b.to, b.key) : b \in new}
  BY <1>1, <1>2
<1> QED
  BY <1>3, <1>4, <1>5

(* A table that only grew, or whose rows changed elsewhere.                *)
Kept == \A n \in DOMAIN notices :
          n \in DOMAIN notices' /\ notices'[n].mails = notices[n].mails

(* A step that keeps every notice takes it from nobody.                    *)
LEMMA StillHeld ==
  ASSUME DOMAIN notices \subseteq DOMAIN notices', NEW p, NEW key, Holds(p, key)
  PROVE  Holds(p, key)'
<1>1. PICK n \in DOMAIN notices : n.to = p /\ n.key = key
  BY DEF Holds, Copies
<1>2. n \in DOMAIN notices'
  BY <1>1
<1> QED
  BY <1>1, <1>2 DEF Holds, Copies

(* Raising events keeps the table's shape, and their readers hold them.    *)
LEMMA RaisedShape ==
  ASSUME AboutShape, NoticesShape, NEW new, notices' = WithNotices(new),
         \A b \in new : ~Holds(b.to, b.key) /\ Tellable(b),
         turn' \in {turn, turn + 1}, turn' = turn => \A b \in new : Kind(b) # "visit_assigned"
  PROVE  /\ NoticesShape'
         /\ \A b \in new : Holds(b.to, b.key)'
<1>1. /\ DOMAIN notices' = DOMAIN notices \cup {NoticeOf(b.to, b.key) : b \in new}
      /\ \A n \in DOMAIN notices : notices'[n] = notices[n]
      /\ \A n \in DOMAIN notices' \ DOMAIN notices :
           \E b \in new : n = NoticeOf(b.to, b.key) /\ notices'[n] = NoticeRow(b)
  BY RaisedRows
<1>2. turn \in Nat /\ turn' \in Nat
  BY DEF AboutShape
<1>3. ASSUME NEW n \in DOMAIN notices'
      PROVE  /\ n = NoticeOf(n.to, n.key) /\ n.to \in Person
             /\ notices'[n] \in [of : SUBSET PlanRows, on : Nat, read : BOOLEAN, mails : {0, 1}]
             /\ Kind(n) = "visit_assigned" => n.key[2] \in Nat /\ n.key[2] < turn'
  <2>1. CASE n \in DOMAIN notices
    BY <1>1, <1>2, <2>1 DEF NoticesShape
  <2>2. CASE n \notin DOMAIN notices
    <3>1. PICK b \in new : n = NoticeOf(b.to, b.key) /\ notices'[n] = NoticeRow(b)
      BY <1>1, <1>3, <2>2
    <3>2. n.to = b.to /\ n.key = b.key
      BY <3>1 DEF NoticeOf
    <3>3. Kind(b) = "visit_assigned" => b.key[2] = turn /\ turn' = turn + 1
      BY DEF Tellable
    <3>4. b.to \in Person /\ b.of \subseteq PlanRows /\ day \in Nat
      BY DEF Tellable, AboutShape
    <3>5. NoticeRow(b) \in [of : SUBSET PlanRows, on : Nat, read : BOOLEAN, mails : {0, 1}]
      BY <3>4 DEF NoticeRow
    <3> QED
      BY <1>2, <3>1, <3>2, <3>3, <3>4, <3>5 DEF Kind
  <2> QED
    BY <2>1, <2>2
<1>4. NoticesShape'
  BY <1>3 DEF NoticesShape, Kind
<1>5. ASSUME NEW b \in new PROVE Holds(b.to, b.key)'
  <2>1. NoticeOf(b.to, b.key) \in DOMAIN notices'
    BY <1>1
  <2>2. NoticeOf(b.to, b.key).to = b.to /\ NoticeOf(b.to, b.key).key = b.key
    BY DEF NoticeOf
  <2> QED
    BY <2>1, <2>2 DEF Holds, Copies
<1> QED
  BY <1>4, <1>5

-----------------------------------------------------------------------------
(* What a step leaves as it was                                            *)

(* A fault that did not change is told of as before.                       *)
LEMMA AlarmStays ==
  ASSUME Alarmed, topic' = topic, DOMAIN notices \subseteq DOMAIN notices', away \subseteq away',
         \/ topic # "fault"
         \/ /\ subject'.covers = subject.covers /\ subject'.by = subject.by
            /\ subject'.technician = subject.technician /\ subject'.assigned = subject.assigned
            /\ subject'.status = subject.status /\ subject'.emergency = subject.emergency
  PROVE  Alarmed'
<1>1. SUFFICES ASSUME topic = "fault", subject'.status # "none", subject'.emergency
               PROVE  Alarmed'
  BY DEF Alarmed
<1>2. OfficeAndTechnicians' = OfficeAndTechnicians
  BY <1>1 DEF OfficeAndTechnicians
<1>3. ASSUME NEW p \in OfficeAndTechnicians \ ({subject.by, NoOne} \cup away')
      PROVE  Holds(p, <<"fault_emergency", 1>>)'
  <2>1. Holds(p, <<"fault_emergency", 1>>)
    BY <1>1, <1>3 DEF Alarmed
  <2> QED
    BY <2>1, StillHeld
<1>4. ASSUME subject.technician \notin {subject.by, NoOne} \cup away'
      PROVE  \E n \in DOMAIN notices' :
               /\ n.to = subject.technician
               /\ n.key \in {<<"fault_emergency", 1>>, <<"fault_assigned", subject.assigned>>}
  <2>1. \/ Holds(subject.technician, <<"fault_emergency", 1>>)
        \/ Holds(subject.technician, <<"fault_assigned", subject.assigned>>)
    BY <1>1, <1>4 DEF Alarmed
  <2> QED
    BY <2>1 DEF Holds, Copies
<1>5. subject.technician \notin {subject.by, NoOne} \cup away' =>
        \/ Holds(subject.technician, <<"fault_emergency", 1>>)'
        \/ Holds(subject.technician, <<"fault_assigned", subject.assigned>>)'
  BY <1>1, <1>4 DEF Holds, Copies
<1> QED
  BY <1>1, <1>2, <1>3, <1>5 DEF Alarmed

(* Urgent mail of the notices there were stays on its way when no queue or *)
(* worker lets go of it.                                                   *)
LEMMA UrgentStays ==
  ASSUME UrgentIsMailed,
         \A n \in DOMAIN notices : notices'[n].mails = notices[n].mails,
         \A n \in DOMAIN notices :
           n \in queue \cup unsent \/ UnderWay(n) => n \in queue' \cup unsent' \/ UnderWay(n)',
         \A n \in DOMAIN notices' \ DOMAIN notices :
           Kind(n) \in EMAIL_ALWAYS => UnderWay(n)'
  PROVE  UrgentIsMailed'
<1>1. SUFFICES ASSUME NEW n \in DOMAIN notices', Kind(n) \in EMAIL_ALWAYS
               PROVE  notices'[n].mails = 1 \/ n \in queue' \cup unsent' \/ UnderWay(n)'
  BY DEF UrgentIsMailed, Kind, EMAIL_ALWAYS
<1>2. CASE n \in DOMAIN notices
  BY <1>1, <1>2 DEF UrgentIsMailed
<1>3. CASE n \notin DOMAIN notices
  BY <1>1, <1>3
<1> QED
  BY <1>2, <1>3

-----------------------------------------------------------------------------
(* Raising notices                                                         *)

(* The worker who raises some has their mails to send; nobody else has.    *)
LEMMA RaisedMails ==
  ASSUME NoticesShape, WorkersShape, MailsOnce, NEW w \in Workers, NEW new,
         notices' = WithNotices(new), \A b \in new : ~Holds(b.to, b.key),
         NEW x, raising' = [raising EXCEPT ![w] = x], UNCHANGED mailing,
         x.made \subseteq raising[w].made \cup {NoticeOf(b.to, b.key) : b \in new}
  PROVE  MailsOnce'
<1>1. /\ DOMAIN notices' = DOMAIN notices \cup {NoticeOf(b.to, b.key) : b \in new}
      /\ \A n \in DOMAIN notices : notices'[n] = notices[n]
      /\ \A n \in DOMAIN notices' \ DOMAIN notices :
           \E b \in new : n = NoticeOf(b.to, b.key) /\ notices'[n] = NoticeRow(b)
  BY RaisedRows
<1>2. \A b \in new : NoticeOf(b.to, b.key) \notin DOMAIN notices
  BY HeldNotice
<1>3. ASSUME NEW n \in DOMAIN notices' \ DOMAIN notices
      PROVE  notices'[n].mails = 0 /\ n \notin queue /\ \A v \in Workers : n \notin raising[v].made
  <2>1. PICK b \in new : n = NoticeOf(b.to, b.key) /\ notices'[n] = NoticeRow(b)
    BY <1>1, <1>3
  <2>2. notices'[n].mails = 0
    BY <2>1 DEF NoticeRow
  <2> QED
    BY <1>3, <2>2 DEF MailsOnce
<1>4. /\ raising'[w] = x
      /\ \A v \in Workers \ {w} : raising'[v] = raising[v]
  BY DEF WorkersShape
<1>5. \A v \in Workers : \A n \in raising'[v].made :
        n \in raising[v].made \/ (v = w /\ n \in DOMAIN notices' \ DOMAIN notices)
  BY <1>1, <1>2, <1>4
<1>6. \A v \in Workers : \A n \in raising'[v].made :
        n \in DOMAIN notices' /\ notices'[n].mails = 0 /\ n \notin queue
  BY <1>1, <1>3, <1>5 DEF MailsOnce
<1>7. \A v, u \in Workers : v # u => raising'[v].made \cap raising'[u].made = {}
  BY <1>3, <1>5 DEF MailsOnce
<1>8. \A n \in queue : n \in DOMAIN notices' /\ notices'[n].mails = 0
  BY <1>1 DEF MailsOnce
<1> QED
  BY <1>6, <1>7, <1>8 DEF MailsOnce, mailing

(* A worker's record changes, nobody else's.                               *)
LEMMA WorkerBecomes ==
  ASSUME AboutShape, WorkersShape, NEW w \in Workers, NEW x, raising' = [raising EXCEPT ![w] = x],
         x = [at |-> x.at, tell |-> x.tell, made |-> x.made],
         x.at = "inserting" \/ (x.at = "mailing" /\ x.tell = {}) \/ x = IdleWorker,
         \A b \in x.tell : JobTellable(b)
  PROVE  WorkersShape'
<1>1. IdleWorker.at = "idle" /\ IdleWorker.tell = {}
  BY DEF IdleWorker
<1>2. /\ raising' = [v \in Workers |-> IF v = w THEN x ELSE raising[v]]
  BY DEF WorkersShape
<1>3. raising' = [v \in Workers |-> raising'[v]]
  BY <1>2
<1>4. ASSUME NEW v \in Workers
      PROVE  /\ raising'[v] = [at |-> raising'[v].at, tell |-> raising'[v].tell, made |-> raising'[v].made]
             /\ raising'[v].at \in {"idle", "inserting", "mailing"}
             /\ raising'[v].at = "idle" => raising'[v] = IdleWorker
             /\ raising'[v].at = "mailing" => raising'[v].tell = {}
             /\ \A b \in raising'[v].tell : JobTellable(b)
  <2>1. CASE v = w
    BY <1>1, <1>2, <2>1
  <2>2. CASE v # w
    BY <1>2, <2>2 DEF WorkersShape
  <2> QED
    BY <2>1, <2>2
<1> QED
  BY <1>3, <1>4 DEF WorkersShape, JobTellable, Kind, IdleWorker

(* Two fields of a worker's record change.                                 *)
LEMMA WorkerEdited ==
  ASSUME NEW y, y = [at |-> y.at, tell |-> y.tell, made |-> y.made], NEW told, NEW done
  PROVE  [y EXCEPT !.tell = told, !.made = done] = [at |-> y.at, tell |-> told, made |-> done]
<1> DEFINE z == [y EXCEPT !.tell = told]
<1>1. z = [at |-> y.at, tell |-> told, made |-> y.made]
  OBVIOUS
<1> HIDE DEF z
<1>2. [z EXCEPT !.made = done] = [at |-> y.at, tell |-> told, made |-> done]
  BY <1>1
<1> QED
  BY <1>2 DEF z

(* notify() within a request: the invariant but for the fault it is about, *)
(* and whom it reached.                                                    *)
LEMMA Notified ==
  ASSUME NoticesInv, NEW w \in Workers, NEW told, Notify(w, told), UNCHANGED mailing,
         \A b \in told : Tellable(b),
         turn' = turn + 1
  PROVE  /\ NoticesShape' /\ WorkersShape' /\ MailsOnce' /\ UrgentIsMailed'
         /\ DOMAIN notices \subseteq DOMAIN notices'
         /\ \A n \in DOMAIN notices : notices'[n] = notices[n]
         /\ \A b \in told : b.to \in staff => Holds(b.to, b.key)'
         /\ \A b \in told : b.to \in staff /\ ~Holds(b.to, b.key) =>
              \E c \in told : /\ NoticeOf(b.to, b.key) = NoticeOf(c.to, c.key)
                              /\ NoticeOf(b.to, b.key) \in DOMAIN notices'
                              /\ notices'[NoticeOf(b.to, b.key)] = NoticeRow(c)
<1> DEFINE news == {b \in told : b.to \in staff /\ ~Holds(b.to, b.key)}
           wanted == {Id(b) : b \in {c \in news : WantsEmail(c)}}
           x == IF wanted = {} THEN IdleWorker ELSE [at |-> "mailing", tell |-> {}, made |-> wanted]
<1>0. AboutShape /\ NoticesShape /\ WorkersShape /\ MailsOnce /\ UrgentIsMailed /\ turn \in Nat
  BY DEF NoticesInv, AboutShape
<1>1. raising[w] = IdleWorker /\ notices' = WithNotices(news) /\ raising' = [raising EXCEPT ![w] = x]
  BY DEF Notify
<1>2. \A b \in news : ~Holds(b.to, b.key) /\ Tellable(b) /\ Id(b) = NoticeOf(b.to, b.key)
  BY FirstCopy
<1> HIDE DEF news
<1>3. /\ DOMAIN notices' = DOMAIN notices \cup {NoticeOf(b.to, b.key) : b \in news}
      /\ \A n \in DOMAIN notices : notices'[n] = notices[n]
      /\ \A n \in DOMAIN notices' \ DOMAIN notices :
           \E b \in news : n = NoticeOf(b.to, b.key) /\ notices'[n] = NoticeRow(b)
  BY <1>1, <1>2, RaisedRows
<1>4. NoticesShape' /\ \A b \in news : Holds(b.to, b.key)'
  BY <1>0, <1>1, <1>2, RaisedShape
<1>5. x = [at |-> x.at, tell |-> x.tell, made |-> x.made] /\ x.tell = {} /\ x.made = wanted
      /\ (x.at = "mailing" \/ x = IdleWorker)
  BY DEF IdleWorker
<1>6. wanted \subseteq {NoticeOf(b.to, b.key) : b \in news}
  BY <1>2
<1> HIDE DEF x
<1>7. WorkersShape'
  BY <1>0, <1>1, <1>5, WorkerBecomes
<1>8. MailsOnce'
  BY <1>0, <1>1, <1>2, <1>5, <1>6, RaisedMails
<1>9. UrgentIsMailed'
  <2>1. raising'[w] = x /\ \A v \in Workers \ {w} : raising'[v] = raising[v]
    BY <1>0, <1>1 DEF WorkersShape
  <2>2. raising[w].made = {}
    BY <1>1 DEF IdleWorker
  <2>3. \A n : UnderWay(n) => UnderWay(n)'
    BY <2>1, <2>2 DEF UnderWay
  <2>4. ASSUME NEW n \in DOMAIN notices' \ DOMAIN notices, Kind(n) \in EMAIL_ALWAYS
        PROVE  UnderWay(n)'
    <3>1. PICK b \in news : n = NoticeOf(b.to, b.key)
      BY <1>3, <2>4
    <3>2. Kind(b) = Kind(n)
      BY <3>1 DEF Kind, NoticeOf
    <3>3. WantsEmail(b)
      BY <2>4, <3>2 DEF WantsEmail
    <3>4. n \in wanted
      BY <1>2, <3>1, <3>3
    <3> QED
      BY <1>5, <2>1, <3>4 DEF UnderWay
  <2> QED
    BY <1>0, <1>3, <2>3, <2>4, UrgentStays DEF mailing
<1>10. ASSUME NEW b \in told, b.to \in staff PROVE Holds(b.to, b.key)'
  <2>1. CASE b \in news
    BY <1>4, <2>1
  <2>2. CASE b \notin news
    BY <1>3, <1>10, <2>2, StillHeld DEF news
  <2> QED
    BY <2>1, <2>2
<1>11. ASSUME NEW b \in told, b.to \in staff, ~Holds(b.to, b.key)
       PROVE  \E c \in told : /\ NoticeOf(b.to, b.key) = NoticeOf(c.to, c.key)
                              /\ NoticeOf(b.to, b.key) \in DOMAIN notices'
                              /\ notices'[NoticeOf(b.to, b.key)] = NoticeRow(c)
  <2>1. b \in news /\ news \subseteq told
    BY <1>11 DEF news
  <2>2. NoticeOf(b.to, b.key) \in DOMAIN notices' \ DOMAIN notices
    BY <1>0, <1>3, <1>11, <2>1, HeldNotice
  <2> QED
    BY <1>3, <2>1, <2>2
<1> QED
  BY <1>3, <1>4, <1>7, <1>8, <1>9, <1>10, <1>11

-----------------------------------------------------------------------------
(* The daily jobs                                                          *)

(* What a job would tell is for its readers, and no assignment.            *)
LEMMA ToldByJobs ==
  ASSUME AboutShape
  PROVE  /\ \A b \in DueToday : JobTellable(b)
         /\ \A b \in ToEach("contract_expired", 1, Bosses) : JobTellable(b)
<1>1. ASSUME NEW kind, kind # "visit_assigned", NEW key, NEW readers
      PROVE  \A b \in ToEach(kind, key, readers) : JobTellable(b)
  BY <1>1 DEF ToEach, Notice, JobTellable, Kind, AboutShape
<1>2. \A b \in RenewalNotice : JobTellable(b)
  BY <1>1 DEF RenewalNotice
<1>3. \A b \in MaintenanceOverdue : JobTellable(b)
  BY <1>1 DEF MaintenanceOverdue
<1>4. \A b \in InspectionDueNotice : JobTellable(b)
  BY <1>1 DEF InspectionDueNotice
<1>5. \A b \in CorrectionDeadlineNotice : JobTellable(b)
  <2> DEFINE left == subject.date - day
             late == ToEach("correction_deadline_passed", subject.inspection, OfficeAndTechnicians)
             near == ToEach("correction_deadline_near", <<subject.inspection, Tightest(left)>>,
                            OfficeAndTechnicians)
  <2>1. \A b \in late \cup near : JobTellable(b)
    BY <1>1
  <2>2. CorrectionDeadlineNotice \subseteq late \cup near
    BY DEF CorrectionDeadlineNotice
  <2> QED
    BY <2>1, <2>2
<1>6. DueToday \subseteq RenewalNotice \cup MaintenanceOverdue \cup InspectionDueNotice \cup CorrectionDeadlineNotice
  BY DEF DueToday
<1> QED
  BY <1>1, <1>2, <1>3, <1>4, <1>5, <1>6

(* The worker begins a job.                                                *)
LEMMA BeginsJob ==
  ASSUME NoticesInv, NEW w \in Workers, raising[w] = IdleWorker, NEW told,
         \A b \in told : JobTellable(b),
         raising' = [raising EXCEPT ![w] = [at |-> "inserting", tell |-> told, made |-> {}]],
         UNCHANGED <<topic, day, people, notices, mailing>>,
         \/ UNCHANGED <<subject, turn>>
         \/ topic # "fault" /\ subject' \in Subjects /\ turn' = turn + 1
  PROVE  NoticesInv'
<1> DEFINE x == [at |-> "inserting", tell |-> told, made |-> {}]
<1>0. /\ AboutShape /\ NoticesShape /\ WorkersShape /\ MailsOnce /\ UrgentIsMailed /\ Alarmed
      /\ turn \in Nat /\ turn' \in Nat /\ turn <= turn'
  BY DEF NoticesInv, AboutShape
<1>1. AboutShape'
  BY <1>0 DEF AboutShape, people
<1>2. NoticesShape'
  BY <1>0 DEF NoticesShape, Kind
<1>3. x = [at |-> x.at, tell |-> x.tell, made |-> x.made] /\ x.at = "inserting"
      /\ x.tell = told /\ x.made = {} /\ raising' = [raising EXCEPT ![w] = x]
  OBVIOUS
<1> HIDE DEF x
<1>4. WorkersShape'
  BY <1>0, <1>3, WorkerBecomes
<1>5. \A v \in Workers : raising'[v].made = raising[v].made
  <2>1. raising[w].made = {}
    BY DEF IdleWorker
  <2> QED
    BY <1>0, <1>3, <2>1 DEF WorkersShape
<1>6. MailsOnce'
  BY <1>0, <1>5 DEF MailsOnce, mailing
<1>7. UrgentIsMailed'
  BY <1>0, <1>5 DEF UrgentIsMailed, UnderWay, mailing, Kind
<1>8. Alarmed'
  BY <1>0, AlarmStays DEF people
<1> QED
  BY <1>1, <1>2, <1>4, <1>6, <1>7, <1>8 DEF NoticesInv

(* A job begins, decides or ends a contract: what it has to tell is well   *)
(* formed, and nothing is raised yet.                                      *)
LEMMA JobsBegin ==
  ASSUME NoticesInv, NEW w \in Workers, JobNotifies(w) \/ ContractExpired(w)
  PROVE  NoticesInv'
<1>0. AboutShape /\ subject \in Subjects
  BY DEF NoticesInv, AboutShape
<1>1. CASE JobNotifies(w)
  BY <1>0, <1>1, ToldByJobs, BeginsJob DEF JobNotifies, rows
<1>2. CASE ContractExpired(w)
  <2>1. subject' \in Subjects
    BY <1>0, <1>2 DEF ContractExpired, Subjects
  <2> QED
    BY <1>0, <1>2, <2>1, ToldByJobs, BeginsJob DEF ContractExpired, Turns
<1> QED
  BY <1>1, <1>2

(* A job's insert.                                                         *)
LEMMA JobInsertsKeeps ==
  ASSUME NoticesInv, NEW w \in Workers, JobInserts(w)
  PROVE  NoticesInv'
<1>0. AboutShape /\ NoticesShape /\ WorkersShape /\ MailsOnce /\ UrgentIsMailed /\ Alarmed
  BY DEF NoticesInv
<1>1. PICK b \in raising[w].tell : CreateOnce(w, b)
  BY DEF JobInserts
<1>2. /\ raising[w].at = "inserting" /\ UNCHANGED <<topic, subject, day, turn, staff, choice, away, queue, unsent>>
      /\ raising[w] = [at |-> raising[w].at, tell |-> raising[w].tell, made |-> raising[w].made]
      /\ JobTellable(b)
  BY <1>0 DEF JobInserts, rows, people, mailing, WorkersShape
<1>3. AboutShape'
  BY <1>0, <1>2 DEF AboutShape
<1>4. CASE Holds(b.to, b.key)
  <2>1. raising' = [raising EXCEPT ![w].tell = @ \ {b}] /\ notices' = notices
    BY <1>1, <1>4 DEF CreateOnce
  <2> DEFINE x == [at |-> "inserting", tell |-> raising[w].tell \ {b}, made |-> raising[w].made]
  <2>0. [raising[w] EXCEPT !.tell = @ \ {b}] = x
    BY <1>2
  <2>2. raising' = [raising EXCEPT ![w] = x] /\ \A v \in Workers \ {w} : raising'[v] = raising[v]
    <3> HIDE DEF x
    <3> QED
      BY <1>0, <2>0, <2>1 DEF WorkersShape
  <2>3. x = [at |-> x.at, tell |-> x.tell, made |-> x.made] /\ x.at = "inserting"
        /\ x.made = raising[w].made /\ x.tell = raising[w].tell \ {b}
    OBVIOUS
  <2> HIDE DEF x
  <2>4. WorkersShape'
    <3>1. \A c \in x.tell : JobTellable(c)
      BY <1>0, <2>3 DEF WorkersShape
    <3> QED
      BY <1>0, <2>2, <2>3, <3>1, WorkerBecomes
  <2>5. \A v \in Workers : raising'[v].made = raising[v].made
    BY <1>0, <2>2, <2>3 DEF WorkersShape
  <2>6. MailsOnce' /\ UrgentIsMailed'
    BY <1>0, <1>2, <2>1, <2>5 DEF MailsOnce, UrgentIsMailed, UnderWay, Kind
  <2>7. Alarmed' /\ NoticesShape'
    BY <1>0, <1>2, <2>1, AlarmStays DEF NoticesShape, Kind
  <2> QED
    BY <1>3, <2>4, <2>6, <2>7 DEF NoticesInv
<1>5. CASE ~Holds(b.to, b.key)
  <2> DEFINE new == {b}
             x == [at |-> "inserting", tell |-> raising[w].tell \ {b},
                   made |-> raising[w].made \cup {Id(b)}]
  <2>1. /\ notices' = WithNotices(new)
        /\ raising' = [raising EXCEPT ![w].tell = @ \ {b}, ![w].made = @ \cup {Id(b)}]
        /\ Id(b) = NoticeOf(b.to, b.key)
    BY <1>1, <1>5, FirstCopy DEF CreateOnce
  <2>2. [raising[w] EXCEPT !.tell = @ \ {b}, !.made = @ \cup {Id(b)}] = x
    <3> DEFINE y == raising[w]
               told == y.tell \ {b}
               done == y.made \cup {Id(b)}
    <3>1. y.at = "inserting" /\ y = [at |-> y.at, tell |-> y.tell, made |-> y.made]
      BY <1>2
    <3>2. x = [at |-> y.at, tell |-> told, made |-> done]
      BY <3>1
    <3>3. \A t, d : [y EXCEPT !.tell = t, !.made = d] = [at |-> y.at, tell |-> t, made |-> d]
      <4> HIDE DEF y
      <4> QED
        BY <3>1, WorkerEdited
    <3>4. [y EXCEPT !.tell = told, !.made = done] = [at |-> y.at, tell |-> told, made |-> done]
      <4> HIDE DEF y, told, done
      <4> QED
        BY <3>3
    <3> QED
      BY <3>2, <3>4
  <2>3. /\ x = [at |-> x.at, tell |-> x.tell, made |-> x.made]
        /\ x.at = "inserting" /\ x.tell = raising[w].tell \ {b}
        /\ x.made = raising[w].made \cup {Id(b)}
    OBVIOUS
  <2> HIDE DEF x
  <2>4. raising' = [raising EXCEPT ![w] = x]
    BY <1>0, <2>1, <2>2 DEF WorkersShape
  <2>5. \A c \in new : ~Holds(c.to, c.key) /\ Tellable(c) /\ Kind(c) # "visit_assigned"
    BY <1>2, <1>5 DEF JobTellable, Tellable
  <2>6. {NoticeOf(c.to, c.key) : c \in new} = {Id(b)}
    BY <2>1
  <2> HIDE DEF new
  <2>7. NoticesShape'
    BY <1>0, <1>2, <2>1, <2>5, RaisedShape
  <2>8. MailsOnce'
    BY <1>0, <1>2, <2>1, <2>3, <2>4, <2>5, <2>6, RaisedMails DEF mailing
  <2>9. WorkersShape'
    <3>1. \A c \in x.tell : JobTellable(c)
      BY <1>0, <2>3 DEF WorkersShape
    <3> QED
      BY <1>0, <2>3, <2>4, <3>1, WorkerBecomes
  <2>10. /\ DOMAIN notices' = DOMAIN notices \cup {Id(b)}
         /\ \A n \in DOMAIN notices : notices'[n] = notices[n]
    BY <2>1, <2>5, <2>6, RaisedRows
  <2>11. Alarmed'
    BY <1>0, <1>2, <2>10, AlarmStays
  <2>12. /\ raising'[w].made = raising[w].made \cup {Id(b)}
         /\ \A v \in Workers \ {w} : raising'[v] = raising[v]
    BY <1>0, <2>3, <2>4 DEF WorkersShape
  <2>13. UrgentIsMailed'
    <3>1. \A n : UnderWay(n) => UnderWay(n)'
      BY <2>12 DEF UnderWay
    <3>2. \A n \in DOMAIN notices' \ DOMAIN notices : UnderWay(n)'
      BY <2>10, <2>12 DEF UnderWay
    <3> QED
      BY <1>0, <1>2, <2>10, <3>1, <3>2, UrgentStays
  <2> QED
    BY <1>3, <2>7, <2>8, <2>9, <2>11, <2>13 DEF NoticesInv
<1> QED
  BY <1>4, <1>5

-----------------------------------------------------------------------------
(* Mail                                                                    *)

(* Only mails move: a worker's record becomes x, the queue and the lost    *)
(* ones change.                                                            *)
LEMMA MailMoves ==
  ASSUME NoticesInv, NEW w \in Workers, NEW x, raising' = [raising EXCEPT ![w] = x],
         UNCHANGED <<rows, people, notices>>,
         x = [at |-> x.at, tell |-> {}, made |-> x.made], x.made \subseteq raising[w].made,
         x.at = "mailing" \/ x = IdleWorker,
         queue' \subseteq queue \cup (raising[w].made \ x.made), queue \subseteq queue',
         unsent \subseteq unsent',
         \A n \in raising[w].made \ x.made : n \in queue' \cup unsent' \/ Kind(n) \notin EMAIL_ALWAYS
  PROVE  NoticesInv'
<1>0. AboutShape /\ NoticesShape /\ WorkersShape /\ MailsOnce /\ UrgentIsMailed /\ Alarmed
  BY DEF NoticesInv
<1>1. AboutShape' /\ NoticesShape' /\ Alarmed'
  <2>1. AboutShape' /\ NoticesShape'
    BY <1>0 DEF AboutShape, NoticesShape, rows, people, Kind
  <2> QED
    BY <1>0, <2>1, AlarmStays DEF rows, people
<1>2. raising'[w] = x /\ \A v \in Workers \ {w} : raising'[v] = raising[v]
  BY <1>0 DEF WorkersShape
<1>3. WorkersShape'
  <2>1. x.tell = {}
    OBVIOUS
  <2>2. x = [at |-> x.at, tell |-> x.tell, made |-> x.made]
    BY <2>1
  <2> QED
    BY <1>0, <2>1, <2>2, WorkerBecomes
<1>4. MailsOnce'
  <2>1. \A v \in Workers : raising'[v].made \subseteq raising[v].made
    BY <1>2
  <2>2. \A v \in Workers : \A n \in raising'[v].made : n \notin queue'
    BY <1>0, <1>2, <2>1 DEF MailsOnce
  <2>3. \A v \in Workers : \A n \in raising'[v].made : n \in DOMAIN notices /\ notices[n].mails = 0
    BY <1>0, <2>1 DEF MailsOnce
  <2>4. \A v, u \in Workers : v # u => raising'[v].made \cap raising'[u].made = {}
    BY <1>0, <2>1 DEF MailsOnce
  <2>5. \A n \in queue' : n \in DOMAIN notices /\ notices[n].mails = 0
    BY <1>0 DEF MailsOnce
  <2> QED
    BY <2>2, <2>3, <2>4, <2>5 DEF MailsOnce
<1>5. UrgentIsMailed'
  <2>1. ASSUME NEW n \in DOMAIN notices, Kind(n) \in EMAIL_ALWAYS
        PROVE  notices[n].mails = 1 \/ n \in queue' \cup unsent' \/ UnderWay(n)'
    <3>1. CASE notices[n].mails = 1 \/ n \in queue \cup unsent
      BY <3>1
    <3>2. CASE UnderWay(n)
      <4>1. PICK v \in Workers : n \in raising[v].made
        BY <3>2 DEF UnderWay
      <4> QED
        BY <1>2, <2>1, <4>1 DEF UnderWay
    <3> QED
      BY <1>0, <2>1, <3>1, <3>2 DEF UrgentIsMailed
  <2> QED
    BY <2>1 DEF UrgentIsMailed, Kind
<1> QED
  BY <1>1, <1>3, <1>4, <1>5 DEF NoticesInv

(* A job decides whom to mail; a worker queues one, or dies.               *)
LEMMA MailingKeeps ==
  ASSUME NoticesInv, NEW w \in Workers, JobDecides(w) \/ Enqueue(w) \/ WorkerDies(w)
  PROVE  NoticesInv'
<1>0. /\ IdleWorker = [at |-> IdleWorker.at, tell |-> {}, made |-> IdleWorker.made]
      /\ IdleWorker.made = {}
  BY DEF IdleWorker
<1>1. CASE JobDecides(w)
  <2> DEFINE wanted == {n \in raising[w].made : WantsEmail(n)}
             x == IF wanted = {} THEN IdleWorker ELSE [at |-> "mailing", tell |-> {}, made |-> wanted]
  <2>1. raising' = [raising EXCEPT ![w] = x] /\ UNCHANGED <<rows, people, notices, mailing>>
    BY <1>1 DEF JobDecides
  <2>2. x = [at |-> x.at, tell |-> {}, made |-> x.made] /\ x.made = wanted
        /\ (x.at = "mailing" \/ x = IdleWorker)
    BY <1>0
  <2>3. \A n \in raising[w].made \ wanted : Kind(n) \notin EMAIL_ALWAYS
    BY DEF WantsEmail
  <2> HIDE DEF x
  <2> QED
    BY <2>1, <2>2, <2>3, MailMoves DEF mailing
<1>2. CASE Enqueue(w)
  <2>1. PICK n \in raising[w].made :
          /\ raising' = MailLess(w, n)
          /\ \/ queue' = queue \cup {n} /\ UNCHANGED unsent
             \/ unsent' = unsent \cup {n} /\ UNCHANGED queue
    BY <1>2 DEF Enqueue
  <2> DEFINE left == raising[w].made \ {n}
             x == IF left = {} THEN IdleWorker ELSE [at |-> "mailing", tell |-> {}, made |-> left]
  <2>2. /\ raising[w] = [at |-> "mailing", tell |-> {}, made |-> raising[w].made]
        /\ UNCHANGED <<rows, people, notices>>
    BY <1>2 DEF Enqueue, NoticesInv, WorkersShape
  <2>3. [raising[w] EXCEPT !.made = left] = [at |-> "mailing", tell |-> {}, made |-> left]
    BY <2>2
  <2>4. raising' = [raising EXCEPT ![w] = x]
    BY <2>1, <2>3 DEF MailLess, NoticesInv, WorkersShape
  <2>5. x = [at |-> x.at, tell |-> {}, made |-> x.made] /\ x.made = left
        /\ (x.at = "mailing" \/ x = IdleWorker)
    BY <1>0
  <2> HIDE DEF x
  <2>6. raising[w].made \ x.made = {n}
    BY <2>5
  <2> QED
    BY <2>1, <2>2, <2>4, <2>5, <2>6, MailMoves
<1>3. CASE WorkerDies(w)
  BY <1>0, <1>3, MailMoves DEF WorkerDies
<1> QED
  BY <1>1, <1>2, <1>3

(* The task sends one, or finds its reader gone.                           *)
LEMMA SendKeeps ==
  ASSUME NoticesInv, NEW n \in queue, SendNotificationEmail(n)
  PROVE  NoticesInv'
<1>0. /\ AboutShape /\ NoticesShape /\ WorkersShape /\ MailsOnce /\ UrgentIsMailed /\ Alarmed
      /\ n \in DOMAIN notices /\ UNCHANGED <<topic, subject, day, turn, staff, choice, away, raising>>
      /\ queue' = queue \ {n}
  BY DEF NoticesInv, MailsOnce, SendNotificationEmail, rows, people
<1>1. /\ DOMAIN notices' = DOMAIN notices
      /\ \A m \in DOMAIN notices \ {n} : notices'[m] = notices[m]
      /\ \/ /\ n \in unsent' /\ unsent \subseteq unsent' /\ notices' = notices
         \/ /\ unsent' = unsent
            /\ notices' = [notices EXCEPT ![n].mails = @ + 1]
  BY <1>0 DEF SendNotificationEmail
<1>2. notices[n] \in [of : SUBSET PlanRows, on : Nat, read : BOOLEAN, mails : {0, 1}] /\ notices[n].mails = 0
  BY <1>0 DEF NoticesShape, MailsOnce
<1>3. /\ notices'[n] \in [of : SUBSET PlanRows, on : Nat, read : BOOLEAN, mails : {0, 1}]
      /\ n \in unsent' \/ notices'[n].mails = 1
  BY <1>0, <1>1, <1>2
<1>4. AboutShape' /\ WorkersShape' /\ Alarmed'
  <2>1. AboutShape' /\ WorkersShape'
    BY <1>0 DEF AboutShape, WorkersShape, JobTellable, Kind
  <2> QED
    BY <1>0, <1>1, <2>1, AlarmStays
<1>5. NoticesShape'
  BY <1>0, <1>1, <1>3 DEF NoticesShape, Kind
<1>6. MailsOnce'
  BY <1>0, <1>1 DEF MailsOnce
<1>7. UrgentIsMailed'
  BY <1>0, <1>1, <1>3 DEF UrgentIsMailed, UnderWay, Kind
<1> QED
  BY <1>4, <1>5, <1>6, <1>7 DEF NoticesInv

-----------------------------------------------------------------------------
(* Requests about a fault or a label                                       *)

(* What requests tell is well formed.                                      *)
LEMMA ToldByRequests ==
  ASSUME AboutShape, NEW kind, kind # "visit_assigned", NEW key, NEW readers,
         NEW b \in ToEach(kind, key, readers)
  PROVE  Tellable(b)
<1>1. PICK p \in readers \cap staff : b = Notice(kind, key, p)
  BY DEF ToEach
<1>2. b = [key |-> <<kind, key>>, to |-> p, of |-> {}] /\ p \in Person
  BY <1>1 DEF Notice, AboutShape
<1> QED
  BY <1>2 DEF Tellable, Kind

(* A fault becomes what it is told to be, and those concerned are told.    *)
LEMMA FaultKeeps ==
  ASSUME NoticesInv, NEW w \in Workers, NEW fault \in Subjects, NEW told,
         FaultBecomes(w, fault, told), \A b \in told : Tellable(b),
         fault.status = "none" => ~fault.emergency,
         fault.emergency =>
           /\ \/ /\ subject.status # "none" /\ subject.emergency
                 /\ subject.covers = fault.covers /\ subject.by = fault.by
              \/ \A p \in (Office \cup fault.covers \cup {fault.technician}) \ ({fault.by, NoOne} \cup away) :
                   \E b \in told : b.to = p /\ b.key = <<"fault_emergency", 1>>
           /\ fault.technician \notin {fault.by, NoOne} \cup away =>
                \/ /\ subject.status # "none" /\ subject.emergency
                   /\ subject.technician = fault.technician /\ subject.assigned = fault.assigned
                   /\ subject.by = fault.by
                \/ \E b \in told : /\ b.to = fault.technician
                                   /\ b.key \in {<<"fault_emergency", 1>>, <<"fault_assigned", fault.assigned>>}
  PROVE  NoticesInv'
<1>0. /\ AboutShape /\ Alarmed
      /\ subject' = fault /\ Notify(w, told) /\ turn' = turn + 1
      /\ topic = "fault" /\ UNCHANGED <<topic, day, staff, away, queue, unsent>>
  BY DEF NoticesInv, FaultBecomes, Turns, people, mailing
<1>1. /\ NoticesShape' /\ WorkersShape' /\ MailsOnce' /\ UrgentIsMailed'
      /\ DOMAIN notices \subseteq DOMAIN notices'
      /\ \A b \in told : b.to \in staff => Holds(b.to, b.key)'
  BY <1>0, Notified DEF mailing
<1>2. AboutShape'
  BY <1>0 DEF AboutShape
<1>3. Alarmed'
  <2>1. SUFFICES ASSUME fault.emergency PROVE Alarmed'
    BY <1>0 DEF Alarmed
  <2>2. ASSUME NEW p \in Person \ away, NEW b \in told, b.to = p
        PROVE  \E n \in DOMAIN notices' : n.to = p /\ n.key = b.key
    <3>1. p \in staff
      BY <1>0, <2>2 DEF AboutShape
    <3> QED
      BY <1>1, <2>2, <3>1 DEF Holds, Copies
  <2>3. Office \cup fault.covers \cup ({fault.technician} \ {NoOne}) \subseteq Person
    BY <1>0 DEF Office, Person, Subjects
  <2>4. OfficeAndTechnicians' = Office \cup fault.covers
    BY <1>0 DEF OfficeAndTechnicians
  <2>5. ASSUME NEW p \in (Office \cup fault.covers) \ ({fault.by, NoOne} \cup away)
        PROVE  \E n \in DOMAIN notices' : n.to = p /\ n.key = <<"fault_emergency", 1>>
    <3>1. CASE subject.status # "none" /\ subject.emergency /\ subject.covers = fault.covers /\ subject.by = fault.by
      <4>1. Holds(p, <<"fault_emergency", 1>>)
        BY <1>0, <2>5, <3>1 DEF Alarmed, OfficeAndTechnicians
      <4> QED
        BY <1>1, <4>1 DEF Holds, Copies
    <3>2. CASE \E b \in told : b.to = p /\ b.key = <<"fault_emergency", 1>>
      BY <2>2, <2>3, <2>5, <3>2
    <3> QED
      BY <2>1, <2>5, <3>1, <3>2
  <2>6. ASSUME fault.technician \notin {fault.by, NoOne} \cup away
        PROVE  \E n \in DOMAIN notices' :
                 /\ n.to = fault.technician
                 /\ n.key \in {<<"fault_emergency", 1>>, <<"fault_assigned", fault.assigned>>}
    <3>1. CASE /\ subject.status # "none" /\ subject.emergency
               /\ subject.technician = fault.technician /\ subject.assigned = fault.assigned
               /\ subject.by = fault.by
      <4>1. \/ Holds(subject.technician, <<"fault_emergency", 1>>)
            \/ Holds(subject.technician, <<"fault_assigned", subject.assigned>>)
        BY <1>0, <2>6, <3>1 DEF Alarmed
      <4> QED
        BY <1>1, <3>1, <4>1 DEF Holds, Copies
    <3>2. CASE \E b \in told : /\ b.to = fault.technician
                               /\ b.key \in {<<"fault_emergency", 1>>, <<"fault_assigned", fault.assigned>>}
      BY <2>2, <2>3, <2>6, <3>2
    <3> QED
      BY <2>1, <2>6, <3>1, <3>2
  <2> QED
    BY <1>0, <2>4, <2>5, <2>6 DEF Alarmed, Holds, Copies
<1> QED
  BY <1>1, <1>2, <1>3 DEF NoticesInv

(* A new fault, told of as it is reported.                                 *)
LEMMA ReportKeeps ==
  ASSUME NoticesInv, NEW w \in Workers, ReportFault(w)
  PROVE  NoticesInv'
<1>1. PICK by \in staff \cup {NoOne}, emergency \in BOOLEAN, to \in (Technicians \cap staff) \cup {NoOne} :
        /\ by = NoOne => to = NoOne
        /\ LET fault == [subject EXCEPT !.by = by, !.emergency = emergency, !.technician = to,
                                        !.status = IF to = NoOne THEN "open" ELSE "assigned"]
           IN  FaultBecomes(w, fault, AnnounceReport(fault) \cup AnnounceAssignment(fault))
  BY DEF ReportFault
<1> DEFINE fault == [subject EXCEPT !.by = by, !.emergency = emergency, !.technician = to,
                                    !.status = IF to = NoOne THEN "open" ELSE "assigned"]
           told == AnnounceReport(fault) \cup AnnounceAssignment(fault)
<1>2. subject \in Subjects /\ AboutShape /\ staff \subseteq Person
  BY DEF NoticesInv, AboutShape
<1>3. /\ fault \in Subjects /\ fault.status # "none" /\ fault.emergency = emergency
      /\ fault.covers = subject.covers /\ fault.by = by /\ fault.technician = to
  BY <1>2 DEF Subjects
<1>4. FaultBecomes(w, fault, told)
  BY <1>1
<1> HIDE DEF fault
<1>5. \A b \in told : Tellable(b)
  BY <1>2, ToldByRequests DEF AnnounceReport, AnnounceAssignment
<1>6. ASSUME fault.emergency,
             NEW p \in (Office \cup fault.covers \cup {fault.technician}) \ ({fault.by, NoOne} \cup away)
      PROVE  \E b \in told : b.to = p /\ b.key = <<"fault_emergency", 1>>
  <2>1. p \in staff /\ p \in (OfficeAndTechnicians \cup {fault.technician}) \ {fault.by}
    BY <1>1, <1>2, <1>3, <1>6 DEF AboutShape, OfficeAndTechnicians, Office, Person, Subjects
  <2> DEFINE readers == (OfficeAndTechnicians \cup {fault.technician}) \ {fault.by}
  <2>2. ToEach("fault_emergency", 1, readers) \subseteq told
    BY <1>6 DEF AnnounceReport
  <2>3. p \in readers \cap staff
    BY <2>1
  <2> HIDE DEF readers
  <2>4. Notice("fault_emergency", 1, p) \in told
    BY <2>2, <2>3 DEF ToEach
  <2>5. /\ Notice("fault_emergency", 1, p).to = p
        /\ Notice("fault_emergency", 1, p).key = <<"fault_emergency", 1>>
    BY DEF Notice
  <2> QED
    BY <2>4, <2>5
<1> HIDE DEF told
<1> QED
  BY <1>3, <1>4, <1>5, <1>6, FaultKeeps

(* A report that makes the fault an emergency tells all who are to know.   *)
LEMMA EscalateKeeps ==
  ASSUME NoticesInv, NEW w \in Workers, Escalate(w)
  PROVE  NoticesInv'
<1> DEFINE fault == [subject EXCEPT !.emergency = TRUE]
           told == AnnounceReport(fault)
<1>2. subject \in Subjects /\ AboutShape /\ staff \subseteq Person
  BY DEF NoticesInv, AboutShape
<1>3. /\ fault \in Subjects /\ fault.status # "none" /\ fault.emergency
      /\ fault.covers = subject.covers
  BY <1>2 DEF Subjects, Escalate
<1>4. FaultBecomes(w, fault, told)
  BY DEF Escalate
<1> HIDE DEF fault
<1>5. \A b \in told : Tellable(b)
  BY <1>2, ToldByRequests DEF AnnounceReport
<1>6. ASSUME NEW p \in (Office \cup fault.covers \cup {fault.technician}) \ ({fault.by, NoOne} \cup away)
      PROVE  \E b \in told : b.to = p /\ b.key = <<"fault_emergency", 1>>
  <2>1. p \in staff /\ p \in (OfficeAndTechnicians \cup {fault.technician}) \ {fault.by}
    BY <1>2, <1>3, <1>6 DEF AboutShape, OfficeAndTechnicians, Office, Person, Subjects
  <2> DEFINE readers == (OfficeAndTechnicians \cup {fault.technician}) \ {fault.by}
  <2>2. ToEach("fault_emergency", 1, readers) \subseteq told
    BY <1>3 DEF AnnounceReport
  <2>3. p \in readers \cap staff
    BY <2>1
  <2> HIDE DEF readers
  <2>4. Notice("fault_emergency", 1, p) \in told
    BY <2>2, <2>3 DEF ToEach
  <2>5. /\ Notice("fault_emergency", 1, p).to = p
        /\ Notice("fault_emergency", 1, p).key = <<"fault_emergency", 1>>
    BY DEF Notice
  <2> QED
    BY <2>4, <2>5
<1> HIDE DEF told
<1> QED
  BY <1>3, <1>4, <1>5, <1>6, FaultKeeps

(* Whom an emergency is given to hears of it, before or now.               *)
LEMMA AssignKeepsAlarm ==
  ASSUME NoticesInv, NEW w \in Workers, AssignFault(w)
  PROVE  NoticesInv'
<1>1. PICK to \in (Technicians \cap staff) \ {subject.technician} :
        LET fault == [subject EXCEPT !.technician = to, !.status = "assigned", !.assigned = @ + 1]
        IN  FaultBecomes(w, fault, AnnounceAssignment(fault))
  BY DEF AssignFault
<1> DEFINE fault == [subject EXCEPT !.technician = to, !.status = "assigned", !.assigned = @ + 1]
           told == AnnounceAssignment(fault)
<1>2. subject \in Subjects /\ AboutShape /\ staff \subseteq Person /\ subject.status # "none"
  BY DEF NoticesInv, AboutShape, AssignFault
<1>3. /\ fault \in Subjects /\ fault.status = "assigned" /\ fault.emergency = subject.emergency
      /\ fault.covers = subject.covers /\ fault.by = subject.by /\ fault.technician = to
  <2> DEFINE nth == subject.assigned + 1
  <2>1. nth \in Nat
    BY <1>2 DEF Subjects
  <2>2. fault = [subject EXCEPT !.technician = to, !.status = "assigned", !.assigned = nth]
    OBVIOUS
  <2> HIDE DEF nth, fault
  <2> QED
    BY <1>2, <2>1, <2>2 DEF Subjects
<1>4. FaultBecomes(w, fault, told)
  BY <1>1
<1> HIDE DEF fault
<1>5. \A b \in told : Tellable(b)
  BY <1>2, ToldByRequests DEF AnnounceAssignment
<1>6. ASSUME fault.technician \notin {fault.by, NoOne} \cup away
      PROVE  \E b \in told : b.to = fault.technician /\ b.key = <<"fault_assigned", fault.assigned>>
  <2> DEFINE readers == {fault.technician} \ {fault.by}
  <2>1. fault.technician \in readers \cap staff
    BY <1>1, <1>3, <1>6
  <2>2. told = ToEach("fault_assigned", fault.assigned, readers)
    BY DEF AnnounceAssignment
  <2> HIDE DEF readers
  <2> DEFINE b == Notice("fault_assigned", fault.assigned, fault.technician)
  <2>3. b \in told
    BY <2>1, <2>2 DEF ToEach
  <2>4. b.to = fault.technician /\ b.key = <<"fault_assigned", fault.assigned>>
    BY DEF Notice
  <2> QED
    BY <2>3, <2>4
<1> HIDE DEF told
<1> QED
  BY <1>2, <1>3, <1>4, <1>5, <1>6, FaultKeeps

(* No emergency any more, or one that is over.                             *)
LEMMA LoweredOrResolved ==
  ASSUME NoticesInv, NEW w \in Workers, Lower(w) \/ ResolveFault(w)
  PROVE  NoticesInv'
<1>0. subject \in Subjects /\ AboutShape /\ subject.status # "none"
  BY DEF NoticesInv, AboutShape, Lower, ResolveFault
<1>1. CASE Lower(w)
  <2> DEFINE fault == [subject EXCEPT !.emergency = FALSE]
  <2>1. fault \in Subjects /\ ~fault.emergency /\ FaultBecomes(w, fault, {})
    BY <1>0, <1>1 DEF Subjects, Lower
  <2> HIDE DEF fault
  <2> QED
    BY <2>1, FaultKeeps
<1>2. CASE ResolveFault(w)
  <2> DEFINE fault == [subject EXCEPT !.status = "resolved"]
             told == AnnounceResolution(subject)
  <2>1. /\ fault \in Subjects /\ fault.status = "resolved" /\ FaultBecomes(w, fault, told)
        /\ fault.emergency = subject.emergency /\ fault.covers = subject.covers /\ fault.by = subject.by
        /\ fault.technician = subject.technician /\ fault.assigned = subject.assigned
    BY <1>0, <1>2 DEF Subjects, ResolveFault
  <2>2. \A b \in told : Tellable(b)
    BY <1>0, ToldByRequests DEF AnnounceResolution
  <2> HIDE DEF fault, told
  <2> QED
    BY <1>0, <2>1, <2>2, FaultKeeps
<1> QED
  BY <1>1, <1>2

(* A red label, or a visit's assignment, concerns no fault.                *)
LEMMA OtherTopicKeeps ==
  ASSUME NoticesInv, NEW w \in Workers, NEW told, Notify(w, told), \A b \in told : Tellable(b),
         topic # "fault", subject' \in Subjects, turn' = turn + 1,
         UNCHANGED <<topic, day, people, mailing>>
  PROVE  NoticesInv'
<1>1. /\ NoticesShape' /\ WorkersShape' /\ MailsOnce' /\ UrgentIsMailed'
      /\ DOMAIN notices \subseteq DOMAIN notices'
  BY Notified
<1>2. AboutShape'
  BY DEF AboutShape, people, NoticesInv
<1>3. Alarmed'
  BY DEF Alarmed
<1> QED
  BY <1>1, <1>2, <1>3 DEF NoticesInv

(* A label tells those it is for.                                          *)
LEMMA LabelKeeps ==
  ASSUME NoticesInv, NEW w \in Workers, Label(w)
  PROVE  NoticesInv'
<1>0. AboutShape /\ subject \in Subjects
  BY DEF NoticesInv, AboutShape
<1>1. PICK red \in BOOLEAN :
        /\ subject' = [subject EXCEPT !.red = red]
        /\ Notify(w, IF red /\ ~subject.red
                     THEN ToEach("inspection_red_label", subject.inspection, OfficeAndTechnicians)
                     ELSE {})
  BY DEF Label
<1> DEFINE told == IF red /\ ~subject.red
                   THEN ToEach("inspection_red_label", subject.inspection, OfficeAndTechnicians)
                   ELSE {}
<1>2. \A b \in told : Tellable(b)
  BY <1>0, ToldByRequests
<1>3. subject' \in Subjects
  BY <1>0, <1>1 DEF Subjects
<1>4. Notify(w, told)
  BY <1>1
<1> HIDE DEF told
<1> QED
  BY <1>2, <1>3, <1>4, OtherTopicKeeps DEF Label, Turns

-----------------------------------------------------------------------------
(* Planned visits                                                          *)

(* Some numbers have a least.                                              *)
LEMMA LeastOf ==
  ASSUME NEW S \in SUBSET Nat, S # {}
  PROVE  \E m \in S : \A n \in S : m <= n
<1> DEFINE R == OpToRel(<, Nat)
<1>1. PICK m \in S : \A n \in S : <<n, m>> \notin R
  <2>1. IsWellFoundedOn(R, Nat)
    BY NatLessThanWellFounded
  <2> HIDE DEF R
  <2> QED
    BY <2>1, WFMin
<1>2. ASSUME NEW n \in S, n < m
      PROVE  FALSE
  <2>1. <<n, m>> \in Nat \X Nat /\ <<n, m>>[1] < <<n, m>>[2]
    BY <1>2
  <2> QED
    BY <1>1, <2>1 DEF OpToRel
<1> QED
  BY <1>2

(* Some numbers below a bound have a greatest.                             *)
LEMMA GreatestOf ==
  ASSUME NEW top \in Nat, NEW S \in SUBSET (0..top), S # {}
  PROVE  \E m \in S : \A n \in S : m >= n
<1> DEFINE T == {top - n : n \in S}
<1>1. T \in SUBSET Nat /\ T # {}
  <2>1. \A n \in S : top - n \in Nat
    OBVIOUS
  <2> QED
    BY <2>1
<1>2. PICK t \in T : \A u \in T : t <= u
  <2> HIDE DEF T
  <2> QED
    BY <1>1, LeastOf
<1>3. PICK m \in S : t = top - m
  BY <1>2
<1>4. ASSUME NEW n \in S
      PROVE  m >= n
  <2>1. t <= top - n
    BY <1>2
  <2> QED
    BY <1>3, <2>1
<1> QED
  BY <1>4

(* Of the assignments a technician has not read today, one is the newest.  *)
LEMMA NewestThere ==
  ASSUME NoticesShape, turn \in Nat, NEW to, Recent(to) # {}
  PROVE  \E n \in Recent(to) : \A m \in Recent(to) : m.key[2] <= n.key[2]
<1> DEFINE numbers == {n.key[2] : n \in Recent(to)}
<1>1. \A n \in Recent(to) : n.key[2] \in 0..turn
  BY DEF Recent, NoticesShape
<1>2. numbers \in SUBSET (0..turn) /\ numbers # {}
  BY <1>1
<1>3. PICK k \in numbers : \A j \in numbers : k >= j
  <2> HIDE DEF numbers
  <2> QED
    BY <1>2, GreatestOf
<1>4. PICK n \in Recent(to) : k = n.key[2]
  BY <1>3
<1>5. ASSUME NEW m \in Recent(to) PROVE m.key[2] <= n.key[2]
  <2>1. m.key[2] \in numbers
    OBVIOUS
  <2>2. k \in 0..turn /\ m.key[2] \in 0..turn
    BY <1>1, <1>4
  <2> HIDE DEF numbers
  <2>3. k >= m.key[2]
    BY <1>3, <2>1
  <2> QED
    BY <1>4, <2>2, <2>3
<1> QED
  BY <1>5

(* Rows of the table are edited, and nothing of theirs that is mailed.     *)
LEMMA EditedKeeps ==
  ASSUME NoticesInv, DOMAIN notices' = DOMAIN notices,
         \A n \in DOMAIN notices :
           /\ notices'[n] \in [of : SUBSET PlanRows, on : Nat, read : BOOLEAN, mails : {0, 1}]
           /\ notices'[n].mails = notices[n].mails,
         UNCHANGED <<topic, day, people, raising, mailing>>,
         \/ UNCHANGED <<subject, turn>>
         \/ topic # "fault" /\ subject' \in Subjects /\ turn' = turn + 1
  PROVE  NoticesInv'
<1>0. /\ AboutShape /\ NoticesShape /\ WorkersShape /\ MailsOnce /\ UrgentIsMailed /\ Alarmed
      /\ turn \in Nat /\ turn' \in Nat /\ turn <= turn'
  BY DEF NoticesInv, AboutShape
<1>1. AboutShape' /\ WorkersShape'
  BY <1>0 DEF AboutShape, WorkersShape, JobTellable, people, Kind
<1>2. NoticesShape'
  BY <1>0 DEF NoticesShape, Kind
<1>3. MailsOnce' /\ UrgentIsMailed'
  BY <1>0 DEF MailsOnce, UrgentIsMailed, UnderWay, mailing, Kind
<1>4. Alarmed'
  BY <1>0, AlarmStays DEF people
<1> QED
  BY <1>1, <1>2, <1>3, <1>4 DEF NoticesInv

(* The assignment that is raised is well formed, and tells of those given. *)
LEMMA AssignmentTold ==
  ASSUME NEW to \in Person, NEW given \in SUBSET PlanRows, NEW b \in AnnounceAssignments(to, given)
  PROVE  /\ Tellable(b)
         /\ b.to = to /\ b.key = <<"visit_assigned", turn>> /\ b.of = given
<1>1. b = [Notice("visit_assigned", turn, to) EXCEPT !.of = given]
  BY DEF AnnounceAssignments
<1>2. b = [key |-> <<"visit_assigned", turn>>, to |-> to, of |-> given]
  BY <1>1 DEF Notice
<1> QED
  BY <1>2 DEF Tellable, Kind

(* Whoever is told of it holds a notice of the rows given, unread.         *)
LEMMA AssignmentHeld ==
  ASSUME NoticesInv, NEW w \in Workers, NEW to \in Person, to \in staff,
         NEW given \in SUBSET PlanRows, Notify(w, AnnounceAssignments(to, given)),
         turn' = turn + 1, UNCHANGED mailing, NEW row \in given
  PROVE  \E n \in DOMAIN notices' : n.to = to /\ ~notices'[n].read /\ row \in notices'[n].of
<1> DEFINE told == AnnounceAssignments(to, given)
           b == [Notice("visit_assigned", turn, to) EXCEPT !.of = given]
<1>1. b \in told
  BY DEF AnnounceAssignments
<1>2. \A c \in told : Tellable(c) /\ c.to = to /\ c.key = <<"visit_assigned", turn>> /\ c.of = given
  BY AssignmentTold
<1> HIDE DEF told, b
<1>3. ~Holds(b.to, b.key)
  <2>1. SUFFICES ASSUME NEW n \in DOMAIN notices, n.key = b.key PROVE FALSE
    BY DEF Holds, Copies
  <2>2. n.key = <<"visit_assigned", turn>> /\ Kind(n) = "visit_assigned" /\ n.key[2] = turn
    BY <1>1, <1>2, <2>1 DEF Kind
  <2> QED
    BY <2>2 DEF NoticesInv, NoticesShape, AboutShape
<1>4. PICK c \in told : /\ NoticeOf(b.to, b.key) = NoticeOf(c.to, c.key)
                        /\ NoticeOf(b.to, b.key) \in DOMAIN notices'
                        /\ notices'[NoticeOf(b.to, b.key)] = NoticeRow(c)
  BY <1>1, <1>2, <1>3, Notified DEF told
<1>5. NoticeOf(b.to, b.key).to = to
  BY <1>1, <1>2 DEF NoticeOf
<1>6. ~NoticeRow(c).read /\ NoticeRow(c).of = given
  BY <1>2 DEF NoticeRow
<1> QED
  BY <1>4, <1>5, <1>6

(* An edit of one row: another is counted in a notice there is, or one is  *)
(* raised; the technician holds it.                                        *)
LEMMA EditPlannedKeeps ==
  ASSUME NoticesInv, NEW w \in Workers, NEW row \in PlanRows, EditPlannedVisit(w, row)
  PROVE  NoticesInv' /\ VisitsAreAnnounced
<1>0. AboutShape /\ NoticesShape /\ subject \in Subjects /\ turn \in Nat /\ staff \subseteq Person
  BY DEF NoticesInv, AboutShape
<1>1. PICK to \in ((Technicians \cap staff) \cup {NoOne}) \ {subject.plan[row]} :
        /\ subject' = [subject EXCEPT !.plan[row] = to]
        /\ IF to # NoOne /\ Recent(to) # {}
           THEN Coalesce(to, row) /\ UNCHANGED raising
           ELSE Notify(w, IF to = NoOne THEN {} ELSE AnnounceAssignments(to, {row}))
  BY DEF EditPlannedVisit
<1>2. topic = "plan" /\ turn' = turn + 1 /\ UNCHANGED <<topic, day, people, mailing>>
  BY DEF EditPlannedVisit, Turns
<1>3. /\ subject' \in Subjects /\ subject'.plan[row] = to
      /\ \A r \in PlanRows \ {row} : subject'.plan[r] = subject.plan[r]
  <2> DEFINE next == [subject.plan EXCEPT ![row] = to]
  <2>1. next \in [PlanRows -> Technicians \cup {NoOne}]
    BY <1>0 DEF Subjects
  <2>2. subject' = [subject EXCEPT !.plan = next]
    BY <1>1
  <2>3. next[row] = to /\ \A r \in PlanRows \ {row} : next[r] = subject.plan[r]
    BY <1>0 DEF Subjects
  <2> HIDE DEF next
  <2>4. subject'.plan = next
    BY <1>0, <2>2 DEF Subjects
  <2> QED
    BY <1>0, <2>1, <2>2, <2>3, <2>4 DEF Subjects
<1>4. SUFFICES /\ NoticesInv'
               /\ to # NoOne => \E n \in DOMAIN notices' :
                                  n.to = to /\ ~notices'[n].read /\ row \in notices'[n].of
  BY <1>3 DEF VisitsAreAnnounced
<1>5. CASE to # NoOne /\ Recent(to) # {}
  <2> DEFINE newest == CHOOSE n \in Recent(to) : \A m \in Recent(to) : m.key[2] <= n.key[2]
  <2>1. newest \in Recent(to)
    BY <1>0, <1>5, NewestThere
  <2>2. notices' = [notices EXCEPT ![newest].of = @ \cup {row}] /\ UNCHANGED raising
    BY <1>1, <1>5 DEF Coalesce
  <2> HIDE DEF newest
  <2>3. /\ newest \in DOMAIN notices /\ newest.to = to /\ ~notices[newest].read
        /\ notices[newest] \in [of : SUBSET PlanRows, on : Nat, read : BOOLEAN, mails : {0, 1}]
    BY <1>0, <2>1 DEF Recent, NoticesShape
  <2>4. /\ DOMAIN notices' = DOMAIN notices
        /\ \A n \in DOMAIN notices \ {newest} : notices'[n] = notices[n]
        /\ notices'[newest] = [notices[newest] EXCEPT !.of = @ \cup {row}]
    BY <2>2, <2>3
  <2>5. /\ notices'[newest] \in [of : SUBSET PlanRows, on : Nat, read : BOOLEAN, mails : {0, 1}]
        /\ notices'[newest].mails = notices[newest].mails
        /\ ~notices'[newest].read /\ row \in notices'[newest].of
    BY <2>3, <2>4
  <2>6. NoticesInv'
    BY <1>0, <1>2, <1>3, <2>2, <2>4, <2>5, EditedKeeps DEF NoticesShape
  <2> QED
    BY <2>3, <2>4, <2>5, <2>6
<1>6. CASE ~(to # NoOne /\ Recent(to) # {})
  <2>1. CASE to = NoOne
    <3>1. Notify(w, {})
      BY <1>1, <2>1
    <3> QED
      BY <1>2, <1>3, <2>1, <3>1, OtherTopicKeeps
  <2>2. CASE to # NoOne
    <3> DEFINE told == AnnounceAssignments(to, {row})
    <3>1. to \in staff /\ to \in Person /\ {row} \in SUBSET PlanRows
      BY <1>0, <1>1, <2>2
    <3>2. Notify(w, told)
      BY <1>1, <1>6, <2>2
    <3>3. \A b \in told : Tellable(b)
      BY <3>1, AssignmentTold
    <3>4. NoticesInv'
      BY <1>2, <1>3, <3>2, <3>3, OtherTopicKeeps
    <3>5. \E n \in DOMAIN notices' : n.to = to /\ ~notices'[n].read /\ row \in notices'[n].of
      BY <1>2, <3>1, <3>2, AssignmentHeld
    <3> QED
      BY <3>4, <3>5
  <2> QED
    BY <2>1, <2>2
<1> QED
  BY <1>5, <1>6

(* Several rows given to one technician.                                   *)
LEMMA BulkKeeps ==
  ASSUME NoticesInv, NEW w \in Workers, BulkAssign(w)
  PROVE  NoticesInv' /\ VisitsAreAnnounced
<1>0. AboutShape /\ subject \in Subjects /\ staff \subseteq Person
  BY DEF NoticesInv, AboutShape
<1>1. PICK to \in Technicians \cap staff, given \in SUBSET PlanRows \ {{}} :
        /\ subject' = [subject EXCEPT !.plan = [r \in PlanRows |-> IF r \in given THEN to ELSE @[r]]]
        /\ Notify(w, AnnounceAssignments(to, {r \in given : subject.plan[r] # to}))
  BY DEF BulkAssign
<1> DEFINE news == {r \in given : subject.plan[r] # to}
           next == [r \in PlanRows |-> IF r \in given THEN to ELSE subject.plan[r]]
<1>2. topic = "plan" /\ turn' = turn + 1 /\ UNCHANGED <<topic, day, people, mailing>>
  BY DEF BulkAssign, Turns
<1>3. subject' \in Subjects /\ subject'.plan = next
  <2>1. next \in [PlanRows -> Technicians \cup {NoOne}]
    BY <1>0, <1>1 DEF Subjects
  <2>2. subject' = [subject EXCEPT !.plan = next]
    BY <1>1
  <2> HIDE DEF next
  <2> QED
    BY <1>0, <2>1, <2>2 DEF Subjects
<1>4. to \in staff /\ to \in Person /\ news \in SUBSET PlanRows
  BY <1>0, <1>1
<1>5. Notify(w, AnnounceAssignments(to, news))
  BY <1>1
<1>6. \A r \in PlanRows : subject'.plan[r] # subject.plan[r] => r \in news /\ subject'.plan[r] = to
  BY <1>3
<1> HIDE DEF news, next
<1>7. \A b \in AnnounceAssignments(to, news) : Tellable(b)
  BY <1>4, AssignmentTold
<1>8. NoticesInv'
  BY <1>2, <1>3, <1>5, <1>7, OtherTopicKeeps
<1>9. \A r \in news : \E n \in DOMAIN notices' : n.to = to /\ ~notices'[n].read /\ r \in notices'[n].of
  BY <1>2, <1>4, <1>5, AssignmentHeld
<1> QED
  BY <1>6, <1>8, <1>9 DEF VisitsAreAnnounced

(* A reader marks their own.                                               *)
LEMMA ReadingKeeps ==
  ASSUME NoticesInv, NEW p \in Person, Read(p) \/ ReadAll(p)
  PROVE  NoticesInv'
<1>0. NoticesShape
  BY DEF NoticesInv
<1>1. PICK ns : notices' = MarkRead(ns) /\ UNCHANGED <<rows, people, raising, mailing>>
  BY DEF Read, ReadAll
<1>2. /\ DOMAIN notices' = DOMAIN notices
      /\ \A n \in DOMAIN notices :
           \/ notices'[n] = notices[n]
           \/ notices'[n] = [notices[n] EXCEPT !.read = TRUE]
  BY <1>1 DEF MarkRead
<1>3. \A n \in DOMAIN notices :
        /\ notices'[n] \in [of : SUBSET PlanRows, on : Nat, read : BOOLEAN, mails : {0, 1}]
        /\ notices'[n].mails = notices[n].mails
  BY <1>0, <1>2 DEF NoticesShape
<1> QED
  BY <1>1, <1>2, <1>3, EditedKeeps DEF rows

-----------------------------------------------------------------------------
(* The rows, the staff, the clock                                          *)

(* Nothing is raised or mailed.                                            *)
LEMMA ElsewhereKeeps ==
  ASSUME NoticesInv, AboutShape', UNCHANGED <<topic, notices, raising, mailing>>,
         turn <= turn', away \subseteq away',
         topic # "fault" \/ UNCHANGED subject
  PROVE  NoticesInv'
<1>0. /\ AboutShape /\ NoticesShape /\ WorkersShape /\ MailsOnce /\ UrgentIsMailed /\ Alarmed
      /\ turn \in Nat /\ turn' \in Nat
  BY DEF NoticesInv, AboutShape
<1>1. NoticesShape' /\ WorkersShape'
  BY <1>0 DEF NoticesShape, WorkersShape, JobTellable, Kind
<1>2. MailsOnce' /\ UrgentIsMailed'
  BY <1>0 DEF MailsOnce, UrgentIsMailed, UnderWay, mailing, Kind
<1>3. Alarmed'
  BY <1>0, AlarmStays
<1> QED
  BY <1>1, <1>2, <1>3 DEF NoticesInv

(* Dates and days move; people leave, return and choose their mail.        *)
LEMMA OthersKeep ==
  ASSUME NoticesInv,
         DateMoves \/ DayPasses \/ \E p \in Person : Leaves(p) \/ Returns(p) \/ SetPreferences(p)
  PROVE  NoticesInv' /\ UNCHANGED subject.plan
<1>0. AboutShape /\ subject \in Subjects /\ turn \in Nat /\ day \in Nat /\ LastDay \in Nat
  BY NoticesAssumption DEF NoticesInv, AboutShape
<1>1. CASE DateMoves
  <2>1. subject' \in Subjects /\ subject'.plan = subject.plan
    <3>1. CASE \E date \in 1..LastDay : subject' = [subject EXCEPT !.date = date]
      BY <1>0, <3>1 DEF Subjects
    <3>2. CASE subject' = [subject EXCEPT !.stands = ~@]
      BY <1>0, <3>2 DEF Subjects
    <3>3. CASE subject' = [subject EXCEPT !.inspection = @ + 1, !.stands = TRUE]
      <4> DEFINE nth == subject.inspection + 1
      <4>1. nth \in Nat
        BY <1>0 DEF Subjects
      <4>2. subject' = [subject EXCEPT !.inspection = nth, !.stands = TRUE]
        BY <3>3
      <4> HIDE DEF nth
      <4> QED
        BY <1>0, <4>1, <4>2 DEF Subjects
    <3> QED
      BY <1>1, <3>1, <3>2, <3>3 DEF DateMoves
  <2>2. /\ topic # "fault" /\ turn' = turn + 1
        /\ UNCHANGED <<topic, day, staff, away, notices, raising, mailing>>
    BY <1>1 DEF DateMoves, Turns, people
  <2>3. AboutShape'
    BY <1>0, <2>1, <2>2 DEF AboutShape
  <2> QED
    BY <1>0, <2>1, <2>2, <2>3, ElsewhereKeeps
<1>2. CASE DayPasses
  <2>1. AboutShape'
    BY <1>0, <1>2 DEF AboutShape, DayPasses, people
  <2> QED
    BY <1>0, <1>2, <2>1, ElsewhereKeeps DEF DayPasses, people
<1>3. ASSUME NEW p \in Person, Leaves(p) \/ Returns(p) \/ SetPreferences(p)
      PROVE  NoticesInv' /\ UNCHANGED subject.plan
  <2>1. /\ turn' = turn + 1 /\ away \subseteq away'
        /\ UNCHANGED <<topic, subject, day, notices, raising, mailing>>
        /\ \/ staff' = staff \ {p} /\ away' = away \cup {p}
           \/ staff' \in {staff, staff \cup {p}} /\ away' = away
    BY <1>3 DEF Leaves, Returns, SetPreferences, Turns
  <2>2. AboutShape'
    BY <1>0, <2>1 DEF AboutShape
  <2> QED
    BY <1>0, <2>1, <2>2, ElsewhereKeeps
<1> QED
  BY <1>1, <1>2, <1>3

-----------------------------------------------------------------------------
(* Every step                                                              *)

(* Nothing has been raised at the start.                                   *)
LEMMA NoticesStart == NoticesInit => NoticesInv
<1> SUFFICES ASSUME NoticesInit PROVE NoticesInv
  OBVIOUS
<1>0. LastDay \in Nat /\ Covers[topic] \subseteq Technicians
  BY NoticesAssumption DEF NoticesInit
<1>1. AboutShape
  <2>1. subject \in Subjects
    <3>1. 1..LastDay \subseteq Nat /\ SUBSET Covers[topic] \subseteq SUBSET Technicians
      BY <1>0
    <3>2. /\ subject.date \in 1..LastDay /\ subject.covers \in SUBSET Covers[topic]
          /\ subject.plan \in [PlanRows -> {NoOne}]
      BY DEF NoticesInit
    <3>3. /\ subject.date \in Nat /\ subject.covers \in SUBSET Technicians
          /\ subject.plan \in [PlanRows -> Technicians \cup {NoOne}]
      BY <3>1, <3>2
    <3>4. /\ subject.stands \in BOOLEAN /\ subject.inspection \in Nat /\ subject.red \in BOOLEAN
          /\ subject.status = "none" /\ subject.emergency \in BOOLEAN
          /\ subject.by = NoOne /\ subject.technician = NoOne /\ subject.assigned \in Nat
      <4>1. /\ subject.stands \in {TRUE} /\ subject.inspection \in {1} /\ subject.red \in {FALSE}
            /\ subject.status \in {"none"} /\ subject.emergency \in {FALSE}
            /\ subject.by \in {NoOne} /\ subject.technician \in {NoOne} /\ subject.assigned \in {0}
        BY DEF NoticesInit
      <4>2. {TRUE} \subseteq BOOLEAN /\ {FALSE} \subseteq BOOLEAN
        OBVIOUS
      <4>3. subject.stands \in BOOLEAN /\ subject.red \in BOOLEAN /\ subject.emergency \in BOOLEAN
        BY <4>1, <4>2, Zenon
      <4>4. /\ subject.inspection \in Nat /\ subject.assigned \in Nat /\ subject.status = "none"
            /\ subject.by = NoOne /\ subject.technician = NoOne
        <5> HIDE DEF NoticesInit
        <5> QED
          BY <4>1
      <4> QED
        BY <4>3, <4>4, Zenon
    <3>5. subject = [date |-> subject.date, stands |-> subject.stands, inspection |-> subject.inspection,
                     red |-> subject.red, covers |-> subject.covers, status |-> subject.status,
                     emergency |-> subject.emergency, by |-> subject.by,
                     technician |-> subject.technician, assigned |-> subject.assigned,
                     plan |-> subject.plan]
      BY DEF NoticesInit
    <3> QED
      BY <3>3, <3>4, <3>5 DEF Subjects
  <2>2. subject.status = "none" /\ ~subject.emergency
    BY DEF NoticesInit
  <2> QED
    BY <2>1, <2>2 DEF NoticesInit, AboutShape
<1>2. DOMAIN notices = {} /\ queue = {} /\ \A w \in Workers : raising[w] = IdleWorker
  BY DEF NoticesInit
<1>3. NoticesShape /\ UrgentIsMailed
  BY <1>2 DEF NoticesShape, UrgentIsMailed
<1>4. WorkersShape
  BY DEF NoticesInit, WorkersShape, IdleWorker
<1>5. MailsOnce
  BY <1>2 DEF MailsOnce, IdleWorker
<1>6. Alarmed
  BY DEF NoticesInit, Alarmed
<1> QED
  BY <1>1, <1>3, <1>4, <1>5, <1>6 DEF NoticesInv

(* Every step keeps the invariant, and announces the visits it gives.      *)
LEMMA NoticesStep ==
  ASSUME NoticesInv, [NoticesNext]_noticesVars
  PROVE  NoticesInv' /\ VisitsAreAnnounced
<1>1. ASSUME UNCHANGED subject.plan PROVE VisitsAreAnnounced
  BY <1>1 DEF VisitsAreAnnounced
<1>2. subject \in Subjects
  BY DEF NoticesInv, AboutShape
<1>3. CASE UNCHANGED noticesVars
  <2>1. NoticesInv'
    BY <1>3, ElsewhereKeeps DEF noticesVars, rows, people, NoticesInv, AboutShape
  <2> QED
    BY <1>1, <1>3, <2>1 DEF noticesVars, rows
<1>4. ASSUME NEW w \in Workers,
             \/ JobNotifies(w) \/ JobInserts(w) \/ JobDecides(w) \/ ContractExpired(w)
             \/ Enqueue(w) \/ WorkerDies(w)
      PROVE  NoticesInv' /\ VisitsAreAnnounced
  <2>1. subject'.plan = subject.plan
    BY <1>2, <1>4 DEF JobNotifies, JobInserts, JobDecides, ContractExpired, Enqueue, WorkerDies, rows, Subjects
  <2> QED
    BY <1>1, <1>4, <2>1, JobsBegin, JobInsertsKeeps, MailingKeeps
<1>5. ASSUME NEW w \in Workers,
             ReportFault(w) \/ Escalate(w) \/ Lower(w) \/ AssignFault(w) \/ ResolveFault(w) \/ Label(w)
      PROVE  NoticesInv' /\ VisitsAreAnnounced
  <2>1. subject'.plan = subject.plan
    BY <1>2, <1>5 DEF ReportFault, Escalate, Lower, AssignFault, ResolveFault, Label, FaultBecomes, Subjects
  <2> QED
    BY <1>1, <1>5, <2>1, ReportKeeps, EscalateKeeps, AssignKeepsAlarm, LoweredOrResolved, LabelKeeps
<1>6. ASSUME NEW p \in Person, Leaves(p) \/ Returns(p) \/ SetPreferences(p) \/ Read(p) \/ ReadAll(p)
      PROVE  NoticesInv' /\ VisitsAreAnnounced
  <2>1. CASE Read(p) \/ ReadAll(p)
    <3>1. UNCHANGED subject.plan
      BY <2>1 DEF Read, ReadAll, rows
    <3> QED
      BY <1>1, <2>1, <3>1, ReadingKeeps
  <2> QED
    BY <1>1, <1>6, <2>1, OthersKeep
<1>7. ASSUME NEW n \in queue, SendNotificationEmail(n)
      PROVE  NoticesInv' /\ VisitsAreAnnounced
  <2>1. UNCHANGED subject.plan
    BY <1>7 DEF SendNotificationEmail, rows
  <2> QED
    BY <1>1, <1>7, <2>1, SendKeeps
<1> QED
  BY <1>1, <1>3, <1>4, <1>5, <1>6, <1>7, OthersKeep, BulkKeeps, EditPlannedKeeps DEF NoticesNext

(* What the invariant says of what a reader has.                           *)
LEMMA NoticesPromises == NoticesInv => ToldOnce /\ UrgentIsMailed /\ EmergenciesAreTold
<1> SUFFICES ASSUME NoticesInv PROVE ToldOnce /\ UrgentIsMailed /\ EmergenciesAreTold
  OBVIOUS
<1>1. ToldOnce
  BY DEF NoticesInv, NoticesShape, ToldOnce
<1>2. EmergenciesAreTold
  BY DEF NoticesInv, Alarmed, EmergenciesAreTold
<1> QED
  BY <1>1, <1>2 DEF NoticesInv

(* Told once; mailed where it matters, unless a worker died, the queue     *)
(* refused or the reader left; and nobody misses an emergency or a visit   *)
(* that is theirs, for any staff and workers (notify, _create_once,        *)
(* send_notification_email, _announce_assignment, coalesce_assignment).    *)
THEOREM NoticesAlwaysArrive == NoticesSpec => NoticesArrive
<1>1. NoticesSpec => []NoticesInv
  BY NoticesStart, NoticesStep, PTL DEF NoticesSpec
<1>2. NoticesInv /\ [NoticesNext]_noticesVars => [VisitsAreAnnounced]_noticesVars
  BY NoticesStep
<1> QED
  BY <1>1, <1>2, NoticesPromises, PTL DEF NoticesSpec, NoticesArrive

-----------------------------------------------------------------------------
(* Registry: the invariant                                                 *)

(* The rows of each table.                                                 *)
CustomerRow == [live : BOOLEAN, kind : {"individual", "organisation"}, tax : Numbers \cup {NoRow},
                national : Numbers \cup {NoRow}, name : Names]
ContactRow == [live : BOOLEAN, of : Customers, mail : BOOLEAN, ticked : BOOLEAN, primary : BOOLEAN]
ComplexRow == [live : BOOLEAN, of : Customers]
BuildingRow == [live : BOOLEAN, of : Customers, within : Complexes \cup {NoRow}]
LiftRow == [live : BOOLEAN, of : Buildings, number : Numbers \cup {NoRow}, token : Tokens \cup {NoRow}]
SupplierRow == [live : BOOLEAN, name : Names]
TillRow == [live : BOOLEAN, role : BOOLEAN, active : BOOLEAN, currency : Currencies,
            used : Currencies \cup {NoRow}]

RowsShape ==
  /\ record = [i \in RegistryIds |-> record[i]]
  /\ \A c \in Customers : record[c] \in CustomerRow \cup {NoRecord}
  /\ \A p \in Persons : record[p] \in ContactRow \cup {NoRecord}
  /\ \A x \in Complexes : record[x] \in ComplexRow \cup {NoRecord}
  /\ \A b \in Buildings : record[b] \in BuildingRow \cup {NoRecord}
  /\ \A l \in Lifts : record[l] \in LiftRow \cup {NoRecord}
  /\ \A s \in Suppliers : record[s] \in SupplierRow \cup {NoRecord}
  /\ \A t \in Tills : record[t] \in TillRow \cup {NoRecord}

(* What a request may be about to do, and to which row.                    *)
Requested(q) ==
  \/ q = AtRest
  \/ /\ q = [does |-> q.does, id |-> q.id, row |-> q.row]
     /\ \/ /\ q.does \in {"insert", "save"}
           /\ \/ q.id \in Customers /\ q.row \in CustomerRow /\ TypeRules(q.row)
              \/ q.id \in Persons /\ ContactFields(q.row) \in ContactRow /\ Mailable(q.row)
              \/ q.id \in Complexes /\ q.row \in ComplexRow
              \/ q.id \in Buildings /\ q.row \in BuildingRow
              \/ q.id \in Lifts /\ q.row \in LiftRow
           /\ q.row.live
        \/ q.does = "rename" /\ q.id \in Customers /\ q.row.name \in Names
        \/ q.does = "account" /\ q.id \in Customers
        \/ q.does \in {"label", "cover"} /\ q.id \in Lifts
        \/ q.does = "delete" /\ q.id \in Customers \cup Persons \cup Complexes \cup Buildings \cup Lifts
        \/ q.does = "supply" /\ q.id \in Suppliers /\ q.row \in SupplierRow /\ q.row.live
        \/ q.does = "open" /\ q.id \in Suppliers
        \/ q.does = "till" /\ q.id \in Tills /\ q.row \in TillRow /\ q.row.live
        \/ q.does = "post" /\ q.id \in Tills

ClerksShape ==
  /\ clerk = [k \in Clerks |-> clerk[k]]
  /\ \A k \in Clerks : Requested(clerk[k])

(* A row that one request is for and another is about is doubted.          *)
Clashes ==
  \A j, k \in Clerks : j # k /\ clerk[k].id \in About(clerk[j]) => clerk[k].id \in doubted \cup {NoRow}

(* An insert's row is nobody's yet; any other's is there.                  *)
Inserts ==
  \A k \in Clerks :
    LET q == clerk[k]
    IN  /\ q.does = "insert" => record[q.id] = NoRecord
        /\ q.does \notin {"nothing", "insert", "supply", "till"} => record[q.id] # NoRecord
        /\ q.id # NoRow /\ record[q.id] = NoRecord => \A j \in Clerks \ {k} : clerk[j].id # q.id

(* What a request that nobody overlapped has read is still so, as far as   *)
(* what it writes rests on it: what the row hangs from is there, nothing   *)
(* hangs from what is deleted ...                                          *)
Hangs(q) ==
  /\ q.does \in {"insert", "save"} /\ q.id \in Buildings =>
       /\ q.row.of \in Live(Customers) \cup doubted
       /\ q.row.within \in Live(Complexes) \cup doubted \cup {NoRow}
       /\ q.row.within \notin doubted \cup {NoRow} => record[q.row.within].of = q.row.of
  /\ q.does \in {"insert", "save"} /\ q.id \in Lifts => q.row.of \in Live(Buildings) \cup doubted
  /\ q.does = "cover" => q.id \in Live(Lifts) \cup doubted
  /\ q.does = "delete" /\ q.id \notin doubted => ~InUse(q.id)

(* ... an edit drops no identifier ...                                     *)
Identifies(q) ==
  q.does = "save" /\ q.id \in Customers \ doubted =>
    (q.row.kind = "individual" /\ record[q.id].kind = "individual" /\ record[q.id].national # NoRow
       => q.row.national # NoRow)

(* ... the names and the currency are the row's ...                        *)
Accounted(q) ==
  /\ q.does \in {"rename", "account", "open"} /\ q.id \notin doubted => q.row.name = record[q.id].name
  /\ q.does = "till" /\ q.id \notin doubted /\ record[q.id] # NoRecord =>
       record[q.id].used \in {NoRow, q.row.currency}

(* ... and so is the token.                                                *)
Labelled(q) ==
  q.does = "save" /\ q.id \in Lifts \ doubted => q.row.token = record[q.id].token

Pledges == \A k \in Clerks : Hangs(clerk[k]) /\ Identifies(clerk[k]) /\ Accounted(clerk[k]) /\ Labelled(clerk[k])

(* The accounts, with requests under way.                                  *)
Renaming(i) == \E k \in Clerks : clerk[k].does = "rename" /\ clerk[k].id = i

AccountsStand ==
  /\ \A c \in Live(Customers) \ doubted : Renaming(c) \/ <<c, Home>> \in DOMAIN named
  /\ \A s \in Suppliers : record[s] # NoRecord => <<s, Home>> \in DOMAIN named
  /\ \A a \in DOMAIN named :
       /\ a[1] \in Customers \cup Suppliers /\ record[a[1]] # NoRecord
       /\ a[1] \notin doubted /\ ~Renaming(a[1]) => named[a] = record[a[1]].name
  /\ \A t \in Tills \ doubted : record[t] # NoRecord => record[t].used \in {NoRow, record[t].currency}

(* Each label is one lift's, and the newest given to it.                   *)
LabelsStand ==
  /\ drawn = [l \in Lifts |-> drawn[l]]
  /\ \A l, m \in Lifts :
       l # m /\ record[l] # NoRecord /\ record[m] # NoRecord => record[l].token # record[m].token
  /\ \A l \in Live(Lifts) \ doubted : record[l].token = drawn[l]

RegistryInv ==
  /\ RowsShape /\ ClerksShape /\ Clashes /\ Inserts /\ Pledges
  /\ NothingHangsLoose /\ IdentitiesHold /\ AccountsStand /\ LabelsStand


-----------------------------------------------------------------------------
(* Rows and requests                                                       *)

(* A row is of one table.                                                  *)
LEMMA TablesApart ==
  /\ Customers \cap (Persons \cup Complexes \cup Buildings \cup Lifts \cup Suppliers \cup Tills) = {}
  /\ Persons \cap (Complexes \cup Buildings \cup Lifts \cup Suppliers \cup Tills) = {}
  /\ Complexes \cap (Buildings \cup Lifts \cup Suppliers \cup Tills) = {}
  /\ Buildings \cap (Lifts \cup Suppliers \cup Tills) = {}
  /\ Lifts \cap (Suppliers \cup Tills) = {} /\ Suppliers \cap Tills = {}
<1>1. \A s, t \in 1..7 : s # t => RecordTables[s] \cap RecordTables[t] = {}
  BY RegistryAssumption DEF RecordTables
<1>2. /\ RecordTables[1] = Customers /\ RecordTables[2] = Persons
      /\ RecordTables[3] = Complexes /\ RecordTables[4] = Buildings
      /\ RecordTables[5] = Lifts /\ RecordTables[6] = Suppliers /\ RecordTables[7] = Tills
  BY DEF RecordTables
<1>3. Customers \cap (Persons \cup Complexes \cup Buildings \cup Lifts \cup Suppliers \cup Tills) = {}
  BY <1>1, <1>2
<1>4. Persons \cap (Complexes \cup Buildings \cup Lifts \cup Suppliers \cup Tills) = {}
  BY <1>1, <1>2
<1>5. Complexes \cap (Buildings \cup Lifts \cup Suppliers \cup Tills) = {}
  BY <1>1, <1>2
<1>6. Buildings \cap (Lifts \cup Suppliers \cup Tills) = {}
  BY <1>1, <1>2
<1>7. Lifts \cap (Suppliers \cup Tills) = {} /\ Suppliers \cap Tills = {}
  BY <1>1, <1>2
<1> QED
  BY <1>3, <1>4, <1>5, <1>6, <1>7

(* A row of a table is not the mark that there is none, and stays one when *)
(* it is marked deleted.                                                   *)
LEMMA RowsThere ==
  ASSUME NEW row,
         row \in CustomerRow \cup ContactRow \cup ComplexRow \cup BuildingRow \cup LiftRow
                 \cup SupplierRow \cup TillRow
  PROVE  row # NoRecord
<1>1. NoRecord = [live |-> FALSE] /\ DOMAIN NoRecord = {"live"}
  BY DEF NoRecord
<1>2. CASE row \in CustomerRow
  BY <1>1, <1>2 DEF CustomerRow
<1>3. CASE row \in ContactRow
  BY <1>1, <1>3 DEF ContactRow
<1>4. CASE row \in ComplexRow
  BY <1>1, <1>4 DEF ComplexRow
<1>5. CASE row \in BuildingRow
  BY <1>1, <1>5 DEF BuildingRow
<1>6. CASE row \in LiftRow
  BY <1>1, <1>6 DEF LiftRow
<1>7. CASE row \in SupplierRow
  BY <1>1, <1>7 DEF SupplierRow
<1>8. CASE row \in TillRow
  BY <1>1, <1>8 DEF TillRow
<1> QED
  BY <1>2, <1>3, <1>4, <1>5, <1>6, <1>7, <1>8

(* A row marked deleted, or demoted, is still of its table.                *)
LEMMA RowsEdited ==
  /\ \A row \in CustomerRow : [row EXCEPT !.live = FALSE] \in CustomerRow
  /\ \A row \in ContactRow : /\ [row EXCEPT !.live = FALSE] \in ContactRow
                             /\ [row EXCEPT !.primary = FALSE] \in ContactRow
  /\ \A row \in ComplexRow : [row EXCEPT !.live = FALSE] \in ComplexRow
  /\ \A row \in BuildingRow : [row EXCEPT !.live = FALSE] \in BuildingRow
  /\ \A row \in LiftRow : [row EXCEPT !.live = FALSE] \in LiftRow
<1>1. \A row \in CustomerRow : [row EXCEPT !.live = FALSE] \in CustomerRow
  BY DEF CustomerRow
<1>2. \A row \in ContactRow : [row EXCEPT !.live = FALSE] \in ContactRow
  BY DEF ContactRow
<1>3. \A row \in ContactRow : [row EXCEPT !.primary = FALSE] \in ContactRow
  BY DEF ContactRow
<1>4. \A row \in ComplexRow : [row EXCEPT !.live = FALSE] \in ComplexRow
  BY DEF ComplexRow
<1>5. \A row \in BuildingRow : [row EXCEPT !.live = FALSE] \in BuildingRow
  BY DEF BuildingRow
<1>6. \A row \in LiftRow : [row EXCEPT !.live = FALSE] \in LiftRow
  BY DEF LiftRow
<1> QED
  BY <1>1, <1>2, <1>3, <1>4, <1>5, <1>6

(* What is live is a row of its table.                                     *)
LEMMA LiveRows ==
  ASSUME RowsShape
  PROVE  /\ \A c \in Live(Customers) : record[c] \in CustomerRow
         /\ \A p \in Live(Persons) : record[p] \in ContactRow
         /\ \A x \in Live(Complexes) : record[x] \in ComplexRow
         /\ \A b \in Live(Buildings) : record[b] \in BuildingRow
         /\ \A l \in Live(Lifts) : record[l] \in LiftRow
         /\ \A s \in Live(Suppliers) : record[s] \in SupplierRow
         /\ \A t \in Live(Tills) : record[t] \in TillRow
<1>1. ~NoRecord.live
  BY DEF NoRecord
<1> QED
  BY <1>1 DEF RowsShape, Live

(* A request that writes a row writes one of its table.                    *)
LEMMA RequestedRows ==
  ASSUME NEW q, Requested(q), q.does \in {"insert", "save"}
  PROVE  /\ q.id \in Customers => q.row \in CustomerRow /\ TypeRules(q.row)
         /\ q.id \in Persons => ContactFields(q.row) \in ContactRow /\ Mailable(q.row)
         /\ q.id \in Complexes => q.row \in ComplexRow
         /\ q.id \in Buildings => q.row \in BuildingRow
         /\ q.id \in Lifts => q.row \in LiftRow
         /\ q.row.live
         /\ q.id \in Customers \cup Persons \cup Complexes \cup Buildings \cup Lifts
<1>1. q # AtRest
  BY DEF AtRest
<1>2. /\ \/ q.id \in Customers /\ q.row \in CustomerRow /\ TypeRules(q.row)
         \/ q.id \in Persons /\ ContactFields(q.row) \in ContactRow /\ Mailable(q.row)
         \/ q.id \in Complexes /\ q.row \in ComplexRow
         \/ q.id \in Buildings /\ q.row \in BuildingRow
         \/ q.id \in Lifts /\ q.row \in LiftRow
      /\ q.row.live
  BY <1>1 DEF Requested
<1> QED
  BY <1>2, TablesApart

(* What a building or a lift will hang from, its request is about.         *)
LEMMA AboutHangs ==
  ASSUME NEW q
  PROVE  /\ q.id \in About(q)
         /\ q.row \in BuildingRow => q.row.of \in About(q) /\ q.row.within \in About(q)
         /\ q.row \in LiftRow => q.row.of \in About(q)
<1>1. q.row \in BuildingRow => "of" \in DOMAIN q.row /\ "within" \in DOMAIN q.row
  BY DEF BuildingRow
<1>2. q.row \in LiftRow => "of" \in DOMAIN q.row
  BY DEF LiftRow
<1> QED
  BY <1>1, <1>2 DEF About

(* A request at rest is about nothing.                                     *)
LEMMA RestAboutNothing == AtRest.id = NoRow /\ AtRest.does = "nothing" /\ About(AtRest) = {NoRow}
<1>1. AtRest.id = NoRow /\ AtRest.does = "nothing" /\ AtRest.row = NoRecord
  BY DEF AtRest
<1>2. "of" \notin DOMAIN NoRecord /\ "within" \notin DOMAIN NoRecord
  BY DEF NoRecord
<1> QED
  BY <1>1, <1>2 DEF About

(* The row of a request under way is a row.                                *)
LEMMA RequestedIds ==
  ASSUME NEW q, Requested(q), q # AtRest
  PROVE  q.id \in RegistryIds /\ q.id # NoRow /\ q = [does |-> q.does, id |-> q.id, row |-> q.row]
<1>1. q.id \in RegistryIds
  BY DEF Requested, RegistryIds
<1>2. q.id # NoRow
  BY <1>1, RegistryAssumption
<1> QED
  BY <1>1, <1>2 DEF Requested

-----------------------------------------------------------------------------
(* A request begins                                                        *)

(* The rows stand as they did, more of them doubted.                       *)
LEMMA MoreDoubts ==
  ASSUME UNCHANGED book, doubted \subseteq doubted'
  PROVE  /\ RowsShape => RowsShape'
         /\ NothingHangsLoose => NothingHangsLoose'
         /\ IdentitiesHold => IdentitiesHold'
         /\ LabelsStand => LabelsStand'
         /\ AccountsStand /\ (\A i : Renaming(i) => Renaming(i)' \/ i \in doubted') => AccountsStand'
<1>1. record' = record /\ named' = named /\ covered' = covered /\ drawn' = drawn
  BY DEF book
<1>2. RowsShape => RowsShape'
  BY <1>1 DEF RowsShape
<1>3. NothingHangsLoose => NothingHangsLoose'
  BY <1>1 DEF NothingHangsLoose, Live
<1>4. IdentitiesHold => IdentitiesHold'
  BY <1>1 DEF IdentitiesHold, Live, Below, NumbersFree
<1>5. LabelsStand => LabelsStand'
  BY <1>1 DEF LabelsStand, Live
<1>6. ASSUME AccountsStand, \A i : Renaming(i) => Renaming(i)' \/ i \in doubted'
      PROVE  AccountsStand'
  BY <1>1, <1>6 DEF AccountsStand, Live
<1> QED
  BY <1>2, <1>3, <1>4, <1>5, <1>6

(* What a request was promised, it is still.                               *)
LEMMA MoreDoubted ==
  ASSUME UNCHANGED book, doubted \subseteq doubted', NEW k \in Clerks, clerk'[k] = clerk[k],
         Hangs(clerk[k]) /\ Identifies(clerk[k]) /\ Accounted(clerk[k]) /\ Labelled(clerk[k])
  PROVE  Hangs(clerk[k])' /\ Identifies(clerk[k])' /\ Accounted(clerk[k])' /\ Labelled(clerk[k])'
<1>1. record' = record /\ named' = named /\ covered' = covered /\ drawn' = drawn
  BY DEF book
<1>2. Hangs(clerk[k])'
  BY <1>1 DEF Hangs, Live, InUse, Below
<1>3. Identifies(clerk[k])' /\ Accounted(clerk[k])' /\ Labelled(clerk[k])'
  BY <1>1 DEF Identifies, Accounted, Labelled
<1> QED
  BY <1>2, <1>3

(* A request at rest was promised nothing.                                 *)
LEMMA RestPledged == Hangs(AtRest) /\ Identifies(AtRest) /\ Accounted(AtRest) /\ Labelled(AtRest)
  BY RestAboutNothing DEF Hangs, Identifies, Accounted, Labelled

(* Clerks' requests stay apart when one of them begins.                    *)
LEMMA AsksClash ==
  ASSUME Clashes, NEW k \in Clerks, NEW q, clerk[k] = AtRest, clerk = [j \in Clerks |-> clerk[j]],
         clerk' = [clerk EXCEPT ![k] = q], doubted' = doubted \cup Clash(q)
  PROVE  Clashes'
<1>1. clerk'[k] = q /\ \A j \in Clerks \ {k} : clerk'[j] = clerk[j]
  OBVIOUS
<1>2. \A j \in Clerks : clerk[j] # AtRest =>
        ({q.id} \cap About(clerk[j])) \cup ({clerk[j].id} \cap About(q)) \subseteq Clash(q)
  BY DEF Clash
<1>3. ASSUME NEW i \in Clerks, NEW j \in Clerks, i # j, clerk'[j].id \in About(clerk'[i])
      PROVE  clerk'[j].id \in doubted' \cup {NoRow}
  <2>1. CASE i # k /\ j # k
    BY <1>1, <1>3, <2>1 DEF Clashes
  <2>2. CASE i = k
    <3>1. clerk'[j] = clerk[j] /\ clerk[j].id \in About(q)
      BY <1>1, <1>3, <2>2
    <3> QED
      BY <1>2, <3>1, RestAboutNothing
  <2>3. CASE j = k
    <3>1. clerk'[i] = clerk[i] /\ q.id \in About(clerk[i]) /\ clerk'[j] = q
      BY <1>1, <1>3, <2>3
    <3> QED
      BY <1>2, <3>1, RestAboutNothing
  <2> QED
    BY <2>1, <2>2, <2>3
<1> QED
  BY <1>3 DEF Clashes, About

(* A request that read and validated what it rests on.                     *)
LEMMA AsksKeeps ==
  ASSUME RegistryInv, NEW k \in Clerks, NEW does, NEW id, NEW row, Asks(k, does, id, row),
         NEW q, q = [does |-> does, id |-> id, row |-> row],
         Requested(q), does # "rename", id # NoRow,
         Hangs(q) /\ Identifies(q) /\ Accounted(q) /\ Labelled(q),
         does = "insert" => record[id] = NoRecord,
         does \notin {"nothing", "insert", "supply", "till"} => record[id] # NoRecord,
         record[id] = NoRecord => \A j \in Clerks : clerk[j].id # id
  PROVE  RegistryInv'
<1>1. /\ clerk[k] = AtRest /\ clerk' = [clerk EXCEPT ![k] = q] /\ doubted' = doubted \cup Clash(q)
      /\ UNCHANGED <<area, book>> /\ q.does = does /\ q.id = id
  BY DEF Asks
<1>2. UNCHANGED book /\ doubted \subseteq doubted' /\ record' = record
  BY <1>1 DEF book
<1>3. clerk = [j \in Clerks |-> clerk[j]] /\ \A j \in Clerks : Requested(clerk[j])
  BY DEF RegistryInv, ClerksShape
<1>4. clerk'[k] = q /\ \A j \in Clerks \ {k} : clerk'[j] = clerk[j]
  BY <1>1, <1>3
<1>5. ClerksShape'
  <2>1. clerk' = [j \in Clerks |-> clerk'[j]]
    BY <1>1, <1>3
  <2>2. \A j \in Clerks : Requested(clerk'[j])
    BY <1>3, <1>4
  <2> QED
    BY <2>1, <2>2 DEF ClerksShape, Requested, TypeRules, Mailable, ContactFields
<1>6. Clashes'
  BY <1>1, <1>3, AsksClash DEF RegistryInv
<1>7. Inserts'
  <2>1. \A j \in Clerks \ {k} : clerk[j].id # NoRow /\ record[clerk[j].id] = NoRecord => id # clerk[j].id
    OBVIOUS
  <2>2. Inserts
    BY DEF RegistryInv
  <2> QED
    BY <1>1, <1>2, <1>4, <2>1, <2>2 DEF Inserts
<1>8. Pledges'
  <2>1. ASSUME NEW j \in Clerks \ {k}
        PROVE  Hangs(clerk[j])' /\ Identifies(clerk[j])' /\ Accounted(clerk[j])' /\ Labelled(clerk[j])'
    <3>1. Hangs(clerk[j]) /\ Identifies(clerk[j]) /\ Accounted(clerk[j]) /\ Labelled(clerk[j])
      BY DEF RegistryInv, Pledges
    <3> QED
      BY <1>2, <1>4, <3>1, MoreDoubted
  <2>2. Hangs(clerk[k])'
    BY <1>1, <1>2, <1>4 DEF Hangs, Live, InUse, Below, book
  <2>3. Identifies(clerk[k])' /\ Accounted(clerk[k])' /\ Labelled(clerk[k])'
    BY <1>1, <1>2, <1>4 DEF Identifies, Accounted, Labelled
  <2> QED
    BY <2>1, <2>2, <2>3 DEF Pledges
<1>9. \A i : Renaming(i) => Renaming(i)'
  BY <1>1, <1>4, RestAboutNothing DEF Renaming
<1> QED
  BY <1>2, <1>5, <1>6, <1>7, <1>8, <1>9, MoreDoubts DEF RegistryInv

-----------------------------------------------------------------------------
(* A request writes                                                        *)

(* What any write leaves alone: rows that are not its own, but for who is  *)
(* primary, and where they hang.                                           *)
Wrote(k) ==
  LET id == clerk[k].id
  IN  /\ UNCHANGED doubted /\ clerk[k] # AtRest
      /\ RowsShape'
      /\ \A i \in RegistryIds \ {id} :
           \/ record'[i] = record[i]
           \/ i \in Persons /\ record[i] \in ContactRow /\ record'[i] \in ContactRow
      /\ record[id] # NoRecord \/ clerk[k].does = "insert" => record'[id] # NoRecord
      /\ covered' \subseteq covered \cup {id}
      /\ id \in Buildings /\ record'[id].live =>
           record'[id] = record[id] \/ {record'[id].of, record'[id].within} \subseteq About(clerk[k])
      /\ id \in Lifts /\ record'[id].live =>
           (record[id].live /\ record'[id].of = record[id].of) \/ record'[id].of \in About(clerk[k])

(* A row that another request is about, and nobody doubts, is not written. *)
LEMMA OthersRows ==
  ASSUME RowsShape, ClerksShape, Clashes, NEW k \in Clerks, NEW j \in Clerks, j # k, Wrote(k)
  PROVE  /\ \A i \in About(clerk[j]) \ (doubted \cup {NoRow}) :
              i # clerk[k].id /\ (i \in RegistryIds \ Persons => record'[i] = record[i])
         /\ clerk[j].id \notin doubted \cup {NoRow} => clerk[j].id \notin About(clerk[k])
<1>1. \A i \in About(clerk[j]) \ (doubted \cup {NoRow}) : i # clerk[k].id
  BY DEF Clashes
<1>2. \A i \in RegistryIds \ Persons : i # clerk[k].id => record'[i] = record[i]
  BY DEF Wrote
<1>3. clerk[j].id \notin doubted \cup {NoRow} => clerk[j].id \notin About(clerk[k])
  BY DEF Clashes
<1> QED
  BY <1>1, <1>2, <1>3

(* What another request was promised stands.                               *)
LEMMA OthersHang ==
  ASSUME RowsShape, ClerksShape, Clashes, NEW k \in Clerks, NEW j \in Clerks, j # k, Wrote(k),
         clerk'[j] = clerk[j], Hangs(clerk[j])
  PROVE  Hangs(clerk[j])'
<1> DEFINE q == clerk[j]
<1>1. /\ \A i \in About(q) \ (doubted \cup {NoRow}) :
           i # clerk[k].id /\ (i \in RegistryIds \ Persons => record'[i] = record[i])
      /\ q.id \notin doubted \cup {NoRow} => q.id \notin About(clerk[k])
  BY OthersRows
<1>2. doubted' = doubted /\ Requested(q) /\ q.id \in About(q)
  BY AboutHangs DEF Wrote, ClerksShape
<1>3. /\ Customers \cup Complexes \cup Buildings \cup Lifts \subseteq RegistryIds \ Persons
      /\ NoRow \notin RegistryIds
  BY TablesApart, RegistryAssumption DEF RegistryIds
<1>4. ASSUME q.does \in {"insert", "save"}, q.id \in Buildings
      PROVE  /\ q.row.of \in Live(Customers)' \cup doubted
             /\ q.row.within \in Live(Complexes)' \cup doubted \cup {NoRow}
             /\ q.row.within \notin doubted \cup {NoRow} => record'[q.row.within].of = q.row.of
  <2>1. q.row.of \in About(q) /\ q.row.within \in About(q)
    BY <1>2, <1>4, RequestedRows, AboutHangs
  <2>2. /\ q.row.of \in Live(Customers) \cup doubted
        /\ q.row.within \in Live(Complexes) \cup doubted \cup {NoRow}
        /\ q.row.within \notin doubted \cup {NoRow} => record[q.row.within].of = q.row.of
    BY <1>4 DEF Hangs
  <2> HIDE DEF q
  <2> QED
    BY <1>1, <1>3, <2>1, <2>2 DEF Live
<1>5. ASSUME q.does \in {"insert", "save"}, q.id \in Lifts
      PROVE  q.row.of \in Live(Buildings)' \cup doubted
  <2>1. q.row.of \in About(q)
    BY <1>2, <1>5, RequestedRows, AboutHangs
  <2>2. q.row.of \in Live(Buildings) \cup doubted
    BY <1>5 DEF Hangs
  <2> HIDE DEF q
  <2> QED
    BY <1>1, <1>3, <2>1, <2>2 DEF Live
<1>6. ASSUME q.does = "cover"
      PROVE  q.id \in Live(Lifts)' \cup doubted
  <2>1. q.id \in Live(Lifts) \cup doubted
    BY <1>6 DEF Hangs
  <2> HIDE DEF q
  <2> QED
    BY <1>1, <1>2, <1>3, <2>1 DEF Live
<1>7. ASSUME q.does = "delete", q.id \notin doubted
      PROVE  ~InUse(q.id)'
  <2>1. ~InUse(q.id)
    BY <1>7 DEF Hangs
  <2>2. q.id \in RegistryIds /\ q.id # NoRow
    BY <1>2, <1>7, RequestedIds, RestAboutNothing
  <2>3. q.id \notin About(clerk[k]) /\ q.id # clerk[k].id /\ (q.id \notin Persons => record'[q.id] = record[q.id])
    BY <1>1, <1>2, <1>7, <2>2
  <2> DEFINE id == clerk[k].id
  <2>4. ASSUME NEW b \in Live(Buildings)', q.id \in {record'[b].of, record'[b].within}
        PROVE  b \in Live(Buildings) /\ record'[b] = record[b]
    <3>1. CASE b = id
      <4>1. record'[b] = record[b] \/ {record'[b].of, record'[b].within} \subseteq About(clerk[k])
        BY <2>4, <3>1 DEF Wrote, Live
      <4>2. record'[b] = record[b]
        BY <2>3, <2>4, <4>1
      <4> QED
        BY <2>4, <4>2 DEF Live
    <3>2. CASE b # id
      <4>1. b \in RegistryIds \ Persons
        BY <1>3, <2>4 DEF Live
      <4>2. record'[b] = record[b]
        BY <3>2, <4>1 DEF Wrote
      <4> QED
        BY <2>4, <4>2 DEF Live
    <3> QED
      BY <3>1, <3>2
  <2>5. ASSUME NEW l \in Live(Lifts)', q.id = record'[l].of
        PROVE  l \in Live(Lifts) /\ record'[l].of = record[l].of
    <3>1. CASE l = id
      <4>1. \/ record[l].live /\ record'[l].of = record[l].of
            \/ record'[l].of \in About(clerk[k])
        BY <2>5, <3>1 DEF Wrote, Live
      <4> QED
        BY <2>3, <2>5, <4>1 DEF Live
    <3>2. CASE l # id
      <4>1. l \in RegistryIds \ Persons
        BY <1>3, <2>5 DEF Live
      <4>2. record'[l] = record[l]
        BY <3>2, <4>1 DEF Wrote
      <4> QED
        BY <2>5, <4>2 DEF Live
    <3> QED
      BY <3>1, <3>2
  <2>6. q.id \in covered' => q.id \in covered
    BY <2>3 DEF Wrote
  <2>7. /\ q.id \in Customers => Below(Buildings, q.id) = {}
        /\ q.id \in Complexes => \A b \in Live(Buildings) : record[b].within # q.id
        /\ q.id \in Buildings => Below(Lifts, q.id) = {}
        /\ q.id \in Lifts => q.id \notin covered
    BY <2>1 DEF InUse
  <2> HIDE DEF q, id
  <2>8. q.id \in Customers => \A b \in Live(Buildings)' : record'[b].of # q.id
    BY <2>4, <2>7 DEF Below
  <2>9. q.id \in Complexes => \A b \in Live(Buildings)' : record'[b].within # q.id
    BY <2>4, <2>7
  <2>10. q.id \in Buildings => \A l \in Live(Lifts)' : record'[l].of # q.id
    BY <2>5, <2>7 DEF Below
  <2>11. ~(\/ q.id \in Customers /\ \E b \in Live(Buildings)' : record'[b].of = q.id
           \/ q.id \in Complexes /\ \E b \in Live(Buildings)' : record'[b].within = q.id
           \/ q.id \in Buildings /\ \E l \in Live(Lifts)' : record'[l].of = q.id
           \/ q.id \in Lifts /\ q.id \in covered')
    BY <2>6, <2>7, <2>8, <2>9, <2>10
  <2> USE DEF q
  <2> QED
    BY <1>7, <2>11 DEF InUse, Below
<1> QED
  BY <1>2, <1>4, <1>5, <1>6, <1>7 DEF Hangs

(* Another request's names, currency and token stand through a write.      *)
LEMMA OthersPledged ==
  ASSUME RowsShape, ClerksShape, Clashes, NEW k \in Clerks, NEW j \in Clerks, j # k, Wrote(k),
         clerk'[j] = clerk[j],
         Identifies(clerk[j]) /\ Accounted(clerk[j]) /\ Labelled(clerk[j])
  PROVE  Identifies(clerk[j])' /\ Accounted(clerk[j])' /\ Labelled(clerk[j])'
<1> DEFINE q == clerk[j]
<1>1. doubted' = doubted /\ Requested(q) /\ q.id \in About(q)
  BY AboutHangs DEF Wrote, ClerksShape
<1>2. /\ Customers \cup Suppliers \cup Tills \cup Lifts \subseteq RegistryIds \ Persons
      /\ NoRow \notin RegistryIds
  BY TablesApart, RegistryAssumption DEF RegistryIds
<1>3. q.id \in Customers \cup Suppliers \cup Tills \cup Lifts /\ q.id \notin doubted => record'[q.id] = record[q.id]
  BY <1>1, <1>2, OthersRows
<1>4. q.does \in {"rename", "account"} => q.id \in Customers
  BY <1>1, RestAboutNothing DEF Requested
<1>5. (q.does = "open" => q.id \in Suppliers) /\ (q.does = "till" => q.id \in Tills)
  BY <1>1, RestAboutNothing DEF Requested
<1>6. Identifies(clerk[j])' /\ Labelled(clerk[j])'
  BY <1>1, <1>3 DEF Identifies, Labelled
<1>7. Accounted(clerk[j])'
  BY <1>1, <1>3, <1>4, <1>5 DEF Accounted
<1> QED
  BY <1>6, <1>7

(* A customer's write is followed by its receiver's.                       *)
Receives(k) ==
  /\ clerk'[k].does = "rename" /\ clerk'[k].id = clerk[k].id
  /\ Requested(clerk[k])' /\ About(clerk'[k]) \subseteq About(clerk[k])
  /\ record'[clerk[k].id] # NoRecord
  /\ clerk'[k].row.name = record'[clerk[k].id].name

(* Rows that were there are, and others are not yet, but for the one       *)
(* written.                                                                *)
LEMMA RowsRemain ==
  ASSUME RowsShape, ClerksShape, Inserts, NEW k \in Clerks, NEW j \in Clerks, j # k, Wrote(k),
         clerk[j] # AtRest
  PROVE  record'[clerk[j].id] = NoRecord <=> record[clerk[j].id] = NoRecord
<1> DEFINE q == clerk[j]
<1>1. q.id \in RegistryIds /\ q.id # NoRow
  BY RequestedIds DEF ClerksShape
<1>2. \A row \in ContactRow : row # NoRecord
  BY RowsThere
<1>3. ASSUME q.id # clerk[k].id PROVE record'[q.id] = NoRecord <=> record[q.id] = NoRecord
  <2>1. record'[q.id] = record[q.id] \/ (record[q.id] \in ContactRow /\ record'[q.id] \in ContactRow)
    BY <1>1, <1>3 DEF Wrote
  <2> QED
    BY <1>2, <2>1
<1>4. ASSUME q.id = clerk[k].id PROVE record'[q.id] # NoRecord /\ record[q.id] # NoRecord
  <2>1. record[q.id] # NoRecord
    BY <1>1, <1>4 DEF Inserts
  <2> QED
    BY <1>4, <2>1 DEF Wrote
<1> QED
  BY <1>3, <1>4

(* The requests, after one of them wrote and is done, or goes on to the    *)
(* accounts.                                                               *)
LEMMA WroteClerks ==
  ASSUME RegistryInv, NEW k \in Clerks, Wrote(k), clerk' = [clerk EXCEPT ![k] = clerk'[k]],
         clerk'[k] = AtRest \/ Receives(k)
  PROVE  ClerksShape' /\ Clashes' /\ Inserts' /\ Pledges'
<1>1. /\ RowsShape /\ ClerksShape /\ Clashes /\ Inserts /\ Pledges
      /\ clerk = [j \in Clerks |-> clerk[j]]
  BY DEF RegistryInv, ClerksShape
<1>2. \A j \in Clerks \ {k} : clerk'[j] = clerk[j]
  BY <1>1
<1>3. doubted' = doubted
  BY DEF Wrote
<1>4. ClerksShape'
  <2>1. clerk' = [j \in Clerks |-> clerk'[j]]
    BY <1>1
  <2>2. Requested(clerk[k])'
    <3>1. CASE clerk'[k] = AtRest
      BY <3>1 DEF Requested, AtRest
    <3> QED
      BY <3>1 DEF Receives
  <2>3. ASSUME NEW j \in Clerks \ {k} PROVE Requested(clerk[j])'
    <3>1. Requested(clerk[j])
      BY <1>1 DEF ClerksShape
    <3> QED
      BY <1>2, <3>1 DEF Requested, TypeRules, Mailable, ContactFields
  <2> QED
    BY <2>1, <2>2, <2>3 DEF ClerksShape
<1>5. clerk'[k].id \in {clerk[k].id, NoRow} /\ About(clerk'[k]) \subseteq About(clerk[k]) \cup {NoRow}
  BY RestAboutNothing DEF Receives
<1>6. Clashes'
  <2>1. \A i, j \in Clerks : i # j /\ clerk'[j].id \in About(clerk'[i]) => clerk'[j].id \in doubted \cup {NoRow}
    BY <1>1, <1>2, <1>5 DEF Clashes
  <2> QED
    BY <1>3, <2>1 DEF Clashes, About
<1>7. Inserts'
  <2>1. ASSUME NEW j \in Clerks \ {k}
        PROVE  LET q == clerk'[j]
               IN  /\ q.does = "insert" => record'[q.id] = NoRecord
                   /\ q.does \notin {"nothing", "insert", "supply", "till"} => record'[q.id] # NoRecord
                   /\ q.id # NoRow /\ record'[q.id] = NoRecord => \A i \in Clerks \ {j} : clerk'[i].id # q.id
    <3>1. CASE clerk[j] = AtRest
      BY <1>2, <3>1, RestAboutNothing
    <3>2. CASE clerk[j] # AtRest
      <4>1. record'[clerk[j].id] = NoRecord <=> record[clerk[j].id] = NoRecord
        BY <1>1, <3>2, RowsRemain
      <4> QED
        BY <1>1, <1>2, <1>5, <4>1 DEF Inserts
    <3> QED
      BY <3>1, <3>2
  <2>2. LET q == clerk'[k]
        IN  /\ q.does = "insert" => record'[q.id] = NoRecord
            /\ q.does \notin {"nothing", "insert", "supply", "till"} => record'[q.id] # NoRecord
            /\ q.id # NoRow /\ record'[q.id] = NoRecord => \A i \in Clerks \ {k} : clerk'[i].id # q.id
    BY RestAboutNothing DEF Receives
  <2> QED
    BY <2>1, <2>2 DEF Inserts
<1>8. Pledges'
  <2>1. ASSUME NEW j \in Clerks \ {k}
        PROVE  Hangs(clerk[j])' /\ Identifies(clerk[j])' /\ Accounted(clerk[j])' /\ Labelled(clerk[j])'
    <3>1. Hangs(clerk[j]) /\ Identifies(clerk[j]) /\ Accounted(clerk[j]) /\ Labelled(clerk[j])
      BY <1>1 DEF Pledges
    <3> QED
      BY <1>1, <1>2, <3>1, OthersHang, OthersPledged
  <2>2. Hangs(clerk[k])' /\ Identifies(clerk[k])' /\ Accounted(clerk[k])' /\ Labelled(clerk[k])'
    <3>1. CASE clerk'[k] = AtRest
      BY <3>1, RestAboutNothing DEF Hangs, Identifies, Accounted, Labelled
    <3>2. CASE Receives(k)
      BY <3>2 DEF Receives, Hangs, Identifies, Accounted, Labelled
    <3> QED
      BY <3>1, <3>2
  <2> QED
    BY <2>1, <2>2 DEF Pledges
<1> QED
  BY <1>4, <1>6, <1>7, <1>8

(* A row is written with one of its table.                                 *)
LEMMA RowsWritten ==
  ASSUME RowsShape, NEW i \in RegistryIds, NEW new, record' = [record EXCEPT ![i] = new],
         i \in Customers => new \in CustomerRow,
         i \in Persons => new \in ContactRow,
         i \in Complexes => new \in ComplexRow,
         i \in Buildings => new \in BuildingRow,
         i \in Lifts => new \in LiftRow,
         i \in Suppliers => new \in SupplierRow,
         i \in Tills => new \in TillRow
  PROVE  /\ RowsShape' /\ record'[i] = new /\ new # NoRecord
         /\ \A h \in RegistryIds \ {i} : record'[h] = record[h]
<1>1. record'[i] = new /\ \A h \in RegistryIds \ {i} : record'[h] = record[h]
  BY DEF RowsShape
<1>2. record' = [h \in RegistryIds |-> record'[h]]
  BY DEF RowsShape
<1>3. /\ Customers \subseteq RegistryIds /\ Persons \subseteq RegistryIds /\ Complexes \subseteq RegistryIds
      /\ Buildings \subseteq RegistryIds /\ Lifts \subseteq RegistryIds
      /\ Suppliers \subseteq RegistryIds /\ Tills \subseteq RegistryIds
  BY DEF RegistryIds
<1>4. RowsShape'
  <2>1. \A c \in Customers : record'[c] \in CustomerRow \cup {NoRecord}
    BY <1>1, <1>3 DEF RowsShape
  <2>2. \A p \in Persons : record'[p] \in ContactRow \cup {NoRecord}
    BY <1>1, <1>3 DEF RowsShape
  <2>3. \A x \in Complexes : record'[x] \in ComplexRow \cup {NoRecord}
    BY <1>1, <1>3 DEF RowsShape
  <2>4. \A b \in Buildings : record'[b] \in BuildingRow \cup {NoRecord}
    BY <1>1, <1>3 DEF RowsShape
  <2>5. \A l \in Lifts : record'[l] \in LiftRow \cup {NoRecord}
    BY <1>1, <1>3 DEF RowsShape
  <2>6. \A s \in Suppliers : record'[s] \in SupplierRow \cup {NoRecord}
    BY <1>1, <1>3 DEF RowsShape
  <2>7. \A t \in Tills : record'[t] \in TillRow \cup {NoRecord}
    BY <1>1, <1>3 DEF RowsShape
  <2> QED
    BY <1>2, <2>1, <2>2, <2>3, <2>4, <2>5, <2>6, <2>7 DEF RowsShape, CustomerRow, ContactRow, ComplexRow,
       BuildingRow, LiftRow, SupplierRow, TillRow
<1>5. new # NoRecord
  BY RowsThere DEF RegistryIds
<1> QED
  BY <1>1, <1>4, <1>5

-----------------------------------------------------------------------------
(* What each kind of write keeps                                           *)

(* Nothing comes to hang loose by a write that marks no row deleted.       *)
LEMMA NothingLoosens ==
  ASSUME RowsShape, NothingHangsLoose, NEW k \in Clerks, Wrote(k),
         \A i \in Customers \cup Complexes \cup Buildings \cup Lifts : record[i].live => record'[i].live,
         clerk[k].id \in Buildings /\ record'[clerk[k].id].live =>
           /\ record'[clerk[k].id].of \in Live(Customers) \cup doubted
           /\ record'[clerk[k].id].within \in Live(Complexes) \cup doubted \cup {NoRow},
         clerk[k].id \in Lifts /\ record'[clerk[k].id].live =>
           record'[clerk[k].id].of \in Live(Buildings) \cup doubted,
         covered' \subseteq covered \cup ({clerk[k].id} \cap (Live(Lifts) \cup doubted))
  PROVE  NothingHangsLoose'
<1> DEFINE id == clerk[k].id
<1>1. /\ \A T \in {Customers, Complexes, Buildings, Lifts} : Live(T) \subseteq Live(T)'
      /\ doubted' = doubted
  BY DEF Live, Wrote
<1>2. \A i \in (Buildings \cup Lifts) \ {id} : record'[i] = record[i]
  BY TablesApart DEF Wrote, RegistryIds
<1>3. ASSUME NEW b \in Live(Buildings)'
      PROVE  /\ record'[b].of \in Live(Customers)' \cup doubted
             /\ record'[b].within \in Live(Complexes)' \cup doubted \cup {NoRow}
  <2>1. CASE b = id
    BY <1>1, <1>3, <2>1 DEF Live
  <2>2. CASE b # id
    <3>1. b \in Live(Buildings) /\ record'[b] = record[b]
      BY <1>2, <1>3, <2>2 DEF Live
    <3>2. /\ record[b].of \in Live(Customers) \cup doubted
          /\ record[b].within \in Live(Complexes) \cup doubted \cup {NoRow}
      BY <3>1 DEF NothingHangsLoose
    <3> QED
      BY <1>1, <3>1, <3>2
  <2> QED
    BY <2>1, <2>2
<1>4. ASSUME NEW l \in Live(Lifts)'
      PROVE  record'[l].of \in Live(Buildings)' \cup doubted
  <2>1. CASE l = id
    BY <1>1, <1>4, <2>1 DEF Live
  <2>2. CASE l # id
    <3>1. l \in Live(Lifts) /\ record'[l] = record[l]
      BY <1>2, <1>4, <2>2 DEF Live
    <3>2. record[l].of \in Live(Buildings) \cup doubted
      BY <3>1 DEF NothingHangsLoose
    <3> QED
      BY <1>1, <3>1, <3>2
  <2> QED
    BY <2>1, <2>2
<1>5. covered' \subseteq Live(Lifts)' \cup doubted
  BY <1>1 DEF NothingHangsLoose
<1> QED
  BY <1>1, <1>3, <1>4, <1>5 DEF NothingHangsLoose

(* Customers and contacts nobody wrote keep what identifies them.          *)
LEMMA IdentitiesStay ==
  ASSUME IdentitiesHold,
         \A i \in Customers \cup Persons : record'[i].live => record'[i] = record[i]
  PROVE  IdentitiesHold'
<1>1. \A i \in Customers : i \in Live(Customers)' => i \in Live(Customers) /\ record'[i] = record[i]
  BY DEF Live
<1>2. \A i \in Persons : i \in Live(Persons)' => i \in Live(Persons) /\ record'[i] = record[i]
  BY DEF Live
<1>3. ASSUME NEW c \in Live(Customers)' PROVE TypeRules(record'[c]) /\ NumbersFree(c, record[c])'
  <2>1. c \in Live(Customers) /\ record'[c] = record[c]
    BY <1>1, <1>3 DEF Live
  <2>2. TypeRules(record[c]) /\ NumbersFree(c, record[c])
    BY <2>1 DEF IdentitiesHold
  <2> QED
    BY <1>1, <2>1, <2>2 DEF NumbersFree, Live
<1>4. ASSUME NEW p \in Live(Persons)'
      PROVE  /\ Mailable(record'[p])
             /\ record'[p].primary => \A q \in Below(Persons, record[p].of)' \ {p} : ~record'[q].primary
  <2>1. p \in Live(Persons) /\ record'[p] = record[p]
    BY <1>2, <1>4 DEF Live
  <2>2. /\ Mailable(record[p])
        /\ record[p].primary => \A q \in Below(Persons, record[p].of) \ {p} : ~record[q].primary
    BY <2>1 DEF IdentitiesHold
  <2> QED
    BY <1>2, <2>1, <2>2 DEF Below, Live
<1> QED
  BY <1>3, <1>4 DEF IdentitiesHold, TypeRules, Mailable, NumbersFree

(* Labels of lifts nobody wrote stay theirs.                               *)
LEMMA LabelsStay ==
  ASSUME LabelsStand, doubted' = doubted, drawn' = drawn,
         \A l \in Lifts : /\ record'[l] = NoRecord <=> record[l] = NoRecord
                          /\ record'[l] # NoRecord => record'[l].token = record[l].token
                          /\ record'[l].live => record[l].live
  PROVE  LabelsStand'
<1>1. \A l, m \in Lifts :
        l # m /\ record'[l] # NoRecord /\ record'[m] # NoRecord => record'[l].token # record'[m].token
  BY DEF LabelsStand
<1>2. ~NoRecord.live
  BY DEF NoRecord
<1>3. \A l \in Live(Lifts)' \ doubted : record'[l].token = drawn[l]
  BY <1>2 DEF LabelsStand, Live
<1> QED
  BY <1>1, <1>3 DEF LabelsStand, Live

(* The accounts stand when neither they nor a party's name changed.        *)
LEMMA AccountsStay ==
  ASSUME AccountsStand, doubted' = doubted, named' = named,
         \A i : Renaming(i) => Renaming(i)',
         \A i \in Customers \cup Suppliers :
           /\ record'[i] = NoRecord <=> record[i] = NoRecord
           /\ record'[i].live => record[i].live
           /\ record'[i].name = record[i].name,
         \A t \in Tills : record'[t] = record[t]
  PROVE  AccountsStand'
<1>1. \A c \in Live(Customers)' \ doubted : Renaming(c)' \/ <<c, Home>> \in DOMAIN named
  BY DEF AccountsStand, Live
<1>2. \A s \in Suppliers : record'[s] # NoRecord => <<s, Home>> \in DOMAIN named
  BY DEF AccountsStand
<1>3. \A a \in DOMAIN named :
        /\ a[1] \in Customers \cup Suppliers /\ record'[a[1]] # NoRecord
        /\ a[1] \notin doubted /\ ~Renaming(a[1])' => named[a] = record'[a[1]].name
  BY DEF AccountsStand
<1>4. \A t \in Tills \ doubted : record'[t] # NoRecord => record'[t].used \in {NoRow, record'[t].currency}
  BY DEF AccountsStand
<1> QED
  BY <1>1, <1>2, <1>3, <1>4 DEF AccountsStand

-----------------------------------------------------------------------------
(* The writes                                                              *)

(* A customer's row is written; its receiver is to follow.                 *)
LEMMA SaveCustomerKeeps ==
  ASSUME RegistryInv, NEW k \in Clerks, SaveCustomer(k)
  PROVE  RegistryInv'
<1> DEFINE q == clerk[k]
<1>1. /\ RowsShape /\ ClerksShape /\ Clashes /\ Inserts /\ Pledges
      /\ NothingHangsLoose /\ IdentitiesHold /\ AccountsStand /\ LabelsStand
      /\ Requested(q) /\ clerk = [j \in Clerks |-> clerk[j]]
  BY DEF RegistryInv, ClerksShape
<1>2. /\ q.does = "insert" \/ (q.does = "save" /\ record[q.id].live)
      /\ q.id \in Customers /\ NumbersFree(q.id, q.row)
      /\ record' = [record EXCEPT ![q.id] = q.row]
      /\ clerk' = [clerk EXCEPT ![k].does = "rename"]
      /\ UNCHANGED <<area, asked, doubted, named, covered, drawn>>
  BY DEF SaveCustomer, Finds, Doing
<1>3. q.row \in CustomerRow /\ TypeRules(q.row) /\ q.row.live /\ q # AtRest
  BY <1>1, <1>2, RequestedRows, RestAboutNothing
<1>4. /\ q.id \in RegistryIds
      /\ q.id \notin Persons \cup Complexes \cup Buildings \cup Lifts \cup Suppliers \cup Tills
  BY <1>2, TablesApart DEF RegistryIds
<1>5. /\ RowsShape' /\ record'[q.id] = q.row /\ q.row # NoRecord
      /\ \A h \in RegistryIds \ {q.id} : record'[h] = record[h]
  BY <1>1, <1>2, <1>3, <1>4, RowsWritten
<1>6. Wrote(k)
  BY <1>2, <1>3, <1>4, <1>5 DEF Wrote
<1>7. /\ clerk'[k] = [does |-> "rename", id |-> q.id, row |-> q.row]
      /\ \A j \in Clerks \ {k} : clerk'[j] = clerk[j]
      /\ clerk' = [clerk EXCEPT ![k] = clerk'[k]]
  <2>1. q = [does |-> q.does, id |-> q.id, row |-> q.row]
    BY <1>1, <1>3, RequestedIds
  <2>2. clerk'[k] = [q EXCEPT !.does = "rename"] /\ \A j \in Clerks \ {k} : clerk'[j] = clerk[j]
    BY <1>1, <1>2
  <2>3. clerk'[k] = [does |-> "rename", id |-> q.id, row |-> q.row]
    BY <2>1, <2>2
  <2>4. clerk' = [clerk EXCEPT ![k] = clerk'[k]]
    BY <1>1, <1>2, <2>2
  <2> QED
    BY <2>2, <2>3, <2>4
<1>8. Receives(k)
  <2>1. About(clerk'[k]) \subseteq About(q)
    BY <1>7 DEF About
  <2>2. Requested(clerk[k])'
    BY <1>2, <1>3, <1>7 DEF Requested, CustomerRow
  <2> QED
    BY <1>5, <1>7, <2>1, <2>2 DEF Receives
<1>9. ClerksShape' /\ Clashes' /\ Inserts' /\ Pledges'
  BY <1>6, <1>7, <1>8, WroteClerks
<1>10. NothingHangsLoose'
  <2>1. \A i \in Customers \cup Complexes \cup Buildings \cup Lifts : record[i].live => record'[i].live
    BY <1>3, <1>5 DEF RegistryIds
  <2> QED
    BY <1>1, <1>2, <1>4, <1>6, <2>1, NothingLoosens
<1>11. IdentitiesHold'
  <2>1. /\ \A c \in Customers \ {q.id} : record'[c] = record[c]
        /\ \A p \in Persons : record'[p] = record[p]
    BY <1>4, <1>5 DEF RegistryIds
  <2>2. ASSUME NEW c \in Live(Customers)' PROVE TypeRules(record'[c]) /\ NumbersFree(c, record[c])'
    <3>1. CASE c = q.id
      BY <1>2, <1>3, <1>5, <2>1, <3>1 DEF NumbersFree, Live
    <3>2. CASE c # q.id
      <4>1. c \in Live(Customers) /\ record'[c] = record[c]
        BY <2>1, <2>2, <3>2 DEF Live
      <4>2. TypeRules(record[c]) /\ NumbersFree(c, record[c])
        BY <1>1, <4>1 DEF IdentitiesHold
      <4>3. ASSUME NEW d \in Live(Customers)' \ {c}
            PROVE  /\ record'[c].tax # NoRow => record'[d].tax # record'[c].tax
                   /\ record'[c].national # NoRow => record'[d].national # record'[c].national
        <5>1. CASE d = q.id
          BY <1>2, <1>5, <3>2, <4>1, <5>1 DEF NumbersFree
        <5>2. CASE d # q.id
          BY <2>1, <4>1, <4>2, <4>3, <5>2 DEF NumbersFree, Live
        <5> QED
          BY <5>1, <5>2
      <4> QED
        BY <4>1, <4>2, <4>3 DEF NumbersFree
    <3> QED
      BY <3>1, <3>2
  <2>3. \A p \in Live(Persons) :
          /\ Mailable(record[p])
          /\ record[p].primary => \A r \in Below(Persons, record[p].of) \ {p} : ~record[r].primary
    BY <1>1 DEF IdentitiesHold
  <2>4. \A p \in Live(Persons)' :
          /\ Mailable(record'[p])
          /\ record'[p].primary => \A r \in Below(Persons, record[p].of)' \ {p} : ~record'[r].primary
    BY <2>1, <2>3 DEF Below, Live
  <2> QED
    BY <2>2, <2>4 DEF IdentitiesHold, TypeRules, Mailable
<1>12. AccountsStand'
  <2>1. \A i : i = q.id \/ Renaming(i) => Renaming(i)'
    BY <1>7 DEF Renaming
  <2>2. \A i \in (Customers \cup Suppliers \cup Tills) \ {q.id} : record'[i] = record[i]
    BY <1>5 DEF RegistryIds
  <2>3. q.id \notin Suppliers \cup Tills
    BY <1>4
  <2>4. ASSUME NEW c \in Live(Customers)' \ doubted, ~Renaming(c)'
        PROVE  <<c, Home>> \in DOMAIN named
    <3>1. c # q.id /\ c \in Customers
      BY <2>1, <2>4 DEF Live
    <3>2. c \in Live(Customers)
      BY <2>2, <2>4, <3>1 DEF Live
    <3> QED
      BY <1>1, <2>1, <2>4, <3>2 DEF AccountsStand
  <2>5. \A s \in Suppliers : record'[s] # NoRecord => <<s, Home>> \in DOMAIN named
    BY <1>1, <2>2, <2>3 DEF AccountsStand
  <2>6. ASSUME NEW a \in DOMAIN named
        PROVE  /\ a[1] \in Customers \cup Suppliers /\ record'[a[1]] # NoRecord
               /\ a[1] \notin doubted /\ ~Renaming(a[1])' => named[a] = record'[a[1]].name
    <3>1. /\ a[1] \in Customers \cup Suppliers /\ record[a[1]] # NoRecord
          /\ a[1] \notin doubted /\ ~Renaming(a[1]) => named[a] = record[a[1]].name
      BY <1>1 DEF AccountsStand
    <3>2. CASE a[1] = q.id
      BY <1>5, <2>1, <3>1, <3>2
    <3>3. CASE a[1] # q.id
      <4>1. record'[a[1]] = record[a[1]]
        BY <2>2, <3>1, <3>3
      <4> QED
        BY <2>1, <3>1, <4>1
    <3> QED
      BY <3>2, <3>3
  <2>7. \A t \in Tills \ doubted : record'[t] # NoRecord => record'[t].used \in {NoRow, record'[t].currency}
    BY <1>1, <2>2, <2>3 DEF AccountsStand
  <2> QED
    BY <1>2, <2>4, <2>5, <2>6, <2>7 DEF AccountsStand
<1>13. LabelsStand'
  <2>1. \A l \in Lifts : record'[l] = record[l]
    BY <1>4, <1>5 DEF RegistryIds
  <2> QED
    BY <1>1, <1>2, <2>1, LabelsStay
<1> QED
  BY <1>5, <1>9, <1>10, <1>11, <1>12, <1>13 DEF RegistryInv

(* A request that only names accounts of its party, and ends with it.      *)
LEMMA AccountsWritten ==
  ASSUME RegistryInv, NEW k \in Clerks, UNCHANGED <<record, covered, drawn, area, asked, doubted>>,
         clerk[k].does \in {"rename", "account", "open"}, clerk' = [clerk EXCEPT ![k] = AtRest],
         NEW new, named' = Named(new, clerk[k].row.name), \A a \in new : a[1] = clerk[k].id,
         Doing(k, "rename") => new = {a \in DOMAIN named : a[1] = clerk[k].id} \cup {<<clerk[k].id, Home>>}
  PROVE  RegistryInv'
<1> DEFINE q == clerk[k]
<1>1. /\ RowsShape /\ ClerksShape /\ Clashes /\ Inserts /\ Pledges
      /\ NothingHangsLoose /\ IdentitiesHold /\ AccountsStand /\ LabelsStand
      /\ Requested(q) /\ clerk = [j \in Clerks |-> clerk[j]]
  BY DEF RegistryInv, ClerksShape
<1>2. q # AtRest /\ q.id \in Customers \cup Suppliers
  BY <1>1, RestAboutNothing DEF Requested
<1>3. clerk'[k] = AtRest /\ \A j \in Clerks \ {k} : clerk'[j] = clerk[j]
  BY <1>1
<1>4. RowsShape' /\ NothingHangsLoose' /\ IdentitiesHold' /\ LabelsStand'
  <2>1. RowsShape'
    BY <1>1 DEF RowsShape
  <2>2. NothingHangsLoose' /\ IdentitiesHold' /\ LabelsStand'
    BY <1>1 DEF NothingHangsLoose, IdentitiesHold, LabelsStand, Live, Below, NumbersFree
  <2> QED
    BY <2>1, <2>2
<1>5. Wrote(k)
  <2>1. q.id \notin Buildings \cup Lifts
    BY <1>2, TablesApart
  <2> QED
    BY <1>1, <1>2, <1>4, <2>1 DEF Wrote, Inserts
<1>6. ClerksShape' /\ Clashes' /\ Inserts' /\ Pledges'
  BY <1>3, <1>5, WroteClerks
<1>7. AccountsStand'
  <2>1. /\ DOMAIN named' = DOMAIN named \cup new
        /\ \A a \in new : named'[a] = q.row.name
        /\ \A a \in DOMAIN named \ new : named'[a] = named[a]
    BY DEF Named
  <2>2. \A i : Renaming(i) => Renaming(i)' \/ (Doing(k, "rename") /\ i = q.id)
    BY <1>3 DEF Renaming, Doing
  <2>3. record[q.id] # NoRecord
    BY <1>1 DEF Inserts
  <2>4. q.id \notin doubted => q.row.name = record[q.id].name
    BY <1>1 DEF Pledges, Accounted
  <2>5. \A c \in Live(Customers) \ doubted : Renaming(c)' \/ <<c, Home>> \in DOMAIN named'
    BY <1>1, <2>1, <2>2 DEF AccountsStand
  <2>6. ASSUME NEW a \in DOMAIN named'
        PROVE  /\ a[1] \in Customers \cup Suppliers /\ record[a[1]] # NoRecord
               /\ a[1] \notin doubted /\ ~Renaming(a[1])' => named'[a] = record[a[1]].name
    <3>1. CASE a \in new
      BY <1>2, <2>1, <2>3, <2>4, <3>1
    <3>2. CASE a \notin new
      <4>1. a \in DOMAIN named /\ named'[a] = named[a]
        BY <2>1, <2>6, <3>2
      <4>2. Renaming(a[1]) => Renaming(a[1])'
        BY <2>2, <3>2, <4>1
      <4> QED
        BY <1>1, <4>1, <4>2 DEF AccountsStand
    <3> QED
      BY <3>1, <3>2
  <2> QED
    BY <1>1, <2>1, <2>5, <2>6 DEF AccountsStand, Live
<1> QED
  BY <1>4, <1>6, <1>7 DEF RegistryInv

(* The accounts that customers' and suppliers' requests write.             *)
LEMMA AccountsKeep ==
  ASSUME RegistryInv, NEW k \in Clerks,
         KeepCustomerAccount(k) \/ AccountForCustomer(k) \/ AccountOpened(k)
  PROVE  RegistryInv'
<1> DEFINE q == clerk[k]
<1>1. CASE KeepCustomerAccount(k)
  <2> DEFINE new == {a \in DOMAIN named : a[1] = q.id} \cup {<<q.id, Home>>}
  <2>1. q.does = "rename" /\ named' = Named(new, q.row.name)
    BY <1>1 DEF KeepCustomerAccount, Doing
  <2>2. \A a \in new : a[1] = q.id
    OBVIOUS
  <2>3. clerk' = [clerk EXCEPT ![k] = AtRest] /\ UNCHANGED <<record, covered, drawn, area, asked, doubted>>
    BY <1>1 DEF KeepCustomerAccount, Answers
  <2> QED
    BY <2>1, <2>2, <2>3, AccountsWritten
<1>2. CASE AccountForCustomer(k)
  <2>1. PICK currency \in Currencies : named' = Named({<<q.id, currency>>} \ DOMAIN named, q.row.name)
    BY <1>2 DEF AccountForCustomer
  <2> DEFINE new == {<<q.id, currency>>} \ DOMAIN named
  <2>2. \A a \in new : a[1] = q.id
    OBVIOUS
  <2>3. /\ q.does = "account" /\ clerk' = [clerk EXCEPT ![k] = AtRest]
        /\ UNCHANGED <<record, covered, drawn, area, asked, doubted>>
    BY <1>2 DEF AccountForCustomer, Answers, Doing
  <2>4. named' = Named(new, q.row.name)
    BY <2>1
  <2> HIDE DEF new
  <2> QED
    BY <2>2, <2>3, <2>4, AccountsWritten DEF Doing
<1>3. CASE AccountOpened(k)
  <2> DEFINE new == {<<q.id, q.row.currency>>}
  <2>1. \A a \in new : a[1] = q.id
    OBVIOUS
  <2>2. /\ q.does = "open" /\ clerk' = [clerk EXCEPT ![k] = AtRest] /\ named' = Named(new, q.row.name)
        /\ UNCHANGED <<record, covered, drawn, area, asked, doubted>>
    BY <1>3 DEF AccountOpened, Answers, Doing
  <2> HIDE DEF new
  <2> QED
    BY <2>1, <2>2, AccountsWritten DEF Doing
<1> QED
  BY <1>1, <1>2, <1>3

(* Nothing but contacts changed.                                           *)
LEMMA ContactsAlone ==
  ASSUME RegistryInv, NEW k \in Clerks, Wrote(k), clerk' = [clerk EXCEPT ![k] = AtRest],
         clerk[k].id \in Persons, clerk[k].does # "rename", UNCHANGED <<named, covered, drawn>>,
         IdentitiesHold', \A i \in RegistryIds \ Persons : record'[i] = record[i]
  PROVE  RegistryInv'
<1> DEFINE q == clerk[k]
<1>1. /\ RowsShape /\ ClerksShape /\ Clashes /\ Inserts /\ Pledges
      /\ NothingHangsLoose /\ IdentitiesHold /\ AccountsStand /\ LabelsStand
      /\ clerk = [j \in Clerks |-> clerk[j]]
  BY DEF RegistryInv, ClerksShape
<1>2. \A i \in Customers \cup Complexes \cup Buildings \cup Lifts \cup Suppliers \cup Tills :
        record'[i] = record[i]
  BY TablesApart DEF RegistryIds
<1>3. clerk'[k] = AtRest /\ \A j \in Clerks \ {k} : clerk'[j] = clerk[j]
  BY <1>1
<1>4. doubted' = doubted /\ RowsShape'
  BY DEF Wrote
<1>5. ClerksShape' /\ Clashes' /\ Inserts' /\ Pledges'
  BY <1>3, WroteClerks
<1>6. NothingHangsLoose'
  BY <1>1, <1>2, <1>4 DEF NothingHangsLoose, Live
<1>7. \A i : Renaming(i) => Renaming(i)'
  BY <1>3 DEF Renaming
<1>8. AccountsStand'
  BY <1>1, <1>2, <1>4, <1>7, AccountsStay
<1>9. LabelsStand'
  BY <1>1, <1>2, <1>4, LabelsStay
<1> QED
  BY <1>4, <1>5, <1>6, <1>8, <1>9 DEF RegistryInv

(* A contact is written, and no other of its customer's is primary.        *)
LEMMA SaveContactKeeps ==
  ASSUME RegistryInv, NEW k \in Clerks, SaveContact(k)
  PROVE  RegistryInv'
<1> DEFINE q == clerk[k]
           demoted == Demoted(q)
           new == ContactFields(q.row)
<1>1. RowsShape /\ Inserts /\ IdentitiesHold /\ Requested(q) /\ clerk = [j \in Clerks |-> clerk[j]]
  BY DEF RegistryInv, ClerksShape
<1>2. /\ q.does = "insert" \/ (q.does = "save" /\ record[q.id].live)
      /\ q.id \in Persons /\ PrimaryFree(q)
      /\ record' = [i \in DOMAIN record |->
                      CASE i = q.id -> new
                        [] i \in demoted -> [record[i] EXCEPT !.primary = FALSE]
                        [] OTHER -> record[i]]
      /\ clerk' = [clerk EXCEPT ![k] = AtRest] /\ UNCHANGED <<named, covered, drawn, doubted>>
  BY DEF SaveContact, Finds, Doing, Answers
<1>3. /\ new \in ContactRow /\ Mailable(q.row) /\ q.row.live /\ q # AtRest
      /\ new.live = q.row.live /\ new.of = q.row.of /\ new.primary = q.row.primary
      /\ new.ticked = q.row.ticked /\ new.mail = q.row.mail
  BY <1>1, <1>2, RequestedRows, RestAboutNothing DEF ContactFields
<1>4. demoted \subseteq Live(Persons) \ {q.id} /\ Persons \subseteq RegistryIds
  BY DEF Demoted, Below, RegistryIds
<1>5. DOMAIN record = RegistryIds
  BY <1>1 DEF RowsShape
<1> HIDE DEF new, demoted
<1>6. /\ record'[q.id] = new
      /\ \A i \in demoted : record'[i] = [record[i] EXCEPT !.primary = FALSE]
      /\ \A i \in RegistryIds \ (demoted \cup {q.id}) : record'[i] = record[i]
      /\ record' = [i \in RegistryIds |-> record'[i]]
  <2> DEFINE value(i) == CASE i = q.id -> new
                           [] i \in demoted -> [record[i] EXCEPT !.primary = FALSE]
                           [] OTHER -> record[i]
  <2>1. record' = [i \in RegistryIds |-> value(i)]
    BY <1>2, <1>5
  <2>2. q.id \in RegistryIds /\ demoted \subseteq RegistryIds \ {q.id}
    BY <1>2, <1>4 DEF Live
  <2>3. /\ value(q.id) = new
        /\ \A i \in demoted : value(i) = [record[i] EXCEPT !.primary = FALSE]
        /\ \A i \in RegistryIds \ (demoted \cup {q.id}) : value(i) = record[i]
    BY <2>2
  <2> HIDE DEF value
  <2>4. /\ \A i \in RegistryIds : record'[i] = value(i)
        /\ record' = [i \in RegistryIds |-> record'[i]]
    BY <2>1
  <2> QED
    BY <2>2, <2>3, <2>4
<1>7. \A i \in demoted : /\ record[i] \in ContactRow /\ record'[i] \in ContactRow
                         /\ record'[i].live = record[i].live /\ record'[i].of = record[i].of
                         /\ ~record'[i].primary
                         /\ record'[i].mail = record[i].mail /\ record'[i].ticked = record[i].ticked
  <2> SUFFICES ASSUME NEW i \in demoted
               PROVE  /\ record[i] \in ContactRow /\ record'[i] \in ContactRow
                      /\ record'[i].live = record[i].live /\ record'[i].of = record[i].of
                      /\ ~record'[i].primary
                      /\ record'[i].mail = record[i].mail /\ record'[i].ticked = record[i].ticked
    OBVIOUS
  <2>1. record[i] \in ContactRow
    BY <1>1, <1>4, LiveRows
  <2>2. record'[i] = [record[i] EXCEPT !.primary = FALSE]
    BY <1>6
  <2> QED
    BY <2>1, <2>2 DEF ContactRow
<1>8. \A i \in RegistryIds \ Persons : record'[i] = record[i]
  BY <1>2, <1>4, <1>6 DEF Live
<1>9. RowsShape'
  <2>1. \A T \in {Customers, Complexes, Buildings, Lifts, Suppliers, Tills} : \A i \in T : record'[i] = record[i]
    BY <1>8, TablesApart DEF RegistryIds
  <2>2. \A p \in Persons : record'[p] \in ContactRow \cup {NoRecord}
    <3> SUFFICES ASSUME NEW p \in Persons PROVE record'[p] \in ContactRow \cup {NoRecord}
      OBVIOUS
    <3>1. record[p] \in ContactRow \cup {NoRecord} /\ p \in RegistryIds
      BY <1>1, <1>4 DEF RowsShape
    <3>2. CASE p = q.id
      BY <1>3, <1>6, <3>2
    <3>3. CASE p \in demoted
      BY <1>7, <3>3
    <3>4. CASE p \notin demoted \cup {q.id}
      BY <1>6, <3>1, <3>4
    <3> QED
      BY <3>2, <3>3, <3>4
  <2>3. /\ \A c \in Customers : record'[c] \in CustomerRow \cup {NoRecord}
        /\ \A x \in Complexes : record'[x] \in ComplexRow \cup {NoRecord}
        /\ \A b \in Buildings : record'[b] \in BuildingRow \cup {NoRecord}
        /\ \A l \in Lifts : record'[l] \in LiftRow \cup {NoRecord}
        /\ \A s \in Suppliers : record'[s] \in SupplierRow \cup {NoRecord}
        /\ \A t \in Tills : record'[t] \in TillRow \cup {NoRecord}
    BY <1>1, <2>1 DEF RowsShape
  <2> QED
    BY <1>6, <2>2, <2>3 DEF RowsShape, CustomerRow, ContactRow, ComplexRow, BuildingRow, LiftRow,
                            SupplierRow, TillRow, NoRecord
<1>10. new # NoRecord
  BY <1>3, RowsThere
<1>11. Wrote(k)
  <2>1. q.id \notin Buildings \cup Lifts
    BY <1>2, TablesApart
  <2>2. \A i \in RegistryIds \ {q.id} :
          record'[i] = record[i] \/ (i \in Persons /\ record[i] \in ContactRow /\ record'[i] \in ContactRow)
    BY <1>4, <1>6, <1>7 DEF Live
  <2> QED
    BY <1>2, <1>3, <1>6, <1>9, <1>10, <2>1, <2>2 DEF Wrote
<1>12. IdentitiesHold'
  <2>1. \A c \in Customers : record'[c] = record[c]
    BY <1>8, TablesApart DEF RegistryIds
  <2>2. \A c \in Live(Customers)' : TypeRules(record'[c]) /\ NumbersFree(c, record[c])'
    BY <1>1, <2>1 DEF IdentitiesHold, NumbersFree, Live, TypeRules
  <2>3. \A p \in Persons \ {q.id} :
          /\ record'[p].live = record[p].live
          /\ record'[p].live => /\ record'[p].of = record[p].of
                                /\ record'[p].mail = record[p].mail /\ record'[p].ticked = record[p].ticked
          /\ record'[p].live /\ record'[p].primary => p \notin demoted /\ record[p].primary
    BY <1>4, <1>6, <1>7
  <2>4. ASSUME NEW p \in Live(Persons)' \ {q.id}, record'[p].of = q.row.of, q.row.primary
        PROVE  ~record'[p].primary
    <3>1. p \in Below(Persons, q.row.of) \ {q.id}
      BY <2>3, <2>4 DEF Below, Live
    <3>2. p \in demoted \/ ~record[p].primary
      BY <1>2, <2>4, <3>1 DEF PrimaryFree, demoted
    <3> QED
      BY <2>3, <2>4, <3>2 DEF Live
  <2>5. ASSUME NEW p \in Live(Persons)'
        PROVE  /\ Mailable(record'[p])
               /\ record'[p].primary => \A r \in Below(Persons, record[p].of)' \ {p} : ~record'[r].primary
    <3>1. CASE p = q.id
      BY <1>3, <1>6, <2>4, <3>1 DEF Below, Mailable, Live
    <3>2. CASE p # q.id
      <4>1. /\ p \in Live(Persons) /\ record'[p].of = record[p].of
            /\ record'[p].mail = record[p].mail /\ record'[p].ticked = record[p].ticked
            /\ record'[p].primary => record[p].primary
        BY <2>3, <2>5, <3>2 DEF Live
      <4>2. /\ Mailable(record[p])
            /\ record[p].primary => \A r \in Below(Persons, record[p].of) \ {p} : ~record[r].primary
        BY <1>1, <4>1 DEF IdentitiesHold
      <4>3. ASSUME NEW r \in Below(Persons, record[p].of)' \ {p}, record'[p].primary
            PROVE  ~record'[r].primary
        <5>1. r \in Live(Persons)' /\ record'[r].of = record[p].of
          BY <4>1, <4>3 DEF Below
        <5>2. CASE r = q.id
          BY <1>3, <1>6, <2>4, <2>5, <3>2, <4>1, <4>3, <5>1, <5>2
        <5>3. CASE r # q.id
          <6>1. r \in Live(Persons) /\ record[r].of = record[p].of /\ (record'[r].primary => record[r].primary)
            BY <2>3, <5>1, <5>3 DEF Live
          <6> QED
            BY <4>1, <4>2, <4>3, <6>1 DEF Below
        <5> QED
          BY <5>2, <5>3
      <4> QED
        BY <4>1, <4>2, <4>3 DEF Mailable
    <3> QED
      BY <3>1, <3>2
  <2> QED
    BY <2>2, <2>5 DEF IdentitiesHold, TypeRules, Mailable
<1> QED
  BY <1>2, <1>8, <1>11, <1>12, ContactsAlone

(* A lift's label is nobody else's, and the one last given to it.          *)
LEMMA LabelWritten ==
  ASSUME RegistryInv, NEW l \in Lifts, NEW new, record' = [record EXCEPT ![l] = new],
         TokenFree(new.token, l), UNCHANGED doubted,
         \/ drawn' = [drawn EXCEPT ![l] = new.token]
         \/ UNCHANGED drawn /\ (l \notin doubted => record[l].live /\ new.token = record[l].token)
  PROVE  LabelsStand'
<1>1. LabelsStand /\ record = [i \in RegistryIds |-> record[i]] /\ Lifts \subseteq RegistryIds
  BY DEF RegistryInv, RowsShape, RegistryIds
<1>2. record'[l] = new /\ \A m \in Lifts \ {l} : record'[m] = record[m]
  BY <1>1
<1>3. \A m, n \in Lifts :
        m # n /\ record'[m] # NoRecord /\ record'[n] # NoRecord => record'[m].token # record'[n].token
  BY <1>1, <1>2 DEF LabelsStand, TokenFree
<1>4. drawn = [m \in Lifts |-> drawn[m]]
  BY <1>1 DEF LabelsStand
<1>5. drawn' = [m \in Lifts |-> drawn'[m]]
  BY <1>4
<1>6. \A m \in Lifts \ {l} : drawn'[m] = drawn[m]
  BY <1>4
<1>7. l \notin doubted => drawn'[l] = new.token
  <2>1. CASE drawn' = [drawn EXCEPT ![l] = new.token]
    BY <1>4, <2>1
  <2>2. CASE UNCHANGED drawn /\ (l \notin doubted => record[l].live /\ new.token = record[l].token)
    BY <1>1, <2>2 DEF LabelsStand, Live
  <2> QED
    BY <2>1, <2>2
<1>8. \A m \in Live(Lifts)' \ doubted : record'[m].token = drawn'[m]
  BY <1>1, <1>2, <1>6, <1>7 DEF LabelsStand, Live
<1> QED
  BY <1>3, <1>5, <1>8 DEF LabelsStand

(* A complex, a building or a lift is written.                             *)
LEMMA EstateWritten ==
  ASSUME RegistryInv, NEW k \in Clerks, clerk' = [clerk EXCEPT ![k] = AtRest],
         UNCHANGED <<named, covered, doubted>>, clerk[k].does # "rename",
         clerk[k].id \in Complexes \cup Buildings \cup Lifts,
         NEW new, record' = [record EXCEPT ![clerk[k].id] = new], new.live,
         clerk[k].id \in Complexes => new \in ComplexRow /\ UNCHANGED drawn,
         clerk[k].id \in Buildings =>
           /\ new \in BuildingRow /\ UNCHANGED drawn
           /\ {new.of, new.within} \subseteq About(clerk[k])
           /\ new.of \in Live(Customers) \cup doubted
           /\ new.within \in Live(Complexes) \cup doubted \cup {NoRow},
         clerk[k].id \in Lifts =>
           /\ new \in LiftRow /\ LabelsStand'
           /\ (record[clerk[k].id].live /\ new.of = record[clerk[k].id].of) \/ new.of \in About(clerk[k])
           /\ new.of \in Live(Buildings) \cup doubted
  PROVE  RegistryInv'
<1> DEFINE q == clerk[k]
<1>1. /\ RowsShape /\ ClerksShape /\ Clashes /\ Inserts /\ Pledges
      /\ NothingHangsLoose /\ IdentitiesHold /\ AccountsStand /\ LabelsStand
      /\ clerk = [j \in Clerks |-> clerk[j]]
  BY DEF RegistryInv, ClerksShape
<1>2. /\ q.id \in RegistryIds
      /\ q.id \notin Customers \cup Persons \cup Suppliers \cup Tills
      /\ q.id \in Lifts => q.id \notin Complexes \cup Buildings
      /\ q.id \in Buildings => q.id \notin Complexes
  BY TablesApart DEF RegistryIds
<1>3. clerk'[k] = AtRest /\ \A j \in Clerks \ {k} : clerk'[j] = clerk[j]
  BY <1>1
<1>4. /\ RowsShape' /\ record'[q.id] = new /\ new # NoRecord
      /\ \A h \in RegistryIds \ {q.id} : record'[h] = record[h]
  BY <1>1, <1>2, RowsWritten
<1>5. q # AtRest
  BY <1>2, RegistryAssumption, RestAboutNothing
<1>6. Wrote(k)
  BY <1>2, <1>4, <1>5 DEF Wrote
<1>7. ClerksShape' /\ Clashes' /\ Inserts' /\ Pledges'
  BY <1>3, <1>6, WroteClerks
<1>8. \A i \in Customers \cup Persons \cup Suppliers \cup Tills : record'[i] = record[i]
  BY <1>2, <1>4 DEF RegistryIds
<1>9. NothingHangsLoose'
  <2>1. \A i \in Customers \cup Complexes \cup Buildings \cup Lifts : record[i].live => record'[i].live
    BY <1>4 DEF RegistryIds
  <2> QED
    BY <1>1, <1>4, <1>6, <2>1, NothingLoosens
<1>10. IdentitiesHold'
  BY <1>1, <1>8, IdentitiesStay
<1>11. AccountsStand'
  <2>1. \A i : Renaming(i) => Renaming(i)'
    BY <1>3 DEF Renaming
  <2> QED
    BY <1>1, <1>8, <2>1, AccountsStay
<1>12. LabelsStand'
  <2>1. CASE q.id \in Lifts
    BY <2>1
  <2>2. CASE q.id \notin Lifts
    <3>1. \A l \in Lifts : record'[l] = record[l]
      BY <1>4, <2>2 DEF RegistryIds
    <3>2. drawn' = drawn
      BY <2>2
    <3> QED
      BY <1>1, <3>1, <3>2, LabelsStay
  <2> QED
    BY <2>1, <2>2
<1> QED
  BY <1>4, <1>7, <1>9, <1>10, <1>11, <1>12 DEF RegistryInv

(* A complex, a building, or an edit of a lift.                            *)
LEMMA SaveEstateKeeps ==
  ASSUME RegistryInv, NEW k \in Clerks, SaveEstate(k)
  PROVE  RegistryInv'
<1> DEFINE q == clerk[k]
<1>1. Requested(q) /\ Hangs(q) /\ Labelled(q)
  BY DEF RegistryInv, ClerksShape, Pledges
<1>2. /\ q.does = "insert" \/ (q.does = "save" /\ record[q.id].live)
      /\ q.id \in Complexes \cup Buildings \cup Lifts
      /\ q.id \in Lifts => q.does = "save" /\ TokenFree(q.row.token, q.id)
      /\ record' = [record EXCEPT ![q.id] = q.row]
      /\ clerk' = [clerk EXCEPT ![k] = AtRest] /\ UNCHANGED <<named, covered, drawn, doubted>>
  BY DEF SaveEstate, Finds, Doing, Answers
<1>3. /\ q.row.live
      /\ q.id \in Complexes => q.row \in ComplexRow
      /\ q.id \in Buildings => q.row \in BuildingRow
      /\ q.id \in Lifts => q.row \in LiftRow
  BY <1>1, <1>2, RequestedRows
<1>4. q.id \in Buildings =>
        /\ {q.row.of, q.row.within} \subseteq About(q)
        /\ q.row.of \in Live(Customers) \cup doubted
        /\ q.row.within \in Live(Complexes) \cup doubted \cup {NoRow}
  BY <1>1, <1>2, <1>3, AboutHangs DEF Hangs
<1>5. q.id \in Lifts => q.row.of \in About(q) /\ q.row.of \in Live(Buildings) \cup doubted
  BY <1>1, <1>2, <1>3, AboutHangs DEF Hangs
<1>6. q.id \in Lifts => LabelsStand'
  BY <1>1, <1>2, LabelWritten DEF Labelled
<1> QED
  BY <1>2, <1>3, <1>4, <1>5, <1>6, EstateWritten

(* A token given to a lift's row makes a lift's row.                       *)
LEMMA LabelledRow ==
  ASSUME NEW row \in LiftRow, NEW t \in Tokens
  PROVE  /\ [row EXCEPT !.token = t] \in LiftRow /\ [row EXCEPT !.token = t].token = t
         /\ [row EXCEPT !.token = t].live = row.live /\ [row EXCEPT !.token = t].of = row.of
  BY DEF LiftRow

(* A new lift's label, and a new label for a lift.                         *)
LEMMA LabelsKeep ==
  ASSUME RegistryInv, NEW k \in Clerks, InsertLift(k) \/ RegenerateQrToken(k)
  PROVE  RegistryInv'
<1> DEFINE q == clerk[k]
<1>1. RowsShape /\ Requested(q) /\ Hangs(q)
  BY DEF RegistryInv, ClerksShape, Pledges
<1>2. CASE InsertLift(k)
  <2>1. q.does = "insert" /\ q.id \in Lifts
    BY <1>2 DEF InsertLift, Doing
  <2>2. q.row \in LiftRow /\ q.row.live /\ q.row.of \in About(q) /\ q.row.of \in Live(Buildings) \cup doubted
    BY <1>1, <2>1, RequestedRows, AboutHangs DEF Hangs
  <2>3. PICK t \in Tokens : /\ TokenFree(t, q.id)
                            /\ record' = [record EXCEPT ![q.id] = [q.row EXCEPT !.token = t]]
                            /\ drawn' = [drawn EXCEPT ![q.id] = t]
    BY <1>2 DEF InsertLift, GiveToken
  <2>4. clerk' = [clerk EXCEPT ![k] = AtRest] /\ UNCHANGED <<named, covered, doubted>>
    BY <1>2 DEF InsertLift, Answers
  <2> DEFINE new == [q.row EXCEPT !.token = t]
  <2>5. new \in LiftRow /\ new.token = t /\ new.live /\ new.of = q.row.of
    BY <2>2, LabelledRow
  <2>6. record' = [record EXCEPT ![q.id] = new]
    BY <2>3
  <2> HIDE DEF new
  <2>7. LabelsStand'
    BY <2>1, <2>3, <2>4, <2>5, <2>6, LabelWritten
  <2>8. q.id \notin Complexes \cup Buildings
    BY <2>1, TablesApart
  <2> QED
    BY <2>1, <2>2, <2>4, <2>5, <2>6, <2>7, <2>8, EstateWritten
<1>3. CASE RegenerateQrToken(k)
  <2>1. q.does = "label" /\ record[q.id].live
    BY <1>3 DEF RegenerateQrToken, Doing
  <2>2. q.id \in Lifts
    BY <1>1, <2>1, RestAboutNothing DEF Requested
  <2>3. q.id \in Live(Lifts) /\ record[q.id] \in LiftRow
    BY <1>1, <2>1, <2>2, LiveRows DEF Live
  <2>4. record[q.id].of \in Live(Buildings) \cup doubted
    BY <2>3 DEF RegistryInv, NothingHangsLoose
  <2>5. PICK t \in Tokens : /\ TokenFree(t, q.id)
                            /\ record' = [record EXCEPT ![q.id] = [record[q.id] EXCEPT !.token = t]]
                            /\ drawn' = [drawn EXCEPT ![q.id] = t]
    BY <1>3 DEF RegenerateQrToken, GiveToken
  <2>6. clerk' = [clerk EXCEPT ![k] = AtRest] /\ UNCHANGED <<named, covered, doubted>>
    BY <1>3 DEF RegenerateQrToken, Answers
  <2> DEFINE new == [record[q.id] EXCEPT !.token = t]
  <2>7. new \in LiftRow /\ new.token = t /\ new.live /\ new.of = record[q.id].of
    BY <2>1, <2>3, LabelledRow
  <2>8. record' = [record EXCEPT ![q.id] = new]
    BY <2>5
  <2> HIDE DEF new
  <2>9. LabelsStand'
    BY <2>2, <2>5, <2>6, <2>7, <2>8, LabelWritten
  <2>10. q.id \notin Complexes \cup Buildings
    BY <2>2, TablesApart
  <2> QED
    BY <2>1, <2>2, <2>4, <2>6, <2>7, <2>8, <2>9, <2>10, EstateWritten
<1> QED
  BY <1>2, <1>3

(* A contract takes a lift on or lets it go.                               *)
LEMMA CoveredKeeps ==
  ASSUME RegistryInv, NEW k \in Clerks, Covered(k)
  PROVE  RegistryInv'
<1> DEFINE q == clerk[k]
<1>1. /\ RowsShape /\ Inserts /\ NothingHangsLoose /\ IdentitiesHold /\ AccountsStand /\ LabelsStand
      /\ Requested(q) /\ Hangs(q) /\ clerk = [j \in Clerks |-> clerk[j]]
  BY DEF RegistryInv, ClerksShape, Pledges
<1>2. /\ q.does = "cover" /\ UNCHANGED <<record, named, drawn, doubted>>
      /\ covered' \in {covered \ {q.id}, covered \cup {q.id}} /\ clerk' = [clerk EXCEPT ![k] = AtRest]
  BY DEF Covered, Doing, Answers
<1>3. q # AtRest /\ q.id \in Lifts /\ q.id \in Live(Lifts) \cup doubted
  BY <1>1, <1>2, RestAboutNothing DEF Requested, Hangs
<1>4. clerk'[k] = AtRest /\ \A j \in Clerks \ {k} : clerk'[j] = clerk[j]
  BY <1>1, <1>2
<1>5. RowsShape' /\ IdentitiesHold' /\ LabelsStand'
  <2>1. RowsShape'
    BY <1>1, <1>2 DEF RowsShape
  <2>2. IdentitiesHold' /\ LabelsStand'
    BY <1>1, <1>2 DEF IdentitiesHold, LabelsStand, Live, Below, NumbersFree
  <2> QED
    BY <2>1, <2>2
<1>6. Wrote(k)
  <2>1. q.id \notin Buildings /\ record[q.id] # NoRecord
    BY <1>1, <1>2, <1>3, TablesApart DEF Inserts
  <2> QED
    BY <1>2, <1>3, <1>5, <2>1 DEF Wrote
<1>7. ClerksShape' /\ Clashes' /\ Inserts' /\ Pledges'
  BY <1>2, <1>4, <1>6, WroteClerks
<1>8. NothingHangsLoose'
  BY <1>1, <1>2, <1>3 DEF NothingHangsLoose, Live
<1>9. AccountsStand'
  <2>1. \A i : Renaming(i) => Renaming(i)'
    BY <1>2, <1>4 DEF Renaming
  <2> QED
    BY <1>1, <1>2, <2>1, AccountsStay
<1> QED
  BY <1>5, <1>7, <1>8, <1>9 DEF RegistryInv

(* Nothing hung from what is deleted when it was read, nor does since.     *)
LEMMA DeleteKeeps ==
  ASSUME RegistryInv, NEW k \in Clerks, Delete(k)
  PROVE  RegistryInv'
<1> DEFINE id == clerk[k].id
           new == [record[id] EXCEPT !.live = FALSE]
<1>1. /\ RowsShape /\ NothingHangsLoose /\ IdentitiesHold /\ AccountsStand /\ LabelsStand
      /\ Requested(clerk[k]) /\ Hangs(clerk[k]) /\ clerk = [j \in Clerks |-> clerk[j]]
  BY DEF RegistryInv, ClerksShape, Pledges
<1>2. /\ clerk[k].does = "delete" /\ record[id].live
      /\ record' = [record EXCEPT ![id] = new]
      /\ clerk' = [clerk EXCEPT ![k] = AtRest] /\ UNCHANGED <<named, covered, drawn, doubted>>
  BY DEF Delete, Doing, Answers
<1>3. clerk[k] # AtRest /\ id \in Customers \cup Persons \cup Complexes \cup Buildings \cup Lifts
  BY <1>1, <1>2, RestAboutNothing DEF Requested
<1>4. id \in RegistryIds /\ id \notin Suppliers \cup Tills
  BY <1>3, TablesApart DEF RegistryIds
<1>5. /\ id \in Customers => record[id] \in CustomerRow
      /\ id \in Persons => record[id] \in ContactRow
      /\ id \in Complexes => record[id] \in ComplexRow
      /\ id \in Buildings => record[id] \in BuildingRow
      /\ id \in Lifts => record[id] \in LiftRow
  BY <1>1, <1>2, LiveRows DEF Live
<1>6. /\ id \in Customers => new \in CustomerRow
      /\ id \in Persons => new \in ContactRow
      /\ id \in Complexes => new \in ComplexRow
      /\ id \in Buildings => new \in BuildingRow
      /\ id \in Lifts => new \in LiftRow
  BY <1>5, RowsEdited
<1>7. /\ ~new.live
      /\ id \in Customers => new.name = record[id].name
      /\ id \in Lifts => new.token = record[id].token
  BY <1>3, <1>5 DEF CustomerRow, ContactRow, ComplexRow, BuildingRow, LiftRow
<1> HIDE DEF new
<1>8. /\ RowsShape' /\ record'[id] = new /\ new # NoRecord
      /\ \A h \in RegistryIds \ {id} : record'[h] = record[h]
  BY <1>1, <1>2, <1>4, <1>6, RowsWritten
<1>9. record[id] # NoRecord
  BY <1>2 DEF NoRecord
<1>10. Wrote(k)
  BY <1>2, <1>3, <1>7, <1>8 DEF Wrote
<1>11. clerk'[k] = AtRest /\ \A j \in Clerks \ {k} : clerk'[j] = clerk[j]
  BY <1>1, <1>2
<1>12. ClerksShape' /\ Clashes' /\ Inserts' /\ Pledges'
  BY <1>2, <1>10, <1>11, WroteClerks
<1>13. \A i \in RegistryIds : record'[i].live => i # id /\ record'[i] = record[i]
  BY <1>7, <1>8
<1>14. \A T \in {Customers, Persons, Complexes, Buildings, Lifts, Suppliers, Tills} : T \subseteq RegistryIds
  BY DEF RegistryIds
<1>15. NothingHangsLoose'
  <2>1. \A T \in {Customers, Complexes, Buildings, Lifts} :
          Live(T)' = Live(T) \ {id} /\ \A i \in Live(T)' : record'[i] = record[i]
    BY <1>8, <1>13, <1>14 DEF Live
  <2>2. id \notin doubted => ~InUse(id)
    BY <1>1, <1>2 DEF Hangs
  <2>3. ASSUME NEW b \in Live(Buildings)'
        PROVE  /\ record'[b].of \in Live(Customers)' \cup doubted
               /\ record'[b].within \in Live(Complexes)' \cup doubted \cup {NoRow}
    <3>1. b \in Live(Buildings) /\ record'[b] = record[b]
      BY <2>1, <2>3
    <3>2. /\ record[b].of \in Live(Customers) \cup doubted
          /\ record[b].within \in Live(Complexes) \cup doubted \cup {NoRow}
      BY <1>1, <3>1 DEF NothingHangsLoose
    <3>3. id \notin doubted => /\ id \in Customers => record[b].of # id
                               /\ id \in Complexes => record[b].within # id
      BY <2>2, <3>1 DEF InUse, Below
    <3> HIDE DEF id
    <3> QED
      BY <2>1, <3>1, <3>2, <3>3 DEF Live
  <2>4. ASSUME NEW l \in Live(Lifts)'
        PROVE  record'[l].of \in Live(Buildings)' \cup doubted
    <3>1. l \in Live(Lifts) /\ record'[l] = record[l]
      BY <2>1, <2>4
    <3>2. record[l].of \in Live(Buildings) \cup doubted
      BY <1>1, <3>1 DEF NothingHangsLoose
    <3>3. id \notin doubted => (id \in Buildings => record[l].of # id)
      BY <2>2, <3>1 DEF InUse, Below
    <3> HIDE DEF id
    <3> QED
      BY <2>1, <3>1, <3>2, <3>3 DEF Live
  <2>5. covered \subseteq Live(Lifts)' \cup doubted
    BY <1>1, <2>1, <2>2 DEF NothingHangsLoose, InUse, Live
  <2> QED
    BY <1>2, <2>3, <2>4, <2>5 DEF NothingHangsLoose
<1>16. IdentitiesHold'
  BY <1>1, <1>13, <1>14, IdentitiesStay
<1>17. LabelsStand'
  <2>1. \A l \in Lifts : /\ record'[l] = NoRecord <=> record[l] = NoRecord
                         /\ record'[l] # NoRecord => record'[l].token = record[l].token
                         /\ record'[l].live => record[l].live
    BY <1>7, <1>8, <1>9, <1>13, <1>14
  <2> QED
    BY <1>1, <1>2, <2>1, LabelsStay
<1>18. AccountsStand'
  <2>1. \A i : Renaming(i) => Renaming(i)'
    BY <1>2, <1>11 DEF Renaming
  <2>2. \A i \in Customers \cup Suppliers :
           /\ record'[i] = NoRecord <=> record[i] = NoRecord
           /\ record'[i].live => record[i].live
           /\ record'[i].name = record[i].name
    BY <1>4, <1>7, <1>8, <1>9, <1>13, <1>14
  <2>3. \A t \in Tills : record'[t] = record[t]
    BY <1>4, <1>8, <1>14
  <2> QED
    BY <1>1, <1>2, <2>1, <2>2, <2>3, AccountsStay
<1> QED
  BY <1>8, <1>12, <1>15, <1>16, <1>17, <1>18 DEF RegistryInv

(* A supplier or a till is written.                                        *)
LEMMA PartyWritten ==
  ASSUME RegistryInv, NEW k \in Clerks, clerk' = [clerk EXCEPT ![k] = AtRest],
         UNCHANGED <<covered, drawn, doubted>>, clerk[k].does # "rename",
         clerk[k].id \in Suppliers \cup Tills,
         NEW new, record' = [record EXCEPT ![clerk[k].id] = new],
         clerk[k].id \in Suppliers => new \in SupplierRow,
         clerk[k].id \in Tills => new \in TillRow,
         AccountsStand'
  PROVE  RegistryInv'
<1> DEFINE q == clerk[k]
<1>1. /\ RowsShape /\ NothingHangsLoose /\ IdentitiesHold /\ LabelsStand
      /\ clerk = [j \in Clerks |-> clerk[j]]
  BY DEF RegistryInv, ClerksShape
<1>2. q.id \in RegistryIds /\ q.id \notin Customers \cup Persons \cup Complexes \cup Buildings \cup Lifts
  BY TablesApart DEF RegistryIds
<1>3. clerk'[k] = AtRest
  BY <1>1
<1>4. /\ RowsShape' /\ record'[q.id] = new /\ new # NoRecord
      /\ \A h \in RegistryIds \ {q.id} : record'[h] = record[h]
  BY <1>1, <1>2, TablesApart, RowsWritten
<1>5. q # AtRest
  BY <1>2, RegistryAssumption, RestAboutNothing
<1>6. Wrote(k)
  BY <1>2, <1>4, <1>5 DEF Wrote
<1>7. ClerksShape' /\ Clashes' /\ Inserts' /\ Pledges'
  BY <1>3, <1>6, WroteClerks
<1>8. \A i \in Customers \cup Persons \cup Complexes \cup Buildings \cup Lifts : record'[i] = record[i]
  BY <1>2, <1>4 DEF RegistryIds
<1>9. NothingHangsLoose'
  BY <1>1, <1>8 DEF NothingHangsLoose, Live
<1>10. IdentitiesHold'
  BY <1>1, <1>8, IdentitiesStay
<1>11. LabelsStand'
  BY <1>1, <1>8, LabelsStay
<1> QED
  BY <1>4, <1>7, <1>9, <1>10, <1>11 DEF RegistryInv

(* A supplier's accounts take its name with it, and a new one has one.     *)
LEMMA SaveSupplierKeeps ==
  ASSUME RegistryInv, NEW k \in Clerks, SaveSupplier(k)
  PROVE  RegistryInv'
<1> DEFINE q == clerk[k]
           first == IF record[q.id] = NoRecord THEN {<<q.id, Home>>} ELSE {}
           theirs == {a \in DOMAIN named : a[1] = q.id} \cup first
<1>1. RowsShape /\ AccountsStand /\ Requested(q) /\ clerk = [j \in Clerks |-> clerk[j]]
  BY DEF RegistryInv, ClerksShape
<1>2. /\ q.does = "supply" /\ record' = [record EXCEPT ![q.id] = q.row]
      /\ named' = Named(theirs, q.row.name)
      /\ clerk' = [clerk EXCEPT ![k] = AtRest] /\ UNCHANGED <<covered, drawn, doubted>>
  BY DEF SaveSupplier, Doing, Answers
<1>3. q.id \in Suppliers /\ q.row \in SupplierRow
  BY <1>1, <1>2, RestAboutNothing DEF Requested
<1>4. q.id \in RegistryIds /\ q.id \notin Customers \cup Tills
  BY <1>3, TablesApart DEF RegistryIds
<1>5. record'[q.id] = q.row /\ q.row # NoRecord /\ \A h \in RegistryIds \ {q.id} : record'[h] = record[h]
  BY <1>1, <1>2, <1>3, <1>4, RowsThere DEF RowsShape
<1>6. \A i \in (Customers \cup Suppliers \cup Tills) \ {q.id} : record'[i] = record[i]
  BY <1>5 DEF RegistryIds
<1>7. /\ DOMAIN named' = DOMAIN named \cup theirs
      /\ \A a \in theirs : named'[a] = q.row.name
      /\ \A a \in DOMAIN named \ theirs : named'[a] = named[a]
  BY <1>2 DEF Named
<1>8. \A i : Renaming(i) => Renaming(i)'
  BY <1>1, <1>2 DEF Renaming
<1>9. \A a \in theirs : a[1] = q.id
  OBVIOUS
<1>10. \A a \in DOMAIN named : a \notin theirs => a[1] # q.id
  OBVIOUS
<1>11. record[q.id] = NoRecord => <<q.id, Home>> \in theirs
  OBVIOUS
<1> HIDE DEF theirs, first
<1>12. \A c \in Live(Customers)' \ doubted : Renaming(c)' \/ <<c, Home>> \in DOMAIN named'
  BY <1>1, <1>4, <1>6, <1>7, <1>8 DEF AccountsStand, Live
<1>13. \A s \in Suppliers : record'[s] # NoRecord => <<s, Home>> \in DOMAIN named'
  BY <1>1, <1>6, <1>7, <1>11 DEF AccountsStand
<1>14. ASSUME NEW a \in DOMAIN named'
       PROVE  /\ a[1] \in Customers \cup Suppliers /\ record'[a[1]] # NoRecord
              /\ a[1] \notin doubted /\ ~Renaming(a[1])' => named'[a] = record'[a[1]].name
  <2>1. CASE a \in theirs
    BY <1>3, <1>5, <1>7, <1>9, <2>1
  <2>2. CASE a \notin theirs
    <3>1. a \in DOMAIN named /\ named'[a] = named[a] /\ a[1] # q.id
      BY <1>7, <1>10, <1>14, <2>2
    <3>2. /\ a[1] \in Customers \cup Suppliers /\ record[a[1]] # NoRecord
          /\ a[1] \notin doubted /\ ~Renaming(a[1]) => named[a] = record[a[1]].name
      BY <1>1, <3>1 DEF AccountsStand
    <3>3. record'[a[1]] = record[a[1]]
      BY <1>6, <3>1, <3>2
    <3> QED
      BY <1>8, <3>1, <3>2, <3>3
  <2> QED
    BY <2>1, <2>2
<1>15. \A t \in Tills \ doubted : record'[t] # NoRecord => record'[t].used \in {NoRow, record'[t].currency}
  BY <1>1, <1>4, <1>6 DEF AccountsStand
<1>16. AccountsStand'
  BY <1>2, <1>12, <1>13, <1>14, <1>15 DEF AccountsStand
<1> QED
  BY <1>2, <1>3, <1>4, <1>16, PartyWritten

(* A till is written, in a currency it was used in if it was used.         *)
LEMMA TillWritten ==
  ASSUME RegistryInv, NEW k \in Clerks, clerk' = [clerk EXCEPT ![k] = AtRest],
         UNCHANGED <<named, covered, drawn, doubted>>, clerk[k].does # "rename",
         clerk[k].id \in Tills,
         NEW new \in TillRow, record' = [record EXCEPT ![clerk[k].id] = new],
         clerk[k].id \notin doubted => new.used \in {NoRow, new.currency}
  PROVE  RegistryInv'
<1> DEFINE id == clerk[k].id
<1>1. RowsShape /\ AccountsStand /\ clerk = [j \in Clerks |-> clerk[j]]
  BY DEF RegistryInv, ClerksShape
<1>2. id \in RegistryIds /\ id \notin Customers \cup Suppliers
  BY TablesApart DEF RegistryIds
<1>3. record'[id] = new /\ \A h \in RegistryIds \ {id} : record'[h] = record[h]
  BY <1>1, <1>2 DEF RowsShape
<1>4. \A i \in (Customers \cup Suppliers \cup Tills) \ {id} : record'[i] = record[i]
  BY <1>3 DEF RegistryIds
<1>5. \A i : Renaming(i) => Renaming(i)'
  BY <1>1 DEF Renaming
<1>6. \A c \in Live(Customers)' \ doubted : Renaming(c)' \/ <<c, Home>> \in DOMAIN named
  BY <1>1, <1>2, <1>4, <1>5 DEF AccountsStand, Live
<1>7. \A s \in Suppliers : record'[s] # NoRecord => <<s, Home>> \in DOMAIN named
  BY <1>1, <1>2, <1>4 DEF AccountsStand
<1>8. \A a \in DOMAIN named :
        /\ a[1] \in Customers \cup Suppliers /\ record'[a[1]] # NoRecord
        /\ a[1] \notin doubted /\ ~Renaming(a[1])' => named[a] = record'[a[1]].name
  BY <1>1, <1>2, <1>4, <1>5 DEF AccountsStand
<1>9. \A t \in Tills \ doubted : record'[t] # NoRecord => record'[t].used \in {NoRow, record'[t].currency}
  BY <1>1, <1>3, <1>4 DEF AccountsStand
<1>10. AccountsStand'
  BY <1>6, <1>7, <1>8, <1>9 DEF AccountsStand
<1> QED
  BY <1>2, <1>10, PartyWritten

(* A till, and what is posted into it.                                     *)
LEMMA TillsKeep ==
  ASSUME RegistryInv, NEW k \in Clerks, SaveTill(k) \/ Posted(k)
  PROVE  RegistryInv'
<1> DEFINE q == clerk[k]
<1>1. RowsShape /\ AccountsStand /\ Inserts /\ Requested(q) /\ Accounted(q)
  BY DEF RegistryInv, ClerksShape, Pledges
<1>2. CASE SaveTill(k)
  <2> DEFINE used == IF record[q.id] = NoRecord THEN NoRow ELSE record[q.id].used
             new == [q.row EXCEPT !.used = used]
  <2>1. /\ q.does = "till" /\ record' = [record EXCEPT ![q.id] = new]
        /\ clerk' = [clerk EXCEPT ![k] = AtRest] /\ UNCHANGED <<named, covered, drawn, doubted>>
    BY <1>2 DEF SaveTill, Doing, Answers
  <2>2. q.id \in Tills /\ q.row \in TillRow
    BY <1>1, <2>1, RestAboutNothing DEF Requested
  <2>3. used \in Currencies \cup {NoRow}
    BY <1>1, <2>2 DEF RowsShape, TillRow
  <2>4. q.id \notin doubted => used \in {NoRow, q.row.currency}
    BY <1>1, <2>1 DEF Accounted
  <2> HIDE DEF used
  <2>5. new \in TillRow /\ new.used = used /\ new.currency = q.row.currency
    BY <2>2, <2>3 DEF TillRow
  <2> HIDE DEF new
  <2> QED
    BY <2>1, <2>2, <2>4, <2>5, TillWritten
<1>3. CASE Posted(k)
  <2> DEFINE row == record[q.id]
             used == IF row.used = NoRow THEN row.currency ELSE row.used
             new == [row EXCEPT !.used = used]
  <2>1. /\ q.does = "post" /\ record' = [record EXCEPT ![q.id].used = IF @ = NoRow THEN row.currency ELSE @]
        /\ clerk' = [clerk EXCEPT ![k] = AtRest] /\ UNCHANGED <<named, covered, drawn, doubted>>
    BY <1>3 DEF Posted, Doing, Answers
  <2>2. q.id \in Tills
    BY <1>1, <2>1, RestAboutNothing DEF Requested
  <2>3. row \in TillRow
    BY <1>1, <2>1, <2>2 DEF RowsShape, Inserts
  <2>4. q.id \notin doubted => row.used \in {NoRow, row.currency}
    BY <1>1, <2>1, <2>2 DEF AccountsStand, Inserts
  <2>5. record' = [record EXCEPT ![q.id] = new]
    BY <2>1
  <2>6. used \in Currencies \cup {NoRow} /\ (q.id \notin doubted => used \in {NoRow, row.currency})
    BY <2>3, <2>4 DEF TillRow
  <2> HIDE DEF used, row
  <2>7. new \in TillRow /\ new.used = used /\ new.currency = row.currency
    BY <2>3, <2>6 DEF TillRow
  <2> HIDE DEF new
  <2> QED
    BY <2>1, <2>2, <2>5, <2>6, <2>7, TillWritten
<1> QED
  BY <1>2, <1>3

(* A request that is cut changes nothing; a receiver that is, leaves its   *)
(* customer in doubt.                                                      *)
LEMMA AskFailsKeeps ==
  ASSUME RegistryInv, NEW k \in Clerks, AskFails(k)
  PROVE  RegistryInv'
<1>1. /\ RowsShape /\ NothingHangsLoose /\ IdentitiesHold /\ AccountsStand /\ LabelsStand
      /\ ClerksShape /\ Clashes /\ Inserts /\ Pledges /\ clerk = [j \in Clerks |-> clerk[j]]
  BY DEF RegistryInv, ClerksShape
<1>2. /\ clerk' = [clerk EXCEPT ![k] = AtRest] /\ UNCHANGED book /\ record' = record
      /\ doubted' = IF Doing(k, "rename") THEN doubted \cup {clerk[k].id} ELSE doubted
      /\ doubted \subseteq doubted'
  BY DEF AskFails, book
<1>3. clerk'[k] = AtRest /\ \A j \in Clerks \ {k} : clerk'[j] = clerk[j]
  BY <1>1, <1>2
<1>4. ClerksShape'
  <2>1. clerk' = [j \in Clerks |-> clerk'[j]]
    BY <1>1, <1>2
  <2>2. \A j \in Clerks : Requested(clerk'[j])
    BY <1>1, <1>3 DEF ClerksShape, Requested, AtRest
  <2> QED
    BY <2>1, <2>2 DEF ClerksShape, Requested, TypeRules, Mailable, ContactFields
<1>5. Clashes'
  <2>1. \A i, j \in Clerks : i # j /\ clerk'[j].id \in About(clerk'[i]) => clerk'[j].id \in doubted' \cup {NoRow}
    BY <1>1, <1>2, <1>3, RestAboutNothing DEF Clashes
  <2> QED
    BY <2>1 DEF Clashes, About
<1>6. Inserts'
  BY <1>1, <1>2, <1>3, RestAboutNothing DEF Inserts
<1>7. Pledges'
  <2>1. ASSUME NEW j \in Clerks \ {k}
        PROVE  Hangs(clerk[j])' /\ Identifies(clerk[j])' /\ Accounted(clerk[j])' /\ Labelled(clerk[j])'
    <3>1. Hangs(clerk[j]) /\ Identifies(clerk[j]) /\ Accounted(clerk[j]) /\ Labelled(clerk[j])
      BY <1>1 DEF Pledges
    <3> QED
      BY <1>2, <1>3, <3>1, MoreDoubted
  <2>2. Hangs(clerk[k])' /\ Identifies(clerk[k])' /\ Accounted(clerk[k])' /\ Labelled(clerk[k])'
    BY <1>3, RestAboutNothing DEF Hangs, Identifies, Accounted, Labelled
  <2> QED
    BY <2>1, <2>2 DEF Pledges
<1>8. \A i : Renaming(i) => Renaming(i)' \/ i \in doubted'
  BY <1>2, <1>3 DEF Renaming, Doing
<1> QED
  BY <1>1, <1>2, <1>4, <1>5, <1>6, <1>7, <1>8, MoreDoubts DEF RegistryInv

-----------------------------------------------------------------------------
(* The requests                                                            *)

(* A request for a row that is not there yet.                              *)
LEMMA FreshRow ==
  ASSUME RegistryInv, NEW id, New(id)
  PROVE  record[id] = NoRecord /\ \A j \in Clerks : clerk[j].id # id
  BY DEF New

(* A live row is there.                                                    *)
LEMMA LiveThere ==
  ASSUME NEW ids, NEW id \in Live(ids)
  PROVE  id \in ids /\ record[id] # NoRecord /\ record[id].live
  BY DEF Live, NoRecord

(* A row that hangs nowhere, of a request that promises nothing.           *)
LEMMA NothingPledged ==
  ASSUME NEW q, q.does \in {"insert", "save", "label", "post", "supply"},
         q.id \notin Buildings \cup Lifts \/ q.does = "label",
         q.does = "save" => q.id \notin Customers
  PROVE  Hangs(q) /\ Identifies(q) /\ Accounted(q) /\ Labelled(q)
  BY DEF Hangs, Identifies, Accounted, Labelled

(* Requests about customers, read and validated.                           *)
LEMMA CustomersAsk ==
  ASSUME RegistryInv, NEW k \in Clerks, CreateCustomer(k) \/ EditCustomer(k) \/ InvoiceAsks(k)
  PROVE  RegistryInv'
<1>0. RowsShape /\ Customers \subseteq RegistryIds /\ NoRow \notin RegistryIds
  BY RegistryAssumption DEF RegistryInv, RegistryIds
<1>1. CASE CreateCustomer(k)
  <2>1. PICK c \in Customers, row \in CustomerRows :
          New(c) /\ TypeRules(row) /\ Asks(k, "insert", c, row)
    BY <1>1 DEF CreateCustomer
  <2> DEFINE q == [does |-> "insert", id |-> c, row |-> row]
  <2>2. row \in CustomerRow /\ row.live
    BY DEF CustomerRows, CustomerRow
  <2>3. Requested(q)
    BY <2>1, <2>2 DEF Requested
  <2>4. Hangs(q) /\ Identifies(q) /\ Accounted(q) /\ Labelled(q)
    BY TablesApart, NothingPledged
  <2> HIDE DEF q
  <2>5. q = [does |-> "insert", id |-> c, row |-> row]
    BY DEF q
  <2> QED
    BY <1>0, <2>1, <2>3, <2>4, <2>5, FreshRow, AsksKeeps
<1>2. CASE EditCustomer(k)
  <2>1. PICK c \in Live(Customers) : \E row \in Edits(CustomerRows, record[c]) :
          TypeRules(row) /\ IdentifierGiven(row, Carried(row, record[c])) /\ Asks(k, "save", c, row)
    BY <1>2 DEF EditCustomer
  <2>2. PICK row \in CustomerRows :
          TypeRules(row) /\ IdentifierGiven(row, Carried(row, record[c])) /\ Asks(k, "save", c, row)
    BY <2>1 DEF Edits
  <2> DEFINE q == [does |-> "save", id |-> c, row |-> row]
  <2>3. row \in CustomerRow /\ row.live /\ "national" \in DOMAIN row
    BY DEF CustomerRows, CustomerRow
  <2>4. c \in Customers /\ record[c] # NoRecord
    BY LiveThere
  <2>5. Requested(q)
    BY <2>2, <2>3, <2>4 DEF Requested
  <2>6. Identifies(q)
    BY <2>2, <2>3 DEF Identifies, IdentifierGiven, Carried
  <2>7. Hangs(q) /\ Accounted(q) /\ Labelled(q)
    BY <2>4, TablesApart DEF Hangs, Accounted, Labelled
  <2> HIDE DEF q
  <2>8. q = [does |-> "save", id |-> c, row |-> row]
    BY DEF q
  <2> QED
    BY <1>0, <2>2, <2>4, <2>5, <2>6, <2>7, <2>8, AsksKeeps
<1>3. CASE InvoiceAsks(k)
  <2>1. PICK c \in Live(Customers) : Asks(k, "account", c, [name |-> record[c].name])
    BY <1>3 DEF InvoiceAsks
  <2> DEFINE row == [name |-> record[c].name]
             q == [does |-> "account", id |-> c, row |-> row]
  <2>2. c \in Customers /\ record[c] # NoRecord
    BY LiveThere
  <2>3. Requested(q)
    BY <2>2 DEF Requested
  <2>4. Hangs(q) /\ Identifies(q) /\ Accounted(q) /\ Labelled(q)
    BY DEF Hangs, Identifies, Accounted, Labelled
  <2>5. Asks(k, "account", c, row)
    BY <2>1
  <2> HIDE DEF q, row
  <2>6. q = [does |-> "account", id |-> c, row |-> row]
    BY DEF q
  <2> QED
    BY <1>0, <2>2, <2>3, <2>4, <2>5, <2>6, AsksKeeps
<1> QED
  BY <1>1, <1>2, <1>3

(* Requests about contacts, read and validated.                            *)
LEMMA ContactsAsk ==
  ASSUME RegistryInv, NEW k \in Clerks, CreateContact(k) \/ EditContact(k)
  PROVE  RegistryInv'
<1>0. RowsShape /\ Persons \subseteq RegistryIds /\ NoRow \notin RegistryIds
  BY RegistryAssumption DEF RegistryInv, RegistryIds
<1>1. CASE CreateContact(k)
  <2>1. PICK p \in Persons, row \in ContactRows(Live(Customers)) :
          New(p) /\ Mailable(row) /\ Asks(k, "insert", p, row)
    BY <1>1 DEF CreateContact
  <2> DEFINE q == [does |-> "insert", id |-> p, row |-> row]
  <2>2. ContactFields(row) \in ContactRow /\ row.live
    BY DEF ContactRows, ContactRow, ContactFields, Live
  <2>3. Requested(q)
    BY <2>1, <2>2 DEF Requested
  <2>4. Hangs(q) /\ Identifies(q) /\ Accounted(q) /\ Labelled(q)
    BY TablesApart, NothingPledged
  <2> HIDE DEF q
  <2>5. q = [does |-> "insert", id |-> p, row |-> row]
    BY DEF q
  <2> QED
    BY <1>0, <2>1, <2>3, <2>4, <2>5, FreshRow, AsksKeeps
<1>2. CASE EditContact(k)
  <2>1. PICK p \in Live(Persons) : \E edited \in Edits(ContactRows(Live(Customers) \cup {record[p].of}), record[p]) :
          LET row == Unticks(edited, Carried(edited, record[p]))
          IN  Mailable(row) /\ Asks(k, "save", p, Amended(row, record[p]))
    BY <1>2 DEF EditContact
  <2>2. p \in Persons /\ record[p] # NoRecord /\ record[p] \in ContactRow
    BY <1>0, LiveThere, LiveRows
  <2>3. PICK edited \in ContactRows(Live(Customers) \cup {record[p].of}) :
          LET row == Unticks(edited, Carried(edited, record[p]))
          IN  Mailable(row) /\ Asks(k, "save", p, Amended(row, record[p]))
    BY <2>1 DEF Edits
  <2> DEFINE row == Unticks(edited, Carried(edited, record[p]))
             amended == Amended(row, record[p])
             q == [does |-> "save", id |-> p, row |-> amended]
  <2>4. row \in ContactRow /\ row.live
    <3>1. edited \in ContactRow /\ edited.live
      BY <2>2 DEF ContactRows, ContactRow, Live
    <3>2. row \in {edited, [edited EXCEPT !.ticked = FALSE]}
      BY DEF Unticks
    <3> QED
      BY <3>1, <3>2 DEF ContactRow
  <2>5. Mailable(row) /\ Asks(k, "save", p, amended)
    BY <2>3
  <2> HIDE DEF row
  <2>6. ContactFields(amended) \in ContactRow /\ Mailable(amended) /\ amended.live
    BY <2>4, <2>5 DEF ContactFields, Amended, Mailable, ContactRow
  <2>7. Requested(q)
    BY <2>2, <2>6 DEF Requested
  <2>8. Hangs(q) /\ Identifies(q) /\ Accounted(q) /\ Labelled(q)
    BY <2>2, TablesApart, NothingPledged
  <2> HIDE DEF q, amended
  <2>9. q = [does |-> "save", id |-> p, row |-> amended]
    BY DEF q
  <2> QED
    BY <1>0, <2>2, <2>5, <2>7, <2>8, <2>9, AsksKeeps
<1> QED
  BY <1>1, <1>2

(* What nothing hangs from is asked to be deleted.                         *)
LEMMA DestroyAsks ==
  ASSUME RegistryInv, NEW k \in Clerks, Destroy(k)
  PROVE  RegistryInv'
<1>1. PICK id \in Live(Customers \cup Persons \cup Complexes \cup Buildings \cup Lifts) :
        ~InUse(id) /\ Asks(k, "delete", id, [name |-> id])
  BY DEF Destroy
<1> DEFINE row == [name |-> id]
           q == [does |-> "delete", id |-> id, row |-> row]
<1>2. id \in Customers \cup Persons \cup Complexes \cup Buildings \cup Lifts /\ record[id] # NoRecord
  BY LiveThere
<1>3. id # NoRow
  BY <1>2, RegistryAssumption DEF RegistryIds
<1>4. Requested(q)
  BY <1>2 DEF Requested
<1>5. Hangs(q) /\ Identifies(q) /\ Accounted(q) /\ Labelled(q)
  BY <1>1 DEF Hangs, Identifies, Accounted, Labelled
<1>6. Asks(k, "delete", id, row)
  BY <1>1
<1> HIDE DEF q, row
<1>7. q = [does |-> "delete", id |-> id, row |-> row]
  BY DEF q
<1> QED
  BY <1>2, <1>3, <1>4, <1>5, <1>6, <1>7, AsksKeeps

(* A complex, or a building, is asked for; it hangs from what is there.    *)
LEMMA ComplexAsks ==
  ASSUME RegistryInv, NEW k \in Clerks, CreateComplex(k) \/ EditComplex(k)
  PROVE  RegistryInv'
<1>0. RowsShape /\ Complexes \subseteq RegistryIds /\ NoRow \notin RegistryIds
  BY RegistryAssumption DEF RegistryInv, RegistryIds
<1>1. ASSUME NEW x \in Complexes, NEW row \in ComplexRow, row.live, NEW does \in {"insert", "save"},
             Asks(k, does, x, row), does = "insert" => New(x), does = "save" => record[x] # NoRecord
      PROVE  RegistryInv'
  <2> DEFINE q == [does |-> does, id |-> x, row |-> row]
  <2>1. Requested(q)
    BY <1>1 DEF Requested
  <2>2. Hangs(q) /\ Identifies(q) /\ Accounted(q) /\ Labelled(q)
    BY TablesApart, NothingPledged
  <2> HIDE DEF q
  <2>3. q = [does |-> does, id |-> x, row |-> row]
    BY DEF q
  <2> QED
    BY <1>0, <1>1, <2>1, <2>2, <2>3, FreshRow, AsksKeeps
<1>2. CASE CreateComplex(k)
  <2>1. PICK x \in Complexes, c \in Live(Customers) : New(x) /\ Asks(k, "insert", x, [live |-> TRUE, of |-> c])
    BY <1>2 DEF CreateComplex
  <2> DEFINE row == [live |-> TRUE, of |-> c]
  <2>2. row \in ComplexRow /\ row.live /\ Asks(k, "insert", x, row)
    BY <2>1 DEF ComplexRow, Live
  <2> HIDE DEF row
  <2> QED
    BY <1>1, <2>1, <2>2
<1>3. CASE EditComplex(k)
  <2>1. PICK x \in Live(Complexes), c \in Live(Customers) : Asks(k, "save", x, [record[x] EXCEPT !.of = c])
    BY <1>3 DEF EditComplex
  <2>2. x \in Complexes /\ record[x] # NoRecord /\ record[x].live /\ record[x] \in ComplexRow
    BY <1>0, LiveThere, LiveRows
  <2> DEFINE row == [record[x] EXCEPT !.of = c]
  <2>3. row \in ComplexRow /\ row.live /\ Asks(k, "save", x, row)
    BY <2>1, <2>2 DEF ComplexRow, Live
  <2> HIDE DEF row
  <2> QED
    BY <1>1, <2>2, <2>3
<1> QED
  BY <1>2, <1>3

(* Requests about buildings, read and validated.                           *)
LEMMA BuildingAsks ==
  ASSUME RegistryInv, NEW k \in Clerks, CreateBuilding(k) \/ EditBuilding(k)
  PROVE  RegistryInv'
<1>0. /\ RowsShape /\ NothingHangsLoose
      /\ Buildings \subseteq RegistryIds /\ NoRow \notin RegistryIds
  BY RegistryAssumption DEF RegistryInv, RegistryIds
<1>1. ASSUME NEW b \in Buildings, NEW row \in BuildingRow, row.live, NEW does \in {"insert", "save"},
             Asks(k, does, b, row), does = "insert" => New(b), does = "save" => record[b] # NoRecord,
             OneCustomer(row), row.of \in Live(Customers) \cup doubted,
             row.within \in Live(Complexes) \cup doubted \cup {NoRow}
      PROVE  RegistryInv'
  <2> DEFINE q == [does |-> does, id |-> b, row |-> row]
  <2>1. Requested(q)
    BY <1>1 DEF Requested
  <2>2. b \notin Customers \cup Lifts
    BY TablesApart
  <2>3. Hangs(q)
    BY <1>1, <2>2 DEF Hangs, OneCustomer
  <2>4. Identifies(q) /\ Accounted(q) /\ Labelled(q)
    BY <2>2 DEF Identifies, Accounted, Labelled
  <2> HIDE DEF q
  <2>5. q = [does |-> does, id |-> b, row |-> row]
    BY DEF q
  <2> QED
    BY <1>0, <1>1, <2>1, <2>3, <2>4, <2>5, FreshRow, AsksKeeps
<1>2. ASSUME NEW row \in BuildingForms
      PROVE  /\ row \in BuildingRow /\ row.live /\ OneCustomer(row) /\ row.of \in Live(Customers)
             /\ row.within \in Live(Complexes) \cup {NoRow}
  BY <1>2 DEF BuildingForms, BuildingRow, Live
<1>3. CASE CreateBuilding(k)
  <2>1. PICK b \in Buildings, row \in BuildingForms : New(b) /\ Asks(k, "insert", b, row)
    BY <1>3 DEF CreateBuilding
  <2> QED
    BY <1>1, <1>2, <2>1
<1>4. CASE EditBuilding(k)
  <2>1. PICK b \in Live(Buildings) :
          \E row \in BuildingForms \cup {r \in {record[b]} : OneCustomer(r)} : Asks(k, "save", b, row)
    BY <1>4 DEF EditBuilding
  <2>2. /\ b \in Buildings /\ record[b] # NoRecord /\ record[b].live /\ record[b] \in BuildingRow
        /\ record[b].of \in Live(Customers) \cup doubted
        /\ record[b].within \in Live(Complexes) \cup doubted \cup {NoRow}
    BY <1>0, LiveThere, LiveRows DEF NothingHangsLoose
  <2>3. PICK row : /\ row \in BuildingForms \/ (row = record[b] /\ OneCustomer(row))
                   /\ Asks(k, "save", b, row)
    BY <2>1
  <2>4. /\ row \in BuildingRow /\ row.live /\ OneCustomer(row)
        /\ row.of \in Live(Customers) \cup doubted
        /\ row.within \in Live(Complexes) \cup doubted \cup {NoRow}
    BY <1>2, <2>2, <2>3
  <2> QED
    BY <1>1, <2>2, <2>3, <2>4
<1> QED
  BY <1>3, <1>4

(* A lift is asked for, or a new label, or a contract wants it.            *)
LEMMA LiftAsks ==
  ASSUME RegistryInv, NEW k \in Clerks, CreateLift(k) \/ EditLift(k) \/ RegenerateQr(k) \/ ContractAsks(k)
  PROVE  RegistryInv'
<1>0. RowsShape /\ Lifts \subseteq RegistryIds /\ NoRow \notin RegistryIds
  BY RegistryAssumption DEF RegistryInv, RegistryIds
<1>1. ASSUME NEW l \in Lifts, NEW row \in LiftRow, row.live, NEW does \in {"insert", "save"},
             Asks(k, does, l, row), does = "insert" => New(l), does = "save" => record[l] # NoRecord,
             row.of \in Live(Buildings), does = "save" => row.token = record[l].token
      PROVE  RegistryInv'
  <2> DEFINE q == [does |-> does, id |-> l, row |-> row]
  <2>1. Requested(q)
    BY <1>1 DEF Requested
  <2>2. l \notin Customers \cup Buildings
    BY TablesApart
  <2>3. Hangs(q) /\ Identifies(q) /\ Accounted(q) /\ Labelled(q)
    BY <1>1, <2>2 DEF Hangs, Identifies, Accounted, Labelled
  <2> HIDE DEF q
  <2>4. q = [does |-> does, id |-> l, row |-> row]
    BY DEF q
  <2> QED
    BY <1>0, <1>1, <2>1, <2>3, <2>4, FreshRow, AsksKeeps
<1>2. CASE CreateLift(k)
  <2>1. PICK l \in Lifts, b \in Live(Buildings), n \in Numbers \cup {NoRow} :
          New(l) /\ Asks(k, "insert", l, [live |-> TRUE, of |-> b, number |-> n, token |-> NoRow])
    BY <1>2 DEF CreateLift
  <2> DEFINE row == [live |-> TRUE, of |-> b, number |-> n, token |-> NoRow]
  <2>2. row \in LiftRow /\ row.live /\ row.of \in Live(Buildings)
    BY DEF LiftRow, Live
  <2>3. New(l) /\ Asks(k, "insert", l, row)
    BY <2>1
  <2> HIDE DEF row
  <2> QED
    BY <1>1, <2>2, <2>3
<1>3. CASE EditLift(k)
  <2>1. PICK l \in Live(Lifts), b \in Live(Buildings), n \in Numbers \cup {NoRow} :
          Asks(k, "save", l, [record[l] EXCEPT !.of = b, !.number = n])
    BY <1>3 DEF EditLift
  <2>2. l \in Lifts /\ record[l] # NoRecord /\ record[l].live /\ record[l] \in LiftRow
    BY <1>0, LiveThere, LiveRows
  <2> DEFINE row == [record[l] EXCEPT !.of = b, !.number = n]
  <2>3. row \in LiftRow /\ row.live /\ row.of \in Live(Buildings) /\ row.token = record[l].token
    <3>1. [record[l] EXCEPT !.of = b] \in LiftRow
      BY <2>2 DEF LiftRow, Live
    <3>2. b \in Buildings
      BY LiveThere
    <3> QED
      BY <2>2, <3>1, <3>2 DEF LiftRow
  <2>4. Asks(k, "save", l, row)
    BY <2>1
  <2> HIDE DEF row
  <2> QED
    BY <1>1, <2>2, <2>3, <2>4
<1>4. ASSUME NEW l \in Live(Lifts), NEW does \in {"label", "cover"}, Asks(k, does, l, [of |-> l])
      PROVE  RegistryInv'
  <2> DEFINE row == [of |-> l]
             q == [does |-> does, id |-> l, row |-> row]
  <2>1. l \in Lifts /\ record[l] # NoRecord
    BY LiveThere
  <2>2. Requested(q)
    BY <2>1 DEF Requested
  <2>3. Hangs(q) /\ Identifies(q) /\ Accounted(q) /\ Labelled(q)
    BY DEF Hangs, Identifies, Accounted, Labelled
  <2>4. Asks(k, does, l, row)
    BY <1>4
  <2> HIDE DEF q, row
  <2>5. q = [does |-> does, id |-> l, row |-> row]
    BY DEF q
  <2> QED
    BY <1>0, <2>1, <2>2, <2>3, <2>4, <2>5, AsksKeeps
<1>5. CASE RegenerateQr(k) \/ ContractAsks(k)
  BY <1>4, <1>5 DEF RegenerateQr, ContractAsks
<1> QED
  BY <1>2, <1>3, <1>5

(* Suppliers, their accounts, and tills.                                   *)
LEMMA PartiesAsk ==
  ASSUME RegistryInv, NEW k \in Clerks,
         \/ CreateSupplier(k) \/ EditSupplier(k) \/ OpenAccount(k)
         \/ CreateTill(k) \/ EditTill(k) \/ PostInto(k)
  PROVE  RegistryInv'
<1>0. /\ RowsShape /\ AccountsStand
      /\ Suppliers \cup Tills \subseteq RegistryIds /\ NoRow \notin RegistryIds
      /\ (Suppliers \cup Tills) \cap (Buildings \cup Lifts) = {}
  BY RegistryAssumption, TablesApart DEF RegistryInv, RegistryIds
<1>1. ASSUME NEW id \in Suppliers \cup Tills, NEW row, NEW does \in {"supply", "open", "till", "post"},
             Asks(k, does, id, row), New(id) \/ record[id] # NoRecord,
             does \in {"open", "post"} => record[id] # NoRecord,
             does = "supply" => id \in Suppliers /\ row \in SupplierRow /\ row.live,
             does = "open" => id \in Suppliers /\ row.name = record[id].name,
             does = "till" => /\ id \in Tills /\ row \in TillRow /\ row.live
                              /\ id \notin doubted /\ record[id] # NoRecord =>
                                   record[id].used \in {NoRow, row.currency},
             does = "post" => id \in Tills
      PROVE  RegistryInv'
  <2> DEFINE q == [does |-> does, id |-> id, row |-> row]
  <2>1. Requested(q)
    BY <1>1 DEF Requested
  <2>2. Hangs(q) /\ Identifies(q) /\ Accounted(q) /\ Labelled(q)
    BY <1>1 DEF Hangs, Identifies, Accounted, Labelled
  <2> HIDE DEF q
  <2>3. q = [does |-> does, id |-> id, row |-> row]
    BY DEF q
  <2> QED
    BY <1>0, <1>1, <2>1, <2>2, <2>3, FreshRow, AsksKeeps
<1>2. CASE CreateSupplier(k)
  <2>1. PICK s \in Suppliers, n \in Names : New(s) /\ Asks(k, "supply", s, [live |-> TRUE, name |-> n])
    BY <1>2 DEF CreateSupplier
  <2> DEFINE row == [live |-> TRUE, name |-> n]
  <2>2. row \in SupplierRow /\ row.live /\ Asks(k, "supply", s, row)
    BY <2>1 DEF SupplierRow
  <2> HIDE DEF row
  <2> QED
    BY <1>1, <2>1, <2>2
<1>3. CASE EditSupplier(k)
  <2>1. PICK s \in Live(Suppliers), n \in Names : Asks(k, "supply", s, [record[s] EXCEPT !.name = n])
    BY <1>3 DEF EditSupplier
  <2>2. s \in Suppliers /\ record[s] # NoRecord /\ record[s].live /\ record[s] \in SupplierRow
    BY <1>0, LiveThere, LiveRows
  <2> DEFINE row == [record[s] EXCEPT !.name = n]
  <2>3. row \in SupplierRow /\ row.live /\ Asks(k, "supply", s, row)
    BY <2>1, <2>2 DEF SupplierRow
  <2> HIDE DEF row
  <2> QED
    BY <1>1, <2>2, <2>3
<1>4. CASE OpenAccount(k)
  <2>1. PICK s \in Live(Suppliers), currency \in Currencies :
          Asks(k, "open", s, [name |-> record[s].name, currency |-> currency])
    BY <1>4 DEF OpenAccount
  <2>2. s \in Suppliers /\ record[s] # NoRecord
    BY LiveThere
  <2> DEFINE row == [name |-> record[s].name, currency |-> currency]
  <2>3. row.name = record[s].name /\ Asks(k, "open", s, row)
    BY <2>1
  <2> HIDE DEF row
  <2> QED
    BY <1>1, <2>2, <2>3
<1>5. CASE CreateTill(k)
  <2>1. PICK t \in Tills, currency \in Currencies :
          New(t) /\ Asks(k, "till", t, [live |-> TRUE, role |-> FALSE, active |-> TRUE,
                                        currency |-> currency, used |-> NoRow])
    BY <1>5 DEF CreateTill
  <2> DEFINE row == [live |-> TRUE, role |-> FALSE, active |-> TRUE, currency |-> currency, used |-> NoRow]
  <2>2. row \in TillRow /\ row.live
    BY DEF TillRow
  <2>3. record[t] = NoRecord /\ Asks(k, "till", t, row)
    BY <2>1 DEF New
  <2> HIDE DEF row
  <2> QED
    BY <1>1, <2>1, <2>2, <2>3
<1>6. CASE EditTill(k)
  <2>1. PICK t \in Live(Tills), currency \in Currencies, active \in BOOLEAN :
          /\ currency # record[t].currency => record[t].used = NoRow
          /\ Asks(k, "till", t, [record[t] EXCEPT !.currency = currency, !.active = active])
    BY <1>6 DEF EditTill
  <2>2. t \in Tills /\ record[t] # NoRecord /\ record[t].live /\ record[t] \in TillRow
    BY <1>0, LiveThere, LiveRows
  <2> DEFINE first == [record[t] EXCEPT !.currency = currency]
             row == [record[t] EXCEPT !.currency = currency, !.active = active]
  <2>3. row \in TillRow /\ row.live /\ row.currency = currency
    <3>1. first \in TillRow /\ first.live /\ first.currency = currency
      BY <2>2 DEF TillRow
    <3>2. row = [first EXCEPT !.active = active]
      OBVIOUS
    <3> HIDE DEF first
    <3> QED
      BY <3>1, <3>2 DEF TillRow
  <2>4. t \notin doubted => record[t].used \in {NoRow, currency}
    BY <1>0, <2>1, <2>2 DEF AccountsStand
  <2>5. Asks(k, "till", t, row)
    BY <2>1
  <2> HIDE DEF row
  <2> QED
    BY <1>1, <2>2, <2>3, <2>4, <2>5
<1>7. CASE PostInto(k)
  <2>1. PICK t \in Live(Tills) : Asks(k, "post", t, [of |-> t])
    BY <1>7 DEF PostInto
  <2>2. t \in Tills /\ record[t] # NoRecord
    BY LiveThere
  <2> QED
    BY <1>1, <2>1, <2>2
<1> QED
  BY <1>2, <1>3, <1>4, <1>5, <1>6, <1>7

-----------------------------------------------------------------------------
(* Every step                                                              *)

(* Some customers of before; a building in its complex, a till; nothing    *)
(* under way.                                                              *)
LEMMA RegistryStarts == RegistryInit => RegistryInv
<1> SUFFICES ASSUME RegistryInit PROVE RegistryInv
  OBVIOUS
<1>1. PICK c \in Customers, x \in Complexes, b \in Buildings, t \in Tills, n \in Names :
        /\ record = [i \in RegistryIds |->
              CASE i = c -> OldCustomer(n)
                [] i \in Customers \ {c} /\ area = "estate" -> OldCustomer(n)
                [] i = x /\ area = "estate" -> [live |-> TRUE, of |-> c]
                [] i = b /\ area = "estate" -> [live |-> TRUE, of |-> c, within |-> x]
                [] i = t -> [live |-> TRUE, role |-> TRUE, active |-> TRUE, currency |-> Home,
                             used |-> NoRow]
                [] OTHER -> NoRecord]
        /\ named = [a \in {<<d, Home>> : d \in {d \in Customers : record[d].live}} |-> n]
  BY DEF RegistryInit
<1>2. /\ covered = {} /\ drawn = [l \in Lifts |-> NoRow]
      /\ clerk = [k \in Clerks |-> AtRest] /\ doubted = {}
  BY DEF RegistryInit
<1>3. /\ record[c] = OldCustomer(n)
      /\ \A i \in Customers : record[i] \in {OldCustomer(n), NoRecord}
  BY <1>1, TablesApart DEF RegistryIds
<1>4. \A i \in Complexes : record[i] \in {[live |-> TRUE, of |-> c], NoRecord}
  BY <1>1, TablesApart DEF RegistryIds
<1>5. \A i \in Buildings : \/ record[i] = NoRecord
                           \/ /\ record[i] = [live |-> TRUE, of |-> c, within |-> x]
                              /\ record[x] = [live |-> TRUE, of |-> c]
  BY <1>1, TablesApart DEF RegistryIds
<1>6. \A i \in Tills : record[i] \in {[live |-> TRUE, role |-> TRUE, active |-> TRUE, currency |-> Home,
                                       used |-> NoRow], NoRecord}
  BY <1>1, TablesApart DEF RegistryIds
<1>7. \A i \in Persons \cup Lifts \cup Suppliers : record[i] = NoRecord
  BY <1>1, TablesApart DEF RegistryIds
<1>8. /\ OldCustomer(n) \in CustomerRow /\ OldCustomer(n).live /\ TypeRules(OldCustomer(n))
      /\ OldCustomer(n).tax = NoRow /\ OldCustomer(n).national = NoRow /\ OldCustomer(n).name = n
      /\ OldCustomer(n) # NoRecord
  <2>1. OldCustomer(n) \in CustomerRow
    BY DEF OldCustomer, CustomerRow
  <2> QED
    BY <2>1, RowsThere DEF OldCustomer, TypeRules
<1>9. ~NoRecord.live
  BY DEF NoRecord
<1>10. RowsShape
  <2>1. record = [i \in RegistryIds |-> record[i]]
    BY <1>1
  <2>2. [live |-> TRUE, of |-> c] \in ComplexRow /\ [live |-> TRUE, of |-> c, within |-> x] \in BuildingRow
    BY DEF ComplexRow, BuildingRow
  <2>3. [live |-> TRUE, role |-> TRUE, active |-> TRUE, currency |-> Home, used |-> NoRow] \in TillRow
    BY RegistryAssumption DEF TillRow
  <2> QED
    BY <1>3, <1>4, <1>5, <1>6, <1>7, <1>8, <2>1, <2>2, <2>3 DEF RowsShape
<1>11. ClerksShape /\ Clashes /\ Inserts /\ Pledges
  <2>1. ClerksShape
    BY <1>2 DEF ClerksShape, Requested
  <2>2. Clashes /\ Inserts
    BY <1>2, RestAboutNothing DEF Clashes, Inserts
  <2>3. Pledges
    BY <1>2, RestPledged DEF Pledges
  <2> QED
    BY <2>1, <2>2, <2>3
<1>12. NothingHangsLoose
  <2>1. \A i \in Live(Buildings) : record[i].of \in Live(Customers) /\ record[i].within \in Live(Complexes)
    BY <1>3, <1>5, <1>8, <1>9 DEF Live
  <2>2. Live(Lifts) = {}
    BY <1>7, <1>9 DEF Live
  <2> QED
    BY <1>2, <2>1, <2>2 DEF NothingHangsLoose
<1>13. IdentitiesHold
  <2>1. Live(Persons) = {}
    BY <1>7, <1>9 DEF Live
  <2> QED
    BY <1>3, <1>8, <1>9, <2>1 DEF IdentitiesHold, NumbersFree, Live
<1>14. AccountsStand
  <2>1. \A i \in Live(Customers) : <<i, Home>> \in DOMAIN named
    BY <1>1 DEF Live
  <2>2. ASSUME NEW a \in DOMAIN named
        PROVE  a[1] \in Customers \cup Suppliers /\ record[a[1]] # NoRecord /\ named[a] = record[a[1]].name
    <3>1. PICK d \in Customers : a = <<d, Home>> /\ record[d].live
      BY <1>1, <2>2
    <3>2. named[a] = n /\ record[d] = OldCustomer(n)
      BY <1>1, <1>3, <1>9, <2>2, <3>1
    <3> QED
      BY <1>8, <3>1, <3>2
  <2>3. \A i \in Tills : record[i] # NoRecord => record[i].used = NoRow
    BY <1>6
  <2> QED
    BY <1>7, <2>1, <2>2, <2>3 DEF AccountsStand
<1>15. LabelsStand
  BY <1>2, <1>7, <1>9 DEF LabelsStand, Live
<1> QED
  BY <1>10, <1>11, <1>12, <1>13, <1>14, <1>15 DEF RegistryInv

(* Every step keeps the invariant.                                         *)
LEMMA RegistryStep ==
  ASSUME RegistryInv, [RegistryNext]_registryVars
  PROVE  RegistryInv'
<1>1. CASE RegistryNext
  <2>1. PICK k \in Clerks :
          \/ CreateCustomer(k) \/ EditCustomer(k) \/ InvoiceAsks(k)
          \/ CreateContact(k) \/ EditContact(k) \/ Destroy(k)
          \/ CreateComplex(k) \/ EditComplex(k) \/ CreateBuilding(k) \/ EditBuilding(k)
          \/ CreateLift(k) \/ EditLift(k) \/ RegenerateQr(k) \/ ContractAsks(k)
          \/ CreateSupplier(k) \/ EditSupplier(k) \/ OpenAccount(k)
          \/ CreateTill(k) \/ EditTill(k) \/ PostInto(k)
          \/ SaveCustomer(k) \/ KeepCustomerAccount(k) \/ AccountForCustomer(k) \/ SaveContact(k)
          \/ SaveEstate(k) \/ InsertLift(k) \/ RegenerateQrToken(k) \/ Covered(k) \/ Delete(k)
          \/ SaveSupplier(k) \/ AccountOpened(k) \/ SaveTill(k) \/ Posted(k)
          \/ AskFails(k)
    BY <1>1 DEF RegistryNext
  <2>2. CASE \/ CreateCustomer(k) \/ EditCustomer(k) \/ InvoiceAsks(k)
             \/ CreateContact(k) \/ EditContact(k) \/ Destroy(k)
             \/ CreateComplex(k) \/ EditComplex(k) \/ CreateBuilding(k) \/ EditBuilding(k)
             \/ CreateLift(k) \/ EditLift(k) \/ RegenerateQr(k) \/ ContractAsks(k)
             \/ CreateSupplier(k) \/ EditSupplier(k) \/ OpenAccount(k)
             \/ CreateTill(k) \/ EditTill(k) \/ PostInto(k)
    BY <2>2, CustomersAsk, ContactsAsk, DestroyAsks, ComplexAsks, BuildingAsks, LiftAsks, PartiesAsk
  <2>3. CASE \/ SaveCustomer(k) \/ KeepCustomerAccount(k) \/ AccountForCustomer(k) \/ SaveContact(k)
             \/ SaveEstate(k) \/ InsertLift(k) \/ RegenerateQrToken(k) \/ Covered(k) \/ Delete(k)
             \/ SaveSupplier(k) \/ AccountOpened(k) \/ SaveTill(k) \/ Posted(k)
             \/ AskFails(k)
    BY <2>3, SaveCustomerKeeps, AccountsKeep, SaveContactKeeps, SaveEstateKeeps, LabelsKeep, CoveredKeeps,
       DeleteKeeps, SaveSupplierKeeps, TillsKeep, AskFailsKeeps
  <2> QED
    BY <2>1, <2>2, <2>3
<1>2. CASE UNCHANGED registryVars
  <2>1. UNCHANGED <<record, named, covered, drawn, clerk, doubted>>
    BY <1>2 DEF registryVars, book
  <2>2. RowsShape' /\ ClerksShape' /\ Clashes' /\ Inserts'
    <3>1. RowsShape /\ ClerksShape /\ Clashes /\ Inserts
      BY DEF RegistryInv
    <3> QED
      BY <2>1, <3>1 DEF RowsShape, ClerksShape, Clashes, Inserts, About, Requested, TypeRules, Mailable, ContactFields
  <2>3. Pledges'
    <3>1. ASSUME NEW k \in Clerks
          PROVE  Hangs(clerk[k])' /\ Identifies(clerk[k])' /\ Accounted(clerk[k])' /\ Labelled(clerk[k])'
      <4>1. Hangs(clerk[k]) /\ Identifies(clerk[k]) /\ Accounted(clerk[k]) /\ Labelled(clerk[k])
        BY DEF RegistryInv, Pledges
      <4> QED
        BY <2>1, <4>1, MoreDoubted DEF book
    <3> QED
      BY <3>1 DEF Pledges
  <2>4. \A i : Renaming(i) => Renaming(i)'
    BY <2>1 DEF Renaming
  <2> QED
    BY <2>1, <2>2, <2>3, <2>4, MoreDoubts DEF RegistryInv, book
<1> QED
  BY <1>1, <1>2

(* What a write does to customers and buildings.                           *)
LEMMA RegistryWrites ==
  ASSUME RegistryInv, [RegistryNext]_registryVars
  PROVE  WritesAreSound
<1>0. /\ RowsShape /\ Inserts /\ Pledges /\ record = [i \in RegistryIds |-> record[i]]
      /\ \A k \in Clerks : Requested(clerk[k])
  BY DEF RegistryInv, RowsShape, ClerksShape
<1>1. ASSUME \A i \in Customers \cup Buildings : record'[i] = record[i] PROVE WritesAreSound
  BY <1>1 DEF WritesAreSound, Live
<1>2. ASSUME NEW i, NEW new, record' = [record EXCEPT ![i] = new], i \notin Customers \cup Buildings
      PROVE  WritesAreSound
  <2>1. \A h \in Customers \cup Buildings : record'[h] = record[h]
    BY <1>0, <1>2
  <2> QED
    BY <1>1, <2>1
<1>3. ASSUME NEW k \in Clerks, SaveCustomer(k) PROVE WritesAreSound
  <2> DEFINE q == clerk[k]
  <2>1. /\ q.does \in {"insert", "save"}
        /\ q.id \in Customers /\ record' = [record EXCEPT ![q.id] = q.row]
    BY <1>3 DEF SaveCustomer, Finds, Doing
  <2>2. q.id \in RegistryIds /\ q.id \notin Buildings
    BY <2>1, TablesApart DEF RegistryIds
  <2>3. record'[q.id] = q.row /\ \A h \in RegistryIds \ {q.id} : record'[h] = record[h]
    BY <1>0, <2>1, <2>2
  <2>4. q.id \in Live(Customers) => q.does = "save"
    BY <1>0, <2>1 DEF Inserts, Live, NoRecord
  <2>5. Identifies(q)
    BY <1>0 DEF Pledges
  <2>6. ASSUME NEW c \in Live(Customers) \ doubted, record[c].kind = "individual", record[c].national # NoRow
        PROVE  record'[c].kind # "individual" \/ record'[c].national # NoRow
    <3>1. CASE c = q.id
      BY <2>3, <2>4, <2>5, <2>6, <3>1 DEF Identifies, Live
    <3>2. CASE c # q.id
      BY <2>3, <2>6, <3>2 DEF Live, RegistryIds
    <3> QED
      BY <3>1, <3>2
  <2>7. \A b \in Buildings : record'[b] = record[b]
    BY <2>2, <2>3 DEF RegistryIds
  <2> QED
    BY <2>6, <2>7 DEF WritesAreSound
<1>4. ASSUME NEW k \in Clerks, SaveContact(k) PROVE WritesAreSound
  <2> DEFINE q == clerk[k]
  <2>1. /\ q.id \in Persons /\ Demoted(q) \subseteq Persons
        /\ record' = [i \in RegistryIds |->
                        CASE i = q.id -> ContactFields(q.row)
                          [] i \in Demoted(q) -> [record[i] EXCEPT !.primary = FALSE]
                          [] OTHER -> record[i]]
    BY <1>0, <1>4 DEF SaveContact, Demoted, Below, Live
  <2>2. \A i \in Customers \cup Buildings : i \in RegistryIds /\ i # q.id /\ i \notin Demoted(q)
    BY <2>1, TablesApart DEF RegistryIds
  <2>3. \A i \in Customers \cup Buildings : record'[i] = record[i]
    BY <2>1, <2>2
  <2> QED
    BY <1>1, <2>3
<1>5. ASSUME NEW k \in Clerks, SaveEstate(k) PROVE WritesAreSound
  <2> DEFINE q == clerk[k]
  <2>1. /\ q.does \in {"insert", "save"} /\ q.id \in Complexes \cup Buildings \cup Lifts
        /\ record' = [record EXCEPT ![q.id] = q.row]
    BY <1>5 DEF SaveEstate, Finds, Doing
  <2>2. Hangs(q) /\ q.id \notin Customers
    BY <1>0, <2>1, TablesApart DEF Pledges
  <2>3. CASE q.id \notin Buildings
    BY <1>2, <2>1, <2>2, <2>3
  <2>4. CASE q.id \in Buildings
    <3>1. record'[q.id] = q.row /\ \A h \in RegistryIds \ {q.id} : record'[h] = record[h]
      BY <1>0, <2>1, <2>4 DEF RegistryIds
    <3>2. \A c \in Customers : record'[c] = record[c]
      BY <2>2, <3>1 DEF RegistryIds
    <3>3. q.row.within \notin doubted \cup {NoRow} => record[q.row.within].of = q.row.of
      BY <2>1, <2>2, <2>4 DEF Hangs
    <3>4. \A b \in Buildings :
            record'[b] # record[b] /\ record'[b].live /\ record'[b].within \notin doubted \cup {NoRow}
              => record[record'[b].within].of = record'[b].of
      BY <3>1, <3>3 DEF RegistryIds
    <3> QED
      BY <3>2, <3>4 DEF WritesAreSound, Live
  <2> QED
    BY <2>3, <2>4
<1>6. ASSUME NEW k \in Clerks, Delete(k) PROVE WritesAreSound
  <2> DEFINE id == clerk[k].id
  <2>1. clerk[k].does = "delete" /\ record' = [record EXCEPT ![id].live = FALSE] /\ record[id].live
    BY <1>6 DEF Delete, Doing
  <2>2. id \in Customers \cup Persons \cup Complexes \cup Buildings \cup Lifts
    BY <1>0, <2>1, RestAboutNothing DEF Requested
  <2>3. id \in RegistryIds /\ (id \in Customers => record[id] \in CustomerRow)
        /\ (id \in Buildings => record[id] \in BuildingRow)
    BY <1>0, <2>1, <2>2, LiveRows DEF RegistryIds, Live
  <2>4. record'[id] = [record[id] EXCEPT !.live = FALSE] /\ \A h \in RegistryIds \ {id} : record'[h] = record[h]
    BY <1>0, <2>1, <2>3
  <2>5. id \in Customers \cup Buildings => ~record'[id].live
    BY <2>3, <2>4 DEF CustomerRow, BuildingRow
  <2>6. \A h \in Customers \cup Buildings : record'[h].live => record'[h] = record[h]
    BY <2>4, <2>5 DEF RegistryIds
  <2> QED
    BY <2>6 DEF WritesAreSound, Live
<1>7. ASSUME NEW k \in Clerks, InsertLift(k) \/ RegenerateQrToken(k) PROVE WritesAreSound
  <2>1. clerk[k].id \in Lifts
    BY <1>0, <1>7, RestAboutNothing DEF InsertLift, RegenerateQrToken, Doing, Requested
  <2>2. clerk[k].id \notin Customers \cup Buildings
    BY <2>1, TablesApart
  <2> QED
    BY <1>2, <1>7, <2>2 DEF InsertLift, RegenerateQrToken, GiveToken
<1>8. ASSUME NEW k \in Clerks, SaveSupplier(k) \/ SaveTill(k) \/ Posted(k) PROVE WritesAreSound
  <2>1. clerk[k].id \in Suppliers \cup Tills
    BY <1>0, <1>8, RestAboutNothing DEF SaveSupplier, SaveTill, Posted, Doing, Requested
  <2>2. clerk[k].id \notin Customers \cup Buildings
    BY <2>1, TablesApart
  <2>3. \E new : record' = [record EXCEPT ![clerk[k].id] = new]
    BY <1>8 DEF SaveSupplier, SaveTill, Posted
  <2> QED
    BY <1>2, <2>2, <2>3
<1>9. ASSUME record' = record PROVE WritesAreSound
  BY <1>1, <1>9
<1>10. CASE UNCHANGED registryVars
  BY <1>9, <1>10 DEF registryVars, book
<1>11. CASE RegistryNext
  <2>1. PICK k \in Clerks :
          \/ \E does, id, row : Asks(k, does, id, row)
          \/ SaveCustomer(k) \/ KeepCustomerAccount(k) \/ AccountForCustomer(k) \/ SaveContact(k)
          \/ SaveEstate(k) \/ InsertLift(k) \/ RegenerateQrToken(k) \/ Covered(k) \/ Delete(k)
          \/ SaveSupplier(k) \/ AccountOpened(k) \/ SaveTill(k) \/ Posted(k)
          \/ AskFails(k)
    <3>1. PICK k \in Clerks :
            \/ CreateCustomer(k) \/ EditCustomer(k) \/ InvoiceAsks(k)
            \/ CreateContact(k) \/ EditContact(k) \/ Destroy(k)
            \/ CreateComplex(k) \/ EditComplex(k) \/ CreateBuilding(k) \/ EditBuilding(k)
            \/ CreateLift(k) \/ EditLift(k) \/ RegenerateQr(k) \/ ContractAsks(k)
            \/ CreateSupplier(k) \/ EditSupplier(k) \/ OpenAccount(k)
            \/ CreateTill(k) \/ EditTill(k) \/ PostInto(k)
            \/ SaveCustomer(k) \/ KeepCustomerAccount(k) \/ AccountForCustomer(k) \/ SaveContact(k)
            \/ SaveEstate(k) \/ InsertLift(k) \/ RegenerateQrToken(k) \/ Covered(k) \/ Delete(k)
            \/ SaveSupplier(k) \/ AccountOpened(k) \/ SaveTill(k) \/ Posted(k)
            \/ AskFails(k)
      BY <1>11 DEF RegistryNext
    <3>2. ASSUME \/ CreateCustomer(k) \/ EditCustomer(k) \/ InvoiceAsks(k)
                 \/ CreateContact(k) \/ EditContact(k) \/ Destroy(k)
                 \/ CreateComplex(k) \/ EditComplex(k) \/ CreateBuilding(k) \/ EditBuilding(k)
          PROVE  \E does, id, row : Asks(k, does, id, row)
      BY <3>2, Zenon DEF CreateCustomer, EditCustomer, InvoiceAsks, CreateContact, EditContact, Destroy,
                         CreateComplex, EditComplex, CreateBuilding, EditBuilding
    <3>3. ASSUME \/ CreateLift(k) \/ EditLift(k) \/ RegenerateQr(k) \/ ContractAsks(k)
                 \/ CreateSupplier(k) \/ EditSupplier(k) \/ OpenAccount(k)
                 \/ CreateTill(k) \/ EditTill(k) \/ PostInto(k)
          PROVE  \E does, id, row : Asks(k, does, id, row)
      BY <3>3, Zenon DEF CreateLift, EditLift, RegenerateQr, ContractAsks, CreateSupplier, EditSupplier,
                         OpenAccount, CreateTill, EditTill, PostInto
    <3> QED
      BY <3>1, <3>2, <3>3, Zenon
  <2>2. CASE \/ \E does, id, row : Asks(k, does, id, row)
             \/ KeepCustomerAccount(k) \/ AccountForCustomer(k) \/ Covered(k) \/ AccountOpened(k) \/ AskFails(k)
    <3>1. record' = record
      BY <2>2 DEF Asks, book, KeepCustomerAccount, AccountForCustomer, Covered, AccountOpened, AskFails
    <3> QED
      BY <1>9, <3>1
  <2> QED
    BY <1>3, <1>4, <1>5, <1>6, <1>7, <1>8, <2>1, <2>2
<1> QED
  BY <1>10, <1>11

(* A label finds one lift at most.                                         *)
LEMMA LabelsFound == LabelsStand => LabelsFind
<1> SUFFICES ASSUME LabelsStand PROVE LabelsFind
  OBVIOUS
<1>1. ASSUME NEW t \in Tokens PROVE Cardinality(ByQr(t)) <= 1
  <2>1. \A l, m \in ByQr(t) : l = m
    BY DEF ByQr, Live, LabelsStand, NoRecord
  <2>2. CASE ByQr(t) = {}
    BY <2>2, FS_EmptySet
  <2>3. CASE ByQr(t) # {}
    <3>1. PICK l : ByQr(t) = {l}
      BY <2>1, <2>3
    <3> QED
      BY <3>1, FS_Singleton
  <2> QED
    BY <2>2, <2>3
<1>2. \A l \in Live(Lifts) \ doubted : record[l].token = drawn[l]
  BY DEF LabelsStand
<1> QED
  BY <1>1, <1>2 DEF LabelsFind

(* Requests that are answered leave every party its accounts.              *)
LEMMA AccountsFollowed == AccountsStand => AccountsFollow
<1> SUFFICES ASSUME AccountsStand PROVE AccountsFollow
  OBVIOUS
<1> DEFINE settled == {i \in RegistryIds \ doubted : \A k \in Clerks : clerk[k].id # i}
<1>1. \A i \in settled : ~Renaming(i) /\ i \notin doubted
  BY DEF Renaming
<1>2. \A s \in Live(Suppliers) \cup Live(Tills) : record[s] # NoRecord
  BY DEF Live, NoRecord
<1> HIDE DEF settled
<1>3. \A c \in Live(Customers) \cap settled : <<c, Home>> \in DOMAIN named
  BY <1>1 DEF AccountsStand
<1>4. \A s \in Live(Suppliers) : <<s, Home>> \in DOMAIN named
  BY <1>2 DEF AccountsStand, Live
<1>5. \A a \in DOMAIN named : a[1] \in settled => named[a] = record[a[1]].name
  BY <1>1 DEF AccountsStand
<1>6. \A t \in Live(Tills) \ doubted : record[t].used \in {NoRow, record[t].currency}
  BY <1>2 DEF AccountsStand, Live
<1> QED
  BY <1>3, <1>4, <1>5, <1>6 DEF AccountsFollow, settled

(* The firm's records hang together for any number of rows and requests,   *)
(* however these overlap (TenantViewSet's create, update and destroy, the  *)
(* serializers' validation, keep_customer_account, save_with_qr_token and  *)
(* the unique keys).                                                       *)
THEOREM RecordsAlwaysHold == RegistrySpec => RecordsHold
<1>1. RegistrySpec => []RegistryInv
  BY RegistryStarts, RegistryStep, PTL DEF RegistrySpec
<1>2. RegistryInv => NothingHangsLoose /\ IdentitiesHold /\ AccountsFollow /\ LabelsFind
  BY LabelsFound, AccountsFollowed DEF RegistryInv
<1>3. RegistryInv /\ [RegistryNext]_registryVars => [WritesAreSound]_registryVars
  BY RegistryWrites
<1> QED
  BY <1>1, <1>2, <1>3, PTL DEF RegistrySpec, RecordsHold

=============================================================================
