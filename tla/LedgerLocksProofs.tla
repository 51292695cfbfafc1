-------------------------- MODULE LedgerLocksProofs --------------------------
(***************************************************************************)
(* Proofs about the transactions of apps/ledger, statement by statement,   *)
(* for any number of requests, invoices, documents and accounts.           *)
(*                                                                         *)
(* A row is locked by one request at a time (RowsHeldByOne), and however   *)
(* the requests overlap an account's opening never comes after another     *)
(* document of it (OpeningHoldsUnderLocks).  An opening is checked first   *)
(* and committed later, so the invariant follows every request through its *)
(* statements: those it has left are those of its call (Covers), what it   *)
(* wrote is what its call writes (WorkersShape), and once it holds the row *)
(* of its side, what it checked of that side is still so (Sound): whoever  *)
(* commits documents of a side holds that side's row, and one request does *)
(* (HeldByOne).                                                            *)
(***************************************************************************)
EXTENDS LedgerLocks, FiniteSetTheorems, SequenceTheorems, TLAPS

-----------------------------------------------------------------------------
(* Rows in primary-key order                                               *)

Listed(q) == {q[k] : k \in DOMAIN q}

(* A finite set of keys has an order, and its list is of them all.         *)
LEMMA InPkOrderLists ==
  ASSUME NEW s \in SUBSET Nat, IsFiniteSet(s)
  PROVE  /\ Cardinality(s) \in Nat /\ InPkOrder(s) \in [1..Cardinality(s) -> s]
         /\ Listed(InPkOrder(s)) = s
         /\ \A j, k \in 1..Cardinality(s) : j < k => InPkOrder(s)[j] < InPkOrder(s)[k]
<1> DEFINE n == Cardinality(s)
           UpTo(x) == {y \in s : y <= x}
           rank == [x \in s |-> Cardinality(UpTo(x))]
           Sorts(q) == \A j, k \in 1..n : j < k => q[j] < q[k]
<1>1. n \in Nat /\ IsFiniteSet(1..n) /\ Cardinality(1..n) = n
  BY FS_CardinalityType, FS_Interval
<1>2. \A x \in s : IsFiniteSet(UpTo(x)) /\ rank[x] \in 1..n
  <2> SUFFICES ASSUME NEW x \in s PROVE IsFiniteSet(UpTo(x)) /\ rank[x] \in 1..n
    OBVIOUS
  <2>1. UpTo(x) \in SUBSET s /\ x \in UpTo(x)
    OBVIOUS
  <2>2. IsFiniteSet(UpTo(x)) /\ Cardinality(UpTo(x)) <= n
    BY <2>1, FS_Subset
  <2>3. Cardinality(UpTo(x)) \in Nat /\ Cardinality(UpTo(x)) # 0
    BY <2>1, <2>2, FS_CardinalityType, FS_EmptySet
  <2> QED
    BY <1>1, <2>2, <2>3
<1>0. \A x \in s : x \in Nat
  OBVIOUS
<1>3. \A x, y \in s : x < y => rank[x] < rank[y]
  <2> SUFFICES ASSUME NEW x \in s, NEW y \in s, x < y PROVE rank[x] < rank[y]
    OBVIOUS
  <2>1. UpTo(x) \in SUBSET UpTo(y)
    <3> SUFFICES ASSUME NEW z \in s, z <= x PROVE z <= y
      OBVIOUS
    <3> QED
      BY <1>0
  <2>2. y \in UpTo(y) /\ y \notin UpTo(x)
    BY <1>0
  <2>3. IsFiniteSet(UpTo(y)) /\ IsFiniteSet(UpTo(x))
    BY <1>2
  <2>4. Cardinality(UpTo(x)) <= Cardinality(UpTo(y)) /\ Cardinality(UpTo(x)) # Cardinality(UpTo(y))
    BY <2>1, <2>2, <2>3, FS_Subset
  <2>5. Cardinality(UpTo(x)) \in Nat /\ Cardinality(UpTo(y)) \in Nat
    BY <2>3, FS_CardinalityType
  <2> QED
    BY <2>4, <2>5
<1> HIDE DEF UpTo
<1>4. rank \in Injection(s, 1..n)
  <2>1. rank \in [s -> 1..n]
    BY <1>2
  <2>2. \A x, y \in s : rank[x] = rank[y] => x = y
    <3> SUFFICES ASSUME NEW x \in s, NEW y \in s, rank[x] = rank[y], x # y PROVE FALSE
      OBVIOUS
    <3>1. rank[x] \in Nat /\ rank[y] \in Nat
      BY <1>1, <2>1
    <3>2. x < y \/ y < x
      BY <1>0
    <3> QED
      BY <1>3, <3>1, <3>2
  <2> QED
    BY <2>1, <2>2 DEF Injection, IsInjective
<1>5. rank \in Surjection(s, 1..n)
  BY <1>1, <1>4, FS_Injection
<1> HIDE DEF rank
<1> DEFINE byRank == [k \in 1..n |-> CHOOSE x \in s : rank[x] = k]
<1>6. \A k \in 1..n : byRank[k] \in s /\ rank[byRank[k]] = k
  BY <1>5 DEF Surjection
<1> HIDE DEF byRank
<1>7. byRank \in [1..n -> s] /\ Sorts(byRank)
  <2>1. byRank \in [1..n -> s]
    BY <1>6 DEF byRank
  <2>2. ASSUME NEW j \in 1..n, NEW k \in 1..n, j < k PROVE byRank[j] < byRank[k]
    <3>0. byRank[j] \in s /\ byRank[k] \in s
      BY <1>6
    <3>1. byRank[j] \in Nat /\ byRank[k] \in Nat
      BY <1>0, <3>0
    <3>2. rank[byRank[j]] = j /\ rank[byRank[k]] = k /\ j \in Nat /\ k \in Nat
      BY <1>1, <1>6
    <3>3. byRank[j] # byRank[k] /\ ~(byRank[k] < byRank[j])
      BY <1>3, <2>2, <3>0, <3>1, <3>2
    <3> QED
      BY <3>1, <3>3
  <2> QED
    BY <2>1, <2>2
<1> DEFINE q == InPkOrder(s)
<1>8. q \in [1..n -> s] /\ Sorts(q)
  <2>1. \E p \in [1..n -> s] : Sorts(p)
    BY <1>7
  <2>2. q = CHOOSE p \in [1..n -> s] : Sorts(p)
    BY DEF InPkOrder
  <2> QED
    BY <2>1, <2>2
<1> HIDE DEF q
<1>9. q \in Injection(1..n, s)
  <2>1. ASSUME NEW j \in 1..n, NEW k \in 1..n, q[j] = q[k], j # k PROVE FALSE
    <3>0. q[j] \in s /\ q[k] \in s
      BY <1>8
    <3>1. q[j] \in Nat /\ q[k] \in Nat
      BY <1>0, <3>0
    <3>2. j < k \/ k < j
      BY <1>1, <2>1
    <3> QED
      BY <1>8, <2>1, <3>1, <3>2
  <2> QED
    BY <1>8, <2>1 DEF Injection, IsInjective
<1>10. q \in Surjection(1..n, s)
  BY <1>1, <1>9, FS_Injection
<1>11. Listed(q) = s
  BY <1>8, <1>10 DEF Surjection, Listed
<1> QED
  BY <1>1, <1>8, <1>11 DEF q

(* Lists of rows.                                                          *)
LEMMA ListsAppended ==
  ASSUME NEW S, NEW p \in Seq(S), NEW q \in Seq(S)
  PROVE  /\ p \o q \in Seq(S) /\ Listed(p \o q) = Listed(p) \cup Listed(q)
         /\ \A x \in S : Append(p, x) \in Seq(S) /\ Listed(Append(p, x)) = Listed(p) \cup {x}
<1>1. p \o q \in Seq(S) /\ Listed(p \o q) = Listed(p) \cup Listed(q)
  <2>1. /\ p \o q \in Seq(S) /\ Len(p \o q) = Len(p) + Len(q)
        /\ \A i \in 1 .. Len(p) + Len(q) : (p \o q)[i] = IF i <= Len(p) THEN p[i] ELSE q[i - Len(p)]
    BY ConcatProperties
  <2>2. /\ DOMAIN p = 1..Len(p) /\ DOMAIN q = 1..Len(q) /\ DOMAIN (p \o q) = 1..(Len(p) + Len(q))
        /\ Len(p) \in Nat /\ Len(q) \in Nat
    BY <2>1, LenProperties
  <2>3. \A k \in DOMAIN p : k \in DOMAIN (p \o q) /\ (p \o q)[k] = p[k]
    BY <2>1, <2>2
  <2>4. \A k \in DOMAIN q : k + Len(p) \in DOMAIN (p \o q) /\ (p \o q)[k + Len(p)] = q[k]
    BY <2>1, <2>2
  <2>5. \A k \in DOMAIN (p \o q) : (p \o q)[k] \in Listed(p) \cup Listed(q)
    BY <2>1, <2>2 DEF Listed
  <2>6. Listed(p) \subseteq Listed(p \o q)
    BY <2>3 DEF Listed
  <2>7. Listed(q) \subseteq Listed(p \o q)
    BY <2>4 DEF Listed
  <2>8. Listed(p \o q) \subseteq Listed(p) \cup Listed(q)
    BY <2>5 DEF Listed
  <2> QED
    BY <2>1, <2>6, <2>7, <2>8
<1>2. ASSUME NEW x \in S PROVE Append(p, x) \in Seq(S) /\ Listed(Append(p, x)) = Listed(p) \cup {x}
  <2>1. /\ Append(p, x) \in Seq(S) /\ Len(Append(p, x)) = Len(p) + 1
        /\ \A i \in 1 .. Len(p) : Append(p, x)[i] = p[i]
        /\ Append(p, x)[Len(p) + 1] = x
    BY AppendProperties
  <2>2. DOMAIN p = 1..Len(p) /\ DOMAIN Append(p, x) = 1..(Len(p) + 1) /\ Len(p) \in Nat
    BY <2>1, LenProperties
  <2>3. \A k \in DOMAIN Append(p, x) : k \in DOMAIN p \/ k = Len(p) + 1
    BY <2>2
  <2>4. Len(p) + 1 \in DOMAIN Append(p, x) /\ \A k \in DOMAIN p : k \in DOMAIN Append(p, x)
    BY <2>2
  <2> QED
    BY <2>1, <2>2, <2>3, <2>4 DEF Listed
<1> QED
  BY <1>1, <1>2

(* What comes first and what comes after is all there is.                  *)
LEMMA ListedHeadTail ==
  ASSUME NEW S, NEW q \in Seq(S), q # <<>>
  PROVE  /\ Tail(q) \in Seq(S) /\ Listed(q) = {Head(q)} \cup Listed(Tail(q))
<1>1. /\ Tail(q) \in Seq(S) /\ Len(Tail(q)) = Len(q) - 1
      /\ \A i \in 1 .. Len(Tail(q)) : Tail(q)[i] = q[i + 1]
  BY HeadTailProperties
<1>2. Len(q) \in Nat \ {0} /\ DOMAIN q = 1..Len(q) /\ DOMAIN Tail(q) = 1..(Len(q) - 1)
  <2>1. Len(q) \in Nat \ {0}
    BY EmptySeq
  <2> QED
    BY <1>1, <2>1, LenProperties
<1>3. Head(q) = q[1]
  OBVIOUS
<1>4. \A k \in DOMAIN q : k = 1 \/ (k - 1 \in DOMAIN Tail(q) /\ Tail(q)[k - 1] = q[k])
  BY <1>1, <1>2
<1>5. 1 \in DOMAIN q /\ \A k \in DOMAIN Tail(q) : k + 1 \in DOMAIN q /\ Tail(q)[k] = q[k + 1]
  BY <1>1, <1>2
<1>6. Listed(q) \subseteq {Head(q)} \cup Listed(Tail(q))
  BY <1>3, <1>4 DEF Listed
<1>7. Head(q) \in Listed(q) /\ Listed(Tail(q)) \subseteq Listed(q)
  BY <1>3, <1>5 DEF Listed
<1> QED
  BY <1>1, <1>6, <1>7

LEMMA RowsListed ==
  ASSUME NEW kind, NEW s \in SUBSET Nat, IsFiniteSet(s), NEW S, \A x \in s : <<kind, x>> \in S
  PROVE  /\ Rows(kind, InPkOrder(s)) \in Seq(S)
         /\ Listed(Rows(kind, InPkOrder(s))) = {<<kind, x>> : x \in s}
<1> DEFINE q == InPkOrder(s)
<1>1. Cardinality(s) \in Nat /\ q \in [1..Cardinality(s) -> s] /\ Listed(q) = s
  BY InPkOrderLists
<1> HIDE DEF q
<1>2. Rows(kind, q) \in [1..Cardinality(s) -> S]
  BY <1>1 DEF Rows
<1>3. Listed(Rows(kind, q)) = {<<kind, x>> : x \in Listed(q)}
  BY <1>1 DEF Rows, Listed
<1> QED
  BY <1>1, <1>2, <1>3, SeqDef DEF q

(* A statement waits for the rows it does not hold.                        *)
LEMMA MissingListed ==
  ASSUME NEW w, NEW S, NEW rows \in Seq(S)
  PROVE  Missing(w, rows) \in Seq(S) /\ Listed(Missing(w, rows)) = Listed(rows) \ held[w]
<1> DEFINE s == {k \in DOMAIN rows : rows[k] \notin held[w]}
           q == InPkOrder(s)
<1>1. DOMAIN rows = 1..Len(rows) /\ Len(rows) \in Nat /\ rows \in [1..Len(rows) -> S]
  BY LenProperties
<1>2. IsFiniteSet(1..Len(rows))
  BY <1>1, FS_Interval
<1>3. s \in SUBSET (1..Len(rows)) /\ s \in SUBSET Nat
  BY <1>1
<1>4. IsFiniteSet(s)
  BY <1>2, <1>3, FS_Subset
<1>5. Cardinality(s) \in Nat /\ q \in [1..Cardinality(s) -> s] /\ Listed(q) = s
  BY <1>3, <1>4, InPkOrderLists
<1>6. Missing(w, rows) = [k \in DOMAIN q |-> rows[q[k]]]
  BY DEF Missing
<1> HIDE DEF q
<1>7. Missing(w, rows) \in [1..Cardinality(s) -> S]
  <2>1. \A k \in 1..Cardinality(s) : q[k] \in s /\ rows[q[k]] \in S
    BY <1>1, <1>3, <1>5
  <2> QED
    BY <1>5, <1>6, <2>1
<1>8. Listed(Missing(w, rows)) = {rows[k] : k \in Listed(q)}
  <2>1. /\ DOMAIN Missing(w, rows) = DOMAIN q
        /\ \A k \in DOMAIN q : Missing(w, rows)[k] = rows[q[k]]
    BY <1>6
  <2> QED
    BY <2>1 DEF Listed
<1>9. {rows[k] : k \in s} = Listed(rows) \ held[w]
  <2>1. \A k \in DOMAIN rows : k \in s <=> rows[k] \notin held[w]
    OBVIOUS
  <2>2. \A k \in s : k \in DOMAIN rows
    OBVIOUS
  <2> HIDE DEF s
  <2>3. {rows[k] : k \in s} \subseteq Listed(rows) \ held[w]
    BY <2>1, <2>2 DEF Listed
  <2>4. \A x \in Listed(rows) \ held[w] : \E k \in s : x = rows[k]
    BY <2>1, <2>2 DEF Listed
  <2> QED
    BY <2>3, <2>4
<1> HIDE DEF s
<1>10. Missing(w, rows) \in Seq(S)
  BY <1>5, <1>7, SeqDef
<1>11. Listed(Missing(w, rows)) = Listed(rows) \ held[w]
  BY <1>5, <1>8, <1>9
<1> QED
  BY <1>10, <1>11

-----------------------------------------------------------------------------
(* LedgerLocks: what a request has left to do, by whether it posts         *)

Dates == <<"date", "post", "sync", "commit">>
Posts == <<"post", "sync", "commit">>
Allocates == <<"allocate", "date", "post", "sync", "commit">>
Remains == <<"remaining", "allocate", "date", "post", "sync", "commit">>
Issues == <<"issue", "date", "post", "sync", "commit">>
Records == <<"record", "date", "post", "commit">>
Opens == <<"opening", "date", "post", "commit">>
LastDate == <<"date", "post", "commit">>
LastPost == <<"post", "commit">>
Transfers == <<"both_sides", "date", "post", "date", "post", "commit">>
FirstDate == <<"date", "post", "date", "post", "commit">>
FirstPost == <<"post", "date", "post", "commit">>
Applies == <<"allocate", "sync", "commit">>
IssuesNothing == <<"issue", "sync", "commit">>
Syncs == <<"sync", "commit">>
Peeks == <<"peek", "reread", "reverse", "sync", "commit">>
Rereads == <<"reread", "reverse", "sync", "commit">>
Reverses == <<"reverse", "sync", "commit">>
Stands == <<"standing", "reverse", "commit">>
Uncollects == <<"uncollected", "reverse", "commit">>
LastReverse == <<"reverse", "commit">>
Closes == <<"close", "commit">>
Commits == <<"commit">>

PostsOnce == {Dates, Posts, Allocates, Remains, Issues, Records, Opens, LastDate, LastPost}
PostsTwice == {Transfers, FirstDate, FirstPost}
PostsNothing ==
  {Applies, IssuesNothing, Syncs, Peeks, Rereads, Reverses, Stands, Uncollects, LastReverse,
   Closes, Commits, <<>>}

(* The sides a call posts on; the legs it has left to post are its own.    *)
Across(legs) == UNION {SidesOf(legs[k]) : k \in DOMAIN legs}
OnSides(legs) == IsFiniteSet(Across(legs)) /\ Across(legs) \subseteq Account \cup CashAccount
Steps(legs, ms, s) ==
  \/ s \in PostsNothing
  \/ s \in PostsOnce /\ OnSides(legs) /\ Cardinality(ms) + 1 \in DOMAIN legs
  \/ s \in PostsTwice /\ OnSides(legs) /\ ms = {} /\ {1, 2} \subseteq DOMAIN legs

-----------------------------------------------------------------------------
(* The invariant                                                           *)

CallShape(c) ==
  c = [op |-> c.op, doc |-> c.doc, legs |-> c.legs, amount |-> c.amount, day |-> c.day,
       shares |-> c.shares, invoices |-> c.invoices, attempt |-> c.attempt]
DocShape(x) ==
  x = [kind |-> x.kind, legs |-> x.legs, amount |-> x.amount, date |-> x.date,
       cancelled |-> x.cancelled]
MoveShape(m) ==
  /\ m = [doc |-> m.doc, no |-> m.no, account |-> m.account, dir |-> m.dir, cash |-> m.cash,
          cashDir |-> m.cashDir, amount |-> m.amount, date |-> m.date, source |-> m.source,
          reverses |-> m.reverses]
  /\ m.reverses = 0 => m.no \in Nat \ {0}
MovesShape(ms) == IsFiniteSet(ms) /\ \A m \in ms : MoveShape(m)
TxShape(t) ==
  /\ t = [docs |-> t.docs, moves |-> t.moves, applied |-> t.applied, invoice |-> t.invoice,
          closed |-> t.closed]
  /\ \A d \in DOMAIN t.docs : DocShape(t.docs[d])
  /\ MovesShape(t.moves)

(* On these documents and movements: the live openings on a side, whether  *)
(* a movement is reversed, and that openings come first.                   *)
LiveOn(ds, s) ==
  {d \in DOMAIN ds : ds[d].kind = "opening" /\ ~ds[d].cancelled
                     /\ \E k \in DOMAIN ds[d].legs : Books!Touches(ds[d].legs[k], s)}
Undone(ms, m) == \E n \in ms : n.doc = m.doc /\ n.reverses = m.no
Counts(ms, m, s) == Books!Touches(m, s) /\ ~Undone(ms, m) /\ m.reverses = 0
OpeningsFirst(ds, ms) ==
  \A s \in Account \cup CashAccount : \A d \in LiveOn(ds, s) :
    /\ LiveOn(ds, s) = {d}
    /\ \A m \in ms : Counts(ms, m, s) => ds[d].date <= m.date

(* What record_opening found under its lock still holds.                   *)
MayOpen(a, day, h, ds, ms) ==
  /\ <<"side", a>> \in h
  /\ LiveOn(ds, a) = {}
  /\ \A m \in ms : Counts(ms, m, a) => day <= m.date

(* A request for an opening.                                               *)
Opening(c, t, s, h, ds, ms) ==
  /\ c.day \in Nat
  /\ \E a \in Account : c.legs = <<Books!OnAccount(a, 1)>>
  /\ \/ s = Opens /\ t = Nothing
     \/ s \in {LastDate, LastPost, Commits} /\ MayOpen(c.legs[1].account, c.day, h, ds, ms)

(* A document it has written is live as an opening only if it is one.      *)
WrittenDoc(c, d, x) ==
  x.kind = "opening" /\ ~x.cancelled =>
    c.op = "opening" /\ d = c.doc /\ x.legs = c.legs /\ x.date = c.day

(* A movement it has posted: on sides it holds, after their openings.      *)
PostedMove(c, m, h, ds) ==
  m.reverses = 0 =>
    /\ m.date = c.day /\ SidesOf(m) \subseteq Across(c.legs)
    /\ \A s \in SidesOf(m) : <<"side", s>> \in h
    /\ c.op # "opening" => \A s \in SidesOf(m) : \A d \in LiveOn(ds, s) : ds[d].date <= m.date

(* A request's call c, what it wrote t, what it has left s and holds h, on *)
(* the committed documents ds and movements ms.                            *)
Sound(c, t, s, h, ds, ms) ==
  /\ \/ c = NoCall /\ s = <<>> /\ t = Nothing
     \/ CallShape(c) /\ Steps(c.legs, t.moves, s)
  /\ TxShape(t)
  /\ c.op = "opening" => Opening(c, t, s, h, ds, ms)
  /\ c.op = "cancel" => c.doc \in DOMAIN ds
  /\ \A d \in DOMAIN t.docs : WrittenDoc(c, d, t.docs[d])
  /\ \A m \in t.moves : PostedMove(c, m, h, ds)

(* The sides its statement s locks are in h or still to come in q.         *)
Covers(c, s, q, h) ==
  s # <<>> /\ Head(s) \in {"opening", "post"} =>
    /\ q \in Seq(Listed(q))
    /\ \A x \in Across(c.legs) : <<"side", x>> \in h \cup Listed(q)

(* A row is held by one request.                                           *)
HeldByOne == \A v, w \in Worker : v # w => held[v] \cap held[w] = {}

WorkersShape ==
  /\ DOMAIN call = Worker /\ DOMAIN pc = Worker /\ DOMAIN todo = Worker
  /\ DOMAIN held = Worker /\ DOMAIN tx = Worker

TablesShape(ds, ms) == (\A d \in DOMAIN ds : DocShape(ds[d])) /\ MovesShape(ms)

LocksInv ==
  /\ WorkersShape /\ HeldByOne
  /\ TablesShape(docs, moves) /\ OpeningsFirst(docs, moves)
  /\ \A w \in Worker : /\ Covers(call[w], pc[w], todo[w], held[w])
                       /\ Sound(call[w], tx[w], pc[w], held[w], docs, moves)

-----------------------------------------------------------------------------
(* Statements                                                              *)

LEMMA Heads ==
  /\ Head(Dates) = "date" /\ Head(Posts) = "post" /\ Head(Allocates) = "allocate"
  /\ Head(Remains) = "remaining" /\ Head(Issues) = "issue" /\ Head(Records) = "record"
  /\ Head(Opens) = "opening" /\ Head(LastDate) = "date" /\ Head(LastPost) = "post"
  /\ Head(Transfers) = "both_sides" /\ Head(FirstDate) = "date" /\ Head(FirstPost) = "post"
  /\ Head(Applies) = "allocate" /\ Head(IssuesNothing) = "issue" /\ Head(Syncs) = "sync"
  /\ Head(Peeks) = "peek" /\ Head(Rereads) = "reread" /\ Head(Reverses) = "reverse"
  /\ Head(Stands) = "standing" /\ Head(Uncollects) = "uncollected"
  /\ Head(LastReverse) = "reverse" /\ Head(Closes) = "close" /\ Head(Commits) = "commit"
  BY DEF Dates, Posts, Allocates, Remains, Issues, Records, Opens, LastDate, LastPost,
         Transfers, FirstDate, FirstPost, Applies, IssuesNothing, Syncs, Peeks, Rereads,
         Reverses, Stands, Uncollects, LastReverse, Closes, Commits

LEMMA Tails ==
  /\ Tail(Dates) = Posts /\ Tail(Posts) = Syncs /\ Tail(Allocates) = Dates
  /\ Tail(Remains) = Allocates /\ Tail(Issues) = Dates /\ Tail(Records) = LastDate
  /\ Tail(Opens) = LastDate /\ Tail(LastDate) = LastPost /\ Tail(LastPost) = Commits
  /\ Tail(Transfers) = FirstDate /\ Tail(FirstDate) = FirstPost /\ Tail(FirstPost) = LastDate
  /\ Tail(Applies) = Syncs /\ Tail(IssuesNothing) = Syncs /\ Tail(Syncs) = Commits
  /\ Tail(Peeks) = Rereads /\ Tail(Rereads) = Reverses /\ Tail(Reverses) = Syncs
  /\ Tail(Stands) = LastReverse /\ Tail(Uncollects) = LastReverse
  /\ Tail(LastReverse) = Commits /\ Tail(Closes) = Commits /\ Tail(Commits) = <<>>
  BY DEF Dates, Posts, Allocates, Remains, Issues, Records, Opens, LastDate, LastPost,
         Transfers, FirstDate, FirstPost, Applies, IssuesNothing, Syncs, Peeks, Rereads,
         Reverses, Stands, Uncollects, LastReverse, Closes, Commits

(* Where a request can be that is at a statement.                          *)
LEMMA NothingGoesOn ==
  ASSUME NEW s \in PostsNothing, s # <<>>
  PROVE  Head(s) \notin {"opening", "post"} /\ Tail(s) \in PostsNothing
  BY Heads, Tails DEF PostsNothing

(* On to the next statement, past one that posts nothing.                  *)
LEMMA StepsGoOn ==
  ASSUME NEW legs, NEW ms, NEW s, Steps(legs, ms, s), s # <<>>, Head(s) # "post"
  PROVE  Steps(legs, ms, Tail(s))
<1>1. CASE s \in PostsNothing
  BY <1>1, NothingGoesOn DEF Steps
<1>2. CASE s \in PostsOnce /\ OnSides(legs) /\ Cardinality(ms) + 1 \in DOMAIN legs
  <2>1. Tail(s) \in PostsOnce
    BY <1>2, Heads, Tails DEF PostsOnce
  <2> QED
    BY <1>2, <2>1 DEF Steps
<1>3. CASE s \in PostsTwice /\ OnSides(legs) /\ ms = {} /\ {1, 2} \subseteq DOMAIN legs
  <2>1. Tail(s) \in PostsTwice
    BY <1>3, Heads, Tails DEF PostsTwice
  <2> QED
    BY <1>3, <2>1 DEF Steps
<1> QED
  BY <1>1, <1>2, <1>3 DEF Steps

(* Past one that posts a leg.                                              *)
LEMMA StepsPost ==
  ASSUME NEW legs, NEW ms, NEW s, Steps(legs, ms, s), s # <<>>, Head(s) = "post", NEW m
  PROVE  /\ OnSides(legs) /\ Cardinality(ms) + 1 \in DOMAIN legs
         /\ Steps(legs, ms \cup {m}, Tail(s))
<1>1. s \notin PostsNothing
  BY NothingGoesOn
<1>2. CASE s \in PostsOnce /\ OnSides(legs) /\ Cardinality(ms) + 1 \in DOMAIN legs
  <2>1. s \in {Posts, LastPost}
    BY <1>2, Heads DEF PostsOnce
  <2>2. Tail(s) \in PostsNothing
    BY <2>1, Tails DEF PostsNothing
  <2> QED
    BY <1>2, <2>2 DEF Steps
<1>3. CASE s \in PostsTwice /\ OnSides(legs) /\ ms = {} /\ {1, 2} \subseteq DOMAIN legs
  <2>1. s = FirstPost
    BY <1>3, Heads DEF PostsTwice
  <2>2. Tail(s) \in PostsOnce
    BY <2>1, Tails DEF PostsOnce
  <2>3. ms = {} /\ Cardinality({m}) = 1 /\ ms \cup {m} = {m} /\ Cardinality({}) = 0
    BY <1>3, FS_Singleton, FS_EmptySet
  <2> QED
    BY <1>3, <2>2, <2>3 DEF Steps
<1> QED
  BY <1>1, <1>2, <1>3 DEF Steps

-----------------------------------------------------------------------------
(* Sides                                                                   *)

(* The sides of a call with one leg, or two.                               *)
LEMMA AcrossOne ==
  ASSUME NEW leg
  PROVE  Across(<<leg>>) = SidesOf(leg) /\ IsFiniteSet(SidesOf(leg)) /\ IsFiniteSet(Across(<<leg>>))
<1>1. Across(<<leg>>) = SidesOf(leg)
  BY DEF Across
<1>2. IsFiniteSet({leg.account, leg.cash})
  <2>1. IsFiniteSet({leg.account}) /\ IsFiniteSet({leg.cash})
    BY FS_Singleton
  <2>2. {leg.account, leg.cash} = {leg.account} \cup {leg.cash}
    OBVIOUS
  <2> QED
    BY <2>1, <2>2, FS_Union
<1>3. IsFiniteSet(SidesOf(leg))
  BY <1>2, FS_Subset, SidesOf(leg) \subseteq {leg.account, leg.cash} DEF SidesOf
<1> QED
  BY <1>1, <1>3

LEMMA AcrossTwo ==
  ASSUME NEW leg, NEW other
  PROVE  /\ Across(<<leg, other>>) = SidesOf(leg) \cup SidesOf(other)
         /\ IsFiniteSet(Across(<<leg, other>>))
<1>1. Across(<<leg, other>>) = SidesOf(leg) \cup SidesOf(other)
  <2>1. DOMAIN <<leg, other>> = {1, 2} /\ <<leg, other>>[1] = leg /\ <<leg, other>>[2] = other
    OBVIOUS
  <2> QED
    BY <2>1 DEF Across
<1>2. IsFiniteSet(SidesOf(leg)) /\ IsFiniteSet(SidesOf(other))
  BY AcrossOne
<1> QED
  BY <1>1, <1>2, FS_Union

LEMMA ListLength ==
  ASSUME NEW R, NEW n \in Nat, NEW t \in [1..n -> R]
  PROVE  t \in Seq(R) /\ Len(t) = n
<1>1. t \in Seq(R)
  BY SeqDef
<1>2. Len(t) \in Nat /\ 1..n = 1..Len(t)
  BY <1>1, LenProperties
<1>3. n <= Len(t) /\ Len(t) <= n
  <2>1. n > 0 => n \in 1..n
    OBVIOUS
  <2>2. Len(t) > 0 => Len(t) \in 1..Len(t)
    BY <1>2
  <2>3. n > 0 => n \in 1..Len(t)
    BY <1>2, <2>1
  <2>4. Len(t) > 0 => Len(t) \in 1..n
    BY <1>2, <2>2
  <2> QED
    BY <1>2, <2>3, <2>4
<1> QED
  BY <1>1, <1>2, <1>3

(* The rows of two lists of keys, one after the other.                     *)
LEMMA RowsOfBoth ==
  ASSUME NEW kind, NEW p \in Seq(Nat), NEW q \in Seq(Nat)
  PROVE  Rows(kind, p \o q) = Rows(kind, p) \o Rows(kind, q)
<1>1. /\ p \o q \in Seq(Nat) /\ Len(p \o q) = Len(p) + Len(q)
      /\ \A i \in 1 .. Len(p) + Len(q) : (p \o q)[i] = IF i <= Len(p) THEN p[i] ELSE q[i - Len(p)]
  BY ConcatProperties
<1>2. /\ DOMAIN p = 1..Len(p) /\ DOMAIN q = 1..Len(q) /\ DOMAIN (p \o q) = 1..(Len(p) + Len(q))
      /\ Len(p) \in Nat /\ Len(q) \in Nat
  BY <1>1, LenProperties
<1> DEFINE rp == Rows(kind, p)
           rq == Rows(kind, q)
           rows == Rows(kind, p \o q)
           R == {<<kind, x>> : x \in Nat}
<1>3. rp \in [1..Len(p) -> R] /\ rq \in [1..Len(q) -> R] /\ rows \in [1..(Len(p) + Len(q)) -> R]
  <2>1. \A k \in 1..(Len(p) + Len(q)) : (p \o q)[k] \in Nat
    BY <1>1, <1>2, ElementOfSeq
  <2> QED
    BY <1>2, <2>1, ElementOfSeq DEF Rows
<1>4. /\ rp \in Seq(R) /\ rq \in Seq(R) /\ rows \in Seq(R)
      /\ Len(rp) = Len(p) /\ Len(rq) = Len(q) /\ Len(rows) = Len(p) + Len(q)
  <2>1. Len(p) + Len(q) \in Nat
    BY <1>2
  <2>2. rp \in Seq(R) /\ Len(rp) = Len(p)
    BY <1>2, <1>3, ListLength
  <2>3. rq \in Seq(R) /\ Len(rq) = Len(q)
    BY <1>2, <1>3, ListLength
  <2>4. rows \in Seq(R) /\ Len(rows) = Len(p) + Len(q)
    <3> HIDE DEF rows
    <3> QED
      BY <2>1, <1>3, ListLength
  <2> QED
    BY <2>2, <2>3, <2>4
<1>5. /\ \A k \in 1..Len(p) : rp[k] = <<kind, p[k]>>
      /\ \A k \in 1..Len(q) : rq[k] = <<kind, q[k]>>
      /\ \A k \in 1..(Len(p) + Len(q)) : rows[k] = <<kind, (p \o q)[k]>>
  BY <1>2 DEF Rows
<1> HIDE DEF rp, rq, rows, R
<1>6. /\ rp \o rq \in Seq(R) /\ Len(rp \o rq) = Len(rp) + Len(rq)
      /\ \A i \in 1 .. Len(rp) + Len(rq) : (rp \o rq)[i] = IF i <= Len(rp) THEN rp[i] ELSE rq[i - Len(rp)]
  <2>1. rp \in Seq(R) /\ rq \in Seq(R)
    BY <1>4
  <2> QED
    BY <2>1, ConcatProperties
<1>7. \A i \in 1..Len(rows) : rows[i] = (rp \o rq)[i]
  <2> SUFFICES ASSUME NEW i \in 1..(Len(p) + Len(q)) PROVE rows[i] = (rp \o rq)[i]
    BY <1>4
  <2>1. CASE i <= Len(p)
    <3>1. i \in 1..Len(p)
      BY <1>2, <2>1
    <3> QED
      BY <1>1, <1>4, <1>5, <1>6, <2>1, <3>1
  <2>2. CASE ~(i <= Len(p))
    <3>1. i - Len(p) \in 1..Len(q)
      BY <1>2, <2>2
    <3>2. rows[i] = <<kind, (p \o q)[i]>> /\ rq[i - Len(p)] = <<kind, q[i - Len(p)]>>
      BY <1>5, <3>1
    <3>3. (p \o q)[i] = q[i - Len(p)]
      BY <1>1, <2>2
    <3>4. (rp \o rq)[i] = rq[i - Len(p)]
      BY <1>4, <1>6, <2>2
    <3> QED
      BY <3>2, <3>3, <3>4
  <2> QED
    BY <2>1, <2>2
<1>8. rows = rp \o rq
  BY <1>4, <1>6, <1>7, SeqEqual
<1> QED
  BY <1>8 DEF rp, rq, rows

(* lock_sides locks them all.                                              *)
LEMMA SidesListed ==
  ASSUME NEW sides, IsFiniteSet(sides), sides \subseteq Account \cup CashAccount
  PROVE  \E S : SideRows(sides) \in Seq(S) /\ \A s \in sides : <<"side", s>> \in Listed(SideRows(sides))
<1> DEFINE p == Rows("side", InPkOrder(sides \cap Account))
           q == Rows("side", InPkOrder(sides \cap CashAccount))
           S == {<<"side", s>> : s \in sides}
<1>1. /\ sides \cap Account \in SUBSET Nat /\ sides \cap CashAccount \in SUBSET Nat
      /\ IsFiniteSet(sides \cap Account) /\ IsFiniteSet(sides \cap CashAccount)
  <2>1. Account \subseteq Nat /\ CashAccount \subseteq Nat
    BY LocksAssumption
  <2> QED
    BY <2>1, FS_Subset, sides \cap Account \subseteq sides, sides \cap CashAccount \subseteq sides
<1>2. p \in Seq(S) /\ Listed(p) = {<<"side", x>> : x \in sides \cap Account}
  <2>1. \A x \in sides \cap Account : <<"side", x>> \in S
    OBVIOUS
  <2> QED
    BY <1>1, <2>1, RowsListed
<1>3. q \in Seq(S) /\ Listed(q) = {<<"side", x>> : x \in sides \cap CashAccount}
  <2>1. \A x \in sides \cap CashAccount : <<"side", x>> \in S
    OBVIOUS
  <2> QED
    BY <1>1, <2>1, RowsListed
<1>4. Rows("side", InPkOrder(sides \cap Account) \o InPkOrder(sides \cap CashAccount)) = p \o q
  <2>1. /\ InPkOrder(sides \cap Account) \in Seq(Nat) /\ InPkOrder(sides \cap CashAccount) \in Seq(Nat)
    <3>1. ASSUME NEW t \in SUBSET Nat, IsFiniteSet(t) PROVE InPkOrder(t) \in Seq(Nat)
      <4>1. Cardinality(t) \in Nat /\ InPkOrder(t) \in [1..Cardinality(t) -> t]
        BY <3>1, InPkOrderLists
      <4>2. InPkOrder(t) \in [1..Cardinality(t) -> Nat]
        BY <4>1
      <4> QED
        BY <4>1, <4>2, SeqDef
    <3> QED
      BY <1>1, <3>1
  <2> QED
    BY <2>1, RowsOfBoth
<1> HIDE DEF p, q, S
<1>5. SideRows(sides) \in Seq(S) /\ Listed(SideRows(sides)) = Listed(p) \cup Listed(q)
  <2>1. SideRows(sides) = p \o q
    BY <1>4 DEF SideRows
  <2>2. p \in Seq(S) /\ q \in Seq(S)
    BY <1>2, <1>3
  <2>3. p \o q \in Seq(S) /\ Listed(p \o q) = Listed(p) \cup Listed(q)
    BY <2>2, ListsAppended
  <2> QED
    BY <2>1, <2>3
<1>6. \A s \in sides : <<"side", s>> \in Listed(p) \cup Listed(q)
  BY <1>2, <1>3
<1> QED
  BY <1>5, <1>6

-----------------------------------------------------------------------------
(* The invariant over the books as Ledger states them                      *)

LEMMA OpeningsAreFirst == OpeningsFirst(docs, moves) <=> OpeningHolds
<1>1. \A s : Books!LiveOpenings(s) = LiveOn(docs, s)
  BY DEF LiveOn, Books!LiveOpenings, Books!DocIds
<1>2. \A m, s : Counts(moves, m, s) <=>
                  Books!Touches(m, s) /\ ~Books!Reversed(m) /\ ~Books!IsMirror(m)
  BY DEF Counts, Undone, Books!Reversed, Books!MovesOf, Books!IsMirror
<1>3. Books!Sides = Account \cup CashAccount
  BY DEF Books!Sides
<1> QED
  BY <1>1, <1>2, <1>3 DEF OpeningsFirst, OpeningHolds, Books!OpeningComesFirst

-----------------------------------------------------------------------------
(* What a request has written                                              *)

LEMMA NothingWritten == TxShape(Nothing) /\ Nothing.docs = <<>> /\ Nothing.moves = {}
<1>1. Nothing.docs = <<>> /\ Nothing.moves = {} /\ DOMAIN <<>> = {}
  BY DEF Nothing
<1>2. Nothing = [docs |-> Nothing.docs, moves |-> Nothing.moves, applied |-> Nothing.applied,
                 invoice |-> Nothing.invoice, closed |-> Nothing.closed]
  BY DEF Nothing
<1>3. MovesShape(Nothing.moves)
  BY <1>1, FS_EmptySet DEF MovesShape
<1> QED
  BY <1>1, <1>2, <1>3 DEF TxShape

(* The row of a new document.                                              *)
LEMMA NewWritten ==
  ASSUME NEW c
  PROVE  \A d \in DOMAIN NewDocument(c) :
           DocShape(NewDocument(c)[d]) /\ WrittenDoc(c, d, NewDocument(c)[d])
<1> DEFINE row == [kind |-> IF c.op = "mark_paid" THEN "collection" ELSE c.op, legs |-> c.legs,
                   amount |-> c.amount, date |-> c.day, cancelled |-> FALSE]
<1>1. DOMAIN NewDocument(c) = {c.doc} /\ NewDocument(c)[c.doc] = row
  BY DEF NewDocument, Only
<1>2. DocShape(row)
  BY DEF DocShape
<1>3. WrittenDoc(c, c.doc, row)
  BY DEF WrittenDoc
<1> HIDE DEF row
<1> QED
  BY <1>1, <1>2, <1>3

(* A request between calls.                                                *)
LEMMA IdleSound ==
  ASSUME NEW h, NEW ds, NEW ms
  PROVE  Sound(NoCall, Nothing, <<>>, h, ds, ms)
  BY NothingWritten DEF Sound, NoCall

(* A request at a statement that neither posts nor commits goes on to the  *)
(* next, with the same call and movements.                                 *)
LEMMA GoesOn ==
  ASSUME NEW c, NEW t, NEW s, NEW h, NEW ds, NEW ms, Sound(c, t, s, h, ds, ms),
         s # <<>>, Head(s) \notin {"opening", "post", "commit"},
         NEW c2, CallShape(c2), c2.op = c.op, c2.doc = c.doc, c2.legs = c.legs, c2.day = c.day,
         NEW t2, TxShape(t2), t2.moves = t.moves,
         \A d \in DOMAIN t2.docs : WrittenDoc(c, d, t2.docs[d])
  PROVE  Sound(c2, t2, Tail(s), h, ds, ms)
<1>1. CallShape(c) /\ Steps(c.legs, t.moves, s)
  BY DEF Sound
<1>2. Steps(c2.legs, t2.moves, Tail(s))
  BY <1>1, StepsGoOn
<1>3. c.op = "opening" => Opening(c2, t2, Tail(s), h, ds, ms)
  <2> SUFFICES ASSUME c.op = "opening" PROVE Opening(c2, t2, Tail(s), h, ds, ms)
    OBVIOUS
  <2>1. Opening(c, t, s, h, ds, ms)
    BY DEF Sound
  <2>2. s = LastDate /\ Tail(s) = LastPost
    BY <2>1, Heads, Tails DEF Opening
  <2> QED
    BY <2>1, <2>2, Heads DEF Opening
<1>4. \A d \in DOMAIN t2.docs : WrittenDoc(c2, d, t2.docs[d])
  BY DEF WrittenDoc
<1>5. \A m \in t2.moves : PostedMove(c2, m, h, ds)
  BY DEF Sound, PostedMove
<1>6. c2.op = "cancel" => c2.doc \in DOMAIN ds
  BY DEF Sound
<1> QED
  BY <1>2, <1>3, <1>4, <1>5, <1>6 DEF Sound

-----------------------------------------------------------------------------
(* Steps of one request                                                    *)

(* lock_sides waits for the sides it does not hold.                        *)
LEMMA LocksItsSides ==
  ASSUME LocksInv, NEW w \in Worker, NEW c, NEW t, NEW s, s # <<>>, Head(s) \in {"opening", "post"},
         OnSides(c.legs), NEW q, q = Missing(w, RowsOf(c, Head(s), t))
  PROVE  Covers(c, s, q, held[w])
<1> DEFINE rows == SideRows(Across(c.legs))
<1>1. RowsOf(c, Head(s), t) = rows
  BY DEF RowsOf, Across
<1>2. PICK S : rows \in Seq(S) /\ \A x \in Across(c.legs) : <<"side", x>> \in Listed(rows)
  BY SidesListed DEF OnSides
<1> HIDE DEF rows
<1>3. q \in Seq(S) /\ Listed(q) = Listed(rows) \ held[w]
  BY <1>1, <1>2, MissingListed
<1>4. q \in Seq(Listed(q))
  <2>1. q \in [1..Len(q) -> S] /\ Len(q) \in Nat /\ DOMAIN q = 1..Len(q)
    BY <1>3, LenProperties
  <2>2. q \in [1..Len(q) -> Listed(q)]
    BY <2>1 DEF Listed
  <2> QED
    BY <2>1, <2>2, SeqDef
<1> QED
  BY <1>2, <1>3, <1>4 DEF Covers

LEMMA GotoKeeps ==
  ASSUME LocksInv, NEW w \in Worker, NEW c, NEW t, NEW s, Goto(w, s, c, t),
         Sound(c, t, s, held[w], docs, moves)
  PROVE  LocksInv'
<1>1. /\ call' = [call EXCEPT ![w] = c] /\ tx' = [tx EXCEPT ![w] = t]
      /\ pc' = [pc EXCEPT ![w] = s] /\ held' = held /\ docs' = docs /\ moves' = moves
      /\ todo' = [todo EXCEPT ![w] = Missing(w, RowsOf(c, Head(s), t))]
  BY DEF Goto, tables
<1>2. WorkersShape /\ HeldByOne /\ TablesShape(docs, moves) /\ OpeningsFirst(docs, moves)
  BY DEF LocksInv
<1>3. WorkersShape' /\ HeldByOne'
  BY <1>1, <1>2 DEF WorkersShape, HeldByOne
<1>4. Covers(c, s, todo'[w], held[w])
  <2> SUFFICES ASSUME s # <<>>, Head(s) \in {"opening", "post"} PROVE Covers(c, s, todo'[w], held[w])
    BY DEF Covers
  <2>1. OnSides(c.legs)
    <3>1. s \notin PostsNothing
      BY NothingGoesOn
    <3>2. Steps(c.legs, t.moves, s)
      BY DEF Sound
    <3> QED
      BY <3>1, <3>2 DEF Steps
  <2>2. todo'[w] = Missing(w, RowsOf(c, Head(s), t))
    BY <1>1, <1>2 DEF WorkersShape
  <2> QED
    BY <2>1, <2>2, LocksItsSides
<1>5. ASSUME NEW v \in Worker
      PROVE  /\ Covers(call'[v], pc'[v], todo'[v], held'[v])
             /\ Sound(call'[v], tx'[v], pc'[v], held'[v], docs', moves')
  <2>1. CASE v = w
    <3>1. call'[v] = c /\ tx'[v] = t /\ pc'[v] = s /\ held'[v] = held[w] /\ todo'[v] = todo'[w]
      BY <1>1, <1>2, <2>1 DEF WorkersShape
    <3> QED
      BY <1>1, <1>4, <3>1
  <2>2. CASE v # w
    <3>1. /\ call'[v] = call[v] /\ tx'[v] = tx[v] /\ pc'[v] = pc[v] /\ held'[v] = held[v]
          /\ todo'[v] = todo[v]
      BY <1>1, <1>2, <2>2 DEF WorkersShape
    <3>2. Covers(call[v], pc[v], todo[v], held[v]) /\ Sound(call[v], tx[v], pc[v], held[v], docs, moves)
      BY DEF LocksInv
    <3> QED
      BY <1>1, <3>1, <3>2
  <2> QED
    BY <2>1, <2>2
<1> QED
  BY <1>1, <1>2, <1>3, <1>5 DEF LocksInv

LEMMA EndKeeps ==
  ASSUME LocksInv, NEW w \in Worker, NEW c, NEW s \in PostsNothing, End(w, c, s), UNCHANGED tables,
         Sound(c, Nothing, s, {}, docs, moves)
  PROVE  LocksInv'
<1>1. /\ call' = [call EXCEPT ![w] = c] /\ tx' = [tx EXCEPT ![w] = Nothing]
      /\ pc' = [pc EXCEPT ![w] = s] /\ held' = [held EXCEPT ![w] = {}]
      /\ docs' = docs /\ moves' = moves /\ todo' = [todo EXCEPT ![w] = <<>>]
  BY DEF End, tables
<1>2. WorkersShape /\ HeldByOne /\ TablesShape(docs, moves) /\ OpeningsFirst(docs, moves)
  BY DEF LocksInv
<1>3. WorkersShape' /\ HeldByOne'
  BY <1>1, <1>2 DEF WorkersShape, HeldByOne
<1>4. ASSUME NEW v \in Worker
      PROVE  /\ Covers(call'[v], pc'[v], todo'[v], held'[v])
             /\ Sound(call'[v], tx'[v], pc'[v], held'[v], docs', moves')
  <2>1. CASE v = w
    <3>1. call'[v] = c /\ tx'[v] = Nothing /\ pc'[v] = s /\ held'[v] = {}
      BY <1>1, <1>2, <2>1 DEF WorkersShape
    <3>2. Covers(c, s, todo'[v], {})
      BY NothingGoesOn DEF Covers
    <3> QED
      BY <1>1, <3>1, <3>2
  <2>2. CASE v # w
    <3>1. /\ call'[v] = call[v] /\ tx'[v] = tx[v] /\ pc'[v] = pc[v] /\ held'[v] = held[v]
          /\ todo'[v] = todo[v]
      BY <1>1, <1>2, <2>2 DEF WorkersShape
    <3>2. Covers(call[v], pc[v], todo[v], held[v]) /\ Sound(call[v], tx[v], pc[v], held[v], docs, moves)
      BY DEF LocksInv
    <3> QED
      BY <1>1, <3>1, <3>2
  <2> QED
    BY <2>1, <2>2
<1> QED
  BY <1>1, <1>2, <1>3, <1>4 DEF LocksInv

LEMMA RefuseKeeps ==
  ASSUME LocksInv, NEW w \in Worker, Refuse(w)
  PROVE  LocksInv'
  BY IdleSound, EndKeeps DEF Refuse, PostsNothing

(* A row is locked only when no other request holds it.                    *)
LEMMA LockKeeps ==
  ASSUME LocksInv, NEW w \in Worker, Lock(w)
  PROVE  LocksInv'
<1> DEFINE row == Head(todo[w])
           takes == Head(pc[w]) # "commit"
<1>1. /\ todo[w] # <<>> /\ todo' = [todo EXCEPT ![w] = Tail(@)]
      /\ held' = IF takes THEN [held EXCEPT ![w] = @ \cup {row}] ELSE held
      /\ call' = call /\ pc' = pc /\ tx' = tx /\ docs' = docs /\ moves' = moves
      /\ \A v \in Worker \ {w} : row \notin held[v]
  BY DEF Lock, Granted, tables
<1>2. WorkersShape /\ HeldByOne /\ TablesShape(docs, moves) /\ OpeningsFirst(docs, moves)
  BY DEF LocksInv
<1>3. /\ held[w] \subseteq held'[w] /\ held'[w] \subseteq held[w] \cup {row}
      /\ takes => row \in held'[w]
      /\ \A v \in Worker \ {w} : held'[v] = held[v] /\ todo'[v] = todo[v]
      /\ todo'[w] = Tail(todo[w])
  BY <1>1, <1>2 DEF WorkersShape
<1>4. WorkersShape' /\ HeldByOne'
  <2>1. WorkersShape'
    BY <1>1, <1>2 DEF WorkersShape
  <2>2. ASSUME NEW v \in Worker, NEW u \in Worker, v # u PROVE held'[v] \cap held'[u] = {}
    <3>1. held[v] \cap held[u] = {}
      BY <1>2, <2>2 DEF HeldByOne
    <3> QED
      BY <1>1, <1>3, <2>2, <3>1
  <2> QED
    BY <2>1, <2>2 DEF HeldByOne
<1>5. ASSUME NEW v \in Worker
      PROVE  /\ Covers(call[v], pc[v], todo'[v], held'[v])
             /\ Sound(call[v], tx[v], pc[v], held'[v], docs, moves)
  <2>0. Covers(call[v], pc[v], todo[v], held[v]) /\ Sound(call[v], tx[v], pc[v], held[v], docs, moves)
    BY DEF LocksInv
  <2>1. CASE v = w
    <3>1. Sound(call[v], tx[v], pc[v], held'[v], docs, moves)
      <4>1. ASSUME NEW c, NEW t, NEW s, NEW h, NEW k, h \subseteq k, Sound(c, t, s, h, docs, moves)
            PROVE  Sound(c, t, s, k, docs, moves)
        <5>1. Opening(c, t, s, h, docs, moves) => Opening(c, t, s, k, docs, moves)
          BY <4>1 DEF Opening, MayOpen
        <5>2. \A m \in t.moves : PostedMove(c, m, h, docs) => PostedMove(c, m, k, docs)
          BY <4>1 DEF PostedMove
        <5> QED
          BY <4>1, <5>1, <5>2 DEF Sound
      <4> QED
        BY <1>3, <2>0, <2>1, <4>1
    <3>2. Covers(call[v], pc[v], todo'[v], held'[v])
      <4> SUFFICES ASSUME pc[w] # <<>>, Head(pc[w]) \in {"opening", "post"}
                   PROVE  /\ todo'[w] \in Seq(Listed(todo'[w]))
                          /\ \A x \in Across(call[w].legs) : <<"side", x>> \in held'[w] \cup Listed(todo'[w])
        BY <2>1 DEF Covers
      <4>1. /\ todo[w] \in Seq(Listed(todo[w]))
            /\ \A x \in Across(call[w].legs) : <<"side", x>> \in held[w] \cup Listed(todo[w])
        BY <2>0, <2>1 DEF Covers
      <4>2. /\ Tail(todo[w]) \in Seq(Listed(todo[w]))
            /\ Listed(todo[w]) = {row} \cup Listed(Tail(todo[w]))
        BY <1>1, <4>1, ListedHeadTail
      <4>3. Tail(todo[w]) \in Seq(Listed(Tail(todo[w])))
        <5> DEFINE q == Tail(todo[w])
        <5>1. q \in [1..Len(q) -> Listed(todo[w])] /\ Len(q) \in Nat /\ DOMAIN q = 1..Len(q)
          BY <4>2, LenProperties
        <5> HIDE DEF q
        <5>2. q \in [1..Len(q) -> Listed(q)]
          BY <5>1 DEF Listed
        <5>3. q \in Seq(Listed(q))
          BY <5>1, <5>2, SeqDef
        <5> QED
          BY <5>3 DEF q
      <4>4. row \in held'[w]
        BY <1>3
      <4> QED
        BY <1>3, <4>1, <4>2, <4>3, <4>4
    <3> QED
      BY <3>1, <3>2
  <2>2. CASE v # w
    BY <1>3, <2>0, <2>2
  <2> QED
    BY <2>1, <2>2
<1> QED
  BY <1>1, <1>2, <1>4, <1>5 DEF LocksInv

-----------------------------------------------------------------------------
(* The statements                                                          *)

(* A request at a statement is serving a call.                             *)
LEMMA AtWork ==
  ASSUME LocksInv, NEW w \in Worker, NEW x, At(w, x)
  PROVE  /\ pc[w] # <<>> /\ Head(pc[w]) = x /\ todo[w] = <<>>
         /\ Sound(call[w], tx[w], pc[w], held[w], docs, moves)
         /\ CallShape(call[w]) /\ Steps(call[w].legs, tx[w].moves, pc[w]) /\ TxShape(tx[w])
         /\ TablesShape(docs, moves)
<1>1. pc[w] # <<>> /\ Head(pc[w]) = x /\ todo[w] = <<>>
  BY DEF At
<1>2. Sound(call[w], tx[w], pc[w], held[w], docs, moves) /\ TablesShape(docs, moves)
  BY DEF LocksInv
<1> QED
  BY <1>1, <1>2 DEF Sound

(* The request goes on, having written no movement.                        *)
LEMMA ContinueKeeps ==
  ASSUME LocksInv, NEW w \in Worker, NEW x, At(w, x), x \notin {"opening", "post", "commit"},
         NEW c, CallShape(c), c.op = call[w].op, c.doc = call[w].doc, c.legs = call[w].legs,
         c.day = call[w].day,
         NEW t, TxShape(t), t.moves = tx[w].moves,
         \A d \in DOMAIN t.docs : WrittenDoc(call[w], d, t.docs[d]),
         Continue(w, c, t)
  PROVE  LocksInv'
<1>1. Sound(c, t, Tail(pc[w]), held[w], docs, moves)
  BY AtWork, GoesOn
<1> QED
  BY <1>1, GotoKeeps DEF Continue

(* What it wrote before stays.                                             *)
LEMMA OwnDocs ==
  ASSUME LocksInv, NEW w \in Worker
  PROVE  TxShape(tx[w]) /\ \A d \in DOMAIN tx[w].docs : WrittenDoc(call[w], d, tx[w].docs[d])
  BY DEF LocksInv, Sound

(* The rows a transaction writes, one table after another.                 *)
LEMMA TxWrites ==
  ASSUME NEW t, TxShape(t)
  PROVE  /\ \A x : LET u == [t EXCEPT !.applied = x]
                   IN  TxShape(u) /\ u.docs = t.docs /\ u.moves = t.moves
         /\ \A x : LET u == [t EXCEPT !.invoice = x]
                   IN  TxShape(u) /\ u.docs = t.docs /\ u.moves = t.moves
         /\ \A x : LET u == [t EXCEPT !.closed = x]
                   IN  TxShape(u) /\ u.docs = t.docs /\ u.moves = t.moves
         /\ \A x : (\A d \in DOMAIN x : DocShape(x[d])) =>
                   LET u == [t EXCEPT !.docs = x]
                   IN  TxShape(u) /\ u.docs = x /\ u.moves = t.moves
         /\ \A x : MovesShape(x) =>
                   LET u == [t EXCEPT !.moves = x]
                   IN  TxShape(u) /\ u.docs = t.docs /\ u.moves = x
<1>1. t = [docs |-> t.docs, moves |-> t.moves, applied |-> t.applied, invoice |-> t.invoice,
           closed |-> t.closed]
  BY DEF TxShape
<1>2. ASSUME NEW x
      PROVE  /\ [t EXCEPT !.applied = x] = [docs |-> t.docs, moves |-> t.moves, applied |-> x,
                                            invoice |-> t.invoice, closed |-> t.closed]
             /\ [t EXCEPT !.invoice = x] = [docs |-> t.docs, moves |-> t.moves, applied |-> t.applied,
                                            invoice |-> x, closed |-> t.closed]
             /\ [t EXCEPT !.closed = x] = [docs |-> t.docs, moves |-> t.moves, applied |-> t.applied,
                                            invoice |-> t.invoice, closed |-> x]
             /\ [t EXCEPT !.docs = x] = [docs |-> x, moves |-> t.moves, applied |-> t.applied,
                                            invoice |-> t.invoice, closed |-> t.closed]
             /\ [t EXCEPT !.moves = x] = [docs |-> t.docs, moves |-> x, applied |-> t.applied,
                                            invoice |-> t.invoice, closed |-> t.closed]
  BY <1>1
<1>3. (\A d \in DOMAIN t.docs : DocShape(t.docs[d])) /\ MovesShape(t.moves)
  BY DEF TxShape
<1> QED
  BY <1>2, <1>3 DEF TxShape

(* What mark_paid remembers of the invoice.                                *)
Owing(c, x, y) == [c EXCEPT !.amount = x, !.shares = y]

LEMMA AmountKept ==
  ASSUME NEW c, CallShape(c), NEW x, NEW y
  PROVE  LET d == Owing(c, x, y)
         IN  CallShape(d) /\ d.op = c.op /\ d.doc = c.doc /\ d.legs = c.legs /\ d.day = c.day
<1>1. c = [op |-> c.op, doc |-> c.doc, legs |-> c.legs, amount |-> c.amount, day |-> c.day,
           shares |-> c.shares, invoices |-> c.invoices, attempt |-> c.attempt]
  BY DEF CallShape
<1> DEFINE e == [c EXCEPT !.amount = x]
<1>2. [c EXCEPT !.amount = x, !.shares = y] = [e EXCEPT !.shares = y]
  OBVIOUS
<1>3. e = [op |-> c.op, doc |-> c.doc, legs |-> c.legs, amount |-> x, day |-> c.day,
           shares |-> c.shares, invoices |-> c.invoices, attempt |-> c.attempt]
  BY <1>1
<1> HIDE DEF e
<1>4. [c EXCEPT !.amount = x, !.shares = y] =
        [op |-> c.op, doc |-> c.doc, legs |-> c.legs, amount |-> x, day |-> c.day,
         shares |-> y, invoices |-> c.invoices, attempt |-> c.attempt]
  BY <1>2, <1>3
<1> QED
  BY <1>4 DEF CallShape, Owing

LEMMA CallKept ==
  ASSUME NEW c, CallShape(c)
  PROVE  /\ \A x : LET d == [c EXCEPT !.invoices = x]
                   IN  CallShape(d) /\ d.op = c.op /\ d.doc = c.doc /\ d.legs = c.legs /\ d.day = c.day
         /\ LET d == [c EXCEPT !.attempt = @ + 1]
            IN  CallShape(d) /\ d.op = c.op /\ d.doc = c.doc /\ d.legs = c.legs /\ d.day = c.day
<1>1. c = [op |-> c.op, doc |-> c.doc, legs |-> c.legs, amount |-> c.amount, day |-> c.day,
           shares |-> c.shares, invoices |-> c.invoices, attempt |-> c.attempt]
  BY DEF CallShape
<1>3. ASSUME NEW x
      PROVE  [c EXCEPT !.invoices = x] =
               [op |-> c.op, doc |-> c.doc, legs |-> c.legs, amount |-> c.amount, day |-> c.day,
                shares |-> c.shares, invoices |-> x, attempt |-> c.attempt]
  BY <1>1
<1>4. [c EXCEPT !.attempt = @ + 1] =
        [op |-> c.op, doc |-> c.doc, legs |-> c.legs, amount |-> c.amount, day |-> c.day,
         shares |-> c.shares, invoices |-> c.invoices, attempt |-> c.attempt + 1]
  BY <1>1
<1> QED
  BY <1>3, <1>4 DEF CallShape

LEMMA CheckRemainingKeeps ==
  ASSUME LocksInv, NEW w \in Worker, CheckRemaining(w) PROVE LocksInv'
<1>1. At(w, "remaining") /\ CallShape(call[w])
  BY AtWork DEF CheckRemaining
<1>2. CASE Refuse(w)
  BY <1>2, RefuseKeeps
<1>3. ASSUME NEW x, NEW y, Continue(w, [call[w] EXCEPT !.amount = x, !.shares = y], tx[w])
      PROVE  LocksInv'
  <2> DEFINE c == Owing(call[w], x, y)
  <2>1. /\ CallShape(c) /\ c.op = call[w].op /\ c.doc = call[w].doc /\ c.legs = call[w].legs
        /\ c.day = call[w].day
    BY <1>1, AmountKept
  <2>2. Continue(w, c, tx[w])
    BY <1>3 DEF Owing
  <2> HIDE DEF c
  <2> QED
    BY <1>1, <2>1, <2>2, OwnDocs, ContinueKeeps
<1> QED
  BY <1>2, <1>3 DEF CheckRemaining

LEMMA AllocateKeeps ==
  ASSUME LocksInv, NEW w \in Worker, Allocate(w) PROVE LocksInv'
<1>1. At(w, "allocate") /\ CallShape(call[w])
  BY AtWork DEF Allocate
<1>2. CASE Refuse(w)
  BY <1>2, RefuseKeeps
<1> DEFINE c == call[w]
           t == IF c.op = "apply" THEN tx[w] ELSE [tx[w] EXCEPT !.docs = NewDocument(c)]
           u == [t EXCEPT !.applied = c.shares]
<1>3. CASE Continue(w, c, u)
  <2>1. TxShape(t) /\ t.moves = tx[w].moves /\ \A d \in DOMAIN t.docs : WrittenDoc(c, d, t.docs[d])
    BY OwnDocs, TxWrites, NewWritten
  <2> HIDE DEF t
  <2>2. TxShape(u) /\ u.docs = t.docs /\ u.moves = t.moves
    BY <2>1, TxWrites
  <2> HIDE DEF u
  <2> QED
    BY <1>1, <1>3, <2>1, <2>2, ContinueKeeps
<1> QED
  BY <1>2, <1>3 DEF Allocate

LEMMA RecordDocumentKeeps ==
  ASSUME LocksInv, NEW w \in Worker, RecordDocument(w) PROVE LocksInv'
<1> DEFINE u == [tx[w] EXCEPT !.docs = NewDocument(call[w])]
<1>1. Continue(w, call[w], u) /\ \E x \in {"record", "both_sides"} : At(w, x)
  BY DEF RecordDocument
<1>2. TxShape(u) /\ u.docs = NewDocument(call[w]) /\ u.moves = tx[w].moves
  BY OwnDocs, TxWrites, NewWritten
<1> HIDE DEF u
<1>3. CallShape(call[w])
  BY <1>1, AtWork
<1>4. \A d \in DOMAIN u.docs : WrittenDoc(call[w], d, u.docs[d])
  BY <1>2, NewWritten
<1> QED
  BY <1>1, <1>2, <1>3, <1>4, ContinueKeeps

LEMMA IssueInvoiceKeeps ==
  ASSUME LocksInv, NEW w \in Worker, IssueInvoice(w) PROVE LocksInv'
<1>1. At(w, "issue") /\ CallShape(call[w])
  BY AtWork DEF IssueInvoice
<1>2. CASE Refuse(w)
  BY <1>2, RefuseKeeps
<1>3. ASSUME NEW x, Continue(w, call[w], [tx[w] EXCEPT !.invoice = x]) PROVE LocksInv'
  <2> DEFINE u == [tx[w] EXCEPT !.invoice = x]
  <2>1. TxShape(u) /\ u.docs = tx[w].docs /\ u.moves = tx[w].moves
    BY OwnDocs, TxWrites
  <2> HIDE DEF u
  <2> QED
    BY <1>1, <1>3, <2>1, OwnDocs, ContinueKeeps DEF u
<1> QED
  BY <1>2, <1>3 DEF IssueInvoice

LEMMA CheckUncollectedKeeps ==
  ASSUME LocksInv, NEW w \in Worker, CheckUncollected(w) PROVE LocksInv'
<1>1. At(w, "uncollected") /\ CallShape(call[w])
  BY AtWork DEF CheckUncollected
<1>2. CASE Refuse(w)
  BY <1>2, RefuseKeeps
<1>3. ASSUME NEW x, Continue(w, call[w], [tx[w] EXCEPT !.invoice = x]) PROVE LocksInv'
  <2> DEFINE u == [tx[w] EXCEPT !.invoice = x]
  <2>1. TxShape(u) /\ u.docs = tx[w].docs /\ u.moves = tx[w].moves
    BY OwnDocs, TxWrites
  <2> HIDE DEF u
  <2> QED
    BY <1>1, <1>3, <2>1, OwnDocs, ContinueKeeps DEF u
<1> QED
  BY <1>2, <1>3 DEF CheckUncollected

LEMMA SyncKeeps ==
  ASSUME LocksInv, NEW w \in Worker, Sync(w) PROVE LocksInv'
<1>1. At(w, "sync") /\ CallShape(call[w])
  BY AtWork DEF Sync
<1>2. PICK x : Continue(w, call[w], [tx[w] EXCEPT !.invoice = x])
  BY DEF Sync
<1> DEFINE u == [tx[w] EXCEPT !.invoice = x]
<1>3. TxShape(u) /\ u.docs = tx[w].docs /\ u.moves = tx[w].moves
  BY OwnDocs, TxWrites
<1> HIDE DEF u
<1> QED
  BY <1>1, <1>2, <1>3, OwnDocs, ContinueKeeps DEF u

LEMMA CloseBooksKeeps ==
  ASSUME LocksInv, NEW w \in Worker, CloseBooks(w) PROVE LocksInv'
<1>1. At(w, "close") /\ CallShape(call[w])
  BY AtWork DEF CloseBooks
<1>2. CASE Refuse(w)
  BY <1>2, RefuseKeeps
<1>3. ASSUME NEW x, Continue(w, call[w], [tx[w] EXCEPT !.closed = x]) PROVE LocksInv'
  <2> DEFINE u == [tx[w] EXCEPT !.closed = x]
  <2>1. TxShape(u) /\ u.docs = tx[w].docs /\ u.moves = tx[w].moves
    BY OwnDocs, TxWrites
  <2> HIDE DEF u
  <2> QED
    BY <1>1, <1>3, <2>1, OwnDocs, ContinueKeeps DEF u
<1> QED
  BY <1>2, <1>3 DEF CloseBooks

LEMMA CheckDateKeeps ==
  ASSUME LocksInv, NEW w \in Worker, CheckDate(w) PROVE LocksInv'
<1>1. At(w, "date") /\ CallShape(call[w])
  BY AtWork DEF CheckDate
<1> QED
  BY <1>1, RefuseKeeps, OwnDocs, ContinueKeeps DEF CheckDate

LEMMA CheckStandingKeeps ==
  ASSUME LocksInv, NEW w \in Worker, CheckStanding(w) PROVE LocksInv'
<1>1. At(w, "standing") /\ CallShape(call[w])
  BY AtWork DEF CheckStanding
<1> QED
  BY <1>1, RefuseKeeps, OwnDocs, ContinueKeeps DEF CheckStanding

LEMMA PeekKeeps ==
  ASSUME LocksInv, NEW w \in Worker, Peek(w) PROVE LocksInv'
<1>1. At(w, "peek") /\ CallShape(call[w])
  BY AtWork DEF Peek
<1> DEFINE c == [call[w] EXCEPT !.invoices = Paid(w, call[w].doc)]
<1>2. /\ CallShape(c) /\ c.op = call[w].op /\ c.doc = call[w].doc /\ c.legs = call[w].legs
      /\ c.day = call[w].day /\ Continue(w, c, tx[w])
  BY <1>1, CallKept DEF Peek
<1> HIDE DEF c
<1> QED
  BY <1>1, <1>2, OwnDocs, ContinueKeeps

LEMMA OneBeforeFour ==
  ASSUME NEW a, NEW b, NEW c, NEW d, NEW e
  PROVE  <<a>> \o <<b, c, d, e>> = <<a, b, c, d, e>>
<1> DEFINE S == {a, b, c, d, e}
           p == <<a>>
           q == <<b, c, d, e>>
           r == <<a, b, c, d, e>>
<1>1. /\ p \in Seq(S) /\ q \in Seq(S) /\ r \in Seq(S)
      /\ Len(p) = 1 /\ Len(q) = 4 /\ Len(r) = 5
  OBVIOUS
<1>2. \A i \in 1..5 : r[i] = IF i <= 1 THEN p[i] ELSE q[i - 1]
  <2>1. r[1] = p[1] /\ r[2] = q[1] /\ r[3] = q[2] /\ r[4] = q[3] /\ r[5] = q[4]
    OBVIOUS
  <2> HIDE DEF p, q, r
  <2> QED
    BY <2>1
<1> HIDE DEF S, p, q, r
<1>3. /\ p \o q \in Seq(S) /\ Len(p \o q) = Len(p) + Len(q)
      /\ \A i \in 1 .. Len(p) + Len(q) : (p \o q)[i] = IF i <= Len(p) THEN p[i] ELSE q[i - Len(p)]
  BY <1>1, ConcatProperties
<1>4. p \o q = r
  <2>1. p \o q \in Seq(S) /\ r \in Seq(S) /\ Len(p \o q) = 5 /\ Len(r) = 5
    BY <1>1, <1>3
  <2>2. \A i \in 1..5 : (p \o q)[i] = IF i <= 1 THEN p[i] ELSE q[i - 1]
    BY <1>1, <1>3
  <2>3. \A i \in 1..5 : (p \o q)[i] = r[i]
    BY <1>2, <2>2
  <2> QED
    BY <2>1, <2>3, SeqEqual
<1> QED
  BY <1>4 DEF p, q, r

(* Starting over gives up every lock and forgets what was read.            *)
LEMMA RereadKeeps ==
  ASSUME LocksInv, NEW w \in Worker, Reread(w) PROVE LocksInv'
<1>1. At(w, "reread")
  BY DEF Reread
<1>2. /\ Sound(call[w], tx[w], pc[w], held[w], docs, moves) /\ CallShape(call[w])
      /\ Steps(call[w].legs, tx[w].moves, pc[w]) /\ Head(pc[w]) = "reread"
  BY <1>1, AtWork
<1>3. pc[w] = Rereads /\ <<"peek">> \o pc[w] = Peeks
  <2>1. pc[w] = Rereads
    BY <1>2, AtWork, <1>1, Heads DEF Steps, PostsOnce, PostsTwice, PostsNothing
  <2>2. <<"peek">> \o Rereads = Peeks
    BY OneBeforeFour DEF Rereads, Peeks
  <2> QED
    BY <2>1, <2>2
<1>4. call[w].op # "opening"
  BY <1>2, Heads DEF Sound, Opening
<1>5. CASE Refuse(w)
  BY <1>5, RefuseKeeps
<1>6. CASE Continue(w, call[w], tx[w])
  BY <1>1, <1>2, <1>6, OwnDocs, ContinueKeeps
<1>7. CASE End(w, [call[w] EXCEPT !.attempt = @ + 1], <<"peek">> \o pc[w]) /\ UNCHANGED tables
  <2> DEFINE c == [call[w] EXCEPT !.attempt = @ + 1]
  <2>1. CallShape(c) /\ c.op = call[w].op /\ c.doc = call[w].doc
    BY <1>2, CallKept
  <2>2. End(w, c, Peeks) /\ UNCHANGED tables
    BY <1>3, <1>7
  <2> HIDE DEF c
  <2>3. call[w].op = "cancel" => call[w].doc \in DOMAIN docs
    BY <1>2 DEF Sound
  <2>4. Sound(c, Nothing, Peeks, {}, docs, moves)
    BY <1>4, <2>1, <2>3, NothingWritten DEF Sound, Steps, PostsNothing
  <2>5. Peeks \in PostsNothing
    BY DEF PostsNothing
  <2> QED
    BY <2>2, <2>4, <2>5, EndKeeps
<1>8. ASSUME NEW x, Goto(w, pc[w], [call[w] EXCEPT !.invoices = x], tx[w]) PROVE LocksInv'
  <2> DEFINE c == [call[w] EXCEPT !.invoices = x]
  <2>1. /\ CallShape(c) /\ c.op = call[w].op /\ c.doc = call[w].doc /\ c.legs = call[w].legs
        /\ c.day = call[w].day /\ Goto(w, pc[w], c, tx[w])
    BY <1>2, <1>8, CallKept
  <2> HIDE DEF c
  <2>2. Sound(c, tx[w], pc[w], held[w], docs, moves)
    BY <1>2, <1>4, <2>1 DEF Sound, WrittenDoc, PostedMove
  <2> QED
    BY <2>1, <2>2, GotoKeeps
<1> QED
  BY <1>5, <1>6, <1>7, <1>8 DEF Reread

(* record_opening, once the side is locked and nothing is before it.       *)
LEMMA CheckOpeningKeeps ==
  ASSUME LocksInv, NEW w \in Worker, CheckOpening(w) PROVE LocksInv'
<1> DEFINE c == call[w]
           a == c.legs[1].account
           u == [tx[w] EXCEPT !.docs = NewDocument(c)]
<1>1. At(w, "opening") /\ Sound(c, tx[w], pc[w], held[w], docs, moves)
  BY AtWork DEF CheckOpening
<1>2. CASE Refuse(w)
  BY <1>2, RefuseKeeps
<1>3. CASE /\ Books!LiveOpenings(a) = {}
           /\ \A m \in moves :
                Books!Touches(m, a) /\ ~Books!Reversed(m) /\ ~Books!IsMirror(m) => c.day <= m.date
           /\ Continue(w, c, u)
  <2>1. /\ pc[w] # <<>> /\ Head(pc[w]) = "opening" /\ todo[w] = <<>>
        /\ CallShape(c) /\ Steps(c.legs, tx[w].moves, pc[w]) /\ TxShape(tx[w])
    BY <1>1, AtWork
  <2>2. pc[w] = Opens /\ Tail(pc[w]) = LastDate
    BY <2>1, Heads, Tails DEF Steps, PostsOnce, PostsTwice, PostsNothing
  <2>3. TxShape(u) /\ u.docs = NewDocument(c) /\ u.moves = tx[w].moves
    BY <2>1, TxWrites, NewWritten
  <2>4. Steps(c.legs, u.moves, Tail(pc[w]))
    BY <2>1, <2>3, StepsGoOn
  <2>5. \A d \in DOMAIN u.docs : WrittenDoc(c, d, u.docs[d])
    BY <2>3, NewWritten
  <2>6. LiveOn(docs, a) = {} /\ \A m \in moves : Counts(moves, m, a) => c.day <= m.date
    <3>1. Books!LiveOpenings(a) = LiveOn(docs, a)
      BY DEF LiveOn, Books!LiveOpenings, Books!DocIds
    <3>2. \A m : Counts(moves, m, a) <=>
                   Books!Touches(m, a) /\ ~Books!Reversed(m) /\ ~Books!IsMirror(m)
      BY DEF Counts, Undone, Books!Reversed, Books!MovesOf, Books!IsMirror
    <3> QED
      BY <1>3, <3>1, <3>2
  <2>7. c.op = "opening" => Opening(c, u, Tail(pc[w]), held[w], docs, moves)
    <3> SUFFICES ASSUME c.op = "opening" PROVE Opening(c, u, LastDate, held[w], docs, moves)
      BY <2>2
    <3>1. c.day \in Nat /\ \E b \in Account : c.legs = <<Books!OnAccount(b, 1)>>
      BY <1>1 DEF Sound, Opening
    <3>2. PICK b \in Account : c.legs = <<Books!OnAccount(b, 1)>>
      BY <3>1
    <3>3. a = b /\ b \in Across(c.legs)
      <4>1. c.legs[1] = Books!OnAccount(b, 1) /\ Across(c.legs) = SidesOf(Books!OnAccount(b, 1))
        BY <3>2, AcrossOne
      <4>2. b # NoSide
        BY LocksAssumption
      <4> QED
        BY <4>1, <4>2 DEF SidesOf, Books!OnAccount
    <3>4. <<"side", b>> \in held[w]
      <4>1. Covers(c, pc[w], todo[w], held[w])
        BY DEF LocksInv
      <4>2. Listed(<<>>) = {}
        BY DEF Listed
      <4> QED
        BY <2>1, <3>3, <4>1, <4>2 DEF Covers
    <3> QED
      BY <2>6, <3>1, <3>3, <3>4 DEF Opening, MayOpen
  <2>8. /\ \A m \in u.moves : PostedMove(c, m, held[w], docs)
        /\ c.op = "cancel" => c.doc \in DOMAIN docs
    BY <1>1, <2>3 DEF Sound
  <2>9. Sound(c, u, Tail(pc[w]), held[w], docs, moves)
    BY <2>1, <2>3, <2>4, <2>5, <2>7, <2>8 DEF Sound
  <2> QED
    BY <1>3, <2>9, GotoKeeps DEF Continue
<1> QED
  BY <1>2, <1>3 DEF CheckOpening

(* A posting is on sides the request has locked.                           *)
LEMMA PostLegKeeps ==
  ASSUME LocksInv, NEW w \in Worker, PostLeg(w) PROVE LocksInv'
<1> DEFINE c == call[w]
           ms == tx[w].moves
           leg == c.legs[Cardinality(ms) + 1]
           source == IF c.op = "mark_paid" THEN "collection" ELSE IF c.op = "issue" THEN "invoice" ELSE c.op
           no == Cardinality(Books!MovesOf(c.doc) \cup ms) + 1
           m == Books!Movement(c.doc, no, leg, c.amount, c.day, source)
           u == [tx[w] EXCEPT !.moves = @ \cup {m}]
<1>1. At(w, "post") /\ Sound(c, tx[w], pc[w], held[w], docs, moves)
  BY AtWork DEF PostLeg
<1>2. CASE Refuse(w)
  BY <1>2, RefuseKeeps
<1>3. CASE (source = "opening" \/ Books!AfterOpening(leg, c.day)) /\ Continue(w, c, u)
  <2>1. /\ pc[w] # <<>> /\ Head(pc[w]) = "post" /\ todo[w] = <<>>
        /\ CallShape(c) /\ Steps(c.legs, ms, pc[w]) /\ TxShape(tx[w]) /\ TablesShape(docs, moves)
    BY <1>1, AtWork
  <2>2. /\ OnSides(c.legs) /\ Cardinality(ms) + 1 \in DOMAIN c.legs
        /\ Steps(c.legs, ms \cup {m}, Tail(pc[w]))
    BY <2>1, StepsPost
  <2>3. SidesOf(leg) \subseteq Across(c.legs) /\ \A s \in SidesOf(leg) : <<"side", s>> \in held[w]
    <3>1. SidesOf(leg) \subseteq Across(c.legs)
      BY <2>2 DEF Across
    <3>2. Covers(c, pc[w], todo[w], held[w]) /\ Listed(<<>>) = {}
      BY DEF LocksInv, Listed
    <3>3. \A s \in Across(c.legs) : <<"side", s>> \in held[w]
      BY <2>1, <3>2 DEF Covers
    <3> QED
      BY <3>1, <3>3
  <2>4. no \in Nat \ {0}
    <3>1. IsFiniteSet(moves) /\ IsFiniteSet(ms)
      BY <2>1 DEF TablesShape, TxShape, MovesShape
    <3>2. IsFiniteSet(Books!MovesOf(c.doc))
      BY <3>1, FS_Subset, Books!MovesOf(c.doc) \subseteq moves DEF Books!MovesOf
    <3>3. IsFiniteSet(Books!MovesOf(c.doc) \cup ms)
      BY <3>1, <3>2, FS_Union
    <3> QED
      BY <3>3, FS_CardinalityType
  <2>5. /\ MoveShape(m) /\ m.reverses = 0 /\ m.date = c.day /\ SidesOf(m) = SidesOf(leg)
    <3> HIDE DEF no, leg, source
    <3> QED
      BY <2>4 DEF MoveShape, Books!Movement, SidesOf
  <2> HIDE DEF m, no
  <2>6. TxShape(u) /\ u.docs = tx[w].docs /\ u.moves = ms \cup {m}
    <3> DEFINE all == ms \cup {m}
    <3>1. u = [tx[w] EXCEPT !.moves = all]
      OBVIOUS
    <3>2. MovesShape(all)
      <4>1. IsFiniteSet(ms) /\ \A n \in ms : MoveShape(n)
        BY <2>1 DEF TxShape, MovesShape
      <4>2. IsFiniteSet(ms \cup {m})
        BY <4>1, FS_AddElement
      <4> QED
        BY <2>5, <4>1, <4>2 DEF MovesShape
    <3>3. TxShape(tx[w])
      BY <2>1
    <3> HIDE DEF u, all
    <3>4. TxShape(u) /\ u.docs = tx[w].docs /\ u.moves = all
      BY <3>1, <3>2, <3>3, TxWrites
    <3> QED
      BY <3>4 DEF all
  <2>7. PostedMove(c, m, held[w], docs)
    <3>1. c.op # "opening" => \A s \in SidesOf(leg) : \A d \in LiveOn(docs, s) : docs[d].date <= c.day
      <4> SUFFICES ASSUME c.op # "opening"
                   PROVE \A s \in SidesOf(leg) : \A d \in LiveOn(docs, s) : docs[d].date <= c.day
        OBVIOUS
      <4>1. source # "opening"
        OBVIOUS
      <4>2. Books!AfterOpening(leg, c.day)
        BY <1>3, <4>1
      <4>3. \A s : Books!LiveOpenings(s) = LiveOn(docs, s)
        BY DEF LiveOn, Books!LiveOpenings, Books!DocIds
      <4> QED
        BY <4>2, <4>3 DEF Books!AfterOpening, SidesOf
    <3> HIDE DEF leg
    <3> QED
      BY <2>3, <2>5, <3>1 DEF PostedMove
  <2> HIDE DEF u
  <2>8. c.op = "opening" => Opening(c, u, Tail(pc[w]), held[w], docs, moves)
    <3> SUFFICES ASSUME c.op = "opening" PROVE Opening(c, u, Tail(pc[w]), held[w], docs, moves)
      OBVIOUS
    <3>1. Opening(c, tx[w], pc[w], held[w], docs, moves)
      BY <1>1 DEF Sound
    <3>2. pc[w] = LastPost /\ Tail(pc[w]) = Commits
      BY <2>1, <3>1, Heads, Tails DEF Opening
    <3> QED
      BY <3>1, <3>2, <2>1, Heads DEF Opening
  <2>9. Sound(c, u, Tail(pc[w]), held[w], docs, moves)
    BY <1>1, <2>1, <2>2, <2>6, <2>7, <2>8 DEF Sound
  <2> QED
    BY <1>3, <2>9, GotoKeeps DEF Continue
<1> QED
  BY <1>2, <1>3 DEF PostLeg

(* reverse_document writes mirrors, and a cancelled document.              *)
LEMMA PostReversalKeeps ==
  ASSUME LocksInv, NEW w \in Worker, PostReversal(w) PROVE LocksInv'
<1> DEFINE c == call[w]
           source == IF c.op = "cancel" THEN "reversal" ELSE "invoice_cancel"
           row == [docs[c.doc] EXCEPT !.cancelled = TRUE]
           stamped == IF c.op = "cancel" THEN Only(c.doc, row) ELSE <<>>
           mirrors == {Books!Mirror(m, source) : m \in Books!Unreversed(c.doc)}
           t == [tx[w] EXCEPT !.moves = mirrors]
           u == [tx[w] EXCEPT !.moves = mirrors, !.docs = stamped]
<1>1. At(w, "reverse") /\ Sound(c, tx[w], pc[w], held[w], docs, moves)
  BY AtWork DEF PostReversal
<1>2. CASE Refuse(w)
  BY <1>2, RefuseKeeps
<1>3. CASE Continue(w, c, u)
  <2>1. /\ pc[w] # <<>> /\ Head(pc[w]) = "reverse"
        /\ CallShape(c) /\ Steps(c.legs, tx[w].moves, pc[w]) /\ TxShape(tx[w]) /\ TablesShape(docs, moves)
    BY <1>1, AtWork
  <2>2. pc[w] \in PostsNothing /\ Tail(pc[w]) \in PostsNothing
    BY <2>1, Heads, NothingGoesOn DEF Steps, PostsOnce, PostsTwice
  <2>3. c.op # "opening"
    BY <1>1, <2>1, Heads DEF Sound, Opening
  <2>4. MovesShape(mirrors) /\ \A n \in mirrors : n.reverses # 0
    <3> DEFINE from == Books!Unreversed(c.doc)
    <3>1. IsFiniteSet(moves) /\ (\A m \in moves : MoveShape(m)) /\ from \subseteq moves
      BY <2>1 DEF TablesShape, MovesShape, Books!Unreversed, Books!OriginalsOf, Books!MovesOf
    <3>2. IsFiniteSet(from)
      BY <3>1, FS_Subset
    <3> HIDE DEF from
    <3>3. IsFiniteSet({Books!Mirror(m, source) : m \in from})
      <4> DEFINE f == [m \in from |-> Books!Mirror(m, source)]
      <4>1. {Books!Mirror(m, source) : m \in from} = {f[m] : m \in from}
        OBVIOUS
      <4>2. f \in Surjection(from, {f[m] : m \in from})
        BY DEF Surjection
      <4> QED
        BY <3>2, <4>1, <4>2, FS_Surjection
    <3>4. ASSUME NEW m \in from PROVE MoveShape(Books!Mirror(m, source)) /\ Books!Mirror(m, source).reverses # 0
      <4>1. MoveShape(m) /\ m.reverses = 0
        BY <3>1, <3>4 DEF from, Books!Unreversed, Books!OriginalsOf
      <4> HIDE DEF source
      <4>2. PICK more : Books!Mirror(m, source) =
              [m EXCEPT !.no = @ + more, !.dir = -@, !.cashDir = -@,
                        !.date = Today, !.source = source, !.reverses = m.no]
        BY DEF Books!Mirror
      <4>3. Books!Mirror(m, source) =
              [doc |-> m.doc, no |-> m.no + more, account |-> m.account, dir |-> -m.dir,
               cash |-> m.cash, cashDir |-> -m.cashDir, amount |-> m.amount, date |-> Today,
               source |-> source, reverses |-> m.no]
        <5>1. m = [doc |-> m.doc, no |-> m.no, account |-> m.account, dir |-> m.dir, cash |-> m.cash,
                   cashDir |-> m.cashDir, amount |-> m.amount, date |-> m.date, source |-> m.source,
                   reverses |-> m.reverses]
          BY <4>1 DEF MoveShape
        <5> QED
          BY <4>2, <5>1
      <4>4. m.no # 0
        BY <4>1 DEF MoveShape
      <4> QED
        BY <4>3, <4>4 DEF MoveShape
    <3> QED
      BY <3>3, <3>4 DEF MovesShape, from
  <2>5. \A d \in DOMAIN stamped : DocShape(stamped[d]) /\ WrittenDoc(c, d, stamped[d])
    <3>1. CASE c.op = "cancel"
      <4>1. c.doc \in DOMAIN docs
        BY <1>1, <3>1 DEF Sound
      <4>2. DocShape(docs[c.doc])
        BY <2>1, <4>1 DEF TablesShape
      <4>3. DocShape(row) /\ row.cancelled
        <5>1. ASSUME NEW x, DocShape(x)
              PROVE  LET y == [x EXCEPT !.cancelled = TRUE] IN DocShape(y) /\ y.cancelled
          <6>1. ASSUME NEW b
                PROVE  [x EXCEPT !.cancelled = b] =
                         [kind |-> x.kind, legs |-> x.legs, amount |-> x.amount, date |-> x.date,
                          cancelled |-> b]
            BY <5>1 DEF DocShape
          <6> QED
            BY <6>1 DEF DocShape
        <5> QED
          BY <4>2, <5>1
      <4>4. DOMAIN stamped = {c.doc} /\ stamped[c.doc] = row
        BY <3>1 DEF Only
      <4> HIDE DEF row, stamped
      <4> QED
        BY <4>3, <4>4 DEF WrittenDoc
    <3>2. CASE c.op # "cancel"
      BY <3>2, DOMAIN <<>> = {}
    <3> QED
      BY <3>1, <3>2
  <2> HIDE DEF mirrors, stamped
  <2>6. TxShape(u) /\ u.docs = stamped /\ u.moves = mirrors
    <3>1. u = [t EXCEPT !.docs = stamped]
      OBVIOUS
    <3>2. TxShape(t) /\ t.moves = mirrors
      BY <2>1, <2>4, TxWrites
    <3> HIDE DEF t
    <3> QED
      BY <2>5, <3>1, <3>2, TxWrites
  <2> HIDE DEF u
  <2>7. Sound(c, u, Tail(pc[w]), held[w], docs, moves)
    <3>1. Steps(c.legs, u.moves, Tail(pc[w]))
      BY <2>2 DEF Steps
    <3>2. \A m \in u.moves : PostedMove(c, m, held[w], docs)
      BY <2>4, <2>6 DEF PostedMove
    <3>3. c.op = "cancel" => c.doc \in DOMAIN docs
      BY <1>1 DEF Sound
    <3> QED
      BY <2>1, <2>3, <2>5, <2>6, <3>1, <3>2, <3>3 DEF Sound
  <2> QED
    BY <1>3, <2>7, GotoKeeps DEF Continue
<1> QED
  BY <1>2, <1>3 DEF PostReversal

-----------------------------------------------------------------------------
(* The calls                                                               *)

LEMMA CallMade ==
  ASSUME NEW op, NEW doc, NEW legs, NEW amount, NEW day
  PROVE  LET c == Call(op, doc, legs, amount, day)
         IN  CallShape(c) /\ c.op = op /\ c.doc = doc /\ c.legs = legs /\ c.day = day
  BY DEF Call, CallShape

(* A collection's or an apply's shares.                                    *)
Sharing(c, x, y) == [c EXCEPT !.shares = x, !.invoices = y]

LEMMA SharesMade ==
  ASSUME NEW c, CallShape(c), NEW x, NEW y
  PROVE  LET d == Sharing(c, x, y)
         IN  CallShape(d) /\ d.op = c.op /\ d.doc = c.doc /\ d.legs = c.legs /\ d.day = c.day
<1>1. c = [op |-> c.op, doc |-> c.doc, legs |-> c.legs, amount |-> c.amount, day |-> c.day,
           shares |-> c.shares, invoices |-> c.invoices, attempt |-> c.attempt]
  BY DEF CallShape
<1> DEFINE e == [c EXCEPT !.shares = x]
<1>2. [c EXCEPT !.shares = x, !.invoices = y] = [e EXCEPT !.invoices = y]
  OBVIOUS
<1>3. e = [op |-> c.op, doc |-> c.doc, legs |-> c.legs, amount |-> c.amount, day |-> c.day,
           shares |-> x, invoices |-> c.invoices, attempt |-> c.attempt]
  BY <1>1
<1> HIDE DEF e
<1>4. [c EXCEPT !.shares = x, !.invoices = y] =
        [op |-> c.op, doc |-> c.doc, legs |-> c.legs, amount |-> c.amount, day |-> c.day,
         shares |-> x, invoices |-> y, attempt |-> c.attempt]
  BY <1>2, <1>3
<1> QED
  BY <1>4 DEF CallShape, Sharing

LEMMA BeginKeeps ==
  ASSUME LocksInv, NEW w \in Worker, NEW c, NEW s, Begin(w, c, s), CallShape(c), Steps(c.legs, {}, s),
         c.op = "opening" =>
           s = Opens /\ c.day \in Nat /\ \E a \in Account : c.legs = <<Books!OnAccount(a, 1)>>,
         c.op = "cancel" => c.doc \in DOMAIN docs
  PROVE  LocksInv'
<1>1. Sound(c, Nothing, s, held[w], docs, moves)
  BY NothingWritten DEF Sound, Opening
<1> QED
  BY <1>1, GotoKeeps DEF Begin

(* A call that posts one leg.                                              *)
LEMMA OneLegSteps ==
  ASSUME NEW leg, SidesOf(leg) \subseteq Account \cup CashAccount, NEW s \in PostsOnce
  PROVE  Steps(<<leg>>, {}, s)
<1>1. OnSides(<<leg>>)
  BY AcrossOne DEF OnSides
<1>2. Cardinality({}) + 1 \in DOMAIN <<leg>>
  BY FS_EmptySet
<1> QED
  BY <1>1, <1>2 DEF Steps

LEMMA BeginRecordKeeps ==
  ASSUME LocksInv, NEW w \in Worker, BeginRecord(w) PROVE LocksInv'
<1>1. PICK d \in Document, day \in 1..Today, amount \in Amounts :
        /\ Fresh(d)
        /\ \/ \E a \in Account, c \in CashAccount :
                \/ \E shares \in Books!Shares(d) :
                     Begin(w, [Call("collection", d, <<Books!OnBoth(a, -1, c, 1)>>, amount, day)
                                 EXCEPT !.shares = shares, !.invoices = Books!InvoicesOf(shares)],
                           <<"allocate", "date", "post", "sync", "commit">>)
                \/ Begin(w, Call("payment_out", d, <<Books!OnBoth(a, 1, c, -1)>>, amount, day),
                         <<"record", "date", "post", "commit">>)
           \/ \E a \in Account :
                \/ Begin(w, Call("manual", d, <<Books!OnAccount(a, 1)>>, amount, day),
                         <<"record", "date", "post", "commit">>)
                \/ Begin(w, Call("opening", d, <<Books!OnAccount(a, 1)>>, amount, day),
                         <<"opening", "date", "post", "commit">>)
           \/ \E s, t \in CashAccount :
                /\ s # t
                /\ Begin(w, Call("transfer", d, <<Books!OnCash(s, -1), Books!OnCash(t, 1)>>, amount, day),
                         <<"both_sides", "date", "post", "date", "post", "commit">>)
  BY DEF BeginRecord
<1>0. day \in Nat
  BY LocksAssumption
<1>2. ASSUME NEW a \in Account, NEW c \in CashAccount, NEW x, NEW y
      PROVE  SidesOf(Books!OnBoth(a, x, c, y)) \subseteq Account \cup CashAccount
  BY DEF SidesOf, Books!OnBoth
<1>3. ASSUME NEW a \in Account, NEW x
      PROVE  SidesOf(Books!OnAccount(a, x)) \subseteq Account \cup CashAccount
  BY DEF SidesOf, Books!OnAccount
<1>4. ASSUME NEW a \in Account, NEW c \in CashAccount, NEW shares,
             Begin(w, [Call("collection", d, <<Books!OnBoth(a, -1, c, 1)>>, amount, day)
                         EXCEPT !.shares = shares, !.invoices = Books!InvoicesOf(shares)], Allocates)
      PROVE  LocksInv'
  <2> DEFINE b == Call("collection", d, <<Books!OnBoth(a, -1, c, 1)>>, amount, day)
             e == Sharing(b, shares, Books!InvoicesOf(shares))
  <2>1. CallShape(b) /\ b.op = "collection" /\ b.legs = <<Books!OnBoth(a, -1, c, 1)>>
    BY CallMade
  <2>2. Begin(w, e, Allocates)
    BY <1>4 DEF Sharing
  <2> HIDE DEF b
  <2>3. CallShape(e) /\ e.op = "collection" /\ e.legs = <<Books!OnBoth(a, -1, c, 1)>>
    BY <2>1, SharesMade
  <2>4. Steps(<<Books!OnBoth(a, -1, c, 1)>>, {}, Allocates)
    BY <1>2, OneLegSteps DEF PostsOnce
  <2> HIDE DEF e
  <2> QED
    BY <2>2, <2>3, <2>4, BeginKeeps
<1>5. ASSUME NEW a \in Account, NEW c \in CashAccount,
             Begin(w, Call("payment_out", d, <<Books!OnBoth(a, 1, c, -1)>>, amount, day), Records)
      PROVE  LocksInv'
  <2> DEFINE e == Call("payment_out", d, <<Books!OnBoth(a, 1, c, -1)>>, amount, day)
  <2>1. CallShape(e) /\ e.op = "payment_out" /\ e.legs = <<Books!OnBoth(a, 1, c, -1)>>
    BY CallMade
  <2>2. Steps(<<Books!OnBoth(a, 1, c, -1)>>, {}, Records)
    BY <1>2, OneLegSteps DEF PostsOnce
  <2>3. Begin(w, e, Records)
    BY <1>5
  <2> HIDE DEF e
  <2> QED
    BY <2>1, <2>2, <2>3, BeginKeeps
<1>6. ASSUME NEW a \in Account,
             Begin(w, Call("manual", d, <<Books!OnAccount(a, 1)>>, amount, day), Records)
      PROVE  LocksInv'
  <2> DEFINE e == Call("manual", d, <<Books!OnAccount(a, 1)>>, amount, day)
  <2>1. CallShape(e) /\ e.op = "manual" /\ e.legs = <<Books!OnAccount(a, 1)>>
    BY CallMade
  <2>2. Steps(<<Books!OnAccount(a, 1)>>, {}, Records)
    BY <1>3, OneLegSteps DEF PostsOnce
  <2>3. Begin(w, e, Records)
    BY <1>6
  <2> HIDE DEF e
  <2> QED
    BY <2>1, <2>2, <2>3, BeginKeeps
<1>7. ASSUME NEW a \in Account,
             Begin(w, Call("opening", d, <<Books!OnAccount(a, 1)>>, amount, day), Opens)
      PROVE  LocksInv'
  <2> DEFINE e == Call("opening", d, <<Books!OnAccount(a, 1)>>, amount, day)
  <2>1. CallShape(e) /\ e.op = "opening" /\ e.legs = <<Books!OnAccount(a, 1)>> /\ e.day = day
    BY CallMade
  <2>2. Steps(<<Books!OnAccount(a, 1)>>, {}, Opens)
    BY <1>3, OneLegSteps DEF PostsOnce
  <2>3. Begin(w, e, Opens)
    BY <1>7
  <2> HIDE DEF e
  <2> QED
    BY <1>0, <2>1, <2>2, <2>3, BeginKeeps
<1>8. ASSUME NEW s \in CashAccount, NEW t \in CashAccount,
             Begin(w, Call("transfer", d, <<Books!OnCash(s, -1), Books!OnCash(t, 1)>>, amount, day),
                   Transfers)
      PROVE  LocksInv'
  <2> DEFINE legs == <<Books!OnCash(s, -1), Books!OnCash(t, 1)>>
             e == Call("transfer", d, legs, amount, day)
  <2>1. CallShape(e) /\ e.op = "transfer" /\ e.legs = legs
    BY CallMade
  <2>2. Steps(legs, {}, Transfers)
    <3>1. OnSides(legs)
      <4>1. SidesOf(Books!OnCash(s, -1)) \subseteq CashAccount /\ SidesOf(Books!OnCash(t, 1)) \subseteq CashAccount
        BY DEF SidesOf, Books!OnCash
      <4> QED
        BY <4>1, AcrossTwo DEF OnSides
    <3>2. {1, 2} \subseteq DOMAIN legs
      OBVIOUS
    <3> QED
      BY <3>1, <3>2 DEF Steps, PostsTwice
  <2>3. Begin(w, e, Transfers)
    BY <1>8
  <2> HIDE DEF e
  <2> QED
    BY <2>1, <2>2, <2>3, BeginKeeps
<1> QED
  BY <1>1, <1>4, <1>5, <1>6, <1>7, <1>8 DEF Allocates, Records, Opens, Transfers

LEMMA BeginOnDocumentKeeps ==
  ASSUME LocksInv, NEW w \in Worker, BeginOnDocument(w) PROVE LocksInv'
<1>1. PICK d \in DOMAIN docs :
        \/ \E shares :
             Begin(w, [Call("apply", d, docs[d].legs, 0, Today)
                         EXCEPT !.shares = shares, !.invoices = Books!InvoicesOf(shares)], Applies)
        \/ \E s \in {Peeks, Stands} : Begin(w, Call("cancel", d, docs[d].legs, 0, Today), s)
  BY DEF BeginOnDocument, Applies, Peeks, Stands
<1>2. ASSUME NEW shares,
             Begin(w, [Call("apply", d, docs[d].legs, 0, Today)
                         EXCEPT !.shares = shares, !.invoices = Books!InvoicesOf(shares)], Applies)
      PROVE  LocksInv'
  <2> DEFINE b == Call("apply", d, docs[d].legs, 0, Today)
             e == Sharing(b, shares, Books!InvoicesOf(shares))
  <2>1. CallShape(b) /\ b.op = "apply"
    BY CallMade
  <2>2. Begin(w, e, Applies)
    BY <1>2 DEF Sharing
  <2> HIDE DEF b
  <2>3. CallShape(e) /\ e.op = "apply"
    BY <2>1, SharesMade
  <2>4. Steps(e.legs, {}, Applies)
    BY DEF Steps, PostsNothing
  <2> HIDE DEF e
  <2> QED
    BY <2>2, <2>3, <2>4, BeginKeeps
<1>3. ASSUME NEW s \in {Peeks, Stands}, Begin(w, Call("cancel", d, docs[d].legs, 0, Today), s)
      PROVE  LocksInv'
  <2> DEFINE e == Call("cancel", d, docs[d].legs, 0, Today)
  <2>1. CallShape(e) /\ e.op = "cancel" /\ e.doc = d
    BY CallMade
  <2>2. Begin(w, e, s)
    BY <1>3
  <2> HIDE DEF e
  <2>3. Steps(e.legs, {}, s)
    BY DEF Steps, PostsNothing
  <2> QED
    BY <2>1, <2>2, <2>3, BeginKeeps
<1> QED
  BY <1>1, <1>2, <1>3

(* billing.issue posts only when there is something to post.               *)
LEMMA IssueStatements ==
  ASSUME NEW owes \in BOOLEAN
  PROVE  <<"issue">> \o (IF owes THEN <<"date", "post">> ELSE <<>>) \o <<"sync", "commit">>
           \in {Issues, IssuesNothing}
<1> DEFINE S == {"issue", "date", "post", "sync", "commit"}
           p == <<"issue">>
           q == <<"date", "post">>
           r == <<"sync", "commit">>
           both == <<"issue", "date", "post">>
<1>1. /\ p \in Seq(S) /\ q \in Seq(S) /\ r \in Seq(S) /\ both \in Seq(S)
      /\ Issues \in Seq(S) /\ IssuesNothing \in Seq(S)
      /\ Len(p) = 1 /\ Len(q) = 2 /\ Len(r) = 2 /\ Len(both) = 3
      /\ Len(Issues) = 5 /\ Len(IssuesNothing) = 3
  BY DEF Issues, IssuesNothing
<1>2. /\ both[1] = p[1] /\ both[2] = q[1] /\ both[3] = q[2]
      /\ Issues[1] = both[1] /\ Issues[2] = both[2] /\ Issues[3] = both[3]
      /\ Issues[4] = r[1] /\ Issues[5] = r[2]
      /\ IssuesNothing[1] = p[1] /\ IssuesNothing[2] = r[1] /\ IssuesNothing[3] = r[2]
  BY DEF Issues, IssuesNothing
<1> HIDE DEF S, p, q, r, both
<1>3. ASSUME NEW s \in Seq(S), NEW t \in Seq(S), NEW u \in Seq(S), Len(u) = Len(s) + Len(t),
             \A k \in 1..(Len(s) + Len(t)) : u[k] = IF k <= Len(s) THEN s[k] ELSE t[k - Len(s)]
      PROVE  s \o t = u
  <2>1. /\ s \o t \in Seq(S) /\ Len(s \o t) = Len(s) + Len(t)
        /\ \A k \in 1 .. Len(s) + Len(t) : (s \o t)[k] = IF k <= Len(s) THEN s[k] ELSE t[k - Len(s)]
    BY ConcatProperties
  <2> QED
    BY <1>3, <2>1, SeqEqual
<1>4. p \o q = both
  <2>1. \A k \in 1..3 : both[k] = IF k <= 1 THEN p[k] ELSE q[k - 1]
    BY <1>2
  <2>2. Len(p) = 1 /\ Len(p) + Len(q) = 3 /\ Len(both) = Len(p) + Len(q)
    BY <1>1
  <2>3. \A k \in 1..(Len(p) + Len(q)) : both[k] = IF k <= Len(p) THEN p[k] ELSE q[k - Len(p)]
    BY <2>1, <2>2
  <2>4. p \in Seq(S) /\ q \in Seq(S) /\ both \in Seq(S)
    BY <1>1
  <2> QED
    BY <1>3, <2>2, <2>3, <2>4
<1>5. both \o r = Issues
  <2>1. \A k \in 1..5 : Issues[k] = IF k <= 3 THEN both[k] ELSE r[k - 3]
    BY <1>2
  <2>2. Len(both) = 3 /\ Len(both) + Len(r) = 5 /\ Len(Issues) = Len(both) + Len(r)
    BY <1>1
  <2>3. \A k \in 1..(Len(both) + Len(r)) : Issues[k] = IF k <= Len(both) THEN both[k] ELSE r[k - Len(both)]
    BY <2>1, <2>2
  <2>4. both \in Seq(S) /\ r \in Seq(S) /\ Issues \in Seq(S)
    BY <1>1
  <2> QED
    BY <1>3, <2>2, <2>3, <2>4
<1>6. p \o r = IssuesNothing
  <2>1. \A k \in 1..3 : IssuesNothing[k] = IF k <= 1 THEN p[k] ELSE r[k - 1]
    BY <1>2
  <2>2. Len(p) = 1 /\ Len(p) + Len(r) = 3 /\ Len(IssuesNothing) = Len(p) + Len(r)
    BY <1>1
  <2>3. \A k \in 1..(Len(p) + Len(r)) : IssuesNothing[k] = IF k <= Len(p) THEN p[k] ELSE r[k - Len(p)]
    BY <2>1, <2>2
  <2>4. p \in Seq(S) /\ r \in Seq(S) /\ IssuesNothing \in Seq(S)
    BY <1>1
  <2> QED
    BY <1>3, <2>2, <2>3, <2>4
<1>7. p \o <<>> = p
  BY <1>1, ConcatEmptySeq
<1>8. (p \o (IF owes THEN q ELSE <<>>)) \o r \in {Issues, IssuesNothing}
  BY <1>4, <1>5, <1>6, <1>7
<1> QED
  BY <1>8 DEF p, q, r

LEMMA BeginOnInvoiceKeeps ==
  ASSUME LocksInv, NEW w \in Worker, BeginOnInvoice(w) PROVE LocksInv'
<1>1. PICK i \in Invoice, day \in 1..Today :
        \/ Begin(w, [Call("issue", i, <<Books!OnAccount(AccountOf[i], 1)>>, Total[i], day)
                       EXCEPT !.invoices = {i}],
                 <<"issue">> \o (IF Total[i] > 0 THEN <<"date", "post">> ELSE <<>>)
                   \o <<"sync", "commit">>)
        \/ Begin(w, [Call("unissue", i, <<>>, 0, day) EXCEPT !.invoices = {i}], Uncollects)
        \/ \E d \in Document, c \in CashAccount :
             Begin(w, [Call("mark_paid", d, <<Books!OnBoth(AccountOf[i], -1, c, 1)>>, 0, day)
                         EXCEPT !.invoices = {i}], Remains)
  BY DEF BeginOnInvoice, Uncollects, Remains
<1>2. AccountOf[i] \in Account
  BY LocksAssumption
<1>3. ASSUME Begin(w, [Call("issue", i, <<Books!OnAccount(AccountOf[i], 1)>>, Total[i], day)
                         EXCEPT !.invoices = {i}],
                   <<"issue">> \o (IF Total[i] > 0 THEN <<"date", "post">> ELSE <<>>)
                     \o <<"sync", "commit">>)
      PROVE  LocksInv'
  <2> DEFINE b == Call("issue", i, <<Books!OnAccount(AccountOf[i], 1)>>, Total[i], day)
             e == [b EXCEPT !.invoices = {i}]
             s == <<"issue">> \o (IF Total[i] > 0 THEN <<"date", "post">> ELSE <<>>)
                    \o <<"sync", "commit">>
  <2>1. s \in {Issues, IssuesNothing}
    BY IssueStatements
  <2>2. CallShape(b) /\ b.op = "issue" /\ b.legs = <<Books!OnAccount(AccountOf[i], 1)>>
    BY CallMade
  <2> HIDE DEF b
  <2>3. CallShape(e) /\ e.op = "issue" /\ e.legs = <<Books!OnAccount(AccountOf[i], 1)>>
    BY <2>2, CallKept
  <2>4. Begin(w, e, s)
    BY <1>3 DEF b
  <2> HIDE DEF e, s
  <2>5. Steps(e.legs, {}, s)
    <3>1. SidesOf(Books!OnAccount(AccountOf[i], 1)) \subseteq Account \cup CashAccount
      BY <1>2 DEF SidesOf, Books!OnAccount
    <3>2. Steps(<<Books!OnAccount(AccountOf[i], 1)>>, {}, Issues)
      BY <3>1, OneLegSteps DEF PostsOnce
    <3>3. Steps(e.legs, {}, IssuesNothing)
      BY DEF Steps, PostsNothing
    <3> QED
      BY <2>1, <2>3, <3>2, <3>3
  <2> QED
    BY <2>3, <2>4, <2>5, BeginKeeps
<1>4. ASSUME Begin(w, [Call("unissue", i, <<>>, 0, day) EXCEPT !.invoices = {i}], Uncollects)
      PROVE  LocksInv'
  <2> DEFINE b == Call("unissue", i, <<>>, 0, day)
             e == [b EXCEPT !.invoices = {i}]
  <2>1. CallShape(b) /\ b.op = "unissue"
    BY CallMade
  <2> HIDE DEF b
  <2>2. CallShape(e) /\ e.op = "unissue"
    BY <2>1, CallKept
  <2>3. Begin(w, e, Uncollects)
    BY <1>4 DEF b
  <2> HIDE DEF e
  <2>4. Steps(e.legs, {}, Uncollects)
    BY DEF Steps, PostsNothing
  <2> QED
    BY <2>2, <2>3, <2>4, BeginKeeps
<1>5. ASSUME NEW d \in Document, NEW c \in CashAccount,
             Begin(w, [Call("mark_paid", d, <<Books!OnBoth(AccountOf[i], -1, c, 1)>>, 0, day)
                         EXCEPT !.invoices = {i}], Remains)
      PROVE  LocksInv'
  <2> DEFINE legs == <<Books!OnBoth(AccountOf[i], -1, c, 1)>>
             b == Call("mark_paid", d, legs, 0, day)
             e == [b EXCEPT !.invoices = {i}]
  <2>1. CallShape(b) /\ b.op = "mark_paid" /\ b.legs = legs
    BY CallMade
  <2> HIDE DEF b
  <2>2. CallShape(e) /\ e.op = "mark_paid" /\ e.legs = legs
    BY <2>1, CallKept
  <2>3. Begin(w, e, Remains)
    BY <1>5 DEF b
  <2> HIDE DEF e
  <2>4. Steps(legs, {}, Remains)
    <3>1. SidesOf(Books!OnBoth(AccountOf[i], -1, c, 1)) \subseteq Account \cup CashAccount
      BY <1>2 DEF SidesOf, Books!OnBoth
    <3> QED
      BY <3>1, OneLegSteps DEF PostsOnce
  <2> QED
    BY <2>2, <2>3, <2>4, BeginKeeps
<1> QED
  BY <1>1, <1>3, <1>4, <1>5

LEMMA BeginCloseKeeps ==
  ASSUME LocksInv, NEW w \in Worker, BeginClose(w) PROVE LocksInv'
<1>1. PICK day \in Closings : Begin(w, Call("close", NoSide, <<>>, 0, day), Closes)
  BY DEF BeginClose, Closes
<1> DEFINE e == Call("close", NoSide, <<>>, 0, day)
<1>2. CallShape(e) /\ e.op = "close"
  BY CallMade
<1> HIDE DEF e
<1>3. Steps(e.legs, {}, Closes)
  BY DEF Steps, PostsNothing
<1> QED
  BY <1>1, <1>2, <1>3, BeginKeeps DEF e

-----------------------------------------------------------------------------
(* Commits                                                                 *)

(* What w's commit adds: its documents over the committed ones, and its    *)
(* movements.                                                              *)
LEMMA CommitWrites ==
  ASSUME LocksInv, NEW w \in Worker, Commit(w)
  PROVE  /\ docs' = Overlaid(docs, tx[w].docs) /\ moves' = moves \cup tx[w].moves
         /\ call' = [call EXCEPT ![w] = NoCall] /\ tx' = [tx EXCEPT ![w] = Nothing]
         /\ pc' = [pc EXCEPT ![w] = <<>>] /\ held' = [held EXCEPT ![w] = {}]
         /\ todo' = [todo EXCEPT ![w] = <<>>]
         /\ At(w, "commit")
  BY DEF Commit, End

(* Unless it commits an opening, no opening comes to life; an opening      *)
(* comes to life on the side it has locked, where there was none.          *)
LEMMA LiveAfter ==
  ASSUME NEW c, NEW t, NEW h, NEW ds, NEW ms, Sound(c, t, Commits, h, ds, ms), CallShape(c),
         NEW s, s # NoSide, NEW d \in LiveOn(Overlaid(ds, t.docs), s)
  PROVE  \/ d \in LiveOn(ds, s) /\ Overlaid(ds, t.docs)[d] = ds[d]
         \/ /\ c.op = "opening" /\ d = c.doc /\ Overlaid(ds, t.docs)[d].date = c.day
            /\ s = c.legs[1].account /\ MayOpen(s, c.day, h, ds, ms)
<1> DEFINE all == Overlaid(ds, t.docs)
<1>1. /\ d \in DOMAIN all /\ all[d].kind = "opening" /\ ~all[d].cancelled
      /\ \E k \in DOMAIN all[d].legs : Books!Touches(all[d].legs[k], s)
  BY DEF LiveOn
<1>2. /\ d \in DOMAIN ds \cup DOMAIN t.docs
      /\ all[d] = IF d \in DOMAIN t.docs THEN t.docs[d] ELSE ds[d]
  BY <1>1 DEF Overlaid
<1> HIDE DEF all
<1>3. CASE d \notin DOMAIN t.docs
  BY <1>1, <1>2, <1>3 DEF LiveOn, all
<1>4. CASE d \in DOMAIN t.docs
  <2>1. /\ c.op = "opening" /\ d = c.doc /\ all[d].legs = c.legs /\ all[d].date = c.day
    <3>1. WrittenDoc(c, d, t.docs[d])
      BY <1>4 DEF Sound
    <3> QED
      BY <1>1, <1>2, <1>4, <3>1 DEF WrittenDoc
  <2>2. Opening(c, t, Commits, h, ds, ms)
    BY <2>1 DEF Sound
  <2>3. MayOpen(c.legs[1].account, c.day, h, ds, ms)
    BY <2>2, Heads DEF Opening
  <2>4. s = c.legs[1].account
    <3>1. PICK a \in Account : c.legs = <<Books!OnAccount(a, 1)>>
      BY <2>2 DEF Opening
    <3>2. PICK k \in DOMAIN c.legs : Books!Touches(c.legs[k], s)
      BY <1>1, <2>1
    <3>3. c.legs[k] = Books!OnAccount(a, 1) /\ c.legs[1] = Books!OnAccount(a, 1)
      BY <3>1, <3>2
    <3>4. Books!Touches(Books!OnAccount(a, 1), s)
      BY <3>2, <3>3
    <3>5. s = a \/ s = NoSide
      BY <3>4 DEF Books!Touches, Books!OnAccount
    <3> QED
      BY <3>3, <3>5 DEF Books!OnAccount
  <2> QED
    BY <2>1, <2>3, <2>4 DEF all
<1> QED
  BY <1>3, <1>4

(* A movement that counts on a side after the commit counted before it, or *)
(* is one the request posted there.                                        *)
LEMMA CountsAfter ==
  ASSUME NEW c, NEW t, NEW h, NEW ds, NEW ms, Sound(c, t, Commits, h, ds, ms),
         NEW s, s # NoSide, NEW m \in ms \cup t.moves, Counts(ms \cup t.moves, m, s)
  PROVE  \/ m \in ms /\ Counts(ms, m, s)
         \/ /\ m.date = c.day /\ s \in Across(c.legs) /\ <<"side", s>> \in h
            /\ c.op # "opening" => \A d \in LiveOn(ds, s) : ds[d].date <= m.date
<1>1. Books!Touches(m, s) /\ ~Undone(ms \cup t.moves, m) /\ m.reverses = 0
  BY DEF Counts
<1>2. CASE m \in ms
  <2>1. ~Undone(ms, m)
    BY <1>1 DEF Undone
  <2> QED
    BY <1>1, <1>2, <2>1 DEF Counts
<1>3. CASE m \in t.moves
  <2>1. PostedMove(c, m, h, ds)
    BY <1>3 DEF Sound
  <2>2. s \in SidesOf(m)
    BY <1>1 DEF Books!Touches, SidesOf
  <2> QED
    BY <1>1, <2>1, <2>2 DEF PostedMove
<1> QED
  BY <1>2, <1>3

(* An opening posts on its own side.                                       *)
LEMMA OpeningSide ==
  ASSUME NEW c, NEW t, NEW s, NEW h, NEW ds, NEW ms, Opening(c, t, s, h, ds, ms), NEW x \in Across(c.legs)
  PROVE  x = c.legs[1].account
<1>1. PICK a \in Account : c.legs = <<Books!OnAccount(a, 1)>>
  BY DEF Opening
<1>2. c.legs[1] = Books!OnAccount(a, 1) /\ Across(c.legs) = SidesOf(Books!OnAccount(a, 1))
  BY <1>1, AcrossOne
<1> QED
  BY <1>2 DEF SidesOf, Books!OnAccount

(* Openings still come first.                                              *)
LEMMA CommitKeepsFirst ==
  ASSUME NEW c, NEW t, NEW h, NEW ds, NEW ms, Sound(c, t, Commits, h, ds, ms), CallShape(c),
         OpeningsFirst(ds, ms)
  PROVE  OpeningsFirst(Overlaid(ds, t.docs), ms \cup t.moves)
<1> DEFINE all == Overlaid(ds, t.docs)
<1> SUFFICES ASSUME NEW s \in Account \cup CashAccount, NEW d \in LiveOn(all, s)
             PROVE  /\ LiveOn(all, s) = {d}
                    /\ \A m \in ms \cup t.moves : Counts(ms \cup t.moves, m, s) => all[d].date <= m.date
  BY DEF OpeningsFirst
<1>0. s # NoSide
  BY LocksAssumption
<1>5. \A x \in LiveOn(all, s) :
        \/ x \in LiveOn(ds, s) /\ all[x] = ds[x]
        \/ /\ c.op = "opening" /\ x = c.doc /\ all[x].date = c.day
           /\ s = c.legs[1].account /\ MayOpen(s, c.day, h, ds, ms)
  BY <1>0, LiveAfter
<1> HIDE DEF all
<1>1. CASE d \in LiveOn(ds, s) /\ all[d] = ds[d]
  <2>1. LiveOn(ds, s) = {d} /\ \A m \in ms : Counts(ms, m, s) => ds[d].date <= m.date
    BY <1>1 DEF OpeningsFirst
  <2>2. ASSUME MayOpen(s, c.day, h, ds, ms) PROVE FALSE
    BY <2>1, <2>2 DEF MayOpen
  <2>3. \A x \in LiveOn(all, s) : x = d
    BY <1>5, <2>1, <2>2
  <2>4. ASSUME NEW m \in ms \cup t.moves, Counts(ms \cup t.moves, m, s) PROVE all[d].date <= m.date
    <3>1. CASE m \in ms /\ Counts(ms, m, s)
      BY <1>1, <2>1, <3>1
    <3>2. CASE /\ m.date = c.day /\ s \in Across(c.legs) /\ <<"side", s>> \in h
               /\ c.op # "opening" => \A x \in LiveOn(ds, s) : ds[x].date <= m.date
      <4>1. c.op # "opening"
        <5> SUFFICES ASSUME c.op = "opening" PROVE FALSE
          OBVIOUS
        <5>1. Opening(c, t, Commits, h, ds, ms)
          BY DEF Sound
        <5>2. s = c.legs[1].account
          BY <3>2, <5>1, OpeningSide
        <5>3. MayOpen(s, c.day, h, ds, ms)
          BY <5>1, <5>2, Heads DEF Opening
        <5> QED
          BY <2>2, <5>3
      <4> QED
        BY <1>1, <3>2, <4>1
    <3> QED
      BY <1>0, <2>4, <3>1, <3>2, CountsAfter
  <2> QED
    BY <2>3, <2>4
<1>2. CASE /\ c.op = "opening" /\ d = c.doc /\ all[d].date = c.day
           /\ s = c.legs[1].account /\ MayOpen(s, c.day, h, ds, ms)
  <2>1. LiveOn(ds, s) = {} /\ \A m \in ms : Counts(ms, m, s) => c.day <= m.date
    BY <1>2 DEF MayOpen
  <2>2. \A x \in LiveOn(all, s) : x = d
    BY <1>2, <1>5, <2>1
  <2>3. c.day \in Nat
    BY <1>2 DEF Sound, Opening
  <2>4. ASSUME NEW m \in ms \cup t.moves, Counts(ms \cup t.moves, m, s) PROVE all[d].date <= m.date
    <3>1. CASE m \in ms /\ Counts(ms, m, s)
      BY <1>2, <2>1, <3>1
    <3>2. CASE m.date = c.day
      BY <1>2, <2>3, <3>2
    <3> QED
      BY <1>0, <2>4, <3>1, <3>2, CountsAfter
  <2> QED
    BY <2>2, <2>4
<1> QED
  BY <1>1, <1>2, <1>5

(* The committed rows keep their shape.                                    *)
LEMMA CommitKeepsShape ==
  ASSUME NEW t, TxShape(t), NEW ds, NEW ms, TablesShape(ds, ms)
  PROVE  TablesShape(Overlaid(ds, t.docs), ms \cup t.moves)
<1>1. \A d \in DOMAIN Overlaid(ds, t.docs) : DocShape(Overlaid(ds, t.docs)[d])
  BY DEF TablesShape, TxShape, Overlaid
<1>2. IsFiniteSet(ms) /\ IsFiniteSet(t.moves) /\ \A m \in ms \cup t.moves : MoveShape(m)
  BY DEF TablesShape, TxShape, MovesShape
<1>3. IsFiniteSet(ms \cup t.moves)
  BY <1>2, FS_Union
<1> QED
  BY <1>1, <1>2, <1>3 DEF TablesShape, MovesShape

(* What another request has checked still holds after the commit: whatever *)
(* the commit changes on a side, the other does not hold that side.        *)
LEMMA CommitKeepsOthers ==
  ASSUME NEW c, NEW t, NEW h, NEW ds, NEW ms, Sound(c, t, Commits, h, ds, ms), CallShape(c),
         NEW c2, NEW t2, NEW s2, NEW h2, Sound(c2, t2, s2, h2, ds, ms), h \cap h2 = {}
  PROVE  Sound(c2, t2, s2, h2, Overlaid(ds, t.docs), ms \cup t.moves)
<1> DEFINE all == Overlaid(ds, t.docs)
           more == ms \cup t.moves
<1>1. ASSUME NEW s, s # NoSide, <<"side", s>> \in h2
      PROVE  /\ \A d \in LiveOn(all, s) : d \in LiveOn(ds, s) /\ all[d] = ds[d]
             /\ \A m \in more : Counts(more, m, s) => m \in ms /\ Counts(ms, m, s)
  <2>1. <<"side", s>> \notin h
    BY <1>1
  <2>2. ~MayOpen(s, c.day, h, ds, ms)
    BY <2>1 DEF MayOpen
  <2>3. ASSUME NEW d \in LiveOn(all, s) PROVE d \in LiveOn(ds, s) /\ all[d] = ds[d]
    BY <1>1, <2>2, LiveAfter
  <2>4. ASSUME NEW m \in more, Counts(more, m, s) PROVE m \in ms /\ Counts(ms, m, s)
    BY <1>1, <2>1, <2>4, CountsAfter
  <2> HIDE DEF all, more
  <2> QED
    BY <2>3, <2>4
<1> HIDE DEF all, more
<1>2. DOMAIN ds \subseteq DOMAIN all
  BY DEF all, Overlaid
<1>3. ASSUME c2.op = "opening" PROVE Opening(c2, t2, s2, h2, all, more)
  <2>1. Opening(c2, t2, s2, h2, ds, ms)
    BY <1>3 DEF Sound
  <2>2. c2.legs[1].account \in Account
    <3>1. PICK a \in Account : c2.legs = <<Books!OnAccount(a, 1)>>
      BY <2>1 DEF Opening
    <3> QED
      BY <3>1 DEF Books!OnAccount
  <2>3. MayOpen(c2.legs[1].account, c2.day, h2, ds, ms) => MayOpen(c2.legs[1].account, c2.day, h2, all, more)
    <3> DEFINE a == c2.legs[1].account
    <3> SUFFICES ASSUME MayOpen(a, c2.day, h2, ds, ms) PROVE MayOpen(a, c2.day, h2, all, more)
      OBVIOUS
    <3>1. a # NoSide
      BY <2>2, LocksAssumption
    <3> HIDE DEF a
    <3>2. /\ <<"side", a>> \in h2 /\ LiveOn(ds, a) = {}
          /\ \A m \in ms : Counts(ms, m, a) => c2.day <= m.date
      BY DEF MayOpen
    <3>3. /\ \A d \in LiveOn(all, a) : d \in LiveOn(ds, a)
          /\ \A m \in more : Counts(more, m, a) => m \in ms /\ Counts(ms, m, a)
      BY <1>1, <3>1, <3>2
    <3>4. LiveOn(all, a) = {}
      BY <3>2, <3>3
    <3> QED
      BY <3>2, <3>3, <3>4 DEF MayOpen
  <2> QED
    BY <2>1, <2>3 DEF Opening
<1>4. ASSUME NEW m \in t2.moves PROVE PostedMove(c2, m, h2, all)
  <2> SUFFICES ASSUME m.reverses = 0
               PROVE  /\ m.date = c2.day /\ SidesOf(m) \subseteq Across(c2.legs)
                      /\ \A s \in SidesOf(m) : <<"side", s>> \in h2
                      /\ c2.op # "opening" =>
                           \A s \in SidesOf(m) : \A d \in LiveOn(all, s) : all[d].date <= m.date
    BY DEF PostedMove
  <2>1. /\ m.date = c2.day /\ SidesOf(m) \subseteq Across(c2.legs)
        /\ \A s \in SidesOf(m) : <<"side", s>> \in h2
        /\ c2.op # "opening" =>
             \A s \in SidesOf(m) : \A d \in LiveOn(ds, s) : ds[d].date <= m.date
    BY DEF Sound, PostedMove
  <2>2. ASSUME c2.op # "opening", NEW s \in SidesOf(m), NEW d \in LiveOn(all, s)
        PROVE  all[d].date <= m.date
    <3>1. <<"side", s>> \in h2 /\ \A x \in LiveOn(ds, s) : ds[x].date <= m.date
      BY <2>1, <2>2
    <3>2. s # NoSide
      BY <2>2 DEF SidesOf
    <3> QED
      BY <1>1, <2>2, <3>1, <3>2
  <2> QED
    BY <2>1, <2>2
<1>5. c2.op = "cancel" => c2.doc \in DOMAIN all
  BY <1>2 DEF Sound
<1> QED
  BY <1>3, <1>4, <1>5 DEF Sound, all, more

LEMMA CommitKeeps ==
  ASSUME LocksInv, NEW w \in Worker, Commit(w) PROVE LocksInv'
<1> DEFINE c == call[w]
           t == tx[w]
<1>1. /\ docs' = Overlaid(docs, t.docs) /\ moves' = moves \cup t.moves
      /\ call' = [call EXCEPT ![w] = NoCall] /\ tx' = [tx EXCEPT ![w] = Nothing]
      /\ pc' = [pc EXCEPT ![w] = <<>>] /\ held' = [held EXCEPT ![w] = {}]
      /\ todo' = [todo EXCEPT ![w] = <<>>] /\ At(w, "commit")
  BY CommitWrites
<1>2. WorkersShape /\ HeldByOne /\ TablesShape(docs, moves) /\ OpeningsFirst(docs, moves)
  BY DEF LocksInv
<1>3. /\ pc[w] # <<>> /\ Head(pc[w]) = "commit" /\ Sound(c, t, pc[w], held[w], docs, moves)
      /\ CallShape(c) /\ Steps(c.legs, t.moves, pc[w]) /\ TxShape(t)
  BY <1>1, AtWork
<1>4. pc[w] = Commits
  BY <1>3, Heads DEF Steps, PostsOnce, PostsTwice, PostsNothing
<1>5. Sound(c, t, Commits, held[w], docs, moves)
  BY <1>3, <1>4
<1>6. WorkersShape' /\ HeldByOne'
  BY <1>1, <1>2 DEF WorkersShape, HeldByOne
<1> HIDE DEF c, t
<1>7. TablesShape(docs', moves') /\ OpeningsFirst(docs', moves')
  BY <1>1, <1>2, <1>3, <1>5, CommitKeepsShape, CommitKeepsFirst
<1>8. ASSUME NEW v \in Worker
      PROVE  /\ Covers(call'[v], pc'[v], todo'[v], held'[v])
             /\ Sound(call'[v], tx'[v], pc'[v], held'[v], docs', moves')
  <2>1. CASE v = w
    <3>1. call'[v] = NoCall /\ tx'[v] = Nothing /\ pc'[v] = <<>> /\ held'[v] = {}
      BY <1>1, <1>2, <2>1 DEF WorkersShape
    <3> QED
      BY <3>1, IdleSound DEF Covers
  <2>2. CASE v # w
    <3>1. /\ call'[v] = call[v] /\ tx'[v] = tx[v] /\ pc'[v] = pc[v] /\ held'[v] = held[v]
          /\ todo'[v] = todo[v]
      BY <1>1, <1>2, <2>2 DEF WorkersShape
    <3>2. Covers(call[v], pc[v], todo[v], held[v]) /\ Sound(call[v], tx[v], pc[v], held[v], docs, moves)
      BY DEF LocksInv
    <3>3. held[w] \cap held[v] = {}
      BY <1>2, <2>2 DEF HeldByOne
    <3>4. Sound(call[v], tx[v], pc[v], held[v], Overlaid(docs, t.docs), moves \cup t.moves)
      BY <1>3, <1>5, <3>2, <3>3, CommitKeepsOthers
    <3> QED
      BY <1>1, <3>1, <3>2, <3>4
  <2> QED
    BY <2>1, <2>2
<1> QED
  BY <1>6, <1>7, <1>8 DEF LocksInv

-----------------------------------------------------------------------------
(* Every run of requests                                                   *)

LEMMA LocksStart == Init => LocksInv
<1> SUFFICES ASSUME Init PROVE LocksInv
  OBVIOUS
<1>1. WorkersShape /\ HeldByOne
  BY DEF Init, WorkersShape, HeldByOne
<1>2. TablesShape(docs, moves) /\ OpeningsFirst(docs, moves)
  <2>1. docs = <<>> /\ moves = {} /\ DOMAIN <<>> = {} /\ IsFiniteSet({})
    BY FS_EmptySet DEF Init
  <2> QED
    BY <2>1 DEF TablesShape, MovesShape, OpeningsFirst, LiveOn
<1>3. \A w \in Worker : call[w] = NoCall /\ tx[w] = Nothing /\ pc[w] = <<>>
  BY DEF Init
<1>4. \A w \in Worker : /\ Covers(call[w], pc[w], todo[w], held[w])
                        /\ Sound(call[w], tx[w], pc[w], held[w], docs, moves)
  BY <1>3, IdleSound DEF Covers
<1> QED
  BY <1>1, <1>2, <1>4 DEF LocksInv

LEMMA LocksStep == LocksInv /\ [Next]_vars => LocksInv'
<1> SUFFICES ASSUME LocksInv, [Next]_vars PROVE LocksInv'
  OBVIOUS
<1>1. CASE UNCHANGED vars
  BY <1>1 DEF vars, tables, LocksInv, WorkersShape, HeldByOne
<1>2. ASSUME NEW w \in Worker,
             \/ BeginRecord(w) \/ BeginOnDocument(w) \/ BeginOnInvoice(w) \/ BeginClose(w)
             \/ Lock(w) \/ DetectDeadlock(w)
             \/ CheckRemaining(w) \/ Allocate(w) \/ RecordDocument(w) \/ CheckOpening(w) \/ IssueInvoice(w)
             \/ CheckDate(w) \/ PostLeg(w) \/ Sync(w)
             \/ Peek(w) \/ Reread(w) \/ CheckStanding(w) \/ CheckUncollected(w) \/ PostReversal(w)
             \/ CloseBooks(w) \/ Commit(w)
      PROVE  LocksInv'
  <2>1. CASE BeginRecord(w) \/ BeginOnDocument(w) \/ BeginOnInvoice(w) \/ BeginClose(w)
    BY <2>1, BeginRecordKeeps, BeginOnDocumentKeeps, BeginOnInvoiceKeeps, BeginCloseKeeps
  <2>2. CASE Lock(w)
    BY <2>2, LockKeeps
  <2>3. CASE DetectDeadlock(w)
    BY <2>3, RefuseKeeps DEF DetectDeadlock
  <2>4. CASE CheckRemaining(w) \/ Allocate(w) \/ RecordDocument(w) \/ CheckOpening(w) \/ IssueInvoice(w)
    BY <2>4, CheckRemainingKeeps, AllocateKeeps, RecordDocumentKeeps, CheckOpeningKeeps,
       IssueInvoiceKeeps
  <2>5. CASE CheckDate(w) \/ PostLeg(w) \/ Sync(w)
    BY <2>5, CheckDateKeeps, PostLegKeeps, SyncKeeps
  <2>6. CASE Peek(w) \/ Reread(w) \/ CheckStanding(w) \/ CheckUncollected(w) \/ PostReversal(w)
    BY <2>6, PeekKeeps, RereadKeeps, CheckStandingKeeps, CheckUncollectedKeeps, PostReversalKeeps
  <2>7. CASE CloseBooks(w) \/ Commit(w)
    BY <2>7, CloseBooksKeeps, CommitKeeps
  <2> QED
    BY <1>2, <2>1, <2>2, <2>3, <2>4, <2>5, <2>6, <2>7
<1> QED
  BY <1>1, <1>2 DEF Next

(* However many requests are at work, and whichever of them open, post,    *)
(* cancel or close the books: each side has at most one live opening, and  *)
(* nothing live is dated before it.  record_opening and every post check   *)
(* with the side's row locked until they commit.                           *)
THEOREM OpeningHoldsUnderLocks == Spec => []OpeningHolds
<1>1. LocksInv => OpeningHolds
  BY OpeningsAreFirst DEF LocksInv
<1> QED
  BY <1>1, LocksStart, LocksStep, PTL DEF Spec

(* And a row locked FOR UPDATE is one request's (SELECT ... FOR UPDATE in  *)
(* lock_sides, _lock and the numbering counter).                           *)
THEOREM RowsHeldByOne == Spec => []HeldByOne
<1>1. LocksInv => HeldByOne
  BY DEF LocksInv
<1> QED
  BY <1>1, LocksStart, LocksStep, PTL DEF Spec

=============================================================================
