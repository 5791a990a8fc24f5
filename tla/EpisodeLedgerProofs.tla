------------------------ MODULE EpisodeLedgerProofs ------------------------
(***************************************************************************)
(* Proofs about EpisodeLedger, for any source files, any number of calls   *)
(* and of crashes, and whatever files a project had before it had a ledger *)
(***************************************************************************)
EXTENDS EpisodeLedger, FiniteSetTheorems, WellFoundedInduction, TLAPS

-----------------------------------------------------------------------------
(* Greatest elements *)

LEMMA NatWellOrdered ==
    \E R : IsWellFoundedOn(R, Nat) /\ \A n, k \in Nat : n < k => <<n, k>> \in R
<1>1. \A n, k \in Nat : n < k => <<n, k>> \in OpToRel(<, Nat)
  BY DEF OpToRel
<1> WITNESS OpToRel(<, Nat)
<1> QED
  BY <1>1, NatLessThanWellFounded

LEMMA LeastNatural ==
    ASSUME NEW T \in SUBSET Nat, T # {}
    PROVE  \E m \in T : \A n \in T : m <= n
<1>1. PICK R : IsWellFoundedOn(R, Nat) /\ \A n, k \in Nat : n < k => <<n, k>> \in R
  BY NatWellOrdered
<1>2. IsWellFoundedOn(R, Nat) /\ T \subseteq Nat /\ T # {}
  BY <1>1
<1>3. \A n, k \in Nat : n < k => <<n, k>> \in R
  BY <1>1
<1>4. \E m \in T : \A n \in T : ~ (<<n, m>> \in R)
  BY <1>2, WFMin, Zenon
<1>5. PICK m \in T : \A n \in T : ~ (<<n, m>> \in R)
  BY <1>4
<1>6. ASSUME NEW n \in T
      PROVE  m <= n
  <2>1. m \in Nat /\ n \in Nat /\ ~ (<<n, m>> \in R)
    BY <1>5
  <2>2. ~ (n < m)
    BY <2>1, <1>3
  <2> QED
    BY <2>1, <2>2
<1> QED
  BY <1>6

LEMMA MaxExists ==
    ASSUME NEW b \in Nat, NEW S \in SUBSET (0..b), S # {}
    PROVE  Max(S) \in S /\ \A x \in S : x <= Max(S)
<1> DEFINE T == {b - x : x \in S}
<1>1. \A x \in S : b - x \in Nat
  OBVIOUS
<1>2. T \subseteq Nat /\ T # {}
  BY <1>1
<1>3. PICK m \in T : \A n \in T : m <= n
  <2> HIDE DEF T
  <2> QED
    BY <1>2, LeastNatural
<1>4. PICK x \in S : m = b - x
  OBVIOUS
<1>5. \A y \in S : b - y \in T /\ y \in Int
  OBVIOUS
<1>6. \A y \in S : x >= y
  BY <1>3, <1>4, <1>5
<1> QED
  BY <1>6 DEF Max

-----------------------------------------------------------------------------
(* What the ledger is for a reader *)

Ledgers == [Episode -> Entry \cup {NULL}]

LEMMA RowBoundedStep ==
    ASSUME NEW n \in Nat, NEW row \in [1..n -> Nat], NEW m \in 1..n,
           NEW b \in Nat, \A i \in 1..m - 1 : row[i] <= b
    PROVE  \E d \in Nat : \A i \in 1..m : row[i] <= d
<1> DEFINE d == IF b >= row[m] THEN b ELSE row[m]
<1>1. d \in Nat /\ d >= b /\ d >= row[m]
  OBVIOUS
<1> HIDE DEF d
<1>2. ASSUME NEW i \in 1..m
      PROVE  row[i] <= d
  <2>1. row[i] \in Nat /\ (i \in 1..m - 1 \/ i = m)
    OBVIOUS
  <2> QED
    BY <1>1, <2>1
<1> QED
  BY <1>1, <1>2

LEMMA RowBounded ==
    ASSUME NEW n \in Nat, NEW row \in [1..n -> Nat]
    PROVE  \E b \in Nat : \A i \in 1..n : row[i] <= b
<1> DEFINE Bounded(m) == \E b \in Nat : \A i \in 1..m : row[i] <= b
           T == {m \in 0..n : ~ Bounded(m)}
<1>1. Bounded(0)
  <2>1. \A i \in 1..0 : row[i] <= 0
    OBVIOUS
  <2> QED
    BY <2>1
<1>2. \A m \in 1..n : Bounded(m - 1) => Bounded(m)
  BY RowBoundedStep
<1> HIDE DEF Bounded
<1>3. T = {}
  <2> SUFFICES ASSUME T # {}
               PROVE  FALSE
    OBVIOUS
  <2>1. T \in SUBSET Nat
    OBVIOUS
  <2>2. PICK m \in T : \A k \in T : m <= k
    <3> HIDE DEF T
    <3> QED
      BY <2>1, LeastNatural
  <2>3. m \in 1..n /\ m - 1 \in 0..n /\ ~ (m <= m - 1)
    BY <1>1
  <2>4. m - 1 \notin T /\ ~ Bounded(m)
    BY <2>2, <2>3
  <2> QED
    BY <1>2, <2>3, <2>4
<1>4. n \notin T /\ n \in 0..n
  BY <1>3
<1>5. Bounded(n)
  BY <1>4
<1> QED
  BY <1>5 DEF Bounded

\* The longest of the files is a number: there are finitely many.
LEMMA SizesBounded ==
    \E b \in Nat : \A f \in File : Size[f] <= b
<1> DEFINE n == Len(Files)
           row == [i \in 1..n |-> Size[Files[i]]]
<1>1. /\ n \in Nat
      /\ \A i \in 1..n : Files[i] \in File
      /\ \A f \in File : \E i \in 1..n : f = Files[i]
  BY LedgerAssumption DEF LedgerAssumption, File, ToSet
<1>2. \A f \in File : Size[f] \in Nat
  BY LedgerAssumption DEF LedgerAssumption
<1> HIDE DEF n
<1>3. row \in [1..n -> Nat]
  BY <1>1, <1>2
<1>4. PICK b \in Nat : \A i \in 1..n : row[i] <= b
  <2> HIDE DEF row
  <2> QED
    BY <1>1, <1>3, RowBounded
<1>5. \A i \in 1..n : Size[Files[i]] <= b
  BY <1>4
<1> QED
  BY <1>1, <1>5

LEMMA OffsetForm ==
    /\ Max({Size[f] : f \in File}) \in Nat
    /\ Offset \subseteq Nat
    /\ \A f \in File : \A n \in 0..Size[f] : n \in Offset
<1> DEFINE S == {Size[f] : f \in File}
<1>1. PICK b \in Nat : \A f \in File : Size[f] <= b
  BY SizesBounded
<1>2. \A f \in File : Size[f] \in Nat
  BY LedgerAssumption DEF LedgerAssumption
<1>3. File # {}
  BY LedgerAssumption DEF LedgerAssumption, File, ToSet
<1>4. S \in SUBSET (0..b) /\ S # {}
  BY <1>1, <1>2, <1>3
<1>5. \A f \in File : Size[f] \in S
  OBVIOUS
<1>6. Max(S) \in S /\ \A x \in S : x <= Max(S)
  <2> HIDE DEF S
  <2> QED
    BY <1>1, <1>4, MaxExists
<1>7. Max(S) \in Nat
  BY <1>4, <1>6
<1>8. Offset = 0..Max(S)
  BY DEF Offset
<1> HIDE DEF S
<1>9. ASSUME NEW f \in File, NEW n \in 0..Size[f]
      PROVE  n \in Offset
  <2>1. Size[f] <= Max(S) /\ Size[f] \in Nat
    BY <1>2, <1>5, <1>6
  <2> QED
    BY <1>7, <1>8, <2>1
<1>10. Offset \subseteq Nat
  BY <1>7, <1>8
<1> QED
  BY <1>7, <1>9, <1>10 DEF S

LEMMA EntryForm ==
    ASSUME NEW k \in Cut \cup {NULL}, NEW s \in Status, NEW r \in Text \cup {NULL}
    PROVE  [cut |-> k, status |-> s, review |-> r] \in Entry
BY DEF Entry

LEMMA NotNull ==
    /\ \A k \in Cut : k # NULL
    /\ \A p \in Place : p # NULL
    /\ \A n \in Entry : n # NULL
    /\ \A t \in Text : t # NULL
BY LedgerAssumption DEF LedgerAssumption

\* One entry as backfill_episode_ledger leaves it, from what it was, the text
\* of its file, and whether something was built on it
Backfilled(n, t, down) ==
    LET found(r) == IF t \in Cut
                    THEN [cut |-> t, status |-> IF down THEN "consumed" ELSE "planned", review |-> r]
                    ELSE [cut |-> NULL, status |-> "unanchored", review |-> r]
    IN IF n = NULL THEN (IF t = NULL THEN NULL ELSE found(NULL))
       ELSE IF n.status = "none" THEN found(n.review) ELSE n

ReviewOf(n) == IF n = NULL THEN NULL ELSE n.review

LEMMA BackfilledForm ==
    ASSUME NEW n \in Entry \cup {NULL}, NEW t \in Cut \cup {Foreign, NULL}, NEW down \in BOOLEAN
    PROVE  LET b == Backfilled(n, t, down)
           IN /\ b \in Entry \cup {NULL}
              /\ b = NULL <=> n = NULL /\ t = NULL
              /\ b # NULL => b.status # "none" /\ b.review = ReviewOf(n)
              /\ n # NULL /\ n.status # "none" => b = n
              /\ (n # NULL /\ n.status = "none") \/ (n = NULL /\ t # NULL)
                   => b.cut = IF t \in Cut THEN t ELSE NULL
<1> DEFINE found(r) == IF t \in Cut
                       THEN [cut |-> t, status |-> IF down THEN "consumed" ELSE "planned",
                             review |-> r]
                       ELSE [cut |-> NULL, status |-> "unanchored", review |-> r]
<1>1. ASSUME NEW r \in Text \cup {NULL}
      PROVE  /\ found(r) \in Entry /\ found(r) # NULL
             /\ found(r).status # "none" /\ found(r).review = r
             /\ found(r).cut = IF t \in Cut THEN t ELSE NULL
  <2>1. CASE t \in Cut
    <3> DEFINE st == IF down THEN "consumed" ELSE "planned"
    <3>1. st \in {"planned", "consumed"}
      OBVIOUS
    <3>2. found(r) = [cut |-> t, status |-> st, review |-> r]
      BY <2>1
    <3> HIDE DEF st, found
    <3>3. found(r) \in Entry
      BY <2>1, <3>1, <3>2 DEF Entry, Status
    <3> QED
      BY <2>1, <3>1, <3>2, <3>3, NotNull
  <2>2. CASE t \notin Cut
    <3>1. found(r) = [cut |-> NULL, status |-> "unanchored", review |-> r]
      BY <2>2
    <3> HIDE DEF found
    <3>2. found(r) \in Entry
      BY <3>1 DEF Entry, Status
    <3> QED
      BY <2>2, <3>1, <3>2, NotNull
  <2> QED
    BY <2>1, <2>2
<1>2. Backfilled(n, t, down) =
         IF n = NULL THEN (IF t = NULL THEN NULL ELSE found(NULL))
         ELSE IF n.status = "none" THEN found(n.review) ELSE n
  BY Zenon DEF Backfilled
<1>3. n # NULL => n \in Entry /\ n.review \in Text \cup {NULL}
  BY DEF Entry
<1> HIDE DEF found
<1>4. CASE n = NULL
  BY <1>1, <1>2, <1>4 DEF ReviewOf
<1>5. CASE n # NULL /\ n.status = "none"
  BY <1>1, <1>2, <1>3, <1>5 DEF ReviewOf
<1>6. CASE n # NULL /\ n.status # "none"
  BY <1>2, <1>3, <1>6 DEF ReviewOf
<1> QED
  BY <1>4, <1>5, <1>6

LEMMA FilledIs ==
    ASSUME NEW e \in Episode
    PROVE  /\ Filled[e] = Backfilled(ledger[e], text[e], HasDownstream(e))
           /\ HasDownstream(e) \in BOOLEAN
           /\ Review(e) = ReviewOf(ledger[e])
BY DEF Filled, Found, Backfilled, HasDownstream, Review, ReviewOf

LEMMA FilledIsNext ==
    ASSUME NEW e \in Episode
    PROVE  /\ Filled'[e] = Backfilled(ledger'[e], text'[e], HasDownstream(e)')
           /\ HasDownstream(e)' \in BOOLEAN
           /\ Review(e)' = ReviewOf(ledger'[e])
BY DEF Filled, Found, Backfilled, HasDownstream, Review, ReviewOf

\* What backfill_episode_ledger makes of an entry
LEMMA FilledAt ==
    ASSUME LedgerTypeOK, NEW e \in Episode
    PROVE  /\ Filled[e] \in Entry \cup {NULL}
           /\ Filled[e] = NULL <=> ledger[e] = NULL /\ text[e] = NULL
           /\ Filled[e] # NULL => /\ Filled[e].status # "none"
                                  /\ Filled[e].review = Review(e)
           /\ ledger[e] # NULL /\ ledger[e].status # "none" => Filled[e] = ledger[e]
           /\ (ledger[e] # NULL /\ ledger[e].status = "none") \/ (ledger[e] = NULL /\ text[e] # NULL)
                => Filled[e].cut = IF text[e] \in Cut THEN text[e] ELSE NULL
<1>1. ledger[e] \in Entry \cup {NULL} /\ text[e] \in Cut \cup {Foreign, NULL}
  BY DEF LedgerTypeOK
<1> QED
  BY <1>1, FilledIs, BackfilledForm

LEMMA FilledForm ==
    ASSUME LedgerTypeOK
    PROVE  Filled \in Ledgers
<1>1. \A e \in Episode : Filled[e] \in Entry \cup {NULL}
  BY FilledAt
<1> QED
  BY <1>1 DEF Filled, Ledgers

LEMMA AnchoredCut ==
    ASSUME NEW L \in Ledgers, NEW e \in Anchored(L)
    PROVE  e \in Episode /\ L[e] \in Entry /\ L[e].cut \in Cut
BY DEF Anchored, Ledgers, Entry

LEMMA CutForm ==
    ASSUME NEW k \in Cut
    PROVE  /\ k \in [file : File, start : Offset, end : Offset]
           /\ k.start \in Nat /\ k.end \in Nat /\ k.start < k.end /\ k.end <= Size[k.file]
           /\ Size[k.file] \in Nat
           /\ [file |-> k.file, at |-> k.end] \in Place
BY LedgerAssumption, OffsetForm DEF Cut, Place, LedgerAssumption

LEMMA LastEndForm ==
    ASSUME NEW L \in Ledgers, Anchored(L) # {}
    PROVE  LastEnd(L) \in Place
<1>1. MaxEpisode \in Nat /\ Anchored(L) \in SUBSET (0..MaxEpisode)
  BY LedgerAssumption DEF LedgerAssumption, Anchored, Episode
<1>2. Max(Anchored(L)) \in Anchored(L)
  BY <1>1, MaxExists
<1>3. L[Max(Anchored(L))].cut \in Cut
  BY <1>2, AnchoredCut
<1> QED
  BY <1>3, CutForm DEF LastEnd

LEMMA FilledCursorForm ==
    ASSUME LedgerTypeOK
    PROVE  /\ FilledCursor \in Place \cup {NULL}
           /\ FilledCursor = NULL <=> cursor = NULL /\ Anchored(Filled) = {}
           /\ cursor # NULL => FilledCursor = cursor
<1>1. Anchored(Filled) # {} => LastEnd(Filled) \in Place
  BY FilledForm, LastEndForm
<1> QED
  BY <1>1, NotNull DEF FilledCursor, LedgerTypeOK

-----------------------------------------------------------------------------
(* What a plan and a replan commit *)

\* Every entry has been looked up.
Settled(L) == L \in Ledgers /\ \A e \in Episode : L[e] # NULL => L[e].status # "none"

LEMMA FilledSettled ==
    ASSUME LedgerTypeOK
    PROVE  Settled(Filled)
BY FilledForm, FilledAt DEF Settled

LEMMA NumberedAt ==
    ASSUME NEW m \in Nat, NEW cuts \in [1..m -> Cut], NEW n \in Int,
           NEW st \in [Episode -> Status], NEW e \in Episode,
           e \in DOMAIN Numbered(cuts, n, st)
    PROVE  /\ e >= n
           /\ Numbered(cuts, n, st)[e] \in Entry
           /\ Numbered(cuts, n, st)[e].cut \in Cut
           /\ Numbered(cuts, n, st)[e].status = st[e]
           /\ Numbered(cuts, n, st)[e].review = NULL
<1>1. Len(cuts) = m
  OBVIOUS
<1>2. e \in n..n + m - 1 /\ e \in Int
  BY <1>1 DEF Numbered, Episode
<1>3. e - n + 1 \in 1..m
  BY <1>2
<1>4. cuts[e - n + 1] \in Cut
  BY <1>3
<1>5. Numbered(cuts, n, st)[e] = [cut |-> cuts[e - n + 1], status |-> st[e], review |-> NULL]
  BY <1>1, <1>2 DEF Numbered
<1> QED
  BY <1>2, <1>4, <1>5 DEF Entry

\* A call of the model gives a row of cuts.
Drafts == UNION {[1..m -> Cut] : m \in Nat \ {0}}

LEMMA PlanDraftsForm ==
    ASSUME NEW p, NEW cuts \in PlanDrafts(p)
    PROVE  cuts \in Drafts
<1>1. PICK m \in 1..MaxPlanned : cuts \in [1..m -> Cut]
  BY DEF PlanDrafts
<1>2. m \in Nat \ {0}
  BY <1>1
<1> QED
  BY <1>1, <1>2 DEF Drafts

LEMMA ReplanDraftsForm ==
    ASSUME NEW scope, NEW cuts \in ReplanDrafts(scope)
    PROVE  cuts \in Drafts
<1>1. PICK m \in 1..MaxEpisode + 1 - Min(DOMAIN scope) : cuts \in [1..m -> Cut]
  BY DEF ReplanDrafts
<1>2. m \in Nat \ {0}
  BY <1>1
<1> QED
  BY <1>1, <1>2 DEF Drafts

LEMMA DraftForm ==
    ASSUME NEW cuts \in Drafts
    PROVE  \E m \in Nat : cuts \in [1..m -> Cut] /\ m >= 1 /\ Len(cuts) = m
<1>1. PICK m \in Nat \ {0} : cuts \in [1..m -> Cut]
  BY DEF Drafts
<1>2. m >= 1 /\ Len(cuts) = m
  BY <1>1
<1> QED
  BY <1>1, <1>2

LEMMA DraftEnd ==
    ASSUME NEW cuts \in Drafts
    PROVE  [file |-> Last(cuts).file, at |-> Last(cuts).end] \in Place
<1>1. PICK m \in Nat : cuts \in [1..m -> Cut] /\ m >= 1 /\ Len(cuts) = m
  BY DraftForm
<1>2. Last(cuts) \in Cut
  BY <1>1 DEF Last
<1> QED
  BY <1>2, CutForm

LEMMA NextNumberIs ==
    ASSUME LedgerTypeOK
    PROVE  /\ NextNumber \in Nat \ {0}
           /\ \A e \in Entries(Filled) : e < NextNumber
<1> DEFINE S == {0} \cup Entries(Filled)
<1>1. MaxEpisode \in Nat /\ S \in SUBSET (0..MaxEpisode) /\ S # {}
  BY LedgerAssumption DEF LedgerAssumption, Entries, Episode
<1>2. Max(S) \in S /\ \A x \in S : x <= Max(S)
  <2> HIDE DEF S
  <2> QED
    BY <1>1, MaxExists
<1> QED
  BY <1>1, <1>2 DEF NextNumber

\* plan adds entries behind those there are, and changes none.
LEMMA AppendedForm ==
    ASSUME LedgerTypeOK, NEW cuts \in Drafts
    PROVE  /\ Settled(Appended(cuts))
           /\ \A e \in Episode : Filled[e] # NULL => Appended(cuts)[e] = Filled[e]
           /\ \A e \in Episode : Filled[e] = NULL => ReviewOf(Appended(cuts)[e]) = NULL
<1>1. PICK m \in Nat : cuts \in [1..m -> Cut]
  BY DraftForm
<1> DEFINE st == [e \in Episode |-> "planned"]
           new == Numbered(cuts, NextNumber, st)
<1>2. st \in [Episode -> Status] /\ NextNumber \in Int
  BY NextNumberIs DEF Status
<1>3. ASSUME NEW e \in Episode, e \in DOMAIN new
      PROVE  /\ e >= NextNumber /\ new[e] \in Entry
             /\ new[e].status = "planned" /\ new[e].review = NULL
  <2>1. st[e] = "planned"
    OBVIOUS
  <2> HIDE DEF st
  <2> QED
    BY <1>1, <1>2, <1>3, <2>1, NumberedAt
<1>4. Appended(cuts) = [e \in Episode |-> IF e \in DOMAIN new THEN new[e] ELSE Filled[e]]
  BY DEF Appended
<1> HIDE DEF st, new
<1>5. ASSUME NEW e \in Episode, Filled[e] # NULL
      PROVE  e \notin DOMAIN new
  <2>1. e \in Entries(Filled)
    BY <1>5 DEF Entries
  <2>2. e < NextNumber /\ e \in Int /\ NextNumber \in Int
    BY <2>1, NextNumberIs DEF Episode
  <2> QED
    BY <1>3, <2>2
<1>6. Settled(Filled)
  BY FilledSettled
<1> QED
  BY <1>3, <1>4, <1>5, <1>6 DEF Settled, Ledgers, ReviewOf

\* replan leaves the entries before its scope as they are.
LEMMA RecutForm ==
    ASSUME LedgerTypeOK, NEW cuts \in Drafts, NEW from \in Episode
    PROVE  /\ Settled(Recut(from, cuts))
           /\ \A e \in Episode : e < from => Recut(from, cuts)[e] = Filled[e]
           /\ \A e \in Episode : e >= from => ReviewOf(Recut(from, cuts)[e]) = NULL
           /\ \A e \in Episode : e >= from /\ Recut(from, cuts)[e] # NULL
                               => Recut(from, cuts)[e].status = NewStatus[e]
<1>1. PICK m \in Nat : cuts \in [1..m -> Cut]
  BY DraftForm
<1> DEFINE new == Numbered(cuts, from, NewStatus)
<1>2. /\ from \in Int
      /\ NewStatus \in [Episode -> Status]
      /\ \A e \in Episode : NewStatus[e] \in {"planned", "stale"}
  BY DEF NewStatus, Status, Episode
<1>3. ASSUME NEW e \in Episode, e \in DOMAIN new
      PROVE  /\ new[e] \in Entry /\ new[e].status # "none" /\ new[e].review = NULL
             /\ new[e].status = NewStatus[e]
  <2>1. new[e] \in Entry /\ new[e].status = NewStatus[e] /\ new[e].review = NULL
    BY <1>1, <1>2, <1>3, NumberedAt
  <2> HIDE DEF new
  <2> QED
    BY <1>2, <2>1
<1>4. Recut(from, cuts) = [e \in Episode |-> IF e < from THEN Filled[e]
                                            ELSE IF e \in DOMAIN new THEN new[e] ELSE NULL]
  BY DEF Recut
<1> HIDE DEF new
<1>5. Settled(Filled)
  BY FilledSettled
<1>6. \A e \in Episode : ~ (e < from /\ e >= from)
  BY <1>2 DEF Episode
<1> QED
  BY <1>3, <1>4, <1>5, <1>6 DEF Settled, Ledgers, ReviewOf

-----------------------------------------------------------------------------
(* The inductive invariant *)

Pcs == {"idle", "exhausted", "planning", "replanning", "splitting", "rewriting", "rewritten",
        "confirming", "gated", "ungated"}

\* What a call carries is what it was asked for: the episodes of the products
\* are those that are worked on, what a confirmation has read was recorded (in
\* rec), and a replan that touches consumed episodes has consent.
GoodCall(r, rec) ==
    /\ r.pc \in Pcs
    /\ r.pc \in {"splitting", "confirming"} => r.ep \in Worked /\ r.content \in Text
    /\ r.pc \in {"rewriting", "rewritten", "gated", "ungated"} => r.ep \in Worked
    /\ r.pc = "confirming" => r.content \in rec[r.ep]
    /\ r.pc = "replanning" => /\ r.ep \in Episode
                              /\ r.consumed # {} => r.consent

CallsOK ==
    /\ DOMAIN call = Call /\ call = [c \in Call |-> call[c]]
    /\ \A c \in Call : GoodCall(call[c], seen)

\* Without a cursor no entry has a cut.
CursorKnown == cursor = NULL => Anchored(ledger) = {}

\* What is confirmed was read by a confirmation.
ReviewedSeen == \A e \in Worked : Review(e) # NULL => Review(e) \in seen[e]

LedgerIndInv ==
    /\ LedgerTypeOK
    /\ seen \in [Worked -> SUBSET Text]
    /\ CallsOK
    /\ CursorKnown
    /\ FilesFollowLedger
    /\ ReviewedSeen

-----------------------------------------------------------------------------
(* Initially *)

LEMMA InitInd ==
    ASSUME Init
    PROVE  LedgerIndInv
<1> USE DEF Init
<1>1. LedgerTypeOK
  <2>1. PICK old \in Legacy : text = old.text /\ step1 = old.step1 /\ scripts = old.scripts
    OBVIOUS
  <2>2. old \in [text : [Episode -> Cut \cup {Foreign, NULL}],
                 step1 : [Episode -> Text \cup {NULL}],
                 scripts : SUBSET Episode]
    BY LedgerAssumption DEF LedgerAssumption
  <2>3. crashes \in 0..MaxCrashes
    BY LedgerAssumption DEF LedgerAssumption
  <2> QED
    BY <2>1, <2>2, <2>3 DEF LedgerTypeOK
<1>2. Anchored(ledger) = {}
  BY DEF Anchored
<1>3. CallsOK
  BY DEF CallsOK, GoodCall, Pcs, Idle
<1>4. ReviewedSeen
  <2>1. \A e \in Worked : Review(e) = NULL
    BY LedgerAssumption DEF LedgerAssumption, Review
  <2> QED
    BY <2>1 DEF ReviewedSeen
<1> QED
  BY <1>1, <1>2, <1>3, <1>4 DEF LedgerIndInv, CursorKnown, FilesFollowLedger

-----------------------------------------------------------------------------
(* The kinds of steps *)

LEMMA IdleGood ==
    ASSUME NEW rec
    PROVE  GoodCall(Idle, rec)
BY DEF GoodCall, Idle, Pcs

LEMMA CallsAfter ==
    ASSUME CallsOK, NEW c \in Call, NEW r, To(c, r), GoodCall(r, seen'),
           \A e \in Worked : seen[e] \subseteq seen'[e]
    PROVE  CallsOK'
<1>1. \A d \in Call : call'[d] = IF d = c THEN r ELSE call[d]
  BY DEF To, CallsOK
<1>2. ASSUME NEW d \in Call
      PROVE  GoodCall(call'[d], seen')
  <2>1. GoodCall(call[d], seen) => GoodCall(call[d], seen')
    BY DEF GoodCall
  <2> QED
    BY <1>1, <2>1 DEF CallsOK
<1>3. DOMAIN call' = Call /\ call' = [d \in Call |-> call'[d]]
  BY DEF To, CallsOK
<1> QED
  BY <1>2, <1>3 DEF CallsOK

LEMMA CallsEnd ==
    ASSUME CallsOK, NEW c \in Call, Ends(c), seen' = seen
    PROVE  CallsOK'
<1>1. To(c, Idle)
  BY DEF Ends
<1>2. GoodCall(Idle, seen')
  BY IdleGood
<1>3. \A e \in Worked : seen[e] \subseteq seen'[e]
  OBVIOUS
<1> QED
  BY <1>1, <1>2, <1>3, CallsAfter

\* A step that only moves a call
LEMMA QuietInd ==
    ASSUME LedgerIndInv, Quiet, CallsOK'
    PROVE  LedgerIndInv'
<1> USE DEF LedgerIndInv, Quiet, project, files
<1>1. LedgerTypeOK'
  BY DEF LedgerTypeOK
<1>2. CursorKnown' /\ FilesFollowLedger'
  BY DEF CursorKnown, FilesFollowLedger, Anchored
<1>3. ReviewedSeen'
  BY DEF ReviewedSeen, Review
<1> QED
  BY <1>1, <1>2, <1>3

LEMMA QuietTo ==
    ASSUME LedgerIndInv, Quiet, NEW c \in Call, NEW r, To(c, r), GoodCall(r, seen)
    PROVE  LedgerIndInv'
<1>1. seen' = seen
  BY DEF Quiet
<1>2. CallsOK'
  BY <1>1, CallsAfter DEF LedgerIndInv
<1> QED
  BY <1>2, QuietInd

LEMMA FailsInd ==
    ASSUME LedgerIndInv, NEW c \in Call,
           Fails(c) \/ PlanConflicts(c) \/ PlanAnswers(c) \/ ReplanConflicts(c)
    PROVE  LedgerIndInv'
<1>1. To(c, Idle) /\ Quiet
  BY DEF Fails, PlanConflicts, PlanAnswers, ReplanConflicts, Ends
<1> QED
  BY <1>1, IdleGood, QuietTo

LEMMA PlanReadsInd ==
    ASSUME LedgerIndInv, NEW c \in Call, PlanReads(c)
    PROVE  LedgerIndInv'
<1> DEFINE none == [Idle EXCEPT !.pc = "exhausted"]
           some == [Idle EXCEPT !.pc = "planning", !.start = EffectiveStart]
<1>1. GoodCall(none, seen) /\ GoodCall(some, seen)
  BY DEF GoodCall, Idle, Pcs
<1>2. Quiet /\ (To(c, none) \/ To(c, some))
  BY DEF PlanReads
<1> HIDE DEF none, some
<1> QED
  BY <1>1, <1>2, QuietTo

LEMMA ReplanReadsInd ==
    ASSUME LedgerIndInv, NEW c \in Call, NEW from \in Episode, NEW consent \in BOOLEAN,
           ReplanReads(c, from, consent)
    PROVE  LedgerIndInv'
<1> DEFINE r == [Idle EXCEPT !.pc = "replanning", !.ep = from, !.scope = CutsOf(from),
                             !.consumed = Consumed(from),
                             !.consent = consent /\ Consumed(from) # {}]
<1>1. Quiet /\ To(c, r)
  BY DEF ReplanReads
<1>2. Consumed(from) # {} => consent
  BY DEF ReplanReads
<1>3. /\ r.pc = "replanning" /\ r.ep = from /\ r.consumed = Consumed(from)
      /\ r.consent = (consent /\ Consumed(from) # {})
  BY DEF Idle
<1> HIDE DEF r
<1>4. GoodCall(r, seen)
  BY <1>2, <1>3 DEF GoodCall, Pcs
<1> QED
  BY <1>1, <1>4, QuietTo

LEMMA SplitReadsInd ==
    ASSUME LedgerIndInv, NEW c \in Call, NEW e \in Worked, SplitReads(c, e)
    PROVE  LedgerIndInv'
<1>1. PICK t \in Text : To(c, [Idle EXCEPT !.pc = "splitting", !.ep = e, !.content = t])
  BY DEF SplitReads
<1>2. GoodCall([Idle EXCEPT !.pc = "splitting", !.ep = e, !.content = t], seen)
  BY DEF GoodCall, Idle, Pcs
<1> QED
  BY <1>1, <1>2, QuietTo DEF SplitReads

LEMMA PassesGateInd ==
    ASSUME LedgerIndInv, NEW c \in Call, NEW e \in Worked, PassesGate(c, e) \/ PassesBlindly(c, e)
    PROVE  LedgerIndInv'
<1>1. /\ \/ To(c, [Idle EXCEPT !.pc = "gated", !.ep = e])
         \/ To(c, [Idle EXCEPT !.pc = "ungated", !.ep = e])
      /\ Quiet
  BY DEF PassesGate, PassesBlindly
<1>2. /\ GoodCall([Idle EXCEPT !.pc = "gated", !.ep = e], seen)
      /\ GoodCall([Idle EXCEPT !.pc = "ungated", !.ep = e], seen)
  BY DEF GoodCall, Idle, Pcs
<1> QED
  BY <1>1, <1>2, QuietTo

LEMMA SplitWritesInd ==
    ASSUME LedgerIndInv, NEW c \in Call, SplitWrites(c)
    PROVE  LedgerIndInv'
<1> USE DEF LedgerIndInv, SplitWrites, project
<1>1. call[c].ep \in Worked /\ call[c].content \in Text
  BY DEF CallsOK, GoodCall
<1>2. LedgerTypeOK'
  BY <1>1 DEF LedgerTypeOK
<1>3. CursorKnown' /\ FilesFollowLedger'
  BY DEF CursorKnown, FilesFollowLedger, Anchored
<1>4. ReviewedSeen'
  BY DEF ReviewedSeen, Review
<1>5. CallsOK'
  BY CallsEnd
<1> QED
  BY <1>2, <1>3, <1>4, <1>5

-----------------------------------------------------------------------------
(* A ledger that takes in what was found keeps what is said of the files. *)

LEMMA RequiresInd ==
    ASSUME LedgerIndInv, NEW e \in Worked, Requires(e),
           text' = text, scripts' = scripts, step1' \in [Episode -> Text \cup {NULL}],
           torn' = torn, crashes' = crashes
    PROVE  /\ LedgerTypeOK' /\ CursorKnown' /\ FilesFollowLedger'
           /\ \A d \in Episode : Review(d)' = Review(d) \/ Review(d)' = NULL
           /\ \A d \in Episode : Review(d) # NULL => Review(d)' = Review(d)
<1> USE DEF LedgerIndInv
<1>1. CASE UNCHANGED project
  BY <1>1 DEF project, LedgerTypeOK, CursorKnown, FilesFollowLedger, Anchored, Review
<1>2. CASE ledger' = Filled /\ cursor' = FilledCursor
  <2>1. /\ Filled \in Ledgers
        /\ FilledCursor \in Place \cup {NULL}
        /\ FilledCursor = NULL <=> cursor = NULL /\ Anchored(Filled) = {}
    BY FilledForm, FilledCursorForm
  <2>2. LedgerTypeOK'
    BY <1>2, <2>1 DEF LedgerTypeOK, Ledgers
  <2>3. CursorKnown'
    BY <1>2, <2>1 DEF CursorKnown, Anchored
  <2>4. ASSUME NEW d \in Episode, ~ torn.open
        PROVE  /\ Filled[d] = NULL => text[d] = NULL
               /\ d \in Anchored(Filled) => text[d] = Filled[d].cut
    <3>1. Filled[d] = NULL => text[d] = NULL
      BY FilledAt
    <3>2. CASE ledger[d] # NULL /\ ledger[d].status # "none" /\ Filled[d] # NULL /\ Filled[d].cut # NULL
      <4>1. d \in Anchored(ledger) /\ Filled[d] = ledger[d]
        BY <3>2, FilledAt DEF Anchored
      <4>2. cursor # NULL
        BY <4>1 DEF CursorKnown
      <4> QED
        BY <2>4, <3>1, <4>1, <4>2 DEF FilesFollowLedger
    <3>3. CASE ~ (ledger[d] # NULL /\ ledger[d].status # "none") /\ Filled[d] # NULL /\ Filled[d].cut # NULL
      BY <3>1, <3>3, FilledAt
    <3> QED
      BY <3>1, <3>2, <3>3 DEF Anchored
  <2>5. FilesFollowLedger'
    BY <1>2, <2>4 DEF FilesFollowLedger, Anchored
  <2>6. \A d \in Episode : Review(d)' = ReviewOf(Filled[d]) /\ Review(d) = ReviewOf(ledger[d])
    BY <1>2 DEF Review, ReviewOf
  <2>7. \A d \in Episode : ReviewOf(Filled[d]) = IF Filled[d] = NULL THEN NULL ELSE Review(d)
    BY FilledAt DEF ReviewOf
  <2>8. \A d \in Episode : Review(d) # NULL => Filled[d] # NULL
    BY FilledAt DEF Review
  <2> QED
    BY <2>2, <2>3, <2>5, <2>6, <2>7, <2>8
<1> QED
  BY <1>1, <1>2 DEF Requires

LEMMA SaveContentInd ==
    ASSUME LedgerIndInv, NEW e \in Worked, NEW t \in Text, SaveContent(e, t)
    PROVE  LedgerIndInv'
<1> USE DEF LedgerIndInv
<1>1. step1' \in [Episode -> Text \cup {NULL}]
  BY DEF SaveContent, LedgerTypeOK
<1>2. /\ LedgerTypeOK' /\ CursorKnown' /\ FilesFollowLedger'
      /\ \A d \in Episode : Review(d)' = Review(d) \/ Review(d)' = NULL
  BY <1>1, RequiresInd DEF SaveContent
<1>3. seen' = seen /\ call' = call
  BY DEF SaveContent
<1>4. ReviewedSeen'
  BY <1>2, <1>3, LedgerAssumption DEF ReviewedSeen, LedgerAssumption
<1>5. CallsOK'
  BY <1>3 DEF CallsOK
<1> QED
  BY <1>2, <1>3, <1>4, <1>5

LEMMA ConfirmReadsInd ==
    ASSUME LedgerIndInv, NEW c \in Call, NEW e \in Worked, ConfirmReads(c, e)
    PROVE  LedgerIndInv'
<1> USE DEF LedgerIndInv
<1>1. step1' \in [Episode -> Text \cup {NULL}] /\ step1[e] \in Text
  BY LedgerAssumption DEF ConfirmReads, LedgerTypeOK, files, LedgerAssumption
<1>2. /\ LedgerTypeOK' /\ CursorKnown' /\ FilesFollowLedger'
      /\ \A d \in Episode : Review(d)' = Review(d) \/ Review(d)' = NULL
  BY <1>1, RequiresInd DEF ConfirmReads, files
<1>3. seen' = [seen EXCEPT ![e] = @ \cup {step1[e]}]
  BY DEF ConfirmReads
<1>4. /\ seen' \in [Worked -> SUBSET Text]
      /\ \A d \in Worked : seen[d] \subseteq seen'[d]
      /\ step1[e] \in seen'[e]
  BY <1>1, <1>3
<1>5. ReviewedSeen'
  BY <1>2, <1>4, LedgerAssumption DEF ReviewedSeen, LedgerAssumption
<1>6. CallsOK'
  <2> DEFINE r == [Idle EXCEPT !.pc = "confirming", !.ep = e, !.content = step1[e]]
  <2>1. To(c, r)
    BY DEF ConfirmReads
  <2>2. r.pc = "confirming" /\ r.ep = e /\ r.content = step1[e]
    BY DEF Idle
  <2> HIDE DEF r
  <2>3. GoodCall(r, seen')
    BY <1>1, <1>4, <2>2 DEF GoodCall, Pcs
  <2> QED
    BY <1>4, <2>1, <2>3, CallsAfter
<1> QED
  BY <1>2, <1>4, <1>5, <1>6

LEMMA ConfirmReadsUnitsInd ==
    ASSUME LedgerIndInv, NEW c \in Call, NEW e \in Worked, ConfirmReadsUnits(c, e)
    PROVE  LedgerIndInv'
<1> USE DEF LedgerIndInv
<1>1. step1' \in [Episode -> Text \cup {NULL}]
  BY DEF ConfirmReadsUnits, LedgerTypeOK, files
<1>2. /\ LedgerTypeOK' /\ CursorKnown' /\ FilesFollowLedger'
      /\ \A d \in Episode : Review(d)' = Review(d) \/ Review(d)' = NULL
  BY <1>1, RequiresInd DEF ConfirmReadsUnits, files
<1>3. seen' = seen
  BY DEF ConfirmReadsUnits
<1>4. ReviewedSeen'
  BY <1>2, <1>3, LedgerAssumption DEF ReviewedSeen, LedgerAssumption
<1>5. CallsOK'
  <2>1. To(c, [Idle EXCEPT !.pc = "rewriting", !.ep = e])
    BY DEF ConfirmReadsUnits
  <2>2. GoodCall([Idle EXCEPT !.pc = "rewriting", !.ep = e], seen')
    BY DEF GoodCall, Idle, Pcs
  <2> QED
    BY <1>3, <2>1, <2>2, CallsAfter
<1> QED
  BY <1>2, <1>3, <1>4, <1>5

LEMMA ConfirmRewritesInd ==
    ASSUME LedgerIndInv, NEW c \in Call, ConfirmRewrites(c)
    PROVE  LedgerIndInv'
<1> USE DEF LedgerIndInv, ConfirmRewrites, project
<1> DEFINE r == [Idle EXCEPT !.pc = "rewritten", !.ep = call[c].ep]
<1>1. GoodCall(call[c], seen) /\ call[c].pc = "rewriting" /\ To(c, r) /\ seen' = seen
  BY DEF CallsOK
<1>2. LedgerTypeOK'
  BY DEF LedgerTypeOK
<1>3. CursorKnown' /\ FilesFollowLedger'
  BY DEF CursorKnown, FilesFollowLedger, Anchored
<1>4. ReviewedSeen'
  BY DEF ReviewedSeen, Review
<1>5. GoodCall(r, seen')
  BY <1>1 DEF GoodCall, Pcs, Idle
<1>6. CallsOK'
  <2> HIDE DEF r
  <2> QED
    BY <1>1, <1>5, CallsAfter
<1> QED
  BY <1>1, <1>2, <1>3, <1>4, <1>6

LEMMA ConfirmTakesAgainInd ==
    ASSUME LedgerIndInv, NEW c \in Call, ConfirmTakesAgain(c)
    PROVE  LedgerIndInv'
<1> USE DEF LedgerIndInv
<1> DEFINE e == call[c].ep
           r == [Idle EXCEPT !.pc = "confirming", !.ep = e, !.content = step1[e]]
<1>1. /\ e \in Worked /\ e \in Episode /\ To(c, r)
      /\ seen' = [seen EXCEPT ![e] = @ \cup {step1[e]}]
      /\ UNCHANGED <<project, files, torn, crashes>> /\ step1[e] # NULL
  BY LedgerAssumption DEF ConfirmTakesAgain, CallsOK, GoodCall, LedgerAssumption
<1>2. step1[e] \in Text
  BY <1>1 DEF LedgerTypeOK
<1>3. /\ seen' \in [Worked -> SUBSET Text]
      /\ \A d \in Worked : seen[d] \subseteq seen'[d]
      /\ step1[e] \in seen'[e]
  BY <1>1, <1>2
<1>4. LedgerTypeOK' /\ CursorKnown' /\ FilesFollowLedger'
  BY <1>1 DEF LedgerTypeOK, CursorKnown, FilesFollowLedger, Anchored, project, files
<1>5. ReviewedSeen'
  BY <1>1, <1>3 DEF ReviewedSeen, Review, project
<1>6. r.pc = "confirming" /\ r.ep = e /\ r.content = step1[e]
  BY DEF Idle
<1> HIDE DEF r, e
<1>7. GoodCall(r, seen')
  BY <1>1, <1>2, <1>3, <1>6 DEF GoodCall, Pcs
<1>8. CallsOK'
  BY <1>1, <1>3, <1>7, CallsAfter
<1> QED
  BY <1>3, <1>4, <1>5, <1>8

LEMMA ConfirmWritesInd ==
    ASSUME LedgerIndInv, NEW c \in Call, ConfirmWrites(c)
    PROVE  /\ LedgerIndInv'
           /\ \A d \in Episode : d # call[c].ep => ledger'[d] = ledger[d]
           /\ \A d \in Episode : ledger[d] = NULL <=> ledger'[d] = NULL
           /\ \A d \in Episode : ledger[d] # NULL => /\ ledger'[d].cut = ledger[d].cut
                                                     /\ ledger'[d].status = ledger[d].status
<1> USE DEF LedgerIndInv
<1> DEFINE e == call[c].ep
           t == call[c].content
<1>1. /\ call[c].pc = "confirming"
      /\ e \in Worked /\ e \in Episode /\ t \in Text /\ t \in seen[e]
      /\ ledger' = IF ledger[e] = NULL THEN ledger ELSE [ledger EXCEPT ![e].review = t]
      /\ Ends(c)
      /\ UNCHANGED <<cursor, files, torn, seen, crashes>>
  BY LedgerAssumption DEF ConfirmWrites, CallsOK, GoodCall, LedgerAssumption
<1> HIDE DEF e, t
<1>2. \A d \in Episode : ledger[d] \in Entry \cup {NULL}
  BY DEF LedgerTypeOK
<1>3. ASSUME NEW d \in Episode
      PROVE  /\ ledger'[d] \in Entry \cup {NULL}
             /\ d # e => ledger'[d] = ledger[d]
             /\ ledger[d] = NULL <=> ledger'[d] = NULL
             /\ ledger[d] # NULL => /\ ledger'[d].cut = ledger[d].cut
                                    /\ ledger'[d].status = ledger[d].status
             /\ ledger[d] # NULL /\ d = e => ledger'[d].review = t
  <2>1. CASE ledger[e] = NULL \/ d # e
    BY <1>1, <1>2, <2>1 DEF LedgerTypeOK
  <2>2. CASE ledger[e] # NULL /\ d = e
    <3> DEFINE n == [ledger[e] EXCEPT !.review = t]
    <3>1. ledger'[d] = n
      BY <1>1, <2>2 DEF LedgerTypeOK
    <3>2. ledger[e] \in Entry
      BY <1>1, <1>2, <2>2
    <3>3. n \in Entry /\ n.cut = ledger[e].cut /\ n.status = ledger[e].status /\ n.review = t
      BY <1>1, <3>2 DEF Entry
    <3> HIDE DEF n
    <3> QED
      BY <2>2, <3>1, <3>3, NotNull
  <2> QED
    BY <2>1, <2>2
<1>4. DOMAIN ledger' = Episode /\ ledger' = [d \in Episode |-> ledger'[d]]
  BY <1>1 DEF LedgerTypeOK
<1>5. ledger' \in [Episode -> Entry \cup {NULL}]
  BY <1>3, <1>4
<1>6. LedgerTypeOK'
  BY <1>1, <1>5 DEF LedgerTypeOK, files
<1>7. \A d \in Episode : d \in Anchored(ledger') <=> d \in Anchored(ledger)
  BY <1>3 DEF Anchored
<1>8. CursorKnown'
  <2>1. Anchored(ledger') = Anchored(ledger)
    BY <1>7 DEF Anchored
  <2> QED
    BY <1>1, <2>1 DEF CursorKnown, Anchored
<1>9. FilesFollowLedger'
  <2> SUFFICES ASSUME cursor' # NULL, ~ torn'.open, NEW d \in Episode
               PROVE  /\ ledger'[d] = NULL => text'[d] = NULL
                      /\ d \in Anchored(ledger') => text'[d] = ledger'[d].cut
    BY DEF FilesFollowLedger, Anchored
  <2>1. /\ ledger[d] = NULL => text[d] = NULL
        /\ d \in Anchored(ledger) => text[d] = ledger[d].cut /\ ledger[d] # NULL
    BY <1>1 DEF FilesFollowLedger, Anchored
  <2> QED
    BY <1>1, <1>3, <1>7, <2>1 DEF files
<1>10. ReviewedSeen'
  <2> SUFFICES ASSUME NEW d \in Worked, Review(d)' # NULL
               PROVE  Review(d)' \in seen'[d]
    BY DEF ReviewedSeen
  <2>1. d \in Episode
    BY LedgerAssumption DEF LedgerAssumption
  <2>2. ledger'[d] # NULL /\ Review(d)' = ledger'[d].review
    BY DEF Review
  <2>3. CASE d = e
    BY <1>1, <1>3, <2>1, <2>2, <2>3
  <2>4. CASE d # e
    BY <1>1, <1>3, <2>1, <2>2, <2>4 DEF ReviewedSeen, Review
  <2> QED
    BY <2>3, <2>4
<1>11. CallsOK'
  BY <1>1, CallsEnd
<1> QED
  BY <1>1, <1>3, <1>6, <1>8, <1>9, <1>10, <1>11 DEF e

LEMMA SavesScriptInd ==
    ASSUME LedgerIndInv, NEW c \in Call, SavesScript(c)
    PROVE  /\ LedgerIndInv'
           /\ \A d \in Episode :
                \/ ledger'[d] = ledger[d]
                \/ /\ ledger[d] = NULL
                   /\ ledger'[d] = [cut |-> NULL, status |-> "none", review |-> NULL]
<1> USE DEF LedgerIndInv
<1> DEFINE e == call[c].ep
           n == [cut |-> NULL, status |-> "none", review |-> NULL]
<1>1. /\ call[c].pc \in {"gated", "ungated"} /\ e \in Worked /\ e \in Episode
      /\ scripts' = scripts \cup {e}
      /\ ledger' = IF ledger[e] # NULL THEN ledger ELSE [ledger EXCEPT ![e] = n]
      /\ Ends(c)
      /\ UNCHANGED <<cursor, text, step1, torn, seen, crashes>>
  BY LedgerAssumption DEF SavesScript, CallsOK, GoodCall, LedgerAssumption
<1>2. n \in Entry /\ n.cut = NULL /\ n.review = NULL /\ n # NULL
  <2>1. n \in Entry
    BY DEF Entry, Status
  <2> QED
    BY <2>1, NotNull
<1>3. \A d \in Episode : ledger'[d] = ledger[d] \/ (ledger[d] = NULL /\ ledger'[d] = n)
  <2> HIDE DEF e, n
  <2> QED
    BY <1>1 DEF LedgerTypeOK
<1> HIDE DEF e, n
<1>4. LedgerTypeOK'
  BY <1>1, <1>2 DEF LedgerTypeOK
<1>5. Anchored(ledger') = Anchored(ledger)
  BY <1>2, <1>3 DEF Anchored
<1>6. CursorKnown'
  BY <1>1, <1>5 DEF CursorKnown, Anchored
<1>7. FilesFollowLedger'
  <2> SUFFICES ASSUME cursor' # NULL, ~ torn'.open, NEW d \in Episode
               PROVE  /\ ledger'[d] = NULL => text'[d] = NULL
                      /\ d \in Anchored(ledger') => text'[d] = ledger'[d].cut
    BY DEF FilesFollowLedger, Anchored
  <2>1. /\ ledger[d] = NULL => text[d] = NULL
        /\ d \in Anchored(ledger) => text[d] = ledger[d].cut /\ ledger[d] # NULL
    BY <1>1 DEF FilesFollowLedger, Anchored
  <2> QED
    BY <1>1, <1>2, <1>3, <1>5, <2>1
<1>8. ReviewedSeen'
  <2> SUFFICES ASSUME NEW d \in Worked, Review(d)' # NULL
               PROVE  Review(d)' \in seen'[d]
    BY DEF ReviewedSeen
  <2>1. d \in Episode
    BY LedgerAssumption DEF LedgerAssumption
  <2>2. Review(d)' = Review(d)
    BY <1>2, <1>3, <2>1 DEF Review
  <2> QED
    BY <1>1, <2>2 DEF ReviewedSeen
<1>9. CallsOK'
  BY <1>1, CallsEnd
<1> QED
  BY <1>1, <1>3, <1>4, <1>6, <1>7, <1>8, <1>9 DEF n

-----------------------------------------------------------------------------
(* Commits and broken commits *)

LEMMA CommitInd ==
    ASSUME LedgerIndInv, NEW L, Settled(L), NEW cur \in Place, Commit(L, cur), CallsOK',
           \A e \in Worked : ReviewOf(L[e]) \in {NULL, Review(e)}
    PROVE  LedgerIndInv'
<1> USE DEF LedgerIndInv, Commit
<1>1. L \in [Episode -> Entry \cup {NULL}] /\ cur # NULL
  BY NotNull DEF Settled, Ledgers
<1>2. \A e \in Episode : /\ FilesOf(L)[e] \in Cut \cup {Foreign, NULL}
                         /\ L[e] = NULL => FilesOf(L)[e] = NULL
                         /\ e \in Anchored(L) => FilesOf(L)[e] = L[e].cut
  BY <1>1 DEF FilesOf, Anchored, LedgerTypeOK, Entry
<1>3. FilesOf(L) \in [Episode -> Cut \cup {Foreign, NULL}]
  BY <1>2 DEF FilesOf
<1>4. LedgerTypeOK'
  BY <1>1, <1>3 DEF LedgerTypeOK
<1>5. CursorKnown' /\ FilesFollowLedger'
  BY <1>1, <1>2 DEF CursorKnown, FilesFollowLedger, Anchored
<1>6. ReviewedSeen'
  <2> SUFFICES ASSUME NEW e \in Worked, Review(e)' # NULL
               PROVE  Review(e)' \in seen'[e]
    BY DEF ReviewedSeen
  <2>1. Review(e)' = ReviewOf(L[e])
    BY DEF Review, ReviewOf
  <2> QED
    BY <2>1 DEF ReviewedSeen
<1> QED
  BY <1>4, <1>5, <1>6

LEMMA PlanCommitsInd ==
    ASSUME LedgerIndInv, NEW c \in Call, PlanCommits(c)
    PROVE  /\ LedgerIndInv'
           /\ \A e \in Episode : Filled[e] # NULL => ledger'[e] = Filled[e]
<1> USE DEF LedgerIndInv
<1>1. PICK cuts \in PlanDrafts(PlanFrom(call[c].start)) :
         /\ Commit(Appended(cuts), [file |-> Last(cuts).file, at |-> Last(cuts).end])
         /\ To(c, IF PlanDone(cuts) THEN [Idle EXCEPT !.pc = "exhausted"] ELSE Idle)
  BY DEF PlanCommits
<1>2. cuts \in Drafts
  BY PlanDraftsForm
<1>3. /\ Settled(Appended(cuts))
      /\ \A e \in Episode : Filled[e] # NULL => Appended(cuts)[e] = Filled[e]
      /\ \A e \in Episode : Filled[e] = NULL => ReviewOf(Appended(cuts)[e]) = NULL
  BY <1>2, AppendedForm
<1>4. [file |-> Last(cuts).file, at |-> Last(cuts).end] \in Place
  BY <1>2, DraftEnd
<1>5. \A e \in Worked : ReviewOf(Appended(cuts)[e]) \in {NULL, Review(e)}
  BY <1>3, FilledAt, LedgerAssumption DEF ReviewOf, LedgerAssumption
<1>6. seen' = seen /\ ledger' = Appended(cuts)
  BY <1>1 DEF Commit
<1>7. CallsOK'
  <2> DEFINE r == IF PlanDone(cuts) THEN [Idle EXCEPT !.pc = "exhausted"] ELSE Idle
  <2>1. GoodCall(r, seen')
    BY DEF GoodCall, Idle, Pcs
  <2>2. To(c, r)
    BY <1>1
  <2> HIDE DEF r
  <2> QED
    BY <1>6, <2>1, <2>2, CallsAfter
<1>8. LedgerIndInv'
  BY <1>1, <1>3, <1>4, <1>5, <1>7, CommitInd
<1> QED
  BY <1>3, <1>6, <1>8

\* A commit that leaves files behind says so.
LEMMA CommitOverInd ==
    ASSUME LedgerIndInv, NEW L, Settled(L), NEW cur \in Place, CommitOver(L, cur), CallsOK',
           \A e \in Worked : ReviewOf(L[e]) \in {NULL, Review(e)}
    PROVE  LedgerIndInv'
<1> USE DEF LedgerIndInv, CommitOver
<1>1. L \in [Episode -> Entry \cup {NULL}] /\ cur # NULL
  BY NotNull DEF Settled, Ledgers
<1>2. \A e \in Episode : FilesOf(L)[e] \in Cut \cup {Foreign, NULL}
  BY <1>1 DEF FilesOf, LedgerTypeOK, Entry
<1>3. text' \in [Episode -> Cut \cup {Foreign, NULL}]
  BY <1>2 DEF LedgerTypeOK
<1>4. LedgerTypeOK'
  BY <1>1, <1>3 DEF LedgerTypeOK
<1>5. CursorKnown' /\ FilesFollowLedger'
  BY <1>1 DEF CursorKnown, FilesFollowLedger, Anchored
<1>6. ReviewedSeen'
  <2> SUFFICES ASSUME NEW e \in Worked, Review(e)' # NULL
               PROVE  Review(e)' \in seen'[e]
    BY DEF ReviewedSeen
  <2>1. Review(e)' = ReviewOf(L[e])
    BY DEF Review, ReviewOf
  <2> QED
    BY <2>1 DEF ReviewedSeen
<1> QED
  BY <1>4, <1>5, <1>6

\* A replan goes through, perhaps leaving files behind.
Replans(c) == ReplanCommits(c) \/ ReplanLeavesFiles(c)

LEMMA ReplanCommitsInd ==
    ASSUME LedgerIndInv, NEW c \in Call, Replans(c)
    PROVE  /\ LedgerIndInv'
           /\ call[c].pc = "replanning" /\ SameScope(c) /\ Ends(c)
           /\ call[c].ep \in Episode
           /\ \A e \in Episode : e < call[c].ep => ledger'[e] = Filled[e]
           /\ \A e \in Episode : e >= call[c].ep /\ ledger'[e] # NULL
                                => ledger'[e].status = NewStatus[e]
<1> USE DEF LedgerIndInv
<1> DEFINE from == call[c].ep
<1>1. PICK cuts \in ReplanDrafts(call[c].scope) :
           \/ Commit(Recut(from, cuts), FilledCursor)
           \/ CommitOver(Recut(from, cuts), FilledCursor)
  BY DEF Replans, ReplanCommits, ReplanLeavesFiles
<1>2. call[c].pc = "replanning" /\ SameScope(c) /\ Ends(c)
  BY DEF Replans, ReplanCommits, ReplanLeavesFiles
<1>3. from \in Episode
  BY <1>2 DEF CallsOK, GoodCall
<1>4. FilledCursor \in Place
  <2>1. from \in Anchored(Filled)
    BY <1>2, <1>3 DEF SameScope, Replannable
  <2> QED
    BY <2>1, FilledCursorForm
<1>5. cuts \in Drafts
  BY ReplanDraftsForm
<1> HIDE DEF from
<1>6. /\ Settled(Recut(from, cuts))
      /\ \A e \in Episode : e < from => Recut(from, cuts)[e] = Filled[e]
      /\ \A e \in Episode : e >= from => ReviewOf(Recut(from, cuts)[e]) = NULL
      /\ \A e \in Episode : e >= from /\ Recut(from, cuts)[e] # NULL
                          => Recut(from, cuts)[e].status = NewStatus[e]
  BY <1>3, <1>5, RecutForm
<1>7. \A e \in Worked : ReviewOf(Recut(from, cuts)[e]) \in {NULL, Review(e)}
  <2> TAKE e \in Worked
  <2>1. e \in Episode /\ (e < from \/ e >= from)
    BY <1>3, LedgerAssumption DEF LedgerAssumption, Episode
  <2>2. Filled[e] # NULL => ReviewOf(Filled[e]) = Review(e)
    BY <2>1, FilledAt DEF ReviewOf
  <2> QED
    BY <1>6, <2>1, <2>2 DEF ReviewOf
<1>8. seen' = seen /\ ledger' = Recut(from, cuts)
  BY <1>1 DEF Commit, CommitOver
<1>9. CallsOK'
  BY <1>2, <1>8, CallsEnd
<1>10. LedgerIndInv'
  BY <1>1, <1>4, <1>6, <1>7, <1>9, CommitInd, CommitOverInd
<1> QED
  BY <1>2, <1>3, <1>6, <1>8, <1>10 DEF from

\* What a broken commit leaves in the files is a text of the source or none.
LEMMA TornFilesForm ==
    ASSUME LedgerTypeOK, NEW L, Settled(L), NEW left \in TornFiles(L)
    PROVE  left \in [Episode -> Cut \cup {Foreign, NULL}]
<1> DEFINE Texts == [Episode -> Cut \cup {Foreign, NULL}]
           short(k) == {Foreign} \cup {[k EXCEPT !.end = n] : n \in k.start + 1..k.end - 1}
<1>1. \A e \in Episode : FilesOf(L)[e] \in Cut \cup {Foreign, NULL}
  BY DEF FilesOf, LedgerTypeOK, Entry, Settled, Ledgers
<1>2. ASSUME NEW k, NEW d
      PROVE  Written(L, k, d) \in Texts
  BY <1>1 DEF Written, LedgerTypeOK
<1>3. ASSUME NEW k \in Cut, NEW t \in short(k)
      PROVE  t \in Cut \cup {Foreign, NULL}
  <2>1. CASE t = Foreign
    BY <2>1
  <2>2. ASSUME NEW n \in k.start + 1..k.end - 1, t = [k EXCEPT !.end = n]
        PROVE  t \in Cut
    <3>1. /\ k \in [file : File, start : Offset, end : Offset]
          /\ k.start \in Nat /\ k.end \in Nat /\ k.start < k.end /\ k.end <= Size[k.file]
          /\ Size[k.file] \in Nat
      BY CutForm
    <3>2. n \in 0..Size[k.file] /\ k.start < n /\ n <= Size[k.file]
      BY <3>1
    <3>3. n \in Offset
      BY <3>1, <3>2, OffsetForm
    <3>4. /\ t \in [file : File, start : Offset, end : Offset]
          /\ t.file = k.file /\ t.start = k.start /\ t.end = n
      BY <2>2, <3>1, <3>3
    <3> QED
      BY <3>2, <3>4 DEF Cut
  <2> QED
    BY <2>1, <2>2
<1> HIDE DEF short
<1>4. \/ \E k \in 0..MaxEpisode : left = Written(L, k, 0)
      \/ \E d \in Episode : left = Written(L, MaxEpisode, d)
      \/ \E e \in Anchored(L) : \E t \in short(L[e].cut) :
            left = [Written(L, e - 1, 0) EXCEPT ![e] = t]
  BY DEF TornFiles, short
<1>5. ASSUME NEW e \in Anchored(L), NEW t \in short(L[e].cut),
             left = [Written(L, e - 1, 0) EXCEPT ![e] = t]
      PROVE  left \in Texts
  <2>1. L[e].cut \in Cut
    BY AnchoredCut DEF Settled
  <2>2. t \in Cut \cup {Foreign, NULL}
    BY <1>3, <2>1
  <2> HIDE DEF Texts
  <2>3. Written(L, e - 1, 0) \in Texts
    BY <1>2
  <2> QED
    BY <1>5, <2>2, <2>3 DEF Texts
<1> QED
  BY <1>2, <1>4, <1>5

\* A process that dies leaves project.json as it was.
LEMMA RestartInd ==
    ASSUME LedgerIndInv, Restart, text' \in [Episode -> Cut \cup {Foreign, NULL}],
           torn' \in [open : BOOLEAN, lost : BOOLEAN], torn'.open \/ UNCHANGED <<text, torn>>
    PROVE  LedgerIndInv' /\ crashes' # crashes
<1> USE DEF LedgerIndInv, Restart, project
<1>1. crashes' \in 0..MaxCrashes /\ crashes' # crashes
  BY LedgerAssumption DEF LedgerTypeOK, LedgerAssumption
<1>2. LedgerTypeOK'
  BY <1>1 DEF LedgerTypeOK
<1>3. CursorKnown' /\ FilesFollowLedger'
  BY DEF CursorKnown, FilesFollowLedger, Anchored
<1>4. ReviewedSeen'
  BY DEF ReviewedSeen, Review
<1>5. CallsOK'
  <2>1. \A c \in Call : call'[c] = Idle
    OBVIOUS
  <2>2. \A c \in Call : GoodCall(call'[c], seen')
    BY <2>1, IdleGood
  <2>3. DOMAIN call' = Call /\ call' = [c \in Call |-> call'[c]]
    OBVIOUS
  <2> QED
    BY <2>2, <2>3 DEF CallsOK
<1> QED
  BY <1>1, <1>2, <1>3, <1>4, <1>5

LEMMA BreaksInd ==
    ASSUME LedgerIndInv, Restart, NEW L, Settled(L), NEW replan \in BOOLEAN, Breaks(L, replan)
    PROVE  LedgerIndInv' /\ crashes' # crashes
<1>1. text' \in [Episode -> Cut \cup {Foreign, NULL}]
  BY TornFilesForm DEF Breaks, LedgerIndInv
<1>2. torn' \in [open : BOOLEAN, lost : BOOLEAN] /\ torn'.open
  <2>1. (torn.lost \/ replan \/ CutsShort) \in BOOLEAN
    BY DEF LedgerIndInv, LedgerTypeOK, CutsShort
  <2> QED
    BY <2>1 DEF Breaks
<1> QED
  BY <1>1, <1>2, RestartInd

LEMMA CrashInd ==
    ASSUME LedgerIndInv, NEW c \in Call, Crash \/ PlanBreaks(c) \/ ReplanBreaks(c)
    PROVE  LedgerIndInv' /\ crashes' # crashes
<1>1. CASE Crash
  BY <1>1, RestartInd DEF Crash, LedgerIndInv, LedgerTypeOK
<1>2. CASE PlanBreaks(c)
  <2>1. PICK cuts \in PlanDrafts(PlanFrom(call[c].start)) : Breaks(Appended(cuts), FALSE)
    BY <1>2 DEF PlanBreaks
  <2>2. Settled(Appended(cuts))
    BY PlanDraftsForm, AppendedForm DEF LedgerIndInv
  <2>3. Restart
    BY <1>2 DEF PlanBreaks
  <2> QED
    BY <2>1, <2>2, <2>3, BreaksInd
<1>3. CASE ReplanBreaks(c)
  <2>1. PICK cuts \in ReplanDrafts(call[c].scope) : Breaks(Recut(call[c].ep, cuts), TRUE)
    BY <1>3 DEF ReplanBreaks
  <2>2. Restart /\ call[c].ep \in Episode
    BY <1>3 DEF ReplanBreaks, LedgerIndInv, CallsOK, GoodCall
  <2>3. Settled(Recut(call[c].ep, cuts))
    BY <2>2, ReplanDraftsForm, RecutForm DEF LedgerIndInv
  <2> QED
    BY <2>1, <2>2, <2>3, BreaksInd
<1> QED
  BY <1>1, <1>2, <1>3

LEMMA LedgerStep ==
    ASSUME LedgerIndInv, [Next]_vars
    PROVE  LedgerIndInv'
<1>1. CASE UNCHANGED vars
  BY <1>1 DEF vars, project, files, LedgerIndInv, LedgerTypeOK, CallsOK, CursorKnown,
              FilesFollowLedger, Anchored, ReviewedSeen, Review
<1>2. ASSUME NEW c \in Call,
             \/ PlanReads(c) \/ PlanCommits(c) \/ PlanBreaks(c) \/ PlanConflicts(c)
             \/ PlanAnswers(c) \/ Replans(c) \/ ReplanBreaks(c) \/ ReplanConflicts(c)
             \/ SplitWrites(c) \/ ConfirmRewrites(c) \/ ConfirmTakesAgain(c)
             \/ ConfirmWrites(c) \/ SavesScript(c) \/ Fails(c)
      PROVE  LedgerIndInv'
  BY <1>2, PlanReadsInd, PlanCommitsInd, CrashInd, FailsInd, ReplanCommitsInd, SplitWritesInd,
     ConfirmRewritesInd, ConfirmTakesAgainInd, ConfirmWritesInd, SavesScriptInd
<1>3. ASSUME NEW c \in Call, NEW from \in Episode, NEW consent \in BOOLEAN,
             ReplanReads(c, from, consent)
      PROVE  LedgerIndInv'
  BY <1>3, ReplanReadsInd
<1>4. ASSUME NEW c \in Call, NEW e \in Worked,
             \/ SplitReads(c, e) \/ ConfirmReads(c, e) \/ ConfirmReadsUnits(c, e)
             \/ PassesGate(c, e) \/ PassesBlindly(c, e)
      PROVE  LedgerIndInv'
  BY <1>4, SplitReadsInd, ConfirmReadsInd, ConfirmReadsUnitsInd, PassesGateInd
<1>5. ASSUME NEW e \in Worked, NEW t \in Text, SaveContent(e, t)
      PROVE  LedgerIndInv'
  BY <1>5, SaveContentInd
<1>6. CASE Crash
  BY <1>6, RestartInd DEF Crash, LedgerIndInv, LedgerTypeOK
<1> QED
  BY <1>1, <1>2, <1>3, <1>4, <1>5, <1>6 DEF Next, Replans

-----------------------------------------------------------------------------
(* What a step does to the cuts and to the confirmations *)

\* What a reader finds of an entry does not depend on who else is served: it
\* has the same cut after a step that leaves its file and its entry alone,
\* gives it the entry of a script, or writes down what was found.
LEMMA CutStays ==
    ASSUME LedgerIndInv, LedgerIndInv', NEW e \in Episode, Filled[e] # NULL,
           \/ /\ text'[e] = text[e]
              /\ \/ /\ ledger[e] = NULL <=> ledger'[e] = NULL
                    /\ ledger[e] # NULL => /\ ledger'[e].cut = ledger[e].cut
                                           /\ ledger'[e].status = ledger[e].status
                 \/ /\ ledger[e] = NULL
                    /\ ledger'[e] = [cut |-> NULL, status |-> "none", review |-> NULL]
           \/ ledger'[e] = Filled[e]
    PROVE  Filled'[e] # NULL /\ Filled'[e].cut = Filled[e].cut
<1> DEFINE was == Backfilled(ledger[e], text[e], HasDownstream(e))
           is == Backfilled(ledger'[e], text'[e], HasDownstream(e)')
<1>1. /\ ledger[e] \in Entry \cup {NULL} /\ text[e] \in Cut \cup {Foreign, NULL}
      /\ ledger'[e] \in Entry \cup {NULL} /\ text'[e] \in Cut \cup {Foreign, NULL}
  BY DEF LedgerIndInv, LedgerTypeOK
<1>2. Filled[e] = was /\ Filled'[e] = is
  BY FilledIs, FilledIsNext
<1>3. /\ was = NULL <=> ledger[e] = NULL /\ text[e] = NULL
      /\ was # NULL => was.status # "none"
      /\ ledger[e] # NULL /\ ledger[e].status # "none" => was = ledger[e]
      /\ (ledger[e] # NULL /\ ledger[e].status = "none") \/ (ledger[e] = NULL /\ text[e] # NULL)
           => was.cut = IF text[e] \in Cut THEN text[e] ELSE NULL
  BY <1>1, FilledIs, BackfilledForm
<1>4. /\ is = NULL <=> ledger'[e] = NULL /\ text'[e] = NULL
      /\ ledger'[e] # NULL /\ ledger'[e].status # "none" => is = ledger'[e]
      /\ (ledger'[e] # NULL /\ ledger'[e].status = "none") \/ (ledger'[e] = NULL /\ text'[e] # NULL)
           => is.cut = IF text'[e] \in Cut THEN text'[e] ELSE NULL
  BY <1>1, FilledIsNext, BackfilledForm
<1> HIDE DEF was, is
<1>5. CASE ledger'[e] = Filled[e]
  BY <1>2, <1>3, <1>4, <1>5
<1>6. CASE /\ text'[e] = text[e]
           /\ ledger[e] = NULL <=> ledger'[e] = NULL
           /\ ledger[e] # NULL => /\ ledger'[e].cut = ledger[e].cut
                                  /\ ledger'[e].status = ledger[e].status
  BY <1>2, <1>3, <1>4, <1>6
<1>7. CASE /\ text'[e] = text[e] /\ ledger[e] = NULL
           /\ ledger'[e] = [cut |-> NULL, status |-> "none", review |-> NULL]
  <2>1. ledger'[e] # NULL /\ ledger'[e].status = "none"
    <3>1. [cut |-> NULL, status |-> "none", review |-> NULL] \in Entry
      BY DEF Entry, Status
    <3> QED
      BY <1>7, <3>1, NotNull
  <2> QED
    BY <1>2, <1>3, <1>4, <1>7, <2>1
<1> QED
  BY <1>5, <1>6, <1>7

\* Of each entry: either it has the cut it had, or the process has died, or a
\* replan has gone through whose scope it is in.
LEMMA StepOnCut ==
    ASSUME LedgerIndInv, [Next]_vars, NEW e \in Episode, Filled[e] # NULL
    PROVE  \/ Filled'[e] # NULL /\ Filled'[e].cut = Filled[e].cut
           \/ crashes' # crashes
           \/ \E c \in Call : Replans(c) /\ call[c].ep <= e
<1>1. LedgerIndInv'
  BY LedgerStep
<1>2. CASE UNCHANGED <<ledger, text>>
  BY <1>1, <1>2, CutStays
<1>3. CASE UNCHANGED vars
  BY <1>2, <1>3 DEF vars, project, files
<1>4. ASSUME NEW c \in Call,
             \/ PlanReads(c) \/ PlanConflicts(c) \/ PlanAnswers(c) \/ ReplanConflicts(c)
             \/ SplitWrites(c) \/ ConfirmRewrites(c) \/ ConfirmTakesAgain(c) \/ Fails(c)
      PROVE  UNCHANGED <<ledger, text>>
  BY <1>4 DEF PlanReads, PlanConflicts, PlanAnswers, ReplanConflicts, SplitWrites,
              ConfirmRewrites, ConfirmTakesAgain, Fails, Quiet, project, files
<1>5. ASSUME NEW c \in Call, PlanCommits(c)
      PROVE  Filled'[e] # NULL /\ Filled'[e].cut = Filled[e].cut
  BY <1>1, <1>5, PlanCommitsInd, CutStays
<1>6. ASSUME NEW c \in Call, PlanBreaks(c) \/ ReplanBreaks(c)
      PROVE  crashes' # crashes
  BY <1>6, CrashInd
<1>7. ASSUME NEW c \in Call, Replans(c), ~ (call[c].ep <= e)
      PROVE  Filled'[e] # NULL /\ Filled'[e].cut = Filled[e].cut
  <2>1. call[c].ep \in Episode /\ e < call[c].ep
    BY <1>7, ReplanCommitsInd DEF Episode
  <2> QED
    BY <1>1, <1>7, <2>1, ReplanCommitsInd, CutStays
<1>8. ASSUME NEW c \in Call, ConfirmWrites(c)
      PROVE  Filled'[e] # NULL /\ Filled'[e].cut = Filled[e].cut
  <2>1. text' = text
    BY <1>8 DEF ConfirmWrites, files
  <2> QED
    BY <1>1, <1>8, <2>1, ConfirmWritesInd, CutStays
<1>9. ASSUME NEW c \in Call, SavesScript(c)
      PROVE  Filled'[e] # NULL /\ Filled'[e].cut = Filled[e].cut
  <2>1. text' = text
    BY <1>9 DEF SavesScript
  <2> QED
    BY <1>1, <1>9, <2>1, SavesScriptInd, CutStays
<1>10. ASSUME NEW c \in Call, NEW from \in Episode, NEW consent \in BOOLEAN,
              ReplanReads(c, from, consent)
       PROVE  UNCHANGED <<ledger, text>>
  BY <1>10 DEF ReplanReads, Quiet, project, files
<1>11. ASSUME NEW c \in Call, NEW d \in Worked,
              SplitReads(c, d) \/ PassesGate(c, d) \/ PassesBlindly(c, d)
       PROVE  UNCHANGED <<ledger, text>>
  BY <1>11 DEF SplitReads, PassesGate, PassesBlindly, Quiet, project, files
<1>12. ASSUME NEW d \in Worked, Requires(d), text' = text
       PROVE  Filled'[e] # NULL /\ Filled'[e].cut = Filled[e].cut
  <2>1. ledger' = ledger \/ ledger' = Filled
    BY <1>12 DEF Requires, project
  <2> QED
    BY <1>1, <1>12, <2>1, CutStays
<1>13. ASSUME NEW d \in Worked, NEW t \in Text, SaveContent(d, t)
       PROVE  Filled'[e] # NULL /\ Filled'[e].cut = Filled[e].cut
  BY <1>12, <1>13 DEF SaveContent
<1>14. ASSUME NEW c \in Call, NEW d \in Worked, ConfirmReads(c, d) \/ ConfirmReadsUnits(c, d)
       PROVE  Filled'[e] # NULL /\ Filled'[e].cut = Filled[e].cut
  BY <1>12, <1>14 DEF ConfirmReads, ConfirmReadsUnits, files
<1>15. CASE Crash
  <2>1. UNCHANGED <<ledger, text>>
    BY <1>15 DEF Crash, Restart, project
  <2> QED
    BY <1>2, <2>1
<1> QED
  BY <1>2, <1>3, <1>4, <1>5, <1>6, <1>7, <1>8, <1>9, <1>10, <1>11, <1>13, <1>14, <1>15
     DEF Next, Replans

\* Of each confirmation: either it stays, or a replan has gone through whose
\* scope its episode is in, or another one of the episode was written.
LEMMA StepOnReview ==
    ASSUME LedgerIndInv, [Next]_vars, NEW e \in Worked, Review(e) # NULL
    PROVE  \/ Review(e)' = Review(e)
           \/ \E c \in Call : Replans(c) /\ call[c].ep <= e
           \/ \E c \in Call : ConfirmWrites(c) /\ call[c].ep = e
<1>1. e \in Episode /\ ledger[e] # NULL
  BY LedgerAssumption DEF LedgerAssumption, Review
<1>2. Filled[e] # NULL /\ ReviewOf(Filled[e]) = Review(e)
  BY <1>1, FilledAt DEF LedgerIndInv, ReviewOf
<1>3. /\ ledger'[e] = ledger[e] => Review(e)' = Review(e)
      /\ ledger'[e] = Filled[e] => Review(e)' = Review(e)
  BY <1>2 DEF Review, ReviewOf
<1>4. CASE UNCHANGED ledger
  BY <1>3, <1>4
<1>5. CASE UNCHANGED vars
  BY <1>4, <1>5 DEF vars, project
<1>6. ASSUME NEW c \in Call,
             \/ PlanReads(c) \/ PlanConflicts(c) \/ PlanAnswers(c) \/ ReplanConflicts(c)
             \/ SplitWrites(c) \/ ConfirmRewrites(c) \/ ConfirmTakesAgain(c) \/ Fails(c)
      PROVE  UNCHANGED ledger
  BY <1>6 DEF PlanReads, PlanConflicts, PlanAnswers, ReplanConflicts, SplitWrites,
              ConfirmRewrites, ConfirmTakesAgain, Fails, Quiet, project
<1>7. ASSUME NEW c \in Call, PlanCommits(c)
      PROVE  ledger'[e] = Filled[e]
  BY <1>1, <1>2, <1>7, PlanCommitsInd
<1>8. ASSUME NEW c \in Call, PlanBreaks(c) \/ ReplanBreaks(c)
      PROVE  UNCHANGED ledger
  BY <1>8 DEF PlanBreaks, ReplanBreaks, Restart, project
<1>9. ASSUME NEW c \in Call, Replans(c), ~ (call[c].ep <= e)
      PROVE  ledger'[e] = Filled[e]
  <2>1. call[c].ep \in Episode /\ e < call[c].ep
    BY <1>1, <1>9, ReplanCommitsInd DEF Episode
  <2> QED
    BY <1>1, <1>9, <2>1, ReplanCommitsInd
<1>10. ASSUME NEW c \in Call, ConfirmWrites(c), call[c].ep # e
       PROVE  ledger'[e] = ledger[e]
  BY <1>1, <1>10, ConfirmWritesInd
<1>11. ASSUME NEW c \in Call, SavesScript(c)
       PROVE  ledger'[e] = ledger[e]
  BY <1>1, <1>11, SavesScriptInd
<1>12. ASSUME NEW c \in Call, NEW from \in Episode, NEW consent \in BOOLEAN,
              ReplanReads(c, from, consent)
       PROVE  UNCHANGED ledger
  BY <1>12 DEF ReplanReads, Quiet, project
<1>13. ASSUME NEW c \in Call, NEW d \in Worked,
              SplitReads(c, d) \/ PassesGate(c, d) \/ PassesBlindly(c, d)
       PROVE  UNCHANGED ledger
  BY <1>13 DEF SplitReads, PassesGate, PassesBlindly, Quiet, project
<1>14. ASSUME NEW c \in Call, NEW d \in Worked, ConfirmReads(c, d) \/ ConfirmReadsUnits(c, d)
       PROVE  ledger'[e] = ledger[e] \/ ledger'[e] = Filled[e]
  BY <1>14 DEF ConfirmReads, ConfirmReadsUnits, Requires, project
<1>15. ASSUME NEW d \in Worked, NEW t \in Text, SaveContent(d, t)
       PROVE  ledger'[e] = ledger[e] \/ ledger'[e] = Filled[e]
  BY <1>15 DEF SaveContent, Requires, project
<1>16. CASE Crash
  BY <1>4, <1>16 DEF Crash, Restart, project
<1> QED
  BY <1>3, <1>4, <1>5, <1>6, <1>7, <1>8, <1>9, <1>10, <1>11, <1>12, <1>13, <1>14, <1>15, <1>16
     DEF Next, Replans

\* A call that has passed the gate was idle before only if it passes it now.
LEMMA StepToGate ==
    ASSUME LedgerIndInv, [Next]_vars, NEW c \in Call,
           call[c].pc = "idle", call'[c].pc = "gated"
    PROVE  \E e \in Worked : PassesGate(c, e)
<1> USE DEF LedgerIndInv, CallsOK, To, Ends, Idle
<1>1. ASSUME NEW d \in Call, NEW r, To(d, r), r.pc # "gated"
      PROVE  FALSE
  BY <1>1
<1>2. ~ UNCHANGED call
  OBVIOUS
<1>3. ASSUME NEW d \in Call,
             \/ PlanConflicts(d) \/ PlanAnswers(d) \/ Replans(d) \/ ReplanConflicts(d)
             \/ SplitWrites(d) \/ ConfirmWrites(d) \/ SavesScript(d) \/ Fails(d)
      PROVE  FALSE
  <2>1. To(d, Idle) /\ Idle.pc # "gated"
    BY <1>3 DEF PlanConflicts, PlanAnswers, Replans, ReplanCommits, ReplanLeavesFiles,
                ReplanConflicts, SplitWrites, ConfirmWrites, SavesScript, Fails
  <2> QED
    BY <1>1, <2>1
<1>4. ASSUME NEW d \in Call, PlanReads(d) \/ PlanCommits(d)
      PROVE  FALSE
  <2>1. \E r : To(d, r) /\ r.pc # "gated"
    BY <1>4 DEF PlanReads, PlanCommits
  <2> QED
    BY <1>1, <2>1
<1>5. ASSUME NEW d \in Call, NEW from \in Episode, NEW consent \in BOOLEAN,
             ReplanReads(d, from, consent)
      PROVE  FALSE
  <2>1. \E r : To(d, r) /\ r.pc # "gated"
    BY <1>5 DEF ReplanReads
  <2> QED
    BY <1>1, <2>1
<1>6. ASSUME NEW d \in Call, NEW e \in Worked,
             \/ SplitReads(d, e) \/ ConfirmReads(d, e) \/ ConfirmReadsUnits(d, e)
             \/ PassesBlindly(d, e)
      PROVE  FALSE
  <2>1. \E r : To(d, r) /\ r.pc # "gated"
    BY <1>6 DEF SplitReads, ConfirmReads, ConfirmReadsUnits, PassesBlindly
  <2> QED
    BY <1>1, <2>1
<1>11. ASSUME NEW d \in Call, ConfirmRewrites(d) \/ ConfirmTakesAgain(d)
       PROVE  FALSE
  <2>1. d # c /\ \E r : To(d, r)
    BY <1>11 DEF ConfirmRewrites, ConfirmTakesAgain
  <2> QED
    BY <2>1
<1>7. ASSUME NEW d \in Call, NEW e \in Worked, PassesGate(d, e)
      PROVE  PassesGate(c, e)
  <2>1. CASE d # c
    BY <1>7, <2>1 DEF PassesGate
  <2> QED
    BY <1>7, <2>1
<1>8. ~ Restart
  BY DEF Restart
<1>9. ~ (\E d \in Call : PlanBreaks(d) \/ ReplanBreaks(d)) /\ ~ Crash
  BY <1>8 DEF PlanBreaks, ReplanBreaks, Crash
<1>10. ~ (\E e \in Worked, t \in Text : SaveContent(e, t)) /\ ~ UNCHANGED vars
  BY <1>2 DEF SaveContent, vars
<1> QED
  BY <1>3, <1>4, <1>5, <1>6, <1>7, <1>9, <1>10, <1>11 DEF Next, Replans

-----------------------------------------------------------------------------
(* Theorems *)

\* The ledger, the cursor and the derived files are well formed, and once a
\* commit has gone through the files say what the ledger says, however many
\* calls run past each other and however often a commit breaks off.
THEOREM FilesAreTheLedgers == Spec => [](LedgerTypeOK /\ FilesFollowLedger)
<1>1. Init => LedgerIndInv
  BY InitInd
<1>2. LedgerIndInv /\ [Next]_vars => LedgerIndInv'
  BY LedgerStep
<1>3. LedgerIndInv => LedgerTypeOK /\ FilesFollowLedger
  BY DEF LedgerIndInv
<1> QED
  BY <1>1, <1>2, <1>3, PTL DEF Spec

\* An entry that a reader of the ledger takes for consumed is cut anew only by a
\* call that had read it so and was told to go ahead, and is marked stale.
THEOREM ConsumedAreRecutWithConsent == Spec => RecutWithConsent
<1>1. Init => LedgerIndInv
  BY InitInd
<1>2. LedgerIndInv /\ [Next]_vars => LedgerIndInv'
  BY LedgerStep
<1> DEFINE A == \A e \in Episode :
                  /\ crashes' = crashes
                  /\ Filled[e] # NULL /\ Filled[e].status = "consumed"
                  /\ CutAnew(e)
                  => /\ \E c \in Call : /\ call[c].pc = "replanning" /\ call[c] # call'[c]
                                        /\ call[c].consent /\ e \in call[c].consumed
                     /\ ledger'[e] # NULL => ledger'[e].status = "stale"
<1>3. LedgerIndInv /\ [Next]_vars => A
  <2> SUFFICES ASSUME LedgerIndInv, [Next]_vars, NEW e \in Episode, crashes' = crashes,
                      Filled[e] # NULL, Filled[e].status = "consumed",
                      CutAnew(e)
               PROVE  /\ \E c \in Call : /\ call[c].pc = "replanning" /\ call[c] # call'[c]
                                         /\ call[c].consent /\ e \in call[c].consumed
                      /\ ledger'[e] # NULL => ledger'[e].status = "stale"
    OBVIOUS
  <2>1. PICK c \in Call : Replans(c) /\ call[c].ep <= e
    BY StepOnCut DEF CutAnew
  <2>2. call[c].pc = "replanning" /\ SameScope(c) /\ Ends(c) /\ call[c].ep \in Episode
    BY <2>1, ReplanCommitsInd
  <2>3. e \in Consumed(call[c].ep)
    BY <2>1, <2>2 DEF Consumed, Scope, Entries, Episode
  <2>4. e \in call[c].consumed /\ call[c].consent
    BY <2>2, <2>3 DEF SameScope, LedgerIndInv, CallsOK, GoodCall
  <2>5. call'[c] # call[c]
    BY <2>2 DEF Ends, To, Idle, LedgerIndInv, CallsOK
  <2>6. ledger'[e] # NULL => ledger'[e].status = NewStatus[e]
    BY <2>1, <2>2, ReplanCommitsInd DEF Episode
  <2>7. NewStatus[e] = "stale"
    BY DEF NewStatus
  <2> QED
    BY <2>2, <2>4, <2>5, <2>6, <2>7
<1>4. [][A]_vars => RecutWithConsent
  BY PTL DEF RecutWithConsent
<1> QED
  BY <1>1, <1>2, <1>3, <1>4, PTL DEF Spec

\* A confirmation is lost only to a replan of its episode or to a later one.
THEOREM ConfirmationsAreKept == Spec => ConfirmationKept
<1>1. Init => LedgerIndInv
  BY InitInd
<1>2. LedgerIndInv /\ [Next]_vars => LedgerIndInv'
  BY LedgerStep
<1> DEFINE A == \A e \in Worked :
                  Review(e) # NULL /\ Review(e)' # Review(e)
                  => \E c \in Call :
                       /\ call[c] # call'[c]
                       /\ \/ call[c].pc = "replanning" /\ call[c].ep <= e
                          \/ call[c].pc = "confirming" /\ call[c].ep = e
<1>3. LedgerIndInv /\ [Next]_vars => A
  <2> SUFFICES ASSUME LedgerIndInv, [Next]_vars, NEW e \in Worked,
                      Review(e) # NULL, Review(e)' # Review(e)
               PROVE  \E c \in Call :
                        /\ call[c] # call'[c]
                        /\ \/ call[c].pc = "replanning" /\ call[c].ep <= e
                           \/ call[c].pc = "confirming" /\ call[c].ep = e
    OBVIOUS
  <2>1. \/ \E c \in Call : Replans(c) /\ call[c].ep <= e
        \/ \E c \in Call : ConfirmWrites(c) /\ call[c].ep = e
    BY StepOnReview
  <2>2. ASSUME NEW c \in Call, Replans(c) \/ ConfirmWrites(c)
        PROVE  call[c] # call'[c]
    BY <2>2 DEF Replans, ReplanCommits, ReplanLeavesFiles, ConfirmWrites, Ends, To, Idle,
                LedgerIndInv, CallsOK
  <2> QED
    BY <2>1, <2>2 DEF Replans, ReplanCommits, ReplanLeavesFiles, ConfirmWrites
<1>4. [][A]_vars => ConfirmationKept
  BY PTL DEF ConfirmationKept
<1> QED
  BY <1>1, <1>2, <1>3, <1>4, PTL DEF Spec

\* A gate that can read project.json opens the script stage only for step1
\* content of which a confirmation took the fingerprint.
THEOREM GateIsForReviewed == Spec => GateOpensForReviewed
<1>1. Init => LedgerIndInv
  BY InitInd
<1>2. LedgerIndInv /\ [Next]_vars => LedgerIndInv'
  BY LedgerStep
<1> DEFINE A == \A c \in Call :
                  call[c].pc = "idle" /\ call'[c].pc = "gated"
                  => LET e == call'[c].ep
                     IN step1[e] \in seen[e] \/ (Review(e) = NULL /\ e \in scripts)
<1>3. LedgerIndInv /\ [Next]_vars => A
  <2> SUFFICES ASSUME LedgerIndInv, [Next]_vars, NEW c \in Call,
                      call[c].pc = "idle", call'[c].pc = "gated"
               PROVE  LET e == call'[c].ep
                      IN step1[e] \in seen[e] \/ (Review(e) = NULL /\ e \in scripts)
    OBVIOUS
  <2>1. PICK e \in Worked : PassesGate(c, e)
    BY StepToGate
  <2>2. call'[c].ep = e
    BY <2>1 DEF PassesGate, To, Idle, LedgerIndInv, CallsOK
  <2>3. step1[e] \in seen[e] \/ (Review(e) = NULL /\ e \in scripts)
    BY <2>1 DEF PassesGate, Confirmed, LedgerIndInv, ReviewedSeen
  <2> QED
    BY <2>2, <2>3
<1>4. [][A]_vars => GateOpensForReviewed
  BY PTL DEF GateOpensForReviewed
<1> QED
  BY <1>1, <1>2, <1>3, <1>4, PTL DEF Spec

\* Confirmations are kept, and the gate of the script stage relies on them.
THEOREM ReviewsHold == Spec => ReviewHolds
BY ConfirmationsAreKept, GateIsForReviewed DEF ReviewHolds

-----------------------------------------------------------------------------
(* The order of the places of the source *)

Idx(f) == CHOOSE n \in DOMAIN Files : Files[n] = f

LEMMA IdxIs ==
    /\ Len(Files) \in Nat \ {0} /\ DOMAIN Files = 1..Len(Files)
    /\ \A f \in File : Idx(f) \in 1..Len(Files) /\ Files[Idx(f)] = f
    /\ \A f, g \in File : Idx(f) = Idx(g) => f = g
    /\ \A n \in 1..Len(Files) : Files[n] \in File /\ Idx(Files[n]) = n
<1>1. Files \in Seq(File) /\ Files # <<>> /\ \A a, b \in DOMAIN Files : Files[a] = Files[b] => a = b
  BY LedgerAssumption DEF LedgerAssumption, IsInjective
<1>2. Len(Files) \in Nat \ {0} /\ DOMAIN Files = 1..Len(Files)
  BY <1>1
<1>3. \A f \in File : \E n \in DOMAIN Files : Files[n] = f
  BY <1>2 DEF File, ToSet
<1>4. \A f \in File : Idx(f) \in DOMAIN Files /\ Files[Idx(f)] = f
  BY <1>3 DEF Idx
<1>5. \A n \in DOMAIN Files : Files[n] \in File
  BY <1>1
<1>6. \A n \in DOMAIN Files : Idx(Files[n]) = n
  BY <1>1, <1>4, <1>5
<1>7. \A f, g \in File : Idx(f) = Idx(g) => f = g
  BY <1>4
<1> QED
  BY <1>2, <1>4, <1>5, <1>6, <1>7

NotAfter(p, q) == ~Before(q, p)

LEMMA PlaceIs ==
    ASSUME NEW p \in Place
    PROVE  /\ p.file \in File /\ p.at \in Nat /\ Idx(p.file) \in Int
           /\ p = [file |-> p.file, at |-> p.at]
<1>1. p \in [file : File, at : Offset]
  BY DEF Place
<1>2. p.file \in File /\ p.at \in Offset /\ p = [file |-> p.file, at |-> p.at]
  BY <1>1
<1>3. p.at \in Nat
  BY <1>2, OffsetForm
<1>4. Idx(p.file) \in Int
  BY <1>2, IdxIs
<1> QED
  BY <1>2, <1>3, <1>4

LEMMA BeforeIs ==
    ASSUME NEW p, NEW q
    PROVE  Before(p, q) <=> Idx(p.file) < Idx(q.file) \/ (p.file = q.file /\ p.at < q.at)
BY DEF Before, Idx

LEMMA NotAfterIs ==
    ASSUME NEW p \in Place, NEW q \in Place
    PROVE  NotAfter(p, q) <=> Idx(p.file) < Idx(q.file) \/ (p.file = q.file /\ p.at <= q.at)
<1>1. Idx(p.file) = Idx(q.file) <=> p.file = q.file
  BY IdxIs, PlaceIs
<1>2. p.at \in Nat /\ q.at \in Nat /\ Idx(p.file) \in Int /\ Idx(q.file) \in Int
  BY PlaceIs
<1>3. Before(q, p) <=> Idx(q.file) < Idx(p.file) \/ (q.file = p.file /\ q.at < p.at)
  BY BeforeIs
<1> QED
  BY <1>1, <1>2, <1>3 DEF NotAfter

LEMMA Order ==
    ASSUME NEW p \in Place, NEW q \in Place, NEW r \in Place
    PROVE  /\ Before(p, q) => NotAfter(p, q)
           /\ NotAfter(p, p)
           /\ Before(p, q) /\ NotAfter(q, r) => Before(p, r)
           /\ NotAfter(p, q) /\ Before(q, r) => Before(p, r)
           /\ NotAfter(p, q) /\ NotAfter(q, r) => NotAfter(p, r)
           /\ ~NotAfter(p, q) <=> Before(q, p)
<1>1. /\ \A x, y \in {p, q, r} : NotAfter(x, y) <=> Idx(x.file) < Idx(y.file) \/ (x.file = y.file /\ x.at <= y.at)
      /\ \A x, y \in {p, q, r} : Before(x, y) <=> Idx(x.file) < Idx(y.file) \/ (x.file = y.file /\ x.at < y.at)
      /\ \A x \in {p, q, r} : x.at \in Nat /\ Idx(x.file) \in Int
  BY NotAfterIs, BeforeIs, PlaceIs
<1>2. ~NotAfter(p, q) <=> Before(q, p)
  BY DEF NotAfter
<1> QED
  BY <1>1, <1>2

LEMMA CutEnds ==
    ASSUME NEW k \in Cut
    PROVE  /\ From(k) \in Place /\ UpTo(k) \in Place
           /\ Before(From(k), UpTo(k))
           /\ From(k).file = k.file /\ UpTo(k).file = k.file
           /\ From(k).at = k.start /\ UpTo(k).at = k.end
           /\ From(k).at < Size[k.file] /\ UpTo(k).at <= Size[k.file]
<1>1. /\ k \in [file : File, start : Offset, end : Offset]
      /\ k.start \in Nat /\ k.end \in Nat /\ k.start < k.end /\ k.end <= Size[k.file] /\ Size[k.file] \in Nat
  BY CutForm
<1>2. From(k) \in Place /\ UpTo(k) \in Place
  BY <1>1 DEF From, UpTo, Place
<1> QED
  BY <1>1, <1>2, BeforeIs DEF From, UpTo

LEMMA HoldsIs ==
    ASSUME NEW k \in Cut, NEW p \in Place
    PROVE  Holds(k, p) <=> NotAfter(From(k), p) /\ Before(p, UpTo(k))
<1>1. /\ From(k) \in Place /\ UpTo(k) \in Place
      /\ From(k).file = k.file /\ UpTo(k).file = k.file /\ From(k).at = k.start /\ UpTo(k).at = k.end
  BY CutEnds
<1>2. /\ NotAfter(From(k), p) <=> Idx(k.file) < Idx(p.file) \/ (k.file = p.file /\ k.start <= p.at)
      /\ Before(p, UpTo(k)) <=> Idx(p.file) < Idx(k.file) \/ (p.file = k.file /\ p.at < k.end)
  BY <1>1, NotAfterIs, BeforeIs
<1>3. Idx(p.file) \in Int /\ Idx(k.file) \in Int
  BY <1>1, PlaceIs
<1> QED
  BY <1>2, <1>3 DEF Holds

Origin == [file |-> Files[1], at |-> 0]

LEMMA OriginIs ==
    /\ Origin \in Place /\ \A p \in Place : ~Before(p, Origin)
    /\ Origin.at < Size[Origin.file]
<1>1. Files[1] \in File /\ Idx(Files[1]) = 1
  BY IdxIs
<1>2. Size[Files[1]] \in Nat \ {0}
  BY <1>1, LedgerAssumption DEF LedgerAssumption
<1>3. 0 \in Offset
  BY <1>1, <1>2, OffsetForm
<1>4. Origin \in Place
  BY <1>1, <1>3 DEF Origin, Place
<1>5. \A f \in File : Idx(f) \in Int /\ Idx(f) >= 1
  BY IdxIs
<1>6. ASSUME NEW p \in Place
      PROVE  ~Before(p, Origin)
  BY <1>1, <1>5, PlaceIs, BeforeIs DEF Origin
<1> QED
  BY <1>2, <1>4, <1>6 DEF Origin

-----------------------------------------------------------------------------
(* Rows of cuts *)

CutRows == [Episode -> Cut \cup {NULL}]

\* The first entries of a row
UpToNumber(R, n) == [e \in Episode |-> IF e <= n THEN R[e] ELSE NULL]

LEMMA PlacedIs ==
    ASSUME NEW R \in CutRows
    PROVE  /\ \A e \in Placed(R) : e \in Episode /\ e \in Int /\ R[e] \in Cut
           /\ Placed(R) # {} => Max(Placed(R)) \in Placed(R) /\ \A e \in Placed(R) : e <= Max(Placed(R))
<1>1. MaxEpisode \in Nat /\ Placed(R) \in SUBSET (0..MaxEpisode)
  BY LedgerAssumption DEF LedgerAssumption, Placed, Episode
<1>2. Placed(R) # {} => Max(Placed(R)) \in Placed(R) /\ \A e \in Placed(R) : e <= Max(Placed(R))
  BY <1>1, MaxExists
<1>3. \A e \in Placed(R) : e \in Episode /\ e \in Int /\ R[e] \in Cut
  BY DEF Placed, CutRows, Episode
<1> QED
  BY <1>2, <1>3

\* Where a row with a last entry, or none, reaches
LEMMA ReachOfLast ==
    ASSUME NEW R \in CutRows, NEW m \in Placed(R), \A e \in Placed(R) : e <= m
    PROVE  Reach(R) = UpTo(R[m])
<1>1. Max(Placed(R)) = m
  BY PlacedIs
<1> QED
  BY <1>1 DEF Reach

LEMMA ReachIs ==
    ASSUME NEW R \in CutRows
    PROVE  /\ Placed(R) = {} => Reach(R) = Origin
           /\ Placed(R) # {} => \E m \in Placed(R) : (\A e \in Placed(R) : e <= m) /\ Reach(R) = UpTo(R[m])
           /\ Reach(R) \in Place
           /\ Reach(R).at <= Size[Reach(R).file]
<1>1. CASE Placed(R) = {}
  <2>1. Reach(R) = Origin
    BY <1>1 DEF Reach, Origin
  <2>2. Size[Origin.file] \in Nat /\ Origin.at = 0
    BY OriginIs, PlaceIs, LedgerAssumption DEF LedgerAssumption, Origin
  <2> QED
    BY <1>1, <2>1, <2>2, OriginIs
<1>2. CASE Placed(R) # {}
  <2>1. PICK m \in Placed(R) : \A e \in Placed(R) : e <= m
    BY <1>2, PlacedIs
  <2>2. Reach(R) = UpTo(R[m]) /\ R[m] \in Cut
    BY <2>1, ReachOfLast, PlacedIs
  <2> QED
    BY <1>2, <2>1, <2>2, CutEnds
<1> QED
  BY <1>1, <1>2

\* In a whole row every cut ends before the end.
LEMMA WithinReach ==
    ASSUME NEW R \in CutRows, Whole(R), NEW e \in Placed(R)
    PROVE  NotAfter(UpTo(R[e]), Reach(R))
<1>1. PICK m \in Placed(R) : (\A d \in Placed(R) : d <= m) /\ Reach(R) = UpTo(R[m])
  BY ReachIs
<1>2. R[e] \in Cut /\ R[m] \in Cut /\ e \in Int /\ m \in Int
  BY PlacedIs
<1>3. /\ UpTo(R[e]) \in Place /\ UpTo(R[m]) \in Place /\ From(R[m]) \in Place
      /\ Before(From(R[m]), UpTo(R[m]))
  BY <1>2, CutEnds
<1>4. CASE e = m
  BY <1>1, <1>3, <1>4, Order
<1>5. CASE e < m
  <2>1. NotAfter(UpTo(R[e]), From(R[m]))
    BY <1>5 DEF Whole, NotAfter
  <2>2. NotAfter(From(R[m]), UpTo(R[m]))
    BY <1>3, Order
  <2> QED
    BY <1>1, <1>3, <2>1, <2>2, Order
<1> QED
  BY <1>1, <1>2, <1>4, <1>5

\* Nothing of the source is between q and p.
NothingBetween(q, p) == NotAfter(q, p) /\ \A x \in Parts : Before(x, p) => Before(x, q)

LEMMA PartIs ==
    ASSUME NEW p \in Parts
    PROVE  p \in Place /\ p.at < Size[p.file]
BY DEF Parts

LEMMA PrefixIs ==
    ASSUME NEW R \in CutRows, NEW n \in Int
    PROVE  /\ UpToNumber(R, n) \in CutRows
           /\ Placed(UpToNumber(R, n)) = {e \in Placed(R) : e <= n}
           /\ \A e \in Placed(R) : e <= n => UpToNumber(R, n)[e] = R[e]
BY DEF UpToNumber, CutRows, Placed

LEMMA PrefixWhole ==
    ASSUME NEW R \in CutRows, Whole(R), NEW n \in Int
    PROVE  Whole(UpToNumber(R, n))
<1> DEFINE P == UpToNumber(R, n)
<1>1. /\ P \in CutRows
      /\ Placed(P) = {e \in Placed(R) : e <= n}
      /\ \A e \in Placed(R) : e <= n => P[e] = R[e]
  BY PrefixIs
<1> HIDE DEF P
<1>2. \A e, d \in Placed(P) : e < d => ~Before(From(P[d]), UpTo(P[e]))
  BY <1>1 DEF Whole
<1>3. ASSUME NEW p \in Parts, Before(p, Reach(P))
      PROVE  \E e \in Placed(P) : Holds(P[e], p)
  <2>1. p \in Place
    BY PartIs
  <2>2. Placed(P) # {}
    BY <1>1, <1>3, <2>1, ReachIs, OriginIs
  <2>3. PICK m \in Placed(P) : Reach(P) = UpTo(P[m])
    BY <1>1, <2>2, ReachIs
  <2>4. m \in Placed(R) /\ Reach(P) = UpTo(R[m]) /\ m \in Int /\ m <= n /\ R[m] \in Cut
    BY <1>1, <2>3, PlacedIs
  <2>5. /\ UpTo(R[m]) \in Place /\ Reach(R) \in Place
        /\ NotAfter(UpTo(R[m]), Reach(R))
    BY <2>4, CutEnds, ReachIs, WithinReach
  <2>6. Before(p, Reach(R))
    BY <1>3, <2>1, <2>4, <2>5, Order
  <2>7. PICK e \in Placed(R) : Holds(R[e], p)
    BY <2>6 DEF Whole
  <2>8. R[e] \in Cut /\ From(R[e]) \in Place /\ e \in Int
    BY PlacedIs, CutEnds
  <2>9. NotAfter(From(R[e]), p)
    BY <2>1, <2>7, <2>8, HoldsIs
  <2>10. Before(From(R[e]), UpTo(R[m]))
    BY <1>3, <2>1, <2>4, <2>5, <2>8, <2>9, Order
  <2>11. ~(m < e)
    BY <2>4, <2>10 DEF Whole
  <2>12. e <= n
    BY <2>4, <2>8, <2>11
  <2> QED
    BY <1>1, <2>7, <2>12
<1>4. Whole(P)
  BY <1>2, <1>3 DEF Whole
<1> QED
  BY <1>4 DEF P

\* Before an entry of a whole row the row reaches its start.
LEMMA PrefixReaches ==
    ASSUME NEW R \in CutRows, Whole(R), NEW m \in Placed(R)
    PROVE  NothingBetween(Reach(UpToNumber(R, m - 1)), From(R[m]))
<1> DEFINE P == UpToNumber(R, m - 1)
<1>1. m \in Int /\ m - 1 \in Int /\ R[m] \in Cut
  BY PlacedIs
<1>2. /\ P \in CutRows
      /\ Placed(P) = {e \in Placed(R) : e <= m - 1}
      /\ \A e \in Placed(R) : e <= m - 1 => P[e] = R[e]
  BY <1>1, PrefixIs
<1>3. Whole(P)
  BY <1>1, PrefixWhole
<1> HIDE DEF P
<1>4. /\ From(R[m]) \in Place /\ UpTo(R[m]) \in Place /\ Before(From(R[m]), UpTo(R[m]))
      /\ Reach(P) \in Place /\ Reach(R) \in Place
  BY <1>1, <1>2, CutEnds, ReachIs
<1>5. NotAfter(Reach(P), From(R[m]))
  <2>1. CASE Placed(P) = {}
    BY <1>2, <1>4, <2>1, ReachIs, OriginIs DEF NotAfter
  <2>2. CASE Placed(P) # {}
    <3>1. PICK d \in Placed(P) : Reach(P) = UpTo(P[d])
      BY <1>2, <2>2, ReachIs
    <3>2. d \in Placed(R) /\ d < m /\ Reach(P) = UpTo(R[d])
      BY <1>1, <1>2, <3>1, PlacedIs
    <3> QED
      BY <3>2 DEF Whole, NotAfter
  <2> QED
    BY <2>1, <2>2
<1>6. ASSUME NEW x \in Parts, Before(x, From(R[m]))
      PROVE  Before(x, Reach(P))
  <2>1. x \in Place
    BY PartIs
  <2>2. Before(x, UpTo(R[m]))
    BY <1>4, <1>6, <2>1, Order
  <2>3. Before(x, Reach(R))
    <3>1. NotAfter(UpTo(R[m]), Reach(R))
      BY WithinReach
    <3> QED
      BY <1>4, <2>1, <2>2, <3>1, Order
  <2>4. PICK e \in Placed(R) : Holds(R[e], x)
    BY <2>3 DEF Whole
  <2>5. R[e] \in Cut /\ e \in Int
    BY PlacedIs
  <2>6. From(R[e]) \in Place /\ UpTo(R[e]) \in Place
    BY <2>5, CutEnds
  <2>7. NotAfter(From(R[e]), x) /\ Before(x, UpTo(R[e]))
    BY <2>1, <2>4, <2>5, HoldsIs
  <2>8. Before(From(R[e]), From(R[m]))
    BY <1>4, <1>6, <2>1, <2>6, <2>7, Order
  <2>9. e # m
    BY <1>4, <2>8, Order
  <2>10. ~(m < e)
    <3>1. Before(From(R[e]), UpTo(R[m]))
      BY <1>4, <2>6, <2>8, Order
    <3> QED
      BY <3>1 DEF Whole
  <2>11. e \in Placed(P) /\ P[e] = R[e]
    BY <1>1, <1>2, <2>5, <2>9, <2>10
  <2>12. NotAfter(UpTo(R[e]), Reach(P))
    BY <1>2, <1>3, <2>11, WithinReach
  <2> QED
    BY <1>4, <2>1, <2>6, <2>7, <2>12, Order
<1> QED
  BY <1>5, <1>6 DEF NothingBetween, P

\* A row grows by a cut with nothing left out before it.
LEMMA RowGrows ==
    ASSUME NEW R \in CutRows, Whole(R), NEW n \in Episode, \A e \in Placed(R) : e < n,
           NEW k \in Cut, NothingBetween(Reach(R), From(k))
    PROVE  /\ [R EXCEPT ![n] = k] \in CutRows
           /\ Whole([R EXCEPT ![n] = k])
           /\ Reach([R EXCEPT ![n] = k]) = UpTo(k)
<1> DEFINE S == [R EXCEPT ![n] = k]
<1>1. S \in CutRows /\ S[n] = k /\ \A e \in Episode : e # n => S[e] = R[e]
  BY DEF CutRows
<1>2. n \in Int /\ n \notin Placed(R) /\ \A e \in Placed(R) : e \in Episode /\ R[e] \in Cut
  BY PlacedIs DEF Episode
<1> HIDE DEF S
<1>3. Placed(S) = Placed(R) \cup {n} /\ \A e \in Placed(R) : S[e] = R[e]
  <2>1. k # NULL
    BY NotNull
  <2> QED
    BY <1>1, <1>2, <2>1 DEF Placed
<1>4. Reach(S) = UpTo(k)
  <2>1. n \in Placed(S) /\ \A e \in Placed(S) : e <= n
    BY <1>2, <1>3, PlacedIs
  <2> QED
    BY <1>1, <2>1, ReachOfLast
<1>5. /\ From(k) \in Place /\ UpTo(k) \in Place /\ Before(From(k), UpTo(k)) /\ Reach(R) \in Place
      /\ NotAfter(Reach(R), From(k))
  BY CutEnds, ReachIs DEF NothingBetween
<1>6. ASSUME NEW e \in Placed(S), NEW d \in Placed(S), e < d
      PROVE  ~Before(From(S[d]), UpTo(S[e]))
  <2>1. e \in Placed(R)
    BY <1>2, <1>3, <1>6, PlacedIs
  <2>2. CASE d \in Placed(R)
    BY <1>3, <1>6, <2>1, <2>2 DEF Whole
  <2>3. CASE d = n
    <3>1. NotAfter(UpTo(R[e]), Reach(R)) /\ UpTo(R[e]) \in Place
      BY <1>2, <2>1, WithinReach, CutEnds
    <3>2. NotAfter(UpTo(R[e]), From(k))
      BY <1>5, <3>1, Order
    <3> QED
      BY <1>1, <1>3, <2>1, <2>3, <3>2 DEF NotAfter
  <2> QED
    BY <1>3, <2>2, <2>3
<1>7. ASSUME NEW p \in Parts, Before(p, UpTo(k))
      PROVE  \E e \in Placed(S) : Holds(S[e], p)
  <2>1. p \in Place
    BY PartIs
  <2>2. CASE Before(p, From(k))
    <3>1. Before(p, Reach(R))
      BY <2>2 DEF NothingBetween
    <3>2. PICK e \in Placed(R) : Holds(R[e], p)
      BY <3>1 DEF Whole
    <3> QED
      BY <1>3, <3>2
  <2>3. CASE ~Before(p, From(k))
    <3>1. Holds(k, p)
      BY <1>7, <2>1, <2>3, HoldsIs DEF NotAfter
    <3> QED
      BY <1>1, <1>3, <3>1
  <2> QED
    BY <2>2, <2>3
<1>8. Whole(S)
  BY <1>4, <1>6, <1>7 DEF Whole
<1> QED
  BY <1>1, <1>4, <1>8 DEF S

\* The last cut of a row may be cut short or be lost.
LEMMA CutBack ==
    ASSUME NEW R \in CutRows, Whole(R), NEW m \in Placed(R), NEW t \in Cut \cup {NULL},
           t \in Cut => From(t) = From(R[m])
    PROVE  Whole([UpToNumber(R, m - 1) EXCEPT ![m] = t])
<1> DEFINE P == UpToNumber(R, m - 1)
<1>1. m \in Episode /\ m \in Int /\ m - 1 \in Int
  BY PlacedIs
<1>2. P \in CutRows /\ Whole(P) /\ \A e \in Placed(P) : e < m
  BY <1>1, PrefixIs, PrefixWhole, PlacedIs
<1>3. NothingBetween(Reach(P), From(R[m]))
  BY PrefixReaches
<1>4. P[m] = NULL
  <2>1. ~(m <= m - 1)
    BY <1>1
  <2> QED
    BY <1>1, <2>1 DEF UpToNumber
<1> HIDE DEF P
<1>5. ASSUME t \in Cut
      PROVE  Whole([P EXCEPT ![m] = t])
  <2>1. NothingBetween(Reach(P), From(t))
    BY <1>3, <1>5
  <2> QED
    BY <1>1, <1>2, <1>5, <2>1, RowGrows
<1>6. ASSUME t \notin Cut
      PROVE  Whole([P EXCEPT ![m] = t])
  <2>1. t = NULL /\ DOMAIN P = Episode /\ P = [e \in Episode |-> P[e]]
    BY <1>2, <1>6 DEF CutRows
  <2>2. [P EXCEPT ![m] = t] = [e \in Episode |-> IF e = m THEN t ELSE P[e]]
    BY <2>1
  <2>3. [e \in Episode |-> IF e = m THEN t ELSE P[e]] = [e \in Episode |-> P[e]]
    BY <1>4, <2>1
  <2> QED
    BY <1>2, <2>1, <2>2, <2>3
<1>7. Whole([P EXCEPT ![m] = t])
  BY <1>5, <1>6
<1> QED
  BY <1>7 DEF P

LEMMA NextStep ==
    ASSUME NEW q \in Place
    PROVE  NothingBetween(q, q)
BY Order DEF NothingBetween

\* plan goes on where nothing is left out, and ends when nothing is left.
LEMMA PlanFromIs ==
    ASSUME NEW q \in Place, q.at <= Size[q.file]
    PROVE  /\ PlanFrom(q) # NULL => PlanFrom(q) \in Place /\ NothingBetween(q, PlanFrom(q))
           /\ PlanFrom(q) = NULL => \A p \in Parts : Before(p, q)
<1> DEFINE i == Idx(q.file)
           p0 == [file |-> Files[i + 1], at |-> 0]
<1>1. q.file \in File /\ q.at \in Nat /\ i \in 1..Len(Files) /\ Size[q.file] \in Nat /\ Len(Files) \in Nat
  BY PlaceIs, IdxIs, LedgerAssumption DEF LedgerAssumption
<1>2. NextFile(q.file) = IF i = Len(Files) THEN NULL ELSE Files[i + 1]
  BY DEF NextFile, Idx
<1>3. \A p \in Parts : p \in Place /\ p.file \in File /\ p.at \in Nat /\ p.at < Size[p.file] /\ Idx(p.file) \in 1..Len(Files)
  BY PartIs, PlaceIs, IdxIs
<1>4. CASE q.at < Size[q.file]
  <2>1. PlanFrom(q) = q
    BY <1>4 DEF PlanFrom
  <2>2. q # NULL
    BY NotNull
  <2> QED
    BY <2>1, <2>2, NextStep
<1>5. CASE ~(q.at < Size[q.file])
  <2>1. q.at = Size[q.file]
    BY <1>1, <1>5
  <2>2. \A p \in Parts : p.file = q.file => Before(p, q)
    BY <1>3, <2>1, BeforeIs
  <2>3. \A p \in Parts : Idx(p.file) < i => Before(p, q)
    BY BeforeIs
  <2>4. \A p \in Parts : Idx(p.file) = i => p.file = q.file
    BY <1>1, <1>3, IdxIs
  <2>5. CASE i = Len(Files)
    <3>1. NextFile(q.file) = NULL
      BY <1>2, <2>5
    <3>2. PlanFrom(q) = NULL
      BY <1>5, <3>1 DEF PlanFrom
    <3>3. \A p \in Parts : Idx(p.file) < i \/ Idx(p.file) = i
      BY <1>1, <1>3, <2>5
    <3> QED
      BY <2>2, <2>3, <2>4, <3>2, <3>3
  <2>6. CASE i # Len(Files)
    <3>1. i + 1 \in 1..Len(Files)
      BY <1>1, <2>6
    <3>2. Files[i + 1] \in File /\ Idx(Files[i + 1]) = i + 1
      BY <3>1, IdxIs
    <3>3. NextFile(q.file) = Files[i + 1] /\ Files[i + 1] # NULL
      BY <1>2, <2>6, <3>2, LedgerAssumption DEF LedgerAssumption
    <3>4. PlanFrom(q) = p0
      BY <1>5, <3>3 DEF PlanFrom
    <3>5. p0 \in Place /\ p0.file = Files[i + 1] /\ p0.at = 0
      <4>1. Size[Files[i + 1]] \in Nat
        BY <3>2, LedgerAssumption DEF LedgerAssumption
      <4>2. 0 \in Offset
        BY <3>2, <4>1, OffsetForm
      <4> QED
        BY <3>2, <4>2 DEF Place
    <3> HIDE DEF p0
    <3>6. NotAfter(q, p0)
      BY <1>1, <3>2, <3>5, NotAfterIs
    <3>7. ASSUME NEW p \in Parts, Before(p, p0)
          PROVE  Before(p, q)
      <4>1. Idx(p.file) < i + 1 \/ (p.file = Files[i + 1] /\ p.at < 0)
        BY <3>2, <3>5, <3>7, BeforeIs
      <4>2. Idx(p.file) < i \/ Idx(p.file) = i
        BY <1>1, <1>3, <4>1
      <4> QED
        BY <2>2, <2>3, <2>4, <4>2
    <3>8. p0 # NULL
      BY <3>5, NotNull
    <3> QED
      BY <3>4, <3>5, <3>6, <3>7, <3>8 DEF NothingBetween
  <2> QED
    BY <2>5, <2>6
<1> QED
  BY <1>4, <1>5

\* A row grows by a row of cuts, each of which goes on where the one before it ends.
LEMMA RowExtends ==
    ASSUME NEW P \in CutRows, Whole(P), NEW n \in Episode, \A e \in Placed(P) : e < n,
           NEW m \in Nat \ {0}, NEW cuts \in [1..m -> Cut], n + m - 1 <= MaxEpisode,
           NothingBetween(Reach(P), From(cuts[1])),
           \A i \in 1..m - 1 : NothingBetween(UpTo(cuts[i]), From(cuts[i + 1])),
           NEW R \in CutRows,
           \A e \in Episode : R[e] = IF e < n THEN P[e] ELSE IF e <= n + m - 1 THEN cuts[e - n + 1] ELSE NULL
    PROVE  Whole(R) /\ Reach(R) = UpTo(cuts[m])
<1> DEFINE At(j) == UpToNumber(R, n + j - 1)
           Good(j) == Whole(At(j)) /\ Reach(At(j)) = UpTo(cuts[j])
           Bad == {j \in 1..m : ~Good(j)}
<1>0. n \in Nat /\ n >= 1 /\ MaxEpisode \in Nat /\ Episode = 1..MaxEpisode
  BY LedgerAssumption DEF LedgerAssumption, Episode
<1>1. Good(1)
  <2>1. At(1) = [P EXCEPT ![n] = cuts[1]]
    <3>1. \A e \in Episode : At(1)[e] = [P EXCEPT ![n] = cuts[1]][e]
      <4> TAKE e \in Episode
      <4>1. CASE e < n
        BY <1>0, <4>1 DEF UpToNumber, CutRows
      <4>2. CASE e = n
        <5>1. n <= n + m - 1 /\ n - n + 1 = 1 /\ ~(n < n) /\ n <= n + 1 - 1
          BY <1>0
        <5>2. R[n] = cuts[1]
          BY <5>1
        <5> QED
          BY <4>2, <5>1, <5>2 DEF UpToNumber, CutRows
      <4>3. CASE n < e
        <5>1. e \notin Placed(P) /\ e # n /\ ~(e <= n + 1 - 1)
          BY <1>0, <4>3
        <5>2. P[e] = NULL
          BY <5>1 DEF Placed
        <5> QED
          BY <5>1, <5>2 DEF UpToNumber, CutRows
      <4> QED
        BY <1>0, <4>1, <4>2, <4>3
    <3>2. DOMAIN At(1) = Episode /\ At(1) = [e \in Episode |-> At(1)[e]]
      BY DEF UpToNumber
    <3>3. DOMAIN P = Episode
      BY DEF CutRows
    <3> QED
      BY <3>1, <3>2, <3>3
  <2>2. cuts[1] \in Cut
    OBVIOUS
  <2> HIDE DEF At
  <2> QED
    BY <2>1, <2>2, RowGrows
<1>2. ASSUME NEW j \in 1..m - 1, Good(j)
      PROVE  Good(j + 1)
  <2>1. j \in Nat /\ j + 1 \in 1..m /\ n + j - 1 \in Int /\ n + j \in Episode /\ j \in 1..m
    BY <1>0
  <2>2. At(j) \in CutRows /\ Placed(At(j)) = {e \in Placed(R) : e <= n + j - 1}
    BY <2>1, PrefixIs
  <2>3. \A e \in Placed(At(j)) : e < n + j
    BY <1>0, <2>1, <2>2, PlacedIs
  <2>4. At(j + 1) = [At(j) EXCEPT ![n + j] = cuts[j + 1]]
    <3>1. \A e \in Episode : At(j + 1)[e] = [At(j) EXCEPT ![n + j] = cuts[j + 1]][e]
      <4> TAKE e \in Episode
      <4>1. CASE e < n + j
        <5>1. e <= n + j - 1 /\ e <= n + (j + 1) - 1 /\ e # n + j
          BY <1>0, <2>1, <4>1
        <5> QED
          BY <5>1 DEF UpToNumber
      <4>2. CASE e = n + j
        <5>1. n + j <= n + m - 1 /\ (n + j) - n + 1 = j + 1 /\ ~(n + j < n) /\ n + j <= n + (j + 1) - 1
          BY <1>0, <2>1
        <5>2. R[n + j] = cuts[j + 1]
          BY <2>1, <5>1
        <5> QED
          BY <4>2, <5>1, <5>2 DEF UpToNumber
      <4>3. CASE n + j < e
        <5>1. ~(e <= n + j - 1) /\ ~(e <= n + (j + 1) - 1) /\ e # n + j
          BY <1>0, <2>1, <4>3
        <5> QED
          BY <5>1 DEF UpToNumber
      <4> QED
        BY <1>0, <2>1, <4>1, <4>2, <4>3
    <3>2. DOMAIN At(j + 1) = Episode /\ At(j + 1) = [e \in Episode |-> At(j + 1)[e]]
      BY DEF UpToNumber
    <3>3. DOMAIN At(j) = Episode
      BY DEF UpToNumber
    <3> QED
      BY <3>1, <3>2, <3>3
  <2>5. cuts[j + 1] \in Cut /\ NothingBetween(Reach(At(j)), From(cuts[j + 1]))
    BY <1>2, <2>1
  <2>6. Whole(At(j))
    BY <1>2
  <2> HIDE DEF At
  <2> QED
    BY <2>1, <2>2, <2>3, <2>4, <2>5, <2>6, RowGrows
<1> HIDE DEF Good
<1>3. Bad = {}
  <2> SUFFICES ASSUME Bad # {}
               PROVE  FALSE
    OBVIOUS
  <2>1. Bad \in SUBSET Nat
    OBVIOUS
  <2>2. PICK j \in Bad : \A x \in Bad : j <= x
    <3> HIDE DEF Bad
    <3> QED
      BY <2>1, LeastNatural
  <2>3. j \in 2..m /\ j - 1 \in 1..m - 1 /\ j - 1 \in 1..m /\ ~(j <= j - 1)
    BY <1>1
  <2>4. Good(j - 1)
    BY <2>2, <2>3
  <2>5. Good((j - 1) + 1) /\ (j - 1) + 1 = j
    BY <1>2, <2>3, <2>4
  <2> QED
    BY <2>2, <2>5
<1>4. Good(m)
  BY <1>3
<1>5. At(m) = R
  <2>1. \A e \in Episode : At(m)[e] = R[e]
    BY <1>0 DEF UpToNumber
  <2> QED
    BY <2>1 DEF UpToNumber, CutRows
<1> QED
  BY <1>4, <1>5 DEF Good

-----------------------------------------------------------------------------
(* The row of a ledger *)

\* Entries that backfill_episode_ledger looks up in the source, and the cuts that it
\* leaves.
Sought(e) == ledger[e] = NULL \/ ledger[e].status = "none"
FilledRow == [e \in Episode |-> IF Sought(e) THEN IF text[e] \in Cut THEN text[e] ELSE NULL
                                ELSE ledger[e].cut]

LEMMA RowIs ==
    ASSUME NEW L \in Ledgers
    PROVE  /\ Row(L) \in CutRows
           /\ Placed(Row(L)) = Anchored(L)
           /\ \A e \in Anchored(L) : Row(L)[e] = L[e].cut
<1>1. \A e \in Episode : L[e] # NULL => L[e].cut \in Cut \cup {NULL}
  BY DEF Ledgers, Entry
<1> QED
  BY <1>1 DEF Row, CutRows, Placed, Anchored

LEMMA LastEndIs ==
    ASSUME NEW L \in Ledgers, Anchored(L) # {}
    PROVE  LastEnd(L) = Reach(Row(L))
<1>1. Max(Anchored(L)) \in Anchored(L)
  BY RowIs, PlacedIs
<1> QED
  BY <1>1, RowIs DEF LastEnd, Reach, UpTo

LEMMA LookedUp == LedgerTypeOK => FilledRow \in CutRows /\ Row(Filled) = FilledRow
<1> SUFFICES ASSUME LedgerTypeOK
             PROVE  FilledRow \in CutRows /\ Row(Filled) = FilledRow
  OBVIOUS
<1>1. ASSUME NEW e \in Episode
      PROVE  Row(Filled)[e] = IF Sought(e) THEN IF text[e] \in Cut THEN text[e] ELSE NULL
                              ELSE ledger[e].cut
  <2>1. /\ Filled[e] = NULL <=> ledger[e] = NULL /\ text[e] = NULL
        /\ ledger[e] # NULL /\ ledger[e].status # "none" => Filled[e] = ledger[e]
        /\ (ledger[e] # NULL /\ ledger[e].status = "none") \/ (ledger[e] = NULL /\ text[e] # NULL)
             => Filled[e].cut = IF text[e] \in Cut THEN text[e] ELSE NULL
    BY FilledAt
  <2>2. NULL \notin Cut
    BY NotNull
  <2>3. Row(Filled)[e] = IF Filled[e] = NULL THEN NULL ELSE Filled[e].cut
    BY DEF Row
  <2> QED
    BY <2>1, <2>2, <2>3 DEF Sought
<1>2. Row(Filled) = FilledRow
  BY <1>1 DEF Row, FilledRow
<1> QED
  BY <1>2, FilledForm, RowIs

LEMMA LookedUpNext == LedgerTypeOK' => FilledRow' \in CutRows /\ Row(Filled)' = FilledRow'
<1>1. (LedgerTypeOK => FilledRow \in CutRows /\ Row(Filled) = FilledRow)'
  BY LookedUp, PTL
<1> QED
  BY <1>1

\* The cursor is at most where some entry of project.json ends.
CursorWithin == cursor # NULL => \E e \in Anchored(ledger) : NotAfter(cursor, UpTo(ledger[e].cut))

\* An entry with a cut has been looked up.
AnchoredSettled == \A e \in Anchored(ledger) : ledger[e].status # "none"

LEMMA AnchoredPlaced ==
    ASSUME LedgerTypeOK, AnchoredSettled, NEW e \in Anchored(ledger)
    PROVE  e \in Placed(FilledRow) /\ FilledRow[e] = ledger[e].cut /\ ledger[e].cut \in Cut
<1>1. ledger \in Ledgers
  BY DEF LedgerTypeOK, Ledgers
<1>2. e \in Episode /\ ledger[e] # NULL /\ ledger[e].cut # NULL /\ ledger[e].status # "none"
  BY DEF Anchored, AnchoredSettled
<1> QED
  BY <1>1, <1>2, AnchoredCut DEF FilledRow, Sought, Placed

\* Planning goes on where the row of cuts ends.
LEMMA StartIs ==
    ASSUME LedgerTypeOK, AnchoredSettled, CursorWithin, Whole(FilledRow)
    PROVE  /\ EffectiveStart = Reach(FilledRow)
           /\ FilledCursor # NULL => /\ Placed(FilledRow) # {}
                                     /\ NotAfter(FilledCursor, Reach(FilledRow))
<1> DEFINE L == Filled
           c == FilledCursor
<1>1. /\ L \in Ledgers /\ FilledRow \in CutRows /\ Row(L) = FilledRow
      /\ Placed(FilledRow) = Anchored(L)
  BY FilledForm, LookedUp, RowIs
<1>2. Anchored(L) # {} => LastEnd(L) = Reach(FilledRow)
  BY <1>1, LastEndIs
<1>3. c = IF cursor = NULL /\ Anchored(L) # {} THEN LastEnd(L) ELSE cursor
  BY DEF FilledCursor
<1>4. Reach(FilledRow) \in Place
  BY <1>1, ReachIs
<1>5. cursor # NULL => Placed(FilledRow) # {} /\ NotAfter(cursor, Reach(FilledRow))
  <2> SUFFICES ASSUME cursor # NULL
               PROVE  Placed(FilledRow) # {} /\ NotAfter(cursor, Reach(FilledRow))
    OBVIOUS
  <2>1. PICK e \in Anchored(ledger) : NotAfter(cursor, UpTo(ledger[e].cut))
    BY DEF CursorWithin
  <2>2. e \in Placed(FilledRow) /\ FilledRow[e] = ledger[e].cut /\ ledger[e].cut \in Cut
    BY AnchoredPlaced
  <2>3. NotAfter(UpTo(ledger[e].cut), Reach(FilledRow)) /\ UpTo(ledger[e].cut) \in Place
    BY <1>1, <2>2, WithinReach, CutEnds
  <2>4. cursor \in Place
    BY DEF LedgerTypeOK
  <2> QED
    BY <1>4, <2>1, <2>2, <2>3, <2>4, Order
<1>6. EffectiveStart = IF Anchored(L) = {} THEN IF c = NULL THEN [file |-> Files[1], at |-> 0] ELSE c
                       ELSE IF Before(LastEnd(L), c) THEN c ELSE LastEnd(L)
  BY DEF EffectiveStart
<1> HIDE DEF L, c
<1>7. CASE Anchored(L) = {}
  <2>1. c = NULL /\ Placed(FilledRow) = {}
    BY <1>1, <1>3, <1>5, <1>7
  <2> QED
    BY <1>6, <1>7, <2>1 DEF Reach, c
<1>8. CASE Anchored(L) # {}
  <2>1. NotAfter(c, Reach(FilledRow))
    BY <1>2, <1>3, <1>4, <1>5, <1>8, Order
  <2>2. ~Before(LastEnd(L), c)
    BY <1>2, <1>8, <2>1 DEF NotAfter
  <2> QED
    BY <1>1, <1>2, <1>6, <1>8, <2>1, <2>2 DEF c
<1> QED
  BY <1>7, <1>8

-----------------------------------------------------------------------------
(* The invariant of the cuts *)

Coverage == ~torn.lost => Whole(FilledRow) /\ CursorWithin
PlansGoOn == \A c \in Call : call[c].pc = "planning" => PlanFrom(call[c].start) # NULL
NothingLeft == (\E c \in Call : call[c].pc = "exhausted") /\ ~torn.lost
                  => PlanFrom(Reach(FilledRow)) = NULL

CoverInd == LedgerIndInv /\ AnchoredSettled /\ Coverage /\ PlansGoOn /\ NothingLeft

\* A commit leaves the row of what it commits.
LEMMA CommitRow ==
    ASSUME LedgerTypeOK, NEW L, Settled(L), NEW cur, Commit(L, cur)
    PROVE  FilledRow' = Row(L)
<1>1. L \in Ledgers /\ ledger' = L /\ text' = FilesOf(L)
  BY DEF Commit, Settled
<1>2. ASSUME NEW e \in Episode
      PROVE  FilledRow'[e] = Row(L)[e]
  <2>1. FilledRow'[e] = IF L[e] = NULL \/ L[e].status = "none"
                        THEN IF FilesOf(L)[e] \in Cut THEN FilesOf(L)[e] ELSE NULL
                        ELSE L[e].cut
    BY <1>1 DEF FilledRow, Sought
  <2>2. L[e] # NULL => L[e].status # "none"
    BY DEF Settled
  <2>3. L[e] = NULL => FilesOf(L)[e] = NULL
    BY DEF FilesOf
  <2>4. Row(L)[e] = IF L[e] = NULL THEN NULL ELSE L[e].cut
    BY DEF Row
  <2>5. NULL \notin Cut
    BY NotNull
  <2> QED
    BY <2>1, <2>2, <2>3, <2>4, <2>5
<1> QED
  BY <1>2 DEF FilledRow, Row

LEMMA CommitCovers ==
    ASSUME LedgerTypeOK, NEW L, Settled(L), NEW cur, Commit(L, cur),
           ~torn.lost => /\ Whole(Row(L))
                         /\ Placed(Row(L)) # {} /\ NotAfter(cur, Reach(Row(L)))
    PROVE  AnchoredSettled' /\ Coverage'
<1>1. L \in Ledgers /\ ledger' = L /\ cursor' = cur /\ torn'.lost = torn.lost
  BY DEF Commit, Settled, LedgerTypeOK
<1>2. FilledRow' = Row(L)
  BY CommitRow
<1>3. AnchoredSettled'
  BY <1>1 DEF AnchoredSettled, Settled, Anchored
<1>4. ASSUME ~torn.lost
      PROVE  CursorWithin'
  <2>1. Row(L) \in CutRows /\ Placed(Row(L)) = Anchored(L) /\ \A e \in Anchored(L) : Row(L)[e] = L[e].cut
    BY <1>1, RowIs
  <2>2. PICK m \in Placed(Row(L)) : Reach(Row(L)) = UpTo(Row(L)[m])
    BY <1>4, <2>1, ReachIs
  <2>3. m \in Anchored(L) /\ NotAfter(cur, UpTo(L[m].cut))
    BY <1>4, <2>1, <2>2
  <2> QED
    BY <1>1, <2>3 DEF CursorWithin, Anchored, UpTo, NotAfter, Before
<1>5. ASSUME ~torn.lost
      PROVE  Whole(FilledRow)'
  <2>1. Whole(Row(L))
    BY <1>5
  <2>2. Whole(FilledRow') <=> Whole(FilledRow)'
    BY DEF Whole, Placed, Reach, UpTo, From, Holds, Before
  <2> QED
    BY <1>2, <2>1, <2>2
<1> QED
  BY <1>1, <1>3, <1>4, <1>5 DEF Coverage

\* A call that plans has something to plan, and one that reports the source as
\* exhausted is right.
FineCall(r) == /\ r.pc = "planning" => PlanFrom(r.start) # NULL
               /\ r.pc = "exhausted" /\ ~torn.lost => PlanFrom(Reach(FilledRow)) = NULL

\* A step that leaves the row of cuts as it is
LEMMA RowKept ==
    ASSUME CoverInd, LedgerIndInv', FilledRow' = FilledRow, torn'.lost = torn.lost,
           AnchoredSettled', ~torn.lost => CursorWithin',
           \A d \in Call : call'[d] = call[d] \/ FineCall(call'[d])
    PROVE  CoverInd'
<1>1. Whole(FilledRow)' <=> Whole(FilledRow)
  BY DEF Whole, Placed, Reach, UpTo, From, Holds, Before
<1>2. Coverage'
  BY <1>1 DEF Coverage, CoverInd
<1>3. \A d \in Call : call'[d].pc = "planning" => PlanFrom(call'[d].start) # NULL
  BY DEF CoverInd, PlansGoOn, FineCall
<1>4. PlansGoOn'
  BY <1>3 DEF PlansGoOn, PlanFrom, NextFile
<1>5. (\E d \in Call : call'[d].pc = "exhausted") /\ ~torn.lost => PlanFrom(Reach(FilledRow)) = NULL
  BY DEF CoverInd, NothingLeft, FineCall
<1>6. NothingLeft'
  BY <1>5 DEF NothingLeft, PlanFrom, NextFile, Reach, UpTo, Placed
<1> QED
  BY <1>2, <1>4, <1>6 DEF CoverInd

LEMMA CallsFine ==
    ASSUME CallsOK, NEW c \in Call, NEW r, To(c, r), FineCall(r)
    PROVE  \A d \in Call : call'[d] = call[d] \/ FineCall(call'[d])
<1>1. \A d \in Call : call'[d] = IF d = c THEN r ELSE call[d]
  BY DEF To, CallsOK
<1> QED
  BY <1>1

LEMMA IdleFine == FineCall(Idle)
BY DEF FineCall, Idle

\* A step that leaves project.json and the episode files alone
LEMMA ProjectKept ==
    ASSUME CoverInd, LedgerIndInv', UNCHANGED <<project, text, torn>>,
           \A d \in Call : call'[d] = call[d] \/ FineCall(call'[d])
    PROVE  CoverInd'
<1>1. FilledRow' = FilledRow
  BY DEF project, FilledRow, Sought
<1>2. AnchoredSettled'
  BY DEF project, CoverInd, AnchoredSettled, Anchored
<1>3. ~torn.lost => CursorWithin'
  BY DEF project, CoverInd, Coverage, CursorWithin, Anchored, UpTo, NotAfter, Before
<1> QED
  BY <1>1, <1>2, <1>3, RowKept

LEMMA EffectiveStartIs ==
    ASSUME CoverInd, ~torn.lost
    PROVE  EffectiveStart = Reach(FilledRow)
BY StartIs DEF CoverInd, LedgerIndInv, Coverage

LEMMA ReadsCover ==
    ASSUME CoverInd, LedgerIndInv', NEW c \in Call,
           \/ PlanReads(c) \/ PlanConflicts(c) \/ PlanAnswers(c) \/ ReplanConflicts(c) \/ Fails(c)
           \/ \E from \in Episode, consent \in BOOLEAN : ReplanReads(c, from, consent)
           \/ \E e \in Worked : SplitReads(c, e) \/ PassesGate(c, e) \/ PassesBlindly(c, e)
    PROVE  CoverInd'
<1>1. CallsOK
  BY DEF CoverInd, LedgerIndInv
<1>2. Quiet => UNCHANGED <<project, text, torn>>
  BY DEF Quiet, files
<1>3. CASE PlanReads(c)
  <2> DEFINE r == IF PlanFrom(EffectiveStart) = NULL THEN [Idle EXCEPT !.pc = "exhausted"]
                  ELSE [Idle EXCEPT !.pc = "planning", !.start = EffectiveStart]
  <2>1. To(c, r) /\ Quiet
    BY <1>3 DEF PlanReads
  <2>2. /\ r.pc = "planning" => PlanFrom(EffectiveStart) # NULL /\ r.start = EffectiveStart
        /\ r.pc = "exhausted" => PlanFrom(EffectiveStart) = NULL
    BY DEF Idle
  <2> HIDE DEF r
  <2>3. FineCall(r)
    BY <2>2, EffectiveStartIs DEF FineCall
  <2> QED
    BY <1>1, <1>2, <2>1, <2>3, CallsFine, ProjectKept
<1>4. CASE PlanConflicts(c) \/ PlanAnswers(c) \/ ReplanConflicts(c) \/ Fails(c)
  <2>1. To(c, Idle) /\ Quiet
    BY <1>4 DEF Fails, PlanConflicts, PlanAnswers, ReplanConflicts, Ends
  <2> QED
    BY <1>1, <1>2, <2>1, IdleFine, CallsFine, ProjectKept
<1>5. CASE \/ \E from \in Episode, consent \in BOOLEAN : ReplanReads(c, from, consent)
           \/ \E e \in Worked : SplitReads(c, e) \/ PassesGate(c, e) \/ PassesBlindly(c, e)
  <2>1. PICK r : To(c, r) /\ Quiet /\ r.pc \in {"replanning", "splitting", "gated", "ungated"}
    <3>1. ASSUME NEW from \in Episode, NEW consent \in BOOLEAN, ReplanReads(c, from, consent)
          PROVE  \E r : To(c, r) /\ Quiet /\ r.pc \in {"replanning", "splitting", "gated", "ungated"}
      <4> DEFINE r == [Idle EXCEPT !.pc = "replanning", !.ep = from, !.scope = CutsOf(from),
                                   !.consumed = Consumed(from),
                                   !.consent = consent /\ Consumed(from) # {}]
      <4>1. To(c, r) /\ Quiet
        BY <3>1 DEF ReplanReads
      <4>2. r.pc = "replanning"
        BY DEF Idle
      <4> HIDE DEF r
      <4> QED
        BY <4>1, <4>2
    <3>2. ASSUME NEW e \in Worked, SplitReads(c, e)
          PROVE  \E r : To(c, r) /\ Quiet /\ r.pc \in {"replanning", "splitting", "gated", "ungated"}
      <4>1. PICK t \in Text : To(c, [Idle EXCEPT !.pc = "splitting", !.ep = e, !.content = t]) /\ Quiet
        BY <3>2 DEF SplitReads
      <4>2. [Idle EXCEPT !.pc = "splitting", !.ep = e, !.content = t].pc = "splitting"
        BY DEF Idle
      <4> QED
        BY <4>1, <4>2
    <3>3. ASSUME NEW e \in Worked, PassesGate(c, e) \/ PassesBlindly(c, e)
          PROVE  \E r : To(c, r) /\ Quiet /\ r.pc \in {"replanning", "splitting", "gated", "ungated"}
      <4>1. /\ \/ To(c, [Idle EXCEPT !.pc = "gated", !.ep = e])
               \/ To(c, [Idle EXCEPT !.pc = "ungated", !.ep = e])
            /\ Quiet
        BY <3>3 DEF PassesGate, PassesBlindly
      <4>2. /\ [Idle EXCEPT !.pc = "gated", !.ep = e].pc = "gated"
            /\ [Idle EXCEPT !.pc = "ungated", !.ep = e].pc = "ungated"
        BY DEF Idle
      <4> QED
        BY <4>1, <4>2
    <3> QED
      BY <1>5, <3>1, <3>2, <3>3
  <2>2. FineCall(r)
    BY <2>1 DEF FineCall
  <2> QED
    BY <1>1, <1>2, <2>1, <2>2, CallsFine, ProjectKept
<1> QED
  BY <1>3, <1>4, <1>5

LEMMA EndsCover ==
    ASSUME CoverInd, LedgerIndInv', NEW c \in Call,
           SplitWrites(c) \/ ConfirmRewrites(c) \/ ConfirmTakesAgain(c)
    PROVE  CoverInd'
<1>1. CallsOK /\ UNCHANGED <<project, text, torn>>
  BY DEF CoverInd, LedgerIndInv, SplitWrites, ConfirmRewrites, ConfirmTakesAgain, files
<1>2. CASE SplitWrites(c)
  BY <1>1, <1>2, IdleFine, CallsFine, ProjectKept DEF SplitWrites, Ends
<1>3. CASE ConfirmRewrites(c) \/ ConfirmTakesAgain(c)
  <2>1. PICK r : To(c, r) /\ r.pc \in {"rewritten", "confirming"}
    <3> USE DEF To
    <3>1. ASSUME ConfirmRewrites(c)
          PROVE  \E r : To(c, r) /\ r.pc \in {"rewritten", "confirming"}
      <4> DEFINE r == [Idle EXCEPT !.pc = "rewritten", !.ep = call[c].ep]
      <4>1. r.pc = "rewritten"
        BY DEF Idle
      <4> QED
        BY <3>1, <4>1 DEF ConfirmRewrites
    <3>2. ASSUME ConfirmTakesAgain(c)
          PROVE  \E r : To(c, r) /\ r.pc \in {"rewritten", "confirming"}
      <4> DEFINE r == [Idle EXCEPT !.pc = "confirming", !.ep = call[c].ep,
                                   !.content = step1[call[c].ep]]
      <4>1. r.pc = "confirming"
        BY DEF Idle
      <4> QED
        BY <3>2, <4>1 DEF ConfirmTakesAgain
    <3> QED
      BY <1>3, <3>1, <3>2
  <2>2. FineCall(r)
    BY <2>1 DEF FineCall
  <2> QED
    BY <1>1, <2>1, <2>2, CallsFine, ProjectKept
<1> QED
  BY <1>2, <1>3

LEMMA CrashCover ==
    ASSUME CoverInd, LedgerIndInv', Crash
    PROVE  CoverInd'
<1>1. UNCHANGED <<project, text, torn>> /\ \A d \in Call : call'[d] = Idle
  BY DEF Crash, Restart
<1> QED
  BY <1>1, IdleFine, ProjectKept

\* What is looked up and stored is what a reader found.
LEMMA RequiresRow ==
    ASSUME LedgerTypeOK, AnchoredSettled, NEW e \in Episode, Requires(e), text' = text
    PROVE  /\ FilledRow' = FilledRow
           /\ AnchoredSettled'
           /\ Whole(FilledRow) /\ CursorWithin => CursorWithin'
<1>1. CASE UNCHANGED project
  BY <1>1 DEF project, FilledRow, Sought, AnchoredSettled, CursorWithin, Anchored, UpTo, NotAfter, Before
<1>2. CASE ledger' = Filled /\ cursor' = FilledCursor
  <2>1. Filled \in Ledgers /\ Settled(Filled)
    BY FilledForm, FilledSettled
  <2>2. ASSUME NEW d \in Episode
        PROVE  FilledRow'[d] = Row(Filled)[d]
    <3>1. FilledRow'[d] = IF Filled[d] = NULL \/ Filled[d].status = "none"
                          THEN IF text[d] \in Cut THEN text[d] ELSE NULL
                          ELSE Filled[d].cut
      BY <1>2 DEF FilledRow, Sought
    <3>2. Filled[d] # NULL => Filled[d].status # "none"
      BY <2>1 DEF Settled
    <3>3. Filled[d] = NULL => text[d] = NULL
      BY FilledAt
    <3>4. Row(Filled)[d] = IF Filled[d] = NULL THEN NULL ELSE Filled[d].cut
      BY DEF Row
    <3>5. NULL \notin Cut
      BY NotNull
    <3> QED
      BY <3>1, <3>2, <3>3, <3>4, <3>5
  <2>3. FilledRow' = Row(Filled)
    BY <2>2 DEF FilledRow, Row
  <2>4. AnchoredSettled'
    BY <1>2, <2>1 DEF AnchoredSettled, Settled, Anchored
  <2>5. ASSUME Whole(FilledRow), CursorWithin, cursor' # NULL
        PROVE  CursorWithin'
    <3>1. FilledRow \in CutRows /\ Row(Filled) = FilledRow
      BY LookedUp
    <3>2. Placed(FilledRow) # {} /\ NotAfter(FilledCursor, Reach(FilledRow))
      BY <1>2, <2>5, StartIs
    <3>3. PICK m \in Placed(FilledRow) : Reach(FilledRow) = UpTo(FilledRow[m])
      BY <3>1, <3>2, ReachIs
    <3>4. m \in Anchored(Filled) /\ FilledRow[m] = Filled[m].cut
      BY <2>1, <3>1, RowIs
    <3>5. m \in Anchored(Filled) /\ NotAfter(FilledCursor, UpTo(Filled[m].cut))
      BY <3>2, <3>3, <3>4
    <3> QED
      BY <1>2, <3>5 DEF CursorWithin, Anchored, UpTo, NotAfter, Before
  <2> QED
    BY <2>3, <2>4, <2>5, LookedUp DEF CursorWithin
<1> QED
  BY <1>1, <1>2 DEF Requires

LEMMA SavesCover ==
    ASSUME CoverInd, LedgerIndInv', NEW e \in Worked,
           \/ \E t \in Text : SaveContent(e, t)
           \/ \E c \in Call : ConfirmReads(c, e) \/ ConfirmReadsUnits(c, e)
    PROVE  CoverInd'
<1>1. /\ e \in Episode /\ Requires(e) /\ text' = text /\ torn' = torn
      /\ \A d \in Call : call'[d] = call[d] \/ FineCall(call'[d])
  <2>1. ASSUME NEW t \in Text, SaveContent(e, t)
        PROVE  Requires(e) /\ text' = text /\ torn' = torn /\ call' = call
    BY <2>1 DEF SaveContent
  <2>2. ASSUME NEW c \in Call, ConfirmReads(c, e) \/ ConfirmReadsUnits(c, e)
        PROVE  /\ Requires(e) /\ text' = text /\ torn' = torn
               /\ \A d \in Call : call'[d] = call[d] \/ FineCall(call'[d])
    <3> DEFINE r == [Idle EXCEPT !.pc = "confirming", !.ep = e, !.content = step1[e]]
               u == [Idle EXCEPT !.pc = "rewriting", !.ep = e]
    <3>1. (To(c, r) \/ To(c, u)) /\ Requires(e) /\ text' = text /\ torn' = torn
      BY <2>2 DEF ConfirmReads, ConfirmReadsUnits, files
    <3>2. r.pc = "confirming" /\ u.pc = "rewriting"
      BY DEF Idle
    <3> HIDE DEF r, u
    <3>3. FineCall(r) /\ FineCall(u)
      BY <3>2 DEF FineCall
    <3>4. CallsOK
      BY DEF CoverInd, LedgerIndInv
    <3> QED
      BY <3>1, <3>3, <3>4, CallsFine
  <2> QED
    BY <2>1, <2>2, LedgerAssumption DEF LedgerAssumption
<1>2. LedgerTypeOK /\ AnchoredSettled /\ Coverage
  BY DEF CoverInd, LedgerIndInv
<1> QED
  BY <1>1, <1>2, RequiresRow, RowKept DEF Coverage

LEMMA ConfirmCover ==
    ASSUME CoverInd, LedgerIndInv', NEW c \in Call, ConfirmWrites(c)
    PROVE  CoverInd'
<1>1. LedgerIndInv /\ CallsOK
  BY DEF CoverInd, LedgerIndInv
<1>2. /\ \A d \in Episode : ledger[d] = NULL <=> ledger'[d] = NULL
      /\ \A d \in Episode : ledger[d] # NULL => /\ ledger'[d].cut = ledger[d].cut
                                                /\ ledger'[d].status = ledger[d].status
  BY <1>1, ConfirmWritesInd
<1>3. text' = text /\ torn' = torn /\ cursor' = cursor /\ To(c, Idle)
  BY DEF ConfirmWrites, files, Ends
<1>4. FilledRow' = FilledRow
  BY <1>2, <1>3 DEF FilledRow, Sought
<1>5. \A d \in Episode : d \in Anchored(ledger') <=> d \in Anchored(ledger)
  BY <1>2 DEF Anchored
<1>6. Anchored(ledger') = Anchored(ledger) /\ \A d \in Anchored(ledger) : d \in Episode /\ ledger[d] # NULL
  BY <1>5 DEF Anchored
<1>7. AnchoredSettled'
  <2>1. \A d \in Anchored(ledger') : ledger'[d].status # "none"
    BY <1>2, <1>6 DEF AnchoredSettled, CoverInd
  <2> QED
    BY <2>1 DEF AnchoredSettled, Anchored
<1>8. CursorWithin => CursorWithin'
  <2> SUFFICES ASSUME CursorWithin, cursor # NULL
               PROVE  CursorWithin'
    BY <1>3 DEF CursorWithin
  <2>1. PICK d \in Anchored(ledger) : NotAfter(cursor, UpTo(ledger[d].cut))
    BY DEF CursorWithin
  <2>2. d \in Anchored(ledger') /\ NotAfter(cursor', UpTo(ledger'[d].cut))
    BY <1>2, <1>3, <1>6, <2>1
  <2> QED
    BY <2>2 DEF CursorWithin, Anchored, UpTo, NotAfter, Before
<1> QED
  BY <1>1, <1>3, <1>4, <1>7, <1>8, IdleFine, CallsFine, RowKept DEF CoverInd, Coverage

LEMMA ScriptCover ==
    ASSUME CoverInd, LedgerIndInv', NEW c \in Call, SavesScript(c)
    PROVE  CoverInd'
<1> DEFINE n == [cut |-> NULL, status |-> "none", review |-> NULL]
<1>1. LedgerIndInv /\ CallsOK
  BY DEF CoverInd, LedgerIndInv
<1>2. \A d \in Episode : ledger'[d] = ledger[d] \/ (ledger[d] = NULL /\ ledger'[d] = n)
  BY <1>1, SavesScriptInd
<1>3. text' = text /\ torn' = torn /\ cursor' = cursor /\ To(c, Idle)
  BY DEF SavesScript, Ends
<1>4. n.cut = NULL /\ n.status = "none"
  OBVIOUS
<1> HIDE DEF n
<1>5. FilledRow' = FilledRow
  <2>1. ASSUME NEW d \in Episode
        PROVE  FilledRow'[d] = FilledRow[d]
    <3>1. FilledRow'[d] = IF ledger'[d] = NULL \/ ledger'[d].status = "none"
                          THEN IF text[d] \in Cut THEN text[d] ELSE NULL ELSE ledger'[d].cut
      BY <1>3 DEF FilledRow, Sought
    <3>2. FilledRow[d] = IF ledger[d] = NULL \/ ledger[d].status = "none"
                         THEN IF text[d] \in Cut THEN text[d] ELSE NULL ELSE ledger[d].cut
      BY DEF FilledRow, Sought
    <3>3. CASE ledger'[d] = ledger[d]
      BY <3>1, <3>2, <3>3
    <3>4. CASE ledger[d] = NULL /\ ledger'[d] = n
      BY <1>4, <3>1, <3>2, <3>4
    <3> QED
      BY <1>2, <3>3, <3>4
  <2> QED
    BY <2>1 DEF FilledRow
<1>6. \A d \in Episode : (ledger'[d] # NULL /\ ledger'[d].cut # NULL) <=> (ledger[d] # NULL /\ ledger[d].cut # NULL)
  BY <1>2, <1>4
<1>7. Anchored(ledger') = Anchored(ledger) /\ \A d \in Anchored(ledger) : ledger'[d] = ledger[d]
  BY <1>2, <1>4, <1>6 DEF Anchored
<1>8. AnchoredSettled'
  <2>1. \A d \in Anchored(ledger') : ledger'[d].status # "none"
    BY <1>7 DEF AnchoredSettled, CoverInd
  <2> QED
    BY <2>1 DEF AnchoredSettled, Anchored
<1>9. CursorWithin => CursorWithin'
  <2> SUFFICES ASSUME CursorWithin, cursor # NULL
               PROVE  CursorWithin'
    BY <1>3 DEF CursorWithin
  <2>1. PICK d \in Anchored(ledger) : NotAfter(cursor, UpTo(ledger[d].cut))
    BY DEF CursorWithin
  <2>2. d \in Anchored(ledger') /\ NotAfter(cursor', UpTo(ledger'[d].cut))
    BY <1>3, <1>7, <2>1
  <2> QED
    BY <2>2 DEF CursorWithin, Anchored, UpTo, NotAfter, Before
<1> QED
  BY <1>1, <1>3, <1>5, <1>8, <1>9, IdleFine, CallsFine, RowKept DEF CoverInd, Coverage

-----------------------------------------------------------------------------
(* A plan goes on where the row ends *)

LEMMA PlanDraftIs ==
    ASSUME NEW p \in Place, NEW cuts \in PlanDrafts(p)
    PROVE  \E m \in Nat \ {0} :
             /\ cuts \in [1..m -> Cut] /\ Len(cuts) = m /\ Last(cuts) = cuts[m]
             /\ From(cuts[1]) = p
             /\ \A i \in 1..m - 1 : From(cuts[i + 1]) = UpTo(cuts[i])
<1>1. PICK m \in 1..MaxPlanned : cuts \in [1..m -> Cut]
  BY DEF PlanDrafts
<1>2. /\ cuts[1].file = p.file /\ cuts[1].start = p.at
      /\ \A i \in 1..Len(cuts) - 1 : GoesOn(cuts[i], cuts[i + 1])
  BY DEF PlanDrafts
<1>3. m \in Nat \ {0} /\ Len(cuts) = m /\ Last(cuts) = cuts[m]
  BY <1>1 DEF Last
<1>4. From(cuts[1]) = p
  BY <1>2, PlaceIs DEF From
<1>5. \A i \in 1..m - 1 : From(cuts[i + 1]) = UpTo(cuts[i])
  BY <1>2, <1>3 DEF GoesOn, From, UpTo
<1> QED
  BY <1>1, <1>3, <1>4, <1>5

LEMMA AppendedRow ==
    ASSUME LedgerTypeOK, NEW m \in Nat \ {0}, NEW cuts \in [1..m -> Cut], NEW e \in Episode
    PROVE  Row(Appended(cuts))[e] = IF e < NextNumber THEN FilledRow[e]
                                    ELSE IF e <= NextNumber + m - 1 THEN cuts[e - NextNumber + 1]
                                    ELSE NULL
<1> DEFINE n == NextNumber
           st == [d \in Episode |-> "planned"]
           new == Numbered(cuts, n, st)
<1>1. n \in Nat \ {0} /\ e \in Nat /\ Len(cuts) = m
  BY NextNumberIs DEF Episode
<1>2. Appended(cuts)[e] = IF e \in DOMAIN new THEN new[e] ELSE Filled[e]
  BY DEF Appended
<1>3. DOMAIN new = n..n + m - 1
  BY <1>1 DEF Numbered
<1>4. ASSUME e \in DOMAIN new
      PROVE  new[e] # NULL /\ new[e].cut = cuts[e - n + 1]
  <2>1. new[e] = [cut |-> cuts[e - n + 1], status |-> st[e], review |-> NULL]
    BY <1>1, <1>3, <1>4 DEF Numbered
  <2>2. e - n + 1 \in 1..m
    BY <1>1, <1>3, <1>4
  <2>3. new[e] \in Entry
    BY <2>1, <2>2 DEF Entry, Status
  <2> QED
    BY <2>1, <2>3, NotNull
<1>5. ~(e < n) => Filled[e] = NULL
  BY <1>1, NextNumberIs DEF Entries
<1>6. FilledRow[e] = IF Filled[e] = NULL THEN NULL ELSE Filled[e].cut
  BY LookedUp DEF Row
<1>7. Row(Appended(cuts))[e] = IF Appended(cuts)[e] = NULL THEN NULL ELSE Appended(cuts)[e].cut
  BY DEF Row
<1> HIDE DEF new
<1>8. CASE e < n
  BY <1>1, <1>2, <1>3, <1>6, <1>7, <1>8
<1>9. CASE ~(e < n) /\ e <= n + m - 1
  <2>1. e \in DOMAIN new
    BY <1>1, <1>3, <1>9
  <2> QED
    BY <1>2, <1>4, <1>7, <1>9, <2>1
<1>10. CASE ~(e < n) /\ ~(e <= n + m - 1)
  <2>1. e \notin DOMAIN new
    BY <1>1, <1>3, <1>10
  <2> QED
    BY <1>2, <1>5, <1>7, <1>10, <2>1
<1> QED
  BY <1>8, <1>9, <1>10

\* The numbers of the row are below the next one.
LEMMA RowBelowNext ==
    ASSUME LedgerTypeOK
    PROVE  \A e \in Placed(FilledRow) : e < NextNumber
<1>1. Placed(FilledRow) = Anchored(Filled)
  BY LookedUp, FilledForm, RowIs
<1> QED
  BY <1>1, NextNumberIs DEF Anchored, Entries

LEMMA AppendedWhole ==
    ASSUME LedgerTypeOK, Whole(FilledRow), NEW p \in Place, NothingBetween(Reach(FilledRow), p),
           NEW cuts \in PlanDrafts(p), PlanFits(cuts)
    PROVE  /\ Whole(Row(Appended(cuts)))
           /\ Reach(Row(Appended(cuts))) = UpTo(Last(cuts))
           /\ Row(Appended(cuts)) \in CutRows
           /\ Placed(Row(Appended(cuts))) # {}
<1> DEFINE R == Row(Appended(cuts))
           n == NextNumber
<1>1. PICK m \in Nat \ {0} :
             /\ cuts \in [1..m -> Cut] /\ Len(cuts) = m /\ Last(cuts) = cuts[m]
             /\ From(cuts[1]) = p
             /\ \A i \in 1..m - 1 : From(cuts[i + 1]) = UpTo(cuts[i])
  BY PlanDraftIs
<1>2. n \in Nat \ {0} /\ n + m - 1 <= MaxEpisode /\ MaxEpisode \in Nat
  BY <1>1, NextNumberIs, LedgerAssumption DEF PlanFits, LedgerAssumption
<1>3. n \in Episode
  BY <1>2 DEF Episode
<1>4. \A i \in 1..m - 1 : NothingBetween(UpTo(cuts[i]), From(cuts[i + 1]))
  <2> TAKE i \in 1..m - 1
  <2>1. i \in 1..m
    OBVIOUS
  <2>2. cuts[i] \in Cut
    BY <1>1, <2>1
  <2>3. UpTo(cuts[i]) \in Place
    BY <2>2, CutEnds
  <2> QED
    BY <1>1, <2>3, NextStep
<1>5. R \in CutRows
  BY PlanDraftsForm, AppendedForm, RowIs DEF Settled
<1>6. \A e \in Episode : R[e] = IF e < n THEN FilledRow[e]
                                ELSE IF e <= n + m - 1 THEN cuts[e - n + 1] ELSE NULL
  BY <1>1, AppendedRow
<1>7. FilledRow \in CutRows /\ \A e \in Placed(FilledRow) : e < n
  BY LookedUp, RowBelowNext
<1>8. R[n] = cuts[1]
  <2>1. R[n] = cuts[n - n + 1]
    BY <1>2, <1>3, <1>6
  <2> QED
    BY <1>2, <2>1
<1>9. n \in Placed(R)
  <2>1. cuts[1] \in Cut
    BY <1>1
  <2>2. R[n] # NULL
    BY <1>8, <2>1, NotNull
  <2> QED
    BY <1>3, <2>2 DEF Placed
<1> HIDE DEF R, n
<1>10. Whole(R) /\ Reach(R) = UpTo(cuts[m])
  BY <1>1, <1>2, <1>3, <1>4, <1>5, <1>6, <1>7, RowExtends
<1> QED
  BY <1>1, <1>5, <1>9, <1>10 DEF R

LEMMA PlanCommitsCover ==
    ASSUME CoverInd, NEW c \in Call, PlanCommits(c)
    PROVE  CoverInd'
<1> DEFINE p == PlanFrom(call[c].start)
<1>1. LedgerTypeOK /\ CallsOK /\ LedgerIndInv
  BY DEF CoverInd, LedgerIndInv
<1>2. PICK cuts \in PlanDrafts(p) :
         /\ PlanFits(cuts)
         /\ Commit(Appended(cuts), [file |-> Last(cuts).file, at |-> Last(cuts).end])
         /\ To(c, IF PlanDone(cuts) THEN [Idle EXCEPT !.pc = "exhausted"] ELSE Idle)
  BY DEF PlanCommits
<1> DEFINE A == Appended(cuts)
           cur == UpTo(Last(cuts))
<1>3. Commit(A, cur) /\ Settled(A)
  BY <1>1, <1>2, PlanDraftsForm, AppendedForm DEF UpTo
<1>4. ASSUME ~torn.lost
      PROVE  /\ Whole(FilledRow) /\ EffectiveStart = Reach(FilledRow)
             /\ p \in Place /\ NothingBetween(Reach(FilledRow), p)
  <2>1. Whole(FilledRow) /\ EffectiveStart = Reach(FilledRow)
    BY <1>4, EffectiveStartIs DEF CoverInd, Coverage
  <2>2. call[c].start = Reach(FilledRow) /\ p # NULL
    BY <2>1 DEF PlanCommits, SameStart, CoverInd, PlansGoOn
  <2>3. Reach(FilledRow) \in Place /\ Reach(FilledRow).at <= Size[Reach(FilledRow).file]
    BY <1>1, LookedUp, ReachIs
  <2> QED
    BY <2>1, <2>2, <2>3, PlanFromIs
<1> HIDE DEF p
<1>5. ASSUME ~torn.lost
      PROVE  /\ Whole(Row(A)) /\ Reach(Row(A)) = cur
             /\ Row(A) \in CutRows /\ Placed(Row(A)) # {}
  BY <1>1, <1>2, <1>4, <1>5, AppendedWhole
<1>6. ~torn.lost => NotAfter(cur, Reach(Row(A)))
  BY <1>5, ReachIs, Order
<1>7. AnchoredSettled' /\ Coverage' /\ FilledRow' = Row(A)
  <2> HIDE DEF A, cur
  <2> QED
    BY <1>1, <1>3, <1>5, <1>6, CommitCovers, CommitRow
<1>8. LedgerIndInv'
  BY <1>1, PlanCommitsInd
<1>9. torn'.lost = torn.lost
  BY <1>1, <1>3 DEF Commit, LedgerTypeOK
<1> DEFINE r == IF PlanDone(cuts) THEN [Idle EXCEPT !.pc = "exhausted"] ELSE Idle
<1>10. /\ r.pc # "planning"
       /\ r.pc = "exhausted" => PlanDone(cuts)
  BY DEF Idle
<1>11. \A d \in Call : call'[d] = IF d = c THEN r ELSE call[d]
  BY <1>1, <1>2 DEF To, CallsOK
<1> HIDE DEF r
<1>12. PlansGoOn'
  <2>1. \A d \in Call : call'[d].pc = "planning" => PlanFrom(call'[d].start) # NULL
    BY <1>10, <1>11 DEF CoverInd, PlansGoOn
  <2> QED
    BY <2>1 DEF PlansGoOn, PlanFrom, NextFile
<1>13. ASSUME ~torn.lost, NEW d \in Call, call'[d].pc = "exhausted"
       PROVE  PlanFrom(Reach(Row(A))) = NULL
  <2>1. d = c
    <3>1. PlanFrom(Reach(FilledRow)) # NULL
      <4>1. call[c].start = Reach(FilledRow)
        BY <1>4, <1>13 DEF PlanCommits, SameStart
      <4>2. call[c].pc = "planning"
        BY DEF PlanCommits
      <4> QED
        BY <4>1, <4>2 DEF CoverInd, PlansGoOn
    <3>2. call[d].pc # "exhausted"
      BY <1>13, <3>1 DEF CoverInd, NothingLeft
    <3> QED
      BY <1>11, <1>13, <3>2
  <2>2. PlanDone(cuts)
    BY <1>10, <1>11, <1>13, <2>1
  <2>3. PICK m \in Nat \ {0} : cuts \in [1..m -> Cut] /\ Last(cuts) = cuts[m]
    BY <1>2, <1>4, <1>13, PlanDraftIs
  <2>4. Last(cuts) \in Cut
    BY <2>3
  <2>5. Size[Last(cuts).file] \in Nat
    BY <2>4, CutForm
  <2>6. cur.at = Size[cur.file] /\ NextFile(cur.file) = NULL
    BY <2>2 DEF PlanDone, UpTo
  <2>7. ~(cur.at < Size[cur.file])
    BY <2>5, <2>6 DEF UpTo
  <2>8. PlanFrom(cur) = NULL
    BY <2>6, <2>7 DEF PlanFrom
  <2> QED
    BY <1>5, <1>13, <2>8
<1> HIDE DEF A, cur
<1>14. NothingLeft'
  <2>1. (\E d \in Call : call'[d].pc = "exhausted") /\ ~torn'.lost => PlanFrom(Reach(FilledRow')) = NULL
    BY <1>7, <1>9, <1>13
  <2> QED
    BY <2>1 DEF NothingLeft, PlanFrom, NextFile, Reach, UpTo, Placed
<1> QED
  BY <1>7, <1>8, <1>12, <1>14 DEF CoverInd

-----------------------------------------------------------------------------
(* A plan that breaks off *)

\* What a file that is cut short or empty holds
ShortFile(t, k) ==
    t \in Cut \cup {Foreign} /\ t # k /\ (t \in Cut => From(t) = From(k))

LEMMA ShortFileIs ==
    ASSUME NEW k \in Cut, NEW n \in k.start + 1..k.end - 1
    PROVE  ShortFile([k EXCEPT !.end = n], k)
<1> DEFINE t == [k EXCEPT !.end = n]
<1>1. /\ k \in [file : File, start : Offset, end : Offset]
      /\ k.start \in Nat /\ k.end \in Nat /\ k.start < k.end /\ k.end <= Size[k.file]
      /\ Size[k.file] \in Nat
  BY CutForm
<1>2. n \in 0..Size[k.file] /\ k.start < n /\ n <= Size[k.file] /\ n < k.end
  BY <1>1
<1>3. n \in Offset
  BY <1>1, <1>2, OffsetForm
<1>4. /\ t \in [file : File, start : Offset, end : Offset]
      /\ t.file = k.file /\ t.start = k.start /\ t.end = n
  BY <1>1, <1>3
<1>5. t \in Cut
  BY <1>2, <1>4 DEF Cut
<1>6. t # k
  BY <1>1, <1>2, <1>4
<1> HIDE DEF t
<1>7. From(t) = From(k)
  BY <1>4 DEF From
<1>8. ShortFile(t, k)
  BY <1>5, <1>6, <1>7 DEF ShortFile
<1> QED
  BY <1>8 DEF t

LEMMA TornIs ==
    ASSUME NEW L \in Ledgers, NEW left \in TornFiles(L)
    PROVE  \/ \E k \in Int, d \in Int : left = Written(L, k, d)
           \/ \E e \in Anchored(L) : \E t : /\ ShortFile(t, L[e].cut)
                                            /\ left = [Written(L, e - 1, 0) EXCEPT ![e] = t]
<1> DEFINE short(k) == {Foreign} \cup {[k EXCEPT !.end = n] : n \in k.start + 1..k.end - 1}
<1>1. ASSUME NEW k \in Cut, NEW t \in short(k)
      PROVE  ShortFile(t, k)
  <2>1. ShortFile(Foreign, k)
    BY LedgerAssumption DEF LedgerAssumption, ShortFile
  <2> QED
    BY <2>1, ShortFileIs
<1> HIDE DEF short
<1>2. \/ \E k \in 0..MaxEpisode : left = Written(L, k, 0)
      \/ \E d \in Episode : left = Written(L, MaxEpisode, d)
      \/ \E e \in Anchored(L) : \E t \in short(L[e].cut) :
            left = [Written(L, e - 1, 0) EXCEPT ![e] = t]
  BY DEF TornFiles, short
<1>3. MaxEpisode \in Int /\ 0 \in Int /\ 0..MaxEpisode \subseteq Int /\ Episode \subseteq Int
  BY LedgerAssumption DEF LedgerAssumption, Episode
<1>4. \A e \in Anchored(L) : L[e].cut \in Cut
  BY AnchoredCut
<1> QED
  BY <1>1, <1>2, <1>3, <1>4

\* The cut a reader finds for an entry whose file holds t
Cell(e, t) == IF Sought(e) THEN IF t \in Cut THEN t ELSE NULL ELSE ledger[e].cut

LEMMA CellIs ==
    /\ FilledRow = [e \in Episode |-> Cell(e, text[e])]
    /\ ledger' = ledger => FilledRow' = [e \in Episode |-> Cell(e, text'[e])]
BY DEF FilledRow, Cell, Sought

LEMMA DraftOf ==
    ASSUME NEW m \in Nat \ {0}, NEW cuts \in [1..m -> Cut]
    PROVE  cuts \in Drafts
BY DEF Drafts

LEMMA AppendedCell ==
    ASSUME LedgerTypeOK, NEW m \in Nat \ {0}, NEW cuts \in [1..m -> Cut], NEW e \in Episode
    PROVE  /\ Cell(e, FilesOf(Appended(cuts))[e]) = Row(Appended(cuts))[e]
           /\ FilesOf(Appended(cuts))[e] = NULL => text[e] = NULL
           /\ e < NextNumber => Row(Appended(cuts))[e] = FilledRow[e]
           /\ ~(e < NextNumber) => FilledRow[e] = NULL /\ Sought(e)
<1> DEFINE A == Appended(cuts)
           F == FilesOf(A)[e]
           n == NextNumber
<1>1. n \in Nat \ {0} /\ e \in Nat
  BY NextNumberIs DEF Episode
<1>2. A[e] = IF e \in DOMAIN Numbered(cuts, n, [d \in Episode |-> "planned"])
             THEN Numbered(cuts, n, [d \in Episode |-> "planned"])[e] ELSE Filled[e]
  BY DEF Appended
<1>3. DOMAIN Numbered(cuts, n, [d \in Episode |-> "planned"]) = n..n + m - 1
  <2>1. Len(cuts) = m
    OBVIOUS
  <2> QED
    BY <2>1 DEF Numbered
<1>4. A \in Ledgers /\ Row(A)[e] = IF A[e] = NULL THEN NULL ELSE A[e].cut
  BY AppendedForm, DraftOf DEF Settled, Row
<1>5. F = IF A[e] = NULL THEN NULL ELSE IF A[e].cut = NULL THEN text[e] ELSE A[e].cut
  BY DEF FilesOf
<1>6. /\ Filled[e] = NULL <=> ledger[e] = NULL /\ text[e] = NULL
      /\ ledger[e] # NULL /\ ledger[e].status # "none" => Filled[e] = ledger[e]
      /\ (ledger[e] # NULL /\ ledger[e].status = "none") \/ (ledger[e] = NULL /\ text[e] # NULL)
           => Filled[e].cut = IF text[e] \in Cut THEN text[e] ELSE NULL
  BY FilledAt
<1>7. A[e] # NULL => A[e].cut \in Cut \cup {NULL}
  BY <1>4 DEF Ledgers, Entry
<1>8. \A k \in Cut : k # NULL
  BY NotNull
<1>9. FilledRow[e] = Cell(e, text[e])
  BY CellIs
<1> HIDE DEF A, F, n
<1>10. CASE e < n
  <2>1. A[e] = Filled[e]
    BY <1>1, <1>2, <1>3, <1>10
  <2>2. F = NULL => text[e] = NULL
    BY <1>5, <1>6, <1>7, <1>8, <2>1
  <2>3. Row(A)[e] = Cell(e, text[e])
    BY <1>4, <1>6, <1>8, <2>1 DEF Cell, Sought
  <2>4. Cell(e, F) = Cell(e, text[e])
    BY <1>5, <1>6, <1>7, <1>8, <2>1 DEF Cell, Sought
  <2> QED
    BY <1>9, <1>10, <2>2, <2>3, <2>4 DEF A, F, n
<1>11. CASE ~(e < n)
  <2>1. Filled[e] = NULL
    BY <1>1, <1>11, NextNumberIs DEF Entries, n
  <2>2. ledger[e] = NULL /\ text[e] = NULL
    BY <1>6, <2>1
  <2>3. Sought(e) /\ FilledRow[e] = NULL
    BY <1>8, <1>9, <2>2 DEF Cell, Sought
  <2>4. A[e] # NULL => A[e].cut \in Cut
    <3>1. CASE e \in n..n + m - 1
      <4>1. A[e] = Numbered(cuts, n, [d \in Episode |-> "planned"])[e]
        BY <1>2, <1>3, <3>1
      <4>2. [d \in Episode |-> "planned"] \in [Episode -> Status]
        BY DEF Status
      <4> QED
        BY <1>1, <1>3, <3>1, <4>1, <4>2, NumberedAt
    <3>2. CASE e \notin n..n + m - 1
      BY <1>2, <1>3, <2>1, <3>2
    <3> QED
      BY <3>1, <3>2
  <2>5. Cell(e, F) = Row(A)[e]
    BY <1>4, <1>5, <1>8, <2>3, <2>4 DEF Cell
  <2> QED
    BY <1>11, <2>2, <2>3, <2>5 DEF A, F, n
<1> QED
  BY <1>10, <1>11

\* The files when those up to some number are written
LEMMA WrittenRow ==
    ASSUME LedgerTypeOK, NEW m \in Nat \ {0}, NEW cuts \in [1..m -> Cut],
           NEW k \in Int, NEW d \in Int, NEW e \in Episode
    PROVE  Cell(e, Written(Appended(cuts), k, d)[e]) =
             IF e <= k \/ e <= d \/ e < NextNumber THEN Row(Appended(cuts))[e] ELSE NULL
<1> DEFINE A == Appended(cuts)
           W == Written(A, k, d)
           F == FilesOf(A)
<1>1. W[e] = IF (e <= k /\ F[e] # NULL) \/ e <= d THEN F[e] ELSE text[e]
  BY DEF Written
<1>2. /\ Cell(e, F[e]) = Row(A)[e]
      /\ F[e] = NULL => text[e] = NULL
      /\ e < NextNumber => Row(A)[e] = FilledRow[e]
      /\ ~(e < NextNumber) => FilledRow[e] = NULL
  BY AppendedCell
<1>3. FilledRow[e] = Cell(e, text[e])
  BY CellIs
<1> HIDE DEF A, W, F
<1>4. W[e] = IF e <= k \/ e <= d THEN F[e] ELSE text[e]
  BY <1>1, <1>2
<1>5. Cell(e, W[e]) = IF e <= k \/ e <= d \/ e < NextNumber THEN Row(A)[e] ELSE NULL
  BY <1>2, <1>3, <1>4
<1> QED
  BY <1>5 DEF A, W

LEMMA TornRow ==
    ASSUME LedgerTypeOK, NEW m \in Nat \ {0}, NEW cuts \in [1..m -> Cut], AnchoredSettled,
           Whole(FilledRow), Whole(Row(Appended(cuts))), ledger' = ledger,
           text' \in TornFiles(Appended(cuts)), ~CutsShort
    PROVE  Whole(FilledRow')
<1> DEFINE A == Appended(cuts)
           R == Row(A)
           n == NextNumber
<1>1. n \in Nat \ {0} /\ A \in Ledgers
  BY NextNumberIs, AppendedForm, DraftOf DEF Settled
<1>2. R \in CutRows /\ Placed(R) = Anchored(A) /\ \A e \in Anchored(A) : R[e] = A[e].cut
  BY <1>1, RowIs
<1>3. FilledRow \in CutRows /\ Placed(FilledRow) = Anchored(Filled)
  BY LookedUp, FilledForm, RowIs
<1>4. FilledRow' = [e \in Episode |-> Cell(e, text'[e])]
  BY CellIs
<1>5. /\ \A e \in Episode : e < n => R[e] = FilledRow[e]
      /\ \A e \in Episode : ~(e < n) => FilledRow[e] = NULL /\ Sought(e)
  BY AppendedCell
<1>6. \A k \in Int, d \in Int, e \in Episode :
         Cell(e, Written(A, k, d)[e]) = IF e <= k \/ e <= d \/ e < n THEN R[e] ELSE NULL
  BY WrittenRow
<1>8. Episode \subseteq Nat
  BY DEF Episode
<1>9. \/ \E k \in Int, d \in Int : text' = Written(A, k, d)
      \/ \E e \in Anchored(A) : \E t : /\ ShortFile(t, A[e].cut)
                                       /\ text' = [Written(A, e - 1, 0) EXCEPT ![e] = t]
  BY <1>1, TornIs
<1> HIDE DEF A, R, n
<1>10. ASSUME NEW k \in Int, NEW d \in Int, text' = Written(A, k, d)
       PROVE  Whole(FilledRow')
  <2>1. PICK b \in Int : /\ k <= b /\ d <= b /\ n - 1 <= b
                         /\ (b = k \/ b = d \/ b = n - 1)
    BY <1>1
  <2>2. FilledRow' = UpToNumber(R, b)
    <3>1. ASSUME NEW e \in Episode
          PROVE  Cell(e, text'[e]) = IF e <= b THEN R[e] ELSE NULL
      BY <1>1, <1>6, <1>8, <1>10, <2>1
    <3> QED
      BY <1>4, <3>1 DEF UpToNumber
  <2>3. Whole(R)
    BY DEF R, A
  <2> QED
    BY <1>2, <2>2, <2>3, PrefixWhole
<1>11. ASSUME NEW e \in Anchored(A), NEW t, ShortFile(t, A[e].cut),
              text' = [Written(A, e - 1, 0) EXCEPT ![e] = t]
       PROVE  Whole(FilledRow')
  <2> DEFINE u == IF t \in Cut THEN t ELSE NULL
  <2>1. /\ e \in Placed(R) /\ e \in Episode /\ e \in Nat /\ R[e] = A[e].cut /\ e - 1 \in Int
        /\ R[e] \in Cut
    BY <1>2, <1>8, PlacedIs
  <2>2. u \in Cut \cup {NULL} /\ (u \in Cut => From(u) = From(R[e]))
    BY <1>11, <2>1, NotNull DEF ShortFile
  <2>3. \A d \in Episode : text'[d] = IF d = e THEN t ELSE Written(A, e - 1, 0)[d]
    BY <1>11, <2>1 DEF Written
  <2>4. \A d \in Episode : d # e =>
           Cell(d, text'[d]) = IF d <= e - 1 \/ d < n THEN R[d] ELSE NULL
    <3> TAKE d \in Episode
    <3>1. d \in Nat /\ d >= 1
      BY DEF Episode
    <3>2. Cell(d, Written(A, e - 1, 0)[d]) = IF d <= e - 1 \/ d <= 0 \/ d < n THEN R[d] ELSE NULL
      BY <1>6, <2>1
    <3> QED
      BY <2>3, <3>1, <3>2
  <2>5. Sought(e) => Cell(e, text'[e]) = u
    BY <2>1, <2>3 DEF Cell
  <2> HIDE DEF u
  <2>6. CASE ~(e < n)
    <3>1. ASSUME NEW d \in Episode
          PROVE  Cell(d, text'[d]) = [UpToNumber(R, e - 1) EXCEPT ![e] = u][d]
      <4>1. d \in Nat
        BY <1>8
      <4>2. d # e => Cell(d, text'[d]) = IF d <= e - 1 THEN R[d] ELSE NULL
        BY <1>1, <2>1, <2>4, <2>6, <4>1
      <4>3. [UpToNumber(R, e - 1) EXCEPT ![e] = u][d] = IF d = e THEN u ELSE IF d <= e - 1 THEN R[d] ELSE NULL
        BY <2>1 DEF UpToNumber
      <4>4. Cell(e, text'[e]) = u
        BY <1>5, <2>1, <2>5, <2>6
      <4> QED
        BY <4>2, <4>3, <4>4
    <3>2. FilledRow' = [UpToNumber(R, e - 1) EXCEPT ![e] = u]
      BY <1>4, <3>1 DEF UpToNumber
    <3>3. Whole(R)
      BY DEF R, A
    <3> QED
      BY <1>2, <2>1, <2>2, <3>2, <3>3, CutBack
  <2>7. CASE e < n
    <3>1. \A d \in Episode : d # e => Cell(d, text'[d]) = FilledRow[d]
      <4> TAKE d \in Episode
      <4>1. d \in Nat
        BY <1>8
      <4> QED
        BY <1>1, <1>5, <2>1, <2>4, <2>7, <4>1
    <3>2. FilledRow[e] = R[e] /\ e \in Placed(FilledRow)
      BY <1>5, <2>1, <2>7 DEF Placed
    <3>3. CASE ~Sought(e)
      <4>1. Cell(e, text'[e]) = FilledRow[e]
        BY <2>1, <3>3 DEF Cell, FilledRow
      <4>2. FilledRow' = FilledRow
        BY <1>4, <3>1, <4>1 DEF FilledRow
      <4> QED
        BY <4>2
    <3>4. CASE Sought(e)
      <4>1. text[e] = R[e]
        <5>1. FilledRow[e] = IF text[e] \in Cut THEN text[e] ELSE NULL
          BY <2>1, <3>4 DEF FilledRow
        <5> QED
          BY <2>1, <3>2, <5>1, NotNull
      <4>2. text'[e] # text[e]
        BY <1>11, <2>1, <2>3, <4>1 DEF ShortFile
      <4>3. e \notin Anchored(ledger)
        BY <3>4 DEF AnchoredSettled, Sought, Anchored
      <4>4. \A d \in Placed(FilledRow) : ~(e < d)
        BY <1>3, <3>2, <4>2, <4>3 DEF CutsShort
      <4>5. ASSUME NEW d \in Episode
            PROVE  Cell(d, text'[d]) = [UpToNumber(FilledRow, e - 1) EXCEPT ![e] = u][d]
        <5>1. d \in Nat
          BY <1>8
        <5>2. d # e => FilledRow[d] = IF d <= e - 1 THEN FilledRow[d] ELSE NULL
          BY <2>1, <4>4, <5>1 DEF Placed
        <5>3. [UpToNumber(FilledRow, e - 1) EXCEPT ![e] = u][d] = IF d = e THEN u ELSE IF d <= e - 1 THEN FilledRow[d] ELSE NULL
          BY <2>1 DEF UpToNumber
        <5> QED
          BY <2>5, <3>1, <3>4, <5>2, <5>3
      <4>6. FilledRow' = [UpToNumber(FilledRow, e - 1) EXCEPT ![e] = u]
        BY <1>4, <4>5 DEF UpToNumber
      <4> QED
        BY <1>3, <2>2, <3>2, <4>6, CutBack
    <3> QED
      BY <3>3, <3>4
  <2> QED
    BY <2>6, <2>7
<1> QED
  BY <1>9, <1>10, <1>11

\* A process that dies leaves no call, and project.json as it was.
LEMMA BreakCovers ==
    ASSUME CoverInd, LedgerIndInv', Restart, torn'.lost \/ Whole(FilledRow'),
           torn'.lost \/ ~torn.lost
    PROVE  CoverInd'
<1>1. /\ ledger' = ledger /\ cursor' = cursor
      /\ \A d \in Call : call'[d] = Idle
  BY DEF Restart, project
<1>2. Idle.pc = "idle"
  BY DEF Idle
<1>3. PlansGoOn' /\ NothingLeft'
  BY <1>1, <1>2 DEF PlansGoOn, NothingLeft
<1>4. AnchoredSettled'
  BY <1>1 DEF CoverInd, AnchoredSettled, Anchored
<1>5. CursorWithin => CursorWithin'
  BY <1>1 DEF CursorWithin, Anchored, UpTo, NotAfter, Before
<1>6. Whole(FilledRow') <=> Whole(FilledRow)'
  BY DEF Whole, Placed, Reach, UpTo, From, Holds, Before
<1>7. Coverage'
  BY <1>5, <1>6 DEF Coverage, CoverInd
<1> QED
  BY <1>3, <1>4, <1>7 DEF CoverInd

LEMMA PlanBreaksCover ==
    ASSUME CoverInd, LedgerIndInv', NEW c \in Call, PlanBreaks(c)
    PROVE  CoverInd'
<1> DEFINE p == PlanFrom(call[c].start)
<1>1. LedgerTypeOK /\ AnchoredSettled
  BY DEF CoverInd, LedgerIndInv
<1>2. PICK cuts \in PlanDrafts(p) : PlanFits(cuts) /\ Breaks(Appended(cuts), FALSE)
  BY DEF PlanBreaks
<1>3. Restart /\ ledger' = ledger
  BY DEF PlanBreaks, Restart, project
<1>4. /\ text' \in TornFiles(Appended(cuts))
      /\ torn'.lost = (torn.lost \/ CutsShort)
  BY <1>2 DEF Breaks
<1>5. ASSUME ~torn'.lost
      PROVE  Whole(FilledRow')
  <2>1. ~torn.lost /\ ~CutsShort
    BY <1>4, <1>5
  <2>2. Whole(FilledRow) /\ EffectiveStart = Reach(FilledRow)
    BY <2>1, EffectiveStartIs DEF CoverInd, Coverage
  <2>3. call[c].start = Reach(FilledRow) /\ p # NULL
    BY <2>2 DEF PlanBreaks, SameStart, CoverInd, PlansGoOn
  <2>4. Reach(FilledRow) \in Place /\ Reach(FilledRow).at <= Size[Reach(FilledRow).file]
    BY <1>1, LookedUp, ReachIs
  <2>5. p \in Place /\ NothingBetween(Reach(FilledRow), p)
    BY <2>3, <2>4, PlanFromIs
  <2> HIDE DEF p
  <2>6. Whole(Row(Appended(cuts)))
    BY <1>1, <1>2, <2>2, <2>5, AppendedWhole
  <2>7. PICK m \in Nat \ {0} : cuts \in [1..m -> Cut]
    BY <1>2, <2>5, PlanDraftIs
  <2> QED
    BY <1>1, <1>3, <1>4, <2>1, <2>2, <2>6, <2>7, TornRow
<1> QED
  BY <1>3, <1>4, <1>5, BreakCovers

LEMMA ReplanBreaksCover ==
    ASSUME CoverInd, LedgerIndInv', NEW c \in Call, ReplanBreaks(c)
    PROVE  CoverInd'
<1>1. Restart
  BY DEF ReplanBreaks
<1>2. PICK cuts : Breaks(Recut(call[c].ep, cuts), TRUE)
  BY DEF ReplanBreaks
<1>3. torn'.lost
  BY <1>2 DEF Breaks
<1> QED
  BY <1>1, <1>3, BreakCovers

-----------------------------------------------------------------------------
(* A replan cuts the end of the row anew *)

LEMMA MinMaxAre ==
    ASSUME NEW S, S \subseteq Int, NEW x \in S
    PROVE  /\ (\A y \in S : x <= y) => Min(S) = x
           /\ (\A y \in S : y <= x) => Max(S) = x
<1>1. ASSUME \A y \in S : x <= y
      PROVE  Min(S) = x
  <2>1. Min(S) \in S /\ \A y \in S : Min(S) <= y
    BY <1>1 DEF Min
  <2>2. Min(S) <= x /\ x <= Min(S) /\ Min(S) \in Int /\ x \in Int
    BY <1>1, <2>1
  <2> QED
    BY <2>2
<1>2. ASSUME \A y \in S : y <= x
      PROVE  Max(S) = x
  <2>0. \A y \in S : x >= y
    BY <1>2
  <2>1. Max(S) \in S /\ \A y \in S : Max(S) >= y
    BY <2>0 DEF Max
  <2>2. Max(S) >= x /\ Max(S) <= x /\ Max(S) \in Int /\ x \in Int
    BY <1>2, <2>1
  <2> QED
    BY <2>2
<1> QED
  BY <1>1, <1>2

LEMMA RowOrder ==
    ASSUME NEW R \in CutRows, Whole(R), NEW e \in Placed(R), NEW d \in Placed(R), e < d
    PROVE  \/ Idx(R[e].file) < Idx(R[d].file)
           \/ R[e].file = R[d].file /\ R[e].end <= R[d].start
<1>1. R[e] \in Cut /\ R[d] \in Cut
  BY PlacedIs
<1>2. NotAfter(UpTo(R[e]), From(R[d]))
  BY DEF Whole, NotAfter
<1> QED
  BY <1>1, <1>2, CutEnds, NotAfterIs

\* The entries of a scope whose cuts are in a file, and where they begin and end
InFile(scope, f) == {e \in DOMAIN scope : scope[e].file = f}
Lowest(scope, f) == Min({scope[e].start : e \in InFile(scope, f)})
Highest(scope, f) == Max({scope[e].end : e \in InFile(scope, f)})
AfterFile(scope, f) == {d \in DOMAIN scope : \A e \in InFile(scope, f) : e < d}

LEMMA ReplanDraftIs ==
    ASSUME NEW scope, NEW cuts \in ReplanDrafts(scope)
    PROVE  \E m \in 1..MaxEpisode + 1 - Min(DOMAIN scope) :
             /\ cuts \in [1..m -> Cut] /\ Len(cuts) = m
             /\ \A i \in 1..m : InFile(scope, cuts[i].file) # {}
             /\ cuts[1].file = scope[Min(DOMAIN scope)].file
             /\ cuts[1].start = Lowest(scope, cuts[1].file)
             /\ \A i \in 1..m - 1 :
                  IF cuts[i].end = Highest(scope, cuts[i].file)
                  THEN /\ AfterFile(scope, cuts[i].file) # {}
                       /\ cuts[i + 1].file = scope[Min(AfterFile(scope, cuts[i].file))].file
                       /\ cuts[i + 1].start = Lowest(scope, cuts[i + 1].file)
                  ELSE GoesOn(cuts[i], cuts[i + 1])
             /\ cuts[m].end = Highest(scope, cuts[m].file)
             /\ cuts[m].file = scope[Max(DOMAIN scope)].file
<1> DEFINE within == {k \in Cut : /\ InFile(scope, k.file) # {}
                                  /\ Lowest(scope, k.file) <= k.start
                                  /\ k.end <= Highest(scope, k.file)}
<1>1. PICK m \in 1..MaxEpisode + 1 - Min(DOMAIN scope) : cuts \in [1..m -> within]
  BY DEF ReplanDrafts, InFile, Lowest, Highest
<1>2. Len(cuts) = m /\ Last(cuts) = cuts[m]
  BY <1>1 DEF Last
<1>3. /\ cuts[1].file = scope[Min(DOMAIN scope)].file
      /\ cuts[1].start = Lowest(scope, cuts[1].file)
  BY DEF ReplanDrafts, InFile, Lowest
<1>4. \A i \in 1..Len(cuts) - 1 :
         IF cuts[i].end = Highest(scope, cuts[i].file)
         THEN /\ AfterFile(scope, cuts[i].file) # {}
              /\ cuts[i + 1].file = scope[Min(AfterFile(scope, cuts[i].file))].file
              /\ cuts[i + 1].start = Lowest(scope, cuts[i + 1].file)
         ELSE GoesOn(cuts[i], cuts[i + 1])
  BY DEF ReplanDrafts, InFile, Lowest, Highest, AfterFile
<1>5. /\ Last(cuts).end = Highest(scope, Last(cuts).file)
      /\ Last(cuts).file = scope[Max(DOMAIN scope)].file
  BY DEF ReplanDrafts, InFile, Highest
<1>6. \A i \in 1..m : cuts[i] \in Cut /\ InFile(scope, cuts[i].file) # {}
  BY <1>1
<1>7. cuts \in [1..m -> Cut]
  BY <1>1, <1>6
<1> QED
  BY <1>2, <1>3, <1>4, <1>5, <1>6, <1>7

\* The end of a row from a number on, as the scope of a replan
IsScope(scope, R, n) ==
    DOMAIN scope = {e \in Placed(R) : e >= n} /\ \A e \in DOMAIN scope : scope[e] = R[e]

LEMMA ScopeEntry ==
    ASSUME NEW R \in CutRows, NEW n, NEW scope, IsScope(scope, R, n), NEW e \in DOMAIN scope
    PROVE  /\ e \in Placed(R) /\ e \in Episode /\ e \in Int /\ e >= n
           /\ R[e] \in Cut /\ scope[e] = R[e]
           /\ R[e].start \in Nat /\ R[e].end \in Nat /\ R[e].start < R[e].end
           /\ R[e].file \in File /\ Idx(R[e].file) \in Int
<1>1. e \in Placed(R) /\ e >= n /\ scope[e] = R[e]
  BY DEF IsScope
<1>2. e \in Episode /\ e \in Int /\ R[e] \in Cut
  BY <1>1, PlacedIs
<1>3. /\ R[e] \in [file : File, start : Offset, end : Offset]
      /\ R[e].start \in Nat /\ R[e].end \in Nat /\ R[e].start < R[e].end
  BY <1>2, CutForm
<1>4. R[e].file \in File /\ Idx(R[e].file) \in Int
  BY <1>3, IdxIs
<1> QED
  BY <1>1, <1>2, <1>3, <1>4

LEMMA LowestIs ==
    ASSUME NEW R \in CutRows, Whole(R), NEW n \in Int, NEW scope, IsScope(scope, R, n),
           NEW x \in DOMAIN scope, \A e \in InFile(scope, R[x].file) : x <= e
    PROVE  Lowest(scope, R[x].file) = R[x].start
<1> DEFINE f == R[x].file
           T == {scope[e].start : e \in InFile(scope, f)}
<1>1. \A e \in DOMAIN scope : /\ e \in Placed(R) /\ e \in Int /\ R[e] \in Cut /\ scope[e] = R[e]
                              /\ R[e].start \in Nat /\ R[e].end \in Nat /\ R[e].start < R[e].end
                              /\ Idx(R[e].file) \in Int
  BY ScopeEntry
<1>2. T \subseteq Int
  BY <1>1 DEF InFile
<1>3. R[x].start \in T
  BY <1>1 DEF InFile
<1>4. ASSUME NEW e \in InFile(scope, f)
      PROVE  R[x].start <= scope[e].start
  <2>1. e \in DOMAIN scope /\ R[e].file = f /\ x <= e /\ scope[e] = R[e]
    BY <1>1 DEF InFile
  <2>2. CASE x = e
    BY <1>1, <2>1, <2>2
  <2>3. CASE x < e
    BY <1>1, <2>1, <2>3, RowOrder
  <2> QED
    BY <1>1, <2>1, <2>2, <2>3
<1>5. \A y \in T : R[x].start <= y
  BY <1>4
<1> HIDE DEF T
<1>6. Min(T) = R[x].start
  BY <1>2, <1>3, <1>5, MinMaxAre
<1> QED
  BY <1>6 DEF Lowest, T

LEMMA HighestIs ==
    ASSUME NEW R \in CutRows, Whole(R), NEW n \in Int, NEW scope, IsScope(scope, R, n),
           NEW x \in DOMAIN scope, \A e \in InFile(scope, R[x].file) : e <= x
    PROVE  Highest(scope, R[x].file) = R[x].end
<1> DEFINE f == R[x].file
           T == {scope[e].end : e \in InFile(scope, f)}
<1>1. \A e \in DOMAIN scope : /\ e \in Placed(R) /\ e \in Int /\ R[e] \in Cut /\ scope[e] = R[e]
                              /\ R[e].start \in Nat /\ R[e].end \in Nat /\ R[e].start < R[e].end
                              /\ Idx(R[e].file) \in Int
  BY ScopeEntry
<1>2. T \subseteq Int
  BY <1>1 DEF InFile
<1>3. R[x].end \in T
  BY <1>1 DEF InFile
<1>4. ASSUME NEW e \in InFile(scope, f)
      PROVE  scope[e].end <= R[x].end
  <2>1. e \in DOMAIN scope /\ R[e].file = f /\ e <= x /\ scope[e] = R[e]
    BY <1>1 DEF InFile
  <2>2. CASE x = e
    BY <1>1, <2>1, <2>2
  <2>3. CASE e < x
    BY <1>1, <2>1, <2>3, RowOrder
  <2> QED
    BY <1>1, <2>1, <2>2, <2>3
<1>5. \A y \in T : y <= R[x].end
  BY <1>4
<1> HIDE DEF T
<1>6. Max(T) = R[x].end
  BY <1>2, <1>3, <1>5, MinMaxAre
<1> QED
  BY <1>6 DEF Highest, T

\* Where the stretch of a file ends and where the next one begins nothing is left out.
LEMMA NextStretch ==
    ASSUME NEW R \in CutRows, Whole(R), NEW n \in Int, NEW scope, IsScope(scope, R, n),
           NEW f, InFile(scope, f) # {}, AfterFile(scope, f) # {}
    PROVE  LET g == scope[Min(AfterFile(scope, f))].file
           IN NothingBetween([file |-> f, at |-> Highest(scope, f)], [file |-> g, at |-> Lowest(scope, g)])
<1>1. \A e \in DOMAIN scope : /\ e \in Placed(R) /\ e \in Episode /\ e \in Int /\ R[e] \in Cut /\ scope[e] = R[e]
                              /\ e >= n /\ Idx(R[e].file) \in Int /\ R[e].file \in File
  BY ScopeEntry
<1>2. MaxEpisode \in Nat /\ Episode = 1..MaxEpisode
  BY LedgerAssumption DEF LedgerAssumption, Episode
<1>3. PICK x \in InFile(scope, f) : \A e \in InFile(scope, f) : e <= x
  <2>1. InFile(scope, f) \in SUBSET (0..MaxEpisode)
    BY <1>1, <1>2 DEF InFile
  <2> QED
    BY <1>2, <2>1, MaxExists
<1>4. PICK d \in AfterFile(scope, f) : \A e \in AfterFile(scope, f) : d <= e
  <2>1. AfterFile(scope, f) \in SUBSET Nat
    BY <1>1, <1>2 DEF AfterFile
  <2> QED
    BY <2>1, LeastNatural
<1>5. AfterFile(scope, f) \subseteq Int
  BY <1>1 DEF AfterFile
<1>6. Min(AfterFile(scope, f)) = d
  BY <1>4, <1>5, MinMaxAre
<1>7. x \in DOMAIN scope /\ d \in DOMAIN scope /\ x < d /\ R[x].file = f
  BY <1>1, <1>3, <1>4 DEF InFile, AfterFile
<1>8. \A e \in DOMAIN scope : e < d => e <= x
  <2> SUFFICES ASSUME NEW e \in DOMAIN scope, e < d
               PROVE  e <= x
    OBVIOUS
  <2>1. e \notin AfterFile(scope, f)
    BY <1>1, <1>4, <1>7
  <2>2. PICK a \in InFile(scope, f) : ~(a < e)
    BY <2>1 DEF AfterFile
  <2>3. a \in DOMAIN scope /\ a <= x
    BY <1>3, <2>2 DEF InFile
  <2> QED
    BY <1>1, <1>7, <2>2, <2>3
<1>9. Highest(scope, f) = R[x].end
  BY <1>3, <1>7, HighestIs
<1>10. Lowest(scope, R[d].file) = R[d].start
  <2>1. ASSUME NEW e \in InFile(scope, R[d].file)
        PROVE  d <= e
    <3>1. e \in DOMAIN scope /\ R[e].file = R[d].file
      BY <1>1 DEF InFile
    <3>2. ASSUME e < d
          PROVE  FALSE
      <4>1. e <= x
        BY <1>8, <3>1, <3>2
      <4>2. Idx(R[e].file) <= Idx(R[x].file)
        <5>1. CASE e = x
          BY <1>1, <1>7, <5>1
        <5>2. CASE e < x
          BY <1>1, <1>7, <3>1, <5>2, RowOrder
        <5> QED
          BY <1>1, <1>7, <3>1, <4>1, <5>1, <5>2
      <4>3. Idx(R[x].file) <= Idx(R[d].file)
        BY <1>1, <1>7, RowOrder
      <4>4. R[d].file = f
        BY <1>1, <1>7, <3>1, <4>2, <4>3, IdxIs
      <4>5. d \in InFile(scope, f)
        BY <1>1, <1>7, <4>4 DEF InFile
      <4>6. d < d
        BY <1>4, <4>5 DEF AfterFile
      <4> QED
        BY <1>1, <1>7, <4>6
    <3> QED
      BY <1>1, <1>7, <3>1, <3>2
  <2> QED
    BY <1>7, <2>1, LowestIs
<1>11. Reach(UpToNumber(R, d - 1)) = UpTo(R[x])
  <2> DEFINE P == UpToNumber(R, d - 1)
  <2>1. d - 1 \in Int /\ x <= d - 1
    BY <1>1, <1>7
  <2>2. P \in CutRows /\ Placed(P) = {e \in Placed(R) : e <= d - 1} /\ P[x] = R[x]
    BY <1>1, <1>7, <2>1, PrefixIs
  <2>3. ASSUME NEW e \in Placed(P)
        PROVE  e <= x
    <3>1. e \in Placed(R) /\ e <= d - 1 /\ e \in Int
      BY <2>2, PlacedIs
    <3>2. CASE e >= n
      BY <1>1, <1>7, <1>8, <3>1, <3>2 DEF IsScope
    <3>3. CASE ~(e >= n)
      BY <1>1, <1>7, <3>1, <3>3
    <3> QED
      BY <3>2, <3>3
  <2>4. x \in Placed(P)
    BY <1>1, <1>7, <2>1, <2>2
  <2> HIDE DEF P
  <2>5. Reach(P) = UpTo(P[x])
    BY <2>2, <2>3, <2>4, ReachOfLast
  <2> QED
    BY <2>2, <2>5 DEF P
<1>12. NothingBetween(UpTo(R[x]), From(R[d]))
  BY <1>1, <1>7, <1>11, PrefixReaches
<1> QED
  BY <1>1, <1>6, <1>7, <1>9, <1>10, <1>12 DEF UpTo, From

\* What a replan is given goes on without a gap and ends where the row ended.
LEMMA RecutDraft ==
    ASSUME NEW R \in CutRows, Whole(R), NEW n \in Placed(R), NEW scope, IsScope(scope, R, n),
           NEW cuts \in ReplanDrafts(scope)
    PROVE  \E m \in Nat \ {0} :
             /\ cuts \in [1..m -> Cut] /\ n + m - 1 <= MaxEpisode
             /\ From(cuts[1]) = From(R[n])
             /\ \A i \in 1..m - 1 : NothingBetween(UpTo(cuts[i]), From(cuts[i + 1]))
             /\ UpTo(cuts[m]) = Reach(R)
<1>1. n \in Int /\ n \in DOMAIN scope /\ n \in Episode
  BY PlacedIs DEF IsScope
<1>2. /\ DOMAIN scope \subseteq Int
      /\ \A e \in DOMAIN scope : n <= e /\ e \in Placed(R) /\ scope[e] = R[e] /\ R[e] \in Cut
  BY <1>1, ScopeEntry
<1>3. Min(DOMAIN scope) = n
  BY <1>1, <1>2, MinMaxAre
<1>4. PICK m \in 1..MaxEpisode + 1 - n :
             /\ cuts \in [1..m -> Cut] /\ Len(cuts) = m
             /\ \A i \in 1..m : InFile(scope, cuts[i].file) # {}
             /\ cuts[1].file = scope[n].file
             /\ cuts[1].start = Lowest(scope, cuts[1].file)
             /\ \A i \in 1..m - 1 :
                  IF cuts[i].end = Highest(scope, cuts[i].file)
                  THEN /\ AfterFile(scope, cuts[i].file) # {}
                       /\ cuts[i + 1].file = scope[Min(AfterFile(scope, cuts[i].file))].file
                       /\ cuts[i + 1].start = Lowest(scope, cuts[i + 1].file)
                  ELSE GoesOn(cuts[i], cuts[i + 1])
             /\ cuts[m].end = Highest(scope, cuts[m].file)
             /\ cuts[m].file = scope[Max(DOMAIN scope)].file
  <2> HIDE DEF InFile, Lowest, Highest, AfterFile
  <2> QED
    BY <1>3, ReplanDraftIs
<1>5. MaxEpisode \in Nat /\ m \in Nat \ {0} /\ n + m - 1 <= MaxEpisode
  BY <1>1, <1>4, LedgerAssumption DEF LedgerAssumption
<1>6. From(cuts[1]) = From(R[n])
  <2>1. \A e \in InFile(scope, R[n].file) : n <= e
    BY <1>2 DEF InFile
  <2>2. Lowest(scope, R[n].file) = R[n].start
    BY <1>1, <2>1, LowestIs
  <2> QED
    BY <1>1, <1>2, <1>4, <2>2 DEF From
<1>7. ASSUME NEW i \in 1..m - 1
      PROVE  NothingBetween(UpTo(cuts[i]), From(cuts[i + 1]))
  <2>1. i \in 1..m
    BY <1>5
  <2>2. cuts[i] \in Cut /\ InFile(scope, cuts[i].file) # {}
    BY <1>4, <2>1
  <2>3. CASE cuts[i].end = Highest(scope, cuts[i].file)
    <3> DEFINE f == cuts[i].file
               g == scope[Min(AfterFile(scope, f))].file
    <3>1. /\ AfterFile(scope, f) # {} /\ cuts[i + 1].file = g
          /\ cuts[i + 1].start = Lowest(scope, g)
      BY <1>4, <2>3
    <3>2. NothingBetween([file |-> f, at |-> Highest(scope, f)], [file |-> g, at |-> Lowest(scope, g)])
      BY <1>1, <2>2, <3>1, NextStretch
    <3> QED
      BY <2>3, <3>1, <3>2 DEF UpTo, From
  <2>4. CASE cuts[i].end # Highest(scope, cuts[i].file)
    <3>1. GoesOn(cuts[i], cuts[i + 1])
      BY <1>4, <2>4
    <3>2. From(cuts[i + 1]) = UpTo(cuts[i]) /\ UpTo(cuts[i]) \in Place
      BY <2>2, <3>1, CutEnds DEF GoesOn, From, UpTo
    <3> QED
      BY <3>2, NextStep
  <2> QED
    BY <2>3, <2>4
<1>8. UpTo(cuts[m]) = Reach(R)
  <2>1. PICK x \in Placed(R) : (\A e \in Placed(R) : e <= x) /\ Reach(R) = UpTo(R[x])
    BY ReachIs
  <2>2. x \in DOMAIN scope /\ \A e \in DOMAIN scope : e <= x
    <3>1. x \in Int /\ n <= x
      BY <2>1, PlacedIs
    <3> QED
      BY <1>1, <1>2, <2>1, <3>1 DEF IsScope
  <2>3. Max(DOMAIN scope) = x
    BY <1>2, <2>2, MinMaxAre
  <2>4. Highest(scope, R[x].file) = R[x].end
    <3>1. \A e \in InFile(scope, R[x].file) : e <= x
      BY <2>2 DEF InFile
    <3> QED
      BY <1>1, <2>2, <3>1, HighestIs
  <2> QED
    BY <1>2, <1>4, <2>1, <2>2, <2>3, <2>4 DEF UpTo
<1> QED
  BY <1>4, <1>5, <1>6, <1>7, <1>8

LEMMA RecutRow ==
    ASSUME LedgerTypeOK, NEW from \in Episode, NEW m \in Nat \ {0}, NEW cuts \in [1..m -> Cut],
           NEW e \in Episode
    PROVE  Row(Recut(from, cuts))[e] = IF e < from THEN FilledRow[e]
                                       ELSE IF e <= from + m - 1 THEN cuts[e - from + 1]
                                       ELSE NULL
<1> DEFINE new == Numbered(cuts, from, NewStatus)
<1>1. from \in Nat /\ e \in Nat /\ Len(cuts) = m
  BY DEF Episode
<1>2. Recut(from, cuts)[e] = IF e < from THEN Filled[e] ELSE IF e \in DOMAIN new THEN new[e] ELSE NULL
  BY DEF Recut
<1>3. DOMAIN new = from..from + m - 1
  BY <1>1 DEF Numbered
<1>4. FilledRow[e] = IF Filled[e] = NULL THEN NULL ELSE Filled[e].cut
  BY LookedUp DEF Row
<1>5. Row(Recut(from, cuts))[e] = IF Recut(from, cuts)[e] = NULL THEN NULL ELSE Recut(from, cuts)[e].cut
  BY DEF Row
<1>6. ASSUME e \in DOMAIN new
      PROVE  new[e] # NULL /\ new[e].cut = cuts[e - from + 1]
  <2>1. new[e] = [cut |-> cuts[e - from + 1], status |-> NewStatus[e], review |-> NULL]
    BY <1>1, <1>3, <1>6 DEF Numbered
  <2>2. NewStatus \in [Episode -> Status]
    BY DEF NewStatus, Status
  <2>3. new[e] \in Entry
    BY <1>1, <1>6, <2>2, NumberedAt
  <2> HIDE DEF new
  <2> QED
    BY <2>1, <2>3, NotNull
<1> HIDE DEF new
<1>7. CASE e < from
  BY <1>2, <1>4, <1>5, <1>7
<1>8. CASE ~(e < from) /\ e <= from + m - 1
  <2>1. e \in DOMAIN new
    BY <1>1, <1>3, <1>8
  <2> QED
    BY <1>2, <1>5, <1>6, <1>8, <2>1
<1>9. CASE ~(e < from) /\ ~(e <= from + m - 1)
  <2>1. e \notin DOMAIN new
    BY <1>1, <1>3, <1>9
  <2> QED
    BY <1>2, <1>5, <1>9, <2>1
<1> QED
  BY <1>7, <1>8, <1>9

LEMMA ScopeIsRow ==
    ASSUME LedgerTypeOK, NEW from \in Episode, Replannable(from)
    PROVE  from \in Placed(FilledRow) /\ IsScope(CutsOf(from), FilledRow, from)
<1>1. Filled \in Ledgers /\ FilledRow \in CutRows /\ Row(Filled) = FilledRow
  BY LookedUp, FilledForm
<1>2. Placed(FilledRow) = Anchored(Filled) /\ \A e \in Anchored(Filled) : FilledRow[e] = Filled[e].cut
  BY <1>1, RowIs
<1>3. from \in Scope(from) /\ Scope(from) \subseteq Anchored(Filled)
  BY DEF Replannable
<1>4. Scope(from) = {e \in Anchored(Filled) : e >= from}
  BY <1>3 DEF Scope, Anchored, Entries
<1>5. DOMAIN CutsOf(from) = Scope(from) /\ \A e \in Scope(from) : CutsOf(from)[e] = Filled[e].cut
  BY DEF CutsOf
<1> QED
  BY <1>2, <1>3, <1>4, <1>5 DEF IsScope

LEMMA RecutWhole ==
    ASSUME LedgerTypeOK, Whole(FilledRow), NEW from \in Episode, Replannable(from),
           NEW cuts \in ReplanDrafts(CutsOf(from))
    PROVE  /\ Whole(Row(Recut(from, cuts)))
           /\ Reach(Row(Recut(from, cuts))) = Reach(FilledRow)
           /\ Placed(Row(Recut(from, cuts))) # {}
<1> DEFINE R == Row(Recut(from, cuts))
           P == UpToNumber(FilledRow, from - 1)
<1>1. FilledRow \in CutRows /\ from \in Placed(FilledRow) /\ IsScope(CutsOf(from), FilledRow, from)
  BY LookedUp, ScopeIsRow
<1>2. PICK m \in Nat \ {0} :
             /\ cuts \in [1..m -> Cut] /\ from + m - 1 <= MaxEpisode
             /\ From(cuts[1]) = From(FilledRow[from])
             /\ \A i \in 1..m - 1 : NothingBetween(UpTo(cuts[i]), From(cuts[i + 1]))
             /\ UpTo(cuts[m]) = Reach(FilledRow)
  BY <1>1, RecutDraft
<1>3. from \in Nat /\ from - 1 \in Int /\ Episode \subseteq Nat
  BY DEF Episode
<1>4. /\ P \in CutRows /\ Whole(P)
      /\ Placed(P) = {e \in Placed(FilledRow) : e <= from - 1}
  BY <1>1, <1>3, PrefixIs, PrefixWhole
<1>5. \A e \in Placed(P) : e < from
  BY <1>3, <1>4 DEF Placed
<1>6. NothingBetween(Reach(P), From(cuts[1]))
  BY <1>1, <1>2, PrefixReaches
<1>7. R \in CutRows
  BY ReplanDraftsForm, RecutForm, RowIs DEF Settled
<1>8. \A e \in Episode : R[e] = IF e < from THEN P[e] ELSE IF e <= from + m - 1 THEN cuts[e - from + 1] ELSE NULL
  <2> TAKE e \in Episode
  <2>1. R[e] = IF e < from THEN FilledRow[e] ELSE IF e <= from + m - 1 THEN cuts[e - from + 1] ELSE NULL
    BY <1>2, RecutRow
  <2>2. e < from => P[e] = FilledRow[e]
    BY <1>3 DEF UpToNumber
  <2> HIDE DEF R, P
  <2> QED
    BY <2>1, <2>2
<1>9. from \in Placed(R)
  <2>1. R[from] = cuts[from - from + 1]
    BY <1>2, <1>3, <1>8
  <2>2. from - from + 1 = 1 /\ cuts[1] \in Cut
    BY <1>2, <1>3
  <2>3. R[from] \in Cut
    BY <2>1, <2>2
  <2> HIDE DEF R
  <2> QED
    BY <2>3, NotNull DEF Placed
<1> HIDE DEF R, P
<1>10. Whole(R) /\ Reach(R) = UpTo(cuts[m])
  BY <1>2, <1>4, <1>5, <1>6, <1>7, <1>8, RowExtends
<1> QED
  BY <1>2, <1>9, <1>10 DEF R

\* A replan that leaves files behind settles the ledger and nothing more.
LEMMA ReplanLeavesFilesCover ==
    ASSUME CoverInd, NEW c \in Call, ReplanLeavesFiles(c)
    PROVE  CoverInd'
<1>1. LedgerTypeOK /\ CallsOK /\ LedgerIndInv
  BY DEF CoverInd, LedgerIndInv
<1>2. LedgerIndInv' /\ Ends(c) /\ call[c].ep \in Episode
  BY <1>1, ReplanCommitsInd DEF Replans
<1>3. PICK cuts \in ReplanDrafts(call[c].scope) : CommitOver(Recut(call[c].ep, cuts), FilledCursor)
  BY DEF ReplanLeavesFiles
<1> DEFINE A == Recut(call[c].ep, cuts)
<1>4. Settled(A)
  BY <1>1, <1>2, ReplanDraftsForm, RecutForm
<1> HIDE DEF A
<1>5. ledger' = A /\ torn'.lost
  BY <1>3 DEF A, CommitOver
<1>6. AnchoredSettled'
  BY <1>4, <1>5 DEF AnchoredSettled, Settled, Anchored
<1>7. Coverage' /\ NothingLeft'
  BY <1>5 DEF Coverage, NothingLeft
<1>8. PlansGoOn'
  <2>1. \A d \in Call : call'[d] = call[d] \/ call'[d] = Idle
    BY <1>1, <1>2 DEF Ends, To, CallsOK
  <2>2. \A d \in Call : call'[d].pc = "planning" => PlanFrom(call'[d].start) # NULL
    BY <2>1 DEF CoverInd, PlansGoOn, Idle
  <2> QED
    BY <2>2 DEF PlansGoOn, PlanFrom, NextFile
<1> QED
  BY <1>2, <1>6, <1>7, <1>8 DEF CoverInd

LEMMA ReplanCommitsCover ==
    ASSUME CoverInd, NEW c \in Call, ReplanCommits(c)
    PROVE  CoverInd'
<1> DEFINE from == call[c].ep
<1>1. LedgerTypeOK /\ CallsOK /\ LedgerIndInv /\ AnchoredSettled
  BY DEF CoverInd, LedgerIndInv
<1>2. LedgerIndInv' /\ Ends(c) /\ SameScope(c) /\ from \in Episode
  BY <1>1, ReplanCommitsInd DEF Replans
<1>3. Replannable(from) /\ CutsOf(from) = call[c].scope
  BY <1>2 DEF SameScope
<1>4. PICK cuts \in ReplanDrafts(CutsOf(from)) : Commit(Recut(from, cuts), FilledCursor)
  BY <1>3 DEF ReplanCommits
<1> DEFINE A == Recut(from, cuts)
<1> HIDE DEF from
<1>5. Settled(A)
  BY <1>1, <1>2, ReplanDraftsForm, RecutForm
<1>6. ASSUME ~torn.lost
      PROVE  /\ Whole(Row(A)) /\ Reach(Row(A)) = Reach(FilledRow) /\ Placed(Row(A)) # {}
             /\ NotAfter(FilledCursor, Reach(Row(A)))
  <2>1. Whole(FilledRow) /\ CursorWithin
    BY <1>6 DEF CoverInd, Coverage
  <2>2. Whole(Row(A)) /\ Reach(Row(A)) = Reach(FilledRow) /\ Placed(Row(A)) # {}
    BY <1>1, <1>2, <1>3, <2>1, RecutWhole
  <2>3. FilledCursor # NULL
    <3>1. from \in Anchored(Filled)
      BY <1>3 DEF Replannable
    <3> QED
      BY <1>1, <3>1, FilledCursorForm
  <2> QED
    BY <1>1, <2>1, <2>2, <2>3, StartIs
<1> HIDE DEF A
<1>7. Commit(A, FilledCursor)
  BY <1>4 DEF A
<1>8. AnchoredSettled' /\ Coverage' /\ FilledRow' = Row(A)
  BY <1>1, <1>5, <1>6, <1>7, CommitCovers, CommitRow
<1>9. torn'.lost = torn.lost
  BY <1>1, <1>7 DEF Commit, LedgerTypeOK
<1>10. \A d \in Call : call'[d] = call[d] \/ call'[d] = Idle
  BY <1>1, <1>2 DEF Ends, To, CallsOK
<1>11. Idle.pc = "idle"
  BY DEF Idle
<1>12. PlansGoOn'
  <2>1. \A d \in Call : call'[d].pc = "planning" => PlanFrom(call'[d].start) # NULL
    BY <1>10, <1>11 DEF CoverInd, PlansGoOn
  <2> QED
    BY <2>1 DEF PlansGoOn, PlanFrom, NextFile
<1>13. NothingLeft'
  <2>1. (\E d \in Call : call'[d].pc = "exhausted") /\ ~torn'.lost => PlanFrom(Reach(FilledRow')) = NULL
    BY <1>6, <1>8, <1>9, <1>10, <1>11 DEF CoverInd, NothingLeft
  <2> QED
    BY <2>1 DEF NothingLeft, PlanFrom, NextFile, Reach, UpTo, Placed
<1> QED
  BY <1>2, <1>8, <1>12, <1>13 DEF CoverInd

-----------------------------------------------------------------------------
(* Every part belongs to one episode *)

LEMMA InitCover ==
    ASSUME Init, LegacyInOrder
    PROVE  CoverInd
<1>1. LedgerIndInv
  BY InitInd
<1>2. /\ ledger = [e \in Episode |-> NULL] /\ cursor = NULL
      /\ \A c \in Call : call[c] = Idle
  BY DEF Init
<1>3. PICK old \in Legacy : text = old.text
  BY DEF Init
<1>4. Idle.pc = "idle"
  BY DEF Idle
<1>5. Anchored(ledger) = {}
  BY <1>2 DEF Anchored
<1>6. FilledRow = [e \in Episode |-> IF old.text[e] \in Cut THEN old.text[e] ELSE NULL]
  BY <1>2, <1>3 DEF FilledRow, Sought
<1>7. Whole(FilledRow)
  BY <1>6 DEF LegacyInOrder
<1> QED
  BY <1>1, <1>2, <1>4, <1>5, <1>7
  DEF CoverInd, AnchoredSettled, Coverage, CursorWithin, PlansGoOn, NothingLeft

LEMMA CoverStep ==
    ASSUME CoverInd, [Next]_vars
    PROVE  CoverInd'
<1>1. LedgerIndInv'
  BY LedgerStep DEF CoverInd
<1>2. CASE UNCHANGED vars
  BY <1>1, <1>2, ProjectKept DEF vars, files
<1>3. ASSUME NEW c \in Call,
             \/ PlanReads(c) \/ PlanConflicts(c) \/ PlanAnswers(c) \/ ReplanConflicts(c) \/ Fails(c)
             \/ \E from \in Episode, consent \in BOOLEAN : ReplanReads(c, from, consent)
             \/ \E e \in Worked : SplitReads(c, e) \/ PassesGate(c, e) \/ PassesBlindly(c, e)
      PROVE  CoverInd'
  BY <1>1, <1>3, ReadsCover
<1>4. ASSUME NEW c \in Call,
             \/ PlanCommits(c) \/ ReplanCommits(c) \/ ReplanLeavesFiles(c)
             \/ PlanBreaks(c) \/ ReplanBreaks(c)
      PROVE  CoverInd'
  BY <1>1, <1>4, PlanCommitsCover, ReplanCommitsCover, ReplanLeavesFilesCover, PlanBreaksCover,
     ReplanBreaksCover
<1>5. ASSUME NEW c \in Call,
             \/ SplitWrites(c) \/ ConfirmRewrites(c) \/ ConfirmTakesAgain(c)
             \/ ConfirmWrites(c) \/ SavesScript(c)
      PROVE  CoverInd'
  BY <1>1, <1>5, EndsCover, ConfirmCover, ScriptCover
<1>6. ASSUME NEW e \in Worked,
             \/ \E t \in Text : SaveContent(e, t)
             \/ \E c \in Call : ConfirmReads(c, e) \/ ConfirmReadsUnits(c, e)
      PROVE  CoverInd'
  BY <1>1, <1>6, SavesCover
<1>7. CASE Crash
  BY <1>1, <1>7, CrashCover
<1> QED
  BY <1>2, <1>3, <1>4, <1>5, <1>6, <1>7 DEF Next

LEMMA HoldersAre ==
    ASSUME LedgerTypeOK, NEW p
    PROVE  Holders(Filled, p) = {e \in Placed(FilledRow) : Holds(FilledRow[e], p)}
<1>1. Placed(FilledRow) = Anchored(Filled) /\ \A e \in Anchored(Filled) : FilledRow[e] = Filled[e].cut
  BY LookedUp, FilledForm, RowIs
<1> QED
  BY <1>1 DEF Holders, Holds

\* No two cuts of a whole row share a part, and none has one beyond its end.
LEMMA HeldOnce ==
    ASSUME NEW R \in CutRows, Whole(R), NEW p \in Place, NEW e \in Placed(R), Holds(R[e], p)
    PROVE  /\ Before(p, Reach(R))
           /\ \A d \in Placed(R) : Holds(R[d], p) => d = e
<1>1. \A d \in Placed(R) : R[d] \in Cut /\ d \in Int
  BY PlacedIs
<1>2. \A d \in Placed(R) : From(R[d]) \in Place /\ UpTo(R[d]) \in Place
  BY <1>1, CutEnds
<1>3. \A d \in Placed(R) : Holds(R[d], p) => NotAfter(From(R[d]), p) /\ Before(p, UpTo(R[d]))
  BY <1>1, HoldsIs
<1>4. ASSUME NEW a \in Placed(R), NEW b \in Placed(R), Holds(R[a], p), Holds(R[b], p), a < b
      PROVE  FALSE
  <2>1. NotAfter(UpTo(R[a]), From(R[b]))
    BY <1>4 DEF Whole, NotAfter
  <2>2. NotAfter(From(R[b]), p) /\ Before(p, UpTo(R[a]))
    BY <1>3, <1>4
  <2>3. NotAfter(UpTo(R[a]), p)
    BY <1>2, <2>1, <2>2, Order
  <2> QED
    BY <2>2, <2>3 DEF NotAfter
<1>5. Before(p, Reach(R))
  <2>1. NotAfter(UpTo(R[e]), Reach(R)) /\ Reach(R) \in Place
    BY WithinReach, ReachIs
  <2>2. Before(p, UpTo(R[e]))
    BY <1>3
  <2> QED
    BY <1>2, <2>1, <2>2, Order
<1>6. \A d \in Placed(R) : Holds(R[d], p) => ~(d < e) /\ ~(e < d)
  BY <1>4
<1> QED
  BY <1>1, <1>5, <1>6

LEMMA PartsOnce == CoverInd => EachPartOnce
<1> SUFFICES ASSUME CoverInd, ~torn.lost, NEW p \in Parts
             PROVE  Cardinality(Holders(Filled, p)) = IF Before(p, EffectiveStart) THEN 1 ELSE 0
  BY DEF EachPartOnce
<1> DEFINE R == FilledRow
           H == {e \in Placed(R) : Holds(R[e], p)}
<1>1. /\ LedgerTypeOK /\ Whole(R) /\ R \in CutRows /\ p \in Place
      /\ EffectiveStart = Reach(R) /\ Holders(Filled, p) = H
  BY LookedUp, PartIs, EffectiveStartIs, HoldersAre DEF CoverInd, LedgerIndInv, Coverage
<1> HIDE DEF R
<1>2. CASE Before(p, Reach(R))
  <2>1. PICK e \in Placed(R) : Holds(R[e], p)
    BY <1>1, <1>2 DEF Whole
  <2>2. H = {e}
    BY <1>1, <2>1, HeldOnce
  <2> HIDE DEF H
  <2>3. Cardinality({e}) = 1
    BY FS_Singleton
  <2> QED
    BY <1>1, <1>2, <2>2, <2>3
<1>3. CASE ~Before(p, Reach(R))
  <2>1. H = {}
    BY <1>1, <1>3, HeldOnce
  <2> HIDE DEF H
  <2>2. Cardinality({}) = 0
    BY FS_EmptySet
  <2> QED
    BY <1>1, <1>3, <2>1, <2>2
<1> QED
  BY <1>2, <1>3

LEMMA ExhaustedTrue == CoverInd => ExhaustedIsTrue
<1> SUFFICES ASSUME CoverInd, ~torn.lost, \E c \in Call : call[c].pc = "exhausted", NEW p \in Parts
             PROVE  Holders(Filled, p) # {}
  BY DEF ExhaustedIsTrue
<1>1. LedgerTypeOK /\ Whole(FilledRow) /\ FilledRow \in CutRows
  BY LookedUp DEF CoverInd, LedgerIndInv, Coverage
<1>2. Reach(FilledRow) \in Place /\ Reach(FilledRow).at <= Size[Reach(FilledRow).file]
  BY <1>1, ReachIs
<1>3. PlanFrom(Reach(FilledRow)) = NULL
  BY DEF CoverInd, NothingLeft
<1>4. Before(p, Reach(FilledRow))
  BY <1>2, <1>3, PlanFromIs
<1>5. \E e \in Placed(FilledRow) : Holds(FilledRow[e], p)
  BY <1>1, <1>4 DEF Whole
<1> QED
  BY <1>1, <1>5, HoldersAre

\* Every part of the source before the place where planning goes on belongs to
\* exactly one episode and no part after it to any, and a source that is reported
\* as exhausted is, over every interleaving of plans, replans, reviews and crashes
\* (_effective_start, plan, replan, _reconcile_derived_files), when what was split off
\* by hand before is in order; the ledger is well formed and the files say what it
\* says.
THEOREM EachPartInOneEpisode == LegacyInOrder => (Spec => []LedgerInv)
<1>1. LegacyInOrder /\ Init => CoverInd
  BY InitCover
<1>2. CoverInd /\ [Next]_vars => CoverInd'
  BY CoverStep
<1>3. CoverInd => LedgerInv
  BY PartsOnce, ExhaustedTrue DEF LedgerInv, CoverInd, LedgerIndInv
<1> QED
  BY <1>1, <1>2, <1>3, PTL DEF Spec

=============================================================================
