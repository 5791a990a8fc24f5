--------------------------- MODULE TimelineProofs ---------------------------
(***************************************************************************)
(* Proofs about Timeline, for any number of posts, messages, streams and   *)
(* faults, any length of the history and of the queues: the log is true to *)
(* what was accepted (LogIsTrue), and the streams are true to the log      *)
(* (StreamsShowTheLog).  First what the operators on numbers, sequences    *)
(* and channels do; then, invariant by invariant, that every step keeps    *)
(* it.                                                                     *)
(***************************************************************************)
EXTENDS Timeline, FiniteSetTheorems, SequenceTheorems, WellFoundedInduction, TLAPS

\* The states of posts, streams, inbox messages and channel messages.
PostPc == Writing \cup {"new", "ensure", "accepted", "refused", "failed"}
PostState == [pc : PostPc, key : Post \cup {NULL}, base : Nat, seq : Nat]
Line == [seq : Nat, entry : EntrySet]
ViewState == [pc : {"off", "cold", "list", "live"}, last : Nat \cup {-1}, seen : Seq(Line),
              pending : BOOLEAN, beats : {0, 1}]
Item == [t : {"message"}, id : 1..MaxMessages] \cup [t : {"echo", "interrupted", "completed"}]
Notice == [t : {"raw", "delta", "result", "status", "eos"}]
          \cup [t : {"entry"}, seq : Nat, entry : EntrySet]
          \cup [t : {"complete"}, seq : Nat \cup {-1}]

-----------------------------------------------------------------------------
(* Sets of numbers and sequences *)

\* A set of numbers has a least member.
LEMMA LeastNumber ==
    ASSUME NEW T \in SUBSET Nat, T # {}
    PROVE  \E m \in T : \A n \in T : m <= n
<1>1. \E R : IsWellFoundedOn(R, Nat) /\ \A n, k \in Nat : n < k => <<n, k>> \in R
  <2>1. \A n, k \in Nat : n < k => <<n, k>> \in OpToRel(<, Nat)
    BY DEF OpToRel
  <2> WITNESS OpToRel(<, Nat)
  <2> QED
    BY <2>1, NatLessThanWellFounded
<1>2. PICK R : IsWellFoundedOn(R, Nat) /\ \A n, k \in Nat : n < k => <<n, k>> \in R
  BY <1>1
<1>3. IsWellFoundedOn(R, Nat) /\ T \subseteq Nat /\ T # {}
  BY <1>2
<1>6. \E m \in T : \A n \in T : ~ (<<n, m>> \in R)
  BY <1>3, WFMin, Zenon
<1>4. PICK m \in T : \A n \in T : ~ (<<n, m>> \in R)
  BY <1>6
<1>5. ASSUME NEW n \in T
      PROVE  m <= n
  <2>1. m \in Nat /\ n \in Nat /\ ~ (<<n, m>> \in R)
    BY <1>4
  <2>2. ~ (n < m)
    BY <1>2, <2>1
  <2> QED
    BY <2>1, <2>2
<1> QED
  BY <1>5

\* A bounded set of numbers has a greatest member.
LEMMA GreatestNumber ==
    ASSUME NEW b \in Nat, NEW S \in SUBSET (0..b), S # {}
    PROVE  Max(S) \in S /\ \A n \in S : n <= Max(S)
<1> DEFINE T == {b - n : n \in S}
<1>1. T \subseteq Nat /\ T # {}
  OBVIOUS
<1>2. PICK m \in T : \A n \in T : m <= n
  <2> HIDE DEF T
  <2> QED
    BY <1>1, LeastNumber
<1>3. PICK g \in S : m = b - g
  OBVIOUS
<1>4. \A n \in S : b - n \in T /\ n \in Int
  OBVIOUS
<1>8. \A n \in S : b - g <= b - n
  BY <1>2, <1>3, <1>4
<1>5. \A n \in S : g >= n
  BY <1>4, <1>8
<1>6. \E n \in S : \A k \in S : n >= k
  BY <1>5
<1> HIDE DEF T
<1>7. Max(S) \in S /\ \A n \in S : Max(S) >= n
  BY <1>6 DEF Max
<1> QED
  BY <1>7

\* Sorted(S) holds the members of S, each once and in their order.
LEMMA Sorting ==
    ASSUME NEW b \in Nat, NEW S \in SUBSET (0..b)
    PROVE  /\ Sorted(S) \in Seq(S)
           /\ \A i, j \in DOMAIN Sorted(S) : i < j => Sorted(S)[i] < Sorted(S)[j]
           /\ \A n \in S : \E i \in DOMAIN Sorted(S) : Sorted(S)[i] = n
<1> DEFINE under(n) == {m \in S : m < n}
           rank == [n \in S |-> Cardinality(under(n)) + 1]
           c == Cardinality(S)
<1>1. IsFiniteSet(S) /\ c \in Nat
  <2>1. IsFiniteSet(0..b)
    BY FS_Interval
  <2> QED
    BY <2>1, FS_Subset, FS_CardinalityType
<1>12. \A n \in S : n \in Int
  OBVIOUS
<1>2. \A n \in S : IsFiniteSet(under(n)) /\ Cardinality(under(n)) \in Nat
  <2> TAKE n \in S
  <2>1. under(n) \in SUBSET S
    OBVIOUS
  <2> QED
    BY <1>1, <2>1, FS_Subset, FS_CardinalityType
<1>3. \A n, k \in S : n < k => rank[n] < rank[k]
  <2> SUFFICES ASSUME NEW n \in S, NEW k \in S, n < k
               PROVE  Cardinality(under(n)) < Cardinality(under(k))
    BY <1>2
  <2>1. under(n) \cup {n} \in SUBSET under(k) /\ n \notin under(n)
    <3>1. \A m \in S : m < n => m < k
      BY <1>12
    <3>2. n \in under(k) /\ ~ (n < n)
      BY <1>12
    <3>3. under(n) \subseteq under(k)
      BY <3>1
    <3> QED
      BY <3>2, <3>3
  <2>2. Cardinality(under(n) \cup {n}) = Cardinality(under(n)) + 1
    BY <1>2, <2>1, FS_AddElement
  <2>3. Cardinality(under(n) \cup {n}) <= Cardinality(under(k))
    BY <1>2, <2>1, FS_Subset
  <2> QED
    BY <1>2, <2>2, <2>3
<1>4. rank \in [S -> 1..c]
  <2> SUFFICES ASSUME NEW n \in S
               PROVE  Cardinality(under(n)) + 1 \in 1..c
    OBVIOUS
  <2>1. under(n) \cup {n} \in SUBSET S /\ n \notin under(n)
    OBVIOUS
  <2>2. Cardinality(under(n) \cup {n}) = Cardinality(under(n)) + 1
    BY <1>2, <2>1, FS_AddElement
  <2>3. Cardinality(under(n) \cup {n}) <= c
    BY <1>1, <2>1, FS_Subset
  <2> QED
    BY <1>1, <1>2, <2>2, <2>3
<1>5. \A n, k \in S : rank[n] = rank[k] => n = k
  <2>1. \A n, k \in S : n \in Int /\ k \in Int /\ rank[n] \in Int /\ rank[k] \in Int
    BY <1>4
  <2> HIDE DEF rank
  <2> QED
    BY <1>3, <2>1
<1>6. \A i \in 1..c : \E n \in S : rank[n] = i
  <2>1. rank \in Injection(S, 1..c)
    BY <1>4, <1>5 DEF Injection, IsInjective
  <2>2. IsFiniteSet(1..c) /\ Cardinality(1..c) = c
    BY <1>1, FS_Interval
  <2>3. rank \in Surjection(S, 1..c)
    <3> HIDE DEF rank
    <3> QED
      BY <2>1, <2>2, FS_Injection
  <2> QED
    BY <2>3 DEF Surjection
<1>7. \A i \in 1..c : Sorted(S)[i] \in S /\ rank[Sorted(S)[i]] = i
  <2> TAKE i \in 1..c
  <2>1. \E n \in S : Cardinality(under(n)) = i - 1
    BY <1>2, <1>6
  <2>2. Sorted(S)[i] = CHOOSE n \in S : Cardinality(under(n)) = i - 1
    BY DEF Sorted
  <2>3. Sorted(S)[i] \in S /\ Cardinality(under(Sorted(S)[i])) = i - 1
    BY <2>1, <2>2
  <2> QED
    BY <2>3
<1>8. DOMAIN Sorted(S) = 1..c /\ Sorted(S) = [i \in 1..c |-> Sorted(S)[i]]
  BY DEF Sorted
<1> HIDE DEF rank, under
<1>9. Sorted(S) \in Seq(S)
  BY <1>1, <1>7, <1>8
<1>10. ASSUME NEW i \in 1..c, NEW j \in 1..c, i < j
       PROVE  Sorted(S)[i] < Sorted(S)[j]
  <2>1. Sorted(S)[i] \in Int /\ Sorted(S)[j] \in Int
    BY <1>7, <1>10, <1>12
  <2> QED
    BY <1>3, <1>7, <1>10, <2>1
<1>11. ASSUME NEW n \in S
       PROVE  \E i \in 1..c : Sorted(S)[i] = n
  <2>1. rank[n] \in 1..c
    BY <1>4
  <2> QED
    BY <1>5, <1>7, <2>1
<1> QED
  BY <1>8, <1>9, <1>10, <1>11

\* RemoveAt(s, k) is s without its k-th member.
LEMMA Removing ==
    ASSUME NEW D, NEW s \in Seq(D), NEW k \in DOMAIN s
    PROVE  /\ RemoveAt(s, k) \in Seq(D)
           /\ Len(RemoveAt(s, k)) = Len(s) - 1
           /\ \A i \in 1..Len(s) - 1 : RemoveAt(s, k)[i] = s[IF i < k THEN i ELSE i + 1]
<1>1. k \in 1..Len(s) /\ Len(s) \in Nat
  OBVIOUS
<1> DEFINE a == SubSeq(s, 1, k - 1)
           z == SubSeq(s, k + 1, Len(s))
<1>2. a \in Seq(D) /\ Len(a) = k - 1 /\ \A i \in 1..k - 1 : a[i] = s[i]
  BY <1>1, SubSeqProperties
<1>3. z \in Seq(D) /\ Len(z) = Len(s) - k /\ \A i \in 1..Len(s) - k : z[i] = s[k + i]
  BY <1>1, SubSeqProperties
<1>4. RemoveAt(s, k) = a \o z
  BY DEF RemoveAt
<1> HIDE DEF a, z
<1>5. /\ a \o z \in Seq(D) /\ Len(a \o z) = Len(s) - 1
      /\ \A i \in 1..Len(s) - 1 : (a \o z)[i] = IF i <= k - 1 THEN a[i] ELSE z[i - (k - 1)]
  <2>1. /\ a \o z \in Seq(D) /\ Len(a \o z) = Len(a) + Len(z)
        /\ \A i \in 1..Len(a) + Len(z) : (a \o z)[i] = IF i <= Len(a) THEN a[i] ELSE z[i - Len(a)]
    BY <1>2, <1>3, ConcatProperties
  <2>2. Len(a) = k - 1 /\ Len(a) + Len(z) = Len(s) - 1
    BY <1>1, <1>2, <1>3
  <2> QED
    BY <2>1, <2>2
<1>6. ASSUME NEW i \in 1..Len(s) - 1
      PROVE  (a \o z)[i] = s[IF i < k THEN i ELSE i + 1]
  <2>1. CASE i < k
    BY <1>1, <1>2, <1>5, <2>1
  <2>2. CASE ~ (i < k)
    <3>1. (a \o z)[i] = z[i - (k - 1)] /\ i - (k - 1) \in 1..Len(s) - k /\ k + (i - (k - 1)) = i + 1
      BY <1>1, <1>5, <2>2
    <3> QED
      BY <1>3, <2>2, <3>1
  <2> QED
    BY <2>1, <2>2
<1> QED
  BY <1>4, <1>5, <1>6

-----------------------------------------------------------------------------
(* The channel *)

\* The channel, its queues within their bound, and its end marker.
Channels == [subs : SUBSET Viewer, queue : [Viewer -> Seq(Notice)]]
Short(c) == \A v \in Viewer : Len(c.queue[v]) <= QueueMax
Eos == [t |-> "eos"]

\* What a broadcast of m may make of the queue q of a subscriber that stays.
TakesIn(q, r, m) ==
    \/ r = Append(q, m)
    \/ r = q /\ m.t = "delta"
    \/ \E k \in DOMAIN q : q[k].t = "delta" /\ r = Append(RemoveAt(q, k), m)

\* The channel c becomes d by a broadcast of m: whoever is dropped finds the end
\* marker only.
SentTo(c, d, m) ==
    /\ d.subs \subseteq c.subs
    /\ \A v \in Viewer : IF v \notin c.subs THEN d.queue[v] = c.queue[v]
                         ELSE IF v \in d.subs THEN TakesIn(c.queue[v], d.queue[v], m)
                         ELSE d.queue[v] = <<Eos>>

\* An eviction leaves the queue as it is or takes one delta out.
LEMMA Evicting ==
    ASSUME NEW q \in Seq(Notice)
    PROVE  \/ Sse!EvictOne(q) = q
           \/ \E k \in DOMAIN q : q[k].t = "delta" /\ Sse!EvictOne(q) = RemoveAt(q, k)
<1> DEFINE D == Sse!Droppable(q)
<1>1. D = {i \in 1..Len(q) : q[i].t = "delta"}
  BY DEF Sse!Droppable, IsCritical
<1>2. CASE D = {}
  BY <1>2 DEF Sse!EvictOne
<1>3. CASE D # {}
  <2>1. D \in SUBSET Nat /\ D \subseteq DOMAIN q
    BY <1>1
  <2>2. \E i \in D : \A j \in D : i <= j
    <3> HIDE DEF D
    <3> QED
      BY <1>3, <2>1, LeastNumber
  <2>3. PICK k : k = (CHOOSE i \in D : \A j \in D : i <= j)
    OBVIOUS
  <2>4. k \in D
    BY <2>2, <2>3
  <2>5. Sse!EvictOne(q) = RemoveAt(q, k)
    <3>1. Sse!EvictOne(q) = IF D = {} THEN q ELSE Sse!RemoveAt(q, CHOOSE i \in D : \A j \in D : i <= j)
      BY DEF Sse!EvictOne
    <3>2. Sse!RemoveAt(q, k) = RemoveAt(q, k)
      BY DEF Sse!RemoveAt, RemoveAt
    <3> HIDE DEF D
    <3> QED
      BY <1>3, <2>3, <3>1, <3>2
  <2> QED
    BY <1>1, <2>1, <2>4, <2>5
<1> QED
  BY <1>2, <1>3

\* A queue that took m in is a queue.
LEMMA TakenIn ==
    ASSUME NEW q \in Seq(Notice), NEW m \in Notice, NEW r, TakesIn(q, r, m)
    PROVE  r \in Seq(Notice)
<1>1. ASSUME NEW k \in DOMAIN q, r = Append(RemoveAt(q, k), m)
      PROVE  r \in Seq(Notice)
  <2>1. RemoveAt(q, k) \in Seq(Notice)
    BY Removing
  <2> QED
    BY <1>1, <2>1
<1> QED
  BY <1>1 DEF TakesIn

\* A delivery takes m in and keeps the bound of the queue.
LEMMA Delivering ==
    ASSUME NEW q \in Seq(Notice), NEW m \in Notice, Len(q) <= QueueMax, Sse!Delivers(q, m)
    PROVE  /\ TakesIn(q, Sse!AfterDelivery(q, m), m)
           /\ Len(Sse!AfterDelivery(q, m)) <= QueueMax
<1>1. QueueMax \in Nat \ {0} /\ Len(q) \in Nat
  BY TimelineAssumption
<1>2. CASE ~ Sse!Full(q)
  <2>1. Sse!AfterDelivery(q, m) = Append(q, m)
    BY <1>2 DEF Sse!AfterDelivery
  <2>2. Len(Append(q, m)) = Len(q) + 1 /\ Len(q) < QueueMax
    BY <1>1, <1>2 DEF Sse!Full
  <2> QED
    BY <1>1, <2>1, <2>2 DEF TakesIn
<1>3. CASE Sse!Full(q) /\ ~ IsCritical(m)
  <2>1. Sse!AfterDelivery(q, m) = q
    BY <1>3 DEF Sse!AfterDelivery
  <2> QED
    BY <1>3, <2>1 DEF TakesIn, IsCritical
<1>4. CASE Sse!Full(q) /\ IsCritical(m)
  <2> DEFINE e == Sse!EvictOne(q)
  <2>1. Sse!AfterDelivery(q, m) = Append(e, m)
    BY <1>4 DEF Sse!AfterDelivery
  <2>2. ~ Sse!Full(e)
    BY <1>4 DEF Sse!Delivers
  <2>3. e # q
    BY <1>4, <2>2
  <2>4. PICK k \in DOMAIN q : q[k].t = "delta" /\ e = RemoveAt(q, k)
    BY <2>3, Evicting
  <2>5. e \in Seq(Notice)
    BY <2>4, Removing
  <2>6. ~ (Len(e) >= QueueMax)
    BY <2>2 DEF Sse!Full
  <2> HIDE DEF e
  <2>7. Len(Append(e, m)) = Len(e) + 1 /\ Len(e) < QueueMax
    BY <1>1, <2>5, <2>6
  <2>8. Len(Append(e, m)) <= QueueMax
    BY <1>1, <2>5, <2>7
  <2>9. TakesIn(q, Append(e, m), m)
    BY <2>4 DEF TakesIn
  <2> QED
    BY <2>1, <2>8, <2>9
<1> QED
  BY <1>2, <1>3, <1>4

\* So does a broadcast, for every subscriber it keeps.
LEMMA Sending ==
    ASSUME NEW c \in Channels, Short(c), NEW m \in Notice
    PROVE  /\ Sse!Sent(c, m) \in Channels /\ Short(Sse!Sent(c, m))
           /\ SentTo(c, Sse!Sent(c, m), m)
<1> DEFINE d == Sse!Sent(c, m)
<1>1. c.subs \subseteq Viewer /\ c.queue \in [Viewer -> Seq(Notice)]
  BY DEF Channels
<1>2. /\ d.subs = {v \in c.subs : Sse!Delivers(c.queue[v], m)}
      /\ d.queue = [v \in Viewer |-> IF v \notin c.subs THEN c.queue[v]
                                     ELSE IF Sse!Delivers(c.queue[v], m) THEN Sse!AfterDelivery(c.queue[v], m)
                                     ELSE <<Eos>>]
  BY <1>1 DEF Sse!Sent, Sse!Kept, Sse!Delivered, Sse!Signalled, Eos
<1>3. d = [subs |-> d.subs, queue |-> d.queue]
  BY DEF Sse!Sent
<1> HIDE DEF d
<1>4. ASSUME NEW v \in Viewer
      PROVE  /\ d.queue[v] \in Seq(Notice) /\ Len(d.queue[v]) <= QueueMax
             /\ IF v \notin c.subs THEN d.queue[v] = c.queue[v]
                ELSE IF v \in d.subs THEN TakesIn(c.queue[v], d.queue[v], m)
                ELSE d.queue[v] = <<Eos>>
  <2>1. c.queue[v] \in Seq(Notice) /\ Len(c.queue[v]) <= QueueMax
    BY <1>1 DEF Short
  <2>2. CASE v \notin c.subs
    BY <1>2, <2>1, <2>2
  <2>3. CASE v \in c.subs /\ v \in d.subs
    <3>1. Sse!Delivers(c.queue[v], m) /\ d.queue[v] = Sse!AfterDelivery(c.queue[v], m)
      BY <1>2, <2>3
    <3>2. TakesIn(c.queue[v], d.queue[v], m) /\ Len(d.queue[v]) <= QueueMax
      BY <2>1, <3>1, Delivering
    <3> QED
      BY <2>1, <2>3, <3>2, TakenIn
  <2>4. CASE v \in c.subs /\ v \notin d.subs
    <3>1. d.queue[v] = <<Eos>>
      BY <1>2, <2>4
    <3>2. Eos \in Notice /\ <<Eos>> \in Seq(Notice) /\ Len(<<Eos>>) = 1
      BY DEF Eos, Notice
    <3>3. 1 <= QueueMax
      BY TimelineAssumption
    <3> QED
      BY <2>4, <3>1, <3>2, <3>3
  <2> QED
    BY <2>2, <2>3, <2>4
<1>5. d.queue \in [Viewer -> Seq(Notice)]
  <2>1. DOMAIN d.queue = Viewer /\ d.queue = [v \in Viewer |-> d.queue[v]]
    BY <1>2
  <2> QED
    BY <1>4, <2>1
<1>6. d.subs \subseteq c.subs
  BY <1>2
<1> QED
  BY <1>1, <1>3, <1>4, <1>5, <1>6 DEF d, Channels, Short, SentTo

-----------------------------------------------------------------------------
(* Types *)

\* The types of the variables, by the part of the system they belong to.
BfState == {"none", "lock", "read", "have"}
RowTypes == (\E b \in Nat : Rows \subseteq 0..b) /\ log \in [Rows -> EntrySet]
PipeTypes == /\ inbox \in Seq(Item) /\ at \in {"wait", "select", "insert"} /\ base \in Nat
             /\ at # "wait" => inbox # <<>>
SdkTypes == /\ sdkq \in Seq(Post) /\ turn \in Post \cup {NULL} /\ made \in 0..MaxMessages
            /\ delivered \subseteq Post
PostTypes == /\ post \in [Post -> PostState]
             /\ \A p \in Post : post[p].pc # "new" => post[p].key \in Post
ChanTypes == Chan \in Channels /\ Short(Chan)
ViewTypes == view \in [Viewer -> ViewState] /\ \A v \in subs : view[v].pc \in {"list", "live"}
FlagTypes == running \in BOOLEAN /\ calm \in BOOLEAN /\ faults \in 0..MaxFaults
LogTypes ==
    /\ RowTypes
    /\ PostTypes
    /\ SdkTypes
    /\ PipeTypes
    /\ ChanTypes
    /\ ViewTypes
    /\ bf \in [Proc -> BfState]
    /\ FlagTypes

\* What the assumption on the constants gives to the proofs.
LEMMA Constants ==
    /\ MaxPosts \in Nat /\ MaxMessages \in Nat /\ History \in Nat /\ MaxFaults \in Nat
    /\ NULL \notin Post /\ Post \subseteq Nat /\ NULL \notin Viewer /\ Post \cap Viewer = {}
BY TimelineAssumption DEF Post

\* The next sequence number is above every row and one above the last.
LEMMA NextIsNew ==
    ASSUME RowTypes
    PROVE  /\ NextSeq \in Nat
           /\ \A n \in Rows : n \in Nat /\ n < NextSeq
           /\ NextSeq > 0 => NextSeq - 1 \in Rows
<1>1. PICK b \in Nat : Rows \subseteq 0..b
  BY DEF RowTypes
<1>2. CASE Rows = {}
  BY <1>2 DEF NextSeq
<1>3. CASE Rows # {}
  <2>1. Max(Rows) \in Rows /\ \A n \in Rows : n <= Max(Rows)
    BY <1>1, <1>3, GreatestNumber
  <2>2. NextSeq = Max(Rows) + 1
    BY <1>3 DEF NextSeq
  <2>3. \A n \in Rows : n \in Nat
    BY <1>1
  <2>4. PICK g : g = Max(Rows)
    OBVIOUS
  <2>5. g \in Nat /\ g \in Rows /\ NextSeq = g + 1 /\ \A n \in Rows : n <= g
    BY <2>1, <2>2, <2>3, <2>4
  <2> QED
    BY <2>3, <2>5
<1> QED
  BY <1>2, <1>3

\* What a stream that lists the log shows.
Listed(v, ns) ==
    /\ ns \in Seq(Line)
    /\ \A i \in DOMAIN ns : ns[i].seq \in After(view[v].last) /\ ns[i].entry = log[ns[i].seq]
    /\ \A i, j \in DOMAIN ns : i < j => ns[i].seq < ns[j].seq
    /\ \A n \in After(view[v].last) : \E i \in DOMAIN ns : ns[i].seq = n

\* The rows behind the cursor are listed once each and in their order.
LEMMA Listing ==
    ASSUME RowTypes, NEW v \in Viewer
    PROVE  Listed(v, Unseen(v))
<1>1. PICK b \in Nat : Rows \subseteq 0..b
  BY DEF RowTypes
<1> DEFINE S == After(view[v].last)
           s == Sorted(S)
<1>2. S \in SUBSET (0..b) /\ S \subseteq Rows
  BY <1>1 DEF After
<1>3. /\ s \in Seq(S)
      /\ \A i, j \in DOMAIN s : i < j => s[i] < s[j]
      /\ \A n \in S : \E i \in DOMAIN s : s[i] = n
  <2> HIDE DEF S
  <2> QED
    BY <1>2, Sorting
<1>4. Unseen(v) = [i \in DOMAIN s |-> [seq |-> s[i], entry |-> log[s[i]]]]
  BY DEF Unseen
<1>5. DOMAIN s = 1..Len(s) /\ Len(s) \in Nat /\ \A i \in DOMAIN s : s[i] \in S
  <2> HIDE DEF s
  <2> QED
    BY <1>3
<1> HIDE DEF s
<1>6. \A i \in DOMAIN s : [seq |-> s[i], entry |-> log[s[i]]] \in Line
  BY <1>1, <1>2, <1>5 DEF Line, RowTypes
<1>7. Unseen(v) \in Seq(Line)
  BY <1>4, <1>5, <1>6
<1>8. DOMAIN Unseen(v) = DOMAIN s
  BY <1>4
<1>9. \A i \in DOMAIN s : Unseen(v)[i].seq = s[i] /\ Unseen(v)[i].entry = log[s[i]]
  BY <1>4
<1> HIDE DEF S
<1>10. \A i, j \in DOMAIN s : i < j => Unseen(v)[i].seq < Unseen(v)[j].seq
  BY <1>3, <1>9
<1>11. \A n \in S : \E i \in DOMAIN s : Unseen(v)[i].seq = n
  BY <1>3, <1>9
<1>12. \A i \in DOMAIN s : Unseen(v)[i].seq \in S /\ Unseen(v)[i].entry = log[Unseen(v)[i].seq]
  BY <1>5, <1>9
<1>13. S = After(view[v].last)
  BY DEF S
<1> QED
  BY <1>7, <1>8, <1>10, <1>11, <1>12, <1>13 DEF Listed

\* The stream after its listing.
LEMMA ShowingAll ==
    ASSUME RowTypes, NEW v \in Viewer, view[v] \in ViewState
    PROVE  LET new == Unseen(v)
               r == ShowAll(v)
           IN /\ r \in ViewState
              /\ r = [view[v] EXCEPT !.seen = view[v].seen \o new, !.last = r.last]
              /\ r.seen = view[v].seen \o new
              /\ new = <<>> => r.last = view[v].last
              /\ new # <<>> => r.last = new[Len(new)].seq /\ Len(new) \in DOMAIN new
<1> DEFINE new == Unseen(v)
           r == ShowAll(v)
           last == IF new = <<>> THEN view[v].last ELSE new[Len(new)].seq
<1>1. new \in Seq(Line)
  BY Listing DEF Listed
<1>2. r = [view[v] EXCEPT !.seen = view[v].seen \o new, !.last = last]
  BY DEF ShowAll
<1> HIDE DEF new, r
<1>3. new # <<>> => Len(new) \in DOMAIN new /\ new[Len(new)] \in Line
  BY <1>1
<1>4. last \in Nat \cup {-1}
  BY <1>3 DEF ViewState, Line
<1>5. view[v].seen \o new \in Seq(Line)
  BY <1>1 DEF ViewState
<1> HIDE DEF last
<1>6. r.seen = view[v].seen \o new /\ r.last = last
  BY <1>2 DEF ViewState
<1>7. r \in ViewState
  BY <1>2, <1>4, <1>5 DEF ViewState
<1> QED
  BY <1>2, <1>3, <1>6, <1>7 DEF last, new, r

-----------------------------------------------------------------------------

\* The types at the start.
LEMMA InitTypes == Init => LogTypes
<1> SUFFICES ASSUME Init PROVE LogTypes
  OBVIOUS
<1>1. RowTypes
  <2>1. Rows = {}
    BY DEF Init, Rows
  <2>2. log = [n \in Rows |-> log[n]]
    BY DEF Init, Rows
  <2>3. Rows \subseteq 0..0
    BY <2>1
  <2> QED
    BY <2>1, <2>2, <2>3 DEF RowTypes
<1>2. PostTypes
  BY DEF Init, NewPost, PostState, PostPc, PostTypes
<1>3. SdkTypes /\ PipeTypes /\ FlagTypes
  <2>1. <<>> \in Seq(Post) /\ <<>> \in Seq(Item) /\ 0 \in 0..MaxMessages /\ 0 \in 0..MaxFaults
    BY Constants
  <2>2. SdkTypes
    BY <2>1 DEF Init, SdkTypes
  <2>3. PipeTypes
    BY <2>1 DEF Init, PipeTypes
  <2>4. FlagTypes
    BY <2>1 DEF Init, FlagTypes
  <2> QED
    BY <2>2, <2>3, <2>4
<1>4. ChanTypes
  <2>1. Len(<<>>) = 0 /\ <<>> \in Seq(Notice) /\ 0 <= QueueMax
    BY TimelineAssumption
  <2> QED
    BY <2>1 DEF Init, ChanTypes, Chan, Channels, Short
<1>5. ViewTypes
  BY DEF Init, ViewTypes, Closed, ViewState
<1>6. bf \in [Proc -> BfState]
  BY DEF Init, BfState
<1> QED
  BY <1>1, <1>2, <1>3, <1>4, <1>5, <1>6 DEF LogTypes

\* A broadcast keeps the types.
LEMMA Broadcasts ==
    ASSUME ChanTypes, ViewTypes, NEW m \in Notice, Broadcast(m), view' = view
    PROVE  ChanTypes' /\ ViewTypes' /\ SentTo(Chan, Chan', m)
<1> DEFINE d == Sse!Sent(Chan, m)
<1>1. d \in Channels /\ Short(d) /\ SentTo(Chan, d, m)
  BY Sending DEF ChanTypes
<1>2. subs' = d.subs /\ queue' = d.queue
  BY DEF Broadcast, Becomes
<1> HIDE DEF d
<1>3. Chan' = d
  BY <1>1, <1>2 DEF Chan, Channels
<1>4. subs' \subseteq subs
  BY <1>1, <1>2 DEF SentTo, Chan
<1> QED
  BY <1>1, <1>3, <1>4 DEF ChanTypes, ViewTypes

\* The messages the code builds are messages of the channel.
LEMMA EntryTypes ==
    /\ \A n \in Nat, e \in EntrySet : Shown(n, e) \in Notice
    /\ \A n \in Nat \cup {-1} : Complete(n) \in Notice
    /\ \A k \in {"raw", "delta", "result", "status", "eos"} : [t |-> k] \in Notice
BY DEF Shown, Complete, Notice

\* The head of the inbox is done with: what is left, and what is told.
HandledAs(rows, ms, mid) ==
    /\ IF ms = <<>> THEN mid = Chan ELSE SentTo(Chan, mid, Head(ms))
    /\ IF EndsTurn THEN running' = FALSE /\ SentTo(mid, Chan', TurnEnded(rows))
       ELSE running' = running /\ Chan' = mid

\* Whatever the inbox task broadcasts for the head of the inbox is a broadcast or
\* two, the end of the turn last.
LEMMA Handling ==
    ASSUME ChanTypes, ViewTypes, PipeTypes, FlagTypes, NEW rows, NEW ms, Handled(rows, ms), view' = view,
           calm' = calm, faults' = faults,
           ms = <<>> \/ \E m \in Notice : ms = <<m>>,
           EndsTurn => TurnEnded(rows) \in Notice, inbox # <<>>
    PROVE  /\ ChanTypes' /\ ViewTypes' /\ PipeTypes' /\ FlagTypes'
           /\ \E mid \in Channels : HandledAs(rows, ms, mid)
<1> DEFINE mid == Told(Chan, ms)
           d == IF EndsTurn THEN Sse!Sent(mid, TurnEnded(rows)) ELSE mid
<1>1. /\ mid \in Channels /\ Short(mid) /\ mid.subs \subseteq subs
      /\ IF ms = <<>> THEN mid = Chan ELSE SentTo(Chan, mid, Head(ms))
  <2>1. CASE ms = <<>>
    BY <2>1 DEF Told, ChanTypes, Chan
  <2>2. CASE ms # <<>>
    <3>1. PICK m \in Notice : ms = <<m>>
      BY <2>2
    <3>2. Head(ms) = m /\ mid = Sse!Sent(Chan, m)
      BY <2>2, <3>1 DEF Told
    <3>3. mid \in Channels /\ Short(mid) /\ SentTo(Chan, mid, m)
      BY <3>2, Sending DEF ChanTypes
    <3>4. mid.subs \subseteq subs
      BY <3>3 DEF SentTo, Chan
    <3> QED
      BY <2>2, <3>2, <3>3, <3>4
  <2> QED
    BY <2>1, <2>2
<1>2. subs' = d.subs /\ queue' = d.queue
  BY DEF Handled, Becomes
<1>3. /\ running' = IF EndsTurn THEN FALSE ELSE running
      /\ inbox' = Tail(inbox) /\ at' = "wait" /\ base' = 0
  BY DEF Handled
<1> HIDE DEF mid
<1>4. d \in Channels /\ Short(d) /\ d.subs \subseteq subs
  <2>1. CASE EndsTurn
    <3>1. d = Sse!Sent(mid, TurnEnded(rows))
      BY <2>1
    <3>2. d \in Channels /\ Short(d) /\ SentTo(mid, d, TurnEnded(rows))
      BY <1>1, <2>1, <3>1, Sending
    <3> QED
      BY <1>1, <3>2 DEF SentTo
  <2>2. CASE ~ EndsTurn
    BY <1>1, <2>2
  <2> QED
    BY <2>1, <2>2
<1>5. EndsTurn => SentTo(mid, d, TurnEnded(rows))
  BY <1>1, Sending
<1>6. ~ EndsTurn => d = mid
  OBVIOUS
<1> HIDE DEF d
<1>7. Chan' = d
  BY <1>2, <1>4 DEF Chan, Channels
<1>8. ChanTypes' /\ ViewTypes'
  BY <1>2, <1>4, <1>7 DEF ChanTypes, ViewTypes
<1>9. PipeTypes' /\ FlagTypes'
  <2>1. Tail(inbox) \in Seq(Item)
    BY HeadTailProperties DEF PipeTypes
  <2>2. PipeTypes'
    BY <1>3, <2>1 DEF PipeTypes
  <2>3. FlagTypes'
    BY <1>3 DEF FlagTypes
  <2> QED
    BY <2>2, <2>3
<1>10. HandledAs(rows, ms, mid)
  BY <1>1, <1>3, <1>5, <1>6, <1>7 DEF HandledAs
<1> QED
  BY <1>1, <1>8, <1>9, <1>10

-----------------------------------------------------------------------------
(* Posts, rows and the head of the inbox *)

\* The prompts that wait for the SDK belong to posts that were sent, once each;
\* those it has taken belong to accepted posts.
Prompts ==
    /\ \A i \in DOMAIN sdkq : post[sdkq[i]].pc = "sent"
    /\ \A i, j \in DOMAIN sdkq : sdkq[i] = sdkq[j] => i = j
    /\ \A p \in delivered : post[p].pc = "accepted"
    /\ turn \in delivered \cup {NULL}

\* A row more, or one less.
Adds(n, e) == log' = With(n, e) /\ n \in Nat /\ n \notin Rows /\ e \in EntrySet

\* What an insert and a delete do to the rows.
LEMMA Adding ==
    ASSUME RowTypes, NEW n \in Nat, NEW e \in EntrySet, log' = With(n, e)
    PROVE  /\ RowTypes' /\ Rows' = Rows \cup {n}
           /\ log'[n] = e /\ \A m \in Rows : m # n => log'[m] = log[m]
<1>1. PICK b \in Nat : Rows \subseteq 0..b
  BY DEF RowTypes
<1>2. Rows' = Rows \cup {n}
  BY DEF With, Rows
<1>3. log' \in [Rows \cup {n} -> EntrySet] /\ log'[n] = e /\ \A m \in Rows : m # n => log'[m] = log[m]
  BY DEF With, RowTypes
<1>4. \E c \in Nat : Rows \cup {n} \subseteq 0..c
  <2>1. b + n \in Nat /\ Rows \cup {n} \subseteq 0..b + n
    BY <1>1
  <2> QED
    BY <2>1
<1> QED
  BY <1>2, <1>3, <1>4 DEF RowTypes

\* A deleted row is gone and the others stay.
LEMMA Deleting ==
    ASSUME RowTypes, NEW n, log' = Without(n)
    PROVE  /\ RowTypes' /\ Rows' = Rows \ {n}
           /\ \A m \in Rows : m # n => log'[m] = log[m]
<1>1. Rows' = Rows \ {n} /\ log' = [m \in Rows \ {n} |-> log[m]]
  BY DEF Without, Rows
<1> QED
  BY <1>1 DEF RowTypes

\* A backfill appends the entries of the transcript, in order.
HistoryEntry(k) == [kind |-> "history", id |-> k + 1, key |-> NULL]
Fills == /\ Rows' = Rows \cup (NextSeq..(NextSeq + History - 1))
         /\ \A n \in Rows : log'[n] = log[n]
         /\ \A n \in NextSeq..(NextSeq + History - 1) : log'[n] = HistoryEntry(n - NextSeq)

\* It keeps the rows there are.
LEMMA Backfilling ==
    ASSUME RowTypes, NEW x, Backfill(x)
    PROVE  RowTypes' /\ Fills
<1>1. PICK b \in Nat : Rows \subseteq 0..b
  BY DEF RowTypes
<1>2. NextSeq \in Nat /\ \A n \in Rows : n \in Nat /\ n < NextSeq
  BY NextIsNew
<1> DEFINE Begin == NextSeq
           new == Begin..(Begin + History - 1)
<1>3. log' = [n \in Rows \cup new |-> IF n \in Rows THEN log[n] ELSE HistoryEntry(n - Begin)]
  BY DEF Backfill, HistoryEntry
<1> HIDE DEF Begin
<1>4. Rows' = Rows \cup new
  BY <1>3 DEF Rows
<1>5. History \in Nat /\ Begin \in Nat
  BY <1>2, Constants DEF Begin
<1>6. \A n \in new : n \notin Rows /\ n \in Nat /\ n - Begin \in 0..History - 1
  BY <1>2, <1>5 DEF Begin
<1>7. \A n \in new : HistoryEntry(n - Begin) \in EntrySet
  <2>1. \A k \in 0..History - 1 : k + 1 \in 1..History
    BY <1>5
  <2>2. \A k \in 0..History - 1 : HistoryEntry(k) \in EntrySet
    BY <2>1 DEF HistoryEntry, EntrySet
  <2> QED
    BY <1>6, <2>2
<1>8. log' \in [Rows \cup new -> EntrySet]
  <2>1. \A n \in Rows : log[n] \in EntrySet
    BY DEF RowTypes
  <2> HIDE DEF new
  <2>2. \A n \in Rows \cup new : log'[n] \in EntrySet
    BY <1>3, <1>7, <2>1
  <2>3. PICK f, D : f = log' /\ D = Rows \cup new
    OBVIOUS
  <2>4. f = [n \in D |-> f[n]] /\ \A n \in D : f[n] \in EntrySet
    BY <1>3, <2>2, <2>3
  <2>5. f \in [D -> EntrySet]
    BY <2>4
  <2> QED
    BY <2>3, <2>5
<1>9. Rows \cup new \subseteq 0..(b + Begin + History) /\ b + Begin + History \in Nat
  <2>1. new \subseteq 0..(b + Begin + History) /\ b + Begin + History \in Nat
    BY <1>5
  <2>2. 0..b \subseteq 0..(b + Begin + History)
    BY <1>5
  <2> QED
    BY <1>1, <2>1, <2>2
<1>10. RowTypes'
  BY <1>4, <1>8, <1>9 DEF RowTypes
<1>11. (\A n \in Rows : log'[n] = log[n]) /\ \A n \in new : log'[n] = HistoryEntry(n - Begin)
  BY <1>3, <1>6
<1> QED
  BY <1>4, <1>10, <1>11 DEF Fills, Begin

\* The entry of a post is an entry.
LEMMA UserTypes ==
    ASSUME PostTypes, NEW p \in Post, post[p].pc # "new"
    PROVE  User(p) \in EntrySet
BY DEF PostTypes, User, EntrySet

\* The head of the inbox, and what is behind it.
LEMMA HeadTypes ==
    ASSUME PipeTypes, inbox # <<>>
    PROVE  /\ Head(inbox) \in Item /\ Entry \in EntrySet /\ Head(inbox) = inbox[1] /\ 1 \in DOMAIN inbox
           /\ Tail(inbox) \in Seq(Item) /\ Len(inbox) \in Nat \ {0} /\ Len(Tail(inbox)) = Len(inbox) - 1
           /\ \A i \in 1..Len(inbox) - 1 : Tail(inbox)[i] = inbox[i + 1]
<1>1. Head(inbox) \in Item
  BY DEF PipeTypes
<1>2. Entry \in EntrySet
  BY <1>1 DEF Entry, EntrySet, Item, Interrupt
<1>3. Head(inbox) = inbox[1] /\ 1 \in DOMAIN inbox
  BY DEF PipeTypes
<1> QED
  BY <1>1, <1>2, <1>3, HeadTailProperties, EmptySeq DEF PipeTypes

\* What each kind of step may do to the posts.
LEMMA Going ==
    ASSUME PostTypes, NEW p \in Post, NEW r \in PostState, r.pc # "new" => r.key \in Post,
           post' = [post EXCEPT ![p] = r]
    PROVE  PostTypes' /\ post'[p] = r /\ \A q \in Post : q # p => post'[q] = post[q]
BY DEF PostTypes

\* The post p takes the state r.
MovesTo(p, r) == p \in Post /\ r \in PostState /\ post' = [post EXCEPT ![p] = r]

\* Goto moves one post on.
LEMMA Gone ==
    ASSUME PostTypes, NEW p \in Post, NEW pc \in PostPc, post[p].pc # "new", Goto(p, pc)
    PROVE  MovesTo(p, [post[p] EXCEPT !.pc = pc]) /\ PostTypes'
<1> DEFINE r == [post[p] EXCEPT !.pc = pc]
<1>1. post' = [post EXCEPT ![p] = r]
  BY DEF Goto, PostTypes
<1>2. r \in PostState /\ r.key = post[p].key
  BY DEF PostTypes, PostState
<1>3. r.key \in Post
  BY <1>2 DEF PostTypes
<1> HIDE DEF r
<1>4. PostTypes'
  BY <1>1, <1>2, <1>3, Going
<1> QED
  BY <1>1, <1>2, <1>4 DEF MovesTo, r

\* Leaves moves one post on and forgets its numbers.
LEMMA Left ==
    ASSUME PostTypes, NEW p \in Post, NEW pc \in PostPc, post[p].pc # "new", Leaves(p, pc)
    PROVE  MovesTo(p, [post[p] EXCEPT !.pc = pc, !.base = 0, !.seq = 0]) /\ PostTypes'
<1> DEFINE r == [post[p] EXCEPT !.pc = pc, !.base = 0, !.seq = 0]
<1>1. post' = [post EXCEPT ![p] = r]
  BY DEF Leaves, PostTypes
<1>2. r \in PostState /\ r.key = post[p].key
  BY DEF PostTypes, PostState
<1>3. r.key \in Post
  BY <1>2 DEF PostTypes
<1> HIDE DEF r
<1>4. PostTypes'
  BY <1>1, <1>2, <1>3, Going
<1> QED
  BY <1>1, <1>2, <1>4 DEF MovesTo, r

-----------------------------------------------------------------------------
(* Every step keeps the types *)

\* Every step keeps the types.
LEMMA TypesStep ==
    ASSUME LogTypes, Prompts, [Next]_vars
    PROVE  LogTypes'
<1> USE DEF LogTypes, logged, sdk, pipe, channel
<1> DEFINE Rest == RowTypes' /\ SdkTypes' /\ PipeTypes' /\ ChanTypes' /\ ViewTypes'
                   /\ bf' \in [Proc -> BfState] /\ FlagTypes'
<1>1. CASE UNCHANGED vars
  BY <1>1 DEF vars, RowTypes, Rows, SdkTypes, PipeTypes, ChanTypes, ViewTypes, FlagTypes, PostTypes, Chan, Short
<1>2. ASSUME NEW x \in Proc, HasEntries(x) \/ LockBackfill(x)
      PROVE  LogTypes'
  <2>1. bf' \in [Proc -> BfState]
    BY <1>2 DEF HasEntries, LockBackfill, BfState
  <2>2. UNCHANGED <<log, post, running, sdk, pipe, channel, view, calm, faults>>
    BY <1>2 DEF HasEntries, LockBackfill
  <2> QED
    BY <2>1, <2>2 DEF RowTypes, Rows, SdkTypes, PipeTypes, ChanTypes, ViewTypes, FlagTypes, PostTypes, Chan, Short
<1>3. ASSUME NEW x \in Proc, Backfill(x)
      PROVE  LogTypes'
  <2>1. bf' \in [Proc -> BfState] /\ UNCHANGED <<post, running, sdk, pipe, channel, view, calm, faults>>
    BY <1>3 DEF Backfill, BfState
  <2>2. RowTypes'
    BY <1>3, Backfilling
  <2> QED
    BY <2>1, <2>2 DEF SdkTypes, PipeTypes, ChanTypes, ViewTypes, FlagTypes, PostTypes, Chan, Short
<1>4. ASSUME NEW p \in Post, NEW k \in Post, Arrive(p, k)
      PROVE  LogTypes'
  <2>1. post' = [post EXCEPT ![p] = [@ EXCEPT !.pc = "ensure", !.key = k]]
    BY <1>4 DEF Arrive, PostTypes
  <2>2. [post[p] EXCEPT !.pc = "ensure", !.key = k] \in PostState
    BY DEF PostTypes, PostState, PostPc
  <2>3. [post[p] EXCEPT !.pc = "ensure", !.key = k].key \in Post
    BY DEF PostTypes, PostState
  <2>4. PostTypes'
    BY <2>1, <2>2, <2>3, Going
  <2>5. UNCHANGED <<logged, running, sdk, pipe, channel, view, calm, faults>>
    BY <1>4 DEF Arrive
  <2> QED
    BY <2>4, <2>5 DEF RowTypes, Rows, SdkTypes, PipeTypes, ChanTypes, ViewTypes, FlagTypes, Chan, Short
<1>5. ASSUME NEW p \in Post, Precheck(p)
      PROVE  LogTypes'
  <2>1. post[p].pc = "ensure" /\ \E pc \in {"accepted", "refused", "select"} : Goto(p, pc)
    BY <1>5 DEF Precheck
  <2>2. PostTypes'
    BY <2>1, Gone DEF PostPc, Writing
  <2>3. bf' \in [Proc -> BfState]
    BY <1>5 DEF Precheck, BfState
  <2>4. calm' \in BOOLEAN
    BY <1>5 DEF Precheck, FlagTypes
  <2>5. UNCHANGED <<log, running, sdk, pipe, channel, view, faults>>
    BY <1>5 DEF Precheck
  <2> QED
    BY <2>2, <2>3, <2>4, <2>5 DEF RowTypes, Rows, SdkTypes, PipeTypes, ChanTypes, ViewTypes, FlagTypes, Chan, Short
<1>6. ASSUME NEW p \in Post, SelectNextForUser(p)
      PROVE  LogTypes'
  <2>1. PostTypes'
    <3>1. CASE KeyLogged(post[p].key)
      BY <1>6, <3>1, Gone DEF SelectNextForUser, Goto, PostPc
    <3>2. CASE ~ KeyLogged(post[p].key)
      <4>1. post' = [post EXCEPT ![p] = [@ EXCEPT !.pc = "insert", !.base = NextSeq]]
        BY <1>6, <3>2 DEF SelectNextForUser, PostTypes
      <4>2. [post[p] EXCEPT !.pc = "insert", !.base = NextSeq] \in PostState
        BY NextIsNew DEF PostTypes, PostState, PostPc, Writing
      <4>3. [post[p] EXCEPT !.pc = "insert", !.base = NextSeq].key \in Post
        BY <1>6 DEF PostTypes, PostState, SelectNextForUser
      <4> QED
        BY <4>1, <4>2, <4>3, Going
    <3> QED
      BY <3>1, <3>2
  <2>2. UNCHANGED <<logged, running, sdk, pipe, channel, view, calm, faults>>
    BY <1>6 DEF SelectNextForUser
  <2> QED
    BY <2>1, <2>2 DEF RowTypes, Rows, SdkTypes, PipeTypes, ChanTypes, ViewTypes, FlagTypes, Chan, Short
<1>7. ASSUME NEW p \in Post, InsertUser(p)
      PROVE  LogTypes'
  <2>1. UNCHANGED <<bf, running, sdk, pipe, channel, view, calm, faults>> /\ post[p].pc = "insert"
    BY <1>7 DEF InsertUser
  <2>2. PostTypes' /\ RowTypes'
    <3>1. CASE \E pc \in {"accepted", "select"} : Leaves(p, pc) /\ UNCHANGED log
      BY <2>1, <3>1, Left DEF PostPc, Writing, RowTypes, Rows
    <3>2. CASE /\ log' = With(post[p].base, User(p))
               /\ post' = [post EXCEPT ![p].pc = "mark", ![p].base = 0, ![p].seq = post[p].base]
      <4>1. post' = [post EXCEPT ![p] = [@ EXCEPT !.pc = "mark", !.base = 0, !.seq = post[p].base]]
        BY <3>2 DEF PostTypes
      <4>2. [post[p] EXCEPT !.pc = "mark", !.base = 0, !.seq = post[p].base] \in PostState /\ post[p].base \in Nat
        BY DEF PostTypes, PostState, PostPc, Writing
      <4>3. [post[p] EXCEPT !.pc = "mark", !.base = 0, !.seq = post[p].base].key \in Post
        BY <2>1 DEF PostTypes, PostState
      <4>4. User(p) \in EntrySet
        BY <2>1, UserTypes
      <4> QED
        BY <3>2, <4>1, <4>2, <4>3, <4>4, Going, Adding
    <3> QED
      BY <1>7, <3>1, <3>2 DEF InsertUser
  <2> QED
    BY <2>1, <2>2 DEF SdkTypes, PipeTypes, ChanTypes, ViewTypes, FlagTypes, Chan, Short
<1>8. ASSUME NEW p \in Post, Mark(p)
      PROVE  LogTypes'
  <2>1. PostTypes'
    BY <1>8, Gone DEF Mark, PostPc, Writing
  <2>2. sdkq' \in Seq(Post) /\ running' = TRUE
    BY <1>8 DEF Mark, SdkTypes
  <2>3. UNCHANGED <<logged, turn, made, delivered, pipe, channel, view, calm, faults>>
    BY <1>8 DEF Mark
  <2> QED
    BY <2>1, <2>2, <2>3 DEF RowTypes, Rows, SdkTypes, PipeTypes, ChanTypes, ViewTypes, FlagTypes, Chan, Short
<1>9. ASSUME NEW p \in Post, Undo(p)
      PROVE  LogTypes'
  <2>1. PostTypes'
    BY <1>9, Left DEF Undo, PostPc
  <2>2. RowTypes'
    BY <1>9, Deleting DEF Undo
  <2>3. UNCHANGED <<bf, running, sdk, pipe, channel, view, calm, faults>>
    BY <1>9 DEF Undo
  <2> QED
    BY <2>1, <2>2, <2>3 DEF SdkTypes, PipeTypes, ChanTypes, ViewTypes, FlagTypes, Chan, Short
<1>10. CASE Accept
  <2>1. PICK p : p = Head(sdkq)
    OBVIOUS
  <2>2. p \in Post /\ post[p].pc = "sent" /\ Tail(sdkq) \in Seq(Post)
    BY <1>10, <2>1 DEF Accept, SdkTypes, Prompts
  <2>3. /\ turn' = p /\ delivered' = delivered \cup {p} /\ Leaves(p, "accepted")
        /\ Broadcast(Shown(post[p].seq, User(p))) /\ sdkq' = Tail(sdkq)
        /\ UNCHANGED <<logged, made, running, pipe, view, calm, faults>>
    BY <1>10, <2>1 DEF Accept
  <2>4. PostTypes'
    BY <2>2, <2>3, Left DEF PostPc
  <2>5. Shown(post[p].seq, User(p)) \in Notice
    BY <2>2, UserTypes, EntryTypes DEF PostTypes, PostState
  <2>6. ChanTypes' /\ ViewTypes'
    BY <2>3, <2>5, Broadcasts
  <2> QED
    BY <2>2, <2>3, <2>4, <2>6 DEF RowTypes, Rows, SdkTypes, PipeTypes, FlagTypes
<1>11. CASE Message
  <2>1. made + 1 \in 1..MaxMessages /\ made' = made + 1
    BY <1>11, Constants DEF Message, SdkTypes
  <2>2. [t |-> "message", id |-> made'] \in Item
    BY <2>1 DEF Item
  <2>3. inbox' \in Seq(Item) /\ inbox' # <<>>
    BY <1>11, <2>2, AppendProperties DEF Message, PipeTypes
  <2>4. ChanTypes' /\ ViewTypes'
    BY <1>11, Broadcasts, EntryTypes DEF Message
  <2>5. UNCHANGED <<logged, post, sdkq, turn, delivered, running, at, base, view, calm, faults>>
    BY <1>11 DEF Message
  <2>6. made' \in 0..MaxMessages
    BY <2>1, Constants
  <2> QED
    BY <2>3, <2>4, <2>5, <2>6 DEF RowTypes, Rows, SdkTypes, PipeTypes, FlagTypes, PostTypes
<1>12. CASE Delta
  <2>1. ChanTypes' /\ ViewTypes'
    BY <1>12, Broadcasts, EntryTypes DEF Delta
  <2>2. UNCHANGED <<logged, post, sdk, running, pipe, view, calm, faults>>
    BY <1>12 DEF Delta
  <2> QED
    BY <2>1, <2>2 DEF RowTypes, Rows, SdkTypes, PipeTypes, FlagTypes, PostTypes
<1>13. CASE EndTurn
  <2>1. ChanTypes' /\ ViewTypes'
    BY <1>13, Broadcasts, EntryTypes DEF EndTurn
  <2>2. PICK echo, interrupted \in BOOLEAN :
           inbox' = inbox \o (IF echo THEN <<[t |-> "echo"]>> ELSE <<>>)
                          \o <<[t |-> IF interrupted THEN "interrupted" ELSE "completed"]>>
    BY <1>13 DEF EndTurn
  <2>3. (IF echo THEN <<[t |-> "echo"]>> ELSE <<>>) \in Seq(Item)
    <3>1. [t |-> "echo"] \in Item
      BY DEF Item
    <3>2. <<>> \in Seq(Item) /\ <<[t |-> "echo"]>> \in Seq(Item)
      BY <3>1
    <3> QED
      BY <3>2
  <2>4. <<[t |-> IF interrupted THEN "interrupted" ELSE "completed"]>> \in Seq(Item)
    <3>1. [t |-> IF interrupted THEN "interrupted" ELSE "completed"] \in Item
      BY DEF Item
    <3> QED
      BY <3>1
  <2>5. inbox' \in Seq(Item) /\ inbox' # <<>>
    <3> DEFINE a == IF echo THEN <<[t |-> "echo"]>> ELSE <<>>
               z == <<[t |-> IF interrupted THEN "interrupted" ELSE "completed"]>>
    <3>1. Len(z) = 1
      OBVIOUS
    <3> HIDE DEF a, z
    <3> QED
      BY <2>2, <2>3, <2>4, <3>1, ConcatProperties DEF PipeTypes, a, z
  <2>6. UNCHANGED <<logged, post, sdkq, made, delivered, running, at, base, view, calm, faults>> /\ turn' = NULL
    BY <1>13 DEF EndTurn
  <2> QED
    BY <2>1, <2>5, <2>6 DEF RowTypes, Rows, SdkTypes, PipeTypes, FlagTypes, PostTypes
<1>14. CASE ActorDies
  <2>1. ChanTypes' /\ ViewTypes'
    BY <1>14, Broadcasts, EntryTypes DEF ActorDies
  <2>2. /\ turn' = NULL /\ sdkq' = <<>> /\ running' = FALSE /\ calm' = FALSE
        /\ faults < MaxFaults /\ faults' = faults + 1
        /\ post' = [p \in Post |-> IF post[p].pc = "sent" THEN [post[p] EXCEPT !.pc = "undo"] ELSE post[p]]
        /\ UNCHANGED <<logged, made, delivered, pipe, view>>
    BY <1>14 DEF ActorDies
  <2>3. ASSUME NEW p \in Post
        PROVE  post'[p] \in PostState /\ (post'[p].pc # "new" => post'[p].key \in Post)
    BY <2>2 DEF PostTypes, PostState, PostPc, Writing
  <2>4. PostTypes'
    BY <2>2, <2>3 DEF PostTypes
  <2>5. faults' \in 0..MaxFaults
    BY <2>2, Constants DEF FlagTypes
  <2>6. sdkq' \in Seq(Post)
    BY <2>2
  <2> QED
    BY <2>1, <2>2, <2>4, <2>5, <2>6 DEF RowTypes, Rows, SdkTypes, PipeTypes, FlagTypes
<1>15. ASSUME NEW rows, NEW ms, Handled(rows, ms), inbox # <<>>,
              ms = <<>> \/ \E m \in Notice : ms = <<m>>,
              EndsTurn => TurnEnded(rows) \in Notice,
              UNCHANGED <<bf, post, sdk, view, calm, faults>>, RowTypes'
       PROVE  LogTypes'
  <2>1. ChanTypes' /\ ViewTypes' /\ PipeTypes' /\ FlagTypes'
    BY <1>15, Handling
  <2> QED
    BY <1>15, <2>1 DEF SdkTypes, PostTypes
<1>16. TurnEnded(Rows) \in Notice
  <2>1. CASE Rows = {}
    BY <2>1, EntryTypes DEF TurnEnded
  <2>2. CASE Rows # {}
    <3>1. PICK b \in Nat : Rows \subseteq 0..b
      BY DEF RowTypes
    <3>3. Max(Rows) \in Rows
      BY <2>2, <3>1, GreatestNumber
    <3>4. \A n \in Rows : n \in Nat
      BY <3>1
    <3>2. Max(Rows) \in Nat
      BY <3>3, <3>4
    <3> QED
      BY <2>2, <3>2, EntryTypes DEF TurnEnded
  <2> QED
    BY <2>1, <2>2
<1>17. CASE HandleCompleted
  <2>1. Handled(Rows, <<>>) /\ inbox # <<>> /\ log' = log /\ UNCHANGED <<bf, post, sdk, view, calm, faults>>
    BY <1>17 DEF HandleCompleted, Now
  <2> QED
    BY <1>15, <1>16, <2>1 DEF RowTypes, Rows
<1>18. CASE CheckTail
  <2>1. CASE TailIsInterrupt
    <3>1. Handled(Rows, <<>>) /\ inbox # <<>> /\ log' = log /\ UNCHANGED <<bf, post, sdk, view, calm, faults>>
      BY <1>18, <2>1 DEF CheckTail, Now
    <3> QED
      BY <1>15, <1>16, <3>1 DEF RowTypes, Rows
  <2>2. CASE ~ TailIsInterrupt
    BY <1>18, <2>2 DEF CheckTail, Now, RowTypes, Rows, SdkTypes, PipeTypes, ChanTypes, ViewTypes, FlagTypes,
                       Chan, Short, PostTypes
  <2> QED
    BY <2>1, <2>2
<1>19. CASE SelectNext
  <2>1. NextSeq \in Nat
    BY NextIsNew
  <2>2. inbox # <<>>
    BY <1>19 DEF SelectNext, Now, PipeTypes
  <2> QED
    BY <1>19, <2>1, <2>2 DEF SelectNext, RowTypes, Rows, SdkTypes, PipeTypes, ChanTypes, ViewTypes, FlagTypes,
                       Chan, Short, PostTypes
<1>20. CASE Insert
  <2>1. inbox # <<>> /\ base \in Nat
    BY <1>20 DEF Insert, PipeTypes
  <2>2. CASE base \in Rows
    BY <1>20, <2>1, <2>2 DEF Insert, RowTypes, Rows, SdkTypes, PipeTypes, ChanTypes, ViewTypes, FlagTypes,
                       Chan, Short, PostTypes
  <2>3. CASE base \notin Rows
    <3>1. /\ log' = With(base, Entry) /\ Handled(Rows \cup {base}, <<Shown(base, Entry)>>)
          /\ UNCHANGED <<bf, post, sdk, view, calm, faults>>
      BY <1>20, <2>3 DEF Insert
    <3>2. Entry \in EntrySet /\ Shown(base, Entry) \in Notice
      BY <2>1, HeadTypes, EntryTypes
    <3>3. RowTypes'
      BY <2>1, <3>1, <3>2, Adding
    <3>4. TurnEnded(Rows \cup {base}) \in Notice
      <4>1. PICK b \in Nat : Rows \subseteq 0..b
        BY DEF RowTypes
      <4>2. b + base \in Nat /\ Rows \cup {base} \in SUBSET (0..b + base)
        BY <2>1, <4>1
      <4>5. Max(Rows \cup {base}) \in Rows \cup {base}
        BY <4>2, GreatestNumber
      <4>3. Max(Rows \cup {base}) \in Nat
        <5>1. PICK g : g = Max(Rows \cup {base})
          OBVIOUS
        <5>3. Rows \cup {base} \subseteq Nat
          BY <2>1, <4>1
        <5>2. g \in Nat
          <6> HIDE DEF Rows
          <6> QED
            BY <4>5, <5>1, <5>3
        <5> QED
          BY <5>1, <5>2
      <4> QED
        BY <4>3, EntryTypes DEF TurnEnded
    <3> QED
      BY <1>15, <2>1, <3>1, <3>2, <3>3, <3>4
  <2> QED
    BY <2>2, <2>3
<1>21. ASSUME NEW v \in Viewer, Open(v)
       PROVE  LogTypes'
  <2>7. view[v].pc = "off" /\ view \in [Viewer -> ViewState] /\ view[v] \in ViewState
    BY <1>21 DEF Open, ViewTypes
  <2>8. PICK pc \in {"list", "cold"} : /\ view' = [view EXCEPT ![v].pc = pc] /\ queue' = queue
                                       /\ subs' = subs \/ (subs' = subs \cup {v} /\ pc = "list")
    BY <1>21 DEF Open
  <2> DEFINE r == [view[v] EXCEPT !.pc = pc]
  <2>9. view' = [view EXCEPT ![v] = r] /\ r \in ViewState /\ r.pc = pc
    BY <2>7, <2>8 DEF ViewState
  <2> HIDE DEF r
  <2>1. queue' = queue /\ (subs' = subs \/ (subs' = subs \cup {v} /\ view'[v].pc = "list"))
    BY <2>7, <2>8, <2>9
  <2>2. view' \in [Viewer -> ViewState] /\ view[v].pc = "off" /\ \A u \in Viewer : u # v => view'[u] = view[u]
    BY <2>7, <2>9
  <2>3. v \notin subs
    BY <2>2 DEF ViewTypes
  <2>4. subs \subseteq Viewer
    BY DEF ChanTypes, Chan, Channels
  <2>5. ChanTypes' /\ ViewTypes'
    BY <2>1, <2>2, <2>3, <2>4 DEF ChanTypes, ViewTypes, Chan, Channels, Short
  <2>6. UNCHANGED <<logged, post, sdk, running, pipe, calm, faults>>
    BY <1>21 DEF Open
  <2> QED
    BY <2>5, <2>6 DEF RowTypes, Rows, SdkTypes, PipeTypes, FlagTypes, PostTypes
<1>22. ASSUME NEW v \in Viewer, NEW r \in ViewState, view' = [view EXCEPT ![v] = r],
              \/ UNCHANGED channel /\ (v \in subs => r.pc \in {"list", "live"})
              \/ subs' = subs /\ queue' = [queue EXCEPT ![v] = Tail(@)] /\ queue[v] # <<>> /\ r.pc = "live"
              \/ Leave(v)
       PROVE  ChanTypes' /\ ViewTypes'
  <2>1. subs \subseteq Viewer /\ queue \in [Viewer -> Seq(Notice)] /\ \A u \in Viewer : Len(queue[u]) <= QueueMax
    BY DEF ChanTypes, Chan, Channels, Short
  <2>2. queue[v] # <<>> => Tail(queue[v]) \in Seq(Notice) /\ Len(Tail(queue[v])) = Len(queue[v]) - 1
    BY <2>1, HeadTailProperties
  <2>3. QueueMax \in Nat /\ Len(queue[v]) \in Nat
    BY <2>1, TimelineAssumption
  <2>4. <<>> \in Seq(Notice) /\ Len(<<>>) = 0
    OBVIOUS
  <2>10. queue' = queue \/ queue' = [queue EXCEPT ![v] = <<>>]
         \/ (queue' = [queue EXCEPT ![v] = Tail(queue[v])] /\ queue[v] # <<>>)
    BY <1>22 DEF Leave
  <2>11. \A u \in Viewer : u # v => queue'[u] = queue[u]
    BY <2>1, <2>10
  <2>12. queue'[v] \in Seq(Notice) /\ Len(queue'[v]) <= QueueMax
    <3>1. CASE queue' = queue
      BY <2>1, <3>1
    <3>2. CASE queue' = [queue EXCEPT ![v] = <<>>]
      BY <2>1, <2>3, <2>4, <3>2
    <3>3. CASE queue' = [queue EXCEPT ![v] = Tail(queue[v])] /\ queue[v] # <<>>
      <4>1. queue'[v] = Tail(queue[v])
        BY <2>1, <3>3
      <4>2. Len(queue[v]) <= QueueMax
        BY <2>1
      <4> QED
        BY <2>2, <2>3, <3>3, <4>1, <4>2
    <3> QED
      BY <2>10, <3>1, <3>2, <3>3
  <2>5. \A u \in Viewer : queue'[u] \in Seq(Notice) /\ Len(queue'[u]) <= QueueMax
    BY <2>1, <2>11, <2>12
  <2>6. subs' \subseteq Viewer /\ queue' = [u \in Viewer |-> queue'[u]]
    BY <1>22, <2>1 DEF Leave
  <2>7. queue' \in [Viewer -> Seq(Notice)]
    BY <2>5, <2>6
  <2>8. ChanTypes'
    BY <2>5, <2>6, <2>7 DEF ChanTypes, Chan, Channels, Short
  <2>9. ViewTypes'
    BY <1>22 DEF ViewTypes, Leave
  <2> QED
    BY <2>8, <2>9
<1>23. \A v \in Viewer : view[v] \in ViewState /\ Ended(view[v]) \in ViewState
  BY DEF ViewTypes, ViewState, Ended
<1>24. ASSUME NEW v \in Viewer, List(v)
       PROVE  LogTypes'
  <2>1. ShowAll(v) \in ViewState
    BY <1>23, ShowingAll
  <2>2. [ShowAll(v) EXCEPT !.pc = "live"] \in ViewState /\ Ended(ShowAll(v)) \in ViewState
        /\ [ShowAll(v) EXCEPT !.pc = "live"].pc = "live"
    BY <2>1 DEF ViewState, Ended
  <2>3. bf' \in [Proc -> BfState] /\ UNCHANGED <<log, post, sdk, running, pipe, calm, faults>>
    BY <1>24 DEF List, BfState
  <2>4. ChanTypes' /\ ViewTypes'
    BY <1>22, <1>24, <2>2 DEF List
  <2> QED
    BY <2>3, <2>4 DEF RowTypes, Rows, SdkTypes, PipeTypes, FlagTypes, PostTypes
<1>25. ASSUME NEW v \in Viewer, TakeEntry(v)
       PROVE  LogTypes'
  <2>1. UNCHANGED <<logged, post, sdk, running, pipe, subs, calm, faults>> /\ queue' = [queue EXCEPT ![v] = Tail(@)]
        /\ view[v].pc = "live" /\ queue[v] # <<>> /\ Head(queue[v]).t = "entry"
    BY <1>25 DEF TakeEntry
  <2>2. PICK m : m = Head(queue[v])
    OBVIOUS
  <2>3. m \in Notice /\ m.t = "entry"
    BY <2>1, <2>2 DEF ChanTypes, Chan, Channels
  <2>4. [seq |-> m.seq, entry |-> m.entry] \in Line /\ m.seq \in Nat
    BY <2>3 DEF Notice, Line
  <2> DEFINE r == [view[v] EXCEPT !.seen = Append(view[v].seen, [seq |-> m.seq, entry |-> m.entry]), !.last = m.seq]
  <2>5. r \in ViewState /\ r.pc = "live"
    BY <1>23, <2>1, <2>4, AppendProperties DEF ViewState
  <2>6. view' = [view EXCEPT ![v] = r] \/ view' = [view EXCEPT ![v] = view[v]]
    BY <1>25, <2>2 DEF TakeEntry, ViewTypes
  <2> HIDE DEF r
  <2>7. ChanTypes' /\ ViewTypes'
    BY <1>22, <1>23, <2>1, <2>5, <2>6
  <2> QED
    BY <2>1, <2>7 DEF RowTypes, Rows, SdkTypes, PipeTypes, FlagTypes, PostTypes
<1>26. ASSUME NEW v \in Viewer, TakeOther(v)
       PROVE  LogTypes'
  <2>1. UNCHANGED <<logged, post, sdk, running, pipe, calm, faults>> /\ view[v].pc = "live" /\ queue[v] # <<>>
    BY <1>26 DEF TakeOther
  <2>2. /\ [view[v] EXCEPT !.pending = TRUE] \in ViewState
        /\ [view[v] EXCEPT !.pending = TRUE].pc = view[v].pc
    BY <1>23 DEF ViewState
  <2>3. \/ /\ subs' = subs /\ queue' = [queue EXCEPT ![v] = Tail(@)]
           /\ \/ view' = [view EXCEPT ![v] = [view[v] EXCEPT !.pending = TRUE]]
              \/ view' = [view EXCEPT ![v] = view[v]]
        \/ view' = [view EXCEPT ![v] = Ended(view[v])] /\ Leave(v)
    BY <1>26 DEF TakeOther, ViewTypes
  <2>4. ChanTypes' /\ ViewTypes'
    BY <1>22, <1>23, <2>1, <2>2, <2>3
  <2> QED
    BY <2>1, <2>4 DEF RowTypes, Rows, SdkTypes, PipeTypes, FlagTypes, PostTypes
<1>27. ASSUME NEW v \in Viewer, Beat(v)
       PROVE  LogTypes'
  <2>1. UNCHANGED <<logged, post, sdk, running, pipe, calm, faults>> /\ view[v].pc = "live"
    BY <1>27 DEF Beat
  <2>2. [view[v] EXCEPT !.beats = 1] \in ViewState /\ [view[v] EXCEPT !.beats = 1].pc = view[v].pc
    BY <1>23 DEF ViewState
  <2>3. \/ view' = [view EXCEPT ![v] = Ended(view[v])] /\ Leave(v)
        \/ view' = [view EXCEPT ![v] = [view[v] EXCEPT !.beats = 1]] /\ UNCHANGED channel
    BY <1>27 DEF Beat, ViewTypes
  <2>4. ChanTypes' /\ ViewTypes'
    BY <1>22, <1>23, <2>1, <2>2, <2>3
  <2> QED
    BY <2>1, <2>4 DEF RowTypes, Rows, SdkTypes, PipeTypes, FlagTypes, PostTypes
<1> QED
  BY <1>1, <1>2, <1>3, <1>4, <1>5, <1>6, <1>7, <1>8, <1>9, <1>10, <1>11, <1>12, <1>13, <1>14, <1>17, <1>18,
     <1>19, <1>20, <1>21, <1>24, <1>25, <1>26, <1>27
     DEF Next, PostStep, EnsureStep, InboxStep, ViewerStep

-----------------------------------------------------------------------------
(* Prompts and user rows *)

\* A post that moves between states in which its prompt is not queued.
LEMMA MovingPrompts ==
    ASSUME Prompts, PostTypes, SdkTypes, NEW p \in Post, NEW r, post' = [post EXCEPT ![p] = r],
           post[p].pc \notin {"sent", "accepted"}, UNCHANGED <<sdkq, turn, delivered>>
    PROVE  Prompts'
<1>1. \A q \in Post : q # p => post'[q] = post[q]
  BY DEF PostTypes
<1>2. \A i \in DOMAIN sdkq : sdkq[i] \in Post /\ sdkq[i] # p
  BY DEF Prompts, SdkTypes
<1>3. delivered \subseteq Post /\ p \notin delivered
  BY DEF Prompts, SdkTypes
<1> QED
  BY <1>1, <1>2, <1>3 DEF Prompts

\* Every step keeps Prompts.
LEMMA PromptsStep ==
    ASSUME LogTypes, Prompts, [Next]_vars
    PROVE  Prompts'
<1>0. PostTypes /\ SdkTypes /\ NULL \notin Post
  BY Constants DEF LogTypes
<1>1. CASE UNCHANGED <<post, sdkq, turn, delivered>>
  BY <1>1 DEF Prompts
<1>2. ASSUME NEW p \in Post, NEW k \in Post, Arrive(p, k)
      PROVE  Prompts'
  <2>1. post' = [post EXCEPT ![p] = [@ EXCEPT !.pc = "ensure", !.key = k]] /\ post[p].pc = "new"
    BY <1>0, <1>2 DEF Arrive, PostTypes
  <2>2. UNCHANGED <<sdkq, turn, delivered>>
    BY <1>2 DEF Arrive, sdk
  <2> QED
    BY <1>0, <2>1, <2>2, MovingPrompts
<1>3. ASSUME NEW p \in Post, Precheck(p) \/ SelectNextForUser(p) \/ InsertUser(p) \/ Undo(p)
      PROVE  Prompts'
  <2>1. /\ post[p].pc \notin {"sent", "accepted"} /\ UNCHANGED <<sdkq, turn, delivered>>
        /\ \E r : post' = [post EXCEPT ![p] = r]
    <3>1. CASE Precheck(p)
      <4>1. \E pc : Goto(p, pc)
        BY <3>1 DEF Precheck
      <4> QED
        BY <1>0, <3>1, <4>1 DEF Precheck, Goto, sdk, PostTypes
    <3>2. CASE SelectNextForUser(p)
      BY <1>0, <3>2 DEF SelectNextForUser, sdk, PostTypes
    <3>3. CASE InsertUser(p)
      <4>1. \/ \E pc : Leaves(p, pc)
            \/ post' = [post EXCEPT ![p].pc = "mark", ![p].base = 0, ![p].seq = post[p].base]
        BY <3>3 DEF InsertUser
      <4> QED
        BY <1>0, <3>3, <4>1 DEF InsertUser, Leaves, sdk, PostTypes
    <3>4. CASE Undo(p)
      BY <1>0, <3>4 DEF Undo, Leaves, sdk, PostTypes
    <3> QED
      BY <1>3, <3>1, <3>2, <3>3, <3>4
  <2> QED
    BY <1>0, <2>1, MovingPrompts
<1>4. ASSUME NEW p \in Post, Mark(p)
      PROVE  Prompts'
  <2>1. /\ post' = [post EXCEPT ![p] = [@ EXCEPT !.pc = "sent"]] /\ post[p].pc = "mark"
        /\ sdkq' = Append(sdkq, p) /\ UNCHANGED <<turn, delivered>>
    BY <1>0, <1>4 DEF Mark, Goto, PostTypes
  <2>2. post'[p].pc = "sent" /\ \A q \in Post : q # p => post'[q] = post[q]
    BY <1>0, <2>1 DEF PostTypes, PostState
  <2>3. \A i \in DOMAIN sdkq : sdkq[i] \in Post /\ sdkq[i] # p
    BY <1>0, <2>1 DEF Prompts, SdkTypes
  <2>4. /\ DOMAIN sdkq = 1..Len(sdkq) /\ Len(sdkq) \in Nat /\ DOMAIN sdkq' = 1..Len(sdkq) + 1
        /\ sdkq'[Len(sdkq) + 1] = p /\ \A i \in 1..Len(sdkq) : sdkq'[i] = sdkq[i]
    BY <1>0, <2>1, AppendProperties DEF SdkTypes
  <2>5. delivered \subseteq Post /\ p \notin delivered
    BY <1>0, <2>1 DEF Prompts, SdkTypes
  <2>6. \A i \in DOMAIN sdkq' : post'[sdkq'[i]].pc = "sent"
    BY <2>2, <2>3, <2>4 DEF Prompts
  <2>7. \A i, j \in DOMAIN sdkq' : sdkq'[i] = sdkq'[j] => i = j
    <3>1. \A i \in DOMAIN sdkq' : i = Len(sdkq) + 1 \/ i \in DOMAIN sdkq
      BY <2>4
    <3> QED
      BY <2>3, <2>4, <3>1 DEF Prompts
  <2> QED
    BY <2>1, <2>2, <2>5, <2>6, <2>7 DEF Prompts
<1>5. CASE Accept
  <2>1. PICK p : p = Head(sdkq)
    OBVIOUS
  <2>2. /\ turn' = p /\ delivered' = delivered \cup {p} /\ sdkq' = Tail(sdkq) /\ sdkq # <<>> /\ Leaves(p, "accepted")
    BY <1>5, <2>1 DEF Accept
  <2>3. p \in Post /\ p = sdkq[1] /\ 1 \in DOMAIN sdkq
    BY <1>0, <2>1, <2>2 DEF SdkTypes
  <2>4. post' = [post EXCEPT ![p] = [@ EXCEPT !.pc = "accepted", !.base = 0, !.seq = 0]]
    BY <1>0, <2>2, <2>3 DEF Leaves, PostTypes
  <2>5. post'[p].pc = "accepted" /\ \A q \in Post : q # p => post'[q] = post[q]
    BY <1>0, <2>3, <2>4 DEF PostTypes, PostState
  <2>6. DOMAIN sdkq' = 1..Len(sdkq) - 1 /\ DOMAIN sdkq = 1..Len(sdkq) /\ Len(sdkq) \in Nat
        /\ \A i \in 1..Len(sdkq) - 1 : sdkq'[i] = sdkq[i + 1]
    BY <1>0, <2>2, HeadTailProperties DEF SdkTypes
  <2>7. \A i \in DOMAIN sdkq' : i + 1 \in DOMAIN sdkq /\ i + 1 # 1 /\ sdkq'[i] = sdkq[i + 1]
    BY <2>6
  <2>8. \A i \in DOMAIN sdkq' : sdkq'[i] # p /\ sdkq'[i] \in Post
    BY <1>0, <2>3, <2>7 DEF Prompts, SdkTypes
  <2>9. \A i, j \in DOMAIN sdkq' : sdkq'[i] = sdkq'[j] => i = j
    <3>1. \A i, j \in DOMAIN sdkq' : i + 1 = j + 1 => i = j
      BY <2>6
    <3> QED
      BY <2>7, <3>1 DEF Prompts
  <2>10. \A i \in DOMAIN sdkq' : post'[sdkq'[i]].pc = "sent"
    BY <2>5, <2>7, <2>8 DEF Prompts
  <2>11. \A q \in delivered' : post'[q].pc = "accepted"
    BY <1>0, <2>2, <2>5 DEF Prompts, SdkTypes
  <2> QED
    BY <2>2, <2>9, <2>10, <2>11 DEF Prompts
<1>6. CASE EndTurn
  BY <1>6 DEF EndTurn, Prompts
<1>7. CASE ActorDies
  <2>1. turn' = NULL /\ sdkq' = <<>> /\ delivered' = delivered
        /\ post' = [p \in Post |-> IF post[p].pc = "sent" THEN [post[p] EXCEPT !.pc = "undo"] ELSE post[p]]
    BY <1>7 DEF ActorDies
  <2>2. \A p \in delivered' : post'[p].pc = "accepted"
    BY <1>0, <2>1 DEF Prompts, SdkTypes
  <2> QED
    BY <2>1, <2>2 DEF Prompts
<1>8. CASE \/ UNCHANGED vars
           \/ \E x \in Proc : EnsureStep(x)
           \/ Message \/ Delta \/ InboxStep
           \/ \E v \in Viewer : Open(v) \/ ViewerStep(v)
  <2>1. UNCHANGED <<post, sdkq, turn, delivered>>
    BY <1>8 DEF vars, EnsureStep, HasEntries, LockBackfill, Backfill, Message, Delta, InboxStep, HandleCompleted,
                CheckTail, SelectNext, Insert, Open, ViewerStep, List, TakeEntry, TakeOther, Beat, sdk
  <2> QED
    BY <1>1, <2>1
<1> QED
  BY <1>2, <1>3, <1>4, <1>5, <1>6, <1>7, <1>8 DEF Next, PostStep

-----------------------------------------------------------------------------

\* A row of a user is the row of a post between its insert and its acceptance or
\* deletion, or of one that the SDK has taken; no two rows have one client key.
Written == {"mark", "sent", "undo"}
RowOf(p, n) == n \in Rows /\ log[n] = User(p)
RowsHavePosts ==
    \A n \in Rows : log[n].kind = "user" =>
        LET p == log[n].id IN
        /\ log[n].key = post[p].key
        /\ (post[p].pc \in Written /\ post[p].seq = n) \/ p \in delivered
PostsHaveRows == \A p \in Post : post[p].pc \in Written => RowOf(p, post[p].seq)
DeliveredHaveRows == \A p \in delivered : \E n \in Rows : RowOf(p, n)
OneRowAKey ==
    \A n, m \in Rows : log[n].kind = "user" /\ log[m].kind = "user" /\ log[n].key = log[m].key => n = m
UserRows == RowsHavePosts /\ PostsHaveRows /\ DeliveredHaveRows /\ OneRowAKey

\* A user entry names a post and its key.
LEMMA UserFields ==
    ASSUME RowTypes, NEW n \in Rows, log[n].kind = "user"
    PROVE  log[n].id \in Post /\ log[n].key \in Post
<1>1. log[n] \in EntrySet
  BY DEF RowTypes
<1> QED
  BY <1>1 DEF EntrySet, Interrupt

\* A post without a row moves on without one.
LEMMA RowlessMove ==
    ASSUME UserRows, RowTypes, PostTypes, SdkTypes, NEW p \in Post, NEW r, post' = [post EXCEPT ![p] = r],
           post[p].pc \notin Written, r.pc \notin Written, p \notin delivered, log' = log, delivered' = delivered
    PROVE  UserRows'
<1>1. post'[p] = r /\ \A q \in Post : q # p => post'[q] = post[q]
  BY DEF PostTypes
<1>2. \A n \in Rows : log[n].kind = "user" => log[n].id \in Post /\ log[n].id # p
  BY UserFields DEF UserRows, RowsHavePosts
<1>3. \A q \in Post : \A n : q # p /\ RowOf(q, n) => RowOf(q, n)'
  BY <1>1 DEF RowOf, Rows, User
<1>4. delivered \subseteq Post
  BY DEF SdkTypes
<1>5. Rows' = Rows
  BY DEF Rows
<1> QED
  BY <1>1, <1>2, <1>3, <1>4, <1>5 DEF UserRows, RowsHavePosts, PostsHaveRows, DeliveredHaveRows, OneRowAKey

\* A post with a row, or posts, move on without touching it.
LEMMA RowedMove ==
    ASSUME UserRows, RowTypes, SdkTypes, log' = log, delivered' = delivered,
           \A q \in Post : /\ post'[q].pc \in Written <=> post[q].pc \in Written
                           /\ post'[q].key = post[q].key /\ post'[q].seq = post[q].seq
    PROVE  UserRows'
<1>1. \A n \in Rows : log[n].kind = "user" => log[n].id \in Post
  BY UserFields
<1>2. \A q \in Post : \A n : RowOf(q, n) => RowOf(q, n)'
  BY DEF RowOf, Rows, User
<1>3. delivered \subseteq Post /\ Rows' = Rows
  BY DEF SdkTypes, Rows
<1> QED
  BY <1>1, <1>2, <1>3 DEF UserRows, RowsHavePosts, PostsHaveRows, DeliveredHaveRows, OneRowAKey

\* Other rows come in.
LEMMA OtherRows ==
    ASSUME UserRows, Rows \subseteq Rows', \A n \in Rows : log'[n] = log[n],
           \A n \in Rows' \ Rows : log'[n].kind # "user", UNCHANGED <<post, delivered>>
    PROVE  UserRows'
<1>1. \A q, n : RowOf(q, n) => RowOf(q, n)'
  BY DEF RowOf, User
<1>2. \A n \in Rows' : log'[n].kind = "user" => n \in Rows /\ log'[n] = log[n]
  OBVIOUS
<1> HIDE DEF Rows
<1>3. RowsHavePosts'
  BY <1>2 DEF UserRows, RowsHavePosts
<1>4. PostsHaveRows'
  BY <1>1 DEF UserRows, PostsHaveRows
<1>5. DeliveredHaveRows'
  BY <1>1 DEF UserRows, DeliveredHaveRows
<1>6. OneRowAKey'
  BY <1>2 DEF UserRows, OneRowAKey
<1> QED
  BY <1>3, <1>4, <1>5, <1>6 DEF UserRows

\* Every step keeps UserRows: the insert of a key that has a row, or at a number that
\* is taken, fails, and only the post that wrote a row deletes it.
LEMMA UserRowsStep ==
    ASSUME LogTypes, Prompts, UserRows, [Next]_vars
    PROVE  UserRows'
<1>0. RowTypes /\ PostTypes /\ SdkTypes /\ PipeTypes
  BY DEF LogTypes
<1>1. CASE UNCHANGED <<log, post, delivered>>
  BY <1>0, <1>1, RowedMove
<1>2. ASSUME NEW p \in Post, post[p].pc \in {"new", "ensure", "select", "insert"}
      PROVE  post[p].pc \notin Written /\ p \notin delivered
  BY <1>2 DEF Prompts, Written
<1>3. ASSUME NEW p \in Post, NEW k \in Post, Arrive(p, k)
      PROVE  UserRows'
  <2> DEFINE r == [post[p] EXCEPT !.pc = "ensure", !.key = k]
  <2>1. post' = [post EXCEPT ![p] = r] /\ post[p].pc = "new" /\ log' = log /\ delivered' = delivered
    BY <1>0, <1>3 DEF Arrive, PostTypes, logged, sdk
  <2>2. r.pc \notin Written
    BY <1>0 DEF PostTypes, PostState, Written
  <2> HIDE DEF r
  <2> QED
    BY <1>0, <1>2, <2>1, <2>2, RowlessMove
<1>4. ASSUME NEW p \in Post, NEW pc, post[p].pc \in {"ensure", "select", "insert"}, pc \notin Written,
             Goto(p, pc) \/ Leaves(p, pc), log' = log, delivered' = delivered
      PROVE  UserRows'
  <2>1. PICK r : post' = [post EXCEPT ![p] = r] /\ r.pc = pc
    BY <1>0, <1>4 DEF Goto, Leaves, PostTypes, PostState
  <2> QED
    BY <1>0, <1>2, <1>4, <2>1, RowlessMove
<1>5. ASSUME NEW p \in Post, Precheck(p)
      PROVE  UserRows'
  <2>1. /\ log' = log /\ delivered' = delivered /\ post[p].pc = "ensure"
        /\ \E pc \in {"accepted", "refused", "select"} : Goto(p, pc)
    BY <1>5 DEF Precheck, sdk
  <2> QED
    BY <1>4, <2>1 DEF Written
<1>6. ASSUME NEW p \in Post, SelectNextForUser(p)
      PROVE  UserRows'
  <2>1. log' = log /\ delivered' = delivered /\ post[p].pc = "select"
    BY <1>6 DEF SelectNextForUser, logged, sdk
  <2>2. CASE Goto(p, "accepted")
    BY <1>4, <2>1, <2>2 DEF Written
  <2>3. CASE post' = [post EXCEPT ![p].pc = "insert", ![p].base = NextSeq]
    <3> DEFINE r == [post[p] EXCEPT !.pc = "insert", !.base = NextSeq]
    <3>1. post' = [post EXCEPT ![p] = r]
      BY <1>0, <2>3 DEF PostTypes
    <3>2. r.pc \notin Written
      BY <1>0 DEF PostTypes, PostState, Written
    <3> HIDE DEF r
    <3> QED
      BY <1>0, <1>2, <2>1, <3>1, <3>2, RowlessMove
  <2> QED
    BY <1>6, <2>2, <2>3 DEF SelectNextForUser, Goto
<1>7. ASSUME NEW p \in Post, InsertUser(p)
      PROVE  UserRows'
  <2>1. delivered' = delivered /\ post[p].pc = "insert"
    BY <1>7 DEF InsertUser, sdk
  <2>2. CASE \E pc \in {"accepted", "select"} : Leaves(p, pc) /\ log' = log
    BY <1>4, <2>1, <2>2 DEF Written
  <2>3. CASE /\ ~ KeyLogged(post[p].key) /\ post[p].base \notin Rows
             /\ log' = With(post[p].base, User(p))
             /\ post' = [post EXCEPT ![p].pc = "mark", ![p].base = 0, ![p].seq = post[p].base]
    <3> DEFINE r == [post[p] EXCEPT !.pc = "mark", !.base = 0, !.seq = post[p].base]
    <3>1. post' = [post EXCEPT ![p] = r]
      BY <1>0, <2>3 DEF PostTypes
    <3>2. r.pc = "mark" /\ r.seq = post[p].base /\ r.key = post[p].key
      BY <1>0 DEF PostTypes, PostState
    <3> HIDE DEF r
    <3>3. post'[p] = r /\ \A q \in Post : q # p => post'[q] = post[q]
      BY <1>0, <3>1 DEF PostTypes
    <3>4. post[p].base \in Nat /\ User(p) \in EntrySet
      BY <1>0, <2>1, UserTypes DEF PostTypes, PostState
    <3>5. PICK n \in Nat : n = post[p].base
      BY <3>4
    <3>6. /\ Rows' = Rows \cup {n} /\ n \notin Rows
          /\ log'[n] = User(p) /\ \A m \in Rows : log'[m] = log[m]
      BY <1>0, <2>3, <3>4, <3>5, Adding
    <3>7. User(p).kind = "user" /\ User(p).id = p /\ User(p).key = post[p].key /\ User(p)' = User(p)
      BY <3>2, <3>3 DEF User
    <3>8. p \notin delivered /\ post[p].pc \notin Written /\ delivered \subseteq Post
      BY <1>0, <1>2, <2>1 DEF SdkTypes
    <3>9. \A m \in Rows : log[m].kind = "user" => log[m].id \in Post /\ log[m].id # p /\ log[m].key # post[p].key
      BY <1>0, <2>3, <3>8, UserFields DEF UserRows, RowsHavePosts, KeyLogged
    <3>10. \A q \in Post : q # p => \A m : RowOf(q, m) => RowOf(q, m)'
      BY <3>3, <3>6 DEF RowOf, User
    <3>11. RowOf(p, n)'
      BY <3>6, <3>7 DEF RowOf
    <3>12. \A m \in Rows' : m \in Rows \/ m = n
      BY <3>6
    <3> HIDE DEF Rows
    <3>13. RowsHavePosts'
      <4>1. ASSUME NEW m \in Rows', log'[m].kind = "user"
            PROVE  LET q == log'[m].id IN
                   /\ log'[m].key = post'[q].key
                   /\ (post'[q].pc \in Written /\ post'[q].seq = m) \/ q \in delivered'
        <5>1. CASE m = n
          BY <3>2, <3>3, <3>5, <3>6, <3>7, <5>1 DEF Written
        <5>2. CASE m \in Rows
          BY <2>1, <3>3, <3>6, <3>9, <4>1, <5>2 DEF UserRows, RowsHavePosts
        <5> QED
          BY <3>12, <5>1, <5>2
      <4> QED
        BY <4>1 DEF RowsHavePosts
    <3>14. PostsHaveRows'
      BY <3>2, <3>3, <3>5, <3>10, <3>11 DEF UserRows, PostsHaveRows
    <3>15. DeliveredHaveRows'
      BY <2>1, <3>6, <3>8, <3>10 DEF UserRows, DeliveredHaveRows
    <3>16. OneRowAKey'
      BY <3>6, <3>7, <3>9, <3>12 DEF UserRows, OneRowAKey
    <3> QED
      BY <3>13, <3>14, <3>15, <3>16 DEF UserRows
  <2> QED
    BY <1>7, <2>2, <2>3 DEF InsertUser
<1>8. ASSUME NEW p \in Post, Mark(p)
      PROVE  UserRows'
  <2> DEFINE r == [post[p] EXCEPT !.pc = "sent"]
  <2>1. post' = [post EXCEPT ![p] = r] /\ post[p].pc = "mark" /\ log' = log /\ delivered' = delivered
    BY <1>0, <1>8 DEF Mark, Goto, PostTypes, logged
  <2>2. r.pc = "sent" /\ r.key = post[p].key /\ r.seq = post[p].seq
    BY <1>0 DEF PostTypes, PostState
  <2> HIDE DEF r
  <2>3. \A q \in Post : /\ post'[q].pc \in Written <=> post[q].pc \in Written
                        /\ post'[q].key = post[q].key /\ post'[q].seq = post[q].seq
    BY <1>0, <2>1, <2>2 DEF PostTypes, Written
  <2> QED
    BY <1>0, <2>1, <2>3, RowedMove
<1>9. ASSUME NEW p \in Post, Undo(p)
      PROVE  UserRows'
  <2> DEFINE r == [post[p] EXCEPT !.pc = "failed", !.base = 0, !.seq = 0]
  <2>1. post' = [post EXCEPT ![p] = r] /\ post[p].pc = "undo" /\ delivered' = delivered
    BY <1>0, <1>9 DEF Undo, Leaves, PostTypes, sdk
  <2>2. r.pc \notin Written
    BY <1>0 DEF PostTypes, PostState, Written
  <2> HIDE DEF r
  <2>3. post'[p] = r /\ \A q \in Post : q # p => post'[q] = post[q]
    BY <1>0, <2>1 DEF PostTypes
  <2>4. PICK n : n = post[p].seq
    OBVIOUS
  <2>5. RowOf(p, n)
    BY <2>1, <2>4 DEF UserRows, PostsHaveRows, Written
  <2>6. Rows' = Rows \ {n} /\ \A m \in Rows' : log'[m] = log[m]
    BY <1>0, <1>9, <2>4, Deleting DEF Undo
  <2>7. p \notin delivered /\ delivered \subseteq Post
    BY <1>0, <2>1 DEF Prompts, SdkTypes
  <2>8. \A m \in Rows' : log[m].kind = "user" => log[m].id \in Post /\ log[m].id # p
    <3> SUFFICES ASSUME NEW m \in Rows', log[m].kind = "user"
                 PROVE  log[m].id \in Post /\ log[m].id # p
      OBVIOUS
    <3>1. m \in Rows /\ m # n
      BY <2>6
    <3> QED
      BY <1>0, <2>4, <2>7, <3>1, UserFields DEF UserRows, RowsHavePosts
  <2>9. \A q \in Post : q # p => \A m : RowOf(q, m) => RowOf(q, m)'
    <3> SUFFICES ASSUME NEW q \in Post, q # p, NEW m, RowOf(q, m)
                 PROVE  RowOf(q, m)'
      OBVIOUS
    <3>1. User(q) # User(p) /\ User(q)' = User(q)
      BY <2>3 DEF User
    <3>2. m # n /\ m \in Rows'
      BY <2>5, <2>6, <3>1 DEF RowOf
    <3> QED
      BY <2>6, <3>1, <3>2 DEF RowOf
  <2>10. Rows' \subseteq Rows
    BY <2>6
  <2> HIDE DEF Rows
  <2>11. RowsHavePosts'
    <3> SUFFICES ASSUME NEW m \in Rows', log'[m].kind = "user"
                 PROVE  LET q == log'[m].id IN
                        /\ log'[m].key = post'[q].key
                        /\ (post'[q].pc \in Written /\ post'[q].seq = m) \/ q \in delivered'
      BY DEF RowsHavePosts
    <3> QED
      BY <2>1, <2>3, <2>6, <2>8, <2>10 DEF UserRows, RowsHavePosts
  <2>12. PostsHaveRows'
    BY <2>2, <2>3, <2>9 DEF UserRows, PostsHaveRows
  <2>13. DeliveredHaveRows'
    <3> SUFFICES ASSUME NEW q \in delivered
                 PROVE  \E m \in Rows' : RowOf(q, m)'
      BY <2>1 DEF DeliveredHaveRows
    <3>1. PICK m \in Rows : RowOf(q, m)
      BY DEF UserRows, DeliveredHaveRows
    <3>2. RowOf(q, m)'
      BY <2>7, <2>9, <3>1
    <3> QED
      BY <3>2 DEF RowOf
  <2>14. OneRowAKey'
    BY <2>6, <2>10 DEF UserRows, OneRowAKey
  <2> QED
    BY <2>11, <2>12, <2>13, <2>14 DEF UserRows
<1>10. CASE Accept
  <2>1. PICK p : p = Head(sdkq)
    OBVIOUS
  <2>2. delivered' = delivered \cup {p} /\ sdkq # <<>> /\ Leaves(p, "accepted") /\ log' = log
    BY <1>10, <2>1 DEF Accept, logged
  <2>3. p \in Post /\ post[p].pc = "sent"
    BY <1>0, <2>1, <2>2 DEF SdkTypes, Prompts
  <2> DEFINE r == [post[p] EXCEPT !.pc = "accepted", !.base = 0, !.seq = 0]
  <2>4. post' = [post EXCEPT ![p] = r]
    BY <1>0, <2>2, <2>3 DEF Leaves, PostTypes
  <2>5. r.pc \notin Written /\ r.key = post[p].key
    BY <1>0, <2>3 DEF PostTypes, PostState, Written
  <2> HIDE DEF r
  <2>6. post'[p] = r /\ \A q \in Post : q # p => post'[q] = post[q]
    BY <1>0, <2>3, <2>4 DEF PostTypes
  <2>7. \A n \in Rows : log[n].kind = "user" => log[n].id \in Post
    BY <1>0, UserFields
  <2>8. \A q \in Post : \A n : RowOf(q, n) => RowOf(q, n)'
    BY <2>2, <2>5, <2>6 DEF RowOf, User, Rows
  <2>9. RowOf(p, post[p].seq) /\ delivered \subseteq Post /\ Rows' = Rows
    BY <1>0, <2>2, <2>3 DEF UserRows, PostsHaveRows, Written, SdkTypes, Rows
  <2> HIDE DEF Rows
  <2>10. RowsHavePosts'
    BY <2>2, <2>5, <2>6, <2>7, <2>9 DEF UserRows, RowsHavePosts
  <2>11. PostsHaveRows'
    BY <2>5, <2>6, <2>8 DEF UserRows, PostsHaveRows
  <2>12. DeliveredHaveRows'
    <3> SUFFICES ASSUME NEW q \in delivered \cup {p}
                 PROVE  \E m \in Rows' : RowOf(q, m)'
      BY <2>2 DEF DeliveredHaveRows
    <3>1. \E m \in Rows : RowOf(q, m)
      BY <2>9 DEF UserRows, DeliveredHaveRows, RowOf
    <3> QED
      BY <2>3, <2>8, <2>9, <3>1
  <2>13. OneRowAKey'
    BY <2>2, <2>9 DEF UserRows, OneRowAKey
  <2> QED
    BY <2>10, <2>11, <2>12, <2>13 DEF UserRows
<1>11. CASE ActorDies
  <2>1. /\ delivered' = delivered /\ log' = log
        /\ post' = [p \in Post |-> IF post[p].pc = "sent" THEN [post[p] EXCEPT !.pc = "undo"] ELSE post[p]]
    BY <1>11 DEF ActorDies, logged
  <2>2. ASSUME NEW q \in Post
        PROVE  /\ post'[q].pc \in Written <=> post[q].pc \in Written
               /\ post'[q].key = post[q].key /\ post'[q].seq = post[q].seq
    BY <1>0, <2>1 DEF PostTypes, PostState, Written
  <2> QED
    BY <1>0, <2>1, <2>2, RowedMove
<1>12. ASSUME NEW x \in Proc, Backfill(x)
       PROVE  UserRows'
  <2>1. post' = post /\ delivered' = delivered
    BY <1>12 DEF Backfill, sdk
  <2>2. Fills
    BY <1>0, <1>12, Backfilling
  <2>3. /\ Rows \subseteq Rows' /\ (\A n \in Rows : log'[n] = log[n])
        /\ \A n \in Rows' \ Rows : log'[n].kind # "user"
    <3>1. \A k : HistoryEntry(k).kind = "history"
      BY DEF HistoryEntry
    <3>2. \A n \in Rows' \ Rows : log'[n] = HistoryEntry(n - NextSeq)
      BY <2>2 DEF Fills
    <3>3. Rows \subseteq Rows' /\ \A n \in Rows : log'[n] = log[n]
      BY <2>2 DEF Fills
    <3> QED
      BY <3>1, <3>2, <3>3
  <2> QED
    BY <2>1, <2>3, OtherRows
<1>13. CASE Insert
  <2>1. post' = post /\ delivered' = delivered /\ at = "insert"
    BY <1>13 DEF Insert, sdk
  <2>2. CASE base \in Rows
    BY <1>1, <1>13, <2>1, <2>2 DEF Insert
  <2>3. CASE base \notin Rows
    <3>1. log' = With(base, Entry) /\ base \in Nat /\ inbox # <<>>
      BY <1>0, <1>13, <2>1, <2>3 DEF Insert, PipeTypes
    <3>2. Entry \in EntrySet
      BY <1>0, <3>1, HeadTypes
    <3>3. Rows' = Rows \cup {base} /\ log'[base] = Entry /\ \A m \in Rows : log'[m] = log[m]
      BY <1>0, <2>3, <3>1, <3>2, Adding
    <3>4. Entry.kind # "user"
      BY DEF Entry, Interrupt
    <3> QED
      BY <2>1, <3>3, <3>4, OtherRows
  <2> QED
    BY <2>2, <2>3
<1>14. CASE \/ UNCHANGED vars
            \/ \E x \in Proc : HasEntries(x) \/ LockBackfill(x)
            \/ Message \/ Delta \/ EndTurn \/ HandleCompleted \/ CheckTail \/ SelectNext
            \/ \E v \in Viewer : Open(v) \/ ViewerStep(v)
  <2>1. UNCHANGED <<log, post, delivered>>
    BY <1>14 DEF vars, HasEntries, LockBackfill, Message, Delta, EndTurn, HandleCompleted,
                CheckTail, SelectNext, Open, ViewerStep, List, TakeEntry, TakeOther, Beat, sdk, logged
  <2> QED
    BY <1>1, <2>1
<1> QED
  BY <1>3, <1>5, <1>6, <1>7, <1>8, <1>9, <1>10, <1>11, <1>12, <1>13, <1>14
     DEF Next, PostStep, EnsureStep, InboxStep

-----------------------------------------------------------------------------
(* Backfilled rows *)

\* Before the backfill nothing has happened; at most one reader is in it; after it
\* the history has the first rows.
Untouched ==
    /\ Rows = {}
    /\ \A x \in Proc : bf[x] # "have"
    /\ \A p \in Post : post[p].pc \in {"new", "ensure"}
    /\ inbox = <<>> /\ sdkq = <<>> /\ turn = NULL
    /\ \A v \in Viewer : view[v].pc # "live"
HistoryInPlace == \A n \in Rows : log[n].kind = "history" => n < History /\ log[n].id = n + 1
OneReader == \A x, y \in Proc : bf[x] = "read" /\ bf[y] = "read" => x = y
HistoryWritten == /\ \A n \in 0..History - 1 : n \in Rows /\ log[n].kind = "history"
                  /\ \A x \in Proc : bf[x] # "read"
HistoryRows ==
    /\ HistoryInPlace
    /\ OneReader
    /\ History > 0 => Untouched \/ HistoryWritten

\* A step of a session that is under way.
LEMMA HistoryStays ==
    ASSUME HistoryRows, History > 0 => ~ Untouched,
           \A n \in Rows : log[n].kind = "history" => n \in Rows' /\ log'[n] = log[n],
           \A n \in Rows' : log'[n].kind = "history" => n \in Rows /\ log'[n] = log[n],
           \A x \in Proc : bf'[x] = "read" => bf[x] = "read"
    PROVE  HistoryRows'
<1> HIDE DEF Rows
<1>1. HistoryInPlace'
  BY DEF HistoryRows, HistoryInPlace
<1>2. OneReader'
  BY DEF HistoryRows, OneReader
<1>3. History > 0 => HistoryWritten'
  BY DEF HistoryRows, HistoryWritten
<1> QED
  BY <1>1, <1>2, <1>3 DEF HistoryRows

\* Every step keeps HistoryRows: whoever touches the log has come through
\* ensure_backfilled, and one reader at a time is behind its lock.
LEMMA HistoryRowsStep ==
    ASSUME LogTypes, Prompts, UserRows, HistoryRows, [Next]_vars
    PROVE  HistoryRows'
<1>0. RowTypes /\ PostTypes /\ SdkTypes /\ PipeTypes /\ ViewTypes /\ bf \in [Proc -> BfState] /\ History \in Nat
  BY Constants DEF LogTypes
<1>1. ASSUME log' = log, \A x \in Proc : bf'[x] = "read" => bf[x] = "read",
             ~ Untouched \/ Untouched'
      PROVE  HistoryRows'
  <2>1. CASE ~ Untouched
    BY <1>1, <2>1, HistoryStays DEF Rows
  <2>2. CASE Untouched'
    <3>1. HistoryInPlace'
      BY <2>2 DEF Untouched, HistoryInPlace
    <3>2. OneReader'
      BY <1>1 DEF HistoryRows, OneReader
    <3> QED
      BY <2>2, <3>1, <3>2 DEF HistoryRows
  <2> QED
    BY <1>1, <2>1, <2>2
<1>2. ASSUME UNCHANGED <<log, bf, post, inbox, sdkq, turn, view>>
      PROVE  HistoryRows'
  <2>1. Untouched => Untouched'
    BY <1>2 DEF Untouched, Rows
  <2> QED
    BY <1>1, <1>2, <2>1
<1>3. ASSUME NEW x \in Proc, HasEntries(x)
      PROVE  HistoryRows'
  <2>1. /\ bf' = [bf EXCEPT ![x] = IF Rows # {} THEN "have" ELSE "lock"]
        /\ UNCHANGED <<log, post, inbox, sdkq, turn, view>>
    BY <1>3 DEF HasEntries, sdk, pipe
  <2>2. \A y \in Proc : bf'[y] = bf[y] \/ bf'[y] = (IF Rows # {} THEN "have" ELSE "lock")
    BY <1>0, <2>1
  <2>3. Untouched => Untouched'
    BY <2>1, <2>2 DEF Untouched, Rows
  <2> QED
    BY <1>1, <2>1, <2>2, <2>3
<1>4. ASSUME NEW x \in Proc, LockBackfill(x)
      PROVE  HistoryRows'
  <2>1. /\ bf' = [bf EXCEPT ![x] = IF Rows # {} THEN "have" ELSE "read"]
        /\ \A y \in Proc : bf[y] # "read"
        /\ UNCHANGED <<log, post, inbox, sdkq, turn, view>>
    BY <1>4 DEF LockBackfill, sdk, pipe
  <2>2. CASE Rows # {}
    <3>1. ~ Untouched /\ \A y \in Proc : bf'[y] = bf[y] \/ bf'[y] = "have"
      BY <1>0, <2>1, <2>2 DEF Untouched
    <3> QED
      BY <1>1, <2>1, <3>1
  <2>3. CASE Rows = {}
    <3>1. bf'[x] = "read" /\ \A y \in Proc : y # x => bf'[y] = bf[y]
      BY <1>0, <2>1, <2>3
    <3>2. History > 0 => Untouched
      <4>1. History > 0 => 0 \in 0..History - 1
        BY <1>0
      <4> QED
        BY <2>3, <4>1 DEF HistoryRows, HistoryWritten
    <3>3. Untouched => Untouched'
      BY <2>1, <3>1 DEF Untouched, Rows
    <3>4. OneReader'
      BY <2>1, <3>1 DEF OneReader
    <3>5. HistoryInPlace'
      BY <2>1, <2>3 DEF HistoryInPlace, Rows
    <3> QED
      BY <3>2, <3>3, <3>4, <3>5 DEF HistoryRows
  <2> QED
    BY <2>2, <2>3
<1>5. ASSUME NEW x \in Proc, Backfill(x)
      PROVE  HistoryRows'
  <2>1. bf[x] = "read" /\ bf' = [bf EXCEPT ![x] = "have"]
    BY <1>5 DEF Backfill
  <2>2. Fills
    BY <1>0, <1>5, Backfilling
  <2>3. \A y \in Proc : bf'[y] # "read"
    BY <1>0, <2>1 DEF HistoryRows, OneReader
  <2>4. CASE History > 0
    <3>1. Rows = {}
      BY <2>1, <2>4 DEF HistoryRows, HistoryWritten, Untouched
    <3>2. NextSeq = 0
      BY <3>1 DEF NextSeq
    <3>3. Rows' = 0..History - 1 /\ \A n \in 0..History - 1 : log'[n] = HistoryEntry(n)
      BY <1>0, <2>2, <3>1, <3>2 DEF Fills
    <3>4. \A n \in Rows' : log'[n].kind = "history" /\ log'[n].id = n + 1
      <4>1. \A k : HistoryEntry(k).kind = "history" /\ HistoryEntry(k).id = k + 1
        BY DEF HistoryEntry
      <4> QED
        BY <3>3, <4>1
    <3>5. HistoryWritten' /\ HistoryInPlace'
      BY <1>0, <2>3, <3>3, <3>4 DEF HistoryWritten, HistoryInPlace
    <3> QED
      BY <2>3, <3>5 DEF HistoryRows, OneReader
  <2>5. CASE ~ (History > 0)
    <3>1. NextSeq \in Nat
      BY <1>0, NextIsNew
    <3>2. NextSeq..(NextSeq + History - 1) = {}
      BY <1>0, <2>5, <3>1
    <3>3. Rows' = Rows /\ \A n \in Rows : log'[n] = log[n]
      BY <2>2, <3>2 DEF Fills
    <3> HIDE DEF Rows
    <3> QED
      BY <2>3, <2>5, <3>3 DEF HistoryRows, OneReader, HistoryInPlace
  <2> QED
    BY <2>4, <2>5
<1>6. ASSUME NEW p \in Post, NEW k \in Post, Arrive(p, k)
      PROVE  HistoryRows'
  <2>1. /\ post' = [post EXCEPT ![p] = [@ EXCEPT !.pc = "ensure", !.key = k]]
        /\ UNCHANGED <<log, bf, inbox, sdkq, turn, view>>
    BY <1>0, <1>6 DEF Arrive, PostTypes, logged, sdk, pipe
  <2>2. \A q \in Post : post'[q].pc \in {post[q].pc, "ensure"}
    BY <1>0, <2>1 DEF PostTypes, PostState
  <2>3. Untouched => Untouched'
    BY <2>1, <2>2 DEF Untouched, Rows
  <2> QED
    BY <1>1, <2>1, <2>3
<1>7. ASSUME NEW p \in Post, Precheck(p)
      PROVE  HistoryRows'
  <2>1. bf[p] = "have" /\ p \in Proc /\ bf' = [bf EXCEPT ![p] = "none"] /\ log' = log
    BY <1>7 DEF Precheck, Proc
  <2>2. ~ Untouched /\ \A y \in Proc : bf'[y] = bf[y] \/ bf'[y] = "none"
    BY <1>0, <2>1 DEF Untouched
  <2> QED
    BY <1>1, <2>1, <2>2
<1>8. ASSUME NEW p \in Post, SelectNextForUser(p) \/ Mark(p)
      PROVE  HistoryRows'
  <2>1. post[p].pc \in {"select", "mark"} /\ log' = log /\ bf' = bf
    BY <1>8 DEF SelectNextForUser, Mark, logged
  <2>2. ~ Untouched
    BY <2>1 DEF Untouched
  <2> QED
    BY <1>1, <2>1, <2>2
<1>9. ASSUME NEW n \in Nat, NEW e \in EntrySet, log' = With(n, e), n \notin Rows, e.kind # "history", bf' = bf,
             ~ Untouched
      PROVE  HistoryRows'
  <2>1. Rows' = Rows \cup {n} /\ log'[n] = e /\ \A m \in Rows : log'[m] = log[m]
    BY <1>0, <1>9, Adding
  <2> HIDE DEF Rows
  <2>2. \A m \in Rows' : log'[m].kind = "history" => m \in Rows /\ log'[m] = log[m]
    BY <1>9, <2>1
  <2>3. \A m \in Rows : log[m].kind = "history" => m \in Rows' /\ log'[m] = log[m]
    BY <2>1
  <2> QED
    BY <1>9, <2>2, <2>3, HistoryStays
<1>10. ASSUME NEW p \in Post, InsertUser(p)
       PROVE  HistoryRows'
  <2>1. post[p].pc = "insert" /\ bf' = bf
    BY <1>10 DEF InsertUser
  <2>2. ~ Untouched
    BY <2>1 DEF Untouched
  <2>3. CASE log' = log
    BY <1>1, <2>1, <2>2, <2>3
  <2>4. CASE log' = With(post[p].base, User(p)) /\ post[p].base \notin Rows
    <3>1. post[p].base \in Nat /\ User(p) \in EntrySet /\ User(p).kind # "history"
      BY <1>0, <2>1, UserTypes DEF PostTypes, PostState, User
    <3> QED
      BY <1>9, <2>1, <2>2, <2>4, <3>1
  <2> QED
    BY <1>10, <2>3, <2>4 DEF InsertUser
<1>11. ASSUME NEW p \in Post, Undo(p)
       PROVE  HistoryRows'
  <2>1. post[p].pc = "undo" /\ bf' = bf
    BY <1>11 DEF Undo
  <2>2. ~ Untouched
    BY <2>1 DEF Untouched
  <2>3. PICK n : n = post[p].seq
    OBVIOUS
  <2>4. log[n].kind # "history"
    <3>1. log[n] = User(p)
      BY <2>1, <2>3 DEF UserRows, PostsHaveRows, Written, RowOf
    <3> QED
      BY <3>1 DEF User
  <2>5. Rows' = Rows \ {n} /\ \A m \in Rows' : log'[m] = log[m]
    BY <1>0, <1>11, <2>3, Deleting DEF Undo
  <2> HIDE DEF Rows
  <2>6. \A m \in Rows' : log'[m].kind = "history" => m \in Rows /\ log'[m] = log[m]
    BY <2>5
  <2>7. \A m \in Rows : log[m].kind = "history" => m \in Rows' /\ log'[m] = log[m]
    BY <2>4, <2>5
  <2> QED
    BY <2>1, <2>2, <2>6, <2>7, HistoryStays
<1>12. CASE Accept \/ Message \/ EndTurn \/ ActorDies
  <2>1. log' = log /\ bf' = bf /\ (turn # NULL \/ sdkq # <<>>)
    BY <1>12 DEF Accept, Message, EndTurn, ActorDies, logged
  <2>2. ~ Untouched
    BY <2>1 DEF Untouched
  <2> QED
    BY <1>1, <2>1, <2>2
<1>13. CASE HandleCompleted \/ CheckTail
  <2>1. log' = log /\ bf' = bf /\ inbox # <<>>
    BY <1>13 DEF HandleCompleted, CheckTail, Now
  <2>2. ~ Untouched
    BY <2>1 DEF Untouched
  <2> QED
    BY <1>1, <2>1, <2>2
<1>14. CASE Insert
  <2>1. bf' = bf /\ inbox # <<>> /\ base \in Nat
    BY <1>0, <1>14 DEF Insert, PipeTypes
  <2>2. ~ Untouched
    BY <2>1 DEF Untouched
  <2>3. CASE log' = log
    BY <1>1, <2>1, <2>2, <2>3
  <2>4. CASE log' = With(base, Entry) /\ base \notin Rows
    <3>1. Entry \in EntrySet /\ Entry.kind # "history"
      BY <1>0, <2>1, HeadTypes DEF Entry, Interrupt
    <3> QED
      BY <1>9, <2>1, <2>2, <2>4, <3>1
  <2> QED
    BY <1>14, <2>3, <2>4 DEF Insert
<1>15. ASSUME NEW v \in Viewer, List(v)
       PROVE  HistoryRows'
  <2>1. bf[v] = "have" /\ v \in Proc /\ bf' = [bf EXCEPT ![v] = "none"] /\ log' = log
    BY <1>15 DEF List, Proc
  <2>2. ~ Untouched /\ \A y \in Proc : bf'[y] = bf[y] \/ bf'[y] = "none"
    BY <1>0, <2>1 DEF Untouched
  <2> QED
    BY <1>1, <2>1, <2>2
<1>17. ASSUME NEW v \in Viewer, TakeEntry(v) \/ TakeOther(v) \/ Beat(v)
       PROVE  HistoryRows'
  <2>1. log' = log /\ bf' = bf /\ view[v].pc = "live"
    BY <1>17 DEF TakeEntry, TakeOther, Beat, logged
  <2>2. ~ Untouched
    BY <2>1 DEF Untouched
  <2> QED
    BY <1>1, <2>1, <2>2
<1>18. ASSUME NEW v \in Viewer, Open(v)
       PROVE  HistoryRows'
  <2>1. UNCHANGED <<log, bf, post, inbox, sdkq, turn>>
    BY <1>18 DEF Open, logged, sdk, pipe
  <2>2. PICK pc \in {"list", "cold"} : view' = [view EXCEPT ![v].pc = pc]
    BY <1>18 DEF Open
  <2>3. \A u \in Viewer : view'[u].pc \in {view[u].pc, "list", "cold"}
    BY <1>0, <2>2 DEF ViewTypes, ViewState
  <2>4. Untouched => Untouched'
    BY <2>1, <2>3 DEF Untouched, Rows
  <2> QED
    BY <1>1, <2>1, <2>4
<1>16. CASE UNCHANGED vars \/ Delta \/ SelectNext
  <2>1. UNCHANGED <<log, bf, post, inbox, sdkq, turn, view>>
    BY <1>16 DEF vars, Delta, SelectNext, sdk, logged, pipe
  <2> QED
    BY <1>2, <2>1
<1> QED
  BY <1>3, <1>4, <1>5, <1>6, <1>7, <1>8, <1>10, <1>11, <1>12, <1>13, <1>14, <1>15, <1>16, <1>17, <1>18
     DEF Next, PostStep, EnsureStep, InboxStep, ViewerStep

-----------------------------------------------------------------------------
(* Rows and interrupts of a calm session *)

\* While no delivery has failed and no posts overlap (calm), the numbers of the rows
\* have no gaps, and an interrupt entry about to be written follows another entry.
Filled(n) == \A m \in Nat : m < n => m \in Rows
InterruptAhead == at # "wait" /\ Head(inbox).t # "message"
TailIsOther == \A n \in Rows : log[n].kind = "interrupt" => \E m \in Rows : n < m
NoGaps ==
    /\ \A n \in Rows : Filled(n)
    /\ at = "insert" => Filled(base)
    /\ \A p \in Post : post[p].pc = "insert" => Filled(post[p].base)
CalmRows ==
    calm => /\ \A p \in Post : post[p].pc # "undo"
            /\ NoGaps
            /\ InterruptAhead => TailIsOther

\* In a log without gaps the next row is the first free one.
LEMMA FilledUp ==
    ASSUME RowTypes, \A n \in Rows : Filled(n)
    PROVE  /\ Filled(NextSeq)
           /\ \A k \in Nat : Filled(k) /\ k \notin Rows => \A n \in Rows : n < k
<1>1. NextSeq \in Nat /\ (\A n \in Rows : n \in Nat /\ n < NextSeq) /\ (NextSeq > 0 => NextSeq - 1 \in Rows)
  BY NextIsNew
<1> HIDE DEF Rows
<1>2. ASSUME NEW m \in Nat, m < NextSeq
      PROVE  m \in Rows
  <2>1. NextSeq - 1 \in Rows /\ (m = NextSeq - 1 \/ m < NextSeq - 1)
    BY <1>1, <1>2
  <2> QED
    BY <2>1 DEF Filled
<1>3. ASSUME NEW k \in Nat, Filled(k), k \notin Rows, NEW n \in Rows
      PROVE  n < k
  <2>1. n \in Nat /\ ~ (k < n) /\ n # k
    BY <1>1, <1>3 DEF Filled
  <2> QED
    BY <2>1
<1> QED
  BY <1>2, <1>3 DEF Filled

\* The log grows; what was filled stays so.
LEMMA Growing ==
    ASSUME Rows \subseteq Rows', NEW n, Filled(n)
    PROVE  Filled(n)'
BY DEF Filled

Calm == CalmRows /\ OneInterruptEntry

\* A step that leaves the rows alone.
LEMMA CalmStays ==
    ASSUME CalmRows, OneInterruptEntry, log' = log, calm' => calm,
           calm' => \A p \in Post : post'[p].pc # "undo",
           calm' /\ at' = "insert" => Filled(base'),
           calm' => \A p \in Post : post'[p].pc = "insert" => Filled(post'[p].base),
           calm' /\ InterruptAhead' => TailIsOther
    PROVE  CalmRows' /\ OneInterruptEntry'
<1>1. Rows' = Rows /\ \A n : Filled(n)' <=> Filled(n)
  BY DEF Filled, Rows
<1>2. TailIsOther' <=> TailIsOther
  BY <1>1 DEF TailIsOther
<1>3. OneInterruptEntry'
  BY <1>1 DEF OneInterruptEntry
<1>4. ASSUME calm'
      PROVE  NoGaps'
  <2>1. \A n \in Rows' : Filled(n)'
    BY <1>1, <1>4 DEF CalmRows, NoGaps
  <2>2. (at = "insert" => Filled(base))'
    BY <1>4 DEF Filled, Rows
  <2>3. (\A p \in Post : post[p].pc = "insert" => Filled(post[p].base))'
    BY <1>4 DEF Filled, Rows
  <2> QED
    BY <2>1, <2>2, <2>3 DEF NoGaps
<1> QED
  BY <1>2, <1>3, <1>4 DEF CalmRows

\* A step that adds rows which are no interrupts, at the first free place.
LEMMA CalmGrows ==
    ASSUME CalmRows, OneInterruptEntry, RowTypes, calm' => calm, Rows \subseteq Rows',
           \A n \in Rows : log'[n] = log[n], \A n \in Rows' \ Rows : log'[n].kind # "interrupt",
           \A n \in Rows' \ Rows : calm => Filled(n)',
           calm' => \A p \in Post : post'[p].pc # "undo",
           calm' /\ at' = "insert" => at = "insert" /\ base' = base,
           calm' => \A p \in Post : post'[p].pc = "insert" => post[p].pc = "insert" /\ post'[p].base = post[p].base,
           calm' /\ InterruptAhead' => InterruptAhead
    PROVE  CalmRows' /\ OneInterruptEntry'
<1> HIDE DEF Rows
<1>1. \A n \in Rows' : log'[n].kind = "interrupt" => n \in Rows /\ log[n].kind = "interrupt"
  OBVIOUS
<1>2. OneInterruptEntry'
  <2> SUFFICES ASSUME calm', NEW n \in Rows', NEW m \in Rows', n < m,
                      log'[n].kind = "interrupt", log'[m].kind = "interrupt"
               PROVE  \E o \in Rows' : n < o /\ o < m
    BY DEF OneInterruptEntry
  <2>1. n \in Rows /\ m \in Rows /\ log[n].kind = "interrupt" /\ log[m].kind = "interrupt"
    BY <1>1
  <2>2. \E o \in Rows : n < o /\ o < m
    BY <2>1 DEF OneInterruptEntry
  <2> QED
    BY <2>2
<1>3. ASSUME calm'
      PROVE  NoGaps'
  <2>1. \A n \in Rows' : Filled(n)'
    BY <1>3, Growing DEF CalmRows, NoGaps
  <2>2. \A n : Filled(n) => Filled(n)'
    BY Growing
  <2>3. (at = "insert" => Filled(base))'
    <3>1. at' = "insert" => Filled(base) /\ base' = base
      BY <1>3 DEF CalmRows, NoGaps
    <3> QED
      BY <3>1 DEF Filled
  <2>4. (\A p \in Post : post[p].pc = "insert" => Filled(post[p].base))'
    <3> SUFFICES ASSUME NEW p \in Post, post'[p].pc = "insert"
                 PROVE  \A m \in Nat : m < post'[p].base => m \in Rows'
      BY DEF Filled
    <3>1. Filled(post[p].base) /\ post'[p].base = post[p].base
      BY <1>3 DEF CalmRows, NoGaps
    <3> QED
      BY <3>1 DEF Filled
  <2> QED
    BY <2>1, <2>3, <2>4 DEF NoGaps
<1>4. calm' /\ InterruptAhead' => TailIsOther'
  <2> SUFFICES ASSUME calm', InterruptAhead', NEW n \in Rows', log'[n].kind = "interrupt"
               PROVE  \E m \in Rows' : n < m
    BY DEF TailIsOther
  <2>1. n \in Rows /\ log[n].kind = "interrupt" /\ TailIsOther
    BY <1>1 DEF CalmRows
  <2>2. \E m \in Rows : n < m
    BY <2>1 DEF TailIsOther
  <2> QED
    BY <2>2
<1> QED
  BY <1>2, <1>3, <1>4 DEF CalmRows

\* Every step keeps CalmRows and writes no two interrupts in a row.
LEMMA CalmRowsStep ==
    ASSUME LogTypes, Prompts, CalmRows, OneInterruptEntry, [Next]_vars
    PROVE  CalmRows' /\ OneInterruptEntry'
<1>0. RowTypes /\ PostTypes /\ SdkTypes /\ PipeTypes /\ History \in Nat
  BY Constants DEF LogTypes
<1>1. ASSUME UNCHANGED <<log, calm, at, base, post>>, at # "wait" => Head(inbox') = Head(inbox)
      PROVE  CalmRows' /\ OneInterruptEntry'
  <2>1. InterruptAhead' => InterruptAhead
    BY <1>1 DEF InterruptAhead
  <2> QED
    BY <1>1, <2>1, CalmStays DEF CalmRows, NoGaps
<1>2. ASSUME NEW p \in Post, NEW r, post' = [post EXCEPT ![p] = r], r.pc # "undo",
             calm /\ r.pc = "insert" => Filled(r.base),
             UNCHANGED <<log, pipe>>, calm' => calm
      PROVE  CalmRows' /\ OneInterruptEntry'
  <2>1. post'[p] = r /\ \A q \in Post : q # p => post'[q] = post[q]
    BY <1>0, <1>2 DEF PostTypes
  <2>2. InterruptAhead' <=> InterruptAhead
    BY <1>2 DEF InterruptAhead, pipe
  <2>3. calm' => \A q \in Post : post'[q].pc # "undo"
    BY <1>2, <2>1 DEF CalmRows
  <2>4. calm' /\ at' = "insert" => Filled(base')
    BY <1>2 DEF CalmRows, NoGaps, pipe
  <2>5. calm' => \A q \in Post : post'[q].pc = "insert" => Filled(post'[q].base)
    BY <1>2, <2>1 DEF CalmRows, NoGaps
  <2>6. calm' /\ InterruptAhead' => TailIsOther
    BY <1>2, <2>2 DEF CalmRows
  <2> QED
    BY <1>2, <2>3, <2>4, <2>5, <2>6, CalmStays
<1>3. ASSUME NEW p \in Post, NEW k \in Post, Arrive(p, k)
      PROVE  CalmRows' /\ OneInterruptEntry'
  <2> DEFINE r == [post[p] EXCEPT !.pc = "ensure", !.key = k]
  <2>1. post' = [post EXCEPT ![p] = r] /\ UNCHANGED <<log, pipe>> /\ calm' = calm
    BY <1>0, <1>3 DEF Arrive, PostTypes, logged
  <2>2. r.pc = "ensure"
    BY <1>0 DEF PostTypes, PostState
  <2> HIDE DEF r
  <2> QED
    BY <1>2, <2>1, <2>2
<1>4. ASSUME NEW p \in Post, NEW pc, Goto(p, pc) \/ Leaves(p, pc), pc \notin {"undo", "insert"},
             UNCHANGED <<log, pipe>>, calm' => calm
      PROVE  CalmRows' /\ OneInterruptEntry'
  <2>1. PICK r : post' = [post EXCEPT ![p] = r] /\ r.pc = pc
    BY <1>0, <1>4 DEF Goto, Leaves, PostTypes, PostState
  <2> QED
    BY <1>2, <1>4, <2>1
<1>5. ASSUME NEW p \in Post, Precheck(p)
      PROVE  CalmRows' /\ OneInterruptEntry'
  <2>1. /\ UNCHANGED <<log, pipe>> /\ (calm' => calm)
        /\ \E pc \in {"accepted", "refused", "select"} : Goto(p, pc)
    <3>1. UNCHANGED <<log, pipe>>
      BY <1>5 DEF Precheck
    <3>2. calm' => calm
      BY <1>5 DEF Precheck
    <3>3. \E pc \in {"accepted", "refused", "select"} : Goto(p, pc)
      BY <1>5 DEF Precheck
    <3> QED
      BY <3>1, <3>2, <3>3
  <2> QED
    BY <1>4, <2>1
<1>6. ASSUME NEW p \in Post, SelectNextForUser(p)
      PROVE  CalmRows' /\ OneInterruptEntry'
  <2>1. UNCHANGED <<log, pipe>> /\ calm' = calm
    BY <1>6 DEF SelectNextForUser, logged
  <2>2. CASE Goto(p, "accepted")
    BY <1>4, <2>1, <2>2
  <2>3. CASE post' = [post EXCEPT ![p].pc = "insert", ![p].base = NextSeq]
    <3> DEFINE r == [post[p] EXCEPT !.pc = "insert", !.base = NextSeq]
    <3>1. post' = [post EXCEPT ![p] = r]
      BY <1>0, <2>3 DEF PostTypes
    <3>2. r.pc = "insert" /\ r.base = NextSeq
      BY <1>0 DEF PostTypes, PostState
    <3>3. calm => Filled(NextSeq)
      BY <1>0, FilledUp DEF CalmRows, NoGaps
    <3> HIDE DEF r
    <3> QED
      BY <1>2, <2>1, <3>1, <3>2, <3>3
  <2> QED
    BY <1>6, <2>2, <2>3 DEF SelectNextForUser, Goto
<1>7. ASSUME NEW p \in Post, InsertUser(p)
      PROVE  CalmRows' /\ OneInterruptEntry'
  <2>1. UNCHANGED pipe /\ calm' = calm /\ post[p].pc = "insert"
    BY <1>7 DEF InsertUser
  <2>2. CASE \E pc \in {"accepted", "select"} : Leaves(p, pc) /\ log' = log
    BY <1>4, <2>1, <2>2
  <2>3. CASE /\ post[p].base \notin Rows
             /\ log' = With(post[p].base, User(p))
             /\ post' = [post EXCEPT ![p].pc = "mark", ![p].base = 0, ![p].seq = post[p].base]
    <3> DEFINE r == [post[p] EXCEPT !.pc = "mark", !.base = 0, !.seq = post[p].base]
    <3>1. post' = [post EXCEPT ![p] = r]
      BY <1>0, <2>3 DEF PostTypes
    <3>2. r.pc = "mark"
      BY <1>0 DEF PostTypes, PostState
    <3> HIDE DEF r
    <3>3. post'[p] = r /\ \A q \in Post : q # p => post'[q] = post[q]
      BY <1>0, <3>1 DEF PostTypes
    <3>4. post[p].base \in Nat /\ User(p) \in EntrySet
      BY <1>0, <2>1, UserTypes DEF PostTypes, PostState
    <3>5. PICK n \in Nat : n = post[p].base
      BY <3>4
    <3>6. /\ Rows' = Rows \cup {n} /\ n \notin Rows
          /\ log'[n] = User(p) /\ \A m \in Rows : log'[m] = log[m]
      BY <1>0, <2>3, <3>4, <3>5, Adding
    <3>7. User(p).kind # "interrupt"
      BY DEF User
    <3>8. Rows \subseteq Rows' /\ \A m \in Rows' \ Rows : m = n
      BY <3>6
    <3>9. calm => Filled(n)'
      <4>1. calm => Filled(n)
        BY <2>1, <3>5 DEF CalmRows, NoGaps
      <4> QED
        BY <3>8, <4>1, Growing
    <3>10. InterruptAhead' => InterruptAhead
      BY <2>1 DEF InterruptAhead, pipe
    <3>11. calm' => \A q \in Post : post'[q].pc # "undo"
      BY <2>1, <3>2, <3>3 DEF CalmRows
    <3>12. calm' => \A q \in Post : post'[q].pc = "insert" => post[q].pc = "insert" /\ post'[q].base = post[q].base
      BY <3>2, <3>3
    <3>13. at' = at /\ base' = base
      BY <2>1 DEF pipe
    <3> HIDE DEF Rows
    <3>14. \A m \in Rows' \ Rows : log'[m].kind # "interrupt"
      BY <3>6, <3>7, <3>8
    <3>15. \A m \in Rows' \ Rows : calm => Filled(m)'
      BY <3>8, <3>9
    <3> QED
      BY <1>0, <2>1, <3>6, <3>8, <3>10, <3>11, <3>12, <3>13, <3>14, <3>15, CalmGrows
  <2> QED
    BY <1>7, <2>2, <2>3 DEF InsertUser
<1>8. ASSUME NEW p \in Post, Mark(p)
      PROVE  CalmRows' /\ OneInterruptEntry'
  <2>1. UNCHANGED <<log, pipe>> /\ calm' = calm /\ Goto(p, "sent")
    BY <1>8 DEF Mark, logged
  <2> QED
    BY <1>4, <2>1
<1>9. ASSUME ~ calm'
      PROVE  CalmRows' /\ OneInterruptEntry'
  BY <1>9 DEF CalmRows, OneInterruptEntry
<1>10. ASSUME NEW p \in Post, Undo(p)
       PROVE  CalmRows' /\ OneInterruptEntry'
  <2>1. ~ calm'
    BY <1>10 DEF Undo, CalmRows
  <2> QED
    BY <1>9, <2>1
<1>11. CASE Accept
  <2>1. PICK p : p = Head(sdkq)
    OBVIOUS
  <2>2. sdkq # <<>> /\ Leaves(p, "accepted") /\ UNCHANGED <<log, pipe>> /\ calm' = calm
    BY <1>11, <2>1 DEF Accept, logged
  <2>3. p \in Post
    BY <1>0, <2>1, <2>2 DEF SdkTypes
  <2> QED
    BY <1>4, <2>2, <2>3
<1>12. CASE Message
  <2>1. UNCHANGED <<log, calm, at, base, post>> /\ inbox' = Append(inbox, [t |-> "message", id |-> made'])
    BY <1>12 DEF Message, logged
  <2>2. inbox # <<>> => Head(inbox') = Head(inbox)
    BY <1>0, <2>1 DEF PipeTypes
  <2> QED
    BY <1>0, <1>1, <2>1, <2>2 DEF PipeTypes
<1>13. CASE EndTurn
  <2>1. UNCHANGED <<log, calm, at, base, post>>
    BY <1>13 DEF EndTurn, logged
  <2>2. PICK echo, interrupted \in BOOLEAN :
           inbox' = inbox \o (IF echo THEN <<[t |-> "echo"]>> ELSE <<>>)
                          \o <<[t |-> IF interrupted THEN "interrupted" ELSE "completed"]>>
    BY <1>13 DEF EndTurn
  <2>3. inbox # <<>> => Head(inbox') = Head(inbox)
    <3> DEFINE a == IF echo THEN <<[t |-> "echo"]>> ELSE <<>>
               z == <<[t |-> IF interrupted THEN "interrupted" ELSE "completed"]>>
    <3>1. PICK D : inbox \in Seq(D) /\ a \in Seq(D) /\ z \in Seq(D)
      <4> DEFINE D == Item \cup {[t |-> "echo"], [t |-> "interrupted"], [t |-> "completed"]}
      <4>1. inbox \in Seq(D)
        <5>1. Item \subseteq D
          OBVIOUS
        <5>2. inbox \in Seq(Item)
          BY <1>0 DEF PipeTypes
        <5> HIDE DEF D
        <5> QED
          BY <5>1, <5>2
      <4>2. <<>> \in Seq(D) /\ <<[t |-> "echo"]>> \in Seq(D) /\ z \in Seq(D)
        OBVIOUS
      <4> QED
        BY <4>1, <4>2
    <3> HIDE DEF a, z
    <3>2. inbox' = (inbox \o a) \o z
      BY <2>2 DEF a, z
    <3> QED
      <4> SUFFICES ASSUME inbox # <<>> PROVE Head(inbox') = Head(inbox)
        OBVIOUS
      <4>1. Len(inbox) \in Nat /\ Len(inbox) >= 1
        BY <3>1, EmptySeq
      <4>2. (inbox \o a) \in Seq(D) /\ (inbox \o a)[1] = inbox[1] /\ Len(inbox \o a) >= 1
        BY <3>1, <4>1, ConcatProperties
      <4>3. inbox' \in Seq(D) /\ inbox'[1] = inbox[1]
        BY <3>1, <3>2, <4>1, <4>2, ConcatProperties
      <4> QED
        BY <4>3
  <2> QED
    BY <1>0, <1>1, <2>1, <2>3 DEF PipeTypes
<1>14. CASE ActorDies
  BY <1>9, <1>14 DEF ActorDies
<1>15. ASSUME NEW x \in Proc, Backfill(x)
       PROVE  CalmRows' /\ OneInterruptEntry'
  <2>1. UNCHANGED <<post, calm, pipe>>
    BY <1>15 DEF Backfill
  <2>2. Fills
    BY <1>0, <1>15, Backfilling
  <2>3. PICK f : f = NextSeq
    OBVIOUS
  <2>4. f \in Nat /\ (calm => Filled(f))
    BY <1>0, <2>3, NextIsNew, FilledUp DEF CalmRows, NoGaps
  <2>5. \A k : HistoryEntry(k).kind # "interrupt"
    BY DEF HistoryEntry
  <2>6. /\ Rows' = Rows \cup (f..(f + History - 1)) /\ (\A n \in Rows : log'[n] = log[n])
        /\ \A n \in Rows' \ Rows : log'[n].kind # "interrupt"
    <3>1. \A n \in f..(f + History - 1) : log'[n] = HistoryEntry(n - f)
      BY <2>2, <2>3 DEF Fills
    <3>2. Rows' = Rows \cup (f..(f + History - 1)) /\ \A n \in Rows : log'[n] = log[n]
      BY <2>2, <2>3 DEF Fills
    <3> HIDE DEF Rows
    <3> QED
      BY <2>5, <3>1, <3>2
  <2> HIDE DEF Rows
  <2>7. ASSUME NEW n \in Rows' \ Rows, calm
        PROVE  Filled(n)'
    <3>1. n \in f..(f + History - 1) /\ Filled(f)
      BY <2>4, <2>6, <2>7
    <3>2. \A m \in Nat : m < n => m \in Rows \/ m \in f..(f + History - 1)
      BY <1>0, <2>4, <3>1 DEF Filled
    <3> QED
      BY <2>6, <3>2 DEF Filled
  <2>8. at' = at /\ base' = base /\ (InterruptAhead' => InterruptAhead)
    BY <2>1 DEF pipe, InterruptAhead
  <2>9. calm' => \A q \in Post : post'[q].pc # "undo"
    BY <2>1 DEF CalmRows
  <2>10. Rows \subseteq Rows'
    BY <2>6
  <2> QED
    BY <1>0, <2>1, <2>6, <2>7, <2>8, <2>9, <2>10, CalmGrows
<1>16. CASE HandleCompleted
  <2>1. log' = log /\ calm' = calm /\ post' = post /\ at' = "wait"
    BY <1>16 DEF HandleCompleted, Handled
  <2>2. ~ InterruptAhead'
    BY <2>1 DEF InterruptAhead
  <2> QED
    BY <2>1, <2>2, CalmStays DEF CalmRows, NoGaps
<1>17. CASE CheckTail
  <2>1. log' = log /\ calm' = calm /\ post' = post
    BY <1>17 DEF CheckTail
  <2>2. CASE TailIsInterrupt
    <3>1. at' = "wait"
      BY <1>17, <2>2 DEF CheckTail, Handled
    <3>2. ~ InterruptAhead'
      BY <3>1 DEF InterruptAhead
    <3> QED
      BY <2>1, <3>1, <3>2, CalmStays DEF CalmRows, NoGaps
  <2>3. CASE ~ TailIsInterrupt
    <3>1. at' = "select"
      BY <1>17, <2>3 DEF CheckTail
    <3>2. TailIsOther
      <4> SUFFICES ASSUME NEW n \in Rows, log[n].kind = "interrupt"
                   PROVE  \E m \in Rows : n < m
        BY DEF TailIsOther
      <4>1. PICK b \in Nat : Rows \subseteq 0..b
        BY <1>0 DEF RowTypes
      <4>2. PICK g : g = Max(Rows)
        OBVIOUS
      <4>3. g \in Rows /\ (\A m \in Rows : m <= g) /\ log[g].kind # "interrupt"
        BY <2>3, <4>1, <4>2, GreatestNumber DEF TailIsInterrupt
      <4>4. n \in Nat /\ g \in Nat
        <5> HIDE DEF Rows
        <5> QED
          BY <4>1, <4>3
      <4>5. n < g
        BY <4>3, <4>4
      <4> QED
        BY <4>3, <4>5
    <3> QED
      BY <2>1, <3>1, <3>2, CalmStays DEF CalmRows, NoGaps
  <2> QED
    BY <2>2, <2>3
<1>18. CASE SelectNext
  <2>1. UNCHANGED <<log, calm, post, inbox>> /\ base' = NextSeq
    BY <1>18 DEF SelectNext, logged
  <2>2. calm => Filled(NextSeq)
    BY <1>0, FilledUp DEF CalmRows, NoGaps
  <2>3. InterruptAhead' => InterruptAhead
    BY <1>18, <2>1 DEF SelectNext, Now, InterruptAhead
  <2> QED
    BY <2>1, <2>2, <2>3, CalmStays DEF CalmRows, NoGaps
<1>19. CASE Insert
  <2>1. calm' = calm /\ post' = post /\ at = "insert" /\ base \in Nat /\ inbox # <<>>
    BY <1>0, <1>19 DEF Insert, PipeTypes
  <2>2. CASE base \in Rows
    <3>1. log' = log /\ at' = "select" /\ inbox' = inbox
      BY <1>19, <2>2 DEF Insert
    <3>2. InterruptAhead' => InterruptAhead
      BY <2>1, <3>1 DEF InterruptAhead
    <3> QED
      BY <2>1, <3>1, <3>2, CalmStays DEF CalmRows, NoGaps
  <2>3. CASE base \notin Rows
    <3>1. log' = With(base, Entry) /\ at' = "wait"
      BY <1>19, <2>3 DEF Insert, Handled
    <3>2. Entry \in EntrySet
      BY <1>0, <2>1, HeadTypes
    <3>3. Rows' = Rows \cup {base} /\ log'[base] = Entry /\ \A m \in Rows : log'[m] = log[m]
      BY <1>0, <2>1, <2>3, <3>1, <3>2, Adding
    <3>4. ~ InterruptAhead'
      BY <3>1 DEF InterruptAhead
    <3>5. Rows \subseteq Rows' /\ \A m \in Rows' \ Rows : m = base
      BY <3>3
    <3>6. calm => Filled(base) /\ \A m \in Rows' \ Rows : Filled(m)'
      <4>1. PICK n : n = base
        OBVIOUS
      <4>2. calm => Filled(n)
        BY <2>1, <4>1 DEF CalmRows, NoGaps
      <4>3. calm => Filled(n)'
        BY <3>5, <4>2, Growing
      <4> QED
        BY <3>5, <4>1, <4>2, <4>3
    <3> HIDE DEF Rows
    <3>7. CASE Entry.kind # "interrupt"
      <4>1. \A m \in Rows' \ Rows : log'[m].kind # "interrupt"
        BY <3>3, <3>5, <3>7
      <4>2. \A m \in Rows' \ Rows : calm => Filled(m)'
        BY <3>6
      <4>3. calm' => \A q \in Post : post'[q].pc # "undo"
        BY <2>1 DEF CalmRows
      <4> QED
        BY <1>0, <2>1, <3>1, <3>3, <3>4, <3>5, <4>1, <4>2, <4>3, CalmGrows
    <3>8. CASE Entry.kind = "interrupt"
      <4>1. InterruptAhead
        BY <2>1, <3>8 DEF InterruptAhead, Entry
      <4>2. ASSUME calm
            PROVE  \A n \in Rows : n < base
        BY <1>0, <2>1, <2>3, <3>6, <4>2, FilledUp DEF CalmRows, NoGaps
      <4>3. OneInterruptEntry'
        <5> SUFFICES ASSUME calm', NEW n \in Rows', NEW m \in Rows', n < m,
                            log'[n].kind = "interrupt", log'[m].kind = "interrupt"
                     PROVE  \E o \in Rows' : n < o /\ o < m
          BY DEF OneInterruptEntry
        <5>1. \A k \in Rows : k \in Nat
          BY <1>0, NextIsNew
        <5>2. n \in Rows
          <6>1. CASE n = base
            <7>1. m = base \/ (m \in Rows /\ m < base)
              BY <2>1, <3>3, <4>2
            <7> QED
              BY <2>1, <5>1, <6>1, <7>1
          <6> QED
            BY <3>3, <6>1
        <5>3. CASE m \in Rows
          <6>1. \E o \in Rows : n < o /\ o < m
            BY <2>1, <3>3, <5>2, <5>3 DEF OneInterruptEntry
          <6> QED
            BY <3>5, <6>1
        <5>4. CASE m = base
          <6>1. \E o \in Rows : n < o
            BY <2>1, <3>3, <4>1, <5>2 DEF CalmRows, TailIsOther
          <6> QED
            BY <2>1, <3>5, <4>2, <5>4, <6>1
        <5> QED
          BY <3>3, <5>3, <5>4
      <4>4. calm' => NoGaps'
        <5> SUFFICES ASSUME calm' PROVE NoGaps'
          OBVIOUS
        <5>1. \A n \in Rows' : Filled(n)'
          BY <2>1, <3>6, Growing, <3>5 DEF CalmRows, NoGaps
        <5>2. (\A p \in Post : post[p].pc = "insert" => Filled(post[p].base))'
          <6> SUFFICES ASSUME NEW p \in Post, post'[p].pc = "insert"
                       PROVE  \A m \in Nat : m < post'[p].base => m \in Rows'
            BY DEF Filled
          <6>1. Filled(post[p].base)
            BY <2>1 DEF CalmRows, NoGaps
          <6> QED
            BY <2>1, <3>5, <6>1 DEF Filled
        <5> QED
          BY <3>1, <5>1, <5>2 DEF NoGaps
      <4> QED
        BY <2>1, <3>4, <4>3, <4>4 DEF CalmRows
    <3> QED
      BY <3>7, <3>8
  <2> QED
    BY <2>2, <2>3
<1>20. CASE \/ UNCHANGED vars
            \/ \E x \in Proc : HasEntries(x) \/ LockBackfill(x)
            \/ Delta
            \/ \E v \in Viewer : Open(v) \/ ViewerStep(v)
  <2>1. UNCHANGED <<log, calm, at, base, post, inbox>>
    BY <1>20 DEF vars, HasEntries, LockBackfill, Delta, Open, ViewerStep, List, TakeEntry, TakeOther, Beat, logged, pipe
  <2> QED
    BY <1>1, <2>1
<1> QED
  BY <1>3, <1>5, <1>6, <1>7, <1>8, <1>10, <1>11, <1>12, <1>13, <1>14, <1>15, <1>16, <1>17, <1>18, <1>19, <1>20
     DEF Next, PostStep, EnsureStep, InboxStep

-----------------------------------------------------------------------------
(* LogInv *)

\* The inductive invariant behind LogInv: types, prompts, and of each kind of entry
\* where its rows come from.
LogInd == LogTypes /\ Prompts /\ UserRows /\ HistoryRows /\ CalmRows /\ OneInterruptEntry

\* It holds at the start.
LEMMA LogIndInit == Init => LogInd
<1> SUFFICES ASSUME Init PROVE LogInd
  OBVIOUS
<1>1. LogTypes
  BY InitTypes
<1>2. Rows = {} /\ delivered = {} /\ sdkq = <<>> /\ turn = NULL /\ inbox = <<>> /\ at = "wait"
  BY DEF Init, Rows
<1>3. \A p \in Post : post[p].pc = "new"
  BY DEF Init, NewPost
<1>4. (\A x \in Proc : bf[x] = "none") /\ \A v \in Viewer : view[v].pc = "off"
  BY DEF Init, Closed
<1>5. Prompts
  BY <1>2 DEF Prompts
<1>6. UserRows
  BY <1>2, <1>3 DEF UserRows, RowsHavePosts, PostsHaveRows, DeliveredHaveRows, OneRowAKey, Written
<1>7. HistoryRows
  BY <1>2, <1>3, <1>4 DEF HistoryRows, HistoryInPlace, OneReader, Untouched
<1>8. CalmRows /\ OneInterruptEntry
  BY <1>2, <1>3 DEF CalmRows, NoGaps, InterruptAhead, OneInterruptEntry
<1> QED
  BY <1>1, <1>5, <1>6, <1>7, <1>8 DEF LogInd

\* Every step keeps it.
LEMMA LogIndStep == LogInd /\ [Next]_vars => LogInd'
BY TypesStep, PromptsStep, UserRowsStep, HistoryRowsStep, CalmRowsStep DEF LogInd

\* It is at least as strong as LogInv.
LEMMA LogIndImplies == LogInd => LogInv
<1> SUFFICES ASSUME LogInd PROVE LogInv
  OBVIOUS
<1>0. /\ RowTypes /\ PostTypes /\ SdkTypes /\ PipeTypes /\ ChanTypes /\ ViewTypes /\ FlagTypes
      /\ bf \in [Proc -> BfState]
  BY DEF LogInd, LogTypes
<1>1. TimelineTypeOK
  <2>1. Rows \subseteq Nat /\ \A n \in Rows : log[n] \in EntrySet
    BY <1>0 DEF RowTypes
  <2>2. \A p \in Post : post[p].pc \in Writing \cup {"new", "ensure", "accepted", "refused", "failed"}
    BY <1>0 DEF PostTypes, PostState, PostPc
  <2>3. \A v \in Viewer : Len(queue[v]) <= QueueMax /\ view[v].pc \in {"off", "cold", "list", "live"}
    BY <1>0 DEF ChanTypes, Chan, Short, ViewTypes, ViewState
  <2>4. \A v \in Viewer : v \in subs => view[v].pc \in {"list", "live"}
    BY <1>0 DEF ViewTypes
  <2>5. \A x \in Proc : bf[x] \in {"none", "lock", "read", "have"}
    BY <1>0 DEF BfState
  <2> QED
    BY <1>0, <2>1, <2>2, <2>3, <2>4, <2>5 DEF TimelineTypeOK, SdkTypes, PipeTypes, FlagTypes
<1>2. HistoryFirstAndOnce
  <2> SUFFICES ASSUME NEW n \in Rows, NEW m \in Rows, log[n].kind = "history", n # m
               PROVE  log[m] # log[n] /\ (log[m].kind = "history" \/ n < m)
    BY DEF HistoryFirstAndOnce
  <2>1. n \in Nat /\ m \in Nat /\ History \in Nat
    BY <1>0, NextIsNew, Constants
  <2>2. n < History /\ log[n].id = n + 1
    BY DEF LogInd, HistoryRows, HistoryInPlace
  <2>3. log[m].kind = "history" => log[m].id = m + 1
    BY DEF LogInd, HistoryRows, HistoryInPlace
  <2>4. log[m] # log[n]
    BY <2>1, <2>2, <2>3
  <2>5. ASSUME log[m].kind # "history"
        PROVE  n < m
    <3>1. HistoryWritten
      BY <2>1, <2>2 DEF LogInd, HistoryRows, Untouched
    <3>2. m \notin 0..History - 1
      BY <2>5, <3>1 DEF HistoryWritten
    <3> QED
      BY <2>1, <2>2, <3>2
  <2> QED
    BY <2>4, <2>5
<1>3. DeliveredOnce
  <2> SUFFICES ASSUME NEW p \in delivered, NEW q \in delivered, post[p].key = post[q].key
               PROVE  p = q
    BY DEF DeliveredOnce
  <2>1. PICK n \in Rows : RowOf(p, n)
    BY DEF LogInd, UserRows, DeliveredHaveRows
  <2>2. PICK m \in Rows : RowOf(q, m)
    BY DEF LogInd, UserRows, DeliveredHaveRows
  <2>3. log[n] = User(p) /\ log[m] = User(q)
    BY <2>1, <2>2 DEF RowOf
  <2>4. User(p).kind = "user" /\ User(q).kind = "user" /\ User(p).key = User(q).key
        /\ User(p).id = p /\ User(q).id = q
    BY DEF User
  <2>5. n = m
    BY <2>3, <2>4 DEF LogInd, UserRows, OneRowAKey
  <2> QED
    BY <2>3, <2>4, <2>5
<1> QED
  BY <1>1, <1>2, <1>3 DEF LogInv, LogInd

\* The log holds what was accepted: the history of an old session once and before
\* everything else, the prompt of an idempotency key delivered once however often it
\* is posted, and one entry for an interrupt that is echoed and ends its turn
\* (ensure_backfilled, append_user_entry, _append_interrupt_deduped).
THEOREM LogIsTrue == Spec => []LogInv
<1>1. Spec => []LogInd
  BY LogIndInit, LogIndStep, PTL DEF Spec
<1> QED
  BY <1>1, LogIndImplies, PTL

-----------------------------------------------------------------------------
(* Queues and what they hold *)

\* x is in the queue; an entry n is among the first k messages of q.
In(q, x) == \E i \in DOMAIN q : q[i] = x
Has(q, k, n) == \E j \in 1..k : q[j].t = "entry" /\ q[j].seq = n

\* m, an entry or the end of a turn, comes behind the row n.
ComesBehind(m, n) == \/ m.t \in {"entry", "complete"} /\ n < m.seq
                     \/ m.t = "complete" /\ n = m.seq

\* Of the rows S a reader of q with this cursor has been shown, or finds
\* further ahead, those an entry or the end of a turn comes behind.
Behind(q, S, last) ==
    \A i \in DOMAIN q : \A n \in S : ComesBehind(q[i], n) => n <= last \/ Has(q, i - 1, n)

\* A reader of q has been shown the row n or will find it.
Covers(q, n, last) == n <= last \/ Has(q, Len(q), n)

\* A queue that took m in holds m and what it held.
LEMMA TakenFrom ==
    ASSUME NEW q \in Seq(Notice), NEW m \in Notice, NEW r, TakesIn(q, r, m)
    PROVE  /\ r \in Seq(Notice)
           /\ \A i \in DOMAIN r : r[i] = m \/ In(q, r[i])
<1>1. r \in Seq(Notice)
  BY TakenIn
<1>2. ASSUME NEW e \in Seq(Notice), r = Append(e, m), NEW i \in DOMAIN r
      PROVE  r[i] = m \/ (i \in DOMAIN e /\ r[i] = e[i])
  <2>1. Len(e) \in Nat /\ DOMAIN e = 1..Len(e) /\ DOMAIN r = 1..Len(e) + 1 /\ r[Len(e) + 1] = m
        /\ \A j \in 1..Len(e) : r[j] = e[j]
    BY <1>2, AppendProperties
  <2>2. i = Len(e) + 1 \/ i \in 1..Len(e)
    BY <1>2, <2>1
  <2> QED
    BY <2>1, <2>2
<1>3. CASE r = Append(q, m)
  BY <1>1, <1>2, <1>3 DEF In
<1>4. CASE r = q
  BY <1>1, <1>4 DEF In
<1>5. ASSUME NEW k \in DOMAIN q, r = Append(RemoveAt(q, k), m)
      PROVE  \A i \in DOMAIN r : r[i] = m \/ In(q, r[i])
  <2> DEFINE e == RemoveAt(q, k)
  <2>1. /\ e \in Seq(Notice) /\ Len(e) = Len(q) - 1 /\ Len(q) \in Nat /\ k \in 1..Len(q)
        /\ \A i \in 1..Len(q) - 1 : e[i] = q[IF i < k THEN i ELSE i + 1]
    BY Removing
  <2> HIDE DEF e
  <2>2. \A i \in DOMAIN e : In(q, e[i])
    <3> SUFFICES ASSUME NEW i \in DOMAIN e PROVE In(q, e[i])
      OBVIOUS
    <3>1. i \in 1..Len(q) - 1
      BY <2>1
    <3>2. (IF i < k THEN i ELSE i + 1) \in DOMAIN q
      BY <2>1, <3>1
    <3> QED
      BY <2>1, <3>1, <3>2 DEF In
  <2>3. r = Append(e, m)
    BY <1>5 DEF e
  <2> QED
    BY <1>2, <2>1, <2>2, <2>3
<1> QED
  BY <1>1, <1>3, <1>4, <1>5 DEF TakesIn

\* A delta taken out, and a message appended, leave the order of the rows.
LEMMA BehindRemoved ==
    ASSUME NEW q \in Seq(Notice), NEW k \in DOMAIN q, q[k].t = "delta",
           NEW S \in SUBSET Nat, NEW last \in Nat \cup {-1}, Behind(q, S, last)
    PROVE  /\ Behind(RemoveAt(q, k), S, last)
           /\ \A n : Has(q, Len(q), n) => Has(RemoveAt(q, k), Len(RemoveAt(q, k)), n)
<1> DEFINE e == RemoveAt(q, k)
           place(i) == IF i < k THEN i ELSE i + 1
<1>1. /\ e \in Seq(Notice) /\ Len(e) = Len(q) - 1 /\ Len(q) \in Nat /\ k \in 1..Len(q)
      /\ \A i \in 1..Len(q) - 1 : e[i] = q[place(i)]
  BY Removing
<1>2. DOMAIN e = 1..Len(q) - 1 /\ DOMAIN q = 1..Len(q)
  BY <1>1
<1> HIDE DEF e
<1>3. ASSUME NEW i \in 1..Len(q), NEW n, Has(q, place(i) - 1, n)
      PROVE  Has(e, i - 1, n)
  <2>1. PICK j \in 1..place(i) - 1 : q[j].t = "entry" /\ q[j].seq = n
    BY <1>3 DEF Has
  <2>2. j # k /\ j \in Nat \ {0}
    BY <1>1, <2>1
  <2>3. CASE j < k
    <3>1. j \in 1..i - 1 /\ j \in 1..Len(q) - 1 /\ place(j) = j
      BY <1>1, <2>1, <2>2, <2>3
    <3> QED
      BY <1>1, <2>1, <3>1 DEF Has
  <2>4. CASE ~ (j < k)
    <3>1. j - 1 \in 1..i - 1 /\ j - 1 \in 1..Len(q) - 1 /\ place(j - 1) = j
      BY <1>1, <2>1, <2>2, <2>4
    <3> QED
      BY <1>1, <2>1, <3>1 DEF Has
  <2> QED
    BY <2>3, <2>4
<1>4. ASSUME NEW i \in DOMAIN e, NEW n \in S, ComesBehind(e[i], n)
      PROVE  n <= last \/ Has(e, i - 1, n)
  <2>1. i \in 1..Len(q) /\ i \in 1..Len(q) - 1 /\ place(i) \in DOMAIN q /\ e[i] = q[place(i)]
    BY <1>1, <1>2
  <2>2. n <= last \/ Has(q, place(i) - 1, n)
    BY <1>4, <2>1 DEF Behind
  <2> QED
    BY <1>3, <2>1, <2>2
<1>5. ASSUME NEW n, Has(q, Len(q), n)
      PROVE  Has(e, Len(e), n)
  <2>1. Len(q) \in 1..Len(q)
    BY <1>1
  <2>2. Has(q, place(Len(q)) - 1, n)
    <3>1. place(Len(q)) - 1 = Len(q)
      BY <1>1
    <3> QED
      BY <1>5, <3>1
  <2> QED
    BY <1>1, <1>3, <2>1, <2>2
<1> QED
  BY <1>4, <1>5 DEF Behind, e

\* A message may be appended once what it comes behind is covered.
LEMMA BehindAppended ==
    ASSUME NEW q \in Seq(Notice), NEW m \in Notice,
           NEW S \in SUBSET Nat, NEW last \in Nat \cup {-1}, Behind(q, S, last),
           \A n \in S : ComesBehind(m, n) => Covers(q, n, last)
    PROVE  /\ Behind(Append(q, m), S, last)
           /\ \A n : Has(q, Len(q), n) => Has(Append(q, m), Len(q) + 1, n)
           /\ m.t = "entry" => Has(Append(q, m), Len(q) + 1, m.seq)
<1> DEFINE r == Append(q, m)
<1>1. Len(q) \in Nat /\ DOMAIN r = 1..Len(q) + 1 /\ r[Len(q) + 1] = m /\ \A j \in 1..Len(q) : r[j] = q[j]
  BY AppendProperties
<1> HIDE DEF r
<1>2. ASSUME NEW k \in 0..Len(q), NEW n, Has(q, k, n)
      PROVE  Has(r, k, n)
  <2>1. PICK j \in 1..k : q[j].t = "entry" /\ q[j].seq = n
    BY <1>2 DEF Has
  <2>2. j \in 1..Len(q)
    BY <1>1
  <2> QED
    BY <1>1, <2>1, <2>2 DEF Has
<1>3. ASSUME NEW i \in DOMAIN r, NEW n \in S, ComesBehind(r[i], n)
      PROVE  n <= last \/ Has(r, i - 1, n)
  <2>1. CASE i = Len(q) + 1
    <3>1. n <= last \/ Has(q, Len(q), n)
      BY <1>1, <1>3, <2>1 DEF Covers
    <3>2. Len(q) \in 0..Len(q) /\ i - 1 = Len(q)
      BY <1>1, <2>1
    <3> QED
      BY <1>2, <3>1, <3>2
  <2>2. CASE i \in 1..Len(q)
    <3>1. n <= last \/ Has(q, i - 1, n)
      BY <1>1, <1>3, <2>2 DEF Behind
    <3>2. i - 1 \in 0..Len(q)
      BY <1>1, <2>2
    <3> QED
      BY <1>2, <3>1, <3>2
  <2>3. i = Len(q) + 1 \/ i \in 1..Len(q)
    BY <1>1
  <2> QED
    BY <2>1, <2>2, <2>3
<1>4. ASSUME NEW n, Has(q, Len(q), n)
      PROVE  Has(r, Len(q) + 1, n)
  <2>1. PICK j \in 1..Len(q) : q[j].t = "entry" /\ q[j].seq = n
    BY <1>4 DEF Has
  <2>2. j \in 1..Len(q) + 1
    BY <1>1
  <2> QED
    BY <1>1, <2>1, <2>2 DEF Has
<1>5. m.t = "entry" => Has(r, Len(q) + 1, m.seq)
  <2>1. Len(q) + 1 \in 1..Len(q) + 1
    BY <1>1
  <2> QED
    BY <1>1, <2>1 DEF Has
<1> QED
  BY <1>3, <1>4, <1>5 DEF Behind, r

\* A queue that takes in m.
LEMMA BehindTaken ==
    ASSUME NEW q \in Seq(Notice), NEW m \in Notice, NEW r, TakesIn(q, r, m),
           NEW S \in SUBSET Nat, NEW last \in Nat \cup {-1}, Behind(q, S, last),
           \A n \in S : ComesBehind(m, n) => Covers(q, n, last)
    PROVE  /\ Behind(r, S, last)
           /\ \A n : Has(q, Len(q), n) => Has(r, Len(r), n)
           /\ m.t = "entry" => Has(r, Len(r), m.seq)
<1>1. ASSUME NEW e \in Seq(Notice), Behind(e, S, last), r = Append(e, m),
             \A n : Has(q, Len(q), n) => Has(e, Len(e), n)
      PROVE  /\ Behind(r, S, last)
             /\ \A n : Has(q, Len(q), n) => Has(r, Len(r), n)
             /\ m.t = "entry" => Has(r, Len(r), m.seq)
  <2>1. \A n \in S : ComesBehind(m, n) => Covers(e, n, last)
    BY <1>1 DEF Covers
  <2>2. Len(r) = Len(e) + 1
    BY <1>1, AppendProperties
  <2>3. /\ Behind(Append(e, m), S, last)
        /\ \A n : Has(e, Len(e), n) => Has(Append(e, m), Len(e) + 1, n)
        /\ m.t = "entry" => Has(Append(e, m), Len(e) + 1, m.seq)
    BY <1>1, <2>1, BehindAppended
  <2> QED
    BY <1>1, <2>2, <2>3
<1>2. CASE r = Append(q, m)
  BY <1>1, <1>2
<1>3. CASE r = q /\ m.t = "delta"
  BY <1>3
<1>4. ASSUME NEW k \in DOMAIN q, q[k].t = "delta", r = Append(RemoveAt(q, k), m)
      PROVE  /\ Behind(r, S, last)
             /\ \A n : Has(q, Len(q), n) => Has(r, Len(r), n)
             /\ m.t = "entry" => Has(r, Len(r), m.seq)
  <2>1. /\ Behind(RemoveAt(q, k), S, last)
        /\ \A n : Has(q, Len(q), n) => Has(RemoveAt(q, k), Len(RemoveAt(q, k)), n)
    BY <1>4, BehindRemoved
  <2>2. RemoveAt(q, k) \in Seq(Notice)
    BY Removing
  <2> QED
    BY <1>1, <1>4, <2>1, <2>2
<1> QED
  BY <1>2, <1>3, <1>4 DEF TakesIn

\* The head has been read; the cursor is at it or beyond.
LEMMA BehindTail ==
    ASSUME NEW q \in Seq(Notice), q # <<>>, NEW S \in SUBSET Nat,
           NEW last \in Nat \cup {-1}, NEW new \in Nat \cup {-1}, last <= new, Behind(q, S, last),
           Head(q).t = "entry" => Head(q).seq <= new
    PROVE  /\ Behind(Tail(q), S, new)
           /\ \A n \in S : Covers(q, n, last) => Covers(Tail(q), n, new)
<1> DEFINE r == Tail(q)
<1>1. /\ Len(q) \in Nat \ {0} /\ DOMAIN q = 1..Len(q) /\ DOMAIN r = 1..Len(q) - 1 /\ Len(r) = Len(q) - 1
      /\ Head(q) = q[1] /\ \A i \in 1..Len(q) - 1 : r[i] = q[i + 1]
  BY HeadTailProperties, EmptySeq
<1> HIDE DEF r
<1>2. ASSUME NEW i \in 0..Len(q) - 1, NEW n \in S, n <= last \/ Has(q, i + 1, n)
      PROVE  n <= new \/ Has(r, i, n)
  <2>1. CASE n <= last
    BY <2>1
  <2>2. CASE Has(q, i + 1, n)
    <3>1. PICK j \in 1..i + 1 : q[j].t = "entry" /\ q[j].seq = n
      BY <2>2 DEF Has
    <3>2. CASE j = 1
      BY <1>1, <3>1, <3>2
    <3>3. CASE j # 1
      <4>1. j - 1 \in 1..i /\ j - 1 \in 1..Len(q) - 1 /\ (j - 1) + 1 = j
        BY <1>1, <3>1, <3>3
      <4> QED
        BY <1>1, <3>1, <4>1 DEF Has
    <3> QED
      BY <3>2, <3>3
  <2> QED
    BY <1>2, <2>1, <2>2
<1>3. ASSUME NEW i \in DOMAIN r, NEW n \in S, ComesBehind(r[i], n)
      PROVE  n <= new \/ Has(r, i - 1, n)
  <2>1. i + 1 \in DOMAIN q /\ r[i] = q[i + 1] /\ i - 1 \in 0..Len(q) - 1 /\ (i + 1) - 1 = (i - 1) + 1
    BY <1>1
  <2>2. n <= last \/ Has(q, (i - 1) + 1, n)
    BY <1>3, <2>1 DEF Behind
  <2> QED
    BY <1>2, <2>1, <2>2
<1>4. ASSUME NEW n \in S, Covers(q, n, last)
      PROVE  Covers(r, n, new)
  <2>1. Len(q) - 1 \in 0..Len(q) - 1 /\ (Len(q) - 1) + 1 = Len(q)
    BY <1>1
  <2> QED
    BY <1>1, <1>2, <1>4, <2>1 DEF Covers
<1> QED
  BY <1>3, <1>4 DEF Behind, r

-----------------------------------------------------------------------------
(* What has been shown, or is about to be *)

\* A line, that is a number with an entry, is known when it is in the log, in a
\* queue, or has been shown.
Queued(v, r) == In(queue[v], Shown(r.seq, r.entry))
Logged(r) == r.seq \in Rows /\ r.entry = log[r.seq]
Known(r) == Logged(r) \/ \E v \in Viewer : Queued(v, r) \/ In(view[v].seen, r)

\* A post that has had a row never gets a second one.
Spent == Written \cup {"accepted", "failed"}

\* Of what is known no entry has two numbers (but interrupts, which are all alike).
OnePlace ==
    \A r, s \in Line : Known(r) /\ Known(s) /\ r.entry = s.entry => r.seq = s.seq \/ r.entry.kind = "interrupt"

\* A known user entry is that of a post that has had its row.
UsersSpent == \A r \in Line : Known(r) /\ r.entry.kind = "user" => post[r.entry.id].pc \in Spent

\* A known history entry is in its place.
HistoryPlaced == \A r \in Line : Known(r) /\ r.entry.kind = "history" => r.seq = r.entry.id - 1

\* A known assistant message has left the inbox, and the SDK numbers them.
Later(id) == \A i \in DOMAIN inbox : inbox[i].t = "message" => id < inbox[i].id
MessagesSpent ==
    \A r \in Line : Known(r) /\ r.entry.kind = "assistant" => r.entry.id <= made /\ Later(r.entry.id)

\* The messages in the inbox are in the order they were made.
MadeInOrder ==
    /\ \A i \in DOMAIN inbox : inbox[i].t = "message" => inbox[i].id <= made
    /\ \A i, j \in DOMAIN inbox : inbox[i].t = "message" /\ inbox[j].t = "message" /\ i < j
            => inbox[i].id < inbox[j].id

\* Together they say that a number a client has seen for an entry is its number.
KnownInv == OnePlace /\ UsersSpent /\ HistoryPlaced /\ MessagesSpent /\ MadeInOrder

\* A step after which nothing is known but what was, and N.
OnlyNew(N) == \A r \in Line : Known(r)' => Known(r) \/ r \in N

\* N fits in with what is known.
Fits(N) ==
    /\ \A r \in N : \A s \in Line : (Known(s) \/ s \in N) /\ r.entry = s.entry
                                    => r.seq = s.seq \/ r.entry.kind = "interrupt"
    /\ \A r \in N : r.entry.kind = "user" => post'[r.entry.id].pc \in Spent
    /\ \A r \in N : r.entry.kind = "history" => r.seq = r.entry.id - 1
    /\ \A r \in N : r.entry.kind = "assistant" => r.entry.id <= made' /\ Later(r.entry.id)'

\* The posts and the messages of the SDK go on.
PostsGoOn == \A p \in Post : post[p].pc \in Spent => post'[p].pc \in Spent
InboxGoesOn ==
    /\ made <= made'
    /\ \A i \in DOMAIN inbox' : inbox'[i].t = "message" => In(inbox, inbox'[i]) \/ inbox'[i].id > made
GoesOn == PostsGoOn /\ InboxGoesOn

\* What the fields of a line may be.
LEMMA EntryFields ==
    ASSUME NEW r \in Line
    PROVE  /\ r.seq \in Nat /\ r.entry \in EntrySet /\ r = [seq |-> r.seq, entry |-> r.entry]
           /\ r.entry.kind = "user" => r.entry.id \in Post
           /\ r.entry.kind = "assistant" => r.entry.id \in 1..MaxMessages
           /\ r.entry.kind = "history" => r.entry.id \in 1..History
<1>1. r.seq \in Nat /\ r.entry \in EntrySet /\ r = [seq |-> r.seq, entry |-> r.entry]
  BY DEF Line
<1>2. PICK e : e = r.entry
  OBVIOUS
<1>3. /\ e.kind = "user" => e.id \in Post
      /\ e.kind = "assistant" => e.id \in 1..MaxMessages
      /\ e.kind = "history" => e.id \in 1..History
  BY <1>1, <1>2 DEF EntrySet, Interrupt
<1> QED
  BY <1>1, <1>2, <1>3

\* If only lines that fit become known, KnownInv stays.
LEMMA KnownGrows ==
    ASSUME KnownInv, NEW N \in SUBSET Line, OnlyNew(N), Fits(N), GoesOn, MadeInOrder',
           SdkTypes, SdkTypes', PipeTypes'
    PROVE  KnownInv'
<1>1. OnePlace'
  <2> SUFFICES ASSUME NEW r \in Line, NEW s \in Line, Known(r)', Known(s)', r.entry = s.entry
               PROVE  r.seq = s.seq \/ r.entry.kind = "interrupt"
    BY DEF OnePlace
  <2>1. (Known(r) \/ r \in N) /\ (Known(s) \/ s \in N)
    BY DEF OnlyNew
  <2>2. CASE r \in N
    BY <2>1, <2>2 DEF Fits
  <2>3. CASE s \in N
    <3>1. s.seq = r.seq \/ s.entry.kind = "interrupt"
      BY <2>1, <2>3 DEF Fits
    <3> QED
      BY <3>1
  <2>4. CASE Known(r) /\ Known(s)
    BY <2>4 DEF KnownInv, OnePlace
  <2> QED
    BY <2>1, <2>2, <2>3, <2>4
<1>2. UsersSpent'
  <2> SUFFICES ASSUME NEW r \in Line, Known(r)', r.entry.kind = "user"
               PROVE  post'[r.entry.id].pc \in Spent
    BY DEF UsersSpent
  <2>1. r.entry.id \in Post
    BY EntryFields
  <2>2. CASE r \in N
    BY <2>2 DEF Fits
  <2>3. CASE Known(r)
    BY <2>1, <2>3 DEF KnownInv, UsersSpent, GoesOn, PostsGoOn
  <2> QED
    BY <2>2, <2>3 DEF OnlyNew
<1>3. HistoryPlaced'
  BY DEF OnlyNew, Fits, KnownInv, HistoryPlaced
<1>4. MessagesSpent'
  <2> SUFFICES ASSUME NEW r \in Line, Known(r)', r.entry.kind = "assistant"
               PROVE  r.entry.id <= made' /\ Later(r.entry.id)'
    BY DEF MessagesSpent, Later
  <2>1. r.entry.id \in Int /\ made \in Int /\ made' \in Int
    BY EntryFields, Constants DEF SdkTypes
  <2>2. CASE r \in N
    BY <2>2 DEF Fits
  <2>3. CASE Known(r)
    <3>1. r.entry.id <= made /\ Later(r.entry.id)
      BY <2>3 DEF KnownInv, MessagesSpent
    <3>2. ASSUME NEW i \in DOMAIN inbox', inbox'[i].t = "message"
          PROVE  r.entry.id < inbox'[i].id
      <4>1. CASE In(inbox, inbox'[i])
        BY <3>1, <3>2, <4>1 DEF In, Later
      <4>2. CASE inbox'[i].id > made
        <5>1. inbox'[i] \in Item
          BY DEF PipeTypes
        <5>2. inbox'[i].id \in Int
          BY <3>2, <5>1, Constants DEF Item
        <5> QED
          BY <2>1, <3>1, <4>2, <5>2
      <4> QED
        BY <3>2, <4>1, <4>2 DEF GoesOn, InboxGoesOn
    <3>3. r.entry.id <= made'
      BY <2>1, <3>1 DEF GoesOn, InboxGoesOn
    <3> QED
      BY <3>2, <3>3 DEF Later
  <2> QED
    BY <2>2, <2>3 DEF OnlyNew
<1> QED
  BY <1>1, <1>2, <1>3, <1>4 DEF KnownInv

\* A row, a queue, a stream: where something becomes known.
NewRows(N) == \A n \in Rows' : \/ n \in Rows /\ log'[n] = log[n]
                               \/ [seq |-> n, entry |-> log'[n]] \in N

\* Queues hold what they held, what is known, and N.
NewQueued(N) ==
    \A v \in Viewer : \A i \in DOMAIN queue'[v] : queue'[v][i].t = "entry" =>
        \/ In(queue[v], queue'[v][i])
        \/ \E r \in Line : queue'[v][i] = Shown(r.seq, r.entry) /\ (Known(r) \/ r \in N)

\* Streams show what they showed and what was known.
NewSeen ==
    \A v \in Viewer : \A i \in DOMAIN view'[v].seen :
        In(view[v].seen, view'[v].seen[i]) \/ Known(view'[v].seen[i])

\* These are all the places a line can become known.
LEMMA KnownSources ==
    ASSUME NEW N \in SUBSET Line, NewRows(N), NewQueued(N), NewSeen
    PROVE  OnlyNew(N)
<1> SUFFICES ASSUME NEW r \in Line, Known(r)'
             PROVE  Known(r) \/ r \in N
  BY DEF OnlyNew
<1>0. r = [seq |-> r.seq, entry |-> r.entry]
  BY EntryFields
<1>1. CASE Logged(r)'
  <2>1. r.seq \in Rows' /\ r.entry = log'[r.seq]
    BY <1>1 DEF Logged
  <2>2. CASE r.seq \in Rows /\ log'[r.seq] = log[r.seq]
    BY <2>1, <2>2 DEF Known, Logged
  <2>3. CASE [seq |-> r.seq, entry |-> log'[r.seq]] \in N
    BY <1>0, <2>1, <2>3
  <2> QED
    BY <2>1, <2>2, <2>3 DEF NewRows
<1>2. ASSUME NEW v \in Viewer, Queued(v, r)'
      PROVE  Known(r) \/ r \in N
  <2>1. PICK i \in DOMAIN queue'[v] : queue'[v][i] = Shown(r.seq, r.entry)
    BY <1>2 DEF Queued, In, Shown
  <2>2. queue'[v][i].t = "entry"
    BY <2>1 DEF Shown
  <2>3. CASE In(queue[v], queue'[v][i])
    BY <2>1, <2>3 DEF Known, Queued
  <2>4. ASSUME NEW s \in Line, queue'[v][i] = Shown(s.seq, s.entry), Known(s) \/ s \in N
        PROVE  Known(r) \/ r \in N
    <3>1. s.seq = r.seq /\ s.entry = r.entry
      BY <2>1, <2>4 DEF Shown
    <3>2. s = r
      BY <1>0, <3>1, EntryFields
    <3> QED
      BY <2>4, <3>2
  <2> QED
    BY <2>2, <2>3, <2>4 DEF NewQueued
<1>3. ASSUME NEW v \in Viewer, In(view'[v].seen, r)
      PROVE  Known(r)
  <2>1. PICK i \in DOMAIN view'[v].seen : view'[v].seen[i] = r
    BY <1>3 DEF In
  <2>2. In(view[v].seen, r) \/ Known(r)
    BY <2>1 DEF NewSeen
  <2> QED
    BY <2>2 DEF Known
<1> QED
  BY <1>1, <1>2, <1>3 DEF Known

\* A step that shows nothing shows nothing new.
LEMMA SameSeen ==
    ASSUME ViewTypes, \A v \in Viewer : view'[v].seen = view[v].seen
    PROVE  NewSeen
BY DEF NewSeen, In

\* The queues after a broadcast of m.
LEMMA SentQueued ==
    ASSUME NEW c \in Channels, NEW d \in Channels, NEW m \in Notice, SentTo(c, d, m), NEW v \in Viewer, NEW i \in DOMAIN d.queue[v]
    PROVE  d.queue[v][i] = m \/ d.queue[v][i] = Eos \/ In(c.queue[v], d.queue[v][i])
<1>1. c.queue[v] \in Seq(Notice)
  BY DEF Channels
<1>2. CASE v \notin c.subs
  BY <1>2 DEF SentTo, In
<1>3. CASE v \in c.subs /\ v \in d.subs
  <2>1. TakesIn(c.queue[v], d.queue[v], m)
    BY <1>3 DEF SentTo
  <2> QED
    BY <1>1, <2>1, TakenFrom
<1>4. CASE v \in c.subs /\ v \notin d.subs
  <2>1. d.queue[v] = <<Eos>>
    BY <1>4 DEF SentTo
  <2> QED
    BY <2>1
<1> QED
  BY <1>2, <1>3, <1>4

\* A broadcast of a known line, or of one of N.
LEMMA BroadcastQueued ==
    ASSUME ChanTypes, ChanTypes', NEW m \in Notice, SentTo(Chan, Chan', m), NEW N,
           m.t = "entry" => \E r \in Line : m = Shown(r.seq, r.entry) /\ (Known(r) \/ r \in N)
    PROVE  NewQueued(N)
<1> SUFFICES ASSUME NEW v \in Viewer, NEW i \in DOMAIN queue'[v], queue'[v][i].t = "entry"
             PROVE  \/ In(queue[v], queue'[v][i])
                    \/ \E r \in Line : queue'[v][i] = Shown(r.seq, r.entry) /\ (Known(r) \/ r \in N)
  BY DEF NewQueued
<1>1. Chan \in Channels /\ Chan' \in Channels /\ Chan'.queue = queue' /\ Chan.queue = queue
  BY DEF ChanTypes, Chan
<1>2. queue'[v][i] = m \/ queue'[v][i] = Eos \/ In(queue[v], queue'[v][i])
  BY <1>1, SentQueued
<1>3. queue'[v][i] # Eos
  BY DEF Eos
<1> QED
  BY <1>2, <1>3

-----------------------------------------------------------------------------
(* Where the known grows and where it stays *)

\* The queues shrink, if anything.
LEMMA QueuesShrink ==
    ASSUME ChanTypes, NEW N,
           \A v \in Viewer : \/ queue'[v] = queue[v] \/ queue'[v] = <<>>
                             \/ queue[v] # <<>> /\ queue'[v] = Tail(queue[v])
    PROVE  NewQueued(N)
<1> SUFFICES ASSUME NEW v \in Viewer, NEW i \in DOMAIN queue'[v]
             PROVE  In(queue[v], queue'[v][i])
  BY DEF NewQueued
<1>1. CASE queue'[v] = queue[v]
  BY <1>1 DEF In
<1>2. CASE queue'[v] = <<>>
  BY <1>2
<1>3. CASE queue[v] # <<>> /\ queue'[v] = Tail(queue[v])
  <2>1. queue[v] \in Seq(Notice)
    BY DEF ChanTypes, Chan, Channels
  <2>2. /\ Len(queue[v]) \in Nat \ {0} /\ DOMAIN queue[v] = 1..Len(queue[v])
        /\ DOMAIN queue'[v] = 1..Len(queue[v]) - 1
        /\ \A j \in 1..Len(queue[v]) - 1 : queue'[v][j] = queue[v][j + 1]
    BY <1>3, <2>1, HeadTailProperties, EmptySeq
  <2>3. i + 1 \in DOMAIN queue[v] /\ queue'[v][i] = queue[v][i + 1]
    BY <2>2
  <2> QED
    BY <2>3 DEF In
<1> QED
  BY <1>1, <1>2, <1>3

\* The broadcasts for the head of the inbox.
LEMMA HandledQueued ==
    ASSUME ChanTypes, ChanTypes', NEW rows, NEW ms, NEW mid \in Channels, HandledAs(rows, ms, mid), NEW N,
           EndsTurn => TurnEnded(rows) \in Notice,
           ms = <<>> \/ \E r \in N : r \in Line /\ ms = <<Shown(r.seq, r.entry)>>
    PROVE  NewQueued(N)
<1> SUFFICES ASSUME NEW v \in Viewer, NEW i \in DOMAIN queue'[v], queue'[v][i].t = "entry"
             PROVE  \/ In(queue[v], queue'[v][i])
                    \/ \E r \in Line : queue'[v][i] = Shown(r.seq, r.entry) /\ r \in N
  BY DEF NewQueued
<1>1. Chan \in Channels /\ Chan' \in Channels /\ Chan'.queue = queue' /\ Chan.queue = queue
  BY DEF ChanTypes, Chan
<1>2. PICK x : x = queue'[v][i]
  OBVIOUS
<1>3. x # Eos
  BY <1>2 DEF Eos
<1>4. In(mid.queue[v], x)
  <2>1. CASE EndsTurn
    <3>1. SentTo(mid, Chan', TurnEnded(rows)) /\ TurnEnded(rows) \in Notice
      BY <2>1 DEF HandledAs
    <3>2. x = TurnEnded(rows) \/ x = Eos \/ In(mid.queue[v], x)
      BY <1>1, <1>2, <3>1, SentQueued
    <3>3. x # TurnEnded(rows)
      BY <1>2 DEF TurnEnded, Complete
    <3> QED
      BY <1>3, <3>2, <3>3
  <2>2. CASE ~ EndsTurn
    BY <1>1, <1>2, <2>2 DEF HandledAs, In
  <2> QED
    BY <2>1, <2>2
<1>5. CASE ms = <<>>
  BY <1>1, <1>2, <1>4, <1>5 DEF HandledAs
<1>6. ASSUME NEW r \in N, r \in Line, ms = <<Shown(r.seq, r.entry)>>
      PROVE  In(queue[v], x) \/ x = Shown(r.seq, r.entry)
  <2>1. Head(ms) = Shown(r.seq, r.entry) /\ ms # <<>>
    BY <1>6
  <2>2. SentTo(Chan, mid, Shown(r.seq, r.entry)) /\ Shown(r.seq, r.entry) \in Notice
    BY <1>6, <2>1, EntryTypes, EntryFields DEF HandledAs
  <2>3. PICK j \in DOMAIN mid.queue[v] : mid.queue[v][j] = x
    BY <1>4 DEF In
  <2>4. x = Shown(r.seq, r.entry) \/ x = Eos \/ In(queue[v], x)
    BY <1>1, <2>2, <2>3, SentQueued
  <2> QED
    BY <1>3, <2>4
<1> QED
  BY <1>2, <1>5, <1>6

\* The inbox after the end of a turn.
LEMMA EndedInbox ==
    ASSUME PipeTypes, EndTurn
    PROVE  /\ inbox' \in Seq(Item) /\ Len(inbox') \in Nat /\ Len(inbox) \in Nat /\ Len(inbox') > Len(inbox)
           /\ \A i \in 1..Len(inbox) : inbox'[i] = inbox[i]
           /\ \A i \in Len(inbox) + 1..Len(inbox') - 1 : inbox'[i].t = "echo"
           /\ inbox'[Len(inbox')].t \in {"interrupted", "completed"}
<1>1. PICK echo, interrupted \in BOOLEAN :
         inbox' = inbox \o (IF echo THEN <<[t |-> "echo"]>> ELSE <<>>)
                        \o <<[t |-> IF interrupted THEN "interrupted" ELSE "completed"]>>
  BY DEF EndTurn
<1> DEFINE a == IF echo THEN <<[t |-> "echo"]>> ELSE <<>>
           e == [t |-> IF interrupted THEN "interrupted" ELSE "completed"]
           z == <<e>>
           l == Len(inbox)
           k == Len(a)
<1>2. a \in Seq(Item) /\ k \in {0, 1} /\ \A i \in 1..k : a[i].t = "echo"
  <2>1. [t |-> "echo"] \in Item
    BY DEF Item
  <2>2. CASE echo
    BY <2>1, <2>2
  <2>3. CASE ~ echo
    BY <2>3
  <2> QED
    BY <2>2, <2>3
<1>3. z \in Seq(Item) /\ Len(z) = 1 /\ z[1].t \in {"interrupted", "completed"}
  <2>1. e \in Item /\ e.t \in {"interrupted", "completed"}
    BY DEF Item
  <2> HIDE DEF e
  <2> QED
    BY <2>1
<1>4. inbox \in Seq(Item) /\ l \in Nat
  BY DEF PipeTypes
<1>5. inbox' = (inbox \o a) \o z
  BY <1>1
<1> HIDE DEF a, z
<1>6. /\ inbox \o a \in Seq(Item) /\ Len(inbox \o a) = l + k
      /\ \A i \in 1..l + k : (inbox \o a)[i] = IF i <= l THEN inbox[i] ELSE a[i - l]
  BY <1>2, <1>4, ConcatProperties
<1>7. /\ inbox' \in Seq(Item) /\ Len(inbox') = l + k + 1
      /\ \A i \in 1..l + k + 1 : inbox'[i] = IF i <= l + k THEN (inbox \o a)[i] ELSE z[i - (l + k)]
  <2>1. PICK w : w = inbox \o a
    OBVIOUS
  <2>2. w \in Seq(Item) /\ Len(w) = l + k
    BY <1>6, <2>1
  <2>3. /\ w \o z \in Seq(Item) /\ Len(w \o z) = Len(w) + Len(z)
        /\ \A i \in 1..Len(w) + Len(z) : (w \o z)[i] = IF i <= Len(w) THEN w[i] ELSE z[i - Len(w)]
    <3>1. \A x, y \in Seq(Item) :
             /\ x \o y \in Seq(Item) /\ Len(x \o y) = Len(x) + Len(y)
             /\ \A i \in 1..Len(x) + Len(y) : (x \o y)[i] = IF i <= Len(x) THEN x[i] ELSE y[i - Len(x)]
      BY ConcatProperties
    <3>2. w \in Seq(Item) /\ z \in Seq(Item)
      BY <1>3, <2>2
    <3> QED
      BY <3>1, <3>2, Zenon
  <2>4. inbox' = w \o z /\ Len(w) + Len(z) = l + k + 1
    BY <1>2, <1>3, <1>4, <1>5, <2>1, <2>2
  <2>5. /\ inbox' \in Seq(Item) /\ Len(inbox') = l + k + 1
        /\ \A i \in 1..l + k + 1 : inbox'[i] = IF i <= l + k THEN w[i] ELSE z[i - (l + k)]
    BY <2>2, <2>3, <2>4
  <2> QED
    BY <2>1, <2>5
<1> HIDE DEF l, k
<1>8. \A i \in 1..l : inbox'[i] = inbox[i]
  <2> TAKE i \in 1..l
  <2>1. i \in 1..l + k /\ i \in 1..l + k + 1 /\ i <= l + k /\ i <= l
    BY <1>2, <1>4
  <2> QED
    BY <1>6, <1>7, <2>1
<1>9. \A i \in l + 1..l + k : inbox'[i].t = "echo"
  <2> TAKE i \in l + 1..l + k
  <2>1. i \in 1..l + k /\ i \in 1..l + k + 1 /\ i <= l + k /\ ~ (i <= l) /\ i - l \in 1..k
    BY <1>2, <1>4
  <2> QED
    BY <1>2, <1>6, <1>7, <2>1
<1>10. inbox'[l + k + 1] = z[1]
  <2>1. l + k + 1 \in 1..l + k + 1 /\ ~ (l + k + 1 <= l + k) /\ (l + k + 1) - (l + k) = 1
    BY <1>2, <1>4
  <2> QED
    BY <1>7, <2>1
<1>11. Len(inbox) = l /\ Len(inbox') \in Nat /\ Len(inbox') > l /\ Len(inbox') - 1 = l + k
  BY <1>2, <1>4, <1>7 DEF l
<1> QED
  BY <1>3, <1>4, <1>7, <1>8, <1>9, <1>10, <1>11

-----------------------------------------------------------------------------

\* Nothing becomes known.
LEMMA KnownStays ==
    ASSUME KnownInv, LogTypes, LogTypes', NewRows({}), NewQueued({}), NewSeen, PostsGoOn, InboxGoesOn, MadeInOrder'
    PROVE  KnownInv'
<1>1. OnlyNew({})
  BY KnownSources
<1>2. Fits({})
  BY DEF Fits
<1>3. {} \in SUBSET Line
  OBVIOUS
<1> QED
  BY <1>1, <1>2, <1>3, KnownGrows DEF LogTypes, GoesOn

\* The inbox and the SDK as they were.
LEMMA SamePipe ==
    ASSUME KnownInv, LogTypes, UNCHANGED <<made, inbox>>
    PROVE  InboxGoesOn /\ MadeInOrder'
<1>1. made <= made'
  BY Constants DEF LogTypes, SdkTypes
<1> QED
  BY <1>1 DEF InboxGoesOn, In, KnownInv, MadeInOrder

\* The head of the inbox is gone.
LEMMA TailOfInbox ==
    ASSUME KnownInv, LogTypes, made' = made, inbox # <<>>, inbox' = Tail(inbox)
    PROVE  InboxGoesOn /\ MadeInOrder'
<1>1. /\ Len(inbox) \in Nat \ {0} /\ DOMAIN inbox = 1..Len(inbox) /\ DOMAIN inbox' = 1..Len(inbox) - 1
      /\ \A i \in 1..Len(inbox) - 1 : inbox'[i] = inbox[i + 1]
  BY HeadTypes DEF LogTypes, PipeTypes
<1>2. \A i \in DOMAIN inbox' : i \in Int /\ i + 1 \in DOMAIN inbox /\ inbox'[i] = inbox[i + 1]
  BY <1>1
<1>3. made <= made'
  BY Constants DEF LogTypes, SdkTypes
<1>4. \A i, j \in DOMAIN inbox' : i < j => i + 1 < j + 1
  BY <1>1
<1>5. InboxGoesOn
  BY <1>2, <1>3 DEF InboxGoesOn, In
<1>6. \A i \in DOMAIN inbox' : inbox'[i].t = "message" => inbox'[i].id <= made'
  BY <1>2 DEF KnownInv, MadeInOrder
<1>7. \A i, j \in DOMAIN inbox' : inbox'[i].t = "message" /\ inbox'[j].t = "message" /\ i < j
            => inbox'[i].id < inbox'[j].id
  BY <1>2, <1>4 DEF KnownInv, MadeInOrder
<1> QED
  BY <1>5, <1>6, <1>7 DEF MadeInOrder

\* One post moves on.
LEMMA PostGoesOn ==
    ASSUME PostTypes, NEW p \in Post, NEW r, post' = [post EXCEPT ![p] = r], post[p].pc \in Spent => r.pc \in Spent
    PROVE  PostsGoOn
BY DEF PostTypes, PostsGoOn

\* Every step keeps KnownInv.
LEMMA KnownStep ==
    ASSUME LogInd, LogInd', KnownInv, [Next]_vars
    PROVE  KnownInv'
<1>0. /\ LogTypes /\ LogTypes' /\ RowTypes /\ PostTypes /\ SdkTypes /\ PipeTypes /\ ChanTypes /\ ViewTypes
      /\ ChanTypes' /\ RowTypes' /\ SdkTypes' /\ PipeTypes'
  BY DEF LogInd, LogTypes
<1>1. ASSUME UNCHANGED <<log, made, inbox, queue>>, PostsGoOn, NewSeen
      PROVE  KnownInv'
  <2>1. NewRows({})
    BY <1>1 DEF NewRows, Rows
  <2>2. NewQueued({})
    BY <1>0, <1>1, QueuesShrink
  <2> QED
    BY <1>0, <1>1, <2>1, <2>2, KnownStays, SamePipe
<1>2. ASSUME post' = post
      PROVE  PostsGoOn
  BY <1>2 DEF PostsGoOn
<1>3. ASSUME view' = view
      PROVE  NewSeen
  BY <1>0, <1>3, SameSeen
<1>4. ASSUME NEW p \in Post, post[p].pc \notin Spent, NEW r, post' = [post EXCEPT ![p] = r]
      PROVE  PostsGoOn
  BY <1>0, <1>4, PostGoesOn
<1>5. ASSUME NEW p \in Post, NEW pc, Goto(p, pc) \/ Leaves(p, pc), post[p].pc \in Spent => pc \in Spent
      PROVE  PostsGoOn
  <2>1. PICK r : post' = [post EXCEPT ![p] = r] /\ r.pc = pc
    BY <1>0, <1>5 DEF Goto, Leaves, PostTypes, PostState
  <2> QED
    BY <1>0, <1>5, <2>1, PostGoesOn
<1>6. ASSUME NEW p \in Post, NEW k \in Post, Arrive(p, k)
      PROVE  KnownInv'
  <2>1. /\ post' = [post EXCEPT ![p] = [@ EXCEPT !.pc = "ensure", !.key = k]] /\ post[p].pc = "new"
        /\ UNCHANGED <<log, made, inbox, queue, view>>
    BY <1>0, <1>6 DEF Arrive, PostTypes, logged, sdk, pipe, channel
  <2>2. PostsGoOn
    BY <1>4, <2>1 DEF Spent, Written
  <2> QED
    BY <1>1, <1>3, <2>1, <2>2
<1>7. ASSUME NEW p \in Post, Precheck(p)
      PROVE  KnownInv'
  <2>1. UNCHANGED <<log, made, inbox, queue, view>> /\ post[p].pc = "ensure"
    BY <1>7 DEF Precheck, sdk, pipe, channel
  <2>2. \E pc \in {"accepted", "refused", "select"} : Goto(p, pc)
    BY <1>7 DEF Precheck
  <2>3. PostsGoOn
    BY <1>5, <2>1, <2>2 DEF Spent, Written
  <2> QED
    BY <1>1, <1>3, <2>1, <2>3
<1>8. ASSUME NEW p \in Post, SelectNextForUser(p)
      PROVE  KnownInv'
  <2>1. UNCHANGED <<log, made, inbox, queue, view>> /\ post[p].pc = "select"
    BY <1>8 DEF SelectNextForUser, sdk, pipe, channel, logged
  <2>2. \E r : post' = [post EXCEPT ![p] = r]
    BY <1>0, <1>8 DEF SelectNextForUser, PostTypes
  <2>3. PostsGoOn
    BY <1>4, <2>1, <2>2 DEF Spent, Written
  <2> QED
    BY <1>1, <1>3, <2>1, <2>3
<1>9. ASSUME NEW p \in Post, InsertUser(p)
      PROVE  KnownInv'
  <2>1. UNCHANGED <<made, inbox, queue, view>> /\ post[p].pc = "insert"
    BY <1>9 DEF InsertUser, sdk, pipe, channel
  <2>2. CASE \E pc \in {"accepted", "select"} : Leaves(p, pc) /\ log' = log
    <3>1. PostsGoOn
      BY <1>5, <2>1, <2>2 DEF Spent, Written
    <3> QED
      BY <1>1, <1>3, <2>1, <2>2, <3>1
  <2>3. CASE /\ post[p].base \notin Rows
             /\ log' = With(post[p].base, User(p))
             /\ post' = [post EXCEPT ![p].pc = "mark", ![p].base = 0, ![p].seq = post[p].base]
    <3> DEFINE q == [post[p] EXCEPT !.pc = "mark", !.base = 0, !.seq = post[p].base]
    <3>1. post' = [post EXCEPT ![p] = q] /\ q.pc = "mark"
      BY <1>0, <2>3 DEF PostTypes, PostState
    <3> HIDE DEF q
    <3>2. PostsGoOn /\ post'[p].pc \in Spent
      BY <1>0, <2>1, <3>1, PostGoesOn DEF PostTypes, Spent, Written
    <3>3. post[p].base \in Nat /\ User(p) \in EntrySet
      BY <1>0, <2>1, UserTypes DEF PostTypes, PostState
    <3>4. PICK n \in Nat : n = post[p].base
      BY <3>3
    <3>5. PICK new : new = [seq |-> n, entry |-> User(p)]
      OBVIOUS
    <3>6. new \in Line /\ new.seq = n /\ new.entry = User(p) /\ new.entry.kind = "user" /\ new.entry.id = p
      BY <3>3, <3>5 DEF Line, User
    <3>7. Rows' = Rows \cup {n} /\ log'[n] = User(p) /\ \A m \in Rows : m # n => log'[m] = log[m]
      BY <1>0, <2>3, <3>3, <3>4, Adding
    <3>8. NewRows({new})
      <4> HIDE DEF Rows
      <4> QED
        BY <2>3, <3>4, <3>5, <3>7 DEF NewRows
    <3>9. Fits({new})
      <4>1. ASSUME NEW s \in Line, Known(s), new.entry = s.entry
            PROVE  FALSE
        <5>1. post[p].pc \in Spent
          BY <3>6, <4>1 DEF KnownInv, UsersSpent
        <5> QED
          BY <2>1, <5>1 DEF Spent, Written
      <4> QED
        BY <3>2, <3>6, <4>1 DEF Fits
    <3>10. NewQueued({new}) /\ NewSeen
      BY <1>0, <1>3, <2>1, QueuesShrink
    <3>11. OnlyNew({new})
      BY <3>6, <3>8, <3>10, KnownSources
    <3>12. InboxGoesOn /\ MadeInOrder'
      BY <1>0, <2>1, SamePipe
    <3> QED
      BY <1>0, <3>2, <3>6, <3>9, <3>11, <3>12, KnownGrows DEF GoesOn
  <2> QED
    BY <1>9, <2>2, <2>3 DEF InsertUser
<1>10. ASSUME NEW p \in Post, Mark(p)
       PROVE  KnownInv'
  <2>1. UNCHANGED <<log, made, inbox, queue, view>> /\ Goto(p, "sent")
    BY <1>10 DEF Mark, logged, pipe, channel
  <2>2. PostsGoOn
    BY <1>5, <2>1 DEF Spent, Written
  <2> QED
    BY <1>1, <1>3, <2>1, <2>2
<1>11. ASSUME NEW p \in Post, Undo(p)
       PROVE  KnownInv'
  <2>1. UNCHANGED <<made, inbox, queue, view>> /\ Leaves(p, "failed")
    BY <1>11 DEF Undo, sdk, pipe, channel
  <2>2. PostsGoOn
    BY <1>5, <2>1 DEF Spent, Written
  <2>3. Rows' = Rows \ {post[p].seq} /\ \A m \in Rows : m # post[p].seq => log'[m] = log[m]
    BY <1>0, <1>11, Deleting DEF Undo
  <2>4. NewRows({})
    <3> HIDE DEF Rows
    <3> QED
      BY <2>3 DEF NewRows
  <2>5. NewQueued({}) /\ NewSeen
    BY <1>0, <1>3, <2>1, QueuesShrink
  <2> QED
    BY <1>0, <2>1, <2>2, <2>4, <2>5, KnownStays, SamePipe
<1>12. CASE Accept
  <2>1. PICK p : p = Head(sdkq)
    OBVIOUS
  <2>2. p \in Post /\ post[p].pc = "sent"
    BY <1>0, <1>12, <2>1 DEF Accept, SdkTypes, LogInd, Prompts
  <2>3. /\ Leaves(p, "accepted") /\ Broadcast(Shown(post[p].seq, User(p)))
        /\ UNCHANGED <<log, made, inbox, view>>
    BY <1>12, <2>1 DEF Accept, logged, pipe
  <2>4. PostsGoOn
    BY <1>5, <2>2, <2>3 DEF Spent, Written
  <2>5. post[p].seq \in Nat /\ User(p) \in EntrySet /\ RowOf(p, post[p].seq)
    BY <1>0, <2>2, UserTypes DEF PostTypes, PostState, LogInd, UserRows, PostsHaveRows, Written
  <2>6. PICK r : r = [seq |-> post[p].seq, entry |-> User(p)]
    OBVIOUS
  <2>7. r \in Line /\ Known(r) /\ Shown(post[p].seq, User(p)) = Shown(r.seq, r.entry)
    BY <2>5, <2>6 DEF Line, Known, Logged, RowOf
  <2>8. Shown(post[p].seq, User(p)) \in Notice
    BY <2>5, EntryTypes
  <2>9. SentTo(Chan, Chan', Shown(post[p].seq, User(p)))
    BY <1>0, <2>3, <2>8, Broadcasts
  <2>10. NewQueued({})
    BY <1>0, <2>7, <2>8, <2>9, BroadcastQueued
  <2>11. NewRows({})
    BY <2>3 DEF NewRows, Rows
  <2>12. NewSeen /\ InboxGoesOn /\ MadeInOrder'
    BY <1>0, <1>3, <2>3, SamePipe
  <2> QED
    BY <1>0, <2>4, <2>10, <2>11, <2>12, KnownStays
<1>13. ASSUME NEW m \in Notice, m.t # "entry", Broadcast(m), UNCHANGED <<log, view>>
       PROVE  NewQueued({}) /\ NewRows({}) /\ NewSeen
  <2>1. SentTo(Chan, Chan', m)
    BY <1>0, <1>13, Broadcasts
  <2>2. NewQueued({})
    BY <1>0, <1>13, <2>1, BroadcastQueued
  <2> QED
    BY <1>3, <1>13, <2>2 DEF NewRows, Rows
<1>14. CASE Message
  <2>1. /\ made' = made + 1 /\ Broadcast([t |-> "raw"]) /\ UNCHANGED <<log, view, post>>
        /\ inbox' = Append(inbox, [t |-> "message", id |-> made'])
    BY <1>14 DEF Message, logged
  <2>2. made \in Int /\ made <= made'
    BY <1>0, <2>1, Constants DEF SdkTypes
  <2>3. NewQueued({}) /\ NewRows({}) /\ NewSeen
    BY <1>13, <2>1, EntryTypes
  <2>4. /\ Len(inbox) \in Nat /\ DOMAIN inbox = 1..Len(inbox) /\ DOMAIN inbox' = 1..Len(inbox) + 1
        /\ inbox'[Len(inbox) + 1] = [t |-> "message", id |-> made']
        /\ \A i \in 1..Len(inbox) : inbox'[i] = inbox[i]
    <3>1. [t |-> "message", id |-> made'] \in Item
      <4>1. made' \in 1..MaxMessages
        BY <1>14, <1>0, Constants DEF Message, SdkTypes
      <4> QED
        BY <4>1 DEF Item
    <3> QED
      BY <1>0, <2>1, <3>1, AppendProperties DEF PipeTypes
  <2>5. \A i \in DOMAIN inbox' : /\ i \in Int
                                 /\ \/ i = Len(inbox) + 1 /\ inbox'[i].id = made'
                                    \/ i \in DOMAIN inbox /\ i < Len(inbox) + 1 /\ inbox'[i] = inbox[i]
    BY <2>4
  <2>6. InboxGoesOn
    BY <2>1, <2>2, <2>5 DEF InboxGoesOn, In
  <2>7. \A i \in DOMAIN inbox : inbox[i].t = "message" => inbox[i].id < made' /\ inbox[i].id <= made'
    <3> SUFFICES ASSUME NEW i \in DOMAIN inbox, inbox[i].t = "message"
                 PROVE  inbox[i].id < made' /\ inbox[i].id <= made'
      OBVIOUS
    <3>1. inbox[i].id <= made
      BY DEF KnownInv, MadeInOrder
    <3>2. inbox[i] \in Item
      BY <1>0 DEF PipeTypes
    <3>3. inbox[i].id \in Int
      BY <3>2, Constants DEF Item
    <3> QED
      BY <2>1, <2>2, <3>1, <3>3
  <2>8. \A i \in DOMAIN inbox' : inbox'[i].t = "message" => inbox'[i].id <= made'
    BY <2>1, <2>2, <2>5, <2>7
  <2>9. ASSUME NEW i \in DOMAIN inbox', NEW j \in DOMAIN inbox',
               inbox'[i].t = "message", inbox'[j].t = "message", i < j
        PROVE  inbox'[i].id < inbox'[j].id
    <3>1. i \in DOMAIN inbox /\ inbox'[i] = inbox[i]
      BY <2>4, <2>5, <2>9
    <3>2. CASE j \in DOMAIN inbox /\ inbox'[j] = inbox[j]
      BY <2>9, <3>1, <3>2 DEF KnownInv, MadeInOrder
    <3>3. CASE inbox'[j].id = made'
      BY <2>7, <2>9, <3>1, <3>3
    <3> QED
      BY <2>5, <3>2, <3>3
  <2> QED
    BY <1>0, <1>2, <2>1, <2>3, <2>6, <2>8, <2>9, KnownStays DEF MadeInOrder
<1>15. CASE Delta
  <2>1. Broadcast([t |-> "delta"]) /\ UNCHANGED <<log, view, post, made, inbox>>
    BY <1>15 DEF Delta, logged, sdk, pipe
  <2>2. NewQueued({}) /\ NewRows({}) /\ NewSeen
    BY <1>13, <2>1, EntryTypes
  <2> QED
    BY <1>0, <1>2, <2>1, <2>2, KnownStays, SamePipe
<1>16. CASE EndTurn
  <2>1. Broadcast([t |-> "result"]) /\ UNCHANGED <<log, view, post, made>>
    BY <1>16 DEF EndTurn, logged
  <2>2. NewQueued({}) /\ NewRows({}) /\ NewSeen
    BY <1>13, <2>1, EntryTypes
  <2>3. /\ inbox' \in Seq(Item) /\ Len(inbox') \in Nat /\ Len(inbox) \in Nat /\ Len(inbox') > Len(inbox)
        /\ \A i \in 1..Len(inbox) : inbox'[i] = inbox[i]
        /\ \A i \in Len(inbox) + 1..Len(inbox') - 1 : inbox'[i].t = "echo"
        /\ inbox'[Len(inbox')].t \in {"interrupted", "completed"}
    BY <1>0, <1>16, EndedInbox
  <2>4. DOMAIN inbox' = 1..Len(inbox') /\ DOMAIN inbox = 1..Len(inbox)
    BY <1>0, <2>3 DEF PipeTypes
  <2>5. ASSUME NEW i \in DOMAIN inbox', inbox'[i].t = "message"
        PROVE  i \in DOMAIN inbox /\ inbox'[i] = inbox[i]
    <3>1. i = Len(inbox') \/ i \in Len(inbox) + 1..Len(inbox') - 1 \/ i \in 1..Len(inbox)
      BY <2>3, <2>4
    <3> QED
      BY <2>3, <2>4, <2>5, <3>1
  <2>6. InboxGoesOn /\ MadeInOrder'
    <3>1. made <= made'
      BY <1>0, <2>1, Constants DEF SdkTypes
    <3> QED
      BY <2>1, <2>5, <3>1 DEF InboxGoesOn, In, MadeInOrder, KnownInv
  <2> QED
    BY <1>0, <1>2, <2>1, <2>2, <2>6, KnownStays
<1>17. CASE ActorDies
  <2>1. /\ Broadcast([t |-> "status"]) /\ UNCHANGED <<log, view, made, inbox>>
        /\ post' = [p \in Post |-> IF post[p].pc = "sent" THEN [post[p] EXCEPT !.pc = "undo"] ELSE post[p]]
    BY <1>17 DEF ActorDies, logged, pipe
  <2>2. NewQueued({}) /\ NewRows({}) /\ NewSeen
    BY <1>13, <2>1, EntryTypes
  <2>3. PostsGoOn
    BY <1>0, <2>1 DEF PostsGoOn, PostTypes, PostState, Spent, Written
  <2> QED
    BY <1>0, <2>1, <2>2, <2>3, KnownStays, SamePipe
<1>18. EndsTurn => TurnEnded(Rows) \in Notice
  <2>1. CASE Rows = {}
    BY <2>1, EntryTypes DEF TurnEnded
  <2>2. CASE Rows # {}
    <3>1. PICK b \in Nat : Rows \subseteq 0..b
      BY <1>0 DEF RowTypes
    <3>2. Max(Rows) \in Rows
      BY <2>2, <3>1, GreatestNumber
    <3>3. \A n \in Rows : n \in Nat
      BY <3>1
    <3>4. Max(Rows) \in Nat
      BY <3>2, <3>3
    <3> QED
      BY <2>2, <3>4, EntryTypes DEF TurnEnded
  <2> QED
    BY <2>1, <2>2
<1>19. ASSUME Handled(Rows, <<>>), log' = log, UNCHANGED <<bf, post, sdk, view, calm, faults>>, inbox # <<>>
       PROVE  KnownInv'
  <2>1. FlagTypes
    BY <1>0 DEF LogTypes
  <2>2. PICK mid \in Channels : HandledAs(Rows, <<>>, mid)
    BY <1>0, <1>18, <1>19, <2>1, Handling
  <2>3. NewQueued({})
    BY <1>0, <1>18, <2>2, HandledQueued
  <2>4. inbox' = Tail(inbox) /\ made' = made
    BY <1>19 DEF Handled, sdk
  <2>5. NewRows({}) /\ NewSeen /\ PostsGoOn
    BY <1>2, <1>3, <1>19 DEF NewRows, Rows
  <2> QED
    BY <1>0, <1>19, <2>3, <2>4, <2>5, KnownStays, TailOfInbox
<1>20. CASE HandleCompleted
  BY <1>19, <1>20 DEF HandleCompleted, Now
<1>21. CASE CheckTail
  <2>1. CASE TailIsInterrupt
    BY <1>19, <1>21, <2>1 DEF CheckTail, Now
  <2>2. CASE ~ TailIsInterrupt
    <3>1. UNCHANGED <<log, made, inbox, queue, post, view>>
      BY <1>21, <2>2 DEF CheckTail, sdk, channel
    <3> QED
      BY <1>1, <1>2, <1>3, <3>1
  <2> QED
    BY <2>1, <2>2
<1>22. CASE Insert
  <2>1. inbox # <<>> /\ base \in Nat
    BY <1>0, <1>22 DEF Insert, PipeTypes
  <2>2. CASE base \in Rows
    <3>1. UNCHANGED <<log, made, inbox, queue, post, view>>
      BY <1>22, <2>2 DEF Insert, sdk, channel
    <3> QED
      BY <1>1, <1>2, <1>3, <3>1
  <2>3. CASE base \notin Rows
    <3>1. /\ log' = With(base, Entry) /\ Handled(Rows \cup {base}, <<Shown(base, Entry)>>)
          /\ UNCHANGED <<bf, post, sdk, view, calm, faults>>
      BY <1>22, <2>3 DEF Insert
    <3>2. Entry \in EntrySet /\ Shown(base, Entry) \in Notice
      BY <1>0, <2>1, HeadTypes, EntryTypes
    <3>3. Rows' = Rows \cup {base} /\ log'[base] = Entry /\ \A m \in Rows : m # base => log'[m] = log[m]
      BY <1>0, <2>1, <3>1, <3>2, Adding
    <3>4. PICK new : new = [seq |-> base, entry |-> Entry]
      OBVIOUS
    <3>5. new \in Line /\ new.seq = base /\ new.entry = Entry
      BY <2>1, <3>2, <3>4 DEF Line
    <3>6. EndsTurn => TurnEnded(Rows \cup {base}) \in Notice
      <4>1. PICK b \in Nat : Rows \subseteq 0..b
        BY <1>0 DEF RowTypes
      <4>2. b + base \in Nat /\ Rows \cup {base} \in SUBSET (0..b + base)
        BY <2>1, <4>1
      <4>3. Max(Rows \cup {base}) \in Rows \cup {base}
        BY <4>2, GreatestNumber
      <4>4. Rows \cup {base} \subseteq Nat
        BY <2>1, <4>1
      <4>5. PICK g : g = Max(Rows \cup {base})
        OBVIOUS
      <4>6. g \in Nat
        <5> HIDE DEF Rows
        <5> QED
          BY <4>3, <4>4, <4>5
      <4>7. Max(Rows \cup {base}) \in Nat
        BY <4>5, <4>6
      <4> QED
        BY <4>7, EntryTypes DEF TurnEnded
    <3>7. PICK mid \in Channels : HandledAs(Rows \cup {base}, <<Shown(base, Entry)>>, mid)
      <4>1. FlagTypes
        BY <1>0 DEF LogTypes
      <4> QED
        BY <1>0, <2>1, <3>1, <3>2, <3>6, <4>1, Handling
    <3>8. NewQueued({new})
      <4>1. \E r \in {new} : r \in Line /\ <<Shown(base, Entry)>> = <<Shown(r.seq, r.entry)>>
        BY <3>5
      <4> QED
        BY <1>0, <3>6, <3>7, <4>1, HandledQueued
    <3>9. NewRows({new})
      <4> HIDE DEF Rows
      <4> QED
        BY <2>3, <3>3, <3>4 DEF NewRows
    <3>10. NewSeen /\ PostsGoOn
      BY <1>2, <1>3, <3>1
    <3>11. InboxGoesOn /\ MadeInOrder'
      BY <1>0, <2>1, <3>1, TailOfInbox DEF Handled, sdk
    <3>12. OnlyNew({new})
      BY <3>5, <3>8, <3>9, <3>10, KnownSources
    <3>13. Fits({new})
      <4>1. CASE Head(inbox).t = "message"
        <5>1. Entry.kind = "assistant" /\ Entry.id = Head(inbox).id
          BY <4>1 DEF Entry
        <5>2. 1 \in DOMAIN inbox /\ Head(inbox) = inbox[1] /\ Head(inbox) \in Item
          BY <1>0, <2>1, HeadTypes
        <5>3. Head(inbox).id \in Int
          BY <4>1, <5>2, Constants DEF Item
        <5>4. ASSUME NEW s \in Line, Known(s), new.entry = s.entry
              PROVE  FALSE
          <6>1. s.entry.id < inbox[1].id /\ s.entry.id = inbox[1].id
            BY <3>5, <4>1, <5>1, <5>2, <5>4 DEF KnownInv, MessagesSpent, Later
          <6> QED
            BY <5>2, <5>3, <6>1
        <5>5. new.entry.id <= made'
          BY <3>1, <3>5, <4>1, <5>1, <5>2 DEF KnownInv, MadeInOrder, sdk
        <5>6. Later(new.entry.id)'
          <6>1. inbox' = Tail(inbox)
            BY <3>1 DEF Handled
          <6>2. /\ Len(inbox) \in Nat \ {0} /\ DOMAIN inbox = 1..Len(inbox) /\ DOMAIN inbox' = 1..Len(inbox) - 1
                /\ \A i \in 1..Len(inbox) - 1 : inbox'[i] = inbox[i + 1]
            BY <1>0, <2>1, <6>1, HeadTypes DEF PipeTypes
          <6>3. \A i \in DOMAIN inbox' : i + 1 \in DOMAIN inbox /\ 1 < i + 1 /\ inbox'[i] = inbox[i + 1]
            BY <6>2
          <6>4. \A i \in DOMAIN inbox' : inbox'[i].t = "message" => inbox[1].id < inbox'[i].id
            BY <4>1, <5>2, <6>3 DEF KnownInv, MadeInOrder
          <6>5. new.entry.id = inbox[1].id
            BY <3>5, <5>1, <5>2
          <6> QED
            BY <6>4, <6>5 DEF Later
        <5> QED
          BY <3>5, <5>1, <5>4, <5>5, <5>6 DEF Fits
      <4>2. CASE Head(inbox).t # "message"
        <5>1. Entry.kind = "interrupt"
          BY <4>2 DEF Entry, Interrupt
        <5> QED
          BY <3>5, <5>1 DEF Fits
      <4> QED
        BY <4>1, <4>2
    <3> QED
      BY <1>0, <3>5, <3>10, <3>11, <3>12, <3>13, KnownGrows DEF GoesOn
  <2> QED
    BY <2>2, <2>3
<1>23. ASSUME NEW x \in Proc, Backfill(x)
       PROVE  KnownInv'
  <2>1. UNCHANGED <<made, inbox, queue, view, post>> /\ bf[x] = "read"
    BY <1>23 DEF Backfill, sdk, pipe, channel
  <2>2. Fills
    BY <1>0, <1>23, Backfilling
  <2>3. CASE History > 0
    <3>1. Rows = {}
      BY <2>1, <2>3 DEF LogInd, HistoryRows, HistoryWritten, Untouched
    <3>2. NextSeq = 0
      BY <3>1 DEF NextSeq
    <3>3. History \in Nat
      BY Constants
    <3>4. Rows' = 0..History - 1 /\ \A n \in 0..History - 1 : log'[n] = HistoryEntry(n)
      BY <2>2, <3>1, <3>2, <3>3 DEF Fills
    <3> DEFINE N == {[seq |-> n, entry |-> HistoryEntry(n)] : n \in 0..History - 1}
    <3>5. \A n \in Nat : HistoryEntry(n).kind = "history" /\ HistoryEntry(n).id = n + 1
      BY DEF HistoryEntry
    <3>6. \A n \in 0..History - 1 : n \in Nat /\ HistoryEntry(n) \in EntrySet
      <4>1. \A n \in 0..History - 1 : n \in Nat /\ n + 1 \in 1..History
        BY <3>3
      <4> QED
        BY <4>1 DEF HistoryEntry, EntrySet
    <3>7. \A r \in N : r \in Line /\ r.entry.kind = "history" /\ r.seq \in Nat /\ r.entry.id = r.seq + 1
      <4> SUFFICES ASSUME NEW n \in 0..History - 1
                   PROVE  LET r == [seq |-> n, entry |-> HistoryEntry(n)] IN
                          r \in Line /\ r.entry.kind = "history" /\ r.seq \in Nat /\ r.entry.id = r.seq + 1
        OBVIOUS
      <4> QED
        BY <3>5, <3>6 DEF Line
    <3>8. NewRows(N)
      BY <3>4 DEF NewRows
    <3> HIDE DEF N
    <3>9. \A r \in N : r.seq = r.entry.id - 1
      BY <3>7
    <3>10. Fits(N)
      <4>1. ASSUME NEW r \in N, NEW s \in Line, Known(s) \/ s \in N, r.entry = s.entry
            PROVE  r.seq = s.seq
        BY <3>7, <3>9, <4>1 DEF KnownInv, HistoryPlaced
      <4> QED
        BY <3>7, <3>9, <4>1 DEF Fits
    <3>11. NewQueued(N) /\ NewSeen /\ PostsGoOn /\ InboxGoesOn /\ MadeInOrder'
      BY <1>0, <1>2, <1>3, <2>1, QueuesShrink, SamePipe
    <3>12. N \in SUBSET Line
      BY <3>7
    <3>13. OnlyNew(N)
      BY <3>8, <3>11, <3>12, KnownSources
    <3> QED
      BY <1>0, <3>10, <3>11, <3>12, <3>13, KnownGrows DEF GoesOn
  <2>4. CASE ~ (History > 0)
    <3>1. NextSeq \in Nat /\ History \in Nat
      BY <1>0, NextIsNew, Constants
    <3>2. NextSeq..(NextSeq + History - 1) = {}
      BY <2>4, <3>1
    <3>3. Rows' = Rows /\ \A n \in Rows : log'[n] = log[n]
      BY <2>2, <3>2 DEF Fills
    <3>4. NewRows({})
      BY <3>3 DEF NewRows
    <3>5. NewQueued({}) /\ NewSeen /\ PostsGoOn /\ InboxGoesOn /\ MadeInOrder'
      BY <1>0, <1>2, <1>3, <2>1, QueuesShrink, SamePipe
    <3> QED
      BY <1>0, <3>4, <3>5, KnownStays
  <2> QED
    BY <2>3, <2>4
<1>24. ASSUME NEW v \in Viewer, UNCHANGED <<log, made, inbox, post>>, NewSeen,
              \/ queue' = queue \/ queue' = [queue EXCEPT ![v] = <<>>]
              \/ queue[v] # <<>> /\ queue' = [queue EXCEPT ![v] = Tail(@)]
       PROVE  KnownInv'
  <2>1. NewQueued({})
    <3>1. queue \in [Viewer -> Seq(Notice)]
      BY <1>0 DEF ChanTypes, Chan, Channels
    <3>2. \A u \in Viewer : \/ queue'[u] = queue[u] \/ queue'[u] = <<>>
                            \/ queue[u] # <<>> /\ queue'[u] = Tail(queue[u])
      BY <1>24, <3>1
    <3> QED
      BY <1>0, <3>2, QueuesShrink
  <2>2. NewRows({})
    BY <1>24 DEF NewRows, Rows
  <2> QED
    BY <1>0, <1>2, <1>24, <2>1, <2>2, KnownStays, SamePipe
<1>25. ASSUME NEW v \in Viewer, List(v)
       PROVE  KnownInv'
  <2>1. UNCHANGED <<log, made, inbox, post>> /\ (queue' = queue \/ queue' = [queue EXCEPT ![v] = <<>>])
    BY <1>25 DEF List, sdk, pipe, channel, Leave
  <2>2. view[v] \in ViewState
    BY <1>0 DEF ViewTypes
  <2>3. ShowAll(v) \in ViewState /\ ShowAll(v).seen = view[v].seen \o Unseen(v)
    BY <1>0, <2>2, ShowingAll
  <2>4. PICK s : s = ShowAll(v)
    OBVIOUS
  <2>5. \E r : r.seen = s.seen /\ view' = [view EXCEPT ![v] = r]
    <3>1. [s EXCEPT !.pc = "live"].seen = s.seen /\ Ended(s).seen = s.seen
      BY <2>3, <2>4 DEF ViewState, Ended
    <3> QED
      BY <1>25, <2>4, <3>1 DEF List
  <2>6. view'[v].seen = s.seen /\ \A u \in Viewer : u # v => view'[u] = view[u]
    BY <1>0, <2>5 DEF ViewTypes
  <2>7. Listed(v, Unseen(v))
    BY <1>0, Listing
  <2>8. \A i \in DOMAIN s.seen : In(view[v].seen, s.seen[i]) \/ Known(s.seen[i])
    <3>1. PICK a, z : a = view[v].seen /\ z = Unseen(v)
      OBVIOUS
    <3>2. a \in Seq(Line) /\ z \in Seq(Line) /\ s.seen = a \o z
      BY <2>2, <2>3, <2>4, <2>7, <3>1 DEF ViewState, Listed
    <3>3. \A i \in DOMAIN z : Known(z[i])
      BY <2>7, <3>1 DEF Listed, Known, Logged, After
    <3>4. /\ Len(a) \in Nat /\ Len(z) \in Nat /\ DOMAIN a = 1..Len(a) /\ DOMAIN z = 1..Len(z)
          /\ DOMAIN s.seen = 1..Len(a) + Len(z)
          /\ \A i \in 1..Len(a) + Len(z) : s.seen[i] = IF i <= Len(a) THEN a[i] ELSE z[i - Len(a)]
      BY <3>2, ConcatProperties
    <3> SUFFICES ASSUME NEW i \in DOMAIN s.seen PROVE In(a, s.seen[i]) \/ Known(s.seen[i])
      BY <3>1
    <3>5. CASE i <= Len(a)
      <4>1. i \in DOMAIN a /\ s.seen[i] = a[i]
        BY <3>4, <3>5
      <4> QED
        BY <4>1 DEF In
    <3>6. CASE ~ (i <= Len(a))
      <4>1. i - Len(a) \in DOMAIN z /\ s.seen[i] = z[i - Len(a)]
        BY <3>4, <3>6
      <4> QED
        BY <3>3, <4>1
    <3> QED
      BY <3>5, <3>6
  <2>9. NewSeen
    BY <2>6, <2>8 DEF NewSeen, In
  <2> QED
    BY <1>24, <2>1, <2>9
<1>26. ASSUME NEW v \in Viewer, TakeEntry(v)
       PROVE  KnownInv'
  <2>1. /\ UNCHANGED <<log, made, inbox, post>> /\ queue[v] # <<>> /\ queue' = [queue EXCEPT ![v] = Tail(@)]
        /\ Head(queue[v]).t = "entry"
    BY <1>26 DEF TakeEntry, sdk, pipe, logged
  <2>2. PICK m : m = Head(queue[v])
    OBVIOUS
  <2>3. queue[v] \in Seq(Notice) /\ view[v] \in ViewState /\ view \in [Viewer -> ViewState]
    BY <1>0 DEF ChanTypes, Chan, Channels, ViewTypes
  <2>4. m = queue[v][1] /\ 1 \in DOMAIN queue[v] /\ m \in Notice /\ m.t = "entry"
    BY <2>1, <2>2, <2>3
  <2>5. m = [t |-> "entry", seq |-> m.seq, entry |-> m.entry] /\ m.seq \in Nat /\ m.entry \in EntrySet
    BY <2>4 DEF Notice
  <2>6. PICK r : r = [seq |-> m.seq, entry |-> m.entry]
    OBVIOUS
  <2>7. r \in Line /\ m = Shown(r.seq, r.entry)
    BY <2>5, <2>6 DEF Line, Shown
  <2>8. Known(r)
    BY <2>4, <2>7 DEF Known, Queued, In
  <2>9. CASE view' = view
    BY <1>3, <1>24, <2>1, <2>9
  <2>10. CASE view' = [view EXCEPT ![v].seen = Append(@, r), ![v].last = m.seq]
    <3>1. view'[v].seen = Append(view[v].seen, r) /\ \A u \in Viewer : u # v => view'[u] = view[u]
      BY <2>3, <2>10 DEF ViewState
    <3>2. \A i \in DOMAIN view'[v].seen : In(view[v].seen, view'[v].seen[i]) \/ view'[v].seen[i] = r
      <4>1. PICK s : s = view[v].seen
        OBVIOUS
      <4>2. s \in Seq(Line)
        BY <2>3, <4>1 DEF ViewState
      <4>3. /\ Len(s) \in Nat /\ DOMAIN s = 1..Len(s) /\ DOMAIN Append(s, r) = 1..Len(s) + 1
            /\ Append(s, r)[Len(s) + 1] = r /\ \A i \in 1..Len(s) : Append(s, r)[i] = s[i]
        BY <2>7, <4>2, AppendProperties
      <4>4. \A i \in 1..Len(s) + 1 : i = Len(s) + 1 \/ i \in 1..Len(s)
        BY <4>3
      <4> QED
        BY <3>1, <4>1, <4>3, <4>4 DEF In
    <3>3. NewSeen
      BY <2>8, <3>1, <3>2 DEF NewSeen, In
    <3> QED
      BY <1>24, <2>1, <3>3
  <2> QED
    BY <1>26, <2>2, <2>6, <2>9, <2>10 DEF TakeEntry
<1>27. ASSUME NEW v \in Viewer, NEW r, view' = [view EXCEPT ![v] = r], r.seen = view[v].seen
       PROVE  NewSeen
  <2>1. \A u \in Viewer : view'[u].seen = view[u].seen
    BY <1>0, <1>27 DEF ViewTypes
  <2> QED
    BY <1>0, <2>1, SameSeen
<1>28. ASSUME NEW v \in Viewer, Open(v) \/ TakeOther(v) \/ Beat(v)
       PROVE  KnownInv'
  <2>1. view[v] \in ViewState /\ view \in [Viewer -> ViewState]
    BY <1>0 DEF ViewTypes
  <2>2. /\ UNCHANGED <<log, made, inbox, post>>
        /\ \/ queue' = queue \/ queue' = [queue EXCEPT ![v] = <<>>]
           \/ queue[v] # <<>> /\ queue' = [queue EXCEPT ![v] = Tail(@)]
    BY <1>28 DEF Open, TakeOther, Beat, logged, sdk, pipe, channel, Leave
  <2>3. Ended(view[v]).seen = view[v].seen
    BY <2>1 DEF Ended, ViewState
  <2>4. view' = view \/ \E r : view' = [view EXCEPT ![v] = r] /\ r.seen = view[v].seen
    <3>1. CASE Open(v)
      <4>1. PICK pc : view' = [view EXCEPT ![v].pc = pc]
        BY <3>1 DEF Open
      <4> DEFINE r == [view[v] EXCEPT !.pc = pc]
      <4>2. view' = [view EXCEPT ![v] = r] /\ r.seen = view[v].seen
        BY <2>1, <4>1 DEF ViewState
      <4> HIDE DEF r
      <4> QED
        BY <4>2
    <3>2. CASE TakeOther(v)
      <4>1. \/ view' = [view EXCEPT ![v].pending = TRUE] \/ view' = view
            \/ view' = [view EXCEPT ![v] = Ended(view[v])]
        BY <2>1, <3>2 DEF TakeOther
      <4> DEFINE r == [view[v] EXCEPT !.pending = TRUE]
      <4>2. r.seen = view[v].seen
        BY <2>1 DEF ViewState
      <4>3. view' = [view EXCEPT ![v] = r] \/ view' = view \/ view' = [view EXCEPT ![v] = Ended(view[v])]
        BY <2>1, <4>1
      <4> HIDE DEF r
      <4> QED
        BY <2>3, <4>2, <4>3
    <3>3. CASE Beat(v)
      <4>1. view' = [view EXCEPT ![v].beats = 1] \/ view' = [view EXCEPT ![v] = Ended(view[v])]
        BY <2>1, <3>3 DEF Beat
      <4> DEFINE r == [view[v] EXCEPT !.beats = 1]
      <4>2. r.seen = view[v].seen
        BY <2>1 DEF ViewState
      <4>3. view' = [view EXCEPT ![v] = r] \/ view' = [view EXCEPT ![v] = Ended(view[v])]
        BY <2>1, <4>1
      <4> HIDE DEF r
      <4> QED
        BY <2>3, <4>2, <4>3
    <3> QED
      BY <1>28, <3>1, <3>2, <3>3
  <2>5. NewSeen
    BY <1>3, <1>27, <2>4
  <2> QED
    BY <1>24, <2>2, <2>5
<1>29. CASE UNCHANGED vars \/ SelectNext \/ \E x \in Proc : HasEntries(x) \/ LockBackfill(x)
  <2>1. UNCHANGED <<log, made, inbox, queue, post, view>>
    BY <1>29 DEF vars, SelectNext, HasEntries, LockBackfill, logged, sdk, pipe, channel
  <2> QED
    BY <1>1, <1>2, <1>3, <2>1
<1> QED
  BY <1>6, <1>7, <1>8, <1>9, <1>10, <1>11, <1>12, <1>14, <1>15, <1>16, <1>17, <1>20, <1>21, <1>22, <1>23, <1>25,
     <1>26, <1>28, <1>29
     DEF Next, PostStep, EnsureStep, InboxStep, ViewerStep

-----------------------------------------------------------------------------
(* What a stream has shown *)

\* A stream shows rows in rising order, up to its cursor.
Rising(r) ==
    /\ \A i, j \in DOMAIN r.seen : i < j => r.seen[i].seq < r.seen[j].seq
    /\ \A i \in DOMAIN r.seen : r.seen[i].seq <= r.last
SeenRising == \A v \in Viewer : Rising(view[v])

\* The row n with its number.
LineOf(n) == [seq |-> n, entry |-> log[n]]

\* The stream v after a listing of the log.
AfterList(v, r) ==
    /\ r \in ViewState
    /\ \A n \in Rows : n <= r.last
    /\ view[v].last <= r.last /\ (r.last = view[v].last \/ r.last \in Rows)
    /\ \A x : In(view[v].seen, x) => In(r.seen, x)
    /\ \A n \in Rows : n > view[v].last => In(r.seen, LineOf(n))
    /\ Rising(view[v]) => Rising(r)

\* A listing shows all rows behind the cursor.
LEMMA ListShows ==
    ASSUME RowTypes, ViewTypes, NEW v \in Viewer
    PROVE  AfterList(v, ShowAll(v))
<1>1. PICK old, new, r : old = view[v] /\ new = Unseen(v) /\ r = ShowAll(v)
  OBVIOUS
<1>2. old \in ViewState /\ old.last \in Nat \cup {-1} /\ old.seen \in Seq(Line)
  BY <1>1 DEF ViewTypes, ViewState
<1>3. /\ r \in ViewState /\ r.seen = old.seen \o new
      /\ new = <<>> => r.last = old.last
      /\ new # <<>> => r.last = new[Len(new)].seq /\ Len(new) \in DOMAIN new
  BY <1>1, <1>2, ShowingAll
<1>4. /\ new \in Seq(Line)
      /\ \A i \in DOMAIN new : new[i].seq \in After(old.last) /\ new[i].entry = log[new[i].seq]
      /\ \A i, j \in DOMAIN new : i < j => new[i].seq < new[j].seq
      /\ \A n \in After(old.last) : \E i \in DOMAIN new : new[i].seq = n
  BY <1>1, Listing DEF Listed
<1>5. \A n \in Rows : n \in Nat
  BY NextIsNew
<1> HIDE DEF Rows
<1>6. \A n : n \in After(old.last) <=> n \in Rows /\ n > old.last
  BY DEF After
<1>7. /\ Len(old.seen) \in Nat /\ Len(new) \in Nat
      /\ DOMAIN old.seen = 1..Len(old.seen) /\ DOMAIN new = 1..Len(new)
  BY <1>2, <1>4
<1>8. DOMAIN r.seen = 1..Len(old.seen) + Len(new)
      /\ \A i \in 1..Len(old.seen) + Len(new) :
            r.seen[i] = IF i <= Len(old.seen) THEN old.seen[i] ELSE new[i - Len(old.seen)]
  BY <1>2, <1>3, <1>4, ConcatProperties
<1>9. r.last \in Nat \cup {-1}
  BY <1>3 DEF ViewState
<1>10. \A i \in DOMAIN new : new[i].seq \in Nat /\ new[i].seq > old.last /\ new[i].seq \in Rows
  BY <1>4, <1>5, <1>6
<1>11. old.last <= r.last /\ (r.last = old.last \/ r.last \in Rows)
  <2>1. CASE new = <<>>
    BY <1>2, <1>3, <2>1
  <2>2. CASE new # <<>>
    BY <1>2, <1>3, <1>10, <2>2
  <2> QED
    BY <2>1, <2>2
<1>12. \A i \in DOMAIN new : new[i].seq <= r.last
  <2> SUFFICES ASSUME NEW i \in DOMAIN new PROVE new[i].seq <= r.last
    OBVIOUS
  <2>1. new # <<>>
    BY <1>7
  <2>2. i = Len(new) \/ i < Len(new)
    BY <1>7
  <2> QED
    BY <1>3, <1>4, <1>10, <2>1, <2>2
<1>13. \A n \in Rows : n <= r.last
  <2> SUFFICES ASSUME NEW n \in Rows PROVE n <= r.last
    OBVIOUS
  <2>1. CASE n > old.last
    BY <1>4, <1>6, <1>12, <2>1
  <2>2. CASE ~ (n > old.last)
    BY <1>2, <1>5, <1>9, <1>11, <2>2
  <2> QED
    BY <2>1, <2>2
<1>14. \A x : In(old.seen, x) => In(r.seen, x)
  <2>1. \A i \in DOMAIN old.seen : i \in DOMAIN r.seen /\ r.seen[i] = old.seen[i]
    BY <1>7, <1>8
  <2> QED
    BY <2>1 DEF In
<1>15. \A i \in DOMAIN new : In(r.seen, new[i])
  <2>1. \A i \in DOMAIN new : Len(old.seen) + i \in DOMAIN r.seen /\ r.seen[Len(old.seen) + i] = new[i]
    <3> SUFFICES ASSUME NEW i \in DOMAIN new
                 PROVE  Len(old.seen) + i \in DOMAIN r.seen /\ r.seen[Len(old.seen) + i] = new[i]
      OBVIOUS
    <3>1. Len(old.seen) + i \in 1..Len(old.seen) + Len(new) /\ ~ (Len(old.seen) + i <= Len(old.seen))
          /\ (Len(old.seen) + i) - Len(old.seen) = i
      BY <1>7
    <3> QED
      BY <1>8, <3>1
  <2> QED
    BY <2>1 DEF In
<1>16. ASSUME NEW n \in Rows, n > old.last
       PROVE  In(r.seen, LineOf(n))
  <2>1. PICK i \in DOMAIN new : new[i].seq = n
    BY <1>4, <1>6, <1>16
  <2>2. new[i] \in Line
    BY <1>4
  <2>3. new[i] = LineOf(n)
    BY <1>4, <2>1, <2>2 DEF Line, LineOf
  <2> QED
    BY <1>15, <2>3
<1>17. ASSUME Rising(old)
       PROVE  Rising(r)
  <2>1. \A i \in DOMAIN r.seen : \/ i \in DOMAIN old.seen /\ i <= Len(old.seen) /\ r.seen[i] = old.seen[i]
                                 \/ /\ i - Len(old.seen) \in DOMAIN new /\ i > Len(old.seen)
                                    /\ r.seen[i] = new[i - Len(old.seen)]
    BY <1>7, <1>8
  <2>2. \A i \in DOMAIN old.seen : old.seen[i].seq \in Nat
    <3>1. \A i \in DOMAIN old.seen : old.seen[i] \in Line
      BY <1>2
    <3> QED
      BY <3>1 DEF Line
  <2>3. \A i \in DOMAIN old.seen : old.seen[i].seq <= old.last
    BY <1>17 DEF Rising
  <2>4. \A i \in DOMAIN r.seen : r.seen[i].seq <= r.last
    BY <1>2, <1>9, <1>11, <1>12, <2>1, <2>2, <2>3
  <2>5. ASSUME NEW i \in DOMAIN r.seen, NEW j \in DOMAIN r.seen, i < j
        PROVE  r.seen[i].seq < r.seen[j].seq
    <3>1. CASE i <= Len(old.seen) /\ j <= Len(old.seen)
      <4>1. i \in DOMAIN old.seen /\ j \in DOMAIN old.seen /\ r.seen[i] = old.seen[i] /\ r.seen[j] = old.seen[j]
        BY <1>7, <1>8, <3>1
      <4> QED
        BY <1>17, <2>5, <4>1 DEF Rising
    <3>2. CASE i <= Len(old.seen) /\ ~ (j <= Len(old.seen))
      <4>1. i \in DOMAIN old.seen /\ r.seen[i] = old.seen[i]
            /\ j - Len(old.seen) \in DOMAIN new /\ r.seen[j] = new[j - Len(old.seen)]
        BY <1>7, <1>8, <3>2
      <4>2. r.seen[i].seq \in Nat /\ r.seen[i].seq <= old.last
        BY <2>2, <2>3, <4>1
      <4>3. r.seen[j].seq \in Nat /\ r.seen[j].seq > old.last
        BY <1>10, <4>1
      <4> QED
        BY <1>2, <4>2, <4>3
    <3>3. CASE ~ (i <= Len(old.seen))
      <4>1. i \in 1..Len(old.seen) + Len(new) /\ j \in 1..Len(old.seen) + Len(new) /\ i < j
        BY <1>8, <2>5
      <4>2. /\ i - Len(old.seen) \in DOMAIN new /\ j - Len(old.seen) \in DOMAIN new
            /\ i - Len(old.seen) < j - Len(old.seen) /\ ~ (j <= Len(old.seen))
        BY <1>7, <3>3, <4>1
      <4>3. r.seen[i] = new[i - Len(old.seen)] /\ r.seen[j] = new[j - Len(old.seen)]
        BY <1>8, <3>3, <4>1, <4>2
      <4> QED
        BY <1>4, <4>2, <4>3
    <3> QED
      BY <3>1, <3>2, <3>3
  <2> QED
    BY <2>4, <2>5 DEF Rising
<1> QED
  BY <1>1, <1>3, <1>11, <1>13, <1>14, <1>16, <1>17 DEF AfterList

\* The stream v after it has read the entry m from its queue.
AfterEntry(v, m, r) ==
    /\ m = Head(queue[v]) /\ m \in Notice /\ m.t = "entry" /\ m.seq \in Nat
    /\ r.pc = view[v].pc
    /\ \/ m.seq <= view[v].last /\ r = view[v]
       \/ /\ ~ (m.seq <= view[v].last) /\ r.last = m.seq
          /\ \A x : In(r.seen, x) <=> In(view[v].seen, x) \/ x = [seq |-> m.seq, entry |-> m.entry]
    /\ Rising(view[v]) => Rising(r)

\* An entry behind the cursor is passed over, any other is shown.
LEMMA EntryTaken ==
    ASSUME ViewTypes, ChanTypes, NEW v \in Viewer, TakeEntry(v)
    PROVE  /\ AfterEntry(v, Head(queue[v]), view'[v])
           /\ \A u \in Viewer : u # v => view'[u] = view[u]
<1>1. PICK m, old, s : m = Head(queue[v]) /\ old = view[v] /\ s = view[v].seen
  OBVIOUS
<1>2. /\ old \in ViewState /\ old.last \in Nat \cup {-1} /\ s \in Seq(Line) /\ view \in [Viewer -> ViewState]
      /\ queue[v] \in Seq(Notice) /\ queue[v] # <<>> /\ m.t = "entry" /\ s = old.seen
  BY <1>1 DEF ViewTypes, ViewState, ChanTypes, Chan, Channels, TakeEntry
<1>3. m \in Notice
  BY <1>1, <1>2
<1>4. m.seq \in Nat /\ m.entry \in EntrySet
  BY <1>2, <1>3 DEF Notice
<1>5. PICK x : x = [seq |-> m.seq, entry |-> m.entry]
  OBVIOUS
<1>6. x \in Line /\ x.seq = m.seq
  BY <1>4, <1>5 DEF Line
<1>7. CASE m.seq <= old.last
  BY <1>1, <1>2, <1>3, <1>4, <1>7 DEF AfterEntry, TakeEntry
<1>8. CASE ~ (m.seq <= old.last)
  <2> DEFINE r == [old EXCEPT !.seen = Append(s, x), !.last = m.seq]
  <2>1. view' = [view EXCEPT ![v].seen = Append(@, x), ![v].last = m.seq]
    BY <1>1, <1>5, <1>8 DEF TakeEntry
  <2>2. view' = [view EXCEPT ![v] = r]
    BY <1>1, <1>2, <2>1
  <2>3. r.last = m.seq /\ r.seen = Append(s, x) /\ r.pc = old.pc
    BY <1>2 DEF ViewState
  <2> HIDE DEF r
  <2>4. view'[v] = r /\ \A u \in Viewer : u # v => view'[u] = view[u]
    BY <1>2, <2>2
  <2>5. /\ Len(s) \in Nat /\ DOMAIN s = 1..Len(s) /\ DOMAIN r.seen = 1..Len(s) + 1
        /\ r.seen[Len(s) + 1] = x /\ \A i \in 1..Len(s) : r.seen[i] = s[i]
    BY <1>2, <1>6, <2>3, AppendProperties
  <2>6. \A i \in DOMAIN r.seen : i = Len(s) + 1 \/ (i \in DOMAIN s /\ i < Len(s) + 1 /\ r.seen[i] = s[i])
    BY <2>5
  <2>7. \A y : In(r.seen, y) <=> In(s, y) \/ y = x
    <3>1. \A i \in DOMAIN s : i \in DOMAIN r.seen
      BY <2>5
    <3>2. Len(s) + 1 \in DOMAIN r.seen
      BY <2>5
    <3> QED
      BY <2>5, <2>6, <3>1, <3>2 DEF In
  <2>8. ASSUME Rising(old)
        PROVE  Rising(r)
    <3>0. \A i \in DOMAIN s : s[i] \in Line
      BY <1>2
    <3>1. \A i \in DOMAIN s : s[i].seq \in Nat /\ s[i].seq <= old.last
      BY <1>2, <2>8, <3>0 DEF Line, Rising
    <3>2. \A i \in DOMAIN s : s[i].seq < m.seq /\ s[i].seq <= m.seq
      BY <1>2, <1>4, <1>8, <3>1
    <3>3. \A i \in DOMAIN r.seen : r.seen[i].seq <= r.last
      BY <1>4, <1>6, <2>3, <2>5, <2>6, <3>2
    <3>4. ASSUME NEW i \in DOMAIN r.seen, NEW j \in DOMAIN r.seen, i < j
          PROVE  r.seen[i].seq < r.seen[j].seq
      <4>1. i \in DOMAIN s /\ r.seen[i] = s[i]
        BY <2>5, <2>6, <3>4
      <4>2. CASE j = Len(s) + 1
        BY <1>6, <2>5, <3>2, <4>1, <4>2
      <4>3. CASE j \in DOMAIN s /\ r.seen[j] = s[j]
        BY <1>2, <2>8, <3>4, <4>1, <4>3 DEF Rising
      <4> QED
        BY <2>6, <4>2, <4>3
    <3> QED
      BY <3>3, <3>4 DEF Rising
  <2> QED
    BY <1>1, <1>2, <1>3, <1>4, <1>5, <1>8, <2>3, <2>4, <2>7, <2>8 DEF AfterEntry
<1> QED
  BY <1>7, <1>8

\* No other step shows anything.
Shows == \E v \in Viewer : List(v) \/ TakeEntry(v)
LEMMA OtherSteps ==
    ASSUME ViewTypes, [Next]_vars, ~ Shows
    PROVE  \A v \in Viewer : view'[v].seen = view[v].seen /\ view'[v].last = view[v].last
<1>1. CASE view' = view
  BY <1>1
<1>2. ASSUME NEW v \in Viewer, Open(v) \/ TakeOther(v) \/ Beat(v)
      PROVE  \A u \in Viewer : view'[u].seen = view[u].seen /\ view'[u].last = view[u].last
  <2>1. view[v] \in ViewState /\ view \in [Viewer -> ViewState]
    BY DEF ViewTypes
  <2>2. /\ Ended(view[v]).seen = view[v].seen /\ Ended(view[v]).last = view[v].last
        /\ [view[v] EXCEPT !.pending = TRUE].seen = view[v].seen /\ [view[v] EXCEPT !.pending = TRUE].last = view[v].last
        /\ [view[v] EXCEPT !.beats = 1].seen = view[v].seen /\ [view[v] EXCEPT !.beats = 1].last = view[v].last
        /\ \A pc : [view[v] EXCEPT !.pc = pc].seen = view[v].seen /\ [view[v] EXCEPT !.pc = pc].last = view[v].last
    BY <2>1 DEF Ended, ViewState
  <2>3. view' = view \/ \E r : view' = [view EXCEPT ![v] = r] /\ r.seen = view[v].seen /\ r.last = view[v].last
    <3>1. CASE Open(v)
      <4>1. PICK pc : view' = [view EXCEPT ![v].pc = pc]
        BY <3>1 DEF Open
      <4>2. view' = [view EXCEPT ![v] = [view[v] EXCEPT !.pc = pc]]
        BY <2>1, <4>1
      <4> QED
        BY <2>2, <4>2
    <3>2. CASE TakeOther(v)
      <4>1. \/ view' = [view EXCEPT ![v] = [view[v] EXCEPT !.pending = TRUE]] \/ view' = view
            \/ view' = [view EXCEPT ![v] = Ended(view[v])]
        BY <2>1, <3>2 DEF TakeOther
      <4> QED
        BY <2>2, <4>1
    <3>3. CASE Beat(v)
      <4>1. view' = [view EXCEPT ![v] = [view[v] EXCEPT !.beats = 1]] \/ view' = [view EXCEPT ![v] = Ended(view[v])]
        BY <2>1, <3>3 DEF Beat
      <4> QED
        BY <2>2, <4>1
    <3> QED
      BY <1>2, <3>1, <3>2, <3>3
  <2> QED
    BY <1>1, <2>1, <2>3
<1>3. view' = view \/ \E v \in Viewer : Open(v) \/ TakeOther(v) \/ Beat(v)
  BY DEF Next, vars, PostStep, Arrive, Precheck, SelectNextForUser, InsertUser, Mark, Undo, EnsureStep, HasEntries,
         LockBackfill, Backfill, Accept, Message, Delta, EndTurn, ActorDies, InboxStep, HandleCompleted, CheckTail,
         SelectNext, Insert, ViewerStep, Shows
<1> QED
  BY <1>1, <1>2, <1>3

\* Every step keeps SeenRising.
LEMMA SeenRisingStep ==
    ASSUME LogInd, SeenRising, [Next]_vars
    PROVE  SeenRising'
<1>0. RowTypes /\ ViewTypes /\ ChanTypes
  BY DEF LogInd, LogTypes
<1>1. CASE ~ Shows
  <2>1. \A v \in Viewer : view'[v].seen = view[v].seen /\ view'[v].last = view[v].last
    BY <1>0, <1>1, OtherSteps
  <2> QED
    BY <2>1 DEF SeenRising, Rising
<1>2. ASSUME NEW v \in Viewer, List(v)
      PROVE  SeenRising'
  <2>1. PICK s : s = ShowAll(v)
    OBVIOUS
  <2>2. s \in ViewState /\ Rising(s)
    BY <1>0, <2>1, ListShows DEF AfterList, SeenRising
  <2>3. Rising([s EXCEPT !.pc = "live"]) /\ Rising(Ended(s))
    BY <2>2 DEF Rising, Ended, ViewState
  <2>4. view' = [view EXCEPT ![v] = [s EXCEPT !.pc = "live"]] \/ view' = [view EXCEPT ![v] = Ended(s)]
    BY <1>2, <2>1 DEF List
  <2>5. Rising(view'[v]) /\ \A u \in Viewer : u # v => view'[u] = view[u]
    BY <1>0, <2>3, <2>4 DEF ViewTypes
  <2> QED
    BY <2>5 DEF SeenRising
<1>3. ASSUME NEW v \in Viewer, TakeEntry(v)
      PROVE  SeenRising'
  <2>1. AfterEntry(v, Head(queue[v]), view'[v]) /\ \A u \in Viewer : u # v => view'[u] = view[u]
    BY <1>0, <1>3, EntryTaken
  <2> QED
    BY <2>1 DEF AfterEntry, SeenRising
<1> QED
  BY <1>1, <1>2, <1>3 DEF Shows

-----------------------------------------------------------------------------
(* One post at a time *)

\* In a calm session one post at a time is being written, and none beside a turn or
\* an inbox with messages; the result of a turn is the last message of the inbox.
InHand(p) == post[p].pc \in Writing
IsResult(m) == m.t \in {"completed", "interrupted"}
NoResult == \A i \in DOMAIN inbox : ~ IsResult(inbox[i])
OneAtATime ==
    calm => /\ \A p, q \in Post : InHand(p) /\ InHand(q) => p = q
            /\ \A p \in Post : InHand(p) => inbox = <<>> /\ turn = NULL
            /\ turn # NULL => running /\ NoResult
            /\ \A p \in Post : post[p].pc = "sent" => running
            /\ \A i \in DOMAIN inbox : IsResult(inbox[i]) => i = Len(inbox)

\* Nothing but the state of the session changes.
LEMMA HandStays ==
    ASSUME OneAtATime, calm' => calm, UNCHANGED <<inbox, turn>>, running' = running \/ running' = TRUE,
           \A p \in Post : InHand(p)' => InHand(p),
           \A p \in Post : post'[p].pc = "sent" => post[p].pc = "sent" \/ running' = TRUE
    PROVE  OneAtATime'
BY DEF OneAtATime, NoResult

\* One post moves on without being sent.
LEMMA HandMoves ==
    ASSUME OneAtATime, PostTypes, calm' => calm, UNCHANGED <<inbox, turn, running>>, NEW p \in Post, NEW r,
           post' = [post EXCEPT ![p] = r], r.pc \in Writing => InHand(p), r.pc # "sent"
    PROVE  OneAtATime'
<1>1. post'[p] = r /\ \A q \in Post : q # p => post'[q] = post[q]
  BY DEF PostTypes
<1>2. \A q \in Post : InHand(q)' => InHand(q)
  BY <1>1 DEF InHand
<1>3. \A q \in Post : post'[q].pc = "sent" => post[q].pc = "sent"
  BY <1>1
<1> QED
  BY <1>2, <1>3, HandStays

\* Every step keeps OneAtATime.
LEMMA OneAtATimeStep ==
    ASSUME LogTypes, Prompts, OneAtATime, [Next]_vars
    PROVE  OneAtATime'
<1>0. /\ PostTypes /\ SdkTypes /\ PipeTypes /\ NULL \notin Post
      /\ post \in [Post -> PostState] /\ DOMAIN post = Post
  BY Constants DEF LogTypes, PostTypes
<1>1. ASSUME UNCHANGED <<post, inbox, turn, running, calm>>
      PROVE  OneAtATime'
  BY <1>1, HandStays DEF InHand
<1>2. ASSUME NEW p \in Post, NEW k \in Post, Arrive(p, k)
      PROVE  OneAtATime'
  <2>1. /\ post' = [post EXCEPT ![p] = [post[p] EXCEPT !.pc = "ensure", !.key = k]]
        /\ UNCHANGED <<inbox, turn, running, calm>>
    BY <1>0, <1>2 DEF Arrive, sdk, pipe
  <2>2. [post[p] EXCEPT !.pc = "ensure", !.key = k].pc = "ensure"
    BY <1>0 DEF PostState
  <2> QED
    BY <1>0, <2>1, <2>2, HandMoves DEF Writing
<1>3. ASSUME NEW p \in Post, Precheck(p)
      PROVE  OneAtATime'
  <2>1. UNCHANGED <<inbox, turn, running>>
    BY <1>3 DEF Precheck, sdk, pipe
  <2>2. \A pc : Goto(p, pc) => /\ post' = [post EXCEPT ![p] = [post[p] EXCEPT !.pc = pc]]
                               /\ [post[p] EXCEPT !.pc = pc].pc = pc
    BY <1>0 DEF Goto, PostState
  <2>3. CASE (Goto(p, "accepted") \/ Goto(p, "refused")) /\ calm' = calm
    <3>1. PICK pc \in {"accepted", "refused"} : Goto(p, pc)
      BY <2>3
    <3> QED
      BY <1>0, <2>1, <2>2, <2>3, <3>1, HandMoves DEF Writing
  <2>4. CASE /\ ~ running /\ Goto(p, "select")
             /\ calm' = (calm /\ inbox = <<>> /\ \A q \in Post : post[q].pc \notin Writing)
    <3>1. post'[p].pc = "select" /\ \A q \in Post : q # p => post'[q] = post[q]
      BY <1>0, <2>2, <2>4
    <3> SUFFICES ASSUME calm' PROVE OneAtATime'
      BY DEF OneAtATime
    <3>2. calm /\ inbox = <<>> /\ turn = NULL /\ \A q \in Post : post[q].pc \notin Writing
      BY <2>4 DEF OneAtATime
    <3>3. \A q \in Post : InHand(q)' => q = p
      BY <3>1, <3>2 DEF InHand
    <3>4. \A q \in Post : post'[q].pc # "sent"
      BY <3>1, <3>2 DEF Writing
    <3> QED
      BY <2>1, <3>2, <3>3, <3>4 DEF OneAtATime
  <2> QED
    BY <1>3, <2>3, <2>4 DEF Precheck
<1>4. ASSUME NEW p \in Post, SelectNextForUser(p) \/ InsertUser(p) \/ Undo(p)
      PROVE  OneAtATime'
  <2>1. /\ InHand(p) /\ UNCHANGED <<inbox, turn, running, calm>>
    BY <1>4 DEF SelectNextForUser, InsertUser, Undo, sdk, pipe, InHand, Writing
  <2>3. \E r : post' = [post EXCEPT ![p] = r] /\ r.pc # "sent"
    <3>1. CASE SelectNextForUser(p)
      <4>1. PICK r : /\ post' = [post EXCEPT ![p] = r]
                     /\ \/ r = [post[p] EXCEPT !.pc = "accepted"]
                        \/ r = [post[p] EXCEPT !.pc = "insert", !.base = NextSeq]
        BY <1>0, <3>1 DEF SelectNextForUser
      <4>2. r.pc \in {"accepted", "insert"}
        BY <1>0, <4>1 DEF PostState
      <4> QED
        BY <4>1, <4>2
    <3>2. CASE InsertUser(p)
      <4>1. PICK r : /\ post' = [post EXCEPT ![p] = r]
                     /\ \/ r = [post[p] EXCEPT !.pc = "accepted", !.base = 0, !.seq = 0]
                        \/ r = [post[p] EXCEPT !.pc = "select", !.base = 0, !.seq = 0]
                        \/ r = [post[p] EXCEPT !.pc = "mark", !.base = 0, !.seq = post[p].base]
        BY <1>0, <3>2 DEF InsertUser, Leaves
      <4>2. r.pc \in {"accepted", "select", "mark"}
        BY <1>0, <4>1 DEF PostState
      <4> QED
        BY <4>1, <4>2
    <3>3. CASE Undo(p)
      <4>1. PICK r : /\ post' = [post EXCEPT ![p] = r]
                     /\ r = [post[p] EXCEPT !.pc = "failed", !.base = 0, !.seq = 0]
        BY <1>0, <3>3 DEF Undo, Leaves
      <4>2. r.pc = "failed"
        BY <1>0, <4>1 DEF PostState
      <4> QED
        BY <4>1, <4>2
    <3> QED
      BY <1>4, <3>1, <3>2, <3>3
  <2> QED
    BY <1>0, <2>1, <2>3, HandMoves
<1>5. ASSUME NEW p \in Post, Mark(p)
      PROVE  OneAtATime'
  <2>1. /\ post' = [post EXCEPT ![p] = [post[p] EXCEPT !.pc = "sent"]] /\ post[p].pc = "mark"
        /\ UNCHANGED <<inbox, turn, calm>> /\ running' = TRUE
    BY <1>0, <1>5 DEF Mark, Goto, pipe
  <2>2. \A q \in Post : q # p => post'[q] = post[q]
    BY <1>0, <2>1
  <2>3. \A q \in Post : InHand(q)' => InHand(q)
    BY <2>1, <2>2 DEF InHand, Writing
  <2> QED
    BY <2>1, <2>3, HandStays
<1>6. CASE Accept
  <2>1. PICK p : p = Head(sdkq)
    OBVIOUS
  <2>2. /\ turn' = p /\ sdkq # <<>> /\ Leaves(p, "accepted") /\ UNCHANGED <<inbox, running, calm>>
    BY <1>6, <2>1 DEF Accept, pipe
  <2>3. p \in Post /\ p = sdkq[1] /\ 1 \in DOMAIN sdkq
    BY <1>0, <2>1, <2>2 DEF SdkTypes
  <2>4. post[p].pc = "sent"
    BY <2>3 DEF Prompts
  <2>5. post' = [post EXCEPT ![p] = [post[p] EXCEPT !.pc = "accepted", !.base = 0, !.seq = 0]]
    BY <1>0, <2>2, <2>3 DEF Leaves
  <2>6. post'[p].pc = "accepted" /\ \A q \in Post : q # p => post'[q] = post[q]
    BY <1>0, <2>3, <2>5 DEF PostState
  <2> SUFFICES ASSUME calm' PROVE OneAtATime'
    BY DEF OneAtATime
  <2>7. InHand(p) /\ running /\ inbox = <<>> /\ \A q \in Post : q # p => ~ InHand(q)
    BY <2>2, <2>3, <2>4 DEF OneAtATime, InHand, Writing
  <2>8. \A q \in Post : ~ InHand(q)'
    BY <2>6, <2>7 DEF InHand, Writing
  <2>9. \A q \in Post : post'[q].pc # "sent"
    BY <2>8 DEF InHand, Writing
  <2> QED
    BY <2>2, <2>7, <2>8, <2>9 DEF OneAtATime, NoResult
<1>7. CASE Message
  <2>1. /\ turn # NULL /\ UNCHANGED <<post, turn, running, calm>>
        /\ inbox' = Append(inbox, [t |-> "message", id |-> made'])
    BY <1>7 DEF Message
  <2> SUFFICES ASSUME calm' PROVE OneAtATime'
    BY DEF OneAtATime
  <2>2. running /\ NoResult /\ \A p \in Post : ~ InHand(p)
    BY <2>1 DEF OneAtATime
  <2>3. \A p \in Post : ~ InHand(p)' /\ post'[p].pc # "sent"
    BY <2>1, <2>2 DEF InHand, Writing
  <2>4. PICK m : m = [t |-> "message", id |-> made']
    OBVIOUS
  <2>5. \A i \in DOMAIN inbox' : inbox'[i] = m \/ In(inbox, inbox'[i])
    <3>1. /\ Len(inbox) \in Nat /\ DOMAIN inbox = 1..Len(inbox) /\ DOMAIN inbox' = 1..Len(inbox) + 1
          /\ inbox'[Len(inbox) + 1] = m /\ \A i \in 1..Len(inbox) : inbox'[i] = inbox[i]
      BY <1>0, <2>1, <2>4, AppendProperties DEF PipeTypes
    <3>2. \A i \in DOMAIN inbox' : i = Len(inbox) + 1 \/ i \in DOMAIN inbox
      BY <3>1
    <3> QED
      BY <3>1, <3>2 DEF In
  <2>6. NoResult'
    BY <2>2, <2>4, <2>5 DEF NoResult, In, IsResult
  <2> QED
    BY <2>1, <2>2, <2>3, <2>6 DEF OneAtATime, NoResult
<1>8. CASE EndTurn
  <2>1. turn # NULL /\ turn' = NULL /\ UNCHANGED <<post, running, calm>>
    BY <1>8 DEF EndTurn
  <2> SUFFICES ASSUME calm' PROVE OneAtATime'
    BY DEF OneAtATime
  <2>2. NoResult /\ \A p \in Post : ~ InHand(p)
    BY <2>1 DEF OneAtATime
  <2>3. \A p \in Post : ~ InHand(p)' /\ post'[p].pc # "sent"
    BY <2>1, <2>2 DEF InHand, Writing
  <2>4. /\ inbox' \in Seq(Item) /\ Len(inbox') \in Nat /\ Len(inbox) \in Nat
        /\ \A i \in 1..Len(inbox) : inbox'[i] = inbox[i]
        /\ \A i \in Len(inbox) + 1..Len(inbox') - 1 : inbox'[i].t = "echo"
    BY <1>0, <1>8, EndedInbox
  <2>5. ASSUME NEW i \in DOMAIN inbox', IsResult(inbox'[i])
        PROVE  i = Len(inbox')
    <3>1. DOMAIN inbox' = 1..Len(inbox') /\ DOMAIN inbox = 1..Len(inbox)
      BY <1>0, <2>4 DEF PipeTypes
    <3>2. i \notin 1..Len(inbox)
      BY <2>2, <2>4, <2>5, <3>1 DEF NoResult
    <3>3. i \notin Len(inbox) + 1..Len(inbox') - 1
      BY <2>4, <2>5 DEF IsResult
    <3> QED
      BY <2>4, <3>1, <3>2, <3>3
  <2> QED
    BY <2>1, <2>3, <2>5 DEF OneAtATime
<1>9. CASE ActorDies
  BY <1>9 DEF ActorDies, OneAtATime
<1>10. ASSUME NEW rows, NEW ms, Handled(rows, ms), inbox # <<>>, UNCHANGED <<post, turn, calm>>
       PROVE  OneAtATime'
  <2> SUFFICES ASSUME calm' PROVE OneAtATime'
    BY DEF OneAtATime
  <2>1. \A p \in Post : ~ InHand(p)
    BY <1>10 DEF OneAtATime
  <2>2. \A p \in Post : ~ InHand(p)' /\ post'[p].pc # "sent"
    BY <1>10, <2>1 DEF InHand, Writing
  <2>3. inbox' = Tail(inbox) /\ (running' = running \/ EndsTurn)
    BY <1>10 DEF Handled
  <2>4. /\ Len(inbox) \in Nat \ {0} /\ DOMAIN inbox = 1..Len(inbox) /\ Head(inbox) = inbox[1]
        /\ DOMAIN inbox' = 1..Len(inbox) - 1 /\ Len(inbox') = Len(inbox) - 1
        /\ \A i \in 1..Len(inbox) - 1 : inbox'[i] = inbox[i + 1]
    BY <1>0, <1>10, <2>3, HeadTailProperties, EmptySeq DEF PipeTypes
  <2>5. \A i \in DOMAIN inbox' : i + 1 \in DOMAIN inbox /\ inbox'[i] = inbox[i + 1]
    BY <2>4
  <2>6. \A i \in DOMAIN inbox' : IsResult(inbox'[i]) => i = Len(inbox')
    <3>1. \A i \in DOMAIN inbox' : IsResult(inbox'[i]) => i + 1 = Len(inbox)
      BY <1>10, <2>5 DEF OneAtATime
    <3> QED
      BY <2>4, <3>1
  <2>7. NoResult => NoResult'
    BY <2>5 DEF NoResult
  <2>8. EndsTurn => ~ NoResult
    BY <2>4 DEF EndsTurn, Now, NoResult, IsResult
  <2>9. turn' # NULL => running' /\ NoResult'
    BY <1>10, <2>3, <2>7, <2>8 DEF OneAtATime
  <2> QED
    BY <2>2, <2>6, <2>9 DEF OneAtATime
<1>11. CASE HandleCompleted
  BY <1>10, <1>11 DEF HandleCompleted, Now, sdk
<1>12. CASE CheckTail
  BY <1>1, <1>10, <1>12 DEF CheckTail, Now, sdk
<1>13. CASE Insert
  BY <1>0, <1>1, <1>10, <1>13 DEF Insert, sdk, PipeTypes
<1>14. CASE \/ UNCHANGED vars \/ \E x \in Proc : EnsureStep(x)
            \/ Delta \/ SelectNext
            \/ \E v \in Viewer : Open(v) \/ ViewerStep(v)
  <2>1. UNCHANGED <<post, inbox, turn, running, calm>>
    BY <1>14 DEF vars, EnsureStep, HasEntries, LockBackfill, Backfill, Delta, SelectNext,
                 Open, ViewerStep, List, TakeEntry, TakeOther, Beat, sdk, pipe
  <2> QED
    BY <1>1, <2>1
<1> QED
  BY <1>2, <1>3, <1>4, <1>5, <1>6, <1>7, <1>8, <1>9, <1>11, <1>12, <1>13, <1>14
     DEF Next, PostStep, InboxStep

-----------------------------------------------------------------------------
(* What a calm stream has shown, and what its queue still brings *)

\* A message in a queue is true to the log l.
Matches(m, l) ==
    /\ m.t = "entry" => m.seq \in DOMAIN l /\ m.entry = l[m.seq]
    /\ m.t = "complete" => m.seq \in DOMAIN l \cup {-1}

\* What the cursor of the stream r has passed, it has shown.
ShownUpTo(l, r) ==
    /\ r.last \in DOMAIN l \cup {-1}
    /\ \A n \in DOMAIN l : n <= r.last => In(r.seen, [seq |-> n, entry |-> l[n]])

\* The queue q brings the rows of l to the stream r in their order ...
Serves(q, l, r) ==
    /\ \A i \in DOMAIN q : Matches(q[i], l)
    /\ r.pc = "live" => Behind(q, DOMAIN l, r.last)

\* ... and all of them but those of W.
Reaches(q, l, r, W) == r.pc = "live" => \A n \in DOMAIN l : Covers(q, n, r.last) \/ n \in W

\* The rows of user entries that are still to be broadcast.
OnTheWay == {post[p].seq : p \in {x \in Post : post[x].pc \in {"mark", "sent"}}}

\* What a stream of a calm session has shown and will be brought.
Streams(v) ==
    /\ ShownUpTo(log, view[v])
    /\ Serves(queue[v], log, view[v])
    /\ v \in subs => Reaches(queue[v], log, view[v], OnTheWay)

\* It holds of every stream.
CalmStreams == calm => \A v \in Viewer : Streams(v)

\* A step that leaves the stream, its queue and the log alone.
LEMMA StreamStays ==
    ASSUME NEW v \in Viewer, Streams(v), view'[v] = view[v], queue'[v] = queue[v], log' = log,
           v \in subs' => v \in subs, OnTheWay \subseteq OnTheWay'
    PROVE  Streams(v)'
BY DEF Streams, Reaches

\* Rows that come in behind all others.
Grows(l, k) == /\ DOMAIN l \subseteq DOMAIN k /\ \A n \in DOMAIN l : k[n] = l[n]
               /\ \A n \in DOMAIN k \ DOMAIN l : \A m \in DOMAIN l : m < n

\* The queue goes on serving a log that has grown.
LEMMA ServesGrown ==
    ASSUME NEW l, NEW k, Grows(l, k), DOMAIN k \subseteq Nat, NEW q \in Seq(Notice), NEW r \in ViewState,
           ShownUpTo(l, r), Serves(q, l, r)
    PROVE  ShownUpTo(k, r) /\ Serves(q, k, r)
<1> DEFINE S == DOMAIN l
           T == DOMAIN k
<1>1. S \subseteq T /\ T \subseteq Nat /\ (\A n \in S : k[n] = l[n]) /\ \A n \in T \ S : \A m \in S : m < n
  BY DEF Grows
<1>2. /\ r.last \in S \cup {-1}
      /\ \A n \in S : n <= r.last => In(r.seen, [seq |-> n, entry |-> l[n]])
  BY DEF ShownUpTo
<1>3. \A i \in DOMAIN q : /\ q[i].t = "entry" => q[i].seq \in S /\ q[i].entry = l[q[i].seq]
                          /\ q[i].t = "complete" => q[i].seq \in S \cup {-1}
  BY DEF Serves, Matches
<1>4. r.pc = "live" => Behind(q, S, r.last)
  BY DEF Serves
<1> HIDE DEF S, T
<1>5. r.last \in T \cup {-1} /\ \A n \in T : n <= r.last => n \in S
  <2>1. PICK z : z = r.last
    OBVIOUS
  <2>2. \A n \in T \ S : ~ (n <= z)
    <3>1. CASE z = -1
      BY <1>1, <3>1
    <3>2. CASE z \in S
      <4>1. \A n \in T \ S : z < n /\ z \in Nat /\ n \in Nat
        BY <1>1, <3>2
      <4> QED
        BY <4>1
    <3> QED
      BY <1>2, <2>1, <3>1, <3>2
  <2> QED
    BY <1>1, <1>2, <2>1, <2>2
<1>6. \A n \in T : n <= r.last => In(r.seen, [seq |-> n, entry |-> k[n]])
  BY <1>1, <1>2, <1>5
<1>7. \A i \in DOMAIN q : /\ q[i].t = "entry" => q[i].seq \in T /\ q[i].entry = k[q[i].seq]
                          /\ q[i].t = "complete" => q[i].seq \in T \cup {-1}
  BY <1>1, <1>3
<1>8. ASSUME NEW i \in DOMAIN q, NEW n \in T, ComesBehind(q[i], n)
      PROVE  n \in S
  <2>1. q[i].t \in {"entry", "complete"} /\ (n < q[i].seq \/ n = q[i].seq)
    BY <1>8 DEF ComesBehind
  <2>2. q[i].seq \in S \cup {-1}
    BY <1>3, <2>1
  <2>3. CASE n \notin S
    <3>1. PICK z : z = q[i].seq
      OBVIOUS
    <3>2. CASE z = -1
      BY <1>1, <2>1, <3>1, <3>2
    <3>3. CASE z \in S
      <4>1. z < n /\ z \in Nat /\ n \in Nat
        BY <1>1, <2>3, <3>3
      <4> QED
        BY <2>1, <3>1, <4>1
    <3> QED
      BY <2>2, <3>1, <3>2, <3>3
  <2> QED
    BY <2>3
<1>9. r.pc = "live" => Behind(q, T, r.last)
  BY <1>4, <1>8 DEF Behind
<1> QED
  BY <1>5, <1>6, <1>7, <1>9 DEF ShownUpTo, Serves, Matches, T

\* A row comes in that a post will have to broadcast, or that nobody waits for.
LEMMA StreamGrows ==
    ASSUME NEW v \in Viewer, ChanTypes, ViewTypes, Streams(v), Grows(log, log'), Rows' \subseteq Nat,
           view'[v] = view[v], queue'[v] = queue[v], subs' = subs,
           view[v].pc = "live" => Rows' \ Rows \subseteq OnTheWay', OnTheWay \subseteq OnTheWay'
    PROVE  Streams(v)'
<1>1. queue[v] \in Seq(Notice) /\ view[v] \in ViewState
  BY DEF ChanTypes, Chan, Channels, ViewTypes
<1>2. ShownUpTo(log', view[v]) /\ Serves(queue[v], log', view[v])
  BY <1>1, ServesGrown DEF Streams, Rows
<1>3. v \in subs => Reaches(queue[v], log', view[v], OnTheWay')
  BY DEF Streams, Reaches, Rows
<1> QED
  BY <1>2, <1>3 DEF Streams

\* A queue that took m in serves the same stream.
LEMMA SentServes ==
    ASSUME NEW c \in Channels, NEW d \in Channels, NEW m \in Notice, SentTo(c, d, m), NEW v \in Viewer,
           NEW l, DOMAIN l \subseteq Nat, NEW r \in ViewState, NEW W, Matches(m, l), Serves(c.queue[v], l, r),
           v \in c.subs => Reaches(c.queue[v], l, r, W),
           \A n \in DOMAIN l : ComesBehind(m, n) => n \notin W
    PROVE  /\ Serves(d.queue[v], l, r)
           /\ v \in d.subs => Reaches(d.queue[v], l, r, IF m.t = "entry" THEN W \ {m.seq} ELSE W)
<1> DEFINE q == c.queue[v]
           p == d.queue[v]
           S == DOMAIN l
<1>1. q \in Seq(Notice) /\ p \in Seq(Notice) /\ r.last \in Nat \cup {-1}
  BY DEF Channels, ViewState
<1>2. \A i \in DOMAIN p : Matches(p[i], l)
  <2>1. Matches(Eos, l)
    BY DEF Matches, Eos
  <2>2. \A i \in DOMAIN p : p[i] = m \/ p[i] = Eos \/ In(q, p[i])
    BY SentQueued
  <2> QED
    BY <2>1, <2>2 DEF Serves, In
<1>3. CASE r.pc # "live"
  BY <1>2, <1>3 DEF Serves, Reaches
<1>4. CASE r.pc = "live" /\ v \notin c.subs
  <2>1. p = q /\ v \notin d.subs
    BY <1>4 DEF SentTo
  <2> QED
    BY <1>4, <2>1
<1>5. CASE r.pc = "live" /\ v \in c.subs /\ v \notin d.subs
  <2>1. p = <<Eos>>
    BY <1>5 DEF SentTo
  <2>2. \A i \in DOMAIN p : \A n : ~ ComesBehind(p[i], n)
    BY <2>1 DEF ComesBehind, Eos
  <2> QED
    BY <1>2, <1>5, <2>2 DEF Serves, Behind
<1>6. CASE r.pc = "live" /\ v \in c.subs /\ v \in d.subs
  <2>1. TakesIn(q, p, m) /\ Behind(q, S, r.last) /\ S \in SUBSET Nat
    BY <1>6 DEF SentTo, Serves
  <2>2. \A n \in S : Covers(q, n, r.last) \/ n \in W
    BY <1>6 DEF Reaches
  <2>3. \A n \in S : ComesBehind(m, n) => Covers(q, n, r.last)
    BY <2>2
  <2> HIDE DEF q, p, S
  <2>4. /\ Behind(p, S, r.last)
        /\ \A n : Has(q, Len(q), n) => Has(p, Len(p), n)
        /\ m.t = "entry" => Has(p, Len(p), m.seq)
    BY <1>1, <2>1, <2>3, BehindTaken
  <2>5. \A n \in S : Covers(p, n, r.last) \/ n \in (IF m.t = "entry" THEN W \ {m.seq} ELSE W)
    BY <2>2, <2>4 DEF Covers
  <2> QED
    BY <1>2, <2>4, <2>5 DEF Serves, Reaches, p, S
<1> QED
  BY <1>3, <1>4, <1>5, <1>6

\* A broadcast.
LEMMA StreamSent ==
    ASSUME NEW v \in Viewer, ChanTypes, ChanTypes', ViewTypes, RowTypes, Streams(v), NEW m \in Notice,
           SentTo(Chan, Chan', m), Matches(m, log), view'[v] = view[v], log' = log,
           \A n \in Rows : ComesBehind(m, n) => n \notin OnTheWay,
           OnTheWay \subseteq OnTheWay' \cup (IF m.t = "entry" THEN {m.seq} ELSE {})
    PROVE  Streams(v)'
<1>1. /\ Chan \in Channels /\ Chan' \in Channels /\ Chan.queue[v] = queue[v] /\ Chan'.queue[v] = queue'[v]
      /\ Chan.subs = subs /\ Chan'.subs = subs' /\ view[v] \in ViewState
  BY DEF ChanTypes, Chan, ViewTypes
<1>2. DOMAIN log \subseteq Nat
  BY DEF RowTypes, Rows
<1>3. /\ Serves(queue[v], log, view[v])
      /\ v \in subs => Reaches(queue[v], log, view[v], OnTheWay)
  BY DEF Streams
<1>4. PICK c, d, r, W : c = Chan /\ d = Chan' /\ r = view[v] /\ W = OnTheWay
  OBVIOUS
<1>5. /\ c \in Channels /\ d \in Channels /\ SentTo(c, d, m) /\ r \in ViewState
      /\ Serves(c.queue[v], log, r) /\ (v \in c.subs => Reaches(c.queue[v], log, r, W))
      /\ \A n \in DOMAIN log : ComesBehind(m, n) => n \notin W
  BY <1>1, <1>3, <1>4 DEF Rows
<1>6. /\ Serves(d.queue[v], log, r)
      /\ v \in d.subs => Reaches(d.queue[v], log, r, IF m.t = "entry" THEN W \ {m.seq} ELSE W)
  BY <1>2, <1>5, SentServes
<1>7. (IF m.t = "entry" THEN W \ {m.seq} ELSE W) \subseteq OnTheWay'
  BY <1>4
<1>8. v \in d.subs => Reaches(d.queue[v], log, r, OnTheWay')
  BY <1>6, <1>7 DEF Reaches
<1>9. ShownUpTo(log, view[v])
  BY DEF Streams
<1>10. queue'[v] = d.queue[v] /\ subs' = d.subs /\ view'[v] = r
  BY <1>1, <1>4
<1> QED
  BY <1>4, <1>6, <1>8, <1>9, <1>10 DEF Streams

\* The head of the inbox is done with.
LEMMA StreamHandled ==
    ASSUME NEW v \in Viewer, ChanTypes, ChanTypes', ViewTypes, RowTypes', Streams(v), NEW ms, NEW mid \in Channels,
           HandledAs(Rows', ms, mid), view'[v] = view[v], OnTheWay = {}, Grows(log, log'),
           \/ ms = <<>> /\ Rows' = Rows
           \/ \E n \in Rows' : /\ ms = <<Shown(n, log'[n])>> /\ Rows' = Rows \cup {n}
                               /\ Shown(n, log'[n]) \in Notice,
           EndsTurn => TurnEnded(Rows') \in Notice /\ Matches(TurnEnded(Rows'), log')
    PROVE  Streams(v)'
<1>1. /\ Chan \in Channels /\ Chan' \in Channels /\ Chan.queue[v] = queue[v] /\ Chan'.queue[v] = queue'[v]
      /\ Chan.subs = subs /\ Chan'.subs = subs' /\ view[v] \in ViewState /\ queue[v] \in Seq(Notice)
  BY DEF ChanTypes, Chan, ViewTypes, Channels
<1>2. DOMAIN log' \subseteq Nat
  BY DEF RowTypes, Rows
<1>3. PICK c, d, r, l : c = Chan /\ d = Chan' /\ r = view[v] /\ l = log'
  OBVIOUS
<1>4. ShownUpTo(l, r) /\ Serves(c.queue[v], l, r)
  BY <1>1, <1>2, <1>3, ServesGrown DEF Streams
<1>5. v \in c.subs => Reaches(c.queue[v], log, r, {})
  BY <1>1, <1>3 DEF Streams
<1>6. Serves(mid.queue[v], l, r) /\ (v \in mid.subs => Reaches(mid.queue[v], l, r, {}))
  <2>1. CASE ms = <<>> /\ Rows' = Rows
    <3>1. mid = c
      BY <1>3, <2>1 DEF HandledAs
    <3>2. v \in c.subs => Reaches(c.queue[v], l, r, {})
      BY <1>3, <1>5, <2>1 DEF Reaches, Rows
    <3> QED
      BY <1>4, <3>1, <3>2
  <2>2. ASSUME NEW n \in Rows', ms = <<Shown(n, l[n])>>, Rows' = Rows \cup {n}, Shown(n, l[n]) \in Notice
        PROVE  Serves(mid.queue[v], l, r) /\ (v \in mid.subs => Reaches(mid.queue[v], l, r, {}))
    <3>1. PICK m : m = Shown(n, l[n])
      OBVIOUS
    <3>2. SentTo(c, mid, m) /\ m \in Notice /\ m.t = "entry" /\ m.seq = n
      BY <1>3, <2>2, <3>1 DEF HandledAs, Shown
    <3>3. Matches(m, l)
      BY <1>3, <3>1 DEF Matches, Shown, Rows
    <3>4. v \in c.subs => Reaches(c.queue[v], l, r, {n})
      BY <1>3, <1>5, <2>2 DEF Reaches, Rows
    <3>5. \A x \in DOMAIN l : ComesBehind(m, x) => x \notin {n}
      BY <1>2, <1>3, <3>2 DEF ComesBehind
    <3>6. /\ Serves(mid.queue[v], l, r)
          /\ v \in mid.subs => Reaches(mid.queue[v], l, r, IF m.t = "entry" THEN {n} \ {m.seq} ELSE {n})
      BY <1>1, <1>2, <1>3, <1>4, <3>2, <3>3, <3>4, <3>5, SentServes
    <3>7. (IF m.t = "entry" THEN {n} \ {m.seq} ELSE {n}) = {}
      BY <3>2
    <3> QED
      BY <3>6, <3>7
  <2> QED
    BY <1>3, <2>1, <2>2
<1>7. Serves(d.queue[v], l, r) /\ (v \in d.subs => Reaches(d.queue[v], l, r, {}))
  <2>1. CASE EndsTurn
    <3>1. PICK m : m = TurnEnded(Rows')
      OBVIOUS
    <3>2. SentTo(mid, d, m) /\ m \in Notice /\ m.t # "entry" /\ Matches(m, l)
      BY <1>3, <2>1, <3>1 DEF HandledAs, TurnEnded, Complete
    <3>3. PICK W : W = {}
      OBVIOUS
    <3>4. /\ mid \in Channels /\ d \in Channels /\ DOMAIN l \subseteq Nat /\ r \in ViewState
          /\ Serves(mid.queue[v], l, r) /\ (v \in mid.subs => Reaches(mid.queue[v], l, r, W))
          /\ \A x \in DOMAIN l : ComesBehind(m, x) => x \notin W
      BY <1>1, <1>2, <1>3, <1>6, <3>3
    <3>5. /\ Serves(d.queue[v], l, r)
          /\ v \in d.subs => Reaches(d.queue[v], l, r, IF m.t = "entry" THEN W \ {m.seq} ELSE W)
      BY <3>2, <3>4, SentServes
    <3> QED
      BY <3>2, <3>3, <3>5
  <2>2. CASE ~ EndsTurn
    BY <1>3, <1>6, <2>2 DEF HandledAs
  <2> QED
    BY <2>1, <2>2
<1>8. v \in d.subs => Reaches(d.queue[v], l, r, OnTheWay')
  BY <1>7 DEF Reaches
<1> QED
  BY <1>1, <1>3, <1>4, <1>7, <1>8 DEF Streams

-----------------------------------------------------------------------------
(* The steps of a calm stream *)

\* A post moves on and keeps what it still has to broadcast.
LEMMA WayStays ==
    ASSUME PostTypes, NEW p \in Post, NEW r, post' = [post EXCEPT ![p] = r],
           post[p].pc \in {"mark", "sent"} => r.pc \in {"mark", "sent"} /\ r.seq = post[p].seq
    PROVE  OnTheWay \subseteq OnTheWay'
<1>1. post'[p] = r /\ \A q \in Post : q # p => post'[q] = post[q]
  BY DEF PostTypes
<1>2. \A q \in Post : post[q].pc \in {"mark", "sent"} =>
          post'[q].pc \in {"mark", "sent"} /\ post'[q].seq = post[q].seq
  BY <1>1
<1> QED
  BY <1>2 DEF OnTheWay

\* No post is in hand while the inbox task works.
LEMMA NobodyOnTheWay ==
    ASSUME OneAtATime, calm, inbox # <<>> \/ turn # NULL
    PROVE  OnTheWay = {}
BY DEF OneAtATime, OnTheWay, InHand, Writing

\* The rows after a step of a calm session.
LEMMA GrownAt ==
    ASSUME RowTypes, NEW n \in Nat, NEW e \in EntrySet, log' = With(n, e), n \notin Rows,
           \A m \in Rows : Filled(m), Filled(n)
    PROVE  /\ Grows(log, log') /\ Rows' = Rows \cup {n} /\ log'[n] = e
<1>1. Rows' = Rows \cup {n} /\ log'[n] = e /\ \A m \in Rows : m # n => log'[m] = log[m]
  BY Adding
<1>2. \A m \in Rows : m < n
  BY FilledUp
<1> QED
  BY <1>1, <1>2 DEF Grows, Rows

\* A log that stays has grown by nothing.
LEMMA Same == ASSUME log' = log PROVE Grows(log, log') /\ Rows' = Rows
BY DEF Grows, Rows

\* The end of a turn is true to the log.
LEMMA EndMatches ==
    ASSUME RowTypes'
    PROVE  TurnEnded(Rows') \in Notice /\ Matches(TurnEnded(Rows'), log')
<1>1. PICK n : n = IF Rows' = {} THEN -1 ELSE Max(Rows')
  OBVIOUS
<1>2. n \in Rows' \cup {-1} /\ n \in Nat \cup {-1}
  <2>1. CASE Rows' = {}
    BY <1>1, <2>1
  <2>2. CASE Rows' # {}
    <3>1. PICK b \in Nat : Rows' \subseteq 0..b
      BY DEF RowTypes
    <3>2. PICK S : S = Rows'
      OBVIOUS
    <3>3. Max(S) \in S
      BY <2>2, <3>1, <3>2, GreatestNumber
    <3>4. n = Max(S)
      BY <1>1, <2>2, <3>2
    <3>5. n \in Rows'
      BY <3>2, <3>3, <3>4
    <3> HIDE DEF Rows
    <3> QED
      BY <3>1, <3>5
  <2> QED
    BY <2>1, <2>2
<1>3. TurnEnded(Rows') = Complete(n)
  BY <1>1 DEF TurnEnded
<1>4. Complete(n) \in Notice
  BY <1>2, EntryTypes
<1>5. Complete(n).t = "complete" /\ Complete(n).seq = n
  BY DEF Complete
<1> QED
  BY <1>2, <1>3, <1>4, <1>5 DEF Matches, Rows

\* The broadcasts for the head of the inbox reach every stream.
LEMMA HandledStreams ==
    ASSUME LogTypes, LogTypes', CalmStreams, OneAtATime, calm, inbox # <<>>, NEW ms, Handled(Rows', ms),
           view' = view, calm' = calm, faults' = faults, Grows(log, log'),
           \/ ms = <<>> /\ Rows' = Rows
           \/ \E n \in Rows' : /\ ms = <<Shown(n, log'[n])>> /\ Rows' = Rows \cup {n}
                               /\ Shown(n, log'[n]) \in Notice
    PROVE  \A v \in Viewer : Streams(v)'
<1>0. /\ ChanTypes /\ ChanTypes' /\ ViewTypes /\ PipeTypes /\ FlagTypes /\ RowTypes'
  BY DEF LogTypes
<1>1. EndsTurn => TurnEnded(Rows') \in Notice /\ Matches(TurnEnded(Rows'), log')
  BY <1>0, EndMatches
<1>2. ms = <<>> \/ \E m \in Notice : ms = <<m>>
  OBVIOUS
<1>3. PICK mid \in Channels : HandledAs(Rows', ms, mid)
  BY <1>0, <1>1, <1>2, Handling
<1>4. OnTheWay = {}
  BY NobodyOnTheWay
<1> TAKE v \in Viewer
<1>5. Streams(v)
  BY DEF CalmStreams
<1> QED
  BY <1>0, <1>1, <1>3, <1>4, <1>5, StreamHandled

\* The stream of another viewer goes on as it is.
LEMMA OthersStay ==
    ASSUME CalmStreams, calm, log' = log, post' = post, NEW v \in Viewer,
           \A u \in Viewer : u # v => view'[u] = view[u] /\ queue'[u] = queue[u],
           subs' \subseteq subs \cup {v}, Streams(v)'
    PROVE  \A u \in Viewer : Streams(u)'
<1> SUFFICES ASSUME NEW u \in Viewer, u # v PROVE Streams(u)'
  OBVIOUS
<1>1. view'[u] = view[u] /\ queue'[u] = queue[u] /\ (u \in subs' => u \in subs)
  OBVIOUS
<1>2. OnTheWay' = OnTheWay
  BY DEF OnTheWay
<1> QED
  BY <1>1, <1>2, StreamStays DEF CalmStreams

\* A stream that is not live.
LEMMA StreamEnds ==
    ASSUME NEW v \in Viewer, log' = log, ShownUpTo(log, view'[v]), view'[v].pc # "live",
           queue'[v] = <<>> \/ (queue'[v] = queue[v] /\ Streams(v))
    PROVE  Streams(v)'
BY DEF Streams, Serves, Reaches

\* The listing shows everything there is.
LEMMA ListedUpTo ==
    ASSUME RowTypes, ViewTypes, NEW v \in Viewer, ShownUpTo(log, view[v])
    PROVE  ShownUpTo(log, ShowAll(v)) /\ \A n \in Rows : n <= ShowAll(v).last
<1>1. PICK old, r : old = view[v] /\ r = ShowAll(v)
  OBVIOUS
<1>2. /\ \A n \in Rows : n <= r.last
      /\ r.last = old.last \/ r.last \in Rows
      /\ \A x : In(old.seen, x) => In(r.seen, x)
      /\ \A n \in Rows : n > old.last => In(r.seen, LineOf(n))
  BY <1>1, ListShows DEF AfterList
<1>3. old.last \in Nat \cup {-1} /\ \A n \in Rows : n \in Nat
  BY <1>1, NextIsNew DEF ViewTypes, ViewState
<1>4. r.last \in DOMAIN log \cup {-1}
  BY <1>1, <1>2 DEF ShownUpTo, Rows
<1>5. ASSUME NEW n \in Rows
      PROVE  In(r.seen, [seq |-> n, entry |-> log[n]])
  <2>1. CASE n > old.last
    BY <1>2, <2>1 DEF LineOf
  <2>2. CASE n <= old.last
    <3>1. In(old.seen, [seq |-> n, entry |-> log[n]])
      BY <1>1, <2>2 DEF ShownUpTo, Rows
    <3> QED
      BY <1>2, <3>1
  <2> QED
    BY <1>3, <2>1, <2>2
<1> QED
  BY <1>1, <1>2, <1>4, <1>5 DEF ShownUpTo, Rows

\* A stream becomes live by its listing.
LEMMA ListStreams ==
    ASSUME LogTypes, NEW v \in Viewer, List(v), Streams(v)
    PROVE  Streams(v)'
<1>0. RowTypes /\ ViewTypes /\ view \in [Viewer -> ViewState] /\ queue \in [Viewer -> Seq(Notice)]
  BY DEF LogTypes, ViewTypes, ChanTypes, Chan, Channels
<1>1. PICK s : s = ShowAll(v)
  OBVIOUS
<1>2. s \in ViewState /\ ShownUpTo(log, s) /\ \A n \in Rows : n <= s.last
  BY <1>0, <1>1, ListShows, ListedUpTo DEF AfterList, Streams
<1>3. log' = log
  BY DEF List
<1>4. CASE view' = [view EXCEPT ![v] = [s EXCEPT !.pc = "live"]] /\ queue' = queue
  <2>1. PICK r : r = [s EXCEPT !.pc = "live"]
    OBVIOUS
  <2>2. r.last = s.last /\ r.seen = s.seen /\ view'[v] = r /\ queue'[v] = queue[v]
    BY <1>0, <1>2, <1>4, <2>1 DEF ViewState
  <2>3. ShownUpTo(log, r)
    BY <1>2, <2>2 DEF ShownUpTo
  <2>4. Behind(queue[v], DOMAIN log, r.last)
    BY <1>2, <2>2 DEF Behind, Rows
  <2>5. \A n \in DOMAIN log : Covers(queue[v], n, r.last)
    BY <1>2, <2>2 DEF Covers, Rows
  <2> QED
    BY <1>3, <2>2, <2>3, <2>4, <2>5 DEF Streams, Serves, Reaches
<1>5. CASE view' = [view EXCEPT ![v] = Ended(s)] /\ Leave(v)
  <2>1. view'[v] = Ended(s) /\ queue'[v] = <<>>
    BY <1>0, <1>5 DEF Leave
  <2>2. Ended(s).last = s.last /\ Ended(s).seen = s.seen /\ Ended(s).pc = "off"
    BY <1>2 DEF Ended, ViewState
  <2>3. ShownUpTo(log, view'[v])
    BY <1>2, <2>1, <2>2 DEF ShownUpTo
  <2> QED
    BY <1>3, <2>1, <2>2, <2>3, StreamEnds
<1> QED
  BY <1>1, <1>4, <1>5 DEF List, channel

\* The head of the queue has been read.
LEMMA StreamReads ==
    ASSUME LogTypes, NEW v \in Viewer, Streams(v), view[v].pc = "live", view'[v].pc = "live", queue[v] # <<>>,
           queue'[v] = Tail(queue[v]), subs' = subs, log' = log, post' = post, view'[v] \in ViewState,
           ShownUpTo(log, view'[v]), view[v].last <= view'[v].last,
           Head(queue[v]).t = "entry" => Head(queue[v]).seq <= view'[v].last
    PROVE  Streams(v)'
<1> DEFINE q == queue[v]
           S == DOMAIN log
<1>0. RowTypes /\ ViewTypes /\ q \in Seq(Notice) /\ view[v] \in ViewState
  BY DEF LogTypes, ViewTypes, ChanTypes, Chan, Channels
<1>1. PICK old, new : old = view[v].last /\ new = view'[v].last
  OBVIOUS
<1>2. old \in Nat \cup {-1} /\ new \in Nat \cup {-1} /\ S \in SUBSET Nat
  BY <1>0, <1>1 DEF ViewState, RowTypes, Rows
<1>3. Behind(q, S, old) /\ \A i \in DOMAIN q : Matches(q[i], log)
  BY <1>1 DEF Streams, Serves
<1>4. v \in subs => \A n \in S : Covers(q, n, old) \/ n \in OnTheWay
  BY <1>1 DEF Streams, Reaches
<1>5. q # <<>> /\ old <= new /\ (Head(q).t = "entry" => Head(q).seq <= new) /\ queue'[v] = Tail(q)
  BY <1>1
<1> HIDE DEF q, S
<1>6. Behind(Tail(q), S, new) /\ \A n \in S : Covers(q, n, old) => Covers(Tail(q), n, new)
  BY <1>0, <1>2, <1>3, <1>5, BehindTail
<1>7. \A i \in DOMAIN Tail(q) : i + 1 \in DOMAIN q /\ Tail(q)[i] = q[i + 1]
  <2>1. /\ Len(q) \in Nat \ {0} /\ DOMAIN q = 1..Len(q) /\ DOMAIN Tail(q) = 1..Len(q) - 1
        /\ \A i \in 1..Len(q) - 1 : Tail(q)[i] = q[i + 1]
    BY <1>0, <1>5, HeadTailProperties, EmptySeq
  <2> QED
    BY <2>1
<1>8. Serves(Tail(q), log, view'[v])
  BY <1>1, <1>3, <1>6, <1>7 DEF Serves, S
<1>9. OnTheWay' = OnTheWay
  BY DEF OnTheWay
<1>10. v \in subs => Reaches(Tail(q), log, view'[v], OnTheWay)
  BY <1>1, <1>4, <1>6 DEF Reaches, S
<1> QED
  BY <1>5, <1>8, <1>9, <1>10 DEF Streams

\* An entry is read.
LEMMA EntryStreams ==
    ASSUME LogTypes, LogTypes', NEW v \in Viewer, TakeEntry(v), Streams(v)
    PROVE  Streams(v)'
<1>0. RowTypes /\ ViewTypes /\ ChanTypes /\ view \in [Viewer -> ViewState] /\ queue \in [Viewer -> Seq(Notice)]
      /\ view' \in [Viewer -> ViewState]
  BY DEF LogTypes, ViewTypes, ChanTypes, Chan, Channels
<1>1. AfterEntry(v, Head(queue[v]), view'[v])
  BY <1>0, EntryTaken
<1>2. PICK m, old, new : m = Head(queue[v]) /\ old = view[v] /\ new = view'[v]
  OBVIOUS
<1>3. /\ m.t = "entry" /\ m.seq \in Nat /\ new.pc = old.pc /\ old.last \in Nat \cup {-1}
      /\ \/ m.seq <= old.last /\ new = old
         \/ /\ ~ (m.seq <= old.last) /\ new.last = m.seq
            /\ \A x : In(new.seen, x) <=> In(old.seen, x) \/ x = [seq |-> m.seq, entry |-> m.entry]
  BY <1>0, <1>1, <1>2 DEF AfterEntry, ViewState
<1>4. /\ old.pc = "live" /\ queue[v] # <<>> /\ queue' = [queue EXCEPT ![v] = Tail(@)]
      /\ UNCHANGED <<log, post, subs>>
  BY <1>2 DEF TakeEntry, logged
<1>5. queue'[v] = Tail(queue[v]) /\ 1 \in DOMAIN queue[v] /\ queue[v][1] = m
  BY <1>0, <1>2, <1>4
<1>6. m.seq \in Rows /\ m.entry = log[m.seq] /\ Behind(queue[v], Rows, old.last) /\ ShownUpTo(log, old)
  BY <1>2, <1>3, <1>4, <1>5 DEF Streams, Serves, Matches, Rows
<1>7. old.last <= new.last /\ m.seq <= new.last
  BY <1>3
<1>8. ShownUpTo(log, new)
  <2>1. CASE new = old
    BY <1>6, <2>1
  <2>2. CASE /\ ~ (m.seq <= old.last) /\ new.last = m.seq
             /\ \A x : In(new.seen, x) <=> In(old.seen, x) \/ x = [seq |-> m.seq, entry |-> m.entry]
    <3>1. ASSUME NEW n \in Rows, n <= m.seq
          PROVE  In(new.seen, [seq |-> n, entry |-> log[n]])
      <4>1. CASE n = m.seq
        BY <1>6, <2>2, <4>1
      <4>2. CASE n # m.seq
        <5>1. n \in Nat
          BY <1>0, NextIsNew
        <5>2. ComesBehind(queue[v][1], n)
          BY <1>3, <1>5, <3>1, <4>2, <5>1 DEF ComesBehind
        <5>3. n <= old.last \/ Has(queue[v], 1 - 1, n)
          BY <1>5, <1>6, <5>2 DEF Behind
        <5>4. ~ Has(queue[v], 1 - 1, n)
          BY DEF Has
        <5>5. In(old.seen, [seq |-> n, entry |-> log[n]])
          BY <1>6, <5>3, <5>4 DEF ShownUpTo, Rows
        <5> QED
          BY <2>2, <5>5
      <4> QED
        BY <4>1, <4>2
    <3> QED
      BY <1>6, <2>2, <3>1 DEF ShownUpTo, Rows
  <2> QED
    BY <1>3, <2>1, <2>2
<1> QED
  BY <1>0, <1>2, <1>3, <1>4, <1>5, <1>7, <1>8, StreamReads

\* Anything else is read, or the stream ends.
LEMMA OtherStreams ==
    ASSUME LogTypes, LogTypes', NEW v \in Viewer, TakeOther(v) \/ Beat(v), Streams(v)
    PROVE  Streams(v)'
<1>0. ViewTypes /\ view \in [Viewer -> ViewState] /\ queue \in [Viewer -> Seq(Notice)] /\ view' \in [Viewer -> ViewState]
  BY DEF LogTypes, ViewTypes, ChanTypes, Chan, Channels
<1>1. log' = log /\ post' = post /\ view[v].pc = "live" /\ ShownUpTo(log, view[v])
  BY DEF TakeOther, Beat, logged, Streams
<1>2. /\ Ended(view[v]).last = view[v].last /\ Ended(view[v]).seen = view[v].seen /\ Ended(view[v]).pc = "off"
      /\ [view[v] EXCEPT !.pending = TRUE].last = view[v].last
      /\ [view[v] EXCEPT !.pending = TRUE].seen = view[v].seen
      /\ [view[v] EXCEPT !.pending = TRUE].pc = "live"
      /\ [view[v] EXCEPT !.beats = 1].last = view[v].last
      /\ [view[v] EXCEPT !.beats = 1].seen = view[v].seen
      /\ [view[v] EXCEPT !.beats = 1].pc = "live"
  BY <1>0, <1>1 DEF Ended, ViewState
<1>3. CASE view' = [view EXCEPT ![v] = Ended(@)] /\ Leave(v)
  <2>1. view'[v] = Ended(view[v]) /\ queue'[v] = <<>>
    BY <1>0, <1>3 DEF Leave
  <2>2. ShownUpTo(log, view'[v]) /\ view'[v].pc # "live"
    BY <1>1, <1>2, <2>1 DEF ShownUpTo
  <2> QED
    BY <1>1, <2>1, <2>2, StreamEnds
<1>4. ASSUME NEW r, view' = [view EXCEPT ![v] = r] \/ (view' = view /\ r = view[v]),
             r.last = view[v].last, r.seen = view[v].seen, r.pc = "live"
      PROVE  view'[v] = r /\ ShownUpTo(log, view'[v]) /\ view[v].last <= view'[v].last /\ view'[v] \in ViewState
  <2>1. view'[v] = r /\ view'[v] \in ViewState /\ view[v].last \in Int
    BY <1>0, <1>4 DEF ViewState
  <2> QED
    BY <1>1, <1>4, <2>1 DEF ShownUpTo
<1>5. CASE /\ queue[v] # <<>> /\ queue' = [queue EXCEPT ![v] = Tail(@)] /\ subs' = subs
           /\ Head(queue[v]).t # "entry"
           /\ view' = [view EXCEPT ![v].pending = TRUE] \/ view' = view
  <2>1. queue'[v] = Tail(queue[v])
    BY <1>0, <1>5
  <2>2. PICK r : /\ view' = [view EXCEPT ![v] = r] \/ (view' = view /\ r = view[v])
                 /\ r = [view[v] EXCEPT !.pending = TRUE] \/ r = view[v]
    <3>1. CASE view' = view
      BY <3>1
    <3>2. CASE view' = [view EXCEPT ![v].pending = TRUE]
      <4>1. view' = [view EXCEPT ![v] = [view[v] EXCEPT !.pending = TRUE]]
        BY <1>0, <3>2
      <4> QED
        BY <4>1
    <3> QED
      BY <1>5, <3>1, <3>2
  <2>3. r.last = view[v].last /\ r.seen = view[v].seen /\ r.pc = "live"
    BY <1>1, <1>2, <2>2
  <2>4. view'[v] = r /\ ShownUpTo(log, view'[v]) /\ view[v].last <= view'[v].last /\ view'[v] \in ViewState
    BY <1>4, <2>2, <2>3
  <2> QED
    BY <1>1, <1>5, <2>1, <2>3, <2>4, StreamReads
<1>6. CASE view' = [view EXCEPT ![v].beats = 1] /\ UNCHANGED channel
  <2>1. view' = [view EXCEPT ![v] = [view[v] EXCEPT !.beats = 1]]
    BY <1>0, <1>6
  <2>2. PICK r : r = [view[v] EXCEPT !.beats = 1]
    OBVIOUS
  <2>3. view'[v] = r /\ r.last = view[v].last /\ r.seen = view[v].seen /\ r.pc = "live"
    BY <1>0, <1>2, <2>1, <2>2
  <2>4. queue' = queue /\ subs' = subs /\ OnTheWay' = OnTheWay
    BY <1>1, <1>6 DEF channel, OnTheWay
  <2> QED
    BY <1>1, <2>3, <2>4 DEF Streams, ShownUpTo, Serves, Reaches
<1>7. CASE TakeOther(v)
  BY <1>3, <1>5, <1>7 DEF TakeOther
<1>8. CASE Beat(v)
  BY <1>3, <1>6, <1>8 DEF Beat
<1> QED
  BY <1>7, <1>8

-----------------------------------------------------------------------------
(* StreamInv *)

\* Every step keeps CalmStreams.
LEMMA CalmStreamsStep ==
    ASSUME LogInd, LogInd', OneAtATime, CalmStreams, [Next]_vars
    PROVE  CalmStreams'
<1>0. /\ LogTypes /\ LogTypes' /\ RowTypes /\ RowTypes' /\ PostTypes /\ SdkTypes /\ PipeTypes /\ ChanTypes /\ ChanTypes'
      /\ ViewTypes /\ FlagTypes /\ UserRows /\ CalmRows /\ HistoryRows /\ Prompts /\ History \in Nat
      /\ post \in [Post -> PostState] /\ DOMAIN post = Post
  BY Constants DEF LogInd, LogTypes, PostTypes
<1> SUFFICES ASSUME calm' PROVE \A v \in Viewer : Streams(v)'
  BY DEF CalmStreams
<1>c. calm
  <2>1. ASSUME NEW p \in Post, Precheck(p)
        PROVE  calm' => calm
    BY <2>1 DEF Precheck
  <2>2. CASE ActorDies
    BY <2>2 DEF ActorDies
  <2>3. ASSUME NEW p \in Post, (\E k \in Post : Arrive(p, k)) \/ SelectNextForUser(p) \/ InsertUser(p) \/ Mark(p) \/ Undo(p)
        PROVE  calm' = calm
    BY <2>3 DEF Arrive, SelectNextForUser, InsertUser, Mark, Undo
  <2>4. ASSUME NEW x \in Proc, EnsureStep(x)
        PROVE  calm' = calm
    BY <2>4 DEF EnsureStep, HasEntries, LockBackfill, Backfill
  <2>5. ASSUME NEW v \in Viewer, Open(v) \/ ViewerStep(v)
        PROVE  calm' = calm
    BY <2>5 DEF Open, ViewerStep, List, TakeEntry, TakeOther, Beat
  <2>6. CASE Accept \/ Message \/ Delta \/ EndTurn \/ InboxStep \/ UNCHANGED vars
    BY <2>6 DEF Accept, Message, Delta, EndTurn, InboxStep, HandleCompleted, CheckTail, SelectNext, Insert, vars
  <2> QED
    BY <2>1, <2>2, <2>3, <2>4, <2>5, <2>6 DEF Next, PostStep
<1>a. /\ \A v \in Viewer : Streams(v)
      /\ (\A p \in Post : post[p].pc # "undo") /\ NoGaps
  BY <1>0, <1>c DEF CalmStreams, CalmRows
<1>1. ASSUME UNCHANGED <<log, queue, subs, view>>, OnTheWay \subseteq OnTheWay'
      PROVE  \A v \in Viewer : Streams(v)'
  BY <1>a, <1>1, StreamStays
<1>2. ASSUME NEW p \in Post, NEW r, post' = [post EXCEPT ![p] = r], UNCHANGED <<log, queue, subs, view>>,
             post[p].pc \in {"mark", "sent"} => r.pc \in {"mark", "sent"} /\ r.seq = post[p].seq
      PROVE  \A v \in Viewer : Streams(v)'
  BY <1>0, <1>1, <1>2, WayStays
<1>3. ASSUME NEW p \in Post, \/ \E k \in Post : Arrive(p, k)
                             \/ Precheck(p) \/ SelectNextForUser(p) \/ Mark(p)
      PROVE  \A v \in Viewer : Streams(v)'
  <2>1. UNCHANGED <<log, queue, subs, view>>
    BY <1>3 DEF Arrive, Precheck, SelectNextForUser, Mark, logged, channel
  <2> DEFINE Moves(r) == /\ post' = [post EXCEPT ![p] = r]
                         /\ post[p].pc \in {"new", "ensure", "select"} \/ r = [post[p] EXCEPT !.pc = "sent"]
  <2>2. PICK r : Moves(r)
    <3>1. ASSUME NEW k \in Post, Arrive(p, k)
          PROVE  \E r : Moves(r)
      <4>1. Moves([post[p] EXCEPT !.pc = "ensure", !.key = k])
        BY <1>0, <3>1 DEF Arrive
      <4> HIDE DEF Moves
      <4> QED
        BY <4>1
    <3>2. CASE Precheck(p)
      <4>1. PICK pc : Goto(p, pc)
        BY <3>2 DEF Precheck
      <4>2. Moves([post[p] EXCEPT !.pc = pc])
        BY <1>0, <3>2, <4>1 DEF Precheck, Goto
      <4> HIDE DEF Moves
      <4> QED
        BY <4>2
    <3>3. CASE SelectNextForUser(p)
      <4>1. \/ Moves([post[p] EXCEPT !.pc = "accepted"])
            \/ Moves([post[p] EXCEPT !.pc = "insert", !.base = NextSeq])
        BY <1>0, <3>3 DEF SelectNextForUser
      <4> HIDE DEF Moves
      <4> QED
        BY <4>1
    <3>4. CASE Mark(p)
      <4>1. Moves([post[p] EXCEPT !.pc = "sent"])
        BY <1>0, <3>4 DEF Mark, Goto
      <4> HIDE DEF Moves
      <4> QED
        BY <4>1
    <3> HIDE DEF Moves
    <3> QED
      BY <1>3, <3>1, <3>2, <3>3, <3>4
  <2>3. post[p].pc \in {"mark", "sent"} => r.pc \in {"mark", "sent"} /\ r.seq = post[p].seq
    BY <1>0, <2>2 DEF PostState
  <2> QED
    BY <1>2, <2>1, <2>2, <2>3
<1>4. ASSUME NEW p \in Post, InsertUser(p)
      PROVE  \A v \in Viewer : Streams(v)'
  <2>1. post[p].pc = "insert" /\ UNCHANGED <<queue, subs, view>>
    BY <1>4 DEF InsertUser, channel
  <2>2. CASE log' = log /\ (Leaves(p, "accepted") \/ Leaves(p, "select"))
    <3>1. \E r : post' = [post EXCEPT ![p] = r]
      BY <1>0, <2>2 DEF Leaves
    <3> QED
      BY <1>2, <2>1, <2>2, <3>1
  <2>3. CASE /\ post[p].base \notin Rows /\ log' = With(post[p].base, User(p))
             /\ post' = [post EXCEPT ![p].pc = "mark", ![p].base = 0, ![p].seq = post[p].base]
    <3>1. PICK n, e : n = post[p].base /\ e = User(p)
      OBVIOUS
    <3>2. n \in Nat /\ e \in EntrySet /\ log' = With(n, e) /\ n \notin Rows
      BY <1>0, <2>1, <2>3, <3>1, UserTypes DEF PostState
    <3>3. Filled(n) /\ \A m \in Rows : Filled(m)
      BY <1>a, <2>1, <3>1 DEF NoGaps
    <3>4. Grows(log, log') /\ Rows' = Rows \cup {n}
      BY <1>0, <3>2, <3>3, GrownAt
    <3>5. PICK r : r = [post[p] EXCEPT !.pc = "mark", !.base = 0, !.seq = n]
      OBVIOUS
    <3>6. post' = [post EXCEPT ![p] = r] /\ r.pc = "mark" /\ r.seq = n
      BY <1>0, <2>3, <3>1, <3>5 DEF PostState
    <3>7. OnTheWay \subseteq OnTheWay'
      BY <1>0, <2>1, <3>6, WayStays
    <3>8. n \in OnTheWay'
      <4>1. post'[p] = r
        BY <1>0, <3>6
      <4>2. post'[p].pc = "mark" /\ post'[p].seq = n
        BY <3>6, <4>1
      <4> QED
        BY <4>2 DEF OnTheWay
    <3>9. Rows' \subseteq Nat
      BY <1>0 DEF RowTypes
    <3>10. Rows' \ Rows \subseteq OnTheWay'
      BY <3>4, <3>8
    <3> QED
      BY <1>0, <1>a, <2>1, <3>4, <3>7, <3>9, <3>10, StreamGrows
  <2> QED
    BY <1>4, <2>2, <2>3 DEF InsertUser, Goto
<1>5. ASSUME NEW p \in Post, Undo(p)
      PROVE  \A v \in Viewer : Streams(v)'
  BY <1>a, <1>5 DEF Undo
<1>6. ASSUME NEW x \in Proc, EnsureStep(x)
      PROVE  \A v \in Viewer : Streams(v)'
  <2>1. UNCHANGED <<queue, subs, view>> /\ OnTheWay' = OnTheWay
    <3>1. UNCHANGED <<queue, subs, view, post>>
      BY <1>6 DEF EnsureStep, HasEntries, LockBackfill, Backfill, channel
    <3> QED
      BY <3>1 DEF OnTheWay
  <2>2. CASE log' = log
    BY <1>1, <2>1, <2>2
  <2>3. CASE Backfill(x)
    <3>1. Fills
      BY <1>0, <2>3, Backfilling
    <3>2. (NextSeq \in Nat) /\ \A n \in Rows : n \in Nat /\ n < NextSeq
      BY <1>0, NextIsNew
    <3>3. PICK k, new : k = NextSeq /\ new = k..(k + History - 1)
      OBVIOUS
    <3>4. Rows' = Rows \cup new /\ \A n \in Rows : log'[n] = log[n]
      BY <3>1, <3>3 DEF Fills
    <3>5. Rows' \subseteq Nat
      BY <1>0 DEF RowTypes
    <3>6. Grows(log, log')
      <4>1. \A n \in new : \A m \in Rows : m < n
        BY <1>0, <3>2, <3>3
      <4> QED
        BY <3>4, <4>1 DEF Grows, Rows
    <3>7. ASSUME NEW v \in Viewer, view[v].pc = "live"
          PROVE  Rows' \ Rows = {}
      <4>1. ~ Untouched
        BY <3>7 DEF Untouched
      <4>2. bf[x] = "read"
        BY <2>3 DEF Backfill
      <4>3. ~ HistoryWritten
        BY <4>2 DEF HistoryWritten
      <4>4. History = 0
        BY <1>0, <4>1, <4>3 DEF HistoryRows
      <4>5. new = {}
        BY <3>2, <3>3, <4>4
      <4> QED
        BY <3>4, <4>5
    <3> QED
      BY <1>0, <1>a, <2>1, <3>5, <3>6, <3>7, StreamGrows
  <2> QED
    BY <1>6, <2>2, <2>3 DEF EnsureStep, HasEntries, LockBackfill
<1>7. ASSUME NEW m \in Notice, Broadcast(m), UNCHANGED <<log, view>>, Matches(m, log),
             \A n \in Rows : ComesBehind(m, n) => n \notin OnTheWay,
             OnTheWay \subseteq OnTheWay' \cup (IF m.t = "entry" THEN {m.seq} ELSE {})
      PROVE  \A v \in Viewer : Streams(v)'
  <2>1. SentTo(Chan, Chan', m)
    BY <1>0, <1>7, Broadcasts
  <2> QED
    BY <1>0, <1>a, <1>7, <2>1, StreamSent
<1>8. CASE Accept
  <2>1. PICK p, m : p = Head(sdkq) /\ m = Shown(post[p].seq, User(p))
    OBVIOUS
  <2>2. /\ sdkq # <<>> /\ Leaves(p, "accepted") /\ Broadcast(m) /\ UNCHANGED <<log, view>>
    BY <1>8, <2>1 DEF Accept, logged
  <2>3. p \in Post /\ p = sdkq[1] /\ 1 \in DOMAIN sdkq
    BY <1>0, <2>1, <2>2 DEF SdkTypes
  <2>4. post[p].pc = "sent"
    BY <1>0, <2>3 DEF Prompts
  <2>5. RowOf(p, post[p].seq)
    BY <1>0, <2>3, <2>4 DEF UserRows, PostsHaveRows, Written
  <2>6. m \in Notice
    <3>1. post[p].seq \in Nat /\ User(p) \in EntrySet
      BY <1>0, <2>3, <2>4, UserTypes DEF PostState
    <3> QED
      BY <2>1, <3>1, EntryTypes
  <2>7. m.t = "entry" /\ m.seq = post[p].seq /\ Matches(m, log)
    BY <2>1, <2>5 DEF Shown, Matches, RowOf, Rows
  <2>8. \A q \in Post : post[q].pc \in {"mark", "sent"} => q = p
    BY <1>c, <2>3, <2>4 DEF OneAtATime, InHand, Writing
  <2>9. OnTheWay \subseteq {m.seq}
    BY <2>7, <2>8 DEF OnTheWay
  <2>10. \A n \in Rows : ComesBehind(m, n) => n \notin OnTheWay
    <3>1. \A n \in Rows : n \in Nat
      BY <1>0, NextIsNew
    <3>2. m.seq \in Nat
      BY <1>0, <2>3, <2>7 DEF PostState
    <3> QED
      BY <2>7, <2>9, <3>1, <3>2 DEF ComesBehind
  <2>11. OnTheWay \subseteq OnTheWay' \cup (IF m.t = "entry" THEN {m.seq} ELSE {})
    BY <2>7, <2>9
  <2> QED
    BY <1>7, <2>2, <2>6, <2>7, <2>10, <2>11
<1>9. ASSUME NEW t \in {"raw", "delta", "result", "status"}, Broadcast([t |-> t]), UNCHANGED <<log, view, post>>
      PROVE  \A v \in Viewer : Streams(v)'
  <2>1. PICK m : m = [t |-> t]
    OBVIOUS
  <2>2. m \in Notice /\ Broadcast(m)
    BY <1>9, <2>1, EntryTypes
  <2>3. m.t = t
    BY <2>1
  <2>4. Matches(m, log) /\ \A n \in Rows : ~ ComesBehind(m, n)
    BY <2>3 DEF Matches, ComesBehind
  <2>5. OnTheWay' = OnTheWay
    BY <1>9 DEF OnTheWay
  <2> QED
    BY <1>7, <1>9, <2>2, <2>4, <2>5
<1>10. CASE Message \/ Delta \/ EndTurn
  BY <1>9, <1>10 DEF Message, Delta, EndTurn, logged
<1>11. CASE ActorDies
  BY <1>11 DEF ActorDies
<1>12. ASSUME log' = log, Handled(Rows, <<>>), inbox # <<>>, UNCHANGED <<view, calm, faults>>
       PROVE  \A v \in Viewer : Streams(v)'
  <2>1. Rows' = Rows /\ Grows(log, log')
    BY <1>12, Same
  <2>2. PICK ms : ms = <<>>
    OBVIOUS
  <2>3. Handled(Rows', ms)
    BY <1>12, <2>1, <2>2
  <2> QED
    BY <1>0, <1>c, <1>12, <2>1, <2>2, <2>3, HandledStreams
<1>13. CASE HandleCompleted
  BY <1>12, <1>13 DEF HandleCompleted, Now
<1>14. CASE CheckTail
  <2>1. CASE log' = log /\ Handled(Rows, <<>>)
    BY <1>12, <1>14, <2>1 DEF CheckTail, Now
  <2>2. CASE UNCHANGED <<log, queue, subs, view, post>>
    <3>1. OnTheWay' = OnTheWay
      BY <2>2 DEF OnTheWay
    <3> QED
      BY <1>1, <2>2, <3>1
  <2> QED
    BY <1>14, <2>1, <2>2 DEF CheckTail, channel
<1>15. CASE Insert
  <2>1. at = "insert" /\ UNCHANGED <<post, view, calm, faults>> /\ inbox # <<>> /\ base \in Nat /\ Entry \in EntrySet
    BY <1>0, <1>15, HeadTypes DEF Insert, PipeTypes
  <2>2. CASE UNCHANGED <<log, queue, subs>>
    <3>1. OnTheWay' = OnTheWay
      BY <2>1 DEF OnTheWay
    <3> QED
      BY <1>1, <2>1, <2>2, <3>1
  <2>3. CASE base \notin Rows /\ log' = With(base, Entry) /\ Handled(Rows \cup {base}, <<Shown(base, Entry)>>)
    <3>1. Filled(base) /\ \A m \in Rows : Filled(m)
      BY <1>a, <2>1 DEF NoGaps
    <3>2. Grows(log, log') /\ Rows' = Rows \cup {base} /\ log'[base] = Entry
      BY <1>0, <2>1, <2>3, <3>1, GrownAt
    <3>3. PICK n, e, ms : n = base /\ e = Entry /\ ms = <<Shown(base, Entry)>>
      OBVIOUS
    <3>4. n \in Rows' /\ ms = <<Shown(n, log'[n])>> /\ Rows' = Rows \cup {n} /\ Handled(Rows', ms)
      BY <2>3, <3>2, <3>3
    <3>5. Shown(n, log'[n]) \in Notice
      BY <2>1, <3>2, <3>3, EntryTypes
    <3> QED
      BY <1>0, <1>c, <2>1, <3>2, <3>4, <3>5, HandledStreams
  <2> QED
    BY <1>15, <2>2, <2>3 DEF Insert, channel
<1>16. ASSUME NEW v \in Viewer, UNCHANGED <<log, post>>, subs' \subseteq subs \cup {v}, Streams(v)',
              \A u \in Viewer : u # v => view'[u] = view[u] /\ queue'[u] = queue[u]
       PROVE  \A u \in Viewer : Streams(u)'
  BY <1>0, <1>c, <1>16, OthersStay
<1>17. ASSUME NEW v \in Viewer, Open(v)
       PROVE  \A u \in Viewer : Streams(u)'
  <2>1. UNCHANGED <<log, post, queue>> /\ subs' \subseteq subs \cup {v}
    BY <1>17 DEF Open, logged, channel
  <2>2. PICK pc \in {"list", "cold"} : view' = [view EXCEPT ![v].pc = pc]
    BY <1>17 DEF Open
  <2>3. /\ view'[v].last = view[v].last /\ view'[v].seen = view[v].seen /\ view'[v].pc # "live"
        /\ \A u \in Viewer : u # v => view'[u] = view[u]
    BY <1>0, <2>2 DEF ViewTypes, ViewState
  <2>4. ShownUpTo(log, view'[v])
    BY <1>a, <2>3 DEF Streams, ShownUpTo
  <2>5. Streams(v)'
    BY <1>a, <2>1, <2>3, <2>4, StreamEnds
  <2> QED
    BY <1>16, <2>1, <2>3, <2>5
<1>18. ASSUME NEW v \in Viewer, ViewerStep(v)
       PROVE  \A u \in Viewer : Streams(u)'
  <2>0. view \in [Viewer -> ViewState] /\ queue \in [Viewer -> Seq(Notice)]
    BY <1>0 DEF ViewTypes, ChanTypes, Chan, Channels
  <2>1. UNCHANGED <<log, post>> /\ subs' \subseteq subs \cup {v}
    BY <1>18 DEF ViewerStep, List, TakeEntry, TakeOther, Beat, Leave, logged, channel
  <2>2. ASSUME NEW u \in Viewer, u # v
        PROVE  view'[u] = view[u] /\ queue'[u] = queue[u]
    <3>1. view'[u] = view[u]
      <4>1. CASE List(v)
        BY <2>0, <2>2, <4>1 DEF List
      <4>2. CASE TakeEntry(v)
        BY <1>0, <2>2, <4>2, EntryTaken
      <4>3. CASE TakeOther(v)
        BY <2>0, <2>2, <4>3 DEF TakeOther
      <4>4. CASE Beat(v)
        BY <2>0, <2>2, <4>4 DEF Beat
      <4> QED
        BY <1>18, <4>1, <4>2, <4>3, <4>4 DEF ViewerStep
    <3>2. queue' = queue \/ queue' = [queue EXCEPT ![v] = <<>>] \/ queue' = [queue EXCEPT ![v] = Tail(@)]
      BY <1>18 DEF ViewerStep, List, TakeEntry, TakeOther, Beat, Leave, channel
    <3> QED
      BY <2>0, <2>2, <3>1, <3>2
  <2>3. Streams(v)'
    <3>1. Streams(v)
      BY <1>a
    <3> QED
      BY <1>0, <1>18, <3>1, ListStreams, EntryStreams, OtherStreams DEF ViewerStep
  <2> QED
    BY <1>16, <2>1, <2>2, <2>3
<1>19. CASE SelectNext \/ UNCHANGED vars
  <2>1. UNCHANGED <<log, queue, subs, view, post>>
    BY <1>19 DEF SelectNext, vars, logged, channel
  <2>2. OnTheWay' = OnTheWay
    BY <2>1 DEF OnTheWay
  <2> QED
    BY <1>1, <2>1, <2>2
<1> QED
  BY <1>3, <1>4, <1>5, <1>6, <1>8, <1>10, <1>11, <1>13, <1>14, <1>15, <1>17, <1>18, <1>19
     DEF Next, PostStep, InboxStep

-----------------------------------------------------------------------------

\* The inductive invariant behind StreamInv: what is known has one number, streams
\* rise, and in a calm session queues bring whatever the cursor has not passed.
StreamInd == LogInd /\ KnownInv /\ SeenRising /\ OneAtATime /\ CalmStreams

\* It holds at the start.
LEMMA StreamIndInit == Init => StreamInd
<1> SUFFICES ASSUME Init PROVE StreamInd
  OBVIOUS
<1>1. LogInd
  BY LogIndInit
<1>2. /\ Rows = {} /\ log = [n \in {} |-> NULL] /\ turn = NULL /\ inbox = <<>> /\ subs = {}
      /\ (\A p \in Post : post[p].pc = "new") /\ \A v \in Viewer : queue[v] = <<>> /\ view[v] = Closed
  BY DEF Init, Rows, NewPost
<1>3. KnownInv
  <2>1. \A r : ~ Known(r)
    BY <1>2 DEF Known, Logged, Queued, In, Closed
  <2> QED
    BY <1>2, <2>1 DEF KnownInv, OnePlace, UsersSpent, HistoryPlaced, MessagesSpent, MadeInOrder
<1>4. SeenRising
  BY <1>2 DEF SeenRising, Rising, Closed
<1>5. OneAtATime
  BY <1>2 DEF OneAtATime, InHand, Writing
<1>6. CalmStreams
  <2> SUFFICES ASSUME NEW v \in Viewer PROVE Streams(v)
    BY DEF CalmStreams
  <2>1. queue[v] = <<>> /\ view[v].last = -1 /\ view[v].pc = "off" /\ v \notin subs /\ DOMAIN log = {}
    BY <1>2 DEF Closed, Rows
  <2> QED
    BY <2>1 DEF Streams, ShownUpTo, Serves
<1> QED
  BY <1>1, <1>3, <1>4, <1>5, <1>6 DEF StreamInd

\* Every step keeps it.
LEMMA StreamIndStep == StreamInd /\ [Next]_vars => StreamInd'
<1> SUFFICES ASSUME StreamInd, [Next]_vars PROVE StreamInd'
  OBVIOUS
<1>1. LogInd'
  BY LogIndStep DEF StreamInd
<1>2. LogTypes /\ Prompts
  BY DEF StreamInd, LogInd
<1>3. KnownInv'
  BY <1>1, KnownStep DEF StreamInd
<1>4. SeenRising'
  BY SeenRisingStep DEF StreamInd
<1>5. OneAtATime'
  BY <1>2, OneAtATimeStep DEF StreamInd
<1>6. CalmStreams'
  BY <1>1, CalmStreamsStep DEF StreamInd
<1> QED
  BY <1>1, <1>3, <1>4, <1>5, <1>6 DEF StreamInd

\* It is at least as strong as StreamInv.
LEMMA StreamIndImplies == StreamInd => StreamInv
<1> SUFFICES ASSUME StreamInd PROVE StreamInv
  OBVIOUS
<1>0. RowTypes /\ ViewTypes /\ ChanTypes /\ \A v \in Viewer : view[v] \in ViewState /\ queue[v] \in Seq(Notice)
  BY DEF StreamInd, LogInd, LogTypes, ViewTypes, ChanTypes, Chan, Channels
<1>1. SeenOnceInOrder
  <2> SUFFICES ASSUME NEW v \in Viewer, NEW i \in DOMAIN view[v].seen, NEW j \in DOMAIN view[v].seen, i < j
               PROVE  /\ view[v].seen[i].seq < view[v].seen[j].seq
                      /\ view[v].seen[i].entry = view[v].seen[j].entry => view[v].seen[i].entry.kind = "interrupt"
    BY DEF SeenOnceInOrder
  <2>1. PICK r, s : r = view[v].seen[i] /\ s = view[v].seen[j]
    OBVIOUS
  <2>2. r \in Line /\ s \in Line /\ r.seq \in Nat /\ s.seq \in Nat
    <3>1. view[v].seen \in Seq(Line)
      BY <1>0 DEF ViewState
    <3>2. r \in Line /\ s \in Line
      BY <2>1, <3>1
    <3> QED
      BY <3>2 DEF Line
  <2>3. r.seq < s.seq
    BY <2>1 DEF StreamInd, SeenRising, Rising
  <2>4. Known(r) /\ Known(s)
    BY <2>1 DEF Known, In
  <2>5. r.entry = s.entry => r.seq = s.seq \/ r.entry.kind = "interrupt"
    BY <2>2, <2>4 DEF StreamInd, KnownInv, OnePlace
  <2> QED
    BY <2>1, <2>2, <2>3, <2>5
<1>2. NothingMissedCalm
  BY DEF StreamInd, CalmStreams, Streams, ShownUpTo, NothingMissedCalm, NothingMissed, In, Rows
<1>3. TurnShownBeforeItsEnd
  <2> SUFFICES ASSUME NEW v \in Viewer, calm, view[v].pc = "live", queue[v] # <<>>,
                      Head(queue[v]).t = "complete", NEW n \in Rows, n <= Head(queue[v]).seq
               PROVE  \E i \in DOMAIN view[v].seen : view[v].seen[i].seq = n
    BY DEF TurnShownBeforeItsEnd
  <2>1. 1 \in DOMAIN queue[v] /\ queue[v][1] = Head(queue[v])
    BY <1>0
  <2>2. Streams(v)
    BY DEF StreamInd, CalmStreams
  <2>3. ComesBehind(queue[v][1], n)
    <3>1. n \in Nat
      BY <1>0, NextIsNew
    <3>2. Head(queue[v]).seq \in Nat \cup {-1}
      <4>1. Head(queue[v]) \in Notice
        BY <1>0
      <4> QED
        BY <4>1 DEF Notice
    <3> QED
      BY <2>1, <3>1, <3>2 DEF ComesBehind
  <2>4. n <= view[v].last \/ Has(queue[v], 1 - 1, n)
    BY <2>1, <2>2, <2>3 DEF Streams, Serves, Behind, Rows
  <2>5. ~ Has(queue[v], 1 - 1, n)
    BY DEF Has
  <2>6. In(view[v].seen, [seq |-> n, entry |-> log[n]])
    BY <2>2, <2>4, <2>5 DEF Streams, ShownUpTo, Rows
  <2> QED
    BY <2>6 DEF In
<1> QED
  BY <1>1, <1>2, <1>3 DEF StreamInv

\* A client is shown every entry at most once and in the order of the log, through
\* overflows and reconnects; where no delivery failed and no posts overlapped, what
\* its cursor has passed it has been shown, and the end of a turn comes behind the
\* turn's entries (stream_entry_events, SseChannel.broadcast).
THEOREM StreamsShowTheLog == Spec => []StreamInv
<1>1. Spec => []StreamInd
  BY StreamIndInit, StreamIndStep, PTL DEF Spec
<1> QED
  BY <1>1, StreamIndImplies, PTL

=============================================================================
