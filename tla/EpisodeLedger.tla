--------------------------- MODULE EpisodeLedger ---------------------------
(***************************************************************************)
(* How a source text is cut into episodes and what is built on the cuts:   *)
(* the ledger in project.json (lib/episode_ledger.py), the planner that    *)
(* appends to it or cuts it anew around a call of a language model         *)
(* (lib/episode_planner.py), the derived files source/episode_N.txt it     *)
(* writes before project.json, and the two stages built on them, step1 and *)
(* the script, with the review between them (lib/script_review.py).        *)
(*                                                                         *)
(* A source file is a row of parts, each different from all others and     *)
(* none blank: the text of an episode is its cut, and an exact match finds *)
(* it again.                                                               *)
(***************************************************************************)
EXTENDS Integers, Sequences, FiniteSets, SequencesExt

CONSTANTS Call,        \* the tool calls and requests that may run at a time
          Files, Size, \* the source files in the order of their names; their parts
          MaxEpisode,  \* bound on the episode numbers
          Worked,      \* the episodes for which step1, review and script are asked
          Text,        \* contents of step1 that a fingerprint tells apart
          Window,      \* planning_window_chars
          MaxPlanned,  \* planning_max_episodes
          Legacy,      \* episode files and their products from before the ledger
          Foreign,     \* a text that is not in the source
          NULL,        \* no entry, cut, cursor, fingerprint or file
          MaxCrashes

Episode == 1..MaxEpisode
File == ToSet(Files)
Offset == 0..Max({Size[f] : f \in File})
Cut == {k \in [file : File, start : Offset, end : Offset] :
            k.start < k.end /\ k.end <= Size[k.file]}
Place == [file : File, at : Offset]
Status == {"none", "planned", "consumed", "stale", "unanchored"}
Entry == [cut : Cut \cup {NULL}, status : Status, review : Text \cup {NULL}]

ASSUME LedgerAssumption ==
    /\ Files \in Seq(File) \ {<<>>} /\ IsInjective(Files)
    /\ Size \in [File -> Nat \ {0}]
    /\ MaxEpisode \in Nat \ {0} /\ Worked \subseteq Episode
    /\ Window \in Nat \ {0} /\ MaxPlanned \in Nat \ {0}
    /\ MaxCrashes \in Nat
    /\ NULL \notin Cut \cup Place \cup Entry \cup Text \cup File
    /\ Foreign \notin Cut
    /\ Legacy \subseteq [text : [Episode -> Cut \cup {Foreign, NULL}],
                         step1 : [Episode -> Text \cup {NULL}],
                         scripts : SUBSET Episode]

VARIABLES ledger,  \* project.json: episodes[], by number
          cursor,  \* project.json: planning_cursor
          text,    \* source/episode_N.txt
          step1,   \* drafts/episode_N/step1_*
          scripts, \* the episodes with scripts/episode_N.json
          call,    \* where each call stands and what it has read
          torn,    \* open: a commit broke off or left a file behind, and none has
                   \* ended since; lost: that was a replan, or a file that was the
                   \* only record of a cut before others was cut short
          seen,    \* history: the step1 contents a confirmation took the fingerprint of
          crashes

files == <<text, step1, scripts>>
project == <<ledger, cursor>>
vars == <<project, files, call, torn, seen, crashes>>

Idle == [pc |-> "idle", ep |-> 0, start |-> NULL, scope |-> <<>>, consumed |-> {},
         consent |-> FALSE, content |-> NULL]

Init ==
    /\ ledger = [e \in Episode |-> NULL] /\ cursor = NULL
    /\ \E old \in Legacy : text = old.text /\ step1 = old.step1 /\ scripts = old.scripts
    /\ call = [c \in Call |-> Idle]
    /\ torn = [open |-> FALSE, lost |-> FALSE]
    /\ seen = [e \in Worked |-> {}]
    /\ crashes = 0

-----------------------------------------------------------------------------
(* The ledger as a reader sees it *)

HasDownstream(e) == e \in scripts \/ step1[e] # NULL

\* backfill_episode_ledger for one entry without a status
Found(e, review) ==
    IF text[e] \in Cut
    THEN [cut |-> text[e], status |-> IF HasDownstream(e) THEN "consumed" ELSE "planned",
          review |-> review]
    ELSE [cut |-> NULL, status |-> "unanchored", review |-> review]

Anchored(L) == {e \in Episode : L[e] # NULL /\ L[e].cut # NULL}
Entries(L) == {e \in Episode : L[e] # NULL}
LastEnd(L) == LET k == L[Max(Anchored(L))].cut IN [file |-> k.file, at |-> k.end]

\* backfill_episode_ledger: files without an entry get one, entries without
\* a status are looked up in the source, entries with one are left alone.
Filled ==
    [e \in Episode |->
        IF ledger[e] = NULL THEN (IF text[e] = NULL THEN NULL ELSE Found(e, NULL))
        ELSE IF ledger[e].status = "none" THEN Found(e, ledger[e].review) ELSE ledger[e]]

FilledCursor ==
    LET L == Filled IN IF cursor = NULL /\ Anchored(L) # {} THEN LastEnd(L) ELSE cursor

Before(p, q) == LET i(f) == CHOOSE n \in DOMAIN Files : Files[n] = f
                IN i(p.file) < i(q.file) \/ (p.file = q.file /\ p.at < q.at)

\* _effective_start: the later of the last cut's end and the cursor
EffectiveStart ==
    LET L == Filled
        c == FilledCursor
    IN IF Anchored(L) = {}
       THEN IF c = NULL THEN [file |-> Files[1], at |-> 0] ELSE c
       ELSE IF Before(LastEnd(L), c) THEN c ELSE LastEnd(L)

\* mutant: the files after this one are forgotten
NoNextFile(f) == NULL

\* plan() goes on to the next file when the rest of this one is blank.
NextFile(f) == LET n == CHOOSE i \in DOMAIN Files : Files[i] = f
               IN IF n = Len(Files) THEN NULL ELSE Files[n + 1]
PlanFrom(p) == IF p.at < Size[p.file] THEN p
               ELSE IF NextFile(p.file) = NULL THEN NULL ELSE [file |-> NextFile(p.file), at |-> 0]

-----------------------------------------------------------------------------
(* What the model may answer *)

\* mutant: only the ends of the cuts are looked at
Advances(k, next) == next.file = k.file /\ next.end > k.end

\* _resolve_boundaries: each cut goes on where the one before it ends.
GoesOn(k, next) == next.file = k.file /\ next.start = k.end

WindowEnd(p) == IF 10 * (Size[p.file] - p.at) <= 12 * Window THEN Size[p.file] ELSE p.at + Window

PlanDrafts(p) ==
    {cuts \in UNION {[1..n -> Cut] : n \in 1..MaxPlanned} :
        /\ cuts[1].file = p.file /\ cuts[1].start = p.at
        /\ \A i \in 1..Len(cuts) - 1 : GoesOn(cuts[i], cuts[i + 1])
        /\ Last(cuts).end <= WindowEnd(p)}

\* The stretch of each file in a scope is cut anew from its start to its end,
\* and then that of the file that comes next in the order of the numbers.
\* (There are no more cuts than MaxEpisode has numbers for.)
ReplanDrafts(scope) ==
    LET of(f) == {e \in DOMAIN scope : scope[e].file = f}
        lo(f) == Min({scope[e].start : e \in of(f)})
        hi(f) == Max({scope[e].end : e \in of(f)})
        within == {k \in Cut : of(k.file) # {} /\ lo(k.file) <= k.start /\ k.end <= hi(k.file)}
        ends(k) == k.end = hi(k.file)
        opens(k, d) == k.file = scope[d].file /\ k.start = lo(k.file)
        after(f) == {d \in DOMAIN scope : \A e \in of(f) : e < d}
        from == Min(DOMAIN scope)
    IN {cuts \in UNION {[1..n -> within] : n \in 1..MaxEpisode + 1 - from} :
          /\ opens(cuts[1], from)
          /\ \A i \in 1..Len(cuts) - 1 :
                IF ends(cuts[i])
                THEN after(cuts[i].file) # {} /\ opens(cuts[i + 1], Min(after(cuts[i].file)))
                ELSE GoesOn(cuts[i], cuts[i + 1])
          /\ ends(Last(cuts)) /\ Last(cuts).file = scope[Max(DOMAIN scope)].file}

-----------------------------------------------------------------------------
(* Commits: under the lock of project.json the derived files are written,  *)
(* then project.json.                                                      *)

\* mutant: files that left the ledger stay
FilesKept(L) == [e \in Episode |-> IF e \in Anchored(L) THEN L[e].cut ELSE text[e]]

\* _reconcile_derived_files
FilesOf(L) ==
    [e \in Episode |-> IF L[e] = NULL THEN NULL
                       ELSE IF L[e].cut = NULL THEN text[e] ELSE L[e].cut]

Commit(L, cur) ==
    /\ ledger' = L /\ cursor' = cur
    /\ text' = FilesOf(L)
    /\ torn' = [torn EXCEPT !.open = FALSE]
    /\ UNCHANGED <<step1, scripts, seen, crashes>>

\* A file whose deletion fails is left behind, with a warning in the log.
CommitOver(L, cur) ==
    /\ ledger' = L /\ cursor' = cur
    /\ \E kept \in SUBSET {e \in Episode : L[e] = NULL /\ text[e] # NULL} :
         /\ kept # {}
         /\ text' = [e \in Episode |-> IF e \in kept THEN text[e] ELSE FilesOf(L)[e]]
    /\ torn' = [open |-> TRUE, lost |-> TRUE]
    /\ UNCHANGED <<step1, scripts, seen, crashes>>

\* What the files may be when the process dies on the way: the first writes,
\* perhaps one that is empty or cut short, and the first deletions.
Written(L, k, d) ==
    LET F == FilesOf(L)
    IN [e \in Episode |-> IF (e <= k /\ F[e] # NULL) \/ e <= d THEN F[e] ELSE text[e]]
TornFiles(L) ==
    LET short(k) == {Foreign} \cup {[k EXCEPT !.end = n] : n \in k.start + 1..k.end - 1}
    IN {Written(L, k, 0) : k \in 0..MaxEpisode}
       \cup {Written(L, MaxEpisode, d) : d \in Episode}
       \cup UNION {{[Written(L, e - 1, 0) EXCEPT ![e] = t] : t \in short(L[e].cut)} :
                     e \in Anchored(L)}

Restart ==
    /\ crashes < MaxCrashes /\ crashes' = crashes + 1
    /\ call' = [c \in Call |-> Idle]
    /\ UNCHANGED <<project, step1, scripts, seen>>

\* A cut that only its file records, and a later one
CutsShort == \E e, d \in Anchored(Filled) :
                e \notin Anchored(ledger) /\ e < d /\ text'[e] # text[e]

Breaks(L, replan) ==
    /\ text' \in TornFiles(L)
    /\ torn' = [open |-> TRUE, lost |-> torn.lost \/ replan \/ CutsShort]

Crash == Restart /\ UNCHANGED <<text, torn>>

To(c, r) == call' = [call EXCEPT ![c] = r]
Ends(c) == To(c, Idle)
Quiet == UNCHANGED <<project, files, torn, seen, crashes>>
Fails(c) == call[c].pc # "idle" /\ Ends(c) /\ Quiet

-----------------------------------------------------------------------------
(* plan *)

PlanReads(c) ==
    /\ call[c].pc = "idle"
    /\ To(c, IF PlanFrom(EffectiveStart) = NULL THEN [Idle EXCEPT !.pc = "exhausted"]
             ELSE [Idle EXCEPT !.pc = "planning", !.start = EffectiveStart])
    /\ Quiet

\* The entries of a draft, numbered from n on
Numbered(cuts, n, status) ==
    [e \in n..n + Len(cuts) - 1 |->
        [cut |-> cuts[e - n + 1], status |-> status[e], review |-> NULL]]

NextNumber == Max({0} \cup Entries(Filled)) + 1
\* mutant: every entry is written anew
AppendedAnew(cuts) ==
    LET L == Filled
        new == Numbered(cuts, NextNumber, [e \in Episode |-> "planned"])
    IN [e \in Episode |-> IF e \in DOMAIN new THEN new[e]
                          ELSE IF L[e] = NULL THEN NULL ELSE [L[e] EXCEPT !.review = NULL]]

Appended(cuts) ==
    LET L == Filled
        new == Numbered(cuts, NextNumber, [e \in Episode |-> "planned"])
    IN [e \in Episode |-> IF e \in DOMAIN new THEN new[e] ELSE L[e]]
PlanFits(cuts) == NextNumber + Len(cuts) - 1 <= MaxEpisode

PlanDone(cuts) ==
    LET k == Last(cuts) IN k.end = Size[k.file] /\ NextFile(k.file) = NULL

\* mutant: nobody looks again
StartUnchecked(c) == TRUE

\* The ledger grew meanwhile: PlanningConflictError
SameStart(c) == EffectiveStart = call[c].start

PlanCommits(c) ==
    /\ call[c].pc = "planning" /\ SameStart(c)
    /\ \E cuts \in PlanDrafts(PlanFrom(call[c].start)) :
         /\ PlanFits(cuts)
         /\ Commit(Appended(cuts), [file |-> Last(cuts).file, at |-> Last(cuts).end])
         /\ To(c, IF PlanDone(cuts) THEN [Idle EXCEPT !.pc = "exhausted"] ELSE Idle)

PlanBreaks(c) ==
    /\ call[c].pc = "planning" /\ Restart /\ SameStart(c)
    /\ \E cuts \in PlanDrafts(PlanFrom(call[c].start)) :
         PlanFits(cuts) /\ Breaks(Appended(cuts), FALSE)

PlanConflicts(c) == call[c].pc = "planning" /\ ~SameStart(c) /\ Ends(c) /\ Quiet
PlanAnswers(c) == call[c].pc = "exhausted" /\ Ends(c) /\ Quiet

-----------------------------------------------------------------------------
(* replan *)

Scope(from) == LET L == Filled IN {e \in Entries(L) : e >= from}
Consumed(from) == LET L == Filled IN {e \in Scope(from) : L[e].status = "consumed"}
CutsOf(from) == LET L == Filled IN [e \in Scope(from) |-> L[e].cut]

\* _replan_scope raises for anything else.
Replannable(from) ==
    LET L == Filled
        S == Scope(from)
    IN /\ from \in S /\ S \subseteq Anchored(L)
       /\ \A e \in S \ {from} :
            LET b == L[Max({d \in S : d < e})].cut
                k == L[e].cut
            IN IF b.file = k.file THEN k.start = b.end
               ELSE \A d \in S : d < e => L[d].cut.file # k.file

ReplanReads(c, from, consent) ==
    /\ call[c].pc = "idle"
    /\ Replannable(from)
    /\ consent \/ Consumed(from) = {}    \* else ReplanConfirmationRequired
    /\ To(c, [Idle EXCEPT !.pc = "replanning", !.ep = from, !.scope = CutsOf(from),
                          !.consumed = Consumed(from),
                          !.consent = consent /\ Consumed(from) # {}])    \* read only here
    /\ Quiet

\* mutant: only the cuts are compared
SameCuts(c) == Replannable(call[c].ep) /\ CutsOf(call[c].ep) = call[c].scope

SameScope(c) ==
    LET from == call[c].ep IN
    /\ Replannable(from) /\ CutsOf(from) = call[c].scope
    /\ Consumed(from) \subseteq call[c].consumed

NewStatus ==
    LET L == Filled
    IN [e \in Episode |-> IF L[e] # NULL /\ L[e].status \in {"consumed", "stale"}
                          THEN "stale" ELSE "planned"]

Recut(from, cuts) ==
    LET L == Filled
        new == Numbered(cuts, from, NewStatus)
    IN [e \in Episode |-> IF e < from THEN L[e]
                          ELSE IF e \in DOMAIN new THEN new[e] ELSE NULL]

ReplanCommits(c) ==
    /\ call[c].pc = "replanning" /\ SameScope(c)
    /\ \E cuts \in ReplanDrafts(call[c].scope) :
         Commit(Recut(call[c].ep, cuts), FilledCursor)
    /\ Ends(c)

ReplanLeavesFiles(c) ==
    /\ call[c].pc = "replanning" /\ SameScope(c)
    /\ \E cuts \in ReplanDrafts(call[c].scope) :
         CommitOver(Recut(call[c].ep, cuts), FilledCursor)
    /\ Ends(c)

ReplanBreaks(c) ==
    /\ call[c].pc = "replanning" /\ Restart /\ SameScope(c)
    /\ \E cuts \in ReplanDrafts(call[c].scope) :
         Breaks(Recut(call[c].ep, cuts), TRUE)

ReplanConflicts(c) == call[c].pc = "replanning" /\ ~SameScope(c) /\ Ends(c) /\ Quiet

-----------------------------------------------------------------------------
(* step1: an episode's file is read, the model is asked, the draft written *)

SplitReads(c, e) ==
    /\ call[c].pc = "idle" /\ text[e] # NULL
    /\ \E t \in Text : To(c, [Idle EXCEPT !.pc = "splitting", !.ep = e,
                                          !.content = t])
    /\ Quiet

SplitWrites(c) ==
    /\ call[c].pc = "splitting"
    /\ step1' = [step1 EXCEPT ![call[c].ep] = call[c].content]
    /\ Ends(c)
    /\ UNCHANGED <<project, text, scripts, torn, seen, crashes>>

-----------------------------------------------------------------------------
(* review *)

\* _require_episode: an episode that has only a file gets its entry.
Requires(e) ==
    \/ ledger[e] # NULL /\ UNCHANGED project
    \/ ledger[e] = NULL /\ text[e] # NULL /\ ledger' = Filled /\ cursor' = FilledCursor

\* save_content
SaveContent(e, t) ==
    /\ step1[e] # NULL /\ Requires(e)
    /\ step1' = [step1 EXCEPT ![e] = t]
    /\ UNCHANGED <<text, scripts, call, torn, seen, crashes>>

\* confirm: the fingerprint of the content is taken and the content validated.
ConfirmReads(c, e) ==
    /\ call[c].pc = "idle"
    /\ step1[e] # NULL /\ Requires(e)
    /\ To(c, [Idle EXCEPT !.pc = "confirming", !.ep = e, !.content = step1[e]])
    /\ seen' = [seen EXCEPT ![e] = @ \cup {step1[e]}]
    /\ UNCHANGED <<files, torn, crashes>>

\* A reference_video is then written over with the content read, its references
\* derived anew, whatever a save has put there meanwhile, ...
ConfirmReadsUnits(c, e) ==
    /\ call[c].pc = "idle"
    /\ step1[e] # NULL /\ Requires(e)
    /\ To(c, [Idle EXCEPT !.pc = "rewriting", !.ep = e])
    /\ UNCHANGED <<files, torn, seen, crashes>>

ConfirmRewrites(c) ==
    LET e == call[c].ep IN
    /\ call[c].pc = "rewriting"
    /\ \E t \in Text : step1' = [step1 EXCEPT ![e] = t]
    /\ To(c, [Idle EXCEPT !.pc = "rewritten", !.ep = e])
    /\ UNCHANGED <<project, text, scripts, torn, seen, crashes>>

\* ... and its fingerprint is that of the file as it is by then.
ConfirmTakesAgain(c) ==
    LET e == call[c].ep IN
    /\ call[c].pc = "rewritten" /\ step1[e] # NULL
    /\ To(c, [Idle EXCEPT !.pc = "confirming", !.ep = e, !.content = step1[e]])
    /\ seen' = [seen EXCEPT ![e] = @ \cup {step1[e]}]
    /\ UNCHANGED <<project, files, torn, crashes>>

\* mutant: what is there at the time of the write is confirmed
ConfirmWritesLive(c) ==
    LET e == call[c].ep IN
    /\ call[c].pc = "confirming"
    /\ ledger' = IF ledger[e] = NULL THEN ledger ELSE [ledger EXCEPT ![e].review = step1[e]]
    /\ Ends(c)
    /\ UNCHANGED <<cursor, files, torn, seen, crashes>>

\* apply_confirmation under the lock; without an entry, episode_not_found
ConfirmWrites(c) ==
    LET e == call[c].ep IN
    /\ call[c].pc = "confirming"
    /\ ledger' = IF ledger[e] = NULL THEN ledger ELSE [ledger EXCEPT ![e].review = call[c].content]
    /\ Ends(c)
    /\ UNCHANGED <<cursor, files, torn, seen, crashes>>

Review(e) == IF ledger[e] = NULL THEN NULL ELSE ledger[e].review

\* review_status = "confirmed"; a script from before counts when nothing is stored.
Confirmed(e) == IF Review(e) # NULL THEN Review(e) = step1[e] ELSE e \in scripts

-----------------------------------------------------------------------------
(* step2: the gate; after awaits step1 is loaded and the script saved *)

PassesGate(c, e) ==
    /\ call[c].pc = "idle"
    /\ step1[e] # NULL /\ Confirmed(e)
    /\ To(c, [Idle EXCEPT !.pc = "gated", !.ep = e])
    /\ Quiet

\* project.json cannot be read just now: it is taken for {}, to which no gate
\* applies.
PassesBlindly(c, e) ==
    /\ call[c].pc = "idle"
    /\ step1[e] # NULL
    /\ To(c, [Idle EXCEPT !.pc = "ungated", !.ep = e])
    /\ Quiet

\* save_script and _apply_episode_sync
SavesScript(c) ==
    LET e == call[c].ep IN
    /\ call[c].pc \in {"gated", "ungated"}
    /\ scripts' = scripts \cup {e}
    /\ ledger' = IF ledger[e] # NULL THEN ledger
                 ELSE [ledger EXCEPT ![e] = [cut |-> NULL, status |-> "none", review |-> NULL]]
    /\ Ends(c)
    /\ UNCHANGED <<cursor, text, step1, torn, seen, crashes>>

-----------------------------------------------------------------------------
Next ==
    \/ \E c \in Call :
         \/ PlanReads(c) \/ PlanCommits(c) \/ PlanBreaks(c) \/ PlanConflicts(c) \/ PlanAnswers(c)
         \/ \E from \in Episode, consent \in BOOLEAN : ReplanReads(c, from, consent)
         \/ ReplanCommits(c) \/ ReplanLeavesFiles(c) \/ ReplanBreaks(c) \/ ReplanConflicts(c)
         \/ SplitWrites(c) \/ SavesScript(c)
         \/ ConfirmRewrites(c) \/ ConfirmTakesAgain(c) \/ ConfirmWrites(c)
         \/ \E e \in Worked : \/ SplitReads(c, e) \/ PassesGate(c, e) \/ PassesBlindly(c, e)
                             \/ ConfirmReads(c, e) \/ ConfirmReadsUnits(c, e)
         \/ Fails(c)
    \/ \E e \in Worked, t \in Text : SaveContent(e, t)
    \/ Crash

Spec == Init /\ [][Next]_vars

-----------------------------------------------------------------------------
(* Properties *)

LedgerTypeOK ==
    /\ ledger \in [Episode -> Entry \cup {NULL}]
    /\ cursor \in Place \cup {NULL}
    /\ text \in [Episode -> Cut \cup {Foreign, NULL}]
    /\ step1 \in [Episode -> Text \cup {NULL}]
    /\ scripts \subseteq Episode
    /\ torn \in [open : BOOLEAN, lost : BOOLEAN]
    /\ crashes \in 0..MaxCrashes

\* A cut has a part in it; the entries of a ledger that do.
Holds(k, p) == k.file = p.file /\ k.start <= p.at /\ p.at < k.end
Holders(L, p) == {e \in Anchored(L) : Holds(L[e].cut, p)}
Parts == {p \in Place : p.at < Size[p.file]}

\* A row of cuts, by episode number, where it ends, and whether it cuts the source
\* from its beginning on, in order and without leaving a part out.
From(k) == [file |-> k.file, at |-> k.start]
UpTo(k) == [file |-> k.file, at |-> k.end]
Row(L) == [e \in Episode |-> IF L[e] = NULL THEN NULL ELSE L[e].cut]
Placed(R) == {e \in Episode : R[e] # NULL}
Reach(R) == IF Placed(R) = {} THEN [file |-> Files[1], at |-> 0] ELSE UpTo(R[Max(Placed(R))])
Whole(R) ==
    /\ \A e, d \in Placed(R) : e < d => ~Before(From(R[d]), UpTo(R[e]))
    /\ \A p \in Parts : Before(p, Reach(R)) => \E e \in Placed(R) : Holds(R[e], p)

\* What was split off by hand before there was a ledger begins the source and
\* leaves nothing out.
LegacyInOrder ==
    \A old \in Legacy : Whole([e \in Episode |-> IF old.text[e] \in Cut THEN old.text[e] ELSE NULL])

\* Every part of the source before the place where planning goes on belongs
\* to exactly one episode and no part after it to any: two calls that ran
\* past each other lose and double nothing, nor does a plan that broke off
\* between the files and project.json.  (A replan that broke off may, and a
\* plan that broke off over the files an earlier one left.)
EachPartOnce ==
    ~torn.lost =>
        LET L == Filled
            start == EffectiveStart
        IN \A p \in Parts : Cardinality(Holders(L, p)) = IF Before(p, start) THEN 1 ELSE 0

\* The derived files say what the ledger says, whatever was left by a commit
\* that broke off, as soon as one has gone through again.
FilesFollowLedger ==
    cursor # NULL /\ ~torn.open =>
        \A e \in Episode : /\ ledger[e] = NULL => text[e] = NULL
                           /\ e \in Anchored(ledger) => text[e] = ledger[e].cut

\* A call that reports the source as exhausted is right, and stays right
\* until its answer is given.
ExhaustedIsTrue ==
    (\E c \in Call : call[c].pc = "exhausted") /\ ~torn.lost =>
        \A p \in Parts : Holders(Filled, p) # {}

\* The ledger is well formed and covers the source once, the derived files say
\* what it says, and a call that reports the source as exhausted is right.
LedgerInv ==
    /\ LedgerTypeOK
    /\ EachPartOnce
    /\ FilesFollowLedger
    /\ ExhaustedIsTrue

\* An entry that a reader of the ledger takes for consumed (it is marked so when
\* it is filled in and something was built on it) is cut anew only by a call that
\* had read it so and was told to go ahead, however long it waited for its model;
\* and if the number stays, it is marked stale.
CutAnew(e) == Filled'[e] = NULL \/ Filled'[e].cut # Filled[e].cut
RecutWithConsent ==
    [][\A e \in Episode :
         /\ crashes' = crashes
         /\ Filled[e] # NULL /\ Filled[e].status = "consumed"
         /\ CutAnew(e)
         => /\ \E c \in Call : /\ call[c].pc = "replanning" /\ call[c] # call'[c]
                               /\ call[c].consent /\ e \in call[c].consumed
            /\ ledger'[e] # NULL => ledger'[e].status = "stale"]_vars

\* A confirmation is lost only to a replan of its episode or to a later one:
\* planning beside it keeps it.
ConfirmationKept ==
    [][\A e \in Worked :
         Review(e) # NULL /\ Review(e)' # Review(e)
         => \E c \in Call :
              /\ call[c] # call'[c]
              /\ \/ call[c].pc = "replanning" /\ call[c].ep <= e
                 \/ call[c].pc = "confirming" /\ call[c].ep = e]_vars

\* A gate that can read project.json opens the script stage only for step1
\* content of which a confirmation took the fingerprint, however saves, splits,
\* confirmations and what these write themselves cross; except where a script
\* was there before and no confirmation is stored.
GateOpensForReviewed ==
    [][\A c \in Call :
         call[c].pc = "idle" /\ call'[c].pc = "gated"
         => LET e == call'[c].ep
            IN step1[e] \in seen[e] \/ (Review(e) = NULL /\ e \in scripts)]_vars

\* Confirmations are kept, and the gate of the script stage relies on them.
ReviewHolds == ConfirmationKept /\ GateOpensForReviewed

-----------------------------------------------------------------------------
(* Properties the repository states and the code does not have *)

\* ADR 0031: "重排已消费集（已生成 step1/剧本/媒体）需显式确认"; CONTEXT.md:
\* "consumed（已有下游产物：step1 中间文件、剧本或媒体）".
RebuiltWithConsent ==
    [][\A e \in Episode :
         /\ crashes' = crashes
         /\ Filled[e] # NULL /\ Filled[e].status # "stale" /\ HasDownstream(e)
         /\ CutAnew(e)
         => \E c \in Call : call[c].pc = "replanning" /\ call[c] # call'[c] /\ call[c].consent]_vars

\* text_generation.py: "结构化 step1 中间态须经 web 显式确认才放行 step2 视觉生成".
NothingPassesUnreviewed ==
    [][\A c \in Call :
         call[c].pc = "idle" /\ call'[c].pc \in {"gated", "ungated"}
         => LET e == call'[c].ep
            IN step1[e] \in seen[e] \/ (Review(e) = NULL /\ e \in scripts)]_vars
=============================================================================
