------------------------------- MODULE Recall -------------------------------
(***************************************************************************)
(* What zbrain ask finds: the lexical search over the index, the optional  *)
(* merge with the vectors of the embedding sidecar (query.rs, embedder.rs), *)
(* the temporal window and the three outcomes ready, gap and blocked.      *)
(*                                                                         *)
(* Lifecycle commands and rebuilds are single steps here: TrustedStore     *)
(* shows that a fresh index describes the claim files.  The vectors are    *)
(* different: they are written after the index is published and without    *)
(* the workspace lock.  The clock counts seconds from Start, as the recorded *)
(* timestamps do, and does not step back; the bounds of a query are texts. *)
(* A list of results is the set of its claims: where one stands in it is   *)
(* its place in the ranking that sorted the list.                          *)
(***************************************************************************)
EXTENDS Integers, FiniteSets, Timestamps

CONSTANTS
    Claims,
    Supersedes,  \* the claims each claim replaces when it is approved
    Conflicts,   \* the `conflicts_with` list of each claim, as a set
    Procs,       \* processes that run zbrain reindex [--embedding]
    StaleDates,  \* the stale_after that drafts are given; Never: none
    Queries,     \* [hits: which claims match the words, limit: the --limit,
                 \*  lex and vec: where the words and the vectors rank each claim]
    Start,       \* the instant at which the clock is 0
    Windows,     \* the texts of [after, before, as_of]; NoText: not given
    NoText,
    Texts,       \* timestamps of every kind, for the readers to agree on
    MaxTime      \* bound on the clock

\* No two claims have one rank: paths and ids break the ties.
IsRanking(r) == r \in [Claims -> Nat] /\ \A c, d \in Claims : r[c] = r[d] => c = d

ASSUME RecallBounds == MaxTime \in Nat /\ StaleDates \subseteq Int
ASSUME ClaimsAssumption ==
    IsFiniteSet(Claims) /\ {Supersedes, Conflicts} \subseteq [Claims -> SUBSET Claims]
ASSUME QueriesAssumption ==
    \A q \in Queries : /\ q.hits \subseteq Claims /\ q.limit \in Int
                       /\ IsRanking(q.lex) /\ IsRanking(q.vec)
ASSUME TextsAssumption == \A t \in Texts : IsText(t)
ASSUME WindowsAssumption == \A w \in Windows : DOMAIN w = {"after", "before", "as_of"}

Statuses == {"absent", "draft", "approved", "superseded", "revoked"}
Ended    == {"superseded", "revoked"}
Never    == -1  \* an empty timestamp
Times    == 0 .. MaxTime
Stamps   == Times \cup {Never}

\* `at` is created_at of a draft and verified_at of any other claim.
Absent   == [st |-> "absent", at |-> Never, stale |-> Never, ended |-> Never]
Quiet    == [asked |-> FALSE]
Rest     == [step |-> "idle", ids |-> {}]

VARIABLES
    now,      \* the clock
    claim,    \* the claim files
    rows,     \* the published index: the status it has for each claim
    fresh,    \* does the index pass the freshness check?
    vectors,  \* ids in the embedding sidecar; empty: no file, or no vector
    job,      \* what each process has left to do after its rebuild published
    told,     \* the last query and its response
    past      \* history: the claims that were active when each second ended

vars == <<now, claim, rows, fresh, vectors, job, told, past>>

WithStatus(S) == {c \in Claims : rows[c] \in S}

ActiveAt(c, t) ==
    claim[c].st = "approved" /\ (claim[c].stale = Never \/ claim[c].stale > t)

Init ==
    /\ now = 0
    /\ claim = [c \in Claims |-> Absent]
    /\ rows = [c \in Claims |-> "absent"] /\ fresh = TRUE /\ vectors = {}
    /\ job = [p \in Procs |-> Rest]
    /\ told = Quiet
    /\ past = [t \in {} |-> {}]

-----------------------------------------------------------------------------
(* The lifecycle; every change makes the index unservable *)

Change(c, record, others) ==
    /\ ~told.asked
    /\ claim' = [d \in Claims |-> IF d = c THEN record
                                  ELSE IF d \in others
                                  THEN [claim[d] EXCEPT !.st = "superseded", !.ended = now]
                                  ELSE claim[d]]
    /\ fresh' = FALSE
    /\ UNCHANGED <<now, rows, vectors, job, told, past>>

Draft(c, date) ==
    /\ claim[c].st \in {"absent", "draft"}
    /\ Change(c, [Absent EXCEPT !.st = "draft", !.at = now, !.stale = date], {})

Approve(c) ==
    /\ claim[c].st = "draft" /\ \A d \in Supersedes[c] : claim[d].st = "approved"
    /\ Change(c, [claim[c] EXCEPT !.st = "approved", !.at = now], Supersedes[c])

Revoke(c) ==
    /\ claim[c].st = "approved"
    /\ Change(c, [claim[c] EXCEPT !.st = "revoked", !.ended = now], {})

-----------------------------------------------------------------------------
(* rebuild_with_options: the vectors follow the published index *)

Reindex(p, embedding) ==
    /\ ~told.asked /\ job[p] = Rest
    /\ rows' = [c \in Claims |-> claim[c].st] /\ fresh' = TRUE
    /\ job' = [job EXCEPT ![p].step = IF embedding THEN "read" ELSE "clear"]
    /\ UNCHANGED <<now, claim, vectors, told, past>>

\* embed_indexed_claims reads whatever index is published by then.
ReadRows(p) ==
    LET ids == WithStatus({"approved"})
    IN  /\ ~told.asked /\ job[p].step = "read"
        /\ job' = [job EXCEPT ![p] = [step |-> IF ids = {} THEN "clear" ELSE "store", ids |-> ids]]
        /\ UNCHANGED <<now, claim, rows, fresh, vectors, told, past>>

WriteVectors(p) ==
    /\ ~told.asked /\ job[p].step \in {"clear", "store"}
    /\ vectors' = IF job[p].step = "store" THEN job[p].ids ELSE {}
    /\ job' = [job EXCEPT ![p] = Rest]
    /\ UNCHANGED <<now, claim, rows, fresh, told, past>>

\* The process dies, or fails to write the sidecar.
Die(p) ==
    /\ ~told.asked /\ job[p] # Rest
    /\ job' = [job EXCEPT ![p] = Rest]
    /\ UNCHANGED <<now, claim, rows, fresh, vectors, told, past>>

-----------------------------------------------------------------------------
(* Searching *)

Limit(n) == IF n <= 0 THEN 10 ELSE n

\* Where c stands in the list of S as r ranks it: 1 is first.
Place(S, r, c) == 1 + Cardinality({d \in S : r[d] < r[c]})
Top(S, r, n)   == {c \in S : Place(S, r, c) <= n}

\* Mutant: the status is looked at after the limit.
Lexical_LimitFirst(q, statuses, n) == Top(q.hits, q.lex, n) \cap WithStatus(statuses)

\* search_unlocked_internal
Lexical(q, statuses, n) == Top(q.hits \cap WithStatus(statuses), q.lex, n)

\* search_vectors: the most similar ids, whatever became of the claims.
Similar(q, n) == Top(vectors, q.vec, n)

\* Mutant: the status of the claim is not looked at.
Known_AnyStatus(ids) == ids \cap WithStatus(Statuses \ {"absent"})

\* claims_by_ids_unlocked, put back into the order of the ids.
Known(ids) == ids \cap WithStatus({"approved"})

\* Reciprocal rank fusion, compared without fractions: 1/(60+i) + 1/(60+j).
\* A list to merge is [ids, rank]; the rank of a claim that is not in it is 0.
Rank(list, c) == IF c \in list.ids THEN Place(list.ids, list.rank, c) ELSE 0
Numerator(i, j)   == IF i = 0 \/ j = 0 THEN 1 ELSE 120 + i + j
Denominator(i, j) == IF i = 0 THEN 60 + j ELSE IF j = 0 THEN 60 + i ELSE (60 + i) * (60 + j)
Better(i, j, k, l) == Numerator(i, j) * Denominator(k, l) > Numerator(k, l) * Denominator(i, j)
EarlierIn(list, c, d) ==
    Rank(list, c) # 0 /\ (Rank(list, d) = 0 \/ Rank(list, c) < Rank(list, d))

\* Mutant: a tie goes to the vectors.
Precedes_VectorFirst(lex, vec, c, d) ==
    \/ Better(Rank(lex, c), Rank(vec, c), Rank(lex, d), Rank(vec, d))
    \/ /\ ~Better(Rank(lex, d), Rank(vec, d), Rank(lex, c), Rank(vec, c))
       /\ EarlierIn(vec, c, d)

\* Equal sums with equal lexical ranks do not occur: the vector ranks differ.
Precedes(lex, vec, c, d) ==
    \/ Better(Rank(lex, c), Rank(vec, c), Rank(lex, d), Rank(vec, d))
    \/ /\ ~Better(Rank(lex, d), Rank(vec, d), Rank(lex, c), Rank(vec, c))
       /\ EarlierIn(lex, c, d)

\* interleave_claims
Fused(lex, vec, n) ==
    LET all == lex.ids \cup vec.ids
    IN  {c \in all : Cardinality({d \in all : Precedes(lex, vec, d, c)}) < n}

\* merge_vector_results
Merged(q, ids, n) ==
    LET known == Known(Similar(q, n))
    IN  IF known = {} THEN ids
        ELSE Fused([ids |-> ids, rank |-> q.lex], [ids |-> known, rank |-> q.vec], n)

-----------------------------------------------------------------------------
(* The temporal window *)

Anytime == [after |-> Never, before |-> Never, as_of |-> Never]

\* A bound on the clock of the model.
Clock(text) ==
    IF text = NoText THEN Never
    ELSE LET i == ReadBound(text) IN (i[1] - Start[1]) * Day + i[2] - Start[2]

\* parse_temporal_options: a bound that cannot be read is refused, and so is a window
\* whose start is after its end.
Window(texts) == [side \in DOMAIN texts |-> Clock(texts[side])]
Ordered(w) == w.after # Never /\ w.before # Never => w.after <= w.before
Accepted ==
    LET read == {texts \in Windows : \A side \in DOMAIN texts :
                    texts[side] # NoText => ReadBound(texts[side]) # Bad}
    IN  {w \in {Window(texts) : texts \in read} : Ordered(w)}

\* Mutant: a claim that ended at this very second is still active.
EndedAfter_OrAt(c, t) == claim[c].ended >= t

EndedAfter(c, t) == claim[c].ended > t

\* match_temporal_claim
InWindow(c, w) ==
    \/ w = Anytime
    \/ /\ w.as_of # Never =>
             /\ claim[c].at <= w.as_of
             /\ claim[c].stale # Never => claim[c].stale > w.as_of
             /\ claim[c].st \in Ended => EndedAfter(c, w.as_of)
       /\ w.after # Never => claim[c].at >= w.after
       /\ w.before # Never => claim[c].at <= w.before

Trusted(w) == IF w.as_of = Never THEN {"approved"} ELSE {"approved"} \cup Ended

\* find_query_conflicts: only one of the two need record the conflict.
InConflict(S) == \E c, d \in S : d \in Conflicts[c]

\* trusted_query under the shared lock: the candidates are cut to the limit
\* first and put through the window then.
Response(q, w, n, embedding) ==
    LET lex   == Lexical(q, Trusted(w), n)
        found == IF embedding THEN Merged(q, lex, n) ELSE lex
        kept  == {c \in found : InWindow(c, w)}
        proposed == {c \in Lexical(q, {"draft"}, n) : InWindow(c, w)}
    IN  [asked |-> TRUE, query |-> q, window |-> w, limit |-> n, embedding |-> embedding,
         claims |-> kept, candidates |-> proposed,
         status |-> IF InConflict(kept) THEN "blocked"
                    ELSE IF kept = {} THEN "gap" ELSE "ready"]

\* An index that is not fresh answers nothing.
Ask(q, w, embedding) ==
    /\ ~told.asked /\ fresh
    /\ told' = Response(q, w, Limit(q.limit), embedding)
    /\ UNCHANGED <<now, claim, rows, fresh, vectors, job, past>>

Read == /\ told.asked /\ told' = Quiet
        /\ UNCHANGED <<now, claim, rows, fresh, vectors, job, past>>

-----------------------------------------------------------------------------

Tick ==
    /\ ~told.asked /\ now < MaxTime
    /\ now' = now + 1
    /\ past' = [t \in 0 .. now |-> IF t < now THEN past[t]
                                   ELSE {c \in Claims : ActiveAt(c, now)}]
    /\ UNCHANGED <<claim, rows, fresh, vectors, job, told>>

Next ==
    \/ \E c \in Claims : \/ Approve(c) \/ Revoke(c)
                         \/ \E date \in StaleDates : Draft(c, date)
    \/ \E p \in Procs : \/ ReadRows(p) \/ WriteVectors(p) \/ Die(p)
                        \/ \E embedding \in BOOLEAN : Reindex(p, embedding)
    \/ \E q \in Queries, w \in Accepted, embedding \in BOOLEAN : Ask(q, w, embedding)
    \/ Read \/ Tick

Spec == Init /\ [][Next]_vars

-----------------------------------------------------------------------------
(* Properties *)

Answered == IF told.asked THEN told.claims ELSE {}
Matching(q, S) == {c \in q.hits : claim[c].st \in S}

\* An answer as of a second that is over holds only claims that were approved
\* and not stale when that second ended, and all of them that match the words
\* and the rest of the window when the limit cut nothing off, whatever was
\* superseded, revoked or became stale later (match_temporal_claim).
RecallIsHistory ==
    told.asked /\ told.window.as_of \in DOMAIN past =>
        LET then == past[told.window.as_of]
            w    == [told.window EXCEPT !.as_of = Never]
        IN  /\ Answered \subseteq then
            /\ Cardinality(Matching(told.query, Trusted(told.window))) <= told.limit
                  /\ ~told.embedding =>
               {c \in then \cap told.query.hits : InWindow(c, w)} \subseteq Answered

\* An answer about the present holds approved claims only and its candidates are
\* drafts, whatever an earlier, later or dead rebuild left in the sidecar
\* (claims_by_ids_unlocked).
OnlyApprovedTold ==
    told.asked =>
        /\ told.window.as_of = Never => \A c \in Answered : claim[c].st = "approved"
        /\ \A c \in told.candidates : claim[c].st = "draft"

\* Merging in the vectors never costs the best lexical match its place, and
\* never answers more than was asked for (interleave_claims).
BestMatchSurvives ==
    told.asked =>
        LET lex == Lexical(told.query, {"approved"}, told.limit)
        IN  /\ Cardinality(told.claims) <= told.limit
            /\ told.window = Anytime =>
                  \A c \in lex : Place(lex, told.query.lex, c) = 1 => c \in Answered

\* Without a window a gap says that no approved claim matches the words, and two
\* approved claims that match and conflict are never both told as ready.
PlainGapIsHonest ==
    told.asked /\ told.window = Anytime =>
        /\ told.status = "gap" => Matching(told.query, {"approved"}) = {}
        /\ told.status = "ready" => \A c \in Answered : Conflicts[c] \cap Answered = {}

\* The bounds of a query are read by one reader and the timestamps of a claim by
\* another: both take a text for the same second, the query takes every timestamp
\* that a claim may have but leap seconds and odd separators, and no date that does
\* not exist; and what the program recorded can be asked about (parse_rfc3339_go,
\* clock::parse_rfc3339, clock::rfc3339).  It is stated once, of the first second.
BoundsAreRead ==
    now = 0 /\ claim = [c \in Claims |-> Absent] =>
        \A t \in Texts : /\ SameReading(t)
                         /\ ReadBound(t) # Bad => ReadsBack(ReadBound(t))

\* trusted-memory-spec.md, section 9: "`gap` when no trusted claim supports the
\* query", with a window as well: no approved claim that matches the words is
\* within it.
GapIsHonest ==
    told.asked /\ told.status = "gap" =>
        \A c \in Matching(told.query, {"approved"}) : ~InWindow(c, told.window)
=============================================================================
