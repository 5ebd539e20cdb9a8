---------------------------- MODULE TrustedStore ----------------------------
(***************************************************************************)
(* One zbrain workspace: the canonical claim files, the advisory workspace *)
(* lock, the {current, published} generation, the dirty marker, the        *)
(* supersession journal and the derived index, driven by any number of     *)
(* zbrain processes (CLI commands, MCP servers, viewers) and by outside    *)
(* edits of the Markdown files.  A process may die between any two steps.  *)
(*                                                                         *)
(* Each step is one file operation of the code, or a read whose result is  *)
(* used before the next file operation.  Claim text is abstracted to a     *)
(* status and a version: two contents of a claim file are equal iff both   *)
(* fields are.  "approved" means approved with a matching verification     *)
(* digest; "broken" stands for every file a scan classifies as invalid.    *)
(***************************************************************************)
EXTENDS Integers, FiniteSets

CONSTANTS
    Procs,        \* zbrain processes
    Claims,       \* claim ids of the workspace
    Supersedes,   \* the `supersedes` list of each claim, as a set
    Supports,     \* every claim reached through supporting_claim_ids
    Roles,        \* which commands a process runs
    Mortal,       \* the processes that may die or meet an I/O error
    InitStatus,   \* status of each claim file when the behaviour starts
    MaxGen,       \* the largest generation (u64::MAX in the code)
    MaxEdits,     \* bound on outside edits of the claim files
    Reverts,      \* may an outside edit put back earlier bytes?
    CoarseStamps, \* may a program write leave the file's change token as is?
    Nobody

Statuses == {"absent", "draft", "approved", "superseded", "revoked", "broken"}
Kinds    == {"draft", "approve", "revoke", "reindex", "ask", "view"}

ASSUME SupersedesAssumption ==
    /\ Supersedes \in [Claims -> SUBSET Claims]
    /\ \A c \in Claims : c \notin Supersedes[c]
ASSUME SupportsAssumption ==
    /\ Supports \in [Claims -> SUBSET Claims]
    /\ \A c \in Claims : /\ c \notin Supports[c]
                         /\ \A d \in Supports[c] : Supports[d] \subseteq Supports[c]
ASSUME RolesAssumption == Roles \in [Procs -> SUBSET Kinds] /\ Mortal \subseteq Procs
ASSUME InitAssumption == InitStatus \in [Claims -> Statuses]
ASSUME BoundsAssumption == MaxGen \in Nat /\ MaxEdits \in Nat
ASSUME ModesAssumption == Reverts \in BOOLEAN /\ CoarseStamps \in BOOLEAN
ASSUME NobodyAssumption == Nobody \notin Procs
ASSUME ClaimsAssumption == IsFiniteSet(Claims) /\ Claims # {}

Content  == [st : Statuses, ver : Nat]
\* The supersession journal, and the write plan of a lifecycle command.
Batch    == [targets : SUBSET Claims,
             pre     : [Claims -> Content],
             post    : [Claims -> Content]]
\* What a rebuild collects: the generation it observed, the trust-input
\* manifest, the scanned claims, and the recorded change tokens.
Snapshot == [gen      : Nat,
             manifest : [Claims -> Content],
             rows     : [Claims -> Content],
             stamps   : [Claims -> Nat]]

Gone        == [st |-> "absent", ver |-> 0]
Blank       == [c \in Claims |-> Gone]
NoBatch     == [targets |-> {}, pre |-> Blank, post |-> Blank]
NoSnapshot  == [gen |-> 0, manifest |-> Blank, rows |-> Blank,
                stamps |-> [c \in Claims |-> 0]]

VARIABLES
    exHolder, readers,  \* flock: the exclusive holder, the shared holders
    gen,                \* generation.json
    dirty,              \* is the dirty marker present?
    journal,            \* pending-transition.json (no targets: no file)
    file, stamp,        \* claim files: content, and mtime/ctime token
    saved,              \* content each file had before its last outside edit
    edits,              \* outside edits so far
    db,                 \* the published index; db.snap.gen is history only
    pc, op, todo, plan, snap, ans  \* locals of the processes

lockVars  == <<exHolder, readers>>
fileVars  == <<file, stamp, saved, edits>>
ctlVars   == <<gen, dirty, journal>>
localVars == <<op, todo, plan, snap, ans>>
vars == <<lockVars, fileVars, ctlVars, db, pc, localVars>>

NoOp == [kind |-> "none", claim |-> Nobody, phase |-> "none"]

Init ==
    /\ exHolder = Nobody /\ readers = {}
    /\ gen = [current |-> 0, published |-> 0]
    /\ dirty = FALSE
    /\ journal = NoBatch
    /\ file = [c \in Claims |-> [st |-> InitStatus[c], ver |-> 0]]
    /\ stamp = [c \in Claims |-> 0]
    /\ saved = file
    /\ edits = 0
    /\ db = [built |-> FALSE, snap |-> NoSnapshot]
    /\ pc = [p \in Procs |-> "idle"]
    /\ op = [p \in Procs |-> NoOp]
    /\ todo = [p \in Procs |-> {}]
    /\ plan = [p \in Procs |-> NoBatch]
    /\ snap = [p \in Procs |-> NoSnapshot]
    /\ ans = [p \in Procs |-> {}]

-----------------------------------------------------------------------------
(* Helpers *)

Pending == journal.targets # {}

\* Mutant: supports are not validated.
Grounded_Unchecked(c, content) == content[c].st \in Statuses

\* Every claim reached from c's supports is approved.
Grounded(c, content) == \A d \in Supports[c] : content[d].st = "approved"

\* A rebuild with one invalid trust input is published as "rejected".
Clean(s) ==
    \A c \in Claims : /\ s.rows[c].st # "broken"
                      /\ s.rows[c].st = "approved" => Grounded(c, s.rows)

GoTo(p, label) == pc' = [pc EXCEPT ![p] = label]

\* The process returns from its command: its locals disappear and dropping
\* (or the kernel closing) the lock descriptor releases the workspace lock.
Return(p) ==
    /\ exHolder' = IF exHolder = p THEN Nobody ELSE exHolder
    /\ readers' = readers \ {p}
    /\ GoTo(p, "idle")
    /\ op' = [op EXCEPT ![p] = NoOp]
    /\ todo' = [todo EXCEPT ![p] = {}]
    /\ plan' = [plan EXCEPT ![p] = NoBatch]
    /\ snap' = [snap EXCEPT ![p] = NoSnapshot]
    /\ ans' = [ans EXCEPT ![p] = {}]

\* The command fails without touching a file.
Fail(p) == Return(p) /\ UNCHANGED <<fileVars, ctlVars, db>>

\* An atomic replacement (temporary file and rename) of a claim file by the
\* program.  Timestamp granularity may leave the change token as it was.
\* A file is written at most once per generation, so the generation is a
\* fresh token and, for new content, a fresh version.
Replace(c, content) ==
    /\ file' = [file EXCEPT ![c] = content]
    /\ \/ stamp' = [stamp EXCEPT ![c] = gen.current]
       \/ CoarseStamps /\ UNCHANGED stamp
    /\ UNCHANGED <<saved, edits>>

-----------------------------------------------------------------------------
(* Commands that write hold the exclusive lock from their first step to    *)
(* their last, and finish a supersession a dead process left behind before *)
(* they look at anything else.                                             *)

\* The claim commands and the draft tool mark the index dirty under a lock of
\* their own before they enter the store; the other callers enter directly.
MarkFirst(p, kind, c) ==
    /\ pc[p] = "idle" /\ kind \in Roles[p]
    /\ exHolder = Nobody /\ readers = {}
    /\ dirty' = TRUE
    /\ op' = [op EXCEPT ![p] = [kind |-> kind, claim |-> c, phase |-> "recover"]]
    /\ GoTo(p, "marked")
    /\ UNCHANGED <<lockVars, fileVars, gen, journal, db, todo, plan, snap, ans>>

AcquireExclusive(p, kind, c) ==
    /\ \/ pc[p] = "idle" /\ kind \in Roles[p]
       \/ pc[p] = "marked" /\ op[p].kind = kind /\ op[p].claim = c
    /\ exHolder = Nobody /\ readers = {}
    /\ exHolder' = p
    /\ op' = [op EXCEPT ![p] = [kind |-> kind, claim |-> c, phase |-> "recover"]]
    /\ GoTo(p, "start")
    /\ UNCHANGED <<readers, fileVars, ctlVars, db, todo, plan, snap, ans>>

AfterRecovery(p) == IF op[p].kind = "reindex" THEN "observe" ELSE "plan"

\* Mutant: a command does not look for an unfinished supersession.
Start_SkipsRecovery(p) ==
    /\ pc[p] = "start"
    /\ GoTo(p, AfterRecovery(p))
    /\ UNCHANGED <<lockVars, fileVars, ctlVars, db, localVars>>

Start(p) ==
    /\ pc[p] = "start"
    /\ GoTo(p, IF Pending THEN "mark" ELSE AfterRecovery(p))
    /\ UNCHANGED <<lockVars, fileVars, ctlVars, db, localVars>>

\* begin_canonical_mutation: the dirty marker goes first, then the generation.
MarkDirty(p) ==
    /\ pc[p] = "mark" /\ gen.current < MaxGen
    /\ dirty' = TRUE
    /\ GoTo(p, "bump")
    /\ UNCHANGED <<lockVars, fileVars, gen, journal, db, localVars>>

GenerationExhausted(p) == pc[p] = "mark" /\ gen.current = MaxGen /\ Fail(p)

AdvanceGeneration(p) ==
    /\ pc[p] = "bump"
    /\ gen' = [gen EXCEPT !.current = @ + 1]
    /\ GoTo(p, IF op[p].phase = "recover" THEN "check"
               ELSE IF plan[p].targets = {op[p].claim} THEN "write" ELSE "publish")
    /\ UNCHANGED <<lockVars, fileVars, dirty, journal, db, localVars>>

\* Validate a lifecycle command against the canonical files and compute every
\* file it will write.  Nothing is written yet.
Planned(kind, c) ==
    LET Post(st) == [st |-> st, ver |-> gen.current + 1]
        Of(T, post) == [targets |-> T,
                        pre  |-> [d \in Claims |-> IF d \in T THEN file[d] ELSE Blank[d]],
                        post |-> [d \in Claims |-> IF d \in T THEN post[d] ELSE Blank[d]]]
    IN  CASE kind = "draft"   -> Of({c}, [d \in Claims |-> Post("draft")])
          [] kind = "revoke"  -> Of({c}, [d \in Claims |-> Post("revoked")])
          [] kind = "approve" -> Of({c} \cup Supersedes[c],
                 [d \in Claims |-> Post(IF d = c THEN "approved" ELSE "superseded")])

\* Mutant: approve does not look at what the replaced claims have become.
Permitted_StaleReplacement(kind, c) ==
    \/ kind = "draft"   /\ file[c].st \in {"absent", "draft"}
    \/ kind = "approve" /\ file[c].st = "draft" /\ Grounded(c, file)
    \/ kind = "revoke"  /\ file[c].st = "approved"

Permitted(kind, c) ==
    \/ /\ kind = "draft" /\ file[c].st \in {"absent", "draft"}
       /\ Supersedes[c] # {} => \E old \in Supersedes[c] : file[old].st = "approved"
    \/ /\ kind = "approve" /\ file[c].st = "draft" /\ Grounded(c, file)
       /\ \A old \in Supersedes[c] : file[old].st = "approved"
    \/ kind = "revoke" /\ file[c].st = "approved"

Plan(p) ==
    /\ pc[p] = "plan" /\ Permitted(op[p].kind, op[p].claim)
    /\ plan' = [plan EXCEPT ![p] = Planned(op[p].kind, op[p].claim)]
    /\ op' = [op EXCEPT ![p].phase = "commit"]
    /\ GoTo(p, "mark")
    /\ UNCHANGED <<lockVars, fileVars, ctlVars, db, todo, snap, ans>>

Refuse(p) == pc[p] = "plan" /\ ~Permitted(op[p].kind, op[p].claim) /\ Fail(p)

WriteClaim(p) ==
    /\ pc[p] = "write"
    /\ Replace(op[p].claim, plan[p].post[op[p].claim])
    /\ Return(p)
    /\ UNCHANGED <<ctlVars, db>>

\* The journal is linked into place; from here on the supersession is decided.
PublishJournal(p) ==
    /\ pc[p] = "publish" /\ ~Pending
    /\ journal' = plan[p]
    /\ GoTo(p, "check")
    /\ UNCHANGED <<lockVars, fileVars, gen, dirty, db, localVars>>

-----------------------------------------------------------------------------
(* recover_pending_transition: classify every target before writing any,   *)
(* write the missing ones, verify all of them, remove the journal.         *)

Explained(c) == file[c] \in {journal.pre[c], journal.post[c]}

Classify(p) ==
    /\ pc[p] = "check" /\ \A c \in journal.targets : Explained(c)
    /\ todo' = [todo EXCEPT ![p] =
                  {c \in journal.targets : file[c] # journal.post[c]}]
    /\ GoTo(p, "apply")
    /\ UNCHANGED <<lockVars, fileVars, ctlVars, db, op, plan, snap, ans>>

PreimageMismatch(p) ==
    pc[p] = "check" /\ (\E c \in journal.targets : ~Explained(c)) /\ Fail(p)

ApplyTarget(p, c) ==
    /\ pc[p] = "apply" /\ c \in todo[p]
    /\ Replace(c, journal.post[c])
    /\ todo' = [todo EXCEPT ![p] = @ \ {c}]
    /\ UNCHANGED <<lockVars, ctlVars, db, pc, op, plan, snap, ans>>

Applied == \A c \in journal.targets : file[c] = journal.post[c]

\* Mutant: the journal goes once the first target is in place.
RemoveJournal_Early(p) ==
    /\ pc[p] = "apply" /\ \E c \in journal.targets : file[c] = journal.post[c]
    /\ journal' = NoBatch
    /\ UNCHANGED <<fileVars, gen, dirty, db>>
    /\ IF op[p].phase = "recover"
       THEN GoTo(p, AfterRecovery(p)) /\ UNCHANGED <<lockVars, localVars>>
       ELSE Return(p)

RemoveJournal(p) ==
    /\ pc[p] = "apply" /\ todo[p] = {} /\ Applied
    /\ journal' = NoBatch
    /\ UNCHANGED <<fileVars, gen, dirty, db>>
    /\ IF op[p].phase = "recover"
       THEN GoTo(p, AfterRecovery(p)) /\ UNCHANGED <<lockVars, localVars>>
       ELSE Return(p)

VerifyFails(p) == pc[p] = "apply" /\ todo[p] = {} /\ ~Applied /\ Fail(p)

-----------------------------------------------------------------------------
(* zbrain reindex: observe the generation under the lock, collect without  *)
(* it, publish under it again.                                             *)

Observe(p) ==
    /\ pc[p] = "observe"
    /\ dirty' = TRUE
    /\ exHolder' = Nobody
    /\ snap' = [snap EXCEPT ![p].gen = gen.current]
    /\ todo' = [todo EXCEPT ![p] = Claims]
    /\ GoTo(p, "manifest")
    /\ UNCHANGED <<readers, fileVars, gen, journal, db, op, plan, ans>>

\* One file of a pass has been read; after the last one the next pass starts.
Passed(p, c, next) ==
    /\ todo' = [todo EXCEPT ![p] = IF @ = {c} THEN Claims ELSE @ \ {c}]
    /\ GoTo(p, IF todo[p] = {c} THEN next ELSE pc[p])
    /\ UNCHANGED <<lockVars, fileVars, ctlVars, db, op, plan, ans>>

ReadManifest(p, c) ==
    /\ pc[p] = "manifest" /\ c \in todo[p]
    /\ snap' = [snap EXCEPT ![p].manifest[c] = file[c]]
    /\ Passed(p, c, "scan")

ScanClaim(p, c) ==
    /\ pc[p] = "scan" /\ c \in todo[p]
    /\ snap' = [snap EXCEPT ![p].rows[c] = file[c]]
    /\ Passed(p, c, "recheck")

RecheckManifest(p, c) ==
    /\ pc[p] \in {"recheck", "confirm"} /\ c \in todo[p]
    /\ file[c] = snap[p].manifest[c]
    /\ Passed(p, c, IF pc[p] = "recheck" THEN "stamps" ELSE "lockpub")
    /\ UNCHANGED snap

InputsChanged(p, c) ==
    /\ pc[p] \in {"recheck", "confirm"} /\ c \in todo[p]
    /\ file[c] # snap[p].manifest[c]
    /\ Fail(p)

\* Mutant: the inputs are not compared again after the tokens are captured.
CaptureStamp_Unconfirmed(p, c) ==
    /\ pc[p] = "stamps" /\ c \in todo[p]
    /\ snap' = [snap EXCEPT ![p].stamps[c] = stamp[c]]
    /\ Passed(p, c, "lockpub")

CaptureStamp(p, c) ==
    /\ pc[p] = "stamps" /\ c \in todo[p]
    /\ snap' = [snap EXCEPT ![p].stamps[c] = stamp[c]]
    /\ Passed(p, c, "confirm")

\* The temporary database is complete; what is left happens under the lock.
AcquirePublication(p) ==
    /\ pc[p] = "lockpub" /\ exHolder = Nobody /\ readers = {}
    /\ exHolder' = p
    /\ GoTo(p, "checkpub")
    /\ UNCHANGED <<readers, fileVars, ctlVars, db, localVars>>

\* Mutant: publication does not compare the generation.
Publishable_AnyGeneration(p) == p \in Procs /\ ~Pending

Publishable(p) == ~Pending /\ gen.current = snap[p].gen

CheckPublication(p) ==
    /\ pc[p] = "checkpub" /\ Publishable(p)
    /\ GoTo(p, "rename")
    /\ UNCHANGED <<lockVars, fileVars, ctlVars, db, localVars>>

\* Any error under the publication lock puts the dirty marker back: a snapshot
\* that is out of date, or an I/O error on the way.
AbandonPublication(p) ==
    /\ dirty' = TRUE
    /\ Return(p)
    /\ UNCHANGED <<fileVars, gen, journal, db>>

StalePublication(p) == pc[p] = "checkpub" /\ ~Publishable(p) /\ AbandonPublication(p)

PublicationError(p) ==
    p \in Mortal /\ pc[p] \in {"rename", "pubgen", "undirty"} /\ AbandonPublication(p)

RenameDatabase(p) ==
    /\ pc[p] = "rename"
    /\ db' = [built |-> TRUE, snap |-> snap[p]]
    /\ GoTo(p, "pubgen")
    /\ UNCHANGED <<lockVars, fileVars, ctlVars, localVars>>

PublishGeneration(p) ==
    /\ pc[p] = "pubgen"
    /\ gen' = [gen EXCEPT !.published = gen.current]
    /\ GoTo(p, "undirty")
    /\ UNCHANGED <<lockVars, fileVars, dirty, journal, db, localVars>>

RemoveDirty(p) ==
    /\ pc[p] = "undirty"
    /\ dirty' = FALSE
    /\ Return(p)
    /\ UNCHANGED <<fileVars, gen, journal, db>>

-----------------------------------------------------------------------------
(* zbrain ask holds the shared lock throughout.                            *)

AcquireShared(p) ==
    /\ pc[p] = "idle" /\ "ask" \in Roles[p] /\ exHolder = Nobody
    /\ readers' = readers \cup {p}
    /\ op' = [op EXCEPT ![p] = [NoOp EXCEPT !.kind = "ask"]]
    /\ GoTo(p, "fresh")
    /\ UNCHANGED <<exHolder, fileVars, ctlVars, db, todo, plan, snap, ans>>

\* A database is there and records a rebuild without invalid inputs.
Servable == db.built /\ Clean(db.snap)

\* Is c among the trust inputs that the published manifest lists?
Listed(c) == db.snap.manifest[c].st # "absent"

SameToken(c) == stamp[c] = db.snap.stamps[c]

\* A file the manifest does not list came, or came and went: the token of its
\* directory differs.
DirectoryChanged == \E c \in Claims : ~Listed(c) /\ ~SameToken(c)

DigestsMatch == \A c \in Claims : file[c] = db.snap.manifest[c]

\* check_fresh: what makes a published index servable.  The tokens of the listed
\* files decide; the digests are computed only if a directory changed.
Fresh ==
    /\ ~Pending /\ ~dirty /\ Servable
    /\ gen.current = gen.published
    /\ \A c \in Claims : Listed(c) => SameToken(c)
    /\ DirectoryChanged => DigestsMatch

CheckFresh(p) ==
    /\ pc[p] = "fresh" /\ Fresh
    /\ todo' = [todo EXCEPT ![p] = {c \in Claims : db.snap.rows[c].st = "approved"}]
    /\ GoTo(p, "bind")
    /\ UNCHANGED <<lockVars, fileVars, ctlVars, db, op, plan, snap, ans>>

NotFresh(p) == pc[p] = "fresh" /\ ~Fresh /\ Fail(p)

\* Every returned row must still equal its canonical claim, be listed in the
\* published manifest and rest on approved supports.
Bound(c) ==
    /\ file[c] = db.snap.rows[c] /\ Listed(c)
    /\ Grounded(c, file)

BindClaim(p, c) ==
    /\ pc[p] = "bind" /\ c \in todo[p]
    /\ Bound(c)
    /\ ans' = [ans EXCEPT ![p] = @ \cup {c}]
    /\ todo' = [todo EXCEPT ![p] = @ \ {c}]
    /\ UNCHANGED <<lockVars, fileVars, ctlVars, db, pc, op, plan, snap>>

BindingFails(p, c) ==
    pc[p] = "bind" /\ c \in todo[p] /\ ~Bound(c) /\ Fail(p)

Answer(p) ==
    /\ pc[p] = "bind" /\ todo[p] = {}
    /\ GoTo(p, "answered")
    /\ UNCHANGED <<lockVars, fileVars, ctlVars, db, localVars>>

FinishAsk(p) == pc[p] = "answered" /\ Fail(p)

-----------------------------------------------------------------------------
(* The viewer and the MCP resource reads scan the claim files without the  *)
(* lock and without looking at the journal or the index.                   *)

StartView(p) ==
    /\ pc[p] = "idle" /\ "view" \in Roles[p]
    /\ op' = [op EXCEPT ![p] = [NoOp EXCEPT !.kind = "view"]]
    /\ todo' = [todo EXCEPT ![p] = Claims]
    /\ GoTo(p, "view")
    /\ UNCHANGED <<lockVars, fileVars, ctlVars, db, plan, snap, ans>>

ViewClaim(p, c) ==
    /\ pc[p] = "view" /\ c \in todo[p]
    /\ todo' = [todo EXCEPT ![p] = @ \ {c}]
    /\ ans' = [ans EXCEPT ![p] = IF file[c].st = "approved" THEN @ \cup {c} ELSE @]
    /\ UNCHANGED <<lockVars, fileVars, ctlVars, db, pc, op, plan, snap>>

FinishView(p) == pc[p] = "view" /\ todo[p] = {} /\ Fail(p)

-----------------------------------------------------------------------------
(* The environment.                                                        *)

\* Death of the process, or an I/O error: what is on disk stays as it is.
Crash(p) == p \in Mortal /\ pc[p] # "idle" /\ Fail(p)

\* An editor, git or rm changes a claim file behind the program's back.  Such
\* an edit always leaves a new change token.
Edit(c, content) ==
    /\ edits < MaxEdits /\ content # file[c]
    /\ edits' = edits + 1
    /\ file' = [file EXCEPT ![c] = content]
    /\ saved' = [saved EXCEPT ![c] = file[c]]
    /\ stamp' = [stamp EXCEPT ![c] = MaxGen + edits + 1]
    /\ UNCHANGED <<lockVars, ctlVars, db, pc, localVars>>

\* What an owner may leave in a claim file: no file, an invalid one, another body
\* of a draft, or earlier bytes (git stash, undo).
Rewritten(c) ==
    LET fresh(st) == [st |-> st, ver |-> MaxGen + edits + 1]
    IN  {Gone, fresh("broken")}
          \cup (IF file[c].st = "draft" THEN {fresh("draft")} ELSE {})
          \cup (IF Reverts THEN {saved[c]} ELSE {})

Outside == \E c \in Claims : \E content \in Rewritten(c) : Edit(c, content)

-----------------------------------------------------------------------------
Mutation(p) ==
    \/ \E c \in Claims, kind \in {"draft", "approve", "revoke"} :
           MarkFirst(p, kind, c) \/ AcquireExclusive(p, kind, c)
    \/ AcquireExclusive(p, "reindex", Nobody)
    \/ Start(p) \/ MarkDirty(p) \/ GenerationExhausted(p) \/ AdvanceGeneration(p)
    \/ Plan(p) \/ Refuse(p) \/ WriteClaim(p) \/ PublishJournal(p)
    \/ Classify(p) \/ PreimageMismatch(p)
    \/ (\E c \in Claims : ApplyTarget(p, c))
    \/ RemoveJournal(p) \/ VerifyFails(p)

Rebuild(p) ==
    \/ Observe(p)
    \/ \E c \in Claims : \/ ReadManifest(p, c) \/ ScanClaim(p, c)
                         \/ RecheckManifest(p, c) \/ InputsChanged(p, c)
                         \/ CaptureStamp(p, c)
    \/ AcquirePublication(p) \/ CheckPublication(p) \/ StalePublication(p)
    \/ RenameDatabase(p) \/ PublishGeneration(p) \/ RemoveDirty(p)

Ask(p) ==
    \/ AcquireShared(p) \/ CheckFresh(p) \/ NotFresh(p)
    \/ (\E c \in Claims : BindClaim(p, c) \/ BindingFails(p, c))
    \/ Answer(p) \/ FinishAsk(p)

View(p) == StartView(p) \/ (\E c \in Claims : ViewClaim(p, c)) \/ FinishView(p)

Next ==
    \/ \E p \in Procs : Mutation(p) \/ Rebuild(p) \/ Ask(p) \/ View(p)
                       \/ PublicationError(p) \/ Crash(p)
    \/ Outside

Spec == Init /\ [][Next]_vars

-----------------------------------------------------------------------------
(* Properties *)

Labels == {"idle", "marked", "start", "plan", "mark", "bump", "write", "publish", "check",
           "apply", "observe", "manifest", "scan", "recheck", "stamps", "confirm",
           "lockpub", "checkpub", "rename", "pubgen", "undirty", "fresh", "bind",
           "answered", "view"}

Ops ==
    LET Phases == {"none", "recover", "commit"}
    IN  [kind : {"none", "reindex", "ask", "view"}, claim : {Nobody}, phase : Phases]
        \cup [kind : {"draft", "approve", "revoke"}, claim : Claims, phase : Phases]

TypeOK ==
    /\ exHolder \in Procs \cup {Nobody} /\ readers \subseteq Procs
    /\ gen \in [current : Nat, published : Nat]
    /\ dirty \in BOOLEAN
    /\ journal \in Batch
    /\ file \in [Claims -> Content] /\ saved \in [Claims -> Content]
    /\ stamp \in [Claims -> Nat] /\ edits \in Nat
    /\ db \in [built : BOOLEAN, snap : Snapshot]
    /\ pc \in [Procs -> Labels]
    /\ op \in [Procs -> Ops]
    /\ todo \in [Procs -> SUBSET Claims]
    /\ plan \in [Procs -> Batch]
    /\ snap \in [Procs -> Snapshot]
    /\ ans \in [Procs -> SUBSET Claims]

\* Whenever the freshness check would accept the published index, its manifest
\* describes the claim files as they are now: no crash point, no concurrent
\* rebuild, no unlocked scan and no edit leaves an index that is stale and
\* looks fresh (check_fresh_unlocked_output, rebuild).
FreshIndexIsCanonical ==
    Fresh => \A c \in Claims : file[c] = db.snap.manifest[c]

\* The dirty marker is gone only when the last rebuild to publish saw the last
\* mutation: a crash after any of rename, generation write and marker removal,
\* and a rebuild that loses a race with a mutation or with another rebuild,
\* leave the marker or an unpublished generation behind.
CleanMarkerIsEarned ==
    ~dirty /\ db.built => gen.published = gen.current /\ db.snap.gen = gen.current

\* An answer holds exactly the approved claims, up to files edited outside the
\* program since the index was published (their change token differs).
AnswersAreCurrent ==
    \A p \in Procs : pc[p] = "answered" =>
        \A c \in Claims : stamp[c] = db.snap.stamps[c] =>
            (c \in ans[p] <=> file[c].st = "approved")

\* No answer mixes a claim with one that it superseded, and every claim in an
\* answer rests on approved supports, whatever a crashed supersession, a
\* revocation or a late rebuild left on disk.
AnswersHangTogether ==
    \A p \in Procs : pc[p] = "answered" =>
        \A c \in ans[p] : /\ Supersedes[c] \cap ans[p] = {}
                          /\ \A d \in Supports[c] : stamp[d] = db.snap.stamps[d] =>
                                file[d].st = "approved"

\* A supersession journal can always be finished: each target still holds its
\* preimage or already holds its target bytes, across crashes and retries.
JournalRecoverable == Pending => \A c \in journal.targets : Explained(c)

\* The specification of what the program promises: see AtomicStore.  A claim
\* named by a published journal already has its target status; a query has
\* told the user something once all its claims are bound.
StatusNow ==
    [c \in Claims |-> IF c \in journal.targets THEN journal.post[c].st ELSE file[c].st]
ToldNow == [p \in Procs |-> IF pc[p] = "answered" THEN {ans[p]} ELSE {}]

Promise == INSTANCE AtomicStore WITH status <- StatusNow, told <- ToldNow
ImplementsPromise == Promise!Spec

-----------------------------------------------------------------------------
(* Liveness: process r runs zbrain reindex again and again.  Its steps are   *)
(* scheduled; nothing is assumed of the others, which may stop anywhere.     *)

Progress(r) ==
    \/ AcquireExclusive(r, "reindex", Nobody)
    \/ Start(r) \/ MarkDirty(r) \/ GenerationExhausted(r) \/ AdvanceGeneration(r)
    \/ Classify(r) \/ PreimageMismatch(r) \/ (\E c \in Claims : ApplyTarget(r, c))
    \/ RemoveJournal(r) \/ VerifyFails(r)
    \/ Rebuild(r)

LiveSpec == Spec /\ \A r \in Procs \ Mortal : WF_vars(Progress(r))

\* What only the owner can repair: a supersession that cannot be finished
\* (a target was edited, or the generation is exhausted) and claims that make
\* every rebuild end as "rejected".
NeedsOwner ==
    \/ Pending /\ (gen.current = MaxGen \/ \E c \in Claims : ~Explained(c))
    \/ \E c \in Claims : \/ file[c].st = "broken"
                         \/ file[c].st = "approved" /\ ~Grounded(c, file)

OthersIdle(r) == \A q \in Procs \ {r} : pc[q] = "idle"

\* Once the other processes have stopped, wherever they died, repeating reindex
\* keeps making the index servable again, or the owner has something to repair.
ReindexRestoresService ==
    \A r \in Procs \ Mortal : <>[]OthersIdle(r) => []<>(Fresh \/ NeedsOwner)

=============================================================================
