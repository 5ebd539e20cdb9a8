# zbrain: TLA+ models and proofs

zbrain is a local knowledge store: a Rust command line program (and an MCP
server over stdio, and a local viewer) over *workspaces* of Markdown claims.
The Markdown files are canonical; everything else (the SQLite index, the
generation counter, challenges, campaign files) exists to serve them safely.
There is no daemon: every command is a process of its own, several may run on
one workspace at once, any of them may die between two file operations, and the
owner edits, moves and reverts the files behind all of their backs. These models
are about that: the order of the file operations, the advisory lock, the crash
points, what a reader may conclude from what it finds, and whether what is
written is what is read back.

Source paths below are relative to `src/crates/zbrain/src/`.

## 1. Inventory

| Component | State it keeps | Operations | Interacts with |
|---|---|---|---|
| workspace lock, generation, dirty marker (`coordination.rs`) | `.zbrain/coordination.lock` (flock), `generation.json` = {current, published}, `indexes/<ws>.dirty` | acquire shared or exclusive, begin a canonical mutation (dirty marker, then generation), publish a generation | every writer, rebuild, query |
| supersession journal (`transition.rs`) | `pending-transition.json`: preimage digest and target bytes of each file | publish (link), classify, apply, verify, remove; recovery at the start of every writing command | lifecycle, rebuild, query (refuses) |
| claim lifecycle (`lifecycle.rs`, `claims.rs`, `yaml.rs`) | one Markdown file per claim: status, verification digest, supersedes, supporting claims, evidence ids, transitions | draft, approve, supersede, revoke, migrate; scan, lookup by id | journal, generation, trust closure, evidence |
| trusted index (`index.rs`, `index_state.rs`, `manifest.rs`) | `<ws>.sqlite`: claim rows, trust-input manifest, rebuild state, change tokens | rebuild: observe under the lock, collect without it, publish under it; freshness check | claims, evidence, generation, journal |
| trusted query (`query.rs`) | none (shared locks, the open index) | freshness check, search, bind each row to its canonical file, filter by time, rank, answer | index, trust closure, embeddings |
| embeddings, search (`embedder.rs`, `search.rs`) | vectors in the index database | rebuild with vectors, vector search | index, query |
| trust closure (`trust.rs`) | memo of visited claims, for one command | depth-first validation of supporting claims and evidence, cycle detection | lifecycle, rebuild, query |
| evidence capture (`evidence.rs`) | `evidence/sources/<id>/{raw, source.yaml}` | add, verify, validate a claim, drift | trust closure, manifest, lint |
| approval ceremony (`approval.rs`) | `challenges/<id>.json`: action digest, expiry, grant, token hash, consumed | prepare, show, grant (one token), apply (consume, then commit), single and batch | lifecycle, gateway |
| promotion campaigns (`campaign.rs`) | `campaigns/<id>.json`: phase, specs, drafts submitted | begin, next, submit, resume, finish | lifecycle, gateway |
| agent gateway (`mcp/gateway.rs`) | none | ten tools: drafts, campaigns, queries, lifecycle, evidence, workspaces | all of the above |
| MCP session, transport (`mcp/server.rs`, `transport.rs`, `protocol.rs`) | negotiated version, initialised or not, byte buffer | read frames, decode, gate, dispatch, answer | gateway |
| viewer (`view.rs`) | none | scan and render claims over local HTTP | claims (no lock) |
| workspaces, configuration, setup, assets (`workspace.rs`, `config.rs`, `setup.rs`, `assets.rs`, `paths.rs`, `boundary.rs`) | directories, `config.yml` | create, setup, resolve | all |
| command line, lint, doctor (`cli.rs`, `lint.rs`) | none | the operations above, reports | all |
| evaluation, terminal, clock (`eval.rs`, `term.rs`, `clock.rs`) | none | reports, prompts, time | - |

What makes each of them correct, and what makes it hard:

- *Lock, generation, dirty marker, index.* An index that passes the freshness
  check describes the files on disk. Hard because the rebuild collects without
  the lock, because the marker, the generation and the database are three
  files with a crash point between any two of them, and because change tokens
  (mtime, ctime) are coarse.
- *Journal.* A supersession is all or nothing for everybody who looks through
  the program, and can always be finished. Hard because of crashes between
  targets, and because recovery is run by a different command.
- *Lifecycle and files.* Status moves only along draft, approved, superseded or
  revoked; what the program writes it reads back as the same claim; a digest
  vouches for nothing but what was approved. Hard because the digest is taken
  over a rendering of what was read, because files move and are copied, and
  because a migration rewrites all of them and may stop half way.
- *Query.* An answer holds what was approved at the time asked about, and says
  "gap" only when there is nothing. Hard because filters, limits and the fusion
  of two rankings follow one another, and because vectors are written last.
- *Evidence.* A snapshot whose metadata can be read is complete, and stays as it
  was captured, unless the capture that made it failed at the very end. Hard because
  of two files, two passes over the source, and an error path that deletes.
- *Approval.* A grant is used at most once, only for the text the owner saw,
  only while it lasts; a batch calls failed whatever it did not apply.
- *Campaign.* However often a submission is repeated, only a death between its
  two writes leaves a second draft.
- *Gateway, session, transport.* Frames are handled in order and answered once;
  nothing runs before the handshake; what the client was told is what happened
  to the files; a call is refused for its arguments exactly when it breaks the
  advertised schema.
- *Workspaces.* The default workspace is complete, and a default that was
  settled stays. Hard because no lock is taken and `config.yml` is truncated
  before it is written.

`PROJECT.json` lists every component with its status, and under `hazards` the
places in the code where these things could go wrong.

## 2. Modules

| Module | What it is |
|---|---|
| `AtomicStore` | abstract: statuses change atomically, a query tells exactly what is approved |
| `TrustedStore` | the files, lock, journal, generation and index of one workspace and the processes on it |
| `TrustClosure` | the validator of `trust.rs`: which approved claims rest on approved claims only |
| `Approval` | the challenge ceremony of `approval.rs` over the claims of `AtomicStore` |
| `Lifecycle` | the claim_lifecycle tool, with its unlocked reads, on top of `Approval` |
| `Evidence` | capture, verification and validation of evidence, drift, lint and doctor |
| `ClaimFiles` | what claim files say: scans, lookups, digests, migration, outside moves and copies |
| `Contradiction`, `Frontmatter`, `Yaml` | pure parts of `ClaimFiles`: the contradiction heuristics, the frontmatter as a mapping that is written and read, the YAML subset as text |
| `Recall` | what a query finds: lexical and vector candidates, fusion, limit, time window, gap |
| `Timestamps` | the two readers of timestamps that meet in a time window |
| `Transport`, `Tools`, `Campaign`, `Workspaces` | parts of the gateway: framing; schemas and argument checks; campaign run files; the runtime directory |
| `Gateway` | the composition of the last four with the session and the dispatch of `mcp/server.rs`, a client, another campaign process, the owner |
| `TrustedStoreProofs`, `TrustClosureProofs`, `ApprovalProofs` (with `Lifecycle`), `EvidenceProofs`, `ClaimFilesProofs`, `RecallProofs`, `GatewayPartsProofs` (`Campaign` and `Workspaces`), `GatewayProofs` | theorems |
| `MCTrustedStore`, `MCApproval`, `MCEvidence`, `MCClaimFiles`, `MCGateway`, `MCRecall` | small instances for TLC |

How they fit together. `TrustedStore` and `Approval` both implement
`AtomicStore`, from below and from above: the first shows that files, locks and
recovery keep the promise of atomic transitions, the second takes atomic
transitions and shows that challenges add none. `Lifecycle` implements `Approval`.
`TrustedStore` uses the verdict that `TrustClosure` computes. `Gateway` extends the
modules of its parts and runs their actions as the bodies of its tools; the tools
whose effects other modules follow (queries and reindex, capture, lifecycle) are
calls without effect there. `Campaign` and `Workspaces` have a specification of
their own (`CampaignSpec`, `WorkspacesSpec`), of which the steps in `Gateway` are
a part: `ComponentsTheorem` carries what is proved of those over to `Gateway`.

### 2.1 TrustedStore and AtomicStore

One action is one file operation, or one read whose result is used before the
next file operation. The correspondence, in the order of a command:

| Code | Actions |
|---|---|
| `acquire_workspace_lock(.., true)` | `AcquireExclusive`, `AcquirePublication` |
| `recover_pending_transition_for_mutation_unlocked` | `Start`, then `MarkDirty`, `AdvanceGeneration`, `Classify`, `ApplyTarget` per file, `RemoveJournal`; `PreimageMismatch`, `VerifyFails` |
| `prepare_approve_unlocked`, `prepare_revoke_unlocked`, `write_draft_unlocked` | `Plan`, `Refuse` |
| `begin_canonical_mutation_unlocked` | `MarkDirty`, `AdvanceGeneration`, `GenerationExhausted` |
| `commit_approve_unlocked`, `write_claim_atomic` | `WriteClaim`, or `PublishJournal` and the recovery actions |
| `IndexStore::rebuild` | `Observe`, `ReadManifest`, `ScanClaim`, `RecheckManifest`, `CaptureStamp`, the confirming `RecheckManifest`, `AcquirePublication`, `CheckPublication`, `RenameDatabase`, `PublishGeneration`, `RemoveDirty`; the errors `InputsChanged`, `StalePublication`, `PublicationError` |
| `trusted_query` | `AcquireShared`, `CheckFresh`, `BindClaim` per row, `Answer`, `FinishAsk`; the errors `NotFresh`, `BindingFails` |
| `collect_views` | `StartView`, `ViewClaim` per file, `FinishView` |
| process death, I/O error | `Crash` |
| editor, git, rm | `Edit` |

A write is a temporary file, a rename, and the mode of the file, and each may fail
(`write_claim_atomic`, `write_transition_bytes_atomic`, `write_atomic_json`). A command whose
mode call fails has written its file and answers with an error: here that is the write
followed by `Crash`. Where the answer or the report of a failed command is modelled, the
case has a step of its own (`Commit` of a batch in `Approval`, `Breaks` and the "failed"
answers in `Gateway`, `CaptureFails` in `Evidence`).

State: `exHolder`, `readers` are the flock; `gen`, `dirty`, `journal` are the
three control files; `file` and `stamp` are the contents and change tokens of
the claim files; `db` is the published SQLite file; `pc`, `op`, `todo`, `plan`,
`snap`, `ans` are the locals of the running processes. `saved`, `edits` and
`db.snap.gen` are history: no action of the program reads them.

Abstractions: a claim's text is a status and a version, and equal contents are
equal bytes; `approved` means approved with a digest that matches, and every file
that a scan calls invalid is `broken` (`ClaimFiles` says which those are). An
outside edit always leaves a new change token; two *program* writes may share one
(`CoarseStamps`), because the generation separates them. The token of an absent
file stands for the token of its directory. The freshness check is one step: under
the shared lock only outside edits can interleave with its reads, and an edit after
the token of its file was read is an edit after the check. `Supports` is the
transitive closure of `supporting_claim_ids` and acyclic. Invalid evidence makes a
claim `broken`.

`AtomicStore` has two variables: the status of every claim and what each user was
told. The refinement mapping (`StatusNow`, `ToldNow`) decides a supersession at the
moment its journal is linked into place: from there on a target already has its
new status, whatever the files say. `ImplementsPromise` is checked without outside
edits (an edit is no operation of the program).

### 2.2 TrustClosure

`TrustValidator` visits the supports of a claim depth first and remembers the
state of each claim for the roots that follow. The recursion is a stack of
frames (`path`): `BeginRoot`, `Accept` are `validate_claim_inner`; `SkipValid`,
`RejectInvalid`, `Descend`, `Ascend`, `RejectCycle` the branches of `visit`;
`Unwind` is an error on its way out. What makes a single claim unfit (status,
digest, tier, evidence, another workspace) is a constant set; the graph is chosen
in `Init`.

### 2.3 Approval and Lifecycle

| Code | Actions |
|---|---|
| `prepare_challenge`, `prepare_batch_challenge` | `Prepare` |
| `grant`, `grant_items` | `Grant` |
| `apply_challenge` | `Validate`, `PlanItem` or `PlanFails`, `Consume` or `ConsumeFails`, `Commit` or `CommitFails`, `Respond` |
| `apply_challenge_batch` | `Validate`, `Consume`, then `PlanItem`, `Commit` (or `PlanFails`, `CommitFails`) per item, `Finish`, `Respond` |
| `approve`, `revoke`, `write_superseding_draft`, `write_draft` | `DirectApprove`, `DirectRevoke`, `Draft`, `Redraft` |
| editor, process death, wall clock | `OutsideEdit`, `Crash`, `Tick` |

Prepare and grant write one record under the lock: one action each. An apply
holds the lock from `Validate` on; time passes, the process may die and editors
may write between its steps. `Lifecycle` adds the reads that the tool makes before
it, each under a lock of its own (the claim, its digest, the claim it supersedes),
the comparison with what the caller asserts, and the lookup of a challenge before
an apply. One prepare is followed at a time, and only while an id is left for its
challenge: calls share nothing but the claims they read.

A text is a number, and a digest identifies a text; texts above `MaxRedrafts` come
from outside. Expiries are kept as the time left. A token is identified with its
challenge; presenting another one changes nothing, as does every other refusal
before the first write. The items of a batch are taken in any order. A commit is
one step; in a batch it may put the file in place and still call the item failed, because
the mode of the file could not be set (`uses[x].broken` remembers these items); a supersession whose preimage changed leaves its journal behind and
blocks later commands until the owner repairs it, here the commands stay possible,
which allows more than the code does.

### 2.4 Evidence

| Code | Actions |
|---|---|
| `add_file` | `StartCapture`, `HashSource`, `ReturnExisting` or `OpenSource`, `MakeDirectory`, `Created`; on an error `CaptureFails`, `RemoveFile`, `RemoveDirectory`, `RemoveFails` |
| `write_snapshot` | `CreateRaw`, `CopyRaw`, `CreateMeta`, `WriteMeta` |
| `prepare_approve_unlocked` with `claim_sources` | `StartApprove`, `VerifyMeta`, `VerifyRaw` per id, `Approve` |
| `validate_claim_evidence` with `verify_uncached` | `StartValidate`, `VerifyMeta`, `VerifyRaw` per id, `Accept` |
| `classify_evidence_drift`, `structural_findings_at`, `run_doctor` | the operators `Drift`, `DriftReport`, `Lint`, `Doctor` |
| the owner of a captured file; an edit of a snapshot | `EditSource`, `Tamper` |
| death | `Die` |

A capture can fail up to its last call: the mode of `source.yaml` is set when its
contents are complete and readable (`evidence.rs:319-320`), and a failure there removes
the directory of a whole snapshot, raw bytes and metadata in any order, from which the
process may die. So a snapshot can be left whose metadata can be read and whose bytes are
gone; nobody was told its id, but a later capture of the same bytes finds it by its digest
and reports it (`lookup_evidence_by_sha256` reads no raw bytes). `withdrawn` is history: the
snapshots whose capture failed that late. They are the one exception in the properties.

A sha256 is identified with the bytes it was computed from, and a snapshot digest
with the metadata record. A file that is created and not completely written is
`Partial`. The bytes a copy reads are those at the time of the open, if the file was
replaced since, or the present ones, if it was overwritten.

### 2.5 ClaimFiles, Contradiction, Frontmatter, Yaml

`ClaimFiles` follows the files of two claims through `NewDraft`, `Redraft`,
`Approve`, `Revoke` and a migration (`StartMigration`, `MigrateOne` per claim,
`MigrationDone`, and `MigrationEnds` for an error or a death: the claims it has not
written stay as they were) while an owner changes files outside the program
(`Copy`, `Move`, `Rewrite`, `SetStatus`, `Damage`, and single fields by `PutMapping`
and `PutSpoiled`). A file is the record its bytes parse to, and
a digest is the record of the fields it was computed from: so a digest that is
copied along with a file verifies exactly where all of those fields agree. The
lookup of one id (flat first, then the walk) and the scan of a workspace are
different operators, as they are different code.

`Contradiction` is the heuristic that relates two claims, over tokens. `Frontmatter`
is the list of fields as it is parsed (closed schemas, defaults, nulls) and as it is
rendered, written apart in the code and here, each with an operator per level of
mappings instead of recursion; `FrontmatterReadsBack` is that reading
a rendering gives the claim that was rendered. `Yaml` goes below that, to the text of
a string: which of its three styles (plain, quoted, literal) the emitter chooses, at
which column its lines stand, and what a YAML reader makes of it. A literal without lines
other than empty ones has no column, and its breaks all belong to its end: `|4` with one
break reads as nothing, and only an indicator that keeps the breaks at the end keeps
them. Strings arrive at the emitter as they are given (a description is written
untrimmed, `claims.rs:790`). Characters are taken by class.

### 2.6 Recall and Timestamps

One query is one step over a fresh index (`TrustedStore` has the steps in between):
lexical candidates of trusted status in rank order, cut to the limit, merged with
the vector candidates, filtered by the window and by `as_of`, and the outcome ready,
gap or blocked. Lifecycle commands and rebuilds are single steps too, but not the
vectors, which a rebuild writes or clears after it published, without the lock, and
which a death leaves as they were. The two rankings are any two orders of the
claims; a ranking that was filtered or cut is the set of claims that are left, in
that order, and the place of a claim is one more than those ahead of it
(`Place`, `Top`), so that a fused score is a fraction of places. The clock counts seconds, the precision of the recorded timestamps; several
commands may run within one second.

The bounds of a window are texts. `Timestamps` reads them as `parse_rfc3339_go` does
(ranges, leap years, zones, a fraction that is dropped), and what claim files say as
the library does that `clock.rs` calls; the calendar of the library is its own
definition there, the table of month lengths the code's. A layout is one of four
kinds. The clock of `Recall` starts in the last second before a leap day.

### 2.7 Transport, Tools, Campaign, Workspaces, Gateway

| Code | Actions and operators |
|---|---|
| `next_value` | `Fill`, `FillEof`, `Looks`, `Take` over parts of frames: a frame is its first part, any number of body parts and its last one; a read returns any non-empty prefix |
| `decode_frame`, `handle_inner`, `dispatch` | `TakeFrame`, `Gates` in their order, `Refuse`, `HandleSession`, `Stop` |
| `ToolInput`, `validate_arguments`, `validate_object`, `validate_value`; the advertised schemas | `Inputs`, `ValidArguments`, `ValidObject`, `ValidValue`; `Advertised`, `Conforms` |
| `run_tool` and the bodies | `RefuseCall`, `CallBegin`, `CallNext`, `CallSubmit`, `SubmitWrites`, `SubmitEnds`, `CallDraft`, `DraftEnds`, `CallOther`; `Finish` may be a timeout |
| `begin_campaign`, `submit_campaign_draft`, `finish_campaign`, `resume_campaign` | `BeginCampaign`; `StartSubmit`, `WriteClaim`, `Checkpoint` and their failures; `FinishCampaign`; `Resume` |
| `create_workspace`, `run_setup` | `StartCreate`, `StartSetup`, then `Probe`, `MakeDirectory`, `WriteFile`, `LookAtConfig`, `CutConfig`, `WriteConfig` |
| `resolve_workspace` | `ResolveWorkspace` |
| the client; another campaign process; the owner | `Send`, `Hangs`, `Reconnect`; `OtherBegins` .. `OtherFinishes`; `OwnerEdits`, `Moves` |
| death | `Die`, `GiveUp` |

A client sends frames without waiting (`MaxAhead` of them), may stop anywhere in one,
starts a new server when the old one ended, and then goes on with its script; a
script that repeats a call is a client that retries. A request of the new protocol opens
the session before it is dispatched, so also when dispatch refuses it (`Dispatch`,
`server.rs:293-298`). An error result is "refused" when a check of the body turned the call
away and "failed" when its text is that of an I/O error; a draft or a run file may then be
in place all the same. The body of claim_lifecycle answers some calls with the protocol
error -32602, as a refused request is (`CallOther`). What a frame is made of is an
assumption about `Scripts` (`ScriptsAssumption`, `CitesAssumption`): the runs have some
sixty, the theorems hold for any. Arguments nest as deep as the schemas go (the strings
of a list of a spec in a list of specs), so the checks and the schemas are one operator
per level and not recursive. A submission is two writes under
one lock (the draft, the run file) and a new claim id is any unused one. The lock of
the campaigns is the only lock here; tools that do not write run files do not take
it in this model.

## 3. Runs

| Run | Instance | Shows |
|---|---|---|
| `crash_race` | a writer (draft, approve, supersede, revoke) and a process that rebuilds, asks and views, both mortal, three claims, two generations | `CleanMarkerIsEarned`, `JournalRecoverable`, `AnswersHangTogether`, `ImplementsPromise` |
| `reindex_recovers` | a reindexer that is scheduled, beside a mortal approver that also asks, with coarse tokens and an edit | `AnswersAreCurrent`, `FreshIndexIsCanonical`, `ReindexRestoresService` |
| `aba_hides_claim` | two rebuilders, two edits with reverts | violates `AnswersAreCurrent` |
| `trust_closure` | all support graphs over three claims, all sets of fit claims, all orders of roots and supports | `VerdictsAreRight`, `MemoIsRight`, `EveryRootDecided` |
| `approval` | the tool over one challenge of any kind, two processes, three claims (one rests on another, one replaces it), a redraft, an edit, token shorter than challenge | `TypeOK`, `AppliedAsGranted`, `UsedOnceInTime`, `BatchIsAccounted`, `ImplementsPromise`, `BornCurrent` |
| `approval_rereads` | as `approval` | violates `ConfirmedText` |
| `evidence` | two processes, two ids, a file, two contents, an edit, a tampering | `SnapshotsAreWhole`, `CapturedIsKept`, `OneSnapshotPerContent`, `AcceptedAsApproved`, `DriftAgreesWithCapture`, `NeverRewritten` |
| `claim_files` | five wikis to start from, four paths (flat, nested, aliased, two tiers), an outside edit; besides it every short string and every claim that varies in two fields | `WrittenIsAccepted`, `OnlyBlessedText`, `MigrationIsFaithful`, `FoundAsAccepted`, `FrontmatterReadsBack` |
| `revoked_note` | as `claim_files` | violates `RevokedIsHistory` |
| `gateway` | some sixty scripts of one or two frames, one death or failed write or edit, two items, three claims; or two commands over two workspace names | `HandledInOrder`, `RefusedAsAdvertised`, `AnswerTellsOutcome`, `SubmittedHasItsClaim`, `OrphansAreDeaths`, `DefaultIsWhole`, `SettledDefaultStays`, `EveryCallAnswered` |
| `recall` | three claims (one replaces another, one disputes it), three seconds around a leap day, bounds in several zones, one rebuilder; besides it every edge of a date, a time and a zone | `RecallIsHistory`, `OnlyApprovedTold`, `BestMatchSurvives`, `PlainGapIsHonest`, `BoundsAreRead` |
| `gap_hides_claim` | as `recall` | violates `GapIsHonest` |

Deadlock is not checked where the system comes to rest: a search that has decided
every root, a ceremony in which every challenge is spent, captures after the last id,
a wiki whose files are as the commands want them, a client whose script is sent and
answered.

Bounds. `MaxGen` stands for `u64::MAX` and is reached, so exhaustion is explored too;
two generations let a supersession and its recovery follow each other. Two claims are
the smallest supersession, a third one the smallest support chain beside it. Two
processes are enough for every race between a holder of the lock and one that works
without it. The passing runs of `TrustedStore` and the run of `Recall` have one process
that rebuilds: two rebuilds at once are in `aba_hides_claim` only, and what holds of them is
what the theorems of 6.1 and 6.7 say for any number. Two edits (`aba_hides_claim`) change a file and put it back. Three claims
give `trust_closure` every cycle that avoids the root and every diamond. In
`approval`, `base` and `leaf` are a batch in which one item depends on another, and
`new` replaces `base`; a lifetime of two ticks with a token of one lets a token expire
before its challenge, or be capped by it. In `evidence` two ids allow a second capture
of the same and of another content, and a collision of ids. In `claim_files` one edit
suffices to copy, move, alter or damage a file before and after each command. The
strings of that run are all those of up to three classes of characters, blanks and
line breaks alone included, and some longer ones whose lines matter. In
`recall` three seconds let a claim be written, ended and asked about as of before,
at and after each of these.

The `gateway` run has most bounds. `Scripts` are the conversations worth having: one
or two calls whose effects meet (a submission repeated, begun and submitted, told by
`campaign_next` and then submitted), every gate of the session passed and failed,
every edge of the tools' arguments. `MaxInput` and `MaxBuffer` are parts of a frame,
chosen so that a frame can be over either. `MaxAhead` is two frames, so that a read can
end inside the second. `MaxFaults` is one: one death, failed write, or edit. The other
campaign process moves only where the script has a call that it can affect
(`Elsewhere`), and begins no run if the client needs the run id. Workspaces are only
made (`Making`) beside a client that asks for the current one, and while the server has
its call; the client does not stop in the middle of a frame then. These guards are part
of the `Spec` that section 6.6 is about; its theorems leave open every number, the
scripts and the frames. The theorems about `CampaignSpec` and `WorkspacesSpec` have
none of these restrictions. The
instances of `crash_race`, `approval` and `evidence` are closed under the symmetries
their configurations name, if any.

Fairness. `LiveSpec` (`reindex_recovers`) assumes only that the steps of a process that
keeps running `zbrain reindex`, and does not die, are eventually taken (weak fairness:
`flock` blocks it until the lock is free, and the lock stays free once the others have
stopped). Nothing is assumed of the others. `ReindexRestoresService` then says: once they have stopped, wherever they
died, the index becomes servable again and again, or there is something only the owner
can repair (`NeedsOwner`: an edited journal target, an exhausted generation, an invalid
claim file, a claim whose support is gone). `Gateway` assumes that a server that can
take a step does (one thread that blocks on nothing but its input and the lock), and
that the other process finishes the submission it began, with success or not: the
server is blocked in `flock` while it holds the lock. Nothing is assumed of the client, of deaths or
of the owner. `TrustClosure` assumes that the search goes on: it is one thread.

## 4. Where the code and its documents disagree

- `aba_hides_claim`. `trusted-memory-spec.md:268`: `ask` must fail closed when
  "the index is stale relative to workspace Markdown". The scan that fills the
  index lies between two manifest passes and is compared with neither
  (`index.rs:519-529`): a file that is away exactly then and back before the
  second pass is missing from an index that looks fresh. A row that *is* in the
  index is compared again by the query's binding check; a missing row is not.
- `approval_rereads`. `README.md:269`: "a stale canonical draft all fail closed".
  `apply_challenge` compares the bound digest with one read of the claim and
  plans from a second one (`approval.rs:1189`, `1202`; the batch reads again
  after validating all items and consuming the token). A draft saved by an
  editor in between is approved under a challenge that binds another text.
  `AppliedAsGranted` is what does hold, and is proved.
- `revoked_note`. `yaml.rs:167`: "everything below steps by 2". A literal inside an
  item of a sequence stands at the column of its own key (`yaml.rs:184`); the one such
  field with free text is the reason of a transition, so a revocation for a reason of
  two lines leaves a file that is no claim document any more.
- `gap_hides_claim`. `trusted-memory-spec.md:299`: "`gap` when no trusted claim
  supports the query". The limit is applied before the time window (`query.rs:269`).

Observed while modelling, without a run of their own:

- A capture whose last mode call fails removes a snapshot that was complete
  (`evidence.rs:319-320`, `248`). If that removal is cut short between the files, metadata
  without raw bytes is left, a later capture of the same bytes reports it as theirs, and
  only a verification of the snapshot finds the bytes missing.
- The mode of a file is set after the file is in place (`claims.rs:1943-1947`,
  `transition.rs`, `campaign.rs`): a draft, an approval or a campaign run whose mode call
  fails is made, and its command, tool or batch item says that it failed.
- A description that is a single line break is written as a literal that reads back empty.
- `trusted-memory-spec.md:256` says reindex scans "without mutating canonical
  Markdown"; it first finishes a crashed supersession (`index.rs:488`), which writes
  claim files.
- `docs/trusted-agent-gateway-spec.md:24` says runtime locks "are reused by every
  surface"; the viewer scans without the lock (`view.rs:388`) and may show a claim
  beside the claim it superseded.
- A flat lookup does not find a claim in a flat file of another name, which the scan
  accepts (`FoundAsAccepted` states what does hold).
- A query as of an earlier second tells the present text of an ended claim, whose
  digest no scan checks; it relies on `verified.at`, which no digest covers.
- A rebuild without vectors that dies before it clears the old ones leaves them beside
  the new index; vectors are written without the lock.
- A claim command that is refused after it marked the index leaves it dirty.
- A setup that races a create may lose the default that the create wrote
  (`SettledDefaultStays` excludes exactly this); a create that died leaves a half
  workspace, which a later create of that name refuses for good.
- The doctor advises a reindex also when drift is all it found.
- Redrafting a claim drops frontmatter fields that the program does not know.
- A bound of a query may have a zone of more than 59 minutes, a comma, or nothing after
  the point, which a claim may not, and no leap second, which a claim may
  (`query.rs:903`); its fraction is dropped, that of a `stale_after` is not.
- Pipelined frames behind a short one count against the frame limit of the buffer.

## 5. Hard properties at a glance

Refinement: `ImplementsPromise` (twice), and `Lifecycle` implements `Approval`.
Crash recovery: `JournalRecoverable`, `CleanMarkerIsEarned`, `SnapshotsAreWhole`,
`OrphansAreDeaths`, `DefaultIsWhole`. Staleness: `FreshIndexIsCanonical`,
`AnswersAreCurrent`, `BornCurrent`, `AcceptedAsApproved`. Write and read back:
`FrontmatterReadsBack`, `WrittenIsAccepted`, `MigrationIsFaithful`. Two readers or
tables that must agree: `RefusedAsAdvertised`, `FoundAsAccepted`,
`DriftAgreesWithCapture`, `BoundsAreRead`. Liveness:
`ReindexRestoresService`, `EveryCallAnswered`, `EveryRootDecided`. Each property of a
passing run has a mutant of the code in `PROJECT.json` that violates it.

## 6. Proofs

Every theorem holds for all values of the constants that meet the named
assumptions of its module; the bounds of section 3 play no part. Each is an
invariant (`IInv`, or named there) that `Init` establishes and every step keeps, and that implies
the property, except where another argument is named. The strengthenings were
checked with TLC on the instances of section 3 before they were proved.

### 6.1 TrustedStore

`TypeCorrect`, `FreshIndexTheorem` (`FreshIndexIsCanonical`) and `CleanMarkerTheorem`
(`CleanMarkerIsEarned`), for every set of processes and claims and every role
assignment. Neither safety property is inductive. `IInv` adds

- `LockInv`: who is at a label between lock and unlock holds the lock;
- `GenerationInv`: neither the published generation nor a snapshot is newer than the
  current one, which does not pass its bound, and a process about to write claim files has moved the generation past every
  snapshot in existence, published or being collected;
- `StampInv`: the token of the next outside edit is new;
- `SnapshotInv`: a snapshot whose tokens have been confirmed describes every
  file whose token and generation still match. This is the heart: a program
  write is caught by the generation (even when the token does not move), an
  outside edit by the token;
- `PublicationInv`: what the steps of a publication have established so far, and
  that an unpublished generation implies the dirty marker.

`CommandInv` goes on from there to what a command does: readers exclude writers
(`SharedInv`), what the label of a process says about its command and the journal
(`PhaseOf`), a write plan is what its command computed, and its preimages are still on
disk except where somebody edited a file (`PlanOf`). So every target of a journal is its
preimage, its target bytes, or a file that was edited outside the program (`JournalInv`,
which `JournalInvTheorem` states whatever is edited). `JournalTheorem` is
`JournalRecoverable` for a workspace that only the program writes (`MaxEdits = 0`, which
is also what `crash_race` checks): an edit of a target while its journal is pending is
exactly what the code refuses to overwrite.

`ScanInv` and `ReadInv` are about rebuilds and queries. While the generation stands, an
approved file that a pass has read is still there or approved no more, and only a
lifecycle command, which moves the generation, can approve it again; so the second
pass, which compares digests, finds what the scan missed. `ReadInv` is what a query
relies on after the freshness check, row by row. `CurrentTheorem` is `AnswersAreCurrent`
under `~Reverts` (no edit puts earlier bytes back), the hypothesis that
`aba_hides_claim` shows to be needed. `ToldTheorem` needs none: whatever is edited, an
answer tells nothing unapproved, up to files edited since the index was published.

`RefinementTheorem` (`ImplementsPromise`, `MaxEdits = 0`): the commit points are
`WriteClaim`, `PublishJournal` and `Answer`; every other step leaves the mapped statuses
and answers alone, applying a target because the mapping has counted it since the
journal was linked, binding a row because nothing is told before the last. At a commit
point `PlanOf` gives the abstract guard: the command may still run. `TogetherTheorem`
(`AnswersHangTogether`) takes from it that what an approved claim replaced has ended,
which the abstract store keeps (`ReplacedKeeps`) if it holds at the start
(`InitReplaced`: a workspace does not start with an approved claim beside one it
replaced).

### 6.2 TrustClosure

`VerdictTheorem` (a root is accepted exactly when all it rests on is trusted and
none of it rests on itself) and `MemoTheorem` (what the validator remembers is
true of the claim), for every graph and order of roots. What a claim rests on is
the least closed set that holds its supports, so no induction over paths is
needed. `IInv` adds `PathInv` (the frames form a path of distinct trusted claims,
and the supports a frame has dealt with are valid) and `MemoInv` to the verdicts.

### 6.3 Approval and Lifecycle

`TypeTheorem`, `GrantTheorem` (`AppliedAsGranted`), `TokenTheorem` (`UsedOnceInTime`),
`BatchTheorem` (`BatchIsAccounted`) and `RefinementTheorem` (`ImplementsPromise`), for
every relation between the claims, all lifetimes and any number of redrafts and
edits. `IInv` is

- `LockInv`: who applies holds the lock, so at most one process applies and no
  command runs beside it;
- `SpentInv`: the record on disk remembers the use of its token;
- `WorkInv`: what an apply has still to do was granted, has the bound or an
  outside text, and, once planned, stays committable: an edit cannot change a
  status. Nothing is committed before the token is consumed;
- `CiteInv`: what cites a challenge is not a draft, so no redraft and no edit
  reaches it;
- `BatchInv`: the granted items not applied yet, with those whose write failed when
  their file was in place, are those still to do, the failed ones and the one being
  committed. `SpentInv` adds that there are none of the second kind before the token is used.

`RefinementTheorem` rests on the last part of `WorkInv`: the conditions under which
an item was planned still hold when it is written.

`CeremonyTheorem` (`Lifecycle` implements `Approval`) carries all of this over to the
tool, `LifecycleGrantTheorem` being an instance; what has to be shown is that the
digests the tool collects one read at a time make the record that `Prepare` would
bind, which `AskInv` (how far a call is, and that it read nothing else) and the
comparison under the lock give. `BornTheorem` (`BornCurrent`) follows from the same
step.

### 6.4 Evidence

`WholeTheorem`, `KeptTheorem`, `OnceTheorem`, `AcceptedTheorem`, `DriftTheorem` (the
invariants of the run), `NeverRewrittenTheorem` and the types, for any
number of processes, ids, contents, edits and tamperings. `IInv` is the types with

- `Locked`: a capture or an approval holds the lock, a verification holds or shares it;
- `StoreInv`: `UnderWay` (a capture owns the directory of its id, which nobody can
  read before its metadata is complete and nobody was told of before the capture ended,
  and the bytes in it are those it hashed; a capture that removes a readable snapshot is
  one that failed late), `Housed` (what can be read is in a directory, so no capture can make that
  directory again), `Kept`, `NoTwin` (no readable snapshot has the content of the
  capture under way, that is why lookup and write need one lock), `Distinct`, and
  `SnapshotsAreWhole`;
- `ClaimInv`: `Read` (what a verification still holds in memory is what it was told by
  an earlier read) and `Bound` (an approved claim is bound to what its approval read).

`WholeTheorem` and `KeptTheorem` say what the late failure of a capture (section 2.4) leaves
of the promise. The raw bytes of a snapshot that can be read are those its metadata
describes, or are missing, never others and never a part, and missing only in a
`withdrawn` one; a snapshot that was reported keeps its metadata whatever fails.
`NeverRewrittenTheorem`: the only step of the program that changes a complete snapshot is
the removal by the capture that wrote it, before anybody was told its id. `UnderWay` is why:
what a failing capture removes is in nobody's report.

`DriftTheorem` (`DriftAgreesWithCapture`) adds `Hashed`: the digest in the metadata of a
snapshot nobody tampered with is that of some bytes. It is no consequence of the rest,
which says what the digest of a *finished* capture is; a snapshot becomes readable in
one step only, the `WriteMeta` of the capture that owns it (`OnlyCompletes`), and is
changed only by tampering and by the capture that withdraws it (`CompleteKept`,
`TamperedOnly`).

### 6.5 Campaign and Workspaces

`SubmittedTheorem` and `OrphansTheorem`, for any number of clients, runs, items,
claims and repetitions. `CampaignInv` says that who submits holds the lock over an item that is
still pending, that its claim between the two writes is the one it was made for, that
a run that was begun cites something for every item, and that an id nobody uses was
made for nothing. The last makes "as many claims as deaths" countable: a new claim
never takes the id of an old one.

`WholeTheorem` (`DefaultIsWhole`) and `SettledTheorem` (`SettledDefaultStays`), for any
number of processes and names. `WorkspacesInv` says that what a create has behind it is there,
and that nobody is on the way to write `config.yml` once a default is settled.

### 6.6 Gateway

For any scripts, any number of runs, items, claims, names, faults, and any way to cut
the frames over the reads. `GatewayInv` is what `GatewayInvariance` establishes:

- `Orderly`, the stream. `Answering`: the server is at work on one frame that was sent
  and not dealt with, or on none. `InFront`: nothing was done for a frame that is still
  on its way, nor for one sent after it. `Spaced`: the frames on their way come in order,
  each whole before the next. `Finished`: a client that may write more has finished what
  it began. `Carried`: what was sent to its end in a session that runs is dealt with, at
  work or on its way. "On its way" is the buffer and the pipe as one sequence (`At`), so
  that a read (`Fill`, `FillEof`), which drops the gaps in front and moves parts from one
  to the other, is a shift of indices (`FillShifts`, `ShiftedKeeps`). `OrderTheorem`
  (`HandledInOrder`) follows.
- `CampaignInv` (section 6.5): every step of the gateway is a step of the campaigns or
  leaves them alone (`StepIsCampaign`), and the same for the workspaces.
  `ComponentsTheorem` states it as `Spec => CampaignSpec /\ WorkspacesSpec`;
  `GatewayCampaignTheorem` and `GatewayDefaultTheorem` are what it is for.
- `Accounted` and `OnRecord`: a claim was made for one call at most, for the call at
  work exactly when its body is past its write, and for no call of the other process;
  what a run file names exists. `OutcomeTheorem` (`AnswerTellsOutcome`) follows from these
  with the answer each step gives. It does not say that a call that "failed" made nothing:
  a draft may be in place whose mode could not be set. A call that a check turned away made
  nothing, an accepted one made its claim, and no call made two. Without `OnRecord` an edit
  of the owner might put another claim in the place of an accepted one.

`AdvertisedTheorem` (`RefusedAsAdvertised`) rests on `ChecksAgree`: the checks of a tool
and its advertised schema agree on every value, of any kind and nesting. It is shown
level by level (`Alike`: the two tables have the same names, the same required ones and
kinds that correspond), so a property added to one table alone breaks the proof.

### 6.7 Recall and Timestamps

For any claims, rankings, relations between the claims, query limits, times and any
number of rebuilds. The pure part comes first: under a strict total order, places in a
finite set are distinct and start at one, the first few of a ranking are a set of that
size, and the fused order (fractions, compared by products, ties by the ranking of the
words) is a strict total order again (`RankingOrders`, `Places`, `Cut`,
`FusionOrders`). `BestTheorem` (`BestMatchSurvives`) follows: the first claim by words
has the largest share that words can give, and beats whatever vectors alone can
(`FirstBeatsVectors`).

`IInv` is `Typed`, `Dated` (no claim was written or ended in the future), `Indexed` (a
fresh index has the statuses of the files), `Remembered` (the history is what was active
when each second ended) and `Served` (an answer was computed in the present state).
`HistoryTheorem` (`RecallIsHistory`), `ApprovedTheorem` (`OnlyApprovedTold`) and
`GapTheorem` (`PlainGapIsHonest`) follow; the first because a second that is over never
changes: what was written or ended later carries a later time (`PastKept`).

`BoundsTheorem` (`BoundsAreRead`): for every text, with any numbers for its date, time
and zone, a text that is accepted is a date that exists, is read as the same second by
both readers, and, while its year in UTC has four digits, reads back from what the
program writes.
The calendar is shown by arithmetic: a day number has one year, one month and one day
(`YearOf`, `MonthOf`, `EraOf`, `DayOf`), so the algorithm of the reader and the table of
month lengths agree.

### 6.8 ClaimFiles

For any claims, names, paths, texts, reasons and start wikis, and any number of outside
edits and deaths. `FilesInv` has five parts:

- `Typed`: every path holds a file, a note, a broken document or a claim.
- `Vouching`: every digest, in a file or in what a migration has read, was given to a
  text that was approved, after as many revocations as it names. Edits move and drop
  digests and never make one (`EditsFiles`); commands keep them or sign what they record
  (`Records`). `BlessedTheorem` (`OnlyBlessedText`) follows, because an accepted approval
  is signed, and what is signed names the id, the text and the revocations.
- `Own`: a file that a command wrote and nobody changed since parses at its path, is
  signed if it is approved, and is the only such one under the name of its claim; or it
  is the note that a revocation with an unreadable reason leaves. `WrittenTheorem`
  (`WrittenIsAccepted`) follows.
- `Planned`: what a migration has still to write are legacy documents, each the only one
  of its claim among them, and no kept file is of the same claim. Without it a write in
  the middle of a migration could put a second file of a claim beside one of `Own`.
- `Migrating`: while nobody else writes, each write replaces the only document of its
  claim by the same claim, so that what the scan accepts stays what it was but for the
  schema (`MigrateKeeps`). `MigrationTheorem` (`MigrationIsFaithful`) follows.

`FoundTheorem` (`FoundAsAccepted`) needs `Typed` only: the flat lookup and the walk agree
since a file named like a claim must hold that claim (`ReadAlone` is the same for what a
command reads).

`ReadsBackTheorem` (`FrontmatterReadsBack`) is about the emitter and the reader alone, for
every sequence of characters and every valid claim with any strings, numbers and lengths
of lists. The exceptions are part of the property: a literal as an item of a list, or below
the root and beginning with a blank, is misplaced, and a single line break reads back as the
empty string (`AsKept`). It has two halves.

- Strings (`ScalarsReadBack`). The model reads and writes with folds and recursive
  functions, whose values the prover knows only as `CHOOSE` of a function that satisfies
  the equations. So each comes with a lemma that such a function exists
  (`RecursionExists`, `JoinExists`, `ReaderExists`), from an induction over numbers that
  rests on the least element of a set (`NatInduct`); the induction is over a set, so no
  operator is a parameter. From the equations: `Unquote` undoes `Inline` whatever the
  escapes are, as long as the mark is one of them (`UnquoteInverts`); a string is its lines joined
  by breaks (`LinesMakeTheText`); the chomping indicator tells how many breaks end it
  (`BreaksComeLast`), so a literal at a column that leaves its lines inside the block is
  the string again (`LiteralReadsBack`), but for a single break, which no line stands
  before; a plain string has nothing in it that the reader
  takes for syntax or another type (`PlainReadsBack`).
- Fields (`ClaimsReadBack`). A field is `Entered` when the mapping holds it as its type
  is written, or leaves it out where reading supplies what it is; it then fits its schema and is
  read as its value (`EnteredIsRead`, `EnteredBelowIsRead` for mappings below). One lemma
  per depth of nesting lifts that to a whole mapping (`ItemIsRead`, `MappingIsRead`,
  `TopIsRead`), one per struct shows that the writer enters every field of its schema
  (`SpanIsRead`, `SourceIsRead`, `TransitionIsRead`, `ProfileIsRead`, ...). A field written
  under another condition than the reader's default breaks the lemma of its struct.

Three assumptions are on the constants, and TLC evaluates all. `FirstWikiAssumption`: a
start wiki is any set of files whose digests name claims; what they were given to counts as
approved. `StringsAssumption` and `RenderingsAssumption`: the strings are sequences of
characters and the renderings are claim structs, valid or not. That a reason which is not
written as a block is read back as some text, on which `WrittenTheorem` rests, was an
assumption and is the lemma `ReasonsAreRead`.

### 6.9 Model-checked only

Every invariant and every action property that a passing run checks is a theorem. What is
left to TLC is liveness and whatever needs `ENABLED` (`ReindexRestoresService`,
`EveryCallAnswered`, `EveryRootDecided`): beyond the prover. Without hypotheses,
`ImplementsPromise` and `JournalRecoverable` of `TrustedStore` and `AnswersAreCurrent` are
false, as sections 4 and 6.1 say.

## 7. Not modelled, and why

- Reading and writing JSON below the level of a frame (`protocol.rs`: strings, escapes,
  duplicate keys), Unicode, the exact text of messages: pure functions of one input.
- A client that stops reading: the server then blocks in a write, which no property is
  about.
- Confinement of paths, symbolic links, file modes (`paths.rs`, `boundary.rs`): guards
  against a hostile file system, without state. The models keep the order in which
  files and directories are made.
- Queries over several workspaces at once. The locks are taken in the order of the
  names, shared, so no two queries wait for each other; the models have one workspace.
- The scores behind the two rankings (`query.rs`, `embedder.rs`): any order stands for them.
- The spans of a claim into its evidence, size limits of captures, media types beyond
  their equality.
- The viewer's HTTP and HTML (`view.rs`), the terminal (`term.rs`), prompts, reports, the
  statistics of `eval.rs`. `search.rs` and most of `eval.rs` are not reached from the
  binary.
- A clock that is set back, and claim timestamps with a fraction beside a window: the
  program records whole seconds, only a `stale_after` by hand has more.
- Power loss: a file that was renamed is there after a crash. The code does call
  `sync_all`, the models cannot tell whether it does so often enough.
- The bundled files (`assets.rs`): written anew by every setup, read back by nothing
  that is modelled.

## 8. What is left

1. The locks of several workspaces in one query, with writers that mark two of them.
2. `VerdictTheorem` as the reason for the verdicts of `TrustedStore`, by instance.
3. `RecallIsHistory` over the index of `TrustedStore` rather than a fresh one.
