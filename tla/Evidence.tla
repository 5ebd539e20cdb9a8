------------------------------ MODULE Evidence ------------------------------
(***************************************************************************)
(* Evidence capture and verification (evidence.rs) in one workspace.       *)
(*                                                                         *)
(* `evidence add` hashes a local file, looks for a snapshot with the same  *)
(* digest and otherwise copies the file into a new evidence directory: raw *)
(* bytes first, source.yaml last, everything removed again if a step       *)
(* fails.  A process may die between any two file operations, the source   *)
(* file may be edited or removed at any moment, and a snapshot may be      *)
(* tampered with from outside.  Approving a claim binds the digest of each *)
(* snapshot it cites; a validation compares the bound digests with what is *)
(* on disk.  The workspace lock is taken as in coordination.rs.            *)
(*                                                                         *)
(* A sha256 is identified with the bytes it was computed from, and the     *)
(* snapshot digest (evidence_snapshot_digest) with the metadata record.    *)
(***************************************************************************)
EXTENDS Integers, FiniteSets

CONSTANTS
    Procs,      \* processes that capture, approve and validate
    Files,      \* local files that are captured
    Contents,   \* contents a file may have
    Ids,        \* evidence ids, in their order
    Claims,     \* claim ids
    Origins,    \* --origin arguments
    Arguments,  \* the [origin, media] pairs a capture is called with
    MaxEdits,   \* bound on outside edits of the source files
    MaxTampers, \* bound on the snapshots that are changed from outside at a time
    NotLocal, Nobody

Absent  == "absent"   \* no such file
Partial == "partial"  \* created, not yet or not completely written
Medias  == {"valid", "invalid"} \* does check_media_type accept the argument?

ASSUME IdsAssumption == Ids \subseteq Nat /\ IsFiniteSet(Ids)
ASSUME ContentsAssumption == Absent \notin Contents /\ Partial \notin Contents
ASSUME OriginsAssumption ==
    /\ Origins \subseteq [scheme : {"none", "file", "other"}, path : Files \cup {NotLocal}]
    /\ NotLocal \notin Files
    /\ Arguments \subseteq [origin : Origins, media : Medias]
ASSUME EvidenceBounds == MaxEdits \in Nat /\ MaxTampers \in Nat
ASSUME EvidenceNobody == Nobody \notin Procs

\* source.yaml.  `form` stands for the bytes that carry the fields.
NoOrigin  == [scheme |-> "other", path |-> NotLocal]
Meta == [st : {Absent, Partial, "whole"}, sha : Contents \cup {Absent},
         origin : Origins \cup {NoOrigin}, media : Medias, form : {"emitted", "edited"}]
NoMeta    == [st |-> Absent, sha |-> Absent, origin |-> NoOrigin, media |-> "valid",
              form |-> "emitted"]
NoEntry   == [dir |-> FALSE, raw |-> Absent, meta |-> NoMeta]
Entry     == [dir : BOOLEAN, raw : Contents \cup {Absent, Partial}, meta : Meta]
\* A `sources` entry of an approved claim: snapshot digest and origin.
NoSource  == [digest |-> NoMeta, title |-> NoOrigin]
Source    == [digest : Meta, title : Origins \cup {NoOrigin}]
ClaimRec  == [st : {"absent", "draft", "approved"}, cites : SUBSET Ids,
              sources : [Ids -> Source]]
NoClaim   == [st |-> "absent", cites |-> {}, sources |-> [i \in Ids |-> NoSource]]

VARIABLES
    holder, sharers, \* flock: the exclusive holder, the shared holders
    source,          \* content of each local file
    snap,            \* evidence/sources/<id>/
    claim,           \* claims: status, evidence_ids, sources
    epc, job,        \* captures and validations in progress
    edits, tampered, \* outside edits so far; the snapshots changed from outside
    reported,        \* history: what captures returned to their callers
    withdrawn,       \* history: the snapshots whose capture failed once they were complete
    witnessed        \* history: bytes read by approvals and by validations

storeVars == <<snap, claim>>
envVars   == <<source, edits, tampered>>
histVars  == <<reported, withdrawn, witnessed>>
vars == <<holder, sharers, storeVars, envVars, epc, job, histVars>>

NoJob == [file |-> Nobody, origin |-> NoOrigin, media |-> "valid", sha |-> Absent,
          fd |-> Absent, id |-> -1, claim |-> Nobody, todo |-> {}, meta |-> NoMeta,
          digests |-> [i \in Ids |-> NoMeta], raws |-> [i \in Ids |-> Absent]]

Init ==
    /\ holder = Nobody /\ sharers = {}
    /\ source \in [Files -> Contents]
    /\ snap = [i \in Ids |-> NoEntry]
    /\ claim = [c \in Claims |-> NoClaim]
    /\ epc = [p \in Procs |-> "idle"] /\ job = [p \in Procs |-> NoJob]
    /\ edits = 0 /\ tampered = {}
    /\ reported = {} /\ withdrawn = {} /\ witnessed = {}

-----------------------------------------------------------------------------
(* Reading a snapshot *)

\* EvidenceStore::read: metadata that does not parse is skipped by its callers.
Readable(i) == snap[i].meta.st = "whole"

\* validate_evidence_metadata; only the media type can be wrong in a file that
\* the program wrote.
MetaValid(meta) == meta.st = "whole" /\ meta.media = "valid"

\* Mutant: the first snapshot is returned whatever its digest is.
Deduped_Any(sha) == {i \in Ids : Readable(i)}

\* lookup_evidence_by_sha256: the metadata is trusted, the raw bytes are not read.
Deduped(sha) == {i \in Ids : Readable(i) /\ snap[i].meta.sha = sha}

First(S) == CHOOSE i \in S : \A j \in S : i <= j

\* evidence_origin_local_path: no scheme, or file://, is a local path.  NotLocal
\* also stands for a path that exists and cannot be read.
LocalPath(o) == IF o.scheme \in {"none", "file"} THEN o.path ELSE NotLocal

\* Mutant: an origin that can be read is called unchanged.
Drift_Reachable(i) ==
    LET path == LocalPath(snap[i].meta.origin)
    IN  CASE path = NotLocal                       -> "uncheckable"
          [] path # NotLocal /\ source[path] = Absent -> "missing"
          [] OTHER                                 -> "unchanged"

\* classify_evidence_drift: re-hash the origin of a recorded snapshot.
Drift(i) ==
    LET path == LocalPath(snap[i].meta.origin)
    IN  CASE path = NotLocal                       -> "uncheckable"
          [] path # NotLocal /\ source[path] = Absent -> "missing"
          [] path # NotLocal /\ source[path] = snap[i].meta.sha -> "unchanged"
          [] OTHER                                 -> "changed"

\* check_drift, without the lock: every snapshot with readable metadata, and the
\* claims that cite it.
DriftReport ==
    {[id |-> i, status |-> Drift(i), affected |-> {c \in Claims : i \in claim[c].cites}]
        : i \in {j \in Ids : Readable(j)}}

\* list_evidence_snapshots: directories are listed, readable metadata gives the digest.
Listed == {i \in Ids : snap[i].dir}
WithSha(sha) == {i \in Listed : Readable(i) /\ snap[i].meta.sha = sha}

\* structural_findings_at, the findings about evidence, under the shared lock.
Lint ==
    [missing    |-> {ci \in Claims \X Ids : ci[2] \in claim[ci[1]].cites /\ ~Readable(ci[2])},
     uncited    |-> {i \in Listed : \A c \in Claims : i \notin claim[c].cites},
     duplicates |-> {WithSha(sha) : sha \in {s \in Contents : Cardinality(WithSha(s)) > 1}}]

\* run_doctor: it is well if the index is fresh and neither the lint nor the drift
\* check finds anything; what it advises passes over a drift.
Doctor(fresh) ==
    LET structural == {f \in DOMAIN Lint : Lint[f] # {}}
        drifted    == {d \in DriftReport : d.status # "unchanged"}
    IN  [healthy |-> fresh /\ structural = {} /\ drifted = {},
         next    |-> IF fresh /\ structural # {} THEN "review" ELSE "reindex"]

-----------------------------------------------------------------------------
(* evidence add *)

Goto(p, label) == epc' = [epc EXCEPT ![p] = label]

\* The command returns or the process dies: the lock goes with its descriptor.
Leave(p) ==
    /\ holder' = IF holder = p THEN Nobody ELSE holder
    /\ sharers' = sharers \ {p}
    /\ Goto(p, "idle")
    /\ job' = [job EXCEPT ![p] = NoJob]

Quit(p) == Leave(p) /\ UNCHANGED <<storeVars, envVars, histVars>>

\* Mutant: captures share the lock.
StartCapture_Shared(p, f, arg) ==
    /\ epc[p] = "idle" /\ holder = Nobody
    /\ sharers' = sharers \cup {p}
    /\ job' = [job EXCEPT ![p] = [NoJob EXCEPT !.file = f, !.origin = arg.origin,
                                                !.media = arg.media]]
    /\ Goto(p, "hash")
    /\ UNCHANGED <<holder, storeVars, envVars, histVars>>

StartCapture(p, f, arg) ==
    /\ epc[p] = "idle" /\ holder = Nobody /\ sharers = {}
    /\ holder' = p
    /\ job' = [job EXCEPT ![p] = [NoJob EXCEPT !.file = f, !.origin = arg.origin,
                                                !.media = arg.media]]
    /\ Goto(p, "hash")
    /\ UNCHANGED <<sharers, storeVars, envVars, histVars>>

\* hash_evidence_source_file: a missing file ends the command.
HashSource(p) ==
    /\ epc[p] = "hash"
    /\ IF source[job[p].file] = Absent THEN Quit(p)
       ELSE /\ job' = [job EXCEPT ![p].sha = source[job[p].file]]
            /\ Goto(p, "lookup")
            /\ UNCHANGED <<holder, sharers, storeVars, envVars, histVars>>

Report(p, i) ==
    reported' = reported \cup {[id |-> i, sha |-> job[p].sha, media |-> snap[i].meta.media]}

ReturnExisting(p) ==
    /\ epc[p] = "lookup" /\ Deduped(job[p].sha) # {}
    /\ Report(p, First(Deduped(job[p].sha)))
    /\ Leave(p)
    /\ UNCHANGED <<storeVars, envVars, withdrawn, witnessed>>

\* The source is opened again, for the copy.
OpenSource(p) ==
    /\ epc[p] = "lookup" /\ Deduped(job[p].sha) = {}
    /\ IF source[job[p].file] = Absent THEN Quit(p)
       ELSE /\ job' = [job EXCEPT ![p].fd = source[job[p].file]]
            /\ Goto(p, "mkdir")
            /\ UNCHANGED <<holder, sharers, storeVars, envVars, histVars>>

\* Mutant: an existing directory is used without a look.
MakeDirectory_Reused(p, i) ==
    /\ epc[p] = "mkdir"
    /\ snap' = [snap EXCEPT ![i].dir = TRUE]
    /\ job' = [job EXCEPT ![p].id = i]
    /\ Goto(p, "raw")
    /\ UNCHANGED <<holder, sharers, claim, envVars, histVars>>

\* An id is drawn; a directory of that name is an error, before anything of it
\* is touched.
MakeDirectory(p, i) ==
    /\ epc[p] = "mkdir"
    /\ IF snap[i].dir THEN Quit(p)
       ELSE /\ snap' = [snap EXCEPT ![i].dir = TRUE]
            /\ job' = [job EXCEPT ![p].id = i]
            /\ Goto(p, "raw")
            /\ UNCHANGED <<holder, sharers, claim, envVars, histVars>>

\* create_new: an existing raw file is an error, never overwritten.
CreateRaw(p) ==
    /\ epc[p] = "raw"
    /\ IF snap[job[p].id].raw # Absent
       THEN Goto(p, "remove") /\ UNCHANGED snap
       ELSE snap' = [snap EXCEPT ![job[p].id].raw = Partial] /\ Goto(p, "copy")
    /\ UNCHANGED <<holder, sharers, claim, envVars, histVars, job>>

\* Mutant: the digest of the copied bytes is not compared.
CopyRaw_Unchecked(p) ==
    /\ epc[p] = "copy"
    /\ \E bytes \in {job[p].fd, source[job[p].file]} \ {Absent} :
          /\ snap' = [snap EXCEPT ![job[p].id].raw = bytes]
          /\ Goto(p, "meta")
    /\ UNCHANGED <<holder, sharers, claim, envVars, histVars, job>>

\* The bytes copied are those of the opened file: the content at the time of the
\* open if the file was replaced since, the present one if it was overwritten.
\* They were hashed while they were copied.
CopyRaw(p) ==
    /\ epc[p] = "copy"
    /\ \E bytes \in {job[p].fd, source[job[p].file]} \ {Absent} :
          /\ snap' = [snap EXCEPT ![job[p].id].raw = bytes]
          /\ Goto(p, IF bytes = job[p].sha THEN "meta" ELSE "remove")
    /\ UNCHANGED <<holder, sharers, claim, envVars, histVars, job>>

CreateMeta(p) ==
    /\ epc[p] = "meta"
    /\ snap' = [snap EXCEPT ![job[p].id].meta.st = Partial]
    /\ Goto(p, "metabytes")
    /\ UNCHANGED <<holder, sharers, claim, envVars, histVars, job>>

WriteMeta(p) ==
    /\ epc[p] = "metabytes"
    /\ snap' = [snap EXCEPT ![job[p].id].meta =
                  [st |-> "whole", sha |-> job[p].sha, origin |-> job[p].origin,
                   media |-> job[p].media, form |-> "emitted"]]
    /\ Goto(p, "created")
    /\ UNCHANGED <<holder, sharers, claim, envVars, histVars, job>>

Created(p) ==
    /\ epc[p] = "created"
    /\ Report(p, job[p].id)
    /\ Leave(p)
    /\ UNCHANGED <<storeVars, envVars, withdrawn, witnessed>>

\* An I/O error: the disk is full, the source cannot be read, or, once source.yaml
\* is complete, its mode cannot be set.  Then a whole snapshot is removed.
CaptureFails(p) ==
    /\ epc[p] \in {"raw", "copy", "meta", "metabytes", "created"}
    /\ Goto(p, "remove")
    /\ withdrawn' = withdrawn \cup {i \in {job[p].id} : epc[p] = "created"}
    /\ UNCHANGED <<holder, sharers, storeVars, envVars, reported, witnessed, job>>

\* remove_dir_all(root): file after file, in any order; its errors are ignored.
RemoveFile(p) ==
    LET i == job[p].id
    IN  /\ epc[p] = "remove"
        /\ snap' \in {[snap EXCEPT ![i].raw = Absent], [snap EXCEPT ![i].meta = NoMeta]}
        /\ snap' # snap
        /\ UNCHANGED <<holder, sharers, epc, job, claim, envVars, histVars>>

RemoveDirectory(p) ==
    LET i == job[p].id
    IN  /\ epc[p] = "remove" /\ snap[i].raw = Absent /\ snap[i].meta = NoMeta
        /\ snap' = [snap EXCEPT ![i].dir = FALSE]
        /\ tampered' = tampered \ {i} /\ withdrawn' = withdrawn \ {i}
        /\ Leave(p)
        /\ UNCHANGED <<claim, source, edits, reported, witnessed>>

RemoveFails(p) == epc[p] = "remove" /\ Quit(p)

-----------------------------------------------------------------------------
(* Claims that cite evidence *)

\* claim draft: the ids are not looked up, they need not exist.
DraftClaim(c, cited) ==
    /\ holder = Nobody /\ sharers = {} /\ claim[c].st = "absent"
    /\ claim' = [claim EXCEPT ![c] = [NoClaim EXCEPT !.st = "draft", !.cites = cited]]
    /\ UNCHANGED <<holder, sharers, snap, envVars, epc, job, histVars>>

Begin(p, c, label) ==
    /\ job' = [job EXCEPT ![p] = [NoJob EXCEPT !.claim = c, !.todo = claim[c].cites]]
    /\ Goto(p, label)
    /\ UNCHANGED <<storeVars, envVars, histVars>>

\* prepare_approve_unlocked, under the exclusive lock.
StartApprove(p, c) ==
    /\ epc[p] = "idle" /\ holder = Nobody /\ sharers = {}
    /\ claim[c].st = "draft"
    /\ holder' = p /\ UNCHANGED sharers
    /\ Begin(p, c, "verify")

\* A rebuild or a trusted query validates an approved claim under the shared lock.
StartValidate(p, c) ==
    /\ epc[p] = "idle" /\ holder = Nobody
    /\ claim[c].st = "approved"
    /\ sharers' = sharers \cup {p} /\ UNCHANGED holder
    /\ Begin(p, c, "verify")

\* verify_uncached, in two reads: the metadata, then the raw bytes.
VerifyMeta(p) ==
    /\ epc[p] = "verify" /\ job[p].todo # {}
    /\ LET i == First(job[p].todo)
       IN  IF ~MetaValid(snap[i].meta) THEN Quit(p)
           ELSE /\ job' = [job EXCEPT ![p].meta = snap[i].meta]
                /\ Goto(p, "verifyraw")
                /\ UNCHANGED <<holder, sharers, storeVars, envVars, histVars>>

\* Mutant: the raw bytes are there, their digest is not compared.
VerifyRaw_Exists(p) ==
    /\ epc[p] = "verifyraw"
    /\ LET i == First(job[p].todo)
       IN  IF snap[i].raw \in {Absent, Partial} THEN Quit(p)
           ELSE /\ job' = [job EXCEPT ![p].digests[i] = job[p].meta,
                                      ![p].raws[i] = snap[i].raw,
                                      ![p].todo = @ \ {i}, ![p].meta = NoMeta]
                /\ Goto(p, "verify")
                /\ UNCHANGED <<holder, sharers, storeVars, envVars, histVars>>

VerifyRaw(p) ==
    /\ epc[p] = "verifyraw"
    /\ LET i == First(job[p].todo)
       IN  IF snap[i].raw # job[p].meta.sha THEN Quit(p)
           ELSE /\ job' = [job EXCEPT ![p].digests[i] = job[p].meta,
                                      ![p].raws[i] = snap[i].raw,
                                      ![p].todo = @ \ {i}, ![p].meta = NoMeta]
                /\ Goto(p, "verify")
                /\ UNCHANGED <<holder, sharers, storeVars, envVars, histVars>>

Verified(p) == epc[p] = "verify" /\ job[p].todo = {}
Cited(p)    == claim[job[p].claim].cites

Witness(p, kind) ==
    witnessed' = witnessed \cup {[claim |-> job[p].claim, kind |-> kind, raws |-> job[p].raws]}

\* claim_sources: the title comes from a second read of the metadata, the digest
\* from the verification.  The claim is then written as approved.
Approve(p) ==
    /\ Verified(p) /\ holder = p
    /\ IF \E i \in Cited(p) : ~Readable(i) THEN Quit(p)
       ELSE /\ claim' = [claim EXCEPT
                  ![job[p].claim].st = "approved",
                  ![job[p].claim].sources =
                      [i \in Ids |-> IF i \in Cited(p)
                                     THEN [digest |-> job[p].digests[i],
                                           title  |-> snap[i].meta.origin]
                                     ELSE NoSource]]
            /\ Witness(p, "approve")
            /\ Leave(p)
            /\ UNCHANGED <<snap, envVars, reported, withdrawn>>

\* Mutant: the current snapshot verifies, so the bound digest is not compared.
Matches_Verified(p, i) ==
    /\ Readable(i)
    /\ claim[job[p].claim].sources[i].title = snap[i].meta.origin

\* validate_claim_evidence after the verification: the metadata is read again.
Matches(p, i) ==
    /\ Readable(i)
    /\ claim[job[p].claim].sources[i].title = snap[i].meta.origin
    /\ claim[job[p].claim].sources[i].digest = job[p].digests[i]

Accept(p) ==
    /\ Verified(p) /\ p \in sharers
    /\ IF \A i \in Cited(p) : Matches(p, i)
       THEN Witness(p, "validate") ELSE UNCHANGED witnessed
    /\ Leave(p)
    /\ UNCHANGED <<storeVars, envVars, reported, withdrawn>>

Die(p) == epc[p] # "idle" /\ Quit(p)

-----------------------------------------------------------------------------
(* The environment *)

\* The owner of a source file edits or removes it.
EditSource(f, bytes) ==
    /\ edits < MaxEdits /\ bytes # source[f]
    /\ edits' = edits + 1
    /\ source' = [source EXCEPT ![f] = bytes]
    /\ UNCHANGED <<holder, sharers, storeVars, epc, job, tampered, histVars>>

\* Somebody changes a complete snapshot behind the program's back.
Tamper(i, entry) ==
    /\ Cardinality(tampered) < MaxTampers /\ i \notin tampered
    /\ Readable(i) /\ entry # snap[i]
    /\ tampered' = tampered \cup {i}
    /\ snap' = [snap EXCEPT ![i] = entry]
    /\ UNCHANGED <<holder, sharers, claim, source, edits, epc, job, histVars>>

Tampering(i) ==
    {[snap[i] EXCEPT !.raw = bytes] : bytes \in Contents \cup {Absent}}
    \cup {[snap[i] EXCEPT !.raw = bytes, !.meta.sha = bytes, !.meta.form = "edited"]
             : bytes \in Contents}
    \cup {[snap[i] EXCEPT !.meta.origin = o, !.meta.form = "edited"] : o \in Origins}
    \cup {[snap[i] EXCEPT !.meta = NoMeta]}

Next ==
    \/ \E p \in Procs :
          \/ \E f \in Files, arg \in Arguments : StartCapture(p, f, arg)
          \/ HashSource(p) \/ ReturnExisting(p) \/ OpenSource(p)
          \/ \E i \in Ids : MakeDirectory(p, i)
          \/ CreateRaw(p) \/ CopyRaw(p) \/ CreateMeta(p) \/ WriteMeta(p) \/ Created(p)
          \/ CaptureFails(p) \/ RemoveFile(p) \/ RemoveDirectory(p) \/ RemoveFails(p)
          \/ \E c \in Claims : StartApprove(p, c) \/ StartValidate(p, c)
          \/ VerifyMeta(p) \/ VerifyRaw(p) \/ Approve(p) \/ Accept(p) \/ Die(p)
    \/ \E f \in Files, bytes \in Contents \cup {Absent} : EditSource(f, bytes)
    \/ \E i \in Ids : \E entry \in Tampering(i) : Tamper(i, entry)
    \/ \E c \in Claims, cited \in SUBSET Ids : DraftClaim(c, cited)

Spec == Init /\ [][Next]_vars

-----------------------------------------------------------------------------
(* Properties *)

Job == [file : Files \cup {Nobody}, origin : Origins \cup {NoOrigin}, media : Medias,
        sha : Contents \cup {Absent}, fd : Contents \cup {Absent}, id : Ids \cup {-1},
        claim : Claims \cup {Nobody}, todo : SUBSET Ids, meta : Meta,
        digests : [Ids -> Meta], raws : [Ids -> Contents \cup {Absent}]]
Witnesses == [claim : Claims, kind : {"approve", "validate"},
              raws : [Ids -> Contents \cup {Absent}]]

\* Types, and the flock: nobody shares while somebody holds.
TypeOK ==
    /\ holder \in Procs \cup {Nobody} /\ sharers \subseteq Procs
    /\ holder # Nobody => sharers = {}
    /\ source \in [Files -> Contents \cup {Absent}]
    /\ snap \in [Ids -> Entry]
    /\ claim \in [Claims -> ClaimRec]
    /\ epc \in [Procs -> {"idle", "hash", "lookup", "mkdir", "raw", "copy", "meta",
                          "metabytes", "created", "remove", "verify", "verifyraw"}]
    /\ job \in [Procs -> Job]
    /\ edits \in Nat /\ tampered \subseteq Ids
    /\ reported \subseteq [id : Ids, sha : Contents, media : Medias]
    /\ withdrawn \subseteq Ids
    /\ \A w \in witnessed : w \in Witnesses

\* The raw bytes of a snapshot that nobody tampered with: those its metadata
\* describes.  They are missing only where the capture failed after the metadata was
\* complete, and its cleanup was cut short between the two files.
Whole(i) ==
    \/ snap[i].raw = snap[i].meta.sha
    \/ snap[i].raw = Absent /\ i \in withdrawn

\* A snapshot whose metadata can be read holds the complete bytes the metadata
\* describes, whatever died, failed or was edited while it was written; never other
\* bytes or a part of them, and none at all only if its capture was withdrawn.  It is
\* why the metadata alone may be trusted when snapshots are deduplicated
\* (lookup_evidence_by_sha256), and how far.
SnapshotsAreWhole == \A i \in Ids \ tampered : Readable(i) => Whole(i)

\* An evidence id that was once reported to a caller, by the capture that made it or
\* by a later one that found it, keeps the digest of the bytes that were hashed for
\* that caller, and the bytes themselves unless the capture that made it had failed;
\* its metadata stays acceptable to verification unless its media type is one that
\* verification does not accept (add_file, verify_uncached).
CapturedIsKept ==
    \A r \in reported : r.id \notin tampered =>
        /\ Readable(r.id) /\ snap[r.id].meta.sha = r.sha /\ Whole(r.id)
        /\ r.media = "valid" => MetaValid(snap[r.id].meta)

\* One content is captured once: two processes that add the same bytes get one
\* id, so that a lint never finds two snapshots with one digest unless one of them
\* was edited (add_file holds the exclusive lock from the lookup to the last write;
\* structural_findings_at).
OneSnapshotPerContent == \A ids \in Lint.duplicates : Cardinality(ids \ tampered) <= 1

\* The program changes a complete snapshot in one case: the capture that has just
\* written it fails on its mode and removes it, before anybody was told its id.  No
\* snapshot that was reported is touched, by a failing capture or by one that draws
\* the same id ("Immutable local evidence snapshots", README.md).
NeverRewritten ==
    [][\A i \in Ids : Readable(i) /\ tampered' = tampered /\ snap'[i] # snap[i] =>
          /\ \E p \in Procs : epc[p] = "remove" /\ job[p].id = i
          /\ i \in withdrawn /\ \A r \in reported : r.id # i]_vars

\* A validation accepts a claim only with the very bytes the owner's approval
\* verified, for each of its evidence ids, even if a snapshot and its metadata
\* are changed together, or between two reads of the same validation
\* (validate_claim_evidence).
AcceptedAsApproved ==
    \A v \in witnessed : v.kind = "validate" =>
        \E a \in witnessed : a.kind = "approve" /\ a.claim = v.claim /\ a.raws = v.raws

\* Capturing the origin of a snapshot again would return its id.
Recaptured(i) == \E path \in {LocalPath(snap[i].meta.origin)} \ {NotLocal} :
                     /\ source[path] # Absent
                     /\ i \in Deduped(source[path]) /\ First(Deduped(source[path])) = i

\* While nobody tampers with a snapshot, a drift check calls it unchanged exactly
\* when it would be captured again under its id, so that a doctor who finds nothing
\* wrong has found current everything a claim cites, and whole but for what a failed
\* capture left without its bytes, which neither check reads
\* (classify_evidence_drift, add_file, run_doctor).
DriftAgreesWithCapture ==
    tampered = {} =>
        /\ \A found \in DriftReport : found.status = "unchanged" <=> Recaptured(found.id)
        /\ Doctor(TRUE).healthy =>
              \A c \in Claims : \A i \in claim[c].cites :
                  Recaptured(i) /\ Whole(i)
=============================================================================
