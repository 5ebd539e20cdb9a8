----------------------------- MODULE ClaimFiles -----------------------------
(***************************************************************************)
(* The claim files of one workspace as claims.rs reads and writes them:    *)
(* which Markdown file is which claim, what a workspace scan accepts, how  *)
(* a lifecycle command finds the file of a claim id, and the migration of  *)
(* legacy files (lifecycle.rs), which rewrites one file after the other    *)
(* and may die in between.  Owners move, copy, edit and remove the files.  *)
(*                                                                         *)
(* A file is a record of what its bytes parse to; a verification digest is *)
(* the record of the fields it was computed from.                          *)
(***************************************************************************)
EXTENDS Integers, FiniteSets, Sequences, SequencesExt

CONSTANTS
    Claims,   \* claim ids
    Names,    \* file names that are not claim ids
    Tiers,    \* wiki/<tier>/
    Paths,    \* the paths below wiki/ that are used
    Texts,    \* [title, body], as token sequences
    Reasons,  \* of a revocation, as YAML sees them
    Scalars,  \* further strings to write into frontmatter
    Renderings, \* claims to render, with all their fields
    FirstWiki, \* the wikis a behaviour may start from
    MaxEdits, \* bound on outside edits
    Negators, Predicates, StatusWords, Auxiliaries, Stem

C == INSTANCE Contradiction
Y == INSTANCE Yaml
F == INSTANCE Frontmatter WITH ClaimIds <- Claims, EvidenceIds <- {"evd_ab"}, WikiTiers <- Tiers

Path(t, nested, n) == [tier |-> t, nested |-> nested, name |-> n]

Statuses == {"draft", "approved", "superseded", "revoked"}
NoDigest == [kind |-> "none", of |-> {}]
\* sha256:<hex> of a rendered claim, or text that is no digest at all.
\* The recorded contradictions and transitions are part of what is signed.
Sha(id, tier, text, found, revokes) ==
    [kind |-> "sha", of |-> {[id |-> id, tier |-> tier, text |-> text, contradicts |-> found,
                              revokes |-> revokes]}]
Malformed == [kind |-> "malformed", of |-> {}]

\* "note": Markdown without claim frontmatter; "broken": a claim document that
\* does not parse or validate.
NoDoc == [kind |-> "none"]
Note  == [kind |-> "note"]
Broken == [kind |-> "broken"]
ClaimDoc(schema, id, tier, st, text, digest, found, revokes) ==
    [kind |-> "claim", schema |-> schema, id |-> id, tier |-> tier, st |-> st, text |-> text,
     digest |-> digest, contradicts |-> found, revokes |-> revokes]

ASSUME ClaimFilesBounds == MaxEdits \in Nat
ASSUME NamesAssumption == Claims \cap Names = {}
\* Directly in a tier directory, or in a directory below it.
ASSUME PathsAssumption == Paths \subseteq [tier : Tiers, nested : BOOLEAN, name : Claims \cup Names]

IsFile(doc) ==
    \/ doc \in {NoDoc, Note, Broken}
    \/ /\ DOMAIN doc = {"kind", "schema", "id", "tier", "st", "text", "digest", "contradicts",
                        "revokes"}
       /\ doc.kind = "claim" /\ doc.schema \in {"okf", "legacy"} /\ doc.id \in Claims

\* Strings, and the claims a program can hold.
ASSUME StringsAssumption   == Scalars \cup Reasons \subseteq Y!Strings
ASSUME RenderingsAssumption == Renderings \subseteq F!ClaimStructs

\* A start wiki may hold anything, edited files too; its digests are of claims.
ASSUME FirstWikiAssumption ==
    \A start \in FirstWiki :
        /\ start = [p \in Paths |-> start[p]]
        /\ \A p \in Paths : /\ IsFile(start[p])
                            /\ start[p].kind = "claim" =>
                                  \A s \in start[p].digest.of : s.id \in Claims

VARIABLES
    wiki,     \* [Paths -> file]
    mig,      \* the migration: phase, what its scan read, what is left to write
    edits,    \* outside edits so far
    touched,  \* history: paths an owner changed after the program wrote them
    blessed   \* history: what was approved under an id, and after how many revocations

vars == <<wiki, mig, edits, touched, blessed>>

Idle == [phase |-> "idle", before |-> [p \in Paths |-> NoDoc], todo |-> {}, clean |-> TRUE]

-----------------------------------------------------------------------------
(* Parsing and scanning *)

Files == {p \in Paths : wiki[p].kind # "none"}
\* is_zbrain_claim_document
Docs  == {p \in Files : wiki[p].kind \in {"claim", "broken"}}

\* parse_okf_claim_frontmatter: the tier of the profile, if any, is that of the
\* directory.
ParsesOkf(p) == wiki[p].tier \in {"", p.tier} /\ wiki[p].digest.kind # "malformed"

\* parse_legacy_claim_frontmatter: the tier is taken from the directory, and an
\* approved claim may carry a digest that is none.
ParsesLegacy(p) == wiki[p].digest.kind = "malformed" => wiki[p].st = "approved"

\* validate_claim_path_id: a file named like a claim id holds that claim.
NameFits(p) == p.name \in Claims => p.name = wiki[p].id

\* parse_claim_markdown
Parses(p) ==
    /\ wiki[p].kind = "claim" /\ NameFits(p)
    /\ wiki[p].schema = "okf" => ParsesOkf(p)
    /\ wiki[p].schema = "legacy" => ParsesLegacy(p)

\* Mutant: the digest leaves the transitions out.
Signed_NoHistory(p) ==
    \E n \in 0 .. 2 :
        wiki[p].digest = Sha(wiki[p].id, p.tier, wiki[p].text, wiki[p].contradicts, n)

\* claim_verification_digest renders the OKF form with the tier of the path.
Signed(p) ==
    wiki[p].digest = Sha(wiki[p].id, p.tier, wiki[p].text, wiki[p].contradicts, wiki[p].revokes)

AsApproved(p) == [text |-> wiki[p].text, revokes |-> wiki[p].revokes]

Sharing(p) == {q \in Docs : Parses(q) /\ wiki[q].id = wiki[p].id}

\* scan_workspace_inner: what it accepts, with and without the digests.
Accepted(verify) ==
    {p \in Docs : /\ Parses(p) /\ Sharing(p) = {p}
                  /\ verify /\ wiki[p].st = "approved" => Signed(p)}

ApprovedClaims == {[id |-> wiki[p].id, text |-> wiki[p].text] :
                      p \in {q \in Accepted(TRUE) : wiki[q].st = "approved"}}

-----------------------------------------------------------------------------
(* Finding a claim by its id *)

Flat(id) == {p \in Files : ~p.nested /\ p.name = id}
HasNested == \E p \in Files : p.nested

\* Mutant: files below nested directories are never read.
Lookup_FlatOnly(id) ==
    IF \E p \in Flat(id) : ~Parses(p) THEN [ok |-> FALSE, paths |-> {}]
    ELSE [ok |-> TRUE, paths |-> Flat(id)]

\* read_canonical_claims_by_id: without nested directories only the files named
\* after the id are read, with them every claim document is.
Lookup(id) ==
    IF \/ \E p \in Flat(id) : ~Parses(p)
       \/ HasNested /\ \E p \in Docs : ~Parses(p)
    THEN [ok |-> FALSE, paths |-> {}]
    ELSE [ok |-> TRUE, paths |-> IF HasNested THEN {p \in Docs : wiki[p].id = id} ELSE Flat(id)]

\* ClaimStore::read
Reads(id, p) == Lookup(id).ok /\ Lookup(id).paths = {p}

-----------------------------------------------------------------------------
(* Commands *)

Put(p, doc) ==
    /\ wiki' = [wiki EXCEPT ![p] = doc]
    /\ touched' = touched \ {p}

\* write_draft_unlocked with a new id, the way every command calls it.
NewDraft(c, t, text) ==
    LET p == Path(t, FALSE, c)
    IN  /\ p \in Paths /\ mig.phase = "idle"
        /\ \A q \in Files : q.name # c /\ (wiki[q].kind = "claim" => wiki[q].id # c)
        /\ Lookup(c).ok
        /\ Put(p, ClaimDoc("okf", c, t, "draft", text, NoDigest,
                           C!Detect(c, text, ApprovedClaims), 0))
        /\ UNCHANGED <<mig, edits, blessed>>

\* write_draft_unlocked for a draft that exists: its path is kept.
Redraft(c, p, text) ==
    /\ mig.phase = "idle" /\ Reads(c, p) /\ wiki[p].st = "draft"
    /\ Put(p, ClaimDoc("okf", c, p.tier, "draft", text, NoDigest,
                       C!Detect(c, text, ApprovedClaims), 0))
    /\ UNCHANGED <<mig, edits, blessed>>

\* commit_approve_unlocked: rendered again in the OKF form and signed.
Approve(c, p) ==
    /\ mig.phase = "idle" /\ Reads(c, p) /\ wiki[p].st = "draft"
    /\ Put(p, ClaimDoc("okf", c, p.tier, "approved", wiki[p].text,
                       Sha(c, p.tier, wiki[p].text, wiki[p].contradicts, wiki[p].revokes),
                       wiki[p].contradicts, wiki[p].revokes))
    /\ blessed' = [blessed EXCEPT ![c] = @ \cup {AsApproved(p)}]
    /\ UNCHANGED <<mig, edits>>

\* The reason of a transition stands in an item of a sequence.  A document whose
\* frontmatter is not YAML is no claim document: a scan lists it as a note.
Recorded(reason, doc) == IF Y!ReadBack(reason, "item") = Y!Unreadable THEN Note ELSE doc

\* commit_revoke_unlocked; the digest is verified first.
Revoke(c, p, reason) ==
    /\ mig.phase = "idle" /\ Reads(c, p) /\ wiki[p].st = "approved" /\ Signed(p)
    /\ Put(p, Recorded(reason, ClaimDoc("okf", c, p.tier, "revoked", wiki[p].text,
                                        wiki[p].digest, wiki[p].contradicts,
                                        wiki[p].revokes + 1)))
    /\ UNCHANGED <<mig, edits, blessed>>

-----------------------------------------------------------------------------
(* migrate_okf *)

\* Mutant: the tier of the old frontmatter is kept.
Migrated_OldTier(p, doc) ==
    LET verified == doc.digest = Sha(doc.id, p.tier, doc.text, doc.contradicts, doc.revokes)
        demoted  == doc.st = "approved" /\ ~verified
    IN  ClaimDoc("okf", doc.id, doc.tier, IF demoted THEN "draft" ELSE doc.st, doc.text,
                 IF demoted THEN NoDigest ELSE doc.digest, doc.contradicts, doc.revokes)

\* migrate_legacy_claim: an approved claim whose digest does not verify in the
\* OKF form becomes a draft again.
Migrated(p, doc) ==
    LET verified == doc.digest = Sha(doc.id, p.tier, doc.text, doc.contradicts, doc.revokes)
        demoted  == doc.st = "approved" /\ ~verified
    IN  ClaimDoc("okf", doc.id, p.tier, IF demoted THEN "draft" ELSE doc.st, doc.text,
                 IF demoted THEN NoDigest ELSE doc.digest, doc.contradicts, doc.revokes)

Legacy == {p \in Accepted(FALSE) : wiki[p].schema = "legacy"}

\* The scan, without digests, under the exclusive lock; nothing to migrate is
\* an early return.
StartMigration ==
    /\ mig.phase = "idle" /\ Legacy # {}
    /\ mig' = [phase |-> "write", before |-> wiki, todo |-> Legacy, clean |-> TRUE]
    /\ UNCHANGED <<wiki, edits, touched, blessed>>

\* Every claim is written from what the scan read.
MigrateOne(p) ==
    /\ mig.phase = "write" /\ p \in mig.todo
    /\ Put(p, Migrated(p, mig.before[p]))
    /\ mig' = [mig EXCEPT !.todo = @ \ {p}]
    /\ UNCHANGED <<edits, blessed>>

\* Mutant: success is reported after a write that failed.
MigrationDone_Early ==
    /\ mig.phase = "write"
    /\ mig' = [mig EXCEPT !.phase = "done"]
    /\ UNCHANGED <<wiki, edits, touched, blessed>>

MigrationDone ==
    /\ mig.phase = "write" /\ mig.todo = {}
    /\ mig' = [mig EXCEPT !.phase = "done"]
    /\ UNCHANGED <<wiki, edits, touched, blessed>>

\* The command returns, fails on a write, or dies.
MigrationEnds ==
    /\ mig.phase # "idle"
    /\ mig' = Idle
    /\ UNCHANGED <<wiki, edits, touched, blessed>>

-----------------------------------------------------------------------------
(* One field is removed, null, or of another kind, in the top mapping or below *)

Time == "2026-01-02T03:04:05Z"
Revocation == [kind |-> "revoke", at |-> Time, by |-> "owner", reason |-> "",
               related_claim_ids |-> <<>>, prior_verification_digest |-> "",
               authorization |-> <<>>]

\* The claim with all its fields.
FullClaim(doc) ==
    LET signed == doc.digest.kind # "none"
    IN  [schema |-> IF doc.schema = "legacy" THEN F!LegacySchema ELSE "", type |-> F!OkfType,
         id |-> doc.id, tier |-> doc.tier, status |-> doc.st, title |-> "title",
         description |-> "", resource |-> "", basis |-> "owner", created_at |-> Time,
         created_by |-> "owner", verified_at |-> IF signed THEN Time ELSE "",
         verified_by |-> IF signed THEN "owner" ELSE "",
         verified_digest |-> CASE doc.digest.kind = "none" -> ""
                               [] doc.digest.kind = "sha" -> "sha256:ab"
                               [] doc.digest.kind = "malformed" -> "ab",
         stale_after |-> "", sources |-> <<>>, evidence_ids |-> <<>>,
         supporting_claim_ids |-> <<>>, supersedes |-> <<>>, conflicts_with |-> <<>>,
         contradicts |-> SetToSeq({[claim_id |-> d.claim, heuristic |-> d.heuristic] :
                                      d \in doc.contradicts}),
         tags |-> <<>>, transitions |-> [n \in 1 .. doc.revokes |-> Revocation]]

\* The mapping in the file.  A legacy file has the fields of the profile on top.
Document(doc) ==
    LET map == F!Written(FullClaim(doc))
        top == [f \in (DOMAIN map \cup DOMAIN map.zbrain.of) \ {"type", "zbrain", "profile", "tier",
                                                                 "generated", "contradicts"} |->
                    IF f \in DOMAIN map THEN map[f] ELSE map.zbrain.of[f]]
    IN  CASE doc.schema = "okf" -> map
          [] doc.schema = "legacy" ->
                [f \in DOMAIN top \cup {"schema", "created_at", "created_by"} |->
                    CASE f = "schema" -> F!Str(F!LegacySchema)
                      [] f = "created_at" -> F!Str(Time)
                      [] f = "created_by" -> F!Str("owner")
                      [] OTHER -> top[f]]

Ways == {"removed", "null", "integer"}
Spoiled(map, g, way) ==
    CASE way = "removed" -> [f \in DOMAIN map \ {g} |-> map[f]]
      [] way = "null"    -> [map EXCEPT ![g] = F!Null]
      [] way = "integer" -> [map EXCEPT ![g] = F!Node("integer", 1)]

Mappings(map) == {f \in DOMAIN map : map[f].is = "mapping"}

\* Is the tier of the document its own, or that of its directory?
OwnTier(doc) == doc.schema = "okf" /\ doc.tier # ""

\* The document after a mapping was put in its place and was read as `was`.
Reread(doc, map, was) ==
    CASE was.read = "note"  -> Note
      [] was.read = "error" -> Broken
      [] was.read = "claim" ->
            [doc EXCEPT !.tier = IF OwnTier(doc) /\ "tier" \notin DOMAIN map.zbrain.of THEN "" ELSE @,
                        !.digest = IF was.claim.verified_digest = "" THEN NoDigest ELSE @,
                        !.contradicts = {[claim |-> d.claim_id, heuristic |-> d.heuristic] :
                                            d \in ToSet(was.claim.contradicts)},
                        !.revokes = Len(was.claim.transitions)]

\* The owner puts `map` in the place of the frontmatter of p.
PutMapping(p, map) ==
    \E was \in {F!Read(map, IF OwnTier(wiki[p]) THEN wiki[p].tier ELSE p.tier)} :
        wiki' = [wiki EXCEPT ![p] = Reread(wiki[p], map, was)]

\* A field g of the top mapping, or of the mapping at f.
PutSpoiled(p, map) ==
    \E way \in Ways :
        \/ \E g \in DOMAIN map : PutMapping(p, Spoiled(map, g, way))
        \/ \E f \in Mappings(map) : \E g \in DOMAIN map[f].of :
              PutMapping(p, [map EXCEPT ![f].of = Spoiled(map[f].of, g, way)])

-----------------------------------------------------------------------------
(* Owners and their editors *)

Outside(changed) ==
    /\ edits < MaxEdits /\ edits' = edits + 1
    /\ touched' = touched \cup changed
    /\ mig' = [mig EXCEPT !.clean = FALSE]
    /\ UNCHANGED blessed

Copy(p, q) ==
    /\ p \in Files /\ q \notin Files
    /\ wiki' = [wiki EXCEPT ![q] = wiki[p]]
    /\ Outside({q})

Move(p, q) ==
    /\ p \in Files /\ q \notin Files
    /\ wiki' = [wiki EXCEPT ![q] = wiki[p], ![p] = NoDoc]
    /\ Outside({p, q})

Rewrite(p, text) ==
    /\ wiki[p].kind = "claim" /\ text # wiki[p].text
    /\ wiki' = [wiki EXCEPT ![p].text = text]
    /\ Outside({p})

SetStatus(p, st) ==
    /\ wiki[p].kind = "claim" /\ st # wiki[p].st
    /\ wiki' = [wiki EXCEPT ![p].st = st]
    /\ Outside({p})

\* The file is removed, loses its frontmatter, or one field of it is changed.
Damage(p) ==
    /\ p \in Files /\ edits < MaxEdits
    /\ \/ wiki' = [wiki EXCEPT ![p] = NoDoc]
       \/ wiki' = [wiki EXCEPT ![p] = Note]
       \/ /\ wiki[p].kind = "claim"
          /\ \E map \in {Document(wiki[p])} : PutSpoiled(p, map)
    /\ wiki' # wiki
    /\ Outside({p})

-----------------------------------------------------------------------------

\* The digests in the files whose claims they are.
DigestsOf(c) == {s \in UNION {wiki[p].digest.of : p \in {q \in Docs : wiki[q].kind = "claim"}} :
                    s.id = c}

\* What a start wiki holds a digest of was approved, whatever has become of it since.
Init ==
    /\ wiki \in FirstWiki
    /\ mig = Idle /\ edits = 0 /\ touched = Files
    /\ blessed = [c \in Claims |-> {[text |-> s.text, revokes |-> s.revokes] : s \in DigestsOf(c)}]

Next ==
    \/ \E c \in Claims :
          \/ \E t \in Tiers, text \in Texts : NewDraft(c, t, text)
          \/ \E p \in Paths : \/ Approve(c, p)
                              \/ \E reason \in Reasons : Revoke(c, p, reason)
                              \/ \E text \in Texts : Redraft(c, p, text)
    \/ StartMigration \/ MigrationDone \/ MigrationEnds
    \/ \E p \in Paths : \/ MigrateOne(p) \/ Damage(p)
                        \/ \E q \in Paths : Copy(p, q) \/ Move(p, q)
                        \/ \E text \in Texts : Rewrite(p, text)
                        \/ \E st \in Statuses : SetStatus(p, st)

Spec == Init /\ [][Next]_vars

-----------------------------------------------------------------------------
(* Properties *)

\* What a command wrote reads back: a file that was not changed since parses, at
\* its path, and a scan accepts it with its digest, unless an owner made a second
\* file with the same id (render_claim_markdown, parse_claim_markdown).  The one
\* exception is what RevokedIsHistory is about.
WrittenIsAccepted ==
    \A p \in Files \ touched :
        \/ wiki[p] = Note /\ \E reason \in Reasons : Y!ChooseStyle(reason) = "literal"
        \/ /\ Parses(p) /\ wiki[p].schema = "okf"
           /\ {q \in Sharing(p) \ touched : {p.name, q.name} = {wiki[p].id}} \subseteq {p}
           /\ Sharing(p) = {p} => p \in Accepted(TRUE)

\* docs/plans/completed/trusted-agent-memory.md: "superseded or revoked claims
\* remain auditable", and yaml.rs says that below a field of a sequence item
\* "everything below steps by 2": a claim a command wrote is still a claim.
RevokedIsHistory == \A p \in Files \ touched : wiki[p].kind = "claim"

\* Whatever is written into frontmatter is read back as the same string, in every
\* position, but for a text of several lines in an item of a sequence, or below
\* other fields when it starts with a blank, and for a lone line break, which is
\* read back as nothing (choose_style, write_map, write_literal).
\* And every claim that may be written at all is read back field by field as it
\* was, so that the digest of what was read is the digest of what was signed: a
\* field that only one side knows would make every approval that uses it a tampered
\* one (render_claim_markdown, parse_okf_claim_frontmatter).  Nothing in it depends
\* on the wiki; it is stated of the empty one.
FrontmatterReadsBack ==
    Files = {} =>
        /\ \A s \in Scalars, place \in Y!Places :
              \/ Y!ChooseStyle(s) = "literal" /\ place = "item"
              \/ Y!ChooseStyle(s) = "literal" /\ place # "root" /\ s[1] \in {" ", "nl"}
              \/ Y!ReadBack(s, place) = IF s = <<"nl">> THEN <<>> ELSE s
        /\ \A c \in Renderings :
              F!Valid(c) => F!Read(F!Written(c), c.tier)
                              = F!Claim([c EXCEPT !.schema = "", !.type = F!OkfType])

\* A scan accepts as approved only a text that was once approved under this very
\* id and not revoked since, whatever was moved, copied, edited, set back to
\* approved by hand, or migrated in between (verify_claim_digest, which covers the
\* recorded transitions, and migrate_legacy_claim).
OnlyBlessedText ==
    \A p \in Accepted(TRUE) :
        wiki[p].st = "approved" => AsApproved(p) \in blessed[wiki[p].id]

\* When a migration reports success and nobody else wrote meanwhile, every claim
\* is still there, in the OKF form, with its text and its status, except that
\* approvals that cannot be verified are drafts; an earlier migration that died
\* half way makes no difference, and a further one has nothing to do (migrate_okf).
MigrationIsFaithful ==
    mig.phase = "done" /\ mig.clean =>
        /\ Legacy = {}
        /\ \A p \in Paths :
              LET old == mig.before[p]  new == wiki[p]
              IN  new # old =>
                    /\ old.schema = "legacy" /\ new.id = old.id /\ new.text = old.text
                    /\ p \in Accepted(TRUE)
                    /\ new.st # old.st =>
                          /\ old.st = "approved" /\ new.st = "draft"
                          /\ old.digest # Sha(old.id, p.tier, old.text, old.contradicts, old.revokes)

\* A claim that a scan accepts and that has the path the program gives it is found
\* by its id, or the lookup fails; it never yields another file, so a command acts
\* on the claim that is served (read_canonical_claims_by_id, scan_workspace).
FoundAsAccepted ==
    \A p \in Accepted(FALSE) :
        Lookup(wiki[p].id).ok =>
            /\ Lookup(wiki[p].id).paths \subseteq {p}
            /\ (p.name = wiki[p].id \/ HasNested) => Lookup(wiki[p].id).paths = {p}
=============================================================================
