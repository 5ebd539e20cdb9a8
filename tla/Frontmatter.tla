----------------------------- MODULE Frontmatter -----------------------------
(***************************************************************************)
(* The frontmatter of a claim document as claims.rs reads and writes it:   *)
(* the closed schemas, what an absent, a null or a mistyped field becomes, *)
(* what a claim must satisfy, and the mapping it is rendered to.  The      *)
(* digest of an approval is the digest of this rendering of what was read, *)
(* so a field that is written and not read, or read and not written, would *)
(* make an approved claim a tampered one, or a tampered one approved.      *)
(*                                                                         *)
(* A node is a YAML value with its kind, a mapping is a function from the  *)
(* fields that are present.                                                *)
(***************************************************************************)
EXTENDS Integers, Sequences, SequencesExt

CONSTANTS
    ClaimIds, EvidenceIds,  \* clm_<32 hex>, evd_<32 hex>
    WikiTiers

\* The values of the other strings: empty, blank, a time, a digest, anything else.
Blank(s)   == s \in {"", " "}
IsTime(s)  == s = "2026-01-02T03:04:05Z"
IsSha(s)   == s \in {"sha256:ab", "sha256:span-v1:ab"}
IsSpan(s)  == s = "sha256:span-v1:ab"
ChallengeIds == {"chg_ab"}
LegacySchema == "zbrain.claim/v1"
OkfType      == "zbrain.claim"
Profile      == "zbrain.trusted-memory/v1"

-----------------------------------------------------------------------------
(* The structs.  An Option is a sequence of at most one. *)

AnyText == ClaimIds \cup EvidenceIds \cup WikiTiers \cup STRING
Option(S) == {given \in Seq(S) : Len(given) <= 1}

EvidenceSpans == [evidence_id : AnyText, start_line : Int, end_line : Int, digest : AnyText]
ClaimSources  == [id : AnyText, resource : AnyText, title : AnyText, digest : AnyText,
                  spans : Seq(EvidenceSpans)]
Contradictions == [claim_id : AnyText, heuristic : AnyText]
Authorizations == [challenge_id : AnyText, method : AnyText, mcp_client : AnyText]
ClaimTransitions ==
    [kind : AnyText, at : AnyText, by : AnyText, reason : AnyText,
     related_claim_ids : Seq(AnyText), prior_verification_digest : AnyText,
     authorization : Option(Authorizations)]
ClaimStructs ==
    [schema : AnyText, type : AnyText, id : AnyText, tier : AnyText, status : AnyText,
     title : AnyText, description : AnyText, resource : AnyText, basis : AnyText,
     created_at : AnyText, created_by : AnyText, verified_at : AnyText, verified_by : AnyText,
     verified_digest : AnyText, stale_after : AnyText, sources : Seq(ClaimSources),
     evidence_ids : Seq(AnyText), supporting_claim_ids : Seq(AnyText),
     supersedes : Seq(AnyText), conflicts_with : Seq(AnyText),
     contradicts : Seq(Contradictions), tags : Seq(AnyText),
     transitions : Seq(ClaimTransitions)]

-----------------------------------------------------------------------------
(* The schemas *)

String  == [as |-> "string", of |-> "-"]
Integer == [as |-> "integer", of |-> "-"]
StringList == [as |-> "strings", of |-> "-"]
ListOf(table) == [as |-> "list", of |-> table]    \* mapping_list
Optional(table) == [as |-> "optional", of |-> table] \* mapping: absent or null is none
Required(table) == [as |-> "required", of |-> table] \* mapping: absent or null is the default

ProbeFields == [schema |-> String, type |-> String]
SpanFields  == [evidence_id |-> String, start_line |-> Integer, end_line |-> Integer,
                digest |-> String]
SourceFields == [id |-> String, resource |-> String, title |-> String, digest |-> String,
                 spans |-> ListOf("span")]
ContradictionFields == [claim_id |-> String, heuristic |-> String]
AuthorizationFields == [challenge_id |-> String, method |-> String, mcp_client |-> String]
TransitionFields ==
    [kind |-> String, at |-> String, by |-> String, reason |-> String,
     related_claim_ids |-> StringList, prior_verification_digest |-> String,
     authorization |-> Optional("authorization")]
GeneratedFields == [at |-> String, by |-> String]
VerifiedFields  == [at |-> String, by |-> String, digest |-> String]

ProfileFields ==
    [profile |-> String, id |-> String, tier |-> String, basis |-> String,
     evidence_ids |-> StringList, supporting_claim_ids |-> StringList,
     supersedes |-> StringList, conflicts_with |-> StringList,
     contradicts |-> ListOf("contradiction"), transitions |-> ListOf("transition")]
OkfFields ==
    [type |-> String, title |-> String, description |-> String, resource |-> String,
     tags |-> StringList, sources |-> ListOf("source"), generated |-> Optional("generated"),
     verified |-> Optional("verified"), status |-> String, stale_after |-> String,
     zbrain |-> Required("profile")]
LegacyFields ==
    [schema |-> String, id |-> String, status |-> String, title |-> String,
     description |-> String, resource |-> String, basis |-> String, created_at |-> String,
     created_by |-> String, verified |-> Optional("verified"), stale_after |-> String,
     sources |-> ListOf("source"), evidence_ids |-> StringList,
     supporting_claim_ids |-> StringList, supersedes |-> StringList,
     conflicts_with |-> StringList, tags |-> StringList, transitions |-> ListOf("transition")]

Tables ==
    [probe |-> ProbeFields, span |-> SpanFields, source |-> SourceFields,
     contradiction |-> ContradictionFields, authorization |-> AuthorizationFields,
     transition |-> TransitionFields, generated |-> GeneratedFields,
     verified |-> VerifiedFields, profile |-> ProfileFields, okf |-> OkfFields,
     legacy |-> LegacyFields]

-----------------------------------------------------------------------------
(* Typed access: yaml::de *)

Node(kind, value) == [is |-> kind, of |-> value]
Null == Node("null", "-")
IsMapping(node) == node.is = "mapping"

\* The nodes below a field that must be mappings.
Inside(type, node) ==
    CASE type.as = "list" -> ToSet(node.of)
      [] type.as # "list" -> IF node.is = "null" THEN {} ELSE {node}

Nested(type) == type.as \in {"list", "optional", "required"}

\* de::string, integer and string_list
PlainFits(type, node) ==
    \/ type.as \in {"string", "integer"} /\ node.is = type.as
    \/ /\ type.as = "strings" /\ node.is = "sequence"
       /\ \A i \in DOMAIN node.of : node.of[i].is = "string"

\* No field of the schema has another kind than it must; other fields are ignored.
\* Inner judges the mappings below.
FieldsFit(table, map, Inner(_, _)) ==
    \A f \in DOMAIN Tables[table] \cap DOMAIN map :
        LET type == Tables[table][f]  node == map[f]
        IN  \/ PlainFits(type, node)
            \/ /\ Nested(type) /\ (type.as = "list" => node.is = "sequence")
               /\ \A below \in Inside(type, node) : IsMapping(below) /\ Inner(type.of, below.of)

\* The deepest mapping is the authorization of a transition of the profile.
Deeper(table, map)       == FALSE
LeafFits(table, map)     == FieldsFit(table, map, Deeper)
ItemFits(table, map)     == FieldsFit(table, map, LeafFits)
MappingFits(table, map)  == FieldsFit(table, map, ItemFits)
Fits(table, map)         == FieldsFit(table, map, MappingFits)

NoFields == [f \in {} |-> Null]

IsGiven(map, f) == f \in DOMAIN map /\ map[f].is # "null"

\* The mappings below a field, in order.
Below(type, map, f) ==
    CASE type.as = "list" /\ IsGiven(map, f) -> [i \in DOMAIN map[f].of |-> map[f].of[i].of]
      [] type.as \in {"optional", "required"} /\ IsGiven(map, f) -> <<map[f].of>>
      [] type.as = "required" /\ ~IsGiven(map, f) -> <<NoFields>>
      [] OTHER -> <<>>
Gathered(type, values) == IF type.as = "required" THEN values[1] ELSE values

\* What a field of a plain type holds; absent and null are the default.
PlainValue(type, map, f) ==
    CASE type.as = "string"  -> IF IsGiven(map, f) THEN map[f].of ELSE ""
      [] type.as = "integer" -> IF IsGiven(map, f) THEN map[f].of ELSE 0
      [] type.as = "strings" ->
            IF IsGiven(map, f) THEN [i \in DOMAIN map[f].of |-> map[f].of[i].of] ELSE <<>>

\* The struct that from_map makes of a mapping that fits.
FieldValues(table, map, Inner(_, _)) ==
    [f \in DOMAIN Tables[table] |->
        LET type == Tables[table][f]  below == Below(type, map, f)
        IN  IF Nested(type) THEN Gathered(type, [i \in DOMAIN below |-> Inner(type.of, below[i])])
            ELSE PlainValue(type, map, f)]

NoValues(table, map)      == NoFields
LeafValues(table, map)    == FieldValues(table, map, NoValues)
ItemValues(table, map)    == FieldValues(table, map, LeafValues)
MappingValues(table, map) == FieldValues(table, map, ItemValues)
Values(table, map)        == FieldValues(table, map, MappingValues)

-----------------------------------------------------------------------------
(* What a claim must satisfy *)

ValidSpan(span) ==
    /\ span.evidence_id \in EvidenceIds /\ IsSpan(span.digest)
    /\ 1 <= span.start_line /\ span.start_line <= span.end_line

ValidSource(source) ==
    /\ \A i \in DOMAIN source.spans : ValidSpan(source.spans[i])
    /\ source.id = "" \/ source.id \in EvidenceIds
    /\ source.digest = "" \/ IsSha(source.digest)

\* validate_claim_transition_authorization
ValidAuthorization(given) ==
    \A i \in DOMAIN given :
        /\ given[i].challenge_id \in ChallengeIds
        /\ ~Blank(given[i].method) /\ ~Blank(given[i].mcp_client)

\* validate_claim_transition
ValidTransition(change) ==
    /\ change.kind \in {"approve", "supersede", "revoke"}
    /\ IsTime(change.at) /\ ~Blank(change.by)
    /\ change.prior_verification_digest = "" \/ IsSha(change.prior_verification_digest)
    /\ ValidAuthorization(change.authorization)
    /\ ToSet(change.related_claim_ids) \subseteq ClaimIds /\ IsInjective(change.related_claim_ids)

ValidTransitions(changes) == \A i \in DOMAIN changes : ValidTransition(changes[i])

\* validate_claim
Valid(c) ==
    /\ c.schema \in {"", LegacySchema} /\ c.type \in {"", OkfType}
    /\ c.id \in ClaimIds /\ c.tier \in WikiTiers
    /\ c.status \in {"draft", "approved", "superseded", "revoked"}
    /\ ~Blank(c.title) /\ c.basis \in {"owner", "evidence", "derived"}
    /\ \A i \in DOMAIN c.sources : ValidSource(c.sources[i])
    /\ IsTime(c.created_at) /\ ~Blank(c.created_by)
    /\ \/ c.verified_at = "" /\ c.verified_by = "" /\ c.verified_digest = ""
       \/ IsTime(c.verified_at) /\ ~Blank(c.verified_by) /\ IsSha(c.verified_digest)
    /\ c.stale_after = "" \/ IsTime(c.stale_after)
    /\ ToSet(c.evidence_ids) \subseteq EvidenceIds
    /\ \A f \in {"supporting_claim_ids", "supersedes", "conflicts_with"} : ToSet(c[f]) \subseteq ClaimIds
    /\ \A i \in DOMAIN c.contradicts :
          /\ c.contradicts[i].claim_id \in ClaimIds
          /\ c.contradicts[i].heuristic \in {"negation", "value_swap", "status_change"}
    /\ ValidTransitions(c.transitions)

-----------------------------------------------------------------------------
(* Reading *)

Unread == [read |-> "error"]
Claim(c) == [read |-> "claim", claim |-> c]

Pair(given, f) == IF given = <<>> THEN "" ELSE given[1][f]

\* The claim that the values make: `own` holds the profile of an OKF document and
\* the top mapping of a legacy one.
Made(schema, v, own, tier, contradicts, at, by) ==
    [schema |-> schema, type |-> OkfType, id |-> own.id, tier |-> tier, status |-> v.status,
     title |-> v.title, description |-> v.description, resource |-> v.resource,
     basis |-> own.basis, created_at |-> at, created_by |-> by,
     verified_at |-> Pair(v.verified, "at"), verified_by |-> Pair(v.verified, "by"),
     verified_digest |-> Pair(v.verified, "digest"), stale_after |-> v.stale_after,
     sources |-> v.sources, evidence_ids |-> own.evidence_ids,
     supporting_claim_ids |-> own.supporting_claim_ids, supersedes |-> own.supersedes,
     conflicts_with |-> own.conflicts_with, contradicts |-> contradicts, tags |-> v.tags,
     transitions |-> own.transitions]

MadeOkf(v, own, tier) ==
    Made("", v, own, IF own.tier = "" THEN tier ELSE own.tier, own.contradicts,
         Pair(v.generated, "at"), Pair(v.generated, "by"))
MadeLegacy(v, tier) == Made(v.schema, v, v, tier, <<>>, v.created_at, v.created_by)

Checked(c, others) == IF others /\ Valid(c) THEN Claim(c) ELSE Unread

\* parse_okf_claim_frontmatter, below wiki/<tier>/
InTier(c, own, tier) == Checked(c, own.profile = Profile /\ c.tier = tier)
FromOkf(v, tier) == InTier(MadeOkf(v, v.zbrain, tier), v.zbrain, tier)
ReadOkf(map, tier) ==
    IF Fits("okf", map) THEN FromOkf(Values("okf", map), tier) ELSE Unread

\* parse_legacy_claim_frontmatter: an approved claim with a digest that is none
\* is read all the same, when it is valid without its verification.
OnlyDigest(c) ==
    /\ IsTime(c.verified_at) /\ ~Blank(c.verified_by) /\ c.status = "approved"
    /\ Valid([c EXCEPT !.verified_at = "", !.verified_by = "", !.verified_digest = ""])
Legacy(c) == IF OnlyDigest(c) THEN Claim(c) ELSE Checked(c, TRUE)
ReadLegacy(map, tier) ==
    IF Fits("legacy", map) THEN Legacy(MadeLegacy(Values("legacy", map), tier)) ELSE Unread

\* is_zbrain_claim_document, then parse_claim_markdown.
ReadAs(probe, map, tier) ==
    CASE probe.schema = LegacySchema -> ReadLegacy(map, tier)
      [] probe.schema # LegacySchema /\ probe.type = OkfType -> ReadOkf(map, tier)
      [] OTHER -> [read |-> "note"]
Read(map, tier) ==
    IF Fits("probe", map) THEN ReadAs(Values("probe", map), map, tier) ELSE [read |-> "note"]

-----------------------------------------------------------------------------
(* Writing *)

Str(s)  == Node("string", s)
Strs(s) == Node("sequence", [i \in DOMAIN s |-> Str(s[i])])
Maps(ms) == Node("sequence", [i \in DOMAIN ms |-> Node("mapping", ms[i])])

\* An Option as a node.
OneMap(ms) == IF ms = <<>> THEN Null ELSE Node("mapping", ms[1])

\* Fields that are written only when they are not empty.
Blanks(r, fields) == {f \in fields : r[f] = ""}
Nones(r, fields)  == {f \in fields : r[f] = <<>>}
LeavingOut(fields, map) == [f \in DOMAIN map \ fields |-> map[f]]

WrittenSpan(s) ==
    [evidence_id |-> Str(s.evidence_id), start_line |-> Node("integer", s.start_line),
     end_line |-> Node("integer", s.end_line), digest |-> Str(s.digest)]

\* sources_to_yaml
WrittenSource(s) ==
    LeavingOut(Blanks(s, {"title"}) \cup Nones(s, {"spans"}),
        [id |-> Str(s.id), resource |-> Str(s.resource), title |-> Str(s.title),
         digest |-> Str(s.digest), spans |-> Maps([i \in DOMAIN s.spans |-> WrittenSpan(s.spans[i])])])

WrittenAuthorization(a) ==
    LeavingOut(Blanks(a, {"method", "mcp_client"}),
        [challenge_id |-> Str(a.challenge_id), method |-> Str(a.method),
         mcp_client |-> Str(a.mcp_client)])

\* transitions_to_yaml
WrittenTransition(t) ==
    LeavingOut(Blanks(t, {"reason", "prior_verification_digest"})
               \cup Nones(t, {"related_claim_ids", "authorization"}),
        [kind |-> Str(t.kind), at |-> Str(t.at), by |-> Str(t.by), reason |-> Str(t.reason),
         related_claim_ids |-> Strs(t.related_claim_ids),
         prior_verification_digest |-> Str(t.prior_verification_digest),
         authorization |-> OneMap([i \in DOMAIN t.authorization |->
                                      WrittenAuthorization(t.authorization[i])])])

WrittenContradiction(d) == [claim_id |-> Str(d.claim_id), heuristic |-> Str(d.heuristic)]

Lists == {"evidence_ids", "supporting_claim_ids", "supersedes", "conflicts_with"}

WrittenProfile(c) ==
    LeavingOut(Nones(c, Lists \cup {"contradicts", "transitions"}),
        [profile |-> Str(Profile), id |-> Str(c.id), tier |-> Str(c.tier), basis |-> Str(c.basis),
         evidence_ids |-> Strs(c.evidence_ids),
         supporting_claim_ids |-> Strs(c.supporting_claim_ids),
         supersedes |-> Strs(c.supersedes), conflicts_with |-> Strs(c.conflicts_with),
         contradicts |-> Maps([i \in DOMAIN c.contradicts |-> WrittenContradiction(c.contradicts[i])]),
         transitions |-> Maps([i \in DOMAIN c.transitions |-> WrittenTransition(c.transitions[i])])])

Generated(c) == IF c.created_at = "" /\ c.created_by = "" THEN <<>>
                ELSE <<[at |-> c.created_at, by |-> c.created_by]>>
Verified(c)  == IF c.verified_at = "" /\ c.verified_by = "" /\ c.verified_digest = "" THEN <<>>
                ELSE <<[at |-> c.verified_at, by |-> c.verified_by, digest |-> c.verified_digest]>>
WrittenPair(given) == [f \in DOMAIN given |-> Str(given[f])]

\* render_claim_markdown
Written(c) ==
    LET generated == [i \in DOMAIN Generated(c) |-> WrittenPair(Generated(c)[i])]
        verified  == [i \in DOMAIN Verified(c) |-> WrittenPair(Verified(c)[i])]
    IN  LeavingOut(Blanks(c, {"description", "resource", "stale_after"})
                   \cup Nones(c, {"tags", "sources"})
                   \cup (IF generated = <<>> THEN {"generated"} ELSE {})
                   \cup (IF verified = <<>> THEN {"verified"} ELSE {}),
            [type |-> Str(OkfType), title |-> Str(c.title), description |-> Str(c.description),
             resource |-> Str(c.resource), tags |-> Strs(c.tags),
             sources |-> Maps([i \in DOMAIN c.sources |-> WrittenSource(c.sources[i])]),
             generated |-> OneMap(generated), verified |-> OneMap(verified),
             status |-> Str(c.status), stale_after |-> Str(c.stale_after),
             zbrain |-> Node("mapping", WrittenProfile(c))])
=============================================================================
