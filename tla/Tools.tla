------------------------------- MODULE Tools -------------------------------
(***************************************************************************)
(* What the tools of the gateway take (mcp/gateway.rs).  The server keeps  *)
(* two tables: the inputs it checks the arguments of a call against, and   *)
(* the JSON schemas it advertises in tools/list.  They are written apart   *)
(* in the code, and apart here.                                            *)
(*                                                                         *)
(* A JSON value is its kind and what the tools read of it: the text of a   *)
(* string, the value of a number, the items of an array, the members of an *)
(* object.  A number without a fraction is an "integer", however written.  *)
(***************************************************************************)
EXTENDS Integers, Sequences, FiniteSets

Json(kind) == [kind |-> kind, text |-> "", number |-> 0, items |-> <<>>, members |-> <<>>]
Absent     == Json("absent")

-----------------------------------------------------------------------------
(* The inputs the server checks: ToolInput *)

Input(required, properties) == [required |-> required, properties |-> properties]

CaptureInput == Input({"file", "origin"},
    [workspace |-> "string", file |-> "string", origin |-> "string", media_type |-> "string"])

AskInput == Input({"query"},
    [query |-> "string", workspace |-> "string", include |-> "strings", embedding |-> "boolean",
     after |-> "string", before |-> "string", as_of |-> "string"])

CurrentInput == Input({}, <<>>)
StatusInput  == Input({}, [workspace |-> "string"])
ReindexInput == Input({}, [workspace |-> "string", embedding |-> "boolean"])

DraftProperties ==
    [workspace |-> "string", tier |-> "string", title |-> "string", basis |-> "string",
     evidence |-> "strings", support |-> "strings", conflicts_with |-> "strings",
     body |-> "string"]

\* Mutant: the body of a draft may be left out.
DraftInput_NoBody == Input({"tier", "title", "basis"}, DraftProperties)
DraftInput        == Input({"tier", "title", "basis", "body"}, DraftProperties)

LifecycleInput == Input({"operation"},
    [operation |-> "string", action |-> "string", workspace |-> "string", claim_id |-> "string",
     challenge_id |-> "string", token |-> "string", canonical_draft_digest |-> "string",
     superseded_ids |-> "strings", prior_verification_digest |-> "string",
     revoke_reason |-> "string"])

BeginInput  == Input({"specs"}, [workspace |-> "string", specs |-> "specs"])
NextInput   == Input({"run_id"}, [workspace |-> "string", run_id |-> "string"])
SubmitInput == Input({"run_id", "index", "body"},
    [workspace |-> "string", run_id |-> "string", index |-> "integer", body |-> "string"])

SpecInput == Input({"tier", "title", "basis"},
    [tier |-> "string", title |-> "string", basis |-> "string",
     evidence |-> "strings", support |-> "strings", conflicts_with |-> "strings"])

\* call_tool_with_client: the body a name selects.
Inputs ==
    [evidence_capture |-> CaptureInput, workspace_current |-> CurrentInput,
     memory_ask |-> AskInput, memory_status |-> StatusInput, memory_reindex |-> ReindexInput,
     claim_draft |-> DraftInput, claim_lifecycle |-> LifecycleInput,
     campaign_begin |-> BeginInput, campaign_next |-> NextInput,
     campaign_submit_draft |-> SubmitInput]

\* validate_object: every property fits, none is unknown, none is missing.
ValidObject(v, input, Fits(_, _)) ==
    /\ \A n \in DOMAIN v.members \cap DOMAIN input.properties :
          Fits(v.members[n], input.properties[n])
    /\ DOMAIN v.members \subseteq DOMAIN input.properties
    /\ input.required \subseteq DOMAIN v.members

\* A nullable array.
AllItems(v, Fits(_)) ==
    \/ v.kind = "null"
    \/ v.kind = "array" /\ \A i \in DOMAIN v.items : Fits(v.items[i])

\* validate_value, of what a draft spec has, and of what any tool has.
IsString(v) == v.kind = "string"
ValidField(v, kind) == IF kind = "strings" THEN AllItems(v, IsString) ELSE v.kind = kind

ValidSpec(v) == v.kind = "object" /\ ValidObject(v, SpecInput, ValidField)
ValidValue(v, kind) == IF kind = "specs" THEN AllItems(v, ValidSpec) ELSE ValidField(v, kind)

\* validate_arguments.
ValidArguments(args, input) ==
    \/ args.kind = "absent" /\ input.required = {}
    \/ args.kind = "object" /\ ValidObject(args, input, ValidValue)

-----------------------------------------------------------------------------
(* The schemas the server advertises *)

Schema(types, items, properties, required) ==
    [types |-> types, items |-> items, properties |-> properties, required |-> required]

StringProperty  == Schema({"string"}, <<>>, <<>>, {})
BooleanProperty == Schema({"boolean"}, <<>>, <<>>, {})
IntegerProperty == Schema({"integer"}, <<>>, <<>>, {})
ListOf(schema)  == Schema({"null", "array"}, <<schema>>, <<>>, {})
StringsProperty == ListOf(StringProperty)
Closed(properties, required) == Schema({"object"}, <<>>, properties, required)

CaptureSchema ==
    Closed([workspace |-> StringProperty, file |-> StringProperty, origin |-> StringProperty,
            media_type |-> StringProperty],
           {"file", "origin"})

AskSchema ==
    Closed([query |-> StringProperty, workspace |-> StringProperty, include |-> StringsProperty,
            embedding |-> BooleanProperty, after |-> StringProperty, before |-> StringProperty,
            as_of |-> StringProperty],
           {"query"})

CurrentSchema == Closed(<<>>, {})
StatusSchema  == Closed([workspace |-> StringProperty], {})
ReindexSchema == Closed([workspace |-> StringProperty, embedding |-> BooleanProperty], {})

DraftSchema ==
    Closed([workspace |-> StringProperty, tier |-> StringProperty, title |-> StringProperty,
            basis |-> StringProperty, evidence |-> StringsProperty, support |-> StringsProperty,
            conflicts_with |-> StringsProperty, body |-> StringProperty],
           {"tier", "title", "basis", "body"})

LifecycleSchema ==
    Closed([operation |-> StringProperty, action |-> StringProperty,
            workspace |-> StringProperty, claim_id |-> StringProperty,
            challenge_id |-> StringProperty, token |-> StringProperty,
            canonical_draft_digest |-> StringProperty, superseded_ids |-> StringsProperty,
            prior_verification_digest |-> StringProperty, revoke_reason |-> StringProperty],
           {"operation"})

SpecSchema ==
    Closed([tier |-> StringProperty, title |-> StringProperty, basis |-> StringProperty,
            evidence |-> StringsProperty, support |-> StringsProperty,
            conflicts_with |-> StringsProperty],
           {"tier", "title", "basis"})

BeginSchema  == Closed([workspace |-> StringProperty, specs |-> ListOf(SpecSchema)], {"specs"})
NextSchema   == Closed([workspace |-> StringProperty, run_id |-> StringProperty], {"run_id"})
SubmitSchema ==
    Closed([workspace |-> StringProperty, run_id |-> StringProperty,
            index |-> IntegerProperty, body |-> StringProperty],
           {"run_id", "index", "body"})

\* tools.
Advertised ==
    [campaign_begin |-> BeginSchema, campaign_next |-> NextSchema,
     campaign_submit_draft |-> SubmitSchema, claim_draft |-> DraftSchema,
     claim_lifecycle |-> LifecycleSchema, evidence_capture |-> CaptureSchema,
     memory_ask |-> AskSchema, memory_reindex |-> ReindexSchema,
     memory_status |-> StatusSchema, workspace_current |-> CurrentSchema]

\* What JSON Schema says of these keywords, external: Within judges what is within the
\* value.  No schema of a tool goes deeper than the strings of a list of a spec in
\* the list of specs of a call.
Meets(v, schema, Within(_, _)) ==
    /\ v.kind \in schema.types
    /\ v.kind = "array" /\ schema.items # <<>> =>
          \A i \in DOMAIN v.items : Within(v.items[i], schema.items[1])
    /\ v.kind = "object" =>
          /\ DOMAIN v.members \subseteq DOMAIN schema.properties
          /\ schema.required \subseteq DOMAIN v.members
          /\ \A n \in DOMAIN v.members : Within(v.members[n], schema.properties[n])

IsOfType(v, schema)      == v.kind \in schema.types
FieldConforms(v, schema) == Meets(v, schema, IsOfType)
SpecConforms(v, schema)  == Meets(v, schema, FieldConforms)
ValueConforms(v, schema) == Meets(v, schema, SpecConforms)
Conforms(v, schema)      == Meets(v, schema, ValueConforms)

-----------------------------------------------------------------------------
(* What the bodies read of accepted arguments *)

Member(args, name) == IF name \in DOMAIN args.members THEN args.members[name] ELSE Absent
Text(args, name)   == Member(args, name).text

\* campaign_spec_from_json; the specs of a call, none for null.
Specs(args) == Member(args, "specs").items

\* validate_claim, of what a draft or a spec leaves to the caller.
Tiers  == {"axioms", "mental-models", "projects", "decisions"}
Bases  == {"owner", "evidence", "derived"}
Draftable(v) == /\ Text(v, "tier") \in Tiers /\ Text(v, "title") # ""
                /\ Text(v, "basis") \in Bases

\* What a draft cites: one identifier stands for its lists.
Citation(v) == Member(v, "evidence").items[1].text

\* campaign_index: after validation, an integer.
Index(args) == Member(args, "index").number
=============================================================================
